--------------------------- MODULE MCDonationRecording ---------------------------
EXTENDS DonationRecording, TLC
TwoPayments == 1 .. 2
TwoDonors   == <<"d1", "d2">>
OneProject  == <<"p1", "p1">>
Amounts     == <<2, 1>>
Symmetric == Permutations(Requests) \cup Permutations(Keys)
==================================================================================
