--------------------------- MODULE MCVoterGovernance ---------------------------
EXTENDS VoterGovernance

\* voting_weight_from_badge of None, Seedling and Tree
ThreeTiers  == <<0, 100, 141>>
SomeBallots == {<<7, 0>>}
===============================================================================
