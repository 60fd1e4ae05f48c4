--------------------------- MODULE MCHorizonIndexer ---------------------------
(***************************************************************************)
(* Instances of HorizonIndexer for TLC.  In the chain of three, payment 1  *)
(* was made before the service was deployed; the others happen later.      *)
(***************************************************************************)
EXTENDS HorizonIndexer

\* Three payments, a ledger, a transaction and a wallet each.
ApartLedger == <<1, 3, 4>>
ApartTx     == <<1, 2, 3>>

\* Two payments of one transaction, to two projects.
PairLedger == <<2, 2>>
PairTx     == <<1, 1>>
PairWallet == <<"w1", "w2">>

OneWallet  == <<"w1", "w1", "w1">>

===============================================================================
