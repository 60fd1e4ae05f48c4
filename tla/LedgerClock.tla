------------------------------ MODULE LedgerClock ------------------------------
(***************************************************************************)
(* The ledger sequence that every Soroban contract reads                   *)
(* (env.ledger().sequence()); it advances by itself.                       *)
(***************************************************************************)
EXTENDS Naturals

CONSTANT LastLedger   \* bound: the last ledger

VARIABLE now          \* the current ledger

FirstLedger == 1
Closes == now < LastLedger /\ now' = now + 1
===============================================================================
