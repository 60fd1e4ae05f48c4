---------------------------- MODULE DonationLedger ----------------------------
(***************************************************************************)
(* What the donation tables promise, whichever ingestion path writes them: *)
(* a payment has at most one row in `donations`, and the row and the       *)
(* increment of projects.raised_xlm it stands for are one atomic step.     *)
(* Specifications of the ingestion paths implement this one.               *)
(***************************************************************************)
EXTENDS Naturals

CONSTANT Payments              \* the payments to project wallets

VARIABLES rows,                \* payments with a row in `donations`
          credited             \* how often a payment was added to raised_xlm

vars == <<rows, credited>>

Init == /\ rows = {}
        /\ credited = [p \in Payments |-> 0]

Record(p) == /\ p \notin rows
             /\ rows' = rows \cup {p}
             /\ credited' = [credited EXCEPT ![p] = 1]

Next == \E p \in Payments : Record(p)

Spec == Init /\ [][Next]_vars

\* Each payment with a row was credited exactly once, every other one never.
CreditedOnce == \A p \in Payments : credited[p] = IF p \in rows THEN 1 ELSE 0
===============================================================================
