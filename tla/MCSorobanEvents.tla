---------------------------- MODULE MCSorobanEvents ----------------------------
(***************************************************************************)
(* Instances of SorobanEvents for TLC.                                     *)
(***************************************************************************)
EXTENDS SorobanEvents, TLC

\* Two donations around the creation of a plan.
PlanKinds == <<"donated", "rec_cr", "donated">>

\* A donation in the life of a plan, which is executed once.
LifeKinds == <<"rec_cr", "donated", "rec_exec", "rec_can">>

\* Donations only; one transaction each, or two of one batch_donate.
DonatedKinds == <<"donated", "donated", "donated">>
PairKinds    == <<"donated", "donated">>
ApartTx      == <<1, 2, 3, 4>>
ThreeTx      == <<1, 2, 3>>
PairTx       == <<1, 1>>

Symmetry == Permutations(Pollers)
===============================================================================
