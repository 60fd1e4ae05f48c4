----------------------------- MODULE MCEscrowJobs -----------------------------
(***************************************************************************)
(* Instances of EscrowJobs for TLC.  Amount 3 in halves has the rounded    *)
(* shares 1 and 1, so the last milestone must take the remainder; a plan  *)
(* of 60 and 60 is one that create_job and amend_job_milestones refuse.    *)
(***************************************************************************)
EXTENDS EscrowJobs, TLC

OddAmount   == {3}
SmallPlans  == {<<100>>, <<50, 50>>, <<60, 60>>}
AllFresh    == {Fresh}
MaybeOpen   == {Fresh, [released |-> FALSE, disputed |-> TRUE]}
ShortWindow == {0, 1, 3}

Symmetric == Permutations(Ids) \cup Permutations(People)
===============================================================================
