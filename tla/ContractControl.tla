---------------------------- MODULE ContractControl ----------------------------
(***************************************************************************)
(* Who controls the donation contract                                      *)
(* (contracts/indigopay-contract/src/lib.rs): the admins, their threshold, *)
(* the two-step hand-over of an admin's place, the pause, suspended        *)
(* tokens, and upgrades.                                                   *)
(*                                                                         *)
(* A critical call needs the signatures of threshold admins, and admins    *)
(* always sign: the guard is that there are enough of them.                *)
(***************************************************************************)
EXTENDS Naturals, FiniteSets, LedgerClock

CONSTANTS
  Persons, Suspendable,      \* addresses; tokens
  Wasms, Lock, NoWasm,       \* as in UpgradeTimelock
  Nobody                     \* model value

ASSUME ControlAssumption == IsFiniteSet(Persons) /\ LastLedger \in Nat /\ Lock \in Nat

VARIABLES
  adminSet,       \* AdminSet; the code never puts an address in twice
  threshold,      \* AdminThreshold
  pendingAdmin,   \* PendingAdmin: the old and the new admin
  contractPaused, suspended,
  upgrade

ctlVars == <<now, adminSet, threshold, pendingAdmin, contractPaused, suspended, upgrade>>

NoHandOver == <<Nobody, Nobody>>

Upgrades == INSTANCE UpgradeTimelock

-------------------------------------------------------------------------------
(* Admins.                                                                 *)

\* require_admin_for_critical
Signed == Cardinality(adminSet) >= threshold

TransferAdmin(old, new) ==
  /\ Signed /\ pendingAdmin = NoHandOver /\ old \in adminSet /\ new \notin adminSet
  /\ pendingAdmin' = <<old, new>>
  /\ UNCHANGED <<now, adminSet, threshold, contractPaused, suspended, upgrade>>

\* Mutant: whether the new admin has become one meanwhile is not asked again.
AcceptsStale == pendingAdmin[1] \in adminSet

\* The two checks of accept_admin that the hand-over is not stale.
StillDue == pendingAdmin[1] \in adminSet /\ pendingAdmin[2] \notin adminSet

AcceptAdmin ==
  /\ pendingAdmin # NoHandOver /\ StillDue
  /\ adminSet' = (adminSet \ {pendingAdmin[1]}) \cup {pendingAdmin[2]}
  /\ pendingAdmin' = NoHandOver
  /\ UNCHANGED <<now, threshold, contractPaused, suspended, upgrade>>

CancelAdminTransfer ==
  /\ Signed /\ pendingAdmin # NoHandOver
  /\ pendingAdmin' = NoHandOver
  /\ UNCHANGED <<now, adminSet, threshold, contractPaused, suspended, upgrade>>

AddAdmin(a) ==
  /\ Signed /\ a \notin adminSet
  /\ adminSet' = adminSet \cup {a}
  /\ UNCHANGED <<now, threshold, pendingAdmin, contractPaused, suspended, upgrade>>

\* A hand-over that names the admin stays pending.
RemoveAdmin(a) ==
  /\ Signed /\ a \in adminSet /\ Cardinality(adminSet) - 1 >= threshold
  /\ adminSet' = adminSet \ {a}
  /\ UNCHANGED <<now, threshold, pendingAdmin, contractPaused, suspended, upgrade>>

ValidThreshold(n) == n > 0 /\ n <= Cardinality(adminSet)

UpdateThreshold(n) ==
  /\ Signed /\ ValidThreshold(n)
  /\ threshold' = n
  /\ UNCHANGED <<now, adminSet, pendingAdmin, contractPaused, suspended, upgrade>>

-------------------------------------------------------------------------------
(* Pause, suspension, upgrade.                                             *)

PauseContract(paused) ==
  /\ Signed /\ contractPaused' = paused
  /\ UNCHANGED <<now, adminSet, threshold, pendingAdmin, suspended, upgrade>>

\* suspend_token and resume_token, which one admin calls.
SuspendToken(t) ==
  /\ suspended' \in {suspended \cup {t}, suspended \ {t}}
  /\ UNCHANGED <<now, adminSet, threshold, pendingAdmin, contractPaused, upgrade>>

Upgrade ==
  /\ \/ Signed /\ \E w \in Wasms : Upgrades!ProposeUpgrade(w)
     \/ Upgrades!ExecuteUpgrade
     \/ Signed /\ Upgrades!CancelUpgrade
  /\ UNCHANGED <<now, adminSet, threshold, pendingAdmin, contractPaused, suspended>>

-------------------------------------------------------------------------------
ControlInit ==
  /\ now = FirstLedger
  /\ \E a \in Persons : adminSet = {a}
  /\ threshold = 1 /\ pendingAdmin = NoHandOver
  /\ contractPaused = FALSE /\ suspended = {} /\ upgrade = Upgrades!NoUpgrade

ControlCloses ==
  Closes /\ UNCHANGED <<adminSet, threshold, pendingAdmin, contractPaused, suspended, upgrade>>

ControlNext ==
  \/ ControlCloses \/ AcceptAdmin \/ CancelAdminTransfer \/ Upgrade
  \/ \E a \in Persons :
       \/ AddAdmin(a) \/ RemoveAdmin(a)
       \/ \E b \in Persons : TransferAdmin(a, b)
  \/ \E n \in 0 .. Cardinality(Persons) : UpdateThreshold(n)
  \/ \E paused \in BOOLEAN : PauseContract(paused)
  \/ \E t \in Suspendable : SuspendToken(t)

ControlSpec == ControlInit /\ [][ControlNext]_ctlVars

-------------------------------------------------------------------------------
(* Properties                                                              *)

\* Every variable has its type.
ControlTypeOK ==
  /\ adminSet \subseteq Persons /\ threshold \in 1 .. Cardinality(Persons)
  /\ pendingAdmin \in (Persons \X Persons) \cup {NoHandOver}
  /\ contractPaused \in BOOLEAN /\ suspended \subseteq Suspendable
  /\ upgrade \in [pending : Wasms \cup {NoWasm}, effective : Nat,
                  last : Wasms \cup {NoWasm}, since : Nat]

\* There are always enough admins to sign: no removal, no change of the threshold and
\* no hand-over that is accepted after other changes locks the contract.
QuorumReachable == Cardinality(adminSet) >= threshold

\* Code that is installed was announced the whole time lock before, also after a
\* cancelled or repeated proposal.
UpgradeAnnounced ==
  [][upgrade'.last # upgrade.last => now >= upgrade.since + Lock]_ctlVars

\* The contract can always be administered.
AuthorityHolds == ControlTypeOK /\ QuorumReachable
===============================================================================
