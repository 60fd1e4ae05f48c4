-------------------------- MODULE ProjectVerification --------------------------
(***************************************************************************)
(* Projects of the donation contract and their verification                *)
(* (contracts/indigopay-contract/src/lib.rs): registration, sub-projects,  *)
(* deactivation and pause, and the committee whose attestations make a     *)
(* project eligible for donations.                                         *)
(*                                                                         *)
(* Admin signatures and the contract's pause are left out.  Pending(n) is  *)
(* kept without its n, which is the number of attesters.                   *)
(***************************************************************************)
EXTENDS Naturals, FiniteSets

CONSTANTS
  Plots,           \* the projects
  Committee,       \* the addresses that may become verifiers
  Root             \* model value: no parent

ASSUME VerificationAssumption == IsFiniteSet(Committee)

VARIABLES
  project,         \* Project: active, paused, parent_project_id; "none" is no record
  verifiers,       \* VerifierSet
  needed,          \* VerificationThreshold
  attesters,       \* ProjectAttesters and ProjectAttestationEvidence
  verification,    \* ProjectVerification
  lowest           \* history: the lowest positive threshold so far, 0 for none

verVars == <<project, verifiers, needed, attesters, verification, lowest>>
trust   == <<verifiers, needed, attesters, verification, lowest>>

NoProject == [state |-> "none", paused |-> FALSE, parent |-> Root]
Known(p)  == project[p].state # "none"
Active(p) == project[p].state = "active"

-------------------------------------------------------------------------------
(* Projects.                                                               *)

Unregistered(p) == ~Known(p)

RegisterProject(p) ==
  /\ Unregistered(p)
  /\ project' = [project EXCEPT ![p] = [NoProject EXCEPT !.state = "active"]]
  /\ UNCHANGED trust

\* register_sub_project; the parent need not be active.
RegisterSubProject(p, parent) ==
  /\ Unregistered(p) /\ Known(parent)
  /\ project' = [project EXCEPT ![p] = [state |-> "active", paused |-> FALSE, parent |-> parent]]
  /\ UNCHANGED trust

\* deactivate_project reaches the sub-projects of the project, not theirs.
DeactivateProject(p) ==
  /\ Known(p)
  /\ project' = [q \in Plots |->
       IF q = p \/ (Known(q) /\ project[q].parent = p)
         THEN [project[q] EXCEPT !.state = "inactive"] ELSE project[q]]
  /\ UNCHANGED trust

DeactivateAllProjects ==
  /\ project' = [q \in Plots |->
       IF Known(q) THEN [project[q] EXCEPT !.state = "inactive"] ELSE project[q]]
  /\ UNCHANGED trust

\* pause_project and resume_project
PauseProject(p) ==
  /\ Active(p)
  /\ project' = [project EXCEPT ![p].paused = ~@]
  /\ UNCHANGED trust

-------------------------------------------------------------------------------
(* Verification.                                                           *)

AddVerifier(v) ==
  /\ v \notin verifiers /\ verifiers' = verifiers \cup {v}
  /\ UNCHANGED <<project, needed, attesters, verification, lowest>>

\* Attestations of the verifier stay and count.
RemoveVerifier(v) ==
  /\ v \in verifiers /\ verifiers' = verifiers \ {v}
  /\ UNCHANGED <<project, needed, attesters, verification, lowest>>

SetVerificationThreshold(n) ==
  /\ needed' = n
  /\ lowest' = IF n > 0 /\ (lowest = 0 \/ n < lowest) THEN n ELSE lowest
  /\ UNCHANGED <<project, verifiers, attesters, verification>>

\* compute_live_status, with the attesters who; never below Verified again.
Live(p, who) ==
  IF verification[p] = "Verified" \/ (needed > 0 /\ Cardinality(who) >= needed) THEN "Verified"
  ELSE IF who # {} THEN "Pending" ELSE "Unverified"

Attestable(v, p) == v \in verifiers /\ Known(p) /\ v \notin attesters[p]

\* attest_project, with refresh_verification_status.
AttestProject(v, p) ==
  /\ Attestable(v, p)
  /\ attesters' = [attesters EXCEPT ![p] = @ \cup {v}]
  /\ verification' = [verification EXCEPT ![p] = Live(p, attesters[p] \cup {v})]
  /\ UNCHANGED <<project, verifiers, needed, lowest>>

\* require_project_verified_for_donation: a donation that passes keeps the status it
\* recomputed, one that is refused changes nothing.
DonationPasses(p) ==
  /\ Active(p) /\ ~project[p].paused
  /\ Live(p, attesters[p]) = "Verified" \/ (needed = 0 /\ Live(p, attesters[p]) = "Unverified")
  /\ verification' = [verification EXCEPT ![p] = Live(p, attesters[p])]
  /\ UNCHANGED <<project, verifiers, needed, attesters, lowest>>

\* Mutant: the attestations go, the status stays.
KeepsStatus(p) == verification

Unverify(p) == [verification EXCEPT ![p] = "Unverified"]

RevokeVerification(p) ==
  /\ Known(p)
  /\ attesters' = [attesters EXCEPT ![p] = {}]
  /\ verification' = Unverify(p)
  /\ UNCHANGED <<project, verifiers, needed, lowest>>

-------------------------------------------------------------------------------
VerificationInit ==
  /\ project = [p \in Plots |-> NoProject]
  /\ verifiers = {} /\ needed = 0 /\ lowest = 0
  /\ attesters = [p \in Plots |-> {}]
  /\ verification = [p \in Plots |-> "Unverified"]

VerificationNext ==
  \/ DeactivateAllProjects
  \/ \E p \in Plots :
       \/ RegisterProject(p) \/ DeactivateProject(p) \/ PauseProject(p)
       \/ DonationPasses(p) \/ RevokeVerification(p)
       \/ \E q \in Plots : RegisterSubProject(p, q)
       \/ \E v \in Committee : AttestProject(v, p)
  \/ \E v \in Committee : AddVerifier(v) \/ RemoveVerifier(v)
  \/ \E n \in 0 .. Cardinality(Committee) : SetVerificationThreshold(n)

VerificationSpec == VerificationInit /\ [][VerificationNext]_verVars

-------------------------------------------------------------------------------
(* Properties                                                              *)

\* Every variable has its type; an unknown project has no attestations.
VerificationTypeOK ==
  /\ \A p \in Plots : /\ project[p].state \in {"none", "active", "inactive"}
                      /\ project[p].paused \in BOOLEAN
                      /\ project[p].parent \in Plots \cup {Root}
                      /\ attesters[p] \subseteq Committee
                      /\ verification[p] \in {"Unverified", "Pending", "Verified"}
                      /\ ~Known(p) => attesters[p] = {}
  /\ verifiers \subseteq Committee /\ needed \in 0 .. Cardinality(Committee)

\* A project is verified by at least as many attestations as the lowest threshold there
\* has been: switching the threshold off, revoking and attesting again never leave a
\* verified project without them (attest_project, revoke_verification and the
\* recomputation in a donation).
VerifiedVouched ==
  \A p \in Plots :
    verification[p] = "Verified" => lowest > 0 /\ Cardinality(attesters[p]) >= lowest

\* A project that is deactivated, alone, with its parent or with all, never becomes
\* active again: there is no call for it, and its name cannot be registered anew.
InactiveForever ==
  [][\A p \in Plots : project[p].state = "inactive" => project'[p].state = "inactive"]_verVars
===============================================================================
