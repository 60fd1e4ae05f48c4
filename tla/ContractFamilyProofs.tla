------------------------- MODULE ContractFamilyProofs -------------------------
(***************************************************************************)
(* Theorems about the donation contract for every value of its constants:  *)
(* what it says of donations and disputes, what it holds, who votes, who   *)
(* administers it, which projects and rates are vouched for, and what of   *)
(* all this does not change any more.                                      *)
(*                                                                         *)
(* Each part has an invariant that its own steps keep; the family's is     *)
(* their conjunction, for the parts share the clock alone.                 *)
(***************************************************************************)
EXTENDS ContractFamily, SumTheorems, SequenceTheorems

-------------------------------------------------------------------------------
(* Control.                                                                *)

\* AuthorityHolds with the finiteness that counting admins needs, and with what makes
\* the ledger of an upgrade the end of its time lock.
ControlInv ==
  /\ AuthorityHolds /\ IsFiniteSet(adminSet) /\ now \in Nat
  /\ upgrade.pending # NoWasm => upgrade.effective = upgrade.since + Lock

LEMMA PersonsCounted ==
  ASSUME NEW S, S \subseteq Persons
  PROVE  /\ IsFiniteSet(S) /\ Cardinality(S) \in Nat /\ Cardinality(Persons) \in Nat
         /\ Cardinality(S) <= Cardinality(Persons)
BY ControlAssumption, FS_Subset, FS_CardinalityType

\* A hand-over exchanges one admin for another: their number stays.
LEMMA HandOverKeepsCount ==
  ASSUME NEW S, IsFiniteSet(S), NEW a \in S, NEW b, b \notin S
  PROVE  Cardinality((S \ {a}) \cup {b}) = Cardinality(S)
<1>1. IsFiniteSet(S \ {a}) /\ Cardinality(S \ {a}) = Cardinality(S) - 1
  BY FS_RemoveElement
<1>2. Cardinality((S \ {a}) \cup {b}) = Cardinality(S \ {a}) + 1
  BY <1>1, FS_AddElement
<1> QED BY <1>1, <1>2, FS_CardinalityType

LEMMA ControlInvInit == ControlInit => ControlInv
<1> SUFFICES ASSUME ControlInit PROVE ControlInv
  OBVIOUS
<1>1. PICK a \in Persons : adminSet = {a}
  BY DEF ControlInit
<1>2. Cardinality(adminSet) = 1 /\ IsFiniteSet(adminSet)
  BY <1>1, FS_Singleton
<1>3. Cardinality(Persons) \in Nat /\ 1 <= Cardinality(Persons)
  BY <1>1, <1>2, PersonsCounted
<1>4. ControlTypeOK
  <2>1. upgrade \in [pending : Wasms \cup {NoWasm}, effective : Nat,
                     last : Wasms \cup {NoWasm}, since : Nat]
    BY DEF ControlInit, Upgrades!NoUpgrade
  <2>2. adminSet \subseteq Persons /\ threshold \in 1 .. Cardinality(Persons)
    BY <1>1, <1>3 DEF ControlInit
  <2> QED BY <2>1, <2>2 DEF ControlInit, ControlTypeOK
<1>5. now \in Nat /\ upgrade.pending = NoWasm
  BY DEF ControlInit, FirstLedger, Upgrades!NoUpgrade
<1>6. QuorumReachable
  BY <1>2 DEF ControlInit, QuorumReachable
<1> QED BY <1>2, <1>4, <1>5, <1>6 DEF ControlInv, AuthorityHolds

LEMMA ControlInvStep == ControlInv /\ [ControlNext]_ctlVars => ControlInv'
<1> SUFFICES ASSUME ControlInv, [ControlNext]_ctlVars PROVE ControlInv'
  OBVIOUS
<1> USE DEF ControlInv, AuthorityHolds, ControlTypeOK, QuorumReachable
<1>0. /\ Cardinality(adminSet) \in Nat /\ Cardinality(Persons) \in Nat
      /\ Cardinality(adminSet) <= Cardinality(Persons)
  BY PersonsCounted
<1>1. CASE UNCHANGED ctlVars
  BY <1>1 DEF ctlVars
<1>2. CASE ControlCloses
  BY <1>2 DEF ControlCloses, Closes
<1>3. CASE AcceptAdmin
  <2>1. pendingAdmin \in Persons \X Persons
    BY <1>3 DEF AcceptAdmin
  <2>2. adminSet' \subseteq Persons /\ IsFiniteSet(adminSet')
    BY <1>3, <2>1, PersonsCounted DEF AcceptAdmin
  <2>3. Cardinality(adminSet') = Cardinality(adminSet)
    BY <1>3, HandOverKeepsCount DEF AcceptAdmin, StillDue
  <2> QED BY <1>3, <2>2, <2>3 DEF AcceptAdmin
<1>4. CASE CancelAdminTransfer
  BY <1>4 DEF CancelAdminTransfer
<1>5. CASE Upgrade
  <2>1. ASSUME NEW w \in Wasms, Upgrades!ProposeUpgrade(w) PROVE ControlInv'
    <3>1. upgrade' \in [pending : Wasms \cup {NoWasm}, effective : Nat,
                        last : Wasms \cup {NoWasm}, since : Nat]
      <4>1. now + Lock \in Nat
        BY ControlAssumption
      <4> QED BY <2>1, <4>1 DEF Upgrades!ProposeUpgrade
    <3>2. upgrade'.effective = upgrade'.since + Lock
      BY <2>1 DEF Upgrades!ProposeUpgrade
    <3> QED BY <1>5, <3>1, <3>2 DEF Upgrade
  <2>2. CASE Upgrades!ExecuteUpgrade
    BY <1>5, <2>2 DEF Upgrade, Upgrades!ExecuteUpgrade, Upgrades!NoUpgrade
  <2>3. CASE Upgrades!CancelUpgrade
    BY <1>5, <2>3 DEF Upgrade, Upgrades!CancelUpgrade, Upgrades!NoUpgrade
  <2> QED BY <1>5, <2>1, <2>2, <2>3 DEF Upgrade
<1>6. ASSUME NEW a \in Persons, AddAdmin(a) PROVE ControlInv'
  <2>1. adminSet' \subseteq Persons /\ IsFiniteSet(adminSet')
    BY <1>6, PersonsCounted DEF AddAdmin
  <2>2. Cardinality(adminSet') = Cardinality(adminSet) + 1
    BY <1>6, FS_AddElement DEF AddAdmin
  <2> QED BY <1>0, <1>6, <2>1, <2>2 DEF AddAdmin
<1>7. ASSUME NEW a \in Persons, RemoveAdmin(a) PROVE ControlInv'
  <2>1. adminSet' \subseteq Persons /\ IsFiniteSet(adminSet')
    BY <1>7, PersonsCounted DEF RemoveAdmin
  <2>2. Cardinality(adminSet') = Cardinality(adminSet) - 1
    BY <1>7, FS_RemoveElement DEF RemoveAdmin
  <2> QED BY <1>0, <1>7, <2>1, <2>2 DEF RemoveAdmin
<1>8. ASSUME NEW a \in Persons, NEW b \in Persons, TransferAdmin(a, b) PROVE ControlInv'
  BY <1>8 DEF TransferAdmin
<1>9. ASSUME NEW n \in 0 .. Cardinality(Persons), UpdateThreshold(n) PROVE ControlInv'
  BY <1>0, <1>9 DEF UpdateThreshold, ValidThreshold
<1>10. ASSUME NEW paused \in BOOLEAN, PauseContract(paused) PROVE ControlInv'
  BY <1>10 DEF PauseContract
<1>11. ASSUME NEW t \in Suspendable, SuspendToken(t) PROVE ControlInv'
  BY <1>11 DEF SuspendToken
<1> QED BY <1>1, <1>2, <1>3, <1>4, <1>5, <1>6, <1>7, <1>8, <1>9, <1>10, <1>11 DEF ControlNext

\* Code is installed only when its proposal is a whole time lock old.
LEMMA InstalledLate ==
  ASSUME ControlInv, [ControlNext]_ctlVars, upgrade'.last # upgrade.last
  PROVE  now >= upgrade.since + Lock
<1> USE DEF ControlInv, AuthorityHolds, ControlTypeOK
<1>1. CASE Upgrade
  <2>1. CASE Upgrades!ExecuteUpgrade
    BY <2>1 DEF Upgrades!ExecuteUpgrade
  <2>2. ASSUME NEW w \in Wasms, Upgrades!ProposeUpgrade(w) PROVE FALSE
    BY <2>2 DEF Upgrades!ProposeUpgrade
  <2>3. CASE Upgrades!CancelUpgrade
    BY <2>3 DEF Upgrades!CancelUpgrade, Upgrades!NoUpgrade
  <2> QED BY <1>1, <2>1, <2>2, <2>3 DEF Upgrade
<1>2. CASE UNCHANGED upgrade
  BY <1>2
<1> QED BY <1>1, <1>2 DEF ControlNext, ctlVars, ControlCloses, AcceptAdmin,
     CancelAdminTransfer, AddAdmin, RemoveAdmin, TransferAdmin, UpdateThreshold,
     PauseContract, SuspendToken

-------------------------------------------------------------------------------
(* Verification.                                                           *)

VerTyped ==
  /\ project \in [Plots -> [state : {"none", "active", "inactive"}, paused : BOOLEAN,
                            parent : Plots \cup {Root}]]
  /\ attesters \in [Plots -> SUBSET Committee]
  /\ verification \in [Plots -> {"Unverified", "Pending", "Verified"}]
  /\ verifiers \subseteq Committee /\ needed \in 0 .. Cardinality(Committee)
  /\ lowest \in Nat /\ (needed > 0 => lowest > 0 /\ lowest <= needed)

\* A status is vouched for because the threshold of now, if there is one, is no less than
\* the lowest.
VerInv ==
  VerTyped /\ (\A p \in Plots : ~Known(p) => attesters[p] = {}) /\ VerifiedVouched

LEMMA AttestersCounted ==
  ASSUME NEW S, S \subseteq Committee
  PROVE  /\ Cardinality(S) \in Nat /\ Cardinality(Committee) \in Nat
         /\ \A v \in Committee : Cardinality(S \cup {v}) >= Cardinality(S)
<1>1. IsFiniteSet(S) /\ IsFiniteSet(Committee)
  BY VerificationAssumption, FS_Subset
<1>2. ASSUME NEW v \in Committee PROVE Cardinality(S \cup {v}) >= Cardinality(S)
  <2>1. IsFiniteSet(S \cup {v}) /\ S \subseteq S \cup {v}
    BY <1>1, FS_AddElement
  <2> QED BY <2>1, FS_Subset, FS_CardinalityType
<1> QED BY <1>1, <1>2, FS_CardinalityType

LEMMA VerInvInit == VerificationInit => VerInv
<1> SUFFICES ASSUME VerificationInit PROVE VerInv
  OBVIOUS
<1>1. Cardinality(Committee) \in Nat
  BY AttestersCounted
<1>2. NoProject \in [state : {"none", "active", "inactive"}, paused : BOOLEAN,
                     parent : Plots \cup {Root}]
  BY DEF NoProject
<1>3. VerTyped
  BY <1>1, <1>2 DEF VerificationInit, VerTyped
<1> QED BY <1>3 DEF VerificationInit, VerInv, VerifiedVouched

\* A status that a call recomputes has its attestations.
LEMMA LiveVouched ==
  ASSUME VerInv, NEW p \in Plots, NEW S \in SUBSET Committee,
         Cardinality(S) >= Cardinality(attesters[p])
  PROVE  /\ Live(p, S) \in {"Unverified", "Pending", "Verified"}
         /\ Live(p, S) = "Verified" => lowest > 0 /\ Cardinality(S) >= lowest
<1>1. Cardinality(S) \in Nat /\ Cardinality(attesters[p]) \in Nat /\ needed \in Nat /\ lowest \in Nat
  BY AttestersCounted DEF VerInv, VerTyped
<1>2. verification[p] = "Verified" => lowest > 0 /\ Cardinality(attesters[p]) >= lowest
  BY DEF VerInv, VerifiedVouched
<1>3. needed > 0 => lowest > 0 /\ lowest <= needed
  BY DEF VerInv, VerTyped
<1> QED BY <1>1, <1>2, <1>3 DEF Live

\* Projects come and go without a word about their verification.
LEMMA ProjectsKeep ==
  ASSUME VerInv, UNCHANGED trust,
         project' \in [Plots -> [state : {"none", "active", "inactive"}, paused : BOOLEAN,
                                 parent : Plots \cup {Root}]],
         \A p \in Plots : project'[p].state = "none" => project[p].state = "none"
  PROVE  VerInv'
<1>1. VerTyped'
  BY DEF VerInv, VerTyped, trust
<1>2. VerifiedVouched'
  BY DEF VerInv, VerifiedVouched, trust
<1> QED BY <1>1, <1>2 DEF VerInv, trust, Known

LEMMA VerInvStep == VerInv /\ [VerificationNext]_verVars => VerInv'
<1> SUFFICES ASSUME VerInv, [VerificationNext]_verVars PROVE VerInv'
  OBVIOUS
<1> DEFINE Row == [state : {"none", "active", "inactive"}, paused : BOOLEAN,
                   parent : Plots \cup {Root}]
<1>0. project \in [Plots -> Row]
  BY DEF VerInv, VerTyped
<1>1. CASE UNCHANGED verVars
  BY <1>1 DEF verVars, VerInv, VerTyped, VerifiedVouched, Known
<1>2. CASE DeactivateAllProjects
  <2>1. project' \in [Plots -> Row]
    BY <1>0, <1>2 DEF DeactivateAllProjects, Known
  <2>2. \A p \in Plots : project'[p].state = "none" => project[p].state = "none"
    BY <1>0, <1>2 DEF DeactivateAllProjects, Known
  <2> QED BY <1>2, <2>1, <2>2, ProjectsKeep DEF DeactivateAllProjects
<1>3. ASSUME NEW p \in Plots, RegisterProject(p) PROVE VerInv'
  <2>1. [NoProject EXCEPT !.state = "active"] \in Row
    BY DEF NoProject
  <2>2. project' \in [Plots -> Row]
    BY <1>0, <1>3, <2>1 DEF RegisterProject
  <2>3. \A q \in Plots : project'[q].state = "none" => project[q].state = "none"
    BY <1>0, <1>3 DEF RegisterProject, Unregistered, Known
  <2> QED BY <1>3, <2>2, <2>3, ProjectsKeep DEF RegisterProject
<1>4. ASSUME NEW p \in Plots, NEW q \in Plots, RegisterSubProject(p, q) PROVE VerInv'
  <2>1. project' \in [Plots -> Row]
    BY <1>0, <1>4 DEF RegisterSubProject
  <2>2. \A r \in Plots : project'[r].state = "none" => project[r].state = "none"
    BY <1>0, <1>4 DEF RegisterSubProject, Unregistered, Known
  <2> QED BY <1>4, <2>1, <2>2, ProjectsKeep DEF RegisterSubProject
<1>5. ASSUME NEW p \in Plots, DeactivateProject(p) PROVE VerInv'
  <2>1. project' \in [Plots -> Row]
    BY <1>0, <1>5 DEF DeactivateProject, Known
  <2>2. \A r \in Plots : project'[r].state = "none" => project[r].state = "none"
    BY <1>0, <1>5 DEF DeactivateProject, Known
  <2> QED BY <1>5, <2>1, <2>2, ProjectsKeep DEF DeactivateProject
<1>6. ASSUME NEW p \in Plots, PauseProject(p) PROVE VerInv'
  <2>1. project' \in [Plots -> Row]
    BY <1>0, <1>6 DEF PauseProject
  <2>2. \A r \in Plots : project'[r].state = "none" => project[r].state = "none"
    BY <1>0, <1>6 DEF PauseProject
  <2> QED BY <1>6, <2>1, <2>2, ProjectsKeep DEF PauseProject
<1>7. ASSUME NEW p \in Plots, DonationPasses(p) PROVE VerInv'
  <2> DEFINE status == Live(p, attesters[p])
  <2>1. /\ status \in {"Unverified", "Pending", "Verified"}
        /\ status = "Verified" => lowest > 0 /\ Cardinality(attesters[p]) >= lowest
    <3>1. attesters[p] \in SUBSET Committee
      BY DEF VerInv, VerTyped
    <3>2. Cardinality(attesters[p]) >= Cardinality(attesters[p])
      BY <3>1, AttestersCounted
    <3> QED BY <3>1, <3>2, LiveVouched
  <2> HIDE DEF status
  <2>2. verification' = [verification EXCEPT ![p] = status]
    BY <1>7 DEF DonationPasses, status
  <2> QED BY <1>7, <2>1, <2>2 DEF DonationPasses, VerInv, VerTyped, VerifiedVouched, Known
<1>8. ASSUME NEW p \in Plots, RevokeVerification(p) PROVE VerInv'
  BY <1>8 DEF RevokeVerification, Unverify, VerInv, VerTyped, VerifiedVouched, Known
<1>9. ASSUME NEW p \in Plots, NEW v \in Committee, AttestProject(v, p) PROVE VerInv'
  <2> DEFINE who    == attesters[p] \cup {v}
             status == Live(p, who)
  <2>0. attesters[p] \in SUBSET Committee /\ who \in SUBSET Committee
    BY DEF VerInv, VerTyped
  <2>1. /\ status \in {"Unverified", "Pending", "Verified"}
        /\ status = "Verified" => lowest > 0 /\ Cardinality(who) >= lowest
    <3>1. Cardinality(who) >= Cardinality(attesters[p])
      BY <2>0, AttestersCounted
    <3> HIDE DEF who
    <3> QED BY <2>0, <3>1, LiveVouched
  <2>2. attesters' = [attesters EXCEPT ![p] = who] /\ verification' = [verification EXCEPT ![p] = status]
    BY <1>9 DEF AttestProject
  <2>3. Known(p) /\ UNCHANGED <<project, verifiers, needed, lowest>>
    BY <1>9 DEF AttestProject, Attestable
  <2> HIDE DEF who, status
  <2> QED BY <2>0, <2>1, <2>2, <2>3 DEF VerInv, VerTyped, VerifiedVouched, Known
<1>10. ASSUME NEW v \in Committee, AddVerifier(v) \/ RemoveVerifier(v) PROVE VerInv'
  BY <1>10 DEF AddVerifier, RemoveVerifier, VerInv, VerTyped, VerifiedVouched, Known
<1>11. ASSUME NEW n \in 0 .. Cardinality(Committee), SetVerificationThreshold(n) PROVE VerInv'
  <2>1. Cardinality(Committee) \in Nat /\ \A p \in Plots : Cardinality(attesters[p]) \in Nat
    BY AttestersCounted DEF VerInv, VerTyped
  <2>3. VerTyped'
    BY <1>11, <2>1 DEF SetVerificationThreshold, VerInv, VerTyped
  <2>4. lowest > 0 => lowest' > 0 /\ lowest' <= lowest
    BY <1>11, <2>1 DEF SetVerificationThreshold, VerInv, VerTyped
  <2>5. VerifiedVouched'
    BY <1>11, <2>1, <2>3, <2>4 DEF SetVerificationThreshold, VerInv, VerTyped, VerifiedVouched
  <2> QED BY <1>11, <2>3, <2>5 DEF SetVerificationThreshold, VerInv, Known
<1> QED BY <1>1, <1>2, <1>3, <1>4, <1>5, <1>6, <1>7, <1>8, <1>9, <1>10, <1>11 DEF VerificationNext

\* An inactive project stays so.
LEMMA StaysInactive ==
  ASSUME VerInv, [VerificationNext]_verVars, NEW p \in Plots, project[p].state = "inactive"
  PROVE  project'[p].state = "inactive"
<1> USE DEF VerInv, VerTyped
<1>1. CASE UNCHANGED verVars
  BY <1>1 DEF verVars
<1>2. CASE DeactivateAllProjects
  BY <1>2 DEF DeactivateAllProjects, Known
<1>3. ASSUME NEW q \in Plots, RegisterProject(q) PROVE project'[p].state = "inactive"
  BY <1>3 DEF RegisterProject, Unregistered, Known
<1>4. ASSUME NEW q \in Plots, NEW r \in Plots, RegisterSubProject(q, r)
      PROVE  project'[p].state = "inactive"
  BY <1>4 DEF RegisterSubProject, Unregistered, Known
<1>5. ASSUME NEW q \in Plots, DeactivateProject(q) PROVE project'[p].state = "inactive"
  BY <1>5 DEF DeactivateProject, Known
<1>6. ASSUME NEW q \in Plots, PauseProject(q) PROVE project'[p].state = "inactive"
  BY <1>6 DEF PauseProject, Active
<1>7. ASSUME UNCHANGED project PROVE project'[p].state = "inactive"
  BY <1>7
<1> QED BY <1>1, <1>2, <1>3, <1>4, <1>5, <1>6, <1>7 DEF VerificationNext, DonationPasses, RevokeVerification,
     AttestProject, AddVerifier, RemoveVerifier, SetVerificationThreshold

-------------------------------------------------------------------------------
(* Impact reports.                                                         *)

ImpTyped ==
  /\ impactVerifiers \subseteq Auditors /\ impactThreshold \in Nat \ {0}
  /\ impactReport \in [Auditors -> CO2Rates \cup {0}]
  /\ flagged \in BOOLEAN /\ rate \in Nat /\ setter \in {"admin", "reports"}

NoMoreThan(reports, r) == {v \in Reported(reports) : reports[v] <= r}
LessThan(reports, r)   == {v \in Reported(reports) : reports[v] < r}
NoLessThan(reports, r) == {v \in Reported(reports) : reports[v] >= r}

\* Of the values of a function on a finite set one is the greatest.
LEMMA Greatest ==
  ASSUME NEW S, IsFiniteSet(S), S # {}, NEW f, \A x \in S : f[x] \in Nat
  PROVE  \E m \in S : \A x \in S : f[x] <= f[m]
<1> DEFINE Good == {T \in SUBSET S : T # {} => \E m \in T : \A x \in T : f[x] <= f[m]}
<1>1. {} \in Good
  OBVIOUS
<1>2. ASSUME NEW T \in SUBSET S, T # {}, \A x \in T : T \ {x} \in Good
      PROVE  T \in Good
  <2>1. PICK x \in T : TRUE
    BY <1>2
  <2>2. CASE T \ {x} = {}
    BY <2>1, <2>2
  <2>3. CASE T \ {x} # {}
    <3>1. PICK m \in T \ {x} : \A y \in T \ {x} : f[y] <= f[m]
      BY <1>2, <2>1, <2>3
    <3>2. f[x] \in Nat /\ f[m] \in Nat /\ \A y \in T : f[y] \in Nat
      BY <2>1, <3>1
    <3>3. CASE f[x] <= f[m]
      BY <2>1, <3>1, <3>3
    <3>4. CASE f[m] <= f[x]
      <4>1. \A y \in T : f[y] <= f[x]
        BY <2>1, <3>1, <3>2, <3>4
      <4> QED BY <2>1, <4>1
    <3> QED BY <3>2, <3>3, <3>4
  <2> QED BY <2>2, <2>3
<1>3. S \in Good
  <2> HIDE DEF Good
  <2> QED BY <1>1, <1>2, SubsetInduction
<1> QED BY <1>3

LEMMA ReportsCounted ==
  ASSUME NEW reports \in [Auditors -> CO2Rates \cup {0}], NEW r \in Nat
  PROVE  /\ IsFiniteSet(Reported(reports))
         /\ \A v \in Reported(reports) : v \in Auditors /\ reports[v] \in CO2Rates /\ reports[v] \in Nat
         /\ Cardinality(Reported(reports)) \in Nat
         /\ Cardinality(NoMoreThan(reports, r)) \in Nat
         /\ IsFiniteSet(NoMoreThan(reports, r)) /\ IsFiniteSet(LessThan(reports, r))
         /\ Cardinality(LessThan(reports, r)) \in Nat
         /\ IsFiniteSet(NoLessThan(reports, r)) /\ Cardinality(NoLessThan(reports, r)) \in Nat
         /\ Cardinality(NoLessThan(reports, r))
              = Cardinality(Reported(reports)) - Cardinality(LessThan(reports, r))
<1>1. IsFiniteSet(Reported(reports))
  BY ImpactAssumption, FS_Subset DEF Reported
<1>2. \A v \in Reported(reports) : v \in Auditors /\ reports[v] \in CO2Rates /\ reports[v] \in Nat
  <2>1. \A q \in CO2Rates : q \in Nat /\ q > 0
    BY ImpactAssumption
  <2>2. ~(0 > 0)
    OBVIOUS
  <2> QED BY <2>1, <2>2 DEF Reported
<1>3. /\ IsFiniteSet(NoMoreThan(reports, r)) /\ IsFiniteSet(LessThan(reports, r))
      /\ IsFiniteSet(NoLessThan(reports, r))
  BY <1>1, FS_Subset DEF NoMoreThan, LessThan, NoLessThan
<1>4. /\ NoLessThan(reports, r) = Reported(reports) \ LessThan(reports, r)
      /\ LessThan(reports, r) = Reported(reports) \cap LessThan(reports, r)
  BY <1>2 DEF NoLessThan, LessThan
<1>5. Cardinality(NoLessThan(reports, r))
        = Cardinality(Reported(reports)) - Cardinality(LessThan(reports, r))
  BY <1>1, <1>3, <1>4, FS_Difference
<1> QED BY <1>1, <1>2, <1>3, <1>5, FS_CardinalityType

\* There is a k-th smallest rate: the least that k reports do not exceed.
LEMMA RankedIs ==
  ASSUME NEW reports \in [Auditors -> CO2Rates \cup {0}],
         NEW k \in 1 .. Cardinality(Reported(reports))
  PROVE  /\ Ranked(reports, k) \in CO2Rates
         /\ Cardinality(LessThan(reports, Ranked(reports, k))) < k
         /\ Cardinality(NoMoreThan(reports, Ranked(reports, k))) >= k
<1> DEFINE N == {r \in CO2Rates : Cardinality(NoMoreThan(reports, r)) >= k}
<1>0. /\ IsFiniteSet(Reported(reports)) /\ Cardinality(Reported(reports)) \in Nat /\ k \in Nat
      /\ \A v \in Reported(reports) : reports[v] \in CO2Rates /\ reports[v] \in Nat
  BY ReportsCounted
<1>1. CO2Rates \subseteq Nat
  BY ImpactAssumption
<1>2. N \in SUBSET Nat /\ N # {}
  <2>1. Reported(reports) # {}
    BY <1>0, FS_EmptySet
  <2>2. PICK m \in Reported(reports) : \A v \in Reported(reports) : reports[v] <= reports[m]
    BY <1>0, <2>1, Greatest
  <2>3. NoMoreThan(reports, reports[m]) = Reported(reports)
    BY <2>2 DEF NoMoreThan
  <2>4. reports[m] \in N
    BY <1>0, <2>3
  <2> QED BY <1>1, <2>4
<1>3. PICK r \in N : \A q \in N : r <= q
  <2> HIDE DEF N
  <2> QED BY <1>2, Least
<1>4. r \in CO2Rates /\ r \in Nat /\ Cardinality(NoMoreThan(reports, r)) >= k
  BY <1>1
<1>5. Cardinality(LessThan(reports, r)) < k
  <2>1. CASE LessThan(reports, r) = {}
    BY <1>0, <2>1, FS_EmptySet
  <2>2. CASE LessThan(reports, r) # {}
    <3>1. /\ IsFiniteSet(LessThan(reports, r)) /\ Cardinality(LessThan(reports, r)) \in Nat
          /\ \A v \in LessThan(reports, r) : reports[v] \in Nat
      BY <1>0, <1>4, ReportsCounted DEF LessThan
    <3>2. PICK m \in LessThan(reports, r) : \A v \in LessThan(reports, r) : reports[v] <= reports[m]
      BY <2>2, <3>1, Greatest
    <3>3. m \in Reported(reports) /\ reports[m] < r
      BY <3>2 DEF LessThan
    <3> DEFINE q == reports[m]
    <3>4. q \in CO2Rates /\ q \in Nat /\ q < r
      BY <1>0, <3>3
    <3>5. LessThan(reports, r) \subseteq NoMoreThan(reports, q)
      BY <3>2 DEF LessThan, NoMoreThan
    <3> HIDE DEF q
    <3>6. q \notin N
      <4>1. ~(r <= q)
        BY <1>4, <3>4
      <4> HIDE DEF N
      <4> QED BY <1>3, <4>1
    <3>7. IsFiniteSet(NoMoreThan(reports, q)) /\ Cardinality(NoMoreThan(reports, q)) \in Nat
      BY <3>4, ReportsCounted
    <3>8. Cardinality(LessThan(reports, r)) <= Cardinality(NoMoreThan(reports, q))
      BY <3>5, <3>7, FS_Subset
    <3>9. Cardinality(NoMoreThan(reports, q)) < k
      BY <1>0, <3>4, <3>6, <3>7
    <3> QED BY <1>0, <3>1, <3>7, <3>8, <3>9
  <2> QED BY <2>1, <2>2
<1> DEFINE Is(s) == /\ Cardinality(LessThan(reports, s)) < k
                    /\ Cardinality(NoMoreThan(reports, s)) >= k
<1>6. Ranked(reports, k) = CHOOSE s \in CO2Rates : Is(s)
  BY DEF Ranked, LessThan, NoMoreThan
<1>7. Is(r)
  BY <1>4, <1>5
<1> HIDE DEF Is, N
<1>8. Ranked(reports, k) \in CO2Rates /\ Is(Ranked(reports, k))
  BY <1>4, <1>6, <1>7
<1> QED BY <1>8 DEF Is

\* The median lies in the middle of the reports.
LEMMA MedianHalves ==
  ASSUME NEW reports \in [Auditors -> CO2Rates \cup {0}], Reported(reports) # {}
  PROVE  /\ Median(reports) \in Nat
         /\ 2 * Cardinality(NoMoreThan(reports, Median(reports))) >= Cardinality(Reported(reports))
         /\ 2 * Cardinality(NoLessThan(reports, Median(reports))) >= Cardinality(Reported(reports))
<1> DEFINE n    == Cardinality(Reported(reports))
           h    == n \div 2
           low  == Ranked(reports, h)
           high == Ranked(reports, h + 1)
           m    == Median(reports)
<1>1. IsFiniteSet(Reported(reports)) /\ n \in Nat /\ n > 0
  BY ReportsCounted, FS_EmptySet
<1> DEFINE Most(r) == Cardinality(NoMoreThan(reports, r))
           Less(r) == Cardinality(LessThan(reports, r))
           More(r) == Cardinality(NoLessThan(reports, r))
<1>2. \A r \in Nat : Most(r) \in Nat /\ Less(r) \in Nat /\ More(r) = n - Less(r)
  BY ReportsCounted
<1>3. \A r, q \in Nat : r <= q => Most(r) <= Most(q) /\ More(q) <= More(r)
  <2>1. ASSUME NEW r \in Nat, NEW q \in Nat, r <= q
        PROVE  Most(r) <= Most(q) /\ More(q) <= More(r)
    <3>1. /\ NoMoreThan(reports, r) \subseteq NoMoreThan(reports, q)
          /\ NoLessThan(reports, q) \subseteq NoLessThan(reports, r)
      <4>1. \A v \in Reported(reports) : reports[v] \in Nat
        BY ReportsCounted
      <4>2. \A v \in Reported(reports) :
              (reports[v] <= r => reports[v] <= q) /\ (reports[v] >= q => reports[v] >= r)
        BY <2>1, <4>1
      <4> QED BY <4>2 DEF NoMoreThan, NoLessThan
    <3> QED BY <3>1, ReportsCounted, FS_Subset
  <2> QED BY <2>1
<1>4. m = IF n % 2 = 0 THEN (low + high) \div 2 ELSE high
  BY DEF Median
<1>5. ASSUME NEW k \in 1 .. n
      PROVE  /\ Ranked(reports, k) \in Nat
             /\ Less(Ranked(reports, k)) < k /\ Most(Ranked(reports, k)) >= k
  BY <1>5, RankedIs, ImpactAssumption
<1> HIDE DEF n
<1>6. h \in Nat /\ (n % 2 = 0 => n = 2 * h /\ h >= 1) /\ (n % 2 # 0 => n = 2 * h + 1)
  BY <1>1
<1>7. h + 1 \in 1 .. n
  BY <1>1, <1>6
<1> HIDE DEF h
<1>8. high \in Nat /\ Less(high) < h + 1 /\ Most(high) >= h + 1
  BY <1>5, <1>7
<1> HIDE DEF Most, Less, More, high, low, m
<1>9. CASE n % 2 # 0
  <2>1. m = high /\ n = 2 * h + 1
    BY <1>4, <1>6, <1>9
  <2>2. Most(m) >= h + 1 /\ Less(m) < h + 1 /\ Most(m) \in Nat /\ Less(m) \in Nat /\ More(m) = n - Less(m)
    BY <1>2, <1>8, <2>1
  <2>3. m \in Nat /\ 2 * Most(m) >= n /\ 2 * More(m) >= n
    BY <1>1, <1>6, <1>8, <2>1, <2>2
  <2> QED BY <2>3 DEF Most, More, m, n
<1>10. CASE n % 2 = 0
  <2>1. h \in 1 .. n /\ n = 2 * h
    BY <1>1, <1>6, <1>10
  <2>2. low \in Nat /\ Less(low) < h /\ Most(low) >= h
    <3>1. Ranked(reports, h) \in Nat /\ Less(Ranked(reports, h)) < h /\ Most(Ranked(reports, h)) >= h
      BY <1>5, <2>1
    <3> QED BY <3>1 DEF low
  <2>3. low <= high
    <3>1. SUFFICES ASSUME high < low PROVE FALSE
      BY <1>8, <2>2
    <3>2. NoMoreThan(reports, high) \subseteq LessThan(reports, low)
      <4>1. \A v \in Reported(reports) : reports[v] \in Nat
        BY <1>8, ReportsCounted
      <4>2. \A v \in Reported(reports) : reports[v] <= high => reports[v] < low
        BY <1>8, <2>2, <3>1, <4>1
      <4> QED BY <4>2 DEF NoMoreThan, LessThan
    <3>3. Most(high) <= Less(low)
      BY <2>2, <3>2, ReportsCounted, FS_Subset DEF Most, Less
    <3>4. Most(high) \in Nat /\ Less(low) \in Nat
      BY <1>2, <1>8, <2>2
    <3> QED BY <1>6, <1>8, <2>2, <3>3, <3>4
  <2>4. m = (low + high) \div 2
    BY <1>4, <1>10
  <2>5. m \in Nat /\ low <= m /\ m <= high
    BY <1>8, <2>2, <2>3, <2>4
  <2>6. Most(m) >= Most(low) /\ More(m) >= More(high)
    BY <1>3, <1>8, <2>2, <2>5
  <2>7. /\ Most(m) \in Nat /\ Most(low) \in Nat /\ Less(m) \in Nat /\ Less(high) \in Nat
        /\ More(m) = n - Less(m) /\ More(high) = n - Less(high)
    BY <1>2, <1>8, <2>2, <2>5
  <2>8. 2 * Most(m) >= n /\ 2 * More(m) >= n
    BY <1>1, <1>6, <1>8, <2>1, <2>2, <2>6, <2>7
  <2> QED BY <2>5, <2>8 DEF Most, More, m, n
<1> QED BY <1>9, <1>10

ImpactInv == ImpTyped /\ (setter = "reports" => Reported(impactReport) # {})

LEMMA ImpactInvInit == ImpactInit => ImpactInv
<1> SUFFICES ASSUME ImpactInit PROVE ImpactInv
  OBVIOUS
<1>1. rate \in Nat
  BY ImpactAssumption DEF ImpactInit
<1>2. impactReport \in [Auditors -> CO2Rates \cup {0}]
  BY DEF ImpactInit
<1>3. 3 \in Nat \ {0}
  OBVIOUS
<1>4. ImpTyped
  BY <1>1, <1>2, <1>3 DEF ImpactInit, ImpTyped
<1> QED BY <1>4 DEF ImpactInit, ImpactInv

\* What a report does.
LEMMA ReportMade ==
  ASSUME ImpactInv, NEW v \in Auditors, NEW r \in CO2Rates, SubmitImpactReport(v, r)
  PROVE  /\ impactReport' \in [Auditors -> CO2Rates \cup {0}] /\ Reported(impactReport') # {}
         /\ rate' # rate => rate' = Median(impactReport') /\ Cardinality(Reported(impactReport')) >= impactThreshold
         /\ ImpactInv'
<1> DEFINE reports == [impactReport EXCEPT ![v] = r]
           adjusts == Cardinality(Reported(reports)) >= impactThreshold
<1>1. reports \in [Auditors -> CO2Rates \cup {0}] /\ reports[v] = r /\ r > 0 /\ r \in Nat
  BY ImpactAssumption DEF ImpactInv, ImpTyped
<1>2. /\ impactReport' = reports /\ flagged' = (flagged \/ Deviates(r))
      /\ rate' = IF adjusts THEN Median(reports) ELSE rate
      /\ setter' = IF adjusts THEN "reports" ELSE setter
      /\ UNCHANGED <<impactVerifiers, impactThreshold>>
  BY DEF SubmitImpactReport
<1> HIDE DEF reports
<1>3. v \in Reported(reports)
  BY <1>1 DEF Reported
<1>4. Median(reports) \in Nat
  BY <1>1, <1>3, MedianHalves
<1>5. flagged' \in BOOLEAN
  BY <1>2, Zenon
<1>7. rate' \in Nat /\ setter' \in {"admin", "reports"}
  BY <1>2, <1>4 DEF ImpactInv, ImpTyped
<1>8. Reported(impactReport') # {} /\ impactReport' \in [Auditors -> CO2Rates \cup {0}]
  BY <1>1, <1>2, <1>3
<1>9. ImpactInv'
  BY <1>2, <1>5, <1>7, <1>8 DEF ImpactInv, ImpTyped
<1> QED BY <1>2, <1>8, <1>9

LEMMA ImpactInvStep == ImpactInv /\ [ImpactNext]_impactVars => ImpactInv'
<1> SUFFICES ASSUME ImpactInv, [ImpactNext]_impactVars PROVE ImpactInv'
  OBVIOUS
<1> USE DEF ImpactInv, ImpTyped
<1>1. CASE UNCHANGED impactVars
  BY <1>1 DEF impactVars, Reported
<1>2. CASE ManageImpactVerifiers
  BY <1>2 DEF ManageImpactVerifiers, Reported
<1>3. CASE ClearImpactFlag
  BY <1>3 DEF ClearImpactFlag, Reported
<1>4. ASSUME NEW n \in 0 .. Cardinality(Auditors), SetImpactReportThreshold(n) PROVE ImpactInv'
  BY <1>4 DEF SetImpactReportThreshold, PositiveNumber, Reported
<1>5. ASSUME NEW r \in CO2Rates, UpdateProjectRate(r) PROVE ImpactInv'
  BY <1>5, ImpactAssumption DEF UpdateProjectRate
<1>6. ASSUME NEW v \in Auditors, NEW r \in CO2Rates, SubmitImpactReport(v, r) PROVE ImpactInv'
  BY <1>6, ReportMade
<1> QED BY <1>1, <1>2, <1>3, <1>4, <1>5, <1>6 DEF ImpactNext

\* A rate that a report sets is vouched for.
LEMMA RateFollows ==
  ASSUME ImpactInv, [ImpactNext]_impactVars, rate' # rate, setter' = "reports"
  PROVE  /\ Cardinality(Reported(impactReport')) >= impactThreshold
         /\ 2 * Cardinality({v \in Reported(impactReport') : impactReport'[v] <= rate'})
              >= Cardinality(Reported(impactReport'))
         /\ 2 * Cardinality({v \in Reported(impactReport') : impactReport'[v] >= rate'})
              >= Cardinality(Reported(impactReport'))
<1>1. PICK v \in Auditors, r \in CO2Rates : SubmitImpactReport(v, r)
  BY DEF ImpactNext, impactVars, ManageImpactVerifiers, ClearImpactFlag,
     SetImpactReportThreshold, UpdateProjectRate
<1>2. /\ impactReport' \in [Auditors -> CO2Rates \cup {0}] /\ Reported(impactReport') # {}
      /\ rate' = Median(impactReport') /\ Cardinality(Reported(impactReport')) >= impactThreshold
  BY <1>1, ReportMade
<1>3. /\ 2 * Cardinality(NoMoreThan(impactReport', rate')) >= Cardinality(Reported(impactReport'))
      /\ 2 * Cardinality(NoLessThan(impactReport', rate')) >= Cardinality(Reported(impactReport'))
  BY <1>2, MedianHalves
<1> QED BY <1>2, <1>3 DEF NoMoreThan, NoLessThan

-------------------------------------------------------------------------------
(* Custody.                                                                *)

Schedule == [state : {"none", "made", "removed"}, total : Nat, per : Nat, count : Nat,
             released : Nat, next : Nat, completed : Nat, out : Nat]

CusTyped ==
  /\ now \in Nat /\ held \in Nat /\ balance \in [Causes -> Nat] /\ job \in [Causes -> Nat]
  /\ escrowed \subseteq Causes
  /\ withdrawal \in [Causes -> [amount : Gifts \cup {0}, at : Nat]]
  /\ vesting \in [Schedules -> Schedule]
  /\ gifts \in 0 .. MaxGifts /\ offered \in Nat /\ charged \in Nat

\* What has left a schedule is what its installments were, until the last one takes the rest.
Sound(v) ==
  \/ v = NoSchedule
  \/ /\ v.state # "none" /\ v.released \in 1 .. v.count /\ v.per * v.count <= v.total
     /\ v.released < v.count =>
          v.out = v.released * v.per /\ v.completed = 0 /\ v.state = "made"
     /\ v.released = v.count => v.out = v.total

CusInv == CusTyped /\ (\A s \in Schedules : Sound(vesting[s])) /\ ChargedExactly /\ HeldExactly

LEMMA Distributes ==
  ASSUME NEW a \in Int, NEW b \in Int, NEW c \in Int
  PROVE  (a + b) * c = a * c + b * c /\ (a - b) * c = a * c - b * c /\ a * c \in Int /\ a * c = c * a
OBVIOUS

LEMMA ProductNatural == ASSUME NEW a \in Nat, NEW b \in Nat PROVE a * b \in Nat
OBVIOUS

\* One value of a function changes.
LEMMA OneChanges ==
  ASSUME NEW S, IsFiniteSet(S), NEW f \in [S -> Int], NEW y \in S, NEW n \in Int
  PROVE  SumFunction([f EXCEPT ![y] = n]) = SumFunction(f) - f[y] + n
<1> DEFINE g == [f EXCEPT ![y] = n]
<1>1. g \in [S -> Int] /\ g[y] = n /\ \A x \in S \ {y} : g[x] = f[x]
  OBVIOUS
<1>2. DOMAIN f = S /\ DOMAIN g = S
  OBVIOUS
<1> HIDE DEF g
<1>3. \A x \in S : f[x] \in Int /\ g[x] \in Int
  BY <1>1
<1>4. SumFunctionOnSet(g, S) = SumFunctionOnSet(f, S) - f[y] + g[y]
  BY <1>1, <1>3, SumChange
<1>5. SumFunction(g) = SumFunction(f) - f[y] + n
  BY <1>1, <1>2, <1>4 DEF SumFunction
<1> QED BY <1>5 DEF g

LEMMA SumsNatural ==
  ASSUME NEW S, IsFiniteSet(S), NEW f \in [S -> Nat]
  PROVE  SumFunction(f) \in Nat
<1>1. DOMAIN f = S /\ \A x \in S : f[x] \in Nat
  OBVIOUS
<1> QED BY <1>1, SumNat DEF SumFunction

\* The shares of a fee make up the fee, which is no more than the amount.
LEMMA FeesAddUp ==
  ASSUME NEW a \in Nat
  PROVE  /\ Fee(a) \in Nat /\ Fee(a) <= a
         /\ SumFunction([i \in DOMAIN Shares |-> Share(Fee(a), i)]) = Fee(a)
<1> DEFINE n       == Len(Shares)
           fee     == Fee(a)
           rounded == [j \in DOMAIN Shares |-> (fee * Shares[j]) \div 100]
           f       == [i \in DOMAIN Shares |-> Share(fee, i)]
<1>1. n \in Nat /\ n >= 1 /\ DOMAIN Shares = 1 .. n /\ \A i \in 1 .. n : Shares[i] \in Nat
  BY CustodyAssumption
<1> HIDE DEF n
<1>2. fee \in Nat /\ fee <= a
  <2>1. FeePercent \in Nat /\ FeePercent <= 100
    BY CustodyAssumption
  <2>2. a * FeePercent \in Nat /\ a * FeePercent <= a * 100
    BY <2>1
  <2> DEFINE m == a * FeePercent
  <2>3. m \in Nat /\ m <= 100 * a
    BY <2>2
  <2> HIDE DEF m
  <2>4. m \div 100 \in Nat /\ m \div 100 <= a
    BY <2>3
  <2> QED BY <2>4 DEF Fee, m
<1> HIDE DEF fee
<1>3. \A j \in 1 .. n : rounded[j] \in Int
  <2>1. ASSUME NEW j \in 1 .. n PROVE rounded[j] \in Int
    <3>1. fee * Shares[j] \in Nat
      BY <1>1, <1>2, ProductNatural
    <3>2. rounded[j] = (fee * Shares[j]) \div 100
      BY <1>1
    <3> DEFINE m == fee * Shares[j]
    <3>3. m \in Nat
      BY <3>1
    <3> HIDE DEF m
    <3>4. m \div 100 \in Int
      BY <3>3
    <3> QED BY <3>2, <3>4 DEF m
  <2> QED BY <2>1
<1> DEFINE part == SumFunctionOnSet(rounded, 1 .. n - 1)
<1>4. IsFiniteSet(1 .. n) /\ IsFiniteSet(1 .. n - 1) /\ (1 .. n) \ {n} = 1 .. n - 1 /\ n \in 1 .. n
  <2>1. n \in Int /\ n - 1 \in Int /\ 1 \in Int
    BY <1>1
  <2>2. IsFiniteSet(1 .. n) /\ IsFiniteSet(1 .. n - 1)
    BY <2>1, FS_Interval
  <2>3. \A i : i \in (1 .. n) \ {n} <=> i \in 1 .. n - 1
    BY <1>1
  <2>4. n \in 1 .. n
    BY <1>1
  <2> QED BY <2>2, <2>3, <2>4
<1>5. part \in Int
  <2>1. \A j \in 1 .. n - 1 : rounded[j] \in Int
    BY <1>1, <1>3
  <2> HIDE DEF rounded
  <2> QED BY <1>4, <2>1, SumInt
<1>6. f[n] = fee - part /\ \A i \in 1 .. n - 1 : f[i] = rounded[i]
  <2>1. f[n] = Share(fee, n)
    BY <1>1
  <2>2. Share(fee, n) = fee - part
    BY DEF Share, n
  <2>3. ASSUME NEW i \in 1 .. n - 1 PROVE f[i] = rounded[i]
    <3>1. i \in 1 .. n /\ i # n
      BY <1>1
    <3> QED BY <1>1, <3>1 DEF Share, n
  <2> QED BY <2>1, <2>2, <2>3
<1>7. DOMAIN f = 1 .. n
  BY <1>1
<1> HIDE DEF f, rounded
<1>8. \A i \in 1 .. n : f[i] \in Int
  <2>1. ASSUME NEW i \in 1 .. n PROVE f[i] \in Int
    <3>1. i = n \/ i \in 1 .. n - 1
      BY <1>1
    <3> HIDE DEF part
    <3> QED BY <1>2, <1>3, <1>5, <1>6, <3>1
  <2> QED BY <2>1
<1>9. SumFunctionOnSet(f, 1 .. n) = f[n] + SumFunctionOnSet(f, 1 .. n - 1)
  <2> DEFINE D == 1 .. n
  <2>1. IsFiniteSet(D) /\ n \in D /\ D \ {n} = 1 .. n - 1 /\ \A i \in D : f[i] \in Int
    BY <1>4, <1>8
  <2> HIDE DEF D
  <2>2. SumFunctionOnSet(f, D) = f[n] + SumFunctionOnSet(f, D \ {n})
    BY <2>1, SumRemove
  <2> QED BY <2>1, <2>2 DEF D
<1>10. SumFunctionOnSet(f, 1 .. n - 1) = part
  BY <1>4, <1>6, SumAgree
<1>11. SumFunction(f) = fee
  <2> HIDE DEF part
  <2> QED BY <1>2, <1>5, <1>6, <1>7, <1>9, <1>10 DEF SumFunction
<1> QED BY <1>2, <1>11 DEF fee, f

\* What a sound schedule still owes.
LEMMA Owed ==
  ASSUME NEW v \in Schedule, Sound(v)
  PROVE  /\ Outstanding(v) \in Nat /\ Remainder(v) \in Nat
         /\ v.state # "none" => v.out + Outstanding(v) = v.total
         /\ v = NoSchedule => Outstanding(v) = 0
         /\ v.released \in 0 .. v.count
<1> DEFINE c == v.count  p == v.per  r == v.released  t == v.total
<1>1. c \in Nat /\ p \in Nat /\ r \in Nat /\ t \in Nat /\ v.out \in Nat
  BY DEF Schedule
<1>2. CASE v = NoSchedule
  BY <1>2 DEF NoSchedule, Outstanding, Remainder
<1>3. CASE v # NoSchedule
  <2>1. /\ v.state # "none" /\ r \in 1 .. c /\ p * c <= t
        /\ r < c => v.out = r * p
        /\ r = c => v.out = t
    BY <1>3 DEF Sound
  <2>2. Outstanding(v) = IF r < c THEN (c - r) * p + Remainder(v) ELSE 0
    BY DEF Outstanding
  <2>3. p * c \in Nat /\ Remainder(v) = t - p * c
    BY <1>1, ProductNatural DEF Remainder
  <2>4. (c - r) * p = p * c - r * p /\ r * p \in Nat
    BY <1>1, Distributes, ProductNatural
  <2> DEFINE x == p * c  y == r * p  rem == Remainder(v)
  <2>5. rem \in Nat /\ rem = t - x /\ x \in Nat /\ y \in Nat
    BY <1>1, <2>1, <2>3, <2>4
  <2>6. r < c => (c - r) * p \in Nat
    BY <1>1, ProductNatural
  <2> DEFINE z == (c - r) * p
  <2>7. z = x - y /\ (r < c => z \in Nat)
    BY <2>4, <2>6
  <2>8. Outstanding(v) = IF r < c THEN z + rem ELSE 0
    BY <2>2
  <2>9. r < c => v.out = y
    BY <2>1
  <2> HIDE DEF x, y, z, rem
  <2>10. Outstanding(v) \in Nat
    BY <2>5, <2>7, <2>8
  <2>11. v.out + Outstanding(v) = t
    <3>1. CASE r < c
      BY <1>1, <2>5, <2>7, <2>8, <2>9, <3>1
    <3>2. CASE r = c
      BY <1>1, <2>1, <2>8, <3>2
    <3> QED BY <1>1, <2>1, <3>1, <3>2
  <2>12. r \in 0 .. c
    BY <1>1, <2>1
  <2> QED BY <1>3, <2>1, <2>5, <2>10, <2>11, <2>12 DEF rem
<1> QED BY <1>2, <1>3

-------------------------------------------------------------------------------
(* The steps of custody.                                                   *)

Owing == [s \in Schedules |-> Outstanding(vesting[s])]

LEMMA CusInvInit == CusInit => CusInv
<1> SUFFICES ASSUME CusInit PROVE CusInv
  OBVIOUS
<1>1. NoSchedule \in Schedule
  BY DEF NoSchedule, Schedule
<1>2. NoWithdrawal \in [amount : Gifts \cup {0}, at : Nat]
  BY DEF NoWithdrawal
<1>3. CusTyped
  BY <1>1, <1>2, CustodyAssumption DEF CusInit, CusTyped, FirstLedger
<1>4. \A s \in Schedules : vesting[s] = NoSchedule /\ Sound(vesting[s])
  BY DEF CusInit, Sound
<1>5. Outstanding(NoSchedule) = 0
  BY DEF NoSchedule, Outstanding
<1>6. Vested = 0
  <2>1. DOMAIN Owing = Schedules /\ \A s \in Schedules : Owing[s] = 0
    BY <1>4, <1>5 DEF Owing
  <2>2. SumFunctionOnSet(Owing, Schedules) = 0
    BY <2>1, SumZero, CustodyAssumption
  <2> QED BY <2>1, <2>2 DEF Vested, Owing, SumFunction
<1>7. SumFunction(balance) = 0 /\ SumFunction(job) = 0
  <2>1. /\ DOMAIN balance = Causes /\ \A p \in Causes : balance[p] = 0
        /\ DOMAIN job = Causes /\ \A p \in Causes : job[p] = 0
    BY DEF CusInit
  <2>2. SumFunctionOnSet(balance, Causes) = 0 /\ SumFunctionOnSet(job, Causes) = 0
    BY <2>1, SumZero, CustodyAssumption
  <2> QED BY <2>1, <2>2 DEF SumFunction
<1>8. HeldExactly
  BY <1>6, <1>7 DEF CusInit, HeldExactly
<1> QED BY <1>3, <1>4, <1>8 DEF CusInv, CusInit, ChargedExactly

LEMMA CustodyCounted ==
  ASSUME CusInv
  PROVE  /\ SumFunction(balance) \in Nat /\ SumFunction(job) \in Nat
         /\ Vested \in Nat
         /\ Owing \in [Schedules -> Nat]
         /\ held \in Nat
         /\ held = SumFunction(balance) - SumFunction(job) + Vested
<1>1. SumFunction(balance) \in Nat /\ SumFunction(job) \in Nat
  BY SumsNatural, CustodyAssumption DEF CusInv, CusTyped
<1>2. Owing \in [Schedules -> Nat]
  BY Owed DEF CusInv, CusTyped, Owing
<1>3. SumFunction(Owing) \in Nat
  BY <1>2, SumsNatural, CustodyAssumption
<1> QED BY <1>1, <1>2, <1>3 DEF CusInv, CusTyped, HeldExactly, Vested, Owing

\* What the projects have changes, or an escrow job; the schedules rest.
LEMMA BalancesMove ==
  ASSUME CusInv, vesting' = vesting, held' \in Nat,
         now' \in Nat, escrowed' \subseteq Causes,
         withdrawal' \in [Causes -> [amount : Gifts \cup {0}, at : Nat]],
         balance' \in [Causes -> Nat], job' \in [Causes -> Nat],
         gifts' \in 0 .. MaxGifts, offered' \in Nat, charged' = offered',
         held' - held
           = (SumFunction(balance') - SumFunction(balance)) - (SumFunction(job') - SumFunction(job))
  PROVE  CusInv'
<1>1. CusTyped'
  BY DEF CusInv, CusTyped
<1>2. Vested' = Vested
  BY DEF Vested
<1>3. SumFunction(balance') \in Nat /\ SumFunction(job') \in Nat
  BY SumsNatural, CustodyAssumption
<1>4. HeldExactly'
  BY <1>2, <1>3, CustodyCounted DEF HeldExactly
<1> QED BY <1>1, <1>4 DEF CusInv, ChargedExactly

\* One schedule moves, and the contract holds what it owes.
LEMMA ScheduleMoves ==
  ASSUME CusInv, NEW s \in Schedules, NEW w \in Schedule, Sound(w),
         vesting' = [vesting EXCEPT ![s] = w],
         held' \in Nat, held' = held + Outstanding(w) - Outstanding(vesting[s]),
         UnchangedButVesting
  PROVE  CusInv'
<1>1. vesting \in [Schedules -> Schedule] /\ \A x \in Schedules : Sound(vesting[x])
  BY DEF CusInv, CusTyped
<1>2. CusTyped'
  BY DEF CusInv, CusTyped, UnchangedButVesting
<1>3. \A x \in Schedules : Sound(vesting'[x])
  BY <1>1
<1>4. Owing \in [Schedules -> Nat] /\ Outstanding(w) \in Nat /\ Owing[s] = Outstanding(vesting[s])
  BY Owed, CustodyCounted DEF Owing
<1> DEFINE n == Outstanding(w)
<1>5. Owing' = [Owing EXCEPT ![s] = n]
  BY <1>1 DEF Owing
<1> HIDE DEF n
<1>6. Owing \in [Schedules -> Int] /\ n \in Int
  BY <1>4 DEF n
<1>7. SumFunction([Owing EXCEPT ![s] = n]) = SumFunction(Owing) - Owing[s] + n
  BY <1>6, OneChanges, CustodyAssumption
<1>8. Vested = SumFunction(Owing) /\ Vested' = SumFunction(Owing')
  BY DEF Vested, Owing
<1>9. Vested' = Vested - Outstanding(vesting[s]) + n
  BY <1>4, <1>5, <1>7, <1>8
<1>10. balance' = balance /\ job' = job /\ Outstanding(vesting[s]) \in Nat
  BY <1>4 DEF UnchangedButVesting
<1>11. held = SumFunction(balance) - SumFunction(job) + Vested
       /\ SumFunction(balance) \in Nat /\ SumFunction(job) \in Nat /\ Vested \in Nat
  BY CustodyCounted
<1>12. held' = SumFunction(balance') - SumFunction(job') + Vested'
  BY <1>4, <1>9, <1>10, <1>11 DEF n
<1>13. HeldExactly' /\ ChargedExactly'
  BY <1>12 DEF HeldExactly, CusInv, ChargedExactly, UnchangedButVesting
<1> QED BY <1>2, <1>3, <1>13 DEF CusInv

\* A sum of balances changes by what one of them does.
LEMMA OneBalance ==
  ASSUME NEW f \in [Causes -> Nat], NEW p \in Causes, NEW n \in Nat
  PROVE  /\ [f EXCEPT ![p] = n] \in [Causes -> Nat]
         /\ SumFunction([f EXCEPT ![p] = n]) - SumFunction(f) = n - f[p]
<1>1. f \in [Causes -> Int] /\ n \in Int /\ f[p] \in Int
  OBVIOUS
<1>2. SumFunction([f EXCEPT ![p] = n]) = SumFunction(f) - f[p] + n
  BY <1>1, OneChanges, CustodyAssumption
<1>3. SumFunction(f) \in Nat
  BY SumsNatural, CustodyAssumption
<1> QED BY <1>1, <1>2, <1>3

LEMMA SpendsKeeps ==
  ASSUME CusInv, NEW p \in Causes, NEW a \in Nat, Spends(p, a),
         withdrawal' \in [Causes -> [amount : Gifts \cup {0}, at : Nat]],
         UNCHANGED <<now, escrowed, job, vesting, gifts, offered, charged>>
  PROVE  CusInv'
<1> USE DEF CusInv, CusTyped
<1> DEFINE n == balance[p] - a
<1>1. n \in Nat /\ balance[p] \in Nat /\ held' = held - a /\ held' \in Nat
  BY DEF Spends, Pays
<1>2. balance' = [balance EXCEPT ![p] = n]
  BY DEF Spends
<1> HIDE DEF n
<1>3. balance' \in [Causes -> Nat] /\ SumFunction(balance') - SumFunction(balance) = n - balance[p]
  BY <1>1, <1>2, OneBalance
<1>4. job' = job /\ SumFunction(job') - SumFunction(job) = 0
  BY CustodyCounted
<1>5. held' - held = (SumFunction(balance') - SumFunction(balance)) - (SumFunction(job') - SumFunction(job))
  BY <1>1, <1>3, <1>4, CustodyCounted DEF n
<1>6. charged' = offered' /\ gifts' \in 0 .. MaxGifts /\ offered' \in Nat /\ job' \in [Causes -> Nat]
      /\ now' \in Nat /\ escrowed' \subseteq Causes /\ vesting' = vesting
  BY DEF ChargedExactly
<1> QED BY <1>1, <1>3, <1>5, <1>6, BalancesMove

LEMMA TakesKeeps ==
  ASSUME CusInv, NEW p \in Causes, NEW a \in Gifts, TakesDonation(p, a)
  PROVE  CusInv'
<1> USE DEF CusInv, CusTyped
<1> DEFINE fee  == Fee(a)
           fees == SumFunction([i \in DOMAIN Shares |-> Share(Fee(a), i)])
           rest == a - fee
<1>1. a \in Nat /\ fee \in Nat /\ fee <= a /\ fees = fee
  BY FeesAddUp, CustodyAssumption
<1>2. /\ gifts > 0 /\ gifts' = gifts - 1 /\ offered' = offered + a /\ charged' = charged + fees + rest
      /\ UNCHANGED <<now, escrowed, job, withdrawal, vesting>>
  BY DEF TakesDonation
<1>3. p \in escrowed => held' = held + rest /\ balance' = [balance EXCEPT ![p] = balance[p] + rest]
  BY DEF TakesDonation
<1>4. p \notin escrowed => UNCHANGED <<held, balance>>
  BY DEF TakesDonation
<1> HIDE DEF fee, fees
<1>5. rest \in Nat /\ held \in Nat /\ balance[p] \in Nat
  BY <1>1
<1>6. /\ held' \in Nat /\ balance' \in [Causes -> Nat]
      /\ held' - held = SumFunction(balance') - SumFunction(balance)
  <2> HIDE DEF rest
  <2>1. CASE p \in escrowed
    <3> DEFINE n == balance[p] + rest
    <3>1. n \in Nat /\ balance' = [balance EXCEPT ![p] = n] /\ held' = held + rest /\ n - balance[p] = rest
      BY <1>3, <1>5, <2>1
    <3> HIDE DEF n
    <3>2. balance' \in [Causes -> Nat] /\ SumFunction(balance') - SumFunction(balance) = n - balance[p]
      BY <3>1, OneBalance
    <3> QED BY <1>5, <3>1, <3>2
  <2>2. CASE p \notin escrowed
    BY <1>4, <1>5, <2>2, CustodyCounted
  <2> QED BY <2>1, <2>2
<1>7. gifts' \in 0 .. MaxGifts /\ offered' \in Nat /\ charged' = offered'
  BY <1>1, <1>2, CustodyAssumption DEF ChargedExactly
<1>8. job' = job /\ SumFunction(job') - SumFunction(job) = 0 /\ SumFunction(balance) \in Nat
      /\ SumFunction(balance') \in Nat
  <2>1. job' = job
    BY <1>2
  <2>2. SumFunction(job) \in Nat /\ SumFunction(balance) \in Nat
    BY CustodyCounted
  <2>3. SumFunction(balance') \in Nat
    BY <1>6, SumsNatural, CustodyAssumption
  <2> QED BY <2>1, <2>2, <2>3
<1>9. held' - held = (SumFunction(balance') - SumFunction(balance)) - (SumFunction(job') - SumFunction(job))
  BY <1>6, <1>8
<1>10. vesting' = vesting /\ now' \in Nat /\ escrowed' \subseteq Causes /\ job' \in [Causes -> Nat]
       /\ withdrawal' \in [Causes -> [amount : Gifts \cup {0}, at : Nat]]
  BY <1>2
<1> QED BY <1>6, <1>7, <1>9, <1>10, BalancesMove

LEMMA FundsJobKeeps ==
  ASSUME CusInv, NEW p \in Causes, FundCampaignEscrowJob(p)
  PROVE  CusInv'
<1> USE DEF CusInv, CusTyped
<1> DEFINE n == balance[p]
<1>1. /\ n \in Nat /\ held' = held - n /\ held' \in Nat /\ job[p] = 0
      /\ UNCHANGED <<now, balance, escrowed, withdrawal, vesting, gifts, offered, charged>>
  BY DEF FundCampaignEscrowJob, Pays
<1>2. job' = [job EXCEPT ![p] = n]
  BY DEF FundCampaignEscrowJob
<1> HIDE DEF n
<1>3. job' \in [Causes -> Nat] /\ SumFunction(job') - SumFunction(job) = n - job[p]
  BY <1>1, <1>2, OneBalance
<1>4. held' - held = (SumFunction(balance') - SumFunction(balance)) - (SumFunction(job') - SumFunction(job))
  BY <1>1, <1>3, CustodyCounted
<1>5. charged' = offered' /\ gifts' \in 0 .. MaxGifts /\ offered' \in Nat /\ balance' \in [Causes -> Nat]
      /\ now' \in Nat /\ escrowed' \subseteq Causes /\ vesting' = vesting
      /\ withdrawal' \in [Causes -> [amount : Gifts \cup {0}, at : Nat]]
  BY <1>1 DEF ChargedExactly
<1> QED BY <1>1, <1>3, <1>4, <1>5, BalancesMove

\* The books of the projects rest: an escrow campaign is made, a withdrawal is asked for or
\* given up, the ledger closes.
LEMMA CustodyRests ==
  ASSUME CusInv, now' \in Nat, escrowed' \subseteq Causes,
         withdrawal' \in [Causes -> [amount : Gifts \cup {0}, at : Nat]],
         UNCHANGED <<held, balance, job, vesting, gifts, offered, charged>>
  PROVE  CusInv'
<1>1. CusTyped'
  BY DEF CusInv, CusTyped
<1>2. HeldExactly'
  BY DEF CusInv, HeldExactly, Vested
<1> QED BY <1>1, <1>2 DEF CusInv, ChargedExactly

LEMMA Divided ==
  ASSUME NEW t \in Nat, NEW c \in Nat, c >= 1
  PROVE  t \div c \in Nat /\ (t \div c) * c <= t /\ t \div c <= t
<1>1. t \div c \in Nat
  OBVIOUS
<1>2. (t \div c) * c <= t
  OBVIOUS
<1>3. t \div c <= (t \div c) * c
  <2> DEFINE q == t \div c
  <2>1. q \in Nat
    BY <1>1
  <2> HIDE DEF q
  <2>2. q <= q * c
    BY <2>1
  <2> QED BY <2>2 DEF q
<1> DEFINE q == t \div c  m == (t \div c) * c
<1>4. q \in Nat /\ m \in Nat /\ q <= m /\ m <= t
  BY <1>1, <1>2, <1>3, ProductNatural
<1> HIDE DEF q, m
<1>5. q <= t
  BY <1>4
<1> QED BY <1>1, <1>2, <1>5 DEF q

LEMMA VestsKeeps ==
  ASSUME CusInv, NEW s \in Schedules, NEW t \in VestedAmounts, NEW c \in Counts, DonateVested(s, t, c)
  PROVE  CusInv'
<1> USE DEF CusInv, CusTyped
<1> DEFINE per == t \div c
           w   == [state |-> "made", total |-> t, per |-> per, count |-> c, released |-> 1,
                   next |-> now + VestInterval, completed |-> 0, out |-> per]
<1>1. t \in Nat /\ c \in Nat /\ c >= 1 /\ now + VestInterval \in Nat /\ held \in Nat
  BY CustodyAssumption
<1>2. per \in Nat /\ per * c <= t /\ (c = 1 => per = t) /\ per <= t
  <2>1. /\ per \in Nat /\ per * c <= t /\ per <= t
    BY <1>1, Divided
  <2>2. c = 1 => per = t
    BY <1>1
  <2> QED BY <2>1, <2>2
<1>3. /\ vesting[s].state = "none" /\ vesting' = [vesting EXCEPT ![s] = w]
      /\ held' = held + t - per /\ UnchangedButVesting
  BY DEF DonateVested
<1> HIDE DEF per
<1>4. w \in Schedule /\ w.state = "made" /\ w.released = 1 /\ w.count = c /\ w.per = per
      /\ w.total = t /\ w.out = per /\ w.completed = 0
  BY <1>1, <1>2 DEF Schedule
<1> HIDE DEF w
<1>5. Sound(w)
  BY <1>1, <1>2, <1>4 DEF Sound
<1>6. w.out + Outstanding(w) = t /\ Outstanding(w) \in Nat
  BY <1>4, <1>5, Owed
<1>7. Outstanding(vesting[s]) = 0
  <2>1. vesting[s] \in Schedule /\ Sound(vesting[s])
    OBVIOUS
  <2>2. vesting[s] = NoSchedule
    BY <1>3, <2>1 DEF Sound
  <2> QED BY <2>1, <2>2, Owed
<1>8. held' \in Nat /\ held' = held + Outstanding(w) - Outstanding(vesting[s])
  BY <1>1, <1>2, <1>3, <1>4, <1>6, <1>7
<1> QED BY <1>3, <1>4, <1>5, <1>8, ScheduleMoves

\* A schedule pays x: what it owes goes down by x.
LEMMA SchedulePays ==
  ASSUME CusInv, NEW s \in Schedules, NEW w \in Schedule, NEW x \in Nat,
         Sound(w), w.state # "none", vesting[s].state # "none",
         w.total = vesting[s].total, w.out = vesting[s].out + x,
         Pays(x), vesting' = [vesting EXCEPT ![s] = w], UnchangedButVesting
  PROVE  CusInv'
<1>1. vesting[s] \in Schedule /\ Sound(vesting[s]) /\ held \in Nat
  BY DEF CusInv, CusTyped
<1>2. /\ w.out + Outstanding(w) = w.total /\ Outstanding(w) \in Nat
      /\ vesting[s].out + Outstanding(vesting[s]) = vesting[s].total
      /\ Outstanding(vesting[s]) \in Nat
  BY <1>1, Owed
<1>3. w.out \in Nat /\ vesting[s].out \in Nat /\ w.total \in Nat
  BY <1>1 DEF Schedule
<1>4. held' = held - x /\ held' \in Nat
  BY <1>1 DEF Pays
<1>5. held' = held + Outstanding(w) - Outstanding(vesting[s])
  BY <1>1, <1>2, <1>3, <1>4
<1> QED BY <1>4, <1>5, ScheduleMoves

\* An installment leaves a schedule sound.
LEMMA InstallmentSound ==
  ASSUME NEW v \in Schedule, Sound(v), v.state = "made", v.released < v.count,
         NEW w \in Schedule, w.state = "made", w.total = v.total, w.per = v.per, w.count = v.count,
         w.released = v.released + 1, w.out = v.out + Payout(v),
         v.released + 1 < v.count => w.completed = v.completed
  PROVE  Sound(w) /\ Payout(v) \in Nat
<1> DEFINE c == v.count  p == v.per  r == v.released  t == v.total
<1>1. c \in Nat /\ p \in Nat /\ r \in Nat /\ t \in Nat /\ v.out \in Nat
  BY DEF Schedule
<1>2. r \in 1 .. c /\ p * c <= t /\ v.out = r * p /\ v.completed = 0
  BY DEF Sound, NoSchedule
<1>3. p * c \in Nat /\ r * p \in Nat /\ (r + 1) * p = r * p + p /\ p * c = c * p
  <2>1. p * c \in Nat /\ r * p \in Nat
    BY <1>1, ProductNatural
  <2>2. (r + 1) * p = r * p + 1 * p /\ 1 * p = p
    BY <1>1, Distributes
  <2>3. p * c = c * p
    BY <1>1, Distributes
  <2> QED BY <2>1, <2>2, <2>3
<1>4. Remainder(v) = t - p * c
  BY DEF Remainder
<1> DEFINE x == p * c  y == r * p  rem == Remainder(v)
<1>5. x \in Nat /\ y \in Nat /\ rem = t - x /\ x <= t /\ v.out = y
  BY <1>2, <1>3, <1>4
<1>6. Payout(v) = IF r + 1 >= c THEN p + rem ELSE p
  BY DEF Payout
<1> HIDE DEF x, y, rem
<1>7. Payout(v) \in Nat
  BY <1>1, <1>5, <1>6
<1>8. CASE r + 1 < c
  <2>1. w.out = y + p /\ w.out = (r + 1) * p
    BY <1>1, <1>3, <1>5, <1>6, <1>8 DEF y
  <2> QED BY <1>1, <1>2, <1>7, <1>8, <2>1 DEF Sound
<1>9. CASE r + 1 = c
  <2>1. c * p = (r + 1) * p
    BY <1>9
  <2>2. x = y + p
    BY <1>3, <2>1 DEF x, y
  <2>3. w.out = t
    BY <1>1, <1>5, <1>6, <1>9, <2>2
  <2> QED BY <1>1, <1>2, <1>7, <1>9, <2>3 DEF Sound
<1> QED BY <1>1, <1>2, <1>8, <1>9

LEMMA ClaimKeeps ==
  ASSUME CusInv, NEW s \in Schedules, ClaimVestedInstallment(s)
  PROVE  CusInv'
<1> DEFINE v == vesting[s]
           w == [v EXCEPT !.released = @ + 1, !.next = now + VestInterval,
                          !.completed = IF v.released + 1 >= v.count THEN now ELSE @,
                          !.out = @ + Payout(v)]
<1>1. v \in Schedule /\ Sound(v) /\ now \in Nat /\ now + VestInterval \in Nat
  BY CustodyAssumption DEF CusInv, CusTyped
<1>2. /\ v.state = "made" /\ v.released < v.count /\ Pays(Payout(v))
      /\ vesting' = [vesting EXCEPT ![s] = w] /\ UnchangedButVesting
  BY DEF ClaimVestedInstallment
<1> HIDE DEF v
<1>3. v.released \in Nat /\ v.count \in Nat /\ v.out \in Nat /\ v.completed \in Nat /\ v.per \in Nat
      /\ v.total \in Nat
  BY <1>1 DEF Schedule
<1>4. Payout(v) \in Nat
  <2>1. Remainder(v) \in Nat
    BY <1>1, Owed
  <2> QED BY <1>3, <2>1 DEF Payout
<1> DEFINE done == IF v.released + 1 >= v.count THEN now ELSE v.completed
           out  == v.out + Payout(v)
           next == now + VestInterval
<1>5. done \in Nat /\ out \in Nat /\ next \in Nat /\ (v.released + 1 < v.count => done = v.completed)
  BY <1>1, <1>3, <1>4
<1>6. w = [v EXCEPT !.released = v.released + 1, !.next = next, !.completed = done, !.out = out]
  OBVIOUS
<1> HIDE DEF w, done, out, next
<1>7. /\ w \in Schedule /\ w.state = "made" /\ w.total = v.total /\ w.per = v.per
      /\ w.count = v.count /\ w.released = v.released + 1 /\ w.out = out /\ w.completed = done
  <2>1. w = [state |-> v.state, total |-> v.total, per |-> v.per, count |-> v.count,
             released |-> v.released + 1, next |-> next, completed |-> done, out |-> out]
    BY <1>1, <1>6 DEF Schedule
  <2>2. v.released + 1 \in Nat
    BY <1>3
  <2> QED BY <1>2, <1>3, <1>5, <2>1, <2>2 DEF Schedule
<1>8. Sound(w)
  BY <1>1, <1>2, <1>5, <1>7, InstallmentSound DEF out
<1> QED BY <1>2, <1>4, <1>7, <1>8, SchedulePays DEF v, out

LEMMA CancelKeeps ==
  ASSUME CusInv, NEW s \in Schedules, CancelVesting(s)
  PROVE  CusInv'
<1> DEFINE v == vesting[s]
           w == [v EXCEPT !.released = v.count, !.completed = now, !.out = @ + Outstanding(v)]
<1>1. v \in Schedule /\ Sound(v) /\ now \in Nat
  BY DEF CusInv, CusTyped
<1>2. /\ v.state = "made" /\ v.released < v.count /\ Pays(Outstanding(v))
      /\ vesting' = [vesting EXCEPT ![s] = w] /\ UnchangedButVesting
  BY DEF CancelVesting
<1> HIDE DEF v
<1>3. v.released \in Nat /\ v.count \in Nat /\ v.out \in Nat /\ v.total \in Nat
  BY <1>1 DEF Schedule
<1>4. Outstanding(v) \in Nat /\ v.out + Outstanding(v) = v.total
  BY <1>1, <1>2, Owed
<1> DEFINE out == v.out + Outstanding(v)
<1>5. out \in Nat /\ w = [v EXCEPT !.released = v.count, !.completed = now, !.out = out]
  BY <1>3, <1>4
<1> HIDE DEF w, out
<1>6. /\ w \in Schedule /\ w.state = "made" /\ w.total = v.total /\ w.per = v.per
      /\ w.count = v.count /\ w.released = v.count /\ w.out = out
  BY <1>1, <1>2, <1>3, <1>5 DEF Schedule
<1>7. Sound(w)
  <2>1. v.released \in 1 .. v.count /\ v.per * v.count <= v.total
    BY <1>1, <1>2 DEF Sound, NoSchedule
  <2>2. w.released \in 1 .. w.count
    BY <1>3, <1>6, <2>1
  <2> QED BY <1>3, <1>4, <1>6, <2>1, <2>2 DEF Sound, out
<1> QED BY <1>2, <1>4, <1>6, <1>7, SchedulePays DEF v, out

LEMMA CleanupVestingKeeps ==
  ASSUME CusInv, NEW s \in Schedules, CleanupVestingSchedule(s)
  PROVE  CusInv'
<1> DEFINE v == vesting[s]
           w == [v EXCEPT !.state = "removed"]
<1>1. v \in Schedule /\ Sound(v) /\ held \in Nat
  BY DEF CusInv, CusTyped
<1>2. /\ v.state = "made" /\ v.completed > 0 /\ held' = held
      /\ vesting' = [vesting EXCEPT ![s] = w] /\ UnchangedButVesting
  BY DEF CleanupVestingSchedule
<1> HIDE DEF v
<1>3. w \in Schedule /\ w.state = "removed" /\ w.total = v.total /\ w.per = v.per
      /\ w.count = v.count /\ w.released = v.released /\ w.out = v.out
  BY <1>1, <1>2 DEF Schedule
<1> HIDE DEF w
<1>4. v.released = v.count /\ v.released \in 1 .. v.count /\ v.per * v.count <= v.total /\ v.out = v.total
  <2>1. v.released \in 1 .. v.count /\ v.per * v.count <= v.total
        /\ (v.released < v.count => v.completed = 0) /\ (v.released = v.count => v.out = v.total)
    BY <1>1, <1>2 DEF Sound, NoSchedule
  <2>2. ~(v.completed = 0)
    BY <1>2
  <2>3. v.released = v.count
    BY <1>1, <2>1, <2>2 DEF Schedule
  <2> QED BY <2>1, <2>3
<1>5. Sound(w)
  BY <1>1, <1>3, <1>4 DEF Sound, Schedule
<1>6. Outstanding(w) = 0 /\ Outstanding(v) = 0
  BY <1>1, <1>3, <1>4 DEF Outstanding, Schedule
<1>7. held' \in Nat /\ held' = held + Outstanding(w) - Outstanding(v)
  BY <1>1, <1>2, <1>6
<1> QED BY <1>2, <1>3, <1>5, <1>7, ScheduleMoves DEF v

LEMMA CusInvStep == CusInv /\ [CusNext]_cusVars => CusInv'
<1> SUFFICES ASSUME CusInv, [CusNext]_cusVars PROVE CusInv'
  OBVIOUS
<1>0. /\ now \in Nat /\ escrowed \subseteq Causes /\ \A a \in Gifts : a \in Nat
      /\ withdrawal \in [Causes -> [amount : Gifts \cup {0}, at : Nat]]
  BY CustodyAssumption DEF CusInv, CusTyped
<1>1. CASE UNCHANGED cusVars
  BY <1>0, <1>1, CustodyRests DEF cusVars
<1>2. CASE CustodyCloses
  BY <1>0, <1>2, CustodyRests DEF CustodyCloses, Closes
<1>3. ASSUME NEW p \in Causes, NEW a \in Gifts, TakesDonation(p, a) PROVE CusInv'
  BY <1>3, TakesKeeps
<1>4. ASSUME NEW p \in Causes, NEW a \in Gifts, SpendsForceRefund(p, a) PROVE CusInv'
  BY <1>0, <1>4, SpendsKeeps DEF SpendsForceRefund, others
<1>5. ASSUME NEW p \in Causes, NEW a \in Gifts, InitiateWithdrawal(p, a) PROVE CusInv'
  <2>1. now + Delay \in Nat
    BY <1>0, CustodyAssumption
  <2>2. withdrawal' \in [Causes -> [amount : Gifts \cup {0}, at : Nat]]
    BY <1>0, <1>5, <2>1 DEF InitiateWithdrawal
  <2> QED BY <1>0, <1>5, <2>2, CustodyRests DEF InitiateWithdrawal
<1>6. ASSUME NEW p \in Causes, CreateCampaignWithEscrow(p) PROVE CusInv'
  BY <1>0, <1>6, CustodyRests DEF CreateCampaignWithEscrow
<1>7. ASSUME NEW p \in Causes, FundCampaignEscrowJob(p) PROVE CusInv'
  BY <1>7, FundsJobKeeps
<1>8. ASSUME NEW p \in Causes, CancelWithdrawal(p) PROVE CusInv'
  <2>1. withdrawal' \in [Causes -> [amount : Gifts \cup {0}, at : Nat]]
    BY <1>0, <1>8 DEF CancelWithdrawal, NoWithdrawal
  <2> QED BY <1>0, <1>8, <2>1, CustodyRests DEF CancelWithdrawal
<1>9. ASSUME NEW p \in Causes, ExecuteWithdrawal(p) PROVE CusInv'
  <2>1. withdrawal' \in [Causes -> [amount : Gifts \cup {0}, at : Nat]]
    BY <1>0, <1>9 DEF ExecuteWithdrawal, NoWithdrawal
  <2>2. withdrawal[p].amount \in Nat
    BY <1>0
  <2> QED BY <1>9, <2>1, <2>2, SpendsKeeps DEF ExecuteWithdrawal
<1>10. ASSUME NEW s \in Schedules, NEW t \in VestedAmounts, NEW c \in Counts, DonateVested(s, t, c)
       PROVE  CusInv'
  BY <1>10, VestsKeeps
<1>11. ASSUME NEW s \in Schedules, ClaimVestedInstallment(s) PROVE CusInv'
  BY <1>11, ClaimKeeps
<1>12. ASSUME NEW s \in Schedules, CancelVesting(s) PROVE CusInv'
  BY <1>12, CancelKeeps
<1>13. ASSUME NEW s \in Schedules, CleanupVestingSchedule(s) PROVE CusInv'
  BY <1>13, CleanupVestingKeeps
<1> QED BY <1>1, <1>2, <1>3, <1>4, <1>5, <1>6, <1>7, <1>8, <1>9, <1>10, <1>11, <1>12, <1>13 DEF CusNext

LEMMA CustodyIsExact == CusInv => CustodyExact
<1> SUFFICES ASSUME CusInv PROVE CustodyExact
  OBVIOUS
<1>1. \A s \in Schedules : vesting[s] \in Schedule /\ Sound(vesting[s])
  BY DEF CusInv, CusTyped
<1>2. VestingExact
  BY <1>1, Owed DEF VestingExact
<1>3. \A s \in Schedules : vesting[s].released \in 0 .. vesting[s].count
  BY <1>1, Owed
<1>4. ASSUME NEW s \in Schedules, vesting[s].state = "removed"
      PROVE  vesting[s].released = vesting[s].count
  BY <1>1, <1>4 DEF Sound, NoSchedule, Schedule
<1>5. CusTypeOK
  BY <1>1, <1>3, <1>4 DEF CusInv, CusTyped, CusTypeOK, Schedule
<1> QED BY <1>2, <1>5 DEF CusInv, CustodyExact

-------------------------------------------------------------------------------
(* Governance.                                                             *)

Poll == [for : Nat, against : Nat, deadline : Nat, resolved : BOOLEAN, at : Nat]

GovTyped ==
  /\ now \in Nat \ {0}
  /\ badge \in [Voters -> DOMAIN BadgeWeights]
  /\ delegate \in [Voters -> Voters \cup {NoOne}] /\ delegated \in [Voters -> Nat]
  /\ credits \in [Voters -> Nat \cup {Unset}]
  /\ voted \subseteq Topics \X Voters /\ badgeMoves \in 0 .. BadgeMoves
  /\ poll \in [Topics -> Poll]
  /\ voterList \in [Topics -> Seq(Voters)]

GovInv ==
  GovTyped /\ (\A p \in Topics : poll[p].resolved <=> poll[p].at > 0) /\ Revocable /\ VotersListed

Delegators(d) == {v \in Voters : delegate[v] = d}
Weights       == [v \in Voters |-> Weight(v)]
WeightOn(d)   == SumFunctionOnSet(Weights, Delegators(d))

LEMMA WeightsNatural ==
  ASSUME GovTyped
  PROVE  /\ \A b \in DOMAIN BadgeWeights : BadgeWeights[b] \in Nat
         /\ \A v \in Voters : Weight(v) \in Nat
         /\ Weights \in [Voters -> Nat]
         /\ \A d : Delegators(d) \subseteq Voters /\ IsFiniteSet(Delegators(d))
         /\ \A d : WeightOn(d) \in Nat
<1>1. \A b \in DOMAIN BadgeWeights : BadgeWeights[b] \in Nat
  BY GovernanceAssumption
<1>2. \A v \in Voters : Weight(v) \in Nat
  BY <1>1 DEF GovTyped, Weight
<1>3. Weights \in [Voters -> Nat]
  BY <1>2 DEF Weights
<1>4. \A d : Delegators(d) \subseteq Voters /\ IsFiniteSet(Delegators(d))
  BY GovernanceAssumption, FS_Subset DEF Delegators
<1>5. ASSUME NEW d PROVE WeightOn(d) \in Nat
  <2>1. \A v \in Delegators(d) : Weights[v] \in Nat
    BY <1>3, <1>4
  <2> QED BY <1>4, <2>1, SumNat DEF WeightOn
<1> QED BY <1>1, <1>2, <1>3, <1>4, <1>5

LEMMA RevocableIs ==
  Revocable <=> \A d \in Voters : delegated[d] >= WeightOn(d)
BY DEF Revocable, WeightOn, Weights, Delegators

\* The weight of one badge changes, in the sum of whoever it is delegated to.
LEMMA BadgeMoved ==
  ASSUME GovTyped, NEW v \in Voters, NEW b \in DOMAIN BadgeWeights,
         badge' = [badge EXCEPT ![v] = b], delegate' = delegate, NEW d \in Voters
  PROVE  WeightOn(d)'
           = WeightOn(d)
               + (IF delegate[v] = d THEN BadgeWeights[b] - Weight(v) ELSE 0)
<1> DEFINE S == Delegators(d)
           f == Weights
           g == [f EXCEPT ![v] = BadgeWeights[b]]
<1>1. /\ S \subseteq Voters /\ IsFiniteSet(S) /\ f \in [Voters -> Nat] /\ BadgeWeights[b] \in Nat
      /\ f[v] = Weight(v) /\ SumFunctionOnSet(f, S) \in Nat
  BY WeightsNatural DEF Weights, WeightOn
<1>2. Weights' = g /\ Delegators(d)' = S
  BY DEF Weights, Weight, Delegators, GovTyped
<1>3. v \in S <=> delegate[v] = d
  BY DEF Delegators
<1>4. g \in [Voters -> Nat] /\ g[v] = BadgeWeights[b] /\ \A x \in Voters \ {v} : g[x] = f[x]
  BY <1>1
<1> HIDE DEF S, f, g
<1>5. CASE v \in S
  <2>1. \A x \in S : f[x] \in Int /\ g[x] \in Int
    BY <1>1, <1>4
  <2>2. \A x \in S \ {v} : f[x] = g[x]
    BY <1>1, <1>4
  <2>3. IsFiniteSet(S)
    BY <1>1
  <2>4. SumFunctionOnSet(g, S) = SumFunctionOnSet(f, S) - f[v] + g[v]
    BY <1>5, <2>1, <2>2, <2>3, SumChange
  <2> QED BY <1>1, <1>2, <1>3, <1>4, <1>5, <2>4 DEF S, f, WeightOn
<1>6. CASE v \notin S
  <2>1. \A x \in S : f[x] = g[x]
    BY <1>1, <1>4, <1>6
  <2>2. SumFunctionOnSet(g, S) = SumFunctionOnSet(f, S)
    BY <1>1, <2>1, SumAgree
  <2> QED BY <1>1, <1>2, <1>3, <1>6, <2>2 DEF S, f, WeightOn
<1> QED BY <1>5, <1>6

LEMMA BadgesTyped ==
  ASSUME GovTyped, NEW v \in Voters, NEW b \in DOMAIN BadgeWeights, badge' = [badge EXCEPT ![v] = b],
         badgeMoves > 0, badgeMoves' = badgeMoves - 1,
         UNCHANGED <<now, delegate, poll, voted, voterList>>,
         delegated' \in [Voters -> Nat], credits' \in [Voters -> Nat \cup {Unset}]
  PROVE  GovTyped'
<1>1. badge' \in [Voters -> DOMAIN BadgeWeights]
  BY DEF GovTyped
<1>2. badgeMoves' \in 0 .. BadgeMoves
  BY GovernanceAssumption DEF GovTyped
<1>3. /\ now' \in Nat \ {0} /\ delegate' \in [Voters -> Voters \cup {NoOne}]
      /\ voted' \subseteq Topics \X Voters /\ poll' \in [Topics -> Poll]
      /\ voterList' \in [Topics -> Seq(Voters)]
  BY DEF GovTyped
<1> QED BY <1>1, <1>2, <1>3 DEF GovTyped

LEMMA BadgeRisesKeeps ==
  ASSUME GovInv, NEW v \in Voters, BadgeRises(v)
  PROVE  GovInv'
<1>1. PICK b \in DOMAIN BadgeWeights :
        /\ badge' = [badge EXCEPT ![v] = b]
        /\ delegated' = RaisesDelegated(v, b)
        /\ credits' = [credits EXCEPT ![v] = BadgeWeights[b] + delegated'[v]]
  BY DEF BadgeRises
<1>2. /\ badgeMoves > 0 /\ badgeMoves' = badgeMoves - 1
      /\ UNCHANGED <<now, delegate, poll, voted, voterList>>
  BY DEF BadgeRises
<1>3. GovTyped /\ \A d \in Voters : delegated[d] \in Nat
  BY DEF GovInv, GovTyped
<1>4. Weight(v) \in Nat /\ BadgeWeights[b] \in Nat
  BY <1>3, WeightsNatural
<1>5. \A d \in Voters :
        /\ delegated'[d] = delegated[d] + (IF delegate[v] = d THEN BadgeWeights[b] - Weight(v) ELSE 0)
        /\ delegated' = [x \in Voters |-> delegated'[x]]
  <2>1. CASE delegate[v] = NoOne
    <3>1. \A d \in Voters : delegate[v] # d
      BY <2>1, GovernanceAssumption
    <3> QED BY <1>1, <1>3, <2>1, <3>1 DEF RaisesDelegated, GovTyped
  <2>2. CASE delegate[v] # NoOne
    <3>1. delegated' = [delegated EXCEPT ![delegate[v]] = @ + BadgeWeights[b] - Weight(v)]
      BY <1>1, <2>2 DEF RaisesDelegated
    <3> DEFINE e == delegate[v]
               s == delegated[e] + BadgeWeights[b] - Weight(v)
    <3>2. e \in Voters /\ s = delegated[e] + (BadgeWeights[b] - Weight(v))
      BY <1>3, <1>4, <2>2 DEF GovTyped
    <3>3. delegated' = [delegated EXCEPT ![e] = s] /\ delegated \in [Voters -> Nat]
      BY <1>3, <3>1 DEF GovTyped
    <3> HIDE DEF s
    <3>4. \A d \in Voters : delegated'[d] = IF d = e THEN s ELSE delegated[d]
      BY <3>2, <3>3
    <3>5. \A d \in Voters : delegated[d] \in Nat /\ delegated[d] + 0 = delegated[d]
      BY <1>3
    <3>6. delegated' = [x \in Voters |-> delegated'[x]]
      BY <3>3
    <3> QED BY <3>2, <3>4, <3>5, <3>6
  <2> QED BY <2>1, <2>2
<1>6. ASSUME NEW d \in Voters
      PROVE  delegated'[d] >= WeightOn(d)' /\ delegated'[d] \in Nat
  <2> DEFINE sum  == WeightOn(d)
             sum2 == WeightOn(d)'
             more == IF delegate[v] = d THEN BadgeWeights[b] - Weight(v) ELSE 0
  <2>1. sum2 = sum + more
    BY <1>1, <1>2, <1>3, BadgeMoved
  <2>2. sum \in Nat /\ delegated[d] >= sum
    BY <1>3, WeightsNatural, RevocableIs DEF GovInv
  <2>3. delegated'[d] = delegated[d] + more
    BY <1>5
  <2>4. delegate[v] = d => sum >= Weight(v)
    <3> SUFFICES ASSUME delegate[v] = d PROVE sum >= Weight(v)
      OBVIOUS
    <3>1. v \in Delegators(d) /\ Weights[v] = Weight(v) /\ Delegators(d) \subseteq Voters
          /\ IsFiniteSet(Delegators(d)) /\ Weights \in [Voters -> Nat]
      BY <1>3, WeightsNatural DEF Delegators, Weights
    <3>2. \A x \in Delegators(d) : Weights[x] \in Int /\ Weights[x] \in Nat
      BY <3>1
    <3>3. sum = Weights[v] + SumFunctionOnSet(Weights, Delegators(d) \ {v})
      BY <3>1, <3>2, SumRemove DEF WeightOn
    <3>4. SumFunctionOnSet(Weights, Delegators(d) \ {v}) \in Nat
      <4>1. IsFiniteSet(Delegators(d) \ {v})
        BY <3>1, FS_RemoveElement
      <4> QED BY <3>2, <4>1, SumNat
    <3> HIDE DEF sum
    <3> QED BY <1>4, <3>1, <3>3, <3>4
  <2>5. delegated[d] \in Nat /\ more \in Int
    BY <1>3, <1>4
  <2>6. delegate[v] = d => more >= 0 - Weight(v)
    BY <1>4
  <2>7. delegate[v] # d => more = 0
    OBVIOUS
  <2> HIDE DEF sum, sum2, more
  <2>8. delegated'[d] >= sum2 /\ delegated'[d] \in Nat
    BY <1>4, <2>1, <2>2, <2>3, <2>4, <2>5, <2>6, <2>7
  <2> QED BY <2>8 DEF sum2
<1>7. Revocable'
  BY <1>6 DEF Revocable, WeightOn, Weights, Delegators
<1>8. GovTyped'
  <2>1. delegated' \in [Voters -> Nat]
    BY <1>5, <1>6
  <2>2. credits' \in [Voters -> Nat \cup {Unset}]
    BY <1>1, <1>3, <1>4, <2>1 DEF GovTyped
  <2> QED BY <1>1, <1>2, <1>3, <2>1, <2>2, BadgesTyped
<1> QED BY <1>2, <1>7, <1>8 DEF GovInv, VotersListed

LEMMA BadgeFallsKeeps ==
  ASSUME GovInv, NEW v \in Voters, BadgeFalls(v)
  PROVE  GovInv'
<1>1. PICK b \in DOMAIN BadgeWeights :
        /\ b < badge[v] /\ badge' = [badge EXCEPT ![v] = b]
        /\ credits' = [credits EXCEPT ![v] = BadgeWeights[b] + delegated[v]]
  BY DEF BadgeFalls
<1>2. /\ badgeMoves > 0 /\ badgeMoves' = badgeMoves - 1
      /\ UNCHANGED <<now, delegate, delegated, poll, voted, voterList>>
  BY DEF BadgeFalls
<1>3. GovTyped /\ \A d \in Voters : delegated[d] \in Nat
  BY DEF GovInv, GovTyped
<1>4. Weight(v) \in Nat /\ BadgeWeights[b] \in Nat /\ BadgeWeights[b] <= Weight(v)
  <2>1. badge[v] \in DOMAIN BadgeWeights /\ badge[v] \in Nat /\ b \in Nat
    BY <1>3, GovernanceAssumption DEF GovTyped
  <2>2. b <= badge[v]
    BY <1>1, <2>1
  <2>3. BadgeWeights[b] <= BadgeWeights[badge[v]]
    BY <2>1, <2>2, GovernanceAssumption
  <2> QED BY <1>3, <2>3, WeightsNatural DEF Weight
<1>5. ASSUME NEW d \in Voters PROVE delegated'[d] >= WeightOn(d)'
  <2> DEFINE sum  == WeightOn(d)
             sum2 == WeightOn(d)'
             more == IF delegate[v] = d THEN BadgeWeights[b] - Weight(v) ELSE 0
  <2>1. sum2 = sum + more
    BY <1>1, <1>2, <1>3, BadgeMoved
  <2>2. sum \in Nat /\ delegated[d] >= sum
    BY <1>3, WeightsNatural, RevocableIs DEF GovInv
  <2>3. more \in Int /\ more <= 0 /\ delegated'[d] = delegated[d] /\ delegated[d] \in Nat
    BY <1>2, <1>3, <1>4
  <2> HIDE DEF sum, sum2, more
  <2>4. delegated'[d] >= sum2
    BY <2>1, <2>2, <2>3
  <2> QED BY <2>4 DEF sum2
<1>6. Revocable'
  BY <1>5 DEF Revocable, WeightOn, Weights, Delegators
<1>7. GovTyped'
  <2>1. credits' \in [Voters -> Nat \cup {Unset}]
    BY <1>1, <1>3, <1>4 DEF GovTyped
  <2>2. delegated' \in [Voters -> Nat]
    BY <1>2, <1>3 DEF GovTyped
  <2> QED BY <1>1, <1>2, <1>3, <2>1, <2>2, BadgesTyped
<1> QED BY <1>2, <1>6, <1>7 DEF GovInv, VotersListed

\* A voter's weight leaves the sum of one delegate and joins that of another.
LEMMA DelegationMoved ==
  ASSUME GovTyped, NEW v \in Voters, NEW new \in Voters \cup {NoOne}, new # delegate[v],
         delegate' = [delegate EXCEPT ![v] = new], badge' = badge, NEW d \in Voters
  PROVE  /\ d = new => WeightOn(d)' = WeightOn(d) + Weight(v)
         /\ d = delegate[v] => WeightOn(d)' = WeightOn(d) - Weight(v)
         /\ d \notin {new, delegate[v]} => WeightOn(d)' = WeightOn(d)
<1> DEFINE S == Delegators(d)
           f == Weights
           w == Weight(v)
           T == IF d = new THEN S \cup {v} ELSE S \ {v}
<1>1. /\ S \subseteq Voters /\ IsFiniteSet(S) /\ f \in [Voters -> Nat] /\ w \in Nat
      /\ f[v] = w /\ SumFunctionOnSet(f, S) \in Nat
  BY WeightsNatural DEF Weights, WeightOn
<1>2. Weights' = f
  BY DEF Weights, Weight
<1>3. Delegators(d)' = T
  BY DEF Delegators, GovTyped
<1>4. v \in S <=> delegate[v] = d
  BY DEF Delegators
<1>8. WeightOn(d)' = SumFunctionOnSet(f, T) /\ WeightOn(d) = SumFunctionOnSet(f, S)
  BY <1>2, <1>3 DEF WeightOn
<1> HIDE DEF S, f, w
<1>5. CASE d = new
  <2>1. v \notin S /\ \A x \in S \cup {v} : f[x] \in Int
    BY <1>1, <1>4, <1>5
  <2>2. SumFunctionOnSet(f, S \cup {v}) = f[v] + SumFunctionOnSet(f, S)
    BY <1>1, <2>1, SumAdd
  <2>3. WeightOn(d)' = WeightOn(d) + w
    BY <1>1, <1>5, <1>8, <2>2
  <2> QED BY <1>5, <2>3 DEF w
<1>6. CASE d # new /\ d = delegate[v]
  <2>1. v \in S /\ \A x \in S : f[x] \in Int
    BY <1>1, <1>4, <1>6
  <2>2. SumFunctionOnSet(f, S) = f[v] + SumFunctionOnSet(f, S \ {v})
    BY <1>1, <2>1, SumRemove
  <2>3. SumFunctionOnSet(f, S \ {v}) \in Int
    <3>1. IsFiniteSet(S \ {v})
      BY <1>1, FS_RemoveElement
    <3> QED BY <2>1, <3>1, SumInt
  <2>4. WeightOn(d)' = WeightOn(d) - w
    BY <1>1, <1>6, <1>8, <2>2, <2>3
  <2> QED BY <1>6, <2>4 DEF w
<1>7. CASE d # new /\ d # delegate[v]
  <2>1. S \ {v} = S
    BY <1>4, <1>7
  <2>2. WeightOn(d)' = WeightOn(d)
    BY <1>7, <1>8, <2>1
  <2> QED BY <1>7, <2>2
<1> QED BY <1>5, <1>6, <1>7

\* What a delegate holds follows.
LEMMA DelegationKeeps ==
  ASSUME GovInv, NEW v \in Voters, NEW new \in Voters \cup {NoOne}, new # delegate[v],
         delegate[v] # NoOne => delegated[delegate[v]] >= Weight(v),
         delegate' = [delegate EXCEPT ![v] = new],
         delegated' = [x \in Voters |->
           delegated[x] + (IF x = new THEN Weight(v) ELSE 0)
                        - (IF x = delegate[v] THEN Weight(v) ELSE 0)],
         UNCHANGED <<now, badge, credits, poll, voted, voterList, badgeMoves>>
  PROVE  GovInv'
<1>1. GovTyped /\ Weight(v) \in Nat
  BY WeightsNatural DEF GovInv
<1>0. badge' = badge
  OBVIOUS
<1>2. ASSUME NEW d \in Voters
      PROVE  delegated'[d] >= WeightOn(d)' /\ delegated'[d] \in Nat
  <2>1. /\ d = new => WeightOn(d)' = WeightOn(d) + Weight(v)
        /\ d = delegate[v] => WeightOn(d)' = WeightOn(d) - Weight(v)
        /\ d \notin {new, delegate[v]} => WeightOn(d)' = WeightOn(d)
    BY <1>0, <1>1, DelegationMoved
  <2>2. WeightOn(d) \in Nat /\ delegated[d] >= WeightOn(d) /\ delegated[d] \in Nat
    BY <1>1, WeightsNatural, RevocableIs DEF GovInv, GovTyped
  <2>3. delegated'[d] = delegated[d] + (IF d = new THEN Weight(v) ELSE 0)
                                     - (IF d = delegate[v] THEN Weight(v) ELSE 0)
    OBVIOUS
  <2>4. d = delegate[v] => d # NoOne /\ delegated[d] >= Weight(v)
    BY GovernanceAssumption
  <2>5. CASE d = new
    BY <1>1, <2>1, <2>2, <2>3, <2>5
  <2>6. CASE d = delegate[v]
    BY <1>1, <2>1, <2>2, <2>3, <2>4, <2>6
  <2>7. CASE d \notin {new, delegate[v]}
    BY <1>1, <2>1, <2>2, <2>3, <2>7
  <2> QED BY <2>5, <2>6, <2>7
<1>3. Revocable'
  BY <1>2 DEF Revocable, WeightOn, Weights, Delegators
<1>4. GovTyped'
  <2>1. delegated' \in [Voters -> Nat]
    BY <1>2
  <2> QED BY <1>1, <2>1 DEF GovTyped
<1> QED BY <1>3, <1>4 DEF GovInv, VotersListed

\* The values of two sequences in a row are those of either.
LEMMA RangeJoined ==
  ASSUME NEW S, NEW s \in Seq(S), NEW t \in Seq(S)
  PROVE  Range(s \o t) = Range(s) \cup Range(t)
<1>0. Len(s) \in Nat /\ Len(t) \in Nat /\ DOMAIN s = 1 .. Len(s) /\ DOMAIN t = 1 .. Len(t)
  OBVIOUS
<1>1. /\ DOMAIN (s \o t) = 1 .. Len(s) + Len(t)
      /\ \A i \in 1 .. Len(s) + Len(t) : (s \o t)[i] = IF i <= Len(s) THEN s[i] ELSE t[i - Len(s)]
  BY <1>0
<1>2. ASSUME NEW x \in Range(s \o t) PROVE x \in Range(s) \cup Range(t)
  <2>1. PICK i \in 1 .. Len(s) + Len(t) : (s \o t)[i] = x
    BY <1>1 DEF Range
  <2>2. CASE i <= Len(s)
    BY <1>0, <1>1, <2>1, <2>2 DEF Range
  <2>3. CASE ~(i <= Len(s))
    <3>1. i - Len(s) \in 1 .. Len(t) /\ x = t[i - Len(s)]
      BY <1>0, <1>1, <2>1, <2>3
    <3> QED BY <1>0, <3>1 DEF Range
  <2> QED BY <2>2, <2>3
<1>3. ASSUME NEW i \in 1 .. Len(s) PROVE s[i] \in Range(s \o t)
  <2>1. i \in 1 .. Len(s) + Len(t) /\ (s \o t)[i] = s[i]
    BY <1>0, <1>1
  <2> QED BY <1>1, <2>1 DEF Range
<1>4. ASSUME NEW i \in 1 .. Len(t) PROVE t[i] \in Range(s \o t)
  <2>1. Len(s) + i \in 1 .. Len(s) + Len(t) /\ (s \o t)[Len(s) + i] = t[i]
    BY <1>0, <1>1
  <2> QED BY <1>1, <2>1 DEF Range
<1> QED BY <1>0, <1>2, <1>3, <1>4 DEF Range

LEMMA CreditsNatural ==
  ASSUME GovTyped, NEW v \in Voters
  PROVE  Credits(v) \in Nat
<1>1. Weight(v) \in Nat /\ delegated[v] \in Nat
  BY WeightsNatural DEF GovTyped
<1> QED BY <1>1 DEF GovTyped, Credits

\* What is cast is added: a proposal that is over gets nothing, since it takes no votes.
LEMMA VotesKeep ==
  ASSUME GovInv, NEW v \in Voters,
         NEW allocs \in Seq([topic : Topics, for : Nat, against : Nat]), VoteOnProposals(v, allocs)
  PROVE  /\ GovInv'
         /\ \A p \in Topics : poll[p].resolved => poll'[p] = poll[p]
<1> DEFINE D       == DOMAIN allocs
           cost    == [i \in D |-> allocs[i].for * allocs[i].for + allocs[i].against * allocs[i].against]
           for     == [i \in D |-> allocs[i].for]
           against == [i \in D |-> allocs[i].against]
           total   == SumFunction(cost)
           On(p)   == {i \in D : allocs[i].topic = p}
           named   == {allocs[i].topic : i \in D}
           more(p) == SumFunctionOnSet(for, On(p))
           less(p) == SumFunctionOnSet(against, On(p))
           seen(p) == [i \in 1 .. Cardinality(On(p)) |-> v]
<1>1. /\ \A p \in named : <<p, v>> \notin voted /\ TakesVotes(p)
      /\ total <= Credits(v)
      /\ credits' = [credits EXCEPT ![v] = Credits(v) - total]
      /\ voted' = voted \cup {<<p, v>> : p \in named}
      /\ voterList' = [p \in Topics |-> voterList[p] \o seen(p)]
      /\ poll' = [p \in Topics |-> [poll[p] EXCEPT !.for = @ + more(p), !.against = @ + less(p)]]
      /\ UNCHANGED <<now, badge, delegate, delegated, badgeMoves>>
  BY DEF VoteOnProposals
<1>2. GovTyped /\ Credits(v) \in Nat
  BY CreditsNatural DEF GovInv
<1>3. /\ IsFiniteSet(D)
      /\ \A i \in D : allocs[i].topic \in Topics /\ allocs[i].for \in Nat /\ allocs[i].against \in Nat
  <2>1. D = 1 .. Len(allocs) /\ Len(allocs) \in Nat
    OBVIOUS
  <2>2. IsFiniteSet(1 .. Len(allocs))
    BY <2>1, FS_Interval
  <2>3. \A i \in D : allocs[i] \in [topic : Topics, for : Nat, against : Nat]
    <3> DEFINE Cast == [topic : Topics, for : Nat, against : Nat]
    <3>1. allocs \in Seq(Cast)
      OBVIOUS
    <3> HIDE DEF Cast
    <3>2. \A i \in 1 .. Len(allocs) : allocs[i] \in Cast
      BY <3>1
    <3> QED BY <2>1, <3>2 DEF Cast
  <2>4. IsFiniteSet(D)
    BY <2>1, <2>2
  <2> HIDE DEF D
  <2> QED BY <2>3, <2>4
<1>4. total \in Nat
  <2>1. \A i \in D : cost[i] \in Nat
    <3>1. ASSUME NEW n \in Nat, NEW m \in Nat PROVE n * n + m * m \in Nat
      <4>1. n * n \in Nat /\ m * m \in Nat
        OBVIOUS
      <4> HIDE DEF cost
      <4> QED BY <4>1
    <3> QED BY <1>3, <3>1
  <2>2. DOMAIN cost = D
    OBVIOUS
  <2> HIDE DEF cost
  <2> QED BY <1>3, <2>1, <2>2, SumNat DEF SumFunction
<1>5. ASSUME NEW p \in Topics
      PROVE  /\ IsFiniteSet(On(p)) /\ Cardinality(On(p)) \in Nat /\ more(p) \in Nat /\ less(p) \in Nat
             /\ p \notin named => On(p) = {} /\ more(p) = 0 /\ less(p) = 0
             /\ p \in named => Cardinality(On(p)) # 0
  <2>1. On(p) \subseteq D /\ IsFiniteSet(On(p)) /\ Cardinality(On(p)) \in Nat
    BY <1>3, FS_Subset, FS_CardinalityType
  <2>2. \A i \in On(p) : for[i] \in Nat /\ against[i] \in Nat
    BY <1>3
  <2>3. p \notin named => On(p) = {}
    OBVIOUS
  <2>4. p \in named => On(p) # {}
    OBVIOUS
  <2> HIDE DEF On, for, against, named
  <2>5. more(p) \in Nat /\ less(p) \in Nat
    BY <2>1, <2>2, SumNat
  <2>6. On(p) = {} => more(p) = 0 /\ less(p) = 0
    BY SumEmpty
  <2>7. On(p) # {} => Cardinality(On(p)) # 0
    BY <2>1, FS_EmptySet
  <2> QED BY <2>1, <2>3, <2>4, <2>5, <2>6, <2>7
<1>6. named \subseteq Topics
  BY <1>3
<1>7. ASSUME NEW p \in Topics
      PROVE  /\ seen(p) \in Seq(Voters)
             /\ Range(seen(p)) = IF p \in named THEN {v} ELSE {}
  <2> DEFINE n == Cardinality(On(p))
  <2>1. n \in Nat /\ (p \in named => n # 0) /\ (p \notin named => n = 0)
    <3>1. p \notin named => n = 0
      BY <1>5, FS_EmptySet
    <3> QED BY <1>5, <3>1
  <2> HIDE DEF n, named
  <2>2. [i \in 1 .. n |-> v] \in Seq(Voters)
    BY <2>1
  <2>3. CASE p \in named
    <3>1. 1 \in 1 .. n
      BY <2>1, <2>3
    <3>2. Range([i \in 1 .. n |-> v]) = {v}
      BY <3>1 DEF Range
    <3> QED BY <2>2, <2>3, <3>2 DEF n
  <2>4. CASE p \notin named
    <3>1. 1 .. n = {}
      BY <2>1, <2>4
    <3>2. Range([i \in 1 .. n |-> v]) = {}
      BY <3>1 DEF Range
    <3> QED BY <2>2, <2>4, <3>2 DEF n
  <2> QED BY <2>3, <2>4
<1> HIDE DEF D, cost, for, against, total, On, named, more, less, seen
<1>8. ASSUME NEW p \in Topics
      PROVE  /\ poll'[p] \in Poll /\ poll'[p].resolved = poll[p].resolved /\ poll'[p].at = poll[p].at
             /\ p \notin named => poll'[p] = poll[p]
  <2>1. poll[p] \in Poll /\ more(p) \in Nat /\ less(p) \in Nat
    BY <1>2, <1>5 DEF GovTyped
  <2>2. poll'[p] = [poll[p] EXCEPT !.for = @ + more(p), !.against = @ + less(p)]
    BY <1>1
  <2>3. /\ poll'[p] \in Poll /\ poll'[p].resolved = poll[p].resolved /\ poll'[p].at = poll[p].at
    <3>1. /\ poll[p].for \in Nat /\ poll[p].against \in Nat /\ poll[p].deadline \in Nat
          /\ poll[p].resolved \in BOOLEAN /\ poll[p].at \in Nat
      BY <2>1 DEF Poll
    <3>2. poll'[p] = [for |-> poll[p].for + more(p), against |-> poll[p].against + less(p),
                      deadline |-> poll[p].deadline, resolved |-> poll[p].resolved, at |-> poll[p].at]
      BY <2>1, <2>2 DEF Poll
    <3>3. poll[p].for + more(p) \in Nat /\ poll[p].against + less(p) \in Nat
      BY <2>1, <3>1
    <3> QED BY <3>1, <3>2, <3>3 DEF Poll
  <2>4. ASSUME p \notin named PROVE poll'[p] = poll[p]
    <3>1. more(p) = 0 /\ less(p) = 0
      BY <1>5, <2>4
    <3>2. poll[p].for + more(p) = poll[p].for /\ poll[p].against + less(p) = poll[p].against
      BY <2>1, <3>1 DEF Poll
    <3>3. poll'[p] = [poll[p] EXCEPT !.for = poll[p].for, !.against = poll[p].against]
      BY <2>2, <3>2
    <3> QED BY <2>1, <3>3 DEF Poll
  <2> QED BY <2>3, <2>4
<1>9. poll' \in [Topics -> Poll]
  <2>1. poll' = [p \in Topics |-> poll'[p]]
    BY <1>1
  <2>2. \A p \in Topics : poll'[p] \in Poll
    BY <1>8
  <2> QED BY <2>1, <2>2
<1>10. ASSUME NEW p \in Topics
       PROVE  /\ voterList'[p] \in Seq(Voters)
              /\ Range(voterList'[p]) = Range(voterList[p]) \cup (IF p \in named THEN {v} ELSE {})
  <2>1. voterList'[p] = voterList[p] \o seen(p) /\ voterList[p] \in Seq(Voters)
    BY <1>1, <1>2 DEF GovTyped
  <2> QED BY <1>7, <2>1, RangeJoined
<1>11. voterList' \in [Topics -> Seq(Voters)]
  <2>1. voterList' = [p \in Topics |-> voterList'[p]]
    BY <1>1
  <2>2. \A p \in Topics : voterList'[p] \in Seq(Voters)
    BY <1>10
  <2> QED BY <2>1, <2>2
<1>12. credits' \in [Voters -> Nat \cup {Unset}]
  <2>0. total <= Credits(v)
    BY <1>1
  <2>1. Credits(v) - total \in Nat
    BY <1>2, <1>4, <2>0
  <2> QED BY <1>1, <1>2, <2>1 DEF GovTyped
<1>13. voted' \subseteq Topics \X Voters
  <2>1. voted' = voted \cup {<<p, v>> : p \in named}
    BY <1>1
  <2>2. voted \subseteq Topics \X Voters
    BY <1>2 DEF GovTyped
  <2> QED BY <1>6, <2>1, <2>2
<1>14. GovTyped'
  BY <1>1, <1>2, <1>9, <1>11, <1>12, <1>13 DEF GovTyped
<1>15. VotersListed'
  <2>1. ASSUME NEW p \in Topics
        PROVE  {x \in Voters : <<p, x>> \in voted'} = Range(voterList'[p])
    <3>1. {x \in Voters : <<p, x>> \in voted} = Range(voterList[p])
      BY DEF GovInv, VotersListed
    <3>2. \A x \in Voters : <<p, x>> \in voted' <=> <<p, x>> \in voted \/ (p \in named /\ x = v)
      BY <1>1
    <3> QED BY <1>10, <3>1, <3>2
  <2> QED BY <2>1 DEF VotersListed
<1>16. Revocable'
  BY <1>1 DEF GovInv, Revocable, Weight
<1>17. ASSUME NEW p \in Topics, poll[p].resolved PROVE poll'[p] = poll[p]
  <2>1. p \notin named
    BY <1>1, <1>17 DEF TakesVotes, Open
  <2> QED BY <1>8, <2>1
<1>18. \A p \in Topics : poll'[p].resolved <=> poll'[p].at > 0
  BY <1>8 DEF GovInv
<1> QED BY <1>14, <1>15, <1>16, <1>17, <1>18 DEF GovInv

\* There is an integer root.
LEMMA RootNatural ==
  ASSUME NEW n \in Nat
  PROVE  isqrt(n) \in Nat
<1> DEFINE N == {r \in Nat : n < (r + 1) * (r + 1)}
<1>1. N \in SUBSET Nat /\ N # {}
  <2>1. n < (n + 1) * (n + 1)
    OBVIOUS
  <2> QED BY <2>1
<1>2. PICK r \in N : \A q \in N : r <= q
  <2> HIDE DEF N
  <2> QED BY <1>1, Least
<1>3. r \in Nat /\ n < (r + 1) * (r + 1)
  OBVIOUS
<1>4. r * r <= n
  <2>1. CASE r = 0
    BY <2>1
  <2>2. CASE r # 0
    <3> DEFINE q == r - 1
    <3>1. q \in Nat /\ ~(r <= q) /\ q + 1 = r
      BY <1>3, <2>2
    <3>2. ~(n < (q + 1) * (q + 1))
      BY <1>2, <3>1
    <3> HIDE DEF q
    <3>3. ~(n < r * r) /\ r * r \in Nat
      BY <1>3, <3>1, <3>2
    <3> QED BY <3>3
  <2> QED BY <2>1, <2>2
<1>5. r \in 0 .. n
  <2>1. r <= r * r
    <3>1. CASE r = 0
      BY <3>1
    <3>2. CASE r >= 1
      BY <1>3, <3>2
    <3> QED BY <1>3, <3>1, <3>2
  <2>2. r * r \in Nat
    BY <1>3
  <2> QED BY <1>3, <1>4, <2>1, <2>2
<1>6. \E x \in 0 .. n : x * x <= n /\ n < (x + 1) * (x + 1)
  BY <1>3, <1>4, <1>5
<1>7. isqrt(n) \in 0 .. n
  BY <1>6, Zenon DEF isqrt
<1> QED BY <1>7

\* The other steps of governance.
LEMMA EndKeeps ==
  ASSUME GovInv, NEW p \in Topics, Open(p), Ends(p)
  PROVE  GovInv' /\ \A q \in Topics : poll[q].resolved => poll'[q] = poll[q]
<1>1. /\ poll' = [poll EXCEPT ![p].resolved = TRUE, ![p].at = now]
      /\ UNCHANGED <<now, badge, delegate, delegated, credits, voted, voterList, badgeMoves>>
  BY DEF Ends
<1>2. GovTyped /\ poll[p] \in Poll /\ now \in Nat /\ now > 0
  BY DEF GovInv, GovTyped
<1> DEFINE r == [poll[p] EXCEPT !.resolved = TRUE, !.at = now]
<1>3. r \in Poll /\ r.resolved = TRUE /\ r.at > 0
  BY <1>2 DEF Poll
<1>4. poll' = [poll EXCEPT ![p] = r]
  BY <1>1, <1>2 DEF GovTyped
<1>5. ~poll[p].resolved
  BY DEF Open
<1> HIDE DEF r
<1>6. GovTyped'
  BY <1>1, <1>2, <1>3, <1>4 DEF GovTyped
<1>7. Revocable' /\ VotersListed'
  BY <1>1 DEF GovInv, Revocable, Weight, VotersListed
<1>8. \A q \in Topics : poll'[q].resolved <=> poll'[q].at > 0
  BY <1>2, <1>3, <1>4 DEF GovInv, GovTyped
<1>9. \A q \in Topics : poll[q].resolved => poll'[q] = poll[q]
  BY <1>2, <1>4, <1>5 DEF GovTyped
<1> QED BY <1>6, <1>7, <1>8, <1>9 DEF GovInv

LEMMA CreateKeeps ==
  ASSUME GovInv, NEW p \in Topics, CreateProposal(p)
  PROVE  GovInv' /\ \A q \in Topics : poll[q].resolved => poll'[q] = poll[q]
<1> DEFINE r == [NoPoll EXCEPT !.deadline = now + VoteWindow]
<1>1. /\ poll[p] = NoPoll /\ poll' = [poll EXCEPT ![p] = r]
      /\ UNCHANGED <<now, badge, delegate, delegated, credits, voted, voterList, badgeMoves>>
  BY DEF CreateProposal
<1>2. GovTyped
  BY DEF GovInv
<1>3. r \in Poll /\ r.resolved = FALSE /\ r.at = 0 /\ ~poll[p].resolved
  <2>1. now + VoteWindow \in Nat
    BY <1>2, GovernanceAssumption DEF GovTyped
  <2>2. NoPoll \in Poll /\ NoPoll.resolved = FALSE /\ NoPoll.at = 0
    BY DEF NoPoll, Poll
  <2>3. r \in Poll /\ r.resolved = FALSE /\ r.at = 0
    BY <2>1, <2>2 DEF Poll
  <2> QED BY <1>1, <2>2, <2>3
<1> HIDE DEF r
<1>4. GovTyped'
  BY <1>1, <1>2, <1>3 DEF GovTyped
<1>5. Revocable' /\ VotersListed'
  BY <1>1 DEF GovInv, Revocable, Weight, VotersListed
<1>6. \A q \in Topics : poll'[q].resolved <=> poll'[q].at > 0
  BY <1>1, <1>2, <1>3 DEF GovInv, GovTyped
<1>7. \A q \in Topics : poll[q].resolved => poll'[q] = poll[q]
  BY <1>1, <1>2, <1>3 DEF GovTyped
<1> QED BY <1>4, <1>5, <1>6, <1>7 DEF GovInv

LEMMA CleanupKeeps ==
  ASSUME GovInv, NEW p \in Topics, CleanupProposal(p)
  PROVE  GovInv' /\ \A q \in Topics : poll'[q] \in {poll[q], NoPoll}
<1>1. /\ poll' = [poll EXCEPT ![p] = NoPoll] /\ voted' = Forgets(p)
      /\ voterList' = [voterList EXCEPT ![p] = <<>>]
      /\ UNCHANGED <<now, badge, delegate, delegated, credits, badgeMoves>>
  BY DEF CleanupProposal
<1>2. GovTyped
  BY DEF GovInv
<1>3. NoPoll \in Poll /\ NoPoll.resolved = FALSE /\ NoPoll.at = 0
  BY DEF NoPoll, Poll
<1>4. voted' \subseteq Topics \X Voters
  BY <1>1, <1>2 DEF GovTyped, Forgets
<1>5. <<>> \in Seq(Voters) /\ Range(<<>>) = {}
  BY DEF Range
<1> HIDE DEF NoPoll
<1>6. poll' \in [Topics -> Poll] /\ voterList' \in [Topics -> Seq(Voters)]
  BY <1>1, <1>2, <1>3, <1>5 DEF GovTyped
<1>7. GovTyped'
  BY <1>1, <1>2, <1>4, <1>6 DEF GovTyped
<1>8. Revocable'
  BY <1>1 DEF GovInv, Revocable, Weight
<1>9. ASSUME NEW q \in Topics
      PROVE  {x \in Voters : <<q, x>> \in voted'} = Range(voterList'[q])
  <2>1. {x \in Voters : <<q, x>> \in voted} = Range(voterList[q])
    BY DEF GovInv, VotersListed
  <2>2. CASE q = p
    <3>1. voterList'[q] = <<>>
      BY <1>1, <1>2, <2>2 DEF GovTyped
    <3>2. \A x \in Voters : <<q, x>> \notin voted'
      BY <1>1, <2>1, <2>2 DEF Forgets
    <3> QED BY <1>5, <3>1, <3>2
  <2>3. CASE q # p
    <3>1. voterList'[q] = voterList[q]
      BY <1>1, <1>2, <2>3 DEF GovTyped
    <3>2. \A x \in Voters : <<q, x>> \in voted' <=> <<q, x>> \in voted
      BY <1>1, <2>3 DEF Forgets
    <3> QED BY <2>1, <3>1, <3>2
  <2> QED BY <2>2, <2>3
<1>10. VotersListed'
  BY <1>9 DEF VotersListed
<1>11. \A q \in Topics : poll'[q].resolved <=> poll'[q].at > 0
  BY <1>1, <1>2, <1>3 DEF GovInv, GovTyped
<1>12. \A q \in Topics : poll'[q] \in {poll[q], NoPoll}
  BY <1>1, <1>2 DEF GovTyped
<1> QED BY <1>7, <1>8, <1>10, <1>11, <1>12 DEF GovInv

\* The ledger of one part closes while this one rests.
LEMMA GovernanceRests ==
  ASSUME GovInv, now' \in Nat, now' >= now,
         UNCHANGED <<badge, delegate, delegated, credits, poll, voted, voterList, badgeMoves>>
  PROVE  GovInv'
<1>1. now' \in Nat \ {0}
  BY DEF GovInv, GovTyped
<1>2. GovTyped'
  BY <1>1 DEF GovInv, GovTyped
<1> QED BY <1>2 DEF GovInv, Revocable, Weight, VotersListed

LEMMA GovInvInit == GovInit => GovInv
<1> SUFFICES ASSUME GovInit PROVE GovInv
  OBVIOUS
<1> USE DEF GovInit
<1>1. 1 \in DOMAIN BadgeWeights
  BY GovernanceAssumption
<1>2. NoPoll \in Poll /\ ~NoPoll.resolved /\ ~(NoPoll.at > 0)
  BY DEF NoPoll, Poll
<1>3. <<>> \in Seq(Voters) /\ Range(<<>>) = {}
  BY DEF Range
<1>4. GovTyped
  BY <1>1, <1>2, <1>3, GovernanceAssumption DEF GovTyped, FirstLedger
<1>5. Revocable
  <2>1. ASSUME NEW d \in Voters PROVE delegated[d] >= WeightOn(d)
    <3>1. Delegators(d) = {}
      BY GovernanceAssumption DEF Delegators
    <3>2. WeightOn(d) = 0
      BY <3>1, SumEmpty DEF WeightOn
    <3> QED BY <3>2
  <2> QED BY <2>1, RevocableIs
<1>6. VotersListed
  BY <1>3 DEF VotersListed
<1> QED BY <1>2, <1>4, <1>5, <1>6 DEF GovInv

LEMMA AllocationsCast ==
  /\ Allocations \subseteq Seq([topic : Topics, for : Nat, against : Nat])
  /\ \A p \in Topics, n, m \in Nat :
       <<[topic |-> p, for |-> n, against |-> m]>> \in Seq([topic : Topics, for : Nat, against : Nat])
<1> DEFINE Cast   == [topic : Topics, for : Nat, against : Nat]
           Choice == {[topic |-> p, for |-> b[1], against |-> b[2]] : p \in Topics, b \in Ballots}
<1>1. Choice \subseteq Cast
  BY GovernanceAssumption
<1>2. Allocations = {<<a>> : a \in Choice} \cup {<<a, b>> : a, b \in Choice}
  BY DEF Allocations
<1>3. \A p \in Topics, n, m \in Nat : [topic |-> p, for |-> n, against |-> m] \in Cast
  OBVIOUS
<1> HIDE DEF Cast, Choice
<1>4. \A a \in Cast : <<a>> \in Seq(Cast) /\ \A b \in Cast : <<a, b>> \in Seq(Cast)
  OBVIOUS
<1>5. Allocations \subseteq Seq(Cast)
  <2>1. ASSUME NEW x \in Allocations PROVE x \in Seq(Cast)
    <3>1. CASE x \in {<<a>> : a \in Choice}
      BY <1>1, <1>4, <3>1
    <3>2. CASE x \in {<<a, b>> : a, b \in Choice}
      <4>1. PICK a \in Choice, b \in Choice : x = <<a, b>>
        BY <3>2
      <4> QED BY <1>1, <1>4, <4>1
    <3> QED BY <1>2, <2>1, <3>1, <3>2
  <2> QED BY <2>1
<1>6. \A p \in Topics, n, m \in Nat : <<[topic |-> p, for |-> n, against |-> m]>> \in Seq(Cast)
  BY <1>3, <1>4
<1> QED BY <1>5, <1>6 DEF Cast

LEMMA GovInvStep ==
  ASSUME GovInv, [GovNext]_govVars
  PROVE  GovInv' /\ \A p \in Topics : poll[p].resolved => poll'[p] \in {poll[p], NoPoll}
<1> DEFINE Keeps == \A p \in Topics : poll[p].resolved => poll'[p] \in {poll[p], NoPoll}
<1>0. now \in Nat
  BY DEF GovInv, GovTyped
<1>1. CASE UNCHANGED govVars
  BY <1>0, <1>1, GovernanceRests DEF govVars
<1>2. CASE GovernanceCloses
  BY <1>0, <1>2, GovernanceRests DEF GovernanceCloses, Closes
<1>3. ASSUME NEW v \in Voters, BadgeRises(v) PROVE GovInv' /\ Keeps
  BY <1>3, BadgeRisesKeeps DEF BadgeRises
<1>4. ASSUME NEW v \in Voters, BadgeFalls(v) PROVE GovInv' /\ Keeps
  BY <1>4, BadgeFallsKeeps DEF BadgeFalls
<1>5. ASSUME NEW v \in Voters, RevokeDelegation(v) PROVE GovInv' /\ Keeps
  <2> DEFINE e == delegate[v]
  <2>1. GovTyped /\ Weight(v) \in Nat
    BY WeightsNatural DEF GovInv
  <2>2. /\ e # NoOne /\ delegated[e] >= Weight(v) /\ delegate' = [delegate EXCEPT ![v] = NoOne]
        /\ delegated' = [delegated EXCEPT ![e] = @ - Weight(v)]
        /\ UNCHANGED <<now, badge, credits, poll, voted, voterList, badgeMoves>>
    BY <1>5 DEF RevokeDelegation
  <2>3. delegated' = [x \in Voters |-> delegated'[x]]
    BY <2>1, <2>2 DEF GovTyped
  <2>4. \A x \in Voters : delegated'[x] = delegated[x] + (IF x = NoOne THEN Weight(v) ELSE 0)
                                                     - (IF x = delegate[v] THEN Weight(v) ELSE 0)
    <3>1. ASSUME NEW x \in Voters
          PROVE  delegated'[x] = delegated[x] + (IF x = NoOne THEN Weight(v) ELSE 0)
                                              - (IF x = delegate[v] THEN Weight(v) ELSE 0)
      <4>1. x # NoOne /\ delegated[x] \in Nat
        BY <2>1, GovernanceAssumption DEF GovTyped
      <4>2. delegated'[x] = IF x = e THEN delegated[x] - Weight(v) ELSE delegated[x]
        BY <2>1, <2>2 DEF GovTyped
      <4> HIDE DEF e
      <4> QED BY <2>1, <4>1, <4>2 DEF e
    <3> QED BY <3>1
  <2>5. delegated' = [x \in Voters |->
          delegated[x] + (IF x = NoOne THEN Weight(v) ELSE 0)
                       - (IF x = delegate[v] THEN Weight(v) ELSE 0)]
    BY <2>3, <2>4
  <2>6. GovInv'
    <3>1. NoOne \in Voters \cup {NoOne} /\ NoOne # delegate[v]
      BY <2>2
    <3>2. delegate[v] # NoOne => delegated[delegate[v]] >= Weight(v)
      BY <2>2
    <3>3. delegate' = [delegate EXCEPT ![v] = NoOne]
      BY <2>2
    <3>4. UNCHANGED <<now, badge, credits, poll, voted, voterList, badgeMoves>>
      BY <2>2
    <3> HIDE DEF e
    <3> QED BY <2>5, <3>1, <3>2, <3>3, <3>4, DelegationKeeps
  <2> QED BY <2>2, <2>6
<1>6. ASSUME NEW v \in Voters, NEW d \in Voters, DelegateVote(v, d) PROVE GovInv' /\ Keeps
  <2>1. /\ d # delegate[v] /\ (delegate[v] # NoOne => delegated[delegate[v]] >= Weight(v))
        /\ delegate' = [delegate EXCEPT ![v] = d]
        /\ delegated' = [x \in Voters |->
             delegated[x] + (IF x = d THEN Weight(v) ELSE 0)
                          - (IF x = delegate[v] THEN Weight(v) ELSE 0)]
        /\ UNCHANGED <<now, badge, credits, poll, voted, voterList, badgeMoves>>
    BY <1>6 DEF DelegateVote
  <2>2. GovInv'
    BY <2>1, DelegationKeeps
  <2> QED BY <2>1, <2>2
<1>7. ASSUME NEW v \in Voters, NEW allocs \in Allocations, VoteOnProposals(v, allocs)
      PROVE  GovInv' /\ Keeps
  BY <1>7, AllocationsCast, VotesKeep
<1>8. ASSUME NEW v \in Voters, NEW p \in Topics, NEW approve \in BOOLEAN,
             VoteVerifyProject(v, p, approve)
      PROVE  GovInv' /\ Keeps
  <2>1. isqrt(Credits(v)) \in Nat
    BY CreditsNatural, RootNatural DEF GovInv
  <2> DEFINE n == IF approve THEN isqrt(Credits(v)) ELSE 0
             m == IF approve THEN 0 ELSE isqrt(Credits(v))
             one == <<[topic |-> p, for |-> n, against |-> m]>>
  <2>2. n \in Nat /\ m \in Nat
    BY <2>1
  <2>3. VoteOnProposals(v, one)
    BY <1>8 DEF VoteVerifyProject
  <2> HIDE DEF n, m
  <2>4. one \in Seq([topic : Topics, for : Nat, against : Nat])
    BY <2>2, AllocationsCast
  <2> HIDE DEF one
  <2> QED BY <2>3, <2>4, VotesKeep
<1>9. ASSUME NEW p \in Topics, ResolveProposal(p) \/ VetoProposal(p) PROVE GovInv' /\ Keeps
  BY <1>9, EndKeeps DEF ResolveProposal, VetoProposal
<1>10. ASSUME NEW p \in Topics, CreateProposal(p) PROVE GovInv' /\ Keeps
  BY <1>10, CreateKeeps
<1>11. ASSUME NEW p \in Topics, CleanupProposal(p) PROVE GovInv' /\ Keeps
  BY <1>11, CleanupKeeps
<1> QED BY <1>1, <1>2, <1>3, <1>4, <1>5, <1>6, <1>7, <1>8, <1>9, <1>10, <1>11 DEF GovNext

-------------------------------------------------------------------------------
(* Donations.                                                              *)

Record     == [donor : Accounts, giver : Accounts, project : Projects, currency : Currencies,
               amount : Nat, credit : Nat, co2 : Nat, ledger : Nat, path : Paths]
Statuses   == {"none", "pending", "approved", "rejected"}

LedgerTyped ==
  /\ now \in FirstLedger .. LastLedger /\ setUps \in 0 .. SetUps
  /\ raised \in [Projects -> Int] /\ co2Rate \in [Projects -> Rates]
  /\ stats \in [Accounts -> [total : Int, co2 : Int, badge : 0 .. Cardinality(Tiers)]]
  /\ given \in [Projects -> [Accounts -> Int]]
  /\ global \in [raised : Int, co2 : Int]
  /\ donations \in Seq(Record) /\ Len(donations) <= MaxDonations
  /\ \A i \in Made : donations[i].ledger <= now

CampaignsKept ==
  /\ campaign \in [Projects ->
       [status : {"None", "Active", "GoalReached", "Closed", "Expired"},
        goal : Goals \cup {0}, deadline : 0 .. LastLedger]]
  /\ GoalCloses

\* A donation that is not there yet has no dispute; one that is announced final stays so.
DisputesKept ==
  /\ refund \in [Indices -> [status : Statuses, effective : 0 .. LastLedger + Timelock]]
  /\ challenge \in [Indices -> {"none", "open", "approved", "rejected"}]
  /\ disputeFloor \in Thresholds \cup {0}
  /\ \A i \in Indices : refund[i].effective > 0 => refund[i].status = "pending"
  /\ \A i \in Indices \ Made : refund[i] = NoRefund /\ challenge[i] = "none"
  /\ ReversedOnce
  /\ \A i \in final : i \in Made /\ (challenge[i] = "none" => ~Challengeable(i) \/ WindowOver(i))

\* What a donor gave to a project in a currency, under the limit.
Limited(d, p, c) ==
  {i \in Made : /\ donations[i].giver = d /\ donations[i].project = p
                /\ donations[i].path = "donate" /\ donations[i].currency = c}

WindowsKept ==
  /\ window \in [Donors -> [Projects -> [Currencies -> [start : Nat, count : 0 .. RateMax]]]]
  /\ \A d \in Donors, p \in Projects, c \in Currencies :
       LET w == window[d][p][c]
       IN  /\ w.start <= now
           /\ w.count = 0 => Limited(d, p, c) = {}
           /\ Cardinality({i \in Limited(d, p, c) : donations[i].ledger >= w.start}) <= w.count
           /\ \A i \in Limited(d, p, c) : donations[i].ledger < w.start + RateWindow

\* The next run is an interval after all the intervals that are charged.
PlansKept ==
  /\ plan \in [Donors -> [state : {"none", "active", "cancelled"}, next : Nat, since : Nat, runs : Nat]]
  /\ \A d \in Donors : plan[d].state # "none" =>
       /\ plan[d].since + (plan[d].runs + 1) * Interval <= plan[d].next
       /\ plan[d].since + plan[d].runs * Interval <= now

DonInv == LedgerTyped /\ CampaignsKept /\ DisputesKept /\ WindowsKept /\ PlansKept /\ BooksAgree

LEMMA CountsMade ==
  ASSUME LedgerTyped
  PROVE  /\ Len(donations) \in Nat /\ DOMAIN donations = Made /\ Made \subseteq Indices
         /\ IsFiniteSet(Made) /\ now \in Nat /\ now >= 1
         /\ \A i \in Made : donations[i] \in Record
<1>1. Len(donations) \in Nat /\ DOMAIN donations = 1 .. Len(donations)
  BY DEF LedgerTyped
<1>2. \A i \in Made : donations[i] \in Record
  BY <1>1 DEF LedgerTyped, Made
<1>3. Len(donations) <= MaxDonations /\ MaxDonations \in Nat
  BY DonationAssumption DEF LedgerTyped
<1>4. IsFiniteSet(1 .. Len(donations))
  BY <1>1, FS_Interval
<1>5. now \in Nat /\ now >= 1
  BY DonationAssumption DEF LedgerTyped, FirstLedger
<1> QED BY <1>1, <1>2, <1>3, <1>4, <1>5 DEF Made, Indices

\* One value more.
GoesOn(f, M, g, y) == (\A i \in M : f[i] \in Int /\ g[i] = f[i]) /\ g[y] \in Int

LEMMA ValueAdded ==
  ASSUME NEW M, IsFiniteSet(M), NEW y, y \notin M, NEW f, NEW g, GoesOn(f, M, g, y)
  PROVE  \A S \in SUBSET M :
           /\ SumFunctionOnSet(f, S) \in Int
           /\ SumFunctionOnSet(g, S) = SumFunctionOnSet(f, S)
           /\ SumFunctionOnSet(g, S \cup {y}) = SumFunctionOnSet(f, S) + g[y]
<1> SUFFICES ASSUME NEW S \in SUBSET M
             PROVE  /\ SumFunctionOnSet(f, S) \in Int
                    /\ SumFunctionOnSet(g, S) = SumFunctionOnSet(f, S)
                    /\ SumFunctionOnSet(g, S \cup {y}) = SumFunctionOnSet(f, S) + g[y]
  OBVIOUS
<1>2. IsFiniteSet(S) /\ y \notin S
  BY FS_Subset
<1>3. \A i \in S \cup {y} : g[i] \in Int
  BY DEF GoesOn
<1>4. \A i \in S : f[i] \in Int /\ g[i] = f[i]
  BY DEF GoesOn
<1>5. SumFunctionOnSet(f, S) \in Int
  BY <1>2, <1>4, SumInt
<1>6. SumFunctionOnSet(g, S) = SumFunctionOnSet(f, S)
  BY <1>2, <1>4, SumAgree
<1>7. SumFunctionOnSet(g, S \cup {y}) = g[y] + SumFunctionOnSet(g, S)
  BY <1>2, <1>3, SumAdd
<1>8. SumFunctionOnSet(g, S \cup {y}) = SumFunctionOnSet(f, S) + g[y]
  BY <1>5, <1>6, <1>7 DEF GoesOn
<1> QED BY <1>5, <1>6, <1>8

\* One value changes.
LEMMA ValueMoved ==
  ASSUME NEW S, IsFiniteSet(S), NEW f, NEW g, NEW i,
         \A j \in S : f[j] \in Int /\ g[j] \in Int,
         \A j \in S \ {i} : g[j] = f[j]
  PROVE  /\ SumFunctionOnSet(f, S) \in Int
         /\ i \in S => SumFunctionOnSet(g, S) = SumFunctionOnSet(f, S) - f[i] + g[i]
         /\ i \notin S => SumFunctionOnSet(g, S) = SumFunctionOnSet(f, S)
<1>1. SumFunctionOnSet(f, S) \in Int
  BY SumInt
<1>2. i \in S => SumFunctionOnSet(g, S) = SumFunctionOnSet(f, S) - f[i] + g[i]
  <2> SUFFICES ASSUME i \in S PROVE SumFunctionOnSet(g, S) = SumFunctionOnSet(f, S) - f[i] + g[i]
    OBVIOUS
  <2>1. \A j \in S \ {i} : f[j] = g[j]
    OBVIOUS
  <2> QED BY <2>1, SumChange
<1>3. i \notin S => SumFunctionOnSet(g, S) = SumFunctionOnSet(f, S)
  <2> SUFFICES ASSUME i \notin S PROVE SumFunctionOnSet(g, S) = SumFunctionOnSet(f, S)
    OBVIOUS
  <2>1. \A j \in S : g[j] = f[j]
    OBVIOUS
  <2> QED BY <2>1, SumAgree
<1> QED BY <1>1, <1>2, <1>3

LEMMA ValuesInt ==
  ASSUME LedgerTyped
  PROVE  /\ \A i \in Made : Value[i] \in Int /\ Saved[i] \in Int
         /\ \A i \in Made : Value[i] = donations[i].credit - (IF Reversed(i) THEN donations[i].amount ELSE 0)
         /\ \A i \in Made : Saved[i] = IF Reversed(i) THEN 0 ELSE donations[i].co2
         /\ \A S \in SUBSET Made : IsFiniteSet(S) /\ Worth(S) \in Int /\ Co2Of(S) \in Int
<1>1. \A i \in Made : Value[i] = donations[i].credit - (IF Reversed(i) THEN donations[i].amount ELSE 0)
  BY DEF Value
<1>2. \A i \in Made : Saved[i] = IF Reversed(i) THEN 0 ELSE donations[i].co2
  BY DEF Saved
<1>3. \A i \in Made : donations[i].credit \in Nat /\ donations[i].amount \in Nat /\ donations[i].co2 \in Nat
  BY CountsMade DEF Record
<1>4. \A i \in Made : Value[i] \in Int /\ Saved[i] \in Int
  BY <1>1, <1>2, <1>3
<1>5. ASSUME NEW S \in SUBSET Made
      PROVE  IsFiniteSet(S) /\ Worth(S) \in Int /\ Co2Of(S) \in Int
  <2>1. IsFiniteSet(S)
    BY CountsMade, FS_Subset
  <2>2. \A i \in S : Value[i] \in Int /\ Saved[i] \in Int
    BY <1>4
  <2> QED BY <2>1, <2>2, SumInt DEF Worth, Co2Of
<1> QED BY <1>1, <1>2, <1>4, <1>5

\* The books rest, with the donations and what is reversed of them.
LEMMA BooksRest ==
  ASSUME DonInv, donations' = donations, \A i \in Made : Reversed(i)' <=> Reversed(i),
         raised' = raised, global' = global,
         \A x \in Accounts : stats'[x].total = stats[x].total /\ stats'[x].co2 = stats[x].co2
  PROVE  BooksAgree'
<1>1. Made' = Made
  BY DEF Made
<1>2. Value' = Value /\ Saved' = Saved
  BY <1>1 DEF Value, Saved
<1>3. \A S : Worth(S)' = Worth(S) /\ Co2Of(S)' = Co2Of(S)
  BY <1>2 DEF Worth, Co2Of
<1>4. \A p : DonatedTo(p)' = DonatedTo(p)
  BY <1>1 DEF DonatedTo
<1>5. \A x : RecordedFor(x)' = RecordedFor(x)
  BY <1>1 DEF RecordedFor
<1>6. BooksAgree
  BY DEF DonInv
<1> DEFINE bp(p) == Worth(DonatedTo(p))
           bx(x) == Worth(RecordedFor(x))
           cx(x) == Co2Of(RecordedFor(x))
<1>7. global' = [raised |-> Worth(Made)', co2 |-> Co2Of(Made)']
  BY <1>1, <1>2, <1>6 DEF BooksAgree, Worth, Co2Of
<1>8. \A p \in Projects : raised'[p] = bp(p)'
  BY <1>2, <1>4, <1>6 DEF BooksAgree, Worth
<1>9. \A x \in Accounts \ {Pool} : stats'[x].total = bx(x)' /\ stats'[x].co2 = cx(x)'
  BY <1>2, <1>5, <1>6 DEF BooksAgree, Worth, Co2Of
<1> QED BY <1>7, <1>8, <1>9 DEF BooksAgree

-------------------------------------------------------------------------------
(* A donation is made.                                                     *)

\* The record that is added.
Added(who, d, p, c, amount, credit, path) ==
  [donor |-> who, giver |-> d, project |-> p, currency |-> c, amount |-> amount,
   credit |-> credit, co2 |-> Grams(p, credit), ledger |-> now, path |-> path]

LEMMA RecordAdded ==
  ASSUME LedgerTyped, NEW who \in Accounts, NEW d \in Accounts, NEW p \in Projects,
         NEW c \in Currencies, NEW amount \in Nat, NEW credit \in Nat, NEW path \in Paths,
         Records(who, d, p, c, amount, credit, path)
  PROVE  /\ Grams(p, credit) \in Nat /\ Added(who, d, p, c, amount, credit, path) \in Record
         /\ donations' \in Seq(Record) /\ Len(donations') <= MaxDonations
         /\ Len(donations) \in Nat /\ Made = 1 .. Len(donations)
         /\ Made' = Made \cup {Len(donations) + 1} /\ Len(donations) + 1 \notin Made
         /\ Len(donations) + 1 \in Indices
         /\ \A i \in Made : donations'[i] = donations[i]
         /\ donations'[Len(donations) + 1] = Added(who, d, p, c, amount, credit, path)
<1> DEFINE n == Len(donations)
           r == Added(who, d, p, c, amount, credit, path)
<1>1. Grams(p, credit) \in Nat
  <2>1. co2Rate[p] \in Nat
    BY DonationAssumption DEF LedgerTyped
  <2> QED BY <2>1, ProductNatural DEF Grams
<1>2. r \in Record
  BY <1>1, CountsMade DEF Added, Record
<1>3. donations' = Append(donations, r) /\ n < MaxDonations
  BY DEF Records, Added
<1> HIDE DEF r
<1>4. donations \in Seq(Record) /\ n \in Nat /\ MaxDonations \in Nat
  BY DonationAssumption DEF LedgerTyped
<1>5. /\ donations' \in Seq(Record) /\ Len(donations') = n + 1
      /\ \A i \in 1 .. n : donations'[i] = donations[i]
      /\ donations'[n + 1] = r
  BY <1>2, <1>3, <1>4
<1> HIDE DEF n
<1>6. 1 .. n + 1 = (1 .. n) \cup {n + 1} /\ n + 1 \notin 1 .. n /\ n + 1 \in 1 .. MaxDonations
  BY <1>3, <1>4
<1>7. n + 1 <= MaxDonations
  BY <1>3, <1>4
<1>8. Made = 1 .. n /\ Made' = 1 .. n + 1
  BY <1>5 DEF Made, n
<1> QED BY <1>1, <1>2, <1>4, <1>5, <1>6, <1>7, <1>8 DEF n, r, Indices

\* The books of a donation: each total that the record belongs to gets its credit.
LEMMA AppendsBooks ==
  ASSUME DonInv, NEW who \in Accounts, NEW d \in Accounts, NEW p \in Projects,
         NEW c \in Currencies, NEW amount \in Nat, NEW credit \in Nat, NEW path \in Paths,
         Records(who, d, p, c, amount, credit, path),
         UNCHANGED <<refund, challenge>>,
         raised' = [raised EXCEPT ![p] = @ + credit],
         AddsGlobal(credit, Grams(p, credit)),
         \A x \in Accounts \ {Pool} :
            /\ x = who => /\ stats'[x].total = stats[x].total + credit
                          /\ stats'[x].co2 = stats[x].co2 + Grams(p, credit)
            /\ x # who => stats'[x].total = stats[x].total /\ stats'[x].co2 = stats[x].co2
  PROVE  BooksAgree'
<1> DEFINE n    == Len(donations)
           r    == Added(who, d, p, c, amount, credit, path)
           gram == Grams(p, credit)
<1>1. LedgerTyped /\ DisputesKept /\ BooksAgree
  BY DEF DonInv
<1>2. /\ gram \in Nat /\ n \in Nat /\ Made = 1 .. n /\ Made' = Made \cup {n + 1} /\ n + 1 \notin Made
      /\ n + 1 \in Indices /\ \A i \in Made : donations'[i] = donations[i]
      /\ donations'[n + 1] = r
  BY <1>1, RecordAdded
<1>3. r.donor = who /\ r.project = p /\ r.credit = credit /\ r.co2 = gram
  BY DEF Added
<1>4. \A i : Reversed(i)' <=> Reversed(i)
  BY DEF Reversed, RefundApproved, ChallengeReversed
<1>5. ~Reversed(n + 1)
  BY <1>1, <1>2 DEF DisputesKept, NoRefund, Reversed, RefundApproved, ChallengeReversed
<1> DEFINE f == Value  g == Value'  h == Saved  k == Saved'
<1>6. \A i \in 1 .. n : f[i] \in Int /\ h[i] \in Int
  BY <1>1, <1>2, ValuesInt
<1>7. \A i \in 1 .. n : g[i] = f[i] /\ k[i] = h[i]
  BY <1>2, <1>4 DEF Value, Saved
<1>8. g[n + 1] = credit /\ k[n + 1] = gram
  <2>1. g[n + 1] = r.credit - (IF Reversed(n + 1) THEN r.amount ELSE 0)
    BY <1>2, <1>4 DEF Value
  <2>2. k[n + 1] = IF Reversed(n + 1) THEN 0 ELSE r.co2
    BY <1>2, <1>4 DEF Saved
  <2> HIDE DEF r, g, k
  <2> QED BY <1>2, <1>3, <1>5, <2>1, <2>2
<1> DEFINE y == n + 1
<1>16. IsFiniteSet(Made) /\ y \notin Made
  BY <1>1, <1>2, CountsMade
<1> HIDE DEF y
<1>17. g[y] = credit /\ k[y] = gram /\ gram \in Int /\ credit \in Int
  BY <1>2, <1>8 DEF y
<1>18. \A T \in SUBSET Made :
         /\ SumFunctionOnSet(f, T) \in Int
         /\ SumFunctionOnSet(g, T) = SumFunctionOnSet(f, T)
         /\ SumFunctionOnSet(g, T \cup {y}) = SumFunctionOnSet(f, T) + g[y]
  <2>1. \A i \in Made : f[i] \in Int /\ g[i] = f[i]
    BY <1>2, <1>6, <1>7
  <2> HIDE DEF f, g, h, k, gram, n, r
  <2>2. GoesOn(f, Made, g, y)
    BY <1>17, <2>1 DEF GoesOn
  <2> QED BY <1>16, <2>2, ValueAdded
<1>19. \A T \in SUBSET Made :
         /\ SumFunctionOnSet(h, T) \in Int
         /\ SumFunctionOnSet(k, T) = SumFunctionOnSet(h, T)
         /\ SumFunctionOnSet(k, T \cup {y}) = SumFunctionOnSet(h, T) + k[y]
  <2>1. \A i \in Made : h[i] \in Int /\ k[i] = h[i]
    BY <1>2, <1>6, <1>7
  <2> HIDE DEF f, g, h, k, gram, n, r
  <2>2. GoesOn(h, Made, k, y)
    BY <1>17, <2>1 DEF GoesOn
  <2> QED BY <1>16, <2>2, ValueAdded
<1>9. ASSUME NEW S \in SUBSET Made
      PROVE  /\ SumFunctionOnSet(f, S) \in Int /\ SumFunctionOnSet(h, S) \in Int
             /\ SumFunctionOnSet(g, S) = SumFunctionOnSet(f, S)
             /\ SumFunctionOnSet(k, S) = SumFunctionOnSet(h, S)
             /\ SumFunctionOnSet(g, S \cup {n + 1}) = SumFunctionOnSet(f, S) + credit
             /\ SumFunctionOnSet(k, S \cup {n + 1}) = SumFunctionOnSet(h, S) + gram
  <2> HIDE DEF f, g, h, k, gram, n, r
  <2> QED BY <1>17, <1>18, <1>19 DEF y
<1>10. \A q \in Projects : /\ DonatedTo(q) \in SUBSET Made
                           /\ q = p => DonatedTo(q)' = DonatedTo(q) \cup {n + 1}
                           /\ q # p => DonatedTo(q)' = DonatedTo(q)
  BY <1>2, <1>3 DEF DonatedTo
<1>11. \A x \in Accounts : /\ RecordedFor(x) \in SUBSET Made
                           /\ x = who => RecordedFor(x)' = RecordedFor(x) \cup {n + 1}
                           /\ x # who => RecordedFor(x)' = RecordedFor(x)
  BY <1>2, <1>3 DEF RecordedFor
<1>12. /\ global = [raised |-> Worth(Made), co2 |-> Co2Of(Made)]
       /\ \A q \in Projects : raised[q] = Worth(DonatedTo(q))
       /\ \A x \in Accounts \ {Pool} :
            stats[x].total = Worth(RecordedFor(x)) /\ stats[x].co2 = Co2Of(RecordedFor(x))
  BY <1>1 DEF BooksAgree
<1>13. global' = [raised |-> SumFunctionOnSet(g, Made'), co2 |-> SumFunctionOnSet(k, Made')]
  <2>1. global' = [raised |-> global.raised + credit, co2 |-> global.co2 + gram]
    BY <1>12 DEF AddsGlobal
  <2>2. /\ SumFunctionOnSet(g, Made') = SumFunctionOnSet(f, Made) + credit
        /\ SumFunctionOnSet(k, Made') = SumFunctionOnSet(h, Made) + gram
    BY <1>2, <1>9
  <2> QED BY <1>12, <2>1, <2>2 DEF Worth, Co2Of
<1>14. ASSUME NEW q \in Projects PROVE raised'[q] = SumFunctionOnSet(g, DonatedTo(q)')
  <2>1. raised[q] = SumFunctionOnSet(f, DonatedTo(q)) /\ DonatedTo(q) \in SUBSET Made
    BY <1>10, <1>12 DEF Worth
  <2>2. raised \in [Projects -> Int]
    BY <1>1 DEF LedgerTyped
  <2> HIDE DEF f, g, h, k, n
  <2>3. CASE q = p
    BY <1>9, <1>10, <2>1, <2>2, <2>3
  <2>4. CASE q # p
    BY <1>9, <1>10, <2>1, <2>2, <2>4
  <2> QED BY <2>3, <2>4
<1>15. ASSUME NEW x \in Accounts \ {Pool}
       PROVE  /\ stats'[x].total = SumFunctionOnSet(g, RecordedFor(x)')
              /\ stats'[x].co2 = SumFunctionOnSet(k, RecordedFor(x)')
  <2>1. /\ stats[x].total = SumFunctionOnSet(f, RecordedFor(x))
        /\ stats[x].co2 = SumFunctionOnSet(h, RecordedFor(x)) /\ RecordedFor(x) \in SUBSET Made
    BY <1>11, <1>12 DEF Worth, Co2Of
  <2> HIDE DEF f, g, h, k, n
  <2>2. CASE x = who
    BY <1>9, <1>11, <2>1, <2>2
  <2>3. CASE x # who
    BY <1>9, <1>11, <2>1, <2>3
  <2> QED BY <2>2, <2>3
<1> QED BY <1>13, <1>14, <1>15 DEF BooksAgree, Worth, Co2Of

\* A donation is reversed, for the first time: it takes its raw amount and its grams along.
LEMMA ReversesBooks ==
  ASSUME DonInv, NEW i \in Made, ~Reversed(i), Reverses(i), donations' = donations,
         \A j \in Made : Reversed(j)' <=> (Reversed(j) \/ j = i)
  PROVE  BooksAgree'
<1> DEFINE r == donations[i]
           f == Value  g == Value'  h == Saved  k == Saved'
<1>1. LedgerTyped /\ BooksAgree /\ r \in Record
  BY CountsMade DEF DonInv
<1>2. Made' = Made
  BY DEF Made
<1>3. \A j \in Made : f[j] \in Int /\ h[j] \in Int
  BY <1>1, ValuesInt
<1>4. \A j \in Made : j # i => g[j] = f[j] /\ k[j] = h[j]
  BY <1>2 DEF Value, Saved
<1>5. g[i] = f[i] - r.amount /\ k[i] = 0 /\ h[i] = r.co2 /\ r.amount \in Nat /\ r.co2 \in Nat
  <2>1. r.amount \in Nat /\ r.co2 \in Nat /\ r.credit \in Nat
    BY <1>1 DEF Record
  <2>2. g[i] = r.credit - r.amount /\ k[i] = 0
    BY <1>2 DEF Value, Saved
  <2>3. f[i] = r.credit /\ h[i] = r.co2
    <3>1. f[i] = r.credit - 0 /\ h[i] = r.co2
      BY DEF Value, Saved
    <3> QED BY <2>1, <3>1
  <2> QED BY <2>1, <2>2, <2>3
<1>6. ASSUME NEW S \in SUBSET Made
      PROVE  /\ SumFunctionOnSet(f, S) \in Int /\ SumFunctionOnSet(h, S) \in Int
             /\ i \in S => /\ SumFunctionOnSet(g, S) = SumFunctionOnSet(f, S) - r.amount
                           /\ SumFunctionOnSet(k, S) = SumFunctionOnSet(h, S) - r.co2
             /\ i \notin S => /\ SumFunctionOnSet(g, S) = SumFunctionOnSet(f, S)
                              /\ SumFunctionOnSet(k, S) = SumFunctionOnSet(h, S)
  <2>0. IsFiniteSet(S)
    BY <1>1, ValuesInt
  <2> HIDE DEF f, g, h, k, r
  <2>1. \A j \in S : f[j] \in Int /\ g[j] \in Int
    BY <1>3, <1>4, <1>5
  <2>2. \A j \in S \ {i} : g[j] = f[j]
    BY <1>4
  <2>3. \A j \in S : h[j] \in Int /\ k[j] \in Int
    BY <1>3, <1>4, <1>5
  <2>4. \A j \in S \ {i} : k[j] = h[j]
    BY <1>4
  <2>5. /\ SumFunctionOnSet(f, S) \in Int
        /\ i \in S => SumFunctionOnSet(g, S) = SumFunctionOnSet(f, S) - f[i] + g[i]
        /\ i \notin S => SumFunctionOnSet(g, S) = SumFunctionOnSet(f, S)
    BY <2>0, <2>1, <2>2, ValueMoved
  <2>6. /\ SumFunctionOnSet(h, S) \in Int
        /\ i \in S => SumFunctionOnSet(k, S) = SumFunctionOnSet(h, S) - h[i] + k[i]
        /\ i \notin S => SumFunctionOnSet(k, S) = SumFunctionOnSet(h, S)
    BY <2>0, <2>3, <2>4, ValueMoved
  <2>7. f[i] \in Int
    BY <1>3
  <2> QED BY <1>5, <2>5, <2>6, <2>7
<1>7. /\ raised' = [raised EXCEPT ![r.project] = @ - r.amount]
      /\ global' = [raised |-> global.raised - r.amount, co2 |-> global.co2 - r.co2]
      /\ stats' = [stats EXCEPT ![r.donor].total = @ - r.amount, ![r.donor].co2 = @ - r.co2]
  BY DEF Reverses
<1>8. raised \in [Projects -> Int] /\ r.project \in Projects /\ r.donor \in Accounts
      /\ stats \in [Accounts -> [total : Int, co2 : Int, badge : 0 .. Cardinality(Tiers)]]
  BY <1>1 DEF LedgerTyped, Record
<1>9. \A q : DonatedTo(q)' = DonatedTo(q) /\ DonatedTo(q) \in SUBSET Made /\ (i \in DonatedTo(q) <=> q = r.project)
  BY <1>2 DEF DonatedTo
<1>10. \A x : RecordedFor(x)' = RecordedFor(x) /\ RecordedFor(x) \in SUBSET Made
                /\ (i \in RecordedFor(x) <=> x = r.donor)
  BY <1>2 DEF RecordedFor
<1>11. /\ global = [raised |-> Worth(Made), co2 |-> Co2Of(Made)]
       /\ \A q \in Projects : raised[q] = Worth(DonatedTo(q))
       /\ \A x \in Accounts \ {Pool} :
            stats[x].total = Worth(RecordedFor(x)) /\ stats[x].co2 = Co2Of(RecordedFor(x))
  BY <1>1 DEF BooksAgree
<1>12. global' = [raised |-> SumFunctionOnSet(g, Made'), co2 |-> SumFunctionOnSet(k, Made')]
  <2>1. /\ SumFunctionOnSet(g, Made) = SumFunctionOnSet(f, Made) - r.amount
        /\ SumFunctionOnSet(k, Made) = SumFunctionOnSet(h, Made) - r.co2
    BY <1>6
  <2> QED BY <1>2, <1>7, <1>11, <2>1 DEF Worth, Co2Of
<1>13. ASSUME NEW q \in Projects PROVE raised'[q] = SumFunctionOnSet(g, DonatedTo(q)')
  <2>1. raised[q] = SumFunctionOnSet(f, DonatedTo(q))
    BY <1>11 DEF Worth
  <2> HIDE DEF f, g, h, k, r
  <2>2. CASE q = r.project
    BY <1>6, <1>7, <1>8, <1>9, <2>1, <2>2
  <2>3. CASE q # r.project
    BY <1>6, <1>7, <1>8, <1>9, <2>1, <2>3
  <2> QED BY <2>2, <2>3
<1>14. ASSUME NEW x \in Accounts \ {Pool}
       PROVE  /\ stats'[x].total = SumFunctionOnSet(g, RecordedFor(x)')
              /\ stats'[x].co2 = SumFunctionOnSet(k, RecordedFor(x)')
  <2>1. /\ stats[x].total = SumFunctionOnSet(f, RecordedFor(x))
        /\ stats[x].co2 = SumFunctionOnSet(h, RecordedFor(x))
    BY <1>11 DEF Worth, Co2Of
  <2> HIDE DEF f, g, h, k, r
  <2>2. /\ x = r.donor => stats'[x].total = stats[x].total - r.amount /\ stats'[x].co2 = stats[x].co2 - r.co2
        /\ x # r.donor => stats'[x] = stats[x]
    BY <1>7, <1>8
  <2>3. CASE x = r.donor
    BY <1>6, <1>10, <2>1, <2>2, <2>3
  <2>4. CASE x # r.donor
    BY <1>6, <1>10, <2>1, <2>2, <2>4
  <2> QED BY <2>3, <2>4
<1> QED BY <1>12, <1>13, <1>14 DEF BooksAgree, Worth, Co2Of

\* What a record needs, to be counted under a limit.
LEMMA LimitedGrows ==
  ASSUME LedgerTyped, NEW who \in Accounts, NEW d \in Accounts, NEW p \in Projects,
         NEW c \in Currencies, NEW amount \in Nat, NEW credit \in Nat, NEW path \in Paths,
         Records(who, d, p, c, amount, credit, path),
         NEW e \in Donors, NEW q \in Projects, NEW b \in Currencies
  PROVE  /\ Limited(e, q, b) \in SUBSET Made
         /\ (path = "donate" /\ e = d /\ q = p /\ b = c)
              => Limited(e, q, b)' = Limited(e, q, b) \cup {Len(donations) + 1}
         /\ ~(path = "donate" /\ e = d /\ q = p /\ b = c)
              => Limited(e, q, b)' = Limited(e, q, b)
<1> DEFINE r == Added(who, d, p, c, amount, credit, path)
           n == Len(donations)
<1>1. /\ Made' = Made \cup {n + 1} /\ n + 1 \notin Made /\ donations'[n + 1] = r
      /\ \A i \in Made : donations'[i] = donations[i]
  <2>1. Made' = Made \cup {n + 1} /\ n + 1 \notin Made
    BY RecordAdded, SMTT(30)
  <2>2. donations'[n + 1] = r /\ \A i \in Made : donations'[i] = donations[i]
    BY RecordAdded, SMTT(30)
  <2> QED BY <2>1, <2>2
<1>2. r.giver = d /\ r.project = p /\ r.path = path /\ r.currency = c
  BY DEF Added
<1> HIDE DEF r, n
<1> DEFINE CountsIn(x) == x.giver = e /\ x.project = q /\ x.path = "donate" /\ x.currency = b
<1>3. Limited(e, q, b) = {i \in Made : CountsIn(donations[i])}
  BY DEF Limited
<1>4. Limited(e, q, b)' = {i \in Made' : CountsIn(donations'[i])}
  BY DEF Limited
<1>5. CountsIn(r) <=> path = "donate" /\ e = d /\ q = p /\ b = c
  BY <1>2
<1> HIDE DEF CountsIn
<1>6. CountsIn(r) => Limited(e, q, b)' = Limited(e, q, b) \cup {n + 1}
  BY <1>1, <1>3, <1>4
<1>7. ~CountsIn(r) => Limited(e, q, b)' = Limited(e, q, b)
  BY <1>1, <1>3, <1>4
<1> QED BY <1>3, <1>5, <1>6, <1>7 DEF n

\* What donors may give stays, when nothing is given under a limit.
LEMMA WindowsRest ==
  ASSUME WindowsKept, LedgerTyped, window' = window, now' \in Nat, now' >= now,
         \A e \in Donors, q \in Projects, b \in Currencies : Limited(e, q, b)' = Limited(e, q, b),
         \A i \in Made : donations'[i] = donations[i]
  PROVE  WindowsKept'
<1>0. now \in Nat
  BY CountsMade
<1>1. ASSUME NEW e \in Donors, NEW q \in Projects, NEW b \in Currencies
      PROVE  LET w == window'[e][q][b]
             IN  /\ w.start <= now'
                 /\ w.count = 0 => Limited(e, q, b)' = {}
                 /\ Cardinality({i \in Limited(e, q, b)' : donations'[i].ledger >= w.start}) <= w.count
                 /\ \A i \in Limited(e, q, b)' : donations'[i].ledger < w.start + RateWindow
  <2> DEFINE w == window[e][q][b]
             L == Limited(e, q, b)
  <2>1. /\ w.start <= now /\ (w.count = 0 => L = {})
        /\ Cardinality({i \in L : donations[i].ledger >= w.start}) <= w.count
        /\ \A i \in L : donations[i].ledger < w.start + RateWindow
    BY DEF WindowsKept
  <2>2. w.start \in Nat
    BY DEF WindowsKept
  <2>3. window'[e][q][b] = w /\ Limited(e, q, b)' = L
    OBVIOUS
  <2>4. L \in SUBSET Made
    BY DEF Limited
  <2> HIDE DEF w, L
  <2>5. w.start <= now'
    BY <1>0, <2>1, <2>2
  <2>6. \A i \in L : donations'[i] = donations[i]
    BY <2>4
  <2>7. {i \in L : donations'[i].ledger >= w.start} = {i \in L : donations[i].ledger >= w.start}
    BY <2>6
  <2>8. \A i \in L : donations'[i].ledger < w.start + RateWindow
    BY <2>1, <2>6
  <2> QED BY <2>1, <2>3, <2>5, <2>7, <2>8
<1> QED BY <1>1 DEF WindowsKept

\* The clock and the plans.
LEMMA PlansRest ==
  ASSUME PlansKept, LedgerTyped, plan' = plan, now' \in Nat, now' >= now
  PROVE  PlansKept'
<1>1. ASSUME NEW d \in Donors, plan[d].state # "none"
      PROVE  plan[d].since + plan[d].runs * Interval <= now'
  <2> DEFINE x == plan[d].runs * Interval
  <2>1. plan[d].since + x <= now
    BY <1>1 DEF PlansKept
  <2>2. plan[d].since \in Nat /\ plan[d].runs \in Nat /\ now \in Nat
    BY CountsMade DEF PlansKept
  <2>3. x \in Nat
    BY <2>2, ProductNatural, DonationAssumption
  <2> HIDE DEF x
  <2>4. plan[d].since + x <= now'
    BY <2>1, <2>2, <2>3
  <2> QED BY <2>4 DEF x
<1> QED BY <1>1 DEF PlansKept

LEMMA DisputesRest ==
  ASSUME DisputesKept, UNCHANGED disputes, now' \in Nat, now' >= now, now \in Nat,
         Made \subseteq Made', Made' \subseteq Indices,
         \A i \in Made : donations'[i] = donations[i] /\ donations[i].ledger \in Nat
  PROVE  DisputesKept'
<1>1. UNCHANGED <<refund, challenge, disputeFloor, final>>
  BY DEF disputes
<1>2. ReversedOnce'
  <2>1. ASSUME NEW i \in Made' PROVE ~(RefundApproved(i)' /\ ChallengeReversed(i)')
    <3>1. CASE i \in Made
      BY <1>1, <3>1 DEF DisputesKept, ReversedOnce, RefundApproved, ChallengeReversed
    <3>2. CASE i \notin Made
      <4>1. refund[i] = NoRefund
        BY <3>2 DEF DisputesKept
      <4> QED BY <1>1, <4>1 DEF NoRefund, RefundApproved
    <3> QED BY <3>1, <3>2
  <2> QED BY <2>1 DEF ReversedOnce
<1>3. ASSUME NEW i \in final
      PROVE  i \in Made' /\ (challenge'[i] = "none" => ~Challengeable(i)' \/ WindowOver(i)')
  <2>1. i \in Made /\ (challenge[i] = "none" => ~Challengeable(i) \/ WindowOver(i))
    BY <1>3 DEF DisputesKept
  <2>2. donations'[i] = donations[i] /\ donations[i].ledger \in Nat
    BY <2>1
  <2>3. Challengeable(i)' <=> Challengeable(i)
    BY <1>1, <2>2 DEF Challengeable
  <2>4. WindowOver(i) => WindowOver(i)'
    BY <2>2, DonationAssumption DEF WindowOver
  <2> QED BY <1>1, <2>1, <2>3, <2>4
<1>4. \A i \in Indices \ Made' : refund'[i] = NoRefund /\ challenge'[i] = "none"
  BY <1>1 DEF DisputesKept
<1>5. \A i \in final' :
        i \in Made' /\ (challenge'[i] = "none" => ~Challengeable(i)' \/ WindowOver(i)')
  BY <1>1, <1>3
<1> QED BY <1>1, <1>2, <1>4, <1>5 DEF DisputesKept

\* What any donation does, if campaigns, windows and plans are seen to.
LEMMA DonationKeeps ==
  ASSUME DonInv, NEW who \in Accounts, NEW d \in Accounts, NEW p \in Projects,
         NEW c \in Currencies, NEW amount \in Nat, NEW credit \in Nat, NEW path \in Paths,
         Records(who, d, p, c, amount, credit, path),
         UNCHANGED <<now, co2Rate, disputes>>, setUps' = setUps,
         raised' = [raised EXCEPT ![p] = @ + credit],
         AddsGlobal(credit, Grams(p, credit)),
         stats' \in [Accounts -> [total : Int, co2 : Int, badge : 0 .. Cardinality(Tiers)]],
         given' \in [Projects -> [Accounts -> Int]],
         \A x \in Accounts \ {Pool} :
            /\ x = who => /\ stats'[x].total = stats[x].total + credit
                          /\ stats'[x].co2 = stats[x].co2 + Grams(p, credit)
            /\ x # who => stats'[x].total = stats[x].total /\ stats'[x].co2 = stats[x].co2,
         CampaignsKept', WindowsKept', PlansKept'
  PROVE  DonInv'
<1>1. LedgerTyped /\ DisputesKept
  BY DEF DonInv
<1>2. UNCHANGED <<refund, challenge>>
  BY DEF disputes
<1>3. BooksAgree'
  BY <1>2, AppendsBooks
<1> DEFINE n == Len(donations)
           r == Added(who, d, p, c, amount, credit, path)
<1>4. /\ Grams(p, credit) \in Nat /\ r \in Record
      /\ donations' \in Seq(Record) /\ Len(donations') <= MaxDonations
      /\ Made' = Made \cup {n + 1} /\ n + 1 \in Indices
      /\ \A i \in Made : donations'[i] = donations[i]
      /\ donations'[n + 1] = r
  BY <1>1, RecordAdded
<1>5. now \in Nat /\ Made \subseteq Indices /\ \A i \in Made : donations[i] \in Record
  BY <1>1, CountsMade
<1>6. DisputesKept'
  <2>1. now' \in Nat /\ now' >= now
    BY <1>5
  <2>2. Made \subseteq Made' /\ Made' \subseteq Indices
    BY <1>4, <1>5
  <2>3. \A i \in Made : donations'[i] = donations[i] /\ donations[i].ledger \in Nat
    BY <1>4, <1>5 DEF Record
  <2> QED BY <1>1, <1>5, <2>1, <2>2, <2>3, DisputesRest
<1>7. r.ledger = now
  BY DEF Added
<1> HIDE DEF r, n
<1>8. \A i \in Made' : donations'[i].ledger <= now'
  <2>1. \A i \in Made : donations[i].ledger <= now
    BY <1>1 DEF LedgerTyped
  <2>2. now' = now /\ now <= now
    BY <1>5
  <2>3. ASSUME NEW i \in Made' PROVE donations'[i].ledger <= now'
    <3>1. CASE i \in Made
      BY <1>4, <2>1, <2>2, <3>1
    <3>2. CASE i = n + 1
      BY <1>4, <1>7, <2>2, <3>2
    <3> QED BY <1>4, <3>1, <3>2
  <2> QED BY <2>3
<1>9. raised' \in [Projects -> Int] /\ global' \in [raised : Int, co2 : Int]
  <2>1. raised \in [Projects -> Int] /\ global \in [raised : Int, co2 : Int]
    BY <1>1 DEF LedgerTyped
  <2> DEFINE gram == Grams(p, credit)
  <2>2. gram \in Int /\ global' = [global EXCEPT !.raised = @ + credit, !.co2 = @ + gram]
    BY <1>4 DEF AddsGlobal
  <2> HIDE DEF gram
  <2>3. raised' \in [Projects -> Int]
    BY <2>1
  <2>5. global.raised + credit \in Int /\ global.co2 + gram \in Int
    BY <2>1, <2>2
  <2>6. global' = [raised |-> global.raised + credit, co2 |-> global.co2 + gram]
    BY <2>1, <2>2
  <2>4. global' \in [raised : Int, co2 : Int]
    BY <2>5, <2>6
  <2> QED BY <2>3, <2>4
<1>10. LedgerTyped'
  BY <1>1, <1>4, <1>8, <1>9 DEF LedgerTyped
<1> QED BY <1>3, <1>6, <1>10 DEF DonInv

\* A donation that raises what a project has raised closes a campaign whose goal it meets.
LEMMA RaisesKeeps ==
  ASSUME DonInv, NEW who \in Accounts, NEW d \in Accounts, NEW p \in Projects,
         NEW c \in Currencies, NEW amount \in Nat, NEW credit \in Nat, NEW path \in Paths,
         Records(who, d, p, c, amount, credit, path),
         raised' = [raised EXCEPT ![p] = @ + credit],
         Raises(p, credit) \/ (campaign' = campaign /\ path = "stealth")
  PROVE  CampaignsKept'
<1>1. LedgerTyped /\ CampaignsKept /\ raised \in [Projects -> Int]
  BY DEF DonInv, LedgerTyped
<1> DEFINE n == Len(donations)
           r == Added(who, d, p, c, amount, credit, path)
<1>2. /\ Made' = Made \cup {n + 1} /\ \A i \in Made : donations'[i] = donations[i]
      /\ donations'[n + 1] = r
  BY <1>1, RecordAdded
<1>3. r.path = path /\ r.project = p
  BY DEF Added
<1> HIDE DEF n, r
<1> DEFINE C == [status : {"None", "Active", "GoalReached", "Closed", "Expired"},
                 goal : Goals \cup {0}, deadline : 0 .. LastLedger]
<1>4. campaign' \in [Projects -> C]
  <2>1. campaign \in [Projects -> C]
    BY <1>1 DEF CampaignsKept
  <2>2. [campaign EXCEPT ![p].status = "GoalReached"] \in [Projects -> C]
    BY <2>1
  <2> HIDE DEF C
  <2> QED BY <2>1, <2>2 DEF Raises
<1>5. ASSUME NEW q \in Projects, campaign'[q].status = "Active", raised'[q] >= campaign'[q].goal
      PROVE  \E i \in DonatedTo(q)' : donations'[i].path = "stealth"
  <2>1. ASSUME campaign[q].status = "Active", raised[q] >= campaign[q].goal
        PROVE  \E i \in DonatedTo(q)' : donations'[i].path = "stealth"
    <3>1. PICK i \in DonatedTo(q) : donations[i].path = "stealth"
      BY <1>1, <2>1 DEF CampaignsKept, GoalCloses
    <3>2. i \in Made /\ donations[i].project = q
      BY <3>1 DEF DonatedTo
    <3> QED BY <1>2, <3>1, <3>2 DEF DonatedTo
  <2>2. CASE q # p
    <3>1. raised'[q] = raised[q] /\ campaign'[q] = campaign[q]
      BY <1>1, <2>2 DEF CampaignsKept, Raises
    <3> QED BY <1>5, <2>1, <3>1
  <2>3. CASE q = p /\ campaign' = campaign /\ path = "stealth"
    BY <1>2, <1>3, <2>3 DEF DonatedTo
  <2>4. CASE q = p /\ Raises(p, credit)
    <3>1. CASE campaign[p].status = "Active" /\ raised[p] + credit >= campaign[p].goal
      BY <1>1, <1>5, <2>4, <3>1 DEF CampaignsKept, Raises
    <3>2. CASE ~(campaign[p].status = "Active" /\ raised[p] + credit >= campaign[p].goal)
      BY <1>1, <1>5, <2>4, <3>2 DEF CampaignsKept, Raises
    <3> QED BY <3>1, <3>2
  <2> QED BY <2>2, <2>3, <2>4
<1>6. GoalCloses'
  BY <1>5 DEF GoalCloses
<1> QED BY <1>4, <1>6 DEF CampaignsKept

LEMMA BadgeTyped == ASSUME NEW t PROVE Badge(t) \in 0 .. Cardinality(Tiers)
<1> DEFINE B == {u \in Tiers : t >= u}
<1>1. B \subseteq Tiers /\ IsFiniteSet(Tiers)
  BY DonationAssumption
<1> HIDE DEF B
<1>2. IsFiniteSet(B) /\ Cardinality(B) <= Cardinality(Tiers)
  BY <1>1, FS_Subset
<1>3. Cardinality(B) \in Nat /\ Cardinality(Tiers) \in Nat
  BY <1>1, <1>2, FS_CardinalityType
<1>4. Cardinality(B) \in 0 .. Cardinality(Tiers)
  BY <1>2, <1>3
<1> QED BY <1>4 DEF Badge, B

\* Every entry point that has donation effects keeps the books and the campaigns.
LEMMA EffectsKeep ==
  ASSUME DonInv, NEW d \in Accounts, NEW p \in Projects,
         NEW c \in Currencies, NEW amount \in Nat, NEW credit \in Nat, NEW anon \in BOOLEAN,
         NEW path \in Paths, Effects(d, p, c, amount, credit, anon, path),
         UNCHANGED <<now, co2Rate, disputes>>, setUps' = setUps, WindowsKept', PlansKept'
  PROVE  DonInv'
<1> DEFINE who == Names(d, anon)
           gram == Grams(p, credit)
           total == stats[who].total + credit
           R == [total : Int, co2 : Int, badge : 0 .. Cardinality(Tiers)]
<1>1. LedgerTyped
  BY DEF DonInv
<1>2. who \in Accounts
  BY DEF Names, Accounts
<1>3. /\ Raises(p, credit) /\ AddsGlobal(credit, gram) /\ Records(who, d, p, c, amount, credit, path)
      /\ stats' = [stats EXCEPT ![who] = [total |-> total, co2 |-> @.co2 + gram, badge |-> Badge(total)]]
      /\ given' = [given EXCEPT ![p][d] = @ + credit]
  BY DEF Effects
<1>4. gram \in Nat
  BY <1>1, <1>2, <1>3, RecordAdded
<1>5. stats \in [Accounts -> R] /\ given \in [Projects -> [Accounts -> Int]]
  BY <1>1 DEF LedgerTyped
<1>6. Badge(total) \in 0 .. Cardinality(Tiers)
  BY BadgeTyped
<1> HIDE DEF who, gram
<1>7. stats[who].total \in Int /\ stats[who].co2 \in Int
  BY <1>2, <1>5
<1>8. total \in Int /\ stats[who].co2 + gram \in Int
  BY <1>4, <1>7
<1> DEFINE r == [total |-> total, co2 |-> stats[who].co2 + gram, badge |-> Badge(total)]
<1>9. stats' = [stats EXCEPT ![who] = r]
  BY <1>3
<1>10. r \in R /\ r.total = stats[who].total + credit /\ r.co2 = stats[who].co2 + gram
  BY <1>6, <1>8
<1> HIDE DEF r, total, R
<1>11. stats' \in [Accounts -> R]
  BY <1>5, <1>9, <1>10
<1>12. \A x \in Accounts \ {Pool} :
          /\ x = who => stats'[x].total = stats[x].total + credit /\ stats'[x].co2 = stats[x].co2 + gram
          /\ x # who => stats'[x].total = stats[x].total /\ stats'[x].co2 = stats[x].co2
  BY <1>2, <1>5, <1>9, <1>10
<1>13. given' \in [Projects -> [Accounts -> Int]]
  <2>1. given[p] \in [Accounts -> Int] /\ given[p][d] + credit \in Int
    BY <1>5
  <2>2. [given[p] EXCEPT ![d] = @ + credit] \in [Accounts -> Int]
    BY <2>1
  <2> QED BY <1>3, <1>5, <2>2
<1>14. raised' = [raised EXCEPT ![p] = @ + credit]
  BY <1>3 DEF Raises
<1>15. CampaignsKept'
  BY <1>2, <1>3, <1>14, RaisesKeeps
<1> QED BY <1>2, <1>3, <1>11, <1>12, <1>13, <1>14, <1>15, DonationKeeps DEF gram, R

\* A donation without a limit leaves the limits alone.
LEMMA UnlimitedRests ==
  ASSUME DonInv, NEW who \in Accounts, NEW d \in Accounts, NEW p \in Projects,
         NEW c \in Currencies, NEW amount \in Nat, NEW credit \in Nat, NEW path \in Paths,
         Records(who, d, p, c, amount, credit, path), path # "donate",
         window' = window, now' = now
  PROVE  WindowsKept'
<1>1. LedgerTyped /\ WindowsKept
  BY DEF DonInv
<1>2. now' \in Nat /\ now' >= now
  BY <1>1, CountsMade
<1>3. \A e \in Donors, q \in Projects, b \in Currencies : Limited(e, q, b)' = Limited(e, q, b)
  BY <1>1, LimitedGrows
<1>4. \A i \in Made : donations'[i] = donations[i]
  BY <1>1, RecordAdded
<1> QED BY <1>1, <1>2, <1>3, <1>4, WindowsRest

LEMMA OffersTyped ==
  ASSUME NEW o \in Offers
  PROVE  /\ o.by \in Donors /\ o.by \in Accounts /\ o.to \in Projects /\ o.currency \in Currencies
         /\ o.amount \in Nat /\ o.anon \in BOOLEAN /\ o.path \in Paths
BY DonationAssumption DEF Accounts

LEMMA AttestedKeeps ==
  ASSUME DonInv, NEW o \in Offers, DonateAttested(o)
  PROVE  DonInv'
<1>1. /\ o.by \in Accounts /\ o.to \in Projects /\ o.currency \in Currencies /\ o.amount \in Nat
      /\ o.anon \in BOOLEAN /\ "attested" \in Paths
  BY OffersTyped DEF Paths
<1>2. /\ Effects(o.by, o.to, o.currency, o.amount, o.amount, o.anon, "attested")
      /\ UNCHANGED <<now, co2Rate, disputes, window, plan, setUps>>
  BY DEF DonateAttested
<1>3. Records(Names(o.by, o.anon), o.by, o.to, o.currency, o.amount, o.amount, "attested")
  BY <1>2 DEF Effects
<1>4. Names(o.by, o.anon) \in Accounts
  BY <1>1 DEF Names, Accounts
<1>5. WindowsKept'
  BY <1>1, <1>2, <1>3, <1>4, UnlimitedRests
<1>6. PlansKept'
  <2>1. LedgerTyped /\ PlansKept
    BY DEF DonInv
  <2>2. now' \in Nat /\ now' >= now /\ plan' = plan
    BY <1>2, <2>1, CountsMade
  <2> QED BY <2>1, <2>2, PlansRest
<1> QED BY <1>1, <1>2, <1>5, <1>6, EffectsKeep

LEMMA StealthKeeps ==
  ASSUME DonInv, NEW o \in Offers, DonateStealth(o)
  PROVE  DonInv'
<1>1. /\ Pool \in Accounts /\ o.to \in Projects /\ "XLM" \in Currencies /\ o.amount \in Nat
      /\ "stealth" \in Paths
  BY OffersTyped DEF Paths, Accounts, Currencies
<1>2. /\ raised' = [raised EXCEPT ![o.to] = @ + o.amount]
      /\ AddsGlobal(o.amount, Grams(o.to, o.amount))
      /\ Records(Pool, Pool, o.to, "XLM", o.amount, o.amount, "stealth")
      /\ UNCHANGED <<now, co2Rate, campaign, stats, given, disputes, window, plan, setUps>>
  BY DEF DonateStealth
<1>3. WindowsKept'
  BY <1>1, <1>2, UnlimitedRests
<1>4. CampaignsKept'
  BY <1>1, <1>2, RaisesKeeps
<1>5. LedgerTyped /\ PlansKept
  BY DEF DonInv
<1>6. PlansKept'
  <2>2. now' \in Nat /\ now' >= now /\ plan' = plan
    BY <1>2, <1>5, CountsMade
  <2> QED BY <1>5, <2>2, PlansRest
<1>7. /\ stats' \in [Accounts -> [total : Int, co2 : Int, badge : 0 .. Cardinality(Tiers)]]
      /\ given' \in [Projects -> [Accounts -> Int]]
  BY <1>2, <1>5 DEF LedgerTyped
<1>8. \A x \in Accounts \ {Pool} :
         /\ x = Pool => /\ stats'[x].total = stats[x].total + o.amount
                        /\ stats'[x].co2 = stats[x].co2 + Grams(o.to, o.amount)
         /\ x # Pool => stats'[x].total = stats[x].total /\ stats'[x].co2 = stats[x].co2
  BY <1>2
<1> QED BY <1>1, <1>2, <1>3, <1>4, <1>6, <1>7, <1>8, DonationKeeps

LEMMA PlanCharged ==
  ASSUME NEW S, NEW x \in [state : S, next : Nat, since : Nat, runs : Nat], NEW m \in Nat,
         NEW r, r = [x EXCEPT !.next = m, !.runs = @ + 1]
  PROVE  /\ r \in [state : S, next : Nat, since : Nat, runs : Nat]
         /\ r.next = m /\ r.since = x.since /\ r.runs = x.runs + 1
<1> DEFINE y == [x EXCEPT !.next = m]
<1>1. y \in [state : S, next : Nat, since : Nat, runs : Nat]
  OBVIOUS
<1>2. r = [y EXCEPT !.runs = @ + 1]
  OBVIOUS
<1>3. r.next = m /\ r.since = x.since /\ r.runs = x.runs + 1
  OBVIOUS
<1> HIDE DEF y
<1>4. r \in [state : S, next : Nat, since : Nat, runs : Nat]
  BY <1>1, <1>2
<1> QED BY <1>3, <1>4

\* A plan that is charged has waited for its interval.
LEMMA RecurringKeeps ==
  ASSUME DonInv, NEW d \in Planners, ExecuteRecurring(d)
  PROVE  DonInv'
<1> DEFINE o == PlanOf(d)
<1>1. o \in Offers /\ d \in Donors
  BY DonationAssumption DEF PlanOf
<1>2. /\ plan[d].state = "active" /\ now >= plan[d].next
      /\ Effects(d, o.to, "XLM", o.amount, o.amount, FALSE, "recurring")
      /\ plan' = [plan EXCEPT ![d].next = NextRun(d), ![d].runs = @ + 1]
      /\ UNCHANGED <<now, co2Rate, disputes, window, setUps>>
  BY DEF ExecuteRecurring
<1>3. d \in Accounts /\ o.to \in Projects /\ "XLM" \in Currencies /\ o.amount \in Nat
      /\ FALSE \in BOOLEAN /\ "recurring" \in Paths
  BY <1>1, OffersTyped DEF Paths, Accounts, Currencies
<1> HIDE DEF o
<1>4. Names(d, FALSE) \in Accounts
  BY <1>3 DEF Names
<1>5. Records(Names(d, FALSE), d, o.to, "XLM", o.amount, o.amount, "recurring")
  BY <1>2 DEF Effects
<1>6. WindowsKept'
  BY <1>2, <1>3, <1>4, <1>5, UnlimitedRests
<1>7. LedgerTyped /\ PlansKept /\ Interval \in Nat
  BY DonationAssumption DEF DonInv
<1>8. now \in Nat
  BY <1>7, CountsMade
<1> DEFINE P == [state : {"none", "active", "cancelled"}, next : Nat, since : Nat, runs : Nat]
           r == [plan[d] EXCEPT !.next = NextRun(d), !.runs = @ + 1]
<1>9. plan \in [Donors -> P]
  BY <1>7 DEF PlansKept
<1>10. NextRun(d) = now + Interval /\ NextRun(d) \in Nat
  BY <1>7, <1>8 DEF NextRun
<1>11. plan' = [plan EXCEPT ![d] = r]
  BY <1>1, <1>2, <1>9
<1>12. plan[d] \in P
  BY <1>1, <1>9
<1> HIDE DEF r
<1>13. r = [plan[d] EXCEPT !.next = NextRun(d), !.runs = @ + 1]
  BY DEF r
<1>14. r \in P /\ r.next = now + Interval /\ r.since = plan[d].since /\ r.runs = plan[d].runs + 1
  BY <1>10, <1>12, <1>13, PlanCharged
<1>15. \A e \in Donors : plan'[e] = IF e = d THEN r ELSE plan[e]
  BY <1>1, <1>9, <1>11
<1>16. plan' \in [Donors -> P]
  BY <1>1, <1>9, <1>11, <1>14
<1>17. /\ plan[d].since + (plan[d].runs + 1) * Interval <= plan[d].next
       /\ plan[d].since + plan[d].runs * Interval <= now
  BY <1>1, <1>2, <1>7 DEF PlansKept
<1> DEFINE k == plan[d].runs + 1
           s == plan[d].since
<1>18. s \in Nat /\ k \in Nat /\ plan[d].next \in Nat
  BY <1>12
<1> HIDE DEF P
<1>19. (k + 1) * Interval = k * Interval + 1 * Interval /\ 1 * Interval = Interval
  <2> HIDE DEF k
  <2> QED BY <1>7, <1>18, Distributes
<1>20. s + (r.runs + 1) * Interval <= r.next /\ s + r.runs * Interval <= now
  <2> DEFINE x == k * Interval
  <2>1. s + x <= plan[d].next
    BY <1>17
  <2>2. r.runs = k
    BY <1>14
  <2> HIDE DEF k, s
  <2>3. x \in Nat
    BY <1>7, <1>18, ProductNatural
  <2>4. (k + 1) * Interval = x + Interval
    BY <1>19
  <2> HIDE DEF x
  <2>5. s + x <= now
    BY <1>2, <1>8, <1>18, <2>1, <2>3
  <2>6. s + (x + Interval) <= now + Interval
    BY <1>7, <1>8, <1>18, <2>3, <2>5
  <2> QED BY <1>14, <2>2, <2>4, <2>5, <2>6 DEF x
<1>21. ASSUME NEW e \in Donors, plan'[e].state # "none"
       PROVE  /\ plan'[e].since + (plan'[e].runs + 1) * Interval <= plan'[e].next
              /\ plan'[e].since + plan'[e].runs * Interval <= now'
  <2>1. CASE e = d
    <3>1. plan'[e] = r /\ r.since = s /\ now' = now
      BY <1>2, <1>14, <1>15, <2>1
    <3> HIDE DEF s
    <3> QED BY <1>20, <3>1
  <2>2. CASE e # d
    <3>1. plan'[e] = plan[e] /\ now' = now
      BY <1>2, <1>15, <2>2
    <3> QED BY <1>7, <1>21, <3>1 DEF PlansKept
  <2> QED BY <2>1, <2>2
<1>22. PlansKept'
  BY <1>16, <1>21 DEF PlansKept, P
<1> QED BY <1>2, <1>3, <1>6, <1>22, EffectsKeep

\* A window: what it holds, and how it goes on or, when it has run out, a new one opens.
Holds(L, led, s, k) ==
  Cardinality({i \in L : led[i] >= s}) <= k /\ \A i \in L : led[i] \in Nat /\ led[i] < s + RateWindow

Turns(s, k, t, ns, nk) ==
  /\ (k = 0 \/ t - s >= RateWindow) => ns = t /\ nk = 0
  /\ ~(k = 0 \/ t - s >= RateWindow) => ns = s /\ nk = k

LEMMA WindowGoesOn ==
  ASSUME NEW L, IsFiniteSet(L), NEW y, y \notin L, NEW led, NEW t \in Nat, led[y] = t,
         NEW s \in Nat, NEW k \in Nat, s <= t, k = 0 => L = {}, Holds(L, led, s, k),
         NEW ns, NEW nk, Turns(s, k, t, ns, nk)
  PROVE  ns <= t /\ Holds(L \cup {y}, led, ns, nk + 1)
<1>3. /\ Cardinality({i \in L : led[i] >= s}) <= k
      /\ \A i \in L : led[i] \in Nat /\ led[i] < s + RateWindow
      /\ (k = 0 \/ t - s >= RateWindow) => ns = t /\ nk = 0
      /\ ~(k = 0 \/ t - s >= RateWindow) => ns = s /\ nk = k
  BY DEF Holds, Turns
<1>0. RateWindow \in Nat /\ RateWindow >= 1
  BY DonationAssumption
<1>1. CASE k = 0 \/ t - s >= RateWindow
  <2>1. ns = t /\ nk = 0
    BY <1>1, <1>3
  <2>2. \A i \in L : led[i] < t
    BY <1>0, <1>1, <1>3
  <2>3. {i \in L \cup {y} : led[i] >= ns} = {y}
    BY <1>3, <2>1, <2>2
  <2>4. Cardinality({y}) = 1
    BY FS_Singleton
  <2>5. \A i \in L \cup {y} : led[i] \in Nat /\ led[i] < t + RateWindow
    BY <1>0, <1>3, <2>2
  <2>6. Cardinality({i \in L \cup {y} : led[i] >= ns}) <= nk + 1
    BY <2>1, <2>3, <2>4
  <2>7. \A i \in L \cup {y} : led[i] \in Nat /\ led[i] < ns + RateWindow
    BY <2>1, <2>5
  <2> QED BY <2>1, <2>6, <2>7 DEF Holds
<1>2. CASE ~(k = 0 \/ t - s >= RateWindow)
  <2> DEFINE A == {i \in L : led[i] >= s}
  <2>1. ns = s /\ nk = k
    BY <1>2, <1>3
  <2>2. {i \in L \cup {y} : led[i] >= ns} = A \cup {y}
    BY <2>1
  <2>3. A \subseteq L /\ y \notin A /\ Cardinality(A) <= k
    BY <1>3
  <2> HIDE DEF A
  <2>4. IsFiniteSet(A)
    BY <2>3, FS_Subset
  <2>5. Cardinality(A \cup {y}) = Cardinality(A) + 1
    BY <2>3, <2>4, FS_AddElement
  <2>6. Cardinality(A) \in Nat
    BY <2>4, FS_CardinalityType
  <2>7. Cardinality(A \cup {y}) <= k + 1
    BY <2>3, <2>5, <2>6
  <2>8. \A i \in L \cup {y} : led[i] \in Nat /\ led[i] < s + RateWindow
    BY <1>0, <1>2, <1>3
  <2>9. Cardinality({i \in L \cup {y} : led[i] >= ns}) <= nk + 1
    BY <2>1, <2>2, <2>7
  <2> QED BY <2>1, <2>8, <2>9 DEF Holds
<1> QED BY <1>1, <1>2

\* A donation under the limit is counted in its window.
LEMMA DonateWindows ==
  ASSUME DonInv, NEW o \in Offers, Donate(o)
  PROVE  WindowsKept'
<1> DEFINE d == o.by  p == o.to  c == o.currency
           old  == window[d][p][c]
           curr == IF old.count = 0 \/ now - old.start >= RateWindow
                   THEN [start |-> now, count |-> 0] ELSE old
           who  == Names(d, o.anon)
           credit == Credit(c, o.amount)
           W == [start : Nat, count : 0 .. RateMax]
           y == Len(donations) + 1
           L == Limited(d, p, c)
<1>1. /\ d \in Donors /\ d \in Accounts /\ p \in Projects /\ c \in Currencies /\ o.amount \in Nat
      /\ "donate" \in Paths /\ o.anon \in BOOLEAN
  BY OffersTyped DEF Paths
<1>2. /\ curr.count < RateMax
      /\ window' = [window EXCEPT ![d][p][c] = [curr EXCEPT !.count = @ + 1]]
      /\ Effects(d, p, c, o.amount, credit, o.anon, "donate")
      /\ now' = now
  BY DEF Donate, CountsDonation
<1>3. who \in Accounts
  BY <1>1 DEF Names, Accounts
<1>4. Records(who, d, p, c, o.amount, credit, "donate")
  BY <1>2 DEF Effects
<1>5. credit \in Nat
  BY <1>1, DonationAssumption, ProductNatural DEF Credit
<1>6. LedgerTyped /\ WindowsKept /\ now \in Nat
  BY CountsMade DEF DonInv
<1>7. window \in [Donors -> [Projects -> [Currencies -> W]]] /\ RateMax \in Nat
  BY <1>6, DonationAssumption DEF WindowsKept
<1> HIDE DEF d, p, c, who, credit, y, L
<1>8. /\ \A i \in Made : donations'[i] = donations[i]
      /\ y \notin Made /\ Made' = Made \cup {y} /\ donations'[y].ledger = now
  <2>1. /\ \A i \in Made : donations'[i] = donations[i]
        /\ Len(donations) + 1 \notin Made /\ Made' = Made \cup {Len(donations) + 1}
        /\ donations'[Len(donations) + 1] = Added(who, d, p, c, o.amount, credit, "donate")
    BY <1>1, <1>3, <1>4, <1>5, <1>6, RecordAdded
  <2>2. Added(who, d, p, c, o.amount, credit, "donate").ledger = now
    BY DEF Added
  <2> QED BY <2>1, <2>2 DEF y
<1>9. ASSUME NEW e \in Donors, NEW q \in Projects, NEW b \in Currencies
      PROVE  /\ Limited(e, q, b) \in SUBSET Made
             /\ e = d /\ q = p /\ b = c => Limited(e, q, b)' = Limited(e, q, b) \cup {y}
             /\ ~(e = d /\ q = p /\ b = c) => Limited(e, q, b)' = Limited(e, q, b)
  BY <1>1, <1>3, <1>4, <1>5, <1>6, <1>9, LimitedGrows DEF y
<1>10. old \in W
  BY <1>1, <1>7
<1>11. curr.start \in Nat /\ curr.count \in Nat /\ curr.count + 1 \in 0 .. RateMax
       /\ [curr EXCEPT !.count = @ + 1] = [start |-> curr.start, count |-> curr.count + 1]
  BY <1>2, <1>6, <1>7, <1>10
<1>12. /\ (old.count = 0 \/ now - old.start >= RateWindow) => curr.start = now /\ curr.count = 0
       /\ ~(old.count = 0 \/ now - old.start >= RateWindow) => curr.start = old.start /\ curr.count = old.count
  OBVIOUS
<1> DEFINE r == [start |-> curr.start, count |-> curr.count + 1]
<1>13. r \in W /\ window' = [window EXCEPT ![d][p][c] = r]
  BY <1>2, <1>11
<1>14. /\ old.start <= now /\ (old.count = 0 => L = {})
       /\ Cardinality({i \in L : donations[i].ledger >= old.start}) <= old.count
       /\ \A i \in L : donations[i].ledger < old.start + RateWindow
  BY <1>1, <1>6 DEF WindowsKept, L
<1>15. r.start = curr.start /\ r.count = curr.count + 1 /\ old.start \in Nat /\ old.count \in Nat
  BY <1>7, <1>10
<1> HIDE DEF curr, r, W
<1>16. window' \in [Donors -> [Projects -> [Currencies -> W]]]
  <2>1. window[d] \in [Projects -> [Currencies -> W]]
    BY <1>1, <1>7
  <2>2. window[d][p] \in [Currencies -> W]
    BY <1>1, <2>1
  <2>3. [window[d][p] EXCEPT ![c] = r] \in [Currencies -> W]
    BY <1>1, <1>13, <2>2
  <2>4. [window[d] EXCEPT ![p] = [window[d][p] EXCEPT ![c] = r]] \in [Projects -> [Currencies -> W]]
    BY <1>1, <2>1, <2>3
  <2> QED BY <1>1, <1>7, <1>13, <2>4
<1>17. window'[d][p][c] = r
       /\ \A e \in Donors, q \in Projects, b \in Currencies :
            ~(e = d /\ q = p /\ b = c) => window'[e][q][b] = window[e][q][b]
  BY <1>1, <1>7, <1>13
<1>18. L \in SUBSET Made /\ IsFiniteSet(L) /\ y \notin L /\ L' = L \cup {y}
  <2>1. L \in SUBSET Made /\ L' = L \cup {y}
    BY <1>1, <1>9 DEF L
  <2>2. IsFiniteSet(Made)
    BY <1>6, CountsMade
  <2> QED BY <1>8, <2>1, <2>2, FS_Subset
<1> DEFINE led == [i \in Made' |-> donations'[i].ledger]
<1>19. led[y] = now /\ \A i \in Made : led[i] = donations[i].ledger /\ led[i] \in Nat
  <2>1. \A i \in Made : donations[i].ledger \in Nat
    BY <1>6, CountsMade DEF Record
  <2> QED BY <1>8, <2>1
<1>20. \A i \in L : led[i] = donations[i].ledger /\ led[i] \in Nat
  BY <1>18, <1>19
<1>21. \A i \in L \cup {y} : led[i] = donations'[i].ledger
  BY <1>8, <1>18
<1> HIDE DEF led
<1>22. {i \in L : led[i] >= old.start} = {i \in L : donations[i].ledger >= old.start}
  BY <1>20
<1>23. Cardinality({i \in L : led[i] >= old.start}) <= old.count
  BY <1>14, <1>22
<1>24. \A i \in L : led[i] < old.start + RateWindow
  BY <1>14, <1>20
<1>25. Holds(L, led, old.start, old.count)
  BY <1>20, <1>23, <1>24 DEF Holds
<1>29. Turns(old.start, old.count, now, curr.start, curr.count)
  BY <1>12 DEF Turns
<1> HIDE DEF old
<1>26. /\ r.start <= now /\ Cardinality({i \in L \cup {y} : led[i] >= r.start}) <= r.count
       /\ \A i \in L \cup {y} : led[i] < r.start + RateWindow
  <2>1. IsFiniteSet(L) /\ y \notin L
    BY <1>18
  <2>2. led[y] = now
    BY <1>19
  <2>3. old.start \in Nat /\ old.count \in Nat
    BY <1>15
  <2>4. old.start <= now
    BY <1>14
  <2>5. old.count = 0 => L = {}
    BY <1>14
  <2>8. curr.start <= now /\ Holds(L \cup {y}, led, curr.start, curr.count + 1)
    BY <1>6, <1>25, <1>29, <2>1, <2>2, <2>3, <2>4, <2>5, WindowGoesOn
  <2> QED BY <1>15, <2>8 DEF Holds
<1>27. {i \in L \cup {y} : led[i] >= r.start} = {i \in L \cup {y} : donations'[i].ledger >= r.start}
  BY <1>21
<1>28. ASSUME NEW e \in Donors, NEW q \in Projects, NEW b \in Currencies
       PROVE  LET w == window'[e][q][b]
              IN  /\ w.start <= now'
                  /\ w.count = 0 => Limited(e, q, b)' = {}
                  /\ Cardinality({i \in Limited(e, q, b)' : donations'[i].ledger >= w.start}) <= w.count
                  /\ \A i \in Limited(e, q, b)' : donations'[i].ledger < w.start + RateWindow
  <2>1. CASE e = d /\ q = p /\ b = c
    <3>1. window'[e][q][b] = r /\ Limited(e, q, b)' = L \cup {y} /\ now' = now
      BY <1>2, <1>9, <1>17, <2>1 DEF L
    <3>2. r.count # 0
      BY <1>11, <1>15
    <3>3. r.start <= now /\ Cardinality({i \in L \cup {y} : donations'[i].ledger >= r.start}) <= r.count
      BY <1>26, <1>27
    <3>4. \A i \in L \cup {y} : donations'[i].ledger < r.start + RateWindow
      BY <1>21, <1>26
    <3> QED BY <3>1, <3>2, <3>3, <3>4
  <2>2. CASE ~(e = d /\ q = p /\ b = c)
    <3> DEFINE M == Limited(e, q, b)  w == window[e][q][b]
    <3>1. window'[e][q][b] = w /\ Limited(e, q, b)' = M /\ now' = now /\ M \in SUBSET Made
      BY <1>2, <1>9, <1>17, <2>2
    <3>2. /\ w.start <= now /\ (w.count = 0 => M = {})
          /\ Cardinality({i \in M : donations[i].ledger >= w.start}) <= w.count
          /\ \A i \in M : donations[i].ledger < w.start + RateWindow
      BY <1>6 DEF WindowsKept
    <3> HIDE DEF M, w
    <3>3. \A i \in M : donations'[i] = donations[i]
      BY <1>8, <3>1
    <3>4. {i \in M : donations'[i].ledger >= w.start} = {i \in M : donations[i].ledger >= w.start}
      BY <3>3
    <3>5. \A i \in M : donations'[i].ledger < w.start + RateWindow
      BY <3>2, <3>3
    <3> QED BY <3>1, <3>2, <3>4, <3>5
  <2> QED BY <2>1, <2>2
<1> QED BY <1>16, <1>28 DEF WindowsKept, W

LEMMA DonateKeeps ==
  ASSUME DonInv, NEW o \in Offers, Donate(o)
  PROVE  DonInv'
<1>1. /\ o.by \in Accounts /\ o.to \in Projects /\ o.currency \in Currencies /\ o.amount \in Nat
      /\ o.anon \in BOOLEAN /\ "donate" \in Paths
  BY OffersTyped DEF Paths
<1> DEFINE credit == Credit(o.currency, o.amount)
<1>2. /\ Effects(o.by, o.to, o.currency, o.amount, credit, o.anon, "donate")
      /\ UNCHANGED <<now, co2Rate, disputes, plan, setUps>>
  BY DEF Donate
<1>3. credit \in Nat
  BY <1>1, DonationAssumption, ProductNatural DEF Credit
<1> HIDE DEF credit
<1>4. WindowsKept'
  BY DonateWindows
<1>5. LedgerTyped /\ PlansKept
  BY DEF DonInv
<1>6. PlansKept'
  <2>2. now' \in Nat /\ now' >= now /\ plan' = plan
    BY <1>2, <1>5, CountsMade
  <2> QED BY <1>5, <2>2, PlansRest
<1> QED BY <1>1, <1>2, <1>3, <1>4, <1>6, EffectsKeep

-------------------------------------------------------------------------------
(* What is set up, and what is taken back.                                 *)

\* A call that leaves the donations, the books, the disputes and the limits alone.
LEMMA SetUpKeeps ==
  ASSUME DonInv, UNCHANGED <<now, totals, donations, disputes, window>>, plan' = plan \/ PlansKept',
         setUps' \in 0 .. SetUps, co2Rate' \in [Projects -> Rates], CampaignsKept'
  PROVE  DonInv'
<1>1. LedgerTyped /\ DisputesKept /\ WindowsKept /\ PlansKept
  BY DEF DonInv
<1>2. UNCHANGED <<now, raised, stats, given, global, donations, refund, challenge, window>>
  BY DEF totals, disputes
<1>3. Made' = Made
  BY <1>2 DEF Made
<1>4. LedgerTyped'
  BY <1>1, <1>2, <1>3 DEF LedgerTyped
<1>5. now \in Nat /\ \A i \in Made : donations[i] \in Record
  BY <1>1, CountsMade
<1>6. now' \in Nat /\ now' >= now /\ Made \subseteq Made' /\ Made' \subseteq Indices
  BY <1>1, <1>2, <1>3, <1>5, CountsMade
<1>7. \A i \in Made : donations'[i] = donations[i] /\ donations[i].ledger \in Nat
  BY <1>2, <1>5 DEF Record
<1>8. DisputesKept'
  BY <1>1, <1>5, <1>6, <1>7, DisputesRest
<1>9. \A e \in Donors, q \in Projects, b \in Currencies : Limited(e, q, b)' = Limited(e, q, b)
  BY <1>2, <1>3 DEF Limited
<1>10. WindowsKept'
  BY <1>1, <1>2, <1>6, <1>7, <1>9, WindowsRest
<1>11. PlansKept'
  BY <1>1, <1>2, <1>6, PlansRest
<1>12. \A i \in Made : Reversed(i)' <=> Reversed(i)
  BY <1>2 DEF Reversed, RefundApproved, ChallengeReversed
<1>13. BooksAgree'
  BY <1>2, <1>12, BooksRest
<1> QED BY <1>4, <1>8, <1>10, <1>11, <1>13 DEF DonInv

LEMMA GoalTyped == \A z \in Goals \cup {0} : z \in Int
BY DonationAssumption

\* A campaign that is opened has its goal before it.
LEMMA CampaignsMove ==
  ASSUME DonInv, UNCHANGED <<now, raised, donations>>, NEW p \in Projects, NEW c,
         campaign' = [campaign EXCEPT ![p] = c],
         c \in [status : {"None", "Active", "GoalReached", "Closed", "Expired"},
                goal : Goals \cup {0}, deadline : 0 .. LastLedger],
         c.status = "Active" => c.goal > raised[p] \/ (campaign[p].status = "Active" /\ c.goal = campaign[p].goal)
  PROVE  CampaignsKept'
<1> DEFINE C == [status : {"None", "Active", "GoalReached", "Closed", "Expired"},
                 goal : Goals \cup {0}, deadline : 0 .. LastLedger]
<1>1. campaign \in [Projects -> C] /\ GoalCloses /\ raised \in [Projects -> Int]
  BY DEF DonInv, LedgerTyped, CampaignsKept
<1>2. \A q \in Projects : campaign'[q] = IF q = p THEN c ELSE campaign[q]
  BY <1>1
<1>4. c.goal \in Int
  <2>1. c.goal \in Goals \cup {0}
    OBVIOUS
  <2> QED BY <2>1, GoalTyped
<1>5. campaign' \in [Projects -> C]
  BY <1>1
<1>6. \A q : DonatedTo(q)' = DonatedTo(q)
  BY DEF DonatedTo, Made
<1>7. ASSUME NEW q \in Projects, campaign'[q].status = "Active", raised'[q] >= campaign'[q].goal
      PROVE  \E i \in DonatedTo(q)' : donations'[i].path = "stealth"
  <2>1. campaign[q].status = "Active" /\ campaign[q].goal = campaign'[q].goal
    <3>1. CASE q = p
      BY <1>1, <1>2, <1>4, <1>7, <3>1
    <3>2. CASE q # p
      BY <1>2, <1>7, <3>2
    <3> QED BY <3>1, <3>2
  <2>2. \E i \in DonatedTo(q) : donations[i].path = "stealth"
    BY <1>1, <1>7, <2>1 DEF GoalCloses
  <2> QED BY <1>6, <2>2
<1> QED BY <1>5, <1>7 DEF CampaignsKept, GoalCloses

\* The campaigns rest.
LEMMA CampaignsRest ==
  ASSUME CampaignsKept, UNCHANGED <<campaign, raised, donations>>
  PROVE  CampaignsKept'
BY DEF CampaignsKept, GoalCloses, DonatedTo, Made

LEMMA SetsUpTyped == ASSUME DonInv, SetsUp PROVE setUps' \in 0 .. SetUps
BY DonationAssumption DEF DonInv, LedgerTyped, SetsUp

LEMMA CreateCampaignKeeps ==
  ASSUME DonInv, NEW p \in Projects, NEW goal \in Goals, NEW l \in now + 1 .. LastLedger,
         CreateCampaign(p, goal, l)
  PROVE  DonInv'
<1> DEFINE c == [status |-> "Active", goal |-> goal, deadline |-> l]
<1>1. /\ SetsUp /\ goal > raised[p] /\ campaign' = [campaign EXCEPT ![p] = c]
      /\ UNCHANGED <<now, co2Rate, totals, donations, disputes, window, plan>>
  BY DEF CreateCampaign
<1>2. now \in Nat /\ LastLedger \in Nat /\ co2Rate \in [Projects -> Rates]
  BY CountsMade, DonationAssumption DEF DonInv, LedgerTyped
<1>3. l \in 0 .. LastLedger
  BY <1>2
<1>4. c \in [status : {"None", "Active", "GoalReached", "Closed", "Expired"},
             goal : Goals \cup {0}, deadline : 0 .. LastLedger] /\ c.status = "Active" /\ c.goal = goal
  BY <1>3
<1> HIDE DEF c
<1>5. UNCHANGED <<now, raised, donations>>
  BY <1>1 DEF totals
<1>6. c.status = "Active" => c.goal > raised[p] \/ (campaign[p].status = "Active" /\ c.goal = campaign[p].goal)
  BY <1>1, <1>4
<1>7. CampaignsKept'
  BY <1>1, <1>4, <1>5, <1>6, CampaignsMove
<1> QED BY <1>1, <1>2, <1>7, SetsUpTyped, SetUpKeeps

LEMMA ExtendCampaignKeeps ==
  ASSUME DonInv, NEW p \in Projects, NEW l \in now + 1 .. LastLedger, ExtendCampaign(p, l)
  PROVE  DonInv'
<1> DEFINE C == [status : {"None", "Active", "GoalReached", "Closed", "Expired"},
                 goal : Goals \cup {0}, deadline : 0 .. LastLedger]
           c == [campaign[p] EXCEPT !.deadline = l]
<1>1. /\ SetsUp /\ campaign[p].status = "Active" /\ campaign' = [campaign EXCEPT ![p].deadline = l]
      /\ UNCHANGED <<now, co2Rate, totals, donations, disputes, window, plan>>
  BY DEF ExtendCampaign
<1>2. now \in Nat /\ LastLedger \in Nat /\ co2Rate \in [Projects -> Rates] /\ campaign \in [Projects -> C]
  BY CountsMade, DonationAssumption DEF DonInv, LedgerTyped, CampaignsKept
<1>3. l \in 0 .. LastLedger
  BY <1>2
<1>4. campaign' = [campaign EXCEPT ![p] = c]
  BY <1>1
<1>5. c \in C /\ c.goal = campaign[p].goal
  BY <1>2, <1>3
<1> HIDE DEF c
<1>6. UNCHANGED <<now, raised, donations>>
  BY <1>1 DEF totals
<1>7. c.status = "Active" => c.goal > raised[p] \/ (campaign[p].status = "Active" /\ c.goal = campaign[p].goal)
  BY <1>1, <1>5
<1>8. CampaignsKept'
  BY <1>4, <1>5, <1>6, <1>7, CampaignsMove
<1> QED BY <1>1, <1>2, <1>8, SetsUpTyped, SetUpKeeps

LEMMA CloseCampaignKeeps ==
  ASSUME DonInv, NEW p \in Projects, CloseCampaign(p)
  PROVE  DonInv'
<1> DEFINE C == [status : {"None", "Active", "GoalReached", "Closed", "Expired"},
                 goal : Goals \cup {0}, deadline : 0 .. LastLedger]
           s == IF campaign[p].status = "Active" /\ now > campaign[p].deadline /\ raised[p] < campaign[p].goal
                THEN "Expired" ELSE "Closed"
           c == [campaign[p] EXCEPT !.status = s]
<1>1. /\ SetsUp /\ campaign' = [campaign EXCEPT ![p].status = s]
      /\ UNCHANGED <<now, co2Rate, totals, donations, disputes, window, plan>>
  BY DEF CloseCampaign
<1>2. co2Rate \in [Projects -> Rates] /\ campaign \in [Projects -> C]
  BY DEF DonInv, LedgerTyped, CampaignsKept
<1>3. s \in {"Expired", "Closed"}
  OBVIOUS
<1> HIDE DEF s
<1>4. campaign' = [campaign EXCEPT ![p] = c]
  BY <1>1
<1>5. c \in C /\ c.status = s
  BY <1>2, <1>3
<1> HIDE DEF c
<1>6. UNCHANGED <<now, raised, donations>>
  BY <1>1 DEF totals
<1>7. c.status = "Active" => c.goal > raised[p] \/ (campaign[p].status = "Active" /\ c.goal = campaign[p].goal)
  BY <1>3, <1>5
<1>8. CampaignsKept'
  BY <1>4, <1>5, <1>6, <1>7, CampaignsMove
<1> QED BY <1>1, <1>2, <1>8, SetsUpTyped, SetUpKeeps

LEMMA RateKeeps ==
  ASSUME DonInv, NEW p \in Projects, NEW r \in Rates, UpdateProjectCo2Rate(p, r)
  PROVE  DonInv'
<1>1. /\ SetsUp /\ co2Rate' = [co2Rate EXCEPT ![p] = r]
      /\ UNCHANGED <<now, campaign, totals, donations, disputes, window, plan>>
  BY DEF UpdateProjectCo2Rate
<1>2. CampaignsKept /\ co2Rate \in [Projects -> Rates]
  BY DEF DonInv, LedgerTyped
<1>3. co2Rate' \in [Projects -> Rates]
  BY <1>1, <1>2
<1>4. UNCHANGED <<campaign, raised, donations>>
  BY <1>1 DEF totals
<1>5. CampaignsKept'
  BY <1>2, <1>4, CampaignsRest
<1> QED BY <1>1, <1>3, <1>5, SetsUpTyped, SetUpKeeps

LEMMA CreateRecurringKeeps ==
  ASSUME DonInv, NEW d \in Planners, CreateRecurring(d)
  PROVE  DonInv'
<1> DEFINE P == [state : {"none", "active", "cancelled"}, next : Nat, since : Nat, runs : Nat]
           r == [state |-> "active", next |-> now + Interval, since |-> now, runs |-> 0]
<1>1. /\ SetsUp /\ plan' = [plan EXCEPT ![d] = r]
      /\ UNCHANGED <<now, co2Rate, campaign, totals, donations, disputes, window>>
  BY DEF CreateRecurring
<1>2. d \in Donors /\ Interval \in Nat /\ now \in Nat /\ plan \in [Donors -> P]
  BY DonationAssumption, CountsMade DEF DonInv, PlansKept
<1>3. CampaignsKept /\ PlansKept /\ co2Rate \in [Projects -> Rates]
  BY DEF DonInv, LedgerTyped
<1>4. r \in P /\ r.since = now /\ r.runs = 0 /\ r.next = now + Interval
  BY <1>2
<1>5. r.since + (r.runs + 1) * Interval <= r.next /\ r.since + r.runs * Interval <= now
  <2>1. 0 * Interval = 0 /\ (0 + 1) * Interval = Interval
    BY <1>2
  <2> HIDE DEF r
  <2> QED BY <1>2, <1>4, <2>1
<1> HIDE DEF r
<1>6. ASSUME NEW e \in Donors, plan'[e].state # "none"
      PROVE  /\ plan'[e].since + (plan'[e].runs + 1) * Interval <= plan'[e].next
             /\ plan'[e].since + plan'[e].runs * Interval <= now'
  <2>1. CASE e = d
    <3>1. plan'[e] = r /\ now' = now
      BY <1>1, <1>2, <2>1
    <3> QED BY <1>5, <3>1
  <2>2. CASE e # d
    <3>1. plan'[e] = plan[e] /\ now' = now
      BY <1>1, <1>2, <2>2
    <3> QED BY <1>3, <1>6, <3>1 DEF PlansKept
  <2> QED BY <2>1, <2>2
<1>7. plan' \in [Donors -> P]
  BY <1>1, <1>2, <1>4
<1>8. PlansKept'
  BY <1>6, <1>7 DEF PlansKept
<1>9. UNCHANGED <<campaign, raised, donations>>
  BY <1>1 DEF totals
<1>10. CampaignsKept'
  BY <1>3, <1>9, CampaignsRest
<1> QED BY <1>1, <1>3, <1>8, <1>10, SetsUpTyped, SetUpKeeps

LEMMA CancelRecurringKeeps ==
  ASSUME DonInv, NEW d \in Planners, CancelRecurring(d)
  PROVE  DonInv'
<1> DEFINE P == [state : {"none", "active", "cancelled"}, next : Nat, since : Nat, runs : Nat]
           r == [plan[d] EXCEPT !.state = "cancelled"]
<1>1. /\ SetsUp /\ plan[d].state = "active" /\ plan' = [plan EXCEPT ![d].state = "cancelled"]
      /\ UNCHANGED <<now, co2Rate, campaign, totals, donations, disputes, window>>
  BY DEF CancelRecurring
<1>2. d \in Donors /\ plan \in [Donors -> P]
  BY DonationAssumption DEF DonInv, PlansKept
<1>3. CampaignsKept /\ PlansKept /\ co2Rate \in [Projects -> Rates]
  BY DEF DonInv, LedgerTyped
<1>4. r \in P /\ r.since = plan[d].since /\ r.runs = plan[d].runs /\ r.next = plan[d].next
  BY <1>2
<1>5. plan' = [plan EXCEPT ![d] = r]
  BY <1>1
<1> HIDE DEF r
<1>6. ASSUME NEW e \in Donors, plan'[e].state # "none"
      PROVE  /\ plan'[e].since + (plan'[e].runs + 1) * Interval <= plan'[e].next
             /\ plan'[e].since + plan'[e].runs * Interval <= now'
  <2>1. plan[e].state # "none" /\ plan'[e].since = plan[e].since /\ plan'[e].runs = plan[e].runs
        /\ plan'[e].next = plan[e].next /\ now' = now
    BY <1>1, <1>2, <1>4, <1>5, <1>6
  <2>2. /\ plan[e].since + (plan[e].runs + 1) * Interval <= plan[e].next
        /\ plan[e].since + plan[e].runs * Interval <= now
    BY <1>3, <2>1 DEF PlansKept
  <2> QED BY <2>1, <2>2
<1>7. plan' \in [Donors -> P]
  BY <1>2, <1>4, <1>5
<1>8. PlansKept'
  BY <1>6, <1>7 DEF PlansKept
<1>9. UNCHANGED <<campaign, raised, donations>>
  BY <1>1 DEF totals
<1>10. CampaignsKept'
  BY <1>3, <1>9, CampaignsRest
<1> QED BY <1>1, <1>3, <1>8, <1>10, SetsUpTyped, SetUpKeeps

\* A refund or a challenge moves.
LEMMA RefundMoves ==
  ASSUME DonInv, NEW i \in Made, NEW r, r \in [status : Statuses, effective : 0 .. LastLedger + Timelock],
         refund' = [refund EXCEPT ![i] = r], UNCHANGED <<now, donations, challenge, disputeFloor, final>>,
         r.effective > 0 => r.status = "pending", r.status = "approved" => ~ChallengeReversed(i)
  PROVE  /\ DisputesKept'
         /\ \A j : Reversed(j)' => Reversed(j) \/ j = i
         /\ \A j : Reversed(j) => Reversed(j)' \/ j = i
         /\ Reversed(i)' <=> r.status = "approved" \/ ChallengeReversed(i)
<1>1. DisputesKept /\ LedgerTyped
  BY DEF DonInv
<1>2. Made' = Made /\ Made \subseteq Indices
  BY <1>1, CountsMade DEF Made
<1> DEFINE R == [status : Statuses, effective : 0 .. LastLedger + Timelock]
<1>3. refund \in [Indices -> R] /\ refund' \in [Indices -> R] /\ \A j : j # i => refund'[j] = refund[j]
  BY <1>1, <1>2 DEF DisputesKept
<1>4. refund'[i] = r
  BY <1>2, <1>3
<1> HIDE DEF R
<1>5. \A j \in Indices : refund'[j].effective > 0 => refund'[j].status = "pending"
  BY <1>1, <1>3, <1>4 DEF DisputesKept
<1>6. \A j \in Indices \ Made' : refund'[j] = NoRefund /\ challenge'[j] = "none"
  BY <1>1, <1>2, <1>3 DEF DisputesKept
<1>7. ReversedOnce'
  BY <1>1, <1>2, <1>3, <1>4 DEF DisputesKept, ReversedOnce, RefundApproved, ChallengeReversed
<1>8. \A j \in final' :
        j \in Made' /\ (challenge'[j] = "none" => ~Challengeable(j)' \/ WindowOver(j)')
  BY <1>1, <1>2 DEF DisputesKept, Challengeable, WindowOver
<1>9. \A j : j # i => (Reversed(j)' <=> Reversed(j))
  BY <1>3 DEF Reversed, RefundApproved, ChallengeReversed
<1>10. Reversed(i)' <=> r.status = "approved" \/ ChallengeReversed(i)
  BY <1>4 DEF Reversed, RefundApproved, ChallengeReversed
<1>11. DisputesKept'
  BY <1>1, <1>3, <1>5, <1>6, <1>7, <1>8 DEF DisputesKept, R
<1> QED BY <1>9, <1>10, <1>11

LEMMA ChallengeMoves ==
  ASSUME DonInv, NEW i \in Made, NEW v, v \in {"open", "approved", "rejected"},
         challenge' = [challenge EXCEPT ![i] = v], UNCHANGED <<now, donations, refund, disputeFloor, final>>,
         v = "rejected" => ~RefundApproved(i)
  PROVE  /\ DisputesKept'
         /\ \A j : Reversed(j)' => Reversed(j) \/ j = i
         /\ \A j : Reversed(j) => Reversed(j)' \/ j = i
         /\ Reversed(i)' <=> v = "rejected" \/ RefundApproved(i)
<1>1. DisputesKept /\ LedgerTyped
  BY DEF DonInv
<1>2. Made' = Made /\ Made \subseteq Indices
  BY <1>1, CountsMade DEF Made
<1>3. challenge' \in [Indices -> {"none", "open", "approved", "rejected"}]
      /\ \A j : j # i => challenge'[j] = challenge[j]
  BY <1>1, <1>2 DEF DisputesKept
<1>4. challenge'[i] = v
  BY <1>1, <1>2 DEF DisputesKept
<1>6. \A j \in Indices \ Made' : refund'[j] = NoRefund /\ challenge'[j] = "none"
  BY <1>1, <1>2, <1>3 DEF DisputesKept
<1>7. ReversedOnce'
  BY <1>1, <1>2, <1>3, <1>4 DEF DisputesKept, ReversedOnce, RefundApproved, ChallengeReversed
<1>8. \A j \in final' :
        j \in Made' /\ (challenge'[j] = "none" => ~Challengeable(j)' \/ WindowOver(j)')
  BY <1>1, <1>2, <1>3, <1>4 DEF DisputesKept, Challengeable, WindowOver
<1>9. \A j : j # i => (Reversed(j)' <=> Reversed(j))
  BY <1>3 DEF Reversed, RefundApproved, ChallengeReversed
<1>10. Reversed(i)' <=> v = "rejected" \/ RefundApproved(i)
  BY <1>4 DEF Reversed, RefundApproved, ChallengeReversed
<1>11. DisputesKept'
  BY <1>1, <1>3, <1>6, <1>7, <1>8 DEF DisputesKept
<1> QED BY <1>9, <1>10, <1>11

\* A step of a dispute that takes nothing back.
LEMMA QuietKeeps ==
  ASSUME DonInv, UNCHANGED <<now, co2Rate, campaign, totals, donations, window, plan>>,
         setUps' \in 0 .. SetUps, DisputesKept', \A i \in Made : Reversed(i)' <=> Reversed(i)
  PROVE  DonInv'
<1>1. LedgerTyped /\ CampaignsKept /\ WindowsKept /\ PlansKept
  BY DEF DonInv
<1>2. UNCHANGED <<now, co2Rate, campaign, raised, stats, given, global, donations, window, plan>>
  BY DEF totals
<1>3. Made' = Made
  BY <1>2 DEF Made
<1>4. LedgerTyped'
  BY <1>1, <1>2, <1>3 DEF LedgerTyped
<1>5. now' \in Nat /\ now' >= now
  BY <1>1, <1>2, CountsMade
<1>6. CampaignsKept'
  BY <1>1, <1>2, CampaignsRest
<1>7. \A e \in Donors, q \in Projects, b \in Currencies : Limited(e, q, b)' = Limited(e, q, b)
  BY <1>2, <1>3 DEF Limited
<1>8. \A i \in Made : donations'[i] = donations[i]
  BY <1>2
<1>9. WindowsKept'
  BY <1>1, <1>2, <1>5, <1>7, <1>8, WindowsRest
<1>10. PlansKept'
  BY <1>1, <1>2, <1>5, PlansRest
<1>11. BooksAgree'
  BY <1>2, BooksRest
<1> QED BY <1>4, <1>6, <1>9, <1>10, <1>11 DEF DonInv

\* A step that takes a donation back, whose project has then raised less.
LEMMA ReversalKeeps ==
  ASSUME DonInv, NEW i \in Made, ~Reversed(i), Reverses(i),
         UNCHANGED <<now, co2Rate, campaign, donations, window, plan, setUps>>,
         DisputesKept', \A j : Reversed(j)' <=> (Reversed(j) \/ j = i)
  PROVE  DonInv'
<1> DEFINE r == donations[i]
           R == [total : Int, co2 : Int, badge : 0 .. Cardinality(Tiers)]
<1>1. LedgerTyped /\ CampaignsKept /\ WindowsKept /\ PlansKept
  BY DEF DonInv
<1>2. Made' = Made
  BY DEF Made
<1>3. r \in Record
  BY <1>1, CountsMade
<1>4. r.project \in Projects /\ r.donor \in Accounts /\ r.amount \in Nat /\ r.co2 \in Nat
  BY <1>3 DEF Record
<1>5. /\ raised' = [raised EXCEPT ![r.project] = @ - r.amount]
      /\ stats' = [stats EXCEPT ![r.donor].total = @ - r.amount, ![r.donor].co2 = @ - r.co2]
      /\ given' = [given EXCEPT ![r.project][r.donor] = @ - r.amount]
      /\ global' = [raised |-> global.raised - r.amount, co2 |-> global.co2 - r.co2]
  BY DEF Reverses
<1>6. /\ raised \in [Projects -> Int] /\ stats \in [Accounts -> R]
      /\ given \in [Projects -> [Accounts -> Int]] /\ global \in [raised : Int, co2 : Int]
  BY <1>1 DEF LedgerTyped
<1> HIDE DEF r
<1>7. raised' \in [Projects -> Int] /\ \A q \in Projects : raised'[q] <= raised[q]
  BY <1>4, <1>5, <1>6
<1>8. given' \in [Projects -> [Accounts -> Int]]
  <2>1. given[r.project] \in [Accounts -> Int] /\ given[r.project][r.donor] - r.amount \in Int
    BY <1>4, <1>6
  <2>2. [given[r.project] EXCEPT ![r.donor] = @ - r.amount] \in [Accounts -> Int]
    BY <2>1
  <2> QED BY <1>5, <1>6, <2>2
<1>9. global' \in [raised : Int, co2 : Int]
  <2>1. global.raised - r.amount \in Int /\ global.co2 - r.co2 \in Int
    BY <1>4, <1>6
  <2> QED BY <1>5, <2>1
<1>10. stats' \in [Accounts -> R]
  <2> DEFINE x == r.donor
             a == [stats[x] EXCEPT !.total = @ - r.amount]
             b == [a EXCEPT !.co2 = @ - r.co2]
  <2>1. x \in Accounts /\ stats[x] \in R
    BY <1>4, <1>6
  <2>2. stats[x].total - r.amount \in Int /\ stats[x].co2 - r.co2 \in Int
    BY <1>4, <2>1
  <2>3. a \in R /\ a.co2 = stats[x].co2
    BY <2>1, <2>2
  <2>4. stats' = [stats EXCEPT ![x] = b]
    BY <1>4, <1>5, <1>6
  <2> HIDE DEF a
  <2>5. b \in R
    BY <2>2, <2>3
  <2> HIDE DEF b, R, x
  <2> QED BY <1>6, <2>1, <2>4, <2>5
<1>11. LedgerTyped'
  BY <1>1, <1>2, <1>7, <1>8, <1>9, <1>10 DEF LedgerTyped
<1>12. now' \in Nat /\ now' >= now
  BY <1>1, CountsMade
<1>13. CampaignsKept'
  <2>1. ASSUME NEW q \in Projects, campaign[q].status = "Active", raised'[q] >= campaign[q].goal
        PROVE  \E j \in DonatedTo(q)' : donations'[j].path = "stealth"
    <3>1. campaign[q].goal \in Goals \cup {0}
      BY <1>1 DEF CampaignsKept
    <3>2. campaign[q].goal \in Int /\ raised[q] \in Int /\ raised'[q] \in Int
      BY <1>6, <1>7, <3>1, GoalTyped
    <3>3. raised[q] >= campaign[q].goal
      BY <1>7, <2>1, <3>2
    <3> QED BY <1>1, <1>2, <2>1, <3>3 DEF CampaignsKept, GoalCloses, DonatedTo
  <2> QED BY <1>1, <2>1 DEF CampaignsKept, GoalCloses
<1>14. \A e \in Donors, q \in Projects, b \in Currencies : Limited(e, q, b)' = Limited(e, q, b)
  BY <1>2 DEF Limited
<1>15. \A j \in Made : donations'[j] = donations[j]
  OBVIOUS
<1>16. WindowsKept'
  BY <1>1, <1>12, <1>14, <1>15, WindowsRest
<1>17. PlansKept'
  BY <1>1, <1>12, PlansRest
<1>18. BooksAgree'
  <2>1. \A j \in Made : Reversed(j)' <=> (Reversed(j) \/ j = i)
    OBVIOUS
  <2> QED BY <2>1, ReversesBooks
<1> QED BY <1>11, <1>13, <1>16, <1>17, <1>18 DEF DonInv

LEMMA DisputeTyped ==
  ASSUME DonInv, NEW i \in Made
  PROVE  /\ refund[i] \in [status : Statuses, effective : 0 .. LastLedger + Timelock]
         /\ refund[i].effective > 0 => refund[i].status = "pending"
         /\ now \in 1 .. LastLedger /\ setUps \in 0 .. SetUps
         /\ LastLedger \in Nat /\ Timelock \in Nat
<1>1. i \in Indices
  BY CountsMade DEF DonInv
<1> QED BY <1>1, DonationAssumption DEF DonInv, DisputesKept, LedgerTyped, FirstLedger

\* A refund that is requested or decided against, or its forced execution set or cancelled.
LEMMA RefundQuiet ==
  ASSUME DonInv, NEW i \in Made, NEW r, r \in [status : Statuses, effective : 0 .. LastLedger + Timelock],
         refund' = [refund EXCEPT ![i] = r], r.effective > 0 => r.status = "pending",
         ~RefundApproved(i), r.status # "approved",
         UNCHANGED <<now, co2Rate, campaign, totals, donations, challenge, disputeFloor, final,
                     window, plan, setUps>>
  PROVE  DonInv'
<1>1. /\ DisputesKept'
      /\ \A j : Reversed(j)' => Reversed(j) \/ j = i
      /\ \A j : Reversed(j) => Reversed(j)' \/ j = i
      /\ Reversed(i)' <=> r.status = "approved" \/ ChallengeReversed(i)
  BY RefundMoves
<1>2. \A j \in Made : Reversed(j)' <=> Reversed(j)
  BY <1>1 DEF Reversed
<1>3. setUps' \in 0 .. SetUps
  BY DisputeTyped
<1> QED BY <1>1, <1>2, <1>3, QuietKeeps

LEMMA RefundQuietKeeps ==
  ASSUME DonInv, NEW i \in Made,
         RequestRefund(i) \/ RejectRefund(i) \/ ForceApproveRefund(i) \/ CancelForceRefund(i)
  PROVE  DonInv'
<1> DEFINE R == [status : Statuses, effective : 0 .. LastLedger + Timelock]
<1>1. /\ refund[i] \in R /\ (refund[i].effective > 0 => refund[i].status = "pending")
      /\ now \in 1 .. LastLedger /\ LastLedger \in Nat /\ Timelock \in Nat
  BY DisputeTyped
<1>2. CASE RequestRefund(i)
  <2> DEFINE r == [refund[i] EXCEPT !.status = "pending"]
  <2>1. refund' = [refund EXCEPT ![i] = r] /\ ~RefundApproved(i)
        /\ UNCHANGED <<now, co2Rate, campaign, totals, donations, challenge, disputeFloor, final,
                       window, plan, setUps>>
    BY <1>2 DEF RequestRefund, RefundApproved
  <2>2. r \in R /\ r.status = "pending"
    BY <1>1 DEF Statuses
  <2> HIDE DEF r
  <2> QED BY <2>1, <2>2, RefundQuiet
<1>3. CASE RejectRefund(i)
  <2> DEFINE r == [refund[i] EXCEPT !.status = "rejected"]
  <2>1. refund' = [refund EXCEPT ![i] = r] /\ ~RefundApproved(i) /\ refund[i].effective = 0
        /\ UNCHANGED <<now, co2Rate, campaign, totals, donations, challenge, disputeFloor, final,
                       window, plan, setUps>>
    BY <1>3 DEF RejectRefund, RefundApproved
  <2>2. r \in R /\ r.status = "rejected" /\ r.effective = 0
    BY <1>1, <2>1 DEF Statuses
  <2> HIDE DEF r
  <2>3. (r.effective > 0 => r.status = "pending") /\ r.status # "approved"
    BY <2>2
  <2> QED BY <2>1, <2>2, <2>3, RefundQuiet
<1>4. CASE ForceApproveRefund(i)
  <2> DEFINE r == [refund[i] EXCEPT !.effective = now + Timelock]
  <2>1. refund' = [refund EXCEPT ![i] = r] /\ refund[i].status = "pending" /\ ~RefundApproved(i)
        /\ UNCHANGED <<now, co2Rate, campaign, totals, donations, challenge, disputeFloor, final,
                       window, plan, setUps>>
    BY <1>4 DEF ForceApproveRefund, RefundApproved
  <2>2. now + Timelock \in 0 .. LastLedger + Timelock
    BY <1>1
  <2>3. r \in R /\ r.status = "pending"
    BY <1>1, <2>1, <2>2
  <2> HIDE DEF r
  <2> QED BY <2>1, <2>3, RefundQuiet
<1>5. CASE CancelForceRefund(i)
  <2> DEFINE r == [refund[i] EXCEPT !.effective = 0]
  <2>1. refund' = [refund EXCEPT ![i] = r] /\ refund[i].effective > now
        /\ UNCHANGED <<now, co2Rate, campaign, totals, donations, challenge, disputeFloor, final,
                       window, plan, setUps>>
    BY <1>5 DEF CancelForceRefund
  <2>2. 0 \in 0 .. LastLedger + Timelock /\ refund[i].effective > 0
    BY <1>1, <2>1
  <2>3. r \in R /\ r.status = "pending" /\ r.effective = 0 /\ ~RefundApproved(i)
    BY <1>1, <2>2 DEF RefundApproved
  <2> HIDE DEF r
  <2> QED BY <2>1, <2>3, RefundQuiet
<1> QED BY <1>2, <1>3, <1>4, <1>5

\* A refund that is paid, by decision or by force.
LEMMA RefundsKeeps ==
  ASSUME DonInv, NEW i \in Made, refund[i].status = "pending", Refunds(i)
  PROVE  DonInv'
<1> DEFINE R == [status : Statuses, effective : 0 .. LastLedger + Timelock]
           r == [status |-> "approved", effective |-> 0]
<1>1. /\ ~ChallengeReversed(i) /\ Reverses(i) /\ refund' = [refund EXCEPT ![i] = r]
      /\ UNCHANGED <<now, co2Rate, campaign, donations, challenge, disputeFloor, final, window, plan, setUps>>
  BY DEF Refunds
<1>2. ~Reversed(i)
  BY <1>1 DEF Reversed, RefundApproved
<1>3. r \in R /\ r.status = "approved" /\ r.effective = 0
  <2>1. 0 \in 0 .. LastLedger + Timelock
    BY DonationAssumption
  <2> QED BY <2>1 DEF Statuses
<1> HIDE DEF r
<1>4. /\ DisputesKept'
      /\ \A j : Reversed(j)' => Reversed(j) \/ j = i
      /\ \A j : Reversed(j) => Reversed(j)' \/ j = i
      /\ Reversed(i)' <=> r.status = "approved" \/ ChallengeReversed(i)
  <2>1. r.effective > 0 => r.status = "pending"
    BY <1>3
  <2>2. r.status = "approved" => ~ChallengeReversed(i)
    BY <1>1
  <2>3. UNCHANGED <<now, donations, challenge, disputeFloor, final>> /\ refund' = [refund EXCEPT ![i] = r]
    BY <1>1
  <2> QED BY <1>3, <2>1, <2>2, <2>3, RefundMoves
<1>5. \A j : Reversed(j)' <=> (Reversed(j) \/ j = i)
  BY <1>3, <1>4
<1> QED BY <1>1, <1>2, <1>4, <1>5, ReversalKeeps

LEMMA ChallengeKeeps ==
  ASSUME DonInv, NEW i \in Made,
         (\E d \in Donors : ChallengeDonation(d, i)) \/ ApproveChallenged(i) \/ RejectChallenged(i)
  PROVE  DonInv'
<1>1. setUps \in 0 .. SetUps
  BY DisputeTyped
<1>2. CASE (\E d \in Donors : ChallengeDonation(d, i)) \/ ApproveChallenged(i)
  <2>1. PICK v \in {"open", "approved"} : challenge' = [challenge EXCEPT ![i] = v]
    BY <1>2 DEF ChallengeDonation, ApproveChallenged
  <2>2. ~ChallengeReversed(i)
        /\ UNCHANGED <<now, co2Rate, campaign, totals, donations, refund, disputeFloor, final,
                       window, plan, setUps>>
    BY <1>2 DEF ChallengeDonation, ApproveChallenged, ChallengeReversed
  <2>3. v \in {"open", "approved", "rejected"} /\ v # "rejected"
    BY <2>1
  <2>4. /\ DisputesKept'
        /\ \A j : Reversed(j)' => Reversed(j) \/ j = i
        /\ \A j : Reversed(j) => Reversed(j)' \/ j = i
        /\ Reversed(i)' <=> v = "rejected" \/ RefundApproved(i)
    BY <2>1, <2>2, <2>3, ChallengeMoves
  <2>5. \A j \in Made : Reversed(j)' <=> Reversed(j)
    BY <2>2, <2>3, <2>4 DEF Reversed
  <2> QED BY <1>1, <2>2, <2>4, <2>5, QuietKeeps
<1>3. CASE RejectChallenged(i)
  <2>1. /\ challenge[i] = "open" /\ ~RefundApproved(i) /\ Reverses(i)
        /\ challenge' = [challenge EXCEPT ![i] = "rejected"]
        /\ UNCHANGED <<now, co2Rate, campaign, donations, refund, disputeFloor, final, window, plan, setUps>>
    BY <1>3 DEF RejectChallenged
  <2>2. ~Reversed(i) /\ "rejected" \in {"open", "approved", "rejected"}
    BY <2>1 DEF Reversed, ChallengeReversed
  <2>4. /\ DisputesKept'
        /\ \A j : Reversed(j)' => Reversed(j) \/ j = i
        /\ \A j : Reversed(j) => Reversed(j)' \/ j = i
        /\ Reversed(i)' <=> "rejected" = "rejected" \/ RefundApproved(i)
    BY <2>1, <2>2, ChallengeMoves
  <2>5. \A j : Reversed(j)' <=> (Reversed(j) \/ j = i)
    BY <2>4
  <2> QED BY <2>1, <2>2, <2>4, <2>5, ReversalKeeps
<1> QED BY <1>2, <1>3

LEMMA FinalKeeps ==
  ASSUME DonInv, NEW i \in Made, AutoFinalize(i)
  PROVE  DonInv'
<1>1. /\ IsDonationFinalized(i) /\ final' = final \cup {i}
      /\ UNCHANGED <<now, co2Rate, campaign, totals, donations, refund, challenge, disputeFloor,
                     window, plan, setUps>>
  BY DEF AutoFinalize
<1>2. DisputesKept /\ setUps \in 0 .. SetUps
  BY DisputeTyped DEF DonInv
<1>3. Made' = Made
  BY <1>1 DEF Made
<1>4. \A j \in final' :
        j \in Made /\ (challenge[j] = "none" => ~Challengeable(j) \/ WindowOver(j))
  BY <1>1, <1>2 DEF DisputesKept, IsDonationFinalized
<1>5. \A j \in final' :
        j \in Made' /\ (challenge'[j] = "none" => ~Challengeable(j)' \/ WindowOver(j)')
  BY <1>1, <1>3, <1>4 DEF Challengeable, WindowOver
<1>6. DisputesKept'
  BY <1>1, <1>2, <1>3, <1>5 DEF DisputesKept, ReversedOnce, RefundApproved, ChallengeReversed
<1>7. \A j \in Made : Reversed(j)' <=> Reversed(j)
  BY <1>1 DEF Reversed, RefundApproved, ChallengeReversed
<1> QED BY <1>1, <1>2, <1>6, <1>7, QuietKeeps

LEMMA ThresholdKeeps ==
  ASSUME DonInv, NEW t \in Thresholds, SetChallengeThreshold(t)
  PROVE  DonInv'
<1>1. /\ SetsUp /\ disputeFloor' = t /\ final' = {}
      /\ UNCHANGED <<now, co2Rate, campaign, totals, donations, refund, challenge, window, plan>>
  BY DEF SetChallengeThreshold
<1>2. DisputesKept /\ setUps' \in 0 .. SetUps
  BY <1>1, SetsUpTyped DEF DonInv
<1>3. Made' = Made
  BY <1>1 DEF Made
<1>6. DisputesKept'
  BY <1>1, <1>2, <1>3 DEF DisputesKept, ReversedOnce, RefundApproved, ChallengeReversed
<1>7. \A j \in Made : Reversed(j)' <=> Reversed(j)
  BY <1>1 DEF Reversed, RefundApproved, ChallengeReversed
<1> QED BY <1>1, <1>2, <1>6, <1>7, QuietKeeps

\* The parts of the contract share the clock: the donations rest, whoever moves it.
LEMMA DonationsRest ==
  ASSUME DonInv, now' \in FirstLedger .. LastLedger, now' >= now, UNCHANGED <<co2Rate, campaign, totals, donations, disputes, window, plan, setUps>>
  PROVE  DonInv'
<1>1. LedgerTyped /\ CampaignsKept /\ DisputesKept /\ WindowsKept /\ PlansKept
  BY DEF DonInv
<1>2. UNCHANGED <<co2Rate, campaign, raised, stats, given, global, donations, refund, challenge, window, plan, setUps>>
  BY DEF totals, disputes
<1>3. Made' = Made
  BY <1>2 DEF Made
<1>4. now \in Nat /\ now' \in Nat /\ Made \subseteq Indices /\ \A i \in Made : donations[i] \in Record
  BY <1>1, CountsMade DEF FirstLedger
<1>5. \A i \in Made : donations'[i] = donations[i] /\ donations[i].ledger \in Nat
  BY <1>2, <1>4 DEF Record
<1>6. \A i \in Made : donations[i].ledger <= now'
  BY <1>1, <1>4, <1>5 DEF LedgerTyped
<1>7. LedgerTyped'
  BY <1>1, <1>2, <1>3, <1>6 DEF LedgerTyped
<1>8. CampaignsKept'
  BY <1>1, <1>2, CampaignsRest
<1>9. Made \subseteq Made' /\ Made' \subseteq Indices
  BY <1>3, <1>4
<1>10. DisputesKept'
  BY <1>1, <1>4, <1>5, <1>9, DisputesRest
<1>11. \A e \in Donors, q \in Projects, b \in Currencies : Limited(e, q, b)' = Limited(e, q, b)
  BY <1>2, <1>3 DEF Limited
<1>12. WindowsKept'
  BY <1>1, <1>2, <1>4, <1>5, <1>11, WindowsRest
<1>13. PlansKept'
  BY <1>1, <1>2, <1>4, PlansRest
<1>14. \A i \in Made : Reversed(i)' <=> Reversed(i)
  BY <1>2 DEF Reversed, RefundApproved, ChallengeReversed
<1>15. BooksAgree'
  BY <1>2, <1>14, BooksRest
<1> QED BY <1>7, <1>8, <1>10, <1>12, <1>13, <1>15 DEF DonInv

LEMMA DonInvStep == DonInv /\ [DonNext]_donVars => DonInv'
<1> SUFFICES ASSUME DonInv, [DonNext]_donVars PROVE DonInv'
  OBVIOUS
<1>0. now \in FirstLedger .. LastLedger /\ now \in Nat /\ LastLedger \in Nat
  BY CountsMade, DonationAssumption DEF DonInv, LedgerTyped
<1>1. CASE UNCHANGED donVars
  <2>1. UNCHANGED <<co2Rate, campaign, totals, donations, disputes, window, plan, setUps>> /\ now' = now
    BY <1>1 DEF donVars
  <2> QED BY <1>0, <2>1, DonationsRest
<1>2. CASE LedgerCloses
  <2>1. UNCHANGED <<co2Rate, campaign, totals, donations, disputes, window, plan, setUps>>
    BY <1>2 DEF LedgerCloses
  <2>2. now' \in FirstLedger .. LastLedger /\ now' >= now
    BY <1>0, <1>2 DEF LedgerCloses, Closes, FirstLedger
  <2> QED BY <2>1, <2>2, DonationsRest
<1>3. CASE \E o \in Offers : Donate(o) \/ DonateAttested(o) \/ DonateStealth(o)
  BY <1>3, DonateKeeps, AttestedKeeps, StealthKeeps
<1>4. CASE \E d \in Planners : CreateRecurring(d) \/ CancelRecurring(d) \/ ExecuteRecurring(d)
  BY <1>4, CreateRecurringKeeps, CancelRecurringKeeps, RecurringKeeps
<1>5. CASE \E p \in Projects :
             \/ \E g \in Goals, l \in now + 1 .. LastLedger : CreateCampaign(p, g, l)
             \/ \E l \in now + 1 .. LastLedger : ExtendCampaign(p, l)
             \/ CloseCampaign(p)
             \/ \E r \in Rates : UpdateProjectCo2Rate(p, r)
  BY <1>5, CreateCampaignKeeps, ExtendCampaignKeeps, CloseCampaignKeeps, RateKeeps
<1>6. CASE \E i \in Made :
             \/ RequestRefund(i) \/ ApproveRefund(i) \/ RejectRefund(i)
             \/ ForceApproveRefund(i) \/ CancelForceRefund(i) \/ ExecuteForceRefund(i)
             \/ \E d \in Donors : ChallengeDonation(d, i)
             \/ ApproveChallenged(i) \/ RejectChallenged(i) \/ AutoFinalize(i)
  <2> PICK i \in Made :
             \/ RequestRefund(i) \/ ApproveRefund(i) \/ RejectRefund(i)
             \/ ForceApproveRefund(i) \/ CancelForceRefund(i) \/ ExecuteForceRefund(i)
             \/ \E d \in Donors : ChallengeDonation(d, i)
             \/ ApproveChallenged(i) \/ RejectChallenged(i) \/ AutoFinalize(i)
    BY <1>6
  <2>1. CASE RequestRefund(i) \/ RejectRefund(i) \/ ForceApproveRefund(i) \/ CancelForceRefund(i)
    BY <2>1, RefundQuietKeeps
  <2>2. CASE ApproveRefund(i) \/ ExecuteForceRefund(i)
    <3>1. refund[i].status = "pending" /\ Refunds(i)
      BY <2>2 DEF ApproveRefund, ExecuteForceRefund
    <3> QED BY <3>1, RefundsKeeps
  <2>3. CASE (\E d \in Donors : ChallengeDonation(d, i)) \/ ApproveChallenged(i) \/ RejectChallenged(i)
    BY <2>3, ChallengeKeeps
  <2>4. CASE AutoFinalize(i)
    BY <2>4, FinalKeeps
  <2> QED BY <2>1, <2>2, <2>3, <2>4
<1>7. CASE \E t \in Thresholds : SetChallengeThreshold(t)
  BY <1>7, ThresholdKeeps
<1> QED BY <1>1, <1>2, <1>3, <1>4, <1>5, <1>6, <1>7 DEF DonNext

LEMMA DonInvInit == DonInit => DonInv
<1> SUFFICES ASSUME DonInit PROVE DonInv
  OBVIOUS
<1>1. /\ IsFiniteSet(Tiers) /\ LastLedger \in Nat \ {0} /\ Timelock \in Nat /\ SetUps \in Nat
      /\ MaxDonations \in Nat /\ RateMax \in Nat /\ Interval \in Nat /\ RateWindow \in Nat \ {0}
  BY DonationAssumption
<1>2. donations = << >> /\ Made = {} /\ Len(donations) = 0
  <2>1. donations = << >>
    BY DEF DonInit
  <2>2. Len(donations) = 0
    BY <2>1
  <2>3. 1 .. 0 = {}
    OBVIOUS
  <2> QED BY <2>1, <2>2, <2>3 DEF Made
<1>3. Cardinality(Tiers) \in Nat
  BY <1>1, FS_CardinalityType
<1>4. LedgerTyped
  <2>1. now \in FirstLedger .. LastLedger /\ setUps \in 0 .. SetUps
    BY <1>1 DEF DonInit, FirstLedger
  <2>2. raised \in [Projects -> Int] /\ co2Rate \in [Projects -> Rates]
    BY DEF DonInit
  <2>3. stats \in [Accounts -> [total : Int, co2 : Int, badge : 0 .. Cardinality(Tiers)]]
    BY <1>3 DEF DonInit
  <2>4. given \in [Projects -> [Accounts -> Int]] /\ global \in [raised : Int, co2 : Int]
    BY DEF DonInit
  <2>5. donations \in Seq(Record) /\ Len(donations) <= MaxDonations
    BY <1>1, <1>2
  <2> QED BY <1>2, <2>1, <2>2, <2>3, <2>4, <2>5 DEF LedgerTyped
<1>5. CampaignsKept
  <2>1. campaign = [p \in Projects |-> NoCampaign] /\ 0 \in 0 .. LastLedger
    BY <1>1 DEF DonInit
  <2>2. NoCampaign \in [status : {"None", "Active", "GoalReached", "Closed", "Expired"},
                        goal : Goals \cup {0}, deadline : 0 .. LastLedger]
    BY <2>1 DEF NoCampaign
  <2>3. \A p \in Projects : campaign[p].status # "Active"
    BY <2>1 DEF NoCampaign
  <2> HIDE DEF NoCampaign
  <2>4. campaign \in [Projects -> [status : {"None", "Active", "GoalReached", "Closed", "Expired"},
                        goal : Goals \cup {0}, deadline : 0 .. LastLedger]]
    BY <2>1, <2>2
  <2> QED BY <2>3, <2>4 DEF CampaignsKept, GoalCloses
<1>6. DisputesKept
  <2>1. /\ refund = [i \in Indices |-> NoRefund] /\ challenge = [i \in Indices |-> "none"]
        /\ disputeFloor = 0 /\ final = {}
    BY DEF DonInit
  <2>2. 0 \in 0 .. LastLedger + Timelock
    BY <1>1
  <2>3. NoRefund \in [status : Statuses, effective : 0 .. LastLedger + Timelock] /\ ~(NoRefund.effective > 0)
    BY <2>2 DEF NoRefund, Statuses
  <2>4. refund \in [Indices -> [status : Statuses, effective : 0 .. LastLedger + Timelock]]
        /\ \A i \in Indices : ~(refund[i].effective > 0)
    BY <2>1, <2>3
  <2> QED BY <1>2, <2>1, <2>4 DEF DisputesKept, ReversedOnce
<1>7. WindowsKept
  <2> DEFINE z == [start |-> 0, count |-> 0]
             W == [start : Nat, count : 0 .. RateMax]
  <2>1. z \in W /\ z.start = 0 /\ z.count = 0
    BY <1>1
  <2>2. window = [d \in Donors |-> [p \in Projects |-> [c \in Currencies |-> z]]]
    BY DEF DonInit
  <2> HIDE DEF z, W
  <2>3. window \in [Donors -> [Projects -> [Currencies -> W]]]
    BY <2>1, <2>2
  <2>4. \A d \in Donors, p \in Projects, c \in Currencies : window[d][p][c] = z
    BY <2>2
  <2>5. \A d, p, c : Limited(d, p, c) = {}
    BY <1>2 DEF Limited
  <2>6. ASSUME NEW d \in Donors, NEW p \in Projects, NEW c \in Currencies
        PROVE  LET w == window[d][p][c]
               IN  /\ w.start <= now
                   /\ w.count = 0 => Limited(d, p, c) = {}
                   /\ Cardinality({i \in Limited(d, p, c) : donations[i].ledger >= w.start}) <= w.count
                   /\ \A i \in Limited(d, p, c) : donations[i].ledger < w.start + RateWindow
    <3>1. window[d][p][c] = z /\ Limited(d, p, c) = {}
      BY <2>4, <2>5
    <3>2. {i \in {} : donations[i].ledger >= z.start} = {} /\ Cardinality({}) = 0
      BY FS_EmptySet
    <3>3. now = 1
      BY DEF DonInit, FirstLedger
    <3>4. Cardinality({i \in {} : donations[i].ledger >= z.start}) = 0
      BY <3>2
    <3> QED BY <2>1, <3>1, <3>3, <3>4
  <2> QED BY <2>3, <2>6 DEF WindowsKept, W
<1>8. PlansKept
  <2>1. plan = [d \in Donors |-> NoPlan]
    BY DEF DonInit
  <2>2. NoPlan \in [state : {"none", "active", "cancelled"}, next : Nat, since : Nat, runs : Nat]
        /\ NoPlan.state = "none"
    BY DEF NoPlan
  <2> QED BY <2>1, <2>2 DEF PlansKept
<1>9. BooksAgree
  <2>1. Worth({}) = 0 /\ Co2Of({}) = 0
    BY SumEmpty DEF Worth, Co2Of
  <2>2. \A p : DonatedTo(p) = {}
    BY <1>2 DEF DonatedTo
  <2>3. \A x : RecordedFor(x) = {}
    BY <1>2 DEF RecordedFor
  <2>4. global = [raised |-> 0, co2 |-> 0] /\ \A p \in Projects : raised[p] = 0
    BY DEF DonInit
  <2>5. \A x \in Accounts : stats[x].total = 0 /\ stats[x].co2 = 0
    BY DEF DonInit
  <2> QED BY <1>2, <2>1, <2>2, <2>3, <2>4, <2>5 DEF BooksAgree
<1> QED BY <1>4, <1>5, <1>6, <1>7, <1>8, <1>9 DEF DonInv

\* What the invariant says of the donations.
LEMMA DonationsHold == DonInv => DonationsSettle
<1> SUFFICES ASSUME DonInv PROVE DonationsSettle
  OBVIOUS
<1>1. LedgerTyped /\ CampaignsKept /\ DisputesKept /\ WindowsKept /\ PlansKept /\ BooksAgree
  BY DEF DonInv
<1>2. Made \subseteq Indices /\ IsFiniteSet(Made) /\ now \in Nat /\ \A i \in Made : donations[i] \in Record
  BY <1>1, CountsMade
<1>3. DonTypeOK
  <2>1. ASSUME NEW i \in Indices
        PROVE  /\ refund[i].status \in {"none", "pending", "approved", "rejected"}
               /\ refund[i].effective \in 0 .. LastLedger + Timelock
               /\ refund[i].effective > 0 => refund[i].status = "pending"
    BY <1>1 DEF DisputesKept, Statuses
  <2>2. ASSUME NEW d \in Donors, NEW p \in Projects, NEW c \in Currencies
        PROVE  window[d][p][c].start \in 0 .. now /\ window[d][p][c].count \in 0 .. RateMax
    <3> DEFINE w == window[d][p][c]
    <3>3. window \in [Donors -> [Projects -> [Currencies -> [start : Nat, count : 0 .. RateMax]]]]
      BY <1>1 DEF WindowsKept
    <3>4. w.start <= now
      BY <1>1 DEF WindowsKept
    <3>5. w \in [start : Nat, count : 0 .. RateMax]
      BY <3>3
    <3> HIDE DEF w
    <3>1. w.start <= now /\ w.start \in Nat /\ w.count \in 0 .. RateMax
      BY <3>4, <3>5
    <3>2. w.start \in 0 .. now
      BY <1>2, <3>1
    <3> QED BY <3>1, <3>2 DEF w
  <2>3. \A d \in Donors : plan[d].state \in {"none", "active", "cancelled"}
    BY <1>1 DEF PlansKept
  <2>4. final \subseteq Indices
    BY <1>1, <1>2 DEF DisputesKept
  <2> QED BY <1>1, <2>1, <2>2, <2>3, <2>4 DEF DonTypeOK, LedgerTyped, CampaignsKept, DisputesKept
<1>4. PlanPaced
  <2>1. ASSUME NEW d \in Donors, plan[d].state # "none"
        PROVE  plan[d].runs * Interval <= now - plan[d].since
    <3> DEFINE x == plan[d].runs * Interval
    <3>1. plan[d].since + x <= now
      BY <1>1, <2>1 DEF PlansKept
    <3>2. plan[d].since \in Nat /\ plan[d].runs \in Nat
      BY <1>1 DEF PlansKept
    <3>3. x \in Nat
      BY <3>2, ProductNatural, DonationAssumption
    <3> HIDE DEF x
    <3>4. x <= now - plan[d].since
      BY <1>2, <3>1, <3>2, <3>3
    <3> QED BY <3>4 DEF x
  <2> QED BY <2>1 DEF PlanPaced
<1>5. WindowHolds
  <2>1. ASSUME NEW d \in Donors, NEW p \in Projects, NEW c \in Currencies
        PROVE  LET w == window[d][p][c]
               IN  Cardinality({i \in DonatedTo(p) :
                     /\ donations[i].giver = d /\ donations[i].path = "donate"
                     /\ donations[i].currency = c
                     /\ donations[i].ledger \in w.start .. w.start + RateWindow - 1}) <= RateMax
    <3> DEFINE w == window[d][p][c]
               A == {i \in DonatedTo(p) :
                     /\ donations[i].giver = d /\ donations[i].path = "donate"
                     /\ donations[i].currency = c
                     /\ donations[i].ledger \in w.start .. w.start + RateWindow - 1}
               B == {i \in Limited(d, p, c) : donations[i].ledger >= w.start}
    <3>1. w.start \in Nat /\ w.count \in 0 .. RateMax /\ Cardinality(B) <= w.count
      BY <1>1 DEF WindowsKept
    <3>2. B \subseteq Made
      BY DEF Limited
    <3>3. A \subseteq B
      BY <3>1, DonationAssumption DEF DonatedTo, Limited
    <3> HIDE DEF A, B, w
    <3>4. IsFiniteSet(B)
      BY <1>2, <3>2, FS_Subset
    <3>5. IsFiniteSet(A) /\ Cardinality(A) <= Cardinality(B)
      BY <3>3, <3>4, FS_Subset
    <3>6. Cardinality(A) \in Nat /\ Cardinality(B) \in Nat /\ RateMax \in Nat
      BY <3>4, <3>5, FS_CardinalityType, DonationAssumption
    <3>7. Cardinality(A) <= RateMax
      BY <3>1, <3>5, <3>6
    <3> QED BY <3>7 DEF A, w
  <2> QED BY <2>1 DEF WindowHolds
<1> QED BY <1>1, <1>3, <1>4, <1>5 DEF DonationsSettle, CampaignsKept, DisputesKept

\* A donation that was announced final is not challenged.
LEMMA FinalKept ==
  ASSUME DonInv, [DonNext]_donVars, NEW i \in final, challenge[i] = "none"
  PROVE  challenge'[i] = "none"
<1>1. i \in Made /\ (~Challengeable(i) \/ WindowOver(i)) /\ i \in Indices
  <2>1. Made \subseteq Indices
    BY CountsMade DEF DonInv
  <2> QED BY <2>1 DEF DonInv, DisputesKept
<1>2. CASE challenge' = challenge
  BY <1>2
<1>3. ASSUME NEW j \in Made, \/ \E d \in Donors : ChallengeDonation(d, j)
                            \/ ApproveChallenged(j) \/ RejectChallenged(j)
      PROVE  challenge'[i] = "none"
  <2>1. j # i
    BY <1>1, <1>3 DEF ChallengeDonation, ApproveChallenged, RejectChallenged, InTime
  <2>2. PICK v : challenge' = [challenge EXCEPT ![j] = v]
    BY <1>3 DEF ChallengeDonation, ApproveChallenged, RejectChallenged
  <2>3. challenge \in [Indices -> {"none", "open", "approved", "rejected"}]
    BY DEF DonInv, DisputesKept
  <2> QED BY <1>1, <2>1, <2>2, <2>3
<1>4. challenge' = challenge \/ \E j \in Made : \/ \E d \in Donors : ChallengeDonation(d, j)
                                                \/ ApproveChallenged(j) \/ RejectChallenged(j)
  <2>1. CASE UNCHANGED disputes
    BY <2>1 DEF disputes
  <2>2. CASE UNCHANGED challenge
    BY <2>2
  <2>3. CASE \E j \in Made : \/ \E d \in Donors : ChallengeDonation(d, j)
                             \/ ApproveChallenged(j) \/ RejectChallenged(j)
    BY <2>3
  <2>4. CASE UNCHANGED donVars
    BY <2>1, <2>4 DEF donVars
  <2>5. CASE LedgerCloses
    BY <2>1, <2>5 DEF LedgerCloses
  <2>6. CASE \E o \in Offers : Donate(o) \/ DonateAttested(o) \/ DonateStealth(o)
    BY <2>1, <2>6 DEF Donate, DonateAttested, DonateStealth
  <2>7. CASE \E d \in Planners : CreateRecurring(d) \/ CancelRecurring(d) \/ ExecuteRecurring(d)
    BY <2>1, <2>7 DEF CreateRecurring, CancelRecurring, ExecuteRecurring
  <2>8. CASE \E p \in Projects :
               \/ \E g \in Goals, l \in now + 1 .. LastLedger : CreateCampaign(p, g, l)
               \/ \E l \in now + 1 .. LastLedger : ExtendCampaign(p, l)
               \/ CloseCampaign(p)
               \/ \E r \in Rates : UpdateProjectCo2Rate(p, r)
    BY <2>1, <2>8 DEF CreateCampaign, ExtendCampaign, CloseCampaign, UpdateProjectCo2Rate
  <2>9. CASE \E j \in Made :
               \/ RequestRefund(j) \/ ApproveRefund(j) \/ RejectRefund(j)
               \/ ForceApproveRefund(j) \/ CancelForceRefund(j) \/ ExecuteForceRefund(j)
               \/ AutoFinalize(j)
    BY <2>2, <2>9 DEF RequestRefund, ApproveRefund, RejectRefund, ForceApproveRefund,
         CancelForceRefund, ExecuteForceRefund, Refunds, AutoFinalize
  <2>10. CASE \E t \in Thresholds : SetChallengeThreshold(t)
    BY <2>2, <2>10 DEF SetChallengeThreshold
  <2> QED BY <2>3, <2>4, <2>5, <2>6, <2>7, <2>8, <2>9, <2>10 DEF DonNext
<1> QED BY <1>2, <1>3, <1>4

-------------------------------------------------------------------------------
(* The contract: the parts side by side.                                   *)

FamilyInv == DonInv /\ CusInv /\ GovInv /\ ControlInv /\ VerInv /\ ImpactInv

LEMMA FamilyInvInit == FamilyInit => FamilyInv
BY DonInvInit, CusInvInit, GovInvInit, ControlInvInit, VerInvInit, ImpactInvInit
   DEF FamilyInit, FamilyInv

\* Whichever part moves, the ledger stays or goes on.
LEMMA CustodyClock == [CusNext]_cusVars => now' = now \/ Closes
<1>1. \A p \in Causes, c \in Gifts :
        TakesDonation(p, c) \/ SpendsForceRefund(p, c) \/ InitiateWithdrawal(p, c) => now' = now
  BY DEF TakesDonation, SpendsForceRefund, InitiateWithdrawal, others
<1>2. \A p \in Causes :
        CreateCampaignWithEscrow(p) \/ FundCampaignEscrowJob(p) \/ CancelWithdrawal(p)
          \/ ExecuteWithdrawal(p) => now' = now
  BY DEF CreateCampaignWithEscrow, FundCampaignEscrowJob, CancelWithdrawal, ExecuteWithdrawal
<1>3. \A s \in Schedules, t \in VestedAmounts, c \in Counts : DonateVested(s, t, c) => now' = now
  BY DEF DonateVested, UnchangedButVesting
<1>4. \A s \in Schedules :
        ClaimVestedInstallment(s) \/ CancelVesting(s) \/ CleanupVestingSchedule(s) => now' = now
  BY DEF ClaimVestedInstallment, CancelVesting, CleanupVestingSchedule, UnchangedButVesting
<1> QED BY <1>1, <1>2, <1>3, <1>4 DEF CusNext, cusVars, CustodyCloses

LEMMA GovernanceClock == [GovNext]_govVars => now' = now \/ Closes
<1>1. \A v \in Voters : BadgeRises(v) \/ BadgeFalls(v) \/ RevokeDelegation(v) => now' = now
  BY DEF BadgeRises, BadgeFalls, RevokeDelegation
<1>2. \A v \in Voters, d \in Voters : DelegateVote(v, d) => now' = now
  BY DEF DelegateVote
<1>3. \A v \in Voters : \A allocs : VoteOnProposals(v, allocs) => now' = now
  BY DEF VoteOnProposals
<1>4. \A v \in Voters, p \in Topics, approve \in BOOLEAN : VoteVerifyProject(v, p, approve) => now' = now
  BY <1>3 DEF VoteVerifyProject
<1>5. \A p \in Topics :
        CreateProposal(p) \/ ResolveProposal(p) \/ VetoProposal(p) \/ CleanupProposal(p) => now' = now
  BY DEF CreateProposal, ResolveProposal, VetoProposal, CleanupProposal, Ends
<1> QED BY <1>1, <1>2, <1>3, <1>4, <1>5 DEF GovNext, govVars, GovernanceCloses

LEMMA ControlClock == [ControlNext]_ctlVars => now' = now \/ Closes
BY DEF ControlNext, ctlVars, ControlCloses, AcceptAdmin, CancelAdminTransfer, Upgrade, AddAdmin,
   RemoveAdmin, TransferAdmin, UpdateThreshold, PauseContract, SuspendToken

LEMMA DonationClock == [DonNext]_donVars => now' = now \/ Closes
BY DEF DonNext, donVars, LedgerCloses, Donate, DonateAttested, DonateStealth, CreateRecurring,
   CancelRecurring, ExecuteRecurring, CreateCampaign, ExtendCampaign, CloseCampaign,
   UpdateProjectCo2Rate, RequestRefund, ApproveRefund, RejectRefund, ForceApproveRefund,
   CancelForceRefund, ExecuteForceRefund, Refunds, ChallengeDonation, ApproveChallenged,
   RejectChallenged, AutoFinalize, SetChallengeThreshold

\* The parts that do not move rest.
LEMMA PartsRest ==
  ASSUME FamilyInv, now' = now \/ Closes
  PROVE  /\ UNCHANGED donating => DonInv'
         /\ UNCHANGED custody => CusInv'
         /\ UNCHANGED governance => GovInv'
         /\ UNCHANGED control => ControlInv'
         /\ UNCHANGED verVars => VerInv'
         /\ UNCHANGED impactVars => ImpactInv'
<1>0. now \in FirstLedger .. LastLedger /\ now \in Nat /\ LastLedger \in Nat
  BY CountsMade, DonationAssumption DEF FamilyInv, DonInv, LedgerTyped
<1>1. now' \in FirstLedger .. LastLedger /\ now' \in Nat /\ now' >= now
  BY <1>0 DEF Closes, FirstLedger
<1>2. UNCHANGED donating => DonInv'
  BY <1>1, DonationsRest DEF FamilyInv, donating
<1>3. UNCHANGED custody => CusInv'
  BY <1>1, CustodyRests DEF FamilyInv, custody, CusInv, CusTyped
<1>4. UNCHANGED governance => GovInv'
  BY <1>1, GovernanceRests DEF FamilyInv, governance
<1>5. UNCHANGED control => ControlInv'
  BY <1>1 DEF FamilyInv, control, ControlInv, AuthorityHolds, ControlTypeOK, QuorumReachable
<1>6. UNCHANGED verVars => VerInv'
  BY VerInvStep DEF FamilyInv
<1>7. UNCHANGED impactVars => ImpactInv'
  BY ImpactInvStep DEF FamilyInv
<1> QED BY <1>2, <1>3, <1>4, <1>5, <1>6, <1>7

\* A step of the contract is a step of one part; for the others the clock moves at most.
LEMMA OnePartMoves ==
  ASSUME [FamilyNext]_familyVars
  PROVE  /\ now' = now \/ Closes
         /\ UNCHANGED donating \/ [DonNext]_donVars
         /\ UNCHANGED custody \/ [CusNext]_cusVars
         /\ UNCHANGED governance \/ [GovNext]_govVars
         /\ UNCHANGED control \/ [ControlNext]_ctlVars
         /\ UNCHANGED verVars \/ [VerificationNext]_verVars
         /\ UNCHANGED impactVars \/ [ImpactNext]_impactVars
<1>1. CASE UNCHANGED familyVars
  BY <1>1 DEF familyVars
<1>2. CASE FamilyNext
  BY <1>2, DonationClock, CustodyClock, GovernanceClock, ControlClock DEF FamilyNext
<1> QED BY <1>1, <1>2

LEMMA FamilyInvStep == FamilyInv /\ [FamilyNext]_familyVars => FamilyInv'
<1> SUFFICES ASSUME FamilyInv, [FamilyNext]_familyVars PROVE FamilyInv'
  OBVIOUS
<1>1. DonInv'
  BY OnePartMoves, PartsRest, DonInvStep DEF FamilyInv
<1>2. CusInv'
  BY OnePartMoves, PartsRest, CusInvStep DEF FamilyInv
<1>3. GovInv'
  BY OnePartMoves, PartsRest, GovInvStep DEF FamilyInv
<1>4. ControlInv'
  BY OnePartMoves, PartsRest, ControlInvStep DEF FamilyInv
<1>5. VerInv'
  BY OnePartMoves, PartsRest, VerInvStep DEF FamilyInv
<1>6. ImpactInv'
  BY OnePartMoves, PartsRest, ImpactInvStep DEF FamilyInv
<1> QED BY <1>1, <1>2, <1>3, <1>4, <1>5, <1>6 DEF FamilyInv

LEMMA FamilyKeeps == FamilySpec => []FamilyInv
BY FamilyInvInit, FamilyInvStep, PTL DEF FamilySpec

-------------------------------------------------------------------------------
(* The theorems about the whole contract.                                  *)

\* What the contract says of donations, campaigns, plans and limits is what was donated
\* and not taken back, whichever entry points, refunds and challenges made it so
\* (apply_donation_effects and its copies, reverse_donation_accounting).
THEOREM DonationsCorrect == FamilySpec => []DonationsSettle
<1>1. FamilyInv => DonationsSettle
  BY DonationsHold DEF FamilyInv
<1> QED BY FamilyKeeps, <1>1, PTL

\* The contract holds what it owes: fees and shares, project balances, escrows and the
\* installments of every schedule, to the last unit of each division.
THEOREM CustodyCorrect == FamilySpec => []CustodyExact
<1>1. FamilyInv => CustodyExact
  BY CustodyIsExact DEF FamilyInv
<1> QED BY FamilyKeeps, <1>1, PTL

\* Every delegation can be taken back, and the voters of a live proposal are those listed.
THEOREM GovernanceCorrect == FamilySpec => []GovernanceHolds
<1>1. FamilyInv => GovernanceHolds
  <2> SUFFICES ASSUME GovInv PROVE GovernanceHolds
    BY DEF FamilyInv
  <2>1. GovTyped /\ Revocable /\ VotersListed /\ (\A p \in Topics : poll[p].resolved <=> poll[p].at > 0)
    BY DEF GovInv
  <2>2. ASSUME NEW p \in Topics
        PROVE  /\ poll[p].for \in Nat /\ poll[p].against \in Nat /\ poll[p].deadline \in Nat
               /\ Range(voterList[p]) \subseteq Voters
    <3>1. poll[p] \in Poll /\ voterList[p] \in Seq(Voters)
      BY <2>1 DEF GovTyped
    <3>2. Range(voterList[p]) \subseteq Voters
      BY <3>1 DEF Range
    <3> QED BY <3>1, <3>2 DEF Poll
  <2>3. GovTypeOK
    BY <2>1, <2>2 DEF GovTyped, GovTypeOK
  <2> QED BY <2>1, <2>3 DEF GovernanceHolds
<1> QED BY FamilyKeeps, <1>1, PTL

\* There are always enough admins to sign a critical call of the contract, whatever
\* they add, remove, set, hand over and accept late.
THEOREM AuthorityCorrect == FamilySpec => []AuthorityHolds
<1>1. FamilyInv => AuthorityHolds
  BY DEF FamilyInv, ControlInv
<1> QED BY FamilyKeeps, <1>1, PTL

\* A project is verified by its attesters, and a rate that reports set has reports.
THEOREM TrustCorrect == FamilySpec => []TrustHolds
<1>1. FamilyInv => TrustHolds
  <2>1. VerInv => VerificationTypeOK /\ VerifiedVouched
    BY DEF VerInv, VerTyped, VerificationTypeOK
  <2>2. ImpactInv => ImpactTypeOK
    BY DEF ImpactInv, ImpTyped, ImpactTypeOK
  <2> QED BY <2>1, <2>2 DEF FamilyInv, TrustHolds
<1> QED BY FamilyKeeps, <1>1, PTL

\* A donation announced final is not challenged, a proposal that is over gets no vote,
\* and a project that was deactivated does not come back.
THEOREM DecisionsStand == FamilySpec => NothingReopens
<1>1. FamilyInv /\ [FamilyNext]_familyVars
        => [\A i \in final : challenge[i] = "none" => challenge'[i] = "none"]_donVars
  <2> SUFFICES ASSUME FamilyInv, [FamilyNext]_familyVars, NEW i \in final, challenge[i] = "none"
               PROVE  challenge'[i] = "none"
    OBVIOUS
  <2>1. CASE [DonNext]_donVars
    BY <2>1, FinalKept DEF FamilyInv
  <2>2. CASE UNCHANGED donating
    BY <2>2 DEF donating, disputes
  <2> QED BY <2>1, <2>2, OnePartMoves
<1>2. FamilyInv /\ [FamilyNext]_familyVars
        => [\A p \in Topics : poll[p].resolved => poll'[p] \in {poll[p], NoPoll}]_govVars
  <2> SUFFICES ASSUME FamilyInv, [FamilyNext]_familyVars, NEW p \in Topics, poll[p].resolved
               PROVE  poll'[p] \in {poll[p], NoPoll}
    OBVIOUS
  <2>1. CASE [GovNext]_govVars
    BY <2>1, GovInvStep DEF FamilyInv
  <2>2. CASE UNCHANGED governance
    BY <2>2 DEF governance
  <2> QED BY <2>1, <2>2, OnePartMoves
<1>3. FamilyInv /\ [FamilyNext]_familyVars
        => [\A p \in Plots : project[p].state = "inactive" => project'[p].state = "inactive"]_verVars
  <2> SUFFICES ASSUME FamilyInv, [FamilyNext]_familyVars, NEW p \in Plots, project[p].state = "inactive"
               PROVE  project'[p].state = "inactive"
    OBVIOUS
  <2>1. CASE [VerificationNext]_verVars
    BY <2>1, StaysInactive DEF FamilyInv
  <2>2. CASE UNCHANGED verVars
    BY <2>2 DEF verVars
  <2> QED BY <2>1, <2>2, OnePartMoves
<1>4. FamilySpec => FinalStands
  BY FamilyKeeps, <1>1, PTL DEF FamilySpec, FinalStands
<1>5. FamilySpec => ResolvedStands
  BY FamilyKeeps, <1>2, PTL DEF FamilySpec, ResolvedStands
<1>6. FamilySpec => InactiveForever
  BY FamilyKeeps, <1>3, PTL DEF FamilySpec, InactiveForever
<1> QED BY <1>4, <1>5, <1>6 DEF NothingReopens

\* Code is installed only when its proposal is a whole time lock old, and a rate that
\* reports set has the verifiers it needs and lies in the middle of what they said.
THEOREM ChangesAgreed == FamilySpec => ChangesVouched
<1>1. FamilyInv /\ [FamilyNext]_familyVars
        => [upgrade'.last # upgrade.last => now >= upgrade.since + Lock]_ctlVars
  <2> SUFFICES ASSUME FamilyInv, [FamilyNext]_familyVars, upgrade'.last # upgrade.last
               PROVE  now >= upgrade.since + Lock
    OBVIOUS
  <2>1. CASE [ControlNext]_ctlVars
    BY <2>1, InstalledLate DEF FamilyInv
  <2>2. CASE UNCHANGED control
    BY <2>2 DEF control
  <2> QED BY <2>1, <2>2, OnePartMoves
<1>2. FamilyInv /\ [FamilyNext]_familyVars
        => [rate' # rate /\ setter' = "reports" =>
              LET who   == Reported(impactReport')
                  below == {v \in who : impactReport'[v] <= rate'}
                  above == {v \in who : impactReport'[v] >= rate'}
              IN  /\ Cardinality(who) >= impactThreshold
                  /\ 2 * Cardinality(below) >= Cardinality(who)
                  /\ 2 * Cardinality(above) >= Cardinality(who)]_impactVars
  <2> SUFFICES ASSUME FamilyInv, [FamilyNext]_familyVars, rate' # rate, setter' = "reports"
               PROVE  /\ Cardinality(Reported(impactReport')) >= impactThreshold
                      /\ 2 * Cardinality({v \in Reported(impactReport') : impactReport'[v] <= rate'})
                           >= Cardinality(Reported(impactReport'))
                      /\ 2 * Cardinality({v \in Reported(impactReport') : impactReport'[v] >= rate'})
                           >= Cardinality(Reported(impactReport'))
    OBVIOUS
  <2>1. CASE [ImpactNext]_impactVars
    BY <2>1, RateFollows DEF FamilyInv
  <2>2. CASE UNCHANGED impactVars
    BY <2>2 DEF impactVars
  <2> QED BY <2>1, <2>2, OnePartMoves
<1>3. FamilySpec => UpgradeAnnounced
  BY FamilyKeeps, <1>1, PTL DEF FamilySpec, UpgradeAnnounced
<1>4. FamilySpec => RateVouched
  BY FamilyKeeps, <1>2, PTL DEF FamilySpec, RateVouched
<1> QED BY <1>3, <1>4 DEF ChangesVouched
===============================================================================
