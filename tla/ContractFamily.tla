---------------------------- MODULE ContractFamily ----------------------------
(***************************************************************************)
(* The parts of the donation contract side by side: donations and their    *)
(* disputes, custody, governance, control, verification, impact reports.   *)
(*                                                                         *)
(* They share the ledger clock and nothing else: no action of one reads or *)
(* writes a variable of another, and no property spans two.  A behaviour   *)
(* of all is therefore one of each, and it is enough to explore the steps  *)
(* of one at a time: focus says of which, for a whole behaviour.           *)
(***************************************************************************)
EXTENDS DonationContract, CampaignCustody, VoterGovernance, ContractControl, ProjectVerification,
        ImpactReports

VARIABLE focus

donating   == <<co2Rate, campaign, totals, donations, disputes, window, plan, setUps>>
custody    == <<held, balance, escrowed, job, withdrawal, vesting, gifts, offered, charged>>
governance == <<badge, delegate, delegated, credits, poll, voted, voterList, badgeMoves>>
control    == <<adminSet, threshold, pendingAdmin, contractPaused, suspended, upgrade>>

familyVars == <<focus, now, donating, custody, governance, control, verVars, impactVars>>

FamilyInit ==
  /\ focus \in {"donations", "custody", "governance", "control", "verification", "impact"}
  /\ DonInit /\ CusInit /\ GovInit /\ ControlInit /\ VerificationInit /\ ImpactInit
  /\ focus # "control" => adminSet = {CHOOSE a \in Persons : TRUE}
  /\ focus # "impact" => rate = 0

FamilyNext ==
  /\ UNCHANGED focus
  /\ \/ /\ focus = "donations" /\ DonNext
        /\ UNCHANGED <<custody, governance, control, verVars, impactVars>>
     \/ /\ focus = "custody" /\ CusNext
        /\ UNCHANGED <<donating, governance, control, verVars, impactVars>>
     \/ /\ focus = "governance" /\ GovNext
        /\ UNCHANGED <<donating, custody, control, verVars, impactVars>>
     \/ /\ focus = "control" /\ ControlNext
        /\ UNCHANGED <<donating, custody, governance, verVars, impactVars>>
     \/ /\ focus = "verification" /\ VerificationNext
        /\ UNCHANGED <<now, donating, custody, governance, control, impactVars>>
     \/ /\ focus = "impact" /\ ImpactNext
        /\ UNCHANGED <<now, donating, custody, governance, control, verVars>>

FamilySpec == FamilyInit /\ [][FamilyNext]_familyVars

-------------------------------------------------------------------------------
(* Properties that several parts state alike *)

\* The trust in a project and its rate: a status has its attestations, a rate its reports.
TrustHolds == VerificationTypeOK /\ VerifiedVouched /\ ImpactTypeOK

\* What is over stays over, whatever is called afterwards: a donation announced final is
\* not challenged, a proposal that was resolved or vetoed gets no vote, a project that was
\* deactivated does not come back.
NothingReopens == FinalStands /\ ResolvedStands /\ InactiveForever

\* What takes effect was agreed to before: code was announced for its time lock, a rate
\* that reports set has the verifiers and lies in the middle of what they said.
ChangesVouched == UpgradeAnnounced /\ RateVouched
===============================================================================
