----------------------------- MODULE ImpactReports -----------------------------
(***************************************************************************)
(* The CO2 rate of one project of the donation contract                    *)
(* (contracts/indigopay-contract/src/lib.rs, feature impact_verification): *)
(* reports of impact verifiers, the deviation flag and the adjustment of   *)
(* the rate to the median.                                                 *)
(***************************************************************************)
EXTENDS Naturals, FiniteSets

CONSTANTS
  Auditors,           \* the addresses that may become impact verifiers
  CO2Rates            \* the rates that are reported

ASSUME ImpactAssumption == IsFiniteSet(Auditors) /\ CO2Rates \subseteq Nat \ {0}

VARIABLES
  impactVerifiers,    \* ImpactVerifier
  impactThreshold,    \* ImpactReportThreshold
  impactReport,       \* ImpactReportRecord: the rate, 0 for no report
  flagged,            \* ImpactFlagged
  rate,               \* co2_per_xlm
  setter              \* history: who set the rate last

impactVars == <<impactVerifiers, impactThreshold, impactReport, flagged, rate, setter>>

-------------------------------------------------------------------------------
\* add_impact_verifier and remove_impact_verifier; reports stay and count.
ManageImpactVerifiers ==
  /\ \E v \in Auditors : impactVerifiers' \in {impactVerifiers \cup {v}, impactVerifiers \ {v}}
  /\ UNCHANGED <<impactThreshold, impactReport, flagged, rate, setter>>

PositiveNumber(n) == n > 0

SetImpactReportThreshold(n) ==
  /\ PositiveNumber(n) /\ impactThreshold' = n
  /\ UNCHANGED <<impactVerifiers, impactReport, flagged, rate, setter>>

ClearImpactFlag ==
  /\ flagged' = FALSE
  /\ UNCHANGED <<impactVerifiers, impactThreshold, impactReport, rate, setter>>

\* update_project_co2_rate
UpdateProjectRate(r) ==
  /\ rate' = r /\ setter' = "admin"
  /\ UNCHANGED <<impactVerifiers, impactThreshold, impactReport, flagged>>

\* impact_deviates_50_percent
Deviates(r) ==
  IF rate = 0 THEN r > 0 ELSE (IF r > rate THEN r - rate ELSE rate - r) * 2 >= rate

Reported(reports) == {v \in Auditors : reports[v] > 0}

\* The k-th smallest rate of reports.
Ranked(reports, k) ==
  CHOOSE r \in CO2Rates :
    /\ Cardinality({v \in Reported(reports) : reports[v] < r}) < k
    /\ Cardinality({v \in Reported(reports) : reports[v] <= r}) >= k

\* median_u32, which rounds down between two.
Median(reports) ==
  LET n == Cardinality(Reported(reports))
  IN  IF n % 2 = 0 THEN (Ranked(reports, n \div 2) + Ranked(reports, n \div 2 + 1)) \div 2
      ELSE Ranked(reports, n \div 2 + 1)

\* submit_impact_report: the flag goes by the rate of before the adjustment.
SubmitImpactReport(v, r) ==
  LET reports == [impactReport EXCEPT ![v] = r]
      adjusts == Cardinality(Reported(reports)) >= impactThreshold
  IN  /\ v \in impactVerifiers
      /\ impactReport' = reports
      /\ flagged' = (flagged \/ Deviates(r))
      /\ rate' = IF adjusts THEN Median(reports) ELSE rate
      /\ setter' = IF adjusts THEN "reports" ELSE setter
      /\ UNCHANGED <<impactVerifiers, impactThreshold>>

-------------------------------------------------------------------------------
\* register_project takes a rate of 0.
ImpactInit ==
  /\ impactVerifiers = {} /\ impactThreshold = 3
  /\ impactReport = [v \in Auditors |-> 0] /\ flagged = FALSE
  /\ rate \in CO2Rates \cup {0} /\ setter = "admin"

ImpactNext ==
  \/ ManageImpactVerifiers \/ ClearImpactFlag
  \/ \E n \in 0 .. Cardinality(Auditors) : SetImpactReportThreshold(n)
  \/ \E r \in CO2Rates : UpdateProjectRate(r)
  \/ \E v \in Auditors, r \in CO2Rates : SubmitImpactReport(v, r)

ImpactSpec == ImpactInit /\ [][ImpactNext]_impactVars

-------------------------------------------------------------------------------
(* Properties                                                              *)

\* Every variable has its type; the reports, once made, are never withdrawn.
ImpactTypeOK ==
  /\ impactVerifiers \subseteq Auditors /\ impactThreshold \in Nat \ {0}
  /\ impactReport \in [Auditors -> CO2Rates \cup {0}]
  /\ flagged \in BOOLEAN /\ rate \in Nat /\ setter \in {"admin", "reports"}
  /\ setter = "reports" => Reported(impactReport) # {}

\* A rate that reports set comes from threshold verifiers, and half of their reports,
\* at least, lie on either side of it (median_u32, submit_impact_report).
RateVouched ==
  [][rate' # rate /\ setter' = "reports" =>
       LET who   == Reported(impactReport')
           below == {v \in who : impactReport'[v] <= rate'}
           above == {v \in who : impactReport'[v] >= rate'}
       IN  /\ Cardinality(who) >= impactThreshold
           /\ 2 * Cardinality(below) >= Cardinality(who)
           /\ 2 * Cardinality(above) >= Cardinality(who)]_impactVars
===============================================================================
