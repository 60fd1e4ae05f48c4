----------------------------- MODULE OraclePrices -----------------------------
(***************************************************************************)
(* The prices of the oracle (contracts/oracle-contract/src/lib.rs): the    *)
(* ring of observations with its deviation breaker, for one token, and the *)
(* health of the sources that are aggregated.                              *)
(*                                                                         *)
(* A reporter that is not one or has too little staked (OracleStaking)     *)
(* makes no report.  The fallback price and the prices that calls return   *)
(* are left out: they change nothing.  Thresholds are constants.           *)
(***************************************************************************)
EXTENDS Integers, Sequences, FiniteSets, FiniteSetsExt, LedgerClock

CONSTANTS
  Prices,
  RingSize,                    \* MAX_OBSERVATIONS
  MaxReports,                  \* bound: accepted reports
  Staleness,                   \* StalenessThreshold
  MaxDeviation,                \* MaxPriceDeviationBps
  Feeds,                       \* the source oracles
  FailureThreshold             \* SourceFailureThreshold

ASSUME PricesAssumption == RingSize \in Nat \ {0, 1} /\ FailureThreshold \in Nat \ {0}

VARIABLES
  ring,          \* Observations, with
  ringNext,      \* ObservationIndex and
  ringCount,     \* ObservationCount
  window,        \* TwapWindow
  feeds,         \* SourceOracleList
  health,        \* SourceHealth
  reports,       \* history: the accepted reports in order, and
  misses         \* failures of a source since its last answer, to the threshold

priceVars == <<now, ring, ringNext, ringCount, window, feeds, health, reports, misses>>
feedVars  == <<feeds, health, misses>>

NoReport == [price |-> 0, ledger |-> 0]

-------------------------------------------------------------------------------
(* Observations.                                                           *)

LeastOf(a, b) == IF a < b THEN a ELSE b

\* current_price_raw: the first of the latest observations.
StartOffset == (ringNext + RingSize - LeastOf(window, ringCount)) % RingSize

Observed == [i \in 1 .. LeastOf(window, ringCount) |-> ring[(StartOffset + i - 1) % RingSize]]

Fresh == ringCount > 0 /\ now - ring[(ringNext + RingSize - 1) % RingSize].ledger <= Staleness

\* The time-weighted average: an observation weighs as long as it was the latest, at
\* least one ledger.
TwapPrice ==
  LET Until(i)  == IF i < Len(Observed) THEN Observed[i + 1].ledger ELSE now
      Weigh(i)  == IF Until(i) = Observed[i].ledger THEN 1 ELSE Until(i) - Observed[i].ledger
      Priced(i) == Observed[i].price * Weigh(i)
  IN  MapThenSumSet(Priced, DOMAIN Observed) \div MapThenSumSet(Weigh, DOMAIN Observed)

\* calculate_deviation_bps
Deviation(price) ==
  LET d == price - TwapPrice IN ((IF d < 0 THEN -d ELSE d) * 10000) \div TwapPrice

Counted == LeastOf(ringCount + 1, RingSize)

\* report_price; a price that deviates too far is turned down without an error.
ReportPrice(price) ==
  /\ Len(reports) < MaxReports
  /\ ringCount >= 2 /\ Fresh => Deviation(price) <= MaxDeviation
  /\ ring' = [ring EXCEPT ![ringNext] = [price |-> price, ledger |-> now]]
  /\ ringNext' = (ringNext + 1) % RingSize
  /\ ringCount' = Counted
  /\ reports' = Append(reports, [price |-> price, ledger |-> now])
  /\ UNCHANGED <<now, window, feedVars>>

SetTwapWindow(w) ==
  /\ w <= Staleness
  /\ window' = w
  /\ UNCHANGED <<now, ring, ringNext, ringCount, reports, feedVars>>

-------------------------------------------------------------------------------
(* Sources.                                                                *)

AddSourceOracle(f) ==
  /\ f \notin feeds /\ feeds' = feeds \cup {f}
  /\ UNCHANGED <<now, ring, ringNext, ringCount, window, reports, health, misses>>

RemoveSourceOracle(f) ==
  /\ f \in feeds /\ feeds' = feeds \ {f}
  /\ UNCHANGED <<now, ring, ringNext, ringCount, window, reports, health, misses>>

Recovers(f) == [failures |-> 0, healthy |-> TRUE]

\* Failures beyond the threshold tell nothing apart: the count is capped there.
Fails(f) ==
  LET n == LeastOf(health[f].failures + 1, FailureThreshold)
  IN  [failures |-> n, healthy |-> health[f].healthy /\ n < FailureThreshold]

\* get_aggregated_price asks every source, those that failed before too.
GetAggregatedPrice(answering) ==
  /\ feeds # {} /\ answering \subseteq feeds
  /\ health' = [f \in Feeds |-> IF f \in answering THEN Recovers(f)
                                ELSE IF f \in feeds THEN Fails(f) ELSE health[f]]
  /\ misses' = [f \in Feeds |-> IF f \in answering THEN 0
                                ELSE IF f \in feeds THEN LeastOf(misses[f] + 1, FailureThreshold)
                                ELSE misses[f]]
  /\ UNCHANGED <<now, ring, ringNext, ringCount, window, reports, feeds>>

-------------------------------------------------------------------------------
PricesInit ==
  /\ now = FirstLedger
  /\ ring = [i \in 0 .. RingSize - 1 |-> NoReport] /\ ringNext = 0 /\ ringCount = 0
  /\ window = 2 /\ reports = <<>>
  /\ feeds = {} /\ health = [f \in Feeds |-> [failures |-> 0, healthy |-> TRUE]]
  /\ misses = [f \in Feeds |-> 0]

PricesClose == Closes /\ UNCHANGED <<ring, ringNext, ringCount, window, reports, feedVars>>

PricesNext ==
  \/ PricesClose
  \/ \E price \in Prices : ReportPrice(price)
  \/ \E w \in 1 .. RingSize : SetTwapWindow(w)
  \/ \E f \in Feeds : AddSourceOracle(f) \/ RemoveSourceOracle(f)
  \/ \E answering \in SUBSET Feeds : GetAggregatedPrice(answering)

PricesSpec == PricesInit /\ [][PricesNext]_priceVars

-------------------------------------------------------------------------------
(* Properties                                                              *)

\* Every variable has its type; the ring is written up to its count.
PricesTypeOK ==
  /\ window \in 1 .. RingSize /\ ringNext \in 0 .. RingSize - 1
  /\ ringCount \in 0 .. RingSize
  /\ \A i \in 0 .. RingSize - 1 : i < ringCount => ring[i].price \in Prices
  /\ feeds \subseteq Feeds

\* The average is taken over the latest reports, for every window and every state of
\* the ring (current_price_raw, internal_price).
WindowIsLatest ==
  LET n == LeastOf(window, LeastOf(Len(reports), RingSize))
  IN  Observed = SubSeq(reports, Len(reports) - n + 1, Len(reports))

\* A source is unhealthy exactly after FailureThreshold failures without an answer in
\* between, whether or not it was a source all the time (get_aggregated_price).
HealthMatches == \A f \in Feeds : health[f].healthy <=> misses[f] < FailureThreshold
===============================================================================
