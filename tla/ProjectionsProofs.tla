--------------------------- MODULE ProjectionsProofs ---------------------------
(***************************************************************************)
(* Theorems about Projections for every number of events, donors, projects *)
(* and rebuilds: a table holds every projected event once and the counts   *)
(* of donors are those of the history, however donations, failures and     *)
(* rebuilds interleave.                                                    *)
(***************************************************************************)
EXTENDS Projections, SumTheorems

-------------------------------------------------------------------------------
(* Finite sets of events.                                                  *)

\* Sets of events and of their donors can be counted.
LEMMA EventSets ==
  \A S \in SUBSET Events :
    /\ IsFiniteSet(S) /\ Cardinality(S) \in Nat
    /\ IsFiniteSet(DonorsOf(S)) /\ Cardinality(DonorsOf(S)) \in Nat
<1> TAKE S \in SUBSET Events
<1>1. IsFiniteSet(Events)
  BY ProjectionAssumption, FS_Interval DEF Events
<1>2. IsFiniteSet(S)
  BY <1>1, FS_Subset
<1>3. IsFiniteSet(DonorsOf(S))
  <2> DEFINE f == [e \in S |-> DonorOf[e]]
  <2>1. f \in Surjection(S, DonorsOf(S))
    BY DEF Surjection, DonorsOf
  <2> QED BY <1>2, <2>1, FS_Surjection
<1> QED BY <1>2, <1>3, FS_CardinalityType

\* So can the donors of a project, with one more.
LEMMA ProjectSets ==
  ASSUME NEW S \in SUBSET Events, NEW p, NEW d
  PROVE  /\ Cardinality(DonorsOfProject(S, p)) \in Nat
         /\ Cardinality(DonorsOfProject(S, p) \cup {d}) \in Nat
<1>1. IsFiniteSet(DonorsOfProject(S, p))
  BY EventSets DEF DonorsOfProject
<1>2. IsFiniteSet(DonorsOfProject(S, p) \cup {d})
  BY <1>1, FS_AddElement
<1> QED BY <1>1, <1>2, FS_CardinalityType

\* The last of some events is one of them.
LEMMA LastEvent ==
  ASSUME NEW S \in SUBSET Events, S # {}
  PROVE  Max(S) \in S
<1> DEFINE N == {n \in Nat : \A m \in S : m <= n}
<1>1. S \in SUBSET Nat /\ NEvents \in N
  BY ProjectionAssumption DEF Events
<1>2. PICK n \in N : \A m \in N : n <= m
  BY <1>1, Least
<1>3. n \in S
  <2> SUFFICES ASSUME n \notin S PROVE FALSE
    OBVIOUS
  <2>1. n \in Nat /\ \A m \in S : m \in Nat /\ m <= n
    BY <1>1
  <2>2. n # 0 /\ \A m \in S : m <= n - 1
    BY <2>1
  <2>3. n - 1 \in N
    BY <2>1, <2>2
  <2> QED BY <1>2, <2>1, <2>3
<1>4. \A m \in S : n >= m
  BY <1>1
<1>5. \E x \in S : \A y \in S : x >= y
  BY <1>3, <1>4
<1> HIDE DEF N
<1> QED BY <1>5, Zenon DEF Max

-------------------------------------------------------------------------------
(* The inductive invariant.                                                *)

Steps == {"new", "leaderboard", "stats", "history", "commit", "done", "failed"}
JobRows == [pc : Steps, donors : Nat, fresh : BOOLEAN]
RebuildRows ==
  [pc : {"idle", "waiting", "replay", "swap", "ended"}, of : Tables \cup {"all"},
   read : SUBSET Events, seen : SUBSET Events, counts : [Projects -> Nat], donors : Nat]

\* The types, with those of all that a rebuild has in hand.
ProjTypes ==
  /\ store \subseteq Events
  /\ table \in [Tables -> [Events -> Nat]]
  /\ \A e \in Events : table["donor_history"][e] <= 1
  /\ donorCount \in [Projects -> Nat] /\ totalDonors \in Nat
  /\ job \in [Events -> JobRows] /\ rebuild \in [Rebuilders -> RebuildRows]
  /\ exempt \in [Tables -> SUBSET Events] /\ clean \in BOOLEAN
  /\ failures \in 0 .. MaxFailures

\* The row of a donor keeps the transactions of its events apart, and the row of a
\* project those of its events.
RowsExclude ==
  \A e, f \in Events : e # f =>
    /\ job[e].pc \in {"stats", "history", "commit"} /\ job[f].pc \in {"stats", "history", "commit"}
         => DonorOf[e] # DonorOf[f]
    /\ job[e].pc \in {"history", "commit"} /\ job[f].pc \in {"history", "commit"}
         => ProjectOf[e] # ProjectOf[f]

\* What the transaction of e, with the row, has computed from the history still stands
\* when it commits.
CountFresh(e, row) ==
  /\ row.pc \in {"history", "commit"} =>
       row.donors = Cardinality(DonorsOfProject(History, ProjectOf[e]) \cup {DonorOf[e]})
  /\ row.pc = "commit" => row.fresh = (DonorOf[e] \notin DonorsOf(History \ {e}))

OwnEvents(S, p) == {e \in S : ProjectOf[e] = p}

\* What a rebuild has computed, from what it read and saw.
ReplayDone(row) ==
  row.pc = "swap" =>
    /\ \A p \in Projects : row.counts[p] =
         IF OwnEvents(row.read, p) = {} THEN 0
         ELSE IF row.of = "all" THEN Cardinality(DonorsOfProject(row.read, p))
         ELSE Cardinality(DonorsOfProject(row.seen, p)
                            \cup {DonorOf[Max(OwnEvents(row.read, p))]})
    /\ row.of = "all" => row.donors = Cardinality(DonorsOf(row.read))

\* As long as nothing failed or raced, no event is excepted and every count is right,
\* those in hand too.
CleanCounts ==
  clean => /\ \A t \in Tables : exempt[t] = {}
           /\ \A e \in Events : CountFresh(e, job[e])

ProjInv ==
  /\ ProjTypes /\ ProjectedOnce /\ RowsExclude /\ CleanCounts /\ DonorsCounted
  /\ \A r \in Rebuilders : ReplayDone(rebuild[r])

\* The history is a set of events, and while nothing failed or raced it is the settled ones.
LEMMA HistoryType == ProjTypes => History \in SUBSET Events
BY DEF History

LEMMA CleanHistory ==
  ASSUME ProjInv, clean
  PROVE  \A e \in Events : e \in History <=> Settled(e)
<1> TAKE e \in Events
<1>1. "donor_history" \in Tables
  BY DEF Tables
<1>2. table["donor_history"][e] = Flag(Settled(e))
  BY <1>1 DEF ProjInv, ProjectedOnce, CleanCounts
<1> QED BY <1>2 DEF History, Flag

\* What holds at first.
LEMMA ProjInvInit == ProjInit => ProjInv
<1> SUFFICES ASSUME ProjInit PROVE ProjInv
  OBVIOUS
<1>1. \A e \in Events : job[e] = NoJob /\ NoJob \in JobRows
  BY DEF ProjInit, NoJob, JobRows, Steps
<1>2. \A r \in Rebuilders : rebuild[r] = Request
  BY DEF ProjInit
<1>3. Request \in RebuildRows
  BY DEF Request, RebuildRows
<1>4. History = {}
  BY DEF History, ProjInit, Tables
<1>5. ProjTypes
  <2>1. table["donor_history"] = [e \in Events |-> 0]
    BY DEF ProjInit, Tables
  <2>2. job \in [Events -> JobRows]
    BY <1>1 DEF ProjInit
  <2>3. rebuild \in [Rebuilders -> RebuildRows]
    BY <1>3 DEF ProjInit
  <2> QED BY <2>1, <2>2, <2>3, ProjectionAssumption DEF ProjTypes, ProjInit
<1>6. ProjectedOnce
  BY <1>1 DEF ProjectedOnce, ProjInit, Settled, NoJob, Flag
<1>7. RowsExclude
  BY <1>1 DEF RowsExclude, NoJob
<1>8. CleanCounts
  BY <1>1 DEF CleanCounts, CountFresh, NoJob, ProjInit
<1>9. DonorsCounted
  <2>1. DonorsOf({}) = {} /\ \A p : DonorsOfProject({}, p) = {}
    BY DEF DonorsOf, DonorsOfProject
  <2> QED BY <1>4, <2>1, FS_EmptySet DEF DonorsCounted, ProjInit
<1>10. \A r \in Rebuilders : ReplayDone(rebuild[r])
  BY <1>2 DEF ReplayDone, Request
<1> QED BY <1>5, <1>6, <1>7, <1>8, <1>9, <1>10 DEF ProjInv

-------------------------------------------------------------------------------
(* The transactions of the events.                                         *)

\* What the rows of two events must not be at one time.
Apart(e, row, f, other) ==
  /\ row.pc \in {"stats", "history", "commit"} /\ other.pc \in {"stats", "history", "commit"}
       => DonorOf[e] # DonorOf[f]
  /\ row.pc \in {"history", "commit"} /\ other.pc \in {"history", "commit"}
       => ProjectOf[e] # ProjectOf[f]

\* A step that moves the transaction of e on, which stays open.
LEMMA JobStep ==
  ASSUME ProjInv, NEW e \in Events, NEW row \in JobRows, job' = [job EXCEPT ![e] = row],
         job[e].pc \notin {"done", "failed"}, row.pc \notin {"done", "failed"},
         store' \subseteq Events,
         UNCHANGED <<table, donorCount, totalDonors, rebuild, exempt, clean, failures>>,
         \A f \in Events \ {e} : Apart(e, row, f, job[f]),
         clean => CountFresh(e, row)
  PROVE  ProjInv'
<1>1. job \in [Events -> JobRows]
  BY DEF ProjInv, ProjTypes
<1>2. job'[e] = row /\ \A f \in Events \ {e} : job'[f] = job[f]
  BY <1>1
<1>3. History' = History
  BY DEF History
<1>4. \A f \in Events : Settled(f)' = Settled(f)
  <2> TAKE f \in Events
  <2>1. CASE f = e
    BY <1>2, <2>1 DEF Settled
  <2>2. CASE f # e
    BY <1>2, <2>2 DEF Settled
  <2> QED BY <2>1, <2>2
<1>5. ProjTypes'
  BY <1>1 DEF ProjInv, ProjTypes
<1>6. ProjectedOnce'
  BY <1>4, Zenon DEF ProjInv, ProjectedOnce, Flag
<1>7. RowsExclude'
  <2> SUFFICES ASSUME NEW a \in Events, NEW b \in Events, a # b
               PROVE  Apart(a, job'[a], b, job'[b])
    BY Zenon DEF RowsExclude, Apart
  <2>1. CASE a = e
    BY <1>2, <2>1
  <2>2. CASE b = e
    BY <1>2, <2>2 DEF Apart
  <2>3. CASE a # e /\ b # e
    BY <1>2, <2>3, Zenon DEF ProjInv, RowsExclude, Apart
  <2> QED BY <2>1, <2>2, <2>3
<1>8. CleanCounts'
  <2> SUFFICES ASSUME clean', NEW f \in Events PROVE CountFresh(f, job[f])'
    BY Zenon DEF CleanCounts, ProjInv
  <2>1. CountFresh(f, job'[f])
    BY <1>2, Zenon DEF CleanCounts, ProjInv
  <2> QED BY <1>3, <2>1 DEF CountFresh
<1>9. DonorsCounted'
  BY <1>3, Zenon DEF DonorsCounted, ProjInv
<1>10. \A r \in Rebuilders : ReplayDone(rebuild[r])'
  BY Zenon DEF ProjInv, ReplayDone
<1> QED BY <1>5, <1>6, <1>7, <1>8, <1>9, <1>10 DEF ProjInv


\* A step that changes the step of a row, and nothing else of it.
LEMMA RowMoved ==
  ASSUME NEW row \in JobRows, NEW pc \in Steps
  PROVE  LET new == [row EXCEPT !.pc = pc]
         IN  new \in JobRows /\ new.pc = pc /\ new.donors = row.donors /\ new.fresh = row.fresh
BY DEF JobRows

LEMMA JobRow == ProjInv => \A e \in Events : job[e] \in JobRows
BY DEF ProjInv, ProjTypes

LEMMA KeepsInsert == ASSUME ProjInv, NEW e \in Events, InsertEvent(e) PROVE ProjInv'
<1> DEFINE row == [job[e] EXCEPT !.pc = "leaderboard"]
<1>1. row \in JobRows /\ row.pc = "leaderboard"
  BY JobRow, RowMoved DEF Steps
<1>2. job' = [job EXCEPT ![e] = row] /\ job[e].pc = "new"
  BY DEF InsertEvent
<1> HIDE DEF row
<1>3. store' \subseteq Events
  BY DEF InsertEvent, ProjInv, ProjTypes
<1>4. \A f \in Events \ {e} : Apart(e, row, f, job[f])
  BY <1>1 DEF Apart
<1>5. CountFresh(e, row)
  BY <1>1 DEF CountFresh
<1>6. UNCHANGED <<table, donorCount, totalDonors, rebuild, exempt, clean, failures>>
  BY DEF InsertEvent
<1> QED BY <1>1, <1>2, <1>3, <1>4, <1>5, <1>6, JobStep

LEMMA KeepsLeaderboard == ASSUME ProjInv, NEW e \in Events, Leaderboard(e) PROVE ProjInv'
<1> DEFINE row == [job[e] EXCEPT !.pc = "stats"]
<1>1. row \in JobRows /\ row.pc = "stats"
  BY JobRow, RowMoved DEF Steps
<1>2. job' = [job EXCEPT ![e] = row] /\ job[e].pc = "leaderboard"
  BY DEF Leaderboard
<1> HIDE DEF row
<1>3. store' \subseteq Events
  BY DEF Leaderboard, ProjInv, ProjTypes
<1>4. \A f \in Events \ {e} : Apart(e, row, f, job[f])
  <2> TAKE f \in Events \ {e}
  <2>1. job[f].pc \in {"stats", "history", "commit"} => DonorOf[f] # DonorOf[e]
    BY DEF Leaderboard, RowFree, Touched, SameDonor
  <2> QED BY <1>1, <2>1 DEF Apart
<1>5. CountFresh(e, row)
  BY <1>1 DEF CountFresh
<1>6. UNCHANGED <<table, donorCount, totalDonors, rebuild, exempt, clean, failures>>
  BY DEF Leaderboard
<1> QED BY <1>1, <1>2, <1>3, <1>4, <1>5, <1>6, JobStep

LEMMA KeepsStats == ASSUME ProjInv, NEW e \in Events, ProjectStats(e) PROVE ProjInv'
<1> DEFINE n == Cardinality(DonorsOfProject(History, ProjectOf[e]) \cup {DonorOf[e]})
           row == [job[e] EXCEPT !.pc = "history", !.donors = n]
<1>1. n \in Nat
  BY HistoryType, ProjectSets DEF ProjInv
<1>2. row \in JobRows /\ row.pc = "history" /\ row.donors = n
  <2> HIDE DEF n
  <2> QED BY <1>1, JobRow DEF JobRows, Steps
<1>3. job' = [job EXCEPT ![e] = row] /\ job[e].pc = "stats"
  BY DEF ProjectStats
<1> HIDE DEF row
<1>4. store' \subseteq Events
  BY DEF ProjectStats, ProjInv, ProjTypes
<1>5. \A f \in Events \ {e} : Apart(e, row, f, job[f])
  <2> TAKE f \in Events \ {e}
  <2>1. job[f].pc \in {"history", "commit"} => ProjectOf[f] # ProjectOf[e]
    BY DEF ProjectStats, RowFree, Touched, SameProject
  <2>2. job[f].pc \in {"stats", "history", "commit"} => DonorOf[e] # DonorOf[f]
    BY <1>3 DEF ProjInv, RowsExclude
  <2> QED BY <1>2, <2>1, <2>2 DEF Apart
<1>6. CountFresh(e, row)
  BY <1>2 DEF CountFresh
<1>7. UNCHANGED <<table, donorCount, totalDonors, rebuild, exempt, clean, failures>>
  BY DEF ProjectStats
<1> QED BY <1>2, <1>3, <1>4, <1>5, <1>6, <1>7, JobStep

LEMMA KeepsHistory == ASSUME ProjInv, NEW e \in Events, DonorHistory(e) PROVE ProjInv'
<1> DEFINE b == DonorOf[e] \notin DonorsOf(History \ {e})
           row == [job[e] EXCEPT !.pc = "commit", !.fresh = b]
<1>1. row \in JobRows /\ row.pc = "commit" /\ row.fresh = b /\ row.donors = job[e].donors
  <2>1. b \in BOOLEAN
    OBVIOUS
  <2> HIDE DEF b
  <2> QED BY <2>1, JobRow DEF JobRows, Steps
<1>2. job' = [job EXCEPT ![e] = row] /\ job[e].pc = "history"
  BY DEF DonorHistory
<1> HIDE DEF row
<1>3. store' \subseteq Events
  BY DEF DonorHistory, ProjInv, ProjTypes
<1>4. \A f \in Events \ {e} : Apart(e, row, f, job[f])
  <2> TAKE f \in Events \ {e}
  <2>1. Apart(e, job[e], f, job[f])
    BY Zenon DEF ProjInv, RowsExclude, Apart
  <2> QED BY <1>1, <1>2, <2>1 DEF Apart
<1>5. clean => CountFresh(e, row)
  <2> SUFFICES ASSUME clean PROVE CountFresh(e, row)
    OBVIOUS
  <2>1. CountFresh(e, job[e])
    BY DEF ProjInv, CleanCounts
  <2>2. job[e].donors = Cardinality(DonorsOfProject(History, ProjectOf[e]) \cup {DonorOf[e]})
    BY <1>2, <2>1 DEF CountFresh
  <2> QED BY <1>1, <2>2, Zenon DEF CountFresh
<1>6. UNCHANGED <<table, donorCount, totalDonors, rebuild, exempt, clean, failures>>
  BY DEF DonorHistory
<1> QED BY <1>1, <1>2, <1>3, <1>4, <1>5, <1>6, JobStep

\* The donors of a history with one more event.
LEMMA OneMoreEvent ==
  ASSUME NEW S \in SUBSET Events, NEW e \in Events
  PROVE  /\ DonorsOf(S \cup {e}) = DonorsOf(S) \cup {DonorOf[e]}
         /\ DonorsOfProject(S \cup {e}, ProjectOf[e])
              = DonorsOfProject(S, ProjectOf[e]) \cup {DonorOf[e]}
         /\ \A p : p # ProjectOf[e] => DonorsOfProject(S \cup {e}, p) = DonorsOfProject(S, p)
BY DEF DonorsOf, DonorsOfProject

\* COMMIT: the event is in every table, and the counts it computed are those of the
\* history with it, because no other transaction of its donor or of its project is open.
LEMMA KeepsCommit == ASSUME ProjInv, NEW e \in Events, CommitEvent(e) PROVE ProjInv'
<1> DEFINE row == [NoJob EXCEPT !.pc = "done"]
<1>1. row \in JobRows /\ row.pc = "done"
  BY DEF NoJob, JobRows, Steps
<1>2. job' = [job EXCEPT ![e] = row] /\ job[e].pc = "commit"
  BY DEF CommitEvent
<1> HIDE DEF row
<1>3. job \in [Events -> JobRows] /\ job[e] \in JobRows
  BY DEF ProjInv, ProjTypes
<1>4. job'[e] = row /\ \A f \in Events \ {e} : job'[f] = job[f]
  BY <1>2, <1>3
<1>5. table \in [Tables -> [Events -> Nat]] /\ "donor_history" \in Tables
  BY DEF ProjInv, ProjTypes, Tables
<1>6. /\ table' \in [Tables -> [Events -> Nat]]
      /\ \A t \in Tables : \A f \in Events \ {e} : table'[t][f] = table[t][f]
      /\ \A t \in Tables : table'[t][e] = IF t = "donor_history" THEN 1 ELSE table[t][e] + 1
  BY <1>5 DEF CommitEvent
<1>7. \A f \in Events : f \in History' <=> f = e \/ f \in History
  <2>1. table'["donor_history"][e] = 1
    BY <1>5, <1>6
  <2>2. \A f \in Events \ {e} : table'["donor_history"][f] = table["donor_history"][f]
    BY <1>5, <1>6
  <2> QED BY <2>1, <2>2 DEF History
<1>8. History' = History \cup {e} /\ History \in SUBSET Events
  <2>1. History' \subseteq Events
    BY DEF History
  <2> QED BY <1>7, <2>1, HistoryType DEF ProjInv
<1>9. Settled(e)' /\ ~Settled(e) /\ \A f \in Events \ {e} : Settled(f)' = Settled(f)
  BY <1>1, <1>2, <1>4 DEF Settled
<1>10. /\ UNCHANGED <<store, rebuild, exempt, clean, failures>>
       /\ donorCount' = [donorCount EXCEPT ![ProjectOf[e]] = job[e].donors]
       /\ totalDonors' = totalDonors + Flag(job[e].fresh)
  BY DEF CommitEvent
<1>11. ProjTypes'
  <2>1. \A f \in Events : table'["donor_history"][f] <= 1
    BY <1>5, <1>6 DEF ProjInv, ProjTypes
  <2>2. donorCount' \in [Projects -> Nat] /\ totalDonors' \in Nat
    <3>1. job[e].donors \in Nat
      BY <1>3 DEF JobRows
    <3>2. donorCount \in [Projects -> Nat] /\ totalDonors \in Nat
      BY DEF ProjInv, ProjTypes
    <3>3. donorCount' \in [Projects -> Nat]
      BY <1>10, <3>1, <3>2
    <3>4. Flag(job[e].fresh) \in Nat
      BY DEF Flag
    <3>5. totalDonors' \in Nat
      BY <1>10, <3>2, <3>4
    <3> QED BY <3>3, <3>5
  <2>3. job' \in [Events -> JobRows]
    BY <1>1, <1>2, <1>3
  <2> QED BY <1>6, <1>10, <2>1, <2>2, <2>3 DEF ProjInv, ProjTypes
<1>12. ProjectedOnce'
  <2> SUFFICES ASSUME NEW t \in Tables, NEW f \in Events, f \notin exempt[t]
               PROVE  table'[t][f] = Flag(Settled(f)')
    BY <1>10, Zenon DEF ProjectedOnce
  <2>1. table[t][f] = Flag(Settled(f))
    BY DEF ProjInv, ProjectedOnce
  <2>2. CASE f = e
    BY <1>5, <1>6, <1>9, <2>1, <2>2 DEF Flag
  <2>3. CASE f # e
    BY <1>6, <1>9, <2>1, <2>3
  <2> QED BY <2>2, <2>3
<1>13. RowsExclude'
  <2> SUFFICES ASSUME NEW a \in Events, NEW b \in Events, a # b
               PROVE  Apart(a, job'[a], b, job'[b])
    BY Zenon DEF RowsExclude, Apart
  <2>1. CASE a = e \/ b = e
    BY <1>1, <1>4, <2>1 DEF Apart
  <2>2. CASE a # e /\ b # e
    BY <1>4, <2>2, Zenon DEF ProjInv, RowsExclude, Apart
  <2> QED BY <2>1, <2>2
<1>14. ASSUME clean PROVE e \notin History /\ CountFresh(e, job[e])
  BY <1>9, <1>14, CleanHistory DEF ProjInv, CleanCounts
<1>15. CleanCounts'
  <2> SUFFICES ASSUME clean, NEW f \in Events PROVE CountFresh(f, job[f])'
    BY <1>10, Zenon DEF CleanCounts, ProjInv
  <2>1. CASE f = e
    BY <1>1, <1>4, <2>1 DEF CountFresh
  <2>2. CASE f # e
    <3>1. CountFresh(f, job[f]) /\ job'[f] = job[f]
      BY <1>4, <2>2 DEF CleanCounts, ProjInv
    <3>2. job[f].pc \in {"history", "commit"} =>
            /\ ProjectOf[f] # ProjectOf[e] /\ DonorOf[f] # DonorOf[e]
      BY <1>2, <2>2 DEF ProjInv, RowsExclude
    <3>3. job[f].pc \in {"history", "commit"} =>
            DonorsOfProject(History', ProjectOf[f]) = DonorsOfProject(History, ProjectOf[f])
      BY <1>8, <3>2, OneMoreEvent
    <3>4. job[f].pc = "commit" =>
            (DonorOf[f] \in DonorsOf(History' \ {f}) <=> DonorOf[f] \in DonorsOf(History \ {f}))
      BY <1>8, <3>2 DEF DonorsOf
    <3> QED BY <3>1, <3>3, <3>4 DEF CountFresh
  <2> QED BY <2>1, <2>2
<1>16. DonorsCounted'
  <2> SUFFICES ASSUME clean
               PROVE  /\ totalDonors' = Cardinality(DonorsOf(History'))
                      /\ \A p \in Projects :
                           donorCount'[p] = Cardinality(DonorsOfProject(History', p))
    BY <1>10 DEF DonorsCounted
  <2>1. /\ totalDonors = Cardinality(DonorsOf(History))
        /\ \A p \in Projects : donorCount[p] = Cardinality(DonorsOfProject(History, p))
    BY DEF ProjInv, DonorsCounted
  <2>2. /\ job[e].donors = Cardinality(DonorsOfProject(History, ProjectOf[e]) \cup {DonorOf[e]})
        /\ job[e].fresh = (DonorOf[e] \notin DonorsOf(History))
    <3>1. History \ {e} = History
      BY <1>14
    <3> QED BY <1>2, <1>14, <3>1 DEF CountFresh
  <2>3. Cardinality(DonorsOf(History')) = Cardinality(DonorsOf(History)) + Flag(job[e].fresh)
    <3>1. DonorsOf(History') = DonorsOf(History) \cup {DonorOf[e]}
      BY <1>8, OneMoreEvent
    <3>2. IsFiniteSet(DonorsOf(History)) /\ Cardinality(DonorsOf(History)) \in Nat
      BY <1>8, EventSets
    <3>3. CASE DonorOf[e] \in DonorsOf(History)
      <4>1. DonorsOf(History') = DonorsOf(History) /\ ~job[e].fresh
        BY <2>2, <3>1, <3>3
      <4> QED BY <3>2, <4>1 DEF Flag
    <3>4. CASE DonorOf[e] \notin DonorsOf(History)
      <4>1. Cardinality(DonorsOf(History')) = Cardinality(DonorsOf(History)) + 1
        BY <3>1, <3>2, <3>4, FS_AddElement
      <4> QED BY <2>2, <3>4, <4>1 DEF Flag
    <3> QED BY <3>3, <3>4
  <2>4. \A p \in Projects : donorCount'[p] = Cardinality(DonorsOfProject(History', p))
    <3> TAKE p \in Projects
    <3>1. donorCount \in [Projects -> Nat]
      BY DEF ProjInv, ProjTypes
    <3>2. CASE p = ProjectOf[e]
      BY <1>8, <1>10, <2>2, <3>1, <3>2, OneMoreEvent
    <3>3. CASE p # ProjectOf[e]
      BY <1>8, <1>10, <2>1, <3>1, <3>3, OneMoreEvent
    <3> QED BY <3>2, <3>3
  <2> QED BY <1>10, <2>1, <2>3, <2>4
<1>17. \A r \in Rebuilders : ReplayDone(rebuild[r])'
  BY <1>10, Zenon DEF ProjInv, ReplayDone
<1> QED BY <1>11, <1>12, <1>13, <1>15, <1>16, <1>17 DEF ProjInv

\* ROLLBACK: the tables that do not hold the event have it excepted from now on.
LEMMA KeepsFailure == ASSUME ProjInv, NEW e \in Events, EventFails(e) PROVE ProjInv'
<1> DEFINE row == [NoJob EXCEPT !.pc = "failed"]
<1>1. row \in JobRows /\ row.pc = "failed"
  BY DEF NoJob, JobRows, Steps
<1>2. job' = [job EXCEPT ![e] = row] /\ job[e].pc \notin {"done", "failed"}
  BY DEF EventFails
<1> HIDE DEF row
<1>3. job \in [Events -> JobRows]
  BY DEF ProjInv, ProjTypes
<1>4. job'[e] = row /\ \A f \in Events \ {e} : job'[f] = job[f]
  BY <1>2, <1>3
<1>5. ~Settled(e) /\ \A f \in Events \ {e} : Settled(f)' = Settled(f)
  BY <1>2, <1>4 DEF Settled
<1>6. /\ UNCHANGED <<store, table, donorCount, totalDonors, rebuild>> /\ clean' = FALSE
      /\ exempt' = [t \in Tables |-> exempt[t] \cup {f \in {e} : table[t][e] = 0}]
  BY DEF EventFails
<1>7. ProjTypes'
  <2>1. exempt' \in [Tables -> SUBSET Events]
    BY <1>6 DEF ProjInv, ProjTypes
  <2>2. failures' \in 0 .. MaxFailures
    BY ProjectionAssumption DEF EventFails, ProjInv, ProjTypes
  <2>3. job' \in [Events -> JobRows]
    BY <1>1, <1>2, <1>3
  <2> QED BY <1>6, <2>1, <2>2, <2>3 DEF ProjInv, ProjTypes
<1>8. ProjectedOnce'
  <2> SUFFICES ASSUME NEW t \in Tables, NEW f \in Events, f \notin exempt'[t]
               PROVE  table[t][f] = Flag(Settled(f)')
    BY <1>6, Zenon DEF ProjectedOnce
  <2>1. f \notin exempt[t] /\ (f = e => table[t][e] # 0)
    BY <1>6
  <2>2. table[t][f] = Flag(Settled(f))
    BY <2>1 DEF ProjInv, ProjectedOnce
  <2>3. f # e
    BY <1>5, <2>1, <2>2 DEF Flag
  <2> QED BY <1>5, <2>2, <2>3
<1>9. RowsExclude'
  <2> SUFFICES ASSUME NEW a \in Events, NEW b \in Events, a # b
               PROVE  Apart(a, job'[a], b, job'[b])
    BY Zenon DEF RowsExclude, Apart
  <2>1. CASE a = e \/ b = e
    BY <1>1, <1>4, <2>1 DEF Apart
  <2>2. CASE a # e /\ b # e
    BY <1>4, <2>2, Zenon DEF ProjInv, RowsExclude, Apart
  <2> QED BY <2>1, <2>2
<1>10. CleanCounts' /\ DonorsCounted'
  BY <1>6 DEF CleanCounts, DonorsCounted
<1>11. \A r \in Rebuilders : ReplayDone(rebuild[r])'
  BY <1>6, Zenon DEF ProjInv, ReplayDone
<1> QED BY <1>7, <1>8, <1>9, <1>10, <1>11 DEF ProjInv

-------------------------------------------------------------------------------
(* The rebuilds.                                                           *)

\* A step that only moves a request on.
LEMMA RebuildStep ==
  ASSUME ProjInv, NEW r \in Rebuilders, NEW row \in RebuildRows,
         rebuild' = [rebuild EXCEPT ![r] = row], ReplayDone(row),
         UNCHANGED <<store, table, donorCount, totalDonors, job, exempt, clean>>,
         failures' \in 0 .. MaxFailures
  PROVE  ProjInv'
<1>1. rebuild \in [Rebuilders -> RebuildRows]
  BY DEF ProjInv, ProjTypes
<1>2. ProjTypes'
  BY <1>1 DEF ProjInv, ProjTypes
<1>3. History' = History /\ \A e \in Events : Settled(e)' = Settled(e)
  BY DEF History, Settled
<1>4. ProjectedOnce' /\ RowsExclude' /\ DonorsCounted'
  BY <1>3 DEF ProjInv, ProjectedOnce, RowsExclude, DonorsCounted
<1>5. CleanCounts'
  BY <1>3 DEF ProjInv, CleanCounts, CountFresh
<1>6. \A q \in Rebuilders : ReplayDone(rebuild'[q])
  BY <1>1 DEF ProjInv
<1>7. \A q \in Rebuilders : ReplayDone(rebuild[q])'
  BY <1>6, Zenon DEF ReplayDone
<1> QED BY <1>2, <1>4, <1>5, <1>7 DEF ProjInv

LEMMA RebuildRow == ProjInv => \A r \in Rebuilders : rebuild[r] \in RebuildRows
BY DEF ProjInv, ProjTypes

\* A request that is not made, or over, holds nothing.
LEMMA RequestRow ==
  ASSUME NEW pc \in {"idle", "waiting", "ended"}, NEW of \in Tables \cup {"all"}
  PROVE  LET row == [Request EXCEPT !.pc = pc, !.of = of]
         IN  row \in RebuildRows /\ ReplayDone(row)
<1> DEFINE row == [Request EXCEPT !.pc = pc, !.of = of]
<1>1. row \in RebuildRows /\ row.pc = pc
  BY DEF Request, RebuildRows
<1> HIDE DEF row
<1>2. ReplayDone(row)
  BY <1>1 DEF ReplayDone
<1> QED BY <1>1, <1>2 DEF row

LEMMA KeepsRequested ==
  ASSUME ProjInv, NEW r \in Rebuilders, NEW of \in Rebuildable, RebuildRequested(r, of)
  PROVE  ProjInv'
<1> DEFINE row == [Request EXCEPT !.pc = "waiting", !.of = of]
<1>1. of \in Tables \cup {"all"}
  BY ProjectionAssumption
<1>2. row \in RebuildRows /\ ReplayDone(row)
  BY <1>1, RequestRow
<1>3. rebuild' = [rebuild EXCEPT ![r] = row]
  BY DEF RebuildRequested
<1> HIDE DEF row
<1>4. /\ UNCHANGED <<store, table, donorCount, totalDonors, job, exempt, clean>>
      /\ failures' \in 0 .. MaxFailures
  BY DEF RebuildRequested, ProjInv, ProjTypes
<1> QED BY <1>2, <1>3, <1>4, RebuildStep

LEMMA KeepsReads == ASSUME ProjInv, NEW r \in Rebuilders, RebuildReads(r) PROVE ProjInv'
<1> DEFINE row == [rebuild[r] EXCEPT !.pc = "replay", !.read = store]
<1>1. row \in RebuildRows /\ row.pc = "replay"
  <2>1. store \in SUBSET Events
    BY DEF ProjInv, ProjTypes
  <2> QED BY <2>1, RebuildRow DEF RebuildRows
<1>2. rebuild' = [rebuild EXCEPT ![r] = row]
  BY DEF RebuildReads
<1> HIDE DEF row
<1>3. ReplayDone(row)
  BY <1>1 DEF ReplayDone
<1>4. /\ UNCHANGED <<store, table, donorCount, totalDonors, job, exempt, clean>>
      /\ failures' \in 0 .. MaxFailures
  BY DEF RebuildReads, ProjInv, ProjTypes
<1> QED BY <1>1, <1>2, <1>3, <1>4, RebuildStep

\* What the handlers compute in the staging tables are numbers.
LEMMA ReplayTypes ==
  ASSUME ProjInv, NEW r \in Rebuilders
  PROVE  NewDonors(r) \in Nat /\ \A p \in Projects : Counts(r, p) \in Nat
<1>1. rebuild[r].read \in SUBSET Events /\ History \in SUBSET Events
  BY RebuildRow, HistoryType DEF RebuildRows, ProjInv
<1>2. NewDonors(r) \in Nat
  <2>1. {e \in rebuild[r].read : DonorOf[e] \notin DonorsOf(History \ {e})} \in SUBSET Events
    BY <1>1
  <2> QED BY <1>1, <2>1, EventSets DEF NewDonors
<1>3. ASSUME NEW p \in Projects PROVE Counts(r, p) \in Nat
  <2>1. {e \in rebuild[r].read : ProjectOf[e] = p} \in SUBSET Events
    BY <1>1
  <2> QED BY <1>1, <2>1, EventSets, ProjectSets DEF Counts
<1> QED BY <1>2, <1>3

LEMMA KeepsReplays == ASSUME ProjInv, NEW r \in Rebuilders, RebuildReplays(r) PROVE ProjInv'
<1> DEFINE c == [p \in Projects |-> Counts(r, p)]
           n == NewDonors(r)
           row == [rebuild[r] EXCEPT !.pc = "swap", !.seen = History, !.counts = c, !.donors = n]
<1>1. c \in [Projects -> Nat] /\ n \in Nat
  BY ReplayTypes
<1>2. \A p \in Projects : c[p] = Counts(r, p)
  OBVIOUS
<1>3. n = NewDonors(r)
  OBVIOUS
<1>4. rebuild' = [rebuild EXCEPT ![r] = row]
  BY DEF RebuildReplays
<1> HIDE DEF c, n
<1>5. /\ row \in RebuildRows /\ row.seen = History /\ row.counts = c /\ row.donors = n
      /\ row.of = rebuild[r].of /\ row.read = rebuild[r].read
  <2>1. History \in SUBSET Events
    BY HistoryType DEF ProjInv
  <2> QED BY <1>1, <2>1, RebuildRow DEF RebuildRows
<1> HIDE DEF row
<1>6. ReplayDone(row)
  <2>1. ASSUME NEW p \in Projects
        PROVE  row.counts[p] =
                 IF OwnEvents(row.read, p) = {} THEN 0
                 ELSE IF row.of = "all" THEN Cardinality(DonorsOfProject(row.read, p))
                 ELSE Cardinality(DonorsOfProject(row.seen, p)
                                    \cup {DonorOf[Max(OwnEvents(row.read, p))]})
    <3>1. DonorsOfProject(row.read, p) = DonorsOf(OwnEvents(row.read, p))
      BY DEF DonorsOfProject, OwnEvents
    <3>2. Counts(r, p) =
            IF OwnEvents(rebuild[r].read, p) = {} THEN 0
            ELSE IF rebuild[r].of = "all" THEN Cardinality(DonorsOf(OwnEvents(rebuild[r].read, p)))
            ELSE Cardinality(DonorsOfProject(History, p)
                               \cup {DonorOf[Max(OwnEvents(rebuild[r].read, p))]})
      <4> DEFINE own == OwnEvents(rebuild[r].read, p)
      <4>1. own = {e \in rebuild[r].read : ProjectOf[e] = p}
        BY DEF OwnEvents
      <4>2. own = {} => Cardinality(DonorsOf(own)) = 0
        BY FS_EmptySet DEF DonorsOf
      <4>3. Counts(r, p) = CASE own = {} -> 0
                             [] rebuild[r].of = "all" -> Cardinality(DonorsOf(own))
                             [] OTHER -> Cardinality(DonorsOfProject(History, p)
                                                       \cup {DonorOf[Max(own)]})
        BY <4>1 DEF Counts
      <4> HIDE DEF own
      <4>4. Counts(r, p) =
              IF own = {} THEN 0
              ELSE IF rebuild[r].of = "all" THEN Cardinality(DonorsOf(own))
              ELSE Cardinality(DonorsOfProject(History, p) \cup {DonorOf[Max(own)]})
        <5>1. CASE own = {}
          BY <4>2, <4>3, <5>1
        <5>2. CASE own # {}
          BY <4>3, <5>2
        <5> QED BY <5>1, <5>2
      <4> QED BY <4>4 DEF own
    <3> QED BY <1>2, <1>5, <3>1, <3>2
  <2>2. row.of = "all" => row.donors = Cardinality(DonorsOf(row.read))
    BY <1>3, <1>5 DEF NewDonors
  <2> QED BY <2>1, <2>2 DEF ReplayDone
<1>7. /\ UNCHANGED <<store, table, donorCount, totalDonors, job, exempt, clean>>
      /\ failures' \in 0 .. MaxFailures
  BY DEF RebuildReplays, ProjInv, ProjTypes
<1> QED BY <1>4, <1>5, <1>6, <1>7, RebuildStep

LEMMA KeepsRebuildFails == ASSUME ProjInv, NEW r \in Rebuilders, RebuildFails(r) PROVE ProjInv'
<1> DEFINE row == [Request EXCEPT !.pc = "ended"]
<1>1. row \in RebuildRows /\ row.pc = "ended"
  BY DEF Request, RebuildRows
<1>2. rebuild' = [rebuild EXCEPT ![r] = row]
  BY DEF RebuildFails
<1> HIDE DEF row
<1>3. ReplayDone(row)
  BY <1>1 DEF ReplayDone
<1>4. UNCHANGED <<store, table, donorCount, totalDonors, job, exempt, clean>>
  BY DEF RebuildFails
<1>5. failures' \in 0 .. MaxFailures
  BY ProjectionAssumption DEF RebuildFails, ProjInv, ProjTypes
<1> QED BY <1>1, <1>2, <1>3, <1>4, <1>5, RebuildStep

\* The swap: no transaction that has read the history of a swapped table is open, so what
\* those that go on have computed still stands.
LEMMA KeepsSwap == ASSUME ProjInv, NEW r \in Rebuilders, RebuildSwaps(r) PROVE ProjInv'
<1> DEFINE row == [Request EXCEPT !.pc = "ended"]
           old == rebuild[r]
           S == Scope(old.of)
<1>1. row \in RebuildRows /\ row.pc = "ended"
  BY DEF Request, RebuildRows
<1>2. rebuild' = [rebuild EXCEPT ![r] = row]
  BY DEF RebuildSwaps
<1> HIDE DEF row
<1>3. old \in RebuildRows /\ old.pc = "swap" /\ ReplayDone(old)
  BY RebuildRow DEF ProjInv, RebuildSwaps
<1>4. /\ old.of \in Tables \cup {"all"} /\ old.read \in SUBSET Events
      /\ old.counts \in [Projects -> Nat] /\ old.donors \in Nat
  BY <1>3 DEF RebuildRows
<1>5. /\ \A e \in Events : Touched(e) \cap S = {}
      /\ table' = [t \in Tables |-> IF t \in S THEN Staged(r, t) ELSE table[t]]
      /\ donorCount' = IF "project_stats" \in S THEN old.counts ELSE donorCount
      /\ totalDonors' = IF "global_stats" \in S THEN old.donors ELSE totalDonors
      /\ exempt' = [t \in Tables |-> IF t \in S THEN Raced(r) ELSE exempt[t]]
      /\ clean' = /\ Raced(r) = {}
                  /\ \/ old.of = "all"
                     \/ clean /\ old.of # "global_stats" /\ old.seen = History
  BY DEF RebuildSwaps
<1>6. UNCHANGED <<store, job, failures>>
  BY DEF RebuildSwaps
<1>7. /\ "all" \notin Tables /\ "donor_history" \in Tables
      /\ S = IF old.of = "all" THEN Tables ELSE {old.of}
  BY DEF Scope, Tables
<1>8. Staged(r, "donor_history") = [e \in Events |-> Flag(e \in old.read)]
  BY DEF Staged
<1>9. \A t : Staged(r, t) \in [Events -> Nat] /\ \A e \in Events : Staged(r, t)[e] = Flag(e \in old.read)
  BY DEF Staged, Flag
<1>10. \A e \in Raced(r) : e \in Events
  BY DEF Raced
<1>11. \A e \in Events : e \notin Raced(r) => (e \in old.read <=> Settled(e))
  <2> TAKE e \in Events
  <2>1. Settled(e) \in BOOLEAN
    BY DEF Settled
  <2> QED BY <2>1 DEF Raced
<1> HIDE DEF old, S
<1>12. \A e \in Events : Settled(e)' = Settled(e)
  BY <1>6 DEF Settled
<1>13. table \in [Tables -> [Events -> Nat]] /\ exempt \in [Tables -> SUBSET Events]
       /\ \A e \in Events : table["donor_history"][e] <= 1
  BY DEF ProjInv, ProjTypes
<1>14. /\ \A t \in Tables \ S : table'[t] = table[t] /\ exempt'[t] = exempt[t]
       /\ \A t \in Tables : t \in S => table'[t] = Staged(r, t) /\ exempt'[t] = Raced(r)
  BY <1>5, <1>13
<1>15. ProjTypes'
  <2>1. table' \in [Tables -> [Events -> Nat]]
    BY <1>5, <1>9, <1>13
  <2>2. \A e \in Events : table'["donor_history"][e] <= 1
    <3>1. CASE "donor_history" \in S
      BY <1>7, <1>9, <1>14, <3>1 DEF Flag
    <3>2. CASE "donor_history" \notin S
      BY <1>7, <1>13, <1>14, <3>2
    <3> QED BY <3>1, <3>2
  <2>3. donorCount' \in [Projects -> Nat] /\ totalDonors' \in Nat
    BY <1>4, <1>5 DEF ProjInv, ProjTypes
  <2>4. exempt' \in [Tables -> SUBSET Events]
    BY <1>5, <1>10, <1>13
  <2>5. clean' \in BOOLEAN
    BY <1>5
  <2>6. rebuild' \in [Rebuilders -> RebuildRows]
    BY <1>1, <1>2 DEF ProjInv, ProjTypes
  <2> QED BY <1>6, <2>1, <2>2, <2>3, <2>4, <2>5, <2>6 DEF ProjInv, ProjTypes
<1>16. ProjectedOnce'
  <2> SUFFICES ASSUME NEW t \in Tables, NEW e \in Events, e \notin exempt'[t]
               PROVE  table'[t][e] = Flag(Settled(e))
    BY <1>12, Zenon DEF ProjectedOnce
  <2>1. CASE t \in S
    <3>1. e \in old.read <=> Settled(e)
      BY <1>11, <1>14, <2>1
    <3>2. table'[t][e] = Flag(e \in old.read)
      BY <1>9, <1>14, <2>1
    <3> QED BY <3>1, <3>2 DEF Flag
  <2>2. CASE t \notin S
    BY <1>14, <2>2 DEF ProjInv, ProjectedOnce
  <2> QED BY <2>1, <2>2
<1>17. RowsExclude'
  BY <1>6, Zenon DEF ProjInv, RowsExclude
<1>18. ASSUME clean'
       PROVE  /\ \A e \in Events : e \in old.read <=> Settled(e)
              /\ old.of = "all" \/ (clean /\ old.of # "global_stats" /\ old.seen = History)
  <2>1. Raced(r) = {} /\ (old.of = "all" \/ (clean /\ old.of # "global_stats" /\ old.seen = History))
    BY <1>5, <1>18
  <2> QED BY <1>11, <2>1
<1>19. ASSUME "donor_history" \in S PROVE CleanCounts' /\ DonorsCounted'
  <2>1. History' = old.read
    <3>1. \A e \in Events : table'["donor_history"][e] = Flag(e \in old.read)
      BY <1>7, <1>9, <1>14, <1>19
    <3> QED BY <1>4, <3>1 DEF History, Flag
  <2>2. \A e \in Events : job[e].pc \notin {"history", "commit"}
    <3> SUFFICES ASSUME NEW e \in Events, job[e].pc \in {"history", "commit"} PROVE FALSE
      OBVIOUS
    <3>1. "donor_history" \in Touched(e)
      BY DEF Touched
    <3> QED BY <1>5, <1>19, <3>1
  <2>3. CleanCounts'
    <3> SUFFICES ASSUME clean' PROVE (\A t \in Tables : exempt[t] = {})' /\ \A e \in Events : CountFresh(e, job[e])'
      BY Zenon DEF CleanCounts
    <3>1. ASSUME NEW t \in Tables PROVE exempt'[t] = {}
      <4>1. Raced(r) = {}
        BY <1>5
      <4>2. t \notin S => exempt[t] = {}
        BY <1>7, <1>18 DEF ProjInv, CleanCounts
      <4> QED BY <1>14, <4>1, <4>2
    <3>2. \A e \in Events : CountFresh(e, job[e])'
      BY <1>6, <2>2 DEF CountFresh
    <3> QED BY <3>1, <3>2
  <2>4. ASSUME clean', old.of # "all" PROVE History' = History
    <3>1. \A e \in Events : e \in History <=> e \in old.read
      BY <1>18, <2>4, CleanHistory
    <3> QED BY <1>4, <2>1, <3>1, HistoryType DEF ProjInv
  <2>5. DonorsCounted'
    <3> SUFFICES ASSUME clean'
                 PROVE  /\ totalDonors' = Cardinality(DonorsOf(History'))
                        /\ \A p \in Projects :
                             donorCount'[p] = Cardinality(DonorsOfProject(History', p))
      BY DEF DonorsCounted
    <3>1. CASE old.of = "all"
      <4>1. totalDonors' = old.donors /\ donorCount' = old.counts
        BY <1>5, <1>7, <3>1 DEF Tables
      <4>2. \A p : OwnEvents(old.read, p) = {} => DonorsOfProject(old.read, p) = {}
        BY DEF OwnEvents, DonorsOfProject, DonorsOf
      <4> QED BY <1>3, <2>1, <3>1, <4>1, <4>2, FS_EmptySet DEF ReplayDone
    <3>2. CASE old.of # "all"
      <4>1. S = {"donor_history"}
        BY <1>7, <1>19, <3>2
      <4>2. UNCHANGED <<totalDonors, donorCount>> /\ clean
        BY <1>5, <1>18, <3>2, <4>1
      <4> QED BY <2>4, <3>2, <4>2 DEF ProjInv, DonorsCounted
    <3> QED BY <3>1, <3>2
  <2> QED BY <2>3, <2>5
<1>20. ASSUME "donor_history" \notin S PROVE CleanCounts' /\ DonorsCounted'
  <2>1. History' = History
    BY <1>7, <1>14, <1>20 DEF History
  <2>2. old.of # "all" /\ S = {old.of}
    BY <1>7, <1>20
  <2>3. CleanCounts'
    <3> SUFFICES ASSUME clean' PROVE (\A t \in Tables : exempt[t] = {})' /\ \A e \in Events : CountFresh(e, job[e])'
      BY Zenon DEF CleanCounts
    <3>1. Raced(r) = {} /\ clean
      BY <1>5, <1>18, <2>2
    <3>2. \A t \in Tables : exempt'[t] = {}
      BY <1>14, <3>1 DEF ProjInv, CleanCounts
    <3>3. \A e \in Events : CountFresh(e, job[e])
      BY <3>1 DEF ProjInv, CleanCounts
    <3>4. \A e \in Events : CountFresh(e, job[e])'
      BY <1>6, <2>1, <3>3 DEF CountFresh
    <3> QED BY <3>2, <3>4
  <2>4. DonorsCounted'
    <3> SUFFICES ASSUME clean'
                 PROVE  /\ totalDonors' = Cardinality(DonorsOf(History))
                        /\ \A p \in Projects :
                             donorCount'[p] = Cardinality(DonorsOfProject(History, p))
      BY <2>1 DEF DonorsCounted
    <3>1. clean /\ old.of # "global_stats" /\ old.seen = History
      BY <1>18, <2>2
    <3>2. totalDonors' = totalDonors
      BY <1>5, <2>2, <3>1
    <3>3. totalDonors = Cardinality(DonorsOf(History))
      BY <3>1 DEF ProjInv, DonorsCounted
    <3>4. \A p \in Projects : donorCount[p] = Cardinality(DonorsOfProject(History, p))
      BY <3>1 DEF ProjInv, DonorsCounted
    <3>5. old.read = History
      <4>1. \A e \in Events : e \in History <=> e \in old.read
        BY <1>18, <3>1, CleanHistory
      <4> QED BY <1>4, <4>1, HistoryType DEF ProjInv
    <3>6. ASSUME NEW p \in Projects PROVE old.counts[p] = Cardinality(DonorsOfProject(History, p))
      <4> DEFINE own == OwnEvents(History, p)
      <4>1. old.counts[p] = IF own = {} THEN 0
                            ELSE Cardinality(DonorsOfProject(History, p) \cup {DonorOf[Max(own)]})
        BY <1>3, <2>2, <3>1, <3>5 DEF ReplayDone
      <4>2. own \in SUBSET Events
        BY HistoryType DEF OwnEvents, ProjInv
      <4>3. CASE own = {}
        <5>1. DonorsOfProject(History, p) = {}
          BY <4>3 DEF DonorsOfProject, DonorsOf, OwnEvents
        <5> QED BY <4>1, <4>3, <5>1, FS_EmptySet
      <4>4. CASE own # {}
        <5>1. Max(own) \in own
          BY <4>2, <4>4, LastEvent
        <5>2. DonorOf[Max(own)] \in DonorsOfProject(History, p)
          BY <5>1 DEF OwnEvents, DonorsOfProject, DonorsOf
        <5>3. DonorsOfProject(History, p) \cup {DonorOf[Max(own)]} = DonorsOfProject(History, p)
          BY <5>2
        <5> QED BY <4>1, <4>4, <5>3
      <4> QED BY <4>3, <4>4
    <3>7. \A p \in Projects : donorCount'[p] = Cardinality(DonorsOfProject(History, p))
      BY <1>5, <3>4, <3>6
    <3> QED BY <3>2, <3>3, <3>7
  <2> QED BY <2>3, <2>4
<1>21. CleanCounts' /\ DonorsCounted'
  BY <1>19, <1>20
<1>22. \A q \in Rebuilders : ReplayDone(rebuild[q])'
  <2>1. \A q \in Rebuilders : ReplayDone(rebuild'[q])
    <3> TAKE q \in Rebuilders
    <3>1. CASE q = r
      <4>1. rebuild'[r] = row
        BY <1>2 DEF ProjInv, ProjTypes
      <4> QED BY <1>1, <3>1, <4>1 DEF ReplayDone
    <3>2. CASE q # r
      BY <1>2, <3>2 DEF ProjInv, ProjTypes
    <3> QED BY <3>1, <3>2
  <2> QED BY <2>1, Zenon DEF ReplayDone
<1> QED BY <1>15, <1>16, <1>17, <1>21, <1>22 DEF ProjInv

-------------------------------------------------------------------------------
\* Every step keeps the invariant.
LEMMA ProjInvKept == ProjInv /\ [ProjNext]_projVars => ProjInv'
<1> SUFFICES ASSUME ProjInv, [ProjNext]_projVars PROVE ProjInv'
  OBVIOUS
<1>1. ASSUME NEW e \in Events, InsertEvent(e) \/ ProcessEvent(e) \/ EventFails(e)
      PROVE  ProjInv'
  BY <1>1, KeepsInsert, KeepsLeaderboard, KeepsStats, KeepsHistory, KeepsCommit, KeepsFailure
     DEF ProcessEvent
<1>2. ASSUME NEW r \in Rebuilders, RebuildRuns(r) \/ RebuildFails(r) PROVE ProjInv'
  BY <1>2, KeepsReads, KeepsReplays, KeepsSwap, KeepsRebuildFails DEF RebuildRuns
<1>3. ASSUME NEW r \in Rebuilders, NEW of \in Rebuildable, RebuildRequested(r, of) PROVE ProjInv'
  BY <1>3, KeepsRequested
<1>4. CASE UNCHANGED projVars
  <2>1. UNCHANGED <<store, table, donorCount, totalDonors, job, rebuild, exempt, clean, failures>>
    BY <1>4 DEF projVars
  <2>2. History' = History /\ \A e \in Events : Settled(e)' = Settled(e)
    BY <2>1 DEF History, Settled
  <2>3. ProjTypes' /\ ProjectedOnce' /\ RowsExclude' /\ DonorsCounted'
    BY <2>1, <2>2 DEF ProjInv, ProjTypes, ProjectedOnce, RowsExclude, DonorsCounted
  <2>4. CleanCounts'
    BY <2>1, <2>2 DEF ProjInv, CleanCounts, CountFresh
  <2>5. \A r \in Rebuilders : ReplayDone(rebuild[r])'
    BY <2>1, Zenon DEF ProjInv, ReplayDone
  <2> QED BY <2>3, <2>4, <2>5 DEF ProjInv
<1> QED BY <1>1, <1>2, <1>3, <1>4 DEF ProjNext

LEMMA ProjInvSuffices == ProjInv => ProjectionsAgree
<1> SUFFICES ASSUME ProjInv PROVE ProjectionsAgree
  OBVIOUS
<1>1. ProjTypeOK
  BY DEF ProjInv, ProjTypes, ProjTypeOK, JobRows, Steps, RebuildRows
<1> QED BY <1>1 DEF ProjInv, ProjectionsAgree

\* A reader of the projections may rely on them (services/projectionEngine.js): every
\* event that is over is in each table once, except those that failed or raced a rebuild,
\* and the counts of donors are those of the history, for any number of events and rebuilds.
THEOREM ProjectionsReliable == ProjSpec => []ProjectionsAgree
BY ProjInvInit, ProjInvKept, ProjInvSuffices, PTL DEF ProjSpec
===============================================================================
