------------------------------ MODULE Projections ------------------------------
(***************************************************************************)
(* The event store and its projections,                                    *)
(* backend/src/services/projectionEngine.js: an event is appended to       *)
(* donation_events by one statement and projected by a transaction that    *)
(* runs one handler per table; an administrator rebuilds all tables, or    *)
(* one of them, by replaying the store into staging tables that are        *)
(* swapped in.                                                             *)
(*                                                                         *)
(* An event has its own transaction hash, as the `donations` table allows  *)
(* one donated event per transaction.  A total is the number of times each *)
(* event was added to it.  Row and table locks are held until the end of a *)
(* transaction; statements read what is committed (READ COMMITTED).  Each  *)
(* administrator's request runs in a process of its own, so that only the  *)
(* advisory lock keeps rebuilds apart.                                     *)
(***************************************************************************)
EXTENDS Naturals, FiniteSets, FiniteSetsExt

CONSTANTS
  NEvents,         \* bound: the donation events; an event is its id
  DonorOf,         \* the donor of each
  ProjectOf,       \* the project of each (aggregate_id)
  Rebuilders,      \* bound: the rebuild requests, each of which may be made once
  Rebuildable,     \* what they may ask for: "all", or the name of a table
  MaxFailures      \* bound: failed transactions and crashes

Events   == 1 .. NEvents
Tables   == {"donor_leaderboard", "project_stats", "donor_history", "global_stats"}
Donors   == {DonorOf[e] : e \in Events}
Projects == {ProjectOf[e] : e \in Events}

ASSUME ProjectionAssumption ==
  /\ NEvents \in Nat /\ MaxFailures \in Nat
  /\ Rebuildable \subseteq Tables \cup {"all"}

VARIABLES
  store,        \* donation_events
  table,        \* the tables: how often each event was added to each of them
  donorCount,   \* projection_project_stats.donor_count
  totalDonors,  \* projection_global_stats.total_donors
  job,          \* insertEvent and processEvent of each event
  rebuild,      \* the rebuild requests
  exempt,       \* history: events that failed to project, or raced a rebuild, by table
  clean,        \* history: no failure, no race and no rebuild of global_stats alone since a full rebuild
  failures      \* failures still allowed

projVars == <<store, table, donorCount, totalDonors, job, rebuild, exempt, clean, failures>>

NoJob   == [pc |-> "new", donors |-> 0, fresh |-> FALSE]
Request == [pc |-> "idle", of |-> "all", read |-> {}, seen |-> {},
            counts |-> [p \in Projects |-> 0], donors |-> 0]

DonorsOf(events)        == {DonorOf[e] : e \in events}
DonorsOfProject(S, p)   == DonorsOf({e \in S : ProjectOf[e] = p})
History                 == {e \in Events : table["donor_history"][e] > 0}
Flag(b)                 == IF b THEN 1 ELSE 0

-------------------------------------------------------------------------------
(* Locks.                                                                  *)

\* What the transaction of e holds when it has run its handlers up to its pc.
Touched(e) ==
  CASE job[e].pc = "stats"   -> {"donor_leaderboard"}
    [] job[e].pc = "history" -> {"donor_leaderboard", "project_stats", "donor_history"}
    [] job[e].pc = "commit"  -> {"donor_leaderboard", "project_stats", "donor_history"}
    [] OTHER                 -> {}

\* A row lock that another transaction holds makes a handler wait.
RowFree(e, t, same) ==
  \A f \in Events \ {e} : t \in Touched(f) => ~same[f]

SameDonor(e)   == [f \in Events |-> DonorOf[f] = DonorOf[e]]
SameProject(e) == [f \in Events |-> ProjectOf[f] = ProjectOf[e]]

\* Mutant: a session-level lock, which COMMIT and ROLLBACK do not release.
LockFreeUnused == \A r \in Rebuilders : rebuild[r].pc \in {"idle", "waiting"}

\* pg_advisory_xact_lock: one rebuild transaction at a time.
LockFree == \A r \in Rebuilders : rebuild[r].pc \in {"idle", "waiting", "ended"}

-------------------------------------------------------------------------------
(* insertEvent and processEvent.                                           *)

InsertEvent(e) ==
  /\ job[e].pc = "new" /\ store = 1 .. e - 1
  /\ store' = store \cup {e}
  /\ job' = [job EXCEPT ![e].pc = "leaderboard"]
  /\ UNCHANGED <<table, donorCount, totalDonors, rebuild, exempt, clean, failures>>

\* donor_leaderboard: the row of the donor is inserted or incremented.
Leaderboard(e) ==
  /\ job[e].pc = "leaderboard"
  /\ RowFree(e, "donor_leaderboard", SameDonor(e))
  /\ job' = [job EXCEPT ![e].pc = "stats"]
  /\ UNCHANGED <<store, table, donorCount, totalDonors, rebuild, exempt, clean, failures>>

\* project_stats: the row of the project, and its donor_count from the history
\* there is, plus one when the donor is not in it.
ProjectStats(e) ==
  LET seen == DonorsOfProject(History, ProjectOf[e])
  IN  /\ job[e].pc = "stats"
      /\ RowFree(e, "project_stats", SameProject(e))
      /\ job' = [job EXCEPT ![e].pc = "history",
                            ![e].donors = Cardinality(seen \cup {DonorOf[e]})]
      /\ UNCHANGED <<store, table, donorCount, totalDonors, rebuild, exempt, clean, failures>>

\* donor_history, and the read of global_stats: has the donor another row?
DonorHistory(e) ==
  /\ job[e].pc = "history"
  /\ job' = [job EXCEPT ![e].pc = "commit",
                        ![e].fresh = DonorOf[e] \notin DonorsOf(History \ {e})]
  /\ UNCHANGED <<store, table, donorCount, totalDonors, rebuild, exempt, clean, failures>>

\* global_stats updates the singleton row, and COMMIT follows: ON CONFLICT
\* (transaction_hash) keeps the history a set; the other tables are increments.
CommitEvent(e) ==
  /\ job[e].pc = "commit"
  /\ table' = [t \in Tables |->
                 [table[t] EXCEPT ![e] = IF t = "donor_history" THEN 1 ELSE @ + 1]]
  /\ donorCount' = [donorCount EXCEPT ![ProjectOf[e]] = job[e].donors]
  /\ totalDonors' = totalDonors + Flag(job[e].fresh)
  /\ job' = [job EXCEPT ![e] = [NoJob EXCEPT !.pc = "done"]]
  /\ UNCHANGED <<store, rebuild, exempt, clean, failures>>

\* ROLLBACK, or the process dies after the append: the caller only logs, and
\* nothing projects the event again but a rebuild.
EventFails(e) ==
  /\ job[e].pc \notin {"new", "done", "failed"} /\ failures > 0
  /\ failures' = failures - 1
  /\ job' = [job EXCEPT ![e] = [NoJob EXCEPT !.pc = "failed"]]
  /\ exempt' = [t \in Tables |-> exempt[t] \cup {f \in {e} : table[t][e] = 0}]
  /\ clean' = FALSE
  /\ UNCHANGED <<store, table, donorCount, totalDonors, rebuild>>

-------------------------------------------------------------------------------
(* rebuildAllProjections and rebuildProjection.                            *)

Scope(of) == IF of = "all" THEN Tables ELSE {of}

RebuildRequested(r, of) ==
  /\ rebuild[r].pc = "idle"
  /\ rebuild' = [rebuild EXCEPT ![r] = [Request EXCEPT !.pc = "waiting", !.of = of]]
  /\ UNCHANGED <<store, table, donorCount, totalDonors, job, exempt, clean, failures>>

\* BEGIN, the advisory lock, the staging tables, and the one SELECT of
\* donation_events.
RebuildReads(r) ==
  /\ rebuild[r].pc = "waiting" /\ LockFree
  /\ rebuild' = [rebuild EXCEPT ![r].pc = "replay", ![r].read = store]
  /\ UNCHANGED <<store, table, donorCount, totalDonors, job, exempt, clean, failures>>

\* donor_count after a replay.  A table rebuilt alone reads the live history:
\* the last event of a project counts its donors there, and its own.
Counts(r, p) ==
  LET own == {e \in rebuild[r].read : ProjectOf[e] = p}
  IN  CASE own = {}                -> 0
        [] rebuild[r].of = "all"   -> Cardinality(DonorsOf(own))
        [] OTHER                   ->
             Cardinality(DonorsOfProject(History, p) \cup {DonorOf[Max(own)]})

\* total_donors after a replay: alone, an event is a new donor's if the donor has
\* no other row in the live history.
NewDonors(r) ==
  LET read == rebuild[r].read
  IN  IF rebuild[r].of = "all" THEN Cardinality(DonorsOf(read))
      ELSE Cardinality({e \in read : DonorOf[e] \notin DonorsOf(History \ {e})})

\* The replay into the staging tables; it reads the live history at one moment.
RebuildReplays(r) ==
  /\ rebuild[r].pc = "replay"
  /\ rebuild' = [rebuild EXCEPT ![r].pc = "swap", ![r].seen = History,
                   ![r].counts = [p \in Projects |-> Counts(r, p)],
                   ![r].donors = NewDonors(r)]
  /\ UNCHANGED <<store, table, donorCount, totalDonors, job, exempt, clean, failures>>

Settled(e) == job[e].pc \in {"done", "failed"}

\* Events that r read before they were projected, or did not read although they
\* are over by now.
Raced(r) == {e \in Events : (e \in rebuild[r].read) # Settled(e)}

\* Mutant: the replay runs over the live table instead of an empty one.
StagedOnLive(r, t) == [e \in Events |-> table[t][e] + Flag(e \in rebuild[r].read)]

Staged(r, t) == [e \in Events |-> Flag(e \in rebuild[r].read)]

\* swapStagedProjections and COMMIT: ACCESS EXCLUSIVE locks wait for every
\* transaction that has touched one of the tables.
RebuildSwaps(r) ==
  LET S == Scope(rebuild[r].of)
  IN  /\ rebuild[r].pc = "swap"
      /\ \A e \in Events : Touched(e) \cap S = {}
      /\ table' = [t \in Tables |-> IF t \in S THEN Staged(r, t) ELSE table[t]]
      /\ donorCount' = IF "project_stats" \in S THEN rebuild[r].counts ELSE donorCount
      /\ totalDonors' = IF "global_stats" \in S THEN rebuild[r].donors ELSE totalDonors
      /\ exempt' = [t \in Tables |-> IF t \in S THEN Raced(r) ELSE exempt[t]]
      /\ clean' = /\ Raced(r) = {}
                  /\ \/ rebuild[r].of = "all"
                     \/ clean /\ rebuild[r].of # "global_stats" /\ rebuild[r].seen = History
      /\ rebuild' = [rebuild EXCEPT ![r] = [Request EXCEPT !.pc = "ended"]]
      /\ UNCHANGED <<store, job, failures>>

\* ROLLBACK drops the staging tables and the lock.
RebuildFails(r) ==
  /\ rebuild[r].pc \in {"replay", "swap"} /\ failures > 0
  /\ failures' = failures - 1
  /\ rebuild' = [rebuild EXCEPT ![r] = [Request EXCEPT !.pc = "ended"]]
  /\ UNCHANGED <<store, table, donorCount, totalDonors, job, exempt, clean>>

-------------------------------------------------------------------------------
ProjInit ==
  /\ store = {}
  /\ table = [t \in Tables |-> [e \in Events |-> 0]]
  /\ donorCount = [p \in Projects |-> 0] /\ totalDonors = 0
  /\ job = [e \in Events |-> NoJob]
  /\ rebuild = [r \in Rebuilders |-> Request]
  /\ exempt = [t \in Tables |-> {}] /\ clean = TRUE
  /\ failures = MaxFailures

ProcessEvent(e) ==
  \/ Leaderboard(e) \/ ProjectStats(e) \/ DonorHistory(e) \/ CommitEvent(e)

RebuildRuns(r) ==
  \/ RebuildReads(r) \/ RebuildReplays(r) \/ RebuildSwaps(r)

ProjNext ==
  \/ \E e \in Events : InsertEvent(e) \/ ProcessEvent(e) \/ EventFails(e)
  \/ \E r \in Rebuilders :
       \/ RebuildRuns(r) \/ RebuildFails(r)
       \/ \E of \in Rebuildable : RebuildRequested(r, of)

\* A transaction that has begun goes on, whichever locks it waits for.
ProjFairness ==
  /\ \A e \in Events : WF_projVars(ProcessEvent(e))
  /\ \A r \in Rebuilders : SF_projVars(RebuildReads(r)) /\ WF_projVars(RebuildRuns(r))

ProjSpec == ProjInit /\ [][ProjNext]_projVars /\ ProjFairness

-------------------------------------------------------------------------------
(* Properties                                                              *)

\* Every variable has its type, and the history holds an event at most once,
\* although the live path may project what a rebuild has read.
ProjTypeOK ==
  /\ store \subseteq Events
  /\ table \in [Tables -> [Events -> Nat]]
  /\ \A e \in Events : table["donor_history"][e] <= 1
  /\ donorCount \in [Projects -> Nat] /\ totalDonors \in Nat
  /\ job \in [Events -> [pc : {"new", "leaderboard", "stats", "history", "commit",
                               "done", "failed"},
                         donors : Nat, fresh : BOOLEAN]]
  /\ \A r \in Rebuilders :
       /\ rebuild[r].pc \in {"idle", "waiting", "replay", "swap", "ended"}
       /\ rebuild[r].of \in Tables \cup {"all"}
  /\ exempt \in [Tables -> SUBSET Events] /\ clean \in BOOLEAN
  /\ failures \in 0 .. MaxFailures

\* Each table counts every projected event once, through any rebuild of it or of
\* the others, and a rebuild makes good what failed.  Excepted are exactly the events
\* that failed since, and those appended or projected while a rebuild was between
\* its read of the store and its swap (rebuildAllProjections reads once).
ProjectedOnce ==
  \A t \in Tables : \A e \in Events \ exempt[t] : table[t][e] = Flag(Settled(e))

\* The derived counts of donors are those of the history although handlers of
\* different donations interleave: the leaderboard's row lock keeps two
\* donations of a donor apart, the project's row lock two of a project.
DonorsCounted ==
  clean => /\ totalDonors = Cardinality(DonorsOf(History))
           /\ \A p \in Projects : donorCount[p] = Cardinality(DonorsOfProject(History, p))

\* Every rebuild that is requested ends: rebuilds and event transactions take
\* their locks in one order, and a failed rebuild lets go of the advisory lock.
RebuildEnds == \A r \in Rebuilders : rebuild[r].pc = "waiting" ~> rebuild[r].pc = "ended"

\* What a reader of the tables may rely on: an event is in each of them once, and the
\* counts derived from the history are those of the history.
ProjectionsAgree == ProjTypeOK /\ ProjectedOnce /\ DonorsCounted
===============================================================================
