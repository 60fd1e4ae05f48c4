----------------------------- MODULE AdvisoryCycles -----------------------------
(***************************************************************************)
(* backend/src/services/advisoryLock.js around a worker's cycle, and the   *)
(* loop, ticks and drain of recurringKeeper.js and workerLifecycle.js, in  *)
(* replicas of the backend.  The lock is of a database session: it may be  *)
(* taken again in the session that has it, it is counted, and it is        *)
(* dropped when the session ends.  Sessions belong to a replica's pool.    *)
(***************************************************************************)
EXTENDS Naturals, FiniteSets

CONSTANTS Replicas,
          Sessions,     \* the sessions each pool may open
          MaxDepth,     \* bound on how often one session holds the lock
          NoSession

ASSUME CycleAssumption == MaxDepth \in Nat \ {0}

VARIABLES locks,     \* how often each session holds the lock
          using,     \* the cycle on each session: none, asking, running, or severed from it
          executing, \* isExecuting: the session of the tick under way
          drain,     \* each replica's controller: starting, running, draining, drained
          overran    \* history: replicas whose drain ended with the grace period

cycleVars == <<locks, using, executing, drain, overran>>

Place       == Replicas \X Sessions
Held        == {s \in Place : locks[s] > 0}
InFlight(r) == {s \in Place : s[1] = r /\ using[s] # "free"}

-------------------------------------------------------------------------------
(* The loop of a replica *)

\* start(): the first cycle, tracked, without isExecuting: the first tick may begin beside it
FirstCycle(s) ==
  /\ drain[s[1]] = "starting" /\ using[s] = "free"
  /\ drain' = [drain EXCEPT ![s[1]] = "running"]
  /\ using' = [using EXCEPT ![s] = "asking"]
  /\ UNCHANGED <<locks, executing, overran>>

Tick(s) ==
  /\ drain[s[1]] = "running" /\ using[s] = "free"
  /\ executing[s[1]] = NoSession
  /\ executing' = [executing EXCEPT ![s[1]] = s[2]]
  /\ using' = [using EXCEPT ![s] = "asking"]
  /\ UNCHANGED <<locks, drain, overran>>

\* stop(): no tick any more; drained when nothing is in flight or the grace period has passed
BeginDrain(r) ==
  /\ drain[r] = "running"
  /\ drain' = [drain EXCEPT ![r] = "draining"]
  /\ UNCHANGED <<locks, using, executing, overran>>

Drains(r) ==
  /\ drain[r] = "draining" /\ InFlight(r) = {}
  /\ drain' = [drain EXCEPT ![r] = "drained"]
  /\ UNCHANGED <<locks, using, executing, overran>>

GraceExpires(r) ==
  /\ drain[r] = "draining" /\ InFlight(r) # {}
  /\ drain' = [drain EXCEPT ![r] = "drained"] /\ overran' = overran \union {r}
  /\ UNCHANGED <<locks, using, executing>>

-------------------------------------------------------------------------------
(* withAdvisoryLock *)

\* client.release(): the session goes back to the pool with whatever it holds
Releases(s) ==
  /\ using' = [using EXCEPT ![s] = "free"]
  /\ executing' = [executing EXCEPT ![s[1]] = IF @ = s[2] THEN NoSession ELSE @]

\* pg_try_advisory_lock: nobody's, or this session's already
Grants(s)       == Held \subseteq {s}

TriesLock(s) ==
  /\ using[s] = "asking"
  /\ IF Grants(s)
     THEN /\ locks[s] < MaxDepth /\ locks' = [locks EXCEPT ![s] = @ + 1]
          /\ using' = [using EXCEPT ![s] = "running"] /\ UNCHANGED executing
     ELSE Releases(s) /\ UNCHANGED locks
  /\ UNCHANGED <<drain, overran>>

\* fn returns or throws; the unlock succeeds, or fails, which is only logged
Unlocks(s) ==
  /\ using[s] = "running"
  /\ locks' = [locks EXCEPT ![s] = @ - 1] \/ UNCHANGED locks
  /\ Releases(s)
  /\ UNCHANGED <<drain, overran>>

\* the session ends, idle in the pool or under a cycle, which goes on without the lock
SessionEnds(s) ==
  /\ locks[s] > 0 /\ using[s] \in {"free", "running"}
  /\ locks' = [locks EXCEPT ![s] = 0]
  /\ using' = [using EXCEPT ![s] = IF @ = "running" THEN "severed" ELSE @]
  /\ UNCHANGED <<executing, drain, overran>>

SeveredEnds(s) ==
  /\ using[s] = "severed"
  /\ Releases(s)
  /\ UNCHANGED <<locks, drain, overran>>

-------------------------------------------------------------------------------
CycleInit ==
  /\ locks = [s \in Place |-> 0] /\ using = [s \in Place |-> "free"]
  /\ executing = [r \in Replicas |-> NoSession] /\ drain = [r \in Replicas |-> "starting"]
  /\ overran = {}

CycleNext ==
  \/ \E s \in Place : FirstCycle(s) \/ Tick(s) \/ TriesLock(s) \/ Unlocks(s) \/ SessionEnds(s)
                      \/ SeveredEnds(s)
  \/ \E r \in Replicas : BeginDrain(r) \/ Drains(r) \/ GraceExpires(r)

-------------------------------------------------------------------------------
(* Properties *)

\* The variables have their types, and a replica is drained with a cycle in flight only when
\* the grace period cut the wait short.
CycleTypeOK ==
  /\ locks \in [Place -> 0..MaxDepth]
  /\ using \in [Place -> {"free", "asking", "running", "severed"}]
  /\ executing \in [Replicas -> Sessions \union {NoSession}]
  /\ drain \in [Replicas -> {"starting", "running", "draining", "drained"}]
  /\ overran \subseteq Replicas
  /\ \A r \in Replicas : drain[r] = "drained" /\ InFlight(r) # {} => r \in overran

\* One replica runs a cycle at a time, and its session has the lock: the exception is a cycle
\* whose session has ended, which another may overtake.  A lock left behind by a failed unlock
\* keeps others out; it never lets a second cycle in.
OneCycle ==
  /\ \A s \in Place : using[s] = "running" => locks[s] > 0
  /\ Cardinality({s \in Place : using[s] = "running"}) <= 1
===============================================================================
