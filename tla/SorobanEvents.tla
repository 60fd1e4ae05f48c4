----------------------------- MODULE SorobanEvents -----------------------------
(***************************************************************************)
(* The Soroban event service, backend/src/services/sorobanEventService.js: *)
(* polls that may overlap, the durable de-duplication table and cursor,    *)
(* the handlers of the events that change tables, the dead-letter queue    *)
(* with its retry ladder, and the operator's restart, rescan and range     *)
(* rescan.                                                                 *)
(*                                                                         *)
(* An event is its position in the contract's event stream, so a cursor    *)
(* is the event it names and 0 the empty string; the RPC is external and   *)
(* returns the events after a cursor in order.  Events that are only       *)
(* logged are left out: the interesting ones are the two that pay          *)
(* (donated, rec_exec) and the two that open and cancel the recurring      *)
(* plan rec_exec looks up (rec_cr, rec_can); one plan is modelled.  A      *)
(* transaction may emit several events (batch_donate).                     *)
(*                                                                         *)
(* Failures, operator requests and restarts are "disturbances": each       *)
(* takes one unit of a bounded budget.                                     *)
(***************************************************************************)
EXTENDS Integers, FiniteSets

CONSTANTS
  NEvents,         \* bound: events the contract emits
  KindOf,          \* the type of each event
  TxOf,            \* the transaction that emitted it
  Batch,           \* BATCH_SIZE
  MaxRetries,      \* DLQ_MAX_RETRIES
  Pollers,         \* bound: pollEvents activations that may overlap
  Disturbances,    \* the kinds of disturbance that may happen
  MaxDisturbances  \* bound: their number in a behaviour

Events   == 1 .. NEvents
Cursors  == 0 .. NEvents
Kinds    == {"donated", "rec_cr", "rec_can", "rec_exec"}
Paying   == {e \in Events : KindOf[e] \in {"donated", "rec_exec"}}
Donated  == {e \in Events : KindOf[e] = "donated"}
DLQCycle == "pollDLQ"        \* the one pollDLQ activation
Range    == "rescanRange"    \* the one rescanRange activation
Active   == Pollers \cup {DLQCycle, Range}

ASSUME EventsAssumption ==
  /\ NEvents \in Nat \ {0}
  /\ KindOf \in [Events -> Kinds]
  /\ DOMAIN TxOf = Events
  /\ Batch \in Nat \ {0} /\ MaxRetries \in Nat \ {0}
  /\ MaxDisturbances \in Nat
  /\ Pollers \cap {DLQCycle, Range} = {}

VARIABLES
  emitted,      \* the RPC: number of events emitted so far
  rows,         \* donations: the payments that have a row
  credited,     \* projects.raised_xlm: how often each payment was added to it
  store,        \* donation_events: how often each donation was appended
  plan,         \* recurring_donations: the row of the one plan
  processed,    \* soroban_processed_events
  saved,        \* indexer_state['soroban_event_cursor']
  dlq,          \* soroban_event_dlq: the latest entry of each event
  phase,        \* of the service within its process
  cursor,       \* currentCursor
  held,         \* the cursor that start() or stop() holds across its await
  act,          \* the activations: program counter and local variables
  dropped,      \* history: events a double fault dropped, with a log line only
  budget        \* disturbances still allowed

ledgers == <<rows, credited, store, plan>>
tables  == <<processed, saved, dlq>>
service == <<phase, cursor, held>>
vars    == <<emitted, ledgers, tables, service, act, dropped, budget>>

Idle    == [pc |-> "idle", ev |-> 0, last |-> 0, seen |-> 0, sound |-> TRUE]
NoEntry == [status |-> "absent", retries |-> 0]

Steps   == {"idle", "check", "handle", "insert", "append", "handled", "failed", "finish"}
Records == [pc : Steps, ev : Cursors, last : Cursors,
            seen : Cursors \cup 0 .. MaxRetries,
            sound : BOOLEAN]

Entries == [status : {"absent", "live", "resolved", "quarantined"},
            retries : 0 .. MaxRetries]

Smaller(m, n) == IF m <= n THEN m ELSE n

Disturb(d) == d \in Disturbances /\ budget > 0 /\ budget' = budget - 1
Calm       == budget' = budget

Goto(a, pc) == act' = [act EXCEPT ![a].pc = pc]
Ends(a)     == act' = [act EXCEPT ![a] = Idle]

\* The loop of a scan: on to the next event of the batch, or out of the loop.
NextEvent(a, seen) ==
  LET r    == act[a]
      more == r.ev < r.last
  IN  act' = [act EXCEPT ![a] =
                [pc |-> IF more THEN "check" ELSE "finish",
                 ev |-> IF more THEN r.ev + 1 ELSE r.ev,
                 last |-> r.last, seen |-> seen, sound |-> TRUE]]

-------------------------------------------------------------------------------
(* The chain and the other writer of donation rows.                        *)

Emit ==
  /\ emitted < NEvents
  /\ emitted' = emitted + 1
  /\ UNCHANGED <<ledgers, tables, service, act, dropped, budget>>

\* SELECT ... FROM donations WHERE transaction_hash = ...
Recorded(e) == \E r \in rows : TxOf[r] = TxOf[e]

\* The row of e and its increment of raised_xlm, at their common COMMIT.
Record(e) ==
  /\ rows' = rows \cup {e}
  /\ credited' = [credited EXCEPT ![e] = @ + 1]

\* POST /api/donations records a donation the client has just made; it refuses
\* a transaction that has a row, and appends nothing to donation_events.
ApiRecords(e) ==
  /\ e \in Donated /\ e <= emitted /\ ~Recorded(e)
  /\ Record(e)
  /\ UNCHANGED <<emitted, store, plan, tables, service, act, dropped, budget>>

-------------------------------------------------------------------------------
(* pollEvents                                                              *)

\* getEvents(currentCursor, limit), which found something.  The timer starts a
\* poll whether or not the previous one has finished.
Fetch(p) ==
  /\ phase = "up" /\ act[p].pc = "idle"
  /\ cursor < emitted
  /\ act' = [act EXCEPT ![p] =
               [pc |-> "check", ev |-> cursor + 1,
                last |-> Smaller(emitted, cursor + Batch),
                seen |-> cursor, sound |-> TRUE]]
  /\ UNCHANGED <<emitted, ledgers, tables, service, dropped, budget>>

\* Mutant: the event is marked before its handler runs.
CheckMarks(p) ==
  /\ act[p].pc = "check"
  /\ IF act[p].ev \in processed THEN Ends(p) ELSE Goto(p, "handle")
  /\ processed' = processed \cup {act[p].ev}
  /\ Calm
  /\ UNCHANGED <<emitted, ledgers, saved, dlq, service, dropped>>

\* Connect, BEGIN, isEventProcessed.  An event that is already processed
\* releases the client twice (before `continue` and in `finally`), which
\* throws: the poll ends there, without moving currentCursor.
Check(p) ==
  /\ act[p].pc = "check"
  /\ IF act[p].ev \in processed THEN Ends(p) ELSE Goto(p, "handle")
  /\ Calm
  /\ UNCHANGED <<emitted, ledgers, tables, service, dropped>>

\* pool.connect, or BEGIN and then ROLLBACK, throws: the poll ends.
ConnectFails(p) ==
  /\ act[p].pc = "check" /\ Disturb("connect")
  /\ Ends(p)
  /\ UNCHANGED <<emitted, ledgers, tables, service, dropped>>

\* BEGIN fails but ROLLBACK succeeds: the loop goes on to the next event.
BeginFails(p) ==
  /\ act[p].pc = "check" /\ Disturb("begin")
  /\ NextEvent(p, act[p].seen)
  /\ dropped' = dropped \cup {act[p].ev}
  /\ UNCHANGED <<emitted, ledgers, tables, service>>

\* isEventProcessed fails and answers false; the failed statement has aborted
\* the transaction, whose COMMIT will then be a rollback.
CheckFails(p) ==
  /\ act[p].pc = "check" /\ Disturb("dedup")
  /\ act' = [act EXCEPT ![p].pc = "handle", ![p].sound = FALSE]
  /\ UNCHANGED <<emitted, ledgers, tables, service, dropped>>

\* writeToDLQ: a new entry, unless one is live, whose retry_count it keeps.
DeadLetter(e) ==
  dlq' = [dlq EXCEPT ![e] = IF @.status = "live" THEN @
                            ELSE [status |-> "live", retries |-> 0]]

\* The handler threw.  A failure of writeToDLQ itself is only logged.
DeadLetters(p) ==
  /\ act[p].pc = "failed"
  /\ Goto(p, "handled")
  /\ \/ Calm /\ DeadLetter(act[p].ev) /\ dropped' = dropped
     \/ /\ Disturb("dlqWrite") /\ dlq' = dlq
        /\ dropped' = dropped \cup {act[p].ev}
  /\ UNCHANGED <<emitted, ledgers, processed, saved, service>>

\* Mutant: the cursor of the whole batch is saved with its first event.
CommitBatch(p) ==
  /\ act[p].pc = "handled"
  /\ NextEvent(p, act[p].ev)
  /\ Calm
  /\ processed' = processed \cup {act[p].ev} /\ saved' = act[p].last
  /\ UNCHANGED <<emitted, ledgers, dlq, service, dropped>>

\* markEventProcessed, saveCursor and COMMIT; newCursor is already assigned.
\* A failure of one of the three persists nothing, and the loop goes on.
Commit(p) ==
  /\ act[p].pc = "handled"
  /\ NextEvent(p, act[p].ev)
  /\ \/ /\ Calm /\ act[p].sound
        /\ processed' = processed \cup {act[p].ev}
        /\ saved' = act[p].ev
     \/ /\ Calm /\ ~act[p].sound
        /\ UNCHANGED <<processed, saved>>
     \/ /\ Disturb("commit")
        /\ UNCHANGED <<processed, saved>>
  /\ UNCHANGED <<emitted, ledgers, dlq, service, dropped>>

\* After the loop: currentCursor = newCursor, if there is one.
Finish(p) ==
  /\ act[p].pc = "finish"
  /\ cursor' = IF act[p].seen > 0 THEN act[p].seen ELSE cursor
  /\ Ends(p)
  /\ UNCHANGED <<emitted, ledgers, tables, phase, held, dropped, budget>>

-------------------------------------------------------------------------------
(* The handlers, whichever activation a runs them.                         *)

\* rec_cr inserts the plan or makes it active again; rec_can deactivates it,
\* which changes nothing when there is no row.
HandlePlan(a) ==
  /\ act[a].pc = "handle"
  /\ \/ KindOf[act[a].ev] = "rec_cr" /\ plan' = "active"
     \/ KindOf[act[a].ev] = "rec_can"
        /\ plan' = IF plan = "absent" THEN plan ELSE "cancelled"
  /\ Goto(a, "handled")
  /\ UNCHANGED <<emitted, rows, credited, store, tables, service, dropped, budget>>

\* handleDonated and handleRecExec look for a row of the transaction;
\* handleRecExec skips first when it finds no plan, active or not.
Skipped(e) ==
  \/ Recorded(e)
  \/ KindOf[e] = "rec_exec" /\ plan = "absent"

\* Mutant: a duplicate still reaches the event store.
LookupAppends(a) ==
  /\ act[a].pc = "handle" /\ act[a].ev \in Paying
  /\ Goto(a, IF Skipped(act[a].ev) THEN "append" ELSE "insert")
  /\ UNCHANGED <<emitted, ledgers, tables, service, dropped, budget>>

Lookup(a) ==
  /\ act[a].pc = "handle" /\ act[a].ev \in Paying
  /\ Goto(a, IF Skipped(act[a].ev) THEN "handled" ELSE "insert")
  /\ UNCHANGED <<emitted, ledgers, tables, service, dropped, budget>>

\* Mutant: there is no unique index.
InsertAnyway(a) ==
  /\ act[a].pc = "insert"
  /\ Record(act[a].ev)
  /\ Goto(a, IF act[a].ev \in Donated THEN "append" ELSE "handled")
  /\ UNCHANGED <<emitted, store, plan, tables, service, dropped, budget>>

\* The donation transaction, at its COMMIT; a row of the transaction that
\* another writer committed since the lookup violates the unique index.
Insert(a) ==
  /\ act[a].pc = "insert"
  /\ IF Recorded(act[a].ev)
       THEN Goto(a, "failed") /\ UNCHANGED <<rows, credited>>
       ELSE /\ Record(act[a].ev)
            /\ Goto(a, IF act[a].ev \in Donated THEN "append" ELSE "handled")
  /\ UNCHANGED <<emitted, store, plan, tables, service, dropped, budget>>

\* Any other failure before that COMMIT.
HandlerFails(a) ==
  /\ act[a].pc \in {"handle", "insert"} /\ Disturb("handler")
  /\ Goto(a, "failed")
  /\ UNCHANGED <<emitted, ledgers, tables, service, dropped>>

\* insertEvent and processEvent, after the COMMIT; a failure is only logged.
Append(a) ==
  /\ act[a].pc = "append"
  /\ \/ Calm /\ store' = [store EXCEPT ![act[a].ev] = @ + 1]
     \/ Disturb("append") /\ store' = store
  /\ Goto(a, "handled")
  /\ UNCHANGED <<emitted, rows, credited, plan, tables, service, dropped>>

-------------------------------------------------------------------------------
(* pollDLQ and retryDLQEntry.                                              *)

\* The cycle is due for an entry; seen is the retry_count it has read.
Retry(e) ==
  /\ phase = "up" /\ act[DLQCycle].pc = "idle"
  /\ dlq[e].status = "live" /\ dlq[e].retries < MaxRetries
  /\ act' = [act EXCEPT ![DLQCycle] =
               [Idle EXCEPT !.pc = "handle", !.ev = e, !.seen = dlq[e].retries]]
  /\ UNCHANGED <<emitted, ledgers, tables, service, dropped, budget>>

\* The handler returned: the entry is resolved, unless the update fails, which
\* counts as a failure of the handler.
Resolve ==
  /\ act[DLQCycle].pc = "handled"
  /\ \/ /\ Calm /\ Ends(DLQCycle)
        /\ dlq' = [dlq EXCEPT ![act[DLQCycle].ev].status = "resolved"]
     \/ Disturb("resolve") /\ Goto(DLQCycle, "failed") /\ dlq' = dlq
  /\ UNCHANGED <<emitted, ledgers, processed, saved, service, dropped>>

\* Mutant: one rung too many.
ClimbedLate(n) ==
  [status |-> IF n + 1 > MaxRetries THEN "quarantined" ELSE "live", retries |-> n + 1]

\* One step up the ladder; its last rung is the quarantine.
Climbed(n) ==
  [status |-> IF n + 1 >= MaxRetries THEN "quarantined" ELSE "live", retries |-> n + 1]

Climb ==
  /\ act[DLQCycle].pc = "failed"
  /\ Ends(DLQCycle)
  /\ \/ /\ Calm
        /\ dlq' = [dlq EXCEPT ![act[DLQCycle].ev] = Climbed(act[DLQCycle].seen)]
     \/ Disturb("resolve") /\ dlq' = dlq
  /\ UNCHANGED <<emitted, ledgers, processed, saved, service, dropped>>

-------------------------------------------------------------------------------
(* The operator's requests and the life of the service.                    *)

\* POST /admin/indexer/rescan: rescanRange starts, in the background.
RangeRequested(from, to) ==
  /\ phase = "up" /\ act[Range].pc = "idle" /\ Disturb("range")
  /\ act' = [act EXCEPT ![Range] =
               [Idle EXCEPT !.pc = "check", !.ev = from, !.last = to]]
  /\ UNCHANGED <<emitted, ledgers, tables, service, dropped>>

\* It skips processed events, and ends when the RPC has no more.
RangeCheck ==
  /\ act[Range].pc = "check"
  /\ IF act[Range].ev > emitted THEN Ends(Range)
     ELSE IF act[Range].ev \in processed THEN NextEvent(Range, 0)
     ELSE Goto(Range, "handle")
  /\ UNCHANGED <<emitted, ledgers, tables, service, dropped, budget>>

\* A handled event is marked, outside any transaction; a failure to mark it, or
\* of the handler, is only logged.
RangeMark ==
  /\ \/ /\ act[Range].pc = "handled"
        /\ processed' = processed \cup {act[Range].ev}
     \/ /\ act[Range].pc \in {"handled", "failed"}
        /\ processed' = processed
  /\ NextEvent(Range, 0)
  /\ UNCHANGED <<emitted, ledgers, saved, dlq, service, dropped, budget>>

RangeEnds ==
  /\ act[Range].pc = "finish"
  /\ Ends(Range)
  /\ UNCHANGED <<emitted, ledgers, tables, service, dropped, budget>>

\* POST /admin/events/rescan: from a cursor at or before the present one
\* (the bound of the instance), or from the start with an empty table.
Rescan(c) ==
  /\ phase = "up" /\ c <= cursor /\ Disturb("rescan")
  /\ cursor' = c
  /\ processed' = IF c = 0 THEN {} ELSE processed
  /\ UNCHANGED <<emitted, ledgers, saved, dlq, phase, held, act, dropped>>

\* Mutant: the cursor lives in memory only.
StartFresh ==
  /\ phase \in {"down", "stopped"}
  /\ phase' = "loading" /\ held' = 0 /\ Calm
  /\ UNCHANGED <<emitted, ledgers, tables, cursor, act, dropped>>

\* start(): loadCursor reads the row; a failure is logged and answers "".
Start ==
  /\ phase \in {"down", "stopped"}
  /\ phase' = "loading"
  /\ \/ Calm /\ held' = saved
     \/ Disturb("load") /\ held' = 0
  /\ UNCHANGED <<emitted, ledgers, tables, cursor, act, dropped>>

Loaded ==
  /\ phase = "loading"
  /\ phase' = "up" /\ cursor' = held /\ held' = 0
  /\ UNCHANGED <<emitted, ledgers, tables, act, dropped, budget>>

\* stop(): no further poll starts, those under way go on; currentCursor is
\* saved when there is one.
Stop ==
  /\ phase = "up" /\ Disturb("stop")
  /\ phase' = "stopping" /\ held' = cursor
  /\ UNCHANGED <<emitted, ledgers, tables, cursor, act, dropped>>

StopSaves ==
  /\ phase = "stopping"
  /\ phase' = "stopped" /\ held' = 0
  /\ saved' = IF held > 0 THEN held ELSE saved
  /\ UNCHANGED <<emitted, ledgers, processed, dlq, cursor, act, dropped, budget>>

\* The process exits after stop(), or dies; a new one starts from the tables.
Gone ==
  /\ phase' = "down" /\ cursor' = 0 /\ held' = 0
  /\ act' = [a \in Active |-> Idle]
  /\ UNCHANGED <<emitted, ledgers, tables, dropped>>

Exit  == phase = "stopped" /\ Gone /\ Calm
Crash == phase # "down" /\ Disturb("crash") /\ Gone

-------------------------------------------------------------------------------
Init ==
  /\ emitted = 0
  /\ rows = {} /\ credited = [e \in Events |-> 0] /\ store = [e \in Events |-> 0]
  /\ plan = "absent"
  /\ processed = {} /\ saved = 0 /\ dlq = [e \in Events |-> NoEntry]
  /\ phase = "down" /\ cursor = 0 /\ held = 0
  /\ act = [a \in Active |-> Idle]
  /\ dropped = {} /\ budget = MaxDisturbances

Handle(a) == HandlePlan(a) \/ Lookup(a) \/ Insert(a) \/ HandlerFails(a) \/ Append(a)

Poll(p) ==
  \/ Fetch(p) \/ Check(p) \/ ConnectFails(p) \/ BeginFails(p) \/ CheckFails(p)
  \/ Handle(p) \/ DeadLetters(p) \/ Commit(p) \/ Finish(p)

PollDLQ == (\E e \in Events : Retry(e)) \/ Handle(DLQCycle) \/ Resolve \/ Climb

RescanRange == RangeCheck \/ Handle(Range) \/ RangeMark \/ RangeEnds

Life == Start \/ Loaded \/ StopSaves \/ Exit

Request ==
  \/ Stop \/ Crash
  \/ \E from, to \in Events : RangeRequested(from, to)
  \/ \E c \in Cursors : Rescan(c)

Next ==
  \/ Emit \/ Life \/ Request \/ PollDLQ \/ RescanRange
  \/ \E e \in Events : ApiRecords(e)
  \/ \E p \in Pollers : Poll(p)

Spec == Init /\ [][Next]_vars

\* The timers fire while the service is up, an activation runs on, a service
\* that is down is started again, and the contract goes on emitting.
Fairness ==
  /\ WF_vars(Emit) /\ WF_vars(Life) /\ WF_vars(PollDLQ)
  /\ \A p \in Pollers : WF_vars(Poll(p))

FairSpec == Spec /\ Fairness

-------------------------------------------------------------------------------
(* Properties                                                              *)

\* Every variable has its type; in particular a live entry is below the cap of
\* its retry ladder, so that the ladder ends (retryDLQEntry, pollDLQ).
TypeOK ==
  /\ emitted \in Cursors
  /\ rows \subseteq Paying
  /\ credited \in [Events -> Nat] /\ store \in [Events -> Nat]
  /\ plan \in {"absent", "active", "cancelled"}
  /\ processed \subseteq Events /\ saved \in Cursors
  /\ dlq \in [Events -> Entries]
  /\ \A e \in Events : dlq[e].status = "live" => dlq[e].retries < MaxRetries
  /\ phase \in {"down", "loading", "up", "stopping", "stopped"}
  /\ cursor \in Cursors /\ held \in Cursors
  /\ act \in [Active -> Records]
  /\ dropped \subseteq Events /\ budget \in 0 .. MaxDisturbances

\* Overlapping polls, retries, range rescans and POST /api/donations record a
\* payment once and credit it once, whatever fails in between.
Ledger == INSTANCE DonationLedger WITH Payments <- Events
ImplementsLedger == Ledger!Spec

\* donation_events never holds more than one event of a donation, and only of
\* one that has its row: handleDonated appends after its own COMMIT only.
AppendedOnce ==
  \A e \in Events : store[e] <= (IF e \in rows THEN 1 ELSE 0)

\* The donation is recorded, or its event is kept for a retry or an operator.
KeptSafe(e) == Recorded(e) \/ dlq[e].status \in {"live", "quarantined"}

\* No donation lies behind the cursor, persisted or in memory, without being
\* recorded or dead-lettered, other than by the double faults that drop it:
\* pollEvents advances past an event only when its handler ran or was given up.
NothingSkipped ==
  \A e \in Donated \ dropped :
    e <= saved \/ e <= cursor => KeptSafe(e)

\* An event is in soroban_processed_events only if its donation is recorded or
\* dead-lettered, although handler and mark are separate transactions.
MarkedIsKept == \A e \in (processed \cap Donated) \ dropped : KeptSafe(e)

\* Every donation is recorded or ends in quarantine, across failures of the
\* handler, lost commits and crashes: "no events are missed during downtime"
\* (docs/indexer.md, Cursor Persistence).
EventuallyHandled ==
  \A e \in Donated : <>(e \in rows \/ dlq[e].status = "quarantined")
===============================================================================
