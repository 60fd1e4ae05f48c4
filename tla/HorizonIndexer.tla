---------------------------- MODULE HorizonIndexer ----------------------------
(***************************************************************************)
(* The Horizon payment indexer of backend/src/services: the SSE stream     *)
(* (indexerService.js) with its concurrent operation handlers              *)
(* (indexerDonationHandler.js), the persisted checkpoint row               *)
(* indexer_state['primary'], the backfill (indexerBackfill.js) and its     *)
(* three callers, the dead-letter queue (indexerDLQWorker.js), and the     *)
(* process that hosts them, which is stopped, crashes and restarts.        *)
(*                                                                         *)
(* Operations that no path accepts (other types, other assets, amount 0)   *)
(* are left out: an element of Ops is a payment to a project wallet that   *)
(* every path accepts.  Operations are numbered in chain order.  Horizon   *)
(* is external: a query at cursor c, where the code passes a ledger        *)
(* sequence, returns the operations of ledgers >= c in order (the reading  *)
(* of "fromLedger - Start ledger (inclusive)", indexerBackfill.js:30), and *)
(* "now" those of ledgers that are not closed yet.                         *)
(***************************************************************************)
EXTENDS Integers, FiniteSets

CONSTANTS
  NOps,            \* number of payments that will appear on chain
  MaxLedger,       \* bound: last ledger that closes
  LedgerOf,        \* the ledger of each payment
  TxOf,            \* its transaction (a transaction may hold several payments)
  WalletOf,        \* the wallet it pays
  FirstTip,        \* the network's tip when the service is first deployed
  FirstListed,     \* wallets of the projects that are active from the start
  LagThreshold,    \* INDEXER_LAG_BACKFILL_THRESHOLD
  ReconcileLag,    \* INDEXER_MAX_LEDGER_LAG
  MaxRetries,      \* indexer_dlq.max_retries
  HandlerBound,    \* did indexerBackfill's require() obtain handleDonation?
  Jobs,            \* the callers of runBackfill in this instance
  Workers,         \* pollDLQ activations that may overlap
  Faults,          \* the kinds of fault that may happen
  MaxFaults,       \* bound: number of faults in a behaviour
  MaxInflight      \* bound: handlers in flight for one payment

Ops     == 1 .. NOps
Txs     == {TxOf[o] : o \in Ops}
Wallets == {WalletOf[o] : o \in Ops}
Ledgers == 1 .. MaxLedger
LagJobs == Jobs \cap {"lag", "lag2"}
NoHash  == 0       \* cursor_hash IS NULL
NoTx    == 0
Closed  == 0       \* horizonStream = null
NotOpening == -1   \* no openStream awaits its cursor
NotGiven == 0      \* an absent fromLedger or toLedger (both are falsy)

ASSUME ConstantsAssumption ==
  /\ NOps \in Nat \ {0} /\ MaxLedger \in Nat \ {0}
  /\ LedgerOf \in [Ops -> Ledgers]
  /\ TxOf \in [Ops -> Nat \ {0}]
  /\ FirstTip \in 0 .. MaxLedger
  /\ FirstListed \subseteq Wallets
  /\ LagThreshold \in Nat \ {0} /\ ReconcileLag \in Nat /\ MaxRetries \in Nat \ {0}
  /\ HandlerBound \in BOOLEAN
  /\ Jobs \subseteq {"lag", "lag2", "reconciler", "admin"} /\ "lag" \in Jobs
  /\ MaxFaults \in Nat /\ MaxInflight \in Nat

\* Horizon numbers ledgers upwards, so the order of Ops is that of the ledgers, and a
\* transaction is in one of them.
ASSUME ChainOrderAssumption ==
  \A p, q \in Ops : /\ p <= q => LedgerOf[p] <= LedgerOf[q]
                    /\ TxOf[p] = TxOf[q] => LedgerOf[p] = LedgerOf[q]

VARIABLES
  tip,          \* Horizon: sequence of the last closed ledger
  rows,         \* donations: payments with a row (unique per tx and operation)
  credited,     \* projects.raised_xlm: how often each payment was added to it
  cursor,       \* indexer_state.last_processed_ledger
  hash,         \* indexer_state.cursor_hash, as the ledger it is the hash of
  inBackfill,   \* indexer_state.backfill_in_progress
  dlq,          \* indexer_dlq: status and retry_count per transaction_hash
  listed,       \* wallets of projects with status = 'active'
  phase,        \* of the process
  cache,        \* projectWallets, the in-memory copy of `listed`
  stream,       \* next payment the open SSE stream delivers, or Closed
  opening,      \* the cursor that an openStream in progress has read
  retryTimer,   \* reconnectTimer is armed
  inflight,     \* onmessage handlers that have not committed or failed yet
  job,          \* runBackfill activations, by caller
  work,         \* processDLQEntry activations
  budget        \* faults still allowed

db      == <<rows, credited, cursor, hash, inBackfill, dlq, listed>>
process == <<phase, cache, stream, opening, retryTimer, inflight, job, work>>
vars    == <<tip, db, process, budget>>

Phases  == {"down", "lagcheck", "opening", "running", "draining", "drained"}
Alive   == phase # "down"

\* The other workers start after the indexer and are stopped after it.
Serving == phase \in {"running", "draining", "drained"}

IdleJob  == [pc |-> "idle", from |-> NotGiven, to |-> NotGiven, next |-> 1,
             latest |-> 0, wallets |-> {}]
IdleWork == [tx |-> NoTx, todo |-> {}, any |-> FALSE]
NoEntry  == [status |-> "absent", retries |-> 0]

JobRecords  == [pc : {"idle", "check", "mark", "range", "page"},
                from : 0 .. MaxLedger, to : 0 .. MaxLedger,
                next : 1 .. NOps + 1, latest : 0 .. MaxLedger,
                wallets : SUBSET Wallets]
WorkRecords == [tx : Txs \cup {NoTx}, todo : SUBSET Ops, any : BOOLEAN]
Entries     == [status : {"absent", "pending", "resolved"}, retries : 0 .. MaxRetries]

Larger(a, b) == IF a >= b THEN a ELSE b

\* The first payment of a ledger >= l: where a query at cursor l starts.
FirstAt(l) == 1 + Cardinality({o \in Ops : LedgerOf[o] < l})

\* A query at cursor 0 is made at "now".
StartAt(c) == FirstAt(IF c > 0 THEN c ELSE tip + 1)

\* The check of readCursor; the other two copies of it also require cursor > 0.
Corrupt == hash # NoHash /\ hash # cursor

Fault(f) == f \in Faults /\ budget > 0 /\ budget' = budget - 1
NoFault  == budget' = budget

-------------------------------------------------------------------------------
(* The donation transaction (handleDonation), at its COMMIT.               *)

\* Mutant: a conflict does not skip the increment.
ApplyDonationAgain(o) ==
  /\ rows' = rows \cup {o}
  /\ credited' = [credited EXCEPT ![o] = @ + 1]

\* INSERT ... ON CONFLICT DO NOTHING; a conflict skips the increment.
ApplyDonation(o) ==
  /\ rows' = rows \cup {o}
  /\ credited' = [credited EXCEPT ![o] = IF o \in rows THEN @ ELSE @ + 1]

\* Mutant: the ledger is the new one.
UpdateCursorUnordered(l) == cursor' = l /\ hash' = l

\* updateCursor: the ledger is the larger of the two, the hash always the new.
UpdateCursor(l) ==
  /\ cursor' = Larger(cursor, l)
  /\ hash' = l

\* enqueue: an upsert keyed by the transaction, which re-arms a resolved entry.
Enqueue(t) == dlq' = [dlq EXCEPT ![t] = [status |-> "pending", retries |-> 0]]

-------------------------------------------------------------------------------
(* The network and the projects table.                                     *)

CloseLedger ==
  /\ tip < MaxLedger
  /\ tip' = tip + 1
  /\ UNCHANGED <<db, process, budget>>

ActivateProject(w) ==
  /\ w \notin listed
  /\ listed' = listed \cup {w}
  /\ UNCHANGED <<tip, rows, credited, cursor, hash, inBackfill, dlq, process, budget>>

-------------------------------------------------------------------------------
(* The stream.                                                             *)

\* readCursor: a failed SELECT yields 0, a hash mismatch throws.
CursorRead(c) == \/ NoFault /\ ~Corrupt /\ c = cursor
                 \/ Fault("cursorRead") /\ c = 0

\* startIndexer: the wallet cache is filled, or a failed SELECT leaves it empty.
StartIndexer ==
  /\ phase = "down"
  /\ phase' = "lagcheck"
  /\ \/ NoFault /\ cache' = listed
     \/ Fault("query") /\ UNCHANGED cache
  /\ UNCHANGED <<tip, db, stream, opening, retryTimer, inflight, job, work>>

\* openStream, from startIndexer or from the reconnect timer, reads its cursor.
OpenStream ==
  /\ opening = NotOpening
  /\ phase = "opening" \/ (Serving /\ retryTimer)
  /\ \E c \in 0 .. MaxLedger : CursorRead(c) /\ opening' = c
  /\ retryTimer' = FALSE
  /\ UNCHANGED <<tip, db, phase, cache, stream, inflight, job, work>>

\* It then opens the stream at the cursor it read, also when stop() ran between.
StreamOpens ==
  /\ opening # NotOpening
  /\ stream' = StartAt(opening)
  /\ opening' = NotOpening
  /\ phase' = IF phase = "opening" THEN "running" ELSE phase
  /\ UNCHANGED <<tip, db, cache, retryTimer, inflight, job, work, budget>>

\* openStream throws: a corrupt checkpoint when it reads it, or Horizon.  A retry
\* that finds the checkpoint corrupt arms the timer again, which changes nothing.
OpenFails ==
  /\ \/ phase = "opening" /\ opening = NotOpening /\ Corrupt /\ NoFault
     \/ opening # NotOpening /\ Fault("stream")
  /\ opening' = NotOpening /\ retryTimer' = TRUE
  /\ phase' = IF phase = "opening" THEN "running" ELSE phase
  /\ UNCHANGED <<tip, db, cache, stream, inflight, job, work>>

\* onerror: closeStream and scheduleReconnect.
StreamError ==
  /\ stream # Closed
  /\ Fault("stream")
  /\ stream' = Closed
  /\ retryTimer' = TRUE
  /\ UNCHANGED <<tip, db, phase, cache, opening, inflight, job, work>>

\* onmessage starts a handler that the stream does not wait for.
Deliver ==
  /\ stream \in Ops /\ LedgerOf[stream] <= tip
  /\ IF WalletOf[stream] \in cache
     THEN /\ inflight[stream] < MaxInflight
          /\ inflight' = [inflight EXCEPT ![stream] = @ + 1]
     ELSE UNCHANGED inflight
  /\ stream' = stream + 1
  /\ UNCHANGED <<tip, db, phase, cache, opening, retryTimer, job, work, budget>>

HandlerCommits(o) ==
  /\ inflight[o] > 0
  /\ inflight' = [inflight EXCEPT ![o] = @ - 1]
  /\ ApplyDonation(o)
  /\ UpdateCursor(LedgerOf[o])
  /\ UNCHANGED <<tip, inBackfill, dlq, listed, phase, cache, stream, opening, retryTimer,
                 job, work, budget>>

\* Mutant: the checkpoint is not written in the transaction that is rolled back.
HandlerFailsCheckpointed(o) ==
  /\ inflight[o] > 0
  /\ Fault("handler")
  /\ inflight' = [inflight EXCEPT ![o] = @ - 1]
  /\ Enqueue(TxOf[o])
  /\ UpdateCursor(LedgerOf[o])
  /\ UNCHANGED <<tip, rows, credited, inBackfill, listed,
                 phase, cache, stream, opening, retryTimer, job, work>>

\* The transaction is rolled back; onmessage's catch enqueues the transaction.
HandlerFails(o) ==
  /\ inflight[o] > 0
  /\ Fault("handler")
  /\ inflight' = [inflight EXCEPT ![o] = @ - 1]
  /\ Enqueue(TxOf[o])
  /\ UNCHANGED <<tip, rows, credited, cursor, hash, inBackfill, listed,
                 phase, cache, stream, opening, retryTimer, job, work>>

\* As above, and the INSERT of enqueue fails too: its error is only logged.
HandlerFailsUnqueued(o) ==
  /\ inflight[o] > 0
  /\ Fault("enqueue")
  /\ inflight' = [inflight EXCEPT ![o] = @ - 1]
  /\ UNCHANGED <<tip, db, phase, cache, stream, opening, retryTimer, job, work>>

RefreshWallets ==
  /\ phase = "running"
  /\ cache # listed
  /\ cache' = listed
  /\ UNCHANGED <<tip, db, phase, stream, opening, retryTimer, inflight, job, work, budget>>

-------------------------------------------------------------------------------
(* Backfill.                                                               *)

\* startIndexer awaits checkLag, hence the backfill, before it opens a stream.
AfterJob(j) == phase' = IF j = "lag" /\ phase = "lagcheck" THEN "opening" ELSE phase

\* checkLag: its reads, and the call of runBackfill if the lag is large.
LagCheck(j) ==
  /\ j \in LagJobs /\ job[j].pc = "idle"
  /\ phase \in {"running", "draining"} \/ (phase = "lagcheck" /\ j = "lag")
  /\ \E c \in 0 .. MaxLedger :
       /\ CursorRead(c)
       /\ IF tip - c >= LagThreshold
          THEN /\ job' = [job EXCEPT ![j] =
                            [IdleJob EXCEPT !.pc = "check", !.from = c + 1, !.to = tip]]
               /\ UNCHANGED phase
          ELSE phase = "lagcheck" /\ phase' = "opening" /\ UNCHANGED job
  /\ UNCHANGED <<tip, db, cache, stream, opening, retryTimer, inflight, work>>

\* The lag check at start-up throws (corrupt checkpoint, no tip): it is caught.
LagCheckFails ==
  /\ phase = "lagcheck" /\ job["lag"].pc = "idle"
  /\ (Corrupt /\ NoFault) \/ Fault("query")
  /\ phase' = "opening"
  /\ UNCHANGED <<tip, db, cache, stream, opening, retryTimer, inflight, job, work>>

\* runReconciliation: an unforced runBackfill without a range.
Reconcile ==
  /\ "reconciler" \in Jobs /\ Serving /\ job["reconciler"].pc = "idle"
  /\ ~Corrupt /\ ~inBackfill
  /\ cursor > 0 /\ tip - cursor > ReconcileLag
  /\ job' = [job EXCEPT !["reconciler"] = [IdleJob EXCEPT !.pc = "check"]]
  /\ UNCHANGED <<tip, db, phase, cache, stream, opening, retryTimer, inflight, work, budget>>

\* POST /admin/indexer/backfill and rescanRange, with whatever range they are given;
\* `force` skips the check.
AdminBackfill ==
  /\ "admin" \in Jobs /\ phase = "running" /\ job["admin"].pc = "idle"
  /\ \E from, to \in 0 .. MaxLedger, pc \in {"check", "mark"} :
       job' = [job EXCEPT !["admin"] = [IdleJob EXCEPT !.pc = pc, !.from = from, !.to = to]]
  /\ UNCHANGED <<tip, db, phase, cache, stream, opening, retryTimer, inflight, work, budget>>

\* SELECT backfill_in_progress.
BackfillCheck(j) ==
  /\ job[j].pc = "check" /\ ~inBackfill
  /\ job' = [job EXCEPT ![j].pc = "mark"]
  /\ UNCHANGED <<tip, db, phase, cache, stream, opening, retryTimer, inflight, work, budget>>

\* Another backfill is in progress, or one of the two queries on the flag fails.
BackfillSkips(j) ==
  /\ \/ job[j].pc = "check" /\ inBackfill /\ NoFault
     \/ job[j].pc \in {"check", "mark"} /\ Fault("query")
  /\ job' = [job EXCEPT ![j] = IdleJob] /\ AfterJob(j)
  /\ UNCHANGED <<tip, db, cache, stream, opening, retryTimer, inflight, work>>

\* UPDATE ... SET backfill_in_progress = true.
BackfillMark(j) ==
  /\ job[j].pc = "mark"
  /\ inBackfill' = TRUE
  /\ job' = [job EXCEPT ![j].pc = "range"]
  /\ UNCHANGED <<tip, rows, credited, cursor, hash, dlq, listed,
                 phase, cache, stream, opening, retryTimer, inflight, work, budget>>

FirstLedger(j) == IF job[j].from = NotGiven THEN cursor ELSE job[j].from
LastLedger(j)  == IF job[j].to = NotGiven THEN tip ELSE job[j].to
CorruptFor(j)  == job[j].from = NotGiven /\ Corrupt /\ cursor > 0

\* The range and the wallets are determined and the replay starts.
BackfillStart(j) ==
  /\ job[j].pc = "range"
  /\ ~CorruptFor(j) /\ LastLedger(j) > FirstLedger(j)
  /\ job' = [job EXCEPT ![j] = [pc |-> "page", from |-> FirstLedger(j),
               to |-> LastLedger(j), next |-> StartAt(FirstLedger(j)),
               latest |-> FirstLedger(j), wallets |-> listed]]
  /\ UNCHANGED <<tip, db, phase, cache, stream, opening, retryTimer, inflight, work, budget>>

\* The range is empty: the early return leaves backfill_in_progress set.
BackfillNoop(j) ==
  /\ job[j].pc = "range"
  /\ ~CorruptFor(j) /\ LastLedger(j) <= FirstLedger(j)
  /\ job' = [job EXCEPT ![j] = IdleJob] /\ AfterJob(j)
  /\ UNCHANGED <<tip, db, cache, stream, opening, retryTimer, inflight, work, budget>>

\* There is a further operation to replay in the range.
MoreToReplay(j) == /\ job[j].next \in Ops
                   /\ LedgerOf[job[j].next] <= tip
                   /\ LedgerOf[job[j].next] <= job[j].to

\* A corrupt checkpoint, or a query that fails before the replay or at its end: the
\* outer catch clears the flag, unless that query fails as well.
BackfillThrows(j) ==
  /\ \/ job[j].pc = "range" /\ CorruptFor(j) /\ NoFault /\ inBackfill' = FALSE
     \/ /\ job[j].pc = "range" \/ (job[j].pc = "page" /\ ~MoreToReplay(j))
        /\ Fault("query") /\ inBackfill' \in {FALSE, inBackfill}
  /\ job' = [job EXCEPT ![j] = IdleJob] /\ AfterJob(j)
  /\ UNCHANGED <<tip, rows, credited, cursor, hash, dlq, listed,
                 cache, stream, opening, retryTimer, inflight, work>>

\* One operation of a page.  handleDonation gets no cursor callback; when it
\* throws, the error is counted, and the range advances as if it had not.
BackfillOp(j) ==
  LET o == job[j].next  wanted == WalletOf[o] \in job[j].wallets IN
  /\ job[j].pc = "page" /\ MoreToReplay(j)
  /\ \/ /\ wanted /\ HandlerBound
        /\ ApplyDonation(o) /\ NoFault
     \/ /\ wanted
        /\ (~HandlerBound /\ NoFault) \/ Fault("backfillOp")
        /\ UNCHANGED <<rows, credited>>
     \/ ~wanted /\ NoFault /\ UNCHANGED <<rows, credited>>
  /\ job' = [job EXCEPT ![j].next = o + 1,
               ![j].latest = IF wanted THEN Larger(@, LedgerOf[o]) ELSE @]
  /\ UNCHANGED <<tip, cursor, hash, inBackfill, dlq, listed,
                 phase, cache, stream, opening, retryTimer, inflight, work>>

\* Mutant: the checkpoint becomes the ledger that comes next.
BackfillFinishNext(j) ==
  /\ job[j].pc = "page" /\ ~MoreToReplay(j)
  /\ cursor' = Larger(cursor, job[j].latest + 1)
  /\ inBackfill' = FALSE
  /\ job' = [job EXCEPT ![j] = IdleJob] /\ AfterJob(j)
  /\ UNCHANGED <<tip, rows, credited, hash, dlq, listed,
                 cache, stream, opening, retryTimer, inflight, work, budget>>

\* The last page is done: nothing is left, or ("split") a page ended inside the
\* last ledger, whose other operations the loop condition then cuts off.
BackfillFinish(j) ==
  /\ job[j].pc = "page"
  /\ \/ ~MoreToReplay(j)
     \/ "split" \in Faults /\ job[j].latest >= job[j].to
  /\ cursor' = Larger(cursor, job[j].latest)
  /\ inBackfill' = FALSE
  /\ job' = [job EXCEPT ![j] = IdleJob] /\ AfterJob(j)
  /\ UNCHANGED <<tip, rows, credited, hash, dlq, listed,
                 cache, stream, opening, retryTimer, inflight, work, budget>>

-------------------------------------------------------------------------------
(* The dead-letter queue.                                                  *)

Retryable(t) == dlq[t].status = "pending" /\ dlq[t].retries < MaxRetries

\* pollDLQ hands an entry to processDLQEntry, which fetches its operations; when
\* Horizon does not answer, the entry is closed as if none had succeeded.
DLQPick(w, t) ==
  /\ Serving /\ work[w] = IdleWork /\ Retryable(t)
  /\ \E todo \in SUBSET Ops :
       /\ \/ NoFault /\ todo = {o \in Ops : TxOf[o] = t /\ WalletOf[o] \in listed}
          \/ Fault("dlqOp") /\ todo = {}
       /\ work' = [work EXCEPT ![w] = [tx |-> t, todo |-> todo, any |-> FALSE]]
  /\ UNCHANGED <<tip, db, phase, cache, stream, opening, retryTimer, inflight, job>>

\* One operation of the transaction; a failure is logged and skipped.
DLQOp(w, o) ==
  /\ o \in work[w].todo /\ \A p \in work[w].todo : o <= p
  /\ \/ /\ NoFault /\ ApplyDonation(o)
        /\ work' = [work EXCEPT ![w].todo = @ \ {o}, ![w].any = TRUE]
     \/ /\ Fault("dlqOp") /\ UNCHANGED <<rows, credited>>
        /\ work' = [work EXCEPT ![w].todo = @ \ {o}]
  /\ UNCHANGED <<tip, cursor, hash, inBackfill, dlq, listed,
                 phase, cache, stream, opening, retryTimer, inflight, job>>

\* Mutant: an entry is resolved once its operations were tried.
DLQCloseTried(w) ==
  LET t == work[w].tx IN
  /\ t # NoTx /\ work[w].todo = {}
  /\ dlq' = [dlq EXCEPT ![t].status = "resolved"]
  /\ work' = [work EXCEPT ![w] = IdleWork]
  /\ UNCHANGED <<tip, rows, credited, cursor, hash, inBackfill, listed,
                 phase, cache, stream, opening, retryTimer, inflight, job, budget>>

\* The entry is resolved when any operation succeeded; else, and when that UPDATE
\* fails, its count goes up.
DLQClose(w) ==
  LET t == work[w].tx IN
  /\ t # NoTx /\ work[w].todo = {}
  /\ \/ /\ work[w].any /\ NoFault
        /\ dlq' = [dlq EXCEPT ![t].status = "resolved"]
     \/ /\ (~work[w].any /\ NoFault) \/ Fault("dlqOp")
        /\ dlq' = [dlq EXCEPT ![t].retries = IF @ < MaxRetries THEN @ + 1 ELSE @]
  /\ work' = [work EXCEPT ![w] = IdleWork]
  /\ UNCHANGED <<tip, rows, credited, cursor, hash, inBackfill, listed,
                 phase, cache, stream, opening, retryTimer, inflight, job>>

-------------------------------------------------------------------------------
(* The process.                                                            *)

\* SIGTERM: stop() closes the stream, disarms the timer and waits for the handlers
\* in flight ("stopOpening": a SIGTERM may also meet an openStream in progress).
Stop ==
  /\ phase = "running" /\ "stop" \in Faults
  /\ opening # NotOpening => "stopOpening" \in Faults
  /\ phase' = "draining"
  /\ stream' = Closed /\ retryTimer' = FALSE
  /\ UNCHANGED <<tip, db, cache, opening, inflight, job, work, budget>>

\* Mutant: stop() does not wait.
DrainedAtOnce ==
  /\ phase = "draining"
  /\ phase' = "drained"
  /\ UNCHANGED <<tip, db, cache, stream, opening, retryTimer, inflight, job, work, budget>>

\* beginDrain resolves when no handler is in flight; the other workers are next.
Drained ==
  /\ phase = "draining" /\ \A o \in Ops : inflight[o] = 0
  /\ phase' = "drained"
  /\ UNCHANGED <<tip, db, cache, stream, opening, retryTimer, inflight, job, work, budget>>

\* What the memory of a process that has just exited holds.
Exit == /\ phase' = "down" /\ cache' = {}
        /\ stream' = Closed /\ opening' = NotOpening /\ retryTimer' = FALSE
        /\ inflight' = [o \in Ops |-> 0]
        /\ job' = [j \in Jobs |-> IdleJob]
        /\ work' = [w \in Workers |-> IdleWork]

\* The shutdown is complete and the process exits, a backfill or not.
Stopped ==
  /\ phase = "drained"
  /\ Exit
  /\ UNCHANGED <<tip, db, budget>>

\* The process dies, or its drain outlives the grace period.
Crash ==
  /\ Alive /\ Fault("crash")
  /\ Exit
  /\ UNCHANGED <<tip, db>>

-------------------------------------------------------------------------------
Init ==
  /\ tip = FirstTip
  /\ rows = {} /\ credited = [o \in Ops |-> 0]
  /\ cursor = 0 /\ hash = NoHash /\ inBackfill = FALSE
  /\ dlq = [t \in Txs |-> NoEntry]
  /\ listed = FirstListed
  /\ phase = "down" /\ cache = {}
  /\ stream = Closed /\ opening = NotOpening /\ retryTimer = FALSE
  /\ inflight = [o \in Ops |-> 0]
  /\ job = [j \in Jobs |-> IdleJob]
  /\ work = [w \in Workers |-> IdleWork]
  /\ budget = MaxFaults

Environment == CloseLedger \/ \E w \in Wallets : ActivateProject(w)

StreamStep ==
  \/ StartIndexer \/ OpenStream \/ StreamOpens \/ OpenFails \/ StreamError \/ Deliver
  \/ RefreshWallets
  \/ \E o \in Ops : HandlerCommits(o) \/ HandlerFails(o) \/ HandlerFailsUnqueued(o)

Backfill(j) ==
  \/ BackfillCheck(j) \/ BackfillSkips(j) \/ BackfillMark(j) \/ BackfillStart(j)
  \/ BackfillNoop(j) \/ BackfillThrows(j) \/ BackfillOp(j) \/ BackfillFinish(j)

BackfillStep ==
  \/ LagCheckFails \/ Reconcile \/ AdminBackfill
  \/ \E j \in Jobs : LagCheck(j) \/ Backfill(j)

DLQStep ==
  \E w \in Workers : \/ \E t \in Txs : DLQPick(w, t)
                     \/ \E o \in Ops : DLQOp(w, o)
                     \/ DLQClose(w)

Lifecycle == Stop \/ Drained \/ Stopped \/ Crash

Next == Environment \/ StreamStep \/ BackfillStep \/ DLQStep \/ Lifecycle

Spec == Init /\ [][Next]_vars

(***************************************************************************)
(* Ledgers keep closing, timers fire (reconnect, lag check, DLQ poll), an  *)
(* awaited query settles, and the supervisor restarts a process that has   *)
(* exited.  Faults, SIGTERM and administrators are under no obligation.    *)
(***************************************************************************)
Fairness ==
  /\ WF_vars(CloseLedger)
  /\ WF_vars(StartIndexer) /\ WF_vars(OpenStream) /\ WF_vars(StreamOpens)
  /\ WF_vars(OpenFails) /\ WF_vars(Deliver) /\ WF_vars(RefreshWallets)
  /\ WF_vars(LagCheckFails) /\ WF_vars(Drained) /\ WF_vars(Stopped)
  /\ \A o \in Ops : WF_vars(HandlerCommits(o) \/ HandlerFails(o))
  /\ \A j \in Jobs : WF_vars(LagCheck(j)) /\ WF_vars(Backfill(j))
  /\ \A w \in Workers :
       /\ \A t \in Txs : SF_vars(DLQPick(w, t))
       /\ WF_vars(DLQClose(w) \/ \E o \in Ops : DLQOp(w, o))

FairSpec == Spec /\ Fairness

-------------------------------------------------------------------------------
(* Correctness properties.                                                 *)

\* Every variable keeps its type.
TypeOK ==
  /\ tip \in 0 .. MaxLedger
  /\ rows \subseteq Ops /\ credited \in [Ops -> Nat]
  /\ cursor \in 0 .. MaxLedger /\ hash \in 0 .. MaxLedger /\ inBackfill \in BOOLEAN
  /\ dlq \in [Txs -> Entries] /\ listed \subseteq Wallets
  /\ phase \in Phases /\ cache \subseteq Wallets
  /\ stream \in 0 .. NOps + 1 /\ opening \in -1 .. MaxLedger /\ retryTimer \in BOOLEAN
  /\ inflight \in [Ops -> Nat]
  /\ job \in [Jobs -> JobRecords] /\ work \in [Workers -> WorkRecords]
  /\ budget \in Nat

\* However the stream, backfills and the DLQ replay an operation, and whatever
\* crashes between, handleDonation adds it to raised_xlm once, with its row.
Ledger == INSTANCE DonationLedger WITH Payments <- Ops
ImplementsLedger == Ledger!Spec
CreditedOnce == Ledger!CreditedOnce

\* The checksum is that of a ledger the checkpoint has reached, and a donation
\* of that ledger is in the table: updateCursor runs in the insert's transaction.
ChecksumNamesADonation ==
  hash # NoHash => /\ hash <= cursor
                   /\ \E o \in rows : LedgerOf[o] = hash

\* The checkpoint never moves back, not over a restart and not by a late commit.
CheckpointMonotone == [][cursor' >= cursor]_vars

\* docs/indexer.md:137: the checkpoint is the highest ledger processed, so it and
\* every donation in the table are of ledgers that are closed.
CheckpointWithinChain ==
  /\ cursor <= tip
  /\ \A o \in rows : LedgerOf[o] <= tip

\* An entry leaves the dead-letter queue only when a payment of its transaction
\* is in the table, also when polls overlap or the transaction is re-enqueued.
ResolvedHasDonation ==
  \A t \in Txs : dlq[t].status = "resolved" => \E o \in rows : TxOf[o] = t

\* A closed payment is recorded, being handled, waiting in the dead-letter queue
\* (where an operator sees it), or will be delivered by the open stream or by one
\* opened at the checkpoint: no restart, reconnect or backfill loses it.
Accounted(o) ==
  \/ LedgerOf[o] > tip
  \/ o \in rows \/ inflight[o] > 0
  \/ dlq[TxOf[o]].status = "pending"
  \/ stream \in 1 .. o
  \/ LedgerOf[o] >= cursor
NoSilentLoss == \A o \in Ops : Accounted(o)

\* The deployments in which that holds: the backfill has its handler, nothing dies
\* and no query fails outside a donation's transaction, no administrator replays,
\* every project is listed from the start, the first lag check finds history to
\* replay, and payments share neither a ledger nor a transaction.
GentleDeployment ==
  /\ HandlerBound /\ Faults \subseteq {"stop", "stream", "handler", "dlqOp"}
  /\ "admin" \notin Jobs /\ FirstListed = Wallets
  /\ LagThreshold >= 2 /\ FirstTip >= LagThreshold
  /\ \A p, q \in Ops : LedgerOf[p] = LedgerOf[q] \/ TxOf[p] = TxOf[q] => p = q

\* indexerService.js:92: a mismatch is a corruption; the service writes none itself.
ChecksumMatches == ~Corrupt

\* Every closed payment is recorded, or its entry has used up its retries.
EveryPaymentRecorded ==
  \A o \in Ops :
    LedgerOf[o] <= tip ~> o \in rows \/ dlq[TxOf[o]].retries = MaxRetries
===============================================================================
