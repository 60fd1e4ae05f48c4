------------------------- MODULE HorizonIndexerProofs -------------------------
(***************************************************************************)
(* Theorems about HorizonIndexer for every chain, every set of faults and  *)
(* every number of workers: types, the refinement of the ledger, the queue *)
(* of dead letters, the checkpoint and its hash, and that no payment is    *)
(* lost silently in a gentle deployment.                                   *)
(***************************************************************************)
EXTENDS HorizonIndexer, FiniteSetTheorems, TLAPS

-------------------------------------------------------------------------------
(* Where a query of Horizon starts.                                        *)

\* A query starts at a payment, or after the last one.
LEMMA FirstAtType ==
  ASSUME NEW l \in Int PROVE FirstAt(l) \in 1 .. NOps + 1
<1> DEFINE Before == {o \in Ops : LedgerOf[o] < l}
<1>1. IsFiniteSet(Ops) /\ Cardinality(Ops) = NOps
  BY ConstantsAssumption, FS_Interval DEF Ops
<1>2. Cardinality(Before) \in Nat /\ Cardinality(Before) <= NOps
  BY <1>1, FS_Subset, FS_CardinalityType
<1> QED
  BY <1>2, ConstantsAssumption DEF FirstAt

\* So does one at the checkpoint or at "now".
LEMMA StartAtType ==
  ASSUME NEW c \in Int, tip \in Int PROVE StartAt(c) \in 1 .. NOps + 1
BY FirstAtType DEF StartAt

\* 0 is a position of the stream, as Closed, and every start of a query is one.
LEMMA Positions == 0 \in 0 .. NOps + 1 /\ 1 .. NOps + 1 \subseteq 0 .. NOps + 1
BY ConstantsAssumption

\* So is the successor of a payment.
LEMMA SuccessorType == \A o \in Ops : o + 1 \in 1 .. NOps + 1
BY ConstantsAssumption DEF Ops

\* A ledger of a payment is a possible checkpoint.
LEMMA LedgerType == \A o \in Ops : LedgerOf[o] \in 1 .. MaxLedger /\ LedgerOf[o] \in 0 .. MaxLedger
BY ConstantsAssumption DEF Ledgers

\* What handleDonation does to the tables, and updateCursor to the checkpoint.
LEMMA DonationType ==
  ASSUME TypeOK, NEW o \in Ops
  PROVE  /\ ApplyDonation(o) => rows' \subseteq Ops /\ credited' \in [Ops -> Nat]
         /\ UpdateCursor(LedgerOf[o]) => cursor' \in 0 .. MaxLedger /\ hash' \in 0 .. MaxLedger
<1>1. ApplyDonation(o) => rows' \subseteq Ops /\ credited' \in [Ops -> Nat]
  BY DEF ApplyDonation, TypeOK
<1>2. UpdateCursor(LedgerOf[o]) => cursor' \in 0 .. MaxLedger /\ hash' \in 0 .. MaxLedger
  BY LedgerType DEF UpdateCursor, Larger, TypeOK
<1> QED
  BY <1>1, <1>2

\* A handler that ends leaves a natural number of handlers in flight.
LEMMA InflightType ==
  ASSUME TypeOK, NEW o \in Ops, inflight[o] > 0,
         inflight' = [inflight EXCEPT ![o] = @ - 1]
  PROVE  inflight' \in [Ops -> Nat]
BY DEF TypeOK

\* No job and no worker: the records that a process starts with are well typed.
LEMMA IdleType == IdleJob \in JobRecords /\ IdleWork \in WorkRecords /\ NoEntry \in Entries
BY ConstantsAssumption DEF IdleJob, IdleWork, NoEntry, JobRecords, WorkRecords, Entries,
   NotGiven, NoTx

-------------------------------------------------------------------------------
(* Type correctness.                                                       *)

\* The initial state is well typed.
LEMMA InitTypeOK == Init => TypeOK
<1> SUFFICES ASSUME Init PROVE TypeOK
  OBVIOUS
<1>1. /\ dlq \in [Txs -> Entries]
      /\ job \in [Jobs -> JobRecords] /\ work \in [Workers -> WorkRecords]
  BY IdleType DEF Init
<1>2. /\ rows \subseteq Ops /\ credited \in [Ops -> Nat]
      /\ listed \subseteq Wallets /\ cache \subseteq Wallets
      /\ inflight \in [Ops -> Nat]
  BY ConstantsAssumption DEF Init
<1>3. /\ tip \in 0 .. MaxLedger /\ cursor \in 0 .. MaxLedger /\ hash \in 0 .. MaxLedger
      /\ stream \in 0 .. NOps + 1 /\ opening \in -1 .. MaxLedger /\ budget \in Nat
  BY ConstantsAssumption DEF Init, NoHash, Closed, NotOpening
<1>4. inBackfill \in BOOLEAN /\ retryTimer \in BOOLEAN /\ phase \in Phases
  BY DEF Init, Phases
<1> QED
  BY <1>1, <1>2, <1>3, <1>4 DEF TypeOK

USE DEF Ledgers

\* The chain and the projects table preserve the types.
LEMMA EnvironmentTypeOK == TypeOK /\ Environment => TypeOK'
BY ConstantsAssumption
   DEF TypeOK, Environment, CloseLedger, ActivateProject, db, process

\* A step of the stream or of one of its handlers preserves the types.
LEMMA StreamTypeOK == TypeOK /\ StreamStep => TypeOK'
<1> SUFFICES ASSUME TypeOK, StreamStep PROVE TypeOK'
  OBVIOUS
<1> USE DEF TypeOK, db, process, Phases
<1>1. CASE StartIndexer
  BY <1>1 DEF StartIndexer, NoFault, Fault
<1>2. CASE OpenStream
  <2>1. PICK c \in 0 .. MaxLedger : CursorRead(c) /\ opening' = c
    BY <1>2 DEF OpenStream
  <2>2. opening' \in -1 .. MaxLedger
    BY <2>1
  <2>3. budget' \in Nat
    BY <2>1 DEF CursorRead, NoFault, Fault
  <2> QED
    BY <1>2, <2>2, <2>3 DEF OpenStream
<1>10. CASE StreamOpens
  <2>1. stream' \in 1 .. NOps + 1
    BY <1>10, StartAtType DEF StreamOpens
  <2> QED
    BY <1>10, <2>1, Positions, ConstantsAssumption DEF StreamOpens, NotOpening
<1>3. CASE OpenFails
  <2>1. NoFault \/ Fault("stream")
    BY <1>3 DEF OpenFails
  <2>2. budget' \in Nat
    BY <2>1 DEF NoFault, Fault
  <2> QED
    BY <1>3, <2>2, ConstantsAssumption DEF OpenFails, NotOpening
<1>4. CASE StreamError
  BY <1>4, Positions DEF StreamError, Fault, Closed
<1>5. CASE Deliver
  <2>1. stream' \in 0 .. NOps + 1
    BY <1>5, ConstantsAssumption DEF Deliver, Ops
  <2>2. inflight' \in [Ops -> Nat]
    BY <1>5 DEF Deliver
  <2> QED
    BY <1>5, <2>1, <2>2 DEF Deliver
<1>6. CASE RefreshWallets
  BY <1>6 DEF RefreshWallets
<1>7. ASSUME NEW o \in Ops, HandlerCommits(o) PROVE TypeOK'
  BY <1>7, DonationType, InflightType DEF HandlerCommits
<1>8. ASSUME NEW o \in Ops, HandlerFails(o) PROVE TypeOK'
  BY <1>8, ConstantsAssumption DEF HandlerFails, Fault, Enqueue, Entries, Txs
<1>9. ASSUME NEW o \in Ops, HandlerFailsUnqueued(o) PROVE TypeOK'
  BY <1>9 DEF HandlerFailsUnqueued, Fault
<1> QED
  BY <1>1, <1>2, <1>3, <1>4, <1>5, <1>6, <1>7, <1>8, <1>9, <1>10 DEF StreamStep

\* A step of a backfill or of one of its callers preserves the types.
LEMMA BackfillTypeOK == TypeOK /\ BackfillStep => TypeOK'
<1> SUFFICES ASSUME TypeOK, BackfillStep PROVE TypeOK'
  OBVIOUS
<1> USE DEF TypeOK, db, process, Phases
<1>1. CASE LagCheckFails
  BY <1>1 DEF LagCheckFails, NoFault, Fault
<1>2. CASE Reconcile
  <2>1. [IdleJob EXCEPT !.pc = "check"] \in JobRecords
    BY IdleType DEF JobRecords
  <2> QED
    BY <1>2, <2>1 DEF Reconcile
<1>3. CASE AdminBackfill
  <2>1. PICK from \in 0 .. MaxLedger, to \in 0 .. MaxLedger, pc \in {"check", "mark"} :
          job' = [job EXCEPT !["admin"] = [IdleJob EXCEPT !.pc = pc, !.from = from, !.to = to]]
    BY <1>3 DEF AdminBackfill
  <2>2. [IdleJob EXCEPT !.pc = pc, !.from = from, !.to = to] \in JobRecords
    BY IdleType DEF JobRecords
  <2> QED
    BY <1>3, <2>1, <2>2 DEF AdminBackfill
<1>4. ASSUME NEW j \in Jobs, LagCheck(j) PROVE TypeOK'
  <2>1. PICK c \in 0 .. MaxLedger :
          /\ CursorRead(c)
          /\ IF tip - c >= LagThreshold
             THEN /\ job' = [job EXCEPT ![j] =
                               [IdleJob EXCEPT !.pc = "check", !.from = c + 1, !.to = tip]]
                  /\ UNCHANGED phase
             ELSE phase = "lagcheck" /\ phase' = "opening" /\ UNCHANGED job
    BY <1>4 DEF LagCheck
  <2>2. tip - c >= LagThreshold =>
          [IdleJob EXCEPT !.pc = "check", !.from = c + 1, !.to = tip] \in JobRecords
    <3>1. tip - c >= LagThreshold => c + 1 \in 0 .. MaxLedger /\ tip \in 0 .. MaxLedger
      BY ConstantsAssumption
    <3> QED
      BY IdleType, <3>1 DEF JobRecords
  <2>3. job' \in [Jobs -> JobRecords] /\ phase' \in Phases
    BY <2>1, <2>2
  <2>4. budget' \in Nat
    BY <2>1 DEF CursorRead, NoFault, Fault
  <2> QED
    BY <1>4, <2>3, <2>4 DEF LagCheck
<1>5. ASSUME NEW j \in Jobs, BackfillCheck(j) PROVE TypeOK'
  <2>1. [job[j] EXCEPT !.pc = "mark"] \in JobRecords
    BY DEF JobRecords
  <2> QED
    BY <1>5, <2>1 DEF BackfillCheck
<1>6. ASSUME NEW j \in Jobs, BackfillMark(j) PROVE TypeOK'
  <2>1. [job[j] EXCEPT !.pc = "range"] \in JobRecords
    BY DEF JobRecords
  <2> QED
    BY <1>6, <2>1 DEF BackfillMark
<1>7. ASSUME NEW j \in Jobs, BackfillStart(j) PROVE TypeOK'
  <2>1. FirstLedger(j) \in 0 .. MaxLedger /\ LastLedger(j) \in 0 .. MaxLedger
    BY DEF FirstLedger, LastLedger, JobRecords
  <2>2. StartAt(FirstLedger(j)) \in 1 .. NOps + 1
    BY <2>1, StartAtType
  <2>3. [pc |-> "page", from |-> FirstLedger(j), to |-> LastLedger(j),
         next |-> StartAt(FirstLedger(j)), latest |-> FirstLedger(j),
         wallets |-> listed] \in JobRecords
    BY <2>1, <2>2 DEF JobRecords
  <2> QED
    BY <1>7, <2>3 DEF BackfillStart
<1>8. ASSUME NEW j \in Jobs, BackfillNoop(j) PROVE TypeOK'
  BY <1>8, IdleType DEF BackfillNoop, AfterJob
<1>9. ASSUME NEW j \in Jobs, BackfillThrows(j) PROVE TypeOK'
  <2>1. phase' \in Phases
    BY <1>9 DEF BackfillThrows, AfterJob
  <2>2. budget' \in Nat
    <3>1. NoFault \/ Fault("query")
      BY <1>9 DEF BackfillThrows
    <3> QED
      BY <3>1 DEF NoFault, Fault
  <2>3. job' \in [Jobs -> JobRecords]
    BY <1>9, IdleType DEF BackfillThrows
  <2> QED
    BY <1>9, <2>1, <2>2, <2>3 DEF BackfillThrows
<1>10. ASSUME NEW j \in Jobs, BackfillOp(j) PROVE TypeOK'
  <2> DEFINE o == job[j].next
  <2>1. o \in Ops /\ LedgerOf[o] \in 0 .. MaxLedger
    BY <1>10, ConstantsAssumption DEF BackfillOp, MoreToReplay
  <2>2. job[j] \in JobRecords
    OBVIOUS
  <2>3. o + 1 \in 1 .. NOps + 1
    BY <2>1, SuccessorType
  <2>4. ASSUME NEW l \in 0 .. MaxLedger
        PROVE  [job[j] EXCEPT !.next = o + 1, !.latest = l] \in JobRecords
    BY <2>2, <2>3 DEF JobRecords
  <2>5. /\ job[j].latest \in 0 .. MaxLedger
        /\ Larger(job[j].latest, LedgerOf[o]) \in 0 .. MaxLedger
    BY <2>1, <2>2 DEF JobRecords, Larger
  <2>6. job' \in [Jobs -> JobRecords]
    BY <1>10, <2>4, <2>5 DEF BackfillOp
  <2>7. rows' \subseteq Ops /\ credited' \in [Ops -> Nat]
    BY <1>10, <2>1 DEF BackfillOp, ApplyDonation
  <2>8. budget' \in Nat
    BY <1>10 DEF BackfillOp, NoFault, Fault
  <2> QED
    BY <1>10, <2>6, <2>7, <2>8 DEF BackfillOp
<1>11. ASSUME NEW j \in Jobs, BackfillFinish(j) PROVE TypeOK'
  <2>1. job[j].latest \in 0 .. MaxLedger
    BY DEF JobRecords
  <2> QED
    BY <1>11, <2>1, IdleType DEF BackfillFinish, AfterJob, Larger
<1>12. ASSUME NEW j \in Jobs, BackfillSkips(j) PROVE TypeOK'
  <2>1. phase' \in Phases /\ budget' \in Nat
    BY <1>12 DEF BackfillSkips, AfterJob, NoFault, Fault
  <2>2. job' \in [Jobs -> JobRecords]
    BY <1>12, IdleType DEF BackfillSkips
  <2> QED
    BY <1>12, <2>1, <2>2 DEF BackfillSkips
<1> QED
  BY <1>1, <1>2, <1>3, <1>4, <1>5, <1>6, <1>7, <1>8, <1>9, <1>10, <1>11, <1>12
     DEF BackfillStep, Backfill

\* A step of a dead-letter worker preserves the types.
LEMMA DLQTypeOK == TypeOK /\ DLQStep => TypeOK'
<1> SUFFICES ASSUME TypeOK, NEW w \in Workers,
                    \/ \E t \in Txs : DLQPick(w, t)
                    \/ \E o \in Ops : DLQOp(w, o)
                    \/ DLQClose(w)
             PROVE  TypeOK'
  BY DEF DLQStep
<1> USE DEF TypeOK, db, process
<1>1. ASSUME NEW t \in Txs, DLQPick(w, t) PROVE TypeOK'
  <2>1. PICK todo \in SUBSET Ops :
          /\ NoFault \/ Fault("dlqOp")
          /\ work' = [work EXCEPT ![w] = [tx |-> t, todo |-> todo, any |-> FALSE]]
    BY <1>1 DEF DLQPick
  <2>2. [tx |-> t, todo |-> todo, any |-> FALSE] \in WorkRecords
    BY DEF WorkRecords
  <2>3. work' \in [Workers -> WorkRecords] /\ budget' \in Nat
    BY <2>1, <2>2 DEF NoFault, Fault
  <2> QED
    BY <1>1, <2>3 DEF DLQPick
<1>2. ASSUME NEW o \in Ops, DLQOp(w, o) PROVE TypeOK'
  <2>1. /\ [work[w] EXCEPT !.todo = @ \ {o}, !.any = TRUE] \in WorkRecords
        /\ [work[w] EXCEPT !.todo = @ \ {o}] \in WorkRecords
    BY DEF WorkRecords
  <2>2. rows' \subseteq Ops /\ credited' \in [Ops -> Nat] /\ budget' \in Nat
    BY <1>2 DEF DLQOp, ApplyDonation, NoFault, Fault
  <2>3. work' \in [Workers -> WorkRecords]
    BY <1>2, <2>1 DEF DLQOp
  <2> QED
    BY <1>2, <2>2, <2>3 DEF DLQOp
<1>3. CASE DLQClose(w)
  <2> DEFINE t == work[w].tx
  <2>1. t \in Txs
    BY <1>3 DEF DLQClose, WorkRecords
  <2>2. dlq[t] \in Entries
    BY <2>1
  <2>3. /\ [dlq EXCEPT ![t].status = "resolved"] \in [Txs -> Entries]
        /\ [dlq EXCEPT ![t].retries = IF @ < MaxRetries THEN @ + 1 ELSE @] \in [Txs -> Entries]
    BY <2>1, <2>2, ConstantsAssumption DEF Entries
  <2>4. dlq' \in [Txs -> Entries] /\ budget' \in Nat
    BY <1>3, <2>3 DEF DLQClose, NoFault, Fault
  <2> QED
    BY <1>3, <2>4, IdleType DEF DLQClose
<1> QED
  BY <1>1, <1>2, <1>3

\* Stopping, exiting and crashing preserve the types.
LEMMA LifecycleTypeOK == TypeOK /\ Lifecycle => TypeOK'
<1> SUFFICES ASSUME TypeOK, Lifecycle PROVE TypeOK'
  OBVIOUS
<1> USE DEF TypeOK, db
<1>1. CASE Stop
  BY <1>1, Positions DEF Stop, Phases, Closed, process
<1>2. Exit => /\ phase' \in Phases /\ cache' \subseteq Wallets
              /\ stream' \in 0 .. NOps + 1 /\ retryTimer' \in BOOLEAN
              /\ opening' \in -1 .. MaxLedger
              /\ inflight' \in [Ops -> Nat]
              /\ job' \in [Jobs -> JobRecords] /\ work' \in [Workers -> WorkRecords]
  <2>1. Exit => job' \in [Jobs -> JobRecords] /\ work' \in [Workers -> WorkRecords]
    BY IdleType DEF Exit
  <2>2. Exit => inflight' \in [Ops -> Nat] /\ cache' \subseteq Wallets
    BY DEF Exit
  <2>3. Exit => phase' \in Phases /\ stream' \in 0 .. NOps + 1 /\ retryTimer' \in BOOLEAN
    BY Positions DEF Exit, Phases, Closed
  <2>4. Exit => opening' \in -1 .. MaxLedger
    BY ConstantsAssumption DEF Exit, NotOpening
  <2> QED
    BY <2>1, <2>2, <2>3, <2>4
<1>5. CASE Drained
  BY <1>5 DEF Drained, Phases, process
<1>3. CASE Stopped
  BY <1>3, <1>2 DEF Stopped
<1>4. CASE Crash
  BY <1>4, <1>2 DEF Crash, Fault
<1> QED
  BY <1>1, <1>3, <1>4, <1>5 DEF Lifecycle

\* Every step preserves the types.
LEMMA NextTypeOK == TypeOK /\ [Next]_vars => TypeOK'
<1>1. TypeOK /\ UNCHANGED vars => TypeOK'
  BY DEF TypeOK, vars, db, process
<1> QED
  BY <1>1, EnvironmentTypeOK, StreamTypeOK, BackfillTypeOK, DLQTypeOK, LifecycleTypeOK
     DEF Next

\* Every variable of the indexer keeps its type: checkpoint, queue and job records
\* stay within their tables' and the chain's bounds under every kind of fault.
THEOREM TypeCorrect == Spec => []TypeOK
BY InitTypeOK, NextTypeOK, PTL DEF Spec

-------------------------------------------------------------------------------
(* The donation tables.                                                    *)

\* Whoever takes it, a step leaves the tables alone or is one donation's commit.
LEMMA StepOnTables ==
  ASSUME TypeOK, Next
  PROVE  UNCHANGED <<rows, credited>> \/ \E o \in Ops : ApplyDonation(o)
<1> DEFINE Goal == UNCHANGED <<rows, credited>> \/ \E o \in Ops : ApplyDonation(o)
<1>1. Environment => Goal
  BY DEF Environment, CloseLedger, ActivateProject, db
<1>2. StreamStep => Goal
  BY DEF StreamStep, StartIndexer, OpenStream, StreamOpens, OpenFails, StreamError, Deliver,
     RefreshWallets, HandlerCommits, HandlerFails, HandlerFailsUnqueued, db
<1>3. ASSUME NEW j \in Jobs, Backfill(j) PROVE Goal
  BY <1>3 DEF Backfill, BackfillCheck, BackfillSkips, BackfillMark, BackfillStart, BackfillNoop,
     BackfillThrows, BackfillOp, BackfillFinish, MoreToReplay, db
<1>4. BackfillStep => Goal
  BY <1>3 DEF BackfillStep, LagCheckFails, Reconcile, AdminBackfill, LagCheck, db
<1>5. DLQStep => Goal
  BY DEF DLQStep, DLQPick, DLQOp, DLQClose, db
<1>6. Lifecycle => Goal
  BY DEF Lifecycle, Stop, Drained, Stopped, Crash, db
<1> QED
  BY <1>1, <1>2, <1>4, <1>5, <1>6 DEF Next

\* The commit of a donation is a step of the ledger, or a replay and no step.
LEMMA DonationIsRecord ==
  ASSUME TypeOK, CreditedOnce, NEW o \in Ops, ApplyDonation(o)
  PROVE  Ledger!Record(o) \/ UNCHANGED Ledger!vars
<1>1. CASE o \in rows
  BY <1>1 DEF ApplyDonation, TypeOK, Ledger!vars
<1>2. CASE o \notin rows
  <2>1. credited[o] = 0
    BY <1>2 DEF CreditedOnce, Ledger!CreditedOnce
  <2> QED
    BY <1>2, <2>1 DEF ApplyDonation, Ledger!Record, TypeOK
<1> QED
  BY <1>1, <1>2

\* A step of the ledger keeps every payment credited once.
LEMMA LedgerKeepsCreditedOnce ==
  TypeOK /\ CreditedOnce /\ [Ledger!Next]_(Ledger!vars) => CreditedOnce'
BY DEF TypeOK, CreditedOnce, Ledger!CreditedOnce, Ledger!Next, Ledger!Record, Ledger!vars

\* Every step of the indexer is a step of the ledger or leaves it unchanged.
LEMMA NextIsLedgerStep ==
  TypeOK /\ CreditedOnce /\ [Next]_vars => [Ledger!Next]_(Ledger!vars)
<1> SUFFICES ASSUME TypeOK, CreditedOnce, [Next]_vars
             PROVE  [Ledger!Next]_(Ledger!vars)
  OBVIOUS
<1>1. CASE Next
  BY <1>1, StepOnTables, DonationIsRecord DEF Ledger!Next, Ledger!vars
<1>2. CASE UNCHANGED vars
  BY <1>2 DEF vars, db, Ledger!vars
<1> QED
  BY <1>1, <1>2

\* However often the stream, backfills and the dead-letter queue replay a payment
\* and whatever crashes, raised_xlm counts a recorded payment once, no other.
THEOREM CreditedOnceHolds == Spec => []CreditedOnce
<1>1. Init => CreditedOnce
  BY DEF Init, CreditedOnce, Ledger!CreditedOnce
<1>2. TypeOK /\ CreditedOnce /\ [Next]_vars => CreditedOnce'
  BY NextIsLedgerStep, LedgerKeepsCreditedOnce
<1> QED
  BY <1>1, <1>2, TypeCorrect, PTL DEF Spec

\* The indexer implements the exactly-once ledger of DonationLedger.
THEOREM RefinesLedger == Spec => ImplementsLedger
<1>1. Init => Ledger!Init
  BY DEF Init, Ledger!Init
<1>2. TypeOK /\ CreditedOnce /\ [Next]_vars => [Ledger!Next]_(Ledger!vars)
  BY NextIsLedgerStep
<1> QED
  BY <1>1, <1>2, TypeCorrect, CreditedOnceHolds, PTL
     DEF Spec, ImplementsLedger, Ledger!Spec

-------------------------------------------------------------------------------
(* The checkpoint.                                                         *)

\* No step moves the checkpoint back.
LEMMA NextKeepsCheckpoint ==
  ASSUME TypeOK, Next PROVE cursor' >= cursor
<1>1. Environment => cursor' = cursor
  BY DEF Environment, CloseLedger, ActivateProject, db
<1>2. StreamStep => cursor' >= cursor
  BY LedgerType DEF TypeOK, StreamStep, StartIndexer, OpenStream, StreamOpens, OpenFails,
     StreamError, Deliver, RefreshWallets, HandlerCommits, HandlerFails,
     HandlerFailsUnqueued, UpdateCursor, Larger, db
<1>3. ASSUME NEW j \in Jobs, Backfill(j) PROVE cursor' >= cursor
  <2>1. job[j].latest \in 0 .. MaxLedger
    BY DEF TypeOK, JobRecords
  <2>2. BackfillFinish(j) => cursor' >= cursor
    BY <2>1 DEF TypeOK, BackfillFinish, Larger
  <2>3. BackfillFinish(j) \/ cursor' = cursor
    BY <1>3 DEF Backfill, BackfillCheck, BackfillSkips, BackfillMark, BackfillStart,
       BackfillNoop, BackfillThrows, BackfillOp, db
  <2> QED
    BY <2>2, <2>3 DEF TypeOK
<1>4. BackfillStep => cursor' >= cursor
  <2>1. LagCheckFails \/ Reconcile \/ AdminBackfill \/ (\E j \in Jobs : LagCheck(j))
        => cursor' = cursor
    BY DEF LagCheckFails, Reconcile, AdminBackfill, LagCheck, db
  <2>2. cursor' = cursor => cursor' >= cursor
    BY DEF TypeOK
  <2> QED
    BY <1>3, <2>1, <2>2 DEF BackfillStep
<1>5. DLQStep => cursor' = cursor
  BY DEF DLQStep, DLQPick, DLQOp, DLQClose, db
<1>6. Lifecycle => cursor' = cursor
  BY DEF Lifecycle, Stop, Drained, Stopped, Crash, db
<1> QED
  BY <1>1, <1>2, <1>4, <1>5, <1>6 DEF Next, TypeOK

\* By no path and over no crash does the checkpoint move back.
THEOREM CheckpointNeverMovesBack == Spec => CheckpointMonotone
<1>1. TypeOK /\ [Next]_vars => [cursor' >= cursor]_vars
  BY NextKeepsCheckpoint
<1> QED
  BY <1>1, TypeCorrect, PTL DEF Spec, CheckpointMonotone

\* What a commit and the end of a backfill may do to the checkpoint and its hash.
LEMMA StepOnChecksum ==
  ASSUME TypeOK, Next
  PROVE  /\ cursor' >= cursor /\ rows \subseteq rows'
         /\ hash' = hash \/ \E o \in Ops : o \in rows' /\ hash' = LedgerOf[o] /\ hash' <= cursor'
<1> DEFINE Kept == hash' = hash
           Named == \E o \in Ops : o \in rows' /\ hash' = LedgerOf[o] /\ hash' <= cursor'
<1>1. cursor' >= cursor
  BY NextKeepsCheckpoint
<1>2. rows \subseteq rows'
  BY StepOnTables DEF ApplyDonation
<1>3. Environment => Kept
  BY DEF Environment, CloseLedger, ActivateProject, db
<1>4. ASSUME NEW o \in Ops, HandlerCommits(o) PROVE Named
  BY <1>4, LedgerType DEF HandlerCommits, ApplyDonation, UpdateCursor, Larger, TypeOK
<1>5. StreamStep => Kept \/ Named
  BY <1>4 DEF StreamStep, StartIndexer, OpenStream, StreamOpens, OpenFails, StreamError, Deliver,
     RefreshWallets, HandlerFails, HandlerFailsUnqueued, db
<1>6. BackfillStep => Kept
  BY DEF BackfillStep, LagCheckFails, Reconcile, AdminBackfill, LagCheck, Backfill,
     BackfillCheck, BackfillSkips, BackfillMark, BackfillStart, BackfillNoop, BackfillThrows, BackfillOp,
     BackfillFinish, db
<1>7. DLQStep => Kept
  BY DEF DLQStep, DLQPick, DLQOp, DLQClose, db
<1>8. Lifecycle => Kept
  BY DEF Lifecycle, Stop, Drained, Stopped, Crash, db
<1> QED
  BY <1>1, <1>2, <1>3, <1>5, <1>6, <1>7, <1>8 DEF Next

\* The stored hash is that of a ledger with a recorded donation which the checkpoint
\* has reached: no crash separates the two writes of a donation's transaction.
THEOREM ChecksumHasDonation == Spec => []ChecksumNamesADonation
<1>1. Init => ChecksumNamesADonation
  BY DEF Init, ChecksumNamesADonation
<1>2. TypeOK /\ ChecksumNamesADonation /\ [Next]_vars => ChecksumNamesADonation'
  <2> SUFFICES ASSUME TypeOK, ChecksumNamesADonation, [Next]_vars, hash' # NoHash
               PROVE  hash' <= cursor' /\ \E o \in rows' : LedgerOf[o] = hash'
    BY DEF ChecksumNamesADonation
  <2>1. CASE UNCHANGED vars
    BY <2>1 DEF vars, db, ChecksumNamesADonation
  <2>2. CASE Next /\ hash' = hash
    <3>1. hash <= cursor /\ cursor' >= cursor /\ cursor' \in Int
      BY <2>2, StepOnChecksum, NextTypeOK DEF ChecksumNamesADonation, TypeOK
    <3>2. PICK o \in rows : LedgerOf[o] = hash
      BY <2>2 DEF ChecksumNamesADonation
    <3> QED
      BY <2>2, <3>1, <3>2, StepOnChecksum DEF TypeOK
  <2>3. CASE Next /\ hash' # hash
    BY <2>3, StepOnChecksum
  <2> QED
    BY <2>1, <2>2, <2>3
<1> QED
  BY <1>1, <1>2, TypeCorrect, PTL DEF Spec

-------------------------------------------------------------------------------
(* The dead-letter queue.                                                  *)

\* A payment of transaction t is in the table.
Recorded(t) == \E o \in rows : TxOf[o] = t

\* A worker's operations are those of its entry, and it notes a success only for
\* a recorded one.
WorkerInv ==
  \A w \in Workers :
    /\ \A o \in work[w].todo : TxOf[o] = work[w].tx
    /\ work[w].any => Recorded(work[w].tx)

QueueInv == ResolvedHasDonation /\ WorkerInv

\* What is recorded stays recorded.
LEMMA RecordedStable ==
  ASSUME TypeOK, Next, NEW t, Recorded(t) PROVE Recorded(t)'
BY StepOnChecksum DEF Recorded

\* Only DLQStep writes a worker, except that an exit clears them all.
LEMMA WorkersAlone ==
  ASSUME TypeOK, Next, ~DLQStep
  PROVE  work' = work \/ work' = [w \in Workers |-> IdleWork]
<1> DEFINE Goal == work' = work \/ work' = [w \in Workers |-> IdleWork]
<1>1. Environment => Goal
  BY DEF Environment, CloseLedger, ActivateProject, process
<1>2. StreamStep => Goal
  BY DEF StreamStep, StartIndexer, OpenStream, StreamOpens, OpenFails, StreamError, Deliver,
     RefreshWallets, HandlerCommits, HandlerFails, HandlerFailsUnqueued
<1>3. BackfillStep => Goal
  BY DEF BackfillStep, LagCheckFails, Reconcile, AdminBackfill, LagCheck, Backfill,
     BackfillCheck, BackfillSkips, BackfillMark, BackfillStart, BackfillNoop, BackfillThrows, BackfillOp,
     BackfillFinish
<1>4. Lifecycle => Goal
  BY DEF Lifecycle, Stop, Drained, Stopped, Crash, Exit
<1> QED
  BY <1>1, <1>2, <1>3, <1>4 DEF Next

\* Only a failing handler and DLQStep write the queue; the handler re-arms an entry.
LEMMA QueueAlone ==
  ASSUME TypeOK, Next, ~DLQStep, NEW t \in Txs, dlq'[t].status = "resolved"
  PROVE  dlq[t].status = "resolved"
<1>1. Environment => dlq' = dlq
  BY DEF Environment, CloseLedger, ActivateProject, db
<1>2. ASSUME NEW o \in Ops, HandlerFails(o) PROVE dlq[t].status = "resolved"
  BY <1>2 DEF HandlerFails, Enqueue, TypeOK
<1>3. StreamStep => dlq' = dlq \/ \E o \in Ops : HandlerFails(o)
  BY DEF StreamStep, StartIndexer, OpenStream, StreamOpens, OpenFails, StreamError, Deliver,
     RefreshWallets, HandlerCommits, HandlerFailsUnqueued, db
<1>4. BackfillStep => dlq' = dlq
  BY DEF BackfillStep, LagCheckFails, Reconcile, AdminBackfill, LagCheck, Backfill,
     BackfillCheck, BackfillSkips, BackfillMark, BackfillStart, BackfillNoop, BackfillThrows, BackfillOp,
     BackfillFinish, db
<1>5. Lifecycle => dlq' = dlq
  BY DEF Lifecycle, Stop, Drained, Stopped, Crash, db
<1> QED
  BY <1>1, <1>2, <1>3, <1>4, <1>5 DEF Next

\* Every step of a worker preserves QueueInv.
LEMMA DLQKeepsQueueInv ==
  ASSUME TypeOK, QueueInv, Next, DLQStep PROVE QueueInv'
<1> PICK w \in Workers : \/ \E t \in Txs : DLQPick(w, t)
                         \/ \E o \in Ops : DLQOp(w, o)
                         \/ DLQClose(w)
  BY DEF DLQStep
<1>1. \A t : Recorded(t) => Recorded(t)'
  BY RecordedStable
<1>2. work[w] \in WorkRecords /\ work \in [Workers -> WorkRecords]
  BY DEF TypeOK
<1>3. ASSUME NEW t \in Txs, DLQPick(w, t) PROVE QueueInv'
  <2>1. ResolvedHasDonation'
    BY <1>1, <1>3 DEF DLQPick, QueueInv, ResolvedHasDonation, Recorded, db
  <2>2. PICK todo \in SUBSET Ops :
          /\ \A o \in todo : TxOf[o] = t
          /\ work' = [work EXCEPT ![w] = [tx |-> t, todo |-> todo, any |-> FALSE]]
    BY <1>3 DEF DLQPick
  <2>3. WorkerInv'
    BY <1>1, <1>2, <2>2 DEF QueueInv, WorkerInv
  <2> QED
    BY <2>1, <2>3 DEF QueueInv
<1>4. ASSUME NEW o \in Ops, DLQOp(w, o) PROVE QueueInv'
  <2>1. ResolvedHasDonation'
    BY <1>1, <1>4 DEF DLQOp, QueueInv, ResolvedHasDonation, Recorded
  <2>2. TxOf[o] = work[w].tx /\ o \in work[w].todo
    BY <1>4 DEF DLQOp, QueueInv, WorkerInv
  <2>3. CASE ApplyDonation(o) /\ work' = [work EXCEPT ![w].todo = @ \ {o}, ![w].any = TRUE]
    <3>1. Recorded(work[w].tx)'
      BY <1>2, <2>2, <2>3 DEF ApplyDonation, Recorded, WorkRecords
    <3>2. /\ work'[w].tx = work[w].tx /\ work'[w].todo \subseteq work[w].todo
          /\ \A v \in Workers \ {w} : work'[v] = work[v]
      BY <1>2, <2>3 DEF WorkRecords
    <3>3. WorkerInv'
      BY <1>1, <3>1, <3>2 DEF QueueInv, WorkerInv, Recorded
    <3> QED
      BY <2>1, <3>3 DEF QueueInv
  <2>4. CASE work' = [work EXCEPT ![w].todo = @ \ {o}]
    <3>1. /\ \A v \in Workers : /\ work'[v].tx = work[v].tx /\ work'[v].any = work[v].any
                               /\ work'[v].todo \subseteq work[v].todo
      BY <1>2, <2>4 DEF WorkRecords
    <3>2. WorkerInv'
      BY <1>1, <3>1 DEF QueueInv, WorkerInv, Recorded
    <3> QED
      BY <2>1, <3>2 DEF QueueInv
  <2> QED
    BY <1>4, <2>3, <2>4 DEF DLQOp
<1>5. CASE DLQClose(w)
  <2> DEFINE t == work[w].tx
  <2>1. work' = [work EXCEPT ![w] = IdleWork]
    BY <1>5 DEF DLQClose
  <2>2. WorkerInv'
    BY <1>1, <1>2, <2>1 DEF QueueInv, WorkerInv, IdleWork
  <2>3. t \in Txs
    BY <1>2, <1>5 DEF DLQClose, WorkRecords
  <2>4. CASE work[w].any /\ dlq' = [dlq EXCEPT ![t].status = "resolved"]
    <3>1. Recorded(t)
      BY <2>4 DEF QueueInv, WorkerInv
    <3>2. \A s \in Txs \ {t} : dlq'[s] = dlq[s]
      BY <2>4 DEF TypeOK
    <3>3. ResolvedHasDonation'
      BY <1>1, <2>3, <3>1, <3>2 DEF QueueInv, ResolvedHasDonation, Recorded
    <3> QED
      BY <2>2, <3>3 DEF QueueInv
  <2>5. CASE dlq' = [dlq EXCEPT ![t].retries = IF @ < MaxRetries THEN @ + 1 ELSE @]
    <3>1. \A s \in Txs : dlq'[s].status = dlq[s].status
      BY <2>5 DEF TypeOK, Entries
    <3>2. ResolvedHasDonation'
      BY <1>1, <3>1 DEF QueueInv, ResolvedHasDonation, Recorded
    <3> QED
      BY <2>2, <3>2 DEF QueueInv
  <2> QED
    BY <1>5, <2>4, <2>5 DEF DLQClose
<1> QED
  BY <1>3, <1>4, <1>5

\* What the workers and the queue agree on holds throughout.
LEMMA QueueAlways == Spec => []QueueInv
<1>1. Init => QueueInv
  BY DEF Init, QueueInv, ResolvedHasDonation, WorkerInv, NoEntry, IdleWork
<1>2. TypeOK /\ QueueInv /\ [Next]_vars => QueueInv'
  <2> SUFFICES ASSUME TypeOK, QueueInv, [Next]_vars PROVE QueueInv'
    OBVIOUS
  <2>1. CASE UNCHANGED vars
    BY <2>1 DEF vars, db, process, QueueInv, ResolvedHasDonation, WorkerInv, Recorded
  <2>2. CASE Next /\ DLQStep
    BY <2>2, DLQKeepsQueueInv
  <2>3. CASE Next /\ ~DLQStep
    <3>1. ResolvedHasDonation'
      BY <2>3, QueueAlone, RecordedStable DEF QueueInv, ResolvedHasDonation, Recorded
    <3>2. WorkerInv'
      BY <2>3, WorkersAlone, RecordedStable DEF QueueInv, WorkerInv, Recorded, IdleWork
    <3> QED
      BY <3>1, <3>2 DEF QueueInv
  <2> QED
    BY <2>1, <2>2, <2>3
<1> QED
  BY <1>1, <1>2, TypeCorrect, PTL DEF Spec

\* An entry is resolved only with a donation of its transaction, however polls
\* overlap with each other and with handlers that put the transaction back.
THEOREM ResolvedHasDonationHolds == Spec => []ResolvedHasDonation
<1>1. QueueInv => ResolvedHasDonation
  BY DEF QueueInv
<1> QED
  BY <1>1, QueueAlways, PTL

-------------------------------------------------------------------------------
(* The checkpoint and the chain.                                           *)

\* The indexer has met the payment: it is recorded, or a handler of it runs, or its
\* transaction has an entry in the dead-letter queue.
Handled(o) == o \in rows \/ inflight[o] > 0 \/ dlq[TxOf[o]].status # "absent"

\* What the indexer has met, and what its backfills are to replay, is of closed ledgers.
ChainInv ==
  /\ cursor <= tip
  /\ \A o \in Ops : Handled(o) => LedgerOf[o] <= tip
  /\ \A w \in Workers : work[w].tx # NoTx => dlq[work[w].tx].status # "absent"
  /\ \A j \in Jobs : job[j].from <= tip /\ job[j].to <= tip /\ job[j].latest <= tip

LEMMA ChainTypes ==
  ASSUME TypeOK
  PROVE  /\ tip \in Nat /\ cursor \in Nat /\ tip <= MaxLedger
         /\ \A o \in Ops : LedgerOf[o] \in Nat \ {0} /\ TxOf[o] \in Txs /\ TxOf[o] # NoTx
         /\ \A j \in Jobs : job[j].from \in Nat /\ job[j].to \in Nat /\ job[j].latest \in Nat
<1>1. \A j \in Jobs : job[j] \in JobRecords
  BY DEF TypeOK
<1> QED
  BY <1>1, ConstantsAssumption DEF TypeOK, JobRecords, Txs, NoTx

\* Ledgers only close.
LEMMA TipGrows ==
  ASSUME TypeOK, Next PROVE tip' >= tip /\ tip' \in Nat
<1>1. tip \in Nat
  BY ChainTypes
<1>2. tip' = tip \/ tip' = tip + 1
  <2>1. Environment => tip' = tip \/ tip' = tip + 1
    BY DEF Environment, CloseLedger, ActivateProject
  <2>2. StreamStep => tip' = tip
    BY DEF StreamStep, StartIndexer, OpenStream, StreamOpens, OpenFails, StreamError, Deliver,
       RefreshWallets, HandlerCommits, HandlerFails, HandlerFailsUnqueued
  <2>3. BackfillStep => tip' = tip
    BY DEF BackfillStep, LagCheckFails, Reconcile, AdminBackfill, LagCheck, Backfill,
       BackfillCheck, BackfillSkips, BackfillMark, BackfillStart, BackfillNoop, BackfillThrows,
       BackfillOp, BackfillFinish
  <2>4. DLQStep => tip' = tip
    BY DEF DLQStep, DLQPick, DLQOp, DLQClose
  <2>5. Lifecycle => tip' = tip
    BY DEF Lifecycle, Stop, Drained, Stopped, Crash
  <2> QED
    BY <2>1, <2>2, <2>3, <2>4, <2>5 DEF Next
<1> QED
  BY <1>1, <1>2

\* Each way in which a payment comes to be met shows that its ledger is closed.
LEMMA MetWhenClosed ==
  ASSUME TypeOK, WorkerInv, ChainInv, Next, NEW o \in Ops, Handled(o)', ~Handled(o)
  PROVE  LedgerOf[o] <= tip
<1> USE DEF Handled
<1>0. \A p \in Ops : inflight[p] \in Nat /\ TxOf[p] \in Txs
  BY ChainTypes DEF TypeOK
<1>1. CASE Environment
  BY <1>1 DEF Environment, CloseLedger, ActivateProject, db, process
<1>2. CASE StreamStep
  <2>1. CASE Deliver
    <3>1. rows' = rows /\ dlq' = dlq
      BY <2>1 DEF Deliver, db
    <3>2. inflight' = inflight \/ inflight' = [inflight EXCEPT ![stream] = @ + 1]
      BY <2>1 DEF Deliver
    <3>3. o = stream
      BY <3>1, <3>2 DEF TypeOK
    <3> QED
      BY <2>1, <3>3 DEF Deliver
  <2>2. ASSUME NEW p \in Ops, HandlerCommits(p) PROVE LedgerOf[o] <= tip
    BY <1>0, <2>2 DEF HandlerCommits, ApplyDonation, TypeOK
  <2>3. ASSUME NEW p \in Ops, HandlerFails(p) PROVE LedgerOf[o] <= tip
    <3>1. TxOf[o] = TxOf[p] /\ Handled(p)
      BY <1>0, <2>3 DEF HandlerFails, Enqueue, TypeOK
    <3> QED
      BY <3>1, ChainOrderAssumption DEF ChainInv
  <2>4. ASSUME NEW p \in Ops, HandlerFailsUnqueued(p) PROVE LedgerOf[o] <= tip
    BY <1>0, <2>4 DEF HandlerFailsUnqueued, TypeOK, db
  <2>5. CASE \/ StartIndexer \/ OpenStream \/ StreamOpens \/ OpenFails \/ StreamError
             \/ RefreshWallets
    BY <2>5 DEF StartIndexer, OpenStream, StreamOpens, OpenFails, StreamError, RefreshWallets, db
  <2> QED
    BY <1>2, <2>1, <2>2, <2>3, <2>4, <2>5 DEF StreamStep
<1>3. CASE BackfillStep
  <2>1. dlq' = dlq /\ inflight' = inflight
    BY <1>3 DEF BackfillStep, LagCheckFails, Reconcile, AdminBackfill, LagCheck, Backfill,
       BackfillCheck, BackfillSkips, BackfillMark, BackfillStart, BackfillNoop, BackfillThrows,
       BackfillOp, BackfillFinish, db
  <2>2. o \in rows' /\ o \notin rows
    BY <2>1
  <2>3. PICK j \in Jobs : BackfillOp(j)
    BY <1>3, <2>2 DEF BackfillStep, LagCheckFails, Reconcile, AdminBackfill, LagCheck, Backfill,
       BackfillCheck, BackfillSkips, BackfillMark, BackfillStart, BackfillNoop, BackfillThrows,
       BackfillFinish, db
  <2>4. rows' = rows \/ rows' = rows \cup {job[j].next}
    BY <2>3 DEF BackfillOp, ApplyDonation
  <2> QED
    BY <2>2, <2>3, <2>4 DEF BackfillOp, MoreToReplay
<1>4. CASE DLQStep
  <2>1. inflight' = inflight
    BY <1>4 DEF DLQStep, DLQPick, DLQOp, DLQClose
  <2> PICK w \in Workers : \/ \E t \in Txs : DLQPick(w, t)
                           \/ \E p \in Ops : DLQOp(w, p)
                           \/ DLQClose(w)
    BY <1>4 DEF DLQStep
  <2>2. ASSUME NEW t \in Txs, DLQPick(w, t) PROVE FALSE
    BY <2>1, <2>2 DEF DLQPick, db
  <2>3. ASSUME NEW p \in Ops, DLQOp(w, p) PROVE FALSE
    <3>1. dlq' = dlq /\ (rows' = rows \/ rows' = rows \cup {p}) /\ p \in work[w].todo
      BY <2>3 DEF DLQOp, ApplyDonation
    <3>2. TxOf[p] = work[w].tx /\ TxOf[p] # NoTx
      BY <3>1, ChainTypes DEF WorkerInv
    <3>3. dlq[TxOf[p]].status # "absent"
      BY <3>2 DEF ChainInv
    <3> QED
      BY <2>1, <3>1, <3>3
  <2>4. CASE DLQClose(w)
    <3>1. rows' = rows /\ work[w].tx # NoTx
      BY <2>4 DEF DLQClose
    <3>2. \A t \in Txs \ {work[w].tx} : dlq'[t] = dlq[t]
      BY <2>4 DEF DLQClose, TypeOK
    <3>3. dlq[work[w].tx].status # "absent"
      BY <3>1 DEF ChainInv
    <3> QED
      BY <1>0, <2>1, <3>1, <3>2, <3>3
  <2> QED
    BY <2>2, <2>3, <2>4
<1>5. CASE Lifecycle
  BY <1>5 DEF Lifecycle, Stop, Drained, Stopped, Crash, Exit, db
<1> QED
  BY <1>1, <1>2, <1>3, <1>4, <1>5 DEF Next

\* An entry of the queue stays one, and a worker's entry is one.
LEMMA EntriesStay ==
  ASSUME TypeOK, ChainInv, Next
  PROVE  /\ \A t \in Txs : dlq[t].status # "absent" => dlq'[t].status # "absent"
         /\ \A w \in Workers : work'[w].tx # NoTx => dlq'[work'[w].tx].status # "absent"
<1>0. \A w \in Workers : work[w] \in WorkRecords
  BY DEF TypeOK
<1>1. CASE dlq' = dlq /\ ~DLQStep
  BY <1>1, WorkersAlone DEF ChainInv, IdleWork
<1>2. ASSUME NEW o \in Ops, HandlerFails(o)
      PROVE  /\ \A t \in Txs : dlq[t].status # "absent" => dlq'[t].status # "absent"
             /\ \A w \in Workers : work'[w].tx # NoTx => dlq'[work'[w].tx].status # "absent"
  <2>1. work' = work /\ \A t \in Txs : dlq[t].status # "absent" => dlq'[t].status # "absent"
    BY <1>2 DEF HandlerFails, Enqueue, TypeOK
  <2> QED
    BY <1>0, <2>1 DEF ChainInv, WorkRecords
<1>3. CASE DLQStep
  <2> PICK w \in Workers : \/ \E t \in Txs : DLQPick(w, t)
                           \/ \E p \in Ops : DLQOp(w, p)
                           \/ DLQClose(w)
    BY <1>3 DEF DLQStep
  <2>1. ASSUME NEW t \in Txs, DLQPick(w, t)
        PROVE  /\ dlq' = dlq
               /\ \A v \in Workers : work'[v].tx # NoTx => dlq[work'[v].tx].status # "absent"
    <3>1. PICK todo \in SUBSET Ops :
            work' = [work EXCEPT ![w] = [tx |-> t, todo |-> todo, any |-> FALSE]]
      BY <2>1 DEF DLQPick
    <3>2. work'[w].tx = t /\ dlq[t].status # "absent"
      BY <2>1, <3>1 DEF DLQPick, Retryable, TypeOK
    <3>3. \A v \in Workers \ {w} : work'[v] = work[v]
      BY <3>1 DEF TypeOK
    <3> QED
      BY <2>1, <3>2, <3>3 DEF DLQPick, db, ChainInv
  <2>2. ASSUME NEW p \in Ops, DLQOp(w, p)
        PROVE  dlq' = dlq /\ \A v \in Workers : work'[v].tx = work[v].tx
    <3>1. /\ dlq' = dlq
          /\ \/ work' = [work EXCEPT ![w].todo = @ \ {p}, ![w].any = TRUE]
             \/ work' = [work EXCEPT ![w].todo = @ \ {p}]
      BY <2>2 DEF DLQOp
    <3>2. work \in [Workers -> WorkRecords]
      BY DEF TypeOK
    <3>3. \A v \in Workers : work'[v].tx = work[v].tx
      BY <3>1, <3>2 DEF WorkRecords
    <3> QED
      BY <3>1, <3>3
  <2>3. CASE DLQClose(w)
    <3>1. /\ work'[w].tx = NoTx
          /\ \A v \in Workers \ {w} : work'[v] = work[v]
      BY <2>3 DEF DLQClose, TypeOK, IdleWork
    <3>2. work[w].tx \in Txs /\ dlq[work[w].tx].status # "absent"
      BY <1>0, <2>3 DEF DLQClose, WorkRecords, ChainInv
    <3>3. \A t \in Txs : dlq[t].status # "absent" => dlq'[t].status # "absent"
      BY <2>3, <3>2 DEF DLQClose, TypeOK, Entries
    <3> QED
      BY <1>0, <3>1, <3>3 DEF ChainInv, WorkRecords
  <2> QED
    BY <2>1, <2>2, <2>3 DEF ChainInv
<1>4. dlq' = dlq \/ DLQStep \/ \E o \in Ops : HandlerFails(o)
  <2>1. Environment => dlq' = dlq
    BY DEF Environment, CloseLedger, ActivateProject, db
  <2>2. StreamStep => dlq' = dlq \/ \E o \in Ops : HandlerFails(o)
    BY DEF StreamStep, StartIndexer, OpenStream, StreamOpens, OpenFails, StreamError, Deliver,
       RefreshWallets, HandlerCommits, HandlerFailsUnqueued, db
  <2>3. BackfillStep => dlq' = dlq
    BY DEF BackfillStep, LagCheckFails, Reconcile, AdminBackfill, LagCheck, Backfill,
       BackfillCheck, BackfillSkips, BackfillMark, BackfillStart, BackfillNoop, BackfillThrows,
       BackfillOp, BackfillFinish, db
  <2>4. Lifecycle => dlq' = dlq
    BY DEF Lifecycle, Stop, Drained, Stopped, Crash, db
  <2> QED
    BY <2>1, <2>2, <2>3, <2>4 DEF Next
<1> QED
  BY <1>1, <1>2, <1>3, <1>4

\* What a step of a job or of its caller does to it.
JobMoves(j) ==
  \/ LagCheck(j) \/ Backfill(j)
  \/ j = "reconciler" /\ Reconcile
  \/ j = "admin" /\ AdminBackfill

\* No two jobs move together, and only an exit ends one from outside.
LEMMA JobsAlone ==
  ASSUME TypeOK, Next, NEW j \in Jobs, job'[j] # job[j]
  PROVE  JobMoves(j) \/ job'[j] = IdleJob
<1>1. Environment => job' = job
  BY DEF Environment, CloseLedger, ActivateProject, process
<1>2. StreamStep => job' = job
  BY DEF StreamStep, StartIndexer, OpenStream, StreamOpens, OpenFails, StreamError, Deliver,
     RefreshWallets, HandlerCommits, HandlerFails, HandlerFailsUnqueued
<1>3. LagCheckFails => job' = job
  BY DEF LagCheckFails
<1>4. Reconcile => j = "reconciler"
  BY DEF Reconcile, TypeOK
<1>5. AdminBackfill => j = "admin"
  BY DEF AdminBackfill, TypeOK
<1>6. ASSUME NEW i \in Jobs, i # j PROVE ~LagCheck(i)
  BY <1>6 DEF LagCheck, TypeOK
<1>7. ASSUME NEW i \in Jobs, i # j PROVE ~Backfill(i)
  BY <1>7 DEF Backfill, BackfillCheck, BackfillSkips, BackfillMark, BackfillStart, BackfillNoop,
     BackfillThrows, BackfillOp, BackfillFinish, TypeOK
<1>8. DLQStep => job' = job
  BY DEF DLQStep, DLQPick, DLQOp, DLQClose
<1>9. Lifecycle => job' = job \/ job'[j] = IdleJob
  BY DEF Lifecycle, Stop, Drained, Stopped, Crash, Exit
<1> QED
  BY <1>1, <1>2, <1>3, <1>4, <1>5, <1>6, <1>7, <1>8, <1>9 DEF Next, BackfillStep, JobMoves

\* Without an administrator's range, a job's range ends at a ledger that is closed.
LEMMA RangeWithinChain ==
  ASSUME TypeOK, ChainInv, NEW j \in Jobs, j # "admin", JobMoves(j)
  PROVE  job'[j].from <= tip /\ job'[j].to <= tip /\ job'[j].latest <= tip
<1>0. /\ tip \in Nat /\ cursor \in Nat /\ cursor <= tip
      /\ job[j].from \in Nat /\ job[j].to \in Nat /\ job[j].latest \in Nat
      /\ job[j].from <= tip /\ job[j].to <= tip /\ job[j].latest <= tip
  BY ChainTypes DEF ChainInv
<1>1. job \in [Jobs -> JobRecords]
  BY DEF TypeOK
<1>2. IdleJob.from <= tip /\ IdleJob.to <= tip /\ IdleJob.latest <= tip
  BY <1>0 DEF IdleJob, NotGiven
<1>3. CASE LagCheck(j)
  <2>1. PICK c \in 0 .. MaxLedger :
          \/ /\ tip - c >= LagThreshold
             /\ job' = [job EXCEPT ![j] =
                          [IdleJob EXCEPT !.pc = "check", !.from = c + 1, !.to = tip]]
          \/ UNCHANGED job
    BY <1>3 DEF LagCheck
  <2>2. tip - c >= LagThreshold => c + 1 <= tip
    BY <1>0, ConstantsAssumption
  <2> DEFINE new == [IdleJob EXCEPT !.pc = "check", !.from = c + 1, !.to = tip]
  <2>3. new.from = c + 1 /\ new.to = tip /\ new.latest = 0
    BY DEF IdleJob
  <2>4. job'[j] = job[j] \/ (tip - c >= LagThreshold /\ job'[j] = new)
    BY <1>1, <2>1
  <2> HIDE DEF new
  <2> QED
    BY <1>0, <2>2, <2>3, <2>4
<1>4. CASE Reconcile /\ j = "reconciler"
  <2>1. job' = [job EXCEPT ![j] = [IdleJob EXCEPT !.pc = "check"]]
    BY <1>4 DEF Reconcile
  <2> QED
    BY <1>1, <1>2, <2>1 DEF IdleJob
<1>5. CASE BackfillCheck(j) \/ BackfillMark(j)
  BY <1>0, <1>1, <1>5 DEF BackfillCheck, BackfillMark, JobRecords
<1>6. CASE BackfillStart(j)
  <2>1. FirstLedger(j) <= tip /\ LastLedger(j) <= tip
    BY <1>0 DEF FirstLedger, LastLedger
  <2> QED
    BY <1>1, <1>6, <2>1 DEF BackfillStart
<1>7. CASE BackfillSkips(j) \/ BackfillNoop(j) \/ BackfillThrows(j) \/ BackfillFinish(j)
  BY <1>1, <1>2, <1>7 DEF BackfillSkips, BackfillNoop, BackfillThrows, BackfillFinish
<1>8. CASE BackfillOp(j)
  <2>1. LedgerOf[job[j].next] <= tip /\ LedgerOf[job[j].next] \in Nat
    BY <1>8, ChainTypes DEF BackfillOp, MoreToReplay
  <2>2. Larger(job[j].latest, LedgerOf[job[j].next]) <= tip
    BY <1>0, <2>1 DEF Larger
  <2>3. /\ job'[j].from = job[j].from /\ job'[j].to = job[j].to
        /\ job'[j].latest \in {job[j].latest, Larger(job[j].latest, LedgerOf[job[j].next])}
    BY <1>1, <1>8 DEF BackfillOp, JobRecords
  <2> QED
    BY <1>0, <2>2, <2>3
<1> QED
  BY <1>3, <1>4, <1>5, <1>6, <1>7, <1>8 DEF JobMoves, Backfill

\* Whoever writes the checkpoint writes a ledger that is closed.
LEMMA CheckpointWritten ==
  ASSUME TypeOK, Next, cursor' # cursor
  PROVE  \/ \E o \in Ops : HandlerCommits(o) /\ cursor' = LedgerOf[o]
         \/ \E j \in Jobs : BackfillFinish(j) /\ cursor' = job[j].latest
<1>1. ~Environment
  BY DEF Environment, CloseLedger, ActivateProject, db
<1>2. StreamStep => \E o \in Ops : HandlerCommits(o) /\ cursor' = LedgerOf[o]
  BY DEF StreamStep, StartIndexer, OpenStream, StreamOpens, OpenFails, StreamError, Deliver,
     RefreshWallets, HandlerCommits, HandlerFails, HandlerFailsUnqueued, UpdateCursor, Larger, db
<1>3. BackfillStep => \E j \in Jobs : BackfillFinish(j) /\ cursor' = job[j].latest
  <2>1. ASSUME BackfillStep PROVE \E j \in Jobs : BackfillFinish(j)
    BY <2>1 DEF BackfillStep, LagCheckFails, Reconcile, AdminBackfill, LagCheck, Backfill,
       BackfillCheck, BackfillSkips, BackfillMark, BackfillStart, BackfillNoop, BackfillThrows,
       BackfillOp, db
  <2> QED
    BY <2>1 DEF BackfillFinish, Larger
<1>4. ~DLQStep
  BY DEF DLQStep, DLQPick, DLQOp, DLQClose, db
<1>5. ~Lifecycle
  BY DEF Lifecycle, Stop, Drained, Stopped, Crash, db
<1> QED
  BY <1>1, <1>2, <1>3, <1>4, <1>5 DEF Next

LEMMA ChainStep ==
  ASSUME "admin" \notin Jobs, TypeOK, WorkerInv, ChainInv, [Next]_vars
  PROVE  ChainInv'
<1>1. CASE UNCHANGED vars
  BY <1>1 DEF vars, db, process, ChainInv, Handled
<1>2. CASE Next
  <2>0. /\ tip \in Nat /\ tip' \in Nat /\ tip <= tip' /\ cursor \in Nat
        /\ \A o \in Ops : LedgerOf[o] \in Nat
    BY <1>2, ChainTypes, TipGrows
  <2>1. cursor' <= tip'
    <3>1. ASSUME NEW o \in Ops, HandlerCommits(o) PROVE LedgerOf[o] <= tip
      BY <3>1 DEF HandlerCommits, ChainInv, Handled
    <3>2. ASSUME NEW j \in Jobs PROVE job[j].latest \in Nat /\ job[j].latest <= tip
      BY ChainTypes DEF ChainInv
    <3>3. cursor' <= tip /\ cursor' \in Nat
      BY <1>2, <2>0, <3>1, <3>2, CheckpointWritten DEF ChainInv
    <3> QED
      BY <2>0, <3>3
  <2>2. ASSUME NEW o \in Ops, Handled(o)' PROVE LedgerOf[o] <= tip'
    <3>1. LedgerOf[o] <= tip
      BY <1>2, <2>2, MetWhenClosed DEF ChainInv
    <3> QED
      BY <2>0, <3>1
  <2>3. ASSUME NEW j \in Jobs
        PROVE  job'[j].from <= tip' /\ job'[j].to <= tip' /\ job'[j].latest <= tip'
    <3>1. job'[j].from <= tip /\ job'[j].to <= tip /\ job'[j].latest <= tip
      <4>1. IdleJob.from <= tip /\ IdleJob.to <= tip /\ IdleJob.latest <= tip
        BY <2>0 DEF IdleJob, NotGiven
      <4> QED
        BY <1>2, <4>1, JobsAlone, RangeWithinChain DEF ChainInv
    <3>2. job'[j].from \in Nat /\ job'[j].to \in Nat /\ job'[j].latest \in Nat
      BY <1>2, NextTypeOK DEF TypeOK, JobRecords
    <3> QED
      BY <2>0, <3>1, <3>2
  <2> QED
    BY <1>2, <2>1, <2>2, <2>3, EntriesStay DEF ChainInv
<1> QED
  BY <1>1, <1>2

LEMMA ChainAlways == ASSUME "admin" \notin Jobs PROVE Spec => []ChainInv
<1>1. Init => ChainInv
  <2>1. ASSUME Init PROVE ChainInv
    <3>1. FirstTip \in Nat /\ \A j \in Jobs : job[j] = IdleJob
      BY <2>1, ConstantsAssumption DEF Init
    <3>2. IdleJob.from <= FirstTip /\ IdleJob.to <= FirstTip /\ IdleJob.latest <= FirstTip
      BY <3>1 DEF IdleJob, NotGiven
    <3>3. \A o \in Ops : ~Handled(o)
      BY <2>1, ConstantsAssumption DEF Init, Handled, Txs, NoEntry
    <3> QED
      BY <2>1, <3>1, <3>2, <3>3 DEF Init, ChainInv, IdleWork
  <2> QED
    BY <2>1
<1>2. TypeOK /\ QueueInv /\ ChainInv /\ [Next]_vars => ChainInv'
  BY ChainStep DEF QueueInv
<1> QED
  BY <1>1, <1>2, TypeCorrect, QueueAlways, PTL DEF Spec

\* The checkpoint and every recorded donation are of ledgers that are closed, whatever fails
\* and whenever the process dies: only a range that an administrator gives may be ahead of
\* the chain.
THEOREM CheckpointFollowsChain ==
  ASSUME "admin" \notin Jobs PROVE Spec => []CheckpointWithinChain
<1>1. TypeOK /\ ChainInv => CheckpointWithinChain
  BY DEF TypeOK, ChainInv, Handled, CheckpointWithinChain
<1> QED
  BY <1>1, ChainAlways, TypeCorrect, PTL

-------------------------------------------------------------------------------
(* No payment is lost.                                                     *)

HandledBelow(n) == \A p \in Ops : p < n => Handled(p)

\* Whatever the checkpoint has passed was met, all projects are known to a live process.
CheckpointInv ==
  /\ \A o \in Ops : LedgerOf[o] <= cursor => Handled(o)
  /\ listed = Wallets /\ (phase # "down" => cache = Wallets)
  /\ tip >= FirstTip

\* A stream is open or being opened, and handlers run, only in the phases that have them;
\* the stream is behind nothing that was not met.
StreamInv ==
  /\ stream # Closed => phase = "running" /\ HandledBelow(stream)
  /\ opening # NotOpening => phase \in {"opening", "running"} /\ 0 < opening /\ opening <= cursor
  /\ retryTimer => phase = "running"
  /\ \A o \in Ops : inflight[o] > 0 => phase \in {"running", "draining"} /\ HandledBelow(o)

\* A backfill replays its range without a gap from where the checkpoint was.
RangeInv(j) ==
  /\ job[j].from <= cursor + 1
  /\ j \in LagJobs /\ job[j].pc # "idle" => 0 < job[j].from /\ job[j].from < job[j].to
  /\ job[j].pc = "page" => /\ 0 < job[j].from /\ job[j].from <= job[j].latest
                           /\ job[j].latest <= job[j].to
                           /\ job[j].wallets = Wallets /\ HandledBelow(job[j].next)

\* Until the first backfill has ended, there is no checkpoint and nothing else runs.
FirstRunInv ==
  cursor = 0 => /\ phase \in {"down", "lagcheck"}
                /\ \A j \in Jobs \ {"lag"} : job[j].pc = "idle"
                /\ inBackfill => job["lag"].pc \in {"range", "page"}

LossInv == CheckpointInv /\ StreamInv /\ (\A j \in Jobs : RangeInv(j)) /\ FirstRunInv

\* A query starts behind the payments of earlier ledgers, and before all others.
LEMMA FirstAtSplits ==
  ASSUME NEW l \in Int, NEW o \in Ops PROVE (o < FirstAt(l)) <=> (LedgerOf[o] < l)
<1> DEFINE Before == {p \in Ops : LedgerOf[p] < l}
<1>0. \A p \in Ops : /\ LedgerOf[p] \in Int /\ p \in Nat \ {0}
                     /\ 1 .. p \subseteq Ops /\ 1 .. p - 1 \subseteq Ops
  BY ConstantsAssumption DEF Ops
<1>1. IsFiniteSet(Before) /\ Cardinality(Before) \in Nat
  <2>1. IsFiniteSet(Ops)
    BY ConstantsAssumption, FS_Interval DEF Ops
  <2> QED
    BY <2>1, FS_Subset, FS_CardinalityType
<1>2. CASE LedgerOf[o] < l
  <2>1. \A p \in 1 .. o : LedgerOf[p] <= LedgerOf[o]
    BY <1>0, ChainOrderAssumption
  <2>2. 1 .. o \subseteq Before
    BY <1>0, <1>2, <2>1
  <2>3. Cardinality(1 .. o) = o
    BY <1>0, FS_Interval
  <2>4. o <= Cardinality(Before)
    BY <1>1, <2>2, <2>3, FS_Subset
  <2> QED
    BY <1>0, <1>1, <1>2, <2>4 DEF FirstAt
<1>3. CASE ~(LedgerOf[o] < l)
  <2>1. \A p \in Before : ~(o <= p)
    <3> SUFFICES ASSUME NEW p \in Before, o <= p PROVE FALSE
      OBVIOUS
    <3>1. LedgerOf[o] <= LedgerOf[p]
      BY ChainOrderAssumption
    <3> QED
      BY <1>0, <1>3, <3>1
  <2>2. Before \subseteq 1 .. o - 1
    BY <1>0, <2>1 DEF Ops
  <2>3. Cardinality(1 .. o - 1) = o - 1 /\ IsFiniteSet(1 .. o - 1)
    <3>1. o - 1 \in Int /\ o - 1 >= 0
      BY <1>0
    <3> QED
      BY <3>1, FS_Interval
  <2>4. Cardinality(Before) <= o - 1
    BY <2>2, <2>3, FS_Subset
  <2> QED
    BY <1>0, <1>1, <1>3, <2>4 DEF FirstAt
<1> QED
  BY <1>2, <1>3

\* What is met stays met: no handler is in flight when the process exits.
LEMMA HandledStays ==
  ASSUME GentleDeployment, TypeOK, ChainInv, StreamInv, Next, NEW o \in Ops, Handled(o)
  PROVE  Handled(o)'
<1>0. TxOf[o] \in Txs /\ inflight \in [Ops -> Nat]
  BY ChainTypes DEF TypeOK
<1>1. CASE o \in rows
  BY <1>1, StepOnChecksum DEF Handled
<1>2. CASE dlq[TxOf[o]].status # "absent"
  BY <1>0, <1>2, EntriesStay DEF Handled
<1>3. CASE inflight[o] > 0
  <2>1. Environment => inflight' = inflight
    BY DEF Environment, CloseLedger, ActivateProject, process
  <2>2. CASE Deliver
    BY <1>0, <1>3, <2>2 DEF Deliver, Handled
  <2>3. ASSUME NEW p \in Ops, HandlerCommits(p) PROVE Handled(o)'
    BY <1>0, <1>3, <2>3 DEF HandlerCommits, ApplyDonation, Handled
  <2>4. ASSUME NEW p \in Ops, HandlerFails(p) PROVE Handled(o)'
    <3>1. CASE p = o
      BY <1>0, <2>4, <3>1 DEF HandlerFails, Enqueue, Handled, TypeOK
    <3> QED
      BY <1>0, <1>3, <2>4, <3>1 DEF HandlerFails, Handled
  <2>5. \A p \in Ops : ~HandlerFailsUnqueued(p)
    BY DEF HandlerFailsUnqueued, Fault, GentleDeployment
  <2>6. StreamStep => inflight' = inflight \/ Deliver
                      \/ \E p \in Ops : HandlerCommits(p) \/ HandlerFails(p)
    BY <2>5 DEF StreamStep, StartIndexer, OpenStream, StreamOpens, OpenFails, StreamError,
       RefreshWallets
  <2>7. BackfillStep => inflight' = inflight
    BY DEF BackfillStep, LagCheckFails, Reconcile, AdminBackfill, LagCheck, Backfill,
       BackfillCheck, BackfillSkips, BackfillMark, BackfillStart, BackfillNoop, BackfillThrows,
       BackfillOp, BackfillFinish
  <2>8. DLQStep => inflight' = inflight
    BY DEF DLQStep, DLQPick, DLQOp, DLQClose
  <2>9. Lifecycle => inflight' = inflight
    BY <1>3 DEF Lifecycle, Stop, Drained, Stopped, Crash, Fault, GentleDeployment, StreamInv
  <2>10. inflight' = inflight => Handled(o)'
    BY <1>3 DEF Handled
  <2> QED
    BY <2>1, <2>2, <2>3, <2>4, <2>6, <2>7, <2>8, <2>9, <2>10 DEF Next
<1> QED
  BY <1>1, <1>2, <1>3 DEF Handled

\* A commit or a backfill that moves the checkpoint leaves nothing behind it.
LEMMA CheckpointStep ==
  ASSUME GentleDeployment, TypeOK, ChainInv, LossInv, Next PROVE CheckpointInv'
<1>0. /\ \A o \in Ops : LedgerOf[o] \in Nat \ {0} /\ (Handled(o) => Handled(o)')
      /\ tip \in Nat /\ tip' \in Nat /\ tip' >= tip /\ FirstTip \in Nat
  BY ChainTypes, TipGrows, HandledStays, ConstantsAssumption DEF LossInv
<1>1. ASSUME NEW p \in Ops, LedgerOf[p] <= cursor' PROVE Handled(p)'
  <2>1. CASE cursor' = cursor
    BY <1>0, <1>1, <2>1 DEF LossInv, CheckpointInv
  <2>2. ASSUME NEW o \in Ops, HandlerCommits(o), cursor' = LedgerOf[o] PROVE Handled(p)'
    <3>1. CASE p = o
      BY <2>2, <3>1 DEF HandlerCommits, ApplyDonation, Handled
    <3>2. CASE p # o
      <4>1. p < o
        <5>1. ~(o <= p)
          BY <1>0, <1>1, <2>2, <3>2, ChainOrderAssumption DEF GentleDeployment
        <5> QED
          BY <5>1 DEF Ops
      <4>2. Handled(p)
        BY <2>2, <4>1 DEF HandlerCommits, LossInv, StreamInv, HandledBelow
      <4> QED
        BY <1>0, <4>2
    <3> QED
      BY <3>1, <3>2
  <2>3. ASSUME NEW j \in Jobs, BackfillFinish(j), cursor' = job[j].latest PROVE Handled(p)'
    <3>1. /\ job[j].latest \in Nat /\ job[j].to \in Nat /\ job[j].latest <= job[j].to
          /\ job[j].to <= tip /\ HandledBelow(job[j].next) /\ job[j].next \in 1 .. NOps + 1
      BY <2>3, ChainTypes DEF BackfillFinish, LossInv, RangeInv, ChainInv, TypeOK, JobRecords
    <3>2. ~MoreToReplay(j)
      BY <2>3 DEF BackfillFinish, GentleDeployment
    <3>3. p < job[j].next
      <4> SUFFICES ASSUME ~(p < job[j].next) PROVE FALSE
        OBVIOUS
      <4>1. job[j].next \in Ops /\ job[j].next <= p
        <5> DEFINE n == job[j].next
        <5>1. n \in 1 .. NOps + 1 /\ p \in 1 .. NOps /\ ~(p < n)
          BY <3>1 DEF Ops
        <5> HIDE DEF n
        <5>2. n \in 1 .. NOps /\ n <= p
          BY <5>1, ConstantsAssumption
        <5> QED
          BY <5>2 DEF n, Ops
      <4>2. LedgerOf[job[j].next] <= LedgerOf[p]
        BY <4>1, ChainOrderAssumption
      <4> QED
        BY <1>0, <1>1, <2>3, <3>1, <3>2, <4>1, <4>2 DEF MoreToReplay
    <3> QED
      BY <1>0, <3>1, <3>3 DEF HandledBelow
  <2> QED
    BY <1>1, <2>1, <2>2, <2>3, CheckpointWritten
<1>2. listed' = Wallets /\ (phase' # "down" => cache' = Wallets)
  <2>1. listed = Wallets /\ (phase # "down" => cache = Wallets)
    BY DEF LossInv, CheckpointInv
  <2>2. Environment => listed' = listed /\ phase' = phase /\ cache' = cache
    BY <2>1 DEF Environment, CloseLedger, ActivateProject, db, process
  <2>3. StreamStep => listed' = listed /\ (phase' # "down" => cache' = Wallets)
    BY <2>1 DEF StreamStep, StartIndexer, OpenStream, StreamOpens, OpenFails, StreamError, Deliver,
       RefreshWallets, HandlerCommits, HandlerFails, HandlerFailsUnqueued, db, Fault,
       GentleDeployment, Serving
  <2>4. BackfillStep => listed' = listed /\ (phase' # "down" => phase # "down") /\ cache' = cache
    BY DEF BackfillStep, LagCheckFails, Reconcile, AdminBackfill, LagCheck, Backfill,
       BackfillCheck, BackfillSkips, BackfillMark, BackfillStart, BackfillNoop, BackfillThrows,
       BackfillOp, BackfillFinish, AfterJob, db
  <2>5. DLQStep => listed' = listed /\ phase' = phase /\ cache' = cache
    BY DEF DLQStep, DLQPick, DLQOp, DLQClose, db
  <2>6. Lifecycle => listed' = listed /\ (phase' # "down" => phase # "down" /\ cache' = cache)
    BY DEF Lifecycle, Stop, Drained, Stopped, Crash, Exit, db
  <2> QED
    BY <2>1, <2>2, <2>3, <2>4, <2>5, <2>6 DEF Next
<1>3. tip' >= FirstTip
  BY <1>0 DEF LossInv, CheckpointInv
<1> QED
  BY <1>1, <1>2, <1>3 DEF CheckpointInv

\* What the steps of a backfill leave alone; the first one ends the start-up.
LEMMA BackfillFrame ==
  ASSUME BackfillStep
  PROVE  /\ UNCHANGED <<tip, listed, cache, stream, opening, retryTimer, inflight, work, hash>>
         /\ phase' = phase \/ (phase = "lagcheck" /\ phase' = "opening")
BY DEF BackfillStep, LagCheckFails, Reconcile, AdminBackfill, LagCheck, Backfill, BackfillCheck,
   BackfillSkips, BackfillMark, BackfillStart, BackfillNoop, BackfillThrows, BackfillOp,
   BackfillFinish, AfterJob, db

\* Streams, retries and handlers begin and end where they may.
LEMMA StreamKept ==
  ASSUME GentleDeployment, TypeOK, ChainInv, LossInv, Next PROVE StreamInv'
<1>0. /\ \A o \in Ops : o \in Nat \ {0} /\ (Handled(o) => Handled(o)')
      /\ \A n : HandledBelow(n) => \A p \in Ops : p < n => Handled(p)'
      /\ cursor \in Nat /\ cursor' \in Nat /\ cursor' >= cursor /\ inflight \in [Ops -> Nat]
      /\ opening \in Int /\ stream \in Nat
  <2>1. cursor' \in Nat /\ cursor \in Nat /\ opening \in Int /\ stream \in Nat
    BY NextTypeOK, ConstantsAssumption DEF TypeOK
  <2>2. \A o \in Ops : o \in Nat \ {0} /\ (Handled(o) => Handled(o)')
    BY HandledStays DEF LossInv, Ops
  <2> QED
    BY <2>1, <2>2, NextKeepsCheckpoint DEF TypeOK, HandledBelow
<1>1. StreamInv
  BY DEF LossInv
<1>2. ASSUME NEW n, HandledBelow(n) PROVE HandledBelow(n)'
  BY <1>0, <1>2 DEF HandledBelow
<1>3. CASE UNCHANGED <<phase, stream, opening, retryTimer, inflight>>
  BY <1>0, <1>1, <1>2, <1>3 DEF StreamInv
<1>4. CASE /\ UNCHANGED <<stream, opening, retryTimer, inflight>>
           /\ phase \in {"lagcheck", "down"}
  <2>1. stream = Closed /\ opening = NotOpening /\ ~retryTimer /\ \A o \in Ops : ~(inflight[o] > 0)
    BY <1>1, <1>4 DEF StreamInv
  <2> QED
    BY <1>4, <2>1 DEF StreamInv
<1>5. Environment => UNCHANGED <<phase, stream, opening, retryTimer, inflight>>
  BY DEF Environment, CloseLedger, ActivateProject, process
<1>6. DLQStep => UNCHANGED <<phase, stream, opening, retryTimer, inflight>>
  BY DEF DLQStep, DLQPick, DLQOp, DLQClose
<1>7. BackfillStep => StreamInv'
  BY <1>3, <1>4, BackfillFrame
<1>8. CASE StreamStep
  <2>1. StartIndexer \/ RefreshWallets => StreamInv'
    BY <1>3, <1>4 DEF StartIndexer, RefreshWallets
  <2>2. CASE OpenStream
    <3>1. cursor # 0 /\ phase \in {"opening", "running"}
      BY <1>1, <2>2 DEF OpenStream, LossInv, FirstRunInv, StreamInv, Serving
    <3>2. opening' = cursor /\ retryTimer' = FALSE
      BY <2>2 DEF OpenStream, CursorRead, Fault, GentleDeployment
    <3>3. UNCHANGED <<phase, stream, inflight, cursor>>
      BY <2>2 DEF OpenStream, db
    <3> QED
      BY <1>0, <1>1, <1>2, <3>1, <3>2, <3>3 DEF StreamInv
  <2>3. CASE StreamOpens
    <3>1. opening # NotOpening /\ stream' = FirstAt(opening) /\ opening' = NotOpening
      BY <1>1, <2>3 DEF StreamOpens, StartAt, StreamInv
    <3>2. phase' = "running" /\ (phase = "opening" \/ phase = "running")
      BY <1>1, <2>3 DEF StreamOpens, StreamInv
    <3>3. UNCHANGED <<retryTimer, inflight>>
      BY <2>3 DEF StreamOpens
    <3>4. ASSUME NEW p \in Ops, p < FirstAt(opening) PROVE Handled(p)
      <4>1. LedgerOf[p] < opening /\ opening <= cursor /\ LedgerOf[p] \in Nat
        BY <1>0, <1>1, <3>1, <3>4, FirstAtSplits, ChainTypes DEF StreamInv
      <4>2. LedgerOf[p] <= cursor
        BY <1>0, <4>1
      <4> QED
        BY <4>2 DEF LossInv, CheckpointInv
    <3>5. \A p \in Ops : p < stream' => Handled(p)'
      BY <1>0, <3>1, <3>4
    <3> QED
      BY <1>0, <1>1, <1>2, <3>1, <3>2, <3>3, <3>5 DEF StreamInv, HandledBelow
  <2>4. CASE OpenFails
    <3>1. opening' = NotOpening /\ retryTimer' = TRUE /\ UNCHANGED <<stream, inflight>>
      BY <2>4 DEF OpenFails
    <3>2. phase' = "running" /\ phase \in {"opening", "running"}
      BY <1>1, <2>4 DEF OpenFails, StreamInv
    <3> QED
      BY <1>0, <1>1, <1>2, <3>1, <3>2 DEF StreamInv
  <2>5. CASE StreamError
    <3>1. /\ phase = "running" /\ UNCHANGED <<phase, opening, inflight>>
          /\ stream' = Closed /\ retryTimer'
      BY <1>1, <2>5 DEF StreamError, StreamInv
    <3> QED
      BY <1>0, <1>1, <1>2, <3>1 DEF StreamInv
  <2>6. CASE Deliver
    <3>1. /\ phase = "running" /\ HandledBelow(stream) /\ stream \in Ops
          /\ UNCHANGED <<phase, opening, retryTimer, cursor>> /\ stream' = stream + 1
      BY <1>1, <2>6 DEF Deliver, StreamInv, db, Ops, Closed
    <3>2. WalletOf[stream] \in cache
      BY <3>1 DEF LossInv, CheckpointInv, Wallets
    <3>3. inflight' = [inflight EXCEPT ![stream] = @ + 1]
      BY <2>6, <3>2 DEF Deliver
    <3>4. inflight'[stream] > 0 /\ \A o \in Ops \ {stream} : inflight'[o] = inflight[o]
      BY <1>0, <3>1, <3>3
    <3>5. ASSUME NEW p \in Ops, p < stream' PROVE Handled(p)'
      <4>1. CASE p = stream
        BY <3>4, <4>1 DEF Handled
      <4>2. CASE p # stream
        <5>1. p < stream
          BY <1>0, <3>1, <3>5, <4>2
        <5> QED
          BY <1>0, <3>1, <5>1 DEF HandledBelow
      <4> QED
        BY <4>1, <4>2
    <3>6. ASSUME NEW o \in Ops, inflight'[o] > 0
          PROVE  phase' \in {"running", "draining"} /\ \A p \in Ops : p < o => Handled(p)'
      <4>1. CASE o = stream
        BY <1>0, <3>1, <4>1
      <4>2. CASE o # stream
        BY <1>0, <1>1, <3>1, <3>4, <3>6, <4>2 DEF StreamInv
      <4> QED
        BY <4>1, <4>2
    <3> QED
      BY <1>0, <1>1, <3>1, <3>5, <3>6 DEF StreamInv, HandledBelow
  <2>7. ASSUME NEW p \in Ops,
               HandlerCommits(p) \/ HandlerFails(p) \/ HandlerFailsUnqueued(p)
        PROVE  StreamInv'
    <3>1. /\ UNCHANGED <<phase, stream, opening, retryTimer>>
          /\ inflight' = [inflight EXCEPT ![p] = @ - 1]
      BY <2>7 DEF HandlerCommits, HandlerFails, HandlerFailsUnqueued
    <3>2. \A o \in Ops : inflight'[o] > 0 => inflight[o] > 0
      BY <1>0, <3>1
    <3> QED
      BY <1>0, <1>1, <1>2, <3>1, <3>2 DEF StreamInv
  <2> QED
    BY <1>8, <2>1, <2>2, <2>3, <2>4, <2>5, <2>6, <2>7 DEF StreamStep
<1>9. CASE Lifecycle
  <2>1. CASE Stop
    <3>1. /\ phase = "running" /\ phase' = "draining" /\ stream' = Closed /\ ~retryTimer'
          /\ opening = NotOpening /\ UNCHANGED <<opening, inflight>>
      BY <2>1 DEF Stop, GentleDeployment
    <3> QED
      BY <1>0, <1>1, <1>2, <3>1 DEF StreamInv
  <2>2. CASE Drained
    <3>1. /\ phase = "draining" /\ (\A o \in Ops : inflight[o] = 0)
          /\ UNCHANGED <<stream, opening, retryTimer, inflight>>
      BY <2>2 DEF Drained
    <3>2. stream = Closed /\ opening = NotOpening /\ ~retryTimer
      BY <1>1, <3>1 DEF StreamInv
    <3> QED
      BY <3>1, <3>2 DEF StreamInv
  <2>3. CASE Exit
    BY <2>3 DEF Exit, StreamInv
  <2> QED
    BY <1>9, <2>1, <2>2, <2>3 DEF Lifecycle, Stopped, Crash
<1> QED
  BY <1>3, <1>5, <1>6, <1>7, <1>8, <1>9 DEF Next

\* Only a lag check, which knows its range, or a reconciler, which finds a checkpoint, begins a
\* backfill, and it goes through its range payment by payment.
LEMMA RangeKept ==
  ASSUME GentleDeployment, TypeOK, ChainInv, LossInv, Next, NEW j \in Jobs PROVE RangeInv(j)'
<1>0. /\ \A o \in Ops : o \in Nat \ {0} /\ LedgerOf[o] \in Nat
      /\ cursor \in Nat /\ cursor' \in Nat /\ cursor' >= cursor /\ tip \in Nat
      /\ job[j].from \in Nat /\ job[j].to \in Nat /\ job[j].latest \in Nat
      /\ job \in [Jobs -> JobRecords]
  <2>1. cursor' \in Nat /\ cursor \in Nat
    BY NextTypeOK DEF TypeOK
  <2>2. \A o \in Ops : o \in Nat \ {0} /\ LedgerOf[o] \in Nat
    BY ChainTypes DEF Ops
  <2>3. /\ tip \in Nat /\ job[j].from \in Nat /\ job[j].to \in Nat /\ job[j].latest \in Nat
        /\ job \in [Jobs -> JobRecords]
    BY ChainTypes DEF TypeOK
  <2> QED
    BY <2>1, <2>2, <2>3, NextKeepsCheckpoint
<1>z. 0 <= cursor' + 1
  <2>1. PICK n \in Nat : n = cursor'
    BY <1>0
  <2>2. 0 <= n + 1
    OBVIOUS
  <2> QED
    BY <2>1, <2>2, Zenon
<1>h. \A o \in Ops : Handled(o) => Handled(o)'
  BY HandledStays DEF LossInv
<1>1. RangeInv(j) /\ j # "admin" /\ (cursor = 0 => j = "lag" \/ job[j].pc = "idle")
  BY DEF LossInv, FirstRunInv, GentleDeployment
<1>2. CASE job'[j] = job[j]
  <2>1. HandledBelow(job[j].next) => \A p \in Ops : p < job[j].next => Handled(p)'
    BY <1>h DEF HandledBelow
  <2> QED
    BY <1>0, <1>1, <1>2, <2>1 DEF RangeInv, HandledBelow
<1>3. CASE job'[j] = IdleJob
  <2>1. IdleJob.pc = "idle" /\ IdleJob.from = 0
    BY DEF IdleJob, NotGiven
  <2> QED
    BY <1>0, <1>3, <2>1 DEF RangeInv
<1>4. CASE LagCheck(j) /\ job'[j] # job[j]
  <2>1. /\ tip - cursor >= LagThreshold
        /\ job' = [job EXCEPT ![j] =
                     [IdleJob EXCEPT !.pc = "check", !.from = cursor + 1, !.to = tip]]
    BY <1>4 DEF LagCheck, CursorRead, Fault, GentleDeployment
  <2> DEFINE new == [IdleJob EXCEPT !.pc = "check", !.from = cursor + 1, !.to = tip]
  <2>2. new.pc = "check" /\ new.from = cursor + 1 /\ new.to = tip
    BY DEF IdleJob
  <2>3. job'[j] = new
    BY <1>0, <2>1
  <2> HIDE DEF new
  <2>4. cursor + 1 < tip /\ cursor + 1 <= cursor' + 1
    BY <1>0, <2>1, ConstantsAssumption DEF GentleDeployment
  <2> QED
    BY <1>0, <2>2, <2>3, <2>4 DEF RangeInv
<1>5. CASE Reconcile /\ j = "reconciler"
  <2> DEFINE new == [IdleJob EXCEPT !.pc = "check"]
  <2>1. job'[j] = new
    BY <1>0, <1>5 DEF Reconcile
  <2>2. new.pc = "check" /\ new.from = 0
    BY DEF IdleJob, NotGiven
  <2>3. j \notin LagJobs
    BY <1>5 DEF LagJobs
  <2>4. job'[j].pc = "check" /\ job'[j].from = 0
    BY <2>1, <2>2
  <2> HIDE DEF new
  <2> QED
    BY <1>z, <2>3, <2>4 DEF RangeInv
<1>6. CASE BackfillCheck(j) \/ BackfillMark(j)
  <2>1. /\ job'[j].pc # "page" /\ job[j].pc # "idle"
        /\ job'[j].from = job[j].from /\ job'[j].to = job[j].to
    BY <1>0, <1>6 DEF BackfillCheck, BackfillMark, JobRecords
  <2> QED
    BY <1>0, <1>1, <2>1 DEF RangeInv
<1>7. CASE BackfillStart(j)
  <2> DEFINE from == FirstLedger(j)
             to   == LastLedger(j)
  <2>1. /\ from < to /\ job[j].pc = "range"
        /\ job'[j] = [pc |-> "page", from |-> from, to |-> to, next |-> StartAt(from),
                      latest |-> from, wallets |-> listed]
    BY <1>0, <1>7 DEF BackfillStart
  <2>2. from \in Nat /\ 0 < from /\ from <= cursor + 1
    <3>1. CASE job[j].from = 0
      <4>1. j \notin LagJobs
        BY <1>1, <2>1, <3>1 DEF RangeInv
      <4>2. j # "lag"
        BY <4>1, ConstantsAssumption DEF LagJobs
      <4> QED
        BY <1>0, <1>1, <2>1, <3>1, <4>2 DEF FirstLedger, NotGiven
    <3>2. CASE job[j].from # 0
      BY <1>0, <1>1, <3>2 DEF FirstLedger, NotGiven, RangeInv
    <3> QED
      BY <3>1, <3>2
  <2>3. StartAt(from) = FirstAt(from)
    BY <2>2 DEF StartAt
  <2> HIDE DEF from, to
  <2>4. ASSUME NEW p \in Ops, p < FirstAt(from) PROVE Handled(p)'
    <3>1. LedgerOf[p] < from
      BY <2>2, <2>4, FirstAtSplits
    <3>2. LedgerOf[p] <= cursor
      BY <1>0, <2>2, <3>1
    <3> QED
      BY <1>h, <3>2 DEF LossInv, CheckpointInv
  <2>5. listed = Wallets
    BY DEF LossInv, CheckpointInv
  <2>6. to \in Nat
    BY <1>0 DEF to, LastLedger
  <2>7. /\ job'[j].from = from /\ job'[j].to = to /\ job'[j].latest = from
        /\ job'[j].wallets = Wallets /\ job'[j].next = FirstAt(from) /\ job'[j].pc = "page"
    BY <2>1, <2>3, <2>5
  <2>8. \A p \in Ops : p < job'[j].next => Handled(p)'
    BY <2>4, <2>7
  <2>9. from <= cursor + 1 /\ 0 < from /\ from <= from /\ from <= to /\ from < to
    <3>1. from \in Nat /\ from < to
      BY <2>1, <2>2
    <3> QED
      BY <2>2, <2>6, <3>1
  <2>10. /\ job'[j].from <= cursor' + 1 /\ 0 < job'[j].from /\ job'[j].from < job'[j].to
         /\ job'[j].from <= job'[j].latest /\ job'[j].latest <= job'[j].to
    <3>1. cursor' = cursor
      BY <1>7 DEF BackfillStart, db
    <3> QED
      BY <2>7, <2>9, <3>1, Zenon
  <2> QED
    BY <2>7, <2>8, <2>10 DEF RangeInv, HandledBelow
<1>8. CASE BackfillOp(j)
  <2> DEFINE o == job[j].next
  <2>1. /\ o \in Ops /\ LedgerOf[o] <= job[j].to /\ job[j].pc = "page"
        /\ WalletOf[o] \in job[j].wallets
    BY <1>1, <1>8 DEF BackfillOp, MoreToReplay, RangeInv, Wallets
  <2>2. o \in rows'
    BY <1>8, <2>1 DEF BackfillOp, ApplyDonation, Fault, GentleDeployment
  <2>3. job' = [job EXCEPT ![j].next = o + 1, ![j].latest = Larger(@, LedgerOf[o])]
    BY <1>8, <2>1 DEF BackfillOp
  <2> HIDE DEF o
  <2>4. /\ job'[j].next = o + 1 /\ job'[j].latest = Larger(job[j].latest, LedgerOf[o])
        /\ job'[j].from = job[j].from /\ job'[j].to = job[j].to /\ job'[j].pc = "page"
        /\ job'[j].wallets = job[j].wallets
    BY <1>0, <2>1, <2>3 DEF JobRecords
  <2>5. ASSUME NEW p \in Ops, p < o + 1 PROVE Handled(p)'
    <3>1. p < o \/ p = o
      BY <1>0, <2>1, <2>5
    <3> QED
      BY <1>h, <1>1, <2>1, <2>2, <3>1 DEF RangeInv, Handled, HandledBelow, o
  <2>6. /\ job[j].from <= Larger(job[j].latest, LedgerOf[o])
        /\ Larger(job[j].latest, LedgerOf[o]) <= job[j].to
    BY <1>0, <1>1, <2>1 DEF RangeInv, Larger
  <2> QED
    BY <1>0, <1>1, <2>1, <2>4, <2>5, <2>6 DEF RangeInv, HandledBelow
<1>9. CASE BackfillSkips(j) \/ BackfillNoop(j) \/ BackfillThrows(j) \/ BackfillFinish(j)
  BY <1>0, <1>3, <1>9 DEF BackfillSkips, BackfillNoop, BackfillThrows, BackfillFinish
<1> QED
  BY <1>1, <1>2, <1>3, <1>4, <1>5, <1>6, <1>7, <1>8, <1>9, JobsAlone DEF JobMoves, Backfill

\* Before there is a checkpoint, only the backfill of the start-up runs.
LEMMA FirstRunKept ==
  ASSUME GentleDeployment, TypeOK, ChecksumNamesADonation, ChainInv, LossInv, Next
  PROVE  FirstRunInv'
<1> SUFFICES ASSUME cursor' = 0
             PROVE  /\ phase' \in {"down", "lagcheck"}
                    /\ \A j \in Jobs \ {"lag"} : job'[j].pc = "idle"
                    /\ inBackfill' => job'["lag"].pc \in {"range", "page"}
  BY DEF FirstRunInv
<1>1. /\ cursor = 0 /\ phase \in {"down", "lagcheck"}
      /\ \A j \in Jobs \ {"lag"} : job[j].pc = "idle"
      /\ inBackfill => job["lag"].pc \in {"range", "page"}
  <2>1. cursor \in Nat /\ cursor' >= cursor
    BY ChainTypes, NextKeepsCheckpoint
  <2>2. cursor = 0
    BY <2>1
  <2> QED
    BY <2>2 DEF LossInv, FirstRunInv
<1>2. hash = NoHash /\ ~Corrupt
  BY <1>1, ConstantsAssumption DEF Corrupt, ChecksumNamesADonation, TypeOK, NoHash
<1>3. stream = Closed /\ opening = NotOpening /\ ~retryTimer /\ \A o \in Ops : ~(inflight[o] > 0)
  BY <1>1 DEF LossInv, StreamInv
<1>4. ~Fault("query") /\ ~Fault("cursorRead") /\ ~Fault("crash")
  BY DEF Fault, GentleDeployment
<1>5. "lag" \in Jobs /\ job \in [Jobs -> JobRecords]
  BY ConstantsAssumption DEF TypeOK
<1>6. CASE Environment
  BY <1>1, <1>6 DEF Environment, CloseLedger, ActivateProject, db, process
<1>7. CASE StreamStep
  <2>1. CASE StartIndexer
    BY <1>1, <2>1 DEF StartIndexer, db
  <2>2. ~OpenStream /\ ~StreamOpens /\ ~OpenFails /\ ~StreamError /\ ~Deliver /\ ~RefreshWallets
    BY <1>1, <1>3 DEF OpenStream, StreamOpens, OpenFails, StreamError, Deliver, RefreshWallets,
       Serving, Ops, Closed
  <2>3. \A o \in Ops : ~HandlerCommits(o) /\ ~HandlerFails(o) /\ ~HandlerFailsUnqueued(o)
    BY <1>3 DEF HandlerCommits, HandlerFails, HandlerFailsUnqueued
  <2> QED
    BY <1>7, <2>1, <2>2, <2>3 DEF StreamStep
<1>8. CASE BackfillStep
  <2>1. ~LagCheckFails /\ ~Reconcile /\ ~AdminBackfill
    BY <1>1, <1>2, <1>4 DEF LagCheckFails, Reconcile, AdminBackfill, Serving
  <2>2. PICK j \in Jobs : LagCheck(j) \/ Backfill(j)
    BY <1>8, <2>1 DEF BackfillStep
  <2>3. j = "lag"
    BY <1>1, <2>2 DEF LagCheck, Backfill, BackfillCheck, BackfillSkips, BackfillMark, BackfillStart,
       BackfillNoop, BackfillThrows, BackfillOp, BackfillFinish
  <2>4. \A i \in Jobs \ {"lag"} : job'[i] = job[i]
    BY <1>5, <2>2, <2>3 DEF LagCheck, Backfill, BackfillCheck, BackfillSkips, BackfillMark,
       BackfillStart, BackfillNoop, BackfillThrows, BackfillOp, BackfillFinish
  <2>5. job["lag"].pc # "idle" => 0 < job["lag"].from /\ job["lag"].from < job["lag"].to
    <3>1. RangeInv("lag") /\ "lag" \in LagJobs
      BY <1>5 DEF LossInv, LagJobs
    <3> QED
      BY <3>1 DEF RangeInv
  <2>6. CASE LagCheck("lag")
    <3>1. tip - cursor >= LagThreshold
      <4>1. tip >= LagThreshold
        BY ConstantsAssumption, ChainTypes DEF LossInv, CheckpointInv, GentleDeployment
      <4> QED
        BY <1>1, <4>1, ChainTypes
    <3>2. phase' = phase /\ inBackfill' = inBackfill /\ job["lag"].pc = "idle"
      BY <1>4, <2>6, <3>1 DEF LagCheck, CursorRead, db
    <3> QED
      BY <1>1, <2>4, <3>2
  <2>7. CASE BackfillCheck("lag") \/ BackfillMark("lag") \/ BackfillStart("lag")
             \/ BackfillOp("lag")
    <3>1. phase' = phase
      BY <2>7 DEF BackfillCheck, BackfillMark, BackfillStart, BackfillOp
    <3>2. \/ BackfillCheck("lag") /\ inBackfill' = inBackfill /\ ~inBackfill
          \/ job'["lag"].pc \in {"range", "page"}
      <4>1. BackfillCheck("lag") => inBackfill' = inBackfill /\ ~inBackfill
        BY DEF BackfillCheck, db
      <4>2. BackfillMark("lag") => job'["lag"].pc = "range"
        BY <1>5 DEF BackfillMark, JobRecords
      <4>3. BackfillStart("lag") => job'["lag"].pc = "page"
        BY <1>5 DEF BackfillStart
      <4>4. BackfillOp("lag") => job'["lag"].pc = "page"
        BY <1>5 DEF BackfillOp, JobRecords
      <4> QED
        BY <2>7, <4>1, <4>2, <4>3, <4>4
    <3> QED
      BY <1>1, <2>4, <3>1, <3>2
  <2>8. ~BackfillSkips("lag")
    BY <1>1, <1>4 DEF BackfillSkips
  <2>9. ~BackfillThrows("lag")
    BY <1>1, <1>2, <1>4 DEF BackfillThrows, CorruptFor
  <2>10. ~BackfillNoop("lag")
    <3> SUFFICES ASSUME BackfillNoop("lag") PROVE FALSE
      OBVIOUS
    <3>1. /\ FirstLedger("lag") = job["lag"].from /\ LastLedger("lag") = job["lag"].to
          /\ job["lag"].from \in Nat /\ job["lag"].to \in Nat
      BY <1>5, <2>5, ChainTypes DEF BackfillNoop, FirstLedger, LastLedger, NotGiven
    <3> QED
      BY <2>5, <3>1 DEF BackfillNoop
  <2>11. ~BackfillFinish("lag")
    <3> SUFFICES ASSUME BackfillFinish("lag") PROVE FALSE
      OBVIOUS
    <3>1. /\ 0 < job["lag"].from /\ job["lag"].from <= job["lag"].latest
          /\ job["lag"].from \in Nat /\ job["lag"].latest \in Nat
      BY <1>5, ChainTypes DEF BackfillFinish, LossInv, RangeInv
    <3>2. cursor' = job["lag"].latest
      BY <1>1, <3>1 DEF BackfillFinish, Larger
    <3> QED
      BY <3>1, <3>2
  <2> QED
    BY <2>2, <2>3, <2>6, <2>7, <2>8, <2>9, <2>10, <2>11 DEF Backfill
<1>9. CASE DLQStep
  <2>1. UNCHANGED <<phase, job, inBackfill>>
    BY <1>9 DEF DLQStep, DLQPick, DLQOp, DLQClose, db
  <2> QED
    BY <1>1, <2>1
<1>10. ~Lifecycle
  BY <1>1, <1>4 DEF Lifecycle, Stop, Drained, Stopped, Crash
<1> QED
  BY <1>6, <1>7, <1>8, <1>9, <1>10 DEF Next

LEMMA LossStep ==
  ASSUME GentleDeployment, TypeOK, ChecksumNamesADonation, ChainInv, LossInv, [Next]_vars
  PROVE  LossInv'
<1>1. CASE Next
  BY <1>1, CheckpointStep, StreamKept, RangeKept, FirstRunKept DEF LossInv
<1>2. CASE UNCHANGED vars
  BY <1>2 DEF vars, db, process, LossInv, CheckpointInv, StreamInv, RangeInv, FirstRunInv,
     HandledBelow, Handled
<1> QED
  BY <1>1, <1>2

\* In a gentle deployment no payment is lost: whatever the checkpoint has passed is recorded,
\* being handled or waiting in the dead-letter queue, however handlers overtake each other,
\* the stream reconnects, backfills meet it, and the service stops and starts.
THEOREM NothingLost == ASSUME GentleDeployment PROVE Spec => []NoSilentLoss
<1>0. "admin" \notin Jobs /\ FirstListed = Wallets
  BY DEF GentleDeployment
<1>1. Init => LossInv
  <2> SUFFICES ASSUME Init PROVE LossInv
    OBVIOUS
  <2>1. CheckpointInv
    BY <1>0, ConstantsAssumption, ChainTypes, InitTypeOK DEF Init, CheckpointInv
  <2>2. StreamInv
    BY DEF Init, StreamInv
  <2>3. \A j \in Jobs : RangeInv(j)
    BY DEF Init, RangeInv, IdleJob, NotGiven
  <2>4. FirstRunInv
    BY DEF Init, FirstRunInv, IdleJob
  <2> QED
    BY <2>1, <2>2, <2>3, <2>4 DEF LossInv
<1>2. TypeOK /\ ChecksumNamesADonation /\ ChainInv /\ LossInv /\ [Next]_vars => LossInv'
  BY LossStep
<1>3. TypeOK /\ ResolvedHasDonation /\ LossInv => NoSilentLoss
  <2> SUFFICES ASSUME TypeOK, ResolvedHasDonation, LossInv, NEW o \in Ops PROVE Accounted(o)
    BY DEF NoSilentLoss
  <2>1. cursor \in Nat /\ LedgerOf[o] \in Nat /\ TxOf[o] \in Txs
    BY ChainTypes
  <2>2. CASE ~(LedgerOf[o] <= cursor)
    BY <2>1, <2>2 DEF Accounted
  <2>3. CASE LedgerOf[o] <= cursor
    <3>1. Handled(o)
      BY <2>3 DEF LossInv, CheckpointInv
    <3>2. dlq[TxOf[o]].status \in {"absent", "pending", "resolved"}
      BY <2>1 DEF TypeOK, Entries
    <3>3. dlq[TxOf[o]].status = "resolved" => o \in rows
      BY <2>1 DEF ResolvedHasDonation, GentleDeployment, TypeOK
    <3> QED
      BY <3>1, <3>2, <3>3 DEF Handled, Accounted
  <2> QED
    BY <2>2, <2>3
<1> QED
  BY <1>0, <1>1, <1>2, <1>3, ChainAlways, TypeCorrect, ChecksumHasDonation,
     ResolvedHasDonationHolds, PTL DEF Spec
===============================================================================
