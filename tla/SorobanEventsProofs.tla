-------------------------- MODULE SorobanEventsProofs --------------------------
(***************************************************************************)
(* Theorems about SorobanEvents for every stream of events, every number   *)
(* of overlapping polls and every sequence of disturbances, checked by     *)
(* TLAPS.                                                                  *)
(***************************************************************************)
EXTENDS SorobanEvents, TLAPS

\* What the local variables of an activation hold, besides their types: its
\* event, of a kind that its program counter allows, and for pollDLQ the
\* retry_count it has read, which is below the cap.
Local(a) ==
  /\ act[a].pc # "idle" => act[a].ev \in Events
  /\ act[a].pc = "insert" => act[a].ev \in Paying
  /\ act[a].pc = "append" => act[a].ev \in Donated
  /\ a = DLQCycle => act[a].seen \in 0 .. MaxRetries - 1
  /\ a \in Pollers => act[a].seen \in Cursors

Types == TypeOK /\ \A a \in Active : Local(a)

-------------------------------------------------------------------------------
(* The three ways in which an activation moves.                            *)

\* Goto, to a step that the event allows, keeps the types of the activations.
LEMMA GotoTypes ==
  ASSUME Types, NEW a \in Active, NEW pc \in Steps, Goto(a, pc),
         act[a].pc # "idle",
         pc = "insert" => act[a].ev \in Paying,
         pc = "append" => act[a].ev \in Donated
  PROVE  act' \in [Active -> Records] /\ \A b \in Active : Local(b)'
<1>1. act' \in [Active -> Records]
  BY DEF Types, TypeOK, Goto, Records
<1>2. ASSUME NEW b \in Active PROVE Local(b)'
  <2>1. CASE b = a
    BY <2>1 DEF Types, TypeOK, Local, Goto, Records
  <2>2. CASE b # a
    BY <2>2 DEF Types, TypeOK, Local, Goto, Records
  <2> QED
    BY <2>1, <2>2
<1> QED
  BY <1>1, <1>2

\* So does the end of an activation.
LEMMA EndsTypes ==
  ASSUME Types, NEW a \in Active, Ends(a)
  PROVE  act' \in [Active -> Records] /\ \A b \in Active : Local(b)'
<1>1. Idle \in Records /\ 0 \in 0 .. MaxRetries - 1 /\ 0 \in Cursors
  BY EventsAssumption DEF Idle, Records, Steps, Cursors
<1>2. act' \in [Active -> Records]
  BY <1>1 DEF Types, TypeOK, Ends
<1>3. ASSUME NEW b \in Active PROVE Local(b)'
  <2>1. CASE b = a
    BY <2>1, <1>1 DEF Types, TypeOK, Local, Ends, Idle
  <2>2. CASE b # a
    BY <2>2 DEF Types, TypeOK, Local, Ends
  <2> QED
    BY <2>1, <2>2
<1> QED
  BY <1>2, <1>3

\* And the next turn of the loop of a scan, which stays within its batch.
LEMMA NextEventTypes ==
  ASSUME Types, NEW a \in Pollers \cup {Range}, NEW s \in Cursors,
         act[a].pc # "idle", NextEvent(a, s)
  PROVE  /\ act' \in [Active -> Records] /\ \A b \in Active : Local(b)'
         /\ act'[a].ev \in {act[a].ev, act[a].ev + 1} /\ act'[a].seen = s
<1>1. a \in Active /\ a # DLQCycle
  BY EventsAssumption DEF Active, DLQCycle, Range
<1> DEFINE new == act'[a]
<1>2. /\ act[a] \in Records /\ act[a].ev \in Events /\ act[a].last \in Cursors
      /\ act[a].last \in Int /\ act[a].ev \in Int
  BY <1>1 DEF Types, TypeOK, Local, Records, Events, Cursors
<1>3. act' = [act EXCEPT ![a] = new] /\ act \in [Active -> Records]
  BY <1>1 DEF NextEvent, Types, TypeOK
<1>4. /\ new \in Records /\ new.ev \in Events /\ new.seen = s
      /\ new.pc \in {"check", "finish"} /\ new.ev \in {act[a].ev, act[a].ev + 1}
  BY <1>1, <1>2, <1>3, EventsAssumption DEF NextEvent, Records, Steps, Events, Cursors
<1>5. act' \in [Active -> Records]
  BY <1>3, <1>4
<1>6. ASSUME NEW b \in Active PROVE Local(b)'
  <2>1. CASE b = a
    BY <2>1, <1>1, <1>4 DEF Local
  <2>2. CASE b # a
    BY <2>2, <1>3 DEF Types, Local
  <2> QED
    BY <2>1, <2>2
<1> QED
  BY <1>4, <1>5, <1>6

-------------------------------------------------------------------------------
(* Type correctness.                                                       *)

\* The disjoint parts of Active, and the constants at their types.
LEMMA Parts ==
  /\ DLQCycle \in Active /\ Range \in Active /\ Pollers \subseteq Active
  /\ DLQCycle \notin Pollers /\ Range \notin Pollers /\ DLQCycle # Range
  /\ NEvents \in Nat \ {0} /\ MaxRetries \in Nat \ {0} /\ Batch \in Nat \ {0}
  /\ MaxDisturbances \in Nat
BY EventsAssumption DEF Active, DLQCycle, Range

\* The initial state is well typed.
LEMMA InitTypes == Init => Types
<1> SUFFICES ASSUME Init PROVE Types
  OBVIOUS
<1>1. Idle \in Records /\ Idle.pc = "idle" /\ Idle.seen = 0 /\ NoEntry \in Entries
  BY Parts DEF Idle, Records, Steps, Cursors, NoEntry, Entries
<1>2. \A a \in Active : Local(a)
  BY <1>1, Parts DEF Init, Local, Cursors
<1>3. TypeOK
  BY <1>1, Parts DEF Init, TypeOK, Cursors, Events, NoEntry
<1> QED
  BY <1>2, <1>3 DEF Types

\* What a disturbance does to its budget.
LEMMA BudgetType ==
  ASSUME TypeOK PROVE \A d : Disturb(d) \/ Calm => budget' \in 0 .. MaxDisturbances
BY Parts DEF TypeOK, Disturb, Calm

\* A dead letter is an entry below the cap.
LEMMA DeadLetterTypes ==
  ASSUME TypeOK, NEW e \in Events, DeadLetter(e)
  PROVE  /\ dlq' \in [Events -> Entries]
         /\ \A f \in Events : dlq'[f].status = "live" => dlq'[f].retries < MaxRetries
<1>1. [status |-> "live", retries |-> 0] \in Entries /\ 0 < MaxRetries
  BY Parts DEF Entries
<1> QED
  BY <1>1 DEF TypeOK, DeadLetter

\* A row and its increment have their types.
LEMMA RecordTypes ==
  ASSUME TypeOK, NEW e \in Paying, Record(e)
  PROVE  rows' \subseteq Paying /\ credited' \in [Events -> Nat]
BY DEF TypeOK, Record, Paying

\* A step of a handler preserves the types.
LEMMA HandleTypes ==
  ASSUME Types, NEW a \in Active, Handle(a) PROVE Types'
<1> USE DEF ledgers, tables, service
<1>1. TypeOK
  BY DEF Types
<1>2. CASE HandlePlan(a)
  <2>1. act' \in [Active -> Records] /\ \A b \in Active : Local(b)'
    BY <1>2, GotoTypes DEF HandlePlan, Steps
  <2> QED
    BY <1>1, <1>2, <2>1 DEF HandlePlan, Types, TypeOK
<1>3. CASE Lookup(a)
  <2>1. act' \in [Active -> Records] /\ \A b \in Active : Local(b)'
    <3>1. CASE Skipped(act[a].ev)
      BY <1>3, <3>1, GotoTypes DEF Lookup, Steps
    <3>2. CASE ~Skipped(act[a].ev)
      BY <1>3, <3>2, GotoTypes DEF Lookup, Steps
    <3> QED
      BY <3>1, <3>2
  <2> QED
    BY <1>1, <1>3, <2>1 DEF Lookup, Types, TypeOK
<1>4. CASE Insert(a)
  <2>1. act[a].ev \in Paying /\ act[a].pc = "insert"
    BY <1>4 DEF Insert, Types, Local
  <2>2. act' \in [Active -> Records] /\ \A b \in Active : Local(b)'
    <3>1. CASE Recorded(act[a].ev)
      BY <1>4, <2>1, <3>1, GotoTypes DEF Insert, Steps
    <3>2. CASE ~Recorded(act[a].ev) /\ act[a].ev \in Donated
      BY <1>4, <2>1, <3>2, GotoTypes DEF Insert, Steps
    <3>3. CASE ~Recorded(act[a].ev) /\ act[a].ev \notin Donated
      BY <1>4, <2>1, <3>3, GotoTypes DEF Insert, Steps
    <3> QED
      BY <3>1, <3>2, <3>3
  <2>3. rows' \subseteq Paying /\ credited' \in [Events -> Nat]
    BY <1>1, <1>4, <2>1, RecordTypes DEF Insert, TypeOK
  <2> QED
    BY <1>1, <1>4, <2>2, <2>3 DEF Insert, Types, TypeOK
<1>5. CASE HandlerFails(a)
  <2>1. act' \in [Active -> Records] /\ \A b \in Active : Local(b)'
    BY <1>5, GotoTypes DEF HandlerFails, Steps
  <2>2. budget' \in 0 .. MaxDisturbances
    BY <1>1, <1>5, BudgetType DEF HandlerFails
  <2> QED
    BY <1>1, <1>5, <2>1, <2>2 DEF HandlerFails, Types, TypeOK
<1>6. CASE Append(a)
  <2>1. act' \in [Active -> Records] /\ \A b \in Active : Local(b)'
    BY <1>6, GotoTypes DEF Append, Steps
  <2>2. budget' \in 0 .. MaxDisturbances
    BY <1>1, <1>6, BudgetType DEF Append
  <2>3. store' \in [Events -> Nat]
    BY <1>1, <1>6 DEF Append, TypeOK
  <2> QED
    BY <1>1, <1>6, <2>1, <2>2, <2>3 DEF Append, Types, TypeOK
<1> QED
  BY <1>2, <1>3, <1>4, <1>5, <1>6 DEF Handle

\* A step of a poll preserves the types.
LEMMA PollTypes ==
  ASSUME Types, NEW p \in Pollers, Poll(p) PROVE Types'
<1> USE DEF ledgers, tables, service
<1>1. TypeOK /\ p \in Active /\ p \in Pollers \cup {Range} /\ Local(p) /\ act[p] \in Records
  BY Parts DEF Types, TypeOK
<1>2. CASE Fetch(p)
  <2> DEFINE r == [pc |-> "check", ev |-> cursor + 1,
                   last |-> Smaller(emitted, cursor + Batch),
                   seen |-> cursor, sound |-> TRUE]
  <2>1. r \in Records /\ r.ev \in Events /\ r.seen \in Cursors
    BY <1>1, <1>2, Parts DEF Fetch, TypeOK, Records, Steps, Cursors, Events, Smaller
  <2>2. act' = [act EXCEPT ![p] = r]
    BY <1>2 DEF Fetch
  <2>3. act' \in [Active -> Records]
    BY <1>1, <2>1, <2>2 DEF TypeOK
  <2>4. ASSUME NEW b \in Active PROVE Local(b)'
    <3>1. CASE b = p
      BY <1>1, <2>1, <2>2, <3>1, Parts DEF Local, TypeOK
    <3>2. CASE b # p
      BY <2>2, <3>2 DEF Types, TypeOK, Local
    <3> QED
      BY <3>1, <3>2
  <2> QED
    BY <1>1, <1>2, <2>3, <2>4 DEF Fetch, Types, TypeOK
<1>3. CASE Check(p)
  <2>1. act' \in [Active -> Records] /\ \A b \in Active : Local(b)'
    <3>1. CASE act[p].ev \in processed
      BY <1>1, <1>3, <3>1, EndsTypes DEF Check
    <3>2. CASE act[p].ev \notin processed
      BY <1>1, <1>3, <3>2, GotoTypes DEF Check, Steps
    <3> QED
      BY <3>1, <3>2
  <2> QED
    BY <1>1, <1>3, <2>1 DEF Check, Calm, Types, TypeOK
<1>4. CASE ConnectFails(p)
  <2>1. act' \in [Active -> Records] /\ \A b \in Active : Local(b)'
    BY <1>1, <1>4, EndsTypes DEF ConnectFails
  <2>2. budget' \in 0 .. MaxDisturbances
    BY <1>1, <1>4, BudgetType DEF ConnectFails
  <2> QED
    BY <1>1, <1>4, <2>1, <2>2 DEF ConnectFails, Types, TypeOK
<1>5. CASE BeginFails(p)
  <2>1. act' \in [Active -> Records] /\ \A b \in Active : Local(b)'
    BY <1>1, <1>5, NextEventTypes DEF BeginFails, Local
  <2>2. budget' \in 0 .. MaxDisturbances
    BY <1>1, <1>5, BudgetType DEF BeginFails
  <2>3. dropped' \subseteq Events
    BY <1>1, <1>5 DEF BeginFails, TypeOK, Local
  <2> QED
    BY <1>1, <1>5, <2>1, <2>2, <2>3 DEF BeginFails, Types, TypeOK
<1>6. CASE CheckFails(p)
  <2> DEFINE r == [act[p] EXCEPT !.pc = "handle", !.sound = FALSE]
  <2>1. r \in Records /\ r.ev = act[p].ev /\ r.seen = act[p].seen /\ r.pc = "handle"
    BY <1>1 DEF Records, Steps
  <2>2. act' = [act EXCEPT ![p] = r]
    BY <1>6 DEF CheckFails
  <2>3. act' \in [Active -> Records]
    BY <1>1, <2>1, <2>2 DEF TypeOK
  <2>4. ASSUME NEW b \in Active PROVE Local(b)'
    <3>1. CASE b = p
      BY <1>1, <1>6, <2>1, <2>2, <3>1, Parts DEF Local, TypeOK, CheckFails
    <3>2. CASE b # p
      BY <2>2, <3>2 DEF Types, TypeOK, Local
    <3> QED
      BY <3>1, <3>2
  <2>5. budget' \in 0 .. MaxDisturbances
    BY <1>1, <1>6, BudgetType DEF CheckFails
  <2> QED
    BY <1>1, <1>6, <2>3, <2>4, <2>5 DEF CheckFails, Types, TypeOK
<1>7. CASE DeadLetters(p)
  <2>1. act' \in [Active -> Records] /\ \A b \in Active : Local(b)'
    BY <1>1, <1>7, GotoTypes DEF DeadLetters, Steps
  <2>2. act[p].ev \in Events
    BY <1>1, <1>7 DEF DeadLetters, Local
  <2>3. budget' \in 0 .. MaxDisturbances /\ dropped' \subseteq Events
    BY <1>1, <1>7, <2>2, BudgetType DEF DeadLetters, TypeOK
  <2>4. /\ dlq' \in [Events -> Entries]
        /\ \A f \in Events : dlq'[f].status = "live" => dlq'[f].retries < MaxRetries
    BY <1>1, <1>7, <2>2, DeadLetterTypes DEF DeadLetters, TypeOK
  <2> QED
    BY <1>1, <1>7, <2>1, <2>3, <2>4 DEF DeadLetters, Types, TypeOK
<1>8. CASE Commit(p)
  <2>1. act[p].ev \in Events /\ act[p].ev \in Cursors
    BY <1>1, <1>8 DEF Commit, Local, Records
  <2>2. act' \in [Active -> Records] /\ \A b \in Active : Local(b)'
    BY <1>1, <1>8, <2>1, NextEventTypes DEF Commit
  <2>3. budget' \in 0 .. MaxDisturbances
    BY <1>1, <1>8, BudgetType DEF Commit
  <2>4. processed' \subseteq Events /\ saved' \in Cursors
    BY <1>1, <1>8, <2>1 DEF Commit, TypeOK
  <2> QED
    BY <1>1, <1>8, <2>2, <2>3, <2>4 DEF Commit, Types, TypeOK
<1>9. CASE Finish(p)
  <2>1. act' \in [Active -> Records] /\ \A b \in Active : Local(b)'
    BY <1>1, <1>9, EndsTypes DEF Finish
  <2>2. cursor' \in Cursors
    BY <1>1, <1>9 DEF Finish, Local, TypeOK
  <2> QED
    BY <1>1, <1>9, <2>1, <2>2 DEF Finish, Types, TypeOK
<1>10. CASE Handle(p)
  BY <1>1, <1>10, HandleTypes
<1> QED
  BY <1>2, <1>3, <1>4, <1>5, <1>6, <1>7, <1>8, <1>9, <1>10 DEF Poll

\* A step of the dead-letter queue preserves the types.
LEMMA PollDLQTypes ==
  ASSUME Types, PollDLQ PROVE Types'
<1> USE DEF ledgers, tables, service
<1>1. TypeOK /\ DLQCycle \in Active /\ Local(DLQCycle)
  BY Parts DEF Types
<1>2. ASSUME NEW e \in Events, Retry(e) PROVE Types'
  <2> DEFINE r == [Idle EXCEPT !.pc = "handle", !.ev = e, !.seen = dlq[e].retries]
  <2>1. /\ r \in Records /\ r.ev = e /\ r.pc = "handle" /\ r.seen = dlq[e].retries
        /\ dlq[e].retries \in 0 .. MaxRetries - 1
    <3>1. dlq[e].retries \in 0 .. MaxRetries - 1
      BY <1>1, <1>2, Parts DEF Retry, TypeOK, Entries
    <3>2. dlq[e].retries \in 0 .. MaxRetries /\ e \in Cursors /\ 0 \in Cursors
      BY <3>1, Parts DEF Cursors, Events
    <3> QED
      BY <3>1, <3>2 DEF Records, Steps, Idle
  <2>2. act' = [act EXCEPT ![DLQCycle] = r]
    BY <1>2 DEF Retry
  <2>3. act' \in [Active -> Records]
    BY <1>1, <2>1, <2>2 DEF TypeOK
  <2>4. ASSUME NEW b \in Active PROVE Local(b)'
    <3>1. CASE b = DLQCycle
      BY <1>1, <2>1, <2>2, <3>1, Parts DEF Local, TypeOK
    <3>2. CASE b # DLQCycle
      BY <2>2, <3>2 DEF Types, TypeOK, Local
    <3> QED
      BY <3>1, <3>2
  <2> QED
    BY <1>1, <1>2, <2>3, <2>4 DEF Retry, Types, TypeOK
<1>3. CASE Resolve
  <2>1. act' \in [Active -> Records] /\ \A b \in Active : Local(b)'
    BY <1>1, <1>3, EndsTypes, GotoTypes DEF Resolve, Steps
  <2>2. budget' \in 0 .. MaxDisturbances
    BY <1>1, <1>3, BudgetType DEF Resolve
  <2>3. /\ dlq' \in [Events -> Entries]
        /\ \A f \in Events : dlq'[f].status = "live" => dlq'[f].retries < MaxRetries
    <3>1. act[DLQCycle].ev \in Events
      BY <1>1, <1>3 DEF Resolve, Local
    <3>2. CASE dlq' = dlq
      BY <1>1, <3>2 DEF TypeOK
    <3>3. CASE dlq' = [dlq EXCEPT ![act[DLQCycle].ev].status = "resolved"]
      <4> DEFINE n == [dlq[act[DLQCycle].ev] EXCEPT !.status = "resolved"]
      <4>1. n \in Entries /\ n.status = "resolved"
        BY <1>1, <3>1 DEF TypeOK, Entries
      <4>2. dlq' = [dlq EXCEPT ![act[DLQCycle].ev] = n]
        BY <3>3
      <4> QED
        BY <1>1, <3>1, <4>1, <4>2 DEF TypeOK
    <3> QED
      BY <1>3, <3>2, <3>3 DEF Resolve
  <2> QED
    BY <1>1, <1>3, <2>1, <2>2, <2>3 DEF Resolve, Types, TypeOK
<1>4. CASE Climb
  <2>1. act' \in [Active -> Records] /\ \A b \in Active : Local(b)'
    BY <1>1, <1>4, EndsTypes DEF Climb
  <2>2. budget' \in 0 .. MaxDisturbances
    BY <1>1, <1>4, BudgetType DEF Climb
  <2>3. /\ Climbed(act[DLQCycle].seen) \in Entries
        /\ Climbed(act[DLQCycle].seen).status = "live"
             => Climbed(act[DLQCycle].seen).retries < MaxRetries
    BY <1>1, Parts DEF Local, Climbed, Entries
  <2>4. /\ dlq' \in [Events -> Entries]
        /\ \A f \in Events : dlq'[f].status = "live" => dlq'[f].retries < MaxRetries
    BY <1>1, <1>4, <2>3 DEF Climb, TypeOK
  <2> QED
    BY <1>1, <1>4, <2>1, <2>2, <2>4 DEF Climb, Types, TypeOK
<1>5. CASE Handle(DLQCycle)
  BY <1>1, <1>5, HandleTypes
<1> QED
  BY <1>2, <1>3, <1>4, <1>5 DEF PollDLQ

\* A step of the range rescan preserves the types.
LEMMA RescanRangeTypes ==
  ASSUME Types, RescanRange PROVE Types'
<1> USE DEF ledgers, tables, service
<1>1. /\ TypeOK /\ Range \in Active /\ Range \in Pollers \cup {Range} /\ Local(Range)
      /\ 0 \in Cursors
  BY Parts DEF Types, Cursors
<1>2. CASE RangeCheck
  <2>1. act' \in [Active -> Records] /\ \A b \in Active : Local(b)'
    <3>1. CASE act[Range].ev > emitted
      BY <1>1, <1>2, <3>1, EndsTypes DEF RangeCheck
    <3>2. CASE ~(act[Range].ev > emitted) /\ act[Range].ev \in processed
      BY <1>1, <1>2, <3>2, NextEventTypes DEF RangeCheck
    <3>3. CASE ~(act[Range].ev > emitted) /\ act[Range].ev \notin processed
      BY <1>1, <1>2, <3>3, GotoTypes DEF RangeCheck, Steps
    <3> QED
      BY <3>1, <3>2, <3>3
  <2> QED
    BY <1>1, <1>2, <2>1 DEF RangeCheck, Types, TypeOK
<1>3. CASE RangeMark
  <2>1. act' \in [Active -> Records] /\ \A b \in Active : Local(b)'
    BY <1>1, <1>3, NextEventTypes DEF RangeMark
  <2>2. processed' \subseteq Events
    BY <1>1, <1>3 DEF RangeMark, TypeOK, Local
  <2> QED
    BY <1>1, <1>3, <2>1, <2>2 DEF RangeMark, Types, TypeOK
<1>4. CASE RangeEnds
  <2>1. act' \in [Active -> Records] /\ \A b \in Active : Local(b)'
    BY <1>1, <1>4, EndsTypes DEF RangeEnds
  <2> QED
    BY <1>1, <1>4, <2>1 DEF RangeEnds, Types, TypeOK
<1>5. CASE Handle(Range)
  BY <1>1, <1>5, HandleTypes
<1> QED
  BY <1>2, <1>3, <1>4, <1>5 DEF RescanRange

\* A process that ends leaves no activation.
LEMMA GoneTypes ==
  ASSUME Types, Gone, budget' \in 0 .. MaxDisturbances PROVE Types'
<1>1. Idle \in Records /\ Idle.pc = "idle" /\ Idle.seen = 0
  BY Parts DEF Idle, Records, Steps, Cursors
<1>2. act' \in [Active -> Records] /\ \A b \in Active : Local(b)'
  BY <1>1, Parts DEF Gone, Local, Cursors
<1> QED
  BY <1>2, Parts DEF Gone, Types, TypeOK, ledgers, tables, service, Cursors

\* The life of the service preserves the types.
LEMMA LifeTypes ==
  ASSUME Types, Life PROVE Types'
<1> USE DEF ledgers, tables, service
<1>1. TypeOK /\ 0 \in Cursors
  BY Parts DEF Types, Cursors
<1>2. Start \/ Loaded \/ StopSaves =>
        act' = act /\ \A b \in Active : Local(b)'
  BY DEF Start, Loaded, StopSaves, Types, Local
<1>3. CASE Start
  <2>1. budget' \in 0 .. MaxDisturbances
    BY <1>1, <1>3, BudgetType DEF Start
  <2> QED
    BY <1>1, <1>2, <1>3, <2>1 DEF Start, Types, TypeOK
<1>4. CASE Loaded
  BY <1>1, <1>2, <1>4 DEF Loaded, Types, TypeOK
<1>5. CASE StopSaves
  BY <1>1, <1>2, <1>5 DEF StopSaves, Types, TypeOK
<1>6. CASE Exit
  BY <1>1, <1>6, BudgetType, GoneTypes DEF Exit
<1> QED
  BY <1>3, <1>4, <1>5, <1>6 DEF Life

\* A request or a crash preserves the types.
LEMMA RequestTypes ==
  ASSUME Types, Request PROVE Types'
<1> USE DEF ledgers, tables, service
<1>1. TypeOK /\ 0 \in Cursors /\ 0 \in 0 .. MaxRetries - 1
  BY Parts DEF Types, Cursors
<1>2. CASE Stop
  <2>1. budget' \in 0 .. MaxDisturbances /\ \A b \in Active : Local(b)'
    BY <1>1, <1>2, BudgetType DEF Stop, Types, Local
  <2> QED
    BY <1>1, <1>2, <2>1 DEF Stop, Types, TypeOK
<1>3. CASE Crash
  BY <1>1, <1>3, BudgetType, GoneTypes DEF Crash
<1>4. ASSUME NEW from \in Events, NEW to \in Events, RangeRequested(from, to) PROVE Types'
  <2> DEFINE r == [Idle EXCEPT !.pc = "check", !.ev = from, !.last = to]
  <2>1. r \in Records /\ r.ev = from /\ r.pc = "check" /\ r.seen = 0
    <3>1. 0 \in 0 .. MaxRetries /\ from \in Cursors /\ to \in Cursors
      BY Parts DEF Cursors, Events
    <3> QED
      BY <1>1, <3>1 DEF Idle, Records, Steps
  <2>2. act' = [act EXCEPT ![Range] = r]
    BY <1>4 DEF RangeRequested
  <2>3. act' \in [Active -> Records]
    BY <1>1, <2>1, <2>2 DEF TypeOK
  <2>4. ASSUME NEW b \in Active PROVE Local(b)'
    <3>1. CASE b = Range
      BY <1>1, <2>1, <2>2, <3>1, Parts DEF Local, TypeOK
    <3>2. CASE b # Range
      BY <2>2, <3>2 DEF Types, TypeOK, Local
    <3> QED
      BY <3>1, <3>2
  <2>5. budget' \in 0 .. MaxDisturbances
    BY <1>1, <1>4, BudgetType DEF RangeRequested
  <2> QED
    BY <1>1, <1>4, <2>3, <2>4, <2>5 DEF RangeRequested, Types, TypeOK
<1>5. ASSUME NEW c \in Cursors, Rescan(c) PROVE Types'
  <2>1. budget' \in 0 .. MaxDisturbances /\ \A b \in Active : Local(b)'
    BY <1>1, <1>5, BudgetType DEF Rescan, Types, Local
  <2>2. processed' \subseteq Events
    BY <1>1, <1>5 DEF Rescan, TypeOK
  <2> QED
    BY <1>1, <1>5, <2>1, <2>2 DEF Rescan, Types, TypeOK
<1> QED
  BY <1>2, <1>3, <1>4, <1>5 DEF Request

\* The chain and the API preserve the types.
LEMMA OutsideTypes ==
  ASSUME Types, Emit \/ \E e \in Events : ApiRecords(e) PROVE Types'
<1> USE DEF ledgers, tables, service
<1>1. TypeOK /\ \A b \in Active : Local(b)
  BY DEF Types
<1>2. CASE Emit
  BY <1>1, <1>2, Parts DEF Emit, Types, TypeOK, Local, Cursors
<1>3. ASSUME NEW e \in Events, ApiRecords(e) PROVE Types'
  <2>1. rows' \subseteq Paying /\ credited' \in [Events -> Nat]
    BY <1>1, <1>3, RecordTypes DEF ApiRecords, Donated, Paying
  <2> QED
    BY <1>1, <1>3, <2>1 DEF ApiRecords, Types, TypeOK, Local
<1> QED
  BY <1>2, <1>3

\* Every step preserves the types.
LEMMA NextTypes == Types /\ [Next]_vars => Types'
<1> SUFFICES ASSUME Types, [Next]_vars PROVE Types'
  OBVIOUS
<1>1. CASE Next
  BY <1>1, PollTypes, PollDLQTypes, RescanRangeTypes, LifeTypes, RequestTypes, OutsideTypes
     DEF Next
<1>2. CASE UNCHANGED vars
  BY <1>2 DEF vars, ledgers, tables, service, Types, TypeOK, Local
<1> QED
  BY <1>1, <1>2

\* The types hold throughout.
LEMMA TypesHold == Spec => []Types
<1> QED
  BY InitTypes, NextTypes, PTL DEF Spec

\* Every variable keeps its type, whatever the constants; in particular the
\* retry ladder of the dead-letter queue ends: no live entry is at its cap.
THEOREM EventsTypeCorrect == Spec => []TypeOK
<1>1. Types => TypeOK
  BY DEF Types
<1> QED
  BY <1>1, TypesHold, PTL

-------------------------------------------------------------------------------
(* The ledger and the event store.                                         *)

\* Each payment with a row was credited once.
Credits == \A e \in Events : credited[e] = IF e \in rows THEN 1 ELSE 0

\* A donation about to be appended has its row and has not been appended, and
\* no two activations are about to append the same one.
Appending ==
  /\ \A a \in Active : act[a].pc = "append" =>
       act[a].ev \in rows /\ store[act[a].ev] = 0
  /\ \A a, b \in Active :
       act[a].pc = "append" /\ act[b].pc = "append" /\ act[a].ev = act[b].ev => a = b

Once == Credits /\ Appending /\ AppendedOnce

\* Other steps of activation a than Insert and Append leave the ledger and
\* bring no activation to its append.
Quiet ==
  /\ rows' = rows /\ credited' = credited /\ store' = store
  /\ \A a \in Active : act'[a].pc = "append" => act'[a] = act[a]

\* A move to another step than the append is quiet, if the ledger stays.
LEMMA MovesQuiet ==
  ASSUME Types, NEW a \in Active,
         \/ \E pc \in Steps \ {"append"} : Goto(a, pc)
         \/ Ends(a)
         \/ \E s : NextEvent(a, s)
  PROVE  \A b \in Active : act'[b].pc = "append" => act'[b] = act[b]
<1>1. act \in [Active -> Records]
  BY DEF Types, TypeOK
<1>2. \A b \in Active \ {a} : act'[b] = act[b]
  BY <1>1 DEF Goto, Ends, NextEvent
<1>3. act'[a].pc # "append"
  <2>1. CASE \E pc \in Steps \ {"append"} : Goto(a, pc)
    BY <1>1, <2>1 DEF Goto, Records
  <2>2. CASE Ends(a)
    BY <1>1, <2>2 DEF Ends, Idle
  <2>3. CASE \E s : NextEvent(a, s)
    BY <1>1, <2>3 DEF NextEvent
  <2> QED
    BY <2>1, <2>2, <2>3
<1> QED
  BY <1>2, <1>3

\* A quiet step preserves the invariant.
LEMMA QuietOnce == Types /\ Once /\ Quiet => Once'
BY DEF Once, Credits, Appending, AppendedOnce, Quiet, Types, TypeOK

\* So does the insert: nobody is about to append a donation without a row.
LEMMA InsertOnce ==
  ASSUME Types, Once, NEW a \in Active, Insert(a) PROVE Once'
<1> DEFINE e == act[a].ev
<1>1. act \in [Active -> Records] /\ e \in Paying /\ e \in Events /\ act[a].pc = "insert"
  BY DEF Types, TypeOK, Local, Insert, Paying
<1>2. CASE Recorded(e)
  <2>1. Goto(a, "failed") /\ UNCHANGED <<rows, credited, store>>
    BY <1>2 DEF Insert
  <2>2. Quiet
    BY <2>1, MovesQuiet DEF Quiet, Steps
  <2> QED
    BY <2>2, QuietOnce
<1>3. CASE ~Recorded(e)
  <2>1. e \notin rows
    BY <1>3 DEF Recorded
  <2>2. rows' = rows \cup {e} /\ credited' = [credited EXCEPT ![e] = @ + 1] /\ store' = store
    BY <1>3 DEF Insert, Record
  <2>3. \A b \in Active \ {a} : act'[b] = act[b]
    BY <1>1, <1>3 DEF Insert, Goto
  <2>4. act'[a].ev = e
    BY <1>1, <1>3 DEF Insert, Goto, Records
  <2>5. credited \in [Events -> Nat] /\ credited[e] = 0 /\ store[e] = 0
    BY <1>1, <2>1 DEF Types, TypeOK, Once, Credits, AppendedOnce
  <2>6. Credits'
    BY <1>1, <2>1, <2>2, <2>5 DEF Once, Credits
  <2>7. Appending'
    <3>1. \A b \in Active \ {a} : act[b].pc = "append" => act[b].ev # e
      BY <2>1 DEF Once, Appending
    <3>2. \A b \in Active : act'[b].pc = "append" =>
            act'[b].ev \in rows' /\ store'[act'[b].ev] = 0
      BY <2>2, <2>3, <2>4, <2>5 DEF Once, Appending
    <3>3. \A b, c \in Active :
            act'[b].pc = "append" /\ act'[c].pc = "append" /\ act'[b].ev = act'[c].ev => b = c
      BY <2>3, <2>4, <3>1 DEF Once, Appending
    <3> QED
      BY <3>2, <3>3 DEF Appending
  <2>8. AppendedOnce'
    BY <2>2 DEF Once, AppendedOnce, Types, TypeOK
  <2> QED
    BY <2>6, <2>7, <2>8 DEF Once
<1> QED
  BY <1>2, <1>3

\* And the append itself.
LEMMA AppendOnce ==
  ASSUME Types, Once, NEW a \in Active, Append(a) PROVE Once'
<1> DEFINE e == act[a].ev
<1>1. /\ act \in [Active -> Records] /\ store \in [Events -> Nat]
      /\ act[a].pc = "append" /\ e \in rows /\ e \in Events /\ store[e] = 0
  BY DEF Types, TypeOK, Local, Append, Once, Appending, Donated
<1>2. /\ rows' = rows /\ credited' = credited
      /\ store' = store \/ store' = [store EXCEPT ![e] = @ + 1]
  BY DEF Append
<1>3. act'[a].pc = "handled" /\ \A b \in Active \ {a} : act'[b] = act[b]
  BY <1>1 DEF Append, Goto, Records
<1>4. \A b \in Active \ {a} : act[b].pc = "append" => act[b].ev # e /\ act[b].ev \in Events
  BY <1>1 DEF Once, Appending, Types, Local, Donated
<1>5. Appending'
  <2>1. \A b \in Active : act'[b].pc = "append" =>
          act'[b].ev \in rows' /\ store'[act'[b].ev] = 0
    BY <1>1, <1>2, <1>3, <1>4 DEF Once, Appending
  <2>2. \A b, c \in Active :
          act'[b].pc = "append" /\ act'[c].pc = "append" /\ act'[b].ev = act'[c].ev => b = c
    BY <1>3 DEF Once, Appending
  <2> QED
    BY <2>1, <2>2 DEF Appending
<1>6. AppendedOnce'
  BY <1>1, <1>2 DEF Once, AppendedOnce
<1> QED
  BY <1>2, <1>5, <1>6 DEF Once, Credits

\* A step of a handler preserves the invariant.
LEMMA HandleOnce ==
  ASSUME Types, Once, NEW a \in Active, Handle(a) PROVE Once'
<1>1. CASE HandlePlan(a)
  <2>1. Quiet
    BY <1>1, MovesQuiet DEF HandlePlan, Quiet, Steps
  <2> QED
    BY <2>1, QuietOnce
<1>2. CASE Lookup(a)
  <2>1. \E pc \in Steps \ {"append"} : Goto(a, pc)
    BY <1>2 DEF Lookup, Steps
  <2>2. Quiet
    BY <1>2, <2>1, MovesQuiet DEF Lookup, Quiet, ledgers
  <2> QED
    BY <2>2, QuietOnce
<1>3. CASE Insert(a)
  BY <1>3, InsertOnce
<1>4. CASE HandlerFails(a)
  <2>1. Quiet
    BY <1>4, MovesQuiet DEF HandlerFails, Quiet, Steps, ledgers
  <2> QED
    BY <2>1, QuietOnce
<1>5. CASE Append(a)
  BY <1>5, AppendOnce
<1> QED
  BY <1>1, <1>2, <1>3, <1>4, <1>5 DEF Handle

\* Every step preserves the invariant.
LEMMA NextOnce == Types /\ Once /\ [Next]_vars => Once'
<1> SUFFICES ASSUME Types, Once, [Next]_vars PROVE Once'
  OBVIOUS
<1> USE DEF Quiet, Steps, ledgers
<1>0. TypeOK /\ act \in [Active -> Records]
  BY DEF Types, TypeOK
<1>1. ASSUME NEW p \in Pollers, Poll(p) PROVE Once'
  <2>0. p \in Active
    BY Parts
  <2>1. CASE Fetch(p)
    BY <1>0, <2>0, <2>1, QuietOnce DEF Fetch
  <2>2. CASE Check(p)
    <3>1. Ends(p) \/ Goto(p, "handle")
      BY <2>2 DEF Check
    <3> QED
      BY <2>0, <2>2, <3>1, MovesQuiet, QuietOnce DEF Check
  <2>3. CASE ConnectFails(p)
    BY <2>0, <2>3, MovesQuiet, QuietOnce DEF ConnectFails
  <2>4. CASE BeginFails(p)
    BY <2>0, <2>4, MovesQuiet, QuietOnce DEF BeginFails
  <2>5. CASE CheckFails(p)
    <3>1. act'[p].pc = "handle" /\ \A b \in Active \ {p} : act'[b] = act[b]
      BY <1>0, <2>0, <2>5 DEF CheckFails, Records
    <3> QED
      BY <2>5, <3>1, QuietOnce DEF CheckFails
  <2>6. CASE DeadLetters(p)
    BY <2>0, <2>6, MovesQuiet, QuietOnce DEF DeadLetters
  <2>7. CASE Commit(p)
    BY <2>0, <2>7, MovesQuiet, QuietOnce DEF Commit
  <2>8. CASE Finish(p)
    BY <2>0, <2>8, MovesQuiet, QuietOnce DEF Finish
  <2>9. CASE Handle(p)
    BY <2>0, <2>9, HandleOnce
  <2> QED
    BY <1>1, <2>1, <2>2, <2>3, <2>4, <2>5, <2>6, <2>7, <2>8, <2>9 DEF Poll
<1>2. CASE PollDLQ
  <2>1. ASSUME NEW e \in Events, Retry(e) PROVE Once'
    BY <1>0, <2>1, QuietOnce DEF Retry, Idle
  <2>2. CASE Resolve
    BY <2>2, Parts, MovesQuiet, QuietOnce DEF Resolve
  <2>3. CASE Climb
    BY <2>3, Parts, MovesQuiet, QuietOnce DEF Climb
  <2>4. CASE Handle(DLQCycle)
    BY <2>4, Parts, HandleOnce
  <2> QED
    BY <1>2, <2>1, <2>2, <2>3, <2>4 DEF PollDLQ
<1>3. CASE RescanRange
  <2>1. CASE RangeCheck
    <3>1. Ends(Range) \/ NextEvent(Range, 0) \/ Goto(Range, "handle")
      BY <2>1 DEF RangeCheck
    <3> QED
      BY <2>1, <3>1, Parts, MovesQuiet, QuietOnce DEF RangeCheck
  <2>2. CASE RangeMark
    BY <2>2, Parts, MovesQuiet, QuietOnce DEF RangeMark
  <2>3. CASE RangeEnds
    BY <2>3, Parts, MovesQuiet, QuietOnce DEF RangeEnds
  <2>4. CASE Handle(Range)
    BY <2>4, Parts, HandleOnce
  <2> QED
    BY <1>3, <2>1, <2>2, <2>3, <2>4 DEF RescanRange
<1>4. CASE Gone /\ (Exit \/ Crash)
  BY <1>4, QuietOnce DEF Gone, Idle
<1>5. CASE Life \/ Stop \/ (\E c \in Cursors : Rescan(c)) \/ Emit
  BY <1>4, <1>5, QuietOnce DEF Life, Start, Loaded, StopSaves, Exit, Stop, Rescan, Emit
<1>6. ASSUME NEW from \in Events, NEW to \in Events, RangeRequested(from, to) PROVE Once'
  BY <1>0, <1>6, QuietOnce DEF RangeRequested, Idle
<1>7. ASSUME NEW e \in Events, ApiRecords(e) PROVE Once'
  <2>1. /\ e \notin rows /\ rows' = rows \cup {e} /\ act' = act /\ store' = store
        /\ credited' = [credited EXCEPT ![e] = @ + 1] /\ credited \in [Events -> Nat]
    BY <1>0, <1>7 DEF ApiRecords, Recorded, Record, TypeOK
  <2> QED
    BY <2>1 DEF Once, Credits, Appending, AppendedOnce, Types, TypeOK
<1>8. CASE UNCHANGED vars
  BY <1>8, QuietOnce DEF vars
<1> QED
  BY <1>1, <1>2, <1>3, <1>4, <1>5, <1>6, <1>7, <1>8 DEF Next, Request, Crash

\* The invariant holds throughout.
LEMMA OnceHolds == Spec => [](Types /\ Once)
<1>1. Init => Once
  BY DEF Init, Once, Credits, Appending, AppendedOnce, Idle
<1>2. Types /\ Once /\ [Next]_vars => (Types /\ Once)'
  BY NextTypes, NextOnce
<1> QED
  BY <1>1, <1>2, InitTypes, PTL DEF Spec

\* The event store holds a donation at most once, and only one that has its
\* row, however many polls, retries and range rescans handle its event.
THEOREM AppendedOnceHolds == Spec => []AppendedOnce
<1>1. Once => AppendedOnce
  BY DEF Once
<1> QED
  BY <1>1, OnceHolds, PTL

\* The tables of payments change by one new row and its increment, if at all.
LEMMA LedgerStep ==
  ASSUME Types, [Next]_vars
  PROVE  \/ \E e \in Paying : e \notin rows /\ Record(e)
         \/ UNCHANGED <<rows, credited>>
<1> USE DEF ledgers
<1>1. ASSUME NEW a \in Active, Handle(a)
      PROVE  \/ \E e \in Paying : e \notin rows /\ Record(e)
             \/ UNCHANGED <<rows, credited>>
  <2>1. CASE Insert(a)
    <3>1. act[a].ev \in Paying
      BY <2>1 DEF Insert, Types, Local
    <3> QED
      BY <2>1, <3>1 DEF Insert, Recorded
  <2> QED
    BY <1>1, <2>1 DEF Handle, HandlePlan, Lookup, HandlerFails, Append
<1>2. ASSUME NEW p \in Pollers, Poll(p)
      PROVE  \/ \E e \in Paying : e \notin rows /\ Record(e)
             \/ UNCHANGED <<rows, credited>>
  <2>1. Handle(p) \/ UNCHANGED <<rows, credited>>
    BY <1>2 DEF Poll, Fetch, Check, ConnectFails, BeginFails, CheckFails, DeadLetters,
       Commit, Finish
  <2> QED
    BY <1>1, <2>1, Parts
<1>3. PollDLQ => Handle(DLQCycle) \/ UNCHANGED <<rows, credited>>
  BY DEF PollDLQ, Retry, Resolve, Climb
<1>4. RescanRange => Handle(Range) \/ UNCHANGED <<rows, credited>>
  BY DEF RescanRange, RangeCheck, RangeMark, RangeEnds
<1>5. Life \/ Request \/ Emit => UNCHANGED <<rows, credited>>
  BY DEF Life, Start, Loaded, StopSaves, Exit, Request, Stop, Crash, Gone, RangeRequested,
     Rescan, Emit
<1>6. ASSUME NEW e \in Events, ApiRecords(e) PROVE e \in Paying /\ e \notin rows /\ Record(e)
  BY <1>6 DEF ApiRecords, Recorded, Donated, Paying
<1>7. UNCHANGED vars => UNCHANGED <<rows, credited>>
  BY DEF vars
<1> QED
  BY <1>1, <1>2, <1>3, <1>4, <1>5, <1>6, <1>7, Parts DEF Next

\* The service implements the exactly-once ledger of DonationLedger.
THEOREM EventsRefineLedger == Spec => ImplementsLedger
<1>1. Init => Ledger!Init
  BY DEF Init, Ledger!Init
<1>2. Types /\ Once /\ [Next]_vars => [Ledger!Next]_(Ledger!vars)
  <2> SUFFICES ASSUME Types, Once, [Next]_vars PROVE [Ledger!Next]_(Ledger!vars)
    OBVIOUS
  <2>1. CASE UNCHANGED <<rows, credited>>
    BY <2>1 DEF Ledger!vars
  <2>2. ASSUME NEW e \in Paying, e \notin rows, Record(e) PROVE Ledger!Next
    <3>1. e \in Events /\ credited \in [Events -> Nat] /\ credited[e] = 0
      BY <2>2 DEF Types, TypeOK, Once, Credits, Paying
    <3>2. rows' = rows \cup {e} /\ credited' = [credited EXCEPT ![e] = 1]
      BY <2>2, <3>1 DEF Record
    <3>3. Ledger!Record(e)
      BY <2>2, <3>2 DEF Ledger!Record
    <3> QED
      BY <3>1, <3>3 DEF Ledger!Next
  <2> QED
    BY <2>1, <2>2, LedgerStep
<1> QED
  BY <1>1, <1>2, OnceHolds, PTL DEF Spec, ImplementsLedger, Ledger!Spec

-------------------------------------------------------------------------------
(* Nothing is skipped.                                                     *)

\* A donation event is kept safe, or was dropped by a double fault.
Safe(e) == e \in Donated \ dropped => KeptSafe(e)

\* No donation up to event n is lost.
Behind(n) == \A e \in Donated : e <= n => Safe(e)

\* What an activation knows when its handler has returned, and what a poll
\* knows of the events before the one it is at.
Knows(a) ==
  /\ act[a].pc = "handled" =>
       /\ a # DLQCycle => Safe(act[a].ev)
       /\ a = DLQCycle /\ act[a].ev \in Donated => Recorded(act[a].ev)
  /\ a \in Pollers =>
       Behind(act[a].seen) /\ (act[a].pc # "idle" => Behind(act[a].ev - 1))

Kept ==
  /\ \A e \in processed : Safe(e)
  /\ Behind(saved) /\ Behind(cursor) /\ Behind(held)
  /\ \A a \in Active : Knows(a)

\* What has been kept safe or recorded stays so, and dropped events stay dropped.
Grows == /\ \A e \in Events : Safe(e) => Safe(e)'
         /\ \A e \in Events : Recorded(e) => Recorded(e)'

LEMMA GrowsBehind ==
  ASSUME Grows, NEW n PROVE Behind(n) => Behind(n)'
BY DEF Grows, Behind, Donated

\* An activation that moves to a step other than "handled" knows what it knew;
\* one that moves to "handled" must bring what it then knows.
LEMMA GotoKnows ==
  ASSUME Types, Kept, Grows, NEW a \in Active, NEW pc \in Steps, Goto(a, pc),
         act[a].pc # "idle",
         pc = "handled" =>
           IF a = DLQCycle THEN act[a].ev \in Donated => Recorded(act[a].ev)'
                           ELSE Safe(act[a].ev)'
  PROVE  \A b \in Active : Knows(b)'
<1>1. act \in [Active -> Records] /\ \A b \in Active : Local(b)
  BY DEF Types, TypeOK
<1>2. act'[a].pc = pc /\ act'[a].ev = act[a].ev /\ act'[a].seen = act[a].seen
  BY <1>1 DEF Goto, Records
<1>3. ASSUME NEW b \in Active PROVE Knows(b)'
  <2>1. CASE b = a
    <3>1. b \in Pollers => Behind(act[b].seen)' /\ Behind(act[b].ev - 1)'
      BY <1>2, <2>1, GrowsBehind DEF Kept, Knows, Behind, Grows, Donated
    <3>2. act'[b].pc = "handled" =>
            /\ b # DLQCycle => Safe(act[b].ev)'
            /\ b = DLQCycle /\ act'[b].ev \in Donated => Recorded(act[b].ev)'
      BY <1>2, <2>1 DEF Safe, Recorded, KeptSafe
    <3> QED
      BY <3>1, <3>2 DEF Knows
  <2>2. CASE b # a
    <3>1. act'[b] = act[b] /\ (act[b].pc # "idle" => act[b].ev \in Events)
      BY <1>1, <2>2 DEF Goto, Local
    <3> QED
      BY <3>1 DEF Kept, Knows, Grows, Behind, Donated, Safe, Recorded, KeptSafe
  <2> QED
    BY <2>1, <2>2
<1> QED
  BY <1>3


\* One that ends knows nothing, and has nothing behind it.
LEMMA EndsKnows ==
  ASSUME Types, Kept, Grows, NEW a \in Active, Ends(a) PROVE \A b \in Active : Knows(b)'
<1>1. act \in [Active -> Records] /\ \A b \in Active : Local(b)
  BY DEF Types, TypeOK
<1>2. act'[a] = Idle
  BY <1>1 DEF Ends
<1>3. Behind(0)'
  BY Parts DEF Behind, Donated, Events
<1>4. ASSUME NEW b \in Active PROVE Knows(b)'
  <2>1. CASE b = a
    BY <1>2, <1>3, <2>1 DEF Knows, Idle
  <2>2. CASE b # a
    <3>1. act'[b] = act[b] /\ (act[b].pc # "idle" => act[b].ev \in Events)
      BY <1>1, <2>2 DEF Ends, Local
    <3> QED
      BY <3>1 DEF Kept, Knows, Grows, Behind, Donated, Safe, Recorded, KeptSafe
  <2> QED
    BY <2>1, <2>2
<1> QED
  BY <1>4

\* A scan may go on when its event is safe; newCursor then is behind it.
LEMMA NextEventKnows ==
  ASSUME Types, Kept, Grows, NEW a \in Pollers \cup {Range}, NEW s \in Cursors,
         act[a].pc # "idle", NextEvent(a, s),
         NEW e \in Events, e = act[a].ev,
         a \in Pollers => Behind(s)' /\ Safe(e)'
  PROVE  \A b \in Active : Knows(b)'
<1>1. /\ act \in [Active -> Records] /\ \A b \in Active : Local(b)
      /\ a \in Active /\ a # DLQCycle
  BY Parts DEF Types, TypeOK
<1>2. /\ act'[a].pc \in {"check", "finish"} /\ act'[a].seen = s
      /\ act'[a].ev \in {e, e + 1}
      /\ \A b \in Active \ {a} : act'[b] = act[b]
  BY <1>1 DEF NextEvent
<1>3. Events \subseteq Int /\ Donated \subseteq Events
  BY DEF Events, Donated
<1>4. ASSUME a \in Pollers, NEW f \in Donated, f <= e PROVE Safe(f)'
  <2>1. CASE f = e
    BY <1>4, <2>1
  <2>2. CASE f # e
    <3>1. f \in Events /\ f <= e - 1
      BY <1>3, <1>4, <2>2
    <3>2. Behind(e - 1)
      BY <1>1, <1>4 DEF Kept, Knows
    <3> QED
      BY <1>4, <3>1, <3>2 DEF Behind, Grows
  <2> QED
    BY <2>1, <2>2
<1>5. a \in Pollers => Behind(e)' /\ Behind(e - 1)'
  BY <1>3, <1>4 DEF Behind
<1>6. ASSUME NEW b \in Active PROVE Knows(b)'
  <2>1. CASE b = a
    <3>1. act'[b].ev - 1 = e \/ act'[b].ev - 1 = e - 1
      BY <1>2, <1>3, <2>1
    <3>2. b \in Pollers => Behind(act[b].ev - 1)'
      <4>1. CASE act'[b].ev - 1 = e
        BY <1>5, <2>1, <4>1 DEF Behind
      <4>2. CASE act'[b].ev - 1 = e - 1
        BY <1>5, <2>1, <4>2 DEF Behind
      <4> QED
        BY <3>1, <4>1, <4>2
    <3>3. b \in Pollers => Behind(act[b].seen)'
      BY <1>2, <2>1 DEF Behind
    <3> QED
      BY <1>1, <1>2, <2>1, <3>2, <3>3 DEF Knows
  <2>2. CASE b # a
    <3>1. act'[b] = act[b] /\ (act[b].pc # "idle" => act[b].ev \in Events)
      BY <1>1, <1>2, <2>2 DEF Local
    <3> QED
      BY <3>1 DEF Kept, Knows, Grows, Behind, Donated, Safe, Recorded, KeptSafe
  <2> QED
    BY <2>1, <2>2
<1> QED
  BY <1>6

\* The tables grow, except that an entry of the dead-letter queue may be
\* resolved once its donation is recorded.
LEMMA GrowsFrom ==
  ASSUME rows \subseteq rows', dropped \subseteq dropped',
         \A e \in Events : KeptSafe(e) => KeptSafe(e)'
  PROVE  Grows
BY DEF Grows, Safe, Recorded

LEMMA GrowsUnchanged ==
  ASSUME rows \subseteq rows', dropped \subseteq dropped', dlq' = dlq PROVE Grows
BY DEF Grows, Safe, Recorded, KeptSafe

\* The parts of Kept that are not about the activations.
LEMMA KeptFrom ==
  ASSUME Types, Kept, Grows,
         \A e \in processed' : Safe(e)',
         Behind(saved)', Behind(cursor)', Behind(held)',
         \A b \in Active : Knows(b)'
  PROVE  Kept'
BY DEF Kept

\* They keep holding where their variables keep their values.
LEMMA KeptUnchanged ==
  ASSUME Types, Kept, Grows
  PROVE  /\ processed' \subseteq processed => \A e \in processed' : Safe(e)'
         /\ saved' = saved => Behind(saved)'
         /\ cursor' = cursor => Behind(cursor)'
         /\ held' = held => Behind(held)'
BY DEF Kept, Grows, Behind, Types, TypeOK, Donated

\* A step of a handler keeps every donation safe: it ends in "handled" only
\* when it has found the row of its donation, or has committed and appended it.
LEMMA HandleKept ==
  ASSUME Types, Once, Kept, NEW a \in Active, Handle(a) PROVE Kept'
<1> USE DEF ledgers, tables, service
<1>1. rows \subseteq rows' /\ dropped' = dropped /\ dlq' = dlq
  BY DEF Handle, HandlePlan, Lookup, Insert, Record, HandlerFails, Append
<1>2. Grows
  BY <1>1, GrowsUnchanged
<1>3. processed' = processed /\ saved' = saved /\ cursor' = cursor /\ held' = held
  BY DEF Handle, HandlePlan, Lookup, Insert, HandlerFails, Append
<1>4. act \in [Active -> Records] /\ act[a].ev \in Events
  BY DEF Types, TypeOK, Local, Handle, HandlePlan, Lookup, Insert, HandlerFails, Append
<1>5. \A b \in Active : Knows(b)'
  <2>1. CASE HandlePlan(a)
    <3>1. act[a].ev \notin Donated /\ Goto(a, "handled") /\ act[a].pc # "idle"
      BY <2>1 DEF HandlePlan, Donated
    <3>2. act'[a].ev = act[a].ev
      BY <1>4, <3>1 DEF Goto, Records
    <3> QED
      BY <1>2, <3>1, <3>2, GotoKnows DEF Steps, Safe
  <2>2. CASE Lookup(a)
    <3>1. CASE Skipped(act[a].ev)
      <4>1. Goto(a, "handled") /\ act[a].pc # "idle"
        BY <2>2, <3>1 DEF Lookup
      <4>2. act'[a].ev = act[a].ev
        BY <1>4, <4>1 DEF Goto, Records
      <4>3. act[a].ev \in Donated => Recorded(act[a].ev)
        BY <3>1 DEF Skipped, Donated
      <4>4. act[a].ev \in Donated => Recorded(act[a].ev)'
        BY <1>1, <4>2, <4>3 DEF Recorded
      <4>5. Safe(act[a].ev)'
        BY <4>2, <4>4 DEF Safe, KeptSafe
      <4> QED
        BY <1>2, <4>1, <4>4, <4>5, GotoKnows DEF Steps
    <3>2. CASE ~Skipped(act[a].ev)
      BY <1>2, <2>2, <3>2, GotoKnows DEF Lookup, Steps
    <3> QED
      BY <3>1, <3>2
  <2>3. CASE Insert(a)
    <3>1. PICK pc \in {"failed", "append", "handled"} :
             Goto(a, pc) /\ (pc = "handled" => act[a].ev \notin Donated)
      BY <2>3 DEF Insert
    <3>2. act'[a].ev = act[a].ev /\ act[a].pc # "idle"
      BY <1>4, <2>3, <3>1 DEF Insert, Goto, Records
    <3> QED
      BY <1>2, <3>1, <3>2, GotoKnows DEF Steps, Safe
  <2>4. CASE HandlerFails(a)
    BY <1>2, <2>4, GotoKnows DEF HandlerFails, Steps
  <2>5. CASE Append(a)
    <3>1. Goto(a, "handled") /\ act[a].pc # "idle" /\ act[a].ev \in rows
      BY <2>5 DEF Append, Once, Appending
    <3>2. act'[a].ev = act[a].ev
      BY <1>4, <3>1 DEF Goto, Records
    <3>3. Recorded(act[a].ev)' /\ Safe(act[a].ev)'
      BY <1>1, <3>1, <3>2 DEF Recorded, Safe, KeptSafe
    <3> QED
      BY <1>2, <3>1, <3>3, GotoKnows DEF Steps
  <2> QED
    BY <2>1, <2>2, <2>3, <2>4, <2>5 DEF Handle
<1> QED
  BY <1>2, <1>3, <1>5, KeptUnchanged, KeptFrom

\* A step of a poll keeps every donation safe.
LEMMA PollKept ==
  ASSUME Types, Once, Kept, NEW p \in Pollers, Poll(p) PROVE Kept'
<1> USE DEF ledgers, tables, service
<1>1. /\ p \in Active /\ p \in Pollers \cup {Range} /\ p # DLQCycle
      /\ act \in [Active -> Records] /\ Local(p) /\ Knows(p) /\ 0 \in Cursors
  BY Parts DEF Types, TypeOK, Kept, Cursors
<1>2. CASE Fetch(p)
  <2>1. Grows
    BY <1>2, GrowsUnchanged DEF Fetch
  <2>2. /\ act'[p].pc = "check" /\ act'[p].ev = cursor + 1 /\ act'[p].seen = cursor
        /\ \A b \in Active \ {p} : act'[b] = act[b]
    BY <1>1, <1>2 DEF Fetch
  <2>3. Behind(cursor)' /\ cursor' = cursor /\ cursor \in Int
    BY <1>2, <2>1, KeptUnchanged DEF Fetch, Types, TypeOK, Cursors
  <2>4. ASSUME NEW b \in Active PROVE Knows(b)'
    <3>1. CASE b = p
      <4>1. act'[b].ev - 1 = cursor
        BY <2>2, <2>3, <3>1
      <4> QED
        BY <1>1, <2>2, <2>3, <3>1, <4>1 DEF Knows, Behind
    <3>2. CASE b # p
      <4>1. act'[b] = act[b] /\ (act[b].pc # "idle" => act[b].ev \in Events)
        BY <2>2, <3>2 DEF Types, Local
      <4> QED
        BY <2>1, <4>1 DEF Kept, Knows, Grows, Behind, Donated, Safe, Recorded, KeptSafe
    <3> QED
      BY <3>1, <3>2
  <2> QED
    BY <1>2, <2>1, <2>4, KeptUnchanged, KeptFrom DEF Fetch
<1>3. CASE Check(p)
  <2>1. Grows
    BY <1>3, GrowsUnchanged DEF Check
  <2>2. Ends(p) \/ (Goto(p, "handle") /\ act[p].pc # "idle")
    BY <1>3 DEF Check
  <2>3. \A b \in Active : Knows(b)'
    BY <1>1, <2>1, <2>2, EndsKnows, GotoKnows DEF Steps
  <2> QED
    BY <1>3, <2>1, <2>3, KeptUnchanged, KeptFrom DEF Check
<1>4. CASE ConnectFails(p)
  <2>1. Grows
    BY <1>4, GrowsUnchanged DEF ConnectFails
  <2>2. \A b \in Active : Knows(b)'
    BY <1>1, <1>4, <2>1, EndsKnows DEF ConnectFails
  <2> QED
    BY <1>4, <2>1, <2>2, KeptUnchanged, KeptFrom DEF ConnectFails
<1>5. CASE BeginFails(p)
  <2>1. Grows
    BY <1>5, GrowsUnchanged DEF BeginFails
  <2>2. PICK e \in Events : e = act[p].ev
    BY <1>1, <1>5 DEF BeginFails, Local
  <2>3. PICK s \in Cursors : s = act[p].seen
    BY <1>1 DEF Local
  <2>4. Safe(e)' /\ Behind(s)'
    BY <1>1, <1>5, <2>1, <2>2, <2>3, GrowsBehind DEF BeginFails, Safe, Knows, Behind, Grows, Donated
  <2>5. \A b \in Active : Knows(b)'
    BY <1>1, <1>5, <2>1, <2>2, <2>3, <2>4, NextEventKnows DEF BeginFails
  <2> QED
    BY <1>5, <2>1, <2>5, KeptUnchanged, KeptFrom DEF BeginFails
<1>6. CASE CheckFails(p)
  <2>1. Grows
    BY <1>6, GrowsUnchanged DEF CheckFails
  <2>2. /\ act'[p].pc = "handle" /\ act'[p].ev = act[p].ev /\ act'[p].seen = act[p].seen
        /\ \A b \in Active \ {p} : act'[b] = act[b] /\ act[p].pc = "check"
    BY <1>1, <1>6 DEF CheckFails, Records
  <2>3. ASSUME NEW b \in Active PROVE Knows(b)'
    <3>1. CASE b = p
      <4>1. Behind(act[p].seen) /\ Behind(act[p].ev - 1) /\ act[p].ev \in Events
        BY <1>1, <1>6 DEF Knows, CheckFails, Local
      <4> QED
        BY <1>1, <2>1, <2>2, <3>1, <4>1 DEF Knows, Behind, Grows, Donated
    <3>2. CASE b # p
      <4>1. act'[b] = act[b] /\ (act[b].pc # "idle" => act[b].ev \in Events)
        BY <2>2, <3>2 DEF Types, Local
      <4> QED
        BY <2>1, <4>1 DEF Kept, Knows, Grows, Behind, Donated, Safe, Recorded, KeptSafe
    <3> QED
      BY <3>1, <3>2
  <2> QED
    BY <1>6, <2>1, <2>3, KeptUnchanged, KeptFrom DEF CheckFails
<1>7. CASE DeadLetters(p)
  <2>1. PICK e \in Events : e = act[p].ev
    BY <1>1, <1>7 DEF DeadLetters, Local
  <2>2. dlq \in [Events -> Entries] /\ rows' = rows /\ dropped \subseteq dropped'
    BY <1>7 DEF DeadLetters, Types, TypeOK
  <2>3. \A f \in Events : KeptSafe(f) => KeptSafe(f)'
    <3>1. CASE DeadLetter(e)
      BY <2>2, <3>1 DEF DeadLetter, KeptSafe, Recorded
    <3>2. CASE dlq' = dlq
      BY <2>2, <3>2 DEF KeptSafe, Recorded
    <3> QED
      BY <1>7, <2>1, <3>1, <3>2 DEF DeadLetters
  <2>4. Grows
    BY <2>2, <2>3, GrowsFrom
  <2>5. Safe(e)'
    <3>1. CASE DeadLetter(e)
      BY <2>2, <3>1 DEF DeadLetter, Safe, KeptSafe
    <3>2. CASE e \in dropped'
      BY <3>2 DEF Safe
    <3> QED
      BY <1>7, <2>1, <3>1, <3>2 DEF DeadLetters
  <2>6. Goto(p, "handled") /\ act[p].pc # "idle"
    BY <1>7 DEF DeadLetters
  <2>7. act'[p].ev = act[p].ev
    BY <1>1, <2>6 DEF Goto, Records
  <2>8. Safe(act[p].ev)'
    BY <2>1, <2>5, <2>7 DEF Safe, KeptSafe, Recorded
  <2>9. \A b \in Active : Knows(b)'
    BY <1>1, <2>4, <2>6, <2>8, GotoKnows DEF Steps
  <2> QED
    BY <1>7, <2>4, <2>9, KeptUnchanged, KeptFrom DEF DeadLetters
<1>8. CASE Commit(p)
  <2>1. Grows
    BY <1>8, GrowsUnchanged DEF Commit
  <2>2. PICK e \in Events : e = act[p].ev
    BY <1>1, <1>8 DEF Commit, Local
  <2>3. Safe(e) /\ Safe(e)' /\ Behind(e - 1) /\ e \in Cursors
    BY <1>1, <1>8, <2>1, <2>2 DEF Commit, Knows, Grows, Events, Cursors
  <2>4. Behind(e)'
    <3>1. ASSUME NEW f \in Donated, f <= e PROVE Safe(f)'
      <4>1. f \in Events /\ e \in Int /\ f \in Int
        BY DEF Donated, Events
      <4>2. f = e \/ f <= e - 1
        BY <3>1, <4>1
      <4> QED
        BY <2>1, <2>3, <4>1, <4>2 DEF Behind, Grows
    <3> QED
      BY <3>1 DEF Behind
  <2>5. \A b \in Active : Knows(b)'
    BY <1>1, <1>8, <2>1, <2>2, <2>3, <2>4, NextEventKnows DEF Commit
  <2>6. Behind(saved)'
    <3>1. CASE saved' = saved
      BY <2>1, <3>1, KeptUnchanged
    <3>2. CASE saved' = e
      BY <2>4, <3>2 DEF Behind
    <3> QED
      BY <1>8, <2>2, <3>1, <3>2 DEF Commit
  <2>7. \A f \in processed' : Safe(f)'
    <3>1. processed' \subseteq processed \cup {e}
      BY <1>8, <2>2 DEF Commit
    <3> QED
      BY <2>1, <2>3, <3>1 DEF Kept, Grows, Types, TypeOK
  <2> QED
    BY <1>8, <2>1, <2>5, <2>6, <2>7, KeptUnchanged, KeptFrom DEF Commit
<1>9. CASE Finish(p)
  <2>1. Grows
    BY <1>9, GrowsUnchanged DEF Finish
  <2>2. \A b \in Active : Knows(b)'
    BY <1>1, <1>9, <2>1, EndsKnows DEF Finish
  <2>3. Behind(cursor)'
    <3>1. cursor' = cursor \/ cursor' = act[p].seen
      BY <1>9 DEF Finish
    <3>2. Behind(act[p].seen) /\ Behind(cursor)
      BY <1>1 DEF Knows, Kept
    <3> QED
      BY <2>1, <3>1, <3>2 DEF Behind, Grows, Donated
  <2> QED
    BY <1>9, <2>1, <2>2, <2>3, KeptUnchanged, KeptFrom DEF Finish
<1>10. CASE Handle(p)
  BY <1>1, <1>10, HandleKept
<1> QED
  BY <1>2, <1>3, <1>4, <1>5, <1>6, <1>7, <1>8, <1>9, <1>10 DEF Poll

\* A step of the dead-letter queue keeps every donation safe: an entry is
\* resolved only when its donation is recorded, and otherwise climbs on.
LEMMA PollDLQKept ==
  ASSUME Types, Once, Kept, PollDLQ PROVE Kept'
<1> USE DEF ledgers, tables, service
<1>1. /\ DLQCycle \in Active /\ DLQCycle \notin Pollers
      /\ act \in [Active -> Records] /\ Local(DLQCycle) /\ Knows(DLQCycle)
      /\ dlq \in [Events -> Entries]
  BY Parts DEF Types, TypeOK, Kept
<1>2. ASSUME NEW e \in Events, Retry(e) PROVE Kept'
  <2>1. Grows
    BY <1>2, GrowsUnchanged DEF Retry
  <2>2. act'[DLQCycle].pc = "handle" /\ \A b \in Active \ {DLQCycle} : act'[b] = act[b]
    BY <1>1, <1>2 DEF Retry, Idle
  <2>3. ASSUME NEW b \in Active PROVE Knows(b)'
    <3>1. CASE b = DLQCycle
      BY <1>1, <2>2, <3>1 DEF Knows
    <3>2. CASE b # DLQCycle
      <4>1. act'[b] = act[b] /\ (act[b].pc # "idle" => act[b].ev \in Events)
        BY <2>2, <3>2 DEF Types, Local
      <4> QED
        BY <2>1, <4>1 DEF Kept, Knows, Grows, Behind, Donated, Safe, Recorded, KeptSafe
    <3> QED
      BY <3>1, <3>2
  <2> QED
    BY <1>2, <2>1, <2>3, KeptUnchanged, KeptFrom DEF Retry
<1>3. CASE Resolve
  <2>1. PICK e \in Events : e = act[DLQCycle].ev
    BY <1>1, <1>3 DEF Resolve, Local
  <2>2. e \in Donated => Recorded(e)
    BY <1>1, <1>3, <2>1 DEF Resolve, Knows
  <2>3. ASSUME NEW f \in Events, f \in Donated, KeptSafe(f) PROVE KeptSafe(f)'
    <3>1. CASE f = e
      BY <1>3, <2>2, <2>3, <3>1 DEF Resolve, KeptSafe, Recorded
    <3>2. CASE f # e
      BY <1>1, <1>3, <2>1, <2>3, <3>2 DEF Resolve, KeptSafe, Recorded
    <3> QED
      BY <3>1, <3>2
  <2>4. Grows
    BY <1>3, <2>3 DEF Resolve, Grows, Safe, Recorded
  <2>5. Ends(DLQCycle) \/ (Goto(DLQCycle, "failed") /\ act[DLQCycle].pc # "idle")
    BY <1>3 DEF Resolve
  <2>6. \A b \in Active : Knows(b)'
    BY <1>1, <2>4, <2>5, EndsKnows, GotoKnows DEF Steps
  <2> QED
    BY <1>3, <2>4, <2>6, KeptUnchanged, KeptFrom DEF Resolve
<1>4. CASE Climb
  <2>1. Climbed(act[DLQCycle].seen).status \in {"live", "quarantined"}
    BY DEF Climbed
  <2>2. ASSUME NEW f \in Events, KeptSafe(f) PROVE KeptSafe(f)'
    BY <1>1, <1>4, <2>1, <2>2 DEF Climb, KeptSafe, Recorded
  <2>3. Grows
    BY <1>4, <2>2, GrowsFrom DEF Climb
  <2>4. \A b \in Active : Knows(b)'
    BY <1>1, <1>4, <2>3, EndsKnows DEF Climb
  <2> QED
    BY <1>4, <2>3, <2>4, KeptUnchanged, KeptFrom DEF Climb
<1>5. CASE Handle(DLQCycle)
  BY <1>1, <1>5, HandleKept
<1> QED
  BY <1>2, <1>3, <1>4, <1>5 DEF PollDLQ

\* A step of the range rescan keeps every donation safe: it marks an event only
\* when its handler has returned.
LEMMA RescanRangeKept ==
  ASSUME Types, Once, Kept, RescanRange PROVE Kept'
<1> USE DEF ledgers, tables, service
<1>1. /\ Range \in Active /\ Range \in Pollers \cup {Range} /\ Range \notin Pollers
      /\ Range # DLQCycle /\ Local(Range) /\ Knows(Range) /\ 0 \in Cursors
  BY Parts DEF Types, Kept, Cursors
<1>2. CASE RangeCheck
  <2>1. Grows
    BY <1>2, GrowsUnchanged DEF RangeCheck
  <2>2. PICK e \in Events : e = act[Range].ev
    BY <1>1, <1>2 DEF RangeCheck, Local
  <2>3. Ends(Range) \/ NextEvent(Range, 0) \/ Goto(Range, "handle")
    BY <1>2 DEF RangeCheck
  <2>4. \A b \in Active : Knows(b)'
    BY <1>1, <1>2, <2>1, <2>2, <2>3, EndsKnows, NextEventKnows, GotoKnows
       DEF RangeCheck, Steps
  <2> QED
    BY <1>2, <2>1, <2>4, KeptUnchanged, KeptFrom DEF RangeCheck
<1>3. CASE RangeMark
  <2>1. Grows
    BY <1>3, GrowsUnchanged DEF RangeMark
  <2>2. PICK e \in Events : e = act[Range].ev
    BY <1>1, <1>3 DEF RangeMark, Local
  <2>3. \A b \in Active : Knows(b)'
    BY <1>1, <1>3, <2>1, <2>2, NextEventKnows DEF RangeMark
  <2>4. act[Range].pc = "handled" => Safe(e)
    BY <1>1, <2>2 DEF Knows
  <2>5. \A f \in processed' : Safe(f)'
    BY <1>3, <2>1, <2>2, <2>4 DEF RangeMark, Kept, Grows, Types, TypeOK
  <2> QED
    BY <1>3, <2>1, <2>3, <2>5, KeptUnchanged, KeptFrom DEF RangeMark
<1>4. CASE RangeEnds
  <2>1. Grows
    BY <1>4, GrowsUnchanged DEF RangeEnds
  <2>2. \A b \in Active : Knows(b)'
    BY <1>1, <1>4, <2>1, EndsKnows DEF RangeEnds
  <2> QED
    BY <1>4, <2>1, <2>2, KeptUnchanged, KeptFrom DEF RangeEnds
<1>5. CASE Handle(Range)
  BY <1>1, <1>5, HandleKept
<1> QED
  BY <1>2, <1>3, <1>4, <1>5 DEF RescanRange

\* Activations that do not move keep knowing what they knew.
LEMMA StillKnows ==
  ASSUME Types, Kept, Grows, act' = act PROVE \A b \in Active : Knows(b)'
<1>1. \A b \in Active : act[b].pc # "idle" => act[b].ev \in Events
  BY DEF Types, Local
<1> QED
  BY <1>1 DEF Kept, Knows, Grows, Behind, Donated, Safe, Recorded, KeptSafe

\* A process that ends keeps what the tables hold.
LEMMA GoneKept ==
  ASSUME Types, Kept, Gone PROVE Kept'
<1>1. Grows
  BY GrowsUnchanged DEF Gone, ledgers, tables
<1>2. Behind(0)'
  BY Parts DEF Behind, Donated, Events
<1>3. \A b \in Active : Knows(b)'
  BY <1>2 DEF Gone, Knows, Idle
<1> QED
  BY <1>1, <1>2, <1>3, KeptUnchanged, KeptFrom DEF Gone, tables, Behind

\* The life of the service, the operator's requests, the chain and the API keep
\* every donation safe.
LEMMA OthersKept ==
  ASSUME Types, Once, Kept, Life \/ Request \/ Emit \/ \E e \in Events : ApiRecords(e)
  PROVE  Kept'
<1> USE DEF ledgers, tables, service
<1>1. Behind(0)'
  BY Parts DEF Behind, Donated, Events
<1>2. CASE Start \/ Loaded \/ Stop \/ StopSaves
  <2>1. Grows /\ act' = act
    BY <1>2, GrowsUnchanged DEF Start, Loaded, Stop, StopSaves
  <2>2. /\ cursor' \in {cursor, held} /\ saved' \in {saved, held}
        /\ held' \in {0, saved, cursor} /\ processed' = processed
    BY <1>2 DEF Start, Loaded, Stop, StopSaves
  <2>3. Behind(cursor)' /\ Behind(saved)' /\ Behind(held)'
    BY <1>1, <2>1, <2>2 DEF Kept, Behind, Grows, Donated
  <2> QED
    BY <2>1, <2>2, <2>3, StillKnows, KeptUnchanged, KeptFrom
<1>3. CASE Exit \/ Crash
  BY <1>3, GoneKept DEF Exit, Crash
<1>4. ASSUME NEW from \in Events, NEW to \in Events, RangeRequested(from, to) PROVE Kept'
  <2>1. Grows
    BY <1>4, GrowsUnchanged DEF RangeRequested
  <2>2. /\ act'[Range].pc = "check" /\ \A b \in Active \ {Range} : act'[b] = act[b]
        /\ Range \notin Pollers
    BY <1>4, Parts DEF RangeRequested, Idle, Types, TypeOK
  <2>3. ASSUME NEW b \in Active PROVE Knows(b)'
    <3>1. CASE b = Range
      BY <2>2, <3>1 DEF Knows
    <3>2. CASE b # Range
      <4>1. act'[b] = act[b] /\ (act[b].pc # "idle" => act[b].ev \in Events)
        BY <2>2, <3>2 DEF Types, Local
      <4> QED
        BY <2>1, <4>1 DEF Kept, Knows, Grows, Behind, Donated, Safe, Recorded, KeptSafe
    <3> QED
      BY <3>1, <3>2
  <2> QED
    BY <1>4, <2>1, <2>3, KeptUnchanged, KeptFrom DEF RangeRequested
<1>5. ASSUME NEW c \in Cursors, Rescan(c) PROVE Kept'
  <2>1. Grows /\ act' = act /\ processed' \subseteq processed
    BY <1>5, GrowsUnchanged DEF Rescan
  <2>2. Behind(cursor)'
    <3>1. c <= cursor /\ cursor' = c /\ c \in Int /\ cursor \in Int
      BY <1>5 DEF Rescan, Types, TypeOK, Cursors
    <3>2. \A e \in Donated : e <= c => e <= cursor /\ e \in Events
      BY <3>1 DEF Donated, Events
    <3> QED
      BY <2>1, <3>1, <3>2 DEF Kept, Behind, Grows
  <2> QED
    BY <1>5, <2>1, <2>2, StillKnows, KeptUnchanged, KeptFrom DEF Rescan
<1>6. CASE Emit
  <2>1. Grows /\ act' = act
    BY <1>6, GrowsUnchanged DEF Emit
  <2> QED
    BY <1>6, <2>1, StillKnows, KeptUnchanged, KeptFrom DEF Emit
<1>7. ASSUME NEW e \in Events, ApiRecords(e) PROVE Kept'
  <2>1. Grows /\ act' = act
    BY <1>7, GrowsUnchanged DEF ApiRecords, Record
  <2> QED
    BY <1>7, <2>1, StillKnows, KeptUnchanged, KeptFrom DEF ApiRecords
<1> QED
  BY <1>2, <1>3, <1>4, <1>5, <1>6, <1>7 DEF Life, Request

\* Every step keeps every donation safe.
LEMMA NextKept == Types /\ Once /\ Kept /\ [Next]_vars => Kept'
<1> SUFFICES ASSUME Types, Once, Kept, [Next]_vars PROVE Kept'
  OBVIOUS
<1>1. CASE Next
  BY <1>1, PollKept, PollDLQKept, RescanRangeKept, OthersKept DEF Next
<1>2. CASE UNCHANGED vars
  <2>1. Grows /\ act' = act
    BY <1>2, GrowsUnchanged DEF vars, ledgers, tables
  <2> QED
    BY <1>2, <2>1, StillKnows, KeptUnchanged, KeptFrom DEF vars, tables, service
<1> QED
  BY <1>1, <1>2

\* It holds at the start, and throughout.
LEMMA KeptHolds == Spec => []Kept
<1>1. Init => Kept
  BY Parts DEF Init, Kept, Knows, Behind, Idle, Donated, Events
<1>2. Types /\ Once /\ Kept /\ [Next]_vars => Kept'
  BY NextKept
<1> QED
  BY <1>1, <1>2, OnceHolds, PTL DEF Spec

\* No donation lies behind the cursor without being recorded or dead-lettered,
\* however polls, restarts and rescans interleave and fail, double faults apart.
THEOREM NothingSkippedHolds == Spec => []NothingSkipped
<1>1. Types /\ Kept => NothingSkipped
  BY DEF Types, TypeOK, Kept, Behind, Safe, NothingSkipped
<1> QED
  BY <1>1, TypesHold, KeptHolds, PTL

\* The de-duplication table names no donation event that is neither recorded
\* nor dead-lettered, double faults apart.
THEOREM MarkedIsKeptHolds == Spec => []MarkedIsKept
<1>1. Kept => MarkedIsKept
  BY DEF Kept, Safe, MarkedIsKept
<1> QED
  BY <1>1, KeptHolds, PTL
===============================================================================
