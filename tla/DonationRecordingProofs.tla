------------------------ MODULE DonationRecordingProofs ------------------------
(***************************************************************************)
(* Theorems about DonationRecording for every set of payments, requests,   *)
(* handlers, keys and profile jobs: the books of the donations add up, and *)
(* an idempotency key is processed once and answered finally, however the  *)
(* statements of the requests, the handlers and the jobs interleave and    *)
(* whatever fails.                                                         *)
(***************************************************************************)
EXTENDS DonationRecording, SumTheorems

-------------------------------------------------------------------------------
(* The inductive invariant.                                                *)

Pcs  == {"new", "lookup", "claim", "reread", "dedup", "insert", "answer", "done"} \cup InTransaction
Finals == {"created", "duplicate", "error"}
Gots == {"none", "conflict", "processing", "final", "lost"} \cup Finals
ActRows  == [pc : Pcs, pay : Payments, key : Keys \cup {"none"}, room : Int, gave : Nat,
             seen : SUBSET (Donors \cup {Matcher}), prior : Nat, got : Gots]
KeyRows  == [state : {"absent", "processing", "final", "expired"}, of : Payments]
WorkRows == [pc : {"idle", "write"}, donor : Donors, total : Nat]
PoolRows == [matched : Nat, status : {"active", "expired", "exhausted"}, expired : BOOLEAN]
Histories == [pool : BOOLEAN, counts : SUBSET Projects, profiles : SUBSET Donors,
              expired : SUBSET Keys]

\* The types, with those of the local variables.
RecTypes ==
  /\ direct \subseteq Payments /\ indexed \subseteq Payments
  /\ matched \in [Payments -> Nat]
  /\ raised \in [Projects -> Nat] /\ donorCount \in [Projects -> Nat]
  /\ profile \in [Donors -> Nat] /\ pool \in PoolRows
  /\ keys \in [Keys -> KeyRows] /\ act \in [Actors -> ActRows]
  /\ queue \in [Donors -> 0 .. Cardinality(Jobs)] /\ work \in [Jobs -> WorkRows]
  /\ history \in Histories /\ failures \in Nat

Open(row) == row.pc \in InTransaction

\* What a row says of its actor: only requests fill the pool, and from a room there was.
RowOK(a, row) ==
  /\ a \in Handlers => row.gave = 0
  /\ row.pc = "fill" => row.room > 0
  /\ row.gave > 0 => row.pc \in {"project", "raise"}

SameKind(a, b) == a \in Requests <=> b \in Requests
Written(a) == IF a \in Requests THEN direct ELSE indexed

\* An open transaction inserts a payment that nobody of its kind has inserted.
ActorsInv ==
  /\ \A a \in Actors : RowOK(a, act[a]) /\ (Open(act[a]) => act[a].pay \notin Written(a))
  /\ \A a, b \in Actors :
       a # b /\ SameKind(a, b) /\ Open(act[a]) /\ Open(act[b]) => act[a].pay # act[b].pay
  /\ \A q, r \in Requests : act[q].gave > 0 /\ act[r].gave > 0 => q = r

\* What the pool has given and what an open request gives are within the cap.
PoolInv ==
  /\ ~history.pool => /\ pool.matched <= Cap
                      /\ \A r \in Requests : pool.matched + act[r].gave <= Cap
  /\ pool.status = "exhausted" => pool.matched >= Cap
  /\ \A p \in Payments \ direct : matched[p] = 0

\* A request that works on its payment, or has.
Processing(row) == Open(row) \/ row.pc \in {"dedup", "insert", "answer"} \/ row.got \in Finals

\* What a row of a request says of its key.
KeyRow(row) ==
  /\ row.pc \in {"lookup", "claim", "reread"} \/ Processing(row) => row.key \in Keys
  /\ row.key \in Keys \ history.expired =>
       /\ row.pc = "reread" \/ Processing(row) => Live(row.key)
       /\ row.pc = "done" /\ row.got \in Finals => keys[row.key].state = "final"

\* A key that has not expired is live from its first request on, which is the only one
\* that works.
KeyInv ==
  /\ \A k \in Keys : keys[k].state = "expired" => k \in history.expired
  /\ \A r \in Requests : KeyRow(act[r])
  /\ \A q, r \in Requests :
       /\ Processing(act[q]) /\ Processing(act[r])
       /\ act[q].key = act[r].key /\ act[r].key \notin history.expired
       => q = r

BooksInv == PoolInv /\ TotalsAddUp /\ DonorCountFresh /\ ProfileIsTotal

RecInv == RecTypes /\ ActorsInv /\ BooksInv /\ KeyInv

-------------------------------------------------------------------------------
(* What the types give.                                                    *)

\* Where an actor's row points is there.
LEMMA RowTypes ==
  ASSUME RecTypes, NEW a \in Actors
  PROVE  /\ act[a] \in ActRows /\ act[a].pc \in Pcs
         /\ Pay(a) \in Payments /\ DonorOf[Pay(a)] \in Donors /\ Home(a) \in Projects
         /\ AmountOf[Pay(a)] \in Nat /\ act[a].key \in Keys \cup {"none"}
         /\ act[a].room \in Int /\ act[a].gave \in Nat /\ act[a].prior \in Nat
         /\ act[a].seen \in SUBSET (Donors \cup {Matcher})
         /\ act[a].got \in Gots
<1>1. act[a] \in ActRows
  BY DEF RecTypes
<1>2. Pay(a) \in Payments
  BY <1>1 DEF ActRows, Pay
<1> QED BY <1>1, <1>2, RecordingAssumption DEF ActRows, Donors, Projects, Home

LEMMA FreshType ==
  /\ APayment \in Payments /\ Fresh \in ActRows /\ Fresh.pc = "new" /\ Fresh.gave = 0
  /\ Fresh.got = "none" /\ Fresh.key = "none"
<1>1. APayment \in Payments
  BY RecordingAssumption, Zenon DEF APayment
<1> HIDE DEF APayment
<1> QED BY <1>1 DEF Fresh, ActRows, Pcs, Gots

\* The sets of payments and of donors are finite.
LEMMA RecordingSets ==
  /\ \A S \in SUBSET Payments : IsFiniteSet(S)
  /\ IsFiniteSet(Donors) /\ Donors # {}
  /\ \A S \in SUBSET (Donors \cup {Matcher}) : IsFiniteSet(S) /\ Cardinality(S) \in Nat
<1>1. \A S \in SUBSET Payments : IsFiniteSet(S)
  BY RecordingAssumption, FS_Subset
<1>2. IsFiniteSet(Donors)
  <2> DEFINE f == [p \in Payments |-> DonorOf[p]]
  <2>1. f \in Surjection(Payments, Donors)
    BY DEF Surjection, Donors
  <2> QED BY <2>1, FS_Surjection, RecordingAssumption
<1>3. Donors # {}
  BY RecordingAssumption DEF Donors
<1>4. IsFiniteSet(Donors \cup {Matcher})
  BY <1>2, FS_AddElement
<1> QED BY <1>1, <1>2, <1>3, <1>4, FS_Subset, FS_CardinalityType

\* The donors of a project are donors, or the matcher.
LEMMA DonorsType == RecTypes => \A j : DonorsOf(j) \in SUBSET (Donors \cup {Matcher})
BY DEF RecTypes, DonorsOf, Donors

\* A donor's total is a number.
LEMMA TotalType == RecTypes => \A d : Total(d) \in Nat
<1> SUFFICES ASSUME RecTypes, NEW d PROVE Total(d) \in Nat
  OBVIOUS
<1>1. ASSUME NEW S \in SUBSET Payments PROVE Sum(S) \in Nat
  BY RecordingSets, RecordingAssumption, SumNat DEF Sum
<1>2. /\ {p \in direct : DonorOf[p] = d} \in SUBSET Payments
      /\ {p \in indexed : DonorOf[p] = d} \in SUBSET Payments
  BY DEF RecTypes
<1>3. /\ Sum({p \in direct : DonorOf[p] = d}) \in Nat
      /\ Sum({p \in indexed : DonorOf[p] = d}) \in Nat
  BY <1>1, <1>2
<1> QED BY <1>3 DEF Total

\* The payments of a project, or of a donor.
Marked(of, mark, S) == {q \in S : of[q] = mark}

\* The sum of some payments grows by a new one that has the mark, and by no other.
LEMMA SumGrows ==
  ASSUME NEW S \in SUBSET Payments, NEW p \in Payments, p \notin S, NEW T, T = S \cup {p},
         NEW mark, NEW of
  PROVE  /\ Sum(Marked(of, mark, S)) \in Nat
         /\ of[p] = mark => Sum(Marked(of, mark, T)) = Sum(Marked(of, mark, S)) + AmountOf[p]
         /\ of[p] # mark => Sum(Marked(of, mark, T)) = Sum(Marked(of, mark, S))
<1> DEFINE U == Marked(of, mark, T)
           V == Marked(of, mark, S)
<1>1. IsFiniteSet(V) /\ \A q \in V : AmountOf[q] \in Nat
  BY RecordingSets, RecordingAssumption DEF Marked
<1>2. Sum(V) \in Nat
  <2> HIDE DEF V
  <2> QED BY <1>1, SumNat DEF Sum
<1>3. AmountOf[p] \in Nat
  BY RecordingAssumption
<1>4. CASE of[p] = mark
  <2>1. U = V \cup {p} /\ p \notin V /\ \A q \in U : AmountOf[q] \in Int
    BY <1>4, RecordingAssumption DEF Marked
  <2> HIDE DEF U, V
  <2>2. IsFiniteSet(U) /\ p \in U /\ U \ {p} = V
    BY <1>1, <2>1, FS_AddElement
  <2>3. SumFunctionOnSet(AmountOf, U) = AmountOf[p] + SumFunctionOnSet(AmountOf, U \ {p})
    BY <2>1, <2>2, SumRemove
  <2>4. Sum(U) = AmountOf[p] + Sum(V)
    BY <2>2, <2>3, Zenon DEF Sum
  <2>5. Sum(U) = Sum(V) + AmountOf[p]
    BY <1>2, <1>3, <2>4
  <2> QED BY <1>2, <1>4, <2>5 DEF U, V
<1>5. CASE of[p] # mark
  <2>1. U = V
    BY <1>5 DEF Marked
  <2> HIDE DEF U, V
  <2>2. Sum(U) = Sum(V)
    BY <2>1
  <2> QED BY <1>2, <1>5, <2>2 DEF U, V
<1> QED BY <1>4, <1>5

-------------------------------------------------------------------------------
(* Steps of the requests and the handlers that write no books.             *)

\* The books stay right as long as none of them is written.
LEMMA BooksUnchanged ==
  ASSUME TotalsAddUp, DonorCountFresh, ProfileIsTotal,
         UNCHANGED <<books, profile, queue, work>>, pool'.matched = pool.matched,
         history'.counts = history.counts, history'.profiles = history.profiles
  PROVE  TotalsAddUp' /\ DonorCountFresh' /\ ProfileIsTotal'
<1>1. UNCHANGED <<direct, indexed, matched, raised, donorCount>>
  BY DEF books
<1>2. TotalsAddUp'
  BY <1>1 DEF TotalsAddUp
<1>3. \A j : DonorsOf(j)' = DonorsOf(j)
  BY <1>1 DEF DonorsOf
<1>4. \A d : Total(d)' = Total(d)
  BY <1>1 DEF Total
<1>5. DonorCountFresh'
  BY <1>1, <1>3 DEF DonorCountFresh
<1>6. ProfileIsTotal'
  BY <1>4 DEF ProfileIsTotal
<1> QED BY <1>2, <1>5, <1>6

\* The row that an actor may write: it opens a transaction for a payment that nobody of
\* its kind has open or has inserted, and gives of the pool alone and within the cap.
MayOpen(a, row) ==
  /\ RowOK(a, row)
  /\ Open(row) => /\ row.pay \notin Written(a)
                  /\ \A b \in Actors \ {a} :
                       SameKind(a, b) /\ Open(act[b]) => act[b].pay # row.pay

MayGive(a, row) ==
  a \in Requests /\ row.gave > 0 =>
    /\ \A q \in Requests \ {a} : act[q].gave = 0
    /\ ~history'.pool => pool.matched + row.gave <= Cap

\* The row that it may write as far as its key is concerned.
MayWork(a, row) ==
  a \in Requests =>
    /\ KeyRow(row)
    /\ Processing(row) /\ row.key \notin history.expired =>
         Processing(act[a]) /\ row.key = act[a].key

\* Moving on within an open transaction is allowed.
LEMMA MayGoOn ==
  ASSUME RecTypes, ActorsInv, NEW a \in Actors, NEW row \in ActRows, RowOK(a, row),
         Open(row) => Open(act[a]) /\ row.pay = act[a].pay
  PROVE  MayOpen(a, row)
<1>1. \A b \in Actors \ {a} : SameKind(a, b) /\ Open(act[a]) /\ Open(act[b]) => act[a].pay # act[b].pay
  BY DEF ActorsInv
<1>2. Open(act[a]) => act[a].pay \notin Written(a)
  BY DEF ActorsInv
<1> QED BY <1>1, <1>2 DEF MayOpen

\* So is giving what one gives already, or nothing.
LEMMA MayGiveOn ==
  ASSUME RecTypes, ActorsInv, PoolInv, NEW a \in Actors, NEW row \in ActRows,
         row.gave \in {0, act[a].gave}, history.pool => history'.pool
  PROVE  MayGive(a, row)
<1> SUFFICES ASSUME a \in Requests, row.gave > 0 PROVE MayGive(a, row)
  BY DEF MayGive
<1>1. row.gave = act[a].gave
  OBVIOUS
<1>2. \A q \in Requests \ {a} : act[q].gave = 0
  <2> TAKE q \in Requests \ {a}
  <2>1. act[q].gave \in Nat
    BY RowTypes DEF Actors
  <2>2. ~(act[q].gave > 0)
    BY <1>1 DEF ActorsInv
  <2> QED BY <2>1, <2>2
<1>3. ~history'.pool => pool.matched + row.gave <= Cap
  <2> SUFFICES ASSUME ~history'.pool PROVE pool.matched + row.gave <= Cap
    OBVIOUS
  <2>1. ~history.pool
    OBVIOUS
  <2> QED BY <1>1, <2>1 DEF PoolInv
<1> QED BY <1>2, <1>3 DEF MayGive

\* A step of one actor that writes its own row, perhaps with its key, and perhaps that two
\* fills overlapped.
LEMMA ActBooks ==
  ASSUME RecInv, NEW a \in Actors, NEW row \in ActRows, act' = [act EXCEPT ![a] = row],
         MayOpen(a, row), MayGive(a, row),
         UNCHANGED <<books, profile, pool, queue, work>>, keys' \in [Keys -> KeyRows],
         history' \in Histories, history'.counts = history.counts,
         history'.profiles = history.profiles,
         history.pool => history'.pool, failures' \in Nat
  PROVE  RecTypes' /\ ActorsInv' /\ BooksInv'
<1>1. RecTypes /\ act \in [Actors -> ActRows] /\ UNCHANGED <<direct, indexed, matched, raised, donorCount>>
  BY DEF RecInv, RecTypes, books
<1>2. act'[a] = row /\ \A b \in Actors \ {a} : act'[b] = act[b]
  BY <1>1
<1>3. RecTypes'
  <2>1. act' \in [Actors -> ActRows]
    BY <1>1
  <2> QED BY <1>1, <2>1 DEF RecTypes
<1>4. ActorsInv'
  <2>1. ASSUME NEW b \in Actors
        PROVE  RowOK(b, act'[b]) /\ (Open(act'[b]) => act'[b].pay \notin Written(b)')
    <3>1. Written(b)' = Written(b)
      BY <1>1 DEF Written
    <3>2. CASE b = a
      BY <1>2, <3>1, <3>2 DEF MayOpen
    <3>3. CASE b # a
      BY <1>2, <3>1, <3>3 DEF RecInv, ActorsInv
    <3> QED BY <3>2, <3>3
  <2>2. ASSUME NEW b \in Actors, NEW c \in Actors, b # c, SameKind(b, c),
               Open(act'[b]), Open(act'[c])
        PROVE  act'[b].pay # act'[c].pay
    <3>1. CASE b = a
      BY <1>2, <2>2, <3>1 DEF MayOpen
    <3>2. CASE c = a
      BY <1>2, <2>2, <3>2 DEF MayOpen, SameKind
    <3>3. CASE b # a /\ c # a
      BY <1>2, <2>2, <3>3 DEF RecInv, ActorsInv
    <3> QED BY <3>1, <3>2, <3>3
  <2>3. ASSUME NEW q \in Requests, NEW r \in Requests, act'[q].gave > 0, act'[r].gave > 0
        PROVE  q = r
    <3>1. q \in Actors /\ r \in Actors
      BY DEF Actors
    <3>2. CASE q = a
      BY <1>2, <2>3, <3>1, <3>2 DEF MayGive
    <3>3. CASE r = a
      BY <1>2, <2>3, <3>1, <3>3 DEF MayGive
    <3>4. CASE q # a /\ r # a
      BY <1>2, <2>3, <3>1, <3>4 DEF RecInv, ActorsInv
    <3> QED BY <3>2, <3>3, <3>4
  <2> QED BY <2>1, <2>2, <2>3, Zenon DEF ActorsInv, RowOK, Open, SameKind
<1>5. PoolInv'
  <2>1. ASSUME ~history'.pool
        PROVE  pool.matched <= Cap /\ \A r \in Requests : pool.matched + act'[r].gave <= Cap
    <3>1. pool.matched <= Cap /\ \A r \in Requests : pool.matched + act[r].gave <= Cap
      BY <2>1 DEF RecInv, BooksInv, PoolInv
    <3>2. pool.matched \in Nat
      BY <1>1 DEF RecTypes, PoolRows
    <3>3. ASSUME NEW r \in Requests PROVE pool.matched + act'[r].gave <= Cap
      <4>1. r \in Actors
        BY DEF Actors
      <4>2. CASE r = a
        <5>1. row.gave \in Nat
          BY DEF ActRows
        <5> QED BY <1>2, <2>1, <3>1, <3>2, <4>2, <5>1, RecordingAssumption DEF MayGive
      <4>3. CASE r # a
        BY <1>2, <3>1, <4>1, <4>3
      <4> QED BY <4>2, <4>3
    <3> QED BY <3>1, <3>3
  <2>2. (pool.status = "exhausted" => pool.matched >= Cap) /\ \A p \in Payments \ direct : matched[p] = 0
    BY DEF RecInv, BooksInv, PoolInv
  <2> QED BY <1>1, <2>1, <2>2 DEF PoolInv
<1>6. BooksInv'
  BY <1>5, BooksUnchanged DEF RecInv, BooksInv
<1> QED BY <1>3, <1>4, <1>6

\* A step of one actor that leaves the keys alone.
LEMMA ActKeys ==
  ASSUME RecTypes, KeyInv, NEW a \in Actors, NEW row, act' = [act EXCEPT ![a] = row],
         MayWork(a, row), UNCHANGED keys, history'.expired = history.expired
  PROVE  KeyInv'
<1>0. act'[a] = row /\ \A b \in Actors \ {a} : act'[b] = act[b]
  BY DEF RecTypes
<1>1. \A k \in Keys : keys'[k].state = "expired" => k \in history'.expired
  BY DEF KeyInv
<1>2. \A x : KeyRow(x)' <=> KeyRow(x)
  BY DEF KeyRow, Processing, Open, Live
<1>3. ASSUME NEW r \in Requests PROVE KeyRow(act'[r])
  <2>1. r \in Actors
    BY DEF Actors
  <2>2. CASE r = a
    BY <1>0, <2>2 DEF MayWork
  <2>3. CASE r # a
    BY <1>0, <2>1, <2>3 DEF KeyInv
  <2> QED BY <2>2, <2>3
<1>4. \A r \in Requests : KeyRow(act[r])'
  BY <1>3 DEF KeyRow, Processing, Open, Live
<1>5. ASSUME NEW q \in Requests, NEW r \in Requests, Processing(act'[q]), Processing(act'[r]),
             act'[q].key = act'[r].key, act'[r].key \notin history'.expired
      PROVE  q = r
  <2>1. ASSUME NEW x \in Requests, Processing(act'[x]), act'[x].key \notin history.expired
        PROVE  Processing(act[x]) /\ act'[x].key = act[x].key
    <3>1. x \in Actors
      BY DEF Actors
    <3>2. CASE x = a
      BY <1>0, <2>1, <3>2 DEF MayWork
    <3>3. CASE x # a
      BY <1>0, <2>1, <3>1, <3>3
    <3> QED BY <3>2, <3>3
  <2>2. Processing(act[q]) /\ act'[q].key = act[q].key
    BY <1>5, <2>1
  <2>3. Processing(act[r]) /\ act'[r].key = act[r].key
    BY <1>5, <2>1
  <2> QED BY <1>5, <2>2, <2>3 DEF KeyInv
<1> QED BY <1>1, <1>4, <1>5, Zenon DEF KeyInv, Processing, Open

\* Both together.
LEMMA ActStep ==
  ASSUME RecInv, NEW a \in Actors, NEW row \in ActRows, act' = [act EXCEPT ![a] = row],
         MayOpen(a, row), MayGive(a, row), MayWork(a, row),
         UNCHANGED <<books, profile, pool, keys, queue, work>>,
         history' \in Histories, history'.counts = history.counts,
         history'.profiles = history.profiles, history'.expired = history.expired,
         history.pool => history'.pool, failures' \in Nat
  PROVE  RecInv'
<1>1. keys' \in [Keys -> KeyRows]
  BY DEF RecInv, RecTypes
<1>2. RecTypes' /\ ActorsInv' /\ BooksInv'
  BY <1>1, ActBooks
<1>3. KeyInv'
  BY ActKeys DEF RecInv
<1> QED BY <1>2, <1>3 DEF RecInv

\* A step that moves a row on, and nothing else.
LEMMA QuietStep ==
  ASSUME RecInv, NEW a \in Actors, NEW row \in ActRows, act' = [act EXCEPT ![a] = row],
         RowOK(a, row), Open(row) => Open(act[a]) /\ row.pay = act[a].pay,
         row.gave \in {0, act[a].gave}, MayWork(a, row),
         UNCHANGED <<books, profile, pool, keys, queue, work, history>>, failures' \in Nat
  PROVE  RecInv'
<1>1. RecTypes /\ ActorsInv /\ PoolInv /\ history \in Histories
  BY DEF RecInv, BooksInv, RecTypes
<1>2. MayOpen(a, row)
  BY <1>1, MayGoOn
<1>3. MayGive(a, row)
  BY <1>1, MayGiveOn
<1> QED BY <1>1, <1>2, <1>3, ActStep

\* The fields of a row that moves on.
LEMMA Moved ==
  ASSUME NEW row \in ActRows, NEW pc \in Pcs
  PROVE  LET new == [row EXCEPT !.pc = pc]
         IN  /\ new \in ActRows /\ new.pc = pc /\ new.pay = row.pay /\ new.key = row.key
             /\ new.room = row.room /\ new.gave = row.gave /\ new.seen = row.seen
             /\ new.prior = row.prior /\ new.got = row.got
BY DEF ActRows

\* A row that is not in the middle of a transaction has nothing of the pool.
LEMMA NothingGiven ==
  ASSUME RecInv, NEW a \in Actors, act[a].pc \notin {"project", "raise"}
  PROVE  act[a].gave = 0
<1>1. act[a].gave \in Nat /\ RowOK(a, act[a])
  BY RowTypes DEF RecInv, ActorsInv
<1> QED BY <1>1 DEF RowOK

\* A request that goes on with its key may.
LEMMA MayWorkOn ==
  ASSUME RecInv, NEW r \in Requests, NEW row, row.key = act[r].key,
         Processing(row) => Processing(act[r]), row.pc \notin {"done", "reread"},
         row.pc \in {"lookup", "claim"} \/ Processing(row) =>
           act[r].pc \in {"lookup", "claim", "reread"} \/ Processing(act[r])
  PROVE  MayWork(r, row)
<1>1. KeyRow(act[r])
  BY DEF RecInv, KeyInv
<1>2. KeyRow(row)
  BY <1>1 DEF KeyRow
<1> QED BY <1>2 DEF MayWork

\* Kinds of steps of a program counter.
LEMMA Counters ==
  /\ InTransaction \subseteq Pcs
  /\ {"new", "lookup", "claim", "reread", "dedup", "insert", "answer", "done"} \subseteq Pcs
  /\ {"pools", "fill", "project", "raise", "profiled"} = InTransaction
  /\ \A pc \in {"new", "lookup", "claim", "reread", "dedup", "insert", "answer", "done"} :
       pc \notin InTransaction
BY DEF Pcs, InTransaction

-------------------------------------------------------------------------------
(* The steps of the requests up to the insert.                             *)

LEMMA KeepsArrives ==
  ASSUME RecInv, NEW r \in Requests, NEW k \in Keys, NEW p \in Payments, Arrives(r, k, p)
  PROVE  RecInv'
<1> DEFINE row == [Fresh EXCEPT !.pc = "lookup", !.key = k, !.pay = p]
<1>1. /\ row \in ActRows /\ row.pc = "lookup" /\ row.key = k /\ row.gave = 0 /\ row.got = "none"
  BY FreshType, Counters DEF ActRows
<1>2. r \in Actors /\ act' = [act EXCEPT ![r] = row] /\ failures' \in Nat
      /\ UNCHANGED <<books, profile, pool, keys, queue, work, history>>
  BY DEF Arrives, Actors, RecInv, RecTypes
<1> HIDE DEF row
<1>3. ~Open(row) /\ RowOK(r, row) /\ ~Processing(row)
  BY <1>1, Counters DEF Open, RowOK, Processing, Finals
<1>4. MayWork(r, row)
  BY <1>1, <1>3 DEF MayWork, KeyRow
<1> QED BY <1>1, <1>2, <1>3, <1>4, QuietStep

\* A stored response ends a request.
LEMMA KeepsStored ==
  ASSUME RecInv, NEW r \in Requests, act[r].pc \in {"lookup", "reread"}, Live(KeyOf(r)),
         act' = [act EXCEPT ![r] = Stored(r)], failures' \in Nat,
         UNCHANGED <<books, profile, pool, keys, queue, work, history>>
  PROVE  RecInv'
<1> DEFINE got == IF keys[KeyOf(r)].of # Pay(r) THEN "conflict" ELSE keys[KeyOf(r)].state
           row == [act[r] EXCEPT !.pc = "done", !.got = got]
<1>1. got \in Gots /\ got \notin Finals
  BY DEF Live, Gots, Finals
<1>2. Stored(r) = row
  BY DEF Stored
<1> HIDE DEF got
<1>3. r \in Actors /\ act[r] \in ActRows
  BY RowTypes DEF Actors, RecInv
<1>4. /\ row \in ActRows /\ row.pc = "done" /\ row.key = act[r].key
      /\ row.gave = act[r].gave /\ row.got = got
  <2>1. "done" \in Pcs
    BY Counters
  <2> QED BY <1>1, <1>3, <2>1 DEF ActRows
<1>5. act[r].gave = 0
  BY <1>3, NothingGiven
<1> HIDE DEF row
<1>6. ~Open(row) /\ RowOK(r, row) /\ ~Processing(row)
  BY <1>1, <1>4, <1>5, Counters DEF Open, RowOK, Processing
<1>7. MayWork(r, row)
  BY <1>1, <1>4, <1>6 DEF MayWork, KeyRow
<1> QED BY <1>2, <1>3, <1>4, <1>6, <1>7, QuietStep

\* A step of a request that only moves its program counter on, outside of a transaction.
LEMMA KeepsGoto ==
  ASSUME RecInv, NEW r \in Requests, NEW pc \in {"claim", "reread", "dedup", "insert"},
         Goto(r, pc), act[r].pc \notin {"project", "raise"},
         MayWork(r, [act[r] EXCEPT !.pc = pc]), failures' \in Nat,
         UNCHANGED <<books, profile, pool, keys, queue, work, history>>
  PROVE  RecInv'
<1> DEFINE row == [act[r] EXCEPT !.pc = pc]
<1>1. r \in Actors /\ act[r] \in ActRows /\ pc \in Pcs /\ pc \notin InTransaction
  BY RowTypes, Counters DEF Actors, RecInv
<1>2. row \in ActRows /\ row.pc = pc /\ row.gave = act[r].gave
  BY <1>1, Moved
<1>3. act[r].gave = 0
  BY <1>1, NothingGiven
<1>4. act' = [act EXCEPT ![r] = row]
  BY DEF Goto
<1> HIDE DEF row
<1>5. ~Open(row) /\ RowOK(r, row)
  BY <1>1, <1>2, <1>3 DEF Open, RowOK
<1>6. MayWork(r, row)
  BY DEF row
<1> QED BY <1>1, <1>2, <1>4, <1>5, <1>6, QuietStep

LEMMA KeepsLooksUp == ASSUME RecInv, NEW r \in Requests, LooksUpKey(r) PROVE RecInv'
<1>1. /\ act[r].pc = "lookup" /\ failures' \in Nat
      /\ UNCHANGED <<books, profile, pool, keys, queue, work, history>>
  BY DEF LooksUpKey, RecInv, RecTypes
<1>2. CASE Live(KeyOf(r))
  <2>1. act' = [act EXCEPT ![r] = Stored(r)]
    BY <1>2 DEF LooksUpKey
  <2> QED BY <1>1, <1>2, <2>1, KeepsStored
<1>3. CASE ~Live(KeyOf(r))
  <2> DEFINE row == [act[r] EXCEPT !.pc = "claim"]
  <2>1. Goto(r, "claim")
    BY <1>3 DEF LooksUpKey
  <2>2. row.pc = "claim" /\ row.key = act[r].key /\ row.got = act[r].got
    BY RowTypes, Moved, Counters DEF Actors, RecInv
  <2> HIDE DEF row
  <2>3. Processing(row) => Processing(act[r])
    BY <2>2, Counters DEF Processing, Open
  <2>4. MayWork(r, row)
    BY <1>1, <2>2, <2>3, MayWorkOn
  <2> QED BY <1>1, <2>1, <2>4, KeepsGoto DEF row
<1> QED BY <1>2, <1>3

LEMMA KeepsRereads == ASSUME RecInv, NEW r \in Requests, RereadsKey(r) PROVE RecInv'
<1>1. /\ act[r].pc = "reread" /\ failures' \in Nat
      /\ UNCHANGED <<books, profile, pool, keys, queue, work, history>>
  BY DEF RereadsKey, RecInv, RecTypes
<1>2. CASE Live(KeyOf(r))
  <2>1. act' = [act EXCEPT ![r] = Stored(r)]
    BY <1>2 DEF RereadsKey
  <2> QED BY <1>1, <1>2, <2>1, KeepsStored
<1>3. CASE ~Live(KeyOf(r))
  <2> DEFINE row == [act[r] EXCEPT !.pc = "dedup"]
  <2>1. Goto(r, "dedup")
    BY <1>3 DEF RereadsKey
  <2>2. row.pc = "dedup" /\ row.key = act[r].key
    BY RowTypes, Moved, Counters DEF Actors, RecInv
  <2> HIDE DEF row
  <2>3. act[r].key \in Keys /\ act[r].key \in history.expired
    BY <1>1, <1>3 DEF RecInv, KeyInv, KeyRow, KeyOf
  <2>4. MayWork(r, row)
    BY <2>2, <2>3 DEF MayWork, KeyRow
  <2> QED BY <1>1, <2>1, <2>4, KeepsGoto DEF row
<1> QED BY <1>2, <1>3

\* The insert conflicts.
LEMMA KeepsConflict ==
  ASSUME RecInv, NEW r \in Requests, ClaimsKey(r), keys[KeyOf(r)].state # "absent"
  PROVE  RecInv'
<1>1. /\ act[r].pc = "claim" /\ Goto(r, "reread") /\ failures' \in Nat
      /\ UNCHANGED <<books, profile, pool, keys, queue, work, history>>
  BY DEF ClaimsKey, RecInv, RecTypes
<1> DEFINE row == [act[r] EXCEPT !.pc = "reread"]
<1>2. row.pc = "reread" /\ row.key = act[r].key /\ row.got = act[r].got
  BY RowTypes, Moved, Counters DEF Actors, RecInv
<1> HIDE DEF row
<1>3. Processing(row) => Processing(act[r])
  BY <1>2, Counters DEF Processing, Open
<1>4. act[r].key \in Keys
  BY <1>1 DEF RecInv, KeyInv, KeyRow
<1>5. keys[act[r].key].state \in {"absent", "processing", "final", "expired"}
  BY <1>4 DEF RecInv, RecTypes, KeyRows
<1>6. act[r].key \notin history.expired => Live(act[r].key)
  BY <1>4, <1>5 DEF RecInv, KeyInv, Live, KeyOf
<1>7. MayWork(r, row)
  BY <1>2, <1>3, <1>4, <1>6 DEF MayWork, KeyRow
<1> QED BY <1>1, <1>7, KeepsGoto DEF row

LEMMA KeepsDeduplicates == ASSUME RecInv, NEW r \in Requests, Deduplicates(r) PROVE RecInv'
<1>1. /\ act[r].pc = "dedup" /\ failures' \in Nat
      /\ UNCHANGED <<books, profile, pool, keys, queue, work, history>>
  BY DEF Deduplicates, RecInv, RecTypes
<1>2. r \in Actors /\ act[r] \in ActRows /\ Processing(act[r])
  BY <1>1, RowTypes DEF Actors, RecInv, Processing
<1>3. CASE Pay(r) \in direct \cup indexed
  <2> DEFINE row == [act[r] EXCEPT !.pc = "answer", !.got = "duplicate"]
  <2>1. act' = [act EXCEPT ![r] = row]
    BY <1>3 DEF Deduplicates
  <2>2. /\ row \in ActRows /\ row.pc = "answer" /\ row.key = act[r].key
        /\ row.gave = act[r].gave
    <3>1. "answer" \in Pcs /\ "duplicate" \in Gots
      BY Counters DEF Gots, Finals
    <3> QED BY <1>2, <3>1 DEF ActRows
  <2>3. act[r].gave = 0
    BY <1>1, <1>2, NothingGiven
  <2> HIDE DEF row
  <2>4. ~Open(row) /\ RowOK(r, row)
    BY <2>2, <2>3, Counters DEF Open, RowOK
  <2>5. MayWork(r, row)
    BY <1>2, <2>2, MayWorkOn
  <2> QED BY <1>1, <1>2, <2>1, <2>2, <2>4, <2>5, QuietStep
<1>4. CASE Pay(r) \notin direct \cup indexed
  <2> DEFINE row == [act[r] EXCEPT !.pc = "insert"]
  <2>1. Goto(r, "insert")
    BY <1>4 DEF Deduplicates
  <2>2. row.pc = "insert" /\ row.key = act[r].key
    BY <1>2, Moved, Counters
  <2> HIDE DEF row
  <2>3. MayWork(r, row)
    BY <1>2, <2>2, MayWorkOn
  <2> QED BY <1>1, <2>1, <2>3, KeepsGoto DEF row
<1> QED BY <1>3, <1>4

-------------------------------------------------------------------------------
(* The steps of open transactions.                                         *)

LEMMA KeepsInserts == ASSUME RecInv, NEW r \in Requests, Inserts(r) PROVE RecInv'
<1>1. /\ act[r].pc = "insert" /\ failures' \in Nat
      /\ \A q \in Requests : Pay(q) = Pay(r) => act[q].pc \notin InTransaction
      /\ UNCHANGED <<books, profile, pool, keys, queue, work, history>>
  BY DEF Inserts, RecInv, RecTypes
<1>2. r \in Actors /\ act[r] \in ActRows /\ Processing(act[r])
  BY <1>1, RowTypes DEF Actors, RecInv, Processing
<1>3. act[r].gave = 0
  BY <1>1, <1>2, NothingGiven
<1>4. CASE Pay(r) \in direct
  <2> DEFINE row == [act[r] EXCEPT !.pc = "answer", !.got = "error"]
  <2>1. act' = [act EXCEPT ![r] = row]
    BY <1>4 DEF Inserts
  <2>2. /\ row \in ActRows /\ row.pc = "answer" /\ row.key = act[r].key
        /\ row.gave = act[r].gave
    <3>1. "answer" \in Pcs /\ "error" \in Gots
      BY Counters DEF Gots, Finals
    <3> QED BY <1>2, <3>1 DEF ActRows
  <2> HIDE DEF row
  <2>3. ~Open(row) /\ RowOK(r, row)
    BY <1>3, <2>2, Counters DEF Open, RowOK
  <2>4. MayWork(r, row)
    BY <1>2, <2>2, MayWorkOn
  <2> QED BY <1>1, <1>2, <2>1, <2>2, <2>3, <2>4, QuietStep
<1>5. CASE Pay(r) \notin direct
  <2> DEFINE row == [act[r] EXCEPT !.pc = "pools"]
  <2>1. act' = [act EXCEPT ![r] = row]
    BY <1>5 DEF Inserts, Goto
  <2>2. /\ row \in ActRows /\ row.pc = "pools" /\ row.key = act[r].key
        /\ row.pay = act[r].pay /\ row.gave = act[r].gave
    BY <1>2, Moved, Counters
  <2> HIDE DEF row
  <2>3. RowOK(r, row)
    BY <1>3, <2>2 DEF RowOK
  <2>4. MayWork(r, row)
    BY <1>2, <2>2, MayWorkOn
  <2>5. MayOpen(r, row)
    <3>1. row.pay \notin Written(r)
      BY <1>5, <2>2 DEF Written, Pay
    <3>2. ASSUME NEW b \in Actors \ {r}, SameKind(r, b), Open(act[b]) PROVE act[b].pay # row.pay
      <4>1. b \in Requests
        BY <3>2 DEF SameKind
      <4> QED BY <1>1, <2>2, <3>2, <4>1 DEF Open, Pay
    <3> QED BY <2>3, <3>1, <3>2 DEF MayOpen
  <2>6. MayGive(r, row)
    BY <1>3, <2>2 DEF MayGive
  <2>7. history \in Histories
    BY DEF RecInv, RecTypes
  <2> QED BY <1>1, <1>2, <2>1, <2>2, <2>4, <2>5, <2>6, <2>7, ActStep
<1> QED BY <1>4, <1>5

\* A step within an open transaction.
LEMMA KeepsOpen ==
  ASSUME RecInv, NEW a \in Actors, NEW row \in ActRows, act' = [act EXCEPT ![a] = row],
         Open(act[a]), Open(row), row.pay = act[a].pay, row.key = act[a].key,
         row.gave = act[a].gave, RowOK(a, row), failures' \in Nat,
         UNCHANGED <<books, profile, pool, keys, queue, work, history>>
  PROVE  RecInv'
<1>1. MayWork(a, row)
  <2> SUFFICES ASSUME a \in Requests PROVE MayWork(a, row)
    BY DEF MayWork
  <2>1. Processing(row) /\ Processing(act[a]) /\ row.pc \notin {"done", "reread"}
    BY Counters DEF Open, Processing
  <2> QED BY <2>1, MayWorkOn
<1> QED BY <1>1, QuietStep

LEMMA KeepsReadsPools == ASSUME RecInv, NEW r \in Requests, ReadsPools(r) PROVE RecInv'
<1> DEFINE room == IF Home(r) = PoolProject /\ pool.status = "active" /\ ~pool.expired
                   THEN Cap - pool.matched ELSE 0
           pc == IF room > 0 THEN "fill" ELSE "project"
           row == [act[r] EXCEPT !.pc = pc, !.room = room]
<1>1. /\ act[r].pc = "pools" /\ failures' \in Nat /\ act' = [act EXCEPT ![r] = row]
      /\ UNCHANGED <<books, profile, pool, keys, queue, work, history>>
  BY DEF ReadsPools, RecInv, RecTypes
<1>2. r \in Actors /\ act[r] \in ActRows
  BY RowTypes DEF Actors, RecInv
<1>3. act[r].gave = 0
  BY <1>1, <1>2, NothingGiven
<1>4. room \in Int
  BY RecordingAssumption DEF RecInv, RecTypes, PoolRows
<1>5. pc \in {"fill", "project"} /\ (pc = "fill" => room > 0) /\ pc \in Pcs
  BY Counters
<1> HIDE DEF room, pc
<1>6. /\ row \in ActRows /\ row.pc = pc /\ row.room = room /\ row.pay = act[r].pay
      /\ row.key = act[r].key /\ row.gave = act[r].gave
  BY <1>2, <1>4, <1>5 DEF ActRows
<1> HIDE DEF row
<1>7. Open(act[r]) /\ Open(row) /\ RowOK(r, row)
  BY <1>1, <1>3, <1>5, <1>6, Counters DEF Open, RowOK
<1> QED BY <1>1, <1>2, <1>6, <1>7, KeepsOpen

LEMMA SmallerOf ==
  ASSUME NEW m \in Int, NEW n \in Int
  PROVE  Smaller(m, n) \in {m, n} /\ Smaller(m, n) <= m /\ Smaller(m, n) <= n
BY DEF Smaller

\* The fill: it holds the pool's row alone, and unless another took of the room that it
\* read, it stays within the cap.
LEMMA KeepsFillsPool == ASSUME RecInv, NEW r \in Requests, FillsPool(r) PROVE RecInv'
<1> DEFINE full == AmountOf[Pay(r)] * Multiplier
           gave == Smaller(full, act[r].room)
           row  == [act[r] EXCEPT !.pc = "project", !.gave = gave]
<1>1. /\ act[r].pc = "fill" /\ act' = [act EXCEPT ![r] = row]
      /\ history' = [history EXCEPT !.pool = @ \/ act[r].room # Cap - pool.matched]
      /\ UNCHANGED <<books, profile, pool, keys, queue, work, failures>>
      /\ ~\E q \in Actors \ {r} : PoolHolder(q)
  BY DEF FillsPool
<1>2. /\ r \in Actors /\ act[r] \in ActRows /\ act[r].room \in Int /\ AmountOf[Pay(r)] \in Nat
      /\ failures \in Nat
  BY RowTypes DEF Actors, RecInv, RecTypes
<1>3. full \in Nat
  BY <1>2, RecordingAssumption
<1>4. act[r].room > 0 /\ r \notin Handlers
  BY <1>1, <1>2, RecordingAssumption DEF RecInv, ActorsInv, RowOK
<1>5. gave \in Nat /\ gave <= act[r].room
  <2> HIDE DEF full
  <2> QED BY <1>2, <1>3, <1>4, SmallerOf
<1> HIDE DEF gave
<1>6. /\ row \in ActRows /\ row.pc = "project" /\ row.pay = act[r].pay
      /\ row.key = act[r].key /\ row.gave = gave
  <2>1. "project" \in Pcs
    BY Counters
  <2> QED BY <1>2, <1>5, <2>1 DEF ActRows
<1> HIDE DEF row
<1>7. RowOK(r, row) /\ Open(row) /\ Open(act[r])
  BY <1>1, <1>4, <1>6, Counters DEF RowOK, Open
<1>8. MayOpen(r, row)
  BY <1>2, <1>6, <1>7, MayGoOn DEF RecInv
<1>9. /\ history \in Histories /\ history' \in Histories /\ history'.counts = history.counts
      /\ history'.profiles = history.profiles /\ history'.expired = history.expired
      /\ history'.pool = (history.pool \/ act[r].room # Cap - pool.matched)
  BY <1>1 DEF RecInv, RecTypes, Histories
<1>10. MayGive(r, row)
  <2>1. ASSUME NEW q \in Requests \ {r} PROVE act[q].gave = 0
    <3>1. q \in Actors \ {r}
      BY DEF Actors
    <3>2. RowOK(q, act[q]) /\ act[q].gave \in Nat
      BY <3>1, RowTypes DEF RecInv, ActorsInv
    <3>3. act[q].gave > 0 => PoolHolder(q)
      BY <3>2, Counters DEF PoolHolder, RowOK
    <3> QED BY <1>1, <3>1, <3>2, <3>3
  <2>2. ASSUME ~history'.pool PROVE pool.matched + row.gave <= Cap
    <3>1. act[r].room = Cap - pool.matched /\ pool.matched \in Nat
      BY <1>9, <2>2 DEF RecInv, RecTypes, PoolRows
    <3> QED BY <1>2, <1>5, <1>6, <3>1, RecordingAssumption
  <2> QED BY <2>1, <2>2 DEF MayGive
<1>11. MayWork(r, row)
  <2>1. Processing(row) /\ Processing(act[r]) /\ row.pc \notin {"done", "reread"}
    BY <1>6, <1>7 DEF Processing
  <2> QED BY <1>6, <2>1, MayWorkOn
<1> QED BY <1>1, <1>2, <1>6, <1>8, <1>9, <1>10, <1>11, ActStep

LEMMA KeepsHandlerInserts ==
  ASSUME RecInv, NEW h \in Handlers, NEW p \in Payments, HandlerInserts(h, p)
  PROVE  RecInv'
<1> DEFINE pc == IF p \in indexed THEN "done" ELSE "project"
           row == [act[h] EXCEPT !.pay = p, !.pc = pc]
<1>1. /\ act[h].pc = "new" /\ act' = [act EXCEPT ![h] = row] /\ failures' \in Nat
      /\ \A g \in Handlers : Pay(g) = p => act[g].pc \notin InTransaction
      /\ UNCHANGED <<books, profile, pool, keys, queue, work, history>>
  BY DEF HandlerInserts, RecInv, RecTypes
<1>2. h \in Actors /\ act[h] \in ActRows /\ h \notin Requests /\ history \in Histories
  BY RowTypes, RecordingAssumption DEF Actors, RecInv, RecTypes
<1>3. pc \in Pcs /\ pc # "fill" /\ (pc \in InTransaction => p \notin indexed)
  BY Counters
<1> HIDE DEF pc
<1>4. act[h].gave = 0
  BY <1>1, <1>2, NothingGiven
<1>5. row \in ActRows /\ row.pc = pc /\ row.pay = p /\ row.gave = act[h].gave
  BY <1>2, <1>3 DEF ActRows
<1> HIDE DEF row
<1>6. MayOpen(h, row)
  <2>1. RowOK(h, row)
    BY <1>3, <1>4, <1>5 DEF RowOK
  <2>2. Open(row) => row.pay \notin Written(h)
    BY <1>2, <1>3, <1>5 DEF Open, Written
  <2>3. ASSUME NEW b \in Actors \ {h}, SameKind(h, b), Open(act[b]) PROVE act[b].pay # row.pay
    <3>1. b \in Handlers
      BY <1>2, <2>3 DEF SameKind, Actors
    <3> QED BY <1>1, <1>5, <2>3, <3>1 DEF Open, Pay
  <2> QED BY <2>1, <2>2, <2>3 DEF MayOpen
<1>7. MayGive(h, row) /\ MayWork(h, row)
  BY <1>2 DEF MayGive, MayWork
<1> QED BY <1>1, <1>2, <1>5, <1>6, <1>7, ActStep

LEMMA KeepsStartsUpdate == ASSUME RecInv, NEW a \in Actors, StartsUpdate(a) PROVE RecInv'
<1> DEFINE seen == DonorsOf(Home(a))
           row == [act[a] EXCEPT !.pc = "raise", !.seen = seen]
<1>1. /\ act[a].pc = "project" /\ act' = [act EXCEPT ![a] = row] /\ failures' \in Nat
      /\ UNCHANGED <<books, profile, pool, keys, queue, work, history>>
  BY DEF StartsUpdate, RecInv, RecTypes
<1>2. act[a] \in ActRows /\ seen \in SUBSET (Donors \cup {Matcher}) /\ "raise" \in Pcs
  BY RowTypes, DonorsType, Counters DEF RecInv
<1> HIDE DEF seen
<1>3. /\ row \in ActRows /\ row.pc = "raise" /\ row.pay = act[a].pay
      /\ row.key = act[a].key /\ row.gave = act[a].gave
  BY <1>2 DEF ActRows
<1> HIDE DEF row
<1>4. Open(act[a]) /\ Open(row) /\ RowOK(a, row)
  BY <1>1, <1>3, Counters DEF Open, RowOK, RecInv, ActorsInv
<1> QED BY <1>1, <1>3, <1>4, KeepsOpen

LEMMA KeepsReadsProfile == ASSUME RecInv, NEW h \in Handlers, ReadsProfile(h) PROVE RecInv'
<1> DEFINE n == profile[DonorOf[Pay(h)]]
           row == [act[h] EXCEPT !.pc = "profiled", !.prior = n]
<1>1. /\ act[h].pc = "raise" /\ act' = [act EXCEPT ![h] = row] /\ failures' \in Nat
      /\ UNCHANGED <<books, profile, pool, keys, queue, work, history>>
  BY DEF ReadsProfile, RecInv, RecTypes
<1>2. h \in Actors
  BY DEF Actors
<1>3. act[h] \in ActRows /\ n \in Nat /\ "profiled" \in Pcs
  BY <1>2, RowTypes, Counters DEF RecInv, RecTypes
<1> HIDE DEF n
<1>4. /\ row \in ActRows /\ row.pc = "profiled" /\ row.pay = act[h].pay
      /\ row.key = act[h].key /\ row.gave = act[h].gave
  BY <1>3 DEF ActRows
<1> HIDE DEF row
<1>5. Open(act[h]) /\ Open(row) /\ RowOK(h, row)
  BY <1>1, <1>2, <1>4, Counters DEF Open, RowOK, RecInv, ActorsInv
<1> QED BY <1>1, <1>2, <1>4, <1>5, KeepsOpen

\* An actor that starts over, or is gone.
LEMMA KeepsFails == ASSUME RecInv, NEW a \in Actors, Fails(a) PROVE RecInv'
<1>1. /\ Open(act[a]) /\ failures' \in Nat
      /\ UNCHANGED <<books, profile, pool, keys, queue, work, history>>
  BY DEF Fails, RecInv, RecTypes, Open
<1>2. CASE a \in Handlers
  <2>1. act' = [act EXCEPT ![a] = Fresh]
    BY <1>2 DEF Fails
  <2>2. ~Open(Fresh) /\ RowOK(a, Fresh) /\ a \notin Requests
    BY <1>2, FreshType, Counters, RecordingAssumption DEF Open, RowOK
  <2>3. MayWork(a, Fresh)
    BY <2>2 DEF MayWork
  <2> QED BY <1>1, <2>1, <2>2, <2>3, FreshType, QuietStep
<1>3. CASE a \notin Handlers
  <2> DEFINE row == [Fresh EXCEPT !.pc = "answer", !.got = "error", !.key = KeyOf(a),
                                  !.pay = Pay(a)]
  <2>1. act' = [act EXCEPT ![a] = row]
    BY <1>3 DEF Fails
  <2>2. "answer" \in Pcs /\ "error" \in Gots /\ KeyOf(a) = act[a].key /\ act[a] \in ActRows
        /\ KeyOf(a) \in Keys \cup {"none"} /\ Pay(a) \in Payments /\ Processing(act[a])
    BY <1>1, Counters, RowTypes DEF Gots, Finals, RecInv, KeyOf, Processing
  <2>3. row \in ActRows /\ row.pc = "answer" /\ row.key = act[a].key /\ row.gave = 0
    BY <2>2, FreshType DEF ActRows
  <2> HIDE DEF row
  <2>4. ~Open(row) /\ RowOK(a, row)
    BY <2>3, Counters DEF Open, RowOK
  <2>5. MayWork(a, row)
    <3>1. a \in Requests
      BY <1>3 DEF Actors
    <3> QED BY <2>2, <2>3, <3>1, MayWorkOn
  <2> QED BY <1>1, <2>1, <2>3, <2>4, <2>5, QuietStep
<1> QED BY <1>2, <1>3

LEMMA KeepsAbandoned == ASSUME RecInv, NEW r \in Requests, Abandoned(r) PROVE RecInv'
<1> DEFINE row == [Fresh EXCEPT !.pc = "done", !.got = "lost"]
<1>1. /\ act' = [act EXCEPT ![r] = row] /\ failures' \in Nat /\ r \in Actors
      /\ UNCHANGED <<books, profile, pool, keys, queue, work, history>>
  BY DEF Abandoned, RecInv, RecTypes, Actors
<1>2. row \in ActRows /\ row.pc = "done" /\ row.got = "lost" /\ row.gave = 0
  <2>1. "done" \in Pcs /\ "lost" \in Gots
    BY Counters DEF Gots
  <2> QED BY <2>1, FreshType DEF ActRows
<1> HIDE DEF row
<1>3. ~Open(row) /\ RowOK(r, row) /\ ~Processing(row) /\ row.got \notin Finals
  BY <1>2, Counters DEF Open, RowOK, Processing, Finals
<1>4. MayWork(r, row)
  BY <1>2, <1>3 DEF MayWork, KeyRow
<1> QED BY <1>1, <1>2, <1>3, <1>4, QuietStep

-------------------------------------------------------------------------------
(* The keys.                                                               *)

\* A step that writes one key and the row of the request that has it, and that leaves it
\* live with that request its only one.
LEMMA KeyWritten ==
  ASSUME RecTypes, KeyInv, NEW r \in Requests, NEW k \in Keys, NEW row,
         act' = [act EXCEPT ![r] = row], keys' \in [Keys -> KeyRows],
         \A j \in Keys \ {k} : keys'[j] = keys[j],
         keys'[k].state = "expired" => keys[k].state = "expired",
         history'.expired = history.expired, row.key = k,
         row.pc \notin {"lookup", "claim", "reread"},
         Live(k) => keys'[k].state \in {"processing", "final"},
         keys[k].state = "final" => keys'[k].state = "final",
         k \notin history.expired =>
           /\ Processing(row) => keys'[k].state \in {"processing", "final"}
           /\ row.pc = "done" /\ row.got \in Finals => keys'[k].state = "final"
           /\ \A q \in Requests \ {r} : act[q].key = k => ~Processing(act[q])
  PROVE  KeyInv'
<1>1. act'[r] = row /\ \A q \in Requests \ {r} : act'[q] = act[q]
  BY DEF RecTypes, Actors
<1>2. \A j \in Keys : keys'[j].state = "expired" => j \in history'.expired
  BY DEF KeyInv
<1>3. KeyRow(row)'
  BY DEF KeyRow, Processing, Open, Live
<1>4. ASSUME NEW q \in Requests \ {r} PROVE KeyRow(act[q])'
  <2>1. KeyRow(act[q])
    BY DEF KeyInv
  <2>2. CASE act[q].key # k
    BY <1>1, <2>1, <2>2 DEF KeyRow, Processing, Open, Live
  <2>3. CASE act[q].key = k
    BY <1>1, <2>1, <2>3 DEF KeyRow, Processing, Open, Live
  <2> QED BY <2>2, <2>3
<1>5. \A q \in Requests : KeyRow(act[q])'
  <2> TAKE q \in Requests
  <2>1. CASE q = r
    BY <1>1, <1>3, <2>1 DEF KeyRow, Processing, Open, Live
  <2>2. CASE q # r
    BY <1>4, <2>2
  <2> QED BY <2>1, <2>2
<1>6. ASSUME NEW p \in Requests, NEW q \in Requests, Processing(act'[p]), Processing(act'[q]),
             act'[p].key = act'[q].key, act'[q].key \notin history'.expired
      PROVE  p = q
  <2>1. CASE p = r /\ q # r
    BY <1>1, <1>6, <2>1
  <2>2. CASE q = r /\ p # r
    BY <1>1, <1>6, <2>2
  <2>3. CASE q # r /\ p # r
    BY <1>1, <1>6, <2>3 DEF KeyInv
  <2> QED BY <2>1, <2>2, <2>3
<1> QED BY <1>2, <1>5, <1>6, Zenon DEF KeyInv, Processing, Open

\* The insert wins the key, which nobody has.
LEMMA KeepsClaim ==
  ASSUME RecInv, NEW r \in Requests, ClaimsKey(r), keys[KeyOf(r)].state = "absent"
  PROVE  RecInv'
<1> DEFINE k == KeyOf(r)
           new == [state |-> "processing", of |-> Pay(r)]
           row == [act[r] EXCEPT !.pc = "dedup"]
<1>1. /\ act[r].pc = "claim" /\ act' = [act EXCEPT ![r] = row]
      /\ keys' = [keys EXCEPT ![k] = new]
      /\ UNCHANGED <<books, profile, pool, queue, work, history, failures>>
  BY DEF ClaimsKey, Goto
<1>2. /\ r \in Actors /\ act[r] \in ActRows /\ Pay(r) \in Payments /\ failures \in Nat
      /\ history \in Histories /\ keys \in [Keys -> KeyRows] /\ RecTypes /\ KeyInv
      /\ ActorsInv /\ PoolInv
  BY RowTypes DEF Actors, RecInv, RecTypes, BooksInv
<1>3. /\ row \in ActRows /\ row.pc = "dedup" /\ row.key = k /\ row.gave = act[r].gave
  BY <1>2, Moved, Counters DEF KeyOf
<1>4. new \in KeyRows /\ new.state = "processing"
  BY <1>2 DEF KeyRows
<1>5. k \in Keys
  BY <1>1, <1>2 DEF KeyInv, KeyRow, KeyOf
<1>6. act[r].gave = 0
  BY <1>1, <1>2, NothingGiven
<1>7. keys[k].state = "absent"
  OBVIOUS
<1> HIDE DEF row, new, k
<1>8. ~Open(row) /\ RowOK(r, row)
  BY <1>3, <1>6, Counters DEF Open, RowOK
<1>9. MayOpen(r, row) /\ MayGive(r, row)
  BY <1>3, <1>6, <1>8 DEF MayOpen, MayGive
<1>10. /\ keys' \in [Keys -> KeyRows] /\ keys'[k] = new
       /\ \A j \in Keys \ {k} : keys'[j] = keys[j]
  BY <1>1, <1>2, <1>4, <1>5
<1>11. RecTypes' /\ ActorsInv' /\ BooksInv'
  BY <1>1, <1>2, <1>3, <1>9, <1>10, ActBooks
<1>12. ASSUME k \notin history.expired, NEW q \in Requests \ {r}, act[q].key = k
       PROVE  ~Processing(act[q])
  BY <1>2, <1>5, <1>7, <1>12 DEF KeyInv, KeyRow, Live
<1>13. KeyInv'
  <2>1. ~Live(k)
    BY <1>7 DEF Live
  <2> QED BY <1>1, <1>2, <1>3, <1>4, <1>5, <1>7, <1>10, <1>12, <2>1, KeyWritten
<1> QED BY <1>11, <1>13 DEF RecInv

LEMMA KeepsClaims == ASSUME RecInv, NEW r \in Requests, ClaimsKey(r) PROVE RecInv'
BY KeepsClaim, KeepsConflict

\* The response is stored, then sent.
LEMMA KeepsAnswers == ASSUME RecInv, NEW r \in Requests, Answers(r) PROVE RecInv'
<1> DEFINE k == KeyOf(r)
           s == IF keys[k].state = "processing" THEN "final" ELSE keys[k].state
           new == [keys[k] EXCEPT !.state = s]
           row == [act[r] EXCEPT !.pc = "done"]
<1>1. /\ act[r].pc = "answer" /\ act' = [act EXCEPT ![r] = row]
      /\ keys' = [keys EXCEPT ![k] = new]
      /\ UNCHANGED <<books, profile, pool, queue, work, history, failures>>
  BY DEF Answers, Goto
<1>2. /\ r \in Actors /\ act[r] \in ActRows /\ Pay(r) \in Payments /\ failures \in Nat
      /\ history \in Histories /\ keys \in [Keys -> KeyRows] /\ RecTypes /\ KeyInv
      /\ ActorsInv /\ PoolInv
  BY RowTypes DEF Actors, RecInv, RecTypes, BooksInv
<1>3. /\ row \in ActRows /\ row.pc = "done" /\ row.key = k /\ row.gave = act[r].gave
      /\ row.got = act[r].got
  BY <1>2, Moved, Counters DEF KeyOf
<1>4. Processing(act[r])
  BY <1>1 DEF Processing
<1>5. k \in Keys
  BY <1>2, <1>4 DEF KeyInv, KeyRow, KeyOf
<1>6. act[r].gave = 0
  BY <1>1, <1>2, NothingGiven
<1>7. s \in {"absent", "processing", "final", "expired"} /\ new \in KeyRows /\ new.state = s
  BY <1>2, <1>5 DEF KeyRows
<1>8. /\ s = "expired" => keys[k].state = "expired"
      /\ Live(k) => s = "final"
      /\ keys[k].state = "final" => s = "final"
  BY DEF Live
<1>9. act[r].key = k
  BY DEF KeyOf
<1> HIDE DEF row, s, new, k
<1>10. ~Open(row) /\ RowOK(r, row)
  BY <1>3, <1>6, Counters DEF Open, RowOK
<1>11. MayOpen(r, row) /\ MayGive(r, row)
  BY <1>3, <1>6, <1>10 DEF MayOpen, MayGive
<1>12. /\ keys' \in [Keys -> KeyRows] /\ keys'[k] = new
       /\ \A j \in Keys \ {k} : keys'[j] = keys[j]
  BY <1>1, <1>2, <1>5, <1>7
<1>13. RecTypes' /\ ActorsInv' /\ BooksInv'
  BY <1>1, <1>2, <1>3, <1>11, <1>12, ActBooks
<1>14. ASSUME k \notin history.expired PROVE Live(k)
  BY <1>2, <1>4, <1>5, <1>9, <1>14 DEF KeyInv, KeyRow
<1>15. ASSUME k \notin history.expired, NEW q \in Requests \ {r}, act[q].key = k
       PROVE  ~Processing(act[q])
  BY <1>2, <1>4, <1>9, <1>15 DEF KeyInv
<1>16. KeyInv'
  BY <1>1, <1>2, <1>3, <1>5, <1>7, <1>8, <1>12, <1>14, <1>15, KeyWritten
<1> QED BY <1>13, <1>16 DEF RecInv

\* A key expires, or its row is deleted: nothing is said of it any more.
LEMMA KeyForgotten ==
  ASSUME RecInv, NEW k \in Keys, NEW new \in KeyRows, keys' = [keys EXCEPT ![k] = new],
         history' \in Histories, history'.pool = history.pool,
         history'.counts = history.counts, history'.profiles = history.profiles,
         history'.expired = history.expired \cup {k},
         UNCHANGED <<books, profile, pool, act, queue, work, failures>>
  PROVE  RecInv'
<1>1. /\ RecTypes /\ KeyInv /\ keys \in [Keys -> KeyRows]
      /\ UNCHANGED <<direct, indexed, matched, raised, donorCount>>
  BY DEF RecInv, RecTypes, books
<1>2. keys' \in [Keys -> KeyRows] /\ \A j \in Keys \ {k} : keys'[j] = keys[j]
  BY <1>1
<1>3. RecTypes'
  BY <1>1, <1>2 DEF RecTypes
<1>4. ActorsInv'
  BY <1>1, Zenon DEF RecInv, ActorsInv, RowOK, Open, SameKind, Written
<1>5. PoolInv'
  BY <1>1, Zenon DEF RecInv, BooksInv, PoolInv
<1>6. TotalsAddUp' /\ DonorCountFresh' /\ ProfileIsTotal'
  BY <1>1, BooksUnchanged DEF RecInv, BooksInv
<1>7. \A j \in Keys : keys'[j].state = "expired" => j \in history'.expired
  BY <1>1, <1>2 DEF KeyInv
<1>8. ASSUME NEW r \in Requests PROVE KeyRow(act[r])'
  <2>1. KeyRow(act[r])
    BY <1>1 DEF KeyInv
  <2> QED BY <1>2, <2>1 DEF KeyRow, Processing, Open, Live
<1>9. KeyInv'
  BY <1>1, <1>7, <1>8 DEF KeyInv, Processing, Open
<1> QED BY <1>3, <1>4, <1>5, <1>6, <1>9 DEF RecInv, BooksInv

LEMMA KeepsExpires == ASSUME RecInv, NEW k \in Keys, KeyExpires(k) PROVE RecInv'
<1> DEFINE new == [keys[k] EXCEPT !.state = "expired"]
<1>1. /\ keys' = [keys EXCEPT ![k] = new]
      /\ history' = [history EXCEPT !.expired = @ \cup {k}]
      /\ UNCHANGED <<books, profile, pool, act, queue, work, failures>>
  BY DEF KeyExpires
<1>2. new \in KeyRows
  BY DEF RecInv, RecTypes, KeyRows
<1>3. /\ history' \in Histories /\ history'.pool = history.pool
      /\ history'.counts = history.counts /\ history'.profiles = history.profiles
      /\ history'.expired = history.expired \cup {k}
  BY <1>1 DEF RecInv, RecTypes, Histories
<1> HIDE DEF new
<1> QED BY <1>1, <1>2, <1>3, KeyForgotten

LEMMA KeepsCleanup == ASSUME RecInv, NEW k \in Keys, RunCleanup(k) PROVE RecInv'
<1>1. /\ keys[k].state = "expired" /\ keys' = [keys EXCEPT ![k] = NoKey]
      /\ UNCHANGED <<books, profile, pool, act, queue, work, history, failures>>
  BY DEF RunCleanup
<1>2. NoKey \in KeyRows
  BY FreshType DEF NoKey, KeyRows
<1>3. k \in history.expired
  BY <1>1 DEF RecInv, KeyInv
<1>4. history \in Histories /\ history.expired = history.expired \cup {k}
  BY <1>3 DEF RecInv, RecTypes
<1> QED BY <1>1, <1>2, <1>4, KeyForgotten

-------------------------------------------------------------------------------
(* The commits.                                                            *)

\* What the commit of either transaction does to the rows of the project and to the
\* history of the counts.
LEMMA ProjectBooked ==
  ASSUME RecTypes, NEW a \in Actors, BooksProject(a), OwnDonors(a) \in SUBSET (Donors \cup {Matcher}),
         history'.counts = StaleCount(a),
         DonorCountFresh,
         \A j : DonorsOf(j)' = DonorsOf(j) \cup (IF j = Home(a) THEN OwnDonors(a) ELSE {})
  PROVE  /\ raised' \in [Projects -> Nat] /\ donorCount' \in [Projects -> Nat]
         /\ raised'[Home(a)] = raised[Home(a)] + AmountOf[Pay(a)]
         /\ \A j \in Projects : j # Home(a) => raised'[j] = raised[j]
         /\ history'.counts \in SUBSET Projects /\ DonorCountFresh'
<1> DEFINE home == Home(a)
           all  == act[a].seen \cup OwnDonors(a)
<1>1. home \in Projects /\ AmountOf[Pay(a)] \in Nat /\ act[a].seen \in SUBSET (Donors \cup {Matcher})
  BY RowTypes
<1>2. /\ raised' = [raised EXCEPT ![home] = @ + AmountOf[Pay(a)]]
      /\ donorCount' = [donorCount EXCEPT ![home] = Cardinality(all)]
  BY DEF BooksProject
<1>3. Cardinality(all) \in Nat
  BY <1>1, RecordingSets
<1>4. raised \in [Projects -> Nat] /\ donorCount \in [Projects -> Nat]
      /\ history.counts \in SUBSET Projects
  BY DEF RecTypes, Histories
<1>5. history'.counts = IF DonorsOf(home) = act[a].seen THEN history.counts \ {home}
                        ELSE history.counts \cup {home}
  BY DEF StaleCount
<1>6. ASSUME NEW j, j = home, DonorsOf(j) = act[a].seen PROVE DonorsOf(j)' = all
  BY <1>6
<1>7. ASSUME NEW j, j # home PROVE DonorsOf(j)' = DonorsOf(j)
  <2>1. DonorsOf(j)' = DonorsOf(j) \cup {}
    BY <1>7
  <2> QED BY <2>1
<1> HIDE DEF all, home
<1>8. /\ raised' \in [Projects -> Nat] /\ donorCount' \in [Projects -> Nat]
      /\ raised'[home] = raised[home] + AmountOf[Pay(a)]
      /\ \A j \in Projects : j # home => raised'[j] = raised[j]
      /\ donorCount'[home] = Cardinality(all)
      /\ \A j \in Projects : j # home => donorCount'[j] = donorCount[j]
  BY <1>1, <1>2, <1>3, <1>4
<1>9. DonorCountFresh'
  <2> SUFFICES ASSUME NEW j \in Projects, j \notin history'.counts
               PROVE  donorCount'[j] = Cardinality(DonorsOf(j)')
    BY Zenon DEF DonorCountFresh
  <2>1. CASE j = home
    <3>1. DonorsOf(j) = act[a].seen
      BY <1>5, <2>1
    <3>2. DonorsOf(j)' = all
      BY <1>6, <2>1, <3>1
    <3> QED BY <1>8, <2>1, <3>2, Zenon
  <2>2. CASE j # home
    <3>1. j \notin history.counts
      BY <1>5, <2>2
    <3>2. donorCount[j] = Cardinality(DonorsOf(j))
      BY <3>1 DEF DonorCountFresh
    <3> QED BY <1>7, <1>8, <2>2, <3>2, Zenon
  <2> QED BY <2>1, <2>2
<1> QED BY <1>1, <1>4, <1>5, <1>8, <1>9 DEF home

\* The totals of the rows of payments, with one payment more on either side.
LEMMA TotalsBooked ==
  ASSUME RecTypes, TotalsAddUp, NEW p \in Payments,
         raised'[ProjectOf[p]] = raised[ProjectOf[p]] + AmountOf[p],
         \A j \in Projects : j # ProjectOf[p] => raised'[j] = raised[j],
         \/ p \notin direct /\ direct' = direct \cup {p} /\ indexed' = indexed
         \/ p \notin indexed /\ indexed' = indexed \cup {p} /\ direct' = direct,
         pool'.matched = SumFunctionOnSet(matched', Payments)
  PROVE  /\ TotalsAddUp'
         /\ \A d : Total(d)' = Total(d) + (IF DonorOf[p] = d THEN AmountOf[p] ELSE 0)
<1> DEFINE in(j) == Marked(ProjectOf, j, direct)
           ix(j) == Marked(ProjectOf, j, indexed)
           dn(d) == Marked(DonorOf, d, direct)
           dx(d) == Marked(DonorOf, d, indexed)
           in1(j) == Marked(ProjectOf, j, direct')
           ix1(j) == Marked(ProjectOf, j, indexed')
           dn1(d) == Marked(DonorOf, d, direct')
           dx1(d) == Marked(DonorOf, d, indexed')
<1>1. direct \in SUBSET Payments /\ indexed \in SUBSET Payments /\ raised \in [Projects -> Nat]
  BY DEF RecTypes
<1>2. AmountOf[p] \in Nat
  BY RecordingAssumption
<1>3. ASSUME NEW S \in SUBSET Payments PROVE Sum(S) \in Nat
  BY RecordingSets, RecordingAssumption, SumNat DEF Sum
<1>11. ASSUME NEW S \in SUBSET Payments, p \notin S, NEW T, T = S \cup {p}, NEW mark
       PROVE  Sum(Marked(ProjectOf, mark, T))
                = Sum(Marked(ProjectOf, mark, S)) + (IF ProjectOf[p] = mark THEN AmountOf[p] ELSE 0)
  <2>1. Sum(Marked(ProjectOf, mark, S)) \in Nat
    BY <1>11, SumGrows, Zenon
  <2>2. CASE ProjectOf[p] = mark
    <3>1. Sum(Marked(ProjectOf, mark, T)) = Sum(Marked(ProjectOf, mark, S)) + AmountOf[p]
      BY <1>11, <2>2, SumGrows
    <3> QED BY <2>2, <3>1
  <2>3. CASE ProjectOf[p] # mark
    <3>1. Sum(Marked(ProjectOf, mark, T)) = Sum(Marked(ProjectOf, mark, S))
      BY <1>11, <2>3, SumGrows
    <3> QED BY <2>1, <2>3, <3>1
  <2> QED BY <2>2, <2>3
<1>12. ASSUME NEW S \in SUBSET Payments, p \notin S, NEW T, T = S \cup {p}, NEW mark
       PROVE  Sum(Marked(DonorOf, mark, T))
                = Sum(Marked(DonorOf, mark, S)) + (IF DonorOf[p] = mark THEN AmountOf[p] ELSE 0)
  <2>1. Sum(Marked(DonorOf, mark, S)) \in Nat
    BY <1>12, SumGrows, Zenon
  <2>2. CASE DonorOf[p] = mark
    <3>1. Sum(Marked(DonorOf, mark, T)) = Sum(Marked(DonorOf, mark, S)) + AmountOf[p]
      BY <1>12, <2>2, SumGrows
    <3> QED BY <2>2, <3>1
  <2>3. CASE DonorOf[p] # mark
    <3>1. Sum(Marked(DonorOf, mark, T)) = Sum(Marked(DonorOf, mark, S))
      BY <1>12, <2>3, SumGrows
    <3> QED BY <2>1, <2>3, <3>1
  <2> QED BY <2>2, <2>3
<1>4. ASSUME NEW j
      PROVE  /\ Sum(in(j)) \in Nat /\ Sum(ix(j)) \in Nat
             /\ Sum(in1(j)) + Sum(ix1(j))
                  = Sum(in(j)) + Sum(ix(j)) + (IF ProjectOf[p] = j THEN AmountOf[p] ELSE 0)
  <2>1. Sum(in(j)) \in Nat /\ Sum(ix(j)) \in Nat
    BY <1>1, <1>3 DEF Marked
  <2>2. CASE p \notin direct /\ direct' = direct \cup {p} /\ indexed' = indexed
    <3>1. Sum(in1(j)) = Sum(in(j)) + (IF ProjectOf[p] = j THEN AmountOf[p] ELSE 0)
      BY <1>1, <1>11, <2>2
    <3>2. ix1(j) = ix(j)
      BY <2>2
    <3> HIDE DEF in, ix, in1, ix1
    <3> QED BY <1>2, <2>1, <3>1, <3>2
  <2>3. CASE p \notin indexed /\ indexed' = indexed \cup {p} /\ direct' = direct
    <3>1. Sum(ix1(j)) = Sum(ix(j)) + (IF ProjectOf[p] = j THEN AmountOf[p] ELSE 0)
      BY <1>1, <1>11, <2>3
    <3>2. in1(j) = in(j)
      BY <2>3
    <3> HIDE DEF in, ix, in1, ix1
    <3> QED BY <1>2, <2>1, <3>1, <3>2
  <2> QED BY <2>1, <2>2, <2>3
<1>5. ASSUME NEW d
      PROVE  Sum(dn1(d)) + Sum(dx1(d))
               = Sum(dn(d)) + Sum(dx(d)) + (IF DonorOf[p] = d THEN AmountOf[p] ELSE 0)
  <2>1. Sum(dn(d)) \in Nat /\ Sum(dx(d)) \in Nat
    BY <1>1, <1>3 DEF Marked
  <2>2. CASE p \notin direct /\ direct' = direct \cup {p} /\ indexed' = indexed
    <3>1. Sum(dn1(d)) = Sum(dn(d)) + (IF DonorOf[p] = d THEN AmountOf[p] ELSE 0)
      BY <1>1, <1>12, <2>2
    <3>2. dx1(d) = dx(d)
      BY <2>2
    <3> HIDE DEF dn, dx, dn1, dx1
    <3> QED BY <1>2, <2>1, <3>1, <3>2
  <2>3. CASE p \notin indexed /\ indexed' = indexed \cup {p} /\ direct' = direct
    <3>1. Sum(dx1(d)) = Sum(dx(d)) + (IF DonorOf[p] = d THEN AmountOf[p] ELSE 0)
      BY <1>1, <1>12, <2>3
    <3>2. dn1(d) = dn(d)
      BY <2>3
    <3> HIDE DEF dn, dx, dn1, dx1
    <3> QED BY <1>2, <2>1, <3>1, <3>2
  <2> QED BY <2>2, <2>3
<1>6. \A d : Total(d)' = Total(d) + (IF DonorOf[p] = d THEN AmountOf[p] ELSE 0)
  <2> TAKE d
  <2>1. Total(d)' = Sum(dn1(d)) + Sum(dx1(d)) /\ Total(d) = Sum(dn(d)) + Sum(dx(d))
    BY DEF Total, Sum, Marked
  <2> HIDE DEF dn, dx, dn1, dx1
  <2> QED BY <1>5, <2>1
<1>7. ASSUME NEW j \in Projects PROVE raised'[j] = Sum(in1(j)) + Sum(ix1(j))
  <2>1. raised[j] = Sum(in(j)) + Sum(ix(j))
    BY DEF TotalsAddUp, Marked
  <2>2. raised'[j] = raised[j] + (IF ProjectOf[p] = j THEN AmountOf[p] ELSE 0)
    BY <1>1, <1>2
  <2> HIDE DEF in, ix, in1, ix1
  <2> QED BY <1>4, <2>1, <2>2
<1>8. TotalsAddUp'
  BY <1>7 DEF TotalsAddUp, Sum, Marked
<1> QED BY <1>6, <1>8

\* The actors after a commit: the payment is inserted, and no other of the kind has it open.
LEMMA Committed ==
  ASSUME RecTypes, ActorsInv, NEW a \in Actors, NEW row \in ActRows,
         act' = [act EXCEPT ![a] = row], Open(act[a]), ~Open(row), RowOK(a, row), row.gave = 0,
         a \in Requests => direct' = direct \cup {Pay(a)} /\ indexed' = indexed,
         a \notin Requests => indexed' = indexed \cup {Pay(a)} /\ direct' = direct
  PROVE  ActorsInv'
<1>1. act'[a] = row /\ \A b \in Actors \ {a} : act'[b] = act[b]
  BY DEF RecTypes
<1>2. ASSUME NEW b \in Actors
      PROVE  RowOK(b, act'[b]) /\ (Open(act'[b]) => act'[b].pay \notin Written(b)')
  <2>1. CASE b = a
    BY <1>1, <2>1
  <2>2. CASE b # a
    <3>1. act'[b] = act[b] /\ RowOK(b, act[b]) /\ (Open(act[b]) => act[b].pay \notin Written(b))
      BY <1>1, <2>2 DEF ActorsInv
    <3>2. ASSUME Open(act[b]) PROVE act[b].pay \notin Written(b)'
      <4>1. SameKind(a, b) => act[b].pay # Pay(a)
        BY <2>2, <3>2 DEF ActorsInv, Pay
      <4> QED BY <3>1, <3>2, <4>1 DEF Written, SameKind
    <3> QED BY <3>1, <3>2
  <2> QED BY <2>1, <2>2
<1>3. ASSUME NEW b \in Actors, NEW c \in Actors, b # c, SameKind(b, c), Open(act'[b]),
             Open(act'[c])
      PROVE  act'[b].pay # act'[c].pay
  BY <1>1, <1>3 DEF ActorsInv
<1>4. ASSUME NEW q \in Requests, NEW r \in Requests, act'[q].gave > 0, act'[r].gave > 0
      PROVE  q = r
  <2>1. q \in Actors /\ r \in Actors
    BY DEF Actors
  <2>2. q # a /\ r # a
    BY <1>1, <1>4
  <2> QED BY <1>1, <1>4, <2>1, <2>2 DEF ActorsInv
<1> QED BY <1>2, <1>3, <1>4, Zenon DEF ActorsInv, RowOK, Open, SameKind

\* A profile job is enqueued, as the worker's capacity allows, or the failure is recorded.
LEMMA ProfileQueued ==
  ASSUME RecTypes, NEW d \in Donors, NEW counts,
         \/ /\ queue' = [queue EXCEPT ![d] = Smaller(@ + 2, Cardinality(Jobs))]
            /\ history' = [history EXCEPT !.counts = counts]
            /\ failures' = failures
         \/ /\ failures > 0 /\ failures' = failures - 1
            /\ history' = [history EXCEPT !.counts = counts, !.profiles = @ \cup {d}]
            /\ queue' = queue
  PROVE  /\ queue' \in [Donors -> 0 .. Cardinality(Jobs)] /\ failures' \in Nat
         /\ history'.counts = counts /\ history'.pool = history.pool
         /\ history'.expired = history.expired
         /\ history'.counts \in SUBSET Projects => history' \in Histories
         /\ \A e \in Donors \ history'.profiles :
              queue'[e] = 0 => e # d /\ e \notin history.profiles /\ queue[e] = 0
<1> DEFINE most == Cardinality(Jobs)
<1>1. most \in Nat /\ most > 0
  BY RecordingAssumption, FS_CardinalityType, FS_EmptySet
<1>2. queue \in [Donors -> 0 .. most] /\ failures \in Nat /\ history \in Histories
  BY DEF RecTypes
<1>3. CASE /\ queue' = [queue EXCEPT ![d] = Smaller(@ + 2, Cardinality(Jobs))]
           /\ history' = [history EXCEPT !.counts = counts]
           /\ failures' = failures
  <2> HIDE DEF most
  <2>1. queue[d] \in Nat /\ queue[d] <= most
    BY <1>1, <1>2
  <2> DEFINE n == Smaller(queue[d] + 2, most)
  <2>2. n \in 1 .. most
    BY <1>1, <2>1 DEF Smaller
  <2>3. queue' = [queue EXCEPT ![d] = n]
    BY <1>3 DEF most
  <2> HIDE DEF n
  <2>4. queue' \in [Donors -> 0 .. most] /\ queue'[d] # 0
        /\ \A e \in Donors : e # d => queue'[e] = queue[e]
    BY <1>1, <1>2, <2>2, <2>3
  <2>5. /\ history'.counts = counts /\ history'.pool = history.pool
        /\ history'.expired = history.expired /\ history'.profiles = history.profiles
        /\ history'.counts \in SUBSET Projects => history' \in Histories
    BY <1>2, <1>3 DEF Histories
  <2> QED BY <1>2, <1>3, <2>4, <2>5 DEF most
<1>4. CASE /\ failures > 0 /\ failures' = failures - 1
           /\ history' = [history EXCEPT !.counts = counts, !.profiles = @ \cup {d}]
           /\ queue' = queue
  <2>1. /\ history'.counts = counts /\ history'.pool = history.pool
        /\ history'.expired = history.expired
        /\ history'.profiles = history.profiles \cup {d}
        /\ history'.counts \in SUBSET Projects => history' \in Histories
    BY <1>2, <1>4 DEF Histories
  <2>2. failures' \in Nat
    BY <1>2, <1>4
  <2> QED BY <1>2, <1>4, <2>1, <2>2 DEF most
<1> QED BY <1>3, <1>4

\* COMMIT of recordDonation.
LEMMA KeepsRequestCommits == ASSUME RecInv, NEW r \in Requests, RequestCommits(r) PROVE RecInv'
<1> DEFINE p    == Pay(r)
           gave == act[r].gave
           d    == DonorOf[p]
           row  == [Fresh EXCEPT !.pc = "answer", !.got = "created", !.key = KeyOf(r), !.pay = p]
<1>1. /\ act[r].pc = "raise" /\ act' = [act EXCEPT ![r] = row] /\ BooksProject(r)
      /\ direct' = direct \cup {p} /\ indexed' = indexed
      /\ matched' = [matched EXCEPT ![p] = @ + gave]
      /\ pool' = [pool EXCEPT !.matched = @ + gave]
      /\ UNCHANGED <<profile, keys, work>>
  BY DEF RequestCommits
<1>2. \/ /\ queue' = [queue EXCEPT ![d] = Smaller(@ + 2, Cardinality(Jobs))]
         /\ history' = [history EXCEPT !.counts = StaleCount(r)]
         /\ failures' = failures
      \/ /\ failures > 0 /\ failures' = failures - 1
         /\ history' = [history EXCEPT !.counts = StaleCount(r), !.profiles = @ \cup {d}]
         /\ queue' = queue
  BY DEF RequestCommits
<1>3. /\ r \in Actors /\ act[r] \in ActRows /\ p \in Payments /\ d \in Donors
      /\ gave \in Nat /\ KeyOf(r) \in Keys \cup {"none"} /\ act \in [Actors -> ActRows]
      /\ RecTypes /\ ActorsInv /\ PoolInv /\ TotalsAddUp /\ DonorCountFresh /\ ProfileIsTotal
      /\ KeyInv
  BY RowTypes DEF Actors, RecInv, BooksInv, RecTypes, KeyOf
<1>4. /\ row \in ActRows /\ row.pc = "answer" /\ row.key = act[r].key /\ row.gave = 0
  <2>1. "answer" \in Pcs /\ "created" \in Gots
    BY Counters DEF Gots, Finals
  <2> QED BY <1>3, <2>1, FreshType DEF ActRows, KeyOf
<1>5. Open(act[r]) /\ ~Open(row) /\ p \notin direct
  <2>1. Open(act[r]) /\ ~Open(row)
    BY <1>1, <1>4, Counters DEF Open
  <2> QED BY <1>3, <2>1 DEF ActorsInv, Written, Pay
<1>6. /\ history \in Histories /\ failures \in Nat /\ pool \in PoolRows
      /\ matched \in [Payments -> Nat] /\ matched[p] = 0
      /\ queue \in [Donors -> 0 .. Cardinality(Jobs)]
      /\ direct \in SUBSET Payments /\ indexed \in SUBSET Payments
  BY <1>3, <1>5 DEF RecTypes, PoolInv
<1>7. /\ pool' \in PoolRows /\ pool'.matched = pool.matched + gave /\ pool'.status = pool.status
      /\ pool.matched \in Nat /\ pool'.expired = pool.expired
  <2> HIDE DEF gave
  <2> QED BY <1>1, <1>3, <1>6 DEF PoolRows
<1>8. /\ matched' \in [Payments -> Nat] /\ matched'[p] = gave
      /\ \A q \in Payments \ {p} : matched'[q] = matched[q]
  <2> HIDE DEF p, gave
  <2> QED BY <1>1, <1>3, <1>6
<1>9. \A j : DonorsOf(j)' = DonorsOf(j) \cup (IF j = Home(r) THEN OwnDonors(r) ELSE {})
  <2> TAKE j
  <2> DEFINE A  == {DonorOf[q] : q \in {x \in direct \cup indexed : ProjectOf[x] = j}}
             B  == {Matcher : q \in {x \in direct : ProjectOf[x] = j /\ matched[x] > 0}}
             A1 == {DonorOf[q] : q \in {x \in direct' \cup indexed' : ProjectOf[x] = j}}
             B1 == {Matcher : q \in {x \in direct' : ProjectOf[x] = j /\ matched'[x] > 0}}
             O  == {Matcher : x \in {y \in {r} : act[y].gave > 0}}
  <2>1. Home(r) = ProjectOf[p]
    BY DEF Home
  <2>2. /\ DonorsOf(j) = A \cup B /\ OwnDonors(r) = {DonorOf[p]} \cup O
        /\ DonorsOf(j)' = A1 \cup B1
    BY DEF DonorsOf, OwnDonors
  <2>3. CASE j = Home(r)
    <3>1. A1 = A \cup {DonorOf[p]}
      BY <1>1, <2>1, <2>3
    <3>2. B1 = B \cup O
      <4>1. ASSUME NEW y \in B1 PROVE y \in B \cup O
        BY <1>1, <1>6, <1>8
      <4>2. ASSUME NEW y \in B PROVE y \in B1
        BY <1>1, <1>5, <1>6, <1>8
      <4>3. ASSUME NEW y \in O PROVE y \in B1
        BY <1>1, <1>8, <2>1, <2>3
      <4> QED BY <4>1, <4>2, <4>3
    <3> HIDE DEF A, B, A1, B1, O, p
    <3> QED BY <2>2, <2>3, <3>1, <3>2
  <2>4. CASE j # Home(r)
    <3>1. A1 = A
      BY <1>1, <2>1, <2>4
    <3>2. B1 = B
      <4>1. ASSUME NEW x PROVE x \in direct' /\ ProjectOf[x] = j /\ matched'[x] > 0
                              <=> x \in direct /\ ProjectOf[x] = j /\ matched[x] > 0
        BY <1>1, <1>6, <1>8, <2>1, <2>4
      <4> QED BY <4>1
    <3> HIDE DEF A, B, A1, B1, O, p
    <3> QED BY <2>2, <2>4, <3>1, <3>2
  <2> QED BY <2>3, <2>4
<1>10. OwnDonors(r) \in SUBSET (Donors \cup {Matcher})
  BY <1>3 DEF OwnDonors
<1>11. /\ queue' \in [Donors -> 0 .. Cardinality(Jobs)] /\ failures' \in Nat
       /\ history'.counts = StaleCount(r) /\ history'.pool = history.pool
       /\ history'.expired = history.expired
       /\ history'.counts \in SUBSET Projects => history' \in Histories
       /\ \A e \in Donors \ history'.profiles :
            queue'[e] = 0 => e # d /\ e \notin history.profiles /\ queue[e] = 0
  <2> HIDE DEF d
  <2> QED BY <1>2, <1>3, ProfileQueued
<1>12. /\ raised' \in [Projects -> Nat] /\ donorCount' \in [Projects -> Nat]
       /\ raised'[Home(r)] = raised[Home(r)] + AmountOf[p]
       /\ \A j \in Projects : j # Home(r) => raised'[j] = raised[j]
       /\ history'.counts \in SUBSET Projects /\ DonorCountFresh'
  BY <1>1, <1>3, <1>9, <1>10, <1>11, ProjectBooked
<1>13. pool'.matched = SumFunctionOnSet(matched', Payments)
  <2>1. pool.matched = SumFunctionOnSet(matched, Payments)
    BY <1>3 DEF TotalsAddUp
  <2>2. SumFunctionOnSet(matched', Payments)
          = SumFunctionOnSet(matched, Payments) - matched[p] + matched'[p]
    <3>1. /\ \A q \in Payments : matched[q] \in Int /\ matched'[q] \in Int
          /\ \A q \in Payments \ {p} : matched[q] = matched'[q]
      BY <1>6, <1>8
    <3> HIDE DEF p
    <3> QED BY <1>3, <3>1, RecordingAssumption, SumChange
  <2> QED BY <1>3, <1>6, <1>7, <1>8, <2>1, <2>2
<1>14. TotalsAddUp' /\ \A e : Total(e)' = Total(e) + (IF DonorOf[p] = e THEN AmountOf[p] ELSE 0)
  <2>1. Home(r) = ProjectOf[p]
    BY DEF Home
  <2> HIDE DEF p
  <2> QED BY <1>1, <1>3, <1>5, <1>12, <1>13, <2>1, TotalsBooked
<1>15. RecTypes'
  <2>1. act' \in [Actors -> ActRows]
    BY <1>1, <1>3, <1>4
  <2>2. direct' \subseteq Payments /\ indexed' \subseteq Payments
    BY <1>1, <1>3, <1>6
  <2> QED BY <1>1, <1>3, <1>7, <1>8, <1>11, <1>12, <2>1, <2>2 DEF RecTypes
<1>16. ActorsInv'
  <2>1. RowOK(r, row)
    BY <1>4 DEF RowOK
  <2> HIDE DEF row
  <2> QED BY <1>1, <1>3, <1>4, <1>5, <2>1, Committed
<1>17. PoolInv'
  <2>1. act'[r] = row /\ \A q \in Actors \ {r} : act'[q] = act[q]
    BY <1>1, <1>3
  <2>2. ASSUME ~history'.pool
        PROVE  /\ pool'.matched <= Cap
               /\ \A q \in Requests : pool'.matched + act'[q].gave <= Cap
    <3>1. \A q \in Requests : pool.matched + act[q].gave <= Cap
      BY <1>3, <1>11, <2>2 DEF PoolInv
    <3>2. pool'.matched <= Cap
      BY <1>7, <3>1
    <3>3. ASSUME NEW q \in Requests PROVE pool'.matched + act'[q].gave <= Cap
      <4>1. q \in Actors /\ act[q].gave \in Nat
        BY <1>3, RowTypes DEF Actors
      <4>2. CASE q = r
        <5> HIDE DEF row
        <5>1. act'[q].gave = 0
          BY <1>4, <2>1, <4>2
        <5>2. pool'.matched \in Int
          BY <1>7 DEF PoolRows
        <5> QED BY <3>2, <5>1, <5>2
      <4>3. CASE q # r
        <5>1. gave = 0 \/ act[q].gave = 0
          BY <1>3, <4>1, <4>3 DEF ActorsInv
        <5>2. act'[q].gave = act[q].gave
          BY <2>1, <4>1, <4>3
        <5>3. pool.matched + gave <= Cap /\ pool.matched + act[q].gave <= Cap
          BY <3>1
        <5> HIDE DEF gave
        <5>4. pool'.matched + act[q].gave <= Cap
          BY <1>3, <1>7, <4>1, <5>1, <5>3
        <5> QED BY <5>2, <5>4
      <4> QED BY <4>2, <4>3
    <3> QED BY <3>2, <3>3
  <2>3. pool'.status = "exhausted" => pool'.matched >= Cap
    <3> HIDE DEF gave
    <3> QED BY <1>3, <1>7, RecordingAssumption DEF PoolInv
  <2>4. \A q \in Payments \ direct' : matched'[q] = 0
    BY <1>1, <1>3, <1>8 DEF PoolInv
  <2> QED BY <2>2, <2>3, <2>4 DEF PoolInv
<1>18. ProfileIsTotal'
  <2> SUFFICES ASSUME NEW e \in Donors \ history'.profiles, queue'[e] = 0,
                      \A w \in Jobs : work'[w].pc = "write" => work'[w].donor # e
               PROVE  profile'[e] = Total(e)'
    BY Zenon DEF ProfileIsTotal
  <2>1. e # d /\ e \notin history.profiles /\ queue[e] = 0
    BY <1>11
  <2>2. profile[e] = Total(e)
    BY <1>1, <1>3, <2>1 DEF ProfileIsTotal
  <2>3. Total(e) \in Nat
    BY <1>3, TotalType
  <2>4. Total(e)' = Total(e)
    BY <1>14, <2>1, <2>3
  <2> QED BY <1>1, <2>2, <2>4
<1>19. KeyInv'
  <2>1. Processing(row) /\ Processing(act[r]) /\ row.pc \notin {"done", "reread"}
    BY <1>4, <1>5 DEF Processing
  <2> HIDE DEF row
  <2>2. MayWork(r, row)
    BY <1>3, <1>4, <2>1, MayWorkOn
  <2> QED BY <1>1, <1>3, <1>11, <2>2, ActKeys
<1> QED BY <1>12, <1>14, <1>15, <1>16, <1>17, <1>18, <1>19 DEF RecInv, BooksInv

\* COMMIT of handleDonation.
LEMMA KeepsHandlerCommits == ASSUME RecInv, NEW h \in Handlers, HandlerCommits(h) PROVE RecInv'
<1> DEFINE p   == Pay(h)
           d   == DonorOf[p]
           row == [Fresh EXCEPT !.pc = "done"]
           sum == act[h].prior + AmountOf[p]
           profiles == IF act[h].prior = profile[d] THEN history.profiles
                       ELSE history.profiles \cup {d}
<1>1. /\ act[h].pc = "profiled" /\ act' = [act EXCEPT ![h] = row] /\ BooksProject(h)
      /\ indexed' = indexed \cup {p} /\ direct' = direct /\ matched' = matched
      /\ profile' = [profile EXCEPT ![d] = sum]
      /\ history' = [history EXCEPT !.counts = StaleCount(h), !.profiles = profiles]
      /\ UNCHANGED <<pool, keys, queue, work, failures>>
  BY DEF HandlerCommits
<1>2. /\ h \in Actors /\ h \notin Requests /\ act[h] \in ActRows /\ p \in Payments /\ d \in Donors
      /\ act[h].prior \in Nat /\ AmountOf[p] \in Nat
      /\ act \in [Actors -> ActRows]
      /\ RecTypes /\ ActorsInv /\ PoolInv /\ TotalsAddUp /\ DonorCountFresh /\ ProfileIsTotal
      /\ KeyInv
  BY RowTypes, RecordingAssumption DEF Actors, RecInv, BooksInv, RecTypes
<1>3. /\ row \in ActRows /\ row.pc = "done" /\ row.gave = 0
  BY Counters, FreshType DEF ActRows
<1>4. Open(act[h]) /\ ~Open(row) /\ p \notin indexed
  <2>1. Open(act[h]) /\ ~Open(row)
    BY <1>1, <1>3, Counters DEF Open
  <2> QED BY <1>2, <2>1 DEF ActorsInv, Written, Pay
<1>5. /\ history \in Histories /\ profile \in [Donors -> Nat]
      /\ direct \in SUBSET Payments /\ indexed \in SUBSET Payments
  BY <1>2 DEF RecTypes
<1>6. OwnDonors(h) = {d}
  <2>1. act[h].gave = 0
    BY <1>2 DEF ActorsInv, RowOK
  <2> QED BY <2>1 DEF OwnDonors
<1>7. \A j : DonorsOf(j)' = DonorsOf(j) \cup (IF j = Home(h) THEN OwnDonors(h) ELSE {})
  <2> TAKE j
  <2> DEFINE A  == {DonorOf[q] : q \in {x \in direct \cup indexed : ProjectOf[x] = j}}
             B  == {Matcher : q \in {x \in direct : ProjectOf[x] = j /\ matched[x] > 0}}
             A1 == {DonorOf[q] : q \in {x \in direct' \cup indexed' : ProjectOf[x] = j}}
             B1 == {Matcher : q \in {x \in direct' : ProjectOf[x] = j /\ matched'[x] > 0}}
  <2>1. Home(h) = ProjectOf[p]
    BY DEF Home
  <2>2. DonorsOf(j) = A \cup B /\ DonorsOf(j)' = A1 \cup B1
    BY DEF DonorsOf
  <2>3. B1 = B
    BY <1>1
  <2>4. CASE j = Home(h)
    <3>1. A1 = A \cup {d}
      BY <1>1, <2>1, <2>4
    <3> HIDE DEF A, B, A1, B1, p
    <3> QED BY <1>6, <2>2, <2>3, <2>4, <3>1
  <2>5. CASE j # Home(h)
    <3>1. A1 = A
      BY <1>1, <2>1, <2>5
    <3> HIDE DEF A, B, A1, B1, p
    <3> QED BY <2>2, <2>3, <2>5, <3>1
  <2> QED BY <2>4, <2>5
<1>8. /\ history'.counts = StaleCount(h) /\ history'.pool = history.pool
      /\ history'.expired = history.expired /\ history'.profiles = profiles
      /\ profiles \in SUBSET Donors
      /\ history'.counts \in SUBSET Projects => history' \in Histories
  <2>1. profiles \in SUBSET Donors
    BY <1>2, <1>5 DEF Histories
  <2> HIDE DEF profiles
  <2> QED BY <1>1, <1>5, <2>1 DEF Histories
<1>9. /\ raised' \in [Projects -> Nat] /\ donorCount' \in [Projects -> Nat]
      /\ raised'[Home(h)] = raised[Home(h)] + AmountOf[p]
      /\ \A j \in Projects : j # Home(h) => raised'[j] = raised[j]
      /\ history'.counts \in SUBSET Projects /\ DonorCountFresh'
  <2>1. OwnDonors(h) \in SUBSET (Donors \cup {Matcher})
    BY <1>2, <1>6
  <2> QED BY <1>1, <1>2, <1>7, <1>8, <2>1, ProjectBooked
<1>10. TotalsAddUp' /\ \A e : Total(e)' = Total(e) + (IF DonorOf[p] = e THEN AmountOf[p] ELSE 0)
  <2>1. Home(h) = ProjectOf[p] /\ pool'.matched = SumFunctionOnSet(matched', Payments)
    BY <1>1, <1>2 DEF Home, TotalsAddUp
  <2> HIDE DEF p
  <2> QED BY <1>1, <1>2, <1>4, <1>9, <2>1, TotalsBooked
<1>11. profile' \in [Donors -> Nat] /\ profile'[d] = sum
       /\ \A e \in Donors \ {d} : profile'[e] = profile[e]
  <2>1. sum \in Nat
    BY <1>2
  <2> HIDE DEF sum, d
  <2> QED BY <1>1, <1>2, <1>5, <2>1
<1>12. RecTypes'
  <2>1. act' \in [Actors -> ActRows]
    BY <1>1, <1>2, <1>3
  <2>2. direct' \subseteq Payments /\ indexed' \subseteq Payments
    BY <1>1, <1>2, <1>5
  <2> QED BY <1>1, <1>2, <1>8, <1>9, <1>11, <2>1, <2>2 DEF RecTypes
<1>13. ActorsInv'
  <2>1. RowOK(h, row)
    BY <1>3 DEF RowOK
  <2> HIDE DEF row
  <2> QED BY <1>1, <1>2, <1>3, <1>4, <2>1, Committed
<1>14. PoolInv'
  <2>1. \A q \in Requests : act'[q] = act[q]
    BY <1>1, <1>2 DEF Actors
  <2> QED BY <1>1, <1>2, <1>8, <2>1 DEF PoolInv
<1>15. ProfileIsTotal'
  <2> SUFFICES ASSUME NEW e \in Donors \ history'.profiles, queue'[e] = 0,
                      \A w \in Jobs : work'[w].pc = "write" => work'[w].donor # e
               PROVE  profile'[e] = Total(e)'
    BY Zenon DEF ProfileIsTotal
  <2>1. e \notin history.profiles /\ (e = d => act[h].prior = profile[d])
    BY <1>8
  <2>2. profile[e] = Total(e)
    BY <1>1, <1>2, <2>1 DEF ProfileIsTotal
  <2>3. Total(e) \in Nat
    BY <1>2, TotalType
  <2>4. CASE e = d
    <3>1. Total(e)' = Total(e) + AmountOf[p]
      BY <1>10, <2>4
    <3>2. profile'[e] = profile[e] + AmountOf[p]
      BY <1>11, <2>1, <2>4
    <3> QED BY <2>2, <3>1, <3>2
  <2>5. CASE e # d
    <3>1. Total(e)' = Total(e)
      BY <1>10, <2>3, <2>5
    <3> QED BY <1>11, <2>2, <2>5, <3>1
  <2> QED BY <2>4, <2>5
<1>16. KeyInv'
  <2>1. MayWork(h, row)
    BY <1>2 DEF MayWork
  <2> HIDE DEF row
  <2> QED BY <1>1, <1>2, <1>8, <2>1, ActKeys
<1> QED BY <1>9, <1>10, <1>12, <1>13, <1>14, <1>15, <1>16 DEF RecInv, BooksInv

-------------------------------------------------------------------------------
(* The pool and the profiles.                                              *)

\* A change of the pool's row that does not change what it has given.
LEMMA PoolChanged ==
  ASSUME RecInv, pool' \in PoolRows, pool'.matched = pool.matched,
         pool'.status = "exhausted" => pool.matched >= Cap,
         UNCHANGED <<books, profile, keys, act, queue, work, history, failures>>
  PROVE  RecInv'
<1>1. UNCHANGED <<direct, indexed, matched, raised, donorCount>>
  BY DEF books
<1>2. /\ RecTypes /\ ActorsInv /\ PoolInv /\ TotalsAddUp /\ DonorCountFresh /\ ProfileIsTotal
      /\ KeyInv
  BY DEF RecInv, BooksInv
<1>3. RecTypes'
  BY <1>1, <1>2 DEF RecTypes
<1>4. ActorsInv'
  BY <1>1, <1>2 DEF ActorsInv, RowOK, Open, SameKind, Written
<1>5. PoolInv'
  BY <1>1, <1>2 DEF PoolInv
<1>6. TotalsAddUp' /\ DonorCountFresh' /\ ProfileIsTotal'
  BY <1>2, BooksUnchanged
<1>7. KeyInv'
  BY <1>2 DEF KeyInv, KeyRow, Processing, Open, Live
<1> QED BY <1>3, <1>4, <1>5, <1>6, <1>7 DEF RecInv, BooksInv

LEMMA KeepsPoolExpires == ASSUME RecInv, PoolExpires PROVE RecInv'
<1>1. /\ pool' = [pool EXCEPT !.expired = TRUE] /\ pool \in PoolRows
      /\ UNCHANGED <<books, profile, keys, act, queue, work, history, failures>>
      /\ pool.status = "exhausted" => pool.matched >= Cap
  BY DEF PoolExpires, RecInv, RecTypes, BooksInv, PoolInv
<1>2. pool' \in PoolRows /\ pool'.matched = pool.matched /\ pool'.status = pool.status
  BY <1>1 DEF PoolRows
<1> QED BY <1>1, <1>2, PoolChanged

LEMMA KeepsExpiresMatches == ASSUME RecInv, ExpiresMatches PROVE RecInv'
<1>1. /\ pool \in PoolRows
      /\ UNCHANGED <<books, profile, keys, act, queue, work, history, failures>>
      /\ \/ pool' = [pool EXCEPT !.status = "expired"]
         \/ pool.matched >= Cap /\ pool' = [pool EXCEPT !.status = "exhausted"]
  BY DEF ExpiresMatches, RecInv, RecTypes
<1>2. /\ pool' \in PoolRows /\ pool'.matched = pool.matched
      /\ pool'.status = "exhausted" => pool.matched >= Cap
  BY <1>1 DEF PoolRows
<1> QED BY <1>1, <1>2, PoolChanged

\* A step of a profile job: profiles that are said to be totals are.
LEMMA ProfilesChanged ==
  ASSUME RecInv, UNCHANGED <<books, pool, keys, act, failures>>,
         profile' \in [Donors -> Nat], queue' \in [Donors -> 0 .. Cardinality(Jobs)],
         work' \in [Jobs -> WorkRows], history' \in Histories,
         history'.pool = history.pool, history'.counts = history.counts,
         history'.expired = history.expired,
         \A e \in Donors \ history'.profiles :
           queue'[e] = 0 /\ (\A w \in Jobs : work'[w].pc = "write" => work'[w].donor # e)
             => profile'[e] = Total(e)
  PROVE  RecInv'
<1>1. UNCHANGED <<direct, indexed, matched, raised, donorCount>>
  BY DEF books
<1>2. /\ RecTypes /\ ActorsInv /\ PoolInv /\ TotalsAddUp /\ DonorCountFresh /\ KeyInv
  BY DEF RecInv, BooksInv
<1>3. RecTypes'
  BY <1>1, <1>2 DEF RecTypes
<1>4. ActorsInv'
  BY <1>1, <1>2 DEF ActorsInv, RowOK, Open, SameKind, Written
<1>5. PoolInv'
  BY <1>1, <1>2 DEF PoolInv
<1>6. TotalsAddUp'
  BY <1>1, <1>2 DEF TotalsAddUp
<1>7. DonorCountFresh'
  <2>1. \A j : DonorsOf(j)' = DonorsOf(j)
    BY <1>1 DEF DonorsOf
  <2> QED BY <1>1, <1>2, <2>1 DEF DonorCountFresh
<1>8. ProfileIsTotal'
  <2>1. \A e : Total(e)' = Total(e)
    BY <1>1 DEF Total
  <2> QED BY <2>1 DEF ProfileIsTotal
<1>9. KeyInv'
  BY <1>2 DEF KeyInv, KeyRow, Processing, Open, Live
<1> QED BY <1>3, <1>4, <1>5, <1>6, <1>7, <1>8, <1>9 DEF RecInv, BooksInv

LEMMA KeepsJobReads == ASSUME RecInv, NEW w \in Jobs, NEW d \in Donors, JobReads(w, d) PROVE RecInv'
<1> DEFINE most == Cardinality(Jobs)
           read == [pc |-> "write", donor |-> d, total |-> Total(d)]
<1>1. /\ work[w].pc = "idle" /\ queue[d] > 0 /\ queue' = [queue EXCEPT ![d] = @ - 1]
      /\ work' = [work EXCEPT ![w] = read]
      /\ UNCHANGED <<books, profile, pool, keys, act, history, failures>>
  BY DEF JobReads
<1>2. /\ queue \in [Donors -> 0 .. most] /\ work \in [Jobs -> WorkRows] /\ history \in Histories
      /\ profile \in [Donors -> Nat] /\ most \in Nat /\ Total(d) \in Nat /\ ProfileIsTotal
  BY RecordingAssumption, FS_CardinalityType, TotalType DEF RecInv, RecTypes, BooksInv
<1>3. read \in WorkRows /\ read.pc = "write" /\ read.donor = d
  BY <1>2 DEF WorkRows
<1> HIDE DEF most, read
<1>4. /\ queue' \in [Donors -> 0 .. most] /\ \A e \in Donors : e # d => queue'[e] = queue[e]
      /\ work' \in [Jobs -> WorkRows] /\ work'[w] = read
      /\ \A v \in Jobs : v # w => work'[v] = work[v]
  BY <1>1, <1>2, <1>3
<1>5. ASSUME NEW e \in Donors \ history'.profiles, queue'[e] = 0,
             \A v \in Jobs : work'[v].pc = "write" => work'[v].donor # e
      PROVE  profile'[e] = Total(e)
  <2>1. e # d
    BY <1>3, <1>4, <1>5
  <2>2. queue[e] = 0
    BY <1>4, <1>5, <2>1
  <2>3. ASSUME NEW v \in Jobs, work[v].pc = "write" PROVE work[v].donor # e
    <3>1. v # w
      BY <1>1, <2>3
    <3> QED BY <1>4, <1>5, <2>3, <3>1
  <2> QED BY <1>1, <1>2, <2>2, <2>3 DEF ProfileIsTotal
<1> QED BY <1>1, <1>2, <1>4, <1>5, ProfilesChanged DEF most

LEMMA KeepsJobWrites == ASSUME RecInv, NEW w \in Jobs, JobWrites(w) PROVE RecInv'
<1> DEFINE d == work[w].donor
           n == work[w].total
           profiles == IF n = Total(d) THEN history.profiles \ {d} ELSE history.profiles \cup {d}
<1>1. /\ work[w].pc = "write" /\ profile' = [profile EXCEPT ![d] = n]
      /\ history' = [history EXCEPT !.profiles = profiles]
      /\ work' = [work EXCEPT ![w] = NoWork]
      /\ UNCHANGED <<books, pool, keys, act, queue, failures>>
  BY DEF JobWrites
<1>2. /\ queue \in [Donors -> 0 .. Cardinality(Jobs)] /\ work \in [Jobs -> WorkRows]
      /\ history \in Histories /\ profile \in [Donors -> Nat] /\ ProfileIsTotal
  BY DEF RecInv, RecTypes, BooksInv
<1>3. work[w] \in WorkRows /\ d \in Donors /\ n \in Nat
  BY <1>2 DEF WorkRows
<1>4. NoWork \in WorkRows /\ NoWork.pc = "idle"
  <2> DEFINE c == CHOOSE x \in Donors : TRUE
  <2>1. c \in Donors
    BY RecordingSets, Zenon
  <2>2. NoWork = [pc |-> "idle", donor |-> c, total |-> 0]
    BY DEF NoWork
  <2> HIDE DEF c
  <2> QED BY <2>1, <2>2 DEF WorkRows
<1>5. profiles \in SUBSET Donors
  BY <1>2, <1>3 DEF Histories
<1>6. \A e \in Donors : e \notin profiles =>
        IF e = d THEN n = Total(d) ELSE e \notin history.profiles
  OBVIOUS
<1> HIDE DEF profiles
<1>7. /\ history' \in Histories /\ history'.profiles = profiles /\ history'.pool = history.pool
      /\ history'.counts = history.counts /\ history'.expired = history.expired
  BY <1>1, <1>2, <1>5 DEF Histories
<1> HIDE DEF d, n
<1>8. /\ profile' \in [Donors -> Nat] /\ profile'[d] = n
      /\ \A e \in Donors : e # d => profile'[e] = profile[e]
      /\ work' \in [Jobs -> WorkRows] /\ \A v \in Jobs : v # w => work'[v] = work[v]
  BY <1>1, <1>2, <1>3, <1>4
<1>9. ASSUME NEW e \in Donors \ history'.profiles, queue'[e] = 0,
             \A v \in Jobs : work'[v].pc = "write" => work'[v].donor # e
      PROVE  profile'[e] = Total(e)
  <2>1. CASE e = d
    BY <1>6, <1>7, <1>8, <1>9, <2>1
  <2>2. CASE e # d
    <3>1. e \notin history.profiles /\ queue[e] = 0
      BY <1>1, <1>6, <1>7, <1>9, <2>2
    <3>2. ASSUME NEW v \in Jobs, work[v].pc = "write" PROVE work[v].donor # e
      <4>1. CASE v = w
        BY <2>2, <4>1 DEF d
      <4>2. CASE v # w
        BY <1>8, <1>9, <3>2, <4>2
      <4> QED BY <4>1, <4>2
    <3>3. profile[e] = Total(e)
      BY <1>2, <3>1, <3>2 DEF ProfileIsTotal
    <3> QED BY <1>8, <2>2, <3>3
  <2> QED BY <2>1, <2>2
<1> QED BY <1>1, <1>2, <1>7, <1>8, <1>9, ProfilesChanged

-------------------------------------------------------------------------------
(* The theorems.                                                           *)

LEMMA RecInvInit == RecInit => RecInv
<1> SUFFICES ASSUME RecInit PROVE RecInv
  OBVIOUS
<1>1. /\ direct = {} /\ indexed = {} /\ matched = [p \in Payments |-> 0]
      /\ raised = [j \in Projects |-> 0] /\ donorCount = [j \in Projects |-> 0]
      /\ profile = [d \in Donors |-> 0]
      /\ pool = [matched |-> 0, status |-> "active", expired |-> FALSE]
      /\ keys = [k \in Keys |-> NoKey] /\ act = [a \in Actors |-> Fresh]
      /\ queue = [d \in Donors |-> 0] /\ work = [w \in Jobs |-> NoWork]
      /\ history = [pool |-> FALSE, counts |-> {}, profiles |-> {}, expired |-> {}]
      /\ failures = MaxFailures
  BY DEF RecInit
<1>2. NoWork \in WorkRows
  <2> DEFINE c == CHOOSE x \in Donors : TRUE
  <2>1. c \in Donors
    BY RecordingSets, Zenon
  <2>2. NoWork = [pc |-> "idle", donor |-> c, total |-> 0]
    BY DEF NoWork
  <2> HIDE DEF c
  <2> QED BY <2>1, <2>2 DEF WorkRows
<1>3. NoKey \in KeyRows /\ NoKey.state = "absent"
  BY FreshType DEF NoKey, KeyRows
<1>4. RecTypes
  <2>1. Cardinality(Jobs) \in Nat
    BY RecordingAssumption, FS_CardinalityType
  <2>2. act \in [Actors -> ActRows] /\ keys \in [Keys -> KeyRows] /\ work \in [Jobs -> WorkRows]
    BY <1>1, <1>2, <1>3, FreshType
  <2>3. queue \in [Donors -> 0 .. Cardinality(Jobs)]
    BY <1>1, <2>1
  <2>4. pool \in PoolRows /\ history \in Histories
    BY <1>1 DEF PoolRows, Histories
  <2> QED BY <1>1, <2>2, <2>3, <2>4, RecordingAssumption DEF RecTypes
<1>5. \A a \in Actors : act[a] = Fresh
  BY <1>1
<1>6. ~Open(Fresh) /\ ~Processing(Fresh) /\ Fresh.key = "none"
  BY FreshType, Counters DEF Open, Processing, Finals
<1>7. ActorsInv
  <2>1. \A a \in Actors : RowOK(a, Fresh)
    BY FreshType DEF RowOK
  <2>2. \A q \in Requests : act[q].gave = 0
    BY <1>5, FreshType DEF Actors
  <2> QED BY <1>5, <1>6, <2>1, <2>2 DEF ActorsInv
<1>8. PoolInv
  <2>1. \A q \in Requests : act[q].gave = 0
    BY <1>5, FreshType DEF Actors
  <2> QED BY <1>1, <2>1, RecordingAssumption DEF PoolInv
<1>9. Sum({}) = 0
  BY SumEmpty DEF Sum
<1>10. TotalsAddUp
  <2>1. SumFunctionOnSet(matched, Payments) = 0
    BY <1>1, RecordingAssumption, SumZero
  <2>2. \A j : {p \in direct : ProjectOf[p] = j} = {} /\ {p \in indexed : ProjectOf[p] = j} = {}
    BY <1>1
  <2> QED BY <1>1, <1>9, <2>1, <2>2 DEF TotalsAddUp
<1>11. DonorCountFresh
  <2>1. \A j : DonorsOf(j) = {}
    BY <1>1 DEF DonorsOf
  <2> QED BY <1>1, <2>1, FS_EmptySet DEF DonorCountFresh
<1>12. ProfileIsTotal
  <2>1. \A d : {p \in direct : DonorOf[p] = d} = {} /\ {p \in indexed : DonorOf[p] = d} = {}
    BY <1>1
  <2>2. \A d : Total(d) = 0
    BY <1>9, <2>1 DEF Total
  <2> QED BY <1>1, <2>2 DEF ProfileIsTotal
<1>13. KeyInv
  <2>1. \A k \in Keys : keys[k].state # "expired"
    BY <1>1, <1>3
  <2>2. \A r \in Requests : act[r] = Fresh
    BY <1>5 DEF Actors
  <2>3. KeyRow(Fresh)
    BY <1>6, FreshType DEF KeyRow, Finals
  <2> QED BY <1>6, <2>1, <2>2, <2>3 DEF KeyInv
<1> QED BY <1>4, <1>7, <1>8, <1>10, <1>11, <1>12, <1>13 DEF RecInv, BooksInv

\* The invariant is kept by every step.
LEMMA RecInvKept == RecInv /\ [RecNext]_recVars => RecInv'
<1> SUFFICES ASSUME RecInv, [RecNext]_recVars PROVE RecInv'
  OBVIOUS
<1>1. ASSUME NEW r \in Requests, RequestRuns(r) PROVE RecInv'
  <2>1. r \in Actors
    BY DEF Actors
  <2> QED BY <1>1, <2>1, KeepsLooksUp, KeepsClaims, KeepsRereads, KeepsDeduplicates,
            KeepsInserts, KeepsReadsPools, KeepsFillsPool, KeepsStartsUpdate,
            KeepsRequestCommits, KeepsAnswers DEF RequestRuns
<1>2. ASSUME NEW h \in Handlers, HandlerRuns(h) PROVE RecInv'
  <2>1. h \in Actors
    BY DEF Actors
  <2> QED BY <1>2, <2>1, KeepsHandlerInserts, KeepsStartsUpdate, KeepsReadsProfile,
            KeepsHandlerCommits DEF HandlerRuns
<1>3. CASE \E r \in Requests : Abandoned(r) \/ \E k \in Keys, p \in Payments : Arrives(r, k, p)
  BY <1>3, KeepsAbandoned, KeepsArrives
<1>4. CASE \E a \in Actors : Fails(a)
  BY <1>4, KeepsFails
<1>5. CASE \E k \in Keys : KeyExpires(k) \/ RunCleanup(k)
  BY <1>5, KeepsExpires, KeepsCleanup
<1>6. CASE PoolExpires \/ ExpiresMatches
  BY <1>6, KeepsPoolExpires, KeepsExpiresMatches
<1>7. CASE \E w \in Jobs : JobWrites(w) \/ \E d \in Donors : JobReads(w, d)
  BY <1>7, KeepsJobWrites, KeepsJobReads
<1>8. CASE UNCHANGED recVars
  <2>1. /\ UNCHANGED <<books, profile, keys, act, queue, work, history, failures>>
        /\ pool' = pool
    BY <1>8 DEF recVars
  <2>2. pool \in PoolRows /\ (pool.status = "exhausted" => pool.matched >= Cap)
    BY DEF RecInv, RecTypes, BooksInv, PoolInv
  <2> QED BY <2>1, <2>2, PoolChanged
<1> QED BY <1>1, <1>2, <1>3, <1>4, <1>5, <1>6, <1>7, <1>8 DEF RecNext

LEMMA RecInvHolds == RecSpec => []RecInv
BY RecInvInit, RecInvKept, PTL DEF RecSpec

\* What the invariant says of the books, and of the keys.
LEMMA RecInvSuffices == RecInv => BooksAddUp /\ KeyAnswersOnce
<1> SUFFICES ASSUME RecInv PROVE BooksAddUp /\ KeyAnswersOnce
  OBVIOUS
<1>1. RecTypes /\ PoolInv /\ TotalsAddUp /\ DonorCountFresh /\ ProfileIsTotal /\ KeyInv
  BY DEF RecInv, BooksInv
<1>2. RecTypeOK
  <2>1. \A k \in Keys : keys[k] \in KeyRows
    BY <1>1 DEF RecTypes
  <2>2. ASSUME NEW a \in Actors
        PROVE  act[a].gave >= 0 /\ act[a].seen \subseteq Donors \cup {Matcher}
    BY <1>1, RowTypes
  <2>3. ASSUME NEW w \in Jobs PROVE work[w].donor \in Donors
    BY <1>1 DEF RecTypes, WorkRows
  <2>4. pool.status = "exhausted" => pool.matched >= Cap
    BY <1>1 DEF PoolInv
  <2> QED BY <1>1, <2>1, <2>2, <2>3, <2>4 DEF RecTypeOK, RecTypes, KeyRows, PoolRows
<1>3. WithinCap
  BY <1>1 DEF WithinCap, PoolInv
<1>4. ProcessedOnce
  <2> SUFFICES ASSUME NEW k \in Keys \ history.expired, NEW q \in Requests, NEW r \in Requests,
                      KeyOf(q) = k, KeyOf(r) = k, act[q].got \in Finals, act[r].got \in Finals
               PROVE  q = r
    BY DEF ProcessedOnce, Finals
  <2> QED BY <1>1 DEF KeyInv, Processing, KeyOf
<1>5. ReplayIsFinal
  <2> SUFFICES ASSUME NEW r \in Requests, act[r].pc = "done", act[r].got \in Finals,
                      KeyOf(r) \notin history.expired
               PROVE  keys[KeyOf(r)].state = "final"
    BY DEF ReplayIsFinal, Finals
  <2>1. KeyRow(act[r]) /\ Processing(act[r])
    BY <1>1 DEF KeyInv, Processing
  <2> QED BY <2>1 DEF KeyRow, KeyOf
<1> QED BY <1>1, <1>2, <1>3, <1>4, <1>5 DEF BooksAddUp, KeyAnswersOnce

\* Whatever interleaves and fails in recordDonation, handleDonation and the profile jobs:
\* raised_xlm and matched_xlm are the sums of their rows, the pool stays within its cap
\* unless two fills of it overlapped, donor_count counts the donors unless the project's
\* last update overlapped another, and a profile without work to come is its donor's
\* total, unless two writers of it overlapped or a job was lost.
THEOREM DonationBooksAddUp == RecSpec => []BooksAddUp
BY RecInvHolds, RecInvSuffices, PTL

\* Of the requests of an idempotency key at most one is processed until the key expires,
\* and once it has its response every replay of the key reads that one.
THEOREM DonationKeysAnswerOnce == RecSpec => []KeyAnswersOnce
BY RecInvHolds, RecInvSuffices, PTL
===============================================================================
