--------------------------- MODULE DonationRecording ---------------------------
(***************************************************************************)
(* Recording a donation: POST /api/donations behind its idempotency key    *)
(* (backend/src/middleware/idempotency.js, routes/donations.js), the       *)
(* handler of the Horizon indexer (services/indexerDonationHandler.js),    *)
(* the matching pool (services/matchExpiry.js), the recomputation of       *)
(* profiles (services/profileQueue.js) and the deletion of expired keys,   *)
(* statement by statement.                                                 *)
(*                                                                         *)
(* Transactions are READ COMMITTED: a statement sees what is committed,    *)
(* its own transaction's writes, and waits for rows another transaction    *)
(* has written.  All payments are in XLM, confirmed on chain and not       *)
(* anonymous; there is one matching pool.  Whether the body of a request   *)
(* is the one its key was used with is whether its payment is.             *)
(***************************************************************************)
EXTENDS Integers, FiniteSets, Functions

CONSTANTS
  Payments,        \* the payments
  DonorOf,         \* the donor, project and amount of each
  ProjectOf,
  AmountOf,
  Requests,        \* bound: POST requests
  Keys,            \* the Idempotency-Key headers they may carry
  Handlers,        \* bound: calls of handleDonation
  PoolProject,     \* the project of the matching pool
  Matcher,         \* who pays it
  Cap,             \* its cap_xlm
  Multiplier,
  Jobs,            \* bound: concurrent profile jobs (teamSize)
  MaxFailures      \* bound: failed transactions, dead processes

Actors   == Requests \cup Handlers
Donors   == {DonorOf[p] : p \in Payments}
Projects == {ProjectOf[p] : p \in Payments}
APayment == CHOOSE p \in Payments : TRUE

ASSUME RecordingAssumption ==
  /\ IsFiniteSet(Payments) /\ Payments # {} /\ \A p \in Payments : AmountOf[p] \in Nat
  /\ Requests \cap Handlers = {} /\ Cap \in Nat /\ Multiplier \in Nat
  /\ IsFiniteSet(Jobs) /\ Jobs # {} /\ MaxFailures \in Nat

VARIABLES
  direct,       \* donations: payments with a row without operation id
  indexed,      \* donations: payments with a row of the Horizon indexer
  matched,      \* donations: what the pool gave for each payment, in a row of its own
  raised,       \* projects.raised_xlm
  donorCount,   \* projects.donor_count
  profile,      \* profiles.total_donated_xlm
  pool,         \* donation_matches: matched_xlm, status, and whether it has expired
  keys,         \* idempotency_keys
  act,          \* the requests and handlers: program counter and local variables
  queue,        \* profile jobs waiting, by donor
  work,         \* profile jobs running
  history,      \* history: what races have spoilt
  failures      \* failures still allowed

books   == <<direct, indexed, matched, raised, donorCount>>
recVars == <<books, profile, pool, keys, act, queue, work, history, failures>>

NoKey  == [state |-> "absent", of |-> APayment]
Fresh  == [pc |-> "new", pay |-> APayment, key |-> "none", room |-> 0, gave |-> 0,
           seen |-> {}, prior |-> 0, got |-> "none"]
NoWork == [pc |-> "idle", donor |-> CHOOSE d \in Donors : TRUE, total |-> 0]

Pay(a)      == act[a].pay
KeyOf(r)    == act[r].key
Home(a)     == ProjectOf[Pay(a)]
Smaller(m, n) == IF m <= n THEN m ELSE n
Goto(a, pc) == act' = [act EXCEPT ![a].pc = pc]
Sum(S)      == SumFunctionOnSet(AmountOf, S)

\* SELECT DISTINCT donor_address ... WHERE project_id = j; a pool's rows are its
\* matcher's donations.
DonorsOf(j) ==
  {DonorOf[p] : p \in {q \in direct \cup indexed : ProjectOf[q] = j}}
    \cup {Matcher : p \in {q \in direct : ProjectOf[q] = j /\ matched[q] > 0}}

\* SELECT SUM(amount_xlm) ... WHERE donor_address = d.
Total(d) == Sum({p \in direct : DonorOf[p] = d}) + Sum({p \in indexed : DonorOf[p] = d})

-------------------------------------------------------------------------------
(* idempotencyMiddleware                                                   *)

Live(k) == keys[k].state \in {"processing", "final"}

\* A stored response: the placeholder, the final one, or 409 for another body.
Stored(r) ==
  [act[r] EXCEPT !.pc = "done",
     !.got = IF keys[KeyOf(r)].of # Pay(r) THEN "conflict" ELSE keys[KeyOf(r)].state]

\* A client posts a payment, with a key.
Arrives(r, k, p) ==
  /\ act[r].pc = "new"
  /\ act' = [act EXCEPT ![r] = [Fresh EXCEPT !.pc = "lookup", !.key = k, !.pay = p]]
  /\ UNCHANGED <<books, profile, pool, keys, queue, work, history, failures>>

\* SELECT ... WHERE key = $1 AND expires_at > NOW().
LooksUpKey(r) ==
  /\ act[r].pc = "lookup"
  /\ IF Live(KeyOf(r)) THEN act' = [act EXCEPT ![r] = Stored(r)] ELSE Goto(r, "claim")
  /\ UNCHANGED <<books, profile, pool, keys, queue, work, history, failures>>

\* Mutant: the insert replaces a row that is there.
ClaimsAlways(r) ==
  /\ act[r].pc = "claim"
  /\ Goto(r, "dedup")
  /\ keys' = [keys EXCEPT ![KeyOf(r)] = [state |-> "processing", of |-> Pay(r)]]
  /\ UNCHANGED <<books, profile, pool, queue, work, history, failures>>

\* INSERT ... ON CONFLICT (key) DO NOTHING RETURNING key; an expired row that has
\* not been deleted conflicts too.
ClaimsKey(r) ==
  /\ act[r].pc = "claim"
  /\ IF keys[KeyOf(r)].state = "absent"
       THEN /\ Goto(r, "dedup")
            /\ keys' = [keys EXCEPT ![KeyOf(r)] = [state |-> "processing", of |-> Pay(r)]]
       ELSE Goto(r, "reread") /\ UNCHANGED keys
  /\ UNCHANGED <<books, profile, pool, queue, work, history, failures>>

\* The race was lost: replay the winner's row, or go on if it has expired.
RereadsKey(r) ==
  /\ act[r].pc = "reread"
  /\ IF Live(KeyOf(r)) THEN act' = [act EXCEPT ![r] = Stored(r)] ELSE Goto(r, "dedup")
  /\ UNCHANGED <<books, profile, pool, keys, queue, work, history, failures>>

\* res.json: the response is stored by key, then sent.  The update of a row that
\* is gone changes nothing.
Answers(r) ==
  /\ act[r].pc = "answer"
  /\ Goto(r, "done")
  /\ keys' = [keys EXCEPT ![KeyOf(r)].state = IF @ = "processing" THEN "final" ELSE @]
  /\ UNCHANGED <<books, profile, pool, queue, work, history, failures>>

\* 24 hours pass; runCleanup deletes what has expired.
KeyExpires(k) ==
  /\ Live(k)
  /\ keys' = [keys EXCEPT ![k].state = "expired"]
  /\ history' = [history EXCEPT !.expired = @ \cup {k}]
  /\ UNCHANGED <<books, profile, pool, act, queue, work, failures>>

RunCleanup(k) ==
  /\ keys[k].state = "expired"
  /\ keys' = [keys EXCEPT ![k] = NoKey]
  /\ UNCHANGED <<books, profile, pool, act, queue, work, history, failures>>

-------------------------------------------------------------------------------
(* recordDonation                                                          *)

\* Deduplicate by transaction hash, whoever wrote the row.
Deduplicates(r) ==
  /\ act[r].pc = "dedup"
  /\ IF Pay(r) \in direct \cup indexed
       THEN act' = [act EXCEPT ![r].pc = "answer", ![r].got = "duplicate"]
       ELSE Goto(r, "insert")
  /\ UNCHANGED <<books, profile, pool, keys, queue, work, history, failures>>

InTransaction == {"pools", "fill", "project", "raise", "profiled"}

\* BEGIN, INSERT: another open insert of the transaction hash makes it wait, a
\* committed one makes it fail.
Inserts(r) ==
  /\ act[r].pc = "insert"
  /\ \A q \in Requests : Pay(q) = Pay(r) => act[q].pc \notin InTransaction
  /\ IF Pay(r) \in direct
       THEN act' = [act EXCEPT ![r].pc = "answer", ![r].got = "error"]
       ELSE Goto(r, "pools")
  /\ UNCHANGED <<books, profile, pool, keys, queue, work, history, failures>>

\* The active pools of the project that have not expired, and their room.
ReadsPools(r) ==
  /\ act[r].pc = "pools"
  /\ LET room == IF Home(r) = PoolProject /\ pool.status = "active" /\ ~pool.expired
                 THEN Cap - pool.matched ELSE 0
     IN  act' = [act EXCEPT ![r].pc = IF room > 0 THEN "fill" ELSE "project", ![r].room = room]
  /\ UNCHANGED <<books, profile, pool, keys, queue, work, history, failures>>

PoolHolder(a) == a \in Requests /\ act[a].gave > 0 /\ act[a].pc \in InTransaction

\* Mutant: the match is not limited to the room.
FillsPoolFully(r) ==
  /\ act[r].pc = "fill" /\ ~\E q \in Actors \ {r} : PoolHolder(q)
  /\ act' = [act EXCEPT ![r].pc = "project", ![r].gave = AmountOf[Pay(r)] * Multiplier]
  /\ UNCHANGED <<books, profile, pool, keys, queue, work, history, failures>>

\* The match row and UPDATE donation_matches SET matched_xlm = matched_xlm + ...,
\* which waits for the pool's row; the amount was computed from the room read.
FillsPool(r) ==
  /\ act[r].pc = "fill" /\ ~\E q \in Actors \ {r} : PoolHolder(q)
  /\ act' = [act EXCEPT ![r].pc = "project",
               ![r].gave = Smaller(AmountOf[Pay(r)] * Multiplier, act[r].room)]
  /\ history' = [history EXCEPT !.pool = @ \/ act[r].room # Cap - pool.matched]
  /\ UNCHANGED <<books, profile, pool, keys, queue, work, failures>>

-------------------------------------------------------------------------------
(* handleDonation, and what the two transactions have in common.           *)

\* INSERT ... ON CONFLICT DO NOTHING: a replayed operation is a no-op.
HandlerInserts(h, p) ==
  /\ act[h].pc = "new"
  /\ \A g \in Handlers : Pay(g) = p => act[g].pc \notin InTransaction
  /\ act' = [act EXCEPT ![h].pay = p, ![h].pc = IF p \in indexed THEN "done" ELSE "project"]
  /\ UNCHANGED <<books, profile, pool, keys, queue, work, history, failures>>

OwnDonors(a) == {DonorOf[Pay(a)]} \cup {Matcher : x \in {y \in {a} : act[y].gave > 0}}

\* UPDATE projects ... (SELECT COUNT(DISTINCT ...)) starts: the sub-select sees
\* what is committed now, even if the update then waits for the row.
StartsUpdate(a) ==
  /\ act[a].pc = "project"
  /\ act' = [act EXCEPT ![a].pc = "raise", ![a].seen = DonorsOf(Home(a))]
  /\ UNCHANGED <<books, profile, pool, keys, queue, work, history, failures>>

\* Another handler's update of the project holds its row.
ProjectFree(a) ==
  \A h \in Handlers : Home(h) = Home(a) => act[h].pc # "profiled"

\* The handler updates the project and reads the donor's total.
ReadsProfile(h) ==
  /\ h \in Handlers /\ act[h].pc = "raise" /\ ProjectFree(h)
  /\ act' = [act EXCEPT ![h].pc = "profiled", ![h].prior = profile[DonorOf[Pay(h)]]]
  /\ UNCHANGED <<books, profile, pool, keys, queue, work, history, failures>>

\* The project's row at either COMMIT.
BooksProject(a) ==
  /\ raised' = [raised EXCEPT ![Home(a)] = @ + AmountOf[Pay(a)]]
  /\ donorCount' = [donorCount EXCEPT ![Home(a)] = Cardinality(act[a].seen \cup OwnDonors(a))]

StaleCount(a) ==
  IF DonorsOf(Home(a)) = act[a].seen THEN history.counts \ {Home(a)}
  ELSE history.counts \cup {Home(a)}

\* The row of the project, COMMIT of recordDonation, and the profile job, which is
\* enqueued twice; a failure to do so is only logged.
RequestCommits(r) ==
  /\ r \in Requests /\ act[r].pc = "raise" /\ ProjectFree(r)
  /\ direct' = direct \cup {Pay(r)} /\ indexed' = indexed
  /\ matched' = [matched EXCEPT ![Pay(r)] = @ + act[r].gave]
  /\ BooksProject(r)
  /\ pool' = [pool EXCEPT !.matched = @ + act[r].gave]
  /\ act' = [act EXCEPT ![r] = [Fresh EXCEPT !.pc = "answer", !.got = "created",
                                      !.key = KeyOf(r), !.pay = Pay(r)]]
  /\ \/ /\ queue' = [queue EXCEPT ![DonorOf[Pay(r)]] = Smaller(@ + 2, Cardinality(Jobs))]
        /\ history' = [history EXCEPT !.counts = StaleCount(r)]
        /\ failures' = failures
     \/ /\ failures > 0 /\ failures' = failures - 1
        /\ history' = [history EXCEPT !.counts = StaleCount(r),
                                      !.profiles = @ \cup {DonorOf[Pay(r)]}]
        /\ queue' = queue
  /\ UNCHANGED <<profile, keys, work>>

\* COMMIT of handleDonation: the profile gets the total read before, plus the
\* amount.
HandlerCommits(h) ==
  /\ h \in Handlers /\ act[h].pc = "profiled"
  /\ indexed' = indexed \cup {Pay(h)} /\ UNCHANGED <<direct, matched>>
  /\ BooksProject(h)
  /\ profile' = [profile EXCEPT ![DonorOf[Pay(h)]] = act[h].prior + AmountOf[Pay(h)]]
  /\ history' = [history EXCEPT
                   !.counts = StaleCount(h),
                   !.profiles = IF act[h].prior = profile[DonorOf[Pay(h)]] THEN @
                                ELSE @ \cup {DonorOf[Pay(h)]}]
  /\ act' = [act EXCEPT ![h] = [Fresh EXCEPT !.pc = "done"]]
  /\ UNCHANGED <<pool, keys, queue, work, failures>>

\* ROLLBACK.  The client gets an error, the operation is retried from its queue.
Fails(a) ==
  /\ act[a].pc \in InTransaction /\ failures > 0
  /\ failures' = failures - 1
  /\ act' = [act EXCEPT ![a] = IF a \in Handlers THEN Fresh
                               ELSE [Fresh EXCEPT !.pc = "answer", !.got = "error",
                                  !.key = KeyOf(a), !.pay = Pay(a)]]
  /\ UNCHANGED <<books, profile, pool, keys, queue, work, history>>

\* The process dies with a request in it, which nobody answers.
Abandoned(r) ==
  /\ act[r].pc \notin {"new", "done"} /\ failures > 0
  /\ failures' = failures - 1
  /\ act' = [act EXCEPT ![r] = [Fresh EXCEPT !.pc = "done", !.got = "lost"]]
  /\ UNCHANGED <<books, profile, pool, keys, queue, work, history>>

-------------------------------------------------------------------------------
(* The pool and the profiles.                                              *)

PoolExpires ==
  /\ ~pool.expired
  /\ pool' = [pool EXCEPT !.expired = TRUE]
  /\ UNCHANGED <<books, profile, keys, act, queue, work, history, failures>>

\* checkAndExpireMatches: its updates wait for a request that holds the row.
ExpiresMatches ==
  /\ pool.status = "active" /\ ~\E r \in Requests : PoolHolder(r)
  /\ \/ pool.expired /\ pool' = [pool EXCEPT !.status = "expired"]
     \/ ~pool.expired /\ pool.matched >= Cap /\ pool' = [pool EXCEPT !.status = "exhausted"]
  /\ UNCHANGED <<books, profile, keys, act, queue, work, history, failures>>

\* The profile job: the sum of the donor's donations ...
JobReads(w, d) ==
  /\ work[w].pc = "idle" /\ queue[d] > 0
  /\ queue' = [queue EXCEPT ![d] = @ - 1]
  /\ work' = [work EXCEPT ![w] = [pc |-> "write", donor |-> d, total |-> Total(d)]]
  /\ UNCHANGED <<books, profile, pool, keys, act, history, failures>>

\* ... is written over the profile, later and in no transaction with the read.
JobWrites(w) ==
  /\ work[w].pc = "write"
  /\ LET d == work[w].donor
     IN  /\ profile' = [profile EXCEPT ![d] = work[w].total]
         /\ history' = [history EXCEPT
                          !.profiles = IF work[w].total = Total(d) THEN @ \ {d} ELSE @ \cup {d}]
  /\ work' = [work EXCEPT ![w] = NoWork]
  /\ UNCHANGED <<books, pool, keys, act, queue, failures>>

-------------------------------------------------------------------------------
RecInit ==
  /\ direct = {} /\ indexed = {} /\ matched = [p \in Payments |-> 0]
  /\ raised = [j \in Projects |-> 0] /\ donorCount = [j \in Projects |-> 0]
  /\ profile = [d \in Donors |-> 0]
  /\ pool = [matched |-> 0, status |-> "active", expired |-> FALSE]
  /\ keys = [k \in Keys |-> NoKey]
  /\ act = [a \in Actors |-> Fresh]
  /\ queue = [d \in Donors |-> 0] /\ work = [w \in Jobs |-> NoWork]
  /\ history = [pool |-> FALSE, counts |-> {}, profiles |-> {}, expired |-> {}]
  /\ failures = MaxFailures

RequestRuns(r) ==
  \/ LooksUpKey(r) \/ ClaimsKey(r) \/ RereadsKey(r) \/ Deduplicates(r) \/ Inserts(r)
  \/ ReadsPools(r) \/ FillsPool(r) \/ StartsUpdate(r)
  \/ RequestCommits(r) \/ Answers(r)

HandlerRuns(h) ==
  \/ (\E p \in Payments : HandlerInserts(h, p)) \/ StartsUpdate(h) \/ ReadsProfile(h) \/ HandlerCommits(h)

RecNext ==
  \/ \E r \in Requests : \/ RequestRuns(r) \/ Abandoned(r)
                          \/ \E k \in Keys, p \in Payments : Arrives(r, k, p)
  \/ \E h \in Handlers : HandlerRuns(h)
  \/ \E a \in Actors : Fails(a)
  \/ \E k \in Keys : KeyExpires(k) \/ RunCleanup(k)
  \/ PoolExpires \/ ExpiresMatches
  \/ \E w \in Jobs : JobWrites(w) \/ \E d \in Donors : JobReads(w, d)

RecSpec == RecInit /\ [][RecNext]_recVars

-------------------------------------------------------------------------------
(* Properties                                                              *)

\* Every variable has its type, and a pool is exhausted only at its cap.
RecTypeOK ==
  /\ direct \subseteq Payments /\ indexed \subseteq Payments
  /\ matched \in [Payments -> Nat]
  /\ raised \in [Projects -> Nat] /\ donorCount \in [Projects -> Nat]
  /\ profile \in [Donors -> Nat]
  /\ pool \in [matched : Nat, status : {"active", "expired", "exhausted"}, expired : BOOLEAN]
  /\ pool.status = "exhausted" => pool.matched >= Cap
  /\ \A k \in Keys : keys[k] \in [state : {"absent", "processing", "final", "expired"},
                                  of : Payments]
  /\ \A a \in Actors : act[a].gave >= 0 /\ act[a].seen \subseteq Donors \cup {Matcher}
  /\ queue \in [Donors -> 0 .. Cardinality(Jobs)]
  /\ \A w \in Jobs : work[w].donor \in Donors

\* Totals are sums: raised_xlm of the rows of the project, whichever program wrote
\* them (the matcher's rows are not in it), matched_xlm of the pool's rows.
TotalsAddUp ==
  /\ \A j \in Projects :
       raised[j] = Sum({p \in direct : ProjectOf[p] = j}) + Sum({p \in indexed : ProjectOf[p] = j})
  /\ pool.matched = SumFunctionOnSet(matched, Payments)

\* The pool gives no more than its cap, unless a request computed its match from
\* a room that another had used by then (recordDonation reads without a lock).
WithinCap == pool.matched <= Cap \/ history.pool

\* donor_count is the number of the project's donors, unless its last update had
\* begun before a donation that committed first: it then waits for the row, and
\* its sub-select does not see what committed meanwhile.
DonorCountFresh ==
  \A j \in Projects \ history.counts : donorCount[j] = Cardinality(DonorsOf(j))

\* With no profile job waiting or running, a donor's profile is the sum of the
\* donor's donations, unless two writers of it overlapped or a job was lost; the
\* next job puts it right.
ProfileIsTotal ==
  \A d \in Donors \ history.profiles :
    queue[d] = 0 /\ (\A w \in Jobs : work[w].pc = "write" => work[w].donor # d)
      => profile[d] = Total(d)

\* Of the requests of a key at most one is processed, while the key does not
\* expire (ON CONFLICT DO NOTHING, "exactly one ... wins").
ProcessedOnce ==
  \A k \in Keys \ history.expired : \A q, r \in Requests :
    /\ KeyOf(q) = k /\ KeyOf(r) = k
    /\ act[q].got \in {"created", "duplicate", "error"}
    /\ act[r].got \in {"created", "duplicate", "error"}
    => q = r

\* When a client has its final response, a replay of its key reads that one and
\* not the placeholder (idempotency.js: the response is stored before it is sent).
ReplayIsFinal ==
  \A r \in Requests :
    /\ act[r].pc = "done" /\ act[r].got \in {"created", "duplicate", "error"}
    /\ KeyOf(r) \notin history.expired
    => keys[KeyOf(r)].state = "final"

\* A payment is in the donations table once.  Violated: the unique indexes do not
\* relate the row of a request to that of the indexer.
CountedOnce == direct \cap indexed = {}

\* The books of a donation agree, whoever wrote them: the totals, the pool, the count of
\* donors and the donors' profiles.
BooksAddUp == RecTypeOK /\ TotalsAddUp /\ WithinCap /\ DonorCountFresh /\ ProfileIsTotal

\* A key is processed once, and its replays read the final response.
KeyAnswersOnce == ProcessedOnce /\ ReplayIsFinal
===============================================================================
