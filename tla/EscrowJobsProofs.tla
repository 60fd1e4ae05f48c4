--------------------------- MODULE EscrowJobsProofs ---------------------------
(***************************************************************************)
(* Theorems about EscrowJobs for every value of its constants: the         *)
(* rounding of shares, the quorum of the admins, the accounting of job     *)
(* slots, what the status of a job says of its milestones, types, the      *)
(* money that the contract holds, and the freelancers' records.            *)
(***************************************************************************)
EXTENDS EscrowJobs, SumTheorems

-------------------------------------------------------------------------------
(* Shares.                                                                 *)

\* The comment of compute_proportional_payout: dividing first "preserves floor
\* division exactly".
THEOREM ShareIsFloor ==
  ASSUME NEW amount \in Nat, NEW percentage \in 0 .. 100
  PROVE  Share(amount, percentage) = (amount * percentage) \div 100
<1> DEFINE q == amount \div 100
           r == amount % 100
           x == q * percentage
           y == r * percentage
<1>1. q \in Nat /\ r \in 0 .. 99 /\ amount = 100 * q + r
  OBVIOUS
<1>2. x \in Nat /\ y \in Nat
  BY <1>1
<1>3. amount * percentage = 100 * x + y
  BY <1>1
<1>4. (100 * x + y) \div 100 = x + y \div 100
  <2> HIDE DEF x, y
  <2> QED BY <1>2
<1>5. CASE percentage = 100
  <2>1. (amount * 100) \div 100 = amount
    OBVIOUS
  <2> QED BY <1>5, <2>1 DEF Share
<1>6. CASE percentage # 100
  BY <1>3, <1>4, <1>6 DEF Share
<1> QED BY <1>5, <1>6

\* No share exceeds the amount it is a share of, so no intermediate value of
\* the payout overflows when the amount itself does not.
THEOREM ShareWithinAmount ==
  ASSUME NEW amount \in Nat, NEW percentage \in 0 .. 100
  PROVE  Share(amount, percentage) \in 0 .. amount
<1> DEFINE p == amount * percentage
<1>1. p \in Nat /\ p <= 100 * amount
  <2>1. amount * percentage <= amount * 100
    OBVIOUS
  <2> QED BY <2>1
<1>2. p \div 100 \in 0 .. amount
  <2> HIDE DEF p
  <2> QED BY <1>1
<1> QED BY <1>2, ShareIsFloor

-------------------------------------------------------------------------------
(* The admins.                                                             *)

AdminInv == admins \subseteq People /\ threshold \in Nat /\ AdminsCanAct

LEMMA AdminInvInit == Init => AdminInv
<1> SUFFICES ASSUME Init PROVE AdminInv
  OBVIOUS
<1>1. IsFiniteSet(admins)
  BY EscrowAssumption, FS_Subset DEF Init
<1>2. Cardinality(admins) \in Nat
  BY <1>1, FS_CardinalityType
<1> QED BY <1>2 DEF Init, AdminInv, AdminsCanAct

LEMMA AdminInvStep == AdminInv /\ [Next]_vars => AdminInv'
<1> SUFFICES ASSUME AdminInv, [Next]_vars PROVE AdminInv'
  OBVIOUS
<1> USE DEF AdminInv, AdminsCanAct
<1>0. IsFiniteSet(admins) /\ Cardinality(admins) \in Nat
  BY EscrowAssumption, FS_Subset, FS_CardinalityType
<1>1. CASE UNCHANGED quorum
  BY <1>1 DEF quorum
<1>2. ASSUME NEW p \in People, AddAdmin(p) PROVE AdminInv'
  <2>1. Cardinality(admins \cup {p}) = Cardinality(admins) + 1
    BY <1>0, <1>2, FS_AddElement DEF AddAdmin
  <2> QED BY <1>0, <1>2, <2>1 DEF AddAdmin
<1>3. ASSUME NEW p \in People, RemoveAdmin(p) PROVE AdminInv'
  BY <1>3 DEF RemoveAdmin
<1>4. ASSUME NEW n, UpdateThreshold(n) PROVE AdminInv'
  BY <1>0, <1>4 DEF UpdateThreshold
<1>5. CASE ManageAdmins
  BY <1>2, <1>3, <1>4, <1>5 DEF ManageAdmins
<1>6. ASSUME NEW id \in Ids, ClientCalls(id) PROVE UNCHANGED quorum
  BY <1>6 DEF ClientCalls, CreateJob, AmendJobMilestones, ReleaseMilestone,
     ClaimMilestone, PayMilestone, RefundExpiredJob, quorum
<1>7. ASSUME NEW id \in Ids, DisputeCalls(id) PROVE UNCHANGED quorum
  BY <1>7 DEF DisputeCalls, DisputeJob, ResolveDispute, DisputeMilestone,
     ResolveMilestoneDispute, PayMilestone, UpdateReleaseAfter, quorum
<1>8. CASE CleanupCompletedJobs \/ LedgerCloses
  BY <1>1, <1>8 DEF CleanupCompletedJobs, LedgerCloses, quorum
<1>9. CASE UNCHANGED vars
  BY <1>1, <1>9 DEF vars, quorum
<1> QED BY <1>1, <1>5, <1>6, <1>7, <1>8, <1>9 DEF Next, AdminCalls

\* The admins always remain enough to act, whatever they add, remove and set.
THEOREM QuorumSafe == Spec => []AdminsCanAct
<1>1. AdminInv => AdminsCanAct
  BY DEF AdminInv
<1> QED BY AdminInvInit, AdminInvStep, <1>1, PTL DEF Spec

-------------------------------------------------------------------------------
(* The shape of the stored jobs.                                           *)

Boards == UNION {[1 .. n -> Milestones] : n \in Nat \ {0}}

Shaped == [amount : Int, status : Statuses, milestones : Boards,
           disputed : BOOLEAN, release_after : Nat, deadline : Nat]

JobsShaped == now \in Nat /\ jobs \in [Ids -> Shaped \cup {NoJob}]

LEMMA NoJobUnshaped == NoJob \notin Shaped
BY DEF NoJob, Shaped, Statuses

LEMMA LiveShaped ==
  ASSUME JobsShaped, NEW id \in Ids, Live(id)
  PROVE  jobs[id] \in Shaped
BY DEF JobsShaped, Live

\* New milestones of a valid plan make a board.
LEMMA PlanMakesBoard ==
  ASSUME NEW plan \in Plans, ValidPlan(plan),
         NEW F \in [DOMAIN plan -> BOOLEAN], NEW G \in [DOMAIN plan -> BOOLEAN]
  PROVE  [i \in DOMAIN plan |->
           [percentage |-> plan[i], released |-> F[i], disputed |-> G[i]]] \in Boards
<1>1. plan \in Seq(Nat) /\ plan # <<>>
  BY EscrowAssumption DEF ValidPlan
<1>2. Len(plan) \in Nat \ {0} /\ DOMAIN plan = 1 .. Len(plan)
  BY <1>1
<1>3. \A i \in DOMAIN plan : plan[i] \in Nat
  BY <1>1, <1>2
<1> DEFINE n  == Len(plan)
           ms == [i \in DOMAIN plan |->
                   [percentage |-> plan[i], released |-> F[i], disputed |-> G[i]]]
<1>4. ASSUME NEW i \in 1 .. n
      PROVE  [percentage |-> plan[i], released |-> F[i], disputed |-> G[i]] \in Milestones
  BY <1>2, <1>3 DEF Milestones
<1>5. ms \in [1 .. n -> Milestones]
  BY <1>2, <1>4
<1> HIDE DEF ms
<1>6. ms \in Boards
  BY <1>2, <1>5 DEF Boards
<1> QED BY <1>6 DEF ms

\* A milestone that is set anew leaves a board.
LEMMA BoardExcept ==
  ASSUME NEW ms \in Boards, NEW i \in DOMAIN ms, NEW m \in Milestones
  PROVE  [ms EXCEPT ![i] = m] \in Boards /\ DOMAIN [ms EXCEPT ![i] = m] = DOMAIN ms
BY DEF Boards

LEMMA BoardEntries ==
  ASSUME NEW ms \in Boards
  PROVE  /\ DOMAIN ms # {}
         /\ \A i \in DOMAIN ms : ms[i] \in Milestones
<1>1. PICK n \in Nat \ {0} : ms \in [1 .. n -> Milestones]
  BY DEF Boards
<1>2. 1 \in 1 .. n
  OBVIOUS
<1> QED BY <1>1, <1>2

\* A board whose milestones are all rewritten is a board.
LEMMA BoardMap ==
  ASSUME NEW ms \in Boards, NEW F \in [DOMAIN ms -> Milestones]
  PROVE  F \in Boards
BY DEF Boards

-------------------------------------------------------------------------------
(* What the status of a job says of its milestones.                        *)

\* What the theorems below assume of the clients: nobody creates a job with
\* milestones that are already released.
FreshSubmissions == \A f \in Submitted : ~f.released

\* What the flags of a job say, refunded or not.
Flagged(job) ==
  /\ job.status = "Escrowed" => ~job.disputed
  /\ \A i \in DOMAIN job.milestones :
       job.milestones[i].disputed => ~job.milestones[i].released
  /\ job.disputed =>
       \/ AnyDisputed(job.milestones)
       \/ AllReleased(job.milestones) /\ job.status = "Disputed"

\* What its status says, until it is refunded.
Consistent(job) ==
  /\ job.status = "Escrowed" => Released(job.milestones) = {}
  /\ job.status = "Completed" => AllReleased(job.milestones)
  /\ AllReleased(job.milestones) => job.status \in {"Completed", "Disputed"}
  /\ job.disputed => job.status = "Disputed"

JobInv ==
  /\ JobsShaped
  /\ FreshSubmissions =>
       \A id \in Ids : Live(id) =>
         Flagged(jobs[id]) /\ (id \notin refunded => Consistent(jobs[id]))

\* After a call the job it is about is live, and the others are as they were.
Lives(id) == Live(id)' /\ \A other \in Ids \ {id} : Live(other)' = Live(other)

\* A call that writes one job keeps the invariant if what it writes is sound.
LEMMA PutKeeps ==
  ASSUME JobInv, NEW id \in Ids, NEW job \in Shaped,
         jobs' = [jobs EXCEPT ![id] = job], now' = now,
         refunded \subseteq refunded',
         FreshSubmissions => Flagged(job) /\ (id \notin refunded' => Consistent(job))
  PROVE  JobInv' /\ Lives(id)
<1>1. JobsShaped'
  BY DEF JobInv, JobsShaped
<1>2. jobs'[id] = job /\ \A other \in Ids \ {id} : jobs'[other] = jobs[other]
  BY DEF JobInv, JobsShaped
<1>3. ASSUME FreshSubmissions, NEW other \in Ids, Live(other)'
      PROVE  Flagged(jobs[other])' /\ (other \notin refunded' => Consistent(jobs[other])')
  <2>1. CASE other = id
    BY <1>2, <1>3, <2>1 DEF Consistent, Flagged
  <2>2. CASE other # id
    BY <1>2, <1>3, <2>2 DEF Consistent, Flagged, Live, JobInv
  <2> QED BY <2>1, <2>2
<1>4. Lives(id)
  BY <1>2, NoJobUnshaped DEF Lives, Live
<1> QED BY <1>1, <1>3, <1>4 DEF JobInv

LEMMA CreateKeeps ==
  ASSUME JobInv, NEW id \in Ids, NEW amount \in Amounts, NEW plan \in Plans,
         NEW window \in Windows, NEW flags \in [DOMAIN plan -> Submitted],
         CreateJob(id, amount, plan, flags, window)
  PROVE  JobInv' /\ Lives(id)
<1> DEFINE ms  == [i \in DOMAIN plan |->
                    [percentage |-> plan[i], released |-> flags[i].released,
                     disputed |-> flags[i].disputed]]
           job == [amount |-> amount, status |-> "Escrowed", milestones |-> ms,
                   disputed |-> FALSE, release_after |-> now + window,
                   deadline |-> now + DEFAULT_DEADLINE_LEDGERS]
<1>1. ms \in Boards
  <2> DEFINE F == [i \in DOMAIN plan |-> flags[i].released]
             G == [i \in DOMAIN plan |-> flags[i].disputed]
  <2>1. F \in [DOMAIN plan -> BOOLEAN] /\ G \in [DOMAIN plan -> BOOLEAN]
    BY EscrowAssumption
  <2>2. ms = [i \in DOMAIN plan |->
               [percentage |-> plan[i], released |-> F[i], disputed |-> G[i]]]
    OBVIOUS
  <2>3. ValidPlan(plan)
    BY DEF CreateJob
  <2> HIDE DEF F, G, ms
  <2> QED BY <2>1, <2>2, <2>3, PlanMakesBoard
<1>2. FreshSubmissions => \A i \in DOMAIN ms : ~ms[i].released
  BY DEF FreshSubmissions
<1> HIDE DEF ms
<1>3. job \in Shaped
  BY <1>1, EscrowAssumption DEF Shaped, Statuses, JobInv, JobsShaped
<1>4. DOMAIN ms # {}
  BY <1>1, BoardEntries
<1>5. FreshSubmissions => Flagged(job) /\ Consistent(job)
  BY <1>2, <1>4 DEF Flagged, Consistent, Released, AllReleased
<1>6. jobs' = [jobs EXCEPT ![id] = job] /\ now' = now /\ refunded' = refunded
  BY DEF CreateJob, ms
<1> HIDE DEF job
<1> QED BY <1>3, <1>5, <1>6, PutKeeps

LEMMA AmendKeeps ==
  ASSUME JobInv, NEW id \in Ids, NEW plan \in Plans, AmendJobMilestones(id, plan)
  PROVE  JobInv' /\ Lives(id)
<1> DEFINE old == jobs[id]
           ms  == [i \in DOMAIN plan |->
                    [percentage |-> plan[i], released |-> FALSE, disputed |-> FALSE]]
           job == [old EXCEPT !.milestones = ms]
<1>0. Live(id) /\ old \in Shaped /\ old.status = "Escrowed"
  BY LiveShaped DEF AmendJobMilestones, JobInv
<1>1. ms \in Boards
  <2> DEFINE F == [i \in DOMAIN plan |-> FALSE]
  <2>1. F \in [DOMAIN plan -> BOOLEAN]
    OBVIOUS
  <2>2. ms = [i \in DOMAIN plan |->
               [percentage |-> plan[i], released |-> F[i], disputed |-> F[i]]]
    OBVIOUS
  <2>3. ValidPlan(plan)
    BY DEF AmendJobMilestones
  <2> HIDE DEF F, ms
  <2> QED BY <2>1, <2>2, <2>3, PlanMakesBoard
<1>2. \A i \in DOMAIN ms : ~ms[i].released
  OBVIOUS
<1>3. jobs' = [jobs EXCEPT ![id] = job] /\ now' = now /\ refunded' = refunded
  BY DEF AmendJobMilestones, Put, funds
<1> HIDE DEF ms
<1>4. /\ job \in Shaped /\ job.milestones = ms /\ job.status = "Escrowed"
      /\ job.disputed = old.disputed
  BY <1>0, <1>1 DEF Shaped
<1>5. DOMAIN ms # {}
  BY <1>1, BoardEntries
<1>6. FreshSubmissions => ~old.disputed
  BY <1>0 DEF JobInv, Flagged
<1>7. FreshSubmissions => Flagged(job) /\ Consistent(job)
  BY <1>2, <1>4, <1>5, <1>6 DEF Flagged, Consistent, Released, AllReleased
<1> HIDE DEF job
<1> QED BY <1>3, <1>4, <1>7, PutKeeps

\* Release, claim and resolution of a milestone; flag is what becomes of the
\* dispute of the job.
LEMMA PayKeeps ==
  ASSUME JobInv, NEW id \in Ids, Live(id), NEW i \in DOMAIN jobs[id].milestones,
         NEW flag \in BOOLEAN, PayMilestone(id, i, flag),
         FreshSubmissions =>
           (flag => \E k \in DOMAIN jobs[id].milestones :
                      k # i /\ jobs[id].milestones[k].disputed)
  PROVE  JobInv' /\ Lives(id)
<1> DEFINE old == jobs[id]
           oms == old.milestones
           ms  == [oms EXCEPT ![i] = [@ EXCEPT !.released = TRUE, !.disputed = FALSE]]
           m   == [oms[i] EXCEPT !.released = TRUE, !.disputed = FALSE]
           s   == StatusOf(ms)
           job == [old EXCEPT !.milestones = ms, !.status = s, !.disputed = flag]
<1>0. old \in Shaped /\ oms \in Boards
  <2>1. old \in Shaped
    BY LiveShaped DEF JobInv
  <2> QED BY <2>1 DEF Shaped
<1>1. oms[i] \in Milestones
  BY <1>0, BoardEntries
<1>2. m \in Milestones /\ m.released /\ ~m.disputed
  BY <1>1 DEF Milestones
<1>3. ms = [oms EXCEPT ![i] = m]
  OBVIOUS
<1>4. jobs' = [jobs EXCEPT ![id] = job] /\ now' = now /\ refunded' = refunded
  BY DEF PayMilestone, Put
<1> HIDE DEF ms, m
<1>5. ms \in Boards /\ DOMAIN ms = DOMAIN oms
  BY <1>0, <1>2, <1>3, BoardExcept
<1>6. ms[i] = m /\ \A k \in DOMAIN oms : k # i => ms[k] = oms[k]
  BY <1>0, <1>3 DEF Boards
<1>7. s \in Statuses
  BY DEF StatusOf, Statuses
<1>8. job \in Shaped /\ job.milestones = ms /\ job.status = s /\ job.disputed = flag
  <2> HIDE DEF old, s
  <2> QED BY <1>0, <1>5, <1>7 DEF Shaped
<1>9. FreshSubmissions => Flagged(job) /\ Consistent(job)
  <2> SUFFICES ASSUME FreshSubmissions PROVE Flagged(job) /\ Consistent(job)
    OBVIOUS
  <2>1. flag => AnyDisputed(ms) /\ ~AllReleased(ms)
    <3> SUFFICES ASSUME flag PROVE AnyDisputed(ms) /\ ~AllReleased(ms)
      OBVIOUS
    <3>1. PICK k \in DOMAIN oms : k # i /\ oms[k].disputed
      OBVIOUS
    <3>2. ms[k].disputed /\ ~ms[k].released
      BY <1>6, <3>1 DEF JobInv, Flagged
    <3> QED BY <1>5, <3>2 DEF AnyDisputed, AllReleased
  <2>2. StatusOf(ms) # "Escrowed"
    BY DEF StatusOf
  <2>3. \A k \in DOMAIN ms : ms[k].disputed => ~ms[k].released
    BY <1>2, <1>5, <1>6 DEF JobInv, Flagged
  <2>4. s = "Completed" => AllReleased(ms)
    BY DEF StatusOf
  <2>5. AllReleased(ms) => s = "Completed"
    BY DEF StatusOf
  <2>6. flag => s = "Disputed"
    BY <2>1 DEF StatusOf
  <2> HIDE DEF s
  <2> QED BY <1>8, <2>1, <2>2, <2>3, <2>4, <2>5, <2>6 DEF Flagged, Consistent, s
<1> HIDE DEF job
<1> QED BY <1>4, <1>8, <1>9, PutKeeps

\* A live job, its milestones and their entries have their shapes.
LEMMA LiveParts ==
  ASSUME JobInv, NEW id \in Ids, Live(id)
  PROVE  /\ jobs[id] \in Shaped
         /\ jobs[id].milestones \in Boards
         /\ DOMAIN jobs[id].milestones # {}
         /\ \A i \in DOMAIN jobs[id].milestones : jobs[id].milestones[i] \in Milestones
<1>1. jobs[id] \in Shaped
  BY LiveShaped DEF JobInv
<1>2. jobs[id].milestones \in Boards
  BY <1>1 DEF Shaped
<1> QED BY <1>1, <1>2, BoardEntries

LEMMA RefundKeeps ==
  ASSUME JobInv, NEW id \in Ids, RefundExpiredJob(id)
  PROVE  JobInv' /\ Lives(id)
<1> DEFINE job == [jobs[id] EXCEPT !.status = "Completed"]
<1>0. Live(id) /\ Released(jobs[id].milestones) = {}
  BY DEF RefundExpiredJob
<1>1. /\ job \in Shaped /\ job.milestones = jobs[id].milestones
      /\ job.status = "Completed" /\ job.disputed = jobs[id].disputed
  BY <1>0, LiveParts DEF Shaped, Statuses
<1>2. jobs' = [jobs EXCEPT ![id] = job] /\ now' = now /\ refunded' = refunded \cup {id}
  BY DEF RefundExpiredJob, Put
<1> HIDE DEF job
<1>3. ~AllReleased(jobs[id].milestones)
  BY <1>0, LiveParts DEF AllReleased, Released
<1>4. FreshSubmissions => Flagged(job)
  BY <1>0, <1>1, <1>3 DEF JobInv, Flagged
<1> QED BY <1>1, <1>2, <1>4, PutKeeps

LEMMA DisputeJobKeeps ==
  ASSUME JobInv, NEW id \in Ids, DisputeJob(id)
  PROVE  JobInv' /\ Lives(id)
<1> DEFINE oms == jobs[id].milestones
           ms  == [i \in DOMAIN oms |->
                    [oms[i] EXCEPT !.disputed = @ \/ ~oms[i].released]]
           job == [jobs[id] EXCEPT !.milestones = ms, !.status = "Disputed",
                                   !.disputed = TRUE]
<1>0. Live(id)
  BY DEF DisputeJob
<1>1. ASSUME NEW i \in DOMAIN oms
      PROVE  /\ ms[i] \in Milestones
             /\ ms[i].released = oms[i].released
             /\ ms[i].disputed = (oms[i].disputed \/ ~oms[i].released)
  <2> DEFINE b == oms[i].disputed \/ ~oms[i].released
  <2>1. oms[i] \in Milestones
    BY <1>0, LiveParts
  <2>2. b \in BOOLEAN
    OBVIOUS
  <2>3. ms[i] = [oms[i] EXCEPT !.disputed = b]
    OBVIOUS
  <2> HIDE DEF b
  <2>4. /\ [oms[i] EXCEPT !.disputed = b] \in Milestones
        /\ [oms[i] EXCEPT !.disputed = b].released = oms[i].released
        /\ [oms[i] EXCEPT !.disputed = b].disputed = b
    BY <2>1, <2>2 DEF Milestones
  <2> HIDE DEF ms
  <2> QED BY <2>3, <2>4 DEF b
<1>2. ms \in [DOMAIN oms -> Milestones]
  <2>1. DOMAIN ms = DOMAIN oms
    OBVIOUS
  <2>2. ms = [i \in DOMAIN oms |-> ms[i]]
    OBVIOUS
  <2> HIDE DEF ms
  <2> QED BY <1>1, <2>1, <2>2
<1>3. jobs' = [jobs EXCEPT ![id] = job] /\ now' = now /\ refunded' = refunded
  BY DEF DisputeJob, Put, funds
<1> HIDE DEF ms
<1>4. ms \in Boards /\ DOMAIN ms = DOMAIN oms
  BY <1>0, <1>2, LiveParts, BoardMap
<1>5. job \in Shaped /\ job.milestones = ms /\ job.status = "Disputed" /\ job.disputed
  BY <1>0, <1>4, LiveParts DEF Shaped, Statuses
<1>6. AnyDisputed(ms) \/ AllReleased(ms)
  BY <1>1, <1>4 DEF AnyDisputed, AllReleased
<1>7. FreshSubmissions => Flagged(job) /\ Consistent(job)
  BY <1>0, <1>1, <1>4, <1>5, <1>6 DEF JobInv, Flagged, Consistent
<1> HIDE DEF job
<1> QED BY <1>3, <1>5, <1>7, PutKeeps

LEMMA ResolveDisputeKeeps ==
  ASSUME JobInv, NEW id \in Ids, ResolveDispute(id)
  PROVE  JobInv' /\ Lives(id)
<1> DEFINE oms == jobs[id].milestones
           ms  == [i \in DOMAIN oms |->
                    [oms[i] EXCEPT !.released = TRUE, !.disputed = FALSE]]
           job == [jobs[id] EXCEPT !.milestones = ms, !.status = "Completed",
                                   !.disputed = FALSE]
<1>0. Live(id)
  BY DEF ResolveDispute
<1>1. ASSUME NEW i \in DOMAIN oms
      PROVE  ms[i] \in Milestones /\ ms[i].released /\ ~ms[i].disputed
  BY <1>0, LiveParts DEF Milestones
<1>2. ms \in [DOMAIN oms -> Milestones]
  <2>1. DOMAIN ms = DOMAIN oms
    OBVIOUS
  <2>2. ms = [i \in DOMAIN oms |-> ms[i]]
    OBVIOUS
  <2> HIDE DEF ms
  <2> QED BY <1>1, <2>1, <2>2
<1>3. jobs' = [jobs EXCEPT ![id] = job] /\ now' = now /\ refunded' = refunded
  BY DEF ResolveDispute, Put
<1> HIDE DEF ms
<1>4. ms \in Boards /\ DOMAIN ms = DOMAIN oms
  BY <1>0, <1>2, LiveParts, BoardMap
<1>5. job \in Shaped /\ job.milestones = ms /\ job.status = "Completed" /\ ~job.disputed
  BY <1>0, <1>4, LiveParts DEF Shaped, Statuses
<1>6. Flagged(job) /\ Consistent(job)
  BY <1>1, <1>4, <1>5 DEF Flagged, Consistent, AllReleased
<1> HIDE DEF job
<1> QED BY <1>3, <1>5, <1>6, PutKeeps

LEMMA DisputeMilestoneKeeps ==
  ASSUME JobInv, NEW id \in Ids, NEW i \in DOMAIN jobs[id].milestones,
         DisputeMilestone(id, i)
  PROVE  JobInv' /\ Lives(id)
<1> DEFINE oms == jobs[id].milestones
           m   == [oms[i] EXCEPT !.disputed = TRUE]
           ms  == [oms EXCEPT ![i] = m]
           job == [jobs[id] EXCEPT !.milestones = ms, !.status = "Disputed",
                                   !.disputed = TRUE]
<1>0. Live(id) /\ ~oms[i].released
  BY DEF DisputeMilestone, Payable
<1>1. m \in Milestones /\ m.disputed /\ ~m.released
  BY <1>0, LiveParts DEF Milestones
<1>2. jobs' = [jobs EXCEPT ![id] = job] /\ now' = now /\ refunded' = refunded
  BY DEF DisputeMilestone, Put, funds
<1> HIDE DEF m
<1>3. ms \in Boards /\ DOMAIN ms = DOMAIN oms
  BY <1>0, <1>1, LiveParts, BoardExcept
<1>4. ms[i] = m /\ \A k \in DOMAIN oms : k # i => ms[k] = oms[k]
  BY <1>0, LiveParts DEF Boards
<1> HIDE DEF ms
<1>5. job \in Shaped /\ job.milestones = ms /\ job.status = "Disputed" /\ job.disputed
  BY <1>0, <1>3, LiveParts DEF Shaped, Statuses
<1>6. AnyDisputed(ms)
  BY <1>1, <1>3, <1>4 DEF AnyDisputed
<1>7. ~AllReleased(ms)
  BY <1>1, <1>3, <1>4 DEF AllReleased
<1>8. FreshSubmissions => Flagged(job) /\ Consistent(job)
  BY <1>0, <1>1, <1>3, <1>4, <1>5, <1>6, <1>7 DEF JobInv, Flagged, Consistent
<1> HIDE DEF job
<1> QED BY <1>2, <1>5, <1>8, PutKeeps

LEMMA UpdateKeeps ==
  ASSUME JobInv, NEW id \in Ids, NEW ledger \in Nat, UpdateReleaseAfter(id, ledger)
  PROVE  JobInv' /\ Lives(id)
<1> DEFINE job == [jobs[id] EXCEPT !.release_after = ledger]
<1>0. Live(id)
  BY DEF UpdateReleaseAfter
<1>1. /\ job \in Shaped /\ job.milestones = jobs[id].milestones
      /\ job.status = jobs[id].status /\ job.disputed = jobs[id].disputed
  BY <1>0, LiveParts DEF Shaped
<1>2. jobs' = [jobs EXCEPT ![id] = job] /\ now' = now /\ refunded' = refunded
  BY DEF UpdateReleaseAfter, Put, funds
<1> HIDE DEF job
<1>3. FreshSubmissions => Flagged(job) /\ (id \notin refunded => Consistent(job))
  BY <1>0, <1>1 DEF JobInv, Flagged, Consistent
<1> QED BY <1>1, <1>2, <1>3, PutKeeps

\* A step that at most removes jobs keeps the invariant.
LEMMA RemovalKeeps ==
  ASSUME JobInv, now' \in Nat, refunded' = refunded, NEW gone,
         jobs' = [id \in Ids |-> IF id \in gone THEN NoJob ELSE jobs[id]]
  PROVE  JobInv'
BY DEF JobInv, JobsShaped, Live, Flagged, Consistent

LEMMA SameJobsKeeps ==
  ASSUME JobInv, now' \in Nat, refunded' = refunded, jobs' = jobs
  PROVE  JobInv'
BY DEF JobInv, JobsShaped, Live, Flagged, Consistent

LEMMA ClientKeeps ==
  ASSUME JobInv, NEW id \in Ids, ClientCalls(id)
  PROVE  JobInv' /\ Lives(id)
<1>1. ASSUME NEW amount \in Amounts, NEW plan \in Plans, NEW window \in Windows,
             NEW flags \in [DOMAIN plan -> Submitted],
             CreateJob(id, amount, plan, flags, window)
      PROVE  JobInv' /\ Lives(id)
  BY <1>1, CreateKeeps
<1>2. ASSUME NEW plan \in Plans, AmendJobMilestones(id, plan) PROVE JobInv' /\ Lives(id)
  BY <1>2, AmendKeeps
<1>3. ASSUME NEW i \in Indices(id), ReleaseMilestone(id, i) \/ ClaimMilestone(id, i)
      PROVE  JobInv' /\ Lives(id)
  <2> DEFINE flag == jobs[id].disputed
  <2>1. /\ Live(id) /\ i \in DOMAIN jobs[id].milestones
        /\ ~jobs[id].milestones[i].disputed /\ ~jobs[id].milestones[i].released
        /\ PayMilestone(id, i, flag)
    BY <1>3 DEF ReleaseMilestone, ClaimMilestone, Payable
  <2>2. flag \in BOOLEAN
    BY <2>1, LiveParts DEF Shaped
  <2>3. FreshSubmissions =>
          (flag => \E k \in DOMAIN jobs[id].milestones :
                     k # i /\ jobs[id].milestones[k].disputed)
    BY <2>1 DEF JobInv, Flagged, AnyDisputed, AllReleased
  <2> HIDE DEF flag
  <2> QED BY <2>1, <2>2, <2>3, PayKeeps
<1>4. CASE RefundExpiredJob(id)
  BY <1>4, RefundKeeps
<1> QED BY <1>1, <1>2, <1>3, <1>4 DEF ClientCalls

LEMMA DisputesKeep ==
  ASSUME JobInv, NEW id \in Ids, DisputeCalls(id)
  PROVE  JobInv' /\ Lives(id)
<1>1. CASE DisputeJob(id)
  BY <1>1, DisputeJobKeeps
<1>2. CASE ResolveDispute(id)
  BY <1>2, ResolveDisputeKeeps
<1>3. ASSUME NEW i \in Indices(id), DisputeMilestone(id, i) PROVE JobInv' /\ Lives(id)
  <2>1. i \in DOMAIN jobs[id].milestones
    BY <1>3 DEF DisputeMilestone, Payable
  <2> QED BY <1>3, <2>1, DisputeMilestoneKeeps
<1>4. ASSUME NEW i \in Indices(id), ResolveMilestoneDispute(id, i)
      PROVE  JobInv' /\ Lives(id)
  <2> DEFINE oms  == jobs[id].milestones
             m    == [oms[i] EXCEPT !.disputed = FALSE]
             cms  == [oms EXCEPT ![i] = m]
             flag == AnyDisputed(cms)
  <2>1. Live(id) /\ i \in DOMAIN oms /\ PayMilestone(id, i, flag)
    BY <1>4 DEF ResolveMilestoneDispute
  <2>2. flag \in BOOLEAN
    BY DEF AnyDisputed
  <2>3. m \in Milestones /\ ~m.disputed
    BY <2>1, LiveParts DEF Milestones
  <2> HIDE DEF m
  <2>4. /\ DOMAIN cms = DOMAIN oms
        /\ cms[i] = m /\ \A k \in DOMAIN oms : k # i => cms[k] = oms[k]
    BY <2>1, LiveParts DEF Boards
  <2> HIDE DEF cms
  <2>5. flag => \E k \in DOMAIN oms : k # i /\ oms[k].disputed
    BY <2>3, <2>4 DEF AnyDisputed
  <2> HIDE DEF flag
  <2> QED BY <2>1, <2>2, <2>5, PayKeeps
<1>5. ASSUME NEW ledger \in 0 .. MaxLedger + DEFAULT_DEADLINE_LEDGERS,
             UpdateReleaseAfter(id, ledger)
      PROVE  JobInv' /\ Lives(id)
  <2>1. ledger \in Nat
    BY EscrowAssumption
  <2> QED BY <1>5, <2>1, UpdateKeeps
<1> QED BY <1>1, <1>2, <1>3, <1>4, <1>5 DEF DisputeCalls

LEMMA JobInvStep == JobInv /\ [Next]_vars => JobInv'
<1> SUFFICES ASSUME JobInv, [Next]_vars PROVE JobInv'
  OBVIOUS
<1>0. now \in Nat
  BY DEF JobInv, JobsShaped
<1>1. ASSUME NEW id \in Ids, ClientCalls(id) PROVE JobInv'
  BY <1>1, ClientKeeps
<1>2. ASSUME NEW id \in Ids, DisputeCalls(id) PROVE JobInv'
  BY <1>2, DisputesKeep
<1>3. CASE ManageAdmins
  BY <1>0, <1>3, SameJobsKeeps DEF ManageAdmins, store, funds
<1>4. CASE CleanupCompletedJobs
  <2> DEFINE gone == {id \in jobIds : Cleanable(id)}
  <2>1. /\ jobs' = [id \in Ids |-> IF id \in gone THEN NoJob ELSE jobs[id]]
        /\ now' = now /\ refunded' = refunded
    BY <1>4 DEF CleanupCompletedJobs, funds
  <2> HIDE DEF gone
  <2> QED BY <1>0, <2>1, RemovalKeeps
<1>5. CASE LedgerCloses
  BY <1>0, <1>5, SameJobsKeeps DEF LedgerCloses, store, funds
<1>6. CASE UNCHANGED vars
  BY <1>0, <1>6, SameJobsKeeps DEF vars, store, funds
<1> QED BY <1>1, <1>2, <1>3, <1>4, <1>5, <1>6 DEF Next, AdminCalls

LEMMA JobInvInit == Init => JobInv
BY DEF Init, JobInv, JobsShaped, Live

LEMMA JobInvSuffices == FreshSubmissions /\ JobInv => StatusMatches /\ DisputeStands
BY DEF JobInv, Flagged, Consistent, StatusMatches, DisputeStands

\* What the status of a job says of its milestones holds for every order of calls,
\* if clients create jobs with milestones that are not yet released.
THEOREM StatusSafe == ASSUME FreshSubmissions PROVE Spec => []StatusMatches
<1>1. JobInv => StatusMatches
  BY JobInvSuffices
<1> QED BY JobInvInit, JobInvStep, <1>1, PTL DEF Spec

\* Under the same assumption a disputed milestone stays unpaid, and a disputed job
\* stays in the store and can be resolved.
THEOREM DisputeSafe == ASSUME FreshSubmissions PROVE Spec => []DisputeStands
<1>1. JobInv => DisputeStands
  BY JobInvSuffices
<1> QED BY JobInvInit, JobInvStep, <1>1, PTL DEF Spec

-------------------------------------------------------------------------------
(* The slots of the store.                                                 *)

SlotInv == JobInv /\ SlotsAccounted

\* A call about a job that exists takes and frees no slot.
LEMMA SameSlots ==
  ASSUME SlotInv, NEW id \in Ids, Live(id), Lives(id), UNCHANGED <<jobIds, jobCount>>
  PROVE  SlotsAccounted'
<1>1. {x \in Ids : Live(x)}' = {x \in Ids : Live(x)}
  BY DEF Lives
<1> QED BY <1>1 DEF SlotInv, SlotsAccounted

LEMMA CreateTakesSlot ==
  ASSUME SlotInv, NEW id \in Ids, Lives(id), ~Live(id), jobCount < MAX_JOBS,
         jobIds' = jobIds \cup {id}, jobCount' = jobCount + 1
  PROVE  SlotsAccounted'
<1>1. jobIds' = {x \in Ids : Live(x)}'
  BY DEF SlotInv, SlotsAccounted, Lives
<1>2. IsFiniteSet(jobIds) /\ id \notin jobIds
  BY EscrowAssumption, FS_Subset DEF SlotInv, SlotsAccounted
<1>3. Cardinality(jobIds) \in Nat /\ Cardinality(jobIds') = Cardinality(jobIds) + 1
  BY <1>2, FS_CardinalityType, FS_AddElement
<1>4. jobCount' = Cardinality(jobIds') /\ jobCount' <= MAX_JOBS
  BY <1>3, EscrowAssumption DEF SlotInv, SlotsAccounted
<1> QED BY <1>1, <1>4 DEF SlotsAccounted

LEMMA CleanupFreesSlots ==
  ASSUME SlotInv, CleanupCompletedJobs
  PROVE  SlotsAccounted'
<1> DEFINE gone == {id \in jobIds : Cleanable(id)}
<1>1. /\ jobs' = [id \in Ids |-> IF id \in gone THEN NoJob ELSE jobs[id]]
      /\ jobIds' = jobIds \ gone /\ jobCount' = jobCount - Cardinality(gone)
  BY DEF CleanupCompletedJobs
<1>2. gone \subseteq jobIds
  OBVIOUS
<1> HIDE DEF gone
<1>3. jobIds' = {x \in Ids : Live(x)}'
  BY <1>1, <1>2 DEF SlotInv, SlotsAccounted, Live
<1>4. IsFiniteSet(jobIds)
  BY EscrowAssumption, FS_Subset DEF SlotInv, SlotsAccounted
<1>5. IsFiniteSet(gone) /\ jobIds \cap gone = gone
  BY <1>2, <1>4, FS_Subset
<1>6. Cardinality(jobIds \ gone) = Cardinality(jobIds) - Cardinality(gone)
  BY <1>4, <1>5, FS_Difference
<1>7. Cardinality(jobIds) \in Nat /\ Cardinality(gone) \in Nat
  BY <1>4, <1>5, FS_CardinalityType
<1>8. jobCount' = Cardinality(jobIds') /\ jobCount' <= MAX_JOBS
  BY <1>1, <1>6, <1>7, EscrowAssumption DEF SlotInv, SlotsAccounted
<1> QED BY <1>3, <1>8 DEF SlotsAccounted

LEMMA SlotInvStep == SlotInv /\ [Next]_vars => SlotInv'
<1> SUFFICES ASSUME SlotInv, [Next]_vars PROVE SlotsAccounted'
  BY JobInvStep DEF SlotInv
<1>0. JobInv
  BY DEF SlotInv
<1>1. ASSUME NEW id \in Ids, ClientCalls(id) PROVE SlotsAccounted'
  <2>0. Lives(id)
    BY <1>0, <1>1, ClientKeeps
  <2>1. ASSUME NEW amount, NEW plan, NEW window, NEW flags,
               CreateJob(id, amount, plan, flags, window)
        PROVE  SlotsAccounted'
    BY <2>0, <2>1, CreateTakesSlot DEF CreateJob
  <2>2. CASE Live(id) /\ UNCHANGED <<jobIds, jobCount>>
    BY <2>0, <2>2, SameSlots
  <2>3. ASSUME NEW plan, AmendJobMilestones(id, plan) PROVE SlotsAccounted'
    BY <2>2, <2>3 DEF AmendJobMilestones, Put
  <2>4. ASSUME NEW i, ReleaseMilestone(id, i) \/ ClaimMilestone(id, i)
        PROVE  SlotsAccounted'
    BY <2>2, <2>4 DEF ReleaseMilestone, ClaimMilestone, Payable, PayMilestone, Put
  <2>5. CASE RefundExpiredJob(id)
    BY <2>2, <2>5 DEF RefundExpiredJob, Put
  <2> QED BY <1>1, <2>1, <2>3, <2>4, <2>5 DEF ClientCalls
<1>2. ASSUME NEW id \in Ids, DisputeCalls(id) PROVE SlotsAccounted'
  <2>1. Lives(id)
    BY <1>0, <1>2, DisputesKeep
  <2>2. Live(id) /\ UNCHANGED <<jobIds, jobCount>>
    BY <1>2 DEF DisputeCalls, DisputeJob, ResolveDispute, DisputeMilestone, Payable,
       ResolveMilestoneDispute, PayMilestone, UpdateReleaseAfter, Put
  <2> QED BY <2>1, <2>2, SameSlots
<1>3. CASE CleanupCompletedJobs
  BY <1>3, CleanupFreesSlots
<1>4. CASE UNCHANGED store
  BY <1>4 DEF store, SlotInv, SlotsAccounted, Live
<1> QED BY <1>1, <1>2, <1>3, <1>4 DEF Next, AdminCalls, ManageAdmins, LedgerCloses, vars

LEMMA SlotInvInit == Init => SlotInv
BY JobInvInit, FS_EmptySet, EscrowAssumption DEF Init, SlotInv, SlotsAccounted, Live

\* The count, the list and the records of jobs agree, and the cap holds, for every
\* order of creation, cleanup and reuse of ids.
THEOREM SlotsSafe == Spec => []SlotsAccounted
<1>1. SlotInv => SlotsAccounted
  BY DEF SlotInv
<1> QED BY SlotInvInit, SlotInvStep, <1>1, PTL DEF Spec
-------------------------------------------------------------------------------
(* The types of the variables.                                             *)

Shares(job) ==
  [i \in DOMAIN job.milestones |-> Share(job.amount, job.milestones[i].percentage)]

\* The milestones of a job are finitely many, and what is released of them and what
\* remains are integers.
LEMMA MoneyTypes ==
  ASSUME NEW job \in Shaped
  PROVE  /\ IsFiniteSet(DOMAIN job.milestones) /\ DOMAIN job.milestones # {}
         /\ Released(job.milestones) \subseteq DOMAIN job.milestones
         /\ \A i \in DOMAIN job.milestones : Shares(job)[i] \in Int
         /\ ReleasedShares(job) = SumFunctionOnSet(Shares(job), Released(job.milestones))
         /\ ReleasedShares(job) \in Int /\ Remaining(job) \in Int
         /\ \A i \in DOMAIN job.milestones : Payout(job, i) \in Int
<1> DEFINE ms == job.milestones
<1>1. ms \in Boards /\ job.amount \in Int
  BY DEF Shaped
<1>2. PICK n \in Nat \ {0} : ms \in [1 .. n -> Milestones]
  BY <1>1 DEF Boards
<1>3. IsFiniteSet(DOMAIN ms) /\ DOMAIN ms # {}
  BY <1>1, <1>2, FS_Interval, BoardEntries
<1>4. ASSUME NEW i \in DOMAIN ms PROVE Shares(job)[i] \in Int
  <2>1. ms[i].percentage \in Nat
    BY <1>2 DEF Milestones
  <2>2. \A p \in Nat : Share(job.amount, p) \in Int
    BY <1>1 DEF Share
  <2> QED BY <2>1, <2>2 DEF Shares
<1>5. Released(ms) \subseteq DOMAIN ms /\ IsFiniteSet(Released(ms))
  BY <1>3, FS_Subset DEF Released
<1>6. ReleasedShares(job) = SumFunctionOnSet(Shares(job), Released(ms))
  BY DEF ReleasedShares, Shares
<1>7. ReleasedShares(job) \in Int
  <2>1. \A i \in Released(ms) : Shares(job)[i] \in Int
    BY <1>4, <1>5
  <2>2. SumFunctionOnSet(Shares(job), Released(ms)) \in Int
    BY <1>5, <2>1, SumInt
  <2> QED BY <1>6, <2>2
<1>8. Remaining(job) \in Int
  BY <1>1, <1>7 DEF Remaining
<1>9. ASSUME NEW i \in DOMAIN ms PROVE Payout(job, i) \in Int
  <2>1. Shares(job)[i] \in Int /\ Shares(job)[i] = Share(job.amount, ms[i].percentage)
    BY <1>4 DEF Shares
  <2> QED BY <1>1, <1>7, <2>1 DEF Payout
<1> QED BY <1>3, <1>4, <1>5, <1>6, <1>7, <1>8, <1>9

BooksTyped ==
  /\ reputation \in [{"total", "disputed", "completed"} -> Nat]
  /\ counted \subseteq Ids /\ refunded \subseteq Ids
  /\ balance \in Nat /\ paid \in [Ids -> Int]

TypeInv == SlotInv /\ AdminInv /\ BooksTyped

\* A transfer succeeds only with the balance for it.
LEMMA TransferTyped ==
  ASSUME BooksTyped, NEW id \in Ids, NEW x \in Int, Transfer(id, x)
  PROVE  balance' \in Nat /\ paid' \in [Ids -> Int]
BY DEF BooksTyped, Transfer

LEMMA CountTyped ==
  ASSUME BooksTyped, NEW field \in {"total", "disputed", "completed"}, Count(field)
  PROVE  reputation' \in [{"total", "disputed", "completed"} -> Nat]
BY DEF BooksTyped, Count

LEMMA CompletionTyped ==
  ASSUME BooksTyped, NEW job, CountCompletion(job)
  PROVE  /\ reputation' \in [{"total", "disputed", "completed"} -> Nat]
         /\ counted' \subseteq Ids
BY CountTyped DEF CountCompletion, BooksTyped

LEMMA DisputeTyped ==
  ASSUME BooksTyped, NEW id \in Ids, CountDispute(id)
  PROVE  /\ reputation' \in [{"total", "disputed", "completed"} -> Nat]
         /\ counted' \subseteq Ids
BY CountTyped DEF CountDispute, BooksTyped

LEMMA PayTyped ==
  ASSUME JobInv, BooksTyped, NEW id \in Ids, Live(id),
         NEW i \in DOMAIN jobs[id].milestones, NEW flag, PayMilestone(id, i, flag)
  PROVE  BooksTyped'
<1>1. jobs[id] \in Shaped
  BY LiveParts
<1>2. Payout(jobs[id], i) \in Int
  BY <1>1, MoneyTypes
<1>3. Transfer(id, Payout(jobs[id], i)) /\ refunded' = refunded
  BY DEF PayMilestone
<1>4. \E job : CountCompletion(job)
  BY Zenon DEF PayMilestone
<1> QED BY <1>2, <1>3, <1>4, TransferTyped, CompletionTyped DEF BooksTyped

LEMMA ClientTyped ==
  ASSUME JobInv, BooksTyped, NEW id \in Ids, ClientCalls(id)
  PROVE  BooksTyped'
<1>1. ASSUME NEW amount \in Amounts, NEW plan, NEW window, NEW flags,
             CreateJob(id, amount, plan, flags, window)
      PROVE  BooksTyped'
  <2>1. amount \in Nat
    BY <1>1, EscrowAssumption DEF CreateJob
  <2>2. /\ Count("total") /\ counted' = counted /\ refunded' = refunded
        /\ balance' = balance + amount /\ paid' = [paid EXCEPT ![id] = 0]
    BY <1>1 DEF CreateJob
  <2> QED BY <2>1, <2>2, CountTyped DEF BooksTyped
<1>2. ASSUME NEW plan, AmendJobMilestones(id, plan) PROVE BooksTyped'
  BY <1>2 DEF AmendJobMilestones, BooksTyped, funds
<1>3. ASSUME NEW i, ReleaseMilestone(id, i) \/ ClaimMilestone(id, i) PROVE BooksTyped'
  <2>1. /\ Live(id) /\ i \in DOMAIN jobs[id].milestones
        /\ PayMilestone(id, i, jobs[id].disputed)
    BY <1>3 DEF ReleaseMilestone, ClaimMilestone, Payable
  <2> QED BY <2>1, PayTyped
<1>4. CASE RefundExpiredJob(id)
  <2>1. Live(id) /\ Transfer(id, Remaining(jobs[id]))
    BY <1>4 DEF RefundExpiredJob
  <2>2. Remaining(jobs[id]) \in Int
    BY <2>1, LiveParts, MoneyTypes
  <2>3. refunded' = refunded \cup {id} /\ reputation' = reputation /\ counted' = counted
    BY <1>4 DEF RefundExpiredJob
  <2> QED BY <2>1, <2>2, <2>3, TransferTyped DEF BooksTyped
<1> QED BY <1>1, <1>2, <1>3, <1>4 DEF ClientCalls

LEMMA DisputesTyped ==
  ASSUME JobInv, BooksTyped, NEW id \in Ids, DisputeCalls(id)
  PROVE  BooksTyped'
<1>1. CASE CountDispute(id) /\ UNCHANGED funds
  BY <1>1, DisputeTyped DEF BooksTyped, funds
<1>2. CASE ResolveDispute(id)
  <2>1. Live(id) /\ Transfer(id, Remaining(jobs[id])) /\ refunded' = refunded
    BY <1>2 DEF ResolveDispute
  <2>2. Remaining(jobs[id]) \in Int
    BY <2>1, LiveParts, MoneyTypes
  <2>3. \E job : CountCompletion(job)
    BY <1>2, Zenon DEF ResolveDispute
  <2> QED BY <2>1, <2>2, <2>3, TransferTyped, CompletionTyped DEF BooksTyped
<1>3. ASSUME NEW i, ResolveMilestoneDispute(id, i) PROVE BooksTyped'
  <2>1. /\ Live(id) /\ i \in DOMAIN jobs[id].milestones
        /\ \E flag : PayMilestone(id, i, flag)
    BY <1>3, Zenon DEF ResolveMilestoneDispute
  <2> QED BY <2>1, PayTyped
<1>4. ASSUME NEW ledger, UpdateReleaseAfter(id, ledger) PROVE BooksTyped'
  BY <1>4 DEF UpdateReleaseAfter, BooksTyped, funds
<1> QED BY <1>1, <1>2, <1>3, <1>4 DEF DisputeCalls, DisputeJob, DisputeMilestone

LEMMA TypeInvStep == TypeInv /\ [Next]_vars => TypeInv'
<1> SUFFICES ASSUME TypeInv, [Next]_vars PROVE BooksTyped'
  BY SlotInvStep, AdminInvStep DEF TypeInv
<1>0. JobInv /\ BooksTyped
  BY DEF TypeInv, SlotInv
<1>1. CASE UNCHANGED <<reputation, counted, funds>>
  BY <1>0, <1>1 DEF BooksTyped, funds
<1>2. ASSUME NEW id \in Ids, ClientCalls(id) PROVE BooksTyped'
  BY <1>0, <1>2, ClientTyped
<1>3. ASSUME NEW id \in Ids, DisputeCalls(id) PROVE BooksTyped'
  BY <1>0, <1>3, DisputesTyped
<1> QED BY <1>1, <1>2, <1>3 DEF Next, AdminCalls, ManageAdmins, LedgerCloses,
           CleanupCompletedJobs, vars

LEMMA TypeInvInit == Init => TypeInv
BY SlotInvInit, AdminInvInit DEF Init, TypeInv, BooksTyped

\* Every variable has its type: the balance of the contract never falls below zero,
\* and the milestones of a stored job stay a sequence of well-formed entries.
THEOREM EscrowTypeCorrect == Spec => []TypeOK
<1>1. TypeInv => TypeOK
  <2> SUFFICES ASSUME TypeInv PROVE TypeOK
    OBVIOUS
  <2>1. Boards \subseteq Seq(Milestones)
    BY DEF Boards
  <2>2. jobs \in [Ids -> Jobs \cup {NoJob}]
    BY <2>1 DEF TypeInv, SlotInv, JobInv, JobsShaped, Shaped, Jobs
  <2>3. jobIds \subseteq Ids /\ jobCount \in Nat
    <3>1. jobIds \subseteq Ids /\ jobCount = Cardinality(jobIds)
      BY DEF TypeInv, SlotInv, SlotsAccounted
    <3> QED BY <3>1, EscrowAssumption, FS_Subset, FS_CardinalityType
  <2> QED BY <2>2, <2>3 DEF TypeInv, SlotInv, JobInv, JobsShaped, AdminInv, BooksTyped, TypeOK
<1> QED BY TypeInvInit, TypeInvStep, <1>1, PTL DEF Spec
-------------------------------------------------------------------------------
(* The money.                                                              *)

\* What remains of a job depends on its amount and on what is released of it.
LEMMA SameRemains ==
  ASSUME NEW job \in Shaped, NEW new \in Shaped, new.amount = job.amount,
         DOMAIN new.milestones = DOMAIN job.milestones,
         \A i \in DOMAIN job.milestones :
           /\ new.milestones[i].percentage = job.milestones[i].percentage
           /\ new.milestones[i].released = job.milestones[i].released
  PROVE  Remaining(new) = Remaining(job)
<1>1. Released(new.milestones) = Released(job.milestones)
  BY DEF Released
<1>2. AllReleased(new.milestones) = AllReleased(job.milestones)
  BY DEF AllReleased
<1>3. Shares(new) = Shares(job)
  BY DEF Shares
<1>4. ReleasedShares(new) = ReleasedShares(job)
  BY <1>1, <1>3, MoneyTypes
<1> QED BY <1>2, <1>4 DEF Remaining

\* The payout of a milestone is what its release takes off the rest of the job, the
\* rounding that the last milestone takes included.
LEMMA PayoutTakes ==
  ASSUME NEW job \in Shaped, NEW new \in Shaped, new.amount = job.amount,
         DOMAIN new.milestones = DOMAIN job.milestones,
         NEW i \in DOMAIN job.milestones,
         ~job.milestones[i].released, new.milestones[i].released,
         \A k \in DOMAIN job.milestones :
           /\ new.milestones[k].percentage = job.milestones[k].percentage
           /\ k # i => new.milestones[k].released = job.milestones[k].released
  PROVE  Remaining(new) = Remaining(job) - Payout(job, i)
<1> DEFINE ms == job.milestones
           R  == Released(ms)
<1>0. job.amount \in Int
  BY DEF Shaped
<1>1. /\ R \subseteq DOMAIN ms /\ i \notin R /\ IsFiniteSet(R)
      /\ Released(new.milestones) = R \cup {i}
  BY MoneyTypes, FS_Subset DEF Released
<1>2. Shares(new) = Shares(job)
  BY DEF Shares
<1>3. ~AllReleased(ms) /\ Remaining(job) = job.amount - ReleasedShares(job)
  BY DEF AllReleased, Remaining
<1>4. CASE DOMAIN ms \ R = {i}
  <2>1. AllReleased(new.milestones)
    BY <1>4 DEF AllReleased, Released
  <2>2. Payout(job, i) = job.amount - ReleasedShares(job)
    BY <1>4 DEF Payout
  <2> QED BY <1>0, <1>3, <2>1, <2>2, MoneyTypes DEF Remaining
<1>5. CASE DOMAIN ms \ R # {i}
  <2>1. ~AllReleased(new.milestones)
    BY <1>5 DEF AllReleased, Released
  <2>2. Payout(job, i) = Shares(job)[i] /\ Shares(job)[i] \in Int
    BY <1>5, MoneyTypes DEF Payout, Shares
  <2>3. SumFunctionOnSet(Shares(job), R \cup {i})
          = Shares(job)[i] + SumFunctionOnSet(Shares(job), R)
    <3>1. \A k \in R \cup {i} : Shares(job)[k] \in Int
      BY <1>1, MoneyTypes
    <3> HIDE DEF R
    <3> QED BY <1>1, <3>1, SumAdd
  <2>4. ReleasedShares(new) = Shares(job)[i] + ReleasedShares(job)
    BY <1>1, <1>2, <2>3, MoneyTypes
  <2>5. Remaining(new) = job.amount - ReleasedShares(new)
    BY <2>1 DEF Remaining
  <2> QED BY <1>0, <1>3, <2>2, <2>4, <2>5, MoneyTypes
<1> QED BY <1>4, <1>5

MoneyInv == TypeInv /\ (FreshSubmissions => FundsAccounted)

Lefts == [id \in Ids |-> Left(id)]

LEMMA LeftsTyped == ASSUME JobInv PROVE \A id \in Ids : Lefts[id] = Left(id) /\ Left(id) \in Int
BY LiveParts, MoneyTypes DEF Lefts, Left

\* When what one job has left changes, the sum of them changes with it.
LEMMA LeftsChange ==
  ASSUME NEW id \in Ids,
         \A other \in Ids : Lefts[other] \in Int /\ Lefts'[other] \in Int,
         \A other \in Ids \ {id} : Lefts'[other] = Lefts[other]
  PROVE  SumFunctionOnSet(Lefts', Ids)
           = SumFunctionOnSet(Lefts, Ids) - Lefts[id] + Lefts'[id]
BY EscrowAssumption, SumChange

\* Money that leaves for a job is taken off what remains of it.
LEMMA MoneyMoves ==
  ASSUME TypeInv, JobInv', FundsAccounted, NEW id \in Ids, Live(id), NEW job \in Shaped,
         jobs' = [jobs EXCEPT ![id] = job], refunded' = refunded, NEW x \in Int,
         balance' = balance - x, paid' = [paid EXCEPT ![id] = @ + x],
         id \notin refunded =>
           job.amount = jobs[id].amount /\ Remaining(job) = Remaining(jobs[id]) - x
  PROVE  FundsAccounted'
<1>0. JobInv /\ BooksTyped /\ jobs[id] \in Shaped /\ jobs \in [Ids -> Shaped \cup {NoJob}]
  BY LiveParts DEF TypeInv, SlotInv, JobInv, JobsShaped
<1>1. /\ jobs'[id] = job /\ \A other \in Ids \ {id} : jobs'[other] = jobs[other]
      /\ paid'[id] = paid[id] + x /\ \A other \in Ids \ {id} : paid'[other] = paid[other]
  BY <1>0 DEF BooksTyped
<1>2. Live(id)' /\ \A other \in Ids \ {id} : Live(other)' = Live(other)
  BY <1>1, NoJobUnshaped DEF Live
<1>3. HeldUntilRefund'
  <2> SUFFICES ASSUME NEW other \in Ids \ refunded', Live(other)'
               PROVE  paid'[other] = jobs'[other].amount - Remaining(jobs'[other])
    BY DEF HeldUntilRefund
  <2>1. CASE other = id
    <3>1. paid[id] = jobs[id].amount - Remaining(jobs[id])
      BY <2>1 DEF FundsAccounted, HeldUntilRefund
    <3>2. jobs[id].amount \in Int /\ Remaining(jobs[id]) \in Int
      BY <1>0, MoneyTypes DEF Shaped
    <3> QED BY <1>1, <2>1, <3>1, <3>2
  <2>2. CASE other # id
    BY <1>1, <1>2, <2>2 DEF FundsAccounted, HeldUntilRefund
  <2> QED BY <2>1, <2>2
<1>4. Solvent'
  <2> SUFFICES ASSUME refunded = {} PROVE balance' = SumFunctionOnSet(Lefts', Ids)
    BY DEF Solvent, Lefts
  <2>1. balance = SumFunctionOnSet(Lefts, Ids)
    BY DEF FundsAccounted, Solvent, Lefts
  <2>2. Lefts'[id] = Lefts[id] - x /\ \A other \in Ids \ {id} : Lefts'[other] = Lefts[other]
    BY <1>1, <1>2 DEF Lefts, Left
  <2>3. \A other \in Ids : Lefts[other] \in Int /\ Lefts'[other] \in Int
    <3>1. \A other \in Ids : Lefts[other] \in Int
      BY <1>0, LeftsTyped
    <3>2. \A other \in Ids : Lefts'[other] \in Int
      BY <2>2, <3>1
    <3> QED BY <3>1, <3>2
  <2>4. SumFunctionOnSet(Lefts', Ids) = SumFunctionOnSet(Lefts, Ids) - Lefts[id] + Lefts'[id]
    BY <2>2, <2>3, LeftsChange
  <2>5. SumFunctionOnSet(Lefts, Ids) \in Int
    BY <2>3, EscrowAssumption, SumInt
  <2>6. Lefts[id] \in Int
    BY <2>3
  <2> QED BY <2>1, <2>2, <2>4, <2>5, <2>6
<1> QED BY <1>3, <1>4 DEF FundsAccounted

\* A call that writes a job and moves no money leaves what remains of it alone.
LEMMA MoneyStays ==
  ASSUME TypeInv, JobInv', FundsAccounted, NEW id \in Ids, Live(id), NEW job \in Shaped,
         jobs' = [jobs EXCEPT ![id] = job], UNCHANGED funds,
         id \notin refunded =>
           job.amount = jobs[id].amount /\ Remaining(job) = Remaining(jobs[id])
  PROVE  FundsAccounted'
<1>0. BooksTyped /\ jobs[id] \in Shaped
  BY LiveParts DEF TypeInv, SlotInv
<1>1. balance' = balance - 0 /\ paid' = [paid EXCEPT ![id] = @ + 0] /\ refunded' = refunded
  BY <1>0 DEF BooksTyped, funds
<1>2. Remaining(jobs[id]) \in Int
  BY <1>0, MoneyTypes
<1>3. id \notin refunded =>
        job.amount = jobs[id].amount /\ Remaining(job) = Remaining(jobs[id]) - 0
  BY <1>2
<1>4. 0 \in Int
  OBVIOUS
<1> QED BY <1>1, <1>3, <1>4, MoneyMoves

\* The job that a call has written has its shape.
LEMMA Written ==
  ASSUME JobInv, JobInv', NEW id \in Ids, Lives(id), NEW job,
         jobs' = [jobs EXCEPT ![id] = job]
  PROVE  jobs'[id] = job /\ job \in Shaped
BY DEF JobInv, JobsShaped, Live, Lives

\* A job of which nothing is released has all of its amount left.
LEMMA NothingReleased ==
  ASSUME NEW job \in Shaped, Released(job.milestones) = {}
  PROVE  Remaining(job) = job.amount
<1>1. ~AllReleased(job.milestones)
  BY MoneyTypes DEF AllReleased, Released
<1>2. ReleasedShares(job) = 0
  BY MoneyTypes, SumEmpty
<1>3. job.amount \in Int
  BY DEF Shaped
<1> QED BY <1>1, <1>2, <1>3 DEF Remaining

LEMMA PayMoney ==
  ASSUME TypeInv, JobInv', FreshSubmissions, FundsAccounted, NEW id \in Ids, Live(id),
         Lives(id), NEW i \in DOMAIN jobs[id].milestones,
         ~jobs[id].milestones[i].released, NEW flag, PayMilestone(id, i, flag)
  PROVE  FundsAccounted'
<1> DEFINE old == jobs[id]
           oms == old.milestones
           m   == [oms[i] EXCEPT !.released = TRUE, !.disputed = FALSE]
           ms  == [oms EXCEPT ![i] = m]
           job == [old EXCEPT !.milestones = ms, !.status = StatusOf(ms),
                              !.disputed = flag]
           x   == Payout(old, i)
<1>0. JobInv /\ old \in Shaped /\ oms \in Boards /\ oms[i] \in Milestones
  BY LiveParts DEF TypeInv, SlotInv
<1>1. /\ jobs' = [jobs EXCEPT ![id] = job] /\ refunded' = refunded
      /\ balance' = balance - x /\ paid' = [paid EXCEPT ![id] = @ + x]
  BY DEF PayMilestone, Put, Transfer
<1>2. job \in Shaped /\ job.milestones = ms /\ job.amount = old.amount
  <2>1. job \in Shaped
    <3> HIDE DEF job
    <3> QED BY <1>0, <1>1, Written
  <2> HIDE DEF ms
  <2> QED BY <1>0, <2>1 DEF Shaped
<1>3. m.released /\ m.percentage = oms[i].percentage
  BY <1>0 DEF Milestones
<1> HIDE DEF m
<1>4. /\ DOMAIN ms = DOMAIN oms
      /\ ms[i] = m /\ \A k \in DOMAIN oms : k # i => ms[k] = oms[k]
  BY <1>0 DEF Boards
<1> HIDE DEF ms, job
<1>5. Remaining(job) = Remaining(old) - Payout(old, i)
  BY <1>0, <1>2, <1>3, <1>4, PayoutTakes
<1>6. x \in Int
  BY <1>0, MoneyTypes
<1> HIDE DEF x
<1>7. Remaining(job) = Remaining(old) - x
  BY <1>5 DEF x
<1> QED BY <1>1, <1>2, <1>6, <1>7, MoneyMoves

LEMMA CreateMoney ==
  ASSUME TypeInv, JobInv', FreshSubmissions, FundsAccounted, NEW id \in Ids, Lives(id),
         NEW amount \in Amounts, NEW plan \in Plans, NEW window,
         NEW flags \in [DOMAIN plan -> Submitted], CreateJob(id, amount, plan, flags, window)
  PROVE  FundsAccounted'
<1> DEFINE ms  == [i \in DOMAIN plan |->
                    [percentage |-> plan[i], released |-> flags[i].released,
                     disputed |-> flags[i].disputed]]
           job == [amount |-> amount, status |-> "Escrowed", milestones |-> ms,
                   disputed |-> FALSE, release_after |-> now + window,
                   deadline |-> now + DEFAULT_DEADLINE_LEDGERS]
<1>0. JobInv /\ BooksTyped /\ ~Live(id) /\ jobs \in [Ids -> Shaped \cup {NoJob}]
      /\ amount \in Int
  BY EscrowAssumption DEF TypeInv, SlotInv, JobInv, JobsShaped, CreateJob
<1>1. /\ jobs' = [jobs EXCEPT ![id] = job] /\ refunded' = refunded
      /\ balance' = balance + amount /\ paid' = [paid EXCEPT ![id] = 0]
  BY DEF CreateJob
<1>2. Released(ms) = {}
  BY DEF FreshSubmissions, Released
<1> HIDE DEF ms
<1>3. job.milestones = ms /\ job.amount = amount
  OBVIOUS
<1> HIDE DEF job
<1>4. jobs'[id] = job /\ job \in Shaped
  BY <1>0, <1>1, Written
<1>5. Remaining(job) = amount
  BY <1>2, <1>3, <1>4, NothingReleased
<1>6. /\ \A other \in Ids \ {id} : jobs'[other] = jobs[other] /\ paid'[other] = paid[other]
      /\ paid'[id] = 0
  BY <1>0, <1>1 DEF BooksTyped
<1>7. HeldUntilRefund'
  <2> SUFFICES ASSUME NEW other \in Ids \ refunded', Live(other)'
               PROVE  paid'[other] = jobs'[other].amount - Remaining(jobs'[other])
    BY DEF HeldUntilRefund
  <2>1. CASE other = id
    BY <1>0, <1>3, <1>4, <1>5, <1>6, <2>1
  <2>2. CASE other # id
    BY <1>1, <1>6, <2>2 DEF FundsAccounted, HeldUntilRefund, Live
  <2> QED BY <2>1, <2>2
<1>8. Solvent'
  <2> SUFFICES ASSUME refunded = {} PROVE balance' = SumFunctionOnSet(Lefts', Ids)
    BY <1>1 DEF Solvent, Lefts
  <2>1. balance = SumFunctionOnSet(Lefts, Ids)
    BY DEF FundsAccounted, Solvent, Lefts
  <2>2. /\ Lefts[id] = 0 /\ Lefts'[id] = amount
        /\ \A other \in Ids \ {id} : Lefts'[other] = Lefts[other]
    BY <1>0, <1>4, <1>5, <1>6 DEF Lefts, Left, Live, Lives
  <2>3. \A other \in Ids : Lefts[other] \in Int /\ Lefts'[other] \in Int
    <3>1. \A other \in Ids : Lefts[other] \in Int
      BY <1>0, LeftsTyped
    <3>2. \A other \in Ids : Lefts'[other] \in Int
      BY <1>0, <2>2, <3>1
    <3> QED BY <3>1, <3>2
  <2>4. SumFunctionOnSet(Lefts', Ids) = SumFunctionOnSet(Lefts, Ids) - Lefts[id] + Lefts'[id]
    BY <2>2, <2>3, LeftsChange
  <2>5. SumFunctionOnSet(Lefts, Ids) \in Int
    BY <2>3, EscrowAssumption, SumInt
  <2> QED BY <1>0, <1>1, <2>1, <2>2, <2>4, <2>5
<1> QED BY <1>7, <1>8 DEF FundsAccounted

LEMMA AmendMoney ==
  ASSUME TypeInv, JobInv', FreshSubmissions, FundsAccounted, NEW id \in Ids, Lives(id),
         NEW plan, AmendJobMilestones(id, plan)
  PROVE  FundsAccounted'
<1> DEFINE old == jobs[id]
           ms  == [i \in DOMAIN plan |->
                    [percentage |-> plan[i], released |-> FALSE, disputed |-> FALSE]]
           job == [old EXCEPT !.milestones = ms]
<1>0. JobInv /\ Live(id) /\ old \in Shaped /\ old.status = "Escrowed"
  BY LiveParts DEF TypeInv, SlotInv, AmendJobMilestones
<1>1. jobs' = [jobs EXCEPT ![id] = job] /\ UNCHANGED funds
  BY DEF AmendJobMilestones, Put
<1>2. Released(ms) = {}
  BY DEF Released
<1> HIDE DEF ms
<1>3. job.milestones = ms /\ job.amount = old.amount
  BY <1>0 DEF Shaped
<1> HIDE DEF job
<1>4. job \in Shaped
  BY <1>0, <1>1, Written
<1>5. id \notin refunded => Remaining(job) = Remaining(old)
  <2>1. id \notin refunded => Released(old.milestones) = {}
    BY <1>0 DEF JobInv, Consistent
  <2> QED BY <1>0, <1>2, <1>3, <1>4, <2>1, NothingReleased
<1> QED BY <1>0, <1>1, <1>3, <1>4, <1>5, MoneyStays

LEMMA RefundMoney ==
  ASSUME TypeInv, FundsAccounted, NEW id \in Ids, RefundExpiredJob(id)
  PROVE  FundsAccounted'
<1>0. BooksTyped /\ jobs \in [Ids -> Shaped \cup {NoJob}]
  BY DEF TypeInv, SlotInv, JobInv, JobsShaped
<1>1. refunded' = refunded \cup {id}
  BY DEF RefundExpiredJob
<1>2. \A other \in Ids \ {id} : jobs'[other] = jobs[other] /\ paid'[other] = paid[other]
  BY <1>0 DEF RefundExpiredJob, Put, Transfer, BooksTyped
<1>3. HeldUntilRefund'
  BY <1>1, <1>2 DEF FundsAccounted, HeldUntilRefund, Live
<1>4. Solvent'
  BY <1>1 DEF Solvent
<1> QED BY <1>3, <1>4 DEF FundsAccounted

LEMMA DisputeMoney ==
  ASSUME TypeInv, JobInv', FundsAccounted, NEW id \in Ids, Lives(id), DisputeJob(id)
  PROVE  FundsAccounted'
<1> DEFINE old == jobs[id]
           oms == old.milestones
           ms  == [i \in DOMAIN oms |-> [oms[i] EXCEPT !.disputed = @ \/ ~oms[i].released]]
           job == [old EXCEPT !.milestones = ms, !.status = "Disputed", !.disputed = TRUE]
<1>0. /\ JobInv /\ Live(id) /\ old \in Shaped
      /\ \A i \in DOMAIN oms : oms[i] \in Milestones
  BY LiveParts DEF TypeInv, SlotInv, DisputeJob
<1>1. jobs' = [jobs EXCEPT ![id] = job] /\ UNCHANGED funds
  BY DEF DisputeJob, Put
<1>2. /\ DOMAIN ms = DOMAIN oms
      /\ \A i \in DOMAIN oms : ms[i].percentage = oms[i].percentage
                               /\ ms[i].released = oms[i].released
  BY <1>0 DEF Milestones
<1> HIDE DEF ms
<1>3. job.milestones = ms /\ job.amount = old.amount
  BY <1>0 DEF Shaped
<1> HIDE DEF job
<1>4. job \in Shaped
  BY <1>0, <1>1, Written
<1>5. Remaining(job) = Remaining(old)
  BY <1>0, <1>2, <1>3, <1>4, SameRemains
<1> QED BY <1>0, <1>1, <1>3, <1>4, <1>5, MoneyStays

LEMMA ResolveMoney ==
  ASSUME TypeInv, JobInv', FundsAccounted, NEW id \in Ids, Lives(id), ResolveDispute(id)
  PROVE  FundsAccounted'
<1> DEFINE old == jobs[id]
           oms == old.milestones
           ms  == [i \in DOMAIN oms |-> [oms[i] EXCEPT !.released = TRUE, !.disputed = FALSE]]
           job == [old EXCEPT !.milestones = ms, !.status = "Completed", !.disputed = FALSE]
           x   == Remaining(old)
<1>0. /\ JobInv /\ Live(id) /\ old \in Shaped
      /\ \A i \in DOMAIN oms : oms[i] \in Milestones
  BY LiveParts DEF TypeInv, SlotInv, ResolveDispute
<1>1. /\ jobs' = [jobs EXCEPT ![id] = job] /\ refunded' = refunded
      /\ balance' = balance - x /\ paid' = [paid EXCEPT ![id] = @ + x]
  BY DEF ResolveDispute, Put, Transfer
<1>2. AllReleased(ms)
  BY <1>0 DEF Milestones, AllReleased
<1> HIDE DEF ms
<1>3. job.milestones = ms /\ job.amount = old.amount
  BY <1>0 DEF Shaped
<1> HIDE DEF job
<1>4. job \in Shaped
  BY <1>0, <1>1, Written
<1>5. x \in Int
  BY <1>0, MoneyTypes
<1>6. Remaining(job) = Remaining(old) - x
  BY <1>2, <1>3, <1>5 DEF Remaining
<1> HIDE DEF x
<1> QED BY <1>0, <1>1, <1>3, <1>4, <1>5, <1>6, MoneyMoves

LEMMA DisputeMilestoneMoney ==
  ASSUME TypeInv, JobInv', FundsAccounted, NEW id \in Ids, Lives(id),
         NEW i \in DOMAIN jobs[id].milestones, DisputeMilestone(id, i)
  PROVE  FundsAccounted'
<1> DEFINE old == jobs[id]
           oms == old.milestones
           m   == [oms[i] EXCEPT !.disputed = TRUE]
           ms  == [oms EXCEPT ![i] = m]
           job == [old EXCEPT !.milestones = ms, !.status = "Disputed", !.disputed = TRUE]
<1>0. JobInv /\ Live(id) /\ old \in Shaped /\ oms \in Boards /\ oms[i] \in Milestones
  BY LiveParts DEF TypeInv, SlotInv, DisputeMilestone, Payable
<1>1. jobs' = [jobs EXCEPT ![id] = job] /\ UNCHANGED funds
  BY DEF DisputeMilestone, Put
<1>2. m.percentage = oms[i].percentage /\ m.released = oms[i].released
  BY <1>0 DEF Milestones
<1> HIDE DEF m
<1>3. /\ DOMAIN ms = DOMAIN oms
      /\ ms[i] = m /\ \A k \in DOMAIN oms : k # i => ms[k] = oms[k]
  BY <1>0 DEF Boards
<1> HIDE DEF ms
<1>4. job.milestones = ms /\ job.amount = old.amount
  BY <1>0 DEF Shaped
<1> HIDE DEF job
<1>5. job \in Shaped
  BY <1>0, <1>1, Written
<1>6. Remaining(job) = Remaining(old)
  BY <1>0, <1>2, <1>3, <1>4, <1>5, SameRemains
<1> QED BY <1>0, <1>1, <1>4, <1>5, <1>6, MoneyStays

LEMMA UpdateMoney ==
  ASSUME TypeInv, JobInv', FundsAccounted, NEW id \in Ids, Lives(id), NEW ledger,
         UpdateReleaseAfter(id, ledger)
  PROVE  FundsAccounted'
<1> DEFINE job == [jobs[id] EXCEPT !.release_after = ledger]
<1>0. JobInv /\ Live(id) /\ jobs[id] \in Shaped
  BY LiveParts DEF TypeInv, SlotInv, UpdateReleaseAfter
<1>1. jobs' = [jobs EXCEPT ![id] = job] /\ UNCHANGED funds
  BY DEF UpdateReleaseAfter, Put
<1>2. job.milestones = jobs[id].milestones /\ job.amount = jobs[id].amount
  BY <1>0 DEF Shaped
<1> HIDE DEF job
<1>3. job \in Shaped
  BY <1>0, <1>1, Written
<1>4. Remaining(job) = Remaining(jobs[id])
  BY <1>0, <1>2, <1>3, SameRemains
<1> QED BY <1>0, <1>1, <1>2, <1>3, <1>4, MoneyStays

\* Cleanup removes jobs of which nothing is left.
LEMMA CleanupMoney ==
  ASSUME TypeInv, FreshSubmissions, FundsAccounted, CleanupCompletedJobs
  PROVE  FundsAccounted'
<1> DEFINE gone == {id \in jobIds : Cleanable(id)}
<1>0. JobInv /\ jobs \in [Ids -> Shaped \cup {NoJob}]
  BY DEF TypeInv, SlotInv, JobInv, JobsShaped
<1>1. /\ jobs' = [id \in Ids |-> IF id \in gone THEN NoJob ELSE jobs[id]]
      /\ UNCHANGED funds
  BY DEF CleanupCompletedJobs
<1>2. \A id \in gone : Live(id) /\ jobs[id].status = "Completed"
  BY DEF Cleanable
<1> HIDE DEF gone
<1>3. HeldUntilRefund'
  BY <1>1 DEF FundsAccounted, HeldUntilRefund, Live, funds
<1>4. Solvent'
  <2> SUFFICES ASSUME refunded = {} PROVE balance' = SumFunctionOnSet(Lefts', Ids)
    BY <1>1 DEF Solvent, Lefts, funds
  <2>1. balance = SumFunctionOnSet(Lefts, Ids)
    BY DEF FundsAccounted, Solvent, Lefts
  <2>2. ASSUME NEW id \in Ids PROVE Lefts'[id] = Lefts[id]
    <3>1. CASE id \in gone
      <4>1. AllReleased(jobs[id].milestones)
        BY <1>0, <1>2, <3>1 DEF JobInv, Consistent
      <4>2. Lefts[id] = 0
        BY <4>1 DEF Lefts, Left, Remaining
      <4>3. Lefts'[id] = 0
        BY <1>1, <3>1 DEF Lefts, Left, Live
      <4> QED BY <4>2, <4>3
    <3>2. CASE id \notin gone
      BY <1>1, <3>2 DEF Lefts, Left, Live
    <3> QED BY <3>1, <3>2
  <2>3. Lefts' = Lefts
    BY <2>2 DEF Lefts
  <2> QED BY <1>1, <2>1, <2>3 DEF funds
<1> QED BY <1>3, <1>4 DEF FundsAccounted

LEMMA ClientMoney ==
  ASSUME TypeInv, FreshSubmissions, FundsAccounted, NEW id \in Ids, ClientCalls(id)
  PROVE  FundsAccounted'
<1>0. JobInv
  BY DEF TypeInv, SlotInv
<1>1. JobInv' /\ Lives(id)
  BY <1>0, ClientKeeps
<1>2. ASSUME NEW amount \in Amounts, NEW plan \in Plans, NEW window,
             NEW flags \in [DOMAIN plan -> Submitted],
             CreateJob(id, amount, plan, flags, window)
      PROVE  FundsAccounted'
  BY <1>1, <1>2, CreateMoney
<1>3. ASSUME NEW plan, AmendJobMilestones(id, plan) PROVE FundsAccounted'
  BY <1>1, <1>3, AmendMoney
<1>4. ASSUME NEW i, ReleaseMilestone(id, i) \/ ClaimMilestone(id, i) PROVE FundsAccounted'
  <2>1. /\ Live(id) /\ i \in DOMAIN jobs[id].milestones
        /\ ~jobs[id].milestones[i].released /\ \E flag : PayMilestone(id, i, flag)
    BY <1>4, Zenon DEF ReleaseMilestone, ClaimMilestone, Payable
  <2> QED BY <1>1, <2>1, PayMoney
<1>5. CASE RefundExpiredJob(id)
  BY <1>5, RefundMoney
<1> QED BY <1>2, <1>3, <1>4, <1>5 DEF ClientCalls

LEMMA DisputesMoney ==
  ASSUME TypeInv, FreshSubmissions, FundsAccounted, NEW id \in Ids, DisputeCalls(id)
  PROVE  FundsAccounted'
<1>0. JobInv
  BY DEF TypeInv, SlotInv
<1>1. JobInv' /\ Lives(id)
  BY <1>0, DisputesKeep
<1>2. CASE DisputeJob(id) \/ ResolveDispute(id)
  BY <1>1, <1>2, DisputeMoney, ResolveMoney
<1>3. ASSUME NEW i, DisputeMilestone(id, i) PROVE FundsAccounted'
  <2>1. i \in DOMAIN jobs[id].milestones
    BY <1>3 DEF DisputeMilestone, Payable
  <2> QED BY <1>1, <1>3, <2>1, DisputeMilestoneMoney
<1>4. ASSUME NEW i, ResolveMilestoneDispute(id, i) PROVE FundsAccounted'
  <2>1. /\ Live(id) /\ i \in DOMAIN jobs[id].milestones
        /\ jobs[id].milestones[i].disputed /\ \E flag : PayMilestone(id, i, flag)
    BY <1>4, Zenon DEF ResolveMilestoneDispute
  <2>2. ~jobs[id].milestones[i].released
    BY <1>0, <2>1 DEF JobInv, Flagged
  <2> QED BY <1>1, <2>1, <2>2, PayMoney
<1>5. ASSUME NEW ledger, UpdateReleaseAfter(id, ledger) PROVE FundsAccounted'
  BY <1>1, <1>5, UpdateMoney
<1> QED BY <1>2, <1>3, <1>4, <1>5 DEF DisputeCalls

LEMMA MoneyInvStep == MoneyInv /\ [Next]_vars => MoneyInv'
<1> SUFFICES ASSUME TypeInv, FreshSubmissions, FundsAccounted, [Next]_vars
             PROVE  FundsAccounted'
  BY TypeInvStep DEF MoneyInv, FreshSubmissions
<1>1. ASSUME NEW id \in Ids, ClientCalls(id) PROVE FundsAccounted'
  BY <1>1, ClientMoney
<1>2. ASSUME NEW id \in Ids, DisputeCalls(id) PROVE FundsAccounted'
  BY <1>2, DisputesMoney
<1>3. CASE CleanupCompletedJobs
  BY <1>3, CleanupMoney
<1>4. CASE UNCHANGED <<store, funds>>
  BY <1>4 DEF FundsAccounted, HeldUntilRefund, Solvent, Left, Live, store, funds
<1> QED BY <1>1, <1>2, <1>3, <1>4 DEF Next, AdminCalls, ManageAdmins, LedgerCloses, vars

LEMMA MoneyInvInit == Init => MoneyInv
<1> SUFFICES ASSUME Init PROVE FundsAccounted
  BY TypeInvInit DEF MoneyInv
<1>1. \A id \in Ids : ~Live(id) /\ Lefts[id] = 0
  BY DEF Init, Live, Lefts, Left
<1>2. SumFunctionOnSet(Lefts, Ids) = 0
  <2>1. /\ \A id \in Ids : Lefts[id] \in Int
        /\ {} \in SUBSET Ids /\ \A id \in Ids \ {} : Lefts[id] = 0
    BY <1>1
  <2>2. IsFiniteSet(Ids)
    BY EscrowAssumption
  <2>3. SumFunctionOnSet(Lefts, Ids) = SumFunctionOnSet(Lefts, {})
    BY <2>1, <2>2, SumSupport, Zenon
  <2> QED BY <2>3, SumEmpty
<1> QED BY <1>1, <1>2 DEF Init, FundsAccounted, HeldUntilRefund, Solvent, Lefts

\* What has been paid for a job and what it has left make its amount, rounding
\* included, for every plan of milestones and every order of releases, claims, disputes
\* and amendments; and as long as nothing was refunded, the contract holds exactly the
\* sum of what its jobs have left, so that no job is paid with another's funds.
THEOREM FundsSafe == ASSUME FreshSubmissions PROVE Spec => []FundsAccounted
<1>1. MoneyInv => FundsAccounted
  BY DEF MoneyInv
<1> QED BY MoneyInvInit, MoneyInvStep, <1>1, PTL DEF Spec
-------------------------------------------------------------------------------
(* The record of the freelancer.                                           *)

\* Every job that counts as disputed was created, and so was every job in the store.
CountInv ==
  /\ reputation.disputed = Cardinality(counted)
  /\ Cardinality(counted \cup jobIds) <= reputation.total

RecordInv == TypeInv /\ CountInv

LEMMA CountedOnce == RecordInv => DisputeCountedOnce
<1> SUFFICES ASSUME RecordInv PROVE DisputeCountedOnce
  OBVIOUS
<1>1. IsFiniteSet(counted \cup jobIds)
  BY EscrowAssumption, FS_Subset DEF RecordInv, TypeInv, SlotInv, SlotsAccounted, BooksTyped
<1>2. Cardinality(counted) <= Cardinality(counted \cup jobIds)
  BY <1>1, FS_Subset
<1>3. /\ Cardinality(counted) \in Nat /\ Cardinality(counted \cup jobIds) \in Nat
      /\ reputation.total \in Nat
  BY <1>1, FS_Subset, FS_CardinalityType DEF RecordInv, TypeInv, BooksTyped
<1> QED BY <1>2, <1>3 DEF RecordInv, CountInv, DisputeCountedOnce

\* Nothing is counted as disputed twice, because an id is counted once and for all.
LEMMA DisputeCounts ==
  ASSUME RecordInv, NEW id \in Ids, Live(id), UNCHANGED jobIds, CountDispute(id)
  PROVE  CountInv' /\ reputation'.completed = reputation.completed
<1>0. /\ reputation \in [{"total", "disputed", "completed"} -> Nat]
      /\ counted \subseteq Ids /\ id \in jobIds /\ IsFiniteSet(counted)
  BY EscrowAssumption, FS_Subset DEF RecordInv, TypeInv, SlotInv, SlotsAccounted, BooksTyped
<1>1. CASE id \in counted
  BY <1>1 DEF CountDispute, RecordInv, CountInv
<1>2. CASE id \notin counted
  <2>1. counted' = counted \cup {id} /\ Count("disputed")
    BY <1>2 DEF CountDispute
  <2>2. counted' \cup jobIds' = counted \cup jobIds
    BY <1>0, <2>1
  <2>3. Cardinality(counted') = Cardinality(counted) + 1
    BY <1>0, <1>2, <2>1, FS_AddElement
  <2>4. /\ reputation'.disputed = reputation.disputed + 1
        /\ reputation'.total = reputation.total
        /\ reputation'.completed = reputation.completed
    BY <1>0, <2>1 DEF Count
  <2> QED BY <2>2, <2>3, <2>4 DEF RecordInv, CountInv
<1> QED BY <1>1, <1>2

LEMMA CompletionCounts ==
  ASSUME RecordInv, NEW job, CountCompletion(job), UNCHANGED jobIds
  PROVE  /\ CountInv'
         /\ reputation'.completed - reputation.completed
              = IF job.status = "Completed" THEN 1 ELSE 0
<1>0. reputation \in [{"total", "disputed", "completed"} -> Nat]
  BY DEF RecordInv, TypeInv, BooksTyped
<1>1. CASE job.status = "Completed"
  <2>1. Count("completed") /\ counted' = counted
    BY <1>1 DEF CountCompletion
  <2>2. /\ reputation'.disputed = reputation.disputed
        /\ reputation'.total = reputation.total
        /\ reputation'.completed = reputation.completed + 1
        /\ reputation.completed \in Nat
    BY <1>0, <2>1 DEF Count
  <2> QED BY <1>1, <2>1, <2>2 DEF RecordInv, CountInv
<1>2. CASE job.status # "Completed"
  <2>1. reputation' = reputation /\ counted' = counted
    BY <1>2 DEF CountCompletion
  <2>2. reputation.completed \in Nat
    BY <1>0
  <2> QED BY <1>2, <2>1, <2>2 DEF RecordInv, CountInv
<1> QED BY <1>1, <1>2

LEMMA CreationCounts ==
  ASSUME RecordInv, NEW id \in Ids, Count("total"), counted' = counted,
         jobIds' = jobIds \cup {id}
  PROVE  CountInv' /\ reputation'.completed = reputation.completed
<1>0. /\ reputation \in [{"total", "disputed", "completed"} -> Nat]
      /\ IsFiniteSet(counted \cup jobIds)
  BY EscrowAssumption, FS_Subset DEF RecordInv, TypeInv, SlotInv, SlotsAccounted, BooksTyped
<1>1. /\ reputation'.disputed = reputation.disputed
      /\ reputation'.total = reputation.total + 1 /\ reputation.total \in Nat
      /\ reputation'.completed = reputation.completed
  BY <1>0 DEF Count
<1> DEFINE all == counted \cup jobIds
<1>2. counted' \cup jobIds' = all \cup {id}
  OBVIOUS
<1>3. IsFiniteSet(all) /\ Cardinality(all) \in Nat /\ Cardinality(all) <= reputation.total
  BY <1>0, FS_CardinalityType DEF RecordInv, CountInv
<1> HIDE DEF all
<1>4. Cardinality(all \cup {id}) <= Cardinality(all) + 1
  <2>1. CASE id \in all
    <3>1. all \cup {id} = all
      BY <2>1
    <3>2. Cardinality(all \cup {id}) = Cardinality(all)
      BY <3>1
    <3> QED BY <1>3, <3>2
  <2>2. CASE id \notin all
    <3>1. Cardinality(all \cup {id}) = Cardinality(all) + 1
      BY <1>3, <2>2, FS_AddElement
    <3> QED BY <1>3, <3>1
  <2> QED BY <2>1, <2>2
<1>5. Cardinality(all \cup {id}) \in Nat
  BY <1>3, FS_AddElement, FS_CardinalityType
<1>6. Cardinality(all \cup {id}) <= reputation.total + 1
  BY <1>1, <1>3, <1>4, <1>5
<1> QED BY <1>1, <1>2, <1>6 DEF RecordInv, CountInv

Finishing == {id \in Ids : Finished(id)' /\ ~Finished(id)}

CompletedCounted == reputation'.completed - reputation.completed = Cardinality(Finishing)

\* At most the job that a call is about is finished by it.
LEMMA OneFinishes ==
  ASSUME NEW id \in Ids, \A other \in Ids \ {id} : jobs'[other] = jobs[other]
  PROVE  Cardinality(Finishing) = IF Finished(id)' /\ ~Finished(id) THEN 1 ELSE 0
<1>1. \A other \in Ids \ {id} : other \notin Finishing
  BY DEF Finishing, Finished, Live
<1>2. CASE Finished(id)' /\ ~Finished(id)
  <2>1. Finishing = {id}
    BY <1>1, <1>2 DEF Finishing
  <2> QED BY <1>2, <2>1, FS_Singleton
<1>3. CASE ~(Finished(id)' /\ ~Finished(id))
  <2>1. Finishing = {}
    BY <1>1, <1>3 DEF Finishing
  <2> QED BY <1>3, <2>1, FS_EmptySet
<1> QED BY <1>2, <1>3

\* A call that writes one job, which it does not finish, and completes nothing.
LEMMA NoneFinishes ==
  ASSUME RecordInv, NEW id \in Ids, NEW job, jobs' = [jobs EXCEPT ![id] = job],
         reputation'.completed = reputation.completed,
         \/ job.status # "Completed" \/ ~AllReleased(job.milestones)
         \/ Live(id) /\ job.status = jobs[id].status /\ job.milestones = jobs[id].milestones
  PROVE  CompletedCounted
<1>0. jobs \in [Ids -> Shaped \cup {NoJob}] /\ reputation.completed \in Nat
  BY DEF RecordInv, TypeInv, BooksTyped, SlotInv, JobInv, JobsShaped
<1>1. jobs'[id] = job /\ \A other \in Ids \ {id} : jobs'[other] = jobs[other]
  BY <1>0
<1>2. ~(Finished(id)' /\ ~Finished(id))
  BY <1>1 DEF Finished
<1>3. Cardinality(Finishing) = 0
  BY <1>1, <1>2, OneFinishes
<1> QED BY <1>0, <1>3 DEF CompletedCounted

LEMMA PayCounts ==
  ASSUME RecordInv, NEW id \in Ids, Live(id), Lives(id),
         NEW i \in DOMAIN jobs[id].milestones,
         ~jobs[id].milestones[i].released, NEW flag, PayMilestone(id, i, flag)
  PROVE  CountInv' /\ CompletedCounted
<1> DEFINE old == jobs[id]
           oms == old.milestones
           ms  == [oms EXCEPT ![i] = [@ EXCEPT !.released = TRUE, !.disputed = FALSE]]
           s   == StatusOf(ms)
           job == [old EXCEPT !.milestones = ms, !.status = s, !.disputed = flag]
<1>0. old \in Shaped /\ jobs \in [Ids -> Shaped \cup {NoJob}]
  BY LiveParts DEF RecordInv, TypeInv, SlotInv, JobInv, JobsShaped
<1>1. jobs' = [jobs EXCEPT ![id] = job] /\ jobIds' = jobIds /\ CountCompletion(job)
  BY DEF PayMilestone, Put
<1>2. s = "Completed" <=> AllReleased(ms)
  BY DEF StatusOf
<1> HIDE DEF ms, s
<1>3. job.milestones = ms /\ job.status = s
  BY <1>0 DEF Shaped
<1> HIDE DEF job
<1>4. jobs'[id] = job /\ \A other \in Ids \ {id} : jobs'[other] = jobs[other]
  BY <1>0, <1>1
<1>5. ~Finished(id) /\ (Finished(id)' <=> job.status = "Completed")
  BY <1>2, <1>3, <1>4 DEF Finished, AllReleased, Lives
<1>6. Cardinality(Finishing) = IF job.status = "Completed" THEN 1 ELSE 0
  BY <1>4, <1>5, OneFinishes
<1>7. /\ CountInv'
      /\ reputation'.completed - reputation.completed
           = IF job.status = "Completed" THEN 1 ELSE 0
  BY <1>1, CompletionCounts
<1> QED BY <1>6, <1>7 DEF CompletedCounted

LEMMA ResolveCounts ==
  ASSUME RecordInv, FreshSubmissions, NEW id \in Ids, Lives(id), ResolveDispute(id)
  PROVE  CountInv' /\ CompletedCounted
<1> DEFINE old == jobs[id]
           oms == old.milestones
           ms  == [i \in DOMAIN oms |-> [oms[i] EXCEPT !.released = TRUE, !.disputed = FALSE]]
           job == [old EXCEPT !.milestones = ms, !.status = "Completed", !.disputed = FALSE]
<1>0. /\ JobInv /\ Live(id) /\ old.disputed
      /\ old \in Shaped /\ jobs \in [Ids -> Shaped \cup {NoJob}]
      /\ \A i \in DOMAIN oms : oms[i] \in Milestones
  BY LiveParts DEF RecordInv, TypeInv, SlotInv, JobInv, JobsShaped, ResolveDispute
<1>1. jobs' = [jobs EXCEPT ![id] = job] /\ jobIds' = jobIds /\ CountCompletion(job)
  BY DEF ResolveDispute, Put
<1>2. AllReleased(ms)
  BY <1>0 DEF Milestones, AllReleased
<1> HIDE DEF ms
<1>3. job.milestones = ms /\ job.status = "Completed"
  BY <1>0 DEF Shaped
<1> HIDE DEF job
<1>4. jobs'[id] = job /\ \A other \in Ids \ {id} : jobs'[other] = jobs[other]
  BY <1>0, <1>1
<1>5. Finished(id)'
  BY <1>2, <1>3, <1>4 DEF Finished, Lives
<1>6. ~Finished(id)
  BY <1>0 DEF Finished, JobInv, Flagged, AnyDisputed, AllReleased
<1>7. Cardinality(Finishing) = 1
  BY <1>4, <1>5, <1>6, OneFinishes
<1>8. CountInv' /\ reputation'.completed - reputation.completed = 1
  BY <1>1, <1>3, CompletionCounts
<1> QED BY <1>7, <1>8 DEF CompletedCounted

LEMMA SameRecord ==
  ASSUME RecordInv, UNCHANGED <<reputation, counted, jobIds>>
  PROVE  CountInv' /\ reputation'.completed = reputation.completed
BY DEF RecordInv, CountInv

LEMMA CleanupCounts ==
  ASSUME RecordInv, CleanupCompletedJobs
  PROVE  CountInv' /\ CompletedCounted
<1> DEFINE gone == {id \in jobIds : Cleanable(id)}
<1>1. /\ jobs' = [id \in Ids |-> IF id \in gone THEN NoJob ELSE jobs[id]]
      /\ jobIds' = jobIds \ gone /\ reputation' = reputation /\ counted' = counted
  BY DEF CleanupCompletedJobs
<1> HIDE DEF gone
<1>2. /\ IsFiniteSet(counted \cup jobIds) /\ reputation.completed \in Nat
      /\ reputation.total \in Nat
  BY EscrowAssumption, FS_Subset DEF RecordInv, TypeInv, SlotInv, SlotsAccounted, BooksTyped
<1>3. counted' \cup jobIds' \subseteq counted \cup jobIds
  BY <1>1
<1> DEFINE new == counted' \cup jobIds'
           all == counted \cup jobIds
<1>4. Cardinality(new) <= Cardinality(all) /\ Cardinality(new) \in Nat /\ Cardinality(all) \in Nat
  <2>1. new \subseteq all /\ IsFiniteSet(all)
    BY <1>2, <1>3
  <2> HIDE DEF new, all
  <2> QED BY <2>1, FS_Subset, FS_CardinalityType
<1>5. Cardinality(new) <= reputation'.total
  <2>1. Cardinality(all) <= reputation.total
    BY DEF RecordInv, CountInv
  <2> HIDE DEF new, all
  <2> QED BY <1>1, <1>2, <1>4, <2>1
<1>6. CountInv'
  BY <1>1, <1>5 DEF RecordInv, CountInv
<1>7. Finishing = {}
  BY <1>1 DEF Finishing, Finished, Live
<1> QED BY <1>1, <1>2, <1>6, <1>7, FS_EmptySet DEF CompletedCounted

LEMMA ClientCounts ==
  ASSUME RecordInv, FreshSubmissions, NEW id \in Ids, ClientCalls(id)
  PROVE  CountInv' /\ CompletedCounted
<1>0. JobInv
  BY DEF RecordInv, TypeInv, SlotInv
<1>1. JobInv' /\ Lives(id)
  BY <1>0, ClientKeeps
<1>2. ASSUME NEW amount, NEW plan, NEW window, NEW flags,
             CreateJob(id, amount, plan, flags, window)
      PROVE  CountInv' /\ CompletedCounted
  <2> DEFINE ms  == [i \in DOMAIN plan |->
                      [percentage |-> plan[i], released |-> flags[i].released,
                       disputed |-> flags[i].disputed]]
             job == [amount |-> amount, status |-> "Escrowed", milestones |-> ms,
                     disputed |-> FALSE, release_after |-> now + window,
                     deadline |-> now + DEFAULT_DEADLINE_LEDGERS]
  <2>1. /\ jobs' = [jobs EXCEPT ![id] = job] /\ counted' = counted
        /\ jobIds' = jobIds \cup {id} /\ Count("total")
    BY <1>2 DEF CreateJob
  <2>2. job.status # "Completed"
    OBVIOUS
  <2> HIDE DEF job
  <2> QED BY <2>1, <2>2, CreationCounts, NoneFinishes
<1>3. ASSUME NEW plan, AmendJobMilestones(id, plan) PROVE CountInv' /\ CompletedCounted
  <2> DEFINE ms  == [i \in DOMAIN plan |->
                      [percentage |-> plan[i], released |-> FALSE, disputed |-> FALSE]]
             job == [jobs[id] EXCEPT !.milestones = ms]
  <2>1. Live(id) /\ jobs[id].status = "Escrowed"
    BY <1>3 DEF AmendJobMilestones
  <2>2. jobs' = [jobs EXCEPT ![id] = job] /\ UNCHANGED <<reputation, counted, jobIds>>
    BY <1>3 DEF AmendJobMilestones, Put
  <2> HIDE DEF ms
  <2>3. job.status # "Completed"
    BY <1>0, <2>1, LiveParts DEF Shaped
  <2> HIDE DEF job
  <2> QED BY <2>2, <2>3, SameRecord, NoneFinishes
<1>4. ASSUME NEW i, ReleaseMilestone(id, i) \/ ClaimMilestone(id, i)
      PROVE  CountInv' /\ CompletedCounted
  <2>1. /\ Live(id) /\ i \in DOMAIN jobs[id].milestones
        /\ ~jobs[id].milestones[i].released /\ \E flag : PayMilestone(id, i, flag)
    BY <1>4, Zenon DEF ReleaseMilestone, ClaimMilestone, Payable
  <2> QED BY <1>1, <2>1, PayCounts
<1>5. CASE RefundExpiredJob(id)
  <2> DEFINE job == [jobs[id] EXCEPT !.status = "Completed"]
  <2>1. Live(id) /\ Released(jobs[id].milestones) = {}
    BY <1>5 DEF RefundExpiredJob
  <2>2. jobs' = [jobs EXCEPT ![id] = job] /\ UNCHANGED <<reputation, counted, jobIds>>
    BY <1>5 DEF RefundExpiredJob, Put
  <2>3. job.milestones = jobs[id].milestones
    BY <1>0, <2>1, LiveParts DEF Shaped
  <2>4. ~AllReleased(job.milestones)
    BY <1>0, <2>1, <2>3, LiveParts DEF AllReleased, Released
  <2> HIDE DEF job
  <2> QED BY <2>2, <2>4, SameRecord, NoneFinishes
<1> QED BY <1>2, <1>3, <1>4, <1>5 DEF ClientCalls

LEMMA DisputesCount ==
  ASSUME RecordInv, FreshSubmissions, NEW id \in Ids, DisputeCalls(id)
  PROVE  CountInv' /\ CompletedCounted
<1>0. JobInv
  BY DEF RecordInv, TypeInv, SlotInv
<1>1. JobInv' /\ Lives(id)
  BY <1>0, DisputesKeep
<1>2. ASSUME NEW ms, Live(id), CountDispute(id),
             Put(id, [jobs[id] EXCEPT !.milestones = ms, !.status = "Disputed",
                                      !.disputed = TRUE])
      PROVE  CountInv' /\ CompletedCounted
  <2> DEFINE job == [jobs[id] EXCEPT !.milestones = ms, !.status = "Disputed",
                                     !.disputed = TRUE]
  <2>1. jobs' = [jobs EXCEPT ![id] = job] /\ UNCHANGED jobIds
    BY <1>2 DEF Put
  <2>2. job.status # "Completed"
    BY <1>0, <1>2, LiveParts DEF Shaped
  <2> HIDE DEF job
  <2> QED BY <1>2, <2>1, <2>2, DisputeCounts, NoneFinishes
<1>3. CASE DisputeJob(id)
  BY <1>2, <1>3 DEF DisputeJob
<1>4. CASE ResolveDispute(id)
  BY <1>1, <1>4, ResolveCounts
<1>5. ASSUME NEW i, DisputeMilestone(id, i) PROVE CountInv' /\ CompletedCounted
  BY <1>2, <1>5 DEF DisputeMilestone, Payable
<1>6. ASSUME NEW i, ResolveMilestoneDispute(id, i) PROVE CountInv' /\ CompletedCounted
  <2>1. /\ Live(id) /\ i \in DOMAIN jobs[id].milestones
        /\ jobs[id].milestones[i].disputed /\ \E flag : PayMilestone(id, i, flag)
    BY <1>6, Zenon DEF ResolveMilestoneDispute
  <2>2. ~jobs[id].milestones[i].released
    BY <1>0, <2>1 DEF JobInv, Flagged
  <2> QED BY <1>1, <2>1, <2>2, PayCounts
<1>7. ASSUME NEW ledger, UpdateReleaseAfter(id, ledger) PROVE CountInv' /\ CompletedCounted
  <2> DEFINE job == [jobs[id] EXCEPT !.release_after = ledger]
  <2>1. /\ Live(id) /\ jobs' = [jobs EXCEPT ![id] = job]
        /\ UNCHANGED <<reputation, counted, jobIds>>
    BY <1>7 DEF UpdateReleaseAfter, Put
  <2>2. job.milestones = jobs[id].milestones /\ job.status = jobs[id].status
    BY <1>0, <2>1, LiveParts DEF Shaped
  <2> HIDE DEF job
  <2> QED BY <2>1, <2>2, SameRecord, NoneFinishes
<1> QED BY <1>3, <1>4, <1>5, <1>6, <1>7 DEF DisputeCalls

LEMMA RecordStep ==
  ASSUME RecordInv, FreshSubmissions, [Next]_vars
  PROVE  CountInv' /\ CompletedCounted
<1>1. ASSUME NEW id \in Ids, ClientCalls(id) PROVE CountInv' /\ CompletedCounted
  BY <1>1, ClientCounts
<1>2. ASSUME NEW id \in Ids, DisputeCalls(id) PROVE CountInv' /\ CompletedCounted
  BY <1>2, DisputesCount
<1>3. CASE CleanupCompletedJobs
  BY <1>3, CleanupCounts
<1>4. CASE UNCHANGED <<store, reputation, counted>>
  <2>1. CountInv' /\ reputation'.completed = reputation.completed
    BY <1>4, SameRecord DEF store
  <2>2. Finishing = {}
    BY <1>4 DEF Finishing, Finished, Live, store
  <2>3. reputation.completed \in Nat
    BY DEF RecordInv, TypeInv, BooksTyped
  <2> QED BY <2>1, <2>2, <2>3, FS_EmptySet DEF CompletedCounted
<1> QED BY <1>1, <1>2, <1>3, <1>4 DEF Next, AdminCalls, ManageAdmins, LedgerCloses, vars

\* The freelancer's record: each call that finishes a job, and no other, adds one
\* completed job, and disputed jobs are counted once each and were all created.
THEOREM ReputationSafe == ASSUME FreshSubmissions PROVE Spec => ReputationCounted
<1>1. Init => RecordInv
  <2> SUFFICES ASSUME Init PROVE CountInv
    BY TypeInvInit DEF RecordInv
  <2>1. counted = {} /\ counted \cup jobIds = {} /\ reputation.total = 0
        /\ reputation.disputed = 0
    BY DEF Init
  <2> QED BY <2>1, FS_EmptySet DEF CountInv
<1>2. RecordInv /\ [Next]_vars => RecordInv'
  BY TypeInvStep, RecordStep DEF RecordInv
<1>3. RecordInv /\ [Next]_vars =>
        [/\ reputation'.completed - reputation.completed =
              Cardinality({id \in Ids : Finished(id)' /\ ~Finished(id)})
         /\ DisputeCountedOnce']_vars
  <2> SUFFICES ASSUME RecordInv, [Next]_vars
               PROVE  /\ reputation'.completed - reputation.completed =
                           Cardinality({id \in Ids : Finished(id)' /\ ~Finished(id)})
                      /\ DisputeCountedOnce'
    OBVIOUS
  <2>1. CompletedCounted
    BY RecordStep
  <2>2. DisputeCountedOnce'
    BY <1>2, CountedOnce, PTL
  <2> QED BY <2>1, <2>2 DEF CompletedCounted, Finishing
<1> QED BY <1>1, <1>2, <1>3, PTL DEF Spec, ReputationCounted
===============================================================================
