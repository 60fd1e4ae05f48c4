------------------------------ MODULE EscrowJobs ------------------------------
(***************************************************************************)
(* The escrow contract, contracts/escrow-contract/src/lib.rs: a client     *)
(* locks funds for a job and they leave the contract milestone by          *)
(* milestone, released by the client, claimed by the freelancer when the   *)
(* release period is over, decided by the admins when they are disputed,   *)
(* or refunded after the deadline.                                         *)
(*                                                                         *)
(* A call of the contract is atomic: a panic or a failed token transfer    *)
(* undoes all of it, so a call is one action and a panic is a call that    *)
(* is not enabled.  Who may call (require_auth, the client or freelancer   *)
(* of the job) is left out: those roles call whenever they like.  Jobs     *)
(* share one token and one freelancer.  Left out: names of milestones,     *)
(* the count of amendments, the value and punctuality in a reputation,     *)
(* and the oracle-escrow feature, which is off by default.                 *)
(***************************************************************************)
EXTENDS Integers, Sequences, FiniteSets, Functions

CONSTANTS
  Ids,                       \* job ids
  Amounts,                   \* amounts that clients lock
  Plans,                     \* percentages of milestones that parties propose
  Submitted,                 \* flags of a milestone in a call of create_job
  Windows,                   \* release_after arguments of create_job
  People,                    \* addresses that may be admins
  RELEASE_AFTER_LEDGERS, DEFAULT_DEADLINE_LEDGERS, GRACE_PERIOD, MAX_JOBS,
  CounterMax,                \* bound: the u32 counters of a reputation
  MaxLedger                  \* bound: ledgers of a behaviour

NoJob    == [status |-> "absent"]
Fresh    == [released |-> FALSE, disputed |-> FALSE]
Statuses == {"Escrowed", "PartiallyReleased", "Completed", "Disputed"}

ASSUME EscrowAssumption ==
  /\ IsFiniteSet(Ids) /\ IsFiniteSet(People) /\ People # {}
  /\ Amounts \subseteq Int /\ Windows \subseteq Nat
  /\ Plans \subseteq Seq(Nat)
  /\ Submitted \subseteq [released : BOOLEAN, disputed : BOOLEAN]
  /\ RELEASE_AFTER_LEDGERS \in Nat /\ DEFAULT_DEADLINE_LEDGERS \in Nat
  /\ GRACE_PERIOD \in Nat /\ MAX_JOBS \in Nat
  /\ CounterMax \in Nat /\ MaxLedger \in Nat

VARIABLES
  now,         \* env.ledger().sequence()
  jobs,        \* DataKey::Job
  jobIds,      \* DataKey::JobIds; its order only matters for pages
  jobCount,    \* DataKey::JobCount
  reputation,  \* DataKey::FreelancerReputation
  counted,     \* DataKey::ReputationDisputeCounted
  admins,      \* DataKey::AdminSet
  threshold,   \* DataKey::AdminThreshold
  balance,     \* the contract's balance in the token contract
  paid,        \* history: transferred out for the current job of an id
  refunded     \* history: ids of which a job was refunded

store  == <<jobs, jobIds, jobCount>>
funds  == <<balance, paid, refunded>>
quorum == <<admins, threshold>>
vars   == <<now, store, reputation, counted, quorum, funds>>

Milestones == [percentage : Nat, released : BOOLEAN, disputed : BOOLEAN]
Jobs == [amount : Int, status : Statuses, milestones : Seq(Milestones),
         disputed : BOOLEAN, release_after : Nat, deadline : Nat]

-------------------------------------------------------------------------------
(* The money of a job.                                                     *)

\* compute_proportional_payout: the division comes before the multiplication,
\* so that nothing overflows an i128.
Share(amount, percentage) ==
  IF percentage = 100 THEN amount
  ELSE (amount \div 100) * percentage + ((amount % 100) * percentage) \div 100

Released(ms)    == {i \in DOMAIN ms : ms[i].released}
AllReleased(ms) == \A i \in DOMAIN ms : ms[i].released
AnyDisputed(ms) == \E i \in DOMAIN ms : ms[i].disputed

ReleasedShares(job) ==
  SumFunctionOnSet([i \in DOMAIN job.milestones |->
                      Share(job.amount, job.milestones[i].percentage)],
                   Released(job.milestones))

Remaining(job) ==
  IF AllReleased(job.milestones) THEN 0 ELSE job.amount - ReleasedShares(job)

\* Mutant: the last milestone takes its rounded share as well.
AlwaysShare(job, i) == Share(job.amount, job.milestones[i].percentage)

\* The last unreleased milestone takes what the rounded shares have left.
Payout(job, i) ==
  IF DOMAIN job.milestones \ Released(job.milestones) = {i}
  THEN job.amount - ReleasedShares(job)
  ELSE Share(job.amount, job.milestones[i].percentage)

\* Mutant: an off-by-one in the count of released milestones.
CompletedEarly(ms) ==
  IF Cardinality(Released(ms)) >= Cardinality(DOMAIN ms) - 1 THEN "Completed"
  ELSE IF AnyDisputed(ms) THEN "Disputed" ELSE "PartiallyReleased"

StatusOf(ms) ==
  IF AllReleased(ms) THEN "Completed"
  ELSE IF AnyDisputed(ms) THEN "Disputed" ELSE "PartiallyReleased"

ValidPlan(plan) ==
  /\ plan # <<>>
  /\ \A i \in DOMAIN plan : plan[i] > 0
  /\ SumFunctionOnSet(plan, DOMAIN plan) = 100

Live(id) == jobs[id] # NoJob

Put(id, job) == jobs' = [jobs EXCEPT ![id] = job] /\ UNCHANGED <<jobIds, jobCount>>

\* Mutant: a transfer that nothing limits.
UnlimitedTransfer(id, x) ==
  /\ balance' = balance - x
  /\ paid' = [paid EXCEPT ![id] = @ + x]

\* token.transfer(contract, recipient, x) fails without the balance for it.
Transfer(id, x) ==
  /\ balance >= x
  /\ balance' = balance - x
  /\ paid' = [paid EXCEPT ![id] = @ + x]

Count(field) ==
  /\ reputation[field] < CounterMax
  /\ reputation' = [reputation EXCEPT ![field] = @ + 1]

\* Mutant: every dispute of a job counts.
CountEveryDispute(id) == Count("disputed") /\ counted' = counted \cup {id}

CountDispute(id) ==
  IF id \in counted THEN UNCHANGED <<reputation, counted>>
  ELSE Count("disputed") /\ counted' = counted \cup {id}

CountCompletion(job) ==
  /\ IF job.status = "Completed" THEN Count("completed") ELSE UNCHANGED reputation
  /\ UNCHANGED counted

\* A distinct admin counts once, however often it signs.
Authorized(signers) == Cardinality(signers \cap admins) >= threshold

-------------------------------------------------------------------------------
(* The calls of client and freelancer.                                     *)

CreateJob(id, amount, plan, flags, window) ==
  /\ amount > 0
  /\ window >= RELEASE_AFTER_LEDGERS
  /\ ~Live(id)
  /\ ValidPlan(plan)
  /\ window <= DEFAULT_DEADLINE_LEDGERS
  /\ jobCount < MAX_JOBS
  /\ jobs' = [jobs EXCEPT ![id] =
       [amount |-> amount, status |-> "Escrowed",
        milestones |-> [i \in DOMAIN plan |->
          [percentage |-> plan[i], released |-> flags[i].released,
           disputed |-> flags[i].disputed]],
        disputed |-> FALSE,
        release_after |-> now + window, deadline |-> now + DEFAULT_DEADLINE_LEDGERS]]
  /\ jobIds' = jobIds \cup {id}
  /\ jobCount' = jobCount + 1
  /\ Count("total")
  /\ balance' = balance + amount
  /\ paid' = [paid EXCEPT ![id] = 0]
  /\ UNCHANGED <<now, counted, quorum, refunded>>

\* Both parties agree on new milestones before the first release.
AmendJobMilestones(id, plan) ==
  /\ Live(id) /\ jobs[id].status = "Escrowed"
  /\ ValidPlan(plan)
  /\ Put(id, [jobs[id] EXCEPT !.milestones =
       [i \in DOMAIN plan |->
         [percentage |-> plan[i], released |-> FALSE, disputed |-> FALSE]]])
  /\ UNCHANGED <<now, reputation, counted, quorum, funds>>

\* The end that release, claim and resolution of a milestone have in common.
PayMilestone(id, i, disputed) ==
  LET job  == jobs[id]
      ms   == [job.milestones EXCEPT ![i] = [@ EXCEPT !.released = TRUE, !.disputed = FALSE]]
      done == [job EXCEPT !.milestones = ms, !.status = StatusOf(ms),
                          !.disputed = disputed]
  IN  /\ Put(id, done)
      /\ CountCompletion(done)
      /\ Transfer(id, Payout(job, i))
      /\ UNCHANGED <<now, quorum, refunded>>

Payable(id, i) ==
  /\ Live(id) /\ i \in DOMAIN jobs[id].milestones
  /\ ~jobs[id].milestones[i].disputed
  /\ ~jobs[id].milestones[i].released

ReleaseMilestone(id, i) ==
  /\ Payable(id, i)
  /\ PayMilestone(id, i, jobs[id].disputed)

ClaimMilestone(id, i) ==
  /\ Payable(id, i)
  /\ now >= jobs[id].release_after
  /\ PayMilestone(id, i, jobs[id].disputed)

\* Only the status changes: the milestones stay unreleased.
RefundExpiredJob(id) ==
  /\ Live(id)
  /\ now >= jobs[id].deadline
  /\ Released(jobs[id].milestones) = {}
  /\ Put(id, [jobs[id] EXCEPT !.status = "Completed"])
  /\ Transfer(id, Remaining(jobs[id]))
  /\ refunded' = refunded \cup {id}
  /\ UNCHANGED <<now, reputation, counted, quorum>>

-------------------------------------------------------------------------------
(* The calls of the admins.                                                *)

\* Mutant: the dispute of a job is not mirrored onto its milestones.
DisputeJobOnly(id) ==
  /\ Live(id)
  /\ Put(id, [jobs[id] EXCEPT !.disputed = TRUE, !.status = "Disputed"])
  /\ CountDispute(id)
  /\ UNCHANGED <<now, quorum, funds>>

DisputeJob(id) ==
  /\ Live(id)
  /\ LET ms == jobs[id].milestones
     IN  Put(id, [jobs[id] EXCEPT
           !.milestones = [i \in DOMAIN ms |->
             [ms[i] EXCEPT !.disputed = @ \/ ~ms[i].released]],
           !.status = "Disputed", !.disputed = TRUE])
  /\ CountDispute(id)
  /\ UNCHANGED <<now, quorum, funds>>

ResolveDispute(id) ==
  /\ Live(id) /\ jobs[id].disputed
  /\ LET ms   == jobs[id].milestones
         done == [jobs[id] EXCEPT
           !.milestones = [i \in DOMAIN ms |->
             [ms[i] EXCEPT !.released = TRUE, !.disputed = FALSE]],
           !.status = "Completed", !.disputed = FALSE]
     IN  Put(id, done) /\ CountCompletion(done)
  /\ Transfer(id, Remaining(jobs[id]))
  /\ UNCHANGED <<now, quorum, refunded>>

DisputeMilestone(id, i) ==
  /\ Payable(id, i)
  /\ LET ms == [jobs[id].milestones EXCEPT ![i] = [@ EXCEPT !.disputed = TRUE]]
     IN  Put(id, [jobs[id] EXCEPT !.milestones = ms, !.status = "Disputed",
                                  !.disputed = TRUE])
  /\ CountDispute(id)
  /\ UNCHANGED <<now, quorum, funds>>

ResolveMilestoneDispute(id, i) ==
  /\ Live(id) /\ i \in DOMAIN jobs[id].milestones
  /\ jobs[id].milestones[i].disputed
  /\ PayMilestone(id, i,
       AnyDisputed([jobs[id].milestones EXCEPT ![i].disputed = FALSE]))

UpdateReleaseAfter(id, ledger) ==
  /\ Live(id)
  /\ ledger > jobs[id].release_after
  /\ ledger <= jobs[id].deadline
  /\ Put(id, [jobs[id] EXCEPT !.release_after = ledger])
  /\ UNCHANGED <<now, reputation, counted, quorum, funds>>

AddAdmin(p) ==
  /\ p \notin admins
  /\ admins' = admins \cup {p}
  /\ UNCHANGED threshold

\* Mutant: the threshold is not looked at.
RemoveAnyAdmin(p) ==
  /\ p \in admins
  /\ Cardinality(admins) > 1
  /\ admins' = admins \ {p}
  /\ UNCHANGED threshold

RemoveAdmin(p) ==
  /\ p \in admins
  /\ Cardinality(admins) > 1
  /\ threshold <= Cardinality(admins \ {p})
  /\ admins' = admins \ {p}
  /\ UNCHANGED threshold

UpdateThreshold(n) ==
  /\ n \in 1 .. Cardinality(admins)
  /\ threshold' = n
  /\ UNCHANGED admins

ManageAdmins ==
  /\ \/ \E p \in People : AddAdmin(p) \/ RemoveAdmin(p)
     \/ \E n \in 0 .. Cardinality(People) : UpdateThreshold(n)
  /\ UNCHANGED <<now, store, reputation, counted, funds>>

-------------------------------------------------------------------------------
(* Anyone may clean up; ledgers close.                                     *)

Cleanable(id) ==
  /\ Live(id) /\ jobs[id].status = "Completed"
  /\ jobs[id].deadline + GRACE_PERIOD < now

\* Mutant: the count keeps the archived jobs.
CleanupUncounted ==
  LET gone == {id \in jobIds : Cleanable(id)}
  IN  /\ gone # {}
      /\ jobs' = [id \in Ids |-> IF id \in gone THEN NoJob ELSE jobs[id]]
      /\ jobIds' = jobIds \ gone
      /\ UNCHANGED <<now, jobCount, reputation, counted, quorum, funds>>

CleanupCompletedJobs ==
  LET gone == {id \in jobIds : Cleanable(id)}
  IN  /\ gone # {}
      /\ jobs' = [id \in Ids |-> IF id \in gone THEN NoJob ELSE jobs[id]]
      /\ jobIds' = jobIds \ gone
      /\ jobCount >= Cardinality(gone)
      /\ jobCount' = jobCount - Cardinality(gone)
      /\ UNCHANGED <<now, reputation, counted, quorum, funds>>

LedgerCloses ==
  /\ now < MaxLedger
  /\ now' = now + 1
  /\ UNCHANGED <<store, reputation, counted, quorum, funds>>

-------------------------------------------------------------------------------
\* initialize, with admins that are distinct.
Init ==
  /\ now = 0
  /\ jobs = [id \in Ids |-> NoJob] /\ jobIds = {} /\ jobCount = 0
  /\ reputation = [total |-> 0, disputed |-> 0, completed |-> 0]
  /\ counted = {}
  /\ admins \in SUBSET People \ {{}} /\ threshold \in 1 .. Cardinality(admins)
  /\ balance = 0 /\ paid = [id \in Ids |-> 0] /\ refunded = {}

Indices(id) == IF Live(id) THEN DOMAIN jobs[id].milestones ELSE {}

ClientCalls(id) ==
  \/ \E amount \in Amounts, plan \in Plans, window \in Windows :
       \E flags \in [DOMAIN plan -> Submitted] : CreateJob(id, amount, plan, flags, window)
  \/ \E plan \in Plans : AmendJobMilestones(id, plan)
  \/ \E i \in Indices(id) : ReleaseMilestone(id, i) \/ ClaimMilestone(id, i)
  \/ RefundExpiredJob(id)

DisputeCalls(id) ==
  \/ DisputeJob(id) \/ ResolveDispute(id)
  \/ \E i \in Indices(id) : DisputeMilestone(id, i) \/ ResolveMilestoneDispute(id, i)
  \/ \E ledger \in 0 .. MaxLedger + DEFAULT_DEADLINE_LEDGERS :
       UpdateReleaseAfter(id, ledger)

\* Signers matter only by being enough, so all admins may as well sign.
AdminCalls == Authorized(admins) /\ ((\E id \in Ids : DisputeCalls(id)) \/ ManageAdmins)

Next ==
  \/ \E id \in Ids : ClientCalls(id)
  \/ AdminCalls
  \/ CleanupCompletedJobs
  \/ LedgerCloses

Spec == Init /\ [][Next]_vars

-------------------------------------------------------------------------------
(* Properties.                                                             *)

\* Every variable has its type; the record of a live job is well formed.
TypeOK ==
  /\ now \in Nat
  /\ jobs \in [Ids -> Jobs \cup {NoJob}]
  /\ jobIds \subseteq Ids /\ jobCount \in Nat
  /\ reputation \in [{"total", "disputed", "completed"} -> Nat]
  /\ counted \subseteq Ids /\ refunded \subseteq Ids
  /\ admins \subseteq People /\ threshold \in Nat
  /\ balance \in Nat /\ paid \in [Ids -> Int]

\* What the status of a job says of its milestones, as long as the job was not
\* refunded: amend_job_milestones may rewrite an Escrowed job because nothing of
\* it was paid, and cleanup may delete a Completed one because everything was.
StatusMatches ==
  \A id \in Ids \ refunded : Live(id) =>
    LET job == jobs[id]
    IN  /\ job.status = "Escrowed" => Released(job.milestones) = {}
        /\ job.status = "Completed" => AllReleased(job.milestones)
        /\ AllReleased(job.milestones) => job.status \in {"Completed", "Disputed"}

\* get_remaining_funds is what the contract still holds for a job, rounding
\* included, until the job is refunded.
HeldUntilRefund ==
  \A id \in Ids \ refunded : Live(id) => paid[id] = jobs[id].amount - Remaining(jobs[id])

Left(id) == IF Live(id) THEN Remaining(jobs[id]) ELSE 0

\* Without refunds the contract holds exactly what its jobs have left: no job is
\* paid from another's funds and no archived job leaves funds behind.
Solvent ==
  refunded = {} => balance = SumFunctionOnSet([id \in Ids |-> Left(id)], Ids)

\* A dispute stands until it is resolved: a disputed milestone is not paid, and the
\* dispute of a job is visible in its status, so cleanup keeps the job, and can be
\* ended by the resolution of its milestones as well (issue 613).
DisputeStands ==
  \A id \in Ids \ refunded : Live(id) =>
    LET job == jobs[id]
    IN  /\ \A i \in DOMAIN job.milestones :
             job.milestones[i].disputed => ~job.milestones[i].released
        /\ job.disputed =>
             /\ job.status = "Disputed"
             /\ AnyDisputed(job.milestones) \/ AllReleased(job.milestones)

\* The count, the list and the records of jobs agree through creation, cleanup
\* and reuse of an id, and the cap on stored jobs holds.
SlotsAccounted ==
  /\ jobIds = {id \in Ids : Live(id)}
  /\ jobCount = Cardinality(jobIds)
  /\ jobCount <= MAX_JOBS

\* Whatever the admins change, they remain enough to act.
AdminsCanAct == threshold >= 1 /\ threshold <= Cardinality(admins)

Finished(id) ==
  /\ Live(id) /\ jobs[id].status = "Completed" /\ AllReleased(jobs[id].milestones)

\* A job counts as disputed at most once, however often it is disputed, and only
\* jobs that were created count.
DisputeCountedOnce ==
  /\ reputation.disputed = Cardinality(counted)
  /\ reputation.disputed <= reputation.total

\* lib.rs says of get_remaining_funds, without exception, "the exact number of
\* stroops the contract still holds for this job".
RemainingIsHeld ==
  \A id \in Ids : Live(id) => Remaining(jobs[id]) = jobs[id].amount - paid[id]

\* The money of the jobs: what they have left, and what the contract holds for them.
FundsAccounted == HeldUntilRefund /\ Solvent

\* The freelancer's record: completed jobs grow exactly when a job is finished, by
\* whichever of the four calls that can finish one, and disputes are counted once.
ReputationCounted ==
  [][/\ reputation'.completed - reputation.completed =
          Cardinality({id \in Ids : Finished(id)' /\ ~Finished(id)})
     /\ DisputeCountedOnce']_vars
===============================================================================
