--------------------------- MODULE WebhookDeliveries ---------------------------
(***************************************************************************)
(* backend/src/services/webhook.js checkAndDeliverMilestones and           *)
(* webhookQueue.js: one milestone of one project, checked after donations  *)
(* that run side by side.  A delivery's event id hashes the milestone with *)
(* the amount the check read, so a delivery is named here by that amount.  *)
(*                                                                         *)
(* Every await is a step; workers are the queue's handlers and the         *)
(* administrator's replay, which processes in line.  A singletonKey has no *)
(* effect in a pg-boss 10 queue of the standard policy, so two jobs of one *)
(* delivery may run at once.                                               *)
(*                                                                         *)
(* Bounds: Amounts, two checks and MaxReplays replays.                     *)
(***************************************************************************)
EXTENDS Naturals, FiniteSets

CONSTANTS Amounts,       \* raised amounts that reach the milestone
          Checks,        \* concurrent checkAndDeliverMilestones calls
          Workers,       \* handlers that may run at once
          MaxAttempts,   \* MAX_ATTEMPTS
          MaxReplays,    \* bound on administrators' replays
          NoAmount

ASSUME WebhookAssumption ==
  IsFiniteSet(Workers) /\ MaxAttempts \in Nat \ {0} /\ MaxReplays \in Nat

VARIABLES raised,      \* projects.raised_xlm
          reached,     \* project_milestones.reached_at is set
          check,       \* each check: where it is and what it read
          row,         \* webhook_deliveries
          deadLetters, \* webhook_dlq rows of the delivery
          queued,      \* jobs of the delivery waiting in pg-boss
          worker,      \* each handler: where it is, its delivery, the attempts it read
          chains,      \* history: enqueues and replays of the delivery
          recorded,    \* history: posts recorded since the row's count was last reset
          confirmed,   \* history: posts the endpoint answered with 2xx
          cut          \* history: a crash or a failed send dropped the delivery's next job

hookVars == <<raised, reached, check, row, deadLetters, queued, worker, chains, recorded,
              confirmed, cut>>

Absent == [status |-> "absent", attempts |-> 0]
AtRest == [at |-> "idle", amount |-> NoAmount]
Free   == [at |-> "idle", amount |-> NoAmount, attempts |-> 0]

-------------------------------------------------------------------------------
(* checkAndDeliverMilestones *)

\* another donation raises the project's total
Raises == \E a \in Amounts : a > raised /\ raised' = a
          /\ UNCHANGED <<reached, check, row, deadLetters, queued, worker, chains, recorded,
                         confirmed, cut>>

ReadsTotal(c) ==
  /\ check[c].at = "idle" /\ raised > 0
  /\ check' = [check EXCEPT ![c] = [at |-> "select", amount |-> raised]]
  /\ UNCHANGED <<raised, reached, row, deadLetters, queued, worker, chains, recorded, confirmed,
                 cut>>

SelectsMilestone(c) ==
  /\ check[c].at = "select"
  /\ check' = [check EXCEPT ![c].at = IF reached THEN "done" ELSE "mark"]
  /\ UNCHANGED <<raised, reached, row, deadLetters, queued, worker, chains, recorded, confirmed,
                 cut>>

\* the UPDATE skips a milestone that is already marked; the webhooks follow all the same
MarksMilestone(c) ==
  /\ check[c].at = "mark"
  /\ \/ reached' = TRUE /\ check' = [check EXCEPT ![c].at = "record"]
     \/ UNCHANGED reached /\ check' = [check EXCEPT ![c].at = "done"]   \* the update failed
  /\ UNCHANGED <<raised, row, deadLetters, queued, worker, chains, recorded, confirmed, cut>>

\* enqueueWebhookDelivery: claim the row, or find it
Records(c) ==
  LET a == check[c].amount IN
  /\ check[c].at = "record"
  /\ \/ /\ row' = IF row[a] = Absent THEN [row EXCEPT ![a].status = "pending"] ELSE row
        /\ check' = [check EXCEPT ![c].at = "send"]
     \/ UNCHANGED row /\ check' = [check EXCEPT ![c].at = "done"]       \* the insert failed
  /\ UNCHANGED <<raised, reached, deadLetters, queued, worker, chains, recorded, confirmed, cut>>

\* boss.send, for a row that was there too; or it fails, and the row is left as it is
Dispatches(c) ==
  LET a == check[c].amount IN
  /\ check[c].at = "send"
  /\ check' = [check EXCEPT ![c].at = "done"]
  /\ \/ /\ queued' = [queued EXCEPT ![a] = @ + 1] /\ chains' = [chains EXCEPT ![a] = @ + 1]
        /\ UNCHANGED cut
     \/ cut' = [cut EXCEPT ![a] = TRUE] /\ UNCHANGED <<queued, chains>>
  /\ UNCHANGED <<raised, reached, row, deadLetters, worker, recorded, confirmed>>

CheckDies(c) ==
  /\ check[c].at \in {"select", "mark", "record", "send"}
  /\ check' = [check EXCEPT ![c].at = "done"]
  /\ cut' = IF check[c].at = "send" THEN [cut EXCEPT ![check[c].amount] = TRUE] ELSE cut
  /\ UNCHANGED <<raised, reached, row, deadLetters, queued, worker, chains, recorded, confirmed>>

-------------------------------------------------------------------------------
(* processDelivery *)

Takes(w) ==
  \E a \in Amounts :
    /\ worker[w].at = "idle" /\ queued[a] > 0
    /\ queued' = [queued EXCEPT ![a] = @ - 1]
    /\ worker' = [worker EXCEPT ![w] = [at |-> "read", amount |-> a, attempts |-> 0]]
    /\ UNCHANGED <<raised, reached, check, row, deadLetters, chains, recorded, confirmed, cut>>

\* the row is read without its status column: a delivered row is posted again
ReadsRow(w) ==
  /\ worker[w].at = "read"
  /\ worker' = [worker EXCEPT ![w].at = "post", ![w].attempts = row[worker[w].amount].attempts]
  /\ UNCHANGED <<raised, reached, check, row, deadLetters, queued, chains, recorded, confirmed,
                 cut>>

\* the project lost its url or its secret: markTerminal
SkipsUnset(w) ==
  /\ worker[w].at = "post"
  /\ row' = [row EXCEPT ![worker[w].amount].status = "failed"]
  /\ worker' = [worker EXCEPT ![w] = Free]
  /\ UNCHANGED <<raised, reached, check, deadLetters, queued, chains, recorded, confirmed, cut>>

\* postSigned: a 2xx, or anything else
Posts(w) ==
  /\ worker[w].at = "post"
  /\ \/ /\ worker' = [worker EXCEPT ![w].at = "ok"]
        /\ confirmed' = [confirmed EXCEPT ![worker[w].amount] = @ + 1]
     \/ worker' = [worker EXCEPT ![w].at = "failed"] /\ UNCHANGED confirmed
  /\ UNCHANGED <<raised, reached, check, row, deadLetters, queued, chains, recorded, cut>>

Writes(w, status) ==
  LET a == worker[w].amount IN
  /\ row' = [row EXCEPT ![a] = [status |-> status, attempts |-> @.attempts + 1]]
  /\ recorded' = [recorded EXCEPT ![a] = @ + 1]

RecordsDelivery(w) ==
  /\ worker[w].at = "ok"
  /\ Writes(w, "delivered")
  /\ worker' = [worker EXCEPT ![w] = Free]
  /\ UNCHANGED <<raised, reached, check, deadLetters, queued, chains, confirmed, cut>>

\* the endpoint's budget of recently attempted rows may be spent whatever this row's count
RecordsFailure(w) ==
  /\ worker[w].at = "failed"
  /\ \/ /\ worker[w].attempts + 1 < MaxAttempts
        /\ Writes(w, "pending") /\ worker' = [worker EXCEPT ![w].at = "resend"]
     \/ Writes(w, "dlq") /\ worker' = [worker EXCEPT ![w].at = "bury"]
  /\ UNCHANGED <<raised, reached, check, deadLetters, queued, chains, confirmed, cut>>

\* boss.send with startAfter, or its failure, which is only logged
Reschedules(w) ==
  LET a == worker[w].amount IN
  /\ worker[w].at = "resend"
  /\ \/ queued' = [queued EXCEPT ![a] = @ + 1] /\ UNCHANGED cut
     \/ cut' = [cut EXCEPT ![a] = TRUE] /\ UNCHANGED queued
  /\ worker' = [worker EXCEPT ![w] = Free]
  /\ UNCHANGED <<raised, reached, check, row, deadLetters, chains, recorded, confirmed>>

Buries(w) ==
  /\ worker[w].at = "bury"
  /\ deadLetters' = [deadLetters EXCEPT ![worker[w].amount] = @ + 1]
  /\ worker' = [worker EXCEPT ![w] = Free]
  /\ UNCHANGED <<raised, reached, check, row, queued, chains, recorded, confirmed, cut>>

\* the process dies with the job active: retryLimit 0, so pg-boss does not run it again
WorkerDies(w) ==
  /\ worker[w].at # "idle"
  /\ cut' = [cut EXCEPT ![worker[w].amount] = TRUE]
  /\ worker' = [worker EXCEPT ![w] = Free]
  /\ UNCHANGED <<raised, reached, check, row, deadLetters, queued, chains, recorded, confirmed>>

\* replayDelivery: only a row in the dead-letter state, with its full budget again
Replays(w) ==
  \E a \in Amounts :
    /\ worker[w].at = "idle" /\ row[a].status = "dlq"
    /\ chains[a] < MaxReplays
    /\ row' = [row EXCEPT ![a] = [status |-> "pending", attempts |-> 0]]
    /\ worker' = [worker EXCEPT ![w] = [at |-> "read", amount |-> a, attempts |-> 0]]
    /\ chains' = [chains EXCEPT ![a] = @ + 1] /\ recorded' = [recorded EXCEPT ![a] = 0]
    /\ UNCHANGED <<raised, reached, check, deadLetters, queued, confirmed, cut>>

-------------------------------------------------------------------------------
HookInit ==
  /\ raised = 0 /\ reached = FALSE
  /\ check = [c \in Checks |-> AtRest] /\ worker = [w \in Workers |-> Free]
  /\ row = [a \in Amounts |-> Absent]
  /\ deadLetters = [a \in Amounts |-> 0] /\ queued = [a \in Amounts |-> 0]
  /\ chains = [a \in Amounts |-> 0] /\ recorded = [a \in Amounts |-> 0]
  /\ confirmed = [a \in Amounts |-> 0] /\ cut = [a \in Amounts |-> FALSE]

HookNext ==
  \/ Raises
  \/ \E c \in Checks : ReadsTotal(c) \/ SelectsMilestone(c) \/ MarksMilestone(c) \/ Records(c)
                       \/ Dispatches(c) \/ CheckDies(c)
  \/ \E w \in Workers : Takes(w) \/ ReadsRow(w) \/ SkipsUnset(w) \/ Posts(w) \/ RecordsDelivery(w)
                        \/ RecordsFailure(w) \/ Reschedules(w) \/ Buries(w) \/ WorkerDies(w)
                        \/ Replays(w)

-------------------------------------------------------------------------------
(* Properties *)

\* The variables have their types, and a row's count of attempts is the number of posts
\* recorded since it was last reset: no handler overwrites another's.
HookTypeOK ==
  /\ raised \in Amounts \union {0} /\ reached \in BOOLEAN
  /\ check \in [Checks -> [at : {"idle", "select", "mark", "record", "send", "done"},
                           amount : Amounts \union {NoAmount}]]
  /\ \A a \in Amounts :
       /\ row[a].status \in {"absent", "pending", "delivered", "failed", "dlq"}
       /\ row[a].attempts = recorded[a]
  /\ worker \in [Workers -> [at : {"idle", "read", "post", "ok", "failed", "resend", "bury"},
                             amount : Amounts \union {NoAmount}, attempts : Nat]]
  /\ {deadLetters, queued, chains, recorded, confirmed} \subseteq [Amounts -> Nat]
  /\ cut \in [Amounts -> BOOLEAN]

\* A pending delivery has a job, a handler or a check that will send one, unless a crash or a
\* failed send dropped it: the retry chain itself never ends on a pending row.
NothingForgotten ==
  \A a \in Amounts :
    row[a].status = "pending" /\ ~cut[a] =>
      \/ queued[a] > 0
      \/ \E w \in Workers : worker[w].amount = a
      \/ \E c \in Checks : check[c].at = "send" /\ check[c].amount = a

\* An endpoint's 2xx ends the chain of jobs it came from: a delivery is confirmed at most once
\* for each enqueue and each replay of it.
ConfirmedPerChain == \A a \in Amounts : confirmed[a] <= chains[a]
===============================================================================
