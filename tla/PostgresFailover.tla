---------------------------- MODULE PostgresFailover ----------------------------
(***************************************************************************)
(* scripts/postgres-healthcheck-daemon.js, in the pods that watch one      *)
(* PostgreSQL primary, and failover.sh of k8s/postgres-failover-script.yaml *)
(* in the Jobs they create: a Lease decides which daemon may create a Job, *)
(* a ConfigMap which Job may promote.  Each call to the Kubernetes API is  *)
(* a step that others may come before.                                     *)
(*                                                                         *)
(* Jobs read nothing of the daemons and may be created by hand as well, so *)
(* the two halves have a next-state relation each.  "Current" stands for   *)
(* the resourceVersion of the Lease a daemon has read: nobody has written  *)
(* since.  Time is a step that ends a freshness.                           *)
(***************************************************************************)
EXTENDS Naturals

CONSTANTS Daemons, Threshold, Nobody, Alias, Pods, NoPod

ASSUME FailoverAssumption ==
  Threshold \in Nat \ {0} /\ Nobody \notin Daemons /\ Alias \notin Daemons /\ NoPod \notin Pods

VARIABLES daemon,   \* each daemon: place in its round, failCount, leaseHolder, failoverInitiated
          primaryLease, \* postgres-primary-lock: holderIdentity and whether it is fresh
          created,  \* history: Jobs each daemon created since it saw a healthy probe or started
          stolen,   \* history: a fresh lease was taken from its holder
          pod,      \* each pod of a failover Job: place in failover.sh, whether it is the retry
          lock,     \* the ConfigMap postgres-failover-lock: who created it, whether it is fresh
          promoted, \* the standby left recovery
          routed,   \* the Services that select the standby
          seized,   \* history: a lock was reclaimed
          blind     \* history: a promotion and the question after it both went unanswered

daemonVars  == <<daemon, primaryLease, created, stolen>>
jobVars     == <<pod, lock, promoted, routed, seized, blind>>

-------------------------------------------------------------------------------
(* The main loop of a daemon *)

Started  == [at |-> "sleep", fails |-> 0, aliased |-> FALSE, initiated |-> FALSE,
             current |-> FALSE, retries |-> 0]
Name(d)  == IF daemon[d].at \in {"renew", "renewing"} /\ daemon[d].aliased THEN Alias ELSE d

HealthyProbe(d) ==
  /\ daemon[d].at = "sleep"
  /\ daemon' = [daemon EXCEPT ![d].at = "renew", ![d].fails = 0, ![d].initiated = FALSE, ![d].retries = 0]
  /\ created' = [created EXCEPT ![d] = 0]
  /\ UNCHANGED <<primaryLease, stolen>>

\* a failed probe: counted; at the threshold suppressed, called off by the final check, or acted on
FailedProbe(d) ==
  /\ daemon[d].at = "sleep"
  /\ \/ /\ daemon[d].fails + 1 < Threshold
        /\ daemon' = [daemon EXCEPT ![d].fails = @ + 1]
     \/ /\ daemon[d].fails + 1 >= Threshold
        /\ daemon' = [daemon EXCEPT ![d].fails = 0]
     \/ /\ daemon[d].fails + 1 >= Threshold /\ ~daemon[d].initiated
        /\ daemon' = [daemon EXCEPT ![d].at = "seek", ![d].retries = 0,
                                    ![d].fails = IF @ < Threshold THEN @ + 1 ELSE @]
  /\ UNCHANGED <<primaryLease, created, stolen>>

\* acquireLease resolves with acquired false: in a healthy round the next name is the alias,
\* in a failed one the failover counts as initiated, maybeTriggerFailover being true either way
Denied(d) ==
  IF daemon[d].at \in {"renew", "renewing"}
  THEN [daemon EXCEPT ![d].at = "sleep", ![d].aliased = TRUE]
  ELSE [daemon EXCEPT ![d].at = "sleep", ![d].initiated = TRUE, ![d].fails = 0]

\* a request times out: the round ends where it is
Throws(d) == [daemon EXCEPT ![d].at = "sleep"]

\* the GET, and the check of who holds the Lease; an answer without a spec leads to a refused PUT
GetsLease(d) ==
  /\ daemon[d].at \in {"renew", "seek"}
  /\ \/ /\ primaryLease.holder \in {Nobody, Name(d)} \/ ~primaryLease.fresh
        /\ daemon' = [daemon EXCEPT ![d].at = IF @ = "renew" THEN "renewing" ELSE "seizing",
                                    ![d].current = TRUE]
     \/ daemon' = Denied(d)
     \/ daemon' = Throws(d)
  /\ UNCHANGED <<primaryLease, created, stolen>>

\* the PUT (the POST, where the Lease is absent) lands
Lands(d) ==
  /\ primaryLease' = [holder |-> Name(d), fresh |-> TRUE]
  /\ stolen' = (stolen \/ (primaryLease.holder \notin {Nobody, Name(d)} /\ primaryLease.fresh))

Overwritten(after) == [e \in Daemons |-> [after[e] EXCEPT !.current = FALSE]]

PutsLease(d) ==
  /\ daemon[d].at \in {"renewing", "seizing"}
  /\ \/ /\ daemon[d].current /\ Lands(d)
        /\ daemon' = Overwritten(IF daemon[d].at = "renewing"
                                 THEN [daemon EXCEPT ![d].at = "sleep", ![d].aliased = FALSE]
                                 ELSE [daemon EXCEPT ![d].at = "create"])
     \/ /\ daemon[d].current /\ Lands(d)          \* the answer is lost
        /\ daemon' = Overwritten(Throws(d))
     \/ /\ UNCHANGED <<primaryLease, stolen>>            \* the request is
        /\ daemon' = Throws(d)
     \/ /\ ~daemon[d].current /\ UNCHANGED <<primaryLease, stolen>>     \* 409: once more from the GET
        /\ daemon' = IF daemon[d].retries = 0
                     THEN [daemon EXCEPT ![d].at = IF @ = "renewing" THEN "renew" ELSE "seek",
                                         ![d].retries = 1]
                     ELSE Denied(d)
  /\ UNCHANGED created

\* createFailoverJob, whose failure is caught: created or not, the failover counts as initiated
CreatesJob(d) ==
  /\ daemon[d].at = "create"
  /\ daemon' = [daemon EXCEPT ![d].at = "sleep", ![d].initiated = TRUE, ![d].fails = 0]
  /\ created' = [created EXCEPT ![d] = @ + 1] \/ UNCHANGED created
  /\ UNCHANGED <<primaryLease, stolen>>

LeaseTermEnds ==
  /\ primaryLease.fresh
  /\ primaryLease' = [primaryLease EXCEPT !.fresh = FALSE]
  /\ UNCHANGED <<daemon, created, stolen>>

DaemonRestarts(d) ==
  /\ daemon' = [daemon EXCEPT ![d] = Started]
  /\ created' = [created EXCEPT ![d] = 0]
  /\ UNCHANGED <<primaryLease, stolen>>

DaemonInit ==
  /\ daemon = [d \in Daemons |-> Started]
  /\ primaryLease = [holder |-> Nobody, fresh |-> FALSE]
  /\ created = [d \in Daemons |-> 0] /\ stolen = FALSE

DaemonNext ==
  \/ \E d \in Daemons : HealthyProbe(d) \/ FailedProbe(d) \/ GetsLease(d) \/ PutsLease(d)
                        \/ CreatesJob(d) \/ DaemonRestarts(d)
  \/ LeaseTermEnds

-------------------------------------------------------------------------------
(* failover.sh *)

NoLock    == [by |-> NoPod, fresh |-> FALSE]
InLock(j) == pod[j].at \in {"locked", "promoted", "half", "routed"}
\* the pod fails; backoffLimit 1 runs the script once more
PodFails(j) == [pod EXCEPT ![j] = IF @.again THEN [@ EXCEPT !.at = "ended"]
                                           ELSE [at |-> "started", again |-> TRUE]]

JobStarts(j) ==
  /\ pod[j].at = "none"
  /\ pod' = [pod EXCEPT ![j].at = "started"]
  /\ UNCHANGED <<lock, promoted, routed, seized, blind>>

ChecksLock(j) ==
  /\ pod[j].at = "started"
  /\ pod' = [pod EXCEPT ![j].at = IF lock = NoLock THEN "free" ELSE "taken"]
  /\ UNCHANGED <<lock, promoted, routed, seized, blind>>

\* holder and acquired-at: a fresh lock ends the Job; one that is stale, gone, or could not be
\* read (|| echo "", || echo "0") is reclaimed
ReadsLock(j) ==
  /\ pod[j].at = "taken"
  /\ \/ lock.fresh /\ pod' = PodFails(j)
     \/ pod' = [pod EXCEPT ![j].at = "reclaim"]
  /\ UNCHANGED <<lock, promoted, routed, seized, blind>>

\* the delete, of whatever lock is there by now; its failure ends the Job
Reclaims(j) ==
  /\ pod[j].at = "reclaim"
  /\ \/ /\ lock # NoLock /\ lock' = NoLock /\ seized' = TRUE
        /\ pod' = [pod EXCEPT ![j].at = "free"] \/ pod' = PodFails(j)
     \/ UNCHANGED <<lock, seized>> /\ pod' = PodFails(j)
  /\ UNCHANGED <<promoted, routed, blind>>

\* the atomic create: made, made but unanswered (the lock stays, no trap yet), or refused
CreatesLock(j) ==
  /\ pod[j].at = "free"
  /\ \/ /\ lock = NoLock /\ lock' = [by |-> j, fresh |-> TRUE]
        /\ pod' = [pod EXCEPT ![j].at = "locked"] \/ pod' = PodFails(j)
     \/ UNCHANGED lock /\ pod' = PodFails(j)
  /\ UNCHANGED <<promoted, routed, seized, blind>>

\* pg_ctl promote; where it fails, only the answer "still in recovery" ends the Job
Promotes(j) ==
  /\ pod[j].at = "locked"
  /\ pod' = [pod EXCEPT ![j].at = "promoted"]
  /\ \/ promoted' = TRUE /\ UNCHANGED blind
     \/ UNCHANGED promoted /\ blind' = (blind \/ ~promoted)
  /\ UNCHANGED <<lock, routed, seized>>

PatchesService(j) ==
  /\ \/ pod[j].at = "promoted" /\ routed' = routed \union {"postgres-svc"}
        /\ pod' = [pod EXCEPT ![j].at = "half"]
     \/ pod[j].at = "half" /\ routed' = routed \union {"postgres-primary-svc"}
        /\ pod' = [pod EXCEPT ![j].at = "routed"]
  /\ UNCHANGED <<lock, promoted, seized, blind>>

\* the trap deletes the lock, whoever's it is
Unlocking == lock' = NoLock \/ UNCHANGED lock

\* the backend is restarted and ready
Completes(j) ==
  /\ pod[j].at = "routed"
  /\ pod' = [pod EXCEPT ![j].at = "ended"] /\ Unlocking
  /\ UNCHANGED <<promoted, routed, seized, blind>>

\* a step fails, under set -e or with exit 1
Aborts(j) ==
  /\ InLock(j)
  /\ pod' = PodFails(j) /\ Unlocking
  /\ UNCHANGED <<promoted, routed, seized, blind>>

\* the pod is killed: no trap
PodDies(j) ==
  /\ pod[j].at \notin {"none", "ended"}
  /\ pod' = PodFails(j)
  /\ UNCHANGED <<lock, promoted, routed, seized, blind>>

LockExpires ==
  /\ lock.fresh
  /\ lock' = [lock EXCEPT !.fresh = FALSE]
  /\ UNCHANGED <<pod, promoted, routed, seized, blind>>

JobInit ==
  /\ pod = [j \in Pods |-> [at |-> "none", again |-> FALSE]] /\ lock = NoLock
  /\ promoted = FALSE /\ routed = {} /\ seized = FALSE /\ blind = FALSE

JobNext ==
  \/ \E j \in Pods : JobStarts(j) \/ ChecksLock(j) \/ ReadsLock(j) \/ Reclaims(j) \/ CreatesLock(j)
                     \/ Promotes(j) \/ PatchesService(j) \/ Completes(j) \/ Aborts(j) \/ PodDies(j)
  \/ LockExpires

-------------------------------------------------------------------------------
(* Properties *)

\* The variables have their types.
FailoverTypeOK ==
  /\ daemon \in [Daemons -> [at : {"sleep", "renew", "renewing", "seek", "seizing", "create"},
                             fails : 0..Threshold, aliased : BOOLEAN, initiated : BOOLEAN,
                             current : BOOLEAN, retries : 0..1]]
  /\ primaryLease \in [holder : Daemons \union {Nobody, Alias}, fresh : BOOLEAN]
  /\ created \in [Daemons -> Nat] /\ stolen \in BOOLEAN
  /\ pod \in [Pods -> [at : {"none", "started", "free", "taken", "reclaim", "locked", "promoted",
                             "half", "routed", "ended"}, again : BOOLEAN]]
  /\ lock \in [by : Pods \union {NoPod}, fresh : BOOLEAN]
  /\ promoted \in BOOLEAN /\ seized \in BOOLEAN /\ blind \in BOOLEAN
  /\ routed \subseteq {"postgres-svc", "postgres-primary-svc"}

\* The Lease is a lease: whichever requests are lost and repeated, a daemon that reads it free
\* and writes it later never takes one that another has made fresh in between; and a daemon
\* creates one Job for an outage it does not restart in.
LeaseHonoured == ~stolen /\ \A d \in Daemons : created[d] <= 1

\* Until a lock is reclaimed, the Job past it is the one that made it, and so there is one.  No
\* Service selects the standby before it was promoted, but after a promotion that went
\* unanswered, twice.
OnePromoter ==
  /\ ~seized => \A j \in Pods : InLock(j) => lock.by = j
  /\ routed # {} => promoted \/ blind
===============================================================================
