---------------------------- MODULE SatelliteFamily ----------------------------
(***************************************************************************)
(* What stands around the donations and keeps state of its own, side by    *)
(* side: the services of the backend (transaction submission, webhook      *)
(* deliveries, digest e-mails, sessions, the audit log, locked cycles, the *)
(* response cache), the donate form and the offline queues of the web and  *)
(* mobile clients, the review of projects, the failover of the database,   *)
(* and the oracle and attestation contracts.                               *)
(*                                                                         *)
(* No action of one reads or writes a variable of another (the contracts   *)
(* share the ledger clock), and no property spans two.  A behaviour of all *)
(* is therefore one of each, and it is enough to explore the steps of one  *)
(* at a time: focus says of which, for a whole behaviour.                  *)
(***************************************************************************)
EXTENDS Submission, WebhookDeliveries, OfflineQueue, DigestSends, AdminSessions, AdvisoryCycles,
        AuditLog, MobileQueue, DonateFlow, ProjectReview, PostgresFailover, ResponseCache,
        OracleStaking, OraclePrices, AttestationContract

VARIABLE focus

staking   == <<reporters, stakeAsset, stake, availableAt, oracleHeld, slashRing, since, slashes>>
pricing   == <<ring, ringNext, ringCount, window, feeds, health, reports, misses>>
attesting == <<setUp, attested, upgradeAtt>>

satelliteVars == <<focus, now, subVars, hookVars, queueVars, digestVars, sessionVars, cycleVars,
                   auditVars, mobileVars, flowVars, reviewVars, daemonVars, jobVars, cacheVars,
                   staking, pricing, attesting>>

SatelliteInit ==
  /\ focus \in {"submission", "webhooks", "offline", "digest", "sessions", "cycles", "audit",
                "mobile", "donating", "review", "daemons", "failover", "caching",
                "staking", "pricing", "attesting"}
  /\ SubmissionInit /\ HookInit /\ QueueInit /\ DigestInit /\ SessionInit /\ CycleInit
  /\ AuditInit /\ MobileInit /\ FlowInit /\ ReviewInit /\ DaemonInit /\ JobInit /\ CacheInit
  /\ StakingInit /\ PricesInit /\ AttInit

SatelliteNext ==
  /\ UNCHANGED focus
  /\ \/ /\ focus = "submission" /\ SubmissionNext
        /\ UNCHANGED <<now, hookVars, queueVars, digestVars, sessionVars, cycleVars,
                        auditVars, mobileVars, flowVars, reviewVars, daemonVars, jobVars,
                        cacheVars, staking, pricing, attesting>>
     \/ /\ focus = "webhooks" /\ HookNext
        /\ UNCHANGED <<now, subVars, queueVars, digestVars, sessionVars, cycleVars,
                        auditVars, mobileVars, flowVars, reviewVars, daemonVars, jobVars,
                        cacheVars, staking, pricing, attesting>>
     \/ /\ focus = "offline" /\ QueueNext
        /\ UNCHANGED <<now, subVars, hookVars, digestVars, sessionVars, cycleVars,
                        auditVars, mobileVars, flowVars, reviewVars, daemonVars, jobVars,
                        cacheVars, staking, pricing, attesting>>
     \/ /\ focus = "digest" /\ DigestNext
        /\ UNCHANGED <<now, subVars, hookVars, queueVars, sessionVars, cycleVars, auditVars,
                        mobileVars, flowVars, reviewVars, daemonVars, jobVars, cacheVars,
                        staking, pricing, attesting>>
     \/ /\ focus = "sessions" /\ SessionNext
        /\ UNCHANGED <<now, subVars, hookVars, queueVars, digestVars, cycleVars, auditVars,
                        mobileVars, flowVars, reviewVars, daemonVars, jobVars, cacheVars,
                        staking, pricing, attesting>>
     \/ /\ focus = "cycles" /\ CycleNext
        /\ UNCHANGED <<now, subVars, hookVars, queueVars, digestVars, sessionVars,
                        auditVars, mobileVars, flowVars, reviewVars, daemonVars, jobVars,
                        cacheVars, staking, pricing, attesting>>
     \/ /\ focus = "audit" /\ AuditNext
        /\ UNCHANGED <<now, subVars, hookVars, queueVars, digestVars, sessionVars,
                        cycleVars, mobileVars, flowVars, reviewVars, daemonVars, jobVars,
                        cacheVars, staking, pricing, attesting>>
     \/ /\ focus = "mobile" /\ MobileNext
        /\ UNCHANGED <<now, subVars, hookVars, queueVars, digestVars, sessionVars,
                        cycleVars, auditVars, flowVars, reviewVars, daemonVars, jobVars,
                        cacheVars, staking, pricing, attesting>>
     \/ /\ focus = "donating" /\ FlowNext
        /\ UNCHANGED <<now, subVars, hookVars, queueVars, digestVars, sessionVars,
                        cycleVars, auditVars, mobileVars, reviewVars, daemonVars, jobVars,
                        cacheVars, staking, pricing, attesting>>
     \/ /\ focus = "review" /\ ReviewNext
        /\ UNCHANGED <<now, subVars, hookVars, queueVars, digestVars, sessionVars,
                        cycleVars, auditVars, mobileVars, flowVars, daemonVars, jobVars,
                        cacheVars, staking, pricing, attesting>>
     \/ /\ focus = "daemons" /\ DaemonNext
        /\ UNCHANGED <<now, subVars, hookVars, queueVars, digestVars, sessionVars,
                        cycleVars, auditVars, mobileVars, flowVars, reviewVars, jobVars,
                        cacheVars, staking, pricing, attesting>>
     \/ /\ focus = "failover" /\ JobNext
        /\ UNCHANGED <<now, subVars, hookVars, queueVars, digestVars, sessionVars,
                        cycleVars, auditVars, mobileVars, flowVars, reviewVars, daemonVars,
                        cacheVars, staking, pricing, attesting>>
     \/ /\ focus = "caching" /\ CacheNext
        /\ UNCHANGED <<now, subVars, hookVars, queueVars, digestVars, sessionVars,
                        cycleVars, auditVars, mobileVars, flowVars, reviewVars, daemonVars,
                        jobVars, staking, pricing, attesting>>
     \/ /\ focus = "staking" /\ StakingNext
        /\ UNCHANGED <<subVars, hookVars, queueVars, digestVars, sessionVars, cycleVars,
                        auditVars, mobileVars, flowVars, reviewVars, daemonVars, jobVars,
                        cacheVars, pricing, attesting>>
     \/ /\ focus = "pricing" /\ PricesNext
        /\ UNCHANGED <<subVars, hookVars, queueVars, digestVars, sessionVars, cycleVars,
                        auditVars, mobileVars, flowVars, reviewVars, daemonVars, jobVars,
                        cacheVars, staking, attesting>>
     \/ /\ focus = "attesting" /\ AttNext
        /\ UNCHANGED <<subVars, hookVars, queueVars, digestVars, sessionVars, cycleVars,
                        auditVars, mobileVars, flowVars, reviewVars, daemonVars, jobVars,
                        cacheVars, staking, pricing>>

SatelliteSpec == SatelliteInit /\ [][SatelliteNext]_satelliteVars

-------------------------------------------------------------------------------
(* Properties that several parts state alike, each of the part that is in focus: the *)
(* others are as they began                                                         *)

\* What a caller is told is so: a donor of a payment, by the backend's submission and by the
\* form that signs, submits and polls on its own; and a reader of a cached route, who is not
\* told what an invalidation had removed.
AnswersTruthful ==
  /\ focus = "submission" => SubmissionTruthful
  /\ focus = "donating" => FlowTypeOK /\ FlowHonest
  /\ focus = "caching" => CacheTypeOK /\ NothingOutdated /\ OneComputes

\* What the job queues send: a webhook that is pending has something that will send it and
\* is confirmed once per chain of jobs, and no digest is mailed twice but after a takeover
\* or a recorded failure.
DeliveriesExplained ==
  /\ focus = "webhooks" => HookTypeOK /\ NothingForgotten /\ ConfirmedPerChain
  /\ focus = "digest" => DigestTypeOK /\ OneHolder /\ MailsExplained

\* The clients' offline queues: tabs drain one at a time, what is dropped as submitted is
\* recorded once, and a donation is tried no more often than its budget.
QueuesKept ==
  /\ focus = "offline" => QueueTypeOK /\ TabsExclusive /\ SubmittedIsRecorded
  /\ focus = "mobile" => MobileTypeOK /\ BudgetKept

\* One of several that compete wins: one request gets the successor of a token, one replica
\* runs the cycle, one daemon a lease and one Job a promotion; and what a review decided
\* stands, with one project for it.
OneWins ==
  /\ focus = "sessions" => SessionTypeOK /\ OneSuccessor
  /\ focus = "cycles" => CycleTypeOK /\ OneCycle
  /\ focus \in {"daemons", "failover"} => FailoverTypeOK /\ LeaseHonoured /\ OnePromoter
  /\ focus = "review" => ReviewTypeOK /\ DecisionsStand

\* The audit log verifies, and holds the latest rows.
AuditHolds == focus = "audit" => AuditTypeOK /\ ChainVerifies

\* The oracle: stakes are backed and cool down, slashes and prices are read in order, and
\* a source is healthy as its answers say.
OracleHolds ==
  /\ focus = "staking" => StakingTypeOK /\ StakesBacked /\ CooldownRuns /\ SlashesInOrder
  /\ focus = "pricing" => PricesTypeOK /\ WindowIsLatest /\ HealthMatches

\* Attestations are recorded once per source transaction and counted as they stand.
AttestationsAgree == focus = "attesting" => AttTypeOK /\ AggregatesMatch /\ AttestedOnce
===============================================================================
