------------------------------ MODULE DigestSends ------------------------------
(***************************************************************************)
(* backend/src/services/digestQueue.js: the e-mail of one recipient and    *)
(* period, claimed through its digest_sends row by runs of runDigest that  *)
(* may overlap (a second replica, a manual run, a retried job).            *)
(*                                                                         *)
(* Bound: MaxClaims claims of the row.  STALE_CLAIM_MS is an event.        *)
(***************************************************************************)
EXTENDS Naturals, FiniteSets

CONSTANTS Runs,          \* runs that reach this recipient
          SendAttempts,  \* MAX_SEND_ATTEMPTS
          MaxClaims      \* bound

ASSUME DigestAssumption ==
  IsFiniteSet(Runs) /\ SendAttempts \in Nat \ {0} /\ MaxClaims \in Nat

VARIABLES digest,     \* the row: its status, attempts, and whether its claim is stale
          run,        \* each run: before the claim, holding it, or about to record an outcome
          mails,      \* history: e-mails the mailer accepted
          takeovers,  \* history: claims taken from a run that still had one
          failedMarks \* history: failed outcomes recorded

digestVars == <<digest, run, mails, takeovers, failedMarks>>

Holders == {r \in Runs : run[r] \in {"send", "sent", "failed"}}

\* Mutant: a digest that was sent may be claimed as well.
RetriesSent == digest.status \in {"failed", "sent"} /\ digest.attempts < SendAttempts

\* claimDigestSend: insert, or take over a failed or stale row.  The two statements are one
\* step: once the row exists the insert never succeeds again.
MayRetry       == digest.status = "failed" /\ digest.attempts < SendAttempts
MayTakeOver    == digest.status = "sending" /\ digest.stale

ClaimsDigest(r) ==
  /\ run[r] = "idle" /\ digest.attempts < MaxClaims
  /\ digest.status = "none" \/ MayRetry \/ MayTakeOver
  /\ digest' = [status |-> "sending", attempts |-> digest.attempts + 1, stale |-> FALSE]
  /\ takeovers' = IF digest.status = "sending" /\ digest.stale THEN takeovers + 1 ELSE takeovers
  /\ run' = [run EXCEPT ![r] = "send"]
  /\ UNCHANGED <<mails, failedMarks>>

\* another run holds it, or it is sent, or its budget is spent
SkipsDigest(r) ==
  /\ run[r] = "idle"
  /\ ~(digest.status = "none" \/ MayRetry \/ MayTakeOver)
  /\ run' = [run EXCEPT ![r] = "done"]
  /\ UNCHANGED <<digest, mails, takeovers, failedMarks>>

\* a claim passes STALE_CLAIM_MS, its run crashed or slow
ClaimGoesStale ==
  /\ digest.status = "sending" /\ ~digest.stale
  /\ digest' = [digest EXCEPT !.stale = TRUE]
  /\ UNCHANGED <<run, mails, takeovers, failedMarks>>

\* sendDigestEmail returns or throws
Mails(r) ==
  /\ run[r] = "send"
  /\ \/ mails' = mails + 1 /\ run' = [run EXCEPT ![r] = "sent"]
     \/ UNCHANGED mails /\ run' = [run EXCEPT ![r] = "failed"]
  /\ UNCHANGED <<digest, takeovers, failedMarks>>

\* markDigestSent; when it fails the catch branch records a failure
MarksSent(r) ==
  /\ run[r] = "sent"
  /\ \/ digest' = [digest EXCEPT !.status = "sent"] /\ run' = [run EXCEPT ![r] = "done"]
     \/ UNCHANGED digest /\ run' = [run EXCEPT ![r] = "failed"]
  /\ UNCHANGED <<mails, takeovers, failedMarks>>

\* markDigestFailed, by row and whoever holds it now; a failure of its own ends the run
MarksFailed(r) ==
  /\ run[r] = "failed"
  /\ \/ digest' = [digest EXCEPT !.status = "failed"] /\ failedMarks' = failedMarks + 1
     \/ UNCHANGED <<digest, failedMarks>>
  /\ run' = [run EXCEPT ![r] = "done"]
  /\ UNCHANGED <<mails, takeovers>>

\* a process dies at any await; the next run of the job starts over
RunRestarts(r) ==
  /\ run[r] # "idle"
  /\ run' = [run EXCEPT ![r] = "idle"]
  /\ UNCHANGED <<digest, mails, takeovers, failedMarks>>

-------------------------------------------------------------------------------
DigestInit ==
  /\ digest = [status |-> "none", attempts |-> 0, stale |-> FALSE]
  /\ run = [r \in Runs |-> "idle"] /\ mails = 0 /\ takeovers = 0 /\ failedMarks = 0

DigestNext ==
  \/ ClaimGoesStale
  \/ \E r \in Runs : ClaimsDigest(r) \/ SkipsDigest(r) \/ Mails(r) \/ MarksSent(r)
                     \/ MarksFailed(r) \/ RunRestarts(r)

-------------------------------------------------------------------------------
(* Properties *)

\* The variables have their types.  Nothing ends the takeovers of a stale row: attempts is
\* bounded by the budget only as long as every claim before it recorded its outcome.
DigestTypeOK ==
  /\ digest \in [status : {"none", "sending", "sent", "failed"}, attempts : 0..MaxClaims,
                 stale : BOOLEAN]
  /\ run \in [Runs -> {"idle", "send", "sent", "failed", "done"}]
  /\ {mails, takeovers, failedMarks} \subseteq Nat
  /\ digest.attempts <= SendAttempts + takeovers

\* Overlapping runs do not hold one claim: beyond the first, each holder took a claim that had
\* gone stale or been recorded as failed by a run that was overtaken.
OneHolder == Cardinality(Holders) <= 1 + takeovers

\* The recipient is mailed again only after a takeover or a recorded failure.
MailsExplained == mails <= 1 + takeovers + failedMarks
===============================================================================
