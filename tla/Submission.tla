------------------------------ MODULE Submission ------------------------------
(***************************************************************************)
(* backend/src/services/stellar.js submitTransactionSafe behind the        *)
(* process's one circuit breaker (circuitBreaker.js).  Each submitter has  *)
(* one signed envelope; a call to the RPC node is two steps, its admission *)
(* by the breaker and its answer, and answers come in any order.  A lost   *)
(* answer says nothing about whether the network took the envelope.        *)
(*                                                                         *)
(* Bounds: failureCount stops at FailureLimit (the code compares it with   *)
(* >= only).  The clock is two events: the reset window after the last     *)
(* failure elapses (Cools) and a poll's deadline passes (GivesUpPolling).  *)
(***************************************************************************)
EXTENDS Naturals

CONSTANTS Envelopes,      \* the envelopes being submitted
          FailureLimit,   \* failureThreshold
          SendRetries,    \* maxRetries
          FeeBumps        \* feeBump.maxAttempts, 0 without a fee-bump keypair

ASSUME SubmissionAssumption ==
  FailureLimit \in Nat \ {0} /\ SendRetries \in Nat /\ FeeBumps \in Nat

VARIABLES breaker,   \* the breaker: its state, consecutive failures, and reset window
          stage,     \* where each submission stands
          tries,     \* submitAttempts
          bumps,     \* feeBumpAttempts
          outcome,   \* what the caller was told
          onChain,   \* the network's view of the envelope
          sends,     \* history: sendTransaction calls made
          lost       \* history: a send of this envelope got no answer

subVars == <<breaker, stage, tries, bumps, outcome, onChain, sends, lost>>

Failures == {"CIRCUIT_OPEN", "TX_REJECTED", "TX_FAILED", "TX_NOT_CONFIRMED",
             "TX_TRY_AGAIN_LATER", "TX_TRANSIENT_EXHAUSTED"}

-------------------------------------------------------------------------------
(* The circuit breaker *)

Blocked == breaker.state = "open" /\ breaker.cooling

\* call's entry: a blocked breaker throws, an open one that has cooled half-opens
Admitted == IF breaker.state = "open" THEN [breaker EXCEPT !.state = "half_open"] ELSE breaker

OnSuccess == breaker' = [state |-> "closed", failures |-> 0, cooling |-> FALSE]

AddsFailure == IF breaker.failures < FailureLimit THEN breaker.failures + 1 ELSE FailureLimit

\* a half-open breaker still has its count, so one failure opens it again
FailureCount  == AddsFailure
OnFailure ==
  breaker' = [state    |-> IF FailureCount >= FailureLimit THEN "open" ELSE breaker.state,
              failures |-> FailureCount, cooling |-> TRUE]

Cools ==
  /\ breaker.cooling
  /\ breaker' = [breaker EXCEPT !.cooling = FALSE]
  /\ UNCHANGED <<stage, tries, bumps, outcome, onChain, sends, lost>>

-------------------------------------------------------------------------------
(* One submission *)

Ends(e, code) == stage' = [stage EXCEPT ![e] = "done"] /\ outcome' = [outcome EXCEPT ![e] = code]
Goes(e, where) == stage' = [stage EXCEPT ![e] = where] /\ UNCHANGED outcome

\* shouldFailFast, or call's own rejection before a retry or a fee bump
FailsFast(e) ==
  /\ stage[e] \in {"idle", "again"} /\ Blocked
  /\ Ends(e, "CIRCUIT_OPEN")
  /\ UNCHANGED <<breaker, tries, bumps, onChain, sends, lost>>

\* rpcBreaker.call(sendTransaction): the call leaves
Sends(e) ==
  /\ stage[e] \in {"idle", "again"} /\ ~Blocked
  /\ breaker' = Admitted
  /\ sends' = [sends EXCEPT ![e] = @ + 1]
  /\ Goes(e, "sending")
  /\ UNCHANGED <<tries, bumps, onChain, lost>>

\* the network takes the envelope (or still has it), or does not
Taken(e)    == onChain' = [onChain EXCEPT ![e] = IF @ = "absent" THEN "pool" ELSE @]
NotTaken(e) == UNCHANGED onChain

\* Mutant: what was accepted counts as final.
AcceptsAsFinal(e) ==
  /\ stage[e] = "sending" /\ OnSuccess /\ Taken(e)
  /\ Ends(e, "SUCCESS")
  /\ UNCHANGED <<tries, bumps, sends, lost>>

\* PENDING or DUPLICATE: poll the envelope's hash to finality
Accepted(e) ==
  /\ stage[e] = "sending" /\ OnSuccess /\ Taken(e)
  /\ onChain[e] \in {"absent", "pool"}
  /\ Goes(e, "polling")
  /\ UNCHANGED <<tries, bumps, sends, lost>>

\* a retry within the budget, or the end of it
Retries(e, code) ==
  /\ tries' = [tries EXCEPT ![e] = @ + 1]
  /\ IF tries'[e] <= SendRetries THEN Goes(e, "again") ELSE Ends(e, code)

TryAgainLater(e) ==
  /\ stage[e] = "sending" /\ OnSuccess /\ NotTaken(e)
  /\ Retries(e, "TX_TRY_AGAIN_LATER")
  /\ UNCHANGED <<bumps, sends, lost>>

\* a network error or a 5xx: the envelope may have been taken
SendLost(e) ==
  /\ stage[e] = "sending" /\ OnFailure /\ (Taken(e) \/ NotTaken(e))
  /\ lost' = [lost EXCEPT ![e] = TRUE]
  /\ Retries(e, "TX_TRANSIENT_EXHAUSTED")
  /\ UNCHANGED <<bumps, sends>>

\* status ERROR (a bad sequence number once it landed), or an error that is not retried
Rejected(e) ==
  /\ stage[e] = "sending" /\ (OnSuccess \/ OnFailure) /\ NotTaken(e)
  /\ Ends(e, "TX_REJECTED")
  /\ UNCHANGED <<tries, bumps, sends, lost>>

\* pollTransactionUntilFinal: one getTransaction through the breaker
Asks(e) ==
  /\ stage[e] = "polling" /\ ~Blocked
  /\ breaker' = Admitted
  /\ Goes(e, "asking")
  /\ UNCHANGED <<tries, bumps, onChain, sends, lost>>

Finality(e) ==
  /\ stage[e] = "asking" /\ OnSuccess
  /\ CASE onChain[e] = "success" -> Ends(e, "SUCCESS")
       [] onChain[e] = "failed"  -> Ends(e, "TX_FAILED")
       [] OTHER                  -> Goes(e, "polling")
  /\ UNCHANGED <<tries, bumps, onChain, sends, lost>>

AskFails(e) ==
  /\ stage[e] = "asking" /\ OnFailure
  /\ Goes(e, "polling")
  /\ UNCHANGED <<tries, bumps, onChain, sends, lost>>

\* the window ends: a fee bump of the same inner envelope, or give up
GivesUpPolling(e) ==
  /\ stage[e] = "polling"
  /\ IF bumps[e] < FeeBumps
     THEN bumps' = [bumps EXCEPT ![e] = @ + 1] /\ Goes(e, "again")
     ELSE UNCHANGED bumps /\ Ends(e, "TX_NOT_CONFIRMED")
  /\ UNCHANGED <<breaker, tries, onChain, sends, lost>>

\* the network includes an envelope it holds
Includes(e) ==
  /\ onChain[e] = "pool"
  /\ \E result \in {"success", "failed"} : onChain' = [onChain EXCEPT ![e] = result]
  /\ UNCHANGED <<breaker, stage, tries, bumps, outcome, sends, lost>>

-------------------------------------------------------------------------------
SubmissionInit ==
  /\ breaker = [state |-> "closed", failures |-> 0, cooling |-> FALSE]
  /\ stage = [e \in Envelopes |-> "idle"]
  /\ tries = [e \in Envelopes |-> 0] /\ bumps = [e \in Envelopes |-> 0]
  /\ outcome = [e \in Envelopes |-> "none"] /\ onChain = [e \in Envelopes |-> "absent"]
  /\ sends = [e \in Envelopes |-> 0] /\ lost = [e \in Envelopes |-> FALSE]

SubmissionNext ==
  \/ Cools
  \/ \E e \in Envelopes :
       \/ FailsFast(e) \/ Sends(e) \/ Accepted(e) \/ TryAgainLater(e) \/ SendLost(e)
       \/ Rejected(e) \/ Asks(e) \/ Finality(e) \/ AskFails(e) \/ GivesUpPolling(e)
       \/ Includes(e)

-------------------------------------------------------------------------------
(* Properties *)

\* The variables have their types, and the breaker's state is what its count says: closed
\* below the limit, open or half open at it, whatever the order of the answers.
SubmissionTypeOK ==
  /\ breaker \in [state : {"closed", "open", "half_open"}, failures : 0..FailureLimit,
                  cooling : BOOLEAN]
  /\ (breaker.state = "closed") <=> (breaker.failures < FailureLimit)
  /\ stage \in [Envelopes -> {"idle", "again", "sending", "polling", "asking", "done"}]
  /\ tries \in [Envelopes -> 0..(SendRetries + 1)] /\ bumps \in [Envelopes -> 0..FeeBumps]
  /\ outcome \in [Envelopes -> Failures \union {"none", "SUCCESS"}]
  /\ onChain \in [Envelopes -> {"absent", "pool", "success", "failed"}]
  /\ \A e \in Envelopes : (stage[e] = "done") <=> (outcome[e] # "none")

\* A caller that is told success or failure on chain is told what the chain says, and one that
\* never lost an answer nor bumped a fee is told of a rejection only when nothing can land.
OutcomeTrue ==
  \A e \in Envelopes :
    /\ outcome[e] = "SUCCESS"   => onChain[e] = "success"
    /\ outcome[e] = "TX_FAILED" => onChain[e] = "failed"
    /\ outcome[e] = "TX_REJECTED" /\ ~lost[e] /\ bumps[e] = 0 => onChain[e] = "absent"

\* The retries and the fee bumps share one budget of sends: the loop makes at most one call
\* more than both limits together, however the answers alternate.
SendsBounded == \A e \in Envelopes : sends[e] <= 1 + SendRetries + FeeBumps

\* A caller learns what happened on chain, within a bounded number of sends.
SubmissionTruthful == SubmissionTypeOK /\ OutcomeTrue /\ SendsBounded
===============================================================================
