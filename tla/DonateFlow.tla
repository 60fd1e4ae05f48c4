------------------------------- MODULE DonateFlow -------------------------------
(***************************************************************************)
(* frontend/components/DonateForm.tsx with submitTransaction and           *)
(* pollTransaction of lib/stellar.ts: one form, from the press of a button *)
(* over signing and submission to what the donor is told.  Each await is a *)
(* boundary between steps; whoever resumes sets the step that is shown.    *)
(*                                                                         *)
(* The preview of the V2 flow disables its buttons when the step changes,  *)
(* which is after the transaction is built, so a second press starts a     *)
(* second run.  The direct flow (the default, and contract donations)      *)
(* leaves "idle" before it first awaits.  A transaction is named by its    *)
(* run; its sequence number is that of the account when it was built.      *)
(***************************************************************************)
EXTENDS Naturals

CONSTANTS Presses,     \* runs: presses that start something
          NoHash, MaxSequence

ASSUME FlowAssumption == MaxSequence \in Nat \ {0} /\ NoHash \notin Presses

VARIABLES step,        \* what the form shows
          hash,        \* txHash
          keep,        \* sessionStorage: the hash of an unknown outcome
          form,        \* the preview: nothing, its simulation asked for, its parameters and key set
          press,       \* each run: place, sequence number, the flow it is of
          fate,        \* what became of its transaction
          account,     \* the account's next sequence number
          told,        \* history: what the donor was told of each run
          posted,      \* history: runs recorded with POST /api/donations
          twice        \* history: two runs at once

flowVars == <<step, hash, keep, form, press, fate, account, told, posted, twice>>

Unpressed == [at |-> "none", seq |-> 0, v2 |-> FALSE]
Under     == {r \in Presses : press[r].at \notin {"none", "over"}}

Moves(r, to) == press' = [press EXCEPT ![r].at = to]
Says(r, what) == told' = [told EXCEPT ![r] = what]

-------------------------------------------------------------------------------
(* Up to the signature *)

\* handleDonate, V2: the parameters and the key are set, and the simulation is shown or fails
Simulates ==
  /\ step = "idle" /\ step' = "building" /\ form' = "asked"
  /\ UNCHANGED <<hash, keep, press, fate, account, told, posted, twice>>

Previews ==
  /\ form = "asked" /\ form' = "set"
  /\ step' \in {"preview", "error", "idle"}
  /\ UNCHANGED <<hash, keep, press, fate, account, told, posted, twice>>

\* the Back button, not yet disabled
GoesBack ==
  /\ step = "preview" /\ step' = "idle" /\ form' = "none"
  /\ UNCHANGED <<hash, keep, press, fate, account, told, posted, twice>>

\* handleDonate of the direct flow; handleConfirmSign of the preview
Starts(r) ==
  /\ press[r].at = "none"
  /\ \/ /\ step = "idle" /\ step' = "building"
        /\ press' = [press EXCEPT ![r] = [Unpressed EXCEPT !.at = "building"]]
     \/ /\ step = "preview" /\ UNCHANGED step
        /\ press' = [press EXCEPT ![r] = [Unpressed EXCEPT !.at = "building", !.v2 = TRUE]]
  /\ twice' = (twice \/ Under # {})
  /\ UNCHANGED <<hash, keep, form, fate, account, told, posted>>

\* handleDonationError: the error is shown, for three seconds, or, offline, the donation is queued
Errs(r) ==
  /\ Moves(r, "over")
  /\ \/ step' = "error" /\ Says(r, "error")
     \/ step' = "idle" /\ Says(r, "queued")

\* the account is loaded; without the key, which Back has cleared, the run ends in an error
Builds(r) ==
  /\ press[r].at = "building"
  /\ \/ /\ press[r].v2 => form # "none"
        /\ press' = [press EXCEPT ![r].at = "signing", ![r].seq = account]
        /\ step' = "signing" /\ UNCHANGED told
     \/ Errs(r)
  /\ UNCHANGED <<hash, keep, form, fate, account, posted, twice>>

\* the wallet signs, or the donor declines, or it fails
Signs(r) ==
  /\ press[r].at = "signing"
  /\ \/ /\ Moves(r, "submitting") /\ step' = "submitting" /\ UNCHANGED told
        /\ fate' = [fate EXCEPT ![r] = "sent"]
     \/ /\ Moves(r, "over") /\ step' = "idle" /\ Says(r, "cancelled") /\ UNCHANGED fate
     \/ Errs(r) /\ UNCHANGED fate
  /\ UNCHANGED <<hash, keep, form, account, posted, twice>>

-------------------------------------------------------------------------------
(* The network, and submitTransaction, which waits for it *)

\* included, and paid or failed; or its sequence number is spent, its time is up, it never arrived
Ledgers(r) ==
  /\ fate[r] = "sent"
  /\ \/ /\ press[r].seq = account /\ account < MaxSequence /\ account' = account + 1
        /\ \E result \in {"paid", "failed"} : fate' = [fate EXCEPT ![r] = result]
     \/ fate' = [fate EXCEPT ![r] = "dead"] /\ UNCHANGED account
  /\ UNCHANGED <<step, hash, keep, form, press, told, posted, twice>>

\* Horizon answers that the payment is made
Confirmed(r) ==
  /\ press[r].at = "submitting" /\ fate[r] = "paid"
  /\ Moves(r, "recording") /\ hash' = r /\ step' = "recording"
  /\ UNCHANGED <<keep, form, fate, account, told, posted, twice>>

\* it refuses; tx_bad_seq and tx_too_late read "Nothing was sent"
Refused(r) ==
  /\ press[r].at = "submitting" /\ fate[r] \in {"failed", "dead"}
  /\ \/ fate[r] = "dead" /\ Moves(r, "over") /\ step' = "error" /\ Says(r, "nothing sent")
     \/ Errs(r)
  /\ UNCHANGED <<hash, keep, form, fate, account, posted, twice>>

\* no answer: V2 polls if the error looks like a network drop, everything else is an error
Dropped(r) ==
  /\ press[r].at = "submitting"
  /\ \/ press[r].v2 /\ Moves(r, "polling") /\ step' = "polling" /\ UNCHANGED told
     \/ Errs(r)
  /\ UNCHANGED <<hash, keep, form, fate, account, posted, twice>>

\* pollTransaction: a record that is successful
PollsPaid(r) ==
  /\ press[r].at = "polling" /\ fate[r] = "paid"
  /\ Moves(r, "recording") /\ hash' = r /\ step' = "recording"
  /\ UNCHANGED <<keep, form, fate, account, told, posted, twice>>

\* it failed on chain, or a minute is over
GivesUp(r) ==
  /\ press[r].at = "polling"
  /\ Moves(r, "over") /\ hash' = r /\ keep' = r /\ step' = "unknown" /\ Says(r, "unknown")
  /\ UNCHANGED <<form, fate, account, posted, twice>>

-------------------------------------------------------------------------------
(* Recording, and what is shown in the end *)

\* recordDonationMutation: recorded, refused or lost, which is ignored, or still processing; a
\* contract donation reads the donor's statistics first, and is an error if that fails
Notifies(r) ==
  /\ press[r].at = "recording"
  /\ \/ /\ posted' = posted \union {r} \/ UNCHANGED posted
        /\ Moves(r, "over") /\ step' = "success" /\ Says(r, "success")
     \/ /\ posted' = posted \union {r}
        /\ Moves(r, "over") /\ step' = "unknown" /\ Says(r, "unknown")
     \/ ~press[r].v2 /\ Errs(r) /\ UNCHANGED posted
  /\ UNCHANGED <<hash, keep, form, fate, account, twice>>

\* the timer of an error, whatever is shown by then
ErrorPasses ==
  /\ step = "error" \/ \E r \in Presses : told[r] \in {"error", "nothing sent"}
  /\ step' = "idle"
  /\ UNCHANGED <<hash, keep, form, press, fate, account, told, posted, twice>>

Dismisses ==
  /\ step = "unknown" /\ step' = "idle" /\ hash' = NoHash /\ keep' = NoHash
  /\ UNCHANGED <<form, press, fate, account, told, posted, twice>>

\* the tab is reloaded: runs are gone, an unknown outcome is shown again
Reloads ==
  /\ press' = [r \in Presses |-> IF r \in Under THEN [press[r] EXCEPT !.at = "over"] ELSE press[r]]
  /\ step' = (IF keep = NoHash THEN "idle" ELSE "unknown") /\ hash' = keep /\ form' = "none"
  /\ UNCHANGED <<keep, fate, account, told, posted, twice>>

-------------------------------------------------------------------------------
FlowInit ==
  /\ step = "idle" /\ hash = NoHash /\ keep = NoHash /\ form = "none"
  /\ press = [r \in Presses |-> Unpressed] /\ fate = [r \in Presses |-> "unsent"]
  /\ account = 1 /\ told = [r \in Presses |-> "nothing"] /\ posted = {} /\ twice = FALSE

FlowNext ==
  \/ Simulates \/ Previews \/ GoesBack \/ ErrorPasses \/ Dismisses \/ Reloads
  \/ \E r \in Presses : Starts(r) \/ Builds(r) \/ Signs(r) \/ Ledgers(r) \/ Confirmed(r) \/ Refused(r)
                        \/ Dropped(r) \/ PollsPaid(r) \/ GivesUp(r) \/ Notifies(r)

-------------------------------------------------------------------------------
(* Properties *)

\* The variables have their types.
FlowTypeOK ==
  /\ step \in {"idle", "preview", "building", "signing", "submitting", "polling", "recording",
               "success", "unknown", "error"}
  /\ hash \in Presses \union {NoHash} /\ keep \in Presses \union {NoHash} /\ form \in {"none", "asked", "set"}
  /\ press \in [Presses -> [at : {"none", "building", "signing", "submitting", "polling", "recording",
                                  "over"}, seq : 0..MaxSequence, v2 : BOOLEAN]]
  /\ fate \in [Presses -> {"unsent", "sent", "paid", "failed", "dead"}]
  /\ account \in 1..MaxSequence /\ posted \subseteq Presses /\ twice \in BOOLEAN

\* What the donor is told of a run is so: a success is paid, and of what was cancelled or not sent
\* nothing is or will be on chain.  Only payments are recorded, and, no two runs having been under
\* way at once, a form that says success shows the hash of a payment.
FlowHonest ==
  /\ \A r \in Presses :
       /\ told[r] = "success" => fate[r] = "paid"
       /\ told[r] \in {"cancelled", "nothing sent"} => fate[r] \in {"unsent", "dead"}
       /\ r \in posted => fate[r] = "paid"
  /\ ~twice /\ step = "success" => hash # NoHash /\ fate[hash] = "paid"
===============================================================================
