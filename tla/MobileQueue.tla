------------------------------ MODULE MobileQueue ------------------------------
(***************************************************************************)
(* mobile/utils/donationQueue.ts and donationQueueWorker.ts: the phone's   *)
(* queue of donations is one AsyncStorage value, and every operation reads *)
(* it, awaits, and writes it back whole.  The worker's pass and the user's *)
(* operations on the queue run side by side.                               *)
(*                                                                         *)
(* Bounds: MaxUserOps operations of the user.  The queue's cap of 100 and  *)
(* failing storage are left out; the backoff is an event (BackoffEnds).    *)
(***************************************************************************)
EXTENDS Naturals

CONSTANTS Offline,        \* the donations the user may queue
          MaxTries,      \* MAX_RETRY_ATTEMPTS
          MaxUserOps,
          NoGift

ASSUME MobileAssumption == MaxTries \in Nat \ {0} /\ MaxUserOps \in Nat

VARIABLES store,     \* the stored queue
          userOp,    \* the user's operation under way: its kind, donation and copy of the queue
          pass,      \* the worker's pass: where it is, its donation, what is left, its copy
          userOps,   \* bound
          posts,     \* history: attempts that ran to their end since the user last retried
          dismissed, \* history: donations the user removed
          clobbered  \* history: a write put back a copy that another write had overtaken

mobileVars == <<store, userOp, pass, userOps, posts, dismissed, clobbered>>

Gone    == [status |-> "gone", attempts |-> 0, due |-> FALSE]
Entry   == [status |-> "pending", attempts |-> 0, due |-> TRUE]
Nothing == [g \in Offline |-> Gone]
NoOp    == [kind |-> "none", gift |-> NoGift, copy |-> Nothing]
NoPass  == [at |-> "idle", gift |-> NoGift, todo |-> {}, copy |-> Nothing]

\* writeQueue: the copy read before the await, changed in one place
Puts(copy, queue) ==
  /\ store' = queue
  /\ clobbered' = (clobbered \/ copy # store)

-------------------------------------------------------------------------------
(* enqueueDonation, retryDonation and removeDonation *)

Reads(kind, g) ==
  /\ userOp = NoOp /\ userOps < MaxUserOps
  /\ kind = "enqueue" => store[g] = Gone /\ g \notin dismissed
  /\ kind # "enqueue" => store[g] # Gone
  /\ userOp' = [kind |-> kind, gift |-> g, copy |-> store]
  /\ userOps' = userOps + 1
  /\ UNCHANGED <<store, pass, posts, dismissed, clobbered>>

WritesBack ==
  LET g == userOp.gift IN
  /\ userOp.kind # "none"
  /\ Puts(userOp.copy, [userOp.copy EXCEPT ![g] = IF userOp.kind = "remove" THEN Gone ELSE Entry])
  /\ dismissed' = IF userOp.kind = "remove" THEN dismissed \union {g} ELSE dismissed
  /\ posts' = [posts EXCEPT ![g] = 0]
  /\ userOp' = NoOp
  /\ UNCHANGED <<pass, userOps>>

BackoffEnds(g) ==
  /\ store[g].status = "pending" /\ ~store[g].due
  /\ store' = [store EXCEPT ![g].due = TRUE]
  /\ userOp' = IF userOp.kind = "none" THEN userOp
               ELSE [userOp EXCEPT !.copy[g].due = (@ \/ userOp.copy[g].status = "pending")]
  /\ pass' = [pass EXCEPT !.copy[g].due = (@ \/ pass.copy[g].status = "pending")]
  /\ UNCHANGED <<userOps, posts, dismissed, clobbered>>

-------------------------------------------------------------------------------
(* processQueue, behind its syncing guard *)

Eligible(g) ==
  store[g].status \in {"pending", "retrying"} /\ store[g].attempts < MaxTries /\ store[g].due

BeginsPass ==
  /\ pass.at = "idle" /\ \E g \in Offline : Eligible(g)
  /\ pass' = [NoPass EXCEPT !.at = "next", !.todo = {g \in Offline : Eligible(g)}]
  /\ UNCHANGED <<store, userOp, userOps, posts, dismissed, clobbered>>

EndsPass ==
  /\ pass.at = "next" /\ pass.todo = {}
  /\ pass' = NoPass
  /\ UNCHANGED <<store, userOp, userOps, posts, dismissed, clobbered>>

\* markRetrying reads; a donation that has gone is submitted all the same
ReadsForMark(g) ==
  /\ pass.at = "next" /\ g \in pass.todo
  /\ pass' = [at |-> "mark", gift |-> g, todo |-> pass.todo \ {g}, copy |-> store]
  /\ UNCHANGED <<store, userOp, userOps, posts, dismissed, clobbered>>

MarksRetrying ==
  LET g == pass.gift IN
  /\ pass.at = "mark"
  /\ IF pass.copy[g] = Gone THEN UNCHANGED <<store, clobbered>>
     ELSE Puts(pass.copy, [pass.copy EXCEPT ![g].status = "retrying"])
  /\ pass' = [pass EXCEPT !.at = "submit", !.copy = Nothing]
  /\ UNCHANGED <<userOp, userOps, posts, dismissed>>

\* submitDonation, and the read of markSubmitted or markFailed
Submits ==
  \E result \in {"submitted", "retry", "permanent"} :
    /\ pass.at = "submit"
    /\ pass' = [pass EXCEPT !.at = result, !.copy = store]
    /\ UNCHANGED <<store, userOp, userOps, posts, dismissed, clobbered>>

\* markSubmitted, or markFailed: failed for good when permanent or at the limit
Failed(e, permanent) ==
  IF permanent \/ e.attempts + 1 >= MaxTries
  THEN [status |-> "failed", attempts |-> e.attempts + 1, due |-> TRUE]
  ELSE [status |-> "pending", attempts |-> e.attempts + 1, due |-> FALSE]

\* Mutant: what has failed is cleared from the list as well.
MarksAll(q, g)  == [h \in Offline |-> IF h = g THEN [q[g] EXCEPT !.status = "submitted"]
                                    ELSE IF q[h].status = "failed" THEN Gone ELSE q[h]]

MarksOnly(q, g) == [q EXCEPT ![g].status = "submitted"]

Settles ==
  LET g == pass.gift  q == pass.copy IN
  /\ pass.at \in {"submitted", "retry", "permanent"}
  /\ IF q[g] = Gone THEN UNCHANGED <<store, clobbered>>
     ELSE Puts(q, IF pass.at = "submitted" THEN MarksOnly(q, g)
                  ELSE [q EXCEPT ![g] = Failed(@, pass.at = "permanent")])
  /\ posts' = [posts EXCEPT ![g] = @ + 1]
  /\ pass' = [pass EXCEPT !.at = "next", !.gift = NoGift, !.copy = Nothing]
  /\ UNCHANGED <<userOp, userOps, dismissed>>

\* the app is killed: its pass and operation are gone, syncing is false again
AppDies ==
  /\ pass.at # "idle" \/ userOp # NoOp
  /\ pass' = NoPass /\ userOp' = NoOp
  /\ UNCHANGED <<store, userOps, posts, dismissed, clobbered>>

-------------------------------------------------------------------------------
MobileInit ==
  /\ store = Nothing /\ userOp = NoOp /\ pass = NoPass /\ userOps = 0
  /\ posts = [g \in Offline |-> 0] /\ dismissed = {} /\ clobbered = FALSE

MobileNext ==
  \/ \E g \in Offline : \/ \E kind \in {"enqueue", "retry", "remove"} : Reads(kind, g)
                       \/ BackoffEnds(g) \/ ReadsForMark(g)
  \/ WritesBack \/ BeginsPass \/ EndsPass \/ MarksRetrying \/ Submits \/ Settles \/ AppDies

-------------------------------------------------------------------------------
(* Properties *)

Gift(e) == e.status \in {"gone", "pending", "retrying", "submitted", "failed"}
           /\ e.attempts \in 0..MaxTries /\ e.due \in BOOLEAN

\* The variables have their types, and a donation waiting for a retry has attempts left.
MobileTypeOK ==
  /\ \A g \in Offline : Gift(store[g]) /\ Gift(userOp.copy[g]) /\ Gift(pass.copy[g])
  /\ \A g \in Offline : store[g].status = "pending" => store[g].attempts < MaxTries
  /\ userOp.kind \in {"none", "enqueue", "retry", "remove"}
  /\ pass.at \in {"idle", "next", "mark", "submit", "submitted", "retry", "permanent"}
  /\ pass.todo \subseteq Offline /\ userOps \in 0..MaxUserOps /\ posts \in [Offline -> Nat]
  /\ dismissed \subseteq Offline /\ clobbered \in BOOLEAN

\* As long as no write put back an overtaken copy, a donation is attempted MaxTries times at
\* most before the user asks again, whatever passes begin and die.
BudgetKept == ~clobbered => \A g \in Offline : posts[g] <= MaxTries

\* As long as no write put back an overtaken copy, only the user takes a donation off the queue.
NoneVanishes ==
  [][\A g \in Offline :
       store[g] # Gone /\ store'[g] = Gone /\ ~clobbered' => g \in dismissed']_mobileVars
===============================================================================
