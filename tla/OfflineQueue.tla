----------------------------- MODULE OfflineQueue -----------------------------
(***************************************************************************)
(* frontend/lib/offlineDonationQueue.ts and hooks/useOfflineQueueSync.ts:  *)
(* the tabs of one browser share a queue of donations in IndexedDB and a   *)
(* lease on draining it.  What the server does with a key is taken from    *)
(* backend/src/middleware/idempotency.js: the answer of the first request, *)
(* whatever its status, is stored and replayed.                            *)
(*                                                                         *)
(* An IndexedDB transaction is one step; awaits are steps of their own.    *)
(* Keys do not reach their 24 hours.  DonateForm queues a donation when it *)
(* cannot sign it, so it has no transaction hash and the server rejects it *)
(* (Acceptable = {}); a payload may carry one.                             *)
(***************************************************************************)
EXTENDS Naturals, FiniteSets

CONSTANTS Items,        \* queued donations, each with its idempotency key
          Acceptable,   \* those whose payload the server accepts
          Tabs,
          NoTab, NoItem

ASSUME QueueAssumption == Acceptable \subseteq Items /\ NoTab \notin Tabs

VARIABLES local,     \* the donations in the IndexedDB store
          lease,     \* the drain lease: its owner, and whether it is still live
          tab,       \* each tab: where its drain stands, its item, what is left of its snapshot
          stored,    \* server: the state of each item's key
          rows, \* server: donation rows of each item
          submitted, \* history: items removed because their submission succeeded
          skipped,   \* history: items removed by the pre-check
          outlived     \* history: a lease expired under a drain that went on

queueVars == <<local, lease, tab, stored, rows, submitted, skipped, outlived>>

NoLease == [owner |-> NoTab, live |-> FALSE]
Resting == [at |-> "idle", item |-> NoItem, todo |-> {}]

-------------------------------------------------------------------------------
(* The queue and its lease *)

\* queueDonation
Queues(i) ==
  /\ i \notin local \union submitted \union skipped
  /\ local' = local \union {i}
  /\ UNCHANGED <<lease, tab, stored, rows, submitted, skipped, outlived>>

\* syncQueuedDonations behind its mutex, and acquireDrainLease in one transaction
AcquiresLease(t) ==
  /\ tab[t].at = "idle"
  /\ ~lease.live
  /\ lease' = [owner |-> t, live |-> TRUE]
  /\ tab' = [tab EXCEPT ![t].at = "snapshot"]
  /\ UNCHANGED <<local, stored, rows, submitted, skipped, outlived>>

\* LEASE_TTL_MS pass; nothing renews the lease of a drain that is still running
LeaseExpires ==
  /\ lease.live
  /\ lease' = [lease EXCEPT !.live = FALSE]
  /\ outlived' = IF tab[lease.owner].at # "idle" THEN outlived \union {lease.owner} ELSE outlived
  /\ UNCHANGED <<local, tab, stored, rows, submitted, skipped>>

\* getQueuedDonations
Snapshots(t) ==
  /\ tab[t].at = "snapshot"
  /\ tab' = [tab EXCEPT ![t].at = "next", ![t].todo = local]
  /\ UNCHANGED <<local, lease, stored, rows, submitted, skipped, outlived>>

NextItem(t) ==
  \E i \in tab[t].todo :
    /\ tab[t].at = "next"
    /\ tab' = [tab EXCEPT ![t] = [at |-> "check", item |-> i, todo |-> @.todo \ {i}]]
    /\ UNCHANGED <<local, lease, stored, rows, submitted, skipped, outlived>>

\* Mutant: whose lease it is by now is not asked.
ReleasesAny(t) ==
  /\ tab[t].at = "next" /\ tab[t].todo = {}
  /\ lease' = NoLease
  /\ tab' = [tab EXCEPT ![t] = Resting]
  /\ UNCHANGED <<local, stored, rows, submitted, skipped>>
  /\ outlived' = outlived \ {t}

\* releaseDrainLease deletes the lease only if this tab still owns it
ReleasesLease(t) ==
  /\ tab[t].at = "next" /\ tab[t].todo = {}
  /\ lease' = IF lease.owner = t THEN NoLease ELSE lease
  /\ tab' = [tab EXCEPT ![t] = Resting]
  /\ UNCHANGED <<local, stored, rows, submitted, skipped>>
  /\ outlived' = outlived \ {t}

\* the tab is closed or crashes: its lease stays until it expires
TabDies(t) ==
  /\ tab[t].at # "idle"
  /\ tab' = [tab EXCEPT ![t] = Resting]
  /\ UNCHANGED <<local, lease, stored, rows, submitted, skipped>>
  /\ outlived' = outlived \ {t}

-------------------------------------------------------------------------------
(* One item: the pre-check, the submission, the removal *)

\* checkIdempotency: the key is there, whatever the stored status; or the check fails
PreChecks(t) ==
  LET i == tab[t].item IN
  /\ tab[t].at = "check"
  /\ \/ tab' = [tab EXCEPT ![t].at = IF stored[i] # "absent" THEN "skip" ELSE "submit"]
     \/ tab' = [tab EXCEPT ![t].at = "submit"]
  /\ UNCHANGED <<local, lease, stored, rows, submitted, skipped, outlived>>

SkipsItem(t) ==
  /\ tab[t].at = "skip"
  /\ local' = local \ {tab[t].item} /\ skipped' = skipped \union {tab[t].item}
  /\ tab' = [tab EXCEPT ![t].at = "next", ![t].item = NoItem]
  /\ UNCHANGED <<lease, stored, rows, submitted, outlived>>

\* POST /api/donations, server side: the first request of a key claims it, the others replay
ClaimsItem(t) ==
  LET i == tab[t].item IN
  /\ tab[t].at = "submit" /\ stored[i] = "absent"
  /\ stored' = [stored EXCEPT ![i] = "processing"]
  /\ tab' = [tab EXCEPT ![t].at = "posting"]
  /\ UNCHANGED <<local, lease, rows, submitted, skipped, outlived>>

\* a stored 2xx is a success; the 202 placeholder throws DonationProcessingError; the rest fails
Succeeds(i)    == stored[i] = "done"

ReplaysItem(t) ==
  LET i == tab[t].item IN
  /\ tab[t].at = "submit" /\ stored[i] # "absent"
  /\ tab' = IF Succeeds(i) THEN [tab EXCEPT ![t].at = "remove"]
                           ELSE [tab EXCEPT ![t].at = "next", ![t].item = NoItem]
  /\ UNCHANGED <<local, lease, stored, rows, submitted, skipped, outlived>>

\* the request is handled and its response stored; the tab learns of it, unless the answer is
\* lost or the tab is gone
Handles(i) ==
  /\ stored[i] = "processing"
  /\ IF i \in Acceptable
     THEN rows' = [rows EXCEPT ![i] = @ + 1] /\ stored' = [stored EXCEPT ![i] = "done"]
     ELSE stored' = [stored EXCEPT ![i] = "rejected"] /\ UNCHANGED rows
  /\ UNCHANGED <<local, lease, tab, submitted, skipped, outlived>>

\* the server process dies with the request: its placeholder stays
Abandons(i) ==
  /\ stored[i] = "processing"
  /\ stored' = [stored EXCEPT ![i] = "stuck"]
  /\ UNCHANGED <<local, lease, tab, rows, submitted, skipped, outlived>>

LearnsAnswer(t) ==
  LET i == tab[t].item IN
  /\ tab[t].at = "posting"
  /\ \/ /\ stored[i] = "done"
        /\ tab' = [tab EXCEPT ![t].at = "remove"]
     \/ tab' = [tab EXCEPT ![t].at = "next", ![t].item = NoItem]     \* an error, or no answer
  /\ UNCHANGED <<local, lease, stored, rows, submitted, skipped, outlived>>

RemovesItem(t) ==
  /\ tab[t].at = "remove"
  /\ local' = local \ {tab[t].item} /\ submitted' = submitted \union {tab[t].item}
  /\ tab' = [tab EXCEPT ![t].at = "next", ![t].item = NoItem]
  /\ UNCHANGED <<lease, stored, rows, skipped, outlived>>

-------------------------------------------------------------------------------
QueueInit ==
  /\ local = {} /\ lease = NoLease /\ tab = [t \in Tabs |-> Resting]
  /\ stored = [i \in Items |-> "absent"] /\ rows = [i \in Items |-> 0]
  /\ submitted = {} /\ skipped = {} /\ outlived = {}

QueueNext ==
  \/ LeaseExpires
  \/ \E i \in Items : Queues(i) \/ Handles(i) \/ Abandons(i)
  \/ \E t \in Tabs :
       \/ AcquiresLease(t) \/ Snapshots(t) \/ NextItem(t) \/ ReleasesLease(t) \/ TabDies(t)
       \/ PreChecks(t) \/ SkipsItem(t) \/ ClaimsItem(t) \/ ReplaysItem(t) \/ LearnsAnswer(t)
       \/ RemovesItem(t)

QueueSpec == QueueInit /\ [][QueueNext]_queueVars

-------------------------------------------------------------------------------
(* Properties *)

\* The variables have their types, a live lease has an owner, and the server records a queued
\* donation at most once, however often and from however many tabs it is submitted.
QueueTypeOK ==
  /\ {local, submitted, skipped} \subseteq SUBSET Items
  /\ lease \in [owner : Tabs \union {NoTab}, live : BOOLEAN] /\ (lease.live => lease.owner # NoTab)
  /\ tab \in [Tabs -> [at : {"idle", "snapshot", "next", "check", "skip", "submit", "posting",
                             "remove"},
                       item : Items \union {NoItem}, todo : SUBSET Items]]
  /\ stored \in [Items -> {"absent", "processing", "stuck", "done", "rejected"}]
  /\ rows \in [Items -> 0..1] /\ outlived \subseteq Tabs

\* Tabs do not drain the queue side by side, until a drain outlives its lease: a tab that ends
\* does not take another's lease away.
TabsExclusive == Cardinality({t \in Tabs \ outlived : tab[t].at # "idle"}) <= 1

\* A donation leaves the queue as submitted only when the server has recorded it.
SubmittedIsRecorded == \A i \in submitted : rows[i] = 1

\* "the queued copy is dropped without submitting - guaranteeing zero duplicate donation
\* records" of a donation that "the server already recorded": a donation leaves the queue only
\* when it is recorded.
DroppedIsRecorded == \A i \in submitted \union skipped : rows[i] = 1
===============================================================================
