-------------------------------- MODULE AuditLog --------------------------------
(***************************************************************************)
(* The links of the administrators' audit log: backend/src/services/       *)
(* audit.js appends, auditRetention.js prunes and anchors, auditChain.js   *)
(* verifies.  Every query is a step, of writers and a retention job that   *)
(* run side by side.  A row stands for its own hash; that the hash covers  *)
(* the row's fields is left out.                                           *)
(*                                                                         *)
(* Bound: MaxRows rows are ever written.                                   *)
(***************************************************************************)
EXTENDS Naturals, Sequences

CONSTANTS Writers, MaxRows

ASSUME AuditAssumption == MaxRows \in Nat

Genesis == 0   \* GENESIS_PREV_HASH

VARIABLES log,       \* admin_audit_log, oldest first: each row and the hash it links to
          anchor,    \* audit_chain_anchor: the hash the oldest row links to, Genesis if none
          writer,    \* each logAdminAction: idle, or the hash it read
          pruning,   \* dropOldPartitions: idle, deleted, or the survivor it read
          written,   \* history: rows ever written
          raced,     \* history: a row was written that links to another than the last one
          unanchored \* history: a prune that did not reach its anchor

auditVars == <<log, anchor, writer, pruning, written, raced, unanchored>>

Unread == MaxRows + 1
LastHash == IF log = <<>> THEN Genesis ELSE log[Len(log)].id

\* getPrevHash; a failing query counts as an empty log
ReadsPrev(w) ==
  /\ writer[w] = Unread
  /\ writer' = [writer EXCEPT ![w] = LastHash]
  /\ UNCHANGED <<log, anchor, pruning, written, raced, unanchored>>

\* INSERT; or a failure, which is printed and forgotten
Appends(w) ==
  /\ writer[w] # Unread /\ written < MaxRows
  /\ writer' = [writer EXCEPT ![w] = Unread]
  /\ \/ /\ log' = Append(log, [id |-> written + 1, prev |-> writer[w]])
        /\ written' = written + 1
        /\ raced' = (raced \/ writer[w] # IF log = <<>> THEN anchor ELSE LastHash)
     \/ UNCHANGED <<log, written, raced>>
  /\ UNCHANGED <<anchor, pruning, unanchored>>

-------------------------------------------------------------------------------
(* dropOldPartitions *)

\* DELETE the rows past the retention period, the oldest n of them
Prunes(n) ==
  /\ pruning = "idle" /\ n \in 1..Len(log)
  /\ log' = SubSeq(log, n + 1, Len(log))
  /\ pruning' = "deleted"
  /\ UNCHANGED <<anchor, writer, written, raced, unanchored>>

\* Mutant: the anchor is the hash of the survivor itself.
SurvivorId   == IF log = <<>> THEN Genesis ELSE log[1].id

\* the oldest survivor, then recordAnchor of the hash it links to, or clearAnchor
SurvivorPrev == IF log = <<>> THEN Genesis ELSE log[1].prev

Anchors ==
  /\ pruning = "deleted"
  /\ anchor' = SurvivorPrev
  /\ pruning' = "idle"
  /\ UNCHANGED <<log, writer, written, raced, unanchored>>

\* the job dies, or a query fails, after the DELETE
PruneDies ==
  /\ pruning = "deleted"
  /\ pruning' = "idle" /\ unanchored' = TRUE
  /\ UNCHANGED <<log, anchor, writer, written, raced>>

-------------------------------------------------------------------------------
AuditInit ==
  /\ log = <<>> /\ anchor = Genesis /\ writer = [w \in Writers |-> Unread] /\ pruning = "idle"
  /\ written = 0 /\ raced = FALSE /\ unanchored = FALSE

AuditNext ==
  \/ \E w \in Writers : ReadsPrev(w) \/ Appends(w)
  \/ \E n \in 1..MaxRows : Prunes(n)
  \/ Anchors \/ PruneDies

-------------------------------------------------------------------------------
(* Properties *)

\* verifyChain's walk: the oldest row links to the anchor, each other row to the one before it
Linked == \A n \in 1..Len(log) : log[n].prev = IF n = 1 THEN anchor ELSE log[n - 1].id

\* The variables have their types, and retention removes the oldest rows only: what is left is
\* the latest of the rows ever written, in the order of writing.
AuditTypeOK ==
  /\ \A n \in 1..Len(log) :
       log[n].id = written - Len(log) + n /\ log[n].prev \in 0..MaxRows
  /\ anchor \in 0..MaxRows /\ writer \in [Writers -> 0..Unread]
  /\ pruning \in {"idle", "deleted"} /\ written \in 0..MaxRows
  /\ {raced, unanchored} \subseteq BOOLEAN

\* The chain verifies between prunes, through any of them, as long as no two writers read the
\* same last row, none wrote across the emptying of the log, and no prune died before its anchor.
ChainVerifies == ~raced /\ ~unanchored /\ pruning = "idle" => Linked
===============================================================================
