---------------------------- MODULE UpgradeTimelock ----------------------------
(***************************************************************************)
(* The two-step upgrade of a contract: propose_upgrade, execute_upgrade    *)
(* and cancel_upgrade, which the donation and the attestation contract     *)
(* share line by line.                                                     *)
(***************************************************************************)
EXTENDS Naturals

CONSTANTS
  Wasms,     \* hashes of contract code
  Lock,      \* UPGRADE_TIMELOCK_LEDGERS
  NoWasm     \* model value

VARIABLES
  now,
  upgrade    \* PendingUpgrade, UpgradeEffectiveAt, LastExecutedUpgrade; since is
             \* history: the ledger of the proposal

NoUpgrade == [pending |-> NoWasm, effective |-> 0, last |-> NoWasm, since |-> 0]

\* Mutant: a proposal that is pending may be replaced, its ledger stays.
ReplacesPending(w) ==
  upgrade' = [upgrade EXCEPT !.pending = w, !.since = now,
                !.effective = IF upgrade.pending = NoWasm THEN now + Lock ELSE @]

ProposeUpgrade(w) ==
  /\ upgrade.pending = NoWasm
  /\ upgrade' = [upgrade EXCEPT !.pending = w, !.since = now, !.effective = now + Lock]

\* Anyone may call it.
ExecuteUpgrade ==
  /\ upgrade.pending # NoWasm /\ now >= upgrade.effective
  /\ upgrade' = [NoUpgrade EXCEPT !.last = upgrade.pending, !.since = upgrade.since]

CancelUpgrade ==
  /\ upgrade.pending # NoWasm
  /\ upgrade' = [NoUpgrade EXCEPT !.last = upgrade.last]
===============================================================================
