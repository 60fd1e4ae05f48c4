-------------------------- MODULE AttestationContract --------------------------
(***************************************************************************)
(* The attestation contract (contracts/attestation-contract/src/lib.rs):   *)
(* the relayer records donations of other chains, alone or in batches;     *)
(* anyone verifies, the admin revokes; counters and aggregates follow; the *)
(* code is upgraded behind a time lock.                                    *)
(*                                                                         *)
(* Amounts are left out of the aggregates, which only add them up.         *)
(***************************************************************************)
EXTENDS Naturals, Sequences, FiniteSets, FiniteSetsExt, LedgerClock

CONSTANTS
  Chains, TxHashes, Givers,       \* source chains, their transactions, donors
  MaxRecords,                     \* bound: attestations
  AttWasms, AttLock, NoAttWasm    \* those of UpgradeTimelock

ASSUME AttestationAssumption == MaxRecords \in Nat

VARIABLES
  relayerSet,        \* whether Relayer is there
  attPaused,         \* Paused
  allowListed,       \* AllowedChainInit
  allowed,           \* AllowedChain
  record,            \* Attestation by id, which is also NextAttestationId
  seen,              \* SourceTxSeen
  counts,            \* TotalCount and PendingCount
  donorAgg,          \* DonorAggregate
  chainAgg,          \* ChainAggregate
  upgradeAtt

attVars  == <<now, relayerSet, attPaused, allowListed, allowed, record, seen, counts, donorAgg,
              chainAgg, upgradeAtt>>
setUp    == <<relayerSet, attPaused, allowListed, allowed>>
attested == <<record, seen, counts, donorAgg, chainAgg>>

AttUpgrades == INSTANCE UpgradeTimelock WITH
  upgrade <- upgradeAtt, Wasms <- AttWasms, Lock <- AttLock, NoWasm <- NoAttWasm

NoneYet == [total |-> 0, pending |-> 0, verified |-> 0, revoked |-> 0]

-------------------------------------------------------------------------------
(* Configuration.                                                          *)

\* set_relayer and clear_relayer; only the first waits for the pause to end.
SetRelayer ==
  /\ relayerSet \/ ~attPaused
  /\ relayerSet' = ~relayerSet
  /\ UNCHANGED <<now, attPaused, allowListed, allowed, attested, upgradeAtt>>

\* add_allowed_chain; the list counts from the first chain on, for ever.
AddAllowedChain(c) ==
  /\ ~attPaused
  /\ allowListed' = TRUE /\ allowed' = allowed \cup {c}
  /\ UNCHANGED <<now, relayerSet, attPaused, attested, upgradeAtt>>

RemoveAllowedChain(c) ==
  /\ ~attPaused
  /\ allowed' = allowed \ {c}
  /\ UNCHANGED <<now, relayerSet, attPaused, allowListed, attested, upgradeAtt>>

Pause ==
  /\ attPaused' = ~attPaused
  /\ UNCHANGED <<now, relayerSet, allowListed, allowed, attested, upgradeAtt>>

-------------------------------------------------------------------------------
(* Attestations.                                                           *)

\* The two checks of the replay guard: against the store and within the batch.
Unseen(chain, batch) ==
  /\ \A i \in DOMAIN batch : <<chain, batch[i].tx>> \notin seen
  /\ \A i, j \in DOMAIN batch : batch[i].tx = batch[j].tx => i = j

Adds(agg, n) == [agg EXCEPT !.total = @ + n, !.pending = @ + n]

\* record_attestations_internal, for record_attestation and record_attestation_batch.
RecordAttestations(chain, batch) ==
  LET Of(g) == {i \in DOMAIN batch : batch[i].donor = g}
  IN  /\ relayerSet /\ ~attPaused
      /\ allowListed => chain \in allowed
      /\ Unseen(chain, batch)
      /\ Len(record) + Len(batch) <= MaxRecords
      /\ record' = record \o [i \in DOMAIN batch |->
           [chain |-> chain, tx |-> batch[i].tx, donor |-> batch[i].donor, status |-> "Pending"]]
      /\ seen' = seen \cup {<<chain, batch[i].tx>> : i \in DOMAIN batch}
      /\ counts' = Adds(counts, Len(batch))
      /\ donorAgg' = [g \in Givers |-> Adds(donorAgg[g], Cardinality(Of(g)))]
      /\ chainAgg' = [chainAgg EXCEPT ![chain] = Adds(@, Len(batch))]
      /\ UNCHANGED <<now, setUp, upgradeAtt>>

Less(n) == IF n > 0 THEN n - 1 ELSE 0

Verifies(agg) == [agg EXCEPT !.pending = Less(@), !.verified = @ + 1]

\* verify_attestation: by anyone, also in a pause.
VerifyAttestation(id) ==
  /\ record[id].status = "Pending"
  /\ record' = [record EXCEPT ![id].status = "Verified"]
  /\ counts' = [counts EXCEPT !.pending = Less(@)]
  /\ donorAgg' = [donorAgg EXCEPT ![record[id].donor] = Verifies(@)]
  /\ chainAgg' = [chainAgg EXCEPT ![record[id].chain] = Verifies(@)]
  /\ UNCHANGED <<now, setUp, seen, upgradeAtt>>

\* Mutant: a revocation counts as one of a pending attestation.
RevokesPending(agg, pending) == [agg EXCEPT !.pending = Less(@), !.revoked = @ + 1]

\* update_aggregates_on_revoke
Revokes(agg, pending) ==
  IF pending THEN [agg EXCEPT !.pending = Less(@), !.revoked = @ + 1]
             ELSE [agg EXCEPT !.verified = Less(@), !.revoked = @ + 1]

\* The replay guard outlives the revocation.
RevokeAttestation(id) ==
  LET pending == record[id].status = "Pending"
  IN  /\ record[id].status # "Revoked"
      /\ record' = [record EXCEPT ![id].status = "Revoked"]
      /\ counts' = [counts EXCEPT !.pending = IF pending THEN Less(@) ELSE @]
      /\ donorAgg' = [donorAgg EXCEPT ![record[id].donor] = Revokes(@, pending)]
      /\ chainAgg' = [chainAgg EXCEPT ![record[id].chain] = Revokes(@, pending)]
      /\ UNCHANGED <<now, setUp, seen, upgradeAtt>>

UpgradeAttestation ==
  /\ \/ \E w \in AttWasms : AttUpgrades!ProposeUpgrade(w)
     \/ AttUpgrades!ExecuteUpgrade
     \/ AttUpgrades!CancelUpgrade
  /\ UNCHANGED <<now, setUp, attested>>

-------------------------------------------------------------------------------
AttInit ==
  /\ now = FirstLedger
  /\ relayerSet = FALSE /\ attPaused = FALSE /\ allowListed = FALSE /\ allowed = {}
  /\ record = <<>> /\ seen = {} /\ counts = NoneYet
  /\ donorAgg = [g \in Givers |-> NoneYet] /\ chainAgg = [c \in Chains |-> NoneYet]
  /\ upgradeAtt = AttUpgrades!NoUpgrade

AttestationCloses == Closes /\ UNCHANGED <<setUp, attested, upgradeAtt>>

Batches ==
  LET Input == [tx : TxHashes, donor : Givers]
  IN  {<<a>> : a \in Input} \cup {<<a, b>> : a, b \in Input}

AttNext ==
  \/ AttestationCloses \/ SetRelayer \/ Pause \/ UpgradeAttestation
  \/ \E c \in Chains :
       \/ AddAllowedChain(c) \/ RemoveAllowedChain(c)
       \/ \E batch \in Batches : RecordAttestations(c, batch)
  \/ \E id \in DOMAIN record : VerifyAttestation(id) \/ RevokeAttestation(id)

AttSpec == AttInit /\ [][AttNext]_attVars

-------------------------------------------------------------------------------
(* Properties                                                              *)

\* Every variable has its type.
AttTypeOK ==
  /\ relayerSet \in BOOLEAN /\ attPaused \in BOOLEAN /\ allowListed \in BOOLEAN
  /\ allowed \subseteq Chains /\ (allowed # {} => allowListed)
  /\ Len(record) <= MaxRecords /\ seen \subseteq Chains \X TxHashes
  /\ upgradeAtt.pending \in AttWasms \cup {NoAttWasm}

Tally(S) ==
  LET With(status) == Cardinality({i \in S : record[i].status = status})
  IN  [total |-> Cardinality(S), pending |-> With("Pending"), verified |-> With("Verified"),
       revoked |-> With("Revoked")]

\* The aggregates of every donor and chain, and the two counters, say what the records
\* say: no saturating subtraction ever hides a miscount (update_aggregates_on_record,
\* _on_verify and _on_revoke).
AggregatesMatch ==
  /\ \A g \in Givers : donorAgg[g] = Tally({i \in DOMAIN record : record[i].donor = g})
  /\ \A c \in Chains : chainAgg[c] = Tally({i \in DOMAIN record : record[i].chain = c})
  /\ counts.total = Len(record)
  /\ counts.pending = Tally(DOMAIN record).pending

\* A source transaction has one attestation at most, within and across batches and
\* after a revocation, and the replay guard knows exactly the recorded ones.
AttestedOnce ==
  /\ \A i, j \in DOMAIN record :
       record[i].chain = record[j].chain /\ record[i].tx = record[j].tx => i = j
  /\ seen = {<<record[i].chain, record[i].tx>> : i \in DOMAIN record}
===============================================================================
