---------------------------- MODULE OracleStaking ----------------------------
(***************************************************************************)
(* The stakes of the price oracle's reporters                              *)
(* (contracts/oracle-contract/src/lib.rs): who reports, staking, its       *)
(* cooldown, slashing and its history.  The minimum stake and the length   *)
(* of the cooldown are constants; the stake token may change.              *)
(***************************************************************************)
EXTENDS Integers, Sequences, FiniteSets, Functions, LedgerClock

CONSTANTS
  Reporters, Assets, Stakes,   \* who reports, the stake tokens, the amounts staked
  StakeCap,                    \* bound: the stake of a reporter
  Cooldown,                    \* UnstakeCooldown
  SlashSlots,                  \* MAX_SLASH_HISTORY
  MaxSlashes,                  \* bound: slashes in all
  NoAsset                      \* model value

ASSUME StakingAssumption ==
  /\ IsFiniteSet(Reporters) /\ IsFiniteSet(Assets)
  /\ Stakes \subseteq Nat \ {0} /\ StakeCap \in Nat /\ Cooldown \in Nat
  /\ SlashSlots \in Nat \ {0}

VARIABLES
  reporters,     \* Reporter
  stakeAsset,    \* StakeToken
  stake,         \* ReporterStake
  availableAt,   \* StakeAvailableAt, 0 for a key that is not there
  oracleHeld,    \* the contract's balance of each token
  slashRing,     \* SlashEv with SlashHistoryMeta
  since,         \* history: the ledger in which a stake rose from zero, and
  slashes        \* the amounts slashed from a reporter, in order

stakeVars == <<now, reporters, stakeAsset, stake, availableAt, oracleHeld, slashRing, since,
               slashes>>

-------------------------------------------------------------------------------
ManageReporters ==
  /\ \E r \in Reporters : reporters' \in {reporters \cup {r}, reporters \ {r}}
  /\ UNCHANGED <<now, stakeAsset, stake, availableAt, oracleHeld, slashRing, since, slashes>>

\* configure_staking; stakes stay what they are, whatever the token.
ConfigureStaking(asset) ==
  /\ stakeAsset' = asset
  /\ UNCHANGED <<now, reporters, stake, availableAt, oracleHeld, slashRing, since, slashes>>

\* Mutant: a ledger that is there is kept.
AvailableOnce(r) == IF availableAt[r] = 0 THEN now + Cooldown ELSE availableAt[r]

\* A first stake starts the cooldown; a further one does not prolong it.
Available(r) == IF stake[r] = 0 THEN now + Cooldown ELSE availableAt[r]

Stake(r, a) ==
  /\ r \in reporters /\ stakeAsset # NoAsset /\ stake[r] + a <= StakeCap
  /\ stake' = [stake EXCEPT ![r] = @ + a]
  /\ availableAt' = [availableAt EXCEPT ![r] = Available(r)]
  /\ since' = [since EXCEPT ![r] = IF stake[r] = 0 THEN now ELSE @]
  /\ oracleHeld' = [oracleHeld EXCEPT ![stakeAsset] = @ + a]
  /\ UNCHANGED <<now, reporters, stakeAsset, slashRing, slashes>>

\* A transfer of the token of now, which the token may refuse.
OraclePays(a) ==
  /\ stakeAsset # NoAsset /\ oracleHeld[stakeAsset] >= a
  /\ oracleHeld' = [oracleHeld EXCEPT ![stakeAsset] = @ - a]

Unstake(r) ==
  /\ stake[r] > 0 /\ now >= availableAt[r] /\ OraclePays(stake[r])
  /\ stake' = [stake EXCEPT ![r] = 0]
  /\ availableAt' = [availableAt EXCEPT ![r] = 0]
  /\ UNCHANGED <<now, reporters, stakeAsset, slashRing, since, slashes>>

Remaining(r, a) == [stake EXCEPT ![r] = @ - a]

Slashable(r, a) == a <= stake[r]

Slash(r, a) ==
  /\ Slashable(r, a)
  /\ SumFunctionOnSet([q \in Reporters |-> Len(slashes[q])], Reporters) < MaxSlashes
  /\ OraclePays(a)
  /\ stake' = Remaining(r, a)
  /\ slashRing' = [slashRing EXCEPT
       ![r].slot[slashRing[r].next] = a,
       ![r].count = IF @ < SlashSlots THEN @ + 1 ELSE @,
       ![r].next  = (@ + 1) % SlashSlots]
  /\ slashes' = [slashes EXCEPT ![r] = Append(@, a)]
  /\ UNCHANGED <<now, reporters, stakeAsset, availableAt, since>>

\* get_slash_history
SlashHistory(r) ==
  LET start == IF slashRing[r].count < SlashSlots THEN 0 ELSE slashRing[r].next
  IN  [i \in 1 .. slashRing[r].count |-> slashRing[r].slot[(start + i - 1) % SlashSlots]]

-------------------------------------------------------------------------------
StakingInit ==
  /\ now = FirstLedger
  /\ reporters = {} /\ stakeAsset = NoAsset
  /\ stake = [r \in Reporters |-> 0] /\ availableAt = [r \in Reporters |-> 0]
  /\ since = [r \in Reporters |-> 0] /\ oracleHeld = [t \in Assets |-> 0]
  /\ slashRing = [r \in Reporters |->
                    [slot |-> [i \in 0 .. SlashSlots - 1 |-> 0], next |-> 0, count |-> 0]]
  /\ slashes = [r \in Reporters |-> <<>>]

StakingCloses ==
  /\ Closes
  /\ UNCHANGED <<reporters, stakeAsset, stake, availableAt, oracleHeld, slashRing, since, slashes>>

StakingNext ==
  \/ StakingCloses \/ ManageReporters
  \/ \E t \in Assets : ConfigureStaking(t)
  \/ \E r \in Reporters :
       \/ \E a \in Stakes : Stake(r, a)
       \/ \E a \in 1 .. StakeCap : Slash(r, a)
       \/ Unstake(r)

StakingSpec == StakingInit /\ [][StakingNext]_stakeVars

-------------------------------------------------------------------------------
(* Properties                                                              *)

\* Every variable has its type.
StakingTypeOK ==
  /\ reporters \subseteq Reporters /\ stakeAsset \in Assets \cup {NoAsset}
  /\ stake \in [Reporters -> 0 .. StakeCap] /\ availableAt \in [Reporters -> Nat]
  /\ oracleHeld \in [Assets -> Nat]
  /\ \A r \in Reporters : /\ slashRing[r].next \in 0 .. SlashSlots - 1
                          /\ slashRing[r].count \in 0 .. SlashSlots
                          /\ stake[r] > 0 => availableAt[r] > 0

\* What the contract holds is what reporters have staked, in all tokens together:
\* slashing, unstaking and a change of the token lose and create nothing.
StakesBacked == SumFunctionOnSet(oracleHeld, Assets) = SumFunctionOnSet(stake, Reporters)

\* A stake that rose from zero waits the whole cooldown, also after a slash that took
\* all of an earlier one (stake, unstake, slash).
CooldownRuns == \A r \in Reporters : stake[r] > 0 => availableAt[r] = since[r] + Cooldown

\* get_slash_history returns the latest slashes, oldest first, however often the ring
\* has been written over.
SlashesInOrder ==
  \A r \in Reporters : SlashHistory(r) = SubSeq(slashes[r], Len(slashes[r]) - slashRing[r].count + 1, Len(slashes[r]))
===============================================================================
