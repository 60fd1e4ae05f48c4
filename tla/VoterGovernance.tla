---------------------------- MODULE VoterGovernance ----------------------------
(***************************************************************************)
(* Voting on projects in the donation contract                             *)
(* (contracts/indigopay-contract/src/lib.rs): voting weight by badge, its  *)
(* delegation, quadratic votes on proposals, their resolution, veto and    *)
(* cleanup.                                                                *)
(*                                                                         *)
(* Donations and refunds are what they do to a badge.  A call that panics  *)
(* changes nothing and is left out, as are signatures, the pause, the      *)
(* bounds of a proposal's duration and its registered project.             *)
(***************************************************************************)
EXTENDS Integers, Sequences, FiniteSets, Functions, LedgerClock

CONSTANTS
  Voters,
  Topics,        \* the projects voted on; a proposal's key is its project
  BadgeWeights,  \* voting_weight_from_badge, for BadgeTier::None first
  Ballots,       \* the pairs <<votes_for, votes_against>> that are cast
  VoteWindow,    \* the duration of a proposal
  VoteGrace,     \* GRACE_PERIOD_LEDGERS
  BadgeMoves,    \* bound: changes of badges
  NoOne          \* model value

\* A higher badge has no less weight.
ASSUME GovernanceAssumption ==
  /\ IsFiniteSet(Voters) /\ NoOne \notin Voters
  /\ BadgeWeights \in Seq(Nat) /\ BadgeWeights # <<>>
  /\ \A b, c \in DOMAIN BadgeWeights : b <= c => BadgeWeights[b] <= BadgeWeights[c]
  /\ Ballots \subseteq Nat \X Nat
  /\ VoteWindow \in Nat /\ BadgeMoves \in Nat

VARIABLES
  badge,         \* DonorStats.badge, an index of BadgeWeights
  delegate,      \* VoteDelegation
  delegated,     \* DelegatedWeight
  credits,       \* VoterCredits, Unset for a key that is not there
  poll,          \* Proposal
  voted,         \* HasVoted
  voterList,     \* VoterList
  badgeMoves     \* changes of badges left

govVars == <<now, badge, delegate, delegated, credits, poll, voted, voterList, badgeMoves>>

Unset  == -1
NoPoll == [for |-> 0, against |-> 0, deadline |-> 0, resolved |-> FALSE, at |-> 0]

Open(p)    == poll[p].deadline > 0 /\ ~poll[p].resolved
Weight(v)  == BadgeWeights[badge[v]]

\* isqrt: Babylonian iteration down to the floor of the root.
isqrt(n) == CHOOSE r \in 0 .. n : r * r <= n /\ n < (r + 1) * (r + 1)

-------------------------------------------------------------------------------
(* Badges and delegation.                                                  *)

\* Mutant: a delegate keeps the weight that was delegated at first.
DelegatesOnce(v, b) == delegated

\* update_delegated_weight_if_needed, when a badge rises.
RaisesDelegated(v, b) ==
  IF delegate[v] = NoOne THEN delegated
  ELSE [delegated EXCEPT ![delegate[v]] = @ + BadgeWeights[b] - Weight(v)]

\* apply_donation_effects, as far as it concerns votes; the credits are granted
\* afresh, whatever was spent.
BadgeRises(v) ==
  /\ badgeMoves > 0 /\ badgeMoves' = badgeMoves - 1
  /\ \E b \in DOMAIN BadgeWeights :
       /\ b > badge[v]
       /\ badge' = [badge EXCEPT ![v] = b]
       /\ delegated' = RaisesDelegated(v, b)
       /\ credits' = [credits EXCEPT ![v] = BadgeWeights[b] + delegated'[v]]
  /\ UNCHANGED <<now, delegate, poll, voted, voterList>>

\* The same, when the total has been refunded below a tier in the meantime: the weight
\* the voter delegated stays.
BadgeFalls(v) ==
  /\ badgeMoves > 0 /\ badgeMoves' = badgeMoves - 1
  /\ \E b \in DOMAIN BadgeWeights :
       /\ b < badge[v]
       /\ badge' = [badge EXCEPT ![v] = b]
       /\ credits' = [credits EXCEPT ![v] = BadgeWeights[b] + delegated[v]]
  /\ UNCHANGED <<now, delegate, delegated, poll, voted, voterList>>

\* delegate_vote, which moves the weight of the badge of now.
DelegateVote(v, d) ==
  /\ d \notin {v, delegate[v]}
  /\ delegate[v] # NoOne => delegated[delegate[v]] >= Weight(v)
  /\ delegate' = [delegate EXCEPT ![v] = d]
  /\ delegated' = [x \in Voters |->
       delegated[x] + (IF x = d THEN Weight(v) ELSE 0)
                    - (IF x = delegate[v] THEN Weight(v) ELSE 0)]
  /\ UNCHANGED <<now, badge, credits, poll, voted, voterList, badgeMoves>>

RevokeDelegation(v) ==
  /\ delegate[v] # NoOne /\ delegated[delegate[v]] >= Weight(v)
  /\ delegate' = [delegate EXCEPT ![v] = NoOne]
  /\ delegated' = [delegated EXCEPT ![delegate[v]] = @ - Weight(v)]
  /\ UNCHANGED <<now, badge, credits, poll, voted, voterList, badgeMoves>>

-------------------------------------------------------------------------------
(* Votes.                                                                  *)

CreateProposal(p) ==
  /\ poll[p] = NoPoll
  /\ poll' = [poll EXCEPT ![p] = [NoPoll EXCEPT !.deadline = now + VoteWindow]]
  /\ UNCHANGED <<now, badge, delegate, delegated, credits, voted, voterList, badgeMoves>>

\* get_voting_credits
Credits(v) ==
  IF credits[v] # Unset THEN credits[v]
  ELSE IF delegate[v] # NoOne THEN 0 ELSE Weight(v) + delegated[v]

TakesVotes(p) == Open(p) /\ now <= poll[p].deadline

\* vote_on_proposals.  allocs is a sequence of a proposal and a ballot; only votes of
\* earlier calls are looked for, so that one call may name a proposal twice.
VoteOnProposals(v, allocs) ==
  LET cost    == [i \in DOMAIN allocs |->
                   allocs[i].for * allocs[i].for + allocs[i].against * allocs[i].against]
      for     == [i \in DOMAIN allocs |-> allocs[i].for]
      against == [i \in DOMAIN allocs |-> allocs[i].against]
      total   == SumFunction(cost)
      On(p)   == {i \in DOMAIN allocs : allocs[i].topic = p}
      named   == {allocs[i].topic : i \in DOMAIN allocs}
  IN  /\ delegate[v] = NoOne
      /\ \A p \in named : <<p, v>> \notin voted /\ TakesVotes(p)
      /\ total <= Credits(v)
      /\ credits' = [credits EXCEPT ![v] = Credits(v) - total]
      /\ voted' = voted \cup {<<p, v>> : p \in named}
      /\ voterList' = [p \in Topics |-> voterList[p] \o [i \in 1 .. Cardinality(On(p)) |-> v]]
      /\ poll' = [p \in Topics |->
           [poll[p] EXCEPT !.for = @ + SumFunctionOnSet(for, On(p)),
                           !.against = @ + SumFunctionOnSet(against, On(p))]]
      /\ UNCHANGED <<now, badge, delegate, delegated, badgeMoves>>

VoteVerifyProject(v, p, approve) ==
  LET votes == isqrt(Credits(v))
  IN  /\ votes > 0
      /\ VoteOnProposals(v, <<[topic |-> p, for |-> IF approve THEN votes ELSE 0,
                               against |-> IF approve THEN 0 ELSE votes]>>)

-------------------------------------------------------------------------------
(* The end of a proposal.                                                  *)

Ends(p) ==
  /\ poll' = [poll EXCEPT ![p].resolved = TRUE, ![p].at = now]
  /\ UNCHANGED <<now, badge, delegate, delegated, credits, voted, voterList, badgeMoves>>

\* resolve_proposal; the verdict is an event.
ResolveProposal(p) == Open(p) /\ now > poll[p].deadline /\ Ends(p)

VetoProposal(p) == Open(p) /\ Ends(p)

Forgets(p) == voted \ {<<p, v>> : v \in Range(voterList[p])}

CleanupProposal(p) ==
  /\ poll[p].resolved /\ now >= poll[p].at + VoteGrace
  /\ poll' = [poll EXCEPT ![p] = NoPoll]
  /\ voted' = Forgets(p)
  /\ voterList' = [voterList EXCEPT ![p] = <<>>]
  /\ UNCHANGED <<now, badge, delegate, delegated, credits, badgeMoves>>

-------------------------------------------------------------------------------
GovInit ==
  /\ now = FirstLedger
  /\ badge = [v \in Voters |-> 1] /\ delegate = [v \in Voters |-> NoOne]
  /\ delegated = [v \in Voters |-> 0] /\ credits = [v \in Voters |-> Unset]
  /\ poll = [p \in Topics |-> NoPoll] /\ voted = {}
  /\ voterList = [p \in Topics |-> <<>>]
  /\ badgeMoves = BadgeMoves

GovernanceCloses ==
  /\ Closes
  /\ UNCHANGED <<badge, delegate, delegated, credits, poll, voted, voterList, badgeMoves>>

Allocations ==
  LET Choice == {[topic |-> p, for |-> b[1], against |-> b[2]] : p \in Topics, b \in Ballots}
  IN  {<<a>> : a \in Choice} \cup {<<a, b>> : a, b \in Choice}

GovNext ==
  \/ GovernanceCloses
  \/ \E v \in Voters :
       \/ BadgeRises(v) \/ BadgeFalls(v) \/ RevokeDelegation(v)
       \/ \E d \in Voters : DelegateVote(v, d)
       \/ \E allocs \in Allocations : VoteOnProposals(v, allocs)
       \/ \E p \in Topics, approve \in BOOLEAN : VoteVerifyProject(v, p, approve)
  \/ \E p \in Topics :
       CreateProposal(p) \/ ResolveProposal(p) \/ VetoProposal(p) \/ CleanupProposal(p)

GovSpec == GovInit /\ [][GovNext]_govVars

-------------------------------------------------------------------------------
(* Properties                                                              *)

\* Every variable has its type; a proposal has a ledger of its end once it ended.
GovTypeOK ==
  /\ badge \in [Voters -> DOMAIN BadgeWeights]
  /\ delegate \in [Voters -> Voters \cup {NoOne}] /\ delegated \in [Voters -> Nat]
  /\ credits \in [Voters -> Nat \cup {Unset}]
  /\ voted \subseteq Topics \X Voters /\ badgeMoves \in 0 .. BadgeMoves
  /\ \A p \in Topics :
       /\ poll[p].for \in Nat /\ poll[p].against \in Nat /\ poll[p].deadline \in Nat
       /\ poll[p].resolved <=> poll[p].at > 0
       /\ Range(voterList[p]) \subseteq Voters

\* A delegate holds at least the weight of its delegators' badges, through every rise
\* and fall of them, so that no delegation is ever locked in by the underflow check of
\* revoke_delegation and delegate_vote.
Revocable ==
  \A d \in Voters :
    delegated[d] >= SumFunctionOnSet([v \in Voters |-> Weight(v)],
                                     {v \in Voters : delegate[v] = d})

\* Who is marked as having voted is in the list of a live proposal: the cleanup, which
\* works from the list, lets every voter vote on the next proposal of the project.
VotersListed == \A p \in Topics : {v \in Voters : <<p, v>> \in voted} = Range(voterList[p])

\* A proposal that is resolved or vetoed, before its deadline maybe, gets no more votes
\* and stays as it is until it is removed.
ResolvedStands ==
  [][\A p \in Topics : poll[p].resolved => poll'[p] \in {poll[p], NoPoll}]_govVars

\* A voter votes once on a proposal.  Violated: one call may name a proposal twice.
OneVoteEach == \A p \in Topics : IsInjective(voterList[p])

\* Delegations can be taken back, and the voters of a live proposal are those listed.
GovernanceHolds == GovTypeOK /\ Revocable /\ VotersListed
===============================================================================
