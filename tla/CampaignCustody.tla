---------------------------- MODULE CampaignCustody ----------------------------
(***************************************************************************)
(* The tokens that the donation contract holds                             *)
(* (contracts/indigopay-contract/src/lib.rs): what escrow campaigns take   *)
(* in for their projects, platform fees, forced refunds and emergency      *)
(* withdrawals out of it, the escrow jobs it funds, and the vesting        *)
(* schedules beside it.  One token.                                        *)
(*                                                                         *)
(* As in DonationContract a call is one step, checks of signatures and     *)
(* pauses are left out, and a refund that the request's status or the      *)
(* timelock refuses is a call that is not made.                            *)
(***************************************************************************)
EXTENDS Integers, Sequences, FiniteSets, Functions, LedgerClock

CONSTANTS
  Causes,          \* the projects
  Gifts,           \* the amounts donated, refunded and withdrawn
  MaxGifts,        \* bound: donations
  FeePercent,      \* PlatformFeeBps, in percent
  Shares,          \* share of each fee recipient, in percent
  Schedules,       \* bound: vesting schedules
  VestedAmounts,
  Counts,          \* installment_count
  VestInterval,    \* installment_interval_ledgers
  Delay,           \* EMERGENCY_WITHDRAWAL_TIMELOCK
  Grace            \* GRACE_PERIOD_LEDGERS

ASSUME CustodyAssumption ==
  /\ IsFiniteSet(Causes) /\ IsFiniteSet(Schedules)
  /\ Gifts \subseteq Nat /\ MaxGifts \in Nat
  /\ FeePercent \in 0 .. 100 /\ Shares \in Seq(Nat) /\ Shares # <<>>
  /\ VestedAmounts \subseteq Nat /\ Counts \subseteq Nat \ {0}
  /\ VestInterval \in Nat /\ Delay \in Nat /\ Grace \in Nat

VARIABLES
  held,        \* the contract's balance of the token
  balance,     \* ProjectContractBalance
  escrowed,    \* the projects with CampaignEscrowMilestones
  job,         \* what CampaignEscrowJobId was funded with, 0 for no job
  withdrawal,  \* EmergencyWithdrawal
  vesting,     \* VestingSchedule; out is history: what left custody
  gifts,       \* donations left
  offered,     \* history: the amounts of the donations, and
  charged      \* what donors were charged for them

cusVars == <<now, held, balance, escrowed, job, withdrawal, vesting, gifts, offered, charged>>
others  == <<now, escrowed, job, withdrawal, vesting, gifts, offered, charged>>

NoWithdrawal == [amount |-> 0, at |-> 0]
NoSchedule   == [state |-> "none", total |-> 0, per |-> 0, count |-> 0, released |-> 0,
                 next |-> 0, completed |-> 0, out |-> 0]

\* A transfer from the contract, which the token refuses beyond what it holds.
Pays(amount) == amount <= held /\ held' = held - amount

-------------------------------------------------------------------------------
(* Donations and their fees.                                               *)

Fee(amount) == (amount * FeePercent) \div 100

\* split_fee_recipients: the last recipient gets what is left.
Share(fee, i) ==
  LET rounded == [j \in DOMAIN Shares |-> (fee * Shares[j]) \div 100]
  IN  IF i = Len(Shares) THEN fee - SumFunctionOnSet(rounded, 1 .. Len(Shares) - 1)
      ELSE rounded[i]

\* process_donation_token's transfers: the fee recipients, then the project's wallet
\* or, in an escrow campaign, this contract.
TakesDonation(p, a) ==
  LET rest == a - Fee(a)
      fees == SumFunction([i \in DOMAIN Shares |-> Share(Fee(a), i)])
  IN  /\ gifts > 0 /\ gifts' = gifts - 1
      /\ offered' = offered + a /\ charged' = charged + fees + rest
      /\ IF p \in escrowed
           THEN held' = held + rest /\ balance' = [balance EXCEPT ![p] = @ + rest]
           ELSE UNCHANGED <<held, balance>>
      /\ UNCHANGED <<now, escrowed, job, withdrawal, vesting>>

\* create_campaign_with_escrow; the milestones are never removed.
CreateCampaignWithEscrow(p) ==
  /\ escrowed' = escrowed \cup {p}
  /\ UNCHANGED <<now, held, balance, job, withdrawal, vesting, gifts, offered, charged>>

\* fund_campaign_escrow_job: the escrow contract takes the whole balance, which is
\* not debited.
FundCampaignEscrowJob(p) ==
  /\ p \in escrowed /\ job[p] = 0 /\ balance[p] > 0
  /\ Pays(balance[p])
  /\ job' = [job EXCEPT ![p] = balance[p]]
  /\ UNCHANGED <<now, balance, escrowed, withdrawal, vesting, gifts, offered, charged>>

-------------------------------------------------------------------------------
(* Forced refunds and emergency withdrawals.                               *)

Spends(p, a) ==
  /\ a <= balance[p] /\ Pays(a)
  /\ balance' = [balance EXCEPT ![p] = @ - a]

\* execute_force_refund, of a matured request.
SpendsForceRefund(p, a) ==
  /\ Spends(p, a)
  /\ UNCHANGED others

InitiateWithdrawal(p, a) ==
  /\ withdrawal[p] = NoWithdrawal
  /\ withdrawal' = [withdrawal EXCEPT ![p] = [amount |-> a, at |-> now + Delay]]
  /\ UNCHANGED <<now, held, balance, escrowed, job, vesting, gifts, offered, charged>>

CancelWithdrawal(p) ==
  /\ withdrawal[p] # NoWithdrawal
  /\ withdrawal' = [withdrawal EXCEPT ![p] = NoWithdrawal]
  /\ UNCHANGED <<now, held, balance, escrowed, job, vesting, gifts, offered, charged>>

ExecuteWithdrawal(p) ==
  /\ withdrawal[p] # NoWithdrawal /\ now >= withdrawal[p].at
  /\ Spends(p, withdrawal[p].amount)
  /\ withdrawal' = [withdrawal EXCEPT ![p] = NoWithdrawal]
  /\ UNCHANGED <<now, escrowed, job, vesting, gifts, offered, charged>>

-------------------------------------------------------------------------------
(* Vesting.                                                                *)

Remainder(v)   == v.total - v.per * v.count
Outstanding(v) == IF v.released < v.count
                  THEN (v.count - v.released) * v.per + Remainder(v) ELSE 0

UnchangedButVesting ==
  UNCHANGED <<now, balance, escrowed, job, withdrawal, gifts, offered, charged>>

\* donate_vested: the total comes in, the first installment goes out.
DonateVested(s, total, count) ==
  LET per == total \div count
  IN  /\ vesting[s].state = "none" /\ per > 0
      /\ vesting' = [vesting EXCEPT ![s] =
           [state |-> "made", total |-> total, per |-> per, count |-> count, released |-> 1,
            next |-> now + VestInterval, completed |-> 0, out |-> per]]
      /\ held' = held + total - per
      /\ UnchangedButVesting

\* Mutant: the remainder of the division stays.
PayoutRounded(v) == v.per

\* The last installment pays the remainder of the division too.
Payout(v) == IF v.released + 1 >= v.count THEN v.per + Remainder(v) ELSE v.per

ClaimVestedInstallment(s) ==
  LET v == vesting[s]
  IN  /\ v.state = "made" /\ v.released < v.count /\ now >= v.next
      /\ Pays(Payout(v))
      /\ vesting' = [vesting EXCEPT ![s] =
           [v EXCEPT !.released = @ + 1, !.next = now + VestInterval,
                     !.completed = IF v.released + 1 >= v.count THEN now ELSE @,
                     !.out = @ + Payout(v)]]
      /\ UnchangedButVesting

CancelVesting(s) ==
  LET v == vesting[s]
  IN  /\ v.state = "made" /\ v.released < v.count
      /\ Pays(Outstanding(v))
      /\ vesting' = [vesting EXCEPT ![s] =
           [v EXCEPT !.released = v.count, !.completed = now, !.out = @ + Outstanding(v)]]
      /\ UnchangedButVesting

\* cleanup_vesting_schedule, which a schedule of one installment never reaches.
CleanupVestingSchedule(s) ==
  /\ vesting[s].state = "made" /\ vesting[s].completed > 0
  /\ now >= vesting[s].completed + Grace
  /\ vesting' = [vesting EXCEPT ![s].state = "removed"]
  /\ held' = held
  /\ UnchangedButVesting

-------------------------------------------------------------------------------
CusInit ==
  /\ now = FirstLedger
  /\ held = 0 /\ balance = [p \in Causes |-> 0]
  /\ escrowed = {} /\ job = [p \in Causes |-> 0]
  /\ withdrawal = [p \in Causes |-> NoWithdrawal]
  /\ vesting = [s \in Schedules |-> NoSchedule]
  /\ gifts = MaxGifts /\ offered = 0 /\ charged = 0

CustodyCloses ==
  /\ Closes
  /\ UNCHANGED <<held, balance, escrowed, job, withdrawal, vesting, gifts, offered, charged>>

CusNext ==
  \/ CustodyCloses
  \/ \E p \in Causes :
       \/ \E a \in Gifts :
            TakesDonation(p, a) \/ SpendsForceRefund(p, a) \/ InitiateWithdrawal(p, a)
       \/ CreateCampaignWithEscrow(p) \/ FundCampaignEscrowJob(p)
       \/ CancelWithdrawal(p) \/ ExecuteWithdrawal(p)
  \/ \E s \in Schedules :
       \/ \E t \in VestedAmounts, c \in Counts : DonateVested(s, t, c)
       \/ ClaimVestedInstallment(s) \/ CancelVesting(s) \/ CleanupVestingSchedule(s)

CusSpec == CusInit /\ [][CusNext]_cusVars

-------------------------------------------------------------------------------
(* Properties                                                              *)

Vested == SumFunction([s \in Schedules |-> Outstanding(vesting[s])])

\* Every variable has its type, and a schedule that is removed is over.
CusTypeOK ==
  /\ held \in Nat /\ balance \in [Causes -> Nat] /\ job \in [Causes -> Nat]
  /\ escrowed \subseteq Causes
  /\ \A p \in Causes : withdrawal[p].amount \in Gifts \cup {0} /\ withdrawal[p].at \in Nat
  /\ \A s \in Schedules :
       /\ vesting[s].state \in {"none", "made", "removed"}
       /\ vesting[s].released \in 0 .. vesting[s].count
       /\ vesting[s].state = "removed" => vesting[s].released = vesting[s].count
  /\ gifts \in 0 .. MaxGifts /\ offered \in Nat /\ charged \in Nat

\* A donor is charged the amount of the donation, whatever is rounded in the fee and
\* its shares (split_fee, split_fee_recipients).
ChargedExactly == charged = offered

\* What left custody and what is still to leave make up the vested total: no
\* installment is paid twice and no remainder stays, through claims and a
\* cancellation (claim_vested_installment, cancel_vesting, vesting_remainder).
VestingExact ==
  \A s \in Schedules :
    vesting[s].state # "none" => vesting[s].out + Outstanding(vesting[s]) = vesting[s].total

\* The contract holds the balances of the projects and the vested amounts, less what
\* funded escrow jobs (fund_campaign_escrow_job does not debit the balance).
HeldExactly == held = SumFunction(balance) - SumFunction(job) + Vested

\* Vested tokens are held until they leave.  Violated: a balance that has funded an
\* escrow job can be spent once more, from the tokens of schedules.
VestedIsHeld == held >= Vested

\* No stroop is charged, held or paid that the other books do not know of.
CustodyExact == CusTypeOK /\ ChargedExactly /\ VestingExact /\ HeldExactly
===============================================================================
