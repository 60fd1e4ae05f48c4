---------------------------- MODULE DonationContract ----------------------------
(***************************************************************************)
(* The accounting of the donation contract                                 *)
(* (contracts/indigopay-contract/src/lib.rs): donations by every entry     *)
(* point of the default build, campaigns, recurring plans, refunds, forced *)
(* refunds and challenges.                                                 *)
(*                                                                         *)
(* A call is one step: Soroban reverts all of a call that panics.  Checks  *)
(* that only refuse a call and read state nothing here depends on (admin   *)
(* signatures, paused contract or project, suspended token, verification)  *)
(* are left out: such a call is one that is not made.  Amounts are whole   *)
(* XLM or USDC.  Custody of tokens is CampaignCustody's.                   *)
(***************************************************************************)
EXTENDS Integers, Sequences, FiniteSets, Functions, LedgerClock

CONSTANTS
  Donors,          \* who donates
  Anon,            \* anon_address, which stands for donors in anonymous donations
  Pool,            \* the contract's own address, the donor of stealth donations
  Projects,
  Offers,          \* the donations there are: [by, to, currency, amount, anon, path]
  MaxDonations,    \* bound: donations
  SetUps,          \* bound: calls about a campaign, a rate, the threshold or a plan
  Price,           \* the oracle's XLM per USDC
  Tiers,           \* total_donated at which the badges are reached
  Rates,           \* values of co2_per_xlm
  Goals,           \* campaign goals
  Thresholds,      \* values of the challenge threshold, 0 for none
  RateMax,         \* donations per donor, project, token and window
  RateWindow,
  RefundWindow,    \* REFUND_COOLDOWN_LEDGERS
  ChallengeWindow, \* CHALLENGE_WINDOW_LEDGERS
  Timelock,        \* FORCE_REFUND_TIMELOCK_LEDGERS
  Planners,        \* bound: donors with a recurring donation
  Interval         \* its interval_ledgers; its offer is the first amount

Accounts   == Donors \cup {Anon, Pool}
Indices    == 1 .. MaxDonations
Paths      == {"donate", "attested", "stealth", "recurring"}
Currencies == {"XLM", "USDC"}

ASSUME DonationAssumption ==
  /\ IsFiniteSet(Donors) /\ Anon \notin Donors \cup {Pool} /\ Pool \notin Donors
  /\ Offers \subseteq [by : Donors, to : Projects, currency : Currencies, amount : Nat,
                      anon : BOOLEAN, path : Paths]
  /\ Planners \subseteq Donors
  /\ \A d \in Planners : \E o \in Offers : o.by = d /\ o.currency = "XLM"
  /\ IsFiniteSet(Tiers) /\ Rates \subseteq Nat /\ Rates # {} /\ Goals \subseteq Nat
  /\ Thresholds \subseteq Nat /\ Price \in Nat /\ RateMax \in Nat /\ RateWindow \in Nat \ {0}
  /\ RefundWindow \in Nat /\ ChallengeWindow \in Nat /\ Timelock \in Nat /\ Interval \in Nat
  /\ MaxDonations \in Nat /\ SetUps \in Nat /\ LastLedger \in Nat \ {0}

VARIABLES
  raised,      \* Project.total_raised
  co2Rate,     \* Project.co2_per_xlm
  campaign,    \* Project.campaign_status, goal, deadline_ledger
  stats,       \* DonorStats: total_donated, co2_offset_grams, badge
  given,       \* DonorProjectTotal
  global,      \* GlobalTotalRaised, GlobalCO2OffsetGrams
  donations,   \* DonationRecord and DonationCO2Offset; credit and giver are history
  refund,      \* RefundRequest and ForceRefund, by donation
  challenge,   \* DonationChallenge, by donation
  disputeFloor,   \* ChallengeThreshold
  window,      \* DonorRateLimit
  plan,        \* RecurringDonation; runs and since are history
  final,       \* history: donations announced final since the threshold was set
  setUps       \* calls of that kind left

totals   == <<raised, stats, given, global>>
disputes == <<refund, challenge, disputeFloor, final>>
donVars  == <<now, co2Rate, campaign, totals, donations, disputes, window, plan, setUps>>

NoCampaign == [status |-> "None", goal |-> 0, deadline |-> 0]
NoRefund   == [status |-> "none", effective |-> 0]
NoPlan     == [state |-> "none", next |-> 0, since |-> 0, runs |-> 0]

Made           == 1 .. Len(donations)
Names(d, anon) == IF anon THEN Anon ELSE d

\* The bound on what is set up.
SetsUp == setUps > 0 /\ setUps' = setUps - 1

\* calculate_badge.
Badge(total) == Cardinality({t \in Tiers : total >= t})

-------------------------------------------------------------------------------
(* apply_donation_effects, and the copies of it in the other entry points. *)

\* require_campaign_accepts_donation.
Accepts(p) ==
  \/ campaign[p].status = "None"
  \/ campaign[p].status = "Active" /\ now <= campaign[p].deadline

\* total_raised and apply_campaign_goal_progress.
Raises(p, credit) ==
  /\ raised' = [raised EXCEPT ![p] = @ + credit]
  /\ campaign' = IF campaign[p].status = "Active" /\ raised[p] + credit >= campaign[p].goal
                 THEN [campaign EXCEPT ![p].status = "GoalReached"] ELSE campaign

Grams(p, credit) == credit * co2Rate[p]

AddsGlobal(credit, grams) ==
  global' = [global EXCEPT !.raised = @ + credit, !.co2 = @ + grams]

\* The DonationRecord with the raw amount and, beside it, the grams.
Records(who, d, p, currency, amount, credit, path) ==
  /\ Len(donations) < MaxDonations
  /\ donations' = Append(donations,
       [donor |-> who, giver |-> d, project |-> p, currency |-> currency, amount |-> amount,
        credit |-> credit, co2 |-> Grams(p, credit), ledger |-> now, path |-> path])

\* An anonymous donation is added to the statistics of anon_address, and to the
\* project total of the donor.
Effects(d, p, currency, amount, credit, anon, path) ==
  LET who   == Names(d, anon)
      total == stats[who].total + credit
  IN  /\ Accepts(p) /\ Raises(p, credit) /\ AddsGlobal(credit, Grams(p, credit))
      /\ stats' = [stats EXCEPT ![who] = [total |-> total, co2 |-> @.co2 + Grams(p, credit),
                                          badge |-> Badge(total)]]
      /\ given' = [given EXCEPT ![p][d] = @ + credit]
      /\ Records(who, d, p, currency, amount, credit, path)

\* The XLM a currency counts for.
Credit(currency, amount) == IF currency = "XLM" THEN amount ELSE amount * Price

Offered(o, path) == o \in Offers /\ o.path = path

CountsDonation(o, w) ==
  window' = [window EXCEPT ![o.by][o.to][o.currency] = [w EXCEPT !.count = @ + 1]]

\* process_donation_token: donate, batch_donate, donate_token and donate_usdc.
Donate(o) ==
  LET old  == window[o.by][o.to][o.currency]
      curr == IF old.count = 0 \/ now - old.start >= RateWindow
              THEN [start |-> now, count |-> 0] ELSE old
  IN  /\ Offered(o, "donate")
      /\ curr.count < RateMax
      /\ CountsDonation(o, curr)
      /\ Effects(o.by, o.to, o.currency, o.amount, Credit(o.currency, o.amount), o.anon, "donate")
      /\ UNCHANGED <<now, co2Rate, disputes, plan, setUps>>

\* donate_asset, vouched for by an attester, and settle_attestation: no rate limit.
DonateAttested(o) ==
  /\ Offered(o, "attested")
  /\ Effects(o.by, o.to, o.currency, o.amount, o.amount, o.anon, "attested")
  /\ UNCHANGED <<now, co2Rate, disputes, window, plan, setUps>>

\* donate_stealth_integrated: no donor statistics, and the goal is not tested.
DonateStealth(o) ==
  /\ Offered(o, "stealth")
  /\ Accepts(o.to)
  /\ raised' = [raised EXCEPT ![o.to] = @ + o.amount]
  /\ AddsGlobal(o.amount, Grams(o.to, o.amount))
  /\ Records(Pool, Pool, o.to, "XLM", o.amount, o.amount, "stealth")
  /\ UNCHANGED <<now, co2Rate, campaign, stats, given, disputes, window, plan, setUps>>

-------------------------------------------------------------------------------
(* Recurring donations, of the donor's first offer.                        *)

PlanOf(d) == CHOOSE o \in Offers : o.by = d /\ o.currency = "XLM"

CreateRecurring(d) ==
  /\ SetsUp
  /\ d \in Planners /\ plan[d].state = "none"
  /\ plan' = [plan EXCEPT ![d] = [state |-> "active", next |-> now + Interval,
                                  since |-> now, runs |-> 0]]
  /\ UNCHANGED <<now, co2Rate, campaign, totals, donations, disputes, window>>

CancelRecurring(d) ==
  /\ SetsUp
  /\ plan[d].state = "active"
  /\ plan' = [plan EXCEPT ![d].state = "cancelled"]
  /\ UNCHANGED <<now, co2Rate, campaign, totals, donations, disputes, window>>

NextRun(d) == now + Interval

\* execute_recurring, which any keeper may call once the plan has matured.
ExecuteRecurring(d) ==
  LET o == PlanOf(d)
  IN  /\ plan[d].state = "active" /\ now >= plan[d].next
      /\ Effects(d, o.to, "XLM", o.amount, o.amount, FALSE, "recurring")
      /\ plan' = [plan EXCEPT ![d].next = NextRun(d), ![d].runs = @ + 1]
      /\ UNCHANGED <<now, co2Rate, disputes, window, setUps>>

-------------------------------------------------------------------------------
(* Campaigns and rates.                                                    *)

\* create_campaign, create_campaign_with_escrow.
CreateCampaign(p, goal, deadline) ==
  /\ SetsUp
  /\ campaign[p].status \in {"None", "Closed", "Expired"}
  /\ goal > raised[p] /\ deadline > now
  /\ campaign' = [campaign EXCEPT ![p] =
                    [status |-> "Active", goal |-> goal, deadline |-> deadline]]
  /\ UNCHANGED <<now, co2Rate, totals, donations, disputes, window, plan>>

ExtendCampaign(p, deadline) ==
  /\ SetsUp
  /\ campaign[p].status = "Active" /\ now <= campaign[p].deadline
  /\ deadline > campaign[p].deadline
  /\ campaign' = [campaign EXCEPT ![p].deadline = deadline]
  /\ UNCHANGED <<now, co2Rate, totals, donations, disputes, window, plan>>

CloseCampaign(p) ==
  LET c == campaign[p]
  IN  /\ SetsUp
      /\ c.status \in {"Active", "GoalReached"}
      /\ campaign' = [campaign EXCEPT ![p].status =
                        IF c.status = "Active" /\ now > c.deadline /\ raised[p] < c.goal
                        THEN "Expired" ELSE "Closed"]
      /\ UNCHANGED <<now, co2Rate, totals, donations, disputes, window, plan>>

UpdateProjectCo2Rate(p, r) ==
  /\ SetsUp
  /\ co2Rate' = [co2Rate EXCEPT ![p] = r]
  /\ UNCHANGED <<now, campaign, totals, donations, disputes, window, plan>>

-------------------------------------------------------------------------------
(* Refunds and challenges.                                                 *)

ChallengeReversed(i) == challenge[i] = "rejected"
RefundApproved(i)    == refund[i].status = "approved"

\* reverse_donation_accounting: the raw amount, and the grams stored with the
\* donation, are taken from the donor of the record; checked_sub on i128 lets a total
\* become negative.
Reverses(i) ==
  LET r == donations[i]
  IN  /\ raised' = [raised EXCEPT ![r.project] = @ - r.amount]
      /\ stats' = [stats EXCEPT ![r.donor].total = @ - r.amount,
                                ![r.donor].co2 = @ - r.co2]
      /\ given' = [given EXCEPT ![r.project][r.donor] = @ - r.amount]
      /\ global' = [raised |-> global.raised - r.amount, co2 |-> global.co2 - r.co2]

\* request_refund: one request per donation, of the donor the record names.
RequestRefund(i) ==
  /\ donations[i].donor \in Donors
  /\ now <= donations[i].ledger + RefundWindow
  /\ refund[i].status = "none" /\ ~ChallengeReversed(i)
  /\ refund' = [refund EXCEPT ![i].status = "pending"]
  /\ UNCHANGED <<now, co2Rate, campaign, totals, donations, challenge, disputeFloor, final,
                 window, plan, setUps>>

\* Mutant: a challenge that has reversed the donation is not looked up.
RefundsAnyway(i) ==
  /\ Reverses(i)
  /\ refund' = [refund EXCEPT ![i] = [status |-> "approved", effective |-> 0]]
  /\ UNCHANGED <<now, co2Rate, campaign, donations, challenge, disputeFloor, final, window, plan, setUps>>

\* apply_refund_accounting.
Refunds(i) ==
  /\ ~ChallengeReversed(i)
  /\ Reverses(i)
  /\ refund' = [refund EXCEPT ![i] = [status |-> "approved", effective |-> 0]]
  /\ UNCHANGED <<now, co2Rate, campaign, donations, challenge, disputeFloor, final, window, plan, setUps>>

ApproveRefund(i) ==
  /\ refund[i].status = "pending" /\ refund[i].effective = 0
  /\ Refunds(i)

RejectRefund(i) ==
  /\ refund[i].status = "pending" /\ refund[i].effective = 0
  /\ refund' = [refund EXCEPT ![i].status = "rejected"]
  /\ UNCHANGED <<now, co2Rate, campaign, totals, donations, challenge, disputeFloor, final,
                 window, plan, setUps>>

ForceApproveRefund(i) ==
  /\ refund[i].status = "pending" /\ refund[i].effective = 0
  /\ refund' = [refund EXCEPT ![i].effective = now + Timelock]
  /\ UNCHANGED <<now, co2Rate, campaign, totals, donations, challenge, disputeFloor, final,
                 window, plan, setUps>>

CancelForceRefund(i) ==
  /\ refund[i].effective > now
  /\ refund' = [refund EXCEPT ![i].effective = 0]
  /\ UNCHANGED <<now, co2Rate, campaign, totals, donations, challenge, disputeFloor, final,
                 window, plan, setUps>>

\* Whether the project's balance covers it is CampaignCustody's.
ExecuteForceRefund(i) ==
  /\ refund[i].status = "pending" /\ refund[i].effective \in 1 .. now
  /\ Refunds(i)

\* The donations a challenge may be about, and those it is too late for.
Challengeable(i) == disputeFloor > 0 /\ donations[i].amount >= disputeFloor
WindowOver(i)    == now > donations[i].ledger + ChallengeWindow

\* Mutant: the window ends one ledger later than is_donation_finalized says.
InTimeLate(i) == now <= donations[i].ledger + ChallengeWindow + 1

InTime(i) == ~WindowOver(i)

\* challenge_donation: badge holders, donations of others, once.
ChallengeDonation(d, i) ==
  /\ stats[d].badge > 0 /\ d # donations[i].donor
  /\ ~RefundApproved(i) /\ Challengeable(i) /\ InTime(i)
  /\ challenge[i] = "none"
  /\ challenge' = [challenge EXCEPT ![i] = "open"]
  /\ UNCHANGED <<now, co2Rate, campaign, totals, donations, refund, disputeFloor, final,
                 window, plan, setUps>>

\* resolve_challenge.
ApproveChallenged(i) ==
  /\ challenge[i] = "open"
  /\ challenge' = [challenge EXCEPT ![i] = "approved"]
  /\ UNCHANGED <<now, co2Rate, campaign, totals, donations, refund, disputeFloor, final,
                 window, plan, setUps>>

RejectChallenged(i) ==
  /\ challenge[i] = "open" /\ ~RefundApproved(i)
  /\ challenge' = [challenge EXCEPT ![i] = "rejected"]
  /\ Reverses(i)
  /\ UNCHANGED <<now, co2Rate, campaign, donations, refund, disputeFloor, final, window, plan, setUps>>

SetChallengeThreshold(t) ==
  /\ SetsUp
  /\ disputeFloor' = t /\ final' = {}
  /\ UNCHANGED <<now, co2Rate, campaign, totals, donations, refund, challenge, window, plan>>

\* is_donation_finalized.
IsDonationFinalized(i) ==
  \/ ~Challengeable(i)
  \/ challenge[i] = "approved"
  \/ challenge[i] = "none" /\ WindowOver(i)

\* auto_finalize announces it.
AutoFinalize(i) ==
  /\ IsDonationFinalized(i)
  /\ final' = final \cup {i}
  /\ UNCHANGED <<now, co2Rate, campaign, totals, donations, refund, challenge, disputeFloor,
                 window, plan, setUps>>

-------------------------------------------------------------------------------
DonInit ==
  /\ now = FirstLedger
  /\ raised = [p \in Projects |-> 0]
  /\ \E r \in Rates : (\A q \in Rates : r <= q) /\ co2Rate = [p \in Projects |-> r]
  /\ campaign = [p \in Projects |-> NoCampaign]
  /\ stats = [x \in Accounts |-> [total |-> 0, co2 |-> 0, badge |-> 0]]
  /\ given = [p \in Projects |-> [x \in Accounts |-> 0]]
  /\ global = [raised |-> 0, co2 |-> 0]
  /\ donations = << >>
  /\ refund = [i \in Indices |-> NoRefund]
  /\ challenge = [i \in Indices |-> "none"]
  /\ disputeFloor = 0
  /\ window = [d \in Donors |-> [p \in Projects |->
                 [c \in Currencies |-> [start |-> 0, count |-> 0]]]]
  /\ plan = [d \in Donors |-> NoPlan]
  /\ final = {}
  /\ setUps = SetUps

LedgerCloses ==
  /\ Closes
  /\ UNCHANGED <<co2Rate, campaign, totals, donations, disputes, window, plan, setUps>>

DonNext ==
  \/ LedgerCloses
  \/ \E o \in Offers : Donate(o) \/ DonateAttested(o) \/ DonateStealth(o)
  \/ \E d \in Planners : CreateRecurring(d) \/ CancelRecurring(d) \/ ExecuteRecurring(d)
  \/ \E p \in Projects :
       \/ \E g \in Goals, l \in now + 1 .. LastLedger : CreateCampaign(p, g, l)
       \/ \E l \in now + 1 .. LastLedger : ExtendCampaign(p, l)
       \/ CloseCampaign(p)
       \/ \E r \in Rates : UpdateProjectCo2Rate(p, r)
  \/ \E i \in Made :
       \/ RequestRefund(i) \/ ApproveRefund(i) \/ RejectRefund(i)
       \/ ForceApproveRefund(i) \/ CancelForceRefund(i) \/ ExecuteForceRefund(i)
       \/ \E d \in Donors : ChallengeDonation(d, i)
       \/ ApproveChallenged(i) \/ RejectChallenged(i) \/ AutoFinalize(i)
  \/ \E t \in Thresholds : SetChallengeThreshold(t)

DonSpec == DonInit /\ [][DonNext]_donVars

-------------------------------------------------------------------------------
(* Properties                                                              *)

Reversed(i)    == RefundApproved(i) \/ ChallengeReversed(i)
DonatedTo(p)   == {i \in Made : donations[i].project = p}
RecordedFor(x) == {i \in Made : donations[i].donor = x}

\* What a donation counts for: its credit, less its raw amount once it is reversed, and
\* its grams until then.
Value == [i \in Made |-> donations[i].credit - (IF Reversed(i) THEN donations[i].amount ELSE 0)]
Saved == [i \in Made |-> IF Reversed(i) THEN 0 ELSE donations[i].co2]

Worth(S) == SumFunctionOnSet(Value, S)
Co2Of(S) == SumFunctionOnSet(Saved, S)

\* Every variable has its type.
DonTypeOK ==
  /\ now \in FirstLedger .. LastLedger
  /\ raised \in [Projects -> Int] /\ co2Rate \in [Projects -> Rates]
  /\ campaign \in [Projects ->
       [status : {"None", "Active", "GoalReached", "Closed", "Expired"},
        goal : Goals \cup {0}, deadline : 0 .. LastLedger]]
  /\ stats \in [Accounts -> [total : Int, co2 : Int, badge : 0 .. Cardinality(Tiers)]]
  /\ given \in [Projects -> [Accounts -> Int]]
  /\ global \in [raised : Int, co2 : Int]
  /\ Len(donations) <= MaxDonations
  /\ \A i \in Indices :
       /\ refund[i].status \in {"none", "pending", "approved", "rejected"}
       /\ refund[i].effective \in 0 .. LastLedger + Timelock
       /\ refund[i].effective > 0 => refund[i].status = "pending"
  /\ challenge \in [Indices -> {"none", "open", "approved", "rejected"}]
  /\ disputeFloor \in Thresholds \cup {0}
  /\ \A d \in Donors, p \in Projects, c \in Currencies :
       window[d][p][c].start \in 0 .. now /\ window[d][p][c].count \in 0 .. RateMax
  /\ \A d \in Donors : plan[d].state \in {"none", "active", "cancelled"}
  /\ final \subseteq Indices /\ setUps \in 0 .. SetUps

\* The totals of the projects, of the donors and of the contract agree with each
\* other and with the donations that stand, whichever entry point made them and
\* whichever of the refund, the forced refund and the challenge took them back, at
\* whatever CO2 rate the project has by then (apply_donation_effects and its copies,
\* reverse_donation_accounting).
BooksAgree ==
  /\ global = [raised |-> Worth(Made), co2 |-> Co2Of(Made)]
  /\ \A p \in Projects : raised[p] = Worth(DonatedTo(p))
  /\ \A x \in Accounts \ {Pool} :
       stats[x].total = Worth(RecordedFor(x)) /\ stats[x].co2 = Co2Of(RecordedFor(x))

\* A donation is reversed once: by its refund or by its challenge, whatever the
\* order in which they are requested and decided (DonationAlreadyReversed).
ReversedOnce == \A i \in Made : ~(RefundApproved(i) /\ ChallengeReversed(i))

\* A campaign whose goal is met is no longer open, unless a stealth donation met it
\* (apply_campaign_goal_progress, on every other path).
GoalCloses ==
  \A p \in Projects :
    campaign[p].status = "Active" /\ raised[p] >= campaign[p].goal
    => \E i \in DonatedTo(p) : donations[i].path = "stealth"

\* A plan is charged at most once per interval since it was made, however late the
\* keepers are (execute_recurring's next_execution_ledger).
PlanPaced ==
  \A d \in Donors : plan[d].state # "none" => plan[d].runs * Interval <= now - plan[d].since

\* A window that a donor has opened holds at most RateMax donations to the project in
\* that currency (DonorRateLimit).
WindowHolds ==
  \A d \in Donors, p \in Projects, c \in Currencies :
    LET w == window[d][p][c]
    IN  Cardinality({i \in DonatedTo(p) :
          /\ donations[i].giver = d /\ donations[i].path = "donate"
          /\ donations[i].currency = c
          /\ donations[i].ledger \in w.start .. w.start + RateWindow - 1}) <= RateMax

\* An unchallenged donation that was announced final cannot be challenged any more
\* while the threshold stays (auto_finalize and challenge_donation read the same
\* window).  A challenge that is open does not outlive a threshold of 0: the donation
\* is announced final, and can still be rejected.
FinalStands == [][\A i \in final : challenge[i] = "none" => challenge'[i] = "none"]_donVars

\* Badges are permanent.  Violated: the donation after a refund computes the badge
\* from the reduced total.
BadgesPermanent == [][\A x \in Accounts : stats'[x].badge >= stats[x].badge]_donVars

\* No counter is driven below zero by a reversal.  Violated: an anonymous donation is
\* added to its donor's project total and taken from that of anon_address.
CountersNeverNegative ==
  /\ \A x \in Accounts : stats[x].total >= 0 /\ stats[x].co2 >= 0
  /\ \A p \in Projects : \A x \in Accounts : given[p][x] >= 0

\* What the contract says of donations, campaigns, plans and windows is what was donated
\* and not taken back.
DonationsSettle ==
  /\ DonTypeOK /\ BooksAgree /\ ReversedOnce
  /\ GoalCloses /\ PlanPaced /\ WindowHolds
===============================================================================
