---------------------------- MODULE MCContractFamily ----------------------------
EXTENDS ContractFamily

\* d1 donates XLM under its name, d2 USDC under its name or XLM without it, and a
\* stealth donation and a settled one go to the same project.
SomeOffers ==
  {[by |-> "d1", to |-> "p1", currency |-> "XLM", amount |-> 1, anon |-> FALSE, path |-> "donate"],
   [by |-> "d2", to |-> "p1", currency |-> "USDC", amount |-> 1, anon |-> FALSE, path |-> "donate"],
   [by |-> "d1", to |-> "p1", currency |-> "XLM", amount |-> 1, anon |-> TRUE, path |-> "attested"],
   [by |-> "d1", to |-> "p1", currency |-> "XLM", amount |-> 1, anon |-> FALSE, path |-> "stealth"]}

TwoShares == <<40, 60>>
\* voting_weight_from_badge of None, Seedling and Tree
ThreeTiers  == <<0, 100, 141>>
SomeBallots == {<<7, 0>>}
===============================================================================
