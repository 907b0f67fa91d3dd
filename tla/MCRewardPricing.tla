--------------------------- MODULE MCRewardPricing ---------------------------
(* RewardPricing for TLC: a linear curve, two rewards' worth of settings.  *)
EXTENDS RewardPricing

MCCurve == [d \in 0 .. 2 |-> d]
MCFirst == [base |-> 10, mult |-> 2, step |-> 5]
MCConfigs == {[base |-> 12, mult |-> 1, step |-> 0]}
=============================================================================
