----------------------------- MODULE PricingMath -----------------------------
(***************************************************************************)
(* twitch/pricing/rewardPricingMath.ts in exact arithmetic.  Demand, which *)
(* the code keeps as a float in [0,1], is counted in units of 1/Full, and  *)
(* so is the multiplier; time is counted in half-lives.  What the power    *)
(* functions contribute is monotone: Curve is x -> x^curve on the units,   *)
(* and decay halves, rounding down.                                        *)
(***************************************************************************)
EXTENDS Integers

CONSTANTS
  Full,     \* the demand the code writes as 1
  Curve     \* Math.pow(usage, curve), from units to units

ASSUME FullAssumption == Full \in Nat \ {0}
ASSUME CurveAssumption == Curve \in [0 .. Full -> 0 .. Full]

Demands == 0 .. Full

\* A reward's price parameters: base cost, maximum multiplier in units, and
\* the step to round to (0: whole points).
Configs == [base : Nat \ {0}, mult : Nat, step : Nat]

Clamp(x, low, high) == IF x < low THEN low ELSE IF x > high THEN high ELSE x

\* Math.round(n / d)
Rounded(n, d) == (2 * n + d) \div (2 * d)

HighestPrice(cfg) == (cfg.base * (Full + cfg.mult)) \div Full

computePrice(demand, cfg) ==
  LET usage == Clamp(demand, 0, Full)
      n == cfg.base * (Full * Full + Curve[usage] * cfg.mult)
      d == Full * Full
  IN  IF cfg.step > 0
        THEN Clamp(Rounded(n, d * cfg.step) * cfg.step, cfg.base, HighestPrice(cfg))
        ELSE Rounded(n, d)

decayDemand(demand, halfLives) == Clamp(demand \div (2 ^ halfLives), 0, Full)

applyRedemption(demand, halfLives, increment) ==
  Clamp(decayDemand(demand, halfLives) + increment, 0, Full)

\* Mistake: what is taken off may have decayed below what is left.
UnclampedRevert(demand, halfLives, increment, halfLivesSince) ==
  decayDemand(demand, halfLives) - decayDemand(increment, halfLivesSince)

\* What the redemption added has decayed since, at the same rate.
revertRedemption(demand, halfLives, increment, halfLivesSince) ==
  Clamp(decayDemand(demand, halfLives) - decayDemand(increment, halfLivesSince),
        0, Full)
=============================================================================
