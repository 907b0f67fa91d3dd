-------------------------- MODULE RedemptionOutcome --------------------------
(***************************************************************************)
(* What a viewer who redeems is promised, without deliveries, timers,      *)
(* calls, claims in memory or restarts: the redemption takes effect once,  *)
(* is asked about at most once and before that, is decided by one answer   *)
(* at a time, is answered on Twitch once, as the decision of that moment   *)
(* says, and its price comes back down once, for a refund that nobody can  *)
(* take back any more.                                                     *)
(***************************************************************************)
EXTENDS Naturals

CONSTANTS
  Redemptions

VARIABLES
  twitch,     \* status of each redemption on Twitch
  decision,   \* what was decided: absent (nothing was asked), pending, ...
  deciding,   \* those that somebody is carrying out the decision of
  handled,    \* those whose effects are recorded as done
  overlays, pushes,    \* what was shown, and what the companion app was sent
  applied, reverted    \* what the redemption did to the price, and the refund

effectVars == <<handled, overlays, pushes, applied>>
decisionVars == <<twitch, decision, deciding, reverted>>
outcomeVars == <<effectVars, decisionVars>>

AnswerFor(goal) == IF goal = "fulfilled" THEN "FULFILLED" ELSE "CANCELED"

-----------------------------------------------------------------------------
Init ==
  /\ twitch = [r \in Redemptions |-> "UNFULFILLED"]
  /\ decision = [r \in Redemptions |-> "absent"]
  /\ deciding = {} /\ handled = {}
  /\ overlays = [r \in Redemptions |-> 0] /\ pushes = [r \in Redemptions |-> 0]
  /\ applied = [r \in Redemptions |-> 0] /\ reverted = [r \in Redemptions |-> 0]

(* The effects *)

Charge(r) ==
  /\ r \notin handled /\ applied[r] = 0
  /\ applied' = [applied EXCEPT ![r] = 1]
  /\ UNCHANGED <<handled, overlays, pushes, decisionVars>>

Handle(r) ==
  /\ r \notin handled /\ overlays[r] = 0
  /\ handled' = handled \cup {r}
  /\ overlays' = [overlays EXCEPT ![r] = 1]
  /\ UNCHANGED <<pushes, applied, decisionVars>>

Push(r) ==
  /\ r \in handled /\ pushes[r] = 0
  /\ pushes' = [pushes EXCEPT ![r] = 1]
  /\ UNCHANGED <<handled, overlays, applied, decisionVars>>

(* The decision *)

Ask(r) ==
  /\ r \notin handled /\ decision[r] = "absent"
  /\ decision' = [decision EXCEPT ![r] = "pending"]
  /\ UNCHANGED <<twitch, deciding, reverted, effectVars>>

\* Whoever decides need not hear that the decision was recorded, and then does not carry it out.
Decide(r, goal) ==
  /\ decision[r] = "pending" /\ r \notin deciding
  /\ decision' = [decision EXCEPT ![r] = goal]
  /\ deciding' \in {deciding, deciding \cup {r}}
  /\ UNCHANGED <<twitch, reverted, effectVars>>

AnswerTwitch(r) ==
  /\ r \in deciding /\ twitch[r] = "UNFULFILLED" /\ decision[r] \in {"fulfilled", "refunded"}
  /\ reverted[r] = 0
  /\ twitch' = [twitch EXCEPT ![r] = AnswerFor(decision[r])]
  /\ deciding' \in {deciding, deciding \ {r}}
  /\ UNCHANGED <<decision, reverted, effectVars>>

TakePriceBack(r) ==
  /\ r \in deciding /\ decision[r] = "refunded" /\ reverted[r] = 0
  /\ reverted' = [reverted EXCEPT ![r] = 1]
  /\ deciding' \in {deciding, deciding \ {r}}
  /\ UNCHANGED <<twitch, decision, effectVars>>

\* A refund that did not get through is given up for now, while the price has not followed it.
Withdraw(r) ==
  /\ r \in deciding /\ decision[r] = "refunded" /\ reverted[r] = 0
  /\ decision' = [decision EXCEPT ![r] = "pending"]
  /\ deciding' = deciding \ {r}
  /\ UNCHANGED <<twitch, reverted, effectVars>>

\* A refund that Twitch does not take is given up for good.
Refuse(r) ==
  /\ r \in deciding /\ decision[r] = "refunded"
  /\ decision' = [decision EXCEPT ![r] = "refund_failed"]
  /\ deciding' = deciding \ {r}
  /\ UNCHANGED <<twitch, reverted, effectVars>>

\* Whoever decided is done, or fails, or the process stops.
LetGo ==
  /\ deciding' \subseteq deciding
  /\ UNCHANGED <<twitch, decision, reverted, effectVars>>

Next ==
  \/ \E r \in Redemptions :
       \/ Charge(r) \/ Handle(r) \/ Push(r) \/ Ask(r)
       \/ \E goal \in {"fulfilled", "refunded"} : Decide(r, goal)
       \/ AnswerTwitch(r) \/ TakePriceBack(r) \/ Withdraw(r) \/ Refuse(r)
  \/ LetGo

Spec == Init /\ [][Next]_outcomeVars
=============================================================================
