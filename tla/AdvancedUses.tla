---------------------------- MODULE AdvancedUses -----------------------------
(***************************************************************************)
(* Paid uses of an advanced command by one viewer: gates, caps, price and  *)
(* charge, the usage row, the push to the companion app and its answer,    *)
(* the refund by failure, timeout or restart, and everything else that     *)
(* moves the viewer's balance.  Each await is a step; database calls fail  *)
(* before or after they take effect.                                       *)
(***************************************************************************)
EXTENDS Naturals, FiniteSets, FiniteSetsExt

CONSTANTS
  Uses,               \* chat messages that name the command
  MAX_BALANCE,
  PointCost, PriceStep, MaxCost,
  MaxUsesPerStream,
  MaxUseUpsets        \* failed or lost database calls and restarts

VARIABLES
  balance,       \* loyalty_points.balance of the viewer
  uses,          \* each use: its handler, its usage row, its timer and the calls about it
  onCooldown,    \* the command's cooldown is running
  useUpsets

useVars == <<balance, uses, onCooldown, useUpsets>>

NewUse == [pc |-> "new", cost |-> 0, row |-> "none", timer |-> "none", ops |-> {}, pushed |-> "no",
           returned |-> 0, stray |-> "no"]
Sources == {"ack_ok", "ack_fail", "timeout", "no_companion", "sweep"}
Op(from, rearm) == [from |-> from, rearm |-> rearm]

UseUpset == useUpsets < MaxUseUpsets /\ useUpsets' = useUpsets + 1
Set(u, use) == uses' = [uses EXCEPT ![u] = use]

\* LEAST and GREATEST of the statement.
adjusted(delta) == IF balance + delta > MAX_BALANCE THEN MAX_BALANCE ELSE balance + delta

---------------------------------------------------------------------------

\* Bound: what else moves the balance is looked at while a use still depends on it.
Undecided == \E u \in Uses : uses[u].pc \in {"new", "caps", "charge"}

\* adjustBalance for messages, subs and prizes.
adjustBalance ==
  /\ balance < MAX_BALANCE /\ Undecided
  /\ balance' = adjusted(1)
  /\ UNCHANGED <<uses, onCooldown, useUpsets>>

\* One point: what larger bets do to the balance, several of these do.
Bets == {1}

\* The guarded debit and the payout are one transaction.
resolveGambleOutcome(bet, won) ==
  /\ balance >= bet /\ Undecided
  /\ balance' = IF won THEN Min({(balance - bet) + 2 * bet, MAX_BALANCE}) ELSE balance - bet
  /\ UNCHANGED <<uses, onCooldown, useUpsets>>

CooldownEnds == onCooldown /\ onCooldown' = FALSE /\ UNCHANGED <<balance, uses, useUpsets>>

checkChatGates(u) ==
  /\ uses[u].pc = "new"
  /\ \A v \in Uses : uses[v].pc = "new" => u <= v
  /\ Set(u, [uses[u] EXCEPT !.pc = IF onCooldown THEN "ended" ELSE "caps"])
  /\ UNCHANGED <<balance, onCooldown, useUpsets>>

\* countAdvancedCommandUses leaves refunded uses out.
Counted == {u \in Uses : uses[u].row \notin {"none", "refunded"}}
computeCommandCost == Min({PointCost + PriceStep * Cardinality(Counted), MaxCost})

\* The broadcaster does not pay.
capsAndCost(u) ==
  /\ uses[u].pc = "caps"
  /\ IF Cardinality(Counted) >= MaxUsesPerStream
     THEN Set(u, [uses[u] EXCEPT !.pc = "ended"])
     ELSE \E cost \in {0, computeCommandCost} : Set(u, [uses[u] EXCEPT !.pc = "charge", !.cost = cost])
  /\ UNCHANGED <<balance, onCooldown, useUpsets>>

\* spendBalance, and the cooldown that is claimed after it, left out when no use can meet it; a
\* lost reply loses the points.
charge(u) ==
  LET cost == uses[u].cost IN
  /\ uses[u].pc = "charge"
  /\ \/ /\ balance >= cost
        /\ balance' = balance - cost
        /\ Set(u, [uses[u] EXCEPT !.pc = "record"])
        /\ onCooldown' = (\E v \in Uses : uses[v].pc = "new")
        /\ UNCHANGED useUpsets
     \/ /\ balance < cost
        /\ Set(u, [uses[u] EXCEPT !.pc = "ended", !.cost = 0])
        /\ UNCHANGED <<balance, onCooldown, useUpsets>>
     \/ /\ UseUpset
        /\ balance >= cost /\ balance' \in {balance, balance - cost}
        /\ Set(u, [uses[u] EXCEPT !.pc = "ended"])
        /\ UNCHANGED onCooldown

\* A companion command's use waits for its acknowledgement.  An INSERT whose commit is reported
\* as a failure leaves a row nobody in this process knows of.
recordAdvancedCommandUsage(u) ==
  /\ uses[u].pc = "record"
  /\ \/ \E row \in {"pending", "no_ack_needed"} :
          /\ Set(u, [uses[u] EXCEPT !.row = row, !.pc = IF row = "pending" THEN "push" ELSE "ended"])
          /\ UNCHANGED useUpsets
     \/ UseUpset /\ Set(u, [uses[u] EXCEPT !.pc = "compensate"])
     \/ UseUpset /\ Set(u, [uses[u] EXCEPT !.pc = "compensate", !.row = "pending", !.stray = "unknown"])
  /\ UNCHANGED <<balance, onCooldown>>

\* fireUse's catch; when it fails too, the points are gone.
CreditBack(u) ==
  /\ uses[u].pc = "compensate"
  /\ \/ /\ balance' = adjusted(uses[u].cost)
        /\ Set(u, [uses[u] EXCEPT !.pc = "ended", !.returned = @ + 1])
        /\ UNCHANGED useUpsets
     \/ UseUpset /\ Set(u, [uses[u] EXCEPT !.pc = "ended"]) /\ UNCHANGED balance
  /\ UNCHANGED onCooldown

\* pushCompanion, and onPushed right after it; with no app connected the refund follows the chat
\* reply.
runAdvancedCommandEffects(u) ==
  /\ uses[u].pc = "push"
  /\ \/ Set(u, [uses[u] EXCEPT !.pc = "ended", !.pushed = "yes", !.timer = "ack"])
     \/ Set(u, [uses[u] EXCEPT !.pc = "ended", !.ops = @ \cup {Op("no_companion", "yes")}])
  /\ UNCHANGED <<balance, onCooldown, useUpsets>>

---------------------------------------------------------------------------

\* The companion app answers, perhaps twice and perhaps late; the timer goes before the database
\* is asked, and comes back if that fails.
acknowledgeAdvancedCommandUse(u, from) ==
  LET op == Op(from, IF uses[u].timer = "none" THEN "no" ELSE "yes") IN
  /\ uses[u].pushed = "yes"
  /\ op \notin uses[u].ops
  /\ Set(u, [uses[u] EXCEPT !.timer = "none", !.ops = @ \cup {op}])
  /\ UNCHANGED <<balance, onCooldown, useUpsets>>

\* scheduleRefund's timer; a progress ping only starts it again.
RefundTimerFires(u) ==
  /\ uses[u].timer # "none"
  /\ Set(u, [uses[u] EXCEPT !.timer = "none", !.ops = @ \cup {Op("timeout", "yes")}])
  /\ UNCHANGED <<balance, onCooldown, useUpsets>>

Outcome(op) == IF op.from = "ack_ok" THEN "succeeded" ELSE "refunded"

\* Mistake: the row is resolved whatever became of it.
AnyRow(u) == uses[u].row # "none"

IsPending(u) == uses[u].row = "pending"

\* resolveAdvancedCommandUsage: the row that is still pending, and the credit with it.
Resolved(u, op) ==
  IF IsPending(u)
  THEN [uses[u] EXCEPT !.row = Outcome(op), !.stray = IF @ = "unknown" THEN @ ELSE "no",
                       !.returned = IF Outcome(op) = "refunded" THEN @ + 1 ELSE @]
  ELSE uses[u]
Credit(u, op) == IF IsPending(u) /\ Outcome(op) = "refunded" THEN adjusted(uses[u].cost) ELSE balance

resolveAdvancedCommandUsage(u, op) ==
  /\ op \in uses[u].ops
  /\ Set(u, [Resolved(u, op) EXCEPT !.ops = @ \ {op}])
  /\ balance' = Credit(u, op)
  /\ UNCHANGED <<onCooldown, useUpsets>>

\* Mistake: a failed acknowledgement leaves the use without a timer.
AckForgetsTimer(u, op) == IF op.rearm = "yes" /\ op.from \notin {"ack_ok", "ack_fail"} THEN "retry" ELSE uses[u].timer

Rearmed(u, op) == IF op.rearm = "yes" THEN "retry" ELSE uses[u].timer

\* The call fails, with the transaction rolled back or committed.
ResolveFails(u, op) ==
  /\ op \in uses[u].ops
  /\ UseUpset
  /\ \/ Set(u, [uses[u] EXCEPT !.ops = @ \ {op}, !.timer = Rearmed(u, op)]) /\ UNCHANGED balance
     \/ Set(u, [Resolved(u, op) EXCEPT !.ops = @ \ {op}, !.timer = Rearmed(u, op)]) /\ balance' = Credit(u, op)
  /\ UNCHANGED onCooldown

\* The process ends; the next one refunds what is pending, unless it cannot list it.
sweepPendingAdvancedCommandUsage ==
  /\ \E u \in Uses : uses[u].pc \notin {"new", "ended"} \/ uses[u].timer # "none" \/ uses[u].ops # {}
                     \/ uses[u].stray # "no"
  /\ UseUpset
  /\ \E listed \in {"yes", "no"} :
       uses' = [u \in Uses |->
         [uses[u] EXCEPT !.pc = IF @ = "new" THEN "new" ELSE "ended", !.timer = "none",
                         !.stray = IF @ = "unknown" THEN @
                                   ELSE IF uses[u].row # "pending" \/ listed = "yes" THEN "no" ELSE "unswept",
                         !.ops = IF uses[u].row = "pending" /\ listed = "yes" THEN {Op("sweep", "yes")} ELSE {}]]
  /\ onCooldown' = FALSE
  /\ UNCHANGED balance

UsesInit ==
  /\ balance = 0
  /\ uses = [u \in Uses |-> NewUse]
  /\ onCooldown = FALSE
  /\ useUpsets = 0

\* A use's own next step.
UseGoesOn(u) ==
  \/ checkChatGates(u) \/ capsAndCost(u) \/ charge(u) \/ recordAdvancedCommandUsage(u) \/ CreditBack(u)
  \/ runAdvancedCommandEffects(u) \/ RefundTimerFires(u)
  \/ \E op \in uses[u].ops : resolveAdvancedCommandUsage(u, op)

UsesNext ==
  \/ adjustBalance
  \/ \E bet \in Bets, won \in BOOLEAN : resolveGambleOutcome(bet, won)
  \/ CooldownEnds
  \/ \E u \in Uses :
       \/ UseGoesOn(u)
       \/ \E from \in {"ack_ok", "ack_fail"} : acknowledgeAdvancedCommandUse(u, from)
       \/ \E op \in uses[u].ops : ResolveFails(u, op)
  \/ sweepPendingAdvancedCommandUsage

---------------------------------------------------------------------------

\* Variables hold what the code keeps in them.
UsesTypeOK ==
  /\ balance \in 0..MAX_BALANCE
  /\ \A u \in Uses :
       /\ uses[u].cost \in 0..MaxCost
       /\ uses[u].ops \subseteq [from : Sources, rearm : {"yes", "no"}]
  /\ useUpsets \in 0..MaxUseUpsets

\* A viewer gets the points of a use back at most once, and exactly when the use is refunded or
\* was never recorded: acknowledgements, timeouts, retries and sweeps of the same use do not add
\* up.  Uses whose row was inserted by a call that reported a failure are left out: they are
\* credited at once and swept again after a restart.
RefundedOnce ==
  \A u \in Uses :
    \/ uses[u].row = "refunded" /\ uses[u].returned = 1
    \/ uses[u].row \in {"pending", "succeeded", "no_ack_needed"} /\ uses[u].returned = 0
    \/ uses[u].row = "none" /\ uses[u].returned <= 1
    \/ uses[u].stray = "unknown"

\* No use waits for its companion app: what it comes to, for each succeeds or is refunded, however
\* the database behaves for a while.  (A row that the start-up could not list
\* waits for the next start.)
UsesAreResolved == \A u \in Uses : uses[u].row = "pending" => uses[u].stray # "no"
===============================================================================
