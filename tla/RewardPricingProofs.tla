-------------------------- MODULE RewardPricingProofs --------------------------
(***************************************************************************)
(* Proofs about RewardPricing, for any number of redemptions, saves,       *)
(* failures and restarts, any curve and any prices.                        *)
(***************************************************************************)
EXTENDS RewardPricing, TLAPS

-----------------------------------------------------------------------------
(* What the operators return                                               *)

LEMMA ClampType == ASSUME NEW x \in Int PROVE Clamp(x, 0, Full) \in Demands
BY FullAssumption DEF Clamp, Demands

LEMMA RoundedType == ASSUME NEW n \in Nat, NEW d \in Nat \ {0} PROVE Rounded(n, d) \in Nat
<1>1. 2 * n + d \in Nat /\ 2 * d \in Nat \ {0}
  OBVIOUS
<1> QED
  BY <1>1 DEF Rounded

\* Every price is a number of points that Twitch can show.
LEMMA PriceType ==
  ASSUME NEW d \in Demands, NEW cfg \in Configs
  PROVE  computePrice(d, cfg) \in Costs
<1> DEFINE u == Clamp(d, 0, Full)
           n == cfg.base * (Full * Full + Curve[u] * cfg.mult)
           m == Full * Full
<1>1. cfg.base \in Nat \ {0} /\ cfg.mult \in Nat /\ cfg.step \in Nat
  BY DEF Configs
<1>2. u \in Demands
  BY ClampType, FullAssumption DEF Demands
<1>3. Curve[u] \in Nat
  BY <1>2, CurveAssumption, FullAssumption DEF Demands
<1>4. m \in Nat \ {0}
  BY FullAssumption
<1>5. Curve[u] * cfg.mult \in Nat
  BY <1>1, <1>3
<1>6. m + Curve[u] * cfg.mult \in Nat
  BY <1>4, <1>5
<1>7. n \in Nat
  BY <1>1, <1>6
<1>8. CASE cfg.step > 0
  <2>1. m * cfg.step \in Nat \ {0}
    BY <1>1, <1>4, <1>8
  <2>2. Rounded(n, m * cfg.step) \in Nat
    BY <1>7, <2>1, RoundedType
  <2>3. Rounded(n, m * cfg.step) * cfg.step \in Nat
    BY <1>1, <2>2
  <2>4. HighestPrice(cfg) \in Nat
    <3>1. cfg.base * (Full + cfg.mult) \in Nat
      BY <1>1, FullAssumption
    <3> QED
      BY <3>1, FullAssumption DEF HighestPrice
  <2> QED
    BY <1>1, <1>8, <2>3, <2>4 DEF computePrice, Clamp, Costs
<1>9. CASE ~(cfg.step > 0)
  <2>1. Rounded(n, m) \in Nat
    BY <1>4, <1>7, RoundedType
  <2> QED
    BY <1>9, <2>1 DEF computePrice, Costs
<1> QED
  BY <1>8, <1>9

LEMMA DecayType ==
  ASSUME NEW d \in Nat, NEW h \in HalfLives
  PROVE  decayDemand(d, h) \in Demands
<1>1. d \div (2 ^ h) \in Int
  BY PowersAssumption
<1> QED
  BY <1>1, ClampType DEF decayDemand

LEMMA NewDemandsType ==
  ASSUME seen \in Rows, NEW op \in Ops
  PROVE  NewDemands(op) \subseteq Demands
<1>1. seen.demand \in Demands /\ seen.demand \in Nat
  BY FullAssumption DEF Rows, Demands
<1>2. ASSUME NEW h \in HalfLives PROVE applyRedemption(seen.demand, h, Increment) \in Demands
  <2>1. decayDemand(seen.demand, h) \in Demands
    BY <1>1, DecayType
  <2>2. decayDemand(seen.demand, h) + Increment \in Int
    BY <2>1, IncrementAssumption, FullAssumption DEF Demands
  <2> QED
    BY <2>2, ClampType DEF applyRedemption
<1>3. ASSUME NEW h \in HalfLives, NEW since \in HalfLives
      PROVE  revertRedemption(seen.demand, h, Increment, since) \in Demands
  <2>1. decayDemand(seen.demand, h) \in Demands /\ decayDemand(Increment, since) \in Demands
    BY <1>1, DecayType, IncrementAssumption
  <2>2. decayDemand(seen.demand, h) - decayDemand(Increment, since) \in Int
    BY <2>1, FullAssumption DEF Demands
  <2> QED
    BY <2>2, ClampType DEF revertRedemption
<1>4. ASSUME NEW h \in HalfLives PROVE decayDemand(seen.demand, h) \in Demands
  BY <1>1, DecayType
<1> QED
  BY <1>2, <1>3, <1>4 DEF NewDemands

LEMMA AppendFacts ==
  ASSUME NEW S, NEW q \in Seq(S), NEW x \in S
  PROVE  /\ Append(q, x) \in Seq(S) /\ Len(Append(q, x)) = Len(q) + 1 /\ Append(q, x) # <<>>
         /\ \A i \in 1 .. Len(q) : Append(q, x)[i] = q[i]
         /\ Append(q, x)[Len(q) + 1] = x
         /\ q # <<>> => Head(Append(q, x)) = Head(q)
<1>1. /\ Append(q, x) \in Seq(S) /\ Len(Append(q, x)) = Len(q) + 1 /\ Len(q) \in Nat
      /\ \A i \in 1 .. Len(q) : Append(q, x)[i] = q[i]
      /\ Append(q, x)[Len(q) + 1] = x
  OBVIOUS
<1>2. Append(q, x) # <<>>
  BY <1>1
<1>3. ASSUME q # <<>> PROVE Head(Append(q, x)) = Head(q)
  <2>1. Len(q) >= 1
    BY <1>1, <1>3
  <2> QED
    BY <1>1, <2>1
<1> QED
  BY <1>1, <1>2, <1>3

LEMMA TailFacts ==
  ASSUME NEW S, NEW q \in Seq(S), q # <<>>
  PROVE  /\ Head(q) \in S /\ Head(q) = q[1] /\ Len(q) \in Nat \ {0}
         /\ Tail(q) \in Seq(S) /\ Len(Tail(q)) = Len(q) - 1
         /\ \A i \in 1 .. Len(Tail(q)) : Tail(q)[i] = q[i + 1]
OBVIOUS

-----------------------------------------------------------------------------
(* The inductive invariant                                                 *)

\* An operation past its first step is the head of the queue, and of the kind that has this step; a
\* redemption's or a refund's operation names the redemption.
QueueInv ==
  /\ step # "start" => queue # <<>>
  /\ step = "resetCost" => Running.kind = "reset"
  /\ \A i \in 1 .. Len(queue) : queue[i].kind \in {"redemption", "revert"} => queue[i].id \in Redemptions

\* An increment that was recorded is in the ledger, and a redemption's operation that is past its
\* check is not: nothing else in the queue runs meanwhile.
PricedInv ==
  /\ \A r \in Redemptions : applied[r] <= 1 /\ (applied[r] = 1 => r \in ledger)
  /\ step \in {"push", "unsupport", "record"} /\ Running.kind = "redemption" => Running.id \notin ledger

\* One tick is in the queue while the scheduler applies one; polling goes on by the timer, or,
\* while the database shuts down, by the probe and the load it starts.
SchedulerInv ==
  /\ \A i \in 1 .. Len(queue) : queue[i].kind = "tick" => sched.tick = "applying"
  /\ \A i, j \in 1 .. Len(queue) : queue[i].kind = "tick" /\ queue[j].kind = "tick" => i = j
  /\ sched.tick = "applying" => sched.awaiting = "no"
  /\ sched.phase = "up" =>
       IF sched.awaiting = "no" THEN sched.timer = "on" ELSE sched.probe = "on" \/ sched.tick = "loading"

\* A decay that is about to change the cost has found no push pending, and none comes meanwhile.
DeferralInv == step = "push" /\ Running.kind \in DecayKinds => push = "none"

IInv == TypeOK /\ QueueInv /\ PricedInv /\ SchedulerInv /\ DeferralInv

LEMMA InitInv == Init => IInv
<1> SUFFICES ASSUME Init PROVE IInv
  OBVIOUS
<1> USE DEF Init
<1>1. FirstConfig \in Configs /\ FirstConfig.base \in Nat
  BY ConfigAssumption DEF Configs
<1>2. NoRow \in Rows /\ row \in Rows
  BY <1>1, FullAssumption DEF NoRow, Rows, RowStates, Demands, Costs
<1>3. NoResult \in Results
  BY FullAssumption DEF NoResult, Results, Demands, Costs
<1>4. TypeOK
  BY <1>1, <1>2, <1>3, EventsAssumption DEF TypeOK, Steps, CallerStates, SchedStates, Costs
<1>5. QueueInv /\ PricedInv /\ SchedulerInv /\ DeferralInv
  BY DEF QueueInv, PricedInv, SchedulerInv, DeferralInv
<1> QED
  BY <1>4, <1>5 DEF IInv

-----------------------------------------------------------------------------
(* What joins the queue and what leaves it                                 *)

\* An operation that is queued changes nothing for the one that runs.
LEMMA EnqueueKeepsInv ==
  ASSUME IInv, NEW op \in Ops, Enqueue(op), UNCHANGED <<step, ledger, applied>>,
         op.kind \in {"redemption", "revert"} => op.id \in Redemptions,
         push' \in {"none", push}
  PROVE  /\ queue' \in Seq(Ops) /\ QueueInv' /\ PricedInv' /\ DeferralInv'
         /\ \A i \in 1 .. Len(queue') : queue'[i] = IF i = Len(queue) + 1 THEN op ELSE queue[i]
         /\ Len(queue') = Len(queue) + 1 /\ Len(queue) \in Nat
<1>1. queue \in Seq(Ops) /\ queue' = Append(queue, op)
  BY DEF IInv, TypeOK, Enqueue
<1>2. /\ queue' \in Seq(Ops) /\ Len(queue') = Len(queue) + 1 /\ Len(queue) \in Nat /\ queue' # <<>>
      /\ \A i \in 1 .. Len(queue) : queue'[i] = queue[i]
      /\ queue'[Len(queue) + 1] = op
      /\ queue # <<>> => Running' = Running
  BY <1>1, AppendFacts DEF Running
<1>3. \A i \in 1 .. Len(queue') : queue'[i] = IF i = Len(queue) + 1 THEN op ELSE queue[i]
  BY <1>2
<1>4. step # "start" => queue # <<>>
  BY DEF IInv, QueueInv
<1>5. QueueInv'
  BY <1>2, <1>3, <1>4 DEF IInv, QueueInv
<1>6. PricedInv'
  BY <1>2, <1>4 DEF IInv, PricedInv
<1>7. DeferralInv'
  BY <1>2, <1>4 DEF IInv, DeferralInv
<1> QED
  BY <1>2, <1>3, <1>5, <1>6, <1>7

\* The same for an operation that is no tick, and with the scheduler as it was.
LEMMA EnqueueKeepsScheduler ==
  ASSUME IInv, NEW op \in Ops, Enqueue(op), op.kind # "tick", UNCHANGED sched
  PROVE  SchedulerInv'
<1>1. queue \in Seq(Ops) /\ queue' = Append(queue, op)
  BY DEF IInv, TypeOK, Enqueue
<1>2. /\ Len(queue') = Len(queue) + 1 /\ Len(queue) \in Nat
      /\ \A i \in 1 .. Len(queue) : queue'[i] = queue[i]
      /\ queue'[Len(queue) + 1] = op
  BY <1>1, AppendFacts
<1>3. ASSUME NEW i \in 1 .. Len(queue'), queue'[i].kind = "tick"
      PROVE  i \in 1 .. Len(queue) /\ queue[i].kind = "tick"
  BY <1>2, <1>3
<1> QED
  BY <1>3 DEF IInv, SchedulerInv

\* An operation that ends leaves the others as they were.
LEMMA FinishKeepsInv ==
  ASSUME IInv, queue # <<>>, NEW outcome, Finish(outcome), ledger \subseteq ledger',
         \A r \in Redemptions : applied'[r] <= 1 /\ (applied'[r] = 1 => r \in ledger')
  PROVE  /\ queue' \in Seq(Ops) /\ step' \in Steps /\ seen' \in Rows /\ result' \in Results
         /\ caller' \in [Redemptions -> CallerStates] /\ sched' \in SchedStates
         /\ QueueInv' /\ PricedInv' /\ SchedulerInv' /\ DeferralInv'
<1>1. /\ queue \in Seq(Ops) /\ queue' = Tail(queue) /\ step' = "start"
      /\ seen' = NoRow /\ result' = NoResult
      /\ caller \in [Redemptions -> CallerStates] /\ sched \in SchedStates
  BY DEF IInv, TypeOK, Finish
<1>2. /\ Running \in Ops /\ Running = queue[1] /\ Len(queue) \in Nat \ {0}
      /\ queue' \in Seq(Ops) /\ Len(queue') = Len(queue) - 1
      /\ \A i \in 1 .. Len(queue') : queue'[i] = queue[i + 1]
  BY <1>1, TailFacts DEF Running
<1>3. seen' \in Rows /\ result' \in Results
  BY <1>1, ConfigAssumption, FullAssumption DEF NoRow, Rows, RowStates, NoResult, Results, Demands, Costs
<1>4. caller' \in [Redemptions -> CallerStates]
  <2>1. caller' = CallerAfter(Running, outcome)
    BY DEF Finish
  <2> QED
    BY <1>1, <2>1 DEF CallerAfter, CallerStates
<1>5. sched' \in SchedStates
  BY <1>1 DEF Finish, SchedStates
<1>6. QueueInv' /\ PricedInv' /\ DeferralInv'
  BY <1>1, <1>2 DEF IInv, QueueInv, PricedInv, DeferralInv
<1>7. SchedulerInv'
  <2>1. ASSUME NEW i \in 1 .. Len(queue') PROVE i + 1 \in 1 .. Len(queue) /\ queue'[i] = queue[i + 1]
    BY <1>2
  <2>2. ASSUME NEW i \in 1 .. Len(queue'), NEW j \in 1 .. Len(queue'), queue'[i].kind = "tick", queue'[j].kind = "tick"
        PROVE  i = j
    <3>1. i + 1 = j + 1
      BY <2>1, <2>2 DEF IInv, SchedulerInv
    <3> QED
      BY <3>1, <1>2
  <2>3. CASE Running.kind = "tick"
    <3>1. sched' = [sched EXCEPT !.tick = "idle"] /\ sched.tick = "applying"
      BY <1>2, <2>3 DEF Finish, IInv, SchedulerInv
    <3>2. ASSUME NEW i \in 1 .. Len(queue') PROVE queue'[i].kind # "tick"
      <4>1. 1 \in 1 .. Len(queue) /\ queue[1].kind = "tick" /\ i + 1 # 1
        BY <1>2, <2>3
      <4> QED
        BY <2>1, <4>1 DEF IInv, SchedulerInv
    <3>3. /\ sched'.tick = "idle" /\ sched'.awaiting = "no" /\ sched'.phase = sched.phase
          /\ sched'.timer = sched.timer
      BY <1>1, <3>1 DEF IInv, SchedulerInv, SchedStates
    <3> QED
      BY <2>2, <3>1, <3>2, <3>3 DEF IInv, SchedulerInv
  <2>4. CASE Running.kind # "tick"
    <3>1. sched' = sched
      BY <2>4 DEF Finish
    <3> QED
      BY <2>1, <2>2, <3>1 DEF IInv, SchedulerInv
  <2> QED
    BY <2>3, <2>4
<1> QED
  BY <1>1, <1>2, <1>3, <1>4, <1>5, <1>6, <1>7 DEF Steps

-----------------------------------------------------------------------------
(* The actions                                                             *)

LEMMA RedemptionTypes ==
  ASSUME NEW r \in Redemptions
  PROVE  Op("redemption", r) \in Ops /\ Op("revert", r) \in Ops
BY DEF Op, Ops, Kinds

LEMMA OtherTypes ==
  ASSUME NEW kind \in {"tick", "deferred", "resync", "reset", "delete"}
  PROVE  Op(kind, None) \in Ops /\ Op(kind, None).kind = kind
BY DEF Op, Ops, Kinds

LEMMA UseEventType == ASSUME IInv, UseEvent \/ UNCHANGED used PROVE used' \in 0 .. MaxEvents
BY EventsAssumption DEF IInv, TypeOK, UseEvent

LEMMA CallersKeepInv ==
  ASSUME IInv, NEW r \in Redemptions, Redeem(r) \/ Refund(r)
  PROVE  IInv'
<1>1. PICK kind \in {"redemption", "revert"} : Enqueue(Op(kind, r)) /\ Op(kind, r) \in Ops
  BY RedemptionTypes DEF Redeem, Refund
<1>2. Op(kind, r).kind = kind /\ Op(kind, r).id = r
  BY DEF Op
<1>3. UNCHANGED <<row, ledger, twitch, foreign, step, seen, result, push, window, sched, applied, used>>
  BY DEF Redeem, Refund
<1>4. queue' \in Seq(Ops) /\ QueueInv' /\ PricedInv' /\ DeferralInv'
  BY <1>1, <1>2, <1>3, EnqueueKeepsInv
<1>5. SchedulerInv'
  BY <1>1, <1>2, <1>3, EnqueueKeepsScheduler
<1>6. caller' \in [Redemptions -> CallerStates]
  BY DEF IInv, TypeOK, Redeem, Refund, CallerStates
<1> QED
  BY <1>3, <1>4, <1>5, <1>6 DEF IInv, TypeOK

LEMMA PushTimerKeepsInv == ASSUME IInv, PushTimerFires PROVE IInv'
<1>1. Enqueue(Op("deferred", None)) /\ push' = "none"
  BY DEF PushTimerFires
<1>2. UNCHANGED <<row, ledger, twitch, foreign, step, seen, result, window, caller, sched, applied, used>>
  BY DEF PushTimerFires
<1>3. queue' \in Seq(Ops) /\ QueueInv' /\ PricedInv' /\ DeferralInv'
  BY <1>1, <1>2, OtherTypes, EnqueueKeepsInv
<1>4. SchedulerInv'
  BY <1>1, <1>2, OtherTypes, EnqueueKeepsScheduler
<1> QED
  BY <1>1, <1>2, <1>3, <1>4 DEF IInv, TypeOK

LEMMA PanelKeepsInv == ASSUME IInv, SaveConfig \/ AskRemoval PROVE IInv'
<1>1. PICK kind \in {"resync", "reset", "delete"} : Enqueue(Op(kind, None))
  BY DEF SaveConfig, AskRemoval
<1>2. UNCHANGED <<ledger, twitch, foreign, step, seen, result, push, window, caller, sched, applied>>
  BY DEF SaveConfig, AskRemoval
<1>3. queue' \in Seq(Ops) /\ QueueInv' /\ PricedInv' /\ DeferralInv'
  BY <1>1, <1>2, OtherTypes, EnqueueKeepsInv
<1>4. SchedulerInv'
  BY <1>1, <1>2, OtherTypes, EnqueueKeepsScheduler
<1>5. used' \in 0 .. MaxEvents
  BY UseEventType DEF SaveConfig, AskRemoval
<1>6. row' \in Rows
  <2>1. CASE SaveConfig
    <3>1. PICK cfg \in PanelConfigs, state \in {"on", "off"} :
            row' = IF row.state = "absent"
                     THEN [state |-> state, cfg |-> cfg, demand |-> 0, pushed |-> None, last |-> None]
                     ELSE [row EXCEPT !.state = state, !.cfg = cfg]
      BY <2>1 DEF SaveConfig
    <3>2. cfg \in Configs /\ 0 \in Demands /\ state \in RowStates
      BY ConfigAssumption, FullAssumption DEF Demands, RowStates
    <3> QED
      BY <3>1, <3>2 DEF IInv, TypeOK, Rows
  <2>2. CASE AskRemoval
    BY <2>2 DEF AskRemoval, IInv, TypeOK
  <2> QED
    BY <2>1, <2>2
<1> QED
  BY <1>2, <1>3, <1>4, <1>5, <1>6 DEF IInv, TypeOK

\* Nothing but the scheduler's state, or the push window, changes.
LEMMA SchedulerStepKeepsInv ==
  ASSUME IInv, WindowPasses \/ TickTimerFires \/ ProbeFires \/ TickLoadFails \/ StopScheduler \/ SchedulerStopped
  PROVE  IInv'
<1>1. UNCHANGED <<row, ledger, twitch, foreign, queue, step, seen, result, caller, applied>>
  BY DEF WindowPasses, TickTimerFires, ProbeFires, TickLoadFails, StopScheduler, SchedulerStopped
<1>2. push' \in {"none", push} /\ window' \in {"open", "closed"} /\ used' \in 0 .. MaxEvents
  BY UseEventType
  DEF IInv, TypeOK, WindowPasses, TickTimerFires, ProbeFires, TickLoadFails, StopScheduler, SchedulerStopped
<1>3. sched \in SchedStates
  BY DEF IInv, TypeOK
<1>4. sched' \in SchedStates
  BY <1>3
  DEF WindowPasses, TickTimerFires, ProbeFires, TickLoadFails, Paused, StopScheduler, SchedulerStopped, SchedStates
<1>5. QueueInv' /\ PricedInv' /\ DeferralInv'
  BY <1>1, <1>2 DEF IInv, QueueInv, PricedInv, DeferralInv, Running
<1>6. /\ sched.tick = "applying" => sched'.tick = "applying"
      /\ sched'.tick = "applying" => sched'.awaiting = "no"
      /\ sched'.phase = "up" =>
           IF sched'.awaiting = "no" THEN sched'.timer = "on" ELSE sched'.probe = "on" \/ sched'.tick = "loading"
  <2>1. CASE WindowPasses
    BY <2>1 DEF WindowPasses, IInv, SchedulerInv
  <2>2. CASE TickTimerFires
    BY <1>3, <2>2 DEF TickTimerFires, IInv, SchedulerInv, SchedStates
  <2>3. CASE ProbeFires
    BY <1>3, <2>3 DEF ProbeFires, IInv, SchedulerInv, SchedStates
  <2>4. CASE TickLoadFails
    BY <1>3, <2>4 DEF TickLoadFails, Paused, IInv, SchedulerInv, SchedStates
  <2>5. CASE StopScheduler
    BY <1>3, <2>5 DEF StopScheduler, IInv, SchedulerInv, SchedStates
  <2>6. CASE SchedulerStopped
    BY <1>3, <2>6 DEF SchedulerStopped, IInv, SchedulerInv, SchedStates
  <2> QED
    BY <2>1, <2>2, <2>3, <2>4, <2>5, <2>6
<1>7. SchedulerInv'
  BY <1>1, <1>6 DEF IInv, SchedulerInv
<1> QED
  BY <1>1, <1>2, <1>4, <1>5, <1>7 DEF IInv, TypeOK

LEMMA TickLoadsKeepsInv == ASSUME IInv, TickLoads PROVE IInv'
<1>1. UNCHANGED <<row, ledger, twitch, foreign, step, seen, result, push, window, caller, applied, used>>
  BY DEF TickLoads
<1>2. /\ sched \in SchedStates /\ sched.tick = "loading"
      /\ sched' = [sched EXCEPT !.awaiting = "no",
                                !.timer = IF sched.awaiting = "yes" /\ sched.phase = "up" THEN "on" ELSE @,
                                !.tick = IF row.state = "on" THEN "applying" ELSE "idle"]
  BY DEF TickLoads, IInv, TypeOK
<1>3. /\ sched' \in SchedStates /\ sched'.awaiting = "no"
      /\ sched'.phase = "up" => sched'.timer = "on"
      /\ sched'.tick = IF row.state = "on" THEN "applying" ELSE "idle"
  BY <1>2 DEF SchedStates, IInv, SchedulerInv
<1>4. \A i \in 1 .. Len(queue) : queue[i].kind # "tick"
  BY <1>2 DEF IInv, SchedulerInv
<1>5. CASE row.state = "on"
  <2>1. Enqueue(Op("tick", None))
    BY <1>5 DEF TickLoads
  <2>2. /\ queue' \in Seq(Ops) /\ QueueInv' /\ PricedInv' /\ DeferralInv'
        /\ \A i \in 1 .. Len(queue') : queue'[i] = IF i = Len(queue) + 1 THEN Op("tick", None) ELSE queue[i]
        /\ Len(queue') = Len(queue) + 1 /\ Len(queue) \in Nat
    BY <1>1, <2>1, OtherTypes, EnqueueKeepsInv
  <2>3. ASSUME NEW i \in 1 .. Len(queue'), queue'[i].kind = "tick" PROVE i = Len(queue) + 1
    BY <1>4, <2>2, <2>3
  <2>4. SchedulerInv'
    BY <1>3, <1>5, <2>3 DEF SchedulerInv
  <2> QED
    BY <1>1, <1>3, <2>2, <2>4 DEF IInv, TypeOK
<1>6. CASE row.state # "on"
  <2>1. queue' = queue
    BY <1>6 DEF TickLoads
  <2>2. QueueInv' /\ PricedInv' /\ DeferralInv'
    BY <1>1, <2>1 DEF IInv, QueueInv, PricedInv, DeferralInv, Running
  <2>3. SchedulerInv'
    BY <1>3, <1>4, <1>6, <2>1 DEF SchedulerInv
  <2> QED
    BY <1>1, <1>3, <2>1, <2>2, <2>3 DEF IInv, TypeOK
<1> QED
  BY <1>5, <1>6

LEMMA RestartKeepsInv == ASSUME IInv, Restart PROVE IInv'
<1>1. /\ queue' = <<>> /\ step' = "start" /\ seen' = NoRow /\ result' = NoResult /\ push' = "none" /\ window' = "open"
      /\ UNCHANGED <<row, ledger, twitch, foreign, applied>>
  BY DEF Restart
<1>2. used' \in 0 .. MaxEvents
  BY UseEventType DEF Restart
<1>3. seen' \in Rows /\ result' \in Results
  BY <1>1, ConfigAssumption, FullAssumption DEF NoRow, Rows, RowStates, NoResult, Results, Demands, Costs
<1>4. caller' \in [Redemptions -> CallerStates]
  BY DEF Restart, IInv, TypeOK, CallerStates
<1>5. sched' = [timer |-> "on", probe |-> "off", awaiting |-> "no", tick |-> "idle", phase |-> "up"]
  BY DEF Restart
<1>6. QueueInv' /\ PricedInv' /\ DeferralInv' /\ SchedulerInv'
  BY <1>1, <1>5 DEF IInv, QueueInv, PricedInv, DeferralInv, SchedulerInv
<1>7. TypeOK'
  BY <1>1, <1>2, <1>3, <1>4, <1>5 DEF IInv, TypeOK, Steps, SchedStates
<1> QED
  BY <1>6, <1>7 DEF IInv

-----------------------------------------------------------------------------
(* The running operation                                                   *)

\* An operation that goes on to a step it may take leaves the queue and the scheduler alone.
LEMMA GoToKeepsInv ==
  ASSUME IInv, queue # <<>>, NEW s \in Steps, GoTo(s), UNCHANGED <<ledger, applied>>,
         s = "resetCost" => Running.kind = "reset",
         s \in {"push", "unsupport", "record"} /\ Running.kind = "redemption" => Running.id \notin ledger,
         s = "push" /\ Running.kind \in DecayKinds => push' = "none"
  PROVE  /\ queue' \in Seq(Ops) /\ step' \in Steps
         /\ caller' \in [Redemptions -> CallerStates] /\ sched' \in SchedStates
         /\ QueueInv' /\ PricedInv' /\ SchedulerInv' /\ DeferralInv'
<1>1. step' = s /\ UNCHANGED <<queue, caller, sched>> /\ Running' = Running
  BY DEF GoTo, Running
<1>2. QueueInv' /\ PricedInv' /\ DeferralInv'
  BY <1>1 DEF IInv, QueueInv, PricedInv, DeferralInv
<1>3. SchedulerInv'
  BY <1>1 DEF IInv, SchedulerInv
<1> QED
  BY <1>1, <1>2, <1>3 DEF IInv, TypeOK

LEMMA RunningType ==
  ASSUME IInv, queue # <<>>
  PROVE  Running \in Ops /\ (Running.kind \in {"redemption", "revert"} => Running.id \in Redemptions)
<1>1. queue \in Seq(Ops)
  BY DEF IInv, TypeOK
<1>2. Running \in Ops /\ Running = queue[1] /\ 1 \in 1 .. Len(queue)
  BY <1>1, TailFacts DEF Running
<1> QED
  BY <1>2 DEF IInv, QueueInv

\* The ledger and the increments as they are satisfy what FinishKeepsInv asks.
LEMMA PricedFacts ==
  ASSUME IInv, UNCHANGED <<ledger, applied>>
  PROVE  /\ ledger \subseteq ledger'
         /\ \A r \in Redemptions : applied'[r] <= 1 /\ (applied'[r] = 1 => r \in ledger')
BY DEF IInv, PricedInv

LEMMA ReadRowKeepsInv == ASSUME IInv, ReadRow PROVE IInv'
<1>1. /\ queue # <<>> /\ step = "start"
      /\ UNCHANGED <<row, ledger, twitch, foreign, push, window, applied, used>>
  BY DEF ReadRow, At
<1>2. CASE row.state = "on"
  <2>1. seen' = row /\ GoTo("compute") /\ UNCHANGED result
    BY <1>2 DEF ReadRow
  <2>2. /\ queue' \in Seq(Ops) /\ step' \in Steps
        /\ caller' \in [Redemptions -> CallerStates] /\ sched' \in SchedStates
        /\ QueueInv' /\ PricedInv' /\ SchedulerInv' /\ DeferralInv'
    BY <1>1, <2>1, GoToKeepsInv DEF Steps
  <2> QED
    BY <1>1, <2>1, <2>2 DEF IInv, TypeOK
<1>3. CASE row.state # "on"
  <2>1. Finish("done")
    BY <1>3 DEF ReadRow
  <2>2. /\ queue' \in Seq(Ops) /\ step' \in Steps /\ seen' \in Rows /\ result' \in Results
        /\ caller' \in [Redemptions -> CallerStates] /\ sched' \in SchedStates
        /\ QueueInv' /\ PricedInv' /\ SchedulerInv' /\ DeferralInv'
    BY <1>1, <2>1, PricedFacts, FinishKeepsInv
  <2> QED
    BY <1>1, <2>2 DEF IInv, TypeOK
<1> QED
  BY <1>2, <1>3

LEMMA ReadFailsKeepsInv == ASSUME IInv, ReadFails PROVE IInv'
<1>1. /\ queue # <<>> /\ Finish("failed") /\ UseEvent
      /\ UNCHANGED <<row, ledger, twitch, foreign, push, window, applied>>
  BY DEF ReadFails, At
<1>2. /\ queue' \in Seq(Ops) /\ step' \in Steps /\ seen' \in Rows /\ result' \in Results
      /\ caller' \in [Redemptions -> CallerStates] /\ sched' \in SchedStates
      /\ QueueInv' /\ PricedInv' /\ SchedulerInv' /\ DeferralInv'
  BY <1>1, PricedFacts, FinishKeepsInv
<1> QED
  BY <1>1, <1>2, UseEventType DEF IInv, TypeOK

LEMMA SkipPricedKeepsInv == ASSUME IInv, SkipPriced PROVE IInv'
<1>1. /\ queue # <<>> /\ Running.kind = "redemption" /\ Finish("done")
      /\ ledger' = ledger \cup {Running.id}
      /\ UNCHANGED <<row, twitch, foreign, push, window, applied, used>>
  BY DEF SkipPriced, At
<1>2. Running.id \in Redemptions
  BY <1>1, RunningType
<1>3. \A r \in Redemptions : applied'[r] <= 1 /\ (applied'[r] = 1 => r \in ledger')
  BY <1>1 DEF IInv, PricedInv
<1>4. ledger \subseteq ledger'
  BY <1>1
<1>5. /\ queue' \in Seq(Ops) /\ step' \in Steps /\ seen' \in Rows /\ result' \in Results
      /\ caller' \in [Redemptions -> CallerStates] /\ sched' \in SchedStates
      /\ QueueInv' /\ PricedInv' /\ SchedulerInv' /\ DeferralInv'
  BY <1>1, <1>3, <1>4, FinishKeepsInv
<1>6. ledger' \subseteq Redemptions
  BY <1>1, <1>2 DEF IInv, TypeOK
<1> QED
  BY <1>1, <1>5, <1>6 DEF IInv, TypeOK

\* The demand and the cost are in range; a redemption passed the ledger's check, and a decay that
\* goes on to push has seen that no push is pending.
LEMMA ComputeKeepsInv == ASSUME IInv, Compute PROVE IInv'
<1>1. /\ queue # <<>>
      /\ Running.kind = "redemption" => Running.id \notin ledger
      /\ UNCHANGED <<row, ledger, twitch, foreign, seen, window, applied, used>>
  BY DEF Compute, At, AlreadyPriced
<1>2. seen \in Rows /\ push \in {"none", "pending"}
  BY DEF IInv, TypeOK
<1>3. PICK d \in NewDemands(Running) :
        LET cost == computePrice(d, seen.cfg)
        IN  /\ result' = [demand |-> d, cost |-> cost, pushed |-> seen.pushed]
            /\ push' = IF cost # seen.pushed /\ isPushDeferred(Running.kind) THEN "pending" ELSE push
            /\ GoTo(IF cost = seen.pushed \/ isPushDeferred(Running.kind) \/ window = "closed"
                      THEN "record" ELSE "push")
  BY DEF Compute
<1>4. d \in Demands /\ seen.cfg \in Configs /\ seen.pushed \in Costs \cup {None}
  <2>1. NewDemands(Running) \subseteq Demands
    BY <1>1, <1>2, RunningType, NewDemandsType
  <2> QED
    BY <1>2, <2>1 DEF Rows
<1>5. computePrice(d, seen.cfg) \in Costs
  BY <1>4, PriceType
<1>6. result' \in Results
  BY <1>3, <1>4, <1>5 DEF Results
<1>7. push' \in {"none", "pending"}
  BY <1>2, <1>3
<1>8. PICK s \in {"record", "push"} :
        /\ GoTo(s)
        /\ s = "push" => ~isPushDeferred(Running.kind) /\ push' = push
  BY <1>3
<1>9. s = "push" /\ Running.kind \in DecayKinds => push' = "none"
  BY <1>2, <1>8 DEF isPushDeferred
<1>10. /\ queue' \in Seq(Ops) /\ step' \in Steps
       /\ caller' \in [Redemptions -> CallerStates] /\ sched' \in SchedStates
       /\ QueueInv' /\ PricedInv' /\ SchedulerInv' /\ DeferralInv'
  BY <1>1, <1>8, <1>9, GoToKeepsInv DEF Steps
<1> QED
  BY <1>1, <1>6, <1>7, <1>10 DEF IInv, TypeOK

LEMMA PushKeepsInv ==
  ASSUME IInv, PushAccepted \/ PushRejected \/ PushReplyLost \/ PushUnsupported
  PROVE  IInv'
<1>1. /\ queue # <<>> /\ step = "push"
      /\ UNCHANGED <<row, ledger, foreign, seen, push, applied>>
  BY DEF PushAccepted, PushRejected, PushReplyLost, PushUnsupported, At
<1>2. PICK s \in {"record", "unsupport"} : GoTo(s)
  BY DEF PushAccepted, PushRejected, PushReplyLost, PushUnsupported
<1>3. Running.kind = "redemption" => Running.id \notin ledger
  BY <1>1 DEF IInv, PricedInv
<1>4. /\ queue' \in Seq(Ops) /\ step' \in Steps
      /\ caller' \in [Redemptions -> CallerStates] /\ sched' \in SchedStates
      /\ QueueInv' /\ PricedInv' /\ SchedulerInv' /\ DeferralInv'
  BY <1>1, <1>2, <1>3, GoToKeepsInv DEF Steps
<1>5. result \in Results /\ result.cost \in Costs
  BY DEF IInv, TypeOK, Results
<1>6. twitch' \in Costs \cup {Gone} /\ window' \in {"open", "closed"}
  BY <1>5 DEF PushAccepted, PushRejected, PushReplyLost, PushUnsupported, IInv, TypeOK
<1>7. result' \in Results
  <2>1. CASE PushAccepted
    BY <1>5, <2>1 DEF PushAccepted, Results
  <2>2. CASE UNCHANGED result
    BY <1>5, <2>2
  <2> QED
    BY <2>1, <2>2 DEF PushRejected, PushReplyLost, PushUnsupported
<1>8. used' \in 0 .. MaxEvents
  BY UseEventType DEF PushAccepted, PushRejected, PushReplyLost, PushUnsupported
<1> QED
  BY <1>1, <1>4, <1>6, <1>7, <1>8 DEF IInv, TypeOK

LEMMA UnsupportKeepsInv == ASSUME IInv, markPricingUnsupported \/ deletePricingConfig PROVE IInv'
<1>1. queue # <<>> /\ UNCHANGED <<ledger, twitch, foreign, push, window, applied>>
  BY DEF markPricingUnsupported, deletePricingConfig, At
<1>2. PICK outcome \in {"done", "failed"} : Finish(outcome)
  BY DEF markPricingUnsupported, deletePricingConfig
<1>3. /\ queue' \in Seq(Ops) /\ step' \in Steps /\ seen' \in Rows /\ result' \in Results
      /\ caller' \in [Redemptions -> CallerStates] /\ sched' \in SchedStates
      /\ QueueInv' /\ PricedInv' /\ SchedulerInv' /\ DeferralInv'
  BY <1>1, <1>2, PricedFacts, FinishKeepsInv
<1>4. row \in Rows
  BY DEF IInv, TypeOK
<1>5. row' \in Rows
  <2>1. CASE row' = [row EXCEPT !.state = "unsupported"]
    BY <1>4, <2>1 DEF Rows, RowStates
  <2>2. CASE row' = [row EXCEPT !.state = "absent", !.demand = 0, !.pushed = None, !.last = None]
    <3>1. 0 \in Demands
      BY FullAssumption DEF Demands
    <3> QED
      BY <1>4, <2>2, <3>1 DEF Rows, RowStates
  <2>3. CASE UNCHANGED row
    BY <1>4, <2>3
  <2> QED
    BY <2>1, <2>2, <2>3 DEF markPricingUnsupported, deletePricingConfig
<1>6. used' \in 0 .. MaxEvents
  BY UseEventType DEF markPricingUnsupported, deletePricingConfig
<1> QED
  BY <1>1, <1>3, <1>5, <1>6 DEF IInv, TypeOK

\* The increment is recorded with the flag that keeps it from being recorded again.
LEMMA RecordKeepsInv ==
  ASSUME IInv, At("record"), Record, NEW outcome, Finish(outcome),
         UNCHANGED <<twitch, foreign, push, window>>, used' \in 0 .. MaxEvents
  PROVE  IInv'
<1>1. queue # <<>> /\ step = "record"
  BY DEF At
<1>2. Running \in Ops /\ (Running.kind = "redemption" => Running.id \in Redemptions /\ Running.id \notin ledger)
  BY <1>1, RunningType DEF IInv, PricedInv
<1>3. applied \in [Redemptions -> Nat] /\ ledger \subseteq Redemptions /\ row \in Rows /\ result \in Results /\ seen \in Rows
  BY DEF IInv, TypeOK
<1>4. /\ \A r \in Redemptions : applied'[r] <= 1 /\ (applied'[r] = 1 => r \in ledger')
      /\ ledger \subseteq ledger' /\ ledger' \subseteq Redemptions /\ applied' \in [Redemptions -> Nat]
  <2>1. CASE Running.kind = "redemption"
    <3>1. /\ Running.id \in Redemptions /\ Running.id \notin ledger
          /\ ledger' = ledger \cup {Running.id} /\ applied' = [applied EXCEPT ![Running.id] = @ + 1]
      BY <1>2, <2>1 DEF Record
    <3>2. applied[Running.id] = 0
      BY <1>3, <3>1 DEF IInv, PricedInv
    <3>3. /\ applied' \in [Redemptions -> Nat] /\ applied'[Running.id] = 1
          /\ \A r \in Redemptions \ {Running.id} : applied'[r] = applied[r]
      BY <1>3, <3>1, <3>2
    <3> QED
      BY <1>3, <3>1, <3>3 DEF IInv, PricedInv
  <2>2. CASE Running.kind # "redemption"
    <3>1. UNCHANGED <<ledger, applied>>
      BY <2>2 DEF Record
    <3> QED
      BY <1>3, <3>1, PricedFacts
  <2> QED
    BY <2>1, <2>2
<1>5. row' \in Rows
  <2>1. /\ result.demand \in Demands /\ result.pushed \in Costs \cup {None}
        /\ seen.last \in Redemptions \cup {None}
    BY <1>3 DEF Results, Rows
  <2>2. PICK last \in Redemptions \cup {None} :
          row' = [row EXCEPT !.demand = result.demand, !.pushed = result.pushed, !.last = last]
    BY <1>2, <2>1 DEF Record
  <2> QED
    BY <1>3, <2>1, <2>2 DEF Rows
<1>6. /\ queue' \in Seq(Ops) /\ step' \in Steps /\ seen' \in Rows /\ result' \in Results
      /\ caller' \in [Redemptions -> CallerStates] /\ sched' \in SchedStates
      /\ QueueInv' /\ PricedInv' /\ SchedulerInv' /\ DeferralInv'
  BY <1>1, <1>4, FinishKeepsInv
<1> QED
  BY <1>4, <1>5, <1>6 DEF IInv, TypeOK

LEMMA RecordStepsKeepInv == ASSUME IInv, RecordCommits \/ RecordReplyLost \/ RecordFails PROVE IInv'
<1>1. used' \in 0 .. MaxEvents
  BY UseEventType DEF RecordCommits, RecordReplyLost, RecordFails
<1>2. CASE RecordCommits
  BY <1>1, <1>2, RecordKeepsInv DEF RecordCommits
<1>3. CASE RecordReplyLost
  BY <1>1, <1>3, RecordKeepsInv DEF RecordReplyLost
<1>4. CASE RecordFails
  <2>1. /\ queue # <<>> /\ Finish("failed")
        /\ UNCHANGED <<row, ledger, twitch, foreign, push, window, applied>>
    BY <1>4 DEF RecordFails, At
  <2>2. /\ queue' \in Seq(Ops) /\ step' \in Steps /\ seen' \in Rows /\ result' \in Results
        /\ caller' \in [Redemptions -> CallerStates] /\ sched' \in SchedStates
        /\ QueueInv' /\ PricedInv' /\ SchedulerInv' /\ DeferralInv'
    BY <2>1, PricedFacts, FinishKeepsInv
  <2> QED
    BY <1>1, <2>1, <2>2 DEF IInv, TypeOK
<1> QED
  BY <1>2, <1>3, <1>4

LEMMA RemovalKeepsInv == ASSUME IInv, ReadBeforeReset \/ ResetCost \/ DeleteReward PROVE IInv'
<1>1. /\ queue # <<>>
      /\ UNCHANGED <<row, ledger, foreign, push, window, applied>>
  BY DEF ReadBeforeReset, ResetCost, DeleteReward, At
<1>2. used' \in 0 .. MaxEvents
  BY UseEventType DEF ReadBeforeReset, ResetCost, DeleteReward
<1>3. twitch' \in Costs \cup {Gone}
  <2>1. seen.cfg.base \in Costs
    BY DEF IInv, TypeOK, Rows, Configs, Costs
  <2> QED
    BY <2>1 DEF ReadBeforeReset, ResetCost, DeleteReward, IInv, TypeOK
<1>4. CASE \E outcome \in {"done", "failed"} : Finish(outcome)
  <2>1. PICK outcome \in {"done", "failed"} : Finish(outcome)
    BY <1>4
  <2>2. /\ queue' \in Seq(Ops) /\ step' \in Steps /\ seen' \in Rows /\ result' \in Results
        /\ caller' \in [Redemptions -> CallerStates] /\ sched' \in SchedStates
        /\ QueueInv' /\ PricedInv' /\ SchedulerInv' /\ DeferralInv'
    BY <1>1, <2>1, PricedFacts, FinishKeepsInv
  <2> QED
    BY <1>1, <1>2, <1>3, <2>2 DEF IInv, TypeOK
<1>5. CASE \E s \in {"resetCost", "remove"} :
             GoTo(s) /\ seen' \in {row, seen} /\ UNCHANGED result /\ (s = "resetCost" => Running.kind = "reset")
  <2>1. PICK s \in {"resetCost", "remove"} :
          GoTo(s) /\ seen' \in {row, seen} /\ UNCHANGED result /\ (s = "resetCost" => Running.kind = "reset")
    BY <1>5
  <2>2. /\ queue' \in Seq(Ops) /\ step' \in Steps
        /\ caller' \in [Redemptions -> CallerStates] /\ sched' \in SchedStates
        /\ QueueInv' /\ PricedInv' /\ SchedulerInv' /\ DeferralInv'
    BY <1>1, <2>1, GoToKeepsInv DEF Steps
  <2> QED
    BY <1>1, <1>2, <1>3, <2>1, <2>2 DEF IInv, TypeOK
<1>6. \/ \E outcome \in {"done", "failed"} : Finish(outcome)
      \/ \E s \in {"resetCost", "remove"} :
           GoTo(s) /\ seen' \in {row, seen} /\ UNCHANGED result /\ (s = "resetCost" => Running.kind = "reset")
  <2>1. CASE ReadBeforeReset
    <3>1. CASE row.state = "absent"
      BY <2>1, <3>1 DEF ReadBeforeReset
    <3>2. CASE row.state = "unsupported"
      BY <2>1, <3>2 DEF ReadBeforeReset
    <3>3. CASE row.state \notin {"absent", "unsupported"}
      BY <2>1, <3>3 DEF ReadBeforeReset
    <3> QED
      BY <3>1, <3>2, <3>3
  <2>2. CASE ResetCost
    BY <2>2 DEF ResetCost
  <2>3. CASE DeleteReward
    BY <2>3 DEF DeleteReward
  <2> QED
    BY <2>1, <2>2, <2>3
<1> QED
  BY <1>4, <1>5, <1>6

LEMMA NextInv == IInv /\ [Next]_vars => IInv'
<1> SUFFICES ASSUME IInv, [Next]_vars PROVE IInv'
  OBVIOUS
<1>1. CASE \E r \in Redemptions : Redeem(r) \/ Refund(r)
  BY <1>1, CallersKeepInv
<1>2. CASE PushTimerFires \/ WindowPasses \/ SaveConfig \/ AskRemoval
  BY <1>2, PushTimerKeepsInv, PanelKeepsInv, SchedulerStepKeepsInv
<1>3. CASE Sync
  BY <1>3, ReadRowKeepsInv, SkipPricedKeepsInv, ComputeKeepsInv, PushKeepsInv, UnsupportKeepsInv, RecordStepsKeepInv
  DEF Sync
<1>4. CASE ReadFails
  BY <1>4, ReadFailsKeepsInv
<1>5. CASE Removal
  BY <1>5, RemovalKeepsInv, UnsupportKeepsInv DEF Removal
<1>6. CASE Scheduler
  BY <1>6, SchedulerStepKeepsInv, TickLoadsKeepsInv DEF Scheduler
<1>7. CASE Restart
  BY <1>7, RestartKeepsInv
<1>8. CASE UNCHANGED vars
  BY <1>8 DEF vars, IInv, TypeOK, QueueInv, PricedInv, SchedulerInv, DeferralInv, Running
<1> QED
  BY <1>1, <1>2, <1>3, <1>4, <1>5, <1>6, <1>7, <1>8 DEF Next

LEMMA SpecKeepsInv == Spec => []IInv
<1> QED
  BY InitInv, NextInv, PTL DEF Spec

-----------------------------------------------------------------------------
(* The theorems                                                            *)

\* The row, the queue and the scheduler's state have their types in every reachable state; above
\* all, every demand that is recorded and every cost that is pushed is in its range.
THEOREM TypeCorrect == Spec => []TypeOK
<1>1. IInv => TypeOK
  BY DEF IInv
<1> QED
  BY <1>1, SpecKeepsInv, PTL

\* A redemption raises the demand at most once, however often it is tried again, whatever failed
\* or lost its reply, and across restarts (isRedemptionAlreadyPriced, recordPricingUpdate).
THEOREM RedemptionsPricedOnce == Spec => []PricedOnce
<1>1. IInv => PricedOnce
  BY DEF IInv, PricedInv, PricedOnce
<1> QED
  BY <1>1, SpecKeepsInv, PTL

\* A scheduler that was not stopped has its timer, its recovery probe or a tick that is under way
\* (pauseForDbShutdown, runDecayTick): a database shutdown never leaves it with none.
THEOREM SchedulerStaysAlive == Spec => []SchedulerAlive
<1>1. IInv => SchedulerAlive
  <2>1. sched.tick = "loading" => sched.tick # "idle"
    OBVIOUS
  <2> QED
    BY <2>1 DEF IInv, TypeOK, SchedStates, SchedulerInv, SchedulerAlive
<1> QED
  BY <1>1, SpecKeepsInv, PTL

\* No tick, resync or deferred push raises the price on Twitch while a redemption's own push is
\* waiting (isPushDeferred).
THEOREM NoDecayRaisesEarly == Spec => NoEarlyRaise
<1> DEFINE Raise == (/\ queue # <<>> /\ Running.kind \in DecayKinds
                     /\ twitch # Gone /\ twitch' # Gone /\ twitch' > twitch) => push = "none"
<1>1. ASSUME IInv, [Next]_vars PROVE [Raise]_vars
  <2> SUFFICES ASSUME queue # <<>>, Running.kind \in DecayKinds, twitch' # Gone, twitch' # twitch
               PROVE  push = "none"
    <3>1. twitch' > twitch /\ twitch \in Nat => twitch' # twitch
      OBVIOUS
    <3>2. twitch # Gone => twitch \in Nat
      BY <1>1 DEF IInv, TypeOK, Costs
    <3> QED
      BY <3>1, <3>2
  <2>1. CASE PushAccepted \/ PushReplyLost
    BY <1>1, <2>1 DEF PushAccepted, PushReplyLost, At, IInv, DeferralInv
  <2>2. CASE ResetCost
    BY <1>1, <2>2 DEF ResetCost, At, IInv, QueueInv, DecayKinds
  <2>3. CASE DeleteReward
    BY <2>3 DEF DeleteReward
  <2>4. PushAccepted \/ PushReplyLost \/ ResetCost \/ DeleteReward \/ UNCHANGED twitch
    BY <1>1 DEF Next, Redeem, Refund, PushTimerFires, WindowPasses, SaveConfig, AskRemoval, Sync, ReadRow, SkipPriced,
                Compute, PushRejected, PushUnsupported, markPricingUnsupported, RecordCommits, RecordReplyLost,
                RecordFails, ReadFails, Removal, ReadBeforeReset, deletePricingConfig, Scheduler, TickTimerFires,
                ProbeFires, TickLoads, TickLoadFails, StopScheduler, SchedulerStopped, Restart, vars
  <2> QED
    BY <2>1, <2>2, <2>3, <2>4
<1> QED
  BY <1>1, SpecKeepsInv, PTL DEF Spec, NoEarlyRaise
=============================================================================
