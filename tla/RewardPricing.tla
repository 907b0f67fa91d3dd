---------------------------- MODULE RewardPricing ----------------------------
(***************************************************************************)
(* Dynamic pricing of one reward: rewardPricingService.ts and              *)
(* rewardPricingScheduler.ts over the reward_pricing row, the panel's      *)
(* pricing routes, and the cost Twitch shows.                              *)
(*                                                                         *)
(* Every operation on the reward runs in its mutation queue, whose         *)
(* promise (KeyLock) is taken here: `queue` is in order and its head is    *)
(* the operation running.  The panel's save writes the row outside the     *)
(* queue.  Rewards share nothing else, so one is enough.                   *)
(***************************************************************************)
EXTENDS PricingMath, Sequences

CONSTANTS
  Redemptions,
  Refunded,       \* those that are refunded, once they were applied
  Increment,      \* computeRedemptionIncrement of the reward
  HalfLives,      \* how much time may pass between two syncs
  PanelConfigs,   \* what the panel's form may save
  None,
  Gone,           \* the reward was deleted on Twitch
  FirstConfig,    \* what it saved before
  MaxQueue,       \* operations in the reward's queue at once
  MaxEvents       \* failures, lost replies, saves, removals and stops, together

ASSUME IncrementAssumption == Increment \in Nat
ASSUME RefundedAssumption == Refunded \subseteq Redemptions
ASSUME HalfLivesAssumption == HalfLives \subseteq Nat
ASSUME PowersAssumption == \A h \in HalfLives : 2 ^ h \in Nat \ {0}
ASSUME ConfigAssumption == PanelConfigs \subseteq Configs /\ FirstConfig \in Configs
ASSUME EventsAssumption == MaxEvents \in Nat
ASSUME SentinelAssumption == None \notin Nat \cup Redemptions /\ Gone \notin Nat

VARIABLES
  row,       \* the reward_pricing row
  ledger,    \* redemptions whose pricing_applied flag is set
  twitch,    \* the cost Twitch shows, or Gone
  foreign,   \* "yes": created outside this app, so Twitch answers 403
  queue,     \* operations on the reward, the running one first
  step,      \* where the running operation is
  seen,      \* the row as the running operation read it
  result,    \* the demand and cost it computed, the pushed cost to record
  push,      \* the reward's entry in pendingRedemptionPushes
  window,    \* "closed" while lastPushedAt is within MIN_PUSH_INTERVAL_MS
  caller,    \* each redemption, as the pipeline sees it
  sched,     \* the scheduler's module state
  applied,   \* history: increments recorded for each redemption
  used       \* how many of the bounded events have happened

vars == <<row, ledger, twitch, foreign, queue, step, seen, result, push, window,
          caller, sched, applied, used>>

Costs == Nat
Kinds == {"redemption", "revert", "tick", "deferred", "resync", "reset", "delete"}
DecayKinds == {"tick", "deferred", "resync"}
Ops == [kind : Kinds, id : Redemptions \cup {None}]

\* state: no row, enabled = 0, enabled = 1, enabled = 0 with twitch_unsupported
RowStates == {"absent", "off", "on", "unsupported"}
Rows == [state : RowStates, cfg : Configs, demand : Demands,
         pushed : Costs \cup {None}, last : Redemptions \cup {None}]

NoRow == [state |-> "absent", cfg |-> FirstConfig, demand |-> 0, pushed |-> None,
          last |-> None]

Results == [demand : Demands, cost : Costs, pushed : Costs \cup {None}]
NoResult == [demand |-> 0, cost |-> 0, pushed |-> None]

Steps == {"start", "compute", "push", "unsupport", "record", "resetCost", "remove"}
CallerStates == {"idle", "applying", "applied", "reverting", "reverted"}
SchedStates == [timer : {"on", "off"}, probe : {"on", "off"},
                awaiting : {"yes", "no"}, tick : {"idle", "loading", "applying"},
                phase : {"up", "stopping", "stopped"}]

TypeOK ==
  /\ row \in Rows
  /\ ledger \subseteq Redemptions
  /\ twitch \in Costs \cup {Gone}
  /\ foreign \in {"yes", "no"}
  /\ queue \in Seq(Ops)
  /\ step \in Steps
  /\ seen \in Rows
  /\ result \in Results
  /\ push \in {"none", "pending"}
  /\ window \in {"open", "closed"}
  /\ caller \in [Redemptions -> CallerStates]
  /\ sched \in SchedStates
  /\ applied \in [Redemptions -> Nat]
  /\ used \in 0 .. MaxEvents

-----------------------------------------------------------------------------
(* Helpers *)

UseEvent == used < MaxEvents /\ used' = used + 1

Op(kind, id) == [kind |-> kind, id |-> id]
Running == Head(queue)
At(s) == queue # <<>> /\ step = s

Enqueue(op) == Len(queue) < MaxQueue /\ queue' = Append(queue, op)

\* What the end of an operation means to whoever asked for it.
CallerAfter(op, outcome) ==
  CASE op.kind = "redemption" ->
         [caller EXCEPT ![op.id] = IF outcome = "done" THEN "applied" ELSE "idle"]
    [] op.kind = "revert" -> [caller EXCEPT ![op.id] = "reverted"]
    [] OTHER -> caller

Finish(outcome) ==
  /\ queue' = Tail(queue)
  /\ step' = "start"
  /\ seen' = NoRow
  /\ result' = NoResult
  /\ caller' = CallerAfter(Running, outcome)
  /\ sched' = IF Running.kind = "tick" THEN [sched EXCEPT !.tick = "idle"] ELSE sched

GoTo(s) ==
  /\ step' = s
  /\ UNCHANGED <<queue, caller, sched>>

-----------------------------------------------------------------------------
(* Callers of the queue *)

Init ==
  /\ row = [state |-> "on", cfg |-> FirstConfig, demand |-> 0,
            pushed |-> FirstConfig.base, last |-> None]
  /\ twitch = FirstConfig.base
  /\ ledger = {}
  /\ foreign \in {"yes", "no"}
  /\ queue = <<>>
  /\ step = "start"
  /\ seen = NoRow
  /\ result = NoResult
  /\ push = "none"
  /\ window = "open"
  /\ caller = [r \in Redemptions |-> "idle"]
  /\ sched = [timer |-> "on", probe |-> "off", awaiting |-> "no", tick |-> "idle",
              phase |-> "up"]
  /\ applied = [r \in Redemptions |-> 0]
  /\ used = 0

\* applyRedemptionPricing, again after a failure (the pipeline retries).
Redeem(r) ==
  /\ caller[r] = "idle"
  /\ Enqueue(Op("redemption", r))
  /\ caller' = [caller EXCEPT ![r] = "applying"]
  /\ UNCHANGED <<row, ledger, twitch, foreign, step, seen, result, push, window,
                 sched, applied, used>>

\* revertRedemptionPricing: at most once, when the redemption is refunded.
Refund(r) ==
  /\ r \in Refunded /\ caller[r] = "applied"
  /\ Enqueue(Op("revert", r))
  /\ caller' = [caller EXCEPT ![r] = "reverting"]
  /\ UNCHANGED <<row, ledger, twitch, foreign, step, seen, result, push, window,
                 sched, applied, used>>

\* Mistake: the fired timer stays in pendingRedemptionPushes.
PushTimerKeepsEntry ==
  /\ push = "pending"
  /\ Enqueue(Op("deferred", None))
  /\ UNCHANGED <<row, ledger, twitch, foreign, step, seen, result, push, window,
                 caller, sched, applied, used>>

\* The timer of scheduleRedemptionPush.
PushTimerFires ==
  /\ push = "pending"
  /\ push' = "none"
  /\ Enqueue(Op("deferred", None))
  /\ UNCHANGED <<row, ledger, twitch, foreign, step, seen, result, window, caller,
                 sched, applied, used>>

WindowPasses ==
  /\ window = "closed"
  /\ window' = "open"
  /\ UNCHANGED <<row, ledger, twitch, foreign, queue, step, seen, result, push,
                 caller, sched, applied, used>>

\* POST .../pricing: upsertPricingConfig, then a resync.  Demand, pushed cost
\* and last redemption of an existing row stay.
SaveConfig ==
  /\ UseEvent
  /\ \E cfg \in PanelConfigs, state \in {"on", "off"} :
       row' = IF row.state = "absent"
                THEN [state |-> state, cfg |-> cfg, demand |-> 0, pushed |-> None,
                      last |-> None]
                ELSE [row EXCEPT !.state = state, !.cfg = cfg]
  /\ Enqueue(Op("resync", None))
  /\ UNCHANGED <<ledger, twitch, foreign, step, seen, result, push, window, caller,
                 sched, applied>>

\* The panel turns pricing off (resetAndDeletePricing) or deletes the reward
\* (deleteRewardAndPricing).
AskRemoval ==
  /\ UseEvent
  /\ \E kind \in {"reset", "delete"} : Enqueue(Op(kind, None))
  /\ UNCHANGED <<row, ledger, twitch, foreign, step, seen, result, push, window,
                 caller, sched, applied>>

-----------------------------------------------------------------------------
(* syncRewardPrice *)

Syncs(op) == op.kind \notin {"reset", "delete"}

\* getPricingForReward; nothing to do unless the row is enabled.
ReadRow ==
  /\ At("start") /\ Syncs(Running)
  /\ IF row.state = "on"
       THEN /\ seen' = row
            /\ GoTo("compute")
            /\ UNCHANGED <<result, row>>
       ELSE UNCHANGED row /\ Finish("done")
  /\ UNCHANGED <<ledger, twitch, foreign, push, window, applied, used>>

\* A database call before anything is written fails.
ReadFails ==
  /\ At("start") \/ At("compute")
  /\ UseEvent
  /\ UNCHANGED <<row, ledger, twitch, foreign, push, window, applied>>
  /\ Finish("failed")

\* Mistake: the ledger is not asked, only the reward's last redemption.
PricedByLastOnly(r) == seen.last = r

\* isRedemptionAlreadyPriced
AlreadyPriced(r) == seen.last = r \/ r \in ledger

\* Mistake: a tick does not wait for the pending push.
DeferredForRedemptionOnly(kind) == kind = "redemption"

isPushDeferred(kind) ==
  \/ kind = "redemption"
  \/ kind \in DecayKinds /\ push = "pending"

\* computeNewDemand, for every elapsed time
NewDemands(op) ==
  CASE op.kind = "redemption" ->
         {applyRedemption(seen.demand, h, Increment) : h \in HalfLives}
    [] op.kind = "revert" ->
         {revertRedemption(seen.demand, h, Increment, since) :
            h \in HalfLives, since \in HalfLives}
    [] OTHER -> {decayDemand(seen.demand, h) : h \in HalfLives}

\* A redemption that was priced before: its flag is backfilled.
SkipPriced ==
  /\ At("compute") /\ Running.kind = "redemption" /\ AlreadyPriced(Running.id)
  /\ ledger' = ledger \cup {Running.id}
  /\ UNCHANGED <<row, twitch, foreign, push, window, applied, used>>
  /\ Finish("done")

\* New demand and price; the push is skipped, deferred, rate-limited or due.
Compute ==
  /\ At("compute")
  /\ Running.kind = "redemption" => ~AlreadyPriced(Running.id)
  /\ \E d \in NewDemands(Running) :
       LET cost == computePrice(d, seen.cfg)
       IN  /\ result' = [demand |-> d, cost |-> cost, pushed |-> seen.pushed]
           /\ push' = IF cost # seen.pushed /\ isPushDeferred(Running.kind)
                        THEN "pending" ELSE push
           /\ GoTo(IF \/ cost = seen.pushed
                      \/ isPushDeferred(Running.kind)
                      \/ window = "closed"
                     THEN "record" ELSE "push")
  /\ UNCHANGED <<row, ledger, twitch, foreign, seen, window, applied, used>>

\* pushRewardCostUpdate reached Twitch.
PushAccepted ==
  /\ At("push") /\ foreign = "no" /\ twitch # Gone
  /\ twitch' = result.cost
  /\ window' = "closed"
  /\ result' = [result EXCEPT !.pushed = result.cost]
  /\ GoTo("record")
  /\ UNCHANGED <<row, ledger, foreign, seen, push, applied, used>>

\* No token, a 401, a network error, or a reward that no longer exists.
PushRejected ==
  /\ At("push")
  /\ IF twitch = Gone THEN UNCHANGED used ELSE UseEvent
  /\ GoTo("record")
  /\ UNCHANGED <<row, ledger, twitch, foreign, seen, result, push, window, applied>>

\* Twitch took the new cost and the answer was lost.
PushReplyLost ==
  /\ At("push") /\ foreign = "no" /\ twitch # Gone
  /\ UseEvent
  /\ twitch' = result.cost
  /\ GoTo("record")
  /\ UNCHANGED <<row, ledger, foreign, seen, result, push, window, applied>>

\* 403: the reward is not this app's.
PushUnsupported ==
  /\ At("push") /\ foreign = "yes"
  /\ GoTo("unsupport")
  /\ UNCHANGED <<row, ledger, twitch, foreign, seen, result, push, window, applied,
                 used>>

markPricingUnsupported ==
  /\ At("unsupport")
  /\ \/ /\ row' = [row EXCEPT !.state = "unsupported"]
        /\ UNCHANGED used
        /\ Finish("done")
     \/ /\ UseEvent
        /\ UNCHANGED row
        /\ Finish("failed")
  /\ UNCHANGED <<ledger, twitch, foreign, push, window, applied>>

\* recordPricingUpdate: one statement, or one transaction with the flag.
Record ==
  LET r == Running.id IN
  /\ row' = [row EXCEPT !.demand = result.demand, !.pushed = result.pushed,
                        !.last = IF Running.kind = "redemption" THEN r ELSE seen.last]
  /\ IF Running.kind = "redemption"
       THEN /\ ledger' = ledger \cup {r}
            /\ applied' = [applied EXCEPT ![r] = @ + 1]
       ELSE UNCHANGED <<ledger, applied>>

RecordCommits ==
  /\ At("record")
  /\ Record
  /\ UNCHANGED <<twitch, foreign, push, window, used>>
  /\ Finish("done")

RecordReplyLost ==
  /\ At("record")
  /\ UseEvent
  /\ Record
  /\ UNCHANGED <<twitch, foreign, push, window>>
  /\ Finish("failed")

RecordFails ==
  /\ At("record")
  /\ UseEvent
  /\ UNCHANGED <<row, ledger, twitch, foreign, push, window, applied>>
  /\ Finish("failed")

-----------------------------------------------------------------------------
(* resetAndDeletePricing and deleteRewardAndPricing *)

ReadBeforeReset ==
  /\ At("start") /\ Running.kind = "reset"
  /\ CASE row.state = "absent"      -> Finish("done")
       [] row.state = "unsupported" -> GoTo("remove") /\ UNCHANGED <<seen, result>>
       [] OTHER                     -> GoTo("resetCost") /\ seen' = row /\ UNCHANGED result
  /\ UNCHANGED <<row, ledger, twitch, foreign, push, window, applied, used>>

\* Whatever becomes of the reset, the config is deleted next.
ResetCost ==
  /\ At("resetCost")
  /\ \/ /\ foreign = "no" /\ twitch # Gone
        /\ twitch' = seen.cfg.base
        /\ UNCHANGED used
     \/ /\ UNCHANGED twitch
        /\ IF foreign = "yes" \/ twitch = Gone THEN UNCHANGED used ELSE UseEvent
  /\ GoTo("remove")
  /\ UNCHANGED <<row, ledger, foreign, seen, result, push, window, applied>>

DeleteReward ==
  /\ At("start") /\ Running.kind = "delete"
  /\ \/ /\ foreign = "no" /\ twitch # Gone
        /\ twitch' = Gone
        /\ GoTo("remove")
        /\ UNCHANGED <<seen, result>>
     \/ /\ foreign = "yes" \/ twitch = Gone
        /\ UNCHANGED twitch
        /\ Finish("failed")
  /\ UNCHANGED <<row, used, ledger, foreign, push, window, applied>>

deletePricingConfig ==
  /\ At("remove")
  /\ \/ /\ row' = [row EXCEPT !.state = "absent", !.demand = 0, !.pushed = None,
                              !.last = None]
        /\ UNCHANGED used
        /\ Finish("done")
     \/ /\ UseEvent
        /\ UNCHANGED row
        /\ Finish("failed")
  /\ UNCHANGED <<ledger, twitch, foreign, push, window, applied>>

-----------------------------------------------------------------------------
(* rewardPricingScheduler.ts *)

TickTimerFires ==
  /\ sched.timer = "on" /\ sched.tick = "idle"
  /\ sched' = [sched EXCEPT !.tick = "loading"]
  /\ UNCHANGED <<row, ledger, twitch, foreign, queue, step, seen, result, push,
                 window, caller, applied, used>>

\* The recovery probe; runDecayTick joins a tick that is already running.
ProbeFires ==
  /\ sched.probe = "on"
  /\ sched' = [sched EXCEPT !.probe = "off",
                            !.tick = IF @ = "idle" THEN "loading" ELSE @]
  /\ UNCHANGED <<row, ledger, twitch, foreign, queue, step, seen, result, push,
                 window, caller, applied, used>>

\* getAllEnabledPricingRows answers: polling resumes, the reward is ticked.
TickLoads ==
  /\ sched.tick = "loading"
  /\ IF row.state = "on" THEN Enqueue(Op("tick", None)) ELSE UNCHANGED queue
  /\ sched' = [sched EXCEPT
       !.awaiting = "no",
       !.timer = IF sched.awaiting = "yes" /\ sched.phase = "up" THEN "on" ELSE @,
       !.tick = IF row.state = "on" THEN "applying" ELSE "idle"]
  /\ UNCHANGED <<row, ledger, twitch, foreign, step, seen, result, push, window,
                 caller, applied, used>>

\* pauseForDbShutdown
Paused(s) == [s EXCEPT !.awaiting = "yes", !.timer = "off",
                       !.probe = IF s.phase = "up" THEN "on" ELSE @]

\* Mistake: only a shutdown error schedules the next probe.
TickLoadFailsOnce ==
  /\ sched.tick = "loading"
  /\ UseEvent
  /\ \E shutdown \in BOOLEAN :
       sched' = IF shutdown THEN [Paused(sched) EXCEPT !.tick = "idle"]
                            ELSE [sched EXCEPT !.tick = "idle"]
  /\ UNCHANGED <<row, ledger, twitch, foreign, queue, step, seen, result, push,
                 window, caller, applied>>

\* The load fails: with ER_SERVER_SHUTDOWN, or otherwise.
TickLoadFails ==
  /\ sched.tick = "loading"
  /\ UseEvent
  /\ \E shutdown \in BOOLEAN :
       sched' = IF shutdown \/ sched.awaiting = "yes"
                  THEN [Paused(sched) EXCEPT !.tick = "idle"]
                  ELSE [sched EXCEPT !.tick = "idle"]
  /\ UNCHANGED <<row, ledger, twitch, foreign, queue, step, seen, result, push,
                 window, caller, applied>>

\* stopRewardPricingScheduler, with cancelPendingRedemptionPushes ...
StopScheduler ==
  /\ sched.phase = "up"
  /\ UseEvent
  /\ sched' = [sched EXCEPT !.phase = "stopping", !.timer = "off"]
  /\ push' = "none"
  /\ UNCHANGED <<row, ledger, twitch, foreign, queue, step, seen, result, window,
                 caller, applied>>

\* ... and, once the tick in flight has settled, the probe.
SchedulerStopped ==
  /\ sched.phase = "stopping" /\ sched.tick = "idle"
  /\ sched' = [sched EXCEPT !.phase = "stopped", !.probe = "off", !.awaiting = "no"]
  /\ UNCHANGED <<row, ledger, twitch, foreign, queue, step, seen, result, push,
                 window, caller, applied, used>>

\* The process ends, at any point, and systemd starts it again.
Restart ==
  /\ IF sched.phase = "stopped" THEN UNCHANGED used ELSE UseEvent
  /\ queue' = <<>>
  /\ step' = "start"
  /\ seen' = NoRow
  /\ result' = NoResult
  /\ push' = "none"
  /\ window' = "open"
  /\ caller' = [r \in Redemptions |->
                  CASE caller[r] = "applying"  -> "idle"
                    [] caller[r] = "reverting" -> "reverted"
                    [] OTHER                   -> caller[r]]
  /\ sched' = [timer |-> "on", probe |-> "off", awaiting |-> "no", tick |-> "idle",
               phase |-> "up"]
  /\ UNCHANGED <<row, ledger, twitch, foreign, applied>>

-----------------------------------------------------------------------------
Sync ==
  \/ ReadRow \/ SkipPriced \/ Compute
  \/ PushAccepted \/ PushRejected \/ PushReplyLost \/ PushUnsupported
  \/ markPricingUnsupported
  \/ RecordCommits \/ RecordReplyLost \/ RecordFails

Removal == ReadBeforeReset \/ ResetCost \/ DeleteReward \/ deletePricingConfig

Scheduler == TickTimerFires \/ ProbeFires \/ TickLoads \/ TickLoadFails
             \/ StopScheduler \/ SchedulerStopped

Next ==
  \/ \E r \in Redemptions : Redeem(r) \/ Refund(r)
  \/ PushTimerFires \/ WindowPasses \/ SaveConfig \/ AskRemoval
  \/ Sync \/ ReadFails \/ Removal \/ Scheduler \/ Restart

Spec == Init /\ [][Next]_vars

\* Awaited calls return and timers fire; a stopped process is started again.
FairSpec ==
  /\ Spec
  /\ WF_vars(Sync) /\ WF_vars(Removal)
  /\ WF_vars(PushTimerFires) /\ WF_vars(WindowPasses)
  /\ WF_vars(TickTimerFires) /\ WF_vars(ProbeFires)
  /\ WF_vars(TickLoads) /\ WF_vars(SchedulerStopped)
  /\ WF_vars(sched.phase = "stopped" /\ Restart)

-----------------------------------------------------------------------------
(* Properties *)

\* A redemption's increment enters the recorded demand at most once, through
\* failed and repeated attempts, other redemptions in between and restarts
\* (isRedemptionAlreadyPriced and the transaction of recordPricingUpdate).
PricedOnce == \A r \in Redemptions : applied[r] <= 1

\* While a redemption's push is waiting, no tick, resync or deferred push
\* raises the price on Twitch before it (isPushDeferred): Twitch would show
\* the new price as what the viewer paid.
NoEarlyRaise ==
  [][(/\ queue # <<>> /\ Running.kind \in DecayKinds
      /\ twitch # Gone /\ twitch' # Gone /\ twitch' > twitch)
     => push = "none"]_vars

\* Unless it was stopped, the scheduler will tick again, whatever failed
\* during a database shutdown and the probes after it.
SchedulerAlive ==
  sched.phase = "up" =>
    sched.timer = "on" \/ sched.probe = "on" \/ sched.tick # "idle"

\* Between two operations the row says another cost was pushed than Twitch
\* shows: a reply or a record was lost in between.
Diverged ==
  step = "start" /\ row.state = "on" /\ row.pushed # None /\ twitch # row.pushed

Priced == row.state = "on" /\ foreign = "no" /\ twitch # Gone =>
            twitch = computePrice(row.demand, row.cfg)

\* Rate limits, deferred pushes, failed pushes, saves and restarts delay the
\* price, and it still ends up on Twitch, unless a failure fell between
\* Twitch's change and its record.
EventuallyPriced == <>Diverged \/ <>[]Priced
=============================================================================
