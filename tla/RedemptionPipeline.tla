-------------------------- MODULE RedemptionPipeline --------------------------
(***************************************************************************)
(* Channel-point redemptions, from delivery to the answer given to Twitch: *)
(* twitch/eventsub/twitchEventSubRedemption.ts (handleRedemption),         *)
(* ...RedemptionDedup.ts, ...RedemptionAcks.ts, db/redemptionLedger.ts and *)
(* db/redemptionCompanionAck.ts.                                           *)
(*                                                                         *)
(* A step is what runs between two awaits.  `ledger`, `row`, `pricingOn`,  *)
(* `confirmOn` and the counts are in the database or on Twitch and survive *)
(* a crash; the other variables are the process's memory.  The pricing     *)
(* read-modify-write is one step: it runs inside the reward's mutation     *)
(* queue (MutationQueue).                                                  *)
(***************************************************************************)
EXTENDS Naturals, FiniteSets

CONSTANTS
  Redemptions,    \* Twitch redemption ids
  Procs,          \* bound: resolving calls in flight at the same time
  None,           \* an idle resolver
  FulfilAttempts, \* FULFIL_ATTEMPTS
  MaxFailures,    \* bound: database calls that fail, Twitch calls lost
  MaxCrashes,     \* bound: restarts of the process
  MaxToggles,     \* bound: changes of the reward's settings
  Toggles         \* which settings may change: subset of {"confirm", "pricing"}

ASSUME NoneAssumption == None \notin Redemptions
ASSUME BoundsAssumption ==
  /\ FulfilAttempts \in Nat \ {0}
  /\ MaxFailures \in Nat /\ MaxCrashes \in Nat /\ MaxToggles \in Nat
  /\ Toggles \subseteq {"confirm", "pricing"}

VARIABLES
  \* Twitch
  twitch,       \* status of each redemption on Twitch
  \* database
  ledger,       \* redemption_handled: effects recorded per redemption
  row,          \* redemption_companion_ack: status per redemption
  confirmOn,    \* the reward is in reward_companion_confirmation
  pricingOn,    \* the reward has an enabled reward_pricing row
  applied,      \* how often each redemption's increment was added to demand
  reverted,     \* how often it was taken back off
  \* process memory
  phase,        \* down, sweeping (startup), up
  toSweep,      \* ids the startup sweep still has to look at
  unswept,      \* the startup sweep could not list the pending rows
  seen,         \* seenRedemptionIds
  claimed,      \* pendingRedemptionIds
  timer,        \* pendingAcks: none, awaiting an acknowledgement, refund retry
  handler,      \* the handleRedemption call that holds the claim
  proc,         \* calls resolving a confirmation
  \* history variables
  overlays,     \* overlay pushes per redemption
  pushes,       \* companion pushes per redemption
  \* bounds
  failures, crashes, toggles

twitchVars == <<twitch>>
dbVars == <<ledger, row, confirmOn, pricingOn, applied, reverted>>
memVars == <<phase, toSweep, unswept, seen, claimed, timer, handler, proc>>
vars == <<twitchVars, dbVars, memVars, overlays, pushes, failures, crashes, toggles>>

TwitchStatus == {"UNFULFILLED", "FULFILLED", "CANCELED"}
Effects == {"dashboard_recorded", "pricing_applied", "handled"}
RowStatus == {"absent", "pending", "fulfilled", "refunded", "refund_failed"}
TimerStates == {"none", "ack", "retry"}
Confirmation == {"none", "pending", "resolved"}

HandlerPc == {"idle", "progress", "dashboard", "pricing", "confirm", "markHandled", "push"}
Handlers == [pc: HandlerPc, conf: Confirmation]
NoHandler == [pc |-> "idle", conf |-> "none"]

Kinds == {"timer", "ack", "push", "sweep"}
ProcPc == {"idle", "claim", "twitch", "release", "revert", "revertRefused", "markFailed"}
Resolvers == [on: Redemptions \cup {None}, kind: Kinds, pc: ProcPc,
              goal: {"fulfilled", "refunded"}, entry: TimerStates,
              attempt: 1..FulfilAttempts]
Idle == [on |-> None, kind |-> "timer", pc |-> "idle", goal |-> "refunded",
         entry |-> "none", attempt |-> 1]

TypeOK ==
  /\ twitch \in [Redemptions -> TwitchStatus]
  /\ ledger \in [Redemptions -> SUBSET Effects]
  /\ row \in [Redemptions -> RowStatus]
  /\ confirmOn \in BOOLEAN /\ pricingOn \in BOOLEAN
  /\ applied \in [Redemptions -> Nat] /\ reverted \in [Redemptions -> Nat]
  /\ phase \in {"down", "sweeping", "up"}
  /\ toSweep \in SUBSET Redemptions
  /\ unswept \in BOOLEAN
  /\ seen \in SUBSET Redemptions /\ claimed \in SUBSET Redemptions
  /\ timer \in [Redemptions -> TimerStates]
  /\ handler \in [Redemptions -> Handlers]
  /\ proc \in [Procs -> Resolvers]
  /\ overlays \in [Redemptions -> Nat] /\ pushes \in [Redemptions -> Nat]
  /\ failures \in 0..MaxFailures /\ crashes \in 0..MaxCrashes /\ toggles \in 0..MaxToggles

-----------------------------------------------------------------------------
Init ==
  /\ twitch = [r \in Redemptions |-> "UNFULFILLED"]
  /\ ledger = [r \in Redemptions |-> {}]
  /\ row = [r \in Redemptions |-> "absent"]
  /\ confirmOn \in BOOLEAN /\ pricingOn \in BOOLEAN
  /\ applied = [r \in Redemptions |-> 0] /\ reverted = [r \in Redemptions |-> 0]
  /\ phase = "up" /\ toSweep = {} /\ unswept = FALSE
  /\ seen = {} /\ claimed = {}
  /\ timer = [r \in Redemptions |-> "none"]
  /\ handler = [r \in Redemptions |-> NoHandler]
  /\ proc = [p \in Procs |-> Idle]
  /\ overlays = [r \in Redemptions |-> 0] /\ pushes = [r \in Redemptions |-> 0]
  /\ failures = 0 /\ crashes = 0 /\ toggles = 0

Fails == failures < MaxFailures /\ failures' = failures + 1

-----------------------------------------------------------------------------
(* handleRedemption *)

Goto(r, pc) == handler' = [handler EXCEPT ![r].pc = pc]

\* Mistake: an error leaves the claim behind.
ThrowKeepingClaim(r) ==
  /\ handler' = [handler EXCEPT ![r] = NoHandler]
  /\ UNCHANGED claimed

\* The catch clause: the claim is given up, so a redelivery is not a duplicate.
Throw(r) ==
  /\ handler' = [handler EXCEPT ![r] = NoHandler]
  /\ claimed' = claimed \ {r}

\* markRedemptionHandled, and the handler returns.
MarkHandledInMemory(r) ==
  /\ handler' = [handler EXCEPT ![r] = NoHandler]
  /\ claimed' = claimed \ {r}
  /\ seen' = seen \cup {r}

\* A live notification or a reconciliation replay; one of an id that is seen
\* or claimed is dropped.
Deliver(r) ==
  /\ phase = "up"
  /\ r \notin seen \cup claimed
  /\ claimed' = claimed \cup {r}
  /\ Goto(r, "progress")
  /\ UNCHANGED <<twitchVars, dbVars, phase, toSweep, unswept, seen, timer, proc,
                 overlays, pushes, failures, crashes, toggles>>

\* The in-memory entry expires (REDEMPTION_DEDUP_TTL_MS).
SeenExpires(r) ==
  /\ r \in seen
  /\ seen' = seen \ {r}
  /\ UNCHANGED <<twitchVars, dbVars, phase, toSweep, unswept, claimed, timer, handler,
                 proc, overlays, pushes, failures, crashes, toggles>>

\* Mistake: only the in-memory cache is asked.
HandledPerCache(r) == r \in seen

\* getRedemptionProgress says handled: the ledger outlives the cache.
AlreadyHandled(r) == "handled" \in ledger[r]

ReadProgress(r) ==
  /\ handler[r].pc = "progress"
  /\ \/ /\ AlreadyHandled(r)
        /\ MarkHandledInMemory(r) /\ UNCHANGED failures
     \/ /\ ~AlreadyHandled(r)
        /\ Goto(r, "dashboard") /\ UNCHANGED <<seen, claimed, failures>>
     \/ Fails /\ Throw(r) /\ UNCHANGED seen
  /\ UNCHANGED <<twitchVars, dbVars, phase, toSweep, unswept, timer, proc,
                 overlays, pushes, crashes, toggles>>

\* The dashboard event is keyed by the redemption id, so a failed
\* bookkeeping write only repeats a no-op insert.
RecordDashboard(r) ==
  /\ handler[r].pc = "dashboard"
  /\ \/ /\ ledger' = [ledger EXCEPT ![r] = @ \cup {"dashboard_recorded"}]
        /\ Goto(r, "pricing") /\ UNCHANGED <<claimed, failures>>
     \/ Fails /\ Throw(r) /\ UNCHANGED ledger
  /\ UNCHANGED <<twitchVars, row, confirmOn, pricingOn, applied, reverted, phase, toSweep,
                 unswept, seen, timer, proc, overlays, pushes, crashes, toggles>>

\* syncRewardPrice adds the increment and records pricing_applied in one
\* transaction; without an enabled row nothing is added.  The handler then
\* records pricing_applied again, and that write can fail by itself.
ApplyPricing(r) ==
  /\ handler[r].pc = "pricing"
  /\ LET adds == pricingOn /\ "pricing_applied" \notin ledger[r] IN
       \/ /\ applied' = [applied EXCEPT ![r] = IF adds THEN @ + 1 ELSE @]
          /\ ledger' = [ledger EXCEPT ![r] = @ \cup {"pricing_applied"}]
          /\ Goto(r, "confirm") /\ UNCHANGED <<claimed, failures>>
       \/ /\ adds
          /\ applied' = [applied EXCEPT ![r] = @ + 1]
          /\ ledger' = [ledger EXCEPT ![r] = @ \cup {"pricing_applied"}]
          /\ Fails /\ Throw(r)
       \/ Fails /\ Throw(r) /\ UNCHANGED <<applied, ledger>>
  /\ UNCHANGED <<twitchVars, row, confirmOn, pricingOn, reverted, phase, toSweep, unswept,
                 seen, timer, proc, overlays, pushes, crashes, toggles>>

\* prepareRedemptionConfirmation: insert the row if it is absent, read its
\* status back, and arm the refund timer when it is pending.
PrepareConfirmation(r) ==
  /\ handler[r].pc = "confirm"
  /\ LET status == IF row[r] = "absent" THEN "pending" ELSE row[r] IN
       \/ /\ ~confirmOn
          /\ handler' = [handler EXCEPT ![r] = [pc |-> "markHandled", conf |-> "none"]]
          /\ UNCHANGED <<row, timer, claimed, failures>>
       \/ /\ confirmOn /\ status = "pending"
          /\ row' = [row EXCEPT ![r] = status]
          /\ timer' = [timer EXCEPT ![r] = "ack"]
          /\ handler' = [handler EXCEPT ![r] = [pc |-> "markHandled", conf |-> "pending"]]
          /\ UNCHANGED <<claimed, failures>>
       \/ /\ confirmOn /\ status # "pending"
          /\ handler' = [handler EXCEPT ![r] = [pc |-> "markHandled", conf |-> "resolved"]]
          /\ UNCHANGED <<row, timer, claimed, failures>>
       \/ /\ Fails /\ Throw(r)
          /\ \/ UNCHANGED row
             \/ confirmOn /\ row' = [row EXCEPT ![r] = status]  \* inserted, not read back
          /\ UNCHANGED timer
  /\ UNCHANGED <<twitchVars, ledger, confirmOn, pricingOn, applied, reverted, phase, toSweep,
                 unswept, seen, proc, overlays, pushes, crashes, toggles>>

\* The `handled` write, then the overlay push; a confirmation already
\* resolved ends the handler here.
MarkHandled(r) ==
  /\ handler[r].pc = "markHandled"
  /\ \/ /\ ledger' = [ledger EXCEPT ![r] = @ \cup {"handled"}]
        /\ overlays' = [overlays EXCEPT ![r] = @ + 1]
        /\ IF handler[r].conf = "resolved"
             THEN MarkHandledInMemory(r)
             ELSE Goto(r, "push") /\ UNCHANGED <<seen, claimed>>
        /\ UNCHANGED failures
     \/ Fails /\ Throw(r) /\ UNCHANGED <<ledger, overlays, seen>>
  /\ UNCHANGED <<twitchVars, row, confirmOn, pricingOn, applied, reverted, phase, toSweep,
                 unswept, timer, proc, pushes, crashes, toggles>>

-----------------------------------------------------------------------------
(* Resolving a confirmation.  One call at a time runs on a resolver p; `on`   *)
(* is its redemption, `goal` the status it claims, `entry` the pendingAcks    *)
(* entry it took out (resolveTracked re-arms the timer only if there was one).*)

Free(p) == proc[p].on = None

Start(p, r, kind, goal) ==
  proc' = [proc EXCEPT ![p] = [Idle EXCEPT !.on = r, !.kind = kind, !.pc = "claim",
                                           !.goal = goal, !.entry = timer[r]]]

At(p, pc) == proc' = [proc EXCEPT ![p].pc = pc]

Finish(p) == proc' = [proc EXCEPT ![p] = Idle]

\* Mistake: the sweep's onFailure schedules nothing.
RearmsTakenTimer(p) == proc[p].entry # "none"

RearmsTimer(p) == proc[p].kind \in {"timer", "sweep"} \/ proc[p].entry # "none"

\* The call throws.  A timer's refund and the sweep schedule a retry; an
\* acknowledgement and a push do so only if they took an entry out.
Abort(p) ==
  /\ Finish(p)
  /\ timer' = IF RearmsTimer(p) THEN [timer EXCEPT ![proc[p].on] = "retry"] ELSE timer

resolverUnchanged == <<ledger, confirmOn, pricingOn, applied, phase, toSweep, unswept, seen,
                       claimed, handler, overlays, pushes, crashes, toggles>>

\* pushRedemptionToCompanion: the last step of the handler, every error of
\* which is caught.  With nobody connected to confirm, the redemption is
\* refunded (the handler's wait for that call changes nothing: a redelivery
\* is dropped either way).
PushToCompanion(r) ==
  /\ handler[r].pc = "push"
  /\ MarkHandledInMemory(r)
  /\ \/ /\ pushes' = [pushes EXCEPT ![r] = @ + 1]
        /\ UNCHANGED <<timer, proc, failures>>
     \/ /\ handler[r].conf = "pending"
        /\ \E p \in Procs : Free(p) /\ Start(p, r, "push", "refunded")
        /\ timer' = [timer EXCEPT ![r] = "none"]
        /\ UNCHANGED <<pushes, failures>>
     \/ Fails /\ UNCHANGED <<pushes, timer, proc>>
  /\ UNCHANGED <<twitchVars, dbVars, phase, toSweep, unswept, overlays, crashes, toggles>>

\* The handler pushes within REDEMPTION_ACK_TIMEOUT_MS of arming the timer.
PushIsDue(r) == handler[r].pc \in {"markHandled", "push"} /\ handler[r].conf = "pending"

\* scheduleRefund's callback.
TimerFires(r) ==
  /\ timer[r] # "none" /\ ~PushIsDue(r)
  /\ \E p \in Procs : Free(p) /\ Start(p, r, "timer", "refunded")
  /\ timer' = [timer EXCEPT ![r] = "none"]
  /\ UNCHANGED <<twitchVars, row, reverted, failures, resolverUnchanged>>

\* acknowledgeRedemption: the app acknowledges what it was pushed, maybe more
\* than once and maybe late.
Acknowledge(r, goal) ==
  /\ phase = "up" /\ pushes[r] > 0 /\ row[r] # "absent"
  /\ \E p \in Procs : Free(p) /\ Start(p, r, "ack", goal)
  /\ timer' = [timer EXCEPT ![r] = "none"]
  /\ UNCHANGED <<twitchVars, row, reverted, failures, resolverUnchanged>>

\* Mistake: the claim's UPDATE does not ask for a pending row.
ClaimableIfRecorded(r) == row[r] # "absent"

Claimable(r) == row[r] = "pending"

\* claimRedemptionAck: UPDATE ... WHERE status = 'pending', then a SELECT.
Claim(p) ==
  /\ proc[p].pc = "claim"
  /\ LET r == proc[p].on IN
       \/ ~Claimable(r) /\ Finish(p) /\ UNCHANGED <<row, timer, failures>>
       \/ /\ Claimable(r)
          /\ row' = [row EXCEPT ![r] = proc[p].goal]
          /\ At(p, "twitch") /\ UNCHANGED <<timer, failures>>
       \/ /\ Fails /\ Abort(p)
          /\ \/ UNCHANGED row
             \/ Claimable(r) /\ row' = [row EXCEPT ![r] = proc[p].goal]  \* the SELECT fails
  /\ UNCHANGED <<twitchVars, reverted, resolverUnchanged>>

Answer(goal) == IF goal = "fulfilled" THEN "FULFILLED" ELSE "CANCELED"

\* Mistake: one attempt too many.
MayRetryOnceMore(p) == proc[p].attempt <= FulfilAttempts

MayRetry(p) == proc[p].attempt < FulfilAttempts

Answered(p) ==
  LET r == proc[p].on IN
  /\ twitch[r] = "UNFULFILLED"
  /\ twitch' = [twitch EXCEPT ![r] = Answer(proc[p].goal)]

\* setTwitchRedemptionStatus: accepted, refused for good, or a transient
\* failure (whose request may have reached Twitch).  A refund then goes on to
\* the pricing or to the release; a fulfilment ends, or tries again.
CallTwitch(p) ==
  /\ proc[p].pc = "twitch"
  /\ LET refund == proc[p].goal = "refunded" IN
       \/ /\ Answered(p) /\ UNCHANGED failures
          /\ IF refund THEN At(p, "revert") ELSE Finish(p)
       \/ /\ UNCHANGED <<twitch, failures>>
          /\ IF refund THEN At(p, "revertRefused") ELSE Finish(p)
       \/ /\ Fails
          /\ Answered(p) \/ UNCHANGED twitch
          /\ IF refund THEN At(p, "release")
             ELSE IF MayRetry(p)
               THEN proc' = [proc EXCEPT ![p].attempt = @ + 1]
               ELSE Finish(p)
  /\ UNCHANGED <<row, reverted, timer, resolverUnchanged>>

\* releaseRedemptionAck, and the transient failure is rethrown.
Release(p) ==
  /\ proc[p].pc = "release"
  /\ Abort(p)
  /\ \/ row' = [row EXCEPT ![proc[p].on] = "pending"] /\ UNCHANGED failures
     \/ Fails /\ UNCHANGED row
  /\ UNCHANGED <<twitchVars, reverted, resolverUnchanged>>

\* revertPricing: best effort, and nothing without an enabled pricing row.
Revert(p) ==
  /\ proc[p].pc \in {"revert", "revertRefused"}
  /\ \/ /\ reverted' = [reverted EXCEPT ![proc[p].on] = IF pricingOn THEN @ + 1 ELSE @]
        /\ UNCHANGED failures
     \/ Fails /\ UNCHANGED reverted
  /\ IF proc[p].pc = "revertRefused" THEN At(p, "markFailed") ELSE Finish(p)
  /\ UNCHANGED <<twitchVars, row, timer, resolverUnchanged>>

\* Mistake: a refund that Twitch refused is released for another try.
MarkPending(p) ==
  /\ proc[p].pc = "markFailed"
  /\ \/ /\ row' = [row EXCEPT ![proc[p].on] = "pending"]
        /\ Finish(p) /\ UNCHANGED <<timer, failures>>
     \/ Fails /\ Abort(p) /\ UNCHANGED row
  /\ UNCHANGED <<twitchVars, reverted, resolverUnchanged>>

\* updateRedemptionAckStatus(..., 'refund_failed').
MarkRefundFailed(p) ==
  /\ proc[p].pc = "markFailed"
  /\ \/ /\ row' = [row EXCEPT ![proc[p].on] = "refund_failed"]
        /\ Finish(p) /\ UNCHANGED <<timer, failures>>
     \/ Fails /\ Abort(p) /\ UNCHANGED row
  /\ UNCHANGED <<twitchVars, reverted, resolverUnchanged>>

-----------------------------------------------------------------------------
(* Startup, restart, settings *)

processLocal == <<toSweep, unswept, seen, claimed, timer, handler, proc>>

Crash ==
  /\ phase # "down" /\ crashes < MaxCrashes
  /\ phase' = "down" /\ crashes' = crashes + 1
  /\ toSweep' = {} /\ unswept' = FALSE /\ seen' = {} /\ claimed' = {}
  /\ timer' = [r \in Redemptions |-> "none"]
  /\ handler' = [r \in Redemptions |-> NoHandler]
  /\ proc' = [p \in Procs |-> Idle]
  /\ UNCHANGED <<twitchVars, dbVars, overlays, pushes, failures, toggles>>

\* sweepPendingCompanionAcks runs before EventSub and the web panel start; if
\* the rows cannot be listed, startup goes on without the sweep.
Restart ==
  /\ phase = "down"
  /\ \/ /\ phase' = "sweeping"
        /\ toSweep' = {r \in Redemptions : row[r] = "pending"}
        /\ UNCHANGED <<unswept, failures>>
     \/ Fails /\ phase' = "up" /\ unswept' = TRUE /\ UNCHANGED toSweep
  /\ UNCHANGED <<twitchVars, dbVars, seen, claimed, timer, handler, proc, overlays, pushes,
                 crashes, toggles>>

SweepBusy == \E p \in Procs : proc[p].on # None /\ proc[p].kind = "sweep"

\* One id of sweepPendingAcks' loop; the next waits for this refund.
Sweep(r) ==
  /\ phase = "sweeping" /\ r \in toSweep /\ ~SweepBusy
  /\ toSweep' = toSweep \ {r}
  /\ IF timer[r] # "none" THEN UNCHANGED proc
     ELSE \E p \in Procs : Free(p) /\ Start(p, r, "sweep", "refunded")
  /\ UNCHANGED <<twitchVars, dbVars, phase, unswept, seen, claimed, timer, handler,
                 overlays, pushes, failures, crashes, toggles>>

SweepEnds ==
  /\ phase = "sweeping" /\ toSweep = {} /\ ~SweepBusy
  /\ phase' = "up"
  /\ UNCHANGED <<twitchVars, dbVars, processLocal, overlays, pushes, failures, crashes, toggles>>

\* setCompanionConfirmationRequired, from the Channel Points page.
ToggleConfirmation ==
  /\ "confirm" \in Toggles /\ toggles < MaxToggles
  /\ confirmOn' = ~confirmOn /\ toggles' = toggles + 1
  /\ UNCHANGED <<twitchVars, ledger, row, pricingOn, applied, reverted, memVars, overlays,
                 pushes, failures, crashes>>

\* Saving, disabling or deleting the reward's dynamic pricing.
TogglePricing ==
  /\ "pricing" \in Toggles /\ toggles < MaxToggles
  /\ pricingOn' = ~pricingOn /\ toggles' = toggles + 1
  /\ UNCHANGED <<twitchVars, ledger, row, confirmOn, applied, reverted, memVars, overlays,
                 pushes, failures, crashes>>

-----------------------------------------------------------------------------
HandlerStep(r) ==
  \/ ReadProgress(r) \/ RecordDashboard(r) \/ ApplyPricing(r)
  \/ PrepareConfirmation(r) \/ MarkHandled(r) \/ PushToCompanion(r)

ResolverStep(p) ==
  Claim(p) \/ CallTwitch(p) \/ Release(p) \/ Revert(p) \/ MarkRefundFailed(p)

Startup == Restart \/ SweepEnds \/ \E r \in Redemptions : Sweep(r)

Next ==
  \/ \E r \in Redemptions :
       \/ Deliver(r) \/ SeenExpires(r) \/ HandlerStep(r) \/ TimerFires(r)
       \/ \E goal \in {"fulfilled", "refunded"} : Acknowledge(r, goal)
  \/ \E p \in Procs : ResolverStep(p)
  \/ Startup \/ Crash \/ ToggleConfirmation \/ TogglePricing

Spec == Init /\ [][Next]_vars

\* Reconciliation polls every minute and replays what Twitch lists as
\* unfulfilled or fulfilled and the ledger does not record as handled.
Replay(r) == twitch[r] # "CANCELED" /\ "handled" \notin ledger[r] /\ Deliver(r)

\* Awaited calls return, timers fire (strongly: in the code a resolver is
\* always free), the process is restarted, reconciliation polls.
Fairness ==
  /\ \A r \in Redemptions :
       WF_vars(HandlerStep(r)) /\ SF_vars(TimerFires(r)) /\ WF_vars(Replay(r))
  /\ \A p \in Procs : WF_vars(ResolverStep(p))
  /\ WF_vars(Startup)

FairSpec == Spec /\ Fairness

-----------------------------------------------------------------------------
(* Properties *)

\* Redelivered, replayed by reconciliation, retried after any failed step or
\* interrupted by a restart, a redemption runs each of its effects at most
\* once (handleRedemption, syncRewardPrice).
EffectsOnce ==
  \A r \in Redemptions :
    overlays[r] <= 1 /\ pushes[r] <= 1 /\ applied[r] <= 1 /\ reverted[r] <= 1

Resolving(p, r) == proc[p].on = r /\ proc[p].pc \notin {"idle", "claim"}

\* Timer, acknowledgement, missing companion and startup sweep race for a
\* pending row, and at most one of them goes past claimRedemptionAck.
OneResolver ==
  \A r \in Redemptions : \A p, q \in Procs :
    Resolving(p, r) /\ Resolving(q, r) => p = q

\* "the timeout is re-armed so it still gets resolved" (acknowledgeRedemption):
\* a pending row has a timer, a call in flight, the startup sweep or, while
\* the redemption is not handled, a replay to resolve it.  A restart that
\* could not list the rows is the exception.  Two calls break it: the one that
\* took the timer out loses the claim, the other releases it without a timer.
PendingRowIsOwned ==
  \A r \in Redemptions :
    row[r] = "pending" /\ twitch[r] = "UNFULFILLED" /\ phase # "down" /\ ~unswept =>
      \/ timer[r] # "none" \/ r \in toSweep
      \/ \E p \in Procs : proc[p].on = r
      \/ "handled" \notin ledger[r]

\* The ids some call has claimed and not let go of.
BeingResolved == {r \in Redemptions : \E p \in Procs : Resolving(p, r)}

\* The ids whose effects the ledger records as done.
Handled == {r \in Redemptions : "handled" \in ledger[r]}

Outcome == INSTANCE RedemptionOutcome WITH
  decision <- row, deciding <- BeingResolved, handled <- Handled

\* Behind deliveries, replays, timers, acknowledgements, sweeps and restarts
\* the viewer gets what RedemptionOutcome promises: the effects once, one
\* decision at a time and an answer on Twitch that follows it, and the price
\* taken back once, for a refund that no release makes pending again
\* (handleRedemption, claimRedemptionAck, refundRedemption, releaseRedemptionAck).
ImplementsOutcome == Outcome!Spec

\* The status a redemption is given on Twitch is the one its row was claimed
\* for: a confirmed redemption is never refunded, a refunded one never
\* marked fulfilled (claimRedemptionAck, markFulfilledOnTwitch).
TwitchFollowsRow ==
  [][\A r \in Redemptions :
       /\ twitch[r] # "CANCELED" /\ twitch'[r] = "CANCELED" => row[r] = "refunded"
       /\ twitch[r] # "FULFILLED" /\ twitch'[r] = "FULFILLED" => row[r] = "fulfilled"]_vars

\* An acknowledgement that finds no timer to take out: a second one, or one
\* that comes while the timer's refund is in flight.
LateAcknowledgement ==
  \E p \in Procs : proc[p].on # None /\ proc[p].kind = "ack" /\ proc[p].entry = "none"

\* Confirmation switched off while the redemption waits: a retry of the
\* handler then arms no timer for the row an earlier attempt left.
SwitchedOff == ~confirmOn /\ \E r \in Redemptions : row[r] = "pending"

\* A pending redemption is resolved in the end, whatever fails on the way,
\* if no acknowledgement is late (PendingRowIsOwned says what a late one does),
\* confirmation stays on meanwhile and the startup sweep could list the rows.
PendingIsResolved ==
  []~(LateAcknowledgement \/ SwitchedOff) =>
    \A r \in Redemptions : row[r] = "pending" ~> row[r] # "pending" \/ unswept

\* Every redemption not refunded before is handled in the end.
EventuallyHandled ==
  \A r \in Redemptions : <>("handled" \in ledger[r] \/ twitch[r] = "CANCELED")

\* "so a transient error never strands the points" (scheduleRefund): a row
\* recorded as refunded, which nothing will claim again, is refunded.
RefundIsNotStranded ==
  \A r \in Redemptions :
    row[r] = "refunded" /\ (\A p \in Procs : ~Resolving(p, r)) => twitch[r] # "UNFULFILLED"
=============================================================================
