--------------------------- MODULE RedemptionProofs ---------------------------
(***************************************************************************)
(* Proofs about RedemptionPipeline, for any number of redemptions,         *)
(* resolving calls, failures, restarts and changes of settings.            *)
(***************************************************************************)
EXTENDS RedemptionPipeline, TLAPS

-----------------------------------------------------------------------------
(* Types *)

LEMMA RestType == Idle \in Resolvers /\ NoHandler \in Handlers
BY BoundsAssumption
   DEF Idle, Resolvers, Kinds, ProcPc, TimerStates, NoHandler, Handlers, HandlerPc, Confirmation

LEMMA InitType == Init => TypeOK
<1>1. Init => failures \in 0..MaxFailures /\ crashes \in 0..MaxCrashes /\ toggles \in 0..MaxToggles
  BY BoundsAssumption DEF Init
<1>2. Init => /\ handler \in [Redemptions -> Handlers] /\ proc \in [Procs -> Resolvers]
  BY RestType DEF Init
<1>3. Init => /\ twitch \in [Redemptions -> TwitchStatus] /\ row \in [Redemptions -> RowStatus]
              /\ timer \in [Redemptions -> TimerStates]
  BY DEF Init, TwitchStatus, RowStatus, TimerStates
<1>4. Init => ledger \in [Redemptions -> SUBSET Effects]
  BY DEF Init
<1>5. Init => /\ applied \in [Redemptions -> Nat] /\ reverted \in [Redemptions -> Nat]
              /\ overlays \in [Redemptions -> Nat] /\ pushes \in [Redemptions -> Nat]
  BY DEF Init
<1>6. Init => /\ confirmOn \in BOOLEAN /\ pricingOn \in BOOLEAN /\ unswept \in BOOLEAN
              /\ phase \in {"down", "sweeping", "up"} /\ toSweep \in SUBSET Redemptions
              /\ seen \in SUBSET Redemptions /\ claimed \in SUBSET Redemptions
  BY DEF Init
<1> QED
  BY <1>1, <1>2, <1>3, <1>4, <1>5, <1>6 DEF TypeOK

\* The helpers of the handler keep `handler`, `claimed` and `seen` well typed.
LEMMA HandlerHelpersType ==
  ASSUME TypeOK, NEW r \in Redemptions
  PROVE  /\ \A pc \in HandlerPc : Goto(r, pc) => handler' \in [Redemptions -> Handlers]
         /\ Throw(r) => handler' \in [Redemptions -> Handlers] /\ claimed' \in SUBSET Redemptions
         /\ MarkHandledInMemory(r) => /\ handler' \in [Redemptions -> Handlers]
                                      /\ claimed' \in SUBSET Redemptions
                                      /\ seen' \in SUBSET Redemptions
<1>1. ASSUME NEW pc \in HandlerPc, Goto(r, pc) PROVE handler' \in [Redemptions -> Handlers]
  BY <1>1 DEF TypeOK, Goto, Handlers
<1>2. Throw(r) => handler' \in [Redemptions -> Handlers] /\ claimed' \in SUBSET Redemptions
  BY RestType DEF TypeOK, Throw
<1>3. MarkHandledInMemory(r) => /\ handler' \in [Redemptions -> Handlers]
                                /\ claimed' \in SUBSET Redemptions
                                /\ seen' \in SUBSET Redemptions
  BY RestType DEF TypeOK, MarkHandledInMemory
<1> QED
  BY <1>1, <1>2, <1>3

LEMMA FailsType == TypeOK /\ Fails => failures' \in 0..MaxFailures
BY BoundsAssumption DEF TypeOK, Fails

\* The helpers of the resolving calls keep `proc` and `timer` well typed.
LEMMA ResolverHelpersType ==
  ASSUME TypeOK, NEW p \in Procs
  PROVE  /\ \A r \in Redemptions, kind \in Kinds, goal \in {"fulfilled", "refunded"} :
              Start(p, r, kind, goal) => proc' \in [Procs -> Resolvers]
         /\ \A pc \in ProcPc : At(p, pc) => proc' \in [Procs -> Resolvers]
         /\ Finish(p) => proc' \in [Procs -> Resolvers]
         /\ Abort(p) => proc' \in [Procs -> Resolvers] /\ timer' \in [Redemptions -> TimerStates]
<1>1. Idle \in Resolvers
  BY RestType
<1>2. ASSUME NEW r \in Redemptions, NEW kind \in Kinds, NEW goal \in {"fulfilled", "refunded"},
             Start(p, r, kind, goal)
      PROVE  proc' \in [Procs -> Resolvers]
  BY <1>1, <1>2 DEF Start, TypeOK, Resolvers, ProcPc
<1>3. ASSUME NEW pc \in ProcPc, At(p, pc) PROVE proc' \in [Procs -> Resolvers]
  BY <1>3 DEF At, TypeOK, Resolvers
<1>4. Finish(p) => proc' \in [Procs -> Resolvers]
  BY <1>1 DEF Finish, TypeOK
<1>5. Abort(p) => timer' \in [Redemptions -> TimerStates]
  BY DEF Abort, TypeOK, TimerStates
<1> QED
  BY <1>2, <1>3, <1>4, <1>5 DEF Abort

\* Every step keeps every variable well typed.
LEMMA NextType == TypeOK /\ [Next]_vars => TypeOK'
<1>1. SUFFICES ASSUME TypeOK, [Next]_vars PROVE TypeOK'
  OBVIOUS
<1> USE DEF twitchVars, dbVars, resolverUnchanged
<1>2. ASSUME NEW r \in Redemptions, Deliver(r) PROVE TypeOK'
  BY <1>1, <1>2, HandlerHelpersType DEF Deliver, TypeOK, HandlerPc
<1>3. ASSUME NEW r \in Redemptions, SeenExpires(r) PROVE TypeOK'
  BY <1>1, <1>3 DEF SeenExpires, TypeOK
<1>4. ASSUME NEW r \in Redemptions, ReadProgress(r) PROVE TypeOK'
  BY <1>1, <1>4, HandlerHelpersType, FailsType DEF ReadProgress, TypeOK, HandlerPc
<1>5. ASSUME NEW r \in Redemptions, RecordDashboard(r) PROVE TypeOK'
  BY <1>1, <1>5, HandlerHelpersType, FailsType DEF RecordDashboard, TypeOK, HandlerPc, Effects
<1>6. ASSUME NEW r \in Redemptions, ApplyPricing(r) PROVE TypeOK'
  BY <1>1, <1>6, HandlerHelpersType, FailsType DEF ApplyPricing, TypeOK, HandlerPc, Effects
<1>7. ASSUME NEW r \in Redemptions, PrepareConfirmation(r) PROVE TypeOK'
  <2>1. handler' \in [Redemptions -> Handlers]
    <3>1. \A conf \in Confirmation : [pc |-> "markHandled", conf |-> conf] \in Handlers
      BY DEF Handlers, HandlerPc
    <3>2. \A conf \in Confirmation :
            handler' = [handler EXCEPT ![r] = [pc |-> "markHandled", conf |-> conf]]
              => handler' \in [Redemptions -> Handlers]
      BY <1>1, <3>1 DEF TypeOK
    <3> QED
      BY <1>1, <1>7, <3>2, HandlerHelpersType DEF PrepareConfirmation, Confirmation
  <2>2. row' \in [Redemptions -> RowStatus] /\ timer' \in [Redemptions -> TimerStates]
    BY <1>1, <1>7 DEF PrepareConfirmation, TypeOK, RowStatus, TimerStates
  <2>3. claimed' \in SUBSET Redemptions
    BY <1>1, <1>7, HandlerHelpersType DEF PrepareConfirmation, TypeOK
  <2> QED
    BY <1>1, <1>7, <2>1, <2>2, <2>3, FailsType DEF PrepareConfirmation, TypeOK
<1>8. ASSUME NEW r \in Redemptions, MarkHandled(r) PROVE TypeOK'
  BY <1>1, <1>8, HandlerHelpersType, FailsType DEF MarkHandled, TypeOK, HandlerPc, Effects
<1>9. ASSUME NEW r \in Redemptions, PushToCompanion(r) PROVE TypeOK'
  BY <1>1, <1>9, HandlerHelpersType, ResolverHelpersType, FailsType
     DEF PushToCompanion, TypeOK, Kinds, TimerStates
<1>10. ASSUME NEW r \in Redemptions, TimerFires(r) PROVE TypeOK'
  BY <1>1, <1>10, ResolverHelpersType DEF TimerFires, TypeOK, Kinds, TimerStates
<1>11. ASSUME NEW r \in Redemptions, NEW goal \in {"fulfilled", "refunded"}, Acknowledge(r, goal)
       PROVE  TypeOK'
  BY <1>1, <1>11, ResolverHelpersType DEF Acknowledge, TypeOK, Kinds, TimerStates
<1>12. ASSUME NEW p \in Procs, Claim(p) PROVE TypeOK'
  <2>1. row' \in [Redemptions -> RowStatus]
    BY <1>1, <1>12 DEF Claim, TypeOK, RowStatus, Resolvers
  <2> QED
    BY <1>1, <1>12, <2>1, ResolverHelpersType, FailsType DEF Claim, TypeOK, ProcPc
<1>13. ASSUME NEW p \in Procs, CallTwitch(p) PROVE TypeOK'
  <2>1. twitch' \in [Redemptions -> TwitchStatus]
    BY <1>1, <1>13 DEF CallTwitch, Answered, Answer, TypeOK, TwitchStatus
  <2>2. MayRetry(p) /\ proc' = [proc EXCEPT ![p].attempt = @ + 1] => proc' \in [Procs -> Resolvers]
    BY <1>1, BoundsAssumption DEF MayRetry, TypeOK, Resolvers
  <2>3. proc' \in [Procs -> Resolvers]
    BY <1>1, <1>13, <2>2, ResolverHelpersType DEF CallTwitch, ProcPc
  <2> QED
    BY <1>1, <1>13, <2>1, <2>3, FailsType DEF CallTwitch, TypeOK
<1>14. ASSUME NEW p \in Procs, Release(p) PROVE TypeOK'
  BY <1>1, <1>14, ResolverHelpersType, FailsType DEF Release, TypeOK, RowStatus
<1>15. ASSUME NEW p \in Procs, Revert(p) PROVE TypeOK'
  BY <1>1, <1>15, ResolverHelpersType, FailsType DEF Revert, TypeOK, ProcPc
<1>16. ASSUME NEW p \in Procs, MarkRefundFailed(p) PROVE TypeOK'
  BY <1>1, <1>16, ResolverHelpersType, FailsType DEF MarkRefundFailed, TypeOK, RowStatus
<1>17. ASSUME Restart PROVE TypeOK'
  BY <1>1, <1>17, FailsType DEF Restart, TypeOK
<1>18. ASSUME SweepEnds PROVE TypeOK'
  BY <1>1, <1>18 DEF SweepEnds, TypeOK, processLocal
<1>19. ASSUME NEW r \in Redemptions, Sweep(r) PROVE TypeOK'
  BY <1>1, <1>19, ResolverHelpersType DEF Sweep, TypeOK, Kinds
<1>20. ASSUME Crash PROVE TypeOK'
  <2>1. handler' \in [Redemptions -> Handlers] /\ proc' \in [Procs -> Resolvers]
    BY <1>20, RestType DEF Crash
  <2>2. timer' \in [Redemptions -> TimerStates]
    BY <1>20 DEF Crash, TimerStates
  <2>3. crashes' \in 0..MaxCrashes
    BY <1>1, <1>20, BoundsAssumption DEF Crash, TypeOK
  <2> QED
    BY <1>1, <1>20, <2>1, <2>2, <2>3 DEF Crash, TypeOK
<1>21. ASSUME ToggleConfirmation PROVE TypeOK'
  BY <1>1, <1>21, BoundsAssumption DEF ToggleConfirmation, TypeOK, memVars
<1>22. ASSUME TogglePricing PROVE TypeOK'
  BY <1>1, <1>22, BoundsAssumption DEF TogglePricing, TypeOK, memVars
<1>23. ASSUME UNCHANGED vars PROVE TypeOK'
  BY <1>1, <1>23 DEF vars, memVars, TypeOK
<1> QED
  BY <1>1, <1>2, <1>3, <1>4, <1>5, <1>6, <1>7, <1>8, <1>9, <1>10, <1>11, <1>12, <1>13, <1>14,
     <1>15, <1>16, <1>17, <1>18, <1>19, <1>20, <1>21, <1>22, <1>23
     DEF Next, HandlerStep, ResolverStep, Startup

\* Every variable keeps its type.
THEOREM TypeCorrect == Spec => []TypeOK
BY InitType, NextType, PTL DEF Spec

-----------------------------------------------------------------------------
(* One resolver per redemption, and its goal is what the row says.           *)

\* A call that is under way has a redemption.
BusyHasRedemption == \A p \in Procs : proc[p].pc # "idle" => proc[p].on \in Redemptions

\* Past the claim, the row holds the status it was claimed for, and only a
\* refund goes beyond the call to Twitch.
ClaimedRow ==
  \A r \in Redemptions : \A p \in Procs :
    Resolving(p, r) =>
      row[r] = proc[p].goal /\ (proc[p].pc # "twitch" => proc[p].goal = "refunded")

\* OneResolver alone is not inductive: a claim excludes another resolver only
\* because no resolver leaves the row pending.
ResolverInv == TypeOK /\ BusyHasRedemption /\ ClaimedRow /\ OneResolver

LEMMA ResolverInvInit == Init => ResolverInv
BY InitType, NoneAssumption
   DEF Init, ResolverInv, BusyHasRedemption, ClaimedRow, OneResolver, Resolving, Idle

LEMMA ResolverInvKept ==
  ASSUME ResolverInv, TypeOK', UNCHANGED <<row, proc>> PROVE ResolverInv'
BY DEF ResolverInv, BusyHasRedemption, ClaimedRow, OneResolver, Resolving

\* A call that starts is not past the claim.
LEMMA ResolverInvStart ==
  ASSUME ResolverInv, TypeOK', UNCHANGED row, NEW p \in Procs, Free(p), NEW r \in Redemptions,
         NEW kind \in Kinds, NEW goal \in {"fulfilled", "refunded"}, Start(p, r, kind, goal)
  PROVE  ResolverInv'
<1>1. \A q \in Procs : q # p => proc'[q] = proc[q]
  BY DEF Start, ResolverInv, TypeOK
<1>2. proc'[p].pc = "claim" /\ proc'[p].on = r
  BY DEF Start, ResolverInv, TypeOK, Idle
<1>3. BusyHasRedemption'
  BY <1>1, <1>2 DEF ResolverInv, BusyHasRedemption
<1>4. \A s \in Redemptions, q \in Procs :
        proc'[q].on = s /\ proc'[q].pc \notin {"idle", "claim"}
          => q # p /\ Resolving(q, s)
  BY <1>1, <1>2 DEF Resolving
<1>5. ClaimedRow'
  BY <1>1, <1>4 DEF ResolverInv, ClaimedRow, Resolving
<1>6. OneResolver'
  BY <1>4 DEF ResolverInv, OneResolver, Resolving
<1> QED
  BY <1>3, <1>5, <1>6 DEF ResolverInv

\* A call that ends leaves its row to nobody: no other call is past the claim.
LEMMA ResolverInvFinish ==
  ASSUME ResolverInv, TypeOK', NEW p \in Procs, Finish(p),
         \A r \in Redemptions : row'[r] # row[r] => Resolving(p, r)
  PROVE  ResolverInv'
<1>1. \A q \in Procs : q # p => proc'[q] = proc[q]
  BY DEF Finish, ResolverInv, TypeOK
<1>2. proc'[p].pc = "idle"
  BY DEF Finish, ResolverInv, TypeOK, Idle
<1>3. BusyHasRedemption'
  BY <1>1, <1>2 DEF ResolverInv, BusyHasRedemption
<1>4. \A r \in Redemptions, q \in Procs :
        proc'[q].on = r /\ proc'[q].pc \notin {"idle", "claim"}
          => q # p /\ Resolving(q, r) /\ row'[r] = row[r]
  BY <1>1, <1>2 DEF Resolving, ResolverInv, OneResolver
<1>5. ClaimedRow'
  BY <1>1, <1>4 DEF ResolverInv, ClaimedRow, Resolving
<1>6. OneResolver'
  BY <1>4 DEF ResolverInv, OneResolver, Resolving
<1> QED
  BY <1>3, <1>5, <1>6 DEF ResolverInv

\* A refund moves on past the call to Twitch.
LEMMA ResolverInvAt ==
  ASSUME ResolverInv, TypeOK', UNCHANGED row, NEW p \in Procs,
         proc[p].pc \notin {"idle", "claim"}, proc[p].goal = "refunded",
         NEW pc \in ProcPc \ {"idle", "claim"}, At(p, pc)
  PROVE  ResolverInv'
<1>1. \A q \in Procs : q # p => proc'[q] = proc[q]
  BY DEF At, ResolverInv, TypeOK
<1>2. proc'[p].pc = pc /\ proc'[p].on = proc[p].on /\ proc'[p].goal = proc[p].goal
  BY DEF At, ResolverInv, TypeOK, Resolvers
<1>3. BusyHasRedemption'
  BY <1>1, <1>2 DEF ResolverInv, BusyHasRedemption
<1>4. \A r \in Redemptions, q \in Procs :
        proc'[q].on = r /\ proc'[q].pc \notin {"idle", "claim"} => Resolving(q, r)
  BY <1>1, <1>2 DEF Resolving
<1>5. ClaimedRow'
  BY <1>1, <1>2, <1>4 DEF ResolverInv, ClaimedRow, Resolving
<1>6. OneResolver'
  BY <1>4 DEF ResolverInv, OneResolver, Resolving
<1> QED
  BY <1>3, <1>5, <1>6 DEF ResolverInv

\* The claim: a pending row has no resolver, and then gets one.
LEMMA ResolverInvClaim ==
  ASSUME ResolverInv, TypeOK', NEW p \in Procs, Claim(p) PROVE ResolverInv'
<1> DEFINE r == proc[p].on
<1>0. r \in Redemptions /\ proc[p].pc = "claim"
  BY DEF Claim, ResolverInv, BusyHasRedemption
<1>1. CASE Finish(p) /\ UNCHANGED row
  BY <1>1, ResolverInvFinish
<1>2. Claimable(r) => \A q \in Procs : ~Resolving(q, r)
  BY <1>0 DEF Claimable, ResolverInv, ClaimedRow, TypeOK, Resolvers
<1>3. CASE Claimable(r) /\ row' = [row EXCEPT ![r] = proc[p].goal] /\ At(p, "twitch")
  <2>1. \A q \in Procs : q # p => proc'[q] = proc[q]
    BY <1>3 DEF At, ResolverInv, TypeOK
  <2>2. proc'[p].pc = "twitch" /\ proc'[p].on = r /\ proc'[p].goal = proc[p].goal
    BY <1>3 DEF At, ResolverInv, TypeOK, Resolvers
  <2>3. row'[r] = proc[p].goal /\ \A s \in Redemptions : s # r => row'[s] = row[s]
    BY <1>0, <1>3 DEF ResolverInv, TypeOK
  <2>4. BusyHasRedemption'
    BY <1>0, <2>1, <2>2 DEF ResolverInv, BusyHasRedemption
  <2>5. \A s \in Redemptions, q \in Procs :
          proc'[q].on = s /\ proc'[q].pc \notin {"idle", "claim"}
            => (q = p /\ s = r) \/ (q # p /\ s # r /\ Resolving(q, s))
    BY <1>2, <1>3, <2>1, <2>2 DEF Resolving
  <2>6. ClaimedRow'
    BY <2>1, <2>2, <2>3, <2>5 DEF ResolverInv, ClaimedRow, Resolving
  <2>7. OneResolver'
    BY <2>5 DEF ResolverInv, OneResolver, Resolving
  <2> QED
    BY <2>4, <2>6, <2>7 DEF ResolverInv
<1>4. CASE Claimable(r) /\ row' = [row EXCEPT ![r] = proc[p].goal] /\ Finish(p)
  <2>1. \A q \in Procs : q # p => proc'[q] = proc[q]
    BY <1>4 DEF Finish, ResolverInv, TypeOK
  <2>2. proc'[p].pc = "idle"
    BY <1>4 DEF Finish, ResolverInv, TypeOK, Idle
  <2>3. \A s \in Redemptions : s # r => row'[s] = row[s]
    BY <1>0, <1>4 DEF ResolverInv, TypeOK
  <2>4. BusyHasRedemption'
    BY <2>1, <2>2 DEF ResolverInv, BusyHasRedemption
  <2>5. \A s \in Redemptions, q \in Procs :
          proc'[q].on = s /\ proc'[q].pc \notin {"idle", "claim"}
            => q # p /\ s # r /\ Resolving(q, s)
    BY <1>2, <1>4, <2>1, <2>2 DEF Resolving
  <2>6. ClaimedRow'
    BY <2>1, <2>3, <2>5 DEF ResolverInv, ClaimedRow, Resolving
  <2>7. OneResolver'
    BY <2>5 DEF ResolverInv, OneResolver, Resolving
  <2> QED
    BY <2>4, <2>6, <2>7 DEF ResolverInv
<1> QED
  BY <1>1, <1>3, <1>4 DEF Claim, Abort

\* The call to Twitch and what follows it.
LEMMA ResolverInvAfterClaim ==
  ASSUME ResolverInv, TypeOK', NEW p \in Procs,
         CallTwitch(p) \/ Release(p) \/ Revert(p) \/ MarkRefundFailed(p)
  PROVE  ResolverInv'
<1> DEFINE r == proc[p].on
<1>1. proc[p].pc \notin {"idle", "claim"} /\ r \in Redemptions /\ Resolving(p, r)
  BY DEF CallTwitch, Release, Revert, MarkRefundFailed, ResolverInv, BusyHasRedemption, Resolving
<1>2. proc[p].pc # "twitch" => proc[p].goal = "refunded"
  BY <1>1 DEF ResolverInv, ClaimedRow
<1>3. \A s \in Redemptions, v \in RowStatus : row' = [row EXCEPT ![r] = v] => (row'[s] # row[s] => s = r)
  BY <1>1 DEF ResolverInv, TypeOK
<1>4. CASE CallTwitch(p)
  <2>1. UNCHANGED row
    BY <1>4 DEF CallTwitch
  <2>2. CASE Finish(p)
    BY <2>1, <2>2, ResolverInvFinish
  <2>3. CASE proc[p].goal = "refunded" /\ \E pc \in {"revert", "revertRefused", "release"} : At(p, pc)
    BY <1>1, <2>1, <2>3, ResolverInvAt DEF ProcPc
  <2>4. CASE proc' = [proc EXCEPT ![p].attempt = @ + 1]
    <3>1. \A q \in Procs : /\ proc'[q].on = proc[q].on /\ proc'[q].pc = proc[q].pc
                           /\ proc'[q].goal = proc[q].goal
      BY <2>4 DEF ResolverInv, TypeOK, Resolvers
    <3> QED
      BY <2>1, <3>1 DEF ResolverInv, BusyHasRedemption, ClaimedRow, OneResolver, Resolving
  <2> QED
    BY <1>4, <2>2, <2>3, <2>4 DEF CallTwitch
<1>5. CASE Release(p)
  BY <1>1, <1>3, <1>5, ResolverInvFinish DEF Release, Abort, RowStatus
<1>6. CASE Revert(p)
  <2>1. UNCHANGED row /\ proc[p].goal = "refunded"
    BY <1>2, <1>6 DEF Revert
  <2> QED
    BY <1>1, <1>6, <2>1, ResolverInvAt, ResolverInvFinish DEF Revert, ProcPc
<1>7. CASE MarkRefundFailed(p)
  BY <1>1, <1>3, <1>7, ResolverInvFinish DEF MarkRefundFailed, Abort, RowStatus
<1> QED
  BY <1>4, <1>5, <1>6, <1>7

LEMMA ResolverInvNext == ResolverInv /\ [Next]_vars => ResolverInv'
<1>1. SUFFICES ASSUME ResolverInv, [Next]_vars PROVE ResolverInv'
  OBVIOUS
<1>2. TypeOK'
  BY <1>1, NextType DEF ResolverInv
<1> USE DEF twitchVars, dbVars, memVars, processLocal, resolverUnchanged
<1>3. ASSUME NEW r \in Redemptions,
             Deliver(r) \/ SeenExpires(r) \/ ReadProgress(r) \/ RecordDashboard(r)
               \/ ApplyPricing(r) \/ MarkHandled(r)
      PROVE  ResolverInv'
  BY <1>1, <1>2, <1>3, ResolverInvKept
     DEF Deliver, SeenExpires, ReadProgress, RecordDashboard, ApplyPricing, MarkHandled
<1>4. ASSUME NEW r \in Redemptions, PrepareConfirmation(r) PROVE ResolverInv'
  <2>1. UNCHANGED proc /\ \A s \in Redemptions : row'[s] # row[s] => row[s] = "absent"
    BY <1>1, <1>4 DEF PrepareConfirmation, ResolverInv, TypeOK
  <2>2. \A s \in Redemptions, q \in Procs : Resolving(q, s) => row[s] # "absent"
    BY <1>1 DEF ResolverInv, ClaimedRow, TypeOK, Resolvers
  <2> QED
    BY <1>1, <1>2, <2>1, <2>2 DEF ResolverInv, BusyHasRedemption, ClaimedRow, OneResolver, Resolving
<1>5. ASSUME NEW r \in Redemptions,
             PushToCompanion(r) \/ TimerFires(r) \/ Sweep(r)
               \/ \E goal \in {"fulfilled", "refunded"} : Acknowledge(r, goal)
      PROVE  ResolverInv'
  <2>1. UNCHANGED row
    BY <1>5 DEF PushToCompanion, TimerFires, Sweep, Acknowledge
  <2>2. \/ UNCHANGED proc
        \/ \E p \in Procs, kind \in Kinds, goal \in {"fulfilled", "refunded"} :
             Free(p) /\ Start(p, r, kind, goal)
    BY <1>5 DEF PushToCompanion, TimerFires, Sweep, Acknowledge, Kinds
  <2> QED
    BY <1>1, <1>2, <2>1, <2>2, ResolverInvKept, ResolverInvStart
<1>6. ASSUME NEW p \in Procs, ResolverStep(p) PROVE ResolverInv'
  BY <1>1, <1>2, <1>6, ResolverInvClaim, ResolverInvAfterClaim DEF ResolverStep
<1>7. CASE Restart \/ SweepEnds \/ ToggleConfirmation \/ TogglePricing \/ UNCHANGED vars
  BY <1>1, <1>2, <1>7, ResolverInvKept
     DEF Restart, SweepEnds, ToggleConfirmation, TogglePricing, vars
<1>8. CASE Crash
  <2>1. \A p \in Procs : proc'[p].pc = "idle"
    BY <1>8 DEF Crash, Idle
  <2> QED
    BY <1>2, <2>1 DEF ResolverInv, BusyHasRedemption, ClaimedRow, OneResolver, Resolving
<1> QED
  BY <1>1, <1>3, <1>4, <1>5, <1>6, <1>7, <1>8 DEF Next, HandlerStep, Startup

LEMMA ResolverInvInvariant == Spec => []ResolverInv
BY ResolverInvInit, ResolverInvNext, PTL DEF Spec

\* However timer, acknowledgement, missing companion app and startup sweep
\* race, at most one of them resolves a redemption.
THEOREM OneResolverHolds == Spec => []OneResolver
BY ResolverInvInvariant, PTL DEF ResolverInv

\* A redemption is given on Twitch the status its row was claimed for.
THEOREM TwitchFollowsRowHolds == Spec => TwitchFollowsRow
<1> DEFINE Follows ==
      \A r \in Redemptions :
        /\ twitch[r] # "CANCELED" /\ twitch'[r] = "CANCELED" => row[r] = "refunded"
        /\ twitch[r] # "FULFILLED" /\ twitch'[r] = "FULFILLED" => row[r] = "fulfilled"
<1>1. ResolverInv /\ [Next]_vars => [Follows]_vars
  <2>1. SUFFICES ASSUME ResolverInv, [Next]_vars, NEW r \in Redemptions, twitch'[r] # twitch[r]
                 PROVE  /\ twitch'[r] = "CANCELED" => row[r] = "refunded"
                        /\ twitch'[r] = "FULFILLED" => row[r] = "fulfilled"
    OBVIOUS
  <2>2. PICK p \in Procs : CallTwitch(p)
    BY <2>1 DEF Next, HandlerStep, ResolverStep, Startup, Deliver, SeenExpires, ReadProgress,
       RecordDashboard, ApplyPricing, PrepareConfirmation, MarkHandled, PushToCompanion,
       TimerFires, Acknowledge, Claim, Release, Revert, MarkRefundFailed, Restart, SweepEnds,
       Sweep, Crash, ToggleConfirmation, TogglePricing, vars, twitchVars
  <2>3. proc[p].on \in Redemptions /\ proc[p].pc = "twitch"
    BY <2>1, <2>2 DEF CallTwitch, ResolverInv, BusyHasRedemption
  <2>4. Answered(p)
    BY <2>1, <2>2 DEF CallTwitch
  <2>5. r = proc[p].on /\ twitch'[r] = Answer(proc[p].goal)
    BY <2>1, <2>3, <2>4 DEF Answered, ResolverInv, TypeOK
  <2>6. row[r] = proc[p].goal /\ proc[p].goal \in {"fulfilled", "refunded"}
    BY <2>1, <2>3, <2>5 DEF ResolverInv, ClaimedRow, Resolving, TypeOK, Resolvers
  <2> QED
    BY <2>5, <2>6 DEF Answer
<1> QED
  BY <1>1, ResolverInvInvariant, PTL DEF Spec, TwitchFollowsRow

-----------------------------------------------------------------------------
(* Effects run at most once.                                                 *)

\* The `handled` write separates what may be repeated from what may not: the
\* overlay and the push come after it, and no attempt starts once it is there.
DeliveryInv ==
  \A r \in Redemptions :
    /\ handler[r].pc \in {"dashboard", "pricing", "confirm", "markHandled"}
         => "handled" \notin ledger[r]
    /\ "handled" \notin ledger[r] => overlays[r] = 0 /\ pushes[r] = 0
    /\ handler[r].pc = "push" => "handled" \in ledger[r] /\ pushes[r] = 0
    /\ overlays[r] \in {0, 1} /\ pushes[r] \in {0, 1}
    /\ "pricing_applied" \notin ledger[r] => applied[r] = 0
    /\ applied[r] \in {0, 1}

deliveryVars == <<handler, ledger, overlays, pushes, applied>>

\* An attempt of one redemption leaves the others alone.
LEMMA HandlerHelpersKeep ==
  ASSUME TypeOK, NEW r \in Redemptions
  PROVE  /\ \A pc \in HandlerPc : Goto(r, pc) =>
              handler'[r].pc = pc /\ \A s \in Redemptions : s # r => handler'[s] = handler[s]
         /\ Throw(r) \/ MarkHandledInMemory(r) =>
              handler'[r].pc = "idle" /\ \A s \in Redemptions : s # r => handler'[s] = handler[s]
BY DEF TypeOK, Goto, Throw, MarkHandledInMemory, NoHandler, Handlers

LEMMA DeliveryNext == TypeOK /\ DeliveryInv /\ [Next]_vars => DeliveryInv'
<1>1. SUFFICES ASSUME TypeOK, DeliveryInv, [Next]_vars PROVE DeliveryInv'
  OBVIOUS
<1> USE DEF twitchVars, dbVars, memVars, processLocal, resolverUnchanged
<1>2. ASSUME NEW r \in Redemptions, Deliver(r) PROVE DeliveryInv'
  <2>1. handler'[r].pc = "progress" /\ \A s \in Redemptions : s # r => handler'[s] = handler[s]
    BY <1>1, <1>2, HandlerHelpersKeep DEF Deliver, HandlerPc
  <2> QED
    BY <1>1, <1>2, <2>1 DEF Deliver, DeliveryInv
<1>3. ASSUME NEW r \in Redemptions, ReadProgress(r) PROVE DeliveryInv'
  <2>1. /\ handler'[r].pc = "idle" \/ (handler'[r].pc = "dashboard" /\ "handled" \notin ledger[r])
        /\ \A s \in Redemptions : s # r => handler'[s] = handler[s]
    BY <1>1, <1>3, HandlerHelpersKeep DEF ReadProgress, AlreadyHandled, HandlerPc
  <2> QED
    BY <1>1, <1>3, <2>1 DEF ReadProgress, DeliveryInv
<1>4. ASSUME NEW r \in Redemptions, RecordDashboard(r) PROVE DeliveryInv'
  <2>1. /\ handler'[r].pc \in {"idle", "pricing"}
        /\ \A s \in Redemptions : s # r => handler'[s] = handler[s]
    BY <1>1, <1>4, HandlerHelpersKeep DEF RecordDashboard, HandlerPc
  <2>2. /\ \A e \in Effects \ {"dashboard_recorded"} : e \in ledger'[r] <=> e \in ledger[r]
        /\ \A s \in Redemptions : s # r => ledger'[s] = ledger[s]
    BY <1>1, <1>4 DEF RecordDashboard, TypeOK
  <2> QED
    BY <1>1, <1>4, <2>1, <2>2 DEF RecordDashboard, DeliveryInv, Effects
<1>5. ASSUME NEW r \in Redemptions, ApplyPricing(r) PROVE DeliveryInv'
  <2>1. /\ handler'[r].pc \in {"idle", "confirm"}
        /\ \A s \in Redemptions : s # r => handler'[s] = handler[s]
    BY <1>1, <1>5, HandlerHelpersKeep DEF ApplyPricing, HandlerPc
  <2>2. /\ "handled" \in ledger'[r] <=> "handled" \in ledger[r]
        /\ \A s \in Redemptions : s # r => ledger'[s] = ledger[s] /\ applied'[s] = applied[s]
    BY <1>1, <1>5 DEF ApplyPricing, TypeOK
  <2>3. \/ applied'[r] = applied[r] /\ ledger'[r] = ledger[r]
        \/ "pricing_applied" \in ledger'[r] /\ applied'[r] = applied[r]
        \/ /\ "pricing_applied" \in ledger'[r] /\ "pricing_applied" \notin ledger[r]
           /\ applied'[r] = applied[r] + 1
    BY <1>1, <1>5 DEF ApplyPricing, TypeOK
  <2> QED
    BY <1>1, <1>5, <2>1, <2>2, <2>3 DEF ApplyPricing, DeliveryInv
<1>6. ASSUME NEW r \in Redemptions, PrepareConfirmation(r) PROVE DeliveryInv'
  <2>1. /\ handler'[r].pc \in {"idle", "markHandled"}
        /\ \A s \in Redemptions : s # r => handler'[s] = handler[s]
    BY <1>1, <1>6, HandlerHelpersKeep DEF PrepareConfirmation, TypeOK
  <2> QED
    BY <1>1, <1>6, <2>1 DEF PrepareConfirmation, DeliveryInv
<1>7. ASSUME NEW r \in Redemptions, MarkHandled(r) PROVE DeliveryInv'
  <2>1. /\ handler'[r].pc \in {"idle", "push"}
        /\ \A s \in Redemptions : s # r => handler'[s] = handler[s]
    BY <1>1, <1>7, HandlerHelpersKeep DEF MarkHandled, HandlerPc
  <2>2. CASE UNCHANGED <<ledger, overlays>> /\ Throw(r)
    <3>1. handler'[r].pc = "idle"
      BY <1>1, <2>2, HandlerHelpersKeep
    <3> QED
      BY <1>1, <1>7, <2>1, <2>2, <3>1 DEF MarkHandled, DeliveryInv
  <2>3. CASE /\ ledger' = [ledger EXCEPT ![r] = @ \cup {"handled"}]
             /\ overlays' = [overlays EXCEPT ![r] = @ + 1]
    <3>1. overlays[r] = 0 /\ pushes[r] = 0
      BY <1>1, <1>7 DEF MarkHandled, DeliveryInv
    <3>2. /\ overlays'[r] = 1 /\ "handled" \in ledger'[r]
          /\ "pricing_applied" \in ledger'[r] <=> "pricing_applied" \in ledger[r]
          /\ \A s \in Redemptions : s # r => ledger'[s] = ledger[s] /\ overlays'[s] = overlays[s]
      BY <1>1, <2>3, <3>1 DEF TypeOK
    <3> QED
      BY <1>1, <1>7, <2>1, <3>1, <3>2 DEF MarkHandled, DeliveryInv
  <2> QED
    BY <1>7, <2>2, <2>3 DEF MarkHandled
<1>8. ASSUME NEW r \in Redemptions, PushToCompanion(r) PROVE DeliveryInv'
  <2>1. handler'[r].pc = "idle" /\ \A s \in Redemptions : s # r => handler'[s] = handler[s]
    BY <1>1, <1>8, HandlerHelpersKeep DEF PushToCompanion
  <2>2. /\ pushes[r] = 0 /\ pushes'[r] \in {0, 1}
        /\ \A s \in Redemptions : s # r => pushes'[s] = pushes[s]
    BY <1>1, <1>8 DEF PushToCompanion, DeliveryInv, TypeOK
  <2>3. "handled" \notin ledger[r] => pushes'[r] = 0
    BY <1>1, <1>8, <2>2 DEF PushToCompanion, DeliveryInv, TypeOK
  <2> QED
    BY <1>1, <1>8, <2>1, <2>2, <2>3 DEF PushToCompanion, DeliveryInv
<1>9. CASE Crash
  <2>1. \A r \in Redemptions : handler'[r].pc = "idle"
    BY <1>9 DEF Crash, NoHandler
  <2> QED
    BY <1>1, <1>9, <2>1 DEF Crash, DeliveryInv
<1>10. CASE UNCHANGED deliveryVars
  BY <1>1, <1>10 DEF deliveryVars, DeliveryInv
<1> QED
  BY <1>1, <1>2, <1>3, <1>4, <1>5, <1>6, <1>7, <1>8, <1>9, <1>10
     DEF Next, HandlerStep, ResolverStep, Startup, deliveryVars, vars, SeenExpires, TimerFires,
         Acknowledge, Claim, CallTwitch, Release, Revert, MarkRefundFailed, Restart, SweepEnds,
         Sweep, ToggleConfirmation, TogglePricing

\* The increment is taken back off only on the way out of a refund, which
\* nobody repeats: the row is resolved for good.
RevertInv ==
  \A r \in Redemptions :
    /\ reverted[r] \in {0, 1}
    /\ reverted[r] = 1 =>
         /\ row[r] \in {"refunded", "refund_failed"}
         /\ \A p \in Procs : Resolving(p, r) => proc[p].pc = "markFailed"

\* A step after which no call has gone further for a redemption whose
\* increment is off already, and whose row it leaves alone.
LEMMA RevertKept ==
  ASSUME RevertInv, UNCHANGED reverted,
         \A r \in Redemptions : reverted[r] = 1 => row'[r] \in {"refunded", "refund_failed"},
         \A r \in Redemptions, p \in Procs :
           reverted[r] = 1 /\ proc'[p].on = r /\ proc'[p].pc \notin {"idle", "claim"}
             => proc'[p].pc = "markFailed"
  PROVE  RevertInv'
BY DEF RevertInv, Resolving

LEMMA RevertNext == ResolverInv /\ RevertInv /\ [Next]_vars => RevertInv'
<1>1. SUFFICES ASSUME ResolverInv, RevertInv, [Next]_vars PROVE RevertInv'
  OBVIOUS
<1> USE DEF twitchVars, dbVars, memVars, processLocal, resolverUnchanged
<1>2. ASSUME UNCHANGED <<reverted, row, proc>> PROVE RevertInv'
  BY <1>1, <1>2 DEF RevertInv, Resolving
<1>3. ASSUME NEW r \in Redemptions, PrepareConfirmation(r) PROVE RevertInv'
  <2>1. UNCHANGED <<proc, reverted>> /\ \A s \in Redemptions : row'[s] # row[s] => row[s] = "absent"
    BY <1>1, <1>3 DEF PrepareConfirmation, ResolverInv, TypeOK
  <2> QED
    BY <1>1, <2>1 DEF RevertInv, Resolving
<1>4. ASSUME NEW p \in Procs, UNCHANGED <<reverted, row>>, proc'[p].pc \in {"idle", "claim"},
             \A q \in Procs : q # p => proc'[q] = proc[q]
      PROVE  RevertInv'
  BY <1>1, <1>4 DEF RevertInv, Resolving
<1>5. ASSUME NEW r \in Redemptions,
             PushToCompanion(r) \/ TimerFires(r) \/ Sweep(r)
               \/ \E goal \in {"fulfilled", "refunded"} : Acknowledge(r, goal)
      PROVE  RevertInv'
  <2>1. UNCHANGED <<row, reverted>>
    BY <1>5 DEF PushToCompanion, TimerFires, Sweep, Acknowledge
  <2>2. \/ UNCHANGED proc
        \/ \E p \in Procs, kind \in Kinds, goal \in {"fulfilled", "refunded"} : Start(p, r, kind, goal)
    BY <1>5 DEF PushToCompanion, TimerFires, Sweep, Acknowledge, Kinds
  <2>3. ASSUME NEW p \in Procs, NEW kind \in Kinds, NEW goal \in {"fulfilled", "refunded"},
               Start(p, r, kind, goal)
        PROVE  proc'[p].pc = "claim" /\ \A q \in Procs : q # p => proc'[q] = proc[q]
    BY <1>1, <2>3 DEF Start, ResolverInv, TypeOK, Idle
  <2> QED
    BY <1>2, <1>4, <2>1, <2>2, <2>3
<1>6. ASSUME NEW p \in Procs, Finish(p)
      PROVE  proc'[p].pc = "idle" /\ \A q \in Procs : q # p => proc'[q] = proc[q]
  BY <1>1, <1>6 DEF Finish, ResolverInv, TypeOK, Idle
<1>7. ASSUME NEW p \in Procs, NEW pc \in ProcPc, At(p, pc)
      PROVE  /\ proc'[p].pc = pc /\ proc'[p].on = proc[p].on
             /\ \A q \in Procs : q # p => proc'[q] = proc[q]
  BY <1>1, <1>7 DEF At, ResolverInv, TypeOK, Resolvers
<1>8. ASSUME NEW p \in Procs, Claim(p) PROVE RevertInv'
  <2> DEFINE r == proc[p].on
  <2>1. UNCHANGED reverted /\ r \in Redemptions
    BY <1>1, <1>8 DEF Claim, ResolverInv, BusyHasRedemption
  <2>2. CASE Finish(p) /\ UNCHANGED row
    BY <1>4, <1>6, <2>1, <2>2
  <2>3. CASE Claimable(r) /\ row' = [row EXCEPT ![r] = proc[p].goal] /\ (At(p, "twitch") \/ Finish(p))
    <3>1. reverted[r] # 1
      BY <1>1, <2>1, <2>3 DEF RevertInv, Claimable
    <3>2. \A s \in Redemptions : s # r => row'[s] = row[s]
      BY <1>1, <2>1, <2>3 DEF ResolverInv, TypeOK
    <3>3. proc'[p].pc = "idle" \/ proc'[p].on = r
      BY <1>6, <1>7, <2>3 DEF ProcPc
    <3>4. \A q \in Procs : q # p => proc'[q] = proc[q]
      BY <1>6, <1>7, <2>3 DEF ProcPc
    <3> QED
      BY <1>1, <2>1, <3>1, <3>2, <3>3, <3>4, RevertKept DEF RevertInv, Resolving
  <2> QED
    BY <1>8, <2>2, <2>3 DEF Claim, Abort
<1>9. ASSUME NEW p \in Procs, proc[p].pc \in {"twitch", "release", "revert", "revertRefused"}
      PROVE  proc[p].on \in Redemptions /\ reverted[proc[p].on] = 0
  BY <1>1, <1>9 DEF ResolverInv, BusyHasRedemption, RevertInv, Resolving
<1>10. ASSUME NEW p \in Procs, CallTwitch(p) PROVE RevertInv'
  <2>1. /\ reverted[proc[p].on] = 0 /\ UNCHANGED <<row, reverted>>
        /\ proc[p].on \in Redemptions
    BY <1>9, <1>10 DEF CallTwitch
  <2>2. CASE Finish(p)
    BY <1>4, <1>6, <2>1, <2>2
  <2>3. CASE \E pc \in {"revert", "revertRefused", "release"} : At(p, pc)
    <3>1. proc'[p].on = proc[p].on /\ \A q \in Procs : q # p => proc'[q] = proc[q]
      BY <1>7, <2>3 DEF ProcPc
    <3> QED
      BY <1>1, <2>1, <3>1, RevertKept DEF RevertInv, Resolving
  <2>4. CASE proc' = [proc EXCEPT ![p].attempt = @ + 1]
    <3>1. proc'[p].on = proc[p].on /\ \A q \in Procs : q # p => proc'[q] = proc[q]
      BY <1>1, <2>4 DEF ResolverInv, TypeOK, Resolvers
    <3> QED
      BY <1>1, <2>1, <3>1, RevertKept DEF RevertInv, Resolving
  <2> QED
    BY <1>10, <2>2, <2>3, <2>4 DEF CallTwitch
<1>11. ASSUME NEW p \in Procs, Release(p) PROVE RevertInv'
  <2>1. /\ reverted[proc[p].on] = 0 /\ UNCHANGED reverted /\ Finish(p)
        /\ \A s \in Redemptions : s # proc[p].on => row'[s] = row[s]
    BY <1>1, <1>9, <1>11 DEF Release, Abort, ResolverInv, TypeOK
  <2> QED
    BY <1>1, <1>6, <2>1, RevertKept DEF RevertInv, Resolving
<1>12. ASSUME NEW p \in Procs, Revert(p) PROVE RevertInv'
  <2> DEFINE r == proc[p].on
  <2>1. r \in Redemptions /\ reverted[r] = 0 /\ UNCHANGED row /\ Resolving(p, r)
    BY <1>9, <1>12 DEF Revert, Resolving
  <2>2. reverted'[r] \in {0, 1} /\ \A s \in Redemptions : s # r => reverted'[s] = reverted[s]
    BY <1>1, <1>12, <2>1 DEF Revert, ResolverInv, TypeOK
  <2>3. row[r] = "refunded"
    BY <1>1, <1>12, <2>1 DEF Revert, ResolverInv, ClaimedRow
  <2>4. proc'[p].pc = "idle" \/ (proc'[p].pc = "markFailed" /\ proc'[p].on = r)
    BY <1>6, <1>7, <1>12 DEF Revert, ProcPc
  <2>5. \A q \in Procs : q # p => proc'[q] = proc[q]
    BY <1>6, <1>7, <1>12 DEF Revert, ProcPc
  <2>6. \A q \in Procs : q # p => ~Resolving(q, r)
    BY <1>1, <2>1 DEF ResolverInv, OneResolver
  <2> QED
    BY <1>1, <2>1, <2>2, <2>3, <2>4, <2>5, <2>6 DEF RevertInv, Resolving
<1>13. ASSUME NEW p \in Procs, MarkRefundFailed(p) PROVE RevertInv'
  <2>1. UNCHANGED reverted /\ Finish(p)
    BY <1>13 DEF MarkRefundFailed, Abort
  <2>2. \A s \in Redemptions : row'[s] = row[s] \/ row'[s] = "refund_failed"
    BY <1>1, <1>13 DEF MarkRefundFailed, ResolverInv, TypeOK
  <2> QED
    BY <1>1, <1>6, <2>1, <2>2, RevertKept DEF RevertInv, Resolving
<1>14. CASE Crash
  <2>1. UNCHANGED <<row, reverted>> /\ \A p \in Procs : proc'[p].pc = "idle"
    BY <1>14 DEF Crash, Idle
  <2> QED
    BY <1>1, <2>1 DEF RevertInv, Resolving
<1> QED
  BY <1>1, <1>2, <1>3, <1>5, <1>8, <1>10, <1>11, <1>12, <1>13, <1>14
     DEF Next, HandlerStep, ResolverStep, Startup, vars, Deliver, SeenExpires, ReadProgress,
         RecordDashboard, ApplyPricing, MarkHandled, Restart, SweepEnds, ToggleConfirmation,
         TogglePricing

\* However often a redemption is delivered, replayed, retried or interrupted,
\* each of its effects happens at most once.
THEOREM EffectsOnceHolds == Spec => []EffectsOnce
<1>1. Init => DeliveryInv /\ RevertInv
  BY DEF Init, DeliveryInv, RevertInv, NoHandler
<1>2. DeliveryInv /\ RevertInv => EffectsOnce
  BY DEF DeliveryInv, RevertInv, EffectsOnce
<1> QED
  BY <1>1, <1>2, ResolverInvInvariant, TypeCorrect, DeliveryNext, RevertNext, PTL DEF Spec

-----------------------------------------------------------------------------
(* The pipeline implements RedemptionOutcome: what it maps `deciding` to     *)
(* changes only with the claim and with the end of the call that made it.    *)

OutcomeInv == ResolverInv /\ DeliveryInv /\ RevertInv

LEMMA OutcomeInvInvariant == Spec => []OutcomeInv
<1>1. Init => DeliveryInv /\ RevertInv
  BY DEF Init, DeliveryInv, RevertInv, NoHandler
<1> QED
  BY <1>1, ResolverInvInvariant, TypeCorrect, DeliveryNext, RevertNext, PTL DEF Spec, OutcomeInv

\* A call that starts, or that ends before its claim, has decided nothing.
LEMMA ResolvedStays ==
  ASSUME ResolverInv, NEW p \in Procs, ~(\E r \in Redemptions : Resolving(p, r)),
         \A q \in Procs : q # p => proc'[q] = proc[q],
         proc'[p].pc \in {"idle", "claim"}
  PROVE  BeingResolved' = BeingResolved
<1>1. ASSUME NEW q \in Procs, NEW r \in Redemptions PROVE Resolving(q, r)' <=> Resolving(q, r)
  BY DEF Resolving
<1> QED
  BY <1>1 DEF BeingResolved

\* A call past its claim goes on.
LEMMA ResolvedGoesOn ==
  ASSUME ResolverInv, NEW p \in Procs, NEW r \in Redemptions, Resolving(p, r),
         \A q \in Procs : q # p => proc'[q] = proc[q],
         proc'[p].on = r, proc'[p].pc \notin {"idle", "claim"}
  PROVE  BeingResolved' = BeingResolved
<1>1. ASSUME NEW q \in Procs, NEW s \in Redemptions PROVE Resolving(q, s)' <=> Resolving(q, s)
  BY DEF Resolving
<1> QED
  BY <1>1 DEF BeingResolved

\* It ends, and was the only one.
LEMMA ResolvedEnds ==
  ASSUME ResolverInv, NEW p \in Procs, NEW r \in Redemptions, Resolving(p, r), Finish(p)
  PROVE  BeingResolved' = BeingResolved \ {r}
<1>1. proc'[p].pc = "idle" /\ \A q \in Procs : q # p => proc'[q] = proc[q]
  BY DEF Finish, ResolverInv, TypeOK, Idle
<1>2. ASSUME NEW q \in Procs, NEW s \in Redemptions
      PROVE  Resolving(q, s)' <=> Resolving(q, s) /\ s # r
  <2>1. CASE q = p
    BY <1>1, <2>1 DEF Resolving
  <2>2. CASE q # p
    <3>1. Resolving(q, s)' <=> Resolving(q, s)
      BY <1>1, <2>2 DEF Resolving
    <3>2. ~Resolving(q, r)
      BY <2>2 DEF ResolverInv, OneResolver
    <3> QED
      BY <3>1, <3>2
  <2> QED
    BY <2>1, <2>2
<1> QED
  BY <1>2 DEF BeingResolved

\* The claim, of a row that is nobody's.
LEMMA ResolvedBegins ==
  ASSUME ResolverInv, NEW p \in Procs, NEW r \in Redemptions, proc[p].on = r, proc[p].pc = "claim",
         At(p, "twitch")
  PROVE  BeingResolved' = BeingResolved \cup {r}
<1>1. /\ proc'[p].pc = "twitch" /\ proc'[p].on = r
      /\ \A q \in Procs : q # p => proc'[q] = proc[q]
  BY DEF At, ResolverInv, TypeOK, Resolvers
<1>2. ASSUME NEW q \in Procs, NEW s \in Redemptions
      PROVE  Resolving(q, s)' <=> Resolving(q, s) \/ (q = p /\ s = r)
  BY <1>1 DEF Resolving
<1> QED
  BY <1>2 DEF BeingResolved

LEMMA HandledIsTyped ==
  /\ UNCHANGED ledger => Handled' = Handled
  /\ UNCHANGED proc => BeingResolved' = BeingResolved
BY DEF Handled, BeingResolved, Resolving

OutcomeStep == [Outcome!Next]_(Outcome!outcomeVars)

\* What only moves messages, timers and memory is no step of the outcome.
LEMMA StutterImplements ==
  ASSUME UNCHANGED <<twitch, row, reverted, applied, overlays, pushes>>,
         Handled' = Handled, BeingResolved' \subseteq BeingResolved
  PROVE  OutcomeStep
<1>1. Outcome!LetGo
  BY DEF Outcome!LetGo, Outcome!effectVars
<1> QED
  BY <1>1 DEF OutcomeStep, Outcome!Next

\* The steps of an attempt to handle a redemption.
LEMMA HandlerImplements ==
  ASSUME OutcomeInv, NEW r \in Redemptions,
         RecordDashboard(r) \/ ApplyPricing(r) \/ PrepareConfirmation(r) \/ MarkHandled(r)
  PROVE  OutcomeStep
<1> USE DEF twitchVars
<1>1. TypeOK /\ DeliveryInv
  BY DEF OutcomeInv, ResolverInv
<1>2. r \notin Handled /\ BeingResolved' = BeingResolved
  <2>1. UNCHANGED proc /\ handler[r].pc \in {"dashboard", "pricing", "confirm", "markHandled"}
    BY DEF RecordDashboard, ApplyPricing, PrepareConfirmation, MarkHandled
  <2> QED
    BY <1>1, <2>1, HandledIsTyped DEF DeliveryInv, Handled
<1>3. CASE RecordDashboard(r)
  <2>1. Handled' = Handled
    BY <1>1, <1>3 DEF RecordDashboard, TypeOK, Handled
  <2> QED
    BY <1>2, <1>3, <2>1, StutterImplements DEF RecordDashboard
<1>4. CASE ApplyPricing(r)
  <2>1. Handled' = Handled
    BY <1>1, <1>4 DEF ApplyPricing, TypeOK, Handled
  <2>2. CASE applied' = applied
    BY <1>2, <1>4, <2>1, <2>2, StutterImplements DEF ApplyPricing
  <2>3. CASE applied' # applied
    <3>1. applied[r] = 0 /\ applied' = [applied EXCEPT ![r] = 1]
      BY <1>1, <1>4, <2>3 DEF ApplyPricing, TypeOK, DeliveryInv
    <3>2. Outcome!Charge(r)
      BY <1>2, <1>4, <2>1, <3>1 DEF ApplyPricing, Outcome!Charge, Outcome!decisionVars
    <3> QED
      BY <3>2 DEF OutcomeStep, Outcome!Next
  <2> QED
    BY <2>2, <2>3
<1>5. CASE PrepareConfirmation(r)
  <2>1. Handled' = Handled
    BY <1>5, HandledIsTyped DEF PrepareConfirmation
  <2>2. row' = row \/ (row[r] = "absent" /\ row' = [row EXCEPT ![r] = "pending"])
    BY <1>1, <1>5 DEF PrepareConfirmation, TypeOK
  <2>3. CASE row' = row
    BY <1>2, <1>5, <2>1, <2>3, StutterImplements DEF PrepareConfirmation
  <2>4. CASE row[r] = "absent" /\ row' = [row EXCEPT ![r] = "pending"]
    <3>1. Outcome!Ask(r)
      BY <1>2, <1>5, <2>1, <2>4 DEF PrepareConfirmation, Outcome!Ask, Outcome!effectVars
    <3> QED
      BY <3>1 DEF OutcomeStep, Outcome!Next
  <2> QED
    BY <2>2, <2>3, <2>4
<1>6. CASE MarkHandled(r)
  <2>1. CASE UNCHANGED <<ledger, overlays>>
    BY <1>2, <1>6, <2>1, HandledIsTyped, StutterImplements DEF MarkHandled
  <2>2. CASE /\ ledger' = [ledger EXCEPT ![r] = @ \cup {"handled"}]
             /\ overlays' = [overlays EXCEPT ![r] = @ + 1]
    <3>1. Handled' = Handled \cup {r}
      BY <1>1, <2>2 DEF TypeOK, Handled
    <3>2. overlays[r] = 0
      BY <1>1, <1>2 DEF DeliveryInv, Handled
    <3>3. overlays' = [overlays EXCEPT ![r] = 1]
      BY <2>2, <3>2
    <3>4. Outcome!Handle(r)
      BY <1>2, <1>6, <3>1, <3>2, <3>3 DEF MarkHandled, Outcome!Handle, Outcome!decisionVars
    <3> QED
      BY <3>4 DEF OutcomeStep, Outcome!Next
  <2> QED
    BY <1>6, <2>1, <2>2 DEF MarkHandled
<1> QED
  BY <1>3, <1>4, <1>5, <1>6

\* A call that starts: the push, the timer, an acknowledgement, the sweep.
LEMMA StartImplements ==
  ASSUME OutcomeInv, NEW r \in Redemptions,
         PushToCompanion(r) \/ TimerFires(r) \/ Sweep(r)
           \/ \E goal \in {"fulfilled", "refunded"} : Acknowledge(r, goal)
  PROVE  OutcomeStep
<1> USE DEF twitchVars, dbVars, resolverUnchanged
<1>1. ResolverInv /\ TypeOK /\ DeliveryInv
  BY DEF OutcomeInv, ResolverInv
<1>2. UNCHANGED <<twitch, row, reverted, applied, overlays, ledger>> /\ Handled' = Handled
  BY HandledIsTyped DEF PushToCompanion, TimerFires, Sweep, Acknowledge
<1>3. BeingResolved' = BeingResolved
  <2>1. ASSUME NEW p \in Procs, Free(p), NEW kind, NEW goal, Start(p, r, kind, goal)
        PROVE  BeingResolved' = BeingResolved
    <3>1. proc'[p].pc = "claim" /\ \A q \in Procs : q # p => proc'[q] = proc[q]
      BY <1>1, <2>1 DEF Start, TypeOK, Idle
    <3>2. ~(\E s \in Redemptions : Resolving(p, s))
      BY <2>1, NoneAssumption DEF Free, Resolving
    <3> QED
      BY <1>1, <3>1, <3>2, ResolvedStays
  <2> QED
    BY <2>1, HandledIsTyped DEF PushToCompanion, TimerFires, Sweep, Acknowledge
<1>4. CASE UNCHANGED pushes
  BY <1>2, <1>3, <1>4, StutterImplements
<1>5. CASE PushToCompanion(r) /\ pushes' = [pushes EXCEPT ![r] = @ + 1]
  <2>1. handler[r].pc = "push"
    BY <1>5 DEF PushToCompanion
  <2>2. r \in Handled /\ pushes[r] = 0
    BY <1>1, <2>1 DEF DeliveryInv, Handled
  <2>3. pushes' = [pushes EXCEPT ![r] = 1]
    BY <1>5, <2>2
  <2>4. Outcome!Push(r)
    BY <1>2, <1>3, <2>2, <2>3 DEF Outcome!Push, Outcome!decisionVars
  <2> QED
    BY <2>4 DEF OutcomeStep, Outcome!Next
<1> QED
  BY <1>4, <1>5 DEF PushToCompanion, TimerFires, Sweep, Acknowledge

\* The claim is the decision, whether or not the call hears that it was recorded.
LEMMA ClaimImplements ==
  ASSUME OutcomeInv, NEW p \in Procs, Claim(p) PROVE OutcomeStep
<1> USE DEF twitchVars, resolverUnchanged
<1> DEFINE r == proc[p].on
           goal == proc[p].goal
<1>1. ResolverInv /\ r \in Redemptions /\ proc[p].pc = "claim" /\ goal \in {"fulfilled", "refunded"}
  BY DEF Claim, OutcomeInv, ResolverInv, BusyHasRedemption, TypeOK, Resolvers
<1>2. UNCHANGED <<twitch, reverted, applied, overlays, pushes>> /\ Handled' = Handled
  BY HandledIsTyped DEF Claim
<1>3. Finish(p) => BeingResolved' = BeingResolved
  <2>1. ~(\E s \in Redemptions : Resolving(p, s))
    BY <1>1 DEF Resolving
  <2>2. Finish(p) => proc'[p].pc = "idle" /\ \A q \in Procs : q # p => proc'[q] = proc[q]
    BY <1>1 DEF Finish, ResolverInv, TypeOK, Idle
  <2> QED
    BY <1>1, <2>1, <2>2, ResolvedStays
<1>4. CASE Finish(p) /\ UNCHANGED row
  BY <1>2, <1>3, <1>4, StutterImplements
<1>5. CASE Claimable(r) /\ row' = [row EXCEPT ![r] = goal] /\ (At(p, "twitch") \/ Finish(p))
  <2>1. row[r] = "pending" /\ r \notin BeingResolved
    BY <1>1, <1>5 DEF Claimable, BeingResolved, ResolverInv, ClaimedRow, TypeOK, Resolvers
  <2>2. BeingResolved' \in {BeingResolved, BeingResolved \cup {r}}
    BY <1>1, <1>3, <1>5, ResolvedBegins
  <2>3. row' = [row EXCEPT ![r] = goal]
    BY <1>5
  <2> HIDE DEF r, goal
  <2>4. Outcome!Decide(r, goal)
    BY <1>2, <2>1, <2>2, <2>3 DEF Outcome!Decide, Outcome!effectVars
  <2> QED
    BY <1>1, <2>4 DEF OutcomeStep, Outcome!Next
<1> QED
  BY <1>4, <1>5 DEF Claim, Abort

\* The answer to Twitch, and what a refund does after it.
LEMMA ResolverImplements ==
  ASSUME OutcomeInv, NEW p \in Procs, CallTwitch(p) \/ Release(p) \/ Revert(p) \/ MarkRefundFailed(p)
  PROVE  OutcomeStep
<1> USE DEF twitchVars, resolverUnchanged
<1> DEFINE r == proc[p].on
<1>1. ResolverInv /\ TypeOK /\ r \in Redemptions /\ Resolving(p, r) /\ r \in BeingResolved
  BY DEF CallTwitch, Release, Revert, MarkRefundFailed, OutcomeInv, ResolverInv, BusyHasRedemption,
         Resolving, BeingResolved
<1>2. /\ row[r] = proc[p].goal /\ proc[p].goal \in {"fulfilled", "refunded"}
      /\ proc[p].pc # "twitch" => row[r] = "refunded"
      /\ proc[p].pc # "markFailed" => reverted[r] = 0
  BY <1>1 DEF OutcomeInv, ResolverInv, ClaimedRow, TypeOK, Resolvers, RevertInv
<1>3. UNCHANGED <<applied, overlays, pushes>> /\ Handled' = Handled
  BY HandledIsTyped DEF CallTwitch, Release, Revert, MarkRefundFailed
<1>4. Finish(p) => BeingResolved' = BeingResolved \ {r}
  BY <1>1, ResolvedEnds
<1>5. \A pc \in ProcPc \ {"idle", "claim"} : At(p, pc) => BeingResolved' = BeingResolved
  <2>1. ASSUME NEW pc \in ProcPc \ {"idle", "claim"}, At(p, pc) PROVE BeingResolved' = BeingResolved
    <3>1. /\ proc'[p].pc = pc /\ proc'[p].on = r
          /\ \A q \in Procs : q # p => proc'[q] = proc[q]
      BY <1>1, <2>1 DEF At, TypeOK, Resolvers
    <3> QED
      BY <1>1, <2>1, <3>1, ResolvedGoesOn
  <2> QED
    BY <2>1
<1>6. CASE CallTwitch(p)
  <2>1. BeingResolved' \in {BeingResolved, BeingResolved \ {r}}
    <3>1. CASE proc' = [proc EXCEPT ![p].attempt = @ + 1]
      <4>1. /\ proc'[p].pc = proc[p].pc /\ proc'[p].on = r
            /\ \A q \in Procs : q # p => proc'[q] = proc[q]
        BY <1>1, <3>1 DEF TypeOK, Resolvers
      <4> QED
        BY <1>1, <4>1, ResolvedGoesOn DEF Resolving
    <3> QED
      BY <1>4, <1>5, <1>6, <3>1 DEF CallTwitch, ProcPc
  <2>2. UNCHANGED <<row, reverted>> /\ proc[p].pc = "twitch"
    BY <1>6 DEF CallTwitch
  <2>3. CASE UNCHANGED twitch
    BY <1>3, <2>1, <2>2, <2>3, StutterImplements
  <2>4. CASE Answered(p)
    <3>1. Outcome!AnswerTwitch(r)
      BY <1>1, <1>2, <1>3, <2>1, <2>2, <2>4
         DEF Answered, Answer, Outcome!AnswerTwitch, Outcome!AnswerFor, Outcome!effectVars
    <3> QED
      BY <1>1, <3>1 DEF OutcomeStep, Outcome!Next
  <2> QED
    BY <1>6, <2>3, <2>4 DEF CallTwitch
<1>7. CASE Release(p)
  <2>1. BeingResolved' = BeingResolved \ {r} /\ UNCHANGED <<twitch, reverted>>
    BY <1>4, <1>7 DEF Release, Abort
  <2>2. CASE UNCHANGED row
    BY <1>3, <2>1, <2>2, StutterImplements
  <2>3. CASE row' = [row EXCEPT ![r] = "pending"]
    <3>1. Outcome!Withdraw(r)
      BY <1>1, <1>2, <1>3, <1>7, <2>1, <2>3 DEF Release, Outcome!Withdraw, Outcome!effectVars
    <3> QED
      BY <1>1, <3>1 DEF OutcomeStep, Outcome!Next
  <2> QED
    BY <1>7, <2>2, <2>3 DEF Release
<1>8. CASE Revert(p)
  <2>1. BeingResolved' \in {BeingResolved, BeingResolved \ {r}} /\ UNCHANGED <<twitch, row>>
    BY <1>4, <1>5, <1>8 DEF Revert, ProcPc
  <2>2. CASE reverted' = reverted
    BY <1>3, <2>1, <2>2, StutterImplements
  <2>3. CASE reverted' # reverted
    <3>1. /\ row[r] = "refunded" /\ reverted[r] = 0
          /\ reverted' = [reverted EXCEPT ![r] = 1]
      BY <1>1, <1>2, <1>8, <2>3 DEF Revert, TypeOK
    <3>2. Outcome!TakePriceBack(r)
      BY <1>1, <1>3, <2>1, <3>1 DEF Outcome!TakePriceBack, Outcome!effectVars
    <3> QED
      BY <1>1, <3>2 DEF OutcomeStep, Outcome!Next
  <2> QED
    BY <2>2, <2>3
<1>9. CASE MarkRefundFailed(p)
  <2>1. BeingResolved' = BeingResolved \ {r} /\ UNCHANGED <<twitch, reverted>>
    BY <1>4, <1>9 DEF MarkRefundFailed, Abort
  <2>2. CASE UNCHANGED row
    BY <1>3, <2>1, <2>2, StutterImplements
  <2>3. CASE row' = [row EXCEPT ![r] = "refund_failed"]
    <3>1. Outcome!Refuse(r)
      BY <1>1, <1>2, <1>3, <1>9, <2>1, <2>3 DEF MarkRefundFailed, Outcome!Refuse, Outcome!effectVars
    <3> QED
      BY <1>1, <3>1 DEF OutcomeStep, Outcome!Next
  <2> QED
    BY <1>9, <2>2, <2>3 DEF MarkRefundFailed
<1> QED
  BY <1>6, <1>7, <1>8, <1>9

LEMMA NextImplements ==
  ASSUME OutcomeInv, [Next]_vars PROVE OutcomeStep
<1> USE DEF twitchVars, dbVars, memVars, processLocal
<1>1. ASSUME NEW r \in Redemptions, Deliver(r) \/ SeenExpires(r) \/ ReadProgress(r) PROVE OutcomeStep
  <2>1. UNCHANGED <<twitch, row, reverted, applied, overlays, pushes, ledger, proc>>
    BY <1>1 DEF Deliver, SeenExpires, ReadProgress
  <2> QED
    BY <2>1, HandledIsTyped, StutterImplements
<1>2. CASE Restart \/ SweepEnds \/ ToggleConfirmation \/ TogglePricing \/ UNCHANGED vars
  <2>1. UNCHANGED <<twitch, row, reverted, applied, overlays, pushes, ledger, proc>>
    BY <1>2 DEF Restart, SweepEnds, ToggleConfirmation, TogglePricing, vars
  <2> QED
    BY <2>1, HandledIsTyped, StutterImplements
<1>3. CASE Crash
  <2>1. UNCHANGED <<twitch, row, reverted, applied, overlays, pushes, ledger>>
    BY <1>3 DEF Crash
  <2>2. BeingResolved' = {}
    <3>1. \A p \in Procs : proc'[p].pc = "idle"
      BY <1>3 DEF Crash, Idle
    <3> QED
      BY <3>1 DEF BeingResolved, Resolving
  <2> QED
    BY <2>1, <2>2, HandledIsTyped, StutterImplements
<1> QED
  BY <1>1, <1>2, <1>3, HandlerImplements, StartImplements, ClaimImplements, ResolverImplements
     DEF Next, HandlerStep, ResolverStep, Startup

\* Whatever the deliveries, timers, acknowledgements, sweeps, failures and
\* restarts, a redemption's effects, its decision, its answer on Twitch and
\* its price are those of RedemptionOutcome.
THEOREM PipelineImplementsOutcome == Spec => ImplementsOutcome
<1>1. Init => Outcome!Init
  <2>1. Init => Handled = {} /\ BeingResolved = {}
    BY DEF Init, Handled, BeingResolved, Resolving, Idle
  <2> QED
    BY <2>1 DEF Init, Outcome!Init
<1>2. OutcomeInv /\ [Next]_vars => [Outcome!Next]_(Outcome!outcomeVars)
  BY NextImplements DEF OutcomeStep
<1> QED
  BY <1>1, <1>2, OutcomeInvInvariant, PTL DEF Spec, ImplementsOutcome, Outcome!Spec
=============================================================================
