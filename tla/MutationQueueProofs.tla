------------------------- MODULE MutationQueueProofs -------------------------
(***************************************************************************)
(* Theorems about MutationQueue, for any set of calls and keys.            *)
(*                                                                         *)
(* Mutual exclusion is not inductive: it holds because every acquisition   *)
(* chains on the latest earlier one that has not been released.  ChainInv  *)
(* says so, in terms of the arrival numbers of the calls.                  *)
(***************************************************************************)
EXTENDS MutationQueue, TLAPS

\* Arrival numbers: 0 for a call not made, otherwise positive, distinct and
\* at most `made`.
OrderInv ==
  /\ \A c \in Calls : order[c] <= made
  /\ \A c \in Calls : pc[c] = "idle" <=> order[c] = 0
  /\ \A c, d \in Calls : order[c] = order[d] /\ order[c] # 0 => c = d

\* What each program counter says of a call's slots.
SlotInv ==
  \A c \in Calls :
    /\ arrived[c] \subseteq keys[c]
    /\ released[c] \subseteq arrived[c]
    /\ pc[c] = "idle" => keys[c] = {}
    /\ pc[c] \in {"idle", "waiting", "running"} => released[c] = {}
    /\ pc[c] \in {"running", "settled"} => arrived[c] = keys[c]
    /\ pc[c] = "settled" => released[c] = keys[c]
    /\ pc[c] = "abandoned" => released[c] = arrived[c]

\* The predecessor of a slot is the latest earlier reservation of the key;
\* no predecessor means that every earlier reservation has been released.
PreviousInv ==
  \A c \in Calls, k \in Keys : k \in keys[c] =>
    /\ previous[c][k] = None =>
         \A d \in Calls : k \in keys[d] /\ order[d] < order[c] => k \in released[d]
    /\ previous[c][k] # None =>
         /\ k \in keys[previous[c][k]]
         /\ \A d \in Calls : k \in keys[d] /\ order[d] < order[c]
                               => order[d] <= order[previous[c][k]]

\* The map entry of a key is its latest reservation, not yet released; no
\* entry means that every reservation has been released.
TailInv ==
  \A k \in Keys :
    /\ tail[k] = None => \A d \in Calls : k \in keys[d] => k \in released[d]
    /\ tail[k] # None =>
         /\ k \in keys[tail[k]] \ released[tail[k]]
         /\ \A d \in Calls : k \in keys[d] => order[d] <= order[tail[k]]

\* A turn arrives only after every earlier reservation has been released.
TurnInv ==
  \A c, d \in Calls, k \in Keys :
    k \in arrived[c] /\ k \in keys[d] /\ order[d] < order[c] => k \in released[d]

ChainInv == OrderInv /\ SlotInv /\ PreviousInv /\ TailInv /\ TurnInv

IInv == TypeOK /\ ChainInv

-----------------------------------------------------------------------------
(* Type correctness *)

\* The variables keep their types: the map and the predecessors name calls,
\* and flags are kept only for keys of this queue.
THEOREM TypeCorrect == Spec => []TypeOK
<1>1. Init => TypeOK
  BY DEF Init, TypeOK, Kinds, CallerValues
<1>2. TypeOK /\ [Next]_vars => TypeOK'
  <2> SUFFICES ASSUME TypeOK, [Next]_vars
               PROVE  TypeOK'
    OBVIOUS
  <2> USE DEF TypeOK, Kinds, CallerValues
  <2>1. ASSUME NEW c \in Calls, Call(c)
        PROVE  TypeOK'
    BY <2>1 DEF Call
  <2>2. ASSUME NEW c \in Calls, NEW k \in Keys, TurnArrives(c, k)
        PROVE  TypeOK'
    BY <2>2 DEF TurnArrives, TurnReady, Release
  <2>3. ASSUME NEW c \in Calls, StartOperation(c)
        PROVE  TypeOK'
    BY <2>3 DEF StartOperation
  <2>4. ASSUME NEW c \in Calls, OperationSettles(c)
        PROVE  TypeOK'
    BY <2>4 DEF OperationSettles, Release
  <2>5. ASSUME NEW c \in Calls, DeadlineAbandons(c)
        PROVE  TypeOK'
    BY <2>5 DEF DeadlineAbandons, Release
  <2>6. ASSUME NEW c \in Calls, DeadlineRejectsCaller(c)
        PROVE  TypeOK'
    BY <2>6 DEF DeadlineRejectsCaller
  <2>7. CASE UNCHANGED vars
    BY <2>7 DEF vars
  <2>8. QED
    BY <2>1, <2>2, <2>3, <2>4, <2>5, <2>6, <2>7 DEF Next
<1>3. QED
  BY <1>1, <1>2, PTL DEF Spec

-----------------------------------------------------------------------------
(* The chain invariant *)

LEMMA ChainInit == Init => ChainInv
  BY NoneAssumption DEF Init, ChainInv, OrderInv, SlotInv, PreviousInv, TailInv, TurnInv

\* A new call takes the next arrival number and every tail it reads.
LEMMA CallChain ==
  ASSUME NEW c \in Calls
  PROVE  TypeOK /\ ChainInv /\ Call(c) => ChainInv'
<1>1. SUFFICES ASSUME TypeOK, OrderInv, SlotInv, PreviousInv, TailInv, TurnInv, Call(c)
               PROVE  ChainInv'
  BY DEF ChainInv
<1>2. PICK K \in SUBSET Keys :
        /\ keys' = [keys EXCEPT ![c] = K]
        /\ previous' = [previous EXCEPT ![c] =
                          [k \in Keys |-> IF k \in K THEN tail[k] ELSE None]]
        /\ tail' = [k \in Keys |-> IF k \in K THEN c ELSE tail[k]]
  BY <1>1 DEF Call
<1>3. /\ pc[c] = "idle" /\ keys[c] = {} /\ released[c] = {} /\ arrived[c] = {}
      /\ order[c] = 0
  BY <1>1 DEF Call, TypeOK, OrderInv, SlotInv
<1>4. /\ pc' = [pc EXCEPT ![c] = "waiting"]
      /\ order' = [order EXCEPT ![c] = made + 1] /\ made' = made + 1
      /\ arrived' = arrived /\ released' = released
  BY <1>1 DEF Call
<1>5. \A d \in Calls : order[d] \in Nat /\ order[d] < made + 1
  BY <1>1 DEF TypeOK, OrderInv
<1>6. OrderInv'
  BY <1>1, <1>3, <1>4, <1>5 DEF TypeOK, OrderInv
<1>7. SlotInv'
  BY <1>1, <1>2, <1>3, <1>4 DEF TypeOK, SlotInv
<1>8. PreviousInv'
  BY <1>1, <1>2, <1>3, <1>4, <1>5 DEF TypeOK, PreviousInv, TailInv
<1>9. TailInv'
  BY <1>1, <1>2, <1>3, <1>4, <1>5, NoneAssumption DEF TypeOK, TailInv
<1>10. TurnInv'
  BY <1>1, <1>2, <1>3, <1>4, <1>5 DEF TypeOK, TurnInv
<1>11. QED
  BY <1>6, <1>7, <1>8, <1>9, <1>10 DEF ChainInv

\* Releasing keys of a call whose turns have come keeps the chains intact:
\* all earlier reservations of those keys are released already.
LEMMA ReleaseChain ==
  ASSUME NEW c \in Calls, NEW K \in SUBSET Keys
  PROVE  /\ TypeOK /\ ChainInv /\ Release(c, K)
         /\ UNCHANGED <<keys, previous, order>>
         /\ K \subseteq keys[c]
         /\ \A d \in Calls, k \in K :
              k \in keys[d] /\ order[d] < order[c] => k \in released[d]
         => PreviousInv' /\ TailInv'
<1>1. SUFFICES ASSUME TypeOK, OrderInv, SlotInv, PreviousInv, TailInv, Release(c, K),
                      UNCHANGED <<keys, previous, order>>, K \subseteq keys[c],
                      \A d \in Calls, k \in K :
                        k \in keys[d] /\ order[d] < order[c] => k \in released[d]
               PROVE  PreviousInv' /\ TailInv'
  BY DEF ChainInv
<1>2. /\ released' = [released EXCEPT ![c] = @ \cup K]
      /\ tail' = [k \in Keys |-> IF k \in K \ released[c] /\ tail[k] = c
                                   THEN None ELSE tail[k]]
  BY <1>1 DEF Release
<1>3. \A d \in Calls : released[d] \subseteq released'[d]
  BY <1>1, <1>2 DEF TypeOK
<1>4. PreviousInv'
  BY <1>1, <1>3 DEF PreviousInv
<1>5. TailInv'
  <2>1. SUFFICES ASSUME NEW k \in Keys
                 PROVE  /\ tail'[k] = None => \A d \in Calls : k \in keys[d] => k \in released'[d]
                        /\ tail'[k] # None =>
                             /\ k \in keys[tail'[k]] \ released'[tail'[k]]
                             /\ \A d \in Calls : k \in keys[d] => order[d] <= order[tail'[k]]
    BY <1>1 DEF TailInv
  <2>2. CASE k \in K \ released[c] /\ tail[k] = c
    <3>1. tail'[k] = None
      BY <1>2, <2>2
    <3>2. ASSUME NEW d \in Calls, k \in keys[d], d # c
          PROVE  order[d] < order[c]
      <4>1. order[d] <= order[c]
        BY <1>1, <2>2, <3>2, NoneAssumption DEF TailInv
      <4>2. order[d] # order[c]
        BY <1>1, <3>2 DEF OrderInv, SlotInv, TypeOK
      <4>3. order[c] \in Nat /\ order[d] \in Nat
        BY <1>1 DEF TypeOK
      <4>4. QED
        BY <4>1, <4>2, <4>3
    <3>3. \A d \in Calls : k \in keys[d] => k \in released'[d]
      BY <1>1, <1>2, <1>3, <2>2, <3>2 DEF TypeOK
    <3>4. QED
      BY <3>1, <3>3
  <2>3. CASE ~(k \in K \ released[c] /\ tail[k] = c)
    <3>1. tail'[k] = tail[k]
      BY <1>2, <2>3
    <3>2. tail[k] # None => k \notin released'[tail[k]]
      BY <1>1, <1>2, <2>3 DEF TypeOK, TailInv
    <3>3. QED
      BY <1>1, <1>3, <3>1, <3>2 DEF TailInv
  <2>4. QED
    BY <2>2, <2>3
<1>6. QED
  BY <1>4, <1>5

\* A turn that arrives for an abandoned call is handed on at once.
LEMMA TurnChain ==
  ASSUME NEW c \in Calls, NEW k \in Keys
  PROVE  TypeOK /\ ChainInv /\ TurnArrives(c, k) => ChainInv'
<1>1. SUFFICES ASSUME TypeOK, ChainInv, TurnArrives(c, k)
               PROVE  ChainInv'
  OBVIOUS
<1>2. /\ pc[c] # "idle" /\ k \in keys[c] \ arrived[c]
      /\ previous[c][k] # None => Resolved(previous[c][k], k)
      /\ arrived' = [arrived EXCEPT ![c] = @ \cup {k}]
      /\ UNCHANGED <<pc, keys, previous, order, made>>
  BY <1>1 DEF TurnArrives, TurnReady
<1>3. \A d \in Calls : k \in keys[d] /\ order[d] < order[c] => k \in released[d]
  <2>1. CASE previous[c][k] = None
    BY <1>1, <1>2, <2>1 DEF ChainInv, PreviousInv
  <2>2. CASE previous[c][k] # None
    <3> DEFINE p == previous[c][k]
    <3>1. p \in Calls /\ k \in keys[p] /\ k \in arrived[p] /\ k \in released[p]
      BY <1>1, <1>2, <2>2 DEF ChainInv, PreviousInv, Resolved, TypeOK
    <3>2. ASSUME NEW d \in Calls, k \in keys[d], order[d] < order[c]
          PROVE  order[d] < order[p] \/ d = p
      <4>1. order[d] <= order[p]
        BY <1>1, <1>2, <2>2, <3>2 DEF ChainInv, PreviousInv
      <4>2. d = p \/ order[d] # order[p]
        BY <1>1, <3>1, <3>2 DEF ChainInv, OrderInv, SlotInv, TypeOK
      <4>3. order[d] \in Nat /\ order[p] \in Nat
        BY <1>1, <3>1 DEF TypeOK
      <4>4. QED
        BY <4>1, <4>2, <4>3
    <3>3. QED
      BY <1>1, <3>1, <3>2 DEF ChainInv, TurnInv
  <2>3. QED
    BY <2>1, <2>2
<1>4. OrderInv'
  BY <1>1, <1>2 DEF ChainInv, OrderInv
<1>5. CASE pc[c] = "abandoned"
  <2>1. Release(c, {k})
    BY <1>1, <1>5 DEF TurnArrives
  <2>2. released' = [released EXCEPT ![c] = @ \cup {k}]
    BY <2>1 DEF Release
  <2>3. PreviousInv' /\ TailInv'
    BY <1>1, <1>2, <1>3, <2>1, ReleaseChain
  <2>4. SlotInv'
    BY <1>1, <1>2, <1>5, <2>2 DEF ChainInv, SlotInv, TypeOK
  <2>5. TurnInv'
    BY <1>1, <1>2, <1>3, <2>2 DEF ChainInv, TurnInv, TypeOK
  <2>6. QED
    BY <1>4, <2>3, <2>4, <2>5 DEF ChainInv
<1>6. CASE pc[c] # "abandoned"
  <2>1. UNCHANGED <<released, tail>>
    BY <1>1, <1>6 DEF TurnArrives
  <2>2. SlotInv'
    BY <1>1, <1>2, <1>6, <2>1 DEF ChainInv, SlotInv, TypeOK
  <2>3. TurnInv'
    BY <1>1, <1>2, <1>3, <2>1 DEF ChainInv, TurnInv, TypeOK
  <2>4. PreviousInv' /\ TailInv'
    BY <1>1, <1>2, <2>1 DEF ChainInv, PreviousInv, TailInv
  <2>5. QED
    BY <1>4, <2>2, <2>3, <2>4 DEF ChainInv
<1>7. QED
  BY <1>5, <1>6

\* The operation's settling, and runMany's deadline, release slots whose
\* turns have come.
LEMMA SettleChain ==
  ASSUME NEW c \in Calls
  PROVE  TypeOK /\ ChainInv /\ (OperationSettles(c) \/ DeadlineAbandons(c)) => ChainInv'
<1>1. SUFFICES ASSUME TypeOK, ChainInv, OperationSettles(c) \/ DeadlineAbandons(c)
               PROVE  ChainInv'
  OBVIOUS
<1>2. /\ UNCHANGED <<keys, previous, arrived, order, made>>
      /\ \/ /\ pc[c] = "running" /\ pc' = [pc EXCEPT ![c] = "settled"]
            /\ Release(c, keys[c])
         \/ /\ pc[c] = "waiting" /\ pc' = [pc EXCEPT ![c] = "abandoned"]
            /\ Release(c, arrived[c])
  BY <1>1 DEF OperationSettles, DeadlineAbandons
<1>3. Release(c, arrived[c])
  BY <1>1, <1>2 DEF ChainInv, SlotInv
<1>4. released' = [released EXCEPT ![c] = @ \cup arrived[c]]
  BY <1>3 DEF Release
<1>5. arrived[c] \in SUBSET Keys /\ arrived[c] \subseteq keys[c]
  BY <1>1 DEF ChainInv, SlotInv, TypeOK
<1>6. \A d \in Calls, k \in arrived[c] :
        k \in keys[d] /\ order[d] < order[c] => k \in released[d]
  BY <1>1, <1>5 DEF ChainInv, TurnInv
<1>7. PreviousInv' /\ TailInv'
  BY <1>1, <1>2, <1>3, <1>5, <1>6, ReleaseChain
<1>8. OrderInv' /\ SlotInv'
  BY <1>1, <1>2, <1>4 DEF ChainInv, OrderInv, SlotInv, TypeOK
<1>9. TurnInv'
  BY <1>1, <1>2, <1>4 DEF ChainInv, TurnInv, TypeOK
<1>10. QED
  BY <1>7, <1>8, <1>9 DEF ChainInv

LEMMA ChainNext == TypeOK /\ ChainInv /\ [Next]_vars => ChainInv'
<1>1. SUFFICES ASSUME TypeOK, ChainInv, [Next]_vars
               PROVE  ChainInv'
  OBVIOUS
<1>2. ASSUME NEW c \in Calls, StartOperation(c)
      PROVE  ChainInv'
  <2>1. /\ pc[c] = "waiting" /\ arrived[c] = keys[c]
        /\ pc' = [pc EXCEPT ![c] = "running"]
        /\ UNCHANGED <<keys, tail, previous, arrived, released, order, made>>
    BY <1>2 DEF StartOperation, AllTurnsArrived
  <2>2. OrderInv' /\ SlotInv'
    BY <1>1, <2>1 DEF ChainInv, OrderInv, SlotInv, TypeOK
  <2>3. PreviousInv' /\ TailInv' /\ TurnInv'
    BY <1>1, <2>1 DEF ChainInv, PreviousInv, TailInv, TurnInv
  <2>4. QED
    BY <2>2, <2>3 DEF ChainInv
<1>3. CASE UNCHANGED <<pc, keys, tail, previous, arrived, released, order, made>>
  BY <1>1, <1>3 DEF ChainInv, OrderInv, SlotInv, PreviousInv, TailInv, TurnInv
<1>4. QED
  BY <1>1, <1>2, <1>3, CallChain, TurnChain, SettleChain
  DEF Next, vars, DeadlineRejectsCaller

LEMMA IInvInvariant == Spec => []IInv
<1>1. Init => ChainInv
  BY ChainInit
<1>2. TypeOK /\ ChainInv /\ [Next]_vars => ChainInv'
  BY ChainNext
<1>3. QED
  BY <1>1, <1>2, TypeCorrect, PTL DEF Spec, IInv

-----------------------------------------------------------------------------
(* The safety properties *)

\* Two operations that share a key never overlap, for any number of calls,
\* keys, timeouts and cancellations.
THEOREM MutualExclusionHolds == Spec => []MutualExclusion
<1>1. IInv => MutualExclusion
  <2>1. SUFFICES ASSUME IInv
                 PROVE  MutualExclusion
    OBVIOUS
  <2>2. ASSUME NEW c \in Calls, NEW d \in Calls, NEW k \in Keys,
               pc[c] = "running", pc[d] = "running",
               k \in keys[c], k \in keys[d], order[c] < order[d]
        PROVE  FALSE
    <3>1. k \in arrived[d]
      BY <2>1, <2>2 DEF IInv, ChainInv, SlotInv
    <3>2. k \in released[c]
      BY <2>1, <2>2, <3>1 DEF IInv, ChainInv, TurnInv
    <3>3. QED
      BY <2>1, <2>2, <3>2 DEF IInv, ChainInv, SlotInv
  <2>3. ASSUME NEW c \in Calls, NEW d \in Calls, pc[c] = "running", c # d
        PROVE  order[c] < order[d] \/ order[d] < order[c]
    <3>1. order[c] # order[d]
      BY <2>1, <2>3 DEF IInv, ChainInv, OrderInv, TypeOK
    <3>2. order[c] \in Nat /\ order[d] \in Nat
      BY <2>1 DEF IInv, TypeOK
    <3>3. QED
      BY <3>1, <3>2
  <2>4. \A c \in Calls : keys[c] \subseteq Keys
    BY <2>1 DEF IInv, TypeOK
  <2>5. QED
    BY <2>2, <2>3, <2>4 DEF MutualExclusion
<1>2. QED
  BY <1>1, IInvInvariant, PTL

\* A key is in the map exactly while some reservation of it is unreleased:
\* no path through cancellation leaks an entry or drops a live one.
THEOREM SizeIsExactHolds == Spec => []SizeIsExact
<1>1. IInv => SizeIsExact
  BY DEF IInv, TypeOK, ChainInv, TailInv, SizeIsExact
<1>2. QED
  BY <1>1, IInvInvariant, PTL

-----------------------------------------------------------------------------
(* Refinement *)

\* The promise chain is a first-come first-served lock: every behaviour of the
\* queue, with its microtasks and cancellations hidden, is one of KeyLock.
THEOREM QueueImplementsKeyLock == Spec => ImplementsKeyLock
<1>1. Init => Lock!Init
  BY DEF Init, Lock!Init
<1>2. IInv /\ [Next]_vars => [Lock!Next]_(Lock!lockVars)
  <2>1. SUFFICES ASSUME IInv, [Next]_vars
                 PROVE  [Lock!Next]_(Lock!lockVars)
    OBVIOUS
  <2>2. ASSUME NEW c \in Calls, Call(c)
        PROVE  Lock!Request(c)
    <3>1. order' = [order EXCEPT ![c] = made + 1]
      BY <2>2 DEF Call
    <3>2. \A d \in Calls : order[d] < made + 1
      BY <2>1 DEF IInv, ChainInv, OrderInv, TypeOK
    <3>3. order'[c] = made + 1 /\ made + 1 \in Nat
      BY <2>1, <3>1 DEF IInv, TypeOK
    <3>4. \E K \in (SUBSET Keys) \ {{}} : keys' = [keys EXCEPT ![c] = K]
      BY <2>2 DEF Call
    <3>5. pc[c] = "idle" /\ pc' = [pc EXCEPT ![c] = "waiting"]
      BY <2>2 DEF Call
    <3>6. QED
      BY <3>1, <3>2, <3>3, <3>4, <3>5 DEF Lock!Request
  <2>3. ASSUME NEW c \in Calls, StartOperation(c)
        PROVE  Lock!Grant(c)
    <3>1. /\ pc[c] = "waiting" /\ arrived[c] = keys[c]
          /\ pc' = [pc EXCEPT ![c] = "running"] /\ UNCHANGED <<keys, order>>
      BY <2>3 DEF StartOperation, AllTurnsArrived
    <3>2. ASSUME NEW d \in Calls, Lock!Live(d), Lock!Overlap(c, d), order[d] < order[c]
          PROVE  FALSE
      <4>1. PICK k \in Keys : k \in keys[c] /\ k \in keys[d]
        BY <2>1, <3>2 DEF Lock!Overlap, IInv, TypeOK
      <4>2. k \in released[d]
        BY <2>1, <3>1, <3>2, <4>1 DEF IInv, ChainInv, TurnInv
      <4>3. QED
        BY <2>1, <3>2, <4>2 DEF Lock!Live, IInv, ChainInv, SlotInv
    <3>3. Lock!Ahead(c) = {}
      BY <3>2 DEF Lock!Ahead
    <3>4. QED
      BY <3>1, <3>3 DEF Lock!Grant
  <2>4. ASSUME NEW c \in Calls, OperationSettles(c)
        PROVE  Lock!Finish(c)
    BY <2>4 DEF OperationSettles, Lock!Finish
  <2>5. ASSUME NEW c \in Calls, DeadlineAbandons(c)
        PROVE  Lock!GiveUp(c)
    BY <2>5 DEF DeadlineAbandons, Lock!GiveUp
  <2>6. ASSUME NEW c \in Calls,
               DeadlineRejectsCaller(c) \/ \E k \in Keys : TurnArrives(c, k)
        PROVE  UNCHANGED Lock!lockVars
    BY <2>6 DEF DeadlineRejectsCaller, TurnArrives, Lock!lockVars
  <2>7. CASE UNCHANGED vars
    BY <2>7 DEF vars, Lock!lockVars
  <2>8. QED
    BY <2>1, <2>2, <2>3, <2>4, <2>5, <2>6, <2>7 DEF Next, Lock!Next
<1>3. QED
  BY <1>1, <1>2, IInvInvariant, PTL DEF Spec, ImplementsKeyLock, Lock!Spec

=============================================================================
