---------------------------- MODULE MutationQueue ----------------------------
(***************************************************************************)
(* shared/mutationQueue.ts: one createMutationQueue() instance.            *)
(*                                                                         *)
(* The code has no lock: each acquisition of a key chains on the promise   *)
(* that the previous acquisition left in the `queues` map.  `tail` is that *)
(* map, `previous[c][k]` the promise a call chained on, `arrived` the      *)
(* turnArrived flags and `released` the settled flags of acquireKey.       *)
(* Promise callbacks are microtasks (TurnArrives, StartOperation); timers  *)
(* and new calls are macrotasks, which run only when no microtask is left. *)
(***************************************************************************)
EXTENDS Naturals

CONSTANTS
  Calls,    \* every run() / runMany() invocation, each used once
  Keys,     \* the keys of this queue instance
  None      \* no entry in the map, or no predecessor

ASSUME NoneAssumption == None \notin Calls

VARIABLES
  pc,         \* idle, waiting for turns, operation running, settled, abandoned
  kind,       \* "run", or "runMany", whose wait is bounded by a deadline
  keys,       \* the keys the call reserved (deduplicated)
  caller,     \* what the caller's promise has shown so far
  tail,       \* the `queues` map: last acquisition of each key
  previous,   \* the acquisition whose promise each call awaits, per key
  arrived,    \* keys whose turn has come
  released,   \* keys handed to the next waiter
  order,      \* history variable: arrival number of each call
  made        \* history variable: number of calls made so far

vars == <<pc, kind, keys, caller, tail, previous, arrived, released, order, made>>

Kinds == {"run", "runMany"}
CallerValues == {"pending", "result", "timedOut"}

TypeOK ==
  /\ pc \in [Calls -> {"idle", "waiting", "running", "settled", "abandoned"}]
  /\ kind \in [Calls -> Kinds]
  /\ keys \in [Calls -> SUBSET Keys]
  /\ caller \in [Calls -> CallerValues]
  /\ tail \in [Keys -> Calls \cup {None}]
  /\ previous \in [Calls -> [Keys -> Calls \cup {None}]]
  /\ arrived \in [Calls -> SUBSET Keys]
  /\ released \in [Calls -> SUBSET Keys]
  /\ order \in [Calls -> Nat]
  /\ made \in Nat

-----------------------------------------------------------------------------
(* Promises *)

\* The `queued` promise of acquisition (c, k): its own predecessor has
\* resolved, and c has called release for k.
Resolved(c, k) == k \in arrived[c] /\ k \in released[c]

TurnReady(c, k) ==
  /\ pc[c] # "idle"
  /\ k \in keys[c] \ arrived[c]
  /\ previous[c][k] # None => Resolved(previous[c][k], k)

\* Mistake: the operation starts when its first turn comes.
SomeTurnArrived(c) == pc[c] = "waiting" /\ arrived[c] # {}

AllTurnsArrived(c) == pc[c] = "waiting" /\ arrived[c] = keys[c]

\* Nothing left on the microtask queue: the event loop may run a timer or
\* another caller.
Quiescent ==
  /\ \A c \in Calls : ~AllTurnsArrived(c)
  /\ \A c \in Calls, k \in Keys : ~TurnReady(c, k)

\* Mistake: release drops the map entry even when a later call replaced it.
ReleaseAnyTail(c, K) ==
  /\ released' = [released EXCEPT ![c] = @ \cup K]
  /\ tail' = [k \in Keys |-> IF k \in K \ released[c] THEN None ELSE tail[k]]

\* Mistake: release never drops the map entry.
ReleaseKeepsTail(c, K) ==
  /\ released' = [released EXCEPT ![c] = @ \cup K]
  /\ UNCHANGED tail

\* Mistake: release removes the key rather than its entry.
ReleaseRemovesKeys(c, K) ==
  /\ released' = [released EXCEPT ![c] = @ \cup K]
  /\ tail' = [k \in Keys \ K |-> tail[k]]

\* acquireKey's release for every key in K: idempotent, and the map entry is
\* dropped only while it is still this acquisition's own promise.
Release(c, K) ==
  /\ released' = [released EXCEPT ![c] = @ \cup K]
  /\ tail' = [k \in Keys |-> IF k \in K \ released[c] /\ tail[k] = c
                               THEN None ELSE tail[k]]

-----------------------------------------------------------------------------
Init ==
  /\ pc = [c \in Calls |-> "idle"]
  /\ kind = [c \in Calls |-> "run"]
  /\ keys = [c \in Calls |-> {}]
  /\ caller = [c \in Calls |-> "pending"]
  /\ tail = [k \in Keys |-> None]
  /\ previous = [c \in Calls |-> [k \in Keys |-> None]]
  /\ arrived = [c \in Calls |-> {}]
  /\ released = [c \in Calls |-> {}]
  /\ order = [c \in Calls |-> 0]
  /\ made = 0

\* run() and runMany() reserve every slot synchronously: each key's tail is
\* read and replaced before any other caller can run.
Call(c) ==
  /\ Quiescent
  /\ pc[c] = "idle"
  /\ \E K \in (SUBSET Keys) \ {{}}, m \in Kinds :
       /\ m = "run" => \E k \in Keys : K = {k}
       /\ kind' = [kind EXCEPT ![c] = m]
       /\ keys' = [keys EXCEPT ![c] = K]
       /\ previous' = [previous EXCEPT ![c] =
                         [k \in Keys |-> IF k \in K THEN tail[k] ELSE None]]
       /\ tail' = [k \in Keys |-> IF k \in K THEN c ELSE tail[k]]
  /\ made' = made + 1
  /\ order' = [order EXCEPT ![c] = made + 1]
  /\ pc' = [pc EXCEPT ![c] = "waiting"]
  /\ UNCHANGED <<caller, arrived, released>>

\* Mistake: a cancelled acquisition keeps the slot when its turn comes.
TurnArrivesUncancelled(c, k) ==
  /\ TurnReady(c, k)
  /\ arrived' = [arrived EXCEPT ![c] = @ \cup {k}]
  /\ UNCHANGED <<pc, kind, keys, caller, tail, previous, released, order, made>>

\* `previous.then`: the slot is ours; a cancelled acquisition hands it on.
TurnArrives(c, k) ==
  /\ TurnReady(c, k)
  /\ arrived' = [arrived EXCEPT ![c] = @ \cup {k}]
  /\ IF pc[c] = "abandoned" THEN Release(c, {k})
                            ELSE UNCHANGED <<released, tail>>
  /\ UNCHANGED <<pc, kind, keys, caller, previous, order, made>>

\* Every turn has been awaited: the operation starts.
StartOperation(c) ==
  /\ AllTurnsArrived(c)
  /\ pc' = [pc EXCEPT ![c] = "running"]
  /\ UNCHANGED <<kind, keys, caller, tail, previous, arrived, released, order, made>>

\* The operation resolves or rejects: every key is released, and the caller
\* sees the outcome unless its deadline came first.
OperationSettles(c) ==
  /\ Quiescent
  /\ pc[c] = "running"
  /\ pc' = [pc EXCEPT ![c] = "settled"]
  /\ caller' = [caller EXCEPT ![c] = IF @ = "pending" THEN "result" ELSE @]
  /\ Release(c, keys[c])
  /\ UNCHANGED <<kind, keys, previous, arrived, order, made>>

\* runMany's deadline while a key is still awaited: every reservation is
\* cancelled; a slot whose turn has come is released at once, the others when
\* their turn comes (TurnArrives).
DeadlineAbandons(c) ==
  /\ Quiescent
  /\ kind[c] = "runMany" /\ pc[c] = "waiting" /\ caller[c] = "pending"
  /\ pc' = [pc EXCEPT ![c] = "abandoned"]
  /\ caller' = [caller EXCEPT ![c] = "timedOut"]
  /\ Release(c, arrived[c])
  /\ UNCHANGED <<kind, keys, previous, arrived, order, made>>

\* A deadline that only the caller observes: runMany's while its operation is
\* running, and runUserMutation's withTimeout around run().
DeadlineRejectsCaller(c) ==
  /\ Quiescent
  /\ caller[c] = "pending"
  /\ \/ kind[c] = "runMany" /\ pc[c] = "running"
     \/ kind[c] = "run" /\ pc[c] \in {"waiting", "running"}
  /\ caller' = [caller EXCEPT ![c] = "timedOut"]
  /\ UNCHANGED <<pc, kind, keys, tail, previous, arrived, released, order, made>>

Microtask(c) == (\E k \in Keys : TurnArrives(c, k)) \/ StartOperation(c)

Next ==
  \E c \in Calls :
    \/ Call(c)
    \/ \E k \in Keys : TurnArrives(c, k)
    \/ StartOperation(c)
    \/ OperationSettles(c)
    \/ DeadlineAbandons(c)
    \/ DeadlineRejectsCaller(c)

Spec == Init /\ [][Next]_vars

\* The event loop runs every queued microtask and every timer.  Nothing says
\* an operation settles: it may await a call that never answers.
FairSpec ==
  /\ Spec
  /\ \A c \in Calls : WF_vars(Microtask(c)) /\ WF_vars(DeadlineAbandons(c))

-----------------------------------------------------------------------------
(* Properties *)

\* Two operations that share a key never run at the same time, whatever
\* timed out, was cancelled or dropped its map entry in between
\* (acquireKey's release and its `queues.get(key) === queued` test).
MutualExclusion ==
  \A c, d \in Calls :
    pc[c] = "running" /\ pc[d] = "running" /\ c # d => keys[c] \cap keys[d] = {}

\* size() counts the keys with unfinished work and no others: a cancelled or
\* timed-out acquisition neither leaks its map entry nor drops a later one's.
SizeIsExact ==
  \A k \in Keys :
    tail[k] # None <=> \E c \in Calls : k \in keys[c] \ released[c]

\* acquireAll's promise on a timeout: a call with only abandoned or finished
\* calls before it is not held hostage by them, even if some other operation
\* never settles.
Lock == INSTANCE KeyLock WITH
          Calls <- Calls, Keys <- Keys, pc <- pc, keys <- keys, order <- order

NotHeldHostage ==
  \A c \in Calls :
    (pc[c] = "waiting" /\ Lock!Ahead(c) = {}) ~> (pc[c] \in {"running", "settled"})

\* The promise chain implements the first-come first-served lock: a call runs
\* only after every earlier live call on its keys, keeps the keys until its
\* operation settles, and never runs once it has been given up.
ImplementsKeyLock == Lock!Spec
=============================================================================
