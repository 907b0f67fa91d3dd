------------------------------- MODULE KeyLock -------------------------------
(***************************************************************************)
(* What shared/mutationQueue.ts promises its callers, without promises,    *)
(* tail maps or cancellation: a call asks for a set of keys, is granted    *)
(* all of them at once, in the order of the requests that overlap it, and  *)
(* keeps them until its operation settles.  A request that is given up     *)
(* while waiting is as if it had never been made.                          *)
(***************************************************************************)
EXTENDS Naturals

CONSTANTS
  Calls,    \* every run() / runMany() invocation, each used once
  Keys      \* the keys a queue instance serializes on

VARIABLES
  pc,       \* where each call is
  keys,     \* the keys each call asked for
  order     \* arrival number of each call, 0 before it is made

lockVars == <<pc, keys, order>>

PcValues == {"idle", "waiting", "running", "settled", "abandoned"}

\* A call that still has a claim on its keys.
Live(c) == pc[c] \in {"waiting", "running"}

Overlap(c, d) == keys[c] \cap keys[d] # {}

\* The live calls that asked for one of c's keys before c did.
Ahead(c) == {d \in Calls : /\ Live(d)
                           /\ Overlap(c, d)
                           /\ order[d] < order[c]}

-----------------------------------------------------------------------------

Init ==
  /\ pc = [c \in Calls |-> "idle"]
  /\ keys = [c \in Calls |-> {}]
  /\ order = [c \in Calls |-> 0]

Request(c) ==
  /\ pc[c] = "idle"
  /\ \E K \in (SUBSET Keys) \ {{}} : keys' = [keys EXCEPT ![c] = K]
  /\ order'[c] \in Nat
  /\ \A d \in Calls : order[d] < order'[c]
  /\ order' = [order EXCEPT ![c] = order'[c]]
  /\ pc' = [pc EXCEPT ![c] = "waiting"]

Grant(c) ==
  /\ pc[c] = "waiting"
  /\ Ahead(c) = {}
  /\ pc' = [pc EXCEPT ![c] = "running"]
  /\ UNCHANGED <<keys, order>>

Finish(c) ==
  /\ pc[c] = "running"
  /\ pc' = [pc EXCEPT ![c] = "settled"]
  /\ UNCHANGED <<keys, order>>

GiveUp(c) ==
  /\ pc[c] = "waiting"
  /\ pc' = [pc EXCEPT ![c] = "abandoned"]
  /\ UNCHANGED <<keys, order>>

Next == \E c \in Calls : Request(c) \/ Grant(c) \/ Finish(c) \/ GiveUp(c)

Spec == Init /\ [][Next]_lockVars
=============================================================================
