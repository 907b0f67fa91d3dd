------------------------------- MODULE Raffles -------------------------------
(***************************************************************************)
(* Raffles in one channel: starts from chat and from the Stream Deck that  *)
(* overlap, entries, the draw.  The configuration, the announcement, the   *)
(* exclusion list and the payments are awaited.                            *)
(***************************************************************************)
EXTENDS Naturals, FiniteSets

CONSTANTS
  RaffleStarts,      \* calls of startRaffle; a raffle is named after its call
  RaffleViewers,
  Amount             \* of every raffle

VARIABLES
  activeRaffle,      \* activeRaffles of the channel: the raffle, or none
  raffleStart,       \* where each call is
  entrants,          \* of each raffle
  joining,           \* the raffle each viewer's !join has found
  drawTimer,         \* raffles whose draw is scheduled
  drawn              \* what each raffle has paid, and to whom

raffleVars == <<activeRaffle, raffleStart, entrants, joining, drawTimer, drawn>>

NoRaffle == 0
NotDrawn == [winners |-> {}, share |-> 0, times |-> 0]

\* The configuration has been read; from the check to the entry in the map nothing is awaited.
startRaffle(s) ==
  /\ raffleStart[s] = "config"
  /\ IF activeRaffle # NoRaffle
     THEN raffleStart' = [raffleStart EXCEPT ![s] = "already_running"] /\ UNCHANGED activeRaffle
     ELSE raffleStart' = [raffleStart EXCEPT ![s] = "announce"] /\ activeRaffle' = s
  /\ UNCHANGED <<entrants, joining, drawTimer, drawn>>

AskRaffle(s) ==
  /\ raffleStart[s] = "new"
  /\ \/ raffleStart' = [raffleStart EXCEPT ![s] = "config"]
     \/ raffleStart' = [raffleStart EXCEPT ![s] = "points_disabled"]
  /\ UNCHANGED <<activeRaffle, entrants, joining, drawTimer, drawn>>

\* The announcement is out and the draw is scheduled, or it failed and the raffle is cancelled.
Announced(s) ==
  /\ raffleStart[s] = "announce"
  /\ \/ /\ raffleStart' = [raffleStart EXCEPT ![s] = "ok"]
        /\ drawTimer' = drawTimer \cup {s}
        /\ UNCHANGED activeRaffle
     \/ /\ raffleStart' = [raffleStart EXCEPT ![s] = "chat_unavailable"]
        /\ activeRaffle' = IF activeRaffle = s THEN NoRaffle ELSE activeRaffle
        /\ UNCHANGED drawTimer
  /\ UNCHANGED <<entrants, joining, drawn>>

\* A !join looks the raffle up, and then the exclusion list.
handleJoinCommand(v) ==
  /\ joining[v] = NoRaffle /\ activeRaffle # NoRaffle
  /\ joining' = [joining EXCEPT ![v] = activeRaffle]
  /\ UNCHANGED <<activeRaffle, raffleStart, entrants, drawTimer, drawn>>

\* Mistake: the raffle that is open now is joined, whichever it is.
SomeRaffle(v) == activeRaffle # NoRaffle

StillOpen(v) == activeRaffle = joining[v]

Joined(v) ==
  /\ joining[v] # NoRaffle
  /\ joining' = [joining EXCEPT ![v] = NoRaffle]
  /\ entrants' = IF StillOpen(v) THEN [entrants EXCEPT ![joining[v]] = @ \cup {v}] ELSE entrants
  /\ UNCHANGED <<activeRaffle, raffleStart, drawTimer, drawn>>

\* getMaxWinners (one for three entrants, at least one of any), rollWinnerCount and pickWinners.
WinnerCounts(n) == IF n = 0 THEN {0} ELSE 1..(IF n >= 15 THEN 5 ELSE (n + 2) \div 3)
getPrizeShare(n) == IF n = 0 THEN 0 ELSE Amount \div n

\* The draw takes the raffle that is open in the channel out first.
drawRaffle(s) ==
  /\ s \in drawTimer
  /\ drawTimer' = drawTimer \ {s}
  /\ activeRaffle' = NoRaffle
  /\ IF activeRaffle = NoRaffle
     THEN UNCHANGED drawn
     ELSE \E winners \in SUBSET entrants[activeRaffle] :
            /\ Cardinality(winners) \in WinnerCounts(Cardinality(entrants[activeRaffle]))
            /\ drawn' = [drawn EXCEPT ![activeRaffle] =
                 [winners |-> winners, share |-> getPrizeShare(Cardinality(winners)), times |-> @.times + 1]]
  /\ UNCHANGED <<raffleStart, entrants, joining>>

\* A shutdown cancels the timers and forgets the raffles; a restart does no more.
stopAllRaffles ==
  /\ activeRaffle # NoRaffle
  /\ activeRaffle' = NoRaffle /\ drawTimer' = {}
  /\ raffleStart' = [s \in RaffleStarts |-> IF raffleStart[s] \in {"config", "announce"} THEN "stopped" ELSE raffleStart[s]]
  /\ joining' = [v \in RaffleViewers |-> NoRaffle]
  /\ UNCHANGED <<entrants, drawn>>

RafflesInit ==
  /\ activeRaffle = NoRaffle
  /\ raffleStart = [s \in RaffleStarts |-> "new"]
  /\ entrants = [s \in RaffleStarts |-> {}]
  /\ joining = [v \in RaffleViewers |-> NoRaffle]
  /\ drawTimer = {}
  /\ drawn = [s \in RaffleStarts |-> NotDrawn]

RafflesNext ==
  \/ \E s \in RaffleStarts : AskRaffle(s) \/ startRaffle(s) \/ Announced(s) \/ drawRaffle(s)
  \/ \E v \in RaffleViewers : handleJoinCommand(v) \/ Joined(v)
  \/ stopAllRaffles

---------------------------------------------------------------------------

\* Variables hold what the code keeps in them.
RafflesTypeOK ==
  /\ activeRaffle \in RaffleStarts \cup {NoRaffle}
  /\ drawTimer \subseteq RaffleStarts
  /\ \A s \in RaffleStarts : entrants[s] \subseteq RaffleViewers /\ drawn[s].winners \subseteq RaffleViewers

\* Every raffle is drawn by its own timer and once: an open raffle waits for its announcement or
\* for its draw, a draw finds the raffle it was scheduled for, nobody enters a raffle after it was
\* drawn, and it never pays more than its prize.
RafflesAreFair ==
  /\ activeRaffle # NoRaffle =>
       raffleStart[activeRaffle] = "announce" \/ activeRaffle \in drawTimer
  /\ drawTimer \subseteq {activeRaffle}
  /\ \A s \in RaffleStarts :
       /\ drawn[s].times <= 1
       /\ drawn[s].share * Cardinality(drawn[s].winners) <= Amount
       /\ drawn[s].times = 1 =>
            drawn[s].winners \subseteq entrants[s] /\ (entrants[s] # {} => drawn[s].winners # {})

===============================================================================
