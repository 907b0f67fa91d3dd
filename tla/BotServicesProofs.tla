--------------------------- MODULE BotServicesProofs ---------------------------
(***************************************************************************)
(* Proofs about the services of BotServices: the stream monitor, the bot's *)
(* place in the chat channel, the send queue, the timers, the bot's token, *)
(* the catch-up of redemptions, the Discord client and the owner's alerts, *)
(* for any number of games, messages, channels, timers, sessions, connect  *)
(* attempts, redemptions, clients and failures.                            *)
(***************************************************************************)
EXTENDS BotServices, FiniteSetTheorems, SequenceTheorems, TLAPS

-----------------------------------------------------------------------------
(* Tokens: connect attempts, refreshes and rollbacks that overtake each    *)
(* other                                                                   *)

TokenOrNone == Attempts \cup {0}
BotRows == [user : TokenOrNone, token : TokenOrNone, connection : Nat \ {0}, startedAt : Attempts]
Connects ==
  [pc : {"away", "save", "read", "restart", "restore", "restart again", "done"}, previous : TokenOrNone,
   connection : Nat]
ChatClients == [connection : Nat, token : TokenOrNone, broken : {"no", "yes"}]
Reads == [connection : Nat, token : TokenOrNone, broken : {"no"}]
Outcomes == [connection : Nat, token : Attempts, answer : {"refreshed", "transient", "revoked"}]

\* A restart is asked for by attempts that were saved, so by none that is newer than the row.
Restarts(startedAt) ==
  {r \in [for : {"connect", "restore", "rebuild", "revoked"}, id : Nat] : r.for = "connect" => r.id <= startedAt}

TokenTypes ==
  /\ botRow \in BotRows
  /\ connects \in [Attempts -> Connects]
  /\ chatClient \in ChatClients
  /\ chatClient = Tokens!NoClient \/ chatClient.token # 0
  /\ restartChain \in Seq(Restarts(botRow.startedAt))
  /\ rowRead = Tokens!NotReading \/ rowRead \in Reads
  /\ rowRead # Tokens!NotReading => restartChain # <<>>
  /\ outcomes \subseteq Outcomes
  /\ DOMAIN rebuilds \subseteq Nat
  /\ restored \subseteq Attempts

\* Whoever holds the row's connection_id holds the row's token, and no connection_id is newer than the row's.
FollowsRow(x) == x.connection <= botRow.connection /\ (x.connection = botRow.connection => x.token = botRow.token)

RowIsFollowed ==
  /\ FollowsRow(chatClient)
  /\ rowRead # Tokens!NotReading => FollowsRow(rowRead)
  /\ \A outcome \in outcomes : FollowsRow(outcome)

\* An attempt that holds the row's connection_id is the one that was started last.
AttemptsInv ==
  \A a \in Attempts :
    /\ connects[a].connection <= botRow.connection
    /\ connects[a].connection = botRow.connection => botRow.startedAt = a

TokensInv == TokenTypes /\ RowIsFollowed /\ AttemptsInv /\ Tokens!TokenIsTheLastConnected

LEMMA TokensInitInv == ASSUME Tokens!TokensInit PROVE TokensInv
<1>1. TokenTypes
  <2>1. botRow \in BotRows /\ chatClient \in ChatClients /\ chatClient.token # 0
    BY TokensAssumption DEF Tokens!TokensInit, TokenOrNone, BotRows, ChatClients
  <2>2. Tokens!AwayAtTwitch \in Connects /\ Tokens!Finished \in Connects
    BY DEF TokenOrNone, Connects, Tokens!Finished, Tokens!AwayAtTwitch, Tokens!None
  <2>3. connects \in [Attempts -> Connects]
    BY <2>2 DEF Tokens!TokensInit
  <2>4. restartChain \in Seq(Restarts(botRow.startedAt)) /\ rowRead = Tokens!NotReading
    BY DEF Tokens!TokensInit
  <2>5. DOMAIN rebuilds = {}
    BY DEF Tokens!TokensInit
  <2> QED
    BY <2>1, <2>3, <2>4, <2>5 DEF Tokens!TokensInit, TokenTypes
<1>2. RowIsFollowed
  BY DEF Tokens!TokensInit, RowIsFollowed, FollowsRow, Tokens!NotReading, Tokens!None
<1>3. \A a \in Attempts : connects[a].connection = 0 /\ connects[a].pc \in {"away", "done"}
  BY DEF Tokens!TokensInit, Tokens!Finished, Tokens!AwayAtTwitch, Tokens!None
<1>4. botRow.connection = 1 /\ botRow.user = 1 /\ botRow.token = 1 /\ botRow.startedAt = 1
  BY DEF Tokens!TokensInit
<1>5. AttemptsInv
  BY <1>3, <1>4 DEF AttemptsInv
<1>6. Tokens!TokenIsTheLastConnected
  BY <1>3, <1>4 DEF Tokens!TokenIsTheLastConnected
<1> QED
  BY <1>1, <1>2, <1>5, <1>6 DEF TokensInv

\* What a step may do to the row: nothing, or give it to a later connection_id for an attempt at least as new.
LaterRow ==
  /\ botRow' \in BotRows
  /\ botRow'.startedAt >= botRow.startedAt
  /\ \/ botRow' = botRow
     \/ botRow'.connection = botRow.connection + 1

LEMMA AskedBefore == ASSUME TokenTypes, LaterRow PROVE restartChain \in Seq(Restarts(botRow'.startedAt))
<1> DEFINE before == botRow.startedAt
           after == botRow'.startedAt
<1>1. before \in Nat /\ after \in Nat /\ before <= after /\ restartChain \in Seq(Restarts(before))
  BY TokensAssumption DEF TokenTypes, LaterRow, BotRows
<1> HIDE DEF before, after
<1>2. ASSUME NEW id \in Nat, id <= before PROVE id <= after
  BY <1>1, <1>2
<1>3. \A r \in Restarts(before) : r \in Restarts(after)
  BY <1>2 DEF Restarts
<1>4. restartChain \in Seq(Restarts(after))
  BY <1>1, <1>3
<1> QED
  BY <1>4 DEF after

\* A connection_id that no one holds yet displaces no one who holds an older one.
LEMMA StillFollows ==
  ASSUME TokensInv, LaterRow, chatClient' = chatClient, rowRead' = rowRead, outcomes' \subseteq outcomes
  PROVE  RowIsFollowed'
<1>1. /\ botRow.connection \in Nat /\ botRow'.connection \in Nat /\ chatClient.connection \in Nat
      /\ rowRead # Tokens!NotReading => rowRead.connection \in Nat
      /\ \A outcome \in outcomes : outcome.connection \in Nat
  BY DEF TokensInv, TokenTypes, LaterRow, BotRows, ChatClients, Reads, Outcomes
<1>2. CASE botRow' = botRow
  BY <1>2 DEF TokensInv, RowIsFollowed, FollowsRow
<1>3. CASE botRow'.connection = botRow.connection + 1
  <2>1. ASSUME NEW x, x.connection \in Nat, FollowsRow(x)
        PROVE  x.connection <= botRow'.connection /\ x.connection # botRow'.connection
    BY <1>1, <1>3, <2>1 DEF FollowsRow
  <2> QED
    BY <1>1, <2>1 DEF TokensInv, RowIsFollowed, FollowsRow
<1> QED
  BY <1>2, <1>3 DEF LaterRow

\* What a step may do to an attempt: nothing, move it on, finish it, or hand it the row that is its own.
Moves(a) ==
  \/ connects'[a] = connects[a]
  \/ connects'[a] = Tokens!Finished
  \/ /\ connects'[a] \in Connects /\ connects'[a].connection = connects[a].connection
     /\ connects'[a].pc \in {"restart", "restore", "restart again"} => botRow'.startedAt >= a
  \/ /\ connects'[a] \in Connects /\ connects'[a].connection = botRow.connection
     /\ botRow' = botRow /\ botRow.startedAt = a

\* The row stays with the last attempt started when a step only moves the attempts and keeps to LaterRow.
LEMMA AttemptsStay ==
  ASSUME TokensInv, LaterRow, connects' \in [Attempts -> Connects], \A a \in Attempts : Moves(a),
         botRow'.user = botRow'.token,
         botRow'.token # 0 => botRow'.user = botRow'.startedAt \/ botRow'.startedAt \in restored'
  PROVE  AttemptsInv' /\ Tokens!TokenIsTheLastConnected'
<1>1. /\ botRow.connection \in Nat \ {0} /\ botRow'.connection \in Nat \ {0}
      /\ botRow.startedAt \in Nat /\ botRow'.startedAt \in Nat /\ Attempts \subseteq Nat
      /\ \A a \in Attempts : connects[a].connection \in Nat
  BY TokensAssumption DEF TokensInv, TokenTypes, LaterRow, BotRows, Connects
<1>2. Tokens!Finished.connection = 0 /\ Tokens!Finished.pc = "done"
  BY DEF Tokens!Finished, Tokens!AwayAtTwitch, Tokens!None
<1>3. ASSUME NEW a \in Attempts
      PROVE  /\ connects'[a].connection <= botRow'.connection
             /\ connects'[a].connection = botRow'.connection => botRow'.startedAt = a
             /\ connects'[a].pc \in {"restart", "restore", "restart again"} => botRow'.startedAt >= a
  <2>1. /\ connects[a].connection <= botRow.connection
        /\ connects[a].connection = botRow.connection => botRow.startedAt = a
        /\ connects[a].pc \in {"restart", "restore", "restart again"} => botRow.startedAt >= a
    BY DEF TokensInv, AttemptsInv, Tokens!TokenIsTheLastConnected
  <2>2. /\ connects[a].connection <= botRow'.connection
        /\ connects[a].connection = botRow'.connection => botRow'.startedAt = a
        /\ connects[a].pc \in {"restart", "restore", "restart again"} => botRow'.startedAt >= a
    <3>1. CASE botRow' = botRow
      BY <2>1, <3>1
    <3>2. CASE botRow'.connection = botRow.connection + 1
      <4>1. \A x, y, z \in Nat : x <= y /\ z = y + 1 => x <= z /\ x # z
        OBVIOUS
      <4>2. \A x, y, z \in Nat : x >= y /\ z >= x => z >= y
        OBVIOUS
      <4>3. botRow'.startedAt >= botRow.startedAt
        BY DEF LaterRow
      <4>4. connects[a].connection <= botRow'.connection /\ connects[a].connection # botRow'.connection
        BY <1>1, <2>1, <3>2, <4>1
      <4>5. connects[a].pc \in {"restart", "restore", "restart again"} => botRow'.startedAt >= a
        BY <1>1, <2>1, <4>2, <4>3
      <4> QED
        BY <4>4, <4>5
    <3> QED
      BY <3>1, <3>2 DEF LaterRow
  <2>3. CASE connects'[a] = connects[a]
    BY <2>2, <2>3
  <2>4. CASE connects'[a] = Tokens!Finished
    <3>1. botRow'.connection \in Nat \ {0} => 0 <= botRow'.connection /\ 0 # botRow'.connection
      OBVIOUS
    <3> QED
      BY <1>1, <1>2, <2>4, <3>1
  <2>5. CASE /\ connects'[a] \in Connects /\ connects'[a].connection = connects[a].connection
             /\ connects'[a].pc \in {"restart", "restore", "restart again"} => botRow'.startedAt >= a
    BY <2>2, <2>5
  <2>6. CASE /\ connects'[a] \in Connects /\ connects'[a].connection = botRow.connection
             /\ botRow' = botRow /\ botRow.startedAt = a
    BY <1>1, <2>6
  <2> QED
    BY <2>3, <2>4, <2>5, <2>6 DEF Moves
<1> QED
  BY <1>3 DEF AttemptsInv, Tokens!TokenIsTheLastConnected, Tokens!None

LEMMA SameRow ==
  ASSUME TokensInv, botRow' = botRow, restored' = restored
  PROVE  /\ LaterRow
         /\ botRow'.user = botRow'.token
         /\ botRow'.token # 0 => botRow'.user = botRow'.startedAt \/ botRow'.startedAt \in restored'
<1>1. botRow \in BotRows
  BY DEF TokensInv, TokenTypes
<1>2. botRow.startedAt \in Nat
  BY <1>1, TokensAssumption DEF BotRows
<1>3. botRow.startedAt >= botRow.startedAt
  BY <1>2
<1>4. /\ botRow.user = botRow.token
      /\ botRow.token # 0 => botRow.user = botRow.startedAt \/ botRow.startedAt \in restored
  BY DEF TokensInv, Tokens!TokenIsTheLastConnected, Tokens!None
<1> QED
  BY <1>1, <1>3, <1>4 DEF LaterRow

\* A step that leaves the row alone and only moves attempts.
LEMMA RowKept ==
  ASSUME TokensInv, botRow' = botRow, restored' = restored, TokenTypes', RowIsFollowed', \A a \in Attempts : Moves(a)
  PROVE  TokensInv'
<1>1. connects' \in [Attempts -> Connects]
  BY DEF TokenTypes
<1> QED
  BY <1>1, SameRow, AttemptsStay DEF TokensInv

LEMMA FinishedFacts == Tokens!Finished \in Connects
BY DEF Connects, TokenOrNone, Tokens!Finished, Tokens!AwayAtTwitch, Tokens!None

\* One attempt's record written anew.
LEMMA OneMoves ==
  ASSUME TokensInv, NEW a, NEW new \in Connects, connects' = [connects EXCEPT ![a] = new],
         a \in Attempts =>
           \/ new = Tokens!Finished
           \/ /\ new.connection = connects[a].connection
              /\ new.pc \in {"restart", "restore", "restart again"} => botRow'.startedAt >= a
           \/ new.connection = botRow.connection /\ botRow' = botRow /\ botRow.startedAt = a
  PROVE  connects' \in [Attempts -> Connects] /\ \A b \in Attempts : Moves(b)
<1>1. connects \in [Attempts -> Connects]
  BY DEF TokensInv, TokenTypes
<1>2. connects' \in [Attempts -> Connects]
  BY <1>1
<1>3. \A b \in Attempts : connects'[b] = IF b = a THEN new ELSE connects[b]
  BY <1>1
<1> QED
  BY <1>2, <1>3 DEF Moves

LEMMA ReturnsKeepsTokensInv == ASSUME TokensInv, NEW a \in Attempts, Tokens!Returns(a) PROVE TokensInv'
<1>1. UNCHANGED <<botRow, chatClient, restartChain, rowRead, outcomes, rebuilds, restored>>
  BY DEF Tokens!Returns
<1> DEFINE back == [connects[a] EXCEPT !.pc = "save", !.previous = botRow.token]
<1>2. connects[a] \in Connects /\ connects[a].pc = "away" /\ botRow.token \in TokenOrNone
  BY DEF TokensInv, TokenTypes, BotRows, Tokens!Returns
<1>3. back \in Connects /\ back.connection = connects[a].connection /\ back.pc = "save"
  BY <1>2 DEF Connects
<1>4. connects' = [connects EXCEPT ![a] = back] \/ connects' = [connects EXCEPT ![a] = Tokens!Finished]
  BY DEF Tokens!Returns
<1> HIDE DEF back
<1>5. connects' \in [Attempts -> Connects] /\ \A b \in Attempts : Moves(b)
  <2>1. CASE connects' = [connects EXCEPT ![a] = back]
    BY <1>3, <2>1, OneMoves
  <2>2. CASE connects' = [connects EXCEPT ![a] = Tokens!Finished]
    BY <2>2, FinishedFacts, OneMoves
  <2> QED
    BY <1>4, <2>1, <2>2
<1>6. TokenTypes'
  BY <1>1, <1>5 DEF TokensInv, TokenTypes
<1>7. RowIsFollowed'
  BY <1>1 DEF TokensInv, RowIsFollowed, FollowsRow
<1> QED
  BY <1>1, <1>5, <1>6, <1>7, RowKept

\* A later attempt takes the row and gives it a new connection_id; an earlier one leaves it alone.
LEMMA SavesKeepsTokensInv == ASSUME TokensInv, NEW a \in Attempts, Tokens!Saves(a) PROVE TokensInv'
<1>1. UNCHANGED <<chatClient, restartChain, rowRead, outcomes, rebuilds, restored>>
  BY DEF Tokens!Saves
<1> DEFINE written == [connects[a] EXCEPT !.pc = "read"]
           taken == [user |-> a, token |-> a, connection |-> botRow.connection + 1, startedAt |-> a]
<1>2. connects[a] \in Connects /\ botRow \in BotRows
  BY DEF TokensInv, TokenTypes
<1>3. written \in Connects /\ written.connection = connects[a].connection /\ written.pc = "read"
  BY <1>2 DEF Connects
<1>4. \/ connects' = [connects EXCEPT ![a] = written]
      \/ connects' = [connects EXCEPT ![a] = Tokens!Finished]
  BY DEF Tokens!Saves
<1>5. botRow' = botRow \/ (botRow' = taken /\ a >= botRow.startedAt)
  <2>1. \/ botRow' = IF a >= botRow.startedAt THEN taken ELSE botRow
        \/ botRow' = botRow
    BY Zenon DEF Tokens!Saves, Tokens!Wins
  <2> QED
    BY Zenon, <2>1
<1>6. /\ taken \in BotRows /\ taken.connection = botRow.connection + 1 /\ taken.startedAt = a /\ taken.user = a
      /\ taken.token = a
  <2>1. botRow.connection + 1 \in Nat \ {0}
    BY <1>2 DEF BotRows
  <2> QED
    BY <2>1 DEF BotRows, TokenOrNone
<1> HIDE DEF written, taken
<1>7. connects' \in [Attempts -> Connects] /\ \A b \in Attempts : Moves(b)
  <2>1. CASE connects' = [connects EXCEPT ![a] = written]
    BY <1>3, <2>1, OneMoves
  <2>2. CASE connects' = [connects EXCEPT ![a] = Tokens!Finished]
    BY <2>2, FinishedFacts, OneMoves
  <2> QED
    BY <1>4, <2>1, <2>2
<1>8. /\ LaterRow /\ botRow'.user = botRow'.token
      /\ botRow'.token # 0 => botRow'.user = botRow'.startedAt \/ botRow'.startedAt \in restored'
  <2>1. CASE botRow' = botRow
    BY <1>1, <2>1, SameRow
  <2>2. CASE botRow' = taken /\ a >= botRow.startedAt
    BY <1>6, <2>2 DEF LaterRow
  <2> QED
    BY <1>5, <2>1, <2>2
<1>9. RowIsFollowed'
  BY <1>1, <1>8, StillFollows
<1>10. TokenTypes'
  <2>1. restartChain' \in Seq(Restarts(botRow'.startedAt))
    BY <1>1, <1>8, AskedBefore DEF TokensInv
  <2> QED
    BY <1>1, <1>7, <1>8, <2>1 DEF TokensInv, TokenTypes, LaterRow
<1> QED
  BY <1>7, <1>8, <1>9, <1>10, AttemptsStay DEF TokensInv

LEMMA ReadsBackKeepsTokensInv == ASSUME TokensInv, NEW a \in Attempts, Tokens!ReadsBack(a) PROVE TokensInv'
<1>1. UNCHANGED <<botRow, chatClient, rowRead, outcomes, rebuilds, restored>>
  BY DEF Tokens!ReadsBack
<1> DEFINE saved == [connects[a] EXCEPT !.pc = "restart", !.connection = botRow.connection]
           asked == [for |-> "connect", id |-> a]
<1>2. connects[a] \in Connects /\ botRow.connection \in Nat /\ botRow.startedAt \in Nat /\ a \in Nat
  BY TokensAssumption DEF TokensInv, TokenTypes, BotRows
<1>3. saved \in Connects /\ saved.connection = botRow.connection
  BY <1>2 DEF Connects
<1>4. \/ /\ botRow.startedAt = a /\ connects' = [connects EXCEPT ![a] = saved]
         /\ restartChain' = Append(restartChain, asked)
      \/ connects' = [connects EXCEPT ![a] = Tokens!Finished] /\ restartChain' = restartChain
  BY DEF Tokens!ReadsBack
<1>5. botRow.startedAt = a => asked \in Restarts(botRow.startedAt)
  <2>1. botRow.startedAt = a => a <= botRow.startedAt
    BY <1>2
  <2> QED
    BY <1>2, <2>1 DEF Restarts
<1> HIDE DEF saved, asked
<1>6. connects' \in [Attempts -> Connects] /\ \A b \in Attempts : Moves(b)
  <2>1. CASE botRow.startedAt = a /\ connects' = [connects EXCEPT ![a] = saved]
    BY <1>1, <1>3, <2>1, OneMoves
  <2>2. CASE connects' = [connects EXCEPT ![a] = Tokens!Finished]
    BY <2>2, FinishedFacts, OneMoves
  <2> QED
    BY <1>4, <2>1, <2>2
<1>7. /\ restartChain' \in Seq(Restarts(botRow.startedAt))
      /\ restartChain # <<>> => restartChain' # <<>>
  BY <1>4, <1>5 DEF TokensInv, TokenTypes
<1>8. TokenTypes'
  BY <1>1, <1>6, <1>7 DEF TokensInv, TokenTypes
<1>9. RowIsFollowed'
  BY <1>1 DEF TokensInv, RowIsFollowed, FollowsRow
<1> QED
  BY <1>1, <1>6, <1>8, <1>9, RowKept

\* The rollback gives the row a new connection_id too, but leaves it the attempt's: it is its own.
LEMMA RestoresKeepsTokensInv == ASSUME TokensInv, NEW a \in Attempts, Tokens!Restores(a) PROVE TokensInv'
<1>1. UNCHANGED <<chatClient, rowRead, outcomes, rebuilds>> /\ connects[a].pc = "restore"
  BY DEF Tokens!Restores
<1> DEFINE back == connects[a].previous
           again == [connects[a] EXCEPT !.pc = "restart again"]
           given == [botRow EXCEPT !.user = back, !.token = back, !.connection = @ + 1]
           asked == [for |-> "restore", id |-> a]
<1>2. connects[a] \in Connects /\ botRow \in BotRows /\ a \in Nat /\ back \in TokenOrNone
  BY TokensAssumption DEF TokensInv, TokenTypes, Connects
<1>3. again \in Connects /\ again.connection = connects[a].connection
  BY <1>2 DEF Connects
<1>4. /\ given \in BotRows /\ given.connection = botRow.connection + 1 /\ given.startedAt = botRow.startedAt
      /\ given.user = back /\ given.token = back
  <2> DEFINE next == botRow.connection + 1
  <2>1. next \in Nat \ {0}
    BY <1>2 DEF BotRows
  <2>2. given = [botRow EXCEPT !.user = back, !.token = back, !.connection = next]
    OBVIOUS
  <2> HIDE DEF next, back
  <2>3. /\ given \in BotRows /\ given.connection = next /\ given.startedAt = botRow.startedAt
        /\ given.user = back /\ given.token = back
    BY <1>2, <2>1, <2>2 DEF BotRows
  <2> QED
    BY <2>3 DEF next
<1>5. \/ /\ botRow.connection = connects[a].connection /\ connects' = [connects EXCEPT ![a] = again]
         /\ botRow' = given /\ restored' = restored \cup {a} /\ restartChain' = Append(restartChain, asked)
      \/ /\ connects' = [connects EXCEPT ![a] = Tokens!Finished]
         /\ UNCHANGED <<botRow, restored, restartChain>>
  BY DEF Tokens!Restores, Tokens!OwnedBy
<1>6. asked \in Restarts(botRow.startedAt) /\ botRow.startedAt >= botRow.startedAt
  <2>1. asked \in Restarts(botRow.startedAt)
    BY <1>2 DEF Restarts
  <2>2. botRow.startedAt \in Nat
    BY <1>2, TokensAssumption DEF BotRows
  <2> QED
    BY <2>1, <2>2
<1>7. botRow.startedAt >= a /\ (botRow.connection = connects[a].connection => botRow.startedAt = a)
  BY <1>1 DEF TokensInv, AttemptsInv, Tokens!TokenIsTheLastConnected
<1> HIDE DEF back, again, given, asked
<1>8. CASE /\ botRow.connection = connects[a].connection /\ connects' = [connects EXCEPT ![a] = again]
           /\ botRow' = given /\ restored' = restored \cup {a} /\ restartChain' = Append(restartChain, asked)
  <2>1. connects' \in [Attempts -> Connects] /\ \A b \in Attempts : Moves(b)
    BY <1>3, <1>4, <1>7, <1>8, OneMoves
  <2>2. /\ LaterRow /\ botRow'.user = botRow'.token
        /\ botRow'.token # 0 => botRow'.user = botRow'.startedAt \/ botRow'.startedAt \in restored'
    BY <1>4, <1>6, <1>7, <1>8 DEF LaterRow
  <2>3. RowIsFollowed'
    BY <1>1, <2>2, StillFollows
  <2>4. restartChain' \in Seq(Restarts(botRow'.startedAt)) /\ restartChain' # <<>>
    BY <1>4, <1>6, <1>8 DEF TokensInv, TokenTypes
  <2>5. TokenTypes'
    BY <1>1, <1>8, <2>1, <2>2, <2>4 DEF TokensInv, TokenTypes, LaterRow
  <2> QED
    BY <2>1, <2>2, <2>3, <2>5, AttemptsStay DEF TokensInv
<1>9. CASE connects' = [connects EXCEPT ![a] = Tokens!Finished] /\ UNCHANGED <<botRow, restored, restartChain>>
  <2>1. connects' \in [Attempts -> Connects] /\ \A b \in Attempts : Moves(b)
    BY <1>9, FinishedFacts, OneMoves
  <2>2. TokenTypes'
    BY <1>1, <1>9, <2>1 DEF TokensInv, TokenTypes
  <2>3. RowIsFollowed'
    BY <1>1, <1>9 DEF TokensInv, RowIsFollowed, FollowsRow
  <2> QED
    BY <1>9, <2>1, <2>2, <2>3, RowKept
<1> QED
  BY <1>5, <1>8, <1>9

\* What a failed or finished restart does to its caller.
LEMMA LeavesTheLoop ==
  ASSUME TokensInv, NEW c, rebuilds' = Tokens!Restrict(rebuilds, DOMAIN rebuilds \ {c})
  PROVE  DOMAIN rebuilds' \subseteq Nat
BY DEF TokensInv, TokenTypes, Tokens!Restrict

LEMMA AttemptFailsFacts == ASSUME TokensInv, NEW c, Tokens!AttemptFails(c) PROVE DOMAIN rebuilds' \subseteq Nat
<1>1. CASE rebuilds' = Tokens!Restrict(rebuilds, DOMAIN rebuilds \ {c})
  BY <1>1, LeavesTheLoop
<1>2. CASE rebuilds' = [rebuilds EXCEPT ![c] = [left |-> @.left - 1, pc |-> "wait"]]
  BY <1>2 DEF TokensInv, TokenTypes
<1> QED
  BY <1>1, <1>2 DEF Tokens!AttemptFails

LEMMA FailureFacts ==
  ASSUME TokensInv, botRow' = botRow, NEW caller \in Restarts(botRow.startedAt), Tokens!CallerSeesFailure(caller)
  PROVE  connects' \in [Attempts -> Connects] /\ (\A a \in Attempts : Moves(a)) /\ DOMAIN rebuilds' \subseteq Nat
<1>1. connects \in [Attempts -> Connects] /\ DOMAIN rebuilds \subseteq Nat
  BY DEF TokensInv, TokenTypes
<1>2. CASE UNCHANGED <<connects, rebuilds>>
  BY <1>1, <1>2 DEF Moves
<1>3. CASE connects' = [connects EXCEPT ![caller.id] = Tokens!Finished] /\ rebuilds' = rebuilds
  BY <1>1, <1>3, FinishedFacts, OneMoves
<1>4. CASE /\ caller.for = "connect" /\ connects' = [connects EXCEPT ![caller.id].pc = "restore"]
           /\ rebuilds' = rebuilds
  <2>1. CASE caller.id \in Attempts
    <3> DEFINE id == caller.id
               new == [connects[id] EXCEPT !.pc = "restore"]
    <3>1. caller.id \in Nat /\ caller.id <= botRow.startedAt /\ botRow.startedAt \in Nat
      BY <1>4, TokensAssumption DEF Restarts, TokensInv, TokenTypes, BotRows
    <3>2. botRow'.startedAt >= id
      BY <3>1
    <3>3. new \in Connects /\ new.connection = connects[id].connection
      BY <1>1, <2>1 DEF Connects
    <3>4. connects' = [connects EXCEPT ![id] = new]
      BY <1>4
    <3> HIDE DEF new, id
    <3> QED
      BY <1>1, <1>4, <3>2, <3>3, <3>4, OneMoves
  <2>2. CASE caller.id \notin Attempts
    <3>1. connects' = connects
      BY <1>1, <1>4, <2>2
    <3> QED
      BY <1>1, <1>4, <3>1 DEF Moves
  <2> QED
    BY <2>1, <2>2
<1>5. CASE Tokens!AttemptFails(caller.id) /\ connects' = connects
  BY <1>1, <1>5, AttemptFailsFacts DEF Moves
<1> QED
  BY <1>2, <1>3, <1>4, <1>5 DEF Tokens!CallerSeesFailure

LEMMA SuccessFacts ==
  ASSUME TokensInv, botRow' = botRow, NEW caller, Tokens!CallerSeesSuccess(caller)
  PROVE  connects' \in [Attempts -> Connects] /\ (\A a \in Attempts : Moves(a)) /\ DOMAIN rebuilds' \subseteq Nat
<1>1. connects \in [Attempts -> Connects] /\ DOMAIN rebuilds \subseteq Nat
  BY DEF TokensInv, TokenTypes
<1>2. connects' \in [Attempts -> Connects] /\ \A a \in Attempts : Moves(a)
  <2>1. CASE connects' = connects
    BY <1>1, <2>1 DEF Moves
  <2>2. CASE connects' = [connects EXCEPT ![caller.id] = Tokens!Finished]
    BY <2>2, FinishedFacts, OneMoves
  <2> QED
    BY <2>1, <2>2 DEF Tokens!CallerSeesSuccess
<1>3. DOMAIN rebuilds' \subseteq Nat
  BY <1>1, LeavesTheLoop DEF Tokens!CallerSeesSuccess
<1> QED
  BY <1>2, <1>3

LEMMA NoClientFacts ==
  /\ Tokens!NoClient \in ChatClients
  /\ TokensInv => FollowsRow(Tokens!NoClient)
<1>1. Tokens!NoClient \in ChatClients /\ Tokens!NoClient.connection = 0
  BY DEF Tokens!NoClient, Tokens!None, ChatClients, TokenOrNone
<1>2. TokensInv => botRow.connection \in Nat \ {0}
  BY DEF TokensInv, TokenTypes, BotRows
<1> QED
  BY <1>1, <1>2 DEF FollowsRow

LEMMA RestartBeginsKeepsTokensInv == ASSUME TokensInv, Tokens!RestartBegins PROVE TokensInv'
<1> DEFINE seen == [connection |-> botRow.connection, token |-> botRow.token, broken |-> "no"]
<1>1. /\ UNCHANGED <<botRow, outcomes, restored>> /\ restartChain # <<>> /\ chatClient' = Tokens!NoClient
      /\ rowRead = Tokens!NotReading
  BY DEF Tokens!RestartBegins
<1>2. \/ rowRead' = seen /\ UNCHANGED <<restartChain, connects, rebuilds>>
      \/ /\ Tokens!CallerSeesFailure(Head(restartChain)) /\ restartChain' = Tail(restartChain)
         /\ rowRead' = rowRead
  BY Zenon DEF Tokens!RestartBegins
<1>3. seen \in Reads /\ seen.connection = botRow.connection /\ seen.token = botRow.token /\ botRow.connection \in Nat
  BY DEF TokensInv, TokenTypes, BotRows, Reads
<1> HIDE DEF seen
<1>4. Head(restartChain) \in Restarts(botRow.startedAt) /\ Tail(restartChain) \in Seq(Restarts(botRow.startedAt))
  BY <1>1 DEF TokensInv, TokenTypes
<1>5. /\ connects' \in [Attempts -> Connects] /\ (\A a \in Attempts : Moves(a)) /\ DOMAIN rebuilds' \subseteq Nat
  <2>1. UNCHANGED <<connects, rebuilds>>
        => /\ connects' \in [Attempts -> Connects] /\ (\A a \in Attempts : Moves(a))
           /\ DOMAIN rebuilds' \subseteq Nat
    BY DEF TokensInv, TokenTypes, Moves
  <2> QED
    BY <1>1, <1>2, <1>4, <2>1, FailureFacts
<1>6. TokenTypes'
  BY <1>1, <1>2, <1>3, <1>4, <1>5, NoClientFacts DEF TokensInv, TokenTypes
<1>7. RowIsFollowed'
  <2>1. FollowsRow(Tokens!NoClient) /\ FollowsRow(seen)
    BY <1>3, NoClientFacts DEF FollowsRow
  <2> QED
    BY <1>1, <1>2, <2>1 DEF TokensInv, RowIsFollowed, FollowsRow
<1> QED
  BY <1>1, <1>5, <1>6, <1>7, RowKept

LEMMA RestartEndsKeepsTokensInv == ASSUME TokensInv, Tokens!RestartEnds PROVE TokensInv'
<1>1. /\ UNCHANGED <<botRow, restored>> /\ rowRead # Tokens!NotReading /\ rowRead' = Tokens!NotReading
      /\ restartChain' = Tail(restartChain)
  BY DEF Tokens!RestartEnds
<1>2. /\ rowRead \in Reads /\ FollowsRow(rowRead) /\ restartChain # <<>>
      /\ Head(restartChain) \in Restarts(botRow.startedAt) /\ Tail(restartChain) \in Seq(Restarts(botRow.startedAt))
  BY <1>1 DEF TokensInv, TokenTypes, RowIsFollowed
<1>3. /\ connects' \in [Attempts -> Connects] /\ (\A a \in Attempts : Moves(a)) /\ DOMAIN rebuilds' \subseteq Nat
  BY <1>1, <1>2, FailureFacts, SuccessFacts DEF Tokens!RestartEnds
<1>4. chatClient' = Tokens!NoClient \/ (chatClient' = rowRead /\ rowRead.token # 0)
  <2>1. \/ chatClient' = IF rowRead.token = 0 THEN Tokens!NoClient ELSE rowRead
        \/ chatClient' = Tokens!NoClient
    BY Zenon DEF Tokens!RestartEnds, Tokens!None
  <2> QED
    BY Zenon, <2>1
<1>5. chatClient' \in ChatClients /\ (chatClient' = Tokens!NoClient \/ chatClient'.token # 0)
  BY <1>2, <1>4, NoClientFacts DEF ChatClients, Reads
<1>6. FollowsRow(chatClient')
  BY <1>2, <1>4, NoClientFacts
<1>7. outcomes' \subseteq Outcomes /\ \A outcome \in outcomes' : FollowsRow(outcome)
  <2>1. outcomes \subseteq Outcomes /\ \A outcome \in outcomes : FollowsRow(outcome)
    BY DEF TokensInv, TokenTypes, RowIsFollowed
  <2>2. CASE rowRead.token # 0 /\ \E answer \in {"transient", "revoked"} :
               outcomes' = outcomes \cup
                 {[connection |-> rowRead.connection, token |-> rowRead.token, answer |-> answer]}
    <3>1. PICK answer \in {"transient", "revoked"} :
            outcomes' = outcomes \cup
              {[connection |-> rowRead.connection, token |-> rowRead.token, answer |-> answer]}
      BY <2>2
    <3> DEFINE new == [connection |-> rowRead.connection, token |-> rowRead.token, answer |-> answer]
    <3>2. new \in Outcomes /\ FollowsRow(new)
      BY <1>2, <2>2 DEF Reads, Outcomes, TokenOrNone, FollowsRow
    <3>3. outcomes' = outcomes \cup {new}
      BY <3>1
    <3> HIDE DEF new
    <3> QED
      BY <2>1, <3>2, <3>3
  <2>3. CASE outcomes' = outcomes
    BY <2>1, <2>3
  <2> QED
    BY <2>2, <2>3 DEF Tokens!RestartEnds, Tokens!None
<1>8. TokenTypes'
  BY <1>1, <1>2, <1>3, <1>5, <1>7 DEF TokensInv, TokenTypes
<1>9. RowIsFollowed'
  BY <1>1, <1>6, <1>7 DEF RowIsFollowed, FollowsRow
<1> QED
  BY <1>1, <1>3, <1>8, <1>9, RowKept

LEMMA RefreshesKeepsTokensInv == ASSUME TokensInv, Tokens!Refreshes PROVE TokensInv'
<1>1. /\ UNCHANGED <<botRow, connects, restartChain, rowRead, rebuilds, restored>>
      /\ chatClient # Tokens!NoClient
  BY DEF Tokens!Refreshes
<1>2. chatClient \in ChatClients /\ chatClient.token # 0 /\ FollowsRow(chatClient)
  BY <1>1 DEF TokensInv, TokenTypes, RowIsFollowed
<1>3. PICK answer \in {"refreshed", "transient", "revoked"} :
        /\ outcomes' = outcomes \cup
             {[connection |-> chatClient.connection, token |-> chatClient.token, answer |-> answer]}
        /\ chatClient' = IF answer = "refreshed" THEN chatClient ELSE [chatClient EXCEPT !.broken = "yes"]
  BY DEF Tokens!Refreshes
<1> DEFINE new == [connection |-> chatClient.connection, token |-> chatClient.token, answer |-> answer]
<1>4. new \in Outcomes /\ FollowsRow(new)
  BY <1>2 DEF ChatClients, Outcomes, TokenOrNone, FollowsRow
<1>5. outcomes' = outcomes \cup {new}
  BY <1>3
<1> HIDE DEF new
<1>6. /\ chatClient' \in ChatClients /\ chatClient'.connection = chatClient.connection
      /\ chatClient'.token = chatClient.token
  BY <1>2, <1>3 DEF ChatClients
<1>7. TokenTypes'
  BY <1>1, <1>2, <1>4, <1>5, <1>6 DEF TokensInv, TokenTypes
<1>8. RowIsFollowed'
  BY <1>1, <1>2, <1>4, <1>5, <1>6 DEF TokensInv, RowIsFollowed, FollowsRow
<1>9. \A a \in Attempts : Moves(a)
  BY <1>1 DEF Moves
<1> QED
  BY <1>1, <1>7, <1>8, <1>9, RowKept

\* A refresh that was answered only reaches the row while its connection still holds it.
LEMMA HandledKeepsTokensInv ==
  ASSUME TokensInv, NEW answer, Tokens!Handled(answer)
  PROVE  TokensInv'
<1>1. PICK outcome \in outcomes :
        /\ Tokens!SavesRefreshed(outcome) \/ Tokens!StartsRebuilding(outcome) \/ Tokens!ClearsRevoked(outcome)
        /\ outcomes' = outcomes \ {outcome}
        /\ UNCHANGED <<connects, chatClient, rowRead, restored>>
  BY DEF Tokens!Handled
<1>2. outcome \in Outcomes /\ FollowsRow(outcome) /\ botRow \in BotRows
  BY DEF TokensInv, TokenTypes, RowIsFollowed
<1>3. connects' \in [Attempts -> Connects] /\ \A a \in Attempts : Moves(a)
  BY <1>1 DEF TokensInv, TokenTypes, Moves
\* The token that is saved is the one the row's connection already holds.
<1>4. CASE Tokens!SavesRefreshed(outcome)
  <2>1. botRow' = botRow
    <3>1. botRow.connection = outcome.connection => outcome.token = botRow.token
      BY <1>2 DEF FollowsRow
    <3>2. [botRow EXCEPT !.token = botRow.token] = botRow
      BY <1>2 DEF BotRows
    <3> QED
      BY <1>4, <3>1, <3>2 DEF Tokens!SavesRefreshed, Tokens!OwnedBy
  <2>2. UNCHANGED <<rebuilds, restartChain>>
    BY <1>4 DEF Tokens!SavesRefreshed
  <2>3. TokenTypes'
    BY <1>1, <2>1, <2>2 DEF TokensInv, TokenTypes
  <2>4. RowIsFollowed'
    BY <1>1, <2>1, SameRow, StillFollows
  <2> QED
    BY <1>1, <1>3, <2>1, <2>3, <2>4, RowKept
<1>5. CASE Tokens!StartsRebuilding(outcome)
  <2>1. UNCHANGED <<botRow, restartChain>>
    BY <1>5 DEF Tokens!StartsRebuilding
  <2>2. outcome.connection \in Nat /\ DOMAIN rebuilds \subseteq Nat
    BY <1>2 DEF Outcomes, TokensInv, TokenTypes
  <2>3. DOMAIN rebuilds' \subseteq Nat
    BY <1>5, <2>2 DEF Tokens!StartsRebuilding
  <2>4. TokenTypes'
    BY <1>1, <2>1, <2>3 DEF TokensInv, TokenTypes
  <2>5. RowIsFollowed'
    BY <1>1, <2>1, SameRow, StillFollows
  <2> QED
    BY <1>1, <1>3, <2>1, <2>4, <2>5, RowKept
\* Cleared, the row has no account and a connection_id of its own.
<1>6. CASE Tokens!ClearsRevoked(outcome)
  <2> DEFINE next == botRow.connection + 1
             cleared == [botRow EXCEPT !.user = 0, !.token = 0, !.connection = next]
             asked == [for |-> "revoked", id |-> outcome.connection]
  <2>1. rebuilds' = rebuilds
    BY <1>6 DEF Tokens!ClearsRevoked
  <2>2. \/ botRow' = cleared /\ restartChain' = Append(restartChain, asked)
        \/ UNCHANGED <<botRow, restartChain>>
    BY <1>6 DEF Tokens!ClearsRevoked, Tokens!None
  <2>3. CASE botRow' = cleared /\ restartChain' = Append(restartChain, asked)
    <3>1. next \in Nat \ {0} /\ next = botRow.connection + 1
      BY <1>2 DEF BotRows
    <3>2. asked \in Restarts(botRow.startedAt)
      BY <1>2 DEF Restarts, Outcomes
    <3> HIDE DEF next, asked
    <3>3. /\ cleared \in BotRows /\ cleared.connection = next /\ cleared.startedAt = botRow.startedAt
          /\ cleared.user = 0 /\ cleared.token = 0
      BY <1>2, <3>1 DEF BotRows, TokenOrNone
    <3> HIDE DEF cleared
    <3>4. botRow.startedAt \in Nat
      BY <1>2, TokensAssumption DEF BotRows
    <3>5. /\ LaterRow /\ botRow'.user = botRow'.token
          /\ botRow'.token # 0 => botRow'.user = botRow'.startedAt \/ botRow'.startedAt \in restored'
      BY <2>3, <3>1, <3>3, <3>4 DEF LaterRow
    <3>6. restartChain' \in Seq(Restarts(botRow'.startedAt)) /\ restartChain' # <<>>
      BY <2>3, <3>2, <3>3 DEF TokensInv, TokenTypes
    <3>7. TokenTypes'
      BY <1>1, <2>1, <3>5, <3>6 DEF TokensInv, TokenTypes, LaterRow
    <3>8. RowIsFollowed'
      BY <1>1, <3>5, StillFollows
    <3> QED
      BY <1>3, <3>5, <3>7, <3>8, AttemptsStay DEF TokensInv
  <2>4. CASE UNCHANGED <<botRow, restartChain>>
    <3>1. TokenTypes'
      BY <1>1, <2>1, <2>4 DEF TokensInv, TokenTypes
    <3>2. RowIsFollowed'
      BY <1>1, <2>4, SameRow, StillFollows
    <3> QED
      BY <1>1, <1>3, <2>4, <3>1, <3>2, RowKept
  <2> QED
    BY <2>2, <2>3, <2>4
<1> QED
  BY <1>1, <1>4, <1>5, <1>6

LEMMA RebuildKeepsTokensInv == ASSUME TokensInv, Tokens!RebuildGoesOn PROVE TokensInv'
<1>1. UNCHANGED <<botRow, connects, chatClient, rowRead, outcomes, restored>>
  BY DEF Tokens!RebuildGoesOn
<1>2. PICK c \in DOMAIN rebuilds :
        \/ /\ rebuilds' = [rebuilds EXCEPT ![c].pc = "restart"]
           /\ restartChain' = Append(restartChain, [for |-> "rebuild", id |-> c])
        \/ rebuilds' = Tokens!Restrict(rebuilds, DOMAIN rebuilds \ {c}) /\ restartChain' = restartChain
        \/ Tokens!AttemptFails(c) /\ restartChain' = restartChain
  BY DEF Tokens!RebuildGoesOn, Tokens!LookupFails
<1>3. DOMAIN rebuilds \subseteq Nat /\ restartChain \in Seq(Restarts(botRow.startedAt))
  BY DEF TokensInv, TokenTypes
<1>4. DOMAIN rebuilds' \subseteq Nat
  BY <1>2, <1>3, LeavesTheLoop, AttemptFailsFacts
<1> DEFINE asked == [for |-> "rebuild", id |-> c]
<1>5. asked \in Restarts(botRow.startedAt)
  BY <1>3 DEF Restarts
<1>6. restartChain' = Append(restartChain, asked) \/ restartChain' = restartChain
  BY <1>2
<1> HIDE DEF asked
<1>7. /\ restartChain' \in Seq(Restarts(botRow.startedAt))
      /\ restartChain # <<>> => restartChain' # <<>>
  BY <1>3, <1>5, <1>6
<1>8. TokenTypes'
  BY <1>1, <1>4, <1>7 DEF TokensInv, TokenTypes
<1>9. RowIsFollowed'
  BY <1>1, SameRow, StillFollows
<1>10. \A a \in Attempts : Moves(a)
  BY <1>1 DEF Moves
<1> QED
  BY <1>1, <1>8, <1>9, <1>10, RowKept

LEMMA TokensStep == ASSUME TokensInv, Tokens!TokensNext PROVE TokensInv'
BY ReturnsKeepsTokensInv, SavesKeepsTokensInv, ReadsBackKeepsTokensInv, RestoresKeepsTokensInv,
   RestartBeginsKeepsTokensInv, RestartEndsKeepsTokensInv, RefreshesKeepsTokensInv, HandledKeepsTokensInv,
   RebuildKeepsTokensInv
   DEF Tokens!TokensNext, Tokens!CallbackGoesOn

LEMMA TokensStutter == TokensInv /\ UNCHANGED tokenVars => TokensInv'
BY DEF TokensInv, TokenTypes, RowIsFollowed, FollowsRow, AttemptsInv, Tokens!TokenIsTheLastConnected, tokenVars

-----------------------------------------------------------------------------
(* Gateway: logins, closes and recoveries that overlap                     *)

Lives == {"free", "login", "silent", "up", "lost", "replaced"}
GatewayRecords ==
  [booting : Clients \cup {0}, ready : Clients \cup {0}, life : [Clients -> Lives], backoff : BOOLEAN,
   recovery : {"none", "pending"}, recent : BOOLEAN, connected : BOOLEAN]

GatewayInv ==
  /\ gateway \in GatewayRecords
  /\ gateway.booting = 0 \/ gateway.ready = 0
  /\ \A c \in Clients : gateway.life[c] \in {"free", "replaced"} \/ c \in {gateway.booting, gateway.ready}
  /\ gateway.recovery = "pending" => gateway.booting # 0
  /\ gateway.booting # 0 \/ gateway.ready # 0 \/ gateway.backoff = TRUE
  /\ awaited \in BOOLEAN
  /\ awaited = TRUE => gateway.ready = 0

LEMMA GatewayTruth == ASSUME GatewayInv
                     PROVE Gateway!OneClient /\ Gateway!SomethingIsUnderWay /\ Gateway!WaitersAreServed
<1>1. Gateway!Tracked = {gateway.booting, gateway.ready} \ {0}
  BY DEF Gateway!Tracked, Gateway!None
<1>2. Gateway!Alive \subseteq Gateway!Tracked
  BY <1>1, GatewayAssumption DEF GatewayInv, Gateway!Alive
<1>3. Gateway!Cardinality(Gateway!Tracked) <= 1
  <2>1. Gateway!Tracked = {} \/ \E c : Gateway!Tracked = {c}
    BY <1>1 DEF GatewayInv
  <2>2. \A S : Gateway!Cardinality(S) = Cardinality(S)
    BY DEF Gateway!Cardinality, Cardinality
  <2>3. Cardinality({}) = 0 /\ \A c : Cardinality({c}) = 1
    BY FS_EmptySet, FS_Singleton
  <2>4. Cardinality(Gateway!Tracked) \in {0, 1}
    BY <2>1, <2>3
  <2> QED
    BY <2>2, <2>4
<1>4. Gateway!SomethingIsUnderWay
  BY <1>1 DEF GatewayInv, Gateway!SomethingIsUnderWay, Gateway!None
<1>5. Gateway!WaitersAreServed
  BY DEF GatewayInv, Gateway!WaitersAreServed, Gateway!None
<1> QED
  BY <1>2, <1>3, <1>4, <1>5 DEF Gateway!OneClient

\* With no client tracked, none is alive, and one is free or only replaced.
Idle(g) ==
  /\ g \in GatewayRecords /\ g.booting = 0 /\ g.ready = 0
  /\ \A c \in Clients : g.life[c] \in {"free", "replaced"}

\* startDiscordBot boots one client, and takes the bot to be connected no more than it was.
LEMMA StartedFacts ==
  ASSUME NEW g, Idle(g)
  PROVE  LET after == Gateway!Started(g)
         IN  /\ after \in GatewayRecords /\ after.booting # 0 /\ after.ready = 0
             /\ \A c \in Clients : after.life[c] \in {"free", "replaced"} \/ c = after.booting
<1> DEFINE f == Gateway!Fresh(g)
<1>1. f \in Clients
  BY GatewayAssumption DEF Idle, Gateway!Fresh
<1>2. Gateway!Started(g) = [g EXCEPT !.booting = f, !.life[f] = "login", !.recent = TRUE]
  BY DEF Idle, Gateway!Started, Gateway!None
<1> HIDE DEF f
<1> DEFINE life == [g.life EXCEPT ![f] = "login"]
           after == [g EXCEPT !.booting = f, !.life = life, !.recent = TRUE]
<1>3. life \in [Clients -> Lives] /\ \A c \in Clients : life[c] \in {"free", "replaced"} \/ c = f
  BY <1>1 DEF Idle, GatewayRecords, Lives
<1>4. Gateway!Started(g) = after
  BY <1>2
<1> HIDE DEF life
<1>5. after \in GatewayRecords /\ after.booting = f /\ after.ready = 0 /\ after.life = life
  BY <1>1, <1>3 DEF Idle, GatewayRecords
<1> HIDE DEF after
<1> QED
  BY <1>1, <1>3, <1>4, <1>5, GatewayAssumption

\* stopDiscordBot leaves nothing alive.
LEMMA StoppedFacts ==
  ASSUME NEW g \in GatewayRecords, \A c \in Clients : g.life[c] \in {"free", "replaced"} \/ c \in {g.booting, g.ready}
  PROVE  Idle(Gateway!Stopped(g)) /\ Gateway!Stopped(g).recovery = "none"
<1> DEFINE life == [c \in Clients |-> IF c \in {g.booting, g.ready} THEN "replaced" ELSE g.life[c]]
           after == [g EXCEPT !.booting = 0, !.ready = 0, !.backoff = FALSE, !.connected = FALSE, !.recovery = "none",
                              !.life = life]
<1>1. life \in [Clients -> Lives] /\ \A c \in Clients : life[c] \in {"free", "replaced"}
  BY DEF GatewayRecords, Lives
<1>2. Gateway!Stopped(g) = after
  BY DEF Gateway!Stopped, Gateway!None
<1> HIDE DEF life
<1>3. after \in GatewayRecords /\ after.booting = 0 /\ after.ready = 0 /\ after.life = life /\ after.recovery = "none"
  BY <1>1 DEF GatewayRecords
<1> HIDE DEF after
<1> QED
  BY <1>1, <1>2, <1>3 DEF Idle

LEMMA GatewayInitInv == ASSUME Gateway!GatewayInit PROVE GatewayInv
<1> DEFINE g == [booting |-> 0, ready |-> 0, life |-> [c \in Clients |-> "free"], backoff |-> FALSE,
                 recovery |-> "none", recent |-> TRUE, connected |-> FALSE]
<1>1. Idle(g)
  BY DEF Idle, GatewayRecords, Lives
<1>2. gateway = Gateway!Started(g) /\ awaited = FALSE
  BY DEF Gateway!GatewayInit, Gateway!None
<1>3. gateway.recovery = "none"
  BY <1>2 DEF Gateway!Started
<1> HIDE DEF g
<1> QED
  BY <1>1, <1>2, <1>3, StartedFacts DEF GatewayInv

\* A client booted anew after a stop or a back-off: the watchdog may be waiting for it.
LEMMA BootsAnew ==
  ASSUME NEW g, Idle(g), gateway' = Gateway!Started(g), awaited' \in BOOLEAN
  PROVE  GatewayInv'
BY StartedFacts DEF GatewayInv

\* Logins answered, rejected or silent.
LEMMA LoginsKeepGatewayInv ==
  ASSUME GatewayInv,
         \/ \E c \in Clients : Gateway!LoginRejected(c) \/ Gateway!ClientReady(c) \/ Gateway!LateShardError(c)
         \/ Gateway!HandshakeHangs \/ Gateway!ShardLost \/ Gateway!ShardBack \/ Gateway!ShardGoesSilent
  PROVE  GatewayInv'
<1>1. gateway \in GatewayRecords /\ awaited \in BOOLEAN /\ (awaited = TRUE => gateway.ready = 0)
  BY DEF GatewayInv
<1>2. ASSUME NEW c \in Clients, NEW next \in Lives
      PROVE  LET life == [gateway.life EXCEPT ![c] = next]
             IN  /\ life \in [Clients -> Lives]
                 /\ \A d \in Clients : life[d] = IF d = c THEN next ELSE gateway.life[d]
  BY <1>1 DEF GatewayRecords
<1>3. ASSUME NEW c \in Clients, gateway.booting = c, Gateway!LoginRejected(c)
      PROVE  GatewayInv'
  <2> DEFINE life == [gateway.life EXCEPT ![c] = "free"]
             after == [gateway EXCEPT !.life = life, !.booting = 0, !.recovery = "none", !.backoff = TRUE]
  <2>1. gateway' = after /\ UNCHANGED awaited
    BY <1>3 DEF Gateway!LoginRejected, Gateway!IsBooting, Gateway!None
  <2>2. life \in [Clients -> Lives] /\ \A d \in Clients : life[d] = IF d = c THEN "free" ELSE gateway.life[d]
    BY <1>2 DEF Lives
  <2> HIDE DEF life
  <2>3. /\ after \in GatewayRecords /\ after.life = life /\ after.booting = 0 /\ after.recovery = "none"
        /\ after.backoff = TRUE /\ after.ready = gateway.ready
    BY <1>1, <2>2 DEF GatewayRecords
  <2> HIDE DEF after
  <2>4. \A d \in Clients : gateway.life[d] \in {"free", "replaced"} \/ d \in {c, gateway.ready}
    BY <1>3 DEF GatewayInv
  <2> QED
    BY <1>1, <2>1, <2>2, <2>3, <2>4 DEF GatewayInv
<1>4. ASSUME NEW c \in Clients, gateway.booting = c, Gateway!ClientReady(c)
      PROVE  GatewayInv'
  <2> DEFINE life == [gateway.life EXCEPT ![c] = "up"]
             after == [gateway EXCEPT !.booting = 0, !.ready = c, !.life = life, !.backoff = FALSE,
                                      !.recent = TRUE, !.connected = TRUE, !.recovery = "none"]
  <2>1. gateway' = after /\ awaited' = FALSE
    <3>1. /\ gateway' = [gateway EXCEPT !.booting = 0, !.ready = c, !.life[c] = "up", !.backoff = FALSE,
                                        !.recent = TRUE, !.connected = TRUE, !.recovery = "none"]
          /\ awaited' = FALSE
      BY <1>4, Zenon DEF Gateway!ClientReady, Gateway!IsBooting, Gateway!None
    <3>2. [gateway EXCEPT !.booting = 0, !.ready = c].life = gateway.life
      BY <1>1 DEF GatewayRecords
    <3> QED
      BY <3>1, <3>2, Zenon
  <2>2. life \in [Clients -> Lives] /\ \A d \in Clients : life[d] = IF d = c THEN "up" ELSE gateway.life[d]
    BY <1>2 DEF Lives
  <2> HIDE DEF life
  <2>3. /\ after \in GatewayRecords /\ after.life = life /\ after.booting = 0 /\ after.recovery = "none"
        /\ after.ready = c
    BY <1>1, <2>2 DEF GatewayRecords
  <2> HIDE DEF after
  <2>4. \A d \in Clients : gateway.life[d] \in {"free", "replaced"} \/ d = c
    BY <1>4, GatewayAssumption DEF GatewayInv
  <2>5. c # 0
    BY GatewayAssumption
  <2> QED
    BY <2>1, <2>2, <2>3, <2>4, <2>5 DEF GatewayInv
<1>5. ASSUME NEW c \in Clients, NEW next \in Lives, NEW seemsUp \in BOOLEAN, NEW recent \in BOOLEAN,
             next = "free" \/ c \in {gateway.booting, gateway.ready},
             UNCHANGED awaited,
             gateway' = [gateway EXCEPT !.life[c] = next, !.connected = seemsUp, !.recent = recent]
      PROVE  GatewayInv'
  <2> DEFINE life == [gateway.life EXCEPT ![c] = next]
             after == [gateway EXCEPT !.life = life, !.connected = seemsUp, !.recent = recent]
  <2>1. gateway' = after
    BY <1>5
  <2>2. life \in [Clients -> Lives] /\ \A d \in Clients : life[d] = IF d = c THEN next ELSE gateway.life[d]
    BY <1>2
  <2> HIDE DEF life
  <2>3. /\ after \in GatewayRecords /\ after.life = life
        /\ <<after.booting, after.ready, after.recovery, after.backoff>>
           = <<gateway.booting, gateway.ready, gateway.recovery, gateway.backoff>>
    BY <1>1, <2>2 DEF GatewayRecords
  <2> HIDE DEF after
  <2> QED
    BY <1>1, <1>5, <2>1, <2>2, <2>3 DEF GatewayInv
<1>6. gateway.connected \in BOOLEAN /\ gateway.recent \in BOOLEAN
  BY <1>1 DEF GatewayRecords
<1>7. ASSUME NEW c \in Clients, NEW next \in Lives, next = "free" \/ c \in {gateway.booting, gateway.ready},
             UNCHANGED awaited, gateway' = [gateway EXCEPT !.life[c] = next]
      PROVE  GatewayInv'
  <2> DEFINE life == [gateway.life EXCEPT ![c] = next]
  <2>1. gateway' = [gateway EXCEPT !.life[c] = next, !.connected = gateway.connected, !.recent = gateway.recent]
    <3>1. gateway' = [gateway EXCEPT !.life = life]
      BY <1>7
    <3> HIDE DEF life
    <3>2. [gateway EXCEPT !.life = life]
          = [gateway EXCEPT !.life = life, !.connected = gateway.connected, !.recent = gateway.recent]
      BY <1>1 DEF GatewayRecords
    <3> QED
      BY <3>1, <3>2 DEF life
  <2> QED
    BY <1>5, <1>6, <1>7, <2>1
<1>8. ASSUME NEW c \in Clients, Gateway!LoginRejected(c) \/ Gateway!ClientReady(c), gateway.booting # c
      PROVE  GatewayInv'
  <2>1. gateway' = [gateway EXCEPT !.life[c] = "free"] /\ UNCHANGED awaited
    BY <1>8 DEF Gateway!LoginRejected, Gateway!ClientReady, Gateway!IsBooting
  <2> QED
    BY <1>7, <2>1 DEF Lives
<1>9. ASSUME NEW c \in Clients, Gateway!LateShardError(c) PROVE GatewayInv'
  <2>1. /\ gateway' = [gateway EXCEPT !.life[c] = "free", !.connected = FALSE, !.recent = TRUE]
        /\ UNCHANGED awaited
    BY <1>9 DEF Gateway!LateShardError
  <2> QED
    BY <1>5, <2>1 DEF Lives
<1>10. ASSUME Gateway!HandshakeHangs PROVE GatewayInv'
  <2>1. /\ gateway.booting \in Clients /\ UNCHANGED awaited
        /\ gateway' = [gateway EXCEPT !.life[gateway.booting] = "silent"]
    BY <1>1, <1>10 DEF Gateway!HandshakeHangs, Gateway!None, GatewayRecords
  <2> QED
    BY <1>7, <2>1 DEF Lives
<1>11. ASSUME Gateway!ShardGoesSilent PROVE GatewayInv'
  <2>1. /\ gateway.ready \in Clients /\ UNCHANGED awaited
        /\ gateway' = [gateway EXCEPT !.life[gateway.ready] = "silent"]
    BY <1>1, <1>11 DEF Gateway!ShardGoesSilent, Gateway!None, GatewayRecords
  <2> QED
    BY <1>7, <2>1 DEF Lives
<1>12. ASSUME Gateway!ShardLost \/ Gateway!ShardBack PROVE GatewayInv'
  <2>1. /\ gateway.ready \in Clients /\ UNCHANGED awaited
        /\ \/ gateway' = [gateway EXCEPT !.life[gateway.ready] = "lost", !.connected = FALSE, !.recent = TRUE]
           \/ gateway' = [gateway EXCEPT !.life[gateway.ready] = "up", !.connected = TRUE, !.recent = TRUE]
    BY <1>1, <1>12 DEF Gateway!ShardLost, Gateway!ShardBack, Gateway!None, GatewayRecords
  <2> QED
    BY <1>5, <2>1 DEF Lives
<1> QED
  BY <1>3, <1>4, <1>8, <1>9, <1>10, <1>11, <1>12

\* A back-off that ends, a close for good and the watchdog's recovery: at most one client is booted.
LEMMA RestartsKeepGatewayInv ==
  ASSUME GatewayInv,
         Gateway!BackoffEnds \/ Gateway!WatchdogActs \/ \E c \in Clients : Gateway!ShardDisconnects(c)
  PROVE  GatewayInv'
<1>1. gateway \in GatewayRecords /\ awaited' \in BOOLEAN /\ (awaited' = TRUE => gateway.ready = 0)
  BY DEF GatewayInv, Gateway!BackoffEnds, Gateway!WatchdogActs, Gateway!ShardDisconnects
<1>2. CASE Gateway!BackoffEnds
  <2> DEFINE g == [gateway EXCEPT !.backoff = FALSE]
  <2>1. /\ g \in GatewayRecords
        /\ <<g.booting, g.ready, g.recovery, g.life>>
           = <<gateway.booting, gateway.ready, gateway.recovery, gateway.life>>
    BY <1>1 DEF GatewayRecords
  <2>2. gateway' = Gateway!Started(g) /\ UNCHANGED awaited
    BY <1>2 DEF Gateway!BackoffEnds
  <2> HIDE DEF g
  <2>3. CASE g.booting = 0 /\ g.ready = 0
    <3>1. Idle(g)
      BY <2>1, <2>3, GatewayAssumption DEF Idle, GatewayInv
    <3> QED
      BY <1>1, <2>2, <3>1, BootsAnew
  <2>4. CASE g.booting # 0 \/ g.ready # 0
    <3>1. gateway' = g
      BY <2>2, <2>4 DEF Gateway!Started, Gateway!None
    <3> QED
      BY <2>1, <2>2, <2>4, <3>1 DEF GatewayInv
  <2> QED
    BY <2>3, <2>4
<1>3. CASE Gateway!WatchdogActs
  <2> DEFINE stopped == Gateway!Stopped(gateway)
             g == [stopped EXCEPT !.recovery = "pending"]
  <2>1. Idle(stopped)
    BY <1>1, StoppedFacts DEF GatewayInv
  <2>2. gateway' = Gateway!Started(g)
    BY <1>3 DEF Gateway!WatchdogActs, Gateway!Relogin
  <2> HIDE DEF stopped
  <2>3. Idle(g)
    BY <2>1 DEF Idle, GatewayRecords
  <2> HIDE DEF g
  <2> QED
    BY <1>1, <2>2, <2>3, BootsAnew
<1>4. CASE \E c \in Clients : Gateway!ShardDisconnects(c)
  <2>1. PICK c \in Clients : Gateway!ShardDisconnects(c)
    BY <1>4
  <2> DEFINE next == IF gateway.life[c] = "replaced" THEN "free" ELSE gateway.life[c]
             life == [gateway.life EXCEPT ![c] = next]
             g == [gateway EXCEPT !.recent = TRUE, !.life = life]
  <2>2. gateway' = Gateway!Started(Gateway!Stopped(g))
    BY <2>1 DEF Gateway!ShardDisconnects
  <2>3. /\ life \in [Clients -> Lives]
        /\ \A d \in Clients : life[d] \in {"free", "replaced"} \/ d \in {gateway.booting, gateway.ready}
    BY <1>1 DEF GatewayInv, GatewayRecords, Lives
  <2> HIDE DEF life
  <2>4. g \in GatewayRecords /\ g.life = life /\ g.booting = gateway.booting /\ g.ready = gateway.ready
    BY <1>1, <2>3 DEF GatewayRecords
  <2> HIDE DEF g
  <2>5. Idle(Gateway!Stopped(g))
    BY <2>3, <2>4, StoppedFacts
  <2> QED
    BY <1>1, <2>2, <2>5, BootsAnew
<1> QED
  BY <1>2, <1>3, <1>4

LEMMA GatewayStep == ASSUME GatewayInv, Gateway!GatewayNext PROVE GatewayInv'
<1>1. ASSUME Gateway!StallThresholdPasses \/ Gateway!RecoveryExpires PROVE GatewayInv'
  <2>1. /\ UNCHANGED awaited
        /\ \/ gateway' = [gateway EXCEPT !.recent = FALSE]
           \/ gateway' = [gateway EXCEPT !.recovery = "none"]
    BY <1>1 DEF Gateway!StallThresholdPasses, Gateway!RecoveryExpires
  <2>2. /\ gateway' \in GatewayRecords
        /\ <<gateway'.booting, gateway'.ready, gateway'.backoff, gateway'.life>>
           = <<gateway.booting, gateway.ready, gateway.backoff, gateway.life>>
        /\ gateway'.recovery \in {"none", gateway.recovery}
    BY <2>1 DEF GatewayInv, GatewayRecords
  <2> QED
    BY <2>1, <2>2 DEF GatewayInv
<1>2. ASSUME Gateway!SomebodyWaits \/ Gateway!WaitTimesOut \/ Gateway!DiscordGoesDown \/ Gateway!DiscordReturns
      PROVE  GatewayInv'
  BY <1>2 DEF GatewayInv, Gateway!SomebodyWaits, Gateway!WaitTimesOut, Gateway!DiscordGoesDown,
     Gateway!DiscordReturns, Gateway!None
<1> QED
  BY <1>1, <1>2, LoginsKeepGatewayInv, RestartsKeepGatewayInv DEF Gateway!GatewayNext

-----------------------------------------------------------------------------
(* Alerts: failures, recoveries and messages on their way                  *)

Dms == [kind : {"down", "recovered"}, generation : Nat, pc : {"waits", "lookup", "sends"}, overtaken : BOOLEAN]
AlertTypes ==
  /\ health \in {"ok", "failing", "absent"}
  /\ tracked \in [failing : BOOLEAN, downAlertSent : BOOLEAN, generation : Nat, timer : BOOLEAN]
  /\ dms \subseteq Dms
  /\ ownerKnown \in BOOLEAN /\ watching \in BOOLEAN
  /\ heard \in {"nothing", "down", "recovered"} /\ misled \in {"no", "down"}

\* A "down" of the current episode is about a component that fails; one that is being sent and has not been
\* overtaken is of the current episode; none is of an episode to come.
EpisodesInv ==
  /\ tracked.downAlertSent \/ tracked.timer => tracked.failing
  /\ \A dm \in dms :
       /\ dm.generation <= tracked.generation
       /\ dm.kind = "down" /\ dm.generation = tracked.generation => tracked.failing
       /\ dm.kind = "down" /\ dm.pc = "sends" /\ ~dm.overtaken => dm.generation = tracked.generation
  /\ tracked.generation = 0 => dms = {} /\ heard = "nothing" /\ ~watching /\ ~tracked.timer

\* What the owner heard last is remembered, or put right by a message on its way, or excused.
HeardInv ==
  /\ tracked.downAlertSent => heard # "nothing"
  /\ Alerts!RecoveryIsOnItsWay => heard # "nothing"
  /\ watching /\ heard = "down" /\ ~tracked.downAlertSent => Alerts!RecoveryIsOnItsWay \/ misled = "down"

AlertsInv == AlertTypes /\ EpisodesInv /\ HeardInv

LEMMA AlertsTruth == ASSUME AlertsInv PROVE Alerts!OwnerIsNotMisled
BY DEF AlertsInv, AlertTypes, EpisodesInv, HeardInv, Alerts!OwnerIsNotMisled

LEMMA AlertsInitInv == ASSUME Alerts!AlertsInit PROVE AlertsInv
<1>1. /\ tracked = [failing |-> FALSE, downAlertSent |-> FALSE, generation |-> 0, timer |-> FALSE]
      /\ health = "failing" /\ dms = {} /\ ownerKnown = FALSE /\ watching = FALSE /\ heard = "nothing" /\ misled = "no"
  BY DEF Alerts!AlertsInit, Alerts!Untracked
<1>2. /\ tracked \in [failing : BOOLEAN, downAlertSent : BOOLEAN, generation : Nat, timer : BOOLEAN]
      /\ tracked.generation = 0 /\ ~tracked.downAlertSent /\ ~tracked.timer
  BY <1>1
<1> QED
  BY <1>1, <1>2 DEF AlertsInv, AlertTypes, EpisodesInv, HeardInv, Alerts!RecoveryIsOnItsWay

\* A message that is being sent when the component changes is overtaken, and stays what it is otherwise.
LEMMA OvertakenFacts ==
  ASSUME AlertTypes
  PROVE  /\ \A o \in Alerts!Overtaken :
              /\ o \in Dms /\ (o.pc = "sends" => o.overtaken)
              /\ \E dm \in dms : o.kind = dm.kind /\ o.generation = dm.generation
         /\ \A dm \in dms : \E o \in Alerts!Overtaken : o.kind = dm.kind
<1>1. ASSUME NEW dm \in dms
      PROVE  LET o == [dm EXCEPT !.overtaken = @ \/ dm.pc = "sends"]
             IN  /\ o \in Dms /\ o.kind = dm.kind /\ o.generation = dm.generation
                 /\ o.pc = "sends" => o.overtaken
  BY DEF AlertTypes, Dms
<1> DEFINE O(dm) == [dm EXCEPT !.overtaken = @ \/ dm.pc = "sends"]
<1>2. Alerts!Overtaken = {O(dm) : dm \in dms}
  BY DEF Alerts!Overtaken
<1>3. \A dm \in dms : /\ O(dm) \in Dms /\ O(dm).kind = dm.kind /\ O(dm).generation = dm.generation
                      /\ O(dm).pc = "sends" => O(dm).overtaken
  BY <1>1
<1> HIDE DEF O
<1> QED
  BY <1>2, <1>3

\* A new message waits.
LEMMA NewDmFacts ==
  ASSUME NEW kind \in {"down", "recovered"}, NEW generation \in Nat
  PROVE  LET dm == Alerts!Dm(kind, generation)
         IN  dm \in Dms /\ dm.kind = kind /\ dm.generation = generation /\ dm.pc = "waits"
BY DEF Alerts!Dm, Dms

TrackedRecords == [failing : BOOLEAN, downAlertSent : BOOLEAN, generation : Nat, timer : BOOLEAN]

\* What the watcher makes of a change of health.
LEMMA WatchingKeepsAlertsInv ==
  ASSUME AlertsInv, NEW h \in {"ok", "failing", "absent"}, Alerts!HealthChanges(h)
  PROVE  AlertsInv'
<1>1. UNCHANGED <<ownerKnown, watching, heard>> /\ health' = h
  BY DEF Alerts!HealthChanges
<1>2. \/ UNCHANGED <<tracked, dms, misled>>
      \/ watching /\ tracked.failing /\ Alerts!handleRecovery
      \/ watching /\ ~tracked.failing /\ tracked' = Alerts!handleNewFailure(tracked) /\ UNCHANGED <<dms, misled>>
      \/ watching /\ Alerts!forgetRemovedComponents
  BY DEF Alerts!HealthChanges, Alerts!Watches
<1>3. AlertTypes /\ tracked \in TrackedRecords /\ dms \subseteq Dms /\ tracked.generation \in Nat
  BY DEF AlertsInv, AlertTypes, TrackedRecords
<1>4. tracked.generation # 0 \/ ~watching
  BY DEF AlertsInv, EpisodesInv
<1>5. CASE UNCHANGED <<tracked, dms, misled>>
  BY <1>1, <1>5 DEF AlertsInv, AlertTypes, EpisodesInv, HeardInv, Alerts!RecoveryIsOnItsWay
<1>6. CASE watching /\ ~tracked.failing /\ tracked' = Alerts!handleNewFailure(tracked) /\ UNCHANGED <<dms, misled>>
  <2>1. /\ tracked' \in TrackedRecords /\ tracked'.failing /\ ~tracked'.downAlertSent
        /\ tracked'.generation = tracked.generation + 1
    <3> DEFINE next == tracked.generation + 1
    <3>1. next \in Nat
      BY <1>3
    <3>2. tracked' = [tracked EXCEPT !.failing = TRUE, !.downAlertSent = FALSE, !.generation = next, !.timer = TRUE]
      BY <1>6 DEF Alerts!handleNewFailure
    <3> HIDE DEF next
    <3>3. tracked' \in TrackedRecords /\ tracked'.failing /\ ~tracked'.downAlertSent /\ tracked'.generation = next
      BY <1>3, <3>1, <3>2 DEF TrackedRecords
    <3> QED
      BY <3>3 DEF next
  <2>2. AlertTypes'
    BY <1>1, <1>3, <1>6, <2>1 DEF AlertTypes, TrackedRecords
  <2>3. EpisodesInv'
    <3>1. ASSUME NEW dm \in dms
          PROVE  /\ dm.generation <= tracked'.generation
                 /\ ~(dm.kind = "down" /\ dm.pc = "sends" /\ ~dm.overtaken)
      <4>1. dm.generation \in Nat /\ dm.generation <= tracked.generation
        BY <1>3 DEF AlertsInv, EpisodesInv, Dms
      <4>2. ~(dm.kind = "down" /\ dm.pc = "sends" /\ ~dm.overtaken)
        BY <1>6 DEF AlertsInv, EpisodesInv
      <4> QED
        BY <1>3, <2>1, <4>1, <4>2
    <3>2. tracked'.generation # 0
      BY <1>3, <2>1
    <3> QED
      BY <1>6, <2>1, <3>1, <3>2 DEF EpisodesInv
  <2>4. ~tracked.downAlertSent
    BY <1>6 DEF AlertsInv, EpisodesInv
  <2>5. HeardInv'
    BY <1>1, <1>6, <2>1, <2>4 DEF AlertsInv, HeardInv, Alerts!RecoveryIsOnItsWay
  <2> QED
    BY <2>2, <2>3, <2>5 DEF AlertsInv
<1>7. CASE watching /\ ((tracked.failing /\ Alerts!handleRecovery) \/ Alerts!forgetRemovedComponents)
  <2> DEFINE note == Alerts!Dm("recovered", tracked.generation)
  <2>1. /\ tracked' \in TrackedRecords /\ ~tracked'.failing /\ ~tracked'.downAlertSent /\ ~tracked'.timer
        /\ tracked'.generation = tracked.generation + 1
    <3> DEFINE next == tracked.generation + 1
               recovered == [tracked EXCEPT !.failing = FALSE, !.downAlertSent = FALSE, !.generation = next,
                                            !.timer = FALSE]
               removed == [Alerts!Untracked EXCEPT !.generation = next]
    <3>1. next \in Nat
      BY <1>3
    <3>2. tracked' = recovered \/ tracked' = removed
      BY <1>7 DEF Alerts!handleRecovery, Alerts!Recovered, Alerts!forgetRemovedComponents
    <3> HIDE DEF next
    <3>3. /\ recovered \in TrackedRecords /\ ~recovered.failing /\ ~recovered.downAlertSent /\ ~recovered.timer
          /\ recovered.generation = next
      BY <1>3, <3>1 DEF TrackedRecords
    <3>4. /\ removed \in TrackedRecords /\ ~removed.failing /\ ~removed.downAlertSent /\ ~removed.timer
          /\ removed.generation = next
      BY <3>1 DEF TrackedRecords, Alerts!Untracked
    <3> HIDE DEF recovered, removed
    <3> QED
      BY <3>2, <3>3, <3>4 DEF next
  <2>2. /\ dms' \subseteq Alerts!Overtaken \cup {note} /\ Alerts!Overtaken \subseteq dms'
        /\ note \in dms' \ Alerts!Overtaken => tracked.downAlertSent
        /\ tracked.downAlertSent => note \in dms' \/ misled' = "down"
        /\ misled' \in {misled, "down"}
    BY <1>7 DEF Alerts!handleRecovery, Alerts!forgetRemovedComponents, Alerts!WasAlerted
  <2>3. note \in Dms /\ note.kind = "recovered" /\ note.generation = tracked.generation /\ note.pc = "waits"
    BY <1>3, NewDmFacts
  <2> HIDE DEF note
  <2>4. ASSUME NEW dm \in dms'
        PROVE  /\ dm \in Dms /\ dm.generation <= tracked.generation
               /\ dm.pc = "sends" => dm.overtaken
    <3>1. CASE dm = note
      BY <1>3, <2>3, <3>1
    <3>2. CASE dm \in Alerts!Overtaken
      <4>1. /\ dm \in Dms /\ (dm.pc = "sends" => dm.overtaken)
            /\ \E was \in dms : dm.generation = was.generation
        BY <1>3, <3>2, OvertakenFacts
      <4> QED
        BY <4>1 DEF AlertsInv, EpisodesInv
    <3> QED
      BY <2>2, <2>4, <3>1, <3>2
  <2>5. AlertTypes'
    BY <1>1, <1>3, <2>1, <2>2, <2>4 DEF AlertTypes, TrackedRecords
  <2>6. EpisodesInv'
    <3>1. ASSUME NEW dm \in dms' PROVE dm.generation <= tracked'.generation /\ dm.generation # tracked'.generation
      <4>1. dm.generation \in Nat /\ dm.generation <= tracked.generation
        BY <2>4 DEF Dms
      <4> QED
        BY <1>3, <2>1, <4>1
    <3>2. tracked'.generation # 0
      BY <1>3, <2>1
    <3> QED
      BY <2>1, <2>4, <3>1, <3>2 DEF EpisodesInv
  <2>7. Alerts!RecoveryIsOnItsWay => Alerts!RecoveryIsOnItsWay'
    <3>1. \A dm \in dms : \E o \in Alerts!Overtaken : o.kind = dm.kind
      BY <1>3, OvertakenFacts
    <3> QED
      BY <2>2, <3>1 DEF Alerts!RecoveryIsOnItsWay
  <2>8. note \in dms' => Alerts!RecoveryIsOnItsWay'
    BY <2>3 DEF Alerts!RecoveryIsOnItsWay
  <2>9. Alerts!RecoveryIsOnItsWay' => Alerts!RecoveryIsOnItsWay \/ tracked.downAlertSent
    <3>1. ASSUME NEW o \in Alerts!Overtaken, o.kind = "recovered" PROVE \E dm \in dms : dm.kind = "recovered"
      BY <1>3, <3>1, OvertakenFacts
    <3> QED
      BY <2>2, <2>3, <3>1 DEF Alerts!RecoveryIsOnItsWay
  <2>10. HeardInv'
    <3>1. /\ tracked.downAlertSent => heard # "nothing"
          /\ Alerts!RecoveryIsOnItsWay => heard # "nothing"
          /\ watching /\ heard = "down" /\ ~tracked.downAlertSent => Alerts!RecoveryIsOnItsWay \/ misled = "down"
      BY DEF AlertsInv, HeardInv
    <3> HIDE DEF note
    <3> QED
      BY <1>1, <2>1, <2>2, <2>7, <2>8, <2>9, <3>1 DEF HeardInv
  <2> QED
    BY <2>5, <2>6, <2>10 DEF AlertsInv
<1> QED
  BY <1>2, <1>5, <1>6, <1>7

\* Messages that are due: the grace period and the cool-down end.
LEMMA DueKeepsAlertsInv ==
  ASSUME AlertsInv, Alerts!GraceEnds \/ Alerts!RealertsAfterCooldown
  PROVE  AlertsInv'
<1> DEFINE note == Alerts!Dm("down", tracked.generation)
<1>1. /\ UNCHANGED <<health, ownerKnown, watching, heard, misled>>
      /\ dms' = dms \cup {note} /\ tracked.failing
      /\ \/ tracked.timer /\ tracked' = [tracked EXCEPT !.timer = FALSE]
         \/ watching /\ tracked' = tracked
  BY DEF Alerts!GraceEnds, Alerts!RealertsAfterCooldown, AlertsInv, EpisodesInv
<1>2. tracked \in TrackedRecords /\ dms \subseteq Dms /\ tracked.generation \in Nat
  BY DEF AlertsInv, AlertTypes, TrackedRecords
<1>3. note \in Dms /\ note.kind = "down" /\ note.generation = tracked.generation /\ note.pc = "waits"
  BY <1>2, NewDmFacts
<1> HIDE DEF note
<1>4. /\ tracked' \in TrackedRecords
      /\ tracked'.generation = tracked.generation /\ (tracked'.failing <=> tracked.failing)
      /\ tracked'.downAlertSent <=> tracked.downAlertSent
  BY <1>1, <1>2 DEF TrackedRecords
<1>5. AlertTypes'
  BY <1>1, <1>2, <1>3, <1>4 DEF AlertsInv, AlertTypes, TrackedRecords
<1>6. EpisodesInv'
  <2>1. \A dm \in dms' : dm = note \/ dm \in dms
    BY <1>1
  <2>2. tracked.generation # 0
    <3>1. CASE watching
      BY <3>1 DEF AlertsInv, EpisodesInv
    <3>2. CASE tracked.timer
      BY <3>2 DEF AlertsInv, EpisodesInv
    <3> QED
      BY <1>1, <3>1, <3>2
  <2> QED
    BY <1>1, <1>2, <1>3, <1>4, <2>1, <2>2 DEF AlertsInv, EpisodesInv
<1>7. Alerts!RecoveryIsOnItsWay' <=> Alerts!RecoveryIsOnItsWay
  BY <1>1, <1>3 DEF Alerts!RecoveryIsOnItsWay
<1>8. HeardInv'
  BY <1>1, <1>4, <1>7 DEF AlertsInv, HeardInv
<1> QED
  BY <1>5, <1>6, <1>8 DEF AlertsInv

\* A message on its way: what it can become.
LEMMA MovesFacts ==
  ASSUME AlertTypes, NEW dm \in dms, NEW pc \in {"lookup", "sends"}, Alerts!Moves(dm, pc)
  PROVE  LET moved == [dm EXCEPT !.pc = pc]
         IN  /\ moved \in Dms /\ moved.kind = dm.kind /\ moved.generation = dm.generation
             /\ moved.pc = pc /\ (moved.overtaken <=> dm.overtaken)
             /\ dms' = (dms \ {dm}) \cup {moved}
BY DEF AlertTypes, Dms, Alerts!Moves

LEMMA MovingKeepsAlertsInv ==
  ASSUME AlertsInv, NEW dm \in dms, NEW pc \in {"lookup", "sends"}, Alerts!Moves(dm, pc),
         pc = "sends" /\ dm.kind = "down" => dm.generation = tracked.generation,
         UNCHANGED <<health, tracked, watching, heard, misled>>, ownerKnown' \in BOOLEAN
  PROVE  AlertsInv'
<1> DEFINE moved == [dm EXCEPT !.pc = pc]
<1>1. /\ moved \in Dms /\ moved.kind = dm.kind /\ moved.generation = dm.generation /\ moved.pc = pc
      /\ dms' = (dms \ {dm}) \cup {moved}
  BY MovesFacts DEF AlertsInv
<1> HIDE DEF moved
<1>2. AlertTypes'
  BY <1>1 DEF AlertsInv, AlertTypes
<1>3. EpisodesInv'
  BY <1>1 DEF AlertsInv, EpisodesInv
<1>4. Alerts!RecoveryIsOnItsWay' <=> Alerts!RecoveryIsOnItsWay
  BY <1>1 DEF Alerts!RecoveryIsOnItsWay
<1>5. HeardInv'
  BY <1>4 DEF AlertsInv, HeardInv
<1> QED
  BY <1>2, <1>3, <1>5 DEF AlertsInv

\* A message that is dropped: a recovery that is excuses what the owner still believes.
LEMMA DroppingKeepsAlertsInv ==
  ASSUME AlertsInv, NEW dm \in dms, dms' = dms \ {dm},
         misled' \in {"no", "down"}, misled = "down" \/ dm.kind = "recovered" => misled' = "down",
         UNCHANGED <<health, tracked, watching, heard>>, ownerKnown' \in BOOLEAN
  PROVE  AlertsInv'
<1>1. AlertTypes' /\ EpisodesInv'
  BY DEF AlertsInv, AlertTypes, EpisodesInv
<1>2. /\ Alerts!RecoveryIsOnItsWay' => Alerts!RecoveryIsOnItsWay
      /\ dm.kind # "recovered" => (Alerts!RecoveryIsOnItsWay => Alerts!RecoveryIsOnItsWay')
  BY DEF Alerts!RecoveryIsOnItsWay
<1>3. HeardInv'
  BY <1>2 DEF AlertsInv, HeardInv
<1> QED
  BY <1>1, <1>3 DEF AlertsInv

LEMMA DmsKeepAlertsInv == ASSUME AlertsInv, Alerts!DmGoesOn PROVE AlertsInv'
<1>1. PICK dm \in dms : Alerts!RuntimeReady(dm) \/ Alerts!OwnerResolved(dm) \/ Alerts!Sent(dm)
  BY DEF Alerts!DmGoesOn
<1>2. dm \in Dms /\ misled \in {"no", "down"} /\ ownerKnown \in BOOLEAN
  BY DEF AlertsInv, AlertTypes
<1>3. CASE Alerts!RuntimeReady(dm)
  <2>1. /\ UNCHANGED <<health, tracked, ownerKnown, watching, heard>>
        /\ (Alerts!Moves(dm, "lookup") /\ UNCHANGED misled) \/ Alerts!Dropped(dm)
    BY <1>3 DEF Alerts!RuntimeReady
  <2> QED
    BY <1>2, <2>1, MovingKeepsAlertsInv, DroppingKeepsAlertsInv DEF Alerts!Dropped
<1>4. CASE Alerts!OwnerResolved(dm)
  <2>1. /\ UNCHANGED <<health, tracked, watching, heard>> /\ ownerKnown' \in BOOLEAN
        /\ \/ Alerts!IsStillRelevant(dm) /\ Alerts!Moves(dm, "sends") /\ UNCHANGED misled
           \/ ~Alerts!IsStillRelevant(dm) /\ dms' = dms \ {dm} /\ UNCHANGED misled
           \/ Alerts!Dropped(dm)
    BY <1>2, <1>4 DEF Alerts!OwnerResolved
  <2>2. dm.kind = "recovered" => Alerts!IsStillRelevant(dm)
    BY DEF Alerts!IsStillRelevant
  <2>3. Alerts!IsStillRelevant(dm) /\ dm.kind = "down" => dm.generation = tracked.generation
    BY DEF Alerts!IsStillRelevant
  <2> QED
    BY <1>2, <2>1, <2>2, <2>3, MovingKeepsAlertsInv, DroppingKeepsAlertsInv DEF Alerts!Dropped
<1>5. CASE Alerts!Sent(dm)
  <2>1. UNCHANGED <<health, ownerKnown, watching>> /\ dm.pc = "sends"
    BY <1>5 DEF Alerts!Sent
  <2>2. CASE Alerts!Dropped(dm) /\ UNCHANGED <<heard, tracked>>
    BY <1>2, <2>1, <2>2, DroppingKeepsAlertsInv DEF Alerts!Dropped
  <2>3. CASE /\ dms' = dms \ {dm} /\ heard' = dm.kind
             /\ tracked' = IF dm.kind = "down" /\ dm.generation = tracked.generation
                           THEN [tracked EXCEPT !.downAlertSent = TRUE] ELSE tracked
             /\ misled' = IF dm.kind = "down" /\ dm.overtaken THEN "down" ELSE "no"
    <3>1. tracked \in TrackedRecords
      BY DEF AlertsInv, AlertTypes, TrackedRecords
    <3>2. /\ tracked' \in TrackedRecords /\ tracked'.generation = tracked.generation
          /\ tracked'.failing <=> tracked.failing
          /\ tracked'.timer <=> tracked.timer
          /\ tracked'.downAlertSent <=>
               tracked.downAlertSent \/ (dm.kind = "down" /\ dm.generation = tracked.generation)
      <4>1. CASE dm.kind = "down" /\ dm.generation = tracked.generation
        BY <2>3, <3>1, <4>1 DEF TrackedRecords
      <4>2. CASE ~(dm.kind = "down" /\ dm.generation = tracked.generation)
        BY <2>3, <3>1, <4>2
      <4> QED
        BY <4>1, <4>2
    <3>3. /\ dm.kind = "down" /\ dm.generation = tracked.generation => tracked.failing
          /\ dm.kind = "down" /\ ~dm.overtaken => dm.generation = tracked.generation
          /\ tracked.generation # 0
      BY <2>1 DEF AlertsInv, EpisodesInv
    <3>4. AlertTypes'
      BY <1>2, <2>1, <2>3, <3>2 DEF AlertsInv, AlertTypes, TrackedRecords, Dms
    <3>5. EpisodesInv'
      BY <2>3, <3>2, <3>3 DEF AlertsInv, EpisodesInv
    <3>6. heard' # "nothing" /\ (heard' = "down" <=> dm.kind = "down")
      BY <1>2, <2>3 DEF Dms
    <3>7. dm.kind = "down" /\ ~tracked'.downAlertSent => misled' = "down"
      BY <2>3, <3>2, <3>3
    <3>8. HeardInv'
      BY <3>6, <3>7 DEF HeardInv
    <3> QED
      BY <3>4, <3>5, <3>8 DEF AlertsInv
  <2> QED
    BY <1>5, <2>2, <2>3 DEF Alerts!Sent
<1> QED
  BY <1>1, <1>3, <1>4, <1>5

LEMMA WatcherKeepsAlertsInv == ASSUME AlertsInv, Alerts!WatcherStarts \/ Alerts!WatcherStops PROVE AlertsInv'
<1>1. tracked \in TrackedRecords /\ ownerKnown \in BOOLEAN
  BY DEF AlertsInv, AlertTypes, TrackedRecords
<1>2. CASE Alerts!WatcherStarts
  <2>1. /\ tracked.generation = 0 /\ UNCHANGED <<health, dms, heard, misled>> /\ watching' = TRUE
        /\ ownerKnown' \in BOOLEAN
        /\ tracked' = [Alerts!Untracked EXCEPT !.failing = health = "failing", !.generation = 1]
    BY <1>1, <1>2 DEF Alerts!WatcherStarts
  <2>2. /\ tracked' \in TrackedRecords /\ ~tracked'.downAlertSent /\ ~tracked'.timer /\ tracked'.generation = 1
    BY <2>1 DEF Alerts!Untracked, TrackedRecords
  <2>3. dms = {} /\ heard = "nothing"
    BY <2>1 DEF AlertsInv, EpisodesInv
  <2>4. AlertTypes'
    BY <2>1, <2>2 DEF AlertsInv, AlertTypes, TrackedRecords
  <2>5. EpisodesInv' /\ HeardInv'
    BY <2>1, <2>2, <2>3 DEF EpisodesInv, HeardInv, Alerts!RecoveryIsOnItsWay
  <2> QED
    BY <2>4, <2>5 DEF AlertsInv
<1>3. CASE Alerts!WatcherStops
  <2>1. /\ UNCHANGED <<health, dms, ownerKnown, heard, misled>> /\ watching' = FALSE
        /\ tracked' = [tracked EXCEPT !.timer = FALSE]
    BY <1>3 DEF Alerts!WatcherStops
  <2>2. /\ tracked' \in TrackedRecords /\ tracked'.generation = tracked.generation /\ ~tracked'.timer
        /\ tracked'.failing <=> tracked.failing
        /\ tracked'.downAlertSent <=> tracked.downAlertSent
    BY <1>1, <2>1 DEF TrackedRecords
  <2>3. AlertTypes'
    BY <2>1, <2>2 DEF AlertsInv, AlertTypes, TrackedRecords
  <2>4. EpisodesInv' /\ HeardInv'
    BY <2>1, <2>2 DEF AlertsInv, EpisodesInv, HeardInv, Alerts!RecoveryIsOnItsWay
  <2> QED
    BY <2>3, <2>4 DEF AlertsInv
<1> QED
  BY <1>2, <1>3

LEMMA AlertsStep == ASSUME AlertsInv, Alerts!AlertsNext PROVE AlertsInv'
BY WatchingKeepsAlertsInv, DueKeepsAlertsInv, DmsKeepAlertsInv, WatcherKeepsAlertsInv DEF Alerts!AlertsNext

-----------------------------------------------------------------------------
(* The stream monitor: announcements and the operations that work on them  *)

\* What an operation has at each of its steps.
OperationTyped(o) ==
  /\ o.pc \in {"edit", "repost", "reposted", "drop"} => o.kind \in {"poll", "immediate"}
  /\ o.pc \in {"startEdit", "startPersist", "startDelete"} => o.kind = "startup"
  /\ o.kind = "none" => o.pc \in {"begin", "done"}
  /\ o.pc \in {"sent", "discard", "persist", "reposted", "drop", "delete",
               "startEdit", "startPersist", "startDelete"} => o.msg # NoMessage
  /\ o.pc \in {"post", "edit", "repost"} => o.msg = NoMessage
  /\ o.pc = "begin" => IF o.kind = "startup" THEN o.sees = NoGame => o.msg # NoMessage ELSE o.msg = NoMessage
  /\ o.pc \in {"begin", "edit", "fetch", "persist", "post", "sent", "delete",
               "startEdit", "startPersist", "startDelete"} => o.old = NoMessage
  /\ o.pc = "drop" => o.old # NoMessage
  /\ o.pc \in {"begin", "post", "sent", "startEdit", "startPersist", "startDelete"} => o.obj = 0
  /\ o.pc \in {"edit", "repost", "reposted"} => o.obj # 0
  /\ o.pc \in {"post", "sent", "edit", "startEdit", "startPersist"} => o.sees # NoGame

Starters == {o \in Monitor!Ops : o.pc = "begin" /\ o.current = "yes" /\ OperationTyped(o)}

Other(slot) == IF slot = "running" THEN "late" ELSE "running"

\* An operation that was started before the running one has been told so.
MonitorTypes ==
  /\ Monitor!TypeOK
  /\ waiting \in Seq(Starters)
  /\ \A slot \in Monitor!Slots : OperationTyped(Monitor!The(slot))
  /\ running.current = "yes"
  /\ running # Monitor!NoOp => late = Monitor!NoOp \/ late.current = "no"
  /\ late.pc # "begin"

QueuedMessages == {o.msg : o \in Monitor!Queued}

\* The startup pass will look after these, or nobody will.
Held == excused \cup {loaded} \cup QueuedMessages

\* These an operation will delete, record or give up, also when it is superseded.
Duty(o) ==
  IF o.pc = "drop" THEN {o.msg, o.old}
  ELSE IF o.pc \in {"begin", "sent", "discard", "persist", "reposted", "startEdit", "startPersist", "startDelete"}
       THEN {o.msg} ELSE {}

Safe(m, kept) == m \in board => m \in Held \cup kept

Loaded == phase \in {"teardown", "users", "streams", "settle", "running"}

\* Nothing in Discord is out of everybody's sight.
Covered == board \subseteq Held \cup {row} \cup Duty(running) \cup Duty(late)

\* Once the rows are loaded, the row's message is known from elsewhere too.
RowIsKept == Loaded => Safe(row, {state.msg} \cup Duty(running) \cup Duty(late))

\* So it is for the operation that is to overwrite the row,
RowSpokenFor(o, other) ==
  (/\ o.current = "yes"
   /\ o.pc \in {"repost", "reposted", "drop", "persist"} \/ (o.pc \in {"post", "sent"} /\ o.kind # "startup"))
  => Safe(row, {o.msg, o.old} \cup Duty(other))

\* and for the edit that is to decide on one.
EditSpokenFor(o, other) ==
  o.current = "yes" /\ o.pc = "edit" /\ state.obj = o.obj => Safe(row, {state.msg} \cup Duty(other))

\* What is to be recorded in the row is in the state already.
Recorded(o) ==
  o.current = "yes" /\ o.pc \in {"drop", "persist", "startPersist"} /\ Loaded => Safe(o.msg, {state.msg})

Removed(o) == o.pc \in {"clear", "forget", "startClear"} => o.msg \notin board \/ o.msg \in excused

OfflineFinds(o) ==
  o.current = "yes" /\ o.pc \in {"delete", "clear", "forget"} => state.msg \in {o.msg, NoMessage}

OperationInv(o, other) ==
  /\ RowSpokenFor(o, other)
  /\ EditSpokenFor(o, other)
  /\ Recorded(o)
  /\ Removed(o)
  /\ OfflineFinds(o)

LateInv ==
  /\ late.kind # "immediate"
  /\ late.kind = "startup" /\ late.pc \in {"startEdit", "startPersist", "startDelete"} => late.msg \in excused

NothingOrphaned ==
  /\ Covered
  /\ RowIsKept
  /\ LateInv
  /\ \A slot \in Monitor!Slots : OperationInv(Monitor!The(slot), Monitor!The(Other(slot)))

MonitorInv == MonitorTypes /\ (escaped = "no" => NothingOrphaned)

LEMMA MonitorTruth == ASSUME MonitorInv PROVE Monitor!NoOrphan
<1> SUFFICES ASSUME escaped = "no", NEW m \in board PROVE m \in Monitor!Tracked \cup excused
  BY DEF Monitor!NoOrphan
<1>1. m \in Held \cup {row} \cup Duty(running) \cup Duty(late)
  BY DEF MonitorInv, NothingOrphaned, Covered
<1>2. Duty(running) \subseteq {running.msg, running.old} /\ Duty(late) \subseteq {late.msg, late.old}
  BY DEF Duty
<1>3. QED
  BY <1>1, <1>2 DEF Held, QueuedMessages, Monitor!Tracked

-----------------------------------------------------------------------------
(* Operations *)

LEMMA NoOpFacts ==
  /\ Monitor!NoOp \in Monitor!Ops
  /\ Monitor!NoOp.kind = "none" /\ Monitor!NoOp.pc = "done" /\ Monitor!NoOp.sees = NoGame
  /\ Monitor!NoOp.msg = NoMessage /\ Monitor!NoOp.old = NoMessage
  /\ Monitor!NoOp.owned = "off" /\ Monitor!NoOp.obj = 0 /\ Monitor!NoOp.current = "yes"
  BY DEF Monitor!NoOp, Monitor!Ops, Monitor!Playing, Monitor!Posted, Monitor!Objects

Pcs == {"begin", "post", "sent", "discard", "persist", "edit", "repost", "reposted", "drop",
        "fetch", "delete", "clear", "forget", "startEdit", "startPersist", "startDelete",
        "startClear", "done"}
Timed == {"off", "armed", "due"}

\* What an operation is, field by field: the form in which the lemmas below speak of one.
IsOp(q, o, pc, msg, old) ==
  /\ q \in Monitor!Ops
  /\ q.kind = o.kind /\ q.sees = o.sees /\ q.current = o.current
  /\ q.pc = pc /\ q.msg = msg /\ q.old = old

LEMMA NextPc == ASSUME NEW o \in Monitor!Ops, NEW pc \in Pcs
                PROVE IsOp([o EXCEPT !.pc = pc], o, pc, o.msg, o.old) /\ [o EXCEPT !.pc = pc].obj = o.obj
  BY DEF IsOp, Pcs, Monitor!Ops

LEMMA NextMsg == ASSUME NEW o \in Monitor!Ops, NEW pc \in Pcs, NEW m \in Monitor!Posted
                 PROVE /\ IsOp([o EXCEPT !.pc = pc, !.msg = m], o, pc, m, o.old)
                       /\ [o EXCEPT !.pc = pc, !.msg = m].obj = o.obj
  BY DEF IsOp, Pcs, Monitor!Ops

LEMMA NextOld == ASSUME NEW o \in Monitor!Ops, NEW pc \in Pcs, NEW m \in Monitor!Posted
                 PROVE /\ IsOp([o EXCEPT !.pc = pc, !.old = m], o, pc, o.msg, m)
                       /\ [o EXCEPT !.pc = pc, !.old = m].obj = o.obj
  BY DEF IsOp, Pcs, Monitor!Ops

LEMMA NextObj == ASSUME NEW o \in Monitor!Ops, NEW pc \in Pcs, NEW obj \in Monitor!Objects \cup {0}
                 PROVE /\ IsOp([o EXCEPT !.pc = pc, !.obj = obj], o, pc, o.msg, o.old)
                       /\ [o EXCEPT !.pc = pc, !.obj = obj].obj = obj
  BY DEF IsOp, Pcs, Monitor!Ops

LEMMA NextOwned == ASSUME NEW o \in Monitor!Ops, NEW pc \in Pcs, NEW obj \in Monitor!Objects \cup {0}, NEW t \in Timed
                   PROVE /\ IsOp([o EXCEPT !.pc = pc, !.obj = obj, !.owned = t], o, pc, o.msg, o.old)
                         /\ [o EXCEPT !.pc = pc, !.obj = obj, !.owned = t].obj = obj
  BY DEF IsOp, Pcs, Timed, Monitor!Ops

LEMMA OpFacts == ASSUME NEW kind \in {"none", "poll", "immediate", "offline", "startup"}, NEW sees \in Monitor!Playing
                 PROVE /\ IsOp(Monitor!Op(kind, sees), Monitor!Op(kind, sees), "begin", NoMessage, NoMessage)
                       /\ Monitor!Op(kind, sees).kind = kind /\ Monitor!Op(kind, sees).sees = sees
                       /\ Monitor!Op(kind, sees).obj = 0 /\ Monitor!Op(kind, sees).current = "yes"
  BY NoOpFacts DEF IsOp, Monitor!Op, Monitor!Ops

\* A slot is one of two; what is decided in a step of its operation concerns no other.
LEMMA SlotFacts ==
  ASSUME MonitorTypes, NEW slot \in Monitor!Slots
  PROVE  /\ Monitor!The(slot) \in Monitor!Ops /\ Monitor!The(Other(slot)) \in Monitor!Ops
         /\ OperationTyped(Monitor!The(slot)) /\ OperationTyped(Monitor!The(Other(slot)))
         /\ Other(slot) \in Monitor!Slots /\ Other(Other(slot)) = slot
         /\ (Monitor!The(slot) # Monitor!NoOp /\ Monitor!The(slot).current = "yes")
              => Monitor!The(Other(slot)) = Monitor!NoOp \/ Monitor!The(Other(slot)).current = "no"
         /\ Monitor!The(slot) # Monitor!NoOp /\ Monitor!The(slot).current = "no" => slot = "late"
  BY DEF MonitorTypes, Monitor!TypeOK, Monitor!Slots, Monitor!The, Other

LEMMA Becoming ==
  ASSUME NEW slot \in Monitor!Slots, NEW q, Monitor!Becomes(slot, q)
  PROVE  /\ Monitor!The(slot)' = IF q.pc = "done" THEN Monitor!NoOp ELSE q
         /\ Monitor!The(Other(slot))' = Monitor!The(Other(slot))
  BY DEF Monitor!Becomes, Monitor!Slots, Monitor!The, Other

LEMMA UpsetFacts == ASSUME upsets \in 0 .. MaxUpsets, Monitor!Upset PROVE upsets' \in 0 .. MaxUpsets
  BY MonitorAssumption DEF Monitor!Upset

Names == {row, state.msg, loaded, running.msg, running.old, late.msg, late.old} \cup QueuedMessages

\* A new message has a name that nothing has.
LEMMA FreshMessageFacts ==
  /\ Monitor!FreshMessage \in Monitor!Posted
  /\ Monitor!FreshMessage # NoMessage => Monitor!FreshMessage \in Messages \ (board \cup Names)
<1> DEFINE used == board \cup {row, state.msg, loaded, running.msg, running.old, late.msg, late.old}
                     \cup {o.msg : o \in Monitor!Queued} \cup {o.old : o \in Monitor!Queued}
           P(m) == IF Messages \subseteq used THEN m = NoMessage ELSE m \in Messages \ used
<1>1. \E m \in Messages \cup {NoMessage} : P(m)
  OBVIOUS
<1>2. Monitor!FreshMessage = CHOOSE m \in Messages \cup {NoMessage} : P(m)
  BY DEF Monitor!FreshMessage
<1> HIDE DEF P
<1>3. Monitor!FreshMessage \in Messages \cup {NoMessage} /\ P(Monitor!FreshMessage)
  BY <1>1, <1>2
<1>4. board \cup Names \subseteq used
  BY DEF Names, QueuedMessages
<1>5. QED
  BY <1>3, <1>4 DEF P, Monitor!Posted

\* So has a new LiveState an identity, unless its operation holds one already.
LEMMA FreshObjectFacts ==
  ASSUME MonitorTypes, NEW slot \in Monitor!Slots, Monitor!The(slot).obj = 0
  PROVE  Monitor!FreshObject \in Monitor!Objects
<1> DEFINE P(o) == o \notin {state.obj, running.obj, late.obj}
<1>1. running.obj = 0 \/ late.obj = 0
  BY DEF Monitor!The, Monitor!Slots
<1>2. \E o \in Monitor!Objects : P(o)
  BY <1>1 DEF Monitor!Objects
<1>3. Monitor!FreshObject = CHOOSE o \in Monitor!Objects : P(o)
  BY DEF Monitor!FreshObject
<1> HIDE DEF P
<1>4. QED
  BY <1>2, <1>3

\* A state of liveStates, and what becomes of one.
LEMMA StateFacts ==
  /\ Monitor!NoState \in Monitor!States /\ Monitor!NoState.obj = 0 /\ Monitor!NoState.msg = NoMessage
  /\ Monitor!NoState.timer = "off"
  /\ \A obj \in Monitor!Objects, m \in Monitor!Posted, g \in Games :
       [obj |-> obj, msg |-> m, game |-> g, timer |-> "off"] \in Monitor!States
  BY DEF Monitor!States, Monitor!NoState, Monitor!Posted

LEMMA LiveFacts ==
  ASSUME NEW s \in Monitor!States, s # Monitor!NoState
  PROVE  /\ s.obj \in Monitor!Objects /\ s.msg \in Monitor!Posted /\ s.game \in Games
         /\ \A t \in Timed : /\ [s EXCEPT !.timer = t] \in Monitor!States
                             /\ [s EXCEPT !.timer = t].obj = s.obj /\ [s EXCEPT !.timer = t].msg = s.msg
         /\ \A m \in Monitor!Posted : /\ [s EXCEPT !.msg = m] \in Monitor!States
                                      /\ [s EXCEPT !.msg = m].obj = s.obj /\ [s EXCEPT !.msg = m].msg = m
         /\ \A g \in Games : /\ [s EXCEPT !.game = g] \in Monitor!States
                             /\ [s EXCEPT !.game = g].obj = s.obj /\ [s EXCEPT !.game = g].msg = s.msg
                             /\ [s EXCEPT !.game = g] # Monitor!NoState
  BY DEF Monitor!States, Timed, Monitor!NoState, Monitor!Posted, Monitor!Objects

LEMMA ReleasedFacts ==
  ASSUME NEW o, NEW s \in Monitor!States
  PROVE  /\ Monitor!Released(o, s) \in Monitor!States
         /\ Monitor!Released(o, s).obj = s.obj /\ Monitor!Released(o, s).msg = s.msg
<1>1. CASE s = Monitor!NoState
  <2>1. [s EXCEPT !.timer = "off"] = s
    BY <1>1 DEF Monitor!NoState
  <2>2. QED
    BY <2>1 DEF Monitor!Released
<1>2. CASE s # Monitor!NoState
  BY <1>2, LiveFacts DEF Monitor!Released, Timed
<1>3. QED
  BY <1>1, <1>2

LEMMA ObjFacts == ASSUME NEW s \in Monitor!States
                  PROVE  /\ s.obj \in Monitor!Objects \cup {0} /\ s.msg \in Monitor!Posted
                         /\ s.obj = 0 <=> s = Monitor!NoState
                         /\ s.timer \in Timed
  BY DEF Monitor!States, Monitor!NoState, Timed, Monitor!Posted, Monitor!Objects

-----------------------------------------------------------------------------
(* What most steps have in common                                          *)

\* A step of the operation in a slot, which is q afterwards.
OpMoves(slot, q) ==
  /\ Monitor!The(slot)' = q
  /\ Monitor!The(Other(slot))' = Monitor!The(Other(slot))
  /\ Monitor!Rest

LEMMA MovesOn ==
  ASSUME NEW slot \in Monitor!Slots, NEW q, Monitor!Becomes(slot, q), q.pc # "done", Monitor!Rest
  PROVE  OpMoves(slot, q)
  BY Becoming DEF OpMoves

LEMMA Finishes ==
  ASSUME MonitorTypes, NEW slot \in Monitor!Slots, Monitor!Step(slot, "done"), Monitor!Rest
  PROVE  OpMoves(slot, Monitor!NoOp)
<1>1. [Monitor!The(slot) EXCEPT !.pc = "done"].pc = "done"
  BY SlotFacts, NextPc DEF IsOp, Pcs
<1>2. QED
  BY <1>1, Becoming DEF OpMoves, Monitor!Step

LEMMA StepsOn ==
  ASSUME MonitorTypes, NEW slot \in Monitor!Slots, NEW pc \in Pcs \ {"done"}, Monitor!Step(slot, pc), Monitor!Rest
  PROVE  /\ OpMoves(slot, [Monitor!The(slot) EXCEPT !.pc = pc])
         /\ IsOp([Monitor!The(slot) EXCEPT !.pc = pc], Monitor!The(slot), pc, Monitor!The(slot).msg, Monitor!The(slot).old)
         /\ [Monitor!The(slot) EXCEPT !.pc = pc].obj = Monitor!The(slot).obj
<1>1. /\ IsOp([Monitor!The(slot) EXCEPT !.pc = pc], Monitor!The(slot), pc, Monitor!The(slot).msg, Monitor!The(slot).old)
      /\ [Monitor!The(slot) EXCEPT !.pc = pc].obj = Monitor!The(slot).obj
  BY SlotFacts, NextPc
<1>2. QED
  BY <1>1, MovesOn DEF IsOp, Monitor!Step

LEMMA TypesStep ==
  ASSUME MonitorTypes, NEW slot \in Monitor!Slots, Monitor!The(slot) # Monitor!NoOp, NEW q, OpMoves(slot, q),
         \/ q = Monitor!NoOp
         \/ q \in Monitor!Ops /\ OperationTyped(q) /\ q.current = Monitor!The(slot).current /\ q.pc # "begin",
         board' \subseteq Messages, row' \in Monitor!Posted, state' \in Monitor!States,
         excused' \subseteq Messages, upsets' \in 0 .. MaxUpsets
  PROVE  MonitorTypes'
<1>1. q \in Monitor!Ops /\ OperationTyped(q)
  BY NoOpFacts DEF OperationTyped
<1>2. UNCHANGED <<stream, phase, loaded, fetching, waiting, escaped>>
  BY DEF OpMoves, Monitor!Rest
<1>3. Monitor!TypeOK'
  BY <1>1, <1>2 DEF OpMoves, MonitorTypes, Monitor!TypeOK, Monitor!Slots, Monitor!The, Other, Monitor!Queued
<1>4. waiting' \in Seq(Starters)
  BY <1>2 DEF MonitorTypes
<1>5. \A t \in Monitor!Slots : OperationTyped(Monitor!The(t)')
  BY <1>1 DEF OpMoves, MonitorTypes, Monitor!Slots, Other
<1>6. /\ running'.current = "yes"
      /\ running' # Monitor!NoOp => late' = Monitor!NoOp \/ late'.current = "no"
      /\ late'.pc # "begin"
  <2>1. CASE slot = "running"
    BY <2>1, NoOpFacts DEF OpMoves, MonitorTypes, Monitor!The, Other
  <2>2. CASE slot = "late"
    BY <2>2, NoOpFacts DEF OpMoves, MonitorTypes, Monitor!The, Other
  <2>3. QED
    BY <2>1, <2>2 DEF Monitor!Slots
<1>7. QED
  BY <1>3, <1>4, <1>5, <1>6 DEF MonitorTypes, OperationTyped, Monitor!The

\* With these a step keeps every message in sight: a new message is one's duty or given up, a duty is
\* done, and a row that is overwritten is not needed any more.
Dutiful(o, q) ==
  /\ excused \subseteq excused'
  /\ \A m \in board' : m \in board \/ (m \notin Names /\ m \in excused' \cup Duty(q))
  /\ \A m \in Duty(o) : m \in board' => m \in excused' \cup Duty(q) \cup {row'}

RowLeft(slot, q) ==
  row' # row => (row \in board' => row \in Held' \cup Duty(q) \cup Duty(Monitor!The(Other(slot))))

LEMMA HeldStays ==
  ASSUME excused \subseteq excused', UNCHANGED <<loaded, waiting>>
  PROVE  Held \subseteq Held' /\ excused' \subseteq Held' /\ QueuedMessages' = QueuedMessages
  BY DEF Held, QueuedMessages, Monitor!Queued

LEMMA CoveredStep ==
  ASSUME Covered, NEW slot \in Monitor!Slots, NEW q, OpMoves(slot, q),
         Dutiful(Monitor!The(slot), q), RowLeft(slot, q)
  PROVE  Covered'
<1>1. Held \subseteq Held' /\ excused' \subseteq Held'
  BY HeldStays DEF OpMoves, Monitor!Rest, Dutiful
<1>2. Duty(running) \cup Duty(late) = Duty(Monitor!The(slot)) \cup Duty(Monitor!The(Other(slot)))
  BY DEF Monitor!Slots, Monitor!The, Other
<1>3. Duty(running') \cup Duty(late') = Duty(q) \cup Duty(Monitor!The(Other(slot)))
  BY DEF Monitor!Slots, Monitor!The, Other, OpMoves
<1>4. ASSUME NEW m \in board' PROVE m \in Held' \cup {row'} \cup Duty(q) \cup Duty(Monitor!The(Other(slot)))
  <2>1. CASE m \notin board
    BY <1>4, <2>1, <1>1 DEF Dutiful
  <2>2. CASE m \in board
    <3>1. m \in Held \cup {row} \cup Duty(Monitor!The(slot)) \cup Duty(Monitor!The(Other(slot)))
      BY <2>2, <1>2 DEF Covered
    <3>2. QED
      BY <3>1, <1>1, <1>4 DEF Dutiful, RowLeft
  <2>3. QED
    BY <2>1, <2>2
<1>5. Covered' <=> board' \subseteq Held' \cup {row'} \cup Duty(running') \cup Duty(late')
  BY DEF Covered, Duty
<1>6. QED
  BY <1>3, <1>4, <1>5

\* The common case: neither the row nor the state's message changes, and no duty is done by writing it.
LEMMA RowStays ==
  ASSUME RowIsKept, NEW slot \in Monitor!Slots, NEW q, OpMoves(slot, q),
         Dutiful(Monitor!The(slot), q), UNCHANGED row, state'.msg = state.msg,
         \A m \in Duty(Monitor!The(slot)) : m \in board' => m \in excused' \cup Duty(q)
  PROVE  RowIsKept'
<1>1. Held \subseteq Held' /\ excused' \subseteq Held'
  BY HeldStays DEF OpMoves, Monitor!Rest, Dutiful
<1>2. Duty(running) \cup Duty(late) = Duty(Monitor!The(slot)) \cup Duty(Monitor!The(Other(slot)))
  BY DEF Monitor!Slots, Monitor!The, Other
<1>3. Duty(running') \cup Duty(late') = Duty(q) \cup Duty(Monitor!The(Other(slot)))
  BY DEF Monitor!Slots, Monitor!The, Other, OpMoves
<1>4. phase' = phase
  BY DEF OpMoves, Monitor!Rest
<1>5. ASSUME Loaded, row \in board'
      PROVE row \in Held' \cup {state.msg} \cup Duty(q) \cup Duty(Monitor!The(Other(slot)))
  <2>1. row \in board
    BY <1>5 DEF Dutiful, Names
  <2>2. row \in Held \cup {state.msg} \cup Duty(Monitor!The(slot)) \cup Duty(Monitor!The(Other(slot)))
    BY <1>5, <2>1, <1>2 DEF RowIsKept, Safe
  <2>3. QED
    BY <2>2, <1>1, <1>5
<1>6. RowIsKept' <=>
        (Loaded' => (row' \in board' => row' \in Held' \cup {state'.msg} \cup Duty(running') \cup Duty(late')))
  BY DEF RowIsKept, Safe, Duty, Loaded
<1>7. QED
  BY <1>3, <1>4, <1>5, <1>6 DEF Loaded

\* Who acts while another operation is superseded; and who is superseded leaves the other's facts alone.
LeavesAlone(slot, q) ==
  /\ state'.msg = state.msg /\ state'.obj = state.obj
  /\ row' = row \/ row' \in excused'
  /\ \A m \in Duty(Monitor!The(slot)) : m \in board' => m \in excused' \cup Duty(q)

LEMMA OtherStep ==
  ASSUME MonitorTypes, NothingOrphaned, NEW slot \in Monitor!Slots, Monitor!The(slot) # Monitor!NoOp,
         NEW q, OpMoves(slot, q), Dutiful(Monitor!The(slot), q),
         Monitor!The(slot).current = "yes" \/ LeavesAlone(slot, q)
  PROVE  OperationInv(Monitor!The(Other(slot)), Monitor!The(slot))'
<1> DEFINE o == Monitor!The(slot)
           b == Monitor!The(Other(slot))
<1>1. b' = b /\ o' = q /\ phase' = phase
  BY DEF OpMoves, Monitor!Rest
<1>2. Held \subseteq Held' /\ excused' \subseteq Held'
  BY HeldStays DEF OpMoves, Monitor!Rest, Dutiful
<1>3. OperationInv(b, o)
  BY SlotFacts DEF NothingOrphaned
<1>4. {row, b.msg, b.old} \subseteq Names /\ b.current \in {"yes", "no"}
  BY SlotFacts DEF Names, Monitor!The, Other, Monitor!Slots, Monitor!Ops
<1>5. \A m \in {row, b.msg, b.old} : m \in board' => m \in board
  BY <1>4 DEF Dutiful
<1>6. Removed(b)'
  BY <1>1, <1>3, <1>5 DEF OperationInv, Removed, Dutiful
<1>7. CASE o.current = "yes"
  <2>1. b = Monitor!NoOp \/ b.current = "no"
    BY <1>7, SlotFacts
  <2>2. b.pc = "done" \/ b.current = "no"
    BY <2>1, NoOpFacts
  <2>3. QED
    BY <1>1, <1>6, <2>2 DEF OperationInv, RowSpokenFor, EditSpokenFor, Recorded, OfflineFinds
<1>8. CASE LeavesAlone(slot, q)
  <2>1. \A m \in Duty(o) : m \in board' => m \in excused' \cup Duty(q)
    BY <1>8 DEF LeavesAlone
  <2>2. ASSUME NEW kept, Safe(row, kept \cup Duty(o)), row' \in board' PROVE row' \in Held' \cup kept \cup Duty(q)
    BY <1>2, <1>5, <1>8, <2>1, <2>2 DEF Safe, LeavesAlone
  <2>3. RowSpokenFor(b, o)'
    BY <1>1, <1>3, <2>2 DEF OperationInv, RowSpokenFor, Safe, Duty
  <2>4. EditSpokenFor(b, o)'
    BY <1>1, <1>3, <1>8, <2>2 DEF OperationInv, EditSpokenFor, Safe, LeavesAlone, Duty
  <2>5. Recorded(b)'
    BY <1>1, <1>2, <1>3, <1>5, <1>8 DEF OperationInv, Recorded, Safe, LeavesAlone, Loaded
  <2>6. OfflineFinds(b)'
    BY <1>1, <1>3, <1>8 DEF OperationInv, OfflineFinds, LeavesAlone
  <2>7. QED
    BY <1>6, <2>3, <2>4, <2>5, <2>6 DEF OperationInv
<1>9. QED
  BY <1>7, <1>8

LEMMA LateStep ==
  ASSUME MonitorTypes, LateInv, NEW slot \in Monitor!Slots, Monitor!The(slot) # Monitor!NoOp, NEW q, OpMoves(slot, q),
         excused \subseteq excused',
         \/ q = Monitor!NoOp
         \/ /\ q.kind = Monitor!The(slot).kind
            /\ q.pc \in {"startEdit", "startPersist", "startDelete"} =>
                 Monitor!The(slot).pc \in {"startEdit", "startPersist", "startDelete"} /\ q.msg = Monitor!The(slot).msg
            \/ slot = "running"
  PROVE  LateInv'
<1>1. CASE slot = "running"
  BY <1>1 DEF OpMoves, LateInv, Monitor!The, Other
<1>2. CASE slot = "late"
  BY <1>2, NoOpFacts DEF OpMoves, LateInv, Monitor!The, Other
<1>3. QED
  BY <1>1, <1>2 DEF Monitor!Slots

\* What is left to show of a step of an operation: that it keeps to the types and, unless it was
\* superseded, what it has to know at its next step.
LEMMA StepKeeps ==
  ASSUME NothingOrphaned, NEW slot \in Monitor!Slots, Covered', RowIsKept', LateInv',
         OperationInv(Monitor!The(Other(slot)), Monitor!The(slot))',
         OperationInv(Monitor!The(slot), Monitor!The(Other(slot)))'
  PROVE  NothingOrphaned'
<1>1. \A t \in Monitor!Slots : OperationInv(Monitor!The(t), Monitor!The(Other(t)))'
  BY DEF Monitor!Slots, Other, Monitor!The
<1>2. QED
  BY <1>1 DEF NothingOrphaned

LEMMA NoOpInv ==
  ASSUME NEW slot \in Monitor!Slots, OpMoves(slot, Monitor!NoOp)
  PROVE  OperationInv(Monitor!The(slot), Monitor!The(Other(slot)))'
  BY NoOpFacts DEF OpMoves, OperationInv, RowSpokenFor, EditSpokenFor, Recorded, Removed, OfflineFinds

LEMMA SupersededFacts ==
  ASSUME MonitorTypes, LateInv, NEW slot \in Monitor!Slots, Monitor!The(slot) # Monitor!NoOp
  PROVE  /\ Monitor!Superseded(Monitor!The(slot)) <=> Monitor!The(slot).current = "no"
         /\ Monitor!The(slot).current \in {"yes", "no"}
         /\ Monitor!Superseded(Monitor!The(slot)) => slot = "late"
  BY SlotFacts DEF MonitorTypes, LateInv, Monitor!Slots, Monitor!The, Monitor!Superseded, Monitor!Ops

\* The next step of the same operation.
NextOp(slot, q) ==
  /\ q \in Monitor!Ops /\ OperationTyped(q) /\ q.pc # "begin"
  /\ q.current = Monitor!The(slot).current /\ q.kind = Monitor!The(slot).kind
  /\ \/ slot = "running"
     \/ q.pc \in {"startEdit", "startPersist", "startDelete"} =>
          Monitor!The(slot).pc \in {"startEdit", "startPersist", "startDelete"} /\ q.msg = Monitor!The(slot).msg

TypesStay ==
  /\ board' \subseteq Messages /\ row' \in Monitor!Posted /\ state' \in Monitor!States
  /\ excused' \subseteq Messages /\ upsets' \in 0 .. MaxUpsets

LEMMA StepInTypes ==
  ASSUME MonitorTypes, NEW slot \in Monitor!Slots, Monitor!The(slot) # Monitor!NoOp, NEW q, OpMoves(slot, q),
         q = Monitor!NoOp \/ NextOp(slot, q), TypesStay
  PROVE  MonitorTypes'
  BY TypesStep DEF NextOp, TypesStay

\* A step that writes neither the row nor the state's message.
LEMMA QuietStep ==
  ASSUME MonitorInv, NEW slot \in Monitor!Slots, Monitor!The(slot) # Monitor!NoOp, NEW q, OpMoves(slot, q),
         q = Monitor!NoOp \/ NextOp(slot, q), TypesStay,
         UNCHANGED row, state'.msg = state.msg, state'.obj = state.obj,
         Dutiful(Monitor!The(slot), q),
         \A m \in Duty(Monitor!The(slot)) : m \in board' => m \in excused' \cup Duty(q),
         (NothingOrphaned /\ LateInv /\ q # Monitor!NoOp)
            => OperationInv(Monitor!The(slot), Monitor!The(Other(slot)))'
  PROVE  MonitorInv'
<1>1. MonitorTypes /\ MonitorTypes'
  BY StepInTypes DEF MonitorInv
<1>2. escaped' = escaped
  BY DEF OpMoves, Monitor!Rest
<1>3. ASSUME escaped = "no" PROVE NothingOrphaned'
  <2>1. NothingOrphaned /\ LateInv
    BY <1>3 DEF MonitorInv, NothingOrphaned
  <2>2. Covered'
    BY <2>1, CoveredStep DEF RowLeft, NothingOrphaned
  <2>3. RowIsKept'
    BY <2>1, RowStays DEF NothingOrphaned
  <2>4. LateInv'
    BY <1>1, <2>1, LateStep DEF NextOp, Dutiful
  <2>5. LeavesAlone(slot, q)
    BY DEF LeavesAlone
  <2>6. OperationInv(Monitor!The(Other(slot)), Monitor!The(slot))'
    BY <1>1, <2>1, <2>5, OtherStep
  <2>7. OperationInv(Monitor!The(slot), Monitor!The(Other(slot)))'
    <3>1. CASE q = Monitor!NoOp
      BY <3>1, NoOpInv
    <3>2. CASE q # Monitor!NoOp
      BY <2>1, <3>2
    <3>3. QED
      BY <3>1, <3>2
  <2>8. QED
    BY <2>1, <2>2, <2>3, <2>4, <2>6, <2>7, StepKeeps
<1>4. QED
  BY <1>1, <1>2, <1>3 DEF MonitorInv

\* What holds of the operation of a slot that is at work.
LEMMA AtWork ==
  ASSUME MonitorInv, NEW slot \in Monitor!Slots, Monitor!The(slot).pc # "done"
  PROVE  /\ MonitorTypes /\ Monitor!The(slot) # Monitor!NoOp
         /\ Monitor!The(slot) \in Monitor!Ops /\ OperationTyped(Monitor!The(slot))
         /\ Monitor!The(slot).msg \in Monitor!Posted /\ Monitor!The(slot).old \in Monitor!Posted
         /\ {Monitor!The(slot).msg, Monitor!The(slot).old, row, state.msg} \subseteq Names
         /\ board \subseteq Messages /\ row \in Monitor!Posted /\ state \in Monitor!States
         /\ excused \subseteq Messages /\ upsets \in 0 .. MaxUpsets
         /\ NothingOrphaned => OperationInv(Monitor!The(slot), Monitor!The(Other(slot)))
<1>1. MonitorTypes
  BY DEF MonitorInv
<1>2. Monitor!The(slot) # Monitor!NoOp /\ Monitor!The(slot) \in Monitor!Ops /\ OperationTyped(Monitor!The(slot))
  BY <1>1, NoOpFacts, SlotFacts
<1>3. {Monitor!The(slot).msg, Monitor!The(slot).old, row, state.msg} \subseteq Names
  BY DEF Names, Monitor!Slots, Monitor!The
<1>4. QED
  BY <1>1, <1>2, <1>3 DEF MonitorTypes, Monitor!TypeOK, NothingOrphaned, Monitor!Ops

-----------------------------------------------------------------------------
(* Announcing                                                              *)

LEMMA PostKeeps == ASSUME MonitorInv, NEW slot \in Monitor!Slots, Monitor!Post(slot) PROVE MonitorInv'
<1> DEFINE o == Monitor!The(slot)
<1>1. o.pc = "post" /\ UNCHANGED <<row, state, excused, upsets>> /\ Monitor!Rest
  BY DEF Monitor!Post, Monitor!Quiet
<1>2. Duty(o) = {}
  BY <1>1 DEF Duty
<1>3. CASE Monitor!Superseded(o)
  <2>1. Monitor!Step(slot, "done") /\ UNCHANGED board
    BY <1>3 DEF Monitor!Post
  <2>2. OpMoves(slot, Monitor!NoOp)
    BY <1>1, <2>1, AtWork, Finishes
  <2>3. QED
    BY <1>1, <1>2, <2>1, <2>2, AtWork, QuietStep DEF TypesStay, Dutiful
<1>4. CASE ~Monitor!Superseded(o)
  <2> DEFINE m == Monitor!FreshMessage
             q == [o EXCEPT !.pc = "sent", !.msg = m]
  <2>1. m # NoMessage /\ board' = board \cup {m} /\ Monitor!Becomes(slot, q)
    BY <1>4 DEF Monitor!Post
  <2>2. m \in Messages \ (board \cup Names) /\ m \in Monitor!Posted
    BY <2>1, FreshMessageFacts
  <2>3. IsOp(q, o, "sent", m, o.old) /\ q.obj = o.obj
    BY <1>1, <2>2, AtWork, NextMsg DEF Pcs
  <2> HIDE DEF m, q
  <2>4. OpMoves(slot, q)
    BY <1>1, <2>1, <2>3, MovesOn DEF IsOp
  <2>5. NextOp(slot, q)
    BY <1>1, <2>1, <2>3, AtWork DEF IsOp, NextOp, OperationTyped
  <2>6. Duty(q) = {m}
    BY <2>3 DEF IsOp, Duty
  <2>7. Dutiful(o, q) /\ TypesStay
    BY <1>1, <1>2, <2>1, <2>2, <2>6, AtWork DEF Dutiful, TypesStay
  <2>8. ASSUME NothingOrphaned PROVE OperationInv(o, Monitor!The(Other(slot)))'
    <3>1. o' = q /\ Monitor!The(Other(slot))' = Monitor!The(Other(slot))
      BY <2>4 DEF OpMoves
    <3>2. RowSpokenFor(o, Monitor!The(Other(slot)))
      BY <1>1, <2>8, AtWork DEF OperationInv
    <3>3. Held \subseteq Held'
      BY <1>1, HeldStays DEF Monitor!Rest
    <3>4. RowSpokenFor(o, Monitor!The(Other(slot)))'
      BY <1>1, <2>1, <2>2, <2>3, <3>1, <3>2, <3>3, AtWork DEF RowSpokenFor, Safe, IsOp, OperationTyped, Duty
    <3>5. QED
      BY <2>3, <3>1, <3>4 DEF OperationInv, IsOp, EditSpokenFor, Recorded, Removed, OfflineFinds
  <2>9. QED
    BY <1>1, <1>2, <2>4, <2>5, <2>7, <2>8, AtWork, QuietStep
<1>5. QED
  BY <1>3, <1>4

\* An operation that ends and leaves the row and the state's message as they are.
LEMMA EndsQuietly ==
  ASSUME MonitorInv, NEW slot \in Monitor!Slots, Monitor!The(slot).pc # "done",
         Monitor!Step(slot, "done"), Monitor!Rest, UNCHANGED row,
         state' \in Monitor!States, state'.msg = state.msg, state'.obj = state.obj,
         excused \subseteq excused', excused' \subseteq Messages, upsets' \in 0 .. MaxUpsets,
         \A m \in board' : m \in board \/ (m \in Messages \ Names /\ m \in excused'),
         \A m \in Duty(Monitor!The(slot)) : m \in board' => m \in excused'
  PROVE  MonitorInv'
<1>1. OpMoves(slot, Monitor!NoOp)
  BY AtWork, Finishes
<1>2. Duty(Monitor!NoOp) = {}
  BY NoOpFacts DEF Duty
<1>3. TypesStay /\ Dutiful(Monitor!The(slot), Monitor!NoOp)
  BY <1>2, AtWork DEF TypesStay, Dutiful
<1>4. QED
  BY <1>1, <1>2, <1>3, AtWork, QuietStep

\* A step to another pc, with nothing else to show than what the operation has to know there.
LEMMA PostFailsKeeps == ASSUME MonitorInv, NEW slot \in Monitor!Slots, Monitor!PostFails(slot) PROVE MonitorInv'
<1> DEFINE o == Monitor!The(slot)
<1>1. /\ o.pc \in {"post", "repost"} /\ UNCHANGED <<row, state>> /\ Monitor!Rest /\ Monitor!Upset
      /\ Monitor!Step(slot, "done")
  BY DEF Monitor!PostFails
<1>2. Duty(o) = {}
  BY <1>1 DEF Duty
<1>3. upsets' \in 0 .. MaxUpsets
  BY <1>1, AtWork, UpsetFacts
<1>4. \/ UNCHANGED <<board, excused>>
      \/ /\ Monitor!FreshMessage \in Messages \ Names
         /\ board' = board \cup {Monitor!FreshMessage} /\ excused' = excused \cup {Monitor!FreshMessage}
  BY FreshMessageFacts DEF Monitor!PostFails
<1>5. /\ excused \subseteq excused' /\ excused' \subseteq Messages
      /\ \A m \in board' : m \in board \/ (m \in Messages \ Names /\ m \in excused')
  BY <1>1, <1>4, AtWork
<1>6. QED
  BY <1>1, <1>2, <1>3, <1>5, AtWork, EndsQuietly

LEMMA ForgottenFacts ==
  ASSUME NEW o, row \in Monitor!Posted, state.msg \in Monitor!Posted
  PROVE  /\ Monitor!Forgotten(o) \subseteq Messages
         /\ o.kind = "startup" => {row, state.msg} \subseteq Monitor!Forgotten(o) \cup {NoMessage, o.msg}
  BY DEF Monitor!Forgotten, Monitor!Posted

\* The state becomes that of a new announcement or of the one taken over; what was known from the row and
\* the state alone is given up, or spoken for by the operation.
LEMMA StateWritten ==
  ASSUME MonitorInv, NEW slot \in Monitor!Slots, Monitor!The(slot) # Monitor!NoOp,
         escaped = "no" => Monitor!The(slot).current = "yes",
         NEW q, OpMoves(slot, q), q = Monitor!NoOp \/ NextOp(slot, q), TypesStay,
         UNCHANGED row, Dutiful(Monitor!The(slot), q),
         (escaped = "no" /\ NothingOrphaned) =>
           (row \in board => row \in Held' \cup {state'.msg} \cup Duty(q) \cup Duty(Monitor!The(Other(slot)))),
         (NothingOrphaned /\ q # Monitor!NoOp) => OperationInv(Monitor!The(slot), Monitor!The(Other(slot)))'
  PROVE  MonitorInv'
<1>1. MonitorTypes /\ MonitorTypes'
  BY StepInTypes DEF MonitorInv
<1>2. escaped' = escaped
  BY DEF OpMoves, Monitor!Rest
<1>3. ASSUME escaped = "no" PROVE NothingOrphaned'
  <2>1. NothingOrphaned /\ LateInv
    BY <1>3 DEF MonitorInv, NothingOrphaned
  <2>2. Covered'
    BY <2>1, CoveredStep DEF RowLeft, NothingOrphaned
  <2>3. RowIsKept'
    <3>1. row' \in board' => row' \in board
      BY DEF Dutiful, Names
    <3>2. Duty(running') \cup Duty(late') = Duty(q) \cup Duty(Monitor!The(Other(slot)))
      BY DEF Monitor!Slots, Monitor!The, Other, OpMoves
    <3>3. Safe(row, {state.msg} \cup Duty(running) \cup Duty(late))'
             <=> (row' \in board' => row' \in Held' \cup {state'.msg} \cup Duty(running') \cup Duty(late'))
      BY DEF Safe, Duty
    <3>4. QED
      BY <1>3, <2>1, <3>1, <3>2, <3>3 DEF RowIsKept
  <2>4. LateInv'
    BY <1>1, <2>1, LateStep DEF NextOp, Dutiful
  <2>5. OperationInv(Monitor!The(Other(slot)), Monitor!The(slot))'
    BY <1>1, <1>3, <2>1, OtherStep
  <2>6. OperationInv(Monitor!The(slot), Monitor!The(Other(slot)))'
    <3>1. CASE q = Monitor!NoOp
      BY <3>1, NoOpInv
    <3>2. CASE q # Monitor!NoOp
      BY <2>1, <3>2
    <3>3. QED
      BY <3>1, <3>2
  <2>7. QED
    BY <2>1, <2>2, <2>3, <2>4, <2>5, <2>6, StepKeeps
<1>4. QED
  BY <1>1, <1>2, <1>3 DEF MonitorInv

\* What of an operation's knowledge only rests on messages, not on the state.
LEMMA ActsOrNot ==
  ASSUME MonitorInv, NEW slot \in Monitor!Slots, Monitor!The(slot) # Monitor!NoOp
  PROVE  escaped = "no" => (Monitor!Superseded(Monitor!The(slot)) <=> Monitor!The(slot).current # "yes")
  BY SupersededFacts DEF MonitorInv, NothingOrphaned

LEMMA PostsKeeps == ASSUME MonitorInv, NEW slot \in Monitor!Slots, Monitor!Posts(slot) PROVE MonitorInv'
<1> DEFINE o == Monitor!The(slot)
           b == Monitor!The(Other(slot))
<1>1. o.pc = "sent" /\ UNCHANGED <<board, row, upsets>> /\ Monitor!Rest
  BY DEF Monitor!Posts
<1>2. Duty(o) = {o.msg} /\ o.msg # NoMessage /\ o.obj = 0 /\ o.sees # NoGame /\ o.old = NoMessage
  BY <1>1, AtWork DEF Duty, OperationTyped
<1>3. CASE Monitor!Superseded(o)
  <2> DEFINE q == [o EXCEPT !.pc = "discard"]
  <2>1. Monitor!Step(slot, "discard") /\ UNCHANGED <<state, excused>>
    BY <1>3 DEF Monitor!Posts
  <2>2. OpMoves(slot, q) /\ IsOp(q, o, "discard", o.msg, o.old) /\ q.obj = o.obj
    BY <1>1, <2>1, AtWork, StepsOn DEF Pcs
  <2> HIDE DEF q
  <2>3. NextOp(slot, q)
    BY <1>1, <1>2, <2>2, AtWork DEF IsOp, NextOp, OperationTyped
  <2>4. Duty(q) = {o.msg}
    BY <2>2 DEF IsOp, Duty
  <2>5. Dutiful(o, q) /\ TypesStay
    BY <1>1, <1>2, <2>1, <2>4, AtWork DEF Dutiful, TypesStay
  <2>6. OperationInv(o, b)'
    BY <2>2 DEF OpMoves, OperationInv, IsOp, RowSpokenFor, EditSpokenFor, Recorded, Removed, OfflineFinds
  <2>7. QED
    BY <1>1, <1>2, <2>1, <2>2, <2>3, <2>4, <2>5, <2>6, AtWork, QuietStep
<1>4. CASE ~Monitor!Superseded(o)
  <2> DEFINE next == [obj |-> Monitor!FreshObject, msg |-> o.msg, game |-> o.sees, timer |-> "off"]
             q == [o EXCEPT !.pc = "persist", !.obj = next.obj]
  <2>1. state' = next /\ excused' = excused \cup Monitor!Forgotten(o) /\ Monitor!Becomes(slot, q)
    BY <1>4 DEF Monitor!Posts
  <2>2. Monitor!FreshObject \in Monitor!Objects
    BY <1>1, <1>2, AtWork, FreshObjectFacts
  <2>3. o.sees \in Games
    BY <1>1, <1>2, AtWork DEF Monitor!Ops, Monitor!Playing
  <2>4. state' \in Monitor!States /\ state'.msg = o.msg /\ next.obj = Monitor!FreshObject
    BY <1>1, <2>1, <2>2, <2>3, AtWork, StateFacts
  <2>5. IsOp(q, o, "persist", o.msg, o.old)
    BY <1>1, <2>2, <2>4, AtWork, NextObj DEF Pcs
  <2> HIDE DEF next, q
  <2>6. OpMoves(slot, q)
    BY <1>1, <2>1, <2>5, MovesOn DEF IsOp
  <2>7. NextOp(slot, q)
    BY <1>1, <1>2, <2>5, AtWork DEF IsOp, NextOp, OperationTyped
  <2>8. Duty(q) = {o.msg}
    BY <2>5 DEF IsOp, Duty
  <2>9. state.msg \in Monitor!Posted
    BY <1>1, AtWork, ObjFacts
  <2>10. Monitor!Forgotten(o) \subseteq Messages /\ (o.kind = "startup" => row \in Monitor!Forgotten(o) \cup {NoMessage, o.msg})
    BY <1>1, <2>9, AtWork, ForgottenFacts
  <2>11. Dutiful(o, q) /\ TypesStay
    BY <1>1, <1>2, <2>1, <2>4, <2>8, <2>10, AtWork DEF Dutiful, TypesStay
  <2>12. Held \subseteq Held' /\ excused' \subseteq Held'
    BY <1>1, <2>11, HeldStays DEF Monitor!Rest, Dutiful
  <2>13. escaped = "no" => o.current = "yes"
    BY <1>1, <1>4, AtWork, ActsOrNot
  <2>14. ASSUME NothingOrphaned, o.current = "yes", row \in board PROVE row \in Held' \cup {o.msg} \cup Duty(b)
    <3>1. row # NoMessage
      BY <1>1, <2>14, AtWork, MonitorAssumption
    <3>2. CASE o.kind = "startup"
      BY <2>1, <2>10, <2>12, <3>1, <3>2
    <3>3. CASE o.kind # "startup"
      <4>1. RowSpokenFor(o, b)
        BY <1>1, <2>14, AtWork DEF OperationInv
      <4>2. QED
        BY <1>1, <1>2, <2>12, <2>14, <3>1, <3>3, <4>1 DEF RowSpokenFor, Safe
    <3>4. QED
      BY <3>2, <3>3
  <2>15. ASSUME NothingOrphaned PROVE OperationInv(o, b)'
    <3>1. o' = q /\ b' = b
      BY <2>6 DEF OpMoves
    <3>2. RowSpokenFor(o, b)'
      BY <1>1, <2>5, <2>14, <2>15, <3>1 DEF RowSpokenFor, Safe, IsOp, Duty
    <3>3. Recorded(o)'
      BY <2>4, <2>5, <3>1 DEF Recorded, Safe, IsOp
    <3>4. QED
      BY <2>5, <3>1, <3>2, <3>3 DEF OperationInv, IsOp, EditSpokenFor, Removed, OfflineFinds
  <2>16. (escaped = "no" /\ NothingOrphaned)
           => (row \in board => row \in Held' \cup {state'.msg} \cup Duty(q) \cup Duty(b))
    BY <2>4, <2>13, <2>14
  <2>17. QED
    BY <1>1, <2>6, <2>7, <2>11, <2>13, <2>15, <2>16, AtWork, StateWritten
<1>5. QED
  BY <1>3, <1>4

LEMMA discardKeeps ==
  ASSUME MonitorInv, NEW slot \in Monitor!Slots, Monitor!discardSupersededMessage(slot) PROVE MonitorInv'
<1> DEFINE o == Monitor!The(slot)
<1>1. o.pc = "discard" /\ UNCHANGED <<row, state>> /\ Monitor!Rest /\ Monitor!Step(slot, "done")
  BY DEF Monitor!discardSupersededMessage
<1>2. Duty(o) = {o.msg} /\ o.msg \in Messages
  BY <1>1, AtWork DEF Duty, OperationTyped, Monitor!Posted
<1>3. CASE board' = board \ {o.msg} /\ UNCHANGED <<excused, upsets>>
  BY <1>1, <1>2, <1>3, AtWork, EndsQuietly
<1>4. CASE Monitor!Upset /\ excused' = excused \cup {o.msg} /\ UNCHANGED board
  BY <1>1, <1>2, <1>4, AtWork, UpsetFacts, EndsQuietly
<1>5. QED
  BY <1>3, <1>4 DEF Monitor!discardSupersededMessage

\* The row is overwritten.
LEMMA RowWritten ==
  ASSUME MonitorInv, NEW slot \in Monitor!Slots, Monitor!The(slot) # Monitor!NoOp,
         OpMoves(slot, Monitor!NoOp), TypesStay, UNCHANGED <<board, state>>, excused \subseteq excused',
         Duty(Monitor!The(slot)) = {row'},
         escaped = "no" => Monitor!The(slot).current = "yes" \/ row' \in excused',
         (escaped = "no" /\ NothingOrphaned /\ row \in board) =>
            row \in Held' \cup {row'} \cup Duty(Monitor!The(Other(slot))),
         (escaped = "no" /\ NothingOrphaned /\ Loaded /\ row' \in board) =>
            row' \in Held' \cup {state.msg} \cup Duty(Monitor!The(Other(slot)))
  PROVE  MonitorInv'
<1>1. MonitorTypes /\ MonitorTypes'
  BY StepInTypes DEF MonitorInv
<1>2. escaped' = escaped /\ phase' = phase
  BY DEF OpMoves, Monitor!Rest
<1>3. Duty(Monitor!NoOp) = {}
  BY NoOpFacts DEF Duty
<1>4. ASSUME escaped = "no" PROVE NothingOrphaned'
  <2>1. NothingOrphaned /\ LateInv
    BY <1>4 DEF MonitorInv, NothingOrphaned
  <2>2. Dutiful(Monitor!The(slot), Monitor!NoOp)
    BY DEF Dutiful
  <2>3. Covered'
    <3>1. row \in board' => row \in Held' \cup {row'} \cup Duty(Monitor!The(Other(slot)))
      BY <1>4, <2>1
    <3>2. Held \subseteq Held' /\ excused' \subseteq Held'
      BY HeldStays DEF OpMoves, Monitor!Rest
    <3>3. Duty(running) \cup Duty(late) = {row'} \cup Duty(Monitor!The(Other(slot)))
      BY DEF Monitor!Slots, Monitor!The, Other
    <3>4. Duty(running') \cup Duty(late') = Duty(Monitor!The(Other(slot)))
      BY <1>3 DEF Monitor!Slots, Monitor!The, Other, OpMoves
    <3>5. \A m \in board' : m \in Held' \cup {row'} \cup Duty(Monitor!The(Other(slot)))
      BY <2>1, <3>1, <3>2, <3>3 DEF NothingOrphaned, Covered
    <3>6. Covered' <=> board' \subseteq Held' \cup {row'} \cup Duty(running') \cup Duty(late')
      BY DEF Covered, Duty
    <3>7. QED
      BY <3>4, <3>5, <3>6
  <2>4. RowIsKept'
    <3>1. Duty(running') \cup Duty(late') = Duty(Monitor!The(Other(slot)))
      BY <1>3 DEF Monitor!Slots, Monitor!The, Other, OpMoves
    <3>2. Safe(row, {state.msg} \cup Duty(running) \cup Duty(late))'
             <=> (row' \in board' => row' \in Held' \cup {state'.msg} \cup Duty(running') \cup Duty(late'))
      BY DEF Safe, Duty
    <3>3. QED
      BY <1>2, <1>4, <2>1, <3>1, <3>2 DEF RowIsKept, Loaded
  <2>5. LateInv'
    BY <1>1, <2>1, LateStep
  <2>6. Monitor!The(slot).current = "yes" \/ LeavesAlone(slot, Monitor!NoOp)
    BY <1>4 DEF LeavesAlone
  <2>7. OperationInv(Monitor!The(Other(slot)), Monitor!The(slot))'
    BY <1>1, <2>1, <2>2, <2>6, OtherStep
  <2>8. QED
    BY <2>1, <2>3, <2>4, <2>5, <2>7, NoOpInv, StepKeeps
<1>5. QED
  BY <1>1, <1>2, <1>4 DEF MonitorInv

LEMMA persistKeeps ==
  ASSUME MonitorInv, NEW slot \in Monitor!Slots, Monitor!persistStreamerLive(slot) PROVE MonitorInv'
<1> DEFINE o == Monitor!The(slot)
           b == Monitor!The(Other(slot))
<1>1. o.pc = "persist" /\ UNCHANGED <<board, state>> /\ Monitor!Rest /\ Monitor!Step(slot, "done")
  BY DEF Monitor!persistStreamerLive
<1>2. Duty(o) = {o.msg} /\ o.msg \in Messages /\ o.old = NoMessage
  BY <1>1, AtWork DEF Duty, OperationTyped, Monitor!Posted
<1>3. CASE ~Monitor!Superseded(o) /\ row' = o.msg /\ UNCHANGED <<excused, upsets>>
  <2>1. OpMoves(slot, Monitor!NoOp)
    BY <1>1, AtWork, Finishes
  <2>2. escaped = "no" => o.current = "yes"
    BY <1>1, <1>3, AtWork, ActsOrNot
  <2>3. Held \subseteq Held'
    BY <1>1, <1>3, HeldStays DEF Monitor!Rest
  <2>4. row # NoMessage \/ row \notin board
    BY <1>1, AtWork, MonitorAssumption
  <2>5. ASSUME NothingOrphaned, o.current = "yes" PROVE RowSpokenFor(o, b) /\ Recorded(o)
    BY <1>1, <2>5, AtWork DEF OperationInv
  <2>6. TypesStay
    BY <1>1, <1>2, <1>3, AtWork DEF TypesStay, Monitor!Posted
  <2>7. (escaped = "no" /\ NothingOrphaned /\ row \in board) => row \in Held' \cup {row'} \cup Duty(b)
    BY <1>1, <1>2, <1>3, <2>2, <2>3, <2>4, <2>5 DEF RowSpokenFor, Safe
  <2>8. (escaped = "no" /\ NothingOrphaned /\ Loaded /\ row' \in board) => row' \in Held' \cup {state.msg} \cup Duty(b)
    BY <1>1, <1>2, <1>3, <2>2, <2>3, <2>5 DEF Recorded, Safe
  <2>9. QED
    BY <1>1, <1>2, <1>3, <2>1, <2>2, <2>6, <2>7, <2>8, AtWork, RowWritten
<1>4. CASE Monitor!Superseded(o) /\ excused' = excused \cup {o.msg} /\ UNCHANGED <<row, upsets>>
  BY <1>1, <1>2, <1>4, AtWork, EndsQuietly
<1>5. CASE Monitor!Upset /\ excused' = excused \cup {o.msg} /\ UNCHANGED row
  BY <1>1, <1>2, <1>5, AtWork, UpsetFacts, EndsQuietly
<1>6. QED
  BY <1>3, <1>4, <1>5 DEF Monitor!persistStreamerLive

-----------------------------------------------------------------------------
(* Editing                                                                 *)

LEMMA EditFailsKeeps == ASSUME MonitorInv, NEW slot \in Monitor!Slots, Monitor!EditFails(slot) PROVE MonitorInv'
<1> DEFINE o == Monitor!The(slot)
<1>1. /\ o.pc = "edit" /\ UNCHANGED <<board, row, state, excused>> /\ Monitor!Rest /\ Monitor!Step(slot, "done")
      /\ Monitor!Upset
  BY DEF Monitor!EditFails
<1>2. Duty(o) = {}
  BY <1>1 DEF Duty
<1>3. QED
  BY <1>1, <1>2, AtWork, UpsetFacts, EndsQuietly

\* An operation that the step leaves with no duty and with knowledge of the row only.
LEMMA EditKeeps ==
  ASSUME MonitorInv, NEW slot \in Monitor!Slots, Monitor!publishEditedAnnouncement(slot) PROVE MonitorInv'
<1> DEFINE o == Monitor!The(slot)
           b == Monitor!The(Other(slot))
           held == IF state.obj = o.obj THEN state.msg ELSE NoMessage
<1>1. o.pc = "edit" /\ UNCHANGED <<board, row, state, excused, upsets>> /\ Monitor!Rest
  BY DEF Monitor!publishEditedAnnouncement, Monitor!Quiet
<1>2. Duty(o) = {} /\ o.obj # 0 /\ o.old = NoMessage /\ o.kind \in {"poll", "immediate"} /\ o.sees # NoGame
      /\ o.msg = NoMessage
  BY <1>1, AtWork DEF Duty, OperationTyped
<1>3. state.msg \in Monitor!Posted /\ held \in Monitor!Posted
  BY <1>1, AtWork, ObjFacts DEF Monitor!Posted
<1>4. Held \subseteq Held'
  BY <1>1, HeldStays DEF Monitor!Rest
<1>5. row # NoMessage \/ row \notin board
  BY <1>1, AtWork, MonitorAssumption
<1>6. CASE Monitor!Superseded(o) \/ held = NoMessage
  <2>1. Monitor!Step(slot, "done")
    BY <1>6 DEF Monitor!publishEditedAnnouncement
  <2>2. QED
    BY <1>1, <1>2, <2>1, AtWork, EndsQuietly
<1>7. CASE ~(Monitor!Superseded(o) \/ held = NoMessage)
  <2>1. state.obj = o.obj /\ held = state.msg
    BY <1>7
  <2>2. ASSUME NothingOrphaned, o.current = "yes", row \in board PROVE row \in Held \cup {held} \cup Duty(b)
    <3>1. EditSpokenFor(o, b)
      BY <1>1, <2>2, AtWork DEF OperationInv
    <3>2. QED
      BY <1>1, <2>1, <2>2, <3>1 DEF EditSpokenFor, Safe
  <2> HIDE DEF held
  <2>3. CASE Monitor!Becomes(slot, [o EXCEPT !.pc = "repost", !.old = held])
    <3> DEFINE q == [o EXCEPT !.pc = "repost", !.old = held]
    <3>1. IsOp(q, o, "repost", o.msg, held) /\ q.obj = o.obj
      BY <1>1, <1>3, AtWork, NextOld DEF Pcs
    <3>2. Monitor!Becomes(slot, q)
      BY <2>3
    <3> HIDE DEF q
    <3>3. OpMoves(slot, q)
      BY <1>1, <3>1, <3>2, MovesOn DEF IsOp
    <3>4. NextOp(slot, q)
      BY <1>1, <1>2, <3>1, AtWork DEF IsOp, NextOp, OperationTyped
    <3>5. TypesStay /\ Dutiful(o, q)
      BY <1>1, <1>2, AtWork DEF TypesStay, Dutiful
    <3>6. ASSUME NothingOrphaned PROVE OperationInv(o, b)'
      <4>1. o' = q /\ b' = b
        BY <3>3 DEF OpMoves
      <4>2. RowSpokenFor(o, b)'
        BY <1>1, <1>4, <2>2, <3>1, <3>6, <4>1 DEF RowSpokenFor, Safe, IsOp, Duty
      <4>3. QED
        BY <3>1, <4>1, <4>2 DEF OperationInv, IsOp, EditSpokenFor, Recorded, Removed, OfflineFinds
    <3>7. QED
      BY <1>1, <1>2, <3>3, <3>4, <3>5, <3>6, AtWork, QuietStep
  <2>4. CASE Monitor!Becomes(slot, [o EXCEPT !.pc = "persist", !.msg = held])
    <3> DEFINE q == [o EXCEPT !.pc = "persist", !.msg = held]
    <3>1. IsOp(q, o, "persist", held, o.old) /\ q.obj = o.obj
      BY <1>1, <1>3, AtWork, NextMsg DEF Pcs
    <3>2. Monitor!Becomes(slot, q)
      BY <2>4
    <3> HIDE DEF q
    <3>3. OpMoves(slot, q)
      BY <1>1, <3>1, <3>2, MovesOn DEF IsOp
    <3>4. NextOp(slot, q)
      BY <1>1, <1>2, <1>7, <3>1, AtWork DEF IsOp, NextOp, OperationTyped
    <3>5. TypesStay /\ Dutiful(o, q)
      BY <1>1, <1>2, AtWork DEF TypesStay, Dutiful
    <3>6. ASSUME NothingOrphaned PROVE OperationInv(o, b)'
      <4>1. o' = q /\ b' = b
        BY <3>3 DEF OpMoves
      <4>2. RowSpokenFor(o, b)'
        BY <1>1, <1>4, <2>2, <3>1, <3>6, <4>1 DEF RowSpokenFor, Safe, IsOp, Duty
      <4>3. Recorded(o)'
        BY <1>1, <2>1, <3>1, <4>1 DEF Recorded, Safe, IsOp
      <4>4. QED
        BY <3>1, <4>1, <4>2, <4>3 DEF OperationInv, IsOp, EditSpokenFor, Removed, OfflineFinds
    <3>7. QED
      BY <1>1, <1>2, <3>3, <3>4, <3>5, <3>6, AtWork, QuietStep
  <2>5. CASE held \notin board /\ Monitor!Step(slot, "repost")
    <3> DEFINE q == [o EXCEPT !.pc = "repost"]
    <3>1. OpMoves(slot, q) /\ IsOp(q, o, "repost", o.msg, o.old) /\ q.obj = o.obj
      BY <1>1, <2>5, AtWork, StepsOn DEF Pcs
    <3> HIDE DEF q
    <3>2. NextOp(slot, q)
      BY <1>1, <1>2, <3>1, AtWork DEF IsOp, NextOp, OperationTyped
    <3>3. TypesStay /\ Dutiful(o, q)
      BY <1>1, <1>2, AtWork DEF TypesStay, Dutiful
    <3>4. ASSUME NothingOrphaned PROVE OperationInv(o, b)'
      <4>1. o' = q /\ b' = b
        BY <3>1 DEF OpMoves
      <4>2. RowSpokenFor(o, b)'
        BY <1>1, <1>4, <2>2, <2>5, <3>1, <3>4, <4>1 DEF RowSpokenFor, Safe, IsOp, Duty
      <4>3. QED
        BY <3>1, <4>1, <4>2 DEF OperationInv, IsOp, EditSpokenFor, Recorded, Removed, OfflineFinds
    <3>5. QED
      BY <1>1, <1>2, <3>1, <3>2, <3>3, <3>4, AtWork, QuietStep
  <2>6. QED
    BY <1>7, <2>3, <2>4, <2>5 DEF Monitor!publishEditedAnnouncement, held
<1>8. QED
  BY <1>6, <1>7

LEMMA RepostKeeps == ASSUME MonitorInv, NEW slot \in Monitor!Slots, Monitor!Repost(slot) PROVE MonitorInv'
<1> DEFINE o == Monitor!The(slot)
           b == Monitor!The(Other(slot))
           m == Monitor!FreshMessage
           q == [o EXCEPT !.pc = "reposted", !.msg = m]
<1>1. /\ o.pc = "repost" /\ UNCHANGED <<row, state, excused, upsets>> /\ Monitor!Rest
      /\ m # NoMessage /\ board' = board \cup {m} /\ Monitor!Becomes(slot, q)
  BY DEF Monitor!Repost, Monitor!Quiet
<1>2. Duty(o) = {} /\ o.obj # 0 /\ o.kind \in {"poll", "immediate"} /\ o.msg = NoMessage
  BY <1>1, AtWork DEF Duty, OperationTyped
<1>3. m \in Messages \ (board \cup Names) /\ m \in Monitor!Posted
  BY <1>1, FreshMessageFacts
<1>4. IsOp(q, o, "reposted", m, o.old) /\ q.obj = o.obj
  BY <1>1, <1>3, AtWork, NextMsg DEF Pcs
<1> HIDE DEF m, q
<1>5. OpMoves(slot, q)
  BY <1>1, <1>4, MovesOn DEF IsOp
<1>6. NextOp(slot, q)
  BY <1>1, <1>2, <1>4, AtWork DEF IsOp, NextOp, OperationTyped
<1>7. Duty(q) = {m}
  BY <1>4 DEF IsOp, Duty
<1>8. Dutiful(o, q) /\ TypesStay
  BY <1>1, <1>2, <1>3, <1>7, AtWork DEF Dutiful, TypesStay
<1>9. Held \subseteq Held'
  BY <1>1, HeldStays DEF Monitor!Rest
<1>10. ASSUME NothingOrphaned PROVE OperationInv(o, b)'
  <2>1. o' = q /\ b' = b
    BY <1>5 DEF OpMoves
  <2>2. RowSpokenFor(o, b) /\ NoMessage \notin board
    BY <1>1, <1>10, AtWork, MonitorAssumption DEF OperationInv
  <2>3. RowSpokenFor(o, b)'
    <3>1. SUFFICES ASSUME o.current = "yes", row \in board' PROVE row \in Held' \cup {m, o.old} \cup Duty(b)
      BY <1>1, <1>4, <2>1 DEF RowSpokenFor, Safe, IsOp, Duty
    <3>2. row \in board
      BY <1>1, <1>3, <3>1, AtWork
    <3>3. row \in Held \cup {o.msg, o.old} \cup Duty(b)
      BY <1>1, <2>2, <3>1, <3>2 DEF RowSpokenFor, Safe
    <3>4. QED
      BY <1>2, <1>9, <2>2, <3>2, <3>3
  <2>4. QED
    BY <1>4, <2>1, <2>3 DEF OperationInv, IsOp, EditSpokenFor, Recorded, Removed, OfflineFinds
<1>11. QED
  BY <1>1, <1>2, <1>5, <1>6, <1>8, <1>10, AtWork, QuietStep

LEMMA RepostsKeeps == ASSUME MonitorInv, NEW slot \in Monitor!Slots, Monitor!Reposts(slot) PROVE MonitorInv'
<1> DEFINE o == Monitor!The(slot)
           b == Monitor!The(Other(slot))
           stale == ~Monitor!Superseded(o) /\ state.obj # o.obj
<1>1. o.pc = "reposted" /\ UNCHANGED <<board, row, upsets>> /\ Monitor!Rest
  BY DEF Monitor!Reposts
<1>2. Duty(o) = {o.msg} /\ o.obj # 0 /\ o.kind \in {"poll", "immediate"} /\ o.msg \in Messages
  BY <1>1, AtWork DEF Duty, OperationTyped, Monitor!Posted
<1>3. CASE Monitor!Superseded(o)
  <2> DEFINE q == [o EXCEPT !.pc = "discard"]
  <2>1. Monitor!Step(slot, "discard") /\ UNCHANGED <<state, excused>>
    BY <1>3 DEF Monitor!Reposts
  <2>2. OpMoves(slot, q) /\ IsOp(q, o, "discard", o.msg, o.old) /\ q.obj = o.obj
    BY <1>1, <2>1, AtWork, StepsOn DEF Pcs
  <2> HIDE DEF q
  <2>3. NextOp(slot, q)
    BY <1>1, <1>2, <2>2, AtWork DEF IsOp, NextOp, OperationTyped
  <2>4. Duty(q) = {o.msg}
    BY <2>2 DEF IsOp, Duty
  <2>5. Dutiful(o, q) /\ TypesStay
    BY <1>1, <1>2, <2>1, <2>4, AtWork DEF Dutiful, TypesStay
  <2>6. OperationInv(o, b)'
    BY <2>2 DEF OpMoves, OperationInv, IsOp, RowSpokenFor, EditSpokenFor, Recorded, Removed, OfflineFinds
  <2>7. QED
    BY <1>1, <1>2, <2>1, <2>2, <2>3, <2>4, <2>5, <2>6, AtWork, QuietStep
<1>4. CASE ~Monitor!Superseded(o)
  <2> DEFINE pc == IF o.old = NoMessage THEN "persist" ELSE "drop"
             q == [o EXCEPT !.pc = pc]
  <2>1. /\ Monitor!Step(slot, pc)
        /\ state' = IF stale THEN state ELSE [state EXCEPT !.msg = o.msg]
        /\ excused' = IF stale THEN excused \cup {o.msg} ELSE excused
    BY <1>4 DEF Monitor!Reposts
  <2>2. OpMoves(slot, q) /\ IsOp(q, o, pc, o.msg, o.old) /\ q.obj = o.obj
    BY <1>1, <2>1, AtWork, StepsOn DEF Pcs
  <2>3. pc \in {"persist", "drop"} /\ (pc = "drop" <=> o.old # NoMessage)
    OBVIOUS
  <2> HIDE DEF q, pc
  <2>4. NextOp(slot, q)
    BY <1>1, <1>2, <2>2, <2>3, AtWork DEF IsOp, NextOp, OperationTyped
  <2>5. {o.msg, o.old} \subseteq Duty(q) \cup {NoMessage}
    BY <2>2, <2>3 DEF IsOp, Duty
  <2>6. state' \in Monitor!States /\ (state'.msg = o.msg \/ (stale /\ o.msg \in excused'))
    <3>1. CASE stale
      BY <2>1, <3>1, <1>1, AtWork
    <3>2. CASE ~stale
      <4>1. state # Monitor!NoState
        BY <1>2, <1>4, <3>2, StateFacts
      <4>2. QED
        BY <1>1, <2>1, <3>2, <4>1, AtWork, LiveFacts
    <3>3. QED
      BY <3>1, <3>2
  <2>7. excused \subseteq excused' /\ excused' \subseteq Messages
    BY <1>1, <1>2, <2>1, AtWork
  <2>8. Dutiful(o, q) /\ TypesStay
    BY <1>1, <1>2, <2>5, <2>6, <2>7, AtWork, MonitorAssumption DEF Dutiful, TypesStay
  <2>9. Held \subseteq Held' /\ excused' \subseteq Held'
    BY <1>1, <2>7, HeldStays DEF Monitor!Rest
  <2>10. escaped = "no" => o.current = "yes"
    BY <1>1, <1>4, AtWork, ActsOrNot
  <2>11. ASSUME NothingOrphaned, o.current = "yes", row \in board PROVE row \in Held' \cup Duty(q) \cup Duty(b)
    <3>1. RowSpokenFor(o, b) /\ row # NoMessage
      BY <1>1, <2>11, AtWork, MonitorAssumption DEF OperationInv
    <3>2. QED
      BY <1>1, <2>5, <2>9, <2>11, <3>1 DEF RowSpokenFor, Safe
  <2>12. ASSUME NothingOrphaned PROVE OperationInv(o, b)'
    <3>1. o' = q /\ b' = b
      BY <2>2 DEF OpMoves
    <3>2. RowSpokenFor(o, b)'
      <4>1. SUFFICES ASSUME o.current = "yes", row \in board PROVE row \in Held' \cup {o.msg, o.old} \cup Duty(b)
        BY <1>1, <2>2, <2>3, <3>1 DEF RowSpokenFor, Safe, IsOp, Duty
      <4>2. Duty(q) \subseteq {o.msg, o.old}
        BY <2>2, <2>3 DEF Duty, IsOp
      <4>3. QED
        BY <2>11, <2>12, <4>1, <4>2
    <3>3. Recorded(o)'
      BY <2>2, <2>6, <2>9, <3>1 DEF Recorded, Safe, IsOp
    <3>4. QED
      BY <2>2, <2>3, <3>1, <3>2, <3>3 DEF OperationInv, IsOp, EditSpokenFor, Removed, OfflineFinds
  <2>13. (escaped = "no" /\ NothingOrphaned)
           => (row \in board => row \in Held' \cup {state'.msg} \cup Duty(q) \cup Duty(b))
    BY <2>10, <2>11
  <2>14. QED
    BY <1>1, <2>2, <2>4, <2>8, <2>10, <2>12, <2>13, AtWork, StateWritten
<1>5. QED
  BY <1>3, <1>4

LEMMA DropOldKeeps == ASSUME MonitorInv, NEW slot \in Monitor!Slots, Monitor!DropOld(slot) PROVE MonitorInv'
<1> DEFINE o == Monitor!The(slot)
           b == Monitor!The(Other(slot))
           q == [o EXCEPT !.pc = "persist", !.old = NoMessage]
<1>1. o.pc = "drop" /\ UNCHANGED <<row, state>> /\ Monitor!Rest /\ Monitor!Becomes(slot, q)
  BY DEF Monitor!DropOld
<1>2. Duty(o) = {o.msg, o.old} /\ o.obj = o.obj /\ o.kind \in {"poll", "immediate"} /\ o.msg \in Messages /\ o.old \in Messages
  BY <1>1, AtWork DEF Duty, OperationTyped, Monitor!Posted
<1>3. IsOp(q, o, "persist", o.msg, NoMessage) /\ q.obj = o.obj
  BY <1>1, AtWork, NextOld DEF Pcs, Monitor!Posted
<1> HIDE DEF q
<1>4. OpMoves(slot, q)
  BY <1>1, <1>3, MovesOn DEF IsOp
<1>5. NextOp(slot, q)
  BY <1>1, <1>2, <1>3, AtWork DEF IsOp, NextOp, OperationTyped
<1>6. Duty(q) = {o.msg}
  BY <1>3 DEF IsOp, Duty
<1>7. /\ board' \subseteq board /\ excused \subseteq excused' /\ excused' \subseteq Messages
      /\ upsets' \in 0 .. MaxUpsets
      /\ o.old \in board' => o.old \in excused'
  <2>1. CASE board' = board \ {o.old} /\ UNCHANGED <<excused, upsets>>
    BY <1>1, <2>1, AtWork
  <2>2. CASE Monitor!Upset /\ excused' = excused \cup {o.old} /\ UNCHANGED board
    BY <1>1, <1>2, <2>2, AtWork, UpsetFacts
  <2>3. QED
    BY <2>1, <2>2 DEF Monitor!DropOld
<1>8. Dutiful(o, q) /\ TypesStay
  BY <1>1, <1>2, <1>6, <1>7, AtWork DEF Dutiful, TypesStay
<1>9. Held \subseteq Held' /\ excused' \subseteq Held'
  BY <1>1, <1>7, HeldStays DEF Monitor!Rest
<1>10. ASSUME NothingOrphaned PROVE OperationInv(o, b)'
  <2>1. o' = q /\ b' = b /\ phase' = phase
    BY <1>1, <1>4 DEF OpMoves, Monitor!Rest
  <2>2. RowSpokenFor(o, b) /\ Recorded(o)
    BY <1>1, <1>10, AtWork DEF OperationInv
  <2>3. RowSpokenFor(o, b)'
    <3>1. SUFFICES ASSUME o.current = "yes", row \in board' PROVE row \in Held' \cup {o.msg} \cup Duty(b)
      BY <1>1, <1>3, <2>1 DEF RowSpokenFor, Safe, IsOp, Duty
    <3>2. row \in Held \cup {o.msg, o.old} \cup Duty(b)
      BY <1>1, <1>7, <2>2, <3>1 DEF RowSpokenFor, Safe
    <3>3. QED
      BY <1>7, <1>9, <3>1, <3>2
  <2>4. Recorded(o)'
    BY <1>1, <1>3, <1>7, <1>9, <2>1, <2>2 DEF Recorded, Safe, IsOp, Loaded
  <2>5. QED
    BY <1>3, <2>1, <2>3, <2>4 DEF OperationInv, IsOp, EditSpokenFor, Removed, OfflineFinds
<1>11. QED
  BY <1>1, <1>2, <1>4, <1>5, <1>6, <1>7, <1>8, <1>10, AtWork, QuietStep

-----------------------------------------------------------------------------
(* The offline check                                                       *)

LEMMA OfflineFailsKeeps ==
  ASSUME MonitorInv, NEW slot \in Monitor!Slots, Monitor!OfflineCheckFails(slot) PROVE MonitorInv'
<1> DEFINE o == Monitor!The(slot)
<1>1. /\ o.pc \in {"fetch", "clear"} /\ UNCHANGED <<board, row, excused>> /\ Monitor!Rest /\ Monitor!Step(slot, "done")
      /\ Monitor!Upset /\ state' = Monitor!Released(o, state)
  BY DEF Monitor!OfflineCheckFails
<1>2. Duty(o) = {}
  BY <1>1 DEF Duty
<1>3. QED
  BY <1>1, <1>2, AtWork, UpsetFacts, ReleasedFacts, EndsQuietly

\* The check is over and there is nothing to forget: no message, or one that is not in Discord any more.
LEMMA StateForgotten ==
  ASSUME MonitorInv, NEW slot \in Monitor!Slots, Monitor!The(slot).pc \in {"fetch", "forget"},
         Monitor!Step(slot, "done"), Monitor!Rest, UNCHANGED <<board, row, excused, upsets>>,
         state' = Monitor!NoState, ~Monitor!Superseded(Monitor!The(slot)),
         (escaped = "no" /\ NothingOrphaned /\ state.msg \in board) => state.msg \in excused
  PROVE  MonitorInv'
<1> DEFINE o == Monitor!The(slot)
           b == Monitor!The(Other(slot))
<1>1. Duty(o) = {} /\ Duty(Monitor!NoOp) = {}
  BY NoOpFacts DEF Duty
<1>2. OpMoves(slot, Monitor!NoOp)
  BY AtWork, Finishes
<1>3. TypesStay /\ Dutiful(o, Monitor!NoOp)
  BY <1>1, AtWork, StateFacts DEF TypesStay, Dutiful
<1>4. escaped = "no" => o.current = "yes"
  BY AtWork, ActsOrNot
<1>5. MonitorTypes /\ MonitorTypes'
  BY <1>2, <1>3, AtWork, StepInTypes
<1>6. ASSUME escaped = "no" PROVE NothingOrphaned'
  <2>1. NothingOrphaned /\ LateInv
    BY <1>6 DEF MonitorInv, NothingOrphaned
  <2>2. Covered'
    BY <1>2, <1>3, <2>1, CoveredStep DEF RowLeft, NothingOrphaned
  <2>3. RowIsKept'
    <3>1. Duty(running) \cup Duty(late) = Duty(b) /\ Duty(running') \cup Duty(late') = Duty(b)
      BY <1>1, <1>2 DEF Monitor!Slots, Monitor!The, Other, OpMoves
    <3>2. Safe(row, {state.msg} \cup Duty(running) \cup Duty(late))'
             <=> (row' \in board' => row' \in Held' \cup {state'.msg} \cup Duty(running') \cup Duty(late'))
      BY DEF Safe, Duty
    <3>3. Held \subseteq Held' /\ excused' \subseteq Held'
      BY HeldStays DEF Monitor!Rest
    <3>4. ASSUME Loaded, row \in board PROVE row \in Held' \cup Duty(b)
      <4>1. row \in Held \cup {state.msg} \cup Duty(b)
        BY <2>1, <3>1, <3>4 DEF NothingOrphaned, RowIsKept, Safe
      <4>2. QED
        BY <1>6, <2>1, <3>3, <3>4, <4>1
    <3>5. QED
      BY <3>1, <3>2, <3>4 DEF RowIsKept, Loaded, Monitor!Rest
  <2>4. LateInv'
    BY <1>2, <1>5, <2>1, AtWork, LateStep
  <2>5. OperationInv(b, o)'
    BY <1>2, <1>3, <1>4, <1>5, <1>6, <2>1, AtWork, OtherStep
  <2>6. QED
    BY <1>2, <2>1, <2>2, <2>3, <2>4, <2>5, NoOpInv, StepKeeps
<1>7. QED
  BY <1>5, <1>6 DEF MonitorInv, Monitor!Rest

LEMMA OfflineSeesKeeps ==
  ASSUME MonitorInv, NEW slot \in Monitor!Slots, Monitor!OfflineCheckSees(slot) PROVE MonitorInv'
<1> DEFINE o == Monitor!The(slot)
           b == Monitor!The(Other(slot))
<1>1. o.pc = "fetch" /\ UNCHANGED <<board, row, excused, upsets>> /\ Monitor!Rest
  BY DEF Monitor!OfflineCheckSees, Monitor!Quiet
<1>2. Duty(o) = {} /\ o.old = NoMessage /\ o.kind # "none"
  BY <1>1, AtWork DEF Duty, OperationTyped
<1>3. CASE Monitor!Step(slot, "done") /\ state' = Monitor!Released(o, state)
  BY <1>1, <1>2, <1>3, AtWork, ReleasedFacts, EndsQuietly
<1>4. CASE /\ ~Monitor!Superseded(o) /\ state.msg = NoMessage
           /\ Monitor!Step(slot, "done") /\ state' = Monitor!NoState
  <2>1. NoMessage \notin board
    BY <1>1, AtWork, MonitorAssumption
  <2>2. QED
    BY <1>1, <1>4, <2>1, StateForgotten
<1>5. CASE /\ state.msg # NoMessage /\ UNCHANGED state
           /\ Monitor!Becomes(slot, [o EXCEPT !.pc = "delete", !.msg = state.msg])
  <2> DEFINE q == [o EXCEPT !.pc = "delete", !.msg = state.msg]
  <2>1. state.msg \in Monitor!Posted
    BY <1>1, AtWork, ObjFacts
  <2>2. IsOp(q, o, "delete", state.msg, o.old) /\ q.obj = o.obj
    BY <1>1, <2>1, AtWork, NextMsg DEF Pcs
  <2>3. Monitor!Becomes(slot, q)
    BY <1>5
  <2> HIDE DEF q
  <2>4. OpMoves(slot, q)
    BY <1>1, <2>2, <2>3, MovesOn DEF IsOp
  <2>5. NextOp(slot, q)
    BY <1>1, <1>2, <1>5, <2>2, AtWork DEF IsOp, NextOp, OperationTyped
  <2>6. TypesStay /\ Dutiful(o, q)
    BY <1>1, <1>2, <1>5, AtWork DEF TypesStay, Dutiful
  <2>7. OperationInv(o, b)'
    BY <1>5, <2>2, <2>4 DEF OpMoves, OperationInv, IsOp, RowSpokenFor, EditSpokenFor, Recorded, Removed, OfflineFinds
  <2>8. QED
    BY <1>1, <1>2, <1>5, <2>4, <2>5, <2>6, <2>7, AtWork, QuietStep
<1>6. QED
  BY <1>3, <1>4, <1>5 DEF Monitor!OfflineCheckSees

LEMMA DeleteKeeps ==
  ASSUME MonitorInv, NEW slot \in Monitor!Slots, Monitor!deleteAnnouncement(slot) PROVE MonitorInv'
<1> DEFINE o == Monitor!The(slot)
           b == Monitor!The(Other(slot))
           q == [o EXCEPT !.pc = "clear"]
<1>1. o.pc = "delete" /\ UNCHANGED <<row, state>> /\ Monitor!Rest /\ Monitor!Step(slot, "clear")
  BY DEF Monitor!deleteAnnouncement
<1>2. Duty(o) = {} /\ o.msg \in Messages /\ o.kind # "none" /\ o.old = NoMessage
  BY <1>1, AtWork DEF Duty, OperationTyped, Monitor!Posted
<1>3. OpMoves(slot, q) /\ IsOp(q, o, "clear", o.msg, o.old) /\ q.obj = o.obj
  BY <1>1, AtWork, StepsOn DEF Pcs
<1> HIDE DEF q
<1>4. NextOp(slot, q)
  BY <1>1, <1>2, <1>3, AtWork DEF IsOp, NextOp, OperationTyped
<1>5. /\ board' \subseteq board /\ excused \subseteq excused' /\ excused' \subseteq Messages
      /\ upsets' \in 0 .. MaxUpsets
      /\ o.msg \notin board' \/ o.msg \in excused'
  <2>1. CASE board' = board \ {o.msg} /\ UNCHANGED <<excused, upsets>>
    BY <1>1, <2>1, AtWork
  <2>2. CASE Monitor!Upset /\ excused' = excused \cup {o.msg} /\ UNCHANGED board
    BY <1>1, <1>2, <2>2, AtWork, UpsetFacts
  <2>3. QED
    BY <2>1, <2>2 DEF Monitor!deleteAnnouncement
<1>6. Dutiful(o, q) /\ TypesStay
  BY <1>1, <1>2, <1>5, AtWork DEF Dutiful, TypesStay
<1>7. ASSUME NothingOrphaned PROVE OperationInv(o, b)'
  <2>1. OfflineFinds(o)
    BY <1>1, <1>7, AtWork DEF OperationInv
  <2>2. QED
    BY <1>1, <1>3, <1>5, <2>1 DEF OpMoves, OperationInv, IsOp, RowSpokenFor, EditSpokenFor, Recorded, Removed, OfflineFinds
<1>8. QED
  BY <1>1, <1>2, <1>3, <1>4, <1>5, <1>6, <1>7, AtWork, QuietStep

\* The row is cleared of a message that is not in Discord any more.
LEMMA RowCleared ==
  ASSUME MonitorInv, NEW slot \in Monitor!Slots, Monitor!The(slot) # Monitor!NoOp, NEW q, OpMoves(slot, q),
         q = Monitor!NoOp \/ NextOp(slot, q), UNCHANGED <<board, state, excused, upsets>>,
         row' \in {row, NoMessage}, Duty(Monitor!The(slot)) = {}, Monitor!The(slot).current = "yes",
         row' # row => row \notin board \/ row \in excused,
         (NothingOrphaned /\ q # Monitor!NoOp)
            => OperationInv(Monitor!The(slot), Monitor!The(Other(slot)))'
  PROVE  MonitorInv'
<1>0. /\ MonitorTypes /\ board \subseteq Messages /\ row \in Monitor!Posted /\ state \in Monitor!States
      /\ excused \subseteq Messages /\ upsets \in 0 .. MaxUpsets
  BY DEF MonitorInv, MonitorTypes, Monitor!TypeOK
<1>1. TypesStay /\ Dutiful(Monitor!The(slot), q) /\ NoMessage \notin board
  BY <1>0, MonitorAssumption DEF TypesStay, Dutiful, Monitor!Posted
<1>2. MonitorTypes'
  BY <1>0, <1>1, StepInTypes
<1>3. Held \subseteq Held' /\ excused' \subseteq Held' /\ escaped' = escaped /\ phase' = phase
  BY HeldStays DEF OpMoves, Monitor!Rest
<1>4. ASSUME escaped = "no" PROVE NothingOrphaned'
  <2>1. NothingOrphaned /\ LateInv
    BY <1>4 DEF MonitorInv, NothingOrphaned
  <2>2. Covered'
    <3>1. RowLeft(slot, q)
      BY <1>3 DEF RowLeft
    <3>2. QED
      BY <1>1, <2>1, <3>1, CoveredStep DEF NothingOrphaned
  <2>3. RowIsKept'
    <3>1. Duty(running) \cup Duty(late) = Duty(Monitor!The(Other(slot)))
      BY DEF Monitor!Slots, Monitor!The, Other
    <3>2. Duty(running') \cup Duty(late') = Duty(q) \cup Duty(Monitor!The(Other(slot)))
      BY DEF Monitor!Slots, Monitor!The, Other, OpMoves
    <3>3. Safe(row, {state.msg} \cup Duty(running) \cup Duty(late))'
             <=> (row' \in board' => row' \in Held' \cup {state'.msg} \cup Duty(running') \cup Duty(late'))
      BY DEF Safe, Duty
    <3>4. (Loaded /\ row \in board) => row \in Held \cup {state.msg} \cup Duty(Monitor!The(Other(slot)))
      BY <2>1, <3>1 DEF NothingOrphaned, RowIsKept, Safe
    <3>5. (Loaded /\ row' \in board') => row' \in Held' \cup {state'.msg} \cup Duty(running') \cup Duty(late')
      BY <1>1, <1>3, <3>2, <3>4
    <3>6. QED
      BY <1>3, <3>3, <3>5 DEF RowIsKept, Loaded
  <2>4. LateInv'
    BY <1>0, <2>1, LateStep DEF NextOp
  <2>5. OperationInv(Monitor!The(Other(slot)), Monitor!The(slot))'
    BY <1>0, <1>1, <2>1, OtherStep
  <2>6. OperationInv(Monitor!The(slot), Monitor!The(Other(slot)))'
    <3>1. CASE q = Monitor!NoOp
      BY <3>1, NoOpInv
    <3>2. CASE q # Monitor!NoOp
      BY <2>1, <3>2
    <3>3. QED
      BY <3>1, <3>2
  <2>7. QED
    BY <2>1, <2>2, <2>3, <2>4, <2>5, <2>6, StepKeeps
<1>5. QED
  BY <1>2, <1>3, <1>4 DEF MonitorInv

LEMMA ClearKeeps ==
  ASSUME MonitorInv, NEW slot \in Monitor!Slots, Monitor!clearStreamerLive(slot) PROVE MonitorInv'
<1> DEFINE o == Monitor!The(slot)
           b == Monitor!The(Other(slot))
           q == [o EXCEPT !.pc = "forget"]
<1>1. o.pc = "clear" /\ UNCHANGED <<board, excused, upsets>> /\ Monitor!Rest
  BY DEF Monitor!clearStreamerLive, Monitor!Quiet
<1>2. Duty(o) = {} /\ o.kind # "none"
  BY <1>1, AtWork DEF Duty, OperationTyped
<1>3. CASE Monitor!Superseded(o)
  <2>1. Monitor!Step(slot, "done") /\ state' = Monitor!Released(o, state) /\ UNCHANGED row
    BY <1>3 DEF Monitor!clearStreamerLive
  <2>2. QED
    BY <1>1, <1>2, <2>1, AtWork, ReleasedFacts, EndsQuietly
<1>4. CASE ~Monitor!Superseded(o)
  <2>1. /\ row' = IF row = o.msg THEN NoMessage ELSE row
        /\ Monitor!Step(slot, "forget") /\ UNCHANGED state
    BY <1>4 DEF Monitor!clearStreamerLive
  <2>2. OpMoves(slot, q) /\ IsOp(q, o, "forget", o.msg, o.old) /\ q.obj = o.obj
    BY <1>1, <2>1, AtWork, StepsOn DEF Pcs
  <2> HIDE DEF q
  <2>3. NextOp(slot, q)
    BY <1>1, <1>2, <2>2, AtWork DEF IsOp, NextOp, OperationTyped
  <2>4. Duty(q) = {}
    BY <2>2 DEF IsOp, Duty
  <2>5. ASSUME NothingOrphaned PROVE OperationInv(o, b)' /\ Removed(o)
    <3>1. OfflineFinds(o) /\ Removed(o)
      BY <1>1, <2>5, AtWork DEF OperationInv
    <3>2. QED
      BY <1>1, <2>1, <2>2, <3>1 DEF OpMoves, OperationInv, IsOp, RowSpokenFor, EditSpokenFor, Recorded, Removed, OfflineFinds
  <2>6. CASE escaped # "no"
    <3>1. TypesStay
      BY <1>1, <2>1, AtWork DEF TypesStay, Monitor!Posted
    <3>2. QED
      BY <1>1, <2>2, <2>3, <2>6, <3>1, AtWork, StepInTypes DEF MonitorInv, OpMoves, Monitor!Rest
  <2>7. CASE escaped = "no"
    <3>1. o.current = "yes"
      BY <1>1, <1>4, <2>7, AtWork, ActsOrNot
    <3>2. NothingOrphaned
      BY <2>7 DEF MonitorInv
    <3>3. row' # row => row \notin board \/ row \in excused
      BY <1>1, <2>1, <2>5, <3>2 DEF Removed
    <3>4. row' \in {row, NoMessage}
      BY <2>1
    <3>5. QED
      BY <1>1, <1>2, <2>1, <2>2, <2>3, <2>5, <3>1, <3>3, <3>4, AtWork, RowCleared
  <2>8. QED
    BY <2>6, <2>7
<1>5. QED
  BY <1>3, <1>4

LEMMA ForgetKeeps == ASSUME MonitorInv, NEW slot \in Monitor!Slots, Monitor!Forget(slot) PROVE MonitorInv'
<1> DEFINE o == Monitor!The(slot)
<1>1. o.pc = "forget" /\ UNCHANGED <<board, row, excused, upsets>> /\ Monitor!Rest /\ Monitor!Step(slot, "done")
  BY DEF Monitor!Forget, Monitor!Quiet
<1>2. Duty(o) = {}
  BY <1>1 DEF Duty
<1>3. CASE Monitor!Superseded(o)
  <2>1. state' = Monitor!Released(o, state)
    BY <1>3 DEF Monitor!Forget
  <2>2. QED
    BY <1>1, <1>2, <2>1, AtWork, ReleasedFacts, EndsQuietly
<1>4. CASE ~Monitor!Superseded(o)
  <2>1. state' = Monitor!NoState
    BY <1>4 DEF Monitor!Forget
  <2>2. NoMessage \notin board
    BY <1>1, AtWork, MonitorAssumption
  <2>3. ASSUME escaped = "no", NothingOrphaned, state.msg \in board PROVE state.msg \in excused
    <3>1. o.current = "yes"
      BY <1>1, <1>4, <2>3, AtWork, ActsOrNot
    <3>2. OfflineFinds(o) /\ Removed(o)
      BY <1>1, <2>3, AtWork DEF OperationInv
    <3>3. QED
      BY <1>1, <2>2, <2>3, <3>1, <3>2 DEF OfflineFinds, Removed
  <2>4. QED
    BY <1>1, <1>4, <2>1, <2>3, StateForgotten
<1>5. QED
  BY <1>3, <1>4

-----------------------------------------------------------------------------
(* The startup pass                                                        *)

\* Once a check of EventSub's has timed out, only the types are of interest.
LEMMA EscapedStep ==
  ASSUME MonitorInv, NEW slot \in Monitor!Slots, Monitor!The(slot) # Monitor!NoOp, NEW q, OpMoves(slot, q),
         q = Monitor!NoOp \/ NextOp(slot, q), TypesStay, escaped # "no"
  PROVE  MonitorInv'
  BY StepInTypes DEF MonitorInv, OpMoves, Monitor!Rest

\* A startup pass that was superseded had its message given up when it timed out.
LEMMA SupersededStartup ==
  ASSUME MonitorInv, escaped = "no", NEW slot \in Monitor!Slots,
         Monitor!The(slot).pc \in {"startEdit", "startPersist", "startDelete"},
         Monitor!Superseded(Monitor!The(slot)) \/ Monitor!The(slot).current # "yes"
  PROVE  Monitor!The(slot).msg \in excused
<1>1. Monitor!The(slot).kind = "startup"
  BY AtWork DEF OperationTyped
<1>2. LateInv /\ MonitorTypes
  BY DEF MonitorInv, NothingOrphaned
<1>3. slot = "late"
  BY <1>2, AtWork, SupersededFacts
<1>4. QED
  BY <1>1, <1>2, <1>3 DEF LateInv, Monitor!The

LEMMA ResumedFacts ==
  ASSUME MonitorInv, NEW slot \in Monitor!Slots, Monitor!The(slot).pc \in {"startEdit", "startPersist"}
  PROVE  /\ Monitor!Resumed(Monitor!The(slot)) \in Monitor!States
         /\ Monitor!Resumed(Monitor!The(slot)).msg = Monitor!The(slot).msg
<1> DEFINE o == Monitor!The(slot)
<1>1. o.obj = 0 /\ o.sees \in Games /\ o.msg \in Monitor!Posted
  BY AtWork DEF OperationTyped, Monitor!Ops, Monitor!Playing
<1>2. Monitor!FreshObject \in Monitor!Objects
  BY <1>1, AtWork, FreshObjectFacts
<1>3. QED
  BY <1>1, <1>2, StateFacts DEF Monitor!Resumed

LEMMA StartEditKeeps ==
  ASSUME MonitorInv, NEW slot \in Monitor!Slots, Monitor!tryEditStartupMessage(slot) PROVE MonitorInv'
<1> DEFINE o == Monitor!The(slot)
           b == Monitor!The(Other(slot))
<1>1. o.pc = "startEdit" /\ UNCHANGED <<board, row, upsets>> /\ Monitor!Rest
  BY DEF Monitor!tryEditStartupMessage
<1>2. /\ Duty(o) = {o.msg} /\ o.kind = "startup" /\ o.old = NoMessage /\ o.obj = 0 /\ o.sees # NoGame
      /\ o.msg # NoMessage
  BY <1>1, AtWork DEF Duty, OperationTyped
<1>3. CASE Monitor!Superseded(o) \/ o.msg \notin board
  <2> DEFINE q == [o EXCEPT !.pc = "post", !.msg = NoMessage]
  <2>1. Monitor!Becomes(slot, q) /\ UNCHANGED <<state, excused>>
    BY <1>3 DEF Monitor!tryEditStartupMessage
  <2>2. IsOp(q, o, "post", NoMessage, o.old) /\ q.obj = o.obj
    BY <1>1, AtWork, NextMsg DEF Pcs, Monitor!Posted
  <2> HIDE DEF q
  <2>3. OpMoves(slot, q)
    BY <1>1, <2>1, <2>2, MovesOn DEF IsOp
  <2>4. NextOp(slot, q)
    BY <1>1, <1>2, <2>2, AtWork DEF IsOp, NextOp, OperationTyped
  <2>5. TypesStay
    BY <1>1, <2>1, AtWork DEF TypesStay
  <2>6. CASE escaped # "no"
    BY <1>1, <2>3, <2>4, <2>5, <2>6, AtWork, EscapedStep
  <2>7. CASE escaped = "no"
    <3>1. o.msg \in board => o.msg \in excused
      BY <1>1, <1>3, <2>7, SupersededStartup
    <3>2. Dutiful(o, q)
      BY <1>1, <1>2, <2>1, <3>1 DEF Dutiful
    <3>3. OperationInv(o, b)'
      BY <1>2, <2>2, <2>3 DEF OpMoves, OperationInv, IsOp, RowSpokenFor, EditSpokenFor, Recorded, Removed, OfflineFinds
    <3>4. QED
      BY <1>1, <1>2, <2>1, <2>3, <2>4, <2>5, <3>1, <3>2, <3>3, AtWork, QuietStep
  <2>8. QED
    BY <2>6, <2>7
<1>4. CASE ~(Monitor!Superseded(o) \/ o.msg \notin board)
  <2> DEFINE q == [o EXCEPT !.pc = "startPersist"]
  <2>1. Monitor!Step(slot, "startPersist") /\ state' = Monitor!Resumed(o) /\ excused' = excused \cup Monitor!Forgotten(o)
    BY <1>4 DEF Monitor!tryEditStartupMessage
  <2>2. OpMoves(slot, q) /\ IsOp(q, o, "startPersist", o.msg, o.old) /\ q.obj = o.obj
    BY <1>1, <2>1, AtWork, StepsOn DEF Pcs
  <2> HIDE DEF q
  <2>3. NextOp(slot, q)
    BY <1>1, <1>2, <2>2, AtWork DEF IsOp, NextOp, OperationTyped
  <2>4. Duty(q) = {o.msg}
    BY <2>2 DEF IsOp, Duty
  <2>5. state' \in Monitor!States /\ state'.msg = o.msg
    BY <1>1, <2>1, ResumedFacts
  <2>6. state.msg \in Monitor!Posted
    BY <1>1, AtWork, ObjFacts
  <2>7. Monitor!Forgotten(o) \subseteq Messages /\ row \in Monitor!Forgotten(o) \cup {NoMessage, o.msg}
    BY <1>1, <1>2, <2>6, AtWork, ForgottenFacts
  <2>8. Dutiful(o, q) /\ TypesStay
    BY <1>1, <1>2, <2>1, <2>4, <2>5, <2>7, AtWork DEF Dutiful, TypesStay
  <2>9. excused' \subseteq Held' /\ NoMessage \notin board
    BY <1>1, <2>8, HeldStays, AtWork, MonitorAssumption DEF Monitor!Rest, Dutiful
  <2>10. row \in board => row \in Held' \cup {state'.msg}
    BY <2>1, <2>5, <2>7, <2>9
  <2>11. OperationInv(o, b)'
    BY <2>2, <2>5 DEF OpMoves, OperationInv, IsOp, RowSpokenFor, EditSpokenFor, Recorded, Safe, Removed, OfflineFinds
  <2>12. escaped = "no" => o.current = "yes"
    BY <1>1, <1>4, AtWork, ActsOrNot
  <2>13. QED
    BY <1>1, <2>2, <2>3, <2>8, <2>10, <2>11, <2>12, AtWork, StateWritten
<1>5. QED
  BY <1>3, <1>4

LEMMA StartEditFailsKeeps ==
  ASSUME MonitorInv, NEW slot \in Monitor!Slots, Monitor!StartupEditFails(slot) PROVE MonitorInv'
<1> DEFINE o == Monitor!The(slot)
<1>1. /\ o.pc \in {"startEdit", "startPersist"} /\ UNCHANGED <<board, row>> /\ Monitor!Rest /\ Monitor!Upset
      /\ Monitor!Step(slot, "done")
  BY DEF Monitor!StartupEditFails
<1>2. Duty(o) = {o.msg} /\ o.kind = "startup" /\ o.msg \in Messages
  BY <1>1, AtWork DEF Duty, OperationTyped, Monitor!Posted
<1>3. upsets' \in 0 .. MaxUpsets /\ OpMoves(slot, Monitor!NoOp)
  BY <1>1, AtWork, UpsetFacts, Finishes
<1>4. CASE Monitor!Superseded(o)
  <2>1. UNCHANGED <<state, excused>>
    BY <1>4 DEF Monitor!StartupEditFails
  <2>2. CASE escaped # "no"
    BY <1>1, <1>3, <2>1, <2>2, AtWork, EscapedStep DEF TypesStay
  <2>3. CASE escaped = "no"
    BY <1>1, <1>2, <1>3, <1>4, <2>1, <2>3, AtWork, SupersededStartup, EndsQuietly
  <2>4. QED
    BY <2>2, <2>3
<1>5. CASE ~Monitor!Superseded(o)
  <2>1. state' = Monitor!Resumed(o) /\ excused' = excused \cup Monitor!Forgotten(o) \cup ({o.msg} \ {row})
    BY <1>5 DEF Monitor!StartupEditFails
  <2>2. state' \in Monitor!States /\ state'.msg = o.msg
    BY <1>1, <2>1, ResumedFacts
  <2>3. state.msg \in Monitor!Posted
    BY <1>1, AtWork, ObjFacts
  <2>4. Monitor!Forgotten(o) \subseteq Messages /\ row \in Monitor!Forgotten(o) \cup {NoMessage, o.msg}
    BY <1>1, <1>2, <2>3, AtWork, ForgottenFacts
  <2>5. Dutiful(o, Monitor!NoOp) /\ TypesStay
    BY <1>1, <1>2, <1>3, <2>1, <2>2, <2>4, AtWork DEF Dutiful, TypesStay
  <2>6. excused' \subseteq Held' /\ NoMessage \notin board
    BY <1>1, <2>5, HeldStays, AtWork, MonitorAssumption DEF Monitor!Rest, Dutiful
  <2>7. row \in board => row \in Held' \cup {state'.msg}
    BY <2>1, <2>2, <2>4, <2>6
  <2>8. escaped = "no" => o.current = "yes"
    BY <1>1, <1>5, AtWork, ActsOrNot
  <2>9. QED
    BY <1>1, <1>3, <2>5, <2>7, <2>8, AtWork, StateWritten
<1>6. QED
  BY <1>4, <1>5

LEMMA StartPersistsKeeps ==
  ASSUME MonitorInv, NEW slot \in Monitor!Slots, Monitor!StartupPersists(slot) PROVE MonitorInv'
<1> DEFINE o == Monitor!The(slot)
           b == Monitor!The(Other(slot))
<1>1. /\ o.pc = "startPersist" /\ UNCHANGED <<board, state, upsets>> /\ Monitor!Rest /\ Monitor!Step(slot, "done")
      /\ row' = o.msg /\ excused' = excused \cup Monitor!Forgotten(o)
  BY DEF Monitor!StartupPersists
<1>2. Duty(o) = {o.msg} /\ o.kind = "startup" /\ o.msg \in Messages
  BY <1>1, AtWork DEF Duty, OperationTyped, Monitor!Posted
<1>3. OpMoves(slot, Monitor!NoOp)
  BY <1>1, AtWork, Finishes
<1>4. state.msg \in Monitor!Posted
  BY <1>1, AtWork, ObjFacts
<1>5. Monitor!Forgotten(o) \subseteq Messages /\ row \in Monitor!Forgotten(o) \cup {NoMessage, o.msg}
  BY <1>1, <1>2, <1>4, AtWork, ForgottenFacts
<1>6. TypesStay /\ excused \subseteq excused'
  BY <1>1, <1>2, <1>5, AtWork DEF TypesStay
<1>7. Held \subseteq Held' /\ excused' \subseteq Held' /\ NoMessage \notin board
  BY <1>1, <1>6, HeldStays, AtWork, MonitorAssumption DEF Monitor!Rest
<1>8. row \in board => row \in Held' \cup {row'}
  BY <1>1, <1>5, <1>7
<1>9. escaped = "no" => o.current = "yes" \/ row' \in excused'
  BY <1>1, <1>6, SupersededStartup
<1>10. ASSUME escaped = "no", NothingOrphaned, Loaded, row' \in board PROVE row' \in Held' \cup {state.msg}
  <2>1. CASE o.current = "yes"
    <3>1. Recorded(o)
      BY <1>1, <1>10, AtWork DEF OperationInv
    <3>2. QED
      BY <1>1, <1>7, <1>10, <2>1, <3>1 DEF Recorded, Safe
  <2>2. CASE o.current # "yes"
    BY <1>7, <1>9, <1>10, <2>2
  <2>3. QED
    BY <2>1, <2>2
<1>11. QED
  BY <1>1, <1>2, <1>3, <1>6, <1>8, <1>9, <1>10, AtWork, RowWritten

LEMMA StartDeleteKeeps ==
  ASSUME MonitorInv, NEW slot \in Monitor!Slots, Monitor!handleOfflineStreamerOnStartup(slot) PROVE MonitorInv'
<1> DEFINE o == Monitor!The(slot)
           b == Monitor!The(Other(slot))
<1>1. o.pc = "startDelete" /\ UNCHANGED <<row, state>> /\ Monitor!Rest
  BY DEF Monitor!handleOfflineStreamerOnStartup
<1>2. Duty(o) = {o.msg} /\ o.kind = "startup" /\ o.msg \in Messages
  BY <1>1, AtWork DEF Duty, OperationTyped, Monitor!Posted
<1>3. CASE Monitor!Upset /\ excused' = excused \cup {o.msg} /\ Monitor!Step(slot, "done") /\ UNCHANGED board
  BY <1>1, <1>2, <1>3, AtWork, UpsetFacts, EndsQuietly
<1>4. CASE board' = board \ {o.msg} /\ Monitor!Step(slot, "startClear") /\ UNCHANGED <<upsets, excused>>
  <2> DEFINE q == [o EXCEPT !.pc = "startClear"]
  <2>1. OpMoves(slot, q) /\ IsOp(q, o, "startClear", o.msg, o.old) /\ q.obj = o.obj
    BY <1>1, <1>4, AtWork, StepsOn DEF Pcs
  <2> HIDE DEF q
  <2>2. NextOp(slot, q)
    BY <1>1, <1>2, <2>1, AtWork DEF IsOp, NextOp, OperationTyped
  <2>3. Dutiful(o, q) /\ TypesStay
    BY <1>1, <1>2, <1>4, AtWork DEF Dutiful, TypesStay
  <2>4. OperationInv(o, b)'
    BY <1>4, <2>1 DEF OpMoves, OperationInv, IsOp, RowSpokenFor, EditSpokenFor, Recorded, Removed, OfflineFinds
  <2>5. QED
    BY <1>1, <1>2, <1>4, <2>1, <2>2, <2>3, <2>4, AtWork, QuietStep
<1>5. QED
  BY <1>3, <1>4 DEF Monitor!handleOfflineStreamerOnStartup

LEMMA StartClearsKeeps ==
  ASSUME MonitorInv, NEW slot \in Monitor!Slots, Monitor!StartupClears(slot) PROVE MonitorInv'
<1> DEFINE o == Monitor!The(slot)
<1>1. /\ o.pc = "startClear" /\ UNCHANGED <<board, state, excused>> /\ Monitor!Rest /\ Monitor!Step(slot, "done")
  BY DEF Monitor!StartupClears
<1>2. Duty(o) = {}
  BY <1>1 DEF Duty
<1>3. OpMoves(slot, Monitor!NoOp)
  BY <1>1, AtWork, Finishes
<1>4. CASE row' = (IF ~Monitor!Superseded(o) /\ row = o.msg THEN NoMessage ELSE row) /\ UNCHANGED upsets
  <2>1. CASE row' = row
    BY <1>1, <1>2, <1>4, <2>1, AtWork, EndsQuietly
  <2>2. CASE row' # row
    <3>1. ~Monitor!Superseded(o) /\ row = o.msg /\ row' = NoMessage
      BY <1>4, <2>2
    <3>2. CASE escaped # "no"
      BY <1>1, <1>3, <1>4, <3>1, <3>2, AtWork, EscapedStep DEF TypesStay, Monitor!Posted
    <3>3. CASE escaped = "no"
      <4>1. o.current = "yes" /\ NothingOrphaned
        BY <1>1, <3>1, <3>3, AtWork, ActsOrNot DEF MonitorInv
      <4>2. Removed(o)
        BY <1>1, <4>1, AtWork DEF OperationInv
      <4>3. row \notin board \/ row \in excused
        BY <1>1, <3>1, <4>2 DEF Removed
      <4>4. QED
        BY <1>1, <1>2, <1>3, <1>4, <3>1, <4>1, <4>3, AtWork, RowCleared
    <3>4. QED
      BY <3>2, <3>3
  <2>3. QED
    BY <2>1, <2>2
<1>5. CASE Monitor!Upset /\ UNCHANGED row
  BY <1>1, <1>2, <1>5, AtWork, UpsetFacts, EndsQuietly
<1>6. QED
  BY <1>4, <1>5 DEF Monitor!StartupClears

LEMMA WorksKeeps ==
  ASSUME MonitorInv, NEW slot \in Monitor!Slots, Monitor!Works(slot) PROVE MonitorInv'
  BY PostKeeps, PostFailsKeeps, PostsKeeps, discardKeeps, persistKeeps, EditKeeps, EditFailsKeeps, RepostKeeps,
     RepostsKeeps, DropOldKeeps, OfflineSeesKeeps, OfflineFailsKeeps, DeleteKeeps, ClearKeeps, ForgetKeeps,
     StartEditKeeps, StartEditFailsKeeps, StartPersistsKeeps, StartDeleteKeeps, StartClearsKeeps
  DEF Monitor!Works

-----------------------------------------------------------------------------
(* An operation begins                                                     *)

LEMMA RunningFacts ==
  ASSUME MonitorInv, running.pc # "done"
  PROVE  /\ "running" \in Monitor!Slots /\ Monitor!The("running") = running
         /\ Monitor!The(Other("running")) = late /\ running.current = "yes"
         /\ running.sees \in Monitor!Playing
  BY DEF MonitorInv, MonitorTypes, Monitor!TypeOK, Monitor!Slots, Monitor!The, Other, Monitor!Ops

\* One that begins knows of one message at most, which is the startup pass's.
LEMMA BeginFacts ==
  ASSUME MonitorInv, running.pc = "begin"
  PROVE  /\ Duty(running) = {running.msg} /\ running.old = NoMessage /\ running.obj = 0
         /\ running.kind # "startup" => running.msg = NoMessage
         /\ NoMessage \notin board /\ NoMessage \notin Messages
<1>1. OperationTyped(running)
  BY RunningFacts, AtWork
<1>2. NoMessage \notin board /\ NoMessage \notin Messages
  BY MonitorAssumption DEF MonitorInv, MonitorTypes, Monitor!TypeOK
<1>3. QED
  BY <1>1, <1>2 DEF OperationTyped, Duty

LEMMA BeginEnds ==
  ASSUME MonitorInv, running.pc = "begin", running.kind # "startup", Monitor!Step("running", "done"),
         Monitor!Rest, UNCHANGED <<board, row, excused, upsets>>,
         state' \in Monitor!States, state'.msg = state.msg, state'.obj = state.obj
  PROVE  MonitorInv'
<1>1. "running" \in Monitor!Slots /\ Monitor!The("running") = running
  BY RunningFacts
<1>2. \A m \in Duty(running) : m \notin board
  BY BeginFacts
<1>3. QED
  BY <1>1, <1>2, AtWork, EndsQuietly

LEMMA CheckForgottenKeeps == ASSUME MonitorInv, Monitor!CheckForgotten PROVE MonitorInv'
  BY RunningFacts, AtWork, BeginEnds DEF Monitor!CheckForgotten, Monitor!Polls, Monitor!Quiet

LEMMA OfflineStreamKeeps == ASSUME MonitorInv, Monitor!handleStreamOffline PROVE MonitorInv'
<1>1. /\ running.pc = "begin" /\ running.kind # "startup" /\ Monitor!Step("running", "done") /\ Monitor!Rest
      /\ UNCHANGED <<board, row, excused, upsets>>
      /\ state' = IF state # Monitor!NoState /\ state.timer = "off" THEN [state EXCEPT !.timer = "armed"] ELSE state
  BY DEF Monitor!handleStreamOffline, Monitor!Polls, Monitor!Quiet
<1>2. state \in Monitor!States
  BY DEF MonitorInv, MonitorTypes, Monitor!TypeOK
<1>3. state' \in Monitor!States /\ state'.msg = state.msg /\ state'.obj = state.obj
  BY <1>1, <1>2, LiveFacts DEF Timed
<1>4. QED
  BY <1>1, <1>3, BeginEnds

LEMMA LiveStreamKeeps == ASSUME MonitorInv, Monitor!handleLiveStreamer PROVE MonitorInv'
<1> DEFINE timed == IF state = Monitor!NoState THEN Monitor!NoState ELSE [state EXCEPT !.timer = "off"]
<1>1. /\ running.pc = "begin" /\ running.kind \in {"poll", "immediate"} /\ running.sees # NoGame /\ Monitor!Known
      /\ UNCHANGED <<board, row, excused, upsets>> /\ Monitor!Rest
  BY DEF Monitor!handleLiveStreamer, Monitor!Polls, Monitor!Quiet, Monitor!Seen
<1>2. state \in Monitor!States /\ board \subseteq Messages /\ row \in Monitor!Posted
  BY DEF MonitorInv, MonitorTypes, Monitor!TypeOK
<1>3. timed \in Monitor!States /\ timed.msg = state.msg /\ timed.obj = state.obj
      /\ (state # Monitor!NoState => timed # Monitor!NoState)
  <2>1. CASE state = Monitor!NoState
    BY <1>2, <2>1
  <2>2. CASE state # Monitor!NoState
    <3>1. /\ [state EXCEPT !.timer = "off"] \in Monitor!States /\ [state EXCEPT !.timer = "off"].msg = state.msg
          /\ [state EXCEPT !.timer = "off"].obj = state.obj /\ state.obj \in Monitor!Objects
      BY <1>2, <2>2, LiveFacts DEF Timed
    <3>2. [state EXCEPT !.timer = "off"] # Monitor!NoState
      <4>1. Monitor!NoState.obj = 0 /\ state.obj # 0
        BY <3>1, StateFacts DEF Monitor!Objects
      <4>2. QED
        BY <3>1, <4>1, Zenon
    <3>3. timed = [state EXCEPT !.timer = "off"]
      BY <2>2
    <3> HIDE DEF timed
    <3>4. QED
      BY <3>1, <3>2, <3>3
  <2>3. QED
    BY <2>1, <2>2
<1> HIDE DEF timed
<1>4. "running" \in Monitor!Slots /\ Monitor!The("running") = running /\ Monitor!The(Other("running")) = late
      /\ running.sees \in Games
  BY <1>1, RunningFacts DEF Monitor!Playing
<1>5. Duty(running) = {NoMessage} /\ running.msg = NoMessage /\ running.old = NoMessage /\ NoMessage \notin board
  BY <1>1, BeginFacts
<1>6. ASSUME NothingOrphaned PROVE Safe(row, {state.msg} \cup Duty(late))
  <2>1. Loaded
    BY <1>1 DEF Monitor!Known, Loaded, MonitorInv, MonitorTypes, Monitor!TypeOK, Monitor!Phases
  <2>2. QED
    BY <1>5, <1>6, <2>1 DEF NothingOrphaned, RowIsKept, Safe
<1>7. CASE state.msg # NoMessage /\ state.game = running.sees /\ Monitor!Step("running", "done") /\ state' = timed
  BY <1>1, <1>3, <1>7, BeginEnds
<1>8. CASE state.msg = NoMessage /\ Monitor!Step("running", "post") /\ state' = timed
  <2> DEFINE q == [running EXCEPT !.pc = "post"]
  <2>1. OpMoves("running", q) /\ IsOp(q, running, "post", running.msg, running.old) /\ q.obj = running.obj
    BY <1>1, <1>4, <1>8, AtWork, StepsOn DEF Pcs
  <2> HIDE DEF q
  <2>2. NextOp("running", q)
    BY <1>1, <1>4, <1>5, <2>1, BeginFacts, AtWork DEF IsOp, NextOp, OperationTyped
  <2>3. Dutiful(running, q) /\ TypesStay
    BY <1>1, <1>3, <1>4, <1>5, <1>8, AtWork DEF Dutiful, TypesStay
  <2>4. ASSUME NothingOrphaned PROVE OperationInv(running, late)'
    <3>1. running' = q /\ late' = late
      BY <1>4, <2>1 DEF OpMoves, Other, Monitor!The
    <3>2. Held' = Held
      BY <1>1 DEF Held, QueuedMessages, Monitor!Queued, Monitor!Rest
    <3>3. row \in board => row \in Held' \cup Duty(late)
      BY <1>2, <1>5, <1>6, <1>8, <2>4, <3>2 DEF Safe
    <3>4. RowSpokenFor(running, late)'
      BY <1>1, <3>1, <3>3 DEF RowSpokenFor, Safe, Duty
    <3>5. QED
      BY <2>1, <3>1, <3>4 DEF OperationInv, IsOp, EditSpokenFor, Recorded, Removed, OfflineFinds
  <2>5. OperationInv(running, late)' <=> OperationInv(Monitor!The("running"), Monitor!The(Other("running")))'
    BY DEF Monitor!The, Other
  <2>6. QED
    BY <1>1, <1>3, <1>4, <1>5, <1>8, <2>1, <2>2, <2>3, <2>4, <2>5, AtWork, QuietStep
<1>9. CASE /\ state.msg # NoMessage /\ state' = [timed EXCEPT !.game = running.sees]
           /\ Monitor!Becomes("running", [running EXCEPT !.pc = "edit", !.obj = state.obj])
  <2> DEFINE q == [running EXCEPT !.pc = "edit", !.obj = state.obj]
  <2>1. state # Monitor!NoState /\ state.obj \in Monitor!Objects
    BY <1>2, <1>9, StateFacts, LiveFacts
  <2>2. IsOp(q, running, "edit", running.msg, running.old) /\ q.obj = state.obj
    <3>1. running \in Monitor!Ops /\ state.obj \in Monitor!Objects \cup {0}
      BY <1>1, <1>4, <2>1, AtWork
    <3>2. "edit" \in Pcs
      BY DEF Pcs
    <3>3. QED
      BY <3>1, <3>2, NextObj
  <2>3. Monitor!Becomes("running", q)
    BY <1>9
  <2> HIDE DEF q
  <2>4. OpMoves("running", q)
    BY <1>1, <1>4, <2>2, <2>3, MovesOn DEF IsOp
  <2>5. state.obj # 0
    BY <2>1 DEF Monitor!Objects
  <2>6. NextOp("running", q)
    BY <1>1, <1>4, <1>5, <2>2, <2>5, AtWork DEF IsOp, NextOp, OperationTyped
  <2>7. state' \in Monitor!States /\ state'.msg = state.msg /\ state'.obj = state.obj
    BY <1>3, <1>4, <1>9, <2>1, LiveFacts
  <2>8. Dutiful(running, q) /\ TypesStay
    BY <1>1, <1>4, <1>5, <2>7, AtWork DEF Dutiful, TypesStay
  <2>9. ASSUME NothingOrphaned PROVE OperationInv(running, late)'
    <3>1. running' = q /\ late' = late
      BY <1>4, <2>4 DEF OpMoves, Other, Monitor!The
    <3>2. Held' = Held
      BY <1>1 DEF Held, QueuedMessages, Monitor!Queued, Monitor!Rest
    <3>3. EditSpokenFor(running, late)'
      BY <1>1, <1>6, <2>7, <2>9, <3>1, <3>2 DEF EditSpokenFor, Safe, Duty
    <3>4. QED
      BY <2>2, <3>1, <3>3 DEF OperationInv, IsOp, RowSpokenFor, Recorded, Removed, OfflineFinds
  <2>10. OperationInv(running, late)' <=> OperationInv(Monitor!The("running"), Monitor!The(Other("running")))'
    BY DEF Monitor!The, Other
  <2>11. QED
    BY <1>1, <1>4, <1>5, <2>4, <2>6, <2>7, <2>8, <2>9, <2>10, AtWork, QuietStep
<1>10. QED
  BY <1>7, <1>8, <1>9 DEF Monitor!handleLiveStreamer, Monitor!Seen, timed

LEMMA OfflineBeginsKeeps == ASSUME MonitorInv, Monitor!OfflineCheckBegins PROVE MonitorInv'
<1>1. /\ running.pc = "begin" /\ running.kind \in {"offline", "none"}
      /\ UNCHANGED <<board, row, state, excused, upsets>> /\ Monitor!Rest
  BY DEF Monitor!OfflineCheckBegins, Monitor!Quiet
<1>2. state \in Monitor!States
  BY DEF MonitorInv, MonitorTypes, Monitor!TypeOK
<1>3. CASE Monitor!Step("running", "done")
  BY <1>1, <1>2, <1>3, BeginEnds
<1>4. CASE /\ running.kind = "offline"
           /\ Monitor!Becomes("running", [running EXCEPT !.pc = "fetch", !.obj = state.obj, !.owned = state.timer])
  <2> DEFINE q == [running EXCEPT !.pc = "fetch", !.obj = state.obj, !.owned = state.timer]
  <2>1. "running" \in Monitor!Slots /\ Monitor!The("running") = running /\ Monitor!The(Other("running")) = late
    BY <1>1, RunningFacts
  <2>2. Duty(running) = {NoMessage} /\ running.msg = NoMessage /\ running.old = NoMessage /\ NoMessage \notin board
    BY <1>1, BeginFacts
  <2>3. IsOp(q, running, "fetch", running.msg, running.old)
    <3>1. running \in Monitor!Ops /\ state.obj \in Monitor!Objects \cup {0} /\ state.timer \in Timed
      BY <1>1, <1>2, <2>1, AtWork, ObjFacts
    <3>2. "fetch" \in Pcs
      BY DEF Pcs
    <3>3. QED
      BY <3>1, <3>2, NextOwned
  <2>4. Monitor!Becomes("running", q)
    BY <1>4
  <2> HIDE DEF q
  <2>5. OpMoves("running", q)
    BY <1>1, <2>1, <2>3, <2>4, MovesOn DEF IsOp
  <2>6. NextOp("running", q)
    BY <1>4, <2>1, <2>2, <2>3, AtWork DEF IsOp, NextOp, OperationTyped
  <2>7. Dutiful(running, q) /\ TypesStay
    BY <1>1, <2>1, <2>2, AtWork DEF Dutiful, TypesStay
  <2>8. OperationInv(Monitor!The("running"), Monitor!The(Other("running")))'
    BY <2>3, <2>5 DEF OpMoves, OperationInv, IsOp, RowSpokenFor, EditSpokenFor, Recorded, Removed, OfflineFinds
  <2>9. QED
    BY <1>1, <2>1, <2>2, <2>5, <2>6, <2>7, <2>8, AtWork, QuietStep
<1>5. QED
  BY <1>1, <1>3, <1>4 DEF Monitor!OfflineCheckBegins

LEMMA StartupBeginsKeeps == ASSUME MonitorInv, Monitor!StartupBegins PROVE MonitorInv'
<1> DEFINE pc == IF running.sees = NoGame THEN "startDelete" ELSE IF running.msg = NoMessage THEN "post" ELSE "startEdit"
           q == [running EXCEPT !.pc = pc]
<1>1. /\ running.pc = "begin" /\ running.kind = "startup" /\ Monitor!Step("running", pc)
      /\ UNCHANGED <<board, row, state, excused, upsets>> /\ Monitor!Rest
  BY DEF Monitor!StartupBegins, Monitor!Quiet, Monitor!Seen
<1>2. "running" \in Monitor!Slots /\ Monitor!The("running") = running /\ Monitor!The(Other("running")) = late
  BY <1>1, RunningFacts
<1>3. Duty(running) = {running.msg} /\ running.old = NoMessage /\ running.obj = 0 /\ NoMessage \notin board
  BY <1>1, BeginFacts
<1>4. running.sees = NoGame => running.msg # NoMessage
  BY <1>1, <1>2, AtWork DEF OperationTyped
<1>5. /\ pc \in {"startDelete", "post", "startEdit"}
      /\ pc = "startDelete" <=> running.sees = NoGame
      /\ pc = "post" => running.msg = NoMessage
      /\ pc = "startEdit" => running.msg # NoMessage
  OBVIOUS
<1>6. OpMoves("running", q) /\ IsOp(q, running, pc, running.msg, running.old) /\ q.obj = running.obj
  BY <1>1, <1>2, AtWork, StepsOn DEF Pcs
<1> HIDE DEF pc, q
<1>7. NextOp("running", q)
  BY <1>1, <1>2, <1>3, <1>4, <1>5, <1>6, AtWork DEF IsOp, NextOp, OperationTyped
<1>8. running.msg \in board => running.msg \in Duty(q)
  BY <1>3, <1>5, <1>6 DEF IsOp, Duty
<1>9. Dutiful(running, q) /\ TypesStay
  BY <1>1, <1>2, <1>3, <1>8, AtWork DEF Dutiful, TypesStay
<1>10. OperationInv(Monitor!The("running"), Monitor!The(Other("running")))'
  BY <1>1, <1>5, <1>6 DEF OpMoves, OperationInv, IsOp, RowSpokenFor, EditSpokenFor, Recorded, Removed, OfflineFinds
<1>11. QED
  BY <1>1, <1>2, <1>3, <1>6, <1>7, <1>8, <1>9, <1>10, AtWork, QuietStep

LEMMA NoClientKeeps == ASSUME MonitorInv, Monitor!PostWithoutClient PROVE MonitorInv'
<1>1. /\ running.pc = "post" /\ UNCHANGED <<board, row>> /\ Monitor!Rest /\ Monitor!Step("running", "done") /\ Monitor!Upset
      /\ state' = [obj |-> Monitor!FreshObject, msg |-> NoMessage, game |-> running.sees, timer |-> "off"]
      /\ excused' = excused \cup Monitor!Forgotten(running)
  BY DEF Monitor!PostWithoutClient, Monitor!Seen
<1>2. "running" \in Monitor!Slots /\ Monitor!The("running") = running /\ Monitor!The(Other("running")) = late
      /\ running.current = "yes"
  BY <1>1, RunningFacts
<1>3. running.obj = 0 /\ running.msg = NoMessage /\ running.old = NoMessage /\ running.sees \in Games
  BY <1>1, <1>2, AtWork, RunningFacts DEF OperationTyped, Monitor!Playing
<1>4. Monitor!FreshObject \in Monitor!Objects
  BY <1>1, <1>2, <1>3, AtWork, FreshObjectFacts
<1>5. state' \in Monitor!States
  BY <1>1, <1>3, <1>4, StateFacts DEF Monitor!Posted
<1>6. upsets' \in 0 .. MaxUpsets /\ OpMoves("running", Monitor!NoOp)
  BY <1>1, <1>2, AtWork, UpsetFacts, Finishes
<1>7. state.msg \in Monitor!Posted
  BY <1>1, <1>2, AtWork, ObjFacts
<1>8. /\ Monitor!Forgotten(running) \subseteq Messages
      /\ running.kind = "startup" => row \in Monitor!Forgotten(running) \cup {NoMessage, running.msg}
  BY <1>1, <1>2, <1>7, AtWork, ForgottenFacts
<1>9. Duty(running) = {}
  BY <1>1 DEF Duty
<1>10. Dutiful(running, Monitor!NoOp) /\ TypesStay
  BY <1>1, <1>2, <1>5, <1>6, <1>8, <1>9, AtWork DEF Dutiful, TypesStay
<1>11. Held \subseteq Held' /\ excused' \subseteq Held'
  BY <1>1, HeldStays DEF Monitor!Rest
<1>12. NoMessage \notin board
  BY <1>1, <1>2, AtWork, MonitorAssumption
<1>13. ASSUME NothingOrphaned, row \in board PROVE row \in Held' \cup Duty(late)
  <2>1. CASE running.kind = "startup"
    BY <1>1, <1>3, <1>8, <1>11, <1>12, <1>13, <2>1
  <2>2. CASE running.kind # "startup"
    <3>1. RowSpokenFor(running, late)
      BY <1>1, <1>2, <1>13, AtWork DEF OperationInv
    <3>2. QED
      BY <1>1, <1>2, <1>3, <1>11, <1>12, <1>13, <2>2, <3>1 DEF RowSpokenFor, Safe
  <2>3. QED
    BY <2>1, <2>2
<1>14. QED
  BY <1>1, <1>2, <1>6, <1>10, <1>13, AtWork, StateWritten

-----------------------------------------------------------------------------
(* What happens beside the operations: the lock, the timers, the monitor's *)
(* start and stop                                                          *)

\* The queue, when an operation joins it.
LEMMA StarterFacts ==
  /\ \A kind \in {"poll", "immediate", "offline"}, sees \in Monitor!Playing : Monitor!Op(kind, sees) \in Starters
  /\ \A sees \in Monitor!Playing, m \in Monitor!Posted :
       (sees = NoGame /\ m = NoMessage) \/
       ([Monitor!Op("startup", sees) EXCEPT !.msg = m] \in Starters
         /\ [Monitor!Op("startup", sees) EXCEPT !.msg = m].msg = m)
<1>1. ASSUME NEW kind \in {"poll", "immediate", "offline"}, NEW sees \in Monitor!Playing
      PROVE  Monitor!Op(kind, sees) \in Starters
  <2> DEFINE q == Monitor!Op(kind, sees)
  <2>1. IsOp(q, q, "begin", NoMessage, NoMessage) /\ q.kind = kind /\ q.obj = 0 /\ q.current = "yes"
    BY <1>1, OpFacts
  <2> HIDE DEF q
  <2>2. q \in Starters
    BY <1>1, <2>1 DEF Starters, OperationTyped, IsOp
  <2>3. QED
    BY <2>2 DEF q
<1>2. ASSUME NEW sees \in Monitor!Playing, NEW m \in Monitor!Posted, ~(sees = NoGame /\ m = NoMessage)
      PROVE  [Monitor!Op("startup", sees) EXCEPT !.msg = m] \in Starters
               /\ [Monitor!Op("startup", sees) EXCEPT !.msg = m].msg = m
  <2> DEFINE o == Monitor!Op("startup", sees)
             q == [o EXCEPT !.msg = m]
  <2>1. IsOp(o, o, "begin", NoMessage, NoMessage) /\ o.kind = "startup" /\ o.sees = sees /\ o.obj = 0 /\ o.current = "yes"
    BY OpFacts
  <2> HIDE DEF o
  <2>2. /\ q \in Monitor!Ops /\ q.kind = "startup" /\ q.sees = sees /\ q.obj = 0 /\ q.current = "yes"
        /\ q.pc = "begin" /\ q.msg = m /\ q.old = NoMessage
    BY <2>1 DEF IsOp, Monitor!Ops
  <2> HIDE DEF q
  <2>3. q \in Starters
    BY <1>2, <2>2 DEF Starters, OperationTyped
  <2>4. QED
    BY <2>2, <2>3 DEF q, o
<1>3. QED
  BY <1>1, <1>2

LEMMA Joins ==
  ASSUME waiting \in Seq(Starters), NEW o \in Starters, waiting' = Append(waiting, o)
  PROVE  waiting' \in Seq(Starters) /\ QueuedMessages' = QueuedMessages \cup {o.msg}
<1>1. waiting' \in Seq(Starters)
  OBVIOUS
<1>2. Monitor!Queued' = Monitor!Queued \cup {o}
  BY DEF Monitor!Queued
<1>3. QED
  BY <1>1, <1>2 DEF QueuedMessages

LEMMA QueueFacts == ASSUME waiting \in Seq(Starters) PROVE Monitor!Queued \subseteq Starters
  BY DEF Monitor!Queued

\* Types, when the operations are not touched.
LEMMA BesideTypes ==
  ASSUME MonitorTypes, UNCHANGED <<running, late>>,
         stream' \in Monitor!Playing, board' \subseteq Messages, row' \in Monitor!Posted, loaded' \in Monitor!Posted,
         state' \in Monitor!States, phase' \in Monitor!Phases, fetching' \subseteq {"poll", "immediate"},
         waiting' \in Seq(Starters), excused' \subseteq Messages, escaped' \in {"yes", "no"}, upsets' \in 0 .. MaxUpsets
  PROVE  MonitorTypes'
<1>1. Monitor!Queued' \subseteq Starters
  BY DEF Monitor!Queued
<1>2. Monitor!TypeOK'
  BY <1>1 DEF MonitorTypes, Monitor!TypeOK, Starters
<1>3. QED
  BY <1>2 DEF MonitorTypes, OperationTyped, Monitor!Slots, Monitor!The

\* Knowledge of the messages, when neither the operations nor what they look at is touched.
LEMMA BesideKeeps ==
  ASSUME MonitorInv, MonitorTypes', UNCHANGED <<board, row, running, late, escaped>>, excused \subseteq excused',
         state'.msg = state.msg, state'.obj = state.obj, Loaded' => Loaded,
         \A m \in board : m \in Held => m \in Held'
  PROVE  MonitorInv'
<1>1. ASSUME NothingOrphaned PROVE NothingOrphaned'
  <2>1. Duty(running)' = Duty(running) /\ Duty(late)' = Duty(late)
    BY DEF Duty
  <2>2. Covered'
    BY <1>1, <2>1 DEF NothingOrphaned, Covered
  <2>3. RowIsKept'
    BY <1>1, <2>1 DEF NothingOrphaned, RowIsKept, Safe
  <2>4. LateInv'
    BY <1>1 DEF NothingOrphaned, LateInv
  <2>5. OperationInv(running, late)'
    BY <1>1 DEF NothingOrphaned, OperationInv, RowSpokenFor, EditSpokenFor, Recorded, Removed, OfflineFinds,
                      Safe, Duty, Monitor!Slots, Monitor!The, Other
  <2>6. OperationInv(late, running)'
    BY <1>1 DEF NothingOrphaned, OperationInv, RowSpokenFor, EditSpokenFor, Recorded, Removed, OfflineFinds,
                      Safe, Duty, Monitor!Slots, Monitor!The, Other
  <2>7. QED
    BY <2>2, <2>3, <2>4, <2>5, <2>6 DEF NothingOrphaned, Monitor!Slots, Monitor!The, Other
<1>2. QED
  BY <1>1 DEF MonitorInv

LEMMA TimerFiresKeeps == ASSUME MonitorInv, Monitor!OfflineTimerFires PROVE MonitorInv'
<1>1. MonitorTypes /\ Monitor!TypeOK /\ NoGame \in Monitor!Playing
  BY DEF MonitorInv, MonitorTypes, Monitor!Playing
<1>2. state # Monitor!NoState
  BY StateFacts DEF Monitor!OfflineTimerFires
<1>3. state' \in Monitor!States /\ state'.msg = state.msg /\ state'.obj = state.obj
  BY <1>1, <1>2, LiveFacts DEF Monitor!OfflineTimerFires, Monitor!TypeOK, Timed
<1>4. waiting' \in Seq(Starters) /\ QueuedMessages \subseteq QueuedMessages'
  BY <1>1, StarterFacts, Joins DEF Monitor!OfflineTimerFires, MonitorTypes
<1>5. MonitorTypes'
  BY <1>1, <1>3, <1>4, BesideTypes DEF Monitor!OfflineTimerFires, Monitor!TypeOK
<1>6. QED
  BY <1>3, <1>4, <1>5, BesideKeeps DEF Monitor!OfflineTimerFires, Held, Loaded

LEMMA FetchesKeep ==
  ASSUME MonitorInv,
         \/ Monitor!PollTimerFires \/ Monitor!triggerImmediateLiveCheck
         \/ \E kind \in {"poll", "immediate"} : Monitor!Fetched(kind) \/ Monitor!FetchFails(kind)
  PROVE  MonitorInv'
<1>1. MonitorTypes /\ Monitor!TypeOK
  BY DEF MonitorInv, MonitorTypes
<1>2. CASE \E kind \in {"poll", "immediate"} : Monitor!Fetched(kind)
  <2>1. PICK kind \in {"poll", "immediate"} : Monitor!Fetched(kind)
    BY <1>2
  <2>2. waiting' \in Seq(Starters) /\ QueuedMessages \subseteq QueuedMessages'
    BY <1>1, <2>1, StarterFacts, Joins DEF Monitor!Fetched, MonitorTypes, Monitor!TypeOK
  <2>3. MonitorTypes'
    BY <1>1, <2>1, <2>2, BesideTypes DEF Monitor!Fetched, Monitor!TypeOK
  <2>4. QED
    BY <2>1, <2>2, <2>3, BesideKeeps DEF Monitor!Fetched, Held, Loaded
<1>3. CASE \/ Monitor!PollTimerFires \/ Monitor!triggerImmediateLiveCheck
           \/ \E kind \in {"poll", "immediate"} : Monitor!FetchFails(kind)
  <2>1. /\ UNCHANGED <<stream, board, row, state, phase, loaded, waiting, running, late, excused, escaped>>
        /\ fetching' \subseteq {"poll", "immediate"} /\ upsets' \in 0 .. MaxUpsets
    BY <1>1, <1>3, UpsetFacts DEF Monitor!TypeOK, Monitor!PollTimerFires, Monitor!triggerImmediateLiveCheck,
         Monitor!FetchFails
  <2>2. MonitorTypes' /\ Held' = Held /\ (Loaded' <=> Loaded)
    BY <1>1, <2>1, BesideTypes DEF MonitorTypes, Monitor!TypeOK, Held, QueuedMessages, Monitor!Queued, Loaded
  <2>3. QED
    BY <2>1, <2>2, BesideKeeps
<1>4. QED
  BY <1>2, <1>3

LEMMA PhasesKeep ==
  ASSUME MonitorInv,
         \/ Monitor!restartTwitchMonitor \/ Monitor!GetUsers \/ Monitor!PollingStarts \/ Monitor!StartFails
         \/ Monitor!StreamChanges
  PROVE  MonitorInv'
<1>1. MonitorTypes /\ Monitor!TypeOK
  BY DEF MonitorInv, MonitorTypes
<1>2. /\ UNCHANGED <<board, row, state, loaded, fetching, waiting, running, late, excused, escaped>>
      /\ stream' \in Monitor!Playing /\ phase' \in Monitor!Phases /\ upsets' \in 0 .. MaxUpsets
      /\ Loaded' => Loaded
  BY <1>1, UpsetFacts DEF Monitor!TypeOK, Monitor!Phases, Loaded, Monitor!restartTwitchMonitor, Monitor!GetUsers,
       Monitor!PollingStarts, Monitor!StartFails, Monitor!StreamChanges
<1>3. MonitorTypes' /\ Held' = Held
  BY <1>1, <1>2, BesideTypes DEF MonitorTypes, Monitor!TypeOK, Held, QueuedMessages, Monitor!Queued
<1>4. QED
  BY <1>2, <1>3, BesideKeeps

\* The startup pass begins: the message the start loaded is now its own, or given up.
LEMMA StartupCheckKeeps == ASSUME MonitorInv, Monitor!performStartupLiveCheck PROVE MonitorInv'
<1>1. MonitorTypes /\ Monitor!TypeOK /\ NoMessage \notin board
  BY MonitorAssumption DEF MonitorInv, MonitorTypes, Monitor!TypeOK
<1>2. /\ UNCHANGED <<stream, board, row, state, fetching, running, late, escaped>>
      /\ phase = "streams" /\ phase' = "settle" /\ loaded' = NoMessage
  BY DEF Monitor!performStartupLiveCheck
<1>3. CASE stream = NoGame /\ loaded = NoMessage /\ UNCHANGED <<waiting, upsets, excused>>
  <2>1. MonitorTypes'
    BY <1>1, <1>2, <1>3, BesideTypes DEF MonitorTypes, Monitor!TypeOK, Monitor!Phases, Monitor!Posted
  <2>2. Held' = Held
    BY <1>2, <1>3 DEF Held, QueuedMessages, Monitor!Queued
  <2>3. QED
    BY <1>2, <1>3, <2>1, <2>2, BesideKeeps DEF Loaded
<1>4. CASE /\ ~(stream = NoGame /\ loaded = NoMessage) /\ UNCHANGED <<upsets, excused>>
           /\ waiting' = Append(waiting, [Monitor!Op("startup", stream) EXCEPT !.msg = loaded])
  <2> DEFINE q == [Monitor!Op("startup", stream) EXCEPT !.msg = loaded]
  <2>1. q \in Starters /\ q.msg = loaded
    BY <1>1, <1>4, StarterFacts DEF Monitor!TypeOK
  <2>2. waiting' = Append(waiting, q)
    BY <1>4
  <2> HIDE DEF q
  <2>3. waiting' \in Seq(Starters) /\ QueuedMessages' = QueuedMessages \cup {loaded}
    BY <1>1, <2>1, <2>2, Joins DEF MonitorTypes
  <2>4. MonitorTypes'
    BY <1>1, <1>2, <1>4, <2>3, BesideTypes DEF MonitorTypes, Monitor!TypeOK, Monitor!Phases, Monitor!Posted
  <2>5. Held \subseteq Held'
    BY <1>4, <2>3 DEF Held
  <2>6. QED
    BY <1>2, <1>4, <2>4, <2>5, BesideKeeps DEF Loaded
<1>5. CASE Monitor!Upset /\ excused' = excused \cup ({loaded} \ {NoMessage}) /\ UNCHANGED waiting
  <2>1. excused' \subseteq Messages /\ upsets' \in 0 .. MaxUpsets
    BY <1>1, <1>5, UpsetFacts DEF Monitor!TypeOK, Monitor!Posted
  <2>2. MonitorTypes'
    BY <1>1, <1>2, <1>5, <2>1, BesideTypes DEF MonitorTypes, Monitor!TypeOK, Monitor!Phases, Monitor!Posted
  <2>3. Held \ {NoMessage} \subseteq Held'
    BY <1>2, <1>5 DEF Held, QueuedMessages, Monitor!Queued
  <2>4. QED
    BY <1>1, <1>2, <1>5, <2>2, <2>3, BesideKeeps DEF Loaded
<1>6. QED
  BY <1>3, <1>4, <1>5 DEF Monitor!performStartupLiveCheck

\* The start reads the rows: every message is the row's from here on, or given up.
LEMMA LoadKeeps == ASSUME MonitorInv, Monitor!LoadStreamers PROVE MonitorInv'
<1>1. MonitorTypes /\ Monitor!TypeOK
  BY DEF MonitorInv, MonitorTypes
<1>2. /\ UNCHANGED <<stream, board, row, state, fetching, waiting, running, late, escaped, upsets>>
      /\ phase' = "users" /\ loaded' = row /\ excused' = excused \cup (board \ {row})
  BY DEF Monitor!LoadStreamers
<1>3. MonitorTypes'
  BY <1>1, <1>2, BesideTypes DEF MonitorTypes, Monitor!TypeOK, Monitor!Phases
<1>4. board' \subseteq Held' /\ excused \subseteq excused'
  BY <1>2 DEF Held
<1>5. ASSUME NothingOrphaned PROVE NothingOrphaned'
  <2>1. Covered' /\ RowIsKept'
    BY <1>4 DEF Covered, RowIsKept, Safe
  <2>2. LateInv'
    BY <1>2, <1>4, <1>5 DEF NothingOrphaned, LateInv
  <2>3. ASSUME NEW slot \in Monitor!Slots
        PROVE  OperationInv(Monitor!The(slot), Monitor!The(Other(slot)))'
    <3>1. Monitor!The(slot)' = Monitor!The(slot)
      BY <1>2 DEF Monitor!The
    <3>2. Removed(Monitor!The(slot)) /\ OfflineFinds(Monitor!The(slot))
      BY <1>5 DEF NothingOrphaned, OperationInv
    <3>3. Removed(Monitor!The(slot))' /\ OfflineFinds(Monitor!The(slot))'
      BY <1>2, <1>4, <3>1, <3>2 DEF Removed, OfflineFinds
    <3>4. RowSpokenFor(Monitor!The(slot), Monitor!The(Other(slot)))'
           /\ EditSpokenFor(Monitor!The(slot), Monitor!The(Other(slot)))' /\ Recorded(Monitor!The(slot))'
      BY <1>4 DEF RowSpokenFor, EditSpokenFor, Recorded, Safe
    <3>5. QED
      BY <3>3, <3>4 DEF OperationInv
  <2>4. QED
    BY <2>1, <2>2, <2>3 DEF NothingOrphaned
<1>6. QED
  BY <1>2, <1>3, <1>5 DEF MonitorInv

\* The states are forgotten. An offline check that waits will find nothing to do.
LEMMA TeardownKeeps == ASSUME MonitorInv, Monitor!Teardown PROVE MonitorInv'
<1>1. MonitorTypes /\ Monitor!TypeOK
  BY DEF MonitorInv, MonitorTypes
<1>2. /\ UNCHANGED <<stream, board, row, loaded, fetching, running, late, excused, escaped, upsets>>
      /\ phase' = "load" /\ state' = Monitor!NoState
      /\ waiting' = [i \in DOMAIN waiting |->
           IF waiting[i].kind = "offline" THEN [waiting[i] EXCEPT !.kind = "none"] ELSE waiting[i]]
  BY DEF Monitor!Teardown
<1>3. ASSUME NEW o \in Starters, o.kind = "offline"
      PROVE  [o EXCEPT !.kind = "none"] \in Starters /\ [o EXCEPT !.kind = "none"].msg = o.msg
  <2> DEFINE q == [o EXCEPT !.kind = "none"]
  <2>1. /\ q \in Monitor!Ops /\ q.kind = "none" /\ q.pc = o.pc /\ q.sees = o.sees /\ q.msg = o.msg
        /\ q.old = o.old /\ q.obj = o.obj /\ q.current = o.current
    BY <1>3 DEF Starters, Monitor!Ops
  <2> HIDE DEF q
  <2>2. q \in Starters /\ q.msg = o.msg
    BY <1>3, <2>1 DEF Starters, OperationTyped
  <2>3. QED
    BY <2>2 DEF q
<1>4. waiting \in Seq(Starters) /\ DOMAIN waiting' = DOMAIN waiting
  BY <1>1, <1>2 DEF MonitorTypes
<1>5. \A i \in DOMAIN waiting : waiting[i] \in Starters /\ waiting'[i] \in Starters /\ waiting'[i].msg = waiting[i].msg
  BY <1>2, <1>3, <1>4
<1>6. waiting' \in Seq(Starters)
  <2>1. Len(waiting) \in Nat /\ DOMAIN waiting = 1 .. Len(waiting)
    BY <1>4
  <2>2. waiting' \in [1 .. Len(waiting) -> Starters]
    BY <1>2, <1>5, <2>1
  <2>3. QED
    BY <2>1, <2>2
<1>7. QueuedMessages' = QueuedMessages
  BY <1>4, <1>5 DEF QueuedMessages, Monitor!Queued
<1>8. MonitorTypes'
  BY <1>1, <1>2, <1>6, StateFacts, BesideTypes DEF Monitor!TypeOK, Monitor!Phases
<1>9. Held' = Held
  BY <1>2, <1>7 DEF Held
<1>10. ASSUME NothingOrphaned PROVE NothingOrphaned'
  <2>1. Covered'
    BY <1>2, <1>9, <1>10 DEF NothingOrphaned, Covered, Duty
  <2>2. ~Loaded'
    BY <1>2 DEF Loaded
  <2>3. LateInv' /\ RowIsKept'
    BY <1>2, <1>10, <2>2 DEF NothingOrphaned, LateInv, RowIsKept
  <2>4. ASSUME NEW slot \in Monitor!Slots
        PROVE  OperationInv(Monitor!The(slot), Monitor!The(Other(slot)))'
    <3>1. Monitor!The(slot)' = Monitor!The(slot) /\ Monitor!The(Other(slot))' = Monitor!The(Other(slot))
      BY <1>2 DEF Monitor!The
    <3>2. RowSpokenFor(Monitor!The(slot), Monitor!The(Other(slot))) /\ Removed(Monitor!The(slot))
      BY <1>10 DEF NothingOrphaned, OperationInv
    <3>3. RowSpokenFor(Monitor!The(slot), Monitor!The(Other(slot)))' /\ Removed(Monitor!The(slot))'
      BY <1>2, <1>9, <3>1, <3>2 DEF RowSpokenFor, Removed, Safe, Duty
    <3>4. Monitor!The(slot).pc = "edit" => Monitor!The(slot).obj # 0
      BY <1>1 DEF MonitorTypes, OperationTyped
    <3>5. EditSpokenFor(Monitor!The(slot), Monitor!The(Other(slot)))'
      BY <1>2, <3>1, <3>4, StateFacts DEF EditSpokenFor
    <3>6. Recorded(Monitor!The(slot))' /\ OfflineFinds(Monitor!The(slot))'
      BY <1>2, <2>2, StateFacts DEF Recorded, OfflineFinds
    <3>7. QED
      BY <3>3, <3>5, <3>6 DEF OperationInv
  <2>5. QED
    BY <2>1, <2>3, <2>4 DEF NothingOrphaned
<1>11. QED
  BY <1>2, <1>8, <1>10 DEF MonitorInv

\* The lock goes to the next operation, and whoever still works behind its back is told so.
LEMMA StartKeeps == ASSUME MonitorInv, Monitor!Start PROVE MonitorInv'
<1> DEFINE next == Head(waiting)
<1>1. MonitorTypes /\ Monitor!TypeOK
  BY DEF MonitorInv, MonitorTypes
<1>2. /\ UNCHANGED <<stream, board, row, state, phase, loaded, fetching, excused, escaped, upsets>>
      /\ running = Monitor!NoOp /\ waiting # <<>> /\ running' = next /\ waiting' = Tail(waiting)
      /\ late' = IF late = Monitor!NoOp THEN Monitor!NoOp ELSE [late EXCEPT !.current = "no"]
  BY DEF Monitor!Start
<1>3. waiting \in Seq(Starters)
  BY <1>1 DEF MonitorTypes
<1>4. next \in Starters /\ waiting' \in Seq(Starters)
  BY <1>2, <1>3
<1>5. Monitor!Queued = {next} \cup Monitor!Queued'
  <2>1. Len(waiting) \in Nat \ {0} /\ DOMAIN waiting = 1 .. Len(waiting)
    BY <1>2, <1>3
  <2>2. DOMAIN waiting' = 1 .. (Len(waiting) - 1) /\ \A i \in 1 .. (Len(waiting) - 1) : waiting'[i] = waiting[i + 1]
    BY <1>2, <1>3, <2>1
  <2>3. ASSUME NEW i \in DOMAIN waiting PROVE waiting[i] \in {next} \cup Monitor!Queued'
    <3>1. CASE i = 1
      BY <3>1
    <3>2. CASE i # 1
      <4>1. i - 1 \in 1 .. (Len(waiting) - 1) /\ (i - 1) + 1 = i
        BY <2>1, <3>2
      <4>2. waiting'[i - 1] = waiting[i]
        BY <2>2, <4>1
      <4>3. QED
        BY <2>2, <4>1, <4>2 DEF Monitor!Queued
    <3>3. QED
      BY <3>1, <3>2
  <2>4. ASSUME NEW i \in DOMAIN waiting' PROVE waiting'[i] \in Monitor!Queued
    <3>1. i + 1 \in DOMAIN waiting
      BY <2>1, <2>2
    <3>2. QED
      BY <2>2, <3>1 DEF Monitor!Queued
  <2>5. next \in Monitor!Queued
    BY <2>1 DEF Monitor!Queued
  <2>6. QED
    BY <2>3, <2>4, <2>5 DEF Monitor!Queued
<1> HIDE DEF next
<1>6. next \in Monitor!Ops /\ next.pc = "begin" /\ next.current = "yes" /\ OperationTyped(next)
  BY <1>4 DEF Starters
<1>7. /\ late' \in Monitor!Ops /\ late'.kind = late.kind /\ late'.pc = late.pc /\ late'.msg = late.msg
      /\ late'.old = late.old /\ late'.sees = late.sees /\ late'.obj = late.obj
      /\ late' = Monitor!NoOp \/ late'.current = "no"
  BY <1>1, <1>2 DEF Monitor!TypeOK, Monitor!Ops
<1>8. MonitorTypes'
  <2>1. Monitor!Queued' \subseteq Monitor!Ops
    BY <1>1, <1>5 DEF Monitor!TypeOK
  <2>2. Monitor!TypeOK'
    BY <1>1, <1>2, <1>6, <1>7, <2>1 DEF Monitor!TypeOK
  <2>3. OperationTyped(running') /\ OperationTyped(late')
    BY <1>1, <1>2, <1>6, <1>7 DEF MonitorTypes, OperationTyped, Monitor!Slots, Monitor!The
  <2>4. late'.pc # "begin"
    BY <1>1, <1>7 DEF MonitorTypes
  <2>5. QED
    BY <1>2, <1>4, <1>6, <1>7, <2>2, <2>3, <2>4 DEF MonitorTypes, OperationTyped, Monitor!Slots, Monitor!The
<1>9. ASSUME NothingOrphaned PROVE NothingOrphaned'
  <2>1. Duty(running) = {} /\ Duty(running)' = {next.msg} /\ Duty(late)' = Duty(late)
    BY <1>2, <1>6, <1>7, NoOpFacts DEF Duty
  <2>2. Held \subseteq Held' \cup {next.msg}
    BY <1>2, <1>5 DEF Held, QueuedMessages
  <2>3. Covered' /\ RowIsKept'
    BY <1>2, <1>9, <2>1, <2>2 DEF NothingOrphaned, Covered, RowIsKept, Safe, Loaded
  <2>4. LateInv'
    BY <1>2, <1>7, <1>9 DEF NothingOrphaned, LateInv
  <2>5. OperationInv(running, late)'
    BY <1>2, <1>6 DEF OperationInv, RowSpokenFor, EditSpokenFor, Recorded, Removed, OfflineFinds
  <2>6. Removed(late)
    BY <1>9 DEF NothingOrphaned, OperationInv, Monitor!Slots, Monitor!The
  <2>7. OperationInv(late, running)'
    BY <1>2, <1>7, <2>6, NoOpFacts DEF OperationInv, RowSpokenFor, EditSpokenFor, Recorded, Removed, OfflineFinds
  <2>8. QED
    BY <2>3, <2>4, <2>5, <2>7 DEF NothingOrphaned, Monitor!Slots, Monitor!The, Other
<1>10. QED
  BY <1>2, <1>8, <1>9 DEF MonitorInv

\* The lock is taken from an operation, which goes on.
LEMMA TimesOutKeeps == ASSUME MonitorInv, Monitor!LoginLockTimesOut PROVE MonitorInv'
<1>1. MonitorTypes /\ Monitor!TypeOK
  BY DEF MonitorInv, MonitorTypes
<1>2. /\ UNCHANGED <<stream, board, row, state, phase, loaded, fetching, waiting>>
      /\ running # Monitor!NoOp /\ running.pc # "begin" /\ late = Monitor!NoOp
      /\ late' = running /\ running' = Monitor!NoOp /\ Monitor!Upset
      /\ escaped' = IF running.kind = "immediate" THEN "yes" ELSE escaped
      /\ excused' = IF running.kind = "startup" THEN excused \cup ({running.msg} \ {NoMessage}) ELSE excused
  BY DEF Monitor!LoginLockTimesOut
<1>3. running \in Monitor!Ops /\ OperationTyped(running) /\ running.current = "yes"
  BY <1>1 DEF MonitorTypes, Monitor!TypeOK, Monitor!Slots, Monitor!The
<1>4. excused' \subseteq Messages /\ upsets' \in 0 .. MaxUpsets /\ escaped' \in {"yes", "no"}
  BY <1>1, <1>2, <1>3, UpsetFacts DEF Monitor!TypeOK, Monitor!Ops, Monitor!Posted
<1>5. MonitorTypes'
  <2>1. Monitor!TypeOK'
    BY <1>1, <1>2, <1>3, <1>4, NoOpFacts DEF Monitor!TypeOK, Monitor!Queued
  <2>2. OperationTyped(Monitor!NoOp)
    BY NoOpFacts DEF OperationTyped
  <2>3. QED
    BY <1>1, <1>2, <1>3, <2>1, <2>2, NoOpFacts DEF MonitorTypes, OperationTyped, Monitor!Slots, Monitor!The
<1>6. ASSUME NothingOrphaned, escaped' = "no" PROVE NothingOrphaned'
  <2>1. running.kind # "immediate" /\ excused \subseteq excused' /\ Held \subseteq Held'
    BY <1>2, <1>6, HeldStays DEF Held, QueuedMessages, Monitor!Queued
  <2>2. Duty(late) = {} /\ Duty(running)' = {} /\ Duty(late)' = Duty(running)
    BY <1>2, NoOpFacts DEF Duty
  <2>3. Covered' /\ RowIsKept'
    BY <1>2, <1>6, <2>1, <2>2 DEF NothingOrphaned, Covered, RowIsKept, Safe, Loaded
  <2>4. LateInv'
    BY <1>2, <1>3, <2>1 DEF LateInv, OperationTyped
  <2>5. OperationInv(running, late)
    BY <1>6 DEF NothingOrphaned, Monitor!Slots, Monitor!The, Other
  <2>6. OperationInv(late, running)'
    <3>1. RowSpokenFor(late, running)'
      BY <1>2, <2>1, <2>2, <2>5 DEF OperationInv, RowSpokenFor, Safe
    <3>2. EditSpokenFor(late, running)'
      BY <1>2, <2>1, <2>2, <2>5 DEF OperationInv, EditSpokenFor, Safe
    <3>3. Recorded(late)'
      BY <1>2, <2>1, <2>5 DEF OperationInv, Recorded, Safe, Loaded
    <3>4. Removed(late)' /\ OfflineFinds(late)'
      BY <1>2, <2>1, <2>5 DEF OperationInv, Removed, OfflineFinds
    <3>5. QED
      BY <3>1, <3>2, <3>3, <3>4 DEF OperationInv
  <2>7. OperationInv(running, late)'
    BY <1>2, NoOpFacts DEF OperationInv, RowSpokenFor, EditSpokenFor, Recorded, Removed, OfflineFinds
  <2>8. QED
    BY <2>3, <2>4, <2>6, <2>7 DEF NothingOrphaned, Monitor!Slots, Monitor!The, Other
<1>7. escaped' = "no" => escaped = "no"
  BY <1>1, <1>2 DEF Monitor!TypeOK
<1>8. QED
  BY <1>5, <1>6, <1>7 DEF MonitorInv

LEMMA AllAtRest ==
  ASSUME Covered, ~Loaded \/ board = {}, running = Monitor!NoOp, late = Monitor!NoOp
  PROVE  NothingOrphaned
BY NoOpFacts DEF NothingOrphaned, RowIsKept, Safe, LateInv, OperationInv, RowSpokenFor, EditSpokenFor, Recorded,
     Removed, OfflineFinds, Monitor!Slots, Monitor!The, Other

LEMMA NothingAsked ==
  ASSUME running = Monitor!NoOp, late = Monitor!NoOp, waiting = <<>>,
         stream \in Monitor!Playing, board \subseteq Messages, row \in Monitor!Posted, loaded \in Monitor!Posted,
         state \in Monitor!States, phase \in Monitor!Phases, fetching \subseteq {"poll", "immediate"},
         excused \subseteq Messages, escaped \in {"yes", "no"}, upsets \in 0 .. MaxUpsets
  PROVE  MonitorTypes
<1>1. OperationTyped(Monitor!NoOp)
  BY NoOpFacts DEF OperationTyped
<1>2. Monitor!Queued = {}
  BY DEF Monitor!Queued
<1>3. Monitor!TypeOK
  BY <1>2, NoOpFacts DEF Monitor!TypeOK
<1>4. QED
  BY <1>1, <1>3, NoOpFacts DEF MonitorTypes, Monitor!Slots, Monitor!The

LEMMA CrashKeeps == ASSUME MonitorInv, Monitor!Crash PROVE MonitorInv'
<1>1. MonitorTypes /\ Monitor!TypeOK
  BY DEF MonitorInv, MonitorTypes
<1>2. /\ UNCHANGED <<stream, board, row, escaped>> /\ Monitor!Upset
      /\ phase' = "load" /\ state' = Monitor!NoState /\ loaded' = NoMessage /\ fetching' = {} /\ waiting' = <<>>
      /\ running' = Monitor!NoOp /\ late' = Monitor!NoOp /\ excused' = excused \cup (board \ {row})
  BY DEF Monitor!Crash
<1>3. MonitorTypes'
  <2>1. upsets' \in 0 .. MaxUpsets
    BY <1>1, <1>2, UpsetFacts DEF Monitor!TypeOK
  <2>2. Monitor!Queued' = {}
    BY <1>2 DEF Monitor!Queued
  <2>3. Monitor!TypeOK'
    BY <1>1, <1>2, <2>1, <2>2, NoOpFacts, StateFacts DEF Monitor!TypeOK, Monitor!Phases, Monitor!Posted
  <2>4. OperationTyped(Monitor!NoOp)
    BY NoOpFacts DEF OperationTyped
  <2>5. QED
    BY <1>2, <2>3, <2>4, NoOpFacts DEF MonitorTypes, OperationTyped, Monitor!Slots, Monitor!The
<1>4. NothingOrphaned'
  <2>1. Covered' /\ ~Loaded'
    BY <1>2 DEF Covered, Held, Loaded
  <2>2. QED
    BY <1>2, <2>1, NoOpFacts DEF NothingOrphaned, RowIsKept, LateInv, OperationInv, RowSpokenFor, EditSpokenFor,
         Recorded, Removed, OfflineFinds, Monitor!Slots, Monitor!The, Other
<1>5. QED
  BY <1>3, <1>4 DEF MonitorInv

LEMMA MonitorInitInv == ASSUME Monitor!Init PROVE MonitorInv
<1>1. MonitorTypes
  BY StateFacts, MonitorAssumption, NothingAsked DEF Monitor!Init, Monitor!Posted, Monitor!Phases
<1>2. NothingOrphaned
  BY AllAtRest DEF Monitor!Init, Covered
<1>3. QED
  BY <1>1, <1>2 DEF MonitorInv

LEMMA BeginsKeep == ASSUME MonitorInv, Monitor!Begins PROVE MonitorInv'
  BY CheckForgottenKeeps, LiveStreamKeeps, OfflineStreamKeeps, OfflineBeginsKeeps, StartupBeginsKeeps
     DEF Monitor!Begins

LEMMA MonitorStep == ASSUME MonitorInv, Monitor!Next PROVE MonitorInv'
  BY StartKeeps, BeginsKeep, NoClientKeeps, TimesOutKeeps, TimerFiresKeeps, WorksKeeps, FetchesKeep, PhasesKeep,
     TeardownKeeps, LoadKeeps, StartupCheckKeeps, CrashKeeps DEF Monitor!Next

LEMMA MonitorStutter == ASSUME MonitorInv, UNCHANGED monitorVars PROVE MonitorInv'
<1>1. UNCHANGED <<stream, board, row, state, phase, loaded, fetching, waiting, running, late, excused, escaped, upsets>>
  BY DEF monitorVars
<1>2. MonitorTypes' /\ Held' = Held
  BY <1>1, BesideTypes DEF MonitorInv, MonitorTypes, Monitor!TypeOK, Held, QueuedMessages, Monitor!Queued
<1>3. QED
  BY <1>1, <1>2, BesideKeeps DEF Loaded

-----------------------------------------------------------------------------
(* Catch-up: what the polls of one reward know of its redemptions          *)

Redemption == [at : Nat, status : {"UNFULFILLED", "FULFILLED"}]
Passes == [pc : {"idle", "list", "FULFILLED", "replay"}, cutoff : Int, firstFetch : Int,
           unfulfilled : SUBSET Redemptions, fulfilled : SUBSET Redemptions, succeededMax : Int, failedMin : Int]
Cursors == [at : Int, pinnedBy : {"nothing", "handler", "fetch"}, skipWarned : BOOLEAN]
Histories == [handled : [Redemptions -> {0, 1}], warned : SUBSET Redemptions, excused : SUBSET Redemptions,
              seeded : BOOLEAN, missedBy : Nat, askedAt : Int, failed : BOOLEAN]

\* Everything that is known of lies in the past, and a redemption made now is later.
Past(t) == t < now \/ \E r \in Catchup!Made : t <= redeemed[r].at

CatchupTypes ==
  /\ now \in 0 .. MaxNow /\ timer \in now .. (now + POLL) /\ timer >= POLL
  /\ redeemed \in [Redemptions -> Redemption \cup {Catchup!NotMade}]
  /\ \A r \in Catchup!Made : redeemed[r].at <= now
  /\ \A r, other \in Catchup!Made : redeemed[r].at = redeemed[other].at => r = other
  /\ ledger \in [Redemptions -> Nat \cup {Catchup!Never}] /\ \A r \in Redemptions : ledger[r] <= now
  /\ cursor \in Cursors /\ (cursor # Catchup!NoCursor => cursor.at >= -1 /\ Past(cursor.at))
  /\ lastSeenAt \in 0 .. now \cup {Catchup!Never} /\ connected \in BOOLEAN
  /\ pass \in Passes /\ history \in Histories /\ catchupUpsets \in 0 .. MaxCatchupUpsets

\* A row is there as long as the redemption may be replayed.
LedgerInv ==
  \A r \in Redemptions :
    /\ history.handled[r] = 1 =>
         r \in Catchup!Made /\ (ledger[r] >= redeemed[r].at \/ redeemed[r].at < now - LEDGER_RETENTION)
    /\ ledger[r] # Catchup!Never => history.handled[r] = 1

\* The redemptions that must not be skipped.
Open == Catchup!Unhandled \ (history.warned \cup history.excused)

\* Between passes: a cursor that is not pinned has let everything before the last one's first request by.
CursorInv ==
  pass.pc \in {"idle", "list"} /\ history.seeded =>
    \A r \in Open : redeemed[r].at > cursor.at /\ (cursor.pinnedBy = "nothing" => redeemed[r].at >= history.askedAt)

SeededInv ==
  /\ history.seeded => cursor # Catchup!NoCursor /\ (history.failed => cursor.pinnedBy # "nothing")
  /\ history.askedAt <= now
  /\ lastSeenAt = Catchup!Never => cursor = Catchup!NoCursor /\ ~history.seeded

\* A streamer is not gone for long before as many polls have missed them.
MissedInv ==
  /\ pass.pc # "idle" => history.missedBy = 0 /\ lastSeenAt # Catchup!Never /\ now >= POLL
  /\ pass.pc = "idle" /\ lastSeenAt # Catchup!Never =>
       \/ history.missedBy >= CURSOR_RETENTION \div POLL
       \/ timer - lastSeenAt <= (history.missedBy + 1) * POLL

\* Later than all that the pass knows of.
Later(t) ==
  /\ t >= pass.firstFetch /\ t > pass.succeededMax /\ pass.failedMin = Catchup!Never
  /\ \A b \in Catchup!Batch : redeemed[b].at < t

PassInv ==
  /\ pass.pc \in {"idle", "list"} =>
       /\ pass.unfulfilled = {} /\ pass.fulfilled = {}
       /\ pass.failedMin = Catchup!Never /\ pass.succeededMax = Catchup!Never
  /\ pass.pc = "FULFILLED" =>
       /\ pass.fulfilled = {} /\ pass.failedMin = Catchup!Never /\ pass.succeededMax = Catchup!Never
       /\ \A r \in Open : \/ r \in pass.unfulfilled \/ redeemed[r].status = "FULFILLED"
                          \/ redeemed[r].at >= pass.firstFetch
  /\ pass.pc = "replay" =>
       \A r \in Open : \/ r \in Catchup!Batch
                       \/ pass.failedMin # Catchup!Never /\ pass.failedMin <= redeemed[r].at
                       \/ Later(redeemed[r].at)
  /\ pass.pc \in {"FULFILLED", "replay"} =>
       /\ pass.firstFetch <= now /\ pass.cutoff >= -1
       /\ \A r \in Open : redeemed[r].at > pass.cutoff
       /\ Catchup!Batch \subseteq Catchup!Made /\ \A b \in Catchup!Batch : redeemed[b].at > pass.cutoff
       /\ Past(pass.cutoff)
       /\ cursor # Catchup!NoCursor => cursor.at <= pass.cutoff
       /\ pass.succeededMax # Catchup!Never => pass.succeededMax > pass.cutoff /\ Past(pass.succeededMax)
       /\ pass.failedMin # Catchup!Never => pass.failedMin > pass.cutoff /\ Past(pass.failedMin)

CatchupInv == CatchupTypes /\ LedgerInv /\ CursorInv /\ SeededInv /\ MissedInv /\ PassInv

LEMMA MaxFacts ==
  \A a, b \in Int : /\ Catchup!Max({a, b}) \in {a, b} /\ Catchup!Max({a, b}) >= a /\ Catchup!Max({a, b}) >= b
                    /\ Catchup!Min({a, b}) \in {a, b} /\ Catchup!Min({a, b}) <= a /\ Catchup!Min({a, b}) <= b
<1> SUFFICES ASSUME NEW a \in Int, NEW b \in Int
    PROVE  /\ Catchup!Max({a, b}) \in {a, b} /\ Catchup!Max({a, b}) >= a /\ Catchup!Max({a, b}) >= b
           /\ Catchup!Min({a, b}) \in {a, b} /\ Catchup!Min({a, b}) <= a /\ Catchup!Min({a, b}) <= b
  OBVIOUS
<1> DEFINE P(x) == \A y \in {a, b} : x >= y
           Q(x) == \A y \in {a, b} : x <= y
<1>1. (\E x \in {a, b} : P(x)) /\ (\E x \in {a, b} : Q(x))
  OBVIOUS
<1>2. Catchup!Max({a, b}) = (CHOOSE x \in {a, b} : P(x)) /\ Catchup!Min({a, b}) = CHOOSE x \in {a, b} : Q(x)
  BY DEF Catchup!Max, Catchup!Min
<1> HIDE DEF P, Q
<1>3. Catchup!Max({a, b}) \in {a, b} /\ P(Catchup!Max({a, b})) /\ Catchup!Min({a, b}) \in {a, b} /\ Q(Catchup!Min({a, b}))
  BY <1>1, <1>2
<1>4. QED
  BY <1>3 DEF P, Q

LEMMA MadeFacts ==
  ASSUME CatchupTypes
  PROVE  /\ \A r \in Catchup!Made : /\ r \in Redemptions /\ redeemed[r] \in Redemption /\ redeemed[r].at \in Nat
                                    /\ redeemed[r].status \in {"UNFULFILLED", "FULFILLED"} /\ redeemed[r].at <= now
         /\ Catchup!Unhandled \subseteq Catchup!Made /\ Open \subseteq Catchup!Unhandled
         /\ now \in Nat /\ Catchup!Never = -2
BY CatchupAssumption DEF CatchupTypes, Catchup!Made, Catchup!Unhandled, Open, Redemption, Catchup!NotMade, Catchup!Never

\* What is said of the past stays true.
LEMMA SameRedeemed ==
  ASSUME CatchupTypes, UNCHANGED redeemed, now' \in Int, now' >= now
  PROVE  Catchup!Made' = Catchup!Made /\ \A t \in Int : Past(t) => (Past(t))'
BY MadeFacts DEF Catchup!Made, Past

LEMMA SameTypes ==
  ASSUME CatchupTypes, UNCHANGED <<redeemed, now>>,
         timer' \in now .. (now + POLL), timer' >= POLL,
         ledger' \in [Redemptions -> Nat \cup {Catchup!Never}], \A r \in Redemptions : ledger'[r] <= now,
         cursor' \in Cursors, cursor' # Catchup!NoCursor => cursor'.at >= -1 /\ Past(cursor'.at),
         lastSeenAt' \in 0 .. now \cup {Catchup!Never}, connected' \in BOOLEAN,
         pass' \in Passes, history' \in Histories, catchupUpsets' \in 0 .. MaxCatchupUpsets
  PROVE  CatchupTypes'
<1>1. Catchup!Made' = Catchup!Made /\ \A t \in Int : Past(t) => (Past(t))'
  BY MadeFacts, SameRedeemed
<1>2. \A r \in Catchup!Made' : redeemed'[r].at <= now'
  BY <1>1 DEF CatchupTypes
<1>3. cursor' # Catchup!NoCursor' => cursor'.at >= -1 /\ Past(cursor.at)'
  <2>1. \A t : Past(t) => t < now \/ \E r \in Catchup!Made : t <= redeemed[r].at
    BY DEF Past
  <2>2. QED
    BY <1>1, <2>1 DEF Past, Catchup!NoCursor, Catchup!Never
<1>4. QED
  BY <1>1, <1>2, <1>3 DEF CatchupTypes, Catchup!NotMade, Catchup!Never, Catchup!NoCursor

LEMMA LedgerStays ==
  ASSUME CatchupTypes, LedgerInv, UNCHANGED <<redeemed, ledger>>, now' \in Nat, now' >= now,
         history'.handled = history.handled
  PROVE  LedgerInv'
<1>1. Catchup!Made' = Catchup!Made
  BY MadeFacts, SameRedeemed
<1>2. \A r \in Catchup!Made : redeemed[r].at < now - LEDGER_RETENTION => redeemed[r].at < now' - LEDGER_RETENTION
  BY MadeFacts, CatchupAssumption
<1>3. QED
  BY <1>1, <1>2 DEF LedgerInv, Catchup!Never

LEMMA PruneFacts ==
  ASSUME CatchupTypes, LedgerInv, Catchup!PruneLedger, UNCHANGED <<redeemed, now>>, history'.handled = history.handled
  PROVE  /\ ledger' \in [Redemptions -> Nat \cup {Catchup!Never}] /\ \A r \in Redemptions : ledger'[r] <= now
         /\ LedgerInv'
<1>1. \A r \in Redemptions : ledger'[r] = IF ledger[r] < now - LEDGER_RETENTION THEN Catchup!Never ELSE ledger[r]
  BY DEF Catchup!PruneLedger
<1>2. ledger' \in [Redemptions -> Nat \cup {Catchup!Never}] /\ \A r \in Redemptions : ledger'[r] <= now
  BY <1>1, MadeFacts DEF CatchupTypes, Catchup!PruneLedger
<1>3. Catchup!Made' = Catchup!Made /\ Catchup!Never' = Catchup!Never
  BY DEF Catchup!Made, Catchup!Never, Catchup!NotMade
<1>4. ASSUME NEW r \in Redemptions
      PROVE /\ history.handled[r] = 1 =>
                 r \in Catchup!Made /\ (ledger'[r] >= redeemed[r].at \/ redeemed[r].at < now - LEDGER_RETENTION)
            /\ ledger'[r] # Catchup!Never => history.handled[r] = 1
  <2>1. /\ ledger[r] \in Int
        /\ ledger[r] # Catchup!Never => history.handled[r] = 1
    BY MadeFacts DEF CatchupTypes, LedgerInv
  <2>2. CASE history.handled[r] = 1
    <3>1. r \in Catchup!Made /\ (ledger[r] >= redeemed[r].at \/ redeemed[r].at < now - LEDGER_RETENTION)
      BY <2>2 DEF LedgerInv
    <3>2. redeemed[r].at \in Nat /\ now - LEDGER_RETENTION \in Int
      BY <3>1, MadeFacts, CatchupAssumption
    <3>3. QED
      BY <1>1, <2>1, <2>2, <3>1, <3>2
  <2>3. CASE history.handled[r] # 1
    BY <1>1, <2>1, <2>3 DEF LedgerInv
  <2>4. QED
    BY <2>2, <2>3
<1>5. LedgerInv'
  BY <1>3, <1>4 DEF LedgerInv
<1>6. QED
  BY <1>2, <1>5

\* Fewer are open when more have been handled or given up.
LEMMA OpenShrinks ==
  ASSUME CatchupTypes, UNCHANGED redeemed, history' \in Histories,
         history.warned \subseteq history'.warned, history.excused \subseteq history'.excused,
         \A r \in Redemptions : history.handled[r] # 0 => history'.handled[r] # 0
  PROVE  Open' \subseteq Open /\ Catchup!Made' = Catchup!Made
<1>1. Catchup!Made' = Catchup!Made
  BY DEF Catchup!Made, Catchup!NotMade, Catchup!Never
<1>2. QED
  BY <1>1 DEF Open, Catchup!Unhandled, Catchup!Made

-----------------------------------------------------------------------------
(* Around the poll                                                         *)

\* A redemption that is made now comes after everything.
LEMMA NewRedemption ==
  ASSUME CatchupTypes, NEW r \in Redemptions, NEW status \in {"UNFULFILLED", "FULFILLED"},
         r \notin Catchup!Made, \A other \in Catchup!Made : redeemed[other].at < now,
         redeemed' = [redeemed EXCEPT ![r] = [at |-> now, status |-> status]], UNCHANGED now
  PROVE  /\ redeemed' \in [Redemptions -> Redemption \cup {Catchup!NotMade}]
         /\ Catchup!Made' = Catchup!Made \cup {r} /\ redeemed'[r].at = now /\ redeemed'[r].status = status
         /\ \A other \in Catchup!Made : redeemed'[other] = redeemed[other] /\ other # r
         /\ \A t \in Int : Past(t) => t < now /\ (Past(t))'
<1>1. /\ redeemed'[r] = [at |-> now, status |-> status] /\ now \in Nat
      /\ \A other \in Redemptions \ {r} : redeemed'[other] = redeemed[other]
  BY MadeFacts DEF CatchupTypes
<1>2. redeemed'[r] \in Redemption /\ redeemed'[r] # Catchup!NotMade
  BY <1>1 DEF Redemption, Catchup!NotMade, Catchup!Never
<1>3. redeemed' \in [Redemptions -> Redemption \cup {Catchup!NotMade}]
  BY <1>1, <1>2 DEF CatchupTypes
<1>4. Catchup!Made' = Catchup!Made \cup {r}
  BY <1>1, <1>2 DEF Catchup!Made, Catchup!NotMade, Catchup!Never
<1>5. \A other \in Catchup!Made : redeemed'[other] = redeemed[other] /\ other # r
  BY <1>1 DEF Catchup!Made
<1>6. ASSUME NEW t \in Int, Past(t) PROVE t < now /\ (Past(t))'
  <2>1. t < now
    BY <1>1, <1>6, MadeFacts DEF Past
  <2>2. QED
    BY <2>1 DEF Past
<1>7. QED
  BY <1>1, <1>3, <1>4, <1>5, <1>6

LEMMA RedeemKeeps ==
  ASSUME CatchupInv, NEW r \in Redemptions, Catchup!Redeem(r) PROVE CatchupInv'
<1>1. CatchupTypes /\ LedgerInv /\ CursorInv /\ SeededInv /\ MissedInv /\ PassInv /\ now \in Nat
  BY MadeFacts DEF CatchupInv
<1>2. PICK status \in {"UNFULFILLED", "FULFILLED"} : redeemed' = [redeemed EXCEPT ![r] = [at |-> now, status |-> status]]
  BY DEF Catchup!Redeem
<1>3. /\ r \notin Catchup!Made /\ \A other \in Catchup!Made : redeemed[other].at < now
      /\ UNCHANGED <<now, cursor, lastSeenAt, connected, timer, pass, catchupUpsets>>
      /\ \/ ledger' = [ledger EXCEPT ![r] = now] /\ history' = [history EXCEPT !.handled[r] = 1]
         \/ UNCHANGED <<ledger, history>>
  BY DEF Catchup!Redeem
<1>4. /\ redeemed' \in [Redemptions -> Redemption \cup {Catchup!NotMade}]
      /\ Catchup!Made' = Catchup!Made \cup {r} /\ redeemed'[r].at = now /\ redeemed'[r].status = status
      /\ \A other \in Catchup!Made : redeemed'[other] = redeemed[other] /\ other # r
      /\ \A t \in Int : Past(t) => t < now /\ (Past(t))'
  BY <1>1, <1>2, <1>3, NewRedemption
<1>5. /\ history' \in Histories /\ history'.warned = history.warned /\ history'.excused = history.excused
      /\ history'.seeded = history.seeded /\ history'.missedBy = history.missedBy /\ history'.askedAt = history.askedAt
      /\ history'.failed = history.failed
      /\ \A other \in Redemptions \ {r} : history'.handled[other] = history.handled[other]
      /\ history'.handled[r] = 1 \/ history'.handled[r] = history.handled[r]
  BY <1>1, <1>3 DEF CatchupTypes, Histories
<1>6. /\ ledger' \in [Redemptions -> Nat \cup {Catchup!Never}]
      /\ \A other \in Redemptions : ledger'[other] <= now
      /\ \A other \in Redemptions \ {r} : ledger'[other] = ledger[other]
      /\ \/ ledger'[r] = now /\ history'.handled[r] = 1
         \/ ledger'[r] = ledger[r] /\ history'.handled[r] = history.handled[r]
  BY <1>1, <1>3, <1>5 DEF CatchupTypes, Histories
<1>7. CatchupTypes'
  <2>1. \A other \in Catchup!Made' : redeemed'[other].at <= now
    BY <1>1, <1>4, MadeFacts
  <2>2. \A a, b \in Catchup!Made' : redeemed'[a].at = redeemed'[b].at => a = b
    BY <1>1, <1>3, <1>4, MadeFacts DEF CatchupTypes
  <2>3. cursor # Catchup!NoCursor => cursor.at >= -1 /\ (Past(cursor.at))'
    <3>1. cursor.at \in Int
      BY <1>1 DEF CatchupTypes, Cursors
    <3>2. cursor # Catchup!NoCursor => cursor.at >= -1 /\ Past(cursor.at)
      BY <1>1 DEF CatchupTypes
    <3>3. CASE cursor # Catchup!NoCursor
      <4>1. cursor.at < now
        BY <1>4, <3>1, <3>2, <3>3
      <4>2. QED
        BY <1>3, <3>2, <3>3, <4>1 DEF Past
    <3>4. QED
      BY <3>3
  <2>4. QED
    BY <1>1, <1>3, <1>4, <1>5, <1>6, <2>1, <2>2, <2>3
       DEF CatchupTypes, Catchup!NoCursor, Catchup!NotMade, Catchup!Never, Past
<1>8. LedgerInv'
  <2>1. \A other \in Redemptions \ {r} :
          /\ history'.handled[other] = 1 =>
               other \in Catchup!Made' /\ (ledger'[other] >= redeemed'[other].at \/ redeemed'[other].at < now - LEDGER_RETENTION)
          /\ ledger'[other] # Catchup!Never => history'.handled[other] = 1
    BY <1>1, <1>4, <1>5, <1>6 DEF LedgerInv
  <2>2. /\ history'.handled[r] = 1 =>
             r \in Catchup!Made' /\ (ledger'[r] >= redeemed'[r].at \/ redeemed'[r].at < now - LEDGER_RETENTION)
        /\ ledger'[r] # Catchup!Never => history'.handled[r] = 1
    BY <1>1, <1>3, <1>4, <1>6 DEF LedgerInv
  <2>3. QED
    BY <1>3, <2>1, <2>2 DEF LedgerInv, Catchup!Never
<1>9. Open' \subseteq Open \cup {r} /\ Open \subseteq Catchup!Made
  BY <1>1, <1>4, <1>5, MadeFacts DEF Open, Catchup!Unhandled
<1>10. SeededInv' /\ MissedInv'
  BY <1>1, <1>3, <1>5 DEF SeededInv, MissedInv, Catchup!NoCursor, Catchup!Never
<1>11. CursorInv'
  <2>1. history.seeded => cursor.at < now /\ history.askedAt <= now
    BY <1>1, <1>4 DEF SeededInv, CatchupTypes, Cursors
  <2>2. QED
    BY <1>1, <1>3, <1>4, <1>5, <1>9, <2>1 DEF CursorInv
<1>12. PassInv'
  <2>1. Catchup!Batch' = Catchup!Batch /\ UNCHANGED <<pass, now, cursor>>
    BY <1>3 DEF Catchup!Batch
  <2>2. pass.succeededMax \in Int /\ pass.failedMin \in Int /\ pass.cutoff \in Int /\ pass.firstFetch \in Int
    BY <1>1 DEF CatchupTypes, Passes
  <2>3. CASE pass.pc \in {"idle", "list"}
    BY <1>1, <2>1, <2>3 DEF PassInv, Catchup!Never
  <2>4. CASE pass.pc \in {"FULFILLED", "replay"}
    <3>1. /\ pass.firstFetch <= now /\ pass.cutoff >= -1
          /\ \A other \in Open : redeemed[other].at > pass.cutoff
          /\ Catchup!Batch \subseteq Catchup!Made /\ \A b \in Catchup!Batch : redeemed[b].at > pass.cutoff
          /\ Past(pass.cutoff)
          /\ cursor # Catchup!NoCursor => cursor.at <= pass.cutoff
          /\ pass.succeededMax # Catchup!Never => pass.succeededMax > pass.cutoff /\ Past(pass.succeededMax)
          /\ pass.failedMin # Catchup!Never => pass.failedMin > pass.cutoff /\ Past(pass.failedMin)
      BY <1>1, <2>4 DEF PassInv
    <3>2. /\ pass.cutoff < now
          /\ pass.succeededMax # Catchup!Never => pass.succeededMax < now
          /\ pass.failedMin # Catchup!Never => pass.failedMin < now
      BY <1>4, <2>2, <3>1
    <3>3. \A b \in Catchup!Batch : redeemed'[b] = redeemed[b] /\ redeemed[b].at < now
      BY <1>3, <1>4, <3>1
    <3>4. /\ pass.firstFetch <= now /\ pass.cutoff >= -1
          /\ \A other \in Open' : redeemed'[other].at > pass.cutoff
          /\ Catchup!Batch \subseteq Catchup!Made' /\ \A b \in Catchup!Batch : redeemed'[b].at > pass.cutoff
      BY <1>4, <1>9, <3>1, <3>2, <3>3
    <3>5. /\ pass.cutoff < now \/ \E m \in Catchup!Made' : pass.cutoff <= redeemed'[m].at
          /\ pass.succeededMax # Catchup!Never => pass.succeededMax > pass.cutoff
          /\ pass.failedMin # Catchup!Never => pass.failedMin > pass.cutoff
      BY <3>1, <3>2
    <3>6. CASE pass.pc = "FULFILLED"
      <4>1. \A other \in Open' : \/ other \in pass.unfulfilled \/ redeemed'[other].status = "FULFILLED"
                                 \/ redeemed'[other].at >= pass.firstFetch
        BY <1>1, <1>4, <1>9, <3>1, <3>6 DEF PassInv
      <4>2. pass.fulfilled = {} /\ pass.failedMin = Catchup!Never /\ pass.succeededMax = Catchup!Never
        BY <1>1, <3>6 DEF PassInv
      <4>3. QED
        BY <2>1, <3>1, <3>2, <3>4, <3>5, <3>6, <4>1, <4>2 DEF PassInv, Past, Catchup!Never, Catchup!NoCursor
    <3>7. CASE pass.pc = "replay"
      <4>1. ASSUME NEW other \in Open'
            PROVE  \/ other \in Catchup!Batch
                   \/ pass.failedMin # Catchup!Never /\ pass.failedMin <= redeemed'[other].at
                   \/ /\ redeemed'[other].at >= pass.firstFetch /\ redeemed'[other].at > pass.succeededMax
                      /\ pass.failedMin = Catchup!Never /\ \A b \in Catchup!Batch : redeemed'[b].at < redeemed'[other].at
        <5>1. CASE other = r
          <6>1. pass.succeededMax < now
            BY <1>1, <3>2, MadeFacts DEF Catchup!Never
          <6>2. QED
            BY <1>1, <1>4, <2>2, <3>1, <3>2, <3>3, <5>1, <6>1
        <5>2. CASE other # r
          <6>1. other \in Open /\ redeemed'[other] = redeemed[other]
            BY <1>4, <1>9, <5>2
          <6>2. QED
            BY <1>1, <3>3, <3>7, <6>1 DEF PassInv, Later
        <5>3. QED
          BY <5>1, <5>2
      <4>2. QED
        BY <2>1, <3>1, <3>2, <3>4, <3>5, <3>7, <4>1 DEF PassInv, Past, Later, Catchup!Never, Catchup!NoCursor
    <3>8. QED
      BY <2>4, <3>6, <3>7
  <2>5. QED
    BY <1>1, <2>3, <2>4 DEF CatchupTypes, Passes
<1>13. QED
  BY <1>7, <1>8, <1>10, <1>11, <1>12 DEF CatchupInv

\* What the running pass knows still holds when others act.
LEMMA PassStays ==
  ASSUME CatchupTypes, PassInv, UNCHANGED <<pass, cursor, redeemed>>, now' \in Nat, now' >= now, Open' \subseteq Open
  PROVE  PassInv'
<1>1. Catchup!Made' = Catchup!Made /\ Catchup!Batch' = Catchup!Batch /\ \A t \in Int : Past(t) => (Past(t))'
  BY MadeFacts, SameRedeemed DEF Catchup!Batch
<1>2. pass.succeededMax \in Int /\ pass.failedMin \in Int /\ pass.cutoff \in Int /\ pass.firstFetch \in Int /\ now \in Nat
  BY MadeFacts DEF CatchupTypes, Passes
<1>3. /\ Past(pass.cutoff) => (Past(pass.cutoff))'
      /\ Past(pass.succeededMax) => (Past(pass.succeededMax))'
      /\ Past(pass.failedMin) => (Past(pass.failedMin))'
  BY <1>1, <1>2 DEF Past
<1>4. \A r \in Open : Later(redeemed[r].at) => (Later(redeemed[r].at))'
  BY <1>1 DEF Later, Catchup!Never
<1>5. pass.pc \in {"idle", "list"} =>
        /\ pass.unfulfilled = {} /\ pass.fulfilled = {}
        /\ pass.failedMin = Catchup!Never /\ pass.succeededMax = Catchup!Never
  BY DEF PassInv
<1>6. pass.pc = "FULFILLED" =>
        /\ pass.fulfilled = {} /\ pass.failedMin = Catchup!Never /\ pass.succeededMax = Catchup!Never
        /\ \A r \in Open' : \/ r \in pass.unfulfilled \/ redeemed[r].status = "FULFILLED"
                            \/ redeemed[r].at >= pass.firstFetch
  BY DEF PassInv
<1>7. pass.pc = "replay" =>
        \A r \in Open' : \/ r \in Catchup!Batch
                         \/ pass.failedMin # Catchup!Never /\ pass.failedMin <= redeemed[r].at
                         \/ (Later(redeemed[r].at))'
  BY <1>4 DEF PassInv
<1>8. pass.pc \in {"FULFILLED", "replay"} =>
        /\ pass.firstFetch <= now' /\ pass.cutoff >= -1
        /\ \A r \in Open' : redeemed[r].at > pass.cutoff
        /\ Catchup!Batch \subseteq Catchup!Made /\ \A b \in Catchup!Batch : redeemed[b].at > pass.cutoff
        /\ (Past(pass.cutoff))'
        /\ cursor # Catchup!NoCursor => cursor.at <= pass.cutoff
        /\ pass.succeededMax # Catchup!Never => pass.succeededMax > pass.cutoff /\ (Past(pass.succeededMax))'
        /\ pass.failedMin # Catchup!Never => pass.failedMin > pass.cutoff /\ (Past(pass.failedMin))'
  BY <1>2, <1>3 DEF PassInv
<1>9. QED
  BY <1>1, <1>5, <1>6, <1>7, <1>8 DEF PassInv, Later, Catchup!NoCursor, Catchup!Never

LEMMA NoPassFacts ==
  /\ Catchup!NoPass \in Passes /\ Catchup!NoPass.pc = "idle" /\ Catchup!NoPass.unfulfilled = {}
  /\ Catchup!NoPass.fulfilled = {} /\ Catchup!NoPass.failedMin = Catchup!Never /\ Catchup!NoPass.succeededMax = Catchup!Never
  BY DEF Catchup!NoPass, Passes, Catchup!Never

LEMMA NoCursorFacts ==
  /\ Catchup!NoCursor \in Cursors /\ Catchup!NoCursor.at = -2 /\ Catchup!NoCursor.pinnedBy = "nothing"
  /\ Catchup!Never = -2
  BY DEF Catchup!NoCursor, Cursors, Catchup!Never

LEMMA AtRestInv == ASSUME pass' \in {Catchup!NoPass, [Catchup!NoPass EXCEPT !.pc = "list"]} PROVE PassInv'
<1>1. /\ pass'.pc \in {"idle", "list"} /\ pass'.unfulfilled = {} /\ pass'.fulfilled = {}
      /\ pass'.failedMin = Catchup!Never /\ pass'.succeededMax = Catchup!Never
  BY DEF Catchup!NoPass
<1>2. QED
  BY <1>1 DEF PassInv, Catchup!Never

\* The pass is over.
LEMMA PassEndsFacts ==
  ASSUME CatchupTypes, LedgerInv, MissedInv, pass.pc # "idle", Catchup!PassEnds, UNCHANGED <<redeemed, now, timer>>,
         history'.handled = history.handled, history'.missedBy = history.missedBy
  PROVE  /\ pass' = Catchup!NoPass /\ pass' \in Passes /\ PassInv' /\ LedgerInv' /\ MissedInv' /\ lastSeenAt' = now
         /\ lastSeenAt' \in 0 .. now /\ ledger' \in [Redemptions -> Nat \cup {Catchup!Never}]
         /\ \A r \in Redemptions : ledger'[r] <= now
<1>1. pass' = Catchup!NoPass /\ lastSeenAt' = now /\ Catchup!PruneLedger
  BY DEF Catchup!PassEnds
<1>2. pass' \in Passes /\ PassInv' /\ pass'.pc = "idle"
  BY <1>1, NoPassFacts, AtRestInv
<1>3. history'.missedBy = 0 /\ timer \in Int /\ timer <= now + POLL /\ now \in Nat
  BY MadeFacts, CatchupAssumption DEF MissedInv, CatchupTypes
<1>4. MissedInv'
  <2>1. timer - now <= (0 + 1) * POLL
    BY <1>3, CatchupAssumption
  <2>2. QED
    BY <1>1, <1>2, <1>3, <2>1 DEF MissedInv
<1>5. QED
  BY <1>1, <1>2, <1>3, <1>4, PruneFacts

LEMMA FulfilledKeeps == ASSUME CatchupInv, NEW r \in Redemptions, Catchup!Fulfilled(r) PROVE CatchupInv'
<1>1. CatchupTypes /\ LedgerInv /\ CursorInv /\ SeededInv /\ MissedInv /\ PassInv
  BY DEF CatchupInv
<1>2. /\ UNCHANGED <<now, ledger, cursor, lastSeenAt, connected, timer, pass, history, catchupUpsets>>
      /\ pass.pc = "FULFILLED" /\ redeemed[r].status = "UNFULFILLED"
      /\ redeemed' = [redeemed EXCEPT ![r].status = "FULFILLED"]
  BY DEF Catchup!Fulfilled
<1>3. redeemed[r] \in Redemption
  BY <1>1, <1>2 DEF CatchupTypes, Catchup!NotMade
<1>4. /\ redeemed' \in [Redemptions -> Redemption \cup {Catchup!NotMade}]
      /\ \A other \in Redemptions \ {r} : redeemed'[other] = redeemed[other]
      /\ redeemed'[r].at = redeemed[r].at /\ redeemed'[r].status = "FULFILLED" /\ redeemed'[r] \in Redemption
  BY <1>1, <1>2, <1>3 DEF CatchupTypes, Redemption
<1>5. Catchup!Made' = Catchup!Made /\ \A other \in Redemptions : redeemed'[other].at = redeemed[other].at
  BY <1>3, <1>4 DEF Catchup!Made, Catchup!NotMade, Catchup!Never, Redemption
<1>6. Open' = Open /\ Catchup!Batch' = Catchup!Batch /\ Catchup!Made \subseteq Redemptions /\ Open \subseteq Catchup!Made
  BY <1>1, <1>2, <1>5, MadeFacts DEF Open, Catchup!Unhandled, Catchup!Batch
<1>7. (\A t \in Int : Past(t) <=> (Past(t))') /\ (Past(cursor.at))' = Past(cursor.at)
  BY <1>2, <1>5, <1>6 DEF Past
<1>8. CatchupTypes'
  BY <1>1, <1>2, <1>4, <1>5, <1>6, <1>7 DEF CatchupTypes, Catchup!NotMade, Catchup!Never, Catchup!NoCursor
<1>9. LedgerInv'
  BY <1>1, <1>2, <1>5 DEF LedgerInv, Catchup!Never
<1>10. SeededInv' /\ MissedInv'
  BY <1>1, <1>2 DEF SeededInv, MissedInv, Catchup!Never, Catchup!NoCursor
<1>11. CursorInv'
  BY <1>2 DEF CursorInv
<1>12. PassInv'
  <2>1. /\ pass.fulfilled = {} /\ pass.failedMin = Catchup!Never /\ pass.succeededMax = Catchup!Never
        /\ \A other \in Open : \/ other \in pass.unfulfilled \/ redeemed'[other].status = "FULFILLED"
                               \/ redeemed'[other].at >= pass.firstFetch
    BY <1>1, <1>2, <1>4, <1>5, <1>6 DEF PassInv
  <2>2. /\ pass.firstFetch <= now /\ pass.cutoff >= -1
        /\ \A other \in Open : redeemed'[other].at > pass.cutoff
        /\ Catchup!Batch \subseteq Catchup!Made /\ \A b \in Catchup!Batch : redeemed'[b].at > pass.cutoff
        /\ Past(pass.cutoff)
        /\ cursor # Catchup!NoCursor => cursor.at <= pass.cutoff
    BY <1>1, <1>2, <1>5, <1>6 DEF PassInv
  <2>3. (Past(pass.cutoff))'
    BY <1>2, <1>5, <1>6, <2>2 DEF Past
  <2>4. QED
    BY <1>2, <1>5, <1>6, <2>1, <2>2, <2>3 DEF PassInv, Catchup!Never, Catchup!NoCursor
<1>13. QED
  BY <1>8, <1>9, <1>10, <1>11, <1>12 DEF CatchupInv

LEMMA CatchupUpsetFacts == ASSUME CatchupTypes, Catchup!Upset PROVE catchupUpsets' \in 0 .. MaxCatchupUpsets
  BY CatchupAssumption DEF CatchupTypes, Catchup!Upset

\* The parts, when neither the redemptions nor what is known of them change.
LEMMA PartsStay ==
  ASSUME CatchupInv, UNCHANGED <<redeemed, ledger, cursor, lastSeenAt, timer, pass, history>>, now' \in Nat, now' >= now
  PROVE  LedgerInv' /\ CursorInv' /\ SeededInv' /\ MissedInv' /\ PassInv'
<1>1. CatchupTypes /\ LedgerInv /\ CursorInv /\ SeededInv /\ MissedInv /\ PassInv /\ now \in Nat
  BY MadeFacts DEF CatchupInv
<1>2. Open' = Open
  BY DEF Open, Catchup!Unhandled, Catchup!Made, Catchup!NotMade, Catchup!Never
<1>3. LedgerInv' /\ PassInv'
  BY <1>1, <1>2, LedgerStays, PassStays
<1>4. CursorInv'
  BY <1>1, <1>2 DEF CursorInv
<1>5. history.askedAt \in Int
  BY <1>1 DEF CatchupTypes, Histories
<1>6. SeededInv' /\ MissedInv'
  BY <1>1, <1>5, CatchupAssumption DEF SeededInv, MissedInv, Catchup!Never, Catchup!NoCursor
<1>7. QED
  BY <1>3, <1>4, <1>6

LEMMA ConnectionKeeps == ASSUME CatchupInv, Catchup!ConnectionChanges PROVE CatchupInv'
<1>1. CatchupTypes /\ now \in Nat
  BY MadeFacts DEF CatchupInv
<1>2. UNCHANGED <<now, redeemed, ledger, cursor, lastSeenAt, timer, pass, history>> /\ connected' = ~connected
  BY DEF Catchup!ConnectionChanges
<1>3. LedgerInv' /\ CursorInv' /\ SeededInv' /\ MissedInv' /\ PassInv'
  BY <1>1, <1>2, PartsStay
<1>4. catchupUpsets' \in 0 .. MaxCatchupUpsets
  BY <1>1, CatchupUpsetFacts DEF Catchup!ConnectionChanges
<1>5. CatchupTypes'
  <2>1. (connected \in BOOLEAN) => (~connected) \in BOOLEAN
    OBVIOUS
  <2>2. QED
    BY <1>1, <1>2, <1>4, <2>1, SameTypes DEF CatchupTypes
<1>6. QED
  BY <1>3, <1>5 DEF CatchupInv

LEMMA ClockKeeps == ASSUME CatchupInv, Catchup!Clock PROVE CatchupInv'
<1>1. CatchupTypes /\ now \in Nat
  BY MadeFacts DEF CatchupInv
<1>2. /\ UNCHANGED <<redeemed, ledger, cursor, lastSeenAt, connected, timer, pass, history>>
      /\ now < MaxNow /\ timer > now /\ now' = now + 1
  BY DEF Catchup!Clock
<1>3. LedgerInv' /\ CursorInv' /\ SeededInv' /\ MissedInv' /\ PassInv'
  BY <1>1, <1>2, PartsStay
<1>4. catchupUpsets' \in 0 .. MaxCatchupUpsets
  BY <1>1, CatchupUpsetFacts DEF Catchup!Clock, Catchup!NoUpset, CatchupTypes
<1>5. Catchup!Made' = Catchup!Made /\ (Past(cursor.at) => (Past(cursor.at))')
  <2>1. cursor.at \in Int
    BY <1>1 DEF CatchupTypes, Cursors
  <2>2. QED
    BY <1>1, <1>2, <2>1, MadeFacts, SameRedeemed DEF Past
<1>6. /\ now' \in 0 .. MaxNow /\ timer \in now' .. (now' + POLL) /\ lastSeenAt \in 0 .. now' \cup {Catchup!Never}
      /\ \A r \in Catchup!Made : redeemed[r].at <= now'
      /\ \A r \in Redemptions : ledger[r] <= now'
  <2>1. timer \in Int /\ timer <= now + POLL /\ lastSeenAt \in 0 .. now \cup {Catchup!Never}
    BY <1>1, CatchupAssumption DEF CatchupTypes
  <2>2. \A r \in Catchup!Made : redeemed[r].at <= now'
    BY <1>1, <1>2, MadeFacts
  <2>3. \A r \in Redemptions : ledger[r] <= now'
    BY <1>1, <1>2, MadeFacts DEF CatchupTypes
  <2>4. QED
    BY <1>1, <1>2, <2>1, <2>2, <2>3, CatchupAssumption
<1>7. CatchupTypes'
  BY <1>1, <1>2, <1>4, <1>5, <1>6 DEF CatchupTypes, Catchup!NotMade, Catchup!Never, Catchup!NoCursor
<1>8. QED
  BY <1>3, <1>7 DEF CatchupInv

LEMMA RestartKeepsCatchup == ASSUME CatchupInv, Catchup!Restart PROVE CatchupInv'
<1>1. CatchupTypes /\ LedgerInv /\ now \in Nat
  BY MadeFacts DEF CatchupInv
<1>2. /\ UNCHANGED <<now, redeemed, ledger, connected>> /\ cursor' = Catchup!NoCursor /\ lastSeenAt' = Catchup!Never
      /\ pass' = Catchup!NoPass /\ timer' = now + POLL
      /\ history' = [history EXCEPT !.excused = @ \cup Catchup!Unhandled, !.seeded = FALSE, !.missedBy = 0]
  BY DEF Catchup!Restart
<1>3. /\ history' \in Histories /\ history'.handled = history.handled /\ history'.seeded = FALSE
      /\ history'.askedAt = history.askedAt /\ history'.failed = history.failed
  <2>1. Catchup!Unhandled \subseteq Redemptions
    BY <1>1, MadeFacts
  <2>2. QED
    BY <1>1, <1>2, <2>1 DEF CatchupTypes, Histories
<1>4. catchupUpsets' \in 0 .. MaxCatchupUpsets
  BY <1>1, CatchupUpsetFacts DEF Catchup!Restart
<1>5. CatchupTypes'
  BY <1>1, <1>2, <1>3, <1>4, SameTypes, NoPassFacts, NoCursorFacts, CatchupAssumption DEF CatchupTypes
<1>6. LedgerInv' /\ PassInv'
  BY <1>1, <1>2, <1>3, LedgerStays, AtRestInv
<1>7. CursorInv' /\ MissedInv'
  BY <1>2, <1>3, NoPassFacts DEF CursorInv, MissedInv, Catchup!Never
<1>8. SeededInv'
  BY <1>2, <1>3 DEF CatchupInv, SeededInv, Catchup!NoCursor, Catchup!Never
<1>9. QED
  BY <1>5, <1>6, <1>7, <1>8 DEF CatchupInv

LEMMA IntervalFacts ==
  /\ CURSOR_RETENTION \div POLL \in Nat
  /\ \A m \in Nat : /\ m < CURSOR_RETENTION \div POLL => (m + 1) * POLL <= CURSOR_RETENTION
                    /\ ((m + 1) + 1) * POLL = (m + 1) * POLL + POLL /\ (m + 1) * POLL \in Nat
<1> DEFINE c == CURSOR_RETENTION
           p == POLL
           q == c \div p
<1>1. c \in Nat /\ p \in Nat \ {0}
  BY CatchupAssumption
<1> HIDE DEF c, p
<1>2. q \in Nat /\ p * q <= c
  BY <1>1, SMT
<1> HIDE DEF q
<1>3. ASSUME NEW m \in Nat PROVE ((m + 1) + 1) * p = (m + 1) * p + p /\ (m + 1) * p \in Nat
  BY <1>1
<1>4. ASSUME NEW m \in Nat, m < q PROVE (m + 1) * p <= c
  <2>1. PICK d \in Nat : q = (m + 1) + d
    <3>1. q - (m + 1) \in Nat /\ q = (m + 1) + (q - (m + 1))
      BY <1>2, <1>4
    <3>2. QED
      BY <3>1
  <2>2. p * q = (m + 1) * p + p * d /\ p * d \in Nat
    BY <1>1, <2>1
  <2>3. QED
    BY <1>1, <1>2, <2>2
<1>5. QED
  BY <1>2, <1>3, <1>4 DEF q, p, c

LEMMA PollFiresKeeps == ASSUME CatchupInv, Catchup!PollTimerFires PROVE CatchupInv'
<1> DEFINE cap == CURSOR_RETENTION \div POLL
<1>1. CatchupTypes /\ LedgerInv /\ CursorInv /\ SeededInv /\ MissedInv /\ PassInv /\ now \in Nat
  BY MadeFacts DEF CatchupInv
<1>2. UNCHANGED <<now, redeemed, connected, catchupUpsets>> /\ timer = now /\ timer' = now + POLL
  BY DEF Catchup!PollTimerFires
<1>3. timer' \in now .. (now + POLL) /\ timer' >= POLL /\ now >= POLL
  BY <1>1, <1>2, CatchupAssumption DEF CatchupTypes
<1>4. CASE pass.pc # "idle"
  <2>1. UNCHANGED <<cursor, lastSeenAt, ledger, pass, history>>
    BY <1>4 DEF Catchup!PollTimerFires
  <2>2. CatchupTypes'
    BY <1>1, <1>2, <1>3, <2>1, SameTypes DEF CatchupTypes
  <2>3. Open' = Open
    BY <1>2, <2>1 DEF Open, Catchup!Unhandled, Catchup!Made, Catchup!NotMade, Catchup!Never
  <2>4. LedgerInv' /\ PassInv'
    BY <1>1, <1>2, <2>1, <2>3, LedgerStays, PassStays
  <2>5. CursorInv' /\ SeededInv' /\ MissedInv'
    BY <1>1, <1>2, <1>4, <2>1, <2>3 DEF CursorInv, SeededInv, MissedInv, Catchup!Never, Catchup!NoCursor
  <2>6. QED
    BY <2>2, <2>4, <2>5 DEF CatchupInv
<1>5. CASE pass.pc = "idle"
  <2>1. /\ cursor' = IF Catchup!Expired THEN Catchup!NoCursor ELSE cursor
        /\ history' = [history EXCEPT
             !.missedBy = IF connected THEN 0 ELSE Catchup!Min({@ + 1, cap}),
             !.seeded = @ /\ ~(Catchup!Expired /\ Catchup!GoneForLong),
             !.excused = IF Catchup!Expired /\ cursor # Catchup!NoCursor /\ Catchup!GoneForLong
                         THEN @ \cup Catchup!Unhandled ELSE @]
    BY <1>5 DEF Catchup!PollTimerFires
  <2>2. IF connected
        THEN pass' = [Catchup!NoPass EXCEPT !.pc = "list"] /\ lastSeenAt' = now /\ UNCHANGED ledger
        ELSE lastSeenAt' = (IF Catchup!Expired THEN Catchup!Never ELSE lastSeenAt) /\ Catchup!PruneLedger /\ UNCHANGED pass
    BY <1>5 DEF Catchup!PollTimerFires
  <2>3. history \in Histories /\ history.missedBy \in Nat /\ cap \in Nat /\ Catchup!Unhandled \subseteq Redemptions
    BY <1>1, IntervalFacts, MadeFacts DEF CatchupTypes, Histories
  <2> DEFINE next == history.missedBy + 1
  <2> HIDE DEF cap
  <2>4. next \in Nat /\ Catchup!Min({next, cap}) \in {next, cap} /\ Catchup!Min({next, cap}) <= cap
    <3>1. next \in Nat /\ next \in Int /\ cap \in Int
      BY <2>3
    <3> HIDE DEF next
    <3>2. Catchup!Min({next, cap}) \in {next, cap} /\ Catchup!Min({next, cap}) <= cap
      BY <3>1, MaxFacts, Zenon
    <3>3. QED
      BY <3>1, <3>2
  <2> DEFINE missed == IF connected THEN 0 ELSE Catchup!Min({next, cap})
  <2>5. missed \in Nat
    BY <2>3, <2>4
  <2> DEFINE seeded == history.seeded /\ ~(Catchup!Expired /\ Catchup!GoneForLong)
             given == IF Catchup!Expired /\ cursor # Catchup!NoCursor /\ Catchup!GoneForLong
                      THEN history.excused \cup Catchup!Unhandled ELSE history.excused
  <2>X1. seeded \in BOOLEAN /\ given \subseteq Redemptions /\ history.excused \subseteq given
    BY <2>3 DEF Histories
  <2>X2. history' = [history EXCEPT !.missedBy = missed, !.seeded = seeded, !.excused = given]
    BY <2>1 DEF missed
  <2> HIDE DEF missed, seeded, given
  <2>6. /\ history' \in Histories /\ history'.handled = history.handled /\ history'.warned = history.warned
        /\ history'.askedAt = history.askedAt /\ history'.missedBy = missed /\ history'.failed = history.failed
        /\ history.excused \subseteq history'.excused
        /\ history'.seeded = seeded
    BY <2>3, <2>5, <2>X1, <2>X2 DEF Histories
  <2>7. lastSeenAt # Catchup!Never /\ Catchup!Expired => Catchup!GoneForLong
    <3>1. SUFFICES ASSUME lastSeenAt # Catchup!Never, history.missedBy < cap, Catchup!Expired PROVE FALSE
      BY <2>3 DEF Catchup!GoneForLong, cap
    <3>2. lastSeenAt \in Nat
      BY <1>1, <3>1 DEF CatchupTypes
    <3>3. now - lastSeenAt <= (history.missedBy + 1) * POLL
      BY <1>1, <1>2, <1>5, <2>3, <3>1 DEF MissedInv, cap
    <3>4. (history.missedBy + 1) * POLL <= CURSOR_RETENTION /\ (history.missedBy + 1) * POLL \in Nat
      BY <2>3, <3>1, IntervalFacts DEF cap
    <3>5. QED
      BY <1>1, <3>1, <3>2, <3>3, <3>4, CatchupAssumption DEF Catchup!Expired
  <2>8. Catchup!Expired => ~history'.seeded
    BY <1>1, <2>6, <2>7 DEF SeededInv, seeded
  <2>9. Open' \subseteq Open
    BY <1>1, <1>2, <2>6, OpenShrinks
  <2>10. ~Catchup!Expired => cursor' = cursor
    BY <2>1
  <2>11. CursorInv' /\ SeededInv'
    <3>1. history'.seeded => history.seeded /\ cursor' = cursor
      BY <2>6, <2>8, <2>10 DEF seeded
    <3>2. CursorInv'
      BY <1>1, <1>2, <1>5, <2>6, <2>9, <3>1 DEF CursorInv
    <3>3. lastSeenAt' = Catchup!Never => cursor' = Catchup!NoCursor /\ ~history'.seeded
      <4>1. ASSUME lastSeenAt' = Catchup!Never PROVE Catchup!Expired
        BY <1>1, <2>2, <4>1, MadeFacts DEF Catchup!Expired
      <4>2. QED
        BY <2>1, <2>8, <4>1
    <3>4. QED
      BY <1>1, <1>2, <2>6, <3>1, <3>2, <3>3 DEF SeededInv, Catchup!Never, Catchup!NoCursor
  <2>12. cursor' \in Cursors /\ (cursor' # Catchup!NoCursor => cursor'.at >= -1 /\ Past(cursor'.at))
    BY <1>1, <2>1, NoCursorFacts DEF CatchupTypes
  <2>13. CASE connected
    <3>1. pass' = [Catchup!NoPass EXCEPT !.pc = "list"] /\ lastSeenAt' = now /\ UNCHANGED ledger /\ missed = 0
      BY <2>2, <2>13 DEF missed
    <3>2. pass' \in Passes /\ pass'.pc = "list" /\ PassInv'
      BY <3>1, NoPassFacts, AtRestInv DEF Passes
    <3>3. LedgerInv'
      BY <1>1, <1>2, <2>6, <3>1, LedgerStays
    <3>4. MissedInv'
      BY <1>1, <1>2, <1>3, <2>6, <3>1, <3>2 DEF MissedInv, Catchup!Never
    <3>5. CatchupTypes'
      BY <1>1, <1>2, <1>3, <2>6, <2>12, <3>1, <3>2, SameTypes DEF CatchupTypes
    <3>6. QED
      BY <2>11, <3>2, <3>3, <3>4, <3>5 DEF CatchupInv
  <2>14. CASE ~connected
    <3>1. /\ lastSeenAt' = (IF Catchup!Expired THEN Catchup!Never ELSE lastSeenAt) /\ Catchup!PruneLedger /\ UNCHANGED pass
          /\ missed = Catchup!Min({next, cap})
      BY <2>2, <2>14 DEF missed
    <3>2. LedgerInv' /\ ledger' \in [Redemptions -> Nat \cup {Catchup!Never}] /\ \A r \in Redemptions : ledger'[r] <= now
      BY <1>1, <1>2, <2>6, <3>1, PruneFacts
    <3>3. PassInv'
      <4>1. /\ pass.pc = "idle" /\ pass.unfulfilled = {} /\ pass.fulfilled = {}
            /\ pass.failedMin = Catchup!Never /\ pass.succeededMax = Catchup!Never
        BY <1>1, <1>5 DEF PassInv
      <4>2. QED
        BY <3>1, <4>1 DEF PassInv, Catchup!Never
    <3>4. MissedInv'
      <4>1. ASSUME lastSeenAt' # Catchup!Never
            PROVE  missed >= cap \/ timer' - lastSeenAt' <= (missed + 1) * POLL
        <5>1. lastSeenAt' = lastSeenAt /\ lastSeenAt \in Nat
          BY <1>1, <3>1, <4>1 DEF CatchupTypes
        <5>2. CASE missed = cap
          BY <2>3, <5>2
        <5>3. CASE missed # cap
          <6>1. missed = history.missedBy + 1 /\ missed <= cap
            BY <2>4, <3>1, <5>3
          <6>2. timer - lastSeenAt <= (history.missedBy + 1) * POLL
            BY <1>1, <1>5, <2>3, <4>1, <5>1, <5>3, <6>1 DEF MissedInv, cap
          <6>3. (missed + 1) * POLL = (history.missedBy + 1) * POLL + POLL /\ (history.missedBy + 1) * POLL \in Nat
            BY <2>3, <6>1, IntervalFacts
          <6> DEFINE x == (history.missedBy + 1) * POLL
                     y == (missed + 1) * POLL
          <6>4. timer - lastSeenAt <= x /\ y = x + POLL /\ x \in Nat /\ POLL \in Nat
            BY <6>2, <6>3, CatchupAssumption
          <6> HIDE DEF x, y
          <6>5. timer' - lastSeenAt' <= y
            BY <1>1, <1>2, <5>1, <6>4
          <6>6. QED
            BY <6>5 DEF y
        <5>4. QED
          BY <5>2, <5>3
      <4>2. QED
        BY <1>5, <2>6, <3>1, <4>1 DEF MissedInv, Catchup!Never, cap
    <3>5. lastSeenAt' \in 0 .. now \cup {Catchup!Never}
      BY <1>1, <3>1 DEF CatchupTypes
    <3>6. CatchupTypes'
      BY <1>1, <1>2, <1>3, <2>6, <2>12, <3>1, <3>2, <3>5, SameTypes DEF CatchupTypes
    <3>7. QED
      BY <2>11, <3>2, <3>3, <3>4, <3>6 DEF CatchupInv
  <2>15. QED
    BY <2>13, <2>14
<1>6. QED
  BY <1>4, <1>5

LEMMA CutoffFacts ==
  ASSUME CatchupTypes, now >= POLL
  PROVE  /\ Catchup!Cutoff \in Int /\ Catchup!Cutoff >= -1 /\ Past(Catchup!Cutoff)
         /\ cursor # Catchup!NoCursor => cursor.at <= Catchup!Cutoff
<1>1. now \in Nat /\ cursor.at \in Int /\ POLL \in Nat \ {0} /\ MAX_CURSOR_LAG \in Nat \ {0}
  BY MadeFacts, CatchupAssumption DEF CatchupTypes, Cursors
<1>2. CASE cursor = Catchup!NoCursor
  BY <1>1, <1>2 DEF Catchup!Cutoff, Past
<1>3. CASE cursor # Catchup!NoCursor
  <2>1. cursor.at >= -1 /\ Past(cursor.at)
    BY <1>3 DEF CatchupTypes
  <2>2. CASE cursor.at >= now - MAX_CURSOR_LAG
    BY <1>1, <1>3, <2>1, <2>2 DEF Catchup!Cutoff
  <2>3. CASE ~(cursor.at >= now - MAX_CURSOR_LAG)
    <3>1. Catchup!Cutoff = now - MAX_CURSOR_LAG
      BY <1>3, <2>3 DEF Catchup!Cutoff
    <3>2. QED
      BY <1>1, <2>1, <2>3, <3>1 DEF Past
  <2>4. QED
    BY <2>2, <2>3
<1>4. QED
  BY <1>2, <1>3

\* The cursors that a pass leaves.
LEMMA CursorFacts ==
  ASSUME CatchupTypes
  PROVE  /\ Catchup!Warned \in Cursors /\ Catchup!Warned.at = cursor.at /\ Catchup!Warned.pinnedBy = cursor.pinnedBy
         /\ Catchup!Warned = Catchup!NoCursor <=> cursor = Catchup!NoCursor
         /\ \A cutoff \in Int, from \in Cursors :
              /\ Catchup!FetchFailedAt(cutoff, from) \in Cursors /\ Catchup!FetchFailedAt(cutoff, from).at = cutoff
              /\ Catchup!FetchFailedAt(cutoff, from).pinnedBy # "nothing"
              /\ Catchup!FetchFailedAt(cutoff, from) # Catchup!NoCursor
<1>1. cursor \in Cursors /\ (cursor # Catchup!NoCursor => cursor.at >= -1)
  BY DEF CatchupTypes
<1> DEFINE warned == cursor.skipWarned \/ (Catchup!Cutoff # cursor.at /\ cursor.pinnedBy = "fetch")
<1>2. warned \in BOOLEAN /\ (cursor.pinnedBy # "fetch" => warned = cursor.skipWarned)
  BY <1>1 DEF Cursors
<1>3. Catchup!Warned = [cursor EXCEPT !.skipWarned = warned]
  BY DEF Catchup!Warned
<1> HIDE DEF warned
<1>4. Catchup!Warned \in Cursors /\ Catchup!Warned.at = cursor.at /\ Catchup!Warned.pinnedBy = cursor.pinnedBy
  BY <1>1, <1>2, <1>3 DEF Cursors
<1>5. Catchup!Warned = Catchup!NoCursor <=> cursor = Catchup!NoCursor
  <2>1. CASE cursor = Catchup!NoCursor
    <3>1. [cursor EXCEPT !.skipWarned = cursor.skipWarned] = cursor
      BY <1>1 DEF Cursors
    <3>2. QED
      BY <1>2, <1>3, <2>1, <3>1, NoCursorFacts
  <2>2. CASE cursor # Catchup!NoCursor
    <3>1. cursor.at >= -1 /\ cursor.at \in Int
      BY <1>1, <2>2 DEF Cursors
    <3>2. Catchup!Warned.at # Catchup!NoCursor.at
      BY <1>4, <3>1, NoCursorFacts
    <3>3. QED
      BY <2>2, <3>2
  <2>3. QED
    BY <2>1, <2>2
<1>6. ASSUME NEW cutoff \in Int, NEW from \in Cursors
      PROVE /\ Catchup!FetchFailedAt(cutoff, from) \in Cursors /\ Catchup!FetchFailedAt(cutoff, from).at = cutoff
            /\ Catchup!FetchFailedAt(cutoff, from).pinnedBy # "nothing"
  <2> DEFINE by == IF from.at = cutoff /\ from.pinnedBy # "nothing" THEN from.pinnedBy ELSE "fetch"
             skip == from.pinnedBy = "fetch" /\ from.skipWarned
  <2>1. by \in {"handler", "fetch"} /\ skip \in BOOLEAN
    BY DEF Cursors
  <2>2. Catchup!FetchFailedAt(cutoff, from) = [at |-> cutoff, pinnedBy |-> by, skipWarned |-> skip]
    BY DEF Catchup!FetchFailedAt
  <2> HIDE DEF by, skip
  <2>3. QED
    BY <2>1, <2>2 DEF Cursors
<1>7. \A cutoff \in Int, from \in Cursors : Catchup!FetchFailedAt(cutoff, from) # Catchup!NoCursor
  BY <1>6, NoCursorFacts
<1>8. QED
  BY <1>4, <1>5, <1>6, <1>7

\* What the cutoff leaves behind is given up: nothing open is older.
LEMMA ResolvedFacts ==
  ASSUME CatchupTypes, CursorInv, SeededInv, pass.pc = "list", now >= POLL
  PROVE  /\ Catchup!Resolved \in Histories /\ Catchup!Resolved.handled = history.handled
         /\ Catchup!Resolved.seeded = history.seeded /\ Catchup!Resolved.missedBy = history.missedBy
         /\ Catchup!Resolved.askedAt = history.askedAt /\ Catchup!Resolved.failed = history.failed
         /\ history.warned \subseteq Catchup!Resolved.warned /\ history.excused \subseteq Catchup!Resolved.excused
         /\ \A r \in Catchup!Unhandled \ (Catchup!Resolved.warned \cup Catchup!Resolved.excused) :
              redeemed[r].at > Catchup!Cutoff
<1> DEFINE older == Catchup!MadeUpTo(Catchup!Cutoff)
           warned == IF cursor.pinnedBy # "nothing" /\ Catchup!Cutoff # cursor.at THEN history.warned \cup older
                     ELSE history.warned
           dropped == history.excused \cup IF ~history.seeded THEN older ELSE IF history.failed THEN {}
                                          ELSE {r \in older : redeemed[r].at >= history.askedAt}
<1>1. Catchup!Resolved = [history EXCEPT !.warned = warned, !.excused = dropped]
  BY DEF Catchup!Resolved
<1>2. older \subseteq Redemptions /\ history \in Histories
  BY MadeFacts DEF Catchup!MadeUpTo, CatchupTypes
<1>3. /\ warned \subseteq Redemptions /\ dropped \subseteq Redemptions
      /\ history.warned \subseteq warned /\ history.excused \subseteq dropped
  BY <1>2 DEF Histories
<1>4. ASSUME NEW r \in Catchup!Unhandled \ (warned \cup dropped) PROVE redeemed[r].at > Catchup!Cutoff
  <2>1. r \in Open /\ redeemed[r].at \in Nat /\ Catchup!Cutoff \in Int
    BY <1>3, MadeFacts, CutoffFacts DEF Open
  <2>2. r \in older \/ redeemed[r].at > Catchup!Cutoff
    BY <2>1 DEF Catchup!MadeUpTo
  <2>3. CASE r \in older
    <3>1. history.seeded /\ (history.failed \/ ~(redeemed[r].at >= history.askedAt))
      BY <1>4, <2>3
    <3>2. redeemed[r].at > cursor.at /\ (cursor.pinnedBy = "nothing" => redeemed[r].at >= history.askedAt)
      BY <2>1, <3>1 DEF CursorInv
    <3>3. cursor.pinnedBy # "nothing" /\ Catchup!Cutoff = cursor.at
      BY <1>4, <2>3, <3>1, <3>2 DEF SeededInv
    <3>4. QED
      BY <3>2, <3>3
  <2>4. QED
    BY <2>2, <2>3
<1> HIDE DEF warned, dropped
<1>5. /\ Catchup!Resolved \in Histories /\ Catchup!Resolved.handled = history.handled
      /\ Catchup!Resolved.seeded = history.seeded /\ Catchup!Resolved.missedBy = history.missedBy
      /\ Catchup!Resolved.askedAt = history.askedAt /\ Catchup!Resolved.failed = history.failed
      /\ Catchup!Resolved.warned = warned /\ Catchup!Resolved.excused = dropped
  BY <1>1, <1>2, <1>3 DEF Histories
<1>6. QED
  BY <1>3, <1>4, <1>5

LEMMA ListFailsKeeps == ASSUME CatchupInv, Catchup!ListFails PROVE CatchupInv'
<1>1. CatchupTypes /\ LedgerInv /\ CursorInv /\ SeededInv /\ MissedInv /\ PassInv
  BY DEF CatchupInv
<1>2. /\ UNCHANGED <<now, redeemed, connected, timer>> /\ pass.pc = "list" /\ Catchup!PassEnds
      /\ history' = [history EXCEPT !.failed = TRUE]
      /\ cursor' = IF cursor = Catchup!NoCursor THEN Catchup!NoCursor ELSE Catchup!FetchFailedAt(cursor.at, cursor)
  BY DEF Catchup!ListFails
<1>4. catchupUpsets' \in 0 .. MaxCatchupUpsets
  BY <1>1, CatchupUpsetFacts DEF Catchup!ListFails
<1>3. /\ history' \in Histories /\ history'.handled = history.handled /\ history'.seeded = history.seeded
      /\ history'.missedBy = history.missedBy /\ history'.askedAt = history.askedAt /\ history'.warned = history.warned
      /\ history'.excused = history.excused
  BY <1>1, <1>2 DEF CatchupTypes, Histories
<1>5. /\ pass' = Catchup!NoPass /\ pass' \in Passes /\ PassInv' /\ LedgerInv' /\ MissedInv' /\ lastSeenAt' = now
      /\ lastSeenAt' \in 0 .. now /\ ledger' \in [Redemptions -> Nat \cup {Catchup!Never}]
      /\ \A r \in Redemptions : ledger'[r] <= now
  BY <1>1, <1>2, <1>3, PassEndsFacts
<1>6. /\ cursor' \in Cursors /\ cursor'.at = cursor.at
      /\ cursor # Catchup!NoCursor => cursor' # Catchup!NoCursor /\ cursor'.pinnedBy # "nothing"
      /\ cursor = Catchup!NoCursor => cursor' = Catchup!NoCursor
  BY <1>1, <1>2, CursorFacts, NoCursorFacts DEF CatchupTypes, Cursors
<1>7. CatchupTypes'
  <2>1. cursor' # Catchup!NoCursor => cursor'.at >= -1 /\ Past(cursor'.at)
    BY <1>1, <1>6 DEF CatchupTypes
  <2>2. QED
    BY <1>1, <1>2, <1>3, <1>4, <1>5, <1>6, <2>1, SameTypes DEF CatchupTypes
<1>8. Open' = Open
  BY <1>2, <1>3 DEF Open, Catchup!Unhandled, Catchup!Made, Catchup!NotMade, Catchup!Never
<1>9. SeededInv'
  <2>1. lastSeenAt' # Catchup!Never
    BY <1>1, <1>5, MadeFacts
  <2>2. QED
    BY <1>1, <1>2, <1>3, <1>6, <2>1 DEF SeededInv, Catchup!Never, Catchup!NoCursor
<1>10. CursorInv'
  BY <1>1, <1>2, <1>3, <1>6, <1>8 DEF CursorInv, SeededInv
<1>11. QED
  BY <1>5, <1>7, <1>9, <1>10 DEF CatchupInv

LEMMA FetchFirstKeeps == ASSUME CatchupInv, Catchup!FetchFirst PROVE CatchupInv'
<1>1. CatchupTypes /\ LedgerInv /\ CursorInv /\ SeededInv /\ MissedInv /\ PassInv /\ now \in Nat
  BY MadeFacts DEF CatchupInv
<1> DEFINE asked == Catchup!Fetched("UNFULFILLED", Catchup!Cutoff)
<1>2. /\ UNCHANGED <<now, redeemed, ledger, lastSeenAt, connected, timer, catchupUpsets>> /\ pass.pc = "list"
      /\ pass' = [pass EXCEPT !.pc = "FULFILLED", !.cutoff = Catchup!Cutoff, !.firstFetch = now, !.unfulfilled = asked]
      /\ cursor' = Catchup!Warned /\ history' = Catchup!Resolved
  BY DEF Catchup!FetchFirst
<1>3. now >= POLL /\ history.missedBy = 0 /\ lastSeenAt # Catchup!Never
  BY <1>1, <1>2 DEF MissedInv
<1>4. /\ Catchup!Cutoff \in Int /\ Catchup!Cutoff >= -1 /\ Past(Catchup!Cutoff)
      /\ cursor # Catchup!NoCursor => cursor.at <= Catchup!Cutoff
  BY <1>1, <1>3, CutoffFacts
<1>5. /\ history' \in Histories /\ history'.handled = history.handled /\ history'.seeded = history.seeded
      /\ history'.missedBy = history.missedBy /\ history'.askedAt = history.askedAt /\ history'.failed = history.failed
      /\ history.warned \subseteq history'.warned /\ history.excused \subseteq history'.excused
      /\ \A r \in Catchup!Unhandled \ (history'.warned \cup history'.excused) : redeemed[r].at > Catchup!Cutoff
  BY <1>1, <1>2, <1>3, ResolvedFacts
<1>6. /\ asked \subseteq Catchup!Made
      /\ \A r \in Catchup!Made : r \in asked <=> redeemed[r].status = "UNFULFILLED" /\ redeemed[r].at > Catchup!Cutoff
  BY DEF Catchup!Fetched
<1> HIDE DEF asked
<1>7. /\ pass' \in Passes /\ pass'.pc = "FULFILLED" /\ pass'.cutoff = Catchup!Cutoff /\ pass'.firstFetch = now
      /\ pass'.unfulfilled = asked /\ pass'.fulfilled = {} /\ pass'.failedMin = pass.failedMin
      /\ pass'.succeededMax = pass.succeededMax /\ pass.failedMin = Catchup!Never
  <2>1. asked \subseteq Redemptions /\ pass \in Passes
    BY <1>1, <1>6, MadeFacts DEF CatchupTypes
  <2>2. pass.fulfilled = {} /\ pass.failedMin = Catchup!Never
    BY <1>1, <1>2 DEF PassInv
  <2> DEFINE cutoff == Catchup!Cutoff
  <2>3. pass' = [pass EXCEPT !.pc = "FULFILLED", !.cutoff = cutoff, !.firstFetch = now, !.unfulfilled = asked]
    BY <1>2
  <2>4. cutoff \in Int /\ now \in Int
    BY <1>1, <1>4
  <2> HIDE DEF cutoff
  <2>5. /\ pass' \in Passes /\ pass'.pc = "FULFILLED" /\ pass'.cutoff = cutoff /\ pass'.firstFetch = now
        /\ pass'.unfulfilled = asked /\ pass'.fulfilled = pass.fulfilled /\ pass'.failedMin = pass.failedMin
        /\ pass'.succeededMax = pass.succeededMax
    BY <2>1, <2>3, <2>4 DEF Passes
  <2>6. QED
    BY <2>2, <2>5 DEF cutoff
<1>8. cursor' \in Cursors /\ cursor'.at = cursor.at /\ cursor'.pinnedBy = cursor.pinnedBy /\ (cursor' = Catchup!NoCursor <=> cursor = Catchup!NoCursor)
  BY <1>1, <1>2, CursorFacts
<1>9. Open' \subseteq Open /\ Catchup!Made' = Catchup!Made
  BY <1>1, <1>2, <1>5, OpenShrinks
<1>10. \A r \in Open' : r \in Catchup!Made /\ redeemed[r].at > Catchup!Cutoff
  BY <1>1, <1>2, <1>5, <1>9, MadeFacts DEF Open, Catchup!Unhandled
<1>11. CatchupTypes'
  <2>1. cursor' # Catchup!NoCursor => cursor'.at >= -1 /\ Past(cursor'.at)
    BY <1>1, <1>8 DEF CatchupTypes
  <2>2. QED
    BY <1>1, <1>2, <1>5, <1>7, <1>8, <2>1, SameTypes DEF CatchupTypes
<1>12. LedgerInv'
  BY <1>1, <1>2, <1>5, LedgerStays
<1>13. CursorInv' /\ SeededInv' /\ MissedInv'
  BY <1>1, <1>2, <1>3, <1>5, <1>7, <1>8 DEF CursorInv, SeededInv, MissedInv, Catchup!Never, Catchup!NoCursor
<1>14. PassInv'
  <2>1. Catchup!Batch' = asked
    BY <1>7 DEF Catchup!Batch
  <2>2. pass.succeededMax = Catchup!Never
    BY <1>1, <1>2 DEF PassInv
  <2>3. (Past(pass.cutoff))'
    BY <1>2, <1>4, <1>7, <1>9 DEF Past
  <2>4. \A r \in Open' : r \in asked \/ redeemed[r].status = "FULFILLED" \/ redeemed[r].at >= now
    BY <1>1, <1>6, <1>10, MadeFacts
  <2>5. QED
    BY <1>1, <1>2, <1>4, <1>6, <1>7, <1>8, <1>9, <1>10, <2>1, <2>2, <2>3, <2>4
       DEF PassInv, Catchup!Never, Catchup!NoCursor
<1>15. QED
  BY <1>11, <1>12, <1>13, <1>14 DEF CatchupInv

LEMMA FetchSecondKeeps == ASSUME CatchupInv, Catchup!FetchSecond PROVE CatchupInv'
<1>1. CatchupTypes /\ LedgerInv /\ CursorInv /\ SeededInv /\ MissedInv /\ PassInv /\ now \in Nat
  BY MadeFacts DEF CatchupInv
<1> DEFINE answer == Catchup!Fetched("FULFILLED", pass.cutoff)
           gap == Catchup!Overtaken(Catchup!Batch \cup answer)
<1>2. /\ UNCHANGED <<now, redeemed, ledger, cursor, lastSeenAt, connected, timer, catchupUpsets>> /\ pass.pc = "FULFILLED"
      /\ pass' = [pass EXCEPT !.pc = "replay", !.fulfilled = answer]
      /\ history' = [history EXCEPT !.excused = @ \cup gap]
  BY DEF Catchup!FetchSecond
<1>3. /\ answer \subseteq Catchup!Made
      /\ \A r \in Catchup!Made : r \in answer <=> redeemed[r].status = "FULFILLED" /\ redeemed[r].at > pass.cutoff
  BY DEF Catchup!Fetched
<1>4. /\ gap \subseteq Catchup!Unhandled
      /\ \A r \in Catchup!Unhandled \ gap :
           \/ redeemed[r].at < pass.firstFetch \/ redeemed[r].status # "UNFULFILLED" \/ r \in Catchup!Batch \cup answer
           \/ \A b \in Catchup!Batch \cup answer : ~(redeemed[b].at > redeemed[r].at)
  <2>1. pass.firstFetch \in Int
    BY <1>1 DEF CatchupTypes, Passes
  <2>2. QED
    BY <1>1, <2>1, MadeFacts DEF Catchup!Overtaken
<1> HIDE DEF answer, gap
<1>5. /\ pass.fulfilled = {} /\ pass.failedMin = Catchup!Never /\ pass.succeededMax = Catchup!Never
      /\ pass.firstFetch <= now /\ pass.cutoff >= -1
      /\ \A r \in Open : redeemed[r].at > pass.cutoff
      /\ Catchup!Batch \subseteq Catchup!Made /\ \A b \in Catchup!Batch : redeemed[b].at > pass.cutoff
      /\ Past(pass.cutoff)
      /\ cursor # Catchup!NoCursor => cursor.at <= pass.cutoff
      /\ \A r \in Open : \/ r \in pass.unfulfilled \/ redeemed[r].status = "FULFILLED"
                         \/ redeemed[r].at >= pass.firstFetch
  BY <1>1, <1>2 DEF PassInv
<1>6. /\ pass' \in Passes /\ pass'.pc = "replay" /\ pass'.cutoff = pass.cutoff /\ pass'.firstFetch = pass.firstFetch
      /\ pass'.unfulfilled = pass.unfulfilled /\ pass'.fulfilled = answer /\ pass'.failedMin = pass.failedMin
      /\ pass'.succeededMax = pass.succeededMax
  <2>1. answer \subseteq Redemptions /\ pass \in Passes
    BY <1>1, <1>3, MadeFacts DEF CatchupTypes
  <2>2. QED
    BY <1>2, <2>1 DEF Passes
<1>7. /\ history' \in Histories /\ history'.handled = history.handled /\ history'.seeded = history.seeded
      /\ history'.missedBy = history.missedBy /\ history'.askedAt = history.askedAt /\ history'.warned = history.warned
      /\ history'.failed = history.failed
      /\ history'.excused = history.excused \cup gap
  <2>1. gap \subseteq Redemptions /\ history \in Histories
    BY <1>1, <1>4, MadeFacts DEF CatchupTypes
  <2>2. QED
    BY <1>2, <2>1 DEF Histories
<1>8. Open' \subseteq Open /\ Catchup!Made' = Catchup!Made
  BY <1>1, <1>2, <1>7, OpenShrinks
<1>9. Open' \subseteq Catchup!Unhandled \ gap
  BY <1>1, <1>2, <1>7, <1>8, MadeFacts DEF Open
<1>10. Catchup!Batch' = Catchup!Batch \cup answer
  BY <1>5, <1>6 DEF Catchup!Batch
<1>11. CatchupTypes'
  BY <1>1, <1>2, <1>6, <1>7, SameTypes DEF CatchupTypes
<1>12. LedgerInv'
  BY <1>1, <1>2, <1>7, LedgerStays
<1>13. CursorInv' /\ SeededInv' /\ MissedInv'
  BY <1>1, <1>2, <1>6, <1>7 DEF CursorInv, SeededInv, MissedInv, Catchup!Never, Catchup!NoCursor
<1>14. PassInv'
  <2>1. ASSUME NEW r \in Open'
        PROVE  \/ r \in Catchup!Batch \cup answer
               \/ /\ redeemed[r].at >= pass.firstFetch /\ redeemed[r].at > Catchup!Never
                  /\ \A b \in Catchup!Batch \cup answer : redeemed[b].at < redeemed[r].at
    <3>1. /\ r \in Open /\ r \in Catchup!Unhandled \ gap /\ r \in Catchup!Made /\ redeemed[r].at \in Nat
          /\ redeemed[r].status \in {"UNFULFILLED", "FULFILLED"} /\ redeemed[r].at > pass.cutoff
      BY <1>1, <1>5, <1>8, <1>9, MadeFacts
    <3>2. CASE r \notin Catchup!Batch \cup answer
      <4>1. redeemed[r].status = "UNFULFILLED" /\ r \notin pass.unfulfilled
        BY <1>3, <3>1, <3>2 DEF Catchup!Batch
      <4>2. redeemed[r].at >= pass.firstFetch
        BY <1>5, <3>1, <4>1
      <4>3. \A b \in Catchup!Batch \cup answer : ~(redeemed[b].at > redeemed[r].at)
        <5>1. pass.firstFetch \in Int
          BY <1>1 DEF CatchupTypes, Passes
        <5>2. QED
          BY <1>4, <3>1, <3>2, <4>1, <4>2, <5>1
      <4>4. ASSUME NEW b \in Catchup!Batch \cup answer PROVE redeemed[b].at < redeemed[r].at
        <5>1. b \in Catchup!Made /\ b # r
          BY <1>3, <1>5, <3>2
        <5>2. redeemed[b].at # redeemed[r].at /\ redeemed[b].at \in Nat
          BY <1>1, <3>1, <5>1, MadeFacts DEF CatchupTypes
        <5>3. QED
          BY <3>1, <4>3, <5>2
      <4>5. QED
        BY <3>1, <4>2, <4>4, MadeFacts, <1>1
    <3>3. QED
      BY <3>2
  <2>2. \A b \in Catchup!Batch \cup answer : b \in Catchup!Made /\ redeemed[b].at > pass.cutoff
    BY <1>3, <1>5
  <2>3. (Past(pass.cutoff))'
    BY <1>2, <1>5, <1>6, <1>8 DEF Past
  <2>4. \A r \in Open' : redeemed[r].at > pass.cutoff
    BY <1>5, <1>8
  <2>5. \A r \in Open' : r \in Catchup!Batch' \/ (Later(redeemed[r].at))'
    BY <1>2, <1>5, <1>6, <1>10, <2>1 DEF Later, Catchup!Never
  <2>6. QED
    BY <1>2, <1>5, <1>6, <1>8, <1>10, <2>2, <2>3, <2>4, <2>5 DEF PassInv, Catchup!Never, Catchup!NoCursor
<1>15. QED
  BY <1>11, <1>12, <1>13, <1>14 DEF CatchupInv

\* A fetch that fails pins the cursor where the pass began: what is still open is ahead of it.
LEMMA FailedFetch ==
  ASSUME CatchupTypes, LedgerInv, MissedInv, SeededInv, pass.pc \in {"list", "FULFILLED"}, Catchup!Upset, Catchup!PassEnds,
         UNCHANGED <<now, redeemed, connected, timer>>,
         NEW cutoff \in Int, NEW from \in Cursors, NEW h \in Histories,
         cutoff >= -1, Past(cutoff), cursor' = Catchup!FetchFailedAt(cutoff, from),
         h.handled = history.handled, h.missedBy = history.missedBy, h.askedAt = history.askedAt,
         \A r \in Catchup!Unhandled \ (h.warned \cup h.excused) : redeemed[r].at > cutoff,
         history' = [h EXCEPT !.seeded = TRUE, !.failed = TRUE]
  PROVE  CatchupInv'
<1>1. /\ history' \in Histories /\ history'.handled = history.handled /\ history'.missedBy = history.missedBy
      /\ history'.askedAt = history.askedAt /\ history'.warned = h.warned /\ history'.excused = h.excused
  BY DEF Histories
<1>2. catchupUpsets' \in 0 .. MaxCatchupUpsets
  BY CatchupUpsetFacts
<1>3. /\ pass' = Catchup!NoPass /\ pass' \in Passes /\ PassInv' /\ LedgerInv' /\ MissedInv' /\ lastSeenAt' = now
      /\ lastSeenAt' \in 0 .. now /\ ledger' \in [Redemptions -> Nat \cup {Catchup!Never}]
      /\ \A r \in Redemptions : ledger'[r] <= now
  BY <1>1, PassEndsFacts
<1>4. /\ cursor' \in Cursors /\ cursor'.at = cutoff /\ cursor'.pinnedBy # "nothing" /\ cursor' # Catchup!NoCursor
  BY CursorFacts
<1>5. CatchupTypes'
  BY <1>1, <1>2, <1>3, <1>4, SameTypes DEF CatchupTypes
<1>6. Open' = Catchup!Unhandled \ (h.warned \cup h.excused)
  BY <1>1 DEF Open, Catchup!Unhandled, Catchup!Made, Catchup!NotMade, Catchup!Never
<1>7. SeededInv'
  <2>1. lastSeenAt' # Catchup!Never
    BY <1>3, MadeFacts
  <2>2. QED
    BY <1>1, <1>4, <2>1 DEF SeededInv, Catchup!Never, Catchup!NoCursor
<1>8. CursorInv'
  BY <1>4, <1>6 DEF CursorInv
<1>9. QED
  BY <1>3, <1>5, <1>7, <1>8 DEF CatchupInv

LEMMA FetchFailsKeeps == ASSUME CatchupInv, Catchup!FetchFails PROVE CatchupInv'
<1>1. CatchupTypes /\ LedgerInv /\ CursorInv /\ SeededInv /\ MissedInv /\ PassInv /\ history \in Histories
  BY DEF CatchupInv, CatchupTypes
<1>2. UNCHANGED <<now, redeemed, connected, timer>> /\ pass.pc \in {"list", "FULFILLED"} /\ Catchup!Upset /\ Catchup!PassEnds
  BY DEF Catchup!FetchFails
<1>3. CASE pass.pc = "list"
  <2>1. cursor' = Catchup!FetchFailedAt(Catchup!Cutoff, Catchup!Warned) /\ history' = [Catchup!Resolved EXCEPT !.seeded = TRUE, !.failed = TRUE]
    BY <1>3 DEF Catchup!FetchFails
  <2>2. now >= POLL
    BY <1>1, <1>3 DEF MissedInv
  <2>3. Catchup!Cutoff \in Int /\ Catchup!Cutoff >= -1 /\ Past(Catchup!Cutoff) /\ Catchup!Warned \in Cursors
    BY <1>1, <2>2, CutoffFacts, CursorFacts
  <2>4. /\ Catchup!Resolved \in Histories /\ Catchup!Resolved.handled = history.handled
        /\ Catchup!Resolved.missedBy = history.missedBy /\ Catchup!Resolved.askedAt = history.askedAt
        /\ \A r \in Catchup!Unhandled \ (Catchup!Resolved.warned \cup Catchup!Resolved.excused) :
             redeemed[r].at > Catchup!Cutoff
    BY <1>1, <1>3, <2>2, ResolvedFacts
  <2>5. QED
    BY <1>1, <1>2, <2>1, <2>3, <2>4, FailedFetch
<1>4. CASE pass.pc = "FULFILLED"
  <2>1. cursor' = Catchup!FetchFailedAt(pass.cutoff, cursor) /\ history' = [history EXCEPT !.seeded = TRUE, !.failed = TRUE]
    BY <1>4 DEF Catchup!FetchFails
  <2>2. pass.cutoff \in Int /\ pass.cutoff >= -1 /\ Past(pass.cutoff) /\ cursor \in Cursors
    BY <1>1, <1>4 DEF PassInv, CatchupTypes, Passes
  <2>3. \A r \in Catchup!Unhandled \ (history.warned \cup history.excused) : redeemed[r].at > pass.cutoff
    BY <1>1, <1>4 DEF PassInv, Open
  <2>4. QED
    BY <1>1, <1>2, <2>1, <2>2, <2>3, FailedFetch
<1>5. QED
  BY <1>2, <1>3, <1>4

\* What is left of the running pass when r has been replayed.
LEMMA WithoutFacts ==
  ASSUME pass \in Passes, NEW r
  PROVE  LET q == Catchup!Without(r)
         IN /\ q \in Passes /\ q.pc = pass.pc /\ q.cutoff = pass.cutoff /\ q.firstFetch = pass.firstFetch
            /\ q.succeededMax = pass.succeededMax /\ q.failedMin = pass.failedMin
            /\ Catchup!Batch \ {r} \subseteq q.unfulfilled \cup q.fulfilled
            /\ q.unfulfilled \cup q.fulfilled \subseteq Catchup!Batch
<1> DEFINE q == Catchup!Without(r)
<1>1. CASE pass.unfulfilled # {}
  <2>1. q = [pass EXCEPT !.unfulfilled = pass.unfulfilled \ {r}]
    BY <1>1 DEF Catchup!Without
  <2>2. QED
    BY <2>1 DEF Passes, Catchup!Batch
<1>2. CASE pass.unfulfilled = {}
  <2>1. q = [pass EXCEPT !.fulfilled = pass.fulfilled \ {r}]
    BY <1>2 DEF Catchup!Without
  <2>2. QED
    BY <1>2, <2>1 DEF Passes, Catchup!Batch
<1>3. QED
  BY <1>1, <1>2

\* The pass after one replay.
LEMMA PassGoesOn ==
  ASSUME CatchupInv, NEW r \in Catchup!Batch, pass.pc = "replay",
         UNCHANGED <<now, redeemed, cursor, lastSeenAt, connected, timer>>,
         pass' \in Passes, pass'.pc = "replay", pass'.cutoff = pass.cutoff, pass'.firstFetch = pass.firstFetch,
         Catchup!Batch \ {r} \subseteq Catchup!Batch', Catchup!Batch' \subseteq Catchup!Batch,
         pass'.succeededMax \in {pass.succeededMax, redeemed[r].at},
         pass'.succeededMax # pass.succeededMax => pass'.failedMin = pass.failedMin,
         pass'.failedMin \in {pass.failedMin, redeemed[r].at},
         pass.failedMin # Catchup!Never => pass'.failedMin <= pass.failedMin,
         r \in Open' => pass'.failedMin # Catchup!Never /\ pass'.failedMin <= redeemed[r].at,
         Open' \subseteq Open
  PROVE  PassInv'
<1>1. CatchupTypes /\ LedgerInv /\ CursorInv /\ SeededInv /\ MissedInv /\ PassInv /\ now \in Nat
  BY MadeFacts DEF CatchupInv
<1>2. /\ pass.firstFetch <= now /\ pass.cutoff >= -1
      /\ \A o \in Open : redeemed[o].at > pass.cutoff
      /\ Catchup!Batch \subseteq Catchup!Made /\ \A b \in Catchup!Batch : redeemed[b].at > pass.cutoff
      /\ Past(pass.cutoff)
      /\ cursor # Catchup!NoCursor => cursor.at <= pass.cutoff
      /\ pass.succeededMax # Catchup!Never => pass.succeededMax > pass.cutoff /\ Past(pass.succeededMax)
      /\ pass.failedMin # Catchup!Never => pass.failedMin > pass.cutoff /\ Past(pass.failedMin)
  BY <1>1 DEF PassInv
<1>3. r \in Catchup!Made /\ redeemed[r].at \in Nat /\ redeemed[r].at > pass.cutoff /\ Past(redeemed[r].at)
  <2>1. r \in Catchup!Made /\ redeemed[r].at \in Nat
    BY <1>1, <1>2, MadeFacts
  <2>2. QED
    BY <1>2, <2>1 DEF Past
<1>4. Catchup!Made' = Catchup!Made /\ \A t \in Int : Past(t) => (Past(t))'
  BY <1>1, SameRedeemed
<1>5. /\ pass.cutoff \in Int /\ pass'.succeededMax \in Int /\ pass'.failedMin \in Int /\ pass.failedMin \in Int
      /\ pass.succeededMax \in Int
  BY <1>1 DEF CatchupTypes, Passes
<1>6. /\ pass'.succeededMax # Catchup!Never => pass'.succeededMax > pass'.cutoff /\ Past(pass'.succeededMax)
      /\ pass'.failedMin # Catchup!Never => pass'.failedMin > pass'.cutoff /\ Past(pass'.failedMin)
  BY <1>2, <1>3
<1>7. (Past(pass.cutoff))' /\ (pass'.succeededMax # Catchup!Never => (Past(pass.succeededMax))')
      /\ (pass'.failedMin # Catchup!Never => (Past(pass.failedMin))')
  BY <1>2, <1>4, <1>5, <1>6 DEF Past
<1>8. ASSUME NEW o \in Open'
      PROVE  \/ o \in Catchup!Batch'
             \/ pass'.failedMin # Catchup!Never /\ pass'.failedMin <= redeemed[o].at
             \/ /\ redeemed[o].at >= pass'.firstFetch /\ redeemed[o].at > pass'.succeededMax
                /\ pass'.failedMin = Catchup!Never /\ \A b \in Catchup!Batch' : redeemed[b].at < redeemed[o].at
  <2>1. o \in Open /\ redeemed[o].at \in Nat
    BY <1>1, <1>8, MadeFacts
  <2>2. CASE o = r
    BY <2>2
  <2>3. CASE o # r /\ o \in Catchup!Batch
    BY <2>3
  <2>4. CASE pass.failedMin # Catchup!Never /\ pass.failedMin <= redeemed[o].at
    <3>1. pass'.failedMin <= redeemed[o].at
      BY <1>5, <2>1, <2>4
    <3>2. pass'.failedMin # Catchup!Never
      BY <1>1, <1>3, <2>4, MadeFacts
    <3>3. QED
      BY <3>1, <3>2
  <2>5. CASE Later(redeemed[o].at)
    <3>1. /\ redeemed[o].at >= pass.firstFetch /\ redeemed[o].at > pass.succeededMax /\ pass.failedMin = Catchup!Never
          /\ \A b \in Catchup!Batch : redeemed[b].at < redeemed[o].at
      BY <2>5 DEF Later
    <3>2. redeemed[r].at < redeemed[o].at
      BY <3>1
    <3>3. CASE pass'.failedMin = Catchup!Never
      BY <3>1, <3>2, <3>3
    <3>4. CASE pass'.failedMin # Catchup!Never
      BY <1>3, <2>1, <3>1, <3>2, <3>4
    <3>5. QED
      BY <3>3, <3>4
  <2>6. QED
    BY <1>1, <2>1, <2>2, <2>3, <2>4, <2>5 DEF PassInv
<1>9. \A o \in Open' : \/ o \in Catchup!Batch'
                       \/ pass'.failedMin # Catchup!Never /\ pass'.failedMin <= redeemed[o].at
                       \/ (Later(redeemed[o].at))'
  BY <1>8 DEF Later, Catchup!Never
<1>10. QED
  BY <1>2, <1>4, <1>6, <1>7, <1>9 DEF PassInv, Catchup!Never, Catchup!NoCursor

LEMMA ReplayKeeps == ASSUME CatchupInv, Catchup!Replay PROVE CatchupInv'
<1>1. CatchupTypes /\ LedgerInv /\ CursorInv /\ SeededInv /\ MissedInv /\ PassInv /\ now \in Nat
  BY MadeFacts DEF CatchupInv
<1>2. UNCHANGED <<now, redeemed, cursor, lastSeenAt, connected, timer>> /\ pass.pc = "replay"
  BY DEF Catchup!Replay
<1>3. PICK r \in Catchup!Newest(IF pass.unfulfilled # {} THEN pass.unfulfilled ELSE pass.fulfilled) :
        \/ /\ now - redeemed[r].at > MAX_CURSOR_LAG
           /\ Catchup!NoUpset
           /\ pass' = Catchup!Without(r)
           /\ history' = [history EXCEPT !.warned = @ \cup {r}]
           /\ UNCHANGED ledger
        \/ /\ now - redeemed[r].at <= MAX_CURSOR_LAG
           /\ Catchup!NoUpset
           /\ pass' = [Catchup!Without(r) EXCEPT !.succeededMax = Catchup!Max({@, redeemed[r].at})]
           /\ IF ledger[r] = Catchup!Never
              THEN ledger' = [ledger EXCEPT ![r] = now] /\ history' = [history EXCEPT !.handled[r] = @ + 1]
              ELSE UNCHANGED <<ledger, history>>
        \/ /\ now - redeemed[r].at <= MAX_CURSOR_LAG
           /\ Catchup!Upset
           /\ pass' = [Catchup!Without(r) EXCEPT !.failedMin = IF @ = Catchup!Never THEN redeemed[r].at
                                                               ELSE Catchup!Min({@, redeemed[r].at})]
           /\ UNCHANGED <<ledger, history>>
  BY DEF Catchup!Replay
<1> DEFINE q == Catchup!Without(r)
           at == redeemed[r].at
<1>4. r \in Catchup!Batch
  BY DEF Catchup!Newest, Catchup!Batch
<1>5. /\ q \in Passes /\ q.pc = "replay" /\ q.cutoff = pass.cutoff /\ q.firstFetch = pass.firstFetch
      /\ q.succeededMax = pass.succeededMax /\ q.failedMin = pass.failedMin
      /\ Catchup!Batch \ {r} \subseteq q.unfulfilled \cup q.fulfilled
      /\ q.unfulfilled \cup q.fulfilled \subseteq Catchup!Batch
  <2>1. pass \in Passes
    BY <1>1 DEF CatchupTypes
  <2>2. QED
    BY <1>2, <2>1, WithoutFacts
<1>6. r \in Catchup!Made /\ r \in Redemptions /\ at \in Nat /\ at <= now
  BY <1>1, <1>2, <1>4, MadeFacts DEF PassInv
<1>7. /\ pass.succeededMax \in Int /\ pass.failedMin \in Int /\ history \in Histories
      /\ pass.failedMin # Catchup!Never => pass.failedMin >= 0
      /\ history.handled \in [Redemptions -> {0, 1}]
  BY <1>1, <1>2 DEF CatchupTypes, Passes, Histories, PassInv
<1>8. history.handled[r] \in {0, 1}
  BY <1>6, <1>7
<1> HIDE DEF q
<1>9. CASE /\ Catchup!NoUpset
           /\ pass' = q
           /\ history' = [history EXCEPT !.warned = @ \cup {r}]
           /\ UNCHANGED ledger
  <2>1. /\ history' \in Histories /\ history'.handled = history.handled /\ history'.seeded = history.seeded
        /\ history'.missedBy = history.missedBy /\ history'.askedAt = history.askedAt /\ history'.failed = history.failed
        /\ history'.warned = history.warned \cup {r} /\ history'.excused = history.excused
    BY <1>6, <1>7, <1>9 DEF Histories
  <2>2. Open' \subseteq Open /\ r \notin Open'
    <3>1. Open' \subseteq Open
      BY <1>1, <1>2, <2>1, OpenShrinks
    <3>2. QED
      BY <2>1, <3>1 DEF Open
  <2>3. Catchup!Batch' = q.unfulfilled \cup q.fulfilled
    BY <1>9 DEF Catchup!Batch
  <2>4. PassInv'
    BY <1>2, <1>4, <1>5, <1>7, <1>9, <2>2, <2>3, PassGoesOn
  <2>5. LedgerInv'
    BY <1>1, <1>2, <1>9, <2>1, LedgerStays
  <2>6. CatchupTypes'
    BY <1>1, <1>2, <1>5, <1>9, <2>1, SameTypes DEF CatchupTypes, Catchup!NoUpset
  <2>7. CursorInv' /\ SeededInv' /\ MissedInv'
    BY <1>1, <1>2, <1>5, <1>9, <2>1 DEF CursorInv, SeededInv, MissedInv, Catchup!Never, Catchup!NoCursor
  <2>8. QED
    BY <2>4, <2>5, <2>6, <2>7 DEF CatchupInv
<1>10. CASE /\ now - at <= MAX_CURSOR_LAG
            /\ Catchup!NoUpset
            /\ pass' = [q EXCEPT !.succeededMax = Catchup!Max({@, at})]
            /\ IF ledger[r] = Catchup!Never
               THEN ledger' = [ledger EXCEPT ![r] = now] /\ history' = [history EXCEPT !.handled[r] = @ + 1]
               ELSE UNCHANGED <<ledger, history>>
  <2> DEFINE m == Catchup!Max({pass.succeededMax, at})
  <2>1. m \in {pass.succeededMax, at} /\ m \in Int
    <3>1. at \in Int
      BY <1>6
    <3> HIDE DEF at
    <3>2. m \in {pass.succeededMax, at}
      BY <1>7, <3>1, MaxFacts
    <3> HIDE DEF m
    <3>3. QED
      BY <1>7, <3>1, <3>2
  <2>2. pass' = [q EXCEPT !.succeededMax = m]
    BY <1>5, <1>10
  <2> HIDE DEF m
  <2>3. /\ pass' \in Passes /\ pass'.pc = "replay" /\ pass'.cutoff = pass.cutoff /\ pass'.firstFetch = pass.firstFetch
        /\ pass'.succeededMax = m /\ pass'.failedMin = pass.failedMin
        /\ pass'.unfulfilled = q.unfulfilled /\ pass'.fulfilled = q.fulfilled
    BY <1>5, <2>1, <2>2 DEF Passes
  <2>4. Catchup!Batch' = q.unfulfilled \cup q.fulfilled
    BY <2>3 DEF Catchup!Batch
  <2>5. ledger[r] = Catchup!Never => history.handled[r] = 0
    <3>1. ~(at < now - LEDGER_RETENTION)
      BY <1>1, <1>6, <1>10, CatchupAssumption
    <3>2. ledger[r] = Catchup!Never => ~(ledger[r] >= at)
      BY <1>1, <1>6, MadeFacts
    <3>3. QED
      BY <1>1, <1>6, <1>8, <3>1, <3>2 DEF LedgerInv
  <2>6. /\ history' \in Histories /\ history'.seeded = history.seeded
        /\ history'.missedBy = history.missedBy /\ history'.askedAt = history.askedAt /\ history'.failed = history.failed
        /\ history'.warned = history.warned /\ history'.excused = history.excused
        /\ history'.handled[r] = 1 /\ \A o \in Redemptions \ {r} : history'.handled[o] = history.handled[o]
    <3>1. CASE ledger[r] = Catchup!Never
      <4>1. history.handled[r] + 1 = 1
        BY <2>5, <3>1
      <4>2. history' = [history EXCEPT !.handled = [history.handled EXCEPT ![r] = 1]]
        BY <1>10, <3>1, <4>1
      <4>3. [history.handled EXCEPT ![r] = 1] \in [Redemptions -> {0, 1}]
        BY <1>7
      <4>4. QED
        BY <1>6, <1>7, <4>2, <4>3 DEF Histories
    <3>2. CASE ledger[r] # Catchup!Never
      BY <1>1, <1>6, <1>7, <1>10, <3>2 DEF LedgerInv
    <3>3. QED
      BY <3>1, <3>2
  <2>7. Open' \subseteq Open /\ r \notin Open'
    <3>1. \A o \in Redemptions : history.handled[o] # 0 => history'.handled[o] # 0
      BY <2>6
    <3>2. Open' \subseteq Open
      BY <1>1, <1>2, <2>6, <3>1, OpenShrinks
    <3>3. QED
      BY <2>6, <3>2 DEF Open, Catchup!Unhandled
  <2>8. PassInv'
    BY <1>2, <1>4, <1>5, <1>7, <2>1, <2>3, <2>4, <2>7, PassGoesOn
  <2>9. /\ ledger' \in [Redemptions -> Nat \cup {Catchup!Never}]
        /\ \A o \in Redemptions : ledger'[o] <= now
        /\ \A o \in Redemptions \ {r} : ledger'[o] = ledger[o]
        /\ (ledger'[r] = ledger[r] /\ history.handled[r] = 1) \/ ledger'[r] = now
    <3>1. ledger \in [Redemptions -> Nat \cup {Catchup!Never}] /\ \A o \in Redemptions : ledger[o] <= now
      BY <1>1 DEF CatchupTypes
    <3>2. QED
      BY <1>1, <1>6, <1>10, <3>1 DEF LedgerInv
  <2>10. LedgerInv'
    <3>1. Catchup!Made' = Catchup!Made
      BY <1>1, <1>2, SameRedeemed
    <3>2. \A o \in Redemptions \ {r} :
            /\ history'.handled[o] = 1 =>
                 o \in Catchup!Made /\ (ledger'[o] >= redeemed[o].at \/ redeemed[o].at < now - LEDGER_RETENTION)
            /\ ledger'[o] # Catchup!Never => history'.handled[o] = 1
      BY <1>1, <2>6, <2>9 DEF LedgerInv
    <3>3. ledger'[r] >= at \/ at < now - LEDGER_RETENTION
      BY <1>1, <1>6, <2>9 DEF LedgerInv
    <3>4. QED
      BY <1>2, <1>6, <2>6, <3>1, <3>2, <3>3 DEF LedgerInv, Catchup!Never
  <2>11. CatchupTypes'
    BY <1>1, <1>2, <1>10, <2>3, <2>6, <2>9, SameTypes DEF CatchupTypes, Catchup!NoUpset
  <2>12. CursorInv' /\ SeededInv' /\ MissedInv'
    BY <1>1, <1>2, <2>3, <2>6 DEF CursorInv, SeededInv, MissedInv, Catchup!Never, Catchup!NoCursor
  <2>13. QED
    BY <2>8, <2>10, <2>11, <2>12 DEF CatchupInv
<1>11. CASE /\ Catchup!Upset
            /\ pass' = [q EXCEPT !.failedMin = IF @ = Catchup!Never THEN at ELSE Catchup!Min({@, at})]
            /\ UNCHANGED <<ledger, history>>
  <2> DEFINE m == IF pass.failedMin = Catchup!Never THEN at ELSE Catchup!Min({pass.failedMin, at})
  <2>1. m \in {pass.failedMin, at} /\ m \in Int /\ m <= at /\ m # Catchup!Never
        /\ (pass.failedMin # Catchup!Never => m <= pass.failedMin)
    <3>1. at \in Int /\ at >= 0 /\ Catchup!Never < 0
      BY <1>1, <1>6, MadeFacts
    <3> HIDE DEF at
    <3>2. CASE pass.failedMin = Catchup!Never
      BY <3>1, <3>2
    <3>3. CASE pass.failedMin # Catchup!Never
      <4> DEFINE least == Catchup!Min({pass.failedMin, at})
      <4>1. least \in {pass.failedMin, at} /\ least <= pass.failedMin /\ least <= at
        BY <1>7, <3>1, MaxFacts
      <4>2. m = least
        BY <3>3
      <4> HIDE DEF m, least
      <4>3. QED
        BY <1>7, <3>1, <3>3, <4>1, <4>2
    <3>4. QED
      BY <3>2, <3>3
  <2>2. pass' = [q EXCEPT !.failedMin = m]
    BY <1>5, <1>11
  <2> HIDE DEF m
  <2>3. /\ pass' \in Passes /\ pass'.pc = "replay" /\ pass'.cutoff = pass.cutoff /\ pass'.firstFetch = pass.firstFetch
        /\ pass'.succeededMax = pass.succeededMax /\ pass'.failedMin = m
        /\ pass'.unfulfilled = q.unfulfilled /\ pass'.fulfilled = q.fulfilled
    BY <1>5, <2>1, <2>2 DEF Passes
  <2>4. Catchup!Batch' = q.unfulfilled \cup q.fulfilled
    BY <2>3 DEF Catchup!Batch
  <2>5. Open' = Open
    BY <1>2, <1>11 DEF Open, Catchup!Unhandled, Catchup!Made, Catchup!NotMade, Catchup!Never
  <2>6. PassInv'
    BY <1>2, <1>4, <1>5, <1>7, <2>1, <2>3, <2>4, <2>5, PassGoesOn
  <2>7. LedgerInv'
    BY <1>1, <1>2, <1>11, LedgerStays
  <2>8. catchupUpsets' \in 0 .. MaxCatchupUpsets
    BY <1>1, <1>11, CatchupUpsetFacts
  <2>9. CatchupTypes'
    BY <1>1, <1>2, <1>11, <2>3, <2>8, SameTypes DEF CatchupTypes
  <2>10. CursorInv' /\ SeededInv' /\ MissedInv'
    BY <1>1, <1>2, <1>11, <2>3 DEF CursorInv, SeededInv, MissedInv, Catchup!Never, Catchup!NoCursor
  <2>11. QED
    BY <2>6, <2>7, <2>9, <2>10 DEF CatchupInv
<1>12. QED
  BY <1>3, <1>9, <1>10, <1>11 DEF q

\* The cursor of a pass that has come to its end is behind everything it could not handle.
LEMMA RecordKeeps == ASSUME CatchupInv, Catchup!RecordOutcome PROVE CatchupInv'
<1>1. CatchupTypes /\ LedgerInv /\ CursorInv /\ SeededInv /\ MissedInv /\ PassInv /\ now \in Nat
  BY MadeFacts DEF CatchupInv
<1> DEFINE next == Catchup!NextCursor
           by == IF pass.failedMin = Catchup!Never THEN "nothing" ELSE "handler"
<1>2. /\ UNCHANGED <<now, redeemed, connected, timer, catchupUpsets>> /\ pass.pc = "replay" /\ Catchup!Batch = {}
      /\ cursor' = [at |-> next, pinnedBy |-> by, skipWarned |-> FALSE]
      /\ history' = [history EXCEPT !.seeded = TRUE, !.askedAt = pass.firstFetch,
                                    !.failed = pass.failedMin # Catchup!Never]
      /\ Catchup!PassEnds
  BY DEF Catchup!RecordOutcome
<1>3. /\ pass.succeededMax \in Int /\ pass.failedMin \in Int /\ pass.cutoff \in Int /\ pass.firstFetch \in Int
  BY <1>1 DEF CatchupTypes, Passes
<1>4. /\ pass.firstFetch <= now /\ pass.cutoff >= -1
      /\ \A r \in Open : redeemed[r].at > pass.cutoff
      /\ Past(pass.cutoff)
      /\ pass.succeededMax # Catchup!Never => pass.succeededMax > pass.cutoff /\ Past(pass.succeededMax)
      /\ pass.failedMin # Catchup!Never => pass.failedMin > pass.cutoff /\ Past(pass.failedMin)
      /\ \A r \in Open : \/ pass.failedMin # Catchup!Never /\ pass.failedMin <= redeemed[r].at
                         \/ Later(redeemed[r].at)
  BY <1>1, <1>2 DEF PassInv
<1>5. next \in Int /\ next >= -1 /\ Past(next)
  <2>1. CASE pass.failedMin # Catchup!Never
    <3>1. next = pass.failedMin - 1
      BY <2>1 DEF Catchup!NextCursor
    <3>2. \A t \in Int : Past(t) => Past(t - 1)
      BY <1>1, MadeFacts DEF Past
    <3>3. QED
      BY <1>3, <1>4, <2>1, <3>1, <3>2
  <2>2. CASE pass.failedMin = Catchup!Never /\ pass.succeededMax # Catchup!Never
    BY <1>3, <1>4, <2>2 DEF Catchup!NextCursor
  <2>3. CASE pass.failedMin = Catchup!Never /\ pass.succeededMax = Catchup!Never
    BY <1>3, <1>4, <2>3 DEF Catchup!NextCursor
  <2>4. QED
    BY <2>1, <2>2, <2>3
<1>6. ASSUME NEW r \in Open
      PROVE redeemed[r].at > next /\ (pass.failedMin = Catchup!Never => redeemed[r].at >= pass.firstFetch)
  <2>1. redeemed[r].at \in Nat
    BY <1>1, MadeFacts
  <2>2. CASE pass.failedMin # Catchup!Never
    <3>1. pass.failedMin <= redeemed[r].at
      BY <1>4, <2>2 DEF Later
    <3>2. next = pass.failedMin - 1
      BY <2>2 DEF Catchup!NextCursor
    <3>3. QED
      BY <1>3, <2>1, <2>2, <3>1, <3>2
  <2>3. CASE pass.failedMin = Catchup!Never
    <3>1. redeemed[r].at >= pass.firstFetch /\ redeemed[r].at > pass.succeededMax /\ redeemed[r].at > pass.cutoff
      BY <1>4, <2>3 DEF Later
    <3>2. next \in {pass.succeededMax, pass.cutoff}
      BY <2>3 DEF Catchup!NextCursor
    <3>3. QED
      BY <2>3, <3>1, <3>2
  <2>4. QED
    BY <2>2, <2>3
<1>7. by \in {"nothing", "handler"} /\ (by = "nothing" <=> pass.failedMin = Catchup!Never)
  OBVIOUS
<1> HIDE DEF next, by
<1>8. /\ cursor' \in Cursors /\ cursor'.at = next /\ cursor'.pinnedBy = by /\ cursor' # Catchup!NoCursor
  <2>1. cursor' \in Cursors /\ cursor'.at = next /\ cursor'.pinnedBy = by
    BY <1>2, <1>5, <1>7 DEF Cursors
  <2>2. QED
    BY <1>5, <2>1, NoCursorFacts
<1>9. /\ history' \in Histories /\ history'.handled = history.handled /\ history'.missedBy = history.missedBy
      /\ history'.askedAt = pass.firstFetch /\ history'.warned = history.warned /\ history'.excused = history.excused
      /\ history'.failed = (pass.failedMin # Catchup!Never)
  BY <1>1, <1>2, <1>3 DEF CatchupTypes, Histories
<1>10. /\ pass' = Catchup!NoPass /\ pass' \in Passes /\ PassInv' /\ LedgerInv' /\ MissedInv' /\ lastSeenAt' = now
       /\ lastSeenAt' \in 0 .. now /\ ledger' \in [Redemptions -> Nat \cup {Catchup!Never}]
       /\ \A r \in Redemptions : ledger'[r] <= now
  <2>1. pass.pc # "idle"
    BY <1>2
  <2>2. QED
    BY <1>1, <1>2, <1>9, <2>1, PassEndsFacts
<1>11. CatchupTypes'
  BY <1>1, <1>2, <1>5, <1>8, <1>9, <1>10, SameTypes DEF CatchupTypes
<1>12. Open' = Open
  BY <1>2, <1>9 DEF Open, Catchup!Unhandled, Catchup!Made, Catchup!NotMade, Catchup!Never
<1>13. SeededInv'
  <2>1. lastSeenAt' # Catchup!Never
    BY <1>1, <1>10, MadeFacts
  <2>2. QED
    BY <1>2, <1>4, <1>7, <1>8, <1>9, <2>1 DEF SeededInv, Catchup!Never, Catchup!NoCursor
<1>14. CursorInv'
  BY <1>2, <1>6, <1>7, <1>8, <1>9, <1>12 DEF CursorInv
<1>15. QED
  BY <1>10, <1>11, <1>13, <1>14 DEF CatchupInv

LEMMA CatchupInitInv == ASSUME Catchup!CatchupInit PROVE CatchupInv
<1>1. /\ now = 0 /\ redeemed = [r \in Redemptions |-> Catchup!NotMade] /\ ledger = [r \in Redemptions |-> Catchup!Never]
      /\ cursor = Catchup!NoCursor /\ lastSeenAt = Catchup!Never /\ connected = TRUE
      /\ timer = POLL /\ pass = Catchup!NoPass
      /\ history = [handled |-> [r \in Redemptions |-> 0], warned |-> {}, excused |-> {}, seeded |-> FALSE,
                    missedBy |-> 0, askedAt |-> 0, failed |-> FALSE]
      /\ catchupUpsets = 0
  BY DEF Catchup!CatchupInit
<1>2. Catchup!Made = {} /\ Open = {} /\ (\A r \in Redemptions : ledger[r] = Catchup!Never)
  BY <1>1 DEF Catchup!Made, Catchup!Unhandled, Open
<1>3. history \in Histories /\ (\A r \in Redemptions : history.handled[r] = 0)
  BY <1>1 DEF Histories
<1>4. CatchupTypes
  BY <1>1, <1>2, <1>3, NoPassFacts, NoCursorFacts, CatchupAssumption DEF CatchupTypes
<1>5. LedgerInv /\ CursorInv /\ SeededInv
  BY <1>1, <1>2, <1>3 DEF LedgerInv, CursorInv, SeededInv
<1>6. MissedInv /\ PassInv
  BY <1>1, <1>2, NoPassFacts DEF MissedInv, PassInv
<1>7. QED
  BY <1>4, <1>5, <1>6 DEF CatchupInv

LEMMA CatchupStep == ASSUME CatchupInv, Catchup!CatchupNext PROVE CatchupInv'
BY RedeemKeeps, FulfilledKeeps, ConnectionKeeps, RestartKeepsCatchup, ClockKeeps, PollFiresKeeps, ListFailsKeeps,
   FetchFirstKeeps, FetchSecondKeeps, FetchFailsKeeps, ReplayKeeps, RecordKeeps DEF Catchup!CatchupNext

LEMMA CatchupStutter == ASSUME CatchupInv, UNCHANGED Catchup!catchupVars PROVE CatchupInv'
<1>1. UNCHANGED <<now, redeemed, ledger, cursor, lastSeenAt, connected, timer, pass, history, catchupUpsets>>
  BY DEF Catchup!catchupVars
<1>2. CatchupTypes /\ now \in Nat
  BY MadeFacts DEF CatchupInv
<1>3. LedgerInv' /\ CursorInv' /\ SeededInv' /\ MissedInv' /\ PassInv'
  BY <1>1, <1>2, PartsStay
<1>4. CatchupTypes'
  BY <1>1, <1>2, SameTypes DEF CatchupTypes
<1>5. QED
  BY <1>3, <1>4 DEF CatchupInv

\* What the invariant says of every moment.
LEMMA CatchupTruth ==
  ASSUME CatchupInv PROVE Catchup!NothingSkipped /\ Catchup!HandledOnce /\ Catchup!CatchupTypeOK
<1>1. CatchupTypes /\ LedgerInv /\ CursorInv /\ SeededInv /\ MissedInv /\ PassInv /\ now \in Nat
  BY MadeFacts DEF CatchupInv
<1>2. Catchup!NothingSkipped
  <2> SUFFICES ASSUME NEW r \in Open, history.seeded,
                      r \notin Catchup!Batch, ~(pass.failedMin # Catchup!Never /\ pass.failedMin <= redeemed[r].at)
      PROVE cursor # Catchup!NoCursor /\ redeemed[r].at > cursor.at
    BY DEF Catchup!NothingSkipped, Open
  <2>1. cursor # Catchup!NoCursor /\ redeemed[r].at \in Nat /\ cursor.at \in Int /\ pass.cutoff \in Int
    BY <1>1, MadeFacts DEF SeededInv, CatchupTypes, Cursors, Passes
  <2>2. CASE pass.pc \in {"idle", "list"}
    BY <1>1, <2>1, <2>2 DEF CursorInv
  <2>3. CASE pass.pc \in {"FULFILLED", "replay"}
    <3>1. redeemed[r].at > pass.cutoff /\ cursor.at <= pass.cutoff
      BY <1>1, <2>1, <2>3 DEF PassInv
    <3>2. QED
      BY <2>1, <3>1
  <2>4. QED
    BY <1>1, <2>2, <2>3 DEF CatchupTypes, Passes
<1>3. Catchup!HandledOnce
  BY <1>1 DEF Catchup!HandledOnce, CatchupTypes, Histories
<1>4. Catchup!CatchupTypeOK
  <2>1. timer \in now .. (MaxNow + POLL)
    BY <1>1, CatchupAssumption DEF CatchupTypes
  <2>2. \A r \in Redemptions : redeemed[r].at <= now
    <3>1. \A r \in Redemptions \ Catchup!Made : redeemed[r] = Catchup!NotMade
      BY DEF Catchup!Made
    <3>2. Catchup!NotMade.at <= now
      BY <1>1 DEF Catchup!NotMade, Catchup!Never
    <3>3. QED
      BY <1>1, <3>1, <3>2, MadeFacts
  <2>3. cursor.at <= now
    <3>1. CASE cursor = Catchup!NoCursor
      BY <1>1, <3>1, NoCursorFacts
    <3>2. CASE cursor # Catchup!NoCursor
      <4>1. Past(cursor.at) /\ cursor.at \in Int
        BY <1>1, <3>2 DEF CatchupTypes, Cursors
      <4>2. QED
        BY <1>1, <4>1, MadeFacts DEF Past
    <3>3. QED
      BY <3>1, <3>2
  <2>4. QED
    BY <1>1, <2>1, <2>2, <2>3 DEF CatchupTypes, Cursors, Passes, MissedInv, Catchup!CatchupTypeOK
<1>5. QED
  BY <1>2, <1>3, <1>4

-----------------------------------------------------------------------------
(* Membership: what each step leaves of the types                          *)

LEMMA ChatUpsetFacts == ASSUME Membership!TypeOK, Membership!ChatUpset PROVE chatUpsets' \in 0 .. MaxChatUpsets
  BY MembershipAssumption DEF Membership!TypeOK, Membership!ChatUpset

LEMMA QueuesFacts ==
  ASSUME Membership!TypeOK, NEW kind \in Membership!Kinds, Membership!Queues(kind)
  PROVE  channelQueue' \in Seq(Membership!Kinds) /\ Len(channelQueue') <= MaxChannelQueue
<1>1. channelQueue \in Seq(Membership!Kinds) /\ Len(channelQueue) < MaxChannelQueue
      /\ channelQueue' = Append(channelQueue, kind)
  BY DEF Membership!TypeOK, Membership!Queues, Membership!HasRoom
<1>2. QED
  BY <1>1, MembershipAssumption

\* What an operation may become.
LEMMA ChannelOpFacts ==
  ASSUME Membership!TypeOK
  PROVE  /\ Membership!NoChannelOp \in Membership!ChannelOps /\ Membership!NoChannelOp.pc = "done"
         /\ channelOp.pc # "done" =>
              /\ \A pc \in {"begin", "gate", "call"} : [channelOp EXCEPT !.pc = pc] \in Membership!ChannelOps
              /\ \A call \in {"cur", "old"} : [channelOp EXCEPT !.pc = "call", !.call = call] \in Membership!ChannelOps
              /\ channelOp.call \in {"cur", "old"}
         /\ channelOp # Membership!NoChannelOp =>
              /\ [channelOp EXCEPT !.call = "old", !.client = "gone"] \in Membership!ChannelOps
              /\ [channelOp EXCEPT !.call = "old", !.client = channelOp.client] \in Membership!ChannelOps
<1>1. Membership!NoChannelOp \in Membership!ChannelOps /\ Membership!NoChannelOp.pc = "done"
  BY DEF Membership!ChannelOps, Membership!NoChannelOp
<1>2. ASSUME channelOp # Membership!NoChannelOp
      PROVE channelOp \in [kind : Membership!Kinds, pc : {"begin", "gate", "call"},
                           client : {"same", "gone"}, call : {"cur", "old"}]
  BY <1>2 DEF Membership!TypeOK, Membership!ChannelOps
<1>3. QED
  BY <1>1, <1>2 DEF Membership!ChannelOps

LEMMA MembershipInitTypes == ASSUME Membership!Init PROVE Membership!TypeOK
<1>1. channelQueue \in Seq(Membership!Kinds) /\ Len(channelQueue) = 0
  BY DEF Membership!Init
<1>2. channelOp \in Membership!ChannelOps
  BY DEF Membership!Init, Membership!ChannelOps
<1>3. {botEnabled, activeChannel, confirmedJoined, joined, channelsRead} \subseteq BOOLEAN
  BY Zenon DEF Membership!Init
<1>4. Len(channelQueue) <= MaxChannelQueue /\ chatUpsets \in 0 .. MaxChatUpsets
  BY <1>1, MembershipAssumption DEF Membership!Init
<1>5. QED
  BY <1>1, <1>2, <1>3, <1>4 DEF Membership!Init, Membership!TypeOK

LEMMA LosesConnectionFacts ==
  ASSUME Membership!TypeOK, NEW client, Membership!LosesConnection(client)
  PROVE  channelOp' \in Membership!ChannelOps /\ lateJoins' \subseteq {"cur", "old"}
         /\ joined' = FALSE /\ confirmedJoined' = FALSE
<1>1. CASE channelOp = Membership!NoChannelOp
  <2>1. channelOp' = Membership!NoChannelOp /\ lateJoins' \subseteq {"cur", "old"}
        /\ joined' = FALSE /\ confirmedJoined' = FALSE
    BY <1>1 DEF Membership!LosesConnection
  <2>2. QED
    BY <2>1, ChannelOpFacts
<1>2. CASE channelOp # Membership!NoChannelOp
  <2>1. channelOp' \in {[channelOp EXCEPT !.call = "old", !.client = "gone"],
                        [channelOp EXCEPT !.call = "old", !.client = channelOp.client]}
    BY <1>2 DEF Membership!LosesConnection
  <2>2. QED
    BY <1>2, <2>1, ChannelOpFacts DEF Membership!LosesConnection
<1>3. QED
  BY <1>1, <1>2

LEMMA ToggleTypes ==
  ASSUME Membership!TypeOK, Membership!ToggleRequested \/ Membership!ToggleGoesOn
  PROVE  Membership!TypeOK'
<1> USE DEF Membership!MembershipUnchanged, Membership!LinkUnchanged
<1>1. botEnabled \in BOOLEAN => (~botEnabled) \in BOOLEAN
  OBVIOUS
<1>2. CASE Membership!ToggleRequested
  BY <1>1, <1>2, ChatUpsetFacts DEF Membership!ToggleRequested, Membership!TypeOK
<1>3. CASE Membership!ToggleReconciles
  <2>1. channelQueue' \in Seq(Membership!Kinds) /\ Len(channelQueue') <= MaxChannelQueue
    <3>1. (IF botEnabled THEN "join" ELSE "part") \in Membership!Kinds
      BY DEF Membership!Kinds
    <3>2. QED
      BY <1>3, <3>1, QueuesFacts DEF Membership!ToggleReconciles
  <2>2. QED
    BY <1>3, <2>1 DEF Membership!ToggleReconciles, Membership!TypeOK
<1>4. CASE Membership!ToggleReadFails
  BY <1>4, ChatUpsetFacts DEF Membership!ToggleReadFails, Membership!TypeOK
<1>5. CASE Membership!ToggleRollsBack
  BY <1>1, <1>5, ChatUpsetFacts DEF Membership!ToggleRollsBack, Membership!TypeOK
<1>6. QED
  BY <1>2, <1>3, <1>4, <1>5 DEF Membership!ToggleGoesOn

LEMMA EndsFacts ==
  ASSUME Membership!TypeOK, NEW outcome \in {"idle", "failed"}, Membership!Ends(outcome)
  PROVE  channelOp' \in Membership!ChannelOps /\ toggle' \in {"idle", "written", "waiting", "failed"}
         /\ UNCHANGED botEnabled
BY ChannelOpFacts DEF Membership!Ends, Membership!TypeOK

LEMMA OpTypes ==
  ASSUME Membership!TypeOK, Membership!ChannelTurn \/ Membership!OpGoesOn
  PROVE  Membership!TypeOK'
<1> USE DEF Membership!MembershipUnchanged, Membership!LinkUnchanged, Membership!ToggleUnchanged, Membership!OpRest
<1>1. CASE Membership!ChannelTurn
  <2>1. channelQueue \in Seq(Membership!Kinds) /\ channelQueue # <<>> /\ channelQueue' = Tail(channelQueue)
        /\ Len(channelQueue) <= MaxChannelQueue
    BY <1>1 DEF Membership!ChannelTurn, Membership!TypeOK
  <2>2. Head(channelQueue) \in Membership!Kinds /\ channelQueue' \in Seq(Membership!Kinds)
        /\ Len(channelQueue') <= MaxChannelQueue
    BY <2>1, MembershipAssumption
  <2>3. channelOp' \in Membership!ChannelOps
    BY <1>1, <2>2 DEF Membership!ChannelTurn, Membership!ChannelOps
  <2>4. QED
    BY <1>1, <2>2, <2>3 DEF Membership!ChannelTurn, Membership!TypeOK
<1>2. CASE Membership!BeginJoin
  <2>1. activeChannel' \in BOOLEAN /\ channelOp.pc = "begin"
        /\ UNCHANGED <<confirmedJoined, joined, chatUpsets, link, starting, channelsRead, channelQueue, lateJoins>>
    BY <1>2 DEF Membership!BeginJoin, Membership!Begun, Membership!TypeOK
  <2>2. channelOp' \in Membership!ChannelOps /\ toggle' \in {"idle", "written", "waiting", "failed"} /\ UNCHANGED botEnabled
    BY <1>2, <2>1, ChannelOpFacts, EndsFacts DEF Membership!BeginJoin, Membership!TypeOK
  <2>3. QED
    BY <2>1, <2>2 DEF Membership!TypeOK
<1>3. CASE Membership!BeginPart
  <2>1. activeChannel' \in BOOLEAN /\ UNCHANGED <<link, starting, channelsRead, channelQueue, lateJoins>>
        /\ (Membership!Ends("idle") \/ Membership!Ends("failed"))
    BY <1>3 DEF Membership!BeginPart, Membership!TypeOK
  <2>2. joined' \in BOOLEAN /\ confirmedJoined' \in BOOLEAN /\ chatUpsets' \in 0 .. MaxChatUpsets
    BY <1>3, ChatUpsetFacts DEF Membership!BeginPart, Membership!TypeOK
  <2>3. QED
    BY <2>1, <2>2, EndsFacts DEF Membership!TypeOK
<1>4. CASE Membership!JoinIssued
  BY <1>4, ChannelOpFacts DEF Membership!JoinIssued, Membership!TypeOK
<1>5. CASE Membership!JoinSettles
  BY <1>5, EndsFacts DEF Membership!JoinSettles, Membership!Lands, Membership!markJoinedIfCurrent, Membership!TypeOK
<1>6. CASE Membership!JoinFails
  BY <1>6, EndsFacts, ChatUpsetFacts DEF Membership!JoinFails, Membership!Withdraws, Membership!TypeOK
<1>7. CASE Membership!JoinTimesOut
  <2>1. chatUpsets' \in 0 .. MaxChatUpsets
    BY <1>7, MembershipAssumption DEF Membership!JoinTimesOut, Membership!TypeOK
  <2>2. lateJoins' \subseteq {"cur", "old"}
    BY <1>7, ChannelOpFacts DEF Membership!JoinTimesOut, Membership!TypeOK
  <2>3. QED
    BY <1>7, <2>1, <2>2, EndsFacts DEF Membership!JoinTimesOut, Membership!Withdraws, Membership!TypeOK
<1>8. QED
  BY <1>1, <1>2, <1>3, <1>4, <1>5, <1>6, <1>7 DEF Membership!OpGoesOn

LEMMA LateJoinTypes ==
  ASSUME Membership!TypeOK, NEW call \in lateJoins,
         Membership!LateJoinSettles(call) \/ Membership!LateJoinFails(call)
  PROVE  Membership!TypeOK'
<1> USE DEF Membership!MembershipUnchanged, Membership!LinkUnchanged, Membership!ToggleUnchanged
<1>1. CASE Membership!LateJoinSettles(call)
  <2>1. channelQueue' \in Seq(Membership!Kinds) /\ Len(channelQueue') <= MaxChannelQueue
    BY <1>1, QueuesFacts DEF Membership!LateJoinSettles, Membership!Kinds
  <2>2. QED
    BY <1>1, <2>1 DEF Membership!LateJoinSettles, Membership!Lands, Membership!markJoinedIfCurrent, Membership!TypeOK
<1>2. CASE Membership!LateJoinFails(call)
  BY <1>2 DEF Membership!LateJoinFails, Membership!TypeOK
<1>3. QED
  BY <1>1, <1>2

LEMMA ClientTypes ==
  ASSUME Membership!TypeOK,
         \/ Membership!reconcileJoinedChannels \/ Membership!onDisconnected \/ Membership!stopTwitchBot
         \/ Membership!ClientStarts \/ Membership!StartFails
  PROVE  Membership!TypeOK'
<1> USE DEF Membership!MembershipUnchanged, Membership!LinkUnchanged, Membership!ToggleUnchanged
<1>1. CASE Membership!reconcileJoinedChannels
  <2>1. channelQueue' \in Seq(Membership!Kinds) /\ Len(channelQueue') <= MaxChannelQueue
    BY <1>1, QueuesFacts DEF Membership!reconcileJoinedChannels, Membership!Kinds
  <2>2. QED
    BY <1>1, <2>1 DEF Membership!reconcileJoinedChannels, Membership!TypeOK
<1>2. CASE Membership!onDisconnected
  BY <1>2, LosesConnectionFacts, ChatUpsetFacts DEF Membership!onDisconnected, Membership!TypeOK
<1>3. CASE Membership!stopTwitchBot
  BY <1>3, LosesConnectionFacts, ChatUpsetFacts DEF Membership!stopTwitchBot, Membership!TypeOK
<1>4. CASE Membership!ReadChannels
  BY <1>4 DEF Membership!ReadChannels, Membership!TypeOK
<1>5. CASE Membership!AddChannels
  BY <1>5 DEF Membership!AddChannels, Membership!TypeOK
<1>6. CASE Membership!onConnected
  BY <1>6 DEF Membership!onConnected, Membership!TypeOK
<1>7. CASE Membership!StartFails
  BY <1>7, ChatUpsetFacts DEF Membership!StartFails, Membership!TypeOK
<1>8. QED
  BY <1>1, <1>2, <1>3, <1>4, <1>5, <1>6, <1>7 DEF Membership!ClientStarts

LEMMA MembershipStep == ASSUME Membership!TypeOK, Membership!Next PROVE Membership!TypeOK'
BY ToggleTypes, OpTypes, LateJoinTypes, ClientTypes DEF Membership!Next

LEMMA MembershipStutter == ASSUME Membership!TypeOK, UNCHANGED membershipVars PROVE Membership!TypeOK'
BY DEF Membership!TypeOK, membershipVars

-----------------------------------------------------------------------------
(* The send queue: the chunk that has the turn has waited for what it      *)
(* needs, and waiting longer takes nothing of it away                      *)

Chunks == [channel : ChatChannels, left : 1 .. MaxChunks]
Sendings ==
  [channel : ChatChannels, left : 1 .. MaxChunks, pc : {"window", "floor", "recheck"},
   privileged : {"yes", "no"}, attempt : 0 .. MAX_PRIVILEGE_RECHECKS]

SendTypes ==
  /\ sentAges \in Seq(Int) /\ sends \in Seq(Chunks)
  /\ \A i \in 1 .. Len(sentAges) : sentAges[i] >= 0 /\ sentAges[i] < WINDOW
  /\ floorAge \in [ChatChannels -> 0 .. FLOOR]
  /\ privileged \subseteq ChatChannels /\ chatUp \in BOOLEAN
  /\ sending = Queue!NotSending \/ sending \in Sendings

\* The oldest are in front, so that those that have expired are the first.
OldestFirst == \A i, j \in 1 .. Len(sentAges) : i < j => sentAges[i] >= sentAges[j]

HasWaited ==
  /\ sending.pc \in {"floor", "recheck"} => Len(sentAges) < Queue!Limit
  /\ sending.pc = "floor" => sending.privileged = "no"
  /\ sending.pc = "recheck" /\ sending.privileged = "no" => floorAge[sending.channel] = FLOOR

SendInv == SendTypes /\ OldestFirst /\ HasWaited

LEMMA SendInitInv == ASSUME Queue!Init PROVE SendInv
<1>1. sentAges \in Seq(Int) /\ sends \in Seq(Chunks) /\ Len(sentAges) = 0
  BY DEF Queue!Init
<1>2. SendTypes
  BY <1>1, SendAssumption DEF Queue!Init, SendTypes
<1>3. OldestFirst
  BY <1>1 DEF OldestFirst
<1>4. HasWaited
  BY DEF HasWaited, Queue!Init, Queue!NotSending
<1>5. QED
  BY <1>2, <1>3, <1>4 DEF SendInv

LEMMA SendTruth == ASSUME SendInv PROVE Queue!TypeOK
<1>1. \A i \in DOMAIN sentAges : sentAges[i] \in 0 .. WINDOW - 1
  BY SendAssumption DEF SendInv, SendTypes
<1>2. \A i \in DOMAIN sends : sends[i] \in Chunks
  BY DEF SendInv, SendTypes
<1>3. QED
  BY <1>1, <1>2 DEF SendInv, SendTypes, Chunks, Sendings, Queue!TypeOK

LEMMA LimitFacts == Queue!Limit \in Nat
  BY SendAssumption DEF Queue!Limit

\* Time only makes room.
LEMMA TickKeeps ==
  ASSUME SendInv, Queue!Tick
  PROVE  SendInv' /\ Len(sentAges') <= Len(sentAges) /\ Len(sentAges) \in Nat /\ Len(sentAges') \in Nat
<1>1. SendTypes /\ OldestFirst /\ HasWaited
  BY DEF SendInv
<1>2. PICK n \in 0 .. Len(sentAges) :
        /\ n < Len(sentAges) => sentAges[n + 1] + 1 < WINDOW
        /\ sentAges' = [i \in 1 .. Len(sentAges) - n |-> sentAges[i + n] + 1]
  BY DEF Queue!Tick, Queue!Expired
<1> DEFINE len == Len(sentAges)
<1>3. len \in Nat /\ n \in Nat /\ n <= len /\ len - n \in Nat
  <2>1. len \in Nat
    BY <1>1 DEF SendTypes
  <2>2. QED
    BY <2>1
<1>4. \A i \in 1 .. len - n : i + n \in 1 .. len /\ sentAges[i + n] \in Int
  BY <1>1, <1>3 DEF SendTypes
<1>5. sentAges' \in Seq(Int) /\ Len(sentAges') = len - n
  <2> DEFINE m == len - n
  <2>1. /\ \A i \in 1 .. m : sentAges[i + n] + 1 \in Int
        /\ sentAges' = [i \in 1 .. m |-> sentAges[i + n] + 1] /\ m \in Nat
    <3>1. \A i \in 1 .. m : sentAges[i + n] + 1 \in Int
      BY <1>4
    <3>2. sentAges' = [i \in 1 .. m |-> sentAges[i + n] + 1]
      BY <1>2
    <3>3. QED
      BY <1>3, <3>1, <3>2
  <2> HIDE DEF m
  <2>2. sentAges' \in [1 .. m -> Int] /\ sentAges' \in Seq(Int)
    <3>1. sentAges' \in [1 .. m -> Int]
      BY <2>1, Zenon
    <3>2. QED
      BY <2>1, <3>1, SeqDef
  <2>3. Len(sentAges') = m
    <3>1. DOMAIN sentAges' = 1 .. m
      BY <2>2
    <3>2. DOMAIN sentAges' = 1 .. Len(sentAges') /\ Len(sentAges') \in Nat
      BY <2>2, LenProperties
    <3> DEFINE k == Len(sentAges')
    <3>3. 1 .. m = 1 .. k /\ k \in Nat /\ m \in Nat
      BY <2>1, <3>1, <3>2
    <3> HIDE DEF k
    <3>4. k = m
      <4>1. k > 0 => k \in 1 .. m
        BY <3>3
      <4>2. m > 0 => m \in 1 .. k
        BY <3>3
      <4>3. QED
        BY <3>3, <4>1, <4>2
    <3>5. QED
      BY <3>4 DEF k
  <2>4. QED
    BY <2>2, <2>3 DEF m
<1>6. \A i \in 1 .. len - n : sentAges'[i] = sentAges[i + n] + 1
  BY <1>2
<1>7. ASSUME NEW i \in 1 .. len - n PROVE sentAges'[i] >= 0 /\ sentAges'[i] < WINDOW
  <2>1. n < len /\ n + 1 \in 1 .. len /\ sentAges[n + 1] \in Int
    BY <1>1, <1>3 DEF SendTypes
  <2>2. sentAges[n + 1] + 1 < WINDOW
    BY <1>2, <2>1
  <2>3. sentAges[i + n] <= sentAges[n + 1]
    <3>1. CASE i = 1
      BY <2>1, <3>1
    <3>2. CASE i # 1
      BY <1>1, <1>3, <1>4, <2>1, <3>2 DEF OldestFirst
    <3>3. QED
      BY <3>1, <3>2
  <2>4. sentAges[i + n] >= 0 /\ sentAges[i + n] \in Int /\ WINDOW \in Int
    BY <1>1, <1>4, SendAssumption DEF SendTypes
  <2>5. QED
    BY <1>6, <2>1, <2>2, <2>3, <2>4
<1>8. OldestFirst'
  <2>1. ASSUME NEW i \in 1 .. len - n, NEW j \in 1 .. len - n, i < j PROVE sentAges'[i] >= sentAges'[j]
    <3>1. sentAges[i + n] >= sentAges[j + n]
      BY <1>1, <1>3, <1>4, <2>1 DEF OldestFirst
    <3>2. QED
      BY <1>4, <1>6, <3>1
  <2>2. QED
    BY <1>5, <2>1 DEF OldestFirst
<1>9. UNCHANGED <<privileged, chatUp, sends, sending>>
      /\ floorAge' = [c \in ChatChannels |-> IF floorAge[c] < FLOOR THEN floorAge[c] + 1 ELSE FLOOR]
  BY DEF Queue!Tick
<1>10. floorAge' \in [ChatChannels -> 0 .. FLOOR] /\ \A c \in ChatChannels : floorAge[c] = FLOOR => floorAge'[c] = FLOOR
  BY <1>1, <1>9, SendAssumption DEF SendTypes
<1>11. SendTypes'
  BY <1>1, <1>5, <1>7, <1>9, <1>10 DEF SendTypes, Queue!NotSending
<1>12. HasWaited'
  <2>1. Queue!Limit' = Queue!Limit /\ len - n <= len
    BY <1>3, <1>9 DEF Queue!Limit
  <2>2. sending.pc = "recheck" => sending.channel \in ChatChannels
    BY <1>1 DEF SendTypes, Sendings, Queue!NotSending
  <2>3. QED
    BY <1>1, <1>3, <1>5, <1>9, <1>10, <2>1, <2>2, LimitFacts DEF HasWaited
<1>13. QED
  BY <1>3, <1>5, <1>8, <1>11, <1>12 DEF SendInv

\* A step that leaves the window and the floors alone.
LEMMA WaitingKeeps ==
  ASSUME SendInv, UNCHANGED <<sentAges, floorAge>>, sends' \in Seq(Chunks),
         privileged' \subseteq ChatChannels, chatUp' \in BOOLEAN, sending' = Queue!NotSending \/ sending' \in Sendings,
         HasWaited'
  PROVE  SendInv'
BY DEF SendInv, SendTypes, OldestFirst, Queue!NotSending

LEMMA SameTurn == ASSUME SendInv, UNCHANGED <<sentAges, floorAge, sending>> PROVE HasWaited'
BY DEF SendInv, HasWaited, Queue!Limit

\* A chunk that has its turn.
LEMMA TurnKeeps ==
  ASSUME SendInv, Queue!waitForWindowRoom \/ Queue!waitForChannelFloor \/ Queue!Recheck PROVE SendInv'
<1>1. sending \in Sendings
  BY DEF SendInv, SendTypes, Queue!NotSending, Queue!waitForWindowRoom, Queue!waitForChannelFloor, Queue!Recheck
<1>2. UNCHANGED <<sentAges, floorAge, privileged, chatUp, sends>>
  BY DEF Queue!waitForWindowRoom, Queue!waitForChannelFloor, Queue!Recheck
<1>3. ASSUME sending' \in Sendings, HasWaited' PROVE SendInv'
  BY <1>2, <1>3, WaitingKeeps DEF SendInv, SendTypes
<1>4. CASE Queue!waitForWindowRoom
  <2> DEFINE next == IF sending.privileged = "no" THEN "floor" ELSE "recheck"
  <2>1. sending' = [sending EXCEPT !.pc = next] /\ Len(sentAges) < Queue!Limit
    BY <1>4 DEF Queue!waitForWindowRoom
  <2>2. next \in {"floor", "recheck"} /\ (next = "floor" => sending.privileged = "no")
        /\ (next = "recheck" => sending.privileged # "no")
    OBVIOUS
  <2> HIDE DEF next
  <2>3. sending' \in Sendings /\ sending'.pc = next /\ sending'.privileged = sending.privileged
    BY <1>1, <2>1, <2>2 DEF Sendings
  <2>4. HasWaited'
    BY <1>2, <2>1, <2>2, <2>3 DEF HasWaited, Queue!Limit
  <2>5. QED
    BY <1>3, <2>3, <2>4
<1>5. CASE Queue!waitForChannelFloor
  <2>1. sending' = [sending EXCEPT !.pc = "recheck"] /\ sending.pc = "floor" /\ floorAge[sending.channel] = FLOOR
    BY <1>5 DEF Queue!waitForChannelFloor
  <2>2. /\ sending' \in Sendings /\ sending'.pc = "recheck" /\ sending'.privileged = sending.privileged
        /\ sending'.channel = sending.channel
    BY <1>1, <2>1 DEF Sendings
  <2>3. HasWaited'
    BY <1>2, <2>1, <2>2 DEF SendInv, HasWaited, Queue!Limit
  <2>4. QED
    BY <1>3, <2>2, <2>3
<1>6. CASE Queue!Recheck
  <2> DEFINE known == Queue!Privilege(sending.channel)
             attempt == sending.attempt + 1
  <2>1. sending' = [sending EXCEPT !.pc = "window", !.privileged = known, !.attempt = attempt]
        /\ sending.attempt # MAX_PRIVILEGE_RECHECKS
    BY <1>6 DEF Queue!Recheck, Queue!GaveUp
  <2>2. known \in {"yes", "no"} /\ attempt \in 0 .. MAX_PRIVILEGE_RECHECKS
    BY <1>1, <2>1, SendAssumption DEF Queue!Privilege, Sendings
  <2> HIDE DEF known, attempt
  <2>3. sending' \in Sendings /\ sending'.pc = "window"
    BY <1>1, <2>1, <2>2 DEF Sendings
  <2>4. HasWaited'
    BY <2>3 DEF HasWaited
  <2>5. QED
    BY <1>3, <2>3, <2>4
<1>7. QED
  BY <1>4, <1>5, <1>6

LEMMA SendKeeps == ASSUME SendInv, Queue!Send PROVE SendInv'
<1>1. SendTypes /\ OldestFirst /\ UNCHANGED <<privileged, chatUp>> /\ sending \in Sendings
  BY DEF SendInv, SendTypes, Queue!NotSending, Queue!Send
<1>2. sentAges' = Append(sentAges, 0) /\ sending' = Queue!NotSending
  BY DEF Queue!Send
<1> DEFINE len == Len(sentAges)
<1>3. /\ sentAges' \in Seq(Int) /\ Len(sentAges') = len + 1 /\ sentAges'[len + 1] = 0 /\ len \in Nat
      /\ \A i \in 1 .. len : sentAges'[i] = sentAges[i] /\ sentAges[i] \in Int
  BY <1>1, <1>2 DEF SendTypes
<1>4. /\ \A i \in 1 .. len : sentAges[i] >= 0 /\ sentAges[i] < WINDOW
      /\ \A i, j \in 1 .. len : i < j => sentAges[i] >= sentAges[j]
      /\ WINDOW \in Nat \ {0} /\ FLOOR \in Nat
  BY <1>1, SendAssumption DEF SendTypes, OldestFirst
<1> HIDE DEF len
<1>11. \A i \in 1 .. len + 1 : sentAges'[i] >= 0 /\ sentAges'[i] < WINDOW
  <2> TAKE i \in 1 .. len + 1
  <2>1. CASE i \in 1 .. len
    BY <1>3, <1>4, <2>1
  <2>2. CASE i = len + 1
    BY <1>3, <1>4, <2>2
  <2>3. QED
    BY <1>3, <2>1, <2>2
<1>5. OldestFirst'
  <2>1. ASSUME NEW i \in 1 .. len + 1, NEW j \in 1 .. len + 1, i < j PROVE sentAges'[i] >= sentAges'[j]
    <3>1. i \in 1 .. len
      BY <1>3, <2>1
    <3>2. CASE j \in 1 .. len
      BY <1>3, <1>4, <2>1, <3>1, <3>2
    <3>3. CASE j = len + 1
      BY <1>3, <1>11, <3>3
    <3>4. QED
      BY <1>3, <3>2, <3>3
  <2>2. QED
    BY <1>3, <2>1 DEF OldestFirst
<1>6. floorAge' \in [ChatChannels -> 0 .. FLOOR]
  <2>1. floorAge' \in {floorAge, [floorAge EXCEPT ![sending.channel] = 0]} /\ floorAge \in [ChatChannels -> 0 .. FLOOR]
    BY <1>1 DEF Queue!Send, SendTypes
  <2>2. 0 \in 0 .. FLOOR
    BY <1>4
  <2>3. QED
    BY <2>1, <2>2
<1>7. sends' \in Seq(Chunks)
  <2>1. sending.left > 1 => [channel |-> sending.channel, left |-> sending.left - 1] \in Chunks
    BY <1>1, SendAssumption DEF Sendings, Chunks
  <2>2. sends' = sends \/ (sending.left > 1 /\ sends' = Append(sends, [channel |-> sending.channel, left |-> sending.left - 1]))
    BY DEF Queue!Send
  <2>3. sends \in Seq(Chunks)
    BY <1>1 DEF SendTypes
  <2> DEFINE rest == [channel |-> sending.channel, left |-> sending.left - 1]
  <2>4. sends' = sends \/ (rest \in Chunks /\ sends' = Append(sends, rest))
    BY <2>1, <2>2
  <2> HIDE DEF rest
  <2>5. QED
    BY <2>3, <2>4
<1>8. SendTypes'
  BY <1>1, <1>2, <1>3, <1>11, <1>6, <1>7 DEF SendTypes, Queue!NotSending
<1>9. HasWaited'
  BY <1>2 DEF HasWaited, Queue!NotSending
<1>10. QED
  BY <1>5, <1>8, <1>9 DEF SendInv

LEMMA SendStep == ASSUME SendInv, Queue!Next PROVE SendInv'
<1>1. SendTypes
  BY DEF SendInv
<1>2. CASE Queue!SendTurn
  <2>1. sends \in Seq(Chunks) /\ sends # <<>> /\ sends' = Tail(sends)
    BY <1>1, <1>2 DEF Queue!SendTurn, SendTypes
  <2>2. Head(sends) \in Chunks /\ sends' \in Seq(Chunks)
    BY <2>1
  <2>3. sending' \in Sendings /\ sending'.pc = "window"
    BY <1>2, <2>2, SendAssumption DEF Queue!SendTurn, Chunks, Sendings, Queue!Privilege
  <2>4. HasWaited'
    BY <2>3 DEF HasWaited
  <2>5. QED
    BY <1>1, <1>2, <2>2, <2>3, <2>4, WaitingKeeps DEF Queue!SendTurn, SendTypes
<1>3. ASSUME NEW c \in ChatChannels, NEW n \in 1 .. MaxChunks, Queue!sayInChannel(c, n) PROVE SendInv'
  <2>1. sends' = Append(sends, [channel |-> c, left |-> n]) /\ sends' \in Seq(Chunks)
    BY <1>1, <1>3 DEF Queue!sayInChannel, SendTypes, Chunks
  <2>2. UNCHANGED <<sentAges, floorAge, privileged, chatUp, sending>>
    BY <1>3 DEF Queue!sayInChannel
  <2>3. QED
    BY <1>1, <2>1, <2>2, SameTurn, WaitingKeeps DEF SendTypes
<1>4. ASSUME NEW c \in ChatChannels, Queue!onOwnUserState(c) PROVE SendInv'
  BY <1>1, <1>4, SameTurn, WaitingKeeps DEF Queue!onOwnUserState, SendTypes
<1>5. CASE Queue!ConnectionChanges
  <2>1. chatUp' \in BOOLEAN /\ privileged' \subseteq ChatChannels /\ UNCHANGED <<sentAges, floorAge, sends, sending>>
    BY <1>1, <1>5 DEF Queue!ConnectionChanges, SendTypes
  <2>2. QED
    BY <1>1, <2>1, SameTurn, WaitingKeeps DEF SendTypes
<1>6. QED
  BY <1>2, <1>3, <1>4, <1>5, TickKeeps, TurnKeeps, SendKeeps DEF Queue!Next

LEMMA SendStutter == ASSUME SendInv, UNCHANGED sendVars PROVE SendInv'
BY DEF SendInv, SendTypes, OldestFirst, HasWaited, Queue!Limit, Queue!NotSending, sendVars

\* A message that goes out is inside the limits of what the bot is at that moment.
LEMMA SendIsWithinLimits ==
  ASSUME SendInv, Queue!Next, sentAges' = Append(sentAges, 0), ~Queue!GaveUp
  PROVE  IF sending.channel \in privileged
         THEN Len(sentAges) < PRIVILEGED_LIMIT
         ELSE Len(sentAges) < NON_PRIVILEGED_LIMIT /\ floorAge[sending.channel] = FLOOR
<1>1. Len(sentAges') = Len(sentAges) + 1 /\ Len(sentAges) \in Nat
  BY DEF SendInv, SendTypes
<1>2. Queue!Send
  <2>1. CASE Queue!Tick
    BY <1>1, <2>1, TickKeeps
  <2>2. CASE UNCHANGED sentAges
    BY <1>1, <2>2
  <2>3. QED
    BY <2>1, <2>2 DEF Queue!Next, Queue!SendTurn, Queue!waitForWindowRoom, Queue!waitForChannelFloor, Queue!Recheck,
                      Queue!onOwnUserState, Queue!sayInChannel, Queue!ConnectionChanges
<1>3. sending.pc = "recheck" /\ Queue!Unchanged
  BY <1>2 DEF Queue!Send
<1>4. QED
  BY <1>3 DEF SendInv, HasWaited, Queue!Limit, Queue!Unchanged, Queue!Privilege

-----------------------------------------------------------------------------
(* Timers: reservations stand for the posts, or give them back             *)

\* The last post of a channel holds nobody back any more.
Spaced(c) == lastPost[c].undone \/ lastPost[c].age >= SPACING

OwnInv ==
  ownWrite # Timer!NoOwnWrite => ownWrite.timer \in Timers /\ assignedTo[ownWrite.timer] \subseteq {ownWrite.by}

\* One post in a channel at most; its reservation was made when the last post allowed it. Without one the
\* entry of the channel is that of its last post.
SpacingInv ==
  /\ \A p \in timerTick.picks :
       /\ floor[p.row[2]] = [timer |-> p.row[1], age |-> 0]
       /\ Spaced(p.row[2]) \/ lastPost[p.row[2]].timer = p.row[1]
       /\ \A q \in timerTick.picks : p.row[2] = q.row[2] => p = q
  /\ \A c \in TimerChannels :
       (\A p \in timerTick.picks : p.row[2] # c) =>
         Spaced(c) \/ (floor[c].timer = lastPost[c].timer /\ floor[c].age = lastPost[c].age)

\* One post of a timer in a session at most; and an entry is no older than the post it stands for.
SessionInv ==
  /\ \A p \in timerTick.picks :
       p.session # "none" =>
         /\ sessionPost[p.row[1], p.session] >= p.row[1] /\ sessionFire[p.row[1], p.session] = 0
         /\ \A q \in timerTick.picks : p.session = q.session /\ p.row[1] = q.row[1] => p = q
  /\ \A g \in Timers \X Sessions : sessionPost[g] >= g[1] \/ sessionFire[g] <= sessionPost[g]

TickInv == timerTick.pc # "send" => timerTick.picks = {}

TimerInv == Timer!TimerTypeOK /\ OwnInv /\ TickInv /\ SpacingInv /\ SessionInv

LEMMA LongestFacts ==
  /\ Timer!Longest \in Nat \ {0} /\ Timer!Longest >= SPACING /\ SPACING \in Nat
  /\ \A t \in Timers : t \in Nat \ {0} /\ DueEvery[t] = t /\ Timer!Longest >= t
  /\ Timer!Never = Timer!Longest /\ Timer!NotSeeded = Timer!Longest + 1 /\ Timer!Ages = 0 .. Timer!Longest
<1> DEFINE S == {DueEvery[t] : t \in Timers} \cup {SPACING}
<1>1. /\ SPACING \in Nat
      /\ \A t \in Timers : t \in Nat \ {0} /\ DueEvery[t] = t
  BY TimerAssumption DEF DueEvery
<1>2. \E n \in S : \A m \in S : n >= m
  <2>1. PICK longest \in Timers : \A t \in Timers : t <= longest
    BY TimerAssumption
  <2>2. longest \in S /\ SPACING \in S /\ S \subseteq Nat /\ \A m \in S : m <= longest \/ m = SPACING
    BY <1>1, <2>1
  <2> HIDE DEF S
  <2>3. CASE longest >= SPACING
    BY <1>1, <2>1, <2>2, <2>3
  <2>4. CASE ~(longest >= SPACING)
    BY <1>1, <2>1, <2>2, <2>4
  <2>5. QED
    BY <2>3, <2>4
<1>3. Timer!Longest = CHOOSE n \in S : \A m \in S : n >= m
  BY DEF Timer!Longest
<1>4. Timer!Longest \in S /\ \A m \in S : Timer!Longest >= m
  BY <1>2, <1>3
<1>5. \A t \in Timers : Timer!Longest >= t
  BY <1>1, <1>4
<1>6. PICK t \in Timers : TRUE
  BY TimerAssumption
<1>7. Timer!Longest \in Nat
  BY <1>1, <1>4
<1>8. QED
  BY <1>1, <1>4, <1>5, <1>6, <1>7 DEF Timer!Never, Timer!NotSeeded, Timer!Ages

LEMMA OlderFacts ==
  ASSUME NEW age \in Timer!Ages
  PROVE  /\ Timer!Older(age) \in Timer!Ages /\ Timer!Older(age) >= age
         /\ \A other \in Timer!Ages : other <= age => Timer!Older(other) <= Timer!Older(age)
BY LongestFacts DEF Timer!Older

LEMMA AgeFacts ==
  0 \in Timer!Ages /\ Timer!Never \in Timer!Ages /\ Timer!NotSeeded \notin Timer!Ages /\ 0 # Timer!Never
BY LongestFacts

LEMMA TimerUpsetFacts == ASSUME Timer!TimerTypeOK, Timer!TimerUpset PROVE timerUpsets' \in 0 .. MaxTimerUpsets
  BY TimerAssumption DEF Timer!TimerTypeOK, Timer!TimerUpset

LEMMA TimerInitInv == ASSUME Timer!TimerInit PROVE TimerInv
<1>1. AssignedAtFirst \in [Timers -> SUBSET TimerChannels]
  <2>1. (CHOOSE c \in TimerChannels : TRUE) \in TimerChannels
    BY TimerAssumption
  <2>2. QED
    BY <2>1 DEF AssignedAtFirst
<1>2. /\ timerTick.picks = {} /\ timerTick.pc = "idle"
      /\ timerTick \in [pc : {"idle", "pick", "send"}, picks : SUBSET Timer!Picks]
  BY DEF Timer!TimerInit, Timer!NoTick
<1>3. ownWrite \in [timer : Timers \cup {0}, by : TimerChannels \cup {"none"},
                    write : {"none", "toggle", "remove", "discard"}]
  BY DEF Timer!TimerInit, Timer!NoOwnWrite
<1>4. /\ floor \in [TimerChannels -> [timer : Timers \cup {0}, age : Timer!Ages]]
      /\ lastPost \in [TimerChannels -> [timer : Timers \cup {0}, age : Timer!Ages, undone : BOOLEAN]]
      /\ sessionFire \in [Timers \X Sessions -> Timer!Ages] /\ sessionPost \in [Timers \X Sessions -> Timer!Ages]
      /\ sinceFire \in [Timer!Rows -> Timer!Ages \cup {Timer!NotSeeded}]
  BY AgeFacts DEF Timer!TimerInit, Timer!NoFloor, Timer!NoPost
<1>5. timerRows \in [Timers -> {"none", "off", "on"}] /\ assignedTo \in [Timers -> SUBSET TimerChannels]
      /\ timerUpsets \in 0 .. MaxTimerUpsets
  BY <1>1, TimerAssumption DEF Timer!TimerInit
<1>6. Timer!TimerTypeOK
  BY <1>2, <1>3, <1>4, <1>5 DEF Timer!TimerTypeOK
<1>7. \A c \in TimerChannels : Spaced(c)
  BY LongestFacts DEF Timer!TimerInit, Timer!NoPost, Spaced
<1>8. \A g \in Timers \X Sessions : sessionFire[g] <= sessionPost[g]
  BY LongestFacts DEF Timer!TimerInit
<1>9. QED
  BY <1>2, <1>6, <1>7, <1>8 DEF Timer!TimerInit, TimerInv, OwnInv, TickInv, SpacingInv, SessionInv

\* The writes touch the tables only, and not the timer whose rows are locked.
LEMMA TablesKeep ==
  ASSUME TimerInv, UNCHANGED <<sinceFire, sessionFire, floor, timerTick, lastPost, sessionPost>>,
         timerRows' \in [Timers -> {"none", "off", "on"}], assignedTo' \in [Timers -> SUBSET TimerChannels],
         ownWrite' \in [timer : Timers \cup {0}, by : TimerChannels \cup {"none"},
                        write : {"none", "toggle", "remove", "discard"}],
         timerUpsets' \in 0 .. MaxTimerUpsets, OwnInv'
  PROVE  TimerInv'
<1>1. Timer!TimerTypeOK /\ TickInv /\ SpacingInv /\ SessionInv
  BY DEF TimerInv
<1>2. Timer!TimerTypeOK'
  BY <1>1 DEF Timer!TimerTypeOK
<1>3. TickInv' /\ SpacingInv' /\ SessionInv'
  BY <1>1 DEF TickInv, SpacingInv, SessionInv, Spaced
<1>4. QED
  BY <1>2, <1>3 DEF TimerInv

\* A write that takes its time only for one statement.
LEMMA LocksHold ==
  ASSUME TimerInv, UNCHANGED ownWrite, NEW t \in Timers, Timer!Unlocked(t),
         \A other \in Timers \ {t} : assignedTo'[other] = assignedTo[other]
  PROVE  OwnInv'
BY DEF TimerInv, OwnInv, Timer!Unlocked, Timer!NoOwnWrite

LEMMA StatementKeeps ==
  ASSUME TimerInv, NEW t \in Timers,
         \/ Timer!addTimerCommand(t) \/ Timer!setTimerCommandEnabled(t) \/ Timer!removeTimerCommand(t)
         \/ \E channels \in (SUBSET TimerChannels) \ {{}} : Timer!assignUsersToTimer(t, channels)
         \/ \E channel \in TimerChannels : Timer!unassignUserFromTimer(t, channel)
  PROVE  TimerInv'
<1> USE DEF Timer!timerMemory, Timer!timerHistory
<1>1. /\ timerRows \in [Timers -> {"none", "off", "on"}] /\ assignedTo \in [Timers -> SUBSET TimerChannels]
      /\ ownWrite \in [timer : Timers \cup {0}, by : TimerChannels \cup {"none"},
                       write : {"none", "toggle", "remove", "discard"}]
  BY DEF TimerInv, Timer!TimerTypeOK
<1>2. Timer!TimerUpset /\ UNCHANGED <<ownWrite, sinceFire, sessionFire, floor, timerTick, lastPost, sessionPost>>
  BY DEF Timer!addTimerCommand, Timer!setTimerCommandEnabled, Timer!removeTimerCommand, Timer!assignUsersToTimer,
         Timer!unassignUserFromTimer
<1>3. timerUpsets' \in 0 .. MaxTimerUpsets
  BY <1>2, TimerUpsetFacts DEF TimerInv
<1>4. CASE Timer!addTimerCommand(t)
  <2>1. timerRows' \in [Timers -> {"none", "off", "on"}] /\ UNCHANGED assignedTo
    BY <1>1, <1>4 DEF Timer!addTimerCommand
  <2>2. OwnInv'
    BY <1>2, <2>1 DEF TimerInv, OwnInv, Timer!NoOwnWrite
  <2>3. QED
    BY <1>1, <1>2, <1>3, <2>1, <2>2, TablesKeep
<1>5. CASE Timer!setTimerCommandEnabled(t)
  <2>1. timerRows' \in [Timers -> {"none", "off", "on"}] /\ UNCHANGED assignedTo
    BY <1>1, <1>5 DEF Timer!setTimerCommandEnabled
  <2>2. OwnInv'
    BY <1>2, <2>1 DEF TimerInv, OwnInv, Timer!NoOwnWrite
  <2>3. QED
    BY <1>1, <1>2, <1>3, <2>1, <2>2, TablesKeep
<1>6. CASE Timer!removeTimerCommand(t)
  <2>1. /\ timerRows' \in [Timers -> {"none", "off", "on"}] /\ assignedTo' \in [Timers -> SUBSET TimerChannels]
        /\ \A other \in Timers \ {t} : assignedTo'[other] = assignedTo[other]
    BY <1>1, <1>6 DEF Timer!removeTimerCommand
  <2>2. OwnInv'
    BY <1>2, <1>6, <2>1, LocksHold DEF Timer!removeTimerCommand
  <2>3. QED
    BY <1>1, <1>2, <1>3, <2>1, <2>2, TablesKeep
<1>7. ASSUME NEW channels \in (SUBSET TimerChannels) \ {{}}, Timer!assignUsersToTimer(t, channels) PROVE TimerInv'
  <2>1. /\ assignedTo' \in [Timers -> SUBSET TimerChannels] /\ UNCHANGED timerRows
        /\ \A other \in Timers \ {t} : assignedTo'[other] = assignedTo[other]
    BY <1>1, <1>7 DEF Timer!assignUsersToTimer
  <2>2. OwnInv'
    BY <1>2, <1>7, <2>1, LocksHold DEF Timer!assignUsersToTimer
  <2>3. QED
    BY <1>1, <1>2, <1>3, <2>1, <2>2, TablesKeep
<1>8. ASSUME NEW channel \in TimerChannels, Timer!unassignUserFromTimer(t, channel) PROVE TimerInv'
  <2>1. /\ assignedTo' \in [Timers -> SUBSET TimerChannels] /\ UNCHANGED timerRows
        /\ \A other \in Timers \ {t} : assignedTo'[other] = assignedTo[other]
    BY <1>1, <1>8 DEF Timer!unassignUserFromTimer
  <2>2. OwnInv'
    BY <1>2, <1>8, <2>1, LocksHold DEF Timer!unassignUserFromTimer
  <2>3. QED
    BY <1>1, <1>2, <1>3, <2>1, <2>2, TablesKeep
<1>9. QED
  BY <1>4, <1>5, <1>6, <1>7, <1>8

LEMMA OwnWriteKeeps ==
  ASSUME TimerInv,
         \/ Timer!WriteOwned
         \/ \E t \in Timers, by \in TimerChannels, write \in {"toggle", "remove", "discard"} : Timer!LockOwned(t, by, write)
  PROVE  TimerInv'
<1> USE DEF Timer!timerMemory, Timer!timerHistory
<1>1. /\ timerRows \in [Timers -> {"none", "off", "on"}] /\ assignedTo \in [Timers -> SUBSET TimerChannels]
      /\ timerUpsets \in 0 .. MaxTimerUpsets /\ Timer!TimerTypeOK /\ OwnInv
  BY DEF TimerInv, Timer!TimerTypeOK
<1>2. UNCHANGED <<sinceFire, sessionFire, floor, timerTick, lastPost, sessionPost>>
  BY DEF Timer!WriteOwned, Timer!LockOwned
<1>3. CASE Timer!WriteOwned
  <2>1. ownWrite' = Timer!NoOwnWrite /\ ownWrite.timer \in Timers /\ UNCHANGED timerUpsets
    BY <1>1, <1>3 DEF Timer!WriteOwned, OwnInv
  <2>2. timerRows' \in [Timers -> {"none", "off", "on"}] /\ assignedTo' \in [Timers -> SUBSET TimerChannels]
    BY <1>1, <1>3, <2>1 DEF Timer!WriteOwned
  <2>3. OwnInv' /\ ownWrite' \in [timer : Timers \cup {0}, by : TimerChannels \cup {"none"},
                                  write : {"none", "toggle", "remove", "discard"}]
    BY <2>1 DEF OwnInv, Timer!NoOwnWrite
  <2>4. QED
    BY <1>1, <1>2, <2>1, <2>2, <2>3, TablesKeep
<1>4. ASSUME NEW t \in Timers, NEW by \in TimerChannels, NEW write \in {"toggle", "remove", "discard"},
             Timer!LockOwned(t, by, write)
      PROVE  TimerInv'
  <2>1. ownWrite' = [timer |-> t, by |-> by, write |-> write] /\ UNCHANGED <<timerRows, assignedTo>>
        /\ assignedTo[t] \subseteq {by} /\ timerUpsets' \in 0 .. MaxTimerUpsets
    BY <1>1, <1>4, TimerUpsetFacts DEF Timer!LockOwned, Timer!Allows
  <2>2. OwnInv' /\ ownWrite' \in [timer : Timers \cup {0}, by : TimerChannels \cup {"none"},
                                  write : {"none", "toggle", "remove", "discard"}]
    BY <2>1 DEF OwnInv
  <2>3. QED
    BY <1>1, <1>2, <2>1, <2>2, TablesKeep
<1>5. QED
  BY <1>3, <1>4

\* Time takes no reservation away that still holds something back.
LEMMA TimePassesFacts ==
  ASSUME TimerInv, timerTick.picks = {}, Timer!TimePasses, timerTick'.picks = {}
  PROVE  /\ sessionFire' \in [Timers \X Sessions -> Timer!Ages] /\ sessionPost' \in [Timers \X Sessions -> Timer!Ages]
         /\ floor' \in [TimerChannels -> [timer : Timers \cup {0}, age : Timer!Ages]]
         /\ lastPost' \in [TimerChannels -> [timer : Timers \cup {0}, age : Timer!Ages, undone : BOOLEAN]]
         /\ SpacingInv' /\ SessionInv'
<1>1. /\ sessionFire \in [Timers \X Sessions -> Timer!Ages] /\ sessionPost \in [Timers \X Sessions -> Timer!Ages]
      /\ floor \in [TimerChannels -> [timer : Timers \cup {0}, age : Timer!Ages]]
      /\ lastPost \in [TimerChannels -> [timer : Timers \cup {0}, age : Timer!Ages, undone : BOOLEAN]]
      /\ \A c \in TimerChannels : Spaced(c) \/ (floor[c].timer = lastPost[c].timer /\ floor[c].age = lastPost[c].age)
      /\ \A g \in Timers \X Sessions : sessionPost[g] >= g[1] \/ sessionFire[g] <= sessionPost[g]
  BY DEF TimerInv, Timer!TimerTypeOK, SpacingInv, SessionInv
<1>2. /\ sessionFire' = [g \in Timers \X Sessions |-> Timer!Older(sessionFire[g])]
      /\ sessionPost' = [g \in Timers \X Sessions |-> Timer!Older(sessionPost[g])]
      /\ \A c \in TimerChannels : floor'[c] = IF Timer!Older(floor[c].age) = Timer!Never THEN Timer!NoFloor
                                              ELSE [floor[c] EXCEPT !.age = Timer!Older(floor[c].age)]
      /\ \A c \in TimerChannels : lastPost'[c] = IF Timer!Older(lastPost[c].age) = Timer!Never THEN Timer!NoPost
                                                 ELSE [lastPost[c] EXCEPT !.age = Timer!Older(lastPost[c].age)]
      /\ DOMAIN floor' = TimerChannels /\ DOMAIN lastPost' = TimerChannels
      /\ floor' = [c \in TimerChannels |-> floor'[c]] /\ lastPost' = [c \in TimerChannels |-> lastPost'[c]]
  BY <1>1 DEF Timer!TimePasses
<1>3. /\ sessionFire' \in [Timers \X Sessions -> Timer!Ages] /\ sessionPost' \in [Timers \X Sessions -> Timer!Ages]
  BY <1>1, <1>2, OlderFacts
<1>4. ASSUME NEW c \in TimerChannels
      PROVE  /\ floor'[c] \in [timer : Timers \cup {0}, age : Timer!Ages]
             /\ lastPost'[c] \in [timer : Timers \cup {0}, age : Timer!Ages, undone : BOOLEAN]
             /\ \/ lastPost'[c].undone \/ lastPost'[c].age >= SPACING
                \/ floor'[c].timer = lastPost'[c].timer /\ floor'[c].age = lastPost'[c].age
  <2> DEFINE a == Timer!Older(floor[c].age)
             b == Timer!Older(lastPost[c].age)
  <2>1. /\ floor[c] \in [timer : Timers \cup {0}, age : Timer!Ages] /\ a \in Timer!Ages
        /\ lastPost[c] \in [timer : Timers \cup {0}, age : Timer!Ages, undone : BOOLEAN] /\ b \in Timer!Ages
        /\ b >= lastPost[c].age /\ (floor[c].age = lastPost[c].age => a = b)
    BY <1>1, OlderFacts
  <2>2. /\ floor'[c] = IF a = Timer!Never THEN Timer!NoFloor ELSE [floor[c] EXCEPT !.age = a]
        /\ lastPost'[c] = IF b = Timer!Never THEN Timer!NoPost ELSE [lastPost[c] EXCEPT !.age = b]
    BY <1>2
  <2> HIDE DEF a, b
  <2>3. /\ Timer!NoFloor = [timer |-> 0, age |-> Timer!Never]
        /\ Timer!NoPost = [timer |-> 0, age |-> Timer!Never, undone |-> FALSE]
        /\ Timer!Never \in Timer!Ages /\ Timer!Never >= SPACING
    BY LongestFacts, AgeFacts DEF Timer!NoFloor, Timer!NoPost
  <2>4. floor'[c] \in [timer : Timers \cup {0}, age : Timer!Ages]
    BY <2>1, <2>2, <2>3
  <2>5. lastPost'[c] \in [timer : Timers \cup {0}, age : Timer!Ages, undone : BOOLEAN]
    BY <2>1, <2>2, <2>3
  <2>6. CASE b = Timer!Never
    BY <2>2, <2>3, <2>4, <2>5, <2>6
  <2>7. CASE b # Timer!Never
    <3>1. lastPost'[c] = [lastPost[c] EXCEPT !.age = b]
      BY <2>2, <2>7
    <3>2. lastPost'[c].timer = lastPost[c].timer /\ lastPost'[c].age = b /\ lastPost'[c].undone = lastPost[c].undone
      BY <2>1, <3>1
    <3>3. CASE Spaced(c)
      <4>1. lastPost[c].age \in Int /\ b \in Int /\ SPACING \in Int
        BY <2>1, LongestFacts
      <4>2. CASE lastPost[c].undone
        BY <2>4, <2>5, <3>2, <4>2
      <4>3. CASE lastPost[c].age >= SPACING
        <5>1. lastPost'[c].age >= SPACING
          BY <2>1, <3>2, <4>1, <4>3
        <5>2. QED
          BY <2>4, <2>5, <5>1
      <4>4. QED
        BY <3>3, <4>2, <4>3 DEF Spaced
    <3>4. CASE floor[c].timer = lastPost[c].timer /\ floor[c].age = lastPost[c].age
      <4>1. a = b
        BY <2>1, <3>4
      <4>2. floor'[c] = [floor[c] EXCEPT !.age = b]
        BY <2>2, <2>7, <4>1
      <4>3. floor'[c].timer = floor[c].timer /\ floor'[c].age = b
        BY <2>1, <4>2
      <4>4. QED
        BY <2>4, <2>5, <3>2, <3>4, <4>3
    <3>5. QED
      BY <1>1, <3>3, <3>4
  <2>8. QED
    BY <2>6, <2>7
<1>5. SpacingInv'
  BY <1>4 DEF SpacingInv, Spaced
<1>6. SessionInv'
  <2>1. ASSUME NEW g \in Timers \X Sessions PROVE sessionPost'[g] >= g[1] \/ sessionFire'[g] <= sessionPost'[g]
    <3>1. /\ sessionPost[g] \in Timer!Ages /\ sessionFire[g] \in Timer!Ages /\ g[1] \in Timers
          /\ sessionPost'[g] = Timer!Older(sessionPost[g]) /\ sessionFire'[g] = Timer!Older(sessionFire[g])
          /\ sessionPost[g] >= g[1] \/ sessionFire[g] <= sessionPost[g]
      BY <1>1, <1>2
    <3>2. /\ sessionPost'[g] >= sessionPost[g] /\ sessionPost'[g] \in Timer!Ages
          /\ sessionFire[g] <= sessionPost[g] => sessionFire'[g] <= sessionPost'[g]
      BY <3>1, OlderFacts
    <3>3. g[1] \in Int /\ \A age \in Timer!Ages : age \in Int
      BY <3>1, LongestFacts
    <3>4. QED
      BY <3>1, <3>2, <3>3
  <2>2. QED
    BY <2>1 DEF SessionInv
<1>7. QED
  BY <1>2, <1>3, <1>4, <1>5, <1>6

LEMMA TickBeginsKeeps == ASSUME TimerInv, Timer!TickBegins PROVE TimerInv'
<1> USE DEF Timer!timerTables
<1>1. Timer!TimerTypeOK /\ OwnInv
  BY DEF TimerInv
<1>2. timerTick = Timer!NoTick /\ Timer!TimePasses /\ UNCHANGED <<timerRows, assignedTo, ownWrite>>
  BY DEF Timer!TickBegins
<1>3. Timer!NoTick.picks = {} /\ Timer!NoTick.pc = "idle"
  BY DEF Timer!NoTick
<1>4. /\ timerTick'.picks = {} /\ timerTick' \in [pc : {"idle", "pick", "send"}, picks : SUBSET Timer!Picks]
      /\ timerTick'.pc # "send"
  BY <1>1, <1>2, <1>3 DEF Timer!TickBegins, Timer!NoTick, Timer!TimerTypeOK
<1>5. sinceFire' \in [Timer!Rows -> Timer!Ages \cup {Timer!NotSeeded}]
  <2>1. \A r \in Timer!Rows : sinceFire[r] # Timer!NotSeeded => Timer!Older(sinceFire[r]) \in Timer!Ages
    BY <1>1, OlderFacts DEF Timer!TimerTypeOK
  <2>2. CASE sinceFire' = [r \in Timer!Rows |-> CASE r \notin Timer!EnabledRows -> Timer!NotSeeded
                             [] r \in Timer!EnabledRows /\ sinceFire[r] = Timer!NotSeeded -> 0
                             [] OTHER -> Timer!Older(sinceFire[r])]
    <3>1. ASSUME NEW r \in Timer!Rows PROVE sinceFire'[r] \in Timer!Ages \cup {Timer!NotSeeded}
      <4>1. CASE r \notin Timer!EnabledRows
        BY <2>2, <4>1
      <4>2. CASE r \in Timer!EnabledRows /\ sinceFire[r] = Timer!NotSeeded
        BY <2>2, <4>2, AgeFacts
      <4>3. CASE r \in Timer!EnabledRows /\ sinceFire[r] # Timer!NotSeeded
        BY <2>1, <2>2, <4>3
      <4>4. QED
        BY <4>1, <4>2, <4>3
    <3>2. sinceFire' = [r \in Timer!Rows |-> sinceFire'[r]]
      BY <2>2
    <3>3. QED
      BY <3>1, <3>2
  <2>3. CASE sinceFire' = [r \in Timer!Rows |-> IF sinceFire[r] = Timer!NotSeeded THEN Timer!NotSeeded
                                                ELSE Timer!Older(sinceFire[r])]
    BY <2>1, <2>3
  <2>4. QED
    BY <2>2, <2>3 DEF Timer!TickBegins
<1>6. timerUpsets' \in 0 .. MaxTimerUpsets
  BY <1>1, TimerUpsetFacts DEF Timer!TickBegins, Timer!TimerTypeOK
<1>7. /\ sessionFire' \in [Timers \X Sessions -> Timer!Ages] /\ sessionPost' \in [Timers \X Sessions -> Timer!Ages]
      /\ floor' \in [TimerChannels -> [timer : Timers \cup {0}, age : Timer!Ages]]
      /\ lastPost' \in [TimerChannels -> [timer : Timers \cup {0}, age : Timer!Ages, undone : BOOLEAN]]
      /\ SpacingInv' /\ SessionInv'
  BY <1>2, <1>3, <1>4, TimePassesFacts
<1>8. Timer!TimerTypeOK'
  BY <1>1, <1>2, <1>4, <1>5, <1>6, <1>7 DEF Timer!TimerTypeOK, Timer!Rows, Timer!Ages, Timer!NotSeeded, Timer!Longest, Timer!Picks
<1>9. OwnInv' /\ TickInv'
  BY <1>1, <1>2, <1>4 DEF OwnInv, TickInv, Timer!NoOwnWrite
<1>10. QED
  BY <1>7, <1>8, <1>9 DEF TimerInv

LEMMA StopKeeps == ASSUME TimerInv, Timer!stopTimerCommandScheduler PROVE TimerInv'
<1> USE DEF Timer!timerTables
<1>1. Timer!TimerTypeOK /\ OwnInv /\ TickInv
  BY DEF TimerInv
<1>2. /\ timerTick = Timer!NoTick /\ Timer!TimerUpset /\ UNCHANGED <<timerRows, assignedTo, ownWrite, timerTick>>
      /\ sinceFire' = [r \in Timer!Rows |-> Timer!NotSeeded]
      /\ sessionFire' = [g \in Timers \X Sessions |-> Timer!Never]
      /\ floor' = [c \in TimerChannels |-> Timer!NoFloor]
      /\ lastPost' = [c \in TimerChannels |-> Timer!NoPost]
      /\ sessionPost' = [g \in Timers \X Sessions |-> Timer!Never]
  BY <1>1 DEF Timer!stopTimerCommandScheduler, Timer!TimerTypeOK
<1>3. timerTick.picks = {}
  BY <1>2 DEF Timer!NoTick
<1>4. /\ floor' \in [TimerChannels -> [timer : Timers \cup {0}, age : Timer!Ages]]
      /\ lastPost' \in [TimerChannels -> [timer : Timers \cup {0}, age : Timer!Ages, undone : BOOLEAN]]
      /\ sessionFire' \in [Timers \X Sessions -> Timer!Ages] /\ sessionPost' \in [Timers \X Sessions -> Timer!Ages]
      /\ sinceFire' \in [Timer!Rows -> Timer!Ages \cup {Timer!NotSeeded}]
  BY <1>2, AgeFacts DEF Timer!NoFloor, Timer!NoPost
<1>5. timerUpsets' \in 0 .. MaxTimerUpsets
  BY <1>1, <1>2, TimerUpsetFacts
<1>6. Timer!TimerTypeOK'
  BY <1>1, <1>2, <1>4, <1>5 DEF Timer!TimerTypeOK, Timer!Rows, Timer!Ages, Timer!NotSeeded, Timer!Longest, Timer!Picks
<1>7. \A c \in TimerChannels : lastPost'[c].age >= SPACING
  BY <1>2, LongestFacts DEF Timer!NoPost
<1>8. \A g \in Timers \X Sessions : sessionFire'[g] <= sessionPost'[g]
  BY <1>2, LongestFacts
<1>9. QED
  BY <1>1, <1>2, <1>3, <1>6, <1>7, <1>8
     DEF TimerInv, OwnInv, TickInv, SpacingInv, SessionInv, Spaced, Timer!NoOwnWrite

\* A pick that has been posted, or has failed, leaves the others to be posted.
LEMMA PickIsDone ==
  ASSUME TimerInv, NEW pick \in timerTick.picks, Timer!Finished(pick)
  PROVE  /\ timerTick'.picks = timerTick.picks \ {pick} /\ TickInv'
         /\ timerTick' \in [pc : {"idle", "pick", "send"}, picks : SUBSET Timer!Picks]
         /\ pick.row \in Timer!Rows /\ pick.row[1] \in Timers /\ pick.row[2] \in TimerChannels
         /\ pick.session \in Sessions \cup {"none"}
<1>1. timerTick \in [pc : {"idle", "pick", "send"}, picks : SUBSET Timer!Picks] /\ timerTick.pc = "send"
  BY DEF TimerInv, Timer!TimerTypeOK, TickInv
<1>2. pick \in Timer!Picks
  BY <1>1
<1>3. pick.row \in Timer!Rows /\ pick.session \in Sessions \cup {"none"}
  BY <1>2 DEF Timer!Picks
<1>4. pick.row[1] \in Timers /\ pick.row[2] \in TimerChannels
  BY <1>3 DEF Timer!Rows
<1>5. CASE timerTick.picks = {pick}
  BY <1>3, <1>4, <1>5 DEF Timer!Finished, Timer!NoTick, TickInv
<1>6. CASE timerTick.picks # {pick}
  <2>1. timerTick' = [timerTick EXCEPT !.picks = timerTick.picks \ {pick}]
    BY <1>6 DEF Timer!Finished
  <2>2. timerTick'.picks = timerTick.picks \ {pick} /\ timerTick'.pc = "send"
        /\ timerTick' \in [pc : {"idle", "pick", "send"}, picks : SUBSET Timer!Picks]
    BY <1>1, <2>1
  <2>3. QED
    BY <1>3, <1>4, <2>2 DEF TickInv
<1>7. QED
  BY <1>5, <1>6

\* A post that succeeds is what its reservations said.
LEMMA TimerPostKeeps == ASSUME TimerInv, NEW pick \in timerTick.picks, Timer!sendTimerRow(pick) PROVE TimerInv'
<1> USE DEF Timer!timerTables
<1> DEFINE c == pick.row[2]
           t == pick.row[1]
           g == <<pick.row[1], pick.session>>
<1>1. Timer!TimerTypeOK /\ OwnInv /\ SpacingInv /\ SessionInv
  BY DEF TimerInv
<1>2. /\ sinceFire' = [sinceFire EXCEPT ![pick.row] = 0]
      /\ lastPost' = [lastPost EXCEPT ![c] = [timer |-> t, age |-> 0, undone |-> FALSE]]
      /\ sessionPost' = IF pick.session = "none" THEN sessionPost ELSE [sessionPost EXCEPT ![g] = 0]
      /\ Timer!Finished(pick)
      /\ UNCHANGED <<timerRows, assignedTo, ownWrite, sessionFire, floor, timerUpsets>>
  BY DEF Timer!sendTimerRow
<1>3. /\ timerTick'.picks = timerTick.picks \ {pick} /\ TickInv'
      /\ timerTick' \in [pc : {"idle", "pick", "send"}, picks : SUBSET Timer!Picks]
      /\ pick.row \in Timer!Rows /\ t \in Timers /\ c \in TimerChannels
      /\ pick.session \in Sessions \cup {"none"}
  BY <1>2, PickIsDone
<1>4. /\ sinceFire \in [Timer!Rows -> Timer!Ages \cup {Timer!NotSeeded}]
      /\ lastPost \in [TimerChannels -> [timer : Timers \cup {0}, age : Timer!Ages, undone : BOOLEAN]]
      /\ sessionPost \in [Timers \X Sessions -> Timer!Ages] /\ 0 \in Timer!Ages
  BY <1>1, AgeFacts DEF Timer!TimerTypeOK
<1>5. sinceFire' \in [Timer!Rows -> Timer!Ages \cup {Timer!NotSeeded}]
  BY <1>2, <1>3, <1>4
<1>6. /\ lastPost' \in [TimerChannels -> [timer : Timers \cup {0}, age : Timer!Ages, undone : BOOLEAN]]
      /\ lastPost'[c] = [timer |-> t, age |-> 0, undone |-> FALSE]
      /\ \A d \in TimerChannels \ {c} : lastPost'[d] = lastPost[d]
  <2>1. [timer |-> t, age |-> 0, undone |-> FALSE] \in [timer : Timers \cup {0}, age : Timer!Ages, undone : BOOLEAN]
    BY <1>3, <1>4
  <2> HIDE DEF c, t
  <2>2. QED
    BY <1>2, <1>3, <1>4, <2>1
<1>7. /\ sessionPost' \in [Timers \X Sessions -> Timer!Ages]
      /\ \A h \in Timers \X Sessions : sessionPost'[h] = sessionPost[h] \/ (h = g /\ sessionPost'[h] = 0)
      /\ \A h \in Timers \X Sessions : h # g => sessionPost'[h] = sessionPost[h]
  <2>1. CASE pick.session = "none"
    BY <1>2, <1>4, <2>1
  <2>2. CASE pick.session # "none"
    <3>1. g \in Timers \X Sessions /\ sessionPost' = [sessionPost EXCEPT ![g] = 0]
      BY <1>2, <1>3, <2>2
    <3> HIDE DEF g
    <3>2. QED
      BY <1>4, <3>1
  <2>3. QED
    BY <2>1, <2>2
<1>8. Timer!TimerTypeOK'
  BY <1>1, <1>2, <1>3, <1>5, <1>6, <1>7
     DEF Timer!TimerTypeOK, Timer!Rows, Timer!Ages, Timer!NotSeeded, Timer!Longest, Timer!Picks
<1>9. \A q \in timerTick'.picks : q.row[2] \in TimerChannels \ {c}
  <2>1. \A q \in timerTick'.picks : q \in timerTick.picks /\ q # pick /\ q \in Timer!Picks
    BY <1>3
  <2>2. \A q \in timerTick'.picks : q.row[2] \in TimerChannels
    BY <2>1 DEF Timer!Picks, Timer!Rows
  <2>3. QED
    BY <1>1, <2>1, <2>2 DEF SpacingInv
<1>10. floor[c] = [timer |-> t, age |-> 0]
  BY <1>1 DEF SpacingInv
<1>11. SpacingInv'
  <2>1. ASSUME NEW q \in timerTick'.picks
        PROVE  /\ floor'[q.row[2]] = [timer |-> q.row[1], age |-> 0]
               /\ Spaced(q.row[2])' \/ lastPost'[q.row[2]].timer = q.row[1]
               /\ \A o \in timerTick'.picks : q.row[2] = o.row[2] => q = o
    BY <1>1, <1>2, <1>3, <1>6, <1>9 DEF SpacingInv, Spaced
  <2>2. ASSUME NEW d \in TimerChannels, \A p \in timerTick'.picks : p.row[2] # d
        PROVE  Spaced(d)' \/ (floor'[d].timer = lastPost'[d].timer /\ floor'[d].age = lastPost'[d].age)
    <3>1. CASE d = c
      BY <1>2, <1>6, <1>10, <3>1
    <3>2. CASE d # c
      <4>1. \A p \in timerTick.picks : p.row[2] # d
        BY <1>3, <2>2, <3>2
      <4>2. lastPost'[d] = lastPost[d] /\ floor'[d] = floor[d]
        BY <1>2, <1>6, <3>2
      <4>3. QED
        BY <1>1, <4>1, <4>2 DEF SpacingInv, Spaced
    <3>3. QED
      BY <3>1, <3>2
  <2>3. QED
    BY <2>1, <2>2 DEF SpacingInv, Spaced
<1>12. SessionInv'
  <2>1. ASSUME NEW q \in timerTick'.picks, q.session # "none"
        PROVE  /\ sessionPost'[q.row[1], q.session] >= q.row[1] /\ sessionFire'[q.row[1], q.session] = 0
               /\ \A o \in timerTick'.picks : q.session = o.session /\ q.row[1] = o.row[1] => q = o
    <3>1. q \in timerTick.picks /\ q # pick /\ q \in Timer!Picks
      BY <1>3
    <3>2. q.row[1] \in Timers /\ q.session \in Sessions
      BY <2>1, <3>1 DEF Timer!Picks, Timer!Rows
    <3>3. <<q.row[1], q.session>> # g /\ <<q.row[1], q.session>> \in Timers \X Sessions
      BY <1>1, <2>1, <3>1, <3>2 DEF SessionInv
    <3>4. sessionPost'[<<q.row[1], q.session>>] = sessionPost[<<q.row[1], q.session>>]
      BY <1>7, <3>3
    <3>5. QED
      BY <1>1, <1>2, <1>3, <2>1, <3>1, <3>4 DEF SessionInv
  <2>2. ASSUME NEW h \in Timers \X Sessions
        PROVE  sessionPost'[h] >= h[1] \/ sessionFire'[h] <= sessionPost'[h]
    <3>1. CASE sessionPost'[h] = sessionPost[h]
      BY <1>1, <1>2, <3>1 DEF SessionInv
    <3>2. CASE h = g /\ sessionPost'[h] = 0
      <4>1. CASE pick.session = "none"
        BY <1>1, <1>2, <4>1 DEF SessionInv
      <4>2. CASE pick.session # "none"
        <5>1. sessionFire[g] = 0
          BY <1>1, <4>2 DEF SessionInv
        <5>2. QED
          BY <1>2, <3>2, <5>1
      <4>3. QED
        BY <4>1, <4>2
    <3>3. QED
      BY <1>7, <3>1, <3>2
  <2>3. QED
    BY <2>1, <2>2 DEF SessionInv
<1>13. QED
  BY <1>1, <1>2, <1>3, <1>8, <1>11, <1>12 DEF TimerInv, OwnInv, Timer!NoOwnWrite

\* A post that fails gives its reservations back, and what they stood for stays known.
LEMMA PostFailsGivesBack == ASSUME TimerInv, NEW pick \in timerTick.picks, Timer!sendFails(pick) PROVE TimerInv'
<1> USE DEF Timer!timerTables
<1> DEFINE c == pick.row[2]
           t == pick.row[1]
           g == <<pick.row[1], pick.session>>
           undone == lastPost[c].undone \/ lastPost[c].timer = t
<1>1. Timer!TimerTypeOK /\ OwnInv /\ SpacingInv /\ SessionInv
  BY DEF TimerInv
<1>2. /\ sessionFire' = Timer!releaseCommandSessionReservation(sessionFire, pick)
      /\ floor' = Timer!releaseChannelReservation(floor, pick.row)
      /\ lastPost' = [lastPost EXCEPT ![c].undone = undone]
      /\ Timer!Finished(pick) /\ Timer!TimerUpset
      /\ UNCHANGED <<timerRows, assignedTo, ownWrite, sinceFire, sessionPost>>
  BY DEF Timer!sendFails
<1>3. /\ timerTick'.picks = timerTick.picks \ {pick} /\ TickInv'
      /\ timerTick' \in [pc : {"idle", "pick", "send"}, picks : SUBSET Timer!Picks]
      /\ pick.row \in Timer!Rows /\ t \in Timers /\ c \in TimerChannels
      /\ pick.session \in Sessions \cup {"none"}
  BY <1>2, PickIsDone
<1>4. /\ floor \in [TimerChannels -> [timer : Timers \cup {0}, age : Timer!Ages]]
      /\ lastPost \in [TimerChannels -> [timer : Timers \cup {0}, age : Timer!Ages, undone : BOOLEAN]]
      /\ sessionFire \in [Timers \X Sessions -> Timer!Ages]
      /\ Timer!Never \in Timer!Ages
  BY <1>1, AgeFacts DEF Timer!TimerTypeOK
<1>5. timerUpsets' \in 0 .. MaxTimerUpsets
  BY <1>1, <1>2, TimerUpsetFacts
<1>6. /\ lastPost' \in [TimerChannels -> [timer : Timers \cup {0}, age : Timer!Ages, undone : BOOLEAN]]
      /\ lastPost'[c].undone = undone /\ lastPost'[c].age = lastPost[c].age
      /\ \A d \in TimerChannels \ {c} : lastPost'[d] = lastPost[d]
  <2>1. undone \in BOOLEAN
    BY <1>3, <1>4
  <2> HIDE DEF c, t, undone
  <2>2. lastPost' = [lastPost EXCEPT ![c] = [lastPost[c] EXCEPT !.undone = undone]]
    BY <1>2
  <2>3. /\ [lastPost[c] EXCEPT !.undone = undone] \in [timer : Timers \cup {0}, age : Timer!Ages, undone : BOOLEAN]
        /\ [lastPost[c] EXCEPT !.undone = undone].undone = undone
        /\ [lastPost[c] EXCEPT !.undone = undone].age = lastPost[c].age
    BY <1>3, <1>4, <2>1
  <2>4. QED
    BY <1>3, <1>4, <2>2, <2>3
<1>7. /\ floor' \in [TimerChannels -> [timer : Timers \cup {0}, age : Timer!Ages]]
      /\ \A d \in TimerChannels \ {c} : floor'[d] = floor[d]
  <2>1. Timer!NoFloor \in [timer : Timers \cup {0}, age : Timer!Ages]
    BY <1>4 DEF Timer!NoFloor
  <2>2. floor' = [floor EXCEPT ![c] = Timer!NoFloor] \/ floor' = floor
    BY <1>2 DEF Timer!releaseChannelReservation
  <2> HIDE DEF c
  <2>3. QED
    BY <1>3, <1>4, <2>1, <2>2
<1>8. /\ sessionFire' \in [Timers \X Sessions -> Timer!Ages]
      /\ \A h \in Timers \X Sessions : sessionFire'[h] = sessionFire[h] \/ h = g
  <2>1. sessionFire' = [sessionFire EXCEPT ![g] = Timer!Never] \/ sessionFire' = sessionFire
    BY <1>2 DEF Timer!releaseCommandSessionReservation
  <2> HIDE DEF g
  <2>2. QED
    BY <1>4, <2>1
<1>9. Timer!TimerTypeOK'
  BY <1>1, <1>2, <1>3, <1>5, <1>6, <1>7, <1>8
     DEF Timer!TimerTypeOK, Timer!Rows, Timer!Ages, Timer!NotSeeded, Timer!Longest, Timer!Picks
<1>10. \A q \in timerTick'.picks : q.row[2] \in TimerChannels \ {c}
  <2>1. \A q \in timerTick'.picks : q \in timerTick.picks /\ q # pick /\ q \in Timer!Picks
    BY <1>3
  <2>2. \A q \in timerTick'.picks : q.row[2] \in TimerChannels
    BY <2>1 DEF Timer!Picks, Timer!Rows
  <2>3. QED
    BY <1>1, <2>1, <2>2 DEF SpacingInv
<1>11. Spaced(c)'
  <2>1. Spaced(c) \/ lastPost[c].timer = t
    BY <1>1 DEF SpacingInv
  <2>2. QED
    BY <1>6, <2>1 DEF Spaced
<1>12. SpacingInv'
  <2>1. ASSUME NEW q \in timerTick'.picks
        PROVE  /\ floor'[q.row[2]] = [timer |-> q.row[1], age |-> 0]
               /\ Spaced(q.row[2])' \/ lastPost'[q.row[2]].timer = q.row[1]
               /\ \A o \in timerTick'.picks : q.row[2] = o.row[2] => q = o
    BY <1>1, <1>3, <1>6, <1>7, <1>10 DEF SpacingInv, Spaced
  <2>2. ASSUME NEW d \in TimerChannels, \A p \in timerTick'.picks : p.row[2] # d
        PROVE  Spaced(d)' \/ (floor'[d].timer = lastPost'[d].timer /\ floor'[d].age = lastPost'[d].age)
    <3>1. CASE d = c
      BY <1>11, <3>1
    <3>2. CASE d # c
      <4>1. \A p \in timerTick.picks : p.row[2] # d
        BY <1>3, <2>2, <3>2
      <4>2. lastPost'[d] = lastPost[d] /\ floor'[d] = floor[d]
        BY <1>6, <1>7, <3>2
      <4>3. QED
        BY <1>1, <4>1, <4>2 DEF SpacingInv, Spaced
    <3>3. QED
      BY <3>1, <3>2
  <2>3. QED
    BY <2>1, <2>2 DEF SpacingInv, Spaced
<1>13. SessionInv'
  <2>1. ASSUME NEW q \in timerTick'.picks, q.session # "none"
        PROVE  /\ sessionPost'[q.row[1], q.session] >= q.row[1] /\ sessionFire'[q.row[1], q.session] = 0
               /\ \A o \in timerTick'.picks : q.session = o.session /\ q.row[1] = o.row[1] => q = o
    <3>1. q \in timerTick.picks /\ q # pick /\ q \in Timer!Picks
      BY <1>3
    <3>2. q.row[1] \in Timers /\ q.session \in Sessions
      BY <2>1, <3>1 DEF Timer!Picks, Timer!Rows
    <3>3. <<q.row[1], q.session>> # g /\ <<q.row[1], q.session>> \in Timers \X Sessions
      BY <1>1, <2>1, <3>1, <3>2 DEF SessionInv
    <3>4. sessionFire'[<<q.row[1], q.session>>] = sessionFire[<<q.row[1], q.session>>]
      BY <1>8, <3>3
    <3>5. QED
      BY <1>1, <1>2, <1>3, <2>1, <3>1, <3>4 DEF SessionInv
  <2>2. ASSUME NEW h \in Timers \X Sessions
        PROVE  sessionPost'[h] >= h[1] \/ sessionFire'[h] <= sessionPost'[h]
    <3>1. CASE sessionFire'[h] = sessionFire[h]
      BY <1>1, <1>2, <3>1 DEF SessionInv
    <3>2. CASE h = g /\ sessionFire'[h] # sessionFire[h]
      <4>1. pick.session # "none"
        BY <1>2, <3>2 DEF Timer!releaseCommandSessionReservation
      <4>2. sessionPost[g] >= t /\ h[1] = t
        BY <1>1, <3>2, <4>1 DEF SessionInv
      <4>3. QED
        BY <1>2, <3>2, <4>2
    <3>3. QED
      BY <1>8, <3>1, <3>2
  <2>3. QED
    BY <2>1, <2>2 DEF SessionInv
<1>14. QED
  BY <1>1, <1>2, <1>3, <1>9, <1>12, <1>13 DEF TimerInv, OwnInv, Timer!NoOwnWrite

\* Who wins a channel may post there, and a session's pick may post in the session.
LEMMA PickKeeps == ASSUME TimerInv, Timer!pickRowsToFire PROVE TimerInv'
<1> USE DEF Timer!timerTables, Timer!timerHistory
<1>1. Timer!TimerTypeOK /\ OwnInv /\ SpacingInv /\ SessionInv /\ timerTick.picks = {}
  BY DEF TimerInv, TickInv, Timer!pickRowsToFire
<1>2. PICK passing \in SUBSET {r \in Timer!Rows : Timer!shouldFire(r) /\ r[1] \in Gated},
           sessionOf \in [TimerChannels -> Sessions \cup {"none"}] :
       LET due == passing \cup {r \in Timer!Rows : Timer!shouldFire(r) /\ r[1] \notin Gated}
           groups == {g \in Timer!SessionGroups(due, sessionOf) : Timer!CooledDown(g)} IN
       \E chosen \in [groups -> due] :
         /\ \A g \in groups : chosen[g] \in Timer!LongestWaiting(Timer!InGroup(due, sessionOf, g))
         /\ LET survivors == Timer!applyCommandSessionCooldown(due, sessionOf, chosen)
                contested == {c \in TimerChannels : Timer!Candidates(survivors, c) # {}} IN
            \E winner \in [contested -> survivors] :
              /\ \A c \in contested : winner[c] \in Timer!Candidates(survivors, c)
              /\ LET picks == {winner[c] : c \in contested} IN
                 /\ sessionFire' = [g \in DOMAIN sessionFire |->
                      IF \E p \in picks : p.session = g[2] /\ p.row[1] = g[1] THEN 0
                      ELSE IF g \in groups THEN Timer!Never ELSE sessionFire[g]]
                 /\ floor' = [c \in TimerChannels |->
                      IF c \in contested THEN [timer |-> winner[c].row[1], age |-> 0] ELSE floor[c]]
                 /\ timerTick' = IF picks = {} THEN Timer!NoTick ELSE [pc |-> "send", picks |-> picks]
  BY DEF Timer!pickRowsToFire
<1>3. UNCHANGED <<timerRows, assignedTo, ownWrite, sinceFire, lastPost, sessionPost, timerUpsets>>
  BY DEF Timer!pickRowsToFire
<1> DEFINE due == passing \cup {r \in Timer!Rows : Timer!shouldFire(r) /\ r[1] \notin Gated}
           groups == {g \in Timer!SessionGroups(due, sessionOf) : Timer!CooledDown(g)}
<1>4. PICK chosen \in [groups -> due] :
         /\ \A g \in groups : chosen[g] \in Timer!LongestWaiting(Timer!InGroup(due, sessionOf, g))
         /\ LET survivors == Timer!applyCommandSessionCooldown(due, sessionOf, chosen)
                contested == {c \in TimerChannels : Timer!Candidates(survivors, c) # {}} IN
            \E winner \in [contested -> survivors] :
              /\ \A c \in contested : winner[c] \in Timer!Candidates(survivors, c)
              /\ LET picks == {winner[c] : c \in contested} IN
                 /\ sessionFire' = [g \in DOMAIN sessionFire |->
                      IF \E p \in picks : p.session = g[2] /\ p.row[1] = g[1] THEN 0
                      ELSE IF g \in groups THEN Timer!Never ELSE sessionFire[g]]
                 /\ floor' = [c \in TimerChannels |->
                      IF c \in contested THEN [timer |-> winner[c].row[1], age |-> 0] ELSE floor[c]]
                 /\ timerTick' = IF picks = {} THEN Timer!NoTick ELSE [pc |-> "send", picks |-> picks]
  BY <1>2
<1> DEFINE survivors == Timer!applyCommandSessionCooldown(due, sessionOf, chosen)
           contested == {c \in TimerChannels : Timer!Candidates(survivors, c) # {}}
<1>5. PICK winner \in [contested -> survivors] :
        /\ \A c \in contested : winner[c] \in Timer!Candidates(survivors, c)
        /\ LET picks == {winner[c] : c \in contested} IN
           /\ sessionFire' = [g \in DOMAIN sessionFire |->
                IF \E p \in picks : p.session = g[2] /\ p.row[1] = g[1] THEN 0
                ELSE IF g \in groups THEN Timer!Never ELSE sessionFire[g]]
           /\ floor' = [c \in TimerChannels |->
                IF c \in contested THEN [timer |-> winner[c].row[1], age |-> 0] ELSE floor[c]]
           /\ timerTick' = IF picks = {} THEN Timer!NoTick ELSE [pc |-> "send", picks |-> picks]
  BY <1>4
<1> DEFINE picks == {winner[c] : c \in contested}
<1>6. due \in SUBSET Timer!Rows
  OBVIOUS
<1> HIDE DEF due
<1>7a. /\ groups = {g \in Timer!SessionGroups(due, sessionOf) : Timer!CooledDown(g)}
       /\ survivors = Timer!applyCommandSessionCooldown(due, sessionOf, chosen)
       /\ chosen \in [groups -> due] /\ sessionOf \in [TimerChannels -> Sessions \cup {"none"}]
       /\ \A g \in groups : chosen[g] \in Timer!LongestWaiting(Timer!InGroup(due, sessionOf, g))
  BY <1>2, <1>4
<1> HIDE DEF groups
<1> HIDE DEF survivors
<1>7. /\ groups \subseteq Timers \X Sessions /\ \A g \in groups : sessionFire[g] >= DueEvery[g[1]]
      /\ survivors \subseteq Timer!Picks
      /\ \A p \in survivors : p.session # "none" =>
           <<p.row[1], p.session>> \in groups
           /\ p = [row |-> chosen[<<p.row[1], p.session>>], session |-> p.session]
  <2>1. groups \subseteq Timers \X Sessions /\ \A g \in groups : sessionFire[g] >= DueEvery[g[1]]
    BY <1>7a DEF Timer!SessionGroups, Timer!CooledDown
  <2>2. \A g \in groups : chosen[g] \in due /\ chosen[g][1] = g[1]
    BY <1>7a DEF Timer!LongestWaiting, Timer!InGroup
  <2>3. DOMAIN chosen = groups
    BY <1>7a
  <2>4. ASSUME NEW p \in survivors
        PROVE  /\ p \in Timer!Picks
               /\ p.session # "none" => <<p.row[1], p.session>> \in groups
                    /\ p = [row |-> chosen[<<p.row[1], p.session>>], session |-> p.session]
    <3>1. CASE p \in {[row |-> r, session |-> "none"] : r \in {d \in due : sessionOf[d[2]] = "none"}}
      BY <1>6, <3>1 DEF Timer!Picks
    <3>2. CASE p \in {[row |-> chosen[g], session |-> g[2]] : g \in groups}
      <4>1. PICK g \in groups : p = [row |-> chosen[g], session |-> g[2]]
        BY <3>2
      <4>2. g = <<g[1], g[2]>> /\ g[2] \in Sessions
        BY <2>1
      <4>3. p.row = chosen[g] /\ p.session = g[2]
        BY <4>1
      <4>4. <<p.row[1], p.session>> = g
        BY <2>2, <4>2, <4>3
      <4>5. p \in Timer!Picks
        BY <1>6, <2>2, <4>1, <4>2 DEF Timer!Picks
      <4>6. QED
        BY <4>1, <4>3, <4>4, <4>5
    <3>3. QED
      BY <1>7a, <2>3, <3>1, <3>2 DEF Timer!applyCommandSessionCooldown
  <2>5. QED
    BY <2>1, <2>4
<1>8. /\ contested \subseteq TimerChannels
      /\ \A c \in contested : /\ winner[c] \in survivors /\ winner[c].row[2] = c
                              /\ floor[c].age < SPACING => winner[c].row[1] = floor[c].timer
  BY <1>5 DEF Timer!Candidates
<1> HIDE DEF contested
<1>9. /\ sessionFire \in [Timers \X Sessions -> Timer!Ages]
      /\ floor \in [TimerChannels -> [timer : Timers \cup {0}, age : Timer!Ages]]
      /\ lastPost \in [TimerChannels -> [timer : Timers \cup {0}, age : Timer!Ages, undone : BOOLEAN]]
      /\ sessionPost \in [Timers \X Sessions -> Timer!Ages]
      /\ 0 \in Timer!Ages /\ Timer!Never \in Timer!Ages
      /\ SPACING \in Int /\ Timer!Ages \subseteq Int /\ \A age \in Timer!Ages : 0 <= age
      /\ \A t \in Timers : t \in Int /\ DueEvery[t] = t
  BY <1>1, AgeFacts, LongestFacts DEF Timer!TimerTypeOK
<1>10. /\ picks \subseteq survivors /\ picks \subseteq Timer!Picks
       /\ \A p \in picks : p.row[2] \in contested /\ p = winner[p.row[2]]
       /\ \A c \in contested : winner[c] \in picks
  BY <1>7, <1>8
<1>11. /\ sessionFire' = [g \in Timers \X Sessions |->
            IF \E p \in picks : p.session = g[2] /\ p.row[1] = g[1] THEN 0
            ELSE IF g \in groups THEN Timer!Never ELSE sessionFire[g]]
       /\ floor' = [c \in TimerChannels |->
            IF c \in contested THEN [timer |-> winner[c].row[1], age |-> 0] ELSE floor[c]]
       /\ timerTick' = IF picks = {} THEN Timer!NoTick ELSE [pc |-> "send", picks |-> picks]
  BY <1>5, <1>9
<1> HIDE DEF picks
<1>12. \A p \in Timer!Picks : p.row[1] \in Timers /\ p.row[2] \in TimerChannels /\ p.session \in Sessions \cup {"none"}
  BY DEF Timer!Picks, Timer!Rows
<1>13. /\ timerTick'.picks = picks /\ TickInv'
       /\ timerTick' \in [pc : {"idle", "pick", "send"}, picks : SUBSET Timer!Picks]
  BY <1>10, <1>11 DEF Timer!NoTick, TickInv
<1>14. floor' \in [TimerChannels -> [timer : Timers \cup {0}, age : Timer!Ages]]
  <2>1. ASSUME NEW c \in contested PROVE [timer |-> winner[c].row[1], age |-> 0] \in [timer : Timers \cup {0}, age : Timer!Ages]
    <3>1. winner[c].row[1] \in Timers
      BY <1>10, <1>12
    <3>2. QED
      BY <1>9, <3>1
  <2>2. QED
    BY <1>9, <1>11, <2>1
<1>15. sessionFire' \in [Timers \X Sessions -> Timer!Ages]
  BY <1>9, <1>11
<1>16. Timer!TimerTypeOK'
  BY <1>1, <1>3, <1>13, <1>14, <1>15
     DEF Timer!TimerTypeOK, Timer!Rows, Timer!Ages, Timer!NotSeeded, Timer!Longest, Timer!Picks
<1>17. \A c \in TimerChannels : Spaced(c) \/ (floor[c].timer = lastPost[c].timer /\ floor[c].age = lastPost[c].age)
  BY <1>1 DEF SpacingInv
<1>18. SpacingInv'
  <2>1. ASSUME NEW q \in timerTick'.picks
        PROVE  /\ floor'[q.row[2]] = [timer |-> q.row[1], age |-> 0]
               /\ Spaced(q.row[2])' \/ lastPost'[q.row[2]].timer = q.row[1]
               /\ \A o \in timerTick'.picks : q.row[2] = o.row[2] => q = o
    <3> DEFINE d == q.row[2]
    <3>1. d \in contested /\ d \in TimerChannels /\ q = winner[d]
      BY <1>8, <1>10, <1>13
    <3>2. floor'[d] = [timer |-> q.row[1], age |-> 0]
      BY <1>11, <3>1
    <3>3. \A o \in timerTick'.picks : d = o.row[2] => q = o
      BY <1>10, <1>13
    <3>4. CASE floor[d].age < SPACING
      BY <1>3, <1>8, <1>17, <3>1, <3>2, <3>3, <3>4 DEF Spaced
    <3>5. CASE ~(floor[d].age < SPACING)
      <4>1. floor[d].age \in Int /\ lastPost[d].age \in Int
        BY <1>9, <3>1
      <4>2. Spaced(d)
        BY <1>9, <1>17, <3>1, <3>5, <4>1 DEF Spaced
      <4>3. QED
        BY <1>3, <3>2, <3>3, <4>2 DEF Spaced
    <3>6. QED
      BY <3>4, <3>5
  <2>2. ASSUME NEW d \in TimerChannels, \A p \in timerTick'.picks : p.row[2] # d
        PROVE  Spaced(d)' \/ (floor'[d].timer = lastPost'[d].timer /\ floor'[d].age = lastPost'[d].age)
    <3>1. d \notin contested
      BY <1>8, <1>10, <1>13, <2>2
    <3>2. floor'[d] = floor[d]
      BY <1>11, <3>1
    <3>3. QED
      BY <1>3, <1>17, <3>2 DEF Spaced
  <2>3. QED
    BY <2>1, <2>2 DEF SpacingInv, Spaced
<1>19. \A g \in groups : sessionPost[g] >= g[1]
  <2>1. ASSUME NEW g \in groups PROVE sessionPost[g] >= g[1]
    <3>1. g \in Timers \X Sessions /\ g[1] \in Timers /\ sessionFire[g] >= DueEvery[g[1]]
      BY <1>7
    <3>2. sessionPost[g] >= g[1] \/ sessionFire[g] <= sessionPost[g]
      BY <1>1, <3>1 DEF SessionInv
    <3>3. sessionPost[g] \in Int /\ sessionFire[g] \in Int /\ g[1] \in Int /\ DueEvery[g[1]] = g[1]
      BY <1>9, <3>1
    <3>4. QED
      BY <3>1, <3>2, <3>3
  <2>2. QED
    BY <2>1
<1>20. SessionInv'
  <2>1. ASSUME NEW q \in timerTick'.picks, q.session # "none"
        PROVE  /\ sessionPost'[q.row[1], q.session] >= q.row[1] /\ sessionFire'[q.row[1], q.session] = 0
               /\ \A o \in timerTick'.picks : q.session = o.session /\ q.row[1] = o.row[1] => q = o
    <3>1. q \in picks /\ q \in survivors
      BY <1>10, <1>13
    <3>2. <<q.row[1], q.session>> \in groups /\ <<q.row[1], q.session>> \in Timers \X Sessions
      BY <1>7, <2>1, <3>1
    <3>3. sessionPost[<<q.row[1], q.session>>] >= q.row[1]
      BY <1>19, <3>2
    <3>4. sessionFire'[<<q.row[1], q.session>>] = 0
      BY <1>11, <3>1, <3>2
    <3>5. ASSUME NEW o \in timerTick'.picks, q.session = o.session, q.row[1] = o.row[1] PROVE q = o
      <4>1. o \in survivors
        BY <1>10, <1>13
      <4>2. QED
        BY <1>7, <2>1, <3>1, <3>5, <4>1
    <3>6. QED
      BY <1>3, <3>3, <3>4, <3>5
  <2>2. ASSUME NEW h \in Timers \X Sessions
        PROVE  sessionPost'[h] >= h[1] \/ sessionFire'[h] <= sessionPost'[h]
    <3>1. sessionPost'[h] = sessionPost[h] /\ sessionPost[h] \in Timer!Ages
      BY <1>3, <1>9
    <3>2. CASE sessionFire'[h] = 0
      BY <1>9, <3>1, <3>2
    <3>3. CASE h \in groups
      BY <1>19, <3>1, <3>3
    <3>4. CASE sessionFire'[h] = sessionFire[h]
      BY <1>1, <3>1, <3>4 DEF SessionInv
    <3>5. QED
      BY <1>11, <3>2, <3>3, <3>4
  <2>3. QED
    BY <2>1, <2>2 DEF SessionInv
<1>21. QED
  BY <1>1, <1>3, <1>13, <1>16, <1>18, <1>20 DEF TimerInv, OwnInv, Timer!NoOwnWrite

LEMMA TimerStutter ==
  ASSUME TimerInv,
         UNCHANGED <<timerRows, assignedTo, ownWrite, sinceFire, sessionFire, floor, timerTick, lastPost,
                     sessionPost, timerUpsets>>
  PROVE  TimerInv'
BY TablesKeep DEF TimerInv, Timer!TimerTypeOK, OwnInv, Timer!NoOwnWrite

LEMMA TimerStep == ASSUME TimerInv, Timer!TimerNext PROVE TimerInv'
<1>1. CASE Timer!TimerWrite
  BY <1>1, StatementKeeps, OwnWriteKeeps DEF Timer!TimerWrite
<1>2. CASE Timer!TickBegins \/ Timer!pickRowsToFire \/ Timer!stopTimerCommandScheduler
  BY <1>2, TickBeginsKeeps, PickKeeps, StopKeeps
<1>3. CASE Timer!Posting \/ \E pick \in timerTick.picks : Timer!sendFails(pick)
  BY <1>3, TimerPostKeeps, PostFailsGivesBack DEF Timer!Posting
<1>4. QED
  BY <1>1, <1>2, <1>3 DEF Timer!TimerNext

\* A reservation is only ever made when the last posts allow the post.
LEMMA PicksKeepDistance ==
  ASSUME TimerInv, NEW pick \in timerTick.picks
  PROVE  /\ \/ lastPost[pick.row[2]].timer = pick.row[1] \/ lastPost[pick.row[2]].undone
            \/ lastPost[pick.row[2]].age >= SPACING
         /\ pick.session = "none" \/ sessionPost[pick.row[1], pick.session] >= DueEvery[pick.row[1]]
<1>1. pick.row[1] \in Timers
  <2>1. pick \in Timer!Picks
    BY DEF TimerInv, Timer!TimerTypeOK
  <2>2. QED
    BY <2>1 DEF Timer!Picks, Timer!Rows
<1>2. QED
  BY <1>1, LongestFacts DEF TimerInv, SpacingInv, SessionInv, Spaced

-----------------------------------------------------------------------------
(* The types of what the invariants above leave out                        *)

Rebuilds == [left : 1..MAX_TRANSIENT_REBUILD_ATTEMPTS, pc : {"wait", "restart"}]

RestTypes ==
  /\ \A c \in DOMAIN rebuilds : rebuilds[c] \in Rebuilds
  /\ ownerTold \in {"no", "yes"} /\ misreported \subseteq Attempts /\ tokenUpsets \in 0..MaxTokenUpsets

LEMMA RestInitTypes == ASSUME Tokens!TokensInit PROVE RestTypes
<1>1. DOMAIN rebuilds = {}
  BY DEF Tokens!TokensInit
<1>2. QED
  BY <1>1, TokensAssumption DEF Tokens!TokensInit, RestTypes

LEMMA CountedFacts ==
  ASSUME RestTypes, Tokens!Upset \/ Tokens!NoUpset PROVE tokenUpsets' \in 0..MaxTokenUpsets
BY TokensAssumption DEF RestTypes, Tokens!Upset, Tokens!NoUpset

\* A loop ends, or has an attempt less to make.
LEMMA AttemptFailsTypes ==
  ASSUME RestTypes, NEW c, Tokens!AttemptFails(c)
  PROVE  (\A d \in DOMAIN rebuilds' : rebuilds'[d] \in Rebuilds) /\ ownerTold' \in {"no", "yes"}
<1>1. CASE rebuilds[c].left > 1
  <2> DEFINE less == [left |-> rebuilds[c].left - 1, pc |-> "wait"]
  <2>1. rebuilds' = [rebuilds EXCEPT ![c] = less] /\ UNCHANGED ownerTold
    BY <1>1 DEF Tokens!AttemptFails
  <2>2. c \in DOMAIN rebuilds => less \in Rebuilds
    <3> SUFFICES ASSUME c \in DOMAIN rebuilds PROVE less \in Rebuilds
      OBVIOUS
    <3>1. rebuilds[c].left \in 1..MAX_TRANSIENT_REBUILD_ATTEMPTS
      BY DEF RestTypes, Rebuilds
    <3>2. rebuilds[c].left - 1 \in 1..MAX_TRANSIENT_REBUILD_ATTEMPTS
      BY <1>1, <3>1, TokensAssumption
    <3>3. QED
      BY <3>2 DEF Rebuilds
  <2> HIDE DEF less
  <2>3. DOMAIN rebuilds' = DOMAIN rebuilds
    BY <2>1
  <2>4. \A d \in DOMAIN rebuilds : rebuilds'[d] = IF d = c THEN less ELSE rebuilds[d]
    BY <2>1
  <2>5. QED
    BY <2>1, <2>2, <2>3, <2>4 DEF RestTypes
<1>2. CASE ~(rebuilds[c].left > 1)
  <2>1. rebuilds' = Tokens!Restrict(rebuilds, DOMAIN rebuilds \ {c}) /\ ownerTold' = "yes"
    BY <1>2 DEF Tokens!AttemptFails
  <2>2. QED
    BY <2>1 DEF RestTypes, Tokens!Restrict
<1>3. QED
  BY <1>1, <1>2

LEMMA CallerTypes ==
  ASSUME RestTypes, NEW caller, Tokens!CallerSeesFailure(caller) \/ Tokens!CallerSeesSuccess(caller)
  PROVE  (\A d \in DOMAIN rebuilds' : rebuilds'[d] \in Rebuilds) /\ ownerTold' \in {"no", "yes"}
<1>1. CASE Tokens!CallerSeesFailure(caller)
  <2>1. CASE Tokens!AttemptFails(caller.id)
    BY <2>1, AttemptFailsTypes
  <2>2. CASE UNCHANGED rebuilds
    <3>1. ownerTold' = "yes" \/ UNCHANGED ownerTold \/ Tokens!AttemptFails(caller.id)
      BY <1>1 DEF Tokens!CallerSeesFailure
    <3>2. QED
      BY <2>1, <2>2, <3>1 DEF RestTypes
  <2>3. QED
    BY <1>1, <2>1, <2>2 DEF Tokens!CallerSeesFailure
<1>2. CASE Tokens!CallerSeesSuccess(caller)
  <2>1. ownerTold' \in {"no", "yes"}
    BY <1>2 DEF Tokens!CallerSeesSuccess
  <2>2. rebuilds' = rebuilds \/ rebuilds' = Tokens!Restrict(rebuilds, DOMAIN rebuilds \ {caller.id})
    BY <1>2 DEF Tokens!CallerSeesSuccess
  <2>3. QED
    BY <2>1, <2>2 DEF RestTypes, Tokens!Restrict
<1>3. QED
  BY <1>1, <1>2

LEMMA RestStep == ASSUME RestTypes, Tokens!TokensNext PROVE RestTypes'
<1>1. tokenUpsets' \in 0..MaxTokenUpsets
  BY CountedFacts DEF Tokens!TokensNext, Tokens!Returns, Tokens!CallbackGoesOn, Tokens!Saves, Tokens!ReadsBack,
     Tokens!Restores, Tokens!RestartBegins, Tokens!RestartEnds, Tokens!Refreshes, Tokens!Handled,
     Tokens!SavesRefreshed, Tokens!StartsRebuilding, Tokens!ClearsRevoked, Tokens!RebuildGoesOn
<1>2. CASE \E a \in Attempts : Tokens!Returns(a) \/ Tokens!Saves(a) \/ Tokens!ReadsBack(a) \/ Tokens!Restores(a)
  <2>1. /\ UNCHANGED rebuilds /\ ownerTold' \in {"yes", ownerTold}
        /\ UNCHANGED misreported \/ \E a \in Attempts : misreported' = misreported \cup {a}
    BY <1>2 DEF Tokens!Returns, Tokens!Saves, Tokens!ReadsBack, Tokens!Restores
  <2>2. QED
    BY <1>1, <2>1 DEF RestTypes
<1>3. CASE Tokens!RestartBegins \/ Tokens!RestartEnds
  <2>1. UNCHANGED misreported
    BY <1>3 DEF Tokens!RestartBegins, Tokens!RestartEnds
  <2>2. \/ UNCHANGED <<rebuilds, ownerTold>>
        \/ \E caller : Tokens!CallerSeesFailure(caller) \/ Tokens!CallerSeesSuccess(caller)
    BY <1>3 DEF Tokens!RestartBegins, Tokens!RestartEnds
  <2>3. QED
    BY <1>1, <2>1, <2>2, CallerTypes DEF RestTypes
<1>4. CASE Tokens!Refreshes
  BY <1>1, <1>4 DEF Tokens!Refreshes, RestTypes
<1>5. CASE \E answer \in {"refreshed", "transient", "revoked"} : Tokens!Handled(answer)
  <2>1. PICK outcome \in outcomes :
          /\ Tokens!SavesRefreshed(outcome) \/ Tokens!StartsRebuilding(outcome) \/ Tokens!ClearsRevoked(outcome)
          /\ UNCHANGED misreported
    BY <1>5 DEF Tokens!Handled
  <2>2. CASE Tokens!StartsRebuilding(outcome)
    <3> DEFINE c == outcome.connection
               first == [left |-> MAX_TRANSIENT_REBUILD_ATTEMPTS, pc |-> "wait"]
    <3>1. first \in Rebuilds
      BY TokensAssumption DEF Rebuilds
    <3>2. \/ UNCHANGED rebuilds
          \/ rebuilds' = [d \in DOMAIN rebuilds \cup {c} |-> IF d = c THEN first ELSE rebuilds[d]]
      BY <2>2 DEF Tokens!StartsRebuilding
    <3>3. UNCHANGED ownerTold
      BY <2>2 DEF Tokens!StartsRebuilding
    <3> HIDE DEF c, first
    <3>4. QED
      BY <1>1, <2>1, <3>1, <3>2, <3>3 DEF RestTypes
  <2>3. CASE Tokens!SavesRefreshed(outcome) \/ Tokens!ClearsRevoked(outcome)
    <3>1. UNCHANGED rebuilds /\ ownerTold' \in {"yes", ownerTold}
      BY <2>3 DEF Tokens!SavesRefreshed, Tokens!ClearsRevoked
    <3>2. QED
      BY <1>1, <2>1, <3>1 DEF RestTypes
  <2>4. QED
    BY <2>1, <2>2, <2>3
<1>6. CASE Tokens!RebuildGoesOn
  <2>1. PICK c \in DOMAIN rebuilds :
          /\ \/ /\ \/ rebuilds' = [rebuilds EXCEPT ![c].pc = "restart"]
                   \/ rebuilds' = Tokens!Restrict(rebuilds, DOMAIN rebuilds \ {c})
                /\ UNCHANGED ownerTold
             \/ Tokens!AttemptFails(c)
          /\ UNCHANGED misreported
    BY <1>6 DEF Tokens!RebuildGoesOn, Tokens!LookupFails
  <2>2. CASE Tokens!AttemptFails(c)
    BY <1>1, <2>1, <2>2, AttemptFailsTypes DEF RestTypes
  <2>3. CASE rebuilds' = Tokens!Restrict(rebuilds, DOMAIN rebuilds \ {c}) /\ UNCHANGED ownerTold
    BY <1>1, <2>1, <2>3 DEF RestTypes, Tokens!Restrict
  <2>4. CASE rebuilds' = [rebuilds EXCEPT ![c].pc = "restart"] /\ UNCHANGED ownerTold
    <3> DEFINE next == [rebuilds[c] EXCEPT !.pc = "restart"]
    <3>1. next \in Rebuilds
      BY DEF RestTypes, Rebuilds
    <3>2. rebuilds' = [rebuilds EXCEPT ![c] = next]
      BY <2>4
    <3> HIDE DEF next
    <3>3. DOMAIN rebuilds' = DOMAIN rebuilds
      BY <3>2
    <3>4. \A d \in DOMAIN rebuilds : rebuilds'[d] = IF d = c THEN next ELSE rebuilds[d]
      BY <3>2
    <3>5. QED
      BY <1>1, <2>1, <2>4, <3>1, <3>3, <3>4 DEF RestTypes
  <2>5. QED
    BY <2>1, <2>2, <2>3, <2>4
<1>7. QED
  BY <1>2, <1>3, <1>4, <1>5, <1>6 DEF Tokens!TokensNext, Tokens!CallbackGoesOn

LEMMA RestStutter == ASSUME RestTypes, UNCHANGED tokenVars PROVE RestTypes'
BY DEF RestTypes, tokenVars

DiscordTypes == discordUp \in BOOLEAN /\ gatewayUpsets \in 0..MaxGatewayUpsets

LEMMA DiscordInitTypes == ASSUME Gateway!GatewayInit PROVE DiscordTypes
<1>1. discordUp \in BOOLEAN
  BY DEF Gateway!GatewayInit
<1>2. QED
  BY <1>1, GatewayAssumption DEF Gateway!GatewayInit, DiscordTypes

LEMMA DiscordStep == ASSUME DiscordTypes, Gateway!GatewayNext PROVE DiscordTypes'
<1>1. discordUp' \in BOOLEAN
  <2>1. UNCHANGED discordUp \/ discordUp' = TRUE \/ discordUp' = FALSE
    BY Zenon DEF Gateway!GatewayNext, Gateway!LoginRejected, Gateway!ClientReady, Gateway!ShardDisconnects,
       Gateway!LateShardError, Gateway!HandshakeHangs, Gateway!BackoffEnds, Gateway!ShardLost, Gateway!ShardBack,
       Gateway!ShardGoesSilent, Gateway!StallThresholdPasses, Gateway!RecoveryExpires, Gateway!WatchdogActs,
       Gateway!SomebodyWaits, Gateway!WaitTimesOut, Gateway!DiscordGoesDown, Gateway!DiscordReturns
  <2>2. QED
    BY <2>1 DEF DiscordTypes
<1>2. UNCHANGED gatewayUpsets \/ Gateway!Upset
  BY DEF Gateway!GatewayNext, Gateway!LoginRejected, Gateway!ClientReady, Gateway!ShardDisconnects,
     Gateway!LateShardError, Gateway!HandshakeHangs, Gateway!BackoffEnds, Gateway!ShardLost, Gateway!ShardBack,
     Gateway!ShardGoesSilent, Gateway!StallThresholdPasses, Gateway!RecoveryExpires, Gateway!WatchdogActs,
     Gateway!SomebodyWaits, Gateway!WaitTimesOut, Gateway!DiscordGoesDown, Gateway!DiscordReturns, Gateway!NoUpset
<1>3. QED
  BY <1>1, <1>2, GatewayAssumption DEF DiscordTypes, Gateway!Upset

LEMMA DiscordStutter == ASSUME DiscordTypes, UNCHANGED gatewayVars PROVE DiscordTypes'
BY DEF DiscordTypes, gatewayVars

-----------------------------------------------------------------------------
(* The services together                                                   *)

Services == {"monitor", "membership", "queue", "timer", "tokens", "catchup", "gateway", "alerts"}

IInv ==
  /\ service \in Services
  /\ service = "monitor" => MonitorInv
  /\ service = "membership" => Membership!TypeOK
  /\ service = "queue" => SendInv
  /\ service = "timer" => TimerInv
  /\ service = "tokens" => TokensInv /\ RestTypes
  /\ service = "catchup" => CatchupInv
  /\ service = "gateway" => GatewayInv /\ DiscordTypes
  /\ service = "alerts" => AlertsInv

LEMMA InitInv == Init => IInv
BY MonitorInitInv, MembershipInitTypes, SendInitInv, TimerInitInv, TokensInitInv, RestInitTypes, CatchupInitInv,
   GatewayInitInv, DiscordInitTypes, AlertsInitInv DEF Init, IInv, Services

LEMMA StepInv == IInv /\ [Next]_serviceVars => IInv'
<1> SUFFICES ASSUME IInv, [Next]_serviceVars PROVE IInv'
  OBVIOUS
<1>1. service' = service /\ service' \in Services
  BY DEF Next, serviceVars, IInv
<1>2. CASE service = "tokens"
  <2>1. Tokens!TokensNext \/ UNCHANGED tokenVars
    BY <1>2 DEF Next, serviceVars
  <2> QED
    BY <1>1, <1>2, <2>1, TokensStep, TokensStutter, RestStep, RestStutter DEF IInv
<1>3. CASE service = "gateway"
  <2>1. Gateway!GatewayNext \/ UNCHANGED gatewayVars
    BY <1>3 DEF Next, serviceVars
  <2>2. UNCHANGED gatewayVars /\ GatewayInv => GatewayInv'
    BY DEF GatewayInv, gatewayVars
  <2> QED
    BY <1>1, <1>3, <2>1, <2>2, GatewayStep, DiscordStep, DiscordStutter DEF IInv
<1>4. CASE service = "alerts"
  <2>1. Alerts!AlertsNext \/ UNCHANGED alertVars
    BY <1>4 DEF Next, serviceVars
  <2>2. UNCHANGED alertVars /\ AlertsInv => AlertsInv'
    BY DEF AlertsInv, AlertTypes, EpisodesInv, HeardInv, Alerts!RecoveryIsOnItsWay, alertVars
  <2> QED
    BY <1>1, <1>4, <2>1, <2>2, AlertsStep DEF IInv
<1>5. CASE service = "monitor"
  <2>1. Monitor!Next \/ UNCHANGED monitorVars
    BY <1>5 DEF Next, serviceVars
  <2> QED
    BY <1>1, <1>5, <2>1, MonitorStep, MonitorStutter DEF IInv
<1>6. CASE service = "catchup"
  <2>1. Catchup!CatchupNext \/ UNCHANGED Catchup!catchupVars
    BY <1>6 DEF Next, serviceVars, catchupVars, Catchup!catchupVars
  <2> QED
    BY <1>1, <1>6, <2>1, CatchupStep, CatchupStutter DEF IInv
<1>7. CASE service = "membership"
  <2>1. Membership!Next \/ UNCHANGED membershipVars
    BY <1>7 DEF Next, serviceVars
  <2> QED
    BY <1>1, <1>7, <2>1, MembershipStep, MembershipStutter DEF IInv
<1>8. CASE service = "queue"
  <2>1. Queue!Next \/ UNCHANGED sendVars
    BY <1>8 DEF Next, serviceVars
  <2> QED
    BY <1>1, <1>8, <2>1, SendStep, SendStutter DEF IInv
<1>9. CASE service = "timer"
  <2>1. Timer!TimerNext \/ UNCHANGED timerVars
    BY <1>9 DEF Next, serviceVars
  <2>2. UNCHANGED timerVars => TimerInv'
    BY <1>9, TimerStutter DEF timerVars, IInv
  <2> QED
    BY <1>1, <1>9, <2>1, <2>2, TimerStep DEF IInv
<1> QED
  BY <1>1, <1>2, <1>3, <1>4, <1>5, <1>6, <1>7, <1>8, <1>9 DEF IInv, Services

LEMMA IInvHolds == Spec => []IInv
BY InitInv, StepInv, PTL DEF Spec

\* However connect attempts, their rollbacks, refreshes and failures of superseded clients overlap, the
\* bot's row holds a token of its own account, and that account is the last started attempt's or the one its
\* rollback gave the row back to (the comparisons of connection_id and attempt_started_at in
\* db/twitchBotAuth.ts).
THEOREM TokenIsKept == Spec => []TokenIsTheLastConnected
<1>1. IInv => TokenIsTheLastConnected
  BY DEF IInv, TokensInv, TokenIsTheLastConnected
<1> QED
  BY <1>1, IInvHolds, PTL

\* However logins, closes, back-offs and the watchdog overlap, there is one Discord client or a retry that will
\* make one and the watchdog waits for no recovery that is not under way (discordBot.ts); and the owner is not
\* left with a "down" about a component that is up, but for a message lost or overtaken in delivery
\* (ownerAlerts.ts).
THEOREM OwnerIsToldTheTruth == Spec => []OwnerHearsTheTruth
<1>1. IInv => OwnerHearsTheTruth
  BY GatewayTruth, AlertsTruth DEF IInv, OwnerHearsTheTruth
<1> QED
  BY <1>1, IInvHolds, PTL

\* Whatever fails, is superseded or taken over by another operation, every message of the stream monitor that
\* is in Discord is one it still knows of, or one that a failed call, a crash or a named race has left
\* (discardSupersededMessage and the identity checks of streamMonitor.ts); and whatever polls, requests and
\* handlers fail, a redemption that EventSub missed stays ahead of the cursor or in the running pass until it is
\* handled, once, or given up with a warning or in a named gap (twitchEventSubReconciliationCursors.ts).
THEOREM NothingIsEverLost == Spec => []NothingIsLost
<1>1. IInv => NothingIsLost
  BY MonitorTruth, CatchupTruth DEF IInv, NothingIsLost
<1> QED
  BY <1>1, IInvHolds, PTL

\* The service that runs keeps to its types, whatever fails and however long it runs: no queue, table, counter
\* or operation of it ever holds what its code does not expect.
THEOREM ServicesAreTyped == Spec => []TypeOK
<1>1. ASSUME TokensInv, RestTypes PROVE Tokens!TokensTypeOK
  <2>1. \A i \in 1..Len(restartChain) :
          restartChain[i] \in [for : {"connect", "restore", "rebuild", "revoked"}, id : Nat]
    BY <1>1 DEF TokensInv, TokenTypes, Restarts
  <2>2. /\ botRow \in [user : Tokens!Token, token : Tokens!Token, connection : Nat, startedAt : Attempts]
        /\ chatClient \in [connection : Nat, token : Tokens!Token, broken : {"no", "yes"}]
    BY <1>1 DEF TokensInv, TokenTypes, TokenOrNone, BotRows, ChatClients, Tokens!Token, Tokens!None
  <2>3. connects \in [Attempts -> [pc : {"away", "save", "read", "restart", "restore", "restart again", "done"},
                                   previous : Tokens!Token, connection : Nat]]
    <3>1. Tokens!Token = TokenOrNone
      BY DEF TokenOrNone, Tokens!Token, Tokens!None
    <3> QED
      BY <1>1, <3>1, Zenon DEF TokensInv, TokenTypes, Connects
  <2>4. /\ rowRead = Tokens!NotReading \/ rowRead \in [connection : Nat, token : Tokens!Token, broken : {"no"}]
        /\ outcomes \subseteq [connection : Nat, token : Attempts, answer : {"refreshed", "transient", "revoked"}]
    BY <1>1 DEF TokensInv, TokenTypes, TokenOrNone, Reads, Outcomes, Tokens!Token, Tokens!None
  <2>5. restored \subseteq Attempts
    BY <1>1 DEF TokensInv, TokenTypes
  <2> QED
    BY <1>1, <2>1, <2>2, <2>3, <2>4, <2>5, Zenon DEF RestTypes, Rebuilds, Tokens!TokensTypeOK
<1>2. ASSUME GatewayInv, DiscordTypes PROVE Gateway!GatewayTypeOK
  BY <1>2 DEF GatewayInv, GatewayRecords, Lives, DiscordTypes, Gateway!GatewayTypeOK, Gateway!None
<1>3. ASSUME AlertsInv PROVE Alerts!AlertsTypeOK
  BY <1>3 DEF AlertsInv, AlertTypes, EpisodesInv, Dms, Alerts!AlertsTypeOK
<1>4. IInv => TypeOK
  BY <1>1, <1>2, <1>3, SendTruth, CatchupTruth DEF IInv, Services, TypeOK, MonitorInv, MonitorTypes, TimerInv
<1> QED
  BY <1>4, IInvHolds, PTL

LEMMA SendsKeepDistance ==
  ASSUME IInv, Next, sentAges' = Append(sentAges, 0), ~Queue!GaveUp
  PROVE  \/ UNCHANGED Queue!sendVars
         \/ IF sending.channel \in privileged
            THEN Len(sentAges) < PRIVILEGED_LIMIT
            ELSE Len(sentAges) < NON_PRIVILEGED_LIMIT /\ floorAge[sending.channel] = FLOOR
<1>1. UNCHANGED sendVars \/ (service = "queue" /\ Queue!Next)
  BY DEF Next
<1>2. UNCHANGED sendVars => UNCHANGED Queue!sendVars
  BY DEF sendVars, Queue!sendVars
<1> QED
  BY <1>1, <1>2, SendIsWithinLimits DEF IInv

\* Whatever changes the bot's privilege while a message waits, it is sent inside the window's limit and the
\* channel's floor that hold when it goes out (twitchSendQueue.ts); two timers never post into a channel closer
\* together than the spacing between them, nor a timer into a Shared Chat session sooner than its own interval
\* (timerCommandCooldowns.ts); and a streamer's own write changes only a timer that is theirs alone when it is
\* committed (timerSelfService.ts).
THEOREM ChatIsKeptAtADistance == Spec => ChatKeepsItsDistance
<1>1. IInv /\ [Next]_serviceVars =>
        [sentAges' = Append(sentAges, 0) /\ ~Queue!GaveUp =>
           IF sending.channel \in privileged
             THEN Len(sentAges) < PRIVILEGED_LIMIT
             ELSE Len(sentAges) < NON_PRIVILEGED_LIMIT /\ floorAge[sending.channel] = FLOOR]_(Queue!sendVars)
  <2>1. UNCHANGED serviceVars => UNCHANGED Queue!sendVars
    BY DEF serviceVars, sendVars, Queue!sendVars
  <2> QED
    BY <2>1, SendsKeepDistance
<1>2. IInv /\ [Next]_serviceVars => UNCHANGED Timer!timerVars \/ TimerInv
  <2>1. UNCHANGED timerVars => UNCHANGED Timer!timerVars
    BY DEF timerVars, Timer!timerVars, Timer!timerTables, Timer!timerMemory, Timer!timerHistory
  <2>2. [Next]_serviceVars => UNCHANGED timerVars \/ service = "timer"
    BY DEF Next, serviceVars
  <2> QED
    BY <2>1, <2>2 DEF IInv
<1>3. IInv /\ [Next]_serviceVars =>
        [\A pick \in timerTick.picks :
           Timer!sendTimerRow(pick) =>
             LET last == lastPost[pick.row[2]] IN
             /\ last.timer = pick.row[1] \/ last.undone \/ last.age >= SPACING
             /\ pick.session = "none" \/ sessionPost[pick.row[1], pick.session] >= DueEvery[pick.row[1]]]_(Timer!timerVars)
  <2>1. TimerInv =>
          \A pick \in timerTick.picks :
            Timer!sendTimerRow(pick) =>
              LET last == lastPost[pick.row[2]] IN
              /\ last.timer = pick.row[1] \/ last.undone \/ last.age >= SPACING
              /\ pick.session = "none" \/ sessionPost[pick.row[1], pick.session] >= DueEvery[pick.row[1]]
    BY PicksKeepDistance, Zenon
  <2> QED
    BY <1>2, <2>1, Zenon
<1>4. IInv /\ [Next]_serviceVars =>
        [Timer!WriteOwned => assignedTo[ownWrite.timer] \subseteq {ownWrite.by}]_(Timer!timerVars)
  <2>1. TimerInv /\ Timer!WriteOwned => assignedTo[ownWrite.timer] \subseteq {ownWrite.by}
    BY DEF TimerInv, OwnInv, Timer!WriteOwned
  <2> QED
    BY <1>2, <2>1
<1>5. Spec => Queue!SendsWithinLimits
  BY <1>1, IInvHolds, PTL DEF Spec, Queue!SendsWithinLimits
<1>6. Spec => Timer!TimersKeepDistance
  BY <1>3, IInvHolds, PTL DEF Spec, Timer!TimersKeepDistance
<1>7. Spec => Timer!OwnTimerWritesStayOwn
  BY <1>4, IInvHolds, PTL DEF Spec, Timer!OwnTimerWritesStayOwn
<1> QED
  BY <1>5, <1>6, <1>7 DEF ChatKeepsItsDistance
===========================================================================
