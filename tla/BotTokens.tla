------------------------------ MODULE BotTokens ------------------------------
(***************************************************************************)
(* The bot's own Twitch chat token: one database row, written by the       *)
(* owner's connect attempts, by the refreshes of the running chat client   *)
(* and of clients already replaced, and by the recovery from refreshes     *)
(* that fail.  Calls to Twitch and to the database overlap freely; a       *)
(* connection_id in the row orders the writes.                             *)
(***************************************************************************)
EXTENDS Naturals, Sequences, Functions

CONSTANTS
  Attempts,                        \* connect attempts as the owner starts them: 1, already made, 2, ...
  MAX_TRANSIENT_REBUILD_ATTEMPTS,
  MaxTokenUpsets                   \* failed calls and refreshes

VARIABLES
  botRow,       \* twitch_bot_chat_token; a user and a token are named after the attempt they came from
  connects,     \* the OAuth callback of each attempt
  chatClient,   \* the connection_id and token the chat client's auth provider was built from
  restartChain, \* restartTwitchBot calls, the running one first
  rowRead,      \* the row as the running startTwitchBot has read it
  outcomes,     \* refreshes Twitch has answered and no listener has handled
  rebuilds,     \* transientRebuildInFlight: the attempts left, for each connection_id
  ownerTold,    \* the last thing that happened to chat is a message that it is down
  restored,     \* history: attempts that gave the row back to the account before
  misreported,  \* history: attempts that are saved though the owner was told they are not
  tokenUpsets

tokenVars == <<botRow, connects, chatClient, restartChain, rowRead, outcomes, rebuilds, ownerTold,
               restored, misreported, tokenUpsets>>

None == 0
NotReading == [connection |-> None, token |-> None, broken |-> "unread"]
NoClient == [connection |-> None, token |-> None, broken |-> "no"]
AwayAtTwitch == [pc |-> "away", previous |-> None, connection |-> None]
Finished == [AwayAtTwitch EXCEPT !.pc = "done"]

Upset == tokenUpsets < MaxTokenUpsets /\ tokenUpsets' = tokenUpsets + 1
NoUpset == UNCHANGED tokenUpsets
-------------------------------------------------------------------------------
(* The callback of a connect attempt.                                       *)

\* The code is exchanged and the token the row holds is remembered, in case chat does not start.
Returns(a) ==
  /\ connects[a].pc = "away"
  /\ \/ NoUpset /\ connects' = [connects EXCEPT ![a] = [@ EXCEPT !.pc = "save", !.previous = botRow.token]]
     \/ Upset /\ connects' = [connects EXCEPT ![a] = Finished]
  /\ UNCHANGED <<botRow, chatClient, restartChain, rowRead, outcomes, rebuilds, ownerTold, restored, misreported>>

\* Mistake: whichever callback comes last wins.
LastCallbackWins(a) == TRUE

Wins(a) == a >= botRow.startedAt

\* saveBotChatTokenIfLatestAttempt, the write
Saves(a) ==
  /\ connects[a].pc = "save"
  /\ \/ /\ NoUpset
        /\ connects' = [connects EXCEPT ![a].pc = "read"]
        /\ botRow' = IF Wins(a)
                     THEN [user |-> a, token |-> a, connection |-> botRow.connection + 1, startedAt |-> a]
                     ELSE botRow
     \/ Upset /\ connects' = [connects EXCEPT ![a] = Finished] /\ UNCHANGED botRow
  /\ UNCHANGED <<chatClient, restartChain, rowRead, outcomes, rebuilds, ownerTold, restored, misreported>>

\* ... and its SELECT; when that fails the owner is told that nothing was saved.
ReadsBack(a) ==
  /\ connects[a].pc = "read"
  /\ \/ /\ NoUpset
        /\ IF botRow.startedAt = a
           THEN /\ connects' = [connects EXCEPT ![a] = [@ EXCEPT !.pc = "restart", !.connection = botRow.connection]]
                /\ restartChain' = Append(restartChain, [for |-> "connect", id |-> a])
           ELSE connects' = [connects EXCEPT ![a] = Finished] /\ UNCHANGED restartChain
        /\ UNCHANGED misreported
     \/ /\ Upset
        /\ connects' = [connects EXCEPT ![a] = Finished]
        /\ misreported' = misreported \cup {a}
        /\ UNCHANGED restartChain
  /\ UNCHANGED <<botRow, chatClient, rowRead, outcomes, rebuilds, ownerTold, restored>>

\* Mistake: the rollback overwrites whatever the row holds by now.
AlwaysOwned(connection) == TRUE

OwnedBy(connection) == botRow.connection = connection

\* tryRestorePreviousConnection, up to its restart
Restores(a) ==
  /\ connects[a].pc = "restore"
  /\ \/ /\ NoUpset
        /\ IF OwnedBy(connects[a].connection)
           THEN /\ botRow' = [botRow EXCEPT !.user = connects[a].previous, !.token = connects[a].previous,
                                            !.connection = @ + 1]
                /\ connects' = [connects EXCEPT ![a].pc = "restart again"]
                /\ restored' = restored \cup {a}
                /\ restartChain' = Append(restartChain, [for |-> "restore", id |-> a])
                /\ UNCHANGED ownerTold
           ELSE /\ connects' = [connects EXCEPT ![a] = Finished]
                /\ ownerTold' = "yes"
                /\ UNCHANGED <<botRow, restored, restartChain>>
     \/ /\ Upset
        /\ connects' = [connects EXCEPT ![a] = Finished]
        /\ ownerTold' = "yes"
        /\ UNCHANGED <<botRow, restored, restartChain>>
  /\ UNCHANGED <<chatClient, rowRead, outcomes, rebuilds, misreported>>
-------------------------------------------------------------------------------
(* restartTwitchBot: one at a time, each reads the row anew.                *)

\* A rebuild of the connection that has failed: the next attempt, or an alert and the end.
AttemptFails(c) ==
  IF rebuilds[c].left > 1
  THEN rebuilds' = [rebuilds EXCEPT ![c] = [left |-> @.left - 1, pc |-> "wait"]] /\ UNCHANGED ownerTold
  ELSE rebuilds' = Restrict(rebuilds, DOMAIN rebuilds \ {c}) /\ ownerTold' = "yes"

\* What the caller of the restart does with its failure.
CallerSeesFailure(caller) ==
  \/ /\ caller.for = "connect"
     /\ IF connects[caller.id].previous # None
        THEN connects' = [connects EXCEPT ![caller.id].pc = "restore"] /\ UNCHANGED ownerTold
        ELSE connects' = [connects EXCEPT ![caller.id] = Finished] /\ ownerTold' = "yes"
     /\ UNCHANGED rebuilds
  \/ /\ caller.for = "restore"
     /\ connects' = [connects EXCEPT ![caller.id] = Finished] /\ ownerTold' = "yes"
     /\ UNCHANGED rebuilds
  \/ caller.for = "rebuild" /\ AttemptFails(caller.id) /\ UNCHANGED connects
  \/ caller.for = "revoked" /\ ownerTold' = "yes" /\ UNCHANGED <<rebuilds, connects>>

\* ... and with its success; chat that is up clears what the owner was told.
CallerSeesSuccess(caller) ==
  /\ connects' = IF caller.for \in {"connect", "restore"} THEN [connects EXCEPT ![caller.id] = Finished] ELSE connects
  /\ rebuilds' = IF caller.for = "rebuild" THEN Restrict(rebuilds, DOMAIN rebuilds \ {caller.id}) ELSE rebuilds
  /\ ownerTold' = IF rowRead.token = None THEN "yes" ELSE "no"

\* The old client is stopped; the row is read, or the read fails.
RestartBegins ==
  /\ restartChain # <<>> /\ rowRead = NotReading
  /\ chatClient' = NoClient
  /\ \/ /\ NoUpset
        /\ rowRead' = [connection |-> botRow.connection, token |-> botRow.token, broken |-> "no"]
        /\ UNCHANGED <<restartChain, connects, rebuilds, ownerTold>>
     \/ /\ Upset
        /\ CallerSeesFailure(Head(restartChain))
        /\ restartChain' = Tail(restartChain)
        /\ UNCHANGED rowRead
  /\ UNCHANGED <<botRow, outcomes, restored, misreported>>

\* The client connects, or there is no account; or it fails, perhaps over the token it was given.
RestartEnds ==
  /\ rowRead # NotReading
  /\ \/ /\ NoUpset
        /\ chatClient' = IF rowRead.token = None THEN NoClient ELSE rowRead
        /\ CallerSeesSuccess(Head(restartChain))
        /\ UNCHANGED outcomes
     \/ /\ Upset /\ rowRead.token # None
        /\ chatClient' = NoClient
        /\ CallerSeesFailure(Head(restartChain))
        /\ \/ UNCHANGED outcomes
           \/ \E answer \in {"transient", "revoked"} :
                outcomes' = outcomes \cup {[connection |-> rowRead.connection, token |-> rowRead.token, answer |-> answer]}
  /\ rowRead' = NotReading
  /\ restartChain' = Tail(restartChain)
  /\ UNCHANGED <<botRow, restored, misreported>>
-------------------------------------------------------------------------------
(* buildBotAuthProvider: refreshes, also of clients that are gone by then.  *)

\* Twurple keeps a failure for the life of the provider and never asks again.
Refreshes ==
  /\ chatClient # NoClient /\ chatClient.broken = "no"
  /\ \E answer \in {"refreshed", "transient", "revoked"} :
       /\ IF answer = "refreshed" THEN NoUpset ELSE Upset
       /\ outcomes' = outcomes \cup {[connection |-> chatClient.connection, token |-> chatClient.token, answer |-> answer]}
       /\ chatClient' = IF answer = "refreshed" THEN chatClient ELSE [chatClient EXCEPT !.broken = "yes"]
  /\ UNCHANGED <<botRow, connects, restartChain, rowRead, rebuilds, ownerTold, restored, misreported>>

\* saveBotChatTokenIfOwnedBy
SavesRefreshed(outcome) ==
  /\ outcome.answer = "refreshed"
  /\ botRow' = IF OwnedBy(outcome.connection) THEN [botRow EXCEPT !.token = outcome.token] ELSE botRow
  /\ NoUpset
  /\ UNCHANGED <<rebuilds, restartChain, ownerTold>>

\* rebuildAfterTransientRefreshFailure: one loop for a connection at a time.
StartsRebuilding(outcome) ==
  /\ outcome.answer = "transient"
  /\ rebuilds' = IF outcome.connection \in DOMAIN rebuilds THEN rebuilds
                 ELSE [c \in DOMAIN rebuilds \cup {outcome.connection} |->
                         IF c = outcome.connection
                         THEN [left |-> MAX_TRANSIENT_REBUILD_ATTEMPTS, pc |-> "wait"] ELSE rebuilds[c]]
  /\ NoUpset
  /\ UNCHANGED <<botRow, restartChain, ownerTold>>

\* clearBotChatTokenIfOwnedBy, and the restart that takes chat down
ClearsRevoked(outcome) ==
  /\ outcome.answer = "revoked"
  /\ \/ /\ NoUpset
        /\ IF OwnedBy(outcome.connection)
           THEN /\ botRow' = [botRow EXCEPT !.user = None, !.token = None, !.connection = @ + 1]
                /\ restartChain' = Append(restartChain, [for |-> "revoked", id |-> outcome.connection])
           ELSE UNCHANGED <<botRow, restartChain>>
        /\ UNCHANGED ownerTold
     \/ /\ Upset
        /\ ownerTold' = "yes"
        /\ UNCHANGED <<botRow, restartChain>>
  /\ UNCHANGED rebuilds

Handled(answer) ==
  \E outcome \in outcomes :
    /\ outcome.answer = answer
    /\ SavesRefreshed(outcome) \/ StartsRebuilding(outcome) \/ ClearsRevoked(outcome)
    /\ outcomes' = outcomes \ {outcome}
    /\ UNCHANGED <<connects, chatClient, rowRead, restored, misreported>>

\* Mistake: a failed read ends the loop and nobody is told.
LookupFailsSilently(c) == rebuilds' = Restrict(rebuilds, DOMAIN rebuilds \ {c}) /\ UNCHANGED ownerTold

LookupFails(c) == AttemptFails(c)

\* The loop reads the row after its back-off: it ends when a newer connection holds it.
RebuildGoesOn ==
  \E c \in DOMAIN rebuilds :
    /\ rebuilds[c].pc = "wait"
    /\ \/ /\ NoUpset
          /\ IF botRow.token # None /\ OwnedBy(c)
             THEN /\ rebuilds' = [rebuilds EXCEPT ![c].pc = "restart"]
                  /\ restartChain' = Append(restartChain, [for |-> "rebuild", id |-> c])
             ELSE rebuilds' = Restrict(rebuilds, DOMAIN rebuilds \ {c}) /\ UNCHANGED restartChain
          /\ UNCHANGED ownerTold
       \/ Upset /\ LookupFails(c) /\ UNCHANGED restartChain
    /\ UNCHANGED <<botRow, connects, chatClient, rowRead, outcomes, restored, misreported>>
-------------------------------------------------------------------------------
TokensInit ==
  /\ botRow = [user |-> 1, token |-> 1, connection |-> 1, startedAt |-> 1]
  /\ connects = [a \in Attempts |-> IF a = 1 THEN Finished ELSE AwayAtTwitch]
  /\ chatClient = [connection |-> 1, token |-> 1, broken |-> "no"]
  /\ restartChain = <<>> /\ rowRead = NotReading
  /\ outcomes = {} /\ rebuilds = <<>>
  /\ ownerTold = "no" /\ restored = {} /\ misreported = {} /\ tokenUpsets = 0

CallbackGoesOn == \E a \in Attempts : Saves(a) \/ ReadsBack(a) \/ Restores(a)

TokensNext ==
  \/ \E a \in Attempts : Returns(a)
  \/ CallbackGoesOn
  \/ RestartBegins
  \/ RestartEnds
  \/ Refreshes
  \/ \E answer \in {"refreshed", "transient", "revoked"} : Handled(answer)
  \/ RebuildGoesOn
-------------------------------------------------------------------------------
Token == Attempts \cup {None}

TokensTypeOK ==
  /\ botRow \in [user : Token, token : Token, connection : Nat, startedAt : Attempts]
  /\ connects \in [Attempts -> [pc : {"away", "save", "read", "restart", "restore", "restart again", "done"},
                                previous : Token, connection : Nat]]
  /\ chatClient \in [connection : Nat, token : Token, broken : {"no", "yes"}]
  /\ \A i \in 1..Len(restartChain) :
       restartChain[i] \in [for : {"connect", "restore", "rebuild", "revoked"}, id : Nat]
  /\ rowRead = NotReading \/ rowRead \in [connection : Nat, token : Token, broken : {"no"}]
  /\ outcomes \subseteq [connection : Nat, token : Attempts, answer : {"refreshed", "transient", "revoked"}]
  /\ \A c \in DOMAIN rebuilds :
       rebuilds[c] \in [left : 1..MAX_TRANSIENT_REBUILD_ATTEMPTS, pc : {"wait", "restart"}]
  /\ ownerTold \in {"no", "yes"} /\ restored \subseteq Attempts /\ misreported \subseteq Attempts
  /\ tokenUpsets \in 0..MaxTokenUpsets

\* The stored token is always a token of the stored account, and that account is the one of the
\* attempt the owner started last among those saved - unless that very attempt's rollback gave the
\* row back: no late refresh, failure or rollback of a superseded connection has overwritten it.
TokenIsTheLastConnected ==
  /\ botRow.user = botRow.token
  /\ botRow.token # None => botRow.user = botRow.startedAt \/ botRow.startedAt \in restored
  /\ \A a \in Attempts : connects[a].pc \in {"restart", "restore", "restart again"} => botRow.startedAt >= a

\* What is so for good once calls stop failing: chat runs on the connection the row holds and can refresh its token,
\* or there is no account, or the owner has been told that chat is down; the exception is an
\* attempt that was saved and then reported as not saved.
ChatFollowsRow ==
  \/ botRow.token = None
  \/ ownerTold = "yes" \/ botRow.startedAt \in misreported
  \/ chatClient.connection = botRow.connection /\ chatClient.broken = "no"
===============================================================================
