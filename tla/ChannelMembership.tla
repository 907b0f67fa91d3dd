-------------------------- MODULE ChannelMembership --------------------------
(***************************************************************************)
(* The bot's membership of one Twitch channel: the enabled flag in the     *)
(* database and the panel's toggle of it, the channels the bot wants and   *)
(* those it believes it has joined, the joins that time out and land late, *)
(* disconnects, reconnects and restarts of the chat client, and the        *)
(* reconciliation pass.  Twitch's side is `joined'.  The gate that spaces  *)
(* joins out over all channels only delays them.                           *)
(***************************************************************************)
EXTENDS Naturals, Sequences

CONSTANTS
  MaxChannelQueue, \* operations waiting for the channel's turn
  MaxChatUpsets    \* toggles, failures, timeouts, disconnects and restarts

VARIABLES
  botEnabled,      \* the user's is_twitch_bot_enabled
  activeChannel,   \* the channel is in activeChannels
  confirmedJoined, \* ... and in confirmedJoinedChannels
  joined,          \* Twitch has the bot in the channel on the present connection
  link,            \* the chat client: "none", "down" or "up"
  starting,        \* of restartTwitchBot: what startTwitchBot does next
  channelsRead,    \* what initializeActiveChannels has read
  channelQueue,    \* membershipMutationQueue: operations waiting
  channelOp,       \* the operation that has the turn
  lateJoins,       \* connections of joins whose caller has given up on them
  toggle,          \* toggleTwitchMutation under way
  chatUpsets

membershipVars == <<botEnabled, activeChannel, confirmedJoined, joined, link, starting, channelsRead,
                    channelQueue, channelOp, lateJoins, toggle, chatUpsets>>

Kinds == {"join", "part", "partStale", "joinMissing", "compensate"}

\* An operation: whether the client it holds is still the present one, and the same
\* of the connection its join call was made on.
NoChannelOp == [kind |-> "none", pc |-> "done", client |-> "gone", call |-> "old"]
ChannelOps == [kind : Kinds, pc : {"begin", "gate", "call"},
               client : {"same", "gone"}, call : {"cur", "old"}] \cup {NoChannelOp}

ChatUpset == chatUpsets < MaxChatUpsets /\ chatUpsets' = chatUpsets + 1

isChannelJoined == link = "up" /\ confirmedJoined

ToggleUnchanged == UNCHANGED <<botEnabled, toggle>>
LinkUnchanged == UNCHANGED <<link, starting, channelsRead>>
MembershipUnchanged == UNCHANGED <<activeChannel, confirmedJoined, joined>>

HasRoom == Len(channelQueue) < MaxChannelQueue
Queues(kind) == HasRoom /\ channelQueue' = Append(channelQueue, kind)

---------------------------------------------------------------------------
(* toggleTwitchMutation, one at a time for a user *)

ToggleRequested ==
  /\ toggle = "idle"
  /\ ChatUpset
  /\ botEnabled' = ~botEnabled
  /\ toggle' \in {"written", "idle"} \* or the write's reply is lost
  /\ MembershipUnchanged /\ LinkUnchanged /\ UNCHANGED <<channelQueue, channelOp, lateJoins>>

\* The committed flag is read again, and the channel joined or parted.
ToggleReconciles ==
  /\ toggle = "written"
  /\ Queues(IF botEnabled THEN "join" ELSE "part")
  /\ toggle' = "waiting"
  /\ UNCHANGED botEnabled
  /\ MembershipUnchanged /\ LinkUnchanged /\ UNCHANGED <<channelOp, lateJoins, chatUpsets>>

ToggleReadFails ==
  /\ toggle = "written"
  /\ ChatUpset
  /\ toggle' = "failed"
  /\ UNCHANGED botEnabled
  /\ MembershipUnchanged /\ LinkUnchanged /\ UNCHANGED <<channelQueue, channelOp, lateJoins>>

ToggleRollsBack ==
  /\ toggle = "failed"
  /\ \/ botEnabled' = ~botEnabled /\ UNCHANGED chatUpsets
     \/ ChatUpset /\ UNCHANGED botEnabled
  /\ toggle' = "idle"
  /\ MembershipUnchanged /\ LinkUnchanged /\ UNCHANGED <<channelQueue, channelOp, lateJoins>>

---------------------------------------------------------------------------
(* Operations on the channel, one at a time *)

ChannelTurn ==
  /\ channelOp = NoChannelOp
  /\ channelQueue # <<>>
  /\ channelOp' = [kind |-> Head(channelQueue), pc |-> "begin", client |-> "same", call |-> "old"]
  /\ channelQueue' = Tail(channelQueue)
  /\ ToggleUnchanged /\ MembershipUnchanged /\ LinkUnchanged /\ UNCHANGED <<lateJoins, chatUpsets>>

\* The operation has ended: a toggle that waits for it goes on.
Ends(outcome) ==
  /\ channelOp' = NoChannelOp
  /\ toggle' = IF channelOp.kind \in {"join", "part"} THEN outcome ELSE toggle
  /\ UNCHANGED botEnabled

\* What a step of the operation leaves alone.
OpRest == LinkUnchanged /\ UNCHANGED <<channelQueue, lateJoins>>

Begun(kinds) == channelOp.pc = "begin" /\ channelOp.kind \in kinds

\* joinTwitchChannel wants the channel first; joinMissingChannel joins it if it is wanted.
BeginJoin ==
  /\ Begun({"join", "joinMissing"})
  /\ activeChannel' = (channelOp.kind = "join" \/ activeChannel)
  /\ IF activeChannel' /\ link = "up" /\ ~confirmedJoined
       THEN channelOp' = [channelOp EXCEPT !.pc = "gate"] /\ ToggleUnchanged
       ELSE Ends("idle")
  /\ UNCHANGED <<confirmedJoined, joined, chatUpsets>> /\ OpRest

\* partTwitchChannel gives the channel up first; partStaleChannel and the revert of
\* a join that landed late part it if it is not wanted.
BeginPart ==
  /\ Begun({"part", "partStale", "compensate"})
  /\ activeChannel' = (channelOp.kind # "part" /\ activeChannel)
  /\ IF isChannelJoined /\ ~activeChannel'
       THEN \/ /\ joined' = FALSE
               /\ confirmedJoined' = FALSE
               /\ Ends("idle")
               /\ UNCHANGED chatUpsets
            \/ ChatUpset /\ Ends("failed") /\ UNCHANGED <<joined, confirmedJoined>>
       ELSE /\ confirmedJoined' = (confirmedJoined /\ ~(channelOp.kind = "partStale" /\ ~activeChannel))
            /\ Ends("idle")
            /\ UNCHANGED <<joined, chatUpsets>>
  /\ OpRest

\* throttledJoin: client.join on the client that was there when the operation began.
JoinIssued ==
  /\ channelOp.pc = "gate"
  /\ channelOp' = [channelOp EXCEPT !.pc = "call", !.call = IF channelOp.client = "same" THEN "cur" ELSE "old"]
  /\ ToggleUnchanged /\ MembershipUnchanged /\ OpRest /\ UNCHANGED chatUpsets

\* Mistake: a join of an earlier connection is believed.
MarkJoined(call) == TRUE

markJoinedIfCurrent(call) == call = "cur" \/ confirmedJoined

\* A join settles: Twitch has the bot in the channel, if the connection is still there.
Lands(call) ==
  /\ call = "cur" => link = "up"
  /\ joined' = (call = "cur" \/ joined)
  /\ confirmedJoined' = markJoinedIfCurrent(call)

JoinSettles ==
  /\ channelOp.pc = "call"
  /\ Lands(channelOp.call)
  /\ Ends("idle")
  /\ UNCHANGED <<activeChannel, chatUpsets>> /\ OpRest

\* joinTwitchChannel takes its wish back.
Withdraws == activeChannel' = (channelOp.kind # "join" /\ activeChannel)

JoinFails ==
  /\ channelOp.pc = "call"
  /\ ChatUpset
  /\ Withdraws
  /\ Ends("failed")
  /\ UNCHANGED <<confirmedJoined, joined>> /\ OpRest

\* JOIN_PART_TIMEOUT_MS: the call goes on.
JoinTimesOut ==
  /\ channelOp.pc = "call"
  /\ link = "up" => chatUpsets < MaxChatUpsets
  /\ chatUpsets' = IF link = "up" THEN chatUpsets + 1 ELSE chatUpsets
  /\ lateJoins' = lateJoins \cup {channelOp.call}
  /\ Withdraws
  /\ Ends("failed")
  /\ UNCHANGED <<confirmedJoined, joined, channelQueue>> /\ LinkUnchanged

\* compensateIfStale
LateJoinSettles(call) ==
  /\ call \in lateJoins
  /\ Lands(call)
  /\ lateJoins' = lateJoins \ {call}
  /\ Queues("compensate")
  /\ ToggleUnchanged /\ LinkUnchanged /\ UNCHANGED <<activeChannel, channelOp, chatUpsets>>

LateJoinFails(call) ==
  /\ call \in lateJoins
  /\ lateJoins' = lateJoins \ {call}
  /\ ToggleUnchanged /\ MembershipUnchanged /\ LinkUnchanged
  /\ UNCHANGED <<channelQueue, channelOp, chatUpsets>>

\* reconcileJoinedChannels, after a connect and every minute.
reconcileJoinedChannels ==
  /\ link = "up"
  /\ \/ confirmedJoined /\ Queues("partStale")
     \/ activeChannel /\ ~confirmedJoined /\ Queues("joinMissing")
  /\ ToggleUnchanged /\ MembershipUnchanged /\ LinkUnchanged /\ UNCHANGED <<channelOp, lateJoins, chatUpsets>>

---------------------------------------------------------------------------
(* The chat client *)

\* setConnected(false): what was joined is not any more, and calls under way were
\* made on a connection of the past.
LosesConnection(client) ==
  /\ joined' = FALSE
  /\ confirmedJoined' = FALSE
  /\ channelOp' = IF channelOp = NoChannelOp THEN NoChannelOp
                  ELSE [channelOp EXCEPT !.call = "old", !.client = IF client = "gone" THEN "gone" ELSE @]
  /\ lateJoins' = IF lateJoins = {} THEN {} ELSE {"old"}

onDisconnected ==
  /\ link = "up"
  /\ ChatUpset
  /\ link' = "down"
  /\ LosesConnection("same")
  /\ ToggleUnchanged /\ UNCHANGED <<activeChannel, starting, channelsRead, channelQueue>>

onConnected ==
  /\ link = "down"
  /\ link' = "up"
  /\ starting' = "no"
  /\ ToggleUnchanged /\ MembershipUnchanged
  /\ UNCHANGED <<channelsRead, channelQueue, channelOp, lateJoins, chatUpsets>>

stopTwitchBot ==
  /\ starting = "no"
  /\ ChatUpset
  /\ link' = "none"
  /\ LosesConnection("gone")
  /\ activeChannel' = FALSE
  /\ starting' = "read"
  /\ ToggleUnchanged /\ UNCHANGED <<channelsRead, channelQueue>>

\* initializeActiveChannels reads the database, and adds what it has read.
ReadChannels ==
  /\ starting = "read"
  /\ starting' = "add"
  /\ channelsRead' = botEnabled
  /\ ToggleUnchanged /\ MembershipUnchanged
  /\ UNCHANGED <<link, channelQueue, channelOp, lateJoins, chatUpsets>>

AddChannels ==
  /\ starting = "add"
  /\ starting' = "connect"
  /\ activeChannel' = (activeChannel \/ channelsRead)
  /\ channelsRead' = FALSE
  /\ link' = "down"
  /\ ToggleUnchanged /\ UNCHANGED <<confirmedJoined, joined, channelQueue, channelOp, lateJoins, chatUpsets>>

\* Nothing connects again before the next restart.
StartFails ==
  /\ starting \in {"read", "connect"}
  /\ ChatUpset
  /\ starting' = "no"
  /\ link' = "none"
  /\ ToggleUnchanged /\ MembershipUnchanged /\ UNCHANGED <<channelsRead, channelQueue, channelOp, lateJoins>>

---------------------------------------------------------------------------

Init ==
  /\ botEnabled \in BOOLEAN
  /\ activeChannel = FALSE /\ confirmedJoined = FALSE /\ joined = FALSE
  /\ link = "none" /\ starting = "read" /\ channelsRead = FALSE
  /\ channelQueue = <<>> /\ channelOp = NoChannelOp /\ lateJoins = {}
  /\ toggle = "idle" /\ chatUpsets = 0

ToggleGoesOn == ToggleReconciles \/ ToggleReadFails \/ ToggleRollsBack
OpGoesOn == BeginJoin \/ BeginPart \/ JoinIssued \/ JoinSettles \/ JoinFails \/ JoinTimesOut
ClientStarts == ReadChannels \/ AddChannels \/ onConnected

Next ==
  \/ ToggleRequested \/ ToggleGoesOn
  \/ ChannelTurn \/ OpGoesOn
  \/ \E call \in lateJoins : LateJoinSettles(call) \/ LateJoinFails(call)
  \/ reconcileJoinedChannels
  \/ onDisconnected \/ stopTwitchBot \/ ClientStarts \/ StartFails

TypeOK ==
  /\ {botEnabled, activeChannel, confirmedJoined, joined, channelsRead} \subseteq BOOLEAN
  /\ link \in {"none", "down", "up"} /\ starting \in {"no", "read", "add", "connect"}
  /\ channelQueue \in Seq(Kinds) /\ Len(channelQueue) <= MaxChannelQueue
  /\ channelOp \in ChannelOps /\ lateJoins \subseteq {"cur", "old"}
  /\ toggle \in {"idle", "written", "waiting", "failed"} /\ chatUpsets \in 0 .. MaxChatUpsets

\* However joins are delayed, lost, late or overtaken by a reconnect, a connected
\* bot comes to be in the channel exactly when it wants to be.
WhereItShouldBe == link = "up" => joined = activeChannel
=============================================================================
