------------------------------ MODULE SendQueue ------------------------------
(***************************************************************************)
(* Twitch chat messages on their way out: one queue for all channels, the  *)
(* rolling window that every message counts in, the spacing of messages to *)
(* a channel in which the bot is not privileged, and privileges that       *)
(* change while a message waits.  Time is counted in ticks.                *)
(***************************************************************************)
EXTENDS Naturals, Sequences

CONSTANTS
  ChatChannels,
  WINDOW, FLOOR,             \* WINDOW_MS and NON_PRIVILEGED_CHANNEL_FLOOR_MS in ticks
  NON_PRIVILEGED_LIMIT, PRIVILEGED_LIMIT,
  MAX_PRIVILEGE_RECHECKS,
  MaxChunks,                 \* of a message that is split
  MaxSends                   \* messages waiting

VARIABLES
  sentAges,   \* sentTimestamps: how long ago
  floorAge,   \* lastNonPrivilegedSendAtByChannel: how long ago, at most FLOOR
  privileged, \* privilegedChannels
  chatUp,     \* the bot is connected
  sends,      \* globalQueue: messages waiting, and their chunks still to send
  sending     \* the chunk that has the turn

sendVars == <<sentAges, floorAge, privileged, chatUp, sends, sending>>

NotSending == [channel |-> "none", left |-> 0, pc |-> "idle", privileged |-> "no", attempt |-> 0]

Privilege(channel) == IF channel \in privileged THEN "yes" ELSE "no"
Limit == IF sending.privileged = "yes" THEN PRIVILEGED_LIMIT ELSE NON_PRIVILEGED_LIMIT

---------------------------------------------------------------------------

\* pruneExpired: the oldest are shifted off until one is still inside the window.
Expired(n) ==
  /\ \A i \in 1 .. n : sentAges[i] + 1 >= WINDOW
  /\ n < Len(sentAges) => sentAges[n + 1] + 1 < WINDOW

\* Time passes.
Tick ==
  /\ \E n \in 0 .. Len(sentAges) : Expired(n) /\ sentAges' = [i \in 1 .. Len(sentAges) - n |-> sentAges[i + n] + 1]
  /\ floorAge' = [c \in ChatChannels |-> IF floorAge[c] < FLOOR THEN floorAge[c] + 1 ELSE FLOOR]
  /\ UNCHANGED <<privileged, chatUp, sends, sending>>

\* The chunks of a message are sent one after the other, each through the queue.
sayInChannel(channel, chunks) ==
  /\ chatUp
  /\ Len(sends) < MaxSends
  /\ sends' = Append(sends, [channel |-> channel, left |-> chunks])
  /\ UNCHANGED <<sentAges, floorAge, privileged, chatUp, sending>>

SendTurn ==
  /\ sending = NotSending
  /\ sends # <<>>
  /\ sending' = [channel |-> Head(sends).channel, left |-> Head(sends).left, pc |-> "window",
                 privileged |-> Privilege(Head(sends).channel), attempt |-> 0]
  /\ sends' = Tail(sends)
  /\ UNCHANGED <<sentAges, floorAge, privileged, chatUp>>

waitForWindowRoom ==
  /\ sending.pc = "window"
  /\ Len(sentAges) < Limit
  /\ sending' = [sending EXCEPT !.pc = IF sending.privileged = "no" THEN "floor" ELSE "recheck"]
  /\ UNCHANGED <<sentAges, floorAge, privileged, chatUp, sends>>

waitForChannelFloor ==
  /\ sending.pc = "floor"
  /\ floorAge[sending.channel] = FLOOR
  /\ sending' = [sending EXCEPT !.pc = "recheck"]
  /\ UNCHANGED <<sentAges, floorAge, privileged, chatUp, sends>>

\* After the last recheck the status is what it was then.
GaveUp == sending.attempt = MAX_PRIVILEGE_RECHECKS

\* Mistake: the privilege is looked at once.
NeverChanged == TRUE

Unchanged == Privilege(sending.channel) = sending.privileged

Recheck ==
  /\ sending.pc = "recheck"
  /\ ~GaveUp /\ ~Unchanged
  /\ sending' = [sending EXCEPT !.pc = "window", !.privileged = Privilege(sending.channel), !.attempt = @ + 1]
  /\ UNCHANGED <<sentAges, floorAge, privileged, chatUp, sends>>

\* The message counts before it is sent; without a connection the send throws and
\* the rest of the message is given up.
Send ==
  /\ sending.pc = "recheck"
  /\ GaveUp \/ Unchanged
  /\ sentAges' = Append(sentAges, 0)
  /\ floorAge' = IF sending.privileged = "no" THEN [floorAge EXCEPT ![sending.channel] = 0] ELSE floorAge
  /\ sends' = IF chatUp /\ sending.left > 1
                THEN Append(sends, [channel |-> sending.channel, left |-> sending.left - 1]) ELSE sends
  /\ sending' = NotSending
  /\ UNCHANGED <<privileged, chatUp>>

onOwnUserState(channel) ==
  /\ chatUp
  /\ privileged' = IF channel \in privileged THEN privileged \ {channel} ELSE privileged \cup {channel}
  /\ UNCHANGED <<sentAges, floorAge, chatUp, sends, sending>>

\* The connection is lost, and with it what is known of privileges, or comes back.
ConnectionChanges ==
  /\ chatUp' = ~chatUp
  /\ privileged' = IF chatUp THEN {} ELSE privileged
  /\ UNCHANGED <<sentAges, floorAge, sends, sending>>

---------------------------------------------------------------------------

Init ==
  /\ sentAges = <<>> /\ floorAge = [c \in ChatChannels |-> FLOOR]
  /\ privileged = {} /\ chatUp = TRUE
  /\ sends = <<>> /\ sending = NotSending

Next ==
  \/ Tick \/ SendTurn \/ waitForWindowRoom \/ waitForChannelFloor \/ Recheck \/ Send
  \/ \E c \in ChatChannels : onOwnUserState(c) \/ \E n \in 1 .. MaxChunks : sayInChannel(c, n)
  \/ ConnectionChanges

TypeOK ==
  /\ \A i \in DOMAIN sentAges : sentAges[i] \in 0 .. WINDOW - 1
  /\ floorAge \in [ChatChannels -> 0 .. FLOOR]
  /\ privileged \subseteq ChatChannels /\ chatUp \in BOOLEAN
  /\ \A i \in DOMAIN sends : sends[i] \in [channel : ChatChannels, left : 1 .. MaxChunks]
  /\ sending = NotSending \/ sending \in [channel : ChatChannels, left : 1 .. MaxChunks,
       pc : {"window", "floor", "recheck"}, privileged : {"yes", "no"}, attempt : 0 .. MAX_PRIVILEGE_RECHECKS]

\* Twitch's limits are kept for what the bot is when the message leaves, however
\* often its privileges changed while the message waited, unless the rechecks gave up.
SendsWithinLimits ==
  [][sentAges' = Append(sentAges, 0) /\ ~GaveUp =>
       IF sending.channel \in privileged
         THEN Len(sentAges) < PRIVILEGED_LIMIT
         ELSE Len(sentAges) < NON_PRIVILEGED_LIMIT /\ floorAge[sending.channel] = FLOOR]_sendVars
=============================================================================
