--------------------------- MODULE VoiceConnection ---------------------------
(***************************************************************************)
(* The bot's voice connection in one guild: joins and leaves from the web  *)
(* and the Stream Deck, attempts that a later one supersedes while they    *)
(* wait, drops and their five seconds of grace, the reconnect timer, the   *)
(* guild forgotten and entered again, and sounds that start meanwhile.     *)
(* Guilds keep separate state, so one is enough.                           *)
(*                                                                         *)
(* The library holds at most one live connection for the guild and hands   *)
(* it to every join while it lives.  A reconnecting one is assumed to end  *)
(* up ready or dropped.  Attempt ids appear as what they decide: the newest *)
(* attempt and its handler are current, all others stale.  Both callers of *)
(* connect() have just seen or made connection null, so previousConnection *)
(* is always null and is left out.                                         *)
(***************************************************************************)
EXTENDS Naturals, FiniteSets

CONSTANTS Connections, MaxVoiceUpsets

VARIABLES
  voice,        \* GuildVoiceState
  attempt,      \* the newest connect(), while it runs
  staleCalls,   \* superseded connect() calls still waiting for Ready
  linkStatus,   \* each connection's status in the library
  sound,        \* playFile: between its two checks, or not
  voiceUpsets,
  badChannel,   \* history: the last join failed for good and is not retried
  orphanKilled  \* history: a forgotten guild's attempt destroyed a newer one's connection

voiceVars == <<voice, attempt, staleCalls, linkStatus, sound, voiceUpsets, badChannel, orphanKilled>>

None == 0
NoAttempt == [pc |-> "none", conn |-> None]
Resolving == [pc |-> "resolving", conn |-> None]

Alive == {c \in Connections : linkStatus[c] \notin {"free", "destroyed"}}
Referenced == {voice.connection, voice.pending, attempt.conn} \cup {call.conn : call \in staleCalls}

VoiceUpset == voiceUpsets < MaxVoiceUpsets /\ voiceUpsets' = voiceUpsets + 1

Destroyed(c) == IF c = None THEN linkStatus ELSE [linkStatus EXCEPT ![c] = "destroyed"]

\* What the attempt under way becomes when a newer one supersedes it.
Superseded ==
  staleCalls \cup IF attempt.pc = "waiting" THEN {[conn |-> attempt.conn, orphan |-> "no"]} ELSE {}

---------------------------------------------------------------------------
(* Joining and leaving.                                                    *)

\* destroy() throws on a destroyed connection, and disconnectGuild ends there.
DestroyThrows == voice.connection # None /\ voice.connection \notin Alive

\* disconnectGuild.
Disconnected ==
  LET letGo == [voice EXCEPT !.pending = None, !.auto = "no", !.timer = "none",
                              !.watched = None, !.dropWait = "no"] IN
  IF voice.connection = None \/ DestroyThrows THEN letGo
  ELSE [letGo EXCEPT !.connection = None, !.playing = "no"]

\* POST /voice/join: disconnectGuild, and connect() up to its first await.
Join ==
  /\ VoiceUpset
  /\ linkStatus' = Destroyed(voice.connection)
  /\ voice' = [Disconnected EXCEPT !.auto = IF DestroyThrows THEN "no" ELSE "yes"]
  /\ staleCalls' = Superseded
  /\ attempt' = IF DestroyThrows THEN NoAttempt ELSE Resolving
  /\ badChannel' = "no"
  /\ UNCHANGED <<sound, orphanKilled>>

\* POST /voice/leave, the gateway watchdog and shutdown.
disconnectGuild ==
  /\ VoiceUpset
  /\ linkStatus' = Destroyed(voice.connection)
  /\ voice' = Disconnected
  /\ staleCalls' = Superseded
  /\ attempt' = NoAttempt
  /\ UNCHANGED <<sound, badChannel, orphanKilled>>

\* guildDelete, unless destroy() throws: what still waits belongs to a state that nobody looks at any more.
forgetGuild ==
  /\ VoiceUpset
  /\ ~DestroyThrows
  /\ linkStatus' = Destroyed(voice.connection)
  /\ voice' = [Disconnected EXCEPT !.playing = "no"]
  /\ staleCalls' = {[call EXCEPT !.orphan = "yes"] : call \in Superseded}
  /\ attempt' = NoAttempt
  /\ UNCHANGED <<sound, badChannel, orphanKilled>>

scheduleReconnect(v) ==
  IF v.auto = "yes" /\ v.timer = "none" /\ v.connection = None THEN [v EXCEPT !.timer = "set"] ELSE v

\* The reconnect timer; connect() clears what the attempt before it held.
ReconnectTimer ==
  /\ voice.timer = "set"
  /\ IF voice.auto = "yes" /\ voice.connection = None
     THEN /\ voice' = [voice EXCEPT !.timer = "none", !.pending = None, !.watched = None, !.dropWait = "no"]
          /\ staleCalls' = Superseded
          /\ attempt' = Resolving
     ELSE /\ voice' = [voice EXCEPT !.timer = "none"]
          /\ UNCHANGED <<staleCalls, attempt>>
  /\ UNCHANGED <<linkStatus, sound, voiceUpsets, badChannel, orphanKilled>>

---------------------------------------------------------------------------
(* connect() after its first await.                                        *)

\* The library's answer to a join: the live connection, or a new one.
Joined == IF Alive # {} THEN CHOOSE c \in Alive : TRUE
          ELSE CHOOSE c \in Connections : c \notin Referenced

\* resolveVoiceChannel succeeds; joinVoiceChannel and setupConnectionHandlers.
joinVoiceChannel ==
  /\ attempt = Resolving
  /\ Alive # {} \/ Connections \ Referenced # {}
  /\ linkStatus' = [linkStatus EXCEPT ![Joined] = IF @ \in {"ready", "recovering"} THEN @ ELSE "joining"]
  /\ voice' = [voice EXCEPT !.pending = Joined, !.watched = Joined]
  /\ attempt' = [pc |-> "waiting", conn |-> Joined]
  /\ UNCHANGED <<staleCalls, sound, voiceUpsets, badChannel, orphanKilled>>

\* handleConnectFailure of the current attempt before it joined anything.
ResolveFails ==
  /\ VoiceUpset
  /\ attempt = Resolving
  /\ attempt' = NoAttempt
  /\ \E permanent \in {"yes", "no"} :
       /\ voice' = IF permanent = "yes" THEN [voice EXCEPT !.pending = None]
                   ELSE scheduleReconnect([voice EXCEPT !.pending = None])
       /\ badChannel' = permanent
  /\ UNCHANGED <<staleCalls, linkStatus, sound, orphanKilled>>

\* Ready: the attempt's connection becomes the guild's.
Promote ==
  /\ attempt.pc = "waiting"
  /\ linkStatus[attempt.conn] = "ready"
  /\ voice' = [voice EXCEPT !.pending = None, !.connection = attempt.conn, !.timer = "none"]
  /\ attempt' = NoAttempt
  /\ UNCHANGED <<staleCalls, linkStatus, sound, voiceUpsets, badChannel, orphanKilled>>

\* No Ready in 30 s: cleanupFailedConnect.  At this point no connection has been promoted.
ReadyTimesOut ==
  /\ attempt.pc = "waiting"
  /\ linkStatus[attempt.conn] # "ready"
  /\ IF linkStatus[attempt.conn] \in {"joining", "recovering"} THEN VoiceUpset ELSE UNCHANGED voiceUpsets
  /\ linkStatus' = Destroyed(attempt.conn)
  /\ voice' = scheduleReconnect([voice EXCEPT !.pending = None])
  /\ attempt' = NoAttempt
  /\ UNCHANGED <<staleCalls, sound, badChannel, orphanKilled>>

\* Mistake: a superseded attempt's connection is kept only for a newer attempt that still waits.
UsedByAttemptOnly(call) == call.orphan = "no" /\ call.conn = voice.pending

\* What releaseStaleConnection keeps: the connections of the state the call belongs to.
StillUsed(call) == call.orphan = "no" /\ call.conn \in {voice.connection, voice.pending}

\* A superseded attempt sees Ready, or its time is up.
releaseStaleConnection(call) ==
  /\ linkStatus' = IF StillUsed(call) THEN linkStatus ELSE Destroyed(call.conn)
  /\ orphanKilled' = IF call.orphan = "yes" /\ call.conn \in {voice.connection, attempt.conn}
                        /\ call.conn \in Alive
                     THEN "yes" ELSE orphanKilled
  /\ staleCalls' = staleCalls \ {call}
  /\ UNCHANGED <<voice, attempt, sound, voiceUpsets, badChannel>>

---------------------------------------------------------------------------
(* The connection's own events.                                            *)

LinkReady(c) ==
  /\ linkStatus[c] \in {"joining", "recovering"}
  /\ linkStatus' = [linkStatus EXCEPT ![c] = "ready"]
  /\ UNCHANGED <<voice, attempt, staleCalls, sound, voiceUpsets, badChannel, orphanKilled>>

\* Disconnected: only the current attempt's handler is not stale.
LinkDrops(c) ==
  /\ VoiceUpset
  /\ linkStatus[c] \in {"joining", "recovering", "ready"}
  /\ linkStatus' = [linkStatus EXCEPT ![c] = "dropped"]
  /\ voice' = IF voice.watched = c /\ voice.connection \in {None, c}
              THEN [voice EXCEPT !.dropWait = "yes"] ELSE voice
  /\ UNCHANGED <<attempt, staleCalls, sound, badChannel, orphanKilled>>

\* The library begins to reconnect within the five seconds, and handleDisconnected returns.
LinkRecovers(c) ==
  /\ linkStatus[c] = "dropped"
  /\ linkStatus' = [linkStatus EXCEPT ![c] = "recovering"]
  /\ voice' = IF voice.watched = c THEN [voice EXCEPT !.dropWait = "no"] ELSE voice
  /\ UNCHANGED <<attempt, staleCalls, sound, voiceUpsets, badChannel, orphanKilled>>

TornDown(v) == [v EXCEPT !.playing = "no"]

\* Five seconds without one: destroy, forget, tearDown, scheduleReconnect, unless someone destroyed it.
handleDisconnected ==
  /\ voice.dropWait = "yes"
  /\ linkStatus[voice.watched] \in {"dropped", "destroyed"}
  /\ linkStatus' = Destroyed(voice.watched)
  /\ LET over == [voice EXCEPT !.dropWait = "no"] IN
     voice' = IF linkStatus[voice.watched] = "destroyed" THEN over
              ELSE scheduleReconnect(TornDown(
                     [over EXCEPT !.connection = IF @ = voice.watched THEN None ELSE @]))
  /\ UNCHANGED <<attempt, staleCalls, sound, voiceUpsets, badChannel, orphanKilled>>

---------------------------------------------------------------------------
(* Sounds.                                                                 *)

isReady == voice.connection # None /\ linkStatus[voice.connection] = "ready"

\* Mistake: playFile looks at the connection only once.
NotLookedAtAgain == TRUE

CheckedAgain == isReady

\* playFile up to the file system's answers.
PlayFile ==
  /\ sound = "none"
  /\ isReady
  /\ sound' = "reading"
  /\ UNCHANGED <<voice, attempt, staleCalls, linkStatus, voiceUpsets, badChannel, orphanKilled>>

startPlayback ==
  /\ sound = "reading"
  /\ sound' = "none"
  /\ voice' = IF CheckedAgain THEN [voice EXCEPT !.playing = "yes"] ELSE voice
  /\ UNCHANGED <<attempt, staleCalls, linkStatus, voiceUpsets, badChannel, orphanKilled>>

\* The player's Idle or error event.
PlayerIdle ==
  /\ voice.playing = "yes"
  /\ voice' = [voice EXCEPT !.playing = "no"]
  /\ UNCHANGED <<attempt, staleCalls, linkStatus, sound, voiceUpsets, badChannel, orphanKilled>>

---------------------------------------------------------------------------

AttemptEnds == joinVoiceChannel \/ Promote \/ ReadyTimesOut
StaleEnds == \E call \in staleCalls : releaseStaleConnection(call)
LinkSettles == \E c \in Connections : LinkReady(c)

VoiceNext ==
  \/ Join \/ disconnectGuild \/ forgetGuild \/ ReconnectTimer
  \/ AttemptEnds \/ ResolveFails \/ StaleEnds
  \/ LinkSettles \/ handleDisconnected
  \/ \E c \in Connections : LinkDrops(c) \/ LinkRecovers(c)
  \/ PlayFile \/ startPlayback \/ PlayerIdle

VoiceInit ==
  /\ voice = [connection |-> None, pending |-> None, auto |-> "no", timer |-> "none",
              watched |-> None, dropWait |-> "no", playing |-> "no"]
  /\ attempt = NoAttempt
  /\ staleCalls = {}
  /\ linkStatus = [c \in Connections |-> "free"]
  /\ sound = "none"
  /\ voiceUpsets = 0
  /\ badChannel = "no"
  /\ orphanKilled = "no"

---------------------------------------------------------------------------

\* What the guild's state and the library can hold.
VoiceTypeOK ==
  LET Refs == Connections \cup {None} IN
  /\ voice \in [connection : Refs, pending : Refs, auto : {"yes", "no"}, timer : {"set", "none"},
                watched : Refs, dropWait : {"yes", "no"}, playing : {"yes", "no"}]
  /\ attempt \in [pc : {"none", "resolving", "waiting"}, conn : Refs]
  /\ staleCalls \subseteq [conn : Connections, orphan : {"yes", "no"}]
  /\ linkStatus \in [Connections -> {"free", "joining", "ready", "dropped", "recovering", "destroyed"}]
  /\ sound \in {"none", "reading"}
  /\ voiceUpsets \in 0 .. MaxVoiceUpsets

\* The guild's connection is never one that was destroyed, a live connection is always known to
\* the state or to a call that will release it, and a sound counts as playing only while a
\* connection is held, so that a guild is not busy for ever.  Except after the attempt of a
\* forgotten guild has destroyed a newer state's connection.
VoiceHoldsTogether ==
  orphanKilled = "no" =>
    /\ voice.connection # None => voice.connection \in Alive
    /\ Alive \subseteq Referenced
    /\ voice.playing = "yes" => voice.connection # None

\* When joins, leaves, failures and drops end, the bot is in voice if that is what was last asked,
\* unless the channel was refused for good, and has left it otherwise.
InVoiceAsAsked ==
  orphanKilled = "no" =>
    /\ voice.auto = "yes" /\ badChannel = "no" => isReady
    /\ voice.auto = "no" => Alive = {}
=============================================================================
