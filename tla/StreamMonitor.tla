---------------------------- MODULE StreamMonitor ----------------------------
(***************************************************************************)
(* The stream monitor of one streamer in one group: twitch/monitor/.  The  *)
(* poll loop, the checks EventSub asks for, the offline check at the end   *)
(* of the grace period and the startup pass run one at a time, behind the  *)
(* login's lock; one that times out goes on behind the next one's back.    *)
(* They keep one announcement on Discord, in liveStates and in the         *)
(* streamer's row in step with the stream.  Edits that only refresh an     *)
(* announcement (title, MultiTwitch links) are left out.                   *)
(***************************************************************************)
EXTENDS Integers, Sequences, FiniteSets

CONSTANTS
  Games,       \* what the stream can be playing
  Messages,    \* ids of Discord messages, used again when nothing holds one
  MaxWaiting,  \* operations waiting for the login's lock
  MaxUpsets,   \* stream changes, failures, timeouts, crashes and restarts
  NoGame,      \* the stream is offline
  NoMessage

VARIABLES
  stream,   \* Twitch: the game being streamed, or NoGame
  board,    \* Discord: the announcements that exist
  row,      \* the streamer's discord_message_id
  state,    \* liveStates' entry
  phase,    \* of startTwitchMonitor and restartTwitchMonitor
  loaded,   \* streamersData: the message id the start loaded
  fetching, \* getStreams calls under way, before the lock is asked for
  waiting,  \* the lock's queue
  running,  \* the operation that has it
  late,     \* an operation that has timed out and goes on
  excused,  \* history: messages a failure, a crash or a race is known to leave
  escaped,  \* history: whether a check EventSub asked for has timed out
  upsets

monitorVars == <<stream, board, row, state, phase, loaded, fetching, waiting, running, late,
                 excused, escaped, upsets>>

Posted == Messages \cup {NoMessage}
Playing == Games \cup {NoGame}
Objects == 1 .. 3

\* A LiveState; obj tells one object from the next.  "due" is a timer that has
\* fired and is cleared when its check ends.
NoState == [obj |-> 0, msg |-> NoMessage, game |-> NoGame, timer |-> "off"]
States == [obj : Objects, msg : Posted, game : Games, timer : {"off", "armed", "due"}]
          \cup {NoState}

Phases == {"down", "teardown", "load", "users", "streams", "settle", "running"}

\* An operation: sees is what its getStreams call returned, msg the message it
\* works on, old one it is to delete, owned the offline timer it saw, obj the
\* LiveState it holds; isCurrent is said of it until the next one starts.
NoOp == [kind |-> "none", pc |-> "done", sees |-> NoGame, msg |-> NoMessage, old |-> NoMessage,
         owned |-> "off", obj |-> 0, current |-> "yes"]
Ops == [kind : {"none", "poll", "immediate", "offline", "startup"},
        pc : {"begin", "post", "sent", "discard", "persist", "edit", "repost", "reposted", "drop",
              "fetch", "delete", "clear", "forget", "startEdit", "startPersist", "startDelete",
              "startClear", "done"},
        sees : Playing, msg : Posted, old : Posted, owned : {"off", "armed", "due"},
        obj : Objects \cup {0}, current : {"yes", "no"}]

Op(kind, sees) == [NoOp EXCEPT !.kind = kind, !.pc = "begin", !.sees = sees]

Queued == {waiting[i] : i \in DOMAIN waiting}

\* loginToUserId has the login.
Known == phase \notin {"down", "load", "users"}

Upset == upsets < MaxUpsets /\ upsets' = upsets + 1

\* Names that nothing refers to any more.
FreshMessage == CHOOSE m \in Messages \cup {NoMessage} :
  LET used == board \cup {row, state.msg, loaded, running.msg, running.old, late.msg, late.old}
                \cup {o.msg : o \in Queued} \cup {o.old : o \in Queued}
  IN  IF Messages \subseteq used THEN m = NoMessage ELSE m \in Messages \ used
FreshObject == CHOOSE o \in Objects : o \notin {state.obj, running.obj, late.obj}

---------------------------------------------------------------------------
(* The lock: withLoginLock *)

\* What is decided in a step of operation o: it becomes o2, in the slot it is in.
Becomes(slot, o2) ==
  LET o3 == IF o2.pc = "done" THEN NoOp ELSE o2 IN
  \/ slot = "running" /\ running' = o3 /\ UNCHANGED late
  \/ slot = "late" /\ late' = o3 /\ UNCHANGED running

The(slot) == IF slot = "running" THEN running ELSE late
Slots == {"running", "late"}

\* triggerImmediateLiveCheck gives handlePollStreamer no isCurrent: it is never
\* superseded.
Superseded(o) == o.current = "no" /\ o.kind # "immediate"

Start ==
  /\ running = NoOp
  /\ waiting # <<>>
  /\ running' = Head(waiting)
  /\ waiting' = Tail(waiting)
  /\ late' = IF late = NoOp THEN NoOp ELSE [late EXCEPT !.current = "no"]
  /\ UNCHANGED <<stream, board, row, state, phase, loaded, fetching, excused, escaped, upsets>>

\* LOGIN_LOCK_TIMEOUT_MS.  Only the startup pass knows of the message it took over.
LoginLockTimesOut ==
  /\ running # NoOp /\ running.pc # "begin"
  /\ late = NoOp
  /\ late' = running
  /\ running' = NoOp
  /\ Upset
  /\ escaped' = IF running.kind = "immediate" THEN "yes" ELSE escaped
  /\ excused' = IF running.kind = "startup" THEN excused \cup ({running.msg} \ {NoMessage}) ELSE excused
  /\ UNCHANGED <<stream, board, row, state, phase, loaded, fetching, waiting>>

At(slot, pc) == The(slot).pc = pc
Step(slot, pc) == Becomes(slot, [The(slot) EXCEPT !.pc = pc])

\* What most steps of an operation leave alone.
Rest == UNCHANGED <<stream, phase, loaded, fetching, waiting, escaped>>
Quiet == UNCHANGED <<excused, upsets>>

---------------------------------------------------------------------------
(* handlePollStreamer *)

Seen == running.sees
Polls == running.kind \in {"poll", "immediate"} /\ running.pc = "begin"

\* A restart has forgotten the login meanwhile.
CheckForgotten ==
  /\ Polls
  /\ ~Known
  /\ Step("running", "done")
  /\ UNCHANGED <<board, row, state>> /\ Rest /\ Quiet

\* Live, and without a message: announce it.
handleLiveStreamer ==
  LET timed == IF state = NoState THEN NoState ELSE [state EXCEPT !.timer = "off"] IN
  /\ Polls /\ Known
  /\ Seen # NoGame
  /\ \/ /\ state.msg = NoMessage
        /\ Step("running", "post")
        /\ state' = timed
     \/ /\ state.msg # NoMessage /\ state.game # Seen
        /\ Becomes("running", [running EXCEPT !.pc = "edit", !.obj = state.obj])
        /\ state' = [timed EXCEPT !.game = Seen]
     \/ /\ state.msg # NoMessage /\ state.game = Seen
        /\ Step("running", "done")
        /\ state' = timed
  /\ UNCHANGED <<board, row>> /\ Rest /\ Quiet

\* Mistake: the timer is set for a stream that was never seen live.
OfflineWithoutState ==
  /\ Polls /\ Known
  /\ Seen = NoGame
  /\ state' = [state EXCEPT !.timer = "armed"]
  /\ Step("running", "done")
  /\ UNCHANGED <<board, row>> /\ Rest /\ Quiet

\* Offline: the grace period starts, unless its timer is set already.
handleStreamOffline ==
  /\ Polls /\ Known
  /\ Seen = NoGame
  /\ state' = IF state # NoState /\ state.timer = "off" THEN [state EXCEPT !.timer = "armed"] ELSE state
  /\ Step("running", "done")
  /\ UNCHANGED <<board, row>> /\ Rest /\ Quiet

---------------------------------------------------------------------------
(* postAnnouncement *)

\* The announcements that the startup pass forgets when it records its own: it does
\* not look for any.
Forgotten(o) == IF o.kind = "startup" THEN {state.msg, row} \ {NoMessage, o.msg} ELSE {}

\* There is no Discord client yet: live, without a message.
PostWithoutClient ==
  /\ running.pc = "post"
  /\ Upset
  /\ state' = [obj |-> FreshObject, msg |-> NoMessage, game |-> Seen, timer |-> "off"]
  /\ excused' = excused \cup Forgotten(running)
  /\ Step("running", "done")
  /\ UNCHANGED <<board, row>> /\ Rest

\* The channel is resolved and the message sent.
Post(slot) ==
  LET o == The(slot) IN
  /\ o.pc = "post"
  /\ IF Superseded(o)
       THEN Step(slot, "done") /\ UNCHANGED board
       ELSE /\ FreshMessage # NoMessage
            /\ board' = board \cup {FreshMessage}
            /\ Becomes(slot, [o EXCEPT !.pc = "sent", !.msg = FreshMessage])
  /\ UNCHANGED <<row, state>> /\ Rest /\ Quiet

\* Discord refuses the message, or takes it and the reply is lost.
PostFails(slot) ==
  /\ The(slot).pc \in {"post", "repost"}
  /\ Upset
  /\ \/ UNCHANGED <<board, excused>>
     \/ /\ FreshMessage # NoMessage
        /\ board' = board \cup {FreshMessage}
        /\ excused' = excused \cup {FreshMessage}
  /\ Step(slot, "done")
  /\ UNCHANGED <<row, state>> /\ Rest

\* The message is there: recorded, or taken back by an operation superseded.
Posts(slot) ==
  LET o == The(slot)
      next == [obj |-> FreshObject, msg |-> o.msg, game |-> o.sees, timer |-> "off"]
  IN  /\ o.pc = "sent"
      /\ IF Superseded(o)
           THEN Step(slot, "discard") /\ UNCHANGED <<state, excused>>
           ELSE /\ state' = next
                /\ excused' = excused \cup Forgotten(o)
                /\ Becomes(slot, [o EXCEPT !.pc = "persist", !.obj = next.obj])
      /\ UNCHANGED <<board, row, upsets>> /\ Rest

\* Mistake: the superseded operation leaves its message there.
LeavesSuperseded(slot) ==
  /\ At(slot, "discard")
  /\ Step(slot, "done")
  /\ UNCHANGED <<board, row, state>> /\ Rest /\ Quiet

discardSupersededMessage(slot) ==
  LET o == The(slot) IN
  /\ o.pc = "discard"
  /\ \/ board' = board \ {o.msg} /\ UNCHANGED <<excused, upsets>>
     \/ Upset /\ excused' = excused \cup {o.msg} /\ UNCHANGED board
  /\ Step(slot, "done")
  /\ UNCHANGED <<row, state>> /\ Rest

\* persistStreamerLive: the write is skipped when superseded by its turn.
persistStreamerLive(slot) ==
  LET o == The(slot) IN
  /\ o.pc = "persist"
  /\ \/ ~Superseded(o) /\ row' = o.msg /\ UNCHANGED <<excused, upsets>>
     \/ Superseded(o) /\ excused' = excused \cup {o.msg} /\ UNCHANGED <<row, upsets>>
     \/ Upset /\ excused' = excused \cup {o.msg} /\ UNCHANGED row
  /\ Step(slot, "done")
  /\ UNCHANGED <<board, state>> /\ Rest

---------------------------------------------------------------------------
(* editAnnouncement: another game *)

\* With delete_old_posts a new message replaces the old one; otherwise the old
\* one is edited, or posted again if it is gone.
publishEditedAnnouncement(slot) ==
  LET o == The(slot)
      held == IF state.obj = o.obj THEN state.msg ELSE NoMessage
  IN  /\ o.pc = "edit"
      /\ IF Superseded(o) \/ held = NoMessage
           THEN Step(slot, "done")
           ELSE \/ Becomes(slot, [o EXCEPT !.pc = "repost", !.old = held])
                \/ /\ held \in board
                   /\ Becomes(slot, [o EXCEPT !.pc = "persist", !.msg = held])
                \/ /\ held \notin board
                   /\ Step(slot, "repost")
      /\ UNCHANGED <<board, row, state>> /\ Rest /\ Quiet

EditFails(slot) ==
  /\ The(slot).pc = "edit"
  /\ Upset
  /\ Step(slot, "done")
  /\ UNCHANGED <<board, row, state, excused>> /\ Rest

Repost(slot) ==
  LET o == The(slot) IN
  /\ o.pc = "repost"
  /\ FreshMessage # NoMessage
  /\ board' = board \cup {FreshMessage}
  /\ Becomes(slot, [o EXCEPT !.pc = "reposted", !.msg = FreshMessage])
  /\ UNCHANGED <<row, state>> /\ Rest /\ Quiet

\* The LiveState that is edited may no longer be the one in liveStates.
Reposts(slot) ==
  LET o == The(slot)
      stale == ~Superseded(o) /\ state.obj # o.obj
  IN  /\ o.pc = "reposted"
      /\ IF Superseded(o) THEN Step(slot, "discard")
         ELSE Step(slot, IF o.old = NoMessage THEN "persist" ELSE "drop")
      /\ state' = IF Superseded(o) \/ stale THEN state ELSE [state EXCEPT !.msg = o.msg]
      /\ excused' = IF stale THEN excused \cup {o.msg} ELSE excused
      /\ UNCHANGED <<board, row, upsets>> /\ Rest

\* The old message is deleted, as well as it goes.
DropOld(slot) ==
  LET o == The(slot) IN
  /\ o.pc = "drop"
  /\ \/ board' = board \ {o.old} /\ UNCHANGED <<excused, upsets>>
     \/ Upset /\ excused' = excused \cup {o.old} /\ UNCHANGED board
  /\ Becomes(slot, [o EXCEPT !.pc = "persist", !.old = NoMessage])
  /\ UNCHANGED <<row, state>> /\ Rest

---------------------------------------------------------------------------
(* runOfflineCheck, deleteAnnouncement *)

OfflineTimerFires ==
  /\ state.timer = "armed"
  /\ Len(waiting) < MaxWaiting
  /\ state' = [state EXCEPT !.timer = "due"]
  /\ waiting' = Append(waiting, Op("offline", NoGame))
  /\ UNCHANGED <<stream, board, row, phase, loaded, fetching, running, late, excused, escaped, upsets>>

OfflineCheckBegins ==
  /\ running.kind \in {"offline", "none"} /\ running.pc = "begin"
  /\ IF running.kind = "none" \/ state = NoState \/ ~Known
       THEN Step("running", "done")
       ELSE Becomes("running", [running EXCEPT !.pc = "fetch", !.obj = state.obj, !.owned = state.timer])
  /\ UNCHANGED <<board, row, state>> /\ Rest /\ Quiet

\* Mistake: the timer is never cleared.
ReleasedNever(o, s) == s

\* The finally: a check clears the timer it found, not a newer one.  (A newer one
\* that it found already armed fires nevertheless; that extra check is left out.)
Released(o, s) == IF s.obj = o.obj /\ s.timer = o.owned THEN [s EXCEPT !.timer = "off"] ELSE s

\* getStreams answers: the stream is really offline, or the check is over.
OfflineCheckSees(slot) ==
  LET o == The(slot) IN
  /\ o.pc = "fetch"
  /\ IF stream = NoGame /\ ~Superseded(o)
       THEN IF state.msg = NoMessage
              THEN Step(slot, "done") /\ state' = NoState
              ELSE /\ Becomes(slot, [o EXCEPT !.pc = "delete", !.msg = state.msg])
                   /\ UNCHANGED state
       ELSE Step(slot, "done") /\ state' = Released(o, state)
  /\ UNCHANGED <<board, row>> /\ Rest /\ Quiet

OfflineCheckFails(slot) ==
  LET o == The(slot) IN
  /\ o.pc \in {"fetch", "clear"}
  /\ Upset
  /\ Step(slot, "done")
  /\ state' = Released(o, state)
  /\ UNCHANGED <<board, row, excused>> /\ Rest

deleteAnnouncement(slot) ==
  LET o == The(slot) IN
  /\ o.pc = "delete"
  /\ \/ board' = board \ {o.msg} /\ UNCHANGED <<excused, upsets>>
     \/ Upset /\ excused' = excused \cup {o.msg} /\ UNCHANGED board
  /\ Step(slot, "clear")
  /\ UNCHANGED <<row, state>> /\ Rest

\* clearStreamerLive: the row is cleared if it still holds the message.
clearStreamerLive(slot) ==
  LET o == The(slot) IN
  /\ o.pc = "clear"
  /\ IF Superseded(o)
       THEN Step(slot, "done") /\ state' = Released(o, state) /\ UNCHANGED row
       ELSE /\ row' = IF row = o.msg THEN NoMessage ELSE row
            /\ Step(slot, "forget")
            /\ UNCHANGED state
  /\ UNCHANGED board /\ Rest /\ Quiet

Forget(slot) ==
  LET o == The(slot) IN
  /\ o.pc = "forget"
  /\ state' = IF Superseded(o) THEN Released(o, state) ELSE NoState
  /\ Step(slot, "done")
  /\ UNCHANGED <<board, row>> /\ Rest /\ Quiet

---------------------------------------------------------------------------
(* performStartupLiveCheck *)

StartupBegins ==
  /\ running.kind = "startup" /\ running.pc = "begin"
  /\ Step("running", IF Seen = NoGame THEN "startDelete"
                     ELSE IF running.msg = NoMessage THEN "post" ELSE "startEdit")
  /\ UNCHANGED <<board, row, state>> /\ Rest /\ Quiet

Resumed(o) == [obj |-> FreshObject, msg |-> o.msg, game |-> o.sees, timer |-> "off"]

\* The message of the last run is edited and taken over, or gone and posted again.
tryEditStartupMessage(slot) ==
  LET o == The(slot) IN
  /\ o.pc = "startEdit"
  /\ IF Superseded(o) \/ o.msg \notin board
       THEN Becomes(slot, [o EXCEPT !.pc = "post", !.msg = NoMessage]) /\ UNCHANGED <<state, excused>>
       ELSE Step(slot, "startPersist") /\ state' = Resumed(o) /\ excused' = excused \cup Forgotten(o)
  /\ UNCHANGED <<board, row, upsets>> /\ Rest

StartupEditFails(slot) ==
  LET o == The(slot) IN
  /\ o.pc \in {"startEdit", "startPersist"}
  /\ Upset
  /\ IF Superseded(o) THEN UNCHANGED <<state, excused>>
     ELSE state' = Resumed(o) /\ excused' = excused \cup Forgotten(o) \cup ({o.msg} \ {row})
  /\ Step(slot, "done")
  /\ UNCHANGED <<board, row>> /\ Rest

\* setStreamerLive without a look at isCurrent.
StartupPersists(slot) ==
  LET o == The(slot) IN
  /\ o.pc = "startPersist"
  /\ row' = o.msg
  /\ excused' = excused \cup Forgotten(o)
  /\ Step(slot, "done")
  /\ UNCHANGED <<board, state, upsets>> /\ Rest

handleOfflineStreamerOnStartup(slot) ==
  LET o == The(slot) IN
  /\ o.pc = "startDelete"
  /\ \/ board' = board \ {o.msg} /\ Step(slot, "startClear") /\ UNCHANGED <<upsets, excused>>
     \/ Upset /\ excused' = excused \cup {o.msg} /\ Step(slot, "done") /\ UNCHANGED board
  /\ UNCHANGED <<row, state>> /\ Rest

StartupClears(slot) ==
  LET o == The(slot) IN
  /\ o.pc = "startClear"
  /\ \/ row' = (IF ~Superseded(o) /\ row = o.msg THEN NoMessage ELSE row) /\ UNCHANGED upsets
     \/ Upset /\ UNCHANGED row
  /\ Step(slot, "done")
  /\ UNCHANGED <<board, state, excused>> /\ Rest

---------------------------------------------------------------------------
(* Polls, EventSub's checks, start and restart *)

PollRunning == "poll" \in fetching \/ running.kind = "poll" \/ \E o \in Queued : o.kind = "poll"
Settling == running.kind = "startup" \/ \E o \in Queued : o.kind = "startup"

PollTimerFires ==
  /\ phase = "running"
  /\ ~PollRunning
  /\ fetching' = fetching \cup {"poll"}
  /\ UNCHANGED <<stream, board, row, state, phase, loaded, waiting, running, late, excused, escaped, upsets>>

\* EventSub: stream.online, stream.offline or channel.update.
triggerImmediateLiveCheck ==
  /\ Known
  /\ "immediate" \notin fetching
  /\ Upset
  /\ fetching' = fetching \cup {"immediate"}
  /\ UNCHANGED <<stream, board, row, state, phase, loaded, waiting, running, late, excused, escaped>>

\* getStreams answers.
Fetched(kind) ==
  /\ kind \in fetching
  /\ Len(waiting) < MaxWaiting
  /\ fetching' = fetching \ {kind}
  /\ waiting' = Append(waiting, Op(kind, stream))
  /\ UNCHANGED <<stream, board, row, state, phase, loaded, running, late, excused, escaped, upsets>>

FetchFails(kind) ==
  /\ kind \in fetching
  /\ Upset
  /\ fetching' = fetching \ {kind}
  /\ UNCHANGED <<stream, board, row, state, phase, loaded, waiting, running, late, excused, escaped>>

restartTwitchMonitor ==
  /\ phase \in {"running", "down"}
  /\ Upset
  /\ phase' = IF phase = "down" THEN "load" ELSE "teardown"
  /\ UNCHANGED <<stream, board, row, state, loaded, fetching, waiting, running, late, excused, escaped>>

\* The poll under way is awaited, other operations are not.  An offline check that
\* waits keeps its turn and will find its map of logins empty: kind "none".
Teardown ==
  /\ phase = "teardown"
  /\ ~PollRunning
  /\ phase' = "load"
  /\ state' = NoState
  /\ waiting' = [i \in DOMAIN waiting |->
       IF waiting[i].kind = "offline" THEN [waiting[i] EXCEPT !.kind = "none"] ELSE waiting[i]]
  /\ UNCHANGED <<stream, board, row, loaded, fetching, running, late, excused, escaped, upsets>>

\* startTwitchMonitor: the rows, the user ids, the streams, the startup pass.  All
\* it knows of earlier announcements is the row.
LoadStreamers ==
  /\ phase = "load"
  /\ phase' = "users"
  /\ loaded' = row
  /\ excused' = excused \cup (board \ {row})
  /\ UNCHANGED <<stream, board, row, state, fetching, waiting, running, late, escaped, upsets>>

GetUsers ==
  /\ phase = "users"
  /\ phase' = "streams"
  /\ UNCHANGED <<stream, board, row, state, loaded, fetching, waiting, running, late, excused, escaped, upsets>>

performStartupLiveCheck ==
  /\ phase = "streams"
  /\ Len(waiting) < MaxWaiting
  /\ phase' = "settle"
  /\ loaded' = NoMessage
  /\ \/ waiting' = (IF stream = NoGame /\ loaded = NoMessage THEN waiting
                    ELSE Append(waiting, [Op("startup", stream) EXCEPT !.msg = loaded]))
        /\ UNCHANGED <<upsets, excused>>
     \/ Upset /\ excused' = excused \cup ({loaded} \ {NoMessage}) /\ UNCHANGED waiting
  /\ UNCHANGED <<stream, board, row, state, fetching, running, late, escaped>>

PollingStarts ==
  /\ phase = "settle"
  /\ ~Settling
  /\ phase' = "running"
  /\ UNCHANGED <<stream, board, row, state, loaded, fetching, waiting, running, late, excused, escaped, upsets>>

\* Rows or user ids cannot be loaded: the monitor stays down.
StartFails ==
  /\ phase \in {"load", "users"}
  /\ Upset
  /\ phase' = "down"
  /\ UNCHANGED <<stream, board, row, state, loaded, fetching, waiting, running, late, excused, escaped>>

\* The process is gone and started again; a message it has just sent stays.
Crash ==
  /\ Upset
  /\ phase' = "load"
  /\ state' = NoState
  /\ loaded' = NoMessage
  /\ fetching' = {}
  /\ waiting' = <<>>
  /\ running' = NoOp
  /\ late' = NoOp
  /\ excused' = excused \cup (board \ {row})
  /\ UNCHANGED <<stream, board, row, escaped>>

StreamChanges ==
  /\ Upset
  /\ stream' \in Playing \ {stream}
  /\ UNCHANGED <<board, row, state, phase, loaded, fetching, waiting, running, late, excused, escaped>>

---------------------------------------------------------------------------

Init ==
  /\ stream \in Playing
  /\ board = {} /\ row = NoMessage /\ state = NoState
  /\ phase = "load" /\ loaded = NoMessage /\ fetching = {}
  /\ waiting = <<>> /\ running = NoOp /\ late = NoOp
  /\ excused = {} /\ escaped = "no" /\ upsets = 0

Works(slot) ==
  \/ Post(slot) \/ PostFails(slot) \/ Posts(slot) \/ discardSupersededMessage(slot)
  \/ persistStreamerLive(slot) \/ publishEditedAnnouncement(slot) \/ EditFails(slot)
  \/ Repost(slot) \/ Reposts(slot) \/ DropOld(slot)
  \/ OfflineCheckSees(slot) \/ OfflineCheckFails(slot) \/ deleteAnnouncement(slot)
  \/ clearStreamerLive(slot) \/ Forget(slot)
  \/ tryEditStartupMessage(slot) \/ StartupEditFails(slot) \/ StartupPersists(slot)
  \/ handleOfflineStreamerOnStartup(slot) \/ StartupClears(slot)

Begins == CheckForgotten \/ handleLiveStreamer \/ handleStreamOffline \/ OfflineCheckBegins \/ StartupBegins

Next ==
  \/ Start \/ Begins \/ PostWithoutClient \/ LoginLockTimesOut \/ OfflineTimerFires
  \/ \E slot \in Slots : Works(slot)
  \/ PollTimerFires \/ triggerImmediateLiveCheck
  \/ \E kind \in {"poll", "immediate"} : Fetched(kind) \/ FetchFails(kind)
  \/ restartTwitchMonitor \/ Teardown \/ LoadStreamers \/ GetUsers
  \/ performStartupLiveCheck \/ PollingStarts \/ StartFails \/ Crash \/ StreamChanges

\* startTwitchMonitor, and the teardown before a restart's start
StartGoesOn == Teardown \/ LoadStreamers \/ GetUsers \/ performStartupLiveCheck \/ PollingStarts

TypeOK ==
  /\ stream \in Playing /\ board \subseteq Messages /\ row \in Posted /\ loaded \in Posted
  /\ state \in States /\ phase \in Phases /\ fetching \subseteq {"poll", "immediate"}
  /\ \A o \in Queued \cup {running, late} : o \in Ops
  /\ excused \subseteq Messages /\ escaped \in {"yes", "no"} /\ upsets \in 0 .. MaxUpsets

\* The messages the program still knows of.
Tracked == {state.msg, row, loaded, running.msg, running.old, late.msg, late.old}
             \cup {o.msg : o \in Queued}

\* Whatever is superseded, the monitor loses no announcement of its own accord: one
\* it no longer knows of was left by a failed call, a write that was skipped, a
\* start that loaded the row before it was written, or the startup pass.  It holds
\* as long as no check of EventSub's times out, which goes on as if it had not.
NoOrphan == escaped = "no" => board \subseteq Tracked \cup excused

\* When the stream stays as it is, the monitor comes to say so and goes on
\* saying so: live with an announcement, offline without one.
InStep == phase = "running" => (stream # NoGame) = (state.msg # NoMessage)

=============================================================================
