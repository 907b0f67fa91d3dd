----------------------------- MODULE ChatTimers -----------------------------
(***************************************************************************)
(* Timed chat messages: the scheduler's tick, which picks the rows that    *)
(* are due under the Shared Chat cooldown and the spacing of a channel,    *)
(* reserves before it posts and gives a reservation back when the post     *)
(* fails; and the writes to the timers, a streamer's own under row locks.  *)
(*                                                                         *)
(* A row is a timer in a streamer's channel.  Time is counted in ticks of  *)
(* the scheduler and a post counts at its tick's time, which is what the   *)
(* code records.  The live and message-count gates are left open: whether  *)
(* a gated row passes them is any choice at any tick.  So are the Shared   *)
(* Chat sessions, read through a cache whose lookups may fail.             *)
(***************************************************************************)
EXTENDS Naturals, FiniteSets

CONSTANTS
  Timers,
  TimerChannels,
  Sessions,          \* Shared Chat sessions
  Interval,          \* interval_seconds of each timer
  SPACING,           \* CHANNEL_MIN_SPACING_MS
  Gated,             \* timers with require_live or min_messages
  InitiallyAssigned, \* assignees of each timer at first
  MaxTimerUpsets     \* writes, failed posts and failed reads

VARIABLES
  timerRows,     \* timer_command: "off", "on", or "none" when there is no such row
  assignedTo,    \* timer_command_streamer, each streamer named by their channel
  ownWrite,      \* the streamer's own write under way
  sinceFire,     \* timerState[..].lastFiredAt: ticks ago, or NotSeeded
  sessionFire,   \* commandSessionLastFiredAt: ticks ago, or Never
  floor,         \* channelLastFiredAt
  timerTick,     \* the tick under way: what it still has to post
  lastPost,      \* history: the last post in each channel that succeeded
  sessionPost,   \* history: ticks since a timer's last post in a session
  timerUpsets

timerTables == <<timerRows, assignedTo, ownWrite>>
timerMemory == <<sinceFire, sessionFire, floor>>
timerHistory == <<lastPost, sessionPost>>
timerVars == <<timerTables, timerMemory, timerTick, timerHistory, timerUpsets>>

Rows == Timers \X TimerChannels
Longest == CHOOSE n \in {Interval[t] : t \in Timers} \cup {SPACING} :
             \A m \in {Interval[t] : t \in Timers} \cup {SPACING} : n >= m
Ages == 0 .. Longest
Never == Longest       \* an entry this old restricts nothing
NotSeeded == Longest + 1
NoFloor == [timer |-> 0, age |-> Never]
NoPost == [timer |-> 0, age |-> Never, undone |-> FALSE]
NoTick == [pc |-> "idle", picks |-> {}]
NoOwnWrite == [timer |-> 0, by |-> "none", write |-> "none"]

Older(age) == IF age < Longest THEN age + 1 ELSE age

TimerUpset == timerUpsets < MaxTimerUpsets /\ timerUpsets' = timerUpsets + 1

---------------------------------------------------------------------------
(* Writes to the timers.  A streamer's own write holds the timer's row and *)
(* its assignments, and every other write to that timer waits for it.      *)

\* Mistake: the assignment rows are read without FOR UPDATE.
AlwaysUnlocked(t) == TRUE

Unlocked(t) == ownWrite.timer # t

addTimerCommand(t) ==
  /\ TimerUpset
  /\ timerRows[t] = "none"
  /\ \E enabled \in {"on", "off"} : timerRows' = [timerRows EXCEPT ![t] = enabled]
  /\ UNCHANGED <<assignedTo, ownWrite, timerMemory, timerTick, timerHistory>>

setTimerCommandEnabled(t) ==
  /\ TimerUpset
  /\ Unlocked(t)
  /\ timerRows[t] # "none"
  /\ timerRows' = [timerRows EXCEPT ![t] = IF @ = "on" THEN "off" ELSE "on"]
  /\ UNCHANGED <<assignedTo, ownWrite, timerMemory, timerTick, timerHistory>>

assignUsersToTimer(t, channels) ==
  /\ TimerUpset
  /\ Unlocked(t)
  /\ timerRows[t] # "none"
  /\ assignedTo' = [assignedTo EXCEPT ![t] = @ \cup channels]
  /\ UNCHANGED <<timerRows, ownWrite, timerMemory, timerTick, timerHistory>>

unassignUserFromTimer(t, channel) ==
  /\ TimerUpset
  /\ Unlocked(t)
  /\ channel \in assignedTo[t]
  /\ assignedTo' = [assignedTo EXCEPT ![t] = @ \ {channel}]
  /\ UNCHANGED <<timerRows, ownWrite, timerMemory, timerTick, timerHistory>>

removeTimerCommand(t) ==
  /\ TimerUpset
  /\ Unlocked(t)
  /\ timerRows[t] # "none"
  /\ timerRows' = [timerRows EXCEPT ![t] = "none"]
  /\ assignedTo' = [assignedTo EXCEPT ![t] = {}]
  /\ UNCHANGED <<ownWrite, timerMemory, timerTick, timerHistory>>

\* discardOwnNewTimerCommand allows what is still unclaimed, the others what is the streamer's alone.
Allows(write, t, by) ==
  IF write = "discard" THEN assignedTo[t] \subseteq {by} ELSE assignedTo[t] = {by}

\* writeOwnedTimer up to its write; a timer that is gone or not theirs is refused.
LockOwned(t, by, write) ==
  /\ TimerUpset
  /\ ownWrite = NoOwnWrite
  /\ timerRows[t] # "none"
  /\ Allows(write, t, by)
  /\ ownWrite' = [timer |-> t, by |-> by, write |-> write]
  /\ UNCHANGED <<timerRows, assignedTo, timerMemory, timerTick, timerHistory>>

WriteOwned ==
  /\ ownWrite # NoOwnWrite
  /\ \/ /\ ownWrite.write = "toggle"
        /\ timerRows' = [timerRows EXCEPT ![ownWrite.timer] = IF @ = "on" THEN "off" ELSE "on"]
        /\ UNCHANGED assignedTo
     \/ /\ ownWrite.write \in {"remove", "discard"}
        /\ timerRows' = [timerRows EXCEPT ![ownWrite.timer] = "none"]
        /\ assignedTo' = [assignedTo EXCEPT ![ownWrite.timer] = {}]
  /\ ownWrite' = NoOwnWrite
  /\ UNCHANGED <<timerMemory, timerTick, timerHistory, timerUpsets>>

TimerWrite ==
  \/ WriteOwned
  \/ \E t \in Timers :
       \/ addTimerCommand(t) \/ setTimerCommandEnabled(t) \/ removeTimerCommand(t)
       \/ \E channels \in (SUBSET TimerChannels) \ {{}} : assignUsersToTimer(t, channels)
       \/ \E channel \in TimerChannels :
            \/ unassignUserFromTimer(t, channel)
            \/ \E write \in {"toggle", "remove", "discard"} : LockOwned(t, channel, write)

---------------------------------------------------------------------------
(* The tick.  runTimerCommandTick runs alone: an interval that ends during *)
(* a tick joins the one under way.                                         *)

EnabledRows == {r \in Rows : timerRows[r[1]] = "on" /\ r[2] \in assignedTo[r[1]]}

shouldFire(r) == sinceFire[r] # NotSeeded /\ sinceFire[r] >= Interval[r[1]]

\* A reservation of this tick that is still the entry: age 0.
releaseCommandSessionReservation(entries, pick) ==
  IF pick.session # "none" /\ entries[pick.row[1], pick.session] = 0
  THEN [entries EXCEPT ![<<pick.row[1], pick.session>>] = Never]
  ELSE entries

releaseChannelReservation(entries, r) ==
  IF entries[r[2]] = [timer |-> r[1], age |-> 0] THEN [entries EXCEPT ![r[2]] = NoFloor] ELSE entries

\* Which of the rows have waited longest: the code takes the first of several, in an order that is left open.
LongestWaiting(rows) == {r \in rows : \A other \in rows : sinceFire[other] <= sinceFire[r]}

\* applyCommandSessionCooldown: the rows outside any session, and one row for every session whose
\* cooldown for that timer has run out.  picked has chosen among those that waited longest.
SessionGroups(due, sessionOf) ==
  {g \in Timers \X Sessions : \E r \in due : r[1] = g[1] /\ sessionOf[r[2]] = g[2]}
CooledDown(g) == sessionFire[g] >= Interval[g[1]]
InGroup(due, sessionOf, g) == {r \in due : r[1] = g[1] /\ sessionOf[r[2]] = g[2]}
applyCommandSessionCooldown(due, sessionOf, chosen) ==
  {[row |-> r, session |-> "none"] : r \in {d \in due : sessionOf[d[2]] = "none"}}
  \cup {[row |-> chosen[g], session |-> g[2]] : g \in DOMAIN chosen}

\* Mistake: a recent post holds back nothing.
CandidatesWithoutFloor(picks, channel) ==
  LET here == {p \in picks : p.row[2] = channel} IN
  {p \in here : p.row \in LongestWaiting({q.row : q \in here})}

\* applyChannelFloor: while the last post is recent only its timer may go, else who waited longest.
Candidates(picks, channel) ==
  LET here == {p \in picks : p.row[2] = channel} IN
  IF floor[channel].age < SPACING THEN {p \in here : p.row[1] = floor[channel].timer}
  ELSE {p \in here : p.row \in LongestWaiting({q.row : q \in here})}

TimePasses ==
  /\ sessionFire' = [g \in DOMAIN sessionFire |-> Older(sessionFire[g])]
  /\ floor' = [c \in TimerChannels |-> IF Older(floor[c].age) = Never THEN NoFloor
                                       ELSE [floor[c] EXCEPT !.age = Older(@)]]
  /\ lastPost' = [c \in TimerChannels |-> IF Older(lastPost[c].age) = Never THEN NoPost
                                          ELSE [lastPost[c] EXCEPT !.age = Older(@)]]
  /\ sessionPost' = [g \in DOMAIN sessionPost |-> Older(sessionPost[g])]

\* The interval, getEnabledTimerCommandsForScheduler, pruneStaleTimerState and the seeding of new rows.
\* Pruned cooldowns are those that restrict nothing.
TickBegins ==
  /\ timerTick = NoTick
  /\ TimePasses
  /\ \/ /\ sinceFire' = [r \in Rows |-> CASE r \notin EnabledRows -> NotSeeded
                                          [] r \in EnabledRows /\ sinceFire[r] = NotSeeded -> 0
                                          [] OTHER -> Older(sinceFire[r])]
        /\ timerTick' = [NoTick EXCEPT !.pc = "pick"]
        /\ UNCHANGED timerUpsets
     \/ /\ TimerUpset   \* the rows cannot be read
        /\ sinceFire' = [r \in Rows |-> IF sinceFire[r] = NotSeeded THEN NotSeeded ELSE Older(sinceFire[r])]
        /\ UNCHANGED timerTick
  /\ UNCHANGED timerTables

\* resolveSessionIdsByChannel and pickRowsToFire; the losers' reservations are released at once.
pickRowsToFire ==
  /\ timerTick.pc = "pick"
  /\ \E passing \in SUBSET {r \in Rows : shouldFire(r) /\ r[1] \in Gated},
        sessionOf \in [TimerChannels -> Sessions \cup {"none"}] :
       LET due == passing \cup {r \in Rows : shouldFire(r) /\ r[1] \notin Gated}
           groups == {g \in SessionGroups(due, sessionOf) : CooledDown(g)} IN
       \E chosen \in [groups -> due] :
         /\ \A g \in groups : chosen[g] \in LongestWaiting(InGroup(due, sessionOf, g))
         /\ LET survivors == applyCommandSessionCooldown(due, sessionOf, chosen)
                contested == {c \in TimerChannels : Candidates(survivors, c) # {}} IN
            \E winner \in [contested -> survivors] :
              /\ \A c \in contested : winner[c] \in Candidates(survivors, c)
              /\ LET picks == {winner[c] : c \in contested} IN
                 /\ sessionFire' = [g \in DOMAIN sessionFire |->
                      IF \E p \in picks : p.session = g[2] /\ p.row[1] = g[1] THEN 0
                      ELSE IF g \in groups THEN Never ELSE sessionFire[g]]
                 /\ floor' = [c \in TimerChannels |->
                      IF c \in contested THEN [timer |-> winner[c].row[1], age |-> 0] ELSE floor[c]]
                 /\ timerTick' = IF picks = {} THEN NoTick ELSE [pc |-> "send", picks |-> picks]
  /\ UNCHANGED <<timerTables, sinceFire, timerHistory, timerUpsets>>

Finished(pick) ==
  timerTick' = IF timerTick.picks = {pick} THEN NoTick ELSE [timerTick EXCEPT !.picks = @ \ {pick}]

\* sendTimerRow.
sendTimerRow(pick) ==
  /\ sinceFire' = [sinceFire EXCEPT ![pick.row] = 0]
  /\ lastPost' = [lastPost EXCEPT ![pick.row[2]] = [timer |-> pick.row[1], age |-> 0, undone |-> FALSE]]
  /\ sessionPost' = IF pick.session = "none" THEN sessionPost
                    ELSE [sessionPost EXCEPT ![<<pick.row[1], pick.session>>] = 0]
  /\ Finished(pick)
  /\ UNCHANGED <<timerTables, sessionFire, floor, timerUpsets>>

\* The send is refused, or there is no runtime: releaseReservations.
sendFails(pick) ==
  /\ TimerUpset
  /\ sessionFire' = releaseCommandSessionReservation(sessionFire, pick)
  /\ floor' = releaseChannelReservation(floor, pick.row)
  /\ lastPost' = [lastPost EXCEPT ![pick.row[2]].undone = (@ \/ lastPost[pick.row[2]].timer = pick.row[1])]
  /\ Finished(pick)
  /\ UNCHANGED <<timerTables, sinceFire, sessionPost>>

\* stopTimerCommandScheduler waits for the tick; the next start begins with nothing.
stopTimerCommandScheduler ==
  /\ TimerUpset
  /\ timerTick = NoTick
  /\ sinceFire' = [r \in Rows |-> NotSeeded]
  /\ sessionFire' = [g \in DOMAIN sessionFire |-> Never]
  /\ floor' = [c \in TimerChannels |-> NoFloor]
  /\ lastPost' = [c \in TimerChannels |-> NoPost]
  /\ sessionPost' = [g \in DOMAIN sessionPost |-> Never]
  /\ UNCHANGED <<timerTables, timerTick>>

Posting == \E pick \in timerTick.picks : sendTimerRow(pick)

TimerNext ==
  \/ TimerWrite
  \/ TickBegins \/ pickRowsToFire \/ Posting
  \/ \E pick \in timerTick.picks : sendFails(pick)
  \/ stopTimerCommandScheduler

TimerInit ==
  /\ timerRows = [t \in Timers |-> IF InitiallyAssigned[t] = {} THEN "none" ELSE "on"]
  /\ assignedTo = InitiallyAssigned
  /\ ownWrite = NoOwnWrite
  /\ sinceFire = [r \in Rows |-> NotSeeded]
  /\ sessionFire = [g \in Timers \X Sessions |-> Never]
  /\ floor = [c \in TimerChannels |-> NoFloor]
  /\ timerTick = NoTick
  /\ lastPost = [c \in TimerChannels |-> NoPost]
  /\ sessionPost = [g \in Timers \X Sessions |-> Never]
  /\ timerUpsets = 0

---------------------------------------------------------------------------

Picks == [row : Rows, session : Sessions \cup {"none"}]

\* What the tables, the scheduler's memory and its tick can hold.
TimerTypeOK ==
  /\ timerRows \in [Timers -> {"none", "off", "on"}]
  /\ assignedTo \in [Timers -> SUBSET TimerChannels]
  /\ ownWrite \in [timer : Timers \cup {0}, by : TimerChannels \cup {"none"},
                   write : {"none", "toggle", "remove", "discard"}]
  /\ sinceFire \in [Rows -> Ages \cup {NotSeeded}]
  /\ sessionFire \in [Timers \X Sessions -> Ages]
  /\ floor \in [TimerChannels -> [timer : Timers \cup {0}, age : Ages]]
  /\ timerTick \in [pc : {"idle", "pick", "send"}, picks : SUBSET Picks]
  /\ lastPost \in [TimerChannels -> [timer : Timers \cup {0}, age : Ages, undone : BOOLEAN]]
  /\ sessionPost \in [Timers \X Sessions -> Ages]
  /\ timerUpsets \in 0 .. MaxTimerUpsets

\* A channel sees posts of two different timers at least the spacing apart, and a Shared Chat
\* session sees a timer's posts at least its interval apart, through failed posts, sessions that
\* change, rows that come and go.  Except after a failed repeat of the channel's last poster: its
\* release deletes the entry that stood for the earlier post.
TimersKeepDistance ==
  [][\A pick \in timerTick.picks :
       sendTimerRow(pick) =>
         LET last == lastPost[pick.row[2]] IN
         /\ last.timer = pick.row[1] \/ last.undone \/ last.age >= SPACING
         /\ pick.session = "none" \/ sessionPost[pick.row[1], pick.session] >= Interval[pick.row[1]]]_timerVars

\* A streamer's own write changes only a timer that is in no other channel at that moment, whoever
\* is assigned while the write runs.
OwnTimerWritesStayOwn ==
  [][WriteOwned => assignedTo[ownWrite.timer] \subseteq {ownWrite.by}]_timerVars
=============================================================================
