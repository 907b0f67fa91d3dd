--------------------------- MODULE RedemptionCatchup ---------------------------
(***************************************************************************)
(* Reconciliation of one reward's redemptions: a poll that asks Twitch for *)
(* what EventSub has missed, from a cursor kept in memory.  What becomes   *)
(* of one redemption is in RedemptionPipeline; here it is handled or not.  *)
(***************************************************************************)
EXTENDS Integers, FiniteSets, FiniteSetsExt

CONSTANTS
  Redemptions,                     \* 1, 2, ... as they are made
  MaxNow, MaxCatchupUpsets,        \* bounds
  POLL, CURSOR_RETENTION, MAX_CURSOR_LAG, LEDGER_RETENTION

VARIABLES
  now,
  redeemed,     \* each redemption as Twitch has it: when it was made and its status
  ledger,       \* redemption_handled: when each row was written
  cursor,       \* lastSeenRedeemedAt of the reward
  lastSeenAt,   \* uidLastSeenAt of its streamer
  connected,    \* the streamer is in getAllStreamerInfo()
  timer,        \* when tickTimer fires next
  pass,         \* the running pass
  history,      \* how often each was handled; which were given up with a warning or by a named gap;
                \* whether the reward has a cursor of its own, when it was last asked for and whether a
                \* request or a handler has failed since; and the passes that missed the streamer
  catchupUpsets

catchupVars == <<now, redeemed, ledger, cursor, lastSeenAt, connected, timer, pass, history,
                 catchupUpsets>>

Never == -2    \* earlier than any cursor
NotMade == [at |-> Never, status |-> "none"]
NoCursor == [at |-> Never, pinnedBy |-> "nothing", skipWarned |-> FALSE]
NoPass == [pc |-> "idle", cutoff |-> 0, firstFetch |-> 0, unfulfilled |-> {}, fulfilled |-> {},
           succeededMax |-> Never, failedMin |-> Never]

\* What the running pass has fetched and not replayed yet.
Batch == pass.unfulfilled \cup pass.fulfilled

Made == {r \in Redemptions : redeemed[r] # NotMade}
Unhandled == {r \in Made : history.handled[r] = 0}
MadeUpTo(t) == {r \in Unhandled : redeemed[r].at <= t}

Upset == catchupUpsets < MaxCatchupUpsets /\ catchupUpsets' = catchupUpsets + 1
NoUpset == UNCHANGED catchupUpsets
-------------------------------------------------------------------------------
(* Around the poll.                                                         *)

\* A viewer redeems.  EventSub delivers it and it is handled, or it is missed or its handler fails.
\* A reward that skips the request queue is FULFILLED from the start.  (None is made too late for a
\* poll within the bound.)
Redeem(r) ==
  /\ now <= MaxNow - POLL
  /\ r \notin Made /\ \A earlier \in Redemptions : earlier < r => earlier \in Made
  /\ \A other \in Made : redeemed[other].at < now
  /\ \E status \in {"UNFULFILLED", "FULFILLED"} : redeemed' = [redeemed EXCEPT ![r] = [at |-> now, status |-> status]]
  /\ \/ ledger' = [ledger EXCEPT ![r] = now] /\ history' = [history EXCEPT !.handled[r] = 1]
     \/ UNCHANGED <<ledger, history>>
  /\ UNCHANGED <<now, cursor, lastSeenAt, connected, timer, pass, catchupUpsets>>

\* The streamer, or the bot, takes it out of the queue.  A pass asks for both, so that it tells
\* between its two requests only.
Fulfilled(r) ==
  /\ pass.pc = "FULFILLED" /\ redeemed[r].status = "UNFULFILLED"
  /\ redeemed' = [redeemed EXCEPT ![r].status = "FULFILLED"]
  /\ UNCHANGED <<now, ledger, cursor, lastSeenAt, connected, timer, pass, history, catchupUpsets>>

ConnectionChanges ==
  /\ Upset
  /\ connected' = ~connected
  /\ UNCHANGED <<now, redeemed, ledger, cursor, lastSeenAt, timer, pass, history>>

\* The cursor is gone with the process; the first poll after it comes one interval later.
Restart ==
  /\ Upset
  /\ cursor' = NoCursor /\ lastSeenAt' = Never /\ pass' = NoPass
  /\ timer' = now + POLL
  /\ history' = [history EXCEPT !.excused = @ \cup Unhandled, !.seeded = FALSE, !.missedBy = 0]
  /\ UNCHANGED <<now, redeemed, ledger, connected>>

\* A pass is over at once unless Twitch or the database keeps it waiting.
Clock ==
  /\ now < MaxNow /\ timer > now
  /\ IF pass.pc = "idle" THEN NoUpset ELSE Upset
  /\ now' = now + 1
  /\ UNCHANGED <<redeemed, ledger, cursor, lastSeenAt, connected, timer, pass, history>>
-------------------------------------------------------------------------------
(* One pass.                                                                *)

\* A cursor's streamer has not been in a snapshot for longer than the retention.
Expired == lastSeenAt = Never \/ now - lastSeenAt > CURSOR_RETENTION

\* history: gone for good, the streamer was missed by as many passes as the retention has intervals
GoneForLong == history.missedBy >= CURSOR_RETENTION \div POLL

\* maybePruneRedemptionLedger, here with every pass
PruneLedger == ledger' = [r \in Redemptions |-> IF ledger[r] < now - LEDGER_RETENTION THEN Never ELSE ledger[r]]

\* The pass is over: who was present is marked again, and the ledger is pruned.
PassEnds == lastSeenAt' = now /\ PruneLedger /\ pass' = NoPass

\* The interval fires.  runReconciliationTick: a pass that is running goes on alone; a new one takes
\* the snapshot, and pruneStaleReconciliationCursors drops what is stale before marking who is here.
PollTimerFires ==
  /\ timer = now
  /\ timer' = now + POLL
  /\ IF pass.pc # "idle"
     THEN UNCHANGED <<cursor, lastSeenAt, ledger, pass, history>>
     ELSE /\ cursor' = IF Expired THEN NoCursor ELSE cursor
          /\ history' = [history EXCEPT
               !.missedBy = IF connected THEN 0 ELSE Min({@ + 1, CURSOR_RETENTION \div POLL}),
               !.seeded = @ /\ ~(Expired /\ GoneForLong),
               !.excused = IF Expired /\ cursor # NoCursor /\ GoneForLong THEN @ \cup Unhandled ELSE @]
          /\ IF connected
             THEN pass' = [NoPass EXCEPT !.pc = "list"] /\ lastSeenAt' = now /\ UNCHANGED ledger
             ELSE /\ lastSeenAt' = IF Expired THEN Never ELSE lastSeenAt
                  /\ PruneLedger
                  /\ UNCHANGED pass
  /\ UNCHANGED <<now, redeemed, connected, catchupUpsets>>

\* markFetchFailed
FetchFailedAt(cutoff, from) ==
  [at |-> cutoff,
   pinnedBy |-> IF from.at = cutoff /\ from.pinnedBy # "nothing" THEN from.pinnedBy ELSE "fetch",
   skipWarned |-> from.pinnedBy = "fetch" /\ from.skipWarned]

\* reconcileStreamer cannot get a token or the list of rewards: markStreamerFetchFailed.
ListFails ==
  /\ pass.pc = "list" /\ Upset
  /\ cursor' = IF cursor = NoCursor THEN NoCursor ELSE FetchFailedAt(cursor.at, cursor)
  /\ history' = [history EXCEPT !.failed = TRUE]
  /\ PassEnds
  /\ UNCHANGED <<now, redeemed, connected, timer>>

\* resolveCutoff
Cutoff ==
  IF cursor = NoCursor THEN now - POLL
  ELSE IF cursor.at >= now - MAX_CURSOR_LAG THEN cursor.at
  ELSE now - MAX_CURSOR_LAG

\* A pinned cursor is moved on with a warning, which for an outage is given once.  Two named gaps:
\* without a cursor what is older than the lookback is given up; and so is what nobody has asked for
\* because the pass before, or this one, outlasted the window.  After a failure there is no such gap:
\* what the cursor is then moved past has its warning.
Warned == [cursor EXCEPT !.skipWarned = @ \/ (Cutoff # cursor.at /\ cursor.pinnedBy = "fetch")]

Resolved ==
  [history EXCEPT
     !.warned = IF cursor.pinnedBy # "nothing" /\ Cutoff # cursor.at THEN @ \cup MadeUpTo(Cutoff) ELSE @,
     !.excused = @ \cup IF ~history.seeded THEN MadeUpTo(Cutoff)
                        ELSE IF history.failed THEN {}
                        ELSE {r \in MadeUpTo(Cutoff) : redeemed[r].at >= history.askedAt}]

\* fetchRedemptionsNewerThan
Fetched(status, cutoff) == {r \in Made : redeemed[r].status = status /\ redeemed[r].at > cutoff}

\* reconcileReward has the token and the reward: the cutoff and the first of its requests.
FetchFirst ==
  /\ pass.pc = "list"
  /\ pass' = [pass EXCEPT !.pc = "FULFILLED", !.cutoff = Cutoff, !.firstFetch = now,
                           !.unfulfilled = Fetched("UNFULFILLED", Cutoff)]
  /\ cursor' = Warned
  /\ history' = Resolved
  /\ UNCHANGED <<now, redeemed, ledger, lastSeenAt, connected, timer, catchupUpsets>>

\* The gap between the two fetches: made after the first, still in the queue at the second, while a
\* later one has already been taken out of it.
Overtaken(batch) ==
  {r \in Unhandled :
     /\ redeemed[r].at >= pass.firstFetch /\ redeemed[r].status = "UNFULFILLED" /\ r \notin batch
     /\ \E later \in batch : redeemed[later].at > redeemed[r].at}

FetchSecond ==
  /\ pass.pc = "FULFILLED"
  /\ LET fulfilled == Fetched("FULFILLED", pass.cutoff)
     IN /\ pass' = [pass EXCEPT !.pc = "replay", !.fulfilled = fulfilled]
        /\ history' = [history EXCEPT !.excused = @ \cup Overtaken(Batch \cup fulfilled)]
  /\ UNCHANGED <<now, redeemed, ledger, cursor, lastSeenAt, connected, timer, catchupUpsets>>

\* One of the two requests fails.
FetchFails ==
  /\ pass.pc \in {"list", "FULFILLED"} /\ Upset
  /\ LET cutoff == IF pass.pc = "list" THEN Cutoff ELSE pass.cutoff
         from == IF pass.pc = "list" THEN Warned ELSE cursor
         h == IF pass.pc = "list" THEN Resolved ELSE history
     IN cursor' = FetchFailedAt(cutoff, from) /\ history' = [h EXCEPT !.seeded = TRUE, !.failed = TRUE]
  /\ PassEnds
  /\ UNCHANGED <<now, redeemed, connected, timer>>

Newest(batch) == {r \in batch : \A other \in batch : redeemed[other].at <= redeemed[r].at}

\* What is left when r is replayed: each answer comes newest first, the FULFILLED after the others.
Without(r) ==
  IF pass.unfulfilled # {} THEN [pass EXCEPT !.unfulfilled = @ \ {r}] ELSE [pass EXCEPT !.fulfilled = @ \ {r}]

\* replayRedemptions: the next of the batch.  handleRedemption skips what the ledger has.
Replay ==
  /\ pass.pc = "replay"
  /\ \E r \in Newest(IF pass.unfulfilled # {} THEN pass.unfulfilled ELSE pass.fulfilled) :
       LET at == redeemed[r].at
       IN \/ /\ now - at > MAX_CURSOR_LAG
             /\ NoUpset
             /\ pass' = Without(r)
             /\ history' = [history EXCEPT !.warned = @ \cup {r}]
             /\ UNCHANGED ledger
          \/ /\ now - at <= MAX_CURSOR_LAG
             /\ NoUpset
             /\ pass' = [Without(r) EXCEPT !.succeededMax = Max({@, at})]
             /\ IF ledger[r] = Never
                THEN ledger' = [ledger EXCEPT ![r] = now] /\ history' = [history EXCEPT !.handled[r] = @ + 1]
                ELSE UNCHANGED <<ledger, history>>
          \/ /\ now - at <= MAX_CURSOR_LAG
             /\ Upset
             /\ pass' = [Without(r) EXCEPT !.failedMin = IF @ = Never THEN at ELSE Min({@, at})]
             /\ UNCHANGED <<ledger, history>>
  /\ UNCHANGED <<now, redeemed, cursor, lastSeenAt, connected, timer>>

\* Mistake: one success moves the cursor past the failures before it.
PastTheFailures == IF pass.succeededMax # Never THEN pass.succeededMax ELSE pass.cutoff

NextCursor ==
  IF pass.failedMin # Never THEN pass.failedMin - 1
  ELSE IF pass.succeededMax # Never THEN pass.succeededMax ELSE pass.cutoff

\* recordReplayOutcome
RecordOutcome ==
  /\ pass.pc = "replay" /\ Batch = {}
  /\ cursor' = [at |-> NextCursor, pinnedBy |-> IF pass.failedMin = Never THEN "nothing" ELSE "handler",
                skipWarned |-> FALSE]
  /\ history' = [history EXCEPT !.seeded = TRUE, !.askedAt = pass.firstFetch, !.failed = pass.failedMin # Never]
  /\ PassEnds
  /\ UNCHANGED <<now, redeemed, connected, timer, catchupUpsets>>
-------------------------------------------------------------------------------
CatchupInit ==
  /\ now = 0 /\ redeemed = [r \in Redemptions |-> NotMade] /\ ledger = [r \in Redemptions |-> Never]
  /\ cursor = NoCursor /\ lastSeenAt = Never /\ connected = TRUE
  /\ timer = POLL /\ pass = NoPass
  /\ history = [handled |-> [r \in Redemptions |-> 0], warned |-> {}, excused |-> {}, seeded |-> FALSE, missedBy |-> 0,
                askedAt |-> 0, failed |-> FALSE]
  /\ catchupUpsets = 0

CatchupNext ==
  \/ \E r \in Redemptions : Redeem(r) \/ Fulfilled(r)
  \/ ConnectionChanges \/ Restart \/ Clock
  \/ PollTimerFires \/ ListFails \/ FetchFirst \/ FetchSecond \/ FetchFails
  \/ Replay \/ RecordOutcome
-------------------------------------------------------------------------------
CatchupTypeOK ==
  /\ now \in 0..MaxNow /\ catchupUpsets \in 0..MaxCatchupUpsets
  /\ timer \in now..(MaxNow + POLL)
  /\ \A r \in Redemptions : redeemed[r].at <= now /\ ledger[r] <= now
  /\ cursor.pinnedBy \in {"nothing", "handler", "fetch"} /\ cursor.at <= now
  /\ pass.pc \in {"idle", "list", "FULFILLED", "replay"}
  /\ pass.pc # "idle" => lastSeenAt # Never

\* What has not been handled is still ahead of the cursor or in the running pass, or it was given
\* up with a warning or in a named gap.
NothingSkipped ==
  \A r \in Unhandled \ (history.warned \cup history.excused) :
    \/ ~history.seeded
    \/ r \in Batch
    \/ pass.failedMin # Never /\ pass.failedMin <= redeemed[r].at
    \/ cursor # NoCursor /\ redeemed[r].at > cursor.at

\* No redemption is handled a second time: its row outlives the window a replay may reach back.
HandledOnce == \A r \in Redemptions : history.handled[r] <= 1
===============================================================================
