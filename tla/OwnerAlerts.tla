------------------------------ MODULE OwnerAlerts ------------------------------
(***************************************************************************)
(* What the bot's owner is told about one component by direct message: a   *)
(* component that goes down and comes back, may be dropped and set up      *)
(* again, and messages that wait for Discord and for the owner's row.      *)
(***************************************************************************)
EXTENDS Naturals, FiniteSets

CONSTANTS MaxAlertUpsets

VARIABLES
  health,       \* the component in the health snapshot: "ok", "failing" or "absent"
  tracked,      \* its entry in componentStates
  dms,          \* sendOwnerAlert calls that have not settled
  ownerKnown,   \* cachedOwnerDiscordId is set
  watching,     \* the watcher is started and the process not shutting down
  heard,        \* the last the owner heard about the component
  misled,       \* history: a message overtaken or lost, or a component dropped, leaves the owner with a "down"
  alertUpsets

alertVars == <<health, tracked, dms, ownerKnown, watching, heard, misled, alertUpsets>>

Untracked == [failing |-> FALSE, downAlertSent |-> FALSE, generation |-> 0, timer |-> FALSE]

Upset == alertUpsets < MaxAlertUpsets /\ alertUpsets' = alertUpsets + 1
NoUpset == UNCHANGED alertUpsets

\* sendOwnerAlert, for the episode it is about
Dm(kind, generation) == [kind |-> kind, generation |-> generation, pc |-> "waits", overtaken |-> FALSE]
-------------------------------------------------------------------------------
(* What the watcher makes of the component's health.  A generation here is  *)
(* never used twice, by an entry made anew either: a send keeps its entry.  *)

handleNewFailure(t) ==
  [t EXCEPT !.failing = TRUE, !.downAlertSent = FALSE, !.generation = @ + 1, !.timer = TRUE]

WasAlerted(t) == t.downAlertSent

Recovered(t) ==
  [t EXCEPT !.failing = FALSE, !.downAlertSent = FALSE, !.generation = @ + 1, !.timer = FALSE]

\* A message that is being delivered can no longer be called back.
Overtaken == {[dm EXCEPT !.overtaken = @ \/ dm.pc = "sends"] : dm \in dms}

handleRecovery ==
  /\ tracked' = Recovered(tracked)
  /\ dms' = Overtaken \cup IF WasAlerted(tracked) THEN {Dm("recovered", tracked.generation)} ELSE {}
  /\ UNCHANGED misled

forgetRemovedComponents ==
  /\ tracked' = [Untracked EXCEPT !.generation = tracked.generation + 1]
  /\ dms' = Overtaken
  /\ misled' = IF WasAlerted(tracked) THEN "down" ELSE misled

\* handleHealthChanged, called by the health store with the change itself
Watches(h) ==
  IF ~watching THEN UNCHANGED <<tracked, dms, misled>>
  ELSE CASE h = "absent" /\ health # "absent" -> forgetRemovedComponents
         [] h = "ok" /\ tracked.failing -> handleRecovery
         [] h = "failing" /\ ~tracked.failing ->
              tracked' = handleNewFailure(tracked) /\ UNCHANGED <<dms, misled>>
         [] OTHER -> UNCHANGED <<tracked, dms, misled>>

HealthChanges(h) ==
  /\ h # health
  /\ IF h = "ok" THEN NoUpset ELSE Upset
  /\ health' = h
  /\ Watches(h)
  /\ UNCHANGED <<ownerKnown, watching, heard>>

\* The grace period is over: the "down" is sent.
GraceEnds ==
  /\ tracked.timer
  /\ tracked' = [tracked EXCEPT !.timer = FALSE]
  /\ dms' = dms \cup {Dm("down", tracked.generation)}
  /\ UNCHANGED <<health, ownerKnown, watching, heard, misled, alertUpsets>>

\* REALERT_COOLDOWN_MS is over, well after any message has settled, and something else reports its
\* health: "still down".
RealertsAfterCooldown ==
  /\ watching /\ tracked.failing /\ ~tracked.timer /\ dms = {}
  /\ dms' = {Dm("down", tracked.generation)}
  /\ UNCHANGED <<health, tracked, ownerKnown, watching, heard, misled, alertUpsets>>
-------------------------------------------------------------------------------
(* One message.                                                             *)

\* Mistake: what the component has done since is not looked at.
AlwaysRelevant(dm) == TRUE

IsStillRelevant(dm) == dm.kind = "recovered" \/ dm.generation = tracked.generation

Moves(dm, pc) == dms' = (dms \ {dm}) \cup {[dm EXCEPT !.pc = pc]}

\* A "recovered" that does not arrive leaves the owner with the "down".
Dropped(dm) ==
  /\ dms' = dms \ {dm}
  /\ misled' = IF dm.kind = "recovered" THEN "down" ELSE misled

\* waitUntilReady: Discord is ready, or not in time.
RuntimeReady(dm) ==
  /\ dm \in dms /\ dm.pc = "waits"
  /\ \/ NoUpset /\ Moves(dm, "lookup") /\ UNCHANGED misled
     \/ Upset /\ Dropped(dm)
  /\ UNCHANGED <<health, tracked, ownerKnown, watching, heard>>

\* resolveOwnerDiscordId, with the cached id when the lookup fails, and the check that comes last
OwnerResolved(dm) ==
  /\ dm \in dms /\ dm.pc = "lookup"
  /\ \/ NoUpset /\ ownerKnown' = TRUE
     \/ Upset /\ UNCHANGED ownerKnown
  /\ IF ownerKnown' /\ IsStillRelevant(dm)
     THEN Moves(dm, "sends") /\ UNCHANGED misled
     ELSE IF ownerKnown' THEN dms' = dms \ {dm} /\ UNCHANGED misled ELSE Dropped(dm)
  /\ UNCHANGED <<health, tracked, watching, heard>>

\* runtime.send
Sent(dm) ==
  /\ dm \in dms /\ dm.pc = "sends"
  /\ \/ /\ NoUpset
        /\ dms' = dms \ {dm}
        /\ heard' = dm.kind
        /\ tracked' = IF dm.kind = "down" /\ dm.generation = tracked.generation
                      THEN [tracked EXCEPT !.downAlertSent = TRUE] ELSE tracked
        /\ misled' = IF dm.kind = "down" /\ dm.overtaken THEN "down" ELSE "no"
     \/ Upset /\ Dropped(dm) /\ UNCHANGED <<heard, tracked>>
  /\ UNCHANGED <<health, ownerKnown, watching>>

DmGoesOn == \E dm \in dms : RuntimeReady(dm) \/ OwnerResolved(dm) \/ Sent(dm)
-------------------------------------------------------------------------------
\* primeOwnerAlertBaseline and startOwnerAlertWatcher: what fails already is not news.
WatcherStarts ==
  /\ ~watching /\ tracked.generation = 0
  /\ \/ NoUpset /\ ownerKnown' = TRUE
     \/ Upset /\ UNCHANGED ownerKnown
  /\ tracked' = [Untracked EXCEPT !.failing = health = "failing", !.generation = 1]
  /\ watching' = TRUE
  /\ UNCHANGED <<health, dms, heard, misled>>

\* stopOwnerAlertWatcher
WatcherStops ==
  /\ watching /\ Upset
  /\ watching' = FALSE
  /\ tracked' = [tracked EXCEPT !.timer = FALSE]
  /\ UNCHANGED <<health, dms, ownerKnown, heard, misled>>

AlertsInit ==
  /\ health = "failing" /\ tracked = Untracked /\ dms = {} /\ ownerKnown = FALSE /\ watching = FALSE
  /\ heard = "nothing" /\ misled = "no" /\ alertUpsets = 0

AlertsNext ==
  \/ \E h \in {"ok", "failing", "absent"} : HealthChanges(h)
  \/ GraceEnds \/ RealertsAfterCooldown
  \/ DmGoesOn
  \/ WatcherStarts \/ WatcherStops
-------------------------------------------------------------------------------
AlertsTypeOK ==
  /\ health \in {"ok", "failing", "absent"} /\ tracked.generation \in Nat
  /\ heard \in {"nothing", "down", "recovered"} /\ misled \in {"no", "down"}
  /\ \A dm \in dms : dm.kind \in {"down", "recovered"} /\ dm.pc \in {"waits", "lookup", "sends"}
  /\ tracked.downAlertSent => tracked.failing

RecoveryIsOnItsWay == \E dm \in dms : dm.kind = "recovered"

\* The owner is left with a "down" about a component that is not, only by a message lost or already
\* being delivered, or because it was dropped; and hears of a recovery only after having heard of the failure.
OwnerIsNotMisled ==
  /\ watching /\ heard = "down" /\ ~tracked.failing => RecoveryIsOnItsWay \/ misled = "down"
  /\ RecoveryIsOnItsWay => heard # "nothing"

\* The owner knows of a failure that lasts.
OwnerKnows == watching /\ tracked.failing => heard = "down"
===============================================================================
