------------------------------ MODULE BotServices ------------------------------
(***************************************************************************)
(* The services of the bot towards Twitch and Discord that keep to         *)
(* themselves: they share the process and the database, and no state that  *)
(* is modelled.  A behaviour is one of one service, `service', beside the  *)
(* others at rest; checking them in one run says of each what a run of its *)
(* own would say.                                                          *)
(***************************************************************************)
EXTENDS Integers, Sequences, FiniteSets

CONSTANTS
  Games, Messages, MaxWaiting, MaxUpsets, NoGame, NoMessage,
  MaxChannelQueue, MaxChatUpsets,
  ChatChannels, WINDOW, FLOOR, NON_PRIVILEGED_LIMIT, PRIVILEGED_LIMIT, MAX_PRIVILEGE_RECHECKS,
  MaxChunks, MaxSends,
  Timers, TimerChannels, Sessions, SPACING, Gated, MaxTimerUpsets,
  Attempts, MAX_TRANSIENT_REBUILD_ATTEMPTS, MaxTokenUpsets,
  Redemptions, MaxNow, MaxCatchupUpsets, POLL, CURSOR_RETENTION, MAX_CURSOR_LAG, LEDGER_RETENTION,
  Clients, MaxGatewayUpsets, MaxAlertUpsets

\* What the services take for granted of their settings: null is no game and no message, some timer has the
\* longest interval and no session the name of none, the bot's account was connected by attempt 1, the
\* ledger's rows outlive the window a replay may reach back (REDEMPTION_LEDGER_RETENTION_MS "must comfortably
\* exceed" it), and 0 stands for no account and no client.
ASSUME MonitorAssumption == NoGame \notin Games /\ NoMessage \notin Messages /\ MaxUpsets \in Nat
ASSUME MembershipAssumption == MaxChannelQueue \in Nat /\ MaxChatUpsets \in Nat
ASSUME SendAssumption ==
  /\ WINDOW \in Nat \ {0} /\ FLOOR \in Nat /\ NON_PRIVILEGED_LIMIT \in Nat /\ PRIVILEGED_LIMIT \in Nat
  /\ MAX_PRIVILEGE_RECHECKS \in Nat /\ MaxChunks \in Nat
ASSUME TimerAssumption ==
  /\ Timers \subseteq Nat \ {0} /\ SPACING \in Nat /\ MaxTimerUpsets \in Nat
  /\ \E longest \in Timers : \A t \in Timers : t <= longest
  /\ TimerChannels # {} /\ "none" \notin Sessions
ASSUME TokensAssumption ==
  /\ Attempts \subseteq Nat \ {0} /\ 1 \in Attempts
  /\ MAX_TRANSIENT_REBUILD_ATTEMPTS \in Nat \ {0} /\ MaxTokenUpsets \in Nat
ASSUME CatchupAssumption ==
  /\ POLL \in Nat \ {0} /\ MAX_CURSOR_LAG \in Nat \ {0} /\ CURSOR_RETENTION \in Nat
  /\ LEDGER_RETENTION \in Nat /\ MAX_CURSOR_LAG <= LEDGER_RETENTION
  /\ MaxNow \in Nat /\ MaxCatchupUpsets \in Nat
ASSUME GatewayAssumption == Clients # {} /\ 0 \notin Clients /\ MaxGatewayUpsets \in Nat

VARIABLES
  service,
  stream, board, row, state, phase, loaded, fetching, waiting, running, late, excused, escaped, upsets,
  botEnabled, activeChannel, confirmedJoined, joined, link, starting, channelsRead, channelQueue,
  channelOp, lateJoins, toggle, chatUpsets,
  sentAges, floorAge, privileged, chatUp, sends, sending,
  timerRows, assignedTo, ownWrite, sinceFire, sessionFire, floor, timerTick, lastPost, sessionPost, timerUpsets,
  botRow, connects, chatClient, restartChain, rowRead, outcomes, rebuilds, ownerTold, restored,
  misreported, tokenUpsets,
  now, redeemed, ledger, cursor, lastSeenAt, connected, timer, pass, history, catchupUpsets,
  gateway, discordUp, awaited, gatewayUpsets,
  health, tracked, dms, ownerKnown, watching, heard, misled, alertUpsets

\* Timer 1 is due every tick and shared by every channel; timer 2 every other tick, in one.
DueEvery == [t \in Timers |-> t]
AssignedAtFirst == [t \in Timers |-> IF t = 1 THEN TimerChannels ELSE {CHOOSE c \in TimerChannels : TRUE}]

Monitor == INSTANCE StreamMonitor
Membership == INSTANCE ChannelMembership
Queue == INSTANCE SendQueue
Timer == INSTANCE ChatTimers WITH Interval <- DueEvery, InitiallyAssigned <- AssignedAtFirst
Tokens == INSTANCE BotTokens
Catchup == INSTANCE RedemptionCatchup
Gateway == INSTANCE DiscordGateway
Alerts == INSTANCE OwnerAlerts

monitorVars == <<stream, board, row, state, phase, loaded, fetching, waiting, running, late, excused,
                 escaped, upsets>>
membershipVars == <<botEnabled, activeChannel, confirmedJoined, joined, link, starting, channelsRead,
                    channelQueue, channelOp, lateJoins, toggle, chatUpsets>>
sendVars == <<sentAges, floorAge, privileged, chatUp, sends, sending>>
timerVars == <<timerRows, assignedTo, ownWrite, sinceFire, sessionFire, floor, timerTick, lastPost,
               sessionPost, timerUpsets>>
tokenVars == <<botRow, connects, chatClient, restartChain, rowRead, outcomes, rebuilds, ownerTold,
               restored, misreported, tokenUpsets>>
catchupVars == <<now, redeemed, ledger, cursor, lastSeenAt, connected, timer, pass, history, catchupUpsets>>
gatewayVars == <<gateway, discordUp, awaited, gatewayUpsets>>
alertVars == <<health, tracked, dms, ownerKnown, watching, heard, misled, alertUpsets>>
serviceVars == <<service, monitorVars, membershipVars, sendVars, timerVars, tokenVars, catchupVars, gatewayVars,
                 alertVars>>

\* A service at rest starts from one state only.
Init ==
  /\ service \in {"monitor", "membership", "queue", "timer", "tokens", "catchup", "gateway", "alerts"}
  /\ Monitor!Init /\ Membership!Init /\ Queue!Init /\ Timer!TimerInit /\ Tokens!TokensInit
  /\ Catchup!CatchupInit /\ Gateway!GatewayInit /\ Alerts!AlertsInit
  /\ service # "monitor" => stream = NoGame
  /\ service # "membership" => ~botEnabled

Next ==
  \/ service = "monitor" /\ Monitor!Next
       /\ UNCHANGED <<service, membershipVars, sendVars, timerVars, tokenVars, catchupVars, gatewayVars, alertVars>>
  \/ service = "membership" /\ Membership!Next
       /\ UNCHANGED <<service, monitorVars, sendVars, timerVars, tokenVars, catchupVars, gatewayVars, alertVars>>
  \/ service = "queue" /\ Queue!Next
       /\ UNCHANGED <<service, monitorVars, membershipVars, timerVars, tokenVars, catchupVars, gatewayVars, alertVars>>
  \/ service = "timer" /\ Timer!TimerNext
       /\ UNCHANGED <<service, monitorVars, membershipVars, sendVars, tokenVars, catchupVars, gatewayVars, alertVars>>
  \/ service = "tokens" /\ Tokens!TokensNext
       /\ UNCHANGED <<service, monitorVars, membershipVars, sendVars, timerVars, catchupVars, gatewayVars, alertVars>>
  \/ service = "catchup" /\ Catchup!CatchupNext
       /\ UNCHANGED <<service, monitorVars, membershipVars, sendVars, timerVars, tokenVars, gatewayVars, alertVars>>
  \/ service = "gateway" /\ Gateway!GatewayNext
       /\ UNCHANGED <<service, monitorVars, membershipVars, sendVars, timerVars, tokenVars, catchupVars, alertVars>>
  \/ service = "alerts" /\ Alerts!AlertsNext
       /\ UNCHANGED <<service, monitorVars, membershipVars, sendVars, timerVars, tokenVars, catchupVars, gatewayVars>>

\* Calls to Twitch, Discord and the database settle, timers fire, and whatever waits for a lock,
\* a turn or the restart chain gets it in the end.
Fairness ==
  /\ WF_monitorVars(service = "monitor" /\ Monitor!Start)
  /\ WF_monitorVars(service = "monitor" /\ Monitor!Begins)
  /\ \A slot \in Monitor!Slots : WF_monitorVars(service = "monitor" /\ Monitor!Works(slot))
  /\ WF_monitorVars(service = "monitor" /\ Monitor!OfflineTimerFires)
  /\ WF_monitorVars(service = "monitor" /\ Monitor!PollTimerFires)
  /\ \A kind \in {"poll", "immediate"} : WF_monitorVars(service = "monitor" /\ Monitor!Fetched(kind))
  /\ WF_monitorVars(service = "monitor" /\ Monitor!StartGoesOn)
  /\ WF_membershipVars(service = "membership" /\ Membership!ToggleGoesOn)
  /\ WF_membershipVars(service = "membership" /\ Membership!ChannelTurn)
  /\ WF_membershipVars(service = "membership" /\ Membership!OpGoesOn)
  /\ WF_membershipVars(service = "membership" /\ Membership!reconcileJoinedChannels)
  /\ WF_membershipVars(service = "membership" /\ Membership!ClientStarts)
  /\ WF_tokenVars(service = "tokens" /\ Tokens!CallbackGoesOn)
  /\ WF_tokenVars(service = "tokens" /\ Tokens!RestartBegins)
  /\ WF_tokenVars(service = "tokens" /\ Tokens!RestartEnds)
  /\ \A answer \in {"refreshed", "transient", "revoked"} : WF_tokenVars(service = "tokens" /\ Tokens!Handled(answer))
  /\ WF_tokenVars(service = "tokens" /\ Tokens!RebuildGoesOn)
  /\ \A c \in Clients : WF_gatewayVars(service = "gateway" /\ Gateway!LoginAnswered(c))
  /\ WF_gatewayVars(service = "gateway" /\ Gateway!BackoffEnds)
  /\ WF_gatewayVars(service = "gateway" /\ Gateway!ShardBack)
  /\ WF_gatewayVars(service = "gateway" /\ Gateway!StallThresholdPasses)
  /\ WF_gatewayVars(service = "gateway" /\ Gateway!RecoveryExpires)
  /\ WF_gatewayVars(service = "gateway" /\ Gateway!WatchdogActs)
  /\ WF_gatewayVars(service = "gateway" /\ Gateway!DiscordReturns)
  /\ WF_gatewayVars(service = "gateway" /\ Gateway!WaitTimesOut)
  /\ WF_alertVars(service = "alerts" /\ Alerts!GraceEnds)
  /\ WF_alertVars(service = "alerts" /\ Alerts!RealertsAfterCooldown)
  /\ WF_alertVars(service = "alerts" /\ Alerts!DmGoesOn)

Spec == Init /\ [][Next]_serviceVars /\ Fairness
-------------------------------------------------------------------------------
\* The service that runs keeps to its types; the others do not leave their first state.
TypeOK ==
  CASE service = "monitor"    -> Monitor!TypeOK
    [] service = "membership" -> Membership!TypeOK
    [] service = "queue"      -> Queue!TypeOK
    [] service = "timer"      -> Timer!TimerTypeOK
    [] service = "tokens"     -> Tokens!TokensTypeOK
    [] service = "catchup"    -> Catchup!CatchupTypeOK
    [] service = "gateway"    -> Gateway!GatewayTypeOK
    [] service = "alerts"     -> Alerts!AlertsTypeOK

\* Nothing is lost of a service's own accord.  Every message of the stream monitor in Discord is one
\* it still knows of, or one that a failed call, a crash or a named race has left.  A redemption that
\* EventSub missed stays ahead of the cursor until it is handled, once, or given up with a warning
\* (twitchEventSubReconciliationCursors.ts).
NothingIsLost ==
  /\ service = "monitor" => Monitor!NoOrphan
  /\ service = "catchup" => Catchup!NothingSkipped /\ Catchup!HandledOnce

\* The bot keeps its distance in chat.  No message is sent to Twitch beyond the window's limit or a
\* channel's floor, whatever changes the bot's privilege while it waits (the re-checks of
\* twitchSendQueue.ts).  Two timers never post into a channel closer together than the spacing
\* between them, nor into a Shared Chat session sooner than the timer's own interval; and a
\* streamer's own write only changes a timer that is theirs alone when it is committed
\* (timerCommandCooldowns.ts and the locked check of timerSelfService.ts).
ChatKeepsItsDistance ==
  Queue!SendsWithinLimits /\ Timer!TimersKeepDistance /\ Timer!OwnTimerWritesStayOwn

\* There is one Discord client, or a retry that will make one, and the watchdog waits for no
\* recovery that is not under way (the identity checks of discordBot.ts); and the owner is not left
\* with a "down" about a component that is up, but for a message lost or overtaken while it was
\* being delivered (the generations of ownerAlerts.ts).
OwnerHearsTheTruth ==
  /\ service = "gateway" => Gateway!OneClient /\ Gateway!SomethingIsUnderWay /\ Gateway!WaitersAreServed
  /\ service = "alerts" => Alerts!OwnerIsNotMisled

\* The bot's stored token is of the account of the last started attempt that was saved, or of the
\* account its rollback went back to: no late refresh or failure overwrites it (the comparisons of
\* connection_id and attempt_started_at in db/twitchBotAuth.ts).
TokenIsTheLastConnected == service = "tokens" => Tokens!TokenIsTheLastConnected

\* When the upsets end, each service comes to agree with what it follows: the monitor announces a
\* stream exactly while there is one, the bot sits in the channel exactly while it should, chat
\* runs on the connection the row holds or its owner has been told, Discord is connected, and the
\* owner knows of a failure that lasts.
ServicesSettle ==
  <>[](/\ Monitor!InStep /\ Membership!WhereItShouldBe /\ Tokens!ChatFollowsRow
       /\ service = "gateway" => Gateway!GatewayUp
       /\ Alerts!OwnerKnows)
===============================================================================
