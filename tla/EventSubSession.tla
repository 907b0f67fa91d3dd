--------------------------- MODULE EventSubSession ---------------------------
(***************************************************************************)
(* One streamer's EventSub connection: twitchEventSubConnection.ts with    *)
(* its subscribe passes (twitchEventSubSubscribePass.ts), the pass itself  *)
(* (twitchEventSubSubscriptions.ts, twitchEventSubCreate.ts), the reloads  *)
(* that start, update and stop the connection (twitchEventSub.ts), and     *)
(* what Twitch does with sockets, sessions and subscriptions.              *)
(*                                                                         *)
(* A session has the id of the socket it was welcomed on.  A socket id is  *)
(* used again once nothing refers to it.                                   *)
(***************************************************************************)
EXTENDS Integers, Sequences, FiniteSets

CONSTANTS
  Types,        \* subscription types (channel.follow, stream.online, ...)
  MaxSockets,   \* sockets at once
  MaxQueue,     \* entries in the subscribe chain
  MaxReloads,   \* reloads waiting on topReloadChain
  MaxAttempts,  \* SUBSCRIBE_RETRY_MAX_ATTEMPTS
  MaxEvents,    \* failures, changes of the configuration, migrations and restarts
  None

Sockets == 1 .. MaxSockets

ASSUME SocketsAssumption == MaxSockets \in Nat
ASSUME BoundsAssumption == {MaxAttempts, MaxEvents, MaxQueue} \subseteq Nat
ASSUME ReloadsAssumption == MaxReloads \in Nat \ {0}
ASSUME NoneAssumption == None \notin Sockets

VARIABLES
  db,       \* the streamer's row: the types its configuration asks for
  grant,    \* whether the streamer's authorization stands
  sock,     \* the state of each socket
  subs,     \* Twitch: the session each type's subscription is bound to
  conn,     \* the StreamerConnection, if connections has one
  chain,    \* its subscribe chain, the running entry first
  pass,     \* the subscribe pass of that entry
  zombie,   \* a pass of a connection stopped meanwhile
  top,      \* topReloadChain: how many reloads wait, and what the running one loaded
  dropped,  \* history: why this connection stopped itself, or is deaf
  used      \* how many of the bounded events have happened

vars == <<db, grant, sock, subs, conn, chain, pass, zombie, top, dropped, used>>

SocketStates == {"closed", "opening", "open", "mute"}

\* A token, as the bot knows it: "lapsed" is expired and its refresh failed.
Tokens == {"valid", "expired", "lapsed", "none"}
Data == [wanted : SUBSET Types, token : Tokens]
NoData == [wanted |-> {}, token |-> "none"]

Links == Sockets \cup {None}

\* The streamer's configuration, or none.
Removed == [row |-> "no", types |-> {}]
Configs == [row : {"yes"}, types : SUBSET Types] \cup {Removed}

\* ws, sessionId, pendingMigrationOldSocket, reconnectTimer, isReconnecting,
\* reloadPendingAfterMigration, currentData, and retry's timer and count.
Conns == [state : {"none", "running"}, ws : Links, session : Links, old : Links,
          timer : {"on", "off"}, migrating : {"yes", "no"}, deferred : {"yes", "no"},
          data : Data, retry : {"on", "off"}, attempts : 0 .. MaxAttempts]

NoConn == [state |-> "none", ws |-> None, session |-> None, old |-> None,
           timer |-> "off", migrating |-> "no", deferred |-> "no", data |-> NoData,
           retry |-> "off", attempts |-> 0]

\* `same`: freshSessionGeneration is what it was when the entry was queued.
Entries == [kind : {"pass", "reload"}, session : Links, refresh : {"yes", "no"},
            same : {"yes", "no"}]

\* `fresh`: currentData was not replaced since the pass began its refresh.
Passes == [step : {"idle", "token", "list", "ensure", "prune", "cleanup"},
           session : Links, data : Data, fresh : {"yes", "no"}, listed : [Types -> Links],
           todo : SUBSET Types, live : SUBSET Types, transient : {"yes", "no"}]

NoSubs == [t \in Types |-> None]
NoPass == [step |-> "idle", session |-> None, data |-> NoData, fresh |-> "yes",
           listed |-> NoSubs, todo |-> {}, live |-> {}, transient |-> "no"]

NotLoaded == [db |-> Removed, token |-> "idle"]
Loads == {NotLoaded} \cup [db : Configs, token : Tokens]

TypeOK ==
  /\ db \in Configs
  /\ grant \in {"valid", "revoked"}
  /\ sock \in [Sockets -> SocketStates]
  /\ subs \in [Types -> Links]
  /\ conn \in Conns
  /\ chain \in Seq(Entries) /\ Len(chain) <= MaxQueue
  /\ pass \in Passes /\ zombie \in Passes
  /\ top \in [waiting : 0 .. MaxReloads, loaded : Loads]
  /\ dropped \in {"no", "lapsed", "reload", "blind", "robbed"}
  /\ used \in 0 .. MaxEvents

-----------------------------------------------------------------------------
UseEvent == used < MaxEvents /\ used' = used + 1

\* Sockets nothing refers to any more.
Free == {s \in Sockets :
           /\ sock[s] = "closed"
           /\ s \notin {conn.ws, conn.session, conn.old, pass.session, zombie.session}
           /\ \A t \in Types : s \notin {subs[t], pass.listed[t], zombie.listed[t]}
           /\ \A i \in 1 .. Len(chain) : chain[i].session # s}

NewSocket == CHOOSE s \in Free : \A r \in Free : s <= r

\* freshSessionGeneration++
Bumped(q) == [i \in 1 .. Len(q) |-> [q[i] EXCEPT !.same = "no"]]

Entry(kind, session, refresh) ==
  [kind |-> kind, session |-> session, refresh |-> refresh, same |-> "yes"]

\* Mistake: a queued pass subscribes with the token it finds.
QueuedPassAsIs(session) == Entry("pass", session, "no")

\* SubscribePassRunner.queue: a queued pass resolves its token again.
QueuedPass(session) == Entry("pass", session, "yes")

Begin(data, session) ==
  [NoPass EXCEPT
     !.session = session, !.data = data,
     !.todo = IF data.token = "none" THEN {} ELSE data.wanted,
     !.step = IF data.token = "none" THEN "prune" ELSE "list"]

\* stop(): the running pass goes on, and finds the connection stopped.
StopConnection(why) ==
  /\ conn' = NoConn
  /\ sock' = [s \in Sockets |-> IF s \in {conn.ws, conn.old} THEN "closed" ELSE sock[s]]
  /\ chain' = <<>>
  /\ pass' = NoPass
  /\ dropped' = why

-----------------------------------------------------------------------------
(* Reloads: startEventSub and reloadEventSubSubscriptions *)

Init ==
  /\ db \in Configs /\ db.types # {}
  /\ grant = "valid"
  /\ sock = [s \in Sockets |-> "closed"]
  /\ subs = NoSubs
  /\ conn = NoConn
  /\ chain = <<>>
  /\ pass = NoPass /\ zombie = NoPass
  /\ top = [waiting |-> 1, loaded |-> NotLoaded]
  /\ dropped = "no"
  /\ used = 0

Reload == [top EXCEPT !.waiting = IF @ < MaxReloads THEN @ + 1 ELSE @]

\* The panel, or the bot joining or leaving the channel, changes what is
\* wanted and calls reloadEventSubSubscriptions.
ChangeConfig ==
  /\ UseEvent
  /\ db' \in Configs \ {db}
  /\ top' = Reload
  /\ UNCHANGED <<grant, sock, subs, conn, chain, pass, zombie, dropped>>

\* loadStreamersForEventSub; a token that cannot be refreshed is null.
TopLoads ==
  /\ top.waiting > 0 /\ top.loaded = NotLoaded
  /\ \E token \in IF grant = "valid" THEN {"valid", "none"} ELSE {"none"} :
       /\ IF token = "none" /\ grant = "valid" THEN UseEvent ELSE UNCHANGED used
       /\ top' = [waiting |-> top.waiting - 1, loaded |-> [db |-> db, token |-> token]]
  /\ UNCHANGED <<db, grant, sock, subs, conn, chain, pass, zombie, dropped>>

\* doReload: no such streamer any more.
StopRemoved ==
  /\ top.loaded # NotLoaded /\ top.loaded.db = Removed
  /\ zombie = NoPass
  /\ StopConnection("no")
  /\ zombie' = IF pass.step \in {"list", "ensure", "prune"} THEN pass ELSE NoPass
  /\ top' = [top EXCEPT !.loaded = NotLoaded]
  /\ UNCHANGED <<db, grant, subs, used>>

Loaded == [wanted |-> top.loaded.db.types, token |-> top.loaded.token]

\* doReload: a new connection is made and started.
StartConnection ==
  /\ top.loaded # NotLoaded /\ top.loaded.db # Removed
  /\ conn.state = "none" /\ Free # {}
  /\ conn' = [NoConn EXCEPT !.state = "running", !.ws = NewSocket, !.data = Loaded]
  /\ sock' = [sock EXCEPT ![NewSocket] = "opening"]
  /\ top' = [top EXCEPT !.loaded = NotLoaded]
  /\ dropped' = "no"
  /\ UNCHANGED <<db, grant, subs, chain, pass, zombie, used>>

\* doReload: StreamerConnection.reload.
ReloadConnection ==
  /\ top.loaded # NotLoaded /\ top.loaded.db # Removed
  /\ conn.state = "running" /\ Len(chain) < MaxQueue
  /\ conn' = [conn EXCEPT !.data = Loaded, !.retry = "off", !.attempts = 0]
  /\ chain' = Append(chain, Entry("reload", None, "no"))
  /\ pass' = IF pass.step = "token" THEN [pass EXCEPT !.fresh = "no"] ELSE pass
  /\ top' = [top EXCEPT !.loaded = NotLoaded]
  /\ UNCHANGED <<db, grant, sock, subs, zombie, dropped, used>>

-----------------------------------------------------------------------------
(* Sockets and sessions *)

\* forceReconnect of the connection's socket s.
ForceReconnect(s) ==
  /\ conn' = [conn EXCEPT !.ws = None, !.session = None, !.retry = "off",
                          !.migrating = "no", !.deferred = "no", !.timer = "on"]
  /\ sock' = [sock EXCEPT ![s] = "closed"]
  /\ chain' = Bumped(chain)
  /\ UNCHANGED <<pass, zombie, top, dropped>>

ReconnectTimerFires ==
  /\ conn.timer = "on" /\ Free # {}
  /\ conn' = [conn EXCEPT !.timer = "off", !.ws = NewSocket]
  /\ sock' = [sock EXCEPT ![NewSocket] = "opening"]
  /\ UNCHANGED <<db, grant, subs, chain, pass, zombie, top, dropped, used>>

\* onOpen and onSessionWelcome of a fresh session.
Welcome ==
  LET s == conn.ws IN
  /\ s # None /\ sock[s] = "opening" /\ conn.migrating = "no"
  /\ Len(chain) < MaxQueue
  /\ sock' = [sock EXCEPT ![s] = "open"]
  /\ conn' = [conn EXCEPT !.session = s, !.retry = "off", !.attempts = 0]
  /\ chain' = Append(Bumped(chain), QueuedPass(s))
  /\ UNCHANGED <<db, grant, subs, pass, zombie, top, dropped, used>>

\* The welcome that ends a migration: Twitch has moved the subscriptions.
MigrationWelcome ==
  LET s == conn.ws IN
  /\ s # None /\ sock[s] = "opening" /\ conn.migrating = "yes"
  /\ Len(chain) < MaxQueue
  /\ sock' = [sock EXCEPT ![s] = "open"]
  /\ subs' = [t \in Types |-> IF subs[t] = conn.session THEN s ELSE subs[t]]
  /\ conn' = [conn EXCEPT !.session = s, !.migrating = "no", !.deferred = "no"]
  /\ chain' = IF conn.deferred = "yes" THEN Append(chain, QueuedPass(s)) ELSE chain
  /\ UNCHANGED <<db, grant, pass, zombie, top, dropped, used>>

\* Mistake: the socket an earlier migration was to close is forgotten.
OverwritePending ==
  /\ UseEvent
  /\ conn.ws # None /\ conn.ws = conn.session /\ sock[conn.ws] = "open" /\ Free # {}
  /\ sock' = [sock EXCEPT ![NewSocket] = "opening"]
  /\ conn' = [conn EXCEPT !.ws = NewSocket, !.old = conn.ws, !.migrating = "yes"]
  /\ UNCHANGED <<db, grant, subs, chain, pass, zombie, top, dropped>>

\* Twitch asks to migrate: handleSessionReconnect.  It asks a socket once.
SessionReconnect ==
  /\ UseEvent
  /\ conn.ws # None /\ conn.ws = conn.session /\ sock[conn.ws] = "open" /\ Free # {}
  /\ sock' = [s \in Sockets |-> CASE s = NewSocket -> "opening"
                                  [] s = conn.old  -> "closed"
                                  [] OTHER         -> sock[s]]
  /\ conn' = [conn EXCEPT !.ws = NewSocket, !.old = conn.ws, !.migrating = "yes"]
  /\ UNCHANGED <<db, grant, subs, chain, pass, zombie, top, dropped>>

\* migrationCloseTimer
MigrationCloseTimer ==
  /\ conn.old # None
  /\ sock' = [sock EXCEPT ![conn.old] = "closed"]
  /\ conn' = [conn EXCEPT !.old = None]
  /\ UNCHANGED <<db, grant, subs, chain, pass, zombie, top, dropped, used>>

\* A close or error event, or an invalid reconnect URL.
SocketFails ==
  /\ UseEvent
  /\ conn.ws # None /\ sock[conn.ws] # "mute"
  /\ ForceReconnect(conn.ws)
  /\ UNCHANGED <<db, grant, subs>>

\* The connection is silently lost, before or after it opened ...
SocketHangs ==
  /\ UseEvent
  /\ conn.ws # None /\ sock[conn.ws] \in {"opening", "open"}
  /\ sock' = [sock EXCEPT ![conn.ws] = "mute"]
  /\ UNCHANGED <<db, grant, subs, conn, chain, pass, zombie, top, dropped>>

\* ... which the connect or the keepalive timeout notices.
WatchdogFires ==
  /\ conn.ws # None /\ sock[conn.ws] = "mute"
  /\ ForceReconnect(conn.ws)
  /\ UNCHANGED <<db, grant, subs, used>>

\* Twitch closes a session that has no subscription, after some ten seconds:
\* a pass that runs has ended by then.
IdleClose ==
  /\ conn.ws # None /\ conn.ws = conn.session /\ sock[conn.ws] = "open"
  /\ chain = <<>> /\ \A t \in Types : subs[t] # conn.ws
  /\ ForceReconnect(conn.ws)
  /\ UNCHANGED <<db, grant, subs, used>>

\* Twitch drops what is bound to a session that is gone.
TwitchDrops ==
  \E s \in Sockets :
    /\ sock[s] = "closed" /\ ~(conn.migrating = "yes" /\ conn.session = s)
    /\ \E t \in Types : subs[t] = s
    /\ subs' = [t \in Types |-> IF subs[t] = s THEN None ELSE subs[t]]
    /\ UNCHANGED <<db, grant, sock, conn, chain, pass, zombie, top, dropped, used>>

\* A revocation message: handleRevocation reloads.
SubRevoked ==
  /\ UseEvent
  /\ conn.session # None /\ sock[conn.session] = "open"
  /\ \E t \in Types :
       /\ subs[t] = conn.session
       /\ subs' = [subs EXCEPT ![t] = None]
  /\ top' = Reload
  /\ UNCHANGED <<db, grant, sock, conn, chain, pass, zombie, dropped>>

\* The streamer removes the app: the token is cleared, then a reload.
GrantRevoked ==
  /\ UseEvent
  /\ grant = "valid" /\ conn.session # None /\ sock[conn.session] = "open"
  /\ grant' = "revoked"
  /\ subs' = NoSubs
  /\ top' = Reload
  /\ UNCHANGED <<db, sock, conn, chain, pass, zombie, dropped>>

\* A token that was just loaded outlasts the passes waiting for it.
TokenExpires ==
  /\ UseEvent
  /\ conn.data.token = "valid" /\ \A i \in 1 .. Len(chain) : chain[i].kind = "pass"
  /\ top.loaded = NotLoaded
  /\ conn' = [conn EXCEPT !.data.token = "expired"]
  /\ UNCHANGED <<db, grant, sock, subs, chain, pass, zombie, top, dropped>>

\* The process ends, and starts EventSub anew.
Restart ==
  /\ UseEvent
  /\ conn' = NoConn
  /\ sock' = [s \in Sockets |-> "closed"]
  /\ chain' = <<>>
  /\ pass' = NoPass /\ zombie' = NoPass
  /\ top' = [waiting |-> 1, loaded |-> NotLoaded]
  /\ dropped' = "no"
  /\ UNCHANGED <<db, grant, subs>>

-----------------------------------------------------------------------------
(* The subscribe chain *)

Ready == chain # <<>> /\ pass.step = "idle"
Ours(e) == conn.session = e.session /\ conn.migrating = "no"

\* carryPassOverMigration: what becomes of an overtaken pass, with the rest
\* of the chain, on connection c.
Carry(c, e, rest) ==
  /\ chain' = IF e.same = "no" \/ c.migrating = "yes" \/ c.session = None
                THEN rest ELSE Append(rest, QueuedPass(c.session))
  /\ conn' = IF e.same = "yes" /\ (c.migrating = "yes" \/ c.session = None)
               THEN [c EXCEPT !.deferred = "yes"] ELSE c

\* StreamerConnection.doReload
RunReload ==
  /\ Ready /\ Head(chain).kind = "reload"
  /\ CASE conn.migrating = "yes" ->
            /\ conn' = [conn EXCEPT !.deferred = "yes"]
            /\ chain' = Tail(chain)
            /\ UNCHANGED <<sock, pass>>
       [] conn.migrating = "no" /\ (conn.ws = None \/ conn.session = None) ->
            /\ chain' = Tail(chain)
            /\ IF conn.ws = None /\ conn.timer = "off" /\ Free # {}
                 THEN /\ conn' = [conn EXCEPT !.ws = NewSocket]
                      /\ sock' = [sock EXCEPT ![NewSocket] = "opening"]
                 ELSE UNCHANGED <<conn, sock>>
            /\ UNCHANGED pass
       [] OTHER ->
            /\ chain' = [chain EXCEPT ![1] = Entry("pass", conn.session, "no")]
            /\ pass' = Begin(conn.data, conn.session)
            /\ UNCHANGED <<conn, sock>>
  /\ UNCHANGED <<db, grant, subs, zombie, top, dropped, used>>

\* run(): the pass no longer owns its session when it starts.
SkipOvertaken ==
  /\ Ready /\ Head(chain).kind = "pass" /\ ~Ours(Head(chain))
  /\ Carry(conn, Head(chain), Tail(chain))
  /\ UNCHANGED <<db, grant, sock, subs, pass, zombie, top, dropped, used>>

StartPass ==
  /\ Ready /\ Head(chain).kind = "pass" /\ Ours(Head(chain))
  /\ pass' = IF Head(chain).refresh = "yes"
               THEN [NoPass EXCEPT !.step = "token", !.session = conn.session,
                                   !.data.wanted = conn.data.wanted]
               ELSE Begin(conn.data, conn.session)
  /\ UNCHANGED <<db, grant, sock, subs, conn, chain, zombie, top, dropped, used>>

\* Mistake: writes back the data the refresh began with, and the new token.
RefreshedAnyway(token) ==
  [conn EXCEPT !.data = [wanted |-> pass.data.wanted, token |-> token]]

\* setData, unless a reload replaced the data meanwhile.
Refreshed(token) ==
  IF pass.fresh = "yes" THEN [conn EXCEPT !.data.token = token] ELSE conn

\* refreshToken, and the check after it.
TokenRefreshed ==
  /\ pass.step = "token"
  /\ \E next \in {Refreshed("valid"), conn, Refreshed("lapsed")} :
       /\ CASE next = Refreshed("valid") -> grant = "valid" /\ UNCHANGED used
            [] OTHER ->
                 /\ next = IF conn.data.token = "expired" THEN Refreshed("lapsed") ELSE conn
                 /\ IF grant = "valid" THEN UseEvent ELSE UNCHANGED used
       /\ IF Ours(Head(chain))
            THEN /\ pass' = Begin(next.data, pass.session)
                 /\ conn' = next
                 /\ UNCHANGED chain
            ELSE /\ pass' = NoPass
                 /\ Carry(next, Head(chain), Tail(chain))
  /\ UNCHANGED <<db, grant, sock, subs, zombie, top, dropped>>

-----------------------------------------------------------------------------
(* subscribeForStreamer, for a pass p *)

Authorized(p) == p.data.token = "valid" /\ grant = "valid"

\* listOwnSubscriptions: a listing that fails counts as empty.
Lists(p, p2) ==
  /\ p.step = "list"
  /\ \/ /\ Authorized(p)
        /\ p2 = [p EXCEPT !.step = "ensure", !.listed = subs]
        /\ UNCHANGED used
     \/ /\ IF Authorized(p) THEN UseEvent ELSE UNCHANGED used
        /\ p2 = [p EXCEPT !.step = "ensure", !.listed = NoSubs]
  /\ UNCHANGED subs

\* ensureSubscription of type t: kept, or deleted and created.
Accepts(s) == sock[s] \in {"open", "mute"}
Kept(p, t) == p.listed[t] = p.session
Remaining(p, t) ==
  IF p.listed[t] # None /\ subs[t] = p.listed[t] THEN [subs EXCEPT ![t] = None] ELSE subs

Ensured(p, p2) ==
  \E t \in p.todo :
    LET done == [p EXCEPT !.todo = @ \ {t}]
        live == [done EXCEPT !.live = @ \cup {t}]
        failed == [done EXCEPT !.transient = "yes"]
        left == Remaining(p, t)
    IN  /\ p.step = "ensure"
        /\ \/ \* bound to this session and enabled, or created, or a 409
              /\ Kept(p, t) \/ (Authorized(p) /\ (left[t] # None \/ Accepts(p.session)))
              /\ p2 = live
              /\ subs' = IF Kept(p, t) THEN subs
                         ELSE IF left[t] # None THEN left
                         ELSE [left EXCEPT ![t] = p.session]
              /\ UNCHANGED used
           \/ \* the session is gone
              /\ ~Kept(p, t) /\ Authorized(p) /\ left[t] = None
              /\ ~Accepts(p.session)
              /\ p2 = failed
              /\ subs' = left
              /\ UNCHANGED used
           \/ \* 401 or 403
              /\ ~Kept(p, t) /\ ~Authorized(p)
              /\ p2 = done
              /\ UNCHANGED <<subs, used>>
           \/ \* the create fails, perhaps only its reply is lost
              /\ ~Kept(p, t) /\ Authorized(p)
              /\ UseEvent
              /\ p2 = failed
              /\ \/ subs' = left
                 \/ /\ left[t] = None /\ Accepts(p.session)
                    /\ subs' = [left EXCEPT ![t] = p.session]

\* deleteStaleSubscriptions: listed, and no longer wanted.  Best effort.
Pruned(p, p2) ==
  /\ p.step = "ensure" /\ p.todo = {}
  /\ p2 = [p EXCEPT !.step = "prune", !.listed = NoSubs]
  /\ \/ /\ subs' = [t \in Types |->
             IF t \notin p.data.wanted /\ subs[t] = p.listed[t] THEN None ELSE subs[t]]
        /\ UNCHANGED used
     \/ /\ \E t \in Types \ p.data.wanted : p.listed[t] # None
        /\ UseEvent
        /\ UNCHANGED subs

PassSteps ==
  /\ Lists(pass, pass') \/ Ensured(pass, pass') \/ Pruned(pass, pass')
  /\ dropped' = IF \E t \in pass'.live \ pass.live : subs'[t] # pass.session
                  THEN "blind" ELSE dropped
  /\ UNCHANGED <<db, grant, sock, conn, chain, zombie, top>>

\* A subscription of the live session goes.
Robs == \E t \in Types : subs[t] # None /\ subs[t] = conn.session /\ subs'[t] # subs[t]

ZombieSteps ==
  /\ Lists(zombie, zombie') \/ Ensured(zombie, zombie') \/ Pruned(zombie, zombie')
  /\ dropped' = IF Robs THEN "robbed" ELSE dropped
  /\ UNCHANGED <<db, grant, sock, conn, chain, pass, top>>

-----------------------------------------------------------------------------
(* What a pass leads to *)

\* run(): the connection was stopped while it subscribed; what it created on
\* the closed session is removed.
ZombieEnds ==
  /\ zombie.step = "prune"
  /\ zombie' = NoPass
  /\ \/ /\ subs' = [t \in Types |->
             IF zombie.live # {} /\ subs[t] = zombie.session THEN None ELSE subs[t]]
        /\ UNCHANGED used
     \/ /\ zombie.live # {}
        /\ UseEvent
        /\ UNCHANGED subs
  /\ UNCHANGED <<db, grant, sock, conn, chain, pass, top, dropped>>

\* run(): the pass lost its session while it subscribed.
ResultIgnored ==
  /\ pass.step = "prune" /\ ~Ours(Head(chain))
  /\ pass' = NoPass
  /\ Carry(conn, Head(chain), Tail(chain))
  /\ UNCHANGED <<db, grant, sock, subs, zombie, top, dropped, used>>

Desired(p) == IF p.data.token = "none" THEN {} ELSE p.data.wanted

shouldSelfStop(p) ==
  Desired(p) = {} \/ (p.live = {} /\ p.transient = "no")

\* Mistake: SUBSCRIBE_RETRY_MAX_ATTEMPTS is forgotten.
RetriesAlways(p) ==
  IF p.transient = "no" THEN [conn EXCEPT !.retry = "off", !.attempts = 0]
  ELSE [conn EXCEPT !.retry = "on", !.attempts = @ + 1]

\* onSubscribeSucceeded resets only the reconnect delay.
Retries(p) ==
  IF p.transient = "no" THEN [conn EXCEPT !.retry = "off", !.attempts = 0]
  ELSE IF conn.attempts < MaxAttempts
    THEN [conn EXCEPT !.retry = "on", !.attempts = @ + 1]
  ELSE [conn EXCEPT !.retry = "off"]

\* handleSubscribeOutcome
OutcomeHandled ==
  /\ pass.step = "prune" /\ Ours(Head(chain))
  /\ ~shouldSelfStop(pass)
  /\ pass' = NoPass
  /\ conn' = Retries(pass)
  /\ chain' = Tail(chain)
  /\ UNCHANGED <<db, grant, sock, subs, zombie, top, dropped, used>>

SelfStop ==
  /\ pass.step = "prune" /\ Ours(Head(chain))
  /\ shouldSelfStop(pass)
  /\ StopConnection(IF conn.data # pass.data THEN "reload"
                    ELSE IF pass.data.token \in {"lapsed", "none"} THEN "lapsed" ELSE "no")
  /\ UNCHANGED <<db, grant, subs, zombie, top, used>>

\* runSubscribeRetry
RetryFires ==
  /\ conn.retry = "on"
  /\ IF conn.session = None
       THEN conn' = [conn EXCEPT !.retry = "off"] /\ UNCHANGED chain
     ELSE IF conn.migrating = "yes"
       THEN conn' = [conn EXCEPT !.retry = "off", !.deferred = "yes"] /\ UNCHANGED chain
     ELSE /\ Len(chain) < MaxQueue
          /\ conn' = [conn EXCEPT !.retry = "off"]
          /\ chain' = Append(chain, QueuedPass(conn.session))
  /\ UNCHANGED <<db, grant, sock, subs, pass, zombie, top, dropped, used>>

-----------------------------------------------------------------------------
Reloads == TopLoads \/ StopRemoved \/ StartConnection \/ ReloadConnection

Chain == RunReload \/ SkipOvertaken \/ StartPass \/ TokenRefreshed \/ PassSteps
         \/ ResultIgnored \/ OutcomeHandled \/ SelfStop

Timers == ReconnectTimerFires \/ MigrationCloseTimer \/ WatchdogFires

Twitch == SessionReconnect \/ SocketFails \/ SocketHangs \/ SubRevoked
          \/ GrantRevoked \/ TokenExpires

Next == Reloads \/ Chain \/ ZombieSteps \/ ZombieEnds \/ RetryFires
        \/ Timers \/ Welcome \/ MigrationWelcome \/ IdleClose \/ TwitchDrops
        \/ Twitch \/ ChangeConfig \/ Restart

Spec == Init /\ [][Next]_vars

\* Awaited calls return, timers fire, sockets open, Twitch tidies up.
FairSpec ==
  /\ Spec
  /\ WF_vars(Reloads) /\ WF_vars(Chain)
  /\ WF_vars(ZombieSteps) /\ WF_vars(ZombieEnds)
  /\ WF_vars(ReconnectTimerFires) /\ WF_vars(MigrationCloseTimer)
  /\ WF_vars(WatchdogFires) /\ WF_vars(RetryFires)
  /\ WF_vars(Welcome) /\ WF_vars(MigrationWelcome)
  /\ WF_vars(IdleClose) /\ WF_vars(TwitchDrops)

-----------------------------------------------------------------------------
(* Properties *)

\* A running connection has either a socket or a reconnect pending, never
\* both and never neither, and no other socket of its own stays open but the
\* one a migration is about to close (connect() closes nothing it replaces).
OneLink ==
  /\ conn.state = "running" => (conn.ws = None <=> conn.timer = "on")
  /\ conn.state = "none" => conn.timer = "off"
  /\ \A s \in Sockets : sock[s] # "closed" => s \in {conn.ws, conn.old}

\* A connection stops itself only if nothing is wanted or nothing can be had:
\* the authorization is gone, or the token could not be refreshed.  It never
\* does so over a token that was simply left to expire.
SelfStopIsJustified ==
  [][SelfStop => \/ pass.data.wanted = {}
                 \/ grant = "revoked"
                 \/ pass.data.token \in {"lapsed", "none"}]_vars

Wanted == db.types

Subscribed ==
  /\ conn.ws = conn.session
  /\ \A t \in Wanted : subs[t] = conn.ws

\* Whatever failed, migrated, was revoked or changed meanwhile, the streamer
\* ends up subscribed to what the configuration asks for on the live session,
\* unless the authorization is gone, or the connection stopped itself for
\* want of a token or with a reload still queued (see ReloadIsNotLost), or a
\* pass whose listing failed took a dead session's subscription for its own, or
\* a stopped connection's pass took one away (see ZombieSteps), or every
\* retry was used up.
EventuallySubscribed ==
  <>[](\/ Wanted = {} \/ grant = "revoked"
       \/ dropped \in {"blind", "robbed"}
       \/ conn.attempts = MaxAttempts
       \/ conn.state = "none" /\ dropped # "no"
       \/ Subscribed)

\* reloadEventSubSubscriptions's doc: "Re-syncs EventSub connections with the
\* current streamer config", also when it meets a pass of an earlier config.
ReloadIsNotLost == [][dropped' # "reload"]_vars
=============================================================================
