------------------------------ MODULE EventStreams ------------------------------
(***************************************************************************)
(* The server-sent event streams of one streamer: the overlay OBS opens,   *)
(* the settings page told whether an overlay is connected, the companion   *)
(* app of one Discord user, a guild dashboard's status.  Requests that     *)
(* look something up before they attach, clients that go, stall or break,  *)
(* credentials that end meanwhile, and the shared connection counts.       *)
(***************************************************************************)
EXTENDS Naturals, FiniteSets

CONSTANTS
  Streams,
  SSE_MAX_TOTAL_CONNECTIONS,
  UNAUTH_OVERLAY_SSE_MAX_CONNECTIONS,
  maxPerChannel,
  MaxTokens, MaxStatus,
  MaxStreamUpsets

VARIABLES
  streams,           \* one request each, and its response
  totalConnections,  \* sseChannel's count
  poolCount,         \* unauthenticatedOverlayPool's count
  token,             \* the row of companion_app_tokens
  recentIssue,       \* the version recentIssues holds, 0 for none
  panelKey,          \* the mutation tokenMutationQueue runs
  disconnectDue,     \* an exchange or an app's logout is about to disconnect
  member,            \* "in" or "out" of the guild, or "removed": about to be disconnected
  status, pushes,    \* the guild's status, and statusPushQueue
  unheard,           \* history: credentials whose end was committed and reported failed
  staleIssue,        \* history: the cached plaintext's token was ended past tokenMutationQueue
  streamUpsets

streamVars == <<streams, totalConnections, poolCount, token, recentIssue, panelKey, disconnectDue,
                member, status, pushes, unheard, staleIssue, streamUpsets>>
credentialVars == <<token, recentIssue, panelKey, disconnectDue, member, unheard, staleIssue>>
statusVars == <<status, pushes>>

Kinds == {"overlay", "settings", "companion", "dashboard"}
NoStream == [kind |-> "none", pc |-> "none", cred |-> 0, socket |-> "up", told |-> 0, listening |-> FALSE]
IdleKey == [op |-> "none", pc |-> "idle", version |-> 0]

Upset == streamUpsets < MaxStreamUpsets /\ streamUpsets' = streamUpsets + 1
NoUpset == UNCHANGED streamUpsets

Attached(st) == {s \in Streams : st[s].pc \in {"attached", "open", "refused"}}
OfKind(st, k) == {s \in Attached(st) : st[s].kind = k}

\* A bound: what concerns no stream that was ever asked for is left out.
Asked(k) == \E s \in Streams : streams[s].kind = k /\ streams[s].pc # "gone"

\* A write that throws, or that finds more than SSE_MAX_PENDING_BYTES queued
Failing(r) == r.socket \in {"broken", "backlogged"}

\* dropBackloggedClient destroys the socket, and its close event follows.
Dropped(r) == IF r.socket = "backlogged" THEN "closing" ELSE r.socket

\* res.end(): its close event follows unless the client is not reading.
Ended(r) == [r EXCEPT !.socket = IF @ = "up" THEN "closing" ELSE @]
-------------------------------------------------------------------------------
(* The maps of connections.                                                 *)

\* The settings pages' listeners, told once the overlay's map has changed to `st': each broadcasts
\* the change, and a write that fails runs the chained cleanup.
Told(st, isConnected) ==
  [s \in Streams |->
     IF s \notin OfKind(st, "settings") THEN st[s]
     ELSE IF Failing(st[s]) THEN [st[s] EXCEPT !.pc = "gone", !.listening = FALSE, !.socket = Dropped(st[s])]
     ELSE [st[s] EXCEPT !.told = IF isConnected THEN 2 ELSE 1]]

\* notifyCountChange, then check() of every page that listens.  A page's first check always tells.
Notified(st, first) ==
  LET isConnected == OfKind(st, "overlay") # {}
      changed == isConnected # (OfKind(streams, "overlay") # {})
  IN IF first \/ (changed /\ \E s \in Streams : st[s].listening) THEN Told(st, isConnected) ELSE st

\* The slots of the streams that were attached and no longer are are released, once.
Becomes(st) ==
  LET released == Attached(streams) \ Attached(st)
      added == Attached(st) \ Attached(streams)
      ofPool(S) == Cardinality({s \in S : streams[s].kind = "overlay"})
  IN /\ streams' = st
     /\ totalConnections' = totalConnections + Cardinality(added) - Cardinality(released)
     /\ poolCount' = poolCount + ofPool(added) - ofPool(released)

\* What each kind shares more with than the process's cap
Family(k) == IF k \in {"overlay", "settings"} THEN {"overlay", "settings"} ELSE {k}

\* A bound: the streams of one behaviour are of one family, and of those that need a credential there
\* are two, the second asked for once the first is gone.
Requested(s, k) ==
  /\ streams[s].pc = "none" /\ \A t \in Streams : t < s => streams[t].pc # "none"
  /\ \A t \in Streams : streams[t].kind \in Family(k) \cup {"none"}
  /\ k \in {"companion", "dashboard"} => ~Asked(k) /\ Cardinality({t \in Streams : streams[t].kind = k}) < 2
  /\ \E v \in IF k = "companion" THEN 1..token.version ELSE {0} :
       streams' = [streams EXCEPT ![s] = [NoStream EXCEPT !.kind = k, !.pc = "looking", !.cred = v]]
  /\ NoUpset
  /\ UNCHANGED <<totalConnections, poolCount, credentialVars, statusVars>>

\* findDiscordIdByTokenHash with the exact token, requireGuildContext and hasLiveGuildAccess
StillAllowed(r) ==
  CASE r.kind = "companion" -> token = [version |-> r.cred, active |-> TRUE]
    [] r.kind = "dashboard" -> member = "in"
    [] OTHER -> TRUE

\* The route's look-up: the login, the streamer's row, the token or the membership.
LookedUp(s) ==
  /\ streams[s].pc = "looking"
  /\ \/ NoUpset /\ streams' = [streams EXCEPT ![s].pc = IF StillAllowed(streams[s]) THEN "admitted" ELSE "gone"]
     \/ Upset /\ streams' = [streams EXCEPT ![s].pc = "gone"]
  /\ UNCHANGED <<totalConnections, poolCount, credentialVars, statusVars>>

\* Mistake: a client that went during the look-up is attached all the same.
GoneOrNot(r) == FALSE

WentAway(r) == r.socket = "closed"

\* reserveConnectionSlots: the caps of the process, of the overlays' pool and of one key
NoRoom(k) ==
  \/ Cardinality(OfKind(streams, k)) >= maxPerChannel
  \/ totalConnections >= SSE_MAX_TOTAL_CONNECTIONS
  \/ k = "overlay" /\ poolCount >= UNAUTH_OVERLAY_SSE_MAX_CONNECTIONS

\* attachSseConnection, and what the overlay's status stream does with it in the same turn
Attach(s) ==
  LET r == streams[s]
      attached == [r EXCEPT !.pc = IF r.kind \in {"companion", "dashboard"} THEN "attached" ELSE "open",
                            !.listening = (r.kind = "settings")]
  IN /\ r.pc = "admitted"
     /\ IF WentAway(r) \/ NoRoom(r.kind)
        THEN Becomes([streams EXCEPT ![s].pc = "gone"])
        ELSE Becomes(Notified([streams EXCEPT ![s] = attached], r.kind = "settings"))
     /\ NoUpset
     /\ UNCHANGED <<credentialVars, statusVars>>

\* Mistake: only the user's identity is looked at again, not the token presented.
AnyToken(r) == IF r.kind = "companion" THEN token.active ELSE StillAllowed(r)

AllowedAgain(r) == StillAllowed(r)

\* The credential looked at once more: a stream that is refused, or cannot be checked, is ended.
Rechecked(s) ==
  LET r == streams[s]
      refused == [Ended(r) EXCEPT !.pc = "refused"]
  IN /\ r.pc = "attached"
     /\ \/ NoUpset /\ streams' = [streams EXCEPT ![s] = IF AllowedAgain(r) THEN [r EXCEPT !.pc = "open"] ELSE refused]
        \/ Upset /\ streams' = [streams EXCEPT ![s] = refused]
     /\ UNCHANGED <<totalConnections, poolCount, credentialVars, statusVars>>
-------------------------------------------------------------------------------
(* How a stream ends.                                                       *)

\* The client's socket goes, stops being read, or breaks without an event.
ClientChanges(s, to) ==
  /\ streams[s].pc \notin {"none", "gone"} /\ streams[s].socket = "up"
  /\ to # "closing" => Upset /\ s \in Attached(streams)
  /\ to = "closing" => NoUpset
  /\ streams' = [streams EXCEPT ![s].socket = to]
  /\ UNCHANGED <<totalConnections, poolCount, credentialVars, statusVars>>

\* 'close' of the request or the response: the cleanup, and the status stream's unsubscribe
CloseEvent(s) ==
  LET r == streams[s]
      left == [r EXCEPT !.pc = IF s \in Attached(streams) THEN "gone" ELSE @, !.socket = "closed", !.listening = FALSE]
  IN /\ r.socket = "closing"
     /\ Becomes(Notified([streams EXCEPT ![s] = left], FALSE))
     /\ NoUpset
     /\ UNCHANGED <<credentialVars, statusVars>>

\* A keepalive ping that fails runs the cleanup attachSseConnection made, not the chained one.
PingFails(s) ==
  /\ s \in Attached(streams) /\ Failing(streams[s])
  /\ Becomes(Notified([streams EXCEPT ![s].pc = "gone", ![s].socket = Dropped(streams[s])], FALSE))
  /\ NoUpset
  /\ UNCHANGED <<credentialVars, statusVars>>
-------------------------------------------------------------------------------
(* The companion app's token.                                               *)

disconnectCompanionConnections ==
  streams' = [s \in Streams |-> IF s \in OfKind(streams, "companion") THEN Ended(streams[s]) ELSE streams[s]]

IssueToken == token.version < MaxTokens /\ token' = [version |-> token.version + 1, active |-> TRUE]

\* The panel's request (unless the plaintext shown just now is shown again) or its revoke, in
\* tokenMutationQueue
PanelAsks(op) ==
  /\ panelKey = IdleKey /\ Asked("companion")
  /\ op = "issue" => recentIssue = 0 /\ token.version < MaxTokens
  /\ op = "revoke" => token.active
  /\ panelKey' = [op |-> op, pc |-> "writes", version |-> 0]
  /\ NoUpset
  /\ UNCHANGED <<streams, totalConnections, poolCount, token, recentIssue, disconnectDue, member,
                 statusVars, unheard, staleIssue>>

PanelWrites(answered) ==
  /\ panelKey.pc = "writes"
  /\ IF panelKey.op = "issue" THEN IssueToken ELSE token' = [token EXCEPT !.active = FALSE]
  /\ IF answered
     THEN NoUpset /\ panelKey' = [panelKey EXCEPT !.pc = "disconnects", !.version = token'.version] /\ UNCHANGED unheard
     ELSE Upset /\ panelKey' = IdleKey /\ unheard' = unheard \cup {token.version}
  /\ staleIssue' = (staleIssue \/ (~answered /\ recentIssue # 0))
  /\ UNCHANGED <<streams, totalConnections, poolCount, recentIssue, disconnectDue, member, statusVars>>

PanelWriteFails ==
  /\ panelKey.pc = "writes" /\ Upset
  /\ panelKey' = IdleKey
  /\ UNCHANGED <<streams, totalConnections, poolCount, token, recentIssue, disconnectDue, member,
                 statusVars, unheard, staleIssue>>

\* Mistake: a revoke leaves the plaintext shown just now in the cache.
KeptAfterRevoke == IF panelKey.op = "issue" THEN panelKey.version ELSE recentIssue

\* What recentIssues holds after the mutation
IssuedRecently == IF panelKey.op = "issue" THEN panelKey.version ELSE 0

PanelDisconnects ==
  /\ panelKey.pc = "disconnects"
  /\ disconnectCompanionConnections
  /\ recentIssue' = IssuedRecently
  /\ staleIssue' = (panelKey.op = "issue" /\ token # [version |-> panelKey.version, active |-> TRUE])
  /\ panelKey' = IdleKey
  /\ NoUpset
  /\ UNCHANGED <<totalConnections, poolCount, token, disconnectDue, member, statusVars, unheard>>

\* ISSUE_DEDUPE_WINDOW_MS is over.
DedupeWindowEnds ==
  /\ recentIssue # 0
  /\ recentIssue' = 0 /\ staleIssue' = FALSE
  /\ NoUpset
  /\ UNCHANGED <<streams, totalConnections, poolCount, token, panelKey, disconnectDue, member, statusVars, unheard>>

\* An OAuth code exchanged for a token, or the app's own token revoked as it logs out: neither runs
\* in tokenMutationQueue.
AppWrites(op, answered) ==
  /\ ~disconnectDue /\ Asked("companion")
  /\ IF op = "exchange" THEN IssueToken ELSE token.active /\ token' = [token EXCEPT !.active = FALSE]
  /\ IF answered
     THEN NoUpset /\ disconnectDue' = TRUE /\ UNCHANGED unheard
     ELSE Upset /\ unheard' = unheard \cup {token.version} /\ UNCHANGED disconnectDue
  /\ staleIssue' = (staleIssue \/ recentIssue # 0)
  /\ UNCHANGED <<streams, totalConnections, poolCount, recentIssue, panelKey, member, statusVars>>

AppDisconnects ==
  /\ disconnectDue
  /\ disconnectCompanionConnections
  /\ disconnectDue' = FALSE
  /\ NoUpset
  /\ UNCHANGED <<totalConnections, poolCount, token, recentIssue, panelKey, member, statusVars, unheard, staleIssue>>
-------------------------------------------------------------------------------
(* The guild's members and its status.                                      *)

RemoveMember(answered) ==
  /\ member = "in" /\ Asked("dashboard")
  /\ IF answered THEN NoUpset /\ member' = "removed" /\ UNCHANGED unheard
                 ELSE Upset /\ member' = "out" /\ unheard' = unheard \cup {0}
  /\ UNCHANGED <<streams, totalConnections, poolCount, token, recentIssue, panelKey, disconnectDue,
                 statusVars, staleIssue>>

disconnectGuildStatusConnectionsForMember ==
  /\ member = "removed"
  /\ member' = "out"
  /\ streams' = [s \in Streams |-> IF s \in OfKind(streams, "dashboard") THEN Ended(streams[s]) ELSE streams[s]]
  /\ NoUpset
  /\ UNCHANGED <<totalConnections, poolCount, token, recentIssue, panelKey, disconnectDue, statusVars,
                 unheard, staleIssue>>

\* A status nobody is connected for makes no difference.
StatusChanges ==
  /\ status < MaxStatus
  /\ OfKind(streams, "dashboard") # {}
  /\ status' = status + 1
  /\ pushes' = [pushes EXCEPT !.waiting = @ + 1]
  /\ NoUpset
  /\ UNCHANGED <<streams, totalConnections, poolCount, credentialVars>>

\* Mistake: pushes of one guild do not wait for each other.
PushAtOnce == TRUE

MayPush == pushes.reading = {}

\* The snapshot is taken as the push starts; the guild's name and members are awaited after it.
PushStarts ==
  /\ pushes.waiting > 0 /\ MayPush
  /\ pushes' = [waiting |-> pushes.waiting - 1, reading |-> pushes.reading \cup {status}]
  /\ NoUpset
  /\ UNCHANGED <<streams, totalConnections, poolCount, credentialVars, status>>

\* Mistake: a stream whose member has not been looked at again is pushed to.
AnyConnection(r) == TRUE

isVerifiedConnection(r) == r.pc = "open"

PushEnds(snapshot) ==
  LET eligible == {s \in OfKind(streams, "dashboard") : isVerifiedConnection(streams[s])}
  IN /\ snapshot \in pushes.reading
     /\ pushes' = [pushes EXCEPT !.reading = @ \ {snapshot}]
     /\ \/ /\ Becomes([s \in Streams |->
                         IF s \notin eligible THEN streams[s]
                         ELSE IF Failing(streams[s]) THEN [streams[s] EXCEPT !.pc = "gone", !.socket = Dropped(streams[s])]
                         ELSE [streams[s] EXCEPT !.told = snapshot]])
           /\ NoUpset
        \/ Upset /\ UNCHANGED <<streams, totalConnections, poolCount>>
     /\ UNCHANGED <<credentialVars, status>>
-------------------------------------------------------------------------------
StreamsInit ==
  /\ streams = [s \in Streams |-> NoStream]
  /\ totalConnections = 0 /\ poolCount = 0
  /\ token = [version |-> 1, active |-> TRUE]
  /\ recentIssue = 0 /\ panelKey = IdleKey /\ disconnectDue = FALSE
  /\ member = "in"
  /\ status = 0 /\ pushes = [waiting |-> 0, reading |-> {}]
  /\ unheard = {} /\ staleIssue = FALSE
  /\ streamUpsets = 0

StreamsNext ==
  \/ \E s \in Streams, k \in Kinds : Requested(s, k)
  \/ \E s \in Streams : LookedUp(s) \/ Attach(s) \/ Rechecked(s) \/ CloseEvent(s) \/ PingFails(s)
  \/ \E s \in Streams, to \in {"closing", "backlogged", "broken"} : ClientChanges(s, to)
  \/ \E op \in {"issue", "revoke"} : PanelAsks(op)
  \/ \E answered \in BOOLEAN : PanelWrites(answered) \/ RemoveMember(answered)
  \/ \E op \in {"exchange", "logout"}, answered \in BOOLEAN : AppWrites(op, answered)
  \/ PanelWriteFails \/ PanelDisconnects \/ DedupeWindowEnds \/ AppDisconnects
  \/ disconnectGuildStatusConnectionsForMember
  \/ StatusChanges \/ PushStarts \/ \E snapshot \in 0..MaxStatus : PushEnds(snapshot)

\* Timers fire and the event loop goes on.
StreamsSpec ==
  /\ StreamsInit /\ [][StreamsNext]_streamVars
  /\ \A s \in Streams : WF_streamVars(CloseEvent(s)) /\ WF_streamVars(PingFails(s))
-------------------------------------------------------------------------------
\* The state keeps to its types.
StreamsTypeOK ==
  /\ streams \in [Streams -> [kind : Kinds \cup {"none"},
                              pc : {"none", "looking", "admitted", "attached", "open", "refused", "gone"},
                              cred : 0..MaxTokens, socket : {"up", "backlogged", "broken", "closing", "closed"},
                              told : 0..(MaxStatus + 2), listening : BOOLEAN]]
  /\ token \in [version : 1..MaxTokens, active : BOOLEAN]
  /\ member \in {"in", "removed", "out"}
  /\ recentIssue \in 0..MaxTokens /\ disconnectDue \in BOOLEAN /\ unheard \subseteq 0..MaxTokens
  /\ status \in 0..MaxStatus /\ pushes \in [waiting : 0..MaxStatus, reading : SUBSET (0..MaxStatus)]
  /\ streamUpsets \in 0..MaxStreamUpsets

\* Both counts are those of the connections that are registered, within their limits, and none is
\* registered whose close event has already been and gone (sseChannel.ts, sseConnectionPool.ts).
ConnectionsAreCounted ==
  /\ totalConnections = Cardinality(Attached(streams)) /\ totalConnections <= SSE_MAX_TOTAL_CONNECTIONS
  /\ poolCount = Cardinality(OfKind(streams, "overlay")) /\ poolCount <= UNAUTH_OVERLAY_SSE_MAX_CONNECTIONS
  /\ \A s \in Attached(streams) : streams[s].socket # "closed"

\* A companion's stream that stays open is of the token that is active, a dashboard's of a member,
\* once what ends a credential has also disconnected its streams (companionEvents.ts,
\* dashboardStatusEvents.ts).
CredentialsHold ==
  \A s \in Attached(streams) :
    LET r == streams[s] IN
    r.pc = "open" /\ r.socket = "up" =>
      /\ r.kind = "companion" =>
           \/ token = [version |-> r.cred, active |-> TRUE]
           \/ panelKey.pc = "disconnects" \/ disconnectDue \/ r.cred \in unheard
      /\ r.kind = "dashboard" => member # "out" \/ 0 \in unheard

\* A plaintext the panel would show again is the active token's, unless the app has exchanged or
\* revoked it meanwhile (companionKeys.ts).
ShownKeyIsUsable ==
  recentIssue # 0 /\ ~staleIssue /\ panelKey.pc # "disconnects" => token = [version |-> recentIssue, active |-> TRUE]

\* A settings page knows whether the overlay is connected, and nothing but a ping that failed
\* leaves its subscription behind (createOverlayStatusEventsHandler).
PagesKnowTheOverlay ==
  \A s \in Streams :
    LET r == streams[s] IN
    /\ s \in OfKind(streams, "settings") /\ ~Failing(r) =>
         r.listening /\ r.told = (IF OfKind(streams, "overlay") # {} THEN 2 ELSE 1)
    /\ r.listening /\ s \notin Attached(streams) => r.socket \in {"broken", "closing"}

\* No dashboard is told an older status after a newer one, and none is told anything once its
\* member's removal has disconnected (statusPushQueue, pendingAccessCheck).
StatusGoesForward ==
  [][\A s \in OfKind(streams, "dashboard") :
       /\ streams'[s].told >= streams[s].told
       /\ streams'[s].told # streams[s].told /\ streams[s].socket = "up" => member # "out" \/ 0 \in unheard]_streamVars

\* Streams, their counts and what their pages were told agree.
StreamsAreAccounted ==
  ConnectionsAreCounted /\ CredentialsHold /\ ShownKeyIsUsable /\ PagesKnowTheOverlay

\* A stream whose client is gone, or not reading, does not stay registered.
DeadStreamsGo == \A s \in Attached(streams) : streams[s].socket = "up"
===============================================================================
