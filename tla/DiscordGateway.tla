---------------------------- MODULE DiscordGateway ----------------------------
(***************************************************************************)
(* The one Discord client of the bot: logging in, the retry after a failed *)
(* login, the fresh login after a close for good, and the watchdog for a   *)
(* reconnect loop that has gone silent.  A client is what discord.js makes *)
(* of it; what it emits is external.                                       *)
(***************************************************************************)
EXTENDS Naturals, FiniteSets

CONSTANTS
  Clients,              \* enough for the current one and replaced ones that may still emit
  MaxGatewayUpsets

VARIABLES
  gateway,     \* the module state of discordBot.ts and discordGatewayWatchdog.ts, and every client's life
  discordUp,   \* Discord accepts logins
  awaited,     \* readyWaiters is not empty: waitForDiscordReady callers
  gatewayUpsets

gatewayVars == <<gateway, discordUp, awaited, gatewayUpsets>>

None == 0
Upset == gatewayUpsets < MaxGatewayUpsets /\ gatewayUpsets' = gatewayUpsets + 1
NoUpset == UNCHANGED gatewayUpsets

\* A client that has been destroyed is replaced, and its handlers are still registered.
Alive == {c \in Clients : gateway.life[c] \in {"login", "silent", "up", "lost"}}
Tracked == {gateway.booting, gateway.ready} \ {None}

Fresh(g) ==
  LET free == {c \in Clients : g.life[c] = "free"}
  IN CHOOSE c \in IF free # {} THEN free ELSE {k \in Clients : g.life[k] = "replaced"} : TRUE

\* startDiscordBot
Started(g) ==
  IF g.booting # None \/ g.ready # None THEN g
  ELSE [g EXCEPT !.booting = Fresh(g), !.life[Fresh(g)] = "login", !.recent = TRUE]

\* stopDiscordBot; the watchdog it stops is started again by whoever starts the bot.
Stopped(g) ==
  [g EXCEPT !.booting = None, !.ready = None, !.backoff = FALSE, !.connected = FALSE, !.recovery = "none",
            !.life = [c \in Clients |-> IF c \in {g.booting, g.ready} THEN "replaced" ELSE g.life[c]]]
-------------------------------------------------------------------------------
(* Logging in.                                                              *)

\* Mistake: a rejected or ready client is taken for the one being booted.
WhicheverIsBooting(c) == gateway.booting # None

IsBooting(c) == gateway.booting = c

\* login() rejects.  Only the current boot gives up and retries after the backoff.
LoginRejected(c) ==
  /\ gateway.life[c] \in {"login", "silent", "replaced"}
  /\ IF discordUp THEN Upset ELSE NoUpset
  /\ gateway' = LET ended == [gateway EXCEPT !.life[c] = "free"]
                IN IF IsBooting(c) THEN [ended EXCEPT !.booting = None, !.recovery = "none", !.backoff = TRUE]
                   ELSE ended
  /\ UNCHANGED <<discordUp, awaited>>

\* clientReady, which destroys a client that was stopped while it booted.
ClientReady(c) ==
  /\ discordUp /\ gateway.life[c] \in {"login", "silent", "replaced"} /\ c # gateway.ready
  /\ IF IsBooting(c)
     THEN /\ gateway' = [gateway EXCEPT !.booting = None, !.ready = c, !.life[c] = "up", !.backoff = FALSE,
                                        !.recent = TRUE, !.connected = TRUE, !.recovery = "none"]
          /\ awaited' = FALSE
     ELSE gateway' = [gateway EXCEPT !.life[c] = "free"] /\ UNCHANGED awaited
  /\ NoUpset /\ UNCHANGED discordUp

\* Discord answers the current login.
LoginAnswered(c) == IsBooting(c) /\ (LoginRejected(c) \/ ClientReady(c))

\* login() has resolved or not, and the shard says nothing more before it is ready.
HandshakeHangs ==
  /\ gateway.booting # None /\ gateway.life[gateway.booting] = "login" /\ Upset
  /\ gateway' = [gateway EXCEPT !.life[gateway.booting] = "silent"]
  /\ UNCHANGED <<discordUp, awaited>>

\* The timer of scheduleReconnect
BackoffEnds ==
  /\ gateway.backoff
  /\ gateway' = Started([gateway EXCEPT !.backoff = FALSE])
  /\ UNCHANGED <<discordUp, awaited, gatewayUpsets>>
-------------------------------------------------------------------------------
(* The shard of the ready client.                                           *)

\* shardReconnecting, shardError
ShardLost ==
  /\ gateway.ready # None /\ gateway.life[gateway.ready] = "up"
  /\ IF discordUp THEN Upset ELSE NoUpset
  /\ gateway' = [gateway EXCEPT !.life[gateway.ready] = "lost", !.connected = FALSE, !.recent = TRUE]
  /\ UNCHANGED <<discordUp, awaited>>

\* shardReady, shardResume
ShardBack ==
  /\ gateway.ready # None /\ gateway.life[gateway.ready] = "lost" /\ discordUp
  /\ gateway' = [gateway EXCEPT !.life[gateway.ready] = "up", !.connected = TRUE, !.recent = TRUE]
  /\ UNCHANGED <<discordUp, awaited, gatewayUpsets>>

\* The incident the watchdog is there for: discord.js retries no more and says nothing.
ShardGoesSilent ==
  /\ gateway.ready # None /\ gateway.life[gateway.ready] = "lost" /\ Upset
  /\ gateway' = [gateway EXCEPT !.life[gateway.ready] = "silent"]
  /\ UNCHANGED <<discordUp, awaited>>

\* shardDisconnect: the client is replaced, whichever client it is that says so.
ShardDisconnects(c) ==
  /\ gateway.life[c] \in {"up", "lost", "replaced"} /\ Upset
  /\ gateway' = Started(Stopped([gateway EXCEPT !.recent = TRUE,
                                                !.life[c] = IF @ = "replaced" THEN "free" ELSE @]))
  /\ UNCHANGED <<discordUp, awaited>>

\* A late shardReconnecting or shardError of a client that has been replaced.
LateShardError(c) ==
  /\ gateway.life[c] = "replaced" /\ Upset
  /\ gateway' = [gateway EXCEPT !.life[c] = "free", !.connected = FALSE, !.recent = TRUE]
  /\ UNCHANGED <<discordUp, awaited>>
-------------------------------------------------------------------------------
(* The watchdog.                                                            *)

\* A login that Discord answers is answered well before GATEWAY_STALL_THRESHOLD_MS.
AnswerIsDue == gateway.booting # None /\ gateway.life[gateway.booting] = "login"

StallThresholdPasses ==
  /\ ~gateway.connected /\ gateway.recent /\ ~AnswerIsDue
  /\ gateway' = [gateway EXCEPT !.recent = FALSE]
  /\ UNCHANGED <<discordUp, awaited, gatewayUpsets>>

\* WATCHDOG_RECOVERY_TIMEOUT_MS after a recovery that has not settled
RecoveryExpires ==
  /\ gateway.recovery = "pending" /\ ~AnswerIsDue
  /\ gateway' = [gateway EXCEPT !.recovery = "none"]
  /\ UNCHANGED <<discordUp, awaited, gatewayUpsets>>

Relogin(g) == Started([Stopped(g) EXCEPT !.recovery = "pending"])

\* checkGatewayStall
WatchdogActs ==
  /\ ~gateway.connected /\ gateway.recovery # "pending" /\ ~gateway.backoff /\ ~gateway.recent
  /\ gateway' = Relogin(gateway)
  /\ UNCHANGED <<discordUp, awaited, gatewayUpsets>>
-------------------------------------------------------------------------------
\* waitForDiscordReady: at once with a ready client, else until one is ready or the wait times out.
SomebodyWaits ==
  /\ ~awaited /\ gateway.ready = None /\ awaited' = TRUE
  /\ UNCHANGED <<gateway, discordUp, gatewayUpsets>>

WaitTimesOut == awaited /\ awaited' = FALSE /\ UNCHANGED <<gateway, discordUp, gatewayUpsets>>

DiscordGoesDown == discordUp /\ Upset /\ discordUp' = FALSE /\ UNCHANGED <<gateway, awaited>>
DiscordReturns == ~discordUp /\ discordUp' = TRUE /\ UNCHANGED <<gateway, awaited, gatewayUpsets>>

GatewayInit ==
  /\ gateway = Started([booting |-> None, ready |-> None, life |-> [c \in Clients |-> "free"], backoff |-> FALSE,
                        recovery |-> "none", recent |-> TRUE, connected |-> FALSE])
  /\ discordUp = TRUE /\ awaited = FALSE /\ gatewayUpsets = 0

GatewayNext ==
  \/ \E c \in Clients : LoginRejected(c) \/ ClientReady(c) \/ ShardDisconnects(c) \/ LateShardError(c)
  \/ HandshakeHangs \/ BackoffEnds
  \/ ShardLost \/ ShardBack \/ ShardGoesSilent
  \/ StallThresholdPasses \/ RecoveryExpires \/ WatchdogActs
  \/ SomebodyWaits \/ WaitTimesOut \/ DiscordGoesDown \/ DiscordReturns
-------------------------------------------------------------------------------
GatewayTypeOK ==
  /\ gateway.booting \in Clients \cup {None} /\ gateway.ready \in Clients \cup {None}
  /\ gateway.life \in [Clients -> {"free", "login", "silent", "up", "lost", "replaced"}]
  /\ gateway.recovery \in {"none", "pending"}
  /\ discordUp \in BOOLEAN /\ awaited \in BOOLEAN /\ gatewayUpsets \in 0..MaxGatewayUpsets

\* No message is handled by two clients: whichever logins, closes and recoveries overlap, a client
\* that is connected or may become so is the one the bot tracks.
OneClient == Alive \subseteq Tracked /\ Cardinality(Tracked) <= 1

\* The watchdog stands down for its own recovery only while one is on its way, never for one that
\* has settled or was cancelled by a stop; and never is there neither a client nor a retry.
SomethingIsUnderWay ==
  /\ gateway.recovery = "pending" => gateway.booting # None
  /\ Tracked # {} \/ gateway.backoff

\* Nobody waits for a client that is ready.
WaitersAreServed == awaited => gateway.ready = None

\* The bot is connected, says so, and nobody is kept waiting.
GatewayUp == gateway.connected /\ gateway.ready # None /\ gateway.life[gateway.ready] = "up" /\ ~awaited
===============================================================================
