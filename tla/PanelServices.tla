---------------------------- MODULE PanelServices ----------------------------
(***************************************************************************)
(* The services behind the web panel, the chat's points, the voice channel *)
(* and the event streams, and who may use them.  They share the process    *)
(* and the database and no state that is modelled.  A behaviour is one of  *)
(* one service, `service', beside the others at rest; checking them in one *)
(* run says of each what a run of its own would say.                       *)
(***************************************************************************)
EXTENDS Integers, Sequences, FiniteSets

CONSTANTS
  Workers, Commands, Counters, Triggers, Users, Eligible, FlagSets, Assignees, Isolation, MaxWrites, MaxTries,
  Connections, MaxVoiceUpsets,
  UploadIds, Uploaders, UploadSize, MaxLive, UploadRequests, MaxUploadUpsets,
  OverlayUploads, MAX_CONCURRENT_OVERLAY_UPLOADS, MAX_PENDING_WEBM_TRANSCODES, MaxVideoUpsets,
  Uses, MAX_BALANCE, PointCost, PriceStep, MaxCost, MaxUsesPerStream, MaxUseUpsets,
  RaffleStarts, RaffleViewers, Amount,
  Streams, SSE_MAX_TOTAL_CONNECTIONS, UNAUTH_OVERLAY_SSE_MAX_CONNECTIONS, maxPerChannel, MaxTokens, MaxStatus,
  MaxStreamUpsets,
  KeyGuilds, MaxKeys, MaxKeyUpsets,
  People, BotOwners, Servers, Mutations, GivenLevels, MaxMemberUpsets,
  CodeRequests, Enrolments, Verifications, SignIns, CODE_MAX_ATTEMPTS, MAX_PASSKEYS_PER_USER, MaxDeviceCounter,
  MaxPasskeyUpsets

\* What the services take for granted of their settings; 0 stands for no connection and no raffle.
ASSUME WritesAssumption ==
  /\ {1, 2, 3} \subseteq Triggers /\ Triggers \subseteq Nat \ {0} /\ IsFiniteSet(Triggers)
  /\ 0 \notin Commands \cup Counters /\ Eligible \subseteq Users
  /\ FlagSets \subseteq SUBSET {"discord", "multi"} /\ Assignees \subseteq SUBSET Users
  /\ MaxTries \in Nat \ {0}
ASSUME VoiceAssumption == 0 \notin Connections /\ MaxVoiceUpsets \in Nat
ASSUME UploadsAssumption ==
  IsFiniteSet(UploadIds) /\ 0 \notin UploadIds /\ {UploadSize, MaxLive, MaxUploadUpsets} \subseteq Nat
ASSUME VideosAssumption ==
  /\ IsFiniteSet(OverlayUploads)
  /\ {MAX_CONCURRENT_OVERLAY_UPLOADS, MAX_PENDING_WEBM_TRANSCODES} \subseteq Nat
ASSUME PointsAssumption ==
  /\ {MAX_BALANCE, PointCost, PriceStep, MaxCost, MaxUseUpsets} \subseteq Nat
  /\ IsFiniteSet(Uses)
ASSUME RaffleAssumption ==
  0 \notin RaffleStarts /\ IsFiniteSet(RaffleViewers) /\ Amount \in Nat
ASSUME GuildsAssumption == GivenLevels \subseteq 0..3 /\ MaxMemberUpsets \in Nat
ASSUME PasskeysAssumption ==
  /\ IsFiniteSet(CodeRequests) /\ IsFiniteSet(Enrolments)
  /\ {CODE_MAX_ATTEMPTS, MAX_PASSKEYS_PER_USER, MaxDeviceCounter, MaxPasskeyUpsets} \subseteq Nat
ASSUME KeysAssumption == {MaxKeys, MaxKeyUpsets} \subseteq Nat
ASSUME StreamsAssumption ==
  /\ IsFiniteSet(Streams) /\ {SSE_MAX_TOTAL_CONNECTIONS, UNAUTH_OVERLAY_SSE_MAX_CONNECTIONS} \subseteq Nat
  /\ MaxTokens \in Nat \ {0} /\ {MaxStatus, MaxStreamUpsets} \subseteq Nat

VARIABLES
  service,
  tables, worker, writes, clashed,
  voice, attempt, staleCalls, linkStatus, sound, voiceUpsets, badChannel, orphanKilled,
  uploadFiles, uploadTask, deliveredFiles, revivedUpload, uploadUpsets,
  overlayUpload, overlayFiles, videoRows, activeUploads, pendingTranscodes, transcodeQueue, rowUnknown, videoUpsets,
  balance, uses, onCooldown, useUpsets,
  activeRaffle, raffleStart, entrants, joining, drawTimer, drawn,
  streams, totalConnections, poolCount, token, recentIssue, panelKey, disconnectDue, member, status, pushes,
  unheard, staleIssue, streamUpsets,
  keyVersion, approval, guildMember, recentRotation, keyRequest, revokedVersion, lostRotation, keyUpsets,
  memberLevel, guildRows, mutation, registry, reloadGeneration, missedReload, memberUpsets,
  enrolmentCode, lastCode, delivered, codeRequest, enrolment, verification, signIn, challenges, userHandle, signCount,
  deviceCounter, guesses, matches, passkeyUpsets

\* Two tables to start from: commands of an eligible user's channel and of another's, one with
\* nobody, a counter, an advanced command.
NoRows == [custom |-> [c \in Commands |-> [trigger |-> 0, flags |-> {}, users |-> {}]],
           counter |-> [k \in Counters |-> {}], advanced |-> 0]
OwnedBy(users) == [trigger |-> 1, flags |-> {}, users |-> users]
StartingTables ==
  {[NoRows EXCEPT !.custom[1] = OwnedBy(Eligible), !.advanced = 2],
   [NoRows EXCEPT !.custom[1] = OwnedBy(Users \ Eligible), !.custom[2] = OwnedBy({}), !.counter[1] = {2, 3}]}

\* A bot owner "o" who belongs nowhere, an admin "m" and a manager "p" of one guild, and a server
\* that has no member.
StartingGuilds == {[[g \in Servers |-> [x \in People |-> -1]] EXCEPT ![1]["m"] = 3, ![1]["p"] = 2]}

Writes == INSTANCE CommandWrites WITH Existing <- StartingTables
Voice == INSTANCE VoiceConnection
Pieces == INSTANCE Uploads
Videos == INSTANCE OverlayVideos
Points == INSTANCE AdvancedUses
Raffle == INSTANCE Raffles
Events == INSTANCE EventStreams
Keys == INSTANCE StreamdeckKeys
Guilds == INSTANCE GuildMembers WITH StartingMembers <- StartingGuilds
Passes == INSTANCE Passkeys

commandVars == <<tables, worker, writes, clashed>>
voiceVars == <<voice, attempt, staleCalls, linkStatus, sound, voiceUpsets, badChannel, orphanKilled>>
uploadVars == <<uploadFiles, uploadTask, deliveredFiles, revivedUpload, uploadUpsets>>
videoVars == <<overlayUpload, overlayFiles, videoRows, activeUploads, pendingTranscodes, transcodeQueue,
               rowUnknown, videoUpsets>>
useVars == <<balance, uses, onCooldown, useUpsets>>
raffleVars == <<activeRaffle, raffleStart, entrants, joining, drawTimer, drawn>>
streamVars == <<streams, totalConnections, poolCount, token, recentIssue, panelKey, disconnectDue, member,
                status, pushes, unheard, staleIssue, streamUpsets>>
keyVars == <<keyVersion, approval, guildMember, recentRotation, keyRequest, revokedVersion, lostRotation, keyUpsets>>
memberVars == <<memberLevel, guildRows, mutation, registry, reloadGeneration, missedReload, memberUpsets>>
passkeyVars == <<enrolmentCode, lastCode, delivered, codeRequest, enrolment, verification, signIn, challenges,
                 userHandle, signCount, deviceCounter, guesses, matches, passkeyUpsets>>
accountVars == <<memberVars, passkeyVars>>
serviceVars == <<service, commandVars, voiceVars, uploadVars, videoVars, useVars, raffleVars, streamVars, keyVars,
                 accountVars>>

\* A service at rest starts from one state only.
Init ==
  /\ service \in {"writes", "voice", "pieces", "videos", "points", "raffle", "events", "keys", "guilds", "passkeys"}
  /\ Writes!Init /\ Voice!VoiceInit /\ Pieces!UploadsInit /\ Videos!VideosInit
  /\ Points!UsesInit /\ Raffle!RafflesInit /\ Events!StreamsInit /\ Keys!KeysInit
  /\ Guilds!MembersInit /\ Passes!PasskeysInit
  /\ service # "writes" => tables.advanced # 0

Next ==
  \/ service = "writes" /\ Writes!Next
       /\ UNCHANGED <<service, voiceVars, uploadVars, videoVars, useVars, raffleVars, streamVars, keyVars, accountVars>>
  \/ service = "voice" /\ Voice!VoiceNext
       /\ UNCHANGED <<service, commandVars, uploadVars, videoVars, useVars, raffleVars, streamVars, keyVars, accountVars>>
  \/ service = "pieces" /\ Pieces!UploadsNext
       /\ UNCHANGED <<service, commandVars, voiceVars, videoVars, useVars, raffleVars, streamVars, keyVars, accountVars>>
  \/ service = "videos" /\ Videos!VideosNext
       /\ UNCHANGED <<service, commandVars, voiceVars, uploadVars, useVars, raffleVars, streamVars, keyVars, accountVars>>
  \/ service = "points" /\ Points!UsesNext
       /\ UNCHANGED <<service, commandVars, voiceVars, uploadVars, videoVars, raffleVars, streamVars, keyVars, accountVars>>
  \/ service = "raffle" /\ Raffle!RafflesNext
       /\ UNCHANGED <<service, commandVars, voiceVars, uploadVars, videoVars, useVars, streamVars, keyVars, accountVars>>
  \/ service = "events" /\ Events!StreamsNext
       /\ UNCHANGED <<service, commandVars, voiceVars, uploadVars, videoVars, useVars, raffleVars, keyVars, accountVars>>
  \/ service = "keys" /\ Keys!KeysNext
       /\ UNCHANGED <<service, commandVars, voiceVars, uploadVars, videoVars, useVars, raffleVars, streamVars, accountVars>>
  \/ service = "guilds" /\ Guilds!MembersNext
       /\ UNCHANGED <<service, commandVars, voiceVars, uploadVars, videoVars, useVars, raffleVars, streamVars, keyVars,
                      passkeyVars>>
  \/ service = "passkeys" /\ Passes!PasskeysNext
       /\ UNCHANGED <<service, commandVars, voiceVars, uploadVars, videoVars, useVars, raffleVars, streamVars, keyVars,
                      memberVars>>

\* The voice library, ffmpeg and its kill, the database and the timers answer.
Fairness ==
  /\ WF_voiceVars(service = "voice" /\ Voice!ReconnectTimer)
  /\ WF_voiceVars(service = "voice" /\ Voice!AttemptEnds)
  /\ WF_voiceVars(service = "voice" /\ Voice!StaleEnds)
  /\ WF_voiceVars(service = "voice" /\ Voice!LinkSettles)
  /\ WF_voiceVars(service = "voice" /\ Voice!handleDisconnected)
  /\ WF_videoVars(service = "videos" /\ \E u \in OverlayUploads :
                    Videos!VideoGoesOn(u) \/ Videos!FfmpegTimesOut(u) \/ Videos!ExitGraceEnds(u))
  /\ \A u \in Uses : WF_useVars(service = "points" /\ Points!UseGoesOn(u))
  /\ WF_streamVars(service = "events" /\ \E s \in Streams : Events!CloseEvent(s) \/ Events!PingFails(s))

Spec == Init /\ [][Next]_serviceVars /\ Fairness
-------------------------------------------------------------------------------
\* The service that runs keeps to its types; the others do not leave their first state.
TypeOK ==
  CASE service = "writes"   -> Writes!TypeOK
    [] service = "voice"    -> Voice!VoiceTypeOK
    [] service = "pieces"   -> Pieces!UploadsTypeOK
    [] service = "videos"   -> Videos!VideosTypeOK
    [] service = "points"   -> Points!UsesTypeOK
    [] service = "raffle"   -> Raffle!RafflesTypeOK
    [] service = "events"   -> Events!StreamsTypeOK
    [] service = "keys"     -> Keys!KeysTypeOK
    [] service = "guilds"   -> Guilds!MembersTypeOK
    [] service = "passkeys" -> Passes!PasskeysTypeOK

\* Whatever writes of commands, counters and advanced commands interleave, wait, time out or are
\* retried, no chat message comes to run two of them, requests never wait for each other's named
\* locks in a circle, and a streamer's own update, deletion or clean-up only ever commits on a
\* command that is theirs alone at the commit (commandWriteGuard.ts, commandSelfService.ts).
CommandsStayApart ==
  /\ [](service = "writes" => Writes!NoCollision /\ Writes!NoLockCycle)
  /\ Writes!SelfServiceKeepsToOwn

\* The guild's voice connection is never a destroyed one, every live connection is known to
\* somebody who will release it, and a guild only counts as playing while it holds a connection
\* (audioPlayer.ts and audioConnectionHandlers.ts).
VoiceHoldsTogether == service = "voice" => Voice!VoiceHoldsTogether

\* An upload in pieces is handed on once and whole, what it has confirmed stays, and a user has
\* one; a video the overlay lists has its file, ffmpeg has its files to itself and the two slot
\* counters count requests that are there (chunkedUploadStore.ts and overlayVideoTranscode.ts).
StoredFilesHold ==
  /\ [](service = "pieces" => Pieces!UploadsAreWhole /\ Pieces!OneUploadEach)
  /\ Pieces!ConfirmedBytesStay
  /\ [](service = "videos" => Videos!ListedVideosPlay /\ Videos!EncoderAlone /\ Videos!SlotsAreCounted)

\* Points given back for an advanced command come back once, for a use that is refunded; a raffle
\* is drawn once, from its own entrants, and pays no more than its prize (advancedCommandRefunds.ts
\* and raffleHandler.ts).
PointsHold ==
  /\ service = "points" => Points!RefundedOnce
  /\ service = "raffle" => Raffle!RafflesAreFair

\* Event streams are counted while they are registered, end with the credential they were admitted
\* by, and tell their pages what is so, in order; a Stream Deck key revoked in a guild is never
\* accepted there again; no form writes what the levels in force no longer allow, and the bot serves
\* the guilds that have members; codes, challenges and counters of passkeys are used once
\* (sseChannel.ts and the streams built on it, streamdeckKeys.ts, adminUserAuth.ts, guildRegistry.ts,
\* passkeysShared.ts).
AccessEndsWhenRevoked ==
  /\ [](service = "events" => Events!StreamsAreAccounted)
  /\ Events!StatusGoesForward
  /\ [](service = "keys" => Keys!KeysStayRevoked /\ Keys!RotationIsUsable)
  /\ [](service = "guilds" => Guilds!WritesAreAllowed /\ Guilds!RegistryFollows)
  /\ [](service = "passkeys" => Passes!EachIsUsedOnce)
  /\ Passes!DeliveredCodesStay /\ Passes!CountersOnlyRise

\* When the upsets end, the bot is in voice exactly if it should be, every upload under way has
\* come to its end, every use that waits for its companion app is acknowledged or refunded, and no
\* stream of a client that is gone or not reading is still registered.
ServicesSettle ==
  <>[](Voice!InVoiceAsAsked /\ Videos!UploadsEnded /\ Points!UsesAreResolved /\ Events!DeadStreamsGo)
===============================================================================
