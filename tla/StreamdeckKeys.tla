----------------------------- MODULE StreamdeckKeys -----------------------------
(***************************************************************************)
(* One user's Stream Deck key: its secret, replaced by each rotation, and  *)
(* its approval in every guild.  The user's requests and rotations run in  *)
(* turn (runUserMutation); revokes, approvals, denials and the guild's     *)
(* members change between their steps.                                     *)
(***************************************************************************)
EXTENDS Naturals

CONSTANTS KeyGuilds, MaxKeys, MaxKeyUpsets

VARIABLES
  keyVersion,      \* which secret streamdeck_api_keys holds, 0 for no row
  approval,        \* streamdeck_key_guild_status
  guildMember,     \* the user is in guild_member
  recentRotation,  \* the version recentRotations would show again, 0 for none
  keyRequest,      \* the request or rotation that runs
  revokedVersion,  \* history: the secret each guild last revoked
  lostRotation,    \* history: a rotation was committed and reported failed, with one still to be shown again
  keyUpsets

keyVars == <<keyVersion, approval, guildMember, recentRotation, keyRequest, revokedVersion, lostRotation, keyUpsets>>

NoRequest == [pc |-> "idle", guild |-> 0, status |-> "none", asks |-> FALSE]
Upset == keyUpsets < MaxKeyUpsets /\ keyUpsets' = keyUpsets + 1
NoUpset == UNCHANGED keyUpsets

\* initialStatus: approved for a Manager or above
InitialStatuses == {"pending", "approved"}
-------------------------------------------------------------------------------
\* Mistake: a key revoked here is asked for again as it is.
AsksAgain(g) == IF keyVersion = 0 THEN "creates" ELSE "asks"

\* applyKeyRequest's next step, by what the guild's row says
FirstStep(g) ==
  CASE approval[g] = "revoked" -> "rotates"
    [] approval[g] # "revoked" /\ keyVersion = 0 -> "creates"
    [] OTHER -> "asks"

\* A request for a guild where one is pending, approved or denied changes nothing.
RequestKey(g, initial) ==
  /\ keyRequest = NoRequest
  /\ approval[g] \in {"none", "revoked"}
  /\ keyRequest' = [pc |-> FirstStep(g), guild |-> g, status |-> initial, asks |-> TRUE]
  /\ NoUpset
  /\ UNCHANGED <<keyVersion, approval, guildMember, recentRotation, revokedVersion, lostRotation>>

\* rotateForForm: a form made for a key that has been replaced changes nothing, nor does one that
\* follows a rotation within the dedupe window.
RotateForm(form) ==
  /\ keyRequest = NoRequest
  /\ recentRotation = 0 /\ keyVersion # 0 /\ form \in {0, keyVersion}
  /\ keyRequest' = [pc |-> "rotates", guild |-> 0, status |-> "none", asks |-> FALSE]
  /\ NoUpset
  /\ UNCHANGED <<keyVersion, approval, guildMember, recentRotation, revokedVersion, lostRotation>>

createApiKey(answered) ==
  /\ keyRequest.pc = "creates" /\ keyVersion < MaxKeys
  /\ IF answered THEN NoUpset ELSE Upset
  /\ keyVersion' = keyVersion + 1
  /\ approval' = [approval EXCEPT ![keyRequest.guild] = keyRequest.status]
  /\ keyRequest' = NoRequest
  /\ UNCHANGED <<guildMember, recentRotation, revokedVersion, lostRotation>>

\* Mistake: the key a request has rotated is not remembered.
RemembersForms == IF keyRequest.asks THEN recentRotation ELSE keyVersion + 1

\* What recentRotations holds once the rotation is answered
Remembered == keyVersion + 1

rotateAndRemember(answered) ==
  /\ keyRequest.pc = "rotates" /\ keyVersion < MaxKeys
  /\ keyVersion' = keyVersion + 1
  /\ IF answered
     THEN /\ NoUpset
          /\ recentRotation' = Remembered
          /\ lostRotation' = FALSE
          /\ keyRequest' = IF keyRequest.asks THEN [keyRequest EXCEPT !.pc = "asks"] ELSE NoRequest
     ELSE /\ Upset
          /\ lostRotation' = (recentRotation # 0)
          /\ keyRequest' = NoRequest
          /\ UNCHANGED recentRotation
  /\ UNCHANGED <<approval, guildMember, revokedVersion>>

\* The upsert leaves a denial as it is.
requestGuildAccessForExistingKey(answered) ==
  LET g == keyRequest.guild IN
  /\ keyRequest.pc = "asks"
  /\ IF answered THEN NoUpset ELSE Upset
  /\ approval' = [approval EXCEPT ![g] = IF @ = "denied" THEN @ ELSE keyRequest.status]
  /\ keyRequest' = NoRequest
  /\ UNCHANGED <<keyVersion, guildMember, recentRotation, revokedVersion, lostRotation>>

StepFails ==
  /\ keyRequest # NoRequest /\ Upset
  /\ keyRequest' = NoRequest
  /\ UNCHANGED <<keyVersion, approval, guildMember, recentRotation, revokedVersion, lostRotation>>

WindowEnds ==
  /\ recentRotation # 0
  /\ recentRotation' = 0 /\ lostRotation' = FALSE
  /\ NoUpset
  /\ UNCHANGED <<keyVersion, approval, guildMember, keyRequest, revokedVersion>>

KeysRestart ==
  /\ Upset
  /\ recentRotation' = 0 /\ keyRequest' = NoRequest /\ lostRotation' = FALSE
  /\ UNCHANGED <<keyVersion, approval, guildMember, revokedVersion>>
-------------------------------------------------------------------------------
\* By the user or an admin of the guild
revokeApiKey(g) ==
  /\ approval[g] \in {"pending", "approved"}
  /\ approval' = [approval EXCEPT ![g] = "revoked"]
  /\ revokedVersion' = [revokedVersion EXCEPT ![g] = keyVersion]
  /\ NoUpset
  /\ UNCHANGED <<keyVersion, guildMember, recentRotation, keyRequest, lostRotation>>

\* approveApiKey and denyApiKey
Decide(g, verdict) ==
  /\ approval[g] = "pending"
  /\ approval' = [approval EXCEPT ![g] = verdict]
  /\ NoUpset
  /\ UNCHANGED <<keyVersion, guildMember, recentRotation, keyRequest, revokedVersion, lostRotation>>

\* removeGuildMember leaves the approval behind.
MembershipChanges(g) ==
  /\ guildMember' = [guildMember EXCEPT ![g] = ~@]
  /\ NoUpset
  /\ UNCHANGED <<keyVersion, approval, recentRotation, keyRequest, revokedVersion, lostRotation>>

\* findKeyByHash and isKeyApprovedForGuild, asked at one moment, of one who is no owner of the bot
Accepts(v, g) == v = keyVersion /\ approval[g] = "approved" /\ guildMember[g]

KeysInit ==
  /\ keyVersion = 0
  /\ approval = [g \in KeyGuilds |-> "none"]
  /\ guildMember = [g \in KeyGuilds |-> TRUE]
  /\ recentRotation = 0 /\ keyRequest = NoRequest
  /\ revokedVersion = [g \in KeyGuilds |-> 0] /\ lostRotation = FALSE
  /\ keyUpsets = 0

KeysNext ==
  \/ \E g \in KeyGuilds, initial \in InitialStatuses : RequestKey(g, initial)
  \/ \E form \in 0..MaxKeys : RotateForm(form)
  \/ \E answered \in BOOLEAN :
       createApiKey(answered) \/ rotateAndRemember(answered) \/ requestGuildAccessForExistingKey(answered)
  \/ StepFails \/ WindowEnds \/ KeysRestart
  \/ \E g \in KeyGuilds : revokeApiKey(g) \/ MembershipChanges(g)
  \/ \E g \in KeyGuilds, verdict \in {"approved", "denied"} : Decide(g, verdict)

KeysSpec == KeysInit /\ [][KeysNext]_keyVars
-------------------------------------------------------------------------------
\* The state keeps to its types.
KeysTypeOK ==
  /\ keyVersion \in 0..MaxKeys /\ recentRotation \in 0..MaxKeys
  /\ approval \in [KeyGuilds -> {"none", "pending", "approved", "revoked", "denied"}]
  /\ guildMember \in [KeyGuilds -> BOOLEAN] /\ revokedVersion \in [KeyGuilds -> 0..MaxKeys]
  /\ keyRequest \in [pc : {"idle", "creates", "rotates", "asks"}, guild : KeyGuilds \cup {0},
                     status : InitialStatuses \cup {"none"}, asks : BOOLEAN]
  /\ lostRotation \in BOOLEAN /\ keyUpsets \in 0..MaxKeyUpsets

\* A secret that was revoked in a guild is never accepted for it again: access asked for once more
\* comes with a new one, whatever fails on the way and whoever rotates it for another guild
\* (applyKeyRequest in streamdeckKeys.ts).
KeysStayRevoked == \A g \in KeyGuilds, v \in 1..MaxKeys : Accepts(v, g) => v > revokedVersion[g]

\* A secret shown again within the dedupe window is the one that is accepted, unless a rotation
\* that was reported failed has replaced it.
RotationIsUsable == recentRotation # 0 /\ ~lostRotation => recentRotation = keyVersion
===============================================================================
