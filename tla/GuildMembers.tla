------------------------------ MODULE GuildMembers ------------------------------
(***************************************************************************)
(* Who belongs to which guild and at which level: the panel's forms, run   *)
(* with the actor's and the target's places in userMutationQueue, the      *)
(* grant to the owner of a server the bot joins, and the registry of the   *)
(* guilds that have a member.  The queue is taken as what KeyLock promises *)
(* of it, without its order.  user.is_owner is only changed by hand.       *)
(***************************************************************************)
EXTENDS Integers

CONSTANTS
  People, BotOwners,   \* rows of `user', and those of them with is_owner
  Servers,
  Mutations,           \* numbers of the forms and guildCreate events, in the order they come
  GivenLevels,         \* the levels a form may ask for
  StartingMembers,     \* the guild_member tables to start from
  MaxMemberUpsets

VARIABLES
  memberLevel,      \* guild_member, NotMember where there is no row
  guildRows,        \* the servers with a row in `guild'
  mutation,         \* the forms and events
  registry,         \* the guilds the bot serves
  reloadGeneration,
  missedReload,     \* history: a change was not followed by a reload, or the newest reload failed
  memberUpsets

memberVars == <<memberLevel, guildRows, mutation, registry, reloadGeneration, missedReload, memberUpsets>>

NotMember == -1
USER == 0
MOD == 1
MANAGER == 2
ADMIN == 3
Levels == USER..ADMIN
Upset == memberUpsets < MaxMemberUpsets /\ memberUpsets' = memberUpsets + 1
NoUpset == UNCHANGED memberUpsets

Unused == [pc |-> "idle", kind |-> "none", actor |-> "none", target |-> "none", guild |-> 0, level |-> NotMember,
           follow |-> "nothing", generation |-> 0, read |-> {}]
Finish(m) == mutation' = [mutation EXCEPT ![m] = [Unused EXCEPT !.pc = "done"]]
IsNext(m) == mutation[m].pc = "idle" /\ \A n \in Mutations : n < m => mutation[n].pc # "idle"

\* getEffectiveAccessLevel
Effective(g, p) ==
  IF p \in BotOwners THEN ADMIN ELSE IF memberLevel[g][p] = NotMember THEN USER ELSE memberLevel[g][p]

\* getProvisionedGuilds
Provisioned == {g \in guildRows : \E p \in People : memberLevel[g][p] # NotMember}
-------------------------------------------------------------------------------
actorOutranksTargetInAllGuilds(a, t) ==
  \A g \in guildRows :
    memberLevel[g][t] # NotMember =>
      /\ memberLevel[g][a] # NotMember
      /\ (memberLevel[g][a] = ADMIN \/ memberLevel[g][a] > memberLevel[g][t])

OwnersAreLeftAlone(r) == r.target \in BotOwners => r.actor \in BotOwners

checkManagerEditAuth(r) ==
  /\ r.target # r.actor /\ OwnersAreLeftAlone(r)
  /\ \/ Effective(r.guild, r.actor) = ADMIN
     \/ /\ r.level < Effective(r.guild, r.actor)
        /\ memberLevel[r.guild][r.target] < Effective(r.guild, r.actor)

checkRemoveAuth(r) == Effective(r.guild, r.actor) = ADMIN

checkToggleTwitchAuth(r) ==
  /\ memberLevel[r.guild][r.target] # NotMember /\ OwnersAreLeftAlone(r)
  /\ \/ r.actor \in BotOwners
     \/ /\ Effective(r.guild, r.actor) = ADMIN \/ memberLevel[r.guild][r.target] < Effective(r.guild, r.actor)
        /\ actorOutranksTargetInAllGuilds(r.actor, r.target)

\* Whether an addition also sets the target's name and Twitch channel, which all guilds share.
canEditGlobalUserFields(r) ==
  \/ r.actor \in BotOwners
  \/ memberLevel[r.guild][r.target] # NotMember /\ actorOutranksTargetInAllGuilds(r.actor, r.target)

Permitted(r) ==
  CASE r.kind \in {"add", "update"} -> checkManagerEditAuth(r)
    [] r.kind = "remove" -> checkRemoveAuth(r)
    [] r.kind = "toggle" -> checkToggleTwitchAuth(r)
    [] OTHER -> TRUE

\* Mistake: the target's place alone is taken.
TargetOnly(r) == {r.target}

\* The places in the queue: runUserMutationForActorAndTarget, and runUserMutation for a server's owner
Places(r) == {r.actor, r.target}

\* The reload after a panel's write is part of what the places are held for.
Running(m) ==
  \/ mutation[m].pc \in {"edits", "writes"}
  \/ mutation[m].pc \in {"reloads", "reloaded"} /\ mutation[m].kind # "create"
IsFree(m) == \A n \in Mutations \ {m} : Running(n) => Places(mutation[n]) \cap Places(mutation[m]) = {}
-------------------------------------------------------------------------------
\* requireManager and requireAdmin look at the level of the moment of the request.
Submit(m, kind, a, t, g, l) ==
  /\ IsNext(m) /\ g \in guildRows
  /\ Effective(g, a) >= IF kind = "remove" THEN ADMIN ELSE MANAGER
  /\ kind = "remove" => t # a
  /\ mutation' = [mutation EXCEPT ![m] =
       [Unused EXCEPT !.pc = "waits", !.kind = kind, !.actor = a, !.target = t, !.guild = g, !.level = l,
                      !.follow = IF kind \in {"add", "remove"} THEN "reload" ELSE "nothing"]]
  /\ NoUpset
  /\ UNCHANGED <<memberLevel, guildRows, registry, reloadGeneration, missedReload>>

\* runMany's deadline; the form is answered with an error.
GivesUp(m) ==
  /\ mutation[m].pc = "waits" /\ mutation[m].kind # "create" /\ Upset
  /\ Finish(m)
  /\ UNCHANGED <<memberLevel, guildRows, registry, reloadGeneration, missedReload>>

\* The checks are queries made one after the other, with both places held.
CheckAuth(m) ==
  /\ mutation[m].pc = "waits" /\ IsFree(m)
  /\ IF Permitted(mutation[m])
     THEN mutation' = [mutation EXCEPT ![m].pc =
            IF mutation[m].kind = "add" /\ canEditGlobalUserFields(mutation[m]) THEN "edits" ELSE "writes"]
     ELSE Finish(m)
  /\ NoUpset
  /\ UNCHANGED <<memberLevel, guildRows, registry, reloadGeneration, missedReload>>

\* addOrUpdateUserMutation, whose own steps ChannelMembership has; an error ends the form.
EditGlobals(m, succeeds) ==
  /\ mutation[m].pc = "edits"
  /\ IF succeeds
     THEN mutation' = [mutation EXCEPT ![m].pc = "writes"] /\ NoUpset
     ELSE Finish(m) /\ Upset
  /\ UNCHANGED <<memberLevel, guildRows, registry, reloadGeneration, missedReload>>

\* What setMemberAccessLevel or removeGuildMember makes of the table.
Written(r) ==
  IF r.kind = "toggle" THEN memberLevel
  ELSE [memberLevel EXCEPT ![r.guild][r.target] = IF r.kind = "remove" THEN NotMember ELSE r.level]

\* The write that no reload will follow changes which guilds are to be served: one that failed for
\* its caller, a grant given up, and an update of somebody who was no member any more.
ServedSetMoves == Provisioned' # Provisioned

StartReload(m) ==
  /\ reloadGeneration' = reloadGeneration + 1 /\ missedReload' = FALSE
  /\ mutation' = [mutation EXCEPT ![m].pc = "reloads", ![m].generation = reloadGeneration']

Write(m) ==
  LET r == mutation[m] IN
  /\ r.pc = "writes"
  /\ memberLevel' = Written(r) /\ UNCHANGED guildRows
  /\ IF r.follow = "reload"
     THEN StartReload(m)
     ELSE /\ Finish(m)
          /\ missedReload' = (missedReload \/ ServedSetMoves)
          /\ UNCHANGED reloadGeneration
  /\ NoUpset
  /\ UNCHANGED registry

\* The statement fails, or its reply is lost; a toggle may fail at the channel.
WriteFails(m, committed) ==
  LET r == mutation[m] IN
  /\ r.pc = "writes" /\ Upset
  /\ memberLevel' = IF committed THEN Written(r) ELSE memberLevel
  /\ UNCHANGED <<guildRows, registry, reloadGeneration>>
  /\ missedReload' = (missedReload \/ ServedSetMoves)
  /\ Finish(m)

\* The SELECT of reloadGuildRegistry, and what follows its answer
ReloadReads(m) ==
  /\ mutation[m].pc = "reloads"
  /\ mutation' = [mutation EXCEPT ![m].pc = "reloaded", ![m].read = Provisioned]
  /\ NoUpset
  /\ UNCHANGED <<memberLevel, guildRows, registry, reloadGeneration, missedReload>>

\* Mistake: a reload that was overtaken installs what it read.
AlwaysInstalls(r) == TRUE

IsNewestReload(r) == r.generation = reloadGeneration

ReloadInstalls(m) ==
  LET r == mutation[m] IN
  /\ r.pc = "reloaded"
  /\ registry' = IF IsNewestReload(r) THEN r.read ELSE registry
  /\ Finish(m)
  /\ NoUpset
  /\ UNCHANGED <<memberLevel, guildRows, reloadGeneration, missedReload>>

ReloadFails(m) ==
  /\ mutation[m].pc = "reloads" /\ Upset
  /\ missedReload' = (missedReload \/ IsNewestReload(mutation[m]))
  /\ Finish(m)
  /\ UNCHANGED <<memberLevel, guildRows, registry, reloadGeneration>>
-------------------------------------------------------------------------------
\* guildCreate: getGuildById has answered.
JoinsServer(m, p, g) ==
  /\ IsNext(m)
  /\ mutation' = [mutation EXCEPT ![m] =
       [Unused EXCEPT !.pc = IF g \in guildRows THEN "refreshes" ELSE "registers",
                      !.kind = "create", !.actor = p, !.target = p, !.guild = g, !.level = ADMIN, !.follow = "reload"]]
  /\ NoUpset
  /\ UNCHANGED <<memberLevel, guildRows, registry, reloadGeneration, missedReload>>

\* upsertGuild; a guild that is new gives its owner access, unless Discord does not name them.
upsertGuild(m, ownerKnown) ==
  /\ mutation[m].pc \in {"registers", "refreshes"}
  /\ guildRows' = guildRows \cup {mutation[m].guild}
  /\ IF mutation[m].pc = "registers" /\ ownerKnown
     THEN mutation' = [mutation EXCEPT ![m].pc = "waits"] /\ UNCHANGED <<reloadGeneration, missedReload>>
     ELSE StartReload(m)
  /\ IF ownerKnown THEN NoUpset ELSE Upset
  /\ UNCHANGED <<memberLevel, registry>>

JoinFails(m, committed) ==
  /\ mutation[m].pc \in {"registers", "refreshes"} /\ Upset
  /\ guildRows' = IF committed THEN guildRows \cup {mutation[m].guild} ELSE guildRows
  /\ Finish(m)
  /\ UNCHANGED <<memberLevel, registry, reloadGeneration, missedReload>>

\* runUserMutation's deadline: the grant goes on, and nothing follows it.
JoinGivesUp(m) ==
  /\ mutation[m].kind = "create" /\ mutation[m].pc \in {"waits", "writes"} /\ mutation[m].follow = "reload"
  /\ Upset
  /\ mutation' = [mutation EXCEPT ![m].follow = "nothing"]
  /\ UNCHANGED <<memberLevel, guildRows, registry, reloadGeneration, missedReload>>
-------------------------------------------------------------------------------
MembersInit ==
  /\ memberLevel \in StartingMembers
  /\ guildRows = {g \in Servers : \E p \in People : memberLevel[g][p] # NotMember}
  /\ mutation = [m \in Mutations |-> Unused]
  /\ registry = Provisioned /\ reloadGeneration = 0
  /\ missedReload = FALSE /\ memberUpsets = 0

MembersNext ==
  \/ \E m \in Mutations, a \in People, t \in People, g \in Servers :
       \/ \E l \in GivenLevels, kind \in {"add", "update"} : Submit(m, kind, a, t, g, l)
       \/ \E kind \in {"remove", "toggle"} : Submit(m, kind, a, t, g, NotMember)
  \/ \E m \in Mutations, p \in People, g \in Servers : JoinsServer(m, p, g)
  \/ \E m \in Mutations :
       \/ GivesUp(m) \/ CheckAuth(m) \/ Write(m) \/ ReloadReads(m) \/ ReloadInstalls(m) \/ ReloadFails(m)
       \/ JoinGivesUp(m)
       \/ \E committed \in BOOLEAN : WriteFails(m, committed) \/ JoinFails(m, committed)
       \/ \E ownerKnown \in BOOLEAN : upsertGuild(m, ownerKnown)
       \/ \E succeeds \in BOOLEAN : EditGlobals(m, succeeds)

MembersSpec == MembersInit /\ [][MembersNext]_memberVars
-------------------------------------------------------------------------------
\* The state keeps to its types.
MembersTypeOK ==
  /\ memberLevel \in [Servers -> [People -> Levels \cup {NotMember}]]
  /\ guildRows \subseteq Servers /\ registry \subseteq Servers
  /\ mutation \in [Mutations ->
       [pc : {"idle", "registers", "refreshes", "waits", "edits", "writes", "reloads", "reloaded", "done"},
        kind : {"none", "add", "update", "remove", "toggle", "create"},
        actor : People \cup {"none"}, target : People \cup {"none"}, guild : Servers \cup {0},
        level : Levels \cup {NotMember}, follow : {"reload", "nothing"}, generation : Nat, read : SUBSET Servers]]
  /\ reloadGeneration \in Nat /\ missedReload \in BOOLEAN /\ memberUpsets \in 0..MaxMemberUpsets

\* What a form is about to write is still allowed by the levels the table holds at that moment,
\* however many forms demote, promote and remove each other's actors and targets meanwhile
\* (runUserMutationForActorAndTarget and the checks of adminUserAuth.ts).
WritesAreAllowed ==
  \A m \in Mutations :
    /\ mutation[m].pc \in {"edits", "writes"} => Permitted(mutation[m])
    /\ mutation[m].pc = "edits" => canEditGlobalUserFields(mutation[m])

\* With no reload under way, the bot serves the guilds that have a member, unless a
\* reload was skipped or the newest one failed (reloadGuildRegistry).
RegistryFollows ==
  (\A m \in Mutations : mutation[m].pc \notin {"reloads", "reloaded"}) /\ ~missedReload => registry = Provisioned
===============================================================================
