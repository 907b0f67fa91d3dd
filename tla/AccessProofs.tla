------------------------------ MODULE AccessProofs ------------------------------
(***************************************************************************)
(* Proofs about who may use the panel and its services: the members of the *)
(* guilds, for any number of people, servers, forms and failures and from  *)
(* any table; a user's Stream Deck key, for any number of guilds, secrets, *)
(* failures and restarts; passkeys, for any number of codes, challenges,   *)
(* verifications and sign-ins; the event streams and the credentials they  *)
(* are open by, for any number of clients.  The four are composed at the   *)
(* end, as PanelServices composes them, and the types of all its services  *)
(* follow with what PanelServicesProofs shows of the others.               *)
(***************************************************************************)
EXTENDS PanelServicesProofs, FiniteSetTheorems, TLAPS

-------------------------------------------------------------------------------
(* Guilds: forms and events that overlap                                   *)

Tables == [Servers -> [People -> Guilds!Levels \cup {Guilds!NotMember}]]

Forms ==
  [pc : {"idle", "registers", "refreshes", "waits", "edits", "writes", "reloads", "reloaded", "done"},
   kind : {"none", "add", "update", "remove", "toggle", "create"},
   actor : People \cup {"none"}, target : People \cup {"none"}, guild : Servers \cup {0},
   level : Guilds!Levels \cup {Guilds!NotMember}, follow : {"reload", "nothing"}, generation : Nat, read : SUBSET Servers]

-------------------------------------------------------------------------------
(* The checks as functions of the tables they read                         *)

EffectiveIn(levels, g, p) ==
  IF p \in BotOwners THEN Guilds!ADMIN ELSE IF levels[g][p] = Guilds!NotMember THEN Guilds!USER ELSE levels[g][p]

OutranksIn(levels, rows, a, t) ==
  \A g \in rows :
    levels[g][t] # Guilds!NotMember =>
      levels[g][a] # Guilds!NotMember /\ (levels[g][a] = Guilds!ADMIN \/ levels[g][a] > levels[g][t])

PermittedIn(levels, rows, r) ==
  /\ r.kind \in {"add", "update"} =>
       /\ r.target # r.actor /\ Guilds!OwnersAreLeftAlone(r)
       /\ \/ EffectiveIn(levels, r.guild, r.actor) = Guilds!ADMIN
          \/ /\ r.level < EffectiveIn(levels, r.guild, r.actor)
             /\ levels[r.guild][r.target] < EffectiveIn(levels, r.guild, r.actor)
  /\ r.kind = "remove" => EffectiveIn(levels, r.guild, r.actor) = Guilds!ADMIN
  /\ r.kind = "toggle" =>
       /\ levels[r.guild][r.target] # Guilds!NotMember /\ Guilds!OwnersAreLeftAlone(r)
       /\ \/ r.actor \in BotOwners
          \/ /\ \/ EffectiveIn(levels, r.guild, r.actor) = Guilds!ADMIN
                \/ levels[r.guild][r.target] < EffectiveIn(levels, r.guild, r.actor)
             /\ OutranksIn(levels, rows, r.actor, r.target)

EditableIn(levels, rows, r) ==
  \/ r.actor \in BotOwners
  \/ levels[r.guild][r.target] # Guilds!NotMember /\ OutranksIn(levels, rows, r.actor, r.target)

LEMMA PermittedReads ==
  ASSUME NEW m \in Mutations, mutation[m] \in Forms
  PROVE  Guilds!Permitted(mutation[m]) <=> PermittedIn(memberLevel, guildRows, mutation[m])
BY DEF Guilds!Permitted, PermittedIn, Guilds!checkManagerEditAuth, Guilds!checkRemoveAuth, Guilds!checkToggleTwitchAuth, Guilds!Effective,
       EffectiveIn, Guilds!actorOutranksTargetInAllGuilds, OutranksIn, Forms

LEMMA EditableReads ==
  ASSUME NEW m \in Mutations
  PROVE  Guilds!canEditGlobalUserFields(mutation[m]) <=> EditableIn(memberLevel, guildRows, mutation[m])
BY DEF Guilds!canEditGlobalUserFields, EditableIn, Guilds!actorOutranksTargetInAllGuilds, OutranksIn

\* The checks look at the actor and the target only, and at no guild in which the target is unknown.
LEMMA SameRanks ==
  ASSUME NEW before \in Tables, NEW after \in Tables, NEW rows, NEW moreRows,
         rows \subseteq moreRows, moreRows \subseteq Servers,
         NEW r \in Forms, r.guild \in Servers, r.actor \in People, r.target \in People,
         \A g \in Servers : after[g][r.actor] = before[g][r.actor] /\ after[g][r.target] = before[g][r.target],
         \A g \in moreRows \ rows : before[g][r.target] = Guilds!NotMember
  PROVE  /\ PermittedIn(before, rows, r) => PermittedIn(after, moreRows, r)
         /\ EditableIn(before, rows, r) => EditableIn(after, moreRows, r)
<1>1. EffectiveIn(after, r.guild, r.actor) = EffectiveIn(before, r.guild, r.actor)
  BY DEF EffectiveIn
<1>2. OutranksIn(before, rows, r.actor, r.target) => OutranksIn(after, moreRows, r.actor, r.target)
  BY DEF OutranksIn
<1>3. after[r.guild][r.target] = before[r.guild][r.target]
  OBVIOUS
<1> QED
  BY <1>1, <1>2, <1>3 DEF PermittedIn, EditableIn

-------------------------------------------------------------------------------
(* The inductive invariant                                                 *)

MembersTyped ==
  /\ memberLevel \in Tables /\ guildRows \subseteq Servers
  /\ mutation \in [Mutations -> Forms] /\ reloadGeneration \in Nat

\* A form names two people and a guild that exists; only servers joined go through upsertGuild; and
\* nobody belongs to a guild without a row.
FormsInv ==
  /\ \A m \in Mutations :
       LET r == mutation[m] IN
       /\ r.pc \notin {"idle", "done"} => r.actor \in People /\ r.target \in People /\ r.guild \in Servers
       /\ r.pc \in {"waits", "edits", "writes"} => r.guild \in guildRows
       /\ r.pc \in {"registers", "refreshes"} => r.kind = "create"
  /\ \A g \in Servers \ guildRows, p \in People : memberLevel[g][p] = Guilds!NotMember

\* runMany: no two forms that hold their places share a person.
Exclusive ==
  \A m, n \in Mutations :
    m # n /\ Guilds!Running(m) /\ Guilds!Running(n) => Guilds!Places(mutation[m]) \cap Guilds!Places(mutation[n]) = {}

MembersInv == MembersTyped /\ FormsInv /\ Exclusive /\ Guilds!WritesAreAllowed

Holds(r) ==
  r.pc \in {"edits", "writes"} \/ (r.pc \in {"reloads", "reloaded"} /\ r.kind # "create")

\* What every step comes to: one form moves on, and changes at most its target's levels, while it
\* holds the target's place, or adds guilds in which nobody is.
LEMMA FormMoves ==
  ASSUME MembersInv, NEW m \in Mutations, NEW f \in Forms, mutation' = [mutation EXCEPT ![m] = f],
         memberLevel' \in Tables, guildRows \subseteq guildRows', guildRows' \subseteq Servers,
         reloadGeneration' \in Nat,
         \/ memberLevel' = memberLevel
         \/ /\ Guilds!Running(m)
            /\ \A g \in Servers : \A p \in People \ {mutation[m].target} : memberLevel'[g][p] = memberLevel[g][p],
         \A g \in Servers \ guildRows', p \in People : memberLevel'[g][p] = Guilds!NotMember,
         f.pc \notin {"idle", "done"} => f.actor \in People /\ f.target \in People /\ f.guild \in Servers,
         f.pc \in {"waits", "edits", "writes"} => f.guild \in guildRows',
         f.pc \in {"registers", "refreshes"} => f.kind = "create",
         Holds(f) => \A n \in Mutations \ {m} : Guilds!Running(n) => Guilds!Places(f) \cap Guilds!Places(mutation[n]) = {},
         f.pc \in {"edits", "writes"} => PermittedIn(memberLevel', guildRows', f),
         f.pc = "edits" => EditableIn(memberLevel', guildRows', f)
  PROVE  MembersInv'
<1> USE DEF MembersInv
<1>1. mutation'[m] = f /\ \A n \in Mutations \ {m} : mutation'[n] = mutation[n]
  BY DEF MembersTyped
<1>2. MembersTyped'
  BY DEF MembersTyped
<1>3. FormsInv'
  BY <1>1 DEF FormsInv
<1>4. Exclusive'
  <2>1. \A n \in Mutations \ {m} : Guilds!Running(n)' <=> Guilds!Running(n)
    BY <1>1 DEF Guilds!Running
  <2>2. Guilds!Running(m)' <=> Holds(f)
    BY <1>1 DEF Guilds!Running, Holds
  <2>3. SUFFICES ASSUME NEW x \in Mutations, NEW y \in Mutations, x # y, Guilds!Running(x)', Guilds!Running(y)'
                 PROVE  (Guilds!Places(mutation[x]) \cap Guilds!Places(mutation[y]) = {})'
    BY DEF Exclusive
  <2>4. CASE x = m
    BY <1>1, <2>1, <2>2, <2>3, <2>4 DEF Guilds!Places
  <2>5. CASE y = m
    BY <1>1, <2>1, <2>2, <2>3, <2>5 DEF Guilds!Places
  <2>6. CASE x # m /\ y # m
    BY <1>1, <2>1, <2>3, <2>6 DEF Exclusive, Guilds!Places
  <2> QED
    BY <2>4, <2>5, <2>6
<1>5. Guilds!WritesAreAllowed'
  <2>1. SUFFICES ASSUME NEW n \in Mutations
                 PROVE  /\ mutation'[n].pc \in {"edits", "writes"} => Guilds!Permitted(mutation[n])'
                        /\ mutation'[n].pc = "edits" => Guilds!canEditGlobalUserFields(mutation[n])'
    BY DEF Guilds!WritesAreAllowed
  <2>2. Guilds!Permitted(mutation[n])' <=> PermittedIn(memberLevel', guildRows', mutation'[n])
    <3>1. mutation'[n] \in Forms
      BY <1>2 DEF MembersTyped
    <3> QED
      BY <3>1 DEF Guilds!Permitted, PermittedIn, Guilds!checkManagerEditAuth, Guilds!checkRemoveAuth, Guilds!checkToggleTwitchAuth, Guilds!Effective,
                  EffectiveIn, Guilds!actorOutranksTargetInAllGuilds, OutranksIn, Forms
  <2>3. Guilds!canEditGlobalUserFields(mutation[n])' <=> EditableIn(memberLevel', guildRows', mutation'[n])
    BY DEF Guilds!canEditGlobalUserFields, EditableIn, Guilds!actorOutranksTargetInAllGuilds, OutranksIn
  <2>4. CASE n = m
    BY <1>1, <2>2, <2>3, <2>4
  <2>5. CASE n # m /\ mutation[n].pc \in {"edits", "writes"}
    <3>1. mutation'[n] = mutation[n] /\ mutation[n] \in Forms
      BY <1>1, <2>5 DEF MembersTyped
    <3>2. /\ mutation[n].actor \in People /\ mutation[n].target \in People /\ mutation[n].guild \in Servers
          /\ \A g \in guildRows' \ guildRows : memberLevel[g][mutation[n].target] = Guilds!NotMember
      BY <2>5 DEF FormsInv
    <3> DEFINE Untouched ==
          \A g \in Servers : /\ memberLevel'[g][mutation[n].actor] = memberLevel[g][mutation[n].actor]
                            /\ memberLevel'[g][mutation[n].target] = memberLevel[g][mutation[n].target]
    <3>3. Untouched
      <4>1. CASE memberLevel' = memberLevel
        BY <4>1
      <4>2. ASSUME Guilds!Running(m),
                   \A g \in Servers : \A p \in People \ {mutation[m].target} : memberLevel'[g][p] = memberLevel[g][p]
            PROVE  Untouched
        <5>1. Guilds!Running(n)
          BY <2>5 DEF Guilds!Running
        <5>2. mutation[m].target # mutation[n].actor /\ mutation[m].target # mutation[n].target
          BY <2>5, <4>2, <5>1 DEF Exclusive, Guilds!Places
        <5> QED
          BY <3>2, <4>2, <5>2
      <4> QED
        BY <4>1, <4>2
    <3>4. /\ PermittedIn(memberLevel, guildRows, mutation[n])
          /\ mutation[n].pc = "edits" => EditableIn(memberLevel, guildRows, mutation[n])
      BY <2>5, <3>1, PermittedReads, EditableReads DEF Guilds!WritesAreAllowed
    <3>5. memberLevel \in Tables
      BY DEF MembersTyped
    <3> QED
      BY <2>2, <2>3, <3>1, <3>2, <3>3, <3>4, <3>5, SameRanks
  <2> QED
    BY <1>1, <2>4, <2>5
<1> QED
  BY <1>2, <1>3, <1>4, <1>5

-------------------------------------------------------------------------------
(* The steps                                                               *)

LEMMA FinishTyped == [Guilds!Unused EXCEPT !.pc = "done"] \in Forms
BY DEF Guilds!Unused, Forms

\* A form that is finished with the tables as they are, or with guilds added that nobody is in.
LEMMA FinishKeepsInv ==
  ASSUME MembersInv, NEW m \in Mutations, Guilds!Finish(m), UNCHANGED <<memberLevel, reloadGeneration>>,
         guildRows \subseteq guildRows', guildRows' \subseteq Servers
  PROVE  MembersInv'
<1> DEFINE f == [Guilds!Unused EXCEPT !.pc = "done"]
<1>1. mutation' = [mutation EXCEPT ![m] = f] /\ f.pc = "done"
  BY DEF Guilds!Finish, Guilds!Unused
<1>2. /\ memberLevel' \in Tables /\ reloadGeneration' \in Nat
      /\ \A g \in Servers \ guildRows', p \in People : memberLevel'[g][p] = Guilds!NotMember
  BY DEF MembersInv, MembersTyped, FormsInv
<1>3. ~Holds(f)
  BY <1>1 DEF Holds
<1>4. f \in Forms
  BY FinishTyped
<1> HIDE DEF f
<1> QED
  BY <1>1, <1>2, <1>3, <1>4, FormMoves

LEMMA SubmitKeepsInv ==
  ASSUME MembersInv, NEW m \in Mutations, NEW a \in People, NEW t \in People, NEW g \in Servers,
         NEW kind \in {"add", "update", "remove", "toggle"}, NEW l \in Guilds!Levels \cup {Guilds!NotMember},
         Guilds!Submit(m, kind, a, t, g, l)
  PROVE  MembersInv'
<1> DEFINE f == [Guilds!Unused EXCEPT !.pc = "waits", !.kind = kind, !.actor = a, !.target = t, !.guild = g, !.level = l,
                      !.follow = IF kind \in {"add", "remove"} THEN "reload" ELSE "nothing"]
<1>1. mutation' = [mutation EXCEPT ![m] = f] /\ UNCHANGED <<memberLevel, guildRows, reloadGeneration>> /\ g \in guildRows
  BY DEF Guilds!Submit
<1>2. f \in Forms /\ f.pc = "waits" /\ f.actor = a /\ f.target = t /\ f.guild = g
  BY DEF Guilds!Unused, Forms
<1>3. /\ memberLevel' \in Tables /\ reloadGeneration' \in Nat /\ guildRows' \subseteq Servers
      /\ \A h \in Servers \ guildRows', p \in People : memberLevel'[h][p] = Guilds!NotMember
  BY <1>1 DEF MembersInv, MembersTyped, FormsInv
<1>4. ~Holds(f)
  BY <1>2 DEF Holds
<1> HIDE DEF f
<1> QED
  BY <1>1, <1>2, <1>3, <1>4, FormMoves

\* The checks let a form pass whose places nobody holds.
LEMMA AuthCheckKeepsInv ==
  ASSUME MembersInv, NEW m \in Mutations, Guilds!CheckAuth(m)
  PROVE  MembersInv'
<1>1. mutation[m] \in Forms /\ mutation[m].pc = "waits" /\ UNCHANGED <<memberLevel, guildRows, reloadGeneration>>
  BY DEF Guilds!CheckAuth, MembersInv, MembersTyped
<1>2. CASE ~Guilds!Permitted(mutation[m])
  BY <1>1, <1>2, FinishKeepsInv DEF Guilds!CheckAuth, MembersInv, MembersTyped
<1>3. CASE Guilds!Permitted(mutation[m])
  <2> DEFINE pc == IF mutation[m].kind = "add" /\ Guilds!canEditGlobalUserFields(mutation[m]) THEN "edits" ELSE "writes"
             f == [mutation[m] EXCEPT !.pc = pc]
  <2>1. mutation' = [mutation EXCEPT ![m] = f]
    BY <1>3 DEF Guilds!CheckAuth
  <2>2. /\ pc \in {"edits", "writes"}
        /\ pc = "edits" => Guilds!canEditGlobalUserFields(mutation[m])
    OBVIOUS
  <2>3. /\ f \in Forms /\ f.pc = pc /\ f.kind = mutation[m].kind /\ f.actor = mutation[m].actor
        /\ f.target = mutation[m].target /\ f.guild = mutation[m].guild /\ f.level = mutation[m].level
    BY <1>1, <2>2 DEF Forms
  <2> HIDE DEF pc, f
  <2>4. /\ memberLevel' \in Tables /\ reloadGeneration' \in Nat /\ guildRows' \subseteq Servers
        /\ \A h \in Servers \ guildRows', p \in People : memberLevel'[h][p] = Guilds!NotMember
    BY <1>1 DEF MembersInv, MembersTyped, FormsInv
  <2>5. /\ f.actor \in People /\ f.target \in People /\ f.guild \in Servers /\ f.guild \in guildRows'
    BY <1>1, <2>3 DEF MembersInv, FormsInv
  <2>6. \A n \in Mutations \ {m} : Guilds!Running(n) => Guilds!Places(f) \cap Guilds!Places(mutation[n]) = {}
    BY <2>3 DEF Guilds!CheckAuth, Guilds!IsFree, Guilds!Places
  <2>7. PermittedIn(memberLevel', guildRows', f)
    <3>1. PermittedIn(memberLevel, guildRows, mutation[m])
      BY <1>1, <1>3, PermittedReads
    <3> QED
      BY <1>1, <2>3, <3>1 DEF PermittedIn, Guilds!OwnersAreLeftAlone
  <2>8. f.pc = "edits" => EditableIn(memberLevel', guildRows', f)
    BY <1>1, <2>2, <2>3, EditableReads DEF EditableIn
  <2> QED
    BY <1>1, <2>1, <2>2, <2>3, <2>4, <2>5, <2>6, <2>7, <2>8, FormMoves
<1> QED
  BY <1>2, <1>3

\* What the write makes of the table: it stays a table and changes the target's levels only.
LEMMA WrittenTable ==
  ASSUME MembersInv, NEW m \in Mutations, mutation[m].pc = "writes"
  PROVE  /\ Guilds!Written(mutation[m]) \in Tables
         /\ \A g \in Servers : \A p \in People \ {mutation[m].target} :
              Guilds!Written(mutation[m])[g][p] = memberLevel[g][p]
         /\ \A g \in Servers \ guildRows, p \in People : Guilds!Written(mutation[m])[g][p] = Guilds!NotMember
<1>1. /\ memberLevel \in Tables /\ mutation[m] \in Forms
      /\ mutation[m].guild \in Servers /\ mutation[m].target \in People /\ mutation[m].guild \in guildRows
      /\ \A g \in Servers \ guildRows, p \in People : memberLevel[g][p] = Guilds!NotMember
  BY DEF MembersInv, MembersTyped, FormsInv
<1>2. CASE mutation[m].kind = "toggle"
  BY <1>1, <1>2 DEF Guilds!Written
<1>3. CASE mutation[m].kind # "toggle"
  <2> DEFINE l == IF mutation[m].kind = "remove" THEN Guilds!NotMember ELSE mutation[m].level
  <2>1. l \in Guilds!Levels \cup {Guilds!NotMember}
    BY <1>1 DEF Forms
  <2>2. Guilds!Written(mutation[m]) = [memberLevel EXCEPT ![mutation[m].guild][mutation[m].target] = l]
    BY <1>3 DEF Guilds!Written
  <2> HIDE DEF l
  <2> QED
    BY <1>1, <2>1, <2>2 DEF Tables
<1> QED
  BY <1>2, <1>3

\* A form that goes on with its places, or without any, and tables that keep to what it may write.
LEMMA GoesOnKeepsInv ==
  ASSUME MembersInv, NEW m \in Mutations, NEW pc, NEW generation \in Nat, NEW read \in SUBSET Servers,
         NEW follow \in {"reload", "nothing"},
         pc \in {"waits", "reloads", "reloaded"},
         mutation' = [mutation EXCEPT ![m] =
                        [mutation[m] EXCEPT !.pc = pc, !.generation = generation, !.read = read, !.follow = follow]],
         mutation[m].pc \notin {"idle", "done"},
         pc = "waits" => mutation[m].guild \in guildRows',
         pc \in {"reloads", "reloaded"} /\ mutation[m].kind # "create" => Guilds!Running(m),
         guildRows \subseteq guildRows', guildRows' \subseteq Servers, reloadGeneration' \in Nat,
         \/ memberLevel' = memberLevel
         \/ mutation[m].pc = "writes" /\ memberLevel' = Guilds!Written(mutation[m])
  PROVE  MembersInv'
<1> DEFINE f == [mutation[m] EXCEPT !.pc = pc, !.generation = generation, !.read = read, !.follow = follow]
<1>1. mutation[m] \in Forms /\ mutation[m].actor \in People /\ mutation[m].target \in People /\ mutation[m].guild \in Servers
  BY DEF MembersInv, MembersTyped, FormsInv
<1>2. /\ f \in Forms /\ f.pc = pc /\ f.kind = mutation[m].kind /\ f.actor = mutation[m].actor
      /\ f.target = mutation[m].target /\ f.guild = mutation[m].guild
  BY <1>1 DEF Forms
<1> HIDE DEF f
<1>3. mutation' = [mutation EXCEPT ![m] = f]
  BY DEF f
<1>4. /\ memberLevel' \in Tables
      /\ \A g \in Servers \ guildRows', p \in People : memberLevel'[g][p] = Guilds!NotMember
      /\ \/ memberLevel' = memberLevel
         \/ /\ Guilds!Running(m)
            /\ \A g \in Servers : \A p \in People \ {mutation[m].target} : memberLevel'[g][p] = memberLevel[g][p]
  <2>1. CASE memberLevel' = memberLevel
    BY <2>1 DEF MembersInv, MembersTyped, FormsInv
  <2>2. CASE mutation[m].pc = "writes" /\ memberLevel' = Guilds!Written(mutation[m])
    BY <2>2, WrittenTable DEF Guilds!Running
  <2> QED
    BY <2>1, <2>2
<1>5. Holds(f) => \A n \in Mutations \ {m} : Guilds!Running(n) => Guilds!Places(f) \cap Guilds!Places(mutation[n]) = {}
  <2>1. SUFFICES ASSUME Holds(f), NEW n \in Mutations \ {m}, Guilds!Running(n)
                 PROVE  Guilds!Places(f) \cap Guilds!Places(mutation[n]) = {}
    OBVIOUS
  <2>2. Guilds!Running(m)
    BY <1>2, <2>1 DEF Holds
  <2>3. Guilds!Places(mutation[m]) \cap Guilds!Places(mutation[n]) = {}
    BY <2>1, <2>2 DEF MembersInv, Exclusive
  <2> QED
    BY <1>2, <2>3 DEF Guilds!Places
<1>6. mutation[m].pc \notin {"registers", "refreshes"} \/ mutation[m].kind = "create"
  BY DEF MembersInv, FormsInv
<1> QED
  BY <1>1, <1>2, <1>3, <1>4, <1>5, FormMoves

\* A write, or one that failed, that ends its form.
LEMMA LastWriteKeepsInv ==
  ASSUME MembersInv, NEW m \in Mutations, mutation[m].pc = "writes", Guilds!Finish(m),
         memberLevel' \in {memberLevel, Guilds!Written(mutation[m])}, UNCHANGED <<guildRows, reloadGeneration>>
  PROVE  MembersInv'
<1>1. CASE memberLevel' = memberLevel
  BY <1>1, FinishKeepsInv DEF MembersInv, MembersTyped
<1>2. CASE memberLevel' = Guilds!Written(mutation[m])
  <2> DEFINE f == [Guilds!Unused EXCEPT !.pc = "done"]
  <2>1. mutation' = [mutation EXCEPT ![m] = f] /\ f.pc = "done"
    BY DEF Guilds!Finish, Guilds!Unused
  <2>2. ~Holds(f)
    BY <2>1 DEF Holds
  <2>3. f \in Forms
    BY FinishTyped
  <2> HIDE DEF f
  <2>4. Guilds!Running(m) /\ guildRows' = guildRows /\ guildRows' \subseteq Servers /\ reloadGeneration' \in Nat
    BY DEF Guilds!Running, MembersInv, MembersTyped
  <2>5. /\ memberLevel' \in Tables
        /\ \A g \in Servers : \A p \in People \ {mutation[m].target} : memberLevel'[g][p] = memberLevel[g][p]
        /\ \A g \in Servers \ guildRows', p \in People : memberLevel'[g][p] = Guilds!NotMember
    BY <1>2, <2>4, WrittenTable
  <2> QED
    BY <2>1, <2>2, <2>3, <2>4, <2>5, FormMoves
<1> QED
  BY <1>1, <1>2

LEMMA EditKeepsInv ==
  ASSUME MembersInv, NEW m \in Mutations, NEW succeeds \in BOOLEAN, Guilds!EditGlobals(m, succeeds)
  PROVE  MembersInv'
<1>1. mutation[m] \in Forms /\ mutation[m].pc = "edits" /\ UNCHANGED <<memberLevel, guildRows, reloadGeneration>>
  BY DEF Guilds!EditGlobals, MembersInv, MembersTyped
<1>2. CASE ~succeeds
  BY <1>1, <1>2, FinishKeepsInv DEF Guilds!EditGlobals, MembersInv, MembersTyped
<1>3. CASE succeeds
  <2> DEFINE f == [mutation[m] EXCEPT !.pc = "writes"]
  <2>1. mutation' = [mutation EXCEPT ![m] = f]
    BY <1>3 DEF Guilds!EditGlobals
  <2>2. /\ f \in Forms /\ f.pc = "writes" /\ f.kind = mutation[m].kind /\ f.actor = mutation[m].actor
        /\ f.target = mutation[m].target /\ f.guild = mutation[m].guild /\ f.level = mutation[m].level
    BY <1>1 DEF Forms
  <2> HIDE DEF f
  <2>3. /\ memberLevel' \in Tables /\ reloadGeneration' \in Nat /\ guildRows' \subseteq Servers
        /\ \A h \in Servers \ guildRows', p \in People : memberLevel'[h][p] = Guilds!NotMember
        /\ f.actor \in People /\ f.target \in People /\ f.guild \in Servers /\ f.guild \in guildRows'
    BY <1>1, <2>2 DEF MembersInv, MembersTyped, FormsInv
  <2>4. Holds(f) => \A n \in Mutations \ {m} : Guilds!Running(n) => Guilds!Places(f) \cap Guilds!Places(mutation[n]) = {}
    BY <1>1, <2>2 DEF MembersInv, Exclusive, Guilds!Running, Guilds!Places
  <2>5. PermittedIn(memberLevel', guildRows', f)
    <3>1. PermittedIn(memberLevel, guildRows, mutation[m])
      BY <1>1, PermittedReads DEF MembersInv, Guilds!WritesAreAllowed
    <3> QED
      BY <1>1, <2>2, <3>1 DEF PermittedIn, Guilds!OwnersAreLeftAlone
  <2> QED
    BY <1>1, <2>1, <2>2, <2>3, <2>4, <2>5, FormMoves
<1> QED
  BY <1>2, <1>3

\* A reload starts when a form has written, or a server has been entered.
LEMMA StartReloadKeepsInv ==
  ASSUME MembersInv, NEW m \in Mutations, Guilds!StartReload(m), mutation[m].pc \notin {"idle", "done"},
         Guilds!Running(m) \/ mutation[m].kind = "create",
         guildRows \subseteq guildRows', guildRows' \subseteq Servers,
         \/ memberLevel' = memberLevel
         \/ mutation[m].pc = "writes" /\ memberLevel' = Guilds!Written(mutation[m])
  PROVE  MembersInv'
<1>1. mutation[m] \in Forms /\ reloadGeneration \in Nat /\ reloadGeneration' = reloadGeneration + 1
  BY DEF Guilds!StartReload, MembersInv, MembersTyped
<1>2. reloadGeneration' \in Nat /\ mutation[m].read \in SUBSET Servers /\ mutation[m].follow \in {"reload", "nothing"}
  BY <1>1 DEF Forms
<1>3. mutation' = [mutation EXCEPT ![m] = [mutation[m] EXCEPT !.pc = "reloads", !.generation = reloadGeneration',
                                             !.read = mutation[m].read, !.follow = mutation[m].follow]]
  BY <1>1 DEF Guilds!StartReload, Forms
<1> QED
  BY <1>2, <1>3, GoesOnKeepsInv

LEMMA WriteKeepsInv ==
  ASSUME MembersInv, NEW m \in Mutations,
         Guilds!Write(m) \/ \E committed \in BOOLEAN : Guilds!WriteFails(m, committed)
  PROVE  MembersInv'
<1>1. CASE Guilds!Write(m)
  <2>1. /\ mutation[m].pc = "writes" /\ memberLevel' = Guilds!Written(mutation[m]) /\ guildRows' = guildRows
        /\ Guilds!StartReload(m) \/ (Guilds!Finish(m) /\ reloadGeneration' = reloadGeneration)
    BY <1>1 DEF Guilds!Write
  <2>2. Guilds!Running(m) /\ guildRows \subseteq Servers
    BY <2>1 DEF Guilds!Running, MembersInv, MembersTyped
  <2> QED
    BY <2>1, <2>2, StartReloadKeepsInv, LastWriteKeepsInv
<1>2. ASSUME NEW committed \in BOOLEAN, Guilds!WriteFails(m, committed) PROVE MembersInv'
  BY <1>2, LastWriteKeepsInv DEF Guilds!WriteFails
<1> QED
  BY <1>1, <1>2

LEMMA ReloadKeepsInv ==
  ASSUME MembersInv, NEW m \in Mutations, Guilds!ReloadReads(m) \/ Guilds!ReloadInstalls(m) \/ Guilds!ReloadFails(m)
  PROVE  MembersInv'
<1>1. guildRows \subseteq Servers /\ mutation[m] \in Forms /\ reloadGeneration \in Nat
  BY DEF MembersInv, MembersTyped
<1>2. CASE Guilds!ReloadReads(m)
  <2>1. /\ mutation[m].pc = "reloads" /\ UNCHANGED <<memberLevel, guildRows, reloadGeneration>>
        /\ mutation' = [mutation EXCEPT ![m].pc = "reloaded", ![m].read = Guilds!Provisioned]
    BY <1>2 DEF Guilds!ReloadReads
  <2>2. Guilds!Provisioned \in SUBSET Servers /\ mutation[m].generation \in Nat /\ mutation[m].follow \in {"reload", "nothing"}
    BY <1>1 DEF Guilds!Provisioned, Forms
  <2>3. mutation' = [mutation EXCEPT ![m] = [mutation[m] EXCEPT !.pc = "reloaded", !.generation = mutation[m].generation,
                                               !.read = Guilds!Provisioned, !.follow = mutation[m].follow]]
    BY <1>1, <2>1 DEF Forms
  <2>4. /\ mutation[m].kind # "create" => Guilds!Running(m)
        /\ mutation[m].pc \notin {"idle", "done"}
    BY <2>1 DEF Guilds!Running
  <2>5. memberLevel' = memberLevel /\ guildRows' = guildRows /\ reloadGeneration' \in Nat
    BY <1>1, <2>1
  <2> HIDE <1>2
  <2> QED
    BY <1>1, <2>2, <2>3, <2>4, <2>5, GoesOnKeepsInv
<1>3. CASE Guilds!ReloadInstalls(m)
  BY <1>1, <1>3, FinishKeepsInv DEF Guilds!ReloadInstalls
<1>4. CASE Guilds!ReloadFails(m)
  BY <1>1, <1>4, FinishKeepsInv DEF Guilds!ReloadFails
<1> QED
  BY <1>2, <1>3, <1>4

LEMMA JoinKeepsInv ==
  ASSUME MembersInv, NEW m \in Mutations, NEW p \in People, NEW g \in Servers, Guilds!JoinsServer(m, p, g)
  PROVE  MembersInv'
<1> DEFINE pc == IF g \in guildRows THEN "refreshes" ELSE "registers"
           f == [Guilds!Unused EXCEPT !.pc = pc, !.kind = "create", !.actor = p, !.target = p, !.guild = g, !.level = Guilds!ADMIN,
                               !.follow = "reload"]
<1>1. mutation' = [mutation EXCEPT ![m] = f] /\ UNCHANGED <<memberLevel, guildRows, reloadGeneration>>
  BY DEF Guilds!JoinsServer
<1>2. pc \in {"refreshes", "registers"} /\ Guilds!ADMIN \in Guilds!Levels
  BY DEF Guilds!Levels, Guilds!ADMIN, Guilds!USER
<1> HIDE DEF pc
<1>3. f \in Forms /\ f.pc = pc /\ f.kind = "create" /\ f.actor = p /\ f.target = p /\ f.guild = g
  BY <1>2 DEF Guilds!Unused, Forms
<1>4. /\ memberLevel' \in Tables /\ reloadGeneration' \in Nat /\ guildRows' \subseteq Servers
      /\ \A h \in Servers \ guildRows', q \in People : memberLevel'[h][q] = Guilds!NotMember
  BY <1>1 DEF MembersInv, MembersTyped, FormsInv
<1>5. ~Holds(f)
  BY <1>2, <1>3 DEF Holds
<1> HIDE DEF f
<1> QED
  BY <1>1, <1>2, <1>3, <1>4, <1>5, FormMoves

LEMMA UpsertKeepsInv ==
  ASSUME MembersInv, NEW m \in Mutations, NEW ownerKnown \in BOOLEAN, Guilds!upsertGuild(m, ownerKnown)
  PROVE  MembersInv'
<1>1. /\ mutation[m] \in Forms /\ reloadGeneration \in Nat /\ mutation[m].pc \in {"registers", "refreshes"}
      /\ mutation[m].kind = "create" /\ mutation[m].guild \in Servers /\ guildRows \subseteq Servers
  BY DEF Guilds!upsertGuild, MembersInv, MembersTyped, FormsInv
<1>2. /\ memberLevel' = memberLevel /\ guildRows' = guildRows \cup {mutation[m].guild}
      /\ \/ Guilds!StartReload(m)
         \/ mutation' = [mutation EXCEPT ![m].pc = "waits"] /\ reloadGeneration' = reloadGeneration
  BY DEF Guilds!upsertGuild
<1>3. CASE Guilds!StartReload(m)
  BY <1>1, <1>2, <1>3, StartReloadKeepsInv
<1>4. CASE mutation' = [mutation EXCEPT ![m].pc = "waits"] /\ reloadGeneration' = reloadGeneration
  <2>1. /\ mutation[m].read \in SUBSET Servers /\ mutation[m].follow \in {"reload", "nothing"}
        /\ mutation[m].generation \in Nat
    BY <1>1 DEF Forms
  <2>2. mutation' = [mutation EXCEPT ![m] = [mutation[m] EXCEPT !.pc = "waits", !.generation = mutation[m].generation,
                                               !.read = mutation[m].read, !.follow = mutation[m].follow]]
    BY <1>1, <1>4 DEF Forms
  <2>3. /\ mutation[m].guild \in guildRows' /\ guildRows \subseteq guildRows' /\ guildRows' \subseteq Servers
        /\ mutation[m].pc \notin {"idle", "done"} /\ memberLevel' = memberLevel /\ reloadGeneration' \in Nat
    BY <1>1, <1>2, <1>4
  <2> QED
    BY <2>1, <2>2, <2>3, GoesOnKeepsInv
<1> QED
  BY <1>2, <1>3, <1>4

LEMMA JoinFailsKeepsInv ==
  ASSUME MembersInv, NEW m \in Mutations, NEW committed \in BOOLEAN, Guilds!JoinFails(m, committed)
  PROVE  MembersInv'
<1>1. mutation[m].guild \in Servers /\ guildRows \subseteq Servers
  BY DEF Guilds!JoinFails, MembersInv, MembersTyped, FormsInv
<1> QED
  BY <1>1, FinishKeepsInv DEF Guilds!JoinFails

\* What the owner of a server is granted when the bot joins needs no permission.
LEMMA JoinGivesUpKeepsInv ==
  ASSUME MembersInv, NEW m \in Mutations, Guilds!JoinGivesUp(m)
  PROVE  MembersInv'
<1> DEFINE f == [mutation[m] EXCEPT !.follow = "nothing"]
<1>1. /\ mutation[m] \in Forms /\ mutation[m].kind = "create" /\ mutation[m].pc \in {"waits", "writes"}
      /\ mutation' = [mutation EXCEPT ![m] = f] /\ UNCHANGED <<memberLevel, guildRows, reloadGeneration>>
  BY DEF Guilds!JoinGivesUp, MembersInv, MembersTyped
<1>2. /\ f \in Forms /\ f.pc = mutation[m].pc /\ f.kind = "create" /\ f.actor = mutation[m].actor
      /\ f.target = mutation[m].target /\ f.guild = mutation[m].guild
  BY <1>1 DEF Forms
<1> HIDE DEF f
<1>3. /\ memberLevel' \in Tables /\ reloadGeneration' \in Nat /\ guildRows' \subseteq Servers
      /\ \A h \in Servers \ guildRows', p \in People : memberLevel'[h][p] = Guilds!NotMember
      /\ f.actor \in People /\ f.target \in People /\ f.guild \in Servers /\ f.guild \in guildRows'
  BY <1>1, <1>2 DEF MembersInv, MembersTyped, FormsInv
<1>4. Holds(f) => \A n \in Mutations \ {m} : Guilds!Running(n) => Guilds!Places(f) \cap Guilds!Places(mutation[n]) = {}
  BY <1>1, <1>2 DEF MembersInv, Exclusive, Guilds!Running, Guilds!Places, Holds
<1>5. PermittedIn(memberLevel', guildRows', f)
  BY <1>2 DEF PermittedIn
<1> QED
  BY <1>1, <1>2, <1>3, <1>4, <1>5, FormMoves

LEMMA GivesUpKeepsInv ==
  ASSUME MembersInv, NEW m \in Mutations, Guilds!GivesUp(m)
  PROVE  MembersInv'
BY FinishKeepsInv DEF Guilds!GivesUp, MembersInv, MembersTyped

-------------------------------------------------------------------------------
\* Any table to start from, with a row for each guild that has a member
MembersStart ==
  /\ memberLevel \in Tables
  /\ guildRows = {g \in Servers : \E p \in People : memberLevel[g][p] # Guilds!NotMember}
  /\ mutation = [m \in Mutations |-> Guilds!Unused]
  /\ registry = Guilds!Provisioned /\ reloadGeneration = 0
  /\ missedReload = FALSE /\ memberUpsets = 0

LEMMA GivenLevelsAreLevels == GivenLevels \subseteq Guilds!Levels
BY GuildsAssumption DEF Guilds!Levels, Guilds!USER, Guilds!ADMIN

LEMMA MembersInitInv == MembersStart => MembersInv
<1> SUFFICES ASSUME MembersStart PROVE MembersInv
  OBVIOUS
<1>1. /\ memberLevel \in Tables /\ mutation = [m \in Mutations |-> Guilds!Unused] /\ reloadGeneration = 0
      /\ guildRows = {g \in Servers : \E p \in People : memberLevel[g][p] # Guilds!NotMember}
  BY DEF MembersStart
<1>2. Guilds!Unused \in Forms /\ Guilds!Unused.pc = "idle"
  BY DEF Guilds!Unused, Forms
<1>3. MembersTyped
  BY <1>1, <1>2 DEF MembersTyped
<1>4. FormsInv
  BY <1>1, <1>2 DEF FormsInv
<1>5. Exclusive /\ Guilds!WritesAreAllowed
  BY <1>1, <1>2 DEF Exclusive, Guilds!Running, Guilds!WritesAreAllowed
<1> QED
  BY <1>3, <1>4, <1>5 DEF MembersInv

LEMMA MembersNextInv == MembersInv /\ [Guilds!MembersNext]_memberVars => MembersInv'
<1> SUFFICES ASSUME MembersInv, [Guilds!MembersNext]_memberVars PROVE MembersInv'
  OBVIOUS
<1>1. ASSUME NEW m \in Mutations, NEW a \in People, NEW t \in People, NEW g \in Servers, NEW l \in GivenLevels,
             NEW kind \in {"add", "update"}, Guilds!Submit(m, kind, a, t, g, l)
      PROVE  MembersInv'
  BY <1>1, SubmitKeepsInv, GivenLevelsAreLevels
<1>2. ASSUME NEW m \in Mutations, NEW a \in People, NEW t \in People, NEW g \in Servers,
             NEW kind \in {"remove", "toggle"}, Guilds!Submit(m, kind, a, t, g, Guilds!NotMember)
      PROVE  MembersInv'
  BY <1>2, SubmitKeepsInv, GivenLevelsAreLevels
<1>3. ASSUME NEW m \in Mutations, NEW p \in People, NEW g \in Servers, Guilds!JoinsServer(m, p, g) PROVE MembersInv'
  BY <1>3, JoinKeepsInv
<1>4. ASSUME NEW m \in Mutations, Guilds!GivesUp(m) \/ Guilds!CheckAuth(m) \/ Guilds!JoinGivesUp(m) PROVE MembersInv'
  BY <1>4, GivesUpKeepsInv, AuthCheckKeepsInv, JoinGivesUpKeepsInv
<1>5. ASSUME NEW m \in Mutations, Guilds!Write(m) \/ \E committed \in BOOLEAN : Guilds!WriteFails(m, committed) PROVE MembersInv'
  BY <1>5, WriteKeepsInv
<1>6. ASSUME NEW m \in Mutations, Guilds!ReloadReads(m) \/ Guilds!ReloadInstalls(m) \/ Guilds!ReloadFails(m) PROVE MembersInv'
  BY <1>6, ReloadKeepsInv
<1>7. ASSUME NEW m \in Mutations, NEW committed \in BOOLEAN, Guilds!JoinFails(m, committed) PROVE MembersInv'
  BY <1>7, JoinFailsKeepsInv
<1>8. ASSUME NEW m \in Mutations, NEW ownerKnown \in BOOLEAN, Guilds!upsertGuild(m, ownerKnown) PROVE MembersInv'
  BY <1>8, UpsertKeepsInv
<1>9. ASSUME NEW m \in Mutations, NEW succeeds \in BOOLEAN, Guilds!EditGlobals(m, succeeds) PROVE MembersInv'
  BY <1>9, EditKeepsInv
<1>10. CASE UNCHANGED memberVars
  BY <1>10 DEF memberVars, MembersInv, MembersTyped, FormsInv, Exclusive, Guilds!Running, Guilds!Places, Guilds!WritesAreAllowed, Guilds!Permitted,
               Guilds!checkManagerEditAuth, Guilds!checkRemoveAuth, Guilds!checkToggleTwitchAuth, Guilds!canEditGlobalUserFields,
               Guilds!actorOutranksTargetInAllGuilds, Guilds!Effective
<1> QED
  BY <1>1, <1>2, <1>3, <1>4, <1>5, <1>6, <1>7, <1>8, <1>9, <1>10 DEF Guilds!MembersNext

-------------------------------------------------------------------------------
(* The registry: reloads that overlap                                     *)


\* A reload under way, and one that no later one has overtaken
Reloading(r) == r.pc \in {"reloads", "reloaded"}
Newest(r) == Reloading(r) /\ r.generation = reloadGeneration

\* Reloads are numbered as they start.
GenerationInv ==
  /\ \A m \in Mutations : Reloading(mutation[m]) => mutation[m].generation <= reloadGeneration
  /\ \A m, n \in Mutations : Reloading(mutation[m]) /\ Reloading(mutation[n])
                                 /\ mutation[m].generation = mutation[n].generation => m = n

\* The newest reload has yet to read, or has read the table as it is; without one the registry is
\* what the table says.
RegistryInv ==
  ~missedReload =>
    \/ \E m \in Mutations : Newest(mutation[m])
                            /\ (mutation[m].pc = "reloaded" => mutation[m].read = Guilds!Provisioned)
    \/ registry = Guilds!Provisioned /\ \A m \in Mutations : ~Newest(mutation[m])

ReloadInv == GenerationInv /\ RegistryInv

\* A step that neither starts nor ends a reload keeps the invariant if it notices when it changes
\* which guilds have members.
LEMMA QuietKeepsReloads ==
  ASSUME ReloadInv, NEW m \in Mutations, \A n \in Mutations \ {m} : mutation'[n] = mutation[n],
         ~Reloading(mutation[m]), ~Reloading(mutation[m])', UNCHANGED <<registry, reloadGeneration>>,
         ~missedReload' => ~missedReload /\ Guilds!Provisioned' = Guilds!Provisioned
  PROVE  ReloadInv'
<1>1. GenerationInv'
  BY DEF ReloadInv, GenerationInv, Reloading
<1>2. ASSUME NEW n \in Mutations PROVE Newest(mutation[n])' <=> Newest(mutation[n])
  BY DEF Newest, Reloading
<1>3. ASSUME NEW n \in Mutations, Newest(mutation[n]) PROVE mutation'[n] = mutation[n]
  BY <1>3 DEF Newest, Reloading
<1>4. RegistryInv'
  <2>1. SUFFICES ASSUME ~missedReload'
                 PROVE  \/ \E n \in Mutations : Newest(mutation[n])'
                                                /\ (mutation'[n].pc = "reloaded" => mutation'[n].read = Guilds!Provisioned')
                        \/ registry' = Guilds!Provisioned' /\ \A n \in Mutations : ~Newest(mutation[n])'
    BY DEF RegistryInv
  <2>2. ~missedReload /\ Guilds!Provisioned' = Guilds!Provisioned
    BY <2>1
  <2> QED
    BY <1>2, <1>3, <2>2 DEF ReloadInv, RegistryInv
<1> QED
  BY <1>1, <1>4 DEF ReloadInv

LEMMA StartKeepsReloads ==
  ASSUME MembersTyped, ReloadInv, NEW m \in Mutations, Guilds!StartReload(m)
  PROVE  ReloadInv'
<1>1. /\ mutation[m] \in Forms /\ reloadGeneration \in Nat /\ reloadGeneration' = reloadGeneration + 1
      /\ mutation'[m] = [mutation[m] EXCEPT !.pc = "reloads", !.generation = reloadGeneration']
      /\ \A n \in Mutations \ {m} : mutation'[n] = mutation[n]
  BY DEF Guilds!StartReload, MembersTyped
<1>2. mutation'[m].pc = "reloads" /\ mutation'[m].generation = reloadGeneration + 1
  BY <1>1 DEF Forms
<1>3. \A n \in Mutations : mutation[n].generation \in Nat
  BY DEF MembersTyped, Forms
<1>4. GenerationInv'
  <2>1. /\ \A n \in Mutations : Reloading(mutation[n]) => mutation[n].generation <= reloadGeneration
        /\ \A n, k \in Mutations : Reloading(mutation[n]) /\ Reloading(mutation[k])
                                     /\ mutation[n].generation = mutation[k].generation => n = k
    BY DEF ReloadInv, GenerationInv
  <2>2. mutation'[m].generation \in Nat /\ mutation'[m].generation = reloadGeneration' /\ reloadGeneration' \in Nat
    BY <1>1, <1>2
  <2>3. ASSUME NEW n \in Mutations \ {m}, Reloading(mutation[n])'
        PROVE  /\ Reloading(mutation[n]) /\ mutation'[n].generation = mutation[n].generation
               /\ mutation'[n].generation \in Nat /\ mutation'[n].generation < reloadGeneration'
    <3>1. mutation'[n] = mutation[n] /\ Reloading(mutation[n])
      BY <1>1, <2>3 DEF Reloading
    <3>2. mutation[n].generation \in Nat /\ mutation[n].generation <= reloadGeneration
      BY <1>3, <2>1, <3>1
    <3>3. mutation[n].generation < reloadGeneration + 1
      BY <1>1, <3>2
    <3> QED
      BY <1>1, <3>1, <3>2, <3>3
  <2>4. ASSUME NEW n \in Mutations, Reloading(mutation[n])' PROVE mutation'[n].generation <= reloadGeneration'
    <3>1. CASE n = m
      BY <2>2, <3>1
    <3>2. CASE n # m
      BY <2>2, <2>3, <2>4, <3>2
    <3> QED
      BY <3>1, <3>2
  <2>5. ASSUME NEW n \in Mutations, Reloading(mutation[n])', mutation'[n].generation = mutation'[m].generation
        PROVE  n = m
    <3>1. SUFFICES ASSUME n # m PROVE FALSE
      OBVIOUS
    <3> QED
      BY <2>2, <2>3, <2>5, <3>1
  <2>6. ASSUME NEW n \in Mutations, NEW k \in Mutations, Reloading(mutation[n])', Reloading(mutation[k])',
               mutation'[n].generation = mutation'[k].generation
        PROVE  n = k
    <3>1. CASE n = m \/ k = m
      BY <2>5, <2>6, <3>1
    <3>2. CASE n # m /\ k # m
      BY <2>1, <2>3, <2>6, <3>2
    <3> QED
      BY <3>1, <3>2
  <2> QED
    BY <2>4, <2>6 DEF GenerationInv
<1>5. Newest(mutation[m])'
  BY <1>1, <1>2 DEF Newest, Reloading
<1> QED
  BY <1>2, <1>4, <1>5 DEF ReloadInv, RegistryInv

LEMMA ReadKeepsReloads ==
  ASSUME MembersTyped, ReloadInv, NEW m \in Mutations, Guilds!ReloadReads(m)
  PROVE  ReloadInv'
<1>1. /\ mutation[m] \in Forms /\ mutation[m].pc = "reloads"
      /\ mutation'[m] = [mutation[m] EXCEPT !.pc = "reloaded", !.read = Guilds!Provisioned]
      /\ \A n \in Mutations \ {m} : mutation'[n] = mutation[n]
      /\ registry' = registry /\ reloadGeneration' = reloadGeneration
  BY DEF Guilds!ReloadReads, MembersTyped
<1>2. Guilds!Provisioned' = Guilds!Provisioned
  BY DEF Guilds!ReloadReads, Guilds!Provisioned
<1>3. mutation'[m].pc = "reloaded" /\ mutation'[m].generation = mutation[m].generation /\ mutation'[m].read = Guilds!Provisioned
  BY <1>1 DEF Forms
<1>4. GenerationInv'
  <2>1. ASSUME NEW n \in Mutations
        PROVE  (Reloading(mutation[n])' <=> Reloading(mutation[n])) /\ mutation'[n].generation = mutation[n].generation
    BY <1>1, <1>3 DEF Reloading
  <2> QED
    BY <1>1, <2>1 DEF ReloadInv, GenerationInv
<1>5. ASSUME NEW n \in Mutations PROVE Newest(mutation[n])' <=> Newest(mutation[n])
  BY <1>1, <1>3 DEF Newest, Reloading
<1>6. RegistryInv'
  <2>1. SUFFICES ASSUME ~missedReload'
                 PROVE  \/ \E n \in Mutations : Newest(mutation[n])'
                                                /\ (mutation'[n].pc = "reloaded" => mutation'[n].read = Guilds!Provisioned')
                        \/ registry' = Guilds!Provisioned' /\ \A n \in Mutations : ~Newest(mutation[n])'
    BY DEF RegistryInv
  <2>2. ~missedReload
    BY <2>1 DEF Guilds!ReloadReads
  <2> QED
    BY <1>1, <1>2, <1>3, <1>5, <2>2 DEF ReloadInv, RegistryInv
<1> QED
  BY <1>4, <1>6 DEF ReloadInv

\* A reload that ends: the newest installs what it read or has failed, an overtaken one does nothing.
LEMMA EndKeepsReloads ==
  ASSUME MembersTyped, ReloadInv, NEW m \in Mutations, Guilds!ReloadInstalls(m) \/ Guilds!ReloadFails(m)
  PROVE  ReloadInv'
<1>1. /\ mutation'[m].pc = "done"
      /\ \A n \in Mutations \ {m} : mutation'[n] = mutation[n]
      /\ reloadGeneration' = reloadGeneration /\ Reloading(mutation[m])
  BY DEF Guilds!ReloadInstalls, Guilds!ReloadFails, Guilds!Finish, MembersTyped, Guilds!Unused, Reloading
<1>2. Guilds!Provisioned' = Guilds!Provisioned
  BY DEF Guilds!ReloadInstalls, Guilds!ReloadFails, Guilds!Provisioned
<1>3. GenerationInv'
  BY <1>1 DEF ReloadInv, GenerationInv, Reloading
<1>4. ASSUME NEW n \in Mutations PROVE Newest(mutation[n])' <=> n # m /\ Newest(mutation[n])
  BY <1>1 DEF Newest, Reloading
<1>5. CASE Newest(mutation[m])
  <2>1. \A n \in Mutations \ {m} : ~Newest(mutation[n])
    BY <1>5 DEF ReloadInv, GenerationInv, Newest
  <2>2. CASE Guilds!ReloadInstalls(m)
    <3>1. registry' = mutation[m].read /\ mutation[m].pc = "reloaded"
      BY <1>5, <2>2 DEF Guilds!ReloadInstalls, Guilds!IsNewestReload, Newest
    <3>2. missedReload' <=> missedReload
      BY <2>2 DEF Guilds!ReloadInstalls
    <3>3. ~missedReload => mutation[m].read = Guilds!Provisioned
      <4>1. SUFFICES ASSUME ~missedReload PROVE mutation[m].read = Guilds!Provisioned
        OBVIOUS
      <4>2. PICK n \in Mutations : Newest(mutation[n]) /\ (mutation[n].pc = "reloaded" => mutation[n].read = Guilds!Provisioned)
        BY <1>5, <4>1 DEF ReloadInv, RegistryInv
      <4>3. n = m
        BY <2>1, <4>2
      <4> QED
        BY <3>1, <4>2, <4>3
    <3>4. ~missedReload' => registry' = Guilds!Provisioned'
      BY <1>2, <3>1, <3>2, <3>3
    <3> QED
      BY <1>3, <1>4, <2>1, <3>4 DEF ReloadInv, RegistryInv
  <2>3. CASE Guilds!ReloadFails(m)
    <3>1. missedReload'
      BY <1>5, <2>3, Zenon DEF Guilds!ReloadFails, Guilds!IsNewestReload, Newest
    <3> QED
      BY <1>3, <3>1 DEF ReloadInv, RegistryInv
  <2> QED
    BY <2>2, <2>3
<1>6. CASE ~Newest(mutation[m])
  <2>1. registry' = registry
    BY <1>1, <1>6 DEF Guilds!ReloadInstalls, Guilds!ReloadFails, Guilds!IsNewestReload, Newest
  <2>2. missedReload' <=> missedReload
    <3>1. ~Guilds!IsNewestReload(mutation[m])
      BY <1>1, <1>6 DEF Guilds!IsNewestReload, Newest
    <3>2. CASE Guilds!ReloadInstalls(m)
      BY <3>2 DEF Guilds!ReloadInstalls
    <3>3. CASE Guilds!ReloadFails(m)
      <4>1. missedReload' = (missedReload \/ Guilds!IsNewestReload(mutation[m]))
        BY <3>3 DEF Guilds!ReloadFails
      <4> QED
        BY <3>1, <4>1, Zenon
    <3> QED
      BY <3>2, <3>3
  <2>3. RegistryInv'
    BY <1>1, <1>2, <1>4, <1>6, <2>1, <2>2 DEF ReloadInv, RegistryInv
  <2> QED
    BY <1>3, <2>3 DEF ReloadInv
<1> QED
  BY <1>5, <1>6
\* A guild without a row has no members, so a new row serves no guild more.
LEMMA RowsAloneServeNobody ==
  ASSUME MembersInv, UNCHANGED memberLevel, guildRows \subseteq guildRows', guildRows' \subseteq Servers
  PROVE  Guilds!Provisioned' = Guilds!Provisioned
BY DEF MembersInv, FormsInv, Guilds!Provisioned

\* A form or an event that arrives
LEMMA SubmitKeepsReloads ==
  ASSUME MembersInv, ReloadInv, NEW m \in Mutations, NEW a \in People, NEW t \in People, NEW g \in Servers,
         NEW kind \in {"add", "update", "remove", "toggle"}, NEW l \in Guilds!Levels \cup {Guilds!NotMember},
         Guilds!Submit(m, kind, a, t, g, l)
  PROVE  ReloadInv'
<1> DEFINE f == [Guilds!Unused EXCEPT !.pc = "waits", !.kind = kind, !.actor = a, !.target = t, !.guild = g, !.level = l,
                      !.follow = IF kind \in {"add", "remove"} THEN "reload" ELSE "nothing"]
<1>1. f.pc = "waits"
  BY DEF Guilds!Unused
<1>2. /\ mutation' = [mutation EXCEPT ![m] = f] /\ mutation[m].pc = "idle"
      /\ UNCHANGED <<memberLevel, guildRows, registry, reloadGeneration, missedReload>>
  BY DEF Guilds!Submit, Guilds!IsNext
<1> HIDE DEF f
<1>3. ~Reloading(mutation[m]) /\ ~Reloading(mutation[m])' /\ \A n \in Mutations \ {m} : mutation'[n] = mutation[n]
  BY <1>1, <1>2 DEF Reloading, MembersInv, MembersTyped
<1> QED
  BY <1>2, <1>3, QuietKeepsReloads DEF Guilds!Provisioned

LEMMA JoinsKeepsReloads ==
  ASSUME MembersInv, ReloadInv, NEW m \in Mutations, NEW p \in People, NEW g \in Servers, Guilds!JoinsServer(m, p, g)
  PROVE  ReloadInv'
<1> DEFINE pc == IF g \in guildRows THEN "refreshes" ELSE "registers"
           f == [Guilds!Unused EXCEPT !.pc = pc, !.kind = "create", !.actor = p, !.target = p, !.guild = g, !.level = Guilds!ADMIN,
                               !.follow = "reload"]
<1>1. pc \in {"refreshes", "registers"} /\ Guilds!ADMIN \in Guilds!Levels
  BY DEF Guilds!Levels, Guilds!ADMIN, Guilds!USER
<1>2. /\ mutation' = [mutation EXCEPT ![m] = f] /\ mutation[m].pc = "idle"
      /\ UNCHANGED <<memberLevel, guildRows, registry, reloadGeneration, missedReload>>
  BY DEF Guilds!JoinsServer, Guilds!IsNext
<1> HIDE DEF pc
<1>3. f.pc = pc
  BY <1>1 DEF Guilds!Unused
<1> HIDE DEF f
<1>4. ~Reloading(mutation[m]) /\ ~Reloading(mutation[m])' /\ \A n \in Mutations \ {m} : mutation'[n] = mutation[n]
  BY <1>1, <1>2, <1>3 DEF Reloading, MembersInv, MembersTyped
<1> QED
  BY <1>2, <1>4, QuietKeepsReloads DEF Guilds!Provisioned

\* A step of a form before its write
LEMMA FormStepKeepsReloads ==
  ASSUME MembersInv, ReloadInv, NEW m \in Mutations,
         \/ Guilds!GivesUp(m) \/ Guilds!CheckAuth(m) \/ Guilds!JoinGivesUp(m)
         \/ \E succeeds \in BOOLEAN : Guilds!EditGlobals(m, succeeds)
  PROVE  ReloadInv'
<1>1. MembersTyped /\ mutation[m] \in Forms
  BY DEF MembersInv, MembersTyped
<1>2. UNCHANGED <<registry, reloadGeneration, missedReload>> /\ Guilds!Provisioned' = Guilds!Provisioned
  BY DEF Guilds!GivesUp, Guilds!CheckAuth, Guilds!JoinGivesUp, Guilds!EditGlobals, Guilds!Provisioned
<1>3. ~Reloading(mutation[m])
  BY DEF Guilds!GivesUp, Guilds!CheckAuth, Guilds!JoinGivesUp, Guilds!EditGlobals, Reloading
<1>4. /\ mutation'[m].pc \in {"waits", "done", "edits", "writes"}
      /\ \A n \in Mutations \ {m} : mutation'[n] = mutation[n]
  <2>1. CASE Guilds!GivesUp(m)
    BY <1>1, <2>1 DEF Guilds!GivesUp, Guilds!Finish, MembersTyped, Guilds!Unused
  <2>2. CASE Guilds!CheckAuth(m)
    BY <1>1, <2>2 DEF Guilds!CheckAuth, Guilds!Finish, MembersTyped, Guilds!Unused, Forms
  <2>3. CASE Guilds!JoinGivesUp(m)
    BY <1>1, <2>3 DEF Guilds!JoinGivesUp, MembersTyped, Forms
  <2>4. CASE \E succeeds \in BOOLEAN : Guilds!EditGlobals(m, succeeds)
    BY <1>1, <2>4 DEF Guilds!EditGlobals, Guilds!Finish, MembersTyped, Guilds!Unused, Forms
  <2> QED
    BY <2>1, <2>2, <2>3, <2>4
<1>5. ~Reloading(mutation[m])'
  BY <1>4 DEF Reloading
<1> QED
  BY <1>2, <1>3, <1>4, <1>5, QuietKeepsReloads

\* A write that ends without a reload notes it in missedReload if it changed what is to be served.
LEMMA WriteKeepsReloads ==
  ASSUME MembersInv, ReloadInv, NEW m \in Mutations, Guilds!Write(m) \/ \E committed \in BOOLEAN : Guilds!WriteFails(m, committed)
  PROVE  ReloadInv'
<1>1. MembersTyped
  BY DEF MembersInv
<1>2. CASE Guilds!StartReload(m)
  BY <1>1, <1>2, StartKeepsReloads
<1>3. CASE ~Guilds!StartReload(m)
  <2>1. /\ mutation' = [mutation EXCEPT ![m] = [Guilds!Unused EXCEPT !.pc = "done"]]
        /\ missedReload' = (missedReload \/ Guilds!ServedSetMoves)
        /\ UNCHANGED <<registry, reloadGeneration>> /\ mutation[m].pc = "writes"
    BY <1>3, Zenon DEF Guilds!Write, Guilds!WriteFails, Guilds!Finish
  <2>2. ~missedReload' => ~missedReload /\ Guilds!Provisioned' = Guilds!Provisioned
    BY <2>1, Zenon DEF Guilds!ServedSetMoves
  <2>3. ~Reloading(mutation[m]) /\ ~Reloading(mutation[m])' /\ \A n \in Mutations \ {m} : mutation'[n] = mutation[n]
    BY <1>1, <2>1 DEF Reloading, Guilds!Unused, MembersTyped
  <2> QED
    BY <2>1, <2>2, <2>3, QuietKeepsReloads
<1> QED
  BY <1>2, <1>3

LEMMA JoinStepKeepsReloads ==
  ASSUME MembersInv, ReloadInv, NEW m \in Mutations,
         \/ \E committed \in BOOLEAN : Guilds!JoinFails(m, committed)
         \/ \E ownerKnown \in BOOLEAN : Guilds!upsertGuild(m, ownerKnown)
  PROVE  ReloadInv'
<1>1. MembersTyped /\ mutation[m] \in Forms
  BY DEF MembersInv, MembersTyped
<1>2. mutation[m].guild \in Servers /\ mutation[m].pc \in {"registers", "refreshes"} /\ ~Reloading(mutation[m])
  BY DEF Guilds!JoinFails, Guilds!upsertGuild, MembersInv, FormsInv, Reloading
<1>3. Guilds!Provisioned' = Guilds!Provisioned
  <2>1. UNCHANGED memberLevel /\ guildRows \subseteq guildRows' /\ guildRows' \subseteq guildRows \cup {mutation[m].guild}
    BY DEF Guilds!JoinFails, Guilds!upsertGuild
  <2> QED
    BY <1>1, <1>2, <2>1, RowsAloneServeNobody DEF MembersTyped
<1>4. CASE Guilds!StartReload(m)
  BY <1>1, <1>4, StartKeepsReloads
<1>5. CASE ~Guilds!StartReload(m)
  <2>1. UNCHANGED <<registry, reloadGeneration, missedReload>>
    BY <1>5 DEF Guilds!JoinFails, Guilds!upsertGuild
  <2>2. ~Reloading(mutation[m])' /\ \A n \in Mutations \ {m} : mutation'[n] = mutation[n]
    BY <1>1, <1>5 DEF Guilds!JoinFails, Guilds!upsertGuild, Guilds!Finish, Guilds!Unused, Reloading, Forms, MembersTyped
  <2> QED
    BY <1>2, <1>3, <2>1, <2>2, QuietKeepsReloads
<1> QED
  BY <1>4, <1>5

LEMMA NextKeepsReloads ==
  MembersInv /\ ReloadInv /\ [Guilds!MembersNext]_memberVars => ReloadInv'
<1> SUFFICES ASSUME MembersInv, ReloadInv, [Guilds!MembersNext]_memberVars PROVE ReloadInv'
  OBVIOUS
<1>1. MembersTyped
  BY DEF MembersInv
<1>2. CASE UNCHANGED memberVars
  BY <1>2 DEF memberVars, ReloadInv, GenerationInv, RegistryInv, Newest, Reloading, Guilds!Provisioned
<1>3. ASSUME NEW m \in Mutations, NEW a \in People, NEW t \in People, NEW g \in Servers,
             \/ \E l \in GivenLevels, kind \in {"add", "update"} : Guilds!Submit(m, kind, a, t, g, l)
             \/ \E kind \in {"remove", "toggle"} : Guilds!Submit(m, kind, a, t, g, Guilds!NotMember)
      PROVE  ReloadInv'
  BY <1>3, SubmitKeepsReloads, GivenLevelsAreLevels
<1>4. ASSUME NEW m \in Mutations, NEW p \in People, NEW g \in Servers, Guilds!JoinsServer(m, p, g) PROVE ReloadInv'
  BY <1>4, JoinsKeepsReloads
<1>5. ASSUME NEW m \in Mutations, Guilds!GivesUp(m) \/ Guilds!CheckAuth(m) \/ Guilds!JoinGivesUp(m) PROVE ReloadInv'
  BY <1>5, FormStepKeepsReloads
<1>6. ASSUME NEW m \in Mutations, NEW succeeds \in BOOLEAN, Guilds!EditGlobals(m, succeeds) PROVE ReloadInv'
  BY <1>6, FormStepKeepsReloads
<1>7. ASSUME NEW m \in Mutations, Guilds!Write(m) \/ \E committed \in BOOLEAN : Guilds!WriteFails(m, committed) PROVE ReloadInv'
  BY <1>7, WriteKeepsReloads
<1>8. ASSUME NEW m \in Mutations, Guilds!ReloadReads(m) PROVE ReloadInv'
  BY <1>1, <1>8, ReadKeepsReloads
<1>9. ASSUME NEW m \in Mutations, Guilds!ReloadInstalls(m) \/ Guilds!ReloadFails(m) PROVE ReloadInv'
  BY <1>1, <1>9, EndKeepsReloads
<1>10. ASSUME NEW m \in Mutations,
              \/ \E committed \in BOOLEAN : Guilds!JoinFails(m, committed)
              \/ \E ownerKnown \in BOOLEAN : Guilds!upsertGuild(m, ownerKnown)
       PROVE  ReloadInv'
  BY <1>10, JoinStepKeepsReloads
<1> QED
  BY <1>2, <1>3, <1>4, <1>5, <1>6, <1>7, <1>8, <1>9, <1>10, Zenon DEF Guilds!MembersNext

LEMMA ReloadsInit == MembersStart => ReloadInv
<1> SUFFICES ASSUME MembersStart PROVE ReloadInv
  OBVIOUS
<1>1. \A m \in Mutations : mutation[m].pc = "idle"
  BY DEF MembersStart, Guilds!Unused
<1> QED
  BY <1>1 DEF MembersStart, ReloadInv, GenerationInv, RegistryInv, Newest, Reloading

LEMMA MembersTruth ==
  ASSUME MembersInv, ReloadInv
  PROVE  Guilds!WritesAreAllowed /\ Exclusive /\ Guilds!RegistryFollows
BY DEF MembersInv, ReloadInv, RegistryInv, Guilds!RegistryFollows, Newest, Reloading

MembersBehaviour == MembersStart /\ [][Guilds!MembersNext]_memberVars

LEMMA MembersInvHolds == MembersBehaviour => [](MembersInv /\ ReloadInv)
<1>1. MembersStart => MembersInv /\ ReloadInv
  BY MembersInitInv, ReloadsInit
<1>2. (MembersInv /\ ReloadInv) /\ [Guilds!MembersNext]_memberVars => (MembersInv /\ ReloadInv)'
  BY MembersNextInv, NextKeepsReloads
<1> QED
  BY <1>1, <1>2, PTL DEF MembersBehaviour

\* No form writes what the levels in force no longer allow, whoever demotes, promotes and removes
\* its actor and target while it waits, from any table: the checks are made with both places held
\* (runUserMutationForActorAndTarget and adminUserAuth.ts).
THEOREM WritesAreAllowedHolds == MembersBehaviour => []Guilds!WritesAreAllowed
<1>1. MembersInv /\ ReloadInv => Guilds!WritesAreAllowed
  BY MembersTruth
<1> QED
  BY <1>1, MembersInvHolds, PTL

\* Two forms that hold their places at once have no person in common.
THEOREM PlacesAreExclusive == MembersBehaviour => []Exclusive
<1>1. MembersInv /\ ReloadInv => Exclusive
  BY MembersTruth
<1> QED
  BY <1>1, MembersInvHolds, PTL

\* With no reload under way, the bot serves the guilds that have a member, however many reloads
\* overlapped, unless one was skipped or the newest failed (the generations of reloadGuildRegistry).
THEOREM RegistryFollowsHolds == MembersBehaviour => []Guilds!RegistryFollows
<1>1. MembersInv /\ ReloadInv => Guilds!RegistryFollows
  BY MembersTruth
<1> QED
  BY <1>1, MembersInvHolds, PTL

-------------------------------------------------------------------------------
(* Keys: requests, rotations, revokes and restarts                         *)

Statuses == {"none", "pending", "approved", "revoked", "denied"}
Requests == [pc : {"idle", "creates", "rotates", "asks"}, guild : KeyGuilds \cup {0},
             status : Keys!InitialStatuses \cup {"none"}, asks : BOOLEAN]

-------------------------------------------------------------------------------
(* Types.  Secrets are numbered without a bound here: the bound on them is *)
(* the instance's.                                                         *)

KeysTyped ==
  /\ keyVersion \in Nat /\ recentRotation \in Nat
  /\ approval \in [KeyGuilds -> Statuses]
  /\ revokedVersion \in [KeyGuilds -> Nat]
  /\ keyRequest \in Requests /\ lostRotation \in BOOLEAN

\* A running request has its guild, one without access, and a status to ask for; the one that is
\* about to make the user's first secret finds none.
RequestInv ==
  /\ keyRequest.pc \in {"creates", "asks"} \/ keyRequest.asks =>
       /\ keyRequest.guild \in KeyGuilds /\ keyRequest.status \in Keys!InitialStatuses
       /\ approval[keyRequest.guild] \in {"none", "revoked"}
  /\ keyRequest.pc = "creates" => keyVersion = 0
  /\ keyRequest.pc = "asks" => revokedVersion[keyRequest.guild] < keyVersion

\* No guild has revoked a secret of the future, and one that waits for a decision or has been let
\* in has a later secret than it has revoked.
RevokedInv ==
  \A g \in KeyGuilds :
    /\ revokedVersion[g] <= keyVersion
    /\ approval[g] \in {"pending", "approved"} => revokedVersion[g] < keyVersion
    /\ approval[g] = "none" => revokedVersion[g] = 0

\* What is remembered is the secret in force, unless a rotation said to have failed replaced it.
RememberedInv ==
  /\ keyVersion = 0 => recentRotation = 0
  /\ Keys!RotationIsUsable

KeysInv == KeysTyped /\ RequestInv /\ RevokedInv /\ RememberedInv

LEMMA KeysInitInv == Keys!KeysInit => KeysInv
<1> SUFFICES ASSUME Keys!KeysInit PROVE KeysInv
  OBVIOUS
<1> USE DEF Keys!KeysInit
<1>1. KeysTyped
  <2>1. keyRequest \in Requests
    BY DEF Keys!NoRequest, Requests
  <2>2. approval \in [KeyGuilds -> Statuses]
    BY DEF Statuses
  <2> QED
    BY <2>1, <2>2 DEF KeysTyped
<1>2. RequestInv
  BY DEF RequestInv, Keys!NoRequest
<1>3. RevokedInv
  <2>1. keyVersion = 0
    OBVIOUS
  <2>2. ASSUME NEW g \in KeyGuilds PROVE revokedVersion[g] = 0 /\ approval[g] = "none"
    OBVIOUS
  <2>3. revokedVersion \in [KeyGuilds -> Nat] /\ approval \in [KeyGuilds -> Statuses]
    BY <1>1 DEF KeysTyped
  <2> HIDE DEF Keys!KeysInit
  <2> SUFFICES ASSUME NEW g \in KeyGuilds
               PROVE  /\ revokedVersion[g] <= keyVersion
                      /\ approval[g] \in {"pending", "approved"} => revokedVersion[g] < keyVersion
                      /\ approval[g] = "none" => revokedVersion[g] = 0
    BY DEF RevokedInv
  <2> QED
    BY <2>1, <2>2, <2>3
<1>4. RememberedInv
  <2>1. recentRotation = 0
    OBVIOUS
  <2> QED
    BY <2>1 DEF RememberedInv, Keys!RotationIsUsable
<1> QED
  BY <1>1, <1>2, <1>3, <1>4 DEF KeysInv

-------------------------------------------------------------------------------
(* One lemma for each operation that changes the secret or the request     *)

LEMMA RequestKeepsInv ==
  ASSUME KeysInv, NEW g \in KeyGuilds, NEW initial \in Keys!InitialStatuses, Keys!RequestKey(g, initial)
  PROVE  KeysInv'
<1> USE DEF KeysInv, Keys!RequestKey, Keys!NoRequest
<1>1. keyRequest' = [pc |-> Keys!FirstStep(g), guild |-> g, status |-> initial, asks |-> TRUE]
  OBVIOUS
<1>2. /\ Keys!FirstStep(g) \in {"rotates", "creates", "asks"}
      /\ Keys!FirstStep(g) = "creates" => keyVersion = 0
      /\ Keys!FirstStep(g) = "asks" => approval[g] = "none" /\ keyVersion # 0
  BY DEF Keys!FirstStep, KeysTyped, Statuses
<1>3. KeysTyped'
  BY <1>1, <1>2 DEF KeysTyped, Requests
<1>4. RequestInv'
  BY <1>1, <1>2 DEF KeysTyped, RequestInv, RevokedInv
<1> QED
  BY <1>3, <1>4 DEF RevokedInv, RememberedInv, Keys!RotationIsUsable

LEMMA RotateFormKeepsInv ==
  ASSUME KeysInv, NEW form, Keys!RotateForm(form)
  PROVE  KeysInv'
<1> USE DEF KeysInv, Keys!RotateForm
<1>1. KeysTyped'
  BY DEF KeysTyped, Requests
<1> QED
  BY <1>1 DEF RequestInv, RevokedInv, RememberedInv, Keys!RotationIsUsable

LEMMA CreateKeepsInv ==
  ASSUME KeysInv, NEW answered, Keys!createApiKey(answered)
  PROVE  KeysInv'
<1> USE DEF KeysInv, Keys!createApiKey, Keys!NoRequest
<1>1. keyRequest.guild \in KeyGuilds /\ keyRequest.status \in Keys!InitialStatuses /\ keyVersion = 0
  BY DEF RequestInv
<1>2. KeysTyped'
  BY <1>1 DEF KeysTyped, Requests, Statuses, Keys!InitialStatuses
<1>3. RevokedInv'
  BY <1>1, <1>2 DEF KeysTyped, RevokedInv, Keys!InitialStatuses
<1> QED
  BY <1>1, <1>2, <1>3 DEF KeysTyped, RequestInv, RememberedInv, Keys!RotationIsUsable

LEMMA RotateKeepsInv ==
  ASSUME KeysInv, NEW answered, Keys!rotateAndRemember(answered)
  PROVE  KeysInv'
<1> USE DEF KeysInv, Keys!rotateAndRemember, Keys!NoRequest, Keys!Remembered
<1>1. KeysTyped'
  <2>1. keyVersion' \in Nat /\ recentRotation' \in Nat
    BY DEF KeysTyped
  <2>2. keyRequest' \in Requests
    <3>1. keyRequest \in Requests /\ Keys!NoRequest \in Requests
      BY DEF KeysTyped, Requests
    <3>2. [keyRequest EXCEPT !.pc = "asks"] \in Requests
      BY <3>1 DEF Requests
    <3>3. keyRequest' \in {Keys!NoRequest, [keyRequest EXCEPT !.pc = "asks"]}
      BY Zenon
    <3> QED
      BY <3>1, <3>2, <3>3
  <2>3. lostRotation' \in BOOLEAN
    BY Zenon
  <2> QED
    BY <2>1, <2>2, <2>3 DEF KeysTyped
<1>2. RevokedInv'
  BY <1>1 DEF KeysTyped, RevokedInv
<1>3. RememberedInv'
  <2>1. keyVersion' # 0
    BY DEF KeysTyped
  <2>2. CASE answered
    <3>1. recentRotation' = keyVersion'
      BY <2>2
    <3> QED
      BY <2>1, <3>1 DEF RememberedInv, Keys!RotationIsUsable
  <2>3. CASE ~answered
    <3>1. recentRotation' = recentRotation /\ lostRotation' = (recentRotation # 0)
      BY <2>3
    <3> QED
      BY <2>1, <3>1, Zenon DEF RememberedInv, Keys!RotationIsUsable
  <2> QED
    BY <2>2, <2>3
<1>4. RequestInv'
  BY <1>1 DEF KeysTyped, Requests, RequestInv, RevokedInv
<1> QED
  BY <1>1, <1>2, <1>3, <1>4

LEMMA AskKeepsInv ==
  ASSUME KeysInv, NEW answered, Keys!requestGuildAccessForExistingKey(answered)
  PROVE  KeysInv'
<1> USE DEF KeysInv, Keys!requestGuildAccessForExistingKey, Keys!NoRequest
<1>1. /\ keyRequest.guild \in KeyGuilds /\ keyRequest.status \in Keys!InitialStatuses
      /\ revokedVersion[keyRequest.guild] < keyVersion
  BY DEF RequestInv
<1>2. KeysTyped'
  BY <1>1 DEF KeysTyped, Requests, Statuses, Keys!InitialStatuses
<1>3. RevokedInv'
  BY <1>1, <1>2 DEF KeysTyped, RevokedInv, Keys!InitialStatuses
<1> QED
  BY <1>1, <1>2, <1>3 DEF RequestInv, RememberedInv, Keys!RotationIsUsable

\* A revoke takes access from a guild for which nothing is being asked.
LEMMA RevokeKeepsInv ==
  ASSUME KeysInv, NEW g \in KeyGuilds, Keys!revokeApiKey(g)
  PROVE  KeysInv'
<1> USE DEF KeysInv, Keys!revokeApiKey
<1>1. KeysTyped'
  BY DEF KeysTyped, Statuses
<1>2. RequestInv'
  BY <1>1 DEF KeysTyped, RequestInv
<1>3. RevokedInv'
  BY <1>1 DEF KeysTyped, RevokedInv
<1> QED
  BY <1>1, <1>2, <1>3 DEF RememberedInv, Keys!RotationIsUsable

LEMMA DecideKeepsInv ==
  ASSUME KeysInv, NEW g \in KeyGuilds, NEW verdict \in {"approved", "denied"}, Keys!Decide(g, verdict)
  PROVE  KeysInv'
<1> USE DEF KeysInv, Keys!Decide
<1>1. KeysTyped'
  BY DEF KeysTyped, Statuses
<1>2. RequestInv'
  BY <1>1 DEF KeysTyped, RequestInv
<1>3. RevokedInv'
  BY <1>1 DEF KeysTyped, RevokedInv
<1> QED
  BY <1>1, <1>2, <1>3 DEF RememberedInv, Keys!RotationIsUsable

-------------------------------------------------------------------------------
LEMMA KeysNextInv == KeysInv /\ [Keys!KeysNext]_(Keys!keyVars) => KeysInv'
<1> SUFFICES ASSUME KeysInv, [Keys!KeysNext]_(Keys!keyVars) PROVE KeysInv'
  OBVIOUS
<1> USE DEF KeysTyped, RequestInv, RevokedInv, RememberedInv, Keys!RotationIsUsable
<1>1. ASSUME NEW g \in KeyGuilds, NEW initial \in Keys!InitialStatuses, Keys!RequestKey(g, initial) PROVE KeysInv'
  BY <1>1, RequestKeepsInv
<1>2. ASSUME NEW form \in 0..MaxKeys, Keys!RotateForm(form) PROVE KeysInv'
  BY <1>2, RotateFormKeepsInv
<1>3. ASSUME NEW answered \in BOOLEAN,
             Keys!createApiKey(answered) \/ Keys!rotateAndRemember(answered) \/ Keys!requestGuildAccessForExistingKey(answered)
      PROVE  KeysInv'
  BY <1>3, CreateKeepsInv, RotateKeepsInv, AskKeepsInv
<1>4. CASE Keys!StepFails
  BY <1>4 DEF KeysInv, Keys!StepFails, Keys!NoRequest, Requests
<1>5. CASE Keys!WindowEnds
  BY <1>5 DEF KeysInv, Keys!WindowEnds
<1>6. CASE Keys!KeysRestart
  BY <1>6 DEF KeysInv, Keys!KeysRestart, Keys!NoRequest, Requests
<1>7. ASSUME NEW g \in KeyGuilds, Keys!revokeApiKey(g) PROVE KeysInv'
  BY <1>7, RevokeKeepsInv
<1>8. ASSUME NEW g \in KeyGuilds, Keys!MembershipChanges(g) PROVE KeysInv'
  BY <1>8 DEF KeysInv, Keys!MembershipChanges
<1>9. ASSUME NEW g \in KeyGuilds, NEW verdict \in {"approved", "denied"}, Keys!Decide(g, verdict) PROVE KeysInv'
  BY <1>9, DecideKeepsInv
<1>10. CASE UNCHANGED Keys!keyVars
  BY <1>10 DEF KeysInv, Keys!keyVars
<1> QED
  BY <1>1, <1>2, <1>3, <1>4, <1>5, <1>6, <1>7, <1>8, <1>9, <1>10 DEF Keys!KeysNext

LEMMA InvImpliesRevoked == KeysInv => Keys!KeysStayRevoked
BY DEF KeysInv, RevokedInv, Keys!KeysStayRevoked, Keys!Accepts

\* A secret revoked in a guild is never accepted there again: applyKeyRequest in streamdeckKeys.ts
\* rotates before it asks again.
THEOREM KeysStayRevokedHolds == Keys!KeysSpec => []Keys!KeysStayRevoked
BY KeysInitInv, KeysNextInv, InvImpliesRevoked, PTL DEF Keys!KeysSpec

\* What recentRotations would show again is the secret in force, unless a rotation that was
\* reported failed has replaced it (rotateAndRemember).
THEOREM RotationIsUsableHolds == Keys!KeysSpec => []Keys!RotationIsUsable
<1>1. KeysInv => Keys!RotationIsUsable
  BY DEF KeysInv, RememberedInv
<1> QED
  BY KeysInitInv, KeysNextInv, <1>1, PTL DEF Keys!KeysSpec

-------------------------------------------------------------------------------
(* Passkeys: codes, challenges and counters that several requests meet at  *)

CodeSteps == {"idle", "inserts", "sends", "drops", "done"}
EnrolmentRecords ==
  [pc : {"idle", "compares", "lists", "stores", "offered", "done"}, entered : Nat, paid : Nat,
   handle : Enrolments \cup {0}]

\* Requests for a code that have come as far as having one
HadACode == {q \in CodeRequests : codeRequest[q].pc \notin {"idle", "inserts"}}

\* A code that was not delivered yet, or will be dropped, is one request's alone.
SentInv ==
  /\ lastCode \in Nat /\ lastCode <= Cardinality(HadACode)
  /\ delivered \subseteq 1..lastCode
  /\ codeRequest \in [CodeRequests -> [pc : CodeSteps, code : Nat]]
  /\ \A q \in CodeRequests :
       codeRequest[q].pc \in {"sends", "drops"} => codeRequest[q].code \in (1..lastCode) \ delivered
  /\ \A q, r \in CodeRequests :
       codeRequest[q].pc \in {"sends", "drops"} /\ codeRequest[r].pc \in {"sends", "drops"}
         /\ codeRequest[q].code = codeRequest[r].code => q = r

\* The enrolments that have paid for a comparison with code c and are about to make it
Comparing(c) == {e \in Enrolments : enrolment[e].pc = "compares" /\ enrolment[e].paid = c}

CodeTypes ==
  /\ enrolmentCode \in [value : Nat, attempts : Nat, cooled : BOOLEAN]
  /\ enrolment \in [Enrolments -> EnrolmentRecords]
  /\ guesses \in [Passes!Codes -> Nat] /\ matches \in [Passes!Codes -> Nat]

\* Codes are new: what is counted of one is counted since it was made.
CodesAreNew ==
  /\ enrolmentCode.value <= lastCode
  /\ \A e \in Enrolments : enrolment[e].paid <= lastCode /\ (enrolment[e].pc = "compares" => enrolment[e].paid # 0)
  /\ \A c \in Passes!Codes : c > lastCode => guesses[c] = 0 /\ matches[c] = 0

\* The attempts of the code in force pay for the comparisons made and for those to come.
AttemptsPay ==
  enrolmentCode.value # 0 =>
    /\ enrolmentCode.attempts <= CODE_MAX_ATTEMPTS
    /\ matches[enrolmentCode.value] = 0
    /\ guesses[enrolmentCode.value] + Cardinality(Comparing(enrolmentCode.value)) <= enrolmentCode.attempts

CodesSpent == \A c \in Passes!Codes : guesses[c] <= CODE_MAX_ATTEMPTS /\ matches[c] <= 1

CodesInv == CodeTypes /\ CodesAreNew /\ AttemptsPay /\ CodesSpent

\* Whoever registers a passkey has taken its challenge, and it is not offered again.
ChallengeInv ==
  /\ verification \in [Verifications -> [pc : {"idle", "inserts", "done"}, enrolment : Enrolments \cup {0}]]
  /\ challenges \subseteq Enrolments
  /\ \A v \in Verifications :
       verification[v].pc = "inserts" =>
         /\ verification[v].enrolment \in Enrolments \ challenges
         /\ enrolment[verification[v].enrolment].pc = "offered"
  /\ \A v, w \in Verifications :
       verification[v].pc = "inserts" /\ verification[w].pc = "inserts"
         /\ verification[v].enrolment = verification[w].enrolment => v = w

RoomInv ==
  /\ userHandle \in [Enrolments -> Enrolments \cup {0}]
  /\ Cardinality(Passes!Registered) <= MAX_PASSKEYS_PER_USER

SignInInv ==
  /\ signIn \in [SignIns -> [pc : {"idle", "records", "in", "refused"}, passkey : Enrolments \cup {0}, counter : Nat]]
  /\ signCount \in [Enrolments -> Nat] /\ deviceCounter \in [Enrolments -> Nat]
  /\ \A s \in SignIns : signIn[s].pc = "records" => signIn[s].passkey \in Enrolments

PasskeysInv == SentInv /\ CodesInv /\ ChallengeInv /\ RoomInv /\ SignInInv

LEMMA PasskeysCardinality == \A S : Passes!Cardinality(S) = Cardinality(S)
BY DEF Passes!Cardinality, Cardinality

LEMMA CodesAre == Passes!Codes = 1..Cardinality(CodeRequests) /\ Cardinality(CodeRequests) \in Nat
BY PasskeysCardinality, PasskeysAssumption, FS_CardinalityType DEF Passes!Codes

LEMMA PasskeysInitInv == ASSUME Passes!PasskeysInit PROVE PasskeysInv
<1> USE DEF Passes!PasskeysInit
<1>1. SentInv
  <2>1. HadACode = {}
    BY DEF HadACode
  <2>2. Cardinality(HadACode) = 0
    BY <2>1, FS_EmptySet
  <2>3. codeRequest \in [CodeRequests -> [pc : CodeSteps, code : Nat]]
    BY DEF CodeSteps
  <2> QED
    BY <2>2, <2>3 DEF SentInv
<1>2. CodesInv
  <2>1. CodeTypes
    BY DEF CodeTypes, Passes!NoCode, EnrolmentRecords
  <2>2. CodesAreNew
    BY CodesAre DEF CodesAreNew, Passes!NoCode
  <2>3. AttemptsPay
    BY DEF AttemptsPay, Passes!NoCode
  <2>4. CodesSpent
    BY PasskeysAssumption, CodesAre DEF CodesSpent
  <2> QED
    BY <2>1, <2>2, <2>3, <2>4 DEF CodesInv
<1>3. ChallengeInv
  BY DEF ChallengeInv
<1>4. RoomInv
  <2>1. Passes!Registered = {}
    BY DEF Passes!Registered
  <2>2. Cardinality(Passes!Registered) = 0
    BY <2>1, FS_EmptySet
  <2> QED
    BY <2>2, PasskeysAssumption DEF RoomInv
<1>5. SignInInv
  BY DEF SignInInv
<1> QED
  BY <1>1, <1>2, <1>3, <1>4, <1>5 DEF PasskeysInv

\* A step counts once in a finite set: what an action adds to one, or takes from it.
LEMMA OneMore ==
  ASSUME NEW S, IsFiniteSet(S), NEW T, NEW x, T \subseteq S \cup {x}
  PROVE  IsFiniteSet(T) /\ Cardinality(T) \in Nat /\ Cardinality(S) \in Nat /\ Cardinality(T) <= Cardinality(S) + 1
<1>1. IsFiniteSet(S \cup {x}) /\ Cardinality(S \cup {x}) <= Cardinality(S) + 1 /\ Cardinality(S) \in Nat
  <2>1. Cardinality(S) \in Nat
    BY FS_CardinalityType
  <2> QED
    BY <2>1, FS_AddElement
<1>2. IsFiniteSet(T) /\ Cardinality(T) <= Cardinality(S \cup {x})
  BY <1>1, FS_Subset
<1>3. Cardinality(T) \in Nat /\ Cardinality(S \cup {x}) \in Nat
  BY <1>1, <1>2, FS_CardinalityType
<1> QED
  BY <1>1, <1>2, <1>3

LEMMA OneLess ==
  ASSUME NEW S, IsFiniteSet(S), NEW T, NEW x \in S, T \subseteq S \ {x}
  PROVE  IsFiniteSet(T) /\ Cardinality(T) \in Nat /\ Cardinality(S) \in Nat /\ Cardinality(T) + 1 <= Cardinality(S)
<1>1. IsFiniteSet(S \ {x}) /\ Cardinality(S \ {x}) = Cardinality(S) - 1
  BY FS_RemoveElement
<1>2. IsFiniteSet(T) /\ Cardinality(T) <= Cardinality(S \ {x})
  BY <1>1, FS_Subset
<1>3. Cardinality(T) \in Nat /\ Cardinality(S) \in Nat
  BY <1>2, FS_CardinalityType
<1> QED
  BY <1>1, <1>2, <1>3

-------------------------------------------------------------------------------
(* The codes: requested, sent, delivered, dropped                          *)

\* A request that goes on, or fails, without a code of its own before or after
LEMMA CodelessStep ==
  ASSUME SentInv, NEW q \in CodeRequests, NEW step \in CodeSteps, step \notin {"idle", "sends", "drops"},
         codeRequest[q].pc \in {"idle", "inserts", "sends", "drops"}, step = "inserts" => codeRequest[q].pc = "idle",
         codeRequest' = [codeRequest EXCEPT ![q].pc = step], UNCHANGED <<lastCode, delivered>>
  PROVE  SentInv'
<1>1. /\ codeRequest' \in [CodeRequests -> [pc : CodeSteps, code : Nat]]
      /\ \A r \in CodeRequests : codeRequest'[r].code = codeRequest[r].code
      /\ \A r \in CodeRequests : codeRequest'[r].pc = IF r = q THEN step ELSE codeRequest[r].pc
  BY DEF SentInv
<1>2. HadACode \subseteq HadACode'
  BY <1>1 DEF HadACode
<1>3. IsFiniteSet(HadACode') /\ HadACode' \subseteq CodeRequests
  BY PasskeysAssumption, FS_Subset DEF HadACode
<1>4. Cardinality(HadACode) <= Cardinality(HadACode')
  BY <1>2, <1>3, FS_Subset
<1>5. IsFiniteSet(HadACode) /\ Cardinality(HadACode) \in Nat /\ Cardinality(HadACode)' \in Nat
  BY <1>2, <1>3, FS_Subset, FS_CardinalityType
<1>6. lastCode' <= Cardinality(HadACode)'
  BY <1>4, <1>5 DEF SentInv
<1> QED
  BY <1>1, <1>6 DEF SentInv

LEMMA SaveKeepsSent ==
  ASSUME SentInv, NEW q \in CodeRequests, Passes!savePasskeyEnrollmentCode(q)
  PROVE  SentInv'
<1>1. CASE enrolmentCode.value # 0
  BY <1>1, CodelessStep DEF Passes!savePasskeyEnrollmentCode, CodeSteps
<1>2. CASE enrolmentCode.value = 0
  <2> DEFINE new == lastCode + 1
  <2>1. /\ codeRequest' = [codeRequest EXCEPT ![q] = [pc |-> "sends", code |-> new]]
        /\ lastCode' = new /\ delivered' = delivered /\ codeRequest[q].pc = "inserts"
    BY <1>2 DEF Passes!savePasskeyEnrollmentCode
  <2>2. new \in Nat /\ new > lastCode /\ lastCode \in Nat
    BY DEF SentInv
  <2> HIDE DEF new
  <2>3. /\ codeRequest' \in [CodeRequests -> [pc : CodeSteps, code : Nat]]
        /\ codeRequest'[q] = [pc |-> "sends", code |-> new]
        /\ \A r \in CodeRequests \ {q} : codeRequest'[r] = codeRequest[r]
    BY <2>1, <2>2 DEF SentInv, CodeSteps
  <2>4. HadACode' = HadACode \cup {q} /\ q \notin HadACode
    BY <2>1, <2>3 DEF HadACode
  <2>5. IsFiniteSet(HadACode)
    BY PasskeysAssumption, FS_Subset DEF HadACode
  <2>6. Cardinality(HadACode') = Cardinality(HadACode) + 1 /\ Cardinality(HadACode) \in Nat
    BY <2>4, <2>5, FS_AddElement, FS_CardinalityType
  <2>7. lastCode' <= Cardinality(HadACode)'
    BY <2>1, <2>2, <2>6 DEF SentInv, new
  <2>8. delivered' \subseteq 1..lastCode' /\ new \in (1..lastCode') \ delivered' /\ new \notin 1..lastCode
    BY <2>1, <2>2 DEF SentInv, new
  <2>9. ASSUME NEW r \in CodeRequests, codeRequest'[r].pc \in {"sends", "drops"}
        PROVE  codeRequest'[r].code \in (1..lastCode') \ delivered'
    <3>1. CASE r = q
      BY <2>3, <2>8, <3>1
    <3>2. CASE r # q
      BY <2>1, <2>2, <2>3, <2>9, <3>2 DEF SentInv
    <3> QED
      BY <3>1, <3>2
  <2>10. ASSUME NEW r \in CodeRequests, NEW t \in CodeRequests, codeRequest'[r].pc \in {"sends", "drops"},
                codeRequest'[t].pc \in {"sends", "drops"}, codeRequest'[r].code = codeRequest'[t].code
         PROVE  r = t
    <3>1. \A x \in CodeRequests \ {q} : codeRequest'[x].pc \in {"sends", "drops"} => codeRequest'[x].code \in 1..lastCode
      BY <2>3 DEF SentInv
    <3>2. CASE r # q /\ t # q
      BY <2>3, <2>10, <3>2 DEF SentInv
    <3>3. CASE r = q \/ t = q
      BY <2>3, <2>8, <2>10, <3>1, <3>3
    <3> QED
      BY <3>2, <3>3
  <2> QED
    BY <2>1, <2>2, <2>3, <2>7, <2>8, <2>9, <2>10 DEF SentInv
<1> QED
  BY <1>1, <1>2

LEMMA SendKeepsSent ==
  ASSUME SentInv, NEW q \in CodeRequests, NEW sent \in BOOLEAN, Passes!SendCode(q, sent)
  PROVE  SentInv'
<1> DEFINE step == IF sent THEN "done" ELSE "drops"
<1>1. /\ codeRequest' = [codeRequest EXCEPT ![q].pc = step] /\ codeRequest[q].pc = "sends"
      /\ lastCode' = lastCode
      /\ delivered' = IF sent THEN delivered \cup {codeRequest[q].code} ELSE delivered
  BY DEF Passes!SendCode
<1>2. step \in {"done", "drops"} /\ (step = "drops" <=> ~sent)
  OBVIOUS
<1> HIDE DEF step
<1>3. /\ codeRequest' \in [CodeRequests -> [pc : CodeSteps, code : Nat]]
      /\ \A r \in CodeRequests : codeRequest'[r].code = codeRequest[r].code
      /\ \A r \in CodeRequests : codeRequest'[r].pc = IF r = q THEN step ELSE codeRequest[r].pc
  BY <1>1, <1>2 DEF SentInv, CodeSteps
<1>4. HadACode' = HadACode
  BY <1>1, <1>2, <1>3 DEF HadACode
<1>5. codeRequest[q].code \in 1..lastCode
  BY <1>1 DEF SentInv
<1>6. delivered' \subseteq 1..lastCode'
  BY <1>1, <1>5 DEF SentInv
<1>7. ASSUME NEW r \in CodeRequests, codeRequest'[r].pc \in {"sends", "drops"}
      PROVE  codeRequest'[r].code \in (1..lastCode') \ delivered'
  <2>1. codeRequest[r].pc \in {"sends", "drops"}
    BY <1>1, <1>2, <1>3, <1>7
  <2>2. codeRequest[r].code \in (1..lastCode) \ delivered
    BY <2>1 DEF SentInv
  <2>3. sent => codeRequest[r].code # codeRequest[q].code
    BY <1>1, <1>2, <1>3, <1>7, <2>1 DEF SentInv
  <2> QED
    BY <1>1, <1>3, <2>2, <2>3
<1>8. ASSUME NEW r \in CodeRequests, NEW t \in CodeRequests, codeRequest'[r].pc \in {"sends", "drops"},
             codeRequest'[t].pc \in {"sends", "drops"}, codeRequest'[r].code = codeRequest'[t].code
      PROVE  r = t
  <2>1. codeRequest[r].pc \in {"sends", "drops"} /\ codeRequest[t].pc \in {"sends", "drops"}
    BY <1>1, <1>2, <1>3, <1>8
  <2> QED
    BY <1>3, <1>8, <2>1 DEF SentInv
<1> QED
  BY <1>1, <1>3, <1>4, <1>6, <1>7, <1>8 DEF SentInv

LEMMA NextKeepsSent == ASSUME SentInv, Passes!PasskeysNext PROVE SentInv'
<1>1. ASSUME UNCHANGED <<lastCode, delivered, codeRequest>> PROVE SentInv'
  BY <1>1 DEF SentInv, HadACode
<1>2. ASSUME NEW q \in CodeRequests, Passes!RequestCode(q) PROVE SentInv'
  BY <1>2, CodelessStep DEF Passes!RequestCode, Passes!IsNext, CodeSteps
<1>3. ASSUME NEW q \in CodeRequests, Passes!deletePasskeyEnrollmentCode(q) PROVE SentInv'
  BY <1>3, CodelessStep DEF Passes!deletePasskeyEnrollmentCode, CodeSteps
<1>4. CASE Passes!RequestFails
  <2>1. ASSUME NEW q \in CodeRequests, codeRequest[q].pc \in {"inserts", "drops"},
               codeRequest' = [codeRequest EXCEPT ![q].pc = "done"]
        PROVE  SentInv'
    BY <1>4, <2>1, CodelessStep DEF Passes!RequestFails, CodeSteps
  <2> QED
    BY <1>1, <1>4, <2>1 DEF Passes!RequestFails
<1>5. ASSUME NEW e \in Enrolments, NEW v \in Verifications, NEW answered \in BOOLEAN, Passes!TakeChallenge(v, e, answered)
      PROVE  SentInv'
  BY <1>1, <1>5 DEF Passes!TakeChallenge
<1>6. ASSUME NEW e \in Enrolments,
             \/ \E c \in Passes!Codes \cup {0} : Passes!EnterCode(e, c)
             \/ Passes!consumePasskeyEnrollmentCode(e) \/ Passes!storeChallenge(e) \/ Passes!deletePasskey(e)
             \/ \E handle \in Enrolments : Passes!ListPasskeys(e, handle)
             \/ \E s \in SignIns : Passes!findPasskey(s, e)
      PROVE  SentInv'
  BY <1>1, <1>6 DEF Passes!EnterCode, Passes!consumePasskeyEnrollmentCode, Passes!storeChallenge, Passes!deletePasskey,
                    Passes!ListPasskeys, Passes!findPasskey
<1>7. ASSUME NEW v \in Verifications, Passes!insertPasskey(v) PROVE SentInv'
  BY <1>1, <1>7 DEF Passes!insertPasskey
<1>8. ASSUME NEW s \in SignIns, NEW answered \in BOOLEAN, Passes!recordPasskeyUse(s, answered) PROVE SentInv'
  BY <1>1, <1>8 DEF Passes!recordPasskeyUse
<1>9. CASE Passes!CodeAges
  BY <1>1, <1>9 DEF Passes!CodeAges
<1> QED
  BY <1>2, <1>3, <1>4, <1>5, <1>6, <1>7, <1>8, <1>9, SaveKeepsSent, SendKeepsSent DEF Passes!PasskeysNext

LEMMA CodesExist == ASSUME SentInv PROVE lastCode \in Nat /\ lastCode <= Cardinality(CodeRequests)
<1>1. Cardinality(HadACode) <= Cardinality(CodeRequests) /\ IsFiniteSet(HadACode)
  BY PasskeysAssumption, FS_Subset DEF HadACode
<1>2. Cardinality(HadACode) \in Nat
  BY <1>1, FS_CardinalityType
<1> QED
  BY <1>1, <1>2, CodesAre DEF SentInv

\* An enrolment goes on, or ends, without touching the code.
LEMMA EnrolmentGoesOn ==
  ASSUME SentInv, CodesInv, NEW e \in Enrolments, NEW r \in EnrolmentRecords, r.pc # "compares", r.paid = enrolment[e].paid,
         enrolment' = [enrolment EXCEPT ![e] = r], UNCHANGED <<lastCode, guesses, matches, enrolmentCode>>
  PROVE  CodesInv'
<1>1. /\ enrolment' \in [Enrolments -> EnrolmentRecords] /\ enrolment'[e] = r
      /\ \A x \in Enrolments \ {e} : enrolment'[x] = enrolment[x]
  BY DEF CodesInv, CodeTypes
<1>2. CodeTypes'
  BY <1>1 DEF CodesInv, CodeTypes
<1>3. CodesAreNew'
  BY <1>1 DEF CodesInv, CodesAreNew
<1>4. \A c : Comparing(c)' \subseteq Comparing(c) /\ Comparing(c) \subseteq Enrolments
  BY <1>1 DEF Comparing
<1>5. \A c : /\ Cardinality(Comparing(c)') <= Cardinality(Comparing(c))
              /\ Cardinality(Comparing(c)') \in Nat /\ Cardinality(Comparing(c)) \in Nat
  <2>1. \A c : IsFiniteSet(Comparing(c))
    BY <1>4, PasskeysAssumption, FS_Subset
  <2> QED
    BY <1>4, <2>1, FS_Subset, FS_CardinalityType
<1>6. AttemptsPay'
  <2> SUFFICES ASSUME enrolmentCode.value # 0 PROVE AttemptsPay'
    BY DEF AttemptsPay
  <2> DEFINE c == enrolmentCode.value
             before == Cardinality(Comparing(c))
             after == Cardinality(Comparing(c)')
  <2>1. enrolmentCode.attempts <= CODE_MAX_ATTEMPTS /\ matches[c] = 0 /\ guesses[c] + before <= enrolmentCode.attempts
    BY DEF CodesInv, AttemptsPay
  <2>2. after <= before /\ after \in Nat /\ before \in Nat
    BY <1>5
  <2>3. guesses[c] \in Nat /\ enrolmentCode.attempts \in Nat
    BY CodesExist, CodesAre DEF CodesInv, CodeTypes, CodesAreNew
  <2> QED
    BY <2>1, <2>2, <2>3 DEF AttemptsPay
<1>7. CodesSpent'
  BY DEF CodesInv, CodesSpent
<1> QED
  BY <1>2, <1>3, <1>6, <1>7 DEF CodesInv

\* The row goes, or its code stays with the attempts it has.
LEMMA RowGoes ==
  ASSUME SentInv, CodesInv, enrolmentCode' \in [value : Nat, attempts : Nat, cooled : BOOLEAN],
         \/ enrolmentCode'.value = 0
         \/ enrolmentCode'.value = enrolmentCode.value /\ enrolmentCode'.attempts = enrolmentCode.attempts,
         UNCHANGED <<lastCode, enrolment, guesses, matches>>
  PROVE  CodesInv'
<1>1. CodeTypes'
  BY DEF CodesInv, CodeTypes
<1>2. CodesAreNew'
  BY CodesExist DEF CodesInv, CodesAreNew
<1>3. AttemptsPay'
  <2>1. CASE enrolmentCode'.value = 0
    BY <2>1 DEF AttemptsPay
  <2>2. CASE enrolmentCode'.value = enrolmentCode.value /\ enrolmentCode'.attempts = enrolmentCode.attempts
    <3>1. Comparing(enrolmentCode.value)' = Comparing(enrolmentCode.value)
      BY <2>2 DEF Comparing
    <3> QED
      BY <2>2, <3>1 DEF CodesInv, AttemptsPay
  <2> QED
    BY <2>1, <2>2
<1>4. CodesSpent'
  BY DEF CodesInv, CodesSpent
<1> QED
  BY <1>1, <1>2, <1>3, <1>4 DEF CodesInv

LEMMA RowStepsKeepCodes ==
  ASSUME SentInv, CodesInv,
         \/ \E q \in CodeRequests : Passes!RequestCode(q) \/ Passes!deletePasskeyEnrollmentCode(q)
         \/ Passes!CodeAges
  PROVE  CodesInv'
<1>1. enrolmentCode' \in {Passes!NoCode, enrolmentCode, [enrolmentCode EXCEPT !.cooled = TRUE]}
      /\ UNCHANGED <<lastCode, enrolment, guesses, matches>>
  BY DEF Passes!RequestCode, Passes!deletePasskeyEnrollmentCode, Passes!CodeAges
<1>2. enrolmentCode \in [value : Nat, attempts : Nat, cooled : BOOLEAN]
  BY DEF CodesInv, CodeTypes
<1>3. Passes!NoCode \in [value : Nat, attempts : Nat, cooled : BOOLEAN] /\ Passes!NoCode.value = 0
  BY DEF Passes!NoCode
<1> QED
  BY <1>1, <1>2, <1>3, RowGoes

LEMMA SaveKeepsCodes ==
  ASSUME SentInv, SentInv', CodesInv, NEW q \in CodeRequests, Passes!savePasskeyEnrollmentCode(q)
  PROVE  CodesInv'
<1>1. CASE enrolmentCode.value # 0
  <2>1. UNCHANGED <<enrolmentCode, lastCode, enrolment, guesses, matches>>
    BY <1>1 DEF Passes!savePasskeyEnrollmentCode
  <2> QED
    BY <2>1, RowGoes DEF CodesInv, CodeTypes
<1>2. CASE enrolmentCode.value = 0
  <2> DEFINE new == lastCode + 1
  <2>1. /\ enrolmentCode' = [value |-> new, attempts |-> 0, cooled |-> FALSE] /\ lastCode' = new
        /\ UNCHANGED <<enrolment, guesses, matches>>
    BY <1>2 DEF Passes!savePasskeyEnrollmentCode
  <2>2. new \in Nat /\ new > lastCode /\ lastCode \in Nat /\ new <= Cardinality(CodeRequests) /\ new # 0
    <3>1. lastCode' <= Cardinality(CodeRequests)
      <4>1. IsFiniteSet(HadACode') /\ Cardinality(HadACode') <= Cardinality(CodeRequests)
        BY PasskeysAssumption, FS_Subset DEF HadACode
      <4>2. Cardinality(HadACode') \in Nat /\ Cardinality(CodeRequests) \in Nat
        BY <4>1, FS_CardinalityType, CodesAre
      <4> QED
        BY <4>1, <4>2 DEF SentInv
    <3> QED
      BY <2>1, <3>1, CodesExist
  <2>3. new \in Passes!Codes
    BY <2>2, CodesAre
  <2> HIDE DEF new
  <2>4. CodeTypes'
    BY <2>1, <2>2 DEF CodesInv, CodeTypes
  <2>5. CodesAreNew'
    <3>1. \A e \in Enrolments : enrolment[e].paid \in Nat
      BY DEF CodesInv, CodeTypes, EnrolmentRecords
    <3>2. enrolmentCode'.value = new
      BY <2>1
    <3>3. \A c \in Passes!Codes : c \in Nat
      BY CodesAre
    <3> QED
      BY <2>1, <2>2, <3>1, <3>2, <3>3 DEF CodesInv, CodesAreNew
  <2>6. AttemptsPay'
    <3>1. guesses[new] = 0 /\ matches[new] = 0
      BY <2>2, <2>3 DEF CodesInv, CodesAreNew
    <3>2. \A e \in Enrolments : enrolment[e].paid # new
      BY <2>2 DEF CodesInv, CodesAreNew, CodeTypes, EnrolmentRecords
    <3>3. Comparing(enrolmentCode.value)' = {}
      BY <2>1, <3>2 DEF Comparing
    <3>4. Cardinality(Comparing(enrolmentCode.value)') = 0
      BY <3>3, FS_EmptySet
    <3>5. enrolmentCode'.value = new /\ enrolmentCode'.attempts = 0
      BY <2>1
    <3> QED
      BY <2>1, <3>1, <3>4, <3>5, PasskeysAssumption DEF AttemptsPay
  <2>7. CodesSpent'
    BY <2>1 DEF CodesInv, CodesSpent
  <2> QED
    BY <2>4, <2>5, <2>6, <2>7 DEF CodesInv
<1> QED
  BY <1>1, <1>2

LEMMA EnterKeepsCodes ==
  ASSUME SentInv, CodesInv, NEW e \in Enrolments, NEW c \in Passes!Codes \cup {0}, Passes!EnterCode(e, c)
  PROVE  CodesInv'
<1>1. CASE ~(enrolmentCode.value # 0 /\ enrolmentCode.attempts < CODE_MAX_ATTEMPTS)
  <2>1. enrolment' = [enrolment EXCEPT ![e] = [enrolment[e] EXCEPT !.pc = "done"]]
        /\ UNCHANGED <<lastCode, guesses, matches, enrolmentCode>>
    BY <1>1 DEF Passes!EnterCode
  <2>2. [enrolment[e] EXCEPT !.pc = "done"] \in EnrolmentRecords
    BY DEF CodesInv, CodeTypes, EnrolmentRecords
  <2> QED
    BY <2>1, <2>2, EnrolmentGoesOn DEF CodesInv, CodeTypes, EnrolmentRecords
<1>2. CASE enrolmentCode.value # 0 /\ enrolmentCode.attempts < CODE_MAX_ATTEMPTS
  <2> DEFINE v == enrolmentCode.value
             r == [enrolment[e] EXCEPT !.pc = "compares", !.entered = c, !.paid = v]
  <2>1. /\ enrolment' = [enrolment EXCEPT ![e] = r]
        /\ enrolmentCode' = [enrolmentCode EXCEPT !.attempts = @ + 1]
        /\ UNCHANGED <<lastCode, guesses, matches>>
    BY <1>2 DEF Passes!EnterCode, Passes!OneAttemptSpent
  <2>2. /\ v \in Nat /\ v <= lastCode /\ v # 0 /\ enrolmentCode.attempts \in Nat /\ lastCode \in Nat
        /\ enrolmentCode \in [value : Nat, attempts : Nat, cooled : BOOLEAN]
    BY <1>2 DEF CodesInv, CodeTypes, CodesAreNew, SentInv
  <2>3. /\ enrolmentCode' \in [value : Nat, attempts : Nat, cooled : BOOLEAN]
        /\ enrolmentCode'.value = v /\ enrolmentCode'.attempts = enrolmentCode.attempts + 1
    BY <2>1, <2>2
  <2>4. c \in Nat
    BY CodesAre
  <2>5. r \in EnrolmentRecords /\ r.pc = "compares" /\ r.paid = v
    BY <2>2, <2>4 DEF CodesInv, CodeTypes, EnrolmentRecords
  <2> HIDE DEF v, r
  <2>6. /\ enrolment' \in [Enrolments -> EnrolmentRecords] /\ enrolment'[e] = r
        /\ \A x \in Enrolments \ {e} : enrolment'[x] = enrolment[x]
    BY <2>1, <2>5 DEF CodesInv, CodeTypes
  <2>7. CodeTypes'
    BY <2>1, <2>3, <2>6 DEF CodesInv, CodeTypes
  <2>8. CodesAreNew'
    BY <2>1, <2>2, <2>3, <2>5, <2>6 DEF CodesInv, CodesAreNew
  <2>9. AttemptsPay'
    <3>1. Comparing(v)' \subseteq Comparing(v) \cup {e} /\ IsFiniteSet(Comparing(v))
      <4>1. Comparing(v) \subseteq Enrolments
        BY DEF Comparing
      <4>2. {x \in Enrolments : enrolment'[x].pc = "compares" /\ enrolment'[x].paid = v} \subseteq Comparing(v) \cup {e}
        BY <2>6 DEF Comparing
      <4>3. Comparing(v)' = {x \in Enrolments : enrolment'[x].pc = "compares" /\ enrolment'[x].paid = v}
        BY <2>3 DEF Comparing, v
      <4> QED
        BY <4>1, <4>2, <4>3, PasskeysAssumption, FS_Subset
    <3>2. /\ Cardinality(Comparing(v)') <= Cardinality(Comparing(v)) + 1
          /\ Cardinality(Comparing(v)') \in Nat /\ Cardinality(Comparing(v)) \in Nat
      BY <3>1, OneMore
    <3>3. guesses[v] + Cardinality(Comparing(v)) <= enrolmentCode.attempts /\ matches[v] = 0
      BY <1>2 DEF CodesInv, AttemptsPay, v
    <3>4. guesses[v] \in Nat
      <4>1. lastCode <= Cardinality(CodeRequests)
        BY CodesExist
      <4>2. v \in Passes!Codes
        BY <2>2, <4>1, CodesAre
      <4>3. guesses \in [Passes!Codes -> Nat]
        BY DEF CodesInv, CodeTypes
      <4> HIDE DEF v
      <4> QED
        BY <4>2, <4>3
    <3>5. guesses[v] + Cardinality(Comparing(v)') <= enrolmentCode.attempts + 1
      BY <2>2, <3>2, <3>3, <3>4
    <3>6. enrolmentCode.attempts + 1 <= CODE_MAX_ATTEMPTS
      BY <1>2, <2>2, PasskeysAssumption
    <3>7. v' = v
      BY <2>3 DEF v
    <3>8. guesses' = guesses /\ matches' = matches
      BY <2>1
    <3> QED
      BY <2>3, <3>3, <3>5, <3>6, <3>7, <3>8 DEF AttemptsPay, v
  <2>10. CodesSpent'
    BY <2>1 DEF CodesInv, CodesSpent
  <2> QED
    BY <2>7, <2>8, <2>9, <2>10 DEF CodesInv
<1> QED
  BY <1>1, <1>2

\* A comparison was paid for; the code it matches is spent.
LEMMA ConsumeKeepsCodes ==
  ASSUME SentInv, CodesInv, NEW e \in Enrolments, Passes!consumePasskeyEnrollmentCode(e)
  PROVE  CodesInv'
<1> DEFINE v == enrolmentCode.value
           paid == enrolment[e].paid
           matched == v # 0 /\ enrolment[e].entered = v
           r == [enrolment[e] EXCEPT !.pc = IF matched THEN "lists" ELSE "done"]
<1>1. /\ enrolment[e].pc = "compares"
      /\ enrolmentCode' = IF matched THEN Passes!NoCode ELSE enrolmentCode
      /\ guesses' = IF v = paid THEN [guesses EXCEPT ![paid] = @ + 1] ELSE guesses
      /\ matches' = IF matched THEN [matches EXCEPT ![v] = @ + 1] ELSE matches
      /\ enrolment' = [enrolment EXCEPT ![e] = r]
      /\ lastCode' = lastCode
  BY DEF Passes!consumePasskeyEnrollmentCode
<1>2. /\ v \in Nat /\ v <= lastCode /\ lastCode \in Nat
      /\ v # 0 => v \in Passes!Codes
      /\ enrolmentCode \in [value : Nat, attempts : Nat, cooled : BOOLEAN]
  BY CodesExist, CodesAre DEF CodesInv, CodeTypes, CodesAreNew
<1>3. paid \in Nat /\ paid # 0 /\ paid <= lastCode /\ paid \in Passes!Codes
  BY <1>1, CodesExist, CodesAre DEF CodesInv, CodeTypes, CodesAreNew, EnrolmentRecords
<1>4. r \in EnrolmentRecords /\ r.paid = paid /\ r.pc # "compares"
  BY DEF CodesInv, CodeTypes, EnrolmentRecords
<1>5. /\ guesses \in [Passes!Codes -> Nat] /\ matches \in [Passes!Codes -> Nat] /\ guesses[paid] \in Nat
      /\ v # 0 => guesses[v] \in Nat /\ matches[v] \in Nat
  BY <1>2, <1>3 DEF CodesInv, CodeTypes
<1>6. matched => v # 0
  OBVIOUS
<1>7. v = paid => /\ guesses[paid] + 1 <= CODE_MAX_ATTEMPTS
                  /\ guesses[paid] + 1 + Cardinality(Comparing(v) \ {e}) <= enrolmentCode.attempts
                  /\ enrolmentCode.attempts <= CODE_MAX_ATTEMPTS
  <2> SUFFICES ASSUME v = paid
               PROVE  /\ guesses[paid] + 1 <= CODE_MAX_ATTEMPTS
                      /\ guesses[paid] + 1 + Cardinality(Comparing(v) \ {e}) <= enrolmentCode.attempts
                      /\ enrolmentCode.attempts <= CODE_MAX_ATTEMPTS
    OBVIOUS
  <2>1. e \in Comparing(v) /\ IsFiniteSet(Comparing(v))
    BY <1>1, PasskeysAssumption, FS_Subset DEF Comparing
  <2>2. /\ Cardinality(Comparing(v) \ {e}) \in Nat /\ Cardinality(Comparing(v)) \in Nat
        /\ Cardinality(Comparing(v) \ {e}) + 1 <= Cardinality(Comparing(v))
    BY <2>1, OneLess
  <2>3. guesses[v] + Cardinality(Comparing(v)) <= enrolmentCode.attempts /\ enrolmentCode.attempts <= CODE_MAX_ATTEMPTS
    BY <1>3 DEF CodesInv, AttemptsPay
  <2>4. enrolmentCode.attempts \in Nat /\ CODE_MAX_ATTEMPTS \in Nat
    BY <1>2, PasskeysAssumption
  <2> HIDE DEF v, paid
  <2> QED
    BY <1>5, <2>2, <2>3, <2>4
<1>8. matched => matches[v] = 0
  BY DEF CodesInv, AttemptsPay
<1> HIDE DEF v, paid, matched, r
<1>9. /\ enrolment' \in [Enrolments -> EnrolmentRecords] /\ enrolment'[e] = r
      /\ \A x \in Enrolments \ {e} : enrolment'[x] = enrolment[x]
  BY <1>1, <1>4 DEF CodesInv, CodeTypes
<1>10. /\ guesses' \in [Passes!Codes -> Nat]
       /\ \A c \in Passes!Codes : guesses'[c] = IF c = paid /\ v = paid THEN guesses[paid] + 1 ELSE guesses[c]
  <2>1. CASE v = paid
    <3>1. guesses' = [guesses EXCEPT ![paid] = @ + 1] /\ guesses[paid] + 1 \in Nat
      BY <1>1, <1>5, <2>1
    <3> QED
      BY <1>3, <1>5, <2>1, <3>1
  <2>2. CASE v # paid
    BY <1>1, <1>5, <2>2
  <2> QED
    BY <2>1, <2>2
<1>11. /\ matches' \in [Passes!Codes -> Nat]
       /\ \A c \in Passes!Codes : matches'[c] = IF c = v /\ matched THEN matches[v] + 1 ELSE matches[c]
  <2>1. CASE matched
    <3>1. matches' = [matches EXCEPT ![v] = @ + 1] /\ v \in Passes!Codes /\ matches[v] + 1 \in Nat
      BY <1>1, <1>2, <1>5, <1>6, <2>1
    <3> QED
      BY <1>5, <2>1, <3>1
  <2>2. CASE ~matched
    BY <1>1, <1>5, <2>2
  <2> QED
    BY <2>1, <2>2
<1>12. Passes!NoCode \in [value : Nat, attempts : Nat, cooled : BOOLEAN] /\ Passes!NoCode.value = 0
  BY DEF Passes!NoCode
<1>13. CodeTypes'
  BY <1>1, <1>2, <1>9, <1>10, <1>11, <1>12 DEF CodeTypes
<1>14. CodesAreNew'
  <2>1. enrolmentCode'.value <= lastCode'
    BY <1>1, <1>2, <1>12 DEF CodesInv, CodesAreNew
  <2>2. \A x \in Enrolments : enrolment'[x].paid <= lastCode' /\ (enrolment'[x].pc = "compares" => enrolment'[x].paid # 0)
    BY <1>1, <1>3, <1>4, <1>9 DEF CodesInv, CodesAreNew
  <2>3. ASSUME NEW c \in Passes!Codes, c > lastCode' PROVE guesses'[c] = 0 /\ matches'[c] = 0
    <3>1. c # paid /\ c # v /\ c > lastCode
      BY <1>1, <1>2, <1>3, <2>3, CodesAre
    <3> QED
      BY <1>10, <1>11, <3>1 DEF CodesInv, CodesAreNew
  <2> QED
    BY <2>1, <2>2, <2>3 DEF CodesAreNew
<1>15. AttemptsPay'
  <2>1. CASE matched
    BY <1>1, <1>12, <2>1 DEF AttemptsPay
  <2>2. CASE ~matched /\ v # 0
    <3>1. enrolmentCode' = enrolmentCode /\ matches'[v] = matches[v] /\ enrolmentCode.value = v
      BY <1>1, <2>2 DEF v
    <3>2. matches[v] = 0 /\ guesses[v] + Cardinality(Comparing(v)) <= enrolmentCode.attempts
          /\ enrolmentCode.attempts <= CODE_MAX_ATTEMPTS
      BY <2>2 DEF CodesInv, AttemptsPay, v
    <3>3. Comparing(v)' = Comparing(v) \ {e}
      <4>1. {x \in Enrolments : enrolment'[x].pc = "compares" /\ enrolment'[x].paid = v} = Comparing(v) \ {e}
        BY <1>4, <1>9 DEF Comparing
      <4>2. v' = v
        BY <3>1 DEF v
      <4> QED
        BY <4>1, <4>2 DEF Comparing
    <3>4. guesses'[v] + Cardinality(Comparing(v) \ {e}) <= enrolmentCode.attempts
      <4>1. CASE v = paid
        BY <1>3, <1>7, <1>10, <4>1
      <4>2. CASE v # paid
        <5>1. guesses'[v] = guesses[v]
          BY <1>2, <1>10, <2>2, <4>2
        <5>2. Comparing(v) \ {e} = Comparing(v)
          BY <4>2 DEF Comparing, paid
        <5> QED
          BY <3>2, <5>1, <5>2
      <4> QED
        BY <4>1, <4>2
    <3>5. v' = v
      BY <3>1 DEF v
    <3> QED
      BY <3>1, <3>2, <3>3, <3>4, <3>5 DEF AttemptsPay, v
  <2>3. CASE v = 0
    <3>1. enrolmentCode'.value = 0
      BY <1>1, <1>12, <2>3 DEF v
    <3> QED
      BY <3>1 DEF AttemptsPay
  <2> QED
    BY <2>1, <2>2, <2>3
<1>16. CodesSpent'
  <2> SUFFICES ASSUME NEW c \in Passes!Codes PROVE guesses'[c] <= CODE_MAX_ATTEMPTS /\ matches'[c] <= 1
    BY DEF CodesSpent
  <2>1. guesses[c] <= CODE_MAX_ATTEMPTS /\ matches[c] <= 1
    BY DEF CodesInv, CodesSpent
  <2>2. guesses'[c] <= CODE_MAX_ATTEMPTS
    BY <1>7, <1>10, <2>1
  <2>3. matches'[c] <= 1
    BY <1>8, <1>11, <2>1
  <2> QED
    BY <2>2, <2>3
<1> QED
  BY <1>13, <1>14, <1>15, <1>16 DEF CodesInv

LEMMA EnrolmentStepsKeepCodes ==
  ASSUME SentInv, CodesInv, NEW e \in Enrolments,
         \/ Passes!storeChallenge(e)
         \/ \E handle \in Enrolments : Passes!ListPasskeys(e, handle)
  PROVE  CodesInv'
<1>1. enrolment[e] \in EnrolmentRecords
  BY DEF CodesInv, CodeTypes
<1>2. CASE Passes!storeChallenge(e)
  <2>1. [enrolment[e] EXCEPT !.pc = "offered"] \in EnrolmentRecords
    BY <1>1 DEF EnrolmentRecords
  <2> QED
    BY <1>1, <1>2, <2>1, EnrolmentGoesOn DEF Passes!storeChallenge, EnrolmentRecords
<1>3. ASSUME NEW handle \in Enrolments, Passes!ListPasskeys(e, handle) PROVE CodesInv'
  <2>1. [enrolment[e] EXCEPT !.pc = "stores", !.handle = handle] \in EnrolmentRecords
        /\ [enrolment[e] EXCEPT !.pc = "done"] \in EnrolmentRecords
    BY <1>1 DEF EnrolmentRecords
  <2>2. /\ enrolment' = [enrolment EXCEPT ![e] = [enrolment[e] EXCEPT !.pc = "stores", !.handle = handle]]
           \/ enrolment' = [enrolment EXCEPT ![e] = [enrolment[e] EXCEPT !.pc = "done"]]
        /\ UNCHANGED <<lastCode, guesses, matches, enrolmentCode>>
    BY <1>3 DEF Passes!ListPasskeys
  <2>3. \A p \in {"stores", "done"} : p # "compares"
    OBVIOUS
  <2> QED
    BY <1>1, <2>1, <2>2, EnrolmentGoesOn DEF EnrolmentRecords
<1> QED
  BY <1>2, <1>3

LEMMA NextKeepsCodes == ASSUME SentInv, SentInv', CodesInv, Passes!PasskeysNext PROVE CodesInv'
<1>1. ASSUME UNCHANGED <<lastCode, enrolmentCode, enrolment, guesses, matches>> PROVE CodesInv'
  BY <1>1, RowGoes DEF CodesInv, CodeTypes
<1>2. CASE Passes!RequestFails
  <2>1. ASSUME NEW e \in Enrolments, enrolment' = [enrolment EXCEPT ![e].pc = "done"] PROVE CodesInv'
    <3>1. [enrolment[e] EXCEPT !.pc = "done"] \in EnrolmentRecords /\ enrolment[e] \in EnrolmentRecords
      BY DEF CodesInv, CodeTypes, EnrolmentRecords
    <3> QED
      BY <1>2, <2>1, <3>1, EnrolmentGoesOn DEF Passes!RequestFails, EnrolmentRecords
  <2> QED
    BY <1>1, <1>2, <2>1 DEF Passes!RequestFails
<1>3. ASSUME NEW e \in Enrolments, NEW v \in Verifications, NEW answered \in BOOLEAN, Passes!TakeChallenge(v, e, answered)
      PROVE  CodesInv'
  BY <1>1, <1>3 DEF Passes!TakeChallenge
<1>4. ASSUME NEW e \in Enrolments, Passes!deletePasskey(e) \/ \E s \in SignIns : Passes!findPasskey(s, e)
      PROVE  CodesInv'
  BY <1>1, <1>4 DEF Passes!deletePasskey, Passes!findPasskey
<1>5. ASSUME NEW v \in Verifications, Passes!insertPasskey(v) PROVE CodesInv'
  BY <1>1, <1>5 DEF Passes!insertPasskey
<1>6. ASSUME NEW s \in SignIns, NEW answered \in BOOLEAN, Passes!recordPasskeyUse(s, answered) PROVE CodesInv'
  BY <1>1, <1>6 DEF Passes!recordPasskeyUse
<1>7. ASSUME NEW q \in CodeRequests, NEW sent \in BOOLEAN, Passes!SendCode(q, sent) PROVE CodesInv'
  BY <1>1, <1>7 DEF Passes!SendCode
<1> QED
  BY <1>2, <1>3, <1>4, <1>5, <1>6, <1>7, RowStepsKeepCodes, SaveKeepsCodes, EnterKeepsCodes, ConsumeKeepsCodes,
     EnrolmentStepsKeepCodes DEF Passes!PasskeysNext

-------------------------------------------------------------------------------
(* Challenges, the limit and the counters                                  *)

\* An enrolment that was not offered, or that stays offered, disturbs no registration.
LEMMA ChallengesStay ==
  ASSUME ChallengeInv, UNCHANGED <<verification, challenges>>,
         \A e \in Enrolments : enrolment[e].pc = "offered" => enrolment'[e].pc = "offered"
  PROVE  ChallengeInv'
BY DEF ChallengeInv

LEMMA EnrolmentsKeepChallenges ==
  ASSUME CodesInv, ChallengeInv, NEW e \in Enrolments, enrolment[e].pc # "offered",
         NEW r, enrolment' = [enrolment EXCEPT ![e] = r], UNCHANGED <<verification, challenges>>
  PROVE  ChallengeInv'
<1>1. \A x \in Enrolments \ {e} : enrolment'[x] = enrolment[x]
  BY DEF CodesInv, CodeTypes
<1> QED
  BY <1>1, ChallengesStay

LEMMA StoreKeepsChallenges ==
  ASSUME CodesInv, ChallengeInv, NEW e \in Enrolments, Passes!storeChallenge(e)
  PROVE  ChallengeInv'
<1>1. /\ challenges' = challenges \cup {e} /\ verification' = verification /\ enrolment[e].pc = "stores"
      /\ enrolment' = [enrolment EXCEPT ![e].pc = "offered"]
  BY DEF Passes!storeChallenge
<1>2. \A x \in Enrolments : enrolment'[x].pc = IF x = e THEN "offered" ELSE enrolment[x].pc
  BY <1>1 DEF CodesInv, CodeTypes, EnrolmentRecords
<1>3. \A v \in Verifications : verification[v].pc = "inserts" => verification[v].enrolment # e
  BY <1>1 DEF ChallengeInv
<1> QED
  BY <1>1, <1>2, <1>3 DEF ChallengeInv

LEMMA TakeKeepsChallenges ==
  ASSUME ChallengeInv, NEW v \in Verifications, NEW e \in Enrolments, NEW answered \in BOOLEAN,
         Passes!TakeChallenge(v, e, answered)
  PROVE  ChallengeInv'
<1> DEFINE step == IF answered /\ e \in challenges THEN "inserts" ELSE "done"
<1>1. /\ challenges' = challenges \ {e} /\ enrolment' = enrolment /\ enrolment[e].pc = "offered"
      /\ verification' = [verification EXCEPT ![v] = [pc |-> step, enrolment |-> e]]
  BY DEF Passes!TakeChallenge, Passes!ConsumesChallenge
<1>2. step \in {"inserts", "done"} /\ (step = "inserts" => e \in challenges)
  OBVIOUS
<1> HIDE DEF step
<1>3. /\ verification' \in [Verifications -> [pc : {"idle", "inserts", "done"}, enrolment : Enrolments \cup {0}]]
      /\ verification'[v] = [pc |-> step, enrolment |-> e]
      /\ \A w \in Verifications \ {v} : verification'[w] = verification[w]
  BY <1>1, <1>2 DEF ChallengeInv
<1>4. e \in challenges => \A w \in Verifications : verification[w].pc = "inserts" => verification[w].enrolment # e
  BY DEF ChallengeInv
<1>5. ASSUME NEW w \in Verifications, verification'[w].pc = "inserts"
      PROVE  /\ verification'[w].enrolment \in Enrolments \ challenges'
             /\ enrolment'[verification'[w].enrolment].pc = "offered"
  BY <1>1, <1>3, <1>5 DEF ChallengeInv
<1>6. ASSUME NEW w \in Verifications, NEW x \in Verifications, verification'[w].pc = "inserts",
             verification'[x].pc = "inserts", verification'[w].enrolment = verification'[x].enrolment
      PROVE  w = x
  <2>1. CASE w # v /\ x # v
    BY <1>3, <1>6, <2>1 DEF ChallengeInv
  <2>2. CASE w = v /\ x # v
    BY <1>2, <1>3, <1>4, <1>6, <2>2
  <2>3. CASE w # v /\ x = v
    BY <1>2, <1>3, <1>4, <1>6, <2>3
  <2> QED
    BY <2>1, <2>2, <2>3
<1>7. challenges' \subseteq Enrolments
  BY <1>1 DEF ChallengeInv
<1> QED
  BY <1>3, <1>5, <1>6, <1>7 DEF ChallengeInv

LEMMA RegisteredKeepsChallenges ==
  ASSUME ChallengeInv, NEW v \in Verifications, verification' = [verification EXCEPT ![v].pc = "done"],
         UNCHANGED <<enrolment, challenges>>
  PROVE  ChallengeInv'
<1>1. /\ verification' \in [Verifications -> [pc : {"idle", "inserts", "done"}, enrolment : Enrolments \cup {0}]]
      /\ verification'[v].pc = "done"
      /\ \A w \in Verifications \ {v} : verification'[w] = verification[w]
  BY DEF ChallengeInv
<1> QED
  BY <1>1 DEF ChallengeInv

LEMMA NextKeepsChallenges == ASSUME CodesInv, ChallengeInv, Passes!PasskeysNext PROVE ChallengeInv'
<1>1. ASSUME UNCHANGED <<enrolment, verification, challenges>> PROVE ChallengeInv'
  BY <1>1, ChallengesStay
<1>2. CASE Passes!RequestFails
  <2>1. ASSUME NEW e \in Enrolments, enrolment[e].pc \in {"compares", "lists", "stores"},
               enrolment' = [enrolment EXCEPT ![e].pc = "done"], verification' = verification
        PROVE  ChallengeInv'
    <3>1. enrolment' = [enrolment EXCEPT ![e] = [enrolment[e] EXCEPT !.pc = "done"]]
      BY <2>1
    <3> QED
      BY <1>2, <2>1, <3>1, EnrolmentsKeepChallenges DEF Passes!RequestFails
  <2>2. ASSUME NEW v \in Verifications, verification' = [verification EXCEPT ![v].pc = "done"], enrolment' = enrolment
        PROVE  ChallengeInv'
    BY <1>2, <2>2, RegisteredKeepsChallenges DEF Passes!RequestFails
  <2> QED
    BY <1>1, <1>2, <2>1, <2>2 DEF Passes!RequestFails
<1>3. ASSUME NEW q \in CodeRequests,
             \/ Passes!RequestCode(q) \/ Passes!savePasskeyEnrollmentCode(q) \/ Passes!deletePasskeyEnrollmentCode(q)
             \/ \E sent \in BOOLEAN : Passes!SendCode(q, sent)
      PROVE  ChallengeInv'
  BY <1>1, <1>3 DEF Passes!RequestCode, Passes!savePasskeyEnrollmentCode, Passes!deletePasskeyEnrollmentCode,
                    Passes!SendCode
<1>4. ASSUME NEW e \in Enrolments, NEW c \in Passes!Codes \cup {0}, Passes!EnterCode(e, c) PROVE ChallengeInv'
  <2>1. enrolment[e].pc = "idle" /\ UNCHANGED <<verification, challenges>>
    BY <1>4 DEF Passes!EnterCode, Passes!IsNext
  <2>2. \E r : enrolment' = [enrolment EXCEPT ![e] = r]
    <3>1. \/ enrolment' = [enrolment EXCEPT ![e] =
                            [enrolment[e] EXCEPT !.pc = "compares", !.entered = c, !.paid = enrolmentCode.value]]
          \/ enrolment' = [enrolment EXCEPT ![e] = [enrolment[e] EXCEPT !.pc = "done"]]
      BY <1>4 DEF Passes!EnterCode
    <3> QED
      BY <3>1
  <2> QED
    BY <2>1, <2>2, EnrolmentsKeepChallenges
<1>5. ASSUME NEW e \in Enrolments, Passes!consumePasskeyEnrollmentCode(e) PROVE ChallengeInv'
  <2>1. enrolment[e].pc = "compares" /\ UNCHANGED <<verification, challenges>>
    BY <1>5 DEF Passes!consumePasskeyEnrollmentCode
  <2>2. \E step : enrolment' = [enrolment EXCEPT ![e] = [enrolment[e] EXCEPT !.pc = step]]
    BY <1>5 DEF Passes!consumePasskeyEnrollmentCode
  <2> QED
    BY <2>1, <2>2, EnrolmentsKeepChallenges
<1>6. ASSUME NEW e \in Enrolments, NEW handle \in Enrolments, Passes!ListPasskeys(e, handle) PROVE ChallengeInv'
  <2>1. enrolment[e].pc = "lists" /\ UNCHANGED <<verification, challenges>>
    BY <1>6 DEF Passes!ListPasskeys
  <2>2. \E r : enrolment' = [enrolment EXCEPT ![e] = r]
    BY <1>6 DEF Passes!ListPasskeys
  <2> QED
    BY <2>1, <2>2, EnrolmentsKeepChallenges
<1>7. ASSUME NEW e \in Enrolments, Passes!deletePasskey(e) \/ \E s \in SignIns : Passes!findPasskey(s, e)
      PROVE  ChallengeInv'
  BY <1>1, <1>7 DEF Passes!deletePasskey, Passes!findPasskey
<1>8. ASSUME NEW v \in Verifications, Passes!insertPasskey(v) PROVE ChallengeInv'
  BY <1>8, RegisteredKeepsChallenges DEF Passes!insertPasskey
<1>9. ASSUME NEW s \in SignIns, NEW answered \in BOOLEAN, Passes!recordPasskeyUse(s, answered) PROVE ChallengeInv'
  BY <1>1, <1>9 DEF Passes!recordPasskeyUse
<1>10. CASE Passes!CodeAges
  BY <1>1, <1>10 DEF Passes!CodeAges
<1> QED
  BY <1>2, <1>3, <1>4, <1>5, <1>6, <1>7, <1>8, <1>9, <1>10, StoreKeepsChallenges, TakeKeepsChallenges
     DEF Passes!PasskeysNext

\* Passkeys come by insertPasskey and go by deletePasskey; what else happens leaves them.
LEMMA PasskeyRoomStays == ASSUME RoomInv, userHandle' = userHandle PROVE RoomInv'
BY DEF RoomInv, Passes!Registered

LEMMA InsertKeepsRoom ==
  ASSUME CodesInv, ChallengeInv, RoomInv, NEW v \in Verifications, Passes!insertPasskey(v)
  PROVE  RoomInv'
<1> DEFINE e == verification[v].enrolment
<1>1. verification[v].pc = "inserts" /\ e \in Enrolments
  BY DEF Passes!insertPasskey, ChallengeInv
<1>2. enrolment[e].handle \in Enrolments \cup {0}
  BY <1>1 DEF CodesInv, CodeTypes, EnrolmentRecords
<1>3. CASE Passes!HasRoom /\ userHandle[e] = 0
  <2>1. userHandle' = [userHandle EXCEPT ![e] = enrolment[e].handle]
    BY <1>3 DEF Passes!insertPasskey
  <2> HIDE DEF e
  <2>2. userHandle' \in [Enrolments -> Enrolments \cup {0}] /\ \A x \in Enrolments \ {e} : userHandle'[x] = userHandle[x]
    BY <1>1, <1>2, <2>1 DEF RoomInv
  <2>3. Passes!Registered' \subseteq Passes!Registered \cup {e} /\ Passes!Registered \subseteq Enrolments
    BY <2>2 DEF Passes!Registered
  <2>4. IsFiniteSet(Passes!Registered)
    BY <2>3, PasskeysAssumption, FS_Subset
  <2>5. /\ Cardinality(Passes!Registered') <= Cardinality(Passes!Registered) + 1
        /\ Cardinality(Passes!Registered') \in Nat /\ Cardinality(Passes!Registered) \in Nat
    BY <2>3, <2>4, OneMore
  <2>6. Cardinality(Passes!Registered) < MAX_PASSKEYS_PER_USER /\ MAX_PASSKEYS_PER_USER \in Nat
    BY <1>3, PasskeysCardinality, PasskeysAssumption DEF Passes!HasRoom
  <2>7. Cardinality(Passes!Registered') <= MAX_PASSKEYS_PER_USER
    BY <2>5, <2>6
  <2> QED
    BY <2>2, <2>7 DEF RoomInv
<1>4. CASE ~(Passes!HasRoom /\ userHandle[e] = 0)
  BY <1>4, PasskeyRoomStays DEF Passes!insertPasskey
<1> QED
  BY <1>3, <1>4

LEMMA DeleteKeepsRoom ==
  ASSUME RoomInv, NEW e \in Enrolments, Passes!deletePasskey(e)
  PROVE  RoomInv'
<1>1. userHandle' = [userHandle EXCEPT ![e] = 0]
  BY DEF Passes!deletePasskey
<1>2. userHandle' \in [Enrolments -> Enrolments \cup {0}]
  BY <1>1 DEF RoomInv
<1>3. Passes!Registered' \subseteq Passes!Registered /\ Passes!Registered \subseteq Enrolments
  BY <1>1 DEF RoomInv, Passes!Registered
<1>4. IsFiniteSet(Passes!Registered) /\ IsFiniteSet(Passes!Registered')
  BY <1>3, PasskeysAssumption, FS_Subset
<1>5. /\ Cardinality(Passes!Registered') <= Cardinality(Passes!Registered)
      /\ Cardinality(Passes!Registered') \in Nat /\ Cardinality(Passes!Registered) \in Nat
  BY <1>3, <1>4, FS_Subset, FS_CardinalityType
<1>6. Cardinality(Passes!Registered') <= MAX_PASSKEYS_PER_USER
  BY <1>5, PasskeysAssumption DEF RoomInv
<1> QED
  BY <1>2, <1>6 DEF RoomInv

LEMMA NextKeepsRoom == ASSUME CodesInv, ChallengeInv, RoomInv, Passes!PasskeysNext PROVE RoomInv'
<1>1. ASSUME NEW q \in CodeRequests,
             \/ Passes!RequestCode(q) \/ Passes!savePasskeyEnrollmentCode(q) \/ Passes!deletePasskeyEnrollmentCode(q)
             \/ \E sent \in BOOLEAN : Passes!SendCode(q, sent)
      PROVE  RoomInv'
  BY <1>1, PasskeyRoomStays DEF Passes!RequestCode, Passes!savePasskeyEnrollmentCode, Passes!deletePasskeyEnrollmentCode,
                         Passes!SendCode
<1>2. ASSUME NEW e \in Enrolments,
             \/ \E c \in Passes!Codes \cup {0} : Passes!EnterCode(e, c)
             \/ Passes!consumePasskeyEnrollmentCode(e) \/ Passes!storeChallenge(e)
             \/ \E handle \in Enrolments : Passes!ListPasskeys(e, handle)
             \/ \E v \in Verifications, answered \in BOOLEAN : Passes!TakeChallenge(v, e, answered)
             \/ \E s \in SignIns : Passes!findPasskey(s, e)
      PROVE  RoomInv'
  BY <1>2, PasskeyRoomStays DEF Passes!EnterCode, Passes!consumePasskeyEnrollmentCode, Passes!storeChallenge,
                         Passes!ListPasskeys, Passes!TakeChallenge, Passes!findPasskey
<1>3. ASSUME NEW s \in SignIns, NEW answered \in BOOLEAN, Passes!recordPasskeyUse(s, answered) PROVE RoomInv'
  BY <1>3, PasskeyRoomStays DEF Passes!recordPasskeyUse
<1>4. CASE Passes!CodeAges \/ Passes!RequestFails
  BY <1>4, PasskeyRoomStays DEF Passes!CodeAges, Passes!RequestFails
<1> QED
  BY <1>1, <1>2, <1>3, <1>4, InsertKeepsRoom, DeleteKeepsRoom DEF Passes!PasskeysNext

LEMMA FindKeepsSignIns ==
  ASSUME SignInInv, NEW s \in SignIns, NEW e \in Enrolments, Passes!findPasskey(s, e)
  PROVE  SignInInv'
<1>1. /\ deviceCounter' = [deviceCounter EXCEPT ![e] = @ + 1] /\ signCount' = signCount
      /\ signIn' = [signIn EXCEPT ![s] = [pc |-> "records", passkey |-> e, counter |-> deviceCounter'[e]]]
  BY DEF Passes!findPasskey
<1>2. deviceCounter' \in [Enrolments -> Nat]
  BY <1>1 DEF SignInInv
<1>3. deviceCounter'[e] \in Nat
  BY <1>2
<1>4. /\ signIn' \in [SignIns -> [pc : {"idle", "records", "in", "refused"}, passkey : Enrolments \cup {0}, counter : Nat]]
      /\ signIn'[s].passkey = e /\ \A x \in SignIns \ {s} : signIn'[x] = signIn[x]
  BY <1>1, <1>3 DEF SignInInv
<1> QED
  BY <1>1, <1>2, <1>4 DEF SignInInv

LEMMA RecordKeepsSignIns ==
  ASSUME SignInInv, NEW s \in SignIns, NEW answered \in BOOLEAN, Passes!recordPasskeyUse(s, answered)
  PROVE  SignInInv'
<1> DEFINE e == signIn[s].passkey
           accepted == Passes!CounterIsNewer(e, signIn[s].counter)
           step == IF accepted /\ answered THEN "in" ELSE "refused"
<1>1. /\ signCount' = IF accepted THEN [signCount EXCEPT ![e] = signIn[s].counter] ELSE signCount
      /\ signIn' = [signIn EXCEPT ![s].pc = step] /\ deviceCounter' = deviceCounter
  BY DEF Passes!recordPasskeyUse
<1>2. step \in {"in", "refused"} /\ step # "records"
  OBVIOUS
<1>3. signIn[s].counter \in Nat
  BY DEF SignInInv
<1> HIDE DEF e, accepted, step
<1>4. signCount' \in [Enrolments -> Nat]
  BY <1>1, <1>3 DEF SignInInv
<1>5. /\ signIn' \in [SignIns -> [pc : {"idle", "records", "in", "refused"}, passkey : Enrolments \cup {0}, counter : Nat]]
      /\ signIn'[s].pc = step /\ \A x \in SignIns \ {s} : signIn'[x] = signIn[x]
  BY <1>1, <1>2 DEF SignInInv
<1> QED
  BY <1>1, <1>2, <1>4, <1>5 DEF SignInInv

LEMMA NextKeepsSignIns == ASSUME ChallengeInv, SignInInv, Passes!PasskeysNext PROVE SignInInv'
<1>1. ASSUME signIn' = signIn, deviceCounter' = deviceCounter, signCount' \in [Enrolments -> Nat] PROVE SignInInv'
  BY <1>1 DEF SignInInv
<1>2. \A e \in Enrolments : [signCount EXCEPT ![e] = 0] \in [Enrolments -> Nat]
  BY DEF SignInInv
<1>3. signCount \in [Enrolments -> Nat]
  BY DEF SignInInv
<1>4. ASSUME NEW q \in CodeRequests,
             \/ Passes!RequestCode(q) \/ Passes!savePasskeyEnrollmentCode(q) \/ Passes!deletePasskeyEnrollmentCode(q)
             \/ \E sent \in BOOLEAN : Passes!SendCode(q, sent)
      PROVE  SignInInv'
  BY <1>1, <1>3, <1>4 DEF Passes!RequestCode, Passes!savePasskeyEnrollmentCode, Passes!deletePasskeyEnrollmentCode,
                          Passes!SendCode
<1>5. ASSUME NEW e \in Enrolments,
             \/ \E c \in Passes!Codes \cup {0} : Passes!EnterCode(e, c)
             \/ Passes!consumePasskeyEnrollmentCode(e) \/ Passes!storeChallenge(e)
             \/ \E handle \in Enrolments : Passes!ListPasskeys(e, handle)
             \/ \E v \in Verifications, answered \in BOOLEAN : Passes!TakeChallenge(v, e, answered)
      PROVE  SignInInv'
  BY <1>1, <1>3, <1>5 DEF Passes!EnterCode, Passes!consumePasskeyEnrollmentCode, Passes!storeChallenge,
                          Passes!ListPasskeys, Passes!TakeChallenge
<1>6. ASSUME NEW e \in Enrolments, Passes!deletePasskey(e) PROVE SignInInv'
  BY <1>1, <1>2, <1>6 DEF Passes!deletePasskey
<1>7. ASSUME NEW v \in Verifications, Passes!insertPasskey(v) PROVE SignInInv'
  <2>1. verification[v].enrolment \in Enrolments
    BY <1>7 DEF Passes!insertPasskey, ChallengeInv
  <2> QED
    BY <1>1, <1>2, <1>3, <1>7, <2>1 DEF Passes!insertPasskey
<1>8. CASE Passes!CodeAges \/ Passes!RequestFails
  BY <1>1, <1>3, <1>8 DEF Passes!CodeAges, Passes!RequestFails
<1> QED
  BY <1>4, <1>5, <1>6, <1>7, <1>8, FindKeepsSignIns, RecordKeepsSignIns DEF Passes!PasskeysNext

LEMMA PasskeysNextInv == ASSUME PasskeysInv, [Passes!PasskeysNext]_(Passes!passkeyVars) PROVE PasskeysInv'
<1>1. CASE Passes!PasskeysNext
  <2>1. SentInv'
    BY <1>1, NextKeepsSent DEF PasskeysInv
  <2> QED
    BY <1>1, <2>1, NextKeepsCodes, NextKeepsChallenges, NextKeepsRoom, NextKeepsSignIns DEF PasskeysInv
<1>2. CASE UNCHANGED Passes!passkeyVars
  <2>1. SentInv'
    BY <1>2 DEF Passes!passkeyVars, PasskeysInv, SentInv, HadACode
  <2>2. CodesInv'
    BY <1>2, RowGoes DEF Passes!passkeyVars, PasskeysInv, CodesInv, CodeTypes
  <2>3. ChallengeInv'
    BY <1>2 DEF Passes!passkeyVars, PasskeysInv, ChallengeInv
  <2>4. RoomInv'
    BY <1>2, PasskeyRoomStays DEF Passes!passkeyVars, PasskeysInv
  <2>5. SignInInv'
    BY <1>2 DEF Passes!passkeyVars, PasskeysInv, SignInInv
  <2> QED
    BY <2>1, <2>2, <2>3, <2>4, <2>5 DEF PasskeysInv
<1> QED
  BY <1>1, <1>2

LEMMA PasskeysTruth == ASSUME PasskeysInv PROVE Passes!EachIsUsedOnce
BY PasskeysCardinality DEF PasskeysInv, CodesInv, CodesSpent, ChallengeInv, RoomInv, Passes!EachIsUsedOnce

\* Only a match takes a code that was delivered before its cooldown is over.
LEMMA DeliveredStays ==
  ASSUME PasskeysInv, Passes!PasskeysNext, enrolmentCode.value \in delivered,
         enrolmentCode'.value # enrolmentCode.value
  PROVE  enrolmentCode.cooled \/ matches' # matches
<1> DEFINE v == enrolmentCode.value
<1>1. v # 0 /\ v \in Passes!Codes /\ v \in Nat
  <2>1. SentInv /\ lastCode \in Nat /\ lastCode <= Cardinality(CodeRequests)
    BY CodesExist DEF PasskeysInv
  <2>2. v \in 1..lastCode
    BY <2>1 DEF SentInv
  <2> QED
    BY <2>1, <2>2, CodesAre
<1>2. ASSUME NEW q \in CodeRequests, Passes!RequestCode(q) PROVE enrolmentCode.cooled
  BY <1>2 DEF Passes!RequestCode
<1>3. ASSUME NEW q \in CodeRequests, Passes!savePasskeyEnrollmentCode(q) PROVE FALSE
  BY <1>1, <1>3 DEF Passes!savePasskeyEnrollmentCode
<1>4. ASSUME NEW q \in CodeRequests, Passes!deletePasskeyEnrollmentCode(q) PROVE FALSE
  BY <1>4 DEF Passes!deletePasskeyEnrollmentCode, Passes!DropsOwn, PasskeysInv, SentInv
<1>5. CASE Passes!CodeAges
  <2>1. [enrolmentCode EXCEPT !.cooled = TRUE].value = enrolmentCode.value
    BY DEF PasskeysInv, CodesInv, CodeTypes
  <2> QED
    BY <1>5, <2>1 DEF Passes!CodeAges
<1>6. ASSUME NEW e \in Enrolments, Passes!consumePasskeyEnrollmentCode(e) PROVE matches' # matches
  <2>1. enrolment[e].entered = v /\ matches' = [matches EXCEPT ![v] = @ + 1]
    BY <1>6 DEF Passes!consumePasskeyEnrollmentCode
  <2>2. matches \in [Passes!Codes -> Nat]
    BY DEF PasskeysInv, CodesInv, CodeTypes
  <2>3. matches'[v] = matches[v] + 1 /\ matches[v] \in Nat
    BY <1>1, <2>1, <2>2
  <2> QED
    BY <2>3
<1>7. ASSUME NEW e \in Enrolments, NEW c \in Passes!Codes \cup {0}, Passes!EnterCode(e, c) PROVE FALSE
  <2>1. [enrolmentCode EXCEPT !.attempts = @ + 1].value = enrolmentCode.value
    BY DEF PasskeysInv, CodesInv, CodeTypes
  <2> QED
    BY <1>7, <2>1 DEF Passes!EnterCode, Passes!OneAttemptSpent
<1>8. ASSUME UNCHANGED enrolmentCode PROVE FALSE
  BY <1>8
<1>9. ASSUME NEW q \in CodeRequests, NEW sent \in BOOLEAN, Passes!SendCode(q, sent) PROVE FALSE
  BY <1>8, <1>9 DEF Passes!SendCode
<1>10. ASSUME NEW e \in Enrolments,
              \/ Passes!storeChallenge(e) \/ Passes!deletePasskey(e)
              \/ \E handle \in Enrolments : Passes!ListPasskeys(e, handle)
              \/ \E w \in Verifications, answered \in BOOLEAN : Passes!TakeChallenge(w, e, answered)
              \/ \E s \in SignIns : Passes!findPasskey(s, e)
       PROVE  FALSE
  BY <1>8, <1>10 DEF Passes!storeChallenge, Passes!deletePasskey, Passes!ListPasskeys, Passes!TakeChallenge,
                     Passes!findPasskey
<1>11. ASSUME NEW w \in Verifications, Passes!insertPasskey(w) PROVE FALSE
  BY <1>8, <1>11 DEF Passes!insertPasskey
<1>12. ASSUME NEW s \in SignIns, NEW answered \in BOOLEAN, Passes!recordPasskeyUse(s, answered) PROVE FALSE
  BY <1>8, <1>12 DEF Passes!recordPasskeyUse
<1>13. CASE Passes!RequestFails
  BY <1>8, <1>13 DEF Passes!RequestFails
<1> QED
  BY <1>2, <1>3, <1>4, <1>5, <1>6, <1>7, <1>9, <1>10, <1>11, <1>12, <1>13 DEF Passes!PasskeysNext

\* Whoever is let in has raised the counter of a passkey that is there.
LEMMA CountersRise ==
  ASSUME PasskeysInv, Passes!PasskeysNext, NEW s \in SignIns, signIn[s].pc = "records", signIn'[s].pc = "in"
  PROVE  userHandle[signIn[s].passkey] # 0 /\ signCount'[signIn[s].passkey] > signCount[signIn[s].passkey]
<1>1. SignInInv
  BY DEF PasskeysInv
<1>2. ASSUME NEW t \in SignIns, NEW answered \in BOOLEAN, Passes!recordPasskeyUse(t, answered)
      PROVE  userHandle[signIn[s].passkey] # 0 /\ signCount'[signIn[s].passkey] > signCount[signIn[s].passkey]
  <2> DEFINE e == signIn[t].passkey
             step == IF Passes!CounterIsNewer(e, signIn[t].counter) /\ answered THEN "in" ELSE "refused"
  <2>1. signIn' = [signIn EXCEPT ![t].pc = step]
    BY <1>2 DEF Passes!recordPasskeyUse
  <2> HIDE DEF step
  <2>2. t = s /\ signIn'[s].pc = step
    BY <1>1, <2>1 DEF SignInInv
  <2>3. Passes!CounterIsNewer(e, signIn[t].counter)
    BY <2>2 DEF step
  <2>4. signCount' = [signCount EXCEPT ![e] = signIn[t].counter]
    BY <1>2, <2>3 DEF Passes!recordPasskeyUse
  <2>5. e \in Enrolments /\ signIn[t].counter \in Nat /\ signCount \in [Enrolments -> Nat]
    BY <1>1, <2>2 DEF SignInInv
  <2>6. userHandle[e] # 0 /\ signCount[e] < signIn[t].counter
    BY <2>3 DEF Passes!CounterIsNewer
  <2> HIDE DEF e
  <2>7. signCount'[e] = signIn[t].counter /\ signCount[e] \in Nat
    BY <2>4, <2>5
  <2>8. signCount'[e] > signCount[e]
    BY <2>5, <2>6, <2>7
  <2> QED
    BY <2>2, <2>6, <2>8 DEF e
<1>3. ASSUME UNCHANGED signIn PROVE FALSE
  BY <1>3
<1>4. ASSUME NEW t \in SignIns, NEW e \in Enrolments, Passes!findPasskey(t, e) PROVE FALSE
  <2>1. signIn' = [signIn EXCEPT ![t] = [pc |-> "records", passkey |-> e, counter |-> deviceCounter'[e]]]
    BY <1>4 DEF Passes!findPasskey
  <2> QED
    BY <1>1, <2>1 DEF SignInInv
<1>5. ASSUME NEW q \in CodeRequests,
             \/ Passes!RequestCode(q) \/ Passes!savePasskeyEnrollmentCode(q) \/ Passes!deletePasskeyEnrollmentCode(q)
             \/ \E sent \in BOOLEAN : Passes!SendCode(q, sent)
      PROVE  FALSE
  BY <1>3, <1>5 DEF Passes!RequestCode, Passes!savePasskeyEnrollmentCode, Passes!deletePasskeyEnrollmentCode,
                    Passes!SendCode
<1>6. ASSUME NEW e \in Enrolments,
             \/ \E c \in Passes!Codes \cup {0} : Passes!EnterCode(e, c)
             \/ Passes!consumePasskeyEnrollmentCode(e) \/ Passes!storeChallenge(e) \/ Passes!deletePasskey(e)
             \/ \E handle \in Enrolments : Passes!ListPasskeys(e, handle)
             \/ \E v \in Verifications, answered \in BOOLEAN : Passes!TakeChallenge(v, e, answered)
      PROVE  FALSE
  BY <1>3, <1>6 DEF Passes!EnterCode, Passes!consumePasskeyEnrollmentCode, Passes!storeChallenge, Passes!deletePasskey,
                    Passes!ListPasskeys, Passes!TakeChallenge
<1>7. ASSUME NEW v \in Verifications, Passes!insertPasskey(v) PROVE FALSE
  BY <1>3, <1>7 DEF Passes!insertPasskey
<1>8. CASE Passes!CodeAges \/ Passes!RequestFails
  BY <1>3, <1>8 DEF Passes!CodeAges, Passes!RequestFails
<1> QED
  BY <1>2, <1>4, <1>5, <1>6, <1>7, <1>8 DEF Passes!PasskeysNext

-------------------------------------------------------------------------------
(* Event streams: the records, and what the operators on them do           *)

StreamSteps == {"none", "looking", "admitted", "attached", "open", "refused", "gone"}
Sockets == {"up", "backlogged", "broken", "closing", "closed"}
StreamRecords ==
  [kind : Events!Kinds \cup {"none"}, pc : StreamSteps, cred : Nat, socket : Sockets, told : Nat, listening : BOOLEAN]

\* What a page is to be told while st are the streams
OverlayNews(st) == IF Events!OfKind(st, "overlay") # {} THEN 2 ELSE 1

\* Whether Notified(st, first) tells the pages anything
Tells(st, first) ==
  first \/ ((Events!OfKind(st, "overlay") # {}) # (Events!OfKind(streams, "overlay") # {})
            /\ \E s \in Streams : st[s].listening)

\* A settings page that is told something is dropped if it does not read, and knows it otherwise.
ToldRecord(r, news) ==
  IF Events!Failing(r) THEN [r EXCEPT !.pc = "gone", !.listening = FALSE, !.socket = Events!Dropped(r)]
  ELSE [r EXCEPT !.told = news]

LEMMA ToldRecordFacts ==
  ASSUME NEW r \in StreamRecords, NEW news \in Nat
  PROVE  /\ ToldRecord(r, news) \in StreamRecords
         /\ ToldRecord(r, news).kind = r.kind /\ ToldRecord(r, news).cred = r.cred
         /\ Events!Failing(r) => ToldRecord(r, news).pc = "gone" /\ ToldRecord(r, news).listening = FALSE
         /\ ~Events!Failing(r) =>
              /\ ToldRecord(r, news).pc = r.pc /\ ToldRecord(r, news).socket = r.socket
              /\ ToldRecord(r, news).listening = r.listening /\ ToldRecord(r, news).told = news
BY DEF ToldRecord, Events!Failing, Events!Dropped, StreamRecords, StreamSteps, Sockets

LEMMA NotifiedIs ==
  ASSUME NEW st \in [Streams -> StreamRecords], NEW first \in BOOLEAN
  PROVE  Events!Notified(st, first) =
           IF Tells(st, first)
           THEN [s \in Streams |-> IF s \in Events!OfKind(st, "settings") THEN ToldRecord(st[s], OverlayNews(st)) ELSE st[s]]
           ELSE st
<1>1. Events!Told(st, Events!OfKind(st, "overlay") # {}) =
        [s \in Streams |-> IF s \in Events!OfKind(st, "settings") THEN ToldRecord(st[s], OverlayNews(st)) ELSE st[s]]
  <2>1. \A s \in Streams :
          (IF s \notin Events!OfKind(st, "settings") THEN st[s]
           ELSE IF Events!Failing(st[s])
                THEN [st[s] EXCEPT !.pc = "gone", !.listening = FALSE, !.socket = Events!Dropped(st[s])]
                ELSE [st[s] EXCEPT !.told = OverlayNews(st)])
          = (IF s \in Events!OfKind(st, "settings") THEN ToldRecord(st[s], OverlayNews(st)) ELSE st[s])
    BY Zenon DEF ToldRecord
  <2> QED
    BY <2>1, Zenon DEF Events!Told, OverlayNews
<1> QED
  BY <1>1 DEF Events!Notified, Tells

\* What a stream of record r may be after a broadcast of news to the pages
Follows(r, q, news) ==
  /\ q.kind = r.kind /\ q.cred = r.cred
  /\ \/ q = r
     \/ Events!Failing(r) /\ q.pc = "gone" /\ q.listening = FALSE
     \/ /\ ~Events!Failing(r) /\ q.pc = r.pc /\ q.socket = r.socket
        /\ q.listening = r.listening /\ q.told = news

LEMMA NotifiedFacts ==
  ASSUME NEW st \in [Streams -> StreamRecords], NEW first \in BOOLEAN
  PROVE  /\ Events!Notified(st, first) \in [Streams -> StreamRecords]
         /\ \A s \in Streams : s \notin Events!OfKind(st, "settings") => Events!Notified(st, first)[s] = st[s]
         /\ \A s \in Streams : Follows(st[s], Events!Notified(st, first)[s], OverlayNews(st))
         /\ Tells(st, first) =>
              \A s \in Events!OfKind(st, "settings") :
                ~Events!Failing(st[s]) => Events!Notified(st, first)[s].told = OverlayNews(st)
         /\ ~Tells(st, first) => Events!Notified(st, first) = st
<1> DEFINE n == Events!Notified(st, first)
<1>0. n = Events!Notified(st, first)
  OBVIOUS
<1> HIDE DEF n
<1> SUFFICES
      /\ n \in [Streams -> StreamRecords]
      /\ \A s \in Streams : s \notin Events!OfKind(st, "settings") => n[s] = st[s]
      /\ \A s \in Streams : Follows(st[s], n[s], OverlayNews(st))
      /\ Tells(st, first) =>
           \A s \in Events!OfKind(st, "settings") : ~Events!Failing(st[s]) => n[s].told = OverlayNews(st)
      /\ ~Tells(st, first) => n = st
  BY DEF n
<1>1. OverlayNews(st) \in Nat
  BY DEF OverlayNews
<1>2. Events!OfKind(st, "settings") \subseteq Streams
  BY DEF Events!OfKind, Events!Attached
<1>3. \A s \in Streams : st[s] \in StreamRecords
  OBVIOUS
<1>4. CASE ~Tells(st, first)
  <2>1. n = st
    BY <1>0, <1>4, NotifiedIs
  <2> QED
    BY <1>4, <2>1 DEF Follows
<1>5. CASE Tells(st, first)
  <2>1. n = [s \in Streams |-> IF s \in Events!OfKind(st, "settings") THEN ToldRecord(st[s], OverlayNews(st)) ELSE st[s]]
    BY <1>0, <1>5, NotifiedIs
  <2>2. \A s \in Streams : s \notin Events!OfKind(st, "settings") => n[s] = st[s]
    BY <2>1
  <2>3. \A s \in Events!OfKind(st, "settings") : n[s] = ToldRecord(st[s], OverlayNews(st))
    BY <1>2, <2>1
  <2>4. \A s \in Events!OfKind(st, "settings") :
          /\ n[s] \in StreamRecords /\ n[s].kind = st[s].kind /\ n[s].cred = st[s].cred
          /\ Events!Failing(st[s]) => n[s].pc = "gone" /\ n[s].listening = FALSE
          /\ ~Events!Failing(st[s]) =>
               n[s].pc = st[s].pc /\ n[s].socket = st[s].socket /\ n[s].listening = st[s].listening
                 /\ n[s].told = OverlayNews(st)
    <3> SUFFICES ASSUME NEW s \in Events!OfKind(st, "settings")
                 PROVE  /\ n[s] \in StreamRecords /\ n[s].kind = st[s].kind /\ n[s].cred = st[s].cred
                        /\ Events!Failing(st[s]) => n[s].pc = "gone" /\ n[s].listening = FALSE
                        /\ ~Events!Failing(st[s]) =>
                             n[s].pc = st[s].pc /\ n[s].socket = st[s].socket /\ n[s].listening = st[s].listening
                               /\ n[s].told = OverlayNews(st)
      OBVIOUS
    <3>1. st[s] \in StreamRecords /\ n[s] = ToldRecord(st[s], OverlayNews(st))
      BY <1>2, <1>3, <2>3
    <3>2. ToldRecord(st[s], OverlayNews(st)) = n[s]
      BY <3>1
    <3>3. /\ ToldRecord(st[s], OverlayNews(st)) \in StreamRecords
          /\ ToldRecord(st[s], OverlayNews(st)).kind = st[s].kind /\ ToldRecord(st[s], OverlayNews(st)).cred = st[s].cred
      BY <1>1, <3>1, ToldRecordFacts
    <3>4. ASSUME Events!Failing(st[s])
          PROVE  ToldRecord(st[s], OverlayNews(st)).pc = "gone" /\ ToldRecord(st[s], OverlayNews(st)).listening = FALSE
      BY <1>1, <3>1, <3>4, ToldRecordFacts
    <3>5. ASSUME ~Events!Failing(st[s])
          PROVE  /\ ToldRecord(st[s], OverlayNews(st)).pc = st[s].pc
                 /\ ToldRecord(st[s], OverlayNews(st)).socket = st[s].socket
                 /\ ToldRecord(st[s], OverlayNews(st)).listening = st[s].listening
                 /\ ToldRecord(st[s], OverlayNews(st)).told = OverlayNews(st)
      BY <1>1, <3>1, <3>5, ToldRecordFacts
    <3> QED
      BY <3>2, <3>3, <3>4, <3>5
  <2>5. \A s \in Streams : n[s] \in StreamRecords
    BY <1>3, <2>2, <2>4
  <2>6. n \in [Streams -> StreamRecords]
    BY <2>1, <2>5
  <2>7. \A s \in Streams : Follows(st[s], n[s], OverlayNews(st))
    BY <2>2, <2>4 DEF Follows
  <2> QED
    BY <1>5, <2>2, <2>4, <2>6, <2>7
<1> QED
  BY <1>4, <1>5

-------------------------------------------------------------------------------
(* The counts                                                              *)

ConnectionsInv ==
  /\ streams \in [Streams -> StreamRecords]
  /\ totalConnections = Cardinality(Events!Attached(streams)) /\ totalConnections <= SSE_MAX_TOTAL_CONNECTIONS
  /\ poolCount = Cardinality(Events!OfKind(streams, "overlay")) /\ poolCount <= UNAUTH_OVERLAY_SSE_MAX_CONNECTIONS
  /\ \A s \in Streams : streams[s].pc \in {"attached", "open", "refused"} => streams[s].socket # "closed"

LEMMA StreamsCardinality == \A S : Events!Cardinality(S) = Cardinality(S)
BY DEF Events!Cardinality, Cardinality

\* Counting what came and what went counts what is there.
LEMMA ComeAndGone ==
  ASSUME NEW A, IsFiniteSet(A), NEW B, IsFiniteSet(B)
  PROVE  /\ Cardinality(B) = Cardinality(A) + Cardinality(B \ A) - Cardinality(A \ B)
         /\ Cardinality(A) \in Nat /\ Cardinality(B) \in Nat
<1>1. /\ Cardinality(A \ B) = Cardinality(A) - Cardinality(A \cap B)
      /\ Cardinality(B \ A) = Cardinality(B) - Cardinality(B \cap A)
  BY FS_Difference
<1>2. A \cap B = B \cap A /\ IsFiniteSet(A \cap B)
  BY FS_Intersection
<1>3. Cardinality(A) \in Nat /\ Cardinality(B) \in Nat /\ Cardinality(A \cap B) \in Nat
  BY <1>2, FS_CardinalityType
<1>4. Cardinality(B \cap A) = Cardinality(A \cap B)
  BY <1>2
<1> QED
  BY <1>1, <1>3, <1>4

LEMMA AttachedAreFinite ==
  ASSUME NEW st, NEW k
  PROVE  IsFiniteSet(Events!Attached(st)) /\ IsFiniteSet(Events!OfKind(st, k))
<1>1. Events!Attached(st) \subseteq Streams /\ Events!OfKind(st, k) \subseteq Streams
  BY DEF Events!Attached, Events!OfKind
<1> QED
  BY <1>1, StreamsAssumption, FS_Subset

\* The counts after Becomes, whatever it attaches within the limits and releases
LEMMA BecomesKeepsConnections ==
  ASSUME ConnectionsInv, NEW st \in [Streams -> StreamRecords], Events!Becomes(st),
         \A s \in Streams : st[s].kind = streams[s].kind,
         \A s \in Streams : st[s].pc \in {"attached", "open", "refused"} => st[s].socket # "closed",
         \/ Events!Attached(st) \subseteq Events!Attached(streams)
         \/ \E s \in Streams : /\ Events!Attached(st) \subseteq Events!Attached(streams) \cup {s}
                               /\ totalConnections < SSE_MAX_TOTAL_CONNECTIONS
                               /\ streams[s].kind = "overlay" => poolCount < UNAUTH_OVERLAY_SSE_MAX_CONNECTIONS
  PROVE  ConnectionsInv'
<1> DEFINE A == Events!Attached(streams)
           B == Events!Attached(st)
           OA == Events!OfKind(streams, "overlay")
           OB == Events!OfKind(st, "overlay")
<1>1. IsFiniteSet(A) /\ IsFiniteSet(B) /\ IsFiniteSet(OA) /\ IsFiniteSet(OB)
  BY AttachedAreFinite
<1>2. OA = {s \in A : streams[s].kind = "overlay"} /\ OB = {s \in B : streams[s].kind = "overlay"}
      /\ A \subseteq Streams /\ B \subseteq Streams
  BY DEF Events!OfKind, Events!Attached
<1>3. /\ {s \in A \ B : streams[s].kind = "overlay"} = OA \ OB
      /\ {s \in B \ A : streams[s].kind = "overlay"} = OB \ OA
  BY <1>2
<1>4. /\ streams' = st
      /\ totalConnections' = totalConnections + Cardinality(B \ A) - Cardinality(A \ B)
      /\ poolCount' = poolCount + Cardinality({s \in B \ A : streams[s].kind = "overlay"})
                                - Cardinality({s \in A \ B : streams[s].kind = "overlay"})
  BY StreamsCardinality DEF Events!Becomes
<1>5. totalConnections = Cardinality(A) /\ poolCount = Cardinality(OA)
      /\ totalConnections <= SSE_MAX_TOTAL_CONNECTIONS /\ poolCount <= UNAUTH_OVERLAY_SSE_MAX_CONNECTIONS
  BY DEF ConnectionsInv
<1>6. totalConnections' = Cardinality(B) /\ poolCount' = Cardinality(OB)
      /\ Cardinality(A) \in Nat /\ Cardinality(B) \in Nat /\ Cardinality(OA) \in Nat /\ Cardinality(OB) \in Nat
  <2>1. Cardinality(B) = Cardinality(A) + Cardinality(B \ A) - Cardinality(A \ B)
        /\ Cardinality(OB) = Cardinality(OA) + Cardinality(OB \ OA) - Cardinality(OA \ OB)
    BY <1>1, ComeAndGone
  <2> HIDE DEF A, B, OA, OB
  <2>2. Cardinality(A) \in Nat /\ Cardinality(B) \in Nat /\ Cardinality(OA) \in Nat /\ Cardinality(OB) \in Nat
    BY <1>1, FS_CardinalityType
  <2> QED
    BY <1>3, <1>4, <1>5, <2>1, <2>2
<1>7. SSE_MAX_TOTAL_CONNECTIONS \in Nat /\ UNAUTH_OVERLAY_SSE_MAX_CONNECTIONS \in Nat
  BY StreamsAssumption
<1>8. Cardinality(B) <= SSE_MAX_TOTAL_CONNECTIONS /\ Cardinality(OB) <= UNAUTH_OVERLAY_SSE_MAX_CONNECTIONS
  <2>1. CASE B \subseteq A
    <3>1. OB \subseteq OA
      BY <1>2, <2>1
    <3>2. Cardinality(B) <= Cardinality(A) /\ Cardinality(OB) <= Cardinality(OA)
      BY <1>1, <2>1, <3>1, FS_Subset
    <3> HIDE DEF A, B, OA, OB
    <3> QED
      BY <1>5, <1>6, <1>7, <3>2
  <2>2. ASSUME NEW s \in Streams, B \subseteq A \cup {s}, totalConnections < SSE_MAX_TOTAL_CONNECTIONS,
               streams[s].kind = "overlay" => poolCount < UNAUTH_OVERLAY_SSE_MAX_CONNECTIONS
        PROVE  Cardinality(B) <= SSE_MAX_TOTAL_CONNECTIONS /\ Cardinality(OB) <= UNAUTH_OVERLAY_SSE_MAX_CONNECTIONS
    <3>1. Cardinality(B) <= Cardinality(A) + 1
      BY <1>1, <2>2, OneMore
    <3>2. CASE streams[s].kind = "overlay"
      <4>1. OB \subseteq OA \cup {s}
        BY <1>2, <2>2
      <4>2. Cardinality(OB) <= Cardinality(OA) + 1
        BY <1>1, <4>1, OneMore
      <4> HIDE DEF A, B, OA, OB
      <4> QED
        BY <1>5, <1>6, <1>7, <2>2, <3>1, <3>2, <4>2
    <3>3. CASE streams[s].kind # "overlay"
      <4>1. OB \subseteq OA
        BY <1>2, <2>2, <3>3
      <4>2. Cardinality(OB) <= Cardinality(OA)
        BY <1>1, <4>1, FS_Subset
      <4> HIDE DEF A, B, OA, OB
      <4> QED
        BY <1>5, <1>6, <1>7, <2>2, <3>1, <4>2
    <3> QED
      BY <3>2, <3>3
  <2> QED
    BY <2>1, <2>2
<1>9. Events!Attached(streams)' = B /\ Events!OfKind(streams, "overlay")' = OB
  BY <1>4 DEF Events!Attached, Events!OfKind
<1> HIDE DEF A, B, OA, OB
<1> QED
  BY <1>4, <1>6, <1>8, <1>9 DEF ConnectionsInv

\* A step that attaches nothing and releases nothing leaves the counts.
LEMMA ConnectionsStay ==
  ASSUME ConnectionsInv, streams' \in [Streams -> StreamRecords], UNCHANGED <<totalConnections, poolCount>>,
         \A s \in Streams : streams[s].pc \in {"attached", "open", "refused"} <=>
                              streams'[s].pc \in {"attached", "open", "refused"},
         \A s \in Streams : streams[s].pc \in {"attached", "open", "refused"} =>
                              streams'[s].kind = streams[s].kind /\ streams'[s].socket # "closed"
  PROVE  ConnectionsInv'
<1>1. Events!Attached(streams)' = Events!Attached(streams)
  BY DEF Events!Attached
<1>2. Events!OfKind(streams, "overlay")' = Events!OfKind(streams, "overlay")
  BY DEF Events!Attached, Events!OfKind
<1> QED
  BY <1>1, <1>2 DEF ConnectionsInv

-------------------------------------------------------------------------------
(* What the pages know, what credentials allow, what dashboards were told   *)

Registered == {"attached", "open", "refused"}

\* A settings page that reads is told what is so; whoever listens is registered, or a ping dropped it.
PagesInv ==
  /\ \A s \in Streams :
       streams[s].kind = "settings" /\ streams[s].pc \in Registered /\ ~Events!Failing(streams[s]) =>
         streams[s].listening /\ streams[s].told = OverlayNews(streams)
  /\ \A s \in Streams :
       streams[s].listening =>
         streams[s].pc \in Registered \/ (streams[s].pc = "gone" /\ streams[s].socket \in {"broken", "closing"})

CredentialInv ==
  /\ token \in [version : Nat, active : BOOLEAN] /\ recentIssue \in Nat
  /\ panelKey \in [op : {"none", "issue", "revoke"}, pc : {"idle", "writes", "disconnects"}, version : Nat]
  /\ disconnectDue \in BOOLEAN /\ staleIssue \in BOOLEAN /\ member \in {"in", "removed", "out"}
  /\ \A s \in Streams :
       streams[s].pc = "open" /\ streams[s].socket = "up" =>
         /\ streams[s].kind = "companion" =>
              \/ token = [version |-> streams[s].cred, active |-> TRUE]
              \/ panelKey.pc = "disconnects" \/ disconnectDue = TRUE \/ streams[s].cred \in unheard
         /\ streams[s].kind = "dashboard" => member # "out" \/ 0 \in unheard
  /\ Events!ShownKeyIsUsable

\* No dashboard was told a status later than the one that is read, and there is one at most.
StatusInv ==
  /\ status \in Nat /\ pushes \in [waiting : Nat, reading : SUBSET Nat]
  /\ \A x \in pushes.reading : x <= status /\ \A y \in pushes.reading : x = y
  /\ \A s \in Streams :
       streams[s].kind = "dashboard" =>
         streams[s].told <= status /\ \A x \in pushes.reading : streams[s].told <= x

EventsInv == ConnectionsInv /\ PagesInv /\ CredentialInv /\ StatusInv

LEMMA AttachedAre ==
  ASSUME NEW st
  PROVE  /\ Events!Attached(st) = {s \in Streams : st[s].pc \in Registered}
         /\ \A k : Events!OfKind(st, k) = {s \in Streams : st[s].pc \in Registered /\ st[s].kind = k}
BY DEF Events!Attached, Events!OfKind, Registered

LEMMA SameNews ==
  ASSUME NEW st, NEW su,
         \A s \in Streams : st[s].pc \in Registered /\ st[s].kind = "overlay"
                              <=> su[s].pc \in Registered /\ su[s].kind = "overlay"
  PROVE  OverlayNews(st) = OverlayNews(su) /\ Events!OfKind(st, "overlay") = Events!OfKind(su, "overlay")
<1>1. Events!OfKind(st, "overlay") = Events!OfKind(su, "overlay")
  BY DEF Events!OfKind, Events!Attached, Registered
<1> QED
  BY <1>1 DEF OverlayNews

\* After Notified, every page that reads knows what is so.
LEMMA NotifiedKeepsPages ==
  ASSUME PagesInv, NEW st \in [Streams -> StreamRecords], NEW first \in BOOLEAN, streams' = Events!Notified(st, first),
         \A s \in Streams :
           st[s].kind = "settings" /\ st[s].pc \in Registered /\ ~Events!Failing(st[s]) =>
             /\ st[s].listening
             /\ first \/ (st[s].told = streams[s].told /\ streams[s].kind = "settings" /\ streams[s].pc \in Registered
                          /\ ~Events!Failing(streams[s])),
         \A s \in Streams :
           st[s].listening => st[s].pc \in Registered \/ (st[s].pc = "gone" /\ st[s].socket \in {"broken", "closing"})
  PROVE  PagesInv'
<1> DEFINE n == Events!Notified(st, first)
           S == Events!OfKind(st, "settings")
<1>1. /\ n \in [Streams -> StreamRecords]
      /\ \A s \in Streams : s \notin S => n[s] = st[s]
      /\ \A s \in Streams : Follows(st[s], n[s], OverlayNews(st))
      /\ Tells(st, first) => \A s \in S : ~Events!Failing(st[s]) => n[s].told = OverlayNews(st)
      /\ ~Tells(st, first) => n = st
  BY NotifiedFacts
<1>2. S = {s \in Streams : st[s].pc \in Registered /\ st[s].kind = "settings"}
  BY AttachedAre
<1>3. streams' = n
  OBVIOUS
<1> HIDE DEF n, S
<1>4. OverlayNews(n) = OverlayNews(st)
  <2>1. ASSUME NEW s \in Streams PROVE st[s].kind = "overlay" => n[s] = st[s]
    BY <1>1, <1>2
  <2>2. ASSUME NEW s \in Streams PROVE n[s].pc \in Registered /\ n[s].kind = "overlay"
                                        <=> st[s].pc \in Registered /\ st[s].kind = "overlay"
    BY <1>1, <2>1 DEF Follows
  <2> QED
    BY <2>2, SameNews
<1>5. OverlayNews(streams)' = OverlayNews(n)
  BY <1>3 DEF OverlayNews, Events!OfKind, Events!Attached
<1>6. ASSUME NEW s \in Streams, n[s].kind = "settings", n[s].pc \in Registered, ~Events!Failing(n[s])
      PROVE  n[s].listening /\ n[s].told = OverlayNews(n)
  <2>1. st[s].kind = "settings"
    BY <1>1, <1>6 DEF Follows
  <2>2. s \in S /\ st[s].pc \in Registered /\ ~Events!Failing(st[s]) /\ n[s].listening = st[s].listening
    <3>1. CASE s \notin S
      BY <1>1, <1>2, <1>6, <2>1, <3>1
    <3>2. CASE s \in S
      BY <1>1, <1>2, <1>6, <3>2 DEF Registered, Follows
    <3> QED
      BY <3>1, <3>2
  <2>3. CASE Tells(st, first)
    BY <1>1, <1>4, <2>1, <2>2, <2>3
  <2>4. CASE ~Tells(st, first)
    <3>1. n[s] = st[s] /\ ~first /\ st[s].listening
      BY <1>1, <2>1, <2>2, <2>4 DEF Tells
    <3>2. (Events!OfKind(st, "overlay") # {}) = (Events!OfKind(streams, "overlay") # {})
      BY <2>4, <3>1 DEF Tells
    <3>3. OverlayNews(st) = OverlayNews(streams)
      BY <3>2 DEF OverlayNews
    <3>4. st[s].told = OverlayNews(streams)
      BY <2>1, <2>2, <3>1 DEF PagesInv
    <3> QED
      BY <1>4, <3>1, <3>3, <3>4
  <2> QED
    BY <2>3, <2>4
<1>7. ASSUME NEW s \in Streams, n[s].listening
      PROVE  n[s].pc \in Registered \/ (n[s].pc = "gone" /\ n[s].socket \in {"broken", "closing"})
  <2>1. CASE n[s] = st[s]
    BY <1>7, <2>1
  <2>2. CASE n[s].pc = "gone" /\ n[s].listening = FALSE
    BY <1>7, <2>2
  <2>3. CASE n[s].pc = st[s].pc /\ n[s].socket = st[s].socket /\ n[s].listening = st[s].listening
    BY <1>7, <2>3
  <2> QED
    BY <1>1, <2>1, <2>2, <2>3 DEF Follows
<1>8. \A s \in Streams : streams'[s] = n[s]
  BY <1>3
<1> QED
  BY <1>5, <1>6, <1>7, <1>8 DEF PagesInv

\* A step that leaves every settings page, and whether there is an overlay, as they are
LEMMA PagesStay ==
  ASSUME PagesInv,
         \A s \in Streams : streams'[s].kind = "settings" /\ streams'[s].pc \in Registered =>
           /\ streams[s].kind = "settings" /\ streams[s].pc \in Registered
           /\ ~Events!Failing(streams'[s]) => ~Events!Failing(streams[s])
           /\ streams'[s].listening = streams[s].listening /\ streams'[s].told = streams[s].told,
         \A s \in Streams : streams[s].pc \in Registered /\ streams[s].kind = "overlay"
                              <=> streams'[s].pc \in Registered /\ streams'[s].kind = "overlay",
         \A s \in Streams : streams'[s].listening =>
           streams'[s].pc \in Registered \/ (streams'[s].pc = "gone" /\ streams'[s].socket \in {"broken", "closing"})
  PROVE  PagesInv'
<1>1. OverlayNews(streams') = OverlayNews(streams)
  BY SameNews
<1>2. OverlayNews(streams)' = OverlayNews(streams')
  BY DEF OverlayNews, Events!OfKind, Events!Attached
<1> QED
  BY <1>1, <1>2 DEF PagesInv

\* No stream of a credential is open after the step that was not, unless its credential is good.
NoneOpens ==
  \A s \in Streams :
    streams'[s].pc = "open" /\ streams'[s].socket = "up" /\ streams'[s].kind \in {"companion", "dashboard"} =>
      \/ /\ streams[s].pc = "open" /\ streams[s].socket = "up"
         /\ streams'[s].kind = streams[s].kind /\ streams'[s].cred = streams[s].cred
      \/ Events!StillAllowed(streams'[s])

\* The step tells no dashboard anything.
NoneTold ==
  \A s \in Streams :
    /\ streams'[s].kind = "dashboard" =>
         streams'[s].told = 0 \/ (streams[s].kind = "dashboard" /\ streams'[s].told = streams[s].told)
    /\ streams[s].kind = "dashboard" /\ streams[s].pc \in Registered => streams'[s].told = streams[s].told

LEMMA CredentialsStay ==
  ASSUME CredentialInv, NoneOpens, UNCHANGED <<token, recentIssue, panelKey, disconnectDue, member, unheard, staleIssue>>
  PROVE  CredentialInv'
<1>1. ASSUME NEW s \in Streams, streams'[s].pc = "open", streams'[s].socket = "up"
      PROVE  /\ streams'[s].kind = "companion" =>
                  \/ token = [version |-> streams'[s].cred, active |-> TRUE]
                  \/ panelKey.pc = "disconnects" \/ disconnectDue = TRUE \/ streams'[s].cred \in unheard
             /\ streams'[s].kind = "dashboard" => member # "out" \/ 0 \in unheard
  <2>1. CASE /\ streams[s].pc = "open" /\ streams[s].socket = "up"
             /\ streams'[s].kind = streams[s].kind /\ streams'[s].cred = streams[s].cred
    BY <2>1 DEF CredentialInv
  <2>2. CASE Events!StillAllowed(streams'[s])
    BY <2>2 DEF Events!StillAllowed
  <2>3. CASE streams'[s].kind \notin {"companion", "dashboard"}
    BY <2>3
  <2> QED
    BY <1>1, <2>1, <2>2, <2>3 DEF NoneOpens
<1> QED
  BY <1>1 DEF CredentialInv, Events!ShownKeyIsUsable

LEMMA StatusStays == ASSUME StatusInv, NoneTold, UNCHANGED <<status, pushes>> PROVE StatusInv'
<1>1. \A x \in pushes.reading : x \in Nat /\ x <= status /\ 0 <= x
  BY DEF StatusInv
<1>2. status' = status /\ pushes' = pushes /\ 0 <= status
  BY DEF StatusInv
<1>3. ASSUME NEW s \in Streams, streams'[s].kind = "dashboard"
      PROVE  streams'[s].told <= status /\ \A x \in pushes.reading : streams'[s].told <= x
  BY <1>1, <1>2, <1>3 DEF StatusInv, NoneTold
<1> QED
  BY <1>2, <1>3 DEF StatusInv

-------------------------------------------------------------------------------
(* The actions                                                             *)

Others == <<token, recentIssue, panelKey, disconnectDue, member, unheard, staleIssue, status, pushes>>

\* One stream changes, and is registered if it was.
LEMMA OneChanges ==
  ASSUME EventsInv, NEW s \in Streams, NEW q \in StreamRecords, streams' = [streams EXCEPT ![s] = q],
         UNCHANGED <<totalConnections, poolCount>>, UNCHANGED Others,
         q.pc \in Registered <=> streams[s].pc \in Registered,
         q.pc \in Registered => /\ q.kind = streams[s].kind /\ q.socket # "closed" /\ q.listening = streams[s].listening
                                /\ q.told = streams[s].told /\ (~Events!Failing(q) => ~Events!Failing(streams[s])),
         q.listening => q.pc \in Registered \/ (q.pc = "gone" /\ q.socket \in {"broken", "closing"}),
         q.pc = "open" /\ q.socket = "up" /\ q.kind \in {"companion", "dashboard"} =>
           \/ /\ streams[s].pc = "open" /\ streams[s].socket = "up"
              /\ q.kind = streams[s].kind /\ q.cred = streams[s].cred
           \/ Events!StillAllowed(q),
         q.kind = "dashboard" => q.told = 0 \/ (streams[s].kind = "dashboard" /\ q.told = streams[s].told)
  PROVE  EventsInv' /\ NoneTold
<1>1. streams \in [Streams -> StreamRecords]
  BY DEF EventsInv, ConnectionsInv
<1>2. streams' \in [Streams -> StreamRecords] /\ streams'[s] = q /\ \A t \in Streams : t # s => streams'[t] = streams[t]
  BY <1>1
<1>3. ConnectionsInv'
  <2>1. \A t \in Streams : streams[t].pc \in {"attached", "open", "refused"} <=>
                              streams'[t].pc \in {"attached", "open", "refused"}
    BY <1>2 DEF Registered
  <2>2. \A t \in Streams : streams[t].pc \in {"attached", "open", "refused"} =>
                              streams'[t].kind = streams[t].kind /\ streams'[t].socket # "closed"
    BY <1>2 DEF Registered, EventsInv, ConnectionsInv
  <2>3. ConnectionsInv
    BY DEF EventsInv
  <2> QED
    BY <1>2, <2>1, <2>2, <2>3, ConnectionsStay
<1>4. PagesInv'
  <2>1. PagesInv
    BY DEF EventsInv
  <2>2. ASSUME NEW t \in Streams, streams'[t].kind = "settings", streams'[t].pc \in Registered
        PROVE  /\ streams[t].kind = "settings" /\ streams[t].pc \in Registered
               /\ ~Events!Failing(streams'[t]) => ~Events!Failing(streams[t])
               /\ streams'[t].listening = streams[t].listening /\ streams'[t].told = streams[t].told
    BY <1>2, <2>2
  <2>3. \A t \in Streams : streams[t].pc \in Registered /\ streams[t].kind = "overlay"
                              <=> streams'[t].pc \in Registered /\ streams'[t].kind = "overlay"
    BY <1>2
  <2>4. \A t \in Streams : streams'[t].listening =>
           streams'[t].pc \in Registered \/ (streams'[t].pc = "gone" /\ streams'[t].socket \in {"broken", "closing"})
    BY <1>2, <2>1 DEF PagesInv
  <2> QED
    BY <2>1, <2>2, <2>3, <2>4, PagesStay
<1>5. NoneOpens
  BY <1>2 DEF NoneOpens
<1>6. NoneTold
  BY <1>2 DEF NoneTold
<1>7. CredentialInv'
  BY <1>5, CredentialsStay DEF EventsInv, Others
<1>8. StatusInv'
  BY <1>6, StatusStays DEF EventsInv, Others
<1> QED
  BY <1>3, <1>4, <1>6, <1>7, <1>8 DEF EventsInv

\* One stream is registered or released, and the settings pages are told.
LEMMA OneIsNoticed ==
  ASSUME EventsInv, NEW s \in Streams, NEW q \in StreamRecords, NEW first \in BOOLEAN,
         Events!Becomes(Events!Notified([streams EXCEPT ![s] = q], first)), UNCHANGED Others,
         q.kind = streams[s].kind, q.told = streams[s].told,
         q.pc \in Registered => /\ q.socket # "closed" /\ streams[s].pc \notin Registered
                                /\ totalConnections < SSE_MAX_TOTAL_CONNECTIONS
                                /\ q.kind = "overlay" => poolCount < UNAUTH_OVERLAY_SSE_MAX_CONNECTIONS,
         q.pc \in Registered /\ q.kind = "settings" => first /\ q.listening,
         q.listening => q.pc \in Registered \/ (q.pc = "gone" /\ q.socket \in {"broken", "closing"}),
         q.pc = "open" => q.kind \notin {"companion", "dashboard"}
  PROVE  EventsInv' /\ NoneTold
<1> DEFINE st == [streams EXCEPT ![s] = q]
           n == Events!Notified(st, first)
<1>1. streams \in [Streams -> StreamRecords] /\ ConnectionsInv /\ PagesInv
  BY DEF EventsInv, ConnectionsInv
<1>2. st \in [Streams -> StreamRecords] /\ st[s] = q /\ \A t \in Streams : t # s => st[t] = streams[t]
  BY <1>1
<1>3. Events!Becomes(n)
  OBVIOUS
<1> HIDE DEF st
<1>4. /\ n \in [Streams -> StreamRecords]
      /\ \A t \in Streams : t \notin Events!OfKind(st, "settings") => n[t] = st[t]
      /\ \A t \in Streams : Follows(st[t], n[t], OverlayNews(st))
  BY <1>2, NotifiedFacts
<1>5. streams' = n
  BY <1>3 DEF Events!Becomes
<1>6. PagesInv'
  <2>1. ASSUME NEW t \in Streams, st[t].kind = "settings", st[t].pc \in Registered, ~Events!Failing(st[t])
        PROVE  /\ st[t].listening
               /\ first \/ (st[t].told = streams[t].told /\ streams[t].kind = "settings" /\ streams[t].pc \in Registered
                            /\ ~Events!Failing(streams[t]))
    <3>1. CASE t = s
      BY <1>2, <2>1, <3>1
    <3>2. CASE t # s
      BY <1>1, <1>2, <2>1, <3>2 DEF PagesInv
    <3> QED
      BY <3>1, <3>2
  <2>2. \A t \in Streams :
           st[t].listening => st[t].pc \in Registered \/ (st[t].pc = "gone" /\ st[t].socket \in {"broken", "closing"})
    BY <1>1, <1>2 DEF PagesInv
  <2> HIDE DEF n
  <2>3. n = Events!Notified(st, first)
    BY DEF n
  <2>4. streams' = Events!Notified(st, first)
    BY <1>5, <2>3
  <2> QED
    BY <1>1, <1>2, <2>1, <2>2, <2>4, NotifiedKeepsPages
<1> HIDE DEF n
<1>7. \A t \in Streams : n[t].pc \in Registered => st[t].pc \in Registered /\ n[t].socket = st[t].socket
  BY <1>4 DEF Follows, Registered
<1>8. \A t \in Streams : n[t].kind = st[t].kind /\ n[t].cred = st[t].cred
  BY <1>4 DEF Follows
<1>9. ConnectionsInv'
  <2>1. \A t \in Streams : n[t].kind = streams[t].kind
    BY <1>2, <1>8
  <2>2. \A t \in Streams : n[t].pc \in {"attached", "open", "refused"} => n[t].socket # "closed"
    <3>1. \A t \in Streams : st[t].pc \in Registered => st[t].socket # "closed"
      BY <1>1, <1>2 DEF ConnectionsInv, Registered
    <3> QED
      BY <1>7, <3>1 DEF Registered
  <2>3. CASE q.pc \notin Registered
    <3>1. Events!Attached(n) \subseteq Events!Attached(streams)
      BY <1>2, <1>7, <2>3, AttachedAre
    <3> QED
      BY <1>1, <1>3, <1>4, <2>1, <2>2, <3>1, BecomesKeepsConnections
  <2>4. CASE q.pc \in Registered
    <3>1. Events!Attached(n) \subseteq Events!Attached(streams) \cup {s}
      BY <1>2, <1>7, AttachedAre
    <3>2. totalConnections < SSE_MAX_TOTAL_CONNECTIONS
          /\ (streams[s].kind = "overlay" => poolCount < UNAUTH_OVERLAY_SSE_MAX_CONNECTIONS)
      BY <2>4
    <3>3. \E t \in Streams : /\ Events!Attached(n) \subseteq Events!Attached(streams) \cup {t}
                             /\ totalConnections < SSE_MAX_TOTAL_CONNECTIONS
                             /\ streams[t].kind = "overlay" => poolCount < UNAUTH_OVERLAY_SSE_MAX_CONNECTIONS
      BY <3>1, <3>2
    <3> QED
      BY <1>1, <1>3, <1>4, <2>1, <2>2, <3>3, BecomesKeepsConnections
  <2> QED
    BY <2>3, <2>4
<1>10. \A t \in Streams : n[t].kind \in {"companion", "dashboard"} => n[t] = st[t]
  BY <1>4, <1>8, AttachedAre
<1>11. NoneOpens
  <2>1. ASSUME NEW t \in Streams, n[t].pc = "open", n[t].socket = "up", n[t].kind \in {"companion", "dashboard"}
        PROVE  /\ streams[t].pc = "open" /\ streams[t].socket = "up"
               /\ n[t].kind = streams[t].kind /\ n[t].cred = streams[t].cred
    <3>1. n[t] = st[t]
      BY <1>10, <2>1
    <3>2. t # s
      BY <1>2, <2>1, <3>1
    <3> QED
      BY <1>2, <2>1, <3>1, <3>2
  <2> QED
    BY <1>5, <2>1 DEF NoneOpens
<1>12. NoneTold
  <2>1. ASSUME NEW t \in Streams, n[t].kind = "dashboard"
        PROVE  streams[t].kind = "dashboard" /\ n[t].told = streams[t].told
    BY <1>2, <1>10, <2>1
  <2>2. ASSUME NEW t \in Streams, streams[t].kind = "dashboard"
        PROVE  n[t].told = streams[t].told
    BY <1>2, <1>8, <1>10, <2>2
  <2> QED
    BY <1>5, <2>1, <2>2 DEF NoneTold
<1>13. CredentialInv'
  BY <1>11, CredentialsStay DEF EventsInv, Others
<1>14. StatusInv'
  BY <1>12, StatusStays DEF EventsInv, Others
<1> QED
  BY <1>6, <1>9, <1>12, <1>13, <1>14 DEF EventsInv

LEMMA RecordFacts ==
  ASSUME EventsInv, NEW s \in Streams
  PROVE  /\ streams \in [Streams -> StreamRecords] /\ streams[s] \in StreamRecords
         /\ token.version \in Nat
         /\ streams[s].listening =>
              streams[s].pc \in Registered \/ (streams[s].pc = "gone" /\ streams[s].socket \in {"broken", "closing"})
BY DEF EventsInv, ConnectionsInv, PagesInv, CredentialInv

LEMMA RequestedKeeps ==
  ASSUME EventsInv, NEW s \in Streams, NEW k \in Events!Kinds, Events!Requested(s, k)
  PROVE  EventsInv' /\ NoneTold
<1>1. PICK v \in Nat : streams' = [streams EXCEPT ![s] = [Events!NoStream EXCEPT !.kind = k, !.pc = "looking", !.cred = v]]
  <2>1. PICK v \in IF k = "companion" THEN 1..token.version ELSE {0} :
          streams' = [streams EXCEPT ![s] = [Events!NoStream EXCEPT !.kind = k, !.pc = "looking", !.cred = v]]
    BY DEF Events!Requested
  <2>2. v \in Nat
    BY RecordFacts
  <2> QED
    BY <2>1, <2>2
<1> DEFINE q == [Events!NoStream EXCEPT !.kind = k, !.pc = "looking", !.cred = v]
<1>2. /\ q \in StreamRecords /\ q.pc = "looking" /\ q.listening = FALSE /\ q.told = 0
  BY DEF Events!NoStream, StreamRecords, StreamSteps, Sockets
<1>3. streams[s].pc = "none" /\ UNCHANGED Others /\ UNCHANGED <<totalConnections, poolCount>>
  BY DEF Events!Requested, Events!credentialVars, Events!statusVars, Others
<1>4. streams' = [streams EXCEPT ![s] = q]
  BY <1>1
<1> HIDE DEF q
<1> QED
  BY <1>2, <1>3, <1>4, OneChanges DEF Registered

LEMMA LookedUpKeeps ==
  ASSUME EventsInv, NEW s \in Streams, Events!LookedUp(s)
  PROVE  EventsInv' /\ NoneTold
<1>1. PICK pc \in {"admitted", "gone"} : streams' = [streams EXCEPT ![s].pc = pc]
  BY DEF Events!LookedUp
<1> DEFINE q == [streams[s] EXCEPT !.pc = pc]
<1>2. streams[s].pc = "looking" /\ UNCHANGED Others /\ UNCHANGED <<totalConnections, poolCount>>
  BY DEF Events!LookedUp, Events!credentialVars, Events!statusVars, Others
<1>3. /\ q \in StreamRecords /\ q.pc = pc /\ q.listening = streams[s].listening /\ q.told = streams[s].told
      /\ q.kind = streams[s].kind
  BY RecordFacts DEF StreamRecords, StreamSteps, Sockets
<1>4. streams' = [streams EXCEPT ![s] = q]
  BY <1>1, Zenon
<1>5. ~q.listening
  BY <1>2, <1>3, RecordFacts DEF Registered
<1> HIDE DEF q
<1> QED
  BY <1>2, <1>3, <1>4, <1>5, OneChanges DEF Registered

LEMMA RecheckedKeeps ==
  ASSUME EventsInv, NEW s \in Streams, Events!Rechecked(s)
  PROVE  EventsInv' /\ NoneTold
<1>1. streams[s].pc = "attached" /\ UNCHANGED Others /\ UNCHANGED <<totalConnections, poolCount>>
  BY DEF Events!Rechecked, Events!credentialVars, Events!statusVars, Others
<1>2. streams[s] \in StreamRecords /\ streams[s].socket # "closed"
  BY <1>1, RecordFacts DEF EventsInv, ConnectionsInv
<1>3. CASE Events!StillAllowed(streams[s]) /\ streams' = [streams EXCEPT ![s] = [streams[s] EXCEPT !.pc = "open"]]
  <2> DEFINE q == [streams[s] EXCEPT !.pc = "open"]
  <2>1. /\ q \in StreamRecords /\ q.pc = "open" /\ q.listening = streams[s].listening /\ q.told = streams[s].told
        /\ q.kind = streams[s].kind /\ q.socket = streams[s].socket /\ q.cred = streams[s].cred
    BY <1>2 DEF StreamRecords, StreamSteps, Sockets
  <2>2. streams' = [streams EXCEPT ![s] = q]
    BY <1>3
  <2> HIDE DEF q
  <2>3. Events!StillAllowed(q) /\ (Events!Failing(q) <=> Events!Failing(streams[s]))
    BY <1>3, <2>1 DEF Events!StillAllowed, Events!Failing
  <2> QED
    BY <1>1, <1>2, <2>1, <2>2, <2>3, OneChanges DEF Registered
<1>4. CASE streams' = [streams EXCEPT ![s] = [Events!Ended(streams[s]) EXCEPT !.pc = "refused"]]
  <2> DEFINE q == [Events!Ended(streams[s]) EXCEPT !.pc = "refused"]
  <2>1. /\ q \in StreamRecords /\ q.pc = "refused" /\ q.listening = streams[s].listening /\ q.told = streams[s].told
        /\ q.kind = streams[s].kind /\ q.socket = (IF streams[s].socket = "up" THEN "closing" ELSE streams[s].socket)
    BY <1>2 DEF StreamRecords, StreamSteps, Sockets, Events!Ended
  <2>2. streams' = [streams EXCEPT ![s] = q]
    BY <1>4
  <2> HIDE DEF q
  <2>3. (Events!Failing(q) <=> Events!Failing(streams[s])) /\ q.socket # "closed"
    BY <1>2, <2>1 DEF Events!Failing
  <2> QED
    BY <1>1, <1>2, <2>1, <2>2, <2>3, OneChanges DEF Registered
<1> QED
  BY <1>3, <1>4 DEF Events!Rechecked, Events!AllowedAgain

LEMMA ClientChangesKeeps ==
  ASSUME EventsInv, NEW s \in Streams, NEW to \in {"closing", "backlogged", "broken"}, Events!ClientChanges(s, to)
  PROVE  EventsInv' /\ NoneTold
<1> DEFINE q == [streams[s] EXCEPT !.socket = to]
<1>1. /\ streams[s].pc \notin {"none", "gone"} /\ streams[s].socket = "up" /\ UNCHANGED Others
      /\ UNCHANGED <<totalConnections, poolCount>> /\ streams' = [streams EXCEPT ![s].socket = to]
  BY DEF Events!ClientChanges, Events!credentialVars, Events!statusVars, Others
<1>2. /\ q \in StreamRecords /\ q.pc = streams[s].pc /\ q.listening = streams[s].listening /\ q.told = streams[s].told
      /\ q.kind = streams[s].kind /\ q.socket = to
  BY RecordFacts DEF StreamRecords, StreamSteps, Sockets
<1>3. streams' = [streams EXCEPT ![s] = q]
  BY <1>1, Zenon
<1> HIDE DEF q
<1>4. ~Events!Failing(streams[s]) /\ (streams[s].listening => streams[s].pc \in Registered)
  BY <1>1, RecordFacts DEF Events!Failing
<1>5. q.socket # "closed" /\ q.socket # "up" /\ (q.listening => q.pc \in Registered)
  BY <1>2, <1>4
<1>6. q.kind = "dashboard" => q.told = 0 \/ (streams[s].kind = "dashboard" /\ q.told = streams[s].told)
  BY <1>2
<1>7. q.pc \in Registered <=> streams[s].pc \in Registered
  BY <1>2
<1>8. q.pc \in Registered => /\ q.kind = streams[s].kind /\ q.socket # "closed" /\ q.listening = streams[s].listening
                             /\ q.told = streams[s].told /\ (~Events!Failing(q) => ~Events!Failing(streams[s]))
  BY <1>2, <1>4, <1>5
<1>9. q.pc = "open" /\ q.socket = "up" /\ q.kind \in {"companion", "dashboard"} =>
        \/ /\ streams[s].pc = "open" /\ streams[s].socket = "up"
           /\ q.kind = streams[s].kind /\ q.cred = streams[s].cred
        \/ Events!StillAllowed(q)
  BY <1>5
<1>10. q.listening => q.pc \in Registered \/ (q.pc = "gone" /\ q.socket \in {"broken", "closing"})
  BY <1>5
<1>11. q \in StreamRecords /\ UNCHANGED Others /\ UNCHANGED <<totalConnections, poolCount>>
  BY <1>1, <1>2
<1> HIDE DEF Registered
<1> QED
  BY <1>3, <1>6, <1>7, <1>8, <1>9, <1>10, <1>11, OneChanges

LEMMA CloseEventKeeps ==
  ASSUME EventsInv, NEW s \in Streams, Events!CloseEvent(s)
  PROVE  EventsInv' /\ NoneTold
<1> DEFINE q == [streams[s] EXCEPT !.pc = IF s \in Events!Attached(streams) THEN "gone" ELSE @, !.socket = "closed",
                                   !.listening = FALSE]
<1>1. Events!Becomes(Events!Notified([streams EXCEPT ![s] = q], FALSE)) /\ UNCHANGED Others
  BY DEF Events!CloseEvent, Events!credentialVars, Events!statusVars, Others
<1>2. /\ q \in StreamRecords /\ q.listening = FALSE /\ q.told = streams[s].told /\ q.kind = streams[s].kind
      /\ q.pc = IF s \in Events!Attached(streams) THEN "gone" ELSE streams[s].pc
  BY RecordFacts DEF StreamRecords, StreamSteps, Sockets
<1> HIDE DEF q
<1>3. q.pc \notin Registered
  BY <1>2, AttachedAre DEF Registered
<1> QED
  BY <1>1, <1>2, <1>3, OneIsNoticed DEF Registered

LEMMA PingFailsKeeps ==
  ASSUME EventsInv, NEW s \in Streams, Events!PingFails(s)
  PROVE  EventsInv' /\ NoneTold
<1> DEFINE q == [streams[s] EXCEPT !.pc = "gone", !.socket = Events!Dropped(streams[s])]
<1>1. /\ Events!Becomes(Events!Notified([streams EXCEPT ![s].pc = "gone", ![s].socket = Events!Dropped(streams[s])], FALSE))
      /\ UNCHANGED Others /\ Events!Failing(streams[s])
  BY DEF Events!PingFails, Events!credentialVars, Events!statusVars, Others
<1>2. [streams EXCEPT ![s].pc = "gone", ![s].socket = Events!Dropped(streams[s])] = [streams EXCEPT ![s] = q]
  BY RecordFacts DEF StreamRecords
<1>3. /\ q \in StreamRecords /\ q.told = streams[s].told /\ q.kind = streams[s].kind /\ q.pc = "gone"
      /\ q.socket \in {"broken", "closing"}
  BY <1>1, RecordFacts DEF StreamRecords, StreamSteps, Sockets, Events!Failing, Events!Dropped
<1>4. Events!Becomes(Events!Notified([streams EXCEPT ![s] = q], FALSE))
  BY <1>1, <1>2
<1> HIDE DEF q
<1> QED
  BY <1>1, <1>3, <1>4, OneIsNoticed DEF Registered

LEMMA AttachKeeps ==
  ASSUME EventsInv, NEW s \in Streams, Events!Attach(s)
  PROVE  EventsInv' /\ NoneTold
<1>1. streams[s].pc = "admitted" /\ UNCHANGED Others
  BY DEF Events!Attach, Events!credentialVars, Events!statusVars, Others
<1>2. streams \in [Streams -> StreamRecords] /\ streams[s] \in StreamRecords /\ streams[s].listening = FALSE
      /\ ConnectionsInv
  BY <1>1, RecordFacts DEF Registered, StreamRecords, EventsInv
<1>3. CASE Events!Becomes([streams EXCEPT ![s].pc = "gone"])
  <2> DEFINE q == [streams[s] EXCEPT !.pc = "gone"]
             st == [streams EXCEPT ![s] = q]
  <2>1. /\ q \in StreamRecords /\ q.told = streams[s].told /\ q.kind = streams[s].kind /\ q.pc = "gone"
        /\ q.listening = FALSE
    BY <1>2 DEF StreamRecords, StreamSteps, Sockets
  <2>2. st = [streams EXCEPT ![s].pc = "gone"]
    BY Zenon
  <2>3. Events!Becomes(st)
    BY <1>3, <2>2
  <2>4. Events!Attached(st) = Events!Attached(streams)
    <3>1. \A t \in Streams : st[t].pc \in Registered <=> streams[t].pc \in Registered
      BY <1>1, <1>2, <2>1 DEF Registered
    <3> QED
      BY <3>1, AttachedAre
  <2>5. UNCHANGED <<totalConnections, poolCount>>
    <3> DEFINE A == Events!Attached(streams)
    <3>1. {t \in A \ A : streams[t].kind = "overlay"} = {} /\ A \ A = {}
      OBVIOUS
    <3>2. /\ totalConnections' = totalConnections + Cardinality(A \ A) - Cardinality(A \ A)
          /\ poolCount' = poolCount + Cardinality({t \in A \ A : streams[t].kind = "overlay"})
                                    - Cardinality({t \in A \ A : streams[t].kind = "overlay"})
      BY <2>3, <2>4, StreamsCardinality DEF Events!Becomes
    <3>3. Cardinality(A \ A) = 0
      BY <3>1, FS_EmptySet
    <3>4. totalConnections \in Nat /\ poolCount \in Nat
      BY <1>2, AttachedAreFinite, FS_CardinalityType DEF ConnectionsInv
    <3> QED
      BY <3>1, <3>2, <3>3, <3>4
  <2>6. streams' = [streams EXCEPT ![s] = q]
    BY <2>3 DEF Events!Becomes
  <2> HIDE DEF q, st
  <2> QED
    BY <1>1, <2>1, <2>5, <2>6, OneChanges DEF Registered
<1>4. CASE /\ ~Events!WentAway(streams[s]) /\ ~Events!NoRoom(streams[s].kind)
           /\ Events!Becomes(Events!Notified(
                [streams EXCEPT ![s] = [streams[s] EXCEPT
                   !.pc = IF streams[s].kind \in {"companion", "dashboard"} THEN "attached" ELSE "open",
                   !.listening = (streams[s].kind = "settings")]], streams[s].kind = "settings"))
  <2> DEFINE q == [streams[s] EXCEPT
                     !.pc = IF streams[s].kind \in {"companion", "dashboard"} THEN "attached" ELSE "open",
                     !.listening = (streams[s].kind = "settings")]
             first == streams[s].kind = "settings"
  <2>1. /\ q \in StreamRecords /\ q.told = streams[s].told /\ q.kind = streams[s].kind /\ q.socket = streams[s].socket
        /\ q.pc = (IF streams[s].kind \in {"companion", "dashboard"} THEN "attached" ELSE "open")
        /\ q.listening = (streams[s].kind = "settings")
    BY <1>2 DEF StreamRecords, StreamSteps, Sockets
  <2>2. Events!Becomes(Events!Notified([streams EXCEPT ![s] = q], first)) /\ first \in BOOLEAN
    BY <1>4
  <2>3. streams[s].socket # "closed"
    BY <1>4 DEF Events!WentAway
  <2>4. totalConnections < SSE_MAX_TOTAL_CONNECTIONS
        /\ (streams[s].kind = "overlay" => poolCount < UNAUTH_OVERLAY_SSE_MAX_CONNECTIONS)
    <3>1. totalConnections \in Nat /\ poolCount \in Nat
      BY <1>2, AttachedAreFinite, FS_CardinalityType DEF ConnectionsInv
    <3> QED
      BY <1>4, <3>1, StreamsAssumption DEF Events!NoRoom
  <2> HIDE DEF q
  <2> QED
    BY <1>1, <2>1, <2>2, <2>3, <2>4, OneIsNoticed DEF Registered
<1> QED
  BY <1>3, <1>4 DEF Events!Attach

\* All streams of one kind are ended: their sockets close, and nothing else changes.
LEMMA KindIsEnded ==
  ASSUME EventsInv, NEW k \in {"companion", "dashboard"}, UNCHANGED <<totalConnections, poolCount>>,
         streams' = [s \in Streams |-> IF s \in Events!OfKind(streams, k) THEN Events!Ended(streams[s]) ELSE streams[s]]
  PROVE  /\ ConnectionsInv' /\ PagesInv' /\ NoneOpens /\ NoneTold
         /\ \A s \in Streams : ~(streams'[s].pc = "open" /\ streams'[s].socket = "up" /\ streams'[s].kind = k)
<1>1. ConnectionsInv /\ PagesInv /\ \A s \in Streams : streams[s] \in StreamRecords
  BY DEF EventsInv, ConnectionsInv
<1>2. ASSUME NEW s \in Streams
      PROVE  /\ streams'[s] \in StreamRecords /\ streams'[s].kind = streams[s].kind /\ streams'[s].pc = streams[s].pc
             /\ streams'[s].cred = streams[s].cred /\ streams'[s].told = streams[s].told
             /\ streams'[s].listening = streams[s].listening
             /\ \/ streams'[s].socket = streams[s].socket
                \/ streams[s].kind = k /\ streams[s].pc \in Registered /\ streams[s].socket = "up"
                     /\ streams'[s].socket = "closing"
             /\ streams[s].kind = k /\ streams[s].pc \in Registered => streams'[s].socket # "up"
  <2>1. CASE s \in Events!OfKind(streams, k)
    <3>1. streams'[s] = Events!Ended(streams[s]) /\ streams[s].kind = k /\ streams[s].pc \in Registered
      BY <2>1, AttachedAre
    <3> QED
      BY <1>1, <3>1 DEF Events!Ended, StreamRecords, StreamSteps, Sockets
  <2>2. CASE s \notin Events!OfKind(streams, k)
    <3>1. streams'[s] = streams[s] /\ ~(streams[s].kind = k /\ streams[s].pc \in Registered)
      BY <2>2, AttachedAre
    <3> QED
      BY <1>1, <3>1
  <2> QED
    BY <2>1, <2>2
<1>3. streams' \in [Streams -> StreamRecords]
  <2>1. streams' = [s \in Streams |-> streams'[s]]
    OBVIOUS
  <2> QED
    BY <1>2, <2>1
<1>4. ConnectionsInv'
  <2>1. \A s \in Streams : streams[s].pc \in {"attached", "open", "refused"} <=>
                              streams'[s].pc \in {"attached", "open", "refused"}
    BY <1>2
  <2>2. \A s \in Streams : streams[s].pc \in {"attached", "open", "refused"} =>
                              streams'[s].kind = streams[s].kind /\ streams'[s].socket # "closed"
    <3>1. \A s \in Streams : streams[s].pc \in {"attached", "open", "refused"} => streams[s].socket # "closed"
      BY <1>1 DEF ConnectionsInv
    <3> QED
      BY <1>2, <3>1
  <2> QED
    BY <1>1, <1>3, <2>1, <2>2, ConnectionsStay
<1>5. PagesInv'
  <2>1. ASSUME NEW s \in Streams, streams'[s].kind = "settings", streams'[s].pc \in Registered
        PROVE  /\ streams[s].kind = "settings" /\ streams[s].pc \in Registered
               /\ ~Events!Failing(streams'[s]) => ~Events!Failing(streams[s])
               /\ streams'[s].listening = streams[s].listening /\ streams'[s].told = streams[s].told
    BY <1>2, <2>1 DEF Events!Failing
  <2>2. \A s \in Streams : streams[s].pc \in Registered /\ streams[s].kind = "overlay"
                              <=> streams'[s].pc \in Registered /\ streams'[s].kind = "overlay"
    BY <1>2
  <2>3. ASSUME NEW s \in Streams, streams'[s].listening
        PROVE  streams'[s].pc \in Registered \/ (streams'[s].pc = "gone" /\ streams'[s].socket \in {"broken", "closing"})
    BY <1>1, <1>2, <2>3 DEF PagesInv
  <2> QED
    BY <1>1, <2>1, <2>2, <2>3, PagesStay
<1>6. NoneOpens
  BY <1>2 DEF NoneOpens
<1>7. NoneTold
  BY <1>2 DEF NoneTold
<1>8. \A s \in Streams : ~(streams'[s].pc = "open" /\ streams'[s].socket = "up" /\ streams'[s].kind = k)
  BY <1>2 DEF Registered
<1> QED
  BY <1>4, <1>5, <1>6, <1>7, <1>8

\* Nothing happens to the streams.
LEMMA StreamsStay ==
  ASSUME EventsInv, UNCHANGED <<streams, totalConnections, poolCount>>
  PROVE  /\ ConnectionsInv' /\ PagesInv' /\ NoneTold
         /\ UNCHANGED <<status, pushes>> => StatusInv'
<1>1. NoneTold
  BY DEF NoneTold
<1>2. ConnectionsInv'
  BY DEF EventsInv, ConnectionsInv, Events!Attached, Events!OfKind
<1>3. PagesInv'
  BY DEF EventsInv, PagesInv, OverlayNews, Events!Attached, Events!OfKind, Events!Failing
<1>4. UNCHANGED <<status, pushes>> => StatusInv'
  BY <1>1, StatusStays DEF EventsInv
<1> QED
  BY <1>1, <1>2, <1>3, <1>4

\* What CredentialInv asks of the streams, when they stay: a credential that was good is, or is excused.
LEMMA CredentialsOf ==
  ASSUME CredentialInv, UNCHANGED streams,
         token' \in [version : Nat, active : BOOLEAN], recentIssue' \in Nat,
         panelKey' \in [op : {"none", "issue", "revoke"}, pc : {"idle", "writes", "disconnects"}, version : Nat],
         disconnectDue' \in BOOLEAN, staleIssue' \in BOOLEAN, member' \in {"in", "removed", "out"},
         unheard \subseteq unheard',
         panelKey.pc = "disconnects" => panelKey'.pc = "disconnects",
         disconnectDue = TRUE => disconnectDue' = TRUE,
         \/ token' = token
         \/ panelKey'.pc = "disconnects" \/ disconnectDue' = TRUE \/ token.version \in unheard',
         \/ member' = member \/ member' # "out" \/ 0 \in unheard',
         Events!ShownKeyIsUsable'
  PROVE  CredentialInv'
<1>1. ASSUME NEW s \in Streams, streams[s].pc = "open", streams[s].socket = "up", streams[s].kind = "companion"
      PROVE  \/ token' = [version |-> streams[s].cred, active |-> TRUE]
             \/ panelKey'.pc = "disconnects" \/ disconnectDue' = TRUE \/ streams[s].cred \in unheard'
  <2>1. \/ token = [version |-> streams[s].cred, active |-> TRUE]
        \/ panelKey.pc = "disconnects" \/ disconnectDue = TRUE \/ streams[s].cred \in unheard
    BY <1>1 DEF CredentialInv
  <2>2. CASE token = [version |-> streams[s].cred, active |-> TRUE]
    <3>1. token.version = streams[s].cred
      BY <2>2
    <3> QED
      BY <2>2, <3>1
  <2> QED
    BY <2>1, <2>2
<1>2. ASSUME NEW s \in Streams, streams[s].pc = "open", streams[s].socket = "up", streams[s].kind = "dashboard"
      PROVE  member' # "out" \/ 0 \in unheard'
  <2>1. member # "out" \/ 0 \in unheard
    BY <1>2 DEF CredentialInv
  <2> QED
    BY <2>1
<1> QED
  BY <1>1, <1>2 DEF CredentialInv

LEMMA TokenFacts ==
  ASSUME NEW t \in [version : Nat, active : BOOLEAN]
  PROVE  /\ [version |-> t.version + 1, active |-> TRUE] \in [version : Nat, active : BOOLEAN]
         /\ [t EXCEPT !.active = FALSE] \in [version : Nat, active : BOOLEAN]
<1>1. t.version + 1 \in Nat
  OBVIOUS
<1> QED
  BY <1>1

LEMMA CredentialActionsKeep ==
  ASSUME EventsInv,
         \/ \E op \in {"issue", "revoke"} : Events!PanelAsks(op)
         \/ \E answered \in BOOLEAN : Events!PanelWrites(answered) \/ Events!RemoveMember(answered)
         \/ \E op \in {"exchange", "logout"}, answered \in BOOLEAN : Events!AppWrites(op, answered)
         \/ Events!PanelWriteFails \/ Events!DedupeWindowEnds
  PROVE  EventsInv' /\ NoneTold
<1>1. UNCHANGED <<streams, totalConnections, poolCount>> /\ UNCHANGED <<status, pushes>>
  BY DEF Events!PanelAsks, Events!PanelWrites, Events!RemoveMember, Events!AppWrites, Events!PanelWriteFails,
         Events!DedupeWindowEnds, Events!statusVars
<1>2. ConnectionsInv' /\ PagesInv' /\ NoneTold /\ StatusInv'
  BY <1>1, StreamsStay
<1>3. CredentialInv
  BY DEF EventsInv
<1>4. /\ token \in [version : Nat, active : BOOLEAN] /\ recentIssue \in Nat
      /\ panelKey \in [op : {"none", "issue", "revoke"}, pc : {"idle", "writes", "disconnects"}, version : Nat]
      /\ disconnectDue \in BOOLEAN /\ staleIssue \in BOOLEAN /\ member \in {"in", "removed", "out"}
      /\ Events!ShownKeyIsUsable
  BY <1>3 DEF CredentialInv
<1>5. ASSUME NEW op \in {"issue", "revoke"}, Events!PanelAsks(op) PROVE CredentialInv'
  <2>1. /\ panelKey = Events!IdleKey /\ panelKey' = [op |-> op, pc |-> "writes", version |-> 0]
        /\ UNCHANGED <<token, recentIssue, disconnectDue, member, unheard, staleIssue>>
    BY <1>5 DEF Events!PanelAsks
  <2>2. panelKey.pc = "idle" /\ panelKey'.pc = "writes"
        /\ panelKey' \in [op : {"none", "issue", "revoke"}, pc : {"idle", "writes", "disconnects"}, version : Nat]
    BY <2>1 DEF Events!IdleKey
  <2>3. Events!ShownKeyIsUsable'
    BY <1>4, <2>1, <2>2 DEF Events!ShownKeyIsUsable
  <2> QED
    BY <1>1, <1>3, <1>4, <2>1, <2>2, <2>3, CredentialsOf
<1>6. ASSUME NEW answered \in BOOLEAN, Events!PanelWrites(answered) PROVE CredentialInv'
  <2>1. /\ panelKey.pc = "writes" /\ UNCHANGED <<recentIssue, disconnectDue, member>>
        /\ staleIssue' = (staleIssue \/ (~answered /\ recentIssue # 0))
    BY <1>6 DEF Events!PanelWrites
  <2>2. token' \in [version : Nat, active : BOOLEAN]
    <3>1. \/ token' = [version |-> token.version + 1, active |-> TRUE]
          \/ token' = [token EXCEPT !.active = FALSE]
      BY <1>6 DEF Events!PanelWrites, Events!IssueToken
    <3>2. token \in [version : Nat, active : BOOLEAN]
      BY <1>4
    <3> QED
      BY <3>1, <3>2, TokenFacts
  <2>3. \/ panelKey' = [panelKey EXCEPT !.pc = "disconnects", !.version = token'.version] /\ UNCHANGED unheard
        \/ panelKey' = Events!IdleKey /\ unheard' = unheard \cup {token.version} /\ ~answered
    BY <1>6 DEF Events!PanelWrites
  <2>4. CASE panelKey' = [panelKey EXCEPT !.pc = "disconnects", !.version = token'.version] /\ UNCHANGED unheard
    <3>1. panelKey'.pc = "disconnects"
          /\ panelKey' \in [op : {"none", "issue", "revoke"}, pc : {"idle", "writes", "disconnects"}, version : Nat]
      BY <1>4, <2>2, <2>4
    <3>2. Events!ShownKeyIsUsable'
      BY <3>1 DEF Events!ShownKeyIsUsable
    <3> QED
      BY <1>1, <1>3, <1>4, <2>1, <2>2, <2>4, <3>1, <3>2, CredentialsOf
  <2>5. CASE panelKey' = Events!IdleKey /\ unheard' = unheard \cup {token.version} /\ ~answered
    <3>1. panelKey' \in [op : {"none", "issue", "revoke"}, pc : {"idle", "writes", "disconnects"}, version : Nat]
      BY <2>5 DEF Events!IdleKey
    <3>2. Events!ShownKeyIsUsable'
      BY <2>1, <2>5 DEF Events!ShownKeyIsUsable
    <3>3. panelKey.pc # "disconnects" /\ token.version \in unheard' /\ unheard \subseteq unheard'
      BY <2>1, <2>5
    <3> QED
      BY <1>1, <1>3, <1>4, <2>1, <2>2, <3>1, <3>2, <3>3, CredentialsOf
  <2> QED
    BY <2>3, <2>4, <2>5
<1>7. ASSUME NEW answered \in BOOLEAN, Events!RemoveMember(answered) PROVE CredentialInv'
  <2>1. /\ UNCHANGED <<token, recentIssue, panelKey, disconnectDue, staleIssue>>
        /\ \/ member' = "removed" /\ UNCHANGED unheard
           \/ member' = "out" /\ unheard' = unheard \cup {0}
    BY <1>7 DEF Events!RemoveMember
  <2>2. Events!ShownKeyIsUsable'
    BY <1>4, <2>1 DEF Events!ShownKeyIsUsable
  <2>3. /\ unheard \subseteq unheard' /\ member' \in {"in", "removed", "out"}
        /\ member' # "out" \/ 0 \in unheard'
    BY <2>1
  <2> QED
    BY <1>1, <1>3, <1>4, <2>1, <2>2, <2>3, CredentialsOf
<1>8. ASSUME NEW op \in {"exchange", "logout"}, NEW answered \in BOOLEAN, Events!AppWrites(op, answered)
      PROVE  CredentialInv'
  <2>1. /\ disconnectDue = FALSE /\ UNCHANGED <<recentIssue, panelKey, member>>
        /\ staleIssue' = (staleIssue \/ recentIssue # 0)
    BY <1>4, <1>8 DEF Events!AppWrites
  <2>2. token' \in [version : Nat, active : BOOLEAN]
    <3>1. \/ token' = [version |-> token.version + 1, active |-> TRUE]
          \/ token' = [token EXCEPT !.active = FALSE]
      BY <1>8 DEF Events!AppWrites, Events!IssueToken
    <3>2. token \in [version : Nat, active : BOOLEAN]
      BY <1>4
    <3> QED
      BY <3>1, <3>2, TokenFacts
  <2>3. \/ disconnectDue' = TRUE /\ UNCHANGED unheard
        \/ unheard' = unheard \cup {token.version} /\ UNCHANGED disconnectDue
    BY <1>8 DEF Events!AppWrites
  <2>4. Events!ShownKeyIsUsable'
    BY <2>1 DEF Events!ShownKeyIsUsable
  <2>5. /\ unheard \subseteq unheard' /\ disconnectDue' \in BOOLEAN
        /\ disconnectDue' = TRUE \/ token.version \in unheard'
    BY <1>4, <2>3
  <2> QED
    BY <1>1, <1>3, <1>4, <2>1, <2>2, <2>4, <2>5, CredentialsOf
<1>9. ASSUME Events!PanelWriteFails PROVE CredentialInv'
  <2>1. /\ panelKey.pc = "writes" /\ panelKey' = Events!IdleKey
        /\ UNCHANGED <<token, recentIssue, disconnectDue, member, unheard, staleIssue>>
    BY <1>9 DEF Events!PanelWriteFails
  <2>2. panelKey' \in [op : {"none", "issue", "revoke"}, pc : {"idle", "writes", "disconnects"}, version : Nat]
    BY <2>1 DEF Events!IdleKey
  <2>3. Events!ShownKeyIsUsable'
    BY <1>4, <2>1 DEF Events!ShownKeyIsUsable
  <2>4. panelKey.pc # "disconnects"
    BY <2>1
  <2> QED
    BY <1>1, <1>3, <1>4, <2>1, <2>2, <2>3, <2>4, CredentialsOf
<1>10. ASSUME Events!DedupeWindowEnds PROVE CredentialInv'
  <2>1. /\ recentIssue' = 0 /\ staleIssue' = FALSE
        /\ UNCHANGED <<token, panelKey, disconnectDue, member, unheard>>
    BY <1>10 DEF Events!DedupeWindowEnds
  <2>2. Events!ShownKeyIsUsable'
    BY <2>1 DEF Events!ShownKeyIsUsable
  <2> QED
    BY <1>1, <1>3, <1>4, <2>1, <2>2, CredentialsOf
<1>11. CredentialInv'
  BY <1>5, <1>6, <1>7, <1>8, <1>9, <1>10
<1> QED
  BY <1>2, <1>11 DEF EventsInv

\* Whoever disconnects a kind of stream leaves none of it open, so no credential of it need be good.
LEMMA DisconnectsKeep ==
  ASSUME EventsInv,
         Events!PanelDisconnects \/ Events!AppDisconnects \/ Events!disconnectGuildStatusConnectionsForMember
  PROVE  EventsInv' /\ NoneTold
<1>1. CredentialInv /\ StatusInv
  BY DEF EventsInv
<1>2. /\ token \in [version : Nat, active : BOOLEAN] /\ recentIssue \in Nat
      /\ panelKey \in [op : {"none", "issue", "revoke"}, pc : {"idle", "writes", "disconnects"}, version : Nat]
      /\ disconnectDue \in BOOLEAN /\ staleIssue \in BOOLEAN /\ member \in {"in", "removed", "out"}
      /\ Events!ShownKeyIsUsable
  BY <1>1 DEF CredentialInv
<1>3. UNCHANGED <<totalConnections, poolCount>> /\ UNCHANGED <<status, pushes>>
  BY DEF Events!PanelDisconnects, Events!AppDisconnects, Events!disconnectGuildStatusConnectionsForMember, Events!statusVars
<1>4. CASE Events!PanelDisconnects \/ Events!AppDisconnects
  <2>1. streams' = [s \in Streams |-> IF s \in Events!OfKind(streams, "companion") THEN Events!Ended(streams[s]) ELSE streams[s]]
    BY <1>4 DEF Events!PanelDisconnects, Events!AppDisconnects, Events!disconnectCompanionConnections
  <2>2. /\ ConnectionsInv' /\ PagesInv' /\ NoneOpens /\ NoneTold
        /\ \A s \in Streams : ~(streams'[s].pc = "open" /\ streams'[s].socket = "up" /\ streams'[s].kind = "companion")
    BY <1>3, <2>1, KindIsEnded
  <2>3. UNCHANGED <<token, member, unheard>>
    BY <1>4 DEF Events!PanelDisconnects, Events!AppDisconnects
  <2>4. ASSUME NEW s \in Streams, streams'[s].pc = "open", streams'[s].socket = "up", streams'[s].kind = "dashboard"
        PROVE  member # "out" \/ 0 \in unheard
    <3>1. \/ streams[s].pc = "open" /\ streams[s].socket = "up" /\ streams[s].kind = "dashboard"
          \/ Events!StillAllowed(streams'[s])
      BY <2>2, <2>4 DEF NoneOpens
    <3> QED
      BY <1>1, <2>4, <3>1 DEF CredentialInv, Events!StillAllowed
  <2>5. /\ recentIssue' \in Nat /\ disconnectDue' \in BOOLEAN /\ staleIssue' \in BOOLEAN
        /\ panelKey' \in [op : {"none", "issue", "revoke"}, pc : {"idle", "writes", "disconnects"}, version : Nat]
    <3>1. CASE Events!PanelDisconnects
      <4>1. /\ recentIssue' = (IF panelKey.op = "issue" THEN panelKey.version ELSE 0) /\ disconnectDue' = disconnectDue
            /\ staleIssue' = (panelKey.op = "issue" /\ token # [version |-> panelKey.version, active |-> TRUE])
            /\ panelKey' = [op |-> "none", pc |-> "idle", version |-> 0]
        BY <3>1 DEF Events!PanelDisconnects, Events!IssuedRecently, Events!IdleKey
      <4> QED
        BY <1>2, <4>1
    <3>2. CASE Events!AppDisconnects
      BY <1>2, <3>2 DEF Events!AppDisconnects
    <3> QED
      BY <1>4, <3>1, <3>2
  <2>6. Events!ShownKeyIsUsable'
    <3>1. CASE Events!PanelDisconnects
      <4>1. /\ recentIssue' = (IF panelKey.op = "issue" THEN panelKey.version ELSE 0) /\ token' = token
            /\ staleIssue' = (panelKey.op = "issue" /\ token # [version |-> panelKey.version, active |-> TRUE])
        BY <3>1 DEF Events!PanelDisconnects, Events!IssuedRecently
      <4> QED
        BY <4>1 DEF Events!ShownKeyIsUsable
    <3>2. CASE Events!AppDisconnects
      BY <1>2, <3>2 DEF Events!AppDisconnects, Events!ShownKeyIsUsable
    <3> QED
      BY <1>4, <3>1, <3>2
  <2>7. CredentialInv'
    BY <1>2, <2>2, <2>3, <2>4, <2>5, <2>6 DEF CredentialInv
  <2> QED
    BY <1>1, <1>3, <2>2, <2>7, StatusStays DEF EventsInv
<1>5. CASE Events!disconnectGuildStatusConnectionsForMember
  <2>1. /\ streams' = [s \in Streams |-> IF s \in Events!OfKind(streams, "dashboard") THEN Events!Ended(streams[s]) ELSE streams[s]]
        /\ UNCHANGED <<token, recentIssue, panelKey, disconnectDue, unheard, staleIssue>> /\ member' = "out"
    BY <1>5 DEF Events!disconnectGuildStatusConnectionsForMember
  <2>2. /\ ConnectionsInv' /\ PagesInv' /\ NoneOpens /\ NoneTold
        /\ \A s \in Streams : ~(streams'[s].pc = "open" /\ streams'[s].socket = "up" /\ streams'[s].kind = "dashboard")
    BY <1>3, <2>1, KindIsEnded
  <2>3. ASSUME NEW s \in Streams, streams'[s].pc = "open", streams'[s].socket = "up", streams'[s].kind = "companion"
        PROVE  \/ token = [version |-> streams'[s].cred, active |-> TRUE]
               \/ panelKey.pc = "disconnects" \/ disconnectDue = TRUE \/ streams'[s].cred \in unheard
    <3>1. \/ streams[s].pc = "open" /\ streams[s].socket = "up" /\ streams[s].kind = "companion"
               /\ streams'[s].cred = streams[s].cred
          \/ Events!StillAllowed(streams'[s])
      BY <2>2, <2>3 DEF NoneOpens
    <3> QED
      BY <1>1, <2>3, <3>1 DEF CredentialInv, Events!StillAllowed
  <2>4. Events!ShownKeyIsUsable'
    BY <1>2, <2>1 DEF Events!ShownKeyIsUsable
  <2>5. CredentialInv'
    BY <1>2, <2>1, <2>2, <2>3, <2>4 DEF CredentialInv
  <2> QED
    BY <1>1, <1>3, <2>2, <2>5, StatusStays DEF EventsInv
<1> QED
  BY <1>4, <1>5

LEMMA StatusActionsKeep ==
  ASSUME EventsInv, Events!StatusChanges \/ Events!PushStarts
  PROVE  EventsInv' /\ NoneTold
<1>1. /\ UNCHANGED <<streams, totalConnections, poolCount>>
      /\ UNCHANGED <<token, recentIssue, panelKey, disconnectDue, member, unheard, staleIssue>>
  BY DEF Events!StatusChanges, Events!PushStarts, Events!credentialVars
<1>2. ConnectionsInv' /\ PagesInv' /\ NoneTold
  BY <1>1, StreamsStay
<1>3. NoneOpens
  BY <1>1 DEF NoneOpens
<1>4. CredentialInv'
  BY <1>1, <1>3, CredentialsStay DEF EventsInv
<1>5. StatusInv /\ \A s \in Streams : streams[s].told \in Nat
  BY DEF EventsInv, ConnectionsInv, StreamRecords
<1>6. CASE Events!StatusChanges
  <2>1. status' = status + 1 /\ pushes' = [pushes EXCEPT !.waiting = @ + 1]
    BY <1>6 DEF Events!StatusChanges
  <2>2. /\ status' \in Nat /\ pushes' \in [waiting : Nat, reading : SUBSET Nat] /\ pushes'.reading = pushes.reading
        /\ status \in Nat
    BY <1>5, <2>1 DEF StatusInv
  <2>3. \A x \in Nat : x <= status => x <= status'
    BY <2>1, <2>2
  <2>4. \A x \in pushes.reading : x \in Nat
    BY <1>5 DEF StatusInv
  <2> HIDE <2>1
  <2>5. StatusInv'
    BY <1>1, <1>5, <2>2, <2>3, <2>4 DEF StatusInv
  <2> QED
    BY <1>2, <1>4, <2>5 DEF EventsInv
<1>7. CASE Events!PushStarts
  <2>1. /\ status' = status /\ pushes.waiting > 0 /\ pushes.reading = {}
        /\ pushes' = [waiting |-> pushes.waiting - 1, reading |-> pushes.reading \cup {status}]
    BY <1>7 DEF Events!PushStarts, Events!MayPush
  <2>2. /\ status \in Nat /\ pushes' \in [waiting : Nat, reading : SUBSET Nat] /\ pushes'.reading = {status}
    BY <1>5, <2>1 DEF StatusInv
  <2>3. \A s \in Streams : streams[s].kind = "dashboard" => streams[s].told <= status
    BY <1>5 DEF StatusInv
  <2>4. StatusInv'
    BY <1>1, <2>1, <2>2, <2>3 DEF StatusInv
  <2> QED
    BY <1>2, <1>4, <2>4 DEF EventsInv
<1> QED
  BY <1>6, <1>7

\* What a push of the status does to the stream of record r, if the dashboard is eligible
Pushed(r, snapshot) ==
  IF Events!Failing(r) THEN [r EXCEPT !.pc = "gone", !.socket = Events!Dropped(r)] ELSE [r EXCEPT !.told = snapshot]

LEMMA PushedFacts ==
  ASSUME NEW r \in StreamRecords, NEW snapshot \in Nat
  PROVE  /\ Pushed(r, snapshot) \in StreamRecords
         /\ Pushed(r, snapshot).kind = r.kind /\ Pushed(r, snapshot).cred = r.cred
         /\ Pushed(r, snapshot).listening = r.listening
         /\ Events!Failing(r) =>
              /\ Pushed(r, snapshot).pc = "gone" /\ Pushed(r, snapshot).told = r.told
              /\ Pushed(r, snapshot).socket \in {"broken", "closing"}
         /\ ~Events!Failing(r) =>
              /\ Pushed(r, snapshot).pc = r.pc /\ Pushed(r, snapshot).socket = r.socket
              /\ Pushed(r, snapshot).told = snapshot
BY DEF Pushed, Events!Failing, Events!Dropped, StreamRecords, StreamSteps, Sockets

\* A step after which a dashboard knows no less, and only one whose stream is verified and allowed knows more
ToldForward ==
  \A s \in Streams : streams[s].kind = "dashboard" /\ streams[s].pc \in Registered =>
    /\ streams'[s].told >= streams[s].told
    /\ streams'[s].told # streams[s].told /\ streams[s].socket = "up" => member # "out" \/ 0 \in unheard

LEMMA NoneToldIsForward == ASSUME EventsInv, NoneTold PROVE ToldForward
<1>1. \A s \in Streams : streams[s].told \in Nat
  BY DEF EventsInv, ConnectionsInv, StreamRecords
<1>2. ASSUME NEW s \in Streams, streams[s].kind = "dashboard", streams[s].pc \in Registered
      PROVE  streams'[s].told = streams[s].told /\ streams'[s].told >= streams[s].told
  BY <1>1, <1>2 DEF NoneTold
<1> QED
  BY <1>2 DEF ToldForward

LEMMA PushEndsKeeps ==
  ASSUME EventsInv, NEW snapshot, Events!PushEnds(snapshot)
  PROVE  EventsInv' /\ ToldForward
<1>1. /\ snapshot \in pushes.reading /\ pushes' = [pushes EXCEPT !.reading = @ \ {snapshot}] /\ status' = status
      /\ UNCHANGED <<token, recentIssue, panelKey, disconnectDue, member, unheard, staleIssue>>
  BY DEF Events!PushEnds, Events!credentialVars
<1>2. StatusInv /\ CredentialInv /\ PagesInv /\ ConnectionsInv
  BY DEF EventsInv
<1>3. /\ snapshot \in Nat /\ snapshot <= status /\ pushes'.reading = {} /\ pushes' \in [waiting : Nat, reading : SUBSET Nat]
      /\ status \in Nat
  BY <1>1, <1>2 DEF StatusInv
<1>4. /\ streams \in [Streams -> StreamRecords] /\ \A s \in Streams : streams[s] \in StreamRecords
  BY <1>2 DEF ConnectionsInv
<1>5. CASE UNCHANGED <<streams, totalConnections, poolCount>>
  <2>1. ConnectionsInv' /\ PagesInv' /\ NoneTold
    BY <1>5, StreamsStay
  <2>2. CredentialInv'
    <3>1. NoneOpens
      BY <1>5 DEF NoneOpens
    <3> QED
      BY <1>1, <1>2, <3>1, CredentialsStay
  <2>3. StatusInv'
    <3>1. \A s \in Streams : streams'[s].kind = "dashboard" => streams'[s].told <= status
      BY <1>2, <1>5 DEF StatusInv
    <3> QED
      BY <1>1, <1>3, <3>1 DEF StatusInv
  <2> QED
    BY <2>1, <2>2, <2>3, NoneToldIsForward DEF EventsInv
<1>6. CASE Events!Becomes([s \in Streams |->
             IF s \notin {t \in Events!OfKind(streams, "dashboard") : Events!isVerifiedConnection(streams[t])} THEN streams[s]
             ELSE IF Events!Failing(streams[s])
                  THEN [streams[s] EXCEPT !.pc = "gone", !.socket = Events!Dropped(streams[s])]
                  ELSE [streams[s] EXCEPT !.told = snapshot]])
  <2> DEFINE E == {t \in Events!OfKind(streams, "dashboard") : Events!isVerifiedConnection(streams[t])}
             st == [s \in Streams |-> IF s \notin E THEN streams[s] ELSE Pushed(streams[s], snapshot)]
  <2>1. Events!Becomes(st)
    BY <1>6 DEF Pushed
  <2>2. streams' = st
    BY <2>1 DEF Events!Becomes
  <2>3. E = {t \in Streams : streams[t].pc = "open" /\ streams[t].kind = "dashboard"}
    BY AttachedAre DEF Registered, Events!isVerifiedConnection
  <2>4. ASSUME NEW s \in Streams PROVE s \notin E => st[s] = streams[s]
    OBVIOUS
  <2>5. ASSUME NEW s \in Streams PROVE s \in E => st[s] = Pushed(streams[s], snapshot)
    OBVIOUS
  <2>6. st = [s \in Streams |-> st[s]]
    OBVIOUS
  <2> HIDE DEF E, st
  <2>7. ASSUME NEW s \in Streams
        PROVE  /\ st[s] \in StreamRecords /\ st[s].kind = streams[s].kind /\ st[s].cred = streams[s].cred
               /\ st[s].listening = streams[s].listening
               /\ \/ st[s] = streams[s]
                  \/ /\ streams[s].kind = "dashboard" /\ st[s].pc = "gone" /\ st[s].told = streams[s].told
                     /\ st[s].socket \in {"broken", "closing"}
                  \/ /\ streams[s].kind = "dashboard" /\ streams[s].pc = "open" /\ st[s].pc = "open"
                     /\ st[s].socket = streams[s].socket /\ st[s].told = snapshot
    <3>1. CASE s \notin E
      BY <1>4, <2>4, <3>1
    <3>2. CASE s \in E /\ Events!Failing(streams[s])
      BY <1>3, <1>4, <2>3, <2>5, <3>2, PushedFacts
    <3>3. CASE s \in E /\ ~Events!Failing(streams[s])
      <4>1. st[s] = Pushed(streams[s], snapshot) /\ streams[s].pc = "open" /\ streams[s].kind = "dashboard"
        BY <2>3, <2>5, <3>3
      <4> QED
        BY <1>3, <1>4, <3>3, <4>1, PushedFacts
    <3> QED
      BY <3>1, <3>2, <3>3
  <2>8. st \in [Streams -> StreamRecords]
    BY <2>6, <2>7
  <2>9. ConnectionsInv'
    <3>1. \A s \in Streams : st[s].kind = streams[s].kind
      BY <2>7
    <3>2. \A s \in Streams : st[s].pc \in {"attached", "open", "refused"} => st[s].socket # "closed"
      <4>1. \A s \in Streams : streams[s].pc \in {"attached", "open", "refused"} => streams[s].socket # "closed"
        BY <1>2 DEF ConnectionsInv
      <4> QED
        BY <2>7, <4>1
    <3>3. Events!Attached(st) \subseteq Events!Attached(streams)
      <4>1. \A s \in Streams : st[s].pc \in Registered => streams[s].pc \in Registered
        BY <2>7 DEF Registered
      <4> QED
        BY <4>1, AttachedAre
    <3> QED
      BY <1>2, <2>1, <2>8, <3>1, <3>2, <3>3, BecomesKeepsConnections
  <2>10. PagesInv'
    <3>1. ASSUME NEW s \in Streams, streams'[s].kind = "settings", streams'[s].pc \in Registered
          PROVE  /\ streams[s].kind = "settings" /\ streams[s].pc \in Registered
                 /\ ~Events!Failing(streams'[s]) => ~Events!Failing(streams[s])
                 /\ streams'[s].listening = streams[s].listening /\ streams'[s].told = streams[s].told
      BY <2>2, <2>7, <3>1
    <3>2. \A s \in Streams : streams[s].pc \in Registered /\ streams[s].kind = "overlay"
                                <=> streams'[s].pc \in Registered /\ streams'[s].kind = "overlay"
      BY <2>2, <2>7
    <3>3. ASSUME NEW s \in Streams, streams'[s].listening
          PROVE  streams'[s].pc \in Registered \/ (streams'[s].pc = "gone" /\ streams'[s].socket \in {"broken", "closing"})
      BY <1>2, <2>2, <2>7, <3>3 DEF PagesInv, Registered
    <3> QED
      BY <1>2, <3>1, <3>2, <3>3, PagesStay
  <2>11. CredentialInv'
    <3>1. NoneOpens
      BY <2>2, <2>7 DEF NoneOpens
    <3> QED
      BY <1>1, <1>2, <3>1, CredentialsStay
  <2>12. StatusInv'
    <3>1. ASSUME NEW s \in Streams, st[s].kind = "dashboard"
          PROVE  st[s].told <= status
      BY <1>2, <1>3, <2>7, <3>1 DEF StatusInv
    <3> QED
      BY <1>1, <1>3, <2>2, <3>1 DEF StatusInv
  <2>13. ToldForward
    <3>1. ASSUME NEW s \in Streams, streams[s].kind = "dashboard", streams[s].pc \in Registered
          PROVE  /\ st[s].told >= streams[s].told
                 /\ st[s].told # streams[s].told /\ streams[s].socket = "up" => member # "out" \/ 0 \in unheard
      <4>1. streams[s].told \in Nat /\ streams[s].told <= snapshot
        BY <1>1, <1>2, <1>4, <3>1 DEF StatusInv, StreamRecords
      <4>2. st[s].told = streams[s].told \/ (st[s].told = snapshot /\ streams[s].pc = "open")
        BY <2>7
      <4>3. streams[s].pc = "open" /\ streams[s].socket = "up" => member # "out" \/ 0 \in unheard
        BY <1>2, <3>1 DEF CredentialInv
      <4>4. st[s].told >= streams[s].told
        BY <1>3, <4>1, <4>2
      <4> QED
        BY <4>2, <4>3, <4>4
    <3> QED
      BY <2>2, <3>1 DEF ToldForward
  <2> QED
    BY <2>9, <2>10, <2>11, <2>12, <2>13 DEF EventsInv
<1> QED
  BY <1>5, <1>6 DEF Events!PushEnds

LEMMA EventsNextInv ==
  ASSUME EventsInv, [Events!StreamsNext]_(Events!streamVars)
  PROVE  EventsInv' /\ ToldForward
<1>1. ASSUME NEW s \in Streams, NEW k \in Events!Kinds, Events!Requested(s, k) PROVE EventsInv' /\ ToldForward
  BY <1>1, RequestedKeeps, NoneToldIsForward
<1>2. ASSUME NEW s \in Streams,
             Events!LookedUp(s) \/ Events!Attach(s) \/ Events!Rechecked(s) \/ Events!CloseEvent(s) \/ Events!PingFails(s)
      PROVE  EventsInv' /\ ToldForward
  BY <1>2, LookedUpKeeps, AttachKeeps, RecheckedKeeps, CloseEventKeeps, PingFailsKeeps, NoneToldIsForward
<1>3. ASSUME NEW s \in Streams, NEW to \in {"closing", "backlogged", "broken"}, Events!ClientChanges(s, to)
      PROVE  EventsInv' /\ ToldForward
  BY <1>3, ClientChangesKeeps, NoneToldIsForward
<1>4. ASSUME \/ \E op \in {"issue", "revoke"} : Events!PanelAsks(op)
             \/ \E answered \in BOOLEAN : Events!PanelWrites(answered) \/ Events!RemoveMember(answered)
             \/ \E op \in {"exchange", "logout"}, answered \in BOOLEAN : Events!AppWrites(op, answered)
             \/ Events!PanelWriteFails \/ Events!DedupeWindowEnds
      PROVE  EventsInv' /\ ToldForward
  BY <1>4, CredentialActionsKeep, NoneToldIsForward
<1>5. ASSUME Events!PanelDisconnects \/ Events!AppDisconnects \/ Events!disconnectGuildStatusConnectionsForMember
      PROVE  EventsInv' /\ ToldForward
  BY <1>5, DisconnectsKeep, NoneToldIsForward
<1>6. ASSUME Events!StatusChanges \/ Events!PushStarts PROVE EventsInv' /\ ToldForward
  BY <1>6, StatusActionsKeep, NoneToldIsForward
<1>7. ASSUME NEW snapshot, Events!PushEnds(snapshot) PROVE EventsInv' /\ ToldForward
  BY <1>7, PushEndsKeeps
<1>8. ASSUME UNCHANGED Events!streamVars PROVE EventsInv' /\ ToldForward
  <2>1. UNCHANGED <<streams, totalConnections, poolCount, token, recentIssue, panelKey, disconnectDue, member, unheard,
                    staleIssue, status, pushes>>
    BY <1>8 DEF Events!streamVars
  <2>2. ConnectionsInv' /\ PagesInv' /\ NoneTold /\ StatusInv'
    BY <2>1, StreamsStay
  <2>3. NoneOpens
    BY <2>1 DEF NoneOpens
  <2>4. CredentialInv'
    BY <2>1, <2>3, CredentialsStay DEF EventsInv
  <2> QED
    BY <2>2, <2>4, NoneToldIsForward DEF EventsInv
<1>9. CASE Events!StreamsNext
  BY <1>1, <1>2, <1>3, <1>4, <1>5, <1>6, <1>7, <1>9 DEF Events!StreamsNext
<1> QED
  BY <1>8, <1>9

LEMMA EventsInitInv == ASSUME Events!StreamsInit PROVE EventsInv
<1>1. /\ streams = [s \in Streams |-> Events!NoStream] /\ totalConnections = 0 /\ poolCount = 0
      /\ token = [version |-> 1, active |-> TRUE] /\ recentIssue = 0 /\ panelKey = Events!IdleKey /\ disconnectDue = FALSE
      /\ member = "in" /\ status = 0 /\ pushes = [waiting |-> 0, reading |-> {}] /\ unheard = {} /\ staleIssue = FALSE
  BY DEF Events!StreamsInit
<1>2. /\ Events!NoStream \in StreamRecords /\ Events!NoStream.pc = "none" /\ Events!NoStream.listening = FALSE
      /\ Events!NoStream.kind = "none"
  BY DEF Events!NoStream, StreamRecords, StreamSteps, Sockets
<1>3. streams \in [Streams -> StreamRecords]
      /\ \A s \in Streams : streams[s].pc = "none" /\ streams[s].listening = FALSE /\ streams[s].kind = "none"
  BY <1>1, <1>2
<1>4. Events!Attached(streams) = {} /\ Events!OfKind(streams, "overlay") = {}
  BY <1>3, AttachedAre DEF Registered
<1>5. ConnectionsInv
  BY <1>1, <1>3, <1>4, FS_EmptySet, StreamsAssumption DEF ConnectionsInv
<1>6. PagesInv
  BY <1>3 DEF PagesInv, Registered
<1>7. CredentialInv
  BY <1>1, <1>3 DEF CredentialInv, Events!IdleKey, Events!ShownKeyIsUsable
<1>8. StatusInv
  BY <1>1, <1>3 DEF StatusInv
<1> QED
  BY <1>5, <1>6, <1>7, <1>8 DEF EventsInv

LEMMA EventsTruth == ASSUME EventsInv PROVE Events!StreamsAreAccounted
<1>1. Events!ConnectionsAreCounted
  <2>1. \A s \in Events!Attached(streams) : streams[s].socket # "closed"
    BY DEF EventsInv, ConnectionsInv, Events!Attached
  <2> QED
    BY <2>1, StreamsCardinality DEF EventsInv, ConnectionsInv, Events!ConnectionsAreCounted
<1>2. Events!CredentialsHold
  BY AttachedAre DEF EventsInv, CredentialInv, Events!CredentialsHold
<1>3. Events!ShownKeyIsUsable
  BY DEF EventsInv, CredentialInv
<1>4. Events!PagesKnowTheOverlay
  BY AttachedAre DEF EventsInv, PagesInv, OverlayNews, Events!PagesKnowTheOverlay
<1> QED
  BY <1>1, <1>2, <1>3, <1>4 DEF Events!StreamsAreAccounted

LEMMA ForwardTruth ==
  ASSUME ToldForward
  PROVE  \A s \in Events!OfKind(streams, "dashboard") :
           /\ streams'[s].told >= streams[s].told
           /\ streams'[s].told # streams[s].told /\ streams[s].socket = "up" => member # "out" \/ 0 \in unheard
BY AttachedAre DEF ToldForward

-------------------------------------------------------------------------------
(* Bounds of the keys: the numbers of secrets and of upsets                *)

KeysBounded ==
  /\ keyVersion <= MaxKeys /\ recentRotation <= MaxKeys
  /\ guildMember \in [KeyGuilds -> BOOLEAN] /\ keyUpsets \in 0..MaxKeyUpsets

LEMMA KeysInitBounded == ASSUME Keys!KeysInit PROVE KeysBounded
<1>1. MaxKeys \in Nat /\ MaxKeyUpsets \in Nat
  BY KeysAssumption
<1>2. keyVersion = 0 /\ recentRotation = 0 /\ keyUpsets = 0
  BY DEF Keys!KeysInit
<1>3. guildMember \in [KeyGuilds -> BOOLEAN]
  BY DEF Keys!KeysInit
<1> QED
  BY <1>1, <1>2, <1>3 DEF KeysBounded

LEMMA KeysStayBounded == ASSUME KeysInv, KeysBounded, [Keys!KeysNext]_(Keys!keyVars) PROVE KeysBounded'
<1> USE DEF Keys!Upset, Keys!NoUpset
<1>1. MaxKeys \in Nat /\ MaxKeyUpsets \in Nat /\ keyVersion \in Nat /\ recentRotation \in Nat
  BY KeysAssumption DEF KeysInv, KeysTyped
<1>2. \/ keyVersion' = keyVersion /\ recentRotation' \in {recentRotation, 0}
      \/ keyVersion < MaxKeys /\ keyVersion' = keyVersion + 1 /\ recentRotation' \in {recentRotation, keyVersion + 1}
  <2>1. ASSUME NEW g, NEW initial, Keys!RequestKey(g, initial) PROVE UNCHANGED <<keyVersion, recentRotation>>
    BY <2>1 DEF Keys!RequestKey
  <2>2. ASSUME NEW form, Keys!RotateForm(form) PROVE UNCHANGED <<keyVersion, recentRotation>>
    BY <2>2 DEF Keys!RotateForm
  <2>3. ASSUME NEW a, Keys!createApiKey(a) PROVE keyVersion < MaxKeys /\ keyVersion' = keyVersion + 1 /\ UNCHANGED recentRotation
    BY <2>3 DEF Keys!createApiKey
  <2>4. ASSUME NEW a, Keys!rotateAndRemember(a)
        PROVE  keyVersion < MaxKeys /\ keyVersion' = keyVersion + 1 /\ recentRotation' \in {recentRotation, keyVersion + 1}
    BY <2>4 DEF Keys!rotateAndRemember, Keys!Remembered
  <2>5. ASSUME NEW a, Keys!requestGuildAccessForExistingKey(a) PROVE UNCHANGED <<keyVersion, recentRotation>>
    BY <2>5 DEF Keys!requestGuildAccessForExistingKey
  <2>6. Keys!StepFails \/ Keys!WindowEnds \/ Keys!KeysRestart => keyVersion' = keyVersion /\ recentRotation' \in {recentRotation, 0}
    BY DEF Keys!StepFails, Keys!WindowEnds, Keys!KeysRestart
  <2>7. ASSUME NEW g, Keys!revokeApiKey(g) \/ Keys!MembershipChanges(g) PROVE UNCHANGED <<keyVersion, recentRotation>>
    BY <2>7 DEF Keys!revokeApiKey, Keys!MembershipChanges
  <2>8. ASSUME NEW g, NEW verdict, Keys!Decide(g, verdict) PROVE UNCHANGED <<keyVersion, recentRotation>>
    BY <2>8 DEF Keys!Decide
  <2>9. UNCHANGED Keys!keyVars => UNCHANGED <<keyVersion, recentRotation>>
    BY DEF Keys!keyVars
  <2> QED
    BY <2>1, <2>2, <2>3, <2>4, <2>5, <2>6, <2>7, <2>8, <2>9 DEF Keys!KeysNext
<1>3. keyUpsets' = keyUpsets \/ (keyUpsets < MaxKeyUpsets /\ keyUpsets' = keyUpsets + 1)
  <2>1. ASSUME NEW g, NEW initial, Keys!RequestKey(g, initial) PROVE UNCHANGED keyUpsets
    BY <2>1 DEF Keys!RequestKey
  <2>2. ASSUME NEW form, Keys!RotateForm(form) PROVE UNCHANGED keyUpsets
    BY <2>2 DEF Keys!RotateForm
  <2>3. ASSUME NEW a, Keys!createApiKey(a) \/ Keys!rotateAndRemember(a) \/ Keys!requestGuildAccessForExistingKey(a)
        PROVE  Keys!Upset \/ Keys!NoUpset
    BY <2>3 DEF Keys!createApiKey, Keys!rotateAndRemember, Keys!requestGuildAccessForExistingKey
  <2>4. Keys!StepFails \/ Keys!WindowEnds \/ Keys!KeysRestart => Keys!Upset \/ Keys!NoUpset
    BY DEF Keys!StepFails, Keys!WindowEnds, Keys!KeysRestart
  <2>5. ASSUME NEW g, Keys!revokeApiKey(g) \/ Keys!MembershipChanges(g) PROVE UNCHANGED keyUpsets
    BY <2>5 DEF Keys!revokeApiKey, Keys!MembershipChanges
  <2>6. ASSUME NEW g, NEW verdict, Keys!Decide(g, verdict) PROVE UNCHANGED keyUpsets
    BY <2>6 DEF Keys!Decide
  <2>7. UNCHANGED Keys!keyVars => UNCHANGED keyUpsets
    BY DEF Keys!keyVars
  <2> QED
    BY <2>1, <2>2, <2>3, <2>4, <2>5, <2>6, <2>7 DEF Keys!KeysNext
<1>4. guildMember' \in [KeyGuilds -> BOOLEAN]
  <2>1. guildMember' = guildMember \/ \E g \in KeyGuilds : guildMember' = [guildMember EXCEPT ![g] = ~@]
    <3>1. ASSUME NEW g, NEW initial, Keys!RequestKey(g, initial) PROVE UNCHANGED guildMember
      BY <3>1 DEF Keys!RequestKey
    <3>2. ASSUME NEW form, Keys!RotateForm(form) PROVE UNCHANGED guildMember
      BY <3>2 DEF Keys!RotateForm
    <3>3. ASSUME NEW a, Keys!createApiKey(a) \/ Keys!rotateAndRemember(a) \/ Keys!requestGuildAccessForExistingKey(a)
          PROVE  UNCHANGED guildMember
      BY <3>3 DEF Keys!createApiKey, Keys!rotateAndRemember, Keys!requestGuildAccessForExistingKey
    <3>4. Keys!StepFails \/ Keys!WindowEnds \/ Keys!KeysRestart => UNCHANGED guildMember
      BY DEF Keys!StepFails, Keys!WindowEnds, Keys!KeysRestart
    <3>5. ASSUME NEW g, Keys!revokeApiKey(g) PROVE UNCHANGED guildMember
      BY <3>5 DEF Keys!revokeApiKey
    <3>6. ASSUME NEW g, Keys!MembershipChanges(g) PROVE guildMember' = [guildMember EXCEPT ![g] = ~@]
      BY <3>6 DEF Keys!MembershipChanges
    <3>7. ASSUME NEW g, NEW verdict, Keys!Decide(g, verdict) PROVE UNCHANGED guildMember
      BY <3>7 DEF Keys!Decide
    <3>8. UNCHANGED Keys!keyVars => UNCHANGED guildMember
      BY DEF Keys!keyVars
    <3> QED
      BY <3>1, <3>2, <3>3, <3>4, <3>5, <3>6, <3>7, <3>8 DEF Keys!KeysNext
  <2> QED
    BY <2>1 DEF KeysBounded
<1>5. keyVersion' <= MaxKeys /\ recentRotation' <= MaxKeys
  BY <1>1, <1>2 DEF KeysBounded
<1>6. keyUpsets' \in 0..MaxKeyUpsets
  BY <1>1, <1>3 DEF KeysBounded
<1> QED
  BY <1>4, <1>5, <1>6 DEF KeysBounded

LEMMA KeysAreTyped == ASSUME KeysInv, KeysBounded PROVE Keys!KeysTypeOK
<1>1. MaxKeys \in Nat /\ keyVersion \in 0..MaxKeys /\ recentRotation \in 0..MaxKeys
  BY KeysAssumption DEF KeysInv, KeysTyped, KeysBounded
<1>2. revokedVersion \in [KeyGuilds -> 0..MaxKeys]
  <2>1. revokedVersion \in [KeyGuilds -> Nat] /\ \A g \in KeyGuilds : revokedVersion[g] <= keyVersion
    BY DEF KeysInv, KeysTyped, RevokedInv
  <2> QED
    BY <1>1, <2>1
<1> QED
  BY <1>1, <1>2 DEF KeysInv, KeysTyped, KeysBounded, Keys!KeysTypeOK, Statuses, Requests

-------------------------------------------------------------------------------
(* Bounds of the members: what the forms and the registry hold             *)

MembersBounded == registry \subseteq Servers /\ missedReload \in BOOLEAN /\ memberUpsets \in 0..MaxMemberUpsets

LEMMA MembersInitBounded == ASSUME MembersStart PROVE MembersBounded
<1>1. registry \subseteq Servers
  BY DEF MembersStart, Guilds!Provisioned
<1>2. missedReload \in BOOLEAN /\ memberUpsets = 0 /\ MaxMemberUpsets \in Nat
  BY GuildsAssumption DEF MembersStart
<1> QED
  BY <1>1, <1>2 DEF MembersBounded

LEMMA MembersStayBounded ==
  ASSUME MembersInv, MembersBounded, [Guilds!MembersNext]_memberVars
  PROVE  MembersBounded'
<1> USE DEF Guilds!NoUpset
<1>1. /\ memberUpsets' = memberUpsets \/ Guilds!Upset
      /\ missedReload' \in {missedReload, FALSE} \/ missedReload' \in BOOLEAN
      /\ registry' = registry \/ \E m \in Mutations : registry' = mutation[m].read
  <2>1. ASSUME NEW m, NEW kind, NEW a, NEW t, NEW g, NEW l, Guilds!Submit(m, kind, a, t, g, l)
        PROVE  UNCHANGED <<memberUpsets, missedReload, registry>>
    BY <2>1 DEF Guilds!Submit
  <2>2. ASSUME NEW m, NEW p, NEW g, Guilds!JoinsServer(m, p, g) PROVE UNCHANGED <<memberUpsets, missedReload, registry>>
    BY <2>2 DEF Guilds!JoinsServer
  <2>3. ASSUME NEW m, Guilds!GivesUp(m) \/ Guilds!JoinGivesUp(m) PROVE Guilds!Upset /\ UNCHANGED <<missedReload, registry>>
    BY <2>3 DEF Guilds!GivesUp, Guilds!JoinGivesUp
  <2>4. ASSUME NEW m, Guilds!CheckAuth(m) \/ Guilds!ReloadReads(m) PROVE UNCHANGED <<memberUpsets, missedReload, registry>>
    BY <2>4 DEF Guilds!CheckAuth, Guilds!ReloadReads
  <2>5. ASSUME NEW m, Guilds!Write(m)
        PROVE  UNCHANGED <<memberUpsets, registry>> /\ missedReload' \in BOOLEAN
    <3>1. missedReload' = FALSE \/ missedReload' = (missedReload \/ Guilds!ServedSetMoves)
      BY <2>5, Zenon DEF Guilds!Write, Guilds!StartReload
    <3>2. missedReload' \in BOOLEAN
      BY <3>1, Zenon
    <3> QED
      BY <2>5, <3>2 DEF Guilds!Write
  <2>6. ASSUME NEW m, Guilds!ReloadFails(m) PROVE Guilds!Upset /\ UNCHANGED registry /\ missedReload' \in BOOLEAN
    <3>1. missedReload' = (missedReload \/ Guilds!IsNewestReload(mutation[m]))
      BY <2>6, Zenon DEF Guilds!ReloadFails
    <3>2. missedReload' \in BOOLEAN
      BY <3>1, Zenon
    <3> QED
      BY <2>6, <3>2 DEF Guilds!ReloadFails
  <2>7. ASSUME NEW m, Guilds!ReloadInstalls(m)
        PROVE  UNCHANGED <<memberUpsets, missedReload>> /\ registry' \in {registry, mutation[m].read}
    BY <2>7 DEF Guilds!ReloadInstalls
  <2>8. ASSUME NEW m, NEW committed, Guilds!WriteFails(m, committed)
        PROVE  Guilds!Upset /\ UNCHANGED registry /\ missedReload' \in BOOLEAN
    <3>1. missedReload' = (missedReload \/ Guilds!ServedSetMoves)
      BY <2>8, Zenon DEF Guilds!WriteFails
    <3>2. missedReload' \in BOOLEAN
      BY <3>1, Zenon
    <3> QED
      BY <2>8, <3>2 DEF Guilds!WriteFails
  <2>9. ASSUME NEW m, NEW committed, Guilds!JoinFails(m, committed) PROVE Guilds!Upset /\ UNCHANGED <<missedReload, registry>>
    BY <2>9 DEF Guilds!JoinFails
  <2>10. ASSUME NEW m, NEW ownerKnown, Guilds!upsertGuild(m, ownerKnown)
         PROVE  (UNCHANGED memberUpsets \/ Guilds!Upset) /\ UNCHANGED registry /\ missedReload' \in {missedReload, FALSE}
    BY <2>10 DEF Guilds!upsertGuild, Guilds!StartReload
  <2>11. ASSUME NEW m, NEW succeeds, Guilds!EditGlobals(m, succeeds)
         PROVE  (UNCHANGED memberUpsets \/ Guilds!Upset) /\ UNCHANGED <<missedReload, registry>>
    BY <2>11 DEF Guilds!EditGlobals
  <2>12. UNCHANGED memberVars => UNCHANGED <<memberUpsets, missedReload, registry>>
    BY DEF memberVars
  <2> QED
    BY <2>1, <2>2, <2>3, <2>4, <2>5, <2>6, <2>7, <2>8, <2>9, <2>10, <2>11, <2>12 DEF Guilds!MembersNext
<1>2. memberUpsets' \in 0..MaxMemberUpsets
  BY <1>1, GuildsAssumption DEF MembersBounded, Guilds!Upset
<1>3. registry' \subseteq Servers
  <2>1. \A m \in Mutations : mutation[m].read \subseteq Servers
    BY DEF MembersInv, MembersTyped, Forms
  <2> QED
    BY <1>1, <2>1 DEF MembersBounded
<1>4. missedReload' \in BOOLEAN
  BY <1>1 DEF MembersBounded
<1> QED
  BY <1>2, <1>3, <1>4 DEF MembersBounded

LEMMA MembersAreTyped == ASSUME MembersInv, MembersBounded PROVE Guilds!MembersTypeOK
BY DEF MembersInv, MembersTyped, MembersBounded, Guilds!MembersTypeOK, Tables, Forms

-------------------------------------------------------------------------------
(* Bounds of the passkeys: codes, attempts and counters                    *)

LastPossible == Cardinality(CodeRequests)
RowBounded == enrolmentCode.attempts <= CODE_MAX_ATTEMPTS
AskedBounded == \A q \in CodeRequests : codeRequest[q].code <= LastPossible
EnteredBounded == \A e \in Enrolments : enrolment[e].entered <= LastPossible
SignedBounded == \A s \in SignIns : signIn[s].counter <= MaxDeviceCounter
CountersBounded == \A e \in Enrolments : signCount[e] <= MaxDeviceCounter /\ deviceCounter[e] <= MaxDeviceCounter
PasskeyUpsetsBounded == passkeyUpsets \in 0..MaxPasskeyUpsets
PasskeysBounded ==
  RowBounded /\ AskedBounded /\ EnteredBounded /\ SignedBounded /\ CountersBounded /\ PasskeyUpsetsBounded

LEMMA PasskeysInitBounded == ASSUME Passes!PasskeysInit PROVE PasskeysBounded
<1>1. /\ LastPossible \in Nat /\ CODE_MAX_ATTEMPTS \in Nat /\ MaxDeviceCounter \in Nat /\ MaxPasskeyUpsets \in Nat
  BY CodesAre, PasskeysAssumption DEF LastPossible
<1>2. enrolmentCode.attempts = 0 /\ passkeyUpsets = 0
  BY DEF Passes!PasskeysInit, Passes!NoCode
<1>3. \A q \in CodeRequests : codeRequest[q].code = 0
  BY DEF Passes!PasskeysInit
<1>4. \A e \in Enrolments : enrolment[e].entered = 0
  BY DEF Passes!PasskeysInit
<1>5. \A s \in SignIns : signIn[s].counter = 0
  BY DEF Passes!PasskeysInit
<1>6. \A e \in Enrolments : signCount[e] = 0 /\ deviceCounter[e] = 0
  BY DEF Passes!PasskeysInit
<1> HIDE DEF LastPossible
<1> QED
  BY <1>1, <1>2, <1>3, <1>4, <1>5, <1>6
     DEF PasskeysBounded, RowBounded, AskedBounded, EnteredBounded, SignedBounded, CountersBounded, PasskeyUpsetsBounded

\* A step that changes a request's place only
LEMMA PlaceChanges ==
  /\ \A q \in CodeRequests : \A p :
       SentInv /\ AskedBounded /\ codeRequest' = [codeRequest EXCEPT ![q].pc = p] => AskedBounded'
  /\ \A e \in Enrolments : \A p :
       CodesInv /\ EnteredBounded /\ enrolment' = [enrolment EXCEPT ![e].pc = p] => EnteredBounded'
  /\ \A s \in SignIns : \A p :
       SignInInv /\ SignedBounded /\ signIn' = [signIn EXCEPT ![s].pc = p] => SignedBounded'
<1> USE DEF LastPossible
<1>1. ASSUME NEW q \in CodeRequests, NEW p, SentInv, AskedBounded, codeRequest' = [codeRequest EXCEPT ![q].pc = p]
      PROVE  AskedBounded'
  <2>1. \A r \in CodeRequests : codeRequest'[r].code = codeRequest[r].code
    BY <1>1 DEF SentInv
  <2> QED
    BY <1>1, <2>1 DEF AskedBounded
<1>2. ASSUME NEW e \in Enrolments, NEW p, CodesInv, EnteredBounded, enrolment' = [enrolment EXCEPT ![e].pc = p]
      PROVE  EnteredBounded'
  <2>1. \A r \in Enrolments : enrolment'[r].entered = enrolment[r].entered
    BY <1>2 DEF CodesInv, CodeTypes, EnrolmentRecords
  <2> QED
    BY <1>2, <2>1 DEF EnteredBounded
<1>3. ASSUME NEW s \in SignIns, NEW p, SignInInv, SignedBounded, signIn' = [signIn EXCEPT ![s].pc = p]
      PROVE  SignedBounded'
  <2>1. \A r \in SignIns : signIn'[r].counter = signIn[r].counter
    BY <1>3 DEF SignInInv
  <2> QED
    BY <1>3, <2>1 DEF SignedBounded
<1> QED
  BY <1>1, <1>2, <1>3

LEMMA CodeStepsStayBounded ==
  ASSUME PasskeysInv, SentInv', PasskeysBounded, NEW q \in CodeRequests,
         \/ Passes!RequestCode(q) \/ Passes!savePasskeyEnrollmentCode(q) \/ Passes!deletePasskeyEnrollmentCode(q)
         \/ \E sent \in BOOLEAN : Passes!SendCode(q, sent)
  PROVE  RowBounded' /\ AskedBounded'
<1>1. CODE_MAX_ATTEMPTS \in Nat /\ Passes!NoCode.attempts = 0 /\ LastPossible \in Nat
  BY PasskeysAssumption, CodesAre DEF Passes!NoCode, LastPossible
<1>2. SentInv /\ RowBounded /\ AskedBounded
  BY DEF PasskeysInv, PasskeysBounded
<1>3. CASE Passes!RequestCode(q)
  <2>1. \E p : codeRequest' = [codeRequest EXCEPT ![q].pc = p]
    BY <1>3 DEF Passes!RequestCode
  <2>2. enrolmentCode' \in {enrolmentCode, Passes!NoCode}
    BY <1>3 DEF Passes!RequestCode
  <2>3. AskedBounded'
    BY <1>2, <2>1, PlaceChanges
  <2> QED
    BY <1>1, <1>2, <2>2, <2>3 DEF RowBounded
<1>4. CASE Passes!deletePasskeyEnrollmentCode(q)
  <2>1. \E p : codeRequest' = [codeRequest EXCEPT ![q].pc = p]
    BY <1>4 DEF Passes!deletePasskeyEnrollmentCode
  <2>2. enrolmentCode' \in {enrolmentCode, Passes!NoCode}
    BY <1>4 DEF Passes!deletePasskeyEnrollmentCode
  <2>3. AskedBounded'
    BY <1>2, <2>1, PlaceChanges
  <2> QED
    BY <1>1, <1>2, <2>2, <2>3 DEF RowBounded
<1>5. ASSUME NEW sent \in BOOLEAN, Passes!SendCode(q, sent) PROVE RowBounded' /\ AskedBounded'
  <2>1. \E p : codeRequest' = [codeRequest EXCEPT ![q].pc = p]
    BY <1>5 DEF Passes!SendCode
  <2> QED
    BY <1>2, <1>5, <2>1, PlaceChanges DEF Passes!SendCode, RowBounded
<1>6. CASE Passes!savePasskeyEnrollmentCode(q)
  <2>1. CASE enrolmentCode.value # 0
    BY <1>2, <1>6, <2>1, PlaceChanges DEF Passes!savePasskeyEnrollmentCode, RowBounded
  <2>2. CASE enrolmentCode.value = 0
    <3>1. lastCode' <= LastPossible
      <4>1. IsFiniteSet(HadACode') /\ Cardinality(HadACode') <= Cardinality(CodeRequests)
        BY PasskeysAssumption, FS_Subset DEF HadACode
      <4>2. Cardinality(HadACode') \in Nat /\ Cardinality(CodeRequests) \in Nat
        BY <4>1, FS_CardinalityType, CodesAre
      <4> QED
        BY <4>1, <4>2 DEF SentInv, LastPossible
    <3>2. enrolmentCode' = [value |-> lastCode', attempts |-> 0, cooled |-> FALSE]
      BY <1>6, <2>2 DEF Passes!savePasskeyEnrollmentCode
    <3>3. codeRequest' = [codeRequest EXCEPT ![q] = [pc |-> "sends", code |-> lastCode']]
      BY <1>6, <2>2 DEF Passes!savePasskeyEnrollmentCode
    <3>4. \A r \in CodeRequests : codeRequest'[r].code \in {codeRequest[r].code, lastCode'}
      BY <1>2, <3>3 DEF SentInv
    <3>5. AskedBounded'
      BY <1>2, <3>1, <3>4 DEF AskedBounded, LastPossible
    <3> QED
      BY <1>1, <3>2, <3>5 DEF RowBounded
  <2> QED
    BY <2>1, <2>2
<1> QED
  BY <1>3, <1>4, <1>5, <1>6

LEMMA EnrolmentStepsStayBounded ==
  ASSUME PasskeysInv, PasskeysBounded, NEW e \in Enrolments,
         \/ \E c \in Passes!Codes \cup {0} : Passes!EnterCode(e, c)
         \/ Passes!consumePasskeyEnrollmentCode(e) \/ Passes!storeChallenge(e)
         \/ \E handle \in Enrolments : Passes!ListPasskeys(e, handle)
  PROVE  RowBounded' /\ EnteredBounded'
<1>1. CODE_MAX_ATTEMPTS \in Nat /\ Passes!NoCode.attempts = 0 /\ LastPossible \in Nat
  BY PasskeysAssumption, CodesAre DEF Passes!NoCode, LastPossible
<1>2. CodesInv /\ RowBounded /\ EnteredBounded
  BY DEF PasskeysInv, PasskeysBounded
<1>3. enrolment \in [Enrolments -> EnrolmentRecords]
  BY <1>2 DEF CodesInv, CodeTypes
<1>4. ASSUME NEW c \in Passes!Codes \cup {0}, Passes!EnterCode(e, c) PROVE RowBounded' /\ EnteredBounded'
  <2>1. c <= LastPossible
    BY <1>1, CodesAre DEF LastPossible
  <2>2. CASE enrolmentCode.value # 0 /\ enrolmentCode.attempts < CODE_MAX_ATTEMPTS
    <3>1. enrolmentCode' = [enrolmentCode EXCEPT !.attempts = @ + 1]
      BY <1>4, <2>2 DEF Passes!EnterCode, Passes!OneAttemptSpent
    <3>2. enrolmentCode'.attempts = enrolmentCode.attempts + 1 /\ enrolmentCode.attempts \in Nat
      BY <1>2, <3>1 DEF CodesInv, CodeTypes
    <3>3. RowBounded'
      BY <1>1, <2>2, <3>2 DEF RowBounded
    <3>4. enrolment' = [enrolment EXCEPT ![e] = [@ EXCEPT !.pc = "compares", !.entered = c, !.paid = enrolmentCode.value]]
      BY <1>4, <2>2 DEF Passes!EnterCode
    <3>5. \A r \in Enrolments : enrolment'[r].entered \in {enrolment[r].entered, c}
      BY <1>3, <3>4 DEF EnrolmentRecords
    <3>6. EnteredBounded'
      BY <1>2, <2>1, <3>5 DEF EnteredBounded, LastPossible
    <3> QED
      BY <3>3, <3>6
  <2>3. CASE ~(enrolmentCode.value # 0 /\ enrolmentCode.attempts < CODE_MAX_ATTEMPTS)
    BY <1>2, <1>4, <2>3, PlaceChanges DEF Passes!EnterCode, RowBounded
  <2> QED
    BY <2>2, <2>3
<1>5. CASE Passes!consumePasskeyEnrollmentCode(e)
  <2>1. \E p : enrolment' = [enrolment EXCEPT ![e].pc = p]
    BY <1>5 DEF Passes!consumePasskeyEnrollmentCode
  <2>2. enrolmentCode' \in {enrolmentCode, Passes!NoCode}
    BY <1>5 DEF Passes!consumePasskeyEnrollmentCode
  <2> QED
    <3>1. EnteredBounded'
      BY <1>2, <2>1, PlaceChanges
    <3> QED
      BY <1>1, <1>2, <2>2, <3>1 DEF RowBounded
<1>6. CASE Passes!storeChallenge(e)
  <2>1. EnteredBounded'
    BY <1>2, <1>6, PlaceChanges DEF Passes!storeChallenge
  <2> QED
    BY <1>2, <1>6, <2>1 DEF Passes!storeChallenge, RowBounded
<1>7. ASSUME NEW handle \in Enrolments, Passes!ListPasskeys(e, handle) PROVE RowBounded' /\ EnteredBounded'
  <2>1. PICK row \in {[enrolment[e] EXCEPT !.pc = "stores", !.handle = handle], [enrolment[e] EXCEPT !.pc = "done"]} :
          enrolment' = [enrolment EXCEPT ![e] = row]
    BY <1>7 DEF Passes!ListPasskeys
  <2>2. \A r \in Enrolments : enrolment'[r].entered = enrolment[r].entered
    <3>1. enrolment[e] \in EnrolmentRecords
      BY <1>3
    <3>2. row.entered = enrolment[e].entered
      BY <2>1, <3>1 DEF EnrolmentRecords
    <3> QED
      BY <1>3, <2>1, <3>2
  <2>3. EnteredBounded'
    BY <1>2, <2>2 DEF EnteredBounded, LastPossible
  <2>4. UNCHANGED enrolmentCode
    BY <1>7 DEF Passes!ListPasskeys
  <2> QED
    BY <1>2, <2>3, <2>4 DEF RowBounded
<1> QED
  BY <1>4, <1>5, <1>6, <1>7

LEMMA CountersStayBounded ==
  ASSUME PasskeysInv, PasskeysBounded,
         \/ \E s \in SignIns, e \in Enrolments : Passes!findPasskey(s, e)
         \/ \E s \in SignIns, answered \in BOOLEAN : Passes!recordPasskeyUse(s, answered)
         \/ \E v \in Verifications : Passes!insertPasskey(v)
         \/ \E e \in Enrolments : Passes!deletePasskey(e)
  PROVE  SignedBounded' /\ CountersBounded'
<1>1. MaxDeviceCounter \in Nat
  BY PasskeysAssumption
<1>2. SignInInv /\ SignedBounded /\ CountersBounded
  BY DEF PasskeysInv, PasskeysBounded
<1>3. /\ signIn \in [SignIns -> [pc : {"idle", "records", "in", "refused"}, passkey : Enrolments \cup {0}, counter : Nat]]
      /\ signCount \in [Enrolments -> Nat] /\ deviceCounter \in [Enrolments -> Nat]
  BY <1>2 DEF SignInInv
<1>4. ASSUME NEW s \in SignIns, NEW e \in Enrolments, Passes!findPasskey(s, e) PROVE SignedBounded' /\ CountersBounded'
  <2>1. /\ deviceCounter[e] < MaxDeviceCounter /\ deviceCounter' = [deviceCounter EXCEPT ![e] = @ + 1]
        /\ UNCHANGED signCount
        /\ signIn' = [signIn EXCEPT ![s] = [pc |-> "records", passkey |-> e, counter |-> deviceCounter'[e]]]
    BY <1>4 DEF Passes!findPasskey
  <2>2. deviceCounter'[e] <= MaxDeviceCounter /\ \A d \in Enrolments \ {e} : deviceCounter'[d] = deviceCounter[d]
    BY <1>1, <1>3, <2>1
  <2>3. \A r \in SignIns : signIn'[r].counter \in {signIn[r].counter, deviceCounter'[e]}
    BY <1>3, <2>1
  <2> QED
    BY <1>2, <2>1, <2>2, <2>3 DEF SignedBounded, CountersBounded
<1>5. ASSUME NEW s \in SignIns, NEW answered \in BOOLEAN, Passes!recordPasskeyUse(s, answered)
      PROVE  SignedBounded' /\ CountersBounded'
  <2>1. \E p : signIn' = [signIn EXCEPT ![s].pc = p]
    BY <1>5 DEF Passes!recordPasskeyUse
  <2>2. SignedBounded'
    BY <1>2, <2>1, PlaceChanges
  <2>3. UNCHANGED deviceCounter /\ signCount' \in {signCount, [signCount EXCEPT ![signIn[s].passkey] = signIn[s].counter]}
    BY <1>5 DEF Passes!recordPasskeyUse
  <2>4. \A d \in Enrolments : signCount'[d] \in {signCount[d], signIn[s].counter}
    BY <1>3, <2>3
  <2> QED
    BY <1>2, <2>2, <2>3, <2>4 DEF SignedBounded, CountersBounded
<1>6. ASSUME NEW e, UNCHANGED <<signIn, deviceCounter>>, signCount' \in {signCount, [signCount EXCEPT ![e] = 0]}
      PROVE  SignedBounded' /\ CountersBounded'
  <2>1. \A d \in Enrolments : signCount'[d] \in {signCount[d], 0}
    BY <1>3, <1>6
  <2> QED
    BY <1>1, <1>2, <1>6, <2>1 DEF SignedBounded, CountersBounded
<1>7. ASSUME NEW v \in Verifications, Passes!insertPasskey(v) PROVE SignedBounded' /\ CountersBounded'
  BY <1>6, <1>7 DEF Passes!insertPasskey
<1>8. ASSUME NEW e \in Enrolments, Passes!deletePasskey(e) PROVE SignedBounded' /\ CountersBounded'
  BY <1>6, <1>8 DEF Passes!deletePasskey
<1> QED
  BY <1>4, <1>5, <1>7, <1>8

LEMMA UpsetsStayBounded == ASSUME PasskeyUpsetsBounded, [Passes!PasskeysNext]_(Passes!passkeyVars) PROVE PasskeyUpsetsBounded'
<1>1. Passes!NoUpset \/ Passes!Upset
  <2>1. ASSUME NEW q, Passes!RequestCode(q) \/ Passes!savePasskeyEnrollmentCode(q) \/ Passes!deletePasskeyEnrollmentCode(q)
        PROVE  Passes!NoUpset
    BY <2>1 DEF Passes!RequestCode, Passes!savePasskeyEnrollmentCode, Passes!deletePasskeyEnrollmentCode
  <2>2. ASSUME NEW q, NEW sent, Passes!SendCode(q, sent) PROVE Passes!NoUpset \/ Passes!Upset
    BY <2>2 DEF Passes!SendCode
  <2>3. ASSUME NEW e, NEW c, Passes!EnterCode(e, c) PROVE Passes!NoUpset
    BY <2>3 DEF Passes!EnterCode
  <2>4. ASSUME NEW e, Passes!consumePasskeyEnrollmentCode(e) \/ Passes!storeChallenge(e) \/ Passes!deletePasskey(e)
        PROVE  Passes!NoUpset
    BY <2>4 DEF Passes!consumePasskeyEnrollmentCode, Passes!storeChallenge, Passes!deletePasskey
  <2>5. ASSUME NEW e, NEW handle, Passes!ListPasskeys(e, handle) PROVE Passes!NoUpset
    BY <2>5 DEF Passes!ListPasskeys
  <2>6. ASSUME NEW v, NEW e, NEW answered, Passes!TakeChallenge(v, e, answered) PROVE Passes!NoUpset \/ Passes!Upset
    BY <2>6 DEF Passes!TakeChallenge
  <2>7. ASSUME NEW s, NEW e, Passes!findPasskey(s, e) PROVE Passes!NoUpset
    BY <2>7 DEF Passes!findPasskey
  <2>8. ASSUME NEW v, Passes!insertPasskey(v) PROVE Passes!NoUpset
    BY <2>8 DEF Passes!insertPasskey
  <2>9. ASSUME NEW s, NEW answered, Passes!recordPasskeyUse(s, answered) PROVE Passes!NoUpset \/ Passes!Upset
    BY <2>9 DEF Passes!recordPasskeyUse
  <2>10. Passes!CodeAges => Passes!NoUpset
    BY DEF Passes!CodeAges
  <2>11. Passes!RequestFails => Passes!Upset
    BY DEF Passes!RequestFails
  <2>12. UNCHANGED Passes!passkeyVars => Passes!NoUpset
    BY DEF Passes!passkeyVars, Passes!NoUpset
  <2> QED
    BY <2>1, <2>2, <2>3, <2>4, <2>5, <2>6, <2>7, <2>8, <2>9, <2>10, <2>11, <2>12 DEF Passes!PasskeysNext
<1> QED
  BY <1>1, PasskeysAssumption DEF Passes!NoUpset, Passes!Upset, PasskeyUpsetsBounded

LEMMA PasskeysStayBounded ==
  ASSUME PasskeysInv, PasskeysInv', PasskeysBounded, [Passes!PasskeysNext]_(Passes!passkeyVars)
  PROVE  PasskeysBounded'
<1> DEFINE Rest == RowBounded /\ AskedBounded /\ EnteredBounded /\ SignedBounded /\ CountersBounded
<1>1. Rest /\ SentInv /\ SentInv' /\ CodesInv /\ SignInInv
  BY DEF PasskeysBounded, PasskeysInv
<1>2. /\ UNCHANGED enrolmentCode => RowBounded'
      /\ UNCHANGED codeRequest => AskedBounded'
      /\ UNCHANGED enrolment => EnteredBounded'
      /\ UNCHANGED signIn => SignedBounded'
      /\ UNCHANGED <<signCount, deviceCounter>> => CountersBounded'
  BY <1>1 DEF RowBounded, AskedBounded, EnteredBounded, SignedBounded, CountersBounded, LastPossible
<1>3. ASSUME NEW q \in CodeRequests,
             \/ Passes!RequestCode(q) \/ Passes!savePasskeyEnrollmentCode(q) \/ Passes!deletePasskeyEnrollmentCode(q)
             \/ \E sent \in BOOLEAN : Passes!SendCode(q, sent)
      PROVE  Rest'
  <2>1. UNCHANGED <<enrolment, signIn, signCount, deviceCounter>>
    BY <1>3 DEF Passes!RequestCode, Passes!savePasskeyEnrollmentCode, Passes!deletePasskeyEnrollmentCode, Passes!SendCode
  <2> QED
    BY <1>1, <1>2, <1>3, <2>1, CodeStepsStayBounded
<1>4. ASSUME NEW e \in Enrolments,
             \/ \E c \in Passes!Codes \cup {0} : Passes!EnterCode(e, c)
             \/ Passes!consumePasskeyEnrollmentCode(e) \/ Passes!storeChallenge(e)
             \/ \E handle \in Enrolments : Passes!ListPasskeys(e, handle)
      PROVE  Rest'
  <2>1. UNCHANGED <<codeRequest, signIn, signCount, deviceCounter>>
    BY <1>4 DEF Passes!EnterCode, Passes!consumePasskeyEnrollmentCode, Passes!storeChallenge, Passes!ListPasskeys
  <2> QED
    BY <1>1, <1>2, <1>4, <2>1, EnrolmentStepsStayBounded
<1>5. ASSUME \/ \E s \in SignIns, e \in Enrolments : Passes!findPasskey(s, e)
             \/ \E s \in SignIns, answered \in BOOLEAN : Passes!recordPasskeyUse(s, answered)
             \/ \E v \in Verifications : Passes!insertPasskey(v)
             \/ \E e \in Enrolments : Passes!deletePasskey(e)
      PROVE  Rest'
  <2>1. UNCHANGED <<enrolmentCode, codeRequest, enrolment>>
    BY <1>5 DEF Passes!findPasskey, Passes!recordPasskeyUse, Passes!insertPasskey, Passes!deletePasskey
  <2> QED
    BY <1>1, <1>2, <1>5, <2>1, CountersStayBounded
<1>6. ASSUME NEW v, NEW e, NEW answered, Passes!TakeChallenge(v, e, answered) PROVE Rest'
  BY <1>2, <1>6 DEF Passes!TakeChallenge
<1>7. ASSUME Passes!CodeAges PROVE Rest'
  <2>1. enrolmentCode' \in {Passes!NoCode, [enrolmentCode EXCEPT !.cooled = TRUE]}
    BY <1>7 DEF Passes!CodeAges
  <2>2. enrolmentCode'.attempts \in {0, enrolmentCode.attempts}
    BY <1>1, <2>1 DEF Passes!NoCode, CodesInv, CodeTypes
  <2>3. RowBounded'
    BY <1>1, <2>2, PasskeysAssumption DEF RowBounded
  <2> QED
    <3>1. UNCHANGED codeRequest /\ UNCHANGED enrolment /\ UNCHANGED signIn /\ UNCHANGED <<signCount, deviceCounter>>
      BY <1>7 DEF Passes!CodeAges
    <3> QED
      BY <1>2, <2>3, <3>1
<1>8. ASSUME Passes!RequestFails PROVE Rest'
  <2>1. AskedBounded'
    BY <1>1, <1>2, <1>8, PlaceChanges DEF Passes!RequestFails
  <2>2. EnteredBounded'
    BY <1>1, <1>2, <1>8, PlaceChanges DEF Passes!RequestFails
  <2> QED
    <3>1. UNCHANGED enrolmentCode /\ UNCHANGED signIn /\ UNCHANGED <<signCount, deviceCounter>>
      BY <1>8 DEF Passes!RequestFails
    <3> QED
      BY <1>2, <2>1, <2>2, <3>1
<1>9. ASSUME UNCHANGED Passes!passkeyVars PROVE Rest'
  <2>1. /\ UNCHANGED enrolmentCode /\ UNCHANGED codeRequest /\ UNCHANGED enrolment /\ UNCHANGED signIn
        /\ UNCHANGED <<signCount, deviceCounter>>
    BY <1>9 DEF Passes!passkeyVars
  <2> QED
    BY <1>2, <2>1
<1>10. Rest'
  <2> HIDE DEF Rest
  <2>1. CASE Passes!PasskeysNext
    BY <1>3, <1>4, <1>5, <1>6, <1>7, <1>8, <2>1, Zenon DEF Passes!PasskeysNext
  <2> QED
    BY <1>9, <2>1
<1> QED
  BY <1>10, UpsetsStayBounded DEF PasskeysBounded

LEMMA PasskeysAreTyped == ASSUME PasskeysInv, PasskeysBounded PROVE Passes!PasskeysTypeOK
<1> DEFINE Code == Passes!Codes \cup {0}
<1>1. /\ CODE_MAX_ATTEMPTS \in Nat /\ MaxDeviceCounter \in Nat /\ LastPossible \in Nat
      /\ Code = 0..LastPossible /\ LastPossible = Cardinality(CodeRequests)
  BY PasskeysAssumption, CodesAre DEF LastPossible
<1>2. lastCode \in 0..LastPossible /\ delivered \subseteq Passes!Codes
  <2>1. SentInv
    BY DEF PasskeysInv
  <2>2. lastCode \in Nat /\ lastCode <= LastPossible
    BY <2>1, CodesExist DEF LastPossible
  <2> QED
    BY <1>1, <2>1, <2>2, CodesAre DEF SentInv
<1> HIDE DEF Code
<1>3. enrolmentCode \in [value : Code, attempts : 0..CODE_MAX_ATTEMPTS, cooled : BOOLEAN]
  <2>1. enrolmentCode \in [value : Nat, attempts : Nat, cooled : BOOLEAN] /\ enrolmentCode.value <= lastCode
    BY DEF PasskeysInv, CodesInv, CodeTypes, CodesAreNew
  <2>2. enrolmentCode.value \in Code /\ enrolmentCode.attempts \in 0..CODE_MAX_ATTEMPTS
    BY <1>1, <1>2, <2>1 DEF PasskeysBounded, RowBounded
  <2> QED
    BY <2>1, <2>2
<1>4. codeRequest \in [CodeRequests -> [pc : CodeSteps, code : Code]]
  <2>1. codeRequest \in [CodeRequests -> [pc : CodeSteps, code : Nat]]
    BY DEF PasskeysInv, SentInv
  <2>2. ASSUME NEW q \in CodeRequests PROVE codeRequest[q].code \in Code
    BY <1>1, <2>1 DEF PasskeysBounded, AskedBounded
  <2> QED
    BY <2>1, <2>2
<1>5. enrolment \in [Enrolments -> [pc : {"idle", "compares", "lists", "stores", "offered", "done"},
                                    entered : Code, paid : Code, handle : Enrolments \cup {0}]]
  <2>1. enrolment \in [Enrolments -> EnrolmentRecords]
    BY DEF PasskeysInv, CodesInv, CodeTypes
  <2>2. ASSUME NEW e \in Enrolments PROVE enrolment[e].entered \in Code /\ enrolment[e].paid \in Code
    <3>1. enrolment[e].entered \in Nat /\ enrolment[e].paid \in Nat
      BY <2>1 DEF EnrolmentRecords
    <3>2. enrolment[e].entered <= LastPossible /\ enrolment[e].paid <= lastCode
      BY DEF PasskeysInv, CodesInv, CodesAreNew, PasskeysBounded, EnteredBounded
    <3> QED
      BY <1>1, <1>2, <3>1, <3>2
  <2> QED
    BY <2>1, <2>2 DEF EnrolmentRecords
<1>6. signIn \in [SignIns -> [pc : {"idle", "records", "in", "refused"}, passkey : Enrolments \cup {0},
                              counter : 0..MaxDeviceCounter]]
  <2>1. signIn \in [SignIns -> [pc : {"idle", "records", "in", "refused"}, passkey : Enrolments \cup {0}, counter : Nat]]
    BY DEF PasskeysInv, SignInInv
  <2>2. ASSUME NEW s \in SignIns PROVE signIn[s].counter \in 0..MaxDeviceCounter
    BY <1>1, <2>1 DEF PasskeysBounded, SignedBounded
  <2> QED
    BY <2>1, <2>2
<1>7. signCount \in [Enrolments -> 0..MaxDeviceCounter] /\ deviceCounter \in [Enrolments -> 0..MaxDeviceCounter]
  <2>1. signCount \in [Enrolments -> Nat] /\ deviceCounter \in [Enrolments -> Nat]
    BY DEF PasskeysInv, SignInInv
  <2>2. \A e \in Enrolments : signCount[e] <= MaxDeviceCounter /\ deviceCounter[e] <= MaxDeviceCounter
    BY DEF PasskeysBounded, CountersBounded
  <2> QED
    BY <1>1, <2>1, <2>2
<1>8. lastCode \in 0..Passes!Cardinality(CodeRequests)
  BY <1>1, <1>2, PasskeysCardinality
<1> QED
  BY <1>2, <1>3, <1>4, <1>5, <1>6, <1>7, <1>8
     DEF PasskeysInv, CodesInv, CodeTypes, ChallengeInv, RoomInv, PasskeysBounded, PasskeyUpsetsBounded,
         Passes!PasskeysTypeOK, CodeSteps, Code

-------------------------------------------------------------------------------
(* Bounds of the event streams: credentials, statuses and upsets           *)

InBounds(r) == r.cred <= MaxTokens /\ r.told <= MaxStatus + 2
StreamsBounded == \A s \in Streams : InBounds(streams[s])

\* The version a mutation of the panel's has issued exists.
CredentialsBounded ==
  /\ 1 <= token.version /\ token.version <= MaxTokens /\ recentIssue <= MaxTokens /\ panelKey.version <= MaxTokens
  /\ unheard \subseteq 0..MaxTokens

\* No more pushes wait than there were changes of the status.
PushesBounded == status <= MaxStatus /\ pushes.waiting <= status
StreamUpsetsBounded == streamUpsets \in 0..MaxStreamUpsets
EventsBounded == StreamsBounded /\ CredentialsBounded /\ PushesBounded /\ StreamUpsetsBounded

LEMMA EventBounds == MaxTokens \in Nat \ {0} /\ MaxStatus \in Nat /\ MaxStreamUpsets \in Nat
BY StreamsAssumption

LEMMA EventsInitBounded == ASSUME Events!StreamsInit PROVE EventsBounded
<1>1. StreamsBounded
  <2>1. Events!NoStream.cred = 0 /\ Events!NoStream.told = 0
    BY DEF Events!NoStream
  <2>2. \A s \in Streams : streams[s] = Events!NoStream
    BY DEF Events!StreamsInit
  <2> QED
    BY <2>1, <2>2, EventBounds DEF StreamsBounded, InBounds
<1>2. CredentialsBounded
  BY EventBounds DEF Events!StreamsInit, Events!IdleKey, CredentialsBounded
<1>3. PushesBounded /\ StreamUpsetsBounded
  BY EventBounds DEF Events!StreamsInit, PushesBounded, StreamUpsetsBounded
<1> QED
  BY <1>1, <1>2, <1>3 DEF EventsBounded

LEMMA EventUpsetsStayBounded ==
  ASSUME StreamUpsetsBounded, [Events!StreamsNext]_(Events!streamVars) PROVE StreamUpsetsBounded'
<1>1. Events!NoUpset \/ Events!Upset
  <2>1. ASSUME NEW s, NEW k, Events!Requested(s, k) PROVE Events!NoUpset
    BY <2>1 DEF Events!Requested
  <2>2. ASSUME NEW s, Events!LookedUp(s) \/ Events!Rechecked(s) PROVE Events!NoUpset \/ Events!Upset
    BY <2>2 DEF Events!LookedUp, Events!Rechecked
  <2>3. ASSUME NEW s, Events!Attach(s) \/ Events!CloseEvent(s) \/ Events!PingFails(s) PROVE Events!NoUpset
    BY <2>3 DEF Events!Attach, Events!CloseEvent, Events!PingFails
  <2>4. ASSUME NEW s, NEW to, Events!ClientChanges(s, to) PROVE Events!NoUpset \/ Events!Upset
    BY <2>4 DEF Events!ClientChanges
  <2>5. ASSUME NEW op, Events!PanelAsks(op) PROVE Events!NoUpset
    BY <2>5 DEF Events!PanelAsks
  <2>6. ASSUME NEW answered, Events!PanelWrites(answered) \/ Events!RemoveMember(answered)
        PROVE  Events!NoUpset \/ Events!Upset
    BY <2>6 DEF Events!PanelWrites, Events!RemoveMember
  <2>7. ASSUME NEW op, NEW answered, Events!AppWrites(op, answered) PROVE Events!NoUpset \/ Events!Upset
    BY <2>7 DEF Events!AppWrites
  <2>8. Events!PanelWriteFails => Events!Upset
    BY DEF Events!PanelWriteFails
  <2>9. Events!PanelDisconnects \/ Events!DedupeWindowEnds \/ Events!AppDisconnects => Events!NoUpset
    BY DEF Events!PanelDisconnects, Events!DedupeWindowEnds, Events!AppDisconnects
  <2>10. Events!disconnectGuildStatusConnectionsForMember \/ Events!StatusChanges \/ Events!PushStarts => Events!NoUpset
    BY DEF Events!disconnectGuildStatusConnectionsForMember, Events!StatusChanges, Events!PushStarts
  <2>11. ASSUME NEW snapshot, Events!PushEnds(snapshot) PROVE Events!NoUpset \/ Events!Upset
    BY <2>11 DEF Events!PushEnds
  <2>12. UNCHANGED Events!streamVars => Events!NoUpset
    BY DEF Events!streamVars, Events!NoUpset
  <2> QED
    BY <2>1, <2>2, <2>3, <2>4, <2>5, <2>6, <2>7, <2>8, <2>9, <2>10, <2>11, <2>12 DEF Events!StreamsNext
<1> QED
  BY <1>1, EventBounds DEF Events!NoUpset, Events!Upset, StreamUpsetsBounded

\* What a step does to the streams: one changes, or pages are told, or streams are ended.
LEMMA ChangedInBounds ==
  ASSUME NEW st \in [Streams -> StreamRecords], \A s \in Streams : InBounds(st[s]),
         NEW x \in Streams, NEW q, InBounds(q)
  PROVE  \A s \in Streams : InBounds([st EXCEPT ![x] = q][s])
<1>1. \A s \in Streams : [st EXCEPT ![x] = q][s] \in {st[s], q}
  OBVIOUS
<1> QED
  BY <1>1

LEMMA NotifiedInBounds ==
  ASSUME NEW st \in [Streams -> StreamRecords], \A s \in Streams : InBounds(st[s]), NEW first \in BOOLEAN
  PROVE  \A s \in Streams : InBounds(Events!Notified(st, first)[s])
<1> SUFFICES ASSUME NEW s \in Streams PROVE InBounds(Events!Notified(st, first)[s])
  OBVIOUS
<1>1. st[s] \in StreamRecords /\ InBounds(st[s]) /\ OverlayNews(st) \in {1, 2}
  BY DEF OverlayNews
<1>2. Events!Notified(st, first)[s] \in {st[s], ToldRecord(st[s], OverlayNews(st))}
  BY NotifiedIs
<1>3. InBounds(ToldRecord(st[s], OverlayNews(st)))
  BY <1>1, EventBounds DEF ToldRecord, InBounds, StreamRecords
<1> QED
  BY <1>1, <1>2, <1>3

LEMMA EndedInBounds ==
  ASSUME NEW r \in StreamRecords, InBounds(r)
  PROVE  /\ InBounds(Events!Ended(r)) /\ Events!Ended(r) \in StreamRecords
         /\ \A pc : InBounds([r EXCEPT !.pc = pc]) /\ InBounds([Events!Ended(r) EXCEPT !.pc = pc])
         /\ \A to : InBounds([r EXCEPT !.socket = to])
         /\ \A pc, to : InBounds([r EXCEPT !.pc = pc, !.socket = to])
         /\ \A pc, is : InBounds([r EXCEPT !.pc = pc, !.listening = is])
         /\ \A pc, to, is : InBounds([r EXCEPT !.pc = pc, !.socket = to, !.listening = is])
<1>1. Events!Ended(r) \in StreamRecords
  BY DEF Events!Ended, StreamRecords, Sockets
<1>2. Events!Ended(r).cred = r.cred /\ Events!Ended(r).told = r.told
  BY DEF Events!Ended, StreamRecords
<1> QED
  BY <1>1, <1>2 DEF InBounds, StreamRecords

LEMMA SingleStepsInBounds ==
  ASSUME EventsInv, EventsBounded, NEW s \in Streams,
         \/ \E k \in Events!Kinds : Events!Requested(s, k)
         \/ Events!LookedUp(s) \/ Events!Rechecked(s)
         \/ \E to \in {"closing", "backlogged", "broken"} : Events!ClientChanges(s, to)
  PROVE  StreamsBounded'
<1>1. streams \in [Streams -> StreamRecords] /\ \A x \in Streams : InBounds(streams[x])
  BY DEF EventsInv, ConnectionsInv, EventsBounded, StreamsBounded
<1>2. streams[s] \in StreamRecords /\ InBounds(streams[s])
  BY <1>1
<1>3. \E q : streams' = [streams EXCEPT ![s] = q] /\ InBounds(q)
  <2>1. ASSUME NEW k \in Events!Kinds, Events!Requested(s, k) PROVE \E q : streams' = [streams EXCEPT ![s] = q] /\ InBounds(q)
    <3>1. PICK v \in IF k = "companion" THEN 1..token.version ELSE {0} :
            streams' = [streams EXCEPT ![s] = [Events!NoStream EXCEPT !.kind = k, !.pc = "looking", !.cred = v]]
      BY <2>1 DEF Events!Requested
    <3>2. v <= MaxTokens
      BY EventBounds DEF EventsInv, CredentialInv, EventsBounded, CredentialsBounded
    <3>3. InBounds([Events!NoStream EXCEPT !.kind = k, !.pc = "looking", !.cred = v])
      BY <3>2, EventBounds DEF InBounds, Events!NoStream
    <3> QED
      BY <3>1, <3>3
  <2>2. CASE Events!LookedUp(s)
    <3>1. \E pc : streams' = [streams EXCEPT ![s].pc = pc]
      BY <2>2 DEF Events!LookedUp
    <3>2. \E pc : streams' = [streams EXCEPT ![s] = [streams[s] EXCEPT !.pc = pc]]
      BY <3>1
    <3> QED
      BY <1>2, <3>2, EndedInBounds
  <2>3. CASE Events!Rechecked(s)
    <3>1. \E pc : \/ streams' = [streams EXCEPT ![s] = [streams[s] EXCEPT !.pc = pc]]
                  \/ streams' = [streams EXCEPT ![s] = [Events!Ended(streams[s]) EXCEPT !.pc = pc]]
      BY <2>3 DEF Events!Rechecked
    <3> QED
      BY <1>2, <3>1, EndedInBounds
  <2>4. ASSUME NEW to, Events!ClientChanges(s, to) PROVE \E q : streams' = [streams EXCEPT ![s] = q] /\ InBounds(q)
    <3>1. streams' = [streams EXCEPT ![s] = [streams[s] EXCEPT !.socket = to]]
      BY <2>4 DEF Events!ClientChanges
    <3> QED
      BY <1>2, <3>1, EndedInBounds
  <2> QED
    BY <2>1, <2>2, <2>3, <2>4
<1>4. PICK q : streams' = [streams EXCEPT ![s] = q] /\ InBounds(q)
  BY <1>3
<1>5. \A x \in Streams : InBounds([streams EXCEPT ![s] = q][x])
  BY <1>1, <1>4, ChangedInBounds
<1>6. \A x \in Streams : InBounds(streams'[x])
  BY <1>4, <1>5
<1> QED
  BY <1>6 DEF StreamsBounded, InBounds
LEMMA NotifyingStepsInBounds ==
  ASSUME EventsInv, EventsBounded, NEW s \in Streams, Events!Attach(s) \/ Events!CloseEvent(s) \/ Events!PingFails(s)
  PROVE  StreamsBounded'
<1>1. streams \in [Streams -> StreamRecords] /\ \A x \in Streams : InBounds(streams[x])
  BY DEF EventsInv, ConnectionsInv, EventsBounded, StreamsBounded
<1>2. streams[s] \in StreamRecords /\ InBounds(streams[s])
  BY <1>1
<1>3. ASSUME NEW q \in StreamRecords, InBounds(q), NEW first \in BOOLEAN,
             streams' = Events!Notified([streams EXCEPT ![s] = q], first) \/ streams' = [streams EXCEPT ![s] = q]
      PROVE  StreamsBounded'
  <2>1. [streams EXCEPT ![s] = q] \in [Streams -> StreamRecords]
    BY <1>1
  <2>2. \A x \in Streams : InBounds([streams EXCEPT ![s] = q][x])
    BY <1>1, <1>3, ChangedInBounds
  <2>3. \A x \in Streams : InBounds(Events!Notified([streams EXCEPT ![s] = q], first)[x])
    BY <2>1, <2>2, NotifiedInBounds
  <2>4. \A x \in Streams : InBounds(streams'[x])
    BY <1>3, <2>2, <2>3
  <2> QED
    BY <2>4 DEF StreamsBounded, InBounds
<1>4. CASE Events!Attach(s)
  <2>1. \/ streams' = [streams EXCEPT ![s] = [streams[s] EXCEPT !.pc = "gone"]]
        \/ \E pc \in {"attached", "open"}, is \in BOOLEAN, first \in BOOLEAN :
             streams' = Events!Notified([streams EXCEPT ![s] = [streams[s] EXCEPT !.pc = pc, !.listening = is]], first)
    BY <1>4 DEF Events!Attach, Events!Becomes
  <2>2. [streams[s] EXCEPT !.pc = "gone"] \in StreamRecords
    BY <1>2 DEF StreamRecords, StreamSteps
  <2>3. \A pc \in {"attached", "open"}, is \in BOOLEAN : [streams[s] EXCEPT !.pc = pc, !.listening = is] \in StreamRecords
    BY <1>2 DEF StreamRecords, StreamSteps
  <2>4. InBounds([streams[s] EXCEPT !.pc = "gone"])
    BY <1>2, EndedInBounds
  <2>5. \A pc, is : InBounds([streams[s] EXCEPT !.pc = pc, !.listening = is])
    BY <1>2, EndedInBounds
  <2> QED
    BY <1>3, <2>1, <2>2, <2>3, <2>4, <2>5
<1>5. CASE Events!CloseEvent(s)
  <2>1. \E pc \in {"gone", streams[s].pc} :
          streams' = Events!Notified([streams EXCEPT ![s] = [streams[s] EXCEPT !.pc = pc, !.socket = "closed", !.listening = FALSE]], FALSE)
    BY <1>5 DEF Events!CloseEvent, Events!Becomes
  <2>2. \A pc \in {"gone", streams[s].pc} : [streams[s] EXCEPT !.pc = pc, !.socket = "closed", !.listening = FALSE] \in StreamRecords
    BY <1>2 DEF StreamRecords, StreamSteps, Sockets
  <2>3. \A pc : InBounds([streams[s] EXCEPT !.pc = pc, !.socket = "closed", !.listening = FALSE])
    BY <1>2, EndedInBounds
  <2> QED
    BY <1>3, <2>1, <2>2, <2>3
<1>6. CASE Events!PingFails(s)
  <2>1. streams' = Events!Notified([streams EXCEPT ![s].pc = "gone", ![s].socket = Events!Dropped(streams[s])], FALSE)
    BY <1>6 DEF Events!PingFails, Events!Becomes
  <2>2. [streams EXCEPT ![s].pc = "gone", ![s].socket = Events!Dropped(streams[s])]
          = [streams EXCEPT ![s] = [streams[s] EXCEPT !.pc = "gone", !.socket = Events!Dropped(streams[s])]]
    BY <1>1
  <2>3. Events!Dropped(streams[s]) \in Sockets
    BY <1>2 DEF Events!Dropped, StreamRecords, Sockets
  <2>4. [streams[s] EXCEPT !.pc = "gone", !.socket = Events!Dropped(streams[s])] \in StreamRecords
    BY <1>2, <2>3 DEF StreamRecords, StreamSteps
  <2>5. InBounds([streams[s] EXCEPT !.pc = "gone", !.socket = Events!Dropped(streams[s])])
    BY <1>2, EndedInBounds
  <2> QED
    BY <1>3, <2>1, <2>2, <2>4, <2>5
<1> QED
  BY <1>4, <1>5, <1>6

LEMMA DisconnectsInBounds ==
  ASSUME EventsInv, EventsBounded,
         Events!PanelDisconnects \/ Events!AppDisconnects \/ Events!disconnectGuildStatusConnectionsForMember
  PROVE  StreamsBounded'
<1>1. streams \in [Streams -> StreamRecords] /\ \A x \in Streams : InBounds(streams[x])
  BY DEF EventsInv, ConnectionsInv, EventsBounded, StreamsBounded
<1>2. \E k : streams' = [s \in Streams |-> IF s \in Events!OfKind(streams, k) THEN Events!Ended(streams[s]) ELSE streams[s]]
  BY DEF Events!PanelDisconnects, Events!AppDisconnects, Events!disconnectGuildStatusConnectionsForMember,
         Events!disconnectCompanionConnections
<1>3. \A s \in Streams : streams'[s] \in {streams[s], Events!Ended(streams[s])}
  BY <1>2
<1>4. \A s \in Streams : InBounds(streams'[s])
  BY <1>1, <1>3, EndedInBounds
<1> QED
  BY <1>4 DEF StreamsBounded, InBounds

LEMMA PushesInBounds ==
  ASSUME EventsInv, EventsBounded, NEW snapshot, Events!PushEnds(snapshot)
  PROVE  StreamsBounded' /\ PushesBounded'
<1>1. streams \in [Streams -> StreamRecords] /\ \A x \in Streams : InBounds(streams[x])
  BY DEF EventsInv, ConnectionsInv, EventsBounded, StreamsBounded
<1>2. PushesBounded /\ pushes \in [waiting : Nat, reading : SUBSET Nat] /\ status \in Nat
  BY DEF EventsInv, StatusInv, EventsBounded
<1>3. snapshot \in pushes.reading
  BY DEF Events!PushEnds
<1>4. snapshot <= MaxStatus + 2
  BY <1>2, <1>3, EventBounds DEF EventsInv, StatusInv, PushesBounded
<1>5. PushesBounded'
  BY <1>2 DEF PushesBounded, Events!PushEnds
<1>6. \A s \in Streams :
        streams'[s] \in {streams[s], [streams[s] EXCEPT !.pc = "gone", !.socket = Events!Dropped(streams[s])],
                         [streams[s] EXCEPT !.told = snapshot]}
  BY DEF Events!PushEnds, Events!Becomes
<1>7. \A s \in Streams : InBounds([streams[s] EXCEPT !.told = snapshot])
  BY <1>1, <1>4 DEF InBounds, StreamRecords
<1>8. \A s \in Streams : InBounds([streams[s] EXCEPT !.pc = "gone", !.socket = Events!Dropped(streams[s])])
  BY <1>1, EndedInBounds
<1>9. \A s \in Streams : InBounds(streams'[s])
  BY <1>1, <1>6, <1>7, <1>8
<1> QED
  BY <1>5, <1>9 DEF StreamsBounded, InBounds

LEMMA WritesInBounds ==
  ASSUME EventsInv, EventsBounded,
         \/ \E op \in {"issue", "revoke"} : Events!PanelAsks(op)
         \/ \E answered \in BOOLEAN : Events!PanelWrites(answered) \/ Events!RemoveMember(answered)
         \/ \E op \in {"exchange", "logout"}, answered \in BOOLEAN : Events!AppWrites(op, answered)
         \/ Events!PanelWriteFails \/ Events!DedupeWindowEnds
         \/ Events!PanelDisconnects \/ Events!AppDisconnects \/ Events!disconnectGuildStatusConnectionsForMember
  PROVE  CredentialsBounded'
<1>1. /\ token \in [version : Nat, active : BOOLEAN] /\ recentIssue \in Nat
      /\ panelKey \in [op : {"none", "issue", "revoke"}, pc : {"idle", "writes", "disconnects"}, version : Nat]
  BY DEF EventsInv, CredentialInv
<1>2. CredentialsBounded /\ MaxTokens \in Nat \ {0}
  BY EventBounds DEF EventsBounded
<1>3. Events!IdleKey.version = 0
  BY DEF Events!IdleKey
<1>4. ASSUME NEW op, Events!PanelAsks(op) PROVE CredentialsBounded'
  <2>1. panelKey'.version = 0 /\ UNCHANGED <<token, recentIssue, unheard>>
    BY <1>4 DEF Events!PanelAsks
  <2> QED
    BY <1>2, <2>1 DEF CredentialsBounded
<1>5. Events!IssueToken => /\ token'.version \in Nat /\ 1 <= token'.version /\ token'.version <= MaxTokens
  BY <1>1, <1>2 DEF Events!IssueToken
<1>6. token' = [token EXCEPT !.active = FALSE] => token'.version = token.version
  BY <1>1
<1>7. ASSUME NEW answered \in BOOLEAN, Events!PanelWrites(answered) PROVE CredentialsBounded'
  <2>1. 1 <= token'.version /\ token'.version <= MaxTokens /\ token'.version \in Nat
    BY <1>1, <1>2, <1>5, <1>6, <1>7 DEF Events!PanelWrites, CredentialsBounded
  <2>2. panelKey' \in {[panelKey EXCEPT !.pc = "disconnects", !.version = token'.version], Events!IdleKey}
    BY <1>7 DEF Events!PanelWrites
  <2>3. panelKey'.version \in {token'.version, 0}
    BY <1>1, <1>3, <2>2
  <2>4. UNCHANGED recentIssue /\ unheard' \subseteq unheard \cup {token.version}
    BY <1>7 DEF Events!PanelWrites
  <2> QED
    BY <1>1, <1>2, <2>1, <2>3, <2>4 DEF CredentialsBounded
<1>8. ASSUME NEW answered \in BOOLEAN, Events!RemoveMember(answered) PROVE CredentialsBounded'
  <2>1. UNCHANGED <<token, recentIssue, panelKey>> /\ unheard' \subseteq unheard \cup {0}
    BY <1>8 DEF Events!RemoveMember
  <2> QED
    BY <1>2, <2>1 DEF CredentialsBounded
<1>9. ASSUME NEW op, NEW answered \in BOOLEAN, Events!AppWrites(op, answered) PROVE CredentialsBounded'
  <2>1. 1 <= token'.version /\ token'.version <= MaxTokens
    BY <1>1, <1>2, <1>5, <1>6, <1>9 DEF Events!AppWrites, CredentialsBounded
  <2>2. UNCHANGED <<recentIssue, panelKey>> /\ unheard' \subseteq unheard \cup {token.version}
    BY <1>9 DEF Events!AppWrites
  <2> QED
    BY <1>1, <1>2, <2>1, <2>2 DEF CredentialsBounded
<1>10. CASE Events!PanelWriteFails
  BY <1>2, <1>3, <1>10 DEF Events!PanelWriteFails, CredentialsBounded
<1>11. CASE Events!DedupeWindowEnds
  BY <1>2, <1>11 DEF Events!DedupeWindowEnds, CredentialsBounded
<1>12. CASE Events!PanelDisconnects
  <2>1. recentIssue' \in {panelKey.version, 0} /\ panelKey' = Events!IdleKey /\ UNCHANGED <<token, unheard>>
    BY <1>12 DEF Events!PanelDisconnects, Events!IssuedRecently
  <2> QED
    BY <1>2, <1>3, <2>1 DEF CredentialsBounded
<1>13. CASE Events!AppDisconnects \/ Events!disconnectGuildStatusConnectionsForMember
  BY <1>2, <1>13 DEF Events!AppDisconnects, Events!disconnectGuildStatusConnectionsForMember, CredentialsBounded
<1> QED
  BY <1>4, <1>7, <1>8, <1>9, <1>10, <1>11, <1>12, <1>13

LEMMA EventsStayBounded ==
  ASSUME EventsInv, EventsBounded, [Events!StreamsNext]_(Events!streamVars)
  PROVE  EventsBounded'
<1> DEFINE Rest == StreamsBounded /\ CredentialsBounded /\ PushesBounded
<1>1. Rest
  BY DEF EventsBounded
<1>2. /\ UNCHANGED streams => StreamsBounded'
      /\ UNCHANGED <<token, recentIssue, panelKey, unheard>> => CredentialsBounded'
      /\ UNCHANGED <<status, pushes>> => PushesBounded'
  BY <1>1 DEF StreamsBounded, InBounds, CredentialsBounded, PushesBounded
<1>3. ASSUME NEW s \in Streams,
             \/ \E k \in Events!Kinds : Events!Requested(s, k)
             \/ Events!LookedUp(s) \/ Events!Rechecked(s)
             \/ \E to \in {"closing", "backlogged", "broken"} : Events!ClientChanges(s, to)
      PROVE  Rest'
  <2>1. UNCHANGED <<token, recentIssue, panelKey, unheard>> /\ UNCHANGED <<status, pushes>>
    BY <1>3 DEF Events!Requested, Events!LookedUp, Events!Rechecked, Events!ClientChanges, Events!credentialVars, Events!statusVars
  <2> QED
    BY <1>2, <1>3, <2>1, SingleStepsInBounds
<1>4. ASSUME NEW s \in Streams, Events!Attach(s) \/ Events!CloseEvent(s) \/ Events!PingFails(s) PROVE Rest'
  <2>1. UNCHANGED <<token, recentIssue, panelKey, unheard>> /\ UNCHANGED <<status, pushes>>
    BY <1>4 DEF Events!Attach, Events!CloseEvent, Events!PingFails, Events!credentialVars, Events!statusVars
  <2> QED
    BY <1>2, <1>4, <2>1, NotifyingStepsInBounds
<1>5. ASSUME Events!PanelDisconnects \/ Events!AppDisconnects \/ Events!disconnectGuildStatusConnectionsForMember PROVE Rest'
  <2>1. UNCHANGED <<status, pushes>>
    BY <1>5 DEF Events!PanelDisconnects, Events!AppDisconnects, Events!disconnectGuildStatusConnectionsForMember, Events!statusVars
  <2> QED
    BY <1>2, <1>5, <2>1, DisconnectsInBounds, WritesInBounds
<1>6. ASSUME \/ \E op \in {"issue", "revoke"} : Events!PanelAsks(op)
             \/ \E answered \in BOOLEAN : Events!PanelWrites(answered) \/ Events!RemoveMember(answered)
             \/ \E op \in {"exchange", "logout"}, answered \in BOOLEAN : Events!AppWrites(op, answered)
             \/ Events!PanelWriteFails \/ Events!DedupeWindowEnds
      PROVE  Rest'
  <2>1. UNCHANGED streams /\ UNCHANGED <<status, pushes>>
    BY <1>6 DEF Events!PanelAsks, Events!PanelWrites, Events!RemoveMember, Events!AppWrites, Events!PanelWriteFails,
                Events!DedupeWindowEnds, Events!statusVars
  <2> QED
    BY <1>2, <1>6, <2>1, WritesInBounds
<1>7. ASSUME Events!StatusChanges \/ Events!PushStarts PROVE Rest'
  <2>1. UNCHANGED streams /\ UNCHANGED <<token, recentIssue, panelKey, unheard>>
    BY <1>7 DEF Events!StatusChanges, Events!PushStarts, Events!credentialVars
  <2>2. pushes \in [waiting : Nat, reading : SUBSET Nat] /\ status \in Nat /\ MaxStatus \in Nat
    BY EventBounds DEF EventsInv, StatusInv
  <2>3. PushesBounded'
    BY <1>1, <1>7, <2>2 DEF Events!StatusChanges, Events!PushStarts, PushesBounded
  <2> QED
    BY <1>2, <2>1, <2>3
<1>8. ASSUME NEW snapshot, Events!PushEnds(snapshot) PROVE Rest'
  <2>1. UNCHANGED <<token, recentIssue, panelKey, unheard>>
    BY <1>8 DEF Events!PushEnds, Events!credentialVars
  <2> QED
    BY <1>2, <1>8, <2>1, PushesInBounds
<1>9. ASSUME UNCHANGED Events!streamVars PROVE Rest'
  <2>1. UNCHANGED streams /\ UNCHANGED <<token, recentIssue, panelKey, unheard>> /\ UNCHANGED <<status, pushes>>
    BY <1>9 DEF Events!streamVars
  <2> QED
    BY <1>2, <2>1
<1>10. Rest'
  <2> HIDE DEF Rest
  <2>1. CASE Events!StreamsNext
    BY <1>3, <1>4, <1>5, <1>6, <1>7, <1>8, <2>1, Zenon DEF Events!StreamsNext
  <2> QED
    BY <1>9, <2>1
<1> QED
  BY <1>10, EventUpsetsStayBounded DEF EventsBounded

LEMMA EventsAreTyped == ASSUME EventsInv, EventsBounded PROVE Events!StreamsTypeOK
<1>1. streams \in [Streams -> [kind : Events!Kinds \cup {"none"}, pc : StreamSteps, cred : 0..MaxTokens,
                               socket : Sockets, told : 0..(MaxStatus + 2), listening : BOOLEAN]]
  <2>1. streams \in [Streams -> StreamRecords]
    BY DEF EventsInv, ConnectionsInv
  <2>2. \A s \in Streams : streams[s].cred <= MaxTokens /\ streams[s].told <= MaxStatus + 2
    BY DEF EventsBounded, StreamsBounded, InBounds
  <2>3. ASSUME NEW s \in Streams PROVE streams[s].cred \in 0..MaxTokens /\ streams[s].told \in 0..(MaxStatus + 2)
    <3>1. streams[s].cred \in Nat /\ streams[s].told \in Nat
      BY <2>1 DEF StreamRecords
    <3> QED
      BY <2>2, <3>1, EventBounds
  <2> QED
    BY <2>1, <2>3 DEF StreamRecords
<1>2. token \in [version : 1..MaxTokens, active : BOOLEAN] /\ recentIssue \in 0..MaxTokens /\ unheard \subseteq 0..MaxTokens
  <2>1. token \in [version : Nat, active : BOOLEAN] /\ recentIssue \in Nat
    BY DEF EventsInv, CredentialInv
  <2>2. token.version \in 1..MaxTokens
    BY <2>1, EventBounds DEF EventsBounded, CredentialsBounded
  <2> QED
    BY <2>1, <2>2, EventBounds DEF EventsBounded, CredentialsBounded
<1>3. status \in 0..MaxStatus /\ pushes \in [waiting : 0..MaxStatus, reading : SUBSET (0..MaxStatus)]
  <2>1. status \in Nat /\ pushes \in [waiting : Nat, reading : SUBSET Nat] /\ \A x \in pushes.reading : x <= status
    BY DEF EventsInv, StatusInv
  <2>2. status <= MaxStatus /\ pushes.waiting <= status
    BY DEF EventsBounded, PushesBounded
  <2>3. pushes.waiting \in 0..MaxStatus /\ pushes.reading \subseteq 0..MaxStatus
    BY <2>1, <2>2, EventBounds
  <2> QED
    BY <2>1, <2>2, <2>3, EventBounds
<1> QED
  BY <1>1, <1>2, <1>3
     DEF EventsInv, CredentialInv, EventsBounded, StreamUpsetsBounded, Events!StreamsTypeOK, StreamSteps, Sockets

-------------------------------------------------------------------------------
(* The services together                                                   *)

AccessInv ==
  /\ service = "guilds" => MembersInv /\ ReloadInv
  /\ service = "keys" => KeysInv
  /\ service = "passkeys" => PasskeysInv
  /\ service = "events" => EventsInv

LEMMA StartingGuildsAreTables == StartingGuilds \subseteq Tables
<1> DEFINE none == [g \in Servers |-> [x \in People |-> -1]]
           L == Guilds!Levels \cup {Guilds!NotMember}
           m == [none EXCEPT ![1]["m"] = 3]
           mp == [m EXCEPT ![1]["p"] = 2]
<1>1. -1 \in L /\ 2 \in L /\ 3 \in L
  BY DEF Guilds!Levels, Guilds!USER, Guilds!ADMIN, Guilds!NotMember
<1>2. Tables = [Servers -> [People -> L]]
  BY DEF Tables
<1> HIDE DEF L
<1>3. none \in [Servers -> [People -> L]]
  BY <1>1
<1>4. ASSUME NEW t \in [Servers -> [People -> L]], NEW who, NEW l \in L
      PROVE  [t EXCEPT ![1][who] = l] \in [Servers -> [People -> L]]
  <2>1. [t EXCEPT ![1][who] = l] = [t EXCEPT ![1] = [t[1] EXCEPT ![who] = l]]
    OBVIOUS
  <2>2. 1 \in Servers => [t[1] EXCEPT ![who] = l] \in [People -> L]
    OBVIOUS
  <2> QED
    BY <2>1, <2>2
<1> HIDE DEF none, m, mp
<1>5. m \in [Servers -> [People -> L]]
  BY <1>1, <1>3, <1>4 DEF m
<1>6. mp \in [Servers -> [People -> L]]
  BY <1>1, <1>4, <1>5 DEF mp
<1>7. StartingGuilds = {mp}
  BY DEF StartingGuilds, mp, m, none
<1> QED
  BY <1>2, <1>6, <1>7

LEMMA AccessInitInv == Init => AccessInv
<1> SUFFICES ASSUME Init PROVE AccessInv
  OBVIOUS
<1>1. Guilds!MembersInit /\ Keys!KeysInit /\ Passes!PasskeysInit /\ Events!StreamsInit
  BY DEF Init
<1>2. MembersStart
  BY <1>1, StartingGuildsAreTables DEF Guilds!MembersInit, MembersStart
<1> QED
  BY <1>1, <1>2, MembersInitInv, ReloadsInit, KeysInitInv, PasskeysInitInv, EventsInitInv DEF AccessInv

\* What a step of the panel is to each of these services: one of its own, or none
LEMMA StepsOf ==
  ASSUME [Next]_serviceVars
  PROVE  /\ service' = service
         /\ IF service = "guilds" THEN [Guilds!MembersNext]_memberVars ELSE UNCHANGED memberVars
         /\ IF service = "keys" THEN [Keys!KeysNext]_(Keys!keyVars) ELSE UNCHANGED Keys!keyVars
         /\ IF service = "passkeys" THEN [Passes!PasskeysNext]_(Passes!passkeyVars) ELSE UNCHANGED Passes!passkeyVars
         /\ IF service = "events" THEN [Events!StreamsNext]_(Events!streamVars) ELSE UNCHANGED Events!streamVars
<1>1. /\ UNCHANGED Keys!keyVars <=> UNCHANGED keyVars
      /\ UNCHANGED Passes!passkeyVars <=> UNCHANGED passkeyVars
      /\ UNCHANGED Events!streamVars <=> UNCHANGED streamVars
  BY DEF Keys!keyVars, keyVars, Passes!passkeyVars, passkeyVars, Events!streamVars, streamVars
<1>2. service' = service
  BY DEF Next, serviceVars
<1>3. service # "guilds" => UNCHANGED memberVars
  BY DEF Next, serviceVars, accountVars
<1>4. service # "keys" => UNCHANGED keyVars
  BY DEF Next, serviceVars
<1>5. service # "passkeys" => UNCHANGED passkeyVars
  BY DEF Next, serviceVars, accountVars
<1>6. service # "events" => UNCHANGED streamVars
  BY DEF Next, serviceVars
<1>7. service = "guilds" => Guilds!MembersNext \/ UNCHANGED memberVars
  BY DEF Next, serviceVars, accountVars
<1>8. service = "keys" => Keys!KeysNext \/ UNCHANGED keyVars
  BY DEF Next, serviceVars
<1>9. service = "passkeys" => Passes!PasskeysNext \/ UNCHANGED passkeyVars
  BY DEF Next, serviceVars, accountVars
<1>10. service = "events" => Events!StreamsNext \/ UNCHANGED streamVars
  BY DEF Next, serviceVars
<1>11. IF service = "guilds" THEN [Guilds!MembersNext]_memberVars ELSE UNCHANGED memberVars
  BY <1>3, <1>7
<1>12. IF service = "keys" THEN [Keys!KeysNext]_(Keys!keyVars) ELSE UNCHANGED Keys!keyVars
  BY <1>1, <1>4, <1>8
<1>13. IF service = "passkeys" THEN [Passes!PasskeysNext]_(Passes!passkeyVars) ELSE UNCHANGED Passes!passkeyVars
  BY <1>1, <1>5, <1>9
<1>14. IF service = "events" THEN [Events!StreamsNext]_(Events!streamVars) ELSE UNCHANGED Events!streamVars
  BY <1>1, <1>6, <1>10
<1> QED
  BY <1>2, <1>11, <1>12, <1>13, <1>14

LEMMA AccessStepInv == AccessInv /\ [Next]_serviceVars => AccessInv'
<1> SUFFICES ASSUME AccessInv, [Next]_serviceVars PROVE AccessInv'
  OBVIOUS
<1>1. CASE service = "guilds"
  BY <1>1, StepsOf, MembersNextInv, NextKeepsReloads DEF AccessInv
<1>2. CASE service = "keys"
  BY <1>2, StepsOf, KeysNextInv DEF AccessInv
<1>3. CASE service = "passkeys"
  <2>1. PasskeysInv /\ [Passes!PasskeysNext]_(Passes!passkeyVars) /\ service' = service
    BY <1>3, StepsOf DEF AccessInv
  <2> QED
    BY <1>3, <2>1, PasskeysNextInv DEF AccessInv
<1>4. CASE service = "events"
  <2>1. EventsInv /\ [Events!StreamsNext]_(Events!streamVars) /\ service' = service
    BY <1>4, StepsOf DEF AccessInv
  <2> QED
    BY <1>4, <2>1, EventsNextInv DEF AccessInv
<1> QED
  BY <1>1, <1>2, <1>3, <1>4, StepsOf DEF AccessInv

LEMMA AccessHolds == Spec => []AccessInv
BY AccessInitInv, AccessStepInv, PTL DEF Spec

\* The three action properties, of a step from a state of the invariant
LEMMA StepForward ==
  AccessInv /\ [Next]_serviceVars =>
    [\A s \in Events!OfKind(streams, "dashboard") :
       /\ streams'[s].told >= streams[s].told
       /\ streams'[s].told # streams[s].told /\ streams[s].socket = "up" => member # "out" \/ 0 \in unheard]_(Events!streamVars)
<1> SUFFICES ASSUME AccessInv, [Next]_serviceVars, ~UNCHANGED Events!streamVars
             PROVE  \A s \in Events!OfKind(streams, "dashboard") :
                      /\ streams'[s].told >= streams[s].told
                      /\ streams'[s].told # streams[s].told /\ streams[s].socket = "up" => member # "out" \/ 0 \in unheard
  OBVIOUS
<1>1. EventsInv /\ [Events!StreamsNext]_(Events!streamVars)
  BY StepsOf DEF AccessInv
<1>2. ToldForward
  BY <1>1, EventsNextInv
<1> QED
  BY <1>2, ForwardTruth

LEMMA StepDelivered ==
  AccessInv /\ [Next]_serviceVars =>
    [enrolmentCode.value \in delivered /\ enrolmentCode'.value # enrolmentCode.value
       => enrolmentCode.cooled \/ matches' # matches]_(Passes!passkeyVars)
<1> SUFFICES ASSUME AccessInv, [Next]_serviceVars, ~UNCHANGED Passes!passkeyVars, enrolmentCode.value \in delivered,
                    enrolmentCode'.value # enrolmentCode.value
             PROVE  enrolmentCode.cooled \/ matches' # matches
  OBVIOUS
<1>1. PasskeysInv /\ Passes!PasskeysNext
  BY StepsOf DEF AccessInv
<1> QED
  BY <1>1, DeliveredStays

LEMMA StepRises ==
  AccessInv /\ [Next]_serviceVars =>
    [\A s \in SignIns :
       signIn[s].pc = "records" /\ signIn'[s].pc = "in" =>
         userHandle[signIn[s].passkey] # 0
           /\ signCount'[signIn[s].passkey] > signCount[signIn[s].passkey]]_(Passes!passkeyVars)
<1> SUFFICES ASSUME AccessInv, [Next]_serviceVars, ~UNCHANGED Passes!passkeyVars, NEW s \in SignIns,
                    signIn[s].pc = "records", signIn'[s].pc = "in"
             PROVE  userHandle[signIn[s].passkey] # 0
                      /\ signCount'[signIn[s].passkey] > signCount[signIn[s].passkey]
  OBVIOUS
<1>1. PasskeysInv /\ Passes!PasskeysNext
  BY StepsOf DEF AccessInv
<1> QED
  BY <1>1, CountersRise

\* However clients go, stall and break, whoever enrols, verifies, signs in, asks, revokes, demotes and
\* removes meanwhile, and whatever is not answered: event streams are counted while they are registered,
\* stay open only by a credential in force and tell no page what is no longer so; a key revoked is never
\* accepted again; no form writes what the levels no longer allow; codes, challenges and counters of
\* passkeys are used once (sseChannel.ts and the streams built on it, streamdeckKeys.ts,
\* adminUserAuth.ts, guildRegistry.ts, passkeysShared.ts).
THEOREM AccessEnds == Spec => AccessEndsWhenRevoked
<1>1. AccessInv => (service = "events" => Events!StreamsAreAccounted)
  BY EventsTruth DEF AccessInv
<1>2. AccessInv => (service = "keys" => Keys!KeysStayRevoked /\ Keys!RotationIsUsable)
  BY InvImpliesRevoked DEF AccessInv, KeysInv, RememberedInv
<1>3. AccessInv => (service = "guilds" => Guilds!WritesAreAllowed /\ Guilds!RegistryFollows)
  BY MembersTruth DEF AccessInv
<1>4. AccessInv => (service = "passkeys" => Passes!EachIsUsedOnce)
  BY PasskeysTruth DEF AccessInv
<1>5. Spec => Events!StatusGoesForward
  BY AccessHolds, StepForward, PTL DEF Spec, Events!StatusGoesForward
<1>6. Spec => Passes!DeliveredCodesStay
  BY AccessHolds, StepDelivered, PTL DEF Spec, Passes!DeliveredCodesStay
<1>7. Spec => Passes!CountersOnlyRise
  BY AccessHolds, StepRises, PTL DEF Spec, Passes!CountersOnlyRise
<1> QED
  BY <1>1, <1>2, <1>3, <1>4, <1>5, <1>6, <1>7, AccessHolds, PTL DEF AccessEndsWhenRevoked

-------------------------------------------------------------------------------
(* The types of every service                                              *)

\* What the invariants do not bound, and that one of the services runs
BoundsHold ==
  /\ service \in {"writes", "voice", "pieces", "videos", "points", "raffle", "events", "keys", "guilds", "passkeys"}
  /\ service = "guilds" => MembersBounded
  /\ service = "keys" => KeysBounded
  /\ service = "passkeys" => PasskeysBounded
  /\ service = "events" => EventsBounded

LEMMA BoundsInit == Init => BoundsHold
<1> SUFFICES ASSUME Init PROVE BoundsHold
  OBVIOUS
<1>1. Guilds!MembersInit /\ Keys!KeysInit /\ Passes!PasskeysInit /\ Events!StreamsInit
  BY DEF Init
<1>2. MembersStart
  BY <1>1, StartingGuildsAreTables DEF Guilds!MembersInit, MembersStart
<1>3. service \in {"writes", "voice", "pieces", "videos", "points", "raffle", "events", "keys", "guilds", "passkeys"}
  BY DEF Init
<1> QED
  BY <1>1, <1>2, <1>3, MembersInitBounded, KeysInitBounded, PasskeysInitBounded, EventsInitBounded DEF BoundsHold

LEMMA BoundsStep == AccessInv /\ AccessInv' /\ BoundsHold /\ [Next]_serviceVars => BoundsHold'
<1> SUFFICES ASSUME AccessInv, AccessInv', BoundsHold, [Next]_serviceVars PROVE BoundsHold'
  OBVIOUS
<1>1. service' = service
  BY StepsOf
<1>2. service = "guilds" => MembersBounded'
  BY StepsOf, MembersStayBounded DEF AccessInv, BoundsHold
<1>3. service = "keys" => KeysBounded'
  BY StepsOf, KeysStayBounded DEF AccessInv, BoundsHold
<1>4. service = "passkeys" => PasskeysBounded'
  BY <1>1, StepsOf, PasskeysStayBounded DEF AccessInv, BoundsHold
<1>5. service = "events" => EventsBounded'
  BY StepsOf, EventsStayBounded DEF AccessInv, BoundsHold
<1> QED
  BY <1>1, <1>2, <1>3, <1>4, <1>5 DEF BoundsHold

LEMMA BoundsAlwaysHold == Spec => []BoundsHold
BY AccessHolds, BoundsInit, BoundsStep, PTL DEF Spec

\* Whichever service runs and whatever happens to it, its state is one that the code can hold: its commands,
\* connections, files, rows, points, raffles, streams, keys, forms and codes are of their kinds, its counters and
\* versions within their bounds, a named lock has one holder, and the slots taken for uploads and conversions
\* are no more than there are (commandLocks.ts, overlayVideoTranscode.ts, sseChannel.ts and the others).
THEOREM PanelIsTyped == Spec => []TypeOK
<1>1. IInv /\ AccessInv /\ BoundsHold => TypeOK
  <2> SUFFICES ASSUME IInv, AccessInv, BoundsHold PROVE TypeOK
    OBVIOUS
  <2>1. /\ service = "guilds" => Guilds!MembersTypeOK
        /\ service = "keys" => Keys!KeysTypeOK
        /\ service = "passkeys" => Passes!PasskeysTypeOK
        /\ service = "events" => Events!StreamsTypeOK
    BY MembersAreTyped, KeysAreTyped, PasskeysAreTyped, EventsAreTyped DEF AccessInv, BoundsHold
  <2>2. CASE service = "writes"
    BY <2>1, <2>2, TheseAreTyped DEF TypeOK
  <2>3. CASE service = "voice"
    BY <2>1, <2>3, TheseAreTyped DEF TypeOK
  <2>4. CASE service = "pieces"
    BY <2>1, <2>4, TheseAreTyped DEF TypeOK
  <2>5. CASE service = "videos"
    BY <2>1, <2>5, TheseAreTyped DEF TypeOK
  <2>6. CASE service = "points"
    BY <2>1, <2>6, TheseAreTyped DEF TypeOK
  <2>7. CASE service = "raffle"
    BY <2>1, <2>7, TheseAreTyped DEF TypeOK
  <2>8. CASE service = "events"
    BY <2>1, <2>8, TheseAreTyped DEF TypeOK
  <2>9. CASE service = "keys"
    BY <2>1, <2>9, TheseAreTyped DEF TypeOK
  <2>10. CASE service = "guilds"
    BY <2>1, <2>10, TheseAreTyped DEF TypeOK
  <2>11. CASE service = "passkeys"
    BY <2>1, <2>11, TheseAreTyped DEF TypeOK
  <2> QED
    BY <2>2, <2>3, <2>4, <2>5, <2>6, <2>7, <2>8, <2>9, <2>10, <2>11 DEF BoundsHold
<1> QED
  BY <1>1, IInvHolds, AccessHolds, BoundsAlwaysHold, PTL
===============================================================================
