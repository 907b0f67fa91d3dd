---------------------------- MODULE CommandWrites ----------------------------
(***************************************************************************)
(* The chat-command namespace: custom commands, counters and advanced      *)
(* commands of three tables, their writers (customCommands.ts,             *)
(* commandAssignments.ts, counters.ts, advancedCommands.ts) and the MySQL  *)
(* named locks that serialize them (commandWriteGuard.ts, commandLocks.ts, *)
(* commandIdLock.ts).  A worker is one request on one pooled connection.   *)
(*                                                                         *)
(* A transaction is two steps, its reads and its commit.  Inside one, the  *)
(* reads see what Isolation says: "committed" is READ COMMITTED, every     *)
(* read the latest committed rows; "repeatable" is REPEATABLE READ, MySQL's*)
(* default, every plain SELECT the rows as of the first one.               *)
(***************************************************************************)
EXTENDS Integers, Sequences, SequencesExt, FiniteSets

CONSTANTS
  Workers,    \* requests that may run at once
  Commands,   \* ids of custom commands
  Counters,   \* ids of counters of one guild
  Triggers,   \* command words, as numbers: sorted as strings are
  Users,      \* users a command can be assigned to
  Eligible,   \* those with a Twitch channel the bot is enabled for
  FlagSets,   \* where a mod lets a command answer: Discord, every Twitch channel
  Assignees,  \* the sets of users a mod assigns a new command to
  Isolation,  \* "committed" or "repeatable"
  Existing,   \* the tables a run starts from
  MaxWrites,  \* writes that are started
  MaxTries    \* MAX_DEADLOCK_RETRIES

VARIABLES
  tables,  \* the committed rows of custom_command, counter and advanced_command
  worker,  \* the requests
  writes,  \* how many have been started
  clashed  \* history: commands an assignment has put in another's way, having read rows of the past

commandVars == <<tables, worker, writes, clashed>>

NoTrigger == 0
NoId == 0
Flags == {"discord", "multi"}

\* A custom_command row with its twitch_user_commands rows.
CustomRows == [trigger : Triggers, flags : SUBSET Flags, users : SUBSET Users]
NoCustom == [trigger |-> NoTrigger, flags |-> {}, users |-> {}]

\* trigger_command and check_command of a counter row, which differ.
CounterRows == {cmds \in SUBSET Triggers : Cardinality(cmds) = 2}
NoCounter == {}

\* The advanced command's trigger_string: a row without one is only reached
\* from a Stream Deck, and claims nothing.
Tables == [custom : [Commands -> CustomRows \cup {NoCustom}],
           counter : [Counters -> CounterRows \cup {NoCounter}],
           advanced : Triggers \cup {NoTrigger}]

\* Named locks: of a command's id, of a trigger.
IdLock(c) == <<"id", c>>
TriggerLock(t) == <<"trigger", t>>
Locks == {IdLock(c) : c \in Commands} \cup {TriggerLock(t) : t \in Triggers}
Sorted(cmds) == CHOOSE s \in SetToSeqs(cmds) : \A i, j \in DOMAIN s : i < j => s[i] < s[j]
TriggerLocks(cmds) == [i \in 1 .. Cardinality(cmds) |-> TriggerLock(Sorted(cmds)[i])]

Kinds == {"none", "add", "update", "delete", "discard", "assign",
          "addCounter", "updateCounter", "removeCounter", "saveAdvanced"}

\* A write as the route asks for it.  self: the user it is limited to, for a
\* streamer who manages only their own command; users: whom to assign.
Jobs == [kind : Kinds, id : Commands \cup Counters \cup {NoId}, cmds : SUBSET Triggers,
         flags : SUBSET Flags, users : SUBSET Users, self : SUBSET Users]
NoJob == [kind |-> "none", id |-> NoId, cmds |-> {}, flags |-> {}, users |-> {}, self |-> {}]
Job(kind) == [NoJob EXCEPT !.kind = kind]

\* need: the locks still to acquire, in order; held: those it has; snap: the
\* tables a repeatable-read transaction goes on seeing, once it has read.  "read"
\* is an assignment that has read its command's trigger.
WorkerStates == [pc : {"idle", "lock", "read", "commit", "release"}, job : Jobs,
                 need : Seq(Locks), held : SUBSET Locks, snap : SUBSET Tables,
                 tries : 0 .. MaxTries, result : {"none", "done", "failed"}]
NoWorker == [pc |-> "idle", job |-> NoJob, need |-> <<>>, held |-> {}, snap |-> {},
             tries |-> 0, result |-> "none"]

Committed(c) == tables.custom[c] # NoCustom

---------------------------------------------------------------------------
(* Collisions, as the checks read them from the tables t *)

Holder(l) == {w \in Workers : l \in worker[w].held}

CustomTaken(t, cmds) == \E c \in Commands : t.custom[c] # NoCustom /\ t.custom[c].trigger \in cmds
CounterTaken(t, cmds, but) == \E k \in Counters \ {but} : t.counter[k] \cap cmds # {}
AdvancedTaken(t, cmds) == t.advanced \in cmds

\* Other custom commands with the trigger.
Rivals(t, c, trigger) ==
  {t.custom[d] : d \in {d \in Commands \ {c} : t.custom[d] # NoCustom /\ t.custom[d].trigger = trigger}}

DiscordTaken(t, c, trigger) == \E r \in Rivals(t, c, trigger) : "discord" \in r.flags
MultiTaken(t, c, trigger) ==
  \E r \in Rivals(t, c, trigger) : "multi" \in r.flags \/ r.users \cap Eligible # {}
ChannelTaken(t, c, trigger, users) ==
  users \cap Eligible # {}
    /\ \E r \in Rivals(t, c, trigger) : "multi" \in r.flags \/ r.users \cap users \cap Eligible # {}

\* isCommandSelfManageableBy and isCommandUnclaimedBy, for users self = {} anyone.
Manageable(row, self) == self # {} => (row.users = self /\ row.flags = {})
Unclaimed(row, self) == self # {} => (row.users \subseteq self /\ row.flags = {})

AnyTrigger(j) == CHOOSE t \in j.cmds : TRUE

CustomConflict(t, j, c) ==
  LET trigger == AnyTrigger(j)
      users == IF c = NoId THEN {} ELSE t.custom[c].users
  IN  \/ CounterTaken(t, j.cmds, NoId)
      \/ AdvancedTaken(t, j.cmds)
      \/ "discord" \in j.flags /\ DiscordTaken(t, c, trigger)
      \/ IF "multi" \in j.flags THEN MultiTaken(t, c, trigger) ELSE ChannelTaken(t, c, trigger, users)

\* updateCounter checks only the commands the counter gains.
CounterConflict(t, j) ==
  LET gained == j.cmds \ t.counter[j.id]
  IN  CustomTaken(t, gained) \/ CounterTaken(t, gained, j.id) \/ AdvancedTaken(t, gained)

\* Whether the transaction of job j refuses, reading the tables t.
Refuses(t, j) ==
  CASE j.kind = "add" -> CustomConflict(t, j, NoId)
    [] j.kind = "update" -> \/ t.custom[j.id] = NoCustom
                            \/ CustomConflict(t, j, j.id)
                            \/ ~Manageable(t.custom[j.id], j.self)
    [] j.kind = "delete" -> t.custom[j.id] = NoCustom \/ ~Manageable(t.custom[j.id], j.self)
    [] j.kind = "discard" -> t.custom[j.id] = NoCustom \/ ~Unclaimed(t.custom[j.id], j.self)
    [] j.kind = "assign" -> ChannelTaken(t, j.id, t.custom[j.id].trigger, j.users)
    [] j.kind = "addCounter" ->
         CustomTaken(t, j.cmds) \/ CounterTaken(t, j.cmds, NoId) \/ AdvancedTaken(t, j.cmds)
    [] j.kind = "updateCounter" -> t.counter[j.id] = NoCounter \/ CounterConflict(t, j)
    [] j.kind = "removeCounter" -> t.counter[j.id] = NoCounter
    [] j.kind = "saveAdvanced" -> CustomTaken(t, j.cmds) \/ CounterTaken(t, j.cmds, NoId)

---------------------------------------------------------------------------
(* Starting a write *)

\* Mistake: an update locks its trigger first, the command's id last.
IdLockedLast(j) ==
  CASE j.kind \in {"delete", "discard", "assign"} -> <<IdLock(j.id)>>
    [] j.kind = "update" -> TriggerLocks(j.cmds) \o <<IdLock(j.id)>>
    [] j.kind \in {"updateCounter", "removeCounter"} -> TriggerLocks(j.cmds \cup tables.counter[j.id])
    [] OTHER -> TriggerLocks(j.cmds)

\* The locks taken before anything is read in a transaction.
FirstLocks(j) ==
  CASE j.kind \in {"delete", "discard", "assign"} -> <<IdLock(j.id)>>
    [] j.kind = "update" -> <<IdLock(j.id)>> \o TriggerLocks(j.cmds)
    [] j.kind \in {"updateCounter", "removeCounter"} -> TriggerLocks(j.cmds \cup tables.counter[j.id])
    [] OTHER -> TriggerLocks(j.cmds)

Begun(j) == [NoWorker EXCEPT !.pc = "lock", !.job = j, !.need = FirstLocks(j), !.tries = 1]

Start(w, j) ==
  /\ worker[w].pc = "idle"
  /\ writes < MaxWrites
  /\ worker' = [worker EXCEPT ![w] = Begun(j)]
  /\ writes' = writes + 1
  /\ UNCHANGED <<tables, clashed>>

\* POST /commands/add: a mod chooses flags and assignees, a streamer gets a
\* plain command assigned to them.
addCustomCommand(w) ==
  \E t \in Triggers, u \in Assignees :
    \/ \E f \in FlagSets : Start(w, [Job("add") EXCEPT !.cmds = {t}, !.flags = f, !.users = u])
    \/ Cardinality(u) = 1 /\ Start(w, [Job("add") EXCEPT !.cmds = {t}, !.users = u, !.self = u])

updateCustomCommand(w) ==
  \E t \in Triggers, f \in FlagSets, c \in {c \in Commands : Committed(c)} :
    Start(w, [Job("update") EXCEPT !.id = c, !.cmds = {t}, !.flags = f])

updateOwnCustomCommand(w) ==
  \E t \in Triggers, u \in Users, c \in {c \in Commands : Committed(c)} :
    Start(w, [Job("update") EXCEPT !.id = c, !.cmds = {t}, !.self = {u}])

removeCustomCommand(w) ==
  \E c \in {c \in Commands : Committed(c)}, self \in {{}} \cup {{u} : u \in Users} :
    Start(w, [Job("delete") EXCEPT !.id = c, !.self = self])

assignUserToCommand(w) ==
  \E c \in {c \in Commands : Committed(c)}, u \in Users :
    Start(w, [Job("assign") EXCEPT !.id = c, !.users = {u}])

addCounter(w) == \E cmds \in CounterRows : Start(w, [Job("addCounter") EXCEPT !.cmds = cmds])

\* updateCounter and removeCounter read the counter's commands before they lock.
updateCounter(w) ==
  \E k \in Counters, cmds \in CounterRows :
    tables.counter[k] # NoCounter /\ Start(w, [Job("updateCounter") EXCEPT !.id = k, !.cmds = cmds])

removeCounter(w) ==
  \E k \in Counters :
    tables.counter[k] # NoCounter /\ Start(w, [Job("removeCounter") EXCEPT !.id = k])

\* addAdvancedCommand and updateAdvancedCommand, through runGuardedWrite.
saveAdvancedCommand(w) ==
  \E cmds \in {{}} \cup {{t} : t \in Triggers} : Start(w, [Job("saveAdvanced") EXCEPT !.cmds = cmds])

---------------------------------------------------------------------------
(* Named locks *)

Waits(w) == worker[w].pc \in {"lock", "read"} /\ worker[w].need # <<>>
Ready(w) == worker[w].pc \in {"lock", "read"} /\ worker[w].need = <<>>

acquireNamedLock(w) ==
  /\ Waits(w)
  /\ Holder(Head(worker[w].need)) = {}
  /\ worker' = [worker EXCEPT ![w].held = @ \cup {Head(worker[w].need)}, ![w].need = Tail(@)]
  /\ UNCHANGED <<tables, writes, clashed>>

Fail(w) == worker' = [worker EXCEPT ![w].pc = "release", ![w].result = "failed", ![w].need = <<>>,
                                    ![w].snap = {}]

\* GET_LOCK times out after ten seconds: only behind another holder.
LockTimesOut(w) ==
  /\ Waits(w)
  /\ Holder(Head(worker[w].need)) # {}
  /\ Fail(w)
  /\ UNCHANGED <<tables, writes, clashed>>

\* An assignment's transaction has begun: it reads the command's trigger, and
\* only then waits for the lock on it.
Reading(w) == worker[w].job.kind = "assign" /\ worker[w].pc = "lock" /\ Ready(w)

getCommandTriggerStringById(w) ==
  LET j == worker[w].job
      trigger == tables.custom[j.id].trigger
  IN  /\ Reading(w)
      /\ IF Committed(j.id)
           THEN worker' = [worker EXCEPT ![w].pc = "read",
                                         ![w].snap = IF Isolation = "repeatable" THEN {tables} ELSE {},
                                         ![w].need = IF TriggerLock(trigger) \in worker[w].held
                                                       THEN <<>> ELSE <<TriggerLock(trigger)>>]
           ELSE Fail(w)
      /\ UNCHANGED <<tables, writes, clashed>>

\* What the transaction's SELECTs see.
Views(w) == IF worker[w].snap = {} THEN {tables} ELSE worker[w].snap

\* The collision and ownership checks, under the locks.
runSerializedCommandWrite(w) ==
  /\ Ready(w)
  /\ ~Reading(w)
  /\ IF \E t \in Views(w) : Refuses(t, worker[w].job)
       THEN Fail(w)
       ELSE worker' = [worker EXCEPT ![w].pc = "commit"]
  /\ UNCHANGED <<tables, writes, clashed>>

\* Ids are never used again: not one that a request still names.
Fresh(ids, kinds, none, row) ==
  {i \in ids : row[i] = none /\ \A v \in Workers : worker[v].job.kind \in kinds => worker[v].job.id # i}
FreshCommands ==
  Fresh(Commands, {"add", "update", "delete", "discard", "assign"}, NoCustom, tables.custom)
FreshCounters == Fresh(Counters, {"updateCounter", "removeCounter"}, NoCounter, tables.counter)

Done(w, id) ==
  /\ worker' = [worker EXCEPT ![w].pc = "release", ![w].result = "done", ![w].snap = {},
                              ![w].job.id = id]
  /\ UNCHANGED writes

Commits(w, kind) == worker[w].pc = "commit" /\ worker[w].job.kind = kind

InsertCommand(w) ==
  LET j == worker[w].job IN
  /\ Commits(w, "add")
  /\ \E c \in FreshCommands :
       /\ \A d \in FreshCommands : c <= d
       /\ tables' = [tables EXCEPT !.custom[c] =
                       [trigger |-> AnyTrigger(j), flags |-> j.flags, users |-> {}]]
       /\ Done(w, c) /\ UNCHANGED clashed

\* The row is updated under the id lock, its assignments stay.
UpdateCommand(w) ==
  LET j == worker[w].job IN
  /\ Commits(w, "update")
  /\ tables' = [tables EXCEPT !.custom[j.id].trigger = AnyTrigger(j), !.custom[j.id].flags = j.flags]
  /\ Done(w, j.id) /\ UNCHANGED clashed

deleteCustomCommand(w) ==
  LET j == worker[w].job IN
  /\ Commits(w, "delete") \/ Commits(w, "discard")
  /\ tables' = [tables EXCEPT !.custom[j.id] = NoCustom]
  /\ Done(w, j.id) /\ UNCHANGED clashed

insertUserCommandAssignments(w) ==
  LET j == worker[w].job IN
  /\ Commits(w, "assign")
  /\ tables' = [tables EXCEPT !.custom[j.id].users = @ \cup j.users]
  /\ clashed' = IF worker[w].snap # {} /\ Refuses(tables, j) THEN clashed \cup {j.id} ELSE clashed
  /\ Done(w, j.id)

InsertCounter(w) ==
  /\ Commits(w, "addCounter")
  /\ \E k \in FreshCounters :
       /\ \A n \in FreshCounters : k <= n
       /\ tables' = [tables EXCEPT !.counter[k] = worker[w].job.cmds]
       /\ Done(w, k) /\ UNCHANGED clashed

UpdateCounter(w) ==
  LET j == worker[w].job IN
  /\ Commits(w, "updateCounter") \/ Commits(w, "removeCounter")
  /\ tables' = [tables EXCEPT !.counter[j.id] = j.cmds]
  /\ Done(w, j.id) /\ UNCHANGED clashed

SaveAdvanced(w) ==
  LET j == worker[w].job IN
  /\ Commits(w, "saveAdvanced")
  /\ tables' = [tables EXCEPT !.advanced = IF j.cmds = {} THEN NoTrigger ELSE AnyTrigger(j)]
  /\ Done(w, j.id) /\ UNCHANGED clashed

\* InnoDB picks the transaction as a deadlock's victim: it is run again from its
\* first read, the locks kept, or given up after the last try.  Deletes are not
\* retried: runInTransaction alone.
runWithDeadlockRetry(w) ==
  /\ worker[w].pc = "commit"
  /\ IF worker[w].job.kind \notin {"delete", "discard"} /\ worker[w].tries < MaxTries
       THEN worker' = [worker EXCEPT ![w].pc = "lock", ![w].snap = {}, ![w].tries = @ + 1]
       ELSE Fail(w)
  /\ UNCHANGED <<tables, writes, clashed>>

\* The connection's locks are gone, released or with the connection.  Creating a
\* command goes on with the assignment, a failed one with discarding the command.
releaseNamedLocks(w) ==
  LET j == worker[w].job
      next == IF worker[w].result = "done" THEN "assign" ELSE "discard"
      goesOn == \/ j.kind = "add" /\ worker[w].result = "done" /\ j.users # {}
                \/ j.kind = "assign" /\ worker[w].result = "failed" /\ j.cmds # {}
  IN  /\ worker[w].pc = "release"
      /\ worker' = [worker EXCEPT ![w] = IF goesOn THEN Begun([j EXCEPT !.kind = next]) ELSE NoWorker]
      /\ UNCHANGED <<tables, writes, clashed>>

---------------------------------------------------------------------------
(* Writes without a named lock *)

\* Mistake: the ownership check reads the rows without FOR UPDATE.
NeverLocked(c) == FALSE

\* Rows a transaction read FOR UPDATE wait for its end.
RowLocked(c) ==
  \E w \in Workers : worker[w].pc = "commit" /\ worker[w].job.id = c /\ worker[w].job.self # {}
                       /\ worker[w].job.kind \in {"update", "delete", "discard"}

unassignUserFromCommand ==
  \E c \in Commands : \E u \in tables.custom[c].users :
    /\ writes < MaxWrites
    /\ ~RowLocked(c)
    /\ tables' = [tables EXCEPT !.custom[c].users = @ \ {u}]
    /\ writes' = writes + 1
    /\ UNCHANGED <<worker, clashed>>

removeAdvancedCommand ==
  /\ tables.advanced # NoTrigger
  /\ writes < MaxWrites
  /\ tables' = [tables EXCEPT !.advanced = NoTrigger]
  /\ writes' = writes + 1
  /\ UNCHANGED <<worker, clashed>>

---------------------------------------------------------------------------

Init ==
  /\ tables \in Existing
  /\ worker = [w \in Workers |-> NoWorker]
  /\ writes = 0
  /\ clashed = {}

Next ==
  \/ \E w \in Workers :
       \/ addCustomCommand(w) \/ updateCustomCommand(w) \/ updateOwnCustomCommand(w)
       \/ removeCustomCommand(w) \/ assignUserToCommand(w)
       \/ addCounter(w) \/ updateCounter(w) \/ removeCounter(w) \/ saveAdvancedCommand(w)
       \/ acquireNamedLock(w) \/ LockTimesOut(w)
       \/ getCommandTriggerStringById(w) \/ runSerializedCommandWrite(w)
       \/ InsertCommand(w) \/ UpdateCommand(w) \/ deleteCustomCommand(w)
       \/ insertUserCommandAssignments(w) \/ InsertCounter(w) \/ UpdateCounter(w) \/ SaveAdvanced(w)
       \/ runWithDeadlockRetry(w) \/ releaseNamedLocks(w)
  \/ unassignUserFromCommand
  \/ removeAdvancedCommand

Spec == Init /\ [][Next]_commandVars

---------------------------------------------------------------------------

\* Tables, workers and locks keep their types, and a lock has one holder.
TypeOK ==
  /\ tables \in Tables
  /\ \A w \in Workers :
       /\ worker[w].pc \in {"idle", "lock", "read", "commit", "release"}
       /\ worker[w].job \in Jobs
       /\ worker[w].held \subseteq Locks
       /\ Range(worker[w].need) \subseteq Locks
       /\ worker[w].tries \in 0 .. MaxTries
  /\ \A l \in Locks : Cardinality(Holder(l)) <= 1
  /\ clashed \subseteq Commands

\* Two custom commands with one trigger that would both answer somewhere.
BothAnswer(r, q) ==
  \/ "discord" \in r.flags \cap q.flags
  \/ "multi" \in r.flags /\ ("multi" \in q.flags \/ q.users \cap Eligible # {})
  \/ "multi" \in q.flags /\ r.users \cap Eligible # {}
  \/ r.users \cap q.users \cap Eligible # {}

\* No tables let one chat message run two commands: a trigger belongs to custom
\* commands, to one counter or to an advanced command, and custom commands that
\* share one never answer in the same place.
CollisionFree(t) ==
  /\ \A c \in Commands : t.custom[c] # NoCustom =>
       /\ ~CounterTaken(t, {t.custom[c].trigger}, NoId)
       /\ ~AdvancedTaken(t, {t.custom[c].trigger})
  /\ \A c, d \in Commands \ clashed :
       (c # d /\ t.custom[c] # NoCustom /\ t.custom[c].trigger = t.custom[d].trigger) =>
         ~BothAnswer(t.custom[c], t.custom[d])
  /\ \A k \in Counters : ~CounterTaken(t, t.counter[k], k) /\ ~AdvancedTaken(t, t.counter[k])

\* Whatever writes interleave, wait, time out or are retried, the committed rows
\* never collide (the locks and the checks of runSerializedCommandWrite and
\* withDeadlockRetryAndTriggerLock), but for what AssignmentThrowsOnConflict is about.
NoCollision == CollisionFree(tables)

\* Requests never wait for each other's named locks in a circle: GET_LOCK's
\* timeout is not what resolves it (id locks before trigger locks, those sorted).
NoLockCycle ==
  \A S \in (SUBSET Workers) \ {{}} :
    \E w \in S : ~Waits(w) \/ Holder(Head(worker[w].need)) \cap S = {}

\* A streamer's own update, deletion or clean-up only ever commits on a command
\* that is, at the commit, theirs alone (assertOwnershipWithinTransaction).
SelfServiceKeepsToOwn ==
  [][\A w \in Workers :
       LET j == worker[w].job IN
       (worker[w].pc = "commit" /\ worker'[w].result = "done" /\ j.self # {}) =>
         /\ j.kind \in {"update", "delete"} => Manageable(tables.custom[j.id], j.self)
         /\ j.kind = "discard" => Unclaimed(tables.custom[j.id], j.self)]_commandVars

\* An assignment that would put two commands with one trigger on a channel is
\* refused (the @throws of assignUserToCommandWithinTransaction).  It fails under
\* repeatable read: the SELECT of the command's trigger fixes what the
\* transaction sees before it waits for the lock on that trigger, and the check
\* does not see what the lock's previous holder committed.
AssignmentThrowsOnConflict ==
  [][\A w \in Workers :
       LET j == worker[w].job IN
       (worker[w].pc = "commit" /\ worker'[w].result = "done" /\ j.kind = "assign") =>
         ~ChannelTaken(tables, j.id, tables.custom[j.id].trigger, j.users)]_commandVars

=============================================================================
