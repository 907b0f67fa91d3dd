------------------------------- MODULE Uploads -------------------------------
(***************************************************************************)
(* The session store of chunked uploads: a session's state is its files on *)
(* disk, requests about one session take turns, starts take turns with     *)
(* each other, and every step awaits the disk.  Requests that arrive       *)
(* twice, writes and removals that fail, sessions that expire, sweeps and  *)
(* a restart of the process.                                               *)
(***************************************************************************)
EXTENDS Naturals, Sequences, FiniteSets

CONSTANTS
  UploadIds,         \* random IDs; the store takes an unused one
  Uploaders,         \* Discord IDs
  UploadSize,        \* declared size of every upload, in bytes
  MaxLive,           \* maxSessions
  UploadRequests,    \* slots of requests being handled
  MaxUploadUpsets    \* expiries, failed file operations and restarts

VARIABLES
  uploadFiles,     \* <id>.json, <id>.part, <id>.done, and whether their mtime is past the lifetime
  uploadTask,      \* what each request is doing
  deliveredFiles,  \* contents handed out for each upload
  revivedUpload,   \* a piece was written after its session had expired under it
  uploadUpsets

uploadVars == <<uploadFiles, uploadTask, deliveredFiles, revivedUpload, uploadUpsets>>

Nobody == "nobody"
NoFile == <<0>>                  \* the bytes of a file are numbered from 1
NoUploadTask == [kind |-> "none"]
StartKey == 0                    \* START_QUEUE_KEY

Unused == [json |-> Nobody, part |-> NoFile, done |-> NoFile, stale |-> FALSE]
Upset == uploadUpsets < MaxUploadUpsets /\ uploadUpsets' = uploadUpsets + 1

\* load: null without both files, or past the lifetime.
Loads(id) == uploadFiles[id].json # Nobody /\ uploadFiles[id].part # NoFile /\ ~uploadFiles[id].stale
Live == {id \in UploadIds : Loads(id)}
loadOwned(owner, id) == Loads(id) /\ uploadFiles[id].json = owner
Received(id) == Len(uploadFiles[id].part)

---------------------------------------------------------------------------

\* Everybody that asked earlier for the same key and is not done is ahead.
AheadOf(key) ==
  {r \in UploadRequests : uploadTask[r] # NoUploadTask /\ uploadTask[r].key = key /\ uploadTask[r].pc # "take"}

Ask(r, task) ==
  /\ uploadTask[r] = NoUploadTask
  /\ \A other \in UploadRequests : uploadTask[other] = NoUploadTask => r <= other
  /\ uploadTask' = [uploadTask EXCEPT ![r] = task]
  /\ UNCHANGED <<uploadFiles, deliveredFiles, revivedUpload, uploadUpsets>>

Task(kind, owner, key, offset, length, file) ==
  [kind |-> kind, owner |-> owner, key |-> key, offset |-> offset, length |-> length, file |-> file,
   pc |-> "load", ahead |-> AheadOf(key)]

AskStart(r, owner) == Ask(r, Task("start", owner, StartKey, 0, 0, "none"))
AskAppend(r, owner, id, offset, length) == Ask(r, Task("append", owner, id, offset, length, "none"))
AskFinish(r, owner, id) == Ask(r, Task("finish", owner, id, 0, 0, "none"))
AskCancel(r, owner, id) == Ask(r, Task("cancel", owner, id, 0, 0, "none"))

FileIsThere(id, file) ==
  IF file = "json" THEN uploadFiles[id].json # Nobody ELSE uploadFiles[id][file] # NoFile

\* One file of a sweep: its check and its removal wait for the session's turn.
AskSweep(r, id, file) == Ask(r, Task("sweep", Nobody, id, 0, 0, file))

\* Mistake: requests about one session do not wait for each other.
NoWaiting(r) == TRUE

serialise(r) == uploadTask[r].ahead = {}

At(r, kind, pc) ==
  /\ uploadTask[r] # NoUploadTask
  /\ uploadTask[r].kind = kind /\ uploadTask[r].pc = pc
  /\ serialise(r)

Goto(r, pc) == uploadTask' = [uploadTask EXCEPT ![r].pc = pc]

\* The task leaves its queue.
Settled(r) ==
  [o \in UploadRequests |->
     IF o = r THEN NoUploadTask
     ELSE IF uploadTask[o] = NoUploadTask THEN NoUploadTask
     ELSE [uploadTask[o] EXCEPT !.ahead = @ \ {r}]]

Answer(r) == uploadTask' = Settled(r)

\* remove: both files, each of which may stay when its removal fails.
Removed(files, gone) ==
  [files EXCEPT !.json = IF "json" \in gone THEN Nobody ELSE @, !.part = IF "part" \in gone THEN NoFile ELSE @]

remove(id, gone) ==
  /\ uploadFiles' = [uploadFiles EXCEPT ![id] = Removed(@, gone)]
  /\ IF gone = {"json", "part"} THEN UNCHANGED uploadUpsets ELSE Upset

---------------------------------------------------------------------------

\* liveSessions and the two checks on it.
StartChecks(r) ==
  /\ At(r, "start", "load")
  /\ IF \/ \E id \in Live : uploadFiles[id].json = uploadTask[r].owner
        \/ Cardinality(Live) >= MaxLive
     THEN Answer(r) ELSE Goto(r, "create")
  /\ UNCHANGED <<uploadFiles, deliveredFiles, revivedUpload, uploadUpsets>>

create(r) ==
  /\ At(r, "start", "create")
  /\ \E id \in UploadIds :
       /\ uploadFiles[id] = Unused /\ deliveredFiles[id] = <<>> /\ AheadOf(id) = {}
       /\ \A other \in UploadIds :
            uploadFiles[other] = Unused /\ deliveredFiles[other] = <<>> /\ AheadOf(other) = {} => id <= other
       /\ uploadFiles' = [uploadFiles EXCEPT ![id] = [Unused EXCEPT !.json = uploadTask[r].owner, !.part = <<>>]]
  /\ Answer(r)
  /\ UNCHANGED <<deliveredFiles, revivedUpload, uploadUpsets>>

---------------------------------------------------------------------------

AppendChecks(r) ==
  LET task == uploadTask[r] IN
  /\ At(r, "append", "load")
  /\ IF /\ loadOwned(task.owner, task.key)
        /\ task.offset = Received(task.key)
        /\ task.offset + task.length <= UploadSize
     THEN Goto(r, "write") ELSE Answer(r)
  /\ UNCHANGED <<uploadFiles, deliveredFiles, revivedUpload, uploadUpsets>>

Bytes(task, n) == [i \in 1..n |-> task.offset + i]

\* appendFile makes the file when it is gone; touch stamps both files.
Appended(files, bytes) ==
  [files EXCEPT !.part = IF @ = NoFile THEN bytes ELSE @ \o bytes, !.stale = FALSE]

AppendWrites(r) ==
  LET task == uploadTask[r] IN
  /\ At(r, "append", "write")
  /\ uploadFiles' = [uploadFiles EXCEPT ![task.key] = Appended(@, Bytes(task, task.length))]
  /\ revivedUpload' = (revivedUpload \/ uploadFiles[task.key].stale)
  /\ Answer(r)
  /\ UNCHANGED <<deliveredFiles, uploadUpsets>>

\* The disk fills up after some of the bytes.
AppendFails(r) ==
  LET task == uploadTask[r] IN
  /\ At(r, "append", "write")
  /\ Upset
  /\ \E n \in 0..(task.length - 1) :
       uploadFiles' = [uploadFiles EXCEPT ![task.key] = Appended(@, Bytes(task, n))]
  /\ revivedUpload' = (revivedUpload \/ uploadFiles[task.key].stale)
  /\ Goto(r, "rollback")
  /\ UNCHANGED deliveredFiles

\* truncate fills a file that is shorter with zeros.
Truncated(bytes, n) == [i \in 1..n |-> IF i <= Len(bytes) THEN bytes[i] ELSE 0]

truncateOrLog(r) ==
  LET task == uploadTask[r] IN
  /\ At(r, "append", "rollback")
  /\ \/ /\ uploadFiles' = [uploadFiles EXCEPT ![task.key].part = Truncated(@, task.offset)]
        /\ Answer(r)
        /\ UNCHANGED uploadUpsets
     \/ Upset /\ Goto(r, "drop") /\ UNCHANGED uploadFiles
  /\ UNCHANGED <<deliveredFiles, revivedUpload>>

DropSession(r) ==
  /\ At(r, "append", "drop")
  /\ \E gone \in SUBSET {"json", "part"} : remove(uploadTask[r].key, gone)
  /\ Answer(r)
  /\ UNCHANGED <<deliveredFiles, revivedUpload>>

---------------------------------------------------------------------------

FinishChecks(r) ==
  LET task == uploadTask[r] IN
  /\ At(r, "finish", "load")
  /\ IF loadOwned(task.owner, task.key) /\ Received(task.key) = UploadSize
     THEN Goto(r, "rename") ELSE Answer(r)
  /\ UNCHANGED <<uploadFiles, deliveredFiles, revivedUpload, uploadUpsets>>

\* The data file leaves the session before anything else; a rename without it fails.
FinishRenames(r) ==
  LET id == uploadTask[r].key IN
  /\ At(r, "finish", "rename")
  /\ IF uploadFiles[id].part = NoFile
     THEN Answer(r) /\ UNCHANGED uploadFiles
     ELSE /\ uploadFiles' = [uploadFiles EXCEPT ![id].done = uploadFiles[id].part, ![id].part = NoFile]
          /\ Goto(r, "remove")
  /\ UNCHANGED <<deliveredFiles, revivedUpload, uploadUpsets>>

\* The session is over and the next request has the turn: the route takes the file.
FinishRemoves(r) ==
  /\ At(r, "finish", "remove")
  /\ \E gone \in {{"part"}, {"json", "part"}} : remove(uploadTask[r].key, gone)
  /\ uploadTask' = [Settled(r) EXCEPT ![r] = [uploadTask[r] EXCEPT !.pc = "take"]]
  /\ UNCHANGED <<deliveredFiles, revivedUpload>>

\* toMemoryFile and adoptChunkedUpload read or move the file and remove it whatever happens;
\* the removal of a file that could not be moved may fail too.
TakeFile(r) ==
  LET id == uploadTask[r].key IN
  /\ At(r, "finish", "take")
  /\ \/ /\ uploadFiles[id].done # NoFile
        /\ deliveredFiles' = [deliveredFiles EXCEPT ![id] = Append(@, uploadFiles[id].done)]
        /\ uploadFiles' = [uploadFiles EXCEPT ![id].done = NoFile]
        /\ UNCHANGED uploadUpsets
     \/ uploadFiles[id].done = NoFile /\ UNCHANGED <<deliveredFiles, uploadFiles, uploadUpsets>>
     \/ /\ Upset
        /\ uploadFiles' \in {uploadFiles, [uploadFiles EXCEPT ![id].done = NoFile]}
        /\ UNCHANGED deliveredFiles
  /\ Answer(r)
  /\ UNCHANGED revivedUpload

cancel(r) ==
  LET task == uploadTask[r] IN
  /\ At(r, "cancel", "load")
  /\ IF loadOwned(task.owner, task.key)
     THEN \E gone \in SUBSET {"json", "part"} : remove(task.key, gone)
     ELSE UNCHANGED <<uploadFiles, uploadUpsets>>
  /\ Answer(r)
  /\ UNCHANGED <<deliveredFiles, revivedUpload>>

\* removeIfOlderThan looks at the file's time, and then removes it.
SweepLooks(r) ==
  /\ At(r, "sweep", "load")
  /\ IF uploadFiles[uploadTask[r].key].stale THEN Goto(r, "remove") ELSE Answer(r)
  /\ UNCHANGED <<uploadFiles, deliveredFiles, revivedUpload, uploadUpsets>>

SweepRemoves(r) ==
  LET task == uploadTask[r] IN
  /\ At(r, "sweep", "remove")
  /\ \/ /\ uploadFiles' = [uploadFiles EXCEPT ![task.key] =
                            IF task.file = "done" THEN [@ EXCEPT !.done = NoFile] ELSE Removed(@, {task.file})]
        /\ UNCHANGED uploadUpsets
     \/ Upset /\ UNCHANGED uploadFiles
  /\ Answer(r)
  /\ UNCHANGED <<deliveredFiles, revivedUpload>>

---------------------------------------------------------------------------

\* An hour without a piece.
Expires(id) ==
  /\ uploadFiles[id] # Unused /\ ~uploadFiles[id].stale
  /\ Upset
  /\ uploadFiles' = [uploadFiles EXCEPT ![id].stale = TRUE]
  /\ UNCHANGED <<uploadTask, deliveredFiles, revivedUpload>>

\* The queues are gone, the files are not; a piece may be half written.
UploadsRestart ==
  /\ \E r \in UploadRequests : uploadTask[r] # NoUploadTask
  /\ Upset
  /\ uploadTask' = [r \in UploadRequests |-> NoUploadTask]
  /\ \/ UNCHANGED <<uploadFiles, revivedUpload>>
     \/ \E r \in UploadRequests :
          /\ At(r, "append", "write")
          /\ \E n \in 1..uploadTask[r].length :
               uploadFiles' = [uploadFiles EXCEPT ![uploadTask[r].key] = Appended(@, Bytes(uploadTask[r], n))]
          /\ revivedUpload' = (revivedUpload \/ uploadFiles[uploadTask[r].key].stale)
     \/ \E r \in UploadRequests, id \in UploadIds :   \* create, between its two files
          /\ At(r, "start", "create")
          /\ uploadFiles[id] = Unused /\ deliveredFiles[id] = <<>>
          /\ uploadFiles' = [uploadFiles EXCEPT ![id].part = <<>>]
          /\ UNCHANGED revivedUpload
  /\ UNCHANGED deliveredFiles

UploadsInit ==
  /\ uploadFiles = [id \in UploadIds |-> Unused]
  /\ uploadTask = [r \in UploadRequests |-> NoUploadTask]
  /\ deliveredFiles = [id \in UploadIds |-> <<>>]
  /\ revivedUpload = FALSE
  /\ uploadUpsets = 0

UploadsNext ==
  \/ \E r \in UploadRequests, owner \in Uploaders : AskStart(r, owner)
  \/ \E r \in UploadRequests, id \in UploadIds, file \in {"json", "part", "done"} :
       FileIsThere(id, file) /\ AskSweep(r, id, file)
  \/ \E r \in UploadRequests, id \in UploadIds, owner \in Uploaders :
       /\ uploadFiles[id].json = owner
       /\ \/ AskFinish(r, owner, id) \/ AskCancel(r, owner, id)
          \/ \E from \in 0..(UploadSize - 1), length \in 1..UploadSize : AskAppend(r, owner, id, from, length)
  \/ \E r \in UploadRequests :
       \/ StartChecks(r) \/ create(r) \/ AppendChecks(r) \/ AppendWrites(r) \/ AppendFails(r)
       \/ truncateOrLog(r) \/ DropSession(r) \/ FinishChecks(r) \/ FinishRenames(r) \/ FinishRemoves(r)
       \/ TakeFile(r) \/ cancel(r) \/ SweepLooks(r) \/ SweepRemoves(r)
  \/ \E id \in UploadIds : Expires(id)
  \/ UploadsRestart

---------------------------------------------------------------------------

\* Variables hold what the code keeps in them.
UploadsTypeOK ==
  /\ \A id \in UploadIds :
       /\ uploadFiles[id].json \in Uploaders \cup {Nobody}
       /\ \A file \in {uploadFiles[id].part, uploadFiles[id].done} : file = NoFile \/ Len(file) <= UploadSize
  /\ \A r \in UploadRequests : uploadTask[r] = NoUploadTask \/ r \notin uploadTask[r].ahead
  /\ uploadUpsets \in 0..MaxUploadUpsets

\* A file is handed to the area's checks at most once, and it is the declared file: every byte
\* once and in its place, whatever was sent twice, failed halfway or was cut off by a restart
\* (finish's promise, and append's "no gaps or overlaps").
UploadsAreWhole ==
  \A id \in UploadIds :
    /\ Len(deliveredFiles[id]) <= 1
    /\ \A i \in DOMAIN deliveredFiles[id] : deliveredFiles[id][i] = [b \in 1..UploadSize |-> b]

\* start's checks hold of the sessions at every moment: a user has one upload, the area at most
\* maxSessions.  A session whose last piece was being written when it expired comes back to life
\* beside the one started meanwhile; those histories are left out.
OneUploadEach ==
  revivedUpload \/
    /\ Cardinality(Live) <= MaxLive
    /\ \A i, j \in Live : uploadFiles[i].json = uploadFiles[j].json => i = j

\* It is the turn of a request that ends the session: the user's cancel or finish, or a piece that
\* failed and could not be cut off again.
Ending(id) ==
  \E r \in UploadRequests :
    /\ uploadTask[r] # NoUploadTask /\ uploadTask[r].key = id /\ serialise(r)
    /\ uploadTask[r].kind \in {"cancel", "finish"} \/ uploadTask[r].pc = "drop"

\* Byte i is of a piece that failed and is about to be cut off.
LeftOver(id, i) ==
  \E r \in UploadRequests :
    /\ uploadTask[r] # NoUploadTask /\ uploadTask[r].key = id
    /\ uploadTask[r].pc = "rollback" /\ i > uploadTask[r].offset

\* What a piece was confirmed with stays while the session is alive: no sweep, no rollback and no
\* other request takes it away, apart from those that end the session.
ConfirmedBytesStay ==
  [][\A id \in UploadIds : Loads(id) /\ ~Ending(id) =>
       /\ uploadFiles'[id].json # Nobody /\ uploadFiles'[id].part # NoFile
       /\ \A i \in 1..Received(id) :
            \/ LeftOver(id, i)
            \/ i <= Len(uploadFiles'[id].part) /\ uploadFiles'[id].part[i] = uploadFiles[id].part[i]]_uploadVars

===============================================================================
