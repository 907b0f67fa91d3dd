---------------------------- MODULE OverlayVideos ----------------------------
(***************************************************************************)
(* An overlay video after its upload: admitted to one of the processing    *)
(* slots, moved or converted into the streamer's folder, recorded in the   *)
(* database, deleted again.  Conversions wait for each other; ffmpeg may   *)
(* fail, hang, or not die when it is killed.  Clients leave, file and      *)
(* database operations fail, and the process stops.                        *)
(***************************************************************************)
EXTENDS Naturals, Sequences, FiniteSets

CONSTANTS
  OverlayUploads,
  MAX_CONCURRENT_OVERLAY_UPLOADS,
  MAX_PENDING_WEBM_TRANSCODES,
  MaxVideoUpsets       \* failures, clients that leave and restarts

VARIABLES
  overlayUpload,       \* each upload's request: where it is, its type, its slot, its ffmpeg
  overlayFiles,        \* the files on disk that belong to each upload
  videoRows,           \* overlay_video
  activeUploads,
  pendingTranscodes,
  transcodeQueue,      \* conversions waiting or running, first come first
  rowUnknown,          \* uploads whose INSERT was committed but reported as failed
  videoUpsets

videoVars == <<overlayUpload, overlayFiles, videoRows, activeUploads, pendingTranscodes, transcodeQueue,
               rowUnknown, videoUpsets>>

VideoTypes == {"webm", "mov", "other"}
TempFiles == {"incoming", "source", "partial"}
NewUpload == [pc |-> "new", type |-> "unknown", slot |-> "none", ffmpeg |-> "none"]

VideoUpset == videoUpsets < MaxVideoUpsets /\ videoUpsets' = videoUpsets + 1
NoVideoUpset == UNCHANGED videoUpsets

Moves(u, pc) == overlayUpload' = [overlayUpload EXCEPT ![u].pc = pc]
Gains(u, file) == overlayFiles' = [overlayFiles EXCEPT ![u] = @ \cup {file}]
Loses(u, file) == overlayFiles' = [overlayFiles EXCEPT ![u] = @ \ {file}]
Renames(u, from, to) == overlayFiles' = [overlayFiles EXCEPT ![u] = (@ \ {from}) \cup {to}]

Processing == {u \in OverlayUploads : overlayUpload[u].pc \notin {"new", "done"}}

---------------------------------------------------------------------------

\* The upload has been finished and adopted.
limitConcurrentUploads(u) ==
  /\ overlayUpload[u].pc = "new"
  /\ IF activeUploads >= MAX_CONCURRENT_OVERLAY_UPLOADS
     THEN /\ overlayUpload' = [overlayUpload EXCEPT ![u].pc = "discard"]
          /\ UNCHANGED activeUploads
     ELSE /\ overlayUpload' = [overlayUpload EXCEPT ![u].pc = "detect", ![u].slot = "held"]
          /\ activeUploads' = activeUploads + 1
  /\ Gains(u, "incoming")
  /\ UNCHANGED <<videoRows, pendingTranscodes, transcodeQueue, rowUnknown, videoUpsets>>

detectUploadedVideoType(u) ==
  /\ overlayUpload[u].pc = "detect"
  /\ \E type \in VideoTypes :
       overlayUpload' = [overlayUpload EXCEPT ![u].type = type,
                           ![u].pc = CASE type = "webm" -> "place" [] type = "mov" -> "source" [] OTHER -> "discard"]
  /\ UNCHANGED <<overlayFiles, videoRows, activeUploads, pendingTranscodes, transcodeQueue, rowUnknown, videoUpsets>>

\* placeUpload to the final name, or to the temporary name that ffmpeg reads.
placeUpload(u) ==
  /\ \/ /\ overlayUpload[u].pc = "place"
        /\ Renames(u, "incoming", "stored") /\ Moves(u, "row")
        /\ NoVideoUpset
     \/ /\ overlayUpload[u].pc = "source"
        /\ Renames(u, "incoming", "source") /\ Moves(u, "transcode")
        /\ NoVideoUpset
     \/ /\ overlayUpload[u].pc \in {"place", "source"}
        /\ VideoUpset /\ Moves(u, "discard") /\ UNCHANGED overlayFiles
  /\ UNCHANGED <<videoRows, activeUploads, pendingTranscodes, transcodeQueue, rowUnknown>>

---------------------------------------------------------------------------

\* Throws transcode_busy without queueing.
transcodeToWebm(u) ==
  /\ overlayUpload[u].pc = "transcode"
  /\ IF pendingTranscodes >= MAX_PENDING_WEBM_TRANSCODES
     THEN Moves(u, "unpart") /\ UNCHANGED <<pendingTranscodes, transcodeQueue>>
     ELSE /\ pendingTranscodes' = pendingTranscodes + 1
          /\ transcodeQueue' = Append(transcodeQueue, u)
          /\ Moves(u, "queued")
  /\ UNCHANGED <<overlayFiles, videoRows, activeUploads, rowUnknown, videoUpsets>>

\* runConversion and runFfmpeg: a process that cannot be started reports an error.
runFfmpeg(u) ==
  /\ overlayUpload[u].pc = "queued"
  /\ Head(transcodeQueue) = u
  /\ \/ /\ overlayUpload' = [overlayUpload EXCEPT ![u].pc = "encode", ![u].ffmpeg = "running"]
        /\ Gains(u, "partial")
        /\ UNCHANGED <<pendingTranscodes, transcodeQueue, videoUpsets>>
     \/ /\ VideoUpset
        /\ Moves(u, "unpart")
        /\ pendingTranscodes' = pendingTranscodes - 1
        /\ transcodeQueue' = Tail(transcodeQueue)
        /\ UNCHANGED overlayFiles
  /\ UNCHANGED <<videoRows, activeUploads, rowUnknown>>

\* settle: the promise settles, the queue goes on and the pending slot is given back.
Settle(u, pc, ffmpeg) ==
  /\ overlayUpload' = [overlayUpload EXCEPT ![u].pc = pc, ![u].ffmpeg = ffmpeg]
  /\ pendingTranscodes' = pendingTranscodes - 1
  /\ transcodeQueue' = Tail(transcodeQueue)
  /\ UNCHANGED <<overlayFiles, videoRows, activeUploads, rowUnknown>>

\* close, with code 0 or not.
FfmpegCloses(u) ==
  /\ overlayUpload[u].pc = "encode"
  /\ \/ overlayUpload[u].ffmpeg = "running" /\ NoVideoUpset /\ Settle(u, "publish", "none")
     \/ overlayUpload[u].ffmpeg = "running" /\ VideoUpset /\ Settle(u, "unpart", "none")
     \/ overlayUpload[u].ffmpeg = "killed" /\ NoVideoUpset /\ Settle(u, "unpart", "none")

\* Mistake: the conversion is over as soon as ffmpeg has been told to die.
SettlesAtTimeout(u) ==
  /\ overlayUpload[u].pc = "encode" /\ overlayUpload[u].ffmpeg = "running"
  /\ NoVideoUpset
  /\ Settle(u, "unpart", "killed")

FfmpegTimesOut(u) ==
  /\ overlayUpload[u].pc = "encode" /\ overlayUpload[u].ffmpeg = "running"
  /\ overlayUpload' = [overlayUpload EXCEPT ![u].ffmpeg = "killed"]
  /\ UNCHANGED <<overlayFiles, videoRows, activeUploads, pendingTranscodes, transcodeQueue, rowUnknown, videoUpsets>>

\* Mistake: a conversion whose ffmpeg was killed waits for its close event.
GraceNeverEnds(u) == FALSE /\ UNCHANGED videoVars

\* KILLED_FFMPEG_EXIT_GRACE_MS: the slot is released although ffmpeg may still run.
ExitGraceEnds(u) ==
  /\ overlayUpload[u].pc = "encode" /\ overlayUpload[u].ffmpeg = "killed"
  /\ NoVideoUpset
  /\ Settle(u, "unpart", "overstayed")

\* A process that outlived its grace exits at last.
OverstayerExits(u) ==
  /\ overlayUpload[u].ffmpeg = "overstayed"
  /\ overlayUpload' = [overlayUpload EXCEPT ![u].ffmpeg = "none"]
  /\ UNCHANGED <<overlayFiles, videoRows, activeUploads, pendingTranscodes, transcodeQueue, rowUnknown, videoUpsets>>

\* assertWebmOutput and the rename to the served name.
PublishWebm(u) ==
  /\ overlayUpload[u].pc = "publish"
  /\ \/ Renames(u, "partial", "stored") /\ Moves(u, "unsource") /\ NoVideoUpset
     \/ VideoUpset /\ Moves(u, "unpart") /\ UNCHANGED overlayFiles
  /\ UNCHANGED <<videoRows, activeUploads, pendingTranscodes, transcodeQueue, rowUnknown>>

\* removeQuietly, of the partial file on failure and of the source always; it may fail.
removeQuietly(u) ==
  /\ \/ /\ overlayUpload[u].pc = "unpart"
        /\ Loses(u, "partial") /\ Moves(u, "unsource") /\ NoVideoUpset
     \/ /\ overlayUpload[u].pc = "unsource"
        /\ Loses(u, "source") /\ NoVideoUpset
        /\ Moves(u, IF "stored" \in overlayFiles[u] THEN "row" ELSE "discard")
     \/ /\ overlayUpload[u].pc \in {"unpart", "unsource"}
        /\ VideoUpset /\ UNCHANGED overlayFiles
        /\ Moves(u, IF overlayUpload[u].pc = "unpart" THEN "unsource"
                    ELSE IF "stored" \in overlayFiles[u] THEN "row" ELSE "discard")
  /\ UNCHANGED <<videoRows, activeUploads, pendingTranscodes, transcodeQueue, rowUnknown>>

---------------------------------------------------------------------------

\* The INSERT; its commit may be reported as a failure.
addVideo(u) ==
  /\ overlayUpload[u].pc = "row"
  /\ \/ videoRows' = videoRows \cup {u} /\ Moves(u, "discard") /\ UNCHANGED <<rowUnknown, videoUpsets>>
     \/ VideoUpset /\ Moves(u, "undo") /\ UNCHANGED <<videoRows, rowUnknown>>
     \/ VideoUpset /\ Moves(u, "undo") /\ videoRows' = videoRows \cup {u} /\ rowUnknown' = rowUnknown \cup {u}
  /\ UNCHANGED <<overlayFiles, activeUploads, pendingTranscodes, transcodeQueue>>

UndoStored(u) ==
  /\ overlayUpload[u].pc = "undo"
  /\ Moves(u, "discard")
  /\ \/ Loses(u, "stored") /\ NoVideoUpset
     \/ VideoUpset /\ UNCHANGED overlayFiles
  /\ UNCHANGED <<videoRows, activeUploads, pendingTranscodes, transcodeQueue, rowUnknown>>

\* Mistake: the slot is given back on finish and again on close.
ReleasedTwice(u) == activeUploads' = activeUploads - 1

Release(u) == activeUploads' = IF overlayUpload[u].slot = "held" THEN activeUploads - 1 ELSE activeUploads

\* The response goes out (finish); discardUpload removes what is left in the incoming folder.
discardUpload(u) ==
  /\ overlayUpload[u].pc = "discard"
  /\ overlayUpload' = [overlayUpload EXCEPT ![u].pc = "done", ![u].slot = "none"]
  /\ Release(u)
  /\ \/ Loses(u, "incoming") /\ NoVideoUpset
     \/ VideoUpset /\ UNCHANGED overlayFiles
  /\ UNCHANGED <<videoRows, pendingTranscodes, transcodeQueue, rowUnknown>>

\* close: the slot goes back, the work goes on.
ClientLeaves(u) ==
  /\ overlayUpload[u].slot = "held"
  /\ VideoUpset
  /\ overlayUpload' = [overlayUpload EXCEPT ![u].slot = "none"]
  /\ Release(u)
  /\ UNCHANGED <<overlayFiles, videoRows, pendingTranscodes, transcodeQueue, rowUnknown>>

\* The row goes first, and the file after it.
deleteVideo(u) ==
  /\ u \in videoRows /\ overlayUpload[u].pc = "done"
  /\ videoRows' = videoRows \ {u}
  /\ Moves(u, "unlink")
  /\ UNCHANGED <<overlayFiles, activeUploads, pendingTranscodes, transcodeQueue, rowUnknown, videoUpsets>>

removeDeletedVideoFile(u) ==
  /\ overlayUpload[u].pc = "unlink"
  /\ Moves(u, "done")
  /\ \/ Loses(u, "stored") /\ NoVideoUpset
     \/ VideoUpset /\ UNCHANGED overlayFiles
  /\ UNCHANGED <<videoRows, activeUploads, pendingTranscodes, transcodeQueue, rowUnknown>>

\* Files that are too old to belong to a request that is still working.
sweepStaleTempFiles(u) ==
  /\ overlayUpload[u].pc = "done" /\ overlayFiles[u] \cap TempFiles # {}
  /\ overlayFiles' = [overlayFiles EXCEPT ![u] = @ \ TempFiles]
  /\ UNCHANGED <<overlayUpload, videoRows, activeUploads, pendingTranscodes, transcodeQueue, rowUnknown, videoUpsets>>

\* stopWebmTranscodes kills the running ffmpeg, and the process is gone.
VideosRestart ==
  /\ Processing # {}
  /\ VideoUpset
  /\ overlayUpload' = [u \in OverlayUploads |->
       IF u \in Processing THEN [overlayUpload[u] EXCEPT !.pc = "done", !.slot = "none", !.ffmpeg = "none"]
       ELSE overlayUpload[u]]
  /\ activeUploads' = 0 /\ pendingTranscodes' = 0 /\ transcodeQueue' = <<>>
  /\ UNCHANGED <<overlayFiles, videoRows, rowUnknown>>

VideosInit ==
  /\ overlayUpload = [u \in OverlayUploads |-> NewUpload]
  /\ overlayFiles = [u \in OverlayUploads |-> {}]
  /\ videoRows = {} /\ rowUnknown = {}
  /\ activeUploads = 0 /\ pendingTranscodes = 0 /\ transcodeQueue = <<>>
  /\ videoUpsets = 0

\* What an upload under way does next.
VideoGoesOn(u) ==
  \/ detectUploadedVideoType(u) \/ placeUpload(u) \/ transcodeToWebm(u) \/ runFfmpeg(u)
  \/ PublishWebm(u) \/ removeQuietly(u) \/ addVideo(u) \/ UndoStored(u) \/ discardUpload(u)
  \/ removeDeletedVideoFile(u)

VideosNext ==
  \/ \E u \in OverlayUploads :
       \/ limitConcurrentUploads(u) \/ VideoGoesOn(u)
       \/ FfmpegCloses(u) \/ FfmpegTimesOut(u) \/ ExitGraceEnds(u) \/ OverstayerExits(u)
       \/ ClientLeaves(u) \/ deleteVideo(u) \/ sweepStaleTempFiles(u)
  \/ VideosRestart

---------------------------------------------------------------------------

\* Variables hold what the code keeps in them.
VideosTypeOK ==
  /\ \A u \in OverlayUploads : overlayFiles[u] \subseteq TempFiles \cup {"stored"}
  /\ videoRows \subseteq OverlayUploads
  /\ activeUploads \in 0..MAX_CONCURRENT_OVERLAY_UPLOADS
  /\ pendingTranscodes \in 0..MAX_PENDING_WEBM_TRANSCODES

\* The overlay can play every video its settings list: a recorded video has its file, through
\* failed inserts, deletes and restarts.  An insert that is reported as failed after it was
\* committed is the one way to lose the file.
ListedVideosPlay == \A u \in videoRows \ rowUnknown : "stored" \in overlayFiles[u]

\* runFfmpeg's promise to its caller: while ffmpeg works on an upload, no other conversion has
\* been started and neither of its files has been taken away, unless it has outlived its grace.
EncoderAlone ==
  \A u \in OverlayUploads : overlayUpload[u].ffmpeg \in {"running", "killed"} =>
    /\ {"source", "partial"} \subseteq overlayFiles[u]
    /\ \A v \in OverlayUploads \ {u} : overlayUpload[v].ffmpeg \notin {"running", "killed"}

\* Both slot counters count requests that are really there: a slot is never given back twice
\* (more would run than allowed) and never kept (nobody could upload any more).
SlotsAreCounted ==
  /\ activeUploads = Cardinality({u \in OverlayUploads : overlayUpload[u].slot = "held"})
  /\ pendingTranscodes = Cardinality({u \in OverlayUploads : overlayUpload[u].pc \in {"queued", "encode"}})

\* No upload is under way: what every upload comes to, whatever ffmpeg does and whoever waits
\* before it.
UploadsEnded == Processing = {}

===============================================================================
