-------------------------- MODULE PanelServicesProofs --------------------------
(***************************************************************************)
(* Proofs about the services of PanelServices: the chat commands and their *)
(* named locks, the voice connection, the points and the raffles, the      *)
(* uploads in pieces and the overlay's videos, for any number of requests, *)
(* rows, words, connections, uses, raffles, viewers, uploads, bytes,       *)
(* slots, failures and restarts, and any prices.                           *)
(***************************************************************************)
EXTENDS PanelServices, FiniteSetTheorems, TLAPS

-----------------------------------------------------------------------------
(* Voice: joins that overtake each other, drops and a guild that goes      *)

\* The attempt that waits holds the connection that is pending, and the guild holds none meanwhile;
\* a drop that is waited for is one of a connection that is watched.
VoiceInv ==
  /\ Voice!VoiceTypeOK /\ orphanKilled \in {"yes", "no"}
  /\ voice.pending = attempt.conn
  /\ attempt.pc = "waiting" <=> attempt.conn # 0
  /\ attempt.pc # "none" => voice.connection = 0
  /\ voice.dropWait = "yes" => voice.watched # 0
  /\ Voice!VoiceHoldsTogether

LinkStatuses == {"free", "joining", "ready", "dropped", "recovering", "destroyed"}
VoiceRecords ==
  [connection : Connections \cup {0}, pending : Connections \cup {0}, auto : {"yes", "no"}, timer : {"set", "none"},
   watched : Connections \cup {0}, dropWait : {"yes", "no"}, playing : {"yes", "no"}]

LEMMA VoiceTypes ==
  Voice!VoiceTypeOK <=>
    /\ voice \in VoiceRecords
    /\ attempt \in [pc : {"none", "resolving", "waiting"}, conn : Connections \cup {0}]
    /\ staleCalls \subseteq [conn : Connections, orphan : {"yes", "no"}]
    /\ linkStatus \in [Connections -> LinkStatuses]
    /\ sound \in {"none", "reading"}
    /\ voiceUpsets \in 0 .. MaxVoiceUpsets
BY DEF Voice!VoiceTypeOK, Voice!None, VoiceRecords, LinkStatuses

LEMMA VoiceInitInv == ASSUME Voice!VoiceInit PROVE VoiceInv
<1> USE DEF Voice!VoiceInit, Voice!NoAttempt, Voice!None
<1>1. Voice!VoiceTypeOK
  BY VoiceAssumption DEF Voice!VoiceTypeOK
<1>2. Voice!VoiceHoldsTogether
  BY DEF Voice!VoiceHoldsTogether, Voice!Alive
<1> QED
  BY <1>1, <1>2 DEF VoiceInv

\* Destroying a connection ends that one only.
LEMMA DestroyedFacts ==
  ASSUME VoiceInv, NEW c \in Connections \cup {0}, linkStatus' = Voice!Destroyed(c)
  PROVE  /\ linkStatus' \in [Connections -> LinkStatuses]
         /\ Voice!Alive' = Voice!Alive \ {c}
BY VoiceTypes, VoiceAssumption DEF VoiceInv, Voice!Destroyed, Voice!Alive, Voice!None, LinkStatuses

\* The guild lets go of its connection, and what waits becomes a call that is stale.
LEMMA LetGoFacts ==
  ASSUME VoiceInv
  PROVE  /\ Voice!Disconnected \in VoiceRecords
         /\ Voice!Disconnected.pending = 0 /\ Voice!Disconnected.dropWait = "no"
         /\ orphanKilled = "no" => /\ ~Voice!DestroyThrows /\ Voice!Disconnected.connection = 0
                                   /\ Voice!Disconnected.playing = "no"
         /\ ~Voice!DestroyThrows => Voice!Disconnected.connection = 0
         /\ Voice!Superseded \subseteq [conn : Connections, orphan : {"yes", "no"}]
         /\ \A call \in staleCalls : call \in Voice!Superseded
         /\ attempt.conn # 0 => \E call \in Voice!Superseded : call.conn = attempt.conn
<1> DEFINE letGo == [voice EXCEPT !.pending = 0, !.auto = "no", !.timer = "none", !.watched = 0, !.dropWait = "no"]
<1>1. /\ letGo \in VoiceRecords /\ letGo.pending = 0 /\ letGo.dropWait = "no" /\ letGo.connection = voice.connection
      /\ letGo.playing = voice.playing
  BY VoiceTypes DEF VoiceInv, VoiceRecords
<1>2. Voice!Disconnected = IF voice.connection = 0 \/ Voice!DestroyThrows THEN letGo
                           ELSE [letGo EXCEPT !.connection = 0, !.playing = "no"]
  BY DEF Voice!Disconnected, Voice!None
<1> HIDE DEF letGo
<1>3. LET d == [letGo EXCEPT !.connection = 0, !.playing = "no"]
      IN  d \in VoiceRecords /\ d.pending = 0 /\ d.dropWait = "no" /\ d.connection = 0 /\ d.playing = "no"
  BY <1>1 DEF VoiceRecords
<1>4. orphanKilled = "no" => ~Voice!DestroyThrows
  BY DEF VoiceInv, Voice!VoiceHoldsTogether, Voice!DestroyThrows, Voice!None
<1>5. orphanKilled = "no" /\ voice.connection = 0 => voice.playing = "no"
  BY VoiceTypes DEF VoiceInv, Voice!VoiceHoldsTogether, Voice!None, VoiceRecords
<1>6. /\ Voice!Superseded \subseteq [conn : Connections, orphan : {"yes", "no"}]
      /\ \A call \in staleCalls : call \in Voice!Superseded
      /\ attempt.conn # 0 => \E call \in Voice!Superseded : call.conn = attempt.conn
  <2>1. attempt.pc = "waiting" =>
          [conn |-> attempt.conn, orphan |-> "no"] \in [conn : Connections, orphan : {"yes", "no"}]
    BY VoiceTypes DEF VoiceInv
  <2>2. staleCalls \subseteq [conn : Connections, orphan : {"yes", "no"}]
    BY VoiceTypes DEF VoiceInv
  <2>3. attempt.conn # 0 => [conn |-> attempt.conn, orphan |-> "no"] \in Voice!Superseded
    BY DEF VoiceInv, Voice!Superseded
  <2>4. [conn |-> attempt.conn, orphan |-> "no"].conn = attempt.conn
    OBVIOUS
  <2> QED
    BY <2>1, <2>2, <2>3, <2>4 DEF Voice!Superseded
<1>7. ~Voice!DestroyThrows => Voice!Disconnected.connection = 0
  BY <1>1, <1>2, <1>3
<1> QED
  BY <1>1, <1>2, <1>3, <1>4, <1>5, <1>6, <1>7

LEMMA VoiceUpsetType == ASSUME VoiceInv, Voice!VoiceUpset \/ UNCHANGED voiceUpsets PROVE voiceUpsets' \in 0 .. MaxVoiceUpsets
BY VoiceTypes, VoiceAssumption DEF VoiceInv, Voice!VoiceUpset

\* Join, leave and a forgotten guild: whatever was alive is destroyed or in a call that will release it.
LEMMA LeaveKeepsVoiceInv ==
  ASSUME VoiceInv, Voice!Join \/ Voice!disconnectGuild \/ Voice!forgetGuild
  PROVE  VoiceInv'
<1>1. voice \in VoiceRecords
  BY VoiceTypes DEF VoiceInv
<1>2. linkStatus' = Voice!Destroyed(voice.connection) /\ voice.connection \in Connections \cup {0}
  BY <1>1 DEF Voice!Join, Voice!disconnectGuild, Voice!forgetGuild, VoiceRecords
<1>3. linkStatus' \in [Connections -> LinkStatuses] /\ Voice!Alive' = Voice!Alive \ {voice.connection}
  BY <1>2, DestroyedFacts
<1>4. UNCHANGED <<sound, orphanKilled>> /\ voiceUpsets' \in 0 .. MaxVoiceUpsets
  BY VoiceUpsetType DEF Voice!Join, Voice!disconnectGuild, Voice!forgetGuild
<1>5. /\ voice' \in VoiceRecords /\ voice'.pending = 0 /\ voice'.dropWait = "no"
      /\ orphanKilled = "no" => voice'.connection = 0 /\ voice'.playing = "no"
      /\ ~Voice!DestroyThrows => voice'.connection = 0
  <2> DEFINE d == Voice!Disconnected
  <2>1. /\ d \in VoiceRecords /\ d.pending = 0 /\ d.dropWait = "no"
        /\ orphanKilled = "no" => d.connection = 0 /\ d.playing = "no"
        /\ ~Voice!DestroyThrows => d.connection = 0
    BY LetGoFacts
  <2> HIDE DEF d
  <2>2. \/ \E auto \in {"yes", "no"} : voice' = [d EXCEPT !.auto = auto]
        \/ voice' = d
        \/ voice' = [d EXCEPT !.playing = "no"]
    BY DEF d, Voice!Join, Voice!disconnectGuild, Voice!forgetGuild
  <2> QED
    BY <2>1, <2>2 DEF VoiceRecords
<1>6. /\ attempt' \in [pc : {"none", "resolving", "waiting"}, conn : Connections \cup {0}]
      /\ attempt'.conn = 0 /\ attempt'.pc # "waiting"
      /\ attempt'.pc # "none" => ~Voice!DestroyThrows
  BY DEF Voice!Join, Voice!disconnectGuild, Voice!forgetGuild, Voice!NoAttempt, Voice!Resolving, Voice!None
<1>7. /\ staleCalls' \subseteq [conn : Connections, orphan : {"yes", "no"}]
      /\ \A call \in Voice!Superseded : \E after \in staleCalls' : after.conn = call.conn
  <2>1. CASE staleCalls' = Voice!Superseded
    BY <2>1, LetGoFacts
  <2>2. CASE staleCalls' = {[call EXCEPT !.orphan = "yes"] : call \in Voice!Superseded}
    <3>1. ASSUME NEW call \in Voice!Superseded
          PROVE  LET after == [call EXCEPT !.orphan = "yes"]
                 IN  after \in [conn : Connections, orphan : {"yes", "no"}] /\ after.conn = call.conn
      BY LetGoFacts
    <3> QED
      BY <2>2, <3>1
  <2> QED
    BY <2>1, <2>2 DEF Voice!Join, Voice!disconnectGuild, Voice!forgetGuild
<1>8. Voice!VoiceTypeOK'
  <2>1. sound' \in {"none", "reading"}
    BY <1>4, VoiceTypes DEF VoiceInv
  <2> QED
    BY <1>3, <1>4, <1>5, <1>6, <1>7, <2>1 DEF Voice!VoiceTypeOK, Voice!None, VoiceRecords, LinkStatuses
<1>9. Voice!VoiceHoldsTogether'
  <2> SUFFICES ASSUME orphanKilled = "no"
               PROVE  /\ voice'.connection # 0 => voice'.connection \in Voice!Alive'
                      /\ Voice!Alive' \subseteq Voice!Referenced'
                      /\ voice'.playing = "yes" => voice'.connection # 0
    BY <1>4 DEF Voice!VoiceHoldsTogether, Voice!None
  <2>1. ASSUME NEW c \in Voice!Alive' PROVE c \in Voice!Referenced'
    <3>1. c \in Voice!Alive /\ c # voice.connection /\ c # 0
      BY <1>3, <2>1, VoiceAssumption DEF Voice!Alive
    <3>2. c \in {voice.pending, attempt.conn} \cup {call.conn : call \in staleCalls}
      BY <3>1 DEF VoiceInv, Voice!VoiceHoldsTogether, Voice!Referenced
    <3>3. \E call \in Voice!Superseded : call.conn = c
      BY <3>1, <3>2, LetGoFacts DEF VoiceInv
    <3> QED
      BY <1>7, <3>3 DEF Voice!Referenced
  <2> QED
    BY <1>5, <2>1
<1> QED
  BY <1>4, <1>5, <1>6, <1>8, <1>9 DEF VoiceInv

LEMMA VoiceFacts ==
  ASSUME VoiceInv
  PROVE  /\ voice \in VoiceRecords /\ voiceUpsets \in 0 .. MaxVoiceUpsets /\ sound \in {"none", "reading"}
         /\ attempt \in [pc : {"none", "resolving", "waiting"}, conn : Connections \cup {0}]
         /\ staleCalls \subseteq [conn : Connections, orphan : {"yes", "no"}]
         /\ linkStatus \in [Connections -> LinkStatuses]
         /\ orphanKilled = "no" => /\ voice.connection # 0 => voice.connection \in Voice!Alive
                                   /\ Voice!Alive \subseteq Voice!Referenced
                                   /\ voice.playing = "yes" => voice.connection # 0
BY VoiceTypes DEF VoiceInv, Voice!VoiceHoldsTogether, Voice!None

\* What is to be shown of the state after a step.
LEMMA VoiceInvHolds ==
  ASSUME voice' \in VoiceRecords, voiceUpsets' \in 0 .. MaxVoiceUpsets, sound' \in {"none", "reading"},
         attempt' \in [pc : {"none", "resolving", "waiting"}, conn : Connections \cup {0}],
         staleCalls' \subseteq [conn : Connections, orphan : {"yes", "no"}],
         linkStatus' \in [Connections -> LinkStatuses],
         orphanKilled' \in {"yes", "no"},
         voice'.pending = attempt'.conn,
         attempt'.pc = "waiting" <=> attempt'.conn # 0,
         attempt'.pc # "none" => voice'.connection = 0,
         voice'.dropWait = "yes" => voice'.watched # 0,
         orphanKilled' = "no" /\ voice'.connection # 0 => voice'.connection \in Voice!Alive',
         orphanKilled' = "no" => Voice!Alive' \subseteq Voice!Referenced',
         orphanKilled' = "no" /\ voice'.playing = "yes" => voice'.connection # 0
  PROVE  VoiceInv'
<1>1. Voice!VoiceTypeOK'
  BY DEF Voice!VoiceTypeOK, Voice!None, VoiceRecords, LinkStatuses
<1>2. Voice!VoiceHoldsTogether'
  BY DEF Voice!VoiceHoldsTogether, Voice!None
<1> QED
  BY <1>1, <1>2 DEF VoiceInv

\* A reconnect is scheduled only in the record's timer.
LEMMA ScheduleFacts ==
  ASSUME NEW v \in VoiceRecords
  PROVE  LET after == Voice!scheduleReconnect(v)
         IN  /\ after \in VoiceRecords
             /\ <<after.connection, after.pending, after.watched, after.dropWait, after.playing>>
                = <<v.connection, v.pending, v.watched, v.dropWait, v.playing>>
BY DEF Voice!scheduleReconnect, VoiceRecords

LEMMA ReconnectTimerKeepsVoiceInv == ASSUME VoiceInv, Voice!ReconnectTimer PROVE VoiceInv'
<1>1. UNCHANGED <<linkStatus, sound, voiceUpsets, badChannel, orphanKilled>>
  BY DEF Voice!ReconnectTimer
<1>2. Voice!Alive' = Voice!Alive
  BY <1>1 DEF Voice!Alive
<1>3. orphanKilled \in {"yes", "no"}
  BY DEF VoiceInv
<1>4. CASE voice.auto = "yes" /\ voice.connection = 0
  <2>1. /\ voice' = [voice EXCEPT !.timer = "none", !.pending = 0, !.watched = 0, !.dropWait = "no"]
        /\ staleCalls' = Voice!Superseded
        /\ attempt' = Voice!Resolving
    BY <1>4 DEF Voice!ReconnectTimer, Voice!None
  <2>2. /\ voice' \in VoiceRecords /\ voice'.pending = 0 /\ voice'.connection = 0 /\ voice'.dropWait = "no"
        /\ voice'.playing = voice.playing
    BY <1>4, <2>1, VoiceFacts DEF VoiceRecords
  <2>3. attempt'.pc = "resolving" /\ attempt'.conn = 0
        /\ attempt' \in [pc : {"none", "resolving", "waiting"}, conn : Connections \cup {0}]
    BY <2>1 DEF Voice!Resolving, Voice!None
  <2>4. ASSUME orphanKilled = "no", NEW c \in Voice!Alive PROVE c \in Voice!Referenced'
    <3>1. c # 0
      BY VoiceAssumption DEF Voice!Alive
    <3>2. c \in {voice.pending, attempt.conn} \cup {call.conn : call \in staleCalls}
      BY <1>4, <2>4, <3>1, VoiceFacts DEF Voice!Referenced
    <3>3. \E call \in Voice!Superseded : call.conn = c
      BY <3>1, <3>2, LetGoFacts DEF VoiceInv
    <3> QED
      BY <2>1, <3>3 DEF Voice!Referenced
  <2>5. staleCalls' \subseteq [conn : Connections, orphan : {"yes", "no"}]
    BY <2>1, LetGoFacts
  <2>6. orphanKilled = "no" => voice'.playing # "yes"
    BY <1>4, <2>2, VoiceFacts
  <2> QED
    BY <1>1, <1>2, <1>3, <2>2, <2>3, <2>4, <2>5, <2>6, VoiceFacts, VoiceInvHolds
<1>5. CASE ~(voice.auto = "yes" /\ voice.connection = 0)
  <2>1. voice' = [voice EXCEPT !.timer = "none"] /\ UNCHANGED <<staleCalls, attempt>>
    BY <1>5 DEF Voice!ReconnectTimer, Voice!None
  <2>2. /\ voice' \in VoiceRecords
        /\ <<voice'.connection, voice'.pending, voice'.watched, voice'.dropWait, voice'.playing>>
           = <<voice.connection, voice.pending, voice.watched, voice.dropWait, voice.playing>>
    BY <2>1, VoiceFacts DEF VoiceRecords
  <2>3. Voice!Referenced' = Voice!Referenced
    BY <2>1, <2>2 DEF Voice!Referenced
  <2>4. /\ voice.pending = attempt.conn /\ (attempt.pc = "waiting" <=> attempt.conn # 0)
        /\ attempt.pc # "none" => voice.connection = 0
        /\ voice.dropWait = "yes" => voice.watched # 0
    BY DEF VoiceInv
  <2> QED
    BY <1>1, <1>2, <1>3, <2>1, <2>2, <2>3, <2>4, VoiceFacts, VoiceInvHolds
<1> QED
  BY <1>4, <1>5

\* The connection that a join is given is alive, or one that nobody refers to.
LEMMA JoinKeepsVoiceInv == ASSUME VoiceInv, Voice!joinVoiceChannel PROVE VoiceInv'
<1> DEFINE j == Voice!Joined
<1>1. /\ attempt = Voice!Resolving /\ (Voice!Alive # {} \/ Connections \ Voice!Referenced # {})
      /\ linkStatus' = [linkStatus EXCEPT ![j] = IF @ \in {"ready", "recovering"} THEN @ ELSE "joining"]
      /\ voice' = [voice EXCEPT !.pending = j, !.watched = j]
      /\ attempt' = [pc |-> "waiting", conn |-> j]
      /\ UNCHANGED <<staleCalls, sound, voiceUpsets, badChannel, orphanKilled>>
  BY DEF Voice!joinVoiceChannel
<1>2. j \in Connections
  BY <1>1 DEF Voice!Joined, Voice!Alive
<1> HIDE DEF j
<1>3. j # 0 /\ orphanKilled \in {"yes", "no"}
  BY <1>2, VoiceAssumption DEF VoiceInv
<1>4. voice.connection = 0 /\ voice.pending = 0 /\ attempt.conn = 0
  BY <1>1 DEF VoiceInv, Voice!Resolving, Voice!None
<1>5. linkStatus' \in [Connections -> LinkStatuses] /\ Voice!Alive' \subseteq Voice!Alive \cup {j}
  BY <1>1, <1>2, VoiceFacts DEF Voice!Alive, LinkStatuses
<1>6. /\ voice' \in VoiceRecords /\ voice'.pending = j /\ voice'.watched = j /\ voice'.connection = 0
      /\ voice'.playing = voice.playing
  BY <1>1, <1>2, <1>4, VoiceFacts DEF VoiceRecords
<1>7. attempt' \in [pc : {"none", "resolving", "waiting"}, conn : Connections \cup {0}]
      /\ attempt'.pc = "waiting" /\ attempt'.conn = j
  BY <1>1, <1>2
<1>8. orphanKilled = "no" => Voice!Alive' \subseteq Voice!Referenced'
  <2> SUFFICES ASSUME orphanKilled = "no", NEW c \in Voice!Alive' PROVE c \in Voice!Referenced'
    OBVIOUS
  <2>1. CASE c = j
    BY <1>7, <2>1 DEF Voice!Referenced
  <2>2. CASE c \in Voice!Alive
    <3>1. c # 0
      BY <2>2, VoiceAssumption DEF Voice!Alive
    <3>2. c \in {call.conn : call \in staleCalls}
      BY <1>4, <2>2, <3>1, VoiceFacts DEF Voice!Referenced
    <3> QED
      BY <1>1, <3>2 DEF Voice!Referenced
  <2> QED
    BY <1>5, <2>1, <2>2
<1>9. orphanKilled = "no" => voice'.playing # "yes"
  BY <1>4, <1>6, VoiceFacts
<1> QED
  BY <1>1, <1>3, <1>5, <1>6, <1>7, <1>8, <1>9, VoiceFacts, VoiceInvHolds

\* A connect() that ends: refused before it joined, ready, or out of time.
LEMMA AttemptEndsKeepsVoiceInv ==
  ASSUME VoiceInv, Voice!ResolveFails \/ Voice!Promote \/ Voice!ReadyTimesOut
  PROVE  VoiceInv'
<1>1. UNCHANGED <<staleCalls, sound, orphanKilled>> /\ voiceUpsets' \in 0 .. MaxVoiceUpsets
  BY VoiceUpsetType DEF Voice!ResolveFails, Voice!Promote, Voice!ReadyTimesOut
<1>2. attempt' = [pc |-> "none", conn |-> 0]
  BY DEF Voice!ResolveFails, Voice!Promote, Voice!ReadyTimesOut, Voice!NoAttempt, Voice!None
<1>3. orphanKilled \in {"yes", "no"} /\ voice.connection = 0 /\ voice.pending = attempt.conn
  BY DEF VoiceInv, Voice!ResolveFails, Voice!Promote, Voice!ReadyTimesOut, Voice!Resolving
<1>4. voice.dropWait = "yes" => voice.watched # 0
  BY DEF VoiceInv
<1>5. orphanKilled = "no" => voice.playing # "yes" /\ Voice!Alive \subseteq Voice!Referenced
  BY <1>3, VoiceFacts
<1> DEFINE w == [voice EXCEPT !.pending = 0]
<1>6. /\ w \in VoiceRecords
      /\ <<w.connection, w.pending, w.watched, w.dropWait, w.playing>>
         = <<voice.connection, 0, voice.watched, voice.dropWait, voice.playing>>
  BY VoiceFacts DEF VoiceRecords
<1>7. CASE Voice!Promote
  <2> DEFINE c == attempt.conn
  <2>1. /\ attempt.pc = "waiting" /\ linkStatus[c] = "ready"
        /\ voice' = [voice EXCEPT !.pending = 0, !.connection = c, !.timer = "none"]
        /\ UNCHANGED linkStatus
    BY <1>7 DEF Voice!Promote, Voice!None
  <2>2. c \in Connections /\ c # 0
    BY <2>1, VoiceFacts DEF VoiceInv
  <2>3. Voice!Alive' = Voice!Alive /\ c \in Voice!Alive
    BY <2>1, <2>2 DEF Voice!Alive
  <2>4. /\ voice' \in VoiceRecords
        /\ <<voice'.connection, voice'.pending, voice'.watched, voice'.dropWait, voice'.playing>>
           = <<c, 0, voice.watched, voice.dropWait, voice.playing>>
    BY <2>1, <2>2, VoiceFacts DEF VoiceRecords
  <2>5. Voice!Referenced \subseteq Voice!Referenced'
    BY <1>1, <1>2, <1>3, <2>4 DEF Voice!Referenced
  <2> QED
    BY <1>1, <1>2, <1>3, <1>4, <1>5, <2>1, <2>2, <2>3, <2>4, <2>5, VoiceFacts, VoiceInvHolds
<1>8. CASE Voice!ReadyTimesOut
  <2>1. linkStatus' = Voice!Destroyed(attempt.conn) /\ voice' = Voice!scheduleReconnect(w)
    BY <1>8 DEF Voice!ReadyTimesOut, Voice!None
  <2>2. linkStatus' \in [Connections -> LinkStatuses] /\ Voice!Alive' = Voice!Alive \ {attempt.conn}
    BY <2>1, DestroyedFacts, VoiceFacts
  <2> HIDE DEF w
  <2>3. /\ voice' \in VoiceRecords
        /\ <<voice'.connection, voice'.pending, voice'.watched, voice'.dropWait, voice'.playing>>
           = <<voice.connection, 0, voice.watched, voice.dropWait, voice.playing>>
    BY <1>6, <2>1, ScheduleFacts
  <2>4. Voice!Referenced \subseteq Voice!Referenced' \cup {attempt.conn}
    BY <1>1, <1>2, <1>3, <2>3 DEF Voice!Referenced
  <2> QED
    BY <1>1, <1>2, <1>3, <1>4, <1>5, <2>2, <2>3, <2>4, VoiceFacts, VoiceInvHolds
<1>9. CASE Voice!ResolveFails
  <2>1. /\ attempt.conn = 0 /\ UNCHANGED linkStatus
        /\ voice' = w \/ voice' = Voice!scheduleReconnect(w)
    BY <1>9 DEF Voice!ResolveFails, Voice!Resolving, Voice!None
  <2> HIDE DEF w
  <2>2. /\ voice' \in VoiceRecords
        /\ <<voice'.connection, voice'.pending, voice'.watched, voice'.dropWait, voice'.playing>>
           = <<voice.connection, 0, voice.watched, voice.dropWait, voice.playing>>
    BY <1>6, <2>1, ScheduleFacts
  <2>3. Voice!Alive' = Voice!Alive /\ Voice!Referenced \subseteq Voice!Referenced'
    BY <1>1, <1>2, <1>3, <2>1, <2>2 DEF Voice!Referenced, Voice!Alive
  <2> QED
    BY <1>1, <1>2, <1>3, <1>4, <1>5, <2>1, <2>2, <2>3, VoiceFacts, VoiceInvHolds
<1> QED
  BY <1>7, <1>8, <1>9

\* What a step has to show that leaves the attempt, the stale calls and the core of the record alone.
LEMMA LinkStepKeepsVoiceInv ==
  ASSUME VoiceInv, UNCHANGED <<attempt, staleCalls>>, voice' \in VoiceRecords,
         sound' \in {"none", "reading"}, voiceUpsets' \in 0 .. MaxVoiceUpsets, orphanKilled' = orphanKilled,
         linkStatus' \in [Connections -> LinkStatuses], Voice!Alive' = Voice!Alive,
         voice'.connection = voice.connection, voice'.pending = voice.pending,
         voice'.dropWait = "yes" => voice'.watched # 0,
         voice'.playing = "yes" => voice.playing = "yes" \/ voice.connection # 0
  PROVE  VoiceInv'
<1>1. /\ voice.pending = attempt.conn /\ (attempt.pc = "waiting" <=> attempt.conn # 0)
      /\ attempt.pc # "none" => voice.connection = 0
      /\ orphanKilled \in {"yes", "no"}
  BY DEF VoiceInv
<1>2. Voice!Referenced' = Voice!Referenced
  BY DEF Voice!Referenced
<1> QED
  BY <1>1, <1>2, VoiceFacts, VoiceInvHolds

\* The library's own events, and the sounds.
LEMMA EventsKeepVoiceInv ==
  ASSUME VoiceInv,
         \/ \E c \in Connections : Voice!LinkReady(c) \/ Voice!LinkDrops(c) \/ Voice!LinkRecovers(c)
         \/ Voice!PlayFile \/ Voice!startPlayback \/ Voice!PlayerIdle
  PROVE  VoiceInv'
<1>1. UNCHANGED <<attempt, staleCalls>> /\ orphanKilled' = orphanKilled /\ voiceUpsets' \in 0 .. MaxVoiceUpsets
  BY VoiceUpsetType
  DEF Voice!LinkReady, Voice!LinkDrops, Voice!LinkRecovers, Voice!PlayFile, Voice!startPlayback, Voice!PlayerIdle
<1>2. sound' \in {"none", "reading"}
  BY VoiceFacts
  DEF Voice!LinkReady, Voice!LinkDrops, Voice!LinkRecovers, Voice!PlayFile, Voice!startPlayback, Voice!PlayerIdle
<1>3. voice.dropWait = "yes" => voice.watched # 0
  BY DEF VoiceInv
<1>4. CASE \E c \in Connections : Voice!LinkReady(c) \/ Voice!LinkDrops(c) \/ Voice!LinkRecovers(c)
  <2>1. PICK c \in Connections : Voice!LinkReady(c) \/ Voice!LinkDrops(c) \/ Voice!LinkRecovers(c)
    BY <1>4
  <2>2. c # 0
    BY VoiceAssumption
  <2>3. /\ linkStatus[c] \notin {"free", "destroyed"}
        /\ \E next \in LinkStatuses \ {"free", "destroyed"} : linkStatus' = [linkStatus EXCEPT ![c] = next]
    BY <2>1 DEF Voice!LinkReady, Voice!LinkDrops, Voice!LinkRecovers, LinkStatuses
  <2>4. linkStatus' \in [Connections -> LinkStatuses] /\ Voice!Alive' = Voice!Alive
    BY <2>3, VoiceFacts DEF Voice!Alive
  <2>5. \/ voice' = voice
        \/ voice.watched = c /\ \E wait \in {"yes", "no"} : voice' = [voice EXCEPT !.dropWait = wait]
    BY <2>1 DEF Voice!LinkReady, Voice!LinkDrops, Voice!LinkRecovers
  <2>6. /\ voice' \in VoiceRecords
        /\ <<voice'.connection, voice'.pending, voice'.watched, voice'.playing>>
           = <<voice.connection, voice.pending, voice.watched, voice.playing>>
        /\ voice'.dropWait = "yes" => voice'.watched # 0
    BY <1>3, <2>2, <2>5, VoiceFacts DEF VoiceRecords
  <2> QED
    BY <1>1, <1>2, <2>4, <2>6, LinkStepKeepsVoiceInv
<1>5. CASE Voice!PlayFile \/ Voice!startPlayback \/ Voice!PlayerIdle
  <2>1. linkStatus' = linkStatus /\ Voice!Alive' = Voice!Alive
    BY <1>5 DEF Voice!PlayFile, Voice!startPlayback, Voice!PlayerIdle, Voice!Alive
  <2>2. \/ voice' = voice
        \/ voice' = [voice EXCEPT !.playing = "no"]
        \/ voice.connection # 0 /\ voice' = [voice EXCEPT !.playing = "yes"]
    BY <1>5 DEF Voice!PlayFile, Voice!startPlayback, Voice!PlayerIdle, Voice!CheckedAgain, Voice!isReady, Voice!None
  <2>3. /\ voice' \in VoiceRecords
        /\ <<voice'.connection, voice'.pending, voice'.watched, voice'.dropWait>>
           = <<voice.connection, voice.pending, voice.watched, voice.dropWait>>
        /\ voice'.playing = "yes" => voice.playing = "yes" \/ voice.connection # 0
    BY <2>2, VoiceFacts DEF VoiceRecords
  <2>4. linkStatus' \in [Connections -> LinkStatuses] /\ (voice'.dropWait = "yes" => voice'.watched # 0)
    BY <1>3, <2>1, <2>3, VoiceFacts
  <2> QED
    BY <1>1, <1>2, <2>1, <2>3, <2>4, LinkStepKeepsVoiceInv
<1> QED
  BY <1>4, <1>5

\* A stale call spares what its state still uses, or has just killed a newer state's connection.
LEMMA StaleEndsKeepsVoiceInv == ASSUME VoiceInv, Voice!StaleEnds PROVE VoiceInv'
<1>1. PICK call \in staleCalls : Voice!releaseStaleConnection(call)
  BY DEF Voice!StaleEnds
<1> DEFINE c == call.conn
<1>2. c \in Connections /\ c # 0 /\ call.orphan \in {"yes", "no"}
  BY <1>1, VoiceFacts, VoiceAssumption
<1>3. /\ linkStatus' = IF Voice!StillUsed(call) THEN linkStatus ELSE Voice!Destroyed(c)
      /\ orphanKilled' = IF call.orphan = "yes" /\ c \in {voice.connection, attempt.conn} /\ c \in Voice!Alive
                         THEN "yes" ELSE orphanKilled
      /\ staleCalls' = staleCalls \ {call}
      /\ UNCHANGED <<voice, attempt, sound, voiceUpsets, badChannel>>
  BY <1>1 DEF Voice!releaseStaleConnection
<1>4. Voice!StillUsed(call) <=> call.orphan = "no" /\ c \in {voice.connection, voice.pending}
  BY DEF Voice!StillUsed
<1>5. /\ voice.pending = attempt.conn /\ (attempt.pc = "waiting" <=> attempt.conn # 0)
      /\ attempt.pc # "none" => voice.connection = 0
      /\ voice.dropWait = "yes" => voice.watched # 0
      /\ orphanKilled \in {"yes", "no"}
  BY DEF VoiceInv
<1>6. /\ linkStatus' \in [Connections -> LinkStatuses]
      /\ Voice!Alive' = IF Voice!StillUsed(call) THEN Voice!Alive ELSE Voice!Alive \ {c}
  <2>1. CASE Voice!StillUsed(call)
    BY <1>3, <2>1, VoiceFacts DEF Voice!Alive
  <2>2. CASE ~Voice!StillUsed(call)
    BY <1>2, <1>3, <2>2, DestroyedFacts
  <2> QED
    BY <2>1, <2>2
<1>7. Voice!Referenced \subseteq Voice!Referenced' \cup {c}
  BY <1>3 DEF Voice!Referenced
<1>8. Voice!StillUsed(call) => c \in Voice!Referenced'
  BY <1>3, <1>4 DEF Voice!Referenced
<1>9. orphanKilled' \in {"yes", "no"} /\ (orphanKilled' = "no" => orphanKilled = "no")
  BY <1>3, <1>5
<1>10. ASSUME orphanKilled' = "no", voice.connection # 0 PROVE voice.connection \in Voice!Alive'
  <2>1. voice.connection \in Voice!Alive
    BY <1>9, <1>10, VoiceFacts
  <2>2. CASE voice.connection = c
    <3>1. call.orphan = "no"
      BY <1>2, <1>3, <1>10, <2>1, <2>2
    <3> QED
      BY <1>4, <1>6, <2>1, <2>2, <3>1
  <2> QED
    BY <1>6, <2>1, <2>2
<1>11. orphanKilled' = "no" => Voice!Alive' \subseteq Voice!Referenced'
  BY <1>6, <1>7, <1>8, <1>9, VoiceFacts
<1>12. staleCalls' \subseteq [conn : Connections, orphan : {"yes", "no"}]
  BY <1>3, VoiceFacts
<1> HIDE DEF c
<1> QED
  BY <1>3, <1>5, <1>6, <1>9, <1>10, <1>11, <1>12, VoiceFacts, VoiceInvHolds

\* A drop that lasts ends the connection that was watched, and the guild's if it is that one.
LEMMA DropKeepsVoiceInv == ASSUME VoiceInv, Voice!handleDisconnected PROVE VoiceInv'
<1> DEFINE w == voice.watched
           over == [voice EXCEPT !.dropWait = "no"]
           cleared == [over EXCEPT !.connection = IF @ = w THEN 0 ELSE @]
           torn == Voice!TornDown(cleared)
<1>1. /\ voice.dropWait = "yes" /\ linkStatus' = Voice!Destroyed(w)
      /\ voice' = IF linkStatus[w] = "destroyed" THEN over ELSE Voice!scheduleReconnect(torn)
      /\ UNCHANGED <<attempt, staleCalls, sound, voiceUpsets, badChannel, orphanKilled>>
  BY DEF Voice!handleDisconnected, Voice!None
<1>2. w \in Connections /\ w # 0
  BY <1>1, VoiceFacts DEF VoiceInv, VoiceRecords
<1>3. linkStatus' \in [Connections -> LinkStatuses] /\ Voice!Alive' = Voice!Alive \ {w}
  BY <1>1, <1>2, DestroyedFacts
<1>4. /\ over \in VoiceRecords
      /\ <<over.connection, over.pending, over.watched, over.dropWait, over.playing>>
         = <<voice.connection, voice.pending, w, "no", voice.playing>>
  BY VoiceFacts DEF VoiceRecords
<1>5. /\ torn \in VoiceRecords
      /\ <<torn.connection, torn.pending, torn.watched, torn.dropWait, torn.playing>>
         = <<IF voice.connection = w THEN 0 ELSE voice.connection, voice.pending, w, "no", "no">>
  <2> HIDE DEF over
  <2>1. /\ cleared \in VoiceRecords
        /\ <<cleared.connection, cleared.pending, cleared.watched, cleared.dropWait>>
           = <<IF voice.connection = w THEN 0 ELSE voice.connection, voice.pending, w, "no">>
    BY <1>4 DEF VoiceRecords
  <2> HIDE DEF cleared
  <2> QED
    BY <2>1 DEF VoiceRecords, Voice!TornDown
<1>6. /\ voice.pending = attempt.conn /\ (attempt.pc = "waiting" <=> attempt.conn # 0)
      /\ attempt.pc # "none" => voice.connection = 0
      /\ orphanKilled \in {"yes", "no"}
  BY DEF VoiceInv
<1> HIDE DEF over, torn
<1>7. CASE linkStatus[w] = "destroyed"
  <2>1. Voice!Alive' = Voice!Alive
    BY <1>3, <1>7 DEF Voice!Alive
  <2> QED
    BY <1>1, <1>3, <1>4, <1>7, <2>1, VoiceFacts, LinkStepKeepsVoiceInv
<1>8. CASE linkStatus[w] # "destroyed"
  <2>1. /\ voice' \in VoiceRecords
        /\ <<voice'.connection, voice'.pending, voice'.watched, voice'.dropWait, voice'.playing>>
           = <<IF voice.connection = w THEN 0 ELSE voice.connection, voice.pending, w, "no", "no">>
    BY <1>1, <1>5, <1>8, ScheduleFacts
  <2>2. Voice!Referenced \subseteq Voice!Referenced' \cup {w}
    BY <1>1, <2>1 DEF Voice!Referenced
  <2>3. orphanKilled = "no" => Voice!Alive' \subseteq Voice!Referenced'
    BY <1>3, <2>2, VoiceFacts
  <2>4. orphanKilled = "no" /\ voice'.connection # 0 => voice'.connection \in Voice!Alive'
    BY <1>3, <2>1, VoiceFacts
  <2>5. attempt.pc # "none" => voice'.connection = 0
    BY <1>6, <2>1
  <2> HIDE DEF w
  <2> QED
    BY <1>1, <1>3, <1>6, <2>1, <2>3, <2>4, <2>5, VoiceFacts, VoiceInvHolds
<1> QED
  BY <1>7, <1>8

LEMMA VoiceStep == ASSUME VoiceInv, Voice!VoiceNext PROVE VoiceInv'
BY LeaveKeepsVoiceInv, ReconnectTimerKeepsVoiceInv, JoinKeepsVoiceInv, AttemptEndsKeepsVoiceInv, EventsKeepVoiceInv,
   StaleEndsKeepsVoiceInv, DropKeepsVoiceInv
DEF Voice!VoiceNext, Voice!AttemptEnds, Voice!LinkSettles

LEMMA VoiceStutter == ASSUME VoiceInv, UNCHANGED voiceVars PROVE VoiceInv'
<1>1. Voice!Alive' = Voice!Alive
  BY DEF voiceVars, Voice!Alive
<1>2. /\ voice.dropWait = "yes" => voice.watched # 0
      /\ UNCHANGED <<voice, attempt, staleCalls, linkStatus, sound, voiceUpsets, orphanKilled>>
  BY DEF VoiceInv, voiceVars
<1> QED
  BY <1>1, <1>2, VoiceFacts, LinkStepKeepsVoiceInv

-----------------------------------------------------------------------------
(* Points: charges, refunds and everything that asks for them again        *)

Costs == 0 .. MaxCost
UseOps == [from : Points!Sources, rearm : {"yes", "no"}]
UseRecords ==
  [pc : {"new", "caps", "charge", "record", "compensate", "push", "ended"}, cost : Costs,
   row : {"none", "pending", "no_ack_needed", "succeeded", "refunded"}, timer : {"none", "ack", "retry"},
   ops : SUBSET UseOps, pushed : {"yes", "no"}, returned : Nat,
   stray : {"no", "unswept", "unknown"}]

\* Points come back with the row that turns to refunded, or, when no row was ever seen, at the end of the handler.
UseIsSettled(use) ==
  \/ use.stray = "unknown"
  \/ use.row = "none" /\ use.returned = 0
  \/ use.row = "none" /\ use.returned = 1 /\ use.pc = "ended"
  \/ use.row # "none" /\ use.pc \in {"push", "ended"} /\ use.returned = IF use.row = "refunded" THEN 1 ELSE 0

PointsInv ==
  /\ uses \in [Uses -> UseRecords] /\ \A u \in Uses : UseIsSettled(uses[u])
  /\ balance \in 0 .. MAX_BALANCE /\ useUpsets \in 0 .. MaxUseUpsets

\* The components' cardinality is the one the library's facts are about.
LEMMA SameCardinality == \A S : Points!Cardinality(S) = Cardinality(S) /\ Raffle!Cardinality(S) = Cardinality(S)
BY DEF Points!Cardinality, Raffle!Cardinality, Cardinality

LEMMA LeastOfTwo ==
  ASSUME NEW a \in Nat, NEW b \in Nat
  PROVE  /\ Points!Min({a, b}) \in Nat /\ Points!Min({a, b}) <= a /\ Points!Min({a, b}) <= b
<1>1. \E x \in {a, b} : \A y \in {a, b} : x =< y
  <2>1. CASE a <= b
    BY <2>1
  <2>2. CASE ~(a <= b)
    BY <2>2
  <2> QED
    BY <2>1, <2>2
<1>2. Points!Min({a, b}) \in {a, b} /\ \A y \in {a, b} : Points!Min({a, b}) =< y
  BY <1>1 DEF Points!Min
<1> QED
  BY <1>2

\* A use costs no more than the cap, and the calls about it are of the sources there are.
LEMMA UseParts ==
  /\ 0 \in Costs /\ Costs \subseteq Nat
  /\ \A from \in Points!Sources, rearm \in {"yes", "no"} : Points!Op(from, rearm) \in UseOps
  /\ \A n \in Nat : n + 1 \in Nat /\ (n = 0 => n + 1 = 1)
BY PointsAssumption DEF Costs, UseOps, Points!Op

\* The price of a use: capped, whatever the number of uses it is counted from.
LEMMA PriceIsCapped == Points!computeCommandCost \in Costs
<1>1. Cardinality(Points!Counted) \in Nat
  <2>1. Points!Counted \subseteq Uses
    BY DEF Points!Counted
  <2> QED
    BY <2>1, PointsAssumption, FS_Subset, FS_CardinalityType
<1> DEFINE price == PointCost + PriceStep * Cardinality(Points!Counted)
<1>2. price \in Nat /\ MaxCost \in Nat
  BY <1>1, PointsAssumption
<1>3. Points!computeCommandCost = Points!Min({price, MaxCost})
  BY SameCardinality DEF Points!computeCommandCost
<1> HIDE DEF price
<1> QED
  BY <1>2, <1>3, LeastOfTwo DEF Costs

LEMMA PointsInitInv == ASSUME Points!UsesInit PROVE PointsInv
<1>1. Points!NewUse \in UseRecords /\ UseIsSettled(Points!NewUse)
  BY UseParts DEF Points!NewUse, UseRecords, UseIsSettled
<1> QED
  BY <1>1, PointsAssumption DEF PointsInv, Points!UsesInit

\* One use changes, and stays settled.
LEMMA OneUseChanges ==
  ASSUME PointsInv, NEW u \in Uses, NEW use \in UseRecords, UseIsSettled(use), uses' = [uses EXCEPT ![u] = use],
         balance' \in 0 .. MAX_BALANCE, useUpsets' \in 0 .. MaxUseUpsets
  PROVE  PointsInv'
BY DEF PointsInv

\* The handler's own steps.
LEMMA UseGoesOnKeepsPointsInv ==
  ASSUME PointsInv, NEW u \in Uses,
         \/ Points!checkChatGates(u) \/ Points!capsAndCost(u) \/ Points!charge(u)
         \/ Points!recordAdvancedCommandUsage(u) \/ Points!CreditBack(u) \/ Points!runAdvancedCommandEffects(u)
         \/ Points!RefundTimerFires(u)
  PROVE  PointsInv'
<1> DEFINE use == uses[u]
<1>1. use \in UseRecords /\ UseIsSettled(use)
  BY DEF PointsInv
<1> HIDE DEF use
<1>0. useUpsets' \in 0 .. MaxUseUpsets
  <2>1. Points!UseUpset \/ UNCHANGED useUpsets
    BY DEF Points!checkChatGates, Points!capsAndCost, Points!charge,
       Points!recordAdvancedCommandUsage, Points!CreditBack, Points!runAdvancedCommandEffects, Points!RefundTimerFires
  <2> QED
    BY <2>1, PointsAssumption DEF PointsInv, Points!UseUpset
<1>2. balance' \in 0 .. MAX_BALANCE
  <2>1. UNCHANGED balance \/ Points!charge(u) \/ Points!CreditBack(u)
    BY DEF Points!checkChatGates, Points!capsAndCost, Points!recordAdvancedCommandUsage,
       Points!runAdvancedCommandEffects, Points!RefundTimerFires
  <2>2. use.cost \in Nat
    BY <1>1, UseParts DEF UseRecords
  <2>3. \/ balance' \in {balance, balance - use.cost} /\ balance >= use.cost
        \/ balance' \in {balance, Points!adjusted(use.cost)}
    BY <2>1 DEF Points!charge, Points!CreditBack, use
  <2> QED
    BY <2>2, <2>3, PointsAssumption DEF PointsInv, Points!adjusted
<1> SUFFICES \E after \in UseRecords : uses' = [uses EXCEPT ![u] = after] /\ UseIsSettled(after)
  BY <1>0, <1>2, OneUseChanges
<1>3. CASE Points!checkChatGates(u)
  <2>1. PICK pc \in {"ended", "caps"} : use.pc = "new" /\ uses' = [uses EXCEPT ![u] = [use EXCEPT !.pc = pc]]
    BY <1>3 DEF use, Points!checkChatGates, Points!Set
  <2>2. LET after == [use EXCEPT !.pc = pc] IN after \in UseRecords /\ UseIsSettled(after)
    BY <1>1, <2>1 DEF UseRecords, UseIsSettled
  <2> QED
    BY <2>1, <2>2
<1>4. CASE Points!capsAndCost(u)
  <2>1. CASE uses' = [uses EXCEPT ![u] = [use EXCEPT !.pc = "ended"]] /\ use.pc = "caps"
    <3>1. LET after == [use EXCEPT !.pc = "ended"] IN after \in UseRecords /\ UseIsSettled(after)
      BY <1>1, <2>1 DEF UseRecords, UseIsSettled
    <3> QED
      BY <2>1, <3>1
  <2>2. CASE /\ use.pc = "caps"
             /\ \E cost \in Costs : uses' = [uses EXCEPT ![u] = [use EXCEPT !.pc = "charge", !.cost = cost]]
    <3>1. PICK cost \in Costs : uses' = [uses EXCEPT ![u] = [use EXCEPT !.pc = "charge", !.cost = cost]]
      BY <2>2
    <3>2. LET after == [use EXCEPT !.pc = "charge", !.cost = cost] IN after \in UseRecords /\ UseIsSettled(after)
      BY <1>1, <2>2 DEF UseRecords, UseIsSettled
    <3> QED
      BY <3>1, <3>2
  <2>3. Points!computeCommandCost \in Costs /\ 0 \in Costs
    BY PriceIsCapped, UseParts
  <2> QED
    BY <1>4, <2>1, <2>2, <2>3 DEF use, Points!capsAndCost, Points!Set
<1>5. CASE Points!charge(u)
  <2>1. /\ use.pc = "charge"
        /\ \/ uses' = [uses EXCEPT ![u] = [use EXCEPT !.pc = "record"]]
           \/ uses' = [uses EXCEPT ![u] = [use EXCEPT !.pc = "ended", !.cost = 0]]
           \/ uses' = [uses EXCEPT ![u] = [use EXCEPT !.pc = "ended"]]
    BY <1>5 DEF use, Points!charge, Points!Set
  <2>2. LET after == [use EXCEPT !.pc = "record"] IN after \in UseRecords /\ UseIsSettled(after)
    BY <1>1, <2>1 DEF UseRecords, UseIsSettled
  <2>3. LET after == [use EXCEPT !.pc = "ended", !.cost = 0] IN after \in UseRecords /\ UseIsSettled(after)
    BY <1>1, <2>1, UseParts DEF UseRecords, UseIsSettled
  <2>4. LET after == [use EXCEPT !.pc = "ended"] IN after \in UseRecords /\ UseIsSettled(after)
    BY <1>1, <2>1 DEF UseRecords, UseIsSettled
  <2> QED
    BY <2>1, <2>2, <2>3, <2>4
<1>6. CASE Points!recordAdvancedCommandUsage(u)
  <2>1. use.pc = "record"
    BY <1>6 DEF use, Points!recordAdvancedCommandUsage
  <2>2. \/ uses' = [uses EXCEPT ![u] = [use EXCEPT !.row = "pending", !.pc = "push"]]
        \/ uses' = [uses EXCEPT ![u] = [use EXCEPT !.row = "no_ack_needed", !.pc = "ended"]]
        \/ uses' = [uses EXCEPT ![u] = [use EXCEPT !.pc = "compensate"]]
        \/ uses' = [uses EXCEPT ![u] = [use EXCEPT !.pc = "compensate", !.row = "pending", !.stray = "unknown"]]
    BY <1>6 DEF use, Points!recordAdvancedCommandUsage, Points!Set
  <2>3. LET after == [use EXCEPT !.row = "pending", !.pc = "push"] IN after \in UseRecords /\ UseIsSettled(after)
    BY <1>1, <2>1 DEF UseRecords, UseIsSettled
  <2>4. LET after == [use EXCEPT !.row = "no_ack_needed", !.pc = "ended"]
        IN  after \in UseRecords /\ UseIsSettled(after)
    BY <1>1, <2>1 DEF UseRecords, UseIsSettled
  <2>5. LET after == [use EXCEPT !.pc = "compensate"] IN after \in UseRecords /\ UseIsSettled(after)
    BY <1>1, <2>1 DEF UseRecords, UseIsSettled
  <2>6. LET after == [use EXCEPT !.pc = "compensate", !.row = "pending", !.stray = "unknown"]
        IN  after \in UseRecords /\ UseIsSettled(after)
    BY <1>1, <2>1 DEF UseRecords, UseIsSettled
  <2> QED
    BY <2>2, <2>3, <2>4, <2>5, <2>6
<1>7. CASE Points!CreditBack(u)
  <2>1. /\ use.pc = "compensate"
        /\ \/ uses' = [uses EXCEPT ![u] = [use EXCEPT !.pc = "ended", !.returned = @ + 1]]
           \/ uses' = [uses EXCEPT ![u] = [use EXCEPT !.pc = "ended"]]
    BY <1>7 DEF use, Points!CreditBack, Points!Set
  <2>2. LET after == [use EXCEPT !.pc = "ended", !.returned = @ + 1] IN after \in UseRecords /\ UseIsSettled(after)
    <3> DEFINE back == use.returned + 1
    <3>1. back \in Nat /\ (use.returned = 0 => back = 1)
      BY <1>1 DEF UseRecords
    <3> HIDE DEF back
    <3>2. LET after == [use EXCEPT !.pc = "ended", !.returned = back] IN after \in UseRecords /\ UseIsSettled(after)
      BY <1>1, <2>1, <3>1 DEF UseRecords, UseIsSettled
    <3> QED
      BY <3>2 DEF back
  <2>3. LET after == [use EXCEPT !.pc = "ended"] IN after \in UseRecords /\ UseIsSettled(after)
    BY <1>1, <2>1 DEF UseRecords, UseIsSettled
  <2> QED
    BY <2>1, <2>2, <2>3
<1>8. CASE Points!runAdvancedCommandEffects(u)
  <2>1. /\ use.pc = "push"
        /\ \/ uses' = [uses EXCEPT ![u] = [use EXCEPT !.pc = "ended", !.pushed = "yes", !.timer = "ack"]]
           \/ uses' = [uses EXCEPT ![u] =
                         [use EXCEPT !.pc = "ended", !.ops = @ \cup {Points!Op("no_companion", "yes")}]]
    BY <1>8 DEF use, Points!runAdvancedCommandEffects, Points!Set
  <2>2. LET after == [use EXCEPT !.pc = "ended", !.pushed = "yes", !.timer = "ack"]
        IN  after \in UseRecords /\ UseIsSettled(after)
    BY <1>1, <2>1 DEF UseRecords, UseIsSettled
  <2>3. LET after == [use EXCEPT !.pc = "ended", !.ops = @ \cup {Points!Op("no_companion", "yes")}]
        IN  after \in UseRecords /\ UseIsSettled(after)
    <3> DEFINE op == Points!Op("no_companion", "yes")
    <3>1. op \in UseOps
      BY UseParts DEF Points!Sources
    <3> HIDE DEF op
    <3>2. LET after == [use EXCEPT !.pc = "ended", !.ops = @ \cup {op}]
          IN  after \in UseRecords /\ UseIsSettled(after)
      BY <1>1, <2>1, <3>1 DEF UseRecords, UseIsSettled
    <3> QED
      BY <3>2 DEF op
  <2> QED
    BY <2>1, <2>2, <2>3
<1>9. CASE Points!RefundTimerFires(u)
  <2>1. uses' = [uses EXCEPT ![u] = [use EXCEPT !.timer = "none", !.ops = @ \cup {Points!Op("timeout", "yes")}]]
    BY <1>9 DEF use, Points!RefundTimerFires, Points!Set
  <2>2. LET after == [use EXCEPT !.timer = "none", !.ops = @ \cup {Points!Op("timeout", "yes")}]
        IN  after \in UseRecords /\ UseIsSettled(after)
    <3> DEFINE op == Points!Op("timeout", "yes")
    <3>1. op \in UseOps
      BY UseParts DEF Points!Sources
    <3> HIDE DEF op
    <3>2. LET after == [use EXCEPT !.timer = "none", !.ops = @ \cup {op}]
          IN  after \in UseRecords /\ UseIsSettled(after)
      BY <1>1, <2>1, <3>1 DEF UseRecords, UseIsSettled
    <3> QED
      BY <3>2 DEF op
  <2> QED
    BY <2>1, <2>2
<1> QED
  BY <1>3, <1>4, <1>5, <1>6, <1>7, <1>8, <1>9

\* A row that is pending is resolved once, and the points come back with it or not at all.
LEMMA ResolvedFacts ==
  ASSUME PointsInv, NEW u \in Uses, NEW op
  PROVE  /\ Points!Resolved(u, op) \in UseRecords /\ UseIsSettled(Points!Resolved(u, op))
         /\ Points!Credit(u, op) \in 0 .. MAX_BALANCE
<1> DEFINE use == uses[u]
           outcome == Points!Outcome(op)
           stray == IF use.stray = "unknown" THEN "unknown" ELSE "no"
           returned == IF outcome = "refunded" THEN use.returned + 1 ELSE use.returned
<1>1. use \in UseRecords /\ UseIsSettled(use) /\ balance \in 0 .. MAX_BALANCE
  BY DEF PointsInv
<1>2. outcome \in {"succeeded", "refunded"}
  BY DEF Points!Outcome
<1>3. Points!Resolved(u, op) = IF use.row = "pending"
                               THEN [use EXCEPT !.row = outcome, !.stray = stray, !.returned = returned]
                               ELSE use
  BY DEF Points!Resolved, Points!IsPending
<1>4. /\ returned \in Nat
      /\ use.returned = 0 => returned = IF outcome = "refunded" THEN 1 ELSE 0
  <2> HIDE DEF use, outcome
  <2> QED
    BY <1>1, UseParts DEF UseRecords
<1>5. stray \in {"no", "unknown"} /\ (use.stray = "unknown" => stray = "unknown")
  OBVIOUS
<1>6. Points!Credit(u, op) \in 0 .. MAX_BALANCE
  <2>1. use.cost \in Nat
    BY <1>1, UseParts DEF UseRecords
  <2>2. Points!Credit(u, op) \in {balance, Points!adjusted(use.cost)}
    BY DEF Points!Credit
  <2> HIDE DEF use
  <2> QED
    BY <1>1, <2>1, <2>2, PointsAssumption DEF Points!adjusted
<1> HIDE DEF use, outcome, stray, returned
<1>7. CASE use.row = "pending"
  <2> DEFINE after == [use EXCEPT !.row = outcome, !.stray = stray, !.returned = returned]
  <2>1. after \in UseRecords /\ <<after.row, after.stray, after.returned, after.pc>> = <<outcome, stray, returned, use.pc>>
    BY <1>1, <1>2, <1>4, <1>5 DEF UseRecords
  <2>2. UseIsSettled(after)
    <3> HIDE DEF after
    <3> QED
      BY <1>1, <1>2, <1>4, <1>5, <1>7, <2>1 DEF UseIsSettled
  <2> QED
    BY <1>3, <1>6, <1>7, <2>1, <2>2
<1> QED
  BY <1>1, <1>3, <1>6, <1>7

\* Calls and timers are not what settles a use.
LEMMA CallsAndTimersSettleNothing ==
  ASSUME NEW use \in UseRecords, UseIsSettled(use), NEW ops \in SUBSET UseOps, NEW t \in {"none", "ack", "retry"}
  PROVE  /\ LET after == [use EXCEPT !.ops = ops] IN after \in UseRecords /\ UseIsSettled(after)
         /\ LET after == [use EXCEPT !.ops = ops, !.timer = t] IN after \in UseRecords /\ UseIsSettled(after)
         /\ LET after == [use EXCEPT !.timer = t, !.ops = ops] IN after \in UseRecords /\ UseIsSettled(after)
BY DEF UseRecords, UseIsSettled

\* Answers, late ones and repeated ones, and calls that fail with the transaction done or not.
LEMMA AnswersKeepPointsInv ==
  ASSUME PointsInv, NEW u \in Uses,
         \/ \E from \in {"ack_ok", "ack_fail"} : Points!acknowledgeAdvancedCommandUse(u, from)
         \/ \E op \in uses[u].ops : Points!resolveAdvancedCommandUsage(u, op) \/ Points!ResolveFails(u, op)
  PROVE  PointsInv'
<1> DEFINE use == uses[u]
<1>1. use \in UseRecords /\ UseIsSettled(use) /\ use.ops \in SUBSET UseOps /\ use.timer \in {"none", "ack", "retry"}
  BY DEF PointsInv, UseRecords
<1> HIDE DEF use
<1>2. useUpsets' \in 0 .. MaxUseUpsets
  <2>1. Points!UseUpset \/ UNCHANGED useUpsets
    BY DEF Points!acknowledgeAdvancedCommandUse, Points!resolveAdvancedCommandUsage, Points!ResolveFails
  <2> QED
    BY <2>1, PointsAssumption DEF PointsInv, Points!UseUpset
<1>3. CASE \E from \in {"ack_ok", "ack_fail"} : Points!acknowledgeAdvancedCommandUse(u, from)
  <2>1. PICK from \in {"ack_ok", "ack_fail"} : Points!acknowledgeAdvancedCommandUse(u, from)
    BY <1>3
  <2> DEFINE ops == use.ops \cup {Points!Op(from, IF use.timer = "none" THEN "no" ELSE "yes")}
  <2>2. ops \in SUBSET UseOps
    BY <1>1, UseParts DEF Points!Sources
  <2>3. uses' = [uses EXCEPT ![u] = [use EXCEPT !.timer = "none", !.ops = ops]] /\ UNCHANGED balance
    BY <2>1 DEF Points!acknowledgeAdvancedCommandUse, Points!Set, use
  <2> HIDE DEF ops
  <2> DEFINE after == [use EXCEPT !.timer = "none", !.ops = ops]
  <2>4. after \in UseRecords /\ UseIsSettled(after)
    BY <1>1, <2>2, CallsAndTimersSettleNothing
  <2> HIDE DEF after
  <2>5. uses' = [uses EXCEPT ![u] = after] /\ balance' \in 0 .. MAX_BALANCE
    BY <2>3 DEF PointsInv, after
  <2> QED
    BY <1>2, <2>4, <2>5, OneUseChanges
<1>4. ASSUME NEW op \in uses[u].ops, Points!resolveAdvancedCommandUsage(u, op) \/ Points!ResolveFails(u, op)
      PROVE  PointsInv'
  <2> DEFINE resolved == Points!Resolved(u, op)
             t == Points!Rearmed(u, op)
  <2>1. /\ resolved \in UseRecords /\ UseIsSettled(resolved) /\ Points!Credit(u, op) \in 0 .. MAX_BALANCE
    BY ResolvedFacts
  <2>2. t \in {"none", "ack", "retry"}
    BY <1>1 DEF Points!Rearmed, use
  <2>3. \/ /\ uses' = [uses EXCEPT ![u] = [resolved EXCEPT !.ops = @ \ {op}]]
           /\ balance' = Points!Credit(u, op)
        \/ /\ uses' = [uses EXCEPT ![u] = [use EXCEPT !.ops = @ \ {op}, !.timer = t]]
           /\ UNCHANGED balance
        \/ /\ uses' = [uses EXCEPT ![u] = [resolved EXCEPT !.ops = @ \ {op}, !.timer = t]]
           /\ balance' = Points!Credit(u, op)
    BY <1>4 DEF Points!resolveAdvancedCommandUsage, Points!ResolveFails, Points!Set, use
  <2>4. balance' \in 0 .. MAX_BALANCE
    BY <2>1, <2>3 DEF PointsInv
  <2> HIDE DEF resolved, t
  <2>5. resolved.ops \ {op} \in SUBSET UseOps /\ use.ops \ {op} \in SUBSET UseOps
    BY <1>1, <2>1 DEF UseRecords
  <2>6. \E after \in UseRecords : uses' = [uses EXCEPT ![u] = after] /\ UseIsSettled(after)
    BY <1>1, <2>1, <2>2, <2>3, <2>5, CallsAndTimersSettleNothing
  <2> QED
    BY <1>2, <2>4, <2>6, OneUseChanges
<1> QED
  BY <1>3, <1>4

\* A restart asks again for what is pending, and credits nothing itself.
LEMMA SweepKeepsPointsInv == ASSUME PointsInv, Points!sweepPendingAdvancedCommandUsage PROVE PointsInv'
<1>1. balance' \in 0 .. MAX_BALANCE /\ useUpsets' \in 0 .. MaxUseUpsets
  <2>1. UNCHANGED balance /\ Points!UseUpset
    BY DEF Points!sweepPendingAdvancedCommandUsage
  <2> QED
    BY <2>1, PointsAssumption DEF PointsInv, Points!UseUpset
<1>2. PICK listed \in {"yes", "no"} :
        uses' = [u \in Uses |->
         [uses[u] EXCEPT !.pc = IF @ = "new" THEN "new" ELSE "ended", !.timer = "none",
                         !.stray = IF @ = "unknown" THEN @
                                   ELSE IF uses[u].row # "pending" \/ listed = "yes" THEN "no" ELSE "unswept",
                         !.ops = IF uses[u].row = "pending" /\ listed = "yes" THEN {Points!Op("sweep", "yes")}
                                 ELSE {}]]
  BY DEF Points!sweepPendingAdvancedCommandUsage
<1>3. ASSUME NEW u \in Uses PROVE uses'[u] \in UseRecords /\ UseIsSettled(uses'[u])
  <2> DEFINE use == uses[u]
             pc == IF use.pc = "new" THEN "new" ELSE "ended"
             stray == IF use.stray = "unknown" THEN use.stray
                      ELSE IF use.row # "pending" \/ listed = "yes" THEN "no" ELSE "unswept"
             ops == IF use.row = "pending" /\ listed = "yes" THEN {Points!Op("sweep", "yes")} ELSE {}
  <2>1. uses'[u] = [use EXCEPT !.pc = pc, !.timer = "none", !.stray = stray, !.ops = ops]
    BY <1>2
  <2>2. use \in UseRecords /\ UseIsSettled(use)
    BY DEF PointsInv
  <2> HIDE DEF use
  <2>3. /\ pc \in {"new", "ended"} /\ (use.pc \in {"push", "ended"} => pc = "ended")
        /\ stray \in {"no", "unswept", "unknown"} /\ (use.stray = "unknown" => stray = "unknown")
        /\ ops \in SUBSET UseOps
    BY UseParts DEF Points!Sources
  <2> HIDE DEF pc, stray, ops
  <2> DEFINE after == [use EXCEPT !.pc = pc, !.timer = "none", !.stray = stray, !.ops = ops]
  <2>4. /\ after \in UseRecords
        /\ <<after.row, after.stray, after.returned, after.pc>> = <<use.row, stray, use.returned, pc>>
    BY <2>2, <2>3 DEF UseRecords
  <2>5. UseIsSettled(after)
    <3> HIDE DEF after
    <3> QED
      BY <2>2, <2>3, <2>4 DEF UseIsSettled
  <2> QED
    BY <2>1, <2>4, <2>5
<1>4. uses' \in [Uses -> UseRecords]
  <2> DEFINE After(u) ==
         [uses[u] EXCEPT !.pc = IF @ = "new" THEN "new" ELSE "ended", !.timer = "none",
                         !.stray = IF @ = "unknown" THEN @
                                   ELSE IF uses[u].row # "pending" \/ listed = "yes" THEN "no" ELSE "unswept",
                         !.ops = IF uses[u].row = "pending" /\ listed = "yes" THEN {Points!Op("sweep", "yes")}
                                 ELSE {}]
  <2>1. uses' = [u \in Uses |-> After(u)]
    BY <1>2
  <2> HIDE DEF After
  <2> QED
    BY <1>3, <2>1
<1> QED
  BY <1>1, <1>3, <1>4 DEF PointsInv

LEMMA PointsStep == ASSUME PointsInv, Points!UsesNext PROVE PointsInv'
<1>1. ASSUME NEW bet \in Points!Bets, NEW won \in BOOLEAN, Points!resolveGambleOutcome(bet, won) PROVE PointsInv'
  <2>1. bet = 1 /\ balance \in 0 .. MAX_BALANCE /\ MAX_BALANCE \in Nat /\ balance >= bet
    BY <1>1, PointsAssumption DEF Points!Bets, PointsInv, Points!resolveGambleOutcome
  <2>2. balance' = balance - bet \/ balance' = Points!Min({(balance - bet) + 2 * bet, MAX_BALANCE})
    BY <1>1 DEF Points!resolveGambleOutcome
  <2>3. balance - bet \in Nat /\ (balance - bet) + 2 * bet \in Nat /\ balance - bet <= MAX_BALANCE
    BY <2>1
  <2>4. balance' \in 0 .. MAX_BALANCE
    <3> DEFINE paid == (balance - bet) + 2 * bet
    <3>1. paid \in Nat
      BY <2>3
    <3> HIDE DEF paid
    <3>2. Points!Min({paid, MAX_BALANCE}) \in Nat /\ Points!Min({paid, MAX_BALANCE}) <= MAX_BALANCE
      BY <2>1, <3>1, LeastOfTwo
    <3> QED
      BY <2>1, <2>2, <2>3, <3>2 DEF paid
  <2> QED
    BY <1>1, <2>4 DEF PointsInv, Points!resolveGambleOutcome
<1>2. ASSUME Points!adjustBalance PROVE PointsInv'
  BY <1>2, PointsAssumption DEF PointsInv, Points!adjustBalance, Points!adjusted
<1>3. ASSUME Points!CooldownEnds PROVE PointsInv'
  BY <1>3 DEF PointsInv, Points!CooldownEnds
<1>4. ASSUME NEW u \in Uses, Points!UseGoesOn(u) PROVE PointsInv'
  BY <1>4, UseGoesOnKeepsPointsInv, AnswersKeepPointsInv DEF Points!UseGoesOn
<1> QED
  BY <1>1, <1>2, <1>3, <1>4, AnswersKeepPointsInv, SweepKeepsPointsInv DEF Points!UsesNext

LEMMA PointsAreRefundedOnce == ASSUME PointsInv PROVE Points!RefundedOnce
BY DEF PointsInv, UseIsSettled, Points!RefundedOnce, UseRecords

-----------------------------------------------------------------------------
(* Raffles: starts, joins and draws that overlap                           *)

RaffleStates ==
  {"new", "config", "already_running", "announce", "points_disabled", "ok", "chat_unavailable", "stopped"}
DrawRecords == [winners : SUBSET RaffleViewers, share : Nat, times : Nat]

RaffleTypes ==
  /\ activeRaffle \in RaffleStarts \cup {0}
  /\ raffleStart \in [RaffleStarts -> RaffleStates]
  /\ entrants \in [RaffleStarts -> SUBSET RaffleViewers]
  /\ joining \in [RaffleViewers -> RaffleStarts \cup {0}]
  /\ drawTimer \subseteq RaffleStarts
  /\ drawn \in [RaffleStarts -> DrawRecords]

\* A raffle that waits for its announcement is the open one; one that is scheduled or drawn is past it;
\* the open one is past its start and has not been drawn.
RaffleOrder(s) ==
  /\ raffleStart[s] = "announce" => activeRaffle = s
  /\ s \in drawTimer \/ drawn[s].times > 0 => raffleStart[s] \notin {"new", "config", "announce"}
  /\ activeRaffle = s => drawn[s].times = 0 /\ raffleStart[s] \notin {"new", "config"}
  /\ drawn[s].times = 0 => drawn[s].winners = {}

\* One draw at most, of the raffle's own entrants, within the prize.
DrawIsFair(s) ==
  /\ drawn[s].times <= 1
  /\ drawn[s].share * Cardinality(drawn[s].winners) <= Amount
  /\ drawn[s].times = 1 => drawn[s].winners \subseteq entrants[s] /\ (entrants[s] # {} => drawn[s].winners # {})

OpenRaffleIsAwaited ==
  /\ activeRaffle # 0 => raffleStart[activeRaffle] = "announce" \/ activeRaffle \in drawTimer
  /\ drawTimer \subseteq {activeRaffle}

RaffleInv == RaffleTypes /\ OpenRaffleIsAwaited /\ \A s \in RaffleStarts : RaffleOrder(s) /\ DrawIsFair(s)

LEMMA RafflesAreFairByInv == ASSUME RaffleInv PROVE Raffle!RafflesAreFair
BY SameCardinality DEF RaffleInv, DrawIsFair, OpenRaffleIsAwaited, Raffle!RafflesAreFair, Raffle!NoRaffle

LEMMA RaffleInitInv == ASSUME Raffle!RafflesInit PROVE RaffleInv
<1> USE DEF Raffle!RafflesInit, Raffle!NoRaffle
<1>1. /\ Raffle!NotDrawn \in DrawRecords /\ Raffle!NotDrawn.winners = {} /\ Raffle!NotDrawn.times = 0
      /\ Raffle!NotDrawn.share = 0
  BY DEF Raffle!NotDrawn, DrawRecords
<1>2. drawn = [s \in RaffleStarts |-> Raffle!NotDrawn]
  OBVIOUS
<1>3. ASSUME NEW s \in RaffleStarts PROVE RaffleOrder(s) /\ DrawIsFair(s)
  <2>1. drawn[s].winners = {} /\ drawn[s].times = 0 /\ drawn[s].share = 0
    BY <1>1, <1>2
  <2>2. RaffleOrder(s)
    BY <2>1, RaffleAssumption DEF RaffleOrder
  <2>3. DrawIsFair(s)
    BY <2>1, FS_EmptySet, RaffleAssumption DEF DrawIsFair
  <2> QED
    BY <2>2, <2>3
<1>4. RaffleTypes
  BY <1>1 DEF RaffleTypes, RaffleStates
<1> QED
  BY <1>3, <1>4 DEF RaffleInv, OpenRaffleIsAwaited

\* A draw pays each winner a share, and no more than the prize in all.
LEMMA SharesStayWithinThePrize ==
  ASSUME NEW winners \in SUBSET RaffleViewers, NEW n \in Nat, Cardinality(winners) \in Raffle!WinnerCounts(n)
  PROVE  /\ Raffle!getPrizeShare(Cardinality(winners)) \in Nat
         /\ Raffle!getPrizeShare(Cardinality(winners)) * Cardinality(winners) <= Amount
         /\ n # 0 => winners # {}
<1> DEFINE k == Cardinality(winners)
<1>1. k \in 0 .. 5 /\ (n # 0 => k # 0)
  BY DEF Raffle!WinnerCounts
<1>2. n # 0 => winners # {}
  BY <1>1, FS_EmptySet
<1> HIDE DEF k
<1>3. /\ Raffle!getPrizeShare(k) \in Nat
      /\ Raffle!getPrizeShare(k) * k <= Amount
  <2>0. k \in {0, 1, 2, 3, 4, 5}
    BY <1>1
  <2> USE RaffleAssumption DEF Raffle!getPrizeShare
  <2>1. CASE k = 0
    BY <2>1
  <2>2. CASE k = 1
    BY <2>2
  <2>3. CASE k = 2
    BY <2>3
  <2>4. CASE k = 3
    BY <2>4
  <2>5. CASE k = 4
    BY <2>5
  <2>6. CASE k = 5
    BY <2>6
  <2> QED
    BY <2>0, <2>1, <2>2, <2>3, <2>4, <2>5, <2>6
<1> QED
  BY <1>2, <1>3 DEF k

\* Starts and announcements.
LEMMA StartsKeepRaffleInv ==
  ASSUME RaffleInv, NEW s \in RaffleStarts, Raffle!AskRaffle(s) \/ Raffle!startRaffle(s) \/ Raffle!Announced(s)
  PROVE  RaffleInv'
<1>1. UNCHANGED <<entrants, joining, drawn>> /\ s # 0
  BY RaffleAssumption DEF Raffle!AskRaffle, Raffle!startRaffle, Raffle!Announced
<1>2. RaffleTypes'
  BY DEF RaffleInv, RaffleTypes, RaffleStates, Raffle!AskRaffle, Raffle!startRaffle, Raffle!Announced, Raffle!NoRaffle
<1>3. ASSUME NEW r \in RaffleStarts PROVE DrawIsFair(r)'
  BY <1>1 DEF RaffleInv, DrawIsFair
<1>4. ASSUME NEW r \in RaffleStarts PROVE RaffleOrder(r)'
  <2>1. RaffleOrder(r) /\ RaffleOrder(s) /\ drawn'[r] = drawn[r] /\ raffleStart \in [RaffleStarts -> RaffleStates]
    BY <1>1 DEF RaffleInv, RaffleTypes
  <2>2. CASE Raffle!AskRaffle(s)
    <3>1. UNCHANGED <<activeRaffle, drawTimer>> /\ raffleStart[s] = "new"
          /\ \E next \in {"config", "points_disabled"} : raffleStart' = [raffleStart EXCEPT ![s] = next]
      BY <2>2 DEF Raffle!AskRaffle
    <3> QED
      BY <1>1, <2>1, <3>1 DEF RaffleOrder
  <2>3. CASE Raffle!startRaffle(s)
    <3>1. /\ UNCHANGED drawTimer /\ raffleStart[s] = "config"
          /\ \/ raffleStart' = [raffleStart EXCEPT ![s] = "already_running"] /\ UNCHANGED activeRaffle
             \/ raffleStart' = [raffleStart EXCEPT ![s] = "announce"] /\ activeRaffle = 0 /\ activeRaffle' = s
      BY <2>3 DEF Raffle!startRaffle, Raffle!NoRaffle
    <3>2. drawn[s].times = 0
      BY <2>1, <3>1 DEF RaffleInv, RaffleTypes, RaffleOrder, DrawRecords
    <3> QED
      BY <1>1, <2>1, <3>1, <3>2, RaffleAssumption DEF RaffleOrder
  <2>4. CASE Raffle!Announced(s)
    <3>1. /\ raffleStart[s] = "announce" /\ activeRaffle = s
          /\ \/ raffleStart' = [raffleStart EXCEPT ![s] = "ok"] /\ drawTimer' = drawTimer \cup {s} /\ UNCHANGED activeRaffle
             \/ raffleStart' = [raffleStart EXCEPT ![s] = "chat_unavailable"] /\ activeRaffle' = 0 /\ UNCHANGED drawTimer
      BY <2>1, <2>4 DEF RaffleOrder, Raffle!Announced, Raffle!NoRaffle
    <3> QED
      BY <1>1, <2>1, <3>1, RaffleAssumption DEF RaffleOrder
  <2> QED
    BY <2>2, <2>3, <2>4
<1>5. OpenRaffleIsAwaited'
  BY <1>1, RaffleAssumption DEF RaffleInv, RaffleTypes, RaffleOrder, OpenRaffleIsAwaited, Raffle!AskRaffle,
     Raffle!startRaffle, Raffle!Announced, Raffle!NoRaffle
<1> QED
  BY <1>2, <1>3, <1>4, <1>5 DEF RaffleInv

\* A viewer who joins enters the raffle that is still open, which is not drawn.
LEMMA JoinsKeepRaffleInv ==
  ASSUME RaffleInv, NEW v \in RaffleViewers, Raffle!handleJoinCommand(v) \/ Raffle!Joined(v)
  PROVE  RaffleInv'
<1>1. UNCHANGED <<activeRaffle, raffleStart, drawTimer, drawn>>
  BY DEF Raffle!handleJoinCommand, Raffle!Joined
<1>2. RaffleTypes'
  BY DEF RaffleInv, RaffleTypes, Raffle!handleJoinCommand, Raffle!Joined, Raffle!NoRaffle
<1>3. ASSUME NEW r \in RaffleStarts PROVE DrawIsFair(r)'
  <2>1. entrants'[r] = entrants[r] \/ activeRaffle = r
    BY DEF RaffleInv, RaffleTypes, Raffle!handleJoinCommand, Raffle!Joined, Raffle!StillOpen, Raffle!NoRaffle
  <2> QED
    BY <1>1, <2>1 DEF RaffleInv, RaffleOrder, DrawIsFair
<1>4. ASSUME NEW r \in RaffleStarts PROVE RaffleOrder(r)'
  BY <1>1 DEF RaffleInv, RaffleOrder
<1>5. OpenRaffleIsAwaited'
  BY <1>1 DEF RaffleInv, OpenRaffleIsAwaited
<1> QED
  BY <1>2, <1>3, <1>4, <1>5 DEF RaffleInv

\* The draw of the raffle that is open, which is the one that was scheduled.
LEMMA DrawKeepsRaffleInv == ASSUME RaffleInv, NEW s \in RaffleStarts, Raffle!drawRaffle(s) PROVE RaffleInv'
<1>1. /\ s \in drawTimer /\ drawTimer' = drawTimer \ {s} /\ activeRaffle' = 0
      /\ UNCHANGED <<raffleStart, entrants, joining>>
      /\ activeRaffle = s /\ s # 0
  BY RaffleAssumption DEF RaffleInv, OpenRaffleIsAwaited, Raffle!drawRaffle, Raffle!NoRaffle
<1>2. drawTimer' = {}
  BY <1>1 DEF RaffleInv, OpenRaffleIsAwaited
<1>3. PICK winners \in SUBSET entrants[s] :
        /\ Cardinality(winners) \in Raffle!WinnerCounts(Cardinality(entrants[s]))
        /\ drawn' = [drawn EXCEPT ![s] =
             [winners |-> winners, share |-> Raffle!getPrizeShare(Cardinality(winners)), times |-> @.times + 1]]
  BY <1>1, SameCardinality DEF Raffle!drawRaffle, Raffle!NoRaffle
<1> DEFINE share == Raffle!getPrizeShare(Cardinality(winners))
           times == drawn[s].times + 1
           new == [winners |-> winners, share |-> share, times |-> times]
<1>4. entrants[s] \in SUBSET RaffleViewers /\ drawn \in [RaffleStarts -> DrawRecords] /\ drawn[s].times = 0
  BY <1>1 DEF RaffleInv, RaffleTypes, RaffleOrder
<1>5. Cardinality(entrants[s]) \in Nat /\ (entrants[s] # {} => Cardinality(entrants[s]) # 0)
  <2>1. IsFiniteSet(entrants[s])
    BY <1>4, RaffleAssumption, FS_Subset
  <2> QED
    BY <2>1, FS_CardinalityType, FS_EmptySet
<1>6. /\ share \in Nat /\ share * Cardinality(winners) <= Amount
      /\ entrants[s] # {} => winners # {}
  BY <1>3, <1>4, <1>5, SharesStayWithinThePrize
<1>7. times = 1
  BY <1>4
<1>8. drawn' = [drawn EXCEPT ![s] = new]
  BY <1>3
<1> HIDE DEF share, times
<1>9. new \in DrawRecords /\ new.winners = winners /\ new.share = share /\ new.times = 1
  BY <1>4, <1>6, <1>7 DEF DrawRecords
<1> HIDE DEF new
<1>10. RaffleTypes'
  BY <1>1, <1>4, <1>8, <1>9 DEF RaffleInv, RaffleTypes
<1>11. drawn'[s] = new /\ \A r \in RaffleStarts : r # s => drawn'[r] = drawn[r]
  BY <1>4, <1>8
<1>12. ASSUME NEW r \in RaffleStarts PROVE DrawIsFair(r)'
  <2>1. CASE r = s
    BY <1>1, <1>6, <1>9, <1>11, <2>1 DEF DrawIsFair
  <2>2. CASE r # s
    BY <1>1, <1>11, <2>2 DEF DrawIsFair, RaffleInv
  <2> QED
    BY <2>1, <2>2
<1>13. ASSUME NEW r \in RaffleStarts PROVE RaffleOrder(r)'
  BY <1>1, <1>2, <1>9, <1>11, RaffleAssumption DEF RaffleInv, RaffleOrder
<1> QED
  BY <1>1, <1>2, <1>10, <1>12, <1>13 DEF RaffleInv, OpenRaffleIsAwaited

LEMMA StopKeepsRaffleInv == ASSUME RaffleInv, Raffle!stopAllRaffles PROVE RaffleInv'
<1>1. /\ activeRaffle' = 0 /\ drawTimer' = {} /\ UNCHANGED <<entrants, drawn>>
      /\ \A s \in RaffleStarts : raffleStart'[s] = IF raffleStart[s] \in {"config", "announce"} THEN "stopped"
                                                   ELSE raffleStart[s]
  BY DEF Raffle!stopAllRaffles, Raffle!NoRaffle
<1>2. RaffleTypes'
  BY <1>1 DEF RaffleInv, RaffleTypes, RaffleStates, Raffle!stopAllRaffles, Raffle!NoRaffle
<1>3. ASSUME NEW r \in RaffleStarts PROVE RaffleOrder(r)' /\ DrawIsFair(r)'
  BY <1>1, RaffleAssumption DEF RaffleInv, RaffleOrder, DrawIsFair
<1> QED
  BY <1>1, <1>2, <1>3 DEF RaffleInv, OpenRaffleIsAwaited

LEMMA RaffleStep == ASSUME RaffleInv, Raffle!RafflesNext PROVE RaffleInv'
BY StartsKeepRaffleInv, JoinsKeepRaffleInv, DrawKeepsRaffleInv, StopKeepsRaffleInv DEF Raffle!RafflesNext

-----------------------------------------------------------------------------
(* Uploads in pieces: turns, the bytes of a session, one session each      *)

\* The first n bytes of the declared file.
FirstBytes(n) == [i \in 1 .. n |-> i]
Whole == FirstBytes(UploadSize)
Parts == {Pieces!NoFile} \cup {FirstBytes(n) : n \in 0 .. UploadSize}

Owners == Uploaders \cup {Pieces!Nobody}
StoredFiles == [json : Owners, part : Seq(Nat), done : Seq(Nat), stale : BOOLEAN]
TaskKinds == {"start", "append", "finish", "cancel", "sweep"}
TaskPlaces == {"load", "create", "write", "rollback", "drop", "rename", "remove", "take"}
UploadTasks ==
  [kind : TaskKinds, owner : Owners, key : UploadIds \cup {0}, offset : Nat, length : Nat,
   file : {"none", "json", "part", "done"}, pc : TaskPlaces, ahead : SUBSET UploadRequests]
Busy(r) == uploadTask[r] # Pieces!NoUploadTask

\* What is on disk for one upload, and what was handed on: a prefix of the file, or the whole of it once.
FileInOrder(f, handed) ==
  /\ f.part \in Parts /\ f.done \in {Pieces!NoFile, Whole} /\ handed \in {<<>>, <<Whole>>}
  /\ f.part # Pieces!NoFile => f.done = Pieces!NoFile /\ handed = <<>>
  /\ f.done # Pieces!NoFile => handed = <<>>

\* Where a request can be: past its checks it has the turn.
TaskInPlace(r, t) ==
  /\ t.kind = "start" <=> t.key = 0
  /\ t.kind = "start" => t.pc \in {"load", "create"}
  /\ t.kind = "append" => t.pc \in {"load", "write", "rollback", "drop"}
  /\ t.kind = "finish" => t.pc \in {"load", "rename", "remove", "take"}
  /\ t.kind = "cancel" => t.pc = "load"
  /\ t.kind = "sweep" => t.pc \in {"load", "remove"} /\ t.file \in {"json", "part", "done"}
  /\ t.kind = "append" => t.length > 0
  /\ t.pc # "load" => t.ahead = {}
  /\ r \notin t.ahead

\* Of two requests for one key, one waits for the other.
InTurn ==
  \A r, s \in UploadRequests :
    r # s /\ Busy(r) /\ Busy(s) /\ uploadTask[r].key = uploadTask[s].key
      /\ uploadTask[r].pc # "take" /\ uploadTask[s].pc # "take"
    => r \in uploadTask[s].ahead \/ s \in uploadTask[r].ahead

TasksInv ==
  /\ uploadTask \in [UploadRequests -> UploadTasks \cup {Pieces!NoUploadTask}]
  /\ \A r \in UploadRequests : Busy(r) => TaskInPlace(r, uploadTask[r])
  /\ InTurn

\* What the checks of a request found is still so when it acts on it.
TaskFits(t, f) ==
  /\ t.kind = "append" /\ t.pc = "write" => f.part = FirstBytes(t.offset) /\ t.offset + t.length <= UploadSize
  /\ t.kind = "append" /\ t.pc = "rollback" => \E n \in t.offset .. UploadSize : f.part = FirstBytes(n)
  /\ t.kind = "finish" /\ t.pc = "rename" => f.part = Whole
  /\ t.kind = "sweep" /\ t.pc = "remove" => f.stale
ChecksStillHold == \A r \in UploadRequests : Busy(r) => TaskFits(uploadTask[r], uploadFiles[uploadTask[r].key])

\* A start between its checks and its session finds room, and no session of its user.
StartHasRoom(t) ==
  t.kind = "start" /\ t.pc = "create" =>
    Cardinality(Pieces!Live) < MaxLive /\ \A id \in Pieces!Live : uploadFiles[id].json # t.owner
RoomIsKept ==
  revivedUpload \/
    /\ \A r \in UploadRequests : Busy(r) => StartHasRoom(uploadTask[r])
    /\ Cardinality(Pieces!Live) <= MaxLive
    /\ \A i, j \in Pieces!Live : uploadFiles[i].json = uploadFiles[j].json => i = j

FilesInv ==
  /\ uploadFiles \in [UploadIds -> StoredFiles]
  /\ deliveredFiles \in [UploadIds -> Seq(Seq(Nat))]
  /\ \A id \in UploadIds : FileInOrder(uploadFiles[id], deliveredFiles[id])

PiecesInv ==
  /\ TasksInv /\ FilesInv /\ ChecksStillHold /\ RoomIsKept
  /\ revivedUpload \in BOOLEAN /\ uploadUpsets \in 0 .. MaxUploadUpsets

LEMMA PieceCardinality == \A S : Pieces!Cardinality(S) = Cardinality(S)
BY DEF Pieces!Cardinality, Cardinality

LEMMA ByteFacts ==
  ASSUME NEW n \in Nat
  PROVE  /\ FirstBytes(n) \in Seq(Nat) /\ Len(FirstBytes(n)) = n
         /\ FirstBytes(n) # Pieces!NoFile
         /\ n = 0 => FirstBytes(n) = <<>>
<1>1. FirstBytes(n) \in Seq(Nat) /\ Len(FirstBytes(n)) = n
  BY DEF FirstBytes
<1>2. ASSUME FirstBytes(n) = Pieces!NoFile PROVE FALSE
  <2>1. n = 1
    BY <1>1, <1>2 DEF Pieces!NoFile
  <2>2. FirstBytes(n)[1] = 1
    BY <2>1 DEF FirstBytes
  <2> QED
    BY <1>2, <2>2 DEF Pieces!NoFile
<1>3. n = 0 => FirstBytes(n) = <<>>
  BY DEF FirstBytes
<1> QED
  BY <1>1, <1>2, <1>3

\* A piece that starts where the bytes end makes a longer prefix, a truncation a shorter one.
LEMMA PieceFacts ==
  ASSUME NEW m \in Nat, NEW n \in Nat
  PROVE  /\ FirstBytes(m) \o [i \in 1 .. n |-> m + i] = FirstBytes(m + n)
         /\ n <= m => Pieces!Truncated(FirstBytes(m), n) = FirstBytes(n)
<1>1. FirstBytes(m) \o [i \in 1 .. n |-> m + i] = FirstBytes(m + n)
  <2> DEFINE piece == [i \in 1 .. n |-> m + i]
             both == FirstBytes(m) \o piece
  <2>1. piece \in Seq(Nat) /\ Len(piece) = n /\ \A i \in 1 .. n : piece[i] = m + i
    OBVIOUS
  <2>2. FirstBytes(m) \in Seq(Nat) /\ Len(FirstBytes(m)) = m /\ \A i \in 1 .. m : FirstBytes(m)[i] = i
    BY ByteFacts DEF FirstBytes
  <2> HIDE DEF piece
  <2>3. both \in Seq(Nat) /\ Len(both) = m + n
    BY <2>1, <2>2
  <2>4. \A i \in 1 .. (m + n) : both[i] = i
    <3>1. ASSUME NEW i \in 1 .. (m + n) PROVE both[i] = i
      <4>1. CASE i <= m
        BY <2>1, <2>2, <4>1
      <4>2. CASE ~(i <= m)
        <5>1. i - m \in 1 .. n /\ both[i] = piece[i - m]
          BY <2>1, <2>2, <4>2
        <5> QED
          BY <2>1, <5>1
      <4> QED
        BY <4>1, <4>2
    <3> QED
      BY <3>1
  <2>5. FirstBytes(m + n) \in Seq(Nat) /\ Len(FirstBytes(m + n)) = m + n /\ \A i \in 1 .. (m + n) : FirstBytes(m + n)[i] = i
    BY ByteFacts DEF FirstBytes
  <2> HIDE DEF both
  <2>6. both = FirstBytes(m + n)
    BY <2>3, <2>4, <2>5
  <2> QED
    BY <2>6 DEF both, piece
<1>2. ASSUME n <= m PROVE Pieces!Truncated(FirstBytes(m), n) = FirstBytes(n)
  <2>1. \A i \in 1 .. n : i <= Len(FirstBytes(m)) /\ FirstBytes(m)[i] = i
    BY <1>2, ByteFacts DEF FirstBytes
  <2>2. \A i \in 1 .. n : (IF i <= Len(FirstBytes(m)) THEN FirstBytes(m)[i] ELSE 0) = i
    BY <2>1
  <2>3. [i \in 1 .. n |-> IF i <= Len(FirstBytes(m)) THEN FirstBytes(m)[i] ELSE 0] = [i \in 1 .. n |-> i]
    BY <2>2
  <2> QED
    BY <2>3 DEF Pieces!Truncated, FirstBytes
<1> QED
  BY <1>1, <1>2

\* The same request, whoever it still waits for.
SameTask(a, b) ==
  /\ a.kind = b.kind /\ a.owner = b.owner /\ a.key = b.key /\ a.offset = b.offset /\ a.length = b.length
  /\ a.file = b.file /\ a.pc = b.pc
\* The other requests stay where they are.
OthersStay(r) ==
  \A s \in UploadRequests \ {r} : (Busy(s)' <=> Busy(s)) /\ (Busy(s) => SameTask(uploadTask'[s], uploadTask[s]))

LEMMA TaskFacts ==
  ASSUME TasksInv, NEW r \in UploadRequests, Busy(r)
  PROVE  uploadTask[r] \in UploadTasks /\ TaskInPlace(r, uploadTask[r])
BY DEF TasksInv, Busy

LEMMA TasksAreTasks == \A t \in UploadTasks : t # Pieces!NoUploadTask
<1>1. Pieces!NoUploadTask.kind = "none"
  BY DEF Pieces!NoUploadTask
<1> QED
  BY <1>1 DEF UploadTasks, TaskKinds

\* A new request waits for all that asked before it.
LEMMA AskKeepsTasks ==
  ASSUME TasksInv, NEW r \in UploadRequests, ~Busy(r), NEW t \in UploadTasks, TaskInPlace(r, [t EXCEPT !.ahead = {}]),
         t.pc = "load", t.ahead = Pieces!AheadOf(t.key), uploadTask' = [uploadTask EXCEPT ![r] = t]
  PROVE  TasksInv' /\ uploadTask'[r] = t /\ OthersStay(r)
<1>1. /\ uploadTask' \in [UploadRequests -> UploadTasks \cup {Pieces!NoUploadTask}]
      /\ uploadTask'[r] = t /\ \A s \in UploadRequests \ {r} : uploadTask'[s] = uploadTask[s]
  BY DEF TasksInv
<1>2. r \notin t.ahead /\ \A s \in UploadRequests : Busy(s) /\ uploadTask[s].key = t.key /\ uploadTask[s].pc # "take" => s \in t.ahead
  BY DEF Pieces!AheadOf, Busy
<1>3. TaskInPlace(r, t)
  BY <1>2 DEF TaskInPlace, UploadTasks
<1>4. \A s \in UploadRequests \ {r} : (Busy(s)' <=> Busy(s)) /\ (Busy(s) => TaskInPlace(s, uploadTask'[s]))
  BY <1>1, TaskFacts DEF Busy
<1>5. InTurn'
  BY <1>1, <1>2, <1>4 DEF InTurn, TasksInv
<1> QED
  BY <1>1, <1>3, <1>4, <1>5 DEF TasksInv, OthersStay, SameTask

\* A request that has the turn goes on and keeps it.
LEMMA GotoKeepsTasks ==
  ASSUME TasksInv, NEW r \in UploadRequests, Busy(r), uploadTask[r].ahead = {},
         NEW pc \in TaskPlaces \ {"load", "take"}, Pieces!Goto(r, pc), uploadTask[r].pc # "take",
         TaskInPlace(r, [uploadTask[r] EXCEPT !.pc = pc])
  PROVE  /\ TasksInv' /\ OthersStay(r) /\ Busy(r)'
         /\ SameTask(uploadTask'[r], [uploadTask[r] EXCEPT !.pc = pc]) /\ uploadTask'[r].pc = pc
<1> DEFINE old == uploadTask[r]
           t == [old EXCEPT !.pc = pc]
<1>1. old \in UploadTasks
  BY TaskFacts
<1>2. uploadTask' = [uploadTask EXCEPT ![r] = t]
  BY DEF Pieces!Goto
<1> HIDE DEF old
<1>3. /\ t \in UploadTasks /\ t.kind = old.kind /\ t.owner = old.owner /\ t.key = old.key /\ t.offset = old.offset
      /\ t.length = old.length /\ t.file = old.file /\ t.pc = pc /\ t.ahead = old.ahead
  BY <1>1 DEF UploadTasks
<1>4. TaskInPlace(r, t)
  BY DEF old
<1> HIDE DEF t
<1>5. /\ uploadTask' \in [UploadRequests -> UploadTasks \cup {Pieces!NoUploadTask}]
      /\ uploadTask'[r] = t /\ \A s \in UploadRequests \ {r} : uploadTask'[s] = uploadTask[s]
  BY <1>2, <1>3 DEF TasksInv
<1>6. /\ \A s \in UploadRequests \ {r} : (Busy(s)' <=> Busy(s)) /\ (Busy(s) => TaskInPlace(s, uploadTask'[s]))
      /\ Busy(r)'
  BY <1>3, <1>5, TaskFacts, TasksAreTasks DEF Busy
<1>7. InTurn'
  BY <1>3, <1>5, <1>6 DEF InTurn, TasksInv, old
<1>8. uploadTask'[r] = [uploadTask[r] EXCEPT !.pc = pc]
  BY <1>5 DEF t, old
<1> QED
  BY <1>3, <1>4, <1>5, <1>6, <1>7, <1>8 DEF TasksInv, OthersStay, SameTask

\* Whoever waited for the request that leaves waits for the others it waited for.
LEMMA SettledFacts ==
  ASSUME TasksInv, NEW r \in UploadRequests, NEW s \in UploadRequests \ {r}, Busy(s)
  PROVE  LET next == Pieces!Settled(r)[s] IN
         /\ next \in UploadTasks /\ SameTask(next, uploadTask[s])
         /\ next.ahead = uploadTask[s].ahead \ {r}
         /\ TaskInPlace(s, next)
<1> DEFINE was == uploadTask[s]
           ahead == was.ahead \ {r}
           next == [was EXCEPT !.ahead = ahead]
<1>1. was \in UploadTasks /\ TaskInPlace(s, was)
  BY TaskFacts
<1>2. Pieces!Settled(r)[s] = next
  BY DEF Pieces!Settled, Busy
<1>3. ahead \in SUBSET UploadRequests /\ (was.ahead = {} => ahead = {}) /\ (s \notin was.ahead => s \notin ahead)
  BY <1>1 DEF UploadTasks
<1> HIDE DEF was, ahead
<1>4. /\ next \in UploadTasks /\ next.kind = was.kind /\ next.owner = was.owner /\ next.key = was.key
      /\ next.offset = was.offset /\ next.length = was.length /\ next.file = was.file /\ next.pc = was.pc
      /\ next.ahead = ahead
  BY <1>1, <1>3 DEF UploadTasks
<1> HIDE DEF next
<1>5. TaskInPlace(s, next)
  BY <1>1, <1>3, <1>4 DEF TaskInPlace
<1> QED
  BY <1>2, <1>4, <1>5 DEF SameTask, was, ahead

\* A request that is done leaves the turn to the next.
LEMMA AnswerKeepsTasks ==
  ASSUME TasksInv, NEW r \in UploadRequests, Pieces!Answer(r)
  PROVE  TasksInv' /\ OthersStay(r) /\ ~Busy(r)'
<1>1. ASSUME NEW s \in UploadRequests \ {r}, Busy(s)
      PROVE  /\ uploadTask'[s] \in UploadTasks /\ SameTask(uploadTask'[s], uploadTask[s])
             /\ uploadTask'[s].ahead = uploadTask[s].ahead \ {r}
             /\ TaskInPlace(s, uploadTask'[s])
  <2>1. uploadTask'[s] = Pieces!Settled(r)[s]
    BY DEF Pieces!Answer
  <2> QED
    BY <1>1, <2>1, SettledFacts
<1>2. /\ uploadTask'[r] = Pieces!NoUploadTask
      /\ \A s \in UploadRequests \ {r} : ~Busy(s) => uploadTask'[s] = Pieces!NoUploadTask
      /\ uploadTask' = [s \in UploadRequests |-> uploadTask'[s]]
  BY DEF Pieces!Answer, Pieces!Settled, Busy
<1>3. uploadTask' \in [UploadRequests -> UploadTasks \cup {Pieces!NoUploadTask}]
  BY <1>1, <1>2
<1>4. \A s \in UploadRequests \ {r} : Busy(s)' <=> Busy(s)
  BY <1>1, <1>2, TasksAreTasks DEF Busy
<1>5. InTurn'
  <2> SUFFICES ASSUME NEW q \in UploadRequests, NEW s \in UploadRequests, q # s, Busy(q)', Busy(s)',
                      uploadTask'[q].key = uploadTask'[s].key, uploadTask'[q].pc # "take", uploadTask'[s].pc # "take"
               PROVE  q \in uploadTask'[s].ahead \/ s \in uploadTask'[q].ahead
    BY DEF InTurn
  <2>1. q # r /\ s # r
    BY <1>2 DEF Busy
  <2>2. /\ Busy(q) /\ Busy(s) /\ SameTask(uploadTask'[q], uploadTask[q]) /\ SameTask(uploadTask'[s], uploadTask[s])
        /\ uploadTask'[q].ahead = uploadTask[q].ahead \ {r} /\ uploadTask'[s].ahead = uploadTask[s].ahead \ {r}
    BY <1>1, <1>4, <2>1
  <2>3. q \in uploadTask[s].ahead \/ s \in uploadTask[q].ahead
    BY <2>2 DEF TasksInv, InTurn, SameTask
  <2> QED
    BY <2>1, <2>2, <2>3
<1> QED
  BY <1>1, <1>2, <1>3, <1>4, <1>5 DEF TasksInv, OthersStay, Busy

\* A finish that leaves its queue goes on by itself.
LEMMA TakingKeepsTasks ==
  ASSUME TasksInv, NEW r \in UploadRequests, Busy(r), uploadTask[r].kind = "finish", uploadTask[r].ahead = {},
         uploadTask' = [Pieces!Settled(r) EXCEPT ![r] = [uploadTask[r] EXCEPT !.pc = "take"]]
  PROVE  TasksInv' /\ OthersStay(r) /\ Busy(r)' /\ uploadTask'[r].pc = "take"
<1> DEFINE old == uploadTask[r]
           t == [old EXCEPT !.pc = "take"]
<1>0. old \in UploadTasks /\ TaskInPlace(r, old)
  BY TaskFacts
<1>1. ASSUME NEW s \in UploadRequests \ {r}, Busy(s)
      PROVE  /\ uploadTask'[s] \in UploadTasks /\ SameTask(uploadTask'[s], uploadTask[s])
             /\ uploadTask'[s].ahead = uploadTask[s].ahead \ {r}
             /\ TaskInPlace(s, uploadTask'[s])
  <2>1. uploadTask'[s] = Pieces!Settled(r)[s]
    BY DEF Pieces!Settled
  <2> QED
    BY <1>1, <2>1, SettledFacts
<1>2. /\ uploadTask'[r] = t
      /\ \A s \in UploadRequests \ {r} : ~Busy(s) => uploadTask'[s] = Pieces!NoUploadTask
      /\ uploadTask' = [s \in UploadRequests |-> uploadTask'[s]]
  BY DEF Pieces!Settled, Busy
<1> HIDE DEF old
<1>3. t \in UploadTasks /\ t.kind = "finish" /\ t.pc = "take" /\ t.key = old.key /\ t.ahead = {}
  BY <1>0 DEF UploadTasks, TaskPlaces, old
<1> HIDE DEF t
<1>4. TaskInPlace(r, t)
  BY <1>0, <1>3 DEF TaskInPlace, old
<1>5. uploadTask' \in [UploadRequests -> UploadTasks \cup {Pieces!NoUploadTask}]
  BY <1>1, <1>2, <1>3
<1>6. (\A s \in UploadRequests \ {r} : Busy(s)' <=> Busy(s)) /\ Busy(r)'
  BY <1>1, <1>2, <1>3, TasksAreTasks DEF Busy
<1>7. InTurn'
  <2> SUFFICES ASSUME NEW q \in UploadRequests, NEW s \in UploadRequests, q # s, Busy(q)', Busy(s)',
                      uploadTask'[q].key = uploadTask'[s].key, uploadTask'[q].pc # "take", uploadTask'[s].pc # "take"
               PROVE  q \in uploadTask'[s].ahead \/ s \in uploadTask'[q].ahead
    BY DEF InTurn
  <2>1. q # r /\ s # r
    BY <1>2, <1>3
  <2>2. /\ Busy(q) /\ Busy(s) /\ SameTask(uploadTask'[q], uploadTask[q]) /\ SameTask(uploadTask'[s], uploadTask[s])
        /\ uploadTask'[q].ahead = uploadTask[q].ahead \ {r} /\ uploadTask'[s].ahead = uploadTask[s].ahead \ {r}
    BY <1>1, <1>6, <2>1
  <2>3. q \in uploadTask[s].ahead \/ s \in uploadTask[q].ahead
    BY <2>2 DEF TasksInv, InTurn, SameTask
  <2> QED
    BY <2>1, <2>2, <2>3
<1> QED
  BY <1>1, <1>2, <1>3, <1>4, <1>5, <1>6, <1>7 DEF TasksInv, OthersStay

\* Who has the turn at a key finds nobody else past the checks there.
LEMMA TurnIsOnes ==
  ASSUME TasksInv, NEW r \in UploadRequests, Busy(r), uploadTask[r].ahead = {}, uploadTask[r].pc # "take",
         NEW s \in UploadRequests \ {r}, Busy(s), uploadTask[s].key = uploadTask[r].key
  PROVE  uploadTask[s].pc \in {"load", "take"}
BY TaskFacts DEF TasksInv, InTurn, TaskInPlace

LEMMA UploadUpsetType ==
  ASSUME PiecesInv, Pieces!Upset \/ UNCHANGED uploadUpsets
  PROVE  uploadUpsets' \in 0 .. MaxUploadUpsets
BY UploadsAssumption DEF PiecesInv, Pieces!Upset

LEMMA LiveFacts ==
  /\ IsFiniteSet(Pieces!Live) /\ Cardinality(Pieces!Live) \in Nat
  /\ \A id \in UploadIds : id \in Pieces!Live <=> Pieces!Loads(id)
BY UploadsAssumption, FS_Subset, FS_CardinalityType DEF Pieces!Live

\* Sessions that only go leave room as it was, unless an expired one has come back.
LEMMA RoomStays ==
  ASSUME RoomIsKept,
         \A s \in UploadRequests : Busy(s)' /\ uploadTask'[s].kind = "start" /\ uploadTask'[s].pc = "create" =>
           /\ Busy(s) /\ uploadTask[s].kind = "start" /\ uploadTask[s].pc = "create"
           /\ uploadTask'[s].owner = uploadTask[s].owner,
         \/ revivedUpload'
         \/ /\ revivedUpload' = revivedUpload
            /\ \A id \in UploadIds : Pieces!Loads(id)' => Pieces!Loads(id) /\ uploadFiles'[id].json = uploadFiles[id].json
  PROVE  RoomIsKept'
<1>1. CASE revivedUpload'
  BY <1>1 DEF RoomIsKept
<1>2. CASE ~revivedUpload'
  <2>1. /\ ~revivedUpload
        /\ \A id \in UploadIds : Pieces!Loads(id)' => Pieces!Loads(id) /\ uploadFiles'[id].json = uploadFiles[id].json
    BY <1>2
  <2>2. /\ Pieces!Live' \subseteq Pieces!Live
        /\ \A id \in Pieces!Live' : uploadFiles'[id].json = uploadFiles[id].json
    BY <2>1 DEF Pieces!Live
  <2>3. /\ Cardinality(Pieces!Live') <= Cardinality(Pieces!Live)
        /\ Cardinality(Pieces!Live) \in Nat /\ Cardinality(Pieces!Live') \in Nat
    BY <2>2, LiveFacts, FS_Subset, FS_CardinalityType
  <2>4. MaxLive \in Nat
    BY UploadsAssumption
  <2>5. /\ \A s \in UploadRequests : Busy(s) => StartHasRoom(uploadTask[s])
        /\ Cardinality(Pieces!Live) <= MaxLive
        /\ \A i, j \in Pieces!Live : uploadFiles[i].json = uploadFiles[j].json => i = j
    BY <2>1 DEF RoomIsKept
  <2>6. ASSUME NEW s \in UploadRequests, Busy(s)' PROVE StartHasRoom(uploadTask[s])'
    BY <2>2, <2>3, <2>4, <2>5, <2>6 DEF StartHasRoom
  <2>7. Cardinality(Pieces!Live') <= MaxLive
    BY <2>3, <2>4, <2>5
  <2>8. \A i, j \in Pieces!Live' : uploadFiles'[i].json = uploadFiles'[j].json => i = j
    BY <2>2, <2>5
  <2> QED
    BY <2>6, <2>7, <2>8 DEF RoomIsKept
<1> QED
  BY <1>1, <1>2

LEMMA RoomAfter ==
  ASSUME PiecesInv, NEW r \in UploadRequests, OthersStay(r), Busy(r)' => uploadTask'[r].pc # "create",
         \/ revivedUpload'
         \/ /\ revivedUpload' = revivedUpload
            /\ \A id \in UploadIds : Pieces!Loads(id)' => Pieces!Loads(id) /\ uploadFiles'[id].json = uploadFiles[id].json
  PROVE  RoomIsKept'
<1>1. ASSUME NEW s \in UploadRequests, Busy(s)', uploadTask'[s].kind = "start", uploadTask'[s].pc = "create"
      PROVE  /\ Busy(s) /\ uploadTask[s].kind = "start" /\ uploadTask[s].pc = "create"
             /\ uploadTask'[s].owner = uploadTask[s].owner
  BY <1>1 DEF OthersStay, SameTask
<1> QED
  BY <1>1, RoomStays DEF PiecesInv

\* A step of one request: the others find the files they rely on as they were.
LEMMA PiecesAfter ==
  ASSUME PiecesInv, NEW r \in UploadRequests, TasksInv', OthersStay(r), FilesInv',
         \A s \in UploadRequests \ {r} :
           Busy(s) /\ uploadTask[s].key \in UploadIds /\ uploadTask[s].pc \notin {"load", "take"}
           => /\ uploadFiles'[uploadTask[s].key].part = uploadFiles[uploadTask[s].key].part
              /\ uploadFiles[uploadTask[s].key].stale => uploadFiles'[uploadTask[s].key].stale,
         Busy(r)' => TaskFits(uploadTask[r], uploadFiles[uploadTask[r].key])'
  PROVE  ChecksStillHold'
<1> SUFFICES ASSUME NEW s \in UploadRequests, Busy(s)' PROVE TaskFits(uploadTask[s], uploadFiles[uploadTask[s].key])'
  BY DEF ChecksStillHold
<1>1. CASE s = r
  BY <1>1
<1>2. CASE s # r
  <2>1. Busy(s) /\ SameTask(uploadTask'[s], uploadTask[s])
    BY <1>2 DEF OthersStay
  <2>2. TaskFits(uploadTask[s], uploadFiles[uploadTask[s].key]) /\ uploadTask[s] \in UploadTasks /\ TaskInPlace(s, uploadTask[s])
    BY <2>1, TaskFacts DEF PiecesInv, ChecksStillHold
  <2>3. CASE uploadTask[s].pc \in {"load", "take"} \/ uploadTask[s].key \notin UploadIds
    <3>1. uploadTask[s].key \notin UploadIds => uploadTask[s].kind = "start"
      BY <2>2 DEF UploadTasks, TaskInPlace
    <3> QED
      BY <2>1, <2>3, <3>1 DEF TaskFits, SameTask
  <2>4. CASE uploadTask[s].pc \notin {"load", "take"} /\ uploadTask[s].key \in UploadIds
    <3>1. /\ uploadFiles'[uploadTask'[s].key].part = uploadFiles[uploadTask[s].key].part
          /\ uploadFiles[uploadTask[s].key].stale => uploadFiles'[uploadTask'[s].key].stale
      BY <1>2, <2>1, <2>4 DEF SameTask
    <3> QED
      BY <2>1, <2>2, <3>1 DEF TaskFits, SameTask
  <2> QED
    BY <2>3, <2>4
<1> QED
  BY <1>1, <1>2

\* A step that touches no file.
LEMMA QuietStep ==
  ASSUME PiecesInv, NEW r \in UploadRequests, TasksInv', OthersStay(r),
         UNCHANGED <<uploadFiles, deliveredFiles, revivedUpload>>, uploadUpsets' \in 0 .. MaxUploadUpsets,
         Busy(r)' => /\ TaskFits(uploadTask'[r], uploadFiles[uploadTask'[r].key])
                     /\ uploadTask'[r].pc # "create"
  PROVE  PiecesInv'
<1>1. FilesInv'
  BY DEF PiecesInv, FilesInv
<1>2. ChecksStillHold'
  BY <1>1, PiecesAfter
<1>3. RoomIsKept'
  <2>1. \A id \in UploadIds : Pieces!Loads(id)' => Pieces!Loads(id) /\ uploadFiles'[id].json = uploadFiles[id].json
    BY DEF Pieces!Loads
  <2> QED
    BY <2>1, RoomAfter
<1> QED
  BY <1>1, <1>2, <1>3 DEF PiecesInv

\* One upload's files change.
LEMMA OneFileChanges ==
  ASSUME PiecesInv, NEW id \in UploadIds, NEW f \in StoredFiles, NEW handed \in Seq(Seq(Nat)),
         uploadFiles' = [uploadFiles EXCEPT ![id] = f], deliveredFiles' = [deliveredFiles EXCEPT ![id] = handed],
         FileInOrder(f, handed)
  PROVE  /\ FilesInv' /\ uploadFiles'[id] = f /\ deliveredFiles'[id] = handed
         /\ \A other \in UploadIds \ {id} : uploadFiles'[other] = uploadFiles[other]
BY DEF PiecesInv, FilesInv

LEMMA FileFacts ==
  ASSUME PiecesInv, NEW id \in UploadIds
  PROVE  /\ uploadFiles[id] \in StoredFiles /\ deliveredFiles[id] \in Seq(Seq(Nat))
         /\ FileInOrder(uploadFiles[id], deliveredFiles[id])
         /\ deliveredFiles = [deliveredFiles EXCEPT ![id] = deliveredFiles[id]]
         /\ uploadFiles = [uploadFiles EXCEPT ![id] = uploadFiles[id]]
BY DEF PiecesInv, FilesInv

\* A step of one request that changes the files of one upload.
LEMMA FileStep ==
  ASSUME PiecesInv, NEW r \in UploadRequests, TasksInv', OthersStay(r),
         NEW id \in UploadIds, NEW f \in StoredFiles, NEW handed \in Seq(Seq(Nat)),
         uploadFiles' = [uploadFiles EXCEPT ![id] = f], deliveredFiles' = [deliveredFiles EXCEPT ![id] = handed],
         FileInOrder(f, handed), uploadUpsets' \in 0 .. MaxUploadUpsets, revivedUpload' \in BOOLEAN,
         \/ f.part = uploadFiles[id].part /\ f.stale = uploadFiles[id].stale
         \/ \A s \in UploadRequests \ {r} : Busy(s) /\ uploadTask[s].key = id => uploadTask[s].pc \in {"load", "take"},
         Busy(r)' => uploadTask'[r].key = id /\ TaskFits(uploadTask'[r], f) /\ uploadTask'[r].pc # "create",
         \/ RoomIsKept'
         \/ revivedUpload'
         \/ /\ revivedUpload' = revivedUpload
            /\ f.json # Pieces!Nobody /\ f.part # Pieces!NoFile /\ ~f.stale =>
                 Pieces!Loads(id) /\ f.json = uploadFiles[id].json
  PROVE  PiecesInv'
<1>1. /\ FilesInv' /\ uploadFiles'[id] = f /\ deliveredFiles'[id] = handed
      /\ \A other \in UploadIds \ {id} : uploadFiles'[other] = uploadFiles[other]
  BY OneFileChanges
<1>2. ChecksStillHold'
  <2>1. ASSUME NEW s \in UploadRequests \ {r}, Busy(s), uploadTask[s].key \in UploadIds,
               uploadTask[s].pc \notin {"load", "take"}
        PROVE  /\ uploadFiles'[uploadTask[s].key].part = uploadFiles[uploadTask[s].key].part
               /\ uploadFiles[uploadTask[s].key].stale => uploadFiles'[uploadTask[s].key].stale
    BY <1>1, <2>1
  <2>2. Busy(r)' => TaskFits(uploadTask[r], uploadFiles[uploadTask[r].key])'
    BY <1>1
  <2> QED
    BY <1>1, <2>1, <2>2, PiecesAfter
<1>3. RoomIsKept'
  <2>1. CASE revivedUpload'
    BY <2>1 DEF RoomIsKept
  <2>2. CASE /\ revivedUpload' = revivedUpload
             /\ f.json # Pieces!Nobody /\ f.part # Pieces!NoFile /\ ~f.stale =>
                  Pieces!Loads(id) /\ f.json = uploadFiles[id].json
    <3>1. \A i \in UploadIds : Pieces!Loads(i)' => Pieces!Loads(i) /\ uploadFiles'[i].json = uploadFiles[i].json
      BY <1>1, <2>2 DEF Pieces!Loads
    <3> QED
      BY <2>2, <3>1, RoomAfter
  <2> QED
    BY <2>1, <2>2
<1> QED
  BY <1>1, <1>2, <1>3 DEF PiecesInv

LEMMA AskingKeepsPiecesInv ==
  ASSUME PiecesInv, NEW r \in UploadRequests, NEW kind \in TaskKinds, NEW owner \in Owners, NEW key \in UploadIds \cup {0},
         NEW offset \in Nat, NEW length \in Nat, NEW file \in {"none", "json", "part", "done"},
         Pieces!Ask(r, Pieces!Task(kind, owner, key, offset, length, file)),
         kind = "start" <=> key = 0, kind = "append" => length > 0, kind = "sweep" => file # "none"
  PROVE  PiecesInv'
<1> DEFINE ahead == Pieces!AheadOf(key)
           t == [kind |-> kind, owner |-> owner, key |-> key, offset |-> offset, length |-> length, file |-> file,
                 pc |-> "load", ahead |-> ahead]
           t0 == [t EXCEPT !.ahead = {}]
<1>1. /\ ~Busy(r) /\ uploadTask' = [uploadTask EXCEPT ![r] = t]
      /\ UNCHANGED <<uploadFiles, deliveredFiles, revivedUpload, uploadUpsets>>
  BY DEF Pieces!Ask, Pieces!Task, Busy
<1>2. ahead \in SUBSET UploadRequests
  BY DEF Pieces!AheadOf
<1>3. TasksInv
  BY DEF PiecesInv
<1> HIDE DEF ahead
<1>4. /\ t \in UploadTasks /\ t.kind = kind /\ t.key = key /\ t.pc = "load" /\ t.length = length /\ t.file = file
      /\ t.ahead = ahead
  BY <1>2 DEF UploadTasks, TaskPlaces
<1>5. /\ t0.kind = kind /\ t0.key = key /\ t0.pc = "load" /\ t0.length = length /\ t0.file = file /\ t0.ahead = {}
  OBVIOUS
<1>6. TaskInPlace(r, t0)
  BY <1>5 DEF TaskInPlace
<1>7. TasksInv' /\ uploadTask'[r] = t /\ OthersStay(r)
  <2> HIDE DEF t
  <2> QED
    BY <1>1, <1>3, <1>4, <1>6, AskKeepsTasks DEF ahead
<1> HIDE DEF t, t0
<1>8. /\ TaskFits(uploadTask'[r], uploadFiles[uploadTask'[r].key]) /\ uploadTask'[r].pc # "create"
  BY <1>4, <1>7 DEF TaskFits
<1>9. uploadUpsets' \in 0 .. MaxUploadUpsets
  BY <1>1 DEF PiecesInv
<1> QED
  BY <1>1, <1>7, <1>8, <1>9, QuietStep

\* The checks of a request, and whatever else only moves or ends it.
LEMMA TurnFacts ==
  ASSUME PiecesInv, NEW r \in UploadRequests, NEW kind, NEW pc, Pieces!At(r, kind, pc)
  PROVE  /\ Busy(r) /\ uploadTask[r] \in UploadTasks /\ TaskInPlace(r, uploadTask[r])
         /\ uploadTask[r].kind = kind /\ uploadTask[r].pc = pc /\ uploadTask[r].ahead = {}
         /\ TaskFits(uploadTask[r], uploadFiles[uploadTask[r].key])
         /\ kind # "start" => uploadTask[r].key \in UploadIds
         /\ TasksInv
<1>1. Busy(r) /\ uploadTask[r].kind = kind /\ uploadTask[r].pc = pc /\ uploadTask[r].ahead = {}
  BY DEF Pieces!At, Pieces!serialise, Busy
<1>2. TasksInv /\ ChecksStillHold
  BY DEF PiecesInv
<1>3. uploadTask[r] \in UploadTasks /\ TaskInPlace(r, uploadTask[r])
  BY <1>1, <1>2, TaskFacts
<1>4. kind # "start" => uploadTask[r].key \in UploadIds
  BY <1>1, <1>3 DEF UploadTasks, TaskInPlace
<1> QED
  BY <1>1, <1>2, <1>3, <1>4 DEF ChecksStillHold

LEMMA AnswerIsQuiet ==
  ASSUME PiecesInv, NEW r \in UploadRequests, Pieces!Answer(r), UNCHANGED <<uploadFiles, deliveredFiles, revivedUpload>>,
         Pieces!Upset \/ UNCHANGED uploadUpsets
  PROVE  PiecesInv'
BY AnswerKeepsTasks, UploadUpsetType, QuietStep DEF PiecesInv

LEMMA GotoFacts ==
  ASSUME PiecesInv, NEW r \in UploadRequests, NEW kind \in TaskKinds, NEW pc \in TaskPlaces, Pieces!At(r, kind, pc), pc # "take",
         NEW next \in TaskPlaces, Pieces!Goto(r, next),
         \/ kind = "start" /\ next = "create"
         \/ kind = "append" /\ next \in {"write", "rollback", "drop"}
         \/ kind = "finish" /\ next \in {"rename", "remove"}
         \/ kind = "sweep" /\ next = "remove"
  PROVE  /\ TasksInv' /\ OthersStay(r) /\ Busy(r)'
         /\ uploadTask'[r].kind = kind /\ uploadTask'[r].pc = next /\ uploadTask'[r].key = uploadTask[r].key
         /\ uploadTask'[r].offset = uploadTask[r].offset /\ uploadTask'[r].length = uploadTask[r].length
         /\ uploadTask'[r].owner = uploadTask[r].owner
<1> DEFINE old == uploadTask[r]
           t == [old EXCEPT !.pc = next]
<1>1. Busy(r) /\ old \in UploadTasks /\ TaskInPlace(r, old) /\ old.kind = kind /\ old.pc = pc /\ old.ahead = {} /\ TasksInv
  BY TurnFacts
<1> HIDE DEF old
<1>2. /\ t.kind = old.kind /\ t.owner = old.owner /\ t.key = old.key /\ t.offset = old.offset
      /\ t.length = old.length /\ t.file = old.file /\ t.pc = next /\ t.ahead = old.ahead
  BY <1>1 DEF UploadTasks
<1> HIDE DEF t
<1>3. TaskInPlace(r, t)
  BY <1>1, <1>2 DEF TaskInPlace
<1>4. /\ TasksInv' /\ OthersStay(r) /\ Busy(r)' /\ SameTask(uploadTask'[r], t) /\ uploadTask'[r].pc = next
  <2>1. next \in TaskPlaces \ {"load", "take"}
    OBVIOUS
  <2> QED
    BY <1>1, <1>3, <2>1, GotoKeepsTasks DEF t, old
<1> QED
  BY <1>1, <1>2, <1>4 DEF SameTask, old

LEMMA StartChecksKeepPiecesInv == ASSUME PiecesInv, NEW r \in UploadRequests, Pieces!StartChecks(r) PROVE PiecesInv'
<1>1. Pieces!At(r, "start", "load") /\ UNCHANGED <<uploadFiles, deliveredFiles, revivedUpload, uploadUpsets>>
  BY DEF Pieces!StartChecks
<1>2. CASE Pieces!Answer(r)
  BY <1>1, <1>2, AnswerIsQuiet
<1>3. CASE ~Pieces!Answer(r)
  <2>1. /\ ~\E id \in Pieces!Live : uploadFiles[id].json = uploadTask[r].owner
        /\ ~(Cardinality(Pieces!Live) >= MaxLive)
        /\ Pieces!Goto(r, "create")
    BY <1>3, PieceCardinality DEF Pieces!StartChecks
  <2>2. "start" \in TaskKinds /\ "load" \in TaskPlaces /\ "create" \in TaskPlaces
    BY DEF TaskKinds, TaskPlaces
  <2>3. /\ TasksInv' /\ OthersStay(r) /\ Busy(r)'
        /\ uploadTask'[r].kind = "start" /\ uploadTask'[r].pc = "create" /\ uploadTask'[r].owner = uploadTask[r].owner
    BY <1>1, <2>1, <2>2, GotoFacts
  <2>4. FilesInv'
    BY <1>1 DEF PiecesInv, FilesInv
  <2>5. ChecksStillHold'
    BY <1>1, <2>3, <2>4, PiecesAfter DEF TaskFits
  <2>6. RoomIsKept'
    <3>1. Pieces!Live' = Pieces!Live
      BY <1>1 DEF Pieces!Live, Pieces!Loads
    <3>2. Cardinality(Pieces!Live) < MaxLive
      BY <2>1, LiveFacts, UploadsAssumption
    <3>3. StartHasRoom(uploadTask[r])'
      BY <1>1, <2>1, <2>3, <3>1, <3>2 DEF StartHasRoom
    <3>4. ASSUME NEW s \in UploadRequests \ {r}, Busy(s)', StartHasRoom(uploadTask[s]) PROVE StartHasRoom(uploadTask[s])'
      <4>1. SameTask(uploadTask'[s], uploadTask[s])
        BY <2>3, <3>4 DEF OthersStay
      <4> QED
        BY <1>1, <3>1, <3>4, <4>1 DEF StartHasRoom, SameTask
    <3> QED
      BY <1>1, <2>3, <3>1, <3>3, <3>4 DEF PiecesInv, RoomIsKept, OthersStay
  <2> QED
    BY <1>1, <2>3, <2>4, <2>5, <2>6 DEF PiecesInv
<1> QED
  BY <1>2, <1>3

LEMMA ChecksKeepPiecesInv ==
  ASSUME PiecesInv, NEW r \in UploadRequests,
         Pieces!AppendChecks(r) \/ Pieces!FinishChecks(r) \/ Pieces!SweepLooks(r)
  PROVE  PiecesInv'
<1>1. UNCHANGED <<uploadFiles, deliveredFiles, revivedUpload, uploadUpsets>>
  BY DEF Pieces!AppendChecks, Pieces!FinishChecks, Pieces!SweepLooks
<1>2. CASE Pieces!Answer(r)
  BY <1>1, <1>2, AnswerIsQuiet
<1> DEFINE t == uploadTask[r]
<1>3. uploadUpsets' \in 0 .. MaxUploadUpsets
  BY <1>1, UploadUpsetType
<1>4. {"load", "write", "rename", "remove"} \subseteq TaskPlaces /\ {"append", "finish", "sweep"} \subseteq TaskKinds
  BY DEF TaskPlaces, TaskKinds
<1>5. ASSUME NEW id \in UploadIds, Pieces!Loads(id)
      PROVE  \E n \in 0 .. UploadSize : uploadFiles[id].part = FirstBytes(n) /\ Pieces!Received(id) = n
  <2>1. uploadFiles[id].part \in Parts /\ uploadFiles[id].part # Pieces!NoFile
    BY <1>5, FileFacts DEF FileInOrder, Pieces!Loads
  <2>2. \A n \in 0 .. UploadSize : n \in Nat
    BY UploadsAssumption
  <2> QED
    BY <2>1, <2>2, ByteFacts DEF Parts, Pieces!Received
<1>6. CASE Pieces!AppendChecks(r) /\ ~Pieces!Answer(r)
  <2>1. /\ Pieces!At(r, "append", "load") /\ Pieces!Goto(r, "write")
        /\ Pieces!Loads(t.key) /\ t.offset = Pieces!Received(t.key) /\ t.offset + t.length <= UploadSize
    BY <1>6 DEF Pieces!AppendChecks, Pieces!loadOwned
  <2>2. t.key \in UploadIds
    BY <2>1, TurnFacts
  <2>3. uploadFiles[t.key].part = FirstBytes(t.offset)
    BY <1>5, <2>1, <2>2
  <2>4. /\ TasksInv' /\ OthersStay(r) /\ Busy(r)'
        /\ uploadTask'[r].kind = "append" /\ uploadTask'[r].pc = "write" /\ uploadTask'[r].key = t.key
        /\ uploadTask'[r].offset = t.offset /\ uploadTask'[r].length = t.length
    BY <1>4, <2>1, GotoFacts
  <2>5. TaskFits(uploadTask'[r], uploadFiles[uploadTask'[r].key])
    BY <2>1, <2>3, <2>4 DEF TaskFits
  <2> QED
    BY <1>1, <1>3, <2>4, <2>5, QuietStep
<1>7. CASE Pieces!FinishChecks(r) /\ ~Pieces!Answer(r)
  <2>1. /\ Pieces!At(r, "finish", "load") /\ Pieces!Goto(r, "rename")
        /\ Pieces!Loads(t.key) /\ Pieces!Received(t.key) = UploadSize
    BY <1>7 DEF Pieces!FinishChecks, Pieces!loadOwned
  <2>2. t.key \in UploadIds
    BY <2>1, TurnFacts
  <2>3. uploadFiles[t.key].part = Whole
    BY <1>5, <2>1, <2>2 DEF Whole
  <2>4. /\ TasksInv' /\ OthersStay(r) /\ Busy(r)'
        /\ uploadTask'[r].kind = "finish" /\ uploadTask'[r].pc = "rename" /\ uploadTask'[r].key = t.key
    BY <1>4, <2>1, GotoFacts
  <2>5. TaskFits(uploadTask'[r], uploadFiles[uploadTask'[r].key])
    BY <2>1, <2>3, <2>4 DEF TaskFits
  <2> QED
    BY <1>1, <1>3, <2>4, <2>5, QuietStep
<1>8. CASE Pieces!SweepLooks(r) /\ ~Pieces!Answer(r)
  <2>1. Pieces!At(r, "sweep", "load") /\ Pieces!Goto(r, "remove") /\ uploadFiles[t.key].stale
    BY <1>8 DEF Pieces!SweepLooks
  <2>4. /\ TasksInv' /\ OthersStay(r) /\ Busy(r)'
        /\ uploadTask'[r].kind = "sweep" /\ uploadTask'[r].pc = "remove" /\ uploadTask'[r].key = t.key
    BY <1>4, <2>1, GotoFacts
  <2>5. TaskFits(uploadTask'[r], uploadFiles[uploadTask'[r].key])
    BY <2>1, <2>4 DEF TaskFits
  <2> QED
    BY <1>1, <1>3, <2>4, <2>5, QuietStep
<1> QED
  BY <1>2, <1>6, <1>7, <1>8

\* Bytes that start where the file ends: the next prefix, stamped.
LEMMA AppendedFacts ==
  ASSUME PiecesInv, NEW id \in UploadIds, NEW m \in Nat, NEW n \in Nat, m + n <= UploadSize,
         uploadFiles[id].part = FirstBytes(m)
  PROVE  LET f == Pieces!Appended(uploadFiles[id], [i \in 1 .. n |-> m + i]) IN
         /\ f \in StoredFiles /\ f.part = FirstBytes(m + n) /\ f.json = uploadFiles[id].json
         /\ f.done = uploadFiles[id].done /\ f.stale = FALSE
         /\ FileInOrder(f, deliveredFiles[id])
<1> DEFINE old == uploadFiles[id]
           bytes == [i \in 1 .. n |-> m + i]
           part == FirstBytes(m + n)
           f == [old EXCEPT !.part = part, !.stale = FALSE]
<1>1. old \in StoredFiles /\ FileInOrder(old, deliveredFiles[id])
  BY FileFacts
<1>2. old.part # Pieces!NoFile /\ old.part \o bytes = part /\ part \in Seq(Nat) /\ part # Pieces!NoFile /\ part \in Parts
  <2>1. m + n \in 0 .. UploadSize
    BY UploadsAssumption
  <2>2. FirstBytes(m) \o bytes = part
    BY PieceFacts
  <2>3. m + n \in Nat
    OBVIOUS
  <2>4. part \in Seq(Nat) /\ part # Pieces!NoFile /\ FirstBytes(m) # Pieces!NoFile
    BY <2>3, ByteFacts
  <2>5. part \in Parts
    BY <2>1 DEF Parts
  <2> QED
    BY <2>2, <2>4, <2>5
<1>3. Pieces!Appended(old, bytes) = f
  BY <1>2 DEF Pieces!Appended
<1> HIDE DEF old, bytes, part
<1>4. f \in StoredFiles /\ f.part = part /\ f.json = old.json /\ f.done = old.done /\ f.stale = FALSE
  BY <1>1, <1>2 DEF StoredFiles
<1> HIDE DEF f
<1>5. FileInOrder(f, deliveredFiles[id])
  BY <1>1, <1>2, <1>4 DEF FileInOrder
<1> QED
  BY <1>3, <1>4, <1>5 DEF old, bytes, part

\* A request with the turn is the only one past its checks at its upload.
LEMMA OthersWait ==
  ASSUME PiecesInv, NEW r \in UploadRequests, NEW kind, NEW pc, Pieces!At(r, kind, pc), pc # "take"
  PROVE  \A s \in UploadRequests \ {r} :
           Busy(s) /\ uploadTask[s].key = uploadTask[r].key => uploadTask[s].pc \in {"load", "take"}
BY TurnFacts, TurnIsOnes

LEMMA AppendWritesKeepsPiecesInv == ASSUME PiecesInv, NEW r \in UploadRequests, Pieces!AppendWrites(r) PROVE PiecesInv'
<1> DEFINE t == uploadTask[r]
           id == t.key
           f == Pieces!Appended(uploadFiles[id], [i \in 1 .. t.length |-> t.offset + i])
<1>1. /\ Pieces!At(r, "append", "write") /\ Pieces!Answer(r) /\ UNCHANGED <<deliveredFiles, uploadUpsets>>
      /\ uploadFiles' = [uploadFiles EXCEPT ![id] = f]
      /\ revivedUpload' = (revivedUpload \/ uploadFiles[id].stale)
  BY DEF Pieces!AppendWrites, Pieces!Bytes
<1>2. /\ id \in UploadIds /\ t \in UploadTasks /\ TasksInv
      /\ uploadFiles[id].part = FirstBytes(t.offset) /\ t.offset + t.length <= UploadSize
  BY <1>1, TurnFacts DEF TaskFits
<1>3. /\ f \in StoredFiles /\ f.part # Pieces!NoFile /\ f.json = uploadFiles[id].json /\ FileInOrder(f, deliveredFiles[id])
      /\ uploadFiles[id].part # Pieces!NoFile
  <2>1. t.offset \in Nat /\ t.length \in Nat
    BY <1>2 DEF UploadTasks
  <2>2. t.offset + t.length \in Nat
    BY <2>1
  <2> HIDE DEF t, id, f
  <2>3. f.part = FirstBytes(t.offset + t.length) /\ FirstBytes(t.offset + t.length) # Pieces!NoFile
    BY <1>2, <2>1, <2>2, AppendedFacts, ByteFacts DEF f
  <2>4. f \in StoredFiles /\ f.json = uploadFiles[id].json /\ FileInOrder(f, deliveredFiles[id])
    BY <1>2, <2>1, AppendedFacts DEF f
  <2> QED
    BY <1>2, <2>1, <2>3, <2>4, ByteFacts
<1>4. /\ uploadFiles[id] \in StoredFiles /\ deliveredFiles[id] \in Seq(Seq(Nat))
      /\ deliveredFiles' = [deliveredFiles EXCEPT ![id] = deliveredFiles[id]]
  BY <1>1, <1>2, FileFacts
<1>5. TasksInv' /\ OthersStay(r) /\ ~Busy(r)'
  BY <1>1, <1>2, AnswerKeepsTasks
<1>6. \A s \in UploadRequests \ {r} : Busy(s) /\ uploadTask[s].key = id => uploadTask[s].pc \in {"load", "take"}
  BY <1>1, OthersWait
<1>7. /\ uploadUpsets' \in 0 .. MaxUploadUpsets /\ revivedUpload' \in BOOLEAN
      /\ revivedUpload' \/ (revivedUpload' = revivedUpload /\ ~uploadFiles[id].stale)
  BY <1>1, <1>4 DEF PiecesInv, StoredFiles
<1>8. ~uploadFiles[id].stale /\ f.json # Pieces!Nobody => Pieces!Loads(id) /\ f.json = uploadFiles[id].json
  BY <1>3 DEF Pieces!Loads
<1> HIDE DEF t, id, f
<1> QED
  BY <1>1, <1>2, <1>3, <1>4, <1>5, <1>6, <1>7, <1>8, FileStep

LEMMA AppendFailsKeepsPiecesInv == ASSUME PiecesInv, NEW r \in UploadRequests, Pieces!AppendFails(r) PROVE PiecesInv'
<1> DEFINE t == uploadTask[r]
           id == t.key
<1>1. /\ Pieces!At(r, "append", "write") /\ Pieces!Upset /\ Pieces!Goto(r, "rollback") /\ UNCHANGED deliveredFiles
      /\ revivedUpload' = (revivedUpload \/ uploadFiles[id].stale)
      /\ \E n \in 0 .. (t.length - 1) :
           uploadFiles' = [uploadFiles EXCEPT ![id] = Pieces!Appended(uploadFiles[id], [i \in 1 .. n |-> t.offset + i])]
  BY DEF Pieces!AppendFails, Pieces!Bytes
<1>2. /\ id \in UploadIds /\ t \in UploadTasks /\ TasksInv
      /\ uploadFiles[id].part = FirstBytes(t.offset) /\ t.offset + t.length <= UploadSize
  BY <1>1, TurnFacts DEF TaskFits
<1>3. PICK n \in 0 .. (t.length - 1) :
        uploadFiles' = [uploadFiles EXCEPT ![id] = Pieces!Appended(uploadFiles[id], [i \in 1 .. n |-> t.offset + i])]
  BY <1>1
<1> DEFINE f == Pieces!Appended(uploadFiles[id], [i \in 1 .. n |-> t.offset + i])
<1>4. /\ f \in StoredFiles /\ f.part # Pieces!NoFile /\ f.json = uploadFiles[id].json /\ FileInOrder(f, deliveredFiles[id])
      /\ uploadFiles[id].part # Pieces!NoFile /\ \E k \in t.offset .. UploadSize : f.part = FirstBytes(k)
  <2>1. t.offset \in Nat /\ t.length \in Nat
    BY <1>2 DEF UploadTasks
  <2>2. n \in Nat /\ t.offset + n \in Nat /\ t.offset + n <= UploadSize /\ t.offset + n \in t.offset .. UploadSize
    BY <1>2, <2>1, UploadsAssumption
  <2> HIDE DEF t, id, f
  <2>3. f.part = FirstBytes(t.offset + n) /\ FirstBytes(t.offset + n) # Pieces!NoFile
    BY <1>2, <2>1, <2>2, AppendedFacts, ByteFacts DEF f
  <2>4. f \in StoredFiles /\ f.json = uploadFiles[id].json /\ FileInOrder(f, deliveredFiles[id])
    BY <1>2, <2>1, <2>2, AppendedFacts DEF f
  <2> QED
    BY <1>2, <2>1, <2>2, <2>3, <2>4, ByteFacts
<1>5. /\ uploadFiles[id] \in StoredFiles /\ deliveredFiles[id] \in Seq(Seq(Nat))
      /\ deliveredFiles' = [deliveredFiles EXCEPT ![id] = deliveredFiles[id]]
  BY <1>1, <1>2, FileFacts
<1>6. /\ TasksInv' /\ OthersStay(r) /\ Busy(r)'
      /\ uploadTask'[r].kind = "append" /\ uploadTask'[r].pc = "rollback" /\ uploadTask'[r].key = id
      /\ uploadTask'[r].offset = t.offset
  <2>1. "append" \in TaskKinds /\ {"write", "rollback"} \subseteq TaskPlaces
    BY DEF TaskKinds, TaskPlaces
  <2> QED
    BY <1>1, <2>1, GotoFacts
<1>7. \A s \in UploadRequests \ {r} : Busy(s) /\ uploadTask[s].key = id => uploadTask[s].pc \in {"load", "take"}
  BY <1>1, OthersWait
<1>8. /\ uploadUpsets' \in 0 .. MaxUploadUpsets /\ revivedUpload' \in BOOLEAN
      /\ revivedUpload' \/ (revivedUpload' = revivedUpload /\ ~uploadFiles[id].stale)
  BY <1>1, <1>5, UploadUpsetType DEF PiecesInv, StoredFiles
<1>9. ~uploadFiles[id].stale /\ f.json # Pieces!Nobody => Pieces!Loads(id) /\ f.json = uploadFiles[id].json
  BY <1>4 DEF Pieces!Loads
<1> HIDE DEF f
<1>10. TaskFits(uploadTask'[r], f)
  BY <1>4, <1>6 DEF TaskFits
<1>11. uploadFiles' = [uploadFiles EXCEPT ![id] = f]
  BY <1>3 DEF f
<1> HIDE DEF t, id
<1> QED
  BY <1>2, <1>4, <1>5, <1>6, <1>7, <1>8, <1>9, <1>10, <1>11, FileStep

\* What is left of a session's files when some of them are removed.
LEMMA RemovedFacts ==
  ASSUME PiecesInv, NEW id \in UploadIds, NEW gone \in SUBSET {"json", "part", "done"}
  PROVE  LET f == Pieces!Removed(uploadFiles[id], gone) IN
         /\ f \in StoredFiles /\ FileInOrder(f, deliveredFiles[id])
         /\ f.stale = uploadFiles[id].stale /\ f.done = uploadFiles[id].done
         /\ f.json # Pieces!Nobody => f.json = uploadFiles[id].json
         /\ f.part # Pieces!NoFile => f.part = uploadFiles[id].part
<1> DEFINE old == uploadFiles[id]
           json == IF "json" \in gone THEN Pieces!Nobody ELSE old.json
           part == IF "part" \in gone THEN Pieces!NoFile ELSE old.part
           f == [old EXCEPT !.json = json, !.part = part]
<1>1. old \in StoredFiles /\ FileInOrder(old, deliveredFiles[id])
  BY FileFacts
<1>2. Pieces!Removed(old, gone) = f
  BY <1>1 DEF Pieces!Removed, StoredFiles
<1>3. /\ json \in Owners /\ (json # Pieces!Nobody => json = old.json)
      /\ part \in Seq(Nat) /\ part \in Parts /\ (part # Pieces!NoFile => part = old.part)
  <2>1. Pieces!NoFile \in Seq(Nat)
    BY DEF Pieces!NoFile
  <2> QED
    BY <1>1, <2>1 DEF StoredFiles, Owners, Parts, FileInOrder
<1> HIDE DEF old, json, part
<1>4. f \in StoredFiles /\ f.part = part /\ f.json = json /\ f.done = old.done /\ f.stale = old.stale
  BY <1>1, <1>3 DEF StoredFiles
<1> HIDE DEF f
<1>5. FileInOrder(f, deliveredFiles[id])
  BY <1>1, <1>3, <1>4 DEF FileInOrder
<1> QED
  BY <1>2, <1>3, <1>4, <1>5 DEF old

\* Nothing comes to life by a removal.
LEMMA RemovalStep ==
  ASSUME PiecesInv, NEW r \in UploadRequests, NEW kind, NEW pc, Pieces!At(r, kind, pc), pc # "take", kind # "start",
         TasksInv', OthersStay(r), Busy(r)' => uploadTask'[r].pc = "take" /\ uploadTask'[r].key = uploadTask[r].key,
         NEW gone \in SUBSET {"json", "part", "done"},
         uploadFiles' = [uploadFiles EXCEPT ![uploadTask[r].key] = Pieces!Removed(uploadFiles[uploadTask[r].key], gone)],
         UNCHANGED <<deliveredFiles, revivedUpload>>, Pieces!Upset \/ UNCHANGED uploadUpsets
  PROVE  PiecesInv'
<1> DEFINE id == uploadTask[r].key
           f == Pieces!Removed(uploadFiles[id], gone)
<1>1. id \in UploadIds
  BY TurnFacts
<1> HIDE DEF id
<1>2. /\ f \in StoredFiles /\ FileInOrder(f, deliveredFiles[id])
      /\ f.stale = uploadFiles[id].stale
      /\ f.json # Pieces!Nobody => f.json = uploadFiles[id].json
      /\ f.part # Pieces!NoFile => f.part = uploadFiles[id].part
  BY <1>1, RemovedFacts
<1>3. /\ deliveredFiles[id] \in Seq(Seq(Nat)) /\ deliveredFiles' = [deliveredFiles EXCEPT ![id] = deliveredFiles[id]]
  BY <1>1, FileFacts
<1>4. \A s \in UploadRequests \ {r} : Busy(s) /\ uploadTask[s].key = id => uploadTask[s].pc \in {"load", "take"}
  BY OthersWait DEF id
<1>5. uploadUpsets' \in 0 .. MaxUploadUpsets /\ revivedUpload' = revivedUpload /\ revivedUpload' \in BOOLEAN
  BY UploadUpsetType DEF PiecesInv
<1>6. uploadFiles' = [uploadFiles EXCEPT ![id] = f]
  BY DEF id
<1> HIDE DEF f
<1>7. f.json # Pieces!Nobody /\ f.part # Pieces!NoFile /\ ~f.stale => Pieces!Loads(id) /\ f.json = uploadFiles[id].json
  BY <1>2 DEF Pieces!Loads
<1>8. Busy(r)' => uploadTask'[r].key = id /\ TaskFits(uploadTask'[r], f) /\ uploadTask'[r].pc # "create"
  BY DEF TaskFits, id
<1> QED
  BY <1>1, <1>2, <1>3, <1>4, <1>5, <1>6, <1>7, <1>8, FileStep

\* The bytes before the piece that failed are left, or nothing is taken away yet.
LEMMA TruncationKeepsPiecesInv == ASSUME PiecesInv, NEW r \in UploadRequests, Pieces!truncateOrLog(r) PROVE PiecesInv'
<1> DEFINE t == uploadTask[r]
           id == t.key
           old == uploadFiles[id]
<1>1. Pieces!At(r, "append", "rollback") /\ UNCHANGED <<deliveredFiles, revivedUpload>>
  BY DEF Pieces!truncateOrLog
<1>2. /\ id \in UploadIds /\ t \in UploadTasks /\ TasksInv
      /\ \E n \in t.offset .. UploadSize : old.part = FirstBytes(n)
  BY <1>1, TurnFacts DEF TaskFits
<1>3. CASE /\ uploadFiles' = [uploadFiles EXCEPT ![id].part = Pieces!Truncated(old.part, t.offset)]
           /\ Pieces!Answer(r)
           /\ UNCHANGED uploadUpsets
  <2>1. t.offset \in Nat
    BY <1>2 DEF UploadTasks
  <2>2. PICK n \in t.offset .. UploadSize : old.part = FirstBytes(n)
    BY <1>2
  <2>3. n \in Nat /\ t.offset <= n /\ t.offset \in 0 .. UploadSize
    BY <2>1, <2>2, UploadsAssumption
  <2> DEFINE part == FirstBytes(t.offset)
             f == [old EXCEPT !.part = part]
  <2>4. Pieces!Truncated(old.part, t.offset) = part
    BY <2>1, <2>2, <2>3, PieceFacts
  <2>5. part \in Seq(Nat) /\ part \in Parts /\ part # Pieces!NoFile /\ old.part # Pieces!NoFile
    BY <2>1, <2>2, <2>3, ByteFacts DEF Parts
  <2>6. old \in StoredFiles /\ FileInOrder(old, deliveredFiles[id]) /\ deliveredFiles[id] \in Seq(Seq(Nat))
        /\ deliveredFiles' = [deliveredFiles EXCEPT ![id] = deliveredFiles[id]]
    BY <1>1, <1>2, FileFacts
  <2>7. uploadFiles' = [uploadFiles EXCEPT ![id] = f]
    BY <1>3, <2>4
  <2>8. TasksInv' /\ OthersStay(r) /\ ~Busy(r)'
    BY <1>2, <1>3, AnswerKeepsTasks
  <2>9. \A s \in UploadRequests \ {r} : Busy(s) /\ uploadTask[s].key = id => uploadTask[s].pc \in {"load", "take"}
    BY <1>1, OthersWait
  <2>10. uploadUpsets' \in 0 .. MaxUploadUpsets /\ revivedUpload' = revivedUpload /\ revivedUpload' \in BOOLEAN
    BY <1>1, <1>3 DEF PiecesInv
  <2> HIDE DEF t, id, part
  <2>11. f \in StoredFiles /\ f.part = part /\ f.json = old.json /\ f.done = old.done /\ f.stale = old.stale
    BY <2>5, <2>6 DEF StoredFiles
  <2> HIDE DEF f
  <2>12. FileInOrder(f, deliveredFiles[id])
    BY <2>5, <2>6, <2>11 DEF FileInOrder
  <2>13. f.json # Pieces!Nobody /\ f.part # Pieces!NoFile /\ ~f.stale => Pieces!Loads(id) /\ f.json = uploadFiles[id].json
    BY <2>5, <2>11 DEF Pieces!Loads
  <2> QED
    BY <1>2, <2>6, <2>7, <2>8, <2>9, <2>10, <2>11, <2>12, <2>13, FileStep
<1>4. CASE Pieces!Upset /\ Pieces!Goto(r, "drop") /\ UNCHANGED uploadFiles
  <2>1. "append" \in TaskKinds /\ {"rollback", "drop"} \subseteq TaskPlaces
    BY DEF TaskKinds, TaskPlaces
  <2>2. /\ TasksInv' /\ OthersStay(r) /\ Busy(r)'
        /\ uploadTask'[r].kind = "append" /\ uploadTask'[r].pc = "drop"
    BY <1>1, <1>4, <2>1, GotoFacts
  <2>3. TaskFits(uploadTask'[r], uploadFiles[uploadTask'[r].key])
    BY <2>2 DEF TaskFits
  <2>4. uploadUpsets' \in 0 .. MaxUploadUpsets
    BY <1>4, UploadUpsetType
  <2> QED
    BY <1>1, <1>4, <2>2, <2>3, <2>4, QuietStep
<1> QED
  BY <1>3, <1>4 DEF Pieces!truncateOrLog

\* A session that is dropped, cancelled or swept.
LEMMA RemovalsKeepPiecesInv ==
  ASSUME PiecesInv, NEW r \in UploadRequests, Pieces!DropSession(r) \/ Pieces!cancel(r) \/ Pieces!FinishRemoves(r)
  PROVE  PiecesInv'
<1> DEFINE id == uploadTask[r].key
<1>1. UNCHANGED <<deliveredFiles, revivedUpload>>
  BY DEF Pieces!DropSession, Pieces!cancel, Pieces!FinishRemoves
<1>2. ASSUME NEW gone, Pieces!remove(id, gone)
      PROVE  /\ uploadFiles' = [uploadFiles EXCEPT ![id] = Pieces!Removed(uploadFiles[id], gone)]
             /\ Pieces!Upset \/ UNCHANGED uploadUpsets
  BY <1>2 DEF Pieces!remove
<1>3. CASE Pieces!cancel(r) /\ UNCHANGED <<uploadFiles, uploadUpsets>>
  BY <1>1, <1>3, AnswerIsQuiet DEF Pieces!cancel
<1>4. CASE Pieces!DropSession(r) \/ Pieces!cancel(r)
  <2>1. CASE Pieces!cancel(r) /\ UNCHANGED <<uploadFiles, uploadUpsets>>
    BY <1>3, <2>1
  <2>2. CASE ~(Pieces!cancel(r) /\ UNCHANGED <<uploadFiles, uploadUpsets>>)
    <3>1. /\ Pieces!At(r, "append", "drop") \/ Pieces!At(r, "cancel", "load")
          /\ Pieces!Answer(r)
          /\ \E gone \in SUBSET {"json", "part"} : Pieces!remove(id, gone)
      BY <1>4, <2>2 DEF Pieces!DropSession, Pieces!cancel
    <3>2. PICK gone \in SUBSET {"json", "part"} : Pieces!remove(id, gone)
      BY <3>1
    <3>3. gone \in SUBSET {"json", "part", "done"}
      OBVIOUS
    <3>4. TasksInv' /\ OthersStay(r) /\ ~Busy(r)'
      BY <3>1, AnswerKeepsTasks DEF PiecesInv
    <3>5. /\ uploadFiles' = [uploadFiles EXCEPT ![id] = Pieces!Removed(uploadFiles[id], gone)]
          /\ Pieces!Upset \/ UNCHANGED uploadUpsets
      BY <1>2, <3>2
    <3> QED
      BY <1>1, <3>1, <3>3, <3>4, <3>5, RemovalStep
  <2> QED
    BY <2>1, <2>2
<1>5. CASE Pieces!FinishRemoves(r)
  <2>1. /\ Pieces!At(r, "finish", "remove")
        /\ uploadTask' = [Pieces!Settled(r) EXCEPT ![r] = [uploadTask[r] EXCEPT !.pc = "take"]]
        /\ \E gone \in {{"part"}, {"json", "part"}} : Pieces!remove(id, gone)
    BY <1>5 DEF Pieces!FinishRemoves
  <2>2. PICK gone \in {{"part"}, {"json", "part"}} : Pieces!remove(id, gone)
    BY <2>1
  <2>3. gone \in SUBSET {"json", "part", "done"}
    OBVIOUS
  <2>4. TasksInv' /\ OthersStay(r) /\ Busy(r)' /\ uploadTask'[r].pc = "take"
    BY <2>1, TurnFacts, TakingKeepsTasks
  <2>5. /\ uploadFiles' = [uploadFiles EXCEPT ![id] = Pieces!Removed(uploadFiles[id], gone)]
        /\ Pieces!Upset \/ UNCHANGED uploadUpsets
    BY <1>2, <2>2
  <2>6. uploadTask'[r].key = uploadTask[r].key
    <3> DEFINE old == uploadTask[r]
               t == [old EXCEPT !.pc = "take"]
    <3>1. uploadTask'[r] = t
      BY <2>1 DEF Pieces!Settled
    <3>2. old \in UploadTasks
      BY <2>1, TurnFacts
    <3> HIDE DEF old
    <3>3. t.key = old.key
      BY <3>2 DEF UploadTasks
    <3> QED
      BY <3>1, <3>3 DEF old
  <2> QED
    BY <1>1, <2>1, <2>3, <2>4, <2>5, <2>6, RemovalStep
<1> QED
  BY <1>4, <1>5

LEMMA SweepRemovesKeepsPiecesInv == ASSUME PiecesInv, NEW r \in UploadRequests, Pieces!SweepRemoves(r) PROVE PiecesInv'
<1> DEFINE t == uploadTask[r]
           id == t.key
           old == uploadFiles[id]
<1>1. Pieces!At(r, "sweep", "remove") /\ Pieces!Answer(r) /\ UNCHANGED <<deliveredFiles, revivedUpload>>
  BY DEF Pieces!SweepRemoves
<1>2. id \in UploadIds /\ t \in UploadTasks /\ TaskInPlace(r, t) /\ TasksInv
  BY <1>1, TurnFacts
<1>3. TasksInv' /\ OthersStay(r) /\ ~Busy(r)'
  BY <1>1, <1>2, AnswerKeepsTasks
<1>4. CASE Pieces!Upset /\ UNCHANGED uploadFiles
  BY <1>1, <1>4, AnswerIsQuiet
<1>5. CASE /\ uploadFiles' = [uploadFiles EXCEPT ![id] = Pieces!Removed(uploadFiles[id], {t.file})]
           /\ UNCHANGED uploadUpsets
  <2>1. {t.file} \in SUBSET {"json", "part", "done"}
    <3>1. t.kind = "sweep"
      BY <1>1, TurnFacts
    <3> QED
      BY <1>2, <3>1 DEF TaskInPlace
  <2> QED
    BY <1>1, <1>3, <1>5, <2>1, RemovalStep
<1>6. CASE uploadFiles' = [uploadFiles EXCEPT ![id] = [old EXCEPT !.done = Pieces!NoFile]] /\ UNCHANGED uploadUpsets
  <2> DEFINE f == [old EXCEPT !.done = Pieces!NoFile]
  <2>1. old \in StoredFiles /\ FileInOrder(old, deliveredFiles[id]) /\ deliveredFiles[id] \in Seq(Seq(Nat))
        /\ deliveredFiles' = [deliveredFiles EXCEPT ![id] = deliveredFiles[id]]
    BY <1>1, <1>2, FileFacts
  <2>2. uploadUpsets' \in 0 .. MaxUploadUpsets /\ revivedUpload' = revivedUpload /\ revivedUpload' \in BOOLEAN
    BY <1>1, <1>6 DEF PiecesInv
  <2>3. uploadFiles' = [uploadFiles EXCEPT ![id] = f]
    BY <1>6
  <2>4. Pieces!NoFile \in Seq(Nat)
    BY DEF Pieces!NoFile
  <2> HIDE DEF t, id
  <2>5. /\ f \in StoredFiles /\ f.part = old.part /\ f.json = old.json /\ f.done = Pieces!NoFile /\ f.stale = old.stale
    BY <2>1, <2>4 DEF StoredFiles
  <2> HIDE DEF f
  <2>6. FileInOrder(f, deliveredFiles[id])
    BY <2>1, <2>5 DEF FileInOrder
  <2>7. f.json # Pieces!Nobody /\ f.part # Pieces!NoFile /\ ~f.stale => Pieces!Loads(id) /\ f.json = uploadFiles[id].json
    BY <2>5 DEF Pieces!Loads
  <2> QED
    BY <1>2, <1>3, <2>1, <2>2, <2>3, <2>5, <2>6, <2>7, FileStep
<1> QED
  BY <1>4, <1>5, <1>6 DEF Pieces!SweepRemoves

\* A start that has the turn makes its session in the room its checks found.
LEMMA CreateKeepsPiecesInv == ASSUME PiecesInv, NEW r \in UploadRequests, Pieces!create(r) PROVE PiecesInv'
<1> DEFINE t == uploadTask[r]
<1>1. /\ Pieces!At(r, "start", "create") /\ Pieces!Answer(r) /\ UNCHANGED <<deliveredFiles, revivedUpload, uploadUpsets>>
      /\ \E id \in UploadIds :
           /\ uploadFiles[id] = Pieces!Unused /\ deliveredFiles[id] = <<>> /\ Pieces!AheadOf(id) = {}
           /\ uploadFiles' = [uploadFiles EXCEPT ![id] = [Pieces!Unused EXCEPT !.json = t.owner, !.part = <<>>]]
  BY DEF Pieces!create
<1>2. PICK id \in UploadIds :
        /\ uploadFiles[id] = Pieces!Unused /\ deliveredFiles[id] = <<>> /\ Pieces!AheadOf(id) = {}
        /\ uploadFiles' = [uploadFiles EXCEPT ![id] = [Pieces!Unused EXCEPT !.json = t.owner, !.part = <<>>]]
  BY <1>1
<1> DEFINE f == [Pieces!Unused EXCEPT !.json = t.owner, !.part = <<>>]
<1>3. t \in UploadTasks /\ t.kind = "start" /\ t.pc = "create" /\ Busy(r) /\ t.ahead = {} /\ t.key = 0 /\ TasksInv
  BY <1>1, TurnFacts DEF TaskInPlace
<1>4. t.owner \in Owners
  BY <1>3 DEF UploadTasks
<1>5. TasksInv' /\ OthersStay(r) /\ ~Busy(r)'
  BY <1>1, <1>3, AnswerKeepsTasks
<1>6. \A s \in UploadRequests \ {r} : Busy(s) /\ uploadTask[s].key = id => uploadTask[s].pc \in {"load", "take"}
  BY <1>2 DEF Pieces!AheadOf, Busy
<1>7. /\ deliveredFiles[id] \in Seq(Seq(Nat)) /\ deliveredFiles' = [deliveredFiles EXCEPT ![id] = deliveredFiles[id]]
      /\ uploadFiles \in [UploadIds -> StoredFiles]
  BY <1>1, FileFacts DEF PiecesInv, FilesInv
<1>8. uploadUpsets' \in 0 .. MaxUploadUpsets /\ revivedUpload' = revivedUpload /\ revivedUpload' \in BOOLEAN
  BY <1>1 DEF PiecesInv
<1>9. ~revivedUpload => /\ Cardinality(Pieces!Live) < MaxLive /\ Cardinality(Pieces!Live) <= MaxLive
                        /\ \A i \in Pieces!Live : uploadFiles[i].json # t.owner
                        /\ \A i, j \in Pieces!Live : uploadFiles[i].json = uploadFiles[j].json => i = j
  BY <1>3 DEF PiecesInv, RoomIsKept, StartHasRoom
<1>10. \A s \in UploadRequests : Busy(s)' => StartHasRoom(uploadTask[s])'
  <2> SUFFICES ASSUME NEW s \in UploadRequests, Busy(s)' PROVE StartHasRoom(uploadTask[s])'
    OBVIOUS
  <2>1. s # r /\ Busy(s) /\ SameTask(uploadTask'[s], uploadTask[s])
    BY <1>5 DEF OthersStay
  <2>2. uploadTask[s].kind = "start" => uploadTask[s].key = 0
    BY <1>3, <2>1, TaskFacts DEF TaskInPlace
  <2>3. uploadTask[s].kind = "start" => uploadTask[s].pc \in {"load", "take"}
    BY <1>3, <2>1, <2>2, TurnIsOnes
  <2> QED
    BY <2>1, <2>3 DEF StartHasRoom, SameTask
<1> HIDE DEF t
<1>11. f \in StoredFiles /\ f.json = t.owner /\ f.part = <<>> /\ f.done = Pieces!NoFile /\ f.stale = FALSE
  <2>1. Pieces!NoFile \in Seq(Nat) /\ <<>> \in Seq(Nat)
    BY DEF Pieces!NoFile
  <2> QED
    BY <1>4, <2>1 DEF StoredFiles, Pieces!Unused
<1>12. uploadFiles' = [uploadFiles EXCEPT ![id] = f]
  BY <1>2
<1> HIDE DEF f
<1>13. FileInOrder(f, deliveredFiles[id])
  <2>1. 0 \in 0 .. UploadSize /\ FirstBytes(0) = <<>>
    BY UploadsAssumption, ByteFacts
  <2> QED
    BY <1>2, <1>11, <2>1 DEF FileInOrder, Parts
<1>14. RoomIsKept'
  <2>1. CASE revivedUpload
    BY <1>8, <2>1 DEF RoomIsKept
  <2>2. CASE ~revivedUpload
    <3>1. uploadFiles'[id] = f /\ \A i \in UploadIds \ {id} : uploadFiles'[i] = uploadFiles[i]
      BY <1>7, <1>12
    <3>2. /\ Pieces!Live' \subseteq Pieces!Live \cup {id}
          /\ id \notin Pieces!Live
          /\ \A i \in Pieces!Live' \ {id} : i \in Pieces!Live /\ uploadFiles'[i] = uploadFiles[i]
      BY <1>2, <3>1 DEF Pieces!Live, Pieces!Loads, Pieces!Unused
    <3>3. IsFiniteSet(Pieces!Live \cup {id}) /\ Cardinality(Pieces!Live \cup {id}) = Cardinality(Pieces!Live) + 1
      BY <3>2, LiveFacts, FS_AddElement
    <3>4. Cardinality(Pieces!Live') <= Cardinality(Pieces!Live \cup {id}) /\ Cardinality(Pieces!Live') \in Nat
      BY <3>2, <3>3, FS_Subset, FS_CardinalityType
    <3>5. Cardinality(Pieces!Live') <= MaxLive
      BY <1>9, <2>2, <3>3, <3>4, LiveFacts, UploadsAssumption
    <3>6. ASSUME NEW i \in Pieces!Live', NEW j \in Pieces!Live', uploadFiles'[i].json = uploadFiles'[j].json PROVE i = j
      BY <1>9, <1>11, <2>2, <3>1, <3>2, <3>6
    <3> QED
      BY <1>10, <3>5, <3>6 DEF RoomIsKept
  <2> QED
    BY <2>1, <2>2
<1> QED
  BY <1>5, <1>6, <1>7, <1>8, <1>11, <1>12, <1>13, <1>14, FileStep

\* The whole file leaves its session.
LEMMA FinishRenamesKeepsPiecesInv == ASSUME PiecesInv, NEW r \in UploadRequests, Pieces!FinishRenames(r) PROVE PiecesInv'
<1> DEFINE t == uploadTask[r]
           id == t.key
           old == uploadFiles[id]
<1>1. Pieces!At(r, "finish", "rename") /\ UNCHANGED <<deliveredFiles, revivedUpload, uploadUpsets>>
  BY DEF Pieces!FinishRenames
<1>2. CASE Pieces!Answer(r) /\ UNCHANGED uploadFiles
  BY <1>1, <1>2, AnswerIsQuiet
<1>3. CASE ~(Pieces!Answer(r) /\ UNCHANGED uploadFiles)
  <2>1. /\ old.part # Pieces!NoFile /\ Pieces!Goto(r, "remove")
        /\ uploadFiles' = [uploadFiles EXCEPT ![id].done = old.part, ![id].part = Pieces!NoFile]
    BY <1>3 DEF Pieces!FinishRenames
  <2>2. id \in UploadIds /\ old.part = Whole
    BY <1>1, TurnFacts DEF TaskFits
  <2> DEFINE f == [old EXCEPT !.done = Whole, !.part = Pieces!NoFile]
  <2>3. old \in StoredFiles /\ FileInOrder(old, deliveredFiles[id]) /\ deliveredFiles[id] \in Seq(Seq(Nat))
        /\ deliveredFiles' = [deliveredFiles EXCEPT ![id] = deliveredFiles[id]]
        /\ uploadFiles \in [UploadIds -> StoredFiles]
    BY <1>1, <2>2, FileFacts DEF PiecesInv, FilesInv
  <2>4. uploadFiles' = [uploadFiles EXCEPT ![id] = f]
    BY <2>1, <2>2, <2>3 DEF StoredFiles
  <2>5. /\ TasksInv' /\ OthersStay(r) /\ Busy(r)'
        /\ uploadTask'[r].kind = "finish" /\ uploadTask'[r].pc = "remove" /\ uploadTask'[r].key = id
    <3>1. "finish" \in TaskKinds /\ {"rename", "remove"} \subseteq TaskPlaces
      BY DEF TaskKinds, TaskPlaces
    <3> QED
      BY <1>1, <2>1, <3>1, GotoFacts
  <2>6. \A s \in UploadRequests \ {r} : Busy(s) /\ uploadTask[s].key = id => uploadTask[s].pc \in {"load", "take"}
    BY <1>1, OthersWait
  <2>7. uploadUpsets' \in 0 .. MaxUploadUpsets /\ revivedUpload' = revivedUpload /\ revivedUpload' \in BOOLEAN
    BY <1>1 DEF PiecesInv
  <2>8. Pieces!NoFile \in Seq(Nat) /\ Whole \in Seq(Nat) /\ Whole # Pieces!NoFile
    BY UploadsAssumption, ByteFacts DEF Pieces!NoFile, Whole
  <2> HIDE DEF t, id
  <2>9. f \in StoredFiles /\ f.part = Pieces!NoFile /\ f.json = old.json /\ f.done = Whole /\ f.stale = old.stale
    BY <2>3, <2>8 DEF StoredFiles
  <2> HIDE DEF f
  <2>10. FileInOrder(f, deliveredFiles[id])
    BY <2>1, <2>3, <2>8, <2>9 DEF FileInOrder, Parts
  <2>11. TaskFits(uploadTask'[r], f)
    BY <2>5 DEF TaskFits
  <2> QED
    BY <2>2, <2>3, <2>4, <2>5, <2>6, <2>7, <2>9, <2>10, <2>11, FileStep
<1> QED
  BY <1>2, <1>3

\* The file is handed on or gone; either way the session has it no longer.
LEMMA TakeFileKeepsPiecesInv == ASSUME PiecesInv, NEW r \in UploadRequests, Pieces!TakeFile(r) PROVE PiecesInv'
<1> DEFINE t == uploadTask[r]
           id == t.key
           old == uploadFiles[id]
           f == [old EXCEPT !.done = Pieces!NoFile]
<1>1. Pieces!At(r, "finish", "take") /\ Pieces!Answer(r) /\ UNCHANGED revivedUpload
  BY DEF Pieces!TakeFile
<1>2. id \in UploadIds
  BY <1>1, TurnFacts
<1>3. CASE UNCHANGED <<uploadFiles, deliveredFiles>> /\ (Pieces!Upset \/ UNCHANGED uploadUpsets)
  BY <1>1, <1>3, AnswerIsQuiet
<1>4. TasksInv' /\ OthersStay(r) /\ ~Busy(r)'
  BY <1>1, AnswerKeepsTasks DEF PiecesInv
<1>5. old \in StoredFiles /\ FileInOrder(old, deliveredFiles[id]) /\ deliveredFiles[id] \in Seq(Seq(Nat))
      /\ uploadFiles \in [UploadIds -> StoredFiles] /\ deliveredFiles \in [UploadIds -> Seq(Seq(Nat))]
  BY <1>2, FileFacts DEF PiecesInv, FilesInv
<1>6. /\ f \in StoredFiles /\ f.part = old.part /\ f.json = old.json /\ f.done = Pieces!NoFile /\ f.stale = old.stale
  <2>1. Pieces!NoFile \in Seq(Nat)
    BY DEF Pieces!NoFile
  <2> HIDE DEF t, id, old
  <2> QED
    BY <1>5, <2>1 DEF StoredFiles
<1>7. ASSUME NEW handed \in Seq(Seq(Nat)), deliveredFiles' = [deliveredFiles EXCEPT ![id] = handed], FileInOrder(f, handed),
             uploadFiles' = [uploadFiles EXCEPT ![id] = f], Pieces!Upset \/ UNCHANGED uploadUpsets
      PROVE  PiecesInv'
  <2>1. uploadUpsets' \in 0 .. MaxUploadUpsets /\ revivedUpload' = revivedUpload /\ revivedUpload' \in BOOLEAN
    BY <1>1, <1>7, UploadUpsetType DEF PiecesInv
  <2>2. f.json # Pieces!Nobody /\ f.part # Pieces!NoFile /\ ~f.stale => Pieces!Loads(id) /\ f.json = uploadFiles[id].json
    BY <1>6 DEF Pieces!Loads
  <2> HIDE DEF f, id, t
  <2> QED
    BY <1>2, <1>4, <1>6, <1>7, <2>1, <2>2, FileStep
<1>8. CASE /\ old.done # Pieces!NoFile
           /\ deliveredFiles' = [deliveredFiles EXCEPT ![id] = Append(deliveredFiles[id], old.done)]
           /\ uploadFiles' = [uploadFiles EXCEPT ![id] = f]
           /\ UNCHANGED uploadUpsets
  <2>1. old.done = Whole /\ deliveredFiles[id] = <<>> /\ old.part = Pieces!NoFile /\ Whole \in Seq(Nat)
    BY <1>5, <1>8, UploadsAssumption, ByteFacts DEF FileInOrder, Whole
  <2>2. Append(deliveredFiles[id], old.done) = <<Whole>> /\ <<Whole>> \in Seq(Seq(Nat))
    BY <2>1
  <2> HIDE DEF f, id, old
  <2>3. FileInOrder(f, <<Whole>>)
    BY <1>6, <2>1 DEF FileInOrder, Parts
  <2>4. deliveredFiles' = [deliveredFiles EXCEPT ![id] = <<Whole>>]
    BY <1>8, <2>2
  <2> QED
    BY <1>7, <1>8, <2>2, <2>3, <2>4
<1>9. CASE Pieces!Upset /\ uploadFiles' = [uploadFiles EXCEPT ![id] = f] /\ UNCHANGED deliveredFiles
  <2>1. deliveredFiles' = [deliveredFiles EXCEPT ![id] = deliveredFiles[id]]
    BY <1>5, <1>9
  <2> HIDE DEF f, id, old
  <2>2. FileInOrder(f, deliveredFiles[id])
    BY <1>5, <1>6 DEF FileInOrder, old
  <2> QED
    BY <1>5, <1>7, <1>9, <2>1, <2>2
<1>10. \/ UNCHANGED <<uploadFiles, deliveredFiles>> /\ (Pieces!Upset \/ UNCHANGED uploadUpsets)
       \/ /\ old.done # Pieces!NoFile
          /\ deliveredFiles' = [deliveredFiles EXCEPT ![id] = Append(deliveredFiles[id], old.done)]
          /\ uploadFiles' = [uploadFiles EXCEPT ![id] = f]
          /\ UNCHANGED uploadUpsets
       \/ Pieces!Upset /\ uploadFiles' = [uploadFiles EXCEPT ![id] = f] /\ UNCHANGED deliveredFiles
  BY DEF Pieces!TakeFile
<1> QED
  BY <1>3, <1>8, <1>9, <1>10

\* A session may pass its lifetime under whoever is at work on it; it does not come back by that.
LEMMA ExpiresKeepsPiecesInv == ASSUME PiecesInv, NEW id \in UploadIds, Pieces!Expires(id) PROVE PiecesInv'
<1> DEFINE old == uploadFiles[id]
           f == [old EXCEPT !.stale = TRUE]
<1>1. /\ Pieces!Upset /\ uploadFiles' = [uploadFiles EXCEPT ![id] = f]
      /\ UNCHANGED <<uploadTask, deliveredFiles, revivedUpload>>
  BY DEF Pieces!Expires
<1>2. /\ old \in StoredFiles /\ FileInOrder(old, deliveredFiles[id]) /\ deliveredFiles[id] \in Seq(Seq(Nat))
      /\ deliveredFiles' = [deliveredFiles EXCEPT ![id] = deliveredFiles[id]]
  BY <1>1, FileFacts
<1> HIDE DEF old
<1>3. f \in StoredFiles /\ f.part = old.part /\ f.json = old.json /\ f.done = old.done /\ f.stale = TRUE
  BY <1>2 DEF StoredFiles
<1> HIDE DEF f
<1>4. FileInOrder(f, deliveredFiles[id])
  BY <1>2, <1>3 DEF FileInOrder
<1>5. /\ FilesInv' /\ uploadFiles'[id] = f
      /\ \A other \in UploadIds \ {id} : uploadFiles'[other] = uploadFiles[other]
  BY <1>1, <1>2, <1>3, <1>4, OneFileChanges
<1>6. TasksInv'
  BY <1>1 DEF PiecesInv, TasksInv, InTurn, Busy
<1>7. ChecksStillHold'
  <2> SUFFICES ASSUME NEW s \in UploadRequests, Busy(s)' PROVE TaskFits(uploadTask[s], uploadFiles[uploadTask[s].key])'
    BY DEF ChecksStillHold
  <2>1. /\ Busy(s) /\ uploadTask'[s] = uploadTask[s] /\ TaskFits(uploadTask[s], uploadFiles[uploadTask[s].key])
        /\ uploadTask[s] \in UploadTasks /\ TaskInPlace(s, uploadTask[s])
    BY <1>1, TaskFacts DEF PiecesInv, ChecksStillHold, Busy
  <2>2. CASE uploadTask[s].key = id
    BY <1>3, <1>5, <2>1, <2>2 DEF TaskFits, old
  <2>3. CASE uploadTask[s].key \in UploadIds \ {id}
    BY <1>5, <2>1, <2>3 DEF TaskFits
  <2>4. CASE uploadTask[s].key = 0
    BY <2>1, <2>4 DEF TaskFits, TaskInPlace
  <2> QED
    BY <2>1, <2>2, <2>3, <2>4 DEF UploadTasks
<1>8. RoomIsKept'
  <2>1. \A i \in UploadIds : Pieces!Loads(i)' => Pieces!Loads(i) /\ uploadFiles'[i].json = uploadFiles[i].json
    BY <1>3, <1>5 DEF Pieces!Loads
  <2> QED
    BY <1>1, <2>1, RoomStays DEF PiecesInv, Busy
<1>9. uploadUpsets' \in 0 .. MaxUploadUpsets /\ revivedUpload' \in BOOLEAN
  BY <1>1, UploadUpsetType DEF PiecesInv
<1> QED
  BY <1>5, <1>6, <1>7, <1>8, <1>9 DEF PiecesInv

\* The process starts again: nobody is at work, and the files are as far as they had come.
LEMMA RestartKeepsPiecesInv == ASSUME PiecesInv, Pieces!UploadsRestart PROVE PiecesInv'
<1>1. uploadTask' = [r \in UploadRequests |-> Pieces!NoUploadTask] /\ Pieces!Upset /\ UNCHANGED deliveredFiles
  BY DEF Pieces!UploadsRestart
<1>2. \A r \in UploadRequests : ~Busy(r)'
  BY <1>1 DEF Busy
<1>3. TasksInv'
  BY <1>1, <1>2 DEF TasksInv, InTurn
<1>4. ChecksStillHold'
  BY <1>2 DEF ChecksStillHold
<1>5. uploadUpsets' \in 0 .. MaxUploadUpsets
  BY <1>1, UploadUpsetType
<1>6. ASSUME FilesInv', revivedUpload' \in BOOLEAN,
             \/ revivedUpload'
             \/ /\ revivedUpload' = revivedUpload
                /\ \A id \in UploadIds :
                     Pieces!Loads(id)' => Pieces!Loads(id) /\ uploadFiles'[id].json = uploadFiles[id].json
      PROVE  PiecesInv'
  <2>1. RoomIsKept'
    BY <1>2, <1>6, RoomStays DEF PiecesInv
  <2> QED
    BY <1>3, <1>4, <1>5, <1>6, <2>1 DEF PiecesInv
<1>7. ASSUME NEW id \in UploadIds, NEW f \in StoredFiles, FileInOrder(f, deliveredFiles[id]),
             uploadFiles' = [uploadFiles EXCEPT ![id] = f], revivedUpload' \in BOOLEAN,
             \/ revivedUpload'
             \/ /\ revivedUpload' = revivedUpload
                /\ f.json # Pieces!Nobody /\ f.part # Pieces!NoFile /\ ~f.stale =>
                     Pieces!Loads(id) /\ f.json = uploadFiles[id].json
      PROVE  PiecesInv'
  <2>1. deliveredFiles[id] \in Seq(Seq(Nat)) /\ deliveredFiles' = [deliveredFiles EXCEPT ![id] = deliveredFiles[id]]
    BY <1>1, FileFacts
  <2>2. /\ FilesInv' /\ uploadFiles'[id] = f
        /\ \A other \in UploadIds \ {id} : uploadFiles'[other] = uploadFiles[other]
    BY <1>7, <2>1, OneFileChanges
  <2>3. \/ revivedUpload'
        \/ /\ revivedUpload' = revivedUpload
           /\ \A i \in UploadIds : Pieces!Loads(i)' => Pieces!Loads(i) /\ uploadFiles'[i].json = uploadFiles[i].json
    BY <1>7, <2>2 DEF Pieces!Loads
  <2> QED
    BY <1>6, <1>7, <2>2, <2>3
<1>8. CASE UNCHANGED <<uploadFiles, revivedUpload>>
  <2>1. FilesInv' /\ revivedUpload' \in BOOLEAN
    BY <1>1, <1>8 DEF PiecesInv, FilesInv
  <2>2. \A id \in UploadIds : Pieces!Loads(id)' => Pieces!Loads(id) /\ uploadFiles'[id].json = uploadFiles[id].json
    BY <1>8 DEF Pieces!Loads
  <2> QED
    BY <1>6, <1>8, <2>1, <2>2
<1>9. ASSUME NEW r \in UploadRequests, Pieces!At(r, "append", "write"), NEW n \in 1 .. uploadTask[r].length,
             uploadFiles' = [uploadFiles EXCEPT ![uploadTask[r].key] =
                               Pieces!Appended(uploadFiles[uploadTask[r].key], [i \in 1 .. n |-> uploadTask[r].offset + i])],
             revivedUpload' = (revivedUpload \/ uploadFiles[uploadTask[r].key].stale)
      PROVE  PiecesInv'
  <2> DEFINE t == uploadTask[r]
             id == t.key
             f == Pieces!Appended(uploadFiles[id], [i \in 1 .. n |-> t.offset + i])
  <2>1. /\ id \in UploadIds /\ t \in UploadTasks
        /\ uploadFiles[id].part = FirstBytes(t.offset) /\ t.offset + t.length <= UploadSize
    BY <1>9, TurnFacts DEF TaskFits
  <2>2. t.offset \in Nat /\ t.length \in Nat
    BY <2>1 DEF UploadTasks
  <2>3. n \in Nat /\ t.offset + n \in Nat /\ t.offset + n <= UploadSize
    BY <2>1, <2>2, UploadsAssumption
  <2>4. uploadFiles' = [uploadFiles EXCEPT ![id] = f]
    BY <1>9
  <2>5. uploadFiles[id] \in StoredFiles
    BY <2>1, FileFacts
  <2>6. /\ revivedUpload' \in BOOLEAN
        /\ revivedUpload' \/ (revivedUpload' = revivedUpload /\ ~uploadFiles[id].stale)
    BY <1>9, <2>5 DEF PiecesInv, StoredFiles
  <2> HIDE DEF t, id, f
  <2>7. f \in StoredFiles /\ f.json = uploadFiles[id].json /\ FileInOrder(f, deliveredFiles[id])
    BY <2>1, <2>2, <2>3, AppendedFacts DEF f
  <2>8. uploadFiles[id].part # Pieces!NoFile
    BY <2>1, <2>2, ByteFacts
  <2>9. ~uploadFiles[id].stale /\ f.json # Pieces!Nobody => Pieces!Loads(id) /\ f.json = uploadFiles[id].json
    BY <2>7, <2>8 DEF Pieces!Loads
  <2> QED
    BY <1>7, <2>1, <2>4, <2>6, <2>7, <2>9
<1>10. ASSUME NEW id \in UploadIds, uploadFiles[id] = Pieces!Unused, deliveredFiles[id] = <<>>,
              uploadFiles' = [uploadFiles EXCEPT ![id].part = <<>>], UNCHANGED revivedUpload
       PROVE  PiecesInv'
  <2> DEFINE old == uploadFiles[id]
             f == [old EXCEPT !.part = <<>>]
  <2>1. uploadFiles' = [uploadFiles EXCEPT ![id] = f]
    BY <1>10
  <2>2. old \in StoredFiles /\ old.json = Pieces!Nobody /\ old.done = Pieces!NoFile
    BY <1>10, FileFacts DEF Pieces!Unused
  <2> HIDE DEF old
  <2>5. f \in StoredFiles /\ f.json = Pieces!Nobody /\ f.part = <<>> /\ f.done = Pieces!NoFile
    <3>1. <<>> \in Seq(Nat)
      OBVIOUS
    <3> QED
      BY <2>2, <3>1 DEF StoredFiles
  <2> HIDE DEF f
  <2>3. FileInOrder(f, deliveredFiles[id])
    <3>1. 0 \in 0 .. UploadSize /\ FirstBytes(0) = <<>>
      BY UploadsAssumption, ByteFacts
    <3> QED
      BY <1>10, <2>5, <3>1 DEF FileInOrder, Parts
  <2>4. revivedUpload' \in BOOLEAN
    BY <1>10 DEF PiecesInv
  <2> QED
    BY <1>7, <1>10, <2>1, <2>3, <2>4, <2>5
<1> QED
  BY <1>8, <1>9, <1>10 DEF Pieces!UploadsRestart, Pieces!Bytes

LEMMA PiecesInitInv == Pieces!UploadsInit => PiecesInv
<1> SUFFICES ASSUME Pieces!UploadsInit PROVE PiecesInv
  OBVIOUS
<1>1. /\ uploadFiles = [id \in UploadIds |-> Pieces!Unused] /\ uploadTask = [r \in UploadRequests |-> Pieces!NoUploadTask]
      /\ deliveredFiles = [id \in UploadIds |-> <<>>] /\ revivedUpload = FALSE /\ uploadUpsets = 0
  BY DEF Pieces!UploadsInit
<1>2. \A r \in UploadRequests : ~Busy(r)
  BY <1>1 DEF Busy
<1>3. TasksInv
  BY <1>1, <1>2 DEF TasksInv, InTurn
<1>4. FilesInv
  <2>1. Pieces!Unused \in StoredFiles /\ FileInOrder(Pieces!Unused, <<>>)
    BY DEF Pieces!Unused, StoredFiles, Owners, Pieces!NoFile, FileInOrder, Parts
  <2> QED
    BY <1>1, <2>1 DEF FilesInv
<1>5. Pieces!Live = {}
  BY <1>1 DEF Pieces!Live, Pieces!Loads, Pieces!Unused
<1>6. RoomIsKept
  BY <1>2, <1>5, FS_EmptySet, UploadsAssumption DEF RoomIsKept
<1>7. ChecksStillHold
  BY <1>2 DEF ChecksStillHold
<1>8. uploadUpsets \in 0 .. MaxUploadUpsets
  BY <1>1, UploadsAssumption
<1>9. revivedUpload \in BOOLEAN
  BY <1>1
<1> QED
  BY <1>3, <1>4, <1>6, <1>7, <1>8, <1>9 DEF PiecesInv

LEMMA PiecesStutter == ASSUME PiecesInv, UNCHANGED uploadVars PROVE PiecesInv'
<1>1. UNCHANGED <<uploadFiles, uploadTask, deliveredFiles, revivedUpload, uploadUpsets>>
  BY DEF uploadVars
<1>2. TasksInv'
  BY <1>1 DEF PiecesInv, TasksInv, InTurn, Busy
<1>3. FilesInv'
  BY <1>1 DEF PiecesInv, FilesInv
<1>4. ChecksStillHold'
  BY <1>1 DEF PiecesInv, ChecksStillHold, Busy
<1>5. RoomIsKept'
  BY <1>1 DEF PiecesInv, RoomIsKept, Busy, StartHasRoom, Pieces!Live, Pieces!Loads
<1> QED
  BY <1>1, <1>2, <1>3, <1>4, <1>5 DEF PiecesInv

\* The requests that arrive.
LEMMA AsksKeepPiecesInv ==
  ASSUME PiecesInv, NEW r \in UploadRequests,
         \/ \E owner \in Uploaders : Pieces!AskStart(r, owner)
         \/ \E id \in UploadIds, file \in {"json", "part", "done"} : Pieces!AskSweep(r, id, file)
         \/ \E id \in UploadIds, owner \in Uploaders :
              \/ Pieces!AskFinish(r, owner, id) \/ Pieces!AskCancel(r, owner, id)
              \/ \E from \in 0 .. (UploadSize - 1), length \in 1 .. UploadSize : Pieces!AskAppend(r, owner, id, from, length)
  PROVE  PiecesInv'
<1>1. /\ Uploaders \subseteq Owners /\ Pieces!Nobody \in Owners /\ {"start", "append", "finish", "cancel", "sweep"} = TaskKinds
      /\ 0 \in Nat /\ 0 \notin UploadIds /\ UploadSize \in Nat
  BY UploadsAssumption DEF Owners, TaskKinds
<1>2. ASSUME NEW owner \in Uploaders, Pieces!AskStart(r, owner) PROVE PiecesInv'
  BY <1>1, <1>2, AskingKeepsPiecesInv DEF Pieces!AskStart, Pieces!StartKey
<1>3. ASSUME NEW id \in UploadIds, NEW file \in {"json", "part", "done"}, Pieces!AskSweep(r, id, file) PROVE PiecesInv'
  BY <1>1, <1>3, AskingKeepsPiecesInv DEF Pieces!AskSweep
<1>4. ASSUME NEW id \in UploadIds, NEW owner \in Uploaders, Pieces!AskFinish(r, owner, id) PROVE PiecesInv'
  <2>1. id # 0 /\ id \in UploadIds \cup {0} /\ owner \in Owners /\ "finish" \in TaskKinds /\ "none" # "json"
    BY <1>1
  <2>2. Pieces!Ask(r, Pieces!Task("finish", owner, id, 0, 0, "none"))
    BY <1>4 DEF Pieces!AskFinish
  <2> QED
    BY <1>1, <2>1, <2>2, AskingKeepsPiecesInv
<1>5. ASSUME NEW id \in UploadIds, NEW owner \in Uploaders, Pieces!AskCancel(r, owner, id) PROVE PiecesInv'
  <2>1. id # 0 /\ id \in UploadIds \cup {0} /\ owner \in Owners /\ "cancel" \in TaskKinds /\ "none" # "json"
    BY <1>1
  <2>2. Pieces!Ask(r, Pieces!Task("cancel", owner, id, 0, 0, "none"))
    BY <1>5 DEF Pieces!AskCancel
  <2> QED
    BY <1>1, <2>1, <2>2, AskingKeepsPiecesInv
<1>6. ASSUME NEW id \in UploadIds, NEW owner \in Uploaders, NEW from \in 0 .. (UploadSize - 1), NEW length \in 1 .. UploadSize,
             Pieces!AskAppend(r, owner, id, from, length)
      PROVE  PiecesInv'
  <2>1. /\ from \in Nat /\ length \in Nat /\ length > 0
        /\ id # 0 /\ id \in UploadIds \cup {0} /\ owner \in Owners /\ "append" \in TaskKinds
    BY <1>1
  <2>2. Pieces!Ask(r, Pieces!Task("append", owner, id, from, length, "none"))
    BY <1>6 DEF Pieces!AskAppend
  <2> QED
    BY <2>1, <2>2, AskingKeepsPiecesInv
<1> QED
  BY <1>2, <1>3, <1>4, <1>5, <1>6

LEMMA PiecesStep == ASSUME PiecesInv, Pieces!UploadsNext PROVE PiecesInv'
<1>1. CASE \E r \in UploadRequests, owner \in Uploaders : Pieces!AskStart(r, owner)
  BY <1>1, AsksKeepPiecesInv
<1>2. CASE \E r \in UploadRequests, id \in UploadIds, file \in {"json", "part", "done"} :
             Pieces!FileIsThere(id, file) /\ Pieces!AskSweep(r, id, file)
  BY <1>2, AsksKeepPiecesInv
<1>3. CASE \E r \in UploadRequests, id \in UploadIds, owner \in Uploaders :
             /\ uploadFiles[id].json = owner
             /\ \/ Pieces!AskFinish(r, owner, id) \/ Pieces!AskCancel(r, owner, id)
                \/ \E from \in 0 .. (UploadSize - 1), length \in 1 .. UploadSize : Pieces!AskAppend(r, owner, id, from, length)
  BY <1>3, AsksKeepPiecesInv
<1>4. CASE \E r \in UploadRequests :
             \/ Pieces!StartChecks(r) \/ Pieces!create(r) \/ Pieces!AppendChecks(r) \/ Pieces!AppendWrites(r)
             \/ Pieces!AppendFails(r) \/ Pieces!truncateOrLog(r) \/ Pieces!DropSession(r) \/ Pieces!FinishChecks(r)
             \/ Pieces!FinishRenames(r) \/ Pieces!FinishRemoves(r) \/ Pieces!TakeFile(r) \/ Pieces!cancel(r)
             \/ Pieces!SweepLooks(r) \/ Pieces!SweepRemoves(r)
  BY <1>4, StartChecksKeepPiecesInv, CreateKeepsPiecesInv, ChecksKeepPiecesInv, AppendWritesKeepsPiecesInv,
     AppendFailsKeepsPiecesInv, TruncationKeepsPiecesInv, RemovalsKeepPiecesInv, FinishRenamesKeepsPiecesInv,
     TakeFileKeepsPiecesInv, SweepRemovesKeepsPiecesInv
<1>5. CASE \E id \in UploadIds : Pieces!Expires(id)
  BY <1>5, ExpiresKeepsPiecesInv
<1>6. CASE Pieces!UploadsRestart
  BY <1>6, RestartKeepsPiecesInv
<1> QED
  BY <1>1, <1>2, <1>3, <1>4, <1>5, <1>6 DEF Pieces!UploadsNext

LEMMA PiecesHold == PiecesInv => Pieces!UploadsTypeOK /\ Pieces!UploadsAreWhole /\ Pieces!OneUploadEach
<1> SUFFICES ASSUME PiecesInv PROVE Pieces!UploadsTypeOK /\ Pieces!UploadsAreWhole /\ Pieces!OneUploadEach
  OBVIOUS
<1>1. ASSUME NEW id \in UploadIds
      PROVE  /\ uploadFiles[id].json \in Uploaders \cup {Pieces!Nobody}
             /\ uploadFiles[id].part = Pieces!NoFile \/ Len(uploadFiles[id].part) <= UploadSize
             /\ uploadFiles[id].done = Pieces!NoFile \/ Len(uploadFiles[id].done) <= UploadSize
             /\ deliveredFiles[id] \in {<<>>, <<Whole>>}
  <2>1. uploadFiles[id] \in StoredFiles /\ FileInOrder(uploadFiles[id], deliveredFiles[id])
    BY FileFacts
  <2>2. \A n \in 0 .. UploadSize : Len(FirstBytes(n)) <= UploadSize
    BY UploadsAssumption, ByteFacts
  <2>3. Len(Whole) <= UploadSize
    BY UploadsAssumption, ByteFacts DEF Whole
  <2> QED
    BY <2>1, <2>2, <2>3 DEF StoredFiles, Owners, FileInOrder, Parts
<1>2. Pieces!UploadsTypeOK
  BY <1>1, TaskFacts DEF PiecesInv, Pieces!UploadsTypeOK, Busy, TaskInPlace
<1>3. Pieces!UploadsAreWhole
  <2>1. ASSUME NEW id \in UploadIds
        PROVE  /\ Len(deliveredFiles[id]) <= 1
               /\ \A i \in DOMAIN deliveredFiles[id] : deliveredFiles[id][i] = Whole
    <3>1. CASE deliveredFiles[id] = <<>>
      BY <3>1
    <3>2. CASE deliveredFiles[id] = <<Whole>>
      <4> HIDE DEF Whole
      <4> QED
        BY <3>2
    <3> QED
      BY <1>1, <3>1, <3>2
  <2> QED
    BY <2>1 DEF Pieces!UploadsAreWhole, Whole, FirstBytes
<1>4. Pieces!OneUploadEach
  BY PieceCardinality DEF PiecesInv, RoomIsKept, Pieces!OneUploadEach
<1> QED
  BY <1>2, <1>3, <1>4

\* A session that is alive, and nobody ends it.
Undisturbed(id) == Pieces!Loads(id) /\ ~Pieces!Ending(id)
BytesStay(id) ==
  /\ uploadFiles'[id].json # Pieces!Nobody /\ uploadFiles'[id].part # Pieces!NoFile
  /\ \A i \in 1 .. Pieces!Received(id) :
       \/ Pieces!LeftOver(id, i)
       \/ i <= Len(uploadFiles'[id].part) /\ uploadFiles'[id].part[i] = uploadFiles[id].part[i]

LEMMA LoadedFacts ==
  ASSUME PiecesInv, NEW id \in UploadIds, Pieces!Loads(id)
  PROVE  /\ uploadFiles[id].json # Pieces!Nobody /\ ~uploadFiles[id].stale
         /\ \E n \in 0 .. UploadSize : n \in Nat /\ uploadFiles[id].part = FirstBytes(n)
<1>1. uploadFiles[id].part \in Parts /\ uploadFiles[id].part # Pieces!NoFile
  BY FileFacts DEF FileInOrder, Pieces!Loads
<1>2. \A n \in 0 .. UploadSize : n \in Nat
  BY UploadsAssumption
<1> QED
  BY <1>1, <1>2 DEF Parts, Pieces!Loads

\* The file has the first m bytes where it had the first n, and no byte between was confirmed.
LEMMA PrefixBytesStay ==
  ASSUME PiecesInv, NEW id \in UploadIds, Pieces!Loads(id), NEW m \in Nat, NEW n \in Nat,
         uploadFiles[id].part = FirstBytes(n), uploadFiles'[id].part = FirstBytes(m),
         uploadFiles'[id].json = uploadFiles[id].json,
         \A i \in 1 .. n : i > m => Pieces!LeftOver(id, i)
  PROVE  BytesStay(id)
<1>1. /\ Len(FirstBytes(n)) = n /\ Len(FirstBytes(m)) = m /\ FirstBytes(m) # Pieces!NoFile
      /\ (\A i \in 1 .. n : FirstBytes(n)[i] = i) /\ (\A i \in 1 .. m : FirstBytes(m)[i] = i)
  BY ByteFacts DEF FirstBytes
<1>2. ASSUME NEW i \in 1 .. n, ~Pieces!LeftOver(id, i)
      PROVE  i <= Len(uploadFiles'[id].part) /\ uploadFiles'[id].part[i] = uploadFiles[id].part[i]
  <2>1. i <= m /\ i \in 1 .. m
    BY <1>2
  <2> QED
    BY <1>1, <2>1
<1>3. Pieces!Received(id) = n
  BY <1>1 DEF Pieces!Received
<1> QED
  BY <1>1, <1>2, <1>3, LoadedFacts DEF BytesStay

LEMMA SameBytesStay ==
  ASSUME PiecesInv, NEW id \in UploadIds, Pieces!Loads(id),
         uploadFiles'[id].json = uploadFiles[id].json, uploadFiles'[id].part = uploadFiles[id].part
  PROVE  BytesStay(id)
<1>1. PICK n \in 0 .. UploadSize : n \in Nat /\ uploadFiles[id].part = FirstBytes(n)
  BY LoadedFacts
<1>2. \A i \in 1 .. n : ~(i > n)
  BY <1>1
<1> QED
  BY <1>1, <1>2, PrefixBytesStay

LEMMA ElsewhereBytesStay ==
  ASSUME PiecesInv, NEW id \in UploadIds, Pieces!Loads(id), NEW other, other # id, NEW f,
         uploadFiles' = [uploadFiles EXCEPT ![other] = f]
  PROVE  BytesStay(id)
<1>1. uploadFiles'[id] = uploadFiles[id]
  BY DEF PiecesInv, FilesInv
<1> QED
  BY <1>1, SameBytesStay

\* Of a piece, whole or half written, the file has all it had before.
LEMMA AppendingBytesStay ==
  ASSUME PiecesInv, NEW id \in UploadIds, Pieces!Loads(id), NEW r \in UploadRequests, Pieces!At(r, "append", "write"),
         NEW n \in 0 .. uploadTask[r].length,
         uploadFiles' = [uploadFiles EXCEPT ![uploadTask[r].key] =
                           Pieces!Appended(uploadFiles[uploadTask[r].key], [i \in 1 .. n |-> uploadTask[r].offset + i])]
  PROVE  BytesStay(id)
<1> DEFINE t == uploadTask[r]
           f == Pieces!Appended(uploadFiles[id], [i \in 1 .. n |-> t.offset + i])
<1>1. CASE t.key # id
  BY <1>1, ElsewhereBytesStay
<1>2. CASE t.key = id
  <2>1. /\ t \in UploadTasks /\ uploadFiles[id].part = FirstBytes(t.offset) /\ t.offset + t.length <= UploadSize
    BY <1>2, TurnFacts DEF TaskFits
  <2>2. t.offset \in Nat /\ t.length \in Nat
    BY <2>1 DEF UploadTasks
  <2>3. n \in Nat /\ t.offset + n \in Nat /\ t.offset <= t.offset + n /\ t.offset + n <= UploadSize
    BY <2>1, <2>2, UploadsAssumption
  <2>4. uploadFiles' = [uploadFiles EXCEPT ![id] = f]
    BY <1>2
  <2> HIDE DEF t
  <2>5. f.json = uploadFiles[id].json /\ f.part = FirstBytes(t.offset + n)
    BY <2>1, <2>2, <2>3, AppendedFacts
  <2> HIDE DEF f
  <2>6. uploadFiles'[id] = f
    BY <2>4 DEF PiecesInv, FilesInv
  <2>7. \A i \in 1 .. t.offset : ~(i > t.offset + n)
    BY <2>2, <2>3
  <2> QED
    BY <2>1, <2>2, <2>3, <2>5, <2>6, <2>7, PrefixBytesStay
<1> QED
  BY <1>1, <1>2

\* A rollback cuts off what the failed piece had left, and nothing before it.
LEMMA RollbackBytesStay ==
  ASSUME PiecesInv, NEW id \in UploadIds, Pieces!Loads(id), NEW r \in UploadRequests, Pieces!truncateOrLog(r)
  PROVE  BytesStay(id)
<1> DEFINE t == uploadTask[r]
           old == uploadFiles[t.key]
           f == [old EXCEPT !.part = FirstBytes(t.offset)]
<1>1. Pieces!At(r, "append", "rollback") /\ t.key \in UploadIds /\ t \in UploadTasks
  BY TurnFacts DEF Pieces!truncateOrLog
<1>2. PICK n \in t.offset .. UploadSize : old.part = FirstBytes(n)
  BY <1>1, TurnFacts DEF TaskFits
<1>3. t.offset \in Nat
  BY <1>1 DEF UploadTasks
<1>4. n \in Nat /\ t.offset <= n
  BY <1>2, <1>3, UploadsAssumption
<1>5. CASE UNCHANGED uploadFiles
  BY <1>5, SameBytesStay
<1>6. CASE uploadFiles' = [uploadFiles EXCEPT ![t.key].part = Pieces!Truncated(old.part, t.offset)]
  <2>1. uploadFiles' = [uploadFiles EXCEPT ![t.key] = f]
    BY <1>2, <1>3, <1>4, <1>6, PieceFacts
  <2>2. CASE t.key # id
    <3> HIDE DEF t, f
    <3> QED
      BY <2>1, <2>2, ElsewhereBytesStay
  <2>3. CASE t.key = id
    <3>1. old \in StoredFiles /\ uploadFiles'[id] = f
      BY <2>1, <2>3 DEF PiecesInv, FilesInv
    <3> HIDE DEF old
    <3>2. f.part = FirstBytes(t.offset) /\ f.json = old.json
      BY <3>1 DEF StoredFiles
    <3>3. ASSUME NEW i \in 1 .. n, i > t.offset PROVE Pieces!LeftOver(id, i)
      BY <1>1, <2>3, <3>3 DEF Pieces!LeftOver, Pieces!At
    <3> HIDE DEF f, t
    <3> QED
      BY <1>2, <1>3, <1>4, <2>3, <3>1, <3>2, <3>3, PrefixBytesStay DEF old
  <2> QED
    BY <2>2, <2>3
<1> QED
  BY <1>5, <1>6 DEF Pieces!truncateOrLog

\* A step that leaves the files alone, or makes another session, or takes away what is another's.
LEMMA OtherStepsBytesStay ==
  ASSUME PiecesInv, NEW id \in UploadIds, Undisturbed(id), NEW r \in UploadRequests,
         \/ Pieces!create(r) \/ Pieces!DropSession(r) \/ Pieces!FinishRenames(r)
         \/ Pieces!FinishRemoves(r) \/ Pieces!TakeFile(r) \/ Pieces!cancel(r) \/ Pieces!SweepRemoves(r)
  PROVE  BytesStay(id)
<1> DEFINE t == uploadTask[r]
<1>1. Pieces!Loads(id)
  BY DEF Undisturbed
<1>2. CASE UNCHANGED uploadFiles
  BY <1>1, <1>2, SameBytesStay
<1>3. CASE Pieces!create(r)
  <2>1. PICK other \in UploadIds :
          /\ uploadFiles[other] = Pieces!Unused
          /\ uploadFiles' = [uploadFiles EXCEPT ![other] = [Pieces!Unused EXCEPT !.json = t.owner, !.part = <<>>]]
    BY <1>3 DEF Pieces!create
  <2>2. other # id
    BY <1>1, <2>1 DEF Pieces!Loads, Pieces!Unused
  <2> QED
    BY <1>1, <2>1, <2>2, ElsewhereBytesStay
<1>4. ASSUME ~Pieces!create(r) PROVE UNCHANGED uploadFiles \/ t.key # id
  <2>1. \/ Pieces!At(r, "append", "drop") \/ Pieces!At(r, "finish", "rename")
        \/ Pieces!At(r, "finish", "remove") \/ Pieces!At(r, "finish", "take") \/ Pieces!At(r, "cancel", "load")
        \/ Pieces!At(r, "sweep", "remove")
    BY <1>4 DEF Pieces!DropSession, Pieces!FinishRenames, Pieces!FinishRemoves,
                Pieces!TakeFile, Pieces!cancel, Pieces!SweepRemoves
  <2>2. CASE Pieces!At(r, "sweep", "remove")
    <3>1. uploadFiles[t.key].stale
      BY <2>2, TurnFacts DEF TaskFits
    <3> QED
      BY <1>1, <3>1 DEF Pieces!Loads
  <2>3. CASE ~Pieces!At(r, "sweep", "remove")
    BY <2>1, <2>3 DEF Undisturbed, Pieces!Ending, Pieces!At
  <2> QED
    BY <2>2, <2>3
<1>5. ASSUME ~Pieces!create(r)
      PROVE  UNCHANGED uploadFiles \/ \E f : uploadFiles' = [uploadFiles EXCEPT ![t.key] = f]
  <2>1. CASE Pieces!DropSession(r) \/ Pieces!cancel(r) \/ Pieces!FinishRemoves(r)
    BY <2>1 DEF Pieces!DropSession, Pieces!cancel, Pieces!FinishRemoves, Pieces!remove
  <2>2. CASE Pieces!FinishRenames(r)
    <3> DEFINE old == uploadFiles[t.key]
    <3>1. t.key \in UploadIds /\ uploadFiles \in [UploadIds -> StoredFiles]
      BY <2>2, TurnFacts DEF Pieces!FinishRenames, PiecesInv, FilesInv
    <3>2. UNCHANGED uploadFiles \/
          uploadFiles' = [uploadFiles EXCEPT ![t.key].done = old.part, ![t.key].part = Pieces!NoFile]
      BY <2>2 DEF Pieces!FinishRenames
    <3>3. UNCHANGED uploadFiles \/
          uploadFiles' = [uploadFiles EXCEPT ![t.key] = [old EXCEPT !.done = old.part, !.part = Pieces!NoFile]]
      BY <3>1, <3>2
    <3> QED
      BY <3>3
  <2>3. CASE Pieces!TakeFile(r)
    BY <2>3 DEF Pieces!TakeFile
  <2>4. CASE Pieces!SweepRemoves(r)
    BY <2>4 DEF Pieces!SweepRemoves
  <2> QED
    BY <1>5, <2>1, <2>2, <2>3, <2>4
<1> HIDE DEF t
<1>6. CASE ~Pieces!create(r) /\ ~UNCHANGED uploadFiles
  <2>1. t.key # id
    BY <1>4, <1>6
  <2>2. PICK f : uploadFiles' = [uploadFiles EXCEPT ![t.key] = f]
    BY <1>5, <1>6
  <2> QED
    BY <1>1, <2>1, <2>2, ElsewhereBytesStay
<1> QED
  BY <1>2, <1>3, <1>6

LEMMA StepsKeepBytes == ASSUME PiecesInv, NEW id \in UploadIds, Undisturbed(id), Pieces!UploadsNext PROVE BytesStay(id)
<1>1. Pieces!Loads(id)
  BY DEF Undisturbed
<1>2. CASE UNCHANGED uploadFiles
  BY <1>1, <1>2, SameBytesStay
<1>3. ASSUME NEW r \in UploadRequests, Pieces!AppendWrites(r) PROVE BytesStay(id)
  <2>1. uploadTask[r].length \in 0 .. uploadTask[r].length /\ Pieces!At(r, "append", "write")
    <3>1. Pieces!At(r, "append", "write")
      BY <1>3 DEF Pieces!AppendWrites
    <3>2. uploadTask[r] \in UploadTasks
      BY <3>1, TurnFacts
    <3>3. uploadTask[r].length \in Nat
      BY <3>2 DEF UploadTasks
    <3> QED
      BY <3>1, <3>3
  <2> QED
    BY <1>1, <1>3, <2>1, AppendingBytesStay DEF Pieces!AppendWrites, Pieces!Bytes
<1>4. ASSUME NEW r \in UploadRequests, Pieces!At(r, "append", "write"), NEW n,
             n \in 0 .. (uploadTask[r].length - 1) \/ n \in 1 .. uploadTask[r].length,
             uploadFiles' = [uploadFiles EXCEPT ![uploadTask[r].key] =
                               Pieces!Appended(uploadFiles[uploadTask[r].key], [i \in 1 .. n |-> uploadTask[r].offset + i])]
      PROVE  BytesStay(id)
  <2>1. n \in 0 .. uploadTask[r].length
    <3>1. uploadTask[r] \in UploadTasks
      BY <1>4, TurnFacts
    <3>2. uploadTask[r].length \in Nat
      BY <3>1 DEF UploadTasks
    <3> QED
      BY <1>4, <3>2
  <2> QED
    BY <1>1, <1>4, <2>1, AppendingBytesStay
<1>5. ASSUME NEW r \in UploadRequests, Pieces!AppendFails(r) PROVE BytesStay(id)
  BY <1>4, <1>5 DEF Pieces!AppendFails, Pieces!Bytes
<1>6. CASE Pieces!UploadsRestart
  <2>1. CASE \E r \in UploadRequests :
               /\ Pieces!At(r, "append", "write")
               /\ \E n \in 1 .. uploadTask[r].length :
                    uploadFiles' = [uploadFiles EXCEPT ![uploadTask[r].key] =
                      Pieces!Appended(uploadFiles[uploadTask[r].key], [i \in 1 .. n |-> uploadTask[r].offset + i])]
    BY <1>4, <2>1
  <2>2. CASE \E other \in UploadIds :
               /\ uploadFiles[other] = Pieces!Unused
               /\ uploadFiles' = [uploadFiles EXCEPT ![other].part = <<>>]
    <3>1. PICK other \in UploadIds :
            /\ uploadFiles[other] = Pieces!Unused
            /\ uploadFiles' = [uploadFiles EXCEPT ![other] = [uploadFiles[other] EXCEPT !.part = <<>>]]
      BY <2>2
    <3>2. other # id
      BY <1>1, <3>1 DEF Pieces!Loads, Pieces!Unused
    <3> QED
      BY <1>1, <3>1, <3>2, ElsewhereBytesStay
  <2> QED
    BY <1>2, <1>6, <2>1, <2>2 DEF Pieces!UploadsRestart, Pieces!Bytes
<1>7. ASSUME NEW other \in UploadIds, Pieces!Expires(other) PROVE BytesStay(id)
  <2> DEFINE old == uploadFiles[other]
             f == [old EXCEPT !.stale = TRUE]
  <2>1. uploadFiles' = [uploadFiles EXCEPT ![other] = f]
    BY <1>7 DEF Pieces!Expires
  <2>2. CASE other # id
    BY <1>1, <2>1, <2>2, ElsewhereBytesStay
  <2>3. CASE other = id
    <3>1. old \in StoredFiles /\ uploadFiles'[id] = f
      BY <2>1, <2>3, FileFacts DEF PiecesInv, FilesInv
    <3> HIDE DEF old
    <3>2. f.json = old.json /\ f.part = old.part
      BY <3>1 DEF StoredFiles
    <3> HIDE DEF f
    <3> QED
      BY <1>1, <2>3, <3>1, <3>2, SameBytesStay DEF old
  <2> QED
    BY <2>2, <2>3
<1>8. CASE \/ \E r \in UploadRequests, owner \in Uploaders : Pieces!AskStart(r, owner)
           \/ \E r \in UploadRequests, other \in UploadIds, file \in {"json", "part", "done"} :
                Pieces!AskSweep(r, other, file)
           \/ \E r \in UploadRequests, other \in UploadIds, owner \in Uploaders :
                \/ Pieces!AskFinish(r, owner, other) \/ Pieces!AskCancel(r, owner, other)
                \/ \E from \in 0 .. (UploadSize - 1), length \in 1 .. UploadSize :
                     Pieces!AskAppend(r, owner, other, from, length)
  BY <1>2, <1>8 DEF Pieces!AskStart, Pieces!AskSweep, Pieces!AskFinish, Pieces!AskCancel, Pieces!AskAppend, Pieces!Ask
<1>9. ASSUME NEW r \in UploadRequests,
             Pieces!StartChecks(r) \/ Pieces!AppendChecks(r) \/ Pieces!FinishChecks(r) \/ Pieces!SweepLooks(r)
      PROVE  BytesStay(id)
  BY <1>2, <1>9 DEF Pieces!StartChecks, Pieces!AppendChecks, Pieces!FinishChecks, Pieces!SweepLooks
<1>10. CASE \E r \in UploadRequests :
              \/ Pieces!StartChecks(r) \/ Pieces!create(r) \/ Pieces!AppendChecks(r) \/ Pieces!AppendWrites(r)
              \/ Pieces!AppendFails(r) \/ Pieces!truncateOrLog(r) \/ Pieces!DropSession(r) \/ Pieces!FinishChecks(r)
              \/ Pieces!FinishRenames(r) \/ Pieces!FinishRemoves(r) \/ Pieces!TakeFile(r) \/ Pieces!cancel(r)
              \/ Pieces!SweepLooks(r) \/ Pieces!SweepRemoves(r)
  BY <1>1, <1>3, <1>5, <1>9, <1>10, RollbackBytesStay, OtherStepsBytesStay
<1> QED
  BY <1>6, <1>7, <1>8, <1>10 DEF Pieces!UploadsNext

\* What a session has confirmed stays, step by step.
LEMMA ConfirmedStay ==
  ASSUME PiecesInv, Pieces!UploadsNext \/ UNCHANGED uploadVars
  PROVE  \A id \in UploadIds : Undisturbed(id) => BytesStay(id)
<1> SUFFICES ASSUME NEW id \in UploadIds, Undisturbed(id) PROVE BytesStay(id)
  OBVIOUS
<1>1. CASE Pieces!UploadsNext
  BY <1>1, StepsKeepBytes
<1>2. CASE UNCHANGED uploadVars
  BY <1>2, SameBytesStay DEF Undisturbed, uploadVars
<1> QED
  BY <1>1, <1>2

-----------------------------------------------------------------------------
(* Overlay videos: slots, conversions that wait for each other, files, rows *)

VideoPlaces ==
  {"new", "discard", "detect", "place", "source", "row", "transcode", "unpart", "queued", "encode", "publish",
   "unsource", "undo", "done", "unlink"}
UploadRecords ==
  [pc : VideoPlaces, type : Videos!VideoTypes \cup {"unknown"}, slot : {"none", "held"},
   ffmpeg : {"none", "running", "killed", "overstayed"}]
VideoFileNames == Videos!TempFiles \cup {"stored"}
Converting == {"queued", "encode"}

HeldSlots == {u \in OverlayUploads : overlayUpload[u].slot = "held"}
PendingConversions == {u \in OverlayUploads : overlayUpload[u].pc \in Converting}

\* What an upload's place says of its slot, its ffmpeg, its files and its row.
VideoInPlace(upload, files, listed, unknown) ==
  /\ upload.pc \in {"new", "done", "unlink"} => upload.slot = "none"
  /\ upload.pc = "encode" <=> upload.ffmpeg \in {"running", "killed"}
  /\ upload.pc \in {"transcode", "queued", "encode"} => "source" \in files
  /\ upload.pc = "encode" => "partial" \in files
  /\ upload.pc = "row" => "stored" \in files
  /\ listed => upload.pc \in {"discard", "undo", "done"}
  /\ listed /\ ~unknown => upload.pc # "undo" /\ "stored" \in files

\* The queue holds every conversion that waits or runs, once, and the one that runs is its head.
ConversionsInOrder ==
  /\ transcodeQueue \in Seq(OverlayUploads)
  /\ \A i, j \in 1 .. Len(transcodeQueue) : transcodeQueue[i] = transcodeQueue[j] => i = j
  /\ \A u \in OverlayUploads :
       overlayUpload[u].pc \in Converting <=> \E i \in 1 .. Len(transcodeQueue) : transcodeQueue[i] = u
  /\ \A u \in OverlayUploads : overlayUpload[u].pc = "encode" => transcodeQueue[1] = u

VideoTypes ==
  /\ overlayUpload \in [OverlayUploads -> UploadRecords]
  /\ overlayFiles \in [OverlayUploads -> SUBSET VideoFileNames]
  /\ videoRows \subseteq OverlayUploads
  /\ activeUploads \in 0 .. MAX_CONCURRENT_OVERLAY_UPLOADS
  /\ pendingTranscodes \in 0 .. MAX_PENDING_WEBM_TRANSCODES

VideosInv ==
  /\ VideoTypes
  /\ \A u \in OverlayUploads : VideoInPlace(overlayUpload[u], overlayFiles[u], u \in videoRows, u \in rowUnknown)
  /\ ConversionsInOrder
  /\ activeUploads = Cardinality(HeldSlots)
  /\ pendingTranscodes = Cardinality(PendingConversions)

LEMMA VideoCardinality == \A S : Videos!Cardinality(S) = Cardinality(S)
BY DEF Videos!Cardinality, Cardinality

LEMMA VideosInitInv == ASSUME Videos!VideosInit PROVE VideosInv
<1> USE DEF Videos!VideosInit
<1>1. Videos!NewUpload \in UploadRecords /\ Videos!NewUpload.slot = "none" /\ Videos!NewUpload.pc = "new"
      /\ Videos!NewUpload.ffmpeg = "none"
  BY DEF Videos!NewUpload, UploadRecords, VideoPlaces
<1>2. HeldSlots = {} /\ PendingConversions = {}
  BY <1>1 DEF HeldSlots, PendingConversions, Converting
<1>3. VideoTypes
  BY <1>1, VideosAssumption DEF VideoTypes
<1>4. ASSUME NEW u \in OverlayUploads
      PROVE  VideoInPlace(overlayUpload[u], overlayFiles[u], u \in videoRows, u \in rowUnknown)
  BY <1>1 DEF VideoInPlace
<1>5. ConversionsInOrder
  BY <1>1 DEF ConversionsInOrder, Converting
<1> QED
  BY <1>2, <1>3, <1>4, <1>5, FS_EmptySet DEF VideosInv

\* A conversion joins the queue at its end.
LEMMA QueueGrows ==
  ASSUME VideosInv, NEW u \in OverlayUploads, overlayUpload[u].pc \notin Converting
  PROVE  LET q == Append(transcodeQueue, u) IN
         /\ q \in Seq(OverlayUploads)
         /\ \A i, j \in 1 .. Len(q) : q[i] = q[j] => i = j
         /\ \A v \in OverlayUploads :
              (\E i \in 1 .. Len(q) : q[i] = v) <=> v = u \/ \E i \in 1 .. Len(transcodeQueue) : transcodeQueue[i] = v
         /\ Len(transcodeQueue) > 0 => q[1] = transcodeQueue[1]
<1>0. ConversionsInOrder
  BY DEF VideosInv
<1> DEFINE q == Append(transcodeQueue, u)
           n == Len(transcodeQueue)
<1>1. n \in Nat /\ q \in Seq(OverlayUploads) /\ Len(q) = n + 1 /\ q[n + 1] = u
      /\ \A i \in 1 .. n : q[i] = transcodeQueue[i]
  BY <1>0 DEF ConversionsInOrder
<1>2. \A i \in 1 .. n : transcodeQueue[i] # u
  BY <1>0 DEF ConversionsInOrder
<1> HIDE DEF q
<1>3. \A i, j \in 1 .. Len(q) : q[i] = q[j] => i = j
  BY <1>0, <1>1, <1>2 DEF ConversionsInOrder
<1>4. \A v \in OverlayUploads :
        (\E i \in 1 .. Len(q) : q[i] = v) <=> v = u \/ \E i \in 1 .. n : transcodeQueue[i] = v
  BY <1>1
<1>5. n > 0 => q[1] = transcodeQueue[1]
  BY <1>1
<1> QED
  BY <1>1, <1>3, <1>4, <1>5 DEF q

\* And leaves it at its head.
LEMMA QueueShrinks ==
  ASSUME VideosInv, NEW u \in OverlayUploads, overlayUpload[u].pc \in Converting, transcodeQueue[1] = u
  PROVE  LET q == Tail(transcodeQueue) IN
         /\ q \in Seq(OverlayUploads)
         /\ \A i, j \in 1 .. Len(q) : q[i] = q[j] => i = j
         /\ \A v \in OverlayUploads :
              (\E i \in 1 .. Len(q) : q[i] = v) <=> v # u /\ \E i \in 1 .. Len(transcodeQueue) : transcodeQueue[i] = v
<1>0. ConversionsInOrder
  BY DEF VideosInv
<1> DEFINE q == Tail(transcodeQueue)
           n == Len(transcodeQueue)
<1>1. n \in Nat /\ n > 0 /\ transcodeQueue # <<>>
  BY <1>0 DEF ConversionsInOrder
<1>2. q \in Seq(OverlayUploads) /\ Len(q) = n - 1 /\ \A i \in 1 .. (n - 1) : q[i] = transcodeQueue[i + 1]
  BY <1>0, <1>1 DEF ConversionsInOrder
<1> HIDE DEF q
<1>3. \A i, j \in 1 .. Len(q) : q[i] = q[j] => i = j
  BY <1>0, <1>1, <1>2 DEF ConversionsInOrder
<1>4. ASSUME NEW v \in OverlayUploads
      PROVE  (\E i \in 1 .. Len(q) : q[i] = v) <=> v # u /\ \E i \in 1 .. n : transcodeQueue[i] = v
  <2>1. ASSUME NEW i \in 1 .. n, transcodeQueue[i] = v, v # u PROVE \E j \in 1 .. Len(q) : q[j] = v
    <3>1. i - 1 \in 1 .. (n - 1) /\ (i - 1) + 1 = i
      BY <1>1, <2>1
    <3> QED
      BY <1>2, <2>1, <3>1
  <2>2. ASSUME NEW i \in 1 .. Len(q), q[i] = v PROVE v # u /\ \E j \in 1 .. n : transcodeQueue[j] = v
    <3>1. i + 1 \in 1 .. n /\ i + 1 # 1 /\ 1 \in 1 .. n
      BY <1>1, <1>2
    <3> QED
      BY <1>0, <1>2, <2>2, <3>1 DEF ConversionsInOrder
  <2> QED
    BY <2>1, <2>2
<1> QED
  BY <1>2, <1>3, <1>4 DEF q

\* One upload changes: its slot, its place in the queue and its row go with it, and nothing changes for another.
LEMMA OneVideoChanges ==
  ASSUME VideosInv, NEW u \in OverlayUploads, NEW after \in UploadRecords, NEW files \in SUBSET VideoFileNames,
         overlayUpload' = [overlayUpload EXCEPT ![u] = after],
         overlayFiles' = [overlayFiles EXCEPT ![u] = files],
         \A v \in OverlayUploads \ {u} : (v \in videoRows' <=> v \in videoRows) /\ (v \in rowUnknown' <=> v \in rowUnknown),
         videoRows' \subseteq OverlayUploads,
         VideoInPlace(after, files, u \in videoRows', u \in rowUnknown'),
         \/ after.slot = overlayUpload[u].slot /\ activeUploads' = activeUploads
         \/ /\ after.slot = "held" /\ overlayUpload[u].slot = "none"
            /\ activeUploads' = activeUploads + 1 /\ activeUploads < MAX_CONCURRENT_OVERLAY_UPLOADS
         \/ after.slot = "none" /\ overlayUpload[u].slot = "held" /\ activeUploads' = activeUploads - 1,
         \/ /\ UNCHANGED <<transcodeQueue, pendingTranscodes>>
            /\ after.pc \in Converting <=> overlayUpload[u].pc \in Converting
            /\ after.pc = "encode" => transcodeQueue[1] = u
         \/ /\ overlayUpload[u].pc \notin Converting /\ after.pc = "queued"
            /\ transcodeQueue' = Append(transcodeQueue, u)
            /\ pendingTranscodes' = pendingTranscodes + 1 /\ pendingTranscodes < MAX_PENDING_WEBM_TRANSCODES
         \/ /\ overlayUpload[u].pc \in Converting /\ transcodeQueue[1] = u /\ after.pc \notin Converting
            /\ transcodeQueue' = Tail(transcodeQueue)
            /\ pendingTranscodes' = pendingTranscodes - 1
  PROVE  VideosInv'
<1>0. /\ overlayUpload' \in [OverlayUploads -> UploadRecords] /\ overlayFiles' \in [OverlayUploads -> SUBSET VideoFileNames]
      /\ overlayUpload'[u] = after /\ overlayFiles'[u] = files
      /\ \A v \in OverlayUploads \ {u} : overlayUpload'[v] = overlayUpload[v] /\ overlayFiles'[v] = overlayFiles[v]
  BY DEF VideosInv, VideoTypes
<1>1. ASSUME NEW v \in OverlayUploads
      PROVE  VideoInPlace(overlayUpload[v], overlayFiles[v], v \in videoRows, v \in rowUnknown)'
  <2>1. CASE v = u
    BY <1>0, <2>1 DEF VideoInPlace
  <2>2. CASE v # u
    BY <1>0, <2>2 DEF VideosInv, VideoInPlace
  <2> QED
    BY <2>1, <2>2
<1>2. ConversionsInOrder'
  <2>0. ConversionsInOrder
    BY DEF VideosInv
  <2>1. CASE /\ UNCHANGED <<transcodeQueue, pendingTranscodes>>
             /\ after.pc \in Converting <=> overlayUpload[u].pc \in Converting
             /\ after.pc = "encode" => transcodeQueue[1] = u
    <3>1. \A v \in OverlayUploads : overlayUpload'[v].pc \in Converting <=> overlayUpload[v].pc \in Converting
      BY <1>0, <2>1
    <3>2. \A v \in OverlayUploads : overlayUpload'[v].pc = "encode" => transcodeQueue[1] = v
      BY <1>0, <2>0, <2>1 DEF ConversionsInOrder
    <3> QED
      BY <2>0, <2>1, <3>1, <3>2 DEF ConversionsInOrder
  <2>2. CASE /\ overlayUpload[u].pc \notin Converting /\ after.pc = "queued"
             /\ transcodeQueue' = Append(transcodeQueue, u)
    <3> DEFINE q == transcodeQueue'
    <3>1. /\ q \in Seq(OverlayUploads)
          /\ \A i, j \in 1 .. Len(q) : q[i] = q[j] => i = j
          /\ \A v \in OverlayUploads :
               (\E i \in 1 .. Len(q) : q[i] = v) <=> v = u \/ \E i \in 1 .. Len(transcodeQueue) : transcodeQueue[i] = v
          /\ Len(transcodeQueue) > 0 => q[1] = transcodeQueue[1]
      BY <2>2, QueueGrows
    <3> HIDE DEF q
    <3>2. \A v \in OverlayUploads : overlayUpload'[v].pc \in Converting <=> \E i \in 1 .. Len(q) : q[i] = v
      <4>1. after.pc \in Converting
        BY <2>2 DEF Converting
      <4>2. \A v \in OverlayUploads : overlayUpload[v].pc \in Converting <=> \E i \in 1 .. Len(transcodeQueue) : transcodeQueue[i] = v
        BY <2>0 DEF ConversionsInOrder
      <4> QED
        BY <1>0, <3>1, <4>1, <4>2
    <3>3. ASSUME NEW v \in OverlayUploads, overlayUpload'[v].pc = "encode" PROVE q[1] = v
      <4>1. v # u /\ overlayUpload[v].pc = "encode" /\ transcodeQueue[1] = v
        BY <1>0, <2>0, <2>2, <3>3 DEF ConversionsInOrder
      <4>2. PICK i \in 1 .. Len(transcodeQueue) : transcodeQueue[i] = v
        BY <2>0, <4>1 DEF ConversionsInOrder, Converting
      <4>3. Len(transcodeQueue) \in Nat
        BY <2>0 DEF ConversionsInOrder
      <4> QED
        BY <3>1, <4>1, <4>2, <4>3
    <3> QED
      BY <3>1, <3>2, <3>3 DEF ConversionsInOrder, q
  <2>3. CASE /\ overlayUpload[u].pc \in Converting /\ transcodeQueue[1] = u /\ after.pc \notin Converting
             /\ transcodeQueue' = Tail(transcodeQueue)
    <3> DEFINE q == transcodeQueue'
    <3>1. /\ q \in Seq(OverlayUploads)
          /\ \A i, j \in 1 .. Len(q) : q[i] = q[j] => i = j
          /\ \A v \in OverlayUploads :
               (\E i \in 1 .. Len(q) : q[i] = v) <=> v # u /\ \E i \in 1 .. Len(transcodeQueue) : transcodeQueue[i] = v
      BY <2>3, QueueShrinks
    <3> HIDE DEF q
    <3>2. \A v \in OverlayUploads : overlayUpload'[v].pc \in Converting <=> \E i \in 1 .. Len(q) : q[i] = v
      <4>1. \A v \in OverlayUploads : overlayUpload[v].pc \in Converting <=> \E i \in 1 .. Len(transcodeQueue) : transcodeQueue[i] = v
        BY <2>0 DEF ConversionsInOrder
      <4> QED
        BY <1>0, <2>3, <3>1, <4>1
    <3>3. ASSUME NEW v \in OverlayUploads, overlayUpload'[v].pc = "encode" PROVE q[1] = v
      BY <1>0, <2>0, <2>3, <3>3 DEF ConversionsInOrder, Converting
    <3> QED
      BY <3>1, <3>2, <3>3 DEF ConversionsInOrder, q
  <2> QED
    BY <2>1, <2>2, <2>3
<1>3. /\ activeUploads' = Cardinality(HeldSlots') /\ activeUploads' \in 0 .. MAX_CONCURRENT_OVERLAY_UPLOADS
  <2>1. /\ HeldSlots \subseteq OverlayUploads /\ IsFiniteSet(HeldSlots) /\ activeUploads = Cardinality(HeldSlots)
        /\ activeUploads \in 0 .. MAX_CONCURRENT_OVERLAY_UPLOADS /\ MAX_CONCURRENT_OVERLAY_UPLOADS \in Nat
    BY VideosAssumption, FS_Subset DEF HeldSlots, VideosInv, VideoTypes
  <2>2. CASE after.slot = overlayUpload[u].slot /\ activeUploads' = activeUploads
    <3>1. HeldSlots' = HeldSlots
      BY <1>0, <2>2 DEF HeldSlots
    <3> QED
      BY <2>1, <2>2, <3>1
  <2>3. CASE /\ after.slot = "held" /\ overlayUpload[u].slot = "none"
             /\ activeUploads' = activeUploads + 1 /\ activeUploads < MAX_CONCURRENT_OVERLAY_UPLOADS
    <3>1. HeldSlots' = HeldSlots \cup {u} /\ u \notin HeldSlots
      BY <1>0, <2>3 DEF HeldSlots
    <3>2. Cardinality(HeldSlots') = Cardinality(HeldSlots) + 1
      BY <2>1, <3>1, FS_AddElement
    <3> QED
      BY <2>1, <2>3, <3>2
  <2>4. CASE after.slot = "none" /\ overlayUpload[u].slot = "held" /\ activeUploads' = activeUploads - 1
    <3>1. HeldSlots' = HeldSlots \ {u} /\ u \in HeldSlots
      BY <1>0, <2>4 DEF HeldSlots
    <3>2. Cardinality(HeldSlots') = Cardinality(HeldSlots) - 1 /\ IsFiniteSet(HeldSlots')
      BY <2>1, <3>1, FS_RemoveElement
    <3>3. Cardinality(HeldSlots') \in Nat
      BY <3>2, FS_CardinalityType
    <3> QED
      BY <2>1, <2>4, <3>2, <3>3
  <2> QED
    BY <2>2, <2>3, <2>4
<1>4. /\ pendingTranscodes' = Cardinality(PendingConversions') /\ pendingTranscodes' \in 0 .. MAX_PENDING_WEBM_TRANSCODES
  <2>1. /\ PendingConversions \subseteq OverlayUploads /\ IsFiniteSet(PendingConversions)
        /\ pendingTranscodes = Cardinality(PendingConversions)
        /\ pendingTranscodes \in 0 .. MAX_PENDING_WEBM_TRANSCODES /\ MAX_PENDING_WEBM_TRANSCODES \in Nat
    BY VideosAssumption, FS_Subset DEF PendingConversions, VideosInv, VideoTypes
  <2>2. CASE pendingTranscodes' = pendingTranscodes /\ (after.pc \in Converting <=> overlayUpload[u].pc \in Converting)
    <3>1. PendingConversions' = PendingConversions
      BY <1>0, <2>2 DEF PendingConversions
    <3> QED
      BY <2>1, <2>2, <3>1
  <2>3. CASE /\ overlayUpload[u].pc \notin Converting /\ after.pc = "queued"
             /\ pendingTranscodes' = pendingTranscodes + 1 /\ pendingTranscodes < MAX_PENDING_WEBM_TRANSCODES
    <3>1. PendingConversions' = PendingConversions \cup {u} /\ u \notin PendingConversions
      BY <1>0, <2>3 DEF PendingConversions, Converting
    <3>2. Cardinality(PendingConversions') = Cardinality(PendingConversions) + 1
      BY <2>1, <3>1, FS_AddElement
    <3> QED
      BY <2>1, <2>3, <3>2
  <2>4. CASE overlayUpload[u].pc \in Converting /\ after.pc \notin Converting /\ pendingTranscodes' = pendingTranscodes - 1
    <3>1. PendingConversions' = PendingConversions \ {u} /\ u \in PendingConversions
      BY <1>0, <2>4 DEF PendingConversions
    <3>2. Cardinality(PendingConversions') = Cardinality(PendingConversions) - 1 /\ IsFiniteSet(PendingConversions')
      BY <2>1, <3>1, FS_RemoveElement
    <3>3. Cardinality(PendingConversions') \in Nat
      BY <3>2, FS_CardinalityType
    <3> QED
      BY <2>1, <2>4, <3>2, <3>3
  <2> QED
    BY <2>2, <2>3, <2>4
<1>5. VideoTypes'
  BY <1>0, <1>3, <1>4 DEF VideoTypes
<1> QED
  BY <1>1, <1>2, <1>3, <1>4, <1>5 DEF VideosInv

\* What is known of an upload before its step, and of its files when a step leaves them alone.
LEMMA VideoFacts ==
  ASSUME VideosInv, NEW u \in OverlayUploads
  PROVE  /\ overlayUpload[u] \in UploadRecords /\ overlayFiles[u] \in SUBSET VideoFileNames
         /\ VideoInPlace(overlayUpload[u], overlayFiles[u], u \in videoRows, u \in rowUnknown)
         /\ overlayFiles = [overlayFiles EXCEPT ![u] = overlayFiles[u]]
         /\ overlayUpload[u].pc = "encode" => transcodeQueue[1] = u
         /\ overlayUpload[u].pc \in Converting => Head(transcodeQueue) = transcodeQueue[1]
         /\ videoRows \subseteq OverlayUploads /\ activeUploads \in Int
<1>1. overlayUpload[u].pc \in Converting => Head(transcodeQueue) = transcodeQueue[1]
  <2>1. overlayUpload[u].pc \in Converting => transcodeQueue \in Seq(OverlayUploads) /\ Len(transcodeQueue) > 0
    BY DEF VideosInv, ConversionsInOrder
  <2> QED
    BY <2>1
<1> QED
  BY <1>1 DEF VideosInv, VideoTypes, ConversionsInOrder

\* A step between two places outside the conversion, which holds no new slot and writes no row.
LEMMA VideoMovesOn ==
  ASSUME VideosInv, NEW u \in OverlayUploads, NEW pc \in VideoPlaces \ Converting, NEW files \in SUBSET VideoFileNames,
         overlayUpload[u].pc \notin Converting,
         overlayUpload' = [overlayUpload EXCEPT ![u].pc = pc], overlayFiles' = [overlayFiles EXCEPT ![u] = files],
         UNCHANGED <<activeUploads, transcodeQueue, pendingTranscodes, videoRows, rowUnknown>>,
         pc \in {"done", "unlink"} => overlayUpload[u].slot = "none", pc # "new",
         pc = "transcode" => "source" \in files,
         pc = "row" => "stored" \in files,
         u \in videoRows => pc \in {"discard", "done"} /\ (u \in rowUnknown \/ "stored" \in files)
  PROVE  VideosInv'
<1> DEFINE old == overlayUpload[u]
           after == [old EXCEPT !.pc = pc]
<1>1. old \in UploadRecords /\ VideoInPlace(old, overlayFiles[u], u \in videoRows, u \in rowUnknown)
  BY VideoFacts
<1>2. overlayUpload' = [overlayUpload EXCEPT ![u] = after]
  OBVIOUS
<1> HIDE DEF old
<1>3. after \in UploadRecords /\ after.slot = old.slot /\ after.pc = pc /\ after.ffmpeg = old.ffmpeg
  BY <1>1 DEF UploadRecords
<1> HIDE DEF after
<1>4. VideoInPlace(after, files, u \in videoRows, u \in rowUnknown)
  BY <1>1, <1>3 DEF VideoInPlace, Converting, old
<1>5. videoRows \subseteq OverlayUploads
  BY VideoFacts
<1> QED
  BY <1>2, <1>3, <1>4, <1>5, OneVideoChanges DEF old, Converting

LEMMA AdmissionKeepsVideosInv ==
  ASSUME VideosInv, NEW u \in OverlayUploads, Videos!limitConcurrentUploads(u)
  PROVE  VideosInv'
<1> DEFINE old == overlayUpload[u]
           full == activeUploads >= MAX_CONCURRENT_OVERLAY_UPLOADS
           after == IF full THEN [old EXCEPT !.pc = "discard"] ELSE [old EXCEPT !.pc = "detect", !.slot = "held"]
           files == overlayFiles[u] \cup {"incoming"}
<1>1. /\ old \in UploadRecords /\ VideoInPlace(old, overlayFiles[u], u \in videoRows, u \in rowUnknown)
      /\ overlayFiles[u] \in SUBSET VideoFileNames /\ videoRows \subseteq OverlayUploads /\ activeUploads \in Int
  BY VideoFacts
<1>2. /\ old.pc = "new" /\ overlayUpload' = [overlayUpload EXCEPT ![u] = after]
      /\ overlayFiles' = [overlayFiles EXCEPT ![u] = files]
      /\ activeUploads' = IF full THEN activeUploads ELSE activeUploads + 1
      /\ UNCHANGED <<videoRows, pendingTranscodes, transcodeQueue, rowUnknown>>
  BY DEF Videos!limitConcurrentUploads, Videos!Gains
<1> HIDE DEF old
<1>3. files \in SUBSET VideoFileNames
  BY <1>1 DEF VideoFileNames, Videos!TempFiles
<1>4. /\ after \in UploadRecords /\ after.pc \in {"discard", "detect"} /\ after.ffmpeg = old.ffmpeg
      /\ after.slot = IF full THEN old.slot ELSE "held"
  BY <1>1 DEF UploadRecords, VideoPlaces
<1> HIDE DEF after, files
<1>5. VideoInPlace(after, files, u \in videoRows, u \in rowUnknown) /\ old.slot = "none"
  BY <1>1, <1>2, <1>4 DEF VideoInPlace
<1>6. MAX_CONCURRENT_OVERLAY_UPLOADS \in Int
  BY VideosAssumption
<1>7. CASE full
  BY <1>1, <1>2, <1>3, <1>4, <1>5, <1>7, OneVideoChanges DEF old, Converting
<1>8. CASE ~full
  <2>1. activeUploads < MAX_CONCURRENT_OVERLAY_UPLOADS /\ activeUploads' = activeUploads + 1 /\ after.slot = "held"
    BY <1>1, <1>2, <1>4, <1>6, <1>8
  <2> QED
    BY <1>1, <1>2, <1>3, <1>4, <1>5, <2>1, OneVideoChanges DEF old, Converting
<1> QED
  BY <1>7, <1>8

LEMMA DetectionKeepsVideosInv ==
  ASSUME VideosInv, NEW u \in OverlayUploads, Videos!detectUploadedVideoType(u)
  PROVE  VideosInv'
<1> DEFINE old == overlayUpload[u]
<1>1. /\ old \in UploadRecords /\ VideoInPlace(old, overlayFiles[u], u \in videoRows, u \in rowUnknown)
      /\ overlayFiles[u] \in SUBSET VideoFileNames /\ videoRows \subseteq OverlayUploads
      /\ overlayFiles = [overlayFiles EXCEPT ![u] = overlayFiles[u]]
  BY VideoFacts
<1>2. PICK type \in Videos!VideoTypes :
        overlayUpload' = [overlayUpload EXCEPT ![u].type = type,
          ![u].pc = CASE type = "webm" -> "place" [] type = "mov" -> "source" [] OTHER -> "discard"]
  BY DEF Videos!detectUploadedVideoType
<1> DEFINE pc == CASE type = "webm" -> "place" [] type = "mov" -> "source" [] OTHER -> "discard"
           after == [old EXCEPT !.type = type, !.pc = pc]
<1>3. /\ old.pc = "detect" /\ overlayUpload' = [overlayUpload EXCEPT ![u] = after]
      /\ UNCHANGED <<overlayFiles, videoRows, activeUploads, pendingTranscodes, transcodeQueue, rowUnknown>>
  BY <1>2 DEF Videos!detectUploadedVideoType
<1>4. pc \in {"place", "source", "discard"}
  OBVIOUS
<1> HIDE DEF old, pc
<1>5. /\ after \in UploadRecords /\ after.pc \in {"place", "source", "discard"} /\ after.ffmpeg = old.ffmpeg
      /\ after.slot = old.slot
  BY <1>1, <1>4 DEF UploadRecords, VideoPlaces
<1> HIDE DEF after
<1>6. VideoInPlace(after, overlayFiles[u], u \in videoRows, u \in rowUnknown)
  BY <1>1, <1>3, <1>5 DEF VideoInPlace
<1> QED
  BY <1>1, <1>3, <1>5, <1>6, OneVideoChanges DEF old, Converting

\* The files of one upload after a step.
LEMMA VideoFilesChange ==
  ASSUME VideosInv, NEW u \in OverlayUploads
  PROVE  /\ \A file \in VideoFileNames : Videos!Loses(u, file) =>
              LET files == overlayFiles[u] \ {file} IN
              overlayFiles' = [overlayFiles EXCEPT ![u] = files] /\ files \in SUBSET VideoFileNames
         /\ \A from, to \in VideoFileNames : Videos!Renames(u, from, to) =>
              LET files == (overlayFiles[u] \ {from}) \cup {to} IN
              overlayFiles' = [overlayFiles EXCEPT ![u] = files] /\ files \in SUBSET VideoFileNames
         /\ UNCHANGED overlayFiles => overlayFiles' = [overlayFiles EXCEPT ![u] = overlayFiles[u]]
         /\ {"incoming", "source", "partial", "stored"} \subseteq VideoFileNames
BY VideoFacts DEF Videos!Loses, Videos!Renames, VideoFileNames, Videos!TempFiles

LEMMA PlacingKeepsVideosInv ==
  ASSUME VideosInv, NEW u \in OverlayUploads, Videos!placeUpload(u)
  PROVE  VideosInv'
<1> DEFINE old == overlayUpload[u]
<1>1. /\ old \in UploadRecords /\ VideoInPlace(old, overlayFiles[u], u \in videoRows, u \in rowUnknown)
      /\ overlayFiles[u] \in SUBSET VideoFileNames
  BY VideoFacts
<1>2. UNCHANGED <<videoRows, activeUploads, pendingTranscodes, transcodeQueue, rowUnknown>>
      /\ old.pc \in {"place", "source"}
  BY DEF Videos!placeUpload
<1>3. u \notin videoRows
  BY <1>1, <1>2 DEF VideoInPlace
<1>4. CASE old.pc = "place" /\ Videos!Renames(u, "incoming", "stored") /\ Videos!Moves(u, "row")
  <2> DEFINE files == (overlayFiles[u] \ {"incoming"}) \cup {"stored"}
  <2>1. overlayFiles' = [overlayFiles EXCEPT ![u] = files] /\ files \in SUBSET VideoFileNames /\ "stored" \in files
    BY <1>4, VideoFilesChange
  <2> HIDE DEF files
  <2>2. /\ "row" \in VideoPlaces \ Converting /\ old.pc \notin Converting
        /\ overlayUpload' = [overlayUpload EXCEPT ![u].pc = "row"]
    BY <1>4 DEF Videos!Moves, VideoPlaces, Converting
  <2> QED
    BY <1>2, <1>3, <2>1, <2>2, VideoMovesOn
<1>5. CASE old.pc = "source" /\ Videos!Renames(u, "incoming", "source") /\ Videos!Moves(u, "transcode")
  <2> DEFINE files == (overlayFiles[u] \ {"incoming"}) \cup {"source"}
  <2>1. overlayFiles' = [overlayFiles EXCEPT ![u] = files] /\ files \in SUBSET VideoFileNames /\ "source" \in files
    BY <1>5, VideoFilesChange
  <2> HIDE DEF files
  <2>2. /\ "transcode" \in VideoPlaces \ Converting /\ old.pc \notin Converting
        /\ overlayUpload' = [overlayUpload EXCEPT ![u].pc = "transcode"]
    BY <1>5 DEF Videos!Moves, VideoPlaces, Converting
  <2> QED
    BY <1>2, <1>3, <2>1, <2>2, VideoMovesOn
<1>6. CASE Videos!Moves(u, "discard") /\ UNCHANGED overlayFiles
  BY <1>1, <1>2, <1>3, <1>6, VideoFilesChange, VideoMovesOn DEF Videos!Moves, VideoPlaces, Converting
<1> QED
  BY <1>4, <1>5, <1>6 DEF Videos!placeUpload

\* A conversion that is over: its place in the queue and its pending slot go back.
LEMMA ConversionEnds ==
  ASSUME VideosInv, NEW u \in OverlayUploads, overlayUpload[u].pc \in Converting, transcodeQueue[1] = u,
         NEW pc \in {"publish", "unpart"}, NEW ffmpeg \in {"none", "overstayed"},
         overlayUpload' = [overlayUpload EXCEPT ![u].pc = pc, ![u].ffmpeg = ffmpeg],
         transcodeQueue' = Tail(transcodeQueue), pendingTranscodes' = pendingTranscodes - 1,
         UNCHANGED <<overlayFiles, videoRows, activeUploads, rowUnknown>>
  PROVE  VideosInv'
<1> DEFINE old == overlayUpload[u]
           after == [old EXCEPT !.pc = pc, !.ffmpeg = ffmpeg]
<1>1. /\ old \in UploadRecords /\ VideoInPlace(old, overlayFiles[u], u \in videoRows, u \in rowUnknown)
      /\ overlayFiles[u] \in SUBSET VideoFileNames /\ videoRows \subseteq OverlayUploads
      /\ overlayFiles = [overlayFiles EXCEPT ![u] = overlayFiles[u]]
  BY VideoFacts
<1>2. overlayUpload' = [overlayUpload EXCEPT ![u] = after]
  OBVIOUS
<1> HIDE DEF old
<1>3. after \in UploadRecords /\ after.pc = pc /\ after.ffmpeg = ffmpeg /\ after.slot = old.slot
  BY <1>1 DEF UploadRecords, VideoPlaces
<1> HIDE DEF after
<1>4. VideoInPlace(after, overlayFiles[u], u \in videoRows, u \in rowUnknown) /\ after.pc \notin Converting
  BY <1>1, <1>3 DEF VideoInPlace, Converting, old
<1> QED
  BY <1>1, <1>2, <1>3, <1>4, OneVideoChanges DEF old

LEMMA TranscodingKeepsVideosInv ==
  ASSUME VideosInv, NEW u \in OverlayUploads, Videos!transcodeToWebm(u) \/ Videos!runFfmpeg(u)
  PROVE  VideosInv'
<1> DEFINE old == overlayUpload[u]
<1>1. /\ old \in UploadRecords /\ VideoInPlace(old, overlayFiles[u], u \in videoRows, u \in rowUnknown)
      /\ overlayFiles[u] \in SUBSET VideoFileNames /\ videoRows \subseteq OverlayUploads
      /\ overlayFiles = [overlayFiles EXCEPT ![u] = overlayFiles[u]]
      /\ old.pc \in Converting => Head(transcodeQueue) = transcodeQueue[1]
  BY VideoFacts
<1>2. UNCHANGED <<videoRows, activeUploads, rowUnknown>>
  BY DEF Videos!transcodeToWebm, Videos!runFfmpeg
<1>3. CASE Videos!transcodeToWebm(u) /\ pendingTranscodes >= MAX_PENDING_WEBM_TRANSCODES
  <2>1. /\ old.pc = "transcode" /\ overlayUpload' = [overlayUpload EXCEPT ![u].pc = "unpart"]
        /\ UNCHANGED <<transcodeQueue, pendingTranscodes, overlayFiles>>
    BY <1>3 DEF Videos!transcodeToWebm, Videos!Moves
  <2>2. "unpart" \in VideoPlaces \ Converting /\ old.pc \notin Converting /\ u \notin videoRows
    BY <1>1, <2>1 DEF VideoPlaces, Converting, VideoInPlace
  <2> QED
    BY <1>1, <1>2, <2>1, <2>2, VideoMovesOn
<1>4. CASE Videos!transcodeToWebm(u) /\ ~(pendingTranscodes >= MAX_PENDING_WEBM_TRANSCODES)
  <2> DEFINE after == [old EXCEPT !.pc = "queued"]
  <2>1. /\ old.pc = "transcode" /\ overlayUpload' = [overlayUpload EXCEPT ![u] = after]
        /\ transcodeQueue' = Append(transcodeQueue, u) /\ pendingTranscodes' = pendingTranscodes + 1
        /\ UNCHANGED overlayFiles
    BY <1>4 DEF Videos!transcodeToWebm, Videos!Moves
  <2>2. pendingTranscodes < MAX_PENDING_WEBM_TRANSCODES
    BY <1>4, VideosAssumption DEF VideosInv, VideoTypes
  <2> HIDE DEF old
  <2>3. after \in UploadRecords /\ after.pc = "queued" /\ after.ffmpeg = old.ffmpeg /\ after.slot = old.slot
    BY <1>1 DEF UploadRecords, VideoPlaces
  <2> HIDE DEF after
  <2>4. VideoInPlace(after, overlayFiles[u], u \in videoRows, u \in rowUnknown) /\ old.pc \notin Converting
    BY <1>1, <2>1, <2>3 DEF VideoInPlace, Converting
  <2> QED
    BY <1>1, <1>2, <2>1, <2>2, <2>3, <2>4, OneVideoChanges DEF old
<1>5. CASE Videos!runFfmpeg(u)
  <2>1. old.pc = "queued" /\ Head(transcodeQueue) = u
    BY <1>5 DEF Videos!runFfmpeg
  <2>2. old.pc \in Converting /\ transcodeQueue[1] = u
    BY <1>1, <2>1 DEF Converting
  <2>3. CASE /\ overlayUpload' = [overlayUpload EXCEPT ![u].pc = "encode", ![u].ffmpeg = "running"]
             /\ Videos!Gains(u, "partial")
             /\ UNCHANGED <<pendingTranscodes, transcodeQueue>>
    <3> DEFINE after == [old EXCEPT !.pc = "encode", !.ffmpeg = "running"]
               files == overlayFiles[u] \cup {"partial"}
    <3>1. overlayUpload' = [overlayUpload EXCEPT ![u] = after] /\ overlayFiles' = [overlayFiles EXCEPT ![u] = files]
      BY <2>3 DEF Videos!Gains
    <3>2. files \in SUBSET VideoFileNames /\ "partial" \in files /\ ("source" \in overlayFiles[u] => "source" \in files)
      BY <1>1 DEF VideoFileNames, Videos!TempFiles
    <3> HIDE DEF old, files
    <3>3. after \in UploadRecords /\ after.pc = "encode" /\ after.ffmpeg = "running" /\ after.slot = old.slot
      BY <1>1 DEF UploadRecords, VideoPlaces
    <3> HIDE DEF after
    <3>4. VideoInPlace(after, files, u \in videoRows, u \in rowUnknown) /\ after.pc \in Converting
      BY <1>1, <2>1, <3>2, <3>3 DEF VideoInPlace, Converting
    <3> QED
      BY <1>1, <1>2, <2>2, <2>3, <3>1, <3>2, <3>3, <3>4, OneVideoChanges DEF old
  <2>4. CASE /\ Videos!Moves(u, "unpart")
             /\ pendingTranscodes' = pendingTranscodes - 1
             /\ transcodeQueue' = Tail(transcodeQueue)
             /\ UNCHANGED overlayFiles
    <3> DEFINE after == [old EXCEPT !.pc = "unpart"]
    <3>1. overlayUpload' = [overlayUpload EXCEPT ![u] = after]
      BY <2>4 DEF Videos!Moves
    <3> HIDE DEF old
    <3>3. after \in UploadRecords /\ after.pc = "unpart" /\ after.ffmpeg = old.ffmpeg /\ after.slot = old.slot
      BY <1>1 DEF UploadRecords, VideoPlaces
    <3> HIDE DEF after
    <3>4. VideoInPlace(after, overlayFiles[u], u \in videoRows, u \in rowUnknown) /\ after.pc \notin Converting
      BY <1>1, <2>1, <3>3 DEF VideoInPlace, Converting
    <3> QED
      BY <1>1, <1>2, <2>2, <2>4, <3>1, <3>3, <3>4, OneVideoChanges DEF old
  <2> QED
    BY <1>5, <2>3, <2>4 DEF Videos!runFfmpeg
<1> QED
  BY <1>3, <1>4, <1>5

\* ffmpeg that closes, is given up, exits after that, or is told to die.
LEMMA FfmpegKeepsVideosInv ==
  ASSUME VideosInv, NEW u \in OverlayUploads,
         Videos!FfmpegCloses(u) \/ Videos!FfmpegTimesOut(u) \/ Videos!ExitGraceEnds(u) \/ Videos!OverstayerExits(u)
  PROVE  VideosInv'
<1> DEFINE old == overlayUpload[u]
<1>1. /\ old \in UploadRecords /\ VideoInPlace(old, overlayFiles[u], u \in videoRows, u \in rowUnknown)
      /\ overlayFiles[u] \in SUBSET VideoFileNames /\ videoRows \subseteq OverlayUploads
      /\ overlayFiles = [overlayFiles EXCEPT ![u] = overlayFiles[u]]
      /\ old.pc = "encode" => transcodeQueue[1] = u
  BY VideoFacts
<1>2. CASE Videos!FfmpegCloses(u) \/ Videos!ExitGraceEnds(u)
  <2>1. /\ old.pc = "encode"
        /\ Videos!Settle(u, "publish", "none") \/ Videos!Settle(u, "unpart", "none") \/ Videos!Settle(u, "unpart", "overstayed")
    BY <1>2 DEF Videos!FfmpegCloses, Videos!ExitGraceEnds
  <2>2. \E pc \in {"publish", "unpart"}, ffmpeg \in {"none", "overstayed"} : Videos!Settle(u, pc, ffmpeg)
    BY <2>1
  <2>3. PICK pc \in {"publish", "unpart"}, ffmpeg \in {"none", "overstayed"} : Videos!Settle(u, pc, ffmpeg)
    BY <2>2
  <2>4. /\ overlayUpload' = [overlayUpload EXCEPT ![u].pc = pc, ![u].ffmpeg = ffmpeg]
        /\ transcodeQueue' = Tail(transcodeQueue) /\ pendingTranscodes' = pendingTranscodes - 1
        /\ UNCHANGED <<overlayFiles, videoRows, activeUploads, rowUnknown>>
    BY <2>3 DEF Videos!Settle
  <2>5. old.pc \in Converting /\ transcodeQueue[1] = u
    BY <1>1, <2>1 DEF Converting
  <2> QED
    BY <2>4, <2>5, ConversionEnds
<1>3. CASE Videos!FfmpegTimesOut(u) \/ Videos!OverstayerExits(u)
  <2> DEFINE ffmpeg == IF old.ffmpeg = "running" THEN "killed" ELSE "none"
             after == [old EXCEPT !.ffmpeg = ffmpeg]
  <2>1. /\ \/ old.pc = "encode" /\ old.ffmpeg = "running"
           \/ old.ffmpeg = "overstayed"
        /\ overlayUpload' = [overlayUpload EXCEPT ![u] = after]
        /\ UNCHANGED <<overlayFiles, videoRows, activeUploads, pendingTranscodes, transcodeQueue, rowUnknown>>
    BY <1>3 DEF Videos!FfmpegTimesOut, Videos!OverstayerExits
  <2>2. ffmpeg \in {"killed", "none"} /\ (old.ffmpeg = "running" <=> ffmpeg = "killed")
    OBVIOUS
  <2> HIDE DEF old, ffmpeg
  <2>3. after \in UploadRecords /\ after.pc = old.pc /\ after.slot = old.slot /\ after.ffmpeg = ffmpeg
    BY <1>1, <2>2 DEF UploadRecords
  <2> HIDE DEF after
  <2>4. VideoInPlace(after, overlayFiles[u], u \in videoRows, u \in rowUnknown)
    BY <1>1, <2>1, <2>2, <2>3 DEF VideoInPlace
  <2> QED
    BY <1>1, <2>1, <2>3, <2>4, OneVideoChanges DEF old
<1> QED
  BY <1>2, <1>3

LEMMA PublishingKeepsVideosInv ==
  ASSUME VideosInv, NEW u \in OverlayUploads, Videos!PublishWebm(u) \/ Videos!removeQuietly(u)
  PROVE  VideosInv'
<1> DEFINE old == overlayUpload[u]
<1>1. /\ old \in UploadRecords /\ VideoInPlace(old, overlayFiles[u], u \in videoRows, u \in rowUnknown)
      /\ overlayFiles[u] \in SUBSET VideoFileNames
      /\ overlayFiles = [overlayFiles EXCEPT ![u] = overlayFiles[u]]
  BY VideoFacts
<1>2. UNCHANGED <<videoRows, activeUploads, pendingTranscodes, transcodeQueue, rowUnknown>>
      /\ old.pc \in {"publish", "unpart", "unsource"}
  BY DEF Videos!PublishWebm, Videos!removeQuietly
<1>3. u \notin videoRows /\ old.pc \notin Converting
  BY <1>1, <1>2 DEF VideoInPlace, Converting
<1>4. {"unsource", "unpart", "row", "discard"} \subseteq VideoPlaces \ Converting
  BY DEF VideoPlaces, Converting
<1>5. ASSUME NEW pc \in {"unsource", "unpart", "row", "discard"}, NEW files \in SUBSET VideoFileNames,
             Videos!Moves(u, pc), overlayFiles' = [overlayFiles EXCEPT ![u] = files], pc = "row" => "stored" \in files
      PROVE  VideosInv'
  <2>1. pc \in VideoPlaces \ Converting /\ pc \notin {"new", "done", "unlink", "transcode"}
    BY <1>4
  <2>2. overlayUpload' = [overlayUpload EXCEPT ![u].pc = pc]
    BY <1>5 DEF Videos!Moves
  <2> QED
    BY <1>2, <1>3, <1>5, <2>1, <2>2, VideoMovesOn
<1>6. CASE Videos!PublishWebm(u)
  <2>1. CASE Videos!Renames(u, "partial", "stored") /\ Videos!Moves(u, "unsource")
    BY <1>5, <2>1, VideoFilesChange
  <2>2. CASE Videos!Moves(u, "unpart") /\ UNCHANGED overlayFiles
    BY <1>1, <1>5, <2>2
  <2> QED
    BY <1>6, <2>1, <2>2 DEF Videos!PublishWebm
<1>7. CASE Videos!removeQuietly(u)
  <2> DEFINE next == IF "stored" \in overlayFiles[u] THEN "row" ELSE "discard"
  <2>1. CASE Videos!Loses(u, "partial") /\ Videos!Moves(u, "unsource")
    BY <1>5, <2>1, VideoFilesChange
  <2>2. CASE Videos!Loses(u, "source") /\ Videos!Moves(u, next)
    <3> DEFINE files == overlayFiles[u] \ {"source"}
    <3>1. overlayFiles' = [overlayFiles EXCEPT ![u] = files] /\ files \in SUBSET VideoFileNames
      BY <2>2, VideoFilesChange
    <3>2. next \in {"row", "discard"} /\ (next = "row" => "stored" \in files)
      OBVIOUS
    <3> HIDE DEF next, files
    <3> QED
      BY <1>5, <2>2, <3>1, <3>2
  <2>3. CASE UNCHANGED overlayFiles /\ Videos!Moves(u, IF old.pc = "unpart" THEN "unsource" ELSE next)
    <3> DEFINE pc == IF old.pc = "unpart" THEN "unsource" ELSE next
    <3>1. pc \in {"unsource", "row", "discard"} /\ (pc = "row" => "stored" \in overlayFiles[u])
      OBVIOUS
    <3>2. Videos!Moves(u, pc)
      BY <2>3
    <3> HIDE DEF pc
    <3> QED
      BY <1>1, <1>5, <2>3, <3>1, <3>2
  <2> QED
    BY <1>7, <2>1, <2>2, <2>3 DEF Videos!removeQuietly
<1> QED
  BY <1>6, <1>7

\* The row is written while its file is there, and a row that may be there is not forgotten.
LEMMA RowKeepsVideosInv ==
  ASSUME VideosInv, NEW u \in OverlayUploads, Videos!addVideo(u) \/ Videos!UndoStored(u)
  PROVE  VideosInv'
<1> DEFINE old == overlayUpload[u]
<1>1. /\ old \in UploadRecords /\ VideoInPlace(old, overlayFiles[u], u \in videoRows, u \in rowUnknown)
      /\ overlayFiles[u] \in SUBSET VideoFileNames /\ videoRows \subseteq OverlayUploads
      /\ overlayFiles = [overlayFiles EXCEPT ![u] = overlayFiles[u]]
  BY VideoFacts
<1>2. CASE Videos!addVideo(u)
  <2>1. PICK pc \in {"discard", "undo"} :
          /\ overlayUpload' = [overlayUpload EXCEPT ![u].pc = pc]
          /\ videoRows' \in {videoRows, videoRows \cup {u}} /\ rowUnknown' \in {rowUnknown, rowUnknown \cup {u}}
          /\ pc = "undo" => videoRows' = videoRows \/ u \in rowUnknown'
    BY <1>2 DEF Videos!addVideo, Videos!Moves
  <2> DEFINE after == [old EXCEPT !.pc = pc]
  <2>2. old.pc = "row" /\ UNCHANGED <<overlayFiles, activeUploads, pendingTranscodes, transcodeQueue>>
    BY <1>2 DEF Videos!addVideo
  <2>3. overlayUpload' = [overlayUpload EXCEPT ![u] = after]
    BY <2>1
  <2> HIDE DEF old
  <2>4. after \in UploadRecords /\ after.pc = pc /\ after.ffmpeg = old.ffmpeg /\ after.slot = old.slot
    BY <1>1, <2>1 DEF UploadRecords, VideoPlaces
  <2> HIDE DEF after
  <2>5. VideoInPlace(after, overlayFiles[u], u \in videoRows', u \in rowUnknown')
    BY <1>1, <2>1, <2>2, <2>4 DEF VideoInPlace
  <2>6. /\ after.pc \notin Converting /\ old.pc \notin Converting /\ after.pc # "encode"
        /\ videoRows' \subseteq OverlayUploads
        /\ \A v \in OverlayUploads \ {u} : (v \in videoRows' <=> v \in videoRows) /\ (v \in rowUnknown' <=> v \in rowUnknown)
    BY <1>1, <2>1, <2>2, <2>4 DEF Converting
  <2> QED
    BY <1>1, <2>2, <2>3, <2>4, <2>5, <2>6, OneVideoChanges DEF old
<1>3. CASE Videos!UndoStored(u)
  <2>1. /\ old.pc = "undo" /\ overlayUpload' = [overlayUpload EXCEPT ![u].pc = "discard"]
        /\ Videos!Loses(u, "stored") \/ UNCHANGED overlayFiles
        /\ UNCHANGED <<videoRows, activeUploads, pendingTranscodes, transcodeQueue, rowUnknown>>
    BY <1>3 DEF Videos!UndoStored, Videos!Moves
  <2>2. PICK files \in SUBSET VideoFileNames : overlayFiles' = [overlayFiles EXCEPT ![u] = files]
    BY <1>1, <2>1, VideoFilesChange
  <2>3. "discard" \in VideoPlaces \ Converting /\ old.pc \notin Converting /\ (u \in videoRows => u \in rowUnknown)
    BY <1>1, <2>1 DEF VideoPlaces, Converting, VideoInPlace
  <2> QED
    BY <2>1, <2>2, <2>3, VideoMovesOn
<1> QED
  BY <1>2, <1>3

LEMMA DeletionKeepsVideosInv ==
  ASSUME VideosInv, NEW u \in OverlayUploads, Videos!deleteVideo(u) \/ Videos!removeDeletedVideoFile(u)
  PROVE  VideosInv'
<1> DEFINE old == overlayUpload[u]
<1>1. /\ old \in UploadRecords /\ VideoInPlace(old, overlayFiles[u], u \in videoRows, u \in rowUnknown)
      /\ overlayFiles[u] \in SUBSET VideoFileNames /\ videoRows \subseteq OverlayUploads
      /\ overlayFiles = [overlayFiles EXCEPT ![u] = overlayFiles[u]]
  BY VideoFacts
<1>2. CASE Videos!deleteVideo(u)
  <2> DEFINE after == [old EXCEPT !.pc = "unlink"]
  <2>1. /\ old.pc = "done" /\ overlayUpload' = [overlayUpload EXCEPT ![u] = after] /\ videoRows' = videoRows \ {u}
        /\ UNCHANGED <<overlayFiles, activeUploads, pendingTranscodes, transcodeQueue, rowUnknown>>
    BY <1>2 DEF Videos!deleteVideo, Videos!Moves
  <2> HIDE DEF old
  <2>2. after \in UploadRecords /\ after.pc = "unlink" /\ after.ffmpeg = old.ffmpeg /\ after.slot = old.slot
    BY <1>1 DEF UploadRecords, VideoPlaces
  <2> HIDE DEF after
  <2>3. VideoInPlace(after, overlayFiles[u], u \in videoRows', u \in rowUnknown')
    BY <1>1, <2>1, <2>2 DEF VideoInPlace
  <2>4. /\ after.pc \notin Converting /\ old.pc \notin Converting /\ after.pc # "encode"
        /\ videoRows' \subseteq OverlayUploads
        /\ \A v \in OverlayUploads \ {u} : (v \in videoRows' <=> v \in videoRows) /\ (v \in rowUnknown' <=> v \in rowUnknown)
    BY <1>1, <2>1, <2>2 DEF Converting
  <2> QED
    BY <1>1, <2>1, <2>2, <2>3, <2>4, OneVideoChanges DEF old
<1>3. CASE Videos!removeDeletedVideoFile(u)
  <2>1. /\ old.pc = "unlink" /\ overlayUpload' = [overlayUpload EXCEPT ![u].pc = "done"]
        /\ Videos!Loses(u, "stored") \/ UNCHANGED overlayFiles
        /\ UNCHANGED <<videoRows, activeUploads, pendingTranscodes, transcodeQueue, rowUnknown>>
    BY <1>3 DEF Videos!removeDeletedVideoFile, Videos!Moves
  <2>2. PICK files \in SUBSET VideoFileNames : overlayFiles' = [overlayFiles EXCEPT ![u] = files]
    BY <1>1, <2>1, VideoFilesChange
  <2>3. "done" \in VideoPlaces \ Converting /\ old.pc \notin Converting /\ u \notin videoRows /\ old.slot = "none"
    BY <1>1, <2>1 DEF VideoPlaces, Converting, VideoInPlace
  <2> QED
    BY <2>1, <2>2, <2>3, VideoMovesOn
<1> QED
  BY <1>2, <1>3

\* A slot that is held goes back once, when the answer goes out or the client leaves.
LEMMA ReleaseKeepsVideosInv ==
  ASSUME VideosInv, NEW u \in OverlayUploads, Videos!discardUpload(u) \/ Videos!ClientLeaves(u)
  PROVE  VideosInv'
<1> DEFINE old == overlayUpload[u]
           pc == IF Videos!discardUpload(u) THEN "done" ELSE old.pc
           after == [old EXCEPT !.pc = pc, !.slot = "none"]
<1>1. /\ old \in UploadRecords /\ VideoInPlace(old, overlayFiles[u], u \in videoRows, u \in rowUnknown)
      /\ overlayFiles[u] \in SUBSET VideoFileNames /\ videoRows \subseteq OverlayUploads
      /\ overlayFiles = [overlayFiles EXCEPT ![u] = overlayFiles[u]]
      /\ old.pc = "encode" => transcodeQueue[1] = u
  BY VideoFacts
<1>2. /\ overlayUpload' = [overlayUpload EXCEPT ![u] = after]
      /\ pc = old.pc \/ (old.pc = "discard" /\ pc = "done")
      /\ activeUploads' = IF old.slot = "held" THEN activeUploads - 1 ELSE activeUploads
      /\ UNCHANGED <<videoRows, pendingTranscodes, transcodeQueue, rowUnknown>>
  <2>1. CASE Videos!discardUpload(u)
    <3>1. overlayUpload' = [overlayUpload EXCEPT ![u].pc = "done", ![u].slot = "none"] /\ old.pc = "discard"
      BY <2>1 DEF Videos!discardUpload
    <3> QED
      BY <2>1, <3>1 DEF Videos!discardUpload, Videos!Release
  <2>2. CASE ~Videos!discardUpload(u)
    <3>1. Videos!ClientLeaves(u) /\ pc = old.pc
      BY <2>2
    <3>2. overlayUpload' = [overlayUpload EXCEPT ![u].slot = "none"]
      BY <3>1 DEF Videos!ClientLeaves
    <3>3. after = [old EXCEPT !.slot = "none"]
      BY <1>1, <3>1 DEF UploadRecords
    <3> HIDE DEF after, pc
    <3> QED
      BY <3>1, <3>2, <3>3 DEF Videos!ClientLeaves, Videos!Release
  <2> QED
    BY <2>1, <2>2
<1>3. PICK files \in SUBSET VideoFileNames :
        /\ overlayFiles' = [overlayFiles EXCEPT ![u] = files]
        /\ overlayFiles[u] \ {"incoming"} \subseteq files
  <2>1. Videos!Loses(u, "incoming") \/ UNCHANGED overlayFiles
    BY DEF Videos!discardUpload, Videos!ClientLeaves
  <2> QED
    BY <1>1, <2>1, VideoFilesChange
<1> HIDE DEF old, pc
<1>4. after \in UploadRecords /\ after.pc = pc /\ after.slot = "none" /\ after.ffmpeg = old.ffmpeg
  BY <1>1, <1>2 DEF UploadRecords, VideoPlaces
<1> HIDE DEF after
<1>5. VideoInPlace(after, files, u \in videoRows, u \in rowUnknown)
  BY <1>1, <1>2, <1>3, <1>4 DEF VideoInPlace
<1>6. old.slot \in {"none", "held"} /\ (after.pc \in Converting <=> old.pc \in Converting)
  BY <1>1, <1>2, <1>4 DEF UploadRecords, Converting
<1>7. after.pc = "encode" => transcodeQueue[1] = u
  BY <1>1, <1>2, <1>4
<1> QED
  BY <1>1, <1>2, <1>3, <1>4, <1>5, <1>6, <1>7, OneVideoChanges DEF old

\* What the sweep takes is no recorded video.
LEMMA SweepKeepsVideosInv ==
  ASSUME VideosInv, NEW u \in OverlayUploads, Videos!sweepStaleTempFiles(u)
  PROVE  VideosInv'
<1> DEFINE old == overlayUpload[u]
           files == overlayFiles[u] \ Videos!TempFiles
<1>1. /\ old \in UploadRecords /\ VideoInPlace(old, overlayFiles[u], u \in videoRows, u \in rowUnknown)
      /\ overlayFiles[u] \in SUBSET VideoFileNames /\ videoRows \subseteq OverlayUploads
  BY VideoFacts
<1>2. /\ old.pc = "done" /\ overlayFiles' = [overlayFiles EXCEPT ![u] = files]
      /\ UNCHANGED <<overlayUpload, videoRows, activeUploads, pendingTranscodes, transcodeQueue, rowUnknown>>
  BY DEF Videos!sweepStaleTempFiles
<1>3. files \in SUBSET VideoFileNames /\ ("stored" \in overlayFiles[u] => "stored" \in files)
  BY <1>1 DEF Videos!TempFiles
<1> HIDE DEF old, files
<1>4. VideoInPlace(old, files, u \in videoRows, u \in rowUnknown)
  BY <1>1, <1>2, <1>3 DEF VideoInPlace
<1>5. overlayUpload' = [overlayUpload EXCEPT ![u] = old]
  BY <1>2 DEF old, VideosInv, VideoTypes
<1> QED
  BY <1>1, <1>2, <1>3, <1>4, <1>5, OneVideoChanges DEF old, Converting

LEMMA VideosRestartKeepsInv == ASSUME VideosInv, Videos!VideosRestart PROVE VideosInv'
<1>1. /\ activeUploads' = 0 /\ pendingTranscodes' = 0 /\ transcodeQueue' = <<>>
      /\ UNCHANGED <<overlayFiles, videoRows, rowUnknown>>
  BY DEF Videos!VideosRestart
<1>2. ASSUME NEW u \in OverlayUploads
      PROVE  /\ overlayUpload'[u] \in UploadRecords
             /\ overlayUpload'[u].pc \in {"new", "done"} /\ overlayUpload'[u].slot = "none"
             /\ VideoInPlace(overlayUpload'[u], overlayFiles[u], u \in videoRows, u \in rowUnknown)
  <2> DEFINE old == overlayUpload[u]
             after == [old EXCEPT !.pc = "done", !.slot = "none", !.ffmpeg = "none"]
  <2>1. old \in UploadRecords /\ VideoInPlace(old, overlayFiles[u], u \in videoRows, u \in rowUnknown)
    BY VideoFacts
  <2>2. overlayUpload'[u] = IF u \in Videos!Processing THEN after ELSE old
    BY DEF Videos!VideosRestart
  <2>3. u \in Videos!Processing <=> old.pc \notin {"new", "done"}
    BY DEF Videos!Processing
  <2> HIDE DEF old
  <2>4. after \in UploadRecords /\ after.pc = "done" /\ after.slot = "none" /\ after.ffmpeg = "none"
    BY <2>1 DEF UploadRecords, VideoPlaces
  <2> HIDE DEF after
  <2>5. VideoInPlace(after, overlayFiles[u], u \in videoRows, u \in rowUnknown)
    BY <2>1, <2>4 DEF VideoInPlace
  <2>6. old.pc \in {"new", "done"} => old.slot = "none"
    BY <2>1 DEF VideoInPlace
  <2> QED
    BY <2>1, <2>2, <2>3, <2>4, <2>5, <2>6
<1>3. HeldSlots' = {} /\ PendingConversions' = {}
  BY <1>2 DEF HeldSlots, PendingConversions, Converting
<1>4. overlayUpload' \in [OverlayUploads -> UploadRecords]
  <2>1. overlayUpload' = [u \in OverlayUploads |-> overlayUpload'[u]]
    BY DEF Videos!VideosRestart
  <2> QED
    BY <1>2, <2>1
<1>5. VideoTypes'
  BY <1>1, <1>4, VideosAssumption DEF VideosInv, VideoTypes
<1>6. ConversionsInOrder'
  BY <1>1, <1>2 DEF ConversionsInOrder, Converting
<1> QED
  BY <1>1, <1>2, <1>3, <1>5, <1>6, FS_EmptySet DEF VideosInv

LEMMA VideosStep == ASSUME VideosInv, Videos!VideosNext PROVE VideosInv'
<1>1. CASE Videos!VideosRestart
  BY <1>1, VideosRestartKeepsInv
<1>2. ASSUME NEW u \in OverlayUploads, Videos!VideoGoesOn(u) PROVE VideosInv'
  BY <1>2, DetectionKeepsVideosInv, PlacingKeepsVideosInv, TranscodingKeepsVideosInv, PublishingKeepsVideosInv,
     RowKeepsVideosInv, ReleaseKeepsVideosInv, DeletionKeepsVideosInv
     DEF Videos!VideoGoesOn
<1>3. ASSUME NEW u \in OverlayUploads,
             \/ Videos!limitConcurrentUploads(u) \/ Videos!FfmpegCloses(u) \/ Videos!FfmpegTimesOut(u)
             \/ Videos!ExitGraceEnds(u) \/ Videos!OverstayerExits(u)
             \/ Videos!ClientLeaves(u) \/ Videos!deleteVideo(u) \/ Videos!sweepStaleTempFiles(u)
      PROVE  VideosInv'
  BY <1>3, AdmissionKeepsVideosInv, FfmpegKeepsVideosInv, ReleaseKeepsVideosInv, DeletionKeepsVideosInv,
     SweepKeepsVideosInv
<1> QED
  BY <1>1, <1>2, <1>3 DEF Videos!VideosNext

LEMMA VideosStutter == ASSUME VideosInv, UNCHANGED videoVars PROVE VideosInv'
BY DEF videoVars, VideosInv, VideoTypes, ConversionsInOrder, HeldSlots, PendingConversions

LEMMA VideosHold ==
  ASSUME VideosInv
  PROVE  Videos!VideosTypeOK /\ Videos!ListedVideosPlay /\ Videos!EncoderAlone /\ Videos!SlotsAreCounted
<1>1. Videos!ListedVideosPlay
  BY DEF VideosInv, VideoTypes, VideoInPlace, Videos!ListedVideosPlay
<1>2. Videos!EncoderAlone
  <2>1. ASSUME NEW u \in OverlayUploads, overlayUpload[u].ffmpeg \in {"running", "killed"}
        PROVE  /\ {"source", "partial"} \subseteq overlayFiles[u]
               /\ overlayUpload[u].pc = "encode" /\ transcodeQueue[1] = u
    BY <2>1, VideoFacts DEF VideoInPlace
  <2> QED
    BY <2>1 DEF Videos!EncoderAlone
<1>3. Videos!SlotsAreCounted
  BY VideoCardinality DEF VideosInv, Videos!SlotsAreCounted, HeldSlots, PendingConversions, Converting
<1>4. Videos!VideosTypeOK
  BY DEF VideosInv, VideoTypes, VideoFileNames, Videos!VideosTypeOK
<1> QED
  BY <1>1, <1>2, <1>3, <1>4

-----------------------------------------------------------------------------
(* Commands: the order of the named locks, and what is under them          *)

LEMMA WritesCardinality == \A S : Writes!Cardinality(S) = Cardinality(S)
BY DEF Writes!Cardinality, Cardinality

\* The words of one command, smallest first: every one of them, and each once.
LEMMA RankFacts ==
  ASSUME NEW S \in SUBSET Nat, IsFiniteSet(S)
  PROVE  LET n == Cardinality(S)
             rank == [x \in S |-> Cardinality({y \in S : y <= x})]
         IN  /\ n \in Nat /\ rank \in Injection(S, 1 .. n) /\ rank \in Surjection(S, 1 .. n)
             /\ \A x, y \in S : x < y => rank[x] < rank[y]
<1> DEFINE n == Cardinality(S)
           Below(x) == {y \in S : y <= x}
           rank == [x \in S |-> Cardinality(Below(x))]
<1>1. n \in Nat
  BY FS_CardinalityType
<1>2. ASSUME NEW x \in S PROVE IsFiniteSet(Below(x)) /\ Cardinality(Below(x)) \in 1 .. n
  <2>1. Below(x) \in SUBSET S /\ x \in Below(x)
    OBVIOUS
  <2> HIDE DEF Below
  <2>2. IsFiniteSet(Below(x)) /\ Cardinality(Below(x)) <= n
    BY <2>1, FS_Subset
  <2>3. Cardinality(Below(x)) \in Nat /\ Cardinality(Below(x)) # 0
    BY <2>1, <2>2, FS_CardinalityType, FS_EmptySet
  <2> QED
    BY <1>1, <2>2, <2>3
<1>3. ASSUME NEW x \in S, NEW y \in S, x < y PROVE Cardinality(Below(x)) < Cardinality(Below(y))
  <2>0. x \in Nat /\ y \in Nat /\ \A z \in S : z \in Nat
    OBVIOUS
  <2>1. Below(x) \in SUBSET Below(y) /\ y \in Below(y) /\ y \notin Below(x)
    <3>1. y <= y /\ ~(y <= x) /\ \A z \in S : z <= x => z <= y
      BY <1>3, <2>0
    <3> QED
      BY <3>1
  <2> HIDE DEF Below
  <2>2. Cardinality(Below(x)) <= Cardinality(Below(y)) /\ Cardinality(Below(x)) # Cardinality(Below(y))
    BY <1>2, <2>1, FS_Subset
  <2> QED
    BY <1>1, <1>2, <2>2
<1> HIDE DEF Below
<1>4. rank \in [S -> 1 .. n] /\ \A x \in S : rank[x] = Cardinality(Below(x))
  BY <1>2
<1> HIDE DEF n, rank
<1>5. \A x, y \in S : x < y => rank[x] < rank[y]
  BY <1>3, <1>4
<1>6. rank \in Injection(S, 1 .. n)
  <2>1. ASSUME NEW x \in S, NEW y \in S, rank[x] = rank[y] PROVE x = y
    <3>1. rank[x] \in 1 .. n /\ rank[y] \in 1 .. n
      BY <1>4
    <3>2. x < y \/ y < x \/ x = y
      OBVIOUS
    <3> QED
      BY <1>1, <1>5, <2>1, <3>1, <3>2
  <2> QED
    BY <1>4, <2>1 DEF Injection, IsInjective
<1>7. rank \in Surjection(S, 1 .. n)
  <2>1. IsFiniteSet(1 .. n) /\ Cardinality(1 .. n) = n
    BY <1>1, FS_Interval
  <2> QED
    BY <1>6, <2>1, FS_Injection DEF n
<1> QED
  BY <1>1, <1>5, <1>6, <1>7 DEF n, rank, Below

LEMMA SortedFacts ==
  ASSUME NEW S \in SUBSET Nat, IsFiniteSet(S)
  PROVE  LET n == Cardinality(S) IN
         /\ n \in Nat /\ Writes!Sorted(S) \in [1 .. n -> S]
         /\ \A i, j \in 1 .. n : i < j => Writes!Sorted(S)[i] < Writes!Sorted(S)[j]
         /\ \A x \in S : \E i \in 1 .. n : Writes!Sorted(S)[i] = x
<1> DEFINE n == Cardinality(S)
           rank == [x \in S |-> Cardinality({y \in S : y <= x})]
<1>1. /\ n \in Nat /\ rank \in Injection(S, 1 .. n) /\ rank \in Surjection(S, 1 .. n)
      /\ \A x, y \in S : x < y => rank[x] < rank[y]
  BY RankFacts
<1> HIDE DEF rank, n
<1> DEFINE s == [i \in 1 .. n |-> CHOOSE x \in S : rank[x] = i]
<1>2. rank \in [S -> 1 .. n] /\ \A i \in 1 .. n : \E x \in S : rank[x] = i
  BY <1>1 DEF Surjection
<1>3. s \in [1 .. n -> S] /\ \A i \in 1 .. n : rank[s[i]] = i
  BY <1>2
<1> HIDE DEF s
<1>4. \A i, j \in 1 .. n : i < j => s[i] < s[j]
  <2> SUFFICES ASSUME NEW i \in 1 .. n, NEW j \in 1 .. n, i < j PROVE s[i] < s[j]
    OBVIOUS
  <2>1. s[i] \in S /\ s[j] \in S /\ rank[s[i]] = i /\ rank[s[j]] = j
    BY <1>3
  <2>2. ~(j < i) /\ i # j
    BY <1>1
  <2>3. ~(s[j] < s[i]) /\ s[i] # s[j]
    BY <1>1, <2>1, <2>2
  <2>4. s[i] \in Nat /\ s[j] \in Nat
    BY <2>1
  <2> QED
    BY <2>3, <2>4
<1>5. \A f \in [1 .. n -> S] :
        f \in Writes!SetToSeqs(S) <=> (\A i, j \in 1 .. n : i # j => f[i] # f[j])
  BY WritesCardinality DEF Writes!SetToSeqs, n
<1>6. \A f \in Writes!SetToSeqs(S) : f \in [1 .. n -> S]
  BY WritesCardinality DEF Writes!SetToSeqs, n
<1>7. s \in Writes!SetToSeqs(S)
  <2>1. \A i, j \in 1 .. n : i # j => s[i] # s[j]
    BY <1>3
  <2> QED
    BY <1>3, <1>5, <2>1
<1>8. \A i, j \in DOMAIN s : i < j => s[i] < s[j]
  BY <1>3, <1>4
<1> DEFINE q == Writes!Sorted(S)
<1>9. q \in Writes!SetToSeqs(S) /\ \A i, j \in DOMAIN q : i < j => q[i] < q[j]
  BY <1>7, <1>8 DEF Writes!Sorted
<1> HIDE DEF q
<1>10. q \in [1 .. n -> S] /\ \A i, j \in 1 .. n : i < j => q[i] < q[j]
  BY <1>6, <1>9
<1>11. \A x \in S : \E i \in 1 .. n : q[i] = x
  <2>1. q \in Injection(1 .. n, S)
    BY <1>5, <1>9, <1>10 DEF Injection, IsInjective
  <2>2. Cardinality(1 .. n) = n
    BY <1>1, FS_Interval
  <2>3. q \in Surjection(1 .. n, S)
    BY <2>1, <2>2, FS_Injection DEF n
  <2> QED
    BY <2>3 DEF Surjection
<1> QED
  BY <1>1, <1>10, <1>11 DEF n, q

Elements(s) == {s[i] : i \in DOMAIN s}

\* A command's id comes before the words, and of two words the smaller.
Earlier(a, b) ==
  \/ a[1] = "id" /\ b[1] = "trigger"
  \/ a[1] = "trigger" /\ b[1] = "trigger" /\ a[2] < b[2]

\* The locks still to acquire come after those that are held, in order.
InOrder(held, need) ==
  /\ need \in Seq(Writes!Locks) /\ held \subseteq Writes!Locks
  /\ \A i, j \in DOMAIN need : i < j => Earlier(need[i], need[j])
  /\ \A l \in held, i \in DOMAIN need : Earlier(l, need[i])

IdKinds == {"update", "delete", "discard", "assign"}
WordKinds == {"add", "update", "addCounter", "updateCounter", "saveAdvanced"}

\* The locks a write of a job relies on, but for the word of the command an assignment finds.
LocksOf(j) ==
  {l \in Writes!Locks : \/ j.kind \in IdKinds /\ l = Writes!IdLock(j.id)
                        \/ j.kind \in WordKinds /\ \E t \in j.cmds : l = Writes!TriggerLock(t)}

JobFits(j) ==
  /\ j \in Writes!Jobs
  /\ j.kind \in IdKinds => j.id \in Commands
  /\ j.kind \in {"updateCounter", "removeCounter"} => j.id \in Counters
  /\ j.kind \in {"add", "update"} => \E t \in Triggers : j.cmds = {t}
  /\ j.kind \in {"addCounter", "updateCounter"} => j.cmds \in Writes!CounterRows
  /\ j.kind = "removeCounter" => j.cmds = {}
  /\ j.kind = "saveAdvanced" => j.cmds = {} \/ \E t \in Triggers : j.cmds = {t}

LEMMA LockFacts ==
  /\ \A c \in Commands : Writes!IdLock(c) \in Writes!Locks /\ Writes!IdLock(c)[1] = "id" /\ Writes!IdLock(c)[2] = c
  /\ \A t \in Triggers : /\ Writes!TriggerLock(t) \in Writes!Locks /\ Writes!TriggerLock(t)[1] = "trigger"
                         /\ Writes!TriggerLock(t)[2] = t
  /\ \A l \in Writes!Locks : \/ \E c \in Commands : l = Writes!IdLock(c)
                             \/ \E t \in Triggers : l = Writes!TriggerLock(t)
BY DEF Writes!Locks, Writes!IdLock, Writes!TriggerLock

LEMMA WordFacts == ASSUME NEW cmds \in SUBSET Triggers PROVE cmds \in SUBSET Nat /\ IsFiniteSet(cmds)
BY WritesAssumption, FS_Subset

LEMMA TriggerLocksFacts ==
  ASSUME NEW cmds \in SUBSET Triggers
  PROVE  LET s == Writes!TriggerLocks(cmds) IN
         /\ s \in Seq(Writes!Locks) /\ Elements(s) = {Writes!TriggerLock(t) : t \in cmds}
         /\ \A i, j \in DOMAIN s : i < j => Earlier(s[i], s[j])
         /\ \A i \in DOMAIN s : s[i][1] = "trigger"
<1> DEFINE n == Cardinality(cmds)
           sorted == Writes!Sorted(cmds)
           s == [i \in 1 .. n |-> Writes!TriggerLock(sorted[i])]
<1>1. /\ n \in Nat /\ sorted \in [1 .. n -> cmds]
      /\ \A i, j \in 1 .. n : i < j => sorted[i] < sorted[j]
      /\ \A x \in cmds : \E i \in 1 .. n : sorted[i] = x
  BY WordFacts, SortedFacts
<1>2. Writes!TriggerLocks(cmds) = s
  BY WritesCardinality DEF Writes!TriggerLocks
<1> HIDE DEF n, sorted
<1>3. \A i \in 1 .. n : sorted[i] \in Triggers /\ sorted[i] \in cmds
  BY <1>1
<1>4. DOMAIN s = 1 .. n /\ \A i \in 1 .. n : s[i] = Writes!TriggerLock(sorted[i])
  OBVIOUS
<1> HIDE DEF s
<1>5. \A i \in 1 .. n : s[i] \in Writes!Locks /\ s[i][1] = "trigger" /\ s[i][2] = sorted[i]
  BY <1>3, <1>4, LockFacts
<1>6. s \in Seq(Writes!Locks)
  <2>1. [i \in 1 .. n |-> Writes!TriggerLock(sorted[i])] \in Seq(Writes!Locks)
    BY <1>1, <1>3, LockFacts
  <2> QED
    BY <2>1 DEF s
<1>7. Elements(s) = {Writes!TriggerLock(t) : t \in cmds}
  BY <1>1, <1>3, <1>4 DEF Elements
<1>8. \A i, j \in DOMAIN s : i < j => Earlier(s[i], s[j])
  BY <1>1, <1>4, <1>5 DEF Earlier
<1> QED
  BY <1>2, <1>4, <1>5, <1>6, <1>7, <1>8

\* A job's locks are asked for in order, and are those it relies on.
LEMMA FirstLocksFacts ==
  ASSUME NEW j, JobFits(j), j.kind # "none", tables \in Writes!Tables
  PROVE  /\ InOrder({}, Writes!FirstLocks(j)) /\ LocksOf(j) \subseteq Elements(Writes!FirstLocks(j))
         /\ j.kind \in IdKinds \ {"update"} => Writes!FirstLocks(j) = <<Writes!IdLock(j.id)>>
<1>1. j.cmds \in SUBSET Triggers
  BY DEF JobFits, Writes!Jobs
<1>2. CASE j.kind \in IdKinds \ {"update"}
  <2>1. Writes!FirstLocks(j) = <<Writes!IdLock(j.id)>> /\ j.id \in Commands
    BY <1>2 DEF Writes!FirstLocks, IdKinds, JobFits
  <2>2. Writes!IdLock(j.id) \in Writes!Locks
    BY <2>1, LockFacts
  <2>3. InOrder({}, <<Writes!IdLock(j.id)>>) /\ Elements(<<Writes!IdLock(j.id)>>) = {Writes!IdLock(j.id)}
    BY <2>2 DEF InOrder, Elements
  <2>4. LocksOf(j) \subseteq {Writes!IdLock(j.id)}
    BY <1>2 DEF LocksOf, IdKinds, WordKinds
  <2> QED
    BY <2>1, <2>3, <2>4
<1>3. CASE j.kind = "update"
  <2> DEFINE s == Writes!TriggerLocks(j.cmds)
             l == Writes!IdLock(j.id)
             all == <<l>> \o s
  <2>1. Writes!FirstLocks(j) = all /\ j.id \in Commands
    BY <1>3 DEF Writes!FirstLocks, IdKinds, JobFits
  <2>2. l \in Writes!Locks /\ l[1] = "id"
    BY <2>1, LockFacts
  <2>3. /\ s \in Seq(Writes!Locks) /\ Elements(s) = {Writes!TriggerLock(t) : t \in j.cmds}
        /\ \A i, k \in DOMAIN s : i < k => Earlier(s[i], s[k])
        /\ \A i \in DOMAIN s : s[i][1] = "trigger"
    BY <1>1, TriggerLocksFacts
  <2>4. LocksOf(j) \subseteq {l} \cup {Writes!TriggerLock(t) : t \in j.cmds}
    BY DEF LocksOf
  <2> HIDE DEF s, l
  <2>5. /\ all \in Seq(Writes!Locks) /\ all[1] = l /\ DOMAIN all = 1 .. (Len(s) + 1)
        /\ \A i \in 2 .. (Len(s) + 1) : all[i] = s[i - 1] /\ i - 1 \in DOMAIN s
        /\ \A i \in DOMAIN s : all[i + 1] = s[i] /\ i + 1 \in DOMAIN all
    BY <2>2, <2>3
  <2>6. Len(s) \in Nat
    BY <2>3
  <2> HIDE DEF all
  <2>7. \A i, k \in DOMAIN all : i < k => Earlier(all[i], all[k])
    <3> SUFFICES ASSUME NEW i \in DOMAIN all, NEW k \in DOMAIN all, i < k PROVE Earlier(all[i], all[k])
      OBVIOUS
    <3>1. k \in 2 .. (Len(s) + 1)
      BY <2>5, <2>6
    <3>2. all[k] = s[k - 1] /\ k - 1 \in DOMAIN s
      BY <2>5, <3>1
    <3>3. CASE i = 1
      BY <2>2, <2>3, <2>5, <3>2, <3>3 DEF Earlier
    <3>4. CASE i # 1
      <4>1. i \in 2 .. (Len(s) + 1)
        BY <2>5, <2>6, <3>4
      <4>2. all[i] = s[i - 1] /\ i - 1 \in DOMAIN s /\ i - 1 < k - 1
        BY <2>5, <2>6, <3>1, <4>1
      <4> QED
        BY <2>3, <3>2, <4>2
    <3> QED
      BY <3>3, <3>4
  <2>8. InOrder({}, all)
    BY <2>5, <2>7 DEF InOrder
  <2>9. {l} \cup Elements(s) \subseteq Elements(all)
    <3>1. l \in Elements(all)
      BY <2>5, <2>6 DEF Elements
    <3>2. Elements(s) \subseteq Elements(all)
      BY <2>5 DEF Elements
    <3> QED
      BY <3>1, <3>2
  <2> QED
    BY <1>3, <2>1, <2>3, <2>4, <2>8, <2>9 DEF l
<1>4. ASSUME NEW cmds \in SUBSET Triggers, j.cmds \subseteq cmds, Writes!FirstLocks(j) = Writes!TriggerLocks(cmds),
             j.kind \notin IdKinds
      PROVE  InOrder({}, Writes!FirstLocks(j)) /\ LocksOf(j) \subseteq Elements(Writes!FirstLocks(j))
  <2>1. InOrder({}, Writes!TriggerLocks(cmds)) /\ Elements(Writes!TriggerLocks(cmds)) = {Writes!TriggerLock(t) : t \in cmds}
    BY TriggerLocksFacts DEF InOrder
  <2> QED
    BY <1>4, <2>1 DEF LocksOf
<1>5. CASE j.kind \in {"updateCounter", "removeCounter"}
  <2>1. tables.counter[j.id] \in SUBSET Triggers
    BY <1>5 DEF JobFits, Writes!Tables, Writes!CounterRows, Writes!NoCounter
  <2>2. Writes!FirstLocks(j) = Writes!TriggerLocks(j.cmds \cup tables.counter[j.id])
    BY <1>5 DEF Writes!FirstLocks
  <2> QED
    BY <1>1, <1>4, <1>5, <2>1, <2>2 DEF IdKinds
<1>6. CASE j.kind \in {"add", "addCounter", "saveAdvanced"}
  <2>1. Writes!FirstLocks(j) = Writes!TriggerLocks(j.cmds)
    BY <1>6 DEF Writes!FirstLocks
  <2> QED
    BY <1>1, <1>4, <1>6, <2>1 DEF IdKinds
<1> QED
  BY <1>2, <1>3, <1>5, <1>6 DEF JobFits, Writes!Jobs, Writes!Kinds, IdKinds

\* One lock more: the rest is still in order, and nothing is forgotten.
LEMMA AcquiredFacts ==
  ASSUME NEW held, NEW need, InOrder(held, need), need # <<>>
  PROVE  /\ Head(need) \in Writes!Locks /\ Head(need) \in Elements(need)
         /\ InOrder(held \cup {Head(need)}, Tail(need))
         /\ held \cup Elements(need) = (held \cup {Head(need)}) \cup Elements(Tail(need))
<1>1. /\ need \in Seq(Writes!Locks) /\ Len(need) \in Nat \ {0} /\ DOMAIN need = 1 .. Len(need)
      /\ Head(need) = need[1]
  BY DEF InOrder
<1>2. /\ Tail(need) \in Seq(Writes!Locks) /\ DOMAIN Tail(need) = 1 .. (Len(need) - 1)
      /\ \A i \in 1 .. (Len(need) - 1) : Tail(need)[i] = need[i + 1] /\ i + 1 \in DOMAIN need
  BY <1>1
<1>3. \A i \in 2 .. Len(need) : i - 1 \in DOMAIN Tail(need) /\ need[i] = Tail(need)[i - 1]
  BY <1>1, <1>2
<1>4. Elements(need) = {Head(need)} \cup Elements(Tail(need))
  <2>1. Elements(need) \subseteq {Head(need)} \cup Elements(Tail(need))
    <3> SUFFICES ASSUME NEW i \in DOMAIN need PROVE need[i] \in {Head(need)} \cup Elements(Tail(need))
      BY DEF Elements
    <3>1. CASE i = 1
      BY <1>1, <3>1
    <3>2. CASE i # 1
      <4>1. i \in 2 .. Len(need)
        BY <1>1, <3>2
      <4> QED
        BY <1>3, <4>1 DEF Elements
    <3> QED
      BY <3>1, <3>2
  <2>2. Elements(Tail(need)) \subseteq Elements(need)
    BY <1>2 DEF Elements
  <2>3. Head(need) \in Elements(need)
    BY <1>1 DEF Elements
  <2> QED
    BY <2>1, <2>2, <2>3
<1>5. Head(need) \in Writes!Locks
  BY <1>1
<1>6. \A i, j \in DOMAIN Tail(need) : i < j => Earlier(Tail(need)[i], Tail(need)[j])
  <2> SUFFICES ASSUME NEW i \in DOMAIN Tail(need), NEW j \in DOMAIN Tail(need), i < j
               PROVE  Earlier(Tail(need)[i], Tail(need)[j])
    OBVIOUS
  <2>1. /\ i + 1 \in DOMAIN need /\ j + 1 \in DOMAIN need /\ i + 1 < j + 1
        /\ Tail(need)[i] = need[i + 1] /\ Tail(need)[j] = need[j + 1]
    BY <1>1, <1>2
  <2> QED
    BY <2>1 DEF InOrder
<1>7. \A l \in held \cup {Head(need)}, i \in DOMAIN Tail(need) : Earlier(l, Tail(need)[i])
  <2> SUFFICES ASSUME NEW l \in held \cup {Head(need)}, NEW i \in DOMAIN Tail(need) PROVE Earlier(l, Tail(need)[i])
    OBVIOUS
  <2>1. i + 1 \in DOMAIN need /\ 1 \in DOMAIN need /\ 1 < i + 1 /\ Tail(need)[i] = need[i + 1]
    BY <1>1, <1>2
  <2> QED
    BY <1>1, <2>1 DEF InOrder
<1> QED
  BY <1>2, <1>4, <1>5, <1>6, <1>7 DEF InOrder

Working == {"lock", "read", "commit"}

\* An assignment has the word of its command as it is, from when it has read it under the command's lock.
ReadsItsRow(x, t) ==
  x.job.kind = "assign" /\ x.pc \in Working =>
    LET row == t.custom[x.job.id]
        asked == x.held \cup Elements(x.need)
    IN  /\ \A w \in Triggers : Writes!TriggerLock(w) \in asked =>
             Writes!IdLock(x.job.id) \in x.held /\ row # Writes!NoCustom /\ w = row.trigger
        /\ x.pc \in {"read", "commit"} =>
             /\ Writes!IdLock(x.job.id) \in x.held /\ row # Writes!NoCustom
             /\ Writes!TriggerLock(row.trigger) \in asked

\* What the checks found is still so at the commit; of an assignment, unless it read the past.
Claim(x, t) ==
  LET j == x.job IN
  /\ j.kind \in {"add", "update", "delete", "discard", "addCounter", "saveAdvanced"} => ~Writes!Refuses(t, j)
  /\ j.kind = "updateCounter" => /\ ~Writes!CustomTaken(t, j.cmds) /\ ~Writes!CounterTaken(t, j.cmds, j.id)
                                 /\ ~Writes!AdvancedTaken(t, j.cmds)
  /\ j.kind = "assign" /\ x.snap = {} => ~Writes!Refuses(t, j)

WorkerFits(x, t) ==
  /\ x \in Writes!WorkerStates
  /\ x.pc # "idle" => JobFits(x.job) /\ x.job.kind # "none"
  /\ x.pc \in Working =>
       InOrder(x.held, x.need) /\ LocksOf(x.job) \subseteq x.held \cup Elements(x.need) /\ x.result = "none"
  /\ x.pc \notin {"lock", "read"} => x.need = <<>>
  /\ x.pc = "read" => x.job.kind = "assign"
  /\ x.snap # {} => x.job.kind = "assign" /\ x.pc \in {"read", "commit"}
  /\ x.pc = "release" /\ x.result = "done" /\ x.job.kind = "add" => x.job.id \in Commands
  /\ ReadsItsRow(x, t)
  /\ x.pc = "commit" => Claim(x, t)

CommandsInv ==
  /\ tables \in Writes!Tables /\ worker \in [Workers -> Writes!WorkerStates] /\ clashed \subseteq Commands
  /\ \A w \in Workers : WorkerFits(worker[w], tables)
  /\ \A v, w \in Workers : v # w => worker[v].held \cap worker[w].held = {}
  /\ Writes!NoCollision


LEMMA WorkerFacts ==
  ASSUME CommandsInv, NEW w \in Workers
  PROVE  /\ WorkerFits(worker[w], tables) /\ worker[w] \in Writes!WorkerStates
         /\ worker = [worker EXCEPT ![w] = worker[w]] /\ tables \in Writes!Tables
BY DEF CommandsInv

\* One request goes on: it fits, the others still do, and it holds no lock of theirs.
LEMMA OneWorkerChanges ==
  ASSUME CommandsInv, NEW w \in Workers, NEW x, worker' = [worker EXCEPT ![w] = x],
         WorkerFits(x, tables)', \A v \in Workers \ {w} : WorkerFits(worker[v], tables'),
         \A v \in Workers \ {w} : x.held \cap worker[v].held = {},
         tables' \in Writes!Tables, clashed' \subseteq Commands, Writes!NoCollision'
  PROVE  CommandsInv'
<1>1. worker \in [Workers -> Writes!WorkerStates] /\ x \in Writes!WorkerStates
  BY DEF CommandsInv, WorkerFits
<1>2. worker' \in [Workers -> Writes!WorkerStates] /\ worker'[w] = x /\ \A v \in Workers \ {w} : worker'[v] = worker[v]
  BY <1>1
<1>3. \A v \in Workers : WorkerFits(worker'[v], tables')
  BY <1>2
<1>4. \A v, u \in Workers : v # u => worker'[v].held \cap worker'[u].held = {}
  BY <1>2 DEF CommandsInv
<1> QED
  BY <1>2, <1>3, <1>4 DEF CommandsInv

LEMMA RowsUnchanged ==
  ASSUME CommandsInv, NEW w \in Workers, NEW x, worker' = [worker EXCEPT ![w] = x], WorkerFits(x, tables),
         \A v \in Workers \ {w} : x.held \cap worker[v].held = {}, UNCHANGED <<tables, clashed>>
  PROVE  CommandsInv'
<1>1. tables' = tables /\ clashed' = clashed
  OBVIOUS
<1>2. WorkerFits(x, tables')
  BY <1>1
<1>3. Writes!NoCollision' /\ tables' \in Writes!Tables /\ clashed' \subseteq Commands
  BY <1>1 DEF CommandsInv, Writes!NoCollision, Writes!CollisionFree
<1>4. \A v \in Workers \ {w} : WorkerFits(worker[v], tables')
  BY <1>1 DEF CommandsInv
<1> QED
  BY <1>2, <1>3, <1>4, OneWorkerChanges

\* As above, when it holds what it held.
LEMMA KeepsItsLocks ==
  ASSUME CommandsInv, NEW w \in Workers, NEW x, worker' = [worker EXCEPT ![w] = x], WorkerFits(x, tables),
         x.held \subseteq worker[w].held, UNCHANGED <<tables, clashed>>
  PROVE  CommandsInv'
<1>1. \A v \in Workers \ {w} : x.held \cap worker[v].held = {}
  BY DEF CommandsInv
<1> QED
  BY <1>1, RowsUnchanged

\* A write that has just begun.
LEMMA IdleFacts ==
  LET none == Writes!NoWorker IN
  /\ none \in Writes!WorkerStates /\ none.pc = "idle" /\ none.job = Writes!NoJob /\ none.held = {}
  /\ none.need = <<>> /\ none.snap = {} /\ none.result = "none" /\ Writes!NoJob \in Writes!Jobs
  /\ Writes!NoJob.kind = "none"
<1>1. Writes!NoJob \in Writes!Jobs /\ Writes!NoJob.kind = "none"
  BY DEF Writes!NoJob, Writes!Jobs, Writes!Kinds
<1> QED
  BY <1>1, WritesAssumption DEF Writes!NoWorker, Writes!WorkerStates

LEMMA JobFacts ==
  ASSUME NEW kind \in Writes!Kinds
  PROVE  /\ Writes!Job(kind) \in Writes!Jobs /\ Writes!Job(kind).kind = kind /\ Writes!Job(kind).cmds = {}
BY DEF Writes!Job, Writes!NoJob, Writes!Jobs

LEMMA BegunFits ==
  ASSUME NEW j, JobFits(j), j.kind # "none", tables \in Writes!Tables
  PROVE  WorkerFits(Writes!Begun(j), tables) /\ Writes!Begun(j).held = {}
<1> DEFINE none == Writes!NoWorker
           x == [none EXCEPT !.pc = "lock", !.job = j, !.need = Writes!FirstLocks(j), !.tries = 1]
<1>1. Writes!Begun(j) = x
  BY DEF Writes!Begun
<1>2. /\ InOrder({}, Writes!FirstLocks(j)) /\ LocksOf(j) \subseteq Elements(Writes!FirstLocks(j))
      /\ j.kind = "assign" => Writes!FirstLocks(j) = <<Writes!IdLock(j.id)>>
  BY FirstLocksFacts DEF IdKinds
<1>3. /\ x \in Writes!WorkerStates
      /\ x.pc = "lock" /\ x.job = j /\ x.need = Writes!FirstLocks(j) /\ x.held = {} /\ x.snap = {}
      /\ x.result = "none"
  <2>1. none \in Writes!WorkerStates /\ none.held = {} /\ none.snap = {} /\ none.result = "none"
    BY IdleFacts
  <2>2. j \in Writes!Jobs /\ Writes!FirstLocks(j) \in Seq(Writes!Locks) /\ 1 \in 0 .. MaxTries
    BY <1>2, WritesAssumption DEF JobFits, InOrder
  <2> HIDE DEF none
  <2> QED
    BY <2>1, <2>2 DEF Writes!WorkerStates
<1> HIDE DEF x
<1>4. ReadsItsRow(x, tables)
  <2> SUFFICES ASSUME j.kind = "assign", NEW t \in Triggers,
                      Writes!TriggerLock(t) \in x.held \cup Elements(x.need)
               PROVE  FALSE
    BY <1>3 DEF ReadsItsRow
  <2>1. Elements(<<Writes!IdLock(j.id)>>) = {Writes!IdLock(j.id)}
    BY DEF Elements
  <2> QED
    BY <1>2, <1>3, <2>1 DEF Writes!IdLock, Writes!TriggerLock
<1>5. JobFits(x.job) /\ x.job.kind # "none" /\ InOrder(x.held, x.need)
      /\ LocksOf(x.job) \subseteq x.held \cup Elements(x.need)
  BY <1>2, <1>3
<1> QED
  BY <1>1, <1>3, <1>4, <1>5 DEF WorkerFits, Working

LEMMA StartKeepsInv ==
  ASSUME CommandsInv, NEW w \in Workers, NEW j, JobFits(j), j.kind # "none", Writes!Start(w, j)
  PROVE  CommandsInv'
<1>1. worker' = [worker EXCEPT ![w] = Writes!Begun(j)] /\ UNCHANGED <<tables, clashed>>
  BY DEF Writes!Start
<1>2. WorkerFits(Writes!Begun(j), tables) /\ Writes!Begun(j).held \subseteq worker[w].held
  BY WorkerFacts, BegunFits
<1> QED
  BY <1>1, <1>2, KeepsItsLocks

LEMMA StartsKeepInv ==
  ASSUME CommandsInv, NEW w \in Workers,
         \/ Writes!addCustomCommand(w) \/ Writes!updateCustomCommand(w) \/ Writes!updateOwnCustomCommand(w)
         \/ Writes!removeCustomCommand(w) \/ Writes!assignUserToCommand(w) \/ Writes!addCounter(w)
         \/ Writes!updateCounter(w) \/ Writes!removeCounter(w) \/ Writes!saveAdvancedCommand(w)
  PROVE  CommandsInv'
<1>1. \A f \in FlagSets : f \in SUBSET Writes!Flags
  BY WritesAssumption DEF Writes!Flags
<1>2. CASE Writes!addCustomCommand(w)
  <2>1. PICK t \in Triggers, u \in Assignees :
          \/ \E f \in FlagSets : Writes!Start(w, [Writes!Job("add") EXCEPT !.cmds = {t}, !.flags = f, !.users = u])
          \/ Writes!Start(w, [Writes!Job("add") EXCEPT !.cmds = {t}, !.users = u, !.self = u])
    BY <1>2 DEF Writes!addCustomCommand
  <2>2. CASE \E f \in FlagSets : Writes!Start(w, [Writes!Job("add") EXCEPT !.cmds = {t}, !.flags = f, !.users = u])
    <3>1. PICK f \in FlagSets :
           Writes!Start(w, [Writes!Job("add") EXCEPT !.cmds = {t}, !.flags = f, !.users = u])
      BY <2>2
    <3> DEFINE base == Writes!Job("add")
               j == [base EXCEPT !.cmds = {t}, !.flags = f, !.users = u]
    <3>2. base \in Writes!Jobs /\ base.kind = "add" /\ base.cmds = {}
      BY JobFacts DEF Writes!Kinds
    <3> HIDE DEF base
    <3>3. j \in Writes!Jobs /\ j.kind = "add" /\ j.cmds = {t}
      BY <3>1, <3>2, <1>1, WritesAssumption DEF Writes!Jobs, Writes!CounterRows
    <3> HIDE DEF j
    <3>4. JobFits(j) /\ j.kind # "none"
      BY <3>1, <3>3 DEF JobFits, IdKinds
    <3> QED
      BY <3>1, <3>4, StartKeepsInv DEF j, base
  <2>3. CASE Writes!Start(w, [Writes!Job("add") EXCEPT !.cmds = {t}, !.users = u, !.self = u])
    <3> DEFINE base == Writes!Job("add")
               j == [base EXCEPT !.cmds = {t}, !.users = u, !.self = u]
    <3>2. base \in Writes!Jobs /\ base.kind = "add" /\ base.cmds = {}
      BY JobFacts DEF Writes!Kinds
    <3> HIDE DEF base
    <3>3. j \in Writes!Jobs /\ j.kind = "add" /\ j.cmds = {t}
      BY <2>3, <3>2, <1>1, WritesAssumption DEF Writes!Jobs, Writes!CounterRows
    <3> HIDE DEF j
    <3>4. JobFits(j) /\ j.kind # "none"
      BY <2>3, <3>3 DEF JobFits, IdKinds
    <3> QED
      BY <2>3, <3>4, StartKeepsInv DEF j, base
  <2> QED
    BY <2>1, <2>2, <2>3
<1>3. CASE Writes!updateCustomCommand(w)
  <2>1. PICK t \in Triggers, f \in FlagSets, c \in Commands :
         Writes!Start(w, [Writes!Job("update") EXCEPT !.id = c, !.cmds = {t}, !.flags = f])
    BY <1>3 DEF Writes!updateCustomCommand
  <2> DEFINE base == Writes!Job("update")
             j == [base EXCEPT !.id = c, !.cmds = {t}, !.flags = f]
  <2>2. base \in Writes!Jobs /\ base.kind = "update" /\ base.cmds = {}
    BY JobFacts DEF Writes!Kinds
  <2> HIDE DEF base
  <2>3. j \in Writes!Jobs /\ j.kind = "update" /\ j.cmds = {t} /\ j.id = c
    BY <2>1, <2>2, <1>1, WritesAssumption DEF Writes!Jobs, Writes!CounterRows
  <2> HIDE DEF j
  <2>4. JobFits(j) /\ j.kind # "none"
    BY <2>1, <2>3 DEF JobFits, IdKinds
  <2> QED
    BY <2>1, <2>4, StartKeepsInv DEF j, base
<1>4. CASE Writes!updateOwnCustomCommand(w)
  <2>1. PICK t \in Triggers, u \in Users, c \in Commands :
         Writes!Start(w, [Writes!Job("update") EXCEPT !.id = c, !.cmds = {t}, !.self = {u}])
    BY <1>4 DEF Writes!updateOwnCustomCommand
  <2> DEFINE base == Writes!Job("update")
             j == [base EXCEPT !.id = c, !.cmds = {t}, !.self = {u}]
  <2>2. base \in Writes!Jobs /\ base.kind = "update" /\ base.cmds = {}
    BY JobFacts DEF Writes!Kinds
  <2> HIDE DEF base
  <2>3. j \in Writes!Jobs /\ j.kind = "update" /\ j.cmds = {t} /\ j.id = c
    BY <2>1, <2>2, <1>1, WritesAssumption DEF Writes!Jobs, Writes!CounterRows
  <2> HIDE DEF j
  <2>4. JobFits(j) /\ j.kind # "none"
    BY <2>1, <2>3 DEF JobFits, IdKinds
  <2> QED
    BY <2>1, <2>4, StartKeepsInv DEF j, base
<1>5. CASE Writes!removeCustomCommand(w)
  <2>1. PICK c \in Commands, s \in {{}} \cup {{u} : u \in Users} :
         Writes!Start(w, [Writes!Job("delete") EXCEPT !.id = c, !.self = s])
    BY <1>5 DEF Writes!removeCustomCommand
  <2> DEFINE base == Writes!Job("delete")
             j == [base EXCEPT !.id = c, !.self = s]
  <2>2. base \in Writes!Jobs /\ base.kind = "delete" /\ base.cmds = {}
    BY JobFacts DEF Writes!Kinds
  <2> HIDE DEF base
  <2>3. j \in Writes!Jobs /\ j.kind = "delete" /\ j.id = c
    <3>1. s \in SUBSET Users
      BY <2>1
    <3> QED
      BY <2>1, <2>2, <3>1 DEF Writes!Jobs
  <2> HIDE DEF j
  <2>4. JobFits(j) /\ j.kind # "none"
    BY <2>1, <2>3 DEF JobFits, IdKinds
  <2> QED
    BY <2>1, <2>4, StartKeepsInv DEF j, base
<1>6. CASE Writes!assignUserToCommand(w)
  <2>1. PICK c \in Commands, u \in Users :
         Writes!Start(w, [Writes!Job("assign") EXCEPT !.id = c, !.users = {u}])
    BY <1>6 DEF Writes!assignUserToCommand
  <2> DEFINE base == Writes!Job("assign")
             j == [base EXCEPT !.id = c, !.users = {u}]
  <2>2. base \in Writes!Jobs /\ base.kind = "assign" /\ base.cmds = {}
    BY JobFacts DEF Writes!Kinds
  <2> HIDE DEF base
  <2>3. j \in Writes!Jobs /\ j.kind = "assign" /\ j.id = c
    BY <2>1, <2>2, <1>1, WritesAssumption DEF Writes!Jobs, Writes!CounterRows
  <2> HIDE DEF j
  <2>4. JobFits(j) /\ j.kind # "none"
    BY <2>1, <2>3 DEF JobFits, IdKinds
  <2> QED
    BY <2>1, <2>4, StartKeepsInv DEF j, base
<1>7. CASE Writes!addCounter(w)
  <2>1. PICK cmds \in Writes!CounterRows :
         Writes!Start(w, [Writes!Job("addCounter") EXCEPT !.cmds = cmds])
    BY <1>7 DEF Writes!addCounter
  <2> DEFINE base == Writes!Job("addCounter")
             j == [base EXCEPT !.cmds = cmds]
  <2>2. base \in Writes!Jobs /\ base.kind = "addCounter" /\ base.cmds = {}
    BY JobFacts DEF Writes!Kinds
  <2> HIDE DEF base
  <2>3. j \in Writes!Jobs /\ j.kind = "addCounter" /\ j.cmds = cmds
    BY <2>1, <2>2, <1>1, WritesAssumption DEF Writes!Jobs, Writes!CounterRows
  <2> HIDE DEF j
  <2>4. JobFits(j) /\ j.kind # "none"
    BY <2>1, <2>3 DEF JobFits, IdKinds
  <2> QED
    BY <2>1, <2>4, StartKeepsInv DEF j, base
<1>8. CASE Writes!updateCounter(w)
  <2>1. PICK k \in Counters, cmds \in Writes!CounterRows :
         Writes!Start(w, [Writes!Job("updateCounter") EXCEPT !.id = k, !.cmds = cmds])
    BY <1>8 DEF Writes!updateCounter
  <2> DEFINE base == Writes!Job("updateCounter")
             j == [base EXCEPT !.id = k, !.cmds = cmds]
  <2>2. base \in Writes!Jobs /\ base.kind = "updateCounter" /\ base.cmds = {}
    BY JobFacts DEF Writes!Kinds
  <2> HIDE DEF base
  <2>3. j \in Writes!Jobs /\ j.kind = "updateCounter" /\ j.cmds = cmds /\ j.id = k
    BY <2>1, <2>2, <1>1, WritesAssumption DEF Writes!Jobs, Writes!CounterRows
  <2> HIDE DEF j
  <2>4. JobFits(j) /\ j.kind # "none"
    BY <2>1, <2>3 DEF JobFits, IdKinds
  <2> QED
    BY <2>1, <2>4, StartKeepsInv DEF j, base
<1>9. CASE Writes!removeCounter(w)
  <2>1. PICK k \in Counters :
         Writes!Start(w, [Writes!Job("removeCounter") EXCEPT !.id = k])
    BY <1>9 DEF Writes!removeCounter
  <2> DEFINE base == Writes!Job("removeCounter")
             j == [base EXCEPT !.id = k]
  <2>2. base \in Writes!Jobs /\ base.kind = "removeCounter" /\ base.cmds = {}
    BY JobFacts DEF Writes!Kinds
  <2> HIDE DEF base
  <2>3. j \in Writes!Jobs /\ j.kind = "removeCounter" /\ j.cmds = {} /\ j.id = k
    BY <2>1, <2>2, <1>1, WritesAssumption DEF Writes!Jobs, Writes!CounterRows
  <2> HIDE DEF j
  <2>4. JobFits(j) /\ j.kind # "none"
    BY <2>1, <2>3 DEF JobFits, IdKinds
  <2> QED
    BY <2>1, <2>4, StartKeepsInv DEF j, base
<1>10. CASE Writes!saveAdvancedCommand(w)
  <2>1. PICK cmds \in {{}} \cup {{t} : t \in Triggers} :
         Writes!Start(w, [Writes!Job("saveAdvanced") EXCEPT !.cmds = cmds])
    BY <1>10 DEF Writes!saveAdvancedCommand
  <2> DEFINE base == Writes!Job("saveAdvanced")
             j == [base EXCEPT !.cmds = cmds]
  <2>2. base \in Writes!Jobs /\ base.kind = "saveAdvanced" /\ base.cmds = {}
    BY JobFacts DEF Writes!Kinds
  <2> HIDE DEF base
  <2>3. j \in Writes!Jobs /\ j.kind = "saveAdvanced" /\ j.cmds = cmds
    BY <2>1, <2>2, <1>1, WritesAssumption DEF Writes!Jobs, Writes!CounterRows
  <2> HIDE DEF j
  <2>4. JobFits(j) /\ j.kind # "none"
    BY <2>1, <2>3 DEF JobFits, IdKinds
  <2> QED
    BY <2>1, <2>4, StartKeepsInv DEF j, base
<1> QED
  BY <1>2, <1>3, <1>4, <1>5, <1>6, <1>7, <1>8, <1>9, <1>10

\* A request with nothing left to acquire has the locks its job relies on.
LEMMA AllAcquired ==
  ASSUME NEW x, NEW t, WorkerFits(x, t), x.pc \in Working, x.need = <<>>
  PROVE  /\ LocksOf(x.job) \subseteq x.held /\ Elements(x.need) = {} /\ JobFits(x.job) /\ x.job.kind # "none"
         /\ x.held \subseteq Writes!Locks /\ x.result = "none"
         /\ x.job.kind \in IdKinds => x.job.id \in Commands /\ Writes!IdLock(x.job.id) \in x.held
         /\ x.job.kind \in WordKinds => \A word \in x.job.cmds : word \in Triggers /\ Writes!TriggerLock(word) \in x.held
<1>1. /\ LocksOf(x.job) \subseteq x.held \cup Elements(x.need) /\ JobFits(x.job) /\ x.job.kind # "none"
      /\ x.held \subseteq Writes!Locks /\ x.result = "none"
  BY DEF WorkerFits, InOrder, Working
<1>2. Elements(x.need) = {}
  BY DEF Elements
<1>3. x.job.kind \in IdKinds => x.job.id \in Commands /\ Writes!IdLock(x.job.id) \in LocksOf(x.job)
  BY <1>1, LockFacts DEF JobFits, LocksOf
<1>4. x.job.cmds \in SUBSET Triggers
  BY <1>1 DEF JobFits, Writes!Jobs
<1>5. x.job.kind \in WordKinds => \A word \in x.job.cmds : Writes!TriggerLock(word) \in LocksOf(x.job)
  BY <1>4, LockFacts DEF LocksOf
<1> QED
  BY <1>1, <1>2, <1>3, <1>4, <1>5

LEMMA AcquisitionKeepsInv ==
  ASSUME CommandsInv, NEW w \in Workers, Writes!acquireNamedLock(w)
  PROVE  CommandsInv'
<1> DEFINE old == worker[w]
           l == Head(old.need)
           x == [old EXCEPT !.held = @ \cup {l}, !.need = Tail(@)]
<1>1. /\ worker' = [worker EXCEPT ![w] = x] /\ UNCHANGED <<tables, clashed>>
      /\ old.pc \in {"lock", "read"} /\ old.need # <<>>
      /\ \A v \in Workers : l \notin worker[v].held
  BY DEF Writes!acquireNamedLock, Writes!Waits, Writes!Holder
<1>2. WorkerFits(old, tables) /\ old \in Writes!WorkerStates
  BY WorkerFacts
<1>3. \A v \in Workers \ {w} : old.held \cap worker[v].held = {}
  BY DEF CommandsInv
<1> HIDE DEF old
<1>4. InOrder(old.held, old.need) /\ LocksOf(old.job) \subseteq old.held \cup Elements(old.need)
  BY <1>1, <1>2 DEF WorkerFits, Working
<1>5. /\ l \in Writes!Locks /\ l \in Elements(old.need) /\ InOrder(old.held \cup {l}, Tail(old.need))
      /\ old.held \cup Elements(old.need) = (old.held \cup {l}) \cup Elements(Tail(old.need))
  BY <1>1, <1>4, AcquiredFacts
<1>6. Tail(old.need) \in Seq(Writes!Locks) /\ old.held \cup {l} \in SUBSET Writes!Locks
  BY <1>5 DEF InOrder
<1> HIDE DEF l
<1>7. /\ x \in Writes!WorkerStates /\ x.held = old.held \cup {l} /\ x.need = Tail(old.need)
      /\ x.pc = old.pc /\ x.job = old.job /\ x.snap = old.snap /\ x.result = old.result
  BY <1>2, <1>6 DEF Writes!WorkerStates
<1> HIDE DEF x
<1>8. ReadsItsRow(x, tables)
  <2>1. x.held \cup Elements(x.need) = old.held \cup Elements(old.need) /\ old.held \subseteq x.held
    BY <1>5, <1>7
  <2> QED
    BY <1>2, <1>7, <2>1 DEF WorkerFits, ReadsItsRow
<1>9. WorkerFits(x, tables)
  BY <1>1, <1>2, <1>4, <1>5, <1>7, <1>8 DEF WorkerFits, Working
<1>10. \A v \in Workers \ {w} : x.held \cap worker[v].held = {}
  BY <1>1, <1>3, <1>7
<1> QED
  BY <1>1, <1>9, <1>10, RowsUnchanged

\* A request that gives up keeps its locks until they are released.
LEMMA FailureKeepsInv ==
  ASSUME CommandsInv, NEW w \in Workers, Writes!Fail(w), worker[w].pc # "idle", UNCHANGED <<tables, clashed>>
  PROVE  CommandsInv'
<1> DEFINE old == worker[w]
           x == [old EXCEPT !.pc = "release", !.result = "failed", !.need = <<>>, !.snap = {}]
<1>1. worker' = [worker EXCEPT ![w] = x]
  BY DEF Writes!Fail
<1>2. WorkerFits(old, tables) /\ old \in Writes!WorkerStates /\ old.pc # "idle"
  BY WorkerFacts
<1> HIDE DEF old
<1>3. /\ x \in Writes!WorkerStates /\ x.held = old.held /\ x.need = <<>> /\ x.pc = "release" /\ x.job = old.job
      /\ x.snap = {} /\ x.result = "failed"
  <2> DEFINE none == <<>>
             y == [old EXCEPT !.pc = "release", !.result = "failed", !.need = none, !.snap = {}]
  <2>1. none \in Seq(Writes!Locks)
    OBVIOUS
  <2> HIDE DEF none
  <2>2. y \in Writes!WorkerStates
    BY <1>2, <2>1 DEF Writes!WorkerStates
  <2>3. /\ y.held = old.held /\ y.need = none /\ y.pc = "release" /\ y.job = old.job
        /\ y.snap = {} /\ y.result = "failed"
    BY <1>2 DEF Writes!WorkerStates
  <2> QED
    BY <2>2, <2>3 DEF none
<1> HIDE DEF x
<1>4. WorkerFits(x, tables)
  BY <1>2, <1>3 DEF WorkerFits, ReadsItsRow, Working
<1> QED
  BY <1>1, <1>3, <1>4, KeepsItsLocks DEF old

LEMMA TimeoutKeepsInv == ASSUME CommandsInv, NEW w \in Workers, Writes!LockTimesOut(w) PROVE CommandsInv'
<1>1. worker[w].pc # "idle" /\ Writes!Fail(w) /\ UNCHANGED <<tables, clashed>>
  BY DEF Writes!LockTimesOut, Writes!Waits
<1> QED
  BY <1>1, FailureKeepsInv

LEMMA TriggerReadKeepsInv ==
  ASSUME CommandsInv, NEW w \in Workers, Writes!getCommandTriggerStringById(w)
  PROVE  CommandsInv'
<1> DEFINE old == worker[w]
           row == tables.custom[old.job.id]
           l == Writes!TriggerLock(row.trigger)
           snap == IF Isolation = "repeatable" THEN {tables} ELSE {}
           need == IF l \in old.held THEN <<>> ELSE <<l>>
           x == [old EXCEPT !.pc = "read", !.snap = snap, !.need = need]
<1>1. old.job.kind = "assign" /\ old.pc = "lock" /\ old.need = <<>> /\ UNCHANGED <<tables, clashed>>
  BY DEF Writes!getCommandTriggerStringById, Writes!Reading, Writes!Ready
<1>2. WorkerFits(old, tables) /\ old \in Writes!WorkerStates /\ tables \in Writes!Tables
  BY WorkerFacts
<1>3. CASE row = Writes!NoCustom
  <2>1. Writes!Fail(w)
    BY <1>3 DEF Writes!getCommandTriggerStringById, Writes!Committed
  <2> QED
    BY <1>1, <2>1, FailureKeepsInv
<1>4. CASE row # Writes!NoCustom
  <2>1. worker' = [worker EXCEPT ![w] = x]
    BY <1>4 DEF Writes!getCommandTriggerStringById, Writes!Committed
  <2> HIDE DEF old
  <2>2. /\ LocksOf(old.job) \subseteq old.held /\ Elements(old.need) = {} /\ JobFits(old.job)
        /\ old.held \subseteq Writes!Locks /\ old.result = "none"
        /\ old.job.id \in Commands /\ Writes!IdLock(old.job.id) \in old.held
    BY <1>1, <1>2, AllAcquired DEF Working, IdKinds
  <2>3. row.trigger \in Triggers
    BY <1>2, <1>4, <2>2 DEF Writes!Tables, Writes!CustomRows
  <2> HIDE DEF row
  <2>4. l \in Writes!Locks /\ l[1] = "trigger"
    BY <2>3, LockFacts
  <2>5. \A word \in Triggers : Writes!TriggerLock(word) \in old.held => word = row.trigger
    BY <1>1, <1>2 DEF WorkerFits, ReadsItsRow, Working, row
  <2>6. l \notin old.held => \A k \in old.held : Earlier(k, l)
    BY <2>2, <2>4, <2>5, LockFacts DEF Earlier
  <2> HIDE DEF l
  <2>7. /\ InOrder(old.held, need) /\ need \in Seq(Writes!Locks) /\ l \in old.held \cup Elements(need)
        /\ Elements(need) \subseteq {l}
    <3>1. CASE l \in old.held
      <4>1. need = <<>> /\ DOMAIN need = {} /\ Elements(need) = {}
        BY <3>1 DEF Elements
      <4> QED
        BY <2>2, <3>1, <4>1 DEF InOrder
    <3>2. CASE l \notin old.held
      <4>1. need = <<l>> /\ DOMAIN need = {1} /\ need[1] = l
        BY <3>2
      <4>2. Elements(need) = {l} /\ need \in Seq(Writes!Locks)
        BY <2>4, <4>1 DEF Elements
      <4> HIDE DEF need
      <4> QED
        BY <2>2, <2>6, <3>2, <4>1, <4>2 DEF InOrder
    <3> QED
      BY <3>1, <3>2
  <2>8. snap \in SUBSET Writes!Tables
    BY <1>2
  <2> HIDE DEF need, snap
  <2>9. /\ x \in Writes!WorkerStates /\ x.held = old.held /\ x.need = need /\ x.pc = "read" /\ x.job = old.job
        /\ x.snap = snap /\ x.result = "none"
    BY <1>2, <2>2, <2>7, <2>8 DEF Writes!WorkerStates
  <2> HIDE DEF x
  <2>10. ReadsItsRow(x, tables)
    <3>1. \A word \in Triggers : Writes!TriggerLock(word) \in x.held \cup Elements(x.need) => word = row.trigger
      BY <2>3, <2>5, <2>7, <2>9 DEF l, Writes!TriggerLock
    <3> QED
      BY <1>4, <2>2, <2>7, <2>9, <3>1 DEF ReadsItsRow, row, l
  <2>11. WorkerFits(x, tables)
    BY <1>1, <1>2, <2>2, <2>7, <2>9, <2>10 DEF WorkerFits, Working
  <2> QED
    BY <1>1, <2>1, <2>9, <2>11, KeepsItsLocks DEF old
<1> QED
  BY <1>3, <1>4

LEMMA RetryKeepsInv ==
  ASSUME CommandsInv, NEW w \in Workers, Writes!runWithDeadlockRetry(w)
  PROVE  CommandsInv'
<1> DEFINE old == worker[w]
           x == [old EXCEPT !.pc = "lock", !.snap = {}, !.tries = @ + 1]
<1>1. old.pc = "commit" /\ UNCHANGED <<tables, clashed>>
  BY DEF Writes!runWithDeadlockRetry
<1>2. CASE old.job.kind \notin {"delete", "discard"} /\ old.tries < MaxTries
  <2>1. worker' = [worker EXCEPT ![w] = x]
    BY <1>2 DEF Writes!runWithDeadlockRetry
  <2>2. WorkerFits(old, tables) /\ old \in Writes!WorkerStates
    BY WorkerFacts
  <2> HIDE DEF old
  <2>3. old.tries + 1 \in 0 .. MaxTries
    BY <1>2, <2>2, WritesAssumption DEF Writes!WorkerStates
  <2>4. /\ x \in Writes!WorkerStates /\ x.held = old.held /\ x.need = old.need /\ x.pc = "lock" /\ x.job = old.job
        /\ x.snap = {} /\ x.result = old.result
    BY <2>2, <2>3 DEF Writes!WorkerStates
  <2> HIDE DEF x
  <2>5. ReadsItsRow(x, tables)
    BY <1>1, <2>2, <2>4 DEF WorkerFits, ReadsItsRow, Working
  <2>6. WorkerFits(x, tables)
    BY <1>1, <2>2, <2>4, <2>5 DEF WorkerFits, Working
  <2> QED
    BY <1>1, <2>1, <2>4, <2>6, KeepsItsLocks DEF old
<1>3. CASE ~(old.job.kind \notin {"delete", "discard"} /\ old.tries < MaxTries)
  <2>1. Writes!Fail(w)
    BY <1>3 DEF Writes!runWithDeadlockRetry
  <2> QED
    BY <1>1, <2>1, FailureKeepsInv
<1> QED
  BY <1>2, <1>3

LEMMA IdleFits == WorkerFits(Writes!NoWorker, tables)
BY IdleFacts DEF WorkerFits, ReadsItsRow, Working

LEMMA ReleaseKeepsInv ==
  ASSUME CommandsInv, NEW w \in Workers, Writes!releaseNamedLocks(w)
  PROVE  CommandsInv'
<1> DEFINE old == worker[w]
           next == IF old.result = "done" THEN "assign" ELSE "discard"
           goesOn == \/ old.job.kind = "add" /\ old.result = "done" /\ old.job.users # {}
                     \/ old.job.kind = "assign" /\ old.result = "failed" /\ old.job.cmds # {}
           j == [old.job EXCEPT !.kind = next]
<1>1. /\ worker' = [worker EXCEPT ![w] = IF goesOn THEN Writes!Begun(j) ELSE Writes!NoWorker]
      /\ old.pc = "release" /\ UNCHANGED <<tables, clashed>>
  BY DEF Writes!releaseNamedLocks
<1>2. WorkerFits(old, tables) /\ tables \in Writes!Tables
  BY WorkerFacts
<1>3. CASE goesOn
  <2> HIDE DEF old
  <2>1. old.job \in Writes!Jobs /\ old.job.id \in Commands
    BY <1>1, <1>2, <1>3 DEF WorkerFits, JobFits, IdKinds
  <2>2. next \in {"assign", "discard"}
    OBVIOUS
  <2> HIDE DEF next
  <2>3. j \in Writes!Jobs /\ j.kind = next /\ j.id \in Commands
    BY <2>1, <2>2 DEF Writes!Jobs, Writes!Kinds
  <2> HIDE DEF j
  <2>4. JobFits(j) /\ j.kind # "none"
    BY <2>2, <2>3 DEF JobFits, IdKinds
  <2>5. WorkerFits(Writes!Begun(j), tables) /\ Writes!Begun(j).held \subseteq old.held
    BY <1>2, <2>4, BegunFits
  <2>6. worker' = [worker EXCEPT ![w] = Writes!Begun(j)]
    BY <1>1, <1>3
  <2> QED
    BY <1>1, <2>5, <2>6, KeepsItsLocks DEF old
<1>4. CASE ~goesOn
  <2>1. worker' = [worker EXCEPT ![w] = Writes!NoWorker] /\ Writes!NoWorker.held \subseteq old.held
    BY <1>1, <1>4, IdleFacts
  <2> QED
    BY <1>1, <2>1, IdleFits, KeepsItsLocks
<1> QED
  BY <1>3, <1>4

\* What the checks of each kind of write come to.
LEMMA RefusesFacts ==
  ASSUME NEW t, NEW j
  PROVE  /\ j.kind = "add" => (Writes!Refuses(t, j) <=> Writes!CustomConflict(t, j, Writes!NoId))
         /\ j.kind = "update" =>
              (Writes!Refuses(t, j) <=> \/ t.custom[j.id] = Writes!NoCustom
                                        \/ Writes!CustomConflict(t, j, j.id)
                                        \/ ~Writes!Manageable(t.custom[j.id], j.self))
         /\ j.kind = "delete" =>
              (Writes!Refuses(t, j) <=> \/ t.custom[j.id] = Writes!NoCustom
                                        \/ ~Writes!Manageable(t.custom[j.id], j.self))
         /\ j.kind = "discard" =>
              (Writes!Refuses(t, j) <=> \/ t.custom[j.id] = Writes!NoCustom
                                        \/ ~Writes!Unclaimed(t.custom[j.id], j.self))
         /\ j.kind = "assign" =>
              (Writes!Refuses(t, j) <=> Writes!ChannelTaken(t, j.id, t.custom[j.id].trigger, j.users))
         /\ j.kind = "addCounter" =>
              (Writes!Refuses(t, j) <=> \/ Writes!CustomTaken(t, j.cmds) \/ Writes!CounterTaken(t, j.cmds, Writes!NoId)
                                        \/ Writes!AdvancedTaken(t, j.cmds))
         /\ j.kind = "updateCounter" =>
              (Writes!Refuses(t, j) <=> t.counter[j.id] = Writes!NoCounter \/ Writes!CounterConflict(t, j))
         /\ j.kind = "saveAdvanced" =>
              (Writes!Refuses(t, j) <=> Writes!CustomTaken(t, j.cmds) \/ Writes!CounterTaken(t, j.cmds, Writes!NoId))
BY DEF Writes!Refuses

\* A row is there exactly if it has a word.
LEMMA RowFacts ==
  ASSUME NEW t \in Writes!Tables
  PROVE  /\ \A c \in Commands :
              /\ t.custom[c] \in Writes!CustomRows \cup {Writes!NoCustom}
              /\ t.custom[c] # Writes!NoCustom <=> t.custom[c].trigger \in Triggers
              /\ t.custom[c].users \in SUBSET Users /\ t.custom[c].flags \in SUBSET Writes!Flags
         /\ \A k \in Counters : t.counter[k] \in SUBSET Triggers
         /\ 0 \notin Triggers /\ 0 \notin Commands /\ 0 \notin Counters
<1>1. 0 \notin Triggers /\ 0 \notin Commands /\ 0 \notin Counters
  BY WritesAssumption
<1>2. ASSUME NEW k \in Counters PROVE t.counter[k] \in SUBSET Triggers
  BY DEF Writes!Tables, Writes!CounterRows, Writes!NoCounter
<1>3. ASSUME NEW c \in Commands
      PROVE  /\ t.custom[c] \in Writes!CustomRows \cup {Writes!NoCustom}
             /\ t.custom[c] # Writes!NoCustom <=> t.custom[c].trigger \in Triggers
             /\ t.custom[c].users \in SUBSET Users /\ t.custom[c].flags \in SUBSET Writes!Flags
  <2>1. t.custom[c] \in Writes!CustomRows \cup {Writes!NoCustom}
    BY DEF Writes!Tables
  <2>2. Writes!NoCustom.trigger = 0 /\ Writes!NoCustom.users = {} /\ Writes!NoCustom.flags = {}
    BY DEF Writes!NoCustom, Writes!NoTrigger
  <2>3. \A r \in Writes!CustomRows : r.trigger \in Triggers /\ r.users \in SUBSET Users /\ r.flags \in SUBSET Writes!Flags
    BY DEF Writes!CustomRows
  <2> QED
    BY <1>1, <2>1, <2>2, <2>3
<1> QED
  BY <1>1, <1>2, <1>3

\* The words a counter keeps are its own already, so the checks of those it gains speak for all.
LEMMA KeptWordsAreItsOwn ==
  ASSUME NEW t \in Writes!Tables, Writes!CollisionFree(t), NEW j, j.id \in Counters, ~Writes!CounterConflict(t, j)
  PROVE  /\ ~Writes!CustomTaken(t, j.cmds) /\ ~Writes!CounterTaken(t, j.cmds, j.id)
         /\ ~Writes!AdvancedTaken(t, j.cmds)
<1> DEFINE old == t.counter[j.id]
           gained == j.cmds \ old
<1>1. /\ ~Writes!CustomTaken(t, gained) /\ ~Writes!CounterTaken(t, gained, j.id) /\ ~Writes!AdvancedTaken(t, gained)
  BY DEF Writes!CounterConflict
<1>2. ~Writes!CounterTaken(t, old, j.id) /\ ~Writes!AdvancedTaken(t, old)
  BY DEF Writes!CollisionFree
<1>3. \A c \in Commands : t.custom[c] # Writes!NoCustom => t.custom[c].trigger \notin old
  <2> SUFFICES ASSUME NEW c \in Commands, t.custom[c] # Writes!NoCustom, t.custom[c].trigger \in old PROVE FALSE
    OBVIOUS
  <2>1. ~Writes!CounterTaken(t, {t.custom[c].trigger}, Writes!NoId)
    BY DEF Writes!CollisionFree
  <2>2. j.id # Writes!NoId
    BY WritesAssumption DEF Writes!NoId
  <2> QED
    BY <2>1, <2>2 DEF Writes!CounterTaken
<1> HIDE DEF old
<1>4. ~Writes!CustomTaken(t, j.cmds)
  BY <1>1, <1>3 DEF Writes!CustomTaken
<1>5. ~Writes!CounterTaken(t, j.cmds, j.id)
  BY <1>1, <1>2 DEF Writes!CounterTaken
<1>6. ~Writes!AdvancedTaken(t, j.cmds)
  BY <1>1, <1>2 DEF Writes!AdvancedTaken
<1> QED
  BY <1>4, <1>5, <1>6

LEMMA CheckKeepsInv ==
  ASSUME CommandsInv, NEW w \in Workers, Writes!runSerializedCommandWrite(w)
  PROVE  CommandsInv'
<1> DEFINE old == worker[w]
           x == [old EXCEPT !.pc = "commit"]
<1>1. /\ old.pc \in {"lock", "read"} /\ old.need = <<>> /\ (old.job.kind = "assign" => old.pc = "read")
      /\ UNCHANGED <<tables, clashed>>
  BY DEF Writes!runSerializedCommandWrite, Writes!Ready, Writes!Reading
<1>2. CASE \E t \in Writes!Views(w) : Writes!Refuses(t, worker[w].job)
  <2>1. Writes!Fail(w)
    BY <1>2 DEF Writes!runSerializedCommandWrite
  <2> QED
    BY <1>1, <2>1, FailureKeepsInv
<1>3. CASE ~(\E t \in Writes!Views(w) : Writes!Refuses(t, worker[w].job))
  <2>1. worker' = [worker EXCEPT ![w] = x]
    <3>1. worker' = [worker EXCEPT ![w].pc = "commit"]
      BY <1>3 DEF Writes!runSerializedCommandWrite
    <3> QED
      BY <3>1
  <2>2. old.snap = {} => ~Writes!Refuses(tables, old.job)
    BY <1>3 DEF Writes!Views
  <2>3. WorkerFits(old, tables) /\ old \in Writes!WorkerStates /\ tables \in Writes!Tables
    BY WorkerFacts
  <2> HIDE DEF old
  <2>4. /\ x \in Writes!WorkerStates /\ x.held = old.held /\ x.need = old.need /\ x.pc = "commit" /\ x.job = old.job
        /\ x.snap = old.snap /\ x.result = old.result
    BY <2>3 DEF Writes!WorkerStates
  <2> HIDE DEF x
  <2>5. ReadsItsRow(x, tables)
    BY <1>1, <2>3, <2>4 DEF WorkerFits, ReadsItsRow, Working
  <2>6. JobFits(old.job) /\ (old.snap # {} => old.job.kind = "assign")
    BY <1>1, <2>3 DEF WorkerFits
  <2>7. Claim(x, tables)
    <3>1. CASE old.snap # {}
      BY <2>4, <2>6, <3>1 DEF Claim
    <3>2. CASE old.snap = {}
      <4>1. ~Writes!Refuses(tables, old.job)
        BY <2>2, <3>2
      <4>2. old.job.kind = "updateCounter" =>
              /\ ~Writes!CustomTaken(tables, old.job.cmds) /\ ~Writes!CounterTaken(tables, old.job.cmds, old.job.id)
              /\ ~Writes!AdvancedTaken(tables, old.job.cmds)
        <5> SUFFICES ASSUME old.job.kind = "updateCounter"
                     PROVE  /\ ~Writes!CustomTaken(tables, old.job.cmds)
                            /\ ~Writes!CounterTaken(tables, old.job.cmds, old.job.id)
                            /\ ~Writes!AdvancedTaken(tables, old.job.cmds)
          OBVIOUS
        <5>1. ~Writes!CounterConflict(tables, old.job) /\ old.job.id \in Counters /\ Writes!CollisionFree(tables)
          BY <2>6, <4>1, RefusesFacts DEF JobFits, CommandsInv, Writes!NoCollision
        <5> QED
          BY <2>3, <5>1, KeptWordsAreItsOwn
      <4> QED
        BY <2>4, <4>1, <4>2 DEF Claim
    <3> QED
      BY <3>1, <3>2
  <2>8. WorkerFits(x, tables)
    BY <1>1, <2>3, <2>4, <2>5, <2>7 DEF WorkerFits, Working
  <2> QED
    BY <1>1, <2>1, <2>4, <2>8, KeepsItsLocks DEF old
<1> QED
  BY <1>2, <1>3

-----------------------------------------------------------------------------
(* Rows as they come to be, seen by a request that holds the locks of words *)

\* Nothing is put in the way of whoever answers to the words T.
Recedes(t, u, T) ==
  /\ \A c \in Commands : u.custom[c].trigger \in T =>
       /\ t.custom[c].trigger = u.custom[c].trigger
       /\ u.custom[c].flags \subseteq t.custom[c].flags /\ u.custom[c].users \subseteq t.custom[c].users
  /\ \A k \in Counters : u.counter[k] \cap T \subseteq t.counter[k]
  /\ u.advanced \in T => t.advanced = u.advanced

WordsOf(x) == {word \in Triggers : Writes!TriggerLock(word) \in x.held}

\* The row of a command whose lock x holds: nobody else updates it, and an unassignment waits
\* for a streamer's own write of it.
OwnRowStays(x, t, u) ==
  (x.job.kind \in IdKinds /\ Writes!IdLock(x.job.id) \in x.held) =>
    LET before == t.custom[x.job.id]
        after == u.custom[x.job.id]
    IN  /\ after.trigger = before.trigger /\ after.flags = before.flags /\ after.users \subseteq before.users
        /\ x.pc = "commit" /\ x.job.self # {} /\ x.job.kind # "assign" => after = before

Quiet(x, t, u) == Recedes(t, u, WordsOf(x)) /\ OwnRowStays(x, t, u)

LEMMA RecedingRows ==
  ASSUME NEW t \in Writes!Tables, NEW u \in Writes!Tables, NEW T \in SUBSET Triggers, Recedes(t, u, T)
  PROVE  /\ \A cmds \in SUBSET T :
              /\ Writes!CustomTaken(u, cmds) => Writes!CustomTaken(t, cmds)
              /\ \A but : Writes!CounterTaken(u, cmds, but) => Writes!CounterTaken(t, cmds, but)
              /\ Writes!AdvancedTaken(u, cmds) => Writes!AdvancedTaken(t, cmds)
         /\ \A word \in T : \A c :
              /\ Writes!DiscordTaken(u, c, word) => Writes!DiscordTaken(t, c, word)
              /\ Writes!MultiTaken(u, c, word) => Writes!MultiTaken(t, c, word)
              /\ \A users, more : users \subseteq more /\ Writes!ChannelTaken(u, c, word, users) =>
                   Writes!ChannelTaken(t, c, word, more)
<1>1. \A c \in Commands : u.custom[c].trigger \in T =>
        /\ u.custom[c] # Writes!NoCustom /\ t.custom[c] # Writes!NoCustom
        /\ t.custom[c].trigger = u.custom[c].trigger
        /\ u.custom[c].flags \subseteq t.custom[c].flags /\ u.custom[c].users \subseteq t.custom[c].users
  BY RowFacts DEF Recedes
<1>2. ASSUME NEW cmds \in SUBSET T
      PROVE  /\ Writes!CustomTaken(u, cmds) => Writes!CustomTaken(t, cmds)
             /\ \A but : Writes!CounterTaken(u, cmds, but) => Writes!CounterTaken(t, cmds, but)
             /\ Writes!AdvancedTaken(u, cmds) => Writes!AdvancedTaken(t, cmds)
  <2>1. Writes!CustomTaken(u, cmds) => Writes!CustomTaken(t, cmds)
    BY <1>1 DEF Writes!CustomTaken
  <2>2. \A but : Writes!CounterTaken(u, cmds, but) => Writes!CounterTaken(t, cmds, but)
    BY DEF Writes!CounterTaken, Recedes
  <2>3. Writes!AdvancedTaken(u, cmds) => Writes!AdvancedTaken(t, cmds)
    BY DEF Writes!AdvancedTaken, Recedes
  <2> QED
    BY <2>1, <2>2, <2>3
<1>3. ASSUME NEW word \in T, NEW c, NEW r \in Writes!Rivals(u, c, word)
      PROVE  \E q \in Writes!Rivals(t, c, word) : r.flags \subseteq q.flags /\ r.users \subseteq q.users
  <2>1. PICK d \in Commands \ {c} : u.custom[d].trigger = word /\ r = u.custom[d]
    BY <1>3 DEF Writes!Rivals
  <2>2. t.custom[d] \in Writes!Rivals(t, c, word)
    BY <1>1, <2>1 DEF Writes!Rivals
  <2> QED
    BY <1>1, <2>1, <2>2
<1>4. ASSUME NEW word \in T, NEW c
      PROVE  /\ Writes!DiscordTaken(u, c, word) => Writes!DiscordTaken(t, c, word)
             /\ Writes!MultiTaken(u, c, word) => Writes!MultiTaken(t, c, word)
             /\ \A users, more : users \subseteq more /\ Writes!ChannelTaken(u, c, word, users) =>
                  Writes!ChannelTaken(t, c, word, more)
  <2>1. Writes!DiscordTaken(u, c, word) => Writes!DiscordTaken(t, c, word)
    BY <1>3 DEF Writes!DiscordTaken
  <2>2. Writes!MultiTaken(u, c, word) => Writes!MultiTaken(t, c, word)
    <3> SUFFICES ASSUME NEW r \in Writes!Rivals(u, c, word), "multi" \in r.flags \/ r.users \cap Eligible # {}
                 PROVE  Writes!MultiTaken(t, c, word)
      BY DEF Writes!MultiTaken
    <3>1. PICK q \in Writes!Rivals(t, c, word) : r.flags \subseteq q.flags /\ r.users \subseteq q.users
      BY <1>3
    <3>2. "multi" \in q.flags \/ q.users \cap Eligible # {}
      BY <3>1
    <3> QED
      BY <3>1, <3>2 DEF Writes!MultiTaken
  <2>3. ASSUME NEW users, NEW more, users \subseteq more, Writes!ChannelTaken(u, c, word, users)
        PROVE  Writes!ChannelTaken(t, c, word, more)
    <3>1. PICK r \in Writes!Rivals(u, c, word) :
            users \cap Eligible # {} /\ ("multi" \in r.flags \/ r.users \cap users \cap Eligible # {})
      BY <2>3 DEF Writes!ChannelTaken
    <3>2. PICK q \in Writes!Rivals(t, c, word) : r.flags \subseteq q.flags /\ r.users \subseteq q.users
      BY <1>3
    <3>3. more \cap Eligible # {} /\ ("multi" \in q.flags \/ q.users \cap more \cap Eligible # {})
      BY <2>3, <3>1, <3>2
    <3> QED
      BY <3>2, <3>3 DEF Writes!ChannelTaken
  <2> QED
    BY <2>1, <2>2, <2>3
<1> QED
  BY <1>2, <1>4

\* The one word of a custom command's job.
LEMMA AnyTriggerFacts ==
  ASSUME NEW j, JobFits(j), j.kind \in {"add", "update"} \/ (j.kind = "saveAdvanced" /\ j.cmds # {})
  PROVE  Writes!AnyTrigger(j) \in Triggers /\ j.cmds = {Writes!AnyTrigger(j)}
BY DEF JobFits, Writes!AnyTrigger

LEMMA ConflictRecedes ==
  ASSUME NEW t \in Writes!Tables, NEW u \in Writes!Tables, NEW T \in SUBSET Triggers, Recedes(t, u, T),
         NEW j, JobFits(j), j.kind \in {"add", "update"}, j.cmds \subseteq T, NEW c,
         c = Writes!NoId \/ u.custom[c].users \subseteq t.custom[c].users,
         Writes!CustomConflict(u, j, c)
  PROVE  Writes!CustomConflict(t, j, c)
<1> DEFINE word == Writes!AnyTrigger(j)
           before == IF c = Writes!NoId THEN {} ELSE t.custom[c].users
           after == IF c = Writes!NoId THEN {} ELSE u.custom[c].users
<1>1. word \in T /\ j.cmds \in SUBSET T
  BY AnyTriggerFacts
<1>2. after \subseteq before
  OBVIOUS
<1>3. \/ Writes!CounterTaken(u, j.cmds, Writes!NoId)
      \/ Writes!AdvancedTaken(u, j.cmds)
      \/ "discord" \in j.flags /\ Writes!DiscordTaken(u, c, word)
      \/ "multi" \in j.flags /\ Writes!MultiTaken(u, c, word)
      \/ "multi" \notin j.flags /\ Writes!ChannelTaken(u, c, word, after)
  BY DEF Writes!CustomConflict
<1> HIDE DEF word, before, after
<1>4. \/ Writes!CounterTaken(t, j.cmds, Writes!NoId)
      \/ Writes!AdvancedTaken(t, j.cmds)
      \/ "discord" \in j.flags /\ Writes!DiscordTaken(t, c, word)
      \/ "multi" \in j.flags /\ Writes!MultiTaken(t, c, word)
      \/ "multi" \notin j.flags /\ Writes!ChannelTaken(t, c, word, before)
  BY <1>1, <1>2, <1>3, RecedingRows
<1> QED
  BY <1>4 DEF Writes!CustomConflict, word, before

\* What the checks found still stands when only others have written.
LEMMA QuietKeepsClaim ==
  ASSUME NEW t \in Writes!Tables, NEW u \in Writes!Tables, NEW x, WorkerFits(x, t), x.pc = "commit", Quiet(x, t, u)
  PROVE  Claim(x, u)
<1> DEFINE j == x.job
           T == WordsOf(x)
           before == t.custom[j.id]
           after == u.custom[j.id]
<1>1. /\ JobFits(j) /\ Claim(x, t) /\ ReadsItsRow(x, t)
      /\ T \in SUBSET Triggers /\ Recedes(t, u, T)
  BY DEF WorkerFits, Quiet, WordsOf
<1>2. /\ j.kind \in IdKinds => j.id \in Commands /\ Writes!IdLock(j.id) \in x.held
      /\ j.kind \in WordKinds => j.cmds \in SUBSET T
  <2>1. x.need = <<>> /\ x.pc \in Working
    BY DEF WorkerFits, Working
  <2> QED
    BY <2>1, AllAcquired DEF WordsOf
<1>3. j.kind \in IdKinds =>
        /\ after.trigger = before.trigger /\ after.flags = before.flags /\ after.users \subseteq before.users
        /\ j.self # {} /\ j.kind # "assign" => after = before
        /\ after # Writes!NoCustom <=> before # Writes!NoCustom
  <2>1. j.kind \in IdKinds =>
        /\ after.trigger = before.trigger /\ after.flags = before.flags /\ after.users \subseteq before.users
        /\ j.self # {} /\ j.kind # "assign" => after = before
    BY <1>2 DEF Quiet, OwnRowStays
  <2> QED
    BY <1>2, <2>1, RowFacts
<1> HIDE DEF T
<1>4. \A cmds \in SUBSET T :
        /\ Writes!CustomTaken(u, cmds) => Writes!CustomTaken(t, cmds)
        /\ \A but : Writes!CounterTaken(u, cmds, but) => Writes!CounterTaken(t, cmds, but)
        /\ Writes!AdvancedTaken(u, cmds) => Writes!AdvancedTaken(t, cmds)
  BY <1>1, RecedingRows
<1>5. CASE j.kind = "add"
  <2>1. ~Writes!CustomConflict(t, j, Writes!NoId)
    BY <1>1, <1>5, RefusesFacts DEF Claim
  <2>2. ~Writes!CustomConflict(u, j, Writes!NoId)
    BY <1>1, <1>2, <1>5, <2>1, ConflictRecedes DEF WordKinds
  <2> QED
    BY <1>5, <2>2, RefusesFacts DEF Claim
<1>6. CASE j.kind = "update"
  <2>1. ~Writes!CustomConflict(t, j, j.id) /\ before # Writes!NoCustom /\ Writes!Manageable(before, j.self)
    BY <1>1, <1>6, RefusesFacts DEF Claim
  <2>2. after # Writes!NoCustom /\ after.users \subseteq before.users /\ (j.self # {} => after = before)
    BY <1>3, <1>6, <2>1 DEF IdKinds
  <2>3. Writes!Manageable(after, j.self)
    BY <2>1, <2>2 DEF Writes!Manageable
  <2>4. ~Writes!CustomConflict(u, j, j.id)
    BY <1>1, <1>2, <1>6, <2>1, <2>2, ConflictRecedes DEF WordKinds
  <2> QED
    BY <1>6, <2>2, <2>3, <2>4, RefusesFacts DEF Claim
<1>7. CASE j.kind \in {"delete", "discard"}
  <2>1. /\ before # Writes!NoCustom
        /\ j.kind = "delete" => Writes!Manageable(before, j.self)
        /\ j.kind = "discard" => Writes!Unclaimed(before, j.self)
    BY <1>1, <1>7, RefusesFacts DEF Claim
  <2>2. after # Writes!NoCustom /\ (j.self # {} => after = before)
    BY <1>3, <1>7, <2>1 DEF IdKinds
  <2>3. /\ j.kind = "delete" => Writes!Manageable(after, j.self)
        /\ j.kind = "discard" => Writes!Unclaimed(after, j.self)
    BY <2>1, <2>2 DEF Writes!Manageable, Writes!Unclaimed
  <2> QED
    BY <1>7, <2>2, <2>3, RefusesFacts DEF Claim
<1>8. CASE j.kind \in {"addCounter", "saveAdvanced"}
  <2>1. /\ ~Writes!CustomTaken(t, j.cmds) /\ ~Writes!CounterTaken(t, j.cmds, Writes!NoId)
        /\ j.kind = "addCounter" => ~Writes!AdvancedTaken(t, j.cmds)
    BY <1>1, <1>8, RefusesFacts DEF Claim
  <2>2. j.cmds \in SUBSET T
    BY <1>2, <1>8 DEF WordKinds
  <2>3. /\ ~Writes!CustomTaken(u, j.cmds) /\ ~Writes!CounterTaken(u, j.cmds, Writes!NoId)
        /\ j.kind = "addCounter" => ~Writes!AdvancedTaken(u, j.cmds)
    BY <1>4, <2>1, <2>2
  <2> QED
    BY <1>8, <2>3, RefusesFacts DEF Claim
<1>9. CASE j.kind = "updateCounter"
  <2>1. j.cmds \in SUBSET T
    BY <1>2, <1>9 DEF WordKinds
  <2>2. /\ ~Writes!CustomTaken(u, j.cmds) /\ ~Writes!CounterTaken(u, j.cmds, j.id)
        /\ ~Writes!AdvancedTaken(u, j.cmds)
    BY <1>1, <1>4, <1>9, <2>1 DEF Claim
  <2> QED
    BY <1>9, <2>2 DEF Claim
<1>10. CASE j.kind = "assign"
  <2> SUFFICES ASSUME x.snap = {} PROVE ~Writes!Refuses(u, j)
    BY <1>10 DEF Claim
  <2>1. ~Writes!ChannelTaken(t, j.id, before.trigger, j.users)
    BY <1>1, <1>10, RefusesFacts DEF Claim
  <2>2. after.trigger = before.trigger
    BY <1>3, <1>10 DEF IdKinds
  <2>3. before.trigger \in T
    <3>1. before # Writes!NoCustom /\ Writes!TriggerLock(before.trigger) \in x.held \cup Elements(x.need)
      BY <1>1, <1>10 DEF ReadsItsRow, Working
    <3>2. x.need = <<>> /\ x.pc \in Working
      BY DEF WorkerFits, Working
    <3>3. Elements(x.need) = {}
      BY <3>2, AllAcquired
    <3> QED
      BY <1>2, <1>10, <3>1, <3>3, RowFacts DEF IdKinds, T, WordsOf
  <2>4. ~Writes!ChannelTaken(u, j.id, after.trigger, j.users)
    <3> HIDE DEF j, before, after
    <3>1. \A users, more : users \subseteq more /\ Writes!ChannelTaken(u, j.id, before.trigger, users) =>
            Writes!ChannelTaken(t, j.id, before.trigger, more)
      BY <1>1, <2>3, RecedingRows
    <3>2. Writes!ChannelTaken(u, j.id, before.trigger, j.users) => Writes!ChannelTaken(t, j.id, before.trigger, j.users)
      BY <3>1
    <3> QED
      BY <2>1, <2>2, <3>2
  <2> QED
    BY <1>10, <2>4, RefusesFacts
<1>11. j.kind \in Writes!Kinds
  BY <1>1 DEF JobFits, Writes!Jobs
<1>12. CASE j.kind \in {"none", "removeCounter"}
  BY <1>12 DEF Claim
<1> QED
  BY <1>5, <1>6, <1>7, <1>8, <1>9, <1>10, <1>11, <1>12 DEF Writes!Kinds

\* So do the locks and the row a request relies on.
LEMMA QuietKeepsFit ==
  ASSUME NEW t \in Writes!Tables, NEW u \in Writes!Tables, NEW x, WorkerFits(x, t), Quiet(x, t, u)
  PROVE  WorkerFits(x, u)
<1>1. ReadsItsRow(x, u)
  <2> SUFFICES ASSUME x.job.kind = "assign", x.pc \in Working PROVE ReadsItsRow(x, u)
    BY DEF ReadsItsRow
  <2> DEFINE before == t.custom[x.job.id]
             after == u.custom[x.job.id]
  <2>1. x.job.id \in Commands /\ ReadsItsRow(x, t)
    BY DEF WorkerFits, JobFits, IdKinds, Working
  <2>2. Writes!IdLock(x.job.id) \in x.held =>
          after.trigger = before.trigger /\ (after # Writes!NoCustom <=> before # Writes!NoCustom)
    <3>1. Writes!IdLock(x.job.id) \in x.held => after.trigger = before.trigger
      BY DEF Quiet, OwnRowStays, IdKinds
    <3> QED
      BY <2>1, <3>1, RowFacts
  <2>3. /\ \A word \in Triggers : Writes!TriggerLock(word) \in x.held \cup Elements(x.need) =>
             Writes!IdLock(x.job.id) \in x.held /\ before # Writes!NoCustom /\ word = before.trigger
        /\ x.pc \in {"read", "commit"} =>
             /\ Writes!IdLock(x.job.id) \in x.held /\ before # Writes!NoCustom
             /\ Writes!TriggerLock(before.trigger) \in x.held \cup Elements(x.need)
    BY <2>1 DEF ReadsItsRow
  <2> HIDE DEF before, after
  <2>4. /\ \A word \in Triggers : Writes!TriggerLock(word) \in x.held \cup Elements(x.need) =>
             Writes!IdLock(x.job.id) \in x.held /\ after # Writes!NoCustom /\ word = after.trigger
        /\ x.pc \in {"read", "commit"} =>
             /\ Writes!IdLock(x.job.id) \in x.held /\ after # Writes!NoCustom
             /\ Writes!TriggerLock(after.trigger) \in x.held \cup Elements(x.need)
    BY <2>2, <2>3
  <2> QED
    BY <2>4 DEF ReadsItsRow, after
<1>2. x.pc = "commit" => Claim(x, u)
  BY QuietKeepsClaim
<1> QED
  BY <1>1, <1>2 DEF WorkerFits

\* A custom command's row is written: what the others rely on stays, if it is nothing of theirs.
LEMMA RowIsQuiet ==
  ASSUME NEW t \in Writes!Tables, NEW c \in Commands, NEW r \in Writes!CustomRows \cup {Writes!NoCustom},
         NEW x, WorkerFits(x, t),
         r.trigger \in WordsOf(x) => /\ r.trigger = t.custom[c].trigger
                                     /\ r.flags \subseteq t.custom[c].flags /\ r.users \subseteq t.custom[c].users,
         x.job.kind \in IdKinds /\ Writes!IdLock(x.job.id) \in x.held /\ x.job.id = c =>
           /\ r.trigger = t.custom[c].trigger /\ r.flags = t.custom[c].flags /\ r.users \subseteq t.custom[c].users
           /\ x.pc = "commit" /\ x.job.self # {} /\ x.job.kind # "assign" => r = t.custom[c]
  PROVE  LET u == [t EXCEPT !.custom[c] = r] IN u \in Writes!Tables /\ Quiet(x, t, u)
<1> DEFINE u == [t EXCEPT !.custom[c] = r]
<1>1. /\ u \in Writes!Tables /\ u.counter = t.counter /\ u.advanced = t.advanced /\ u.custom[c] = r
      /\ \A d \in Commands \ {c} : u.custom[d] = t.custom[d]
  BY DEF Writes!Tables
<1> HIDE DEF u
<1>2. Recedes(t, u, WordsOf(x))
  BY <1>1 DEF Recedes
<1>3. OwnRowStays(x, t, u)
  <2> SUFFICES ASSUME x.job.kind \in IdKinds, Writes!IdLock(x.job.id) \in x.held PROVE OwnRowStays(x, t, u)
    BY DEF OwnRowStays
  <2>1. Writes!IdLock(x.job.id) \in Writes!Locks /\ x.held \subseteq Writes!Locks
    BY DEF WorkerFits, Writes!WorkerStates
  <2>2. x.job.id \in Commands
    BY <2>1 DEF Writes!Locks, Writes!IdLock, Writes!TriggerLock
  <2> QED
    BY <1>1, <2>2 DEF OwnRowStays
<1> QED
  BY <1>1, <1>2, <1>3 DEF Quiet, u

LEMMA CounterIsQuiet ==
  ASSUME NEW t \in Writes!Tables, NEW k \in Counters, NEW cmds \in Writes!CounterRows \cup {Writes!NoCounter},
         NEW x, cmds \cap WordsOf(x) = {}
  PROVE  LET u == [t EXCEPT !.counter[k] = cmds] IN u \in Writes!Tables /\ Quiet(x, t, u)
<1> DEFINE u == [t EXCEPT !.counter[k] = cmds]
<1>1. /\ u \in Writes!Tables /\ u.custom = t.custom /\ u.advanced = t.advanced /\ u.counter[k] = cmds
      /\ \A n \in Counters \ {k} : u.counter[n] = t.counter[n]
  BY DEF Writes!Tables
<1> HIDE DEF u
<1>2. Recedes(t, u, WordsOf(x)) /\ OwnRowStays(x, t, u)
  BY <1>1 DEF Recedes, OwnRowStays
<1> QED
  BY <1>1, <1>2 DEF Quiet, u

LEMMA AdvancedIsQuiet ==
  ASSUME NEW t \in Writes!Tables, NEW word \in Triggers \cup {Writes!NoTrigger}, NEW x, word \notin WordsOf(x)
  PROVE  LET u == [t EXCEPT !.advanced = word] IN u \in Writes!Tables /\ Quiet(x, t, u)
<1> DEFINE u == [t EXCEPT !.advanced = word]
<1>1. u \in Writes!Tables /\ u.custom = t.custom /\ u.counter = t.counter /\ u.advanced = word
  BY DEF Writes!Tables
<1> HIDE DEF u
<1>2. Recedes(t, u, WordsOf(x)) /\ OwnRowStays(x, t, u)
  BY <1>1 DEF Recedes, OwnRowStays
<1> QED
  BY <1>1, <1>2 DEF Quiet, u

LEMMA AnswersBothWays == \A r, q : Writes!BothAnswer(r, q) <=> Writes!BothAnswer(q, r)
BY DEF Writes!BothAnswer

\* A row that is in nobody's way joins the others.
LEMMA RowJoins ==
  ASSUME tables \in Writes!Tables, Writes!NoCollision, NEW c \in Commands,
         NEW r \in Writes!CustomRows \cup {Writes!NoCustom},
         tables' = [tables EXCEPT !.custom[c] = r], clashed \subseteq clashed',
         r # Writes!NoCustom =>
           /\ ~Writes!CounterTaken(tables, {r.trigger}, Writes!NoId) /\ ~Writes!AdvancedTaken(tables, {r.trigger})
           /\ c \notin clashed' =>
                \A d \in Commands \ ({c} \cup clashed') :
                  tables.custom[d].trigger = r.trigger => ~Writes!BothAnswer(r, tables.custom[d])
  PROVE  Writes!NoCollision'
<1> DEFINE t == tables
           u == tables'
<1>1. /\ u \in Writes!Tables /\ u.counter = t.counter /\ u.advanced = t.advanced /\ u.custom[c] = r
      /\ \A d \in Commands \ {c} : u.custom[d] = t.custom[d]
  BY DEF Writes!Tables
<1>2. /\ \A d \in Commands : t.custom[d] # Writes!NoCustom =>
           /\ ~Writes!CounterTaken(t, {t.custom[d].trigger}, Writes!NoId)
           /\ ~Writes!AdvancedTaken(t, {t.custom[d].trigger})
      /\ \A d, e \in Commands \ clashed :
           (d # e /\ t.custom[d] # Writes!NoCustom /\ t.custom[d].trigger = t.custom[e].trigger) =>
             ~Writes!BothAnswer(t.custom[d], t.custom[e])
      /\ \A k \in Counters : ~Writes!CounterTaken(t, t.counter[k], k) /\ ~Writes!AdvancedTaken(t, t.counter[k])
  BY DEF Writes!NoCollision, Writes!CollisionFree
<1>3. /\ \A cmds, but : Writes!CounterTaken(u, cmds, but) <=> Writes!CounterTaken(t, cmds, but)
      /\ \A cmds : Writes!AdvancedTaken(u, cmds) <=> Writes!AdvancedTaken(t, cmds)
  BY <1>1 DEF Writes!CounterTaken, Writes!AdvancedTaken
<1>4. \A d \in Commands : u.custom[d] # Writes!NoCustom <=> u.custom[d].trigger \in Triggers
  BY <1>1, RowFacts
<1> HIDE DEF u, t
<1>5. \A d \in Commands : u.custom[d] # Writes!NoCustom =>
        /\ ~Writes!CounterTaken(u, {u.custom[d].trigger}, Writes!NoId)
        /\ ~Writes!AdvancedTaken(u, {u.custom[d].trigger})
  <2> SUFFICES ASSUME NEW d \in Commands, u.custom[d] # Writes!NoCustom
               PROVE  /\ ~Writes!CounterTaken(u, {u.custom[d].trigger}, Writes!NoId)
                      /\ ~Writes!AdvancedTaken(u, {u.custom[d].trigger})
    OBVIOUS
  <2>1. CASE d = c
    BY <1>1, <1>3, <2>1 DEF t
  <2>2. CASE d # c
    BY <1>1, <1>2, <1>3, <2>2
  <2> QED
    BY <2>1, <2>2
<1>6. \A d, e \in Commands \ clashed' :
        (d # e /\ u.custom[d] # Writes!NoCustom /\ u.custom[d].trigger = u.custom[e].trigger) =>
          ~Writes!BothAnswer(u.custom[d], u.custom[e])
  <2> SUFFICES ASSUME NEW d \in Commands \ clashed', NEW e \in Commands \ clashed',
                      d # e, u.custom[d] # Writes!NoCustom, u.custom[d].trigger = u.custom[e].trigger
               PROVE  ~Writes!BothAnswer(u.custom[d], u.custom[e])
    OBVIOUS
  <2>1. u.custom[e] # Writes!NoCustom
    BY <1>4
  <2>2. CASE d = c
    <3>1. e # c /\ u.custom[e] = t.custom[e] /\ u.custom[d] = r /\ t.custom[e].trigger = r.trigger /\ r # Writes!NoCustom
      BY <1>1, <2>2
    <3> QED
      BY <2>2, <3>1 DEF t
  <2>3. CASE e = c
    <3>1. d # c /\ u.custom[d] = t.custom[d] /\ u.custom[e] = r /\ t.custom[d].trigger = r.trigger /\ r # Writes!NoCustom
      BY <1>1, <2>1, <2>3
    <3>2. ~Writes!BothAnswer(r, t.custom[d])
      BY <2>3, <3>1 DEF t
    <3> QED
      BY <3>1, <3>2, AnswersBothWays
  <2>4. CASE d # c /\ e # c
    <3>1. d \in Commands \ clashed /\ e \in Commands \ clashed /\ u.custom[d] = t.custom[d] /\ u.custom[e] = t.custom[e]
      BY <1>1, <2>4
    <3> QED
      BY <1>2, <3>1
  <2> QED
    BY <2>2, <2>3, <2>4
<1>7. \A k \in Counters : ~Writes!CounterTaken(u, u.counter[k], k) /\ ~Writes!AdvancedTaken(u, u.counter[k])
  BY <1>1, <1>2, <1>3
<1> QED
  BY <1>5, <1>6, <1>7 DEF Writes!NoCollision, Writes!CollisionFree, u

LEMMA CounterJoins ==
  ASSUME tables \in Writes!Tables, Writes!NoCollision, NEW k \in Counters,
         NEW cmds \in Writes!CounterRows \cup {Writes!NoCounter},
         tables' = [tables EXCEPT !.counter[k] = cmds], clashed' = clashed,
         ~Writes!CustomTaken(tables, cmds), ~Writes!CounterTaken(tables, cmds, k), ~Writes!AdvancedTaken(tables, cmds)
  PROVE  Writes!NoCollision'
<1> DEFINE t == tables
           u == tables'
<1>1. /\ u.custom = t.custom /\ u.advanced = t.advanced /\ u.counter[k] = cmds
      /\ \A n \in Counters \ {k} : u.counter[n] = t.counter[n]
  BY DEF Writes!Tables
<1>2. /\ \A d \in Commands : t.custom[d] # Writes!NoCustom =>
           /\ ~Writes!CounterTaken(t, {t.custom[d].trigger}, Writes!NoId)
           /\ ~Writes!AdvancedTaken(t, {t.custom[d].trigger})
      /\ \A d, e \in Commands \ clashed :
           (d # e /\ t.custom[d] # Writes!NoCustom /\ t.custom[d].trigger = t.custom[e].trigger) =>
             ~Writes!BothAnswer(t.custom[d], t.custom[e])
      /\ \A n \in Counters : ~Writes!CounterTaken(t, t.counter[n], n) /\ ~Writes!AdvancedTaken(t, t.counter[n])
  BY DEF Writes!NoCollision, Writes!CollisionFree
<1>3. ~Writes!CustomTaken(t, cmds) /\ ~Writes!CounterTaken(t, cmds, k) /\ ~Writes!AdvancedTaken(t, cmds)
  OBVIOUS
<1> HIDE DEF u, t
<1>4. \A s : Writes!AdvancedTaken(u, s) <=> Writes!AdvancedTaken(t, s)
  BY <1>1 DEF Writes!AdvancedTaken
<1>5. \A d \in Commands : u.custom[d] # Writes!NoCustom =>
        ~Writes!CounterTaken(u, {u.custom[d].trigger}, Writes!NoId)
  <2> SUFFICES ASSUME NEW d \in Commands, t.custom[d] # Writes!NoCustom, NEW n \in Counters \ {Writes!NoId}
               PROVE  t.custom[d].trigger \notin u.counter[n]
    BY <1>1 DEF Writes!CounterTaken
  <2>1. t.custom[d].trigger \notin t.counter[n]
    BY <1>2 DEF Writes!CounterTaken
  <2>2. t.custom[d].trigger \notin cmds
    BY <1>3 DEF Writes!CustomTaken
  <2> QED
    BY <1>1, <2>1, <2>2
<1>6. \A n \in Counters : ~Writes!CounterTaken(u, u.counter[n], n)
  <2> SUFFICES ASSUME NEW n \in Counters, NEW m \in Counters, m # n PROVE u.counter[m] \cap u.counter[n] = {}
    BY DEF Writes!CounterTaken
  <2>1. \A i, j \in Counters : i # j => t.counter[i] \cap t.counter[j] = {}
    BY <1>2 DEF Writes!CounterTaken
  <2>2. \A i \in Counters \ {k} : t.counter[i] \cap cmds = {}
    BY <1>3 DEF Writes!CounterTaken
  <2> QED
    BY <1>1, <2>1, <2>2
<1>7. \A n \in Counters : ~Writes!AdvancedTaken(u, u.counter[n])
  BY <1>1, <1>2, <1>3, <1>4
<1> QED
  BY <1>1, <1>2, <1>4, <1>5, <1>6, <1>7 DEF Writes!NoCollision, Writes!CollisionFree, u

LEMMA AdvancedJoins ==
  ASSUME tables \in Writes!Tables, Writes!NoCollision, NEW word \in Triggers \cup {Writes!NoTrigger},
         tables' = [tables EXCEPT !.advanced = word], clashed' = clashed,
         word \in Triggers => ~Writes!CustomTaken(tables, {word}) /\ ~Writes!CounterTaken(tables, {word}, Writes!NoId)
  PROVE  Writes!NoCollision'
<1> DEFINE t == tables
           u == tables'
<1>1. u.custom = t.custom /\ u.counter = t.counter /\ u.advanced = word
  BY DEF Writes!Tables
<1>2. /\ \A d \in Commands : t.custom[d] # Writes!NoCustom =>
           /\ ~Writes!CounterTaken(t, {t.custom[d].trigger}, Writes!NoId)
           /\ ~Writes!AdvancedTaken(t, {t.custom[d].trigger})
      /\ \A d, e \in Commands \ clashed :
           (d # e /\ t.custom[d] # Writes!NoCustom /\ t.custom[d].trigger = t.custom[e].trigger) =>
             ~Writes!BothAnswer(t.custom[d], t.custom[e])
      /\ \A n \in Counters : ~Writes!CounterTaken(t, t.counter[n], n) /\ ~Writes!AdvancedTaken(t, t.counter[n])
  BY DEF Writes!NoCollision, Writes!CollisionFree
<1>3. \A cmds, but : Writes!CounterTaken(u, cmds, but) <=> Writes!CounterTaken(t, cmds, but)
  BY <1>1 DEF Writes!CounterTaken
<1>4. word \in Triggers => ~Writes!CustomTaken(t, {word}) /\ ~Writes!CounterTaken(t, {word}, Writes!NoId)
  OBVIOUS
<1>5. /\ \A d \in Commands : t.custom[d] # Writes!NoCustom => t.custom[d].trigger \in Triggers
      /\ \A n \in Counters : t.counter[n] \subseteq Triggers /\ n # Writes!NoId
  BY RowFacts DEF Writes!NoId
<1> HIDE DEF u, t
<1>6. \A d \in Commands : t.custom[d] # Writes!NoCustom => t.custom[d].trigger # word
  BY <1>4, <1>5 DEF Writes!CustomTaken
<1>7. \A n \in Counters : word \notin t.counter[n]
  BY <1>4, <1>5 DEF Writes!CounterTaken
<1>8. /\ \A d \in Commands : u.custom[d] # Writes!NoCustom => ~Writes!AdvancedTaken(u, {u.custom[d].trigger})
      /\ \A n \in Counters : ~Writes!AdvancedTaken(u, u.counter[n])
  BY <1>1, <1>6, <1>7 DEF Writes!AdvancedTaken
<1>9. /\ \A d \in Commands : u.custom[d] # Writes!NoCustom =>
             ~Writes!CounterTaken(u, {u.custom[d].trigger}, Writes!NoId)
      /\ \A n \in Counters : ~Writes!CounterTaken(u, u.counter[n], n)
  BY <1>1, <1>2, <1>3
<1> QED
  BY <1>1, <1>2, <1>8, <1>9 DEF Writes!NoCollision, Writes!CollisionFree, u

\* What a request has at its commit: its locks, which nobody else has, and its checks.
LEMMA CommitFacts ==
  ASSUME CommandsInv, NEW w \in Workers, worker[w].pc = "commit"
  PROVE  LET j == worker[w].job IN
         /\ JobFits(j) /\ j.kind # "none" /\ Claim(worker[w], tables) /\ ReadsItsRow(worker[w], tables)
         /\ WorkerFits(worker[w], tables) /\ worker[w].result = "none"
         /\ j.kind \in IdKinds => /\ j.id \in Commands
                                  /\ \A v \in Workers \ {w} : Writes!IdLock(j.id) \notin worker[v].held
         /\ j.kind \in WordKinds => \A v \in Workers \ {w} : j.cmds \cap WordsOf(worker[v]) = {}
         /\ j.kind = "assign" =>
              /\ tables.custom[j.id] # Writes!NoCustom
              /\ \A v \in Workers \ {w} : tables.custom[j.id].trigger \notin WordsOf(worker[v])
<1> DEFINE x == worker[w]
           j == x.job
<1>1. WorkerFits(x, tables) /\ x.pc = "commit" /\ x.need = <<>> /\ x.pc \in Working
  BY WorkerFacts DEF WorkerFits, Working
<1>2. \A v \in Workers \ {w} : x.held \cap worker[v].held = {}
  BY DEF CommandsInv
<1> HIDE DEF x
<1>3. /\ JobFits(j) /\ j.kind # "none" /\ x.result = "none" /\ Elements(x.need) = {}
      /\ j.kind \in IdKinds => j.id \in Commands /\ Writes!IdLock(j.id) \in x.held
      /\ j.kind \in WordKinds => \A word \in j.cmds : word \in Triggers /\ Writes!TriggerLock(word) \in x.held
  BY <1>1, AllAcquired
<1>4. Claim(x, tables) /\ ReadsItsRow(x, tables)
  BY <1>1 DEF WorkerFits
<1>5. j.kind = "assign" =>
        /\ tables.custom[j.id] # Writes!NoCustom
        /\ Writes!TriggerLock(tables.custom[j.id].trigger) \in x.held
  BY <1>1, <1>3, <1>4 DEF ReadsItsRow
<1>6. \A v \in Workers \ {w} : \A word : Writes!TriggerLock(word) \in x.held => word \notin WordsOf(worker[v])
  BY <1>2 DEF WordsOf
<1> HIDE DEF j
<1>7. j.kind \in IdKinds => \A v \in Workers \ {w} : Writes!IdLock(j.id) \notin worker[v].held
  BY <1>2, <1>3
<1>8. j.kind \in WordKinds => \A v \in Workers \ {w} : j.cmds \cap WordsOf(worker[v]) = {}
  BY <1>3, <1>6
<1>9. j.kind = "assign" => \A v \in Workers \ {w} : tables.custom[j.id].trigger \notin WordsOf(worker[v])
  BY <1>5, <1>6
<1> QED
  BY <1>1, <1>3, <1>4, <1>5, <1>7, <1>8, <1>9 DEF x, j

\* A commit, from which the request goes on to release its locks.
LEMMA DoneKeepsInv ==
  ASSUME CommandsInv, NEW w \in Workers, worker[w].pc = "commit", NEW id, Writes!Done(w, id),
         IF worker[w].job.kind = "add" THEN id \in Commands
         ELSE IF worker[w].job.kind = "addCounter" THEN id \in Counters ELSE id = worker[w].job.id,
         \A v \in Workers \ {w} : Quiet(worker[v], tables, tables'),
         tables' \in Writes!Tables, clashed' \subseteq Commands, Writes!NoCollision'
  PROVE  CommandsInv'
<1> DEFINE old == worker[w]
           x == [old EXCEPT !.pc = "release", !.result = "done", !.snap = {}, !.job.id = id]
<1>1. worker' = [worker EXCEPT ![w] = x]
  <2>1. worker' = [worker EXCEPT ![w].pc = "release", ![w].result = "done", ![w].snap = {}, ![w].job.id = id]
    BY DEF Writes!Done
  <2>2. worker \in [Workers -> Writes!WorkerStates]
    BY DEF CommandsInv
  <2>3. worker' = [v \in Workers |-> worker'[v]] /\ \A v \in Workers \ {w} : worker'[v] = worker[v]
    BY <2>1, <2>2
  <2>4. worker'[w] = x
    BY <2>1, <2>2
  <2> HIDE DEF x
  <2> QED
    BY <2>2, <2>3, <2>4
<1>2. /\ WorkerFits(old, tables) /\ old \in Writes!WorkerStates /\ tables \in Writes!Tables
      /\ JobFits(old.job) /\ old.job.kind # "none" /\ old.need = <<>>
  <2>1. WorkerFits(old, tables) /\ old \in Writes!WorkerStates /\ tables \in Writes!Tables /\ old.pc = "commit"
    BY WorkerFacts
  <2> HIDE DEF old
  <2> QED
    BY <2>1 DEF WorkerFits
<1>3. /\ old.job.kind = "add" => id \in Commands
      /\ old.job.kind = "addCounter" => id \in Counters
      /\ old.job.kind \notin {"add", "addCounter"} => id = old.job.id
  OBVIOUS
<1>4. \A v \in Workers \ {w} : old.held \cap worker[v].held = {}
  BY DEF CommandsInv
<1> HIDE DEF old
<1> DEFINE j == [old.job EXCEPT !.id = id]
<1>5. old.job \in Writes!Jobs /\ id \in Commands \cup Counters \cup {Writes!NoId}
  BY <1>2, <1>3 DEF JobFits, Writes!Jobs
<1>6. /\ j \in Writes!Jobs /\ j.kind = old.job.kind /\ j.id = id /\ j.cmds = old.job.cmds
  BY <1>5 DEF Writes!Jobs
<1>7. /\ x \in Writes!WorkerStates /\ x.held = old.held /\ x.need = old.need /\ x.pc = "release" /\ x.job = j
      /\ x.snap = {} /\ x.result = "done"
  <2> DEFINE y == [old EXCEPT !.pc = "release", !.result = "done", !.snap = {}, !.job = j]
  <2>1. x = y
    BY <1>2 DEF Writes!WorkerStates
  <2> HIDE DEF j
  <2>2. y \in Writes!WorkerStates
    BY <1>2, <1>6 DEF Writes!WorkerStates
  <2>3. /\ y.held = old.held /\ y.need = old.need /\ y.pc = "release" /\ y.job = j
        /\ y.snap = {} /\ y.result = "done"
    BY <1>2 DEF Writes!WorkerStates
  <2> QED
    BY <2>1, <2>2, <2>3
<1> HIDE DEF x, j
<1>8. JobFits(j)
  BY <1>2, <1>3, <1>6 DEF JobFits, IdKinds
<1>9. WorkerFits(x, tables')
  BY <1>2, <1>3, <1>6, <1>7, <1>8 DEF WorkerFits, ReadsItsRow, Working
<1>10. \A v \in Workers \ {w} : WorkerFits(worker[v], tables')
  BY <1>2, WorkerFacts, QuietKeepsFit
<1>11. \A v \in Workers \ {w} : x.held \cap worker[v].held = {}
  BY <1>4, <1>7
<1> QED
  BY <1>1, <1>9, <1>10, <1>11, OneWorkerChanges

\* A custom row that passes the checks of a job answers where none of its rivals does.
LEMMA CheckedRowJoins ==
  ASSUME tables \in Writes!Tables, NEW j, JobFits(j), j.kind \in {"add", "update"}, NEW c \in Commands, NEW r,
         \/ ~Writes!CustomConflict(tables, j, Writes!NoId) /\ r.users = {}
         \/ ~Writes!CustomConflict(tables, j, c) /\ r.users = tables.custom[c].users,
         r.trigger = Writes!AnyTrigger(j), r.flags = j.flags
  PROVE  /\ ~Writes!CounterTaken(tables, {r.trigger}, Writes!NoId) /\ ~Writes!AdvancedTaken(tables, {r.trigger})
         /\ \A d \in Commands \ {c} :
              tables.custom[d].trigger = r.trigger => ~Writes!BothAnswer(r, tables.custom[d])
<1> DEFINE word == Writes!AnyTrigger(j)
<1>1. word \in Triggers /\ j.cmds = {word}
  BY AnyTriggerFacts
<1>2. PICK b \in {Writes!NoId, c} :
        /\ ~Writes!CustomConflict(tables, j, b)
        /\ r.users = IF b = Writes!NoId THEN {} ELSE tables.custom[b].users
  <2>1. c # Writes!NoId
    BY WritesAssumption DEF Writes!NoId
  <2> QED
    BY <2>1
<1>3. /\ ~Writes!CounterTaken(tables, {word}, Writes!NoId) /\ ~Writes!AdvancedTaken(tables, {word})
      /\ "discord" \in j.flags => ~Writes!DiscordTaken(tables, b, word)
      /\ "multi" \in j.flags => ~Writes!MultiTaken(tables, b, word)
      /\ "multi" \notin j.flags => ~Writes!ChannelTaken(tables, b, word, r.users)
  BY <1>1, <1>2 DEF Writes!CustomConflict
<1> HIDE DEF word
<1>4. ASSUME NEW d \in Commands \ {c}, tables.custom[d].trigger = word
      PROVE  ~Writes!BothAnswer(r, tables.custom[d])
  <2> DEFINE q == tables.custom[d]
  <2>1. q # Writes!NoCustom /\ d # Writes!NoId
    BY <1>1, <1>4, RowFacts DEF Writes!NoId
  <2>2. q \in Writes!Rivals(tables, b, word)
    BY <1>2, <1>4, <2>1 DEF Writes!Rivals
  <2> HIDE DEF q
  <2>3. "discord" \in j.flags => "discord" \notin q.flags
    BY <1>3, <2>2 DEF Writes!DiscordTaken
  <2>4. "multi" \in j.flags => "multi" \notin q.flags /\ q.users \cap Eligible = {}
    BY <1>3, <2>2 DEF Writes!MultiTaken
  <2>5. "multi" \notin j.flags /\ r.users \cap Eligible # {} =>
          "multi" \notin q.flags /\ q.users \cap r.users \cap Eligible = {}
    BY <1>3, <2>2 DEF Writes!ChannelTaken
  <2>6. ~Writes!BothAnswer(r, q)
    BY <2>3, <2>4, <2>5 DEF Writes!BothAnswer
  <2> QED
    BY <2>6 DEF q
<1> QED
  BY <1>3, <1>4 DEF word

LEMMA InsertKeepsInv ==
  ASSUME CommandsInv, NEW w \in Workers, Writes!InsertCommand(w)
  PROVE  CommandsInv'
<1> DEFINE j == worker[w].job
           r == [trigger |-> Writes!AnyTrigger(j), flags |-> j.flags, users |-> {}]
<1>1. worker[w].pc = "commit" /\ j.kind = "add" /\ clashed' = clashed
  BY DEF Writes!InsertCommand, Writes!Commits
<1>2. PICK c \in Writes!FreshCommands : tables' = [tables EXCEPT !.custom[c] = r] /\ Writes!Done(w, c)
  BY DEF Writes!InsertCommand
<1>3. /\ c \in Commands /\ tables.custom[c] = Writes!NoCustom
      /\ \A v \in Workers : worker[v].job.kind \in IdKinds => worker[v].job.id # c
  BY DEF Writes!FreshCommands, Writes!Fresh, IdKinds
<1>4. /\ JobFits(j) /\ ~Writes!Refuses(tables, j)
      /\ \A v \in Workers \ {w} : j.cmds \cap WordsOf(worker[v]) = {}
  BY <1>1, CommitFacts DEF Claim, WordKinds
<1>5. /\ Writes!AnyTrigger(j) \in Triggers /\ j.cmds = {Writes!AnyTrigger(j)}
      /\ ~Writes!CustomConflict(tables, j, Writes!NoId)
  BY <1>1, <1>4, AnyTriggerFacts, RefusesFacts
<1>6. tables \in Writes!Tables /\ Writes!NoCollision /\ clashed \subseteq Commands
  BY DEF CommandsInv
<1>7. r \in Writes!CustomRows /\ r.users = {} /\ r.trigger = Writes!AnyTrigger(j) /\ r.flags = j.flags
  BY <1>4, <1>5 DEF Writes!CustomRows, JobFits, Writes!Jobs
<1>8. tables' \in Writes!Tables
  BY <1>2, <1>3, <1>6, <1>7 DEF Writes!Tables
<1> HIDE DEF r
<1>9. \A v \in Workers \ {w} : Quiet(worker[v], tables, tables')
  BY <1>2, <1>3, <1>4, <1>5, <1>6, <1>7, WorkerFacts, RowIsQuiet
<1>10. /\ ~Writes!CounterTaken(tables, {r.trigger}, Writes!NoId) /\ ~Writes!AdvancedTaken(tables, {r.trigger})
       /\ \A d \in Commands \ {c} :
            tables.custom[d].trigger = r.trigger => ~Writes!BothAnswer(r, tables.custom[d])
  BY <1>1, <1>3, <1>4, <1>5, <1>6, <1>7, CheckedRowJoins
<1>11. Writes!NoCollision'
  BY <1>1, <1>2, <1>3, <1>6, <1>7, <1>10, RowJoins
<1> QED
  BY <1>1, <1>2, <1>3, <1>6, <1>8, <1>9, <1>11, DoneKeepsInv

LEMMA UpdateKeepsInv ==
  ASSUME CommandsInv, NEW w \in Workers, Writes!UpdateCommand(w)
  PROVE  CommandsInv'
<1> DEFINE j == worker[w].job
           c == j.id
           row == tables.custom[c]
           r == [row EXCEPT !.trigger = Writes!AnyTrigger(j), !.flags = j.flags]
<1>1. worker[w].pc = "commit" /\ j.kind = "update" /\ clashed' = clashed /\ Writes!Done(w, c)
  BY DEF Writes!UpdateCommand, Writes!Commits
<1>2. tables' = [tables EXCEPT !.custom[c] = r]
  BY DEF Writes!UpdateCommand
<1>3. /\ JobFits(j) /\ ~Writes!Refuses(tables, j) /\ c \in Commands
      /\ \A v \in Workers \ {w} : j.cmds \cap WordsOf(worker[v]) = {} /\ Writes!IdLock(c) \notin worker[v].held
  BY <1>1, CommitFacts DEF Claim, WordKinds, IdKinds
<1>4. /\ Writes!AnyTrigger(j) \in Triggers /\ j.cmds = {Writes!AnyTrigger(j)}
      /\ ~Writes!CustomConflict(tables, j, c) /\ row # Writes!NoCustom
  BY <1>1, <1>3, AnyTriggerFacts, RefusesFacts
<1>5. tables \in Writes!Tables /\ Writes!NoCollision /\ clashed \subseteq Commands
  BY DEF CommandsInv
<1>6. row \in Writes!CustomRows
  BY <1>3, <1>4, <1>5, RowFacts
<1>7. /\ r \in Writes!CustomRows /\ r.users = row.users /\ r.trigger = Writes!AnyTrigger(j) /\ r.flags = j.flags
  <2>1. j.flags \in SUBSET Writes!Flags
    BY <1>3 DEF JobFits, Writes!Jobs
  <2> HIDE DEF row, j
  <2> QED
    BY <1>4, <1>6, <2>1 DEF Writes!CustomRows
<1> HIDE DEF r
<1>8. tables' \in Writes!Tables
  BY <1>2, <1>3, <1>5, <1>7 DEF Writes!Tables
<1>9. \A v \in Workers \ {w} : Quiet(worker[v], tables, tables')
  <2> SUFFICES ASSUME NEW v \in Workers \ {w} PROVE Quiet(worker[v], tables, tables')
    OBVIOUS
  <2>1. r.trigger \notin WordsOf(worker[v])
    BY <1>3, <1>4, <1>7
  <2>2. ~(Writes!IdLock(worker[v].job.id) \in worker[v].held /\ worker[v].job.id = c)
    BY <1>3
  <2>3. WorkerFits(worker[v], tables)
    BY WorkerFacts
  <2> HIDE DEF c
  <2> QED
    BY <1>2, <1>3, <1>5, <1>7, <2>1, <2>2, <2>3, RowIsQuiet
<1>10. /\ ~Writes!CounterTaken(tables, {r.trigger}, Writes!NoId) /\ ~Writes!AdvancedTaken(tables, {r.trigger})
       /\ \A d \in Commands \ {c} :
            tables.custom[d].trigger = r.trigger => ~Writes!BothAnswer(r, tables.custom[d])
  BY <1>1, <1>3, <1>4, <1>5, <1>7, CheckedRowJoins
<1>11. Writes!NoCollision'
  BY <1>1, <1>2, <1>3, <1>5, <1>7, <1>10, RowJoins
<1> QED
  BY <1>1, <1>2, <1>3, <1>5, <1>8, <1>9, <1>11, DoneKeepsInv

LEMMA DeleteKeepsInv ==
  ASSUME CommandsInv, NEW w \in Workers, Writes!deleteCustomCommand(w)
  PROVE  CommandsInv'
<1> DEFINE j == worker[w].job
           c == j.id
           r == Writes!NoCustom
<1>1. worker[w].pc = "commit" /\ j.kind \in {"delete", "discard"} /\ clashed' = clashed /\ Writes!Done(w, c)
  BY DEF Writes!deleteCustomCommand, Writes!Commits
<1>2. tables' = [tables EXCEPT !.custom[c] = r]
  BY DEF Writes!deleteCustomCommand
<1>3. c \in Commands /\ \A v \in Workers \ {w} : Writes!IdLock(c) \notin worker[v].held
  BY <1>1, CommitFacts DEF IdKinds
<1>4. tables \in Writes!Tables /\ Writes!NoCollision /\ clashed \subseteq Commands
  BY DEF CommandsInv
<1>5. r.trigger \notin Triggers
  BY WritesAssumption DEF Writes!NoCustom, Writes!NoTrigger
<1> HIDE DEF r
<1>6. tables' \in Writes!Tables
  BY <1>2, <1>3, <1>4 DEF Writes!Tables, r
<1>7. \A v \in Workers \ {w} : Quiet(worker[v], tables, tables')
  <2> SUFFICES ASSUME NEW v \in Workers \ {w} PROVE Quiet(worker[v], tables, tables')
    OBVIOUS
  <2>1. r.trigger \notin WordsOf(worker[v])
    BY <1>5 DEF WordsOf
  <2>2. ~(Writes!IdLock(worker[v].job.id) \in worker[v].held /\ worker[v].job.id = c)
    BY <1>3
  <2>3. WorkerFits(worker[v], tables) /\ r \in Writes!CustomRows \cup {Writes!NoCustom}
    BY WorkerFacts DEF r
  <2> HIDE DEF c
  <2> QED
    BY <1>2, <1>3, <1>4, <2>1, <2>2, <2>3, RowIsQuiet
<1>8. Writes!NoCollision'
  BY <1>1, <1>2, <1>3, <1>4, RowJoins DEF r
<1> QED
  BY <1>1, <1>2, <1>3, <1>4, <1>6, <1>7, <1>8, DoneKeepsInv

\* An assignment that is not refused, or is remembered as having read the past.
LEMMA AssignmentKeepsInv ==
  ASSUME CommandsInv, NEW w \in Workers, Writes!insertUserCommandAssignments(w)
  PROVE  CommandsInv'
<1> DEFINE j == worker[w].job
           c == j.id
           row == tables.custom[c]
           r == [row EXCEPT !.users = @ \cup j.users]
           refused == worker[w].snap # {} /\ Writes!Refuses(tables, j)
<1>1. worker[w].pc = "commit" /\ j.kind = "assign" /\ Writes!Done(w, c)
  BY DEF Writes!insertUserCommandAssignments, Writes!Commits
<1>2. tables' = [tables EXCEPT !.custom[c] = r]
  BY DEF Writes!insertUserCommandAssignments
<1>3. clashed' = IF refused THEN clashed \cup {c} ELSE clashed
  BY DEF Writes!insertUserCommandAssignments
<1>4. /\ JobFits(j) /\ c \in Commands /\ row # Writes!NoCustom
      /\ worker[w].snap = {} => ~Writes!Refuses(tables, j)
      /\ \A v \in Workers \ {w} : row.trigger \notin WordsOf(worker[v]) /\ Writes!IdLock(c) \notin worker[v].held
  BY <1>1, CommitFacts DEF Claim, IdKinds
<1>5. tables \in Writes!Tables /\ Writes!NoCollision /\ clashed \subseteq Commands
  BY DEF CommandsInv
<1>6. clashed \subseteq clashed' /\ clashed' \subseteq Commands /\ (c \notin clashed' => c \notin clashed /\ ~Writes!Refuses(tables, j))
  BY <1>3, <1>4, <1>5
<1>7. row \in Writes!CustomRows
  BY <1>4, <1>5, RowFacts
<1>8. r \in Writes!CustomRows /\ r.users = row.users \cup j.users /\ r.trigger = row.trigger /\ r.flags = row.flags
  <2>1. j.users \in SUBSET Users
    BY <1>4 DEF JobFits, Writes!Jobs
  <2> HIDE DEF row, j
  <2> QED
    BY <1>7, <2>1 DEF Writes!CustomRows
<1> HIDE DEF r, refused
<1>9. tables' \in Writes!Tables
  BY <1>2, <1>4, <1>5, <1>8 DEF Writes!Tables
<1>10. \A v \in Workers \ {w} : Quiet(worker[v], tables, tables')
  <2> SUFFICES ASSUME NEW v \in Workers \ {w} PROVE Quiet(worker[v], tables, tables')
    OBVIOUS
  <2>1. r.trigger \notin WordsOf(worker[v])
    BY <1>4, <1>8
  <2>2. ~(Writes!IdLock(worker[v].job.id) \in worker[v].held /\ worker[v].job.id = c)
    BY <1>4
  <2>3. WorkerFits(worker[v], tables)
    BY WorkerFacts
  <2> HIDE DEF c, row
  <2> QED
    BY <1>2, <1>4, <1>5, <1>8, <2>1, <2>2, <2>3, RowIsQuiet
<1>11. /\ ~Writes!CounterTaken(tables, {r.trigger}, Writes!NoId) /\ ~Writes!AdvancedTaken(tables, {r.trigger})
  BY <1>4, <1>5, <1>8 DEF Writes!NoCollision, Writes!CollisionFree
<1>12. ASSUME c \notin clashed', NEW d \in Commands \ ({c} \cup clashed'), tables.custom[d].trigger = r.trigger
       PROVE  ~Writes!BothAnswer(r, tables.custom[d])
  <2> DEFINE q == tables.custom[d]
  <2>1. c \in Commands \ clashed /\ d \in Commands \ clashed /\ c # d /\ row.trigger = q.trigger
    BY <1>4, <1>6, <1>8, <1>12
  <2>2. ~Writes!BothAnswer(row, q)
    BY <1>4, <1>5, <2>1 DEF Writes!NoCollision, Writes!CollisionFree
  <2>3. ~Writes!ChannelTaken(tables, c, row.trigger, j.users)
    BY <1>1, <1>6, <1>12, RefusesFacts
  <2>4. q # Writes!NoCustom
    BY <1>4, <1>5, <2>1, RowFacts
  <2>5. q \in Writes!Rivals(tables, c, row.trigger)
    BY <2>1, <2>4 DEF Writes!Rivals
  <2> HIDE DEF q, row, c, j
  <2>6. j.users \cap Eligible # {} => "multi" \notin q.flags /\ q.users \cap j.users \cap Eligible = {}
    BY <2>3, <2>5 DEF Writes!ChannelTaken
  <2>7. ~Writes!BothAnswer(r, q)
    BY <1>8, <2>2, <2>6 DEF Writes!BothAnswer
  <2> QED
    BY <2>7 DEF q
<1>13. Writes!NoCollision'
  <2> HIDE DEF c
  <2> QED
    BY <1>2, <1>4, <1>5, <1>6, <1>8, <1>11, <1>12, RowJoins
<1> QED
  BY <1>1, <1>4, <1>5, <1>6, <1>9, <1>10, <1>13, DoneKeepsInv

LEMMA InsertCounterKeepsInv ==
  ASSUME CommandsInv, NEW w \in Workers, Writes!InsertCounter(w)
  PROVE  CommandsInv'
<1> DEFINE j == worker[w].job
           cmds == j.cmds
<1>1. worker[w].pc = "commit" /\ j.kind = "addCounter" /\ clashed' = clashed
  BY DEF Writes!InsertCounter, Writes!Commits
<1>2. PICK k \in Counters : tables' = [tables EXCEPT !.counter[k] = cmds] /\ Writes!Done(w, k)
  BY DEF Writes!InsertCounter, Writes!FreshCounters, Writes!Fresh
<1>3. /\ JobFits(j) /\ ~Writes!Refuses(tables, j)
      /\ \A v \in Workers \ {w} : cmds \cap WordsOf(worker[v]) = {}
  BY <1>1, CommitFacts DEF Claim, WordKinds
<1>4. /\ ~Writes!CustomTaken(tables, cmds) /\ ~Writes!CounterTaken(tables, cmds, Writes!NoId)
      /\ ~Writes!AdvancedTaken(tables, cmds) /\ cmds \in Writes!CounterRows
  BY <1>1, <1>3, RefusesFacts DEF JobFits
<1>5. tables \in Writes!Tables /\ Writes!NoCollision /\ clashed \subseteq Commands
  BY DEF CommandsInv
<1>6. ~Writes!CounterTaken(tables, cmds, k)
  BY <1>4, WritesAssumption DEF Writes!CounterTaken, Writes!NoId
<1>7. tables' \in Writes!Tables
  BY <1>2, <1>4, <1>5 DEF Writes!Tables
<1> HIDE DEF cmds
<1>8. \A v \in Workers \ {w} : Quiet(worker[v], tables, tables')
  BY <1>2, <1>3, <1>4, <1>5, CounterIsQuiet
<1>9. Writes!NoCollision'
  BY <1>1, <1>2, <1>4, <1>5, <1>6, CounterJoins
<1> QED
  BY <1>1, <1>2, <1>5, <1>7, <1>8, <1>9, DoneKeepsInv

LEMMA NoWordsJoin ==
  /\ \A t, but : ~Writes!CustomTaken(t, {}) /\ ~Writes!CounterTaken(t, {}, but) /\ ~Writes!AdvancedTaken(t, {})
BY DEF Writes!CustomTaken, Writes!CounterTaken, Writes!AdvancedTaken

LEMMA UpdateCounterKeepsInv ==
  ASSUME CommandsInv, NEW w \in Workers, Writes!UpdateCounter(w)
  PROVE  CommandsInv'
<1> DEFINE j == worker[w].job
           cmds == j.cmds
           k == j.id
<1>1. worker[w].pc = "commit" /\ j.kind \in {"updateCounter", "removeCounter"} /\ clashed' = clashed /\ Writes!Done(w, k)
  BY DEF Writes!UpdateCounter, Writes!Commits
<1>2. tables' = [tables EXCEPT !.counter[k] = cmds]
  BY DEF Writes!UpdateCounter
<1>3. /\ JobFits(j) /\ Claim(worker[w], tables)
      /\ j.kind = "updateCounter" => \A v \in Workers \ {w} : cmds \cap WordsOf(worker[v]) = {}
  BY <1>1, CommitFacts DEF WordKinds
<1>4. k \in Counters /\ cmds \in Writes!CounterRows \cup {Writes!NoCounter}
  BY <1>1, <1>3 DEF JobFits, Writes!NoCounter
<1>5. \A v \in Workers \ {w} : cmds \cap WordsOf(worker[v]) = {}
  BY <1>1, <1>3 DEF JobFits
<1>6. ~Writes!CustomTaken(tables, cmds) /\ ~Writes!CounterTaken(tables, cmds, k) /\ ~Writes!AdvancedTaken(tables, cmds)
  <2>1. CASE j.kind = "updateCounter"
    BY <1>3, <2>1 DEF Claim
  <2>2. CASE j.kind = "removeCounter"
    <3>1. cmds = {}
      BY <1>3, <2>2 DEF JobFits
    <3> QED
      BY <3>1, NoWordsJoin
  <2> QED
    BY <1>1, <2>1, <2>2
<1>7. tables \in Writes!Tables /\ Writes!NoCollision /\ clashed \subseteq Commands
  BY DEF CommandsInv
<1>8. tables' \in Writes!Tables
  BY <1>2, <1>4, <1>7 DEF Writes!Tables
<1> HIDE DEF cmds
<1>9. \A v \in Workers \ {w} : Quiet(worker[v], tables, tables')
  BY <1>2, <1>4, <1>5, <1>7, CounterIsQuiet
<1>10. Writes!NoCollision'
  BY <1>1, <1>2, <1>4, <1>6, <1>7, CounterJoins
<1> QED
  BY <1>1, <1>7, <1>8, <1>9, <1>10, DoneKeepsInv

LEMMA SaveAdvancedKeepsInv ==
  ASSUME CommandsInv, NEW w \in Workers, Writes!SaveAdvanced(w)
  PROVE  CommandsInv'
<1> DEFINE j == worker[w].job
           word == IF j.cmds = {} THEN Writes!NoTrigger ELSE Writes!AnyTrigger(j)
<1>1. worker[w].pc = "commit" /\ j.kind = "saveAdvanced" /\ clashed' = clashed /\ Writes!Done(w, j.id)
  BY DEF Writes!SaveAdvanced, Writes!Commits
<1>2. tables' = [tables EXCEPT !.advanced = word]
  BY DEF Writes!SaveAdvanced
<1>3. /\ JobFits(j) /\ ~Writes!Refuses(tables, j)
      /\ \A v \in Workers \ {w} : j.cmds \cap WordsOf(worker[v]) = {}
  BY <1>1, CommitFacts DEF Claim, WordKinds
<1>4. ~Writes!CustomTaken(tables, j.cmds) /\ ~Writes!CounterTaken(tables, j.cmds, Writes!NoId)
  BY <1>1, <1>3, RefusesFacts
<1>5. word \in Triggers \cup {Writes!NoTrigger} /\ (word \in Triggers => j.cmds = {word})
  <2>1. CASE j.cmds = {}
    BY <2>1, WritesAssumption DEF Writes!NoTrigger
  <2>2. CASE j.cmds # {}
    BY <1>1, <1>3, <2>2, AnyTriggerFacts
  <2> QED
    BY <2>1, <2>2
<1>6. tables \in Writes!Tables /\ Writes!NoCollision /\ clashed \subseteq Commands
  BY DEF CommandsInv
<1> HIDE DEF word
<1>7. tables' \in Writes!Tables
  BY <1>2, <1>5, <1>6 DEF Writes!Tables
<1>8. \A v \in Workers \ {w} : word \notin WordsOf(worker[v])
  BY <1>3, <1>5 DEF WordsOf
<1>9. \A v \in Workers \ {w} : Quiet(worker[v], tables, tables')
  BY <1>2, <1>5, <1>6, <1>8, AdvancedIsQuiet
<1>10. Writes!NoCollision'
  BY <1>1, <1>2, <1>4, <1>5, <1>6, AdvancedJoins
<1> QED
  BY <1>1, <1>6, <1>7, <1>9, <1>10, DoneKeepsInv

\* Writes without a named lock only take away.
LEMMA UnlockedKeepsInv ==
  ASSUME CommandsInv, UNCHANGED <<worker, clashed>>, tables' \in Writes!Tables,
         \A v \in Workers : Quiet(worker[v], tables, tables'), Writes!NoCollision'
  PROVE  CommandsInv'
<1>1. \A v \in Workers : WorkerFits(worker[v], tables')
  BY QuietKeepsFit DEF CommandsInv
<1>2. worker' = worker /\ clashed' = clashed
  OBVIOUS
<1>3. \A v \in Workers : WorkerFits(worker'[v], tables')
  BY <1>1, <1>2
<1> QED
  BY <1>2, <1>3 DEF CommandsInv

LEMMA UnassignKeepsInv == ASSUME CommandsInv, Writes!unassignUserFromCommand PROVE CommandsInv'
<1>0. PICK c \in Commands : \E user \in tables.custom[c].users :
        /\ ~Writes!RowLocked(c)
        /\ tables' = [tables EXCEPT !.custom[c].users = @ \ {user}] /\ UNCHANGED <<worker, clashed>>
  BY DEF Writes!unassignUserFromCommand
<1>1. PICK user \in tables.custom[c].users :
        /\ ~Writes!RowLocked(c)
        /\ tables' = [tables EXCEPT !.custom[c].users = @ \ {user}] /\ UNCHANGED <<worker, clashed>>
  BY <1>0
<1> DEFINE row == tables.custom[c]
           r == [row EXCEPT !.users = @ \ {user}]
<1>2. tables' = [tables EXCEPT !.custom[c] = r]
  BY <1>1
<1>3. tables \in Writes!Tables /\ Writes!NoCollision /\ clashed \subseteq Commands
  BY DEF CommandsInv
<1>4. row \in Writes!CustomRows
  <2>1. row.users # {}
    BY <1>1
  <2> QED
    BY <1>3, <2>1, RowFacts DEF Writes!NoCustom
<1>5. row # Writes!NoCustom
  <2>1. row.trigger \in Triggers
    BY <1>4 DEF Writes!CustomRows
  <2> QED
    BY <1>3, <2>1, RowFacts
<1>6. r \in Writes!CustomRows /\ r.users \subseteq row.users /\ r.trigger = row.trigger /\ r.flags = row.flags
  <2> HIDE DEF row
  <2> QED
    BY <1>4 DEF Writes!CustomRows
<1> HIDE DEF r
<1>7. tables' \in Writes!Tables
  BY <1>2, <1>3, <1>6 DEF Writes!Tables
<1>8. ASSUME NEW v \in Workers PROVE Quiet(worker[v], tables, tables')
  <2>1. WorkerFits(worker[v], tables)
    BY WorkerFacts
  <2>2. worker[v].job.kind \in IdKinds /\ worker[v].job.id = c =>
          ~(worker[v].pc = "commit" /\ worker[v].job.self # {} /\ worker[v].job.kind # "assign")
    BY <1>1 DEF Writes!RowLocked, IdKinds
  <2> QED
    BY <1>2, <1>3, <1>6, <2>1, <2>2, RowIsQuiet
<1>9. ~Writes!CounterTaken(tables, {r.trigger}, Writes!NoId) /\ ~Writes!AdvancedTaken(tables, {r.trigger})
  BY <1>3, <1>5, <1>6 DEF Writes!NoCollision, Writes!CollisionFree
<1>10. ASSUME c \notin clashed, NEW d \in Commands \ ({c} \cup clashed), tables.custom[d].trigger = r.trigger
       PROVE  ~Writes!BothAnswer(r, tables.custom[d])
  <2>1. ~Writes!BothAnswer(row, tables.custom[d])
    BY <1>3, <1>5, <1>6, <1>10 DEF Writes!NoCollision, Writes!CollisionFree
  <2> HIDE DEF row
  <2> QED
    BY <1>6, <2>1 DEF Writes!BothAnswer
<1>11. clashed' = clashed
  BY <1>1
<1>12. Writes!NoCollision'
  BY <1>2, <1>3, <1>6, <1>9, <1>10, <1>11, RowJoins
<1> QED
  BY <1>1, <1>7, <1>8, <1>12, UnlockedKeepsInv

LEMMA RemoveAdvancedKeepsInv == ASSUME CommandsInv, Writes!removeAdvancedCommand PROVE CommandsInv'
<1>1. tables' = [tables EXCEPT !.advanced = Writes!NoTrigger] /\ UNCHANGED <<worker, clashed>> /\ clashed' = clashed
  BY DEF Writes!removeAdvancedCommand
<1>2. tables \in Writes!Tables /\ Writes!NoCollision
  BY DEF CommandsInv
<1>3. Writes!NoTrigger \notin Triggers
  BY WritesAssumption DEF Writes!NoTrigger
<1>4. tables' \in Writes!Tables
  BY <1>1, <1>2 DEF Writes!Tables
<1>5. \A v \in Workers : Writes!NoTrigger \notin WordsOf(worker[v])
  BY <1>3 DEF WordsOf
<1>6. \A v \in Workers : Quiet(worker[v], tables, tables')
  BY <1>1, <1>2, <1>5, AdvancedIsQuiet
<1>7. Writes!NoCollision'
  BY <1>1, <1>2, <1>3, AdvancedJoins
<1> QED
  BY <1>1, <1>4, <1>6, <1>7, UnlockedKeepsInv

LEMMA CommandsStep == ASSUME CommandsInv, Writes!Next PROVE CommandsInv'
<1>1. ASSUME NEW w \in Workers,
             \/ Writes!addCustomCommand(w) \/ Writes!updateCustomCommand(w) \/ Writes!updateOwnCustomCommand(w)
             \/ Writes!removeCustomCommand(w) \/ Writes!assignUserToCommand(w) \/ Writes!addCounter(w)
             \/ Writes!updateCounter(w) \/ Writes!removeCounter(w) \/ Writes!saveAdvancedCommand(w)
      PROVE  CommandsInv'
  BY <1>1, StartsKeepInv
<1>2. ASSUME NEW w \in Workers,
             \/ Writes!acquireNamedLock(w) \/ Writes!LockTimesOut(w) \/ Writes!getCommandTriggerStringById(w)
             \/ Writes!runSerializedCommandWrite(w) \/ Writes!runWithDeadlockRetry(w) \/ Writes!releaseNamedLocks(w)
      PROVE  CommandsInv'
  BY <1>2, AcquisitionKeepsInv, TimeoutKeepsInv, TriggerReadKeepsInv, CheckKeepsInv, RetryKeepsInv, ReleaseKeepsInv
<1>3. ASSUME NEW w \in Workers,
             \/ Writes!InsertCommand(w) \/ Writes!UpdateCommand(w) \/ Writes!deleteCustomCommand(w)
             \/ Writes!insertUserCommandAssignments(w) \/ Writes!InsertCounter(w) \/ Writes!UpdateCounter(w)
             \/ Writes!SaveAdvanced(w)
      PROVE  CommandsInv'
  BY <1>3, InsertKeepsInv, UpdateKeepsInv, DeleteKeepsInv, AssignmentKeepsInv, InsertCounterKeepsInv,
     UpdateCounterKeepsInv, SaveAdvancedKeepsInv
<1> QED
  BY <1>1, <1>2, <1>3, UnassignKeepsInv, RemoveAdvancedKeepsInv DEF Writes!Next

LEMMA CommandsStutter == ASSUME CommandsInv, UNCHANGED commandVars PROVE CommandsInv'
<1>1. tables' = tables /\ worker' = worker /\ clashed' = clashed
  BY DEF commandVars
<1> QED
  BY <1>1 DEF CommandsInv, Writes!NoCollision, Writes!CollisionFree

\* Rows to start from: one word for all the custom commands, of which no two answer together.
LEMMA StartingRowsAreApart ==
  ASSUME NEW t,
         \A c \in Commands : t.custom[c] # Writes!NoCustom => t.custom[c].trigger = 1 /\ t.custom[c].flags = {},
         \A c, d \in Commands : c # d => t.custom[c].users \cap t.custom[d].users \cap Eligible = {},
         \A c \in Commands : t.custom[c].flags = {},
         \A k \in Counters : 1 \notin t.counter[k] /\ t.advanced \notin t.counter[k],
         \A k, n \in Counters : k # n => t.counter[k] \cap t.counter[n] = {},
         t.advanced # 1
  PROVE  Writes!CollisionFree(t)
<1>1. \A c \in Commands : t.custom[c] # Writes!NoCustom =>
        /\ ~Writes!CounterTaken(t, {t.custom[c].trigger}, Writes!NoId)
        /\ ~Writes!AdvancedTaken(t, {t.custom[c].trigger})
  BY DEF Writes!CounterTaken, Writes!AdvancedTaken
<1>2. \A c, d \in Commands : c # d => ~Writes!BothAnswer(t.custom[c], t.custom[d])
  BY DEF Writes!BothAnswer
<1>3. \A k \in Counters : ~Writes!CounterTaken(t, t.counter[k], k) /\ ~Writes!AdvancedTaken(t, t.counter[k])
  BY DEF Writes!CounterTaken, Writes!AdvancedTaken
<1> QED
  BY <1>1, <1>2, <1>3 DEF Writes!CollisionFree

LEMMA StartingRows ==
  ASSUME NEW t \in StartingTables
  PROVE  t \in Writes!Tables /\ Writes!CollisionFree(t)
<1> DEFINE none == Writes!NoCustom
           first(us) == [trigger |-> 1, flags |-> {}, users |-> us]
<1>0. none = [trigger |-> 0, flags |-> {}, users |-> {}]
  BY DEF Writes!NoCustom, Writes!NoTrigger
<1>1. \A us \in SUBSET Users : /\ first(us) \in Writes!CustomRows /\ first(us).trigger = 1
                               /\ first(us).flags = {} /\ first(us).users = us /\ OwnedBy(us) = first(us)
  BY WritesAssumption DEF Writes!CustomRows, OwnedBy
<1>2. NoRows = [custom |-> [c \in Commands |-> none], counter |-> [k \in Counters |-> {}], advanced |-> 0]
  BY <1>0 DEF NoRows
<1>3. none.trigger = 0 /\ none.flags = {} /\ none.users = {}
  BY <1>0
<1>4. Eligible \in SUBSET Users /\ Users \ Eligible \in SUBSET Users /\ {} \in SUBSET Users
  BY WritesAssumption
<1> HIDE DEF none, first
<1>5. CASE t = [NoRows EXCEPT !.custom[1] = OwnedBy(Eligible), !.advanced = 2]
  <2>1. t = [custom |-> [c \in Commands |-> IF c = 1 THEN first(Eligible) ELSE none],
             counter |-> [k \in Counters |-> {}], advanced |-> 2]
    BY <1>1, <1>2, <1>4, <1>5
  <2>2. /\ t.custom = [c \in Commands |-> IF c = 1 THEN first(Eligible) ELSE none]
        /\ t.counter = [k \in Counters |-> {}] /\ t.advanced = 2
    BY <2>1
  <2>3. t \in Writes!Tables
    BY <1>1, <1>4, <2>1, WritesAssumption DEF Writes!Tables, Writes!NoCounter, none
  <2>4. Writes!CollisionFree(t)
    <3>1. \A c \in Commands : /\ t.custom[c] # Writes!NoCustom => t.custom[c].trigger = 1 /\ t.custom[c].flags = {}
                              /\ t.custom[c].flags = {} /\ (c # 1 => t.custom[c].users = {})
      BY <1>1, <1>3, <1>4, <2>2 DEF none
    <3>2. \A c, d \in Commands : c # d => t.custom[c].users \cap t.custom[d].users \cap Eligible = {}
      BY <3>1
    <3> QED
      BY <2>2, <3>1, <3>2, StartingRowsAreApart
  <2> QED
    BY <2>3, <2>4
<1>6. CASE t = [NoRows EXCEPT !.custom[1] = OwnedBy(Users \ Eligible), !.custom[2] = OwnedBy({}),
                              !.counter[1] = {2, 3}]
  <2>1. t = [custom |-> [c \in Commands |-> IF c = 2 THEN first({})
                                            ELSE IF c = 1 THEN first(Users \ Eligible) ELSE none],
             counter |-> [k \in Counters |-> IF k = 1 THEN {2, 3} ELSE {}], advanced |-> 0]
    BY <1>1, <1>2, <1>4, <1>6
  <2>2. /\ t.custom = [c \in Commands |-> IF c = 2 THEN first({}) ELSE IF c = 1 THEN first(Users \ Eligible) ELSE none]
        /\ t.counter = [k \in Counters |-> IF k = 1 THEN {2, 3} ELSE {}] /\ t.advanced = 0
    BY <2>1
  <2>3. {2, 3} \in Writes!CounterRows
    <3>1. Cardinality({2, 3}) = 2
      <4>1. {2, 3} = 2 .. 3
        OBVIOUS
      <4>2. Cardinality(2 .. 3) = 2
        <5>1. Cardinality(2 .. 3) = IF 2 > 3 THEN 0 ELSE (3 - 2) + 1
          BY 2 \in Int, 3 \in Int, FS_Interval
        <5> QED
          BY <5>1
      <4> QED
        BY <4>1, <4>2
    <3> QED
      BY <3>1, WritesCardinality, WritesAssumption DEF Writes!CounterRows
  <2>4. t \in Writes!Tables
    BY <1>1, <1>4, <2>1, <2>3, WritesAssumption DEF Writes!Tables, Writes!NoCounter, Writes!NoTrigger, none
  <2>5. Writes!CollisionFree(t)
    <3>1. \A c \in Commands : /\ t.custom[c] # Writes!NoCustom => t.custom[c].trigger = 1 /\ t.custom[c].flags = {}
                              /\ t.custom[c].flags = {} /\ t.custom[c].users \cap Eligible = {}
      BY <1>1, <1>3, <1>4, <2>2 DEF none
    <3>2. \A c, d \in Commands : c # d => t.custom[c].users \cap t.custom[d].users \cap Eligible = {}
      BY <3>1
    <3>3. \A k \in Counters : 1 \notin t.counter[k] /\ 0 \notin t.counter[k]
      BY <2>2
    <3>4. \A k, n \in Counters : k # n => t.counter[k] \cap t.counter[n] = {}
      BY <2>2
    <3>5. t.advanced = 0
      BY <2>2
    <3>6. \A k \in Counters : 1 \notin t.counter[k] /\ t.advanced \notin t.counter[k]
      BY <3>3, <3>5
    <3> HIDE <2>2
    <3> QED
      BY <3>1, <3>2, <3>4, <3>5, <3>6, StartingRowsAreApart
  <2> QED
    BY <2>4, <2>5
<1> QED
  BY <1>5, <1>6 DEF StartingTables

LEMMA CommandsInitInv == ASSUME Writes!Init PROVE CommandsInv
<1>1. tables \in StartingTables /\ worker = [w \in Workers |-> Writes!NoWorker] /\ clashed = {}
  BY DEF Writes!Init
<1>2. tables \in Writes!Tables /\ Writes!NoCollision
  BY <1>1, StartingRows DEF Writes!NoCollision
<1>3. WorkerFits(Writes!NoWorker, tables) /\ Writes!NoWorker \in Writes!WorkerStates /\ Writes!NoWorker.held = {}
  BY IdleFits, IdleFacts
<1> QED
  BY <1>1, <1>2, <1>3 DEF CommandsInv

LEMMA GreatestWord ==
  ASSUME NEW M \in SUBSET Triggers, M # {}
  PROVE  \E m \in M : \A n \in M : ~(m < n)
<1> DEFINE n == Cardinality(M)
           rank == [x \in M |-> Cardinality({y \in M : y <= x})]
<1>1. /\ n \in Nat /\ rank \in Injection(M, 1 .. n) /\ rank \in Surjection(M, 1 .. n)
      /\ \A x, y \in M : x < y => rank[x] < rank[y]
  BY WordFacts, RankFacts
<1> HIDE DEF rank, n
<1>2. rank \in [M -> 1 .. n] /\ \A i \in 1 .. n : \E x \in M : rank[x] = i
  BY <1>1 DEF Surjection
<1>3. PICK x \in M : rank[x] = n
  <2>1. PICK y \in M : TRUE
    OBVIOUS
  <2>2. rank[y] \in 1 .. n
    BY <1>2
  <2> QED
    BY <1>1, <1>2, <2>2
<1>4. \A y \in M : ~(n < rank[y])
  BY <1>1, <1>2
<1> QED
  BY <1>1, <1>3, <1>4

\* Who waits for the greatest word anyone waits for waits for nobody who waits.
LEMMA NobodyWaitsInACircle == ASSUME CommandsInv PROVE Writes!NoLockCycle
<1> SUFFICES ASSUME NEW S \in (SUBSET Workers) \ {{}},
                    \A w \in S : Writes!Waits(w) /\ Writes!Holder(Head(worker[w].need)) \cap S # {}
             PROVE  FALSE
  BY DEF Writes!NoLockCycle
<1> DEFINE want(w) == Head(worker[w].need)
<1>1. ASSUME NEW w \in S
      PROVE  /\ want(w) \in Writes!Locks
             /\ \A l \in worker[w].held : Earlier(l, want(w))
  <2>1. InOrder(worker[w].held, worker[w].need) /\ worker[w].need # <<>>
    BY <1>1, WorkerFacts DEF Writes!Waits, WorkerFits, Working
  <2>2. want(w) \in Writes!Locks /\ want(w) = worker[w].need[1] /\ 1 \in DOMAIN worker[w].need
    BY <2>1 DEF InOrder
  <2> QED
    BY <2>1, <2>2 DEF InOrder
<1>2. \A w \in S : \E v \in S : want(w) \in worker[v].held
  BY DEF Writes!Holder
<1> HIDE DEF want
<1>3. \A w \in S : \E v \in S : Earlier(want(w), want(v))
  BY <1>1, <1>2
<1> DEFINE M == {word \in Triggers : \E w \in S : want(w) = Writes!TriggerLock(word)}
<1>4. \A w \in S : want(w)[1] = "trigger" => want(w)[2] \in M /\ want(w) = Writes!TriggerLock(want(w)[2])
  <2> SUFFICES ASSUME NEW w \in S, want(w)[1] = "trigger"
               PROVE  want(w)[2] \in M /\ want(w) = Writes!TriggerLock(want(w)[2])
    OBVIOUS
  <2>1. \E word \in Triggers : want(w) = Writes!TriggerLock(word)
    BY <1>1, LockFacts
  <2> QED
    BY <2>1, LockFacts
<1>5. \A w \in S : \E v \in S : want(v)[1] = "trigger" /\ (want(w)[1] = "trigger" => want(w)[2] < want(v)[2])
  BY <1>3 DEF Earlier
<1>6. M # {}
  <2>1. PICK w \in S : TRUE
    OBVIOUS
  <2>2. PICK v \in S : want(v)[1] = "trigger"
    BY <1>5, <2>1
  <2> QED
    BY <1>4, <2>2
<1>7. PICK m \in M : \A n \in M : ~(m < n)
  BY <1>6, GreatestWord
<1>8. PICK w \in S : want(w) = Writes!TriggerLock(m) /\ m \in Triggers
  BY <1>7
<1>9. want(w)[1] = "trigger" /\ want(w)[2] = m
  BY <1>8, LockFacts
<1>10. PICK v \in S : want(v)[1] = "trigger" /\ m < want(v)[2]
  BY <1>5, <1>9
<1>11. want(v)[2] \in M
  BY <1>4, <1>10
<1> QED
  BY <1>7, <1>10, <1>11

LEMMA OwnWritesAreClaimed ==
  ASSUME CommandsInv, NEW w \in Workers, worker[w].pc = "commit"
  PROVE  LET j == worker[w].job IN
         /\ j.kind \in {"update", "delete"} => Writes!Manageable(tables.custom[j.id], j.self)
         /\ j.kind = "discard" => Writes!Unclaimed(tables.custom[j.id], j.self)
<1> DEFINE j == worker[w].job
<1>1. j.kind \in {"update", "delete", "discard"} => ~Writes!Refuses(tables, j)
  BY CommitFacts DEF Claim
<1> QED
  BY <1>1, RefusesFacts

LEMMA CommandsAreTyped == ASSUME CommandsInv PROVE Writes!TypeOK
<1>1. ASSUME NEW w \in Workers
      PROVE  /\ worker[w].pc \in {"idle", "lock", "read", "commit", "release"} /\ worker[w].job \in Writes!Jobs
             /\ worker[w].held \subseteq Writes!Locks /\ Writes!Range(worker[w].need) \subseteq Writes!Locks
             /\ worker[w].tries \in 0 .. MaxTries
  <2>1. worker[w] \in Writes!WorkerStates
    BY WorkerFacts
  <2>2. worker[w].need \in Seq(Writes!Locks)
    BY <2>1 DEF Writes!WorkerStates
  <2>3. Writes!Range(worker[w].need) \subseteq Writes!Locks
    BY <2>2 DEF Writes!Range
  <2> QED
    BY <2>1, <2>3 DEF Writes!WorkerStates
<1>2. ASSUME NEW l \in Writes!Locks PROVE Writes!Cardinality(Writes!Holder(l)) <= 1
  <2>1. CASE Writes!Holder(l) = {}
    BY <2>1, WritesCardinality, FS_EmptySet
  <2>2. CASE Writes!Holder(l) # {}
    <3>1. PICK w \in Workers : l \in worker[w].held
      BY <2>2 DEF Writes!Holder
    <3>2. Writes!Holder(l) = {w}
      BY <3>1 DEF Writes!Holder, CommandsInv
    <3> QED
      <4>1. Cardinality({w}) = 1
        BY FS_Singleton
      <4>2. Writes!Cardinality({w}) = 1
        BY <4>1, WritesCardinality
      <4> QED
        BY <3>2, <4>2
  <2> QED
    BY <2>1, <2>2
<1> QED
  BY <1>1, <1>2 DEF CommandsInv, Writes!TypeOK

-----------------------------------------------------------------------------
(* The services together                                                   *)

IInv ==
  /\ service = "writes" => CommandsInv
  /\ service = "voice" => VoiceInv
  /\ service = "points" => PointsInv
  /\ service = "raffle" => RaffleInv
  /\ service = "pieces" => PiecesInv
  /\ service = "videos" => VideosInv

LEMMA InitInv == Init => IInv
BY CommandsInitInv, VoiceInitInv, PointsInitInv, RaffleInitInv, PiecesInitInv, VideosInitInv DEF Init, IInv

LEMMA StepInv == IInv /\ [Next]_serviceVars => IInv'
<1> SUFFICES ASSUME IInv, [Next]_serviceVars PROVE IInv'
  OBVIOUS
<1>1. service' = service
  BY DEF Next, serviceVars
<1>2. CASE service = "voice"
  <2>1. Voice!VoiceNext \/ UNCHANGED voiceVars
    BY <1>2 DEF Next, serviceVars
  <2> QED
    BY <1>1, <1>2, <2>1, VoiceStep, VoiceStutter DEF IInv
<1>3. CASE service = "points"
  <2>1. Points!UsesNext \/ UNCHANGED <<balance, uses, onCooldown, useUpsets>>
    BY <1>3 DEF Next, serviceVars, useVars
  <2>2. UNCHANGED <<balance, uses, onCooldown, useUpsets>> /\ PointsInv => PointsInv'
    BY DEF PointsInv
  <2> QED
    BY <1>1, <1>3, <2>1, <2>2, PointsStep DEF IInv
<1>4. CASE service = "raffle"
  <2>1. Raffle!RafflesNext \/ UNCHANGED <<activeRaffle, raffleStart, entrants, joining, drawTimer, drawn>>
    BY <1>4 DEF Next, serviceVars, raffleVars
  <2>2. UNCHANGED <<activeRaffle, raffleStart, entrants, joining, drawTimer, drawn>> /\ RaffleInv => RaffleInv'
    BY DEF RaffleInv, RaffleTypes, RaffleOrder, DrawIsFair, OpenRaffleIsAwaited
  <2> QED
    BY <1>1, <1>4, <2>1, <2>2, RaffleStep DEF IInv
<1>5. CASE service = "pieces"
  <2>1. Pieces!UploadsNext \/ UNCHANGED uploadVars
    BY <1>5 DEF Next, serviceVars
  <2> QED
    BY <1>1, <1>5, <2>1, PiecesStep, PiecesStutter DEF IInv
<1>6. CASE service = "videos"
  <2>1. Videos!VideosNext \/ UNCHANGED videoVars
    BY <1>6 DEF Next, serviceVars
  <2> QED
    BY <1>1, <1>6, <2>1, VideosStep, VideosStutter DEF IInv
<1>7. CASE service = "writes"
  <2>1. Writes!Next \/ UNCHANGED commandVars
    BY <1>7 DEF Next, serviceVars
  <2> QED
    BY <1>1, <1>7, <2>1, CommandsStep, CommandsStutter DEF IInv
<1> QED
  BY <1>1, <1>2, <1>3, <1>4, <1>5, <1>6, <1>7 DEF IInv

LEMMA IInvHolds == Spec => []IInv
BY InitInv, StepInv, PTL DEF Spec

\* Where one of these services runs, it keeps to its types.
LEMMA PointsAreTyped == ASSUME PointsInv PROVE Points!UsesTypeOK
<1>1. ASSUME NEW u \in Uses
      PROVE  uses[u].cost \in 0 .. MaxCost /\ uses[u].ops \subseteq [from : Points!Sources, rearm : {"yes", "no"}]
  <2>1. uses[u] \in UseRecords
    BY DEF PointsInv
  <2> QED
    BY <2>1 DEF UseRecords, Costs, UseOps, Points!Sources
<1> QED
  BY <1>1 DEF PointsInv, Points!UsesTypeOK

LEMMA RaffleIsTyped == ASSUME RaffleInv PROVE Raffle!RafflesTypeOK
BY DEF RaffleInv, RaffleTypes, DrawRecords, Raffle!RafflesTypeOK, Raffle!NoRaffle

LEMMA TheseAreTyped ==
  ASSUME IInv
  PROVE  /\ service = "writes" => Writes!TypeOK
         /\ service = "voice" => Voice!VoiceTypeOK
         /\ service = "points" => Points!UsesTypeOK
         /\ service = "raffle" => Raffle!RafflesTypeOK
         /\ service = "pieces" => Pieces!UploadsTypeOK
         /\ service = "videos" => Videos!VideosTypeOK
BY CommandsAreTyped, PointsAreTyped, RaffleIsTyped, PiecesHold, VideosHold DEF IInv, VoiceInv

\* A streamer's own write, step by step.
LEMMA StepOwn ==
  IInv /\ [Next]_serviceVars =>
    [\A w \in Workers :
       LET j == worker[w].job IN
       (worker[w].pc = "commit" /\ worker'[w].result = "done" /\ j.self # {}) =>
         /\ j.kind \in {"update", "delete"} => Writes!Manageable(tables.custom[j.id], j.self)
         /\ j.kind = "discard" => Writes!Unclaimed(tables.custom[j.id], j.self)]_(Writes!commandVars)
<1> SUFFICES ASSUME IInv, [Next]_serviceVars, ~UNCHANGED Writes!commandVars, NEW w \in Workers, worker[w].pc = "commit"
             PROVE  LET j == worker[w].job IN
                    /\ j.kind \in {"update", "delete"} => Writes!Manageable(tables.custom[j.id], j.self)
                    /\ j.kind = "discard" => Writes!Unclaimed(tables.custom[j.id], j.self)
  OBVIOUS
<1>1. ~UNCHANGED commandVars
  BY DEF commandVars, Writes!commandVars
<1>2. service = "writes"
  BY <1>1 DEF Next, serviceVars
<1> QED
  BY <1>2, OwnWritesAreClaimed DEF IInv

\* Whatever writes of commands, counters and advanced commands interleave, wait, time out or are retried, and
\* whether the database reads committed rows or repeats its reads, the committed rows never let one chat
\* message run two commands (but for an assignment that read rows of the past), requests never wait for each
\* other's named locks in a circle, and a streamer's own write only commits on a command that is theirs alone
\* (commandWriteGuard.ts, commandLocks.ts, commandIdLock.ts and commandSelfService.ts).
THEOREM CommandsAreKeptApart == Spec => CommandsStayApart
<1>1. IInv => (service = "writes" => Writes!NoCollision /\ Writes!NoLockCycle)
  BY NobodyWaitsInACircle DEF IInv, CommandsInv
<1>2. Spec => Writes!SelfServiceKeepsToOwn
  BY IInvHolds, StepOwn, PTL DEF Spec, Writes!SelfServiceKeepsToOwn
<1> QED
  BY <1>1, <1>2, IInvHolds, PTL DEF CommandsStayApart

\* However joins, leaves, drops, reconnects and superseded attempts interleave, the guild never holds a
\* connection that was destroyed, no live connection is forgotten and a guild without one is not busy
\* (audioPlayer.ts and audioConnectionHandlers.ts).
THEOREM VoiceHolds == Spec => []VoiceHoldsTogether
<1>1. IInv => VoiceHoldsTogether
  BY DEF IInv, VoiceInv, VoiceHoldsTogether
<1> QED
  BY <1>1, IInvHolds, PTL

\* Points come back once and for a refund, whatever answers twice, late or after a restart; a raffle is
\* drawn once, from its own entrants, within its prize (advancedCommandRefunds.ts and raffleHandler.ts).
THEOREM PointsAreKept == Spec => []PointsHold
<1>1. IInv => PointsHold
  BY PointsAreRefundedOnce, RafflesAreFairByInv DEF IInv, PointsHold
<1> QED
  BY <1>1, IInvHolds, PTL

\* What an upload has confirmed, step by step.
LEMMA StepConfirmed ==
  IInv /\ [Next]_serviceVars =>
    [\A id \in UploadIds : Pieces!Loads(id) /\ ~Pieces!Ending(id) =>
       /\ uploadFiles'[id].json # Pieces!Nobody /\ uploadFiles'[id].part # Pieces!NoFile
       /\ \A i \in 1 .. Pieces!Received(id) :
            \/ Pieces!LeftOver(id, i)
            \/ i <= Len(uploadFiles'[id].part) /\ uploadFiles'[id].part[i] = uploadFiles[id].part[i]]_(Pieces!uploadVars)
<1> SUFFICES ASSUME IInv, [Next]_serviceVars, ~UNCHANGED Pieces!uploadVars
             PROVE  \A id \in UploadIds : Undisturbed(id) => BytesStay(id)
  BY DEF Undisturbed, BytesStay
<1>1. ~UNCHANGED uploadVars
  BY DEF uploadVars, Pieces!uploadVars
<1>2. service = "pieces" /\ Pieces!UploadsNext
  BY <1>1 DEF Next, serviceVars
<1>3. PiecesInv
  BY <1>2 DEF IInv
<1> QED
  BY <1>2, <1>3, ConfirmedStay

\* Whatever arrives twice, fails halfway, expires, is swept, cancelled or cut off by a restart, an upload in
\* pieces is handed on at most once and whole, keeps what it has confirmed while it is alive, and a user has
\* one and the area no more than its limit; a video the overlay lists has its file, the conversion that runs
\* has its source and its partial file and is the only one, and the two slot counters count the uploads that
\* hold a slot and the conversions that wait or run (chunkedUploadStore.ts, overlayVideos.ts and
\* overlayVideoTranscode.ts).
THEOREM FilesAreKept == Spec => StoredFilesHold
<1>1. IInv => (service = "pieces" => Pieces!UploadsAreWhole /\ Pieces!OneUploadEach)
  BY PiecesHold DEF IInv
<1>2. IInv => (service = "videos" => Videos!ListedVideosPlay /\ Videos!EncoderAlone /\ Videos!SlotsAreCounted)
  BY VideosHold DEF IInv
<1>3. Spec => Pieces!ConfirmedBytesStay
  BY IInvHolds, StepConfirmed, PTL DEF Spec, Pieces!ConfirmedBytesStay
<1> QED
  BY <1>1, <1>2, <1>3, IInvHolds, PTL DEF StoredFilesHold
===========================================================================
