--------------------------- MODULE WebSocketProofs ---------------------------
(***************************************************************************)
(* Theorems about what the sockets of the web server share and keep:       *)
(* VoiceSession, ConversationMemory and SqliteLane, for all turns,         *)
(* coroutines, clients and bounds.                                         *)
(***************************************************************************)
EXTENDS MCWebSockets, RoomProofs, QueueProofs, SequenceTheorems,
        FiniteSetTheorems, TLAPS

-----------------------------------------------------------------------------
(* VoiceSession: the inductive invariant. *)

Segment   == [turn : Nat, sequence : Nat]
VoiceTask == [at : {"done", "transcribe", "stream", "speak", "cancelled"}, id : 0 .. MaxCommits,
              queue : Seq(Segment), flush : BOOLEAN]
Message   == [kind : {"started", "audio", "interrupted", "completed"}, turn : Nat, sequence : Nat]

VoiceTypes ==
  /\ handler \in {"receive", "cancel", "close", "left", "closed"}
  /\ goal \in {"receive", "commit"}
  /\ audio \in BOOLEAN
  /\ current \in Turn \cup {NoTurn}
  /\ task \in [Turn -> VoiceTask]
  /\ duplex \in [turn : 0 .. MaxCommits, sequence : 0 .. MaxSegments]
  /\ sent \in Seq(Message)
  /\ commits \in 0 .. MaxCommits

\* The only task that runs is the one the handler knows; once the handler has
\* cancelled it, it does nothing more.
OneTask ==
  /\ \A t \in Turn : Running(t) => current = t
  /\ handler = "closed" => \A t \in Turn : ~Running(t)
  /\ handler \in {"cancel", "close"} => \A t \in Turn : Running(t) => task[t].at = "cancelled"
  /\ handler = "cancel" /\ goal = "commit" => commits < MaxCommits

\* Turns are numbered as their tasks get a transcript.
TurnNumbers ==
  /\ duplex.turn <= commits
  /\ \A t \in Turn : task[t].at = "transcribe" => duplex.turn < commits
  /\ \A i \in DOMAIN sent : sent[i].turn <= duplex.turn
  /\ \A t \in Turn : \A i \in DOMAIN task[t].queue : task[t].queue[i].turn = task[t].id

\* What a task that speaks has yet to speak follows all that was sent of its
\* turn, which is not over for the client.
Speaking(r, d, messages) ==
  r.at \in {"stream", "speak"} =>
    /\ r.id = d.turn
    /\ r.at = "stream" => r.queue = <<>>
    /\ \A k \in DOMAIN r.queue : r.queue[k].sequence = d.sequence - Len(r.queue) + k
    /\ Len(r.queue) <= d.sequence
    /\ \A i \in DOMAIN messages :
         messages[i].turn = d.turn => /\ messages[i].kind \in {"started", "audio"}
                                      /\ messages[i].sequence <= d.sequence - Len(r.queue)

AllSpeaking == \A t \in Turn : Speaking(task[t], duplex, sent)

\* A task that waits for its transcript has nothing to speak.
Transcribing == \A t \in Turn : task[t].at = "transcribe" => task[t].queue = <<>>

VInv == VoiceTypes /\ OneTask /\ TurnNumbers /\ AllSpeaking /\ Transcribing /\ OutputInOrder

-----------------------------------------------------------------------------
\* A message that continues the turn it belongs to, or starts a later one.
LEMMA SentInOrder ==
  ASSUME sent \in Seq(Message), OutputInOrder, NEW m \in Message, sent' = Append(sent, m),
         \A i \in DOMAIN sent :
           /\ sent[i].turn <= m.turn
           /\ sent[i].turn = m.turn /\ m.kind # "interrupted" =>
                /\ m.kind # "started"
                /\ sent[i].kind \in {"started", "audio"}
                /\ m.kind = "audio" => sent[i].sequence < m.sequence
  PROVE  OutputInOrder'
<1> SUFFICES ASSUME NEW i \in DOMAIN sent', NEW j \in DOMAIN sent', i < j
             PROVE  /\ sent'[i].turn <= sent'[j].turn
                    /\ sent'[i].turn = sent'[j].turn /\ sent'[j].kind # "interrupted" =>
                         /\ sent'[j].kind # "started"
                         /\ sent'[i].kind \in {"started", "audio"}
                         /\ sent'[j].kind = "audio" => sent'[i].sequence < sent'[j].sequence
  BY DEF OutputInOrder
<1>1. /\ DOMAIN sent = 1 .. Len(sent) /\ DOMAIN sent' = 1 .. Len(sent) + 1 /\ Len(sent) \in Nat
      /\ \A k \in DOMAIN sent : sent'[k] = sent[k]
      /\ sent'[Len(sent) + 1] = m
  OBVIOUS
<1>2. CASE j \in DOMAIN sent
  <2>1. i \in DOMAIN sent
    BY <1>1, <1>2
  <2>2. QED  BY <1>1, <1>2, <2>1 DEF OutputInOrder
<1>3. CASE j = Len(sent) + 1
  <2>1. i \in DOMAIN sent
    BY <1>1, <1>3
  <2>2. QED  BY <1>1, <1>3, <2>1
<1>4. QED  BY <1>1, <1>2, <1>3

\* What the invariant says of a message that has been sent.
LEMMA SentTypes ==
  ASSUME sent \in Seq(Message), NEW m \in Message, sent' = Append(sent, m)
  PROVE  /\ sent' \in Seq(Message)
         /\ \A i \in DOMAIN sent' : (i \in DOMAIN sent /\ sent'[i] = sent[i]) \/ sent'[i] = m
OBVIOUS

\* What the invariant says of the messages sent so far.
LEMMA SentSoFar ==
  ASSUME VInv
  PROVE  \A i \in DOMAIN sent : /\ sent[i].turn <= duplex.turn
                                /\ sent[i].turn \in Nat /\ sent[i].sequence \in Nat
<1>1. sent \in Seq(Message)
  BY DEF VInv, VoiceTypes
<1>2. \A i \in DOMAIN sent : sent[i] \in Message
  BY <1>1
<1>3. \A i \in DOMAIN sent : sent[i].turn \in Nat /\ sent[i].sequence \in Nat
  BY <1>2 DEF Message
<1>4. QED  BY <1>3 DEF VInv, TurnNumbers

LEMMA OverIsOver == Over.at = "done" /\ Over.queue = <<>> /\ Over.id = 0 /\ Over \in VoiceTask
<1>1. <<>> \in Seq(Segment) /\ 0 \in 0 .. MaxCommits
  BY VoiceAssumption
<1> DEFINE none == <<>>
<1>2. none \in Seq(Segment)
  BY <1>1
<1> HIDE DEF none
<1>3. [at |-> "done", id |-> 0, queue |-> none, flush |-> FALSE] \in VoiceTask
  BY <1>1, <1>2 DEF VoiceTask
<1>4. QED  BY <1>3 DEF Over, none

\* When the task the handler knows does not run, none does.
LEMMA NobodyRuns ==
  ASSUME VInv, ~Running(current)
  PROVE  \A t \in Turn : task[t].at = "done"
<1> SUFFICES ASSUME NEW t \in Turn, task[t].at # "done"
             PROVE  FALSE
  OBVIOUS
<1>1. Running(t)
  BY VoiceAssumption DEF Running
<1>2. current = t
  BY <1>1 DEF VInv, OneTask
<1>3. QED  BY <1>1, <1>2

\* When one task runs, the others are over.
LEMMA OneRuns ==
  ASSUME VInv, NEW t \in Turn, task[t].at # "done"
  PROVE  /\ current = t
         /\ \A u \in Turn : u # t => task[u].at = "done"
<1>1. Running(t)
  BY VoiceAssumption DEF Running
<1>2. current = t
  BY <1>1 DEF VInv, OneTask
<1>3. ASSUME NEW u \in Turn, u # t, task[u].at # "done"
      PROVE  FALSE
  <2>1. Running(u)
    BY <1>3, VoiceAssumption DEF Running
  <2>2. current = u
    BY <2>1 DEF VInv, OneTask
  <2>3. QED  BY <1>2, <1>3, <2>2
<1>4. QED  BY <1>2, <1>3

-----------------------------------------------------------------------------
(* The handler. *)

\* Steps that only interrupt, or not even that.
LEMMA QuietKeeps ==
  ASSUME VInv, UNCHANGED <<current, task, sent, commits>>,
         duplex' = duplex \/ (Interrupt /\ ~Running(current)),
         handler' \in {handler, "left"} \/ (handler = "close" /\ handler' = "closed"
                                            /\ \A t \in Turn : task[t].at # "cancelled"),
         handler' = "left" => handler = "receive", goal' = goal, audio' \in BOOLEAN
  PROVE  VInv'
<1>1. VoiceTypes'
  BY VoiceAssumption DEF VInv, VoiceTypes, Interrupt
<1>2. OneTask'
  BY DEF VInv, OneTask, Running
<1>3. duplex'.turn = duplex.turn
  BY DEF VInv, VoiceTypes, Interrupt
<1>4. TurnNumbers'
  BY <1>3 DEF VInv, TurnNumbers
<1>5. AllSpeaking'
  <2>1. CASE duplex' = duplex
    BY <2>1 DEF VInv, AllSpeaking, Speaking
  <2>2. CASE ~Running(current)
    BY <2>2, NobodyRuns DEF AllSpeaking, Speaking
  <2>3. QED  BY <2>1, <2>2
<1>6. OutputInOrder'
  BY DEF VInv, OutputInOrder
<1>7. Transcribing'
  BY DEF VInv, Transcribing
<1>8. QED  BY <1>1, <1>2, <1>4, <1>5, <1>6, <1>7 DEF VInv

\* The running task is told to stop.
LEMMA CancelTurnKeeps ==
  ASSUME VInv, Interrupt, NEW next \in {"receive", "commit"}, CancelTurn(next), Running(current),
         next = "commit" => commits < MaxCommits,
         UNCHANGED <<current, sent, commits>>, audio' \in BOOLEAN
  PROVE  VInv'
<1> DEFINE r == [task[current] EXCEPT !.at = "cancelled"]
<1>1. current \in Turn /\ task[current] \in VoiceTask
  BY DEF VInv, VoiceTypes, Running
<1>2. r \in VoiceTask /\ r.at = "cancelled" /\ r.id = task[current].id /\ r.queue = task[current].queue
  BY <1>1 DEF VoiceTask
<1>3. task' = [task EXCEPT ![current] = r] /\ handler' = "cancel" /\ goal' = next
  BY DEF CancelTurn
<1> HIDE DEF r
<1>4. VoiceTypes'
  BY <1>1, <1>2, <1>3, VoiceAssumption DEF VInv, VoiceTypes, Interrupt
<1>5. \A t \in Turn : task'[t] = IF t = current THEN r ELSE task[t]
  BY <1>1, <1>3 DEF VInv, VoiceTypes
<1>6. OneTask'
  BY <1>1, <1>2, <1>3, <1>5 DEF VInv, OneTask, Running
<1>7. duplex'.turn = duplex.turn
  BY DEF VInv, VoiceTypes, Interrupt
<1>8. TurnNumbers'
  BY <1>2, <1>5, <1>7 DEF VInv, TurnNumbers
<1>9. \A t \in Turn : task'[t].at \notin {"stream", "speak"}
  <2>1. task[current].at # "done"
    BY DEF Running
  <2>2. \A t \in Turn : t # current => task[t].at = "done"
    BY <1>1, <2>1, OneRuns
  <2>3. QED  BY <1>2, <1>5, <2>2
<1>10. AllSpeaking'
  BY <1>9 DEF AllSpeaking, Speaking
<1>11. OutputInOrder'
  BY DEF VInv, OutputInOrder
<1>12. Transcribing'
  BY <1>2, <1>5 DEF VInv, Transcribing
<1>13. QED  BY <1>4, <1>6, <1>8, <1>10, <1>11, <1>12 DEF VInv

\* A task is started when none runs.
LEMMA BegunKeeps ==
  ASSUME VInv, Begun(task), ~Running(current), commits < MaxCommits, UNCHANGED duplex,
         sent' = sent \/ sent' = Sent("interrupted", duplex.turn, 0)
  PROVE  VInv'
<1>1. PICK t \in Turn : /\ task' = [task EXCEPT ![t] = [Over EXCEPT !.at = "transcribe"]]
                        /\ current' = t
  BY DEF Begun
<1> DEFINE r == [Over EXCEPT !.at = "transcribe"]
<1>2. r \in VoiceTask /\ r.at = "transcribe" /\ r.id = 0 /\ r.queue = <<>>
  BY OverIsOver DEF VoiceTask
<1> HIDE DEF r
<1>3. /\ task' = [task EXCEPT ![t] = r] /\ commits' = commits + 1 /\ audio' = FALSE
      /\ handler' = "receive" /\ goal' = "receive"
  BY <1>1 DEF Begun, r
<1>4. sent' \in Seq(Message) /\ OutputInOrder' /\ \A i \in DOMAIN sent' : sent'[i].turn <= duplex.turn
  <2>1. CASE sent' = sent
    BY <2>1 DEF VInv, VoiceTypes, OutputInOrder, TurnNumbers
  <2>2. CASE sent' = Sent("interrupted", duplex.turn, 0)
    <3> DEFINE m == [kind |-> "interrupted", turn |-> duplex.turn, sequence |-> 0]
    <3>1. m \in Message /\ m.turn = duplex.turn /\ m.kind = "interrupted" /\ sent' = Append(sent, m)
          /\ duplex.turn \in Nat
      BY <2>2, VoiceAssumption DEF Sent, Message, VInv, VoiceTypes
    <3> HIDE DEF m
    <3>2. QED  BY <3>1, SentInOrder, SentTypes DEF VInv, VoiceTypes, TurnNumbers
  <2>3. QED  BY <2>1, <2>2
<1>5. VoiceTypes'
  <2>1. task' \in [Turn -> VoiceTask]
    BY <1>2, <1>3 DEF VInv, VoiceTypes
  <2>2. commits' \in 0 .. MaxCommits /\ current' \in Turn /\ duplex' = duplex
    BY <1>1, <1>3, VoiceAssumption DEF VInv, VoiceTypes
  <2>3. QED  BY <1>3, <1>4, <2>1, <2>2 DEF VInv, VoiceTypes
<1>6. \A u \in Turn : task'[u] = IF u = t THEN r ELSE task[u]
  BY <1>3 DEF VInv, VoiceTypes
<1>7. \A u \in Turn : u # t => task'[u].at = "done"
  BY <1>6, NobodyRuns
<1>8. OneTask'
  BY <1>1, <1>2, <1>3, <1>6, <1>7 DEF OneTask, Running
<1>9. TurnNumbers'
  <2>1. duplex.turn \in Nat /\ commits \in Nat /\ duplex.turn <= commits
    BY VoiceAssumption DEF VInv, VoiceTypes, TurnNumbers
  <2>2. \A u \in Turn : \A i \in DOMAIN task'[u].queue : task'[u].queue[i].turn = task'[u].id
    BY <1>2, <1>6 DEF VInv, TurnNumbers
  <2>3. QED  BY <1>3, <1>4, <2>1, <2>2 DEF TurnNumbers
<1>10. AllSpeaking'
  BY <1>2, <1>6, <1>7 DEF AllSpeaking, Speaking
<1>11. Transcribing'
  BY <1>2, <1>6, <1>7 DEF Transcribing
<1>12. QED  BY <1>4, <1>5, <1>8, <1>9, <1>10, <1>11 DEF VInv

-----------------------------------------------------------------------------
(* The tasks. *)

LEMMA TaskKeeps ==
  ASSUME VInv, NEW t \in Turn, task[t].at # "done", NEW r \in VoiceTask,
         task' = [task EXCEPT ![t] = r], UNCHANGED <<handler, goal, audio, current, commits>>,
         task[t].at = "cancelled" => r.at = "done", r.at # "transcribe",
         \A i \in DOMAIN r.queue : r.queue[i].turn = r.id,
         duplex' \in [turn : 0 .. MaxCommits, sequence : 0 .. MaxSegments], duplex'.turn <= commits,
         sent' \in Seq(Message), \A i \in DOMAIN sent' : sent'[i].turn <= duplex'.turn,
         Speaking(r, duplex', sent'), OutputInOrder'
  PROVE  VInv'
<1>1. VoiceTypes'
  BY DEF VInv, VoiceTypes
<1>2. \A u \in Turn : task'[u] = IF u = t THEN r ELSE task[u]
  BY DEF VInv, VoiceTypes
<1>3. current = t /\ \A u \in Turn : u # t => task'[u].at = "done"
  BY <1>2, OneRuns
<1>4. Running(t)
  BY VoiceAssumption DEF Running
<1>5. OneTask'
  BY <1>2, <1>3, <1>4 DEF VInv, OneTask, Running
<1>6. TurnNumbers'
  BY <1>2, <1>3 DEF VInv, TurnNumbers
<1>7. AllSpeaking'
  BY <1>2, <1>3 DEF AllSpeaking, Speaking
<1>8. Transcribing'
  BY <1>2, <1>3 DEF Transcribing
<1>9. QED  BY <1>1, <1>5, <1>6, <1>7, <1>8 DEF VInv

LEMMA BeginTurnKeeps ==
  ASSUME VInv, NEW t \in Turn, BeginTurn(t)
  PROVE  VInv'
<1> DEFINE turn == duplex.turn + 1
           r == [task[t] EXCEPT !.at = "stream", !.id = turn]
           m == [kind |-> "started", turn |-> turn, sequence |-> 0]
<1>1. /\ task[t] \in VoiceTask /\ task[t].at = "transcribe" /\ duplex.turn < commits
      /\ commits \in 0 .. MaxCommits /\ duplex.turn \in Nat /\ turn \in 0 .. MaxCommits
      /\ MaxSegments \in Nat /\ MaxCommits \in Nat
  BY VoiceAssumption DEF VInv, VoiceTypes, TurnNumbers, BeginTurn, Step
<1>2. task[t].queue = <<>>
  BY <1>1 DEF VInv, Transcribing
<1>3. r \in VoiceTask /\ r.at = "stream" /\ r.id = turn /\ r.queue = <<>>
  BY <1>1, <1>2 DEF VoiceTask
<1>4. /\ task' = [task EXCEPT ![t] = r] /\ UNCHANGED <<handler, goal, audio, current, commits>>
      /\ sent' = Append(sent, m) /\ duplex' = [turn |-> turn, sequence |-> 0]
  BY DEF BeginTurn, Step, Sent
<1>5. m \in Message /\ m.turn = turn
  BY <1>1 DEF Message
<1>6. \A i \in DOMAIN sent : sent[i].turn < turn /\ sent[i].turn \in Nat
  BY <1>1, SentSoFar
<1>7. turn <= commits /\ turn \in Nat
  BY <1>1
<1>8. duplex'.turn = turn /\ duplex'.sequence = 0
      /\ duplex' \in [turn : 0 .. MaxCommits, sequence : 0 .. MaxSegments]
  BY <1>1, <1>4
<1> HIDE DEF r, turn
<1>9. OutputInOrder'
  <2> HIDE DEF m
  <2>1. QED  BY <1>4, <1>5, <1>6, <1>7, SentInOrder DEF VInv, VoiceTypes
<1>10. /\ sent' \in Seq(Message)
       /\ \A i \in DOMAIN sent' : (i \in DOMAIN sent /\ sent'[i] = sent[i]) \/ sent'[i] = m
  <2> HIDE DEF m
  <2>1. QED  BY <1>4, <1>5, SentTypes DEF VInv, VoiceTypes
<1>11. \A i \in DOMAIN sent' : sent'[i].turn <= turn
  BY <1>5, <1>6, <1>7, <1>10
<1>12. Speaking(r, duplex', sent')
  BY <1>3, <1>6, <1>7, <1>8, <1>10 DEF Speaking
<1>13. \A i \in DOMAIN r.queue : r.queue[i].turn = r.id
  BY <1>3
<1>14. QED
  BY <1>1, <1>3, <1>4, <1>7, <1>8, <1>9, <1>10, <1>11, <1>12, <1>13, TaskKeeps

LEMMA TurnEndsKeeps ==
  ASSUME VInv, NEW t \in Turn, Step(t, task[t].at, Over, sent), UNCHANGED duplex, task[t].at # "done"
  PROVE  VInv'
<1>1. Speaking(Over, duplex', sent') /\ \A i \in DOMAIN Over.queue : Over.queue[i].turn = Over.id
  BY OverIsOver DEF Speaking
<1>2. /\ sent' = sent /\ task' = [task EXCEPT ![t] = Over]
      /\ UNCHANGED <<handler, goal, audio, current, commits>>
  BY DEF Step
<1>3. OutputInOrder' /\ duplex' \in [turn : 0 .. MaxCommits, sequence : 0 .. MaxSegments]
      /\ duplex'.turn <= commits /\ sent' \in Seq(Message)
      /\ \A i \in DOMAIN sent' : sent'[i].turn <= duplex'.turn
  BY <1>2 DEF VInv, VoiceTypes, TurnNumbers, OutputInOrder
<1>4. QED  BY <1>1, <1>2, <1>3, OverIsOver, TaskKeeps

LEMMA ChunkKeeps ==
  ASSUME VInv, NEW t \in Turn, Chunk(t)
  PROVE  VInv'
<1>1. PICK n \in 0 .. 2, flush \in BOOLEAN :
        /\ duplex.sequence + n <= MaxSegments
        /\ duplex' = [duplex EXCEPT !.sequence = @ + n]
        /\ Step(t, "stream",
                [task[t] EXCEPT !.at = "speak", !.flush = flush,
                                !.queue = [i \in 1 .. n |-> [turn |-> duplex.turn,
                                                             sequence |-> duplex.sequence + i]]],
                sent)
  BY DEF Chunk
<1> DEFINE q == [i \in 1 .. n |-> [turn |-> duplex.turn, sequence |-> duplex.sequence + i]]
           r == [task[t] EXCEPT !.at = "speak", !.flush = flush, !.queue = q]
<1>2. /\ task[t] \in VoiceTask /\ task[t].at = "stream" /\ task[t].id = duplex.turn
      /\ task[t].queue = <<>>
      /\ \A i \in DOMAIN sent :
           sent[i].turn = duplex.turn => /\ sent[i].kind \in {"started", "audio"}
                                         /\ sent[i].sequence <= duplex.sequence
  <2>1. task[t].at = "stream" /\ task[t] \in VoiceTask /\ duplex.sequence \in Nat
    BY <1>1, VoiceAssumption DEF Step, VInv, VoiceTypes
  <2>2. Speaking(task[t], duplex, sent)
    BY DEF VInv, AllSpeaking
  <2>3. task[t].queue = <<>> /\ task[t].id = duplex.turn
    BY <2>1, <2>2 DEF Speaking
  <2>4. Len(task[t].queue) = 0
    BY <2>3
  <2>5. QED
    BY <2>1, <2>2, <2>3, <2>4 DEF Speaking
<1>3. duplex.turn \in 0 .. MaxCommits /\ duplex.sequence \in 0 .. MaxSegments /\ n \in Nat
      /\ MaxCommits \in Nat /\ MaxSegments \in Nat
  BY VoiceAssumption DEF VInv, VoiceTypes
<1>4. /\ q \in Seq(Segment) /\ Len(q) = n /\ DOMAIN q = 1 .. n
      /\ \A k \in 1 .. n : q[k].turn = duplex.turn /\ q[k].sequence = duplex.sequence + k
  BY <1>3 DEF Segment
<1>5. /\ duplex'.turn = duplex.turn /\ duplex'.sequence = duplex.sequence + n
      /\ duplex' \in [turn : 0 .. MaxCommits, sequence : 0 .. MaxSegments]
  BY <1>1, <1>3 DEF VInv, VoiceTypes
<1> HIDE DEF q
<1>6. r \in VoiceTask /\ r.at = "speak" /\ r.id = duplex.turn /\ r.queue = q
  BY <1>2, <1>4 DEF VoiceTask
<1>7. /\ sent' = sent /\ task' = [task EXCEPT ![t] = r]
      /\ UNCHANGED <<handler, goal, audio, current, commits>>
  BY <1>1 DEF Step, q
<1> HIDE DEF r
<1>8. Speaking(r, duplex', sent')
  BY <1>2, <1>3, <1>4, <1>5, <1>6, <1>7 DEF Speaking
<1>9. \A i \in DOMAIN r.queue : r.queue[i].turn = r.id
  BY <1>4, <1>6
<1>10. /\ OutputInOrder' /\ duplex'.turn <= commits /\ sent' \in Seq(Message)
       /\ \A i \in DOMAIN sent' : sent'[i].turn <= duplex'.turn
  BY <1>5, <1>7 DEF VInv, VoiceTypes, TurnNumbers, OutputInOrder
<1>11. QED
  BY <1>2, <1>5, <1>6, <1>7, <1>8, <1>9, <1>10, TaskKeeps

LEMMA SpeakKeeps ==
  ASSUME VInv, NEW t \in Turn, Speak(t)
  PROVE  VInv'
<1> DEFINE q == Tail(task[t].queue)
           s == Head(task[t].queue)
           r == [task[t] EXCEPT !.queue = q]
           m == [kind |-> "audio", turn |-> s.turn, sequence |-> s.sequence]
<1>1. /\ task[t].queue # <<>> /\ task[t].at = "speak" /\ task' = [task EXCEPT ![t] = r]
      /\ sent' = sent \/ sent' = Append(sent, m)
      /\ UNCHANGED <<handler, goal, audio, current, commits, duplex>>
  BY DEF Speak, Step, Sent
<1>2. task[t] \in VoiceTask /\ task[t].queue \in Seq(Segment)
      /\ duplex.sequence \in Nat /\ duplex.turn \in Nat
  BY VoiceAssumption DEF VInv, VoiceTypes, VoiceTask
<1>3. /\ q \in Seq(Segment) /\ s \in Segment /\ Len(q) = Len(task[t].queue) - 1 /\ Len(q) \in Nat
      /\ s = task[t].queue[1] /\ 1 \in DOMAIN task[t].queue
      /\ \A k \in DOMAIN q : k \in Nat /\ q[k] = task[t].queue[k + 1]
                             /\ k + 1 \in DOMAIN task[t].queue
  BY <1>1, <1>2
<1> HIDE DEF q, s
<1>4. r \in VoiceTask /\ r.at = "speak" /\ r.id = task[t].id /\ r.queue = q
  BY <1>1, <1>2, <1>3 DEF VoiceTask
<1>5. /\ task[t].id = duplex.turn
      /\ \A k \in DOMAIN task[t].queue :
           task[t].queue[k].sequence = duplex.sequence - Len(task[t].queue) + k
      /\ Len(task[t].queue) <= duplex.sequence
      /\ \A i \in DOMAIN sent :
           sent[i].turn = duplex.turn =>
             /\ sent[i].kind \in {"started", "audio"}
             /\ sent[i].sequence <= duplex.sequence - Len(task[t].queue)
  BY <1>1 DEF VInv, AllSpeaking, Speaking
<1>6. \A i \in DOMAIN task[t].queue : task[t].queue[i].turn = task[t].id
  BY DEF VInv, TurnNumbers
<1>7. s.turn = duplex.turn /\ s.sequence = duplex.sequence - Len(q)
  BY <1>2, <1>3, <1>5, <1>6
<1>8. /\ m \in Message /\ m.kind = "audio" /\ m.turn = duplex.turn
      /\ m.sequence = duplex.sequence - Len(q)
  BY <1>3, <1>7 DEF Message, Segment
<1> HIDE DEF r, m
<1>9. \A i \in DOMAIN sent : /\ sent[i].turn <= duplex.turn
                              /\ sent[i].turn \in Nat /\ sent[i].sequence \in Nat
  BY SentSoFar
<1>10. \A i \in DOMAIN sent :
         sent[i].turn = duplex.turn => /\ sent[i].kind \in {"started", "audio"}
                                       /\ sent[i].sequence < duplex.sequence - Len(q)
  BY <1>2, <1>3, <1>5, <1>9
<1>11. OutputInOrder'
  <2>1. CASE sent' = sent
    BY <2>1 DEF VInv, OutputInOrder
  <2>2. CASE sent' = Append(sent, m)
    BY <2>2, <1>8, <1>9, <1>10, SentInOrder DEF VInv, VoiceTypes
  <2>3. QED  BY <1>1, <2>1, <2>2
<1>12. /\ sent' \in Seq(Message)
       /\ \A i \in DOMAIN sent' : (i \in DOMAIN sent /\ sent'[i] = sent[i]) \/ sent'[i] = m
  <2>1. CASE sent' = sent
    BY <2>1 DEF VInv, VoiceTypes
  <2>2. CASE sent' = Append(sent, m)
    BY <2>2, <1>8, SentTypes DEF VInv, VoiceTypes
  <2>3. QED  BY <1>1, <2>1, <2>2
<1>13. \A i \in DOMAIN sent' : sent'[i].turn <= duplex'.turn
  BY <1>1, <1>2, <1>8, <1>9, <1>12
<1>14. Speaking(r, duplex', sent')
  <2>1. \A k \in DOMAIN q : q[k].sequence = duplex.sequence - Len(q) + k
    <3> SUFFICES ASSUME NEW k \in DOMAIN q
                 PROVE  q[k].sequence = duplex.sequence - Len(q) + k
      OBVIOUS
    <3>1. q[k].sequence = duplex.sequence - Len(task[t].queue) + (k + 1) /\ k \in Nat
      BY <1>3, <1>5
    <3>2. Len(task[t].queue) = Len(q) + 1
      BY <1>2, <1>3
    <3> DEFINE d == duplex.sequence
               l == Len(q)
    <3>3. q[k].sequence = d - (l + 1) + (k + 1) /\ d \in Nat /\ l \in Nat
      BY <1>2, <1>3, <3>1, <3>2
    <3> HIDE DEF d, l
    <3>4. q[k].sequence = d - l + k
      BY <3>1, <3>3
    <3>5. QED  BY <3>4 DEF d, l
  <2>2. \A i \in DOMAIN sent' :
          sent'[i].turn = duplex.turn => /\ sent'[i].kind \in {"started", "audio"}
                                         /\ sent'[i].sequence <= duplex.sequence - Len(q)
    <3> SUFFICES ASSUME NEW i \in DOMAIN sent', sent'[i].turn = duplex.turn
                 PROVE  /\ sent'[i].kind \in {"started", "audio"}
                        /\ sent'[i].sequence <= duplex.sequence - Len(q)
      OBVIOUS
    <3>1. CASE i \in DOMAIN sent /\ sent'[i] = sent[i]
      <4>1. duplex.sequence - Len(q) \in Int /\ sent[i].sequence \in Nat
        BY <1>2, <1>3, <1>9, <3>1
      <4>2. QED  BY <1>10, <3>1, <4>1
    <3>2. CASE sent'[i] = m
      <4>1. duplex.sequence - Len(q) \in Int
        BY <1>2, <1>3
      <4>2. QED  BY <1>8, <3>2, <4>1
    <3>3. QED  BY <1>12, <3>1, <3>2
  <2>3. Len(q) <= duplex.sequence
    BY <1>2, <1>3, <1>5
  <2>4. QED  BY <1>1, <1>4, <1>5, <2>1, <2>2, <2>3 DEF Speaking
<1>15. \A i \in DOMAIN r.queue : r.queue[i].turn = r.id
  BY <1>3, <1>4, <1>6
<1>16. duplex'.turn <= commits /\ duplex' \in [turn : 0 .. MaxCommits, sequence : 0 .. MaxSegments]
  BY <1>1 DEF VInv, TurnNumbers, VoiceTypes
<1>17. QED
  BY <1>1, <1>4, <1>11, <1>12, <1>13, <1>14, <1>15, <1>16, TaskKeeps

LEMMA SpokenKeeps ==
  ASSUME VInv, NEW t \in Turn, Spoken(t)
  PROVE  VInv'
<1>1. /\ task[t].queue = <<>> /\ task[t].at = "speak" /\ task[t] \in VoiceTask
      /\ UNCHANGED <<handler, goal, audio, current, commits, duplex>>
      /\ duplex.turn \in Nat /\ task[t].id = duplex.turn /\ Len(task[t].queue) = 0
      /\ duplex.sequence \in Nat
  <2>1. task[t].queue = <<>> /\ task[t].at = "speak" /\ task[t] \in VoiceTask
        /\ UNCHANGED <<handler, goal, audio, current, commits, duplex>>
    BY DEF Spoken, Step, VInv, VoiceTypes
  <2>2. duplex.turn \in Nat /\ duplex.sequence \in Nat /\ Len(task[t].queue) = 0
    BY <2>1, VoiceAssumption DEF VInv, VoiceTypes
  <2>3. task[t].id = duplex.turn
    BY <2>1 DEF VInv, AllSpeaking, Speaking
  <2>4. QED  BY <2>1, <2>2, <2>3
<1>2. \A i \in DOMAIN sent :
        /\ sent[i].turn <= duplex.turn /\ sent[i].turn \in Nat
        /\ sent[i].turn = duplex.turn => /\ sent[i].kind \in {"started", "audio"}
                                         /\ sent[i].sequence <= duplex.sequence
  <2>1. Speaking(task[t], duplex, sent)
    BY DEF VInv, AllSpeaking
  <2>2. \A i \in DOMAIN sent : sent[i].turn = duplex.turn => 
          /\ sent[i].kind \in {"started", "audio"}
          /\ sent[i].sequence <= duplex.sequence - Len(task[t].queue)
    BY <1>1, <2>1 DEF Speaking
  <2>3. duplex.sequence - Len(task[t].queue) = duplex.sequence
    BY <1>1
  <2>4. QED  BY <2>2, <2>3, SentSoFar
<1>3. duplex'.turn <= commits /\ duplex' \in [turn : 0 .. MaxCommits, sequence : 0 .. MaxSegments]
  BY <1>1 DEF VInv, TurnNumbers, VoiceTypes
<1>4. CASE task[t].flush
  <2> DEFINE m == [kind |-> "completed", turn |-> task[t].id, sequence |-> 0]
  <2>1. task' = [task EXCEPT ![t] = Over] /\ sent' = Append(sent, m)
    BY <1>4 DEF Spoken, Step, Sent
  <2>2. m \in Message /\ m.turn = duplex.turn /\ m.kind = "completed"
    BY <1>1 DEF Message
  <2> HIDE DEF m
  <2>3. OutputInOrder'
    BY <1>2, <2>1, <2>2, SentInOrder DEF VInv, VoiceTypes
  <2>4. sent' \in Seq(Message) /\ \A i \in DOMAIN sent' : sent'[i].turn <= duplex'.turn
    <3>1. /\ sent' \in Seq(Message)
          /\ \A i \in DOMAIN sent' : (i \in DOMAIN sent /\ sent'[i] = sent[i]) \/ sent'[i] = m
      BY <2>1, <2>2, SentTypes DEF VInv, VoiceTypes
    <3>2. QED  BY <1>1, <1>2, <2>2, <3>1
  <2>5. Speaking(Over, duplex', sent') /\ \A i \in DOMAIN Over.queue : Over.queue[i].turn = Over.id
    BY OverIsOver DEF Speaking
  <2>6. QED  BY <1>1, <1>3, <2>1, <2>3, <2>4, <2>5, OverIsOver, TaskKeeps
<1>5. CASE ~task[t].flush
  <2> DEFINE r == [task[t] EXCEPT !.at = "stream"]
  <2>1. task' = [task EXCEPT ![t] = r] /\ sent' = sent
    BY <1>5 DEF Spoken, Step
  <2>2. r \in VoiceTask /\ r.at = "stream" /\ r.id = duplex.turn /\ r.queue = <<>> /\ Len(r.queue) = 0
    BY <1>1 DEF VoiceTask
  <2> HIDE DEF r
  <2>3. Speaking(r, duplex', sent')
    BY <1>1, <1>2, <2>1, <2>2 DEF Speaking
  <2>4. OutputInOrder' /\ sent' \in Seq(Message) /\ \A i \in DOMAIN sent' : sent'[i].turn <= duplex'.turn
    BY <1>1, <1>2, <2>1 DEF VInv, VoiceTypes, OutputInOrder
  <2>5. \A i \in DOMAIN r.queue : r.queue[i].turn = r.id
    BY <2>2
  <2>6. QED  BY <1>1, <1>3, <2>1, <2>2, <2>3, <2>4, <2>5, TaskKeeps
<1>6. QED  BY <1>4, <1>5

-----------------------------------------------------------------------------
\* The session starts with nothing said and nothing running.
LEMMA VoiceStarts == VInit => VInv
<1> SUFFICES ASSUME VInit
             PROVE  VInv
  OBVIOUS
<1>1. /\ handler = "receive" /\ goal = "receive" /\ audio = FALSE /\ current = NoTurn
      /\ task = [t \in Turn |-> Over] /\ duplex = [turn |-> 0, sequence |-> 0]
      /\ sent = <<>> /\ commits = 0 /\ 0 \in 0 .. MaxCommits /\ 0 \in 0 .. MaxSegments
  BY VoiceAssumption DEF VInit
<1>2. sent \in Seq(Message) /\ DOMAIN sent = {}
  BY <1>1
<1>3. \A t \in Turn : task[t] = Over
  BY <1>1
<1>4. VoiceTypes
  <2>1. task \in [Turn -> VoiceTask]
    BY <1>1, OverIsOver
  <2>2. duplex \in [turn : 0 .. MaxCommits, sequence : 0 .. MaxSegments]
    BY <1>1
  <2>3. QED  BY <1>1, <1>2, <2>1, <2>2 DEF VoiceTypes
<1>5. OneTask
  BY <1>1, <1>3, OverIsOver DEF OneTask, Running
<1>6. TurnNumbers
  BY <1>1, <1>2, <1>3, OverIsOver DEF TurnNumbers
<1>7. AllSpeaking /\ Transcribing
  BY <1>3, OverIsOver DEF AllSpeaking, Speaking, Transcribing
<1>8. OutputInOrder
  BY <1>2 DEF OutputInOrder
<1>9. QED  BY <1>4, <1>5, <1>6, <1>7, <1>8 DEF VInv

\* The lifecycle cancels what runs.
LEMMA DisconnectKeeps ==
  ASSUME VInv, Disconnect
  PROVE  VInv'
<1>1. \A t \in Turn : /\ task[t] \in VoiceTask
                      /\ [task[t] EXCEPT !.at = "cancelled"] \in VoiceTask
                      /\ [task[t] EXCEPT !.at = "cancelled"].at = "cancelled"
                      /\ [task[t] EXCEPT !.at = "cancelled"].id = task[t].id
                      /\ [task[t] EXCEPT !.at = "cancelled"].queue = task[t].queue
  BY DEF VInv, VoiceTypes, VoiceTask
<1> DEFINE told == [t \in Turn |-> [task[t] EXCEPT !.at = "cancelled"]]
<1>2. \A t \in Turn : /\ told[t] \in VoiceTask /\ told[t].at = "cancelled"
                      /\ told[t].id = task[t].id /\ told[t].queue = task[t].queue
  BY <1>1
<1>3. /\ task' = [t \in Turn |-> IF Running(t) THEN told[t] ELSE task[t]]
      /\ handler' = "close" /\ UNCHANGED <<goal, audio, current, duplex, sent, commits>>
  BY DEF Disconnect
<1> HIDE DEF told
<1>4. \A t \in Turn : task'[t] = IF Running(t) THEN told[t] ELSE task[t]
  BY <1>3
<1>5. VoiceTypes'
  <2>1. task' \in [Turn -> VoiceTask]
    BY <1>1, <1>2, <1>3
  <2>2. QED  BY <1>3, <2>1 DEF VInv, VoiceTypes
<1>6. \A t \in Turn : /\ task'[t].at \in {"done", "cancelled"}
                      /\ task'[t].at = "cancelled" => Running(t)
                      /\ task'[t].id = task[t].id /\ task'[t].queue = task[t].queue
  <2> SUFFICES ASSUME NEW t \in Turn
               PROVE  /\ task'[t].at \in {"done", "cancelled"}
                      /\ task'[t].at = "cancelled" => Running(t)
                      /\ task'[t].id = task[t].id /\ task'[t].queue = task[t].queue
    OBVIOUS
  <2>1. ~Running(t) => task[t].at = "done"
    BY VoiceAssumption DEF Running
  <2>2. QED  BY <1>2, <1>4, <2>1
<1>7. OneTask'
  BY <1>3, <1>6 DEF VInv, OneTask, Running
<1>8. TurnNumbers'
  BY <1>3, <1>6 DEF VInv, TurnNumbers
<1>9. AllSpeaking' /\ Transcribing'
  BY <1>6 DEF AllSpeaking, Speaking, Transcribing
<1>10. OutputInOrder'
  BY <1>3 DEF VInv, OutputInOrder
<1>11. QED  BY <1>5, <1>7, <1>8, <1>9, <1>10 DEF VInv

\* The client is told of the interruption, and the handler waits for it again.
LEMMA ToldKeeps ==
  ASSUME VInv, TurnCancelled, goal = "receive"
  PROVE  VInv'
<1> DEFINE m == [kind |-> "interrupted", turn |-> duplex.turn, sequence |-> 0]
<1>1. /\ ~Running(current) /\ sent' = Append(sent, m) /\ current' = NoTurn
      /\ handler' = "receive" /\ UNCHANGED <<goal, audio, task, commits, duplex>>
  BY DEF TurnCancelled, Sent
<1>2. m \in Message /\ m.turn = duplex.turn /\ m.kind = "interrupted" /\ duplex.turn \in Nat
  BY VoiceAssumption DEF Message, VInv, VoiceTypes
<1> HIDE DEF m
<1>3. /\ sent' \in Seq(Message)
      /\ \A i \in DOMAIN sent' : (i \in DOMAIN sent /\ sent'[i] = sent[i]) \/ sent'[i] = m
  BY <1>1, <1>2, SentTypes DEF VInv, VoiceTypes
<1>4. OutputInOrder'
  BY <1>1, <1>2, SentSoFar, SentInOrder DEF VInv, VoiceTypes
<1>5. \A t \in Turn : task'[t].at = "done"
  BY <1>1, NobodyRuns
<1>6. VoiceTypes'
  BY <1>1, <1>3 DEF VInv, VoiceTypes
<1>7. OneTask'
  BY <1>1, <1>5 DEF OneTask, Running
<1>8. \A i \in DOMAIN sent' : sent'[i].turn <= duplex'.turn
  BY <1>1, <1>2, <1>3, SentSoFar
<1>9. TurnNumbers'
  BY <1>1, <1>5, <1>8 DEF VInv, TurnNumbers
<1>10. AllSpeaking' /\ Transcribing'
  BY <1>5 DEF AllSpeaking, Speaking, Transcribing
<1>11. QED  BY <1>4, <1>6, <1>7, <1>9, <1>10 DEF VInv

LEMMA VoiceKeeps == VInv /\ [VNext]_vvars => VInv'
<1> SUFFICES ASSUME VInv, [VNext]_vvars
             PROVE  VInv'
  OBVIOUS
<1>1. audio \in BOOLEAN /\ (~audio) \in BOOLEAN
  BY DEF VInv, VoiceTypes
<1>2. CASE Receive
  BY <1>1, <1>2, QuietKeeps DEF Receive
<1>3. CASE UserCancel
  <2>1. CASE Running(current)
    BY <1>3, <2>1, CancelTurnKeeps DEF UserCancel, CancelActiveResponse
  <2>2. CASE ~Running(current)
    BY <1>3, <2>2, QuietKeeps DEF UserCancel, CancelActiveResponse
  <2>3. QED  BY <2>1, <2>2
<1>4. CASE BargeIn
  <2>1. CASE Running(current)
    BY <1>1, <1>4, <2>1, CancelTurnKeeps DEF BargeIn, CancelActiveResponse
  <2>2. CASE ~Running(current)
    BY <1>1, <1>4, <2>2, QuietKeeps DEF BargeIn, CancelActiveResponse
  <2>3. QED  BY <2>1, <2>2
<1>5. CASE Commit
  <2>1. CASE Running(current)
    BY <1>1, <1>5, <2>1, CancelTurnKeeps DEF Commit
  <2>2. CASE ~Running(current)
    BY <1>5, <2>2, BegunKeeps DEF Commit
  <2>3. QED  BY <2>1, <2>2
<1>6. CASE TurnCancelled
  <2>1. CASE goal = "commit"
    <3>1. commits < MaxCommits
      BY <1>6, <2>1 DEF VInv, OneTask, TurnCancelled
    <3>2. QED  BY <1>6, <2>1, <3>1, BegunKeeps DEF TurnCancelled
  <2>2. CASE goal = "receive"
    BY <1>6, <2>2, ToldKeeps
  <2>3. QED  BY <2>1, <2>2 DEF VInv, VoiceTypes
<1>7. CASE TooLarge
  BY <1>1, <1>7, QuietKeeps DEF TooLarge
<1>8. CASE Disconnect
  BY <1>8, DisconnectKeeps
<1>9. CASE Closed
  BY <1>1, <1>9, QuietKeeps DEF Closed
<1>10. ASSUME NEW t \in Turn, BeginTurn(t) \/ Chunk(t) \/ Speak(t) \/ Spoken(t)
       PROVE  VInv'
  BY <1>10, BeginTurnKeeps, ChunkKeeps, SpeakKeeps, SpokenKeeps
<1>11. ASSUME NEW t \in Turn, TurnEnds(t)
       PROVE  VInv'
  BY <1>11, TurnEndsKeeps DEF TurnEnds, Step
<1>12. CASE UNCHANGED vvars
  BY <1>12 DEF vvars, VInv, VoiceTypes, OneTask, Running, TurnNumbers, AllSpeaking, Speaking,
               Transcribing, OutputInOrder
<1>13. QED
  BY <1>2, <1>3, <1>4, <1>5, <1>6, <1>7, <1>8, <1>9, <1>10, <1>11, <1>12 DEF VNext

LEMMA VoiceInvariant == VoiceSpec => []VInv
BY VoiceStarts, VoiceKeeps, PTL DEF VoiceSpec

\* Every value of a voice session has its type, and what a task has yet to
\* speak is of its own turn.
THEOREM VoiceTypesKept == VoiceSpec => []VTypeOK
<1>1. VInv => VTypeOK
  <2> SUFFICES ASSUME VInv
               PROVE  VTypeOK
    OBVIOUS
  <2>1. \A t \in Turn : task[t] \in VoiceTask
    BY DEF VInv, VoiceTypes
  <2>2. \A t \in Turn : /\ task[t].at \in {"done", "transcribe", "stream", "speak", "cancelled"}
                        /\ task[t].id \in 0 .. MaxCommits
    BY <2>1 DEF VoiceTask
  <2>3. QED  BY <2>2 DEF VInv, VoiceTypes, TurnNumbers, VTypeOK
<1>2. QED  BY <1>1, VoiceInvariant, PTL

\* What the client gets of the assistant's turns comes in their order, and
\* nothing of a turn follows its end or its interruption, however the handler
\* and the tasks interleave (ws_voice.py 145-163, 243-265; voice.py 186-267).
THEOREM VoiceInOrder == VoiceSpec => []OutputInOrder
<1>1. VInv => OutputInOrder
  BY DEF VInv
<1>2. QED  BY <1>1, VoiceInvariant, PTL

\* There is at most one task of a session, and none after it was closed.
THEOREM SessionsEndTheirTasks == VoiceSpec => []ClosedSessionIsOver
<1>1. VInv => ClosedSessionIsOver
  BY DEF VInv, OneTask, ClosedSessionIsOver
<1>2. QED  BY <1>1, VoiceInvariant, PTL

-----------------------------------------------------------------------------
(* ConversationMemory: the inductive invariant. *)

Places  == {"idle", "user", "list", "load", "get", "create", "add", "delete", "others", "count",
            "peek", "read", "replace"}
\* Places of a coroutine that acts on a session; on one that somebody has; with texts.
AtOne   == {"load", "get", "add", "delete", "count", "peek", "read", "replace"}
AtKnown == {"get", "add", "read", "replace"}
Errand  == [at : Places, user : User \cup {Unset}, session : Session \cup {Unset},
            messages : Seq(Nat), left : Nat, next : {"end", "add", "create", "switch"}]

\* The conversation of a session, if it has one.
Of(s, conversations) == IF s \in Session THEN conversations[s] ELSE Unset

\* Turns that are known; those of conversation k, in their order.
Fits(texts, k, known) ==
  /\ texts \in Seq(Nat) /\ \A i \in DOMAIN texts : texts[i] <= Len(known)
  /\ k # Unset => /\ \A i \in DOMAIN texts : texts[i] # 0 => known[texts[i]] = k
                  /\ InOrder(texts)

\* Turns that were said before those.
Follows(texts, those) ==
  \A i \in DOMAIN texts, j \in DOMAIN those : texts[i] = 0 \/ texts[i] < those[j]

AttributeTypes ==
  /\ user \in User \cup {Unset} /\ session \in Session \cup {Unset}
  /\ home \in Seq(Session \cup {Unset}) /\ Len(home) <= MaxAdds
  /\ conversation \in [Session -> Session \cup {Unset}]
  /\ owner \in [Session -> User \cup {Unset, Gone}]
  /\ stored \in [Session -> Seq(Nat)]

\* What a coroutine needs for what it does.
Equipped(r, u, t) ==
  /\ r \in Errand
  /\ r.at \in AtOne => r.session \in Session
  /\ r.at = "count" => r.left >= 1
  /\ r.at = "add" => r.messages # <<>> /\ t \in Session
  /\ r.at \in {"user", "load", "create", "peek"} => r.user \in User
  /\ r.at \in {"list", "others", "count"} \/ (r.at = "delete" /\ r.next = "switch") => u \in User
  /\ r.at \notin {"add", "replace", "delete", "create"} => r.messages = <<>>

Errands ==
  /\ doing \in [Coroutine -> Errand]
  /\ \A c \in Coroutine : Equipped(doing[c], user, session)

\* Whoever is not idle waits for the database, once.
Queued ==
  /\ calls \in Seq(Coroutine) /\ Distinct(calls)
  /\ Items(calls) = {c \in Coroutine : doing[c].at # "idle"}

\* A session nobody has yet is empty, and nobody is at it for its texts.
Stranger(r) == r.at \notin AtKnown /\ r.messages = <<>>
Fresh ==
  \A s \in Session :
    owner[s] = Unset =>
      /\ stored[s] = <<>> /\ s # session
      /\ \A c \in Coroutine : doing[c].session = s => Stranger(doing[c])

\* All the texts there are belong where they are.
Belong ==
  /\ Fits(turns, Of(session, conversation), home)
  /\ \A s \in Session : Fits(stored[s], conversation[s], home)
AllFit ==
  \A c \in Coroutine : Fits(doing[c].messages, Of(doing[c].session, conversation), home)

\* Adding texts to a session that holds one conversation.
Adds(r, conversations) == r.at = "add" /\ conversations[r.session] # Unset

\* They were said after all that the session has, will have from a compaction, and
\* but for the first of them after what the agent is given.
LastSaid ==
  \A c \in Coroutine :
    Adds(doing[c], conversation) =>
      /\ Follows(stored[doing[c].session], doing[c].messages)
      /\ session = doing[c].session => Follows(turns, Tail(doing[c].messages))
      /\ \A d \in Coroutine :
           doing[d].at = "replace" /\ doing[d].session = doing[c].session =>
             Follows(doing[d].messages, doing[c].messages)

\* Two at one session add a turn each...
Alone ==
  \A c, d \in Coroutine :
    Adds(doing[c], conversation) /\ Adds(doing[d], conversation) /\ c # d /\ doing[c].session = doing[d].session =>
      Len(doing[c].messages) = 1

\* ... in the order in which they were said.
FirstSaid ==
  \A i, j \in DOMAIN calls :
    i < j /\ Adds(doing[calls[i]], conversation) /\ Adds(doing[calls[j]], conversation) /\ doing[calls[i]].session = doing[calls[j]].session =>
      Follows(doing[calls[i]].messages, doing[calls[j]].messages)

MemoryInv ==
  AttributeTypes /\ Errands /\ Queued /\ Fresh /\ Belong /\ AllFit /\ LastSaid /\ Alone /\ FirstSaid

-----------------------------------------------------------------------------
(* Lists of texts. *)

\* The last n of them.
LEMMA LastTexts ==
  ASSUME NEW texts \in Seq(Nat), NEW n \in Nat
  PROVE  /\ Last(texts, n) \in Seq(Nat)
         /\ \E d \in Nat : \A i \in DOMAIN Last(texts, n) :
              i + d \in DOMAIN texts /\ Last(texts, n)[i] = texts[i + d]
<1> DEFINE l == Len(texts)
           first == IF l > n THEN l - n + 1 ELSE 1
           s == SubSeq(texts, first, l)
<1>1. l \in Nat /\ first \in 1 .. l + 1 /\ DOMAIN texts = 1 .. l
  OBVIOUS
<1>2. s = Last(texts, n)
  BY DEF Last
<1> HIDE DEF first
<1>3. s \in Seq(Nat) /\ Len(s) = l - first + 1 /\ \A i \in 1 .. l - first + 1 : s[i] = texts[first + i - 1]
  BY <1>1
<1> HIDE DEF s, l
<1>4. DOMAIN s = 1 .. l - first + 1
  BY <1>1, <1>3
<1> DEFINE d == first - 1
<1>5. d \in Nat /\ first = d + 1 /\ l - first + 1 = l - d
  BY <1>1
<1> HIDE DEF d
<1>6. ASSUME NEW i \in DOMAIN s
      PROVE  i + d \in DOMAIN texts /\ s[i] = texts[i + d]
  <2>1. i \in 1 .. l - d
    BY <1>4, <1>5
  <2>2. i + d \in 1 .. l /\ first + i - 1 = i + d
    BY <1>1, <1>5, <2>1
  <2>3. QED  BY <1>1, <1>3, <1>5, <2>1, <2>2
<1>7. QED  BY <1>2, <1>3, <1>5, <1>6

LEMMA LastFits ==
  ASSUME NEW texts, NEW k, NEW known, Fits(texts, k, known), NEW n \in Nat
  PROVE  /\ Fits(Last(texts, n), k, known)
         /\ \A m : Follows(texts, m) => Follows(Last(texts, n), m)
<1>1. texts \in Seq(Nat)
  BY DEF Fits
<1>2. PICK d \in Nat : \A i \in DOMAIN Last(texts, n) :
              i + d \in DOMAIN texts /\ Last(texts, n)[i] = texts[i + d]
  BY <1>1, LastTexts
<1>3. Last(texts, n) \in Seq(Nat)
  BY <1>1, LastTexts
<1> DEFINE l == Last(texts, n)
<1> HIDE DEF l
<1>4. DOMAIN l \subseteq Nat
  BY <1>3 DEF l
<1>5. InOrder(texts) => InOrder(l)
  <2> SUFFICES ASSUME InOrder(texts), NEW i \in DOMAIN l, NEW j \in DOMAIN l, i < j
               PROVE  l[i] = 0 \/ l[i] < l[j]
    BY DEF InOrder
  <2>1. i + d < j + d /\ i + d \in DOMAIN texts /\ j + d \in DOMAIN texts
    BY <1>2, <1>4 DEF l
  <2>2. texts[i + d] = 0 \/ texts[i + d] < texts[j + d]
    BY <2>1 DEF InOrder
  <2>3. QED  BY <1>2, <2>2 DEF l
<1>6. \A i \in DOMAIN l : l[i] <= Len(known) /\ (k # Unset /\ l[i] # 0 => known[l[i]] = k)
  BY <1>2 DEF l, Fits
<1>7. \A m : Follows(texts, m) => Follows(l, m)
  BY <1>2 DEF l, Follows
<1>8. QED  BY <1>3, <1>5, <1>6, <1>7 DEF l, Fits

LEMMA NothingFits ==
  ASSUME NEW k, NEW known
  PROVE  Fits(<<>>, k, known) /\ \A m : Follows(<<>>, m) /\ Follows(m, <<>>)
BY DEF Fits, Follows, InOrder

\* A summary comes first.
LEMMA SummaryFits ==
  ASSUME NEW texts, NEW k, NEW known, Len(known) \in Nat, Fits(texts, k, known)
  PROVE  /\ Fits(<<0>> \o texts, k, known)
         /\ \A m : Follows(texts, m) => Follows(<<0>> \o texts, m)
<1> DEFINE l == <<0>> \o texts
<1>1. /\ texts \in Seq(Nat) /\ l \in Seq(Nat) /\ DOMAIN l = 1 .. Len(texts) + 1 /\ l[1] = 0
      /\ Len(texts) \in Nat /\ DOMAIN texts = 1 .. Len(texts)
      /\ \A i \in 2 .. Len(texts) + 1 : l[i] = texts[i - 1] /\ i - 1 \in DOMAIN texts
  BY DEF Fits
<1> HIDE DEF l
<1>2. InOrder(texts) => InOrder(l)
  <2> SUFFICES ASSUME InOrder(texts), NEW i \in DOMAIN l, NEW j \in DOMAIN l, i < j, i # 1
               PROVE  l[i] < l[j] \/ l[i] = 0
    BY <1>1 DEF InOrder
  <2>1. i \in 2 .. Len(texts) + 1 /\ j \in 2 .. Len(texts) + 1 /\ i - 1 < j - 1
    BY <1>1, SMTT(30)
  <2>2. QED  BY <1>1, <2>1 DEF InOrder
<1>3. \A i \in DOMAIN l : i = 1 \/ i \in 2 .. Len(texts) + 1
  BY <1>1
<1>4. ASSUME NEW i \in DOMAIN l
      PROVE  l[i] <= Len(known) /\ (k # Unset /\ l[i] # 0 => known[l[i]] = k)
  <2>1. CASE i = 1
    BY <1>1, <2>1
  <2>2. CASE i \in 2 .. Len(texts) + 1
    <3>1. i - 1 \in DOMAIN texts /\ l[i] = texts[i - 1]
      BY <1>1, <2>2
    <3>2. QED  BY <3>1 DEF Fits
  <2>3. QED  BY <1>3, <2>1, <2>2
<1>5. ASSUME NEW m, Follows(texts, m), NEW i \in DOMAIN l, NEW j \in DOMAIN m
      PROVE  l[i] = 0 \/ l[i] < m[j]
  <2>1. CASE i = 1
    BY <1>1, <2>1
  <2>2. CASE i \in 2 .. Len(texts) + 1
    <3>1. i - 1 \in DOMAIN texts /\ l[i] = texts[i - 1]
      BY <1>1, <2>2
    <3>2. QED  BY <1>5, <3>1 DEF Follows
  <2>3. QED  BY <1>3, <2>1, <2>2
<1>6. QED  BY <1>1, <1>2, <1>4, <1>5 DEF l, Fits, Follows

\* Another turn was said somewhere; it follows all that were known.
LEMMA KnownGrows ==
  ASSUME NEW texts, NEW k, NEW S, NEW known \in Seq(S), Fits(texts, k, known), NEW t \in S
  PROVE  Fits(texts, k, Append(known, t)) /\ Follows(texts, <<Len(known) + 1>>)
<1> DEFINE more == Append(known, t)
<1>1. Len(more) = Len(known) + 1 /\ Len(known) \in Nat /\ \A n \in 1 .. Len(known) : more[n] = known[n]
  OBVIOUS
<1> HIDE DEF more
<1>2. \A i \in DOMAIN texts : texts[i] \in Nat /\ texts[i] <= Len(known)
  BY DEF Fits
<1>3. ASSUME NEW i \in DOMAIN texts
      PROVE  texts[i] <= Len(more) /\ (k # Unset /\ texts[i] # 0 => more[texts[i]] = k)
  <2>1. /\ texts[i] \in Nat /\ texts[i] <= Len(known)
        /\ k # Unset /\ texts[i] # 0 => known[texts[i]] = k
    BY <1>2 DEF Fits
  <2>2. QED  BY <1>1, <2>1
<1>4. Fits(texts, k, more)
  BY <1>3 DEF Fits
<1>5. ASSUME NEW i \in DOMAIN texts, NEW j \in DOMAIN <<Len(known) + 1>>
      PROVE  texts[i] < <<Len(known) + 1>>[j]
  <2>1. texts[i] \in Nat /\ texts[i] <= Len(known) /\ j = 1 /\ Len(known) \in Nat
    BY <1>1, <1>2
  <2>2. QED  BY <2>1
<1>6. QED  BY <1>4, <1>5 DEF Follows, more

\* The turn just said fits.
LEMMA SaidFits ==
  ASSUME NEW S, NEW known \in Seq(S), NEW t \in S
  PROVE  Fits(<<Len(known) + 1>>, t, Append(known, t))
<1> DEFINE l == <<Len(known) + 1>>
           more == Append(known, t)
<1>1. /\ l \in Seq(Nat) /\ DOMAIN l = {1} /\ l[1] = Len(known) + 1
      /\ Len(more) = Len(known) + 1 /\ more[Len(known) + 1] = t /\ Len(known) \in Nat
  OBVIOUS
<1> HIDE DEF l, more
<1>2. \A i \in DOMAIN l : l[i] <= Len(more) /\ more[l[i]] = t
  BY <1>1
<1>3. InOrder(l)
  BY <1>1 DEF InOrder
<1>4. QED  BY <1>1, <1>2, <1>3 DEF Fits, l, more

\* Of texts with several conversations nothing is said.
LEMMA AnyFits ==
  ASSUME NEW texts, NEW k, NEW known, Fits(texts, k, known)
  PROVE  Fits(texts, Unset, known)
BY DEF Fits

\* All but the first of some texts.
LEMMA TailFits ==
  ASSUME NEW texts, texts # <<>>, NEW k, NEW known, Fits(texts, k, known)
  PROVE  /\ Fits(Tail(texts), k, known)
         /\ \A m : Follows(m, texts) => Follows(m, Tail(texts))
         /\ \A m : Follows(texts, m) => Follows(Tail(texts), m)
<1> DEFINE l == Tail(texts)
<1>1. texts \in Seq(Nat) /\ Len(texts) \in Nat /\ DOMAIN texts = 1 .. Len(texts) /\ Len(texts) # 0
  BY DEF Fits
<1>2. l \in Seq(Nat) /\ Len(l) = Len(texts) - 1 /\ \A i \in 1 .. Len(texts) - 1 : l[i] = texts[i + 1]
  BY <1>1
<1> HIDE DEF l
<1> DEFINE n == Len(texts)
<1>3. \A i \in DOMAIN l : i \in Nat /\ i + 1 \in DOMAIN texts /\ l[i] = texts[i + 1]
  <2>1. DOMAIN l = 1 .. n - 1 /\ DOMAIN texts = 1 .. n /\ n \in Nat
    BY <1>1, <1>2
  <2> HIDE DEF n
  <2>2. \A i \in 1 .. n - 1 : i \in Nat /\ i + 1 \in 1 .. n
    BY <2>1
  <2>3. \A i \in 1 .. n - 1 : l[i] = texts[i + 1]
    BY <1>2 DEF n
  <2>4. QED  BY <2>1, <2>2, <2>3
<1>4. InOrder(texts) => InOrder(l)
  <2> SUFFICES ASSUME InOrder(texts), NEW i \in DOMAIN l, NEW j \in DOMAIN l, i < j
               PROVE  l[i] = 0 \/ l[i] < l[j]
    BY DEF InOrder
  <2>1. i + 1 < j + 1 /\ i + 1 \in DOMAIN texts /\ j + 1 \in DOMAIN texts
    BY <1>3
  <2>2. QED  BY <1>3, <2>1 DEF InOrder
<1>5. Fits(l, k, known)
  BY <1>2, <1>3, <1>4 DEF Fits
<1>6. \A m : (Follows(m, texts) => Follows(m, l)) /\ (Follows(texts, m) => Follows(l, m))
  BY <1>3 DEF Follows
<1>7. QED  BY <1>5, <1>6 DEF l

LEMMA OneText ==
  ASSUME NEW texts \in Seq(Nat)
  PROVE  /\ Len(texts) = 1 => Tail(texts) = <<>>
         /\ texts # <<>> /\ ~(Len(texts) > 1) => Len(texts) = 1
<1> DEFINE none == <<>>
           rest == Tail(texts)
           n == Len(texts)
           m == Len(rest)
<1>1. /\ Len(none) = 0
      /\ texts # none => n \in Nat \ {0}
      /\ texts # none => rest \in Seq(Nat) /\ m = n - 1
      /\ rest \in Seq(Nat) /\ rest # none => m \in Nat \ {0}
  <2>1. rest \in Seq(Nat) /\ rest # none => m \in Nat \ {0}
    <3> HIDE DEF rest
    <3>1. QED  BY EmptySeq
  <2>2. QED  BY <2>1, EmptySeq, HeadTailProperties
<1> HIDE DEF none, rest, m
<1>2. n = 1 => texts # none
  <2>1. 0 # 1
    OBVIOUS
  <2>2. QED  BY <1>1, <2>1, Zenon
<1> HIDE DEF n
<1>3. n = 1 => rest = none
  BY <1>1, <1>2
<1>4. texts # none /\ ~(n > 1) => n = 1
  BY <1>1
<1>5. QED  BY <1>3, <1>4 DEF none, rest, n

\* The first of some texts joins others.
LEMMA HeadFits ==
  ASSUME NEW texts, NEW those, those # <<>>, NEW k, NEW known,
         Fits(texts, k, known), Fits(those, k, known), k # Unset => Follows(texts, those)
  PROVE  /\ Fits(Append(texts, Head(those)), k, known)
         /\ k # Unset => Follows(Append(texts, Head(those)), Tail(those))
         /\ \A m : Follows(texts, m) /\ Follows(those, m) => Follows(Append(texts, Head(those)), m)
<1> DEFINE h == Head(those)
           l == Append(texts, h)
<1>1. /\ texts \in Seq(Nat) /\ Len(texts) \in Nat /\ DOMAIN texts = 1 .. Len(texts)
      /\ those \in Seq(Nat) /\ 1 \in DOMAIN those /\ h = those[1] /\ h \in Nat
  BY DEF Fits
<1> HIDE DEF h
<1>2. /\ l \in Seq(Nat) /\ DOMAIN l = 1 .. Len(texts) + 1 /\ l[Len(texts) + 1] = h
      /\ \A i \in DOMAIN texts : l[i] = texts[i]
  BY <1>1
<1> HIDE DEF l
<1>3. \A i \in DOMAIN l : i \in DOMAIN texts \/ i = Len(texts) + 1
  BY <1>1, <1>2
<1>4. k # Unset => InOrder(l)
  <2> SUFFICES ASSUME k # Unset, NEW i \in DOMAIN l, NEW j \in DOMAIN l, i < j
               PROVE  l[i] = 0 \/ l[i] < l[j]
    BY DEF InOrder
  <2>1. i \in DOMAIN texts
    BY <1>1, <1>2
  <2>2. CASE j \in DOMAIN texts
    BY <1>2, <2>1, <2>2 DEF Fits, InOrder
  <2>3. CASE j = Len(texts) + 1
    BY <1>1, <1>2, <2>1, <2>3 DEF Follows
  <2>4. QED  BY <1>3, <2>2, <2>3
<1>5. \A i \in DOMAIN l : l[i] <= Len(known) /\ (k # Unset /\ l[i] # 0 => known[l[i]] = k)
  <2>1. h <= Len(known) /\ (k # Unset /\ h # 0 => known[h] = k)
    BY <1>1 DEF Fits
  <2>2. \A i \in DOMAIN texts : texts[i] <= Len(known) /\ (k # Unset /\ texts[i] # 0 => known[texts[i]] = k)
    BY DEF Fits
  <2>3. QED  BY <1>2, <1>3, <2>1, <2>2
<1>6. ASSUME k # Unset
      PROVE  Follows(l, Tail(those))
  <2>1. Follows(texts, Tail(those))
    BY <1>6, TailFits
  <2>2. \A j \in DOMAIN Tail(those) :
          j + 1 \in DOMAIN those /\ 1 < j + 1 /\ Tail(those)[j] = those[j + 1]
    BY <1>1
  <2>3. \A j \in DOMAIN Tail(those) : h = 0 \/ h < Tail(those)[j]
    BY <1>1, <1>6, <2>2 DEF Fits, InOrder
  <2>4. QED  BY <1>2, <1>3, <2>1, <2>3 DEF Follows
<1>7. ASSUME NEW m, Follows(texts, m), Follows(those, m)
      PROVE  Follows(l, m)
  <2>1. \A j \in DOMAIN m : h = 0 \/ h < m[j]
    BY <1>1, <1>7 DEF Follows
  <2>2. QED  BY <1>2, <1>3, <1>7, <2>1 DEF Follows
<1>8. QED  BY <1>2, <1>4, <1>5, <1>6, <1>7 DEF l, h, Fits

-----------------------------------------------------------------------------
(* The queue of the database. *)

LEMMA OthersStay ==
  ASSUME calls \in Seq(Coroutine), Distinct(calls), NEW c \in Coroutine
  PROVE  /\ Others(c) \in Seq(Coroutine) /\ Distinct(Others(c))
         /\ Items(Others(c)) = Items(calls) \ {c}
         /\ \A i, j \in DOMAIN Others(c) : i < j =>
              \E k, l \in DOMAIN calls : k < l /\ Others(c)[i] = calls[k] /\ Others(c)[j] = calls[l]
<1>1. CASE c \in Items(calls)
  BY <1>1, LeaveKeeps DEF Others
<1>2. CASE c \notin Items(calls)
  BY <1>2, LeaveNobody DEF Others
<1>3. QED  BY <1>1, <1>2

\* A coroutine that calls again stands last, one that ends is gone, and the
\* others keep their order.
LEMMA CallsMove ==
  ASSUME calls \in Seq(Coroutine), Distinct(calls), NEW c \in Coroutine,
         calls' = Others(c) \/ calls' = Append(Others(c), c)
  PROVE  /\ calls' \in Seq(Coroutine) /\ Distinct(calls')
         /\ calls' = Others(c) => Items(calls') = Items(calls) \ {c}
         /\ calls' = Append(Others(c), c) => Items(calls') = Items(calls) \cup {c}
         /\ \A i, j \in DOMAIN calls' : i < j =>
              /\ calls'[i] # c
              /\ \/ calls'[j] = c
                 \/ \E k, l \in DOMAIN calls : k < l /\ calls'[i] = calls[k] /\ calls'[j] = calls[l]
<1> DEFINE q == Others(c)
<1>1. /\ q \in Seq(Coroutine) /\ Distinct(q) /\ Items(q) = Items(calls) \ {c}
      /\ \A i, j \in DOMAIN q : i < j =>
           \E k, l \in DOMAIN calls : k < l /\ q[i] = calls[k] /\ q[j] = calls[l]
  BY OthersStay
<1>2. \A i \in DOMAIN q : q[i] # c
  BY <1>1 DEF Items
<1> HIDE DEF q
<1>3. CASE calls' = q
  <2>1. calls' # Append(q, c)
    BY <1>1, <1>3, <1>2
  <2>2. QED  BY <1>1, <1>2, <1>3, <2>1 DEF q
<1>4. CASE calls' = Append(q, c)
  <2>1. calls' # q
    BY <1>1, <1>4, <1>2
  <2>2. /\ calls' \in Seq(Coroutine) /\ Distinct(calls') /\ Items(calls') = Items(q) \cup {c}
        /\ \A i, j \in DOMAIN calls' : i < j =>
             /\ i \in DOMAIN q /\ calls'[i] = q[i]
             /\ (j \in DOMAIN q /\ calls'[j] = q[j]) \/ calls'[j] = c
    BY <1>1, <1>4, AppendKeeps
  <2>3. ASSUME NEW i \in DOMAIN calls', NEW j \in DOMAIN calls', i < j
        PROVE  /\ calls'[i] # c
               /\ \/ calls'[j] = c
                  \/ \E k, l \in DOMAIN calls : k < l /\ calls'[i] = calls[k] /\ calls'[j] = calls[l]
    BY <1>1, <1>2, <2>2, <2>3
  <2>4. QED  BY <1>1, <2>1, <2>2, <2>3 DEF q
<1>5. QED  BY <1>3, <1>4 DEF q

\* Whoever is served stands before all the others.
LEMMA ServedFirst ==
  ASSUME MemoryInv, NEW c \in Coroutine, Serves(c, "add"), Adds(doing[c], conversation),
         NEW d \in Coroutine, d # c, Adds(doing[d], conversation), doing[d].session = doing[c].session
  PROVE  Follows(doing[c].messages, doing[d].messages)
<1>1. d \in Items(calls)
  BY DEF MemoryInv, Queued, Adds
<1>2. PICK j \in DOMAIN calls : calls[j] = d
  BY <1>1 DEF Items
<1>3. calls[1] = c /\ 1 \in DOMAIN calls /\ 1 < j
  BY <1>2 DEF MemoryInv, Queued, Serves
<1>4. QED  BY <1>2, <1>3 DEF MemoryInv, FirstSaid

-----------------------------------------------------------------------------
\* What every step does: one coroutine moves on, and the texts it moves fit.
LEMMA MovesOn ==
  ASSUME MemoryInv, NEW c \in Coroutine, NEW r, doing' = [doing EXCEPT ![c] = r],
         (r.at = "idle" /\ calls' = Others(c)) \/ (r.at # "idle" /\ calls' = Append(Others(c), c)),
         Equipped(r, user', session'), AttributeTypes',
         user \in User => user' \in User, session \in Session => session' \in Session,
         home' = home \/ \E t \in Session \cup {Unset} : home' = Append(home, t),
         \A s \in Session : conversation'[s] \in {conversation[s], Unset} \/ owner[s] = Unset,
         Belong', Fits(r.messages, Of(r.session, conversation'), home'),
         \A s \in Session : owner'[s] = Unset =>
           /\ owner[s] = Unset /\ stored'[s] = <<>> /\ s # session'
           /\ r.session = s => Stranger(r),
         \A d \in Coroutine :
           d # c /\ Adds(doing[d], conversation) /\ conversation'[doing[d].session] # Unset =>
             /\ Follows(stored'[doing[d].session], doing[d].messages)
             /\ session' = doing[d].session => Follows(turns', Tail(doing[d].messages))
             /\ r.at = "replace" /\ r.session = doing[d].session => Follows(r.messages, doing[d].messages),
         r.at = "add" /\ conversation'[r.session] # Unset =>
           /\ Follows(stored'[r.session], r.messages)
           /\ session' = r.session => Follows(turns', Tail(r.messages))
           /\ \A d \in Coroutine : d # c /\ doing[d].session = r.session =>
                /\ doing[d].at = "replace" => Follows(doing[d].messages, r.messages)
                /\ doing[d].at = "add" => /\ Len(doing[d].messages) = 1 /\ Len(r.messages) = 1
                                          /\ Follows(doing[d].messages, r.messages)
  PROVE  MemoryInv'
<1>1. \A d \in Coroutine : doing'[d] = IF d = c THEN r ELSE doing[d]
  BY DEF MemoryInv, Errands
<1>2. /\ calls' \in Seq(Coroutine) /\ Distinct(calls')
      /\ calls' = Others(c) => Items(calls') = Items(calls) \ {c}
      /\ calls' = Append(Others(c), c) => Items(calls') = Items(calls) \cup {c}
      /\ \A i, j \in DOMAIN calls' : i < j =>
           /\ calls'[i] # c
           /\ \/ calls'[j] = c
              \/ \E k, l \in DOMAIN calls : k < l /\ calls'[i] = calls[k] /\ calls'[j] = calls[l]
  BY CallsMove DEF MemoryInv, Queued
<1>3. \A texts, k : Fits(texts, k, home) => Fits(texts, k, home')
  <2>1. CASE home' = home
    BY <2>1
  <2>2. CASE \E t \in Session \cup {Unset} : home' = Append(home, t)
    <3>1. home \in Seq(Session \cup {Unset})
      BY DEF MemoryInv, AttributeTypes
    <3>2. PICK t \in Session \cup {Unset} : home' = Append(home, t)
      BY <2>2
    <3>3. QED  BY <3>1, <3>2, KnownGrows
  <2>3. QED  BY <2>1, <2>2
\* Whoever is at a session with texts is at one that somebody has.
<1>4. ASSUME NEW d \in Coroutine, ~Stranger(doing[d]), doing[d].session \in Session
      PROVE  conversation'[doing[d].session] \in {conversation[doing[d].session], Unset}
  BY <1>4 DEF MemoryInv, Fresh
<1>5. ASSUME NEW d \in Coroutine, d # c, Adds(doing'[d], conversation')
      PROVE  Adds(doing[d], conversation) /\ doing[d].session \in Session
  <2>1. doing[d].at = "add" /\ conversation'[doing[d].session] # Unset
    BY <1>1, <1>5 DEF Adds
  <2>2. doing[d].session \in Session /\ ~Stranger(doing[d])
    BY <2>1 DEF MemoryInv, Errands, Equipped, AtOne, AtKnown, Stranger
  <2>3. QED  BY <1>4, <2>1, <2>2 DEF Adds
<1>6. Adds(doing'[c], conversation') => r.at = "add" /\ conversation'[r.session] # Unset
  BY <1>1 DEF Adds
<1>7. Errands'
  <2>1. doing' \in [Coroutine -> Errand]
    BY DEF MemoryInv, Errands, Equipped
  <2>2. ASSUME NEW d \in Coroutine
        PROVE  Equipped(doing'[d], user', session')
    <3>1. CASE d = c
      BY <1>1, <3>1
    <3>2. CASE d # c
      BY <1>1, <3>2 DEF MemoryInv, Errands, Equipped
    <3>3. QED  BY <3>1, <3>2
  <2>3. QED  BY <2>1, <2>2 DEF Errands
<1>8. Queued'
  BY <1>1, <1>2 DEF MemoryInv, Queued
<1>9. Fresh'
  BY <1>1 DEF MemoryInv, Fresh
<1>10. AllFit'
  <2> SUFFICES ASSUME NEW d \in Coroutine
               PROVE  Fits(doing'[d].messages, Of(doing'[d].session, conversation'), home')
    BY DEF AllFit
  <2>1. CASE d = c
    BY <1>1, <2>1
  <2>2. CASE d # c
    <3> DEFINE k == Of(doing[d].session, conversation)
               l == Of(doing[d].session, conversation')
    <3>1. Fits(doing[d].messages, k, home) /\ doing'[d] = doing[d]
      BY <1>1, <2>2 DEF MemoryInv, AllFit
    <3>2. Fits(doing[d].messages, k, home')
      BY <1>3, <3>1
    <3>3. CASE Stranger(doing[d])
      BY <3>1, <3>3, NothingFits DEF Stranger
    <3>4. CASE ~Stranger(doing[d])
      <4>1. l \in {k, Unset}
        BY <1>4, <3>4 DEF Of
      <4>2. QED  BY <3>1, <3>2, <4>1, AnyFits
    <3>5. QED  BY <3>3, <3>4
  <2>3. QED  BY <2>1, <2>2
<1>11. LastSaid'
  <2> SUFFICES ASSUME NEW d \in Coroutine, Adds(doing'[d], conversation')
               PROVE  /\ Follows(stored'[doing'[d].session], doing'[d].messages)
                      /\ session' = doing'[d].session => Follows(turns', Tail(doing'[d].messages))
                      /\ \A e \in Coroutine :
                           doing'[e].at = "replace" /\ doing'[e].session = doing'[d].session =>
                             Follows(doing'[e].messages, doing'[d].messages)
    BY DEF LastSaid
  <2>1. CASE d = c
    <3>1. r.at = "add" /\ conversation'[r.session] # Unset /\ doing'[d] = r
      BY <1>1, <1>6, <2>1
    <3>2. QED  BY <1>1, <3>1
  <2>2. CASE d # c
    <3>1. doing'[d] = doing[d] /\ Adds(doing[d], conversation) /\ conversation'[doing[d].session] # Unset
      BY <1>1, <1>5, <2>2 DEF Adds
    <3>2. ASSUME NEW e \in Coroutine, doing'[e].at = "replace", doing'[e].session = doing[d].session
          PROVE  Follows(doing'[e].messages, doing[d].messages)
      <4>1. CASE e = c
        BY <1>1, <2>2, <3>1, <3>2, <4>1
      <4>2. CASE e # c
        BY <1>1, <3>1, <3>2, <4>2 DEF MemoryInv, LastSaid
      <4>3. QED  BY <4>1, <4>2
    <3>3. QED  BY <2>2, <3>1, <3>2
  <2>3. QED  BY <2>1, <2>2
<1>12. Alone'
  <2> SUFFICES ASSUME NEW d \in Coroutine, NEW e \in Coroutine, Adds(doing'[d], conversation'), Adds(doing'[e], conversation'), d # e,
                      doing'[d].session = doing'[e].session
               PROVE  Len(doing'[d].messages) = 1
    BY DEF Alone
  <2>1. CASE d = c
    <3>1. doing'[d] = r /\ doing'[e] = doing[e] /\ Adds(doing[e], conversation) /\ e # c
      BY <1>1, <1>5, <2>1
    <3>2. QED  BY <1>6, <2>1, <3>1 DEF Adds
  <2>2. CASE e = c
    <3>1. doing'[e] = r /\ doing'[d] = doing[d] /\ Adds(doing[d], conversation) /\ d # c
      BY <1>1, <1>5, <2>2
    <3>2. QED  BY <1>6, <2>2, <3>1 DEF Adds
  <2>3. CASE d # c /\ e # c
    <3>1. doing'[e] = doing[e] /\ doing'[d] = doing[d] /\ Adds(doing[d], conversation) /\ Adds(doing[e], conversation)
      BY <1>1, <1>5, <2>3
    <3>2. QED  BY <3>1 DEF MemoryInv, Alone
  <2>4. QED  BY <2>1, <2>2, <2>3
<1>13. FirstSaid'
  <2> SUFFICES ASSUME NEW i \in DOMAIN calls', NEW j \in DOMAIN calls', i < j,
                      Adds(doing'[calls'[i]], conversation'), Adds(doing'[calls'[j]], conversation'),
                      doing'[calls'[i]].session = doing'[calls'[j]].session
               PROVE  Follows(doing'[calls'[i]].messages, doing'[calls'[j]].messages)
    BY DEF FirstSaid
  <2>1. calls'[i] \in Coroutine /\ calls'[j] \in Coroutine /\ calls'[i] # c
    BY <1>2
  <2> DEFINE d == calls'[i]
             e == calls'[j]
  <2>2. doing'[d] = doing[d] /\ Adds(doing[d], conversation)
    BY <1>1, <1>5, <2>1
  <2>3. CASE e = c
    <3>1. doing'[e] = r /\ r.at = "add" /\ conversation'[r.session] # Unset
      BY <1>1, <1>6, <2>1, <2>3
    <3>2. doing[d].at = "add" /\ doing[d].session = r.session /\ d # c
      BY <2>1, <2>2, <3>1 DEF Adds
    <3>3. QED  BY <2>1, <2>2, <3>1, <3>2
  <2>4. CASE e # c
    <3>1. doing'[e] = doing[e] /\ Adds(doing[e], conversation)
      BY <1>1, <1>5, <2>1, <2>4
    <3>2. PICK k \in DOMAIN calls : \E l \in DOMAIN calls : k < l /\ d = calls[k] /\ e = calls[l]
      BY <1>2, <2>4
    <3>3. PICK l \in DOMAIN calls : k < l /\ d = calls[k] /\ e = calls[l]
      BY <3>2
    <3>4. QED  BY <2>2, <3>1, <3>3 DEF MemoryInv, FirstSaid
  <2>5. QED  BY <2>3, <2>4
<1>14. QED  BY <1>7, <1>8, <1>9, <1>10, <1>11, <1>12, <1>13 DEF MemoryInv

-----------------------------------------------------------------------------
(* The steps. *)

LEMMA RestingErrand ==
  /\ Resting \in Errand /\ Resting.at = "idle" /\ Resting.session = Unset
  /\ Resting.messages = <<>> /\ Stranger(Resting) /\ \A u, t : Equipped(Resting, u, t)
<1>1. <<>> \in Seq(Nat)
  OBVIOUS
<1> DEFINE none == <<>>
<1>2. none \in Seq(Nat)
  BY <1>1
<1> HIDE DEF none
<1>3. [at |-> "idle", user |-> Unset, session |-> Unset, messages |-> none, left |-> 0, next |-> "end"] \in Errand
  BY <1>2 DEF Errand, Places
<1>4. /\ Resting \in Errand /\ Resting.at = "idle" /\ Resting.session = Unset
      /\ Resting.messages = <<>>
  BY <1>3 DEF Resting, none
<1>5. QED  BY <1>4 DEF Equipped, AtOne, AtKnown, Stranger

\* A step that leaves the database and the turns with what belongs there, and
\* adds nothing.
LEMMA LeavesTexts ==
  ASSUME MemoryInv, NEW c \in Coroutine, NEW r,
         (Ends(c) /\ r = Resting) \/ (Calls(c, r) /\ r.at \notin {"idle", "add"}),
         Equipped(r, user', session'), AttributeTypes',
         user \in User => user' \in User, session \in Session => session' \in Session,
         UNCHANGED past, Belong', Fits(r.messages, Of(r.session, conversation), home),
         \A s \in Session : owner'[s] = Unset =>
           /\ owner[s] = Unset /\ stored'[s] = <<>> /\ s # session'
           /\ r.session = s => Stranger(r),
         \A d \in Coroutine :
           d # c /\ Adds(doing[d], conversation) =>
             /\ Follows(stored'[doing[d].session], doing[d].messages)
             /\ session' = doing[d].session => Follows(turns', Tail(doing[d].messages))
             /\ r.at = "replace" /\ r.session = doing[d].session => Follows(r.messages, doing[d].messages)
  PROVE  MemoryInv'
<1>1. /\ doing' = [doing EXCEPT ![c] = r] /\ r.at # "add"
      /\ (r.at = "idle" /\ calls' = Others(c)) \/ (r.at # "idle" /\ calls' = Append(Others(c), c))
  BY RestingErrand DEF Ends, Calls
<1>2. home' = home /\ conversation' = conversation
  BY DEF past
<1>3. \A s \in Session : conversation'[s] \in {conversation[s], Unset} \/ owner[s] = Unset
  BY <1>2
<1>4. Fits(r.messages, Of(r.session, conversation'), home')
  BY <1>2
<1>5. \A d \in Coroutine :
        d # c /\ Adds(doing[d], conversation) /\ conversation'[doing[d].session] # Unset =>
          /\ Follows(stored'[doing[d].session], doing[d].messages)
          /\ session' = doing[d].session => Follows(turns', Tail(doing[d].messages))
          /\ r.at = "replace" /\ r.session = doing[d].session => Follows(r.messages, doing[d].messages)
  OBVIOUS
<1>6. QED  BY <1>1, <1>2, <1>3, <1>4, <1>5, MovesOn, ZenonT(60)

\* A step without texts; the session that it deletes, if any, is emptied.
LEMMA AddsNothing ==
  ASSUME MemoryInv, NEW c \in Coroutine, NEW r,
         (Ends(c) /\ r = Resting) \/ (Calls(c, r) /\ r.at \notin {"idle", "add", "replace"}),
         Equipped(r, user', session'), AttributeTypes',
         user \in User => user' \in User, session \in Session => session' \in Session,
         UNCHANGED past, Fits(r.messages, Of(r.session, conversation), home),
         Fits(turns', Of(session', conversation), home),
         \A s \in Session : stored'[s] \in {stored[s], <<>>},
         \A s \in Session : owner'[s] = Unset =>
           owner[s] = Unset /\ s # session' /\ (r.session = s => Stranger(r)),
         \A d \in Coroutine :
           d # c /\ Adds(doing[d], conversation) /\ session' = doing[d].session =>
             Follows(turns', Tail(doing[d].messages))
  PROVE  MemoryInv'
<1>1. home' = home /\ conversation' = conversation /\ r.at # "replace"
  BY RestingErrand DEF past
<1>2. \A s \in Session : Fits(stored'[s], conversation[s], home)
  BY NothingFits DEF MemoryInv, Belong
<1>3. Belong'
  BY <1>1, <1>2 DEF Belong
<1>4. ASSUME NEW d \in Coroutine, Adds(doing[d], conversation)
      PROVE  Follows(stored'[doing[d].session], doing[d].messages)
  <2>1. doing[d].session \in Session
    BY <1>4 DEF MemoryInv, Errands, Equipped, Adds, AtOne
  <2>2. Follows(stored[doing[d].session], doing[d].messages)
    BY <1>4 DEF MemoryInv, LastSaid
  <2>3. QED  BY <2>1, <2>2, NothingFits
<1>5. \A s \in Session : owner'[s] = Unset =>
        /\ owner[s] = Unset /\ stored'[s] = <<>> /\ s # session'
        /\ r.session = s => Stranger(r)
  BY DEF MemoryInv, Fresh
<1>6. \A d \in Coroutine :
        d # c /\ Adds(doing[d], conversation) =>
          /\ Follows(stored'[doing[d].session], doing[d].messages)
          /\ session' = doing[d].session => Follows(turns', Tail(doing[d].messages))
          /\ r.at = "replace" /\ r.session = doing[d].session => Follows(r.messages, doing[d].messages)
  BY <1>1, <1>4
<1>7. QED  BY <1>3, <1>5, <1>6, LeavesTexts, ZenonT(60)

\* Nothing changes but the coroutine itself, and perhaps the active user.
LEMMA OnlyMoves ==
  ASSUME MemoryInv, NEW c \in Coroutine, NEW r,
         (Ends(c) /\ r = Resting) \/ (Calls(c, r) /\ r.at \notin {"idle", "add", "replace"}),
         Equipped(r, user', session), r.messages = <<>>,
         \A s \in Session : owner[s] = Unset /\ r.session = s => Stranger(r),
         user' \in User \cup {Unset}, user \in User => user' \in User,
         UNCHANGED <<session, turns, table, past>>
  PROVE  MemoryInv'
<1>1. UNCHANGED <<session, turns, home, conversation, owner, stored>>
  BY DEF table, past
<1>2. AttributeTypes'
  BY <1>1 DEF MemoryInv, AttributeTypes
<1>3. Fits(turns', Of(session', conversation), home)
  BY <1>1 DEF MemoryInv, Belong
<1>4. Fits(r.messages, Of(r.session, conversation), home)
  BY NothingFits
<1>5. \A d \in Coroutine :
        d # c /\ Adds(doing[d], conversation) /\ session' = doing[d].session =>
          Follows(turns', Tail(doing[d].messages))
  BY <1>1 DEF MemoryInv, LastSaid
<1>6. \A s \in Session : owner'[s] = Unset =>
        owner[s] = Unset /\ s # session' /\ (r.session = s => Stranger(r))
  BY <1>1 DEF MemoryInv, Fresh
<1>7. \A s \in Session : stored'[s] \in {stored[s], <<>>}
  BY <1>1
<1>8. Equipped(r, user', session') /\ (session \in Session => session' \in Session)
  BY <1>1
<1>9. QED  BY <1>2, <1>3, <1>4, <1>5, <1>6, <1>7, <1>8, AddsNothing, ZenonT(60)

LEMMA LoadMoves ==
  ASSUME MemoryInv, NEW c \in Coroutine, NEW s \in Session, user \in User,
         Load(c, s), UNCHANGED <<mine, table, past>>
  PROVE  MemoryInv'
<1> DEFINE r == [Resting EXCEPT !.at = "load", !.user = user, !.session = s]
<1>1. r \in Errand /\ r.at = "load" /\ r.user = user /\ r.session = s /\ r.messages = <<>>
  BY RestingErrand DEF Errand, Places
<1>2. Calls(c, r)
  BY DEF Load
<1> HIDE DEF r
<1>3. Equipped(r, user', session) /\ Stranger(r)
  BY <1>1 DEF Equipped, Stranger, AtOne, AtKnown
<1>4. UNCHANGED <<user, session, turns, table, past>>
  BY DEF mine
<1>5. QED  BY <1>1, <1>2, <1>3, <1>4, OnlyMoves

LEMMA CreateMoves ==
  ASSUME MemoryInv, NEW c \in Coroutine, NEW n \in {"end", "add"}, user \in User,
         Create(c, n), UNCHANGED <<mine, table, past>>
  PROVE  MemoryInv'
<1> DEFINE r == [Resting EXCEPT !.at = "create", !.user = user, !.next = n]
<1>1. r \in Errand /\ r.at = "create" /\ r.user = user /\ r.session = Unset /\ r.messages = <<>>
  BY RestingErrand DEF Errand, Places
<1>2. Calls(c, r)
  BY DEF Create
<1> HIDE DEF r
<1>3. Equipped(r, user', session) /\ Stranger(r)
  BY <1>1 DEF Equipped, Stranger, AtOne, AtKnown
<1>4. UNCHANGED <<user, session, turns, table, past>>
  BY DEF mine
<1>5. QED  BY <1>1, <1>2, <1>3, <1>4, OnlyMoves

\* Texts enter the memory of the session that is active from now on.
LEMMA EnterMoves ==
  ASSUME MemoryInv, NEW c \in Coroutine, NEW s \in Session, NEW now, NEW texts \in Seq(Nat), texts # <<>>,
         Enter(c, s, now, texts), user' = user, session' = s, AttributeTypes',
         home' = home \/ \E t \in Session \cup {Unset} : home' = Append(home, t),
         \A t \in Session : conversation'[t] \in {conversation[t], Unset} \/ owner[t] = Unset,
         \A t \in Session : Fits(stored'[t], conversation'[t], home'),
         Fits(now, conversation'[s], home'), Fits(texts, conversation'[s], home'),
         \A t \in Session : owner'[t] = Unset => owner[t] = Unset /\ stored'[t] = <<>> /\ t # s,
         \A d \in Coroutine :
           d # c /\ Adds(doing[d], conversation) => Follows(stored'[doing[d].session], doing[d].messages),
         conversation'[s] # Unset =>
           /\ Follows(now, texts) /\ Follows(stored'[s], texts)
           /\ \A d \in Coroutine : d # c /\ doing[d].session = s =>
                /\ doing[d].at = "replace" => Follows(doing[d].messages, texts)
                /\ doing[d].at = "add" => /\ Len(doing[d].messages) = 1 /\ Len(texts) = 1
                                          /\ Follows(doing[d].messages, texts)
  PROVE  MemoryInv'
<1> DEFINE r == [Resting EXCEPT !.at = "add", !.session = s, !.messages = texts]
           k == conversation'[s]
           longer == Append(now, Head(texts))
<1>1. r \in Errand /\ r.at = "add" /\ r.session = s /\ r.messages = texts
  BY RestingErrand DEF Errand, Places
<1>2. Calls(c, r) /\ turns' = Last(longer, TurnLimit)
  BY DEF Enter
<1> HIDE DEF r
<1>3. Equipped(r, user', session')
  BY <1>1 DEF Equipped, AtOne
<1>4. /\ Fits(longer, k, home')
      /\ k # Unset => Follows(longer, Tail(texts))
  BY HeadFits
<1> HIDE DEF longer
<1>5. Fits(turns', k, home') /\ (k # Unset => Follows(turns', Tail(texts)))
  BY <1>2, <1>4, LastFits, MemoryAssumption
<1>6. Belong' /\ Of(r.session, conversation') = k
  BY <1>1, <1>5 DEF Belong, Of
<1>7. ASSUME NEW d \in Coroutine, d # c, Adds(doing[d], conversation), session' = doing[d].session,
             conversation'[doing[d].session] # Unset
      PROVE  Follows(turns', Tail(doing[d].messages))
  <2>1. Len(doing[d].messages) = 1
    BY <1>7 DEF Adds
  <2>2. Tail(doing[d].messages) = <<>>
    <3>1. doing[d].messages \in Seq(Nat)
      BY DEF MemoryInv, Errands, Errand
    <3>2. QED  BY <2>1, <3>1, OneText
  <2>3. QED  BY <2>2, NothingFits
<1>8. \A d \in Coroutine :
        d # c /\ Adds(doing[d], conversation) /\ conversation'[doing[d].session] # Unset =>
          /\ Follows(stored'[doing[d].session], doing[d].messages)
          /\ session' = doing[d].session => Follows(turns', Tail(doing[d].messages))
          /\ r.at = "replace" /\ r.session = doing[d].session => Follows(r.messages, doing[d].messages)
  BY <1>1, <1>7
<1>9. \A t \in Session : owner'[t] = Unset =>
        /\ owner[t] = Unset /\ stored'[t] = <<>> /\ t # session'
        /\ r.session = t => Stranger(r)
  BY <1>1
<1>10. r.at = "add" /\ conversation'[r.session] # Unset =>
         /\ Follows(stored'[r.session], r.messages)
         /\ session' = r.session => Follows(turns', Tail(r.messages))
         /\ \A d \in Coroutine : d # c /\ doing[d].session = r.session =>
              /\ doing[d].at = "replace" => Follows(doing[d].messages, r.messages)
              /\ doing[d].at = "add" => /\ Len(doing[d].messages) = 1 /\ Len(r.messages) = 1
                                        /\ Follows(doing[d].messages, r.messages)
  BY <1>1, <1>5
<1>11. /\ doing' = [doing EXCEPT ![c] = r]
       /\ (r.at = "idle" /\ calls' = Others(c)) \/ (r.at # "idle" /\ calls' = Append(Others(c), c))
  BY <1>1, <1>2 DEF Calls
<1>12. Fits(r.messages, Of(r.session, conversation'), home')
  BY <1>1, <1>6
<1>13. (user \in User => user' \in User) /\ (session \in Session => session' \in Session)
  OBVIOUS
<1>14. QED
  BY <1>3, <1>6, <1>8, <1>9, <1>10, <1>11, <1>12, <1>13, MovesOn, ZenonT(60)

\* A turn is said: it follows all others.
LEMMA SayMoves ==
  ASSUME MemoryInv, NEW c \in Coroutine, NEW s \in Session, NEW now, Say(c, s, now),
         user' = user, session' = s, owner' \in [Session -> User \cup {Unset, Gone}], stored' = stored,
         \A t \in Session : owner'[t] = Unset => owner[t] = Unset /\ t # s,
         Fits(now, conversation[s], home),
         UNCHANGED conversation \/ Mixed(s), Readding(s) => Mixed(s)
  PROVE  MemoryInv'
<1> DEFINE n == Len(home) + 1
           texts == <<n>>
<1>1. /\ home \in Seq(Session \cup {Unset}) /\ Len(home) < MaxAdds /\ n \in Nat
      /\ home' = Append(home, conversation[s]) /\ Enter(c, s, now, <<n>>)
      /\ conversation \in [Session -> Session \cup {Unset}] /\ conversation[s] \in Session \cup {Unset}
      /\ stored \in [Session -> Seq(Nat)]
  BY DEF MemoryInv, AttributeTypes, Say
<1>2. texts \in Seq(Nat) /\ texts # <<>> /\ Len(texts) = 1
  BY <1>1
<1>3. Enter(c, s, now, texts)
  BY <1>1
<1>4. /\ conversation' \in [Session -> Session \cup {Unset}]
      /\ \A t \in Session : conversation'[t] \in {conversation[t], Unset}
      /\ Mixed(s) => conversation'[s] = Unset
      /\ \A t \in Session : t # s => conversation'[t] = conversation[t]
  BY <1>1 DEF Mixed
<1>5. home' \in Seq(Session \cup {Unset}) /\ Len(home') <= MaxAdds
  BY <1>1, MemoryAssumption
<1>6. AttributeTypes'
  BY <1>1, <1>4, <1>5 DEF MemoryInv, AttributeTypes
<1>7. \A some, k : Fits(some, k, home) => Fits(some, k, home') /\ Follows(some, texts)
  BY <1>1, KnownGrows
<1>8. Fits(texts, conversation[s], home')
  BY <1>1, SaidFits
<1> HIDE DEF texts
<1>9. Fits(texts, conversation'[s], home') /\ Fits(now, conversation'[s], home')
  BY <1>4, <1>7, <1>8, AnyFits
<1>10. \A t \in Session : Fits(stored'[t], conversation'[t], home')
  BY <1>4, <1>7, AnyFits DEF MemoryInv, Belong
<1>11. \A t \in Session : owner'[t] = Unset => owner[t] = Unset /\ stored'[t] = <<>> /\ t # s
  BY DEF MemoryInv, Fresh
<1>12. \A d \in Coroutine :
         d # c /\ Adds(doing[d], conversation) => Follows(stored'[doing[d].session], doing[d].messages)
  BY DEF MemoryInv, LastSaid
<1>13. Follows(now, texts) /\ Follows(stored'[s], texts)
  BY <1>7 DEF MemoryInv, Belong
<1>14. ASSUME conversation'[s] # Unset, NEW d \in Coroutine, d # c, doing[d].session = s
       PROVE  /\ doing[d].at = "replace" => Follows(doing[d].messages, texts)
              /\ doing[d].at = "add" => /\ Len(doing[d].messages) = 1 /\ Len(texts) = 1
                                        /\ Follows(doing[d].messages, texts)
  <2>1. Follows(doing[d].messages, texts)
    BY <1>7 DEF MemoryInv, AllFit
  <2>2. doing[d].at = "add" => Len(doing[d].messages) = 1
    <3>1. ~Readding(s)
      BY <1>4, <1>14
    <3>2. doing[d].at = "add" => ~(Len(doing[d].messages) > 1)
      BY <1>14, <3>1 DEF Readding
    <3>3. doing[d].at = "add" => doing[d].messages # <<>> /\ doing[d].messages \in Seq(Nat)
      BY DEF MemoryInv, Errands, Equipped, Errand
    <3>4. QED  BY <3>2, <3>3, OneText
  <2>3. QED  BY <1>2, <2>1, <2>2
<1>15. home' = home \/ \E t \in Session \cup {Unset} : home' = Append(home, t)
  BY <1>1
<1>16. \A t \in Session : conversation'[t] \in {conversation[t], Unset} \/ owner[t] = Unset
  BY <1>4
<1>17. QED
  BY <1>2, <1>3, <1>6, <1>9, <1>10, <1>11, <1>12, <1>13, <1>14, <1>15, <1>16, EnterMoves, ZenonT(60)

\* The first calls of what a coroutine does.
LEMMA BeginningMoves ==
  ASSUME MemoryInv, NEW c \in Coroutine,
         \/ \E u \in User : SetActiveUser(c, u)
         \/ CreateSession(c)
         \/ \E s \in Session : LoadSession(c, s) \/ DeleteSession(c, s) \/ CompactSession(c, s)
  PROVE  MemoryInv'
<1>1. user \in User \cup {Unset}
  BY DEF MemoryInv, AttributeTypes
<1>2. ASSUME NEW u \in User, SetActiveUser(c, u)
      PROVE  MemoryInv'
  <2> DEFINE r == [Resting EXCEPT !.at = "user", !.user = u]
  <2>1. r \in Errand /\ r.at = "user" /\ r.user = u /\ r.messages = <<>>
    BY RestingErrand DEF Errand, Places
  <2>2. Calls(c, r) /\ UNCHANGED <<user, session, turns, table, past>>
    BY <1>2 DEF SetActiveUser, mine
  <2> HIDE DEF r
  <2>3. Equipped(r, user', session) /\ Stranger(r)
    BY <2>1 DEF Equipped, Stranger, AtOne, AtKnown
  <2>4. QED  BY <1>1, <2>1, <2>2, <2>3, OnlyMoves
<1>3. CASE CreateSession(c)
  BY <1>1, <1>3, CreateMoves DEF CreateSession
<1>4. ASSUME NEW s \in Session, LoadSession(c, s)
      PROVE  MemoryInv'
  BY <1>1, <1>4, LoadMoves DEF LoadSession
<1>5. ASSUME NEW s \in Session, DeleteSession(c, s)
      PROVE  MemoryInv'
  <2> DEFINE r == [Resting EXCEPT !.at = "delete", !.user = user, !.session = s, !.next = "switch"]
  <2>1. r \in Errand /\ r.at = "delete" /\ r.session = s /\ r.messages = <<>>
    BY <1>1, RestingErrand DEF Errand, Places
  <2>2. Calls(c, r) /\ UNCHANGED <<user, session, turns, table, past>>
    BY <1>5 DEF DeleteSession, mine
  <2> HIDE DEF r
  <2>3. user' \in User
    BY <1>1, <1>5 DEF DeleteSession, mine
  <2>4. Equipped(r, user', session) /\ Stranger(r)
    BY <2>1, <2>3 DEF Equipped, Stranger, AtOne, AtKnown
  <2>5. QED  BY <1>1, <2>1, <2>2, <2>4, OnlyMoves
<1>6. ASSUME NEW s \in Session, CompactSession(c, s)
      PROVE  MemoryInv'
  <2> DEFINE r == [Resting EXCEPT !.at = "peek", !.user = owner[s], !.session = s]
  <2>1. owner[s] \in User
    BY <1>6 DEF CompactSession
  <2>2. r \in Errand /\ r.at = "peek" /\ r.user = owner[s] /\ r.session = s /\ r.messages = <<>>
    BY <2>1, RestingErrand DEF Errand, Places
  <2>3. Calls(c, r) /\ UNCHANGED <<user, session, turns, table, past>>
    BY <1>6 DEF CompactSession, mine
  <2> HIDE DEF r
  <2>4. Equipped(r, user', session) /\ Stranger(r)
    BY <2>1, <2>2 DEF Equipped, Stranger, AtOne, AtKnown
  <2>5. QED  BY <1>1, <2>2, <2>3, <2>4, OnlyMoves
<1>7. QED  BY <1>2, <1>3, <1>4, <1>5, <1>6

\* clear and apply_summary replace the turns.
LEMMA TurnsReplacedMoves ==
  ASSUME MemoryInv, NEW c \in Coroutine, Clear(c) \/ ApplySummary(c)
  PROVE  MemoryInv'
<1>1. /\ user \in User \cup {Unset} /\ session \in Session \cup {Unset} /\ Len(home) \in Nat
      /\ Fits(turns, Of(session, conversation), home) /\ user' = user /\ session' = session
      /\ UNCHANGED <<home, conversation, owner, stored, past>>
  BY DEF MemoryInv, AttributeTypes, Belong, Clear, ApplySummary, table, past
<1>2. AttributeTypes'
  BY <1>1 DEF MemoryInv, AttributeTypes
<1>3. \A d \in Coroutine :
        d # c /\ Adds(doing[d], conversation) /\ session = doing[d].session =>
          Follows(turns, Tail(doing[d].messages))
  BY DEF MemoryInv, LastSaid
<1>4. \A s \in Session : owner[s] = Unset => s # session
  BY DEF MemoryInv, Fresh
<1>5. ASSUME Fits(turns', Of(session, conversation), home),
             \A m : Follows(turns, m) => Follows(turns', m),
             NEW r \in Errand, r.at = "delete", r.session = session, r.next = "create", r.messages = <<>> \/ r.messages = turns',
             Ends(c) \/ (session # Unset /\ Calls(c, r))
      PROVE  MemoryInv'
  <2>1. \A d \in Coroutine :
          d # c /\ Adds(doing[d], conversation) /\ session' = doing[d].session =>
            Follows(turns', Tail(doing[d].messages))
    BY <1>1, <1>3, <1>5
  <2>2. Fits(turns', Of(session', conversation), home)
    BY <1>1, <1>5
  <2>3. \A s \in Session : stored'[s] \in {stored[s], <<>>}
    BY <1>1
  <2>4. \A s \in Session : owner'[s] = Unset => owner[s] = Unset /\ s # session'
    BY <1>1, <1>4
  <2>5. CASE Ends(c)
    <3> DEFINE none == Resting
    <3>1. /\ none = Resting /\ Equipped(none, user', session') /\ Stranger(none)
          /\ Fits(none.messages, Of(none.session, conversation), home)
      BY RestingErrand, NothingFits
    <3>2. QED  BY <1>1, <1>2, <2>1, <2>2, <2>3, <2>4, <2>5, <3>1, AddsNothing
  <2>6. CASE session # Unset /\ Calls(c, r)
    <3>1. Equipped(r, user', session')
      BY <1>1, <1>5, <2>6 DEF Equipped, AtOne
    <3>2. Fits(r.messages, Of(r.session, conversation), home)
      BY <1>5, NothingFits
    <3>3. \A s \in Session : owner'[s] = Unset =>
            owner[s] = Unset /\ s # session' /\ (r.session = s => Stranger(r))
      BY <1>1, <1>5, <2>4
    <3>4. QED  BY <1>1, <1>2, <1>5, <2>1, <2>2, <2>3, <2>6, <3>1, <3>2, <3>3, AddsNothing
  <2>7. QED  BY <1>5, <2>5, <2>6
<1>6. CASE Clear(c)
  <2> DEFINE r == [Resting EXCEPT !.at = "delete", !.user = user, !.session = session, !.next = "create"]
  <2>1. Fits(turns', Of(session, conversation), home) /\ \A m : Follows(turns', m)
    BY <1>6, NothingFits DEF Clear
  <2>2. r \in Errand /\ r.at = "delete" /\ r.session = session /\ r.next = "create" /\ r.messages = <<>>
    BY <1>1, RestingErrand DEF Errand, Places
  <2>3. Ends(c) \/ (session # Unset /\ Calls(c, r))
    BY <1>6 DEF Clear
  <2> HIDE DEF r
  <2>4. QED  BY <1>5, <2>1, <2>2, <2>3
<1>7. CASE ApplySummary(c)
  <2> DEFINE compact == <<0>> \o Last(turns, KeepLast)
             r == [Resting EXCEPT !.at = "delete", !.user = user, !.session = session,
                                  !.next = "create", !.messages = compact]
  <2>1. Fits(compact, Of(session, conversation), home) /\ \A m : Follows(turns, m) => Follows(compact, m)
    BY <1>1, LastFits, SummaryFits, MemoryAssumption
  <2>2. turns' = compact /\ (Ends(c) \/ (session # Unset /\ Calls(c, r)))
    BY <1>7 DEF ApplySummary
  <2> HIDE DEF compact
  <2>3. compact \in Seq(Nat)
    BY <2>1 DEF Fits
  <2>4. r \in Errand /\ r.at = "delete" /\ r.session = session /\ r.next = "create" /\ r.messages = compact
    BY <1>1, <2>3, RestingErrand DEF Errand, Places
  <2> HIDE DEF r
  <2>5. QED  BY <1>5, <2>1, <2>2, <2>4
<1>8. QED  BY <1>6, <1>7

\* What a coroutine does when the database has answered a question.
LEMMA AnswersMove ==
  ASSUME MemoryInv, NEW c \in Coroutine,
         UserEnsured(c) \/ Listed(c) \/ Loaded(c) \/ OthersListed(c) \/ Counted(c) \/ Peeked(c)
  PROVE  MemoryInv'
<1>1. /\ user \in User \cup {Unset} /\ doing[c] \in Errand /\ Equipped(doing[c], user, session)
      /\ UNCHANGED <<session, turns, table, past>>
  BY DEF MemoryInv, AttributeTypes, Errands, UserEnsured, Listed, Loaded, OthersListed, Counted, Peeked, mine
<1>2. ASSUME NEW r, Calls(c, r), r.at \notin {"idle", "add", "replace"}, Equipped(r, user', session),
             r.messages = <<>>, user' \in User \cup {Unset}, user \in User => user' \in User,
             \A s \in Session : owner[s] = Unset /\ r.session = s => Stranger(r)
      PROVE  MemoryInv'
  BY <1>1, <1>2, OnlyMoves
<1>3. Ends(c) /\ user' = user => MemoryInv'
  <2> DEFINE r == Resting
  <2>1. r = Resting /\ Equipped(r, user', session) /\ r.messages = <<>> /\ Stranger(r)
    BY RestingErrand
  <2>2. QED  BY <1>1, <2>1, OnlyMoves
<1>4. CASE UserEnsured(c)
  <2> DEFINE r == [doing[c] EXCEPT !.at = "list"]
  <2>1. r \in Errand /\ r.at = "list" /\ r.messages = doing[c].messages
    BY <1>1 DEF Errand, Places
  <2>2. Calls(c, r) /\ user' = doing[c].user /\ doing[c].at = "user"
    BY <1>4 DEF UserEnsured, Serves
  <2>3. doing[c].user \in User /\ doing[c].messages = <<>>
    BY <1>1, <2>2 DEF Equipped
  <2> HIDE DEF r
  <2>4. Equipped(r, user', session) /\ Stranger(r)
    BY <2>1, <2>2, <2>3 DEF Equipped, Stranger, AtOne, AtKnown
  <2>5. QED  BY <1>2, <2>1, <2>2, <2>3, <2>4
<1>5. CASE Listed(c)
  <2>1. user \in User
    BY <1>1, <1>5 DEF Listed, Serves, Equipped
  <2>2. (Create(c, "end") \/ \E s \in Session : Load(c, s)) /\ UNCHANGED <<mine, table, past>>
    BY <1>5 DEF Listed, Owned
  <2>3. QED  BY <2>1, <2>2, LoadMoves, CreateMoves
<1>6. CASE Loaded(c)
  <2> DEFINE r == [doing[c] EXCEPT !.at = "get", !.user = Unset]
  <2>1. r \in Errand /\ r.at = "get" /\ r.session = doing[c].session /\ r.messages = doing[c].messages
    BY <1>1 DEF Errand, Places
  <2>2. /\ (Calls(c, r) /\ owner[doing[c].session] = doing[c].user) \/ Ends(c)
        /\ user' = user /\ doing[c].at = "load"
    BY <1>6 DEF Loaded, Serves, mine
  <2>3. doing[c].session \in Session /\ doing[c].user \in User /\ doing[c].messages = <<>>
    BY <1>1, <2>2 DEF Equipped, AtOne
  <2> HIDE DEF r
  <2>4. Equipped(r, user', session)
    BY <2>1, <2>3 DEF Equipped, AtOne
  <2>5. CASE Calls(c, r) /\ owner[doing[c].session] = doing[c].user
    <3>1. owner[doing[c].session] # Unset
      BY <2>3, <2>5, MemoryAssumption
    <3>2. QED  BY <1>1, <1>2, <2>1, <2>2, <2>3, <2>4, <2>5, <3>1
  <2>6. QED  BY <1>3, <2>2, <2>5
<1>7. CASE OthersListed(c)
  <2> DEFINE theirs == Owned(doing[c].user)
  <2>1. user \in User /\ user' = user /\ UNCHANGED <<mine, table, past>>
    BY <1>1, <1>7 DEF OthersListed, Serves, Equipped, mine
  <2>2. CASE theirs = {}
    BY <1>7, <2>1, <2>2, CreateMoves DEF OthersListed
  <2>3. CASE theirs # {}
    <3>1. PICK s \in theirs : Calls(c, [Resting EXCEPT !.at = "count", !.session = s,
                                                       !.left = Cardinality(theirs)])
      BY <1>7, <2>3 DEF OthersListed
    <3>2. theirs \subseteq Session /\ s \in Session
      BY DEF Owned
    <3> HIDE DEF theirs
    <3>3. Cardinality(theirs) \in Nat /\ Cardinality(theirs) >= 1
      <4>1. IsFiniteSet(theirs)
        BY <3>2, FS_Subset, MemoryAssumption
      <4>2. QED  BY <2>3, <4>1, FS_CardinalityType, FS_EmptySet
    <3> DEFINE r == [Resting EXCEPT !.at = "count", !.session = s, !.left = Cardinality(theirs)]
    <3>4. r \in Errand /\ r.at = "count" /\ r.session = s /\ r.left >= 1 /\ r.messages = <<>>
      BY <3>2, <3>3, RestingErrand DEF Errand, Places
    <3>5. Calls(c, r)
      BY <3>1
    <3> HIDE DEF r
    <3>6. Equipped(r, user', session) /\ Stranger(r)
      BY <2>1, <3>2, <3>4 DEF Equipped, Stranger, AtOne, AtKnown
    <3>7. QED  BY <1>1, <1>2, <2>1, <3>4, <3>5, <3>6
  <2>4. QED  BY <2>2, <2>3
<1>8. CASE Counted(c)
  <2>1. doing[c].at = "count" /\ UNCHANGED <<mine, table, past>> /\ user' = user
    BY <1>8 DEF Counted, Serves, mine
  <2>2. /\ doing[c].session \in Session /\ doing[c].left >= 1 /\ doing[c].left \in Nat
        /\ user \in User /\ doing[c].messages = <<>>
    BY <1>1, <2>1 DEF Equipped, AtOne, Errand
  <2>3. CASE doing[c].left = 1
    BY <1>8, <2>1, <2>2, <2>3, LoadMoves DEF Counted
  <2>4. CASE doing[c].left # 1
    <3> DEFINE r == [doing[c] EXCEPT !.left = @ - 1]
    <3>1. /\ r \in Errand /\ r.at = "count" /\ r.session = doing[c].session /\ r.left >= 1
          /\ r.messages = doing[c].messages
      BY <1>1, <2>1, <2>2, <2>4 DEF Errand, Places
    <3>2. Calls(c, r)
      BY <1>8, <2>4 DEF Counted
    <3> HIDE DEF r
    <3>3. Equipped(r, user', session) /\ Stranger(r)
      BY <2>1, <2>2, <3>1 DEF Equipped, Stranger, AtOne, AtKnown
    <3>4. QED  BY <1>1, <1>2, <2>1, <2>2, <3>1, <3>2, <3>3
  <2>5. QED  BY <2>3, <2>4
<1>9. CASE Peeked(c)
  <2> DEFINE r == [doing[c] EXCEPT !.at = "read"]
  <2>1. r \in Errand /\ r.at = "read" /\ r.session = doing[c].session /\ r.messages = doing[c].messages
    BY <1>1 DEF Errand, Places
  <2>2. /\ (Calls(c, r) /\ owner[doing[c].session] = doing[c].user) \/ Ends(c)
        /\ user' = user /\ doing[c].at = "peek"
    BY <1>9 DEF Peeked, Serves, mine
  <2>3. doing[c].session \in Session /\ doing[c].user \in User /\ doing[c].messages = <<>>
    BY <1>1, <2>2 DEF Equipped, AtOne
  <2> HIDE DEF r
  <2>4. Equipped(r, user', session)
    BY <2>1, <2>3 DEF Equipped, AtOne
  <2>5. CASE Calls(c, r) /\ owner[doing[c].session] = doing[c].user
    <3>1. owner[doing[c].session] # Unset
      BY <2>3, <2>5, MemoryAssumption
    <3>2. QED  BY <1>1, <1>2, <2>1, <2>2, <2>3, <2>4, <2>5, <3>1
  <2>6. QED  BY <1>3, <2>2, <2>5
<1>10. QED  BY <1>4, <1>5, <1>6, <1>7, <1>8, <1>9

\* The stored turns become those of the agent: what is on its way there follows them.
LEMMA GotMoves ==
  ASSUME MemoryInv, NEW c \in Coroutine, Got(c)
  PROVE  MemoryInv'
<1> DEFINE s == doing[c].session
           r == Resting
<1>1. /\ doing[c].at = "get" /\ Ends(c) /\ session' = s /\ turns' = stored[s]
      /\ UNCHANGED <<user, owner, stored, home, conversation, past>>
  BY DEF Got, Serves, table, past
<1>2. s \in Session /\ owner[s] # Unset
  BY <1>1 DEF MemoryInv, Errands, Equipped, AtOne, Fresh, Stranger, AtKnown
<1> HIDE DEF s
<1>3. AttributeTypes' /\ (session \in Session => session' \in Session)
  BY <1>1, <1>2 DEF MemoryInv, AttributeTypes
<1>4. /\ r = Resting /\ Equipped(r, user', session') /\ Stranger(r)
      /\ Fits(r.messages, Of(r.session, conversation), home)
  BY RestingErrand, NothingFits
<1>5. Fits(turns', Of(session', conversation), home)
  BY <1>1, <1>2 DEF MemoryInv, Belong, Of
<1>6. ASSUME NEW d \in Coroutine, Adds(doing[d], conversation), session' = doing[d].session
      PROVE  Follows(turns', Tail(doing[d].messages))
  <2>1. Follows(turns', doing[d].messages)
    BY <1>1, <1>6 DEF MemoryInv, LastSaid
  <2>2. doing[d].messages # <<>> /\ Fits(doing[d].messages, Of(doing[d].session, conversation), home)
    BY <1>6 DEF MemoryInv, Errands, Equipped, Adds, AllFit
  <2>3. QED  BY <2>1, <2>2, TailFits
<1>7. \A t \in Session : stored'[t] \in {stored[t], <<>>}
  BY <1>1
<1>8. \A t \in Session : owner'[t] = Unset =>
        owner[t] = Unset /\ t # session' /\ (r.session = t => Stranger(r))
  BY <1>1, <1>2, <1>4
<1>9. QED  BY <1>1, <1>3, <1>4, <1>5, <1>6, <1>7, <1>8, AddsNothing, ZenonT(60)

\* A new session, and what it was made for.
LEMMA CreatedMoves ==
  ASSUME MemoryInv, NEW c \in Coroutine, Created(c)
  PROVE  MemoryInv'
<1> DEFINE texts == doing[c].messages
<1>1. PICK s \in Session :
        /\ IsNew(s)
        /\ Insert(s, doing[c].user)
        /\ session' = s
        /\ \/ /\ texts = <<>> /\ doing[c].next = "end"
              /\ turns' = <<>> /\ Ends(c) /\ UNCHANGED past
           \/ doing[c].next = "add" /\ Say(c, s, <<>>) /\ UNCHANGED conversation
           \/ /\ texts # <<>>
              /\ Enter(c, s, <<>>, texts)
              /\ conversation' = [conversation EXCEPT ![s] =
                   IF doing[c].session = Unset THEN Unset ELSE conversation[doing[c].session]]
              /\ UNCHANGED home
  BY DEF Created
<1>2. /\ user' = user /\ doing[c].user \in User /\ texts \in Seq(Nat) /\ doing[c].session \in Session \cup {Unset}
      /\ owner[s] = Unset /\ owner \in [Session -> User \cup {Unset, Gone}]
      /\ conversation \in [Session -> Session \cup {Unset}] /\ stored \in [Session -> Seq(Nat)]
      /\ stored[s] = <<>> /\ user \in User \cup {Unset}
      /\ home \in Seq(Session \cup {Unset}) /\ Len(home) <= MaxAdds
  BY <1>1 DEF Created, Serves, IsNew, MemoryInv, AttributeTypes, Errands, Equipped, Errand, Fresh
<1>3. /\ owner' \in [Session -> User \cup {Unset, Gone}] /\ stored' = stored
      /\ \A t \in Session : owner'[t] = Unset => owner[t] = Unset /\ t # s
  BY <1>1, <1>2, MemoryAssumption DEF Insert
\* Nobody is at the new session with texts.
<1>4. ASSUME NEW d \in Coroutine, doing[d].session = s
      PROVE  doing[d].at \notin {"add", "replace"} /\ ~Adds(doing[d], conversation)
  BY <1>2, <1>4 DEF MemoryInv, Fresh, Stranger, AtKnown, Adds
<1> HIDE DEF texts
<1>5. CASE turns' = <<>> /\ Ends(c) /\ UNCHANGED past
  <2> DEFINE r == Resting
  <2>1. r = Resting /\ Equipped(r, user', session') /\ Stranger(r) /\ r.session = Unset
        /\ Fits(r.messages, Of(r.session, conversation), home)
    BY RestingErrand, NothingFits
  <2> HIDE DEF r
  <2>2. AttributeTypes'
    BY <1>1, <1>2, <1>3, <1>5 DEF AttributeTypes, past
  <2>3. Fits(turns', Of(session', conversation), home)
    BY <1>5, NothingFits
  <2>4. \A t \in Session : stored'[t] \in {stored[t], <<>>}
    BY <1>3
  <2>5. \A t \in Session : owner'[t] = Unset =>
          owner[t] = Unset /\ t # session' /\ (r.session = t => Stranger(r))
    BY <1>1, <1>3, <2>1
  <2>6. \A d \in Coroutine :
          d # c /\ Adds(doing[d], conversation) /\ session' = doing[d].session =>
            Follows(turns', Tail(doing[d].messages))
    BY <1>1, <1>4
  <2>7. session' \in Session /\ (user \in User => user' \in User) /\ UNCHANGED past
    BY <1>1, <1>2, <1>5
  <2>8. Ends(c) /\ r = Resting
    BY <1>5, <2>1
  <2>9. QED
    BY <2>1, <2>2, <2>3, <2>4, <2>5, <2>6, <2>7, <2>8, AddsNothing, ZenonT(60)
<1>6. CASE Say(c, s, <<>>) /\ UNCHANGED conversation
  <2> DEFINE none == <<>>
  <2>1. Say(c, s, none) /\ Fits(none, conversation[s], home)
    BY <1>6, NothingFits
  <2>2. ~Readding(s)
    BY <1>4 DEF Readding
  <2> HIDE DEF none
  <2>3. QED  BY <1>1, <1>2, <1>3, <1>6, <2>1, <2>2, SayMoves
<1>7. CASE /\ texts # <<>>
           /\ Enter(c, s, <<>>, texts)
           /\ conversation' = [conversation EXCEPT ![s] =
                IF doing[c].session = Unset THEN Unset ELSE conversation[doing[c].session]]
           /\ UNCHANGED home
  <2> DEFINE none == <<>>
             k == Of(doing[c].session, conversation)
  <2>1. k \in Session \cup {Unset} /\ conversation' = [conversation EXCEPT ![s] = k]
    BY <1>2, <1>7, MemoryAssumption DEF Of
  <2>2. Fits(texts, k, home)
    BY DEF MemoryInv, AllFit, texts
  <2> HIDE DEF k
  <2>3. /\ conversation' \in [Session -> Session \cup {Unset}] /\ conversation'[s] = k
        /\ \A t \in Session : t # s => conversation'[t] = conversation[t]
    BY <1>2, <2>1
  <2>4. AttributeTypes'
    BY <1>1, <1>2, <1>3, <1>7, <2>3 DEF AttributeTypes
  <2>5. /\ Enter(c, s, none, texts) /\ stored[s] = none
        /\ \A l, h : Fits(none, l, h) /\ \A m : Follows(none, m)
    BY <1>2, <1>7, NothingFits
  <2> HIDE DEF none
  <2>6. home' = home /\ texts # <<>>
    BY <1>7
  <2>7. \A t \in Session : Fits(stored'[t], conversation'[t], home')
    BY <1>3, <2>3, <2>5, <2>6 DEF MemoryInv, Belong
  <2>8. Fits(none, conversation'[s], home') /\ Fits(texts, conversation'[s], home')
    BY <2>2, <2>3, <2>5, <2>6
  <2>9. \A t \in Session : owner'[t] = Unset => owner[t] = Unset /\ stored'[t] = <<>> /\ t # s
    BY <1>3 DEF MemoryInv, Fresh
  <2>10. \A d \in Coroutine :
           d # c /\ Adds(doing[d], conversation) => Follows(stored'[doing[d].session], doing[d].messages)
    BY <1>3 DEF MemoryInv, LastSaid
  <2>11. /\ Follows(none, texts) /\ Follows(stored'[s], texts)
         /\ \A d \in Coroutine : d # c /\ doing[d].session = s => doing[d].at \notin {"add", "replace"}
    BY <1>3, <1>4, <2>5
  <2>12. \A t \in Session : conversation'[t] \in {conversation[t], Unset} \/ owner[t] = Unset
    BY <1>2, <2>3
  <2>13. QED
    BY <1>1, <1>2, <2>4, <2>5, <2>6, <2>7, <2>8, <2>9, <2>10, <2>11, <2>12, EnterMoves, ZenonT(60)
<1>8. QED  BY <1>1, <1>5, <1>6, <1>7

LEMMA AddMoves ==
  ASSUME MemoryInv, NEW c \in Coroutine, Add(c)
  PROVE  MemoryInv'
<1>1. /\ user \in User \cup {Unset} /\ user # Unset /\ user' = user /\ session' = session /\ UNCHANGED table
      /\ owner' = owner /\ stored' = stored /\ session \in Session \cup {Unset}
      /\ owner \in [Session -> User \cup {Unset, Gone}]
      /\ Fits(turns, Of(session, conversation), home)
      /\ \A t \in Session : owner[t] = Unset => t # session
  BY DEF Add, table, MemoryInv, AttributeTypes, Belong, Fresh
<1>2. CASE session = Unset
  <2>1. Create(c, "add") /\ UNCHANGED <<mine, table, past>>
    BY <1>1, <1>2 DEF Add, mine
  <2>2. QED  BY <1>1, <2>1, CreateMoves
<1>3. CASE session # Unset
  <2>1. /\ session \in Session /\ Say(c, session, turns)
        /\ UNCHANGED conversation \/ Mixed(session)
        /\ Readding(session) => Mixed(session)
    BY <1>1, <1>3 DEF Add
  <2>2. Fits(turns, conversation[session], home)
    BY <1>1, <2>1 DEF Of
  <2>3. \A t \in Session : owner'[t] = Unset => owner[t] = Unset /\ t # session
    BY <1>1
  <2>4. owner' \in [Session -> User \cup {Unset, Gone}]
    BY <1>1
  <2>5. QED  BY <1>1, <2>1, <2>2, <2>3, <2>4, SayMoves
<1>4. QED  BY <1>2, <1>3

\* The statement of an add has taken effect: what else is on its way was said later.
LEMMA AddTakesEffect ==
  ASSUME MemoryInv, NEW c \in Coroutine, Serves(c, "add"),
         Write(doing[c].session, Append(stored[doing[c].session], Head(doing[c].messages)))
  PROVE  /\ stored' \in [Session -> Seq(Nat)] /\ owner' = owner
         /\ \A s \in Session : owner[s] = Unset => stored'[s] = <<>>
         /\ \A s \in Session : Fits(stored'[s], conversation[s], home)
         /\ Adds(doing[c], conversation) => Follows(stored'[doing[c].session], Tail(doing[c].messages))
         /\ \A d \in Coroutine : d # c /\ Adds(doing[d], conversation) =>
              Follows(stored'[doing[d].session], doing[d].messages)
<1> DEFINE s == doing[c].session
           texts == doing[c].messages
           l == Append(stored[s], Head(texts))
           k == conversation[s]
<1>1. /\ doing[c].at = "add" /\ s \in Session /\ texts # <<>> /\ owner[s] # Unset
      /\ stored \in [Session -> Seq(Nat)]
      /\ \A t \in Session : owner[t] = Unset => stored[t] = <<>>
  BY DEF Serves, MemoryInv, AttributeTypes, Errands, Equipped, AtOne, Fresh, Stranger, AtKnown
<1>2. Adds(doing[c], conversation) <=> k # Unset
  BY <1>1 DEF Adds
<1>3. Fits(stored[s], k, home) /\ Fits(texts, k, home)
  BY <1>1 DEF MemoryInv, Belong, AllFit, Of
<1>4. k # Unset => Follows(stored[s], texts)
  BY <1>2 DEF MemoryInv, LastSaid
<1>5. stored' = [stored EXCEPT ![s] = l] /\ owner' = owner
  BY DEF Write
<1> HIDE DEF s, texts, k
<1>6. /\ Fits(l, k, home) /\ (k # Unset => Follows(l, Tail(texts)))
      /\ \A m : Follows(stored[s], m) /\ Follows(texts, m) => Follows(l, m)
  BY <1>1, <1>3, <1>4, HeadFits
<1>7. l \in Seq(Nat)
  BY <1>6 DEF Fits
<1> HIDE DEF l
<1>8. /\ stored' \in [Session -> Seq(Nat)] /\ stored'[s] = l
      /\ \A t \in Session : t # s => stored'[t] = stored[t]
  BY <1>1, <1>5, <1>7
<1>9. \A t \in Session : Fits(stored'[t], conversation[t], home)
  BY <1>6, <1>8 DEF MemoryInv, Belong, k
<1>10. ASSUME NEW d \in Coroutine, d # c, Adds(doing[d], conversation)
       PROVE  Follows(stored'[doing[d].session], doing[d].messages)
  <2>1. doing[d].session \in Session /\ Follows(stored[doing[d].session], doing[d].messages)
    BY <1>10 DEF MemoryInv, LastSaid, Errands, Equipped, Adds, AtOne
  <2>2. CASE doing[d].session = s
    <3>1. Adds(doing[c], conversation) /\ doing[d].session = doing[c].session
      BY <1>1, <1>10, <2>2 DEF Adds, s
    <3>2. Follows(texts, doing[d].messages)
      BY <1>10, <3>1, ServedFirst DEF texts
    <3>3. QED  BY <1>6, <1>8, <2>1, <2>2, <3>2
  <2>3. CASE doing[d].session # s
    BY <1>8, <2>1, <2>3
  <2>4. QED  BY <2>2, <2>3
<1>11. Adds(doing[c], conversation) => Follows(stored'[s], Tail(texts))
  BY <1>2, <1>6, <1>8
<1>12. \A t \in Session : owner[t] = Unset => stored'[t] = <<>>
  BY <1>1, <1>8
<1>13. QED  BY <1>5, <1>8, <1>9, <1>10, <1>11, <1>12 DEF s, texts

\* The last step of a coroutine.
LEMMA DoneMoves ==
  ASSUME MemoryInv, NEW c \in Coroutine, Ends(c), UNCHANGED <<user, session, past>>,
         owner' \in [Session -> User \cup {Unset, Gone}], stored' \in [Session -> Seq(Nat)], Belong',
         \A s \in Session : owner'[s] = Unset => owner[s] = Unset /\ stored'[s] = <<>>,
         \A d \in Coroutine :
           d # c /\ Adds(doing[d], conversation) =>
             /\ Follows(stored'[doing[d].session], doing[d].messages)
             /\ session = doing[d].session => Follows(turns', Tail(doing[d].messages))
  PROVE  MemoryInv'
<1> DEFINE r == Resting
<1>1. /\ r = Resting /\ Equipped(r, user', session') /\ Stranger(r) /\ r.at = "idle"
      /\ Fits(r.messages, Of(r.session, conversation), home)
  BY RestingErrand, NothingFits
<1> HIDE DEF r
<1>2. AttributeTypes'
  BY DEF MemoryInv, AttributeTypes, past
<1>3. \A s \in Session : owner'[s] = Unset =>
        /\ owner[s] = Unset /\ stored'[s] = <<>> /\ s # session'
        /\ r.session = s => Stranger(r)
  BY <1>1 DEF MemoryInv, Fresh
<1>4. \A d \in Coroutine :
        d # c /\ Adds(doing[d], conversation) =>
          /\ Follows(stored'[doing[d].session], doing[d].messages)
          /\ session' = doing[d].session => Follows(turns', Tail(doing[d].messages))
          /\ r.at = "replace" /\ r.session = doing[d].session => Follows(r.messages, doing[d].messages)
  BY <1>1
<1>5. UNCHANGED past /\ (user \in User => user' \in User) /\ (session \in Session => session' \in Session)
  OBVIOUS
<1>6. QED  BY <1>1, <1>2, <1>3, <1>4, <1>5, LeavesTexts, ZenonT(60)

LEMMA AddedMoves ==
  ASSUME MemoryInv, NEW c \in Coroutine, Added(c)
  PROVE  MemoryInv'
<1> DEFINE s == doing[c].session
           texts == doing[c].messages
           rest == Tail(texts)
<1>1. /\ Serves(c, "add") /\ doing[c].at = "add" /\ user' = user /\ session' = session
      /\ user \in User \cup {Unset} /\ session \in Session /\ s \in Session
      /\ texts \in Seq(Nat) /\ texts # <<>>
      /\ Fits(turns, conversation[session], home) /\ Fits(texts, conversation[s], home)
      /\ owner \in [Session -> User \cup {Unset, Gone}]
      /\ conversation \in [Session -> Session \cup {Unset}]
      /\ \A t \in Session : owner[t] = Unset => t # session
  BY DEF Added, Serves, MemoryInv, AttributeTypes, Belong, AllFit, Errands, Equipped, Errand, AtOne, Fresh, Of
<1>2. CASE owner[s] = Gone
  <2> DEFINE r == Resting
  <2>1. r = Resting /\ Equipped(r, user', session) /\ r.messages = <<>> /\ Stranger(r)
    BY RestingErrand
  <2>2. Ends(c) /\ UNCHANGED <<session, turns, table, past>>
    BY <1>1, <1>2 DEF Added
  <2>3. QED  BY <1>1, <2>1, <2>2, OnlyMoves
<1>3. CASE owner[s] # Gone
  <2>1. /\ stored' \in [Session -> Seq(Nat)] /\ owner' = owner
        /\ \A t \in Session : owner[t] = Unset => stored'[t] = <<>>
        /\ \A t \in Session : Fits(stored'[t], conversation[t], home)
        /\ Adds(doing[c], conversation) => Follows(stored'[s], rest)
        /\ \A d \in Coroutine : d # c /\ Adds(doing[d], conversation) =>
             Follows(stored'[doing[d].session], doing[d].messages)
    BY <1>1, <1>3, AddTakesEffect DEF Added
  <2>2. CASE rest = <<>>
    <3>1. Ends(c) /\ UNCHANGED <<user, session, turns, past>>
      BY <1>1, <1>3, <2>2 DEF Added
    <3>2. Belong'
      BY <1>1, <2>1, <3>1 DEF Belong, Of, past
    <3>3. \A d \in Coroutine :
            d # c /\ Adds(doing[d], conversation) =>
              /\ Follows(stored'[doing[d].session], doing[d].messages)
              /\ session = doing[d].session => Follows(turns', Tail(doing[d].messages))
      BY <2>1, <3>1 DEF MemoryInv, LastSaid
    <3>4. \A t \in Session : owner'[t] = Unset => owner[t] = Unset /\ stored'[t] = <<>>
      BY <2>1
    <3>5. UNCHANGED <<user, session, past>> /\ owner' \in [Session -> User \cup {Unset, Gone}]
      BY <1>1, <2>1, <3>1
    <3>6. QED  BY <2>1, <3>1, <3>2, <3>3, <3>4, <3>5, DoneMoves
  <2>3. CASE rest # <<>>
    <3>1. /\ Enter(c, session, turns, rest) /\ home' = home
          /\ session = s => conversation' = conversation
          /\ session # s => Mixed(session)
      BY <1>1, <1>3, <2>3 DEF Added
    <3>2. /\ Fits(rest, conversation[s], home) /\ rest \in Seq(Nat)
          /\ \A m : Follows(m, texts) => Follows(m, rest)
      BY <1>1, TailFits DEF Fits
    <3>3. Len(texts) # 1
      BY <1>1, <2>3, OneText
    <3> HIDE DEF rest
    <3>4. /\ conversation' \in [Session -> Session \cup {Unset}]
          /\ conversation'[session] = IF session = s THEN conversation[s] ELSE Unset
          /\ \A t \in Session : conversation'[t] \in {conversation[t], Unset}
      BY <1>1, <3>1 DEF Mixed
    <3>5. AttributeTypes'
      BY <1>1, <2>1, <3>1, <3>4 DEF MemoryInv, AttributeTypes
    <3>6. \A t \in Session : Fits(stored'[t], conversation'[t], home')
      BY <2>1, <3>1, <3>4, AnyFits
    <3>7. Fits(turns, conversation'[session], home') /\ Fits(rest, conversation'[session], home')
      BY <1>1, <3>1, <3>2, <3>4, AnyFits
    <3>8. ASSUME conversation'[session] # Unset
          PROVE  /\ Follows(turns, rest) /\ Follows(stored'[session], rest)
                 /\ \A d \in Coroutine : d # c /\ doing[d].session = session =>
                      /\ doing[d].at = "replace" => Follows(doing[d].messages, rest)
                      /\ doing[d].at = "add" => /\ Len(doing[d].messages) = 1 /\ Len(rest) = 1
                                                /\ Follows(doing[d].messages, rest)
      <4>1. session = s /\ conversation[s] # Unset /\ Adds(doing[c], conversation)
        BY <1>1, <3>4, <3>8 DEF Adds
      <4>2. Follows(turns, rest) /\ Follows(stored'[session], rest)
        BY <2>1, <4>1 DEF MemoryInv, LastSaid, rest
      <4>3. ASSUME NEW d \in Coroutine, d # c, doing[d].session = session
            PROVE  doing[d].at = "replace" => Follows(doing[d].messages, rest)
        BY <3>2, <4>1, <4>3 DEF MemoryInv, LastSaid
      <4>4. ASSUME NEW d \in Coroutine, d # c, doing[d].session = session
            PROVE  doing[d].at # "add"
        BY <3>3, <4>1, <4>4 DEF MemoryInv, Alone, Adds
      <4>5. QED  BY <4>2, <4>3, <4>4
    <3>9. \A t \in Session : owner'[t] = Unset => owner[t] = Unset /\ stored'[t] = <<>> /\ t # session
      BY <1>1, <2>1
    <3>10. \A t \in Session : conversation'[t] \in {conversation[t], Unset} \/ owner[t] = Unset
      BY <3>4
    <3>11. QED
      BY <1>1, <2>1, <2>3, <3>1, <3>2, <3>5, <3>6, <3>7, <3>8, <3>9, <3>10, EnterMoves, ZenonT(60)
  <2>4. QED  BY <2>2, <2>3
<1>4. QED  BY <1>2, <1>3

LEMMA DeletedMoves ==
  ASSUME MemoryInv, NEW c \in Coroutine, Deleted(c)
  PROVE  MemoryInv'
<1> DEFINE s == doing[c].session
           texts == doing[c].messages
           ok == owner[s] = doing[c].user
           creating == [Resting EXCEPT !.at = "create", !.user = user, !.messages = texts,
                                       !.session = IF ok /\ user = doing[c].user THEN s ELSE Unset]
           others == [Resting EXCEPT !.at = "others", !.user = user]
<1>1. /\ user \in User \cup {Unset} /\ user' = user /\ session' = session /\ turns' = turns
      /\ UNCHANGED past /\ s \in Session /\ texts \in Seq(Nat)
      /\ Fits(turns, Of(session, conversation), home) /\ Fits(texts, conversation[s], home)
      /\ owner \in [Session -> User \cup {Unset, Gone}] /\ stored \in [Session -> Seq(Nat)]
      /\ \A t \in Session : owner[t] = Unset => t # session
      /\ owner[s] = Unset => texts = <<>>
  BY DEF Deleted, Serves, mine, MemoryInv, AttributeTypes, Belong, AllFit, Errands, Equipped, Errand, AtOne,
         Fresh, Stranger, Of
<1>2. (ok /\ Remove(s)) \/ UNCHANGED table
  BY DEF Deleted
<1>3. /\ owner' \in [Session -> User \cup {Unset, Gone}]
      /\ \A t \in Session : stored'[t] \in {stored[t], <<>>} /\ (owner'[t] = Unset => owner[t] = Unset)
      /\ stored' \in [Session -> Seq(Nat)]
  <2>1. CASE Remove(s)
    <3> DEFINE none == <<>>
    <3>1. none \in Seq(Nat) /\ stored' = [stored EXCEPT ![s] = none] /\ owner' = [owner EXCEPT ![s] = Gone]
      BY <2>1, EmptySeq DEF Remove
    <3> HIDE DEF none
    <3>2. /\ owner' \in [Session -> User \cup {Unset, Gone}] /\ stored' \in [Session -> Seq(Nat)]
          /\ \A t \in Session : stored'[t] \in {stored[t], none} /\ (owner'[t] = Unset => owner[t] = Unset)
      BY <1>1, <3>1, MemoryAssumption
    <3>3. QED  BY <3>2 DEF none
  <2>2. CASE UNCHANGED table
    BY <1>1, <2>2 DEF table
  <2>3. QED  BY <1>2, <2>1, <2>2
<1>4. AttributeTypes'
  BY <1>1, <1>3 DEF MemoryInv, AttributeTypes, past
<1>5. \A d \in Coroutine :
        d # c /\ Adds(doing[d], conversation) /\ session' = doing[d].session =>
          Follows(turns', Tail(doing[d].messages))
  BY <1>1 DEF MemoryInv, LastSaid
<1>6. ASSUME NEW r, (Ends(c) /\ r = Resting) \/ (Calls(c, r) /\ r.at \notin {"idle", "add", "replace"}),
             Equipped(r, user', session'), Fits(r.messages, Of(r.session, conversation), home),
             r.session \in Session /\ owner[r.session] = Unset => Stranger(r)
      PROVE  MemoryInv'
  <2>1. Fits(turns', Of(session', conversation), home)
    BY <1>1
  <2>2. \A t \in Session : owner'[t] = Unset =>
          owner[t] = Unset /\ t # session' /\ (r.session = t => Stranger(r))
    BY <1>1, <1>3, <1>6
  <2>3. (user \in User => user' \in User) /\ (session \in Session => session' \in Session)
    BY <1>1
  <2>4. \A t \in Session : stored'[t] \in {stored[t], <<>>}
    BY <1>3
  <2>5. QED
    BY <1>1, <1>4, <1>5, <1>6, <2>1, <2>2, <2>3, <2>4, AddsNothing, ZenonT(60)
<1>7. CASE user \in User /\ Calls(c, creating)
  <2>1. /\ creating \in Errand /\ creating.at = "create" /\ creating.user = user
        /\ creating.messages = texts /\ creating.session \in {s, Unset}
    BY <1>1, RestingErrand DEF Errand, Places
  <2> HIDE DEF creating, texts, s
  <2>2. Fits(texts, Of(creating.session, conversation), home)
    BY <1>1, <2>1, AnyFits, MemoryAssumption DEF Of
  <2>3. Equipped(creating, user', session')
    BY <1>7, <2>1 DEF Equipped, AtOne
  <2>4. creating.session \in Session /\ owner[creating.session] = Unset => Stranger(creating)
    BY <1>1, <2>1, MemoryAssumption DEF Stranger, AtKnown
  <2>5. QED  BY <1>6, <1>7, <2>1, <2>2, <2>3, <2>4
<1>8. CASE user \in User /\ Calls(c, others)
  <2>1. others \in Errand /\ others.at = "others" /\ others.messages = <<>> /\ others.session = Unset
    BY <1>1, RestingErrand DEF Errand, Places
  <2> HIDE DEF others
  <2>2. /\ Equipped(others, user', session') /\ Stranger(others)
        /\ Fits(others.messages, Of(others.session, conversation), home)
    BY <1>1, <1>8, <2>1, NothingFits DEF Equipped, AtOne, Stranger, AtKnown
  <2>3. QED  BY <1>6, <1>8, <2>1, <2>2
<1>9. CASE Ends(c)
  BY <1>6, <1>9, RestingErrand, NothingFits
<1>10. (user # Unset /\ Calls(c, creating)) \/ (user \in User /\ Calls(c, others)) \/ Ends(c)
  BY DEF Deleted, Serves, MemoryInv, Errands, Equipped
<1>11. QED  BY <1>1, <1>7, <1>8, <1>9, <1>10

\* A compaction has read the messages, which what is on its way there follows.
LEMMA ReadMoves ==
  ASSUME MemoryInv, NEW c \in Coroutine, Read(c)
  PROVE  MemoryInv'
<1> DEFINE s == doing[c].session
           texts == <<0>> \o Last(stored[s], KeepLast)
           r == [doing[c] EXCEPT !.at = "replace", !.messages = texts]
<1>1. /\ user \in User \cup {Unset} /\ Len(home) \in Nat /\ s \in Session /\ owner[s] # Unset
      /\ doing[c] \in Errand /\ Fits(stored[s], conversation[s], home)
      /\ UNCHANGED <<user, session, turns, home, conversation, owner, stored, table, past>>
  BY DEF Read, Serves, mine, table, past, MemoryInv, AttributeTypes, Belong, Errands, Equipped, AtOne, AtKnown,
         Fresh, Stranger
<1>2. Ends(c) \/ Calls(c, r)
  BY DEF Read
<1>3. CASE Ends(c)
  <2> DEFINE none == Resting
  <2>1. none = Resting /\ Equipped(none, user', session) /\ none.messages = <<>> /\ Stranger(none)
    BY RestingErrand
  <2>2. QED  BY <1>1, <1>3, <2>1, OnlyMoves
<1>4. CASE Calls(c, r)
  <2>1. Fits(texts, conversation[s], home) /\ \A m : Follows(stored[s], m) => Follows(texts, m)
    BY <1>1, LastFits, SummaryFits, MemoryAssumption
  <2>2. texts \in Seq(Nat)
    BY <2>1 DEF Fits
  <2> HIDE DEF texts
  <2>3. r \in Errand /\ r.at = "replace" /\ r.session = s /\ r.messages = texts
    BY <1>1, <2>2 DEF Errand, Places
  <2> HIDE DEF r, s
  <2>4. Equipped(r, user', session')
    BY <1>1, <2>3 DEF Equipped
  <2>5. AttributeTypes' /\ Belong'
    BY <1>1 DEF MemoryInv, AttributeTypes, Belong
  <2>6. Fits(r.messages, Of(r.session, conversation), home)
    BY <1>1, <2>1, <2>3 DEF Of
  <2>7. \A t \in Session : owner'[t] = Unset =>
          /\ owner[t] = Unset /\ stored'[t] = <<>> /\ t # session'
          /\ r.session = t => Stranger(r)
    BY <1>1, <2>3 DEF MemoryInv, Fresh
  <2>8. \A d \in Coroutine :
          d # c /\ Adds(doing[d], conversation) =>
            /\ Follows(stored'[doing[d].session], doing[d].messages)
            /\ session' = doing[d].session => Follows(turns', Tail(doing[d].messages))
            /\ r.at = "replace" /\ r.session = doing[d].session => Follows(r.messages, doing[d].messages)
    BY <1>1, <2>1, <2>3 DEF MemoryInv, LastSaid
  <2>9. /\ UNCHANGED past /\ (user \in User => user' \in User) /\ (session \in Session => session' \in Session)
        /\ Calls(c, r) /\ r.at \notin {"idle", "add"}
    BY <1>1, <1>4, <2>3
  <2>10. QED
    BY <2>4, <2>5, <2>6, <2>7, <2>8, <2>9, LeavesTexts, ZenonT(60)
<1>5. QED  BY <1>2, <1>3, <1>4

\* The statement of a compaction has taken effect.
LEMMA ReplacementTakesEffect ==
  ASSUME MemoryInv, NEW c \in Coroutine, Serves(c, "replace"),
         Write(doing[c].session, doing[c].messages)
  PROVE  /\ stored' \in [Session -> Seq(Nat)] /\ owner' = owner
         /\ \A s \in Session : owner[s] = Unset => stored'[s] = <<>>
         /\ Fits(doing[c].messages, conversation[doing[c].session], home) /\ doing[c].session \in Session
         /\ \A s \in Session : Fits(stored'[s], conversation[s], home)
         /\ \A d \in Coroutine : Adds(doing[d], conversation) =>
              /\ Follows(stored'[doing[d].session], doing[d].messages)
              /\ doing[d].session = doing[c].session => Follows(doing[c].messages, Tail(doing[d].messages))
<1> DEFINE s == doing[c].session
           l == doing[c].messages
<1>1. /\ doing[c].at = "replace" /\ s \in Session /\ owner[s] # Unset
      /\ stored \in [Session -> Seq(Nat)] /\ Fits(l, conversation[s], home)
      /\ \A t \in Session : owner[t] = Unset => stored[t] = <<>>
  BY DEF Serves, MemoryInv, AttributeTypes, AllFit, Of, Errands, Equipped, AtOne, AtKnown, Fresh, Stranger
<1>2. stored' = [stored EXCEPT ![s] = l] /\ owner' = owner
  BY DEF Write
<1>3. l \in Seq(Nat)
  BY <1>1 DEF Fits
<1>4. ASSUME NEW d \in Coroutine, Adds(doing[d], conversation)
      PROVE  /\ doing[d].session \in Session
             /\ Follows(stored[doing[d].session], doing[d].messages)
             /\ doing[d].session = s => Follows(l, doing[d].messages) /\ Follows(l, Tail(doing[d].messages))
  <2>1. /\ doing[d].session \in Session /\ doing[d].messages # <<>>
        /\ Fits(doing[d].messages, Of(doing[d].session, conversation), home)
        /\ Follows(stored[doing[d].session], doing[d].messages)
        /\ doing[d].session = s => Follows(l, doing[d].messages)
    BY <1>1, <1>4 DEF MemoryInv, LastSaid, Errands, Equipped, Adds, AtOne, AllFit
  <2>2. QED  BY <2>1, TailFits
<1> HIDE DEF l, s
<1>5. /\ stored' \in [Session -> Seq(Nat)] /\ stored'[s] = l
      /\ \A t \in Session : t # s => stored'[t] = stored[t]
  BY <1>1, <1>2, <1>3
<1>6. \A t \in Session : Fits(stored'[t], conversation[t], home)
  BY <1>1, <1>5 DEF MemoryInv, Belong
<1>7. \A t \in Session : owner[t] = Unset => stored'[t] = <<>>
  BY <1>1, <1>5
<1>8. \A d \in Coroutine : Adds(doing[d], conversation) =>
        /\ Follows(stored'[doing[d].session], doing[d].messages)
        /\ doing[d].session = s => Follows(l, Tail(doing[d].messages))
  BY <1>4, <1>5
<1>9. QED  BY <1>1, <1>2, <1>5, <1>6, <1>7, <1>8 DEF l, s

LEMMA ReplacedMoves ==
  ASSUME MemoryInv, NEW c \in Coroutine, Replaced(c)
  PROVE  MemoryInv'
<1>1. /\ UNCHANGED <<user, session, past>> /\ Serves(c, "replace") /\ Ends(c)
      /\ user \in User \cup {Unset} /\ owner \in [Session -> User \cup {Unset, Gone}]
      /\ Fits(turns, Of(session, conversation), home) /\ home' = home /\ conversation' = conversation
  BY DEF Replaced, past, MemoryInv, AttributeTypes, Belong
<1>2. CASE owner[doing[c].session] = Gone
  <2> DEFINE r == Resting
  <2>1. r = Resting /\ Equipped(r, user', session) /\ r.messages = <<>> /\ Stranger(r)
    BY RestingErrand
  <2>2. UNCHANGED <<session, turns, table, past>>
    BY <1>1, <1>2 DEF Replaced
  <2>3. QED  BY <1>1, <2>1, <2>2, OnlyMoves
<1>3. CASE owner[doing[c].session] # Gone
  <2>1. /\ Write(doing[c].session, doing[c].messages)
        /\ turns' = turns \/ (session = doing[c].session /\ turns' = doing[c].messages)
    BY <1>3 DEF Replaced
  <2>2. /\ stored' \in [Session -> Seq(Nat)] /\ owner' = owner
        /\ \A s \in Session : owner[s] = Unset => stored'[s] = <<>>
        /\ Fits(doing[c].messages, conversation[doing[c].session], home) /\ doing[c].session \in Session
        /\ \A s \in Session : Fits(stored'[s], conversation[s], home)
        /\ \A d \in Coroutine : Adds(doing[d], conversation) =>
             /\ Follows(stored'[doing[d].session], doing[d].messages)
             /\ doing[d].session = doing[c].session => Follows(doing[c].messages, Tail(doing[d].messages))
    BY <1>1, <2>1, ReplacementTakesEffect
  <2>3. Belong'
    <3>1. Fits(turns', Of(session, conversation), home)
      BY <1>1, <2>1, <2>2 DEF Of
    <3>2. QED  BY <1>1, <2>2, <3>1 DEF Belong
  <2>4. \A d \in Coroutine :
          d # c /\ Adds(doing[d], conversation) =>
            /\ Follows(stored'[doing[d].session], doing[d].messages)
            /\ session = doing[d].session => Follows(turns', Tail(doing[d].messages))
    BY <2>1, <2>2 DEF MemoryInv, LastSaid
  <2>5. \A s \in Session : owner'[s] = Unset => owner[s] = Unset /\ stored'[s] = <<>>
    BY <2>2
  <2>6. owner' \in [Session -> User \cup {Unset, Gone}]
    BY <1>1, <2>2
  <2>7. QED  BY <1>1, <2>2, <2>3, <2>4, <2>5, <2>6, DoneMoves
<1>4. QED  BY <1>2, <1>3

\* A coroutine goes, with or without the effect of its last call.
LEMMA GoneMoves ==
  ASSUME MemoryInv, NEW c \in Coroutine, GivesUp(c) \/ CancelledLate(c)
  PROVE  MemoryInv'
<1>1. /\ UNCHANGED <<user, session, turns, past, home, conversation>> /\ Ends(c)
      /\ Fits(turns, Of(session, conversation), home)
      /\ owner \in [Session -> User \cup {Unset, Gone}] /\ stored \in [Session -> Seq(Nat)]
      /\ \A s \in Session : Fits(stored[s], conversation[s], home)
      /\ \A s \in Session : owner[s] = Unset => stored[s] = <<>>
      /\ \A d \in Coroutine : Adds(doing[d], conversation) =>
           Follows(stored[doing[d].session], doing[d].messages)
  BY DEF GivesUp, CancelledLate, mine, past, MemoryInv, AttributeTypes, Belong, Fresh, LastSaid
<1>2. ASSUME owner' \in [Session -> User \cup {Unset, Gone}], stored' \in [Session -> Seq(Nat)],
             \A s \in Session : owner'[s] = Unset => owner[s] = Unset /\ stored'[s] = <<>>,
             \A s \in Session : Fits(stored'[s], conversation[s], home),
             \A d \in Coroutine : d # c /\ Adds(doing[d], conversation) =>
               Follows(stored'[doing[d].session], doing[d].messages)
      PROVE  MemoryInv'
  <2>1. Belong'
    BY <1>1, <1>2 DEF Belong
  <2>2. \A d \in Coroutine :
          d # c /\ Adds(doing[d], conversation) =>
            /\ Follows(stored'[doing[d].session], doing[d].messages)
            /\ session = doing[d].session => Follows(turns', Tail(doing[d].messages))
    BY <1>1, <1>2 DEF MemoryInv, LastSaid
  <2>3. UNCHANGED <<user, session, past>>
    BY <1>1
  <2>4. QED  BY <1>1, <1>2, <2>1, <2>2, <2>3, DoneMoves, ZenonT(60)
<1>3. CASE GivesUp(c)
  <2>1. owner' = owner /\ stored' = stored
    BY <1>3 DEF GivesUp, table
  <2>2. QED  BY <1>1, <1>2, <2>1
<1>4. CASE Serves(c, "create") /\ \E s \in Session : IsNew(s) /\ Insert(s, doing[c].user)
  <2>1. doing[c].user \in User
    BY <1>4 DEF Serves, MemoryInv, Errands, Equipped
  <2>2. PICK s \in Session : owner' = [owner EXCEPT ![s] = doing[c].user] /\ stored' = stored
    BY <1>4 DEF Insert
  <2>3. /\ owner' \in [Session -> User \cup {Unset, Gone}]
        /\ \A t \in Session : owner'[t] = Unset => owner[t] = Unset
    BY <1>1, <2>1, <2>2, MemoryAssumption
  <2>4. QED  BY <1>1, <1>2, <2>2, <2>3
<1>5. CASE Serves(c, "delete") /\ Remove(doing[c].session)
  <2> DEFINE none == <<>>
             s == doing[c].session
  <2>1. s \in Session
    BY <1>5 DEF Serves, MemoryInv, Errands, Equipped, AtOne
  <2>2. /\ none \in Seq(Nat) /\ stored' = [stored EXCEPT ![s] = none] /\ owner' = [owner EXCEPT ![s] = Gone]
        /\ \A k : Fits(none, k, home) /\ \A m : Follows(none, m)
    BY <1>5, EmptySeq, NothingFits DEF Remove
  <2>3. \A t \in Session : owner[t] = Unset => stored[t] = none
    BY <1>1
  <2> HIDE DEF none, s
  <2>4. /\ owner' \in [Session -> User \cup {Unset, Gone}] /\ stored' \in [Session -> Seq(Nat)]
        /\ \A t \in Session : stored'[t] \in {stored[t], none} /\ (owner'[t] = Unset => owner[t] = Unset)
    BY <1>1, <2>1, <2>2, MemoryAssumption
  <2>5. \A d \in Coroutine : Adds(doing[d], conversation) => doing[d].session \in Session
    BY DEF MemoryInv, Errands, Equipped, Adds, AtOne
  <2>6. \A t \in Session : owner'[t] = Unset => owner[t] = Unset /\ stored'[t] = none
    BY <2>3, <2>4
  <2>7. \A t \in Session : Fits(stored'[t], conversation[t], home)
    BY <1>1, <2>2, <2>4
  <2>8. \A d \in Coroutine : Adds(doing[d], conversation) => Follows(stored'[doing[d].session], doing[d].messages)
    BY <1>1, <2>2, <2>4, <2>5
  <2>9. QED  BY <1>2, <2>4, <2>6, <2>7, <2>8 DEF none
<1>6. CASE Serves(c, "add") /\ Write(doing[c].session, Append(stored[doing[c].session], Head(doing[c].messages)))
  BY <1>1, <1>2, <1>6, AddTakesEffect
<1>7. CASE Serves(c, "replace") /\ Write(doing[c].session, doing[c].messages)
  BY <1>1, <1>2, <1>7, ReplacementTakesEffect
<1>8. QED  BY <1>3, <1>4, <1>5, <1>6, <1>7 DEF CancelledLate

LEMMA MemoryKeeps == MemoryInv /\ [MNext]_mvars => MemoryInv'
<1> SUFFICES ASSUME MemoryInv, [MNext]_mvars
             PROVE  MemoryInv'
  OBVIOUS
<1>1. ASSUME NEW c \in Coroutine, MemoryStep(c)
      PROVE  MemoryInv'
  BY <1>1, BeginningMoves, TurnsReplacedMoves, AnswersMove, GotMoves, CreatedMoves, AddMoves, AddedMoves,
     DeletedMoves, ReadMoves, ReplacedMoves, GoneMoves DEF MemoryStep
<1>2. CASE UNCHANGED mvars
  BY <1>2 DEF mvars, mine, table, past, MemoryInv, AttributeTypes, Errands, Queued, Fresh, Belong, AllFit,
              LastSaid, Alone, FirstSaid
<1>3. QED  BY <1>1, <1>2 DEF MNext

LEMMA MemoryStarts == MInit => MemoryInv
<1> SUFFICES ASSUME MInit
             PROVE  MemoryInv
  OBVIOUS
<1> DEFINE none == <<>>
<1>1. /\ user = Unset /\ session = Unset /\ turns = none /\ home = none /\ calls = none
      /\ owner = [s \in Session |-> Unset] /\ stored = [s \in Session |-> none]
      /\ conversation = [s \in Session |-> s] /\ doing = [c \in Coroutine |-> Resting]
  BY DEF MInit
<1>2. /\ none \in Seq(Nat) /\ none \in Seq(Session \cup {Unset}) /\ none \in Seq(Coroutine) /\ Len(none) = 0
      /\ DOMAIN none = {} /\ \A k, h : Fits(none, k, h)
  BY NothingFits
<1>3. \A c \in Coroutine :
        /\ doing[c] \in Errand /\ doing[c].at = "idle" /\ doing[c].messages = none /\ Stranger(doing[c])
        /\ \A u, t : Equipped(doing[c], u, t)
  BY <1>1, RestingErrand
<1>4. Fresh
  BY <1>1, <1>3, MemoryAssumption DEF Fresh
<1> HIDE DEF none
<1>5. AttributeTypes
  BY <1>1, <1>2, MemoryAssumption DEF AttributeTypes
<1>6. Errands
  BY <1>1, <1>3, RestingErrand DEF Errands
<1>7. Queued /\ FirstSaid
  BY <1>1, <1>2, <1>3 DEF Queued, FirstSaid, Distinct, Items
<1>8. LastSaid /\ Alone
  BY <1>3 DEF LastSaid, Alone, Adds
<1>9. Belong /\ AllFit
  BY <1>1, <1>2, <1>3 DEF Belong, AllFit
<1>10. QED  BY <1>4, <1>5, <1>6, <1>7, <1>8, <1>9 DEF MemoryInv

LEMMA MemoryInvariant == MemorySpec => []MemoryInv
BY MemoryStarts, MemoryKeeps, PTL DEF MemorySpec

\* The memory's attributes, the database and the calls of the coroutines keep
\* their types: no text is ever known before its turn was said.
THEOREM MemoryTypesKept == MemorySpec => []MTypeOK
<1>1. MemoryInv => MTypeOK
  <2> SUFFICES ASSUME MemoryInv
               PROVE  MTypeOK
    OBVIOUS
  <2>1. AttributeTypes /\ Len(home) \in Nat
    BY DEF MemoryInv, AttributeTypes
  <2>2. \A texts, k : Fits(texts, k, home) => texts \in Seq(0 .. Len(home))
    <3> SUFFICES ASSUME NEW texts, NEW k, Fits(texts, k, home)
                 PROVE  texts \in Seq(0 .. Len(home))
      OBVIOUS
    <3>1. texts \in Seq(Nat) /\ \A i \in DOMAIN texts : texts[i] \in 0 .. Len(home)
      BY <2>1 DEF Fits
    <3>2. QED  BY <3>1, SeqOfRange, IsASeq
  <2>3. turns \in Seq(0 .. Len(home)) /\ stored \in [Session -> Seq(0 .. Len(home))]
    BY <2>1, <2>2 DEF MemoryInv, Belong, AttributeTypes
  <2> DEFINE To == [at : {"idle", "user", "list", "load", "get", "create", "add", "delete",
                          "others", "count", "peek", "read", "replace"},
                    user : User \cup {Unset}, session : Session \cup {Unset},
                    messages : Seq(0 .. Len(home)), left : Nat,
                    next : {"end", "add", "create", "switch"}]
  <2>4. ASSUME NEW c \in Coroutine
        PROVE  doing[c] \in To
    <3>1. doing[c].messages \in Seq(0 .. Len(home))
      BY <2>2 DEF MemoryInv, AllFit
    <3>2. doing[c] \in Errand
      BY DEF MemoryInv, Errands
    <3>3. QED  BY <3>1, <3>2 DEF Errand, Places
  <2>5. doing \in [Coroutine -> To]
    <3> HIDE DEF To
    <3>1. QED  BY <2>4 DEF MemoryInv, Errands
  <2>6. calls \in Seq(Coroutine)
    BY DEF MemoryInv, Queued
  <2>7. QED  BY <2>1, <2>3, <2>5, <2>6 DEF AttributeTypes, MTypeOK
<1>2. QED  BY <1>1, MemoryInvariant, PTL

\* In a session whose summaries nobody came between there are only turns that were
\* said in its conversation, in the database and, while it is active, in what the
\* agent is given, however handlers switch users and sessions while others add,
\* summarise, compact, clear and delete; a turn that apply_summary adds again still
\* counts as said where it was said (core/memory.py 322-353, 424-466, 490-533).
THEOREM TurnsStayHome == MemorySpec => []TurnsOfSession
<1>1. MemoryInv => TurnsOfSession
  BY MemoryAssumption DEF MemoryInv, AttributeTypes, Belong, Fits, Of, TurnsOfSession, SaidIn, Whole
<1>2. QED  BY <1>1, MemoryInvariant, PTL

\* Memory and database have the turns of such a session in the order in which they
\* were said, those that apply_summary adds again included, and each once.
THEOREM TurnsKeepTheirOrder == MemorySpec => []TurnsInOrder
<1>1. MemoryInv => TurnsInOrder
  BY MemoryAssumption DEF MemoryInv, AttributeTypes, Belong, Fits, Of, TurnsInOrder, Whole
<1>2. QED  BY <1>1, MemoryInvariant, PTL

-----------------------------------------------------------------------------
(* SqliteLane: the inductive invariant. *)

LaneJob  == [owner : Client \cup {Nobody}, kind : {"op", "undo"}, write : 0 .. MaxWrites]
LaneCall == [at : {"idle", "waiting", "running", "undoing", "pausing"},
             write : 0 .. MaxWrites, try : 1 .. MaxTries,
             result : {"none", "ok", "locked", "error"},
             error : {"none", "locked", "error"}]

LaneTypes ==
  /\ lane \in Seq(LaneJob)
  /\ turnOf \in Seq(Client)
  /\ call \in [Client -> LaneCall]
  /\ conn \in Seq(Statement) /\ db \in Seq(Statement)
  /\ outcome \in Seq({"open", "returned", "raised", "broken", "cancelled"})
  /\ Len(outcome) <= MaxWrites

Active(c) == call[c].at \in {"running", "undoing", "pausing"}

\* The lock has a queue; whoever works with the connection stands first.
InTurn ==
  /\ Distinct(turnOf) /\ Items(turnOf) = {c \in Client : call[c].at # "idle"}
  /\ \A c \in Client : Active(c) => Head(turnOf) = c

\* The jobs: first one of a cancelled caller, perhaps, and then one of the
\* caller whose turn it is, who waits for it.
Jobs ==
  /\ \A i \in DOMAIN lane :
       /\ lane[i].owner = Nobody => i = 1
       /\ lane[i].owner \in Client =>
            /\ i = Len(lane)
            /\ call[lane[i].owner].result = "none"
            /\ call[lane[i].owner].write = lane[i].write
            /\ call[lane[i].owner].at = IF lane[i].kind = "op" THEN "running" ELSE "undoing"
  /\ \A c \in Client :
       /\ call[c].result # "none" => call[c].at \in {"running", "undoing"} /\ lane = <<>>
       /\ call[c].at = "pausing" => lane = <<>>
       /\ call[c].at = "undoing" => \A i \in DOMAIN lane : lane[i].owner = c

\* Every write belongs to the caller whose call is open, and to nobody afterwards.
OpenWrites ==
  /\ \A c \in Client :
       /\ call[c].at = "idle" => call[c].write = 0
       /\ call[c].at = "undoing" => call[c].write # 0
       /\ call[c].write # 0 => call[c].write \in DOMAIN outcome /\ outcome[call[c].write] = "open"
  /\ \A c, d \in Client : call[c].write = call[d].write /\ call[c].write # 0 => c = d
  /\ \A w \in DOMAIN outcome : outcome[w] = "open" => \E c \in Client : call[c].write = w
  /\ \A i \in DOMAIN lane :
       lane[i].owner = Nobody /\ lane[i].write # 0 =>
         lane[i].write \in DOMAIN outcome /\ outcome[lane[i].write] = "cancelled"

\* The statements of a write: they are in one place, once.
Absent(s, w) == \A i \in DOMAIN s : s[i].write # w
Once(s)      == \A i, j \in DOMAIN s : s[i].write = s[j].write => i = j
Stored(w)    == \E i \in DOMAIN db : db[i] = [write |-> w, whole |-> TRUE]

Traced ==
  /\ Once(db) /\ Once(conn)
  /\ \A i \in DOMAIN db : db[i].write \in DOMAIN outcome /\ Absent(conn, db[i].write)
  /\ \A i \in DOMAIN conn : conn[i].write \in DOMAIN outcome

\* What has become of each write.
Written ==
  /\ \A i \in DOMAIN lane :
       lane[i].kind = "op" /\ lane[i].write # 0 =>
         Absent(db, lane[i].write) /\ Absent(conn, lane[i].write)
  /\ \A c \in Client :
       call[c].write # 0 =>
         /\ call[c].at = "running" /\ call[c].result = "ok" => Stored(call[c].write)
         /\ ~(call[c].at = "running" /\ call[c].result = "ok") => Absent(db, call[c].write)
         /\ \/ call[c].at \in {"waiting", "pausing"}
            \/ call[c].at = "running" /\ call[c].result = "none"
            \/ call[c].at = "undoing" /\ call[c].result = "ok"
            => Absent(conn, call[c].write)
  /\ \A w \in DOMAIN outcome :
       /\ outcome[w] = "returned" => Stored(w)
       /\ outcome[w] = "raised" => Absent(db, w) /\ Absent(conn, w)

LaneInv == LaneTypes /\ InTurn /\ Jobs /\ OpenWrites /\ Traced /\ Written

-----------------------------------------------------------------------------
(* Statements. *)

LEMMA AllThere ==
  ASSUME NEW a \in Seq(Statement), NEW b \in Seq(Statement), Once(a), Once(b),
         \A i \in DOMAIN a : Absent(b, a[i].write)
  PROVE  /\ a \o b \in Seq(Statement) /\ Once(a \o b)
         /\ \A w : Absent(a \o b, w) <=> Absent(a, w) /\ Absent(b, w)
         /\ \A i \in DOMAIN a : i \in DOMAIN (a \o b) /\ (a \o b)[i] = a[i]
         /\ \A i \in DOMAIN (a \o b) : \/ i \in DOMAIN a /\ (a \o b)[i] = a[i]
                                       \/ \E j \in DOMAIN b : (a \o b)[i] = b[j]
<1> DEFINE l == a \o b
<1>1. /\ l \in Seq(Statement) /\ Len(l) = Len(a) + Len(b)
      /\ \A i \in 1 .. Len(a) + Len(b) : l[i] = IF i <= Len(a) THEN a[i] ELSE b[i - Len(a)]
  BY ConcatProperties
<1>2. Len(a) \in Nat /\ Len(b) \in Nat /\ DOMAIN a = 1 .. Len(a) /\ DOMAIN b = 1 .. Len(b)
  OBVIOUS
<1> HIDE DEF l
<1>3. DOMAIN l = 1 .. Len(a) + Len(b)
  BY <1>1, <1>2
<1>4. \A i \in DOMAIN l : \/ i \in DOMAIN a /\ l[i] = a[i]
                          \/ i > Len(a) /\ i - Len(a) \in DOMAIN b /\ l[i] = b[i - Len(a)]
  BY <1>1, <1>2, <1>3
<1>5. \A i \in DOMAIN a : i \in DOMAIN l /\ l[i] = a[i]
  BY <1>1, <1>2, <1>3
<1>6. \A j \in DOMAIN b : j + Len(a) \in DOMAIN l /\ l[j + Len(a)] = b[j]
  BY <1>1, <1>2, <1>3
<1>7. Once(l)
  <2> SUFFICES ASSUME NEW i \in DOMAIN l, NEW j \in DOMAIN l, l[i].write = l[j].write
               PROVE  i = j
    BY DEF Once
  <2>1. CASE i \in DOMAIN a /\ l[i] = a[i] /\ j \in DOMAIN a /\ l[j] = a[j]
    BY <2>1 DEF Once
  <2>2. CASE i \in DOMAIN a /\ l[i] = a[i] /\ j - Len(a) \in DOMAIN b /\ l[j] = b[j - Len(a)]
    BY <2>2 DEF Absent
  <2>3. CASE j \in DOMAIN a /\ l[j] = a[j] /\ i - Len(a) \in DOMAIN b /\ l[i] = b[i - Len(a)]
    BY <2>3 DEF Absent
  <2>4. CASE /\ i - Len(a) \in DOMAIN b /\ l[i] = b[i - Len(a)]
             /\ j - Len(a) \in DOMAIN b /\ l[j] = b[j - Len(a)]
    <3>1. i - Len(a) = j - Len(a)
      BY <2>4 DEF Once
    <3>2. QED  BY <1>2, <1>3, <3>1
  <2>5. QED  BY <1>4, <2>1, <2>2, <2>3, <2>4
<1>8. \A w : Absent(l, w) <=> Absent(a, w) /\ Absent(b, w)
  BY <1>4, <1>5, <1>6 DEF Absent
<1>9. QED  BY <1>1, <1>4, <1>5, <1>7, <1>8 DEF l

LEMMA OneStatement ==
  ASSUME NEW t \in Statement
  PROVE  /\ <<t>> \in Seq(Statement) /\ Once(<<t>>) /\ DOMAIN <<t>> = {1} /\ <<t>>[1] = t
         /\ \A w : Absent(<<t>>, w) <=> w # t.write
BY DEF Once, Absent

LEMMA NoStatement ==
  /\ <<>> \in Seq(Statement) /\ Once(<<>>) /\ DOMAIN <<>> = {} /\ \A w : Absent(<<>>, w)
BY DEF Once, Absent

\* A job at the end.
LEMMA JobAppended ==
  ASSUME lane \in Seq(LaneJob), NEW job \in LaneJob, lane' = Append(lane, job)
  PROVE  /\ lane' \in Seq(LaneJob) /\ Len(lane') = Len(lane) + 1 /\ Len(lane) \in Nat
         /\ \A i \in DOMAIN lane' : \/ i \in DOMAIN lane /\ lane'[i] = lane[i] /\ i <= Len(lane)
                                    \/ i = Len(lane) + 1 /\ lane'[i] = job
OBVIOUS

LEMMA Owners ==
  ASSUME LaneTypes
  PROVE  \A i \in DOMAIN lane : lane[i] \in LaneJob /\ lane[i].owner \in Client \cup {Nobody}
<1>1. \A i \in DOMAIN lane : lane[i] \in LaneJob
  BY DEF LaneTypes
<1>2. QED  BY <1>1 DEF LaneJob

-----------------------------------------------------------------------------
(* The steps. *)

LEMMA CallOpMoves ==
  ASSUME LaneInv, NEW c \in Client, NEW write \in BOOLEAN, CallOp(c, write)
  PROVE  LaneInv'
<1> DEFINE n == IF write THEN Len(outcome) + 1 ELSE 0
           r == [NoCall EXCEPT !.at = IF turnOf = <<>> THEN "running" ELSE "waiting", !.write = n]
           job == [owner |-> c, kind |-> "op", write |-> n]
<1> USE DEF LaneInv
<1>1. /\ call[c].at = "idle" /\ Len(outcome) \in Nat /\ DOMAIN outcome = 1 .. Len(outcome)
      /\ write => Len(outcome) < MaxWrites
      /\ outcome' = IF write THEN Append(outcome, "open") ELSE outcome
      /\ call' = [call EXCEPT ![c] = r] /\ turnOf' = Append(turnOf, c)
      /\ conn' = conn /\ db' = db /\ call \in [Client -> LaneCall]
      /\ MaxTries \in Nat \ {0} /\ MaxWrites \in Nat
  BY LaneAssumption DEF CallOp, LaneTypes
<1>2. /\ n \in 0 .. MaxWrites
      /\ outcome' \in Seq({"open", "returned", "raised", "broken", "cancelled"})
      /\ Len(outcome') <= MaxWrites /\ Len(outcome') \in Nat /\ DOMAIN outcome' = 1 .. Len(outcome')
      /\ \A w \in DOMAIN outcome : w \in DOMAIN outcome' /\ outcome'[w] = outcome[w]
      /\ \A w \in DOMAIN outcome' : w \notin DOMAIN outcome => w = n /\ outcome'[w] = "open"
      /\ n # 0 => n \in DOMAIN outcome' /\ n \notin DOMAIN outcome /\ outcome'[n] = "open"
  BY <1>1 DEF LaneTypes
<1>3. /\ r \in LaneCall /\ r.write = n /\ r.result = "none"
      /\ r.at = IF turnOf = <<>> THEN "running" ELSE "waiting"
  <2> DEFINE stand == IF turnOf = <<>> THEN "running" ELSE "waiting"
  <2>1. stand \in {"idle", "waiting", "running", "undoing", "pausing"} /\ 1 \in 1 .. MaxTries
    BY <1>1
  <2>2. r = [NoCall EXCEPT !.at = stand, !.write = n]
    OBVIOUS
  <2> HIDE DEF stand, r
  <2>3. [at |-> stand, write |-> n, try |-> 1, result |-> "none", error |-> "none"] \in LaneCall
    BY <1>2, <2>1 DEF LaneCall
  <2>4. r = [at |-> stand, write |-> n, try |-> 1, result |-> "none", error |-> "none"]
    BY <2>2 DEF NoCall
  <2>5. QED  BY <2>3, <2>4 DEF stand
<1> HIDE DEF r
<1>4. /\ call' \in [Client -> LaneCall] /\ \A d \in Client : call'[d] = IF d = c THEN r ELSE call[d]
  BY <1>1, <1>3
<1>5. /\ turnOf' \in Seq(Client) /\ turnOf' # <<>> /\ Distinct(turnOf') /\ Items(turnOf') = Items(turnOf) \cup {c}
      /\ turnOf # <<>> => Head(turnOf') = Head(turnOf)
      /\ turnOf = <<>> => Head(turnOf') = c
  <2>1. c \notin Items(turnOf)
    BY <1>1 DEF InTurn
  <2>2. QED  BY <1>1, <2>1, AppendKeeps DEF InTurn, LaneTypes
<1>6. turnOf = <<>> => \A d \in Client : call[d].at = "idle"
  BY DEF InTurn, Items
<1>7. job \in LaneJob /\ job = Job(c, "op") /\ job.owner = c /\ job.kind = "op" /\ job.write = n
  BY <1>2, <1>3, <1>4 DEF LaneJob, Job
<1> HIDE DEF job, n
<1>8. InTurn'
  <2>1. Items(turnOf') = {d \in Client : call'[d].at # "idle"}
    BY <1>3, <1>4, <1>5 DEF InTurn
  <2>2. ASSUME NEW d \in Client, Active(d)'
        PROVE  Head(turnOf') = d
    BY <1>3, <1>4, <1>5, <1>6, <2>2 DEF InTurn, Active
  <2>3. QED  BY <1>5, <2>1, <2>2 DEF InTurn
<1>9. CASE turnOf # <<>>
  <2>1. lane' = lane /\ r.at = "waiting"
    BY <1>3, <1>9 DEF CallOp
  <2>2. \A i \in DOMAIN lane : lane[i].owner # c
    BY <1>1 DEF Jobs
  <2>3. LaneTypes'
    BY <1>1, <1>2, <1>4, <1>5, <2>1 DEF LaneTypes
  <2>4. Jobs'
    BY <1>3, <1>4, <2>1, <2>2 DEF Jobs
  <2>5. OpenWrites'
    <3>1. \A d \in Client : d # c /\ n # 0 => call[d].write # n
      BY <1>2 DEF OpenWrites
    <3>2. \A d \in Client :
            /\ call'[d].at = "idle" => call'[d].write = 0
            /\ call'[d].at = "undoing" => call'[d].write # 0
            /\ call'[d].write # 0 => call'[d].write \in DOMAIN outcome' /\ outcome'[call'[d].write] = "open"
      BY <1>2, <1>3, <1>4 DEF OpenWrites
    <3>3. \A d, e \in Client : call'[d].write = call'[e].write /\ call'[d].write # 0 => d = e
      BY <1>3, <1>4, <3>1 DEF OpenWrites
    <3>4. \A i \in DOMAIN lane' : lane'[i].owner = Nobody /\ lane'[i].write # 0 =>
            lane'[i].write \in DOMAIN outcome' /\ outcome'[lane'[i].write] = "cancelled"
      BY <1>2, <2>1 DEF OpenWrites
    <3>5. \A w \in DOMAIN outcome' : outcome'[w] = "open" => \E d \in Client : call'[d].write = w
      <4> SUFFICES ASSUME NEW w \in DOMAIN outcome', outcome'[w] = "open"
                   PROVE  \E d \in Client : call'[d].write = w
        OBVIOUS
      <4>1. CASE w \in DOMAIN outcome
        <5>1. PICK d \in Client : call[d].write = w
          BY <1>2, <4>1 DEF OpenWrites
        <5>2. d # c
          BY <1>1, <4>1, <5>1 DEF OpenWrites
        <5>3. QED  BY <1>4, <5>1, <5>2
      <4>2. CASE w \notin DOMAIN outcome
        BY <1>2, <1>3, <1>4, <4>2
      <4>3. QED  BY <4>1, <4>2
    <3>6. QED  BY <3>2, <3>3, <3>4, <3>5 DEF OpenWrites
  <2>6. Traced'
    BY <1>1, <1>2 DEF Traced
  <2>7. Written'
    <3>1. n # 0 => Absent(db, n) /\ Absent(conn, n)
      BY <1>2 DEF Traced, Absent
    <3>2. QED  BY <1>1, <1>2, <1>3, <1>4, <2>1, <3>1 DEF Written, Stored
  <2>8. QED  BY <1>8, <2>3, <2>4, <2>5, <2>6, <2>7
<1>10. CASE turnOf = <<>>
  <2>1. lane' = Append(lane, job) /\ r.at = "running"
    BY <1>3, <1>7, <1>10 DEF CallOp
  <2>2. \A i \in DOMAIN lane : lane[i].owner = Nobody /\ i = 1
    BY <1>6, <1>10, Owners DEF Jobs
  <2>3. /\ lane' \in Seq(LaneJob) /\ Len(lane') = Len(lane) + 1 /\ Len(lane) \in Nat
        /\ \A i \in DOMAIN lane' : \/ i \in DOMAIN lane /\ lane'[i] = lane[i] /\ i <= Len(lane)
                                   \/ i = Len(lane) + 1 /\ lane'[i] = job
    BY <1>7, <2>1, JobAppended DEF LaneTypes
  <2>4. LaneTypes'
    BY <1>1, <1>2, <1>4, <1>5, <2>3 DEF LaneTypes
  <2>5. c # Nobody
    BY LaneAssumption
  <2>6. Jobs'
    <3>1. ASSUME NEW i \in DOMAIN lane'
          PROVE  /\ lane'[i].owner = Nobody => i = 1
                 /\ lane'[i].owner \in Client => i = Len(lane') /\ lane'[i] = job
      BY <1>7, <2>2, <2>3, <2>5, LaneAssumption
    <3>2. \A d \in Client : d # c => call'[d].at = "idle" /\ call'[d].result = "none"
      BY <1>4, <1>6, <1>10 DEF Jobs, LaneTypes, LaneCall
    <3>3. QED  BY <1>3, <1>4, <1>7, <2>1, <3>1, <3>2 DEF Jobs
  <2>7. OpenWrites'
    <3>1. \A d \in Client : d # c /\ n # 0 => call[d].write # n
      BY <1>2 DEF OpenWrites
    <3>2. \A d \in Client :
            /\ call'[d].at = "idle" => call'[d].write = 0
            /\ call'[d].at = "undoing" => call'[d].write # 0
            /\ call'[d].write # 0 => call'[d].write \in DOMAIN outcome' /\ outcome'[call'[d].write] = "open"
      BY <1>2, <1>3, <1>4 DEF OpenWrites
    <3>3. \A d, e \in Client : call'[d].write = call'[e].write /\ call'[d].write # 0 => d = e
      BY <1>3, <1>4, <3>1 DEF OpenWrites
    <3>4. \A i \in DOMAIN lane' : lane'[i].owner = Nobody /\ lane'[i].write # 0 =>
            lane'[i].write \in DOMAIN outcome' /\ outcome'[lane'[i].write] = "cancelled"
      BY <1>2, <1>7, <2>3, <2>5 DEF OpenWrites
    <3>5. \A w \in DOMAIN outcome' : outcome'[w] = "open" => \E d \in Client : call'[d].write = w
      <4> SUFFICES ASSUME NEW w \in DOMAIN outcome', outcome'[w] = "open"
                   PROVE  \E d \in Client : call'[d].write = w
        OBVIOUS
      <4>1. CASE w \in DOMAIN outcome
        <5>1. PICK d \in Client : call[d].write = w
          BY <1>2, <4>1 DEF OpenWrites
        <5>2. d # c
          BY <1>1, <4>1, <5>1 DEF OpenWrites
        <5>3. QED  BY <1>4, <5>1, <5>2
      <4>2. CASE w \notin DOMAIN outcome
        BY <1>2, <1>3, <1>4, <4>2
      <4>3. QED  BY <4>1, <4>2
    <3>6. QED  BY <3>2, <3>3, <3>4, <3>5 DEF OpenWrites
  <2>8. Traced'
    BY <1>1, <1>2 DEF Traced
  <2>9. Written'
    <3>1. n # 0 => Absent(db, n) /\ Absent(conn, n)
      BY <1>2 DEF Traced, Absent
    <3>2. QED  BY <1>1, <1>2, <1>3, <1>4, <1>7, <2>1, <2>3, <3>1 DEF Written, Stored
  <2>10. QED  BY <1>8, <2>4, <2>6, <2>7, <2>8, <2>9
<1>11. QED  BY <1>9, <1>10

LEMMA SubmitMoves ==
  ASSUME LaneInv, NEW c \in Client, Submit(c)
  PROVE  LaneInv'
<1> DEFINE n == call[c].write
           r == [call[c] EXCEPT !.at = "running"]
           job == [owner |-> c, kind |-> "op", write |-> n]
<1> USE DEF LaneInv
<1>1. /\ call' = [call EXCEPT ![c] = r] /\ lane' = Append(lane, Job(c, "op"))
      /\ turnOf' = turnOf /\ conn' = conn /\ db' = db /\ outcome' = outcome
      /\ call \in [Client -> LaneCall] /\ call[c] \in LaneCall /\ call[c].at \in {"waiting", "pausing"}
      /\ Head(turnOf) = c
  BY DEF Submit, LaneTypes, InTurn, Active
<1>2. r \in LaneCall /\ r.write = n /\ r.result = "none" /\ r.at = "running" /\ n \in 0 .. MaxWrites
  BY <1>1 DEF LaneCall, Jobs
<1> HIDE DEF r
<1>3. /\ call' \in [Client -> LaneCall] /\ \A d \in Client : call'[d] = IF d = c THEN r ELSE call[d]
  BY <1>1, <1>2
<1>4. job \in LaneJob /\ job = Job(c, "op") /\ job.owner = c /\ job.kind = "op" /\ job.write = n
  BY <1>2, <1>3 DEF LaneJob, Job
<1> HIDE DEF job, n
<1>5. \A d \in Client : d # c => call[d].at \in {"idle", "waiting"} /\ call[d].result = "none"
  BY <1>1 DEF InTurn, Active, Jobs, LaneTypes, LaneCall
<1>6. \A i \in DOMAIN lane : lane[i].owner = Nobody /\ i = 1
  BY <1>1, <1>5, Owners DEF Jobs
<1>7. /\ lane' \in Seq(LaneJob) /\ Len(lane') = Len(lane) + 1 /\ Len(lane) \in Nat
      /\ \A i \in DOMAIN lane' : \/ i \in DOMAIN lane /\ lane'[i] = lane[i] /\ i <= Len(lane)
                                 \/ i = Len(lane) + 1 /\ lane'[i] = job
  BY <1>1, <1>4, JobAppended DEF LaneTypes
<1>8. c # Nobody
  BY LaneAssumption
<1>9. LaneTypes'
  BY <1>1, <1>3, <1>7 DEF LaneTypes
<1>10. InTurn'
  BY <1>1, <1>2, <1>3, <1>5 DEF InTurn, Active
<1>11. Jobs'
  <2>1. ASSUME NEW i \in DOMAIN lane'
        PROVE  /\ lane'[i].owner = Nobody => i = 1
               /\ lane'[i].owner \in Client => i = Len(lane') /\ lane'[i] = job
    BY <1>4, <1>6, <1>7, <1>8, LaneAssumption
  <2>2. QED  BY <1>2, <1>3, <1>4, <1>5, <2>1 DEF Jobs
<1>12. OpenWrites'
  BY <1>1, <1>2, <1>3, <1>4, <1>7, <1>8 DEF OpenWrites, n
<1>13. Traced'
  BY <1>1 DEF Traced
<1>14. Written'
  <2>1. n # 0 => Absent(db, n) /\ Absent(conn, n)
    BY <1>1 DEF Written, n
  <2>2. QED  BY <1>1, <1>2, <1>3, <1>4, <1>7, <2>1 DEF Written, Stored, n
<1>15. QED  BY <1>9, <1>10, <1>11, <1>12, <1>13, <1>14

\* A call is over: its job is not in the lane, or is that of nobody now.
LEMMA FinishMoves ==
  ASSUME LaneInv, NEW c \in Client, call[c].at # "idle",
         NEW what \in {"returned", "raised", "broken", "cancelled"}, Finish(c, what),
         conn' = conn, db' = db,
         what = "returned" /\ call[c].write # 0 => Stored(call[c].write),
         what = "raised" /\ call[c].write # 0 => Absent(db, call[c].write) /\ Absent(conn, call[c].write),
         \/ lane' = lane /\ \A i \in DOMAIN lane : lane[i].owner # c
         \/ /\ what = "cancelled" /\ lane' \in Seq(LaneJob)
            /\ \E i \in DOMAIN lane : lane[i].owner = c
            /\ \A i \in DOMAIN lane' :
                 /\ i = 1 /\ lane'[i].owner = Nobody
                 /\ \E j \in DOMAIN lane : /\ lane'[i].kind = lane[j].kind
                                           /\ lane'[i].write = lane[j].write
                                           /\ lane[j].owner \in {Nobody, c}
  PROVE  LaneInv'
<1> DEFINE w == call[c].write
           r == NoCall
<1> USE DEF LaneInv
<1>1. /\ Len(outcome) \in Nat /\ DOMAIN outcome = 1 .. Len(outcome)
      /\ call' = [call EXCEPT ![c] = r] /\ turnOf' = Leave(turnOf, c)
      /\ outcome' = IF w = 0 THEN outcome ELSE [outcome EXCEPT ![w] = what]
      /\ call \in [Client -> LaneCall]
      /\ MaxTries \in Nat \ {0} /\ MaxWrites \in Nat
      /\ c # Nobody
  BY LaneAssumption DEF Finish, Told, LaneTypes
<1>2. /\ r \in LaneCall /\ r.at = "idle" /\ r.write = 0 /\ r.result = "none"
  BY <1>1 DEF NoCall, LaneCall
<1> HIDE DEF r
<1>3. /\ call' \in [Client -> LaneCall] /\ \A d \in Client : call'[d] = IF d = c THEN r ELSE call[d]
  BY <1>1, <1>2
<1>4. w # 0 => w \in DOMAIN outcome /\ outcome[w] = "open"
  BY DEF OpenWrites
<1>5. \A d \in Client : d # c /\ call[d].write # 0 => call[d].write # w
  BY DEF OpenWrites
<1> HIDE DEF w
<1>6. /\ outcome' \in Seq({"open", "returned", "raised", "broken", "cancelled"})
      /\ Len(outcome') = Len(outcome) /\ DOMAIN outcome' = DOMAIN outcome
      /\ \A v \in DOMAIN outcome : outcome'[v] = IF v = w THEN what ELSE outcome[v]
  <2>1. 0 \notin DOMAIN outcome /\ outcome \in Seq({"open", "returned", "raised", "broken", "cancelled"})
    BY <1>1 DEF LaneTypes
  <2>2. CASE w = 0
    BY <1>1, <2>1, <2>2
  <2>3. CASE w # 0
    <3>1. outcome' = [outcome EXCEPT ![w] = what] /\ w \in DOMAIN outcome
      BY <1>1, <1>4, <2>3
    <3> DEFINE all == {"open", "returned", "raised", "broken", "cancelled"}
    <3>2. what \in all /\ outcome \in Seq(all)
      BY <2>1
    <3> HIDE DEF all
    <3>3. outcome' \in Seq(all) /\ Len(outcome') = Len(outcome) /\ DOMAIN outcome' = DOMAIN outcome
      BY <3>1, <3>2
    <3>4. \A v \in DOMAIN outcome : outcome'[v] = IF v = w THEN what ELSE outcome[v]
      BY <3>1, <3>2
    <3>5. QED  BY <3>3, <3>4 DEF all
  <2>4. QED  BY <2>2, <2>3
<1>6a. \A v \in DOMAIN outcome' : outcome'[v] = "open" => \E d \in Client : call'[d].write = v
  <2> SUFFICES ASSUME NEW v \in DOMAIN outcome, outcome'[v] = "open"
               PROVE  \E d \in Client : call'[d].write = v
    BY <1>6
  <2>1. v # w /\ outcome[v] = "open"
    BY <1>6
  <2>2. PICK d \in Client : call[d].write = v
    BY <2>1 DEF OpenWrites
  <2>3. QED  BY <1>3, <2>1, <2>2 DEF w
<1>7. InTurn'
  <2>1. c \in Items(turnOf)
    BY DEF InTurn
  <2>2. /\ Distinct(turnOf') /\ Items(turnOf') = Items(turnOf) \ {c} /\ turnOf' \in Seq(Client)
        /\ Head(turnOf) # c => Head(turnOf') = Head(turnOf)
    BY <1>1, <2>1, LeaveKeeps DEF InTurn, LaneTypes
  <2>3. Items(turnOf') = {d \in Client : call'[d].at # "idle"}
    BY <1>2, <1>3, <2>2 DEF InTurn
  <2>4. \A d \in Client : Active(d)' => Head(turnOf') = d
    BY <1>2, <1>3, <2>2 DEF InTurn, Active
  <2>5. QED  BY <2>2, <2>3, <2>4 DEF InTurn
<1>8. turnOf' \in Seq(Client)
  BY <1>1, LeaveKeeps DEF InTurn, LaneTypes
<1>9. CASE lane' = lane /\ \A i \in DOMAIN lane : lane[i].owner # c
  <2>1. LaneTypes'
    BY <1>3, <1>6, <1>8, <1>9 DEF LaneTypes
  <2>2. Jobs'
    BY <1>2, <1>3, <1>9 DEF Jobs
  <2>3. OpenWrites'
    BY <1>2, <1>3, <1>4, <1>5, <1>6, <1>9, <1>6a DEF OpenWrites
  <2>4. Written'
    BY <1>2, <1>3, <1>5, <1>6, <1>9 DEF Written, Stored, w
  <2>5. Traced'
    BY <1>6 DEF Traced
  <2>6. QED  BY <1>7, <2>1, <2>2, <2>3, <2>4, <2>5
<1>10. CASE /\ what = "cancelled" /\ lane' \in Seq(LaneJob)
            /\ \E i \in DOMAIN lane : lane[i].owner = c
            /\ \A i \in DOMAIN lane' :
                 /\ i = 1 /\ lane'[i].owner = Nobody
                 /\ \E j \in DOMAIN lane : /\ lane'[i].kind = lane[j].kind
                                           /\ lane'[i].write = lane[j].write
                                           /\ lane[j].owner \in {Nobody, c}
  <2>1. LaneTypes'
    BY <1>3, <1>6, <1>8, <1>10 DEF LaneTypes
  <2>2. Jobs'
    <3>1. \A d \in Client : d # c => call[d].at \notin {"running", "undoing", "pausing"}
      <4>1. call[c].at \in {"running", "undoing"}
        BY <1>10 DEF Jobs
      <4>2. QED  BY <4>1 DEF InTurn, Active
    <3>2. \A d \in Client : d # c => call[d].result = "none"
      BY <3>1 DEF Jobs
    <3>3. \A d \in Client : call'[d].result = "none" /\ call'[d].at \notin {"running", "undoing", "pausing"}
      BY <1>2, <1>3, <3>1, <3>2
    <3>4. \A i \in DOMAIN lane' : i = 1 /\ lane'[i].owner = Nobody /\ Nobody \notin Client
      BY <1>10, LaneAssumption
    <3>5. QED  BY <3>3, <3>4 DEF Jobs
  <2>3. \A j \in DOMAIN lane : lane[j].owner = c => lane[j].write = w
    BY DEF Jobs, w
  <2>4. OpenWrites'
    <3>1. \A i \in DOMAIN lane' : lane'[i].write # 0 =>
            lane'[i].write \in DOMAIN outcome' /\ outcome'[lane'[i].write] = "cancelled"
      <4> SUFFICES ASSUME NEW i \in DOMAIN lane', lane'[i].write # 0
                   PROVE  lane'[i].write \in DOMAIN outcome' /\ outcome'[lane'[i].write] = "cancelled"
        OBVIOUS
      <4>1. PICK j \in DOMAIN lane : lane'[i].write = lane[j].write /\ lane[j].owner \in {Nobody, c}
        BY <1>10
      <4>2. QED  BY <1>4, <1>6, <1>10, <2>3, <4>1 DEF OpenWrites
    <3>2. QED  BY <1>2, <1>3, <1>4, <1>5, <1>6, <1>6a, <3>1 DEF OpenWrites
  <2>5. Written'
    <3>1. \A i \in DOMAIN lane' : lane'[i].kind = "op" /\ lane'[i].write # 0 =>
            Absent(db, lane'[i].write) /\ Absent(conn, lane'[i].write)
      BY <1>10 DEF Written
    <3>2. QED  BY <1>2, <1>3, <1>5, <1>6, <1>10, <3>1 DEF Written, Stored
  <2>6. Traced'
    BY <1>6 DEF Traced
  <2>7. QED  BY <1>7, <2>1, <2>2, <2>4, <2>5, <2>6
<1>11. QED  BY <1>9, <1>10

\* An attempt is over, and the next one comes after a pause.
LEMMA PauseMoves ==
  ASSUME LaneInv, NEW c \in Client, call[c].at \in {"running", "undoing"}, call[c].result # "none",
         call' = [call EXCEPT ![c] = [call[c] EXCEPT !.at = "pausing", !.try = call[c].try + 1,
                                                     !.result = "none", !.error = "none"]],
         call[c].try < MaxTries, UNCHANGED <<lane, turnOf, conn, db, outcome>>,
         call[c].write # 0 => Absent(db, call[c].write) /\ Absent(conn, call[c].write)
  PROVE  LaneInv'
<1> DEFINE r == [call[c] EXCEPT !.at = "pausing", !.try = call[c].try + 1,
                                !.result = "none", !.error = "none"]
<1> USE DEF LaneInv
<1>1. call \in [Client -> LaneCall] /\ call[c] \in LaneCall /\ MaxTries \in Nat /\ lane = <<>>
  BY LaneAssumption DEF LaneTypes, Jobs
<1>2. r \in LaneCall /\ r.at = "pausing" /\ r.result = "none" /\ r.write = call[c].write
  <2> DEFINE n == call[c].try + 1
  <2>1. n \in 1 .. MaxTries
    BY <1>1 DEF LaneCall
  <2>2. r = [call[c] EXCEPT !.at = "pausing", !.try = n, !.result = "none", !.error = "none"]
    OBVIOUS
  <2> HIDE DEF n, r
  <2>3. QED  BY <1>1, <2>1, <2>2 DEF LaneCall
<1>3. call' = [call EXCEPT ![c] = r]
  OBVIOUS
<1> HIDE DEF r
<1>4. /\ call' \in [Client -> LaneCall] /\ \A d \in Client : call'[d] = IF d = c THEN r ELSE call[d]
  BY <1>1, <1>2, <1>3
<1>5. \A i \in DOMAIN lane : FALSE
  BY <1>1
<1>6. LaneTypes'
  BY <1>4 DEF LaneTypes
<1>7. InTurn'
  BY <1>2, <1>4 DEF InTurn, Active
<1>8. Jobs'
  BY <1>1, <1>2, <1>4, <1>5 DEF Jobs
<1>9. OpenWrites'
  BY <1>2, <1>4 DEF OpenWrites
<1>10. Traced'
  BY DEF Traced
<1>11. Written'
  BY <1>2, <1>4 DEF Written, Stored
<1>12. QED  BY <1>6, <1>7, <1>8, <1>9, <1>10, <1>11

\* A write that has failed is undone first.
LEMMA UndoMoves ==
  ASSUME LaneInv, NEW c \in Client, NEW error \in {"locked", "error"}, call[c].at = "running",
         call[c].result = error, call[c].write # 0,
         call' = [call EXCEPT ![c] = [call[c] EXCEPT !.at = "undoing", !.result = "none",
                                                     !.error = error]],
         lane' = Append(lane, Job(c, "undo")), UNCHANGED <<turnOf, conn, db, outcome>>
  PROVE  LaneInv'
<1> DEFINE r == [call[c] EXCEPT !.at = "undoing", !.result = "none", !.error = error]
           job == [owner |-> c, kind |-> "undo", write |-> call[c].write]
<1> USE DEF LaneInv
<1>1. call \in [Client -> LaneCall] /\ call[c] \in LaneCall /\ lane = <<>> /\ c # Nobody
  BY LaneAssumption DEF LaneTypes, Jobs
<1>2. r \in LaneCall /\ r.at = "undoing" /\ r.result = "none" /\ r.write = call[c].write
  BY <1>1 DEF LaneCall
<1>3. call' = [call EXCEPT ![c] = r]
  OBVIOUS
<1> HIDE DEF r
<1>4. /\ call' \in [Client -> LaneCall] /\ \A d \in Client : call'[d] = IF d = c THEN r ELSE call[d]
  BY <1>1, <1>2, <1>3
<1>5. job \in LaneJob /\ job = Job(c, "undo")
      /\ job.owner = c /\ job.kind = "undo" /\ job.write = call[c].write
  BY <1>1, <1>2, <1>4 DEF LaneJob, LaneCall, Job
<1> HIDE DEF job
<1>6. /\ lane' \in Seq(LaneJob) /\ Len(lane') = 1
      /\ \A i \in DOMAIN lane' : i = 1 /\ lane'[i] = job
  BY <1>1, <1>5
<1>7. \A d \in Client : d # c => call[d].result = "none" /\ call[d].at \notin {"running", "undoing", "pausing"}
  BY <1>1 DEF InTurn, Active, Jobs
<1>8. LaneTypes'
  BY <1>4, <1>6 DEF LaneTypes
<1>9. InTurn'
  BY <1>2, <1>4 DEF InTurn, Active
<1>10. Jobs'
  BY <1>1, <1>2, <1>4, <1>5, <1>6, <1>7 DEF Jobs
<1>11. OpenWrites'
  BY <1>1, <1>2, <1>4, <1>5, <1>6 DEF OpenWrites
<1>12. Traced'
  BY DEF Traced
<1>13. Written'
  BY <1>2, <1>4, <1>5, <1>6 DEF Written, Stored
<1>14. QED  BY <1>8, <1>9, <1>10, <1>11, <1>12, <1>13

LEMMA ResumedMoves ==
  ASSUME LaneInv, NEW c \in Client, Resumed(c)
  PROVE  LaneInv'
<1> USE DEF LaneInv
<1>1. /\ call[c].result # "none" /\ call[c].at \in {"running", "undoing"} /\ lane = <<>>
      /\ conn' = conn /\ db' = db /\ call[c] \in LaneCall
  BY DEF Resumed, Jobs, LaneTypes
<1>2. \A i \in DOMAIN lane : lane[i].owner # c
  BY <1>1
<1>3. ASSUME NEW error, RetryOrRaise(c, error), UNCHANGED lane,
             call[c].write # 0 => Absent(db, call[c].write) /\ Absent(conn, call[c].write)
      PROVE  LaneInv'
  <2>1. CASE error = "locked" /\ call[c].try < MaxTries
    <3>1. call' = [call EXCEPT ![c] = [call[c] EXCEPT !.at = "pausing", !.try = call[c].try + 1,
                                                      !.result = "none", !.error = "none"]]
      BY <1>3, <2>1 DEF RetryOrRaise
    <3>2. UNCHANGED <<lane, turnOf, conn, db, outcome>>
      BY <1>1, <1>3, <2>1 DEF RetryOrRaise
    <3>3. QED  BY <1>1, <1>3, <2>1, <3>1, <3>2, PauseMoves
  <2>2. CASE ~(error = "locked" /\ call[c].try < MaxTries)
    <3>1. Finish(c, "raised")
      BY <1>3, <2>2 DEF RetryOrRaise
    <3>2. QED  BY <1>1, <1>2, <1>3, <3>1, FinishMoves
  <2>3. QED  BY <2>1, <2>2
<1>4. CASE call[c].at = "running" /\ call[c].result = "ok"
  <2>1. Finish(c, "returned") /\ lane' = lane
    BY <1>4 DEF Resumed
  <2>2. call[c].write # 0 => Stored(call[c].write)
    BY <1>4 DEF Written
  <2>3. QED  BY <1>1, <1>2, <2>1, <2>2, FinishMoves
<1>5. CASE call[c].at = "running" /\ call[c].result # "ok" /\ call[c].write = 0
  <2>1. RetryOrRaise(c, call[c].result) /\ UNCHANGED lane
    BY <1>5 DEF Resumed
  <2>2. QED  BY <1>3, <1>5, <2>1
<1>6. CASE call[c].at = "running" /\ call[c].result # "ok" /\ call[c].write # 0
  <2> DEFINE error == call[c].result
  <2>1. /\ call' = [call EXCEPT ![c] = [call[c] EXCEPT !.at = "undoing", !.result = "none",
                                                       !.error = error]]
        /\ lane' = Append(lane, Job(c, "undo")) /\ UNCHANGED <<turnOf, conn, db, outcome>>
    BY <1>6 DEF Resumed
  <2>2. error \in {"locked", "error"}
    BY <1>1, <1>6 DEF LaneCall
  <2>3. QED  BY <1>6, <2>1, <2>2, UndoMoves
<1>7. CASE call[c].at = "undoing" /\ call[c].result = "ok"
  <2>1. RetryOrRaise(c, call[c].error) /\ UNCHANGED lane
    BY <1>7 DEF Resumed
  <2>2. call[c].write # 0 => Absent(db, call[c].write) /\ Absent(conn, call[c].write)
    BY <1>7 DEF Written
  <2>3. QED  BY <1>3, <2>1, <2>2
<1>8. CASE call[c].at = "undoing" /\ call[c].result # "ok"
  <2>1. Finish(c, "broken") /\ lane' = lane
    BY <1>8 DEF Resumed
  <2>2. QED  BY <1>1, <1>2, <2>1, FinishMoves
<1>9. QED  BY <1>1, <1>4, <1>5, <1>6, <1>7, <1>8

LEMMA CancelOpMoves ==
  ASSUME LaneInv, NEW c \in Client, CancelOp(c)
  PROVE  LaneInv'
<1> USE DEF LaneInv
<1>1. /\ call[c].at # "idle" /\ Finish(c, "cancelled") /\ conn' = conn /\ db' = db
      /\ lane \in Seq(LaneJob) /\ DOMAIN lane = 1 .. Len(lane) /\ Len(lane) \in Nat
  BY DEF CancelOp, LaneTypes
<1>2. CASE \E i \in DOMAIN lane : lane[i].owner = c /\ lane' = Seqs!RemoveAt(lane, i)
  <2>1. PICK i \in DOMAIN lane : lane[i].owner = c /\ lane' = Seqs!RemoveAt(lane, i)
    BY <1>2
  <2>2. i = Len(lane) /\ i \in 1 .. Len(lane)
    BY <1>1, <2>1 DEF Jobs
  <2> DEFINE front == SubSeq(lane, 1, i - 1)
             back == SubSeq(lane, i + 1, Len(lane))
  <2>3. /\ front \in Seq(LaneJob) /\ Len(front) = i - 1 /\ \A k \in 1 .. i - 1 : front[k] = lane[k]
        /\ back \in Seq(LaneJob) /\ Len(back) = 0
    BY <1>1, <2>2
  <2>4. lane' = front \o back
    BY <2>1 DEF Seqs!RemoveAt
  <2> HIDE DEF front, back
  <2>5. /\ lane' \in Seq(LaneJob) /\ Len(lane') = i - 1 /\ \A k \in 1 .. i - 1 : lane'[k] = lane[k]
    BY <2>2, <2>3, <2>4, ConcatProperties
  <2>6. \A k \in DOMAIN lane' : k \in DOMAIN lane /\ k # Len(lane) /\ lane'[k] = lane[k]
    BY <1>1, <2>2, <2>5
  <2>7. \A k \in DOMAIN lane' : k = 1 /\ lane'[k].owner = Nobody
    BY <2>6, Owners DEF Jobs
  <2>8. QED  BY <1>1, <2>1, <2>5, <2>6, <2>7, FinishMoves
<1>3. CASE lane # <<>> /\ Head(lane).owner = c /\ lane' = [lane EXCEPT ![1].owner = Nobody]
  <2>1. 1 \in DOMAIN lane /\ lane[1].owner = c /\ lane[1] \in LaneJob
    BY <1>1, <1>3
  <2>2. Len(lane) = 1
    BY <2>1 DEF Jobs
  <2> DEFINE job == [lane[1] EXCEPT !.owner = Nobody]
  <2>3. job \in LaneJob /\ job.owner = Nobody /\ job.kind = lane[1].kind /\ job.write = lane[1].write
    BY <2>1 DEF LaneJob
  <2>4. lane' = [lane EXCEPT ![1] = job]
    BY <1>3
  <2> HIDE DEF job
  <2>5. lane' \in Seq(LaneJob) /\ \A k \in DOMAIN lane' : k = 1 /\ lane'[k] = job
    BY <1>1, <2>1, <2>2, <2>3, <2>4
  <2>6. QED  BY <1>1, <2>1, <2>3, <2>5, FinishMoves
<1>4. CASE (\A i \in DOMAIN lane : lane[i].owner # c) /\ UNCHANGED lane
  BY <1>1, <1>4, FinishMoves
<1>5. QED  BY <1>2, <1>3, <1>4 DEF CancelOp

\* What a job does to the statements.
LEMMA WorkWrites ==
  ASSUME LaneInv, NEW job, lane # <<>>, job = Head(lane), NEW result \in {"ok", "locked", "error"},
         UNCHANGED outcome,
         \/ /\ result = "ok" /\ job.kind = "op" /\ job.write # 0
            /\ db' = db \o conn \o <<[write |-> job.write, whole |-> TRUE]>>
            /\ conn' = <<>>
         \/ /\ result # "ok" /\ job.kind = "op" /\ job.write # 0
            /\ \E s \in Statements(job.write) : conn' = conn \o s
            /\ UNCHANGED db
         \/ result = "ok" /\ job.kind = "undo" /\ conn' = <<>> /\ UNCHANGED db
         \/ (result # "ok" \/ job.kind # "undo") /\ (job.kind # "op" \/ job.write = 0) /\ UNCHANGED <<conn, db>>
  PROVE  /\ Traced' /\ db' \in Seq(Statement) /\ conn' \in Seq(Statement)
         /\ \A v : Stored(v) => Stored(v)'
         /\ \A v : v # 0 /\ v # job.write /\ Absent(db, v) /\ Absent(conn, v) => Absent(db', v) /\ Absent(conn', v)
         /\ result = "ok" /\ job.kind = "op" /\ job.write # 0 => Stored(job.write)'
         /\ result # "ok" \/ job.kind = "undo" \/ job.write = 0 => db' = db
         /\ result = "ok" /\ job.kind = "undo" => \A v : Absent(conn', v)
<1> DEFINE w == job.write
           t(b) == [write |-> w, whole |-> b]
<1> USE DEF LaneInv
<1>1. /\ db \in Seq(Statement) /\ conn \in Seq(Statement) /\ Once(db) /\ Once(conn)
      /\ \A i \in DOMAIN db : Absent(conn, db[i].write)
      /\ 1 \in DOMAIN lane /\ lane[1] = job /\ job \in LaneJob
  BY DEF Traced, LaneTypes
<1>2. w # 0 => w \in DOMAIN outcome /\ w \in 1 .. MaxWrites
  BY <1>1, Owners, LaneAssumption DEF OpenWrites, Jobs, LaneJob
<1>3. job.kind = "op" /\ w # 0 => Absent(db, w) /\ Absent(conn, w)
  BY <1>1 DEF Written
<1>4. \A b \in BOOLEAN : w # 0 => t(b) \in Statement /\ t(b).write = w
  BY <1>2 DEF Statement
<1> DEFINE old == db \o conn
<1>5. /\ old \in Seq(Statement) /\ Once(old)
      /\ \A v : Absent(old, v) <=> Absent(db, v) /\ Absent(conn, v)
      /\ \A i \in DOMAIN db : i \in DOMAIN old /\ old[i] = db[i]
      /\ \A i \in DOMAIN old : \/ i \in DOMAIN db /\ old[i] = db[i]
                               \/ \E j \in DOMAIN conn : old[i] = conn[j]
  BY <1>1, AllThere
<1> HIDE DEF old
<1>6. CASE /\ result = "ok" /\ job.kind = "op" /\ job.write # 0
           /\ db' = db \o conn \o <<[write |-> job.write, whole |-> TRUE]>>
           /\ conn' = <<>>
  <2> DEFINE x == t(TRUE)
             new == <<x>>
  <2>1. x \in Statement /\ x.write = w /\ x = [write |-> w, whole |-> TRUE]
    BY <1>4, <1>6
  <2>2. db' = old \o new
    BY <1>6 DEF old
  <2> HIDE DEF x
  <2>3. /\ new \in Seq(Statement) /\ Once(new) /\ DOMAIN new = {1} /\ new[1] = x
        /\ \A v : Absent(new, v) <=> v # w
    BY <2>1, OneStatement
  <2> HIDE DEF new
  <2>4. \A i \in DOMAIN old : Absent(new, old[i].write)
    <3>1. Absent(old, w)
      BY <1>3, <1>5, <1>6
    <3>2. \A i \in DOMAIN old : old[i].write # w
      BY <3>1 DEF Absent
    <3>3. QED  BY <2>3, <3>2
  <2>5. /\ db' \in Seq(Statement) /\ Once(db')
        /\ \A v : Absent(db', v) <=> Absent(old, v) /\ Absent(new, v)
        /\ \A i \in DOMAIN old : i \in DOMAIN db' /\ db'[i] = old[i]
        /\ \A i \in DOMAIN db' : \/ i \in DOMAIN old /\ db'[i] = old[i]
                                 \/ \E j \in DOMAIN new : db'[i] = new[j]
    BY <1>5, <2>2, <2>3, <2>4, AllThere
  <2>6. conn' \in Seq(Statement) /\ Once(conn') /\ DOMAIN conn' = {} /\ \A v : Absent(conn', v)
    BY <1>6, NoStatement
  <2>7. \A i \in DOMAIN db' : db'[i].write \in DOMAIN outcome
    BY <1>2, <1>5, <1>6, <2>1, <2>3, <2>5 DEF Traced
  <2>8. Traced'
    BY <2>5, <2>6, <2>7 DEF Traced
  <2>9. \A v : Stored(v) => Stored(v)'
    BY <1>5, <2>5 DEF Stored
  <2>10. Stored(w)'
    <3>1. ~Absent(db', w)
      BY <2>3, <2>5
    <3>2. PICK i \in DOMAIN db' : db'[i].write = w
      BY <3>1 DEF Absent
    <3>3. ~(i \in DOMAIN old /\ db'[i] = old[i])
      BY <1>3, <1>5, <1>6, <3>2 DEF Absent
    <3>4. db'[i] = x
      BY <2>3, <2>5, <3>3
    <3>5. QED  BY <2>1, <3>4 DEF Stored
  <2>11. QED  BY <1>5, <1>6, <2>3, <2>5, <2>6, <2>8, <2>9, <2>10
<1>7. CASE /\ result # "ok" /\ job.kind = "op" /\ job.write # 0
           /\ \E s \in Statements(job.write) : conn' = conn \o s
           /\ UNCHANGED db
  <2>1. PICK s \in Statements(w) : conn' = conn \o s
    BY <1>7
  <2>2. /\ s \in Seq(Statement) /\ Once(s) /\ \A i \in DOMAIN s : s[i].write = w
    <3>1. CASE s = <<>>
      BY <3>1, NoStatement
    <3>2. ASSUME NEW b \in BOOLEAN, s = <<t(b)>>
          PROVE  s \in Seq(Statement) /\ Once(s) /\ \A i \in DOMAIN s : s[i].write = w
      <4> DEFINE x == t(b)
      <4>1. x \in Statement /\ x.write = w /\ s = <<x>>
        BY <1>4, <1>7, <3>2
      <4> HIDE DEF x
      <4>2. Once(s) /\ s \in Seq(Statement) /\ DOMAIN s = {1} /\ s[1] = x
        BY <4>1, OneStatement
      <4>3. QED  BY <4>1, <4>2
    <3>3. s = <<>> \/ s = <<t(FALSE)>> \/ s = <<t(TRUE)>>
      BY DEF Statements
    <3>4. QED  BY <3>1, <3>2, <3>3
  <2>3. \A i \in DOMAIN conn : Absent(s, conn[i].write)
    BY <1>3, <1>7, <2>2 DEF Absent
  <2>4. /\ conn' \in Seq(Statement) /\ Once(conn')
        /\ \A v : Absent(conn', v) <=> Absent(conn, v) /\ Absent(s, v)
        /\ \A i \in DOMAIN conn' : \/ i \in DOMAIN conn /\ conn'[i] = conn[i]
                                   \/ \E j \in DOMAIN s : conn'[i] = s[j]
    BY <1>1, <2>1, <2>2, <2>3, AllThere
  <2>5. \A v : v # w => Absent(s, v)
    BY <2>2 DEF Absent
  <2>6. \A i \in DOMAIN conn' : conn'[i].write \in DOMAIN outcome
    BY <1>2, <1>7, <2>2, <2>4 DEF Traced
  <2>7. \A i \in DOMAIN db : db[i].write # w
    BY <1>3, <1>7 DEF Absent
  <2>8. Traced'
    BY <1>7, <2>4, <2>5, <2>6, <2>7 DEF Traced
  <2>9. QED  BY <1>1, <1>7, <2>4, <2>5, <2>8 DEF Stored
<1>8. CASE result = "ok" /\ job.kind = "undo" /\ conn' = <<>> /\ UNCHANGED db
  <2>1. conn' \in Seq(Statement) /\ Once(conn') /\ DOMAIN conn' = {} /\ \A v : Absent(conn', v)
    BY <1>8, NoStatement
  <2>2. Traced'
    BY <1>8, <2>1 DEF Traced
  <2>3. QED  BY <1>1, <1>8, <2>1, <2>2 DEF Stored
<1>9. CASE (result # "ok" \/ job.kind # "undo") /\ (job.kind # "op" \/ job.write = 0) /\ UNCHANGED <<conn, db>>
  <2>1. Traced'
    BY <1>9 DEF Traced
  <2>2. QED  BY <1>1, <1>9, <2>1 DEF Stored, Absent
<1>10. QED  BY <1>6, <1>7, <1>8, <1>9

LEMMA WorkMoves ==
  ASSUME LaneInv, Work
  PROVE  LaneInv'
<1> USE DEF LaneInv
<1> PICK job : job = Head(lane)
  OBVIOUS
<1>1. /\ lane # <<>> /\ lane' = Tail(lane) /\ turnOf' = turnOf /\ outcome' = outcome
      /\ lane \in Seq(LaneJob) /\ Len(lane) \in Nat /\ 1 \in DOMAIN lane /\ lane[1] = job
      /\ DOMAIN lane = 1 .. Len(lane) /\ call \in [Client -> LaneCall]
  BY DEF Work, LaneTypes
<1>2. /\ lane' \in Seq(LaneJob) /\ Len(lane') = Len(lane) - 1
      /\ \A i \in DOMAIN lane' : i + 1 \in DOMAIN lane /\ i + 1 # 1 /\ lane'[i] = lane[i + 1]
  BY <1>1
<1>3. PICK result \in {"ok", "locked", "error"} :
        /\ call' = IF job.owner = Nobody THEN call
                   ELSE [call EXCEPT ![job.owner].result = result]
        /\ \/ /\ result = "ok" /\ job.kind = "op" /\ job.write # 0
              /\ db' = db \o conn \o <<[write |-> job.write, whole |-> TRUE]>>
              /\ conn' = <<>>
           \/ /\ result # "ok" /\ job.kind = "op" /\ job.write # 0
              /\ \E s \in Statements(job.write) : conn' = conn \o s
              /\ UNCHANGED db
           \/ result = "ok" /\ job.kind = "undo" /\ conn' = <<>> /\ UNCHANGED db
           \/ (result # "ok" \/ job.kind # "undo") /\ (job.kind # "op" \/ job.write = 0) /\ UNCHANGED <<conn, db>>
  <2>1. PICK result \in {"ok", "locked", "error"} :
           /\ call' = IF job.owner = Nobody THEN call
                      ELSE [call EXCEPT ![job.owner].result = result]
           /\ CASE result = "ok" /\ job.kind = "op" /\ job.write # 0 ->
                     /\ db' = db \o conn \o <<[write |-> job.write, whole |-> TRUE]>>
                     /\ conn' = <<>>
                [] result # "ok" /\ job.kind = "op" /\ job.write # 0 ->
                     /\ \E s \in Statements(job.write) : conn' = conn \o s
                     /\ UNCHANGED db
                [] result = "ok" /\ job.kind = "undo" -> conn' = <<>> /\ UNCHANGED db
                [] OTHER -> UNCHANGED <<conn, db>>
    BY DEF Work
  <2>2. job \in LaneJob
    BY <1>1, Owners
  <2>3. job.kind \in {"op", "undo"}
    BY <2>2 DEF LaneJob
  <2>4. QED  BY <2>1, <2>3
<1>4. /\ Traced' /\ db' \in Seq(Statement) /\ conn' \in Seq(Statement)
      /\ \A v : Stored(v) => Stored(v)'
      /\ \A v : v # 0 /\ v # job.write /\ Absent(db, v) /\ Absent(conn, v) => Absent(db', v) /\ Absent(conn', v)
      /\ result = "ok" /\ job.kind = "op" /\ job.write # 0 => Stored(job.write)'
      /\ result # "ok" \/ job.kind = "undo" \/ job.write = 0 => db' = db
      /\ result = "ok" /\ job.kind = "undo" => \A v : Absent(conn', v)
  BY <1>1, <1>3, WorkWrites
<1>5. job \in LaneJob /\ job.owner \in Client \cup {Nobody} /\ job.kind \in {"op", "undo"}
  <2>1. job \in LaneJob
    BY <1>1, Owners
  <2>2. QED  BY <2>1 DEF LaneJob
<1>6. \A d \in Client : call[d].result = "none" /\ call[d].at # "pausing"
                        /\ (call[d].at = "undoing" => job.owner = d)
  BY <1>1 DEF Jobs
<1>7. \A d \in Client : d # job.owner /\ call[d].write # 0 =>
        Absent(db, call[d].write) /\ Absent(conn, call[d].write) /\ call[d].write # job.write
  <2> SUFFICES ASSUME NEW d \in Client, d # job.owner, call[d].write # 0
               PROVE  Absent(db, call[d].write) /\ Absent(conn, call[d].write) /\ call[d].write # job.write
    OBVIOUS
  <2>1. call[d].at \in {"waiting", "running"}
    BY <1>1, <1>6 DEF LaneCall, OpenWrites
  <2>2. Absent(db, call[d].write) /\ Absent(conn, call[d].write)
    BY <1>6, <2>1 DEF Written
  <2>3. call[d].write # job.write
    <3>1. CASE job.owner = Nobody
      BY <1>1, <3>1 DEF OpenWrites
    <3>2. CASE job.owner \in Client
      <4>1. call[job.owner].write = job.write
        BY <1>1, <3>2 DEF Jobs
      <4>2. QED  BY <3>2, <4>1 DEF OpenWrites
    <3>3. QED  BY <1>5, <3>1, <3>2
  <2>4. QED  BY <2>2, <2>3
<1>8. \A w \in DOMAIN outcome : outcome[w] = "raised" => Absent(db', w) /\ Absent(conn', w)
  <2> SUFFICES ASSUME NEW w \in DOMAIN outcome, outcome[w] = "raised"
               PROVE  Absent(db', w) /\ Absent(conn', w)
    OBVIOUS
  <2>1. Absent(db, w) /\ Absent(conn, w) /\ w # 0
    BY DEF Written, LaneTypes
  <2>2. w # job.write
    <3>1. CASE job.owner = Nobody
      BY <1>1, <2>1, <3>1 DEF OpenWrites
    <3>2. CASE job.owner \in Client
      BY <1>1, <2>1, <3>2 DEF OpenWrites, Jobs
    <3>3. QED  BY <1>5, <3>1, <3>2
  <2>3. QED  BY <1>4, <2>1, <2>2
<1>9. CASE job.owner = Nobody
  <2>1. call' = call
    BY <1>3, <1>9
  <2>2. LaneTypes'
    BY <1>1, <1>2, <1>4, <2>1 DEF LaneTypes
  <2>3. InTurn'
    BY <1>1, <2>1 DEF InTurn, Active
  <2>4. Jobs'
    <3>1. Nobody \notin Client
      BY LaneAssumption
    <3>2. \A d \in Client : call[d].result = "none" /\ call[d].at \notin {"pausing", "undoing"}
      BY <1>6, <1>9, <3>1
    <3>3. ASSUME NEW i \in DOMAIN lane'
          PROVE  /\ lane'[i].owner # Nobody
                 /\ lane'[i].owner \in Client =>
                      /\ i = Len(lane')
                      /\ call[lane'[i].owner].write = lane'[i].write
                      /\ call[lane'[i].owner].at = IF lane'[i].kind = "op" THEN "running" ELSE "undoing"
      <4>1. i + 1 \in DOMAIN lane /\ i + 1 # 1 /\ lane'[i] = lane[i + 1] /\ i \in Nat
        BY <1>2
      <4>2. i + 1 = Len(lane) => i = Len(lane')
        BY <1>1, <1>2, <4>1
      <4>3. QED  BY <4>1, <4>2 DEF Jobs
    <3>4. QED  BY <2>1, <3>2, <3>3 DEF Jobs
  <2>5. OpenWrites'
    BY <1>1, <1>2, <2>1 DEF OpenWrites
  <2>6. Written'
    <3>1. \A d \in Client : d # job.owner
      BY <1>9, LaneAssumption
    <3>2. \A d \in Client : call[d].write # 0 =>
            Absent(db', call[d].write) /\ Absent(conn', call[d].write)
      BY <1>4, <1>7, <3>1
    <3>3. \A i \in DOMAIN lane' : lane'[i].kind = "op" /\ lane'[i].write # 0 =>
            Absent(db', lane'[i].write) /\ Absent(conn', lane'[i].write)
      <4> SUFFICES ASSUME NEW i \in DOMAIN lane', lane'[i].write # 0
                   PROVE  Absent(db', lane'[i].write) /\ Absent(conn', lane'[i].write)
        OBVIOUS
      <4>1. PICK j \in DOMAIN lane : j # 1 /\ lane'[i] = lane[j]
        BY <1>2
      <4>2. lane[j].owner \in Client
        BY <4>1, Owners DEF Jobs
      <4>3. call[lane[j].owner].write = lane[j].write
        BY <4>2 DEF Jobs
      <4>4. QED  BY <3>2, <4>1, <4>2, <4>3
    <3>4. \A w \in DOMAIN outcome : outcome[w] = "returned" => Stored(w)'
      BY <1>4 DEF Written
    <3>5. \A d \in Client : ~(call[d].at = "running" /\ call[d].result = "ok")
      BY <1>6
    <3>6. QED  BY <1>1, <1>8, <2>1, <3>2, <3>3, <3>4, <3>5 DEF Written
  <2>7. QED  BY <1>4, <2>2, <2>3, <2>4, <2>5, <2>6
<1>10. CASE job.owner \in Client
  <2> DEFINE c == job.owner
             r == [call[c] EXCEPT !.result = result]
  <2>1. /\ Len(lane) = 1 /\ call[c].result = "none" /\ call[c].write = job.write
        /\ call[c].at = IF job.kind = "op" THEN "running" ELSE "undoing"
    BY <1>1, <1>10 DEF Jobs
  <2>2. job.owner # Nobody
    BY <1>10, LaneAssumption
  <2>3. call' = [call EXCEPT ![c] = r]
    BY <1>3, <2>2
  <2>4. r \in LaneCall /\ r.at = call[c].at /\ r.write = job.write /\ r.result = result
    BY <1>1, <1>10, <2>1 DEF LaneCall
  <2> HIDE DEF r
  <2>5. call' \in [Client -> LaneCall] /\ \A d \in Client : call'[d] = IF d = c THEN r ELSE call[d]
    BY <1>1, <1>10, <2>3, <2>4
  <2>6. lane' = <<>> /\ DOMAIN lane' = {}
    BY <1>1, <1>2, <2>1
  <2>7. LaneTypes'
    BY <1>1, <1>2, <1>4, <2>5 DEF LaneTypes
  <2>8. InTurn'
    BY <1>1, <2>4, <2>5 DEF InTurn, Active
  <2>9. Jobs'
    BY <1>6, <2>1, <2>4, <2>5, <2>6 DEF Jobs
  <2>10. OpenWrites'
    BY <1>1, <1>10, <2>1, <2>4, <2>5, <2>6 DEF OpenWrites
  <2>11. Written'
    <3>1. \A d \in Client : d # c /\ call[d].write # 0 =>
            Absent(db', call[d].write) /\ Absent(conn', call[d].write)
      BY <1>4, <1>7
    <3>2. \A w \in DOMAIN outcome : outcome[w] = "returned" => Stored(w)'
      BY <1>4 DEF Written
    <3>3. job.write # 0 => Absent(db, job.write)
      BY <1>10, <2>1 DEF Written
    <3>4. job.write # 0 =>
            /\ r.at = "running" /\ r.result = "ok" => Stored(job.write)'
            /\ ~(r.at = "running" /\ r.result = "ok") => Absent(db', job.write)
            /\ r.at = "undoing" /\ r.result = "ok" => Absent(conn', job.write)
      BY <1>4, <1>5, <2>1, <2>4, <3>3
    <3>5. r.at \in {"running", "undoing"} /\ r.result # "none"
      BY <2>1, <2>4
    <3>6. ASSUME NEW d \in Client, call'[d].write # 0
          PROVE  /\ call'[d].at = "running" /\ call'[d].result = "ok" =>
                      \E i \in DOMAIN db' : db'[i] = [write |-> call'[d].write, whole |-> TRUE]
                 /\ ~(call'[d].at = "running" /\ call'[d].result = "ok") => Absent(db', call'[d].write)
                 /\ \/ call'[d].at \in {"waiting", "pausing"}
                    \/ call'[d].at = "running" /\ call'[d].result = "none"
                    \/ call'[d].at = "undoing" /\ call'[d].result = "ok"
                    => Absent(conn', call'[d].write)
      <4>1. CASE d = c
        BY <2>4, <2>5, <3>4, <3>5, <3>6, <4>1 DEF Stored
      <4>2. CASE d # c
        BY <1>6, <2>5, <3>1, <3>6, <4>2
      <4>3. QED  BY <4>1, <4>2
    <3>7. QED  BY <1>1, <1>8, <2>6, <3>2, <3>6 DEF Written, Stored
  <2>12. QED  BY <1>4, <2>7, <2>8, <2>9, <2>10, <2>11
<1>11. QED  BY <1>5, <1>9, <1>10

LEMMA LaneKeeps == LaneInv /\ [QNext]_qvars => LaneInv'
<1> SUFFICES ASSUME LaneInv, [QNext]_qvars
             PROVE  LaneInv'
  OBVIOUS
<1>1. CASE QNext
  BY <1>1, CallOpMoves, SubmitMoves, ResumedMoves, CancelOpMoves, WorkMoves DEF QNext
<1>2. CASE UNCHANGED qvars
  BY <1>2 DEF qvars, LaneInv, LaneTypes, InTurn, Active, Jobs, OpenWrites, Traced, Written, Stored
<1>3. QED  BY <1>1, <1>2

LEMMA LaneStarts == QInit => LaneInv
<1> SUFFICES ASSUME QInit
             PROVE  LaneInv
  OBVIOUS
<1> DEFINE none == <<>>
<1>1. /\ lane = none /\ turnOf = none /\ conn = none /\ db = none /\ outcome = none
      /\ call = [c \in Client |-> NoCall]
  BY DEF QInit
<1>2. /\ none \in Seq(Statement) /\ none \in Seq(LaneJob) /\ none \in Seq(Client) /\ Len(none) = 0
      /\ none \in Seq({"open", "returned", "raised", "broken", "cancelled"}) /\ DOMAIN none = {}
  OBVIOUS
<1> HIDE DEF none
<1>3. NoCall \in LaneCall /\ NoCall.at = "idle" /\ NoCall.write = 0 /\ NoCall.result = "none"
  BY LaneAssumption DEF NoCall, LaneCall
<1>4. LaneTypes
  BY <1>1, <1>2, <1>3, LaneAssumption DEF LaneTypes
<1>5. InTurn
  BY <1>1, <1>2, <1>3 DEF InTurn, Active, Distinct, Items
<1>6. Jobs
  BY <1>1, <1>2, <1>3 DEF Jobs
<1>7. OpenWrites
  BY <1>1, <1>2, <1>3 DEF OpenWrites
<1>8. Traced
  BY <1>1, <1>2 DEF Traced, Once
<1>9. Written
  BY <1>1, <1>2, <1>3 DEF Written
<1>10. QED  BY <1>4, <1>5, <1>6, <1>7, <1>8, <1>9 DEF LaneInv

LEMMA LaneInvariant == QSpec => []LaneInv
BY LaneStarts, LaneKeeps, PTL DEF QSpec

\* The lock's queue, the thread's jobs, the calls and the statements keep their
\* types.
THEOREM LaneTypesKept == QSpec => []QTypeOK
<1>1. LaneInv => QTypeOK
  BY DEF LaneInv, LaneTypes, LaneJob, LaneCall, QTypeOK
<1>2. QED  BY <1>1, LaneInvariant, PTL

\* However operations wait for one another, fail, are tried again and are
\* cancelled: a write that has returned is committed once and whole, one that
\* has raised left nothing behind, not even in the open transaction, and a part
\* of a write is committed only if its caller was cancelled or its rollback
\* failed (_run_sqlite_op).
THEOREM WritesStayWhole == QSpec => []WritesWhole
<1>1. LaneInv => WritesWhole
  <2> SUFFICES ASSUME LaneInv, NEW w \in DOMAIN outcome
               PROVE  /\ Cardinality(Traces(db, w)) + Cardinality(Traces(conn, w)) <= 1
                      /\ outcome[w] = "returned" => \E i \in Traces(db, w) : db[i].whole
                      /\ outcome[w] = "raised" => Traces(db, w) = {} /\ Traces(conn, w) = {}
                      /\ outcome[w] \in {"open", "returned"} => \A i \in Traces(db, w) : db[i].whole
    BY DEF WritesWhole
  <2>1. Traced /\ Written
    BY DEF LaneInv
  <2>2. w # 0 /\ DOMAIN db \subseteq Nat /\ DOMAIN conn \subseteq Nat
    BY DEF LaneInv, LaneTypes
  <2>3. \/ Traces(db, w) = {} /\ Traces(conn, w) = {}
        \/ Traces(conn, w) = {} /\ \E i \in DOMAIN db : Traces(db, w) = {i}
        \/ Traces(db, w) = {} /\ \E i \in DOMAIN conn : Traces(conn, w) = {i}
    BY <2>1 DEF Traced, Once, Absent, Traces
  <2>4. Cardinality(Traces(db, w)) + Cardinality(Traces(conn, w)) <= 1
    <3>1. Cardinality({}) = 0 /\ \A i : Cardinality({i}) = 1
      BY FS_EmptySet, FS_Singleton
    <3> DEFINE d == Traces(db, w)
               o == Traces(conn, w)
    <3>2. \/ d = {} /\ o = {}
          \/ o = {} /\ \E i \in DOMAIN db : d = {i}
          \/ d = {} /\ \E i \in DOMAIN conn : o = {i}
      BY <2>3
    <3> HIDE DEF d, o
    <3>3. \/ Cardinality(d) = 0 /\ Cardinality(o) = 0
          \/ Cardinality(d) = 1 /\ Cardinality(o) = 0
          \/ Cardinality(d) = 0 /\ Cardinality(o) = 1
      BY <3>1, <3>2, Zenon
    <3>4. Cardinality(d) + Cardinality(o) <= 1
      BY <3>3
    <3>5. QED  BY <3>4 DEF d, o
  <2>5. Stored(w) => /\ \E i \in Traces(db, w) : db[i].whole
                     /\ \A i \in Traces(db, w) : db[i].whole
    BY <2>1 DEF Traced, Once, Stored, Traces
  <2>6. outcome[w] = "open" => Stored(w) \/ Absent(db, w)
    BY <2>1, <2>2 DEF LaneInv, OpenWrites, Written
  <2>7. outcome[w] = "returned" => Stored(w)
    BY <2>1 DEF Written
  <2>8. outcome[w] = "raised" => Traces(db, w) = {} /\ Traces(conn, w) = {}
    BY <2>1 DEF Written, Absent, Traces
  <2>9. Absent(db, w) => Traces(db, w) = {}
    BY DEF Absent, Traces
  <2>10. QED  BY <2>4, <2>5, <2>6, <2>7, <2>8, <2>9
<1>2. QED  BY <1>1, LaneInvariant, PTL

-----------------------------------------------------------------------------
(* All that the sockets of the server share. *)

LEMMA SocketsOfEachPart == MCSpec => Spec /\ VoiceSpec /\ MemorySpec /\ QSpec
<1>1. MCInit => Init /\ VInit /\ MInit /\ QInit
  BY DEF MCInit
<1>2. [MCNext]_allVars => [Next]_vars /\ [VNext]_vvars /\ [MNext]_mvars /\ [QNext]_qvars
  <2>1. MCMemory => MNext
    BY DEF MCMemory, MNext
  <2>2. QED  BY <2>1 DEF MCNext, allVars
<1>3. QED  BY <1>1, <1>2, PTL DEF MCSpec, Spec, VoiceSpec, MemorySpec, QSpec

OfOnePart == part \in {"room", "voice", "memory", "database"}

\* Rooms, voice sessions, the memory and the database are well typed, whichever
\* of them go on.
THEOREM SocketTypes == MCSpec => []MCTypeOK
<1>1. MCSpec => []OfOnePart
  <2>1. MCInit => OfOnePart
    BY DEF MCInit, OfOnePart
  <2>2. OfOnePart /\ [MCNext]_allVars => OfOnePart'
    BY DEF MCNext, allVars, OfOnePart
  <2>3. QED  BY <2>1, <2>2, PTL DEF MCSpec
<1>2. OfOnePart /\ TypeOK /\ VTypeOK /\ MTypeOK /\ QTypeOK => MCTypeOK
  BY DEF MCTypeOK, OfOnePart
<1>3. QED
  BY <1>1, <1>2, SocketsOfEachPart, RoomTypesKept, VoiceTypesKept, MemoryTypesKept,
     LaneTypesKept, PTL
=============================================================================
