---------------------------- MODULE VoiceSession ----------------------------
(***************************************************************************)
(* A /ws/voice session (web/routes/ws_voice.py, core/voice.py): one        *)
(* handler takes the client's messages one after the other, and runs a     *)
(* task per committed utterance that transcribes it, lets the agent answer *)
(* and speaks the answer in segments (ws_stream_agent_text_response in     *)
(* web/routes/ws_chat.py).  New speech, a new commit and the client's      *)
(* `cancel` interrupt the assistant's turn.  Handler and tasks share the   *)
(* DuplexState, which numbers turns and segments.                          *)
(*                                                                         *)
(* A step is the code between two awaits.  What is said is left out, and   *)
(* so is how much audio is buffered, which decides what a vad_event does;  *)
(* sent holds the messages on a turn that the client gets, in their order. *)
(***************************************************************************)
EXTENDS Integers, Sequences

CONSTANTS
  Turn,        \* tasks of _run_voice_turn; one that is over may be used again
  NoTurn,      \* no task
  MaxCommits,  \* bound: tasks started
  MaxSegments  \* bound: segments of a turn

ASSUME VoiceAssumption ==
  /\ NoTurn \notin Turn
  /\ MaxCommits \in Nat /\ MaxSegments \in Nat

VARIABLES
  handler,   \* where the handler stands: "receive", "cancel", "close", "left", "closed"
  goal,      \* what it goes on with after a cancellation: "receive" or "commit"
  audio,     \* is there anything in the audio buffer?
  current,   \* active_response_task
  task,      \* each task: its place, its turn and the segments it has yet to speak
  duplex,    \* DuplexState: assistant_turn_id and output_sequence
  sent,      \* the client's view of the turns
  commits    \* bounds Commit

vvars == <<handler, goal, audio, current, task, duplex, sent, commits>>

Over == [at |-> "done", id |-> 0, queue |-> <<>>, flush |-> FALSE]

VInit ==
  /\ handler = "receive" /\ goal = "receive"
  /\ audio = FALSE
  /\ current = NoTurn
  /\ task = [t \in Turn |-> Over]
  /\ duplex = [turn |-> 0, sequence |-> 0]
  /\ sent = <<>>
  /\ commits = 0

Running(t) == t # NoTurn /\ task[t].at # "done"

\* send_json_if_connected, on a socket that is open.
Sent(kind, turn, sequence) ==
  Append(sent, [kind |-> kind, turn |-> turn, sequence |-> sequence])

-----------------------------------------------------------------------------
\* interrupt_assistant_turn: the turn's output is reset.
Interrupt == duplex' = [duplex EXCEPT !.sequence = 0]

\* The end of _process_audio_commit: a new task, with all the audio.
Begun(tasks) ==
  \E t \in Turn :
    /\ ~Running(t)
    /\ task' = [tasks EXCEPT ![t] = [Over EXCEPT !.at = "transcribe"]]
    /\ current' = t
    /\ audio' = FALSE
    /\ commits' = commits + 1
    /\ handler' = "receive" /\ goal' = "receive"

\* lifecycle.cancel_task(active_response_task): the task is told to stop at the
\* await where it stands, and the handler waits for that.
CancelTurn(next) ==
  /\ task' = [task EXCEPT ![current].at = "cancelled"]
  /\ handler' = "cancel"
  /\ goal' = next

\* _cancel_active_response(reason): without a task that runs, nothing is left
\* to do but the interruption.
CancelActiveResponse ==
  /\ Interrupt
  /\ IF Running(current) THEN CancelTurn("receive") ELSE UNCHANGED <<handler, goal, task>>

\* Audio arrives, in bytes or base64, or `start` and `reset` drop it.
Receive ==
  /\ handler = "receive"
  /\ audio' = ~audio
  /\ UNCHANGED <<handler, goal, current, task, duplex, sent, commits>>

\* The client says `cancel`.
UserCancel ==
  /\ handler = "receive"
  /\ audio' = FALSE
  /\ CancelActiveResponse
  /\ UNCHANGED <<current, sent, commits>>

\* vad_event of speech: enough of it interrupts the answer.
BargeIn ==
  /\ handler = "receive"
  /\ audio
  /\ CancelActiveResponse
  /\ UNCHANGED <<audio, current, sent, commits>>

\* A mutation of Commit: the running task is not looked at.
CommitAlongside ==
  /\ handler = "receive" /\ commits < MaxCommits
  /\ audio
  /\ Begun(task) /\ UNCHANGED duplex
  /\ UNCHANGED sent

\* _process_audio_commit, for `commit` with any audio and for a vad_event of
\* silence with enough of it: a running answer is superseded.
Commit ==
  /\ handler = "receive" /\ commits < MaxCommits
  /\ audio
  /\ IF Running(current)
     THEN Interrupt /\ CancelTurn("commit") /\ UNCHANGED <<audio, current, commits>>
     ELSE Begun(task) /\ UNCHANGED duplex
  /\ UNCHANGED sent

\* The cancelled task has ended: the client is told, and the handler goes on.
TurnCancelled ==
  /\ handler = "cancel" /\ ~Running(current)
  /\ sent' = Sent("interrupted", duplex.turn, 0)
  /\ IF goal = "commit"
     THEN Begun(task)
     ELSE /\ current' = NoTurn
          /\ handler' = "receive"
          /\ UNCHANGED <<goal, audio, task, commits>>
  /\ UNCHANGED duplex

\* The payload is too large: the socket is closed and the handler returns, and
\* with it goes the only one who could cancel the task.
TooLarge ==
  /\ handler = "receive"
  /\ handler' = "left"
  /\ UNCHANGED <<goal, audio, current, task, duplex, sent, commits>>

\* A mutation of Disconnect: the lifecycle is closed without its tasks.
DisconnectOnly ==
  /\ handler = "receive" \/ (handler = "cancel" /\ ~Running(current))
  /\ handler' = "close"
  /\ UNCHANGED <<goal, audio, current, task, duplex, sent, commits>>

\* The client disconnects, or a message cannot be sent: WebSocketLifecycle.close
\* cancels every task it tracks.
Disconnect ==
  /\ handler = "receive" \/ (handler = "cancel" /\ ~Running(current))
  /\ handler' = "close"
  /\ task' = [t \in Turn |-> IF Running(t) THEN [task[t] EXCEPT !.at = "cancelled"] ELSE task[t]]
  /\ UNCHANGED <<goal, audio, current, duplex, sent, commits>>

\* All of them have been awaited.
Closed ==
  /\ handler = "close"
  /\ \A t \in Turn : task[t].at # "cancelled"
  /\ handler' = "closed"
  /\ UNCHANGED <<goal, audio, current, task, duplex, sent, commits>>

-----------------------------------------------------------------------------
\* A step of a task: where it stands, what it sends.  Once the handler has
\* closed the socket and left, the next thing a task sends raises.
Step(t, from, to, messages) ==
  /\ task[t].at = from
  /\ handler = "left" => to = Over
  /\ task' = [task EXCEPT ![t] = to]
  /\ sent' = messages
  /\ UNCHANGED <<handler, goal, audio, current, commits>>

\* The transcript is there: begin_assistant_turn, and the client is told.
BeginTurn(t) ==
  LET turn == duplex.turn + 1
  IN  /\ duplex' = [turn |-> turn, sequence |-> 0]
      /\ Step(t, "transcribe", [task[t] EXCEPT !.at = "stream", !.id = turn],
              Sent("started", turn, 0))

\* A chunk of the answer, or its end, makes buffer_assistant_text return up to
\* n segments, numbered under the turn that is current; they are spoken next.
Chunk(t) ==
  \E n \in 0 .. 2, flush \in BOOLEAN :
    /\ duplex.sequence + n <= MaxSegments
    /\ duplex' = [duplex EXCEPT !.sequence = @ + n]
    /\ Step(t, "stream",
            [task[t] EXCEPT !.at = "speak", !.flush = flush,
                            !.queue = [i \in 1 .. n |-> [turn |-> duplex.turn,
                                                         sequence |-> duplex.sequence + i]]],
            sent)

\* A segment has been synthesized and is sent, or could not be synthesized.
Speak(t) ==
  /\ task[t].queue # <<>>
  /\ LET s == Head(task[t].queue)
     IN  \E messages \in {sent, Sent("audio", s.turn, s.sequence)} :
           Step(t, "speak", [task[t] EXCEPT !.queue = Tail(@)], messages)
  /\ UNCHANGED duplex

\* The segments are spoken: the next chunk, or the turn is complete.
Spoken(t) ==
  /\ task[t].queue = <<>>
  /\ IF task[t].flush
     THEN handler # "left" /\ Step(t, "speak", Over, Sent("completed", task[t].id, 0))
     ELSE Step(t, "speak", [task[t] EXCEPT !.at = "stream"], sent)
  /\ UNCHANGED duplex

\* No transcript, an error of the agent or of the socket, or the cancellation.
TurnEnds(t) ==
  /\ \E place \in {"transcribe", "stream", "speak", "cancelled"} : Step(t, place, Over, sent)
  /\ UNCHANGED duplex

VNext ==
  \/ Receive \/ UserCancel \/ BargeIn \/ Commit \/ TurnCancelled
  \/ TooLarge \/ Disconnect \/ Closed
  \/ \E t \in Turn : BeginTurn(t) \/ Chunk(t) \/ Speak(t) \/ Spoken(t) \/ TurnEnds(t)

VoiceSpec == VInit /\ [][VNext]_vvars

-----------------------------------------------------------------------------
VTypeOK ==
  /\ handler \in {"receive", "cancel", "close", "left", "closed"}
  /\ goal \in {"receive", "commit"}
  /\ audio \in BOOLEAN
  /\ current \in Turn \cup {NoTurn}
  /\ \A t \in Turn : /\ task[t].at \in {"done", "transcribe", "stream", "speak", "cancelled"}
                     /\ task[t].id \in 0 .. MaxCommits
                     /\ \A i \in DOMAIN task[t].queue : task[t].queue[i].turn = task[t].id
  /\ duplex.turn \in 0 .. MaxCommits /\ duplex.sequence \in 0 .. MaxSegments
  /\ commits \in 0 .. MaxCommits

\* What the client gets of the turns is in order: a turn starts after every
\* message of an earlier one, its segments come in their order and under its
\* own number, and after the notice that a turn was interrupted, or its end,
\* nothing of it follows.  Tasks number their segments in a state that a
\* handler resets and that the next task goes on with (ws_voice.py 145-163,
\* 243-265; voice.py 186-267).
OutputInOrder ==
  \A i, j \in DOMAIN sent :
    i < j => /\ sent[i].turn <= sent[j].turn
             /\ sent[i].turn = sent[j].turn /\ sent[j].kind # "interrupted" =>
                  /\ sent[j].kind # "started"
                  /\ sent[i].kind \in {"started", "audio"}
                  /\ sent[j].kind = "audio" => sent[i].sequence < sent[j].sequence

\* A session that was closed on a disconnect leaves no task behind, and before
\* that there is never more than one task to cancel.
ClosedSessionIsOver ==
  /\ handler = "closed" => \A t \in Turn : ~Running(t)
  /\ \A t, u \in Turn : Running(t) /\ Running(u) => t = u
=============================================================================
