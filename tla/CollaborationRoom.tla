------------------------- MODULE CollaborationRoom -------------------------
(***************************************************************************)
(* One collaboration room of web/routes/collaboration.py and the /ws/chat  *)
(* handlers (web/routes/ws_chat.py) that share it.                         *)
(*                                                                         *)
(* Rooms live in a dictionary by name; a name that is dropped and joined   *)
(* again gets a new CollaborationRoom object, while handlers, timers and   *)
(* replies may still hold the old one.  Room is a set of such objects for  *)
(* one name; an object nothing refers to any more is used again.           *)
(*                                                                         *)
(* Each socket has one handler, which takes the client's messages one      *)
(* after the other; a step is the code between two of its awaits.  Replies *)
(* are the tasks generate_room_response runs on a room.                    *)
(***************************************************************************)
CONSTANTS
  Socket,  \* clients; a client that has left may connect again
  Room,    \* room objects
  Reply,   \* tasks that answer a command given to a room
  None     \* no room, no reply

ASSUME NoneAssumption == None \notin Room \cup Reply

VARIABLES
  registered,    \* the object rooms[room_id], or None
  participants,  \* CollaborationRoom.participants
  history,       \* has the registered object any CollaborationRoom.messages?
  active,        \* CollaborationRoom.active_task
  timers,        \* the pending _drop_room_if_idle of each object
  reply,         \* state of each reply task
  roomOf,        \* the object a reply was started on
  callback,      \* is _schedule_idle_room_drop a done callback of the reply?
  at,            \* where the handler of a socket stands
  joined,        \* joined_room_id and websocket._sidar_room_id are the room
  broken,        \* sending to the socket raises
  held,          \* `room`, the local variable of the handler
  awaited        \* the reply whose cancellation the handler awaits

named    == <<registered, history>>
rooms    == <<registered, participants, history, active, timers>>
replies  == <<reply, roomOf, callback>>
handlers == <<at, joined, broken, held, awaited>>
vars     == <<rooms, replies, handlers>>

Busy     == {"running", "cancelling"}
Place    == {"away", "ready", "send", "announce", "replace", "stop", "closing"}

Init ==
  /\ registered = None
  /\ participants = [i \in Room |-> {}]
  /\ history  = FALSE
  /\ active   = [i \in Room |-> None]
  /\ timers   = [i \in Room |-> {}]
  /\ reply    = [g \in Reply |-> "done"]
  /\ roomOf   = [g \in Reply |-> None]
  /\ callback = [g \in Reply |-> FALSE]
  /\ at       = [s \in Socket |-> "away"]
  /\ joined   = [s \in Socket |-> FALSE]
  /\ broken   = [s \in Socket |-> FALSE]
  /\ held     = [s \in Socket |-> None]
  /\ awaited  = [s \in Socket |-> None]

-----------------------------------------------------------------------------
\* task_running of _drop_room_if_idle and of the leave path.
TaskRunning(i) == active[i] # None /\ reply[active[i]] \in Busy

\* A timer is current until its object is in use again, and stale from then on.
Age(i) == IF timers[i] = {} THEN {} ELSE {"stale"}

\* An object that nothing but a timer refers to, or nothing at all.
Abandoned(i) ==
  /\ registered # i
  /\ participants[i] = {}
  /\ \A s \in Socket : held[s] # i
  /\ \A g \in Reply : reply[g] \in Busy => roomOf[g] # i

Unused(i) == Abandoned(i) /\ timers[i] = {}

\* rooms.setdefault(room_id, CollaborationRoom(...)), with `who` added to the
\* participants and, if `said`, a message to the history.
SetDefault(i, who, said) ==
  /\ IF registered = None THEN Unused(i) ELSE i = registered
  /\ registered' = i
  /\ LET new == registered = None
     IN  /\ participants' = [participants EXCEPT ![i] = IF new THEN who ELSE @ \cup who]
         /\ history' = (said \/ (~new /\ history))
         /\ active'  = [active  EXCEPT ![i] = IF new THEN None ELSE @]
  /\ timers' = [timers EXCEPT ![i] = IF who = {} THEN @ ELSE Age(i)]

\* rooms.pop(room_id): the object's history is out of reach.
Deregister == registered' = None /\ history' = FALSE

Goto(s, place) == at' = [at EXCEPT ![s] = place]

\* A mutation of Cancel: the cancelled reply is not remembered.
CancelForgets(g) == reply' = [reply EXCEPT ![g] = None]

\* task.cancel() on reply g.
Cancel(g) == reply' = [reply EXCEPT ![g] = "cancelling"]

-----------------------------------------------------------------------------
\* A client connects and authenticates.
Connect(s) ==
  /\ at[s] = "away"
  /\ Goto(s, "ready")
  /\ UNCHANGED <<rooms, replies, joined, broken, held, awaited>>

\* The connection breaks; the handler will find out at its next receive.
Break(s) ==
  /\ at[s] # "away"
  /\ ~broken[s]
  /\ broken' = [broken EXCEPT ![s] = TRUE]
  /\ UNCHANGED <<rooms, replies, at, joined, held, awaited>>

\* join_collaboration_room; the room_state sent to a broken socket raises,
\* and the handler goes on to its cleanup.
JoinRoom(s) ==
  /\ at[s] = "ready"
  /\ \E i \in Room : SetDefault(i, {s}, FALSE)
  /\ joined' = [joined EXCEPT ![s] = TRUE]
  /\ Goto(s, IF broken[s] THEN "closing" ELSE "ready")
  /\ UNCHANGED <<replies, broken, held, awaited>>

\* A mutation of LeaveRoom: an empty room goes at once.
LeaveRoomDropping(s) ==
  /\ joined' = [joined EXCEPT ![s] = FALSE]
  /\ LET i == registered
     IN IF ~joined[s] \/ i = None
        THEN UNCHANGED <<rooms, callback>>
        ELSE /\ participants' = [participants EXCEPT ![i] = @ \ {s}]
             /\ IF participants[i] \subseteq {s} THEN Deregister ELSE UNCHANGED named
             /\ UNCHANGED <<active, timers, callback>>

\* leave_collaboration_room: an emptied room is kept while its reply runs and
\* for the TTL after it, or for the TTL if it has a history, or not at all.
LeaveRoom(s) ==
  /\ joined' = [joined EXCEPT ![s] = FALSE]
  /\ LET i == registered
     IN IF ~joined[s] \/ i = None
        THEN UNCHANGED <<rooms, callback>>
        ELSE /\ participants' = [participants EXCEPT ![i] = @ \ {s}]
             /\ UNCHANGED active
             /\ CASE participants[i] \ {s} # {} ->
                       UNCHANGED <<named, timers, callback>>
                  [] participants[i] \subseteq {s} /\ TaskRunning(i) ->
                       /\ callback' = [callback EXCEPT ![active[i]] = TRUE]
                       /\ UNCHANGED <<named, timers>>
                  [] participants[i] \subseteq {s} /\ ~TaskRunning(i) /\ history ->
                       /\ timers' = [timers EXCEPT ![i] = @ \cup {"current"}]
                       /\ UNCHANGED <<named, callback>>
                  [] OTHER ->
                       Deregister /\ UNCHANGED <<timers, callback>>

\* A join_room message names another room: this one is left first.
SwitchRoom(s) ==
  /\ at[s] = "ready"
  /\ joined[s]
  /\ LeaveRoom(s)
  /\ UNCHANGED <<reply, roomOf, at, broken, held, awaited>>

\* receive_text has raised, or the room_state could not be sent.
Leaving(s) == (at[s] = "ready" /\ broken[s]) \/ at[s] = "closing"

\* lifecycle.close, then leave_collaboration_room.
Close(s) ==
  /\ Leaving(s)
  /\ LeaveRoom(s)
  /\ Goto(s, "away")
  /\ broken' = [broken EXCEPT ![s] = FALSE]
  /\ UNCHANGED <<reply, roomOf, held, awaited>>

-----------------------------------------------------------------------------
\* A room message has passed the rate limit: it is appended and broadcast,
\* after a room that has been dropped meanwhile is joined again.
Send(s) ==
  /\ at[s] = "ready"
  /\ joined[s]
  /\ \E i \in Room :
       IF registered = None /\ broken[s]
       THEN /\ SetDefault(i, {s}, FALSE)
            /\ Goto(s, "closing")
            /\ UNCHANGED held
       ELSE /\ SetDefault(i, IF registered = None THEN {s} ELSE {}, TRUE)
            /\ Goto(s, "announce")
            /\ held' = [held EXCEPT ![s] = i]
  /\ UNCHANGED <<replies, joined, broken, awaited>>

\* No room in use and no handler but that of s refers to the ended reply g.
Forgotten(g, s) ==
  /\ reply[g] = "done"
  /\ \A i \in Room \ {held[s]} : active[i] = g => Abandoned(i)
  /\ \A t \in Socket \ {s} : awaited[t] # g

\* room.active_task = create_task(generate_room_response(room, ...)).
StartReply(s) ==
  \E g \in Reply :
    /\ Forgotten(g, s)
    /\ active' = [active EXCEPT ![held[s]] = g]
    /\ reply'  = [reply  EXCEPT ![g] = "running"]
    /\ roomOf' = [roomOf EXCEPT ![g] = held[s]]
    /\ UNCHANGED callback
    /\ Goto(s, "ready")
    /\ held' = [held EXCEPT ![s] = None]
    /\ awaited' = [awaited EXCEPT ![s] = None]
    /\ timers' = [timers EXCEPT ![held[s]] = Age(held[s])]
    /\ UNCHANGED <<registered, participants, history>>

\* The broadcast is over: a note is done with; a command the sender may give
\* cancels the room's reply, if one runs, and starts its own.
Announced(s) ==
  /\ at[s] = "announce"
  /\ \/ /\ Goto(s, "ready")
        /\ held' = [held EXCEPT ![s] = None]
        /\ UNCHANGED <<rooms, replies, awaited>>
     \/ /\ TaskRunning(held[s])
        /\ Cancel(active[held[s]])
        /\ awaited' = [awaited EXCEPT ![s] = active[held[s]]]
        /\ Goto(s, "replace")
        /\ UNCHANGED <<rooms, roomOf, callback, held>>
     \/ ~TaskRunning(held[s]) /\ StartReply(s)
  /\ UNCHANGED <<joined, broken>>

Replace(s) ==
  /\ at[s] = "replace"
  /\ reply[awaited[s]] = "done"
  /\ StartReply(s)
  /\ UNCHANGED <<joined, broken>>

\* A cancel message stops the reply of the room.
CancelMessage(s) ==
  /\ at[s] = "ready"
  /\ joined[s] /\ registered # None
  /\ TaskRunning(registered)
  /\ Cancel(active[registered])
  /\ awaited' = [awaited EXCEPT ![s] = active[registered]]
  /\ held' = [held EXCEPT ![s] = registered]
  /\ Goto(s, "stop")
  /\ UNCHANGED <<rooms, roomOf, callback, joined, broken>>

\* A mutation of Stopped: the handler waits until the room has that reply again.
StoppedIfActive(s) ==
  /\ at[s] = "stop"
  /\ reply[awaited[s]] = "done"
  /\ active[held[s]] = awaited[s]
  /\ active' = [active EXCEPT ![held[s]] = None]
  /\ held' = [held EXCEPT ![s] = None]
  /\ awaited' = [awaited EXCEPT ![s] = None]
  /\ Goto(s, "ready")
  /\ UNCHANGED <<registered, participants, history, timers, replies, joined, broken>>

\* The cancelled reply is over: `existing_room.active_task = None`, whatever
\* that task has become meanwhile.
Stopped(s) ==
  /\ at[s] = "stop"
  /\ reply[awaited[s]] = "done"
  /\ active' = [active EXCEPT ![held[s]] = None]
  /\ held' = [held EXCEPT ![s] = None]
  /\ awaited' = [awaited EXCEPT ![s] = None]
  /\ Goto(s, "ready")
  /\ UNCHANGED <<registered, participants, history, timers, replies, joined, broken>>

-----------------------------------------------------------------------------
\* A reply is ready: it is appended to the room it was started on.
Answer(g) ==
  /\ reply[g] = "running"
  /\ roomOf[g] = registered
  /\ history' = TRUE
  /\ UNCHANGED <<registered, participants, active, timers, replies, handlers>>

\* A mutation of End: nobody waits for the end of the reply.
EndUnnoticed(g) ==
  /\ reply[g] \in Busy
  /\ reply' = [reply EXCEPT ![g] = "done"]
  /\ active' = [active EXCEPT ![roomOf[g]] =
                   IF @ # None /\ reply[@] = "done" THEN None ELSE @]
  /\ roomOf' = [roomOf EXCEPT ![g] = None]
  /\ callback' = [callback EXCEPT ![g] = FALSE]
  /\ UNCHANGED <<registered, participants, history, timers, handlers>>

\* The task ends: answered, failed or cancelled.  Its finally block forgets
\* an active task that is done, and its done callback starts the TTL.
End(g) ==
  /\ reply[g] \in Busy
  /\ reply' = [reply EXCEPT ![g] = "done"]
  /\ LET i == roomOf[g]
     IN /\ active' = [active EXCEPT ![i] =
                        IF @ # None /\ reply[@] = "done" THEN None ELSE @]
        /\ timers' = [timers EXCEPT ![i] = IF callback[g] THEN @ \cup {"current"} ELSE @]
  /\ roomOf' = [roomOf EXCEPT ![g] = None]
  /\ callback' = [callback EXCEPT ![g] = FALSE]
  /\ UNCHANGED <<registered, participants, history, handlers>>

\* broadcast_room_payload drops a participant it cannot send to.
Prune(i, s) ==
  /\ s \in participants[i]
  /\ broken[s]
  /\ \/ \E t \in Socket : at[t] = "announce" /\ held[t] = i
     \/ \E g \in Reply : reply[g] \in Busy /\ roomOf[g] = i
  /\ participants' = [participants EXCEPT ![i] = @ \ {s}]
  /\ UNCHANGED <<registered, history, active, timers, replies, handlers>>

\* emit_control_room_event creates the room it writes its telemetry to.
ControlEvent ==
  /\ registered = None
  /\ \E i \in Room : SetDefault(i, {}, FALSE)
  /\ UNCHANGED <<replies, handlers>>

\* A timer of object i is over, the oldest first; stale ones may be several.
Expire(i, age) ==
  /\ age \in timers[i]
  /\ age = "current" => "stale" \notin timers[i]
  /\ \/ timers' = [timers EXCEPT ![i] = @ \ {age}]
     \/ age = "stale" /\ UNCHANGED timers

\* A mutation of Drop: the object is not compared with the registered one.
DropByName(i, age) ==
  /\ Expire(i, age)
  /\ IF participants[i] = {} /\ ~TaskRunning(i) THEN Deregister ELSE UNCHANGED named
  /\ UNCHANGED <<participants, active, replies, handlers>>

\* _drop_room_if_idle, after COLLAB_IDLE_ROOM_TTL_SECONDS.
Drop(i, age) ==
  /\ Expire(i, age)
  /\ IF participants[i] = {} /\ ~TaskRunning(i) /\ registered = i
     THEN Deregister
     ELSE UNCHANGED named
  /\ UNCHANGED <<participants, active, replies, handlers>>

\* The handler's and the reply's own steps, which the event loop runs.
Handle(s) == Close(s) \/ Announced(s) \/ Replace(s) \/ Stopped(s)

Next ==
  \/ \E s \in Socket : \/ Connect(s) \/ Break(s) \/ JoinRoom(s) \/ SwitchRoom(s)
                       \/ Send(s) \/ CancelMessage(s) \/ Handle(s)
  \/ \E g \in Reply : Answer(g) \/ End(g)
  \/ \E i \in Room, s \in Socket : Prune(i, s)
  \/ \E i \in Room, age \in {"current", "stale"} : Drop(i, age)
  \/ ControlEvent

\* The event loop runs what is ready, replies end, timers fire; what clients
\* send and when connections break is the environment's choice.
Fairness ==
  /\ \A s \in Socket : WF_vars(Handle(s))
  /\ \A g \in Reply : WF_vars(End(g))
  /\ \A i \in Room, age \in {"current", "stale"} : WF_vars(Drop(i, age))

Spec == Init /\ [][Next]_vars
FairSpec == Spec /\ Fairness

-----------------------------------------------------------------------------
TypeOK ==
  /\ registered \in Room \cup {None}
  /\ participants \in [Room -> SUBSET Socket]
  /\ history \in BOOLEAN
  /\ active \in [Room -> Reply \cup {None}]
  /\ timers \in [Room -> SUBSET {"current", "stale"}]
  /\ reply \in [Reply -> Busy \cup {"done"}]
  /\ roomOf \in [Reply -> Room \cup {None}]
  /\ callback \in [Reply -> BOOLEAN]
  /\ at \in [Socket -> Place]
  /\ joined \in [Socket -> BOOLEAN]
  /\ broken \in [Socket -> BOOLEAN]
  /\ held \in [Socket -> Room \cup {None}]
  /\ awaited \in [Socket -> Reply \cup {None}]

\* Everybody in the room is in the same object: no timer of an object that was
\* dropped, no reply and no handler that still holds it splits the room.
NoSplitRoom == \A i \in Room : participants[i] # {} => registered = i

\* The room owns its history and its reply.  A history is lost only to an expired
\* timer, while the room is empty and no reply of its own runs; a reply is cancelled
\* only by a command or a cancel message that a handler is acting on: neither by a
\* leave, a switch or a broken connection.
DeparturesSpareTheRoom ==
  [][/\ \A i \in Room :
          registered = i /\ history /\ registered' # i =>
            timers[i] # {} /\ participants[i] = {} /\ ~TaskRunning(i)
     /\ \A g \in Reply :
          reply[g] = "running" /\ reply'[g] = "cancelling" =>
            \E s \in Socket : at'[s] \in {"replace", "stop"} /\ awaited'[s] = g]_vars

\* A room with a history is dropped once everybody is gone for good.
AbandonedRoomDropped ==
  <>[](\A s \in Socket : at[s] = "away") => <>[](~history)

\* A handler that awaits the end of a reply goes on.
HandlersGoOn ==
  \A s \in Socket : at[s] \in {"replace", "stop"} ~> at[s] = "ready"

\* The docstring of leave_collaboration_room: a room without participants and
\* without a running reply is kept for the TTL, counted from then on.
KeptForTTL ==
  [][\A i \in Room :
       registered = i /\ history /\ registered' # i =>
         "current" \in timers[i] \ timers'[i]]_vars
=============================================================================
