----------------------------- MODULE RoomProofs -----------------------------
(***************************************************************************)
(* Theorems about CollaborationRoom, for every set of clients, room        *)
(* objects and reply tasks.                                                *)
(***************************************************************************)
EXTENDS CollaborationRoom, TLAPS

USE NoneAssumption

\* What a handler holds across its awaits.
HandlersHold ==
  \A s \in Socket :
    /\ at[s] \in {"announce", "replace", "stop"} => held[s] \in Room
    /\ at[s] \in {"replace", "stop"} => awaited[s] \in Reply

\* The inductive invariant.
RInv == TypeOK /\ HandlersHold /\ NoSplitRoom

-----------------------------------------------------------------------------
(* The room's own state. *)

RoomTypes ==
  /\ registered \in Room \cup {None}
  /\ participants \in [Room -> SUBSET Socket]
  /\ history \in BOOLEAN
  /\ active \in [Room -> Reply \cup {None}]
  /\ timers \in [Room -> SUBSET {"current", "stale"}]

ReplyTypes ==
  /\ reply \in [Reply -> Busy \cup {"done"}]
  /\ roomOf \in [Reply -> Room \cup {None}]
  /\ callback \in [Reply -> BOOLEAN]

HandlerTypes ==
  /\ at \in [Socket -> Place]
  /\ joined \in [Socket -> BOOLEAN]
  /\ broken \in [Socket -> BOOLEAN]
  /\ held \in [Socket -> Room \cup {None}]
  /\ awaited \in [Socket -> Reply \cup {None}]

LEMMA TypesApart ==
  ASSUME RoomTypes', ReplyTypes', HandlerTypes'
  PROVE  TypeOK'
BY DEF TypeOK, RoomTypes, ReplyTypes, HandlerTypes

\* Whoever joins, joins the registered object, or registers one while no other
\* has participants.
LEMMA SetDefaultKeeps ==
  ASSUME RInv, NEW i \in Room, NEW who \in SUBSET Socket, NEW said \in BOOLEAN,
         SetDefault(i, who, said)
  PROVE  RoomTypes' /\ NoSplitRoom'
<1>1. /\ registered' = i
      /\ registered # None => registered = i
      /\ participants' = [participants EXCEPT ![i] = IF registered = None THEN who ELSE @ \cup who]
      /\ timers' = [timers EXCEPT ![i] = IF who = {} THEN @ ELSE Age(i)]
      /\ active' = [active EXCEPT ![i] = IF registered = None THEN None ELSE @]
      /\ history' = (said \/ (~(registered = None) /\ history))
  BY DEF SetDefault
<1>2. RoomTypes'
  <2>1. participants' \in [Room -> SUBSET Socket]
    BY <1>1 DEF RInv, TypeOK
  <2>2. timers' \in [Room -> SUBSET {"current", "stale"}]
    BY <1>1 DEF RInv, TypeOK, Age
  <2>3. active' \in [Room -> Reply \cup {None}]
    BY <1>1 DEF RInv, TypeOK
  <2>4. history' \in BOOLEAN
    BY <1>1 DEF RInv, TypeOK
  <2>5. QED  BY <1>1, <2>1, <2>2, <2>3, <2>4 DEF RoomTypes
<1>3. NoSplitRoom'
  BY <1>1 DEF RInv, TypeOK, NoSplitRoom
<1>4. QED  BY <1>2, <1>3

\* Participants leave; the object goes only when it has none left.
LEMMA ParticipantsLeave ==
  ASSUME RInv, participants' \in [Room -> SUBSET Socket],
         \A i \in Room : participants'[i] \subseteq participants[i],
         \/ registered' = registered
         \/ registered' = None /\ \A i \in Room : participants'[i] = {}
  PROVE  NoSplitRoom'
BY DEF RInv, NoSplitRoom

LEMMA LeaveRoomKeeps ==
  ASSUME RInv, NEW s \in Socket, LeaveRoom(s)
  PROVE  /\ RoomTypes' /\ NoSplitRoom'
         /\ callback' \in [Reply -> BOOLEAN] /\ joined' \in [Socket -> BOOLEAN]
<1> DEFINE i == registered
<1>1. joined' \in [Socket -> BOOLEAN]
  BY DEF LeaveRoom, RInv, TypeOK
<1>2. CASE UNCHANGED <<rooms, callback>>
  BY <1>1, <1>2 DEF rooms, RInv, TypeOK, RoomTypes, NoSplitRoom
<1>3. CASE joined[s] /\ i # None
  <2>1. i \in Room
    BY <1>3 DEF RInv, TypeOK
  <2>2. participants' = [participants EXCEPT ![i] = @ \ {s}] /\ active' = active
    BY <1>3 DEF LeaveRoom
  <2>3. participants' \in [Room -> SUBSET Socket]
        /\ \A j \in Room : participants'[j] \subseteq participants[j]
    BY <2>1, <2>2 DEF RInv, TypeOK
  <2>4. \/ UNCHANGED <<named, timers, callback>>
        \/ callback' = [callback EXCEPT ![active[i]] = TRUE] /\ UNCHANGED <<named, timers>>
        \/ timers' = [timers EXCEPT ![i] = @ \cup {"current"}] /\ UNCHANGED <<named, callback>>
        \/ participants[i] \subseteq {s} /\ Deregister /\ UNCHANGED <<timers, callback>>
    BY <1>3 DEF LeaveRoom
  <2>5. callback' \in [Reply -> BOOLEAN] /\ timers' \in [Room -> SUBSET {"current", "stale"}]
    <3>1. CASE callback' = [callback EXCEPT ![active[i]] = TRUE] /\ timers' = timers
      BY <3>1 DEF RInv, TypeOK
    <3>2. CASE timers' = [timers EXCEPT ![i] = @ \cup {"current"}] /\ callback' = callback
      BY <2>1, <3>2 DEF RInv, TypeOK
    <3>3. CASE UNCHANGED <<timers, callback>>
      BY <3>3 DEF RInv, TypeOK
    <3>4. QED  BY <2>4, <3>1, <3>2, <3>3
  <2>6. CASE UNCHANGED named
    BY <1>1, <2>2, <2>3, <2>5, <2>6, ParticipantsLeave DEF named, RInv, TypeOK, RoomTypes
  <2>7. CASE participants[i] \subseteq {s} /\ Deregister
    <3>1. \A j \in Room : participants'[j] = {}
      BY <2>1, <2>2, <2>7 DEF RInv, TypeOK, NoSplitRoom
    <3>2. NoSplitRoom'
      BY <2>3, <2>7, <3>1, ParticipantsLeave DEF Deregister
    <3>3. QED  BY <1>1, <2>2, <2>3, <2>5, <2>7, <3>2 DEF Deregister, RInv, TypeOK, RoomTypes
  <2>8. QED  BY <2>4, <2>6, <2>7
<1>4. QED  BY <1>2, <1>3 DEF LeaveRoom

-----------------------------------------------------------------------------
(* The handlers and the replies. *)

\* A handler that holds nothing across its next await.
LEMMA FreeHandler ==
  ASSUME RInv, NEW s \in Socket, NEW place \in {"away", "ready", "closing"}, Goto(s, place),
         held' \in [Socket -> Room \cup {None}], awaited' \in [Socket -> Reply \cup {None}],
         \A t \in Socket \ {s} : held'[t] = held[t] /\ awaited'[t] = awaited[t]
  PROVE  HandlersHold' /\ at' \in [Socket -> Place]
BY DEF Goto, Place, RInv, TypeOK, HandlersHold

LEMMA StartReplyKeeps ==
  ASSUME RInv, NEW s \in Socket, held[s] \in Room, StartReply(s), UNCHANGED <<joined, broken>>
  PROVE  RInv'
<1>1. PICK g \in Reply :
        /\ active' = [active EXCEPT ![held[s]] = g]
        /\ reply'  = [reply  EXCEPT ![g] = "running"]
        /\ roomOf' = [roomOf EXCEPT ![g] = held[s]]
        /\ timers' = [timers EXCEPT ![held[s]] = Age(held[s])]
  BY DEF StartReply
<1>2. /\ Goto(s, "ready") /\ held' = [held EXCEPT ![s] = None]
      /\ awaited' = [awaited EXCEPT ![s] = None]
      /\ UNCHANGED <<registered, participants, history, callback>>
  BY DEF StartReply
<1>3. RoomTypes' /\ ReplyTypes'
  BY <1>1, <1>2 DEF RInv, TypeOK, RoomTypes, ReplyTypes, Age, Busy
<1>4. HandlersHold' /\ HandlerTypes'
  <2>1. held' \in [Socket -> Room \cup {None}] /\ awaited' \in [Socket -> Reply \cup {None}]
        /\ \A t \in Socket \ {s} : held'[t] = held[t] /\ awaited'[t] = awaited[t]
    BY <1>2 DEF RInv, TypeOK
  <2>2. QED  BY <1>2, <2>1, FreeHandler DEF RInv, TypeOK, HandlerTypes
<1>5. NoSplitRoom'
  BY <1>2 DEF RInv, NoSplitRoom
<1>6. QED  BY <1>3, <1>4, <1>5, TypesApart DEF RInv

\* A handler cancels a reply of a room and awaits its end.
LEMMA CancelKeeps ==
  ASSUME RInv, NEW s \in Socket, NEW i \in Room, TaskRunning(i), Cancel(active[i]),
         awaited' = [awaited EXCEPT ![s] = active[i]], held' = [held EXCEPT ![s] = i],
         NEW place \in {"replace", "stop"}, Goto(s, place),
         UNCHANGED <<rooms, roomOf, callback, joined, broken>>
  PROVE  RInv'
<1>1. active[i] \in Reply
  BY DEF TaskRunning, RInv, TypeOK
<1>2. TypeOK'
  BY <1>1 DEF Cancel, Goto, Busy, Place, rooms, RInv, TypeOK
<1>3. HandlersHold'
  BY <1>1 DEF Goto, RInv, TypeOK, HandlersHold
<1>4. NoSplitRoom'
  BY DEF rooms, RInv, NoSplitRoom
<1>5. QED  BY <1>2, <1>3, <1>4 DEF RInv

LEMMA AnnouncedKeeps ==
  ASSUME RInv, NEW s \in Socket, Announced(s)
  PROVE  RInv'
<1>1. held[s] \in Room
  BY DEF Announced, RInv, HandlersHold
<1>2. CASE Goto(s, "ready") /\ held' = [held EXCEPT ![s] = None]
           /\ UNCHANGED <<rooms, replies, awaited>>
  <2>1. held' \in [Socket -> Room \cup {None}] /\ awaited' \in [Socket -> Reply \cup {None}]
        /\ \A t \in Socket \ {s} : held'[t] = held[t] /\ awaited'[t] = awaited[t]
    BY <1>2 DEF RInv, TypeOK
  <2>2. HandlersHold' /\ at' \in [Socket -> Place]
    BY <1>2, <2>1, FreeHandler
  <2>3. QED  BY <1>2, <2>1, <2>2 DEF Announced, rooms, replies, RInv, TypeOK, NoSplitRoom
<1>3. CASE /\ TaskRunning(held[s])
           /\ Cancel(active[held[s]])
           /\ awaited' = [awaited EXCEPT ![s] = active[held[s]]]
           /\ Goto(s, "replace")
           /\ UNCHANGED <<rooms, roomOf, callback, held>>
  <2>1. held' = [held EXCEPT ![s] = held[s]]
    BY <1>3 DEF RInv, TypeOK
  <2>2. QED  BY <1>1, <1>3, <2>1, CancelKeeps DEF Announced
<1>4. CASE StartReply(s)
  BY <1>1, <1>4, StartReplyKeeps DEF Announced
<1>5. QED  BY <1>2, <1>3, <1>4 DEF Announced

LEMMA ReplaceKeeps ==
  ASSUME RInv, NEW s \in Socket, Replace(s)
  PROVE  RInv'
BY StartReplyKeeps DEF Replace, RInv, HandlersHold

LEMMA CancelMessageKeeps ==
  ASSUME RInv, NEW s \in Socket, CancelMessage(s)
  PROVE  RInv'
<1>1. registered \in Room
  BY DEF CancelMessage, RInv, TypeOK
<1>2. QED  BY <1>1, CancelKeeps DEF CancelMessage

LEMMA StoppedKeeps ==
  ASSUME RInv, NEW s \in Socket, Stopped(s)
  PROVE  RInv'
<1>1. held' \in [Socket -> Room \cup {None}] /\ awaited' \in [Socket -> Reply \cup {None}]
      /\ \A t \in Socket \ {s} : held'[t] = held[t] /\ awaited'[t] = awaited[t]
  BY DEF Stopped, RInv, TypeOK
<1>2. HandlersHold' /\ at' \in [Socket -> Place]
  BY <1>1, FreeHandler DEF Stopped
<1>3. TypeOK'
  BY <1>1, <1>2 DEF Stopped, replies, RInv, TypeOK
<1>4. NoSplitRoom'
  BY DEF Stopped, RInv, NoSplitRoom
<1>5. QED  BY <1>2, <1>3, <1>4 DEF RInv

LEMMA SendKeeps ==
  ASSUME RInv, NEW s \in Socket, Send(s)
  PROVE  RInv'
<1>1. UNCHANGED <<replies, joined, broken, awaited>>
  BY DEF Send
<1>2. ASSUME NEW i \in Room, SetDefault(i, {s}, FALSE), Goto(s, "closing"), UNCHANGED held
      PROVE  RInv'
  <2>1. RoomTypes' /\ NoSplitRoom'
    BY <1>2, SetDefaultKeeps
  <2>2. HandlersHold' /\ at' \in [Socket -> Place]
    BY <1>1, <1>2, FreeHandler DEF RInv, TypeOK
  <2>3. QED  BY <1>1, <1>2, <2>1, <2>2 DEF replies, RInv, TypeOK, RoomTypes
<1>3. ASSUME NEW i \in Room, NEW who \in SUBSET Socket, SetDefault(i, who, TRUE),
             Goto(s, "announce"), held' = [held EXCEPT ![s] = i]
      PROVE  RInv'
  <2>1. RoomTypes' /\ NoSplitRoom'
    BY <1>3, SetDefaultKeeps
  <2>2. HandlersHold' /\ HandlerTypes'
    BY <1>1, <1>3 DEF Goto, Place, RInv, TypeOK, HandlersHold, HandlerTypes
  <2>3. ReplyTypes'
    BY <1>1 DEF replies, RInv, TypeOK, ReplyTypes
  <2>4. QED  BY <2>1, <2>2, <2>3, TypesApart DEF RInv
<1>4. QED  BY <1>2, <1>3 DEF Send

LEMMA JoinRoomKeeps ==
  ASSUME RInv, NEW s \in Socket, JoinRoom(s)
  PROVE  RInv'
<1>1. RoomTypes' /\ NoSplitRoom'
  BY SetDefaultKeeps DEF JoinRoom
<1>2. HandlersHold' /\ HandlerTypes'
  <2>1. PICK place \in {"closing", "ready"} : Goto(s, place)
    BY DEF JoinRoom
  <2>2. HandlersHold' /\ at' \in [Socket -> Place]
    BY <2>1, FreeHandler DEF JoinRoom, RInv, TypeOK
  <2>3. QED  BY <2>2 DEF JoinRoom, RInv, TypeOK, HandlerTypes
<1>3. ReplyTypes'
  BY DEF JoinRoom, replies, RInv, TypeOK, ReplyTypes
<1>4. QED  BY <1>1, <1>2, <1>3, TypesApart DEF RInv

LEMMA SwitchRoomKeeps ==
  ASSUME RInv, NEW s \in Socket, SwitchRoom(s)
  PROVE  RInv'
<1>1. /\ RoomTypes' /\ NoSplitRoom' /\ callback' \in [Reply -> BOOLEAN]
      /\ joined' \in [Socket -> BOOLEAN]
  BY LeaveRoomKeeps DEF SwitchRoom
<1>2. QED  BY <1>1 DEF SwitchRoom, RInv, TypeOK, RoomTypes, HandlersHold

LEMMA CloseKeeps ==
  ASSUME RInv, NEW s \in Socket, Close(s)
  PROVE  RInv'
<1>1. /\ RoomTypes' /\ NoSplitRoom' /\ callback' \in [Reply -> BOOLEAN]
      /\ joined' \in [Socket -> BOOLEAN]
  BY LeaveRoomKeeps DEF Close
<1>2. HandlersHold' /\ at' \in [Socket -> Place]
  BY FreeHandler DEF Close, RInv, TypeOK
<1>3. broken' \in [Socket -> BOOLEAN]
  BY DEF Close, RInv, TypeOK
<1>4. QED  BY <1>1, <1>2, <1>3 DEF Close, RInv, TypeOK, RoomTypes

LEMMA ConnectionKeeps ==
  ASSUME RInv, NEW s \in Socket, Connect(s) \/ Break(s)
  PROVE  RInv'
<1>1. CASE Connect(s)
  <2>1. HandlersHold' /\ at' \in [Socket -> Place]
    BY <1>1, FreeHandler DEF Connect, RInv, TypeOK
  <2>2. QED  BY <1>1, <2>1 DEF Connect, rooms, replies, RInv, TypeOK, NoSplitRoom
<1>2. CASE Break(s)
  BY <1>2 DEF Break, rooms, replies, RInv, TypeOK, HandlersHold, NoSplitRoom
<1>3. QED  BY <1>1, <1>2

LEMMA EndKeeps ==
  ASSUME RInv, NEW g \in Reply, End(g)
  PROVE  RInv'
<1>1. RoomTypes'
  <2>1. active' \in [Room -> Reply \cup {None}]
    BY DEF End, RInv, TypeOK
  <2>2. timers' \in [Room -> SUBSET {"current", "stale"}]
    BY DEF End, RInv, TypeOK
  <2>3. QED  BY <2>1, <2>2 DEF End, RInv, TypeOK, RoomTypes
<1>2. ReplyTypes'
  BY DEF End, RInv, TypeOK, ReplyTypes, Busy
<1>3. HandlersHold' /\ HandlerTypes' /\ NoSplitRoom'
  BY DEF End, handlers, RInv, TypeOK, HandlersHold, HandlerTypes, NoSplitRoom
<1>4. QED  BY <1>1, <1>2, <1>3, TypesApart DEF RInv

LEMMA DropKeeps ==
  ASSUME RInv, NEW i \in Room, NEW age \in {"current", "stale"}, Drop(i, age)
  PROVE  RInv'
<1>1. timers' \in [Room -> SUBSET {"current", "stale"}]
  BY DEF Drop, Expire, RInv, TypeOK
<1>2. /\ registered' \in Room \cup {None} /\ history' \in BOOLEAN
      /\ \/ registered' = registered
         \/ registered' = None /\ registered = i /\ participants[i] = {}
  BY DEF Drop, Deregister, named, RInv, TypeOK
<1>3. NoSplitRoom'
  BY <1>2 DEF Drop, RInv, NoSplitRoom
<1>4. TypeOK' /\ HandlersHold'
  BY <1>1, <1>2 DEF Drop, replies, handlers, RInv, TypeOK, HandlersHold
<1>5. QED  BY <1>3, <1>4 DEF RInv

LEMMA QuietStepsKeep ==
  ASSUME RInv
  PROVE  /\ \A g \in Reply : Answer(g) => RInv'
         /\ \A i \in Room, s \in Socket : Prune(i, s) => RInv'
         /\ ControlEvent => RInv'
         /\ UNCHANGED vars => RInv'
<1>1. ASSUME NEW g \in Reply, Answer(g)
      PROVE  RInv'
  BY <1>1 DEF Answer, replies, handlers, RInv, TypeOK, HandlersHold, NoSplitRoom
<1>2. ASSUME NEW i \in Room, NEW s \in Socket, Prune(i, s)
      PROVE  RInv'
  <2>1. participants' \in [Room -> SUBSET Socket]
        /\ \A j \in Room : participants'[j] \subseteq participants[j]
    BY <1>2 DEF Prune, RInv, TypeOK
  <2>2. NoSplitRoom'
    BY <1>2, <2>1, ParticipantsLeave DEF Prune
  <2>3. QED  BY <1>2, <2>1, <2>2 DEF Prune, replies, handlers, RInv, TypeOK, HandlersHold
<1>3. ASSUME ControlEvent
      PROVE  RInv'
  <2>1. RoomTypes' /\ NoSplitRoom'
    BY <1>3, SetDefaultKeeps DEF ControlEvent
  <2>2. QED  BY <1>3, <2>1 DEF ControlEvent, replies, handlers, RInv, TypeOK, RoomTypes, HandlersHold
<1>4. ASSUME UNCHANGED vars
      PROVE  RInv'
  BY <1>4 DEF vars, rooms, replies, handlers, RInv, TypeOK, HandlersHold, NoSplitRoom
<1>5. QED  BY <1>1, <1>2, <1>3, <1>4

LEMMA RNextInv == RInv /\ [Next]_vars => RInv'
BY JoinRoomKeeps, SwitchRoomKeeps, SendKeeps, CancelMessageKeeps, CloseKeeps, AnnouncedKeeps,
   ReplaceKeeps, StoppedKeeps, ConnectionKeeps, EndKeeps, DropKeeps, QuietStepsKeep
   DEF Next, Handle

LEMMA RInitInv == Init => RInv
BY ZenonT(60) DEF Init, RInv, TypeOK, HandlersHold, NoSplitRoom, Busy, Place

LEMMA RSpecInv == Spec => []RInv
BY RInitInv, RNextInv, PTL DEF Spec

-----------------------------------------------------------------------------
\* The room, its replies and the handlers keep their types.
THEOREM RoomTypesKept == Spec => []TypeOK
<1>1. RInv => TypeOK
  BY DEF RInv
<1>2. QED  BY <1>1, RSpecInv, PTL

\* Whatever timers, replies and handlers still hold, everybody in the room is
\* in the registered object.
THEOREM RoomNeverSplit == Spec => []NoSplitRoom
<1>1. RInv => NoSplitRoom
  BY DEF RInv
<1>2. QED  BY <1>1, RSpecInv, PTL

\* A history goes only with an expired timer of an empty, quiet room.
LEMMA HistoryKept ==
  ASSUME RInv, [Next]_vars, NEW i \in Room, registered = i, history, registered' # i
  PROVE  timers[i] # {} /\ participants[i] = {} /\ ~TaskRunning(i)
<1>1. ASSUME NEW j \in Room, NEW who, NEW said, SetDefault(j, who, said)
      PROVE  FALSE
  BY <1>1 DEF SetDefault
<1>2. ASSUME NEW s \in Socket, LeaveRoom(s)
      PROVE  FALSE
  <2>1. registered # None
    BY DEF RInv, TypeOK
  <2>2. CASE ~joined[s]
    BY <1>2, <2>2 DEF LeaveRoom, rooms
  <2>3. CASE joined[s] /\ participants[i] \ {s} # {}
    BY <1>2, <2>1, <2>3 DEF LeaveRoom, named
  <2>4. CASE joined[s] /\ participants[i] \subseteq {s} /\ TaskRunning(i)
    BY <1>2, <2>1, <2>4 DEF LeaveRoom, named
  <2>5. CASE joined[s] /\ participants[i] \subseteq {s} /\ ~TaskRunning(i)
    BY <1>2, <2>1, <2>5 DEF LeaveRoom, named
  <2>6. QED  BY <2>2, <2>3, <2>4, <2>5
<1>3. ASSUME NEW j \in Room, NEW age \in {"current", "stale"}, Drop(j, age)
      PROVE  timers[i] # {} /\ participants[i] = {} /\ ~TaskRunning(i)
  BY <1>3 DEF Drop, Expire, named
<1>4. \/ \E j \in Room : \E who, said : SetDefault(j, who, said)
      \/ \E s \in Socket : LeaveRoom(s)
      \/ \E j \in Room, age \in {"current", "stale"} : Drop(j, age)
  BY DEF Next, vars, rooms, Handle, Connect, Break, JoinRoom, SwitchRoom, Send, CancelMessage,
         Close, Announced, Replace, StartReply, Stopped, Answer, End, Prune, ControlEvent
<1>5. QED  BY <1>1, <1>2, <1>3, <1>4

\* A reply is cancelled only by a handler that then awaits it.
LEMMA RepliesKept ==
  ASSUME RInv, [Next]_vars, NEW g \in Reply, reply[g] = "running", reply'[g] = "cancelling"
  PROVE  \E s \in Socket : at'[s] \in {"replace", "stop"} /\ awaited'[s] = g
<1>1. ASSUME NEW s \in Socket, NEW h, NEW place \in {"replace", "stop"}, Cancel(h), Goto(s, place),
             awaited' = [awaited EXCEPT ![s] = h]
      PROVE  \E t \in Socket : at'[t] \in {"replace", "stop"} /\ awaited'[t] = g
  <2>1. h = g
    BY <1>1 DEF Cancel, RInv, TypeOK
  <2>2. QED  BY <1>1, <2>1 DEF Goto, RInv, TypeOK
<1>2. ASSUME NEW s \in Socket, StartReply(s)
      PROVE  FALSE
  BY <1>2 DEF StartReply, RInv, TypeOK
<1>3. ASSUME NEW h \in Reply, End(h)
      PROVE  FALSE
  BY <1>3 DEF End, RInv, TypeOK
<1>4. CASE \E s \in Socket : Announced(s)
  BY <1>1, <1>2, <1>4 DEF Announced, replies
<1>5. CASE \E s \in Socket : CancelMessage(s)
  BY <1>1, <1>5 DEF CancelMessage
<1>6. \/ \E s \in Socket : Announced(s) \/ Replace(s) \/ CancelMessage(s)
      \/ \E h \in Reply : End(h)
  BY DEF Next, vars, replies, Handle, Connect, Break, JoinRoom, SwitchRoom, Send, Close, Stopped,
         Answer, Prune, Drop, ControlEvent
<1>7. QED  BY <1>2, <1>3, <1>4, <1>5, <1>6 DEF Replace

\* Departures leave the room its history and its reply.
THEOREM RoomSpared == Spec => DeparturesSpareTheRoom
<1>1. RInv /\ [Next]_vars =>
        [/\ \A i \in Room :
              registered = i /\ history /\ registered' # i =>
                timers[i] # {} /\ participants[i] = {} /\ ~TaskRunning(i)
         /\ \A g \in Reply :
              reply[g] = "running" /\ reply'[g] = "cancelling" =>
                \E s \in Socket : at'[s] \in {"replace", "stop"} /\ awaited'[s] = g]_vars
  BY HistoryKept, RepliesKept
<1>2. QED  BY <1>1, RSpecInv, PTL DEF Spec, DeparturesSpareTheRoom
=============================================================================
