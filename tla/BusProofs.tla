------------------------------ MODULE BusProofs ------------------------------
(***************************************************************************)
(* Theorems about what all agents of a process use at once: BusBootstrap,  *)
(* for every set of publishers, bootstrap tasks and listener tasks;        *)
(* EventDelivery, for all subscribers and every size of their queues and   *)
(* of a read; DeadLetters, for all writers and every size of the buffer    *)
(* and of a batch; ModelCalls, for all callers, slots and budgets.         *)
(***************************************************************************)
EXTENDS MCEventBus, QueueProofs, SequenceTheorems, FiniteSetTheorems, TLAPS

USE TaskAssumption

-----------------------------------------------------------------------------
(* The inductive invariant. *)

\* Between two awaits a task has the turn.
RunPlaces   == {"compat", "publish", "ensure", "compat2", "check", "return", "clean", "clean2",
                "clean3"}
CleanPlaces == {"clean", "awaitListener", "clean2", "awaitBootstrap", "clean3", "close"}

Turns ==
  \A t \in Task : /\ pc[t] \in RunPlaces => turn = t
                  /\ turn = t => pc[t] \in RunPlaces \cup {"idle", "done"}

\* What each kind of task runs, and where its cleanups return to.
Roles ==
  /\ \A p \in Publisher :
       /\ pc[p] \in CleanPlaces \cup {"idle", "compat", "ensure", "compat2", "check", "ping",
                                      "group", "return", "publish", "add", "deadLetter"}
       /\ pc[p] \in CleanPlaces => back[p] \in {"ensure", "check", "return", "idle"}
  /\ \A b \in Bootstrap :
       /\ pc[b] \in CleanPlaces \cup {"new", "ensure", "compat2", "check", "ping", "group",
                                      "return", "done"}
       /\ pc[b] \in CleanPlaces => back[b] \in {"check", "return"}
  /\ \A l \in Listener :
       /\ pc[l] \in CleanPlaces \cup {"new", "read", "crashed", "done"}
       /\ pc[l] \in CleanPlaces => back[l] = "done"

\* Who awaits what.
Waits ==
  \A t \in Task :
    /\ waits[t] # None <=> pc[t] \in {"awaitListener", "awaitBootstrap"}
    /\ pc[t] = "awaitListener" => waits[t] \in Listener
    /\ pc[t] = "awaitBootstrap" => waits[t] \in Bootstrap

\* The listener of the bus waits for nobody, and its bootstrap task for no
\* other one: a task that gets so far has been replaced or forgotten.
HeadsFree ==
  /\ \A l \in Listener : pc[l] \in CleanPlaces \ {"clean"} => listenTask # l
  /\ \A b \in Bootstrap : pc[b] = "awaitBootstrap" => bootTask # b

\* An awaited listener has ended or is about to.
AwaitedListener(l) ==
  pc[l] \in {"done", "crashed"} \/ (pc[l] \in {"new", "read"} /\ cancelled[l])
ListenersTold == \A v \in Task : waits[v] \in Listener => AwaitedListener(waits[v])

\* A cancelled task is suspended, and somebody awaits its end unless it is one
\* that publishes.
Cancellations ==
  \A u \in Task :
    cancelled[u] =>
      /\ pc[u] \in {"new", "ping", "group", "add", "deadLetter", "read", "close"}
      /\ u \in Publisher \/ \E v \in Task : waits[v] = u

\* What is left of a connection is on its way to be used, or to be cleaned up.
Stands(places) == \E t \in Task : pc[t] \in places

Forgetting ==
  /\ available = "unknown" /\ listenTask # None => Stands({"clean", "awaitListener"})
  /\ connected /\ ~client => Stands(CleanPlaces)

\* This holds unless a publisher has been cancelled in its setup.
Settling ==
  /\ client /\ ~connected => Stands(CleanPlaces \cup {"ping"})
  /\ client /\ available # "yes" => Stands(CleanPlaces \cup {"ping", "group"})
  /\ available = "unknown" /\ connected => Stands(CleanPlaces \cup {"group"})

NoCircle == \A S \in (SUBSET Task) \ {{}} : \E t \in S : waits[t] \notin S

\* Types of all variables but the history.
Types ==
  /\ client \in BOOLEAN
  /\ connected \in BOOLEAN
  /\ available \in {"unknown", "yes", "no"}
  /\ bootTask \in Bootstrap \cup {None}
  /\ listenTask \in Listener \cup {None}
  /\ turn \in Task \cup {None}
  /\ pc \in [Task -> Place]
  /\ back \in [Task -> Place]
  /\ waits \in [Task -> Task \cup {None}]
  /\ cancelled \in [Task -> BOOLEAN]

Order == Turns /\ Roles /\ Waits /\ HeadsFree /\ ListenersTold /\ Cancellations

OInv == Types /\ Order /\ Forgetting /\ NoCircle

BInv == OInv /\ abandoned \in BOOLEAN /\ (abandoned \/ Settling)

-----------------------------------------------------------------------------
LEMMA NoneIsNoTask == None \notin Task
OBVIOUS

LEMMA BInitInv == Init => BInv
<1> SUFFICES ASSUME Init PROVE BInv
  OBVIOUS
<1>1. Types /\ abandoned \in BOOLEAN
  BY DEF Init, Types, Place
<1>2. Order
  BY DEF Init, Order, Turns, Roles, Waits, HeadsFree, ListenersTold, Cancellations, RunPlaces,
         CleanPlaces, Task
<1>3. Forgetting /\ Settling
  BY DEF Init, Forgetting, Settling
<1>4. NoCircle
  BY DEF Init, NoCircle
<1>5. QED  BY <1>1, <1>2, <1>3, <1>4 DEF BInv, OInv

\* subscribe() at most makes a spare bootstrap task the bus's.
LEMMA SubscribeKeeps ==
  ASSUME OInv, Subscribe
  PROVE  OInv' /\ (Settling => Settling')
<1> USE DEF Subscribe, Schedule, Spare, Ended, bus, calls, OInv, Order, Types, Turns,
            Roles, Waits, Cancellations, Task
<1>1. Types'
  BY DEF Place, RunPlaces, CleanPlaces
<1>2. Turns'
  BY DEF RunPlaces
<1>3. Roles'
  BY DEF RunPlaces, CleanPlaces
<1>4. Waits'
  OBVIOUS
<1>5. HeadsFree'
  BY DEF HeadsFree, CleanPlaces
<1>6. ListenersTold'
  BY DEF ListenersTold, AwaitedListener
<1>7. Cancellations'
  OBVIOUS
<1>8. Forgetting'
  BY DEF Forgetting, Stands, CleanPlaces
<1>9. Settling => Settling'
  BY DEF Settling, Forgetting, Stands, CleanPlaces
<1>10. NoCircle'
  BY DEF NoCircle
<1>11. QED  BY <1>1, <1>2, <1>3, <1>4, <1>5, <1>6, <1>7, <1>8, <1>9, <1>10

\* A publisher that starts takes the turn.
LEMMA PublishKeeps ==
  ASSUME OInv, NEW t \in Publisher, Publish(t)
  PROVE  OInv' /\ (Settling => Settling')
<1> USE DEF Publish, Schedule, Spare, Ended, bus, calls, OInv, Order, Types, Turns, Roles,
            Waits, Cancellations, Task
<1>1. Types'
  BY DEF Place, RunPlaces, CleanPlaces
<1>2. Turns'
  BY DEF RunPlaces
<1>3. Roles'
  BY DEF RunPlaces, CleanPlaces
<1>4. Waits'
  OBVIOUS
<1>5. HeadsFree'
  BY DEF HeadsFree, CleanPlaces
<1>6. ListenersTold'
  BY DEF ListenersTold, AwaitedListener
<1>7. Cancellations'
  OBVIOUS
<1>8. Forgetting'
  BY DEF Forgetting, Stands, CleanPlaces
<1>9. Settling => Settling'
  BY DEF Settling, Forgetting, Stands, CleanPlaces
<1>10. NoCircle'
  BY DEF NoCircle
<1>11. QED  BY <1>1, <1>2, <1>3, <1>4, <1>5, <1>6, <1>7, <1>8, <1>9, <1>10

\* A cancelled bootstrap task ends before it has done anything.
LEMMA BeginKeeps ==
  ASSUME OInv, NEW t \in Task, Begin(t)
  PROVE  OInv' /\ (Settling => Settling')
<1> USE DEF Begin, At, Suspend, Goto, bus, calls, OInv, Order, Types, Turns, Roles, Waits,
            Cancellations, Task
<1>1. Types'
  BY DEF Place, RunPlaces, CleanPlaces
<1>2. Turns'
  BY DEF RunPlaces
<1>3. Roles'
  BY DEF RunPlaces, CleanPlaces
<1>4. Waits'
  OBVIOUS
<1>5. HeadsFree'
  BY DEF HeadsFree, CleanPlaces
<1>6. ListenersTold'
  BY DEF ListenersTold, AwaitedListener
<1>7. Cancellations'
  OBVIOUS
<1>8. Forgetting'
  BY DEF Forgetting, Stands, CleanPlaces
<1>9. Settling => Settling'
  BY DEF Settling, Forgetting, Stands, CleanPlaces
<1>10. NoCircle'
  BY DEF NoCircle
<1>11. QED  BY <1>1, <1>2, <1>3, <1>4, <1>5, <1>6, <1>7, <1>8, <1>9, <1>10

\* A call of _ensure_redis_listener gives up or goes on.
LEMMA EnsureKeeps ==
  ASSUME OInv, NEW t \in Task, Ensure(t)
  PROVE  OInv' /\ (Settling => Settling')
<1> USE DEF Ensure, At, AfterEnsure, Suspend, Goto, bus, calls, OInv, Order, Types, Turns,
            Roles, Waits, Cancellations, Task
<1>1. Types'
  BY DEF Place, RunPlaces, CleanPlaces
<1>2. Turns'
  BY DEF RunPlaces
<1>3. Roles'
  BY DEF RunPlaces, CleanPlaces
<1>4. Waits'
  OBVIOUS
<1>5. HeadsFree'
  BY DEF HeadsFree, CleanPlaces
<1>6. ListenersTold'
  BY DEF ListenersTold, AwaitedListener
<1>7. Cancellations'
  OBVIOUS
<1>8. Forgetting'
  BY DEF Forgetting, Stands, CleanPlaces
<1>9. Settling => Settling'
  BY DEF Settling, Forgetting, Stands, CleanPlaces
<1>10. NoCircle'
  BY DEF NoCircle
<1>11. QED  BY <1>1, <1>2, <1>3, <1>4, <1>5, <1>6, <1>7, <1>8, <1>9, <1>10

\* A connection without its loop is on its way to a cleanup.
LEMMA CompatKeeps ==
  ASSUME OInv, NEW t \in Task, Compat(t)
  PROVE  OInv' /\ (Settling => Settling')
<1> USE DEF Compat, At, Goto, bus, calls, OInv, Order, Types, Turns, Roles, Waits,
            Cancellations, Task
<1>1. Types'
  BY DEF Place, RunPlaces, CleanPlaces
<1>2. Turns'
  BY DEF RunPlaces
<1>3. Roles'
  BY DEF RunPlaces, CleanPlaces
<1>4. Waits'
  OBVIOUS
<1>5. HeadsFree'
  BY DEF HeadsFree, CleanPlaces
<1>6. ListenersTold'
  BY DEF ListenersTold, AwaitedListener
<1>7. Cancellations'
  OBVIOUS
<1>8. Forgetting'
  BY DEF Forgetting, Stands, CleanPlaces
<1>9. Settling => Settling'
  BY DEF Settling, Forgetting, Stands, CleanPlaces
<1>10. NoCircle'
  BY DEF NoCircle
<1>11. QED  BY <1>1, <1>2, <1>3, <1>4, <1>5, <1>6, <1>7, <1>8, <1>9, <1>10

\* A client that is set here is about to be pinged or asked for the group.
LEMMA CheckKeeps ==
  ASSUME OInv, NEW t \in Task, Check(t)
  PROVE  OInv' /\ (Settling => Settling')
<1> USE DEF Check, At, AfterEnsure, Suspend, Goto, bus, calls, OInv, Order, Types, Turns,
            Roles, Waits, Cancellations, Task
<1>1. Types'
  <2>1. pc' \in [Task -> Place]
    BY DEF Place, RunPlaces, CleanPlaces
  <2>2. back' \in [Task -> Place]
    BY DEF Place
  <2>3. turn' \in Task \cup {None}
    OBVIOUS
  <2>4. QED  BY <2>1, <2>2, <2>3
<1>2. Turns'
  BY DEF RunPlaces
<1>3. Roles'
  BY DEF RunPlaces, CleanPlaces
<1>4. Waits'
  OBVIOUS
<1>5. HeadsFree'
  BY DEF HeadsFree, CleanPlaces
<1>6. ListenersTold'
  BY DEF ListenersTold, AwaitedListener
<1>7. Cancellations'
  OBVIOUS
<1>8. Forgetting'
  BY DEF Forgetting, Stands, CleanPlaces
<1>9. Settling => Settling'
  BY DEF Settling, Forgetting, Stands, CleanPlaces
<1>10. NoCircle'
  BY DEF NoCircle
<1>11. QED  BY <1>1, <1>2, <1>3, <1>4, <1>5, <1>6, <1>7, <1>8, <1>9, <1>10

\* A failed ping is followed by a cleanup.
LEMMA PingedKeeps ==
  ASSUME OInv, NEW t \in Task, Pinged(t)
  PROVE  OInv' /\ (Settling => Settling')
<1> USE DEF Pinged, Reply, At, Suspend, Goto, GiveUp, bus, calls, OInv, Order, Types,
            Turns, Roles, Waits, Cancellations, Task
<1>1. Types'
  <2>1. pc' \in [Task -> Place]
    BY DEF Place, RunPlaces, CleanPlaces
  <2>2. back' \in [Task -> Place]
    BY DEF Place
  <2>3. turn' \in Task \cup {None}
    OBVIOUS
  <2>4. QED  BY <2>1, <2>2, <2>3
<1>2. Turns'
  BY DEF RunPlaces
<1>3. Roles'
  BY DEF RunPlaces, CleanPlaces
<1>4. Waits'
  OBVIOUS
<1>5. HeadsFree'
  BY DEF HeadsFree, CleanPlaces
<1>6. ListenersTold'
  BY DEF ListenersTold, AwaitedListener
<1>7. Cancellations'
  OBVIOUS
<1>8. Forgetting'
  BY DEF Forgetting, Stands, CleanPlaces
<1>9. Settling => Settling'
  BY DEF Settling, Forgetting, Stands, CleanPlaces
<1>10. NoCircle'
  BY DEF NoCircle
<1>11. QED  BY <1>1, <1>2, <1>3, <1>4, <1>5, <1>6, <1>7, <1>8, <1>9, <1>10

\* A listener that starts finds Redis available.
LEMMA GroupCreatedKeeps ==
  ASSUME OInv, NEW t \in Task, GroupCreated(t)
  PROVE  OInv' /\ (Settling => Settling')
<1> USE DEF GroupCreated, Reply, At, Goto, GiveUp, Spare, Ended, bus, calls, OInv, Order,
            Types, Turns, Roles, Waits, Cancellations, Task
<1>1. Types'
  BY DEF Place, RunPlaces, CleanPlaces
<1>2. Turns'
  BY DEF RunPlaces
<1>3. Roles'
  BY DEF RunPlaces, CleanPlaces
<1>4. Waits'
  OBVIOUS
<1>5. HeadsFree'
  BY DEF HeadsFree, CleanPlaces
<1>6. ListenersTold'
  BY DEF ListenersTold, AwaitedListener
<1>7. Cancellations'
  OBVIOUS
<1>8. Forgetting'
  BY DEF Forgetting, Stands, CleanPlaces
<1>9. Settling => Settling'
  BY DEF Settling, Forgetting, Stands, CleanPlaces
<1>10. NoCircle'
  BY DEF NoCircle
<1>11. QED  BY <1>1, <1>2, <1>3, <1>4, <1>5, <1>6, <1>7, <1>8, <1>9, <1>10

\* The end of a failed setup.
LEMMA ReturningKeeps ==
  ASSUME OInv, NEW t \in Task, Returning(t)
  PROVE  OInv' /\ (Settling => Settling')
<1> USE DEF Returning, At, AfterEnsure, Suspend, Goto, bus, calls, OInv, Order, Types,
            Turns, Roles, Waits, Cancellations, Task
<1>1. Types'
  BY DEF Place, RunPlaces, CleanPlaces
<1>2. Turns'
  BY DEF RunPlaces
<1>3. Roles'
  BY DEF RunPlaces, CleanPlaces
<1>4. Waits'
  OBVIOUS
<1>5. HeadsFree'
  BY DEF HeadsFree, CleanPlaces
<1>6. ListenersTold'
  BY DEF ListenersTold, AwaitedListener
<1>7. Cancellations'
  OBVIOUS
<1>8. Forgetting'
  BY DEF Forgetting, Stands, CleanPlaces
<1>9. Settling => Settling'
  BY DEF Settling, Forgetting, Stands, CleanPlaces
<1>10. NoCircle'
  BY DEF NoCircle
<1>11. QED  BY <1>1, <1>2, <1>3, <1>4, <1>5, <1>6, <1>7, <1>8, <1>9, <1>10

\* A publisher writes, or has nothing to write with.
LEMMA WriteKeeps ==
  ASSUME OInv, NEW t \in Task, Write(t)
  PROVE  OInv' /\ (Settling => Settling')
<1> USE DEF Write, At, Suspend, bus, calls, OInv, Order, Types, Turns, Roles, Waits,
            Cancellations, Task
<1>1. Types'
  BY DEF Place, RunPlaces, CleanPlaces
<1>2. Turns'
  BY DEF RunPlaces
<1>3. Roles'
  BY DEF RunPlaces, CleanPlaces
<1>4. Waits'
  OBVIOUS
<1>5. HeadsFree'
  BY DEF HeadsFree, CleanPlaces
<1>6. ListenersTold'
  BY DEF ListenersTold, AwaitedListener
<1>7. Cancellations'
  OBVIOUS
<1>8. Forgetting'
  BY DEF Forgetting, Stands, CleanPlaces
<1>9. Settling => Settling'
  BY DEF Settling, Forgetting, Stands, CleanPlaces
<1>10. NoCircle'
  BY DEF NoCircle
<1>11. QED  BY <1>1, <1>2, <1>3, <1>4, <1>5, <1>6, <1>7, <1>8, <1>9, <1>10

\* The end of a write.
LEMMA AddedKeeps ==
  ASSUME OInv, NEW t \in Task, Added(t)
  PROVE  OInv' /\ (Settling => Settling')
<1> USE DEF Added, Reply, At, Suspend, bus, calls, OInv, Order, Types, Turns, Roles, Waits,
            Cancellations, Task
<1>1. Types'
  BY DEF Place, RunPlaces, CleanPlaces
<1>2. Turns'
  BY DEF RunPlaces
<1>3. Roles'
  BY DEF RunPlaces, CleanPlaces
<1>4. Waits'
  OBVIOUS
<1>5. HeadsFree'
  BY DEF HeadsFree, CleanPlaces
<1>6. ListenersTold'
  BY DEF ListenersTold, AwaitedListener
<1>7. Cancellations'
  OBVIOUS
<1>8. Forgetting'
  BY DEF Forgetting, Stands, CleanPlaces
<1>9. Settling => Settling'
  BY DEF Settling, Forgetting, Stands, CleanPlaces
<1>10. NoCircle'
  BY DEF NoCircle
<1>11. QED  BY <1>1, <1>2, <1>3, <1>4, <1>5, <1>6, <1>7, <1>8, <1>9, <1>10

\* A failed write is followed by a cleanup.
LEMMA DeadLetterWrittenKeeps ==
  ASSUME OInv, NEW t \in Task, DeadLetterWritten(t)
  PROVE  OInv' /\ (Settling => Settling')
<1> USE DEF DeadLetterWritten, Reply, At, GiveUp, Goto, bus, calls, OInv, Order, Types, Turns,
            Roles, Waits, Cancellations, Task
<1>1. Types'
  BY DEF Place, RunPlaces, CleanPlaces
<1>2. Turns'
  BY DEF RunPlaces
<1>3. Roles'
  BY DEF RunPlaces, CleanPlaces
<1>4. Waits'
  OBVIOUS
<1>5. HeadsFree'
  BY DEF HeadsFree, CleanPlaces
<1>6. ListenersTold'
  BY DEF ListenersTold, AwaitedListener
<1>7. Cancellations'
  OBVIOUS
<1>8. Forgetting'
  BY DEF Forgetting, Stands, CleanPlaces
<1>9. Settling => Settling'
  BY DEF Settling, Forgetting, Stands, CleanPlaces
<1>10. NoCircle'
  BY DEF NoCircle
<1>11. QED  BY <1>1, <1>2, <1>3, <1>4, <1>5, <1>6, <1>7, <1>8, <1>9, <1>10

\* A listener that starts reads, ends or crashes: it stays told to stop.
LEMMA ListenKeeps ==
  ASSUME OInv, NEW t \in Task, Listen(t)
  PROVE  OInv' /\ (Settling => Settling')
<1> USE DEF Listen, At, Suspend, bus, calls, OInv, Order, Types, Turns, Roles, Waits,
            Cancellations, Task
<1>1. Types'
  BY DEF Place, RunPlaces, CleanPlaces
<1>2. Turns'
  BY DEF RunPlaces
<1>3. Roles'
  BY DEF RunPlaces, CleanPlaces
<1>4. Waits'
  OBVIOUS
<1>5. HeadsFree'
  BY DEF HeadsFree, CleanPlaces
<1>6. ListenersTold'
  BY DEF ListenersTold, AwaitedListener
<1>7. Cancellations'
  OBVIOUS
<1>8. Forgetting'
  BY DEF Forgetting, Stands, CleanPlaces
<1>9. Settling => Settling'
  BY DEF Settling, Forgetting, Stands, CleanPlaces
<1>10. NoCircle'
  BY DEF NoCircle
<1>11. QED  BY <1>1, <1>2, <1>3, <1>4, <1>5, <1>6, <1>7, <1>8, <1>9, <1>10

\* A failed read is followed by a cleanup: the listener had not been told to stop.
LEMMA ReadKeeps ==
  ASSUME OInv, NEW t \in Listener, Read(t)
  PROVE  OInv' /\ (Settling => Settling')
<1> USE DEF Read, Reply, At, GiveUp, Goto, bus, calls, OInv, Order, Types, Turns, Roles,
            Waits, Cancellations, Task
<1>1. Types'
  BY DEF Place, RunPlaces, CleanPlaces
<1>2. Turns'
  BY DEF RunPlaces
<1>3. Roles'
  BY DEF RunPlaces, CleanPlaces
<1>4. Waits'
  OBVIOUS
<1>5. HeadsFree'
  BY DEF HeadsFree, CleanPlaces
<1>6. ListenersTold'
  BY DEF ListenersTold, AwaitedListener
<1>7. Cancellations'
  OBVIOUS
<1>8. Forgetting'
  BY DEF Forgetting, Stands, CleanPlaces
<1>9. Settling => Settling'
  BY DEF Settling, Forgetting, Stands, CleanPlaces
<1>10. NoCircle'
  BY DEF NoCircle
<1>11. QED  BY <1>1, <1>2, <1>3, <1>4, <1>5, <1>6, <1>7, <1>8, <1>9, <1>10

\* A publisher that is cancelled in its setup leaves what it stands at.
Leaves(p) == pc[p] \in {"ping", "group"} /\ pc'[p] = "idle"

\* A cancelled task ends where it stands.
LEMMA AbortKeeps ==
  ASSUME OInv, NEW t \in Task, Abort(t)
  PROVE  OInv' /\ (Settling => Settling' \/ \E p \in Publisher : Leaves(p))
<1> USE DEF Abort, At, Suspend, bus, calls, OInv, Order, Types, Turns, Roles, Waits,
            Cancellations, Task
<1>1. Types'
  BY DEF Place, RunPlaces, CleanPlaces
<1>2. Turns'
  BY DEF RunPlaces
<1>3. Roles'
  BY DEF RunPlaces, CleanPlaces
<1>4. Waits'
  OBVIOUS
<1>5. HeadsFree'
  BY DEF HeadsFree, CleanPlaces
<1>6. ListenersTold'
  BY DEF ListenersTold, AwaitedListener
<1>7. Cancellations'
  OBVIOUS
<1>8. Forgetting'
  BY DEF Forgetting, Stands, CleanPlaces
<1>9. ASSUME Settling, t \in Publisher, pc[t] \in {"ping", "group"} PROVE Leaves(t)
  BY <1>9 DEF Leaves
<1>10. ASSUME Settling, ~(t \in Publisher /\ pc[t] \in {"ping", "group"}) PROVE Settling'
  BY <1>10 DEF Settling, Forgetting, Stands, CleanPlaces
<1>11. NoCircle'
  BY DEF NoCircle
<1>12. QED  BY <1>11, <1>1, <1>2, <1>3, <1>4, <1>5, <1>6, <1>7, <1>8, <1>9, <1>10

\* The end of a task.
LEMMA FinishKeeps ==
  ASSUME OInv, NEW t \in Task, Finish(t)
  PROVE  OInv' /\ (Settling => Settling')
<1> USE DEF Finish, bus, calls, OInv, Order, Types, Turns, Roles, Waits, Cancellations,
            Task
<1>1. Types'
  BY DEF Place, RunPlaces, CleanPlaces
<1>2. Turns'
  BY DEF RunPlaces
<1>3. Roles'
  BY DEF RunPlaces, CleanPlaces
<1>4. Waits'
  OBVIOUS
<1>5. HeadsFree'
  BY DEF HeadsFree, CleanPlaces
<1>6. ListenersTold'
  BY DEF ListenersTold, AwaitedListener
<1>7. Cancellations'
  OBVIOUS
<1>8. Forgetting'
  BY DEF Forgetting, Stands, CleanPlaces
<1>9. Settling => Settling'
  BY DEF Settling, Forgetting, Stands, CleanPlaces
<1>10. NoCircle'
  BY DEF NoCircle
<1>11. QED  BY <1>1, <1>2, <1>3, <1>4, <1>5, <1>6, <1>7, <1>8, <1>9, <1>10

\* The awaited listener has ended and is forgotten.
LEMMA ListenerGoneKeeps ==
  ASSUME OInv, NEW t \in Task, ListenerGone(t)
  PROVE  OInv' /\ (Settling => Settling')
<1> USE DEF ListenerGone, Awaited, At, Ended, Goto, bus, calls, OInv, Order, Types, Turns,
            Roles, Waits, Cancellations, Task
<1>1. Types'
  BY DEF Place, RunPlaces, CleanPlaces
<1>2. Turns'
  BY DEF RunPlaces
<1>3. Roles'
  BY DEF RunPlaces, CleanPlaces
<1>4. Waits'
  OBVIOUS
<1>5. HeadsFree'
  BY DEF HeadsFree, CleanPlaces
<1>6. ListenersTold'
  BY DEF ListenersTold, AwaitedListener
<1>7. Cancellations'
  OBVIOUS
<1>8. Forgetting'
  BY DEF Forgetting, Stands, CleanPlaces
<1>9. Settling => Settling'
  BY DEF Settling, Forgetting, Stands, CleanPlaces
<1>10. NoCircle'
  BY DEF NoCircle
<1>11. QED  BY <1>1, <1>2, <1>3, <1>4, <1>5, <1>6, <1>7, <1>8, <1>9, <1>10

\* The awaited bootstrap task has ended and is forgotten.
LEMMA BootstrapGoneKeeps ==
  ASSUME OInv, NEW t \in Task, BootstrapGone(t)
  PROVE  OInv' /\ (Settling => Settling')
<1> USE DEF BootstrapGone, Awaited, At, Ended, Goto, bus, calls, OInv, Order, Types, Turns,
            Roles, Waits, Cancellations, Task
<1>1. Types'
  BY DEF Place, RunPlaces, CleanPlaces
<1>2. Turns'
  BY DEF RunPlaces
<1>3. Roles'
  BY DEF RunPlaces, CleanPlaces
<1>4. Waits'
  OBVIOUS
<1>5. HeadsFree'
  BY DEF HeadsFree, CleanPlaces
<1>6. ListenersTold'
  BY DEF ListenersTold, AwaitedListener
<1>7. Cancellations'
  OBVIOUS
<1>8. Forgetting'
  BY DEF Forgetting, Stands, CleanPlaces
<1>9. Settling => Settling'
  BY DEF Settling, Forgetting, Stands, CleanPlaces
<1>10. NoCircle'
  BY DEF NoCircle
<1>11. QED  BY <1>1, <1>2, <1>3, <1>4, <1>5, <1>6, <1>7, <1>8, <1>9, <1>10

\* A client is closed; without one the cleanup is over and nothing is left of its loop.
LEMMA Clean3Keeps ==
  ASSUME OInv, NEW t \in Task, Clean3(t)
  PROVE  OInv' /\ (Settling => Settling')
<1> USE DEF Clean3, At, Suspend, Goto, bus, calls, OInv, Order, Types, Turns, Roles, Waits,
            Cancellations, Task
<1>1. Types'
  <2>1. pc' \in [Task -> Place]
    BY DEF Place, RunPlaces, CleanPlaces
  <2>2. back' \in [Task -> Place]
    BY DEF Place
  <2>3. turn' \in Task \cup {None}
    OBVIOUS
  <2>4. QED  BY <2>1, <2>2, <2>3
<1>2. Turns'
  BY DEF RunPlaces
<1>3. Roles'
  BY DEF RunPlaces, CleanPlaces
<1>4. Waits'
  OBVIOUS
<1>5. HeadsFree'
  BY DEF HeadsFree, CleanPlaces
<1>6. ListenersTold'
  BY DEF ListenersTold, AwaitedListener
<1>7. Cancellations'
  OBVIOUS
<1>8. Forgetting'
  BY DEF Forgetting, Stands, CleanPlaces
<1>9. Settling => Settling'
  BY DEF Settling, Forgetting, Stands, CleanPlaces
<1>10. NoCircle'
  BY DEF NoCircle
<1>11. QED  BY <1>1, <1>2, <1>3, <1>4, <1>5, <1>6, <1>7, <1>8, <1>9, <1>10

\* After the close nothing is left of the connection.
LEMMA ClosedKeeps ==
  ASSUME OInv, NEW t \in Task, Closed(t)
  PROVE  OInv' /\ (Settling => Settling')
<1> USE DEF Closed, At, Goto, bus, calls, OInv, Order, Types, Turns, Roles, Waits,
            Cancellations, Task
<1>1. Types'
  BY DEF Place, RunPlaces, CleanPlaces
<1>2. Turns'
  BY DEF RunPlaces
<1>3. Roles'
  BY DEF RunPlaces, CleanPlaces
<1>4. Waits'
  OBVIOUS
<1>5. HeadsFree'
  BY DEF HeadsFree, CleanPlaces
<1>6. ListenersTold'
  BY DEF ListenersTold, AwaitedListener
<1>7. Cancellations'
  OBVIOUS
<1>8. Forgetting'
  BY DEF Forgetting, Stands, CleanPlaces
<1>9. Settling => Settling'
  BY DEF Settling, Forgetting, Stands, CleanPlaces
<1>10. NoCircle'
  BY DEF NoCircle
<1>11. QED  BY <1>1, <1>2, <1>3, <1>4, <1>5, <1>6, <1>7, <1>8, <1>9, <1>10

-----------------------------------------------------------------------------
(* A cleanup that cancels a task and awaits its end. *)

\* A call of cancel() on a task that awaits nobody stops there...
LEMMA ChainOfOne ==
  ASSUME NEW u \in Task, waits[u] = None
  PROVE  Chain(u) = {u}
<1>1. \A v \in {u} : waits[v] \in {u} \cup {None}
  OBVIOUS
<1>2. {u} \in SUBSET Task
  OBVIOUS
<1>3. QED  BY <1>1, <1>2 DEF Chain

\* ...and on a task that awaits one which awaits nobody, at the second.
LEMMA ChainOfTwo ==
  ASSUME NEW u \in Task, waits[u] \in Task, waits[waits[u]] = None
  PROVE  Chain(u) = {u, waits[u]}
<1> DEFINE pair == {u, waits[u]}
<1>1. \A v \in pair : waits[v] \in pair \cup {None}
  OBVIOUS
<1>2. pair \in SUBSET Task
  OBVIOUS
<1>3. ASSUME NEW S \in SUBSET Task, u \in S, \A v \in S : waits[v] \in S \cup {None}
      PROVE  pair \subseteq S
  BY <1>3
<1>4. Chain(u) \subseteq pair
  BY <1>1, <1>2 DEF Chain
<1>5. pair \subseteq Chain(u)
  BY <1>2, <1>3 DEF Chain
<1>6. QED  BY <1>4, <1>5

\* Beyond the first, the call reaches tasks that others await.
LEMMA ChainAwaited ==
  ASSUME waits \in [Task -> Task \cup {None}], NEW t \in Task, NEW u \in Chain(t) \ {t}
  PROVE  \E v \in Task : waits[v] = u
<1> SUFFICES ASSUME \A v \in Task : waits[v] # u PROVE FALSE
  OBVIOUS
<1> DEFINE rest == Task \ {u}
<1>1. rest \in SUBSET Task /\ t \in rest /\ \A v \in rest : waits[v] \in rest \cup {None}
  OBVIOUS
<1>2. u \in rest
  BY <1>1 DEF Chain
<1>3. QED  BY <1>2

\* A task that awaits nobody, or awaits one that awaits nobody, is safe to await.
LEMMA NoNewCircle ==
  ASSUME NoCircle, waits \in [Task -> Task \cup {None}],
         NEW t \in Task, NEW u \in Task \ {t}, waits' = [waits EXCEPT ![t] = u],
         waits[u] = None \/ (waits[u] \in Task \ {t} /\ waits[waits[u]] = None)
  PROVE  NoCircle'
<1> SUFFICES ASSUME NEW S \in (SUBSET Task) \ {{}}, \A s \in S : waits'[s] \in S
             PROVE  FALSE
  BY DEF NoCircle
<1>1. PICK s \in S : waits[s] \notin S
  BY DEF NoCircle
<1>2. s = t /\ u \in S
  BY <1>1
<1>3. waits[u] \in S
  BY <1>2
<1>4. waits[u] \in Task \ {t} /\ waits[waits[u]] = None
  BY <1>3
<1>5. None \in S
  BY <1>3, <1>4
<1>6. QED  BY <1>5 DEF Task

\* The listener that a cleanup stops is about to start or reads.
LEMMA StoppedListener ==
  ASSUME OInv, NEW t \in Task, Clean(t), ~Ended(listenTask), listenTask # t
  PROVE  /\ listenTask \in Listener
         /\ pc[listenTask] \in {"new", "read"}
         /\ waits[listenTask] = None
<1> USE DEF OInv, Order, Task
<1>1. listenTask \in Listener /\ pc[listenTask] \notin {"done", "crashed"}
  BY DEF Types, Ended
<1>2. turn = t
  BY DEF Clean, At, Turns, RunPlaces
<1>3. pc[listenTask] \notin RunPlaces
  BY <1>1, <1>2 DEF Turns
<1>4. pc[listenTask] \in {"new", "read"}
  BY <1>1, <1>3 DEF Roles, HeadsFree, RunPlaces, CleanPlaces
<1>5. QED  BY <1>1, <1>4 DEF Waits

\* The first step of a cleanup.
LEMMA CleanKeeps ==
  ASSUME OInv, NEW t \in Task, Clean(t)
  PROVE  OInv' /\ (Settling => Settling')
<1>1. CASE Ended(listenTask) \/ listenTask = t
  <2>1. /\ pc' = [pc EXCEPT ![t] = "clean2"] /\ turn' = t /\ listenTask' = None
        /\ pc[t] = "clean" /\ turn \in {None, t}
        /\ UNCHANGED <<waits, cancelled, client, connected, available, bootTask, back>>
    BY <1>1 DEF Clean, CancelTask, Goto, At
  <2> USE DEF OInv, Order, Types, Turns, Roles, Waits, Cancellations, Task
  <2>2. Types'
    BY <2>1 DEF Place
  <2>3. Turns'
    BY <2>1 DEF RunPlaces
  <2>4. Roles'
    BY <2>1 DEF CleanPlaces
  <2>5. Waits' /\ Cancellations'
    BY <2>1
  <2>6. HeadsFree'
    BY <2>1 DEF HeadsFree
  <2>7. ListenersTold'
    BY <2>1 DEF ListenersTold, AwaitedListener
  <2>8. Forgetting'
    BY <2>1 DEF Forgetting, Stands, CleanPlaces
  <2>9. Settling => Settling'
    BY <2>1 DEF Settling, Forgetting, Stands, CleanPlaces
  <2>10. NoCircle'
    BY <2>1 DEF NoCircle
  <2>11. QED  BY <2>2, <2>3, <2>4, <2>5, <2>6, <2>7, <2>8, <2>9, <2>10
<1>2. CASE ~Ended(listenTask) /\ listenTask # t
  <2> DEFINE l == listenTask
  <2>1. l \in Listener /\ pc[l] \in {"new", "read"} /\ waits[l] = None
    BY <1>2, StoppedListener
  <2>2. Chain(l) = {l}
    BY <2>1, ChainOfOne DEF Task
  <2>3. /\ pc' = [pc EXCEPT ![t] = "awaitListener"] /\ turn' = None
        /\ waits' = [waits EXCEPT ![t] = l]
        /\ cancelled' = [u \in Task |-> IF u \in {l} /\ waits[u] = None
                                        THEN ~Ended(u) ELSE cancelled[u]]
        /\ pc[t] = "clean" /\ turn \in {None, t} /\ l # t
        /\ UNCHANGED <<listenTask, client, connected, available, bootTask, back>>
    BY <1>2, <2>2, NoneIsNoTask DEF Clean, CancelTask, Cancel, Suspend, At
  <2>4. cancelled' = [cancelled EXCEPT ![l] = TRUE]
    BY <2>1, <2>3, <1>2 DEF OInv, Types
  <2> HIDE DEF l
  <2> USE DEF OInv, Order, Types, Turns, Roles, Waits, Cancellations, Task
  <2>5. Types'
    <3>1. pc' \in [Task -> Place] /\ waits' \in [Task -> Task \cup {None}]
      BY <2>1, <2>3 DEF Place
    <3>2. cancelled' \in [Task -> BOOLEAN]
      BY <2>4
    <3>3. QED  BY <2>3, <3>1, <3>2
  <2>6. Turns'
    BY <2>3 DEF RunPlaces
  <2>7. Roles'
    BY <2>3 DEF CleanPlaces
  <2>8. Waits'
    BY <2>1, <2>3
  <2>9. Cancellations'
    BY <2>1, <2>3, <2>4
  <2>10. HeadsFree'
    BY <2>1, <2>3 DEF HeadsFree, CleanPlaces, l
  <2>11. ListenersTold'
    BY <2>1, <2>3, <2>4 DEF ListenersTold, AwaitedListener
  <2>12. Forgetting'
    BY <2>3 DEF Forgetting, Stands, CleanPlaces
  <2>13. Settling => Settling'
    BY <2>3 DEF Settling, Forgetting, Stands, CleanPlaces
  <2>14. NoCircle'
    BY <2>1, <2>3, NoNewCircle
  <2>15. QED  BY <2>5, <2>6, <2>7, <2>8, <2>9, <2>10, <2>11, <2>12, <2>13, <2>14
<1>3. QED  BY <1>1, <1>2

\* The bootstrap task that a cleanup stops is about to start, awaits Redis, or
\* is in a cleanup that awaits a listener told to stop.
LEMMA StoppedBootstrap ==
  ASSUME OInv, NEW t \in Task, Clean2(t), ~Ended(bootTask), bootTask # t
  PROVE  /\ bootTask \in Bootstrap
         /\ \/ /\ pc[bootTask] \in {"new", "ping", "group", "close"}
               /\ waits[bootTask] = None
            \/ /\ waits[bootTask] \in Listener \ {t}
               /\ AwaitedListener(waits[bootTask])
               /\ waits[waits[bootTask]] = None
<1> USE DEF OInv, Order, Task
<1>1. bootTask \in Bootstrap /\ pc[bootTask] \notin {"done", "crashed"}
  BY DEF Types, Ended
<1>2. turn = t /\ pc[t] = "clean2"
  BY DEF Clean2, At, Turns, RunPlaces
<1>3. pc[bootTask] \notin RunPlaces
  BY <1>1, <1>2 DEF Turns
<1>4. pc[bootTask] \in {"new", "ping", "group", "close", "awaitListener"}
  BY <1>1, <1>3 DEF Roles, HeadsFree, RunPlaces, CleanPlaces
<1>5. CASE pc[bootTask] = "awaitListener"
  <2>1. waits[bootTask] \in Listener
    BY <1>1, <1>5 DEF Waits
  <2>2. AwaitedListener(waits[bootTask])
    BY <1>1, <2>1 DEF ListenersTold
  <2>3. waits[waits[bootTask]] = None /\ waits[bootTask] # t
    BY <1>2, <2>1, <2>2 DEF AwaitedListener, Waits
  <2>4. QED  BY <1>1, <2>1, <2>2, <2>3
<1>6. CASE pc[bootTask] # "awaitListener"
  BY <1>1, <1>4, <1>6 DEF Waits
<1>7. QED  BY <1>5, <1>6

\* The second step of a cleanup.
LEMMA Clean2Keeps ==
  ASSUME OInv, NEW t \in Task, Clean2(t)
  PROVE  OInv' /\ (Settling => Settling')
<1>1. CASE Ended(bootTask) \/ bootTask = t
  <2>1. /\ pc' = [pc EXCEPT ![t] = "clean3"] /\ turn' = t /\ bootTask' = None
        /\ pc[t] = "clean2" /\ turn \in {None, t}
        /\ UNCHANGED <<waits, cancelled, client, connected, available, listenTask, back>>
    BY <1>1 DEF Clean2, CancelTask, Goto, At
  <2> USE DEF OInv, Order, Types, Turns, Roles, Waits, Cancellations, Task
  <2>2. Types'
    BY <2>1 DEF Place
  <2>3. Turns'
    BY <2>1 DEF RunPlaces
  <2>4. Roles'
    BY <2>1 DEF CleanPlaces
  <2>5. Waits' /\ Cancellations'
    BY <2>1
  <2>6. HeadsFree'
    BY <2>1 DEF HeadsFree, CleanPlaces
  <2>7. ListenersTold'
    BY <2>1 DEF ListenersTold, AwaitedListener
  <2>8. Forgetting'
    BY <2>1 DEF Forgetting, Stands, CleanPlaces
  <2>9. Settling => Settling'
    BY <2>1 DEF Settling, Forgetting, Stands, CleanPlaces
  <2>10. NoCircle'
    BY <2>1 DEF NoCircle
  <2>11. QED  BY <2>2, <2>3, <2>4, <2>5, <2>6, <2>7, <2>8, <2>9, <2>10
<1>2. CASE ~Ended(bootTask) /\ bootTask # t
  <2> DEFINE b    == bootTask
             last == IF waits[b] = None THEN b ELSE waits[b]
  <2>1. /\ b \in Bootstrap /\ b # t
        /\ \/ pc[b] \in {"new", "ping", "group", "close"} /\ waits[b] = None
           \/ waits[b] \in Listener \ {t} /\ AwaitedListener(waits[b])
              /\ waits[waits[b]] = None
    BY <1>2, StoppedBootstrap
  <2>2. Chain(b) = {b, last} /\ last \in Task /\ waits[last] = None
    BY <2>1, ChainOfOne, ChainOfTwo, NoneIsNoTask DEF Task
  <2>3. /\ pc' = [pc EXCEPT ![t] = "awaitBootstrap"] /\ turn' = None
        /\ waits' = [waits EXCEPT ![t] = b]
        /\ cancelled' = [u \in Task |-> IF u \in Chain(b) /\ waits[u] = None
                                        THEN ~Ended(u) ELSE cancelled[u]]
        /\ pc[t] = "clean2" /\ turn \in {None, t}
        /\ UNCHANGED <<listenTask, client, connected, available, bootTask, back>>
    BY <1>2, NoneIsNoTask DEF Clean2, CancelTask, Cancel, Suspend, At
  <2>4. cancelled' = [cancelled EXCEPT ![last] = ~Ended(last)]
    <3>1. \A u \in Task : u \in Chain(b) /\ waits[u] = None <=> u = last
      BY <2>1, <2>2, NoneIsNoTask DEF Task
    <3>2. cancelled \in [Task -> BOOLEAN]
      BY DEF OInv, Types
    <3> HIDE DEF last
    <3>3. QED  BY <2>2, <2>3, <3>1, <3>2, ZenonT(60)
  <2>5. last = b \/ (last \in Listener /\ waits[b] = last)
    BY <2>1
  <2>6. Ended(last) \/ pc[last] \in {"new", "read", "ping", "group", "close"}
    <3>1. CASE waits[b] = None
      BY <2>1, <3>1, NoneIsNoTask DEF Task
    <3>2. CASE waits[b] # None
      BY <2>1, <3>2 DEF AwaitedListener, Ended
    <3>3. QED  BY <3>1, <3>2
  <2>7. NoCircle'
    BY <2>1, <2>3, NoNewCircle DEF OInv, Types, Task
  <2> HIDE DEF last
  <2> USE DEF OInv, Order, Types, Turns, Roles, Waits, Cancellations, Task
  <2>8. Types'
    <3>1. pc' \in [Task -> Place] /\ waits' \in [Task -> Task \cup {None}]
      BY <2>1, <2>3 DEF Place
    <3>2. cancelled' \in [Task -> BOOLEAN]
      BY <2>4 DEF Ended
    <3>3. QED  BY <2>3, <3>1, <3>2
  <2>9. Turns'
    BY <2>3 DEF RunPlaces
  <2>10. Roles'
    BY <2>3 DEF CleanPlaces
  <2>11. Waits'
    BY <2>1, <2>3
  <2>12. Cancellations'
    BY <2>1, <2>2, <2>3, <2>4, <2>5, <2>6 DEF Ended
  <2>13. HeadsFree'
    BY <2>1, <2>3 DEF HeadsFree, CleanPlaces
  <2>14. ListenersTold'
    BY <2>1, <2>2, <2>3, <2>4 DEF ListenersTold, AwaitedListener, Ended
  <2>15. Forgetting'
    BY <2>3 DEF Forgetting, Stands, CleanPlaces
  <2>16. Settling => Settling'
    BY <2>3 DEF Settling, Forgetting, Stands, CleanPlaces
  <2>17. QED  BY <2>7, <2>8, <2>9, <2>10, <2>11, <2>12, <2>13, <2>14, <2>15, <2>16
<1>3. QED  BY <1>1, <1>2

\* A publisher that is cancelled passes it on to those it awaits.
LEMMA CancelPublisherKeeps ==
  ASSUME OInv, NEW t \in Publisher, CancelPublisher(t)
  PROVE  OInv' /\ (Settling => Settling')
<1>1. /\ turn = None /\ waits \in [Task -> Task \cup {None}]
      /\ pc[t] \in {"ping", "group", "add", "deadLetter", "awaitListener", "awaitBootstrap",
                    "close"}
      /\ UNCHANGED <<bus, turn, pc, back, waits>>
      /\ cancelled' = [u \in Task |-> IF u \in Chain(t) /\ waits[u] = None
                                      THEN ~Ended(u) ELSE cancelled[u]]
  BY DEF CancelPublisher, Cancel, OInv, Types
<1>2. ASSUME NEW u \in Chain(t) PROVE u = t \/ \E v \in Task : waits[v] = u
  BY <1>1, ChainAwaited DEF Task
<1>3. Types'
  <2>1. \A u \in Task : Ended(u) \in BOOLEAN
    BY DEF Ended
  <2>2. cancelled' \in [Task -> BOOLEAN]
    BY <1>1, <2>1 DEF OInv, Types
  <2>3. QED  BY <1>1, <2>2 DEF bus, OInv, Types
<1>4. Turns' /\ Roles' /\ Waits' /\ HeadsFree'
  BY <1>1 DEF bus, OInv, Order, Turns, Roles, Waits, HeadsFree
<1>5. ASSUME NEW v \in Task, waits[v] \in Listener PROVE AwaitedListener(waits[v])'
  <2>1. AwaitedListener(waits[v]) /\ waits[v] \in Task
    BY <1>5 DEF OInv, Order, ListenersTold, Task
  <2>2. CASE pc[waits[v]] \in {"done", "crashed"}
    BY <1>1, <2>2 DEF AwaitedListener
  <2>3. CASE pc[waits[v]] \in {"new", "read"} /\ cancelled[waits[v]]
    BY <1>1, <2>1, <2>3, NoneIsNoTask DEF AwaitedListener, Ended
  <2>4. QED  BY <2>1, <2>2, <2>3 DEF AwaitedListener
<1>6. ListenersTold'
  BY <1>1, <1>5 DEF ListenersTold
<1>7. ASSUME NEW u \in Task, cancelled'[u]
      PROVE  /\ pc[u] \in {"new", "ping", "group", "add", "deadLetter", "read", "close"}
             /\ u \in Publisher \/ \E v \in Task : waits[v] = u
  <2>1. CASE cancelled[u]
    BY <2>1 DEF OInv, Order, Cancellations
  <2>2. CASE ~cancelled[u]
    <3>1. u \in Chain(t) /\ waits[u] = None /\ ~Ended(u)
      BY <1>1, <1>7, <2>2
    <3>2. pc[u] \notin RunPlaces
      BY <1>1, NoneIsNoTask DEF OInv, Order, Turns
    <3>3. pc[u] \notin {"awaitListener", "awaitBootstrap", "done", "crashed"}
      BY <3>1, NoneIsNoTask DEF OInv, Order, Waits, Ended
    <3>4. CASE u = t
      BY <1>1, <3>3, <3>4
    <3>5. CASE \E v \in Task : waits[v] = u
      <4>1. u \in Listener \/ u \in Bootstrap
        BY <3>5, NoneIsNoTask DEF OInv, Order, Waits
      <4>2. pc[u] \in {"new", "ping", "group", "read", "close"}
        BY <3>2, <3>3, <4>1 DEF OInv, Order, Roles, RunPlaces, CleanPlaces
      <4>3. QED  BY <3>5, <4>2
    <3>6. QED  BY <1>2, <3>1, <3>4, <3>5
  <2>3. QED  BY <2>1, <2>2
<1>8. Cancellations'
  BY <1>1, <1>7 DEF Cancellations
<1>9. Forgetting' /\ NoCircle' /\ (Settling => Settling')
  BY <1>1 DEF bus, OInv, Forgetting, Settling, Stands, NoCircle
<1>10. QED  BY <1>3, <1>4, <1>6, <1>8, <1>9 DEF OInv, Order

-----------------------------------------------------------------------------
(* The theorems. *)

\* The orderly part of the invariant is kept by every step, and the rest unless a
\* publisher leaves its setup.
LEMMA ActKeeps ==
  ASSUME OInv, Act
  PROVE  OInv' /\ (Settling => Settling' \/ \E p \in Publisher : Leaves(p))
<1>1. CASE Subscribe
  BY <1>1, SubscribeKeeps
<1>2. CASE \E p \in Publisher : Publish(p) \/ CancelPublisher(p)
  BY <1>2, PublishKeeps, CancelPublisherKeeps
<1>3. CASE \E l \in Listener : Read(l)
  BY <1>3, ReadKeeps
<1>4. ASSUME NEW t \in Task, Run(t)
      PROVE  OInv' /\ (Settling => Settling' \/ \E p \in Publisher : Leaves(p))
  BY <1>4, BeginKeeps, EnsureKeeps, CompatKeeps, CheckKeeps, PingedKeeps, GroupCreatedKeeps,
     ReturningKeeps, WriteKeeps, AddedKeeps, DeadLetterWrittenKeeps, ListenKeeps, AbortKeeps,
     FinishKeeps, CleanKeeps, ListenerGoneKeeps, Clean2Keeps, BootstrapGoneKeeps, Clean3Keeps,
     ClosedKeeps DEF Run
<1>5. QED  BY <1>1, <1>2, <1>3, <1>4 DEF Act

LEMMA BNextInv == BInv /\ [Next]_vars => BInv'
<1> SUFFICES ASSUME BInv, [Next]_vars PROVE BInv'
  OBVIOUS
<1>1. CASE Next
  <2>1. /\ OInv'
        /\ Settling => Settling' \/ \E p \in Publisher : Leaves(p)
    BY <1>1, ActKeeps DEF BInv, Next
  <2>2. abandoned' \in BOOLEAN
    BY <1>1 DEF Next, Observe
  <2>3. ASSUME ~abandoned' PROVE Settling'
    <3>1. CASE ~client'
      BY <2>1, <3>1 DEF OInv, Forgetting, Settling, Stands, CleanPlaces
    <3>2. CASE connected' /\ available' = "yes"
      BY <3>2 DEF Settling
    <3>3. CASE client' /\ ~(connected' /\ available' = "yes")
      <4>1. ~abandoned /\ ~\E p \in Publisher : Leaves(p)
        BY <1>1, <2>3, <3>3 DEF Next, Observe, Leaves
      <4>2. QED  BY <2>1, <4>1 DEF BInv
    <3>4. client' \in BOOLEAN
      BY <2>1 DEF OInv, Types
    <3>5. QED  BY <3>1, <3>2, <3>3, <3>4
  <2>4. QED  BY <2>1, <2>2, <2>3 DEF BInv
<1>2. CASE UNCHANGED vars
  BY <1>2 DEF vars, bus, calls, BInv, OInv, Types, Order, Turns, Roles, Waits, HeadsFree,
              ListenersTold, AwaitedListener, Cancellations, Forgetting, Settling, Stands, NoCircle
<1>3. QED  BY <1>1, <1>2

LEMMA BSpecInv == Spec => []BInv
<1>1. QED  BY BInitInv, BNextInv, PTL DEF Spec

\* Every attribute of the bus and every place of a task is one of those named:
\* _redis_bootstrap_task is never a listener, _redis_listener_task never a
\* bootstrap task (agent/core/event_stream.py).
THEOREM BusTypes == Spec => []TypeOK
<1>1. BInv => TypeOK
  BY DEF BInv, OInv, Types, TypeOK
<1>2. QED  BY <1>1, BSpecInv, PTL

\* When no call of the bus is under way, a client has its loop, and a client
\* is kept only while Redis is available: whatever setups and cleanups have
\* overlapped, the last of them to end has put things right.  A client that a
\* cancelled publisher has left in the middle of its setup is the exception,
\* as nothing in publish() closes it (agent/core/event_stream.py); even then,
\* no listener is left that a later check of the loop would not see.
THEOREM ConnectionSettles == Spec => []ConnectionSettled
<1>1. ASSUME BInv, AtRest PROVE ~Stands(CleanPlaces \cup {"ping", "group"})
  BY <1>1 DEF AtRest, Stands, CleanPlaces
<1>2. ASSUME BInv, AtRest PROVE available = "unknown" => listenTask = None
  BY <1>1, <1>2 DEF BInv, OInv, Forgetting, Stands, CleanPlaces
<1>3. ASSUME BInv, AtRest, ~abandoned
      PROVE  /\ client => connected
             /\ available # "yes" => ~client
             /\ available = "unknown" => ~connected
  BY <1>1, <1>3 DEF BInv, OInv, Types, Settling, Stands, CleanPlaces
<1>4. BInv => ConnectionSettled
  BY <1>2, <1>3 DEF BInv, ConnectionSettled
<1>5. QED  BY <1>4, BSpecInv, PTL

\* However many cleanups cancel and await one another's tasks, no tasks await
\* each other in a circle, and an awaited listener that reads has been told to
\* stop: a cleanup never hangs on a task that it keeps alive itself.
THEOREM CleanupsNeverHang == Spec => []NoEndlessWait
<1>1. ASSUME BInv, NEW t \in Task, waits[t] # None, pc[waits[t]] = "read"
      PROVE  cancelled[waits[t]]
  <2>1. waits[t] \in Listener \/ waits[t] \in Bootstrap
    BY <1>1 DEF BInv, OInv, Order, Waits
  <2>2. waits[t] \in Listener
    BY <1>1, <2>1 DEF BInv, OInv, Order, Roles, CleanPlaces
  <2>3. QED  BY <1>1, <2>2 DEF BInv, OInv, Order, ListenersTold, AwaitedListener
<1>2. BInv => NoEndlessWait
  BY <1>1 DEF BInv, OInv, NoCircle, NoEndlessWait
<1>3. QED  BY <1>2, BSpecInv, PTL

-----------------------------------------------------------------------------
(* EventDelivery: what subscribers hear, and what the listener settles. *)

\* A subscriber of an AgentEventBus that has fanned out f events.
Subscribed(r, f) ==
  /\ r \in [open : BOOLEAN, queue : Seq(1 .. f), last : 0 .. f]
  /\ Len(r.queue) <= QueueMax
  /\ \A i \in DOMAIN r.queue : r.queue[i] = r.last + i
  /\ r.open => r.last + Len(r.queue) = f

SubscribersServed == \A s \in Subscriber : Subscribed(sub[s], fanned)

Entry == [kind : {"event", "echo", "broken"}, fate : {"none", "heard", "ignored", "letter"},
          ack : {"no", "yes", "letter"}]

\* The listener has done what the kind of an entry calls for.
FateIsRight(e) ==
  /\ e.kind = "event" => e.fate = "heard"
  /\ e.kind = "echo" => e.fate = "ignored"
  /\ e.kind = "broken" => e.fate = "letter"

\* The listener settles one entry after the other and has nothing left when it
\* reads again.
BatchInOrder ==
  /\ Len(entries) <= MaxEntries
  /\ place = "reading" => pos = Len(entries) + 1
  /\ place \in {"handling", "letter", "ack", "ackLetter", "lastAck"} => pos <= Len(entries)
  /\ place \in {"reading", "handling", "letter", "ack", "ackLetter"} =>
       \A i \in 1 .. pos - 1 : FateIsRight(entries[i]) /\ entries[i].ack # "no"
  /\ place = "letter" => entries[pos].kind = "broken"
  /\ place \in {"ack", "ackLetter"} => FateIsRight(entries[pos])

ListenerTypes ==
  /\ fanned \in 0 .. MaxEvents
  /\ place \in {"reading", "handling", "letter", "ack", "ackLetter", "lastAck", "done"}
  /\ entries \in Seq(Entry)
  /\ pos \in 1 .. MaxEntries + 1

DelInv ==
  /\ ListenerTypes /\ BatchInOrder
  /\ sub \in [Subscriber -> [open : BOOLEAN, queue : Seq(Nat), last : Nat]]
  /\ SubscribersServed

\* What a subscriber is made of, without the bounds.
LEMMA PlainRecord ==
  ASSUME NEW f \in Nat, NEW r, Subscribed(r, f)
  PROVE  r \in [open : BOOLEAN, queue : Seq(Nat), last : Nat]
<1>1. r \in [open : BOOLEAN, queue : Seq(1 .. f), last : 0 .. f]
  BY DEF Subscribed
<1>2. 1 .. f \subseteq Nat /\ 0 .. f \subseteq Nat
  OBVIOUS
<1>3. QED  BY <1>1, <1>2

\* One more event: a registered subscriber has room for it...
LEMMA HearsNext ==
  ASSUME NEW f \in Nat, NEW r, Subscribed(r, f), r.open, Len(r.queue) < QueueMax
  PROVE  Subscribed([r EXCEPT !.queue = Append(@, f + 1)], f + 1)
<1> DEFINE g == f + 1
           q == Append(r.queue, g)
<1>1. /\ r.queue \in Seq(1 .. g) /\ r.last \in 0 .. g /\ r.last \in Nat /\ g \in 1 .. g
      /\ Len(r.queue) \in Nat /\ r.last + Len(r.queue) = f
  <2>1. r.queue \in Seq(1 .. f) /\ r.last \in 0 .. f /\ r.last + Len(r.queue) = f
    BY DEF Subscribed
  <2>2. 1 .. f \subseteq 1 .. g
    OBVIOUS
  <2>3. QED  BY <2>1, <2>2
<1>2. q \in Seq(1 .. g) /\ Len(q) = Len(r.queue) + 1
  BY <1>1
<1>3. \A i \in DOMAIN q : q[i] = r.last + i
  BY <1>1, <1>2 DEF Subscribed
<1>4. r.last + Len(q) = g
  BY <1>1, <1>2
<1>5. Len(q) <= QueueMax
  BY <1>1, <1>2, DeliveryAssumption
<1> HIDE DEF q, g
<1>6. [r EXCEPT !.queue = q] \in [open : BOOLEAN, queue : Seq(1 .. g), last : 0 .. g]
  BY <1>1, <1>2 DEF Subscribed
<1>7. /\ [r EXCEPT !.queue = q].queue = q /\ [r EXCEPT !.queue = q].last = r.last
      /\ [r EXCEPT !.queue = q].open = r.open
  BY DEF Subscribed
<1>8. Subscribed([r EXCEPT !.queue = q], g)
  BY <1>3, <1>4, <1>5, <1>6, <1>7 DEF Subscribed
<1>9. QED  BY <1>8 DEF q, g

\* ...or is unregistered, as is one that hears nothing any more.
LEMMA HearsNoMore ==
  ASSUME NEW f \in Nat, NEW r, Subscribed(r, f)
  PROVE  /\ Subscribed([r EXCEPT !.open = FALSE], f + 1)
         /\ ~r.open => Subscribed(r, f + 1)
         /\ Subscribed([r EXCEPT !.open = FALSE, !.queue = <<>>], f)
<1>1. 1 .. f \subseteq 1 .. f + 1 /\ 0 .. f \subseteq 0 .. f + 1
  OBVIOUS
<1>2. r.queue \in Seq(1 .. f + 1) /\ r.last \in 0 .. f + 1
  BY <1>1 DEF Subscribed
<1>3. Subscribed([r EXCEPT !.open = FALSE], f + 1)
  BY <1>2 DEF Subscribed
<1>4. ASSUME ~r.open PROVE Subscribed(r, f + 1)
  BY <1>2, <1>4 DEF Subscribed
<1>5. Subscribed([r EXCEPT !.open = FALSE, !.queue = <<>>], f)
  <2> DEFINE none == <<>>
             e    == [r EXCEPT !.open = FALSE, !.queue = none]
  <2>1. none \in Seq(1 .. f) /\ Len(none) = 0 /\ DOMAIN none = {}
    OBVIOUS
  <2>2. QueueMax >= 0
    BY DeliveryAssumption
  <2> HIDE DEF none
  <2>3. r \in [open : BOOLEAN, queue : Seq(1 .. f), last : 0 .. f]
    BY DEF Subscribed
  <2>4. e \in [open : BOOLEAN, queue : Seq(1 .. f), last : 0 .. f] /\ e.queue = none /\ ~e.open
    BY <2>1, <2>3
  <2> HIDE DEF e
  <2>5. Subscribed(e, f)
    BY <2>1, <2>2, <2>4 DEF Subscribed
  <2>6. QED  BY <2>5 DEF e, none
<1>6. QED  BY <1>3, <1>4, <1>5

\* The status pump takes the oldest event.
LEMMA TakesNext ==
  ASSUME NEW f \in Nat, NEW r, Subscribed(r, f), r.queue # <<>>
  PROVE  Subscribed([r EXCEPT !.queue = Tail(@), !.last = Head(r.queue)], f)
<1> DEFINE q == Tail(r.queue)
           m == Head(r.queue)
<1>1. r.queue \in Seq(1 .. f) /\ Len(r.queue) \in Nat \ {0} /\ r.last \in 0 .. f
  BY DEF Subscribed
<1>2. q \in Seq(1 .. f) /\ Len(q) = Len(r.queue) - 1 /\ m \in 1 .. f /\ m = r.last + 1
  BY <1>1 DEF Subscribed
<1>3. ASSUME NEW i \in DOMAIN q PROVE q[i] = m + i
  <2>1. q[i] = r.queue[i + 1] /\ i + 1 \in DOMAIN r.queue
    BY <1>1, <1>2, SMTT(30)
  <2>2. i \in Nat /\ r.queue[i + 1] = r.last + (i + 1)
    BY <1>1, <1>2, <2>1 DEF Subscribed
  <2> HIDE DEF q, m
  <2>3. m = r.last + 1 /\ r.last \in Nat
    BY <1>1, <1>2
  <2>4. QED  BY <2>1, <2>2, <2>3
<1>4. (r.open => m + Len(q) = f) /\ Len(q) <= QueueMax
  BY <1>1, <1>2, DeliveryAssumption DEF Subscribed
<1> HIDE DEF q, m
<1> DEFINE e == [r EXCEPT !.queue = q, !.last = m]
<1>5. r \in [open : BOOLEAN, queue : Seq(1 .. f), last : 0 .. f] /\ m \in 0 .. f
  BY <1>2 DEF Subscribed
<1>6. /\ e \in [open : BOOLEAN, queue : Seq(1 .. f), last : 0 .. f]
      /\ e.queue = q /\ e.last = m /\ e.open = r.open
  BY <1>2, <1>5
<1> HIDE DEF e
<1>7. Subscribed(e, f)
  BY <1>3, <1>4, <1>6 DEF Subscribed
<1>8. QED  BY <1>7 DEF q, m, e

-----------------------------------------------------------------------------
\* An event is fanned out.
LEMMA FanoutServes ==
  ASSUME DelInv, Fanout
  PROVE  /\ fanned' \in 0 .. MaxEvents
         /\ sub' \in [Subscriber -> [open : BOOLEAN, queue : Seq(Nat), last : Nat]]
         /\ SubscribersServed'
<1>1. fanned \in Nat /\ fanned' = fanned + 1 /\ fanned' \in 0 .. MaxEvents
  BY DeliveryAssumption DEF DelInv, ListenerTypes, Fanout
<1>2. ASSUME NEW s \in Subscriber
      PROVE  Subscribed(sub'[s], fanned')
  <2>1. Subscribed(sub[s], fanned)
    BY DEF DelInv, SubscribersServed
  <2>2. CASE ~sub[s].open
    <3>1. sub'[s] = sub[s]
      BY <2>2 DEF Fanout
    <3>2. QED  BY <1>1, <2>1, <2>2, <3>1, HearsNoMore
  <2>3. CASE sub[s].open /\ Len(sub[s].queue) < QueueMax
    <3>1. sub'[s] = [sub[s] EXCEPT !.queue = Append(@, fanned + 1)]
      BY <2>3 DEF Fanout
    <3>2. QED  BY <1>1, <2>1, <2>3, <3>1, HearsNext
  <2>4. CASE sub[s].open /\ ~(Len(sub[s].queue) < QueueMax)
    <3>1. sub'[s] = [sub[s] EXCEPT !.open = FALSE]
      BY <2>4 DEF Fanout
    <3>2. QED  BY <1>1, <2>1, <3>1, HearsNoMore
  <2>5. QED  BY <2>2, <2>3, <2>4
<1>3. \A s \in Subscriber : sub'[s] \in [open : BOOLEAN, queue : Seq(Nat), last : Nat]
  BY <1>1, <1>2, PlainRecord
<1>4. DOMAIN sub' = Subscriber /\ sub' = [s \in Subscriber |-> sub'[s]]
  BY DEF Fanout
<1>5. QED  BY <1>1, <1>2, <1>3, <1>4 DEF SubscribersServed

\* The steps of subscribers.
LEMMA SubscribersKeep ==
  ASSUME DelInv,
         NEW s \in Subscriber, SubscribeReply(s) \/ TakeEvent(s) \/ UnsubscribeReply(s)
  PROVE  DelInv'
<1>1. Subscribed(sub[s], fanned) /\ fanned \in Nat
  BY DeliveryAssumption DEF DelInv, SubscribersServed, ListenerTypes
<1>2. UNCHANGED <<fanned, place, entries, pos>>
  BY DEF SubscribeReply, TakeEvent, UnsubscribeReply
<1>3. \E r : sub' = [sub EXCEPT ![s] = r] /\ Subscribed(r, fanned)
  <2>1. CASE SubscribeReply(s)
    <3>1. <<>> \in Seq(1 .. fanned) /\ Len(<<>>) = 0 /\ DOMAIN <<>> = {}
      OBVIOUS
    <3>2. fanned \in 0 .. fanned
      BY <1>1
    <3> DEFINE r == [open |-> TRUE, queue |-> <<>>, last |-> fanned]
    <3>3. Subscribed(r, fanned)
      BY <1>1, <3>1, <3>2, DeliveryAssumption DEF Subscribed
    <3>4. sub' = [sub EXCEPT ![s] = r]
      BY <2>1 DEF SubscribeReply
    <3>5. QED  BY <3>3, <3>4
  <2>2. CASE TakeEvent(s)
    <3> DEFINE r == [sub[s] EXCEPT !.queue = Tail(@), !.last = Head(sub[s].queue)]
    <3>1. Subscribed(r, fanned)
      BY <1>1, <2>2, TakesNext DEF TakeEvent
    <3>2. sub' = [sub EXCEPT ![s] = r]
      BY <2>2 DEF TakeEvent
    <3>3. QED  BY <3>1, <3>2
  <2>3. CASE UnsubscribeReply(s)
    <3> DEFINE r == [sub[s] EXCEPT !.open = FALSE, !.queue = <<>>]
    <3>1. Subscribed(r, fanned)
      BY <1>1, HearsNoMore
    <3>2. sub' = [sub EXCEPT ![s] = r]
      BY <2>3 DEF UnsubscribeReply
    <3>3. QED  BY <3>1, <3>2
  <2>4. QED  BY <2>1, <2>2, <2>3
<1>4. PICK r : sub' = [sub EXCEPT ![s] = r] /\ Subscribed(r, fanned)
  BY <1>3
<1>5. r \in [open : BOOLEAN, queue : Seq(Nat), last : Nat]
  BY <1>1, <1>4, PlainRecord
<1>6. sub' \in [Subscriber -> [open : BOOLEAN, queue : Seq(Nat), last : Nat]]
  BY <1>4, <1>5 DEF DelInv
<1>7. SubscribersServed'
  BY <1>2, <1>4 DEF DelInv, SubscribersServed
<1>8. (ListenerTypes /\ BatchInOrder)'
  BY <1>2 DEF DelInv, ListenerTypes, BatchInOrder, FateIsRight
<1>9. QED  BY <1>6, <1>7, <1>8 DEF DelInv

-----------------------------------------------------------------------------
\* One entry changes.
LEMMA EntryChanges ==
  ASSUME entries \in Seq(Entry), NEW i \in 1 .. Len(entries), NEW e \in Entry,
         entries' = [entries EXCEPT ![i] = e]
  PROVE  /\ entries' \in Seq(Entry) /\ Len(entries') = Len(entries)
         /\ entries'[i] = e
         /\ \A j \in 1 .. Len(entries) : j # i => entries'[j] = entries[j]
OBVIOUS

\* New entries come after those that are settled.
LEMMA ReadEntriesKeeps ==
  ASSUME DelInv, ReadEntries
  PROVE  ListenerTypes' /\ BatchInOrder'
<1>0. PICK n \in 1 .. ReadMax : \E kinds \in [1 .. n -> {"event", "echo", "broken"}] :
         /\ Len(entries) + n <= MaxEntries
         /\ entries' = entries \o [i \in 1 .. n |->
                                    [kind |-> kinds[i], fate |-> "none", ack |-> "no"]]
  BY DEF ReadEntries
<1>1. PICK kinds \in [1 .. n -> {"event", "echo", "broken"}] :
         /\ Len(entries) + n <= MaxEntries
         /\ entries' = entries \o [i \in 1 .. n |->
                                    [kind |-> kinds[i], fate |-> "none", ack |-> "no"]]
  BY <1>0
<1> DEFINE new == [i \in 1 .. n |-> [kind |-> kinds[i], fate |-> "none", ack |-> "no"]]
<1>2. n \in Nat \ {0} /\ Len(entries) \in Nat /\ pos = Len(entries) + 1
  BY DeliveryAssumption DEF DelInv, ListenerTypes, BatchInOrder, ReadEntries
<1>3. new \in Seq(Entry) /\ Len(new) = n
  BY <1>2 DEF Entry
<1>4. entries \in Seq(Entry) /\ entries' = entries \o new
  BY <1>1 DEF DelInv, ListenerTypes
<1> HIDE DEF new
<1>5. /\ entries' \in Seq(Entry) /\ Len(entries') = Len(entries) + n
      /\ \A i \in 1 .. Len(entries) : entries'[i] = entries[i]
  <2>1. entries' \in Seq(Entry)
    BY <1>3, <1>4
  <2>2. Len(entries') = Len(entries) + n
    BY <1>3, <1>4, ConcatProperties
  <2>3. \A i \in 1 .. Len(entries) : entries'[i] = entries[i]
    BY <1>2, <1>3, <1>4
  <2>4. QED  BY <2>1, <2>2, <2>3
<1>6. place' = "handling" /\ UNCHANGED <<fanned, pos>> /\ place = "reading"
  BY DEF ReadEntries
<1>7. ListenerTypes'
  BY <1>5, <1>6 DEF DelInv, ListenerTypes
<1>8. \A i \in 1 .. pos' - 1 : FateIsRight(entries'[i]) /\ entries'[i].ack # "no"
  BY <1>2, <1>5, <1>6 DEF DelInv, BatchInOrder
<1>9. BatchInOrder'
  BY <1>1, <1>2, <1>5, <1>6, <1>8 DEF BatchInOrder
<1>10. QED  BY <1>7, <1>9

\* The fate or the acknowledgement of the entry at hand.
LEMMA EntryFated ==
  ASSUME DelInv, pos <= Len(entries),
         NEW fate \in {"none", "heard", "ignored", "letter"}, Fate(fate)
  PROVE  /\ entries' \in Seq(Entry) /\ Len(entries') = Len(entries)
         /\ entries'[pos].kind = entries[pos].kind /\ entries'[pos].fate = fate
         /\ \A j \in 1 .. pos - 1 : entries'[j] = entries[j]
<1> DEFINE e == [entries[pos] EXCEPT !.fate = fate]
<1>1. entries \in Seq(Entry) /\ pos \in 1 .. Len(entries)
  BY DEF DelInv, ListenerTypes
<1>2. entries[pos] \in Entry
  BY <1>1
<1>3. e \in Entry /\ e.kind = entries[pos].kind /\ e.fate = fate
  BY <1>2 DEF Entry
<1>4. entries' = [entries EXCEPT ![pos] = e]
  BY DEF Fate
<1> HIDE DEF e
<1>5. QED  BY <1>1, <1>3, <1>4, EntryChanges

LEMMA EntryAcked ==
  ASSUME DelInv, pos <= Len(entries), NEW ack \in {"no", "yes", "letter"}, Ack(ack)
  PROVE  /\ entries' \in Seq(Entry) /\ Len(entries') = Len(entries)
         /\ entries'[pos].ack = ack /\ FateIsRight(entries'[pos]) = FateIsRight(entries[pos])
         /\ \A j \in 1 .. pos - 1 : entries'[j] = entries[j]
<1> DEFINE e == [entries[pos] EXCEPT !.ack = ack]
<1>1. entries \in Seq(Entry) /\ pos \in 1 .. Len(entries)
  BY DEF DelInv, ListenerTypes
<1>2. entries[pos] \in Entry
  BY <1>1
<1>3. e \in Entry /\ e.kind = entries[pos].kind /\ e.fate = entries[pos].fate /\ e.ack = ack
  BY <1>2 DEF Entry
<1>4. entries' = [entries EXCEPT ![pos] = e]
  BY DEF Ack
<1> HIDE DEF e
<1>5. QED  BY <1>1, <1>3, <1>4, EntryChanges DEF FateIsRight

\* An entry is parsed.
LEMMA HandleKeeps ==
  ASSUME DelInv, Handle
  PROVE  DelInv'
<1>1. pos <= Len(entries) /\ place = "handling" /\ pos' = pos
  BY DEF Handle
<1>2. entries \in Seq(Entry) /\ pos \in 1 .. Len(entries) /\ entries[pos] \in Entry
  BY <1>1 DEF DelInv, ListenerTypes
<1>3. CASE entries[pos].kind \in {"event", "echo"} /\ place' = "ack"
  <2> DEFINE fate == IF entries[pos].kind = "event" THEN "heard" ELSE "ignored"
  <2>1. Fate(fate) /\ fate \in {"none", "heard", "ignored", "letter"}
    BY <1>3 DEF Handle
  <2>2. /\ entries' \in Seq(Entry) /\ Len(entries') = Len(entries)
        /\ entries'[pos].kind = entries[pos].kind /\ entries'[pos].fate = fate
        /\ \A j \in 1 .. pos - 1 : entries'[j] = entries[j]
    BY <1>1, <2>1, EntryFated
  <2>3. FateIsRight(entries'[pos])
    BY <1>3, <2>2 DEF FateIsRight
  <2>4. Fanout \/ UNCHANGED <<fanned, sub>>
    BY <1>3 DEF Handle
  <2>5. /\ fanned' \in 0 .. MaxEvents /\ SubscribersServed'
        /\ sub' \in [Subscriber -> [open : BOOLEAN, queue : Seq(Nat), last : Nat]]
    BY <2>4, FanoutServes DEF DelInv, ListenerTypes, SubscribersServed
  <2>6. ListenerTypes'
    BY <1>1, <1>3, <2>2, <2>5 DEF DelInv, ListenerTypes
  <2>7. \A j \in 1 .. pos' - 1 : FateIsRight(entries'[j]) /\ entries'[j].ack # "no"
    BY <1>1, <1>2, <2>2 DEF DelInv, BatchInOrder
  <2>8. BatchInOrder'
    BY <1>1, <1>3, <2>2, <2>3, <2>7 DEF DelInv, BatchInOrder
  <2>9. QED  BY <2>5, <2>6, <2>8 DEF DelInv
<1>4. CASE entries[pos].kind = "broken" /\ place' = "letter"
  <2>1. UNCHANGED <<fanned, sub, entries, pos>>
    BY <1>4 DEF Handle
  <2>2. (ListenerTypes /\ BatchInOrder)'
    BY <1>1, <1>4, <2>1 DEF DelInv, ListenerTypes, BatchInOrder, FateIsRight
  <2>3. QED  BY <2>1, <2>2 DEF DelInv, SubscribersServed
<1>5. QED  BY <1>3, <1>4 DEF Handle

\* A dead letter is written, perhaps the last thing the listener does but one.
LEMMA LetterKeeps ==
  ASSUME DelInv, place = "letter", UNCHANGED <<fanned, sub, pos>>,
         NEW fate \in {"none", "letter"}, Fate(fate),
         place' = "lastAck" \/ (place' = "ack" /\ fate = "letter")
  PROVE  DelInv'
<1>1. pos <= Len(entries) /\ entries[pos].kind = "broken"
  BY DEF DelInv, BatchInOrder
<1>2. /\ entries' \in Seq(Entry) /\ Len(entries') = Len(entries)
      /\ entries'[pos].kind = entries[pos].kind /\ entries'[pos].fate = fate
      /\ \A j \in 1 .. pos - 1 : entries'[j] = entries[j]
  BY <1>1, EntryFated
<1>3. ListenerTypes'
  BY <1>2 DEF DelInv, ListenerTypes
<1>4. BatchInOrder'
  BY <1>1, <1>2 DEF DelInv, ListenerTypes, BatchInOrder, FateIsRight
<1>5. QED  BY <1>3, <1>4 DEF DelInv, SubscribersServed

\* An acknowledgement, or the dead letter of a failed one, settles the entry.
LEMMA AdvanceKeeps ==
  ASSUME DelInv, place \in {"ack", "ackLetter"}, UNCHANGED <<fanned, sub>>,
         NEW ack \in {"yes", "letter"}, Advance(ack)
  PROVE  DelInv'
<1>1. pos <= Len(entries) /\ FateIsRight(entries[pos]) /\ pos' = pos + 1 /\ pos \in Nat \ {0}
  BY DEF DelInv, BatchInOrder, ListenerTypes, Advance
<1>2. /\ entries' \in Seq(Entry) /\ Len(entries') = Len(entries)
      /\ entries'[pos].ack = ack /\ FateIsRight(entries'[pos]) = FateIsRight(entries[pos])
      /\ \A j \in 1 .. pos - 1 : entries'[j] = entries[j]
  BY <1>1, EntryAcked DEF Advance
<1>3. Len(entries) \in Nat /\ Len(entries) <= MaxEntries
  BY DEF DelInv, BatchInOrder, ListenerTypes
<1>4. place' = IF pos < Len(entries) THEN "handling" ELSE "reading"
  BY DEF Advance
<1>5. ListenerTypes'
  BY <1>1, <1>2, <1>3, <1>4, DeliveryAssumption DEF DelInv, ListenerTypes
<1>6. \A j \in 1 .. pos' - 1 : FateIsRight(entries'[j]) /\ entries'[j].ack # "no"
  <2>1. \A j \in 1 .. pos - 1 : FateIsRight(entries[j]) /\ entries[j].ack # "no"
    BY DEF DelInv, BatchInOrder
  <2>2. FateIsRight(entries'[pos]) /\ entries'[pos].ack # "no"
    BY <1>1, <1>2
  <2>3. \A j \in 1 .. pos' - 1 : j = pos \/ j \in 1 .. pos - 1
    BY <1>1
  <2>4. QED  BY <1>2, <2>1, <2>2, <2>3
<1>7. BatchInOrder'
  BY <1>1, <1>2, <1>3, <1>4, <1>6 DEF BatchInOrder
<1>8. QED  BY <1>5, <1>7 DEF DelInv, SubscribersServed

LEMMA DelNextInv == DelInv /\ [DNext]_dvars => DelInv'
<1> SUFFICES ASSUME DelInv, [DNext]_dvars PROVE DelInv'
  OBVIOUS
<1>1. ASSUME NEW s \in Subscriber, SubscribeReply(s) \/ TakeEvent(s) \/ UnsubscribeReply(s)
      PROVE  DelInv'
  BY <1>1, SubscribersKeep
<1>2. CASE PublishHere
  <2>1. /\ fanned' \in 0 .. MaxEvents /\ SubscribersServed'
        /\ sub' \in [Subscriber -> [open : BOOLEAN, queue : Seq(Nat), last : Nat]]
    BY <1>2, FanoutServes DEF PublishHere
  <2>2. (ListenerTypes /\ BatchInOrder)'
    BY <1>2, <2>1 DEF PublishHere, DelInv, ListenerTypes, BatchInOrder, FateIsRight
  <2>3. QED  BY <2>1, <2>2 DEF DelInv
<1>3. CASE ReadEntries
  <2>1. UNCHANGED <<fanned, sub>>
    BY <1>3 DEF ReadEntries
  <2>2. QED  BY <1>3, <2>1, ReadEntriesKeeps DEF DelInv, SubscribersServed
<1>4. CASE Handle
  BY <1>4, HandleKeeps
<1>5. CASE LetterWritten
  BY <1>5, LetterKeeps DEF LetterWritten
<1>6. CASE Acked \/ AckLetterWritten
  BY <1>6, AdvanceKeeps DEF Acked, AckLetterWritten
<1>7. CASE AckFails \/ ReadFails
  BY <1>7 DEF AckFails, ReadFails, DelInv, ListenerTypes, BatchInOrder, FateIsRight,
              SubscribersServed
<1>8. CASE CancelListener
  <2>1. CASE place = "letter"
    BY <1>8, <2>1, LetterKeeps DEF CancelListener
  <2>2. CASE place # "letter"
    BY <1>8, <2>2 DEF CancelListener, DelInv, ListenerTypes, BatchInOrder, SubscribersServed
  <2>3. QED  BY <2>1, <2>2
<1>9. CASE LastAck
  <2>1. pos <= Len(entries) /\ place' = "done" /\ UNCHANGED <<fanned, sub, pos>>
    BY <1>9 DEF LastAck, DelInv, BatchInOrder
  <2>2. entries' \in Seq(Entry) /\ Len(entries') = Len(entries)
    BY <1>9, <2>1, EntryAcked DEF LastAck
  <2>3. QED  BY <2>1, <2>2 DEF DelInv, ListenerTypes, BatchInOrder, SubscribersServed
<1>10. CASE UNCHANGED dvars
  BY <1>10 DEF dvars, DelInv, ListenerTypes, BatchInOrder, FateIsRight, SubscribersServed
<1>11. QED
  BY <1>1, <1>2, <1>3, <1>4, <1>5, <1>6, <1>7, <1>8, <1>9, <1>10 DEF DNext

LEMMA DelSpecInv == DeliverySpec => []DelInv
<1>1. DInit => DelInv
  <2> SUFFICES ASSUME DInit PROVE DelInv
    OBVIOUS
  <2>1. entries \in Seq(Entry) /\ Len(entries) = 0 /\ pos = 1 /\ place = "reading" /\ fanned = 0
    BY DEF DInit
  <2>2. ListenerTypes /\ BatchInOrder
    BY <2>1, DeliveryAssumption DEF ListenerTypes, BatchInOrder
  <2> DEFINE r == [open |-> FALSE, queue |-> <<>>, last |-> 0]
  <2>3. <<>> \in Seq(1 .. 0) /\ Len(<<>>) = 0 /\ DOMAIN <<>> = {} /\ 0 \in 0 .. 0
    OBVIOUS
  <2>4. Subscribed(r, 0)
    BY <2>3, DeliveryAssumption DEF Subscribed
  <2>5. r \in [open : BOOLEAN, queue : Seq(Nat), last : Nat]
    BY <2>4, PlainRecord
  <2>6. sub = [s \in Subscriber |-> r]
    BY DEF DInit
  <2> HIDE DEF r
  <2>7. QED  BY <2>1, <2>2, <2>4, <2>5, <2>6 DEF DelInv, SubscribersServed
<1>2. QED  BY <1>1, DelNextInv, PTL DEF DeliverySpec

\* The type invariant: no queue outgrows its size.
THEOREM DeliveryTypes == DeliverySpec => []DTypeOK
<1>1. ASSUME DelInv PROVE DTypeOK
  <2>1. \A s \in Subscriber : Subscribed(sub[s], fanned)
    BY <1>1 DEF DelInv, SubscribersServed
  <2>2. \A s \in Subscriber :
          sub[s] \in [open : BOOLEAN, queue : Seq(1 .. fanned), last : 0 .. fanned]
    BY <2>1 DEF Subscribed
  <2>3. sub = [s \in Subscriber |-> sub[s]]
    BY <1>1 DEF DelInv
  <2>4. sub \in [Subscriber -> [open : BOOLEAN, queue : Seq(1 .. fanned), last : 0 .. fanned]]
    BY <2>2, <2>3
  <2>5. \A s \in Subscriber : Len(sub[s].queue) <= QueueMax
    BY <2>1 DEF Subscribed
  <2>6. QED  BY <1>1, <2>4, <2>5 DEF DTypeOK, DelInv, ListenerTypes, Entry
<1>2. QED  BY <1>1, DelSpecInv, PTL

\* What a subscriber hears has no gap: it is unsubscribed before it could miss
\* an event between two others (_fanout_local).
THEOREM HeardWithoutGap == DeliverySpec => []NoGap
<1>1. DelInv => NoGap
  BY DEF DelInv, SubscribersServed, Subscribed, NoGap
<1>2. QED  BY <1>1, DelSpecInv, PTL

\* A listener that reads again has dealt with all it has read before: events
\* fanned out, broken payloads set aside, everything acknowledged or set aside
\* as unacknowledged (_redis_listener_loop).
THEOREM SettledBeforeReading == DeliverySpec => []ReadIsSettled
<1>1. ASSUME DelInv, place = "reading", NEW i \in DOMAIN entries
      PROVE  FateIsRight(entries[i]) /\ entries[i].ack # "no"
  <2>1. pos = Len(entries) + 1 /\ DOMAIN entries = 1 .. Len(entries) /\ Len(entries) \in Nat
    BY <1>1 DEF DelInv, BatchInOrder, ListenerTypes
  <2>2. i \in 1 .. pos - 1
    BY <1>1, <2>1
  <2>3. QED  BY <1>1, <2>2 DEF DelInv, BatchInOrder
<1>2. DelInv => ReadIsSettled
  BY <1>1 DEF ReadIsSettled, FateIsRight
<1>3. QED  BY <1>2, DelSpecInv, PTL

-----------------------------------------------------------------------------
(* ModelCalls: the inductive invariant. *)

ChatType == [at : {"idle", "lookup", "starting", "waiting", "asking", "pausing", "storing", "streaming"},
             route : {"local", "cloud"}, stream : BOOLEAN, try : 0 .. MaxRetries, fallen : BOOLEAN]

\* A call of route r at a place: does it hold a slot, wait for one, cost?
Holding(r) == r.route = "local" /\ r.at \in {"asking", "pausing", "streaming"}
Paying(r)  == r.route = "cloud" /\ r.at \notin {"idle", "storing"}

Holders == {c \in Asker : Holding(chat[c])}
Waiters == {c \in Asker : chat[c].at = "waiting"}
Payers  == {c \in Asker : Paying(chat[c])}

\* The semaphore g, of which holders have a slot and for which waiters wait:
\* every slot is free, promised or held.
Counted(g, holders, waiters) ==
  /\ g \in [free : Nat, queue : Seq(Asker), woken : SUBSET Asker]
  /\ Distinct(g.queue) /\ Items(g.queue) = waiters /\ g.woken \subseteq waiters
  /\ g.free + Cardinality(g.woken) + Cardinality(holders) = Slots

\* Nobody waits beside a free slot, unless another one has been woken for it.
NobodyBeside(g) == g.free > 0 /\ g.queue # <<>> => g.woken # {}

CallTypes ==
  /\ own \in {"local", "cloud"} /\ patience \in BOOLEAN
  /\ chat \in [Asker -> ChatType]
  /\ \A c \in Asker : chat[c].at \in {"starting", "waiting"} => chat[c].route = "local"
  /\ spent \in Nat /\ fallbacks \in 0 .. MaxFallbacks

CallInv ==
  /\ CallTypes
  /\ Counted(gpu, Holders, Waiters) /\ NobodyBeside(gpu)
  /\ spent + Cardinality(Payers) < DailyBudget + Cardinality(Asker) + fallbacks

-----------------------------------------------------------------------------
(* The semaphore. *)

Semaphore == [free : Nat, queue : Seq(Asker), woken : SUBSET Asker]

LEMMA Finite ==
  ASSUME NEW S \in SUBSET Asker
  PROVE  /\ IsFiniteSet(S) /\ Cardinality(S) \in Nat /\ Cardinality(S) <= Cardinality(Asker)
         /\ \A c \in Asker : /\ c \in S => Cardinality(S \ {c}) = Cardinality(S) - 1 /\ S \cup {c} = S
                             /\ c \notin S => Cardinality(S \cup {c}) = Cardinality(S) + 1 /\ S \ {c} = S
<1>1. IsFiniteSet(Asker)
  BY ModelAssumption
<1>2. IsFiniteSet(S) /\ Cardinality(S) <= Cardinality(Asker)
  BY <1>1, FS_Subset
<1>3. QED  BY <1>2, FS_CardinalityType, FS_AddElement, FS_RemoveElement

LEMMA WakeFirstKeeps ==
  ASSUME NEW g, NEW h \in SUBSET Asker, NEW w \in SUBSET Asker, Counted(g, h, w)
  PROVE  Counted(WakeFirst(g), h, w) /\ NobodyBeside(WakeFirst(g))
<1> DEFINE waiting == {i \in DOMAIN g.queue : g.queue[i] \notin g.woken}
<1>1. /\ g \in Semaphore /\ g.free \in Nat /\ g.queue \in Seq(Asker) /\ g.woken \in SUBSET Asker
      /\ Distinct(g.queue) /\ Items(g.queue) = w /\ g.woken \subseteq w
      /\ g.free + Cardinality(g.woken) + Cardinality(h) = Slots
  BY DEF Counted, Semaphore
<1>2. CASE g.free = 0 \/ waiting = {}
  <2>1. WakeFirst(g) = g
    BY <1>2 DEF WakeFirst
  <2>2. g.free > 0 /\ g.queue # <<>> => g.woken # {}
    <3> SUFFICES ASSUME g.free > 0, g.queue # <<>>
                 PROVE  g.woken # {}
      OBVIOUS
    <3>1. 1 \in DOMAIN g.queue /\ waiting = {}
      BY <1>1, <1>2
    <3>2. g.queue[1] \in g.woken
      BY <3>1
    <3>3. QED  BY <3>2
  <2>3. QED  BY <2>1, <2>2 DEF NobodyBeside
<1>3. CASE ~(g.free = 0 \/ waiting = {})
  <2> DEFINE n == CHOOSE i \in waiting : \A j \in waiting : i <= j
             first == g.queue[n]
             next == [g EXCEPT !.free = @ - 1, !.woken = @ \cup {first}]
  <2>1. WakeFirst(g) = next
    BY <1>3 DEF WakeFirst
  <2>2. waiting \subseteq Nat /\ waiting # {}
    BY <1>1, <1>3
  <2>3. \E i \in waiting : \A j \in waiting : i <= j
    <3> HIDE DEF waiting
    <3>1. QED  BY <2>2, LeastNumber
  <2>4. n \in waiting
    BY <2>3
  <2>5. first \in Items(g.queue) /\ first \notin g.woken /\ first \in Asker
    <3> HIDE DEF n
    <3>1. QED  BY <1>1, <2>4 DEF Items
  <2> HIDE DEF first
  <2>6. next.free = g.free - 1 /\ next.queue = g.queue /\ next.woken = g.woken \cup {first}
        /\ next \in Semaphore
    <3> DEFINE f == g.free - 1
               v == g.woken \cup {first}
    <3>1. f \in Nat /\ v \in SUBSET Asker
      BY <1>1, <1>3, <2>5
    <3>2. next = [g EXCEPT !.free = f, !.woken = v]
      OBVIOUS
    <3> HIDE DEF f, v, next
    <3>3. next \in Semaphore /\ next.free = f /\ next.queue = g.queue /\ next.woken = v
      BY <1>1, <3>1, <3>2 DEF Semaphore
    <3>4. QED  BY <3>3 DEF f, v
  <2> HIDE DEF next
  <2>7. Cardinality(next.woken) = Cardinality(g.woken) + 1 /\ Cardinality(g.woken) \in Nat /\ Cardinality(h) \in Nat
    BY <1>1, <2>5, <2>6, Finite
  <2>8. next.free + Cardinality(next.woken) + Cardinality(h) = Slots
    BY <1>1, <2>6, <2>7
  <2>9. next.woken \subseteq w
    BY <1>1, <2>5, <2>6
  <2>10. next.woken # {}
    BY <2>6
  <2>11. QED  BY <1>1, <2>1, <2>6, <2>8, <2>9, <2>10 DEF Counted, Semaphore, NobodyBeside
<1>4. QED  BY <1>2, <1>3

\* c leaves the queue; its slot, if it had been woken with one, is at hand.
LEMMA WithoutKeeps ==
  ASSUME NEW g, NEW h \in SUBSET Asker, NEW w \in SUBSET Asker, Counted(g, h, w), NEW c \in Asker
  PROVE  /\ Without(g, c) \in Semaphore /\ Without(g, c).free = g.free
         /\ Without(g, c).woken = g.woken \ {c}
         /\ Without(g, c).queue # <<>> => g.queue # <<>>
         /\ Distinct(Without(g, c).queue) /\ Items(Without(g, c).queue) = Items(g.queue) \ {c}
<1>1. /\ g \in Semaphore /\ g.queue \in Seq(Asker) /\ g.woken \in SUBSET Asker
      /\ Distinct(g.queue) /\ Items(g.queue) = w
  BY DEF Counted, Semaphore
<1> DEFINE q == Leave(g.queue, c)
<1>2. q \in Seq(Asker) /\ Distinct(q) /\ Items(q) = Items(g.queue) \ {c}
  <2>1. CASE c \in Items(g.queue)
    BY <1>1, <2>1, LeaveKeeps
  <2>2. CASE c \notin Items(g.queue)
    BY <1>1, <2>2, LeaveNobody
  <2>3. QED  BY <2>1, <2>2
<1>3. q # <<>> => g.queue # <<>>
  <2> SUFFICES ASSUME g.queue = <<>>
               PROVE  q = <<>>
    OBVIOUS
  <2>1. c \notin Items(g.queue)
    BY DEF Items
  <2>2. QED  BY <1>1, <2>1, LeaveNobody
<1>4. Without(g, c) = [g EXCEPT !.queue = q, !.woken = g.woken \ {c}]
  BY DEF Without
<1> HIDE DEF q
<1>5. QED  BY <1>1, <1>2, <1>3, <1>4 DEF Semaphore

\* Whoever waits or holds no more leaves its slot to the others.
LEMMA LeftKeeps ==
  ASSUME CallInv, NEW c \in Asker
  PROVE  Counted(Left(c), Holders \ {c}, Waiters \ {c}) /\ NobodyBeside(Left(c))
<1>1. /\ gpu \in Semaphore /\ gpu.free \in Nat /\ gpu.queue \in Seq(Asker) /\ gpu.woken \in SUBSET Asker
      /\ Counted(gpu, Holders, Waiters) /\ NobodyBeside(gpu) /\ gpu.woken \subseteq Waiters
      /\ gpu.free + Cardinality(gpu.woken) + Cardinality(Holders) = Slots
      /\ Distinct(gpu.queue) /\ Items(gpu.queue) = Waiters
  BY DEF CallInv, Counted, Semaphore
<1>2. Holders \in SUBSET Asker /\ Waiters \in SUBSET Asker /\ (Holds(c) <=> c \in Holders)
      /\ Holders \cap Waiters = {}
  BY DEF Holders, Waiters, Holds, Holding
<1>3. /\ Cardinality(gpu.woken) \in Nat /\ Cardinality(Holders) \in Nat
      /\ c \in Holders => Cardinality(Holders \ {c}) = Cardinality(Holders) - 1
      /\ c \notin Holders => Holders \ {c} = Holders
      /\ c \in gpu.woken => Cardinality(gpu.woken \ {c}) = Cardinality(gpu.woken) - 1
      /\ c \notin gpu.woken => gpu.woken \ {c} = gpu.woken
  BY <1>1, <1>2, Finite
<1>4. CASE Holds(c)
  <2> DEFINE g == [gpu EXCEPT !.free = gpu.free + 1]
  <2>1. g \in Semaphore /\ g.free = gpu.free + 1 /\ g.queue = gpu.queue /\ g.woken = gpu.woken
    BY <1>1 DEF Semaphore
  <2>2. Left(c) = WakeFirst(g)
    BY <1>4 DEF Left, Release
  <2> HIDE DEF g
  <2>3. Waiters \ {c} = Waiters
    BY <1>2, <1>4
  <2>4. g.free + Cardinality(g.woken) + Cardinality(Holders \ {c}) = Slots
    BY <1>1, <1>2, <1>3, <1>4, <2>1
  <2>5. Counted(g, Holders \ {c}, Waiters \ {c})
    BY <1>1, <2>1, <2>3, <2>4 DEF Counted, Semaphore
  <2>6. QED  BY <1>2, <2>2, <2>5, WakeFirstKeeps
<1>5. CASE ~Holds(c)
  <2> PICK out : out = Without(gpu, c)
    OBVIOUS
  <2>1. /\ out \in Semaphore /\ out.free = gpu.free /\ out.woken = gpu.woken \ {c}
        /\ out.queue # <<>> => gpu.queue # <<>>
        /\ Distinct(out.queue) /\ Items(out.queue) = Waiters \ {c}
    <3>1. Counted(gpu, Holders, Waiters) /\ Holders \in SUBSET Asker /\ Waiters \in SUBSET Asker
      BY <1>1, <1>2
    <3>2. /\ out \in Semaphore /\ out.free = gpu.free /\ out.woken = gpu.woken \ {c}
          /\ out.queue # <<>> => gpu.queue # <<>>
          /\ Distinct(out.queue) /\ Items(out.queue) = Items(gpu.queue) \ {c}
      BY <3>1, WithoutKeeps
    <3>3. QED  BY <1>1, <3>2
  <2> DEFINE g == [out EXCEPT !.free = out.free + 1]
  <2>2. Holders \ {c} = Holders
    BY <1>2, <1>3, <1>5
  <2>3. CASE c \in gpu.woken
    <3>1. Left(c) = WakeFirst(g)
      BY <1>5, <2>3 DEF Left, Release
    <3>2. g \in Semaphore /\ g.free = out.free + 1 /\ g.queue = out.queue /\ g.woken = out.woken
      BY <2>1 DEF Semaphore
    <3> HIDE DEF g
    <3>3. g.free + Cardinality(g.woken) + Cardinality(Holders) = Slots
      <4>1. Cardinality(g.woken) = Cardinality(gpu.woken) - 1
        BY <1>3, <2>1, <2>3, <3>2, Zenon
      <4>2. QED  BY <1>1, <1>3, <2>1, <3>2, <4>1
    <3>4. g.woken \subseteq Waiters \ {c}
      BY <1>1, <2>1, <3>2
    <3>5. Counted(g, Holders \ {c}, Waiters \ {c})
      BY <2>1, <2>2, <3>2, <3>3, <3>4 DEF Counted, Semaphore
    <3>6. QED  BY <1>2, <3>1, <3>5, WakeFirstKeeps
  <2>4. CASE c \notin gpu.woken
    <3>1. Left(c) = out
      BY <1>5, <2>4 DEF Left
    <3> HIDE DEF g
    <3>2. out.free + Cardinality(out.woken) + Cardinality(Holders) = Slots
      BY <1>1, <1>3, <2>1, <2>4
    <3>3. out.woken \subseteq Waiters \ {c}
      BY <1>1, <2>1, <2>4
    <3>4. NobodyBeside(out)
      BY <1>1, <1>3, <2>1, <2>4 DEF NobodyBeside
    <3>5. QED  BY <2>1, <2>2, <3>1, <3>2, <3>3, <3>4 DEF Counted, Semaphore
  <2>5. QED  BY <2>3, <2>4
<1>6. QED  BY <1>4, <1>5

-----------------------------------------------------------------------------
(* A call moves on. *)

With(S, c, b) == IF b THEN S \cup {c} ELSE S \ {c}

\* Slots and queue without c, and what they become when its call becomes r.
Room(c, g) == Counted(g, Holders \ {c}, Waiters \ {c}) /\ NobodyBeside(g)
Settles(c, r, g) ==
  /\ r \in ChatType /\ (r.at \in {"starting", "waiting"} => r.route = "local")
  /\ Counted(g, With(Holders, c, Holding(r)), With(Waiters, c, r.at = "waiting"))
  /\ NobodyBeside(g)
Outcome(c, route) == \E r, g : Becomes(c, r, g) /\ Settles(c, r, g) /\ r.route = route

\* What the call of c may cost as it becomes r.
Charged(c, r) ==
  \/ (Paying(r) => Paying(chat[c])) /\ UNCHANGED <<spent, fallbacks>>
  \/ spent < DailyBudget /\ UNCHANGED <<spent, fallbacks>>
  \/ Paying(chat[c]) /\ ~Paying(r) /\ spent' = spent + 1 /\ UNCHANGED fallbacks
  \/ fallbacks < MaxFallbacks /\ fallbacks' = fallbacks + 1 /\ UNCHANGED spent

LEMMA WithCounts ==
  ASSUME NEW S \in SUBSET Asker, NEW c \in Asker, NEW b \in BOOLEAN
  PROVE  /\ With(S, c, b) \in SUBSET Asker
         /\ b => Cardinality(With(S, c, b)) = Cardinality(S \ {c}) + 1
         /\ ~b => With(S, c, b) = S \ {c}
<1>1. CASE b
  <2>1. With(S, c, b) = (S \ {c}) \cup {c} /\ S \ {c} \in SUBSET Asker /\ c \notin S \ {c}
    BY <1>1 DEF With
  <2>2. Cardinality((S \ {c}) \cup {c}) = Cardinality(S \ {c}) + 1
    BY <2>1, Finite
  <2>3. QED  BY <1>1, <2>1, <2>2
<1>2. CASE ~b
  BY <1>2 DEF With
<1>3. QED  BY <1>1, <1>2

LEMMA CostKept ==
  ASSUME CallInv, NEW c \in Asker, NEW r \in ChatType, Charged(c, r)
  PROVE  /\ spent' \in Nat /\ fallbacks' \in 0 .. MaxFallbacks
         /\ spent' + Cardinality(With(Payers, c, Paying(r))) < DailyBudget + Cardinality(Asker) + fallbacks'
<1> DEFINE payers == With(Payers, c, Paying(r))
<1>1. /\ spent \in Nat /\ fallbacks \in 0 .. MaxFallbacks /\ MaxFallbacks \in Nat
      /\ DailyBudget \in Nat /\ DailyBudget > 0
      /\ spent + Cardinality(Payers) < DailyBudget + Cardinality(Asker) + fallbacks
  BY ModelAssumption DEF CallInv, CallTypes
<1>2. Payers \in SUBSET Asker /\ (c \in Payers <=> Paying(chat[c])) /\ Paying(r) \in BOOLEAN
  BY DEF Payers, Paying
<1>3. payers \in SUBSET Asker /\ Payers \ {c} \in SUBSET Asker /\ Asker \in SUBSET Asker
      /\ (~Paying(r) => payers = Payers \ {c})
      /\ (Paying(r) => Cardinality(payers) = Cardinality(Payers \ {c}) + 1)
  BY <1>2, WithCounts
<1> HIDE DEF payers
<1>4. /\ Cardinality(payers) \in Nat /\ Cardinality(Payers) \in Nat /\ Cardinality(Payers \ {c}) \in Nat
      /\ Cardinality(Asker) \in Nat /\ Cardinality(payers) <= Cardinality(Asker)
  BY <1>2, <1>3, Finite
<1>5. /\ c \in Payers => Cardinality(Payers \ {c}) = Cardinality(Payers) - 1
      /\ c \notin Payers => Cardinality(Payers \ {c}) = Cardinality(Payers)
  <2>1. CASE c \in Payers
    BY <1>2, <2>1, Finite
  <2>2. CASE c \notin Payers
    BY <1>2, <2>2, Finite
  <2>3. QED  BY <2>1, <2>2
<1>6. /\ Cardinality(payers) <= Cardinality(Payers) + 1
      /\ (Paying(r) => Paying(chat[c])) => Cardinality(payers) <= Cardinality(Payers)
      /\ Paying(chat[c]) /\ ~Paying(r) => Cardinality(payers) = Cardinality(Payers) - 1
  <2>1. CASE Paying(r)
    BY <1>2, <1>3, <1>4, <1>5, <2>1
  <2>2. CASE ~Paying(r)
    <3>1. Cardinality(payers) = Cardinality(Payers \ {c})
      BY <1>3, <2>2, Zenon
    <3>2. QED  BY <1>2, <1>4, <1>5, <2>2, <3>1
  <2>3. QED  BY <2>1, <2>2
<1> DEFINE n == Cardinality(payers)
           m == Cardinality(Payers)
           a == Cardinality(Asker)
<1>7. n \in Nat /\ m \in Nat /\ a \in Nat /\ n <= a /\ n <= m + 1
      /\ spent + m < DailyBudget + a + fallbacks
  BY <1>1, <1>4, <1>6
<1>8. CASE (Paying(r) => Paying(chat[c])) /\ UNCHANGED <<spent, fallbacks>>
  <2>1. n <= m
    BY <1>6, <1>8
  <2> HIDE DEF n, m, a
  <2>2. spent' + n < DailyBudget + a + fallbacks'
    BY <1>1, <1>7, <1>8, <2>1
  <2>3. QED  BY <1>1, <1>8, <2>2 DEF n, a, payers
<1>9. CASE spent < DailyBudget /\ UNCHANGED <<spent, fallbacks>>
  <2> HIDE DEF n, m, a
  <2>1. spent' + n < DailyBudget + a + fallbacks'
    BY <1>1, <1>7, <1>9
  <2>2. QED  BY <1>1, <1>9, <2>1 DEF n, a, payers
<1>10. CASE Paying(chat[c]) /\ ~Paying(r) /\ spent' = spent + 1 /\ UNCHANGED fallbacks
  <2>1. n = m - 1
    BY <1>6, <1>10
  <2> HIDE DEF n, m, a
  <2>2. spent' + n < DailyBudget + a + fallbacks' /\ spent' \in Nat
    BY <1>1, <1>7, <1>10, <2>1
  <2>3. QED  BY <1>1, <1>10, <2>2 DEF n, a, payers
<1>11. CASE fallbacks < MaxFallbacks /\ fallbacks' = fallbacks + 1 /\ UNCHANGED spent
  <2> HIDE DEF n, m, a
  <2>1. spent' + n < DailyBudget + a + fallbacks' /\ fallbacks' \in 0 .. MaxFallbacks
    BY <1>1, <1>7, <1>11
  <2>2. QED  BY <1>1, <1>11, <2>1 DEF n, a, payers
<1>12. QED  BY <1>8, <1>9, <1>10, <1>11 DEF Charged

\* Whatever settles and is charged for keeps the invariant.
LEMMA CallMoves ==
  ASSUME CallInv, NEW c \in Asker, NEW r, NEW g, Becomes(c, r, g), Settles(c, r, g), Charged(c, r),
         UNCHANGED config
  PROVE  CallInv'
<1>1. r \in ChatType /\ (r.at \in {"starting", "waiting"} => r.route = "local")
      /\ Counted(g, With(Holders, c, Holding(r)), With(Waiters, c, r.at = "waiting")) /\ NobodyBeside(g)
  BY DEF Settles
<1>2. chat \in [Asker -> ChatType] /\ chat' = [chat EXCEPT ![c] = r] /\ gpu' = g
      /\ own \in {"local", "cloud"} /\ patience \in BOOLEAN /\ own' = own /\ patience' = patience
      /\ \A d \in Asker : chat[d].at \in {"starting", "waiting"} => chat[d].route = "local"
  BY DEF CallInv, CallTypes, Becomes, config
<1>3. chat'[c] = r /\ chat' \in [Asker -> ChatType] /\ \A d \in Asker \ {c} : chat'[d] = chat[d]
  BY <1>1, <1>2
<1>4. Holders' = With(Holders, c, Holding(r))
  <2>1. \A d \in Asker : d \in Holders' <=> IF d = c THEN Holding(r) ELSE d \in Holders
    BY <1>3 DEF Holders, Holding
  <2>2. QED  BY <2>1 DEF With, Holders
<1>5. Waiters' = With(Waiters, c, r.at = "waiting")
  <2>1. \A d \in Asker : d \in Waiters' <=> IF d = c THEN r.at = "waiting" ELSE d \in Waiters
    BY <1>3 DEF Waiters
  <2>2. QED  BY <2>1 DEF With, Waiters
<1>6. Payers' = With(Payers, c, Paying(r))
  <2>1. \A d \in Asker : d \in Payers' <=> IF d = c THEN Paying(r) ELSE d \in Payers
    BY <1>3 DEF Payers, Paying
  <2>2. QED  BY <2>1 DEF With, Payers
<1>7. /\ spent' \in Nat /\ fallbacks' \in 0 .. MaxFallbacks
      /\ spent' + Cardinality(With(Payers, c, Paying(r))) < DailyBudget + Cardinality(Asker) + fallbacks'
  BY <1>1, CostKept
<1>8. CallTypes'
  BY <1>1, <1>2, <1>3, <1>7 DEF CallTypes
<1>9. Counted(gpu', Holders', Waiters') /\ NobodyBeside(gpu')
  BY <1>1, <1>2, <1>4, <1>5
<1>10. spent' + Cardinality(Payers') < DailyBudget + Cardinality(Asker) + fallbacks'
  BY <1>6, <1>7
<1>11. (Counted(gpu, Holders, Waiters) /\ NobodyBeside(gpu))'
  BY <1>9 DEF Counted, NobodyBeside
<1>12. QED  BY <1>8, <1>10, <1>11 DEF CallInv

LEMMA RoomSettles ==
  ASSUME NEW c \in Asker, NEW g, Room(c, g), NEW r \in ChatType, ~Holding(r),
         r.at \notin {"starting", "waiting"} \/ (r.at = "starting" /\ r.route = "local")
  PROVE  Settles(c, r, g)
<1>1. With(Holders, c, Holding(r)) = Holders \ {c} /\ With(Waiters, c, r.at = "waiting") = Waiters \ {c}
  BY DEF With
<1>2. QED  BY <1>1 DEF Settles, Room

LEMMA Acquires ==
  ASSUME NEW c \in Asker, NEW g, Room(c, g), NEW r \in ChatType, r.route = "local", Acquire(c, r, g)
  PROVE  Outcome(c, "local")
<1>1. /\ g \in Semaphore /\ g.free \in Nat /\ g.queue \in Seq(Asker) /\ g.woken \in SUBSET Asker
      /\ Distinct(g.queue) /\ Items(g.queue) = Waiters \ {c} /\ g.woken \subseteq Waiters \ {c}
      /\ g.free + Cardinality(g.woken) + Cardinality(Holders \ {c}) = Slots /\ NobodyBeside(g)
  BY DEF Room, Counted, Semaphore
<1>2. Holders \in SUBSET Asker /\ Waiters \in SUBSET Asker
  BY DEF Holders, Waiters
<1>3. Cardinality(g.woken) \in Nat /\ Cardinality(Holders \ {c}) \in Nat
  BY <1>1, <1>2, Finite
<1>4. CASE IsFree(g)
  <2> DEFINE s == Served(r)
             f == g.free - 1
             next == [g EXCEPT !.free = f]
  <2>1. s \in ChatType /\ s.route = "local" /\ s.at \in {"asking", "streaming"}
    BY DEF Served, ChatType
  <2>2. f \in Nat /\ g.free > 0 /\ g.queue = <<>>
    BY <1>1, <1>4 DEF IsFree
  <2>3. Becomes(c, s, next)
    BY <1>4 DEF Acquire
  <2> HIDE DEF f
  <2>4. next \in Semaphore /\ next.free = f /\ next.queue = g.queue /\ next.woken = g.woken
    BY <1>1, <2>2 DEF Semaphore
  <2> HIDE DEF s, next
  <2>5. Holding(s) /\ s.at # "waiting"
    BY <2>1 DEF Holding
  <2>6. With(Waiters, c, s.at = "waiting") = Waiters \ {c}
    BY <2>5 DEF With
  <2>7. Cardinality(With(Holders, c, Holding(s))) = Cardinality(Holders \ {c}) + 1
    BY <1>2, <2>5, WithCounts
  <2>8. next.free + Cardinality(next.woken) + Cardinality(With(Holders, c, Holding(s))) = Slots
    <3>1. Cardinality(next.woken) = Cardinality(g.woken)
      BY <2>4, Zenon
    <3>2. next.free = g.free - 1
      BY <2>4 DEF f
    <3>3. QED  BY <1>1, <1>3, <2>2, <2>7, <3>1, <3>2
  <2>9. NobodyBeside(next)
    BY <2>2, <2>4 DEF NobodyBeside
  <2>10. Settles(c, s, next)
    BY <1>1, <2>1, <2>4, <2>6, <2>8, <2>9 DEF Settles, Counted, Semaphore
  <2>11. QED  BY <2>1, <2>3, <2>10 DEF Outcome
<1>5. CASE ~IsFree(g)
  <2> DEFINE s == [r EXCEPT !.at = "waiting"]
             q == Append(g.queue, c)
             next == [g EXCEPT !.queue = q]
  <2>1. s \in ChatType /\ s.route = "local" /\ s.at = "waiting"
    BY DEF ChatType
  <2>2. Becomes(c, s, next)
    BY <1>5 DEF Acquire
  <2>3. c \notin Items(g.queue)
    BY <1>1
  <2>4. q \in Seq(Asker) /\ Distinct(q) /\ Items(q) = (Waiters \ {c}) \cup {c}
    BY <1>1, <2>3, AppendKeeps
  <2> HIDE DEF q
  <2>5. next \in Semaphore /\ next.free = g.free /\ next.queue = q /\ next.woken = g.woken
    BY <1>1, <2>4 DEF Semaphore
  <2> HIDE DEF s, next
  <2>6. ~Holding(s)
    BY <2>1 DEF Holding
  <2>7. With(Holders, c, Holding(s)) = Holders \ {c} /\ With(Waiters, c, s.at = "waiting") = (Waiters \ {c}) \cup {c}
    BY <2>1, <2>6 DEF With
  <2>8. NobodyBeside(next)
    BY <1>1, <1>5, <2>5 DEF NobodyBeside, IsFree
  <2>9. Settles(c, s, next)
    BY <1>1, <2>1, <2>4, <2>5, <2>7, <2>8 DEF Settles, Counted, Semaphore
  <2>10. QED  BY <2>1, <2>2, <2>9 DEF Outcome
<1>6. QED  BY <1>4, <1>5

LEMMA Provides ==
  ASSUME NEW c \in Asker, NEW g, Room(c, g), NEW r \in ChatType, Provide(c, r, g)
  PROVE  Outcome(c, r.route)
<1>1. r.route \in {"local", "cloud"}
  BY DEF ChatType
<1>2. CASE r.route = "cloud"
  <2> DEFINE s == Served(r)
  <2>1. s \in ChatType /\ s.route = "cloud" /\ s.at \in {"asking", "streaming"}
    BY <1>2 DEF Served, ChatType
  <2>2. Becomes(c, s, g)
    BY <1>2 DEF Provide
  <2> HIDE DEF s
  <2>3. Settles(c, s, g)
    BY <2>1, RoomSettles DEF Holding
  <2>4. QED  BY <1>2, <2>1, <2>2, <2>3 DEF Outcome
<1>3. CASE r.route = "local" /\ patience
  <2> DEFINE s == [r EXCEPT !.at = "starting"]
  <2>1. s \in ChatType /\ s.route = "local" /\ s.at = "starting"
    BY <1>3 DEF ChatType
  <2>2. Becomes(c, s, g)
    BY <1>3 DEF Provide
  <2> HIDE DEF s
  <2>3. Settles(c, s, g)
    BY <2>1, RoomSettles DEF Holding
  <2>4. QED  BY <1>3, <2>1, <2>2, <2>3 DEF Outcome
<1>4. CASE r.route = "local" /\ ~patience
  <2>1. Acquire(c, r, g)
    BY <1>4 DEF Provide
  <2>2. QED  BY <1>4, <2>1, Acquires
<1>5. QED  BY <1>1, <1>2, <1>3, <1>4

LEMMA Chats ==
  ASSUME NEW c \in Asker, NEW g, Room(c, g), NEW r \in ChatType, Chat(c, r, g)
  PROVE  Outcome(c, r.route)
<1>1. CASE r.stream
  <2>1. Provide(c, r, g)
    BY <1>1 DEF Chat
  <2>2. QED  BY <2>1, Provides
<1>2. CASE ~r.stream
  <2> DEFINE s == [r EXCEPT !.at = "lookup"]
  <2>1. s \in ChatType /\ s.route = r.route /\ s.at = "lookup"
    BY DEF ChatType
  <2>2. Becomes(c, s, g)
    BY <1>2 DEF Chat
  <2> HIDE DEF s
  <2>3. Settles(c, s, g)
    BY <2>1, RoomSettles DEF Holding
  <2>4. QED  BY <2>1, <2>2, <2>3 DEF Outcome
<1>3. QED  BY <1>1, <1>2 DEF ChatType

LEMMA OutcomeMoves ==
  ASSUME CallInv, NEW c \in Asker, NEW route, Outcome(c, route),
         \A r \in ChatType : r.route = route => Charged(c, r), UNCHANGED config
  PROVE  CallInv'
<1>1. PICK r, g : Becomes(c, r, g) /\ Settles(c, r, g) /\ r.route = route
  BY DEF Outcome
<1>2. r \in ChatType
  BY <1>1 DEF Settles
<1>3. Charged(c, r)
  BY <1>1, <1>2
<1>4. QED  BY <1>1, <1>3, CallMoves

LEMMA Chatting ==
  ASSUME CallInv, NEW c \in Asker
  PROVE  /\ chat[c] \in ChatType /\ NoChat \in ChatType /\ Holders \in SUBSET Asker /\ Waiters \in SUBSET Asker
         /\ (c \in Holders <=> Holds(c)) /\ (c \in Holders <=> Holding(chat[c]))
         /\ (c \in Waiters <=> chat[c].at = "waiting")
         /\ Room(c, Left(c)) /\ (~Holds(c) /\ chat[c].at # "waiting" => Room(c, gpu))
<1>1. chat[c] \in ChatType /\ NoChat \in ChatType
  BY ModelAssumption DEF CallInv, CallTypes, NoChat, ChatType
<1>2. /\ Holders \in SUBSET Asker /\ Waiters \in SUBSET Asker
      /\ (c \in Holders <=> Holds(c)) /\ (c \in Holders <=> Holding(chat[c]))
      /\ (c \in Waiters <=> chat[c].at = "waiting")
  BY DEF Holders, Waiters, Holds, Holding
<1>3. Room(c, Left(c))
  BY LeftKeeps DEF Room
<1>4. ASSUME ~Holds(c), chat[c].at # "waiting"
      PROVE  Room(c, gpu)
  <2>1. Holders \ {c} = Holders /\ Waiters \ {c} = Waiters
    BY <1>2, <1>4
  <2>2. QED  BY <2>1 DEF Room, CallInv
<1>5. QED  BY <1>1, <1>2, <1>3, <1>4

\* The call of c is over, without a charge of its own.
LEMMA OverMoves ==
  ASSUME CallInv, NEW c \in Asker, NEW r \in ChatType, r.at \in {"idle", "storing"}, NEW g, Room(c, g),
         Becomes(c, r, g), UNCHANGED config, UNCHANGED fallbacks,
         spent' = spent \/ (Paying(chat[c]) /\ spent' = spent + 1)
  PROVE  CallInv'
<1>1. ~Holding(r) /\ ~Paying(r)
  BY DEF Holding, Paying
<1>2. Settles(c, r, g)
  BY <1>1, RoomSettles
<1>3. Charged(c, r)
  BY <1>1 DEF Charged
<1>4. QED  BY <1>2, <1>3, CallMoves

LEMMA FailsOut ==
  ASSUME CallInv, NEW c \in Asker, NEW g, Room(c, g), Fails(c, g), UNCHANGED <<config, spent>>
  PROVE  CallInv'
<1>1. chat[c] \in ChatType /\ NoChat \in ChatType /\ own \in {"local", "cloud"}
      /\ fallbacks \in 0 .. MaxFallbacks /\ MaxFallbacks \in Nat /\ MaxRetries \in Nat
  BY Chatting, ModelAssumption DEF CallInv, CallTypes
<1>2. CASE chat[c].route = own
  <2>1. Becomes(c, NoChat, g) /\ UNCHANGED fallbacks
    BY <1>2 DEF Fails
  <2>2. NoChat.at = "idle"
    BY DEF NoChat
  <2>3. QED  BY <1>1, <2>1, <2>2, OverMoves
<1>3. CASE chat[c].route # own
  <2> DEFINE r == [chat[c] EXCEPT !.route = own, !.try = 0, !.fallen = TRUE]
  <2>1. r \in ChatType /\ r.route = own
    <3>1. 0 \in 0 .. MaxRetries
      BY <1>1
    <3>2. QED  BY <1>1, <3>1 DEF ChatType
  <2>2. Chat(c, r, g) /\ (own = "cloud" => fallbacks < MaxFallbacks)
        /\ fallbacks' = IF own = "cloud" THEN fallbacks + 1 ELSE fallbacks
    BY <1>3 DEF Fails
  <2> HIDE DEF r
  <2>3. Outcome(c, own)
    BY <2>1, <2>2, Chats
  <2>4. ASSUME NEW s \in ChatType, s.route = own
        PROVE  Charged(c, s)
    <3>1. CASE own = "cloud"
      BY <2>2, <3>1 DEF Charged
    <3>2. CASE own # "cloud"
      BY <2>2, <2>4, <3>2 DEF Charged, Paying
    <3>3. QED  BY <3>1, <3>2
  <2>5. QED  BY <2>3, <2>4, OutcomeMoves
<1>4. QED  BY <1>2, <1>3

-----------------------------------------------------------------------------
(* One lemma per action. *)

LEMMA AskMoves ==
  ASSUME CallInv, NEW c \in Asker, NEW stream \in BOOLEAN, Ask(c, stream)
  PROVE  CallInv'
<1>1. PICK route \in Select : Chat(c, [NoChat EXCEPT !.route = route, !.stream = stream], gpu)
  BY DEF Ask
<1> DEFINE r == [NoChat EXCEPT !.route = route, !.stream = stream]
<1>2. route \in {"local", "cloud"} /\ (route = "cloud" => ~(spent >= DailyBudget))
  BY DEF Select
<1>3. r \in ChatType /\ r.route = route
  <2>1. 0 \in 0 .. MaxRetries
    BY ModelAssumption
  <2>2. QED  BY <1>2, <2>1 DEF NoChat, ChatType
<1>4. Room(c, gpu)
  BY Chatting DEF Ask, Holds
<1>5. Chat(c, r, gpu)
  BY <1>1
<1> HIDE DEF r
<1>6. Outcome(c, route)
  BY <1>3, <1>4, <1>5, Chats
<1>7. spent \in Nat /\ DailyBudget \in Nat
  BY ModelAssumption DEF CallInv, CallTypes
<1>8. ASSUME NEW s \in ChatType, s.route = route
      PROVE  Charged(c, s)
  <2>1. CASE route = "cloud"
    <3>1. spent < DailyBudget
      BY <1>2, <1>7, <2>1
    <3>2. QED  BY <3>1 DEF Charged, Ask
  <2>2. CASE route = "local"
    BY <1>8, <2>2 DEF Charged, Paying, Ask
  <2>3. QED  BY <1>2, <2>1, <2>2
<1>9. QED  BY <1>6, <1>8, OutcomeMoves DEF Ask

\* A call that stays on its route where it has been charged for.
LEMMA SameRoute ==
  ASSUME NEW c \in Asker, chat[c].at \notin {"idle", "storing"}, UNCHANGED <<spent, fallbacks>>,
         NEW r \in ChatType, r.route = chat[c].route
  PROVE  Charged(c, r)
BY DEF Charged, Paying

LEMMA LookupMoves ==
  ASSUME CallInv, NEW c \in Asker, Lookup(c)
  PROVE  CallInv'
<1>1. Room(c, gpu) /\ chat[c] \in ChatType /\ NoChat \in ChatType
  BY Chatting DEF Lookup, Holds
<1>2. CASE Becomes(c, NoChat, gpu)
  <2>1. NoChat.at = "idle"
    BY DEF NoChat
  <2>2. QED  BY <1>1, <1>2, <2>1, OverMoves DEF Lookup
<1>3. CASE Provide(c, chat[c], gpu)
  <2>1. Outcome(c, chat[c].route)
    BY <1>1, <1>3, Provides
  <2>2. \A r \in ChatType : r.route = chat[c].route => Charged(c, r)
    BY SameRoute DEF Lookup
  <2>3. QED  BY <2>1, <2>2, OutcomeMoves DEF Lookup
<1>4. QED  BY <1>2, <1>3 DEF Lookup

LEMMA PollMoves ==
  ASSUME CallInv, NEW c \in Asker, Poll(c)
  PROVE  CallInv'
<1>1. Room(c, gpu) /\ chat[c] \in ChatType
  BY Chatting DEF Poll, Holds
<1>2. chat[c].route = "local"
  BY DEF CallInv, CallTypes, Poll
<1>3. Outcome(c, "local")
  BY <1>1, <1>2, Acquires DEF Poll
<1>4. \A r \in ChatType : r.route = "local" => Charged(c, r)
  BY <1>2, SameRoute DEF Poll
<1>5. QED  BY <1>3, <1>4, OutcomeMoves DEF Poll

LEMMA PollAgainMoves ==
  ASSUME CallInv, NEW c \in Asker, PollAgain(c)
  PROVE  CallInv'
<1>1. Room(c, Left(c)) /\ chat[c] \in ChatType
  BY Chatting
<1>2. PICK g : g = Left(c)
  OBVIOUS
<1>3. Outcome(c, chat[c].route)
  BY <1>1, <1>2, Provides DEF PollAgain
<1>4. \A r \in ChatType : r.route = chat[c].route => Charged(c, r)
  BY SameRoute DEF PollAgain
<1>5. QED  BY <1>3, <1>4, OutcomeMoves DEF PollAgain

LEMMA SaturatedMoves ==
  ASSUME CallInv, NEW c \in Asker, Saturated(c)
  PROVE  CallInv'
BY Chatting, FailsOut DEF Saturated

LEMMA RaiseMoves ==
  ASSUME CallInv, NEW c \in Asker, RaiseChat(c)
  PROVE  CallInv'
BY Chatting, FailsOut DEF RaiseChat

LEMMA AnsweredMoves ==
  ASSUME CallInv, NEW c \in Asker, Answered(c)
  PROVE  CallInv'
<1> DEFINE r == [chat[c] EXCEPT !.at = "storing"]
<1>1. Room(c, Left(c)) /\ chat[c] \in ChatType
  BY Chatting
<1>2. r \in ChatType /\ r.at = "storing"
  BY <1>1 DEF ChatType
<1>3. Becomes(c, r, Left(c)) /\ UNCHANGED config /\ UNCHANGED fallbacks
  BY DEF Answered
<1>4. spent' = spent \/ (Paying(chat[c]) /\ spent' = spent + 1)
  BY DEF Answered, Paying
<1> HIDE DEF r
<1>5. QED  BY <1>1, <1>2, <1>3, <1>4, OverMoves

LEMMA StreamEndsMoves ==
  ASSUME CallInv, NEW c \in Asker, StreamEnds(c)
  PROVE  CallInv'
<1>1. Room(c, Left(c)) /\ NoChat \in ChatType /\ NoChat.at = "idle"
  BY Chatting DEF NoChat
<1>2. Becomes(c, NoChat, Left(c)) /\ UNCHANGED config /\ UNCHANGED fallbacks
  BY DEF StreamEnds
<1>3. spent' = spent \/ (Paying(chat[c]) /\ spent' = spent + 1)
  BY DEF StreamEnds, Paying
<1>4. QED  BY <1>1, <1>2, <1>3, OverMoves

LEMMA CancelMoves ==
  ASSUME CallInv, NEW c \in Asker, CancelChat(c)
  PROVE  CallInv'
<1>1. Room(c, Left(c)) /\ NoChat \in ChatType /\ NoChat.at = "idle"
  BY Chatting DEF NoChat
<1>2. QED  BY <1>1, OverMoves DEF CancelChat

LEMMA StoredMoves ==
  ASSUME CallInv, NEW c \in Asker, Stored(c)
  PROVE  CallInv'
<1>1. Room(c, gpu) /\ NoChat \in ChatType /\ NoChat.at = "idle"
  BY Chatting DEF NoChat, Stored, Holds
<1>2. QED  BY <1>1, OverMoves DEF Stored

LEMMA RetryMoves ==
  ASSUME CallInv, NEW c \in Asker, Retry(c)
  PROVE  CallInv'
<1>1. /\ chat[c] \in ChatType /\ chat[c].at \in {"asking", "pausing"}
      /\ (c \in Holders <=> Holding(chat[c])) /\ (c \in Waiters <=> chat[c].at = "waiting")
      /\ Holders \in SUBSET Asker /\ Waiters \in SUBSET Asker /\ MaxRetries \in Nat
  BY Chatting, ModelAssumption DEF Retry
<1>2. PICK r : r \in ChatType /\ r.at \in {"asking", "pausing"} /\ r.route = chat[c].route /\ Becomes(c, r, gpu)
  <2>1. CASE chat[c].at = "asking" /\ chat[c].try < MaxRetries
    <3> DEFINE n == chat[c].try + 1
               s == [chat[c] EXCEPT !.at = "pausing", !.try = n]
    <3>1. n \in 0 .. MaxRetries
      BY <1>1, <2>1 DEF ChatType
    <3>2. Becomes(c, s, gpu)
      BY <2>1 DEF Retry
    <3> HIDE DEF n
    <3>3. s \in ChatType /\ s.at = "pausing" /\ s.route = chat[c].route
      BY <1>1, <3>1 DEF ChatType
    <3> HIDE DEF s
    <3>4. QED  BY <3>2, <3>3
  <2>2. CASE chat[c].at = "pausing"
    <3> DEFINE s == [chat[c] EXCEPT !.at = "asking"]
    <3>1. Becomes(c, s, gpu)
      BY <2>2 DEF Retry
    <3>2. s \in ChatType /\ s.at = "asking" /\ s.route = chat[c].route
      BY <1>1 DEF ChatType
    <3> HIDE DEF s
    <3>3. QED  BY <3>1, <3>2
  <2>3. QED  BY <2>1, <2>2 DEF Retry
<1>3. Holding(r) <=> Holding(chat[c])
  BY <1>1, <1>2 DEF Holding
<1>4. With(Holders, c, Holding(r)) = Holders /\ With(Waiters, c, r.at = "waiting") = Waiters
  BY <1>1, <1>2, <1>3 DEF With
<1>5. Settles(c, r, gpu)
  BY <1>2, <1>4 DEF Settles, CallInv
<1>6. Charged(c, r)
  BY <1>1, <1>2, SameRoute DEF Retry
<1>7. QED  BY <1>2, <1>5, <1>6, CallMoves DEF Retry

LEMMA AcquiredMoves ==
  ASSUME CallInv, NEW c \in Asker, Acquired(c)
  PROVE  CallInv'
<1>1. /\ gpu \in Semaphore /\ gpu.free \in Nat /\ gpu.woken \in SUBSET Asker
      /\ Counted(gpu, Holders, Waiters) /\ gpu.woken \subseteq Waiters
      /\ gpu.free + Cardinality(gpu.woken) + Cardinality(Holders) = Slots
      /\ Items(gpu.queue) = Waiters
  BY DEF CallInv, Counted, Semaphore
<1>2. c \in gpu.woken /\ Becomes(c, Served(chat[c]), WakeFirst(Without(gpu, c)))
      /\ UNCHANGED <<spent, fallbacks>> /\ UNCHANGED config
  BY DEF Acquired
<1>3. /\ chat[c] \in ChatType /\ chat[c].at = "waiting" /\ Holders \in SUBSET Asker /\ Waiters \in SUBSET Asker
      /\ c \notin Holders
  BY <1>1, <1>2, Chatting DEF Holding
<1>4. chat[c].route = "local"
  BY <1>3 DEF CallInv, CallTypes
<1> DEFINE r == Served(chat[c])
<1>5. r \in ChatType /\ r.route = "local" /\ r.at \in {"asking", "streaming"}
  BY <1>3, <1>4 DEF Served, ChatType
<1> HIDE DEF r
<1>6. With(Holders, c, Holding(r)) = Holders \cup {c} /\ With(Waiters, c, r.at = "waiting") = Waiters \ {c}
  BY <1>5 DEF With, Holding
<1>7. /\ Cardinality(Holders \cup {c}) = Cardinality(Holders) + 1
      /\ Cardinality(gpu.woken \ {c}) = Cardinality(gpu.woken) - 1
      /\ Cardinality(Holders) \in Nat /\ Cardinality(gpu.woken) \in Nat
  BY <1>1, <1>2, <1>3, Finite
<1> PICK out : out = Without(gpu, c)
  OBVIOUS
<1>8. /\ out \in Semaphore /\ out.free = gpu.free /\ out.woken = gpu.woken \ {c}
      /\ Distinct(out.queue) /\ Items(out.queue) = Waiters \ {c}
  <2>1. /\ out \in Semaphore /\ out.free = gpu.free /\ out.woken = gpu.woken \ {c}
        /\ Distinct(out.queue) /\ Items(out.queue) = Items(gpu.queue) \ {c}
    BY <1>1, <1>3, WithoutKeeps
  <2>2. QED  BY <1>1, <2>1
<1>9. out.free + Cardinality(out.woken) + Cardinality(Holders \cup {c}) = Slots
  <2>1. Cardinality(out.woken) = Cardinality(gpu.woken) - 1
    BY <1>7, <1>8, Zenon
  <2>2. QED  BY <1>1, <1>7, <1>8, <2>1
<1>10. Counted(out, Holders \cup {c}, Waiters \ {c})
  BY <1>1, <1>8, <1>9 DEF Counted, Semaphore
<1>11. PICK g : g = WakeFirst(out)
  OBVIOUS
<1>12. Counted(g, Holders \cup {c}, Waiters \ {c}) /\ NobodyBeside(g)
  BY <1>3, <1>10, <1>11, WakeFirstKeeps
<1>13. Settles(c, r, g)
  BY <1>5, <1>6, <1>12 DEF Settles
<1>14. Charged(c, r)
  BY <1>2, <1>3, <1>4, <1>5, SameRoute
<1>15. Becomes(c, r, g)
  BY <1>2, <1>11 DEF r
<1>16. QED  BY <1>2, <1>13, <1>14, <1>15, CallMoves

LEMMA DayMoves ==
  ASSUME CallInv, NewDay
  PROVE  CallInv'
<1>1. spent' = 0 /\ UNCHANGED <<config, gpu, chat, fallbacks>> /\ own' = own /\ patience' = patience
  BY DEF NewDay, config
<1>2. Holders' = Holders /\ Waiters' = Waiters /\ Payers' = Payers
  BY <1>1 DEF Holders, Waiters, Payers, Holding, Paying
<1>3. CallTypes'
  BY <1>1 DEF CallInv, CallTypes
<1>4. (Counted(gpu, Holders, Waiters) /\ NobodyBeside(gpu))'
  BY <1>1, <1>2 DEF CallInv, Counted, NobodyBeside
<1>5. /\ Cardinality(Payers) \in Nat /\ Cardinality(Asker) \in Nat /\ Cardinality(Payers) <= Cardinality(Asker)
      /\ fallbacks \in 0 .. MaxFallbacks /\ MaxFallbacks \in Nat /\ DailyBudget \in Nat \ {0}
  <2>1. Payers \in SUBSET Asker /\ Asker \in SUBSET Asker
    BY DEF Payers
  <2>2. QED  BY <2>1, Finite, ModelAssumption DEF CallInv, CallTypes
<1>6. spent' + Cardinality(Payers') < DailyBudget + Cardinality(Asker) + fallbacks'
  <2>1. Cardinality(Payers') = Cardinality(Payers)
    BY <1>2, Zenon
  <2>2. QED  BY <1>1, <1>5, <2>1
<1>7. QED  BY <1>3, <1>4, <1>6 DEF CallInv

LEMMA CallStutters ==
  ASSUME CallInv, UNCHANGED cvars
  PROVE  CallInv'
<1>1. UNCHANGED <<gpu, chat, spent, fallbacks>> /\ own' = own /\ patience' = patience
  BY DEF cvars, config
<1>2. Holders' = Holders /\ Waiters' = Waiters /\ Payers' = Payers
  BY <1>1 DEF Holders, Waiters, Payers, Holding, Paying
<1>3. QED  BY <1>1, <1>2 DEF CallInv, CallTypes, Counted, NobodyBeside

LEMMA CallInit ==
  ASSUME CInit
  PROVE  CallInv
<1> DEFINE none == <<>>
<1>1. /\ gpu = [free |-> Slots, queue |-> none, woken |-> {}]
      /\ chat = [c \in Asker |-> NoChat] /\ spent = 0 /\ fallbacks = 0
      /\ own \in {"local", "cloud"} /\ patience \in BOOLEAN
      /\ Slots \in Nat /\ DailyBudget \in Nat \ {0} /\ 0 \in 0 .. MaxRetries /\ 0 \in 0 .. MaxFallbacks
  BY ModelAssumption DEF CInit
<1>2. none \in Seq(Asker) /\ Distinct(none) /\ Items(none) = {}
  BY DEF Distinct, Items
<1>3. NoChat \in ChatType /\ NoChat.at = "idle" /\ NoChat.route = "local"
  BY <1>1 DEF NoChat, ChatType
<1>4. \A c \in Asker : chat[c] = NoChat
  BY <1>1
<1>5. CallTypes
  BY <1>1, <1>3, <1>4 DEF CallTypes
<1>6. Holders = {} /\ Waiters = {} /\ Payers = {}
  BY <1>3, <1>4 DEF Holders, Waiters, Payers, Holding, Paying
<1>7. Cardinality(Asker) \in Nat /\ Cardinality({}) = 0
  BY Finite, FS_EmptySet
<1>8. NobodyBeside(gpu)
  BY <1>1 DEF NobodyBeside
<1> HIDE DEF none
<1>9. gpu.free = Slots /\ gpu.queue = none /\ gpu.woken = {} /\ gpu \in Semaphore
  BY <1>1, <1>2 DEF Semaphore
<1>10. gpu.free + Cardinality(gpu.woken) + Cardinality(Holders) = Slots
  <2>1. Cardinality(gpu.woken) = 0 /\ Cardinality(Holders) = 0
    BY <1>6, <1>7, <1>9, Zenon
  <2>2. QED  BY <1>1, <1>9, <2>1
<1>11. Counted(gpu, Holders, Waiters)
  BY <1>2, <1>6, <1>9, <1>10 DEF Counted, Semaphore
<1>12. spent + Cardinality(Payers) < DailyBudget + Cardinality(Asker) + fallbacks
  <2>1. Cardinality(Payers) = 0
    BY <1>6, <1>7, Zenon
  <2>2. QED  BY <1>1, <1>7, <2>1
<1>13. QED  BY <1>5, <1>8, <1>11, <1>12 DEF CallInv

LEMMA CallNext ==
  ASSUME CallInv, [CNext]_cvars
  PROVE  CallInv'
<1>1. CASE UNCHANGED cvars
  BY <1>1, CallStutters
<1>2. CASE NewDay
  BY <1>2, DayMoves
<1>3. ASSUME NEW c \in Asker,
             \/ \E stream \in BOOLEAN : Ask(c, stream)
             \/ Lookup(c) \/ Acquired(c) \/ Poll(c) \/ PollAgain(c) \/ Saturated(c)
             \/ Answered(c) \/ Stored(c) \/ Retry(c) \/ RaiseChat(c) \/ StreamEnds(c) \/ CancelChat(c)
      PROVE  CallInv'
  BY <1>3, AskMoves, LookupMoves, AcquiredMoves, PollMoves, PollAgainMoves, SaturatedMoves,
     AnsweredMoves, StoredMoves, RetryMoves, RaiseMoves, StreamEndsMoves, CancelMoves
<1>4. QED  BY <1>1, <1>2, <1>3 DEF CNext

LEMMA CallInvKept == CSpec => []CallInv
BY CallInit, CallNext, PTL DEF CSpec

\* A call's types (core/llm_client.py 182-262, core/llm/ollama.py 295-384).
THEOREM CallTypesKept == CSpec => []CTypeOK
<1>1. CallInv => CTypeOK
  <2> SUFFICES ASSUME CallInv PROVE CTypeOK
    OBVIOUS
  <2>1. gpu.free \in Nat /\ gpu.queue \in Seq(Asker) /\ gpu.woken \in SUBSET Asker
        /\ gpu.free + Cardinality(gpu.woken) + Cardinality(Holders) = Slots
    BY DEF CallInv, Counted
  <2>2. Cardinality(gpu.woken) \in Nat /\ Cardinality(Holders) \in Nat
    <3>1. Holders \in SUBSET Asker
      BY DEF Holders
    <3>2. QED  BY <2>1, <3>1, Finite
  <2>3. gpu.free \in 0 .. Slots
    BY <2>1, <2>2, ModelAssumption
  <2>4. QED  BY <2>1, <2>3 DEF CallInv, CallTypes, CTypeOK, ChatType
<1>2. QED  BY <1>1, CallInvKept, PTL

\* SlotsKept, for any number of callers and slots.
THEOREM SlotsNeverLost == CSpec => []SlotsKept
<1>1. CallInv => SlotsKept
  <2> SUFFICES ASSUME CallInv PROVE SlotsKept
    OBVIOUS
  <2>1. Holders = {c \in Asker : Holds(c)} /\ Waiters = {c \in Asker : chat[c].at = "waiting"}
    BY DEF Holders, Holding, Holds, Waiters
  <2>2. Items(gpu.queue) = {gpu.queue[i] : i \in DOMAIN gpu.queue}
    BY DEF Items
  <2>3. QED  BY <2>1, <2>2 DEF CallInv, Counted, NobodyBeside, SlotsKept
<1>2. QED  BY <1>1, CallInvKept, PTL

\* BudgetKept, for any budget and any number of callers.
THEOREM BudgetHeld == CSpec => []BudgetKept
<1>1. CallInv => BudgetKept
  <2> SUFFICES ASSUME CallInv PROVE BudgetKept
    OBVIOUS
  <2> DEFINE fresh == {c \in Asker : Pays(c) /\ ~chat[c].fallen}
  <2>1. fresh \subseteq Payers /\ Payers \in SUBSET Asker /\ fresh \in SUBSET Asker /\ Asker \in SUBSET Asker
    BY DEF Payers, Paying, Pays
  <2> HIDE DEF fresh
  <2>2. Cardinality(fresh) <= Cardinality(Payers)
    <3>1. IsFiniteSet(Payers)
      BY <2>1, Finite
    <3>2. QED  BY <2>1, <3>1, FS_Subset
  <2>3. Cardinality(fresh) \in Nat /\ Cardinality(Payers) \in Nat /\ Cardinality(Asker) \in Nat
    BY <2>1, Finite
  <2>4. spent \in Nat /\ fallbacks \in 0 .. MaxFallbacks /\ MaxFallbacks \in Nat /\ DailyBudget \in Nat
        /\ spent + Cardinality(Payers) < DailyBudget + Cardinality(Asker) + fallbacks
    BY ModelAssumption DEF CallInv, CallTypes
  <2>5. spent + Cardinality(fresh) < DailyBudget + Cardinality(Asker) + fallbacks
    BY <2>2, <2>3, <2>4
  <2>6. QED  BY <2>5 DEF fresh, BudgetKept
<1>2. QED  BY <1>1, CallInvKept, PTL

-----------------------------------------------------------------------------
(* DeadLetters: where the first record of a letter is. *)

Letters  == 1 .. MaxLetters
In(s, l) == \E i \in DOMAIN s : s[i] = Record(l, FALSE)
Once(s, l) == \A i, j \in DOMAIN s : s[i] = Record(l, FALSE) /\ s[j] = Record(l, FALSE) => i = j

\* With the letters m in memory, the records p pending, h handed to the thread
\* of whoever has the lock, f on file, those of the orphans o and the lost x:
\* every letter of m has its first record in one of these places, once, and
\* no other letter has one.
Alone(l, p, h, f, o, x) ==
  /\ Once(p, l) /\ Once(h, l) /\ Once(f, l) /\ \A r \in o : Once(r, l)
  /\ In(p, l) => ~In(h, l) /\ ~In(f, l) /\ (\A r \in o : ~In(r, l)) /\ Record(l, FALSE) \notin x
  /\ In(h, l) => ~In(f, l) /\ (\A r \in o : ~In(r, l)) /\ Record(l, FALSE) \notin x
  /\ In(f, l) => (\A r \in o : ~In(r, l)) /\ Record(l, FALSE) \notin x
  /\ \A r \in o : In(r, l) => Record(l, FALSE) \notin x /\ \A q \in o : In(q, l) => q = r

Somewhere(l, p, h, f, o, x) ==
  In(p, l) \/ In(h, l) \/ In(f, l) \/ (\E r \in o : In(r, l)) \/ Record(l, FALSE) \in x

Journal(m, p, h, f, o, x) ==
  \A l \in Letters : /\ Alone(l, p, h, f, o, x)
                     /\ l \in m <=> Somewhere(l, p, h, f, o, x)

LEMMA AppendIn ==
  ASSUME NEW s \in Seq(Records), NEW r \in Records, NEW l \in Letters
  PROVE  /\ Append(s, r) \in Seq(Records)
         /\ r # Record(l, FALSE) => In(Append(s, r), l) = In(s, l) /\ Once(Append(s, r), l) = Once(s, l)
         /\ r = Record(l, FALSE) => In(Append(s, r), l) /\ (~In(s, l) => Once(Append(s, r), l))
<1> DEFINE t == Append(s, r)
<1>1. /\ t \in Seq(Records) /\ Len(s) \in Nat /\ DOMAIN s = 1 .. Len(s) /\ DOMAIN t = 1 .. Len(s) + 1
      /\ t[Len(s) + 1] = r /\ \A i \in DOMAIN s : t[i] = s[i]
  OBVIOUS
<1> HIDE DEF t
<1> DEFINE n == Len(s) + 1
<1>2. DOMAIN t = DOMAIN s \cup {n} /\ n \notin DOMAIN s /\ t[n] = r
  BY <1>1
<1> HIDE DEF n
<1>3. r # Record(l, FALSE) => In(t, l) = In(s, l)
  BY <1>1, <1>2 DEF In
<1>4. r # Record(l, FALSE) => Once(t, l) = Once(s, l)
  BY <1>1, <1>2 DEF Once
<1>5. r = Record(l, FALSE) => In(t, l) /\ (~In(s, l) => Once(t, l))
  BY <1>1, <1>2 DEF In, Once
<1>6. QED  BY <1>1, <1>3, <1>4, <1>5 DEF t

\* A letter that enters memory is pending.
LEMMA JournalGrows ==
  ASSUME NEW m, NEW p \in Seq(Records), NEW h, NEW f, NEW o, NEW x, Journal(m, p, h, f, o, x),
         NEW l \in Letters, l \notin m
  PROVE  Append(p, Record(l, FALSE)) \in Seq(Records) /\ Journal(m \cup {l}, Append(p, Record(l, FALSE)), h, f, o, x)
<1>1. Record(l, FALSE) \in Records
  BY DEF Record, Records, Letters
<1> DEFINE q == Append(p, Record(l, FALSE))
<1>2. q \in Seq(Records)
  BY <1>1, AppendIn
<1>3. ASSUME NEW k \in Letters, k # l
      PROVE  In(q, k) = In(p, k) /\ Once(q, k) = Once(p, k)
  <2>1. Record(l, FALSE) # Record(k, FALSE)
    BY <1>3 DEF Record
  <2>2. QED  BY <1>1, <2>1, AppendIn
<1>4. ~Somewhere(l, p, h, f, o, x) /\ Alone(l, p, h, f, o, x)
  BY DEF Journal
<1>5. In(q, l) /\ Once(q, l)
  BY <1>1, <1>4, AppendIn DEF Somewhere
<1> HIDE DEF q
<1>6. Alone(l, q, h, f, o, x) /\ Somewhere(l, q, h, f, o, x)
  BY <1>4, <1>5 DEF Alone, Somewhere
<1>7. ASSUME NEW k \in Letters, k # l
      PROVE  Alone(k, q, h, f, o, x) /\ (k \in m <=> Somewhere(k, q, h, f, o, x))
  BY <1>3, <1>7 DEF Journal, Alone, Somewhere
<1>8. Journal(m \cup {l}, q, h, f, o, x)
  BY <1>6, <1>7 DEF Journal
<1>9. QED  BY <1>2, <1>8 DEF q

\* The record of a letter that leaves memory changes nothing.
LEMMA JournalRepeats ==
  ASSUME NEW m, NEW p \in Seq(Records), NEW h, NEW f, NEW o, NEW x, Journal(m, p, h, f, o, x),
         NEW l \in Letters
  PROVE  Append(p, Record(l, TRUE)) \in Seq(Records) /\ Journal(m, Append(p, Record(l, TRUE)), h, f, o, x)
<1>1. Record(l, TRUE) \in Records
  BY DEF Record, Records, Letters
<1> DEFINE q == Append(p, Record(l, TRUE))
<1>2. q \in Seq(Records)
  BY <1>1, AppendIn
<1>3. ASSUME NEW k \in Letters
      PROVE  In(q, k) = In(p, k) /\ Once(q, k) = Once(p, k)
  <2>1. Record(l, TRUE) # Record(k, FALSE)
    BY DEF Record
  <2>2. QED  BY <1>1, <2>1, AppendIn
<1> HIDE DEF q
<1>4. Journal(m, q, h, f, o, x)
  BY <1>3 DEF Journal, Alone, Somewhere
<1>5. QED  BY <1>2, <1>4 DEF q

LEMMA NothingIn ==
  ASSUME NEW l
  PROVE  ~In(<<>>, l) /\ Once(<<>>, l)
BY DEF In, Once

\* Whoever obtains the lock hands the pending records to a thread.
LEMMA JournalHanded ==
  ASSUME NEW m, NEW p, NEW f, NEW o, NEW x, Journal(m, p, <<>>, f, o, x)
  PROVE  Journal(m, <<>>, p, f, o, x)
<1> DEFINE none == <<>>
<1>1. \A l : ~In(none, l) /\ Once(none, l)
  BY NothingIn
<1>2. Journal(m, p, none, f, o, x)
  OBVIOUS
<1> HIDE DEF none
<1>3. Journal(m, none, p, f, o, x)
  BY <1>1, <1>2 DEF Journal, Alone, Somewhere
<1>4. QED  BY <1>3 DEF none

\* A cancelled task leaves its thread behind.
LEMMA JournalOrphaned ==
  ASSUME NEW m, NEW p, NEW h, NEW f, NEW o, NEW x, Journal(m, p, h, f, o, x)
  PROVE  Journal(m, p, <<>>, f, o \cup {h}, x)
<1> DEFINE none == <<>>
           u == o \cup {h}
<1>1. \A l : ~In(none, l) /\ Once(none, l)
  BY NothingIn
<1> HIDE DEF none
<1>2. ASSUME NEW l \in Letters
      PROVE  Alone(l, p, none, f, u, x) /\ (l \in m <=> Somewhere(l, p, none, f, u, x))
  <2>1. Alone(l, p, h, f, o, x) /\ (l \in m <=> Somewhere(l, p, h, f, o, x))
    BY DEF Journal
  <2>2. Alone(l, p, none, f, u, x)
    BY <1>1, <2>1 DEF Alone
  <2>3. Somewhere(l, p, none, f, u, x) <=> Somewhere(l, p, h, f, o, x)
    BY <1>1 DEF Somewhere
  <2>4. QED  BY <2>1, <2>2, <2>3
<1>3. Journal(m, p, none, f, u, x)
  BY <1>2 DEF Journal
<1>4. QED  BY <1>3 DEF none

\* The part of the records s that is on file behind f, and the part that is lost.
Filed(f, s, n) == f \o SubSeq(s, 1, n)
Spoilt(s, n)   == {s[i] : i \in n + 1 .. Len(s)}

LEMMA PersistSplits ==
  ASSUME NEW s \in Seq(Records), NEW f \in Seq(Records), NEW n \in 0 .. Len(s), NEW l \in Letters,
         Once(s, l), Once(f, l), In(s, l) => ~In(f, l)
  PROVE  /\ Filed(f, s, n) \in Seq(Records) /\ Spoilt(s, n) \subseteq Records
         /\ Once(Filed(f, s, n), l)
         /\ In(Filed(f, s, n), l) \/ Record(l, FALSE) \in Spoilt(s, n) <=> In(f, l) \/ In(s, l)
         /\ ~(In(Filed(f, s, n), l) /\ Record(l, FALSE) \in Spoilt(s, n))
<1> DEFINE R == Record(l, FALSE)
           a == SubSeq(s, 1, n)
           t == f \o a
           k == Len(f)
<1>1. /\ a \in Seq(Records) /\ Len(a) = n /\ \A i \in 1 .. n : a[i] = s[i]
      /\ n \in Nat /\ n <= Len(s) /\ Len(s) \in Nat /\ DOMAIN s = 1 .. Len(s)
      /\ \A i \in DOMAIN s : s[i] \in Records
  OBVIOUS
<1>2. k \in Nat /\ DOMAIN f = 1 .. k
  OBVIOUS
<1>3. /\ t \in Seq(Records) /\ Len(t) = k + n /\ DOMAIN t = 1 .. k + n
      /\ \A i \in 1 .. k + n : t[i] = IF i <= k THEN f[i] ELSE s[i - k]
  <2>1. /\ t \in Seq(Records) /\ Len(t) = Len(f) + Len(a)
        /\ \A i \in 1 .. Len(f) + Len(a) : t[i] = IF i <= Len(f) THEN f[i] ELSE a[i - Len(f)]
    <3> HIDE DEF a
    <3>1. a \in Seq(Records)
      BY <1>1
    <3>2. QED  BY <3>1, Concatenated
  <2>2. Len(t) = k + n /\ DOMAIN t = 1 .. k + n
    BY <1>1, <1>2, <2>1
  <2>3. ASSUME NEW i \in 1 .. k + n
        PROVE  t[i] = IF i <= k THEN f[i] ELSE s[i - k]
    <3>1. t[i] = IF i <= k THEN f[i] ELSE a[i - k]
      BY <1>1, <2>1
    <3>2. ~(i <= k) => i - k \in 1 .. n
      BY <1>1, <1>2
    <3> HIDE DEF t, a, k
    <3>3. QED  BY <1>1, <3>1, <3>2
  <2>4. QED  BY <2>1, <2>2, <2>3
<1> HIDE DEF a, t, k, R
<1>4. \A j \in 1 .. n : k + j \in DOMAIN t /\ t[k + j] = s[j] /\ j \in DOMAIN s
  <2> SUFFICES ASSUME NEW j \in 1 .. n
               PROVE  k + j \in DOMAIN t /\ t[k + j] = s[j] /\ j \in DOMAIN s
    OBVIOUS
  <2> DEFINE i == k + j
  <2>1. i \in 1 .. k + n /\ ~(i <= k) /\ i - k = j /\ j \in DOMAIN s
    BY <1>1, <1>2
  <2> HIDE DEF i
  <2>2. t[i] = s[i - k]
    BY <1>3, <2>1
  <2>3. QED  BY <1>3, <2>1, <2>2 DEF i
<1>5. \A i \in DOMAIN f : i \in DOMAIN t /\ t[i] = f[i]
  BY <1>1, <1>2, <1>3
<1>6. \A i \in DOMAIN t : (i \in DOMAIN f /\ t[i] = f[i]) \/ (\E j \in 1 .. n : i = k + j /\ t[i] = s[j])
  <2> SUFFICES ASSUME NEW i \in 1 .. k + n, ~(i <= k)
               PROVE  \E j \in 1 .. n : i = k + j /\ t[i] = s[j]
    BY <1>2, <1>3
  <2> DEFINE j == i - k
  <2>1. j \in 1 .. n /\ i = k + j
    BY <1>1, <1>2
  <2>2. t[i] = s[j]
    BY <1>3
  <2>3. QED  BY <2>1, <2>2
<1> DEFINE some == \E j \in 1 .. n : s[j] = R
           rest == \E j \in n + 1 .. Len(s) : s[j] = R
<1>7. (some \/ rest <=> In(s, l)) /\ ~(some /\ rest)
  <2>1. \A i, j \in DOMAIN s : s[i] = R /\ s[j] = R => i = j
    BY DEF Once, R
  <2>2. In(s, l) <=> \E i \in DOMAIN s : s[i] = R
    BY DEF In, R
  <2>3. 1 .. n \subseteq DOMAIN s /\ n + 1 .. Len(s) \subseteq DOMAIN s
        /\ (\A i \in DOMAIN s : i \in 1 .. n \/ i \in n + 1 .. Len(s))
        /\ (1 .. n) \cap (n + 1 .. Len(s)) = {}
    BY <1>1
  <2>4. QED  BY <2>1, <2>2, <2>3
<1>8. In(t, l) <=> In(f, l) \/ some
  <2>1. In(t, l) => In(f, l) \/ some
    BY <1>6 DEF In, R
  <2>2. In(f, l) => In(t, l)
    BY <1>5 DEF In
  <2>3. some => In(t, l)
    BY <1>4 DEF In, R
  <2>4. QED  BY <2>1, <2>2, <2>3
<1>9. Once(t, l)
  <2> SUFFICES ASSUME NEW i \in DOMAIN t, NEW j \in DOMAIN t, t[i] = R, t[j] = R
               PROVE  i = j
    BY DEF Once, R
  <2>1. CASE In(f, l)
    <3>1. ~some
      <4> HIDE DEF some, rest
      <4>1. QED  BY <1>7, <2>1
    <3>2. i \in DOMAIN f /\ t[i] = f[i] /\ j \in DOMAIN f /\ t[j] = f[j]
      BY <1>6, <3>1
    <3>3. QED  BY <3>2 DEF Once, R
  <2>2. CASE ~In(f, l)
    <3>1. PICK a1 \in 1 .. n : i = k + a1 /\ t[i] = s[a1]
      BY <1>6, <2>2 DEF In, R
    <3>2. PICK a2 \in 1 .. n : j = k + a2 /\ t[j] = s[a2]
      BY <1>6, <2>2 DEF In, R
    <3>3. a1 \in DOMAIN s /\ a2 \in DOMAIN s
      BY <1>4
    <3>4. a1 = a2
      BY <3>1, <3>2, <3>3 DEF Once, R
    <3>5. QED  BY <3>1, <3>2, <3>4
  <2>3. QED  BY <2>1, <2>2
<1>10. Record(l, FALSE) \in Spoilt(s, n) <=> rest
  BY DEF Spoilt, R
<1>11. Spoilt(s, n) \subseteq Records
  BY <1>1 DEF Spoilt
<1>12. Filed(f, s, n) = t
  BY DEF Filed, t, a
<1> HIDE DEF some, rest
<1>13. In(t, l) \/ Record(l, FALSE) \in Spoilt(s, n) <=> In(f, l) \/ In(s, l)
  BY <1>7, <1>8, <1>10
<1>14. ~(In(t, l) /\ Record(l, FALSE) \in Spoilt(s, n))
  BY <1>7, <1>8, <1>10
<1>15. QED  BY <1>3, <1>9, <1>11, <1>12, <1>13, <1>14

\* The thread of whoever has the lock ends.
LEMMA JournalWritten ==
  ASSUME NEW m, NEW p, NEW h \in Seq(Records), NEW f \in Seq(Records), NEW o, NEW x, Journal(m, p, h, f, o, x),
         NEW n \in 0 .. Len(h)
  PROVE  Journal(m, p, <<>>, Filed(f, h, n), o, x \cup Spoilt(h, n))
<1> DEFINE none == <<>>
           t == Filed(f, h, n)
           y == x \cup Spoilt(h, n)
<1>1. \A l : ~In(none, l) /\ Once(none, l)
  BY NothingIn
<1> HIDE DEF none, t, y
<1>2. ASSUME NEW l \in Letters
      PROVE  Alone(l, p, none, t, o, y) /\ (l \in m <=> Somewhere(l, p, none, t, o, y))
  <2>1. Alone(l, p, h, f, o, x) /\ (l \in m <=> Somewhere(l, p, h, f, o, x))
    BY DEF Journal
  <2>2. /\ Once(t, l) /\ ~(In(t, l) /\ Record(l, FALSE) \in Spoilt(h, n))
        /\ In(t, l) \/ Record(l, FALSE) \in Spoilt(h, n) <=> In(f, l) \/ In(h, l)
    BY <2>1, PersistSplits DEF Alone, t
  <2>3. Record(l, FALSE) \in y <=> Record(l, FALSE) \in x \/ Record(l, FALSE) \in Spoilt(h, n)
    BY DEF y
  <2>4. Alone(l, p, none, t, o, y)
    BY <1>1, <2>1, <2>2, <2>3 DEF Alone
  <2>5. Somewhere(l, p, none, t, o, y) <=> Somewhere(l, p, h, f, o, x)
    BY <1>1, <2>2, <2>3 DEF Somewhere
  <2>6. QED  BY <2>1, <2>4, <2>5
<1>3. Journal(m, p, none, t, o, y)
  BY <1>2 DEF Journal
<1>4. QED  BY <1>3 DEF none, t, y

\* The thread of a task that was cancelled ends.
LEMMA JournalOrphanWritten ==
  ASSUME NEW m, NEW p, NEW h, NEW f \in Seq(Records), NEW o, NEW x, Journal(m, p, h, f, o, x),
         NEW r \in o, r \in Seq(Records), NEW n \in 0 .. Len(r)
  PROVE  Journal(m, p, h, Filed(f, r, n), o \ {r}, x \cup Spoilt(r, n))
<1> DEFINE t == Filed(f, r, n)
           y == x \cup Spoilt(r, n)
           u == o \ {r}
<1> HIDE DEF t, y
<1>1. ASSUME NEW l \in Letters
      PROVE  Alone(l, p, h, t, u, y) /\ (l \in m <=> Somewhere(l, p, h, t, u, y))
  <2>1. Alone(l, p, h, f, o, x) /\ (l \in m <=> Somewhere(l, p, h, f, o, x))
    BY DEF Journal
  <2>2. Once(f, l) /\ Once(r, l) /\ (In(r, l) => ~In(f, l))
    BY <2>1 DEF Alone
  <2>3. /\ Once(t, l) /\ ~(In(t, l) /\ Record(l, FALSE) \in Spoilt(r, n))
        /\ In(t, l) \/ Record(l, FALSE) \in Spoilt(r, n) <=> In(f, l) \/ In(r, l)
    BY <2>2, PersistSplits DEF t
  <2>4. Record(l, FALSE) \in y <=> Record(l, FALSE) \in x \/ Record(l, FALSE) \in Spoilt(r, n)
    BY DEF y
  <2>5. Alone(l, p, h, t, u, y)
    BY <2>1, <2>3, <2>4 DEF Alone
  <2>6. Somewhere(l, p, h, t, u, y) <=> Somewhere(l, p, h, f, o, x)
    BY <2>3, <2>4 DEF Somewhere
  <2>7. QED  BY <2>1, <2>5, <2>6
<1>2. Journal(m, p, h, t, u, y)
  BY <1>1 DEF Journal
<1>3. QED  BY <1>2 DEF t, y

-----------------------------------------------------------------------------
(* DeadLetters: the inductive invariant. *)

AtLock == {"waiting", "writing"}

LetterTyped ==
  /\ written \in 0 .. MaxLetters /\ remembered \in SUBSET (1 .. written)
  /\ buffer \in Seq(Nat) /\ Len(buffer) <= BufferMax /\ Items(buffer) \subseteq remembered
  /\ pending \in Seq(Records)
  /\ at \in [Persister -> {"idle", "sleeping", "waiting", "writing"}]
  /\ letter \in [Persister -> 0 .. MaxLetters]
  /\ taken \in [Persister -> Seq(Records)]
  /\ orphans \in SUBSET Seq(Records) /\ file \in Seq(Records) /\ lost \in SUBSET Records
  /\ cancels \in 0 .. MaxCancels

\* A letter that has yet to be remembered: its writer stands at the lock for an
\* older one, and no other writer has it.
Owing ==
  /\ \A t \in Persister : letter[t] # 0 => /\ at[t] \in AtLock /\ t # Timer
                                           /\ letter[t] \in 1 .. written /\ letter[t] \notin remembered
  /\ \A t, u \in Persister : letter[t] # 0 /\ letter[t] = letter[u] => t = u

\* In the queue stands whoever is at the lock, and the first one alone writes.
InLine(q, a) ==
  /\ q \in Seq(Persister) /\ Distinct(q)
  /\ Items(q) = {t \in Persister : a[t] \in AtLock}
  /\ \A t \in Persister : a[t] = "writing" => q # <<>> /\ Head(q) = t

\* What the thread of the writing task has in hand.
InHand(h, a, k) ==
  /\ h \in Seq(Records)
  /\ \A t \in Persister : a[t] = "writing" => k[t] = h
  /\ (\A t \in Persister : a[t] # "writing") => h = <<>>

LettersInv ==
  /\ LetterTyped /\ Owing /\ InLine(lock, at)
  /\ \E h : InHand(h, at, taken) /\ Journal(remembered, pending, h, file, orphans, lost)

-----------------------------------------------------------------------------
(* A task flushes, remembers or goes. *)

Standing == [Persister -> {"idle", "sleeping", "waiting", "writing"}]

\* Task t acts: the others, their queue and their thread, with the records that
\* would be pending and the letters that would be in memory.
Scene(t, m, records, queue, h) ==
  /\ records \in Seq(Records) /\ queue \in Seq(Persister) /\ h \in Seq(Records)
  /\ Distinct(queue) /\ Items(queue) = {u \in Persister \ {t} : at[u] \in AtLock}
  /\ \A u \in Persister \ {t} : at[u] = "writing" => queue # <<>> /\ Head(queue) = u /\ taken[u] = h
  /\ (\A u \in Persister \ {t} : at[u] # "writing") => h = <<>>
  /\ Journal(m, records, h, file', orphans', lost')

\* What the tasks, the queue and the records are afterwards.
After(t, m) ==
  /\ pending' \in Seq(Records) /\ at' \in Standing /\ taken' \in [Persister -> Seq(Records)]
  /\ \A u \in Persister \ {t} : at[u] \in AtLock => at'[u] = at[u]
  /\ InLine(lock', at')
  /\ \E h : InHand(h, at', taken') /\ Journal(m, pending', h, file', orphans', lost')

LEMMA StandFacts ==
  ASSUME at \in Standing, NEW t \in Persister, NEW where \in {"idle", "waiting", "writing"},
         NEW armed \in BOOLEAN, Stand(t, where, armed)
  PROVE  /\ at' \in Standing /\ at'[t] = where
         /\ \A u \in Persister \ {t} : at'[u] = at[u] \/ (at[u] = "idle" /\ at'[u] = "sleeping")
<1>1. Timer \in Persister
  BY DEF Persister
<1>2. CASE t = Timer
  <2>1. at' = [at EXCEPT ![t] = where, ![t] = where]
    BY <1>2 DEF Stand
  <2>2. QED  BY <1>1, <2>1 DEF Standing
<1>3. CASE t # Timer
  <2> DEFINE p == IF armed /\ at[Timer] = "idle" THEN "sleeping" ELSE at[Timer]
  <2>1. at' = [at EXCEPT ![t] = where, ![Timer] = p]
    BY <1>3 DEF Stand
  <2>2. p = at[Timer] \/ (at[Timer] = "idle" /\ p = "sleeping")
    OBVIOUS
  <2> HIDE DEF p
  <2>3. QED  BY <1>1, <1>3, <2>1, <2>2 DEF Standing
<1>4. QED  BY <1>2, <1>3

LEMMA QuitMoves ==
  ASSUME at \in Standing, NEW t \in Persister, NEW m, NEW records, NEW queue, NEW h,
         Scene(t, m, records, queue, h), NEW armed \in BOOLEAN, Stand(t, "idle", armed),
         lock' = queue, pending' = records, taken' \in [Persister -> Seq(Records)],
         \A u \in Persister \ {t} : taken'[u] = taken[u]
  PROVE  After(t, m)
<1>1. /\ at' \in Standing /\ at'[t] = "idle"
      /\ \A u \in Persister \ {t} : at'[u] = at[u] \/ (at[u] = "idle" /\ at'[u] = "sleeping")
  BY StandFacts
<1>2. /\ records \in Seq(Records) /\ queue \in Seq(Persister) /\ h \in Seq(Records)
      /\ Distinct(queue) /\ Items(queue) = {u \in Persister \ {t} : at[u] \in AtLock}
      /\ \A u \in Persister \ {t} : at[u] = "writing" => queue # <<>> /\ Head(queue) = u /\ taken[u] = h
      /\ (\A u \in Persister \ {t} : at[u] # "writing") => h = <<>>
      /\ Journal(m, records, h, file', orphans', lost')
  BY DEF Scene
<1>3. \A u \in Persister : at'[u] \in AtLock => u # t /\ at[u] = at'[u]
  BY <1>1 DEF AtLock
<1>4. \A u \in Persister \ {t} : at[u] \in AtLock => at'[u] = at[u]
  BY <1>1 DEF AtLock
<1>5. \A u \in Persister : at'[u] = "writing" <=> u # t /\ at[u] = "writing"
  BY <1>3, <1>4 DEF AtLock
<1>6. InLine(queue, at')
  <2>1. Items(queue) = {u \in Persister : at'[u] \in AtLock}
    BY <1>2, <1>3, <1>4
  <2>2. \A u \in Persister : at'[u] = "writing" => queue # <<>> /\ Head(queue) = u
    BY <1>2, <1>5
  <2>3. QED  BY <1>2, <2>1, <2>2 DEF InLine
<1>7. InHand(h, at', taken')
  BY <1>2, <1>5 DEF InHand
<1>8. QED  BY <1>1, <1>2, <1>4, <1>6, <1>7 DEF After

LEMMA FlushMoves ==
  ASSUME at \in Standing, taken \in [Persister -> Seq(Records)], NEW t \in Persister,
         NEW m, NEW records, NEW queue, NEW h, Scene(t, m, records, queue, h),
         NEW armed \in BOOLEAN, Flush(t, records, queue, armed)
  PROVE  After(t, m) /\ at'[t] \in AtLock
<1>1. /\ records \in Seq(Records) /\ queue \in Seq(Persister) /\ h \in Seq(Records)
      /\ Distinct(queue) /\ Items(queue) = {u \in Persister \ {t} : at[u] \in AtLock}
      /\ \A u \in Persister \ {t} : at[u] = "writing" => queue # <<>> /\ Head(queue) = u /\ taken[u] = h
      /\ (\A u \in Persister \ {t} : at[u] # "writing") => h = <<>>
      /\ Journal(m, records, h, file', orphans', lost')
  BY DEF Scene
<1>2. PICK line : line = Append(queue, t)
  OBVIOUS
<1>3. lock' = line
  BY <1>2 DEF Flush
<1>4. t \notin Items(queue)
  BY <1>1
<1>5. /\ line \in Seq(Persister) /\ line # <<>> /\ Distinct(line)
      /\ Items(line) = Items(queue) \cup {t}
      /\ queue # <<>> => Head(line) = Head(queue)
      /\ queue = <<>> => Head(line) = t
  <2>1. queue \in Seq(Persister) /\ Distinct(queue) /\ t \in Persister /\ t \notin Items(queue)
    BY <1>1, <1>4
  <2>2. line \in Seq(Persister) /\ line # <<>>
    BY <1>2, <2>1
  <2>3. Distinct(line) /\ Items(line) = Items(queue) \cup {t}
    BY <1>2, <2>1, AppendKeeps
  <2>4. queue # <<>> => Head(line) = Head(queue)
    BY <1>2, <2>1
  <2>5. queue = <<>> => Head(line) = t
    BY <1>2, <2>1
  <2>6. QED  BY <2>2, <2>3, <2>4, <2>5
<1>6. CASE queue = <<>>
  <2>1. taken' = [taken EXCEPT ![t] = records] /\ pending' = <<>> /\ Stand(t, "writing", armed)
    BY <1>6 DEF Flush, HandOver
  <2>2. /\ at' \in Standing /\ at'[t] = "writing"
        /\ \A u \in Persister \ {t} : at'[u] = at[u] \/ (at[u] = "idle" /\ at'[u] = "sleeping")
    BY <2>1, StandFacts
  <2>3. Items(queue) = {}
    BY <1>6 DEF Items
  <2>4. \A u \in Persister \ {t} : at[u] \notin AtLock /\ at'[u] \notin AtLock
    BY <1>1, <2>2, <2>3 DEF AtLock
  <2>5. h = <<>>
    BY <1>1, <2>4 DEF AtLock
  <2>6. InLine(line, at')
    <3>1. Items(line) = {u \in Persister : at'[u] \in AtLock}
      BY <1>5, <2>2, <2>3, <2>4 DEF AtLock
    <3>2. \A u \in Persister : at'[u] = "writing" => line # <<>> /\ Head(line) = u
      BY <1>5, <1>6, <2>4 DEF AtLock
    <3>3. QED  BY <1>5, <3>1, <3>2 DEF InLine
  <2>7. taken' \in [Persister -> Seq(Records)] /\ taken'[t] = records
    BY <1>1, <2>1
  <2>8. InHand(records, at', taken')
    BY <1>1, <2>2, <2>4, <2>7 DEF InHand, AtLock
  <2>9. Journal(m, <<>>, records, file', orphans', lost')
    BY <1>1, <2>5, JournalHanded
  <2>10. pending' \in Seq(Records)
    BY <2>1
  <2>11. at'[t] \in AtLock
    BY <2>2 DEF AtLock
  <2>12. QED  BY <1>3, <2>1, <2>2, <2>4, <2>6, <2>7, <2>8, <2>9, <2>10, <2>11 DEF After
<1>7. CASE queue # <<>>
  <2>1. taken' = taken /\ pending' = records /\ Stand(t, "waiting", armed)
    BY <1>7 DEF Flush
  <2>2. /\ at' \in Standing /\ at'[t] = "waiting"
        /\ \A u \in Persister \ {t} : at'[u] = at[u] \/ (at[u] = "idle" /\ at'[u] = "sleeping")
    BY <2>1, StandFacts
  <2>3. \A u \in Persister \ {t} : at[u] \in AtLock <=> at'[u] \in AtLock
    BY <2>2 DEF AtLock
  <2>4. \A u \in Persister : at'[u] = "writing" <=> u # t /\ at[u] = "writing"
    BY <2>2
  <2>5. \A u \in Persister \ {t} : at[u] \in AtLock => at'[u] = at[u]
    BY <2>2 DEF AtLock
  <2>6. InLine(line, at')
    <3>1. at'[t] \in AtLock
      BY <2>2 DEF AtLock
    <3>2. Items(line) = {u \in Persister : at'[u] \in AtLock}
      BY <1>1, <1>5, <2>3, <3>1
    <3>3. \A u \in Persister : at'[u] = "writing" => line # <<>> /\ Head(line) = u
      BY <1>1, <1>5, <1>7, <2>4
    <3>4. QED  BY <1>5, <3>2, <3>3 DEF InLine
  <2>7. InHand(h, at', taken')
    BY <1>1, <2>1, <2>4 DEF InHand
  <2>8. at'[t] \in AtLock
    BY <2>2 DEF AtLock
  <2>9. QED  BY <1>1, <1>3, <2>1, <2>2, <2>5, <2>6, <2>7, <2>8 DEF After
<1>8. QED  BY <1>6, <1>7

\* What the rest of a write does to the letters in memory.
Remembered(w, l) ==
  /\ remembered' = remembered \cup {l} /\ letter' = [letter EXCEPT ![w] = 0]
  /\ buffer' \in Seq(Nat) /\ Len(buffer') <= BufferMax /\ Items(buffer') \subseteq remembered \cup {l}

LEMMA RememberMoves ==
  ASSUME LetterTyped, NEW w \in Persister, NEW l \in Letters, l \notin remembered, NEW records, NEW queue, NEW h,
         Scene(w, remembered, records, queue, h), NEW armed \in BOOLEAN, Remember(w, l, records, queue, armed)
  PROVE  After(w, remembered \cup {l}) /\ Remembered(w, l)
<1>1. at \in Standing /\ taken \in [Persister -> Seq(Records)]
  BY DEF LetterTyped, Standing
<1> PICK all : all = Append(records, Record(l, FALSE))
  OBVIOUS
<1> PICK m : m = remembered \cup {l}
  OBVIOUS
<1>2. Scene(w, m, all, queue, h)
  <2>1. records \in Seq(Records) /\ Journal(remembered, records, h, file', orphans', lost')
    BY DEF Scene
  <2>2. all \in Seq(Records) /\ Journal(m, all, h, file', orphans', lost')
    BY <2>1, JournalGrows
  <2>3. QED  BY <2>2 DEF Scene
<1>3. After(w, m)
  <2>1. CASE Len(all) >= BatchMax
    <3>1. Flush(w, all, queue, armed)
      BY <2>1 DEF Remember
    <3>2. QED  BY <1>1, <1>2, <3>1, FlushMoves, ZenonT(60)
  <2>2. CASE ~(Len(all) >= BatchMax)
    <3>1. pending' = all /\ lock' = queue /\ Stand(w, "idle", TRUE) /\ taken' = taken
      BY <2>2 DEF Remember
    <3>2. QED  BY <1>1, <1>2, <3>1, QuitMoves
  <2>3. QED  BY <2>1, <2>2
<1>4. Remembered(w, l)
  <2> DEFINE old == Append(buffer, l)
  <2>1. buffer \in Seq(Nat) /\ Len(buffer) <= BufferMax /\ Items(buffer) \subseteq remembered /\ BufferMax \in Nat /\ BufferMax > 0
    BY LetterAssumption DEF LetterTyped
  <2>2. /\ old \in Seq(Nat) /\ Len(old) = Len(buffer) + 1 /\ Len(buffer) \in Nat
        /\ DOMAIN old = 1 .. Len(buffer) + 1
        /\ \A i \in DOMAIN old : old[i] = l \/ (i \in DOMAIN buffer /\ old[i] = buffer[i])
    BY <2>1 DEF Letters
  <2>3. \A i \in DOMAIN old : old[i] \in remembered \cup {l}
    BY <2>1, <2>2 DEF Items
  <2>4. remembered' = remembered \cup {l} /\ letter' = [letter EXCEPT ![w] = 0]
        /\ buffer' = IF Len(old) > BufferMax THEN Tail(old) ELSE old
    BY DEF Remember
  <2> HIDE DEF old
  <2>5. CASE Len(old) > BufferMax
    <3> DEFINE new == Tail(old)
    <3>1. Len(old) = BufferMax + 1
      BY <2>1, <2>2, <2>5
    <3>2. new \in Seq(Nat) /\ Len(new) = BufferMax /\ DOMAIN new = 1 .. BufferMax
          /\ \A i \in 1 .. BufferMax : new[i] = old[i + 1] /\ i + 1 \in DOMAIN old
      BY <2>1, <2>2, <3>1
    <3> HIDE DEF new
    <3>3. Items(new) \subseteq remembered \cup {l}
      BY <2>3, <3>2 DEF Items
    <3>4. buffer' = new
      BY <2>4, <2>5 DEF new
    <3>5. Len(new) <= BufferMax
      BY <2>1, <3>2
    <3>6. QED  BY <2>4, <3>2, <3>3, <3>4, <3>5 DEF Remembered
  <2>6. CASE ~(Len(old) > BufferMax)
    <3>1. Len(old) <= BufferMax
      BY <2>1, <2>2, <2>6
    <3>2. Items(old) \subseteq remembered \cup {l}
      BY <2>3 DEF Items
    <3>3. buffer' = old
      BY <2>4, <2>6
    <3>4. QED  BY <2>2, <2>4, <3>1, <3>2, <3>3 DEF Remembered
  <2>7. QED  BY <2>5, <2>6
<1>5. QED  BY <1>3, <1>4

\* Whoever is at the lock leaves it; the first one is followed by the next.
LEMMA LineLeft ==
  ASSUME InLine(lock, at), NEW t \in Persister, at[t] \in AtLock, NEW q, q = Leave(lock, t)
  PROVE  /\ q \in Seq(Persister) /\ Distinct(q) /\ Items(q) = {u \in Persister \ {t} : at[u] \in AtLock}
         /\ \A u \in Persister \ {t} : at[u] = "writing" => q # <<>> /\ Head(q) = u
         /\ Head(lock) = t => q = Tail(lock) /\ \A u \in Persister \ {t} : at[u] # "writing"
<1>1. /\ lock \in Seq(Persister) /\ Distinct(lock) /\ Items(lock) = {u \in Persister : at[u] \in AtLock}
      /\ \A u \in Persister : at[u] = "writing" => lock # <<>> /\ Head(lock) = u
  BY DEF InLine
<1>2. t \in Items(lock)
  BY <1>1
<1>3. q \in Seq(Persister) /\ Distinct(q) /\ Items(q) = Items(lock) \ {t}
  BY <1>1, <1>2, LeaveKeeps
<1>4. Head(lock) # t => q # <<>> /\ Head(q) = Head(lock)
  BY <1>1, <1>2, LeaveKeeps
<1>5. Head(lock) = t => q = Tail(lock)
  BY <1>1, <1>2, LeaveKeeps
<1>6. QED  BY <1>1, <1>3, <1>4, <1>5

\* The records of threads that are no longer awaited, the file and the rest.
DiskTyped ==
  /\ orphans \in SUBSET Seq(Records) /\ file \in Seq(Records) /\ lost \in SUBSET Records
  /\ cancels \in 0 .. MaxCancels

LEMMA LettersMove ==
  ASSUME NEW t \in Persister, NEW m, After(t, m), remembered' = m, Owing', DiskTyped',
         written' \in 0 .. MaxLetters, remembered' \subseteq 1 .. written',
         buffer' \in Seq(Nat), Len(buffer') <= BufferMax, Items(buffer') \subseteq remembered',
         letter' \in [Persister -> 0 .. MaxLetters]
  PROVE  LettersInv'
<1>1. /\ pending' \in Seq(Records) /\ at' \in Standing /\ taken' \in [Persister -> Seq(Records)]
      /\ InLine(lock', at')
      /\ \E h : InHand(h, at', taken') /\ Journal(m, pending', h, file', orphans', lost')
  BY DEF After
<1>2. LetterTyped'
  <2>1. Items(buffer)' \subseteq remembered'
    BY DEF Items
  <2>2. QED  BY <1>1, <2>1 DEF LetterTyped, Standing, DiskTyped
<1>3. PICK h : InHand(h, at', taken') /\ Journal(remembered', pending', h, file', orphans', lost')
  BY <1>1
<1>4. QED  BY <1>1, <1>2, <1>3 DEF LettersInv

\* The letter that a writer remembers is new, or the one it owed.
LEMMA RememberedMoves ==
  ASSUME LetterTyped, Owing, NEW w \in Persister, NEW l \in 1 .. written', After(w, remembered \cup {l}),
         Remembered(w, l), l = letter[w] \/ l = written + 1, DiskTyped',
         written' \in 0 .. MaxLetters, written' \in {written, written + 1}
  PROVE  LettersInv'
<1>1. /\ remembered' = remembered \cup {l} /\ letter' = [letter EXCEPT ![w] = 0]
      /\ buffer' \in Seq(Nat) /\ Len(buffer') <= BufferMax /\ Items(buffer') \subseteq remembered \cup {l}
  BY DEF Remembered
<1>2. /\ letter \in [Persister -> 0 .. MaxLetters] /\ written \in Nat /\ remembered \subseteq 1 .. written
      /\ MaxLetters \in Nat
  BY LetterAssumption DEF LetterTyped
<1>3. letter' \in [Persister -> 0 .. MaxLetters] /\ letter'[w] = 0 /\ \A u \in Persister \ {w} : letter'[u] = letter[u]
  BY <1>1, <1>2
<1>4. 1 .. written \subseteq 1 .. written'
  BY <1>2
<1>5. ASSUME NEW u \in Persister, letter'[u] # 0
      PROVE  at'[u] \in AtLock /\ u # Timer /\ letter'[u] \in 1 .. written' /\ letter'[u] \notin remembered'
  <2>1. u # w /\ letter'[u] = letter[u] /\ letter[u] # 0
    BY <1>3, <1>5
  <2>2. at[u] \in AtLock /\ u # Timer /\ letter[u] \in 1 .. written /\ letter[u] \notin remembered
    BY <2>1 DEF Owing
  <2>3. at'[u] \in AtLock
    BY <2>1, <2>2 DEF After
  <2>4. letter[u] # l
    <3>1. CASE l = letter[w]
      BY <2>1, <3>1 DEF Owing
    <3>2. CASE l = written + 1
      BY <1>2, <2>2, <3>2
    <3>3. QED  BY <3>1, <3>2
  <2>5. QED  BY <1>1, <1>4, <2>1, <2>2, <2>3, <2>4
<1>6. ASSUME NEW t \in Persister, NEW u \in Persister, letter'[t] # 0, letter'[t] = letter'[u]
      PROVE  t = u
  <2>1. t # w /\ u # w
    BY <1>3, <1>6
  <2>2. QED  BY <1>3, <1>6, <2>1 DEF Owing
<1>7. Owing'
  BY <1>5, <1>6 DEF Owing
<1>8. remembered' \subseteq 1 .. written'
  BY <1>1, <1>2, <1>4
<1>9. QED  BY <1>1, <1>3, <1>7, <1>8, LettersMove

\* Those who do not remember keep what they owe as long as they stand at the lock.
LEMMA OwingKept ==
  ASSUME LetterTyped, Owing, NEW t \in Persister, NEW m, After(t, m), m = remembered,
         UNCHANGED <<written, remembered, letter>>, letter[t] # 0 => at'[t] \in AtLock
  PROVE  Owing'
<1>1. ASSUME NEW u \in Persister, letter[u] # 0
      PROVE  at'[u] \in AtLock
  <2>1. at[u] \in AtLock
    BY <1>1 DEF Owing
  <2>2. QED  BY <1>1, <2>1 DEF After
<1>2. QED  BY <1>1 DEF Owing

LEMMA IdleScene ==
  ASSUME LettersInv, NEW t \in Persister, at[t] \notin AtLock, UNCHANGED disk
  PROVE  \E h : Scene(t, remembered, pending, lock, h)
<1>1. PICK h : InHand(h, at, taken) /\ Journal(remembered, pending, h, file, orphans, lost)
  BY DEF LettersInv
<1>2. /\ h \in Seq(Records) /\ \A u \in Persister : at[u] = "writing" => taken[u] = h
      /\ (\A u \in Persister : at[u] # "writing") => h = <<>>
  BY <1>1 DEF InHand
<1>3. at[t] # "writing"
  BY DEF AtLock
<1>4. Journal(remembered, pending, h, file', orphans', lost')
  BY <1>1 DEF disk
<1>5. Scene(t, remembered, pending, lock, h)
  BY <1>2, <1>3, <1>4 DEF Scene, LettersInv, LetterTyped, InLine
<1>6. QED  BY <1>5

LEMMA WriteLetterMoves ==
  ASSUME LettersInv, NEW w \in Writer, WriteLetter(w)
  PROVE  LettersInv'
<1> DEFINE n == written + 1
<1>1. /\ LetterTyped /\ Owing /\ w \in Persister /\ w # Timer /\ at[w] = "idle" /\ written < MaxLetters
      /\ written' = n /\ UNCHANGED disk /\ cancels' = cancels
  BY LetterAssumption DEF LettersInv, WriteLetter, Persister
<1>2. /\ written \in Nat /\ MaxLetters \in Nat /\ n \in Letters /\ n \in Nat /\ n \in 0 .. MaxLetters /\ n \in 1 .. n
      /\ remembered \subseteq 1 .. written /\ n \notin 1 .. written /\ 1 .. written \subseteq 1 .. n
      /\ BufferMax \in Nat /\ BufferMax > 0 /\ 1 .. written \subseteq Letters
  BY <1>1, LetterAssumption DEF LetterTyped, Letters
<1>3. n \notin remembered
  BY <1>2
<1>4. DiskTyped'
  BY <1>1 DEF LetterTyped, DiskTyped, disk
<1>5. PICK h : Scene(w, remembered, pending, lock, h)
  BY <1>1, IdleScene DEF AtLock
<1> PICK all : all = Append(pending, Record(Head(buffer), TRUE))
  OBVIOUS
<1>6. CASE Len(buffer) < BufferMax
  <2>1. Remember(w, n, pending, lock, FALSE)
    BY <1>6 DEF WriteLetter
  <2> HIDE DEF n
  <2>2. After(w, remembered \cup {n}) /\ Remembered(w, n)
    BY <1>1, <1>2, <1>3, <1>5, <2>1, RememberMoves
  <2>3. QED  BY <1>1, <1>2, <1>4, <2>2, RememberedMoves DEF n
<1>7. CASE ~(Len(buffer) < BufferMax)
  <2>1. Head(buffer) \in Letters
    <3>1. buffer \in Seq(Nat) /\ 1 \in DOMAIN buffer /\ Head(buffer) = buffer[1]
      BY <1>2, <1>7 DEF LetterTyped, LettersInv
    <3>2. Head(buffer) \in Items(buffer)
      BY <3>1 DEF Items
    <3>3. QED  BY <1>1, <1>2, <3>2 DEF LetterTyped
  <2>2. Scene(w, remembered, all, lock, h)
    <3>1. pending \in Seq(Records) /\ Journal(remembered, pending, h, file', orphans', lost')
      BY <1>5 DEF Scene
    <3>2. all \in Seq(Records) /\ Journal(remembered, all, h, file', orphans', lost')
      BY <2>1, <3>1, JournalRepeats
    <3>3. QED  BY <1>5, <3>2 DEF Scene
  <2>3. CASE Len(all) < BatchMax
    <3>1. Remember(w, n, all, lock, TRUE)
      BY <1>7, <2>3 DEF WriteLetter
    <3> HIDE DEF n
    <3>2. After(w, remembered \cup {n}) /\ Remembered(w, n)
      BY <1>1, <1>2, <1>3, <2>2, <3>1, RememberMoves
    <3>3. QED  BY <1>1, <1>2, <1>4, <3>2, RememberedMoves DEF n
  <2>4. CASE ~(Len(all) < BatchMax)
    <3>1. /\ letter' = [letter EXCEPT ![w] = n] /\ Flush(w, all, lock, FALSE)
          /\ UNCHANGED <<remembered, buffer>>
      BY <1>7, <2>4 DEF WriteLetter
    <3>2. at \in Standing /\ taken \in [Persister -> Seq(Records)] /\ letter \in [Persister -> 0 .. MaxLetters]
      BY <1>1 DEF LetterTyped, Standing
    <3> HIDE DEF n
    <3>3. After(w, remembered) /\ at'[w] \in AtLock
      BY <1>1, <2>2, <3>1, <3>2, FlushMoves
    <3>4. letter' \in [Persister -> 0 .. MaxLetters] /\ letter'[w] = n /\ \A u \in Persister \ {w} : letter'[u] = letter[u]
      BY <1>1, <1>2, <3>1, <3>2
    <3>5. \A u \in Persister \ {w} : letter[u] # 0 => at'[u] \in AtLock /\ u # Timer /\ letter[u] \in 1 .. n
                                                     /\ letter[u] \notin remembered /\ letter[u] # n
      <4> SUFFICES ASSUME NEW u \in Persister \ {w}, letter[u] # 0
                   PROVE  at'[u] \in AtLock /\ u # Timer /\ letter[u] \in 1 .. n
                          /\ letter[u] \notin remembered /\ letter[u] # n
        OBVIOUS
      <4>1. at[u] \in AtLock /\ u # Timer /\ letter[u] \in 1 .. written /\ letter[u] \notin remembered
        BY <1>1 DEF Owing
      <4>2. at'[u] \in AtLock
        BY <3>3, <4>1 DEF After
      <4>3. QED  BY <1>2, <4>1, <4>2
    <3>6. Owing'
      <4>1. ASSUME NEW u \in Persister, letter'[u] # 0
            PROVE  at'[u] \in AtLock /\ u # Timer /\ letter'[u] \in 1 .. written' /\ letter'[u] \notin remembered'
        <5>1. CASE u = w
          BY <1>1, <1>2, <1>3, <3>1, <3>3, <3>4, <5>1
        <5>2. CASE u # w
          BY <1>1, <3>1, <3>4, <3>5, <4>1, <5>2
        <5>3. QED  BY <5>1, <5>2
      <4>2. ASSUME NEW t \in Persister, NEW u \in Persister, letter'[t] # 0, letter'[t] = letter'[u]
            PROVE  t = u
        <5>1. CASE t # w /\ u # w
          BY <1>1, <3>4, <4>2, <5>1 DEF Owing
        <5>2. CASE t = w \/ u = w
          BY <3>4, <3>5, <4>2, <5>2
        <5>3. QED  BY <5>1, <5>2
      <4>3. QED  BY <4>1, <4>2 DEF Owing
    <3>7. remembered' \subseteq 1 .. written' /\ buffer' \in Seq(Nat) /\ Len(buffer') <= BufferMax
          /\ Items(buffer') \subseteq remembered' /\ written' \in 0 .. MaxLetters
      <4>1. buffer' = buffer /\ remembered' = remembered
        BY <3>1
      <4>2. QED  BY <1>1, <1>2, <4>1 DEF LetterTyped
    <3>8. QED  BY <1>1, <1>4, <3>1, <3>3, <3>4, <3>6, <3>7, LettersMove
  <2>5. QED  BY <2>3, <2>4
<1>8. QED  BY <1>6, <1>7

\* The first in the queue leaves it, with nothing left in its hands.
LEMMA HeadScene ==
  ASSUME LettersInv, NEW t \in Persister, at[t] \in AtLock, Head(lock) = t,
         Journal(remembered, pending, <<>>, file', orphans', lost')
  PROVE  Scene(t, remembered, pending, Tail(lock), <<>>)
<1> PICK q : q = Leave(lock, t)
  OBVIOUS
<1>1. /\ q \in Seq(Persister) /\ Distinct(q) /\ Items(q) = {u \in Persister \ {t} : at[u] \in AtLock}
      /\ q = Tail(lock) /\ \A u \in Persister \ {t} : at[u] # "writing"
  BY LineLeft DEF LettersInv
<1>2. <<>> \in Seq(Records) /\ pending \in Seq(Records)
  BY DEF LettersInv, LetterTyped
<1>3. QED  BY <1>1, <1>2 DEF Scene

\* A writer remembers what it owed; nobody else owes anything new.
LEMMA FlushedMoves ==
  ASSUME LettersInv, NEW t \in Persister, at[t] \in AtLock, Scene(t, remembered, pending, Tail(lock), <<>>),
         UNCHANGED written, DiskTyped',
         \/ letter[t] # 0 /\ Remember(t, letter[t], pending, Tail(lock), FALSE)
         \/ /\ letter[t] = 0 /\ lock' = Tail(lock) /\ Stand(t, "idle", FALSE)
            /\ taken' \in [Persister -> Seq(Records)] /\ \A u \in Persister \ {t} : taken'[u] = taken[u]
            /\ UNCHANGED <<remembered, buffer, pending, letter>>
  PROVE  LettersInv'
<1>1. /\ LetterTyped /\ Owing /\ written' = written /\ written \in 0 .. MaxLetters /\ written \in Nat
      /\ remembered \subseteq 1 .. written
  BY DEF LettersInv, LetterTyped
<1>2. CASE letter[t] # 0 /\ Remember(t, letter[t], pending, Tail(lock), FALSE)
  <2> PICK l : l = letter[t]
    OBVIOUS
  <2>1. l \in 1 .. written /\ l \notin remembered /\ l \in Letters
    <3>1. l \in 1 .. written /\ l \notin remembered
      BY <1>1, <1>2 DEF Owing
    <3>2. 1 .. written \subseteq Letters
      BY <1>1, LetterAssumption DEF Letters
    <3>3. QED  BY <3>1, <3>2
  <2>2. Remember(t, l, pending, Tail(lock), FALSE)
    BY <1>2
  <2>3. After(t, remembered \cup {l}) /\ Remembered(t, l)
    BY <1>1, <2>1, <2>2, RememberMoves
  <2>4. QED  BY <1>1, <2>1, <2>3, RememberedMoves
<1>3. CASE /\ letter[t] = 0 /\ lock' = Tail(lock) /\ Stand(t, "idle", FALSE)
           /\ taken' \in [Persister -> Seq(Records)] /\ \A u \in Persister \ {t} : taken'[u] = taken[u]
           /\ UNCHANGED <<remembered, buffer, pending, letter>>
  <2>1. at \in Standing
    BY <1>1 DEF LetterTyped, Standing
  <2>2. After(t, remembered)
    BY <1>3, <2>1, QuitMoves
  <2>3. Owing'
    BY <1>1, <1>3, <2>2, OwingKept
  <2>4. letter' \in [Persister -> 0 .. MaxLetters] /\ buffer' \in Seq(Nat) /\ Len(buffer') <= BufferMax
        /\ Items(buffer') \subseteq remembered' /\ remembered' \subseteq 1 .. written' /\ written' \in 0 .. MaxLetters
    <3>1. buffer' = buffer /\ remembered' = remembered /\ letter' = letter
      BY <1>3
    <3>2. QED  BY <1>1, <3>1 DEF LetterTyped
  <2>5. QED  BY <1>3, <2>2, <2>3, <2>4, LettersMove
<1>4. QED  BY <1>2, <1>3

\* Whoever stands first at the lock without writing has nobody writing beside it.
LEMMA NobodyWrites ==
  ASSUME LettersInv, NEW t \in Persister, at[t] = "waiting", Head(lock) = t
  PROVE  /\ \A u \in Persister : at[u] # "writing"
         /\ Journal(remembered, pending, <<>>, file, orphans, lost)
<1>1. \A u \in Persister : at[u] # "writing"
  BY DEF LettersInv, InLine
<1>2. PICK h : InHand(h, at, taken) /\ Journal(remembered, pending, h, file, orphans, lost)
  BY DEF LettersInv
<1>3. h = <<>>
  BY <1>1, <1>2 DEF InHand
<1>4. QED  BY <1>1, <1>2, <1>3

LEMMA ObtainMoves ==
  ASSUME LettersInv, NEW t \in Persister, Obtain(t)
  PROVE  LettersInv'
<1>1. /\ LetterTyped /\ Owing /\ InLine(lock, at) /\ at[t] = "waiting" /\ at[t] \in AtLock /\ Head(lock) = t
      /\ UNCHANGED <<written, orphans, file, lost, cancels>>
  BY DEF LettersInv, Obtain, disk, AtLock
<1>2. /\ \A u \in Persister : at[u] # "writing"
      /\ Journal(remembered, pending, <<>>, file, orphans, lost)
  BY <1>1, NobodyWrites
<1>3. DiskTyped'
  BY <1>1 DEF LetterTyped, DiskTyped
<1>4. CASE pending = <<>>
  <2>1. Scene(t, remembered, pending, Tail(lock), <<>>)
    BY <1>1, <1>2, HeadScene
  <2>2. Flushed(t)
    BY <1>4 DEF Obtain
  <2>3. \/ letter[t] # 0 /\ Remember(t, letter[t], pending, Tail(lock), FALSE)
        \/ /\ letter[t] = 0 /\ lock' = Tail(lock) /\ Stand(t, "idle", FALSE)
           /\ taken' \in [Persister -> Seq(Records)] /\ \A u \in Persister \ {t} : taken'[u] = taken[u]
           /\ UNCHANGED <<remembered, buffer, pending, letter>>
    BY <1>1, <2>2 DEF Flushed, LetterTyped
  <2>4. QED  BY <1>1, <1>3, <2>1, <2>3, FlushedMoves
<1>5. CASE pending # <<>>
  <2>1. /\ taken' = [taken EXCEPT ![t] = pending] /\ pending' = <<>> /\ Stand(t, "writing", FALSE)
        /\ UNCHANGED <<remembered, buffer, letter, lock>>
    BY <1>5 DEF Obtain, HandOver
  <2>2. at \in Standing /\ pending \in Seq(Records) /\ taken \in [Persister -> Seq(Records)]
    BY <1>1 DEF LetterTyped, Standing
  <2>3. /\ at' \in Standing /\ at'[t] = "writing"
        /\ \A u \in Persister \ {t} : at'[u] = at[u] \/ (at[u] = "idle" /\ at'[u] = "sleeping")
    BY <2>1, <2>2, StandFacts
  <2>4. \A u \in Persister \ {t} : (at'[u] \in AtLock <=> at[u] \in AtLock) /\ (at[u] \in AtLock => at'[u] = at[u])
    BY <2>3 DEF AtLock
  <2>5. \A u \in Persister : at'[u] = "writing" <=> u = t
    BY <1>2, <2>3
  <2>6. taken' \in [Persister -> Seq(Records)] /\ taken'[t] = pending
    BY <2>1, <2>2
  <2>7. InHand(pending, at', taken')
    BY <2>2, <2>5, <2>6 DEF InHand
  <2>8. InLine(lock', at')
    <3>1. at'[t] \in AtLock /\ t \in Items(lock)
      BY <1>1, <2>3 DEF AtLock, InLine
    <3>2. Items(lock) = {u \in Persister : at'[u] \in AtLock}
      BY <1>1, <2>4, <3>1 DEF InLine
    <3>3. lock # <<>>
      BY <3>1 DEF Items
    <3>4. \A u \in Persister : at'[u] = "writing" => lock # <<>> /\ Head(lock) = u
      BY <1>1, <2>5, <3>3
    <3>5. lock' = lock
      BY <2>1
    <3>6. QED  BY <1>1, <3>2, <3>4, <3>5 DEF InLine
  <2>9. Journal(remembered, <<>>, pending, file', orphans', lost')
    BY <1>1, <1>2, JournalHanded
  <2>10. After(t, remembered)
    <3>1. pending' \in Seq(Records)
      BY <2>1
    <3>2. QED  BY <2>1, <2>3, <2>4, <2>6, <2>7, <2>8, <2>9, <3>1 DEF After
  <2>11. Owing'
    BY <1>1, <2>1, <2>3, <2>10, OwingKept DEF AtLock
  <2>12. letter' \in [Persister -> 0 .. MaxLetters] /\ buffer' \in Seq(Nat) /\ Len(buffer') <= BufferMax
        /\ Items(buffer') \subseteq remembered' /\ remembered' \subseteq 1 .. written' /\ written' \in 0 .. MaxLetters
    <3>1. buffer' = buffer /\ remembered' = remembered /\ letter' = letter /\ written' = written
      BY <1>1, <2>1
    <3>2. QED  BY <1>1, <3>1 DEF LetterTyped
  <2>13. QED  BY <1>3, <2>1, <2>10, <2>11, <2>12, LettersMove
<1>6. QED  BY <1>4, <1>5

LEMMA WakeMoves ==
  ASSUME LettersInv, Wake
  PROVE  LettersInv'
<1>1. /\ LetterTyped /\ Owing /\ Timer \in Persister /\ at[Timer] = "sleeping" /\ at[Timer] \notin AtLock
      /\ UNCHANGED <<written, remembered, buffer, letter, cancels>> /\ UNCHANGED disk
  BY DEF LettersInv, Wake, Persister, AtLock
<1>2. PICK h : Scene(Timer, remembered, pending, lock, h)
  BY <1>1, IdleScene
<1>3. at \in Standing /\ taken \in [Persister -> Seq(Records)]
  BY <1>1 DEF LetterTyped, Standing
<1>4. After(Timer, remembered)
  <2>1. CASE pending = <<>>
    <3>1. Stand(Timer, "idle", FALSE) /\ UNCHANGED <<pending, lock, taken>>
      BY <2>1 DEF Wake
    <3>2. QED  BY <1>1, <1>2, <1>3, <3>1, QuitMoves
  <2>2. CASE pending # <<>>
    <3>1. Flush(Timer, pending, lock, FALSE)
      BY <2>2 DEF Wake
    <3>2. QED  BY <1>1, <1>2, <1>3, <3>1, FlushMoves
  <2>3. QED  BY <2>1, <2>2
<1>5. DiskTyped'
  BY <1>1 DEF LetterTyped, DiskTyped, disk
<1>6. letter[Timer] = 0
  BY <1>1 DEF Owing
<1>7. Owing'
  BY <1>1, <1>4, <1>6, OwingKept
<1>8. letter' \in [Persister -> 0 .. MaxLetters] /\ buffer' \in Seq(Nat) /\ Len(buffer') <= BufferMax
      /\ Items(buffer') \subseteq remembered' /\ remembered' \subseteq 1 .. written' /\ written' \in 0 .. MaxLetters
  <2>1. buffer' = buffer /\ remembered' = remembered /\ letter' = letter /\ written' = written
    BY <1>1
  <2>2. QED  BY <1>1, <2>1 DEF LetterTyped
<1>9. QED  BY <1>1, <1>4, <1>5, <1>7, <1>8, LettersMove

LEMMA PersistFacts ==
  ASSUME NEW s \in Seq(Records), Persist(s), file \in Seq(Records), lost \in SUBSET Records
  PROVE  /\ \E n \in 0 .. Len(s) : file' = Filed(file, s, n) /\ lost' = lost \cup Spoilt(s, n)
         /\ file' \in Seq(Records) /\ lost' \in SUBSET Records
<1>1. PICK n \in 0 .. Len(s) : file' = Filed(file, s, n) /\ lost' = lost \cup Spoilt(s, n)
  BY DEF Persist, Filed, Spoilt
<1>2. \A i \in DOMAIN s : s[i] \in Records
  OBVIOUS
<1>3. n + 1 .. Len(s) \subseteq DOMAIN s
  OBVIOUS
<1>4. Spoilt(s, n) \subseteq Records
  BY <1>2, <1>3 DEF Spoilt
<1>5. SubSeq(s, 1, n) \in Seq(Records)
  OBVIOUS
<1>6. Filed(file, s, n) \in Seq(Records)
  BY <1>5, ConcatProperties DEF Filed
<1>7. QED  BY <1>1, <1>4, <1>6

LEMMA WrittenMoves ==
  ASSUME LettersInv, NEW t \in Persister, Written(t)
  PROVE  LettersInv'
<1>1. /\ LetterTyped /\ Owing /\ InLine(lock, at) /\ at[t] = "writing" /\ at[t] \in AtLock /\ Head(lock) = t
      /\ UNCHANGED <<written, orphans, cancels>> /\ Persist(taken[t])
  BY DEF LettersInv, Written, AtLock, InLine
<1>2. taken \in [Persister -> Seq(Records)] /\ file \in Seq(Records) /\ lost \in SUBSET Records /\ taken[t] \in Seq(Records)
  BY <1>1 DEF LetterTyped
<1>3. PICK h : InHand(h, at, taken) /\ Journal(remembered, pending, h, file, orphans, lost)
  BY DEF LettersInv
<1>4. h = taken[t] /\ h \in Seq(Records)
  BY <1>1, <1>3 DEF InHand
<1>5. PICK n \in 0 .. Len(h) : file' = Filed(file, h, n) /\ lost' = lost \cup Spoilt(h, n)
  BY <1>1, <1>2, <1>4, PersistFacts
<1>6. Journal(remembered, pending, <<>>, file', orphans, lost')
  BY <1>2, <1>3, <1>4, <1>5, JournalWritten
<1>7. Scene(t, remembered, pending, Tail(lock), <<>>)
  BY <1>1, <1>6, HeadScene
<1>8. DiskTyped'
  <2>1. file' \in Seq(Records) /\ lost' \in SUBSET Records
    BY <1>1, <1>2, PersistFacts
  <2>2. QED  BY <1>1, <2>1 DEF LetterTyped, DiskTyped
<1>9. CASE letter[t] # 0
  <2>1. Remember(t, letter[t], pending, Tail(lock), FALSE)
    BY <1>9 DEF Written
  <2>2. QED  BY <1>1, <1>7, <1>8, <1>9, <2>1, FlushedMoves
<1>10. CASE letter[t] = 0
  <2>1. /\ lock' = Tail(lock) /\ Stand(t, "idle", FALSE) /\ taken' = [taken EXCEPT ![t] = <<>>]
        /\ UNCHANGED <<remembered, buffer, pending, letter>>
    BY <1>10 DEF Written
  <2>2. <<>> \in Seq(Records)
    OBVIOUS
  <2>3. taken' \in [Persister -> Seq(Records)] /\ \A u \in Persister \ {t} : taken'[u] = taken[u]
    BY <1>2, <2>1, <2>2
  <2>4. QED  BY <1>1, <1>7, <1>8, <1>10, <2>1, <2>3, FlushedMoves
<1>11. QED  BY <1>9, <1>10

LEMMA OrphanMoves ==
  ASSUME LettersInv, OrphanWritten
  PROVE  LettersInv'
<1>1. PICK r \in orphans : /\ Persist(r) /\ orphans' = orphans \ {r}
                           /\ UNCHANGED <<written, remembered, buffer, pending, lock, at, letter, taken, cancels>>
  BY DEF OrphanWritten
<1>2. LetterTyped /\ r \in Seq(Records) /\ file \in Seq(Records) /\ lost \in SUBSET Records
  BY DEF LettersInv, LetterTyped
<1>3. /\ \E n \in 0 .. Len(r) : file' = Filed(file, r, n) /\ lost' = lost \cup Spoilt(r, n)
      /\ file' \in Seq(Records) /\ lost' \in SUBSET Records
  BY <1>1, <1>2, PersistFacts
<1>4. PICK n \in 0 .. Len(r) : file' = Filed(file, r, n) /\ lost' = lost \cup Spoilt(r, n)
  BY <1>3
<1>5. PICK h : InHand(h, at, taken) /\ Journal(remembered, pending, h, file, orphans, lost)
  BY DEF LettersInv
<1>6. Journal(remembered, pending, h, file', orphans', lost')
  BY <1>1, <1>2, <1>4, <1>5, JournalOrphanWritten
<1>7. LetterTyped'
  BY <1>1, <1>2, <1>3 DEF LetterTyped, Items
<1>8. Owing'
  BY <1>1 DEF LettersInv, Owing
<1>9. InLine(lock', at') /\ InHand(h, at', taken') /\ Journal(remembered', pending', h, file', orphans', lost')
  BY <1>1, <1>5, <1>6 DEF LettersInv
<1>10. QED  BY <1>7, <1>8, <1>9 DEF LettersInv

LEMMA CancelWriterMoves ==
  ASSUME LettersInv, NEW w \in Writer, CancelWriter(w)
  PROVE  LettersInv'
<1> PICK q : q = Leave(lock, w)
  OBVIOUS
<1>1. /\ LetterTyped /\ Owing /\ InLine(lock, at) /\ w \in Persister /\ at[w] \in AtLock /\ cancels < MaxCancels
      /\ cancels' = cancels + 1 /\ lock' = q /\ Stand(w, "idle", FALSE)
      /\ orphans' = IF at[w] = "writing" THEN orphans \cup {taken[w]} ELSE orphans
      /\ taken' = [taken EXCEPT ![w] = <<>>] /\ letter' = [letter EXCEPT ![w] = 0]
      /\ UNCHANGED <<written, remembered, buffer, pending, file, lost>>
  BY DEF LettersInv, CancelWriter, AtLock, Persister
<1>2. /\ q \in Seq(Persister) /\ Distinct(q) /\ Items(q) = {u \in Persister \ {w} : at[u] \in AtLock}
      /\ \A u \in Persister \ {w} : at[u] = "writing" => q # <<>> /\ Head(q) = u
  BY <1>1, LineLeft
<1>3. PICK h : InHand(h, at, taken) /\ Journal(remembered, pending, h, file, orphans, lost)
  BY DEF LettersInv
<1>4. /\ h \in Seq(Records) /\ \A u \in Persister : at[u] = "writing" => taken[u] = h
      /\ (\A u \in Persister : at[u] # "writing") => h = <<>>
  BY <1>3 DEF InHand
<1>5. /\ at \in Standing /\ taken \in [Persister -> Seq(Records)] /\ <<>> \in Seq(Records)
      /\ letter \in [Persister -> 0 .. MaxLetters] /\ pending \in Seq(Records)
  BY <1>1 DEF LetterTyped, Standing
<1>6. taken' \in [Persister -> Seq(Records)] /\ \A u \in Persister \ {w} : taken'[u] = taken[u]
  BY <1>1, <1>5
<1>7. After(w, remembered)
  <2>1. CASE at[w] = "writing"
    <3>1. h = taken[w] /\ orphans' = orphans \cup {h}
      BY <1>1, <1>4, <2>1
    <3>2. Journal(remembered, pending, <<>>, file', orphans', lost')
      BY <1>1, <1>3, <3>1, JournalOrphaned
    <3>3. \A u \in Persister \ {w} : at[u] # "writing"
      BY <1>1, <2>1 DEF InLine
    <3>4. Scene(w, remembered, pending, q, <<>>)
      BY <1>2, <1>5, <3>2, <3>3 DEF Scene
    <3>5. QED  BY <1>1, <1>5, <1>6, <3>4, QuitMoves
  <2>2. CASE at[w] # "writing"
    <3>1. Journal(remembered, pending, h, file', orphans', lost')
      BY <1>1, <1>3, <2>2
    <3>2. Scene(w, remembered, pending, q, h)
      BY <1>2, <1>4, <1>5, <2>2, <3>1 DEF Scene
    <3>3. QED  BY <1>1, <1>5, <1>6, <3>2, QuitMoves
  <2>3. QED  BY <2>1, <2>2
<1>8. letter' \in [Persister -> 0 .. MaxLetters] /\ letter'[w] = 0 /\ \A u \in Persister \ {w} : letter'[u] = letter[u]
  <2>1. 0 \in 0 .. MaxLetters
    BY LetterAssumption
  <2>2. QED  BY <1>1, <1>5, <2>1
<1>9. Owing'
  <2>1. ASSUME NEW u \in Persister, letter'[u] # 0
        PROVE  at'[u] \in AtLock /\ u # Timer /\ letter'[u] \in 1 .. written' /\ letter'[u] \notin remembered'
    <3>1. u # w /\ letter'[u] = letter[u]
      BY <1>8, <2>1
    <3>2. at[u] \in AtLock /\ u # Timer /\ letter[u] \in 1 .. written /\ letter[u] \notin remembered
      BY <1>1, <2>1, <3>1 DEF Owing
    <3>3. at'[u] \in AtLock
      BY <1>7, <3>1, <3>2 DEF After
    <3>4. QED  BY <1>1, <3>1, <3>2, <3>3
  <2>2. ASSUME NEW t \in Persister, NEW u \in Persister, letter'[t] # 0, letter'[t] = letter'[u]
        PROVE  t = u
    BY <1>1, <1>8, <2>2 DEF Owing
  <2>3. QED  BY <2>1, <2>2 DEF Owing
<1>10. DiskTyped'
  <2>1. orphans' \in SUBSET Seq(Records)
    BY <1>1, <1>5 DEF LetterTyped
  <2>2. cancels' \in 0 .. MaxCancels
    BY <1>1, LetterAssumption DEF LetterTyped
  <2>3. QED  BY <1>1, <2>1, <2>2 DEF LetterTyped, DiskTyped
<1>11. buffer' \in Seq(Nat) /\ Len(buffer') <= BufferMax
       /\ Items(buffer') \subseteq remembered' /\ remembered' \subseteq 1 .. written' /\ written' \in 0 .. MaxLetters
  <2>1. buffer' = buffer /\ remembered' = remembered /\ written' = written
    BY <1>1
  <2>2. QED  BY <1>1, <2>1 DEF LetterTyped
<1>12. QED  BY <1>1, <1>7, <1>8, <1>9, <1>10, <1>11, LettersMove

LEMMA LettersStutter ==
  ASSUME LettersInv, UNCHANGED lvars
  PROVE  LettersInv'
<1>1. UNCHANGED <<written, remembered, buffer, pending, lock, at, letter, taken, orphans, file, lost, cancels>>
  BY DEF lvars
<1>2. PICK h : InHand(h, at, taken) /\ Journal(remembered, pending, h, file, orphans, lost)
  BY DEF LettersInv
<1>3. InLine(lock', at') /\ InHand(h, at', taken') /\ Journal(remembered', pending', h, file', orphans', lost')
  BY <1>1, <1>2 DEF LettersInv
<1>4. LetterTyped' /\ Owing'
  BY <1>1 DEF LettersInv, LetterTyped, Owing, Items
<1>5. QED  BY <1>3, <1>4 DEF LettersInv

LEMMA LettersNext ==
  ASSUME LettersInv, [LNext]_lvars
  PROVE  LettersInv'
<1>1. CASE UNCHANGED lvars
  BY <1>1, LettersStutter
<1>2. ASSUME NEW w \in Writer, WriteLetter(w) \/ CancelWriter(w)
      PROVE  LettersInv'
  BY <1>2, WriteLetterMoves, CancelWriterMoves
<1>3. ASSUME NEW t \in Persister, Go(t)
      PROVE  LettersInv'
  BY <1>3, ObtainMoves, WrittenMoves, WakeMoves DEF Go
<1>4. CASE OrphanWritten
  BY <1>4, OrphanMoves
<1>5. QED  BY <1>1, <1>2, <1>3, <1>4 DEF LNext

LEMMA LettersInit ==
  ASSUME LInit
  PROVE  LettersInv
<1> DEFINE none == <<>>
<1>1. /\ written = 0 /\ remembered = {} /\ buffer = none /\ pending = none /\ lock = none
      /\ at = [t \in Persister |-> "idle"] /\ letter = [t \in Persister |-> 0]
      /\ taken = [t \in Persister |-> none] /\ orphans = {} /\ file = none /\ lost = {} /\ cancels = 0
  BY DEF LInit
<1>2. /\ none \in Seq(Nat) /\ none \in Seq(Records) /\ none \in Seq(Persister) /\ Len(none) = 0
      /\ Items(none) = {} /\ Distinct(none) /\ \A l : ~In(none, l) /\ Once(none, l)
  BY NothingIn DEF Items, Distinct
<1>3. /\ 0 \in 0 .. MaxLetters /\ 0 \in 0 .. MaxCancels /\ 0 <= BufferMax
  BY LetterAssumption
<1>4. InHand(none, at, taken)
  BY <1>1, <1>2 DEF InHand
<1> HIDE DEF none
<1>5. LetterTyped
  BY <1>1, <1>2, <1>3 DEF LetterTyped
<1>6. Owing
  BY <1>1 DEF Owing
<1>7. InLine(lock, at)
  BY <1>1, <1>2 DEF InLine, AtLock
<1>8. Journal(remembered, pending, none, file, orphans, lost)
  BY <1>1, <1>2 DEF Journal, Alone, Somewhere
<1>9. QED  BY <1>4, <1>5, <1>6, <1>7, <1>8 DEF LettersInv

LEMMA LettersInvKept == LSpec => []LettersInv
BY LettersInit, LettersNext, PTL DEF LSpec

\* The types of the dead letters, of the buffer's bound and of what waits for
\* the file (agent/core/event_stream.py 755-845).
THEOREM LetterTypesKept == LSpec => []LTypeOK
<1>1. LettersInv => LTypeOK
  <2> SUFFICES ASSUME LettersInv PROVE LTypeOK
    OBVIOUS
  <2>1. LetterTyped /\ lock \in Seq(Persister)
    BY DEF LettersInv, InLine
  <2>2. buffer \in Seq(remembered)
    <3>1. buffer \in Seq(Nat) /\ Items(buffer) \subseteq remembered
      BY <2>1 DEF LetterTyped
    <3>2. \A i \in DOMAIN buffer : buffer[i] \in remembered
      BY <3>1 DEF Items
    <3>3. buffer = [i \in 1 .. Len(buffer) |-> buffer[i]] /\ Len(buffer) \in Nat /\ DOMAIN buffer = 1 .. Len(buffer)
      BY <3>1
    <3>4. QED  BY <3>2, <3>3, IsASeq
  <2>3. QED  BY <2>1, <2>2 DEF LetterTyped, LTypeOK
<1>2. QED  BY <1>1, LettersInvKept, PTL

\* LockServed, for any number of writers.
THEOREM LockAlwaysServed == LSpec => []LockServed
<1>1. LettersInv => LockServed
  <2> SUFFICES ASSUME LettersInv PROVE LockServed
    OBVIOUS
  <2>1. /\ lock \in Seq(Persister) /\ Distinct(lock) /\ Items(lock) = {t \in Persister : at[t] \in AtLock}
        /\ \A t \in Persister : at[t] = "writing" => lock # <<>> /\ Head(lock) = t
    BY DEF LettersInv, InLine
  <2>2. \A i \in DOMAIN lock : at[lock[i]] \in AtLock
    BY <2>1 DEF Items
  <2>3. QED  BY <2>1, <2>2 DEF LockServed, AtLock, Distinct
<1>2. QED  BY <1>1, LettersInvKept, PTL

LEMMA CopiesCount ==
  ASSUME NEW s, NEW l, Once(s, l)
  PROVE  /\ In(s, l) => Copies(s, l) = 1
         /\ ~In(s, l) => Copies(s, l) = 0
<1> DEFINE S == {i \in DOMAIN s : s[i] = Record(l, FALSE)}
<1>1. CASE In(s, l)
  <2>1. PICK i \in DOMAIN s : s[i] = Record(l, FALSE)
    BY <1>1 DEF In
  <2>2. S = {i}
    BY <2>1 DEF Once
  <2> HIDE DEF S
  <2>3. Cardinality(S) = 1
    BY <2>2, FS_Singleton
  <2>4. QED  BY <1>1, <2>3 DEF Copies, S
<1>2. CASE ~In(s, l)
  <2>1. S = {}
    BY <1>2 DEF In
  <2> HIDE DEF S
  <2>2. Cardinality(S) = 0
    BY <2>1, FS_EmptySet
  <2>3. QED  BY <1>2, <2>2 DEF Copies, S
<1>3. QED  BY <1>1, <1>2

\* A set of which at most one element has what the others do not.
LEMMA AtMostOne ==
  ASSUME NEW S, \A x, y \in S : x = y
  PROVE  (S = {} => Cardinality(S) = 0) /\ (S # {} => Cardinality(S) = 1)
<1>1. S = {} \/ \E x : S = {x}
  OBVIOUS
<1>2. QED  BY <1>1, FS_EmptySet, FS_Singleton

LEMMA OneOrNone ==
  ASSUME NEW x, NEW S
  PROVE  /\ (IF x \in S THEN 1 ELSE 0) \in {0, 1}
         /\ ((IF x \in S THEN 1 ELSE 0) = 1 <=> x \in S)
<1>1. CASE x \in S
  BY <1>1
<1>2. CASE x \notin S
  BY <1>2
<1>3. QED  BY <1>1, <1>2

\* JournalComplete, for any number of writers, letters and cancellations, and
\* every size of the buffer and of a batch.
THEOREM NoLetterForgotten == LSpec => []JournalComplete
<1>1. LettersInv => JournalComplete
  <2> SUFFICES ASSUME LettersInv, NEW l \in remembered
               PROVE  LET held == {t \in Persister : at[t] = "writing" /\ Copies(taken[t], l) = 1}
                          left == {records \in orphans : Copies(records, l) = 1}
                      IN  Copies(pending, l) + Copies(file, l) + Cardinality(held) + Cardinality(left)
                            + (IF Record(l, FALSE) \in lost THEN 1 ELSE 0) = 1
    BY DEF JournalComplete
  <2> DEFINE held == {t \in Persister : at[t] = "writing" /\ Copies(taken[t], l) = 1}
             left == {records \in orphans : Copies(records, l) = 1}
             gone == IF Record(l, FALSE) \in lost THEN 1 ELSE 0
  <2>1. PICK h : InHand(h, at, taken) /\ Journal(remembered, pending, h, file, orphans, lost)
    BY DEF LettersInv
  <2>2. l \in Letters
    BY LetterAssumption DEF LettersInv, LetterTyped, Letters
  <2>3. Alone(l, pending, h, file, orphans, lost) /\ Somewhere(l, pending, h, file, orphans, lost)
    BY <2>1, <2>2 DEF Journal
  <2>4. /\ In(pending, l) => Copies(pending, l) = 1
        /\ ~In(pending, l) => Copies(pending, l) = 0
    BY <2>3, CopiesCount DEF Alone
  <2>5. /\ In(file, l) => Copies(file, l) = 1
        /\ ~In(file, l) => Copies(file, l) = 0
    BY <2>3, CopiesCount DEF Alone
  <2>6. /\ In(h, l) => Cardinality(held) = 1
        /\ ~In(h, l) => Cardinality(held) = 0
    <3>1. \A t \in Persister : at[t] = "writing" => taken[t] = h
      BY <2>1 DEF InHand
    <3>2. \A t, u \in Persister : at[t] = "writing" /\ at[u] = "writing" => t = u
      BY DEF LettersInv, InLine
    <3>3. (In(h, l) => Copies(h, l) = 1) /\ (~In(h, l) => Copies(h, l) = 0)
      BY <2>3, CopiesCount DEF Alone
    <3>4. \A t, u \in held : t = u
      BY <3>2
    <3>5. In(h, l) => held # {}
      <4> SUFFICES ASSUME In(h, l)
                   PROVE  held # {}
        OBVIOUS
      <4>1. h # <<>>
        BY NothingIn
      <4>2. PICK t \in Persister : at[t] = "writing"
        BY <2>1, <4>1 DEF InHand
      <4>3. t \in held
        BY <3>1, <3>3, <4>2
      <4>4. QED  BY <4>3
    <3>6. ~In(h, l) => held = {}
      BY <3>1, <3>3
    <3> HIDE DEF held
    <3>7. QED  BY <3>4, <3>5, <3>6, AtMostOne
  <2>7. /\ (\E r \in orphans : In(r, l)) => Cardinality(left) = 1
        /\ ~(\E r \in orphans : In(r, l)) => Cardinality(left) = 0
    <3>1. \A r \in orphans : (In(r, l) => Copies(r, l) = 1) /\ (~In(r, l) => Copies(r, l) = 0)
      BY <2>3, CopiesCount DEF Alone
    <3>2. \A r \in orphans : r \in left <=> In(r, l)
      BY <3>1
    <3>3. \A r, q \in left : r = q
      BY <2>3, <3>2 DEF Alone
    <3>4. (\E r \in orphans : In(r, l)) <=> left # {}
      BY <3>2
    <3> HIDE DEF left
    <3>5. QED  BY <3>3, <3>4, AtMostOne
  <2> DEFINE a == Copies(pending, l)
             b == Copies(file, l)
             c == Cardinality(held)
             d == Cardinality(left)
  <2>8. /\ a \in {0, 1} /\ b \in {0, 1} /\ c \in {0, 1} /\ d \in {0, 1} /\ gone \in {0, 1}
        /\ (a = 1 <=> In(pending, l)) /\ (b = 1 <=> In(file, l)) /\ (c = 1 <=> In(h, l))
        /\ (d = 1 <=> \E r \in orphans : In(r, l)) /\ (gone = 1 <=> Record(l, FALSE) \in lost)
    <3> HIDE DEF held, left, gone
    <3>1. a \in {0, 1} /\ (a = 1 <=> In(pending, l))
      BY <2>4
    <3>2. b \in {0, 1} /\ (b = 1 <=> In(file, l))
      BY <2>5
    <3>3. c \in {0, 1} /\ (c = 1 <=> In(h, l))
      BY <2>6
    <3>4. d \in {0, 1} /\ (d = 1 <=> \E r \in orphans : In(r, l))
      BY <2>7
    <3>5. gone \in {0, 1} /\ (gone = 1 <=> Record(l, FALSE) \in lost)
      BY OneOrNone DEF gone
    <3> HIDE DEF a, b, c, d
    <3>6. QED  BY <3>1, <3>2, <3>3, <3>4, <3>5
  <2> HIDE DEF a, b, c, d, gone, held, left
  <2>9. a = 1 \/ b = 1 \/ c = 1 \/ d = 1 \/ gone = 1
    BY <2>3, <2>8 DEF Somewhere
  <2>10. /\ a = 1 => b # 1 /\ c # 1 /\ d # 1 /\ gone # 1
         /\ c = 1 => b # 1 /\ d # 1 /\ gone # 1
         /\ b = 1 => d # 1 /\ gone # 1
         /\ d = 1 => gone # 1
    BY <2>3, <2>8 DEF Alone
  <2>11. a + b + c + d + gone = 1
    BY <2>8, <2>9, <2>10
  <2>12. QED  BY <2>11 DEF a, b, c, d, gone, held, left
<1>2. QED  BY <1>1, LettersInvKept, PTL

-----------------------------------------------------------------------------
(* All that the agents of a process use at once. *)

LEMMA BusOfEachPart == MCSpec => Spec /\ DeliverySpec /\ LSpec /\ CSpec
<1>1. MCInit => Init /\ DInit /\ LInit /\ CInit
  BY DEF MCInit
<1>2. [MCNext]_allVars => [Next]_vars /\ [DNext]_dvars /\ [LNext]_lvars /\ [CNext]_cvars
  BY DEF MCNext, allVars
<1>3. QED  BY <1>1, <1>2, PTL DEF MCSpec, Spec, DeliverySpec, LSpec, CSpec

\* Connection, delivery, dead letters and model calls are well typed,
\* whichever of them go on.
THEOREM SharedTypes == MCSpec => []MCTypeOK
<1>1. TypeOK /\ DTypeOK /\ LTypeOK /\ CTypeOK <=> MCTypeOK
  BY DEF MCTypeOK
<1>2. QED
  BY <1>1, BusOfEachPart, BusTypes, DeliveryTypes, LetterTypesKept, CallTypesKept, PTL
=============================================================================
