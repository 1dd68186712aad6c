---------------------------- MODULE BusBootstrap ----------------------------
(***************************************************************************)
(* How AgentEventBus (agent/core/event_stream.py) sets up, uses and gives  *)
(* up its Redis connection: publishers, bootstrap tasks and listener tasks *)
(* all run the same code on the same attributes and cancel one another.    *)
(*                                                                         *)
(* One asyncio loop runs the tasks.  A task that has the turn keeps it     *)
(* until it suspends or ends, so that no other task sees what happens      *)
(* between two awaits.  Any Redis command may succeed or fail: the broker  *)
(* may be down, and another task may have closed the client meanwhile.     *)
(* A publisher may be cancelled where it awaits, by a time-out of what it  *)
(* works for or because its reply is replaced.                             *)
(* What is published and who receives it is not part of this module.       *)
(***************************************************************************)
CONSTANTS
  Publisher,  \* coroutines that await AgentEventBus.publish
  Bootstrap,  \* tasks of _schedule_redis_bootstrap
  Listener,   \* tasks of _redis_listener_loop
  None        \* no task

Task == Publisher \cup Bootstrap \cup Listener

ASSUME TaskAssumption ==
  /\ Publisher \cap Bootstrap = {}
  /\ Publisher \cap Listener = {}
  /\ Bootstrap \cap Listener = {}
  /\ None \notin Task

VARIABLES
  client,     \* is _redis_client set?
  connected,  \* is _redis_loop the running loop?
  available,  \* _redis_available
  bootTask,   \* _redis_bootstrap_task
  listenTask, \* _redis_listener_task
  turn,       \* the task that is running; None between two steps of the loop
  pc,         \* where each task stands
  back,       \* where _cleanup_redis returns to
  waits,      \* the task whose end a task awaits
  cancelled,  \* has the task been cancelled since it last ran?
  abandoned   \* history: was a publisher cancelled while it set up the client?

bus   == <<client, connected, available, bootTask, listenTask>>
calls == <<back, waits, cancelled>>
vars  == <<bus, turn, pc, calls, abandoned>>

Init ==
  /\ client = FALSE
  /\ connected = FALSE
  /\ available = "unknown"
  /\ bootTask = None
  /\ listenTask = None
  /\ turn = None
  /\ pc = [t \in Task |-> IF t \in Publisher THEN "idle" ELSE "done"]
  /\ back = [t \in Task |-> "done"]
  /\ waits = [t \in Task |-> None]
  /\ cancelled = [t \in Task |-> FALSE]
  /\ abandoned = FALSE

-----------------------------------------------------------------------------
\* Task t stands at a place and may run; a Redis command it awaits is over.
At(t, place)    == pc[t] = place /\ turn \in {None, t}
Reply(t, place) == At(t, place) /\ ~cancelled[t]

\* Task t goes on to a place, or suspends there, or ends.
Goto(t, place)    == pc' = [pc EXCEPT ![t] = place] /\ turn' = t
Suspend(t, place) == pc' = [pc EXCEPT ![t] = place] /\ turn' = None

\* There is no task t, or it has ended.
Ended(t) == t # None => pc[t] \in {"done", "crashed"}

\* A task object that nothing refers to.
Spare(t) ==
  /\ Ended(t)
  /\ t \notin {bootTask, listenTask}
  /\ \A u \in Task : waits[u] # t

\* `except Exception`: give up, clean up, and go on at a place.
GiveUp(t, place) ==
  /\ available' = "no"
  /\ back' = [back EXCEPT ![t] = place]
  /\ Goto(t, "clean")

\* The end of _ensure_redis_listener: its task ends, a publisher goes on.
AfterEnsure(t) == IF t \in Publisher THEN Goto(t, "publish") ELSE Suspend(t, "done")

\* A mutation of Schedule: the scheduled task is a listener loop.
ScheduleListener(places) ==
  IF available # "no" /\ Ended(bootTask)
  THEN \E l \in Listener : /\ Spare(l)
                           /\ pc' = [places EXCEPT ![l] = "new"]
                           /\ bootTask' = l
  ELSE pc' = places /\ UNCHANGED bootTask

\* _schedule_redis_bootstrap; `places` is where the tasks stand otherwise.
Schedule(places) ==
  IF available # "no" /\ Ended(bootTask)
  THEN \E b \in Bootstrap : /\ Spare(b)
                            /\ pc' = [places EXCEPT ![b] = "new"]
                            /\ bootTask' = b
  ELSE pc' = places /\ UNCHANGED bootTask

-----------------------------------------------------------------------------
\* subscribe() schedules the bootstrap.
Subscribe ==
  /\ turn = None
  /\ Schedule(pc)
  /\ UNCHANGED <<client, connected, available, listenTask, turn, calls>>

\* publish() schedules it too, and goes on to the loop's compatibility.
Publish(p) ==
  /\ pc[p] = "idle" /\ turn = None
  /\ available # "no"
  /\ Schedule([pc EXCEPT ![p] = "compat"])
  /\ turn' = p
  /\ UNCHANGED <<client, connected, available, listenTask, calls>>

\* A new bootstrap task runs, unless it was cancelled before.
Begin(b) ==
  /\ b \in Bootstrap
  /\ At(b, "new")
  /\ IF cancelled[b] THEN Suspend(b, "done") ELSE Goto(b, "ensure")
  /\ cancelled' = [cancelled EXCEPT ![b] = FALSE]
  /\ UNCHANGED <<bus, back, waits>>

\* _ensure_redis_listener: nothing is tried again once Redis was given up.
Ensure(t) ==
  /\ At(t, "ensure")
  /\ IF available = "no" THEN AfterEnsure(t) ELSE Goto(t, "compat2")
  /\ UNCHANGED <<bus, calls>>

\* _ensure_redis_loop_compatibility, called by publish and by ensure: with a
\* client or a listener but without their loop, everything is cleaned up.
Compat(t) ==
  /\ At(t, "compat") \/ At(t, "compat2")
  /\ LET next == IF pc[t] = "compat" THEN "ensure" ELSE "check"
     IN  IF (~client /\ listenTask = None) \/ connected
         THEN Goto(t, next) /\ UNCHANGED <<available, back>>
         ELSE /\ available' = "unknown"
              /\ back' = [back EXCEPT ![t] = next]
              /\ Goto(t, "clean")
  /\ UNCHANGED <<client, connected, bootTask, listenTask, waits, cancelled>>

\* The rest of ensure: a new client is pinged, an old one is asked for the
\* consumer group; a listener that runs is enough.
Check(t) ==
  /\ At(t, "check")
  /\ IF Ended(listenTask)
     THEN Suspend(t, IF client THEN "group" ELSE "ping") /\ client' = TRUE
     ELSE AfterEnsure(t) /\ UNCHANGED client
  /\ UNCHANGED <<connected, available, bootTask, listenTask, calls>>

\* `await self._redis_client.ping()` is over.  The client it belongs to may
\* be gone, and then the next command fails on None.
Pinged(t) ==
  /\ Reply(t, "ping")
  /\ \/ /\ connected' = TRUE
        /\ IF client THEN Suspend(t, "group") /\ UNCHANGED <<available, back>>
                     ELSE GiveUp(t, "return")
     \/ GiveUp(t, "return") /\ UNCHANGED connected
  /\ UNCHANGED <<client, bootTask, listenTask, waits, cancelled>>

\* `await self._redis_client.xgroup_create(...)` is over: a listener starts.
GroupCreated(t) ==
  /\ Reply(t, "group")
  /\ \/ /\ available' = "yes"
        /\ \E l \in Listener :
             /\ Spare(l)
             /\ listenTask' = l
             /\ pc' = [pc EXCEPT ![l] = "new",
                                 ![t] = IF t \in Publisher THEN "publish" ELSE "done"]
        /\ turn' = IF t \in Publisher THEN t ELSE None
        /\ UNCHANGED back
     \/ GiveUp(t, "return") /\ UNCHANGED listenTask
  /\ UNCHANGED <<client, connected, bootTask, waits, cancelled>>

\* The cleanup of a failed ensure is over.
Returning(t) ==
  /\ At(t, "return")
  /\ AfterEnsure(t)
  /\ UNCHANGED <<bus, calls>>

\* The rest of _publish_via_redis: xadd, if there is a client to use.
Write(p) ==
  /\ At(p, "publish")
  /\ Suspend(p, IF client /\ available = "yes" THEN "add" ELSE "idle")
  /\ UNCHANGED <<bus, calls>>

\* `await self._redis_client.xadd(...)` is over; a failure is written to the
\* dead letters, which may suspend.
Added(p) ==
  /\ Reply(p, "add")
  /\ \E place \in {"idle", "deadLetter"} : Suspend(p, place)
  /\ UNCHANGED <<bus, calls>>

DeadLetterWritten(p) ==
  /\ Reply(p, "deadLetter")
  /\ GiveUp(p, "idle")
  /\ UNCHANGED <<client, connected, bootTask, listenTask, waits, cancelled>>

-----------------------------------------------------------------------------
\* _redis_listener_loop begins with `assert self._redis_client is not None`.
Listen(l) ==
  /\ l \in Listener
  /\ At(l, "new")
  /\ Suspend(l, IF cancelled[l] THEN "done" ELSE IF client THEN "read" ELSE "crashed")
  /\ cancelled' = [cancelled EXCEPT ![l] = FALSE]
  /\ UNCHANGED <<bus, back, waits>>

\* A mutation of Read: Redis is given up without a cleanup.
ReadGivesUp(l) ==
  /\ Reply(l, "read")
  /\ available' = "no"
  /\ Suspend(l, "done")
  /\ UNCHANGED <<client, connected, bootTask, listenTask, calls>>

\* xreadgroup has failed, or there is no client left to read on from.
Read(l) ==
  /\ Reply(l, "read")
  /\ GiveUp(l, "done")
  /\ UNCHANGED <<client, connected, bootTask, listenTask, waits, cancelled>>

\* CancelledError is no Exception: the task, or the publisher's call, ends where
\* it stands.
Abort(t) ==
  /\ \E place \in {"ping", "group", "add", "deadLetter", "read"} : At(t, place)
  /\ cancelled[t]
  /\ Suspend(t, IF t \in Publisher THEN "idle" ELSE "done")
  /\ cancelled' = [cancelled EXCEPT ![t] = FALSE]
  /\ UNCHANGED <<bus, back, waits>>

\* A cleanup was all that the task had left to do.
Finish(t) ==
  /\ turn = t
  /\ pc[t] \in {"idle", "done"}
  /\ turn' = None
  /\ UNCHANGED <<bus, pc, calls>>

-----------------------------------------------------------------------------
\* Task t, the task it awaits, the task that one awaits, and so on.
Chain(t) ==
  {u \in Task : \A S \in SUBSET Task :
     (t \in S /\ \A v \in S : waits[v] \in S \cup {None}) => u \in S}

\* task.cancel(): a task that awaits another one passes the call on to it, and
\* a cancellation that comes as the awaited task has ended is suppressed.
Cancel(t) ==
  cancelled' = [u \in Task |-> IF u \in Chain(t) /\ waits[u] = None
                               THEN ~Ended(u) ELSE cancelled[u]]

\* A publisher that awaits something is cancelled by those it works for.
CancelPublisher(p) ==
  /\ turn = None
  /\ pc[p] \in {"ping", "group", "add", "deadLetter", "awaitListener", "awaitBootstrap", "close"}
  /\ Cancel(p)
  /\ UNCHANGED <<bus, turn, pc, back, waits>>

\* A mutation of CancelTask: a task may cancel and await itself.
CancelAny(t, u, next, wait) ==
  IF Ended(u)
  THEN Goto(t, next) /\ UNCHANGED <<waits, cancelled>>
  ELSE /\ Suspend(t, wait)
       /\ waits' = [waits EXCEPT ![t] = u]
       /\ cancelled' = [cancelled EXCEPT ![u] = TRUE]

\* _cancel_background_task(u) called by t: a task does not await itself.
CancelTask(t, u, next, wait) ==
  IF Ended(u) \/ u = t
  THEN Goto(t, next) /\ UNCHANGED <<waits, cancelled>>
  ELSE /\ Suspend(t, wait)
       /\ waits' = [waits EXCEPT ![t] = u]
       /\ Cancel(u)

\* The task that t awaits has ended.
Awaited(t, place) ==
  /\ At(t, place)
  /\ Ended(waits[t])
  /\ waits' = [waits EXCEPT ![t] = None]

\* _cleanup_redis: the listener goes first...
Clean(t) ==
  /\ At(t, "clean")
  /\ CancelTask(t, listenTask, "clean2", "awaitListener")
  /\ listenTask' = IF turn' = t THEN None ELSE listenTask
  /\ UNCHANGED <<client, connected, available, bootTask, back>>

ListenerGone(t) ==
  /\ Awaited(t, "awaitListener")
  /\ listenTask' = None
  /\ Goto(t, "clean2")
  /\ UNCHANGED <<client, connected, available, bootTask, back, cancelled>>

\* ...then the bootstrap task...
Clean2(t) ==
  /\ At(t, "clean2")
  /\ CancelTask(t, bootTask, "clean3", "awaitBootstrap")
  /\ bootTask' = IF turn' = t THEN None ELSE bootTask
  /\ UNCHANGED <<client, connected, available, listenTask, back>>

BootstrapGone(t) ==
  /\ Awaited(t, "awaitBootstrap")
  /\ bootTask' = None
  /\ Goto(t, "clean3")
  /\ UNCHANGED <<client, connected, available, listenTask, back, cancelled>>

\* ...then the client, which is closed, and its loop.
Clean3(t) ==
  /\ At(t, "clean3")
  /\ IF client
     THEN Suspend(t, "close") /\ UNCHANGED <<connected, back>>
     ELSE /\ connected' = FALSE
          /\ Goto(t, back[t])
          /\ back' = [back EXCEPT ![t] = "done"]
  /\ UNCHANGED <<client, available, bootTask, listenTask, waits, cancelled>>

\* The close is over, or cut short by a cancellation, which is suppressed:
\* whatever client the attribute holds by now is forgotten.
Closed(t) ==
  /\ At(t, "close")
  /\ client' = FALSE
  /\ connected' = FALSE
  /\ cancelled' = [cancelled EXCEPT ![t] = FALSE]
  /\ Goto(t, back[t])
  /\ back' = [back EXCEPT ![t] = "done"]
  /\ UNCHANGED <<available, bootTask, listenTask, waits>>

-----------------------------------------------------------------------------
\* The steps the event loop takes for task t, listeners' reads apart.
Run(t) ==
  \/ Begin(t) \/ Ensure(t) \/ Compat(t) \/ Check(t) \/ Pinged(t) \/ GroupCreated(t)
  \/ Returning(t) \/ Write(t) \/ Added(t) \/ DeadLetterWritten(t)
  \/ Listen(t) \/ Abort(t) \/ Finish(t)
  \/ Clean(t) \/ ListenerGone(t) \/ Clean2(t) \/ BootstrapGone(t) \/ Clean3(t) \/ Closed(t)

Act ==
  \/ Subscribe
  \/ \E p \in Publisher : Publish(p) \/ CancelPublisher(p)
  \/ \E l \in Listener : Read(l)
  \/ \E t \in Task : Run(t)

\* A client is abandoned by a publisher whose setup does not come to its end,
\* until it is forgotten, or another setup has completed.
Observe ==
  abandoned' = /\ client' /\ ~(connected' /\ available' = "yes")
               /\ \/ abandoned
                  \/ \E p \in Publisher : pc[p] \in {"ping", "group"} /\ pc'[p] = "idle"

Next == Act /\ Observe

Spec == Init /\ [][Next]_vars

-----------------------------------------------------------------------------
Place == {"idle", "compat", "publish", "add", "deadLetter", "new", "ensure", "compat2",
          "check", "ping", "group", "return", "read", "clean", "awaitListener", "clean2",
          "awaitBootstrap", "clean3", "close", "done", "crashed"}

TypeOK ==
  /\ client \in BOOLEAN
  /\ connected \in BOOLEAN
  /\ available \in {"unknown", "yes", "no"}
  /\ bootTask \in Bootstrap \cup {None}
  /\ listenTask \in Listener \cup {None}
  /\ turn \in Task \cup {None}
  /\ pc \in [Task -> Place]
  /\ back \in [Task -> Place]
  /\ waits \in [Task -> Task \cup {None}]
  /\ cancelled \in [Task -> BOOLEAN]
  /\ abandoned \in BOOLEAN

\* `assert self._redis_client is not None` at the head of the listener loop.
ListenerFindsClient == \A l \in Listener : pc[l] # "crashed"

\* Cleanups cancel and await the tasks of other cleanups.  Whatever they do to
\* one another, no tasks wait in a circle, each for the end of the next, and
\* none waits for a listener that nobody has told to stop reading.
NoEndlessWait ==
  /\ \A S \in (SUBSET Task) \ {{}} : \E t \in S : waits[t] \notin S
  /\ \A t \in Task :
       waits[t] # None /\ pc[waits[t]] = "read" => cancelled[waits[t]]

\* No call is under way; listeners read, or have crashed.
AtRest == turn = None /\ \A t \in Task : pc[t] \in {"idle", "done", "read", "crashed"}

\* However setups and cleanups have overlapped, they leave no connection that
\* a later publish would use without its loop, or that is kept open although
\* Redis was given up or never reached; and no listener that the next check of
\* the loop would not see.  The one exception is a client that a cancelled
\* publisher has left half set up.
ConnectionSettled ==
  AtRest => /\ available = "unknown" => listenTask = None
            /\ \/ abandoned
               \/ /\ client => connected
                  /\ available # "yes" => ~client
                  /\ available = "unknown" => ~connected
=============================================================================
