# A TLA+ verification of Sidar

Sidar is an assistant platform in Python: a FastAPI server with a React client, a set
of agents that delegate work to one another, and managers that act on files, GitHub,
browsers and messaging services.  It runs on one asyncio event loop per process, with
Redis (or RabbitMQ, Kafka) between processes.  What is hard in it is what coroutines do
to shared objects between two `await`s, and what is left behind when one of them times
out, fails or is cancelled.  This directory models those parts in TLA+, checks them with
TLC on small instances and proves the central ones with TLAPS for all sizes.

## Inventory

| Component | State it keeps | Operations | What is hard |
|---|---|---|---|
| Approval gate (`core/hitl.py`, `web/routes/hitl.py`) | deque and index of requests; per request decision, decider, times | `request_approval`, `respond`, `pending`, `POST /api/hitl/request` | answers, sweep and time-out race; eviction of a request somebody waits for |
| Guarded writes (`managers/code_manager.py`, `managers/code/file_io_security.py`) | the file | `write_file_hitl`, `patch_file_hitl`, ungated writers | the path changes between check, approval and write; failing writes |
| Collaboration rooms (`web/routes/collaboration.py`, `ws_chat.py`, `ws_lifecycle.py`) | dictionary of rooms; participants, history, active reply; idle timers | join, leave, switch, message, command, cancel, disconnect, idle drop | objects outlive their name; timers and replies hold old objects; cancel-and-replace across awaits |
| Event bus, Redis connection (`agent/core/event_stream.py`) | client, its loop, availability, bootstrap and listener task | subscribe, publish, bootstrap, listen, cleanup | tasks run the same setup at once and cancel one another |
| Event bus, delivery and dead letters (same file) | subscriber queues, the listener's batch; dead letters in memory and on file | fan-out, read, acknowledge, set aside; buffer, flush, persist | full queues, acknowledgements that fail one by one, cancelled flushes and a failing disk |
| Supervisor (`agent/core/supervisor.py`, `circuit_breaker.py`) | turn and hop counters, retries, breaker states | `_delegate`, `_route_p2p`, `run_task` | shared turn budget; time-outs cancel calls; breaker closed by late success |
| Swarm (`agent/swarm.py`) | course of a task, idempotency cache | execute, hand off, retry, roll back, fall back; `dispatch_distributed` | nested budgets and loops; check-await-store on the cache |
| Nightly maintenance (`agent/maintenance/nightly.py`, `core/distributed_lock.py`) | local lock, Redis lease | acquire, run, release | lease expiry, late commands, Redis outage, crashes |
| Self-heal (`agent/self_heal`) | attempts, backups, patched files | autofix, back up, patch, validate, roll back | failures at each step, overlapping attempts, cancellation |
| Voice sessions (`web/routes/ws_voice.py`, `core/voice.py`) | audio buffer, running turn, numbers of turns and segments | commit, cancel, barge-in, disconnect | cancel-and-replace across awaits |
| Conversation memory (`core/memory.py`) | active user and session, turns; sessions and messages in the database | switch, create, load, add, summarise, compact, clear, delete | one object for all handlers, read-await-replace |
| Database lane (`core/db/connection.py`) | lock, worker thread, open transaction | `_run_sqlite_op` | retries, rollbacks that fail, cancelled callers whose thread goes on |
| Model calls (`core/llm_client.py`, `core/llm/ollama.py`, `core/router.py`) | GPU slots, daily cost | route, look up, acquire, ask, retry, stream, fall back | slots handed on between cancelled, retried and streaming calls; check-then-charge |
| Semantic cache, rate limits | entries, counters | look up, count | one command each, with local fallbacks |
| Agents, RAG, other tables, managers, plugins, client, installer | — | I/O, prompting, storage, settings | not protocol state; see *Not modelled* |

How they interact: agents and managers **await** the gate; the operator answers through
the HITL routes; chat handlers start agent replies as tasks **owned by a room**, which
subscribe to the event bus for status; every agent **publishes** to the bus and calls a
model through **one client with shared GPU slots**; supervisor and swarm **delegate** to
agents, and the swarm's fallback starts a supervisor; chat and voice handlers **share one
memory**, whose database operations go through **one lane**; nightly work of several pods
excludes itself by a **lease** in Redis and compacts the same memory.  `PROJECT.json` lists
every component with its status, and under "hazards" each place where this can go wrong,
with the property that watches it or the reason why none does.

What makes each component correct, in a sentence: the gate lets nobody through without a
timely approval and decides once; a guarded write touches what it saw only when approved;
a room is one object for everybody in it and loses neither history nor reply to a
departure; the bus ends every cleanup and leaves a usable or closed connection; a
subscriber hears events without a gap, the listener settles what it has read, a dead
letter is recorded once; a delegation ends within its budget and an agent that fails is
left alone; a swarm task ends, and its parts share one budget; a repeated dispatch is
answered from the cache while its key is recent; maintenance runs in one
pod at a time, except beyond the end of a lease; a failed repair leaves the files as they were; a voice client gets one turn after the other;
turns stay in the conversation they were said in, in their order, except where
summaries are interleaved with others; a write is in the database
whole or not at all; a GPU slot is neither lost nor given twice.

## Modules

| Module | Models | Correspondence |
|---|---|---|
| `ApprovalGate` | what the gate promises | `Ask`, `Decide`, `Grant`, `Refuse`, `Bypass`; no time, queue or polling |
| `HitlGate` | `core/hitl.py` and its routes | `requests`/`index` are the store's deque and dictionary; a caller's coroutine stands at `notify` (broadcast), `poll` (sleeping) or has returned; `Poll` and `GiveUp` are the loop and the code after it, `Pending` is the sweep |
| `GuardedWrite` | `write_file_hitl`, `patch_file_hitl` over `HitlGate` | writers are the gate's callers; each action is the code between two awaits: existence check, comparison, request, write |
| `CollaborationRoom` | one room name, its room objects and the `/ws/chat` handlers | `Room` is the set of objects, `registered` the dictionary's entry; handlers wait at `announce`, `replace` or `stop`; replies and timers are actors that hold an object |
| `BusBootstrap` | the bus's Redis connection | every task has a place in the code; the one that has the `turn` runs on until it suspends; a cleanup cancels and awaits other tasks; a publisher is cancelled by what it works for (`CancelPublisher`); `abandoned` is a history: a publisher has left a client half set up |
| `EventDelivery` | fan-out and the listener's loop | a queue per subscriber; the batch with kind, fate and acknowledgement of each entry |
| `DeadLetters` | `_write_dead_letter` and the flushes | `buffer`, `pending`, `lock` are the attributes; writers and the timer's task stand at `waiting` or `writing`; `orphans` are threads whose coroutine was cancelled |
| `TaskBudget` | what a supervisor promises of its budget | `BBegin`, `BCall`, `BAnswer`, `BStop` |
| `Delegation` | `run_task`, `_route_p2p`, `_delegate`, the circuit breaker | `run[t]` holds the locals of a task's coroutines; `Delegate` is the code from one suspension to the call of the agent, `Answer`, `Raise` and `TimeOut` what follows it |
| `Swarm` | `_execute_task` of one task, over `Delegation` | `job` is the course of the task; its fallback starts the task `Fallback` of a supervisor with a fresh breaker |
| `SwarmDispatch` | `dispatch_distributed` | `cache` is the `OrderedDict` |
| `NightlyMaintenance` | pods, the lease, Redis and the network | `sets` and `dels` are commands under way; `thread` is what `asyncio.to_thread` goes on with after a cancellation (`NightlyCancelled`, `ThreadEnds`); `Expires`, `CommandLost`, `Crash` the faults; `lapsed` is a history: the run's lease is over |
| `SelfHeal` | the orchestrator and executor | an attempt's place, backups and operations; each file operation of a thread is an action |
| `VoiceSession` | `/ws/voice` | the handler's place, its turns' tasks, `DuplexState`, and what the client gets |
| `ConversationMemory` | `ConversationMemory` over sessions and messages | `user`, `session`, `turns` are the attributes; `doing` is what each coroutine awaits; `calls` the order of the database's operations; a turn is its number in the order of saying, which it keeps when `apply_summary` adds it again (`Say` numbers, `Enter` adds); `home` and `conversation` are histories: where a turn was said, and whose turns a session holds |
| `SqliteLane` | `_run_sqlite_op` | `lane` is the executor's queue, `turnOf` the lock, `conn` the open transaction |
| `ModelCalls` | `LLMClient.chat` with router, GPU slots and retries | `gpu` is the semaphore, `chat` the call of each coroutine, `spent` the tracker |
| `Queues` | a queue somebody leaves from the middle | `Leave` is `deque.remove`: a cancelled waiter of a lock, semaphore or executor, a key of an `OrderedDict` |
| `MCHitlGate`, `MCGuardedWrite`, `MCCollaborationRoom` | instances of one module | symmetry sets, where no liveness is checked |
| `MCWebSockets`, `MCEventBus`, `MCAgents`, `MCMaintenance` | instances of several modules | a variable `part` says which of them a behaviour is about |
| `HitlGateProofs`, `GuardedWriteProofs`, `RoomProofs` | theorems about the module each is named after | see *Proofs* |
| `WebSocketProofs` | theorems about `VoiceSession`, `ConversationMemory`, `SqliteLane` | |
| `BusProofs` | theorems about `BusBootstrap`, `EventDelivery`, `DeadLetters`, `ModelCalls` | |
| `AgentsProofs` | theorems about `Delegation`, `Swarm`, `SwarmDispatch` | |
| `MaintenanceProofs` | theorems about `NightlyMaintenance`, `SelfHeal` | |
| `QueueProofs` | lemmas about `Leave` and queues in which nobody waits twice | |

An asyncio task runs without interruption from one suspension to the next, so an action
is the code between two `await`s that really suspend.  `HitlGate` goes further where it
may: awaiting the store's uncontended lock does not suspend, since no holder ever
suspends inside.  `BusBootstrap` splits such a stretch into smaller actions (helpers are
called from several places) and keeps the turn across them, which comes to the same.

Data is abstracted to what the properties tell apart.  A file is absent or the set of
authors whose text it holds; a room's history is empty or not; requests carry no payload.
Messages are stored in the order they are inserted in (clock steps are
ignored), and session ids are not used twice.  Time in `HitlGate` counts polling periods.  The TTL of a room has no clock: a timer is
`"current"` if it was armed by the latest departure, `"stale"` once the object is in use
again, and timers fire oldest first.

Modules that meet only through a few facts are checked in one run: `part` is chosen
initially, and a behaviour takes only steps of its part.  This loses nothing, since no
variable of one part is read or written by another, so that an interleaving of two parts
is a behaviour of each with stutters of the other.  Where components do share state they
are composed for real: `GuardedWrite` with `HitlGate`, `Swarm` with `Delegation`, the
handlers, timers and replies of `CollaborationRoom`, everything in `BusBootstrap`.
What a part assumes of another is stated there:

- `ConversationMemory` takes the database's operations as whole and in the order of the
  calls.  `SqliteLane` shows why: the asyncio lock is first-come first-served and is held
  until the one worker thread is done, so that a caller's operation begins after those
  called before it.  A cancelled caller is the exception, in both modules: its last
  operation may still take effect (`CancelledLate`).  With PostgreSQL operations go
  through a pool and keep no order; that is not modelled.
- `EventDelivery` may be cancelled or suspended wherever it awaits, which is all that
  `BusBootstrap` and `DeadLetters` do to it.
- `ModelCalls` stands for the agents' calls inside a delegation, which `Delegation` takes
  as a call that answers, raises or is cancelled.

Definitions that are named as a *mutation* of another one are deliberate errors: with the
mutation in the place of the definition, TLC finds the property violated that
`PROJECT.json` pairs it with, which shows that the property watches that code.

## Runs

| Run | Question | Instance | Result |
|---|---|---|---|
| `hitl` | can a caller get through unapproved, a decision change, the store disagree with itself, a caller wait forever? Is `ApprovalGate` implemented? | 1 caller, 2 manual requests, 1 operator, store of 2, time-out 2, clock to 3 | holds |
| `hitl_refusal` | does a refusal mean rejected or timed out? | 1 caller | **violated** |
| `guarded_write` | can a file somebody saw be touched unapproved? can refused text get into it? | 2 writers, store of 1, an ungated writer | holds |
| `unapproved_overwrite` | is an existing file overwritten only with approval? | 2 writers, gate as above | **violated** |
| `web_sockets` | can a room be split, or lose its history or reply to a departure? do voice clients get one turn after the other? do turns stay in their conversation, in order, through switches, summaries and compactions? is a write whole? | 2 sockets, 2 room objects, 2 replies; 3 utterances of 2 segments; 2 coroutines, 2 users, 3 sessions, 3 turns, 5 calls; 2 database clients, 3 attempts, 3 writes | holds |
| `room_liveness` | is an abandoned room dropped, does a handler go on? | 2 sockets, 1 object, 2 replies | holds |
| `room_ttl` | is an emptied room kept for the whole TTL? | 1 socket, 2 objects, 2 replies | **violated** |
| `event_bus` | can cleanups wait for each other, what connection is left when all is quiet, with publishers that are cancelled? has what a subscriber hears a gap? is a batch settled before the next one? is a dead letter recorded once, the lock given on? is a GPU slot lost, the budget overrun by more than what overlaps? | 1 publisher, 2 bootstraps, 2 listeners; 2 subscribers with queues of 2, 4 events, 3 entries; 2 writers and the timer, 5 letters, 1 cancellation; 3 model calls, 1 slot, 1 retry, budget of 1, 1 fallback | holds |
| `bus_assert` | does a listener find its client, as it asserts? | connection alone | **violated** |
| `dead_letters` | is every dead letter persisted in the end? | 2 writers, 4 letters, no cancellation | **violated** |
| `agents` | are turn budgets kept, is an agent with an open circuit left alone, does every task end, is `TaskBudget` implemented? does a swarm task end, within one budget? are recent dispatches remembered? | 2 tasks, 4 turns, 2 hops, 1 QA retry, breaker at 2; 2 goals, 2 handoffs, 1 retry; 2 dispatchers, 3 keys, cache of 2 | holds |
| `maintenance` | do two pods maintain at once within their leases? does a rollback restore, are attempts bounded, does every attempt end? | 2 pods, 2 attempts each; 2 heals of 2 files, 2 patches, 2 attempts | holds |

The five violated ones are disagreements between a text of the repository and the code:

- `hitl_refusal`: `request_approval` promises that `False` means *rejected or timed out*
  (`core/hitl.py:221`).  It also returns `False` for an evicted request, and for one that
  is approved after the last poll: the operator sees *approved*, the caller is refused.
  `ApprovalHonoured` says how much of the promise is kept: on a responsive loop only an
  approval within the last period, or an eviction, is lost.
- `unapproved_overwrite`: *Require human approval before overwriting an existing file*
  (`managers/code_manager.py:369`) holds for files that exist when `write_file_hitl`
  looks (`SeenOverwriteApproved`), not for one created between that look and the write.
- `room_ttl`: an emptied room is to be kept for the TTL
  (`web/routes/collaboration.py:349-353`).  Timers are not cancelled by a rejoin, so that
  an early departure's timer cuts the period of a later one short.
- `bus_assert`: `assert self._redis_client is not None` at the head of the listener loop
  (`agent/core/event_stream.py:453`) fails when a cleanup that was closing the client
  forgets it after another task has started a listener on it.
- `dead_letters`: `test_write_dead_letter_persists_to_jsonl_when_path_configured`
  (`tests/unit/agent/core/test_event_stream.py:1207`) says that a letter is persisted when
  a path is configured.  `_schedule_dead_letter_flush` (`agent/core/event_stream.py:788`)
  starts no task while the last one is not done, but that one may have handed its records
  to its thread already: a letter written meanwhile waits until another one follows.

What the models showed beside these, without a text that excludes it:

- A dispatch in flight is not remembered, so that two overlapping dispatches of one key
  are both sent.
- The swarm's shared turn budget (`agent/swarm.py:577-585`) is exceeded by retries, and by
  the one turn a fallback has anyhow; `SharedBudget` counts both.
- A reviewer whose circuit is open does not review, which counts as no revision needed.
- Overlapping heals undo each other's patches: a rollback restores what it has backed up.
- A `SET` that takes effect after its caller has given up leaves a key that nobody holds;
  the maintenance is skipped until the key expires.
- An oversized voice message closes the session without cancelling the turn that runs.
- A cancelled listener loses the rest of the batch it has read.
- A compaction replaces what it has read before an await: a message added meanwhile is
  lost (it is not misplaced, which `TurnsOfSession` and `TurnsInOrder` exclude).
- Interleaved `set_active_user` calls leave one user's session under the other's name.
- `apply_summary` adds the kept turns again one by one, each to the session that is active
  by then (`core/memory.py:459-460`).  A switch between two of them puts old turns into
  another session; a message or another summary between them comes before turns that were
  said earlier.  Without the exception for such sessions (`Whole`) TLC finds both after a
  few calls: stored `<<0, 2, 1>>`, and turns of two conversations in one session.
- A publisher that a time-out or a cancelled reply takes from its setup of the connection
  (`agent/core/event_stream.py:231`, `235`; `CancelledError` is no `Exception`) leaves a client
  without its loop or its listener.  The next publish or bootstrap closes a client without
  its loop, and starts the listener of one that has it; if Redis was given up meanwhile,
  nothing does.
- A nightly run that is cancelled when its pod shuts down releases the lease while the
  thread it awaited (`agent/maintenance/nightly.py:106`) goes on consolidating documents:
  another pod may begin beside it.
- A part of a write whose caller was cancelled is committed by the next operation, although
  `core/db/sessions.py:359` speaks of an atomic replacement.
- A spent budget routes calls to the local provider (`core/router.py:372`), but if that
  fails a client whose own provider is a paid one calls it anyhow.

### Bounds, and why they are enough

- Store of two with three requests: the third evicts a pending or decided request, waited
  for or not.  Time-out of two periods separates a poll before, at and after the deadline.
  `MaxTime` only stops new requests that would outlive it.
- Two writers are what a stale read, a patch of the other's text, and one evicting the
  other need; `Other` stands for any number of ungated writers.
- Two room objects: one registered, one dropped but still held by timers or handlers.
  Objects and reply ids are used again once nothing refers to them, so that runs are not
  cut off by the bound.  Two sockets and two replies give a replaced and a replacing
  reply.  In `room_liveness` one object is enough: the question is about the registered
  one.  Several stale timers of one object are one element of a set that may fire more
  than once.
- Two bootstraps and two listeners: the registered one and an orphan of each kind, reused
  when nothing refers to them; with the publisher three setups overlap.
- Queues of two with four events: a queue fills, overflows and is used again.  Three
  entries with reads of two: a full batch and the next one.  A buffer and batches of two
  with five letters: an overflow with a full batch, another batch under way, and letters
  left over; one cancellation at any await, with a thread that goes on.
- Two tasks of one supervisor: one's calls fail while the other's run, which is what the
  breaker is shared for.  Four turns hold a code, review and revise round and one more;
  two failures open a circuit, as one could not.  Two goals repeat twice within two
  handoffs.  Three keys and a cache of two: an eviction while a call is in flight.
- Two pods of which one requires the lock, two attempts each: the last and a late one's
  commands.  `MaxRuns` and the attempts are used up for good, as attempts are in the code
  (deadlock is therefore not checked in `maintenance`).  Two files and one attempt alone,
  or one file and two overlapping ones: a partial rollback, and a foreign write.
- Three utterances with two tasks: one running, one replacing it, and a reuse.  Three turns
  with a limit of three and one kept: truncation, compaction and a message after both.
  Five calls on three sessions: a summary whose turns meet the session of another user or
  the next summary.
  Three attempts, as in the code, of three writes of two clients: one retried while the
  other waits, one after both.
- Three model calls and one slot: one holds it, one has been woken, one waits behind.
- Model values are shared between the parts of `MCWebSockets`, which have no state in
  common, to keep the group of permutations small.
- `CHECK_DEADLOCK FALSE` is given only where the system may stop: when all requests are
  decided and the clock is at its bound, or when runs and attempts are used up.  A closed
  voice session and dead letters at their bound may rest too, and have a step for it, so
  that a deadlock anywhere else is found.

### Fairness

`EveryCallerAnswered` assumes that broadcasts end, that due coroutines run and that time
passes (weak fairness; each of these steps stays enabled until it is taken).  Answers and
new requests are not fair.  Without a bound on how late a coroutine runs
`ApprovalHonoured` could not hold; `prompt` makes the responsive loop a case of the model
and every other property is checked with and without it.

The room properties assume that the event loop runs handlers whose wait is over, that
reply tasks end (the agent's calls have time-outs) and that timers fire; what clients send
and when connections break is left open.  `BusBootstrap` states no liveness: its question,
whether cleanups can wait for one another forever, is the invariant `NoEndlessWait`.

`DelegationEnds` and `SwarmEnds` assume that tasks are scheduled and that time-outs ring:
routed calls and those of the swarm run under `wait_for`.  A supervisor's own call, the
first of a task, has no limit of its own; its agent is assumed to answer or to raise.
`HealEnds` assumes that the next step of an attempt is taken (its commands have
time-outs), whatever each of them results in.  `LettersPersisted` is refuted under a
specification in which tasks, threads and timers all go on, so that nothing but the lost
wake-up is to blame.  The lease has no liveness: nothing in the code promises that a pod
ever gets it.

## Proofs

Every safety invariant that a passing run checks is proved for all values of the
constants, and so are the two action properties (`DecisionIsFinal`,
`DeparturesSpareTheRoom`) and the two refinements (`ImplementsApprovalGate`,
`ImplementsTaskBudget`).  A theorem is about the specification of its own module (`Spec`,
`WSpec`, `DSpec`, ... : initial states and steps, without fairness, since safety needs
none).  What the proofs take for granted is only the assumptions named in the modules:
names that stand for nobody are nobody's names, bounds are natural numbers (positive where
the code has at least one), and the sets whose members are counted are finite;
`First`, the attempt an instance makes alone, is one of the attempts.

Most of the properties are not inductive, as they say nothing of what is still under way.
This is what was added to make them so, and why.

**The gate** (`HitlGateProofs`).  `GrantedByAnOperator` alone would let a poll grant a
decision that is approved but has no decider, or a late time.  `IInv` adds `Existence` (a
request whose creator is `idle` is not in the index) and `Provenance` (an approved decision
has an operator's name, and none is dated after `now`); `Poll` grants only before the
deadline, so the decision's time lies before it too.  `FinalDecision` and `Refinement` follow
step by step under `IInv`.  `StoreConsistency` is an induction over the deque: `StoreAdd`
drops the head from deque and index alike.  `ApprovalsHonoured` needs `Attentive` (on a
responsive loop, an approval that a waiting caller has not seen was given since it last
looked) and `Settled` (a refused caller's request is gone, or decided and not in vain).

**Guarded writes** (`GuardedWriteProofs`).  A step of `GuardedWrite` is a step of `HitlGate`
or leaves it alone, so `IInv` carries over.  `WInv` adds that whoever writes over a file it
has seen was let through by the gate (`OverwriterGranted`), and that a writer's text is
nowhere but in its own hands until it has written (`UnwrittenTextApart`).

**Rooms** (`RoomProofs`).  `HandlersHold`: a handler that awaits holds an object, and a reply
where it awaits one.  With it `NoSplitRoom` is inductive, though timers and replies
may hold any object whatever; `RoomSpared` follows for each step.

**The connection** (`BusProofs`).  `BInv` describes the tasks: which places each kind of task
is found at (`Turns`, `Roles`), who awaits whom (`Waits`), that a task cancelled is awaited
(`Cancellations`), that the registered bootstrap and listener await nobody outside
(`HeadsFree`) and an awaited listener has been told (`ListenersTold`).  `NoEndlessWait`
speaks of circles; `NoCircle` says that every non-empty set of tasks has one that awaits
nobody in it, which a new wait preserves because what it points to is a head.
`ConnectionSettled` follows from `Settling`: whatever is left of a connection, some task
stands at a place from where it will be used or cleaned up.  That fails for a publisher
cancelled in its setup, so that `BInv` is `OInv`, which holds of every task, with `Settling`
or `abandoned`: from the cancellation until the client is forgotten or another setup
completes.  A cancellation anywhere else leaves `Settling` as it is.

**Delivery** (`BusProofs`).  `Subscribed` says of a queue that its events are consecutive and
end with the last one fanned out, and `BatchInOrder` that the listener settles one entry
after the other; fan-out into a full queue unsubscribes before it could leave a gap.

**Dead letters** (`BusProofs`).  In the queue of the lock stands whoever is at it, and only the
first one has a thread (`InLine`); what that thread has in hand is one sequence (`InHand`).
`Journal` then says where the first record of every letter in memory is: pending, in hand,
on file, with one orphaned thread, or lost, in one of these and there once; `Owing` covers
the letters whose writer flushes an older one first.  `JournalComplete`, which counts
copies in all these places, is their sum.

**Model calls** (`BusProofs`).  `Counted` is `SlotsKept` for a semaphore without the caller that
acts: free slots, those promised to the woken and those held add up, the queue holds
the waiters once each.  Each helper (`Release`, `WakeFirst`, `Without`, `Acquire`) is shown
to keep it, and a step puts the caller back (`Settles`).  `BudgetHeld` counts the payers
who have not fallen back: a call is routed to the paid provider while the budget has room,
so that the first to charge beyond it is followed by those that overlap it, and no others.

**Delegation and swarm** (`AgentsProofs`).  `Paid`: the calls a task has made are the turns it has
taken.  `FailuresStayBounded` counts a call in flight as a failure that may still come, over
the finite set of tasks.  `BudgetImplemented` maps a task that is `ready` to the abstract
`thinking`, and each step to one of `TaskBudget` or to a stutter.  `SInv` bounds the calls of
a job by the place it has come to (`Counted`: every agent before this one, with all its
retries, and the tries of this one), and says that the fallback's budget is what was left.

`FallbackImplemented` and `AgentsImplemented` carry the refinement to the swarm: no supervisor
runs beside the handoffs (`FallbackRests`), so that a fallback begins as an abstract task
does.  They assume `MaxTurns > 0`: a `MAX_TURNS` of 0 means no turns to a supervisor
(`max(0, ...)`, `supervisor.py:364`) but the default of ten to a swarm (`swarm.py:588`), a
disagreement that `RemainingTurns` leaves out.

**Dispatch** (`AgentsProofs`).  `Kept`: what has been used since a cached key are the keys behind
it in the `OrderedDict`, and for a key pushed out they fill the cache.  Each use moves its
key to the end (`Leave`, `Append`); the equivalence of `RecentKeysKept` is a cardinality.

**Maintenance and self-heal** (`MaintenanceProofs`).  `LeaseExcludes` says nothing of Redis;
`NInv` adds that a pod which works within its lease has its token in the key
(`LeaseHeld`: two pods cannot both), that a pod works without one only if it may
(`LeaseNeeded`), and that a release of a run's token is under way only when the run has
ended or been cancelled (`FreshTokens`).  A thread left by a cancelled run counts as the pod's
work in all three: it is within the lease until the release, or the expiry, takes effect
(`lapsed`).  For a heal, `OnCourse` says that a backup is the text from before
the stage, and so is each file that has not been backed up or has been restored, as long as
nobody else has written; `Counted`, that each attempt since the last success is counted
once, while it runs or when it has failed.

**Voice** (`WebSocketProofs`).  `OneTask`: the only task that runs is the one the handler knows.
`TurnNumbers` and `Speaking`: what it has yet to speak follows all that was sent of its
turn, and that turn is not over for the client; `Transcribing`: before that it has nothing.

**Memory** (`WebSocketProofs`).  A session's `conversation` is its own, or that of the session it
was made from by a summary, until turns of another come in between: then it is `Unset`, and
the two properties say no more of that session (`Whole`).  `Fits`, of a sequence of texts,
says that they were said in a conversation, in order; `Belong` and `AllFit`, that this is so
of the texts in memory, in the database and in the hands of a summary or compaction.  An id
that is not in use yet is nowhere (`Fresh`), so that a new session can take over a
conversation.  The order needs the queue of database calls: every coroutine that is not
idle stands in it once (`Queued`); a turn on its way gets there before those said later
(`FirstSaid`), and after all that the session has and will have from a compaction that is
under way (`LastSaid`); who adds more than one text to a session is the only one to add to
it (`Alone`), or else the session is no longer `Whole`.

**Database lane** (`WebSocketProofs`).  The lock's queue (`InTurn`) and the executor's (`Jobs`: a
cancelled caller's job, perhaps, then one of the caller whose turn it is); every open
write belongs to one caller (`OpenWrites`), its statements are in one place, once (`Traced`),
and what has become of it goes with where its caller stands (`Written`).

**The compositions.**  A behaviour of `MCWebSockets`, `MCEventBus` or `MCMaintenance` is proved to
be one of each of its parts, the other parts' steps being stutters (`SocketsOfEachPart`,
`BusOfEachPart`, `WorkOfEachKind`); the invariants of the parts, and the composed type
invariants, follow (`SocketTypes`, `SharedTypes`, `MaintenanceTypes`).  `MCAgents` has parts that
share variables, and an invariant of its own: while a supervisor's tasks run there is no
swarm task (`AgentsInv`, `AgentTypes`).

Locks, semaphores, the executor and the `OrderedDict` share `Queues`; `QueueProofs` says once
what `Leave` takes out and keeps.  `Seqs!RemoveFirst` is the community modules' definition.

### Only model-checked

- Liveness (`EveryCallerAnswered`, `AbandonedRoomDropped`, `HandlersGoOn`, `DelegationEnds`,
  `SwarmEnds`, `HealEnds`) is out of the prover's reach, as fairness needs `ENABLED`.
- The five violated properties are refuted, which a run does best.

No module declares a recursive operator: TLC and the provers use the same definitions.

## Plan

Done, in the order of importance: the gate with its abstract specification; the writes it
guards (composition); the rooms; the bus with its delivery and dead letters; delegation with
its abstract budget, the swarm over it, and dispatch; maintenance and self-heal; voice
sessions, memory and the database lane; model calls; for each of them the proofs above.  To
come, the most telling ones first:

1. Abstract specifications of what is now stated by an invariant only, with the refinement
   proved: a lease as a mutual exclusion, the journal of dead letters as a set of records
   that grows, the GPU slots as a counting semaphore.
2. Action properties: a committed write is never taken back, a turn that was interrupted
   never speaks again, an open circuit sends no new call.

To model, where a run's time allows: two processes on one consumer group, the remote
circuit of the bus, and the messages of the PostgreSQL pool.

## Not modelled, and why

Most of the repository's code is I/O around one call, prompting, settings, numeric
heuristics and their wording; a specification of it would restate it.  So the map covers
the code that holds protocol state, and a small share of all lines:

- prompting and everything that depends on what a model answers: the roles' tool loops,
  intent routing, plan parsing, review heuristics, the memory hub's notes;
- the RabbitMQ and Kafka backends, whose reconnection is their client libraries', the
  circuit that diverts remote publishing, and the change of event loops between test runs
  (`reset_runtime_state`);
- the SQLite and Redis budget trackers (the latter falls back on a tracker that starts from
  zero), the semantic cache's index and breaker, rate limits (one command per request);
- parallel and pipeline runs of the swarm, which call the modelled task runner once per
  task, and the agent registry;
- SQL statements, vector and file storage beyond the sessions, messages and files above;
  the PostgreSQL pool, `transaction()` and the closing of the database;
- provider HTTP clients, browser, GitHub and messaging services, plugin source checks and
  containers, the to-do list (one lock around each operation), continuous learning (a
  locked batch job);
- configuration, launcher, installer and the React client.

In the modelled components these are left out: the payload and wording of requests, the
authentication of WebSockets, write scopes and masking, the limit of a room's history, its
telemetry, a socket's private reply outside of a room, audio buffering and voice activity,
titles and quotas of sessions, message truncation for models, spans and metrics.  Whoever
has asked for a stream is taken to read it at once, as `generate` does; one that is never
read would keep its GPU slot, since a generator that was not started has no `finally`.

Smaller differences, none of which a property depends on:

- Some awaits of one stretch are one step: those of joining a room, of closing a Redis client
  and its pool (`event_stream.py:632-647`), the commands of a mechanical fix and its fallback
  to the whole repository.
- A broadcast prunes broken participants: `Prune` is that of messages and replies, and leaves
  out the presence broadcasts of a join, a leave and a control event, which do so too.
- A cancelled replacement of messages takes effect whole or not at all in
  `ConversationMemory` (partly is a matter of `SqliteLane`); so does the late write of a
  cancelled heal, which `RollbackRestores` excludes.
- Reads of a session run as writes in the lane, and roll back when they fail, with nothing
  to undo.
- Subscriber ids are distinct, where the code takes a time and an object's id; the second
  selection of a routed client, `write_generated_test`'s appending and a voice route without
  a pipeline are left out; `max_auto_attempts` is one bound, whatever the trigger.
