----------------------------- MODULE Delegation -----------------------------
(***************************************************************************)
(* SupervisorAgent.run_task, _route_p2p and _delegate                      *)
(* (agent/core/supervisor.py) with the circuit breaker its tasks share     *)
(* (agent/core/circuit_breaker.py).                                        *)
(*                                                                         *)
(* A task suspends before it delegates (it publishes an event) and while   *)
(* the agent works; between two suspensions it runs alone.  What an agent  *)
(* answers is a text, one that reads as a request for a revision, or a     *)
(* delegation request to another agent.                                    *)
(***************************************************************************)
EXTENDS Integers, FiniteSets
CONSTANTS
  Task,         \* callers of run_task, each with one task at a time
  Specialist,   \* role agents other than the coder and the reviewer
  MaxTurns,     \* MAX_TURNS
  MaxHops,      \* max_hops of _route_p2p
  MaxQARetries, \* MAX_QA_RETRIES
  MaxFailures   \* SWARM_CIRCUIT_MAX_FAILURES

Agent == {"coder", "reviewer"} \cup Specialist

ASSUME DelegationAssumption ==
  /\ MaxTurns \in Nat /\ MaxHops \in Nat /\ MaxQARetries \in Nat
  /\ MaxFailures \in Nat \ {0}
  /\ IsFiniteSet(Task)
  /\ "nobody" \notin Specialist

VARIABLES
  run,      \* the task of each caller
  failures, \* _BreakerState.failures of each agent
  window    \* opened_at of each agent: never, within the reset time, or before it

breaker == <<failures, window>>
dvars   == <<run, failures, window>>

Idle == [at |-> "idle", stage |-> "single", agent |-> "nobody", routed |-> FALSE,
         hops |-> 0, qa |-> 0, turns |-> 0, budget |-> 0, retries |-> 0, calls |-> 0]

DInit ==
  /\ run = [t \in Task |-> Idle]
  /\ failures = [a \in Agent |-> 0]
  /\ window = [a \in Agent |-> "never"]

-----------------------------------------------------------------------------
\* The course of a task r between two suspensions.
Consume(r)     == [r EXCEPT !.turns = @ + 1]
Over(r)        == r.turns > r.budget
Ready(r, a)    == [r EXCEPT !.at = "ready", !.agent = a]
Ended(r)       == [Idle EXCEPT !.at = "ended", !.budget = r.budget, !.calls = r.calls]
Spend(r, a)    == IF Over(Consume(r)) THEN Ended(r) ELSE Ready(Consume(r), a)

\* A mutation of Revise: the round is begun with whatever turns are left.
ReviseAnyhow(r) ==
  IF r.retries = MaxQARetries
  THEN Ended(r)
  ELSE Ready(Consume([r EXCEPT !.stage = "code", !.retries = @ + 1]), "coder")

\* A revision round needs two turns and a retry; its first turn is not refused.
Revise(r) ==
  IF r.budget - r.turns < 2 \/ r.retries = MaxQARetries
  THEN Ended(r)
  ELSE Ready(Consume([r EXCEPT !.stage = "code", !.retries = @ + 1]), "coder")

\* The delegated part of run_task has ended with a text.
Text(r, revise) ==
  LET s == [r EXCEPT !.routed = FALSE, !.hops = 0, !.qa = 0]
  IN  CASE s.stage = "single" -> Ended(s)
        [] s.stage = "code"   -> Spend([s EXCEPT !.stage = "review"], "reviewer")
        [] s.stage = "review" -> IF revise THEN Revise(s) ELSE Ended(s)

\* The loop of _route_p2p, for a request to agent `to`; its stop messages are
\* texts that ask for no revision.
Route(r, to, wellFormed, reject) ==
  LET s == [Consume(r) EXCEPT !.routed = TRUE, !.hops = @ + 1]
      q == IF to = "coder" /\ reject THEN [s EXCEPT !.qa = @ + 1] ELSE s
  IN  CASE r.hops = MaxHops -> Text(r, FALSE)
        [] r.hops # MaxHops /\ (Over(s) \/ ~wellFormed \/ q.qa > MaxQARetries) -> Text(s, FALSE)
        [] OTHER -> Ready(q, to)

-----------------------------------------------------------------------------
\* run_task: a chat is answered at once; a code task goes on to a review,
\* unless CLI_FAST_MODE makes it one of the tasks of a single agent.
Begun(budget) ==
  LET r == [Idle EXCEPT !.budget = budget]
  IN  {Ended(r), Spend([r EXCEPT !.stage = "code"], "coder")} \cup {Spend(r, a) : a \in Agent}

Start(t) ==
  /\ run[t].at \in {"idle", "ended"}
  /\ \E r \in Begun(MaxTurns) : run' = [run EXCEPT ![t] = r]
  /\ UNCHANGED breaker

\* is_open without the reset it makes once its time is over.
Tripped(a) == failures[a] >= MaxFailures
IsOpen(a)  == Tripped(a) /\ window[a] # "over"

Reset(a) ==
  /\ failures' = [failures EXCEPT ![a] = 0]
  /\ window' = [window EXCEPT ![a] = "never"]

Call(t) == run' = [run EXCEPT ![t].at = "calling", ![t].calls = @ + 1]

\* A mutation of Delegate: an open circuit is waited for.
DelegateWaiting(t) ==
  /\ run[t].at = "ready"
  /\ LET a == run[t].agent
     IN  \/ /\ a \notin Agent
            /\ run' = [run EXCEPT ![t] = Ended(@)]
            /\ UNCHANGED breaker
         \/ /\ a \in Agent /\ ~Tripped(a)
            /\ Call(t)
            /\ UNCHANGED breaker
         \/ /\ a \in Agent /\ Tripped(a) /\ ~IsOpen(a)
            /\ Call(t)
            /\ Reset(a)

\* A mutation of Delegate: when the time is over one call is let through and the failures stay.
DelegateHalfOpen(t) ==
  /\ run[t].at = "ready"
  /\ LET a == run[t].agent
     IN  \/ /\ a \notin Agent
            /\ run' = [run EXCEPT ![t] = Ended(@)]
         \/ /\ a \in Agent /\ ~IsOpen(a)
            /\ Call(t)
         \/ /\ a \in Agent /\ IsOpen(a)
            /\ run' = [run EXCEPT ![t] = Text(@, FALSE)]
  /\ UNCHANGED breaker

\* _delegate up to the call of the agent: a role nobody registered raises, an
\* open circuit is a text of its own, one whose time is over is closed.
Delegate(t) ==
  /\ run[t].at = "ready"
  /\ LET a == run[t].agent
     IN  \/ /\ a \notin Agent
            /\ run' = [run EXCEPT ![t] = Ended(@)]
            /\ UNCHANGED breaker
         \/ /\ a \in Agent /\ ~Tripped(a)
            /\ Call(t)
            /\ UNCHANGED breaker
         \/ /\ a \in Agent /\ Tripped(a) /\ ~IsOpen(a)
            /\ Call(t)
            /\ Reset(a)
         \/ /\ a \in Agent /\ IsOpen(a)
            /\ run' = [run EXCEPT ![t] = Text(@, FALSE)]
            /\ UNCHANGED breaker

Calling(t) == run[t].at = "calling"

\* The agent answers: record_success closes the circuit, open or not.
Answer(t) ==
  /\ Calling(t)
  /\ Reset(run[t].agent)
  /\ \/ \E revise \in BOOLEAN : run' = [run EXCEPT ![t] = Text(@, revise)]
     \/ \E to \in Agent \cup {"nobody"}, ok, reject \in BOOLEAN :
          run' = [run EXCEPT ![t] = Route(@, to, ok, reject)]

\* The agent raises: record_failure, and the exception ends the task.
Raise(t) ==
  /\ Calling(t)
  /\ LET a == run[t].agent
     IN  /\ failures' = [failures EXCEPT ![a] = @ + 1]
         /\ window' = IF failures'[a] >= MaxFailures /\ window[a] = "never"
                      THEN [window EXCEPT ![a] = "within"] ELSE window
  /\ run' = [run EXCEPT ![t] = Ended(@)]

\* wait_for gives a routed call up; a cancelled call is no recorded failure.
TimeOut(t) ==
  /\ Calling(t)
  /\ run[t].routed
  /\ run' = [run EXCEPT ![t] = Ended(@)]
  /\ UNCHANGED breaker

\* The reset time of an open circuit goes by.
Elapse(a) ==
  /\ window[a] = "within"
  /\ window' = [window EXCEPT ![a] = "over"]
  /\ UNCHANGED <<run, failures>>

-----------------------------------------------------------------------------
Step(t) == Delegate(t) \/ Answer(t) \/ Raise(t) \/ TimeOut(t)

DNext ==
  \/ \E t \in Task : Start(t) \/ Step(t)
  \/ \E a \in Agent : Elapse(a)

DSpec == DInit /\ [][DNext]_dvars

-----------------------------------------------------------------------------
\* The largest budget of a task, a fallback's included, which is never empty.
MostTurns == IF MaxTurns = 0 THEN 1 ELSE MaxTurns

RunType ==
  [at : {"idle", "ready", "calling", "ended"}, stage : {"single", "code", "review"},
   agent : Agent \cup {"nobody"}, routed : BOOLEAN, hops : 0 .. MaxHops,
   qa : 0 .. MaxQARetries, turns : 0 .. MostTurns, budget : 0 .. MostTurns,
   retries : 0 .. MaxQARetries, calls : 0 .. MostTurns]

DTypeOK ==
  /\ run \in [Task -> RunType]
  /\ failures \in [Agent -> Nat]
  /\ window \in [Agent -> {"never", "within", "over"}]

InFlight(a) == {t \in Task : Calling(t) /\ run[t].agent = a}

\* Calls that were let through before a circuit opened may all fail later: the
\* failures of an agent go past the limit by no more than these, and calls to
\* an agent whose circuit is open die out.
FailuresBounded ==
  \A a \in Agent :
    failures[a] + Cardinality(InFlight(a)) < MaxFailures + Cardinality(Task)

\* Review rounds, P2P hops and the circuit breaker together spend the turns
\* as the abstract budget allows: no path of calls is free of charge.
Budget == INSTANCE TaskBudget WITH
  BTask <- Task, BTurns <- MaxTurns,
  phase <- [t \in Task |-> IF run[t].at = "ready" THEN "thinking" ELSE run[t].at],
  left  <- [t \in Task |-> run[t].budget - run[t].calls]
ImplementsTaskBudget == Budget!BSpec
=============================================================================
