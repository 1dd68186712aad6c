------------------------------- MODULE Swarm -------------------------------
(***************************************************************************)
(* SwarmOrchestrator._execute_task (agent/swarm.py) for one task, from its *)
(* first agent over handoffs, retries and time-outs to the rollback and    *)
(* the fallback, which runs the goal with a fresh supervisor: the module   *)
(* Delegation, whose task `Fallback` it starts.                            *)
(***************************************************************************)
EXTENDS Delegation
CONSTANTS
  Fallback,      \* the task of the supervisor that the fallback makes
  Goal,          \* what _execute_task compares: role, intent and fingerprint
  MaxHandoffs,   \* SWARM_MAX_HANDOFF_HOPS
  MaxTaskRetries,\* SWARM_TASK_MAX_RETRIES
  RepeatLimit    \* _loop_repeat_limit

ASSUME SwarmAssumption ==
  /\ Fallback \in Task
  /\ MaxHandoffs \in Nat \ {0} /\ MaxTaskRetries \in Nat /\ RepeatLimit \in Nat \ {0}

VARIABLE job  \* the swarm task

svars == <<dvars, job>>

NoJob == [at |-> "idle", hop |-> 0, attempt |-> 0, trace |-> [g \in Goal |-> 0],
          calls |-> 0, fallback |-> FALSE]

SInit == DInit /\ job = NoJob

\* The result of the outermost _execute_task; inner ones return the same.
Result(j) == [j EXCEPT !.at = "ended"]

\* A mutation of Execute: the loop guard compares nothing.
ExecuteUnguarded(j, goal, hop) ==
  {Result(j)} \cup
  IF hop > MaxHandoffs
  THEN {}
  ELSE {[j EXCEPT !.at = "calling", !.hop = hop, !.attempt = 0,
                  !.trace[goal] = @ + 1, !.calls = @ + 1]}

\* _execute_task(goal, _hop) of a job j up to the first call of its agent, past
\* a role nobody has, an agent that cannot be made, hop limit and loop guard.
Execute(j, goal, hop) ==
  {Result(j)} \cup
  IF hop > MaxHandoffs \/ j.trace[goal] >= RepeatLimit
  THEN {}
  ELSE {[j EXCEPT !.at = "calling", !.hop = hop, !.attempt = 0,
                  !.trace[goal] = @ + 1, !.calls = @ + 1]}

SBegin ==
  /\ job.at \in {"idle", "ended"}
  /\ \E g \in Goal : job' \in Execute(NoJob, g, 0)
  /\ UNCHANGED dvars

\* The agent hands in a result, delegates (_direct_handoff), or names nobody.
SAnswer ==
  /\ job.at = "calling"
  /\ \/ job' = Result(job)
     \/ \E g \in Goal : job' \in Execute(job, g, job.hop + 1)
     \/ job' = [job EXCEPT !.at = "failing", !.fallback = FALSE]
  /\ UNCHANGED dvars

\* It fails or times out: another attempt, or, after the last one, the rollback
\* hook, and a fallback if the error is one of parsing or of a rate limit.
SFail ==
  /\ job.at = "calling"
  /\ IF job.attempt < MaxTaskRetries
     THEN job' = [job EXCEPT !.attempt = @ + 1, !.calls = @ + 1]
     ELSE \E fb \in BOOLEAN : job' = [job EXCEPT !.at = "failing", !.fallback = fb]
  /\ UNCHANGED dvars

\* A mutation of RemainingTurns: the fallback begins with a budget of its own.
FullTurns(j) == MaxTurns

\* _remaining_supervisor_turn_budget: the trace has an entry for each hop made.
\* (With MAX_TURNS = 0 the code takes its default of ten here: a setting that is
\* not modelled.)
RemainingTurns(j) ==
  IF MaxTurns - (j.hop + 1) > 1 THEN MaxTurns - (j.hop + 1) ELSE 1

\* The rollback hook is over, whether it has succeeded or not.
SRolledBack ==
  /\ job.at = "failing"
  /\ IF job.fallback
     THEN /\ job' = [job EXCEPT !.at = "supervised"]
          /\ failures' = [a \in Agent |-> 0]
          /\ window' = [a \in Agent |-> "never"]
          /\ \E r \in Begun(RemainingTurns(job)) : run' = [run EXCEPT ![Fallback] = r]
     ELSE job' = Result(job) /\ UNCHANGED dvars

\* A mutation of SSupervised: only a supervisor that has called an agent is waited for.
SSupervisedIfUsed ==
  /\ job.at = "supervised"
  /\ run[Fallback].at = "ended"
  /\ run[Fallback].calls > 0
  /\ job' = Result(job)
  /\ UNCHANGED dvars

\* The supervisor has answered or failed: either is the end.
SSupervised ==
  /\ job.at = "supervised"
  /\ run[Fallback].at = "ended"
  /\ job' = Result(job)
  /\ UNCHANGED dvars

\* While the fallback runs, its supervisor and the clock of its breaker.
SSupervisor ==
  /\ job.at = "supervised"
  /\ Step(Fallback) \/ \E a \in Agent : Elapse(a)
  /\ UNCHANGED job

SNext == SBegin \/ SAnswer \/ SFail \/ SRolledBack \/ SSupervised \/ SSupervisor

SSpec == SInit /\ [][SNext]_svars

STypeOK ==
  /\ DTypeOK
  /\ job \in [at : {"idle", "calling", "failing", "supervised", "ended"}, hop : 0 .. MaxHandoffs,
              attempt : 0 .. MaxTaskRetries, trace : [Goal -> 0 .. RepeatLimit], calls : Nat,
              fallback : BOOLEAN]

\* One turn budget for the agents of the handoffs and the fallback's: together
\* they make no more calls than it has turns, but for the retries of each hop
\* and the one turn a fallback has anyhow.
SharedBudget ==
  LET hops  == job.hop + 1
      spent == job.calls + IF job.fallback /\ job.at # "failing" THEN run[Fallback].calls ELSE 0
      limit == IF hops < MaxTurns THEN MaxTurns ELSE hops + 1
  IN  spent <= limit + hops * MaxTaskRetries
=============================================================================
