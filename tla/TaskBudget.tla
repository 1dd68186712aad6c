----------------------------- MODULE TaskBudget -----------------------------
(* What SupervisorAgent.run_task promises of its turn budget: a task calls *)
(* agents one at a time, has at most as many calls as it has turns, and    *)
(* may stop before the budget is spent.                                    *)
EXTENDS Naturals
CONSTANTS BTask,   \* tasks
          BTurns   \* the largest budget of a task

VARIABLES phase,   \* where each task is
          left     \* the calls it may still make

bvars == <<phase, left>>

BInit == phase = [t \in BTask |-> "idle"] /\ left \in [BTask -> 0 .. BTurns]

BMove(t, from, to) == phase[t] \in from /\ phase' = [phase EXCEPT ![t] = to]

\* A task begins, with turns to spend; or it is a chat and ends at once.
BBegin(t) ==
  \E to \in {"thinking", "ended"}, n \in 0 .. BTurns :
    BMove(t, {"idle", "ended"}, to) /\ left' = [left EXCEPT ![t] = n]

BCall(t) ==
  /\ left[t] > 0
  /\ BMove(t, {"thinking"}, "calling")
  /\ left' = [left EXCEPT ![t] = @ - 1]

\* The agent answers, fails or is given up.
BAnswer(t) ==
  \E to \in {"thinking", "ended"} : BMove(t, {"calling"}, to) /\ UNCHANGED left

BStop(t) == BMove(t, {"thinking"}, "ended") /\ UNCHANGED left

BNext == \E t \in BTask : BBegin(t) \/ BCall(t) \/ BAnswer(t) \/ BStop(t)

BSpec == BInit /\ [][BNext]_bvars
=============================================================================
