------------------------------ MODULE MCAgents ------------------------------
(* Instances of Delegation, Swarm and SwarmDispatch for TLC.  They share   *)
(* nothing but what Swarm takes from Delegation, so each behaviour is one  *)
(* of a single part: tasks of one supervisor, a swarm task, or dispatches. *)
EXTENDS Swarm, SwarmDispatch

VARIABLE part

vars == <<svars, pvars, part>>

Init ==
  /\ SInit /\ PInit
  /\ part \in {"supervisor", "swarm", "dispatch"}

Next ==
  \/ part = "supervisor" /\ DNext /\ UNCHANGED <<job, pvars, part>>
  \/ part = "swarm" /\ SNext /\ UNCHANGED <<pvars, part>>
  \/ part = "dispatch" /\ PNext /\ UNCHANGED <<svars, part>>

\* Tasks are scheduled, routed calls time out, and so do the calls of the swarm;
\* a supervisor's own call has no time limit: its agent is assumed to answer.
Fairness ==
  /\ \A t \in Task :
       /\ WF_vars(part = "supervisor" /\ Delegate(t) /\ UNCHANGED <<job, pvars, part>>)
       /\ WF_vars(part = "supervisor" /\ TimeOut(t) /\ UNCHANGED <<job, pvars, part>>)
       /\ WF_vars(part = "supervisor" /\ ~run[t].routed /\ (Answer(t) \/ Raise(t))
                  /\ UNCHANGED <<job, pvars, part>>)
  /\ WF_vars(part = "swarm" /\ (SFail \/ SRolledBack \/ SSupervised) /\ UNCHANGED <<pvars, part>>)
  /\ WF_vars(part = "swarm" /\ job.at = "supervised" /\ Step(Fallback) /\ UNCHANGED <<job, pvars, part>>)

Spec == Init /\ [][Next]_vars /\ Fairness

TypeOK == STypeOK /\ PTypeOK

\* Every task of a supervisor ends, whatever its circuit breaker refuses and
\* however its agents delegate to one another.
DelegationEnds ==
  \A t \in Task : run[t].at \in {"ready", "calling"} ~> run[t].at = "ended"

\* A swarm task ends: hops, repetitions, attempts and the fallback are bounded.
SwarmEnds == job.at = "calling" ~> job.at = "ended"
=============================================================================
