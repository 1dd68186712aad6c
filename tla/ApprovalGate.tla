---------------------------- MODULE ApprovalGate ----------------------------
(***************************************************************************)
(* What the human-in-the-loop gate of core/hitl.py promises to the code    *)
(* that asks for an approval, without time, queues or polling: a request   *)
(* receives at most one verdict, and its caller is let through only when   *)
(* that verdict is an approval (or when the gate is switched off).         *)
(* HitlGate is shown to implement this specification.                      *)
(***************************************************************************)
CONSTANT Request

VARIABLES
  enabled,   \* is the gate switched on?
  verdict,   \* verdict[r]: the one decision taken on request r
  outcome    \* outcome[r]: what the caller of request r has been told

avars == <<enabled, verdict, outcome>>

AInit ==
  /\ enabled \in BOOLEAN
  /\ verdict = [r \in Request |-> "none"]
  /\ outcome = [r \in Request |-> "idle"]

Bypass(r) ==
  /\ ~enabled
  /\ outcome[r] = "idle"
  /\ outcome' = [outcome EXCEPT ![r] = "granted"]
  /\ UNCHANGED <<enabled, verdict>>

Ask(r) ==
  /\ outcome[r] = "idle"
  /\ verdict[r] = "none"
  /\ verdict' = [verdict EXCEPT ![r] = "pending"]
  /\ outcome' = [outcome EXCEPT ![r] = "waiting"]
  /\ UNCHANGED enabled

\* Pending requests are decided, one by an operator or several by a sweep.
Decide ==
  \E S \in SUBSET {r \in Request : verdict[r] = "pending"},
     v \in {"approved", "rejected", "timeout"} :
       /\ verdict' = [r \in Request |-> IF r \in S THEN v ELSE verdict[r]]
       /\ UNCHANGED <<enabled, outcome>>

Grant(r) ==
  /\ outcome[r] = "waiting"
  /\ verdict[r] = "approved"
  /\ outcome' = [outcome EXCEPT ![r] = "granted"]
  /\ UNCHANGED <<enabled, verdict>>

\* A caller may be refused whatever the verdict; refusing it may time it out.
Refuse(r) ==
  /\ outcome[r] = "waiting"
  /\ outcome' = [outcome EXCEPT ![r] = "refused"]
  /\ \/ UNCHANGED verdict
     \/ /\ verdict[r] = "pending"
        /\ verdict' = [verdict EXCEPT ![r] = "timeout"]
  /\ UNCHANGED enabled

ANext ==
  \/ Decide
  \/ \E r \in Request : Bypass(r) \/ Ask(r) \/ Grant(r) \/ Refuse(r)

ASpec == AInit /\ [][ANext]_avars
=============================================================================
