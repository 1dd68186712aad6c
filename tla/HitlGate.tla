------------------------------ MODULE HitlGate ------------------------------
(***************************************************************************)
(* The human-in-the-loop approval gate of core/hitl.py with the routes of  *)
(* web/routes/hitl.py that feed it.                                        *)
(*                                                                         *)
(* Callers are the coroutines that await HITLGate.request_approval         *)
(* (CodeManager, GitHubManager, BrowserManager, PoyrazAgent); each creates *)
(* one request and polls the store for its decision.  Manual requests are  *)
(* those of POST /api/hitl/request: nobody waits for them.  A request is   *)
(* identified with the member of Request that creates it.                  *)
(*                                                                         *)
(* The code runs on one asyncio loop and never suspends between reading a  *)
(* request and acting on it, so a step of this module is the code between  *)
(* two suspension points: `await notify`, and the sleep of the poll loop.  *)
(***************************************************************************)
EXTENDS Integers, Sequences

CONSTANTS
  Caller,    \* requests whose creator awaits the decision
  Manual,    \* requests created by POST /api/hitl/request
  Operator,  \* who may answer a request
  NoOne,     \* decided_by of a request no operator has answered
  MaxSize,   \* _MAX_QUEUE_SIZE: requests the store keeps
  Timeout,   \* HITLGate.timeout, in polling periods
  MaxTime    \* bound on the clock: no request is created that would outlive it

Request == Caller \cup Manual

ASSUME RequestAssumption  == Caller \cap Manual = {}
ASSUME OperatorAssumption == NoOne \notin Operator
ASSUME SizeAssumption     == MaxSize \in Nat \ {0}
ASSUME TimeAssumption     == Timeout \in Nat \ {0} /\ MaxTime \in Nat

VARIABLES
  now,        \* time.time(), one unit being the poll loop's sleep of one second
  enabled,    \* HITLGate.enabled, read once from HITL_ENABLED
  prompt,     \* does the event loop run every task that is due before time passes?
  requests,   \* _HITLStore._requests, oldest first
  index,      \* the keys of _HITLStore._index
  decision,   \* HITLRequest.decision; "none" before the request exists
  decidedBy,  \* HITLRequest.decided_by
  decidedAt,  \* HITLRequest.decided_at; -1 for None
  expiresAt,  \* HITLRequest.expires_at, which is also the poll loop's deadline
  pc,         \* where the coroutine that created the request stands
  wakeAt      \* when that coroutine is due to run again

vars == <<now, enabled, prompt, requests, index, decision, decidedBy, decidedAt,
          expiresAt, pc, wakeAt>>

store == <<requests, index>>
clock == <<now, enabled, prompt>>

Decision == {"none", "pending", "approved", "rejected", "timeout"}
Place    == {"idle", "notify", "poll", "granted", "refused", "created"}

Init ==
  /\ now = 0
  /\ enabled \in BOOLEAN
  /\ prompt \in BOOLEAN
  /\ requests = <<>>
  /\ index = {}
  /\ decision  = [r \in Request |-> "none"]
  /\ decidedBy = [r \in Request |-> NoOne]
  /\ decidedAt = [r \in Request |-> -1]
  /\ expiresAt = [r \in Request |-> 0]
  /\ pc        = [r \in Request |-> "idle"]
  /\ wakeAt    = [r \in Request |-> 0]

-----------------------------------------------------------------------------
\* A polling coroutine whose sleep is over.
Due(c) == pc[c] = "poll" /\ wakeAt[c] <= now

\* The caller's coroutine returns; it is due no more.
Return(c, answer) ==
  /\ pc' = [pc EXCEPT ![c] = answer]
  /\ wakeAt' = [wakeAt EXCEPT ![c] = 0]

\* A mutation of StoreAdd: the index keeps the request the deque drops.
StoreAddKeepsIndex(r) ==
  /\ requests' = Append(IF Len(requests) = MaxSize THEN Tail(requests) ELSE requests, r)
  /\ index' = index \cup {r}

\* _HITLStore.add: a full deque drops its oldest request, decided or not, and
\* the index forgets that request with it.
StoreAdd(r) ==
  LET full == Len(requests) = MaxSize
  IN  /\ requests' = Append(IF full THEN Tail(requests) ELSE requests, r)
      /\ index' = (index \ (IF full THEN {Head(requests)} ELSE {})) \cup {r}

\* A new HITLRequest is stored, and its creator goes on to `await notify(req)`.
Create(r) ==
  /\ pc[r] = "idle"
  /\ now + Timeout <= MaxTime
  /\ StoreAdd(r)
  /\ decision'  = [decision  EXCEPT ![r] = "pending"]
  /\ expiresAt' = [expiresAt EXCEPT ![r] = now + Timeout]
  /\ pc'        = [pc        EXCEPT ![r] = "notify"]
  /\ UNCHANGED <<clock, decidedBy, decidedAt, wakeAt>>

\* HITLGate.request_approval up to its first suspension, with the gate on...
RequestApproval(c) == enabled /\ Create(c)

\* ...and with the gate off: no request is created, the caller goes through.
Bypass(c) ==
  /\ ~enabled
  /\ pc[c] = "idle"
  /\ pc' = [pc EXCEPT ![c] = "granted"]
  /\ UNCHANGED <<clock, store, decision, decidedBy, decidedAt, expiresAt, wakeAt>>

\* POST /api/hitl/request creates a request whether or not the gate is on.
CreateRequest(m) == Create(m)

\* The broadcast to the /ws/hitl clients is over: a caller enters its poll
\* loop, a route returns the request's id.
Notified(r) ==
  /\ pc[r] = "notify"
  /\ IF r \in Caller
     THEN /\ pc' = [pc EXCEPT ![r] = "poll"]
          /\ wakeAt' = [wakeAt EXCEPT ![r] = now]
     ELSE Return(r, "created")
  /\ UNCHANGED <<clock, store, decision, decidedBy, decidedAt, expiresAt>>

-----------------------------------------------------------------------------
\* A mutation of Poll: any decision lets the caller through.
PollAnyDecision(c) ==
  /\ Due(c)
  /\ now < expiresAt[c]
  /\ \/ /\ c \in index /\ decision[c] = "pending"
        /\ wakeAt' = [wakeAt EXCEPT ![c] = now + 1]
        /\ UNCHANGED pc
     \/ /\ c \notin index \/ decision[c] # "pending"
        /\ Return(c, IF c \in index THEN "granted" ELSE "refused")
  /\ UNCHANGED <<clock, store, decision, decidedBy, decidedAt, expiresAt>>

\* A mutation of Poll: the loop sleeps for two periods.
PollSleepsLonger(c) ==
  /\ Due(c)
  /\ now < expiresAt[c]
  /\ \/ /\ c \in index /\ decision[c] = "pending"
        /\ wakeAt' = [wakeAt EXCEPT ![c] = now + 2]
        /\ UNCHANGED pc
     \/ /\ c \in index /\ decision[c] = "approved"
        /\ Return(c, "granted")
     \/ /\ c \notin index \/ decision[c] \in {"rejected", "timeout"}
        /\ Return(c, "refused")
  /\ UNCHANGED <<clock, store, decision, decidedBy, decidedAt, expiresAt>>

\* The poll loop, `while time.time() < deadline`: an evicted request refuses
\* its caller, a decided one settles it, a pending one sends it to sleep.
Poll(c) ==
  /\ Due(c)
  /\ now < expiresAt[c]
  /\ \/ /\ c \in index /\ decision[c] = "pending"
        /\ wakeAt' = [wakeAt EXCEPT ![c] = now + 1]
        /\ UNCHANGED pc
     \/ /\ c \in index /\ decision[c] = "approved"
        /\ Return(c, "granted")
     \/ /\ c \notin index \/ decision[c] \in {"rejected", "timeout"}
        /\ Return(c, "refused")
  /\ UNCHANGED <<clock, store, decision, decidedBy, decidedAt, expiresAt>>

\* A mutation of GiveUp: only a caller whose request is still stored returns.
GiveUpIfStored(c) ==
  /\ Due(c)
  /\ now >= expiresAt[c]
  /\ c \in index
  /\ IF decision[c] = "pending"
     THEN /\ decision'  = [decision  EXCEPT ![c] = "timeout"]
          /\ decidedAt' = [decidedAt EXCEPT ![c] = now]
     ELSE UNCHANGED <<decision, decidedAt>>
  /\ Return(c, "refused")
  /\ UNCHANGED <<clock, store, decidedBy, expiresAt>>

\* The code after the loop: time is up, and the caller is refused whatever
\* the request's decision has become since the last poll.
GiveUp(c) ==
  /\ Due(c)
  /\ now >= expiresAt[c]
  /\ IF c \in index /\ decision[c] = "pending"
     THEN /\ decision'  = [decision  EXCEPT ![c] = "timeout"]
          /\ decidedAt' = [decidedAt EXCEPT ![c] = now]
     ELSE UNCHANGED <<decision, decidedAt>>
  /\ Return(c, "refused")
  /\ UNCHANGED <<clock, store, decidedBy, expiresAt>>

\* A mutation of Respond: the last answer wins.
RespondAgain(r, o, approved) ==
  /\ r \in index
  /\ decision'  = [decision  EXCEPT ![r] = IF approved THEN "approved" ELSE "rejected"]
  /\ decidedAt' = [decidedAt EXCEPT ![r] = now]
  /\ decidedBy' = [decidedBy EXCEPT ![r] = o]
  /\ UNCHANGED <<clock, store, expiresAt, pc, wakeAt>>

\* A mutation of Respond: a late answer gets a decision the enum does not have.
RespondExpired(r, o, approved) ==
  /\ r \in index
  /\ decision[r] = "pending"
  /\ decision'  = [decision  EXCEPT ![r] = CASE now >= expiresAt[r] -> "expired"
                                             [] now < expiresAt[r] /\ approved -> "approved"
                                             [] OTHER -> "rejected"]
  /\ decidedAt' = [decidedAt EXCEPT ![r] = now]
  /\ decidedBy' = [decidedBy EXCEPT ![r] = o]
  /\ UNCHANGED <<clock, store, expiresAt, pc, wakeAt>>

\* HITLGate.respond on a pending request; an answer to a decided or to an
\* unknown request changes nothing.  expires_at is not looked at.
Respond(r, o, approved) ==
  /\ r \in index
  /\ decision[r] = "pending"
  /\ decision'  = [decision  EXCEPT ![r] = IF approved THEN "approved" ELSE "rejected"]
  /\ decidedAt' = [decidedAt EXCEPT ![r] = now]
  /\ decidedBy' = [decidedBy EXCEPT ![r] = o]
  /\ UNCHANGED <<clock, store, expiresAt, pc, wakeAt>>

\* A mutation of Overdue: the sweep does not look at the decision.
OverdueDecidedToo == {r \in Request : /\ \E i \in 1..Len(requests) : requests[i] = r
                                      /\ expiresAt[r] < now}

\* The stored requests that _HITLStore.pending() is about to time out.
Overdue == {r \in Request : /\ \E i \in 1..Len(requests) : requests[i] = r
                            /\ decision[r] = "pending"
                            /\ expiresAt[r] < now}

\* _HITLStore.pending, called by GET /api/hitl/pending and by every new
\* /ws/hitl connection.  It leaves decided_at alone.
Pending ==
  /\ Overdue # {}
  /\ decision' = [r \in Request |-> IF r \in Overdue THEN "timeout" ELSE decision[r]]
  /\ UNCHANGED <<clock, store, decidedBy, decidedAt, expiresAt, pc, wakeAt>>

\* Time passes.  If prompt, not before every coroutine that is due has run.
Tick ==
  /\ now < MaxTime
  /\ prompt => \A r \in Request : ~Due(r) /\ pc[r] # "notify"
  /\ now' = now + 1
  /\ UNCHANGED <<enabled, prompt, store, decision, decidedBy, decidedAt, expiresAt, pc, wakeAt>>

Next ==
  \/ \E c \in Caller : RequestApproval(c) \/ Bypass(c) \/ Poll(c) \/ GiveUp(c)
  \/ \E m \in Manual : CreateRequest(m)
  \/ \E r \in Request : Notified(r)
  \/ \E r \in Request, o \in Operator, approved \in BOOLEAN : Respond(r, o, approved)
  \/ Pending
  \/ Tick

\* The event loop runs every ready task, broadcasts end and time passes;
\* operators and new requests are the environment's choice.
Fairness ==
  /\ \A r \in Request : WF_vars(Notified(r))
  /\ \A c \in Caller : WF_vars(Poll(c)) /\ WF_vars(GiveUp(c))
  /\ WF_vars(Tick)

Spec == Init /\ [][Next]_vars
FairSpec == Spec /\ Fairness

-----------------------------------------------------------------------------
TypeOK ==
  /\ now \in Nat
  /\ enabled \in BOOLEAN
  /\ prompt \in BOOLEAN
  /\ requests \in Seq(Request)
  /\ index \in SUBSET Request
  /\ decision  \in [Request -> Decision]
  /\ decidedBy \in [Request -> Operator \cup {NoOne}]
  /\ decidedAt \in [Request -> Int]
  /\ expiresAt \in [Request -> Nat]
  /\ pc        \in [Request -> Place]
  /\ wakeAt    \in [Request -> Nat]

\* A critical operation goes through an enabled gate only on the approval of
\* an operator, given before the request's deadline: neither the sweep of
\* pending(), a second answer nor the end of the wait can turn a refusal into
\* a grant or an approval into anything else under the caller.
GrantedByAnOperator ==
  \A c \in Caller :
    enabled /\ pc[c] = "granted" => /\ decision[c] = "approved"
                                    /\ decidedBy[c] \in Operator
                                    /\ decidedAt[c] < expiresAt[c]

\* The two structures of the store agree while requests are added, decided
\* and dropped: what the operators can list is what they can answer, and no
\* request is kept beyond the limit.
IndexMirrorsQueue ==
  /\ index = {requests[i] : i \in 1..Len(requests)}
  /\ Len(requests) <= MaxSize
  /\ \A i, j \in 1..Len(requests) : requests[i] = requests[j] => i = j

\* A decision is final: once an operator, the sweep or a giving-up caller has
\* decided a request, none of the three decides it again.
DecisionIsFinal ==
  [][\A r \in Request :
       decision[r] \notin {"none", "pending"} =>
         decision'[r] = decision[r] /\ decidedBy'[r] = decidedBy[r]]_vars

\* On a responsive event loop, an operator's approval is wasted only when it
\* comes within the last poll period before the deadline, or when the request
\* was evicted by newer ones.
ApprovalHonoured ==
  prompt => \A c \in Caller :
    pc[c] = "refused" /\ decision[c] = "approved" =>
      c \notin index \/ decidedAt[c] >= expiresAt[c] - 1

\* Every caller that asked for an approval is answered.
EveryCallerAnswered ==
  \A c \in Caller : pc[c] = "notify" ~> pc[c] \in {"granted", "refused"}

\* The docstring of request_approval: False means rejected or timed out.
RefusalIsRejectionOrTimeout ==
  \A c \in Caller : pc[c] = "refused" => decision[c] \in {"rejected", "timeout"}

-----------------------------------------------------------------------------
\* The refinement: a caller waits from the creation of its request until its
\* coroutine returns; a manual request waits forever.
Outcome == [r \in Request |->
  CASE pc[r] = "idle" -> "idle"
    [] pc[r] \in {"notify", "poll", "created"} -> "waiting"
    [] OTHER -> pc[r]]

Abstract == INSTANCE ApprovalGate WITH verdict <- decision, outcome <- Outcome

\* The gate implements ApprovalGate.
ImplementsApprovalGate == Abstract!ASpec
=============================================================================
