--------------------------- MODULE HitlGateProofs ---------------------------
(***************************************************************************)
(* Theorems about HitlGate, for every set of callers, requests and         *)
(* operators, every store size and every timeout.                          *)
(***************************************************************************)
EXTENDS HitlGate, TLAPS

\* A request exists from the moment its creator leaves "idle" by Create, and
\* only existing requests are stored.
Existence ==
  /\ \A r \in Request : pc[r] = "idle" => decision[r] = "none" /\ r \notin index
  /\ \A r \in Request : decision[r] = "none" => r \notin index

\* Only operators approve, and no decision is dated in the future.
Provenance ==
  \A r \in Request : /\ decision[r] = "approved" => decidedBy[r] \in Operator
                     /\ decidedAt[r] <= now

\* The inductive invariant.
IInv == TypeOK /\ Existence /\ Provenance /\ GrantedByAnOperator

USE RequestAssumption, OperatorAssumption, SizeAssumption, TimeAssumption

-----------------------------------------------------------------------------
\* Adding to the store keeps it a sequence of requests, indexed by a set.
LEMMA StoreAddType ==
  ASSUME requests \in Seq(Request), index \in SUBSET Request,
         NEW r \in Request, StoreAdd(r)
  PROVE  /\ requests' \in Seq(Request)
         /\ index' \in SUBSET Request
         /\ \A x \in index' : x = r \/ x \in index
<1>1. index' \in SUBSET Request /\ \A x \in index' : x = r \/ x \in index
  BY DEF StoreAdd
<1>2. CASE Len(requests) = MaxSize
  <2>1. requests # <<>>  BY <1>2
  <2>2. Tail(requests) \in Seq(Request)  BY <2>1
  <2>3. QED  BY <1>1, <1>2, <2>2 DEF StoreAdd
<1>3. CASE Len(requests) # MaxSize
  BY <1>1, <1>3 DEF StoreAdd
<1>4. QED  BY <1>2, <1>3

\* A returning coroutine changes its own place only.
LEMMA ReturnType ==
  ASSUME TypeOK, NEW r \in Request, NEW answer \in Place, Return(r, answer)
  PROVE  /\ pc' \in [Request -> Place]
         /\ wakeAt' \in [Request -> Nat]
         /\ pc'[r] = answer
         /\ \A s \in Request \ {r} : pc'[s] = pc[s]
BY DEF TypeOK, Return

LEMMA InitIInv == Init => IInv
BY DEF Init, IInv, TypeOK, Existence, Provenance, GrantedByAnOperator, Decision,
       Place, Request

LEMMA CreateIInv ==
  ASSUME IInv, NEW r \in Request, Create(r)
  PROVE  IInv'
<1>0. /\ requests' \in Seq(Request)
      /\ index' \in SUBSET Request
      /\ \A x \in index' : x = r \/ x \in index
  BY StoreAddType DEF IInv, TypeOK, Create
<1>1. TypeOK'
  BY <1>0 DEF IInv, TypeOK, Create, clock, Decision, Place
<1>2. Existence'
  BY <1>0 DEF IInv, TypeOK, Existence, Create
<1>3. Provenance'
  BY DEF IInv, TypeOK, Provenance, Create, clock
<1>4. GrantedByAnOperator'
  BY DEF IInv, TypeOK, GrantedByAnOperator, Create, clock, Request
<1>5. QED  BY <1>1, <1>2, <1>3, <1>4 DEF IInv

LEMMA BypassIInv ==
  ASSUME IInv, NEW c \in Caller, Bypass(c)
  PROVE  IInv'
BY DEF IInv, TypeOK, Existence, Provenance, GrantedByAnOperator, Bypass, clock,
       store, Place, Request

LEMMA NotifiedIInv ==
  ASSUME IInv, NEW r \in Request, Notified(r)
  PROVE  IInv'
<1>1. TypeOK'
  <2>1. CASE r \in Caller
    BY <2>1 DEF IInv, TypeOK, Notified, clock, store, Place
  <2>2. CASE r \notin Caller
    <3>1. Return(r, "created")  BY <2>2 DEF Notified
    <3>2. pc' \in [Request -> Place] /\ wakeAt' \in [Request -> Nat]
      BY <3>1, ReturnType DEF IInv, Place
    <3>3. QED  BY <3>2 DEF IInv, TypeOK, Notified, clock, store
  <2>3. QED  BY <2>1, <2>2
<1>2. \A s \in Request : pc'[s] \in {"idle", "granted"} => pc'[s] = pc[s]
  BY DEF IInv, TypeOK, Notified, Return
<1>3. Existence' /\ Provenance'
  BY <1>2 DEF IInv, Existence, Provenance, Notified, clock, store
<1>4. GrantedByAnOperator'
  BY <1>2 DEF IInv, GrantedByAnOperator, Notified, clock, Request
<1>5. QED  BY <1>1, <1>3, <1>4 DEF IInv

LEMMA PollIInv ==
  ASSUME IInv, NEW c \in Caller, Poll(c)
  PROVE  IInv'
<1>1. TypeOK'
  <2>1. CASE Return(c, "granted") \/ Return(c, "refused")
    <3>1. pc' \in [Request -> Place] /\ wakeAt' \in [Request -> Nat]
      BY <2>1, ReturnType DEF IInv, Place, Request
    <3>2. QED  BY <3>1 DEF IInv, TypeOK, Poll, clock, store
  <2>2. CASE UNCHANGED pc /\ wakeAt' = [wakeAt EXCEPT ![c] = now + 1]
    <3>1. now + 1 \in Nat  BY DEF IInv, TypeOK
    <3>2. wakeAt' \in [Request -> Nat]  BY <2>2, <3>1 DEF IInv, TypeOK
    <3>3. QED  BY <2>2, <3>2 DEF IInv, TypeOK, Poll, clock, store
  <2>3. QED  BY <2>1, <2>2 DEF Poll
<1>2. Existence' /\ Provenance'
  <2>1. \A r \in Request : pc'[r] = "idle" => pc[r] = "idle"
    BY DEF IInv, TypeOK, Poll, Return, Request
  <2>2. QED  BY <2>1 DEF IInv, Existence, Provenance, Poll, clock, store
<1>3. GrantedByAnOperator'
  <2> SUFFICES ASSUME NEW d \in Caller, enabled, pc'[d] = "granted"
               PROVE  /\ decision[d] = "approved"
                      /\ decidedBy[d] \in Operator
                      /\ decidedAt[d] < expiresAt[d]
    BY DEF Poll, clock, GrantedByAnOperator
  <2>1. CASE pc[d] = "granted"
    BY <2>1 DEF IInv, GrantedByAnOperator
  <2>2. CASE pc[d] # "granted"
    <3>1. d = c /\ decision[c] = "approved" /\ now < expiresAt[c]
      BY <2>2 DEF Poll, Return, IInv, TypeOK, Request
    <3>2. QED  BY <3>1 DEF IInv, TypeOK, Provenance, Request
  <2>3. QED  BY <2>1, <2>2
<1>4. QED  BY <1>1, <1>2, <1>3 DEF IInv

LEMMA GiveUpIInv ==
  ASSUME IInv, NEW c \in Caller, GiveUp(c)
  PROVE  IInv'
<1>1. TypeOK'
  <2>1. pc' \in [Request -> Place] /\ wakeAt' \in [Request -> Nat]
    BY ReturnType DEF IInv, GiveUp, Place, Request
  <2>2. decision' \in [Request -> Decision] /\ decidedAt' \in [Request -> Int]
    <3>1. CASE c \in index /\ decision[c] = "pending"
      <4>1. now \in Int  BY DEF IInv, TypeOK
      <4>2. QED  BY <3>1, <4>1 DEF IInv, TypeOK, GiveUp, Decision
    <3>2. CASE ~(c \in index /\ decision[c] = "pending")
      BY <3>2 DEF IInv, TypeOK, GiveUp
    <3>3. QED  BY <3>1, <3>2
  <2>3. QED  BY <2>1, <2>2 DEF IInv, TypeOK, GiveUp, clock, store
<1>2. Existence' /\ Provenance'
  <2>1. \A r \in Request : /\ pc'[r] = "idle" => pc[r] = "idle"
                           /\ decision'[r] \in {decision[r], "timeout"}
                           /\ decidedAt'[r] \in {decidedAt[r], now}
    BY DEF IInv, TypeOK, GiveUp, Return, Request
  <2>2. \A r \in Request : decision[r] = "none" => decision'[r] = "none"
    BY DEF IInv, TypeOK, GiveUp, Request
  <2>3. Existence'
    BY <2>1, <2>2 DEF IInv, TypeOK, Existence, GiveUp, store
  <2>4. \A r \in Request : decidedAt[r] <= now /\ now <= now
    BY DEF IInv, TypeOK, Provenance
  <2>5. \A r \in Request : decidedAt'[r] <= now
    BY <2>1, <2>4
  <2>6. Provenance'
    BY <2>1, <2>5 DEF IInv, TypeOK, Provenance, GiveUp, clock
  <2>7. QED  BY <2>3, <2>6
<1>3. GrantedByAnOperator'
  BY DEF IInv, TypeOK, GrantedByAnOperator, GiveUp, Return, Due, clock, Request
<1>4. QED  BY <1>1, <1>2, <1>3 DEF IInv

LEMMA RespondIInv ==
  ASSUME IInv, NEW r \in Request, NEW o \in Operator, NEW approved \in BOOLEAN,
         Respond(r, o, approved)
  PROVE  IInv'
<1>1. TypeOK'
  BY DEF IInv, TypeOK, Respond, clock, store, Decision
<1>2. Existence' /\ Provenance'
  BY DEF IInv, TypeOK, Existence, Provenance, Respond, clock, store
<1>3. GrantedByAnOperator'
  BY DEF IInv, TypeOK, GrantedByAnOperator, Respond, clock, Request
<1>4. QED  BY <1>1, <1>2, <1>3 DEF IInv

LEMMA PendingIInv ==
  ASSUME IInv, Pending
  PROVE  IInv'
<1>1. TypeOK'
  BY DEF IInv, TypeOK, Pending, clock, store, Decision
<1>2. Existence' /\ Provenance'
  BY DEF IInv, TypeOK, Existence, Provenance, Pending, Overdue, clock, store
<1>3. GrantedByAnOperator'
  BY DEF IInv, TypeOK, GrantedByAnOperator, Pending, Overdue, clock, Request
<1>4. QED  BY <1>1, <1>2, <1>3 DEF IInv

LEMMA TickIInv ==
  ASSUME IInv, Tick
  PROVE  IInv'
BY DEF IInv, TypeOK, Existence, Provenance, GrantedByAnOperator, Tick, store, Request

LEMMA NextIInv == IInv /\ [Next]_vars => IInv'
<1> SUFFICES ASSUME IInv, [Next]_vars PROVE IInv'
  OBVIOUS
<1>1. ASSUME NEW c \in Caller, RequestApproval(c) PROVE IInv'
  BY <1>1, CreateIInv DEF RequestApproval, Request
<1>2. ASSUME NEW m \in Manual, CreateRequest(m) PROVE IInv'
  BY <1>2, CreateIInv DEF CreateRequest, Request
<1>3. CASE UNCHANGED vars
  BY <1>3 DEF vars, IInv, TypeOK, Existence, Provenance, GrantedByAnOperator
<1>4. QED
  BY <1>1, <1>2, <1>3, BypassIInv, NotifiedIInv, PollIInv, GiveUpIInv, RespondIInv,
     PendingIInv, TickIInv DEF Next

LEMMA Invariance == Spec => []IInv
BY InitIInv, NextIInv, PTL DEF Spec

-----------------------------------------------------------------------------
\* Every variable of the gate keeps its type, whatever the interleaving of
\* callers, operators, sweeps and evictions.
THEOREM TypeCorrect == Spec => []TypeOK
<1>1. IInv => TypeOK  BY DEF IInv
<1>2. QED  BY <1>1, Invariance, PTL

\* A caller of request_approval is let through an enabled gate only by an
\* operator's approval given before the deadline.
THEOREM GrantSafety == Spec => []GrantedByAnOperator
<1>1. IInv => GrantedByAnOperator  BY DEF IInv
<1>2. QED  BY <1>1, Invariance, PTL

\* respond, pending and the end of request_approval never decide a request
\* that has been decided.
THEOREM FinalDecision == Spec => DecisionIsFinal
<1>1. ASSUME IInv, [Next]_vars, NEW r \in Request,
             decision[r] \notin {"none", "pending"}
      PROVE  decision'[r] = decision[r] /\ decidedBy'[r] = decidedBy[r]
  <2>1. ASSUME NEW s \in Request, Create(s) PROVE decision'[r] = decision[r] /\ decidedBy' = decidedBy
    BY <1>1, <2>1 DEF Create, IInv, TypeOK, Existence
  <2>2. ASSUME NEW c \in Caller, Bypass(c) \/ Poll(c)
        PROVE  UNCHANGED <<decision, decidedBy>>
    BY <2>2 DEF Bypass, Poll
  <2>3. ASSUME NEW c \in Caller, GiveUp(c)
        PROVE  decision'[r] = decision[r] /\ decidedBy' = decidedBy
    BY <1>1, <2>3 DEF GiveUp, IInv, TypeOK
  <2>4. ASSUME NEW s \in Request, NEW o \in Operator, NEW approved \in BOOLEAN,
               Respond(s, o, approved)
        PROVE  decision'[r] = decision[r] /\ decidedBy'[r] = decidedBy[r]
    BY <1>1, <2>4 DEF Respond, IInv, TypeOK
  <2>5. ASSUME Pending PROVE decision'[r] = decision[r] /\ decidedBy' = decidedBy
    BY <1>1, <2>5 DEF Pending, Overdue
  <2>6. ASSUME NEW s \in Request, Notified(s)
        PROVE  UNCHANGED <<decision, decidedBy>>
    BY <2>6 DEF Notified
  <2>7. CASE Tick \/ UNCHANGED vars
    BY <2>7 DEF Tick, vars
  <2>8. QED
    BY <1>1, <2>1, <2>2, <2>3, <2>4, <2>5, <2>6, <2>7
       DEF Next, RequestApproval, CreateRequest, Request
<1>2. IInv /\ [Next]_vars =>
        [\A r \in Request :
           decision[r] \notin {"none", "pending"} =>
             decision'[r] = decision[r] /\ decidedBy'[r] = decidedBy[r]]_vars
  BY <1>1
<1>3. QED  BY <1>2, Invariance, PTL DEF Spec, DecisionIsFinal

-----------------------------------------------------------------------------
\* Appending a new element to a sequence without repetitions.
LEMMA AppendMirrors ==
  ASSUME NEW S, NEW q \in Seq(S), NEW r \in S, NEW q2, q2 = Append(q, r),
         \A i \in 1..Len(q) : q[i] # r,
         \A i, j \in 1..Len(q) : q[i] = q[j] => i = j
  PROVE  /\ {q2[i] : i \in 1..Len(q2)} = {q[i] : i \in 1..Len(q)} \cup {r}
         /\ Len(q2) = Len(q) + 1
         /\ \A i, j \in 1..Len(q2) : q2[i] = q2[j] => i = j
<1>1. /\ Len(q) \in Nat
      /\ Len(q2) = Len(q) + 1
      /\ \A i \in 1..Len(q) : q2[i] = q[i]
      /\ q2[Len(q) + 1] = r
  OBVIOUS
<1>2. 1..Len(q2) = (1..Len(q)) \cup {Len(q) + 1}
  BY <1>1
<1>3. {q2[i] : i \in 1..Len(q2)} = {q[i] : i \in 1..Len(q)} \cup {r}
  <2>1. ASSUME NEW x \in {q2[i] : i \in 1..Len(q2)}
        PROVE  x \in {q[i] : i \in 1..Len(q)} \cup {r}
    <3>1. PICK i \in 1..Len(q2) : x = q2[i]  OBVIOUS
    <3>2. QED  BY <1>1, <1>2, <3>1
  <2>2. ASSUME NEW x \in {q[i] : i \in 1..Len(q)} \cup {r}
        PROVE  x \in {q2[i] : i \in 1..Len(q2)}
    <3>1. CASE x = r
      <4>1. Len(q) + 1 \in 1..Len(q2)  BY <1>2
      <4>2. QED  BY <1>1, <3>1, <4>1
    <3>2. CASE x # r
      <4>1. PICK i \in 1..Len(q) : x = q[i]  BY <3>2
      <4>2. QED  BY <1>1, <1>2, <4>1
    <3>3. QED  BY <3>1, <3>2
  <2>3. QED  BY <2>1, <2>2
<1>4. \A i, j \in 1..Len(q2) : q2[i] = q2[j] => i = j
  <2>1. SUFFICES ASSUME NEW i \in 1..Len(q2), NEW j \in 1..Len(q2), q2[i] = q2[j]
                 PROVE  i = j
    OBVIOUS
  <2>2. CASE i \in 1..Len(q) /\ j \in 1..Len(q)
    BY <1>1, <2>1, <2>2
  <2>3. CASE i = Len(q) + 1 /\ j \in 1..Len(q)
    BY <1>1, <2>1, <2>3
  <2>4. CASE i \in 1..Len(q) /\ j = Len(q) + 1
    BY <1>1, <2>1, <2>4
  <2>5. CASE i = Len(q) + 1 /\ j = Len(q) + 1
    BY <2>5
  <2>6. QED  BY <1>2, <2>2, <2>3, <2>4, <2>5
<1>5. QED  BY <1>1, <1>3, <1>4

\* Dropping the head of a sequence without repetitions.
LEMMA TailMirrors ==
  ASSUME NEW S, NEW q \in Seq(S), q # <<>>,
         \A i, j \in 1..Len(q) : q[i] = q[j] => i = j
  PROVE  /\ Tail(q) \in Seq(S)
         /\ Len(Tail(q)) = Len(q) - 1
         /\ {Tail(q)[i] : i \in 1..Len(Tail(q))} = {q[i] : i \in 1..Len(q)} \ {Head(q)}
         /\ \A i, j \in 1..Len(Tail(q)) : Tail(q)[i] = Tail(q)[j] => i = j
<1> DEFINE t == Tail(q)
<1>1. /\ t \in Seq(S)
      /\ Len(q) \in Nat \ {0}
      /\ Len(t) = Len(q) - 1
      /\ Head(q) = q[1]
      /\ \A i \in 1..Len(t) : t[i] = q[i + 1] /\ i + 1 \in 1..Len(q)
  OBVIOUS
<1>2. ASSUME NEW x \in {t[i] : i \in 1..Len(t)}
      PROVE  x \in {q[i] : i \in 1..Len(q)} \ {Head(q)}
  <2>1. PICK i \in 1..Len(t) : x = t[i]  OBVIOUS
  <2>2. x = q[i + 1] /\ i + 1 \in 1..Len(q) /\ i + 1 # 1  BY <1>1, <2>1
  <2>3. 1 \in 1..Len(q)  BY <1>1
  <2>4. q[i + 1] # q[1]  BY <2>2, <2>3
  <2>5. QED  BY <1>1, <2>2, <2>4
<1>3. ASSUME NEW x \in {q[i] : i \in 1..Len(q)} \ {Head(q)}
      PROVE  x \in {t[i] : i \in 1..Len(t)}
  <2>1. PICK i \in 1..Len(q) : x = q[i]  OBVIOUS
  <2>2. i # 1  BY <1>1, <2>1
  <2>3. i - 1 \in 1..Len(t) /\ (i - 1) + 1 = i  BY <1>1, <2>2
  <2>4. t[i - 1] = q[i]  BY <1>1, <2>3
  <2>5. QED  BY <2>1, <2>3, <2>4
<1>4. \A i, j \in 1..Len(t) : t[i] = t[j] => i = j
  <2>1. SUFFICES ASSUME NEW i \in 1..Len(t), NEW j \in 1..Len(t), t[i] = t[j]
                 PROVE  i = j
    OBVIOUS
  <2>2. i + 1 \in 1..Len(q) /\ j + 1 \in 1..Len(q) /\ q[i + 1] = q[j + 1]
    BY <1>1, <2>1
  <2>3. i + 1 = j + 1  BY <2>2
  <2>4. QED  BY <2>3
<1>5. QED  BY <1>1, <1>2, <1>3, <1>4

\* _HITLStore.add keeps the deque and the index in step.
LEMMA StoreAddMirrors ==
  ASSUME requests \in Seq(Request), IndexMirrorsQueue,
         NEW r \in Request, r \notin index, StoreAdd(r)
  PROVE  IndexMirrorsQueue'
<1>1. \A i \in 1..Len(requests) : requests[i] # r
  BY DEF IndexMirrorsQueue
<1>2. CASE Len(requests) = MaxSize
  <2> DEFINE t == Tail(requests)
  <2>1. requests # <<>>  BY <1>2
  <2>2. /\ t \in Seq(Request)
        /\ Len(t) = MaxSize - 1
        /\ {t[i] : i \in 1..Len(t)} = index \ {Head(requests)}
        /\ \A i, j \in 1..Len(t) : t[i] = t[j] => i = j
    BY <1>2, <2>1, TailMirrors DEF IndexMirrorsQueue
  <2>3. requests' = Append(t, r) /\ index' = (index \ {Head(requests)}) \cup {r}
    BY <1>2 DEF StoreAdd
  <2>4. \A i \in 1..Len(t) : t[i] # r
    <3>1. r \notin {t[i] : i \in 1..Len(t)}  BY <2>2
    <3>2. QED  BY <3>1
  <2> HIDE DEF t
  <2>5. /\ {requests'[i] : i \in 1..Len(requests')} = {t[i] : i \in 1..Len(t)} \cup {r}
        /\ Len(requests') = Len(t) + 1
        /\ \A i, j \in 1..Len(requests') : requests'[i] = requests'[j] => i = j
    BY <2>2, <2>3, <2>4, AppendMirrors
  <2>6. Len(requests') <= MaxSize  BY <2>2, <2>5
  <2>7. QED  BY <2>2, <2>3, <2>5, <2>6 DEF IndexMirrorsQueue
<1>3. CASE Len(requests) # MaxSize
  <2>1. requests' = Append(requests, r) /\ index' = index \cup {r}
    BY <1>3 DEF StoreAdd
  <2>2. /\ {requests'[i] : i \in 1..Len(requests')}
             = {requests[i] : i \in 1..Len(requests)} \cup {r}
        /\ Len(requests') = Len(requests) + 1
        /\ \A i, j \in 1..Len(requests') : requests'[i] = requests'[j] => i = j
    BY <1>1, <2>1, AppendMirrors DEF IndexMirrorsQueue
  <2>3. Len(requests') <= MaxSize  BY <1>3, <2>2 DEF IndexMirrorsQueue
  <2>4. QED  BY <2>1, <2>2, <2>3 DEF IndexMirrorsQueue
<1>4. QED  BY <1>2, <1>3

\* Whatever is added, decided and evicted, the operators can answer exactly the
\* requests the store holds, and it never holds more than its limit.
THEOREM StoreConsistency == Spec => []IndexMirrorsQueue
<1>1. Init => IndexMirrorsQueue
  BY DEF Init, IndexMirrorsQueue
<1>2. IInv /\ IndexMirrorsQueue /\ [Next]_vars => IndexMirrorsQueue'
  <2> SUFFICES ASSUME IInv, IndexMirrorsQueue, [Next]_vars PROVE IndexMirrorsQueue'
    OBVIOUS
  <2>1. ASSUME NEW r \in Request, Create(r) PROVE IndexMirrorsQueue'
    BY <2>1, StoreAddMirrors DEF Create, IInv, TypeOK, Existence
  <2>2. ASSUME UNCHANGED store PROVE IndexMirrorsQueue'
    BY <2>2 DEF store, IndexMirrorsQueue
  <2>3. UNCHANGED store \/ \E r \in Request : Create(r)
    BY DEF Next, vars, RequestApproval, CreateRequest, Bypass, Poll, GiveUp, Notified,
           Respond, Pending, Tick, store, Request
  <2>4. QED  BY <2>1, <2>2, <2>3
<1>3. QED  BY <1>1, <1>2, Invariance, PTL DEF Spec

-----------------------------------------------------------------------------
(* An approval is wasted only in the last period before the deadline. *)

\* On a responsive event loop a waiting caller looks again within a period: an
\* approval it has not seen was given since it last looked.
Attentive(c) ==
  /\ pc[c] = "notify" /\ decision[c] = "approved" => decidedAt[c] >= now
  /\ pc[c] = "poll" => now <= wakeAt[c] /\ wakeAt[c] <= now + 1
  /\ pc[c] = "poll" /\ decision[c] = "approved" => decidedAt[c] >= wakeAt[c] - 1

\* A refused caller's request is gone, or decided, and not in vain.
Settled(c) ==
  /\ pc[c] = "refused" => c \notin index \/ decision[c] # "pending"
  /\ pc[c] = "refused" /\ decision[c] = "approved" =>
       c \notin index \/ decidedAt[c] >= expiresAt[c] - 1

Honoured == prompt => \A c \in Caller : Attentive(c) /\ Settled(c)

LEMMA CreateHonours ==
  ASSUME IInv, NEW c \in Caller, Attentive(c), Settled(c), NEW r \in Request, Create(r)
  PROVE  Attentive(c)' /\ Settled(c)'
<1>1. now' = now /\ UNCHANGED <<decidedAt, wakeAt>>
  BY DEF Create, clock
<1>2. c # r /\ c \in index' => c \in index
  BY StoreAddType DEF Create, IInv, TypeOK
<1>3. c = r => pc'[c] = "notify" /\ decision'[c] = "pending"
  BY DEF Create, IInv, TypeOK, Request
<1>4. c # r => pc'[c] = pc[c] /\ decision'[c] = decision[c] /\ expiresAt'[c] = expiresAt[c]
  BY DEF Create, IInv, TypeOK, Request
<1>5. QED  BY <1>1, <1>2, <1>3, <1>4 DEF Attentive, Settled

\* A step of another request, or of none, that leaves time and store alone.
LEMMA OthersHonour ==
  ASSUME IInv, NEW c \in Caller, Attentive(c), Settled(c), now' = now, index' = index,
         pc'[c] = pc[c], wakeAt'[c] = wakeAt[c], decision'[c] \in {decision[c], "timeout"},
         decidedAt'[c] = decidedAt[c], expiresAt'[c] = expiresAt[c]
  PROVE  Attentive(c)' /\ Settled(c)'
BY DEF Attentive, Settled

LEMMA NotifiedHonours ==
  ASSUME IInv, NEW c \in Caller, Attentive(c), Settled(c), NEW r \in Request, Notified(r)
  PROVE  Attentive(c)' /\ Settled(c)'
<1>1. UNCHANGED <<now, index, decision, decidedAt, expiresAt>>
  BY DEF Notified, clock, store
<1>2. CASE c = r
  <2>1. pc[c] = "notify" /\ pc'[c] = "poll" /\ wakeAt'[c] = now
    BY <1>2 DEF Notified, IInv, TypeOK, Request
  <2>2. now \in Nat /\ decidedAt[c] \in Int
    BY DEF IInv, TypeOK, Request
  <2>3. QED  BY <1>1, <2>1, <2>2 DEF Attentive, Settled
<1>3. CASE c # r
  <2>1. pc'[c] = pc[c] /\ wakeAt'[c] = wakeAt[c]
    BY <1>3 DEF Notified, Return, IInv, TypeOK, Request
  <2>2. QED  BY <1>1, <2>1, OthersHonour
<1>4. QED  BY <1>2, <1>3

LEMMA PollHonours ==
  ASSUME IInv, NEW c \in Caller, Attentive(c), Settled(c), NEW d \in Caller, Poll(d)
  PROVE  Attentive(c)' /\ Settled(c)'
<1>1. UNCHANGED <<now, index, decision, decidedAt, expiresAt>>
  BY DEF Poll, clock, store
<1>2. CASE c = d
  <2>1. CASE decision[c] = "pending" /\ c \in index /\ pc' = pc /\ wakeAt' = [wakeAt EXCEPT ![c] = now + 1]
    <3>1. wakeAt'[c] = now + 1 /\ now \in Nat
      BY <2>1 DEF IInv, TypeOK, Request
    <3>2. QED  BY <1>1, <2>1, <3>1 DEF Attentive, Settled
  <2>2. CASE Return(c, "granted")
    <3>1. pc'[c] = "granted"
      BY <2>2 DEF Return, IInv, TypeOK, Request
    <3>2. QED  BY <1>1, <3>1 DEF Attentive, Settled
  <2>3. CASE (c \notin index \/ decision[c] \in {"rejected", "timeout"}) /\ Return(c, "refused")
    <3>1. pc'[c] = "refused"
      BY <2>3 DEF Return, IInv, TypeOK, Request
    <3>2. QED  BY <1>1, <2>3, <3>1 DEF Attentive, Settled
  <2>4. QED  BY <1>2, <2>1, <2>2, <2>3 DEF Poll
<1>3. CASE c # d
  <2>1. pc'[c] = pc[c] /\ wakeAt'[c] = wakeAt[c]
    BY <1>3 DEF Poll, Return, IInv, TypeOK, Request
  <2>2. QED  BY <1>1, <2>1, OthersHonour
<1>4. QED  BY <1>2, <1>3

\* The caller gives up at its wake-up time: what it has not seen was decided in
\* the period before.
LEMMA GiveUpHonours ==
  ASSUME IInv, NEW c \in Caller, Attentive(c), Settled(c), NEW d \in Caller, GiveUp(d)
  PROVE  Attentive(c)' /\ Settled(c)'
<1>1. UNCHANGED <<now, index, expiresAt>>
  BY DEF GiveUp, clock, store
<1>2. CASE c = d
  <2>1. pc[c] = "poll" /\ wakeAt[c] <= now /\ now >= expiresAt[c]
    BY <1>2 DEF GiveUp, Due
  <2>2. pc'[c] = "refused"
    BY <1>2 DEF GiveUp, Return, IInv, TypeOK, Request
  <2>3. CASE c \in index /\ decision[c] = "pending"
    <3>1. decision'[c] = "timeout"
      BY <1>2, <2>3 DEF GiveUp, IInv, TypeOK, Request
    <3>2. QED  BY <2>2, <3>1 DEF Attentive, Settled
  <2>4. CASE ~(c \in index /\ decision[c] = "pending")
    <3>1. UNCHANGED <<decision, decidedAt>>
      BY <1>2, <2>4 DEF GiveUp
    <3>2. decision[c] = "approved" => decidedAt[c] >= expiresAt[c] - 1
      BY <2>1 DEF Attentive, IInv, TypeOK, Request
    <3>3. QED  BY <1>1, <2>2, <2>4, <3>1, <3>2 DEF Attentive, Settled
  <2>5. QED  BY <2>3, <2>4
<1>3. CASE c # d
  <2>1. /\ pc'[c] = pc[c] /\ wakeAt'[c] = wakeAt[c] /\ decision'[c] = decision[c]
        /\ decidedAt'[c] = decidedAt[c]
    BY <1>3 DEF GiveUp, Return, IInv, TypeOK, Request
  <2>2. QED  BY <1>1, <2>1, OthersHonour
<1>4. QED  BY <1>2, <1>3

LEMMA RespondHonours ==
  ASSUME IInv, NEW c \in Caller, Attentive(c), Settled(c), NEW r \in Request,
         NEW o \in Operator, NEW approved \in BOOLEAN, Respond(r, o, approved)
  PROVE  Attentive(c)' /\ Settled(c)'
<1>1. UNCHANGED <<now, index, expiresAt, pc, wakeAt>>
  BY DEF Respond, clock, store
<1>2. CASE c = r
  <2>1. decidedAt'[c] = now /\ c \in index /\ decision[c] = "pending" /\ now \in Nat
        /\ wakeAt[c] \in Nat
    BY <1>2 DEF Respond, IInv, TypeOK, Request
  <2>2. decision'[c] # "pending"
    BY <1>2 DEF Respond, IInv, TypeOK, Request
  <2>3. QED  BY <1>1, <2>1, <2>2 DEF Attentive, Settled
<1>3. CASE c # r
  <2>1. decision'[c] = decision[c] /\ decidedAt'[c] = decidedAt[c]
    BY <1>3 DEF Respond, IInv, TypeOK, Request
  <2>2. QED  BY <1>1, <2>1, OthersHonour
<1>4. QED  BY <1>2, <1>3

LEMMA PendingHonours ==
  ASSUME IInv, NEW c \in Caller, Attentive(c), Settled(c), Pending
  PROVE  Attentive(c)' /\ Settled(c)'
BY OthersHonour DEF Pending, clock, store, Request

\* Time passes only when no caller is due and no broadcast is under way.
LEMMA TickHonours ==
  ASSUME IInv, NEW c \in Caller, Attentive(c), Settled(c), prompt, Tick
  PROVE  Attentive(c)' /\ Settled(c)'
<1>1. pc[c] # "notify" /\ ~Due(c) /\ now' = now + 1 /\ now \in Nat /\ wakeAt[c] \in Nat
  BY DEF Tick, IInv, TypeOK, Request
<1>2. UNCHANGED <<index, decision, decidedAt, expiresAt, pc, wakeAt>>
  BY DEF Tick, store
<1>3. QED  BY <1>1, <1>2 DEF Due, Attentive, Settled

\* On a responsive event loop an approval that the code honours too late came
\* within a poll period of the deadline, or its request had been evicted.
THEOREM ApprovalsHonoured == Spec => []ApprovalHonoured
<1>1. Init => Honoured
  BY DEF Init, Honoured, Attentive, Settled, Request
<1>2. IInv /\ Honoured /\ [Next]_vars => Honoured'
  <2> SUFFICES ASSUME IInv, Honoured, [Next]_vars, prompt', NEW c \in Caller
               PROVE  Attentive(c)' /\ Settled(c)'
    BY DEF Honoured
  <2>1. prompt
    BY DEF Next, vars, RequestApproval, CreateRequest, Create, Bypass, Poll, GiveUp, Notified,
           Respond, Pending, Tick, clock
  <2>2. Attentive(c) /\ Settled(c)
    BY <2>1 DEF Honoured
  <2>3. ASSUME NEW d \in Caller, Bypass(d)
        PROVE  Attentive(c)' /\ Settled(c)'
    <3>1. UNCHANGED <<now, index, decision, decidedAt, expiresAt, wakeAt>>
      BY <2>3 DEF Bypass, clock, store
    <3>2. CASE c = d
      <4>1. pc'[c] = "granted"
        BY <2>3, <3>2 DEF Bypass, IInv, TypeOK, Request
      <4>2. QED  BY <4>1 DEF Attentive, Settled
    <3>3. CASE c # d
      <4>1. pc'[c] = pc[c]
        BY <2>3, <3>3 DEF Bypass, IInv, TypeOK, Request
      <4>2. QED  BY <2>2, <3>1, <4>1, OthersHonour
    <3>4. QED  BY <3>2, <3>3
  <2>4. CASE UNCHANGED vars
    BY <2>2, <2>4 DEF vars, Attentive, Settled
  <2>5. ASSUME NEW r \in Request, Create(r)
        PROVE  Attentive(c)' /\ Settled(c)'
    BY <2>2, <2>5, CreateHonours
  <2>6. QED
    BY <2>1, <2>2, <2>3, <2>4, <2>5, NotifiedHonours, PollHonours, GiveUpHonours,
       RespondHonours, PendingHonours, TickHonours
       DEF Next, RequestApproval, CreateRequest, Request
<1>3. Honoured => ApprovalHonoured
  BY DEF Honoured, ApprovalHonoured, Settled
<1>4. QED  BY <1>1, <1>2, <1>3, Invariance, PTL DEF Spec

-----------------------------------------------------------------------------
\* Each step of the gate is a step of ApprovalGate or leaves it unchanged.
LEMMA StepRefines ==
  ASSUME IInv, [Next]_vars
  PROVE  [Abstract!ANext]_(Abstract!avars)
<1> USE DEF Abstract!ANext, Abstract!avars
<1>0. \A r \in Request : pc[r] \in Place  BY DEF IInv, TypeOK
<1>1. ASSUME NEW r \in Request, Create(r) PROVE Abstract!Ask(r)
  <2>1. pc[r] = "idle" /\ decision[r] = "none"
    BY <1>1 DEF Create, IInv, Existence
  <2>2. Outcome' = [Outcome EXCEPT ![r] = "waiting"]
    BY <1>1, <2>1 DEF Create, Outcome, IInv, TypeOK
  <2>3. Outcome[r] = "idle"  BY <2>1 DEF Outcome
  <2>4. QED  BY <1>1, <2>1, <2>2, <2>3 DEF Create, clock, Abstract!Ask
<1>2. ASSUME NEW c \in Caller, Bypass(c) PROVE Abstract!Bypass(c)
  <2>1. Outcome[c] = "idle" /\ Outcome' = [Outcome EXCEPT ![c] = "granted"]
    BY <1>2 DEF Bypass, Outcome, IInv, TypeOK, Request
  <2>2. QED  BY <1>2, <2>1 DEF Bypass, clock, Abstract!Bypass
<1>3. ASSUME NEW c \in Caller, Poll(c)
      PROVE  Abstract!Grant(c) \/ Abstract!Refuse(c) \/ UNCHANGED Abstract!avars
  <2>1. Outcome[c] = "waiting"  BY <1>3 DEF Poll, Due, Outcome, Request
  <2>2. CASE UNCHANGED pc
    BY <1>3, <2>2 DEF Poll, Outcome, clock
  <2>3. CASE Return(c, "granted") /\ decision[c] = "approved"
    <3>1. Outcome' = [Outcome EXCEPT ![c] = "granted"]
      BY <2>3 DEF Return, Outcome, IInv, TypeOK, Request
    <3>2. QED  BY <1>3, <2>1, <2>3, <3>1 DEF Poll, clock, Abstract!Grant
  <2>4. CASE Return(c, "refused")
    <3>1. Outcome' = [Outcome EXCEPT ![c] = "refused"]
      BY <2>4 DEF Return, Outcome, IInv, TypeOK, Request
    <3>2. QED  BY <1>3, <2>1, <3>1 DEF Poll, clock, Abstract!Refuse
  <2>5. QED  BY <1>3, <2>2, <2>3, <2>4 DEF Poll
<1>4. ASSUME NEW c \in Caller, GiveUp(c) PROVE Abstract!Refuse(c)
  <2>1. Outcome[c] = "waiting"  BY <1>4 DEF GiveUp, Due, Outcome, Request
  <2>2. Outcome' = [Outcome EXCEPT ![c] = "refused"]
    BY <1>4 DEF GiveUp, Return, Outcome, IInv, TypeOK, Request
  <2>3. \/ UNCHANGED decision
        \/ decision[c] = "pending" /\ decision' = [decision EXCEPT ![c] = "timeout"]
    BY <1>4 DEF GiveUp
  <2>4. QED  BY <1>4, <2>1, <2>2, <2>3 DEF GiveUp, clock, Abstract!Refuse
<1>5. ASSUME NEW r \in Request, NEW o \in Operator, NEW approved \in BOOLEAN,
             Respond(r, o, approved)
      PROVE  Abstract!Decide
  <2>1. PICK v \in {"approved", "rejected"} : decision' = [decision EXCEPT ![r] = v]
    BY <1>5 DEF Respond
  <2>2. decision' = [s \in Request |-> IF s \in {r} THEN v ELSE decision[s]]
    BY <2>1 DEF IInv, TypeOK
  <2>3. {r} \in SUBSET {s \in Request : decision[s] = "pending"}
    BY <1>5 DEF Respond
  <2>4. UNCHANGED Outcome  BY <1>5 DEF Respond, Outcome
  <2>5. QED  BY <1>5, <2>2, <2>3, <2>4 DEF Respond, clock, Abstract!Decide
<1>6. ASSUME Pending PROVE Abstract!Decide
  <2>1. Overdue \in SUBSET {s \in Request : decision[s] = "pending"}
    BY DEF Overdue
  <2>2. UNCHANGED Outcome  BY <1>6 DEF Pending, Outcome
  <2>3. QED  BY <1>6, <2>1, <2>2 DEF Pending, clock, Abstract!Decide
<1>7. ASSUME NEW r \in Request, Notified(r) PROVE UNCHANGED Abstract!avars
  <2>1. pc[r] = "notify" /\ \E p \in {"poll", "created"} : pc' = [pc EXCEPT ![r] = p]
    BY <1>7 DEF Notified, Return
  <2>2. UNCHANGED Outcome  BY <2>1 DEF Outcome, IInv, TypeOK
  <2>3. QED  BY <1>7, <2>2 DEF Notified, clock
<1>8. CASE Tick \/ UNCHANGED vars
  BY <1>8 DEF Tick, vars, Outcome
<1>9. QED
  BY <1>1, <1>2, <1>3, <1>4, <1>5, <1>6, <1>7, <1>8
     DEF Next, RequestApproval, CreateRequest, Request

\* The gate implements the abstract gate: one verdict per request, and nobody
\* let through an enabled gate without an approval.
THEOREM Refinement == Spec => ImplementsApprovalGate
<1>1. Init => Abstract!AInit
  BY DEF Init, Abstract!AInit, Outcome
<1>2. IInv /\ [Next]_vars => [Abstract!ANext]_(Abstract!avars)
  BY StepRefines
<1>3. QED
  BY <1>1, <1>2, Invariance, PTL DEF Spec, ImplementsApprovalGate, Abstract!ASpec
=============================================================================
