---------------------------- MODULE AgentsProofs ----------------------------
(***************************************************************************)
(* Theorems about Delegation and Swarm, for every set of tasks, agents and *)
(* goals and every limit of turns, hops, retries and failures, and about   *)
(* SwarmDispatch, for all callers and keys and every size of the cache.    *)
(***************************************************************************)
EXTENDS MCAgents, QueueProofs, FiniteSetTheorems, TLAPS

USE DelegationAssumption, SwarmAssumption

-----------------------------------------------------------------------------
(* The course of a task between two suspensions. *)

\* Each call of an agent is paid for by a turn.
Paid(r) ==
  /\ r.turns <= r.budget
  /\ r.calls <= r.turns \/ r.at = "ended"
  /\ r.calls <= r.budget
  /\ r.at = "ready" => r.calls < r.turns

\* What the operators on a course are given: counters may have just gone past
\* their limits.
Course ==
  [at : {"idle", "ready", "calling", "ended"}, stage : {"single", "code", "review"},
   agent : Agent \cup {"nobody"}, routed : BOOLEAN, hops : Nat, qa : Nat, turns : Nat,
   budget : 0 .. MostTurns, retries : 0 .. MaxQARetries, calls : 0 .. MostTurns]

\* What they return: the task is to delegate once more, or is over; its budget
\* and its calls are those of before.
Resumed(r, s) ==
  /\ s \in RunType
  /\ Paid(s)
  /\ s.at \in {"ready", "ended"}
  /\ s.budget = r.budget /\ s.calls = r.calls

LEMMA MostTurnsNat == MostTurns \in Nat /\ MaxTurns \in 0 .. MostTurns /\ MostTurns > 0
BY DEF MostTurns

LEMMA RunIsCourse == RunType \subseteq Course
BY MostTurnsNat DEF RunType, Course

LEMMA EndedResumes ==
  ASSUME NEW r \in Course, r.calls <= r.budget
  PROVE  Resumed(r, Ended(r))
<1> DEFINE e == Ended(r)
<1>1. e = [at |-> "ended", stage |-> "single", agent |-> "nobody", routed |-> FALSE, hops |-> 0,
           qa |-> 0, turns |-> 0, budget |-> r.budget, retries |-> 0, calls |-> r.calls]
  <2>1. e = [[[Idle EXCEPT !.at = "ended"] EXCEPT !.budget = r.budget] EXCEPT !.calls = r.calls]
    BY Zenon DEF Ended
  <2>2. QED  BY <2>1 DEF Idle
<1> HIDE DEF e
<1>2. r.budget \in 0 .. MostTurns /\ r.calls \in 0 .. MostTurns
  BY DEF Course
<1>3. e \in RunType
  BY <1>1, <1>2, MostTurnsNat DEF RunType
<1>4. Paid(e) /\ e.at = "ended" /\ e.budget = r.budget /\ e.calls = r.calls
  BY <1>1, <1>2, MostTurnsNat DEF Paid
<1>5. QED  BY <1>3, <1>4 DEF Resumed, e

LEMMA ReadyResumes ==
  ASSUME NEW r \in Course, r.calls < r.turns, r.turns <= r.budget,
         r.hops <= MaxHops, r.qa <= MaxQARetries,
         NEW a \in Agent \cup {"nobody"}
  PROVE  Resumed(r, Ready(r, a))
<1> DEFINE s == Ready(r, a)
<1>1. /\ s \in Course /\ s.at = "ready" /\ s.hops = r.hops /\ s.qa = r.qa
      /\ s.turns = r.turns /\ s.budget = r.budget /\ s.calls = r.calls
  BY DEF Course, Ready
<1> HIDE DEF s
<1>2. r.budget \in 0 .. MostTurns /\ r.calls \in 0 .. MostTurns /\ r.turns \in Nat
  BY DEF Course
<1>3. s \in RunType
  BY <1>1, <1>2, MostTurnsNat DEF RunType, Course
<1>4. Paid(s)
  BY <1>1, <1>2 DEF Paid
<1>5. QED  BY <1>1, <1>3, <1>4 DEF Resumed, s

\* One more turn taken.
LEMMA Consumed ==
  ASSUME NEW r \in Course
  PROVE  /\ Consume(r) \in Course
         /\ Consume(r).turns = r.turns + 1
         /\ Consume(r).budget = r.budget /\ Consume(r).calls = r.calls
         /\ Consume(r).hops = r.hops /\ Consume(r).qa = r.qa
         /\ Consume(r).at = r.at
         /\ Consume(r).stage = r.stage
BY DEF Consume, Course

LEMMA ResumedSame ==
  ASSUME NEW r, NEW q, NEW s, Resumed(q, s), q.budget = r.budget, q.calls = r.calls
  PROVE  Resumed(r, s)
BY DEF Resumed

LEMMA CourseNumbers ==
  ASSUME NEW r \in Course
  PROVE  /\ r.turns \in Nat /\ r.hops \in Nat /\ r.qa \in Nat
         /\ r.budget \in Nat /\ r.calls \in Nat
BY MostTurnsNat DEF Course

LEMMA SpendResumes ==
  ASSUME NEW r \in Course, r.calls <= r.budget, r.calls <= r.turns, r.hops = 0, r.qa = 0,
         NEW a \in Agent
  PROVE  Resumed(r, Spend(r, a))
<1>1. CASE Over(Consume(r))
  <2>1. Ended(Consume(r)) = Ended(r)
    BY DEF Ended, Consume, Course
  <2>2. Resumed(r, Ended(r))
    BY EndedResumes
  <2>3. QED  BY <1>1, <2>1, <2>2 DEF Spend
<1>2. CASE ~Over(Consume(r))
  <2> DEFINE q == Consume(r)
  <2>1. /\ q \in Course /\ q.turns = r.turns + 1 /\ q.budget = r.budget /\ q.calls = r.calls
        /\ q.hops = 0 /\ q.qa = 0
    BY Consumed
  <2>2. ~(q.turns > q.budget)
    BY <1>2 DEF Over
  <2> HIDE DEF q
  <2>3. q.calls < q.turns /\ q.turns <= q.budget
    BY <2>1, <2>2, CourseNumbers
  <2>4. q.hops <= MaxHops /\ q.qa <= MaxQARetries
    BY <2>1
  <2>5. Resumed(q, Ready(q, a))
    BY <2>1, <2>3, <2>4, ReadyResumes
  <2>6. Resumed(r, Ready(q, a))
    BY <2>1, <2>5, ResumedSame
  <2>7. QED  BY <1>2, <2>6 DEF q, Spend
<1>3. QED  BY <1>1, <1>2

LEMMA ReviseResumes ==
  ASSUME NEW r \in Course, r.calls <= r.budget, r.calls <= r.turns, r.hops = 0, r.qa = 0
  PROVE  Resumed(r, Revise(r))
<1>1. CASE r.budget - r.turns < 2 \/ r.retries = MaxQARetries
  BY <1>1, EndedResumes DEF Revise
<1>2. CASE ~(r.budget - r.turns < 2 \/ r.retries = MaxQARetries)
  <2> DEFINE p == [r EXCEPT !.stage = "code", !.retries = @ + 1]
             q == Consume(p)
  <2>1. /\ p \in Course /\ p.turns = r.turns /\ p.budget = r.budget /\ p.calls = r.calls
        /\ p.hops = 0 /\ p.qa = 0
    <3>1. r.retries + 1 \in 0 .. MaxQARetries
      BY <1>2 DEF Course
    <3>2. QED  BY <3>1 DEF Course
  <2> HIDE DEF p
  <2>2. /\ q \in Course /\ q.turns = r.turns + 1 /\ q.budget = r.budget /\ q.calls = r.calls
        /\ q.hops = 0 /\ q.qa = 0
    BY <2>1, Consumed
  <2> HIDE DEF q
  <2>3. q.calls < q.turns /\ q.turns <= q.budget /\ q.hops <= MaxHops /\ q.qa <= MaxQARetries
    BY <1>2, <2>2, CourseNumbers
  <2>4. Resumed(q, Ready(q, "coder"))
    BY <2>2, <2>3, ReadyResumes DEF Agent
  <2>5. Resumed(r, Ready(q, "coder"))
    BY <2>2, <2>4, ResumedSame
  <2>6. Revise(r) = Ready(q, "coder")
    BY <1>2 DEF Revise, p, q
  <2>7. QED  BY <2>5, <2>6
<1>3. QED  BY <1>1, <1>2

LEMMA TextResumes ==
  ASSUME NEW r \in Course, r.calls <= r.budget, r.calls <= r.turns, NEW revise \in BOOLEAN
  PROVE  Resumed(r, Text(r, revise))
<1> DEFINE s == [r EXCEPT !.routed = FALSE, !.hops = 0, !.qa = 0]
           v == [s EXCEPT !.stage = "review"]
<1>1. /\ s \in Course /\ s.turns = r.turns /\ s.budget = r.budget /\ s.calls = r.calls
      /\ s.hops = 0 /\ s.qa = 0
  BY DEF Course
<1>2. /\ v \in Course /\ v.turns = r.turns /\ v.budget = r.budget /\ v.calls = r.calls
      /\ v.hops = 0 /\ v.qa = 0
  BY DEF Course
<1>3. s.stage \in {"single", "code", "review"}
  BY <1>1 DEF Course
<1>4. Text(r, revise) = CASE s.stage = "single" -> Ended(s)
                          [] s.stage = "code"   -> Spend(v, "reviewer")
                          [] s.stage = "review" -> IF revise THEN Revise(s) ELSE Ended(s)
  BY DEF Text
<1> HIDE DEF s, v
<1>5. Resumed(s, Ended(s)) /\ Resumed(s, Revise(s))
  BY <1>1, EndedResumes, ReviseResumes
<1>6. Resumed(v, Spend(v, "reviewer"))
  BY <1>2, SpendResumes DEF Agent
<1>7. Resumed(r, Ended(s)) /\ Resumed(r, Revise(s)) /\ Resumed(r, Spend(v, "reviewer"))
  BY <1>1, <1>2, <1>5, <1>6, ResumedSame
<1>8. QED  BY <1>3, <1>4, <1>7

LEMMA RouteResumes ==
  ASSUME NEW r \in Course, r.calls <= r.budget, r.calls <= r.turns, r.hops <= MaxHops,
         r.qa <= MaxQARetries,
         NEW to \in Agent \cup {"nobody"}, NEW wellFormed \in BOOLEAN, NEW reject \in BOOLEAN
  PROVE  Resumed(r, Route(r, to, wellFormed, reject))
<1> DEFINE s == [Consume(r) EXCEPT !.routed = TRUE, !.hops = @ + 1]
           q == IF to = "coder" /\ reject THEN [s EXCEPT !.qa = @ + 1] ELSE s
<1>1. /\ s \in Course /\ s.turns = r.turns + 1 /\ s.budget = r.budget /\ s.calls = r.calls
      /\ s.hops = r.hops + 1 /\ s.qa = r.qa
  <2> DEFINE c == Consume(r)
  <2>1. /\ c \in Course /\ c.turns = r.turns + 1 /\ c.budget = r.budget /\ c.calls = r.calls
        /\ c.hops = r.hops /\ c.qa = r.qa
    BY Consumed
  <2> HIDE DEF c
  <2>2. \A n \in Nat : LET d == [c EXCEPT !.routed = TRUE, !.hops = n]
                     IN  /\ d \in Course /\ d.turns = c.turns /\ d.budget = c.budget
                         /\ d.calls = c.calls /\ d.hops = n /\ d.qa = c.qa
    BY <2>1 DEF Course
  <2>3. c.hops + 1 \in Nat
    BY <2>1, CourseNumbers
  <2>4. s = [c EXCEPT !.routed = TRUE, !.hops = c.hops + 1]
    BY DEF c
  <2> HIDE DEF s
  <2>5. QED  BY <2>1, <2>2, <2>3, <2>4
<1>2. /\ q \in Course /\ q.turns = r.turns + 1 /\ q.budget = r.budget /\ q.calls = r.calls
      /\ q.hops = r.hops + 1
  <2> HIDE DEF s
  <2>1. CASE to = "coder" /\ reject
    BY <1>1, <2>1 DEF Course
  <2>2. CASE ~(to = "coder" /\ reject)
    BY <1>1, <2>2
  <2>3. QED  BY <2>1, <2>2
<1>3. Route(r, to, wellFormed, reject) =
        CASE r.hops = MaxHops -> Text(r, FALSE)
          [] r.hops # MaxHops /\ (Over(s) \/ ~wellFormed \/ q.qa > MaxQARetries) -> Text(s, FALSE)
          [] OTHER -> Ready(q, to)
  BY DEF Route
<1> HIDE DEF s, q
<1>4. /\ r.turns \in Nat /\ r.hops \in Nat /\ r.calls \in Nat /\ r.budget \in Nat /\ q.qa \in Nat
  BY <1>2, CourseNumbers
<1>5. Resumed(r, Text(r, FALSE))
  BY TextResumes
<1>6. Resumed(r, Text(s, FALSE))
  <2>1. s.calls <= s.budget /\ s.calls <= s.turns
    BY <1>1, <1>4
  <2>2. Resumed(s, Text(s, FALSE))
    BY <1>1, <2>1, TextResumes
  <2>3. QED  BY <1>1, <2>2, ResumedSame
<1>7. ASSUME r.hops # MaxHops, ~Over(s), ~(q.qa > MaxQARetries)
      PROVE  Resumed(r, Ready(q, to))
  <2>1. q.turns <= q.budget /\ q.calls < q.turns /\ q.hops <= MaxHops /\ q.qa <= MaxQARetries
    BY <1>1, <1>2, <1>4, <1>7 DEF Over
  <2>2. Resumed(q, Ready(q, to))
    BY <1>2, <2>1, ReadyResumes
  <2>3. QED  BY <1>2, <2>2, ResumedSame
<1>8. QED  BY <1>3, <1>5, <1>6, <1>7

LEMMA BegunResumes ==
  ASSUME NEW budget \in 0 .. MostTurns, NEW r \in Begun(budget)
  PROVE  r \in RunType /\ Paid(r) /\ r.at \in {"ready", "ended"}
         /\ r.budget = budget /\ r.calls = 0
<1> DEFINE i == [Idle EXCEPT !.budget = budget]
           k == [i EXCEPT !.stage = "code"]
<1>0. Idle \in Course /\ Idle.calls = 0 /\ Idle.turns = 0 /\ Idle.hops = 0 /\ Idle.qa = 0
  BY MostTurnsNat DEF Idle, Course
<1>1. i \in Course /\ i.budget = budget /\ i.calls = 0 /\ i.turns = 0 /\ i.hops = 0 /\ i.qa = 0
  BY <1>0 DEF Course
<1>2. k \in Course /\ k.budget = budget /\ k.calls = 0 /\ k.turns = 0 /\ k.hops = 0 /\ k.qa = 0
  <2> HIDE DEF i
  <2>1. QED  BY <1>1 DEF Course
<1>3. r \in {Ended(i), Spend(k, "coder")} \cup {Spend(i, a) : a \in Agent}
  BY DEF Begun
<1> HIDE DEF i, k
<1>4. Resumed(i, r) \/ Resumed(k, r)
  BY <1>1, <1>2, <1>3, EndedResumes, SpendResumes DEF Agent
<1>5. QED  BY <1>1, <1>2, <1>4 DEF Resumed

-----------------------------------------------------------------------------
(* Delegation: the tasks of one supervisor. *)

DInv ==
  /\ DTypeOK
  /\ \A t \in Task : Paid(run[t])
  /\ FailuresBounded

LEMMA FlightsOfTasks ==
  ASSUME NEW a
  PROVE  /\ IsFiniteSet(InFlight(a))
         /\ Cardinality(InFlight(a)) \in Nat
         /\ Cardinality(Task) \in Nat
         /\ Cardinality(InFlight(a)) <= Cardinality(Task)
<1>1. InFlight(a) \subseteq Task
  BY DEF InFlight
<1>2. QED  BY <1>1, FS_Subset, FS_CardinalityType

LEMMA FlightsOfTasksNext ==
  ASSUME NEW a
  PROVE  /\ IsFiniteSet(InFlight(a)')
         /\ Cardinality(InFlight(a)') \in Nat
         /\ Cardinality(Task) \in Nat
         /\ Cardinality(InFlight(a)') <= Cardinality(Task)
<1>1. InFlight(a)' \subseteq Task
  BY DEF InFlight
<1>2. QED  BY <1>1, FS_Subset, FS_CardinalityType

\* No call begins for an agent and no failure of it is recorded.
LEMMA NoMoreFailures ==
  ASSUME NEW a \in Agent, failures[a] \in Nat, failures'[a] \in Nat,
         failures[a] + Cardinality(InFlight(a)) < MaxFailures + Cardinality(Task),
         InFlight(a)' \subseteq InFlight(a), failures'[a] <= failures[a]
  PROVE  failures'[a] + Cardinality(InFlight(a)') < MaxFailures + Cardinality(Task)
<1>1. Cardinality(InFlight(a)') <= Cardinality(InFlight(a))
  BY FlightsOfTasks, FS_Subset
<1>2. QED  BY <1>1, FlightsOfTasks, FlightsOfTasksNext

\* A task moves on without a call, and no failure is recorded.
LEMMA Settles ==
  ASSUME DInv, NEW t \in Task, NEW s \in RunType, Paid(s), s.at # "calling",
         run' = [run EXCEPT ![t] = s],
         failures' \in [Agent -> Nat], window' \in [Agent -> {"never", "within", "over"}],
         \A a \in Agent : failures'[a] <= failures[a]
  PROVE  DInv'
<1>1. DTypeOK'
  BY DEF DInv, DTypeOK
<1>2. \A u \in Task : Paid(run[u])'
  BY DEF DInv, DTypeOK, Paid
<1>3. ASSUME NEW a \in Agent
      PROVE  failures'[a] + Cardinality(InFlight(a)') < MaxFailures + Cardinality(Task)
  <2>1. InFlight(a)' \subseteq InFlight(a)
    BY DEF InFlight, Calling, DInv, DTypeOK
  <2>2. QED  BY <2>1, NoMoreFailures DEF DInv, DTypeOK, FailuresBounded
<1>4. FailuresBounded'
  BY <1>3 DEF FailuresBounded
<1>5. QED  BY <1>1, <1>2, <1>4 DEF DInv

\* The same where the circuit breaker is left alone.
LEMMA SettlesQuietly ==
  ASSUME DInv, NEW t \in Task, NEW s \in RunType, Paid(s), s.at # "calling",
         run' = [run EXCEPT ![t] = s], UNCHANGED breaker
  PROVE  DInv'
<1>1. failures' = failures /\ window' = window
  BY DEF breaker
<1>2. /\ failures \in [Agent -> Nat] /\ window \in [Agent -> {"never", "within", "over"}]
      /\ \A a \in Agent : failures[a] <= failures[a]
  BY DEF DInv, DTypeOK
<1>3. QED  BY <1>1, <1>2, Settles

\* An agent is called: its failures are below the limit, or just forgotten.
LEMMA Calls ==
  ASSUME DInv, NEW t \in Task, run[t].at = "ready", run[t].agent \in Agent, Call(t),
         failures' \in [Agent -> Nat], window' \in [Agent -> {"never", "within", "over"}],
         failures'[run[t].agent] < MaxFailures,
         \A a \in Agent : a # run[t].agent => failures'[a] = failures[a]
  PROVE  DInv'
<1> DEFINE r == run[t]
           s == [r EXCEPT !.at = "calling", !.calls = @ + 1]
<1>1. r \in RunType /\ Paid(r)
  BY DEF DInv, DTypeOK
<1>2. r.calls + 1 \in 0 .. MostTurns /\ r.calls + 1 <= r.turns /\ r.turns <= r.budget
  <2>1. /\ r.calls \in 0 .. MostTurns /\ r.turns \in 0 .. MostTurns
        /\ r.budget \in 0 .. MostTurns
    BY <1>1 DEF RunType
  <2>2. QED  BY <1>1, <2>1, MostTurnsNat DEF Paid
<1>3. s \in RunType /\ Paid(s) /\ s.agent = r.agent
  <2>1. \A n \in 0 .. MostTurns : LET d == [r EXCEPT !.at = "calling", !.calls = n]
                                  IN  /\ d \in RunType /\ d.calls = n /\ d.at = "calling"
                                      /\ d.turns = r.turns /\ d.budget = r.budget
                                      /\ d.agent = r.agent
    BY <1>1 DEF RunType
  <2>2. s = [r EXCEPT !.at = "calling", !.calls = r.calls + 1]
    OBVIOUS
  <2> HIDE DEF s
  <2>3. /\ s \in RunType /\ s.calls = r.calls + 1 /\ s.at = "calling" /\ s.agent = r.agent
        /\ s.turns = r.turns /\ s.budget = r.budget
    BY <1>2, <2>1, <2>2
  <2>4. s.turns <= s.budget /\ s.calls <= s.turns
    BY <1>2, <2>3
  <2>5. s.calls <= s.budget
    BY <1>1, <1>2, <2>3, MostTurnsNat DEF RunType
  <2>6. QED  BY <2>3, <2>4, <2>5 DEF Paid
<1>4. run' = [run EXCEPT ![t] = s]
  BY DEF Call, DInv, DTypeOK
<1> HIDE DEF s
<1>5. DTypeOK'
  BY <1>3, <1>4 DEF DInv, DTypeOK
<1>6. \A u \in Task : Paid(run[u])'
  BY <1>3, <1>4 DEF DInv, DTypeOK, Paid
<1>7. ASSUME NEW a \in Agent
      PROVE  failures'[a] + Cardinality(InFlight(a)') < MaxFailures + Cardinality(Task)
  <2>1. CASE a = r.agent
    BY <2>1, FlightsOfTasksNext
  <2>2. CASE a # r.agent
    <3>1. InFlight(a)' \subseteq InFlight(a)
      BY <1>3, <1>4, <2>2 DEF InFlight, Calling, DInv, DTypeOK
    <3>2. failures'[a] = failures[a]
      BY <2>2
    <3>3. QED  BY <3>1, <3>2, NoMoreFailures DEF DInv, DTypeOK, FailuresBounded
  <2>3. QED  BY <2>1, <2>2
<1>8. QED  BY <1>5, <1>6, <1>7 DEF DInv, FailuresBounded

LEMMA DelegateKeeps ==
  ASSUME DInv, NEW t \in Task, Delegate(t)
  PROVE  DInv'
<1> DEFINE a == run[t].agent
<1>1. run[t] \in RunType /\ run[t] \in Course /\ Paid(run[t]) /\ run[t].at = "ready"
  BY RunIsCourse DEF DInv, DTypeOK, Delegate
<1>2. run[t].calls <= run[t].budget /\ run[t].calls <= run[t].turns
  BY <1>1, CourseNumbers DEF Paid
<1>3. CASE a \notin Agent /\ run' = [run EXCEPT ![t] = Ended(@)] /\ UNCHANGED breaker
  <2>1. Resumed(run[t], Ended(run[t]))
    BY <1>1, <1>2, EndedResumes
  <2>2. run' = [run EXCEPT ![t] = Ended(run[t])]
    BY <1>3
  <2>3. QED  BY <1>3, <2>1, <2>2, SettlesQuietly DEF Resumed
<1>4. CASE a \in Agent /\ ~Tripped(a) /\ Call(t) /\ UNCHANGED breaker
  <2>1. failures'[a] < MaxFailures
    BY <1>4 DEF Tripped, breaker, DInv, DTypeOK
  <2>2. QED  BY <1>1, <1>4, <2>1, Calls DEF breaker, DInv, DTypeOK
<1>5. CASE a \in Agent /\ Call(t) /\ Reset(a)
  BY <1>1, <1>5, Calls DEF Reset, DInv, DTypeOK
<1>6. CASE a \in Agent /\ run' = [run EXCEPT ![t] = Text(@, FALSE)] /\ UNCHANGED breaker
  <2>1. Resumed(run[t], Text(run[t], FALSE))
    BY <1>1, <1>2, TextResumes
  <2>2. run' = [run EXCEPT ![t] = Text(run[t], FALSE)]
    BY <1>6
  <2>3. QED  BY <1>6, <2>1, <2>2, SettlesQuietly DEF Resumed
<1>7. QED  BY <1>3, <1>4, <1>5, <1>6 DEF Delegate

LEMMA AnswerKeeps ==
  ASSUME DInv, NEW t \in Task, Answer(t)
  PROVE  DInv'
<1>1. /\ run[t] \in RunType /\ run[t] \in Course /\ Paid(run[t]) /\ run[t].at = "calling"
      /\ run[t].hops <= MaxHops /\ run[t].qa <= MaxQARetries
  BY RunIsCourse DEF DInv, DTypeOK, Answer, Calling, RunType
<1>2. run[t].calls <= run[t].budget /\ run[t].calls <= run[t].turns
  BY <1>1 DEF Paid
<1>3. /\ failures' \in [Agent -> Nat] /\ window' \in [Agent -> {"never", "within", "over"}]
      /\ \A a \in Agent : failures'[a] <= failures[a]
  <2>1. /\ failures' = [failures EXCEPT ![run[t].agent] = 0]
        /\ window' = [window EXCEPT ![run[t].agent] = "never"]
    BY DEF Answer, Reset
  <2>2. failures \in [Agent -> Nat] /\ window \in [Agent -> {"never", "within", "over"}]
    BY DEF DInv, DTypeOK
  <2> DEFINE b == run[t].agent
  <2> HIDE DEF b
  <2>3. failures' = [failures EXCEPT ![b] = 0] /\ window' = [window EXCEPT ![b] = "never"]
    BY <2>1 DEF b
  <2>4. failures' \in [Agent -> Nat] /\ window' \in [Agent -> {"never", "within", "over"}]
    BY <2>2, <2>3
  <2>5. \A a \in Agent : failures'[a] <= failures[a]
    BY <2>2, <2>3
  <2>6. QED  BY <2>4, <2>5
<1>4. \E s : run' = [run EXCEPT ![t] = s] /\ Resumed(run[t], s)
  <2>1. CASE \E revise \in BOOLEAN : run' = [run EXCEPT ![t] = Text(@, revise)]
    BY <1>1, <1>2, <2>1, TextResumes
  <2>2. CASE \E to \in Agent \cup {"nobody"}, ok, reject \in BOOLEAN :
               run' = [run EXCEPT ![t] = Route(@, to, ok, reject)]
    BY <1>1, <1>2, <2>2, RouteResumes
  <2>3. QED  BY <2>1, <2>2 DEF Answer
<1>5. QED  BY <1>3, <1>4, Settles DEF Resumed

LEMMA RaiseKeeps ==
  ASSUME DInv, NEW t \in Task, Raise(t)
  PROVE  DInv'
<1> DEFINE a == run[t].agent
<1>1. /\ run[t] \in RunType /\ run[t] \in Course /\ Paid(run[t])
      /\ run[t].at = "calling"
  BY RunIsCourse DEF DInv, DTypeOK, Raise, Calling
<1>2. Resumed(run[t], Ended(run[t]))
  BY <1>1, EndedResumes DEF Paid
<1>3. run' = [run EXCEPT ![t] = Ended(run[t])] /\ failures' = [failures EXCEPT ![a] = @ + 1]
  BY DEF Raise
<1>4. DTypeOK'
  <2>1. run' \in [Task -> RunType]
    BY <1>2, <1>3 DEF DInv, DTypeOK, Resumed
  <2>2. failures' \in [Agent -> Nat]
    <3>1. \A b \in Agent : failures[b] + 1 \in Nat
      BY DEF DInv, DTypeOK
    <3>2. QED  BY <1>3, <3>1 DEF DInv, DTypeOK
  <2>3. window' \in [Agent -> {"never", "within", "over"}]
    BY DEF Raise, DInv, DTypeOK
  <2>4. QED  BY <2>1, <2>2, <2>3 DEF DTypeOK
<1>5. \A u \in Task : Paid(run[u])'
  BY <1>2, <1>3 DEF DInv, DTypeOK, Resumed, Paid
<1>6. \A b \in Agent : InFlight(b)' = InFlight(b) \ {t}
  <2>1. Ended(run[t]).at # "calling"
    BY <1>2, <1>1 DEF Ended, Idle
  <2>2. QED  BY <1>1, <1>3, <2>1 DEF InFlight, Calling, DInv, DTypeOK
<1>7. ASSUME NEW b \in Agent
      PROVE  failures'[b] + Cardinality(InFlight(b)') < MaxFailures + Cardinality(Task)
  <2>1. CASE b = a
    <3>1. t \in InFlight(b)
      BY <1>1, <2>1 DEF InFlight, Calling
    <3>2. Cardinality(InFlight(b)') = Cardinality(InFlight(b)) - 1
      BY <1>6, <3>1, FlightsOfTasks, FS_RemoveElement
    <3>3. failures[b] \in Nat /\ failures'[b] = failures[b] + 1
      BY <1>3, <2>1 DEF DInv, DTypeOK
    <3>4. QED  BY <3>2, <3>3, FlightsOfTasks DEF DInv, FailuresBounded
  <2>2. CASE b # a
    <3>1. failures[b] \in Nat /\ failures'[b] = failures[b]
      BY <1>3, <2>2 DEF DInv, DTypeOK
    <3>2. QED  BY <1>6, <3>1, NoMoreFailures DEF DInv, FailuresBounded
  <2>3. QED  BY <2>1, <2>2
<1>8. QED  BY <1>4, <1>5, <1>7 DEF DInv, FailuresBounded

LEMMA TimeOutKeeps ==
  ASSUME DInv, NEW t \in Task, TimeOut(t)
  PROVE  DInv'
<1>1. run[t] \in Course /\ Paid(run[t])
  BY RunIsCourse DEF DInv, DTypeOK
<1>2. Resumed(run[t], Ended(run[t]))
  BY <1>1, EndedResumes DEF Paid
<1>3. run' = [run EXCEPT ![t] = Ended(run[t])]
  BY DEF TimeOut
<1>4. QED  BY <1>2, <1>3, SettlesQuietly DEF TimeOut, Resumed

LEMMA StartKeeps ==
  ASSUME DInv, NEW t \in Task, Start(t)
  PROVE  DInv'
<1>1. PICK r \in Begun(MaxTurns) : run' = [run EXCEPT ![t] = r]
  BY DEF Start
<1>2. r \in RunType /\ Paid(r) /\ r.at # "calling"
  BY MostTurnsNat, BegunResumes
<1>3. QED  BY <1>1, <1>2, SettlesQuietly DEF Start

\* Steps that leave tasks and failures alone.
LEMMA QuietKeeps ==
  ASSUME DInv, UNCHANGED <<run, failures>>, window' \in [Agent -> {"never", "within", "over"}]
  PROVE  DInv'
BY DEF DInv, DTypeOK, Paid, FailuresBounded, InFlight, Calling

LEMMA ElapseKeeps ==
  ASSUME DInv, NEW a \in Agent, Elapse(a)
  PROVE  DInv'
BY QuietKeeps DEF Elapse, DInv, DTypeOK

LEMMA DInitInv == DInit => DInv
<1> SUFFICES ASSUME DInit PROVE DInv
  OBVIOUS
<1>1. Idle \in RunType /\ Paid(Idle)
  BY MostTurnsNat DEF Idle, RunType, Paid
<1>2. DTypeOK
  BY <1>1 DEF DInit, DTypeOK
<1>3. ASSUME NEW a \in Agent
      PROVE  failures[a] + Cardinality(InFlight(a)) < MaxFailures + Cardinality(Task)
  <2>1. failures[a] = 0
    BY DEF DInit
  <2>2. QED  BY <2>1, FlightsOfTasks
<1>4. QED  BY <1>1, <1>2, <1>3 DEF DInit, DInv, FailuresBounded

LEMMA DNextInv == DInv /\ [DNext]_dvars => DInv'
<1> SUFFICES ASSUME DInv, [DNext]_dvars PROVE DInv'
  OBVIOUS
<1>1. ASSUME NEW t \in Task, Start(t) \/ Step(t)
      PROVE  DInv'
  BY <1>1, StartKeeps, DelegateKeeps, AnswerKeeps, RaiseKeeps, TimeOutKeeps DEF Step
<1>2. ASSUME NEW a \in Agent, Elapse(a)
      PROVE  DInv'
  BY <1>2, ElapseKeeps
<1>3. CASE UNCHANGED dvars
  BY <1>3, QuietKeeps DEF dvars, DInv, DTypeOK
<1>4. QED  BY <1>1, <1>2, <1>3 DEF DNext

LEMMA DSpecInv == DSpec => []DInv
BY DInitInv, DNextInv, PTL DEF DSpec

\* The tasks and the circuit breaker of a supervisor keep their types: no
\* counter of turns, hops or retries goes past its limit.
THEOREM DelegationTypes == DSpec => []DTypeOK
<1>1. DInv => DTypeOK
  BY DEF DInv
<1>2. QED  BY <1>1, DSpecInv, PTL

\* Whatever calls were under way when a circuit opened, the failures of an
\* agent pass the limit by fewer than there are tasks.
THEOREM FailuresStayBounded == DSpec => []FailuresBounded
<1>1. DInv => FailuresBounded
  BY DEF DInv
<1>2. QED  BY <1>1, DSpecInv, PTL

-----------------------------------------------------------------------------
(* Delegation implements TaskBudget. *)

Phases == [t \in Task |-> IF run[t].at = "ready" THEN "thinking" ELSE run[t].at]
Lefts  == [t \in Task |-> run[t].budget - run[t].calls]

\* One task changes: so does its part of the abstract state, and no other.
LEMMA MovesOne ==
  ASSUME NEW t \in Task, NEW s, run \in [Task -> RunType], run' = [run EXCEPT ![t] = s]
  PROVE  /\ Phases' = [Phases EXCEPT ![t] = IF s.at = "ready" THEN "thinking" ELSE s.at]
         /\ Lefts' = [Lefts EXCEPT ![t] = s.budget - s.calls]
BY DEF Phases, Lefts

\* A task that made no call stutters or stops; one that was calling is answered.
LEMMA ResumedRefines ==
  ASSUME DInv, NEW t \in Task, NEW s, Resumed(run[t], s), run' = [run EXCEPT ![t] = s],
         run[t].at \in {"ready", "calling"}
  PROVE  [Budget!BNext]_Budget!bvars
<1>1. /\ Phases' = [Phases EXCEPT ![t] = IF s.at = "ready" THEN "thinking" ELSE s.at]
      /\ Lefts' = [Lefts EXCEPT ![t] = s.budget - s.calls]
  BY MovesOne DEF DInv, DTypeOK
<1>2. s.at \in {"ready", "ended"} /\ s.budget = run[t].budget /\ s.calls = run[t].calls
  BY DEF Resumed
<1>3. Lefts' = Lefts
  BY <1>1, <1>2 DEF Lefts
<1>4. Phases[t] = IF run[t].at = "ready" THEN "thinking" ELSE run[t].at
  BY DEF Phases
<1>5. CASE run[t].at = "ready" /\ s.at = "ready"
  <2>1. Phases' = Phases
    BY <1>1, <1>4, <1>5 DEF Phases
  <2>2. QED  BY <1>3, <2>1 DEF Budget!bvars, Phases, Lefts
<1>6. CASE run[t].at = "ready" /\ s.at = "ended"
  <2>1. Budget!BStop(t)
    BY <1>1, <1>3, <1>4, <1>6 DEF Budget!BStop, Budget!BMove, Phases, Lefts
  <2>2. QED  BY <2>1 DEF Budget!BNext
<1>7. CASE run[t].at = "calling"
  <2> DEFINE to == IF s.at = "ready" THEN "thinking" ELSE s.at
  <2>1. to \in {"thinking", "ended"} /\ Budget!BMove(t, {"calling"}, to)
    BY <1>1, <1>2, <1>4, <1>7 DEF Budget!BMove, Phases
  <2>2. Budget!BAnswer(t)
    BY <1>3, <2>1 DEF Budget!BAnswer, Lefts
  <2>3. QED  BY <2>2 DEF Budget!BNext
<1>8. QED  BY <1>2, <1>5, <1>6, <1>7

LEMMA CallRefines ==
  ASSUME DInv, NEW t \in Task, run[t].at = "ready", Call(t)
  PROVE  [Budget!BNext]_Budget!bvars
<1> DEFINE s == [run[t] EXCEPT !.at = "calling", !.calls = @ + 1]
<1>1. run[t] \in RunType /\ Paid(run[t])
  BY DEF DInv, DTypeOK
<1>2. run' = [run EXCEPT ![t] = s]
  BY DEF Call, DInv, DTypeOK
<1>3. s.at = "calling" /\ s.budget = run[t].budget /\ s.calls = run[t].calls + 1
  BY <1>1 DEF RunType
<1> HIDE DEF s
<1>4. /\ run[t].budget \in Nat /\ run[t].calls \in Nat /\ run[t].turns \in Nat
      /\ run[t].calls < run[t].turns /\ run[t].turns <= run[t].budget
  BY <1>1, RunIsCourse, CourseNumbers DEF Paid
<1>5. Lefts[t] = run[t].budget - run[t].calls /\ Phases[t] = "thinking"
  BY DEF Lefts, Phases
<1>6. Phases' = [Phases EXCEPT ![t] = "calling"]
  <2>1. Phases' = [Phases EXCEPT ![t] = IF s.at = "ready" THEN "thinking" ELSE s.at]
    BY <1>2, MovesOne DEF DInv, DTypeOK
  <2>2. (IF s.at = "ready" THEN "thinking" ELSE s.at) = "calling"
    BY <1>3
  <2>3. QED  BY <2>1, <2>2
<1>7. Lefts' = [Lefts EXCEPT ![t] = Lefts[t] - 1]
  <2>1. Lefts' = [Lefts EXCEPT ![t] = s.budget - s.calls]
    BY <1>2, MovesOne DEF DInv, DTypeOK
  <2>2. s.budget - s.calls = Lefts[t] - 1
    BY <1>3, <1>4, <1>5
  <2>3. QED  BY <2>1, <2>2
<1>8. Lefts[t] > 0
  BY <1>4, <1>5
<1>9. Budget!BCall(t)
  BY <1>5, <1>6, <1>7, <1>8 DEF Budget!BCall, Budget!BMove, Phases, Lefts
<1>10. QED  BY <1>9 DEF Budget!BNext

LEMMA BegunRefines ==
  ASSUME DInv, NEW t \in Task, NEW n \in 0 .. MaxTurns, NEW r \in Begun(n),
         run[t].at \in {"idle", "ended"}, run' = [run EXCEPT ![t] = r]
  PROVE  [Budget!BNext]_Budget!bvars
<1>1. r.at \in {"ready", "ended"} /\ r.budget = n /\ r.calls = 0
  <2>1. n \in 0 .. MostTurns
    BY MostTurnsNat
  <2>2. QED  BY <2>1, BegunResumes
<1> DEFINE to == IF r.at = "ready" THEN "thinking" ELSE r.at
<1>2. Phases' = [Phases EXCEPT ![t] = to] /\ Lefts' = [Lefts EXCEPT ![t] = n]
  <2>1. r.budget - r.calls = n
    BY <1>1
  <2>2. QED  BY <2>1, MovesOne DEF DInv, DTypeOK
<1>3. Phases[t] \in {"idle", "ended"}
  BY DEF Phases
<1>4. to \in {"thinking", "ended"}
  BY <1>1
<1>5. Budget!BMove(t, {"idle", "ended"}, to)
  BY <1>2, <1>3 DEF Budget!BMove, Phases
<1>6. Budget!BBegin(t)
  BY <1>2, <1>4, <1>5 DEF Budget!BBegin, Lefts
<1>7. QED  BY <1>6 DEF Budget!BNext

LEMMA StartRefines ==
  ASSUME DInv, NEW t \in Task, Start(t)
  PROVE  [Budget!BNext]_Budget!bvars
<1>1. PICK r \in Begun(MaxTurns) : run' = [run EXCEPT ![t] = r]
  BY DEF Start
<1>2. run[t].at \in {"idle", "ended"} /\ MaxTurns \in 0 .. MaxTurns
  BY DEF Start
<1>3. QED  BY <1>1, <1>2, BegunRefines

LEMMA StepRefines ==
  ASSUME DInv, NEW t \in Task, Step(t)
  PROVE  [Budget!BNext]_Budget!bvars
<1>1. run[t] \in RunType /\ run[t] \in Course /\ Paid(run[t])
  BY RunIsCourse DEF DInv, DTypeOK
<1>2. ASSUME run[t].at \in {"ready", "calling"}
      PROVE  /\ run[t].calls <= run[t].budget /\ run[t].calls <= run[t].turns
             /\ run[t].hops <= MaxHops /\ run[t].qa <= MaxQARetries
  BY <1>1, <1>2, CourseNumbers DEF Paid, RunType
<1>3. ASSUME run[t].at \in {"ready", "calling"}, run' = [run EXCEPT ![t] = Ended(run[t])]
      PROVE  [Budget!BNext]_Budget!bvars
  BY <1>1, <1>2, <1>3, EndedResumes, ResumedRefines
<1>4. ASSUME run[t].at \in {"ready", "calling"}, NEW revise \in BOOLEAN,
             run' = [run EXCEPT ![t] = Text(run[t], revise)]
      PROVE  [Budget!BNext]_Budget!bvars
  BY <1>1, <1>2, <1>4, TextResumes, ResumedRefines
<1>5. CASE Delegate(t)
  <2>1. run[t].at = "ready"
    BY <1>5 DEF Delegate
  <2>2. \/ run' = [run EXCEPT ![t] = Ended(run[t])]
        \/ Call(t)
        \/ run' = [run EXCEPT ![t] = Text(run[t], FALSE)]
    BY <1>5 DEF Delegate
  <2>3. QED  BY <1>3, <1>4, <2>1, <2>2, CallRefines
<1>6. CASE Answer(t)
  <2>1. run[t].at = "calling"
    BY <1>6 DEF Answer, Calling
  <2>2. \/ \E revise \in BOOLEAN : run' = [run EXCEPT ![t] = Text(run[t], revise)]
        \/ \E to \in Agent \cup {"nobody"}, ok, reject \in BOOLEAN :
             run' = [run EXCEPT ![t] = Route(run[t], to, ok, reject)]
    BY <1>6 DEF Answer
  <2>3. QED  BY <1>1, <1>2, <1>4, <2>1, <2>2, RouteResumes, ResumedRefines
<1>7. CASE Raise(t) \/ TimeOut(t)
  BY <1>3, <1>7 DEF Raise, TimeOut, Calling
<1>8. QED  BY <1>5, <1>6, <1>7 DEF Step

LEMMA BudgetAtFirst == DInit => Budget!BInit
<1> SUFFICES ASSUME DInit PROVE Budget!BInit
  OBVIOUS
<1>1. \A t \in Task : run[t].at = "idle" /\ run[t].budget = 0 /\ run[t].calls = 0
  BY DEF DInit, Idle
<1>2. Phases = [t \in Task |-> "idle"]
  BY <1>1 DEF Phases
<1>3. Lefts \in [Task -> 0 .. MaxTurns]
  BY <1>1 DEF Lefts
<1>4. QED  BY <1>2, <1>3 DEF Budget!BInit, Phases, Lefts

\* Review rounds, hops between agents and the circuit breaker together spend
\* the turns of a task as the abstract budget allows.
THEOREM BudgetImplemented == DSpec => ImplementsTaskBudget
<1>1. DInit => Budget!BInit
  BY BudgetAtFirst
<1>2. DInv /\ [DNext]_dvars => [Budget!BNext]_Budget!bvars
  <2> SUFFICES ASSUME DInv, [DNext]_dvars PROVE [Budget!BNext]_Budget!bvars
    OBVIOUS
  <2>1. ASSUME NEW t \in Task, Start(t) \/ Step(t)
        PROVE  [Budget!BNext]_Budget!bvars
    BY <2>1, StartRefines, StepRefines
  <2>2. CASE UNCHANGED run
    BY <2>2 DEF Budget!bvars
  <2>3. QED  BY <2>1, <2>2 DEF DNext, Elapse, dvars
<1>3. QED  BY <1>1, <1>2, DSpecInv, PTL DEF DSpec, ImplementsTaskBudget, Budget!BSpec

-----------------------------------------------------------------------------
(* Swarm: a task over handoffs, retries and the fallback. *)

JobType ==
  [at : {"idle", "calling", "failing", "supervised", "ended"}, hop : 0 .. MaxHandoffs,
   attempt : 0 .. MaxTaskRetries, trace : [Goal -> 0 .. RepeatLimit], calls : Nat,
   fallback : BOOLEAN]

\* The calls of a number of agents, each with all its retries.
Most(agents) == agents + agents * MaxTaskRetries

\* The calls of a job by the place it has come to.
Counted(j) ==
  /\ j.at = "calling" => j.calls <= Most(j.hop) + 1 + j.attempt
  /\ j.calls <= Most(j.hop + 1)
  /\ j.fallback => j.at \in {"failing", "supervised", "ended"}

SInv ==
  /\ DInv
  /\ job \in JobType
  /\ Counted(job)
  /\ job.fallback /\ job.at # "failing" => run[Fallback].budget = RemainingTurns(job)

LEMMA MostNext ==
  ASSUME NEW n \in Nat
  PROVE  Most(n) \in Nat /\ Most(n + 1) = Most(n) + 1 + MaxTaskRetries
BY DEF Most

LEMMA JobNumbers ==
  ASSUME NEW j \in JobType
  PROVE  /\ j.hop \in Nat /\ j.attempt \in Nat /\ j.attempt <= MaxTaskRetries /\ j.calls \in Nat
         /\ Most(j.hop) \in Nat /\ Most(j.hop + 1) = Most(j.hop) + 1 + MaxTaskRetries
<1>1. /\ j.hop \in Nat /\ j.attempt \in Nat /\ j.attempt <= MaxTaskRetries /\ j.calls \in Nat
  BY DEF JobType
<1>2. QED  BY <1>1, MostNext

LEMMA NoJobFits == NoJob \in JobType /\ Counted(NoJob)
<1>1. NoJob \in JobType /\ NoJob.calls = 0 /\ NoJob.hop = 0 /\ NoJob.at = "idle" /\ ~NoJob.fallback
  BY DEF NoJob, JobType
<1> HIDE DEF NoJob
<1>2. QED  BY <1>1, JobNumbers DEF Counted

LEMMA ResultFits ==
  ASSUME NEW j \in JobType, Counted(j)
  PROVE  /\ Result(j) \in JobType /\ Counted(Result(j))
         /\ Result(j).at = "ended" /\ Result(j).fallback = j.fallback /\ Result(j).hop = j.hop
BY DEF Result, JobType, Counted

LEMMA ExecuteFits ==
  ASSUME NEW j \in JobType, Counted(j), ~j.fallback, NEW goal \in Goal, NEW hop \in Nat,
         j.calls <= Most(hop), NEW k \in Execute(j, goal, hop)
  PROVE  k \in JobType /\ Counted(k) /\ ~k.fallback
<1>1. CASE k = Result(j)
  BY <1>1, ResultFits
<1>2. CASE hop <= MaxHandoffs /\ j.trace[goal] < RepeatLimit
           /\ k = [j EXCEPT !.at = "calling", !.hop = hop, !.attempt = 0,
                            !.trace[goal] = @ + 1, !.calls = @ + 1]
  <2>1. hop \in 0 .. MaxHandoffs /\ j.calls + 1 \in Nat /\ 0 \in 0 .. MaxTaskRetries
    BY <1>2 DEF JobType
  <2>2. [j.trace EXCEPT ![goal] = @ + 1] \in [Goal -> 0 .. RepeatLimit]
    <3>1. j.trace \in [Goal -> 0 .. RepeatLimit]
      BY DEF JobType
    <3>2. QED  BY <1>2, <3>1
  <2>3. /\ k \in JobType /\ k.at = "calling" /\ k.hop = hop /\ k.attempt = 0
        /\ k.calls = j.calls + 1 /\ ~k.fallback
    <3>1. \A n \in Nat, tr \in [Goal -> 0 .. RepeatLimit] :
            LET d == [j EXCEPT !.at = "calling", !.hop = hop, !.attempt = 0, !.trace = tr,
                               !.calls = n]
            IN  /\ d \in JobType /\ d.at = "calling" /\ d.hop = hop /\ d.attempt = 0
                /\ d.calls = n /\ ~d.fallback
      BY <2>1 DEF JobType
    <3>2. k = [j EXCEPT !.at = "calling", !.hop = hop, !.attempt = 0,
                        !.trace = [j.trace EXCEPT ![goal] = @ + 1], !.calls = j.calls + 1]
      BY <1>2 DEF JobType
    <3>3. QED  BY <2>1, <2>2, <3>1, <3>2
  <2>4. QED  BY <2>3, JobNumbers DEF Counted
<1>3. j.trace[goal] \in Nat
  BY DEF JobType
<1>4. QED  BY <1>1, <1>2, <1>3 DEF Execute

\* Steps of the job that leave the fallback's supervisor alone.
LEMMA JobMoves ==
  ASSUME SInv, UNCHANGED dvars, job' \in JobType, Counted(job'),
         job'.fallback /\ job'.at # "failing" =>
           job.fallback /\ job.at # "failing" /\ job'.hop = job.hop
  PROVE  SInv'
<1>1. DInv'
  BY QuietKeeps DEF SInv, DInv, DTypeOK, dvars
<1>2. job'.fallback /\ job'.at # "failing" => run'[Fallback].budget = RemainingTurns(job')
  BY DEF SInv, dvars, RemainingTurns
<1>3. QED  BY <1>1, <1>2 DEF SInv

LEMMA SBeginKeeps ==
  ASSUME SInv, SBegin
  PROVE  SInv'
<1>1. NoJob.calls = 0 /\ ~NoJob.fallback
  BY DEF NoJob
<1>2. NoJob.calls <= Most(0)
  BY <1>1, MostNext
<1>3. job' \in JobType /\ Counted(job') /\ ~job'.fallback
  <2>1. PICK g \in Goal : job' \in Execute(NoJob, g, 0)
    BY DEF SBegin
  <2>2. QED  BY <1>1, <1>2, <2>1, NoJobFits, ExecuteFits
<1>4. QED  BY <1>3, JobMoves DEF SBegin

LEMMA SAnswerKeeps ==
  ASSUME SInv, SAnswer
  PROVE  SInv'
<1>1. job \in JobType /\ Counted(job) /\ job.at = "calling" /\ ~job.fallback
  BY DEF SInv, SAnswer, Counted
<1>2. job' \in JobType /\ Counted(job') /\ ~job'.fallback
  <2>1. CASE job' = Result(job)
    BY <1>1, <2>1, ResultFits
  <2>2. ASSUME NEW g \in Goal, job' \in Execute(job, g, job.hop + 1)
        PROVE  job' \in JobType /\ Counted(job') /\ ~job'.fallback
    <3>1. job.hop + 1 \in Nat /\ job.calls <= Most(job.hop + 1)
      BY <1>1, JobNumbers DEF Counted
    <3>2. QED  BY <1>1, <2>2, <3>1, ExecuteFits
  <2>3. CASE job' = [job EXCEPT !.at = "failing", !.fallback = FALSE]
    BY <1>1, <2>3 DEF JobType, Counted
  <2>4. QED  BY <2>1, <2>2, <2>3 DEF SAnswer
<1>3. QED  BY <1>2, JobMoves DEF SAnswer

LEMMA SFailKeeps ==
  ASSUME SInv, SFail
  PROVE  SInv'
<1>1. job \in JobType /\ Counted(job) /\ job.at = "calling" /\ ~job.fallback
  BY DEF SInv, SFail, Counted
<1>2. CASE job.attempt < MaxTaskRetries
  <2>1. job' = [job EXCEPT !.attempt = @ + 1, !.calls = @ + 1]
    BY <1>2 DEF SFail
  <2>2. job.attempt + 1 \in 0 .. MaxTaskRetries /\ job.calls + 1 \in Nat
    BY <1>1, <1>2, JobNumbers
  <2>3. /\ job' \in JobType /\ job'.attempt = job.attempt + 1 /\ job'.calls = job.calls + 1
        /\ job'.at = "calling" /\ job'.hop = job.hop /\ ~job'.fallback
    <3> DEFINE m == job.attempt + 1
               n == job.calls + 1
    <3>1. job' = [job EXCEPT !.attempt = m, !.calls = n]
      BY <2>1
    <3>2. m \in 0 .. MaxTaskRetries /\ n \in Nat
      BY <2>2
    <3> HIDE DEF m, n
    <3>3. /\ job' \in JobType /\ job'.attempt = m /\ job'.calls = n
          /\ job'.at = "calling" /\ job'.hop = job.hop /\ ~job'.fallback
      BY <1>1, <3>1, <3>2 DEF JobType
    <3>4. QED  BY <3>3 DEF m, n
  <2>4. Counted(job')
    BY <1>1, <2>3, JobNumbers DEF Counted
  <2>5. QED  BY <2>3, <2>4, JobMoves DEF SFail
<1>3. CASE ~(job.attempt < MaxTaskRetries)
  <2>1. PICK fb \in BOOLEAN : job' = [job EXCEPT !.at = "failing", !.fallback = fb]
    BY <1>3 DEF SFail
  <2>2. job' \in JobType /\ Counted(job') /\ job'.at = "failing"
    BY <1>1, <2>1 DEF JobType, Counted
  <2>3. QED  BY <2>2, JobMoves DEF SFail
<1>4. QED  BY <1>2, <1>3

LEMMA RemainingFits ==
  ASSUME NEW j \in JobType
  PROVE  /\ RemainingTurns(j) \in 0 .. MostTurns
         /\ RemainingTurns(j) <= (IF j.hop + 1 < MaxTurns THEN MaxTurns - (j.hop + 1) ELSE 1)
BY JobNumbers DEF RemainingTurns, MostTurns

LEMMA SRolledBackKeeps ==
  ASSUME SInv, SRolledBack
  PROVE  SInv'
<1>1. job \in JobType /\ Counted(job) /\ job.at = "failing" /\ DInv
  BY DEF SInv, SRolledBack
<1>2. CASE job.fallback
  <2>1. PICK r \in Begun(RemainingTurns(job)) : run' = [run EXCEPT ![Fallback] = r]
    BY <1>2 DEF SRolledBack
  <2>2. r \in RunType /\ Paid(r) /\ r.at # "calling" /\ r.budget = RemainingTurns(job)
    BY <1>1, RemainingFits, BegunResumes
  <2>3. /\ failures' = [a \in Agent |-> 0] /\ window' = [a \in Agent |-> "never"]
        /\ job' = [job EXCEPT !.at = "supervised"]
    BY <1>2 DEF SRolledBack
  <2>4. DInv'
    <3>1. /\ failures' \in [Agent -> Nat] /\ window' \in [Agent -> {"never", "within", "over"}]
          /\ \A a \in Agent : failures'[a] <= failures[a]
      BY <1>1, <2>3 DEF DInv, DTypeOK
    <3>2. QED  BY <1>1, <2>1, <2>2, <3>1, Settles
  <2>5. job' \in JobType /\ Counted(job') /\ job'.hop = job.hop
    BY <1>1, <2>3 DEF JobType, Counted
  <2>6. run'[Fallback].budget = RemainingTurns(job')
    BY <1>1, <2>1, <2>2, <2>5 DEF RemainingTurns, DInv, DTypeOK
  <2>7. QED  BY <2>4, <2>5, <2>6 DEF SInv
<1>3. CASE ~job.fallback
  <2>1. job' \in JobType /\ Counted(job') /\ ~job'.fallback
    BY <1>1, <1>3, ResultFits DEF SRolledBack
  <2>2. QED  BY <1>3, <2>1, JobMoves DEF SRolledBack
<1>4. QED  BY <1>2, <1>3

LEMMA SSupervisedKeeps ==
  ASSUME SInv, SSupervised
  PROVE  SInv'
<1>1. /\ job' \in JobType /\ Counted(job')
      /\ job'.fallback = job.fallback /\ job'.hop = job.hop /\ job.at # "failing"
  BY ResultFits DEF SInv, SSupervised
<1>2. QED  BY <1>1, JobMoves DEF SSupervised

\* No step of a task that runs changes its budget.
LEMMA StepKeepsBudget ==
  ASSUME DInv, NEW t \in Task, Step(t)
  PROVE  run'[t].budget = run[t].budget
<1>1. run[t] \in RunType /\ run[t] \in Course /\ Paid(run[t])
  BY RunIsCourse DEF DInv, DTypeOK
<1>2. ASSUME run[t].at \in {"ready", "calling"}
      PROVE  /\ run[t].calls <= run[t].budget /\ run[t].calls <= run[t].turns
             /\ run[t].hops <= MaxHops /\ run[t].qa <= MaxQARetries
  BY <1>1, <1>2, CourseNumbers DEF Paid, RunType
<1>3. run[t].at \in {"ready", "calling"}
  BY DEF Step, Delegate, Answer, Raise, TimeOut, Calling
<1>4. \/ \E s : run' = [run EXCEPT ![t] = s] /\ Resumed(run[t], s)
      \/ Call(t)
  <2>1. CASE Delegate(t)
    <3>1. \/ run' = [run EXCEPT ![t] = Ended(run[t])]
          \/ Call(t)
          \/ run' = [run EXCEPT ![t] = Text(run[t], FALSE)]
      BY <2>1 DEF Delegate
    <3>2. QED  BY <1>1, <1>2, <1>3, <3>1, EndedResumes, TextResumes
  <2>2. CASE Answer(t)
    <3>1. \/ \E revise \in BOOLEAN : run' = [run EXCEPT ![t] = Text(run[t], revise)]
          \/ \E to \in Agent \cup {"nobody"}, ok, reject \in BOOLEAN :
               run' = [run EXCEPT ![t] = Route(run[t], to, ok, reject)]
      BY <2>2 DEF Answer
    <3>2. QED  BY <1>1, <1>2, <1>3, <3>1, TextResumes, RouteResumes
  <2>3. CASE Raise(t) \/ TimeOut(t)
    <3>1. run' = [run EXCEPT ![t] = Ended(run[t])]
      BY <2>3 DEF Raise, TimeOut
    <3>2. QED  BY <1>1, <1>2, <1>3, <3>1, EndedResumes
  <2>4. QED  BY <2>1, <2>2, <2>3 DEF Step
<1>5. CASE Call(t)
  BY <1>1, <1>5 DEF Call, DInv, DTypeOK, RunType
<1>6. CASE \E s : run' = [run EXCEPT ![t] = s] /\ Resumed(run[t], s)
  BY <1>6 DEF Resumed, DInv, DTypeOK
<1>7. QED  BY <1>4, <1>5, <1>6

LEMMA SSupervisorKeeps ==
  ASSUME SInv, SSupervisor
  PROVE  SInv'
<1>1. DInv /\ job' = job /\ job.at = "supervised"
  BY DEF SInv, SSupervisor
<1>2. CASE Step(Fallback)
  <2>1. DInv'
    BY <1>1, <1>2, DelegateKeeps, AnswerKeeps, RaiseKeeps, TimeOutKeeps DEF Step
  <2>2. run'[Fallback].budget = run[Fallback].budget
    BY <1>1, <1>2, StepKeepsBudget
  <2>3. QED  BY <1>1, <2>1, <2>2 DEF SInv
<1>3. CASE \E a \in Agent : Elapse(a)
  <2>1. DInv' /\ run' = run
    BY <1>1, <1>3, ElapseKeeps DEF Elapse
  <2>2. QED  BY <1>1, <2>1 DEF SInv
<1>4. QED  BY <1>2, <1>3 DEF SSupervisor

LEMMA SInitInv == SInit => SInv
<1> SUFFICES ASSUME SInit PROVE SInv
  OBVIOUS
<1>1. DInv /\ job = NoJob /\ ~NoJob.fallback
  BY DInitInv DEF SInit, NoJob
<1>2. QED  BY <1>1, NoJobFits DEF SInv

LEMMA SNextInv == SInv /\ [SNext]_svars => SInv'
<1> SUFFICES ASSUME SInv, [SNext]_svars PROVE SInv'
  OBVIOUS
<1>1. CASE UNCHANGED svars
  <2>1. job' = job /\ UNCHANGED dvars
    BY <1>1 DEF svars
  <2>2. QED  BY <2>1, JobMoves DEF SInv
<1>2. QED
  BY <1>1, SBeginKeeps, SAnswerKeeps, SFailKeeps, SRolledBackKeeps, SSupervisedKeeps,
     SSupervisorKeeps DEF SNext

LEMMA SSpecInv == SSpec => []SInv
BY SInitInv, SNextInv, PTL DEF SSpec

\* A swarm task and the supervisor of its fallback keep their types.
THEOREM SwarmTypes == SSpec => []STypeOK
<1>1. SInv => STypeOK
  BY DEF SInv, DInv, STypeOK, JobType
<1>2. QED  BY <1>1, SSpecInv, PTL

\* The fallback's supervisor has the turns that the handoffs left over: all the
\* calls of a task stay within one budget, but for its retries (for a positive
\* MAX_TURNS, as modelled in RemainingTurns).
THEOREM BudgetShared == SSpec => []SharedBudget
<1>1. SInv => SharedBudget
  <2> SUFFICES ASSUME SInv PROVE SharedBudget
    OBVIOUS
  <2> DEFINE hops == job.hop + 1
             more == hops * MaxTaskRetries
             limit == IF hops < MaxTurns THEN MaxTurns ELSE hops + 1
             theirs == run[Fallback].calls
  <2>1. hops \in Nat /\ more \in Nat /\ job.calls \in Nat /\ job.calls <= hops + more
    BY JobNumbers DEF SInv, Counted, Most
  <2>2. CASE ~(job.fallback /\ job.at # "failing")
    <3> HIDE DEF hops, more
    <3>1. job.calls + 0 <= limit + more
      BY <2>1
    <3>2. QED  BY <2>2, <3>1 DEF SharedBudget, hops, more
  <2>3. CASE job.fallback /\ job.at # "failing"
    <3>1. theirs \in Nat /\ theirs <= (IF hops < MaxTurns THEN MaxTurns - hops ELSE 1)
      <4>1. run[Fallback] \in RunType /\ Paid(run[Fallback])
            /\ run[Fallback].budget = RemainingTurns(job)
        BY <2>3 DEF SInv, DInv, DTypeOK
      <4>2. theirs \in Nat /\ theirs <= RemainingTurns(job)
        BY <4>1, RunIsCourse, CourseNumbers DEF Paid
      <4>3. RemainingTurns(job) \in Nat
            /\ RemainingTurns(job) <= (IF hops < MaxTurns THEN MaxTurns - hops ELSE 1)
        BY RemainingFits, MostTurnsNat DEF SInv
      <4> HIDE DEF hops, theirs
      <4>4. QED  BY <2>1, <4>2, <4>3
    <3> HIDE DEF hops, more, theirs
    <3>2. job.calls + theirs <= limit + more
      BY <2>1, <3>1
    <3>3. QED  BY <2>3, <3>2 DEF SharedBudget, hops, more, theirs
  <2>4. QED  BY <2>2, <2>3
<1>2. QED  BY <1>1, SSpecInv, PTL

-----------------------------------------------------------------------------
(* The supervisor of the fallback keeps to the abstract budget, too. *)

\* No supervisor runs beside the handoffs.
FallbackRests == job.at # "supervised" => run[Fallback].at \in {"idle", "ended"}

LEMMA RestsAtFirst == SInit => FallbackRests
BY SwarmAssumption DEF SInit, DInit, Idle, FallbackRests

LEMMA RestsNext == SInv /\ FallbackRests /\ [SNext]_svars => FallbackRests'
<1> SUFFICES ASSUME SInv, FallbackRests, [SNext]_svars PROVE FallbackRests'
  OBVIOUS
<1>1. CASE run' = run /\ (job.at # "supervised" \/ run[Fallback].at = "ended")
  BY <1>1 DEF FallbackRests
<1>2. CASE SBegin \/ SAnswer \/ SFail \/ SSupervised
  BY <1>1, <1>2 DEF SBegin, SAnswer, SFail, SSupervised, dvars
<1>3. CASE SRolledBack
  <2>1. job.at = "failing" /\ job \in JobType
    BY <1>3 DEF SRolledBack, SInv
  <2>2. CASE job.fallback
    <3>1. job' = [job EXCEPT !.at = "supervised"]
      BY <1>3, <2>2 DEF SRolledBack
    <3>2. job'.at = "supervised"
      BY <2>1, <3>1 DEF JobType
    <3>3. QED  BY <3>2 DEF FallbackRests
  <2>3. QED  BY <1>1, <1>3, <2>1, <2>2 DEF SRolledBack, dvars
<1>4. CASE SSupervisor
  BY <1>4 DEF SSupervisor, FallbackRests
<1>5. CASE UNCHANGED svars
  BY <1>5 DEF svars, dvars, FallbackRests
<1>6. QED  BY <1>2, <1>3, <1>4, <1>5 DEF SNext

LEMMA SwarmStepRefines ==
  ASSUME MaxTurns > 0, SInv, FallbackRests, [SNext]_svars
  PROVE  [Budget!BNext]_Budget!bvars
<1>1. CASE run' = run
  BY <1>1 DEF Budget!bvars
<1>2. CASE SRolledBack /\ job.fallback
  <2>1. PICK r \in Begun(RemainingTurns(job)) : run' = [run EXCEPT ![Fallback] = r]
    BY <1>2 DEF SRolledBack
  <2>2. RemainingTurns(job) \in 0 .. MaxTurns
    BY RemainingFits DEF SInv, MostTurns
  <2>3. DInv /\ run[Fallback].at \in {"idle", "ended"}
    BY <1>2 DEF SRolledBack, SInv, FallbackRests
  <2>4. QED  BY <2>1, <2>2, <2>3, BegunRefines, SwarmAssumption
<1>3. CASE SSupervisor
  BY <1>1, <1>3, StepRefines, SwarmAssumption DEF SSupervisor, SInv, Elapse
<1>4. QED
  BY <1>1, <1>2, <1>3
     DEF SNext, SBegin, SAnswer, SFail, SRolledBack, SSupervised, svars, dvars

\* A swarm task spends the turns of its fallback as the abstract budget allows,
\* the turns that the handoffs left over (_remaining_supervisor_turn_budget,
\* swarm.py).  MAX_TURNS is positive, as 0 means none to a supervisor and the
\* default to a swarm.
THEOREM FallbackImplemented == ASSUME MaxTurns > 0 PROVE SSpec => ImplementsTaskBudget
<1>1. SInit => Budget!BInit
  BY BudgetAtFirst DEF SInit
<1>2. SInv /\ FallbackRests /\ [SNext]_svars => [Budget!BNext]_Budget!bvars
  BY SwarmStepRefines
<1>3. QED
  BY <1>1, <1>2, SSpecInv, RestsAtFirst, RestsNext, PTL
     DEF SSpec, ImplementsTaskBudget, Budget!BSpec

-----------------------------------------------------------------------------
(* SwarmDispatch: the inductive invariant. *)

\* The keys at place i and after it.
From(q, i) == {q[j] : j \in i .. Len(q)}

\* With the cache q and the history f: what has been used since a cached key are
\* the keys behind it; a key that was used and is not cached was pushed out by
\* keys that fill the cache.
Kept(q, f) ==
  /\ q \in Seq(Key) /\ Distinct(q) /\ Len(q) <= CacheMax
  /\ f \in [Key -> SUBSET Key] /\ \A k \in Key : IsFiniteSet(f[k])
  /\ \A i \in DOMAIN q : f[q[i]] = From(q, i)
  /\ \A k \in Key \ Items(q) : f[k] # {} => Len(q) = CacheMax /\ Items(q) \cup {k} \subseteq f[k]

CacheInv == Kept(cache, since) /\ sent \in [Caller -> Key \cup {NoKey}]

\* What a use of k makes of them, before the oldest key is pushed out.
Moved(q, k) == Append(Leave(q, k), k)
Used(f, k)  == [x \in Key |-> IF x = k THEN {k} ELSE IF f[x] = {} THEN {} ELSE f[x] \cup {k}]

LEMMA FromCounts ==
  ASSUME NEW S, NEW q \in Seq(S), Distinct(q), NEW i \in DOMAIN q
  PROVE  IsFiniteSet(From(q, i)) /\ Cardinality(From(q, i)) = Len(q) - i + 1
<1> DEFINE D == i .. Len(q)
           f == [j \in D |-> q[j]]
<1>1. i \in Nat /\ 1 <= i /\ Len(q) \in Nat /\ i <= Len(q) /\ D \subseteq DOMAIN q
  OBVIOUS
<1>2. f \in Bijection(D, From(q, i))
  <2>1. f \in [D -> From(q, i)]
    BY DEF From
  <2>2. \A a, b \in D : f[a] = f[b] => a = b
    BY <1>1 DEF Distinct
  <2>3. \A x \in From(q, i) : \E a \in D : f[a] = x
    BY DEF From
  <2> HIDE DEF f, D
  <2>4. QED  BY <2>1, <2>2, <2>3 DEF Bijection, Injection, Surjection, IsInjective
<1>3. IsFiniteSet(D) /\ Cardinality(D) = Len(q) - i + 1
  BY <1>1, FS_Interval
<1> HIDE DEF f, D
<1>4. ExistsBijection(D, From(q, i))
  BY <1>2 DEF ExistsBijection
<1>5. QED  BY <1>3, <1>4, FS_Bijection

\* A use of key k moves it to the end of the cache and pushes out the oldest.
LEMMA MovedToEnd ==
  ASSUME NEW q, NEW f, Kept(q, f), NEW k \in Key, NEW s, s = Moved(q, k), NEW g, g = Used(f, k)
  PROVE  /\ s \in Seq(Key) /\ Distinct(s) /\ Items(s) = Items(q) \cup {k} /\ Len(s) >= 1
         /\ k \in Items(q) => Len(s) = Len(q)
         /\ k \notin Items(q) => Len(s) = Len(q) + 1
         /\ \A i \in DOMAIN s : g[s[i]] = From(s, i)
         /\ g \in [Key -> SUBSET Key] /\ \A x \in Key : IsFiniteSet(g[x])
         /\ \A x \in Key \ Items(s) : g[x] # {} => Len(q) = CacheMax /\ Items(s) \cup {x} \subseteq g[x]
<1>1. /\ q \in Seq(Key) /\ Distinct(q) /\ f \in [Key -> SUBSET Key]
      /\ \A x \in Key : IsFiniteSet(f[x])
      /\ \A i \in DOMAIN q : f[q[i]] = From(q, i)
      /\ \A x \in Key \ Items(q) : f[x] # {} => Len(q) = CacheMax /\ Items(q) \cup {x} \subseteq f[x]
  BY DEF Kept
<1> DEFINE p == Leave(q, k)
<1>2. p \in Seq(Key) /\ Distinct(p) /\ Items(p) = Items(q) \ {k}
      /\ (k \in Items(q) => Len(p) = Len(q) - 1) /\ (k \notin Items(q) => p = q)
  <2>1. CASE k \in Items(q)
    BY <1>1, <2>1, LeaveKeeps
  <2>2. CASE k \notin Items(q)
    BY <1>1, <2>2, LeaveNobody
  <2>3. QED  BY <2>1, <2>2
<1>3. s = Append(p, k)
  BY DEF Moved
<1> USE DEF Used
<1>4. Len(q) \in Nat /\ DOMAIN q = 1 .. Len(q) /\ \A i \in DOMAIN q : q[i] \in Key
  BY <1>1
<1>5. \A i \in DOMAIN p : \E m \in DOMAIN q : p[i] = q[m] /\ From(p, i) \cup {k} = From(q, m) \cup {k}
  <2>1. CASE k \in Items(q)
    <3>1. PICK n \in DOMAIN q : q[n] = k
      BY <2>1 DEF Items
    <3>2. p = [i \in 1 .. Len(q) - 1 |-> IF i < n THEN q[i] ELSE q[i + 1]]
      BY <1>1, <3>1, LeaveMovesUp
    <3>3. Len(p) = Len(q) - 1 /\ DOMAIN p = 1 .. Len(q) - 1
          /\ \A i \in DOMAIN p : p[i] = IF i < n THEN q[i] ELSE q[i + 1]
      BY <1>2, <1>4, <2>1, <3>2
    <3> HIDE DEF p
    <3>4. ASSUME NEW i \in DOMAIN p
          PROVE  \E m \in DOMAIN q : p[i] = q[m] /\ From(p, i) \cup {k} = From(q, m) \cup {k}
      <4> DEFINE m == IF i < n THEN i ELSE i + 1
      <4>1. m \in DOMAIN q /\ p[i] = q[m] /\ i \in Nat /\ n \in Nat
        BY <1>4, <3>1, <3>3
      <4>2. ASSUME NEW j \in i .. Len(p)
            PROVE  p[j] \in From(q, m)
        <5> DEFINE l == IF j < n THEN j ELSE j + 1
        <5>1. l \in m .. Len(q) /\ p[j] = q[l]
          BY <1>4, <3>1, <3>3
        <5> HIDE DEF l, m
        <5>2. QED  BY <5>1 DEF From
      <4>3. ASSUME NEW l \in m .. Len(q), l # n
            PROVE  q[l] \in From(p, i)
        <5> DEFINE j == IF l < n THEN l ELSE l - 1
        <5>1. j \in i .. Len(p) /\ p[j] = q[l]
          BY <1>4, <3>1, <3>3, <4>3
        <5> HIDE DEF j, m
        <5>2. QED  BY <5>1 DEF From
      <4> HIDE DEF m
      <4>4. From(p, i) \cup {k} = From(q, m) \cup {k}
        BY <3>1, <4>2, <4>3 DEF From
      <4>5. QED  BY <4>1, <4>4
    <3>5. QED  BY <3>4
  <2>2. CASE k \notin Items(q)
    BY <1>2, <2>2
  <2>3. QED  BY <2>1, <2>2
<1> HIDE DEF p
<1>6. /\ s \in Seq(Key) /\ Distinct(s) /\ Items(s) = Items(q) \cup {k}
  BY <1>2, <1>3, AppendKeeps
<1>7. Len(s) = Len(p) + 1 /\ Len(p) \in Nat /\ s[Len(s)] = k /\ DOMAIN s = 1 .. Len(p) + 1 /\ DOMAIN p = 1 .. Len(p)
      /\ \A i \in DOMAIN p : s[i] = p[i]
  BY <1>2, <1>3
<1>8. \A i \in DOMAIN p : From(s, i) = From(p, i) \cup {k}
  <2> SUFFICES ASSUME NEW i \in DOMAIN p
               PROVE  From(s, i) = From(p, i) \cup {k}
    OBVIOUS
  <2>1. i .. Len(s) = (i .. Len(p)) \cup {Len(s)} /\ i .. Len(p) \subseteq DOMAIN p
    BY <1>7
  <2>2. QED  BY <1>7, <2>1 DEF From
<1>9. From(s, Len(s)) = {k}
  <2>1. Len(s) .. Len(s) = {Len(s)}
    BY <1>7
  <2>2. QED  BY <1>7, <2>1 DEF From
<1>10. ASSUME NEW i \in DOMAIN s
       PROVE  g[s[i]] = From(s, i)
  <2>1. CASE i \in DOMAIN p
    <3>1. PICK m \in DOMAIN q : p[i] = q[m] /\ From(p, i) \cup {k} = From(q, m) \cup {k}
      BY <1>5, <2>1
    <3>2. s[i] = q[m] /\ q[m] \in Key /\ f[q[m]] = From(q, m) /\ q[m] # k
      <4>1. p[i] \in Items(p)
        BY <2>1 DEF Items
      <4>2. QED  BY <1>1, <1>2, <1>4, <1>7, <2>1, <3>1, <4>1
    <3>3. f[q[m]] # {}
      <4>1. m \in m .. Len(q)
        BY <1>4
      <4>2. QED  BY <3>2, <4>1 DEF From
    <3>4. g[q[m]] = f[q[m]] \cup {k}
      BY <3>2, <3>3
    <3>5. QED  BY <1>8, <2>1, <3>1, <3>2, <3>4
  <2>2. CASE i = Len(s)
    BY <1>7, <1>9, <2>2
  <2>3. QED  BY <1>7, <2>1, <2>2
<1>11. g \in [Key -> SUBSET Key]
  BY <1>1
<1>12. ASSUME NEW x \in Key
       PROVE  IsFiniteSet(g[x])
  <2>1. g[x] = {} \/ g[x] = {k} \/ g[x] = f[x] \cup {k}
    OBVIOUS
  <2>2. QED  BY <1>1, <2>1, FS_EmptySet, FS_Singleton, FS_AddElement
<1>13. ASSUME NEW x \in Key \ Items(s), g[x] # {}
       PROVE  Len(q) = CacheMax /\ Items(s) \cup {x} \subseteq g[x]
  <2>1. x # k /\ x \in Key \ Items(q)
    BY <1>6
  <2>2. f[x] # {} /\ g[x] = f[x] \cup {k}
    BY <1>13, <2>1
  <2>3. QED  BY <1>1, <1>6, <2>1, <2>2
<1>14. /\ k \in Items(q) => Len(s) = Len(q)
       /\ k \notin Items(q) => Len(s) = Len(q) + 1
       /\ Len(s) >= 1
  <2>1. k \in Items(q) => Len(s) = Len(q)
    BY <1>2, <1>4, <1>7
  <2>2. k \notin Items(q) => Len(s) = Len(q) + 1
    <3>1. k \notin Items(q) => Len(p) = Len(q)
      BY <1>2, Zenon
    <3>2. QED  BY <1>4, <1>7, <3>1
  <2>3. Len(s) >= 1
    BY <1>7
  <2>4. QED  BY <2>1, <2>2, <2>3
<1> HIDE DEF From
<1>15. QED  BY <1>6, <1>10, <1>11, <1>12, <1>13, <1>14

LEMMA UsedKeepsCache ==
  ASSUME CacheInv, NEW k \in Key, MoveToEnd(k), Use(k)
  PROVE  Kept(cache, since)'
<1> PICK q : q = cache
  OBVIOUS
<1> PICK f : f = since
  OBVIOUS
<1> PICK s : s = Moved(q, k)
  OBVIOUS
<1> PICK g : g = Used(f, k)
  OBVIOUS
<1>1. since' = g /\ cache' = IF Len(s) > CacheMax THEN Tail(s) ELSE s
  BY DEF Use, MoveToEnd, Moved, Used
<1>2. Kept(q, f) /\ q \in Seq(Key) /\ Len(q) <= CacheMax /\ Len(q) \in Nat
      /\ CacheMax \in Nat /\ CacheMax > 0
  BY DispatchAssumption DEF CacheInv, Kept
<1>3. /\ s \in Seq(Key) /\ Distinct(s) /\ Items(s) = Items(q) \cup {k} /\ Len(s) >= 1
      /\ k \in Items(q) => Len(s) = Len(q)
      /\ k \notin Items(q) => Len(s) = Len(q) + 1
      /\ \A i \in DOMAIN s : g[s[i]] = From(s, i)
      /\ g \in [Key -> SUBSET Key] /\ \A x \in Key : IsFiniteSet(g[x])
      /\ \A x \in Key \ Items(s) : g[x] # {} => Len(q) = CacheMax /\ Items(s) \cup {x} \subseteq g[x]
  <2>1. s \in Seq(Key)
    BY <1>2, MovedToEnd
  <2>2. Distinct(s)
    BY <1>2, MovedToEnd
  <2>3. Items(s) = Items(q) \cup {k}
    BY <1>2, MovedToEnd
  <2>4. Len(s) >= 1
    BY <1>2, MovedToEnd
  <2>5. k \in Items(q) => Len(s) = Len(q)
    BY <1>2, MovedToEnd
  <2>6. k \notin Items(q) => Len(s) = Len(q) + 1
    BY <1>2, MovedToEnd
  <2>7. \A i \in DOMAIN s : g[s[i]] = From(s, i)
    BY <1>2, MovedToEnd
  <2>8. g \in [Key -> SUBSET Key]
    BY <1>2, MovedToEnd
  <2>9. \A x \in Key : IsFiniteSet(g[x])
    BY <1>2, MovedToEnd
  <2>10. \A x \in Key \ Items(s) : g[x] # {} => Len(q) = CacheMax /\ Items(s) \cup {x} \subseteq g[x]
    BY <1>2, MovedToEnd, SMTT(30)
  <2>11. QED  BY <2>1, <2>2, <2>3, <2>4, <2>5, <2>6, <2>7, <2>8, <2>9, <2>10
<1>4. Len(s) \in Nat /\ DOMAIN s = 1 .. Len(s) /\ \A i \in DOMAIN s : s[i] \in Key
  BY <1>3
<1> DEFINE n == Len(s)
           m == Len(q)
<1>5. n \in Nat /\ n >= 1 /\ m \in Nat /\ m <= CacheMax /\ (n = m \/ n = m + 1) /\ 1 \in DOMAIN s
  <2>1. n = m \/ n = m + 1
    BY <1>3
  <2>2. n \in Nat /\ n >= 1
    BY <1>3
  <2>3. 1 \in DOMAIN s
    <3>1. DOMAIN s = 1 .. n
      BY <1>4
    <3> HIDE DEF n
    <3>2. QED  BY <2>2, <3>1
  <2>4. m \in Nat /\ m <= CacheMax
    BY <1>2
  <2>5. QED  BY <2>1, <2>2, <2>3, <2>4
<1>6. CASE ~(n > CacheMax)
  <2>1. Kept(s, g)
    <3>1. Len(s) <= CacheMax
      BY <1>2, <1>4, <1>6
    <3>2. ASSUME NEW x \in Key \ Items(s), g[x] # {}
          PROVE  n = CacheMax
      <4>1. m = CacheMax
        BY <1>3, <3>2
      <4> HIDE DEF n, m
      <4>2. QED  BY <1>2, <1>5, <1>6, <4>1
    <3>3. QED  BY <1>3, <3>1, <3>2 DEF Kept
  <2>2. QED  BY <1>1, <1>6, <2>1
<1>7. CASE n > CacheMax
  <2> DEFINE p == Tail(s)
  <2>1. Len(s) = CacheMax + 1
    <3> HIDE DEF n, m
    <3>1. n = CacheMax + 1
      BY <1>2, <1>5, <1>7
    <3>2. QED  BY <3>1 DEF n
  <2>2. p \in Seq(Key) /\ Len(p) = CacheMax /\ DOMAIN p = 1 .. CacheMax
        /\ \A i \in 1 .. CacheMax : p[i] = s[i + 1] /\ i + 1 \in DOMAIN s
    BY <1>2, <1>3, <1>4, <2>1
  <2> HIDE DEF p
  <2>3. Distinct(p)
    <3> SUFFICES ASSUME NEW i \in 1 .. CacheMax, NEW j \in 1 .. CacheMax, p[i] = p[j]
                 PROVE  i = j
      BY <2>2 DEF Distinct
    <3>1. /\ i + 1 \in DOMAIN s /\ j + 1 \in DOMAIN s
          /\ s[i + 1] = s[j + 1]
      BY <2>2
    <3> DEFINE a == i + 1
               b == j + 1
    <3>2. \A x, y \in DOMAIN s : s[x] = s[y] => x = y
      BY <1>3 DEF Distinct
    <3>3. a \in DOMAIN s /\ b \in DOMAIN s /\ s[a] = s[b]
      BY <3>1
    <3> HIDE DEF a, b
    <3>4. a = b
      BY <3>2, <3>3
    <3>5. QED  BY <1>2, <3>4 DEF a, b
  <2>4. ASSUME NEW i \in 1 .. CacheMax
        PROVE  From(p, i) = From(s, i + 1)
    <3>1. ASSUME NEW j \in i .. Len(p)
          PROVE  p[j] \in From(s, i + 1)
      <4>1. j \in 1 .. CacheMax /\ p[j] = s[j + 1] /\ j + 1 \in i + 1 .. Len(s)
        BY <1>2, <2>1, <2>2
      <4>2. QED  BY <4>1 DEF From
    <3>2. ASSUME NEW l \in i + 1 .. Len(s)
          PROVE  s[l] \in From(p, i)
      <4> DEFINE j == l - 1
      <4>1. j \in 1 .. CacheMax /\ j + 1 = l /\ j \in i .. Len(p)
        BY <1>2, <2>1, <2>2
      <4> HIDE DEF j
      <4>2. p[j] = s[l]
        BY <2>2, <4>1
      <4>3. QED  BY <4>1, <4>2 DEF From
    <3>3. QED  BY <3>1, <3>2 DEF From
  <2>5. \A i \in DOMAIN p : g[p[i]] = From(p, i)
    <3> SUFFICES ASSUME NEW i \in 1 .. CacheMax
                 PROVE  g[p[i]] = From(p, i)
      BY <2>2
    <3>1. g[s[i + 1]] = From(s, i + 1)
      BY <1>3, <2>2
    <3>2. QED  BY <2>2, <2>4, <3>1
  <2>6. Items(s) = Items(p) \cup {s[1]}
    <3>1. \A i \in DOMAIN p : p[i] \in Items(s)
      BY <2>2 DEF Items
    <3>2. ASSUME NEW i \in DOMAIN s, i # 1
          PROVE  s[i] \in Items(p)
      <4> DEFINE j == i - 1
      <4>1. j \in 1 .. CacheMax /\ j + 1 = i
        BY <1>2, <1>4, <2>1, <3>2
      <4> HIDE DEF j
      <4>2. p[j] = s[i]
        BY <2>2, <4>1
      <4>3. QED  BY <2>2, <4>1, <4>2 DEF Items
    <3>3. QED  BY <1>5, <3>1, <3>2 DEF Items
  <2>7. From(s, 1) = Items(s)
    BY <1>4 DEF From, Items
  <2>8. ASSUME NEW x \in Key \ Items(p), g[x] # {}
        PROVE  Items(p) \cup {x} \subseteq g[x]
    <3>1. CASE x = s[1]
      <4>1. g[x] = Items(s)
        BY <1>3, <1>5, <2>7, <3>1
      <4>2. QED  BY <2>6, <3>1, <4>1
    <3>2. CASE x # s[1]
      <4>1. x \in Key \ Items(s)
        BY <2>6, <2>8, <3>2
      <4>2. QED  BY <1>3, <2>6, <2>8, <4>1
    <3>3. QED  BY <3>1, <3>2
  <2>9. Kept(p, g)
    <3>1. Len(p) <= CacheMax
      BY <1>2, <2>2
    <3>2. QED  BY <1>3, <2>2, <2>3, <2>5, <2>8, <3>1 DEF Kept
  <2>10. QED  BY <1>1, <1>7, <2>9 DEF p
<1>8. QED  BY <1>6, <1>7

LEMMA CacheNext ==
  ASSUME CacheInv, [PNext]_pvars
  PROVE  CacheInv'
<1>1. CASE UNCHANGED pvars
  BY <1>1 DEF pvars, CacheInv, Kept
<1>2. ASSUME NEW c \in Caller, NEW k \in Key, Dispatch(c, k)
      PROVE  CacheInv'
  <2>1. CASE Cached(k)
    <3>1. Kept(cache, since)'
      BY <1>2, <2>1, UsedKeepsCache DEF Dispatch
    <3>2. sent' = sent
      BY <1>2, <2>1 DEF Dispatch
    <3>3. QED  BY <3>1, <3>2 DEF CacheInv
  <2>2. CASE ~Cached(k)
    <3>1. cache' = cache /\ since' = since /\ sent' = [sent EXCEPT ![c] = k]
      BY <1>2, <2>2 DEF Dispatch
    <3>2. QED  BY <3>1 DEF CacheInv, Kept
  <2>3. QED  BY <2>1, <2>2
<1>3. ASSUME NEW c \in Caller, Dispatched(c)
      PROVE  CacheInv'
  <2>1. sent[c] \in Key /\ sent' \in [Caller -> Key \cup {NoKey}]
    BY <1>3 DEF Dispatched, CacheInv
  <2>2. CASE MoveToEnd(sent[c]) /\ Use(sent[c])
    BY <2>1, <2>2, UsedKeepsCache DEF CacheInv
  <2>3. CASE UNCHANGED <<cache, since>>
    BY <2>1, <2>3 DEF CacheInv, Kept
  <2>4. QED  BY <1>3, <2>2, <2>3 DEF Dispatched
<1>4. QED  BY <1>1, <1>2, <1>3 DEF PNext

LEMMA CacheInit ==
  ASSUME PInit
  PROVE  CacheInv
<1> DEFINE none == <<>>
<1>1. cache = none /\ none \in Seq(Key) /\ Len(none) = 0 /\ DOMAIN none = {} /\ CacheMax \in Nat
  BY DispatchAssumption DEF PInit
<1> HIDE DEF none
<1>2. Distinct(cache) /\ Len(cache) <= CacheMax
  BY <1>1 DEF Distinct
<1>3. since \in [Key -> SUBSET Key] /\ \A k \in Key : since[k] = {}
  BY DEF PInit
<1>4. IsFiniteSet({})
  BY FS_EmptySet
<1>5. \A k \in Key : IsFiniteSet(since[k])
  BY <1>3, <1>4
<1>6. sent \in [Caller -> Key \cup {NoKey}]
  BY DEF PInit
<1>7. QED  BY <1>1, <1>2, <1>3, <1>5, <1>6 DEF CacheInv, Kept

\* RecentKeysKept, for any keys and any number of callers and cached results.
THEOREM CacheKeepsRecent == PSpec => []RecentKeysKept
<1>1. CacheInv => RecentKeysKept
  <2> SUFFICES ASSUME CacheInv, NEW k \in Key
               PROVE  Cached(k) <=> since[k] # {} /\ Cardinality(since[k]) <= CacheMax
    BY DEF RecentKeysKept
  <2>1. /\ cache \in Seq(Key) /\ Distinct(cache) /\ DOMAIN cache = 1 .. Len(cache)
        /\ IsFiniteSet(since[k])
        /\ \A i \in DOMAIN cache : since[cache[i]] = From(cache, i)
        /\ k \notin Items(cache) /\ since[k] # {} =>
             Len(cache) = CacheMax /\ Items(cache) \cup {k} \subseteq since[k]
    BY DispatchAssumption DEF CacheInv, Kept
  <2> DEFINE n == Len(cache)
  <2>2. n \in Nat /\ n <= CacheMax /\ CacheMax \in Nat
    BY DispatchAssumption DEF CacheInv, Kept
  <2>3. CASE Cached(k)
    <3>1. PICK i \in DOMAIN cache : cache[i] = k
      BY <2>3 DEF Cached
    <3>2. since[k] = From(cache, i) /\ i \in Nat /\ 1 <= i /\ i <= Len(cache)
      <4>1. i \in 1 .. Len(cache) /\ since[cache[i]] = From(cache, i)
        BY <2>1
      <4>2. QED  BY <2>2, <3>1, <4>1
    <3>3. Cardinality(since[k]) = Len(cache) - i + 1
      BY <2>1, <3>2, FromCounts
    <3>4. k \in since[k]
      <4>1. i \in i .. Len(cache) /\ i \in Nat
        BY <2>2, <3>2
      <4>2. QED  BY <3>1, <3>2, <4>1 DEF From
    <3>5. Cardinality(since[k]) <= CacheMax
      <4> DEFINE a == Cardinality(since[k])
      <4>1. a = n - i + 1
        BY <3>3
      <4> HIDE DEF a, n
      <4>2. a <= CacheMax
        BY <2>2, <3>2, <4>1
      <4>3. QED  BY <4>2 DEF a
    <3>6. QED  BY <2>3, <3>4, <3>5
  <2>4. CASE ~Cached(k)
    <3> SUFFICES ASSUME since[k] # {}
                 PROVE  ~(Cardinality(since[k]) <= CacheMax)
      BY <2>4
    <3>1. k \notin Items(cache)
      BY <2>4 DEF Cached, Items
    <3>2. Len(cache) = CacheMax /\ Items(cache) \cup {k} \subseteq since[k]
      BY <2>1, <3>1
    <3>3. 1 \in DOMAIN cache /\ From(cache, 1) = Items(cache)
      BY <2>1, <2>2, <3>2, DispatchAssumption DEF From, Items
    <3>4. IsFiniteSet(Items(cache)) /\ Cardinality(Items(cache)) = Len(cache) - 1 + 1
      <4>1. IsFiniteSet(From(cache, 1)) /\ Cardinality(From(cache, 1)) = Len(cache) - 1 + 1
        BY <2>1, <3>3, FromCounts
      <4>2. QED  BY <3>3, <4>1
    <3>5. Cardinality(Items(cache) \cup {k}) = Cardinality(Items(cache)) + 1
      BY <3>1, <3>4, FS_AddElement
    <3>6. Cardinality(Items(cache) \cup {k}) <= Cardinality(since[k])
      BY <2>1, <3>2, FS_Subset
    <3>7. Cardinality(since[k]) \in Nat
      BY <2>1, FS_CardinalityType
    <3>8. QED  BY <2>2, <3>2, <3>4, <3>5, <3>6, <3>7
  <2>5. QED  BY <2>3, <2>4
<1>2. QED  BY <1>1, CacheInit, CacheNext, PTL DEF PSpec

-----------------------------------------------------------------------------
(* All of them together: a supervisor's tasks or a swarm's, and dispatches. *)

AgentsInv ==
  /\ SInv /\ CacheInv
  /\ part = "supervisor" => job = NoJob
  /\ part = "swarm" => FallbackRests

LEMMA AgentsStart == Init => AgentsInv
BY SInitInv, CacheInit, RestsAtFirst DEF Init, SInit, AgentsInv

LEMMA AgentsKeep == AgentsInv /\ [Next]_vars => AgentsInv'
<1> SUFFICES ASSUME AgentsInv, [Next]_vars PROVE AgentsInv'
  OBVIOUS
<1>1. /\ SInv /\ CacheInv
      /\ part = "supervisor" => job = NoJob
      /\ part = "swarm" => FallbackRests
  BY DEF AgentsInv
<1>2. CASE part = "supervisor" /\ DNext /\ UNCHANGED <<job, pvars, part>>
  <2>1. DInv'
    BY <1>1, <1>2, DNextInv DEF SInv
  <2>2. job' = NoJob /\ part' = part /\ UNCHANGED pvars
    BY <1>1, <1>2
  <2>3. SInv'
    BY <2>1, <2>2, NoJobFits DEF SInv, NoJob
  <2>4. CacheInv'
    BY <1>1, <2>2, CacheNext
  <2>5. QED  BY <1>2, <2>2, <2>3, <2>4 DEF AgentsInv
<1>3. CASE part = "swarm" /\ SNext /\ UNCHANGED <<pvars, part>>
  <2>1. SInv' /\ FallbackRests'
    BY <1>1, <1>3, SNextInv, RestsNext
  <2>2. CacheInv'
    BY <1>1, <1>3, CacheNext
  <2>3. QED  BY <1>3, <2>1, <2>2 DEF AgentsInv
<1>4. CASE UNCHANGED <<svars, part>> /\ [PNext]_pvars
  <2>1. SInv' /\ (part = "swarm" => FallbackRests')
    BY <1>1, <1>4, SNextInv, RestsNext
  <2>2. CacheInv'
    BY <1>1, <1>4, CacheNext
  <2>3. QED  BY <1>1, <1>4, <2>1, <2>2 DEF AgentsInv, svars
<1>5. QED  BY <1>2, <1>3, <1>4 DEF Next, vars

LEMMA AgentsInvariant == Spec => []AgentsInv
BY AgentsStart, AgentsKeep, PTL DEF Spec

\* The tasks of a supervisor or of a swarm and the dispatches are well typed.
THEOREM AgentTypes == Spec => []TypeOK
<1>1. AgentsInv => TypeOK
  BY DEF AgentsInv, SInv, DInv, STypeOK, JobType, CacheInv, Kept, PTypeOK, TypeOK
<1>2. QED  BY <1>1, AgentsInvariant, PTL

\* Whatever calls agents, a task of a supervisor or the fallback of a swarm's,
\* spends its turns as the abstract budget allows.
THEOREM AgentsImplemented == ASSUME MaxTurns > 0 PROVE Spec => ImplementsTaskBudget
<1>1. Init => Budget!BInit
  BY BudgetAtFirst DEF Init, SInit
<1>2. AgentsInv /\ [Next]_vars => [Budget!BNext]_Budget!bvars
  <2> SUFFICES ASSUME AgentsInv, [Next]_vars PROVE [Budget!BNext]_Budget!bvars
    OBVIOUS
  <2>1. CASE run' = run
    BY <2>1 DEF Budget!bvars
  <2>2. CASE part = "supervisor" /\ DNext
    BY <2>1, <2>2, StartRefines, StepRefines DEF DNext, Elapse, AgentsInv, SInv
  <2>3. CASE part = "swarm" /\ SNext
    BY <2>3, SwarmStepRefines DEF AgentsInv
  <2>4. QED  BY <2>1, <2>2, <2>3 DEF Next, vars, svars, dvars
<1>3. QED
  BY <1>1, <1>2, AgentsInvariant, PTL DEF Spec, ImplementsTaskBudget, Budget!BSpec
=============================================================================
