----------------------------- MODULE MCEventBus -----------------------------
(* Instances of BusBootstrap, EventDelivery, DeadLetters and ModelCalls    *)
(* for TLC: what all agents of a process use at once, the bus and the      *)
(* model.  They share no state: the attributes of the connection, the      *)
(* queues with the listener's batch, the dead letters, the GPU's slots and *)
(* the budget.  Each meets the others as what may suspend or cancel its    *)
(* coroutines anywhere, so that each behaviour is one of a single part,    *)
(* out of Parts.                                                           *)
EXTENDS BusBootstrap, EventDelivery, DeadLetters, ModelCalls, TLC
CONSTANT Parts

VARIABLE part

allVars == <<vars, dvars, lvars, cvars, part>>

MCInit ==
  /\ Init /\ DInit /\ LInit /\ CInit
  /\ part \in Parts
  /\ part # "model" => own = "local" /\ ~patience

\* The letters of a behaviour are bounded; at the bound, and only there, all may rest.
AllWritten ==
  written = MaxLetters /\ orphans = {} /\ \A t \in Persister : at[t] = "idle"

MCNext ==
  \/ part = "connection" /\ Next /\ UNCHANGED <<dvars, lvars, cvars, part>>
  \/ part = "delivery" /\ DNext /\ UNCHANGED <<vars, lvars, cvars, part>>
  \/ part = "letters" /\ LNext /\ UNCHANGED <<vars, dvars, cvars, part>>
  \/ part = "letters" /\ AllWritten /\ UNCHANGED allVars
  \/ part = "model" /\ CNext /\ UNCHANGED <<vars, dvars, lvars, part>>

\* The event loop runs what can go on, threads end, and timers ring.
Fairness ==
  /\ \A t \in Persister : WF_allVars(part = "letters" /\ Go(t) /\ UNCHANGED <<vars, dvars, cvars, part>>)
  /\ WF_allVars(part = "letters" /\ OrphanWritten /\ UNCHANGED <<vars, dvars, cvars, part>>)

MCSpec == MCInit /\ [][MCNext]_allVars

MCFairSpec == MCSpec /\ Fairness

\* Tasks of a kind differ in nothing but their names; used where no liveness
\* property is checked.
Symmetry ==
  Permutations(Publisher) \cup Permutations(Bootstrap) \cup Permutations(Listener)
    \cup Permutations(Subscriber) \cup Permutations(Writer)

MCTypeOK == TypeOK /\ DTypeOK /\ LTypeOK /\ CTypeOK

\* A dead letter reaches the file, or a failing disk takes its record: the test
\* test_write_dead_letter_persists_to_jsonl_when_path_configured says of
\* _write_dead_letter that it persists the letter when a path is configured.
LettersPersisted ==
  \A l \in 1 .. MaxLetters :
    l \in remembered ~> Record(l, FALSE) \in lost \/ Copies(file, l) = 1
=============================================================================
