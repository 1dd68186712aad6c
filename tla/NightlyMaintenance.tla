------------------------- MODULE NightlyMaintenance -------------------------
(***************************************************************************)
(* The nightly memory maintenance of several pods                          *)
(* (agent/maintenance/nightly.py, agent/sidar_agent.py) under the lease of *)
(* core/distributed_lock.py: one Redis key, SET NX PX with a fresh token   *)
(* for each attempt, and a release that compares the token.                *)
(*                                                                         *)
(* Each command is given up after a fraction of a second; it may then be   *)
(* lost, or take effect later.  Pods crash, and work has no time limit, so *)
(* that a lease may expire under it.  A pod that shuts down cancels its    *)
(* run, which releases the lease, but not the thread that the run may be   *)
(* awaiting, as it does where documents are consolidated; the process ends *)
(* when the thread has.                                                    *)
(* Within a pod a local lock that is tested without waiting admits one     *)
(* run: a pod is one actor, and a thread that its run has left behind.     *)
(***************************************************************************)
EXTENDS Naturals
CONSTANTS
  Pod,
  Required,  \* pods with DISTRIBUTED_AGENT_LOCK_REQUIRED
  MaxRuns    \* bound: attempts of one pod

Token == Pod \X (1 .. MaxRuns)
Free  == <<>>

ASSUME NightlyAssumption == Required \subseteq Pod /\ MaxRuns \in Nat

VARIABLES
  key,     \* the token in Redis, or Free
  at,      \* where each pod's maintenance stands
  runs,    \* attempts made; the last one's token is <<p, runs[p]>>
  leased,  \* has the pod's run a lease?
  sets,    \* SET commands under way, by token
  dels,    \* release scripts under way, by token
  thread,  \* does a thread work on for a run that was cancelled?
  lapsed   \* history: is the lease of the pod's last run over?

nvars == <<key, at, runs, leased, sets, dels, thread, lapsed>>

NInit ==
  /\ key = Free
  /\ at = [p \in Pod |-> "idle"]
  /\ runs = [p \in Pod |-> 0]
  /\ leased = [p \in Pod |-> FALSE]
  /\ sets = {} /\ dels = {}
  /\ thread = [p \in Pod |-> FALSE]
  /\ lapsed = [p \in Pod |-> FALSE]

Goes(p, place) == at' = [at EXCEPT ![p] = place]
Last(p)        == <<p, runs[p]>>
Lapse(t)       == lapsed' = IF Last(t[1]) = t THEN [lapsed EXCEPT ![t[1]] = TRUE] ELSE lapsed

-----------------------------------------------------------------------------
\* run_nightly_memory_maintenance, idle or forced, with the local lock free.
NightlyBegin(p) ==
  /\ at[p] = "idle" /\ ~thread[p] /\ runs[p] < MaxRuns
  /\ Goes(p, "acquiring")
  /\ runs' = [runs EXCEPT ![p] = @ + 1]
  /\ sets' = sets \cup {<<p, runs[p] + 1>>}
  /\ leased' = [leased EXCEPT ![p] = FALSE]
  /\ lapsed' = [lapsed EXCEPT ![p] = FALSE]
  /\ UNCHANGED <<key, dels, thread>>

\* SET NX takes effect.  Its pod hears of it, unless the answer is lost or the
\* pod has given up: the key is then held by nobody until it expires.
SetArrives(t, heard) ==
  LET p == t[1]
      listening == heard /\ at[p] = "acquiring" /\ Last(p) = t
  IN  /\ t \in sets
      /\ sets' = sets \ {t}
      /\ key' = IF key = Free THEN t ELSE key
      /\ IF listening
         THEN /\ Goes(p, IF key = Free THEN "working" ELSE "idle")
              /\ leased' = [leased EXCEPT ![p] = key = Free]
         ELSE UNCHANGED <<at, leased>>
      /\ UNCHANGED <<runs, dels, thread, lapsed>>

\* acquire raises, by a time-out or without a connection: skip the run if the
\* lock is required, go on without a lease otherwise.
AcquireFails(p) ==
  /\ at[p] = "acquiring"
  /\ Goes(p, IF p \in Required THEN "idle" ELSE "working")
  /\ UNCHANGED <<key, runs, leased, sets, dels, thread, lapsed>>

\* `finally`: a lease is released, however the work has ended.
Finally(p) ==
  /\ at[p] = "working"
  /\ Goes(p, IF leased[p] THEN "releasing" ELSE "idle")
  /\ dels' = IF leased[p] THEN dels \cup {Last(p)} ELSE dels

\* Purge, consolidation and history are over, have failed, or were cancelled
\* where no thread was at work.
NightlyDone(p) ==
  /\ Finally(p)
  /\ UNCHANGED <<key, runs, leased, sets, thread, lapsed>>

\* The run is cancelled while it awaits a thread, which goes on.
NightlyCancelled(p) ==
  /\ Finally(p)
  /\ thread' = [thread EXCEPT ![p] = TRUE]
  /\ UNCHANGED <<key, runs, leased, sets, lapsed>>

ThreadEnds(p) ==
  /\ thread[p]
  /\ thread' = [thread EXCEPT ![p] = FALSE]
  /\ UNCHANGED <<key, at, runs, leased, sets, dels, lapsed>>

\* A mutation of DelArrives: the key is deleted whoever's token it holds.
DelArrivesUnchecked(t) ==
  /\ t \in dels
  /\ dels' = dels \ {t}
  /\ key' = Free
  /\ IF key = t THEN Lapse(t) ELSE UNCHANGED lapsed
  /\ at' = IF at[t[1]] = "releasing" /\ Last(t[1]) = t THEN [at EXCEPT ![t[1]] = "idle"] ELSE at
  /\ UNCHANGED <<runs, leased, sets, thread>>

\* The release script compares the token and deletes the key.
DelArrives(t) ==
  /\ t \in dels
  /\ dels' = dels \ {t}
  /\ IF key = t THEN key' = Free /\ Lapse(t) ELSE UNCHANGED <<key, lapsed>>
  /\ at' = IF at[t[1]] = "releasing" /\ Last(t[1]) = t THEN [at EXCEPT ![t[1]] = "idle"] ELSE at
  /\ UNCHANGED <<runs, leased, sets, thread>>

\* A release that fails or takes too long is logged and forgotten.
ReleaseFails(p) ==
  /\ at[p] = "releasing"
  /\ Goes(p, "idle")
  /\ UNCHANGED <<key, runs, leased, sets, dels, thread, lapsed>>

-----------------------------------------------------------------------------
\* Redis: a command is lost; the key outlives its PX.
CommandLost ==
  /\ \E t \in sets \cup dels : sets' = sets \ {t} /\ dels' = dels \ {t}
  /\ UNCHANGED <<key, at, runs, leased, thread, lapsed>>

Expires ==
  /\ key # Free
  /\ key' = Free
  /\ Lapse(key)
  /\ UNCHANGED <<at, runs, leased, sets, dels, thread>>

\* A pod dies, and starts again without its lease and its thread.
Crash(p) ==
  /\ at[p] # "idle" \/ thread[p]
  /\ Goes(p, "idle")
  /\ leased' = [leased EXCEPT ![p] = FALSE]
  /\ thread' = [thread EXCEPT ![p] = FALSE]
  /\ UNCHANGED <<key, runs, sets, dels, lapsed>>

NNext ==
  \/ \E p \in Pod : \/ NightlyBegin(p) \/ AcquireFails(p) \/ NightlyDone(p)
                    \/ NightlyCancelled(p) \/ ThreadEnds(p) \/ ReleaseFails(p) \/ Crash(p)
  \/ \E t \in sets, heard \in BOOLEAN : SetArrives(t, heard)
  \/ \E t \in dels : DelArrives(t)
  \/ CommandLost
  \/ Expires

NSpec == NInit /\ [][NNext]_nvars

-----------------------------------------------------------------------------
NTypeOK ==
  /\ key \in Token \cup {Free}
  /\ at \in [Pod -> {"idle", "acquiring", "working", "releasing"}]
  /\ runs \in [Pod -> 0 .. MaxRuns]
  /\ leased \in [Pod -> BOOLEAN]
  /\ sets \subseteq Token /\ dels \subseteq Token
  /\ thread \in [Pod -> BOOLEAN]
  /\ lapsed \in [Pod -> BOOLEAN]

\* Something of the pod changes the shared memory.
Maintains(p) == at[p] = "working" \/ thread[p]

\* Two pods maintain the shared memory at the same time only if one of them
\* works beyond the end of its lease, which has expired, or was released when
\* its run was cancelled but not its thread, or works without a lease because
\* it may: lost and late commands, late releases and crashes never let a
\* second one in.
LeaseExcludes ==
  \A p, q \in Pod :
    p # q /\ Maintains(p) /\ Maintains(q) =>
      \E r \in {p, q} : lapsed[r] \/ (~leased[r] /\ r \notin Required)
=============================================================================
