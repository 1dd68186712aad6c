-------------------------- MODULE MaintenanceProofs --------------------------
(***************************************************************************)
(* Theorems about the two kinds of unattended work on the system itself:   *)
(* NightlyMaintenance, for any number of pods and of runs, whichever pods  *)
(* require the lock; and SelfHeal, what concurrent attempts and their      *)
(* rollbacks do to the files, and how many of them there are, for every    *)
(* set of attempts and paths and every limit.                              *)
(***************************************************************************)
EXTENDS MCMaintenance, FiniteSetTheorems, TLAPS

USE NightlyAssumption, SelfHealAssumption

-----------------------------------------------------------------------------
(* NightlyMaintenance: the inductive invariant. *)

\* A pod that works, or whose thread does, with a lease that is not over has its
\* token in Redis.
LeaseHeld ==
  \A p \in Pod : Maintains(p) /\ leased[p] /\ ~lapsed[p] => key = Last(p)

\* Only pods that may do so work without a lease; a run that is still to get
\* one has none; the thread of a cancelled run has no other run beside it.
LeaseNeeded ==
  \A p \in Pod : /\ Maintains(p) /\ ~leased[p] => p \notin Required
                 /\ at[p] = "acquiring" => ~leased[p]
                 /\ thread[p] => at[p] \in {"idle", "releasing"}

\* Tokens are fresh: no release is under way of a run that has not ended, or
\* been cancelled.
FreshTokens ==
  /\ \A p \in Pod : at[p] # "idle" => runs[p] >= 1
  /\ \A t \in dels : t[2] <= runs[t[1]]
  /\ \A p \in Pod : Last(p) \in dels => at[p] \in {"idle", "releasing"}

\* The inductive invariant.
NInv == NTypeOK /\ LeaseHeld /\ LeaseNeeded /\ FreshTokens

-----------------------------------------------------------------------------
LEMMA InitNInv == NInit => NInv
BY DEF NInit, NInv, NTypeOK, LeaseHeld, LeaseNeeded, FreshTokens, Maintains, Free, Last

LEMMA TokenForm ==
  ASSUME NEW t \in Token
  PROVE  t[1] \in Pod /\ t[2] \in 1 .. MaxRuns /\ t # Free
BY DEF Token, Free

\* A run that begins has a token no release was ever made of.
LEMMA BeginNInv ==
  ASSUME NInv, NEW p \in Pod, NightlyBegin(p)
  PROVE  NInv'
<1>1. /\ runs[p] + 1 \in 1 .. MaxRuns
      /\ runs'[p] = runs[p] + 1 /\ at'[p] = "acquiring" /\ ~leased'[p]
      /\ \A q \in Pod \ {p} : /\ runs'[q] = runs[q] /\ at'[q] = at[q]
                              /\ leased'[q] = leased[q] /\ lapsed'[q] = lapsed[q]
      /\ thread' = thread /\ ~thread[p]
  BY DEF NInv, NTypeOK, NightlyBegin, Goes
<1>2. NTypeOK'
  BY <1>1 DEF NInv, NTypeOK, NightlyBegin, Goes, Token
<1>3. LeaseHeld'
  BY <1>1 DEF NInv, LeaseHeld, Maintains, NightlyBegin, Last
<1>4. LeaseNeeded'
  BY <1>1 DEF NInv, LeaseNeeded, Maintains
<1>5. FreshTokens'
  <2>1. \A t \in dels' : t \in dels /\ t[1] \in Pod /\ t[2] \in Nat
    BY TokenForm DEF NInv, NTypeOK, NightlyBegin
  <2>2. \A t \in dels' : t[2] <= runs'[t[1]]
    BY <1>1, <2>1 DEF NInv, NTypeOK, FreshTokens
  <2>3. Last(p)' \notin dels
    BY <1>1 DEF NInv, NTypeOK, FreshTokens, Last
  <2>4. \A q \in Pod : at'[q] # "idle" => runs'[q] >= 1
    BY <1>1 DEF NInv, NTypeOK, FreshTokens
  <2>5. QED  BY <1>1, <2>1, <2>2, <2>3, <2>4 DEF NInv, FreshTokens, Last, NightlyBegin
<1>6. QED  BY <1>2, <1>3, <1>4, <1>5 DEF NInv

\* A SET takes the key only if nobody has it.
LEMMA SetNInv ==
  ASSUME NInv, NEW t \in sets, NEW heard \in BOOLEAN, SetArrives(t, heard)
  PROVE  NInv'
<1>1. t \in Token /\ t[1] \in Pod /\ t # Free
  BY TokenForm DEF NInv, NTypeOK
<1>2. NTypeOK'
  BY <1>1 DEF NInv, NTypeOK, SetArrives, Goes
<1>3. \A p \in Pod : Last(p) # Free
  BY DEF Last, Free
<1>4. CASE heard /\ at[t[1]] = "acquiring" /\ Last(t[1]) = t
  <2>1. /\ at'[t[1]] = IF key = Free THEN "working" ELSE "idle"
        /\ leased'[t[1]] = (key = Free)
        /\ \A q \in Pod \ {t[1]} : at'[q] = at[q] /\ leased'[q] = leased[q]
    BY <1>1, <1>4 DEF NInv, NTypeOK, SetArrives, Goes
  <2>2. LeaseHeld'
    BY <1>1, <1>3, <1>4, <2>1 DEF NInv, LeaseHeld, LeaseNeeded, Maintains, SetArrives, Last
  <2>3. LeaseNeeded'
    BY <1>1, <1>4, <2>1 DEF NInv, NTypeOK, LeaseNeeded, Maintains, SetArrives
  <2>4. FreshTokens'
    BY <1>1, <1>4, <2>1 DEF NInv, FreshTokens, SetArrives, Last
  <2>5. QED  BY <1>2, <2>2, <2>3, <2>4 DEF NInv
<1>5. CASE ~(heard /\ at[t[1]] = "acquiring" /\ Last(t[1]) = t)
  <2>1. UNCHANGED <<at, leased>>
    BY <1>5 DEF SetArrives
  <2>2. QED
    BY <1>2, <1>3, <2>1
    DEF NInv, LeaseHeld, LeaseNeeded, FreshTokens, Maintains, SetArrives, Last
<1>6. QED  BY <1>4, <1>5

LEMMA AcquireFailsNInv ==
  ASSUME NInv, NEW p \in Pod, AcquireFails(p)
  PROVE  NInv'
<1>1. /\ at'[p] = IF p \in Required THEN "idle" ELSE "working"
      /\ \A q \in Pod \ {p} : at'[q] = at[q]
      /\ at[p] = "acquiring" /\ ~leased[p]
  BY DEF NInv, NTypeOK, LeaseNeeded, AcquireFails, Goes
<1>2. NTypeOK'
  BY DEF NInv, NTypeOK, AcquireFails, Goes
<1>3. QED
  BY <1>1, <1>2 DEF NInv, LeaseHeld, LeaseNeeded, FreshTokens, Maintains, AcquireFails, Last

\* A run ends, or is cancelled and leaves its thread behind.
LEMMA FinallyNInv ==
  ASSUME NInv, NEW p \in Pod, NightlyDone(p) \/ NightlyCancelled(p)
  PROVE  NInv'
<1>1. /\ at[p] = "working" /\ at'[p] = IF leased[p] THEN "releasing" ELSE "idle"
      /\ \A q \in Pod \ {p} : at'[q] = at[q]
  BY DEF NInv, NTypeOK, NightlyDone, NightlyCancelled, Finally, Goes
<1>2. leased[p] => Last(p) \in Token
  BY <1>1 DEF NInv, NTypeOK, FreshTokens, Last, Token
<1>3. /\ UNCHANGED <<key, runs, leased, sets, lapsed>>
      /\ thread' \in [Pod -> BOOLEAN] /\ \A q \in Pod \ {p} : thread'[q] = thread[q]
      /\ dels' = IF leased[p] THEN dels \cup {Last(p)} ELSE dels
  BY DEF NInv, NTypeOK, NightlyDone, NightlyCancelled, Finally
<1>4. NTypeOK'
  BY <1>2, <1>3 DEF NInv, NTypeOK, NightlyDone, NightlyCancelled, Finally, Goes
<1>5. \A q \in Pod : Maintains(q)' => Maintains(q)
  BY <1>1, <1>3 DEF Maintains
<1>6. LeaseHeld'
  BY <1>3, <1>5 DEF NInv, LeaseHeld, Last
<1>7. LeaseNeeded'
  BY <1>1, <1>3, <1>5 DEF NInv, LeaseNeeded
<1>8. FreshTokens'
  BY <1>1, <1>3 DEF NInv, NTypeOK, FreshTokens, Last
<1>9. QED  BY <1>4, <1>6, <1>7, <1>8 DEF NInv

LEMMA ThreadEndsNInv ==
  ASSUME NInv, NEW p \in Pod, ThreadEnds(p)
  PROVE  NInv'
<1>1. \A q \in Pod : thread'[q] => thread[q]
  BY DEF NInv, NTypeOK, ThreadEnds
<1>2. NTypeOK'
  BY DEF NInv, NTypeOK, ThreadEnds
<1>3. QED
  BY <1>1, <1>2 DEF NInv, LeaseHeld, LeaseNeeded, FreshTokens, Maintains, ThreadEnds, Last

LEMMA ReleaseNInv ==
  ASSUME NInv, NEW p \in Pod, ReleaseFails(p)
  PROVE  NInv'
<1>1. at'[p] = "idle" /\ \A q \in Pod \ {p} : at'[q] = at[q]
  BY DEF NInv, NTypeOK, ReleaseFails, Goes
<1>2. NTypeOK'
  BY DEF NInv, NTypeOK, ReleaseFails, Goes
<1>3. QED
  BY <1>1, <1>2 DEF NInv, LeaseHeld, LeaseNeeded, FreshTokens, Maintains, ReleaseFails, Last

\* Whichever way the key of t is freed, the lease of the run that has t is over.
LEMMA LapseNInv ==
  ASSUME NInv, NEW t \in Token, key = t, key' = Free, Lapse(t),
         UNCHANGED <<runs, leased, thread>>,
         \A p \in Pod : at'[p] = at[p] \/ at'[p] = "idle"
  PROVE  LeaseHeld' /\ lapsed' \in [Pod -> BOOLEAN]
<1>1. t[1] \in Pod
  BY TokenForm
<1>2. lapsed' \in [Pod -> BOOLEAN]
  BY DEF NInv, NTypeOK, Lapse
<1>3. ASSUME NEW p \in Pod, Maintains(p)', leased[p], ~lapsed'[p]
      PROVE  FALSE
  <2>1. Maintains(p)
    BY <1>3 DEF Maintains
  <2>2. CASE Last(p) = t
    <3>1. t[1] = p  BY <2>2 DEF Last
    <3>2. lapsed' = [lapsed EXCEPT ![p] = TRUE]
      BY <2>2, <3>1 DEF Lapse
    <3>3. QED  BY <1>3, <3>2 DEF NInv, NTypeOK
  <2>3. CASE Last(p) # t
    <3>1. lapsed'[p] = lapsed[p]
      BY <1>1, <2>3 DEF NInv, NTypeOK, Lapse, Last
    <3>2. QED  BY <1>3, <2>1, <2>3, <3>1 DEF NInv, LeaseHeld
  <2>4. QED  BY <2>2, <2>3
<1>4. LeaseHeld'
  BY <1>3 DEF LeaseHeld
<1>5. QED  BY <1>2, <1>4

\* A release deletes the key of an ended or cancelled run only.
LEMMA DelNInv ==
  ASSUME NInv, NEW t \in dels, DelArrives(t)
  PROVE  NInv'
<1>1. t \in Token /\ t[1] \in Pod
  BY TokenForm DEF NInv, NTypeOK
<1>2. \A p \in Pod : at'[p] = at[p] \/ (at'[p] = "idle" /\ at[p] = "releasing")
  BY <1>1 DEF NInv, NTypeOK, DelArrives
<1>3. \A p \in Pod : Maintains(p)' => Maintains(p)
  BY <1>2 DEF Maintains, DelArrives
<1>4. LeaseHeld' /\ lapsed' \in [Pod -> BOOLEAN]
  <2>1. CASE key = t
    BY <1>1, <1>2, <2>1, LapseNInv DEF DelArrives
  <2>2. CASE key # t
    BY <1>3, <2>2 DEF NInv, NTypeOK, LeaseHeld, DelArrives, Last
  <2>3. QED  BY <2>1, <2>2
<1>5. NTypeOK'
  BY <1>1, <1>4 DEF NInv, NTypeOK, DelArrives
<1>6. LeaseNeeded'
  BY <1>2, <1>3 DEF NInv, LeaseNeeded, DelArrives
<1>7. FreshTokens'
  BY <1>2 DEF NInv, FreshTokens, DelArrives, Last
<1>8. QED  BY <1>4, <1>5, <1>6, <1>7 DEF NInv

\* A key that expires ends the lease of the run that has it.
LEMMA ExpiresNInv ==
  ASSUME NInv, Expires
  PROVE  NInv'
<1>1. key \in Token
  BY DEF NInv, NTypeOK, Expires
<1>2. LeaseHeld' /\ lapsed' \in [Pod -> BOOLEAN]
  BY <1>1, LapseNInv DEF Expires
<1>3. NTypeOK'
  BY <1>2 DEF NInv, NTypeOK, Expires
<1>4. QED
  BY <1>2, <1>3 DEF NInv, LeaseNeeded, FreshTokens, Maintains, Expires, Last

LEMMA CrashNInv ==
  ASSUME NInv, NEW p \in Pod, Crash(p)
  PROVE  NInv'
<1>1. /\ at'[p] = "idle"
      /\ ~thread'[p]
      /\ \A q \in Pod \ {p} : /\ at'[q] = at[q] /\ leased'[q] = leased[q]
                              /\ thread'[q] = thread[q]
  BY DEF NInv, NTypeOK, Crash, Goes
<1>2. NTypeOK'
  BY DEF NInv, NTypeOK, Crash, Goes
<1>3. QED
  BY <1>1, <1>2 DEF NInv, LeaseHeld, LeaseNeeded, FreshTokens, Maintains, Crash, Last

LEMMA NextNInv == NInv /\ [NNext]_nvars => NInv'
<1> SUFFICES ASSUME NInv, [NNext]_nvars PROVE NInv'
  OBVIOUS
<1>1. ASSUME NEW p \in Pod,
             \/ NightlyBegin(p) \/ AcquireFails(p) \/ NightlyDone(p)
             \/ NightlyCancelled(p) \/ ThreadEnds(p) \/ ReleaseFails(p) \/ Crash(p)
      PROVE  NInv'
  BY <1>1, BeginNInv, AcquireFailsNInv, FinallyNInv, ThreadEndsNInv, ReleaseNInv, CrashNInv
<1>2. CASE CommandLost
  BY <1>2 DEF CommandLost, NInv, NTypeOK, LeaseHeld, LeaseNeeded, FreshTokens, Maintains, Last
<1>3. CASE UNCHANGED nvars
  BY <1>3 DEF nvars, NInv, NTypeOK, LeaseHeld, LeaseNeeded, FreshTokens, Maintains, Last
<1>4. QED
  BY <1>1, <1>2, <1>3, SetNInv, DelNInv, ExpiresNInv DEF NNext

\* In every reachable state, a pod that works with a lease that is not over has its
\* token in Redis, also in a thread left behind, and a run's release is under way
\* only when the run has ended or been cancelled (the `finally` of nightly.py).
THEOREM NightlyInvariant == NSpec => []NInv
BY InitNInv, NextNInv, PTL DEF NSpec

\* Every reachable state of pods, leases and commands under way is well typed.
THEOREM NightlyTypes == NSpec => []NTypeOK
<1>1. NInv => NTypeOK  BY DEF NInv
<1>2. QED  BY <1>1, NightlyInvariant, PTL

\* Of two pods that maintain the memory at once, in a run or in the thread of a
\* cancelled one, one works beyond the end of its lease, which has expired or was
\* released by the cancellation, or needs none (nightly.py, distributed_lock.py),
\* for any number of pods and runs.
THEOREM MaintenanceExcludes == NSpec => []LeaseExcludes
<1>1. NInv => LeaseExcludes
  BY DEF NInv, LeaseHeld, LeaseNeeded, LeaseExcludes, Last
<1>2. QED  BY <1>1, NightlyInvariant, PTL

-----------------------------------------------------------------------------
(* SelfHeal: the inductive invariant. *)

Places == {"idle", "reading", "fixing", "planning", "backup", "patch", "write", "validating",
           "restoring", "ended"}

HealRecord ==
  [at : Places, stage : {"none", "autofix", "plan"}, ops : 0 .. MaxOps, todo : SUBSET Path,
   backup : UNION {[S -> Text] : S \in SUBSET Path}, held : Text,
   before : [Path -> Text] \cup {<<>>}]

\* What is true of an attempt r while the files are `now`, and nobody else has
\* written since its stage began, if `mine`: a backup is the text from before
\* the stage, and so is what has not been backed up or has been restored.
OnCourse(r, mine, now) ==
  /\ r.at \in {"backup", "patch", "write"} => r.ops # 0
  /\ r.at \in {"patch", "write"} => \E p \in Backed(r) : r.todo = {p}
  /\ r.at = "planning" => Backed(r) = {}
  /\ r.at = "restoring" => r.todo \subseteq Backed(r)
  /\ mine =>
       /\ r.at \notin {"idle", "planning", "ended"} => \A p \in Backed(r) : r.backup[p] = r.before[p]
       /\ r.at = "reading" => \A p \in Path : now[p] = r.before[p]
       /\ r.at \in {"backup", "patch", "write"} =>
            \A p \in Path \ Backed(r) : now[p] = r.before[p]
       /\ r.at = "restoring" => \A p \in Backed(r) \ r.todo : now[p] = r.before[p]

Types ==
  /\ scope \subseteq Path /\ patches \in 1 .. MaxOps
  /\ file \in [Path -> Text]
  /\ heal \in [Heal -> HealRecord]
  /\ alone \in [Heal -> BOOLEAN]

AllOnCourse == \A h \in Heal : OnCourse(heal[h], alone[h], file)

\* The attempts begun after the last success.
Recent == {h \in Heal : recent[h]}

\* Each is counted once, while it runs or when it has failed.
Counted ==
  /\ attempts \in 0 .. MaxAttempts /\ failed \in Nat
  /\ recent \in [Heal -> BOOLEAN]
  /\ \A h \in Heal : recent[h] => heal[h].at \notin {"idle", "ended"}
  /\ failed + Cardinality(Recent) = attempts

HInv == Types /\ AllOnCourse /\ Counted

-----------------------------------------------------------------------------
LEMMA NoHealRecord == NoHeal \in HealRecord /\ Planning \in HealRecord /\ Ended \in HealRecord
<1>1. <<>> \in [{} -> Text]
  OBVIOUS
<1>2. <<>> \in UNION {[S -> Text] : S \in SUBSET Path}
  BY <1>1
<1>3. NoHeal \in HealRecord
  <2> DEFINE none == <<>>
             all  == UNION {[S -> Text] : S \in SUBSET Path}
  <2>1. none \in all /\ none \in [Path -> Text] \cup {none} /\ {} \in Text /\ {} \in SUBSET Path
    BY <1>2 DEF Text
  <2>2. 0 \in 0 .. MaxOps
    OBVIOUS
  <2> HIDE DEF none, all
  <2>3. [at |-> "idle", stage |-> "none", ops |-> 0, todo |-> {}, backup |-> none, held |-> {},
         before |-> none]
        \in [at : Places, stage : {"none", "autofix", "plan"}, ops : 0 .. MaxOps,
             todo : SUBSET Path, backup : all, held : Text,
             before : [Path -> Text] \cup {none}]
    BY <2>1, <2>2 DEF Places
  <2>4. QED  BY <2>3 DEF NoHeal, HealRecord, none, all
<1>4. QED  BY <1>3 DEF Planning, Ended, HealRecord, Places

\* Without backups there is nothing to restore.
LEMMA NothingBacked == Backed(NoHeal) = {} /\ Backed(Planning) = {} /\ Backed(Ended) = {}
BY DEF Backed, NoHeal, Planning, Ended

LEMMA CurrentInTodo ==
  ASSUME NEW r, r.todo # {}
  PROVE  Current(r) \in r.todo
BY DEF Current

\* A backup of a path.
LEMMA SaveBacksUp ==
  ASSUME Types, NEW r \in HealRecord, NEW p \in Path
  PROVE  LET s == Save(r, p)
         IN  /\ s \in HealRecord /\ Backed(s) = Backed(r) \cup {p}
             /\ s.backup[p] = file[p]
             /\ \A x \in Backed(r) \ {p} : s.backup[x] = r.backup[x]
             /\ s.at = r.at /\ s.ops = r.ops /\ s.todo = r.todo /\ s.before = r.before
<1> DEFINE b == [x \in Backed(r) \cup {p} |-> IF x = p THEN file[p] ELSE r.backup[x]]
<1>1. PICK S \in SUBSET Path : r.backup \in [S -> Text]
  BY DEF HealRecord
<1>2. Backed(r) = S /\ file[p] \in Text
  BY <1>1 DEF Backed, Types
<1>3. b \in [S \cup {p} -> Text]
  BY <1>1, <1>2
<1>4. b \in UNION {[T -> Text] : T \in SUBSET Path}
  BY <1>3
<1>5. DOMAIN b = Backed(r) \cup {p} /\ b[p] = file[p] /\ \A x \in Backed(r) \ {p} : b[x] = r.backup[x]
  OBVIOUS
<1>6. Save(r, p) = [r EXCEPT !.backup = b]
  BY DEF Save
<1> HIDE DEF b
<1>7. [r EXCEPT !.backup = b] \in HealRecord /\ [r EXCEPT !.backup = b].backup = b
  BY <1>4 DEF HealRecord
<1>8. QED  BY <1>5, <1>6, <1>7 DEF Backed, HealRecord

\* The step of one attempt leaves the others on their course, if those whose
\* files it changes are told.
LEMMA StepKeeps ==
  ASSUME HInv, NEW h \in Heal, NEW new \in HealRecord, Step(h, new),
         file' \in [Path -> Text], alone' \in [Heal -> BOOLEAN],
         UNCHANGED <<scope, patches>>,
         \A g \in Heal \ {h} : alone'[g] => alone[g] /\ file' = file,
         OnCourse(new, alone'[h], file')
  PROVE  Types' /\ AllOnCourse'
<1>1. heal' \in [Heal -> HealRecord] /\ heal'[h] = new /\ \A g \in Heal \ {h} : heal'[g] = heal[g]
  BY DEF Step, HInv, Types
<1>2. Types'
  BY <1>1 DEF HInv, Types
<1>3. ASSUME NEW g \in Heal \ {h} PROVE OnCourse(heal'[g], alone'[g], file')
  <2>1. OnCourse(heal[g], alone[g], file)
    BY DEF HInv, AllOnCourse
  <2>2. CASE alone'[g]
    BY <1>1, <2>1, <2>2 DEF OnCourse
  <2>3. CASE ~alone'[g]
    BY <1>1, <2>1, <2>3 DEF OnCourse
  <2>4. QED  BY <2>2, <2>3
<1>4. QED  BY <1>1, <1>2, <1>3 DEF AllOnCourse
-----------------------------------------------------------------------------
(* Counting. *)

LEMMA RecentIsFinite == IsFiniteSet(Recent) /\ Cardinality(Recent) \in Nat
<1>1. Recent \subseteq Heal
  BY DEF Recent
<1>2. QED  BY <1>1, FS_Subset, FS_CardinalityType

\* A step that neither begins nor ends an attempt.
LEMMA GoesOnCounted ==
  ASSUME HInv, NEW h \in Heal, NEW new, Step(h, new), new.at \notin {"idle", "ended"},
         UNCHANGED <<attempts, recent, failed>>
  PROVE  Counted'
<1>1. heal'[h] = new /\ \A g \in Heal \ {h} : heal'[g] = heal[g]
  BY DEF Step, HInv, Types
<1>2. Recent' = Recent
  BY DEF Recent
<1>3. QED  BY <1>1, <1>2 DEF HInv, Counted

\* An attempt begins.
LEMMA BeginCounted ==
  ASSUME HInv, NEW h \in Heal, NEW new, Step(h, new), new.at \notin {"idle", "ended"},
         heal[h].at \in {"idle", "ended"}, attempts < MaxAttempts, attempts' = attempts + 1,
         recent' = [recent EXCEPT ![h] = TRUE], failed' = failed
  PROVE  Counted'
<1>1. heal'[h] = new /\ \A g \in Heal \ {h} : heal'[g] = heal[g]
  BY DEF Step, HInv, Types
<1>2. h \notin Recent /\ Recent' = Recent \cup {h}
  BY DEF Recent, HInv, Counted
<1>3. Cardinality(Recent') = Cardinality(Recent) + 1
  BY <1>2, RecentIsFinite, FS_AddElement
<1>4. failed' + Cardinality(Recent') = attempts' /\ attempts' \in 0 .. MaxAttempts
  BY <1>3, RecentIsFinite DEF HInv, Counted
<1>5. QED  BY <1>1, <1>4 DEF HInv, Counted

\* An attempt ends without success.
LEMMA FailsCounted ==
  ASSUME HInv, NEW h \in Heal, Fails(h), attempts' = attempts
  PROVE  Counted'
<1>1. heal'[h] = Ended /\ \A g \in Heal \ {h} : heal'[g] = heal[g]
  BY DEF Step, HInv, Types, Fails
<1>2. recent' = [recent EXCEPT ![h] = FALSE] /\ recent \in [Heal -> BOOLEAN]
  BY DEF Fails, HInv, Counted
<1>3. Recent' = Recent \ {h}
  BY <1>2 DEF Recent
<1>4. failed' + Cardinality(Recent') = failed + Cardinality(Recent) /\ failed' \in Nat
  <2>1. CASE recent[h]
    <3>1. h \in Recent /\ failed' = failed + 1
      BY <2>1 DEF Recent, Fails
    <3>2. Cardinality(Recent') = Cardinality(Recent) - 1
      BY <1>3, <3>1, RecentIsFinite, FS_RemoveElement
    <3>3. QED  BY <3>1, <3>2, RecentIsFinite DEF HInv, Counted
  <2>2. CASE ~recent[h]
    <3>1. Recent' = Recent /\ failed' = failed
      BY <1>3, <2>2 DEF Recent, Fails
    <3>2. QED  BY <3>1 DEF HInv, Counted
  <2>3. QED  BY <2>1, <2>2
<1>5. \A g \in Heal : recent'[g] => heal'[g].at \notin {"idle", "ended"}
  BY <1>1, <1>2 DEF HInv, Counted
<1>6. QED  BY <1>2, <1>4, <1>5 DEF HInv, Counted

\* A success forgets the attempts before it.
LEMMA SuccessCounted ==
  ASSUME attempts' = 0, recent' = [g \in Heal |-> FALSE], failed' = 0
  PROVE  Counted'
<1>1. Recent' = {}
  BY DEF Recent
<1>2. Cardinality(Recent') = 0
  BY <1>1, FS_EmptySet
<1>3. QED  BY <1>2 DEF Counted
-----------------------------------------------------------------------------
(* The steps of an attempt. *)

\* Others that write tell those whose files they change.
LEMMA WritesTell ==
  ASSUME HInv, NEW h \in Heal, NEW new \in [Path -> Text], NEW ok \in BOOLEAN,
         Writes(h, new, ok)
  PROVE  /\ file' = new /\ alone' \in [Heal -> BOOLEAN]
         /\ alone'[h] = (alone[h] /\ ok)
         /\ \A g \in Heal \ {h} : alone'[g] => alone[g] /\ file' = file
BY DEF Writes, HInv, Types

LEMMA StageTells ==
  ASSUME HInv, NEW h \in Heal, Stage(h)
  PROVE  /\ alone' \in [Heal -> BOOLEAN] /\ alone'[h]
         /\ \A g \in Heal \ {h} : alone'[g] = alone[g]
BY DEF Stage, HInv, Types

\* A rollback starts with everything that has been backed up...
LEMMA RestoringStarts ==
  ASSUME NEW r \in HealRecord, NEW mine \in BOOLEAN, NEW now,
         mine => \A p \in Backed(r) : r.backup[p] = r.before[p]
  PROVE  /\ Restoring(r) \in HealRecord /\ Restoring(r).at = "restoring"
         /\ OnCourse(Restoring(r), mine, now)
<1>1. Backed(r) \in SUBSET Path
  BY DEF HealRecord, Backed
<1>2. /\ Restoring(r) \in HealRecord /\ Restoring(r).at = "restoring"
      /\ Restoring(r).todo = Backed(r) /\ Restoring(r).backup = r.backup
      /\ Restoring(r).before = r.before
  BY <1>1 DEF Restoring, HealRecord, Places
<1>3. Backed(Restoring(r)) = Backed(r)
  BY <1>2 DEF Backed
<1>4. QED  BY <1>2, <1>3 DEF OnCourse

\* ...and an attempt that is over or plans has nothing to restore.
LEMMA EmptyOnCourse ==
  ASSUME NEW r \in {NoHeal, Planning, Ended}, NEW mine \in BOOLEAN, NEW now
  PROVE  OnCourse(r, mine, now)
<1>1. NoHeal.at = "idle" /\ Planning.at = "planning" /\ Ended.at = "ended"
  BY DEF NoHeal, Planning, Ended
<1>2. r.at \in {"idle", "planning", "ended"} /\ Backed(r) = {}
  BY <1>1, NothingBacked
<1>3. QED  BY <1>2 DEF OnCourse

\* An attempt begins.
LEMMA BeginKeeps ==
  ASSUME HInv, NEW h \in Heal, Begin(h), UNCHANGED <<scope, patches>>
  PROVE  HInv'
<1>1. file' = file /\ file \in [Path -> Text] /\ scope \subseteq Path
  BY DEF Begin, HInv, Types
<1> DEFINE first == [NoHeal EXCEPT !.at = "reading", !.stage = "autofix", !.todo = scope,
                                   !.before = file]
<1>2. /\ first \in HealRecord /\ first.at = "reading" /\ first.before = file
      /\ first.backup = NoHeal.backup
  BY <1>1, NoHealRecord DEF HealRecord, Places
<1>3. Backed(first) = {}
  BY <1>2, NothingBacked DEF Backed
<1> HIDE DEF first
<1>4. PICK new \in {first, Planning} : Step(h, new)
  BY DEF Begin, first
<1>5. new \in HealRecord /\ new.at \notin {"idle", "ended"} /\ OnCourse(new, alone'[h], file')
  <2>1. CASE new = first
    BY <1>1, <1>2, <1>3, <2>1 DEF OnCourse
  <2>2. CASE new = Planning
    BY <2>2, NoHealRecord, NothingBacked DEF OnCourse, Planning, NoHeal
  <2>3. QED  BY <1>4, <2>1, <2>2
<1>6. Types' /\ AllOnCourse'
  BY <1>1, <1>4, <1>5, StepKeeps, StageTells DEF Begin
<1>7. Counted'
  BY <1>4, <1>5, BeginCounted DEF Begin
<1>8. QED  BY <1>6, <1>7 DEF HInv

\* A path of the scope is backed up before the autofix, or cannot be read.
LEMMA ReadScopeKeeps ==
  ASSUME HInv, NEW h \in Heal, ReadScope(h), UNCHANGED <<scope, patches>>
  PROVE  HInv'
<1> DEFINE r == heal[h]
           p == Current(r)
<1>1. r \in HealRecord /\ r.at = "reading" /\ r.todo # {} /\ OnCourse(r, alone[h], file)
  BY DEF ReadScope, HAt, HInv, Types, AllOnCourse
<1>2. p \in Path
  BY <1>1, CurrentInTodo DEF HealRecord
<1>3. UNCHANGED <<file, attempts, alone, recent, failed>>
  BY DEF ReadScope, Reads, hist
<1>4. PICK s \in {r, Save(r, p)} : Step(h, [s EXCEPT !.todo = @ \ {p}])
  BY DEF ReadScope
<1> HIDE DEF r, p
<1>5. /\ s \in HealRecord /\ s.at = "reading" /\ s.todo = r.todo /\ s.before = r.before
      /\ \A x \in Backed(s) : s.backup[x] = file[x] \/ (x \in Backed(r) /\ s.backup[x] = r.backup[x])
      /\ Backed(s) \subseteq Path
  BY <1>1, <1>2, <1>4, SaveBacksUp DEF HInv, HealRecord, Backed
<1> DEFINE new == [s EXCEPT !.todo = @ \ {p}]
<1>6. /\ new \in HealRecord /\ new.at = "reading" /\ new.before = r.before
      /\ new.backup = s.backup
  BY <1>5 DEF HealRecord
<1>7. Backed(new) = Backed(s)
  BY <1>6 DEF Backed
<1> HIDE DEF new
<1>8. OnCourse(new, alone'[h], file')
  BY <1>1, <1>3, <1>5, <1>6, <1>7 DEF OnCourse
<1>9. Step(h, new)
  BY <1>4 DEF new
<1>10. Types' /\ AllOnCourse'
  BY <1>3, <1>6, <1>8, <1>9, StepKeeps DEF HInv, Types
<1>11. Counted'
  BY <1>3, <1>6, <1>9, GoesOnCounted
<1>12. QED  BY <1>10, <1>11 DEF HInv

\* What a step of an attempt starts from.
LEMMA CourseOf ==
  ASSUME HInv, NEW h \in Heal
  PROVE  /\ heal[h] \in HealRecord /\ OnCourse(heal[h], alone[h], file)
         /\ alone[h] \in BOOLEAN /\ file \in [Path -> Text]
         /\ Backed(heal[h]) \subseteq Path /\ heal[h].todo \subseteq Path
         /\ \A p \in Backed(heal[h]) : heal[h].backup[p] \in Text
<1>1. heal[h] \in HealRecord /\ alone[h] \in BOOLEAN /\ file \in [Path -> Text]
  BY DEF HInv, Types
<1>2. PICK S \in SUBSET Path : heal[h].backup \in [S -> Text]
  BY <1>1 DEF HealRecord
<1>3. QED  BY <1>1, <1>2 DEF HInv, AllOnCourse, HealRecord, Backed

\* A failure hands over to the rollback.
LEMMA GivesUp ==
  ASSUME HInv, NEW h \in Heal, NEW r \in HealRecord, Step(h, Restoring(r)),
         r.backup = heal[h].backup, r.before = heal[h].before,
         heal[h].at \notin {"idle", "planning", "ended"},
         UNCHANGED <<scope, patches, attempts, recent, failed>>,
         file' \in [Path -> Text], alone' \in [Heal -> BOOLEAN], alone'[h] => alone[h],
         \A g \in Heal \ {h} : alone'[g] => alone[g] /\ file' = file
  PROVE  HInv'
<1>1. alone'[h] => \A p \in Backed(r) : r.backup[p] = r.before[p]
  BY CourseOf DEF OnCourse, Backed
<1>2. /\ Restoring(r) \in HealRecord /\ Restoring(r).at = "restoring"
      /\ OnCourse(Restoring(r), alone'[h], file')
  BY <1>1, RestoringStarts
<1>3. Types' /\ AllOnCourse'
  BY <1>2, StepKeeps
<1>4. Counted'
  BY <1>2, GoesOnCounted
<1>5. QED  BY <1>3, <1>4 DEF HInv

\* A new stage begins, with the plan.
LEMMA PlanBegins ==
  ASSUME HInv, NEW h \in Heal, Step(h, Planning), Stage(h),
         UNCHANGED <<scope, patches, file, attempts, recent, failed>>
  PROVE  HInv'
<1>1. Planning \in HealRecord /\ Planning.at = "planning" /\ OnCourse(Planning, TRUE, file')
  BY NoHealRecord, EmptyOnCourse DEF Planning, NoHeal
<1>2. alone' \in [Heal -> BOOLEAN] /\ alone'[h] /\ \A g \in Heal \ {h} : alone'[g] = alone[g]
  BY StageTells
<1>3. OnCourse(Planning, alone'[h], file')
  BY <1>2, EmptyOnCourse
<1>4. Types' /\ AllOnCourse'
  BY <1>1, <1>2, <1>3, StepKeeps DEF HInv, Types
<1>5. Counted'
  BY <1>1, GoesOnCounted
<1>6. QED  BY <1>4, <1>5 DEF HInv

\* An attempt ends without success.
LEMMA FailsKeeps ==
  ASSUME HInv, NEW h \in Heal, Fails(h), UNCHANGED <<scope, patches, attempts>>,
         file' \in [Path -> Text], alone' \in [Heal -> BOOLEAN],
         \A g \in Heal \ {h} : alone'[g] => alone[g] /\ file' = file
  PROVE  HInv'
<1>1. Ended \in HealRecord /\ OnCourse(Ended, alone'[h], file')
  BY NoHealRecord, EmptyOnCourse
<1>2. Types' /\ AllOnCourse'
  BY <1>1, StepKeeps DEF Fails
<1>3. Counted'
  BY FailsCounted
<1>4. QED  BY <1>2, <1>3 DEF HInv

\* The scope is read: the autofix is blocked, or its commands run.
LEMMA ScopeReadKeeps ==
  ASSUME HInv, NEW h \in Heal, ScopeRead(h), UNCHANGED <<scope, patches>>
  PROVE  HInv'
<1>1. CASE Step(h, Planning) /\ Stage(h)
  BY <1>1, PlanBegins DEF ScopeRead
<1>2. CASE Step(h, [heal[h] EXCEPT !.at = "fixing"]) /\ UNCHANGED alone
  <2> DEFINE r   == heal[h]
             new == [r EXCEPT !.at = "fixing"]
  <2>1. r \in HealRecord /\ OnCourse(r, alone[h], file) /\ r.at = "reading"
    BY CourseOf DEF ScopeRead, HAt
  <2> HIDE DEF r
  <2>2. new \in HealRecord /\ new.at = "fixing" /\ new.backup = r.backup /\ new.before = r.before
    BY <2>1 DEF HealRecord, Places
  <2> HIDE DEF new
  <2>3. OnCourse(new, alone[h], file)
    BY <2>1, <2>2 DEF OnCourse, Backed
  <2>4. UNCHANGED <<file, attempts, recent, failed, alone>> /\ Step(h, new)
    BY <1>2 DEF ScopeRead, r, new
  <2>5. Types' /\ AllOnCourse'
    BY <2>2, <2>3, <2>4, StepKeeps DEF HInv, Types
  <2>6. Counted'
    BY <2>2, <2>4, GoesOnCounted
  <2>7. QED  BY <2>5, <2>6 DEF HInv
<1>3. QED  BY <1>1, <1>2 DEF ScopeRead

\* The autofix commands change files in the scope.
LEMMA AutofixKeeps ==
  ASSUME HInv, NEW h \in Heal, Autofix(h), UNCHANGED <<scope, patches>>
  PROVE  HInv'
<1> DEFINE r   == heal[h]
           new == [r EXCEPT !.at = "validating"]
<1>1. /\ r \in HealRecord /\ OnCourse(r, alone[h], file) /\ r.at = "fixing"
      /\ alone[h] \in BOOLEAN /\ file \in [Path -> Text]
  BY CourseOf DEF Autofix, HAt
<1>2. PICK S \in SUBSET scope :
        Writes(h, [p \in Path |-> IF p \in S THEN file[p] \cup {h} ELSE file[p]], alone[h])
  BY DEF Autofix
<1>3. [p \in Path |-> IF p \in S THEN file[p] \cup {h} ELSE file[p]] \in [Path -> Text]
  BY <1>1 DEF Text
<1>4. /\ file' \in [Path -> Text] /\ alone' \in [Heal -> BOOLEAN] /\ alone'[h] = alone[h]
      /\ \A g \in Heal \ {h} : alone'[g] => alone[g] /\ file' = file
  BY <1>1, <1>2, <1>3, WritesTell
<1>5. UNCHANGED <<attempts, recent, failed>>
  BY DEF Autofix
<1>6. CASE Step(h, Restoring(r))
  BY <1>1, <1>4, <1>5, <1>6, GivesUp
<1>7. CASE Step(h, new)
  <2> HIDE DEF r
  <2>1. new \in HealRecord /\ new.at = "validating" /\ new.backup = r.backup /\ new.before = r.before
    BY <1>1 DEF HealRecord, Places
  <2> HIDE DEF new
  <2>2. OnCourse(new, alone'[h], file')
    BY <1>1, <1>4, <2>1 DEF OnCourse, Backed
  <2>3. Types' /\ AllOnCourse'
    BY <1>4, <1>7, <2>1, <2>2, StepKeeps
  <2>4. Counted'
    BY <1>5, <1>7, <2>1, GoesOnCounted
  <2>5. QED  BY <2>3, <2>4 DEF HInv
<1>8. QED  BY <1>6, <1>7 DEF Autofix

\* A plan has operations, or there is nothing to try.
LEMMA PlanKeeps ==
  ASSUME HInv, NEW h \in Heal, Plan(h), UNCHANGED <<scope, patches>>
  PROVE  HInv'
<1>1. /\ alone' \in [Heal -> BOOLEAN] /\ alone'[h] /\ UNCHANGED <<file, attempts>>
      /\ \A g \in Heal \ {h} : alone'[g] = alone[g]
  BY StageTells DEF Plan
<1>2. CASE Fails(h)
  BY <1>1, <1>2, FailsKeeps DEF HInv, Types
<1>3. ASSUME NEW n \in 1 .. patches,
             Step(h, [heal[h] EXCEPT !.at = "backup", !.ops = n, !.before = file]),
             UNCHANGED <<recent, failed>>
      PROVE  HInv'
  <2> DEFINE r   == heal[h]
             new == [r EXCEPT !.at = "backup", !.ops = n, !.before = file]
  <2>1. /\ r \in HealRecord /\ OnCourse(r, alone[h], file) /\ r.at = "planning"
        /\ file \in [Path -> Text]
    BY CourseOf DEF Plan, HAt
  <2>2. n \in 0 .. MaxOps /\ n # 0
    BY DEF HInv, Types
  <2> HIDE DEF r
  <2>3. /\ new \in HealRecord /\ new.at = "backup" /\ new.backup = r.backup
        /\ new.before = file /\ new.ops = n
    BY <2>1, <2>2 DEF HealRecord, Places
  <2>4. Step(h, new)
    BY <1>3 DEF r
  <2> HIDE DEF new
  <2>5. Backed(new) = {}
    BY <2>1, <2>3 DEF OnCourse, Backed
  <2>6. OnCourse(new, alone'[h], file')
    BY <1>1, <2>2, <2>3, <2>5 DEF OnCourse
  <2>7. Types' /\ AllOnCourse'
    BY <1>1, <2>1, <2>3, <2>4, <2>6, StepKeeps
  <2>8. Counted'
    BY <1>1, <1>3, <2>3, <2>4, GoesOnCounted
  <2>9. QED  BY <2>7, <2>8 DEF HInv
<1>4. QED  BY <1>2, <1>3 DEF Plan

\* A path is backed up before its first patch.
LEMMA BackUpKeeps ==
  ASSUME HInv, NEW h \in Heal, BackUp(h), UNCHANGED <<scope, patches>>
  PROVE  HInv'
<1> DEFINE r == heal[h]
<1>1. /\ r \in HealRecord /\ OnCourse(r, alone[h], file) /\ r.at = "backup"
      /\ alone[h] \in BOOLEAN /\ file \in [Path -> Text] /\ scope \subseteq Path
      /\ Backed(r) \subseteq Path
  BY CourseOf DEF BackUp, HAt, HInv, Types
<1>2. UNCHANGED <<file, attempts, alone, recent, failed>> /\ alone \in [Heal -> BOOLEAN]
  BY DEF BackUp, Reads, hist, HInv, Types
<1>3. CASE Step(h, Restoring(r))
  BY <1>1, <1>2, <1>3, GivesUp
<1>4. ASSUME NEW p \in scope,
             Step(h, [(IF p \in Backed(r) THEN r ELSE Save(r, p)) EXCEPT !.at = "patch",
                                                                        !.todo = {p}])
      PROVE  HInv'
  <2> DEFINE s   == IF p \in Backed(r) THEN r ELSE Save(r, p)
             new == [s EXCEPT !.at = "patch", !.todo = {p}]
  <2>1. p \in Path
    BY <1>1
  <2> HIDE DEF r
  <2>2. /\ s \in HealRecord /\ Backed(s) = Backed(r) \cup {p}
        /\ \A x \in Backed(s) : s.backup[x] = r.backup[x] \/ (x \notin Backed(r) /\ s.backup[x] = file[x])
        /\ \A x \in Backed(r) : s.backup[x] = r.backup[x]
        /\ s.ops = r.ops /\ s.before = r.before
    <3>1. CASE p \in Backed(r)
      BY <1>1, <3>1
    <3>2. CASE p \notin Backed(r)
      <4> DEFINE v == Save(r, p)
      <4>1. /\ v \in HealRecord /\ Backed(v) = Backed(r) \cup {p}
            /\ v.backup[p] = file[p]
            /\ \A x \in Backed(r) \ {p} : v.backup[x] = r.backup[x]
            /\ v.ops = r.ops /\ v.before = r.before
        BY <1>1, <2>1, SaveBacksUp DEF HInv
      <4>2. s = v
        BY <3>2
      <4> HIDE DEF v, s
      <4>3. QED  BY <3>2, <4>1, <4>2
    <3>3. QED  BY <3>1, <3>2
  <2> HIDE DEF s
  <2>3. /\ new \in HealRecord /\ new.at = "patch" /\ new.todo = {p} /\ new.backup = s.backup
        /\ new.before = s.before /\ new.ops = s.ops
    BY <2>1, <2>2 DEF HealRecord, Places
  <2>4. Step(h, new)
    BY <1>4 DEF r, s
  <2> HIDE DEF new
  <2>5. Backed(new) = Backed(r) \cup {p}
    BY <2>2, <2>3 DEF Backed
  <2>6. OnCourse(new, alone'[h], file')
    <3>1. new.ops # 0 /\ \E x \in Backed(new) : new.todo = {x}
      BY <1>1, <2>2, <2>3, <2>5 DEF OnCourse
    <3>2. ASSUME alone[h], NEW x \in Backed(new) PROVE new.backup[x] = new.before[x]
      <4>1. s.backup[x] = r.backup[x] \/ (x \in Path \ Backed(r) /\ s.backup[x] = file[x])
        BY <1>1, <2>1, <2>2, <2>5, <3>2
      <4>2. (x \in Backed(r) => r.backup[x] = r.before[x])
            /\ (x \in Path \ Backed(r) => file[x] = r.before[x])
        BY <1>1, <3>2 DEF OnCourse
      <4>3. x \in Backed(r) => s.backup[x] = r.backup[x]
        BY <2>2
      <4>4. x \notin Backed(r) => s.backup[x] = file[x]
        BY <2>2, <2>5, SaveBacksUp, <1>1, <2>1, <3>2 DEF s, HInv
      <4>5. QED  BY <1>1, <2>1, <2>2, <2>3, <2>5, <4>2, <4>3, <4>4
    <3>3. ASSUME alone[h], NEW x \in Path \ Backed(new) PROVE file[x] = new.before[x]
      BY <1>1, <2>2, <2>3, <2>5, <3>3 DEF OnCourse
    <3>4. QED  BY <1>2, <2>3, <3>1, <3>2, <3>3 DEF OnCourse
  <2>7. Types' /\ AllOnCourse'
    BY <1>1, <1>2, <2>3, <2>4, <2>6, StepKeeps
  <2>8. Counted'
    BY <1>2, <2>3, <2>4, GoesOnCounted
  <2>9. QED  BY <2>7, <2>8 DEF HInv
<1>5. QED  BY <1>3, <1>4 DEF BackUp

\* patch_file reads.
LEMMA PatchReadsKeeps ==
  ASSUME HInv, NEW h \in Heal, PatchReads(h), UNCHANGED <<scope, patches>>
  PROVE  HInv'
<1> DEFINE r   == heal[h]
           new == [r EXCEPT !.at = "write", !.held = file[Current(r)]]
<1>1. /\ r \in HealRecord /\ OnCourse(r, alone[h], file) /\ r.at = "patch"
      /\ alone[h] \in BOOLEAN /\ file \in [Path -> Text] /\ r.todo \subseteq Path
  BY CourseOf DEF PatchReads, HAt
<1>2. UNCHANGED <<file, attempts, alone, recent, failed>> /\ alone \in [Heal -> BOOLEAN]
  BY DEF PatchReads, Reads, hist, HInv, Types
<1>3. CASE Step(h, Restoring(r))
  BY <1>1, <1>2, <1>3, GivesUp
<1>4. CASE Step(h, new)
  <2> HIDE DEF r
  <2>1. file[Current(r)] \in Text
    BY <1>1, CurrentInTodo DEF OnCourse
  <2>2. /\ new \in HealRecord /\ new.at = "write" /\ new.todo = r.todo
        /\ new.backup = r.backup /\ new.before = r.before /\ new.ops = r.ops
    BY <1>1, <2>1 DEF HealRecord, Places
  <2> HIDE DEF new
  <2>3. OnCourse(new, alone'[h], file')
    BY <1>1, <1>2, <2>2 DEF OnCourse, Backed
  <2>4. Types' /\ AllOnCourse'
    BY <1>1, <1>2, <1>4, <2>2, <2>3, StepKeeps
  <2>5. Counted'
    BY <1>2, <1>4, <2>2, GoesOnCounted
  <2>6. QED  BY <2>4, <2>5 DEF HInv
<1>5. QED  BY <1>3, <1>4 DEF PatchReads

\* The write that an attempt has under way reaches a path that is backed up.
LEMMA WrittenTypes ==
  ASSUME HInv, NEW h \in Heal, heal[h].todo # {}
  PROVE  /\ Current(heal[h]) \in heal[h].todo
         /\ \A p \in Path \ {Current(heal[h])} : Written(h)[p] = file[p]
         /\ HAt(h, "restoring") =>
              Written(h)[Current(heal[h])] = heal[h].backup[Current(heal[h])]
         /\ HAt(h, "write") \/ Current(heal[h]) \in Backed(heal[h]) => Written(h) \in [Path -> Text]
<1> DEFINE r == heal[h]
           p == Current(r)
           v == IF r.at = "write" THEN r.held \cup {h} ELSE r.backup[p]
<1>1. p \in r.todo /\ p \in Path /\ file \in [Path -> Text]
  BY CourseOf, CurrentInTodo
<1>2. Written(h) = [file EXCEPT ![p] = v]
  BY DEF Written
<1>3. r.at = "write" \/ p \in Backed(r) => v \in Text
  BY CourseOf DEF HealRecord, Text
<1>4. r.at = "restoring" => v = r.backup[p]
  OBVIOUS
<1> HIDE DEF v, p
<1>5. QED  BY <1>1, <1>2, <1>3, <1>4 DEF HAt, p

\* patch_file writes, or refuses to.
LEMMA PatchWritesKeeps ==
  ASSUME HInv, NEW h \in Heal, PatchWrites(h), UNCHANGED <<scope, patches>>
  PROVE  HInv'
<1> DEFINE o == heal[h]
           r == [o EXCEPT !.todo = {}, !.held = {}]
           place == IF r.ops = 1 THEN "validating" ELSE "backup"
           new == [r EXCEPT !.at = place, !.ops = @ - 1]
<1>1. /\ o \in HealRecord /\ OnCourse(o, alone[h], file) /\ o.at = "write"
      /\ alone[h] \in BOOLEAN /\ file \in [Path -> Text]
  BY CourseOf DEF PatchWrites, HAt
<1>2. UNCHANGED <<attempts, recent, failed>> /\ alone \in [Heal -> BOOLEAN]
  BY DEF PatchWrites, HInv, Types
<1>3. /\ r \in HealRecord /\ r.backup = o.backup /\ r.before = o.before /\ r.ops = o.ops
      /\ r.at = o.at
  BY <1>1 DEF HealRecord, Text
<1>4. CASE Step(h, Restoring(r)) /\ UNCHANGED <<file, alone>>
  BY <1>1, <1>2, <1>3, <1>4, GivesUp
<1>5. CASE Writes(h, Written(h), alone[h]) /\ Step(h, new)
  <2>1. PICK p \in Backed(o) : o.todo = {p}
    BY <1>1 DEF OnCourse
  <2>2. /\ Written(h) \in [Path -> Text]
        /\ \A x \in Path \ {p} : Written(h)[x] = file[x]
    BY <1>1, <2>1, WrittenTypes DEF HAt
  <2>3. /\ file' = Written(h) /\ alone' \in [Heal -> BOOLEAN] /\ alone'[h] = alone[h]
        /\ \A g \in Heal \ {h} : alone'[g] => alone[g] /\ file' = file
    BY <1>1, <1>5, <2>2, WritesTell
  <2>4. r.ops \in 1 .. MaxOps /\ r.ops - 1 \in 0 .. MaxOps /\ (r.ops - 1 = 0 <=> r.ops = 1)
    BY <1>1, <1>3 DEF HealRecord, OnCourse
  <2>5. place \in {"validating", "backup"} /\ (place = "backup" => r.ops # 1)
    OBVIOUS
  <2> DEFINE m == r.ops - 1
  <2> HIDE DEF r, o, place
  <2>6. m \in 0 .. MaxOps /\ (place = "backup" => m # 0)
    BY <2>4, <2>5
  <2> HIDE DEF m
  <2>7. new = [r EXCEPT !.at = place, !.ops = m]
    BY DEF m
  <2>8. /\ new \in HealRecord /\ new.at = place /\ new.ops = m /\ new.backup = r.backup
        /\ new.before = r.before
    BY <1>3, <2>5, <2>6, <2>7 DEF HealRecord, Places
  <2> HIDE DEF new
  <2>9. OnCourse(new, alone'[h], file')
    BY <1>1, <1>3, <2>1, <2>2, <2>3, <2>5, <2>6, <2>8 DEF OnCourse, Backed
  <2>10. Types' /\ AllOnCourse'
    BY <1>5, <2>2, <2>3, <2>8, <2>9, StepKeeps
  <2>11. Counted'
    BY <1>2, <1>5, <2>5, <2>8, GoesOnCounted
  <2>12. QED  BY <2>10, <2>11 DEF HInv
<1>6. QED  BY <1>4, <1>5 DEF PatchWrites

\* Validation succeeds, and the counter is forgotten, or fails.
LEMMA ValidateKeeps ==
  ASSUME HInv, NEW h \in Heal, Validate(h), UNCHANGED <<scope, patches>>
  PROVE  HInv'
<1>1. /\ heal[h] \in HealRecord /\ heal[h].at = "validating"
      /\ UNCHANGED <<file, alone>> /\ file \in [Path -> Text] /\ alone \in [Heal -> BOOLEAN]
  BY CourseOf DEF Validate, HAt, HInv, Types
<1>2. CASE Step(h, Restoring(heal[h])) /\ UNCHANGED <<attempts, recent, failed>>
  BY <1>1, <1>2, GivesUp
<1>3. CASE Step(h, Ended) /\ attempts' = 0 /\ recent' = [g \in Heal |-> FALSE] /\ failed' = 0
  <2>1. Ended \in HealRecord /\ OnCourse(Ended, alone'[h], file')
    BY <1>1, NoHealRecord, EmptyOnCourse
  <2>2. Types' /\ AllOnCourse'
    BY <1>1, <1>3, <2>1, StepKeeps
  <2>3. Counted'
    BY <1>3, SuccessCounted
  <2>4. QED  BY <2>2, <2>3 DEF HInv
<1>4. QED  BY <1>2, <1>3 DEF Validate

\* One path is restored, or its write fails unseen.
LEMMA RestoreKeeps ==
  ASSUME HInv, NEW h \in Heal, Restore(h), UNCHANGED <<scope, patches>>
  PROVE  HInv'
<1> DEFINE r   == heal[h]
           p   == Current(r)
           new == [r EXCEPT !.todo = @ \ {p}]
<1>1. /\ r \in HealRecord /\ OnCourse(r, alone[h], file) /\ r.at = "restoring" /\ r.todo # {}
      /\ alone[h] \in BOOLEAN /\ file \in [Path -> Text] /\ Backed(r) \subseteq Path
  BY CourseOf DEF Restore, HAt
<1>2. UNCHANGED <<attempts, recent, failed>> /\ Step(h, new)
  BY DEF Restore
<1>3. /\ p \in r.todo /\ Written(h)[p] = r.backup[p]
      /\ \A x \in Path \ {p} : Written(h)[x] = file[x]
      /\ p \in Backed(r) => Written(h) \in [Path -> Text]
  BY <1>1, WrittenTypes DEF HAt
<1>4. p \in Backed(r)
  BY <1>1, <1>3 DEF OnCourse
<1>5. /\ file' \in [Path -> Text] /\ alone' \in [Heal -> BOOLEAN]
      /\ \A g \in Heal \ {h} : alone'[g] => alone[g] /\ file' = file
      /\ alone'[h] => alone[h] /\ file' = Written(h)
  <2>1. CASE Writes(h, Written(h), alone[h])
    BY <1>1, <1>3, <1>4, <2>1, WritesTell
  <2>2. CASE Writes(h, file, FALSE)
    BY <1>1, <2>2, WritesTell
  <2>3. QED  BY <2>1, <2>2 DEF Restore
<1> HIDE DEF p, r
<1>6. /\ new \in HealRecord /\ new.at = "restoring" /\ new.todo = r.todo \ {p}
      /\ new.backup = r.backup /\ new.before = r.before
  BY <1>1 DEF HealRecord
<1> HIDE DEF new
<1>7. OnCourse(new, alone'[h], file')
  BY <1>1, <1>3, <1>4, <1>5, <1>6 DEF OnCourse, Backed
<1>8. Types' /\ AllOnCourse'
  BY <1>2, <1>5, <1>6, <1>7, StepKeeps
<1>9. Counted'
  BY <1>2, <1>6, GoesOnCounted
<1>10. QED  BY <1>8, <1>9 DEF HInv

\* The rollback is over.
LEMMA RestoredKeeps ==
  ASSUME HInv, NEW h \in Heal, Restored(h), UNCHANGED <<scope, patches>>
  PROVE  HInv'
<1>1. CASE Fails(h) /\ UNCHANGED alone
  BY <1>1, FailsKeeps DEF Restored, HInv, Types
<1>2. CASE Step(h, Planning) /\ Stage(h) /\ UNCHANGED <<recent, failed>>
  BY <1>2, PlanBegins DEF Restored
<1>3. QED  BY <1>1, <1>2 DEF Restored

\* The attempt is cancelled; a write it has under way takes effect.
LEMMA CancelledKeeps ==
  ASSUME HInv, NEW h \in Heal, Cancelled(h), UNCHANGED <<scope, patches>>
  PROVE  HInv'
<1>1. Fails(h) /\ attempts' = attempts /\ file \in [Path -> Text] /\ alone \in [Heal -> BOOLEAN]
  BY DEF Cancelled, HInv, Types
<1>2. CASE heal[h].at \in {"write", "restoring"} /\ heal[h].todo # {}
  <2>1. Current(heal[h]) \in Backed(heal[h]) \/ HAt(h, "write")
    BY <1>2, CourseOf, WrittenTypes DEF OnCourse, HAt
  <2>2. Written(h) \in [Path -> Text] /\ Writes(h, Written(h), alone[h])
    BY <1>2, <2>1, WrittenTypes DEF Cancelled
  <2>3. QED  BY <1>1, <2>2, WritesTell, CourseOf, FailsKeeps
<1>3. CASE ~(heal[h].at \in {"write", "restoring"} /\ heal[h].todo # {})
  BY <1>1, <1>3, FailsKeeps DEF Cancelled
<1>4. QED  BY <1>2, <1>3

-----------------------------------------------------------------------------
(* The theorems. *)

LEMMA HInitInv == HInit => HInv
<1> SUFFICES ASSUME HInit PROVE HInv
  OBVIOUS
<1>1. /\ heal = [h \in Heal |-> NoHeal] /\ alone = [h \in Heal |-> TRUE]
      /\ file = [p \in Path |-> {}] /\ recent = [h \in Heal |-> FALSE]
      /\ attempts = 0 /\ failed = 0 /\ scope \subseteq Path /\ patches \in 1 .. MaxOps
  BY DEF HInit
<1>2. Types
  BY <1>1, NoHealRecord DEF Types, Text
<1>3. AllOnCourse
  BY <1>1, EmptyOnCourse DEF AllOnCourse
<1>4. Recent = {} /\ Cardinality({}) = 0
  BY <1>1, FS_EmptySet DEF Recent
<1>5. Counted
  BY <1>1, <1>4 DEF Counted
<1>6. QED  BY <1>2, <1>3, <1>5 DEF HInv

LEMMA HNextInv == HInv /\ [HNext]_hvars => HInv'
<1> SUFFICES ASSUME HInv, [HNext]_hvars PROVE HInv'
  OBVIOUS
<1>1. ASSUME NEW h \in Heal, HStep(h) PROVE HInv'
  BY <1>1, BeginKeeps, ReadScopeKeeps, ScopeReadKeeps, AutofixKeeps, PlanKeeps, BackUpKeeps,
     PatchReadsKeeps, PatchWritesKeeps, ValidateKeeps, RestoreKeeps, RestoredKeeps,
     CancelledKeeps DEF HStep, Go
<1>2. CASE UNCHANGED hvars
  BY <1>2 DEF hvars, hist, HInv, Types, AllOnCourse, OnCourse, Backed, Counted, Recent
<1>3. QED  BY <1>1, <1>2 DEF HNext

LEMMA HSpecInv == HSpec => []HInv
<1>1. QED  BY HInitInv, HNextInv, PTL DEF HSpec

\* The type invariant.
THEOREM HealTypes == HSpec => []HTypeOK
<1>1. ASSUME HInv, NEW h \in Heal
      PROVE  /\ heal[h] \in HealRecord /\ Backed(heal[h]) \subseteq Path
             /\ \A p \in Backed(heal[h]) : heal[h].backup[p] \in Text
  BY <1>1, CourseOf
<1>2. HInv => HTypeOK
  BY <1>1 DEF HInv, Types, Counted, HealRecord, Places, HTypeOK
<1>3. QED  BY <1>2, HSpecInv, PTL

\* At the end of a rollback that nobody disturbed every file an attempt has
\* backed up has the text it had when the stage began, whichever files the
\* attempt patched and how often: a path's backup is taken before its first
\* change, and never again (execute_self_heal_plan, execute_mechanical_autofix,
\* restore_self_heal_backups).
THEOREM RollbackWorks == HSpec => []RollbackRestores
<1>1. HInv => RollbackRestores
  BY DEF HInv, AllOnCourse, OnCourse, RollbackRestores, HAt
<1>2. QED  BY <1>1, HSpecInv, PTL

\* The attempts that run and those that have failed since the last success are
\* together no more than max_auto_attempts: the counter is raised before
\* anything is awaited (attempt_autonomous_self_heal), so that it counts each
\* of them exactly once.
THEOREM AttemptsLimited == HSpec => []AttemptsBounded
<1>1. HInv => AttemptsBounded
  BY DEF HInv, Counted, Recent, AttemptsBounded
<1>2. QED  BY <1>1, HSpecInv, PTL

-----------------------------------------------------------------------------
(* Both at once. *)

LEMMA WorkOfEachKind == Spec => NSpec /\ HSpec
<1>1. Init => NInit /\ HInit
  BY DEF Init
<1>2. [Next]_vars => [NNext]_nvars /\ [HNext]_hvars
  BY FirstAssumption DEF Next, vars, nvars, hvars, hist, HNext
<1>3. QED  BY <1>1, <1>2, PTL DEF Spec, NSpec, HSpec

\* Pods that maintain the memory and attempts to heal files are well typed
\* whichever of them go on.
THEOREM MaintenanceTypes == Spec => []TypeOK
<1>1. NTypeOK /\ HTypeOK <=> TypeOK
  BY DEF TypeOK
<1>2. QED  BY <1>1, WorkOfEachKind, NightlyTypes, HealTypes, PTL
=============================================================================
