------------------------------ MODULE SelfHeal ------------------------------
(***************************************************************************)
(* Concurrent self-heal attempts for one failing revision                  *)
(* (agent/self_heal/orchestrator.py and executor.py): the attempt counter, *)
(* the mechanical autofix, the plan's patches, validation and rollback.    *)
(*                                                                         *)
(* File operations run in threads and take effect one by one.  The text of *)
(* a file is known by the attempts whose changes it holds; what a model    *)
(* proposes is any list of paths in scope.                                 *)
(***************************************************************************)
EXTENDS Naturals, FiniteSets
CONSTANTS
  Heal,        \* attempts, each started by a trigger of its own
  Path,        \* files
  MaxOps,      \* bound of SELF_HEAL_MAX_PATCHES
  MaxAttempts  \* max_auto_attempts

\* A text, by the attempts that have changed it.
Text == SUBSET Heal

ASSUME SelfHealAssumption ==
  /\ MaxOps \in Nat \ {0} /\ MaxAttempts \in Nat \ {0}
  /\ IsFiniteSet(Heal)

VARIABLES
  scope,    \* scope_paths of the remediation loop
  patches,  \* SELF_HEAL_MAX_PATCHES
  file,     \* the text of each path
  attempts, \* _self_heal_attempts of the revision
  heal,     \* the course of each attempt
  alone,    \* history: since its stage began, has nobody else written, no restoring failed?
  recent,   \* history: was it begun after the last success?
  failed    \* history: how many of these have ended without success

hist  == <<alone, recent, failed>>
hvars == <<scope, patches, file, attempts, heal, hist>>

NoHeal == [at |-> "idle", stage |-> "none", ops |-> 0, todo |-> {}, backup |-> <<>>, held |-> {},
           before |-> <<>>]  \* before: history, the files when its current stage began

HInit ==
  /\ scope \in (SUBSET Path) \ {{}} /\ patches \in 1 .. MaxOps
  /\ file = [p \in Path |-> {}]
  /\ attempts = 0
  /\ heal = [h \in Heal |-> NoHeal]
  /\ alone = [h \in Heal |-> TRUE]
  /\ recent = [h \in Heal |-> FALSE]
  /\ failed = 0

-----------------------------------------------------------------------------
HAt(h, place) == heal[h].at = place
Step(h, new)  == heal' = [heal EXCEPT ![h] = new]
Current(r)    == CHOOSE p \in r.todo : TRUE  \* the path it works on
Backed(r)     == DOMAIN r.backup
Save(r, p)    == [r EXCEPT !.backup = [x \in Backed(r) \cup {p} |-> IF x = p THEN file[p] ELSE @[x]]]

\* A stage of h begins; someone else's write ends what h had for itself.
Stage(h)   == alone' = [alone EXCEPT ![h] = TRUE]
Writes(h, new, ok) ==
  /\ file' = new
  /\ alone' = [g \in Heal |-> alone[g] /\ IF g = h THEN ok ELSE new = file]
Reads      == UNCHANGED <<file, attempts, hist>>

\* What follows a failure: restore_self_heal_backups, path by path.
Restoring(r) == [r EXCEPT !.at = "restoring", !.todo = Backed(r)]
Planning     == [NoHeal EXCEPT !.at = "planning", !.stage = "plan"]
Ended        == [NoHeal EXCEPT !.at = "ended"]

\* The attempt is over without success; the counter stays.
Fails(h) ==
  /\ Step(h, Ended)
  /\ failed' = IF recent[h] THEN failed + 1 ELSE failed
  /\ recent' = [recent EXCEPT ![h] = FALSE]

-----------------------------------------------------------------------------
\* A mutation of Begin: an attempt is counted by what has failed so far.
BeginUncounted(h) ==
  /\ heal[h].at \in {"idle", "ended"}
  /\ failed < MaxAttempts
  /\ UNCHANGED attempts
  /\ recent' = [recent EXCEPT ![h] = TRUE]
  /\ \/ Step(h, [NoHeal EXCEPT !.at = "reading", !.stage = "autofix", !.todo = scope,
                                !.before = file])
     \/ Step(h, Planning)
  /\ Stage(h)
  /\ UNCHANGED <<file, failed>>

\* A mutation of Begin: the limit itself is let through.
BeginOnceMore(h) ==
  /\ heal[h].at \in {"idle", "ended"}
  /\ attempts <= MaxAttempts
  /\ attempts' = attempts + 1
  /\ recent' = [recent EXCEPT ![h] = TRUE]
  /\ \/ Step(h, [NoHeal EXCEPT !.at = "reading", !.stage = "autofix", !.todo = scope,
                                !.before = file])
     \/ Step(h, Planning)
  /\ Stage(h)
  /\ UNCHANGED <<file, failed>>

\* attempt_autonomous_self_heal: enabled, planned and approved, it is counted
\* before anything is tried; without autofix commands the plan comes at once.
Begin(h) ==
  /\ heal[h].at \in {"idle", "ended"}
  /\ attempts < MaxAttempts
  /\ attempts' = attempts + 1
  /\ recent' = [recent EXCEPT ![h] = TRUE]
  /\ \/ Step(h, [NoHeal EXCEPT !.at = "reading", !.stage = "autofix", !.todo = scope,
                                !.before = file])
     \/ Step(h, Planning)
  /\ Stage(h)
  /\ UNCHANGED <<file, failed>>

\* execute_mechanical_autofix backs up what it can read, or is blocked.
ReadScope(h) ==
  /\ HAt(h, "reading") /\ heal[h].todo # {}
  /\ LET p == Current(heal[h])
     IN  \E r \in {heal[h], Save(heal[h], p)} : Step(h, [r EXCEPT !.todo = @ \ {p}])
  /\ Reads

ScopeRead(h) ==
  /\ HAt(h, "reading") /\ heal[h].todo = {}
  /\ IF Backed(heal[h]) = {}
     THEN Step(h, Planning) /\ Stage(h)
     ELSE Step(h, [heal[h] EXCEPT !.at = "fixing"]) /\ UNCHANGED alone
  /\ UNCHANGED <<file, attempts, recent, failed>>

\* An autofix command changes files in scope, whether it succeeds or fails.
Autofix(h) ==
  /\ HAt(h, "fixing")
  /\ \E S \in SUBSET scope :
       Writes(h, [p \in Path |-> IF p \in S THEN file[p] \cup {h} ELSE file[p]], alone[h])
  /\ \/ Step(h, [heal[h] EXCEPT !.at = "validating"])
     \/ Step(h, Restoring(heal[h]))
  /\ UNCHANGED <<attempts, recent, failed>>

\* _build_self_heal_plan: no operations, or some.
Plan(h) ==
  /\ HAt(h, "planning")
  /\ \/ Fails(h)
     \/ /\ \E n \in 1 .. patches :
             Step(h, [heal[h] EXCEPT !.at = "backup", !.ops = n, !.before = file])
        /\ UNCHANGED <<recent, failed>>
  /\ Stage(h)
  /\ UNCHANGED <<file, attempts>>

\* A mutation of BackUp: every operation takes a backup.
BackUpAgain(h) ==
  /\ HAt(h, "backup")
  /\ LET r == heal[h]
     IN  \/ \E p \in scope : Step(h, [Save(r, p) EXCEPT !.at = "patch", !.todo = {p}])
         \/ Step(h, Restoring(r))
  /\ Reads

\* execute_self_heal_plan: a path is backed up before its first patch.
BackUp(h) ==
  /\ HAt(h, "backup")
  /\ LET r == heal[h]
     IN  \/ \E p \in scope :
              Step(h, [(IF p \in Backed(r) THEN r ELSE Save(r, p)) EXCEPT !.at = "patch", !.todo = {p}])
         \/ scope \ Backed(r) # {} /\ Step(h, Restoring(r))
  /\ Reads

\* patch_file reads the text, in which the block occurs once or not...
PatchReads(h) ==
  /\ HAt(h, "patch")
  /\ \/ Step(h, [heal[h] EXCEPT !.at = "write", !.held = file[Current(heal[h])]])
     \/ Step(h, Restoring(heal[h]))
  /\ Reads

\* The files once the write that h has under way has taken effect.
Written(h) ==
  LET r == heal[h]
      p == Current(r)
  IN  [file EXCEPT ![p] = IF r.at = "write" THEN r.held \cup {h} ELSE r.backup[p]]

\* ...and writes it with the replacement, or refuses to.
PatchWrites(h) ==
  /\ HAt(h, "write")
  /\ LET r == [heal[h] EXCEPT !.todo = {}, !.held = {}]
     IN  \/ /\ Writes(h, Written(h), alone[h])
            /\ Step(h, [r EXCEPT !.at = IF r.ops = 1 THEN "validating" ELSE "backup",
                                 !.ops = @ - 1])
         \/ Step(h, Restoring(r)) /\ UNCHANGED <<file, alone>>
  /\ UNCHANGED <<attempts, recent, failed>>

\* All validation commands pass and the counter is forgotten; or one fails.
Validate(h) ==
  /\ HAt(h, "validating")
  /\ \/ /\ Step(h, Ended)
        /\ attempts' = 0
        /\ recent' = [g \in Heal |-> FALSE]
        /\ failed' = 0
     \/ Step(h, Restoring(heal[h])) /\ UNCHANGED <<attempts, recent, failed>>
  /\ UNCHANGED <<file, alone>>

\* One path is restored; whether the write has succeeded is not looked at.
Restore(h) ==
  /\ HAt(h, "restoring") /\ heal[h].todo # {}
  /\ Step(h, [heal[h] EXCEPT !.todo = @ \ {Current(heal[h])}])
  /\ Writes(h, Written(h), alone[h]) \/ Writes(h, file, FALSE)
  /\ UNCHANGED <<attempts, recent, failed>>

\* A mutation of Restored: the rollback is over when the files are as they were.
RestoredForSure(h) ==
  /\ HAt(h, "restoring") /\ heal[h].todo = {} /\ alone[h]
  /\ IF heal[h].stage = "plan"
     THEN Fails(h) /\ UNCHANGED alone
     ELSE Step(h, Planning) /\ Stage(h) /\ UNCHANGED <<recent, failed>>
  /\ UNCHANGED <<file, attempts>>

\* After a mechanical autofix the plan is tried, after a plan nothing more.
Restored(h) ==
  /\ HAt(h, "restoring") /\ heal[h].todo = {}
  /\ IF heal[h].stage = "plan"
     THEN Fails(h) /\ UNCHANGED alone
     ELSE Step(h, Planning) /\ Stage(h) /\ UNCHANGED <<recent, failed>>
  /\ UNCHANGED <<file, attempts>>

\* The attempt is cancelled: CancelledError is no Exception, nothing is restored,
\* and a write that a thread has under way takes effect.
Cancelled(h) ==
  /\ heal[h].at \notin {"idle", "ended"}
  /\ Fails(h)
  /\ IF heal[h].at \in {"write", "restoring"} /\ heal[h].todo # {}
     THEN Writes(h, Written(h), alone[h])
     ELSE UNCHANGED <<file, alone>>
  /\ UNCHANGED attempts

Go(h) ==
  \/ ReadScope(h) \/ ScopeRead(h) \/ Autofix(h) \/ Plan(h) \/ BackUp(h) \/ PatchReads(h)
  \/ PatchWrites(h) \/ Validate(h) \/ Restore(h) \/ Restored(h)

HStep(h) == (Begin(h) \/ Go(h) \/ Cancelled(h)) /\ UNCHANGED <<scope, patches>>

HNext == \E h \in Heal : HStep(h)

HSpec == HInit /\ [][HNext]_hvars

-----------------------------------------------------------------------------
HTypeOK ==
  /\ scope \subseteq Path /\ patches \in 1 .. MaxOps
  /\ file \in [Path -> Text]
  /\ attempts \in 0 .. MaxAttempts
  /\ \A h \in Heal :
       /\ heal[h].at \in {"idle", "reading", "fixing", "planning", "backup", "patch", "write",
                          "validating", "restoring", "ended"}
       /\ heal[h].stage \in {"none", "autofix", "plan"}
       /\ heal[h].ops \in 0 .. MaxOps
       /\ heal[h].todo \subseteq Path
       /\ Backed(heal[h]) \subseteq Path
       /\ \A p \in Backed(heal[h]) : heal[h].backup[p] \in Text
       /\ heal[h].held \in Text
       /\ heal[h].before \in [Path -> Text] \cup {<<>>}
  /\ alone \in [Heal -> BOOLEAN] /\ recent \in [Heal -> BOOLEAN]
  /\ failed \in Nat

\* At the end of a rollback every backed-up file has the text it had before the
\* stage, however many patches it was given, if nobody else wrote meanwhile and
\* the restoring writes succeeded.
RollbackRestores ==
  \A h \in Heal :
    HAt(h, "restoring") /\ heal[h].todo = {} /\ alone[h] =>
      \A p \in Backed(heal[h]) : file[p] = heal[h].before[p]

\* Overlapping attempts included, no more than max_auto_attempts of those begun
\* after the last success run, or have failed, until one of them succeeds.
AttemptsBounded ==
  failed + Cardinality({h \in Heal : recent[h]}) <= MaxAttempts
=============================================================================
