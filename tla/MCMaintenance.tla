--------------------------- MODULE MCMaintenance ---------------------------
(* Instances of NightlyMaintenance and SelfHeal for TLC.  The two share    *)
(* nothing, so that each behaviour is one of a single part: the pods'      *)
(* maintenance, one attempt after another on all files, or overlapping     *)
(* attempts at one patch of one file.                                      *)
EXTENDS NightlyMaintenance, SelfHeal
CONSTANT First  \* the attempt that is made alone

ASSUME FirstAssumption == First \in Heal

VARIABLE part

vars == <<nvars, hvars, part>>

Init ==
  /\ NInit /\ HInit
  /\ part \in {"nightly", "alone", "overlap"}
  /\ IF part = "overlap" THEN scope = {CHOOSE p \in Path : TRUE} /\ patches = 1
                         ELSE scope = Path /\ patches = MaxOps

Next ==
  \/ part = "nightly" /\ NNext /\ UNCHANGED <<hvars, part>>
  \/ part = "alone" /\ HStep(First) /\ UNCHANGED <<nvars, part>>
  \/ part = "overlap" /\ HNext /\ UNCHANGED <<nvars, part>>

\* The event loop and its threads take the next step of every attempt.
Fairness ==
  \A h \in Heal :
    WF_vars(part # "nightly" /\ Go(h) /\ UNCHANGED <<scope, patches, nvars, part>>)

Spec == Init /\ [][Next]_vars /\ Fairness

TypeOK == NTypeOK /\ HTypeOK

\* Every attempt ends, even if none of the writes of its rollback succeeds.
HealEnds == \A h \in Heal : heal[h].at \notin {"idle", "ended"} ~> heal[h].at = "ended"
=============================================================================
