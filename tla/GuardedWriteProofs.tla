------------------------- MODULE GuardedWriteProofs -------------------------
(***************************************************************************)
(* Theorems about GuardedWrite, for every set of writers and operators and *)
(* every store and timeout of the gate they share.                         *)
(***************************************************************************)
EXTENDS GuardedWrite, HitlGateProofs

USE AuthorAssumption

\* Whoever overwrites a file it has seen was let through by the gate.
OverwriterGranted ==
  \A w \in Caller :
    at[w] \in {"write", "written", "failed"} /\ seen[w] => pc[w] = "granted"

\* The text of a writer is nowhere but in its own hands until it has written.
Landed(w) == at[w] \in {"written", "failed"}
UnwrittenTextApart ==
  \A w \in Caller :
    ~Landed(w) => /\ w \notin file
                  /\ \A v \in Caller \ {w} : w \notin text[v]

\* The inductive invariant: that of the gate, and these two.
WInv == IInv /\ WTypeOK /\ OverwriterGranted /\ UnwrittenTextApart

-----------------------------------------------------------------------------
\* A grant is for ever.
LEMMA GrantStays ==
  ASSUME IInv, [Next]_vars, NEW c \in Caller, pc[c] = "granted"
  PROVE  pc'[c] = "granted"
<1>1. ASSUME NEW r \in Request, Create(r)
      PROVE  pc'[c] = "granted"
  BY <1>1 DEF Create, IInv, TypeOK, Request
<1>2. ASSUME NEW d \in Caller, Bypass(d) \/ Poll(d) \/ GiveUp(d)
      PROVE  pc'[c] = "granted"
  BY <1>2 DEF Bypass, Poll, GiveUp, Return, Due, IInv, TypeOK, Request
<1>3. ASSUME NEW r \in Request, Notified(r)
      PROVE  pc'[c] = "granted"
  BY <1>3 DEF Notified, Return, IInv, TypeOK, Request
<1>4. CASE UNCHANGED pc
  BY <1>4
<1>5. QED
  BY <1>1, <1>2, <1>3, <1>4
     DEF Next, RequestApproval, CreateRequest, Respond, Pending, Tick, vars, Request

\* Every step of the writers is a step of the gate or leaves the gate alone.
LEMMA GateOfWriters ==
  ASSUME [WNext]_gvars
  PROVE  [Next]_vars
<1>1. ASSUME NEW w \in Caller, AskApproval(w)
      PROVE  Next
  BY <1>1 DEF AskApproval, Next
<1>2. CASE GateStep
  BY <1>2 DEF GateStep, Next
<1>3. QED
  BY <1>1, <1>2 DEF WNext, ReadForPatch, CheckExists, CompareContent, Answered, WriteFile,
     OtherWrites, gvars

\* A writer goes on without a grant it did not have, the file as it is.
LEMMA GoesOn ==
  ASSUME WInv, [Next]_vars, NEW w \in Caller,
         NEW place \in {"compare", "ask", "wait", "write", "write_file", "skipped", "denied", "refused"},
         Goto(w, place), ~Landed(w), text' = text, seen' \in [Caller -> BOOLEAN],
         \A v \in Caller \ {w} : seen'[v] = seen[v],
         place = "write" => ~seen'[w] \/ pc'[w] = "granted"
  PROVE  WTypeOK' /\ OverwriterGranted' /\ UnwrittenTextApart'
<1>1. WTypeOK'
  BY DEF Goto, WInv, WTypeOK
<1>2. OverwriterGranted'
  <2> SUFFICES ASSUME NEW v \in Caller, at'[v] \in {"write", "written", "failed"}, seen'[v]
               PROVE  pc'[v] = "granted"
    BY DEF OverwriterGranted
  <2>1. CASE v = w
    BY <2>1 DEF Goto, WInv, WTypeOK
  <2>2. CASE v # w
    BY <2>2, GrantStays DEF Goto, WInv, WTypeOK, OverwriterGranted
  <2>3. QED  BY <2>1, <2>2
<1>3. UnwrittenTextApart'
  BY DEF Goto, WInv, WTypeOK, UnwrittenTextApart, Landed
<1>4. QED  BY <1>1, <1>2, <1>3

\* Steps that no writer takes.
LEMMA WritersWait ==
  ASSUME WInv, [Next]_vars, UNCHANGED <<writable, text, at, seen>>,
         file' \in Text \cup {Absent}, file' \subseteq file \cup {Other}
  PROVE  WTypeOK' /\ OverwriterGranted' /\ UnwrittenTextApart'
<1>1. WTypeOK'
  BY DEF WInv, WTypeOK
<1>2. OverwriterGranted'
  BY GrantStays DEF WInv, OverwriterGranted
<1>3. UnwrittenTextApart'
  BY DEF WInv, UnwrittenTextApart, Landed
<1>4. QED  BY <1>1, <1>2, <1>3

LEMMA ReadForPatchKeeps ==
  ASSUME WInv, [Next]_vars, NEW w \in Caller, ReadForPatch(w)
  PROVE  WTypeOK' /\ OverwriterGranted' /\ UnwrittenTextApart'
<1>1. at[w] = "patch_file" /\ ~Landed(w)
  BY DEF ReadForPatch, Landed
<1>2. CASE Goto(w, "denied") /\ UNCHANGED text
  BY <1>1, <1>2, GoesOn DEF ReadForPatch, WInv, WTypeOK
<1>3. CASE file # Absent /\ text' = [text EXCEPT ![w] = file \cup {w}] /\ Goto(w, "write_file")
  <2>1. seen' = seen /\ at' = [at EXCEPT ![w] = "write_file"] /\ UNCHANGED <<file, writable>>
    BY <1>3 DEF ReadForPatch, Goto
  <2>2. WTypeOK'
    <3>1. file \cup {w} \in Text
      BY <1>3 DEF WInv, WTypeOK, Text
    <3>2. QED  BY <1>3, <2>1, <3>1 DEF WInv, WTypeOK
  <2>3. OverwriterGranted'
    <3> SUFFICES ASSUME NEW v \in Caller, at'[v] \in {"write", "written", "failed"}, seen'[v]
                 PROVE  pc'[v] = "granted"
      BY DEF OverwriterGranted
    <3>1. at[v] \in {"write", "written", "failed"} /\ seen[v]
      BY <2>1 DEF WInv, WTypeOK
    <3>2. QED  BY <3>1, GrantStays DEF WInv, OverwriterGranted
  <2>4. UnwrittenTextApart'
    <3> SUFFICES ASSUME NEW u \in Caller, ~Landed(u)'
                 PROVE  u \notin file' /\ \A v \in Caller \ {u} : u \notin text'[v]
      BY DEF UnwrittenTextApart
    <3>1. ~Landed(u)
      BY <1>1, <2>1 DEF Landed, WInv, WTypeOK
    <3>2. u \notin file /\ \A v \in Caller \ {u} : u \notin text[v]
      BY <3>1 DEF WInv, UnwrittenTextApart
    <3>3. \A v \in Caller : text'[v] = text[v] \/ (v = w /\ text'[v] = file \cup {w})
      BY <1>3 DEF WInv, WTypeOK
    <3>4. QED  BY <2>1, <3>2, <3>3
  <2>5. QED  BY <2>2, <2>3, <2>4
<1>4. QED  BY <1>2, <1>3 DEF ReadForPatch

LEMMA CheckExistsKeeps ==
  ASSUME WInv, [Next]_vars, NEW w \in Caller, CheckExists(w)
  PROVE  WTypeOK' /\ OverwriterGranted' /\ UnwrittenTextApart'
<1> DEFINE place == CASE file = Absent              -> "write"
                  [] file # Absent /\ writable -> "compare"
                  [] OTHER                     -> "ask"
<1>1. ~Landed(w) /\ text' = text /\ Goto(w, place) /\ seen' = [seen EXCEPT ![w] = file # Absent]
  BY DEF CheckExists, Landed
<1>2. place \in {"write", "compare", "ask"} /\ (place = "write" => file = Absent)
  OBVIOUS
<1> HIDE DEF place
<1>3. /\ seen' \in [Caller -> BOOLEAN] /\ \A v \in Caller \ {w} : seen'[v] = seen[v]
      /\ seen'[w] <=> file # Absent
  BY <1>1, Zenon DEF WInv, WTypeOK
<1>4. QED  BY <1>1, <1>2, <1>3, GoesOn

LEMMA WriteFileKeeps ==
  ASSUME WInv, [Next]_vars, NEW w \in Caller, WriteFile(w)
  PROVE  WTypeOK' /\ OverwriterGranted' /\ UnwrittenTextApart'
<1>1. at[w] = "write" /\ ~Landed(w) /\ UNCHANGED <<text, seen>>
  BY DEF WriteFile, Landed
<1>2. CASE Goto(w, "denied")
  BY <1>1, <1>2, GoesOn DEF WInv, WTypeOK
<1>3. ASSUME NEW place \in {"written", "failed"}, file' \in {{}, text[w]},
             at' = [at EXCEPT ![w] = place], UNCHANGED writable
      PROVE  WTypeOK' /\ OverwriterGranted' /\ UnwrittenTextApart'
  <2>1. WTypeOK'
    <3>1. file' \in Text
      BY <1>3 DEF WInv, WTypeOK, Text
    <3>2. QED  BY <1>1, <1>3, <3>1 DEF WInv, WTypeOK
  <2>2. OverwriterGranted'
    <3> SUFFICES ASSUME NEW v \in Caller, at'[v] \in {"write", "written", "failed"}, seen'[v]
                 PROVE  pc'[v] = "granted"
      BY DEF OverwriterGranted
    <3>1. at[v] \in {"write", "written", "failed"} /\ seen[v]
      BY <1>1, <1>3 DEF WInv, WTypeOK
    <3>2. QED  BY <3>1, GrantStays DEF WInv, OverwriterGranted
  <2>3. UnwrittenTextApart'
    BY <1>1, <1>3 DEF WInv, WTypeOK, UnwrittenTextApart, Landed
  <2>4. QED  BY <2>1, <2>2, <2>3
<1>4. QED  BY <1>2, <1>3 DEF WriteFile

LEMMA WInitInv == WInit => WInv
BY InitIInv DEF WInit, WInv, WTypeOK, OverwriterGranted, UnwrittenTextApart, Landed, Text, Absent

LEMMA WNextInv == WInv /\ [WNext]_gvars => WInv'
<1> SUFFICES ASSUME WInv, [WNext]_gvars PROVE WInv'
  OBVIOUS
<1>1. [Next]_vars /\ IInv'
  BY GateOfWriters, NextIInv DEF WInv
<1>2. ASSUME NEW w \in Caller, CompareContent(w)
      PROVE  WTypeOK' /\ OverwriterGranted' /\ UnwrittenTextApart'
  BY <1>1, <1>2, GoesOn DEF CompareContent, Landed, WInv, WTypeOK
<1>3. ASSUME NEW w \in Caller, AskApproval(w)
      PROVE  WTypeOK' /\ OverwriterGranted' /\ UnwrittenTextApart'
  BY <1>1, <1>3, GoesOn DEF AskApproval, Landed, WInv, WTypeOK
<1>4. ASSUME NEW w \in Caller, Answered(w)
      PROVE  WTypeOK' /\ OverwriterGranted' /\ UnwrittenTextApart'
  BY <1>1, <1>4, GoesOn DEF Answered, Landed, WInv, WTypeOK, vars
<1>5. ASSUME OtherWrites
      PROVE  WTypeOK' /\ OverwriterGranted' /\ UnwrittenTextApart'
  <2>1. file' \in Text \cup {Absent} /\ file' \subseteq file \cup {Other}
    BY <1>5 DEF OtherWrites, WInv, WTypeOK, Text, Absent
  <2>2. QED  BY <1>1, <1>5, <2>1, WritersWait DEF OtherWrites
<1>6. ASSUME GateStep \/ UNCHANGED gvars
      PROVE  WTypeOK' /\ OverwriterGranted' /\ UnwrittenTextApart'
  BY <1>1, <1>6, WritersWait DEF GateStep, gvars, wvars, WInv, WTypeOK
<1>7. WTypeOK' /\ OverwriterGranted' /\ UnwrittenTextApart'
  BY <1>1, <1>2, <1>3, <1>4, <1>5, <1>6, ReadForPatchKeeps, CheckExistsKeeps, WriteFileKeeps
     DEF WNext
<1>8. QED  BY <1>1, <1>7 DEF WInv

LEMMA WSpecInv == WSpec => []WInv
BY WInitInv, WNextInv, PTL DEF WSpec

\* The writers, the file and the gate keep their types.
THEOREM WriterTypes == WSpec => [](TypeOK /\ WTypeOK)
<1>1. WInv => TypeOK /\ WTypeOK
  BY DEF WInv, IInv
<1>2. QED  BY <1>1, WSpecInv, PTL

\* write_file_hitl and patch_file_hitl touch a file they found in place only
\* with an operator's approval, however writers, sweep and evictions interleave.
THEOREM OverwritesApproved == WSpec => []SeenOverwriteApproved
<1>1. WInv => SeenOverwriteApproved
  BY DEF WInv, IInv, OverwriterGranted, GrantedByAnOperator, SeenOverwriteApproved
<1>2. QED  BY <1>1, WSpecInv, PTL

\* What a refused or denied writer wanted to write is in no file and in the
\* hands of no other writer.
THEOREM RefusedTextStaysOut == WSpec => []RefusedTextNeverLands
<1>1. WInv => RefusedTextNeverLands
  BY DEF WInv, UnwrittenTextApart, Landed, RefusedTextNeverLands
<1>2. QED  BY <1>1, WSpecInv, PTL
=============================================================================
