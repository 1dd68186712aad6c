---------------------------- MODULE GuardedWrite ----------------------------
(***************************************************************************)
(* CodeManager.write_file_hitl and patch_file_hitl (managers/              *)
(* code_manager.py) on one path, composed with the gate they ask.          *)
(*                                                                         *)
(* The callers of HitlGate are the writers.  A file is Absent or the set   *)
(* of the authors whose text it holds: a write replaces it, a patch adds   *)
(* to what it has read.  Other writers of the same tree (write_generated_  *)
(* test, another process) ask nobody; Other stands for their text.         *)
(***************************************************************************)
EXTENDS HitlGate

CONSTANT Other   \* the author of text written without the gate

ASSUME AuthorAssumption == Other \notin Caller /\ NoOne \notin Caller \cup {Other}

Text   == SUBSET (Caller \cup {Other})
Absent == {NoOne}   \* the path does not exist

VARIABLES
  file,      \* what the path holds
  writable,  \* security_adapter.can_write(path)
  text,      \* text[w]: the content writer w wants to write
  at,        \* where writer w stands
  seen       \* did `target.exists` answer w that the path exists?

wvars == <<file, writable, text, at, seen>>
gvars == <<vars, wvars>>

WInit ==
  /\ Init
  /\ file \in {Absent, {Other}}
  /\ writable \in BOOLEAN
  /\ text = [w \in Caller |-> {w}]
  /\ at \in [Caller -> {"write_file", "patch_file"}]
  /\ seen = [w \in Caller |-> FALSE]

\* A writer goes on to another place, the file staying as it is.
Goto(w, place) ==
  /\ at' = [at EXCEPT ![w] = place]
  /\ UNCHANGED <<file, writable>>

\* patch_file_hitl reads the file and computes the patched text, or returns
\* the error of a missing file or a missing block.
ReadForPatch(w) ==
  /\ at[w] = "patch_file"
  /\ \/ /\ file # Absent
        /\ text' = [text EXCEPT ![w] = file \cup {w}]
        /\ Goto(w, "write_file")
     \/ Goto(w, "denied") /\ UNCHANGED text
  /\ UNCHANGED <<vars, seen>>

\* `await asyncio.to_thread(target.exists)`.
CheckExists(w) ==
  /\ at[w] = "write_file"
  /\ seen' = [seen EXCEPT ![w] = file # Absent]
  /\ Goto(w, CASE file = Absent              -> "write"
               [] file # Absent /\ writable -> "compare"
               [] OTHER                     -> "ask")
  /\ UNCHANGED <<vars, text>>

\* `await asyncio.to_thread(self._file_content_matches, ...)`: writing what is
\* already there is skipped.
CompareContent(w) ==
  /\ at[w] = "compare"
  /\ Goto(w, IF file = text[w] THEN "skipped" ELSE "ask")
  /\ UNCHANGED <<vars, text, seen>>

\* `await get_hitl_gate().request_approval(...)`.
AskApproval(w) ==
  /\ at[w] = "ask"
  /\ RequestApproval(w) \/ Bypass(w)
  /\ Goto(w, "wait")
  /\ UNCHANGED <<text, seen>>

\* A mutation of Answered: any end of the wait counts as a yes.
AnsweredAnyhow(w) ==
  /\ at[w] = "wait"
  /\ pc[w] \in {"granted", "refused"} /\ Goto(w, "write")
  /\ UNCHANGED <<vars, text, seen>>

\* The gate answers the writer.
Answered(w) ==
  /\ at[w] = "wait"
  /\ \/ pc[w] = "granted" /\ Goto(w, "write")
     \/ pc[w] = "refused" /\ Goto(w, "refused")
  /\ UNCHANGED <<vars, text, seen>>

\* A mutation of WriteFile: the content is checked after it was written.
WriteThenCheck(w) ==
  /\ at[w] = "write"
  /\ writable
  /\ file' = text[w]
  /\ \E place \in {"written", "denied"} : at' = [at EXCEPT ![w] = place]
  /\ UNCHANGED <<vars, writable, text, seen>>

\* file_io_security.write_file replaces the file.  The policy or the syntax
\* check may deny it before; a failing file system leaves the file truncated,
\* or is noticed only after the text is there.
WriteFile(w) ==
  /\ at[w] = "write"
  /\ \/ Goto(w, "denied")
     \/ /\ writable
        /\ \/ file' = text[w] /\ at' = [at EXCEPT ![w] = "written"]
           \/ file' \in {{}, text[w]} /\ at' = [at EXCEPT ![w] = "failed"]
        /\ UNCHANGED writable
  /\ UNCHANGED <<vars, text, seen>>

\* Somebody who does not go through the gate creates or extends the file.
OtherWrites ==
  /\ file' = (IF file = Absent THEN {} ELSE file) \cup {Other}
  /\ file' # file
  /\ UNCHANGED <<vars, writable, text, at, seen>>

\* The steps of the gate that a writer does not take part in.
GateStep ==
  /\ \/ \E c \in Caller : Poll(c) \/ GiveUp(c)
     \/ \E m \in Manual : CreateRequest(m)
     \/ \E r \in Request : Notified(r)
     \/ \E r \in Request, o \in Operator, approved \in BOOLEAN : Respond(r, o, approved)
     \/ Pending
     \/ Tick
  /\ UNCHANGED wvars

WNext ==
  \/ \E w \in Caller : \/ ReadForPatch(w) \/ CheckExists(w) \/ CompareContent(w)
                       \/ AskApproval(w) \/ Answered(w) \/ WriteFile(w)
  \/ OtherWrites
  \/ GateStep

WSpec == WInit /\ [][WNext]_gvars

-----------------------------------------------------------------------------
WTypeOK ==
  /\ file \in Text \cup {Absent}
  /\ writable \in BOOLEAN
  /\ text \in [Caller -> Text]
  /\ at \in [Caller -> {"patch_file", "write_file", "compare", "ask", "wait", "write",
                        "written", "skipped", "denied", "failed", "refused"}]
  /\ seen \in [Caller -> BOOLEAN]

\* A writer that found the file in place and touched it, even if the write then
\* failed, had an operator's approval for its own request, however the gate, the sweep, evictions
\* and other writers interleave.
SeenOverwriteApproved ==
  \A w \in Caller :
    enabled /\ at[w] \in {"written", "failed"} /\ seen[w] =>
      decision[w] = "approved" /\ decidedBy[w] \in Operator

\* Nothing a refused or denied writer wanted to write is ever in the file,
\* not even through the text another writer has read and patched.
RefusedTextNeverLands ==
  \A w \in Caller :
    at[w] \in {"refused", "denied"} =>
      /\ file = Absent \/ w \notin file
      /\ \A v \in Caller \ {w} : w \notin text[v]

\* The docstring of write_file_hitl: an existing file is overwritten only
\* with a human approval.
OverwriteNeedsApproval ==
  [][\A w \in Caller :
       enabled /\ file # Absent /\ at[w] = "write" /\ at'[w] = "written" =>
         decision[w] = "approved"]_gvars
=============================================================================
