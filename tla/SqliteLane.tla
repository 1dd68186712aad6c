----------------------------- MODULE SqliteLane -----------------------------
(***************************************************************************)
(* Database._run_sqlite_op (core/db/connection.py): every operation of a   *)
(* process on its one SQLite connection.  A caller holds an asyncio lock   *)
(* while a single worker thread runs its operation, undoes a write that    *)
(* failed, and tries again if the database was locked.                     *)
(*                                                                         *)
(* An operation is a Python function: statements and a commit, which the   *)
(* thread runs without a pause.  If it fails, the connection's open        *)
(* transaction holds none, a part or all of the statements (the commit     *)
(* itself may fail) until a rollback or the next operation's commit.       *)
(* Cancelling a caller takes its operation from the thread's queue, but    *)
(* does not stop one that the thread has begun.                            *)
(***************************************************************************)
EXTENDS Queues, FiniteSets

CONSTANTS
  Client,   \* coroutines that use the database
  Nobody,   \* the owner of an operation whose caller was cancelled
  MaxTries, \* attempts of an operation (3 in the code)
  MaxWrites \* bound: writes

ASSUME LaneAssumption ==
  /\ Nobody \notin Client
  /\ MaxTries \in Nat \ {0} /\ MaxWrites \in Nat

VARIABLES
  lane,    \* the executor's queue: the thread runs the first job
  turnOf,  \* _sqlite_write_lock: its holder and those who wait, in order
  call,    \* the course of each client's call
  conn,    \* the statements in the open transaction, by write
  db,      \* what is committed
  outcome  \* what the caller of each write was told; its length counts them

qvars == <<lane, turnOf, call, conn, db, outcome>>

\* write: its number, 0 for a read; error: what has made it undo the write.
NoCall == [at |-> "idle", write |-> 0, try |-> 1, result |-> "none", error |-> "none"]

QInit ==
  /\ lane = <<>> /\ turnOf = <<>>
  /\ call = [c \in Client |-> NoCall]
  /\ conn = <<>> /\ db = <<>>
  /\ outcome = <<>>

Job(c, kind)   == [owner |-> c, kind |-> kind, write |-> call'[c].write]
Traces(s, w)   == {i \in DOMAIN s : s[i].write = w}
Statements(w)  == {<<>>, <<[write |-> w, whole |-> FALSE]>>, <<[write |-> w, whole |-> TRUE]>>}
Told(w, what)  == IF w = 0 THEN outcome ELSE [outcome EXCEPT ![w] = what]

-----------------------------------------------------------------------------
\* A call, for a write or a read: without contention the lock does not suspend.
CallOp(c, write) ==
  /\ call[c].at = "idle"
  /\ write => Len(outcome) < MaxWrites
  /\ outcome' = IF write THEN Append(outcome, "open") ELSE outcome
  /\ call' = [call EXCEPT ![c] = [NoCall EXCEPT !.at = IF turnOf = <<>> THEN "running" ELSE "waiting",
                                                !.write = IF write THEN Len(outcome) + 1 ELSE 0]]
  /\ turnOf' = Append(turnOf, c)
  /\ lane' = IF turnOf = <<>> THEN Append(lane, Job(c, "op")) ELSE lane
  /\ UNCHANGED <<conn, db>>

\* The lock is obtained, or the pause before another attempt is over.
Submit(c) ==
  /\ \/ call[c].at = "waiting" /\ Head(turnOf) = c
     \/ call[c].at = "pausing"
  /\ call' = [call EXCEPT ![c].at = "running"]
  /\ lane' = Append(lane, Job(c, "op"))
  /\ UNCHANGED <<turnOf, conn, db, outcome>>

\* The thread runs a job; its owner, if there still is one, will hear of it.
Work ==
  /\ lane # <<>>
  /\ lane' = Tail(lane)
  /\ LET job == Head(lane)
     IN  \E result \in {"ok", "locked", "error"} :
           /\ call' = IF job.owner = Nobody THEN call
                      ELSE [call EXCEPT ![job.owner].result = result]
           /\ CASE result = "ok" /\ job.kind = "op" /\ job.write # 0 ->
                     /\ db' = db \o conn \o <<[write |-> job.write, whole |-> TRUE]>>
                     /\ conn' = <<>>
                [] result # "ok" /\ job.kind = "op" /\ job.write # 0 ->
                     /\ \E s \in Statements(job.write) : conn' = conn \o s
                     /\ UNCHANGED db
                [] result = "ok" /\ job.kind = "undo" -> conn' = <<>> /\ UNCHANGED db
                [] OTHER -> UNCHANGED <<conn, db>>
  /\ UNCHANGED <<turnOf, outcome>>

\* The call is over and leaves the lock.
Finish(c, what) ==
  /\ outcome' = Told(call[c].write, what)
  /\ call' = [call EXCEPT ![c] = NoCall]
  /\ turnOf' = Leave(turnOf, c)

\* After an error nothing is left to undo: another attempt or an exception.
RetryOrRaise(c, error) ==
  IF error = "locked" /\ call[c].try < MaxTries
  THEN /\ call' = [call EXCEPT ![c] = [call[c] EXCEPT !.at = "pausing", !.try = @ + 1,
                                                      !.result = "none", !.error = "none"]]
       /\ UNCHANGED <<turnOf, outcome>>
  ELSE Finish(c, "raised")

\* A mutation of Resumed: a locked database needs no rollback.
ResumedAtOnce(c) ==
  /\ call[c].result # "none"
  /\ LET result == call[c].result
     IN  CASE call[c].at = "running" /\ result = "ok" -> Finish(c, "returned") /\ UNCHANGED lane
           [] call[c].at = "running" /\ (result = "locked" \/ (result # "ok" /\ call[c].write = 0)) ->
                RetryOrRaise(c, result) /\ UNCHANGED lane
           [] call[c].at = "running" /\ result = "error" /\ call[c].write # 0 ->
                /\ call' = [call EXCEPT ![c] = [@ EXCEPT !.at = "undoing", !.result = "none",
                                                         !.error = result]]
                /\ lane' = Append(lane, Job(c, "undo"))
                /\ UNCHANGED <<turnOf, outcome>>
           [] call[c].at = "undoing" /\ result = "ok" ->
                RetryOrRaise(c, call[c].error) /\ UNCHANGED lane
           [] OTHER -> Finish(c, "broken") /\ UNCHANGED lane
  /\ UNCHANGED <<conn, db>>

\* The caller hears of its job: the result, a write to undo first, or, if the
\* rollback fails too, the end.
Resumed(c) ==
  /\ call[c].result # "none"
  /\ LET result == call[c].result
     IN  CASE call[c].at = "running" /\ result = "ok" -> Finish(c, "returned") /\ UNCHANGED lane
           [] call[c].at = "running" /\ result # "ok" /\ call[c].write = 0 ->
                RetryOrRaise(c, result) /\ UNCHANGED lane
           [] call[c].at = "running" /\ result # "ok" /\ call[c].write # 0 ->
                /\ call' = [call EXCEPT ![c] = [@ EXCEPT !.at = "undoing", !.result = "none",
                                                         !.error = result]]
                /\ lane' = Append(lane, Job(c, "undo"))
                /\ UNCHANGED <<turnOf, outcome>>
           [] call[c].at = "undoing" /\ result = "ok" ->
                RetryOrRaise(c, call[c].error) /\ UNCHANGED lane
           [] OTHER -> Finish(c, "broken") /\ UNCHANGED lane
  /\ UNCHANGED <<conn, db>>

\* The caller is cancelled.  CancelledError is no Exception: nothing is undone,
\* and a job that the thread may have begun runs on.
CancelOp(c) ==
  /\ call[c].at # "idle"
  /\ Finish(c, "cancelled")
  /\ \/ \E i \in DOMAIN lane : lane[i].owner = c /\ lane' = Seqs!RemoveAt(lane, i)
     \/ /\ lane # <<>> /\ Head(lane).owner = c
        /\ lane' = [lane EXCEPT ![1].owner = Nobody]
     \/ (\A i \in DOMAIN lane : lane[i].owner # c) /\ UNCHANGED lane
  /\ UNCHANGED <<conn, db>>

QNext ==
  \/ \E c \in Client : \/ \E write \in BOOLEAN : CallOp(c, write)
                       \/ Submit(c) \/ Resumed(c) \/ CancelOp(c)
  \/ Work

QSpec == QInit /\ [][QNext]_qvars

-----------------------------------------------------------------------------
Statement == [write : 1 .. MaxWrites, whole : BOOLEAN]

QTypeOK ==
  /\ lane \in Seq([owner : Client \cup {Nobody}, kind : {"op", "undo"}, write : 0 .. MaxWrites])
  /\ turnOf \in Seq(Client)
  /\ call \in [Client -> [at : {"idle", "waiting", "running", "undoing", "pausing"},
                          write : 0 .. MaxWrites, try : 1 .. MaxTries,
                          result : {"none", "ok", "locked", "error"},
                          error : {"none", "locked", "error"}]]
  /\ conn \in Seq(Statement) /\ db \in Seq(Statement)
  /\ outcome \in Seq({"open", "returned", "raised", "broken", "cancelled"})

\* However operations wait for one another, fail, are tried again and are
\* cancelled: a write that has returned is committed once and whole, one that
\* has raised left nothing behind, not even in the open transaction, and a part
\* of a write is committed only if its caller was cancelled or its rollback
\* failed (_run_sqlite_op, 127-155).
WritesWhole ==
  \A w \in DOMAIN outcome :
    /\ Cardinality(Traces(db, w)) + Cardinality(Traces(conn, w)) <= 1
    /\ outcome[w] = "returned" => \E i \in Traces(db, w) : db[i].whole
    /\ outcome[w] = "raised" => Traces(db, w) = {} /\ Traces(conn, w) = {}
    /\ outcome[w] \in {"open", "returned"} => \A i \in Traces(db, w) : db[i].whole
=============================================================================
