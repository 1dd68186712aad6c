----------------------------- MODULE DeadLetters -----------------------------
(***************************************************************************)
(* The dead letters of AgentEventBus (agent/core/event_stream.py) with a   *)
(* file to persist them: a buffer in memory, the records that wait for the *)
(* file, and the coroutines that write them to it one batch at a time.     *)
(*                                                                         *)
(* Coroutines run to their next await: a write suspends only if it flushes *)
(* a full batch.  The file is written by a thread, which a cancellation of *)
(* the coroutine that awaits it does not stop, and may fail half way.      *)
(* The copy sent to Redis afterwards changes nothing here.                 *)
(***************************************************************************)
EXTENDS Queues, FiniteSets

CONSTANTS
  Writer,     \* coroutines that await _write_dead_letter
  Timer,      \* the task of _delayed_dead_letter_flush: there is one at a time
  BufferMax,  \* _dlq_buffer.maxlen
  BatchMax,   \* _dlq_persist_batch_size
  MaxLetters, \* bound: letters
  MaxCancels  \* bound: cancellations

ASSUME LetterAssumption ==
  /\ Timer \notin Writer
  /\ BufferMax \in Nat \ {0} /\ BatchMax \in Nat \ {0}
  /\ MaxLetters \in Nat /\ MaxCancels \in Nat

Persister == Writer \cup {Timer}

VARIABLES
  written,    \* letters are numbered: how many writes have begun
  remembered, \* the letters that have entered memory
  buffer,     \* _dlq_buffer
  pending,    \* _dlq_persist_pending: [letter, dropped] records
  lock,       \* _dlq_persist_lock: its holder and those who wait, in order
  at,         \* where each task stands
  letter,     \* the letter a suspended writer still has to remember, or 0
  taken,      \* the records a task's thread is writing
  orphans,    \* the records of threads whose task was cancelled
  file,       \* the letters on file, with every record
  lost,       \* the records that a failing disk has taken
  cancels     \* bounds CancelWriter

lvars == <<written, remembered, buffer, pending, lock, at, letter, taken, orphans,
           file, lost, cancels>>
disk  == <<orphans, file, lost>>

LInit ==
  /\ written = 0 /\ remembered = {}
  /\ buffer = <<>> /\ pending = <<>> /\ lock = <<>>
  /\ at = [t \in Persister |-> "idle"]
  /\ letter = [t \in Persister |-> 0]
  /\ taken = [t \in Persister |-> <<>>]
  /\ orphans = {} /\ file = <<>> /\ lost = {}
  /\ cancels = 0

Record(l, d) == [letter |-> l, dropped |-> d]

-----------------------------------------------------------------------------
\* A task stands elsewhere; the timer is armed if a flush was scheduled.
Stand(t, place, armed) ==
  at' = [at EXCEPT ![t] = place,
                   ![Timer] = IF t = Timer THEN place
                              ELSE IF armed /\ @ = "idle" THEN "sleeping" ELSE @]

\* A mutation of HandOver: the list of pending records is not cleared.
HandOverKeeping(t, records, armed) ==
  /\ taken' = [taken EXCEPT ![t] = records]
  /\ pending' = records
  /\ Stand(t, "writing", armed)

\* Under the lock: the pending records are handed to a thread.
HandOver(t, records, armed) ==
  /\ taken' = [taken EXCEPT ![t] = records]
  /\ pending' = <<>>
  /\ Stand(t, "writing", armed)

\* _flush_dead_letter_persist_queue, up to its first suspension, by a task
\* that finds these records pending and these tasks at the lock.
Flush(t, records, queue, armed) ==
  /\ lock' = Append(queue, t)
  /\ IF queue = <<>>
     THEN HandOver(t, records, armed)
     ELSE /\ pending' = records
          /\ Stand(t, "waiting", armed)
          /\ UNCHANGED taken

\* The rest of a write: letter l enters memory, which may push the oldest one
\* out, and is persisted with the next flush, or by one if the batch is full.
Remember(w, l, records, queue, armed) ==
  LET all == Append(records, Record(l, FALSE))
      old == Append(buffer, l)
  IN  /\ remembered' = remembered \cup {l}
      /\ buffer' = IF Len(old) > BufferMax THEN Tail(old) ELSE old
      /\ letter' = [letter EXCEPT ![w] = 0]
      /\ IF Len(all) >= BatchMax
         THEN Flush(w, all, queue, armed)
         ELSE /\ pending' = all
              /\ lock' = queue
              /\ Stand(w, "idle", TRUE)
              /\ UNCHANGED taken

\* _write_dead_letter: a full buffer has its oldest letter persisted once more.
WriteLetter(w) ==
  /\ at[w] = "idle" /\ written < MaxLetters
  /\ written' = written + 1
  /\ LET all == Append(pending, Record(Head(buffer), TRUE))
     IN  IF Len(buffer) < BufferMax
         THEN Remember(w, written + 1, pending, lock, FALSE)
         ELSE IF Len(all) < BatchMax
         THEN Remember(w, written + 1, all, lock, TRUE)
         ELSE /\ letter' = [letter EXCEPT ![w] = written + 1]
              /\ Flush(w, all, lock, FALSE)
              /\ UNCHANGED <<remembered, buffer>>
  /\ UNCHANGED <<disk, cancels>>

\* A task has flushed and releases the lock; a writer may have more to do.
Flushed(t) ==
  IF letter[t] # 0
  THEN Remember(t, letter[t], pending, Tail(lock), FALSE)
  ELSE /\ lock' = Tail(lock)
       /\ Stand(t, "idle", FALSE)
       /\ UNCHANGED <<remembered, buffer, pending, letter, taken>>

\* A mutation of Obtain: the lock is kept if there is nothing to write.
ObtainKeeping(t) ==
  /\ at[t] = "waiting" /\ Head(lock) = t
  /\ IF pending = <<>> THEN /\ Stand(t, "idle", FALSE)
                            /\ UNCHANGED <<remembered, buffer, pending, letter, taken, lock>>
                       ELSE /\ HandOver(t, pending, FALSE)
                            /\ UNCHANGED <<remembered, buffer, letter, lock>>
  /\ UNCHANGED <<written, disk, cancels>>

\* The lock is obtained, but another task may have flushed everything.
Obtain(t) ==
  /\ at[t] = "waiting" /\ Head(lock) = t
  /\ IF pending = <<>> THEN Flushed(t)
                       ELSE /\ HandOver(t, pending, FALSE)
                            /\ UNCHANGED <<remembered, buffer, letter, lock>>
  /\ UNCHANGED <<written, disk, cancels>>

\* _persist_dead_letter_items_sync: the records, or a part of them if it fails.
Persist(records) ==
  \E n \in 0 .. Len(records) :
    /\ file' = file \o SubSeq(records, 1, n)
    /\ lost' = lost \cup {records[i] : i \in n + 1 .. Len(records)}

\* The thread of a task has ended, and the task goes on.
Written(t) ==
  /\ at[t] = "writing"
  /\ Persist(taken[t])
  /\ IF letter[t] # 0
     THEN Remember(t, letter[t], pending, Tail(lock), FALSE)
     ELSE /\ lock' = Tail(lock)
          /\ Stand(t, "idle", FALSE)
          /\ taken' = [taken EXCEPT ![t] = <<>>]
          /\ UNCHANGED <<remembered, buffer, pending, letter>>
  /\ UNCHANGED <<written, orphans, cancels>>

\* The thread of a task that was cancelled has ended.
OrphanWritten ==
  \E records \in orphans :
    /\ Persist(records)
    /\ orphans' = orphans \ {records}
    /\ UNCHANGED <<written, remembered, buffer, pending, lock, at, letter, taken, cancels>>

\* The interval of _delayed_dead_letter_flush is over.
Wake ==
  /\ at[Timer] = "sleeping"
  /\ IF pending = <<>>
     THEN Stand(Timer, "idle", FALSE) /\ UNCHANGED <<pending, lock, taken>>
     ELSE Flush(Timer, pending, lock, FALSE)
  /\ UNCHANGED <<written, remembered, buffer, letter, disk, cancels>>

\* A writer is cancelled (a listener by a cleanup, a publisher with the call of
\* an agent that takes too long): it leaves the lock, its thread writes on.
CancelWriter(w) ==
  /\ at[w] \in {"waiting", "writing"} /\ cancels < MaxCancels
  /\ cancels' = cancels + 1
  /\ lock' = Leave(lock, w)
  /\ Stand(w, "idle", FALSE)
  /\ orphans' = IF at[w] = "writing" THEN orphans \cup {taken[w]} ELSE orphans
  /\ taken' = [taken EXCEPT ![w] = <<>>]
  /\ letter' = [letter EXCEPT ![w] = 0]
  /\ UNCHANGED <<written, remembered, buffer, pending, file, lost>>

-----------------------------------------------------------------------------
\* What the event loop and its threads do by themselves.
Go(t) == Obtain(t) \/ Written(t) \/ (t = Timer /\ Wake)

LNext ==
  \/ \E w \in Writer : WriteLetter(w) \/ CancelWriter(w)
  \/ \E t \in Persister : Go(t)
  \/ OrphanWritten

LSpec == LInit /\ [][LNext]_lvars

-----------------------------------------------------------------------------
Records == [letter : 1 .. MaxLetters, dropped : BOOLEAN]

LTypeOK ==
  /\ written \in 0 .. MaxLetters
  /\ remembered \in SUBSET (1 .. written)
  /\ buffer \in Seq(remembered) /\ Len(buffer) <= BufferMax
  /\ pending \in Seq(Records)
  /\ lock \in Seq(Persister)
  /\ at \in [Persister -> {"idle", "sleeping", "waiting", "writing"}]
  /\ letter \in [Persister -> 0 .. MaxLetters]
  /\ taken \in [Persister -> Seq(Records)]
  /\ orphans \in SUBSET Seq(Records)
  /\ file \in Seq(Records)
  /\ lost \in SUBSET Records
  /\ cancels \in 0 .. MaxCancels

\* How often a sequence has the record of a letter, not counting its record as
\* the oldest one that leaves memory.
Copies(records, l) == Cardinality({i \in DOMAIN records : records[i] = Record(l, FALSE)})

\* Every letter that has entered memory has exactly one first record: it waits
\* for the file, a thread is writing it, or it was written or lost by the disk.
\* Flushes that overlap, wait for one another and are cancelled neither forget
\* a record nor write it twice (_flush_dead_letter_persist_queue, 800-811).
JournalComplete ==
  \A l \in remembered :
    LET held == {t \in Persister : at[t] = "writing" /\ Copies(taken[t], l) = 1}
        left == {records \in orphans : Copies(records, l) = 1}
    IN  Copies(pending, l) + Copies(file, l) + Cardinality(held) + Cardinality(left)
          + (IF Record(l, FALSE) \in lost THEN 1 ELSE 0) = 1

\* One coroutine at a time has the file written for it, and whoever holds the
\* lock or stands before another in its queue is still there to release it: a
\* flush that finds nothing to write, and one that is cancelled, leave it too.
LockServed ==
  /\ \A t \in Persister : at[t] = "writing" => lock # <<>> /\ Head(lock) = t
  /\ \A i \in DOMAIN lock : at[lock[i]] \in {"waiting", "writing"}
  /\ \A i, j \in DOMAIN lock : lock[i] = lock[j] => i = j
=============================================================================
