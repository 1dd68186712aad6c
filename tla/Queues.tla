------------------------------- MODULE Queues -------------------------------
(***************************************************************************)
(* The queues of asyncio's locks and semaphores and of executors, and the  *)
(* order of an OrderedDict: whoever waits may leave from the middle, when  *)
(* it is cancelled, and a key, when it is used.                            *)
(***************************************************************************)
EXTENDS Integers, Sequences

Seqs == INSTANCE SequencesExt

\* The queue without x, as deque.remove(x) leaves it; nobody is in it twice.
Leave(queue, x) == Seqs!RemoveFirst(queue, x)
=============================================================================
