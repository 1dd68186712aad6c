---------------------------- MODULE EventDelivery ----------------------------
(***************************************************************************)
(* Who hears what is published on an AgentEventBus (agent/core/            *)
(* event_stream.py): the fan-out to the queues of local subscribers, whose *)
(* status pumps (web/routes/ws_chat.py) empty them, and the Redis listener *)
(* that reads the entries of other instances, fans them out, sets broken   *)
(* ones aside as dead letters and acknowledges them one by one.            *)
(*                                                                         *)
(* Events are numbered in the order this bus fans them out.  The broker    *)
(* gives the listener any entries: those of other members of its consumer  *)
(* group are not seen here.  The connection and the persistence of dead    *)
(* letters are BusBootstrap and DeadLetters; either may cancel or suspend  *)
(* the listener wherever it awaits.                                        *)
(***************************************************************************)
EXTENDS Integers, Sequences

CONSTANTS
  Subscriber, \* replies that subscribe while they run
  QueueMax,   \* the size of a subscriber's queue
  ReadMax,    \* entries per read (20 in the code)
  MaxEvents,  \* bound: events fanned out
  MaxEntries  \* bound: entries read

ASSUME DeliveryAssumption ==
  /\ QueueMax \in Nat \ {0} /\ ReadMax \in Nat \ {0}
  /\ MaxEvents \in Nat /\ MaxEntries \in Nat

VARIABLES
  fanned,  \* the number of events fanned out
  sub,     \* each subscriber: is it registered, its queue, the last event it took
  place,   \* where the listener stands
  entries, \* what it has read: kind, fate and acknowledgement of each entry
  pos      \* the entry it is busy with

dvars == <<fanned, sub, place, entries, pos>>

DInit ==
  /\ fanned = 0
  /\ sub = [s \in Subscriber |-> [open |-> FALSE, queue |-> <<>>, last |-> 0]]
  /\ place = "reading"
  /\ entries = <<>>
  /\ pos = 1

-----------------------------------------------------------------------------
\* A mutation of Fanout: a full queue misses the event.
FanoutSkipping ==
  /\ fanned < MaxEvents
  /\ fanned' = fanned + 1
  /\ sub' = [s \in Subscriber |->
               IF sub[s].open /\ Len(sub[s].queue) < QueueMax
               THEN [sub[s] EXCEPT !.queue = Append(@, fanned + 1)] ELSE sub[s]]

\* _fanout_local: a subscriber whose queue is full is unsubscribed; nothing in
\* the program gives a subscriber a second buffer.
Fanout ==
  /\ fanned < MaxEvents
  /\ fanned' = fanned + 1
  /\ sub' = [s \in Subscriber |->
               CASE ~sub[s].open -> sub[s]
                 [] sub[s].open /\ Len(sub[s].queue) < QueueMax ->
                      [sub[s] EXCEPT !.queue = Append(@, fanned + 1)]
                 [] OTHER -> [sub[s] EXCEPT !.open = FALSE]]

\* A reply begins: subscribe().
SubscribeReply(s) ==
  /\ ~sub[s].open /\ sub[s].queue = <<>>
  /\ sub' = [sub EXCEPT ![s] = [open |-> TRUE, queue |-> <<>>, last |-> fanned]]
  /\ UNCHANGED <<fanned, place, entries, pos>>

\* Its status pump takes an event, from a queue that may be no longer fed.
TakeEvent(s) ==
  /\ sub[s].queue # <<>>
  /\ sub' = [sub EXCEPT ![s] = [sub[s] EXCEPT !.queue = Tail(@), !.last = Head(sub[s].queue)]]
  /\ UNCHANGED <<fanned, place, entries, pos>>

\* The reply ends: unsubscribe(), and the queue is gone.
UnsubscribeReply(s) ==
  /\ sub[s].open \/ sub[s].queue # <<>>
  /\ sub' = [sub EXCEPT ![s] = [sub[s] EXCEPT !.open = FALSE, !.queue = <<>>]]
  /\ UNCHANGED <<fanned, place, entries, pos>>

\* publish() by an agent of this process.
PublishHere ==
  /\ Fanout
  /\ UNCHANGED <<place, entries, pos>>

-----------------------------------------------------------------------------
\* xreadgroup returns new entries: events of other instances, echoes of what
\* this one has published, and payloads that cannot be parsed.
ReadEntries ==
  /\ place = "reading"
  /\ \E n \in 1 .. ReadMax : \E kinds \in [1 .. n -> {"event", "echo", "broken"}] :
       /\ Len(entries) + n <= MaxEntries
       /\ entries' = entries \o [i \in 1 .. n |-> [kind |-> kinds[i], fate |-> "none", ack |-> "no"]]
  /\ place' = "handling"
  /\ UNCHANGED <<fanned, sub, pos>>

\* The fate of the entry the listener is busy with, or its acknowledgement.
Fate(fate) == entries' = [entries EXCEPT ![pos].fate = fate]
Ack(ack)   == entries' = [entries EXCEPT ![pos].ack = ack]

\* An entry is parsed: an event is fanned out, an echo ignored, and for a
\* broken one _write_dead_letter is awaited, which may suspend or not.
Handle ==
  /\ place = "handling" /\ pos <= Len(entries)
  /\ \/ entries[pos].kind = "event" /\ Fanout /\ Fate("heard") /\ place' = "ack"
     \/ entries[pos].kind = "echo" /\ Fate("ignored") /\ place' = "ack" /\ UNCHANGED <<fanned, sub>>
     \/ entries[pos].kind = "broken" /\ place' = "letter" /\ UNCHANGED <<fanned, sub, entries>>
  /\ UNCHANGED pos

\* The dead letter is written; the `finally` clause acknowledges the entry.
LetterWritten ==
  /\ place = "letter"
  /\ Fate("letter")
  /\ place' = "ack"
  /\ UNCHANGED <<fanned, sub, pos>>

\* The next entry of the batch, or the next read.
Advance(ack) ==
  /\ Ack(ack)
  /\ pos' = pos + 1
  /\ place' = IF pos < Len(entries) THEN "handling" ELSE "reading"

\* A mutation of AckFails: the rest of the batch is given up.
AckFailsForAll ==
  /\ place = "ack"
  /\ Ack("letter")
  /\ pos' = Len(entries) + 1
  /\ place' = "reading"
  /\ UNCHANGED <<fanned, sub>>

\* xack has succeeded...
Acked ==
  /\ place = "ack"
  /\ Advance("yes")
  /\ UNCHANGED <<fanned, sub>>

\* ...or failed: another dead letter, "ack_failed", is written.
AckFails ==
  /\ place = "ack"
  /\ place' = "ackLetter"
  /\ UNCHANGED <<fanned, sub, entries, pos>>

AckLetterWritten ==
  /\ place = "ackLetter"
  /\ Advance("letter")
  /\ UNCHANGED <<fanned, sub>>

\* A cleanup cancels the listener where it awaits.  CancelledError is no
\* Exception: only the `finally` clause is still run, and it acknowledges the
\* entry whose dead letter may not have been written.
CancelListener ==
  /\ place \in {"reading", "letter", "ack", "ackLetter"}
  /\ IF place = "letter"
     THEN \E fate \in {"none", "letter"} : Fate(fate) /\ place' = "lastAck"
     ELSE place' = "done" /\ UNCHANGED entries
  /\ UNCHANGED <<fanned, sub, pos>>

LastAck ==
  /\ place = "lastAck"
  /\ \E ack \in {"yes", "letter"} : Ack(ack)
  /\ place' = "done"
  /\ UNCHANGED <<fanned, sub, pos>>

\* xreadgroup has failed: Redis is given up.
ReadFails ==
  /\ place = "reading"
  /\ place' = "done"
  /\ UNCHANGED <<fanned, sub, entries, pos>>

DNext ==
  \/ \E s \in Subscriber : SubscribeReply(s) \/ TakeEvent(s) \/ UnsubscribeReply(s)
  \/ PublishHere
  \/ ReadEntries \/ Handle \/ LetterWritten \/ Acked \/ AckFails \/ AckLetterWritten
  \/ CancelListener \/ LastAck \/ ReadFails

DeliverySpec == DInit /\ [][DNext]_dvars

-----------------------------------------------------------------------------
DTypeOK ==
  /\ fanned \in 0 .. MaxEvents
  /\ sub \in [Subscriber -> [open : BOOLEAN, queue : Seq(1 .. fanned), last : 0 .. fanned]]
  /\ \A s \in Subscriber : Len(sub[s].queue) <= QueueMax
  /\ place \in {"reading", "handling", "letter", "ack", "ackLetter", "lastAck", "done"}
  /\ entries \in Seq([kind : {"event", "echo", "broken"},
                      fate : {"none", "heard", "ignored", "letter"},
                      ack  : {"no", "yes", "letter"}])
  /\ pos \in 1 .. MaxEntries + 1

\* What a subscriber hears has no gap: its queue continues what it has taken,
\* and while it is registered it ends with the latest event.  A subscriber too
\* slow for its queue is unsubscribed, it never misses an event between two
\* others (_fanout_local, 577-592).
NoGap ==
  \A s \in Subscriber :
    /\ \A i \in DOMAIN sub[s].queue : sub[s].queue[i] = sub[s].last + i
    /\ sub[s].open => sub[s].last + Len(sub[s].queue) = fanned

\* A listener that asks for more entries has settled all it was given: each
\* event was fanned out, each broken payload has its dead letter, and what is
\* not acknowledged has a dead letter that says so (_redis_listener_loop,
\* 472-503), whatever acknowledgements and parsings have failed before.
ReadIsSettled ==
  place = "reading" =>
    \A i \in DOMAIN entries :
      /\ entries[i].ack # "no"
      /\ entries[i].kind = "event" => entries[i].fate = "heard"
      /\ entries[i].kind = "echo" => entries[i].fate = "ignored"
      /\ entries[i].kind = "broken" => entries[i].fate = "letter"
=============================================================================
