--------------------------- MODULE SwarmDispatch ---------------------------
(* SwarmOrchestrator.dispatch_distributed (agent/swarm.py): concurrent     *)
(* calls look their idempotency key up, await the broker and remember its  *)
(* result in an LRU cache.  A result is known by its key.                  *)
EXTENDS Queues, FiniteSets
CONSTANTS Caller,   \* coroutines that dispatch
          Key,      \* idempotency keys
          NoKey,
          CacheMax  \* SWARM_IDEMPOTENCY_CACHE_MAX

ASSUME DispatchAssumption == CacheMax \in Nat \ {0} /\ NoKey \notin Key

VARIABLES
  cache,  \* _distributed_idempotency_cache, least recently used key first
  sent,   \* the key each caller awaits the broker for
  since   \* history: the keys used since each key was, itself included; {} if never

pvars == <<cache, sent, since>>

PInit == cache = <<>> /\ sent = [c \in Caller |-> NoKey] /\ since = [k \in Key |-> {}]

Cached(k) == \E i \in DOMAIN cache : cache[i] = k

\* What has been used before counts k from now on; k starts afresh.
Use(k) == since' = [x \in Key |-> IF x = k THEN {k}
                                  ELSE IF since[x] = {} THEN {} ELSE since[x] \cup {k}]

\* move_to_end, and popitem(last=False) beyond the limit.
MoveToEnd(k) ==
  LET s == Append(Leave(cache, k), k)
  IN  cache' = IF Len(s) > CacheMax THEN Tail(s) ELSE s

\* A mutation of Dispatch: a hit leaves its key where it is.
DispatchUnmoved(c, k) ==
  /\ sent[c] = NoKey
  /\ IF Cached(k)
     THEN UNCHANGED <<cache, sent>> /\ Use(k)
     ELSE sent' = [sent EXCEPT ![c] = k] /\ UNCHANGED <<cache, since>>

\* A hit is returned at once and becomes the most recent; a miss goes to the broker.
Dispatch(c, k) ==
  /\ sent[c] = NoKey
  /\ IF Cached(k)
     THEN MoveToEnd(k) /\ Use(k) /\ UNCHANGED sent
     ELSE sent' = [sent EXCEPT ![c] = k] /\ UNCHANGED <<cache, since>>

\* The broker has answered, or raised: then nothing is remembered.
Dispatched(c) ==
  /\ sent[c] # NoKey
  /\ sent' = [sent EXCEPT ![c] = NoKey]
  /\ \/ MoveToEnd(sent[c]) /\ Use(sent[c])
     \/ UNCHANGED <<cache, since>>

PNext == \E c \in Caller : Dispatched(c) \/ \E k \in Key : Dispatch(c, k)

PSpec == PInit /\ [][PNext]_pvars

PTypeOK ==
  /\ cache \in Seq(Key) /\ Len(cache) <= CacheMax
  /\ sent \in [Caller -> Key \cup {NoKey}]
  /\ since \in [Key -> SUBSET Key]

\* A result stays known to repeated calls exactly as long as fewer than CacheMax
\* keys have been used since, in whatever order the overlapping calls end.
RecentKeysKept ==
  \A k \in Key : Cached(k) <=> since[k] # {} /\ Cardinality(since[k]) <= CacheMax
=============================================================================
