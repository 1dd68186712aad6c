----------------------------- MODULE ModelCalls -----------------------------
(***************************************************************************)
(* LLMClient.chat (core/llm_client.py): concurrent calls to a language     *)
(* model.  The router (core/router.py) chooses the local or the cloud      *)
(* provider by the day's budget, answers may come from the semantic cache, *)
(* and calls of the local provider share the slots of the GPU, an asyncio  *)
(* semaphore (core/llm/ollama.py).  A call that the router has sent to     *)
(* another provider than the client's own falls back on that one.          *)
(*                                                                         *)
(* Every paid call costs one unit; the budget is the process's own         *)
(* tracker.  The cache is an await with a hit or a miss: its Redis and its *)
(* breaker decide no more than which.  There is one cloud provider, whose  *)
(* streams ask when they are first read, as OpenAI's and Anthropic's do.   *)
(* Whoever has asked for a stream reads it at once, as generate does.      *)
(***************************************************************************)
EXTENDS Queues, FiniteSets

CONSTANTS
  Asker,       \* coroutines that call a model, one call at a time
  Slots,       \* OLLAMA_GPU_REQUEST_POOL_SIZE
  MaxRetries,  \* LLM_MAX_RETRIES
  DailyBudget,      \* COST_ROUTING_DAILY_BUDGET_USD
  MaxFallbacks \* bound: fallbacks on the cloud

ASSUME ModelAssumption ==
  /\ Slots \in Nat \ {0} /\ MaxRetries \in Nat /\ DailyBudget \in Nat \ {0} /\ MaxFallbacks \in Nat
  /\ IsFiniteSet(Asker)

VARIABLES
  own,      \* the client's provider
  patience, \* is there an OLLAMA_GPU_BACKPRESSURE_TIMEOUT_MS?
  gpu,      \* the semaphore: its value, who waits, and who of these has been woken with a slot
  chat,     \* the call of each coroutine
  spent,    \* _daily_cost
  fallbacks \* history: calls that the router sent to the local provider in vain

config == <<own, patience>>
cvars  == <<config, gpu, chat, spent, fallbacks>>

NoChat == [at |-> "idle", route |-> "local", stream |-> FALSE, try |-> 0, fallen |-> FALSE]

CInit ==
  /\ own \in {"local", "cloud"} /\ patience \in BOOLEAN
  /\ gpu = [free |-> Slots, queue |-> <<>>, woken |-> {}]
  /\ chat = [c \in Asker |-> NoChat]
  /\ spent = 0 /\ fallbacks = 0

Holds(c) == chat[c].route = "local" /\ chat[c].at \in {"asking", "pausing", "streaming"}
Pays(c)  == chat[c].route = "cloud" /\ chat[c].at \notin {"idle", "storing"}

-----------------------------------------------------------------------------
\* asyncio.Semaphore: a free slot goes to the first who waits and has none yet.
WakeFirst(g) ==
  LET waiting == {i \in DOMAIN g.queue : g.queue[i] \notin g.woken}
  IN  IF g.free = 0 \/ waiting = {} THEN g
      ELSE [g EXCEPT !.free = @ - 1,
                     !.woken = @ \cup {g.queue[CHOOSE i \in waiting : \A j \in waiting : i <= j]}]

Release(g)    == WakeFirst([g EXCEPT !.free = @ + 1])
Without(g, c) == [g EXCEPT !.queue = Leave(@, c), !.woken = @ \ {c}]
IsFree(g)     == g.free > 0 /\ g.queue = <<>>

\* c waits no more, or holds no more: its slot goes to another one.
Left(c) ==
  CASE Holds(c)                     -> Release(gpu)
    [] ~Holds(c) /\ c \in gpu.woken -> Release(Without(gpu, c))
    [] OTHER                        -> Without(gpu, c)

Becomes(c, r, g) == chat' = [chat EXCEPT ![c] = r] /\ gpu' = g
Served(r)        == [r EXCEPT !.at = IF r.stream THEN "streaming" ELSE "asking"]

\* A mutation of Acquire: chat's own `finally` releases the slot of a stream too.
AcquireForChat(c, r, g) ==
  IF IsFree(g)
  THEN Becomes(c, Served(r), [g EXCEPT !.free = IF r.stream THEN @ ELSE @ - 1])
  ELSE Becomes(c, [r EXCEPT !.at = "waiting"], [g EXCEPT !.queue = Append(@, c)])

\* acquire: without contention the semaphore does not suspend.
Acquire(c, r, g) ==
  IF IsFree(g) THEN Becomes(c, Served(r), [g EXCEPT !.free = @ - 1])
               ELSE Becomes(c, [r EXCEPT !.at = "waiting"], [g EXCEPT !.queue = Append(@, c)])

\* The provider's chat.  With a limit of its patience it waits for a task of its
\* own, made by wait_for, which acquires.
Provide(c, r, g) ==
  CASE r.route = "cloud"             -> Becomes(c, Served(r), g)
    [] r.route # "cloud" /\ patience -> Becomes(c, [r EXCEPT !.at = "starting"], g)
    [] OTHER                         -> Acquire(c, r, g)

\* LLMClient.chat for the route: streams take no answer from the cache.
Chat(c, r, g) == IF r.stream THEN Provide(c, r, g) ELSE Becomes(c, [r EXCEPT !.at = "lookup"], g)

\* A mutation of Select: the budget is not looked at.
SelectAnyhow == {"local", "cloud"}

\* CostAwareRouter.select: the local provider if the budget is spent; otherwise
\* what the score of the query says.
Select == IF spent >= DailyBudget THEN {"local"} ELSE {"local", "cloud"}

\* The call has failed and leaves the slots as g.  If it was routed away from the
\* client's own provider, that one is tried, whatever has been spent.
Fails(c, g) ==
  IF chat[c].route # own
  THEN /\ own = "cloud" => fallbacks < MaxFallbacks
       /\ Chat(c, [chat[c] EXCEPT !.route = own, !.try = 0, !.fallen = TRUE], g)
       /\ fallbacks' = IF own = "cloud" THEN fallbacks + 1 ELSE fallbacks
  ELSE Becomes(c, NoChat, g) /\ UNCHANGED fallbacks

-----------------------------------------------------------------------------
Ask(c, stream) ==
  /\ chat[c].at = "idle"
  /\ \E route \in Select : Chat(c, [NoChat EXCEPT !.route = route, !.stream = stream], gpu)
  /\ UNCHANGED <<config, spent, fallbacks>>

\* The semantic cache answers: a hit, or a miss.
Lookup(c) ==
  /\ chat[c].at = "lookup"
  /\ Becomes(c, NoChat, gpu) \/ Provide(c, chat[c], gpu)
  /\ UNCHANGED <<config, spent, fallbacks>>

\* A woken coroutine has its slot; if there is another free one, the next is woken.
Acquired(c) ==
  /\ c \in gpu.woken
  /\ Becomes(c, Served(chat[c]), WakeFirst(Without(gpu, c)))
  /\ UNCHANGED <<config, spent, fallbacks>>

\* The task of wait_for starts.
Poll(c) ==
  /\ chat[c].at = "starting"
  /\ Acquire(c, chat[c], gpu)
  /\ UNCHANGED <<config, spent, fallbacks>>

\* wait_for gives its task up, and the coroutine queues behind the others.
PollAgain(c) ==
  /\ patience /\ chat[c].at = "waiting"
  /\ Provide(c, chat[c], Left(c))
  /\ UNCHANGED <<config, spent, fallbacks>>

\* The deadline has passed.
Saturated(c) ==
  /\ patience /\ chat[c].at \in {"starting", "waiting"}
  /\ Fails(c, Left(c))
  /\ UNCHANGED <<config, spent>>

\* The provider has answered: the slot is released, the cloud's price charged,
\* and the answer goes to the cache.
Answered(c) ==
  /\ chat[c].at = "asking"
  /\ Becomes(c, [chat[c] EXCEPT !.at = "storing"], Left(c))
  /\ spent' = IF chat[c].route = "cloud" THEN spent + 1 ELSE spent
  /\ UNCHANGED <<config, fallbacks>>

Stored(c) ==
  /\ chat[c].at = "storing"
  /\ Becomes(c, NoChat, gpu)
  /\ UNCHANGED <<config, spent, fallbacks>>

\* _retry_with_backoff: an error worth another attempt, for which the slot is kept.
Retry(c) ==
  /\ \/ /\ chat[c].at = "asking" /\ chat[c].try < MaxRetries
        /\ Becomes(c, [chat[c] EXCEPT !.at = "pausing", !.try = @ + 1], gpu)
     \/ /\ chat[c].at = "pausing"
        /\ Becomes(c, [chat[c] EXCEPT !.at = "asking"], gpu)
  /\ UNCHANGED <<config, spent, fallbacks>>

RaiseChat(c) ==
  /\ chat[c].at = "asking"
  /\ Fails(c, Left(c))
  /\ UNCHANGED <<config, spent>>

\* The stream is exhausted, closed, or collected some time after it was left.
StreamEnds(c) ==
  /\ chat[c].at = "streaming"
  /\ Becomes(c, NoChat, Left(c))
  /\ spent' = IF chat[c].route = "cloud" THEN spent + 1 ELSE spent
  /\ UNCHANGED <<config, fallbacks>>

\* The coroutine is cancelled; a stream's own end is StreamEnds.
CancelChat(c) ==
  /\ chat[c].at \notin {"idle", "streaming"}
  /\ Becomes(c, NoChat, Left(c))
  /\ UNCHANGED <<config, spent, fallbacks>>

\* _reset_if_new_day.
NewDay ==
  /\ spent > 0
  /\ spent' = 0
  /\ UNCHANGED <<config, gpu, chat, fallbacks>>

CNext ==
  \/ \E c \in Asker :
       \/ \E stream \in BOOLEAN : Ask(c, stream)
       \/ Lookup(c) \/ Acquired(c) \/ Poll(c) \/ PollAgain(c) \/ Saturated(c)
       \/ Answered(c) \/ Stored(c) \/ Retry(c) \/ RaiseChat(c) \/ StreamEnds(c) \/ CancelChat(c)
  \/ NewDay

CSpec == CInit /\ [][CNext]_cvars

-----------------------------------------------------------------------------
CTypeOK ==
  /\ own \in {"local", "cloud"} /\ patience \in BOOLEAN
  /\ gpu.free \in 0 .. Slots /\ gpu.queue \in Seq(Asker) /\ gpu.woken \subseteq Asker
  /\ chat \in [Asker -> [at : {"idle", "lookup", "starting", "waiting", "asking", "pausing",
                               "storing", "streaming"},
                         route : {"local", "cloud"}, stream : BOOLEAN, try : 0 .. MaxRetries,
                         fallen : BOOLEAN]]
  /\ spent \in Nat /\ fallbacks \in 0 .. MaxFallbacks

\* No slot of the GPU is lost or given twice, and none is free while somebody
\* waits and nobody is on the way to take it: not through retries, refused
\* polls, cancellations of a coroutine just woken, or streams that outlive the
\* call that made them (ollama.py 295-320, 378-384; llm_client.py 182-189, 236-262).
SlotsKept ==
  /\ gpu.free + Cardinality(gpu.woken) + Cardinality({c \in Asker : Holds(c)}) = Slots
  /\ {gpu.queue[i] : i \in DOMAIN gpu.queue} = {c \in Asker : chat[c].at = "waiting"}
  /\ gpu.free > 0 /\ gpu.queue # <<>> => gpu.woken # {}

\* The budget is looked at before a call and charged after it.  A day's charges,
\* those to come included, exceed it by no more than the calls that may overlap
\* and those whose local provider failed.
BudgetKept ==
  spent + Cardinality({c \in Asker : Pays(c) /\ ~chat[c].fallen})
    < DailyBudget + Cardinality(Asker) + fallbacks
=============================================================================
