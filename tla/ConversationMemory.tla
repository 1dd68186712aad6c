------------------------- MODULE ConversationMemory -------------------------
(***************************************************************************)
(* ConversationMemory (core/memory.py): the one memory of the agent that   *)
(* all handlers share.  It has an active user, an active session and the   *)
(* session's turns, and keeps sessions and messages in the database        *)
(* (core/db/sessions.py).                                                  *)
(*                                                                         *)
(* A coroutine suspends only where it awaits the database.  Operations of  *)
(* the database take effect one at a time, in the order of the calls, and  *)
(* whole (SqliteLane); until its own has, a coroutine does not go on.  A   *)
(* call may raise, which ends the coroutine without an effect, and a       *)
(* coroutine that is cancelled may leave the effect of its last call.      *)
(*                                                                         *)
(* Turns are numbered as they are said and keep their number when          *)
(* apply_summary adds them again; 0 is a summary, a pair of turns in the   *)
(* code.                                                                   *)
(***************************************************************************)
EXTENDS Queues, FiniteSets

CONSTANTS
  Coroutine,
  User,
  Session,    \* ids, never used twice
  Unset,      \* None; no user and no session yet
  Gone,       \* the owner of a deleted session
  TurnLimit,  \* max_turns * 2
  KeepLast,   \* keep_last
  MinMessages,\* min_messages of a session worth compacting
  MaxAdds     \* bound: turns

ASSUME MemoryAssumption ==
  /\ {Unset, Gone} \cap User = {} /\ Unset \notin Session /\ Unset # Gone
  /\ IsFiniteSet(Session)
  /\ TurnLimit \in Nat \ {0} /\ KeepLast \in Nat /\ MinMessages \in Nat \ {0} /\ MaxAdds \in Nat

VARIABLES
  user,    \* active_user_id
  session, \* active_session_id
  turns,   \* _turns
  owner,   \* the database: sessions by owner...
  stored,  \* ...and their messages
  calls,   \* coroutines at the database, the one it works for first
  doing,   \* what each coroutine awaits, and what for
  home,    \* history: the conversation in which a turn was said
  conversation \* history: the conversation that a session holds: its own, that of the session
               \* which apply_summary made it from, or Unset if others came between

mine  == <<user, session, turns>>
table == <<owner, stored>>
past  == <<home, conversation>>
mvars == <<mine, table, calls, doing, past>>

\* next: what follows a creation or a deletion; left: sessions to count;
\* messages: texts to add or to write, the one that is at the database first.
Resting == [at |-> "idle", user |-> Unset, session |-> Unset, messages |-> <<>>,
            left |-> 0, next |-> "end"]

MInit ==
  /\ user = Unset /\ session = Unset /\ turns = <<>>
  /\ owner = [s \in Session |-> Unset]
  /\ stored = [s \in Session |-> <<>>]
  /\ calls = <<>>
  /\ doing = [c \in Coroutine |-> Resting]
  /\ home = <<>> /\ conversation = [s \in Session |-> s]

-----------------------------------------------------------------------------
\* A mutation of Serves: the database works for whoever calls.
ServesAny(c, call) == doing[c].at = call

\* The database has done what c awaits.
Serves(c, call) == doing[c].at = call /\ Head(calls) = c

\* The coroutine calls the database again, or ends.
Others(c)  == Leave(calls, c)
Calls(c, r) == doing' = [doing EXCEPT ![c] = r] /\ calls' = Append(Others(c), c)
Ends(c)    == doing' = [doing EXCEPT ![c] = Resting] /\ calls' = Others(c)
Rests(c)   == doing[c].at = "idle"
Last(s, n) == SubSeq(s, IF Len(s) > n THEN Len(s) - n + 1 ELSE 1, Len(s))
Owned(u)   == {s \in Session : owner[s] = u}

\* An id for a new session: one is as good as another.
IsNew(s) == owner[s] = Unset /\ s = CHOOSE t \in Session : owner[t] = Unset

\* load_session and create_session up to their first await, for whoever is active by then.
Load(c, s)      == Calls(c, [Resting EXCEPT !.at = "load", !.user = user, !.session = s])
Create(c, next) == Calls(c, [Resting EXCEPT !.at = "create", !.user = user, !.next = next])

\* add: the first of the texts enters the memory of session s and is on its way there.
Enter(c, s, now, texts) ==
  /\ turns' = Last(Append(now, Head(texts)), TurnLimit)
  /\ Calls(c, [Resting EXCEPT !.at = "add", !.session = s, !.messages = texts])

\* A turn is said in session s.
Say(c, s, now) ==
  /\ Len(home) < MaxAdds
  /\ home' = Append(home, conversation[s])
  /\ Enter(c, s, now, <<Len(home) + 1>>)

\* A summary's turns are being added to session s.
Readding(s) == \E d \in Coroutine :
  doing[d].at = "add" /\ doing[d].session = s /\ Len(doing[d].messages) > 1

\* The texts of a session are those of several conversations from now on, or of
\* one in no order.
Mixed(s) == conversation' = [conversation EXCEPT ![s] = Unset]

\* The statements of the database.
Insert(s, u)    == owner' = [owner EXCEPT ![s] = u] /\ UNCHANGED stored
Remove(s)       == owner' = [owner EXCEPT ![s] = Gone] /\ stored' = [stored EXCEPT ![s] = <<>>]
Write(s, texts) == stored' = [stored EXCEPT ![s] = texts] /\ UNCHANGED owner

-----------------------------------------------------------------------------
\* set_active_user: the user's row, then a session, the latest or a new one.
SetActiveUser(c, u) ==
  /\ Rests(c)
  /\ Calls(c, [Resting EXCEPT !.at = "user", !.user = u])
  /\ UNCHANGED <<mine, table, past>>

UserEnsured(c) ==
  /\ Serves(c, "user")
  /\ user' = doing[c].user
  /\ Calls(c, [doing[c] EXCEPT !.at = "list"])
  /\ UNCHANGED <<session, turns, table, past>>

Listed(c) ==
  /\ Serves(c, "list")
  /\ IF Owned(doing[c].user) = {} THEN Create(c, "end")
                                  ELSE \E s \in Owned(doing[c].user) : Load(c, s)
  /\ UNCHANGED <<mine, table, past>>

\* load_session, create_session: _require_active_user lets them begin.
LoadSession(c, s)  == Rests(c) /\ user # Unset /\ Load(c, s) /\ UNCHANGED <<mine, table, past>>
CreateSession(c)   == Rests(c) /\ user # Unset /\ Create(c, "end") /\ UNCHANGED <<mine, table, past>>

Loaded(c) ==
  /\ Serves(c, "load")
  /\ IF owner[doing[c].session] = doing[c].user
     THEN Calls(c, [doing[c] EXCEPT !.at = "get", !.user = Unset])
     ELSE Ends(c)
  /\ UNCHANGED <<mine, table, past>>

Got(c) ==
  /\ Serves(c, "get")
  /\ session' = doing[c].session
  /\ turns' = stored[doing[c].session]
  /\ Ends(c)
  /\ UNCHANGED <<user, table, past>>

\* The new session is the active one; then what it was made for: a turn waits
\* to be added, or the turns of a summary, which continue their conversation if
\* their session was deleted for them and the new one is the same user's.
Created(c) ==
  /\ Serves(c, "create")
  /\ \E s \in Session :
       /\ IsNew(s)
       /\ Insert(s, doing[c].user)
       /\ session' = s
       /\ \/ /\ doing[c].messages = <<>> /\ doing[c].next = "end"
             /\ turns' = <<>> /\ Ends(c) /\ UNCHANGED past
          \/ doing[c].next = "add" /\ Say(c, s, <<>>) /\ UNCHANGED conversation
          \/ /\ doing[c].messages # <<>>
             /\ Enter(c, s, <<>>, doing[c].messages)
             /\ conversation' = [conversation EXCEPT ![s] =
                  IF doing[c].session = Unset THEN Unset ELSE conversation[doing[c].session]]
             /\ UNCHANGED home
  /\ UNCHANGED user

\* add, with a session of its own if there is none yet.
Add(c) ==
  /\ Rests(c) /\ user # Unset
  /\ IF session = Unset
     THEN Create(c, "add") /\ UNCHANGED <<turns, past>>
     ELSE /\ Say(c, session, turns)
          /\ IF Readding(session) THEN Mixed(session) ELSE UNCHANGED conversation
  /\ UNCHANGED <<user, session, table>>

\* The message is stored, unless its session is gone (a foreign key); apply_summary
\* goes on with the next turn, for the session that is active now.
Added(c) ==
  /\ Serves(c, "add")
  /\ LET s    == doing[c].session
         rest == Tail(doing[c].messages)
     IN  IF owner[s] = Gone
         THEN Ends(c) /\ UNCHANGED <<turns, table, past>>
         ELSE /\ Write(s, Append(stored[s], Head(doing[c].messages)))
              /\ IF rest = <<>>
                 THEN Ends(c) /\ UNCHANGED <<turns, past>>
                 ELSE /\ Enter(c, session, turns, rest)
                      /\ IF session = s THEN UNCHANGED conversation ELSE Mixed(session)
                      /\ UNCHANGED home
  /\ UNCHANGED <<user, session>>

\* clear and apply_summary replace the turns at once and the session afterwards.
Clear(c) ==
  /\ Rests(c)
  /\ turns' = <<>>
  /\ IF session = Unset
     THEN Ends(c)
     ELSE Calls(c, [Resting EXCEPT !.at = "delete", !.user = user, !.session = session,
                                   !.next = "create"])
  /\ UNCHANGED <<user, session, table, past>>

ApplySummary(c) ==
  /\ Rests(c)
  /\ LET compact == <<0>> \o Last(turns, KeepLast)
     IN  /\ turns' = compact
         /\ IF session = Unset \/ user = Unset
            THEN Ends(c)
            ELSE Calls(c, [Resting EXCEPT !.at = "delete", !.user = user, !.session = session,
                                          !.next = "create", !.messages = compact])
  /\ UNCHANGED <<user, session, table, past>>

\* delete_session: the active session is followed by another one of its user's.
DeleteSession(c, s) ==
  /\ Rests(c) /\ user # Unset
  /\ Calls(c, [Resting EXCEPT !.at = "delete", !.user = user, !.session = s, !.next = "switch"])
  /\ UNCHANGED <<mine, table, past>>

\* The result of the deletion is looked at by delete_session only; the others
\* create a session for whoever is active by now.
Deleted(c) ==
  /\ Serves(c, "delete")
  /\ LET r  == doing[c]
         ok == owner[r.session] = r.user
     IN  /\ IF ok THEN Remove(r.session) ELSE UNCHANGED table
         /\ \/ /\ r.next = "create" /\ user # Unset
               /\ Calls(c, [Resting EXCEPT !.at = "create", !.user = user, !.messages = r.messages,
                            !.session = IF ok /\ user = r.user THEN r.session ELSE Unset])
            \/ /\ r.next = "switch" /\ ok /\ session = r.session
               /\ Calls(c, [Resting EXCEPT !.at = "others", !.user = user])
            \/ r.next = "switch" /\ ~(ok /\ session = r.session) /\ Ends(c)
  /\ UNCHANGED <<mine, past>>

\* get_all_sessions: a list, and a query for the messages of each session.
OthersListed(c) ==
  /\ Serves(c, "others")
  /\ LET theirs == Owned(doing[c].user)
     IN  IF theirs = {} THEN Create(c, "end")
         ELSE \E s \in theirs : Calls(c, [Resting EXCEPT !.at = "count", !.session = s,
                                                         !.left = Cardinality(theirs)])
  /\ UNCHANGED <<mine, table, past>>

Counted(c) ==
  /\ Serves(c, "count")
  /\ IF doing[c].left = 1 THEN Load(c, doing[c].session)
                          ELSE Calls(c, [doing[c] EXCEPT !.left = @ - 1])
  /\ UNCHANGED <<mine, table, past>>

\* compact_session, for a session that run_nightly_consolidation has listed; the
\* local lock of the maintenance lets in one coroutine at a time.
CompactSession(c, s) ==
  /\ Rests(c) /\ owner[s] \in User
  /\ \A d \in Coroutine : doing[d].at \notin {"peek", "read", "replace"}
  /\ Calls(c, [Resting EXCEPT !.at = "peek", !.user = owner[s], !.session = s])
  /\ UNCHANGED <<mine, table, past>>

Peeked(c) ==
  /\ Serves(c, "peek")
  /\ IF owner[doing[c].session] = doing[c].user
     THEN Calls(c, [doing[c] EXCEPT !.at = "read"])
     ELSE Ends(c)
  /\ UNCHANGED <<mine, table, past>>

Read(c) ==
  /\ Serves(c, "read")
  /\ LET all == stored[doing[c].session]
     IN  IF Len(all) < MinMessages THEN Ends(c)
         ELSE Calls(c, [doing[c] EXCEPT !.at = "replace",
                                        !.messages = <<0>> \o Last(all, KeepLast)])
  /\ UNCHANGED <<mine, table, past>>

\* A mutation of Replaced: the turns are replaced whatever is active by now.
ReplacedAnyhow(c) ==
  /\ Serves(c, "replace")
  /\ LET r == doing[c]
     IN  IF owner[r.session] = Gone
         THEN UNCHANGED <<turns, table>>
         ELSE Write(r.session, r.messages) /\ turns' = r.messages
  /\ Ends(c)
  /\ UNCHANGED <<user, session, past>>

\* replace_session_messages is done; so are the turns, if the session is active still.
Replaced(c) ==
  /\ Serves(c, "replace")
  /\ LET r == doing[c]
     IN  IF owner[r.session] = Gone
         THEN UNCHANGED <<turns, table>>
         ELSE /\ Write(r.session, r.messages)
              /\ turns' = IF user = r.user /\ session = r.session THEN r.messages ELSE turns
  /\ Ends(c)
  /\ UNCHANGED <<user, session, past>>

\* A call raises, or its coroutine is cancelled before it takes effect.
GivesUp(c) ==
  /\ ~Rests(c)
  /\ Ends(c)
  /\ UNCHANGED <<mine, table, past>>

\* The coroutine is cancelled when its call has taken effect.
CancelledLate(c) ==
  /\ LET r == doing[c]
     IN  \/ Serves(c, "create") /\ \E s \in Session : IsNew(s) /\ Insert(s, r.user)
         \/ Serves(c, "delete") /\ owner[r.session] = r.user /\ Remove(r.session)
         \/ /\ Serves(c, "add") /\ owner[r.session] # Gone
            /\ Write(r.session, Append(stored[r.session], Head(r.messages)))
         \/ Serves(c, "replace") /\ owner[r.session] # Gone /\ Write(r.session, r.messages)
  /\ Ends(c)
  /\ UNCHANGED <<mine, past>>

MemoryStep(c) ==
  \/ CreateSession(c) \/ Add(c) \/ Clear(c) \/ ApplySummary(c)
  \/ \E u \in User : SetActiveUser(c, u)
  \/ \E s \in Session : LoadSession(c, s) \/ DeleteSession(c, s) \/ CompactSession(c, s)
  \/ UserEnsured(c) \/ Listed(c) \/ Loaded(c) \/ Got(c) \/ Created(c) \/ Added(c) \/ Deleted(c)
  \/ OthersListed(c) \/ Counted(c) \/ Peeked(c) \/ Read(c) \/ Replaced(c)
  \/ GivesUp(c) \/ CancelledLate(c)

MNext == \E c \in Coroutine : MemoryStep(c)

MemorySpec == MInit /\ [][MNext]_mvars

-----------------------------------------------------------------------------
MTypeOK ==
  /\ user \in User \cup {Unset} /\ session \in Session \cup {Unset}
  /\ home \in Seq(Session \cup {Unset}) /\ Len(home) <= MaxAdds
  /\ conversation \in [Session -> Session \cup {Unset}]
  /\ turns \in Seq(0 .. Len(home))
  /\ owner \in [Session -> User \cup {Unset, Gone}]
  /\ stored \in [Session -> Seq(0 .. Len(home))]
  /\ calls \in Seq(Coroutine)
  /\ doing \in [Coroutine -> [at : {"idle", "user", "list", "load", "get", "create", "add", "delete",
                                    "others", "count", "peek", "read", "replace"},
                              user : User \cup {Unset}, session : Session \cup {Unset},
                              messages : Seq(0 .. Len(home)), left : Nat,
                              next : {"end", "add", "create", "switch"}]]

\* All of the texts, summaries apart, were said in conversation k.
SaidIn(texts, k) == \A i \in DOMAIN texts : texts[i] # 0 => home[texts[i]] = k

\* The sessions whose summaries, if they had any, nobody came between: apply_summary
\* adds the old turns one by one, to whatever session is active by then.
Whole == {s \in Session : conversation[s] # Unset}

\* The turns that the agent is given are those of the active session, and every
\* session has only messages that were said in its conversation, however handlers
\* switch users and sessions while others add, summarise, compact, clear and delete.
TurnsOfSession ==
  /\ session \in Whole => SaidIn(turns, conversation[session])
  /\ \A s \in Whole : SaidIn(stored[s], conversation[s])

InOrder(s) == \A i, j \in DOMAIN s : i < j => s[i] = 0 \/ s[i] < s[j]

\* Memory and database have the turns of a session in the order in which they
\* were said, summaries first, and each once: no summary, compaction, reload or
\* cancelled write that others overlap brings one back behind a later one.
TurnsInOrder ==
  /\ session \in Whole => InOrder(turns)
  /\ \A s \in Whole : InOrder(stored[s])
=============================================================================
