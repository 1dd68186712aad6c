---------------------------- MODULE MCWebSockets ----------------------------
(* Instances of CollaborationRoom, VoiceSession, ConversationMemory and    *)
(* SqliteLane for TLC.  The sockets of the two routes share the agent's    *)
(* memory, which knows nothing of rooms and voices, and its database does  *)
(* operations whatever they are for: no state is shared by two of the      *)
(* modules, so that each behaviour is one of a single part.                *)
EXTENDS MCCollaborationRoom, VoiceSession, ConversationMemory, SqliteLane
CONSTANT MaxErrands  \* bound: what the coroutines do with the memory

VARIABLES
  part,
  errands  \* how many they have begun

allVars == <<vars, vvars, mvars, qvars, part, errands>>

MCInit ==
  /\ Init /\ VInit /\ MInit /\ QInit
  /\ part \in {"room", "voice", "memory", "database"}
  /\ errands = 0

\* The handler has returned and no task is left: a session may rest here only.
SessionOver == handler \in {"left", "closed"} /\ \A t \in Turn : ~Running(t)

\* All errands are over, and nothing more is begun.
ErrandsOver == errands = MaxErrands /\ \A c \in Coroutine : Rests(c)

MCMemory ==
  \E c \in Coroutine :
    /\ MemoryStep(c)
    /\ errands' = IF Rests(c) THEN errands + 1 ELSE errands
    /\ errands' <= MaxErrands

MCNext ==
  \/ part = "room" /\ Next /\ UNCHANGED <<vvars, mvars, qvars, part, errands>>
  \/ part = "voice" /\ VNext /\ UNCHANGED <<vars, mvars, qvars, part, errands>>
  \/ part = "voice" /\ SessionOver /\ UNCHANGED allVars
  \/ part = "memory" /\ MCMemory /\ UNCHANGED <<vars, vvars, qvars, part>>
  \/ part = "memory" /\ ErrandsOver /\ UNCHANGED allVars
  \/ part = "database" /\ QNext /\ UNCHANGED <<vars, vvars, mvars, part, errands>>

MCSpec == MCInit /\ [][MCNext]_allVars

\* The variables of the other parts keep their initial values.
MCTypeOK ==
  CASE part = "room" -> TypeOK
    [] part = "voice" -> VTypeOK
    [] part = "memory" -> MTypeOK
    [] part = "database" -> QTypeOK
=============================================================================
