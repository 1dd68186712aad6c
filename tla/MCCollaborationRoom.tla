------------------------ MODULE MCCollaborationRoom ------------------------
(* Instances of CollaborationRoom for TLC; the cfg files give the          *)
(* constants.                                                              *)
EXTENDS CollaborationRoom, TLC

\* Sockets, room objects and replies differ in nothing but their names; used
\* where no liveness property is checked.
Symmetry == Permutations(Socket) \cup Permutations(Room) \cup Permutations(Reply)
=============================================================================
