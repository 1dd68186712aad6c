--------------------------- MODULE MCGuardedWrite ---------------------------
(* Instances of GuardedWrite for TLC; the cfg files give the constants.    *)
EXTENDS GuardedWrite
=============================================================================
