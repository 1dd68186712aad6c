----------------------------- MODULE MCHitlGate -----------------------------
(* Instances of HitlGate for TLC; the cfg files give the constants.        *)
EXTENDS HitlGate
=============================================================================
