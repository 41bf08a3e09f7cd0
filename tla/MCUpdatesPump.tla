---------------------------- MODULE MCUpdatesPump ----------------------------
(* Instance of UpdatesPump; the bounds are in the configurations.            *)
EXTENDS UpdatesPump
=============================================================================
