---------------------------- MODULE MCPopReplay ----------------------------
(* The replay store alone, for the order of its requests. *)
EXTENDS PopReplay
=============================================================================
