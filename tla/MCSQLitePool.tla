---------------------------- MODULE MCSQLitePool ----------------------------
(* Instances of SQLitePool for TLC. *)
EXTENDS SQLitePool, TLC
=============================================================================
