---------------------------- MODULE MCFragments -----------------------------
(* A small instance of Fragments: every kind of max_files.                   *)
EXTENDS Fragments

AnyMaxFiles == {-1, 0, 1, 2}
=============================================================================
