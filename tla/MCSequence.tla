----------------------------- MODULE MCSequence -----------------------------
(***************************************************************************)
(* Three concurrent mint calls with two attempts each: enough for a call   *)
(* to be overtaken between its update and its read-back, and to run out.   *)
(***************************************************************************)
EXTENDS Sequence

ThreeCalls == {"m1", "m2", "m3"}
=============================================================================
