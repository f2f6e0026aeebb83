----------------------------- MODULE MCTriggers -----------------------------
(***************************************************************************)
(* One rule trigger, one focus and two requests that may each evaluate,    *)
(* review and edit; only the definer's right to stage is contested.        *)
(***************************************************************************)
EXTENDS Triggers, TLC

CONSTANTS r1, r2

OneTrigger  == {"t1"}
OneFocus    == {"f1"}
OnePerson   == {"p1"}
TwoRequests == {r1, r2}
Staging     == {<<"p1", "stage">>}

Alike == Permutations(TwoRequests)
=============================================================================
