------------------------------ MODULE MCFluent ------------------------------
(***************************************************************************)
(* Three calls with two attempts each on one fluent, of each mode, with    *)
(* and without a shapes graph.  The shapes refuse the value 2.  The        *)
(* calls are alike: they ask for the same requests.                        *)
(***************************************************************************)
EXTENDS Fluent, TLC

AllModes    == {"NumericAccumulator", "SetValueMode", "ListAccumulator"}
MixedGates  == {TRUE, FALSE}
Small       == {-1, 0, 1}
AnyRequest  == [op : {"Set", "Insert", "Remove", "ListInsert", "ListRemove"}, arg : {1}]
                 \cup {[op |-> "Set", arg |-> 2]}

SeedValues  == {NoValue, 0}
Alike       == Permutations(Calls)
=============================================================================
