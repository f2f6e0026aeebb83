------------------------------ MODULE MCRules ------------------------------
EXTENDS Rules, TLC
CONSTANTS p, q

TwoReqs == {p, q}
TwoRules == {1, 2}
TwoGraphs == {"g", "h"}
OneKey == {"k"}
TwoValues == {"x", "y"}
SomeOutputs == {{<<"k", "x">>}, {<<"k", "y">>}, {<<"k", "x">>, <<"k", "y">>}}
Some == {{}}
Symmetry == Permutations(TwoReqs)
AllOrOne == {TwoRules, {1}}
Superseding == [mode |-> "Supersede", target |-> "g", status |-> "Active", order |-> 1]
Replacing == [mode |-> "Replace", target |-> "g", status |-> "Active", order |-> 0]
First == {<<Superseding, Replacing>>, <<Replacing, Superseding>>}
Defs == {[Replacing EXCEPT !.mode = "Sync"], [Superseding EXCEPT !.status = "Suspended"]}
SomeAsks == {[id |-> 1, mode |-> AsDeclared, target |-> AsDeclared],
         [id |-> 2, mode |-> "Append", target |-> "h"],
         [id |-> 1, mode |-> "Supersede", target |-> "h"]}
Ops == {"clear", "move", "create"}
=============================================================================
