---------------------------- MODULE MCScheduler ----------------------------
(***************************************************************************)
(* Two tasks of one persona, the second a dispatch of agent calls; the     *)
(* loop and one operator.  Everything happens on one day, in two hours     *)
(* on which either task can come due; the first of them may have to be     *)
(* created.                                                                *)
(***************************************************************************)
EXTENDS Scheduler

TwoTasks     == {"a", "b"}
InOrder      == <<"a", "b">>
OnePersona   == {"p"}
BothNameIt   == [t \in TwoTasks |-> "p"]
OneOfThem    == {{"b"}}
OnlyB        == {"b"}
Limits       == [s \in {"a", "b", "p"} |-> IF s = "a" THEN 1 ELSE IF s = "b" THEN Unlimited ELSE 2]
TheLoop      == {"loop"}
LoopAndAdmin == {"loop", "admin"}
=============================================================================
