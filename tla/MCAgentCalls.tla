---------------------------- MODULE MCAgentCalls ----------------------------
(***************************************************************************)
(* Two instances: one call that three workers fight over, with late        *)
(* replies, late updates and crashes; and a queue of two calls for a       *)
(* dispatcher that takes two per batch, where it may never be possible to  *)
(* find out about one of them, which may be the oldest.                    *)
(***************************************************************************)
EXTENDS AgentCalls

OneCall      == {"a1"}
TwoCalls     == {"a1", "a2"}
OneOfThem    == {"a1"}
None         == {}
OneWorker    == {"w1"}
ThreeWorkers == {"w1", "w2", "w3"}
Either       == {TRUE, FALSE}
TimelyOnly   == {TRUE}
=============================================================================
