---------------------------- MODULE MCPipelines ----------------------------
(* Two runs and two administrators, over a manifest in which a prompt and  *)
(* a write both wait for a source, one that validates and hands over, and  *)
(* one with a cycle.                                                       *)
EXTENDS Pipelines, TLC

ThreeManifests == {"ask", "check", "cycle"}

TheKinds ==
  "ask" :> ("src" :> "source" @@ "ctx" :> "context" @@ "say" :> "agent" @@ "put" :> "rule")
  @@ "check" :> ("chk" :> "shacl" @@ "out" :> "projection" @@ "ext" :> "external" @@ "say" :> "llm")
  @@ "cycle" :> ("x" :> "rule" @@ "y" :> "rule")

TheDeps ==
  "ask" :> ("src" :> {} @@ "ctx" :> {"src"} @@ "say" :> {"ctx", "put"} @@ "put" :> {"src"})
  @@ "check" :> ("chk" :> {"gone"} @@ "out" :> {"chk"} @@ "ext" :> {"out"} @@ "say" :> {})
  @@ "cycle" :> ("x" :> {"y"} @@ "y" :> {"x"})

TheRanks ==
  "ask" :> ("src" :> 4 @@ "ctx" :> 3 @@ "say" :> 1 @@ "put" :> 2)
  @@ "check" :> ("chk" :> 2 @@ "out" :> 1 @@ "ext" :> 3 @@ "say" :> 4)
  @@ "cycle" :> ("x" :> 1 @@ "y" :> 2)

TheRules == [m \in ThreeManifests |-> [s \in DOMAIN TheKinds[m] |-> "r"]]

TwoMessages == {"m1", "m2"}
TwoAdmins   == {"a1", "a2"}
OneRule     == {"r"}
OnePerson   == {"p"}
=============================================================================
