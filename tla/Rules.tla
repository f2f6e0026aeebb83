------------------------------- MODULE Rules -------------------------------
(* Named rules (holonbridge/named_rules.py, routes/named_rules.py): stored    *)
(* CONSTRUCTs whose result is put into a scratch graph and applied to a       *)
(* target graph in one of four write modes, by requests that overlap.         *)
(*                                                                            *)
(* A triple is a pair <<key, value>>: its key stands for (subject,            *)
(* predicate), the identity that Supersede uses.  What a CONSTRUCT derives    *)
(* depends on data this module does not hold: it is any member of Outputs.    *)
(* The triple counts of the answer are left out; so is after_write, which     *)
(* module Triggers models.                                                    *)
EXTENDS Integers, Sequences, FiniteSets

CONSTANTS
  Reqs,        \* the requests that can be in progress at once
  RuleIds,     \* ids of the rules, in alphabetical order of the integers
  Graphs,      \* the graphs that rules write
  Keys,        \* (subject, predicate) pairs
  Values,      \* objects of triples
  Outputs,     \* what a CONSTRUCT may derive
  Reaches,     \* sets of rules that a caller's toolset may reach
  Definitions, \* definitions an editor may push into the registry graph
  Attempts,    \* compare-and-set attempts of _apply_supersede (8 in the code)
  MaxEvents,   \* bound: requests begun, pushes, graph operations, timeouts and crashes
  Registered,  \* the registries to begin with
  Contents,    \* what a graph may hold at first
  Asks,        \* the [id, mode, target] a run may ask for
  Operations,  \* graph operations
  NoRule,      \* the id is not in the registry
  NoEntry,     \* the cache holds nothing for this connection
  NoValue,     \* no live value was read
  AsDeclared   \* the request leaves mode or target to the rule

Modes == {"Append", "Replace", "Sync", "Supersede"}
Statuses == {"Active", "Suspended", "Deprecated"}
Triples == Keys \X Values
(* A rule as the registry states it.  order 0 stands for a rule that declares *)
(* none, or one that does not parse as an integer.                            *)
RuleDefs == [mode: Modes, target: Graphs, status: Statuses, order: 0..2]
Registries == [RuleIds -> RuleDefs \union {NoRule}]
AnyAsk == [id: RuleIds \union {NoRule}, mode: Modes \union {AsDeclared},
           target: Graphs \union {AsDeclared}]
NoAsk == [id |-> NoRule, mode |-> AsDeclared, target |-> AsDeclared]
Empty == [i \in RuleIds |-> NoRule]

ASSUME BoundsAssumption ==
  /\ Outputs \subseteq SUBSET Triples
  /\ Definitions \subseteq RuleDefs \union {NoRule} /\ Registered \subseteq Registries
  /\ Reaches \subseteq SUBSET RuleIds /\ IsFiniteSet(RuleIds)
  /\ Asks \subseteq AnyAsk
  /\ Contents \subseteq SUBSET Triples
  /\ \A c \in Contents, s, t \in Triples : s \in c /\ t \in c /\ s[1] = t[1] => s = t
  /\ Attempts \in Nat \ {0} /\ MaxEvents \in Nat
  /\ NoRule \notin RuleDefs /\ NoEntry \notin Registries /\ NoValue \notin Values

VARIABLES
  registry,  \* urn:{dataset}:named-rules
  cached,    \* the RegistryCache entry for it
  graphs,    \* content of each graph
  replaced,  \* the hb:supersededBy annotations, which are in the default graph
  scratch,   \* requests whose scratch graph exists
  req,       \* the requests in progress
  copying,   \* timed-out updates out of a scratch graph that the store may yet run
  setting,   \* timed-out updates of Supersede that the store may yet run
  wrote,     \* history: what has written each graph (modes, or graph operations)
  blanked,   \* history: the graphs last written out of a scratch graph that was gone
  events     \* bound

late == <<copying, setting, blanked>>
vars == <<registry, cached, graphs, replaced, scratch, req, late, wrote, events>>

Idle == [pc |-> "idle", kind |-> "one", ask |-> NoAsk, stop |-> TRUE, loaded |-> NoEntry,
         todo |-> <<>>, run |-> NoRule, out |-> {}, pairs |-> {}, key |-> NoValue,
         old |-> NoValue, tries |-> 0, failed |-> FALSE]

(* No graph holds two values of one key at first.                            *)
Init ==
  /\ registry \in Registered
  /\ cached = NoEntry
  /\ graphs \in [Graphs -> Contents]
  /\ replaced = {} /\ scratch = {}
  /\ copying = {} /\ setting = {} /\ blanked = {}
  /\ wrote = [g \in Graphs |-> {}]
  /\ req = [r \in Reqs |-> Idle]
  /\ events = 0

\* An update of one request's record.
With(q, changes) ==
  [f \in DOMAIN q |-> IF f \in DOMAIN changes THEN changes[f] ELSE q[f]]
Goes(r, changes) == req' = [req EXCEPT ![r] = With(req[r], changes)]

(***************************************************************************)
(* The registry, its cache, and the plan of a request.                     *)
(***************************************************************************)
(* Rules that declare an order run first, in it; the others after, by id.    *)
Before(rules, i, j) ==
  LET place(k) == <<IF rules[k].order = 0 THEN 1 ELSE 0, rules[k].order, k>>
  IN  \E n \in 1..3 : /\ place(i)[n] < place(j)[n]
                      /\ \A m \in 1..(n - 1) : place(i)[m] = place(j)[m]

(* The ids a request fires: of the rules that are Active and within its       *)
(* reach, all in order, or the one asked for (else it answers 404 or 409).    *)
(* A listing or a reload fires none.  Before is a strict order, so that one   *)
(* sequence qualifies.                                                       *)
Fired(rules, reach, q) ==
  LET active == {i \in reach : rules[i] # NoRule /\ rules[i].status = "Active"}
      asked == {i \in active : q.kind = "all" \/ (q.kind = "one" /\ q.ask.id = i)}
  IN  {ids \in [1..Cardinality(asked) -> asked] :
         \A m, n \in DOMAIN ids : m < n => Before(rules, ids[m], ids[n])}

(* A run as it is executed: the mode and the graph that the request asks for, *)
(* if it does, else the rule's own.                                          *)
Bound(rule, q) ==
  [mode |-> IF q.ask.mode = AsDeclared THEN rule.mode ELSE q.ask.mode,
   target |-> IF q.ask.target = AsDeclared THEN rule.target ELSE q.ask.target]

Plan(rules, ids, q) == [n \in DOMAIN ids |-> Bound(rules[ids[n]], q)]

(* The next run of the pass, or the end of the request.                      *)
Turn(todo) ==
  IF todo = <<>> THEN Idle
  ELSE [pc |-> "derive", run |-> Head(todo), todo |-> Tail(todo), loaded |-> NoEntry,
        out |-> {}, pairs |-> {}, key |-> NoValue, old |-> NoValue, tries |-> 0,
        failed |-> FALSE]

(* The definitions are at hand.  The caller's reach is resolved now (it is    *)
(* not cached; here any member of Reaches) and the pass planned on them.     *)
Resolve(r, rules) ==
  \E reach \in Reaches : \E ids \in Fired(rules, reach, req[r]) :
    Goes(r, Turn(Plan(rules, ids, req[r])))

(* A cached registry younger than the TTL is used without a read.            *)
Hit(r) ==
  /\ req[r].pc = "load" /\ req[r].kind # "reload" /\ cached # NoEntry
  /\ Resolve(r, cached)
  /\ UNCHANGED <<registry, cached, graphs, replaced, scratch, wrote, late>>

(* Nothing is cached, it has expired, or the request asked for a refresh.  A  *)
(* registry that cannot be read loads as an empty one.                       *)
Load(r) ==
  /\ req[r].pc = "load"
  /\ \E rules \in {registry, Empty} : Goes(r, [pc |-> "fill", loaded |-> rules])
  /\ UNCHANGED <<registry, cached, graphs, replaced, scratch, wrote, late>>

(* What was read is cached, whatever was pushed or invalidated since.        *)
Fill(r) ==
  /\ req[r].pc = "fill"
  /\ cached' = req[r].loaded
  /\ Resolve(r, req[r].loaded)
  /\ UNCHANGED <<registry, graphs, replaced, scratch, wrote, late>>

(***************************************************************************)
(* One run: CONSTRUCT into a scratch graph, apply, drop the scratch graph. *)
(***************************************************************************)
Target(r) == req[r].run.target
Live(g, k) == {v \in Values : /\ <<k, v>> \in graphs[g]
                              /\ ~\E w \in Values : <<k, v, w>> \in replaced}
New(r, k) == {v \in Values : <<k, v>> \in req[r].out}

(* What a step of a run makes of graph g when the scratch graph holds out:    *)
(* ADD it; DROP g and ADD it; delete from g what it lacks.                   *)
Applied(step, g, out) ==
  CASE step = "Replace" -> out
    [] step = "Sync"    -> graphs[g] \intersect out
    [] OTHER            -> graphs[g] \union out

Write(g, mode, content) ==
  /\ graphs' = [graphs EXCEPT ![g] = content]
  /\ wrote' = [wrote EXCEPT ![g] = @ \union {mode}]

(* The store has run request r's update, and the run goes on; or the answer   *)
(* is lost, and the run fails although it wrote.                             *)
Answered(r, next) == Goes(r, [pc |-> next]) \/ Goes(r, [pc |-> "drop", failed |-> TRUE])

(* Request r's update out of its scratch graph, within its deadline.         *)
Put(r, next) ==
  /\ Write(Target(r), req[r].run.mode, Applied(req[r].pc, Target(r), req[r].out))
  /\ blanked' = blanked \ {Target(r)}
  /\ Answered(r, next)

(* The CONSTRUCT is read and its result posted into a scratch graph, whose    *)
(* name nothing else knows.                                                  *)
Derive(r) ==
  /\ req[r].pc = "derive"
  /\ \E out \in Outputs :
       Goes(r, [pc |-> req[r].run.mode, out |-> out, pairs |-> {t[1] : t \in out}])
  /\ scratch' = scratch \union {r}
  /\ UNCHANGED <<registry, cached, graphs, replaced, wrote, late>>

(* ADD scratch TO target.                                                    *)
Append0(r) ==
  /\ req[r].pc = "Append"
  /\ Put(r, "drop")
  /\ UNCHANGED <<registry, cached, replaced, scratch, copying, setting>>

(* Mutant of Replace: the drop and the add are two requests, as they once     *)
(* were.                                                                     *)
ReplaceInTwo(r) ==
  /\ req[r].pc = "Replace"
  /\ Write(Target(r), "Replace", {}) /\ blanked' = blanked \ {Target(r)}
  /\ Answered(r, "Append")
  /\ UNCHANGED <<registry, cached, replaced, scratch, copying, setting>>

(* DROP target and ADD scratch TO target, one update and so one transaction. *)
Replace(r) ==
  /\ req[r].pc = "Replace"
  /\ Put(r, "drop")
  /\ UNCHANGED <<registry, cached, replaced, scratch, copying, setting>>

(* What the rule did not derive goes; in a second update, what it did comes. *)
SyncDelete(r) ==
  /\ req[r].pc = "Sync"
  /\ Put(r, "SyncInsert")
  /\ UNCHANGED <<registry, cached, replaced, scratch, copying, setting>>

SyncInsert(r) ==
  /\ req[r].pc = "SyncInsert"
  /\ Put(r, "drop")
  /\ UNCHANGED <<registry, cached, replaced, scratch, copying, setting>>

(* Supersede takes one pair after another.  A pair for which the rule derived *)
(* several values is refused, and what was done for pairs before it stays.    *)
(* The pair's live value is read, the first one of several.  The two readings *)
(* name hb: without declaring it; on a server that does not know the prefix   *)
(* itself each fails, and Fails is all that Supersede ever does.              *)
ReadPair(r, k) ==
  LET live == Live(Target(r), k)
      left == req[r].pairs \ {k}
  IN  IF Cardinality(New(r, k)) # 1 THEN Goes(r, [pc |-> "drop", failed |-> TRUE])
      ELSE \/ live = {} /\ Goes(r, [pc |-> "guarded", key |-> k, old |-> NoValue])
           \/ \E old \in live :
                IF old \in New(r, k)
                THEN Goes(r, [pc |-> "Supersede", pairs |-> left, key |-> NoValue, tries |-> 0])
                ELSE Goes(r, [pc |-> "guarded", key |-> k, old |-> old])

ReadLive(r) ==
  /\ req[r].pc = "Supersede"
  /\ IF req[r].pairs = {} THEN Goes(r, [pc |-> "drop"])
     ELSE \E k \in req[r].pairs : req[r].key \in {k, NoValue} /\ ReadPair(r, k)
  /\ UNCHANGED <<registry, cached, graphs, replaced, scratch, wrote, late>>

(* Mutant of StillLive: the update has no guard.                             *)
Unguarded(g, k, old) == TRUE

(* The guard of the update: the value read is still live, or still none is.  *)
StillLive(g, k, old) == IF old = NoValue THEN Live(g, k) = {} ELSE old \in Live(g, k)

(* The new value is added and the old one annotated; without a match the      *)
(* update succeeds and changes nothing.                                      *)
Superseded(g, k, old, new) ==
  IF StillLive(g, k, old)
  THEN /\ Write(g, "Supersede", graphs[g] \union {<<k, new>>})
       /\ replaced' = replaced \union (IF old = NoValue THEN {} ELSE {<<k, old, new>>})
  ELSE UNCHANGED <<graphs, wrote, replaced>>

Chosen(r) == CHOOSE v \in New(r, req[r].key) : TRUE

Supersede(r) ==
  /\ req[r].pc = "guarded"
  /\ Superseded(Target(r), req[r].key, req[r].old, Chosen(r))
  /\ Answered(r, "confirm")
  /\ UNCHANGED <<registry, cached, scratch, late>>

(* Mutant of Confirm: one attempt too many.                                  *)
ConfirmLate(r) ==
  /\ req[r].pc = "confirm"
  /\ IF Live(Target(r), req[r].key) = New(r, req[r].key) \/ req[r].tries = Attempts
     THEN Goes(r, [pc |-> "drop"])
     ELSE Goes(r, [pc |-> "Supersede", old |-> NoValue, tries |-> req[r].tries + 1])
  /\ UNCHANGED <<registry, cached, graphs, replaced, scratch, wrote, late>>

(* The pair is done when its only live value is the new one.                 *)
Confirm(r) ==
  LET k == req[r].key IN
  /\ req[r].pc = "confirm"
  /\ IF Live(Target(r), k) = New(r, k)
     THEN Goes(r, [pc |-> "Supersede", pairs |-> req[r].pairs \ {k}, key |-> NoValue,
                   old |-> NoValue, tries |-> 0])
     ELSE IF req[r].tries + 1 < Attempts
     THEN Goes(r, [pc |-> "Supersede", old |-> NoValue, tries |-> req[r].tries + 1])
     ELSE Goes(r, [pc |-> "drop", failed |-> TRUE])
  /\ UNCHANGED <<registry, cached, graphs, replaced, scratch, wrote, late>>

(* A store request of a run fails without effect; a body that cannot be bound *)
(* or that is no CONSTRUCT fails before there is anything to drop.           *)
Fails(r) ==
  /\ req[r].pc \in Modes \union {"derive", "SyncInsert", "guarded", "confirm"}
  /\ Goes(r, [pc |-> "drop", failed |-> TRUE])
  /\ UNCHANGED <<registry, cached, graphs, replaced, scratch, wrote, late>>

(* Update u after the end of its run: what it may find is seen.              *)
Bereft(u, seen) == [id |-> u.id, of |-> {}, step |-> u.step, run |-> u.run, seen |-> seen]

(* In any case the scratch graph is dropped at the end.  A drop that fails    *)
(* fails the run, and that graph may stay for ever: nothing names it again    *)
(* but the run's own late update, and it leaves this model.  A run that       *)
(* failed with an answer of the store's or a timeout lets the pass go on,     *)
(* unless it stops at an error; a connection that broke ends the request.    *)
Drop(r) ==
  /\ req[r].pc = "drop"
  /\ scratch' = scratch \ {r}
  /\ \E dropped \in BOOLEAN :
       /\ copying' = {IF r \in u.of THEN Bereft(u, IF dropped THEN {{}} ELSE u.seen \union {{}})
                                    ELSE u : u \in copying}
       /\ \/ dropped /\ ~req[r].failed /\ Goes(r, Turn(req[r].todo))
          \/ (req[r].failed \/ ~dropped) /\ Goes(r, Idle)
          \/ (req[r].failed \/ ~dropped) /\ ~req[r].stop /\ Goes(r, Turn(req[r].todo))
  /\ UNCHANGED <<registry, cached, graphs, replaced, wrote, setting, blanked>>

(***************************************************************************)
(* Updates that time out.  The store may run one at any later time.  The   *)
(* run fails meanwhile and drops its scratch graph, so that an update out  *)
(* of it may find the derived triples, or nothing.                         *)
(***************************************************************************)
GiveUp(r) ==
  /\ \/ /\ req[r].pc \in {"Append", "Replace", "Sync", "SyncInsert"}
        /\ copying' = copying \union {[id |-> events, of |-> {r}, step |-> req[r].pc,
                                     run |-> req[r].run, seen |-> {req[r].out}]}
        /\ UNCHANGED setting
     \/ /\ req[r].pc = "guarded"
        /\ setting' = setting \union {[id |-> events, target |-> Target(r), key |-> req[r].key,
                                     old |-> req[r].old, new |-> Chosen(r)]}
        /\ UNCHANGED copying
  /\ Goes(r, [pc |-> "drop", failed |-> TRUE])
  /\ UNCHANGED <<registry, cached, graphs, replaced, scratch, wrote, blanked>>

(* SILENT makes an ADD of a graph that is gone an ADD of nothing.            *)
Land(u) ==
  /\ \E out \in u.seen :
       /\ Write(u.run.target, u.run.mode, Applied(u.step, u.run.target, out))
       /\ blanked' = IF out = {} THEN blanked \union {u.run.target}
                                ELSE blanked \ {u.run.target}
  /\ copying' = copying \ {u}
  /\ UNCHANGED <<registry, cached, replaced, scratch, req, setting>>

LandGuarded(u) ==
  /\ Superseded(u.target, u.key, u.old, u.new)
  /\ setting' = setting \ {u}
  /\ UNCHANGED <<registry, cached, scratch, req, copying, blanked>>

(***************************************************************************)
(* What starts the requests and changes the store beside them.             *)
(***************************************************************************)
Begin(r, kind, ask, stop) ==
  /\ req[r].pc = "idle"
  /\ Goes(r, [pc |-> "load", kind |-> kind, ask |-> ask, stop |-> stop])
  /\ UNCHANGED <<registry, graphs, replaced, scratch, wrote, late>>

Run(r, ask) == Begin(r, "one", ask, TRUE) /\ UNCHANGED cached
RunAll(r, stop) == Begin(r, "all", NoAsk, stop) /\ UNCHANGED cached
List(r) == Begin(r, "list", NoAsk, TRUE) /\ UNCHANGED cached
Reload(r) == Begin(r, "reload", NoAsk, TRUE) /\ cached' = NoEntry

(* Rules have no route that registers them: they are pushed as Turtle.       *)
Push(i, rule) ==
  /\ registry' = [registry EXCEPT ![i] = rule]
  /\ UNCHANGED <<cached, graphs, replaced, scratch, req, wrote, late>>

(* CLEAR, DROP, COPY, MOVE, ADD and CREATE of a graph, one update each, by a  *)
(* caller who holds the write or replace grants it takes.                    *)
GraphOp(op, target, source) ==
  /\ target # source
  /\ graphs' = CASE op \in {"clear", "drop"} -> [graphs EXCEPT ![target] = {}]
                 [] op = "copy" -> [graphs EXCEPT ![target] = graphs[source]]
                 [] op = "move" -> [graphs EXCEPT ![source] = {}, ![target] = graphs[source]]
                 [] op = "add" -> [graphs EXCEPT ![target] = @ \union graphs[source]]
                 [] OTHER -> graphs
  /\ wrote' = [g \in Graphs |-> wrote[g] \union
                 (IF (graphs')[g] = graphs[g] THEN {} ELSE {"op"})]
  /\ UNCHANGED <<registry, cached, replaced, scratch, req, late>>

(* Nobody drops the scratch graphs of the runs that died.                    *)
Crash ==
  /\ req' = [r \in Reqs |-> Idle] /\ cached' = NoEntry /\ scratch' = {}
  /\ copying' = {Bereft(u, u.seen) : u \in copying}
  /\ UNCHANGED <<registry, graphs, replaced, wrote, setting, blanked>>

Steps(r) ==
  \/ Hit(r) \/ Load(r) \/ Fill(r) \/ Derive(r) \/ Append0(r) \/ Replace(r) \/ SyncDelete(r)
  \/ SyncInsert(r) \/ ReadLive(r) \/ Supersede(r) \/ Confirm(r) \/ Fails(r) \/ Drop(r)

Events ==
  \/ \E r \in Reqs, ask \in Asks : Run(r, ask)
  \/ \E r \in Reqs, stop \in BOOLEAN : RunAll(r, stop)
  \/ \E r \in Reqs : List(r) \/ Reload(r)
  \/ \E i \in RuleIds, rule \in Definitions : Push(i, rule)
  \/ \E r \in Reqs : GiveUp(r)
  \/ \E op \in Operations, target, source \in Graphs : GraphOp(op, target, source)
  \/ Crash

Next ==
  \/ (\E r \in Reqs : Steps(r)) /\ UNCHANGED events
  \/ (\E u \in copying : Land(u)) /\ UNCHANGED events
  \/ (\E u \in setting : LandGuarded(u)) /\ UNCHANGED events
  \/ events < MaxEvents /\ Events /\ events' = events + 1

Spec == Init /\ [][Next]_vars

(***************************************************************************)
(* Properties.                                                             *)
(***************************************************************************)
TypeOK ==
  /\ registry \in Registries /\ cached \in Registries \union {NoEntry}
  /\ graphs \in [Graphs -> SUBSET Triples]
  /\ replaced \subseteq Keys \X Values \X Values
  /\ scratch \subseteq Reqs
  /\ wrote \in [Graphs -> SUBSET (Modes \union {"op"})] /\ blanked \subseteq Graphs
  /\ \A r \in Reqs : /\ req[r].out \in Outputs \union {{}}
                     /\ req[r].run \in [mode: Modes, target: Graphs] \union {NoRule}
                     /\ req[r].tries \in 0..(Attempts - 1)

(* A graph that only Replace runs have written is the whole output of one of  *)
(* them, never a mixture and never a part, however they overlap and wherever  *)
(* they fail (named_rules.py:430-479); unless the last update to write it had *)
(* timed out and came to the store after its run dropped the scratch graph    *)
(* (539), which leaves nothing.                                              *)
WholeOutput ==
  \A g \in Graphs : wrote[g] = {"Replace"} =>
    graphs[g] \in Outputs \/ (g \in blanked /\ graphs[g] = {})

(* In graphs that only Supersede runs have written a pair has at most one     *)
(* current value, however the runs overlap (named_rules.py:577-600).         *)
AtMostOneCurrent ==
  \A g \in Graphs, k \in Keys : wrote[g] \subseteq {"Supersede"} => Cardinality(Live(g, k)) <= 1

=============================================================================
