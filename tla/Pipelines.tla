----------------------------- MODULE Pipelines -----------------------------
(***************************************************************************)
(* Pipelines (pipeline.py, routes/pipeline.py) and the message that tells  *)
(* how a run or an ingest is doing (messages.py).  One pipeline id: its    *)
(* manifest graph and its entry in the index are written by separate       *)
(* requests, a message by a deletion and an insertion; a run keeps going   *)
(* in a background task after its request was answered, and dies with the  *)
(* process.                                                                *)
(***************************************************************************)
EXTENDS Integers, Sequences, FiniteSets

CONSTANTS
  Messages,   \* a message and the run it reports are one and the same name
  Admins,     \* requests that register or drop the pipeline
  Manifests,  \* what may be registered; of each one, by stage,
  Kind,       \* what the stage does
  Deps,       \* what it depends on
  Rank,       \* its place among the stages that are ready (order, then id)
  Rule,       \* the rule it names
  RuleIds,
  Persons,
  MaxEvents   \* bound on requests, failures, restarts and rule changes

Nobody == "nobody"   \* a caller nobody could be found for, and the scheduler
Absent == "absent"

Kinds == {"source", "rule", "context", "llm", "agent", "shacl", "projection", "external"}

Stages(m) == DOMAIN Kind[m]

ASSUME PipelinesAssumption ==
  /\ \A m \in Manifests :
       /\ Stages(m) # {} /\ IsFiniteSet(Stages(m))
       /\ Kind[m] \in [Stages(m) -> Kinds]
       /\ Rank[m] \in [Stages(m) -> Nat] /\ Rule[m] \in [Stages(m) -> RuleIds]
       /\ "ingest" \notin Stages(m)   \* stages are IRIs; this names the landing of a push
       /\ \A s, t \in Stages(m) : Rank[m][s] = Rank[m][t] => s = t
  /\ Nobody \notin Persons /\ Absent \notin Manifests /\ MaxEvents \in Nat

VARIABLES
  graph,     \* the manifest graph
  index,     \* whether the index has its entry
  rules,     \* the rules registered
  admin,     \* the registrations and removals in progress
  torn,      \* whether one was cut short, or two overlapped, since one was whole
  store,     \* the messages graph
  run,       \* the runs, and each one's copy of its message
  events

pipelinesVars == <<graph, index, rules, admin, torn, store, run, events>>

NoMessage == [status |-> "Absent", stages |-> <<>>]
Quiet == [pc |-> "idle", then |-> "over", man |-> Absent, left |-> <<>>, msg |-> NoMessage,
          who |-> Nobody, stop |-> TRUE, ingest |-> FALSE, wants |-> TRUE, known |-> {},
          kept |-> TRUE, saved |-> FALSE, hit |-> FALSE, escaped |-> FALSE]
AtRest == [pc |-> "idle", man |-> Absent, alone |-> TRUE]

Statuses == {"Absent", "Received", "Running", "Completed", "Failed"}
Places   == {"idle", "load", "delete", "insert", "land", "rules", "stage", "over"}

PipelinesTypeOK ==
  /\ graph \in Manifests \cup {Absent} /\ index \in BOOLEAN /\ rules \subseteq RuleIds
  /\ torn \in BOOLEAN /\ events \in 0..MaxEvents
  /\ \A a \in Admins : /\ admin[a].pc \in {"idle", "put", "unlist", "list", "drop", "forget"}
                       /\ admin[a].man \in Manifests \cup {Absent} /\ admin[a].alone \in BOOLEAN
  /\ \A m \in Messages :
       /\ store[m].status \in Statuses /\ run[m].msg.status \in Statuses
       /\ run[m].pc \in Places /\ run[m].man \in Manifests \cup {Absent}
       /\ run[m].known \subseteq RuleIds /\ run[m].who \in Persons \cup {Nobody}
       /\ \A i \in DOMAIN run[m].msg.stages :
            run[m].msg.stages[i].status \in {"Skipped", "Deferred", "Completed", "Failed"}

PipelinesInit ==
  /\ graph = Absent /\ index = FALSE /\ rules = RuleIds
  /\ admin = [a \in Admins |-> AtRest] /\ torn = FALSE
  /\ store = [m \in Messages |-> NoMessage] /\ run = [m \in Messages |-> Quiet]
  /\ events = 0

-----------------------------------------------------------------------------
(* topological_order: whatever is ready, the least first; a cycle leaves   *)
(* stages that never are.                                                  *)

Ready(m, done) == {s \in Stages(m) \ done : Deps[m][s] \cap Stages(m) \subseteq done}

Least(m, S) == CHOOSE s \in S : \A t \in S : Rank[m][s] <= Rank[m][t]

Names(q) == {q[i] : i \in DOMAIN q}

Taken(m, q) ==
  LET r == Ready(m, Names(q)) IN IF r = {} THEN q ELSE Append(q, Least(m, r))

Order ==
  [m \in Manifests |->
    LET f[n \in 0..Cardinality(Stages(m))] == IF n = 0 THEN <<>> ELSE Taken(m, f[n-1])
    IN f[Cardinality(Stages(m))]]

Runnable(m) == Len(Order[m]) = Cardinality(Stages(m))

-----------------------------------------------------------------------------
(* Registering and dropping.                                               *)

Busy(a) == admin[a].pc # "idle"
AdminGoes(a, pc) == admin' = [admin EXCEPT ![a].pc = pc]
AdminEnds(a) == admin' = [admin EXCEPT ![a] = AtRest]

(* Nothing is locked, so a request may overlap those already in progress.  *)
AdminStarts(a, pc, man) ==
  LET others == {b \in Admins \ {a} : Busy(b)} IN
  /\ ~Busy(a)
  /\ admin' = [b \in Admins |->
       IF b = a THEN [pc |-> pc, man |-> man, alone |-> others = {}]
       ELSE [admin[b] EXCEPT !.alone = @ /\ b \notin others]]
  /\ torn' = (torn \/ others # {})

RegisterPipeline(a, m) ==
  /\ AdminStarts(a, "put", m)
  /\ UNCHANGED <<graph, index, rules, store, run>>

PutManifest(a) ==
  /\ admin[a].pc = "put" /\ graph' = admin[a].man /\ AdminGoes(a, "unlist")
  /\ UNCHANGED <<index, rules, torn, store, run>>

Unlist(a) ==
  /\ admin[a].pc = "unlist" /\ index' = FALSE /\ AdminGoes(a, "list")
  /\ UNCHANGED <<graph, rules, torn, store, run>>

List(a) ==
  /\ admin[a].pc = "list" /\ index' = TRUE /\ AdminEnds(a)
  /\ torn' = (torn /\ ~admin[a].alone)
  /\ UNCHANGED <<graph, rules, store, run>>

DropPipeline(a) ==
  /\ AdminStarts(a, "drop", Absent)
  /\ UNCHANGED <<graph, index, rules, store, run>>

DropManifest(a) ==
  /\ admin[a].pc = "drop" /\ graph' = Absent /\ AdminGoes(a, "forget")
  /\ UNCHANGED <<index, rules, torn, store, run>>

(* Mutant: the entry stays in the index.                                   *)
Kept(b) == b

Deleted(b) == FALSE

Forget(a) ==
  /\ admin[a].pc = "forget" /\ index' = Deleted(index) /\ AdminEnds(a)
  /\ torn' = (torn /\ ~admin[a].alone)
  /\ UNCHANGED <<graph, rules, store, run>>

-----------------------------------------------------------------------------
(* Saving a message: mark it, delete what the store has, insert the copy.  *)
(* The message of a scheduled run is kept nowhere.                         *)
Save(m, msg, then) ==
  run' = [run EXCEPT ![m].msg = msg, ![m].pc = IF run[m].kept THEN "delete" ELSE then, ![m].then = then]

DeleteMessage(m) ==
  /\ run[m].pc = "delete"
  /\ store' = [store EXCEPT ![m] = NoMessage]
  /\ run' = [run EXCEPT ![m].pc = "insert"]
  /\ UNCHANGED <<graph, index, rules, admin, torn>>

(* Then _execute begins by saving "Running", goes on, or is over.          *)
InsertMessage(m) ==
  /\ run[m].pc = "insert"
  /\ store' = [store EXCEPT ![m] = run[m].msg]
  /\ run' = [run EXCEPT ![m].saved = TRUE,
       ![m].pc = IF run[m].then = "begin" THEN "delete" ELSE run[m].then,
       ![m].then = IF @ = "begin" THEN "rules" ELSE @,
       ![m].msg.status = IF run[m].then = "begin" THEN "Running" ELSE @]
  /\ UNCHANGED <<graph, index, rules, admin, torn>>

(* mark_completed, failed if any stage did.                                *)
(* Mutant: what the last stage did decides.                                *)
LastFailing(msg) == msg.stages # <<>> /\ msg.stages[Len(msg.stages)].status = "Failed"

Failing(msg) == \E i \in DOMAIN msg.stages : msg.stages[i].status = "Failed"
Completed(msg, failed) == [msg EXCEPT !.status = IF failed THEN "Failed" ELSE "Completed"]

(* Mutant: a stage that is not for the bridge is left as it began.         *)
RecordPending(msg, s, status, context) ==
  [msg EXCEPT !.stages = Append(@, [stage |-> s, context |-> context,
     status |-> IF status = "Deferred" THEN "Pending" ELSE status])]

RecordStage(msg, s, status, context) ==
  [msg EXCEPT !.stages = Append(@, [stage |-> s, status |-> status, context |-> context])]

-----------------------------------------------------------------------------
(* Running.                                                                *)

(* pipeline_run finds the pipeline in the index; the manifest is next.     *)
StartRun(m, who, stop) ==
  /\ run[m] = Quiet /\ index
  /\ run' = [run EXCEPT ![m] = [Quiet EXCEPT !.pc = "load", !.who = who, !.stop = stop]]
  /\ UNCHANGED <<graph, index, rules, admin, torn, store>>

(* The scheduler's dispatch: the manifest as it finds it, and no message.  *)
StartScheduled(m) ==
  /\ run[m] = Quiet /\ graph # Absent
  /\ run' = [run EXCEPT ![m] = [Quiet EXCEPT !.pc = "rules", !.man = graph, !.kept = FALSE]]
  /\ UNCHANGED <<graph, index, rules, admin, torn, store>>

(* ingest records itself as running at once; it never looks at the index.  *)
StartIngest(m, who, wants) ==
  /\ run[m] = Quiet
  /\ run' = [run EXCEPT ![m] = [Quiet EXCEPT !.pc = "delete", !.then = "land", !.who = who,
       !.msg.status = "Running", !.ingest = TRUE, !.wants = wants]]
  /\ UNCHANGED <<graph, index, rules, admin, torn, store>>

(* An error that ingest does not handle: a store that does not answer in   *)
(* time or is not there, a DataBook that is no YAML.  The request is over, *)
(* and its message is left as it was saved.                                *)
Escapes(m) == run' = [run EXCEPT ![m].pc = "over", ![m].escaped = TRUE]

(* write_turtle_to_graph accepts the payload, or says why not; or getting  *)
(* or landing it ends in an error that escapes.                            *)
Land(m, ok) ==
  LET msg == RecordStage(run[m].msg, "ingest", IF ok THEN "Completed" ELSE "Failed", {}) IN
  /\ run[m].pc = "land"
  /\ \/ ok /\ run[m].wants /\ run' = [run EXCEPT ![m].msg = msg, ![m].pc = "load"]
     \/ ~(ok /\ run[m].wants) /\ Save(m, Completed(msg, ~ok), "over")
     \/ ~ok /\ Escapes(m)
  /\ UNCHANGED <<graph, index, rules, admin, torn, store>>

(* Mutant: an ingest waits for a pipeline it does not find.                *)
LoadManifestWaits(m, read) ==
  LET man == IF read THEN graph ELSE Absent IN
  /\ run[m].pc = "load" /\ (run[m].ingest => man # Absent)
  /\ run' = [run EXCEPT ![m] = IF run[m].ingest \/ (man # Absent /\ Runnable(man))
       THEN [@ EXCEPT !.man = man, !.pc = "delete", !.then = "begin", !.msg.status = "Received"]
       ELSE Quiet]
  /\ UNCHANGED <<graph, index, rules, admin, torn, store>>

(* load_manifest, which answers a graph that the store refuses to read     *)
(* with no stages; a read that times out escapes.  Only pipeline_run asks  *)
(* for the order before it takes the run on.                               *)
LoadManifest(m, read) ==
  LET man == IF read THEN graph ELSE Absent IN
  /\ run[m].pc = "load"
  /\ \/ /\ man # Absent /\ (run[m].ingest \/ Runnable(man))
        /\ run' = [run EXCEPT ![m].man = man, ![m].pc = "delete", ![m].then = "begin",
             ![m].msg.status = IF run[m].ingest THEN @ ELSE "Received"]
     \/ man = Absent /\ run[m].ingest /\ Save(m, Completed(run[m].msg, TRUE), "over")
     \/ ~read /\ run[m].ingest /\ Escapes(m)
     \/ /\ ~run[m].ingest /\ (man # Absent => ~Runnable(man))
        /\ run' = [run EXCEPT ![m] = Quiet]
  /\ UNCHANGED <<graph, index, rules, admin, torn, store>>

(* run_pipeline: the order, then the rules; a load that the store refuses  *)
(* is no rules, and one that times out fails the run, as a cycle does.     *)
LoadRules(m, read) ==
  /\ run[m].pc = "rules"
  /\ \/ /\ Runnable(run[m].man)
        /\ run' = [run EXCEPT ![m].pc = "stage", ![m].left = Order[run[m].man],
                               ![m].known = IF read THEN rules ELSE {}]
     \/ ~(Runnable(run[m].man) /\ read) /\ Save(m, Completed(run[m].msg, TRUE), "over")
  /\ UNCHANGED <<graph, index, rules, admin, torn, store>>

(* How a stage may end, by what it does: whoever runs the pipeline must be *)
(* known for an agent to be asked, and a rule must be among those loaded.  *)
AgentEnds(r)      == {"Failed"} \cup (IF r.who = Nobody THEN {} ELSE {"Deferred"})
RuleEnds(r, s)    == {"Failed"} \cup (IF Rule[r.man][s] \in r.known THEN {"Completed"} ELSE {})
ShaclEnds         == {"Completed", "Failed"}
ProjectionEnds    == {"Completed", "Failed"}

Outcomes(r, s) ==
  CASE Kind[r.man][s] = "source" -> {"Skipped"}
    [] Kind[r.man][s] \in {"llm", "external"} -> {"Deferred"}
    [] Kind[r.man][s] = "agent" -> AgentEnds(r)
    [] Kind[r.man][s] \in {"rule", "context"} -> RuleEnds(r, s)
    [] Kind[r.man][s] = "shacl" -> ShaclEnds
    [] Kind[r.man][s] = "projection" -> ProjectionEnds

(* context_results: what the context-only stages of this run have read.    *)
Results(r) == {s \in Stages(r.man) : Kind[r.man][s] = "context"
                 /\ \E i \in DOMAIN r.msg.stages :
                      r.msg.stages[i].stage = s /\ r.msg.stages[i].status = "Completed"}

(* _context_slot: the one context-only dependency that has a result.       *)
ContextSlot(r, s) ==
  LET deps == Deps[r.man][s] \cap Results(r) IN
  IF Kind[r.man][s] \in {"llm", "agent"} /\ Cardinality(deps) = 1 THEN deps ELSE {}

RunStage(m, status) ==
  LET r == run[m]  s == Head(r.left)
      msg == RecordStage(r.msg, s, status, ContextSlot(r, s)) IN
  /\ r.pc = "stage" /\ r.left # <<>>
  /\ status \in Outcomes(r, s)
  /\ IF Tail(r.left) = <<>> \/ (status = "Failed" /\ r.stop)
       THEN Save(m, Completed(msg, Failing(msg)), "over")
       ELSE run' = [run EXCEPT ![m].msg = msg, ![m].left = Tail(@)]
  /\ UNCHANGED <<graph, index, rules, admin, torn, store>>

-----------------------------------------------------------------------------
(* The store refuses an update, and the request or the task that sent it   *)
(* is over; the process restarts, and everything in progress is gone.      *)

StoreFails(m) ==
  /\ run[m].pc \in {"delete", "insert"}
  /\ run' = [run EXCEPT ![m].pc = "over", ![m].hit = TRUE]
  /\ UNCHANGED <<graph, index, rules, admin, torn, store>>

AdminFails(a) ==
  /\ Busy(a) /\ AdminEnds(a) /\ torn' = TRUE
  /\ UNCHANGED <<graph, index, rules, store, run>>

Restart ==
  /\ admin' = [a \in Admins |-> AtRest]
  /\ torn' = (torn \/ \E a \in Admins : Busy(a))
  /\ run' = [m \in Messages |-> IF run[m].pc \in {"idle", "over"} THEN run[m]
                                ELSE [run[m] EXCEPT !.pc = "over", !.hit = TRUE]]
  /\ UNCHANGED <<graph, index, rules, store>>

ChangeRules(r) ==
  /\ rules' = IF r \in rules THEN rules \ {r} ELSE rules \cup {r}
  /\ UNCHANGED <<graph, index, admin, torn, store, run>>

-----------------------------------------------------------------------------
Going(m) ==
  \/ DeleteMessage(m) \/ InsertMessage(m)
  \/ \E b \in BOOLEAN : Land(m, b) \/ LoadManifest(m, b) \/ LoadRules(m, b)
  \/ \E s \in {"Skipped", "Deferred", "Completed", "Failed"} : RunStage(m, s)

Steps ==
  \/ \E m \in Messages : Going(m)
  \/ \E a \in Admins : \/ PutManifest(a) \/ Unlist(a) \/ List(a) \/ DropManifest(a) \/ Forget(a)

Events ==
  \/ \E a \in Admins : DropPipeline(a) \/ AdminFails(a) \/ \E m \in Manifests : RegisterPipeline(a, m)
  \/ \E m \in Messages : \/ StoreFails(m) \/ StartScheduled(m)
                         \/ \E w \in Persons \cup {Nobody}, b \in BOOLEAN : StartRun(m, w, b)
                         \/ \E w \in Persons, b \in BOOLEAN : StartIngest(m, w, b)
  \/ Restart
  \/ \E r \in RuleIds : ChangeRules(r)

PipelinesNext ==
  \/ Steps /\ UNCHANGED events
  \/ events < MaxEvents /\ Events /\ events' = events + 1

PipelinesSpec == PipelinesInit /\ [][PipelinesNext]_pipelinesVars

(* The event loop gives a task that can go on its turn, and a request to   *)
(* the store is answered or times out.                                     *)
FairSpec == PipelinesSpec /\ \A m \in Messages : WF_pipelinesVars(Going(m) /\ UNCHANGED events)

-----------------------------------------------------------------------------
(* A run takes its stages in an order in which each comes after everything *)
(* it depends on and none comes twice, and a prompt is given only what one *)
(* of its own dependencies read in this run (topological_order,            *)
(* _context_slot), whatever happens to the manifest meanwhile.             *)
StagesInOrder ==
  \A m \in Messages : run[m].man # Absent =>
    LET man == run[m].man  done == run[m].msg.stages IN
    \A i \in DOMAIN done : done[i].stage # "ingest" =>
      LET s == done[i].stage  before == {done[j].stage : j \in 1..i-1} IN
      /\ s \notin before
      /\ Deps[man][s] \cap Stages(man) \subseteq before
      /\ done[i].context \subseteq Deps[man][s] \cap before

(* A run's message lists its stages in order; it is found from its first   *)
(* save on, unless it is just being saved or a save was cut short; and     *)
(* once the run is over it tells the outcome (a scheduled run has no       *)
(* message): "Completed" only if every stage of the manifest was taken and *)
(* none failed.  It is left at "Running" by a restart, and by an error     *)
(* that ingest does not handle before it has a manifest                    *)
(* (routes/pipeline.py:704-721).                                           *)
MessageTells ==
  /\ StagesInOrder
  /\ \A m \in Messages : LET r == run[m] IN
      /\ (r.saved /\ store[m] = NoMessage) => (r.pc = "insert" \/ r.hit)
      /\ (r.pc = "over" /\ ~r.hit /\ r.kept) =>
           IF r.escaped THEN r.ingest /\ r.man = Absent /\ store[m].status = "Running"
           ELSE store[m].status \in {"Completed", "Failed"}
      /\ store[m].status = "Completed" =>
           /\ \A i \in DOMAIN store[m].stages : store[m].stages[i].status # "Failed"
           /\ r.man # Absent =>
                {store[m].stages[i].stage : i \in DOMAIN store[m].stages} \ {"ingest"} = Stages(r.man)

(* The index lists the pipeline exactly when there is a manifest, unless   *)
(* a registration or a removal was cut short or two overlapped.            *)
IndexAgrees ==
  (\A a \in Admins : ~Busy(a)) /\ ~torn => index = (graph # Absent)

(* Every run and every ingest comes to an end.                             *)
RunsEnd == \A m \in Messages : run[m].pc # "idle" ~> run[m].pc \in {"idle", "over"}

=============================================================================
