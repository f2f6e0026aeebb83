----------------------------- MODULE RulesProofs -----------------------------
(***************************************************************************)
(* Proofs about named rules, for any rules, graphs, triples, number of     *)
(* requests and of attempts: a graph that only Replace runs have written   *)
(* is the whole output of one of them, or empty if its last update had     *)
(* timed out and found its scratch graph gone; and in a graph that only    *)
(* Supersede runs have written no pair has two current values.             *)
(***************************************************************************)
EXTENDS Rules, FiniteSetTheorems, TLAPS

Fields == {"pc", "kind", "ask", "stop", "loaded", "todo", "run", "out", "pairs", "key", "old",
           "tries", "failed"}
Waiting == {"idle", "load", "fill"}
Places  == Waiting \union Modes \union {"derive", "SyncInsert", "guarded", "confirm", "drop"}
Runs    == [mode: Modes, target: Graphs]

RequestTyped(q) ==
  /\ DOMAIN q = Fields /\ q.pc \in Places /\ q.ask \in AnyAsk
  /\ q.pc = "fill" => q.loaded \in Registries
  /\ q.todo \in Seq(Runs) /\ q.run \in Runs \union {NoRule}
  /\ q.out \in Outputs \union {{}} /\ q.pairs \subseteq Keys
  /\ q.key \in Keys \union {NoValue} /\ q.old \in Values \union {NoValue}
  /\ q.tries \in 0..(Attempts - 1)

\* Where a request is in a run says which mode the run has, and that Supersede
\* comes to its update only with a pair and a value to write.
InStep(q) ==
  /\ q.pc \notin Waiting => q.run \in Runs
  /\ q.pc \in Modes => q.run.mode = q.pc /\ q.out \in Outputs
  /\ q.pc = "SyncInsert" => q.run.mode = "Sync"
  /\ q.pc \in {"guarded", "confirm"} =>
       q.run.mode = "Supersede" /\ q.key \in Keys /\ q.out \in Outputs
  /\ q.pc = "guarded" => \E v \in Values : <<q.key, v>> \in q.out

Sound(q) == RequestTyped(q) /\ InStep(q)

StoreTyped ==
  /\ registry \in Registries /\ cached \in Registries \union {NoEntry}
  /\ graphs \in [Graphs -> SUBSET Triples]
  /\ replaced \subseteq Keys \X Values \X Values
  /\ scratch \subseteq Reqs
  /\ wrote \in [Graphs -> SUBSET (Modes \union {"op"})] /\ blanked \subseteq Graphs

\* A timed-out update of a Replace run is its whole transaction, and finds what
\* its run derived or nothing; one of a Supersede run carries its values.
LateTyped ==
  /\ \A u \in copying : /\ u.run \in Runs /\ u.run.mode # "Supersede"
                        /\ u.seen \subseteq SUBSET Triples
                        /\ u.run.mode = "Replace" =>
                             u.step = "Replace" /\ u.seen \subseteq Outputs \union {{}}
  /\ \A u \in setting : /\ u.target \in Graphs /\ u.key \in Keys /\ u.new \in Values
                        /\ u.old \in Values \union {NoValue}

\* AtMostOneCurrent without the Cardinality.
OneLive ==
  \A g \in Graphs, k \in Keys :
    wrote[g] \subseteq {"Supersede"} => \A v, w \in Live(g, k) : v = w

Requests == req = [r \in Reqs |-> req[r]] /\ \A r \in Reqs : Sound(req[r])

IInv == StoreTyped /\ LateTyped /\ Requests /\ WholeOutput /\ OneLive
-----------------------------------------------------------------------------
\* What a request goes on with.
LEMMA Drops ==
  ASSUME NEW q, Sound(q), q.pc \notin Waiting
  PROVE  Sound(With(q, [pc |-> "drop"])) /\ Sound(With(q, [pc |-> "drop", failed |-> TRUE]))
<1>1. ASSUME NEW p, \/ p = With(q, [pc |-> "drop"])
                    \/ p = With(q, [pc |-> "drop", failed |-> TRUE])
      PROVE  Sound(p)
  <2>1. DOMAIN p = Fields /\ p.pc = "drop"
    BY <1>1 DEF With, Fields, Sound, RequestTyped
  <2>2. /\ p.ask = q.ask /\ p.todo = q.todo /\ p.run = q.run /\ p.out = q.out
        /\ p.pairs = q.pairs /\ p.key = q.key /\ p.old = q.old /\ p.tries = q.tries
    BY <1>1 DEF With, Fields, Sound, RequestTyped
  <2> QED BY <2>1, <2>2 DEF Sound, RequestTyped, InStep, Places, Modes, Waiting
<1> QED BY <1>1

LEMMA IdleIsSound ==
  Sound(Idle)
<1>1. DOMAIN Idle = Fields /\ Idle.pc = "idle"
  BY DEF Fields, Idle
<1>2. /\ Idle.ask = NoAsk /\ Idle.todo = <<>> /\ Idle.run = NoRule /\ Idle.out = {}
      /\ Idle.pairs = {} /\ Idle.key = NoValue /\ Idle.old = NoValue /\ Idle.tries = 0
  BY DEF Idle
<1>3. NoAsk \in AnyAsk /\ 0 \in 0..(Attempts - 1)
  BY BoundsAssumption DEF NoAsk, AnyAsk
<1> QED BY <1>1, <1>2, <1>3 DEF Sound, RequestTyped, InStep, Places, Modes, Waiting

LEMMA Ends ==
  ASSUME NEW q, Sound(q)
  PROVE  Sound(With(q, Idle))
<1>1. DOMAIN q = Fields /\ DOMAIN Idle = Fields
  BY DEF Sound, RequestTyped, Idle, Fields
<1>2. With(q, Idle) = Idle
  <2>1. Idle = [f \in Fields |-> Idle[f]]
    BY DEF Idle, Fields
  <2> QED BY <1>1, <2>1 DEF With
<1> QED BY <1>2, IdleIsSound

LEMMA Turns ==
  ASSUME NEW q, Sound(q), NEW todo \in Seq(Runs)
  PROVE  Sound(With(q, Turn(todo)))
<1>1. CASE todo = <<>>
  BY <1>1, Ends DEF Turn
<1>2. CASE todo # <<>>
  <2> DEFINE p == With(q, Turn(todo))
  <2>1. DOMAIN p = Fields /\ p.pc = "derive"
    BY <1>2 DEF With, Fields, Turn, Sound, RequestTyped
  <2>2. /\ p.ask = q.ask /\ p.todo = Tail(todo) /\ p.run = Head(todo) /\ p.out = {}
        /\ p.pairs = {} /\ p.key = NoValue /\ p.old = NoValue /\ p.tries = 0
    BY <1>2 DEF With, Fields, Turn, Sound, RequestTyped
  <2>3. Head(todo) \in Runs /\ Tail(todo) \in Seq(Runs) /\ 0 \in 0..(Attempts - 1)
    BY <1>2, BoundsAssumption
  <2> HIDE DEF p
  <2>4. Sound(p)
    BY <2>1, <2>2, <2>3 DEF Sound, RequestTyped, InStep, Places, Modes, Waiting
  <2> QED BY <2>4 DEF p
<1> QED BY <1>1, <1>2

LEMMA Plans ==
  ASSUME NEW q, Sound(q), NEW rules \in Registries, NEW reach \in Reaches,
         NEW ids \in Fired(rules, reach, q)
  PROVE  Plan(rules, ids, q) \in Seq(Runs)
<1> DEFINE active == {i \in reach : rules[i] # NoRule /\ rules[i].status = "Active"}
           asked  == {i \in active : q.kind = "all" \/ (q.kind = "one" /\ q.ask.id = i)}
           n      == Cardinality(asked)
<1>1. asked \subseteq RuleIds /\ reach \subseteq RuleIds
  BY BoundsAssumption
<1>2. n \in Nat
  BY <1>1, BoundsAssumption, FS_Subset, FS_CardinalityType
<1>3. ids \in [1..n -> asked]
  BY DEF Fired
<1> HIDE DEF n
<1>4. ASSUME NEW m \in 1..n PROVE Bound(rules[ids[m]], q) \in Runs
  <2>1. rules[ids[m]] \in RuleDefs
    BY <1>1, <1>3 DEF Registries
  <2>2. q.ask \in AnyAsk
    BY DEF Sound, RequestTyped
  <2> QED BY <2>1, <2>2 DEF Bound, RuleDefs, AnyAsk, Runs
<1> QED BY <1>2, <1>3, <1>4 DEF Plan

\* Only the request that goes changes, and stays sound if what it becomes is.
LEMMA Goings ==
  ASSUME Requests, NEW r \in Reqs, NEW c, Goes(r, c), Sound(With(req[r], c))
  PROVE  Requests'
<1>1. req' = [s \in Reqs |-> IF s = r THEN With(req[r], c) ELSE req[s]]
  BY DEF Goes, Requests
<1>2. ASSUME NEW s \in Reqs PROVE req'[s] = IF s = r THEN With(req[r], c) ELSE req[s]
  BY <1>1
<1>3. \A s \in Reqs : Sound(req'[s])
  BY <1>2 DEF Requests
<1>4. req' = [s \in Reqs |-> req'[s]]
  BY <1>1
<1> QED BY <1>3, <1>4 DEF Requests

LEMMA Resolves ==
  ASSUME Requests, NEW r \in Reqs, NEW rules \in Registries, Resolve(r, rules)
  PROVE  Requests'
<1>1. PICK reach \in Reaches : \E ids \in Fired(rules, reach, req[r]) :
             Goes(r, Turn(Plan(rules, ids, req[r])))
  BY DEF Resolve
<1>2. PICK ids \in Fired(rules, reach, req[r]) : Goes(r, Turn(Plan(rules, ids, req[r])))
  BY <1>1
<1>3. Sound(req[r])
  BY DEF Requests
<1> QED BY <1>2, <1>3, Plans, Turns, Goings
-----------------------------------------------------------------------------
\* Each step of a request, and what begins one, keeps the requests sound.
LEMMA Planning ==
  ASSUME Requests, StoreTyped, NEW r \in Reqs, Hit(r) \/ Load(r) \/ Fill(r)
  PROVE  Requests'
<1>1. Sound(req[r])
  BY DEF Requests
<1>2. CASE Hit(r)
  BY <1>2, Resolves DEF Hit, StoreTyped
<1>3. CASE Load(r)
  <2>1. PICK rules \in {registry, Empty} : Goes(r, [pc |-> "fill", loaded |-> rules])
    BY <1>3 DEF Load
  <2> DEFINE q == req[r]
             p == With(q, [pc |-> "fill", loaded |-> rules])
  <2>2. DOMAIN p = Fields /\ p.pc = "fill" /\ p.loaded = rules
    BY <1>1 DEF With, Fields, Sound, RequestTyped
  <2>3. /\ p.ask = q.ask /\ p.todo = q.todo /\ p.run = q.run /\ p.out = q.out
        /\ p.pairs = q.pairs /\ p.key = q.key /\ p.old = q.old /\ p.tries = q.tries
    BY <1>1 DEF With, Fields, Sound, RequestTyped
  <2>4. rules \in Registries
    BY DEF StoreTyped, Empty, Registries
  <2> HIDE DEF p
  <2>5. Sound(p)
    BY <1>1, <2>2, <2>3, <2>4 DEF Sound, RequestTyped, InStep, Places, Modes, Waiting
  <2> QED BY <2>1, <2>5, Goings DEF p
<1>4. CASE Fill(r)
  <2>1. req[r].loaded \in Registries
    BY <1>1, <1>4 DEF Fill, Sound, RequestTyped
  <2> QED BY <1>4, <2>1, Resolves DEF Fill
<1> QED BY <1>2, <1>3, <1>4

LEMMA Deriving ==
  ASSUME Requests, NEW r \in Reqs, Derive(r)
  PROVE  Requests'
<1> DEFINE q == req[r]
<1>1. Sound(q) /\ q.pc = "derive"
  BY DEF Requests, Derive
<1>2. PICK out \in Outputs :
        Goes(r, [pc |-> q.run.mode, out |-> out, pairs |-> {t[1] : t \in out}])
  BY DEF Derive
<1> DEFINE c == [pc |-> q.run.mode, out |-> out, pairs |-> {t[1] : t \in out}]
           p == With(q, c)
<1>3. DOMAIN p = Fields /\ p.pc = q.run.mode /\ p.out = out /\ p.pairs = {t[1] : t \in out}
  BY <1>1 DEF With, Fields, Sound, RequestTyped
<1>4. /\ p.ask = q.ask /\ p.todo = q.todo /\ p.run = q.run
      /\ p.key = q.key /\ p.old = q.old /\ p.tries = q.tries
  BY <1>1 DEF With, Fields, Sound, RequestTyped
<1>5. q.run \in Runs /\ q.run.mode \in Modes
  BY <1>1 DEF Sound, InStep, Waiting, Runs
<1>6. {t[1] : t \in out} \subseteq Keys
  BY BoundsAssumption DEF Triples
<1> HIDE DEF p
<1>7. Sound(p)
  <2>1. RequestTyped(p)
    BY <1>1, <1>3, <1>4, <1>5, <1>6 DEF Sound, RequestTyped, Places, Modes
  <2>2. InStep(p)
    BY <1>1, <1>3, <1>4, <1>5 DEF InStep, Modes
  <2> QED BY <2>1, <2>2 DEF Sound
<1> QED BY <1>2, <1>7, Goings DEF p

LEMMA Answering ==
  ASSUME Requests, NEW r \in Reqs, req[r].pc \notin Waiting, NEW next, Answered(r, next),
         \/ next = "drop"
         \/ /\ next = "confirm" /\ req[r].run.mode = "Supersede"
            /\ req[r].key \in Keys /\ req[r].out \in Outputs
         \/ next = "SyncInsert" /\ req[r].run.mode = "Sync"
  PROVE  Requests'
<1> DEFINE q == req[r]
           p == With(q, [pc |-> next])
<1>1. Sound(q)
  BY DEF Requests
<1>2. DOMAIN p = Fields /\ p.pc = next
  BY <1>1 DEF With, Fields, Sound, RequestTyped
<1>3. /\ p.ask = q.ask /\ p.todo = q.todo /\ p.run = q.run /\ p.out = q.out
      /\ p.pairs = q.pairs /\ p.key = q.key /\ p.old = q.old /\ p.tries = q.tries
  BY <1>1 DEF With, Fields, Sound, RequestTyped
<1> HIDE DEF p
<1>4. Sound(p)
  BY <1>1, <1>2, <1>3 DEF Sound, RequestTyped, InStep, Places, Modes, Waiting
<1> QED BY <1>1, <1>4, Drops, Goings DEF Answered, p

LEMMA Reading ==
  ASSUME Requests, NEW r \in Reqs, ReadLive(r)
  PROVE  Requests'
<1> DEFINE q == req[r]
<1>1. Sound(q) /\ q.pc = "Supersede"
  BY DEF Requests, ReadLive
<1>2. Sound(With(q, [pc |-> "drop"])) /\ Sound(With(q, [pc |-> "drop", failed |-> TRUE]))
  BY <1>1, Drops DEF Waiting
<1>3. q.run \in Runs /\ q.run.mode = "Supersede" /\ q.out \in Outputs
  BY <1>1 DEF Sound, InStep, Waiting, Modes
<1>4. CASE q.pairs = {}
  BY <1>2, <1>4, Goings DEF ReadLive
<1>5. CASE q.pairs # {}
  <2>1. PICK k \in q.pairs : ReadPair(r, k)
    BY <1>5 DEF ReadLive
  <2> DEFINE Ready(old) == [pc |-> "guarded", key |-> k, old |-> old]
             skip == [pc |-> "Supersede", pairs |-> q.pairs \ {k}, key |-> NoValue, tries |-> 0]
  <2>2. k \in Keys
    BY <1>1, <2>1 DEF Sound, RequestTyped
  <2>3. \/ Goes(r, [pc |-> "drop", failed |-> TRUE])
        \/ Cardinality(New(r, k)) = 1 /\ \E old \in Values \union {NoValue} : Goes(r, Ready(old))
        \/ Goes(r, skip)
    BY <2>1 DEF ReadPair, Live
  <2>4. ASSUME NEW old \in Values \union {NoValue}, Cardinality(New(r, k)) = 1
        PROVE  Sound(With(q, Ready(old)))
    <3> DEFINE p == With(q, Ready(old))
    <3>1. DOMAIN p = Fields /\ p.pc = "guarded" /\ p.key = k /\ p.old = old
      BY <1>1 DEF With, Fields, Sound, RequestTyped
    <3>2. /\ p.ask = q.ask /\ p.todo = q.todo /\ p.run = q.run /\ p.out = q.out
          /\ p.pairs = q.pairs /\ p.tries = q.tries
      BY <1>1 DEF With, Fields, Sound, RequestTyped
    <3>3. New(r, k) # {}
      BY <2>4, FS_EmptySet
    <3>4. \E v \in Values : <<k, v>> \in q.out
      BY <3>3 DEF New
    <3> HIDE DEF p
    <3>5. Sound(p)
      BY <1>1, <1>3, <2>2, <3>1, <3>2, <3>4 DEF Sound, RequestTyped, InStep, Places, Modes, Waiting
    <3> QED BY <3>5 DEF p
  <2>5. Sound(With(q, skip))
    <3> DEFINE p == With(q, skip)
    <3>1. /\ DOMAIN p = Fields /\ p.pc = "Supersede" /\ p.pairs = q.pairs \ {k}
          /\ p.key = NoValue /\ p.tries = 0
      BY <1>1 DEF With, Fields, Sound, RequestTyped
    <3>2. /\ p.ask = q.ask /\ p.todo = q.todo /\ p.run = q.run /\ p.out = q.out
          /\ p.old = q.old
      BY <1>1 DEF With, Fields, Sound, RequestTyped
    <3>3. 0 \in 0..(Attempts - 1)
      BY BoundsAssumption
    <3> HIDE DEF p
    <3>4. Sound(p)
      BY <1>1, <1>3, <3>1, <3>2, <3>3 DEF Sound, RequestTyped, InStep, Places, Modes, Waiting
    <3> QED BY <3>4 DEF p
  <2> QED BY <1>2, <2>3, <2>4, <2>5, Goings
<1> QED BY <1>4, <1>5

LEMMA Writing ==
  ASSUME Requests, NEW r \in Reqs,
         \/ Append0(r) \/ Replace(r) \/ SyncDelete(r) \/ SyncInsert(r) \/ Supersede(r)
  PROVE  Requests'
<1> DEFINE q == req[r]
<1>1. Sound(q)
  BY DEF Requests
<1>2. CASE Append0(r) \/ Replace(r) \/ SyncInsert(r)
  <2>1. q.pc \notin Waiting
    BY <1>2 DEF Append0, Replace, SyncInsert, Waiting
  <2>2. Answered(r, "drop")
    BY <1>2 DEF Append0, Replace, SyncInsert, Put
  <2> QED BY <2>1, <2>2, Answering
<1>3. CASE SyncDelete(r)
  <2>1. q.pc \notin Waiting /\ q.run.mode = "Sync"
    BY <1>1, <1>3 DEF SyncDelete, Waiting, Sound, InStep, Modes
  <2>2. Answered(r, "SyncInsert")
    BY <1>3 DEF SyncDelete, Put
  <2> QED BY <2>1, <2>2, Answering
<1>4. CASE Supersede(r)
  <2>1. /\ q.pc = "guarded" /\ q.run.mode = "Supersede" /\ q.key \in Keys
        /\ q.out \in Outputs /\ q.pc \notin Waiting
    BY <1>1, <1>4 DEF Supersede, Sound, InStep, Waiting
  <2>2. Answered(r, "confirm")
    BY <1>4 DEF Supersede
  <2> QED BY <2>1, <2>2, Answering
<1> QED BY <1>2, <1>3, <1>4

LEMMA Confirming ==
  ASSUME Requests, NEW r \in Reqs, Confirm(r)
  PROVE  Requests'
<1> DEFINE q == req[r]
           done == [pc |-> "Supersede", pairs |-> q.pairs \ {q.key}, key |-> NoValue,
                    old |-> NoValue, tries |-> 0]
           again == [pc |-> "Supersede", old |-> NoValue, tries |-> q.tries + 1]
<1>1. Sound(q) /\ q.pc = "confirm"
  BY DEF Requests, Confirm
<1>2. /\ q.run \in Runs /\ q.run.mode = "Supersede" /\ q.key \in Keys
      /\ q.tries \in 0..(Attempts - 1) /\ Attempts \in Nat \ {0}
  BY <1>1, BoundsAssumption DEF Sound, RequestTyped, InStep, Waiting
<1>3. \/ Goes(r, [pc |-> "drop", failed |-> TRUE])
      \/ Goes(r, done)
      \/ q.tries + 1 < Attempts /\ Goes(r, again)
  BY DEF Confirm
<1>4. Sound(With(q, [pc |-> "drop", failed |-> TRUE]))
  BY <1>1, Drops DEF Waiting
<1>5. q.out \in Outputs
  BY <1>1 DEF Sound, InStep
<1>6. Sound(With(q, done))
  <2> DEFINE p == With(q, done)
  <2>1. /\ DOMAIN p = Fields /\ p.pc = "Supersede" /\ p.pairs = q.pairs \ {q.key}
        /\ p.key = NoValue /\ p.old = NoValue /\ p.tries = 0
    BY <1>1 DEF With, Fields, Sound, RequestTyped
  <2>2. p.ask = q.ask /\ p.todo = q.todo /\ p.run = q.run /\ p.out = q.out
    BY <1>1 DEF With, Fields, Sound, RequestTyped
  <2>3. 0 \in 0..(Attempts - 1)
    BY <1>2
  <2> HIDE DEF p
  <2>4. Sound(p)
    BY <1>1, <1>2, <1>5, <2>1, <2>2, <2>3 DEF Sound, RequestTyped, InStep, Places, Modes, Waiting
  <2> QED BY <2>4 DEF p
<1>7. ASSUME q.tries + 1 < Attempts PROVE Sound(With(q, again))
  <2> DEFINE p == With(q, again)
  <2>1. /\ DOMAIN p = Fields /\ p.pc = "Supersede" /\ p.old = NoValue /\ p.tries = q.tries + 1
    BY <1>1 DEF With, Fields, Sound, RequestTyped
  <2>2. /\ p.ask = q.ask /\ p.todo = q.todo /\ p.run = q.run /\ p.out = q.out
        /\ p.pairs = q.pairs /\ p.key = q.key
    BY <1>1 DEF With, Fields, Sound, RequestTyped
  <2>3. q.tries + 1 \in 0..(Attempts - 1)
    BY <1>2, <1>7
  <2> HIDE DEF p
  <2>4. Sound(p)
    BY <1>1, <1>2, <1>5, <2>1, <2>2, <2>3 DEF Sound, RequestTyped, InStep, Places, Modes, Waiting
  <2> QED BY <2>4 DEF p
<1> QED BY <1>3, <1>4, <1>6, <1>7, Goings

LEMMA Ending ==
  ASSUME Requests, NEW r \in Reqs, Fails(r) \/ GiveUp(r) \/ Drop(r)
  PROVE  Requests'
<1>1. Sound(req[r])
  BY DEF Requests
<1>2. CASE Fails(r)
  BY <1>1, <1>2, Drops, Goings DEF Fails, Modes, Waiting
<1>3. CASE Drop(r)
  <2>1. Goes(r, Idle) \/ Goes(r, Turn(req[r].todo))
    BY <1>3 DEF Drop
  <2>2. req[r].todo \in Seq(Runs)
    BY <1>1 DEF Sound, RequestTyped
  <2> QED BY <1>1, <2>1, <2>2, Ends, Turns, Goings
<1>4. CASE GiveUp(r)
  <2>1. req[r].pc \notin Waiting /\ Goes(r, [pc |-> "drop", failed |-> TRUE])
    BY <1>4 DEF GiveUp, Waiting
  <2> QED BY <1>1, <2>1, Drops, Goings
<1> QED BY <1>2, <1>3, <1>4

LEMMA Beginning ==
  ASSUME Requests, NEW r \in Reqs, NEW kind, NEW ask \in AnyAsk, NEW stop,
         Begin(r, kind, ask, stop)
  PROVE  Requests'
<1> DEFINE q == req[r]
           p == With(q, [pc |-> "load", kind |-> kind, ask |-> ask, stop |-> stop])
<1>1. Sound(q)
  BY DEF Requests
<1>2. DOMAIN p = Fields /\ p.pc = "load" /\ p.ask = ask
  BY <1>1 DEF With, Fields, Sound, RequestTyped
<1>3. /\ p.todo = q.todo /\ p.run = q.run /\ p.out = q.out
      /\ p.pairs = q.pairs /\ p.key = q.key /\ p.old = q.old /\ p.tries = q.tries
  BY <1>1 DEF With, Fields, Sound, RequestTyped
<1> HIDE DEF p
<1>4. Sound(p)
  BY <1>1, <1>2, <1>3 DEF Sound, RequestTyped, InStep, Places, Modes, Waiting
<1> QED BY <1>4, Goings DEF Begin, p

LEMMA RequestsStay ==
  ASSUME IInv, [Next]_vars
  PROVE  Requests'
<1> USE DEF IInv
<1>1. ASSUME NEW r \in Reqs, Steps(r) PROVE Requests'
  BY <1>1, Planning, Deriving, Reading, Writing, Confirming, Ending DEF Steps
<1>2. CASE Events
  <2>1. NoAsk \in AnyAsk /\ Asks \subseteq AnyAsk
    BY BoundsAssumption DEF NoAsk, AnyAsk
  <2>2. ASSUME NEW r \in Reqs, NEW ask \in Asks, Run(r, ask) PROVE Requests'
    BY <2>1, <2>2, Beginning DEF Run
  <2>3. ASSUME NEW r \in Reqs, NEW stop \in BOOLEAN, RunAll(r, stop) PROVE Requests'
    BY <2>1, <2>3, Beginning DEF RunAll
  <2>4. ASSUME NEW r \in Reqs, List(r) \/ Reload(r) PROVE Requests'
    BY <2>1, <2>4, Beginning DEF List, Reload
  <2>5. CASE UNCHANGED req
    BY <2>5 DEF Requests
  <2>6. CASE Crash
    <3>1. req' = [r \in Reqs |-> Idle]
      BY <2>6 DEF Crash
    <3>2. ASSUME NEW r \in Reqs PROVE Sound(req'[r])
      BY <3>1, IdleIsSound
    <3> QED BY <3>1, <3>2 DEF Requests
  <2>7. ASSUME NEW r \in Reqs, GiveUp(r) PROVE Requests'
    BY <2>7, Ending
  <2> QED BY <1>2, <2>2, <2>3, <2>4, <2>5, <2>6, <2>7 DEF Events, Push, GraphOp
<1>3. CASE UNCHANGED req
  BY <1>3 DEF Requests
<1> QED BY <1>1, <1>2, <1>3 DEF Next, Land, LandGuarded, vars
-----------------------------------------------------------------------------
\* What is live in a graph whose content and annotations are these.
Current(content, gone, k) ==
  {v \in Values : <<k, v>> \in content /\ ~\E w \in Values : <<k, v, w>> \in gone}

\* A write of one graph by a run.  It keeps what is true of the graphs if it
\* does for its own graph; the annotations it adds only take values away.
LEMMA Written ==
  ASSUME StoreTyped, WholeOutput, OneLive,
         NEW g \in Graphs, NEW content \in SUBSET Triples, NEW mode \in Modes,
         Write(g, mode, content),
         \A h \in Graphs \ {g} : h \in blanked => h \in blanked',
         replaced \subseteq replaced', replaced' \subseteq Keys \X Values \X Values,
         mode = "Replace" => content \in Outputs \/ (content = {} /\ g \in blanked'),
         wrote[g] \subseteq {"Supersede"} /\ mode = "Supersede" =>
           \A k \in Keys : \A v, w \in Current(content, replaced', k) : v = w
  PROVE  /\ graphs' \in [Graphs -> SUBSET Triples]
         /\ wrote' \in [Graphs -> SUBSET (Modes \union {"op"})]
         /\ WholeOutput' /\ OneLive'
<1> USE DEF Write
<1>1. /\ graphs' \in [Graphs -> SUBSET Triples]
      /\ wrote' \in [Graphs -> SUBSET (Modes \union {"op"})]
  BY DEF StoreTyped
<1>2. /\ graphs'[g] = content /\ wrote'[g] = wrote[g] \union {mode}
      /\ \A h \in Graphs \ {g} : graphs'[h] = graphs[h] /\ wrote'[h] = wrote[h]
  BY DEF StoreTyped
<1>3. WholeOutput'
  BY <1>2 DEF WholeOutput
<1>4. ASSUME NEW h \in Graphs, NEW k \in Keys, wrote'[h] \subseteq {"Supersede"},
             NEW v \in Live(h, k)', NEW w \in Live(h, k)'
      PROVE  v = w
  <2>1. Live(h, k)' = Current(graphs'[h], replaced', k)
    BY DEF Live, Current
  <2>2. CASE h = g
    BY <1>2, <1>4, <2>1, <2>2
  <2>3. CASE h # g
    <3>1. v \in Live(h, k) /\ w \in Live(h, k)
      BY <1>2, <1>4, <2>1, <2>3 DEF Live, Current
    <3> QED BY <1>2, <1>4, <2>3, <3>1 DEF OneLive
  <2> QED BY <2>2, <2>3
<1> QED BY <1>1, <1>3, <1>4 DEF OneLive

\* An update out of a scratch graph that holds out.
LEMMA Applications ==
  ASSUME StoreTyped, NEW step, NEW g \in Graphs, NEW out \in SUBSET Triples
  PROVE  /\ Applied(step, g, out) \in SUBSET Triples
         /\ step = "Replace" => Applied(step, g, out) = out
<1>1. graphs[g] \in SUBSET Triples
  BY DEF StoreTyped
<1> QED BY <1>1 DEF Applied

LEMMA PutStays ==
  ASSUME IInv, NEW r \in Reqs,
         \/ Append0(r) \/ Replace(r) \/ SyncDelete(r) \/ SyncInsert(r)
  PROVE  StoreTyped' /\ WholeOutput' /\ OneLive'
<1> DEFINE q == req[r]
           g == Target(r)
           content == Applied(q.pc, g, q.out)
<1>1. Sound(q) /\ StoreTyped /\ WholeOutput /\ OneLive
  BY DEF IInv, Requests
<1>2. q.pc \in {"Append", "Replace", "Sync", "SyncInsert"}
  BY DEF Append0, Replace, SyncDelete, SyncInsert
<1>3. q.run \in Runs /\ g \in Graphs /\ q.run.mode \in Modes /\ q.run.mode # "Supersede"
  BY <1>1, <1>2 DEF Sound, InStep, Waiting, Modes, Runs, Target
<1>4. q.out \in SUBSET Triples
  BY <1>1, BoundsAssumption DEF Sound, RequestTyped
<1>5. content \in SUBSET Triples /\ (q.pc = "Replace" => content = q.out)
  BY <1>1, <1>3, <1>4, Applications
<1> HIDE DEF content
<1>6. q.run.mode = "Replace" => content \in Outputs
  BY <1>1, <1>2, <1>5 DEF Sound, InStep, Modes
<1>7. /\ Write(g, q.run.mode, content) /\ blanked' = blanked \ {g}
      /\ UNCHANGED <<registry, cached, replaced, scratch>>
  BY DEF Append0, Replace, SyncDelete, SyncInsert, Put, content
<1>8. replaced \subseteq replaced' /\ replaced' \subseteq Keys \X Values \X Values
  BY <1>1, <1>7 DEF StoreTyped
<1> QED BY <1>1, <1>3, <1>5, <1>6, <1>7, <1>8, Written DEF StoreTyped

\* A timed-out update out of a scratch graph, run at last.
LEMMA LandStays ==
  ASSUME IInv, NEW u \in copying, Land(u)
  PROVE  StoreTyped' /\ WholeOutput' /\ OneLive'
<1> DEFINE g == u.run.target
<1>1. StoreTyped /\ WholeOutput /\ OneLive
  BY DEF IInv
<1>2. /\ u.run \in Runs /\ u.run.mode # "Supersede" /\ u.seen \subseteq SUBSET Triples
      /\ u.run.mode = "Replace" => u.step = "Replace" /\ u.seen \subseteq Outputs \union {{}}
  BY DEF IInv, LateTyped
<1>3. g \in Graphs /\ u.run.mode \in Modes
  BY <1>2 DEF Runs
<1>4. PICK out \in u.seen : /\ Write(g, u.run.mode, Applied(u.step, g, out))
                           /\ blanked' = IF out = {} THEN blanked \union {g} ELSE blanked \ {g}
  BY DEF Land
<1> DEFINE content == Applied(u.step, g, out)
<1>5. content \in SUBSET Triples /\ (u.step = "Replace" => content = out)
  BY <1>1, <1>2, <1>3, Applications
<1>6. Write(g, u.run.mode, content)
  BY <1>4
<1> HIDE DEF content
<1>7. u.run.mode = "Replace" => content \in Outputs \/ (content = {} /\ g \in blanked')
  BY <1>2, <1>4, <1>5
<1>8. UNCHANGED <<registry, cached, replaced, scratch>>
  BY DEF Land
<1>9. /\ replaced \subseteq replaced' /\ replaced' \subseteq Keys \X Values \X Values
      /\ \A h \in Graphs \ {g} : h \in blanked => h \in blanked'
      /\ blanked' \subseteq Graphs
  BY <1>1, <1>3, <1>4, <1>8 DEF StoreTyped
<1> QED BY <1>1, <1>2, <1>3, <1>5, <1>6, <1>7, <1>8, <1>9, Written DEF StoreTyped

\* The guarded update of Supersede, within its deadline or run at last.
LEMMA SupersededStays ==
  ASSUME IInv, NEW g \in Graphs, NEW k \in Keys, NEW old \in Values \union {NoValue},
         NEW new \in Values, Superseded(g, k, old, new),
         UNCHANGED <<registry, cached, scratch, blanked>>
  PROVE  StoreTyped' /\ WholeOutput' /\ OneLive'
<1> DEFINE content == graphs[g] \union {<<k, new>>}
<1>1. StoreTyped /\ WholeOutput /\ OneLive
  BY DEF IInv
<1>2. content \in SUBSET Triples
  BY <1>1 DEF StoreTyped, Triples
<1>3. CASE ~StillLive(g, k, old)
  <2>1. UNCHANGED <<graphs, replaced, wrote>>
    BY <1>3 DEF Superseded
  <2> QED BY <1>1, <2>1 DEF StoreTyped, WholeOutput, OneLive, Live
<1>4. CASE StillLive(g, k, old)
  <2>1. /\ Write(g, "Supersede", content)
        /\ replaced' = replaced \union (IF old = NoValue THEN {} ELSE {<<k, old, new>>})
    BY <1>4 DEF Superseded
  <2>2. replaced \subseteq replaced' /\ replaced' \subseteq Keys \X Values \X Values
    BY <1>1, <2>1 DEF StoreTyped
  <2>3. ASSUME wrote[g] \subseteq {"Supersede"}, NEW j \in Keys,
               NEW v \in Current(content, replaced', j), NEW w \in Current(content, replaced', j)
        PROVE  v = w
    <3>1. \A x, y \in Live(g, j) : x = y
      BY <1>1, <2>3 DEF OneLive
    <3>2. ASSUME NEW x \in Current(content, replaced', j)
          PROVE  x \in Live(g, j) \/ (j = k /\ x = new)
      BY <2>2 DEF Current, Live
    <3>3. CASE j # k
      BY <2>3, <3>1, <3>2, <3>3
    <3>4. CASE j = k
      <4>1. ASSUME NEW x \in Current(content, replaced', k), x \in Live(g, k) PROVE FALSE
        <5>1. CASE old = NoValue
          BY <1>4, <4>1, <5>1 DEF StillLive
        <5>2. CASE old # NoValue
          <6>1. old \in Live(g, k)
            BY <1>4, <5>2 DEF StillLive
          <6>2. x = old
            BY <3>1, <3>4, <4>1, <6>1
          <6>3. <<k, x, new>> \in replaced'
            BY <2>1, <5>2, <6>2
          <6> QED BY <4>1, <6>3 DEF Current
        <5> QED BY <5>1, <5>2
      <4> QED BY <2>3, <3>2, <3>4, <4>1
    <3> QED BY <3>3, <3>4
  <2> HIDE DEF content
  <2> QED BY <1>1, <1>2, <2>1, <2>2, <2>3, Written DEF StoreTyped, Modes
<1> QED BY <1>3, <1>4

\* What the request in step r writes with Supersede is a value.
LEMMA ChosenIsValue ==
  ASSUME Requests, NEW r \in Reqs, req[r].pc = "guarded"
  PROVE  /\ Target(r) \in Graphs /\ req[r].key \in Keys
         /\ req[r].old \in Values \union {NoValue} /\ Chosen(r) \in Values
<1>1. Sound(req[r])
  BY DEF Requests
<1>2. PICK v \in Values : <<req[r].key, v>> \in req[r].out
  BY <1>1 DEF Sound, InStep
<1>3. Chosen(r) \in New(r, req[r].key)
  BY <1>2 DEF New, Chosen
<1>4. req[r].run \in Runs
  BY <1>1 DEF Sound, InStep, Waiting
<1> QED BY <1>1, <1>3, <1>4 DEF Sound, RequestTyped, InStep, New, Runs, Target

\* What becomes of the timed-out updates.
LEMMA LateStays ==
  ASSUME IInv, [Next]_vars
  PROVE  LateTyped'
<1>1. LateTyped /\ Requests
  BY DEF IInv
<1>2. CASE UNCHANGED <<copying, setting>>
  BY <1>1, <1>2 DEF LateTyped
<1>3. ASSUME NEW r \in Reqs, Drop(r) PROVE LateTyped'
  <2>1. PICK dropped \in BOOLEAN :
          copying' = {IF r \in u.of THEN Bereft(u, IF dropped THEN {{}} ELSE u.seen \union {{}})
                                    ELSE u : u \in copying}
    BY <1>3 DEF Drop
  <2>2. setting' = setting
    BY <1>3 DEF Drop
  <2>3. ASSUME NEW w \in copying'
        PROVE  \E u \in copying : /\ w.run = u.run /\ w.step = u.step
                                 /\ w.seen \subseteq u.seen \union {{}}
    BY <2>1, <2>3 DEF Bereft
  <2> QED BY <1>1, <2>2, <2>3 DEF LateTyped
<1>4. ASSUME NEW r \in Reqs, GiveUp(r) PROVE LateTyped'
  <2>1. Sound(req[r])
    BY <1>1 DEF Requests
  <2>2. CASE req[r].pc = "guarded"
    <3>1. /\ setting' = setting \union {[id |-> events, target |-> Target(r), key |-> req[r].key,
                                      old |-> req[r].old, new |-> Chosen(r)]}
          /\ copying' = copying
      BY <1>4, <2>2 DEF GiveUp
    <3> QED BY <1>1, <2>2, <3>1, ChosenIsValue DEF LateTyped
  <2>3. CASE req[r].pc # "guarded"
    <3>1. /\ req[r].pc \in {"Append", "Replace", "Sync", "SyncInsert"} /\ setting' = setting
          /\ copying' = copying \union {[id |-> events, of |-> {r}, step |-> req[r].pc,
                                       run |-> req[r].run, seen |-> {req[r].out}]}
      BY <1>4, <2>3 DEF GiveUp
    <3>2. /\ req[r].run \in Runs /\ req[r].run.mode # "Supersede"
          /\ req[r].run.mode = "Replace" => req[r].pc = "Replace" /\ req[r].out \in Outputs
      BY <2>1, <3>1 DEF Sound, InStep, Waiting, Modes
    <3>3. req[r].out \in SUBSET Triples
      BY <2>1, BoundsAssumption DEF Sound, RequestTyped
    <3> QED BY <1>1, <3>1, <3>2, <3>3 DEF LateTyped
  <2> QED BY <2>2, <2>3
<1>5. CASE Crash
  <2>1. copying' = {Bereft(u, u.seen) : u \in copying} /\ setting' = setting
    BY <1>5 DEF Crash
  <2>2. ASSUME NEW w \in copying'
        PROVE  \E u \in copying : w.run = u.run /\ w.step = u.step /\ w.seen = u.seen
    BY <2>1, <2>2 DEF Bereft
  <2> QED BY <1>1, <2>1, <2>2 DEF LateTyped
<1>6. CASE copying' \subseteq copying /\ setting' \subseteq setting
  BY <1>1, <1>6 DEF LateTyped
<1>7. ASSUME NEW r \in Reqs, Steps(r) PROVE LateTyped'
  BY <1>2, <1>3, <1>7 DEF Steps, Hit, Load, Fill, Derive, Append0, Replace, SyncDelete,
    SyncInsert, ReadLive, Supersede, Confirm, Fails, late
<1>8. CASE Events
  BY <1>2, <1>4, <1>5, <1>8 DEF Events, Run, RunAll, List, Reload, Begin, Push, GraphOp, late
<1>9. CASE (\E u \in copying : Land(u)) \/ \E u \in setting : LandGuarded(u)
  BY <1>6, <1>9 DEF Land, LandGuarded
<1> QED BY <1>2, <1>7, <1>8, <1>9 DEF Next, vars, late

\* A graph operation counts as a writer of every graph it changes.
LEMMA GraphOpStays ==
  ASSUME IInv, NEW op, NEW target \in Graphs, NEW source \in Graphs,
         GraphOp(op, target, source)
  PROVE  StoreTyped' /\ WholeOutput' /\ OneLive'
<1>1. StoreTyped /\ WholeOutput /\ OneLive
  BY DEF IInv
<1>2. graphs' \in [Graphs -> SUBSET Triples]
  <2>1. \/ graphs' = [graphs EXCEPT ![target] = {}]
        \/ graphs' = [graphs EXCEPT ![target] = graphs[source]]
        \/ graphs' = [graphs EXCEPT ![source] = {}, ![target] = graphs[source]]
        \/ graphs' = [graphs EXCEPT ![target] = @ \union graphs[source]]
        \/ graphs' = graphs
    BY DEF GraphOp
  <2> QED BY <1>1, <2>1 DEF StoreTyped
<1>3. /\ wrote' = [g \in Graphs |-> wrote[g] \union
                    (IF (graphs')[g] = graphs[g] THEN {} ELSE {"op"})]
      /\ UNCHANGED <<registry, cached, replaced, scratch, blanked>>
  BY DEF GraphOp, late
<1>4. wrote' \in [Graphs -> SUBSET (Modes \union {"op"})]
  BY <1>1, <1>3 DEF StoreTyped
<1>5. ASSUME NEW g \in Graphs, "op" \notin wrote'[g]
      PROVE  graphs'[g] = graphs[g] /\ wrote'[g] = wrote[g] /\ \A k : Live(g, k)' = Live(g, k)
  BY <1>3, <1>5 DEF Live
<1> QED BY <1>1, <1>2, <1>3, <1>4, <1>5 DEF StoreTyped, WholeOutput, OneLive
-----------------------------------------------------------------------------
LEMMA StoreStays ==
  ASSUME IInv, [Next]_vars
  PROVE  StoreTyped' /\ WholeOutput' /\ OneLive'
<1>1. StoreTyped /\ WholeOutput /\ OneLive
  BY DEF IInv
<1>2. CASE UNCHANGED <<graphs, replaced, wrote, blanked>> /\ StoreTyped'
  BY <1>1, <1>2 DEF WholeOutput, OneLive, Live
<1>3. ASSUME NEW r \in Reqs, Steps(r)
      PROVE  StoreTyped' /\ WholeOutput' /\ OneLive'
  <2>1. CASE Append0(r) \/ Replace(r) \/ SyncDelete(r) \/ SyncInsert(r) \/ Supersede(r)
    <3>1. CASE Supersede(r)
      <4>1. /\ req[r].pc = "guarded" /\ UNCHANGED <<registry, cached, scratch, blanked>>
            /\ Superseded(Target(r), req[r].key, req[r].old, Chosen(r))
        BY <3>1 DEF Supersede, late
      <4> QED BY <4>1, ChosenIsValue, SupersededStays DEF IInv
    <3> QED BY <2>1, <3>1, PutStays
  <2>2. CASE Fill(r)
    <3>1. req[r].loaded \in Registries
      BY <2>2 DEF Fill, IInv, Requests, Sound, RequestTyped
    <3> QED BY <1>1, <1>2, <2>2, <3>1 DEF Fill, StoreTyped, late
  <2>3. CASE Hit(r) \/ Load(r) \/ ReadLive(r) \/ Confirm(r) \/ Fails(r)
    BY <1>1, <1>2, <2>3 DEF Hit, Load, ReadLive, Confirm, Fails, StoreTyped, late
  <2>4. CASE Derive(r) \/ Drop(r)
    BY <1>1, <1>2, <2>4 DEF Derive, Drop, StoreTyped, late
  <2> QED BY <1>3, <2>1, <2>2, <2>3, <2>4 DEF Steps
<1>4. CASE Events
  <2>1. ASSUME NEW op \in Operations, NEW target \in Graphs, NEW source \in Graphs,
               GraphOp(op, target, source)
        PROVE  StoreTyped' /\ WholeOutput' /\ OneLive'
    BY <2>1, GraphOpStays
  <2>2. ASSUME NEW i \in RuleIds, NEW rule \in Definitions, Push(i, rule)
        PROVE  StoreTyped' /\ WholeOutput' /\ OneLive'
    <3>1. rule \in RuleDefs \union {NoRule}
      BY BoundsAssumption
    <3>2. StoreTyped'
      BY <1>1, <2>2, <3>1 DEF Push, StoreTyped, Registries, late
    <3> QED BY <1>2, <2>2, <3>2 DEF Push, late
  <2>3. CASE \/ \E r \in Reqs, ask \in Asks : Run(r, ask)
             \/ \E r \in Reqs, stop \in BOOLEAN : RunAll(r, stop)
             \/ \E r \in Reqs : List(r) \/ Reload(r)
    BY <1>1, <1>2, <2>3 DEF Run, RunAll, List, Reload, Begin, StoreTyped, late
  <2>4. CASE Crash
    BY <1>1, <1>2, <2>4 DEF Crash, StoreTyped
  <2>5. CASE \E r \in Reqs : GiveUp(r)
    BY <1>1, <1>2, <2>5 DEF GiveUp, StoreTyped
  <2> QED BY <1>4, <2>1, <2>2, <2>3, <2>4, <2>5 DEF Events
<1>5. ASSUME NEW u \in setting, LandGuarded(u)
      PROVE  StoreTyped' /\ WholeOutput' /\ OneLive'
  <2>1. /\ u.target \in Graphs /\ u.key \in Keys /\ u.new \in Values
        /\ u.old \in Values \union {NoValue}
    BY DEF IInv, LateTyped
  <2> QED BY <1>5, <2>1, SupersededStays DEF LandGuarded
<1>6. CASE UNCHANGED vars
  BY <1>1, <1>2, <1>6 DEF vars, StoreTyped, late
<1> QED BY <1>3, <1>4, <1>5, <1>6, LandStays DEF Next

LEMMA Starts ==
  ASSUME Init
  PROVE  IInv
<1>1. StoreTyped
  BY BoundsAssumption DEF Init, StoreTyped
<1>2. Requests
  <2>1. \A r \in Reqs : req[r] = Idle
    BY DEF Init
  <2> QED BY <2>1, IdleIsSound DEF Init, Requests
<1>3. WholeOutput
  BY DEF Init, WholeOutput
<1>4. OneLive
  <2>1. ASSUME NEW g \in Graphs, NEW k \in Keys, NEW v \in Live(g, k), NEW w \in Live(g, k)
        PROVE  v = w
    <3>1. graphs[g] \in Contents /\ <<k, v>> \in graphs[g] /\ <<k, w>> \in graphs[g]
      BY DEF Init, Live
    <3>2. <<k, v>> \in Triples /\ <<k, w>> \in Triples /\ <<k, v>>[1] = <<k, w>>[1]
      BY DEF Live, Triples
    <3>3. <<k, v>> = <<k, w>>
      BY <3>1, <3>2, BoundsAssumption
    <3> QED BY <3>3
  <2> QED BY <2>1 DEF OneLive
<1>5. LateTyped
  BY DEF Init, LateTyped
<1> QED BY <1>1, <1>2, <1>3, <1>4, <1>5 DEF IInv

\* The inductive invariant holds of every behaviour of the named rules.
THEOREM InductiveInvariant == Spec => []IInv
<1>1. Init => IInv
  BY Starts
<1>2. IInv /\ [Next]_vars => IInv'
  BY RequestsStay, StoreStays, LateStays DEF IInv
<1> QED BY <1>1, <1>2, PTL DEF Spec

\* The types of the registry, its cache, the graphs, the annotations and the
\* requests, for any constants that satisfy the assumption
\* (named_rules.py:102-189).
THEOREM TypeCorrect == Spec => []TypeOK
<1>1. IInv => TypeOK
  BY DEF IInv, StoreTyped, Requests, Sound, RequestTyped, TypeOK, Runs
<1> QED BY <1>1, InductiveInvariant, PTL

\* A graph that only Replace runs have written is what one of them derived,
\* however many run, fail, time out and are interrupted; or nothing, if the last
\* write was a timed-out update that found its scratch graph dropped
\* (named_rules.py:430-479, 539).
THEOREM ReplaceIsWhole == Spec => []WholeOutput
<1>1. IInv => WholeOutput
  BY DEF IInv
<1> QED BY <1>1, InductiveInvariant, PTL

\* In a graph that only Supersede runs have written no pair has two current
\* values, however many runs compare and set it (named_rules.py:577-600).
THEOREM SupersedeKeepsOne == Spec => []AtMostOneCurrent
<1>1. IInv => AtMostOneCurrent
  <2> SUFFICES ASSUME IInv, NEW g \in Graphs, NEW k \in Keys, wrote[g] \subseteq {"Supersede"}
               PROVE  Cardinality(Live(g, k)) <= 1
    BY DEF AtMostOneCurrent
  <2>1. \A v, w \in Live(g, k) : v = w
    BY DEF IInv, OneLive
  <2>2. CASE Live(g, k) = {}
    BY <2>2, FS_EmptySet
  <2>3. ASSUME NEW v \in Live(g, k) PROVE Cardinality(Live(g, k)) <= 1
    <3>1. Live(g, k) = {v}
      BY <2>1, <2>3
    <3> QED BY <3>1, FS_Singleton
  <2> QED BY <2>2, <2>3
<1> QED BY <1>1, InductiveInvariant, PTL
=============================================================================
