------------------------------- MODULE Fluent -------------------------------
(***************************************************************************)
(* Fluent transitions (holonbridge/fluent.py): one fluent, its current     *)
(* state in the scene graph and its history in the events ledger, and any  *)
(* number of concurrent calls of update_fluent on it.  A step is one       *)
(* request to the store together with the local code up to the next one.   *)
(* The ledger is kept in commit order; other fluents share no state.       *)
(***************************************************************************)
EXTENDS Integers, Sequences, FiniteSets

CONSTANTS
  Calls,        \* the calls of update_fluent
  Attempts,     \* its parameter `attempts`
  Requests,     \* the operations the calls may ask for
  Modes,        \* holon:fluentOperationMode of the fluent's property
  Gates,        \* is there a non-empty shapes graph
  Allowed,      \* the values the shapes accept
  Seeds,        \* values the fluent may hold when the calls begin
  NoValue       \* the scene graph has no holon:currentValue

Operations == {"Set", "Insert", "Remove", "ListInsert", "ListRemove"}

ASSUME FluentAssumption ==
  /\ Attempts \in Nat \ {0}
  /\ Requests \subseteq [op : Operations, arg : Int]
  /\ Modes \subseteq {"NumericAccumulator", "DateAccumulator", "SetValueMode", "ListAccumulator"}
  /\ Gates \subseteq BOOLEAN
  /\ Allowed \subseteq Int
  /\ Seeds \subseteq (Allowed \cup {NoValue})
  /\ NoValue \notin Int
  /\ "seed" \notin Calls

VARIABLES
  mode, gated,  \* what the ontology and shapes graphs say; they do not change
  scene,        \* currentValue, currentAssertion and hasListItem of the fluent
  ledger,       \* its StateAssertions
  pc, req, attempt,
  seen,         \* what the call's last _read_current answered
  scratch       \* its private copies of the two graphs

vars == <<mode, gated, scene, ledger, pc, req, attempt, seen, scratch>>

-----------------------------------------------------------------------------
NoAssertion == <<>>
SeedId      == <<"seed", 0>>
NoRequest   == [op |-> "none", arg |-> 0]
NoScratch   == [events |-> <<>>, scene |-> [value |-> NoValue, assertion |-> NoAssertion, items |-> {}]]

\* sequence.mint gives each attempt an identifier of its own (module Sequence).
IdOf(c) == <<c, attempt[c]>>
Ids     == {SeedId} \cup (Calls \X (0..Attempts))

Values  == Int \cup {NoValue}
Scenes  == [value : Values, assertion : Ids \cup {NoAssertion}, items : SUBSET Int]
Entries == [id : Ids, op : Operations, old : Values, delta : Int, new : Int,
            supersedes : Ids \cup {NoAssertion}]

InLoop   == {"read", "member", "mint", "copyEvents", "copyScene", "check", "commit", "confirm"}
TurnedAway == {"refused", "rejected", "exhausted"}
Finished == {"done", "aborted"} \cup TurnedAway
PCs      == {"idle", "afloat"} \cup InLoop \cup Finished

TypeOK ==
  /\ mode \in Modes /\ gated \in Gates
  /\ scene \in Scenes
  /\ ledger \in Seq(Entries)
  /\ pc \in [Calls -> PCs]
  /\ req \in [Calls -> Requests \cup {NoRequest}]
  /\ attempt \in [Calls -> 0..Attempts]
  /\ seen \in [Calls -> [value : Values, assertion : Ids \cup {NoAssertion}]]
  /\ scratch \in [Calls -> [events : Seq(Entries), scene : Scenes]]

SeedEntry(v) ==
  [id |-> SeedId, op |-> "Set", old |-> NoValue, delta |-> 0, new |-> v,
   supersedes |-> NoAssertion]

\* A fluent never set, or one a single Set gave a value the shapes accept.
Init ==
  /\ mode \in Modes /\ gated \in Gates
  /\ \E v \in IF mode = "ListAccumulator" THEN {NoValue} ELSE Seeds :
       /\ scene = [value |-> v, items |-> {},
                   assertion |-> IF v = NoValue THEN NoAssertion ELSE SeedId]
       /\ ledger = IF v = NoValue THEN <<>> ELSE <<SeedEntry(v)>>
  /\ pc = [c \in Calls |-> "idle"]
  /\ req = [c \in Calls |-> NoRequest]
  /\ attempt = [c \in Calls |-> 0]
  /\ seen = [c \in Calls |-> [value |-> NoValue, assertion |-> NoAssertion]]
  /\ scratch = [c \in Calls |-> NoScratch]

-----------------------------------------------------------------------------
(***************************************************************************)
(* Faulty variants of the operators below; the first four are bugs the     *)
(* code had and its change notes describe.  No action uses them.           *)
(***************************************************************************)
\* currentAssertion is not written, so nothing is ever superseded.
ForgetsAssertion(c, s) ==
  CASE req[c].op = "ListInsert" -> [s EXCEPT !.items = @ \cup {req[c].arg}]
    [] req[c].op = "ListRemove" -> [s EXCEPT !.items = @ \ {req[c].arg}]
    [] OTHER -> [s EXCEPT !.value = req[c].arg]
\* A transition is confirmed by finding its assertion current in the scene.
ConfirmsByScene(c) == scene.assertion = IdOf(c)
\* The update does not ask for the value that was read.
Unguarded(c, s) == TRUE
\* The ledger entry has the old value where the delta goes.
RecordsTheOldValue(c) ==
  [id |-> IdOf(c), op |-> req[c].op, old |-> seen[c].value,
   delta |-> seen[c].value, new |-> req[c].arg, supersedes |-> seen[c].assertion]

-----------------------------------------------------------------------------
\* _VALID_OPS
ValidOps(m) ==
  CASE m \in {"NumericAccumulator", "DateAccumulator"} -> {"Set", "Insert", "Remove"}
    [] m = "SetValueMode"    -> {"Set"}
    [] m = "ListAccumulator" -> {"ListInsert", "ListRemove"}

\* _plan, its first result: the value the transition records.
NewValue(c) ==
  CASE req[c].op = "Insert" -> seen[c].value + req[c].arg
    [] req[c].op = "Remove" -> seen[c].value - req[c].arg
    [] OTHER -> req[c].arg

\* _plan, its guard, evaluated on a scene graph.
GuardHolds(c, s) ==
  CASE req[c].op = "ListInsert" -> TRUE
    [] req[c].op = "ListRemove" -> req[c].arg \in s.items
    [] OTHER -> s.value = seen[c].value

\* The ledger entry and the new scene of a transition whose guard holds.
Entry(c) ==
  [id |-> IdOf(c), op |-> req[c].op, old |-> seen[c].value,
   delta |-> req[c].arg, new |-> NewValue(c), supersedes |-> seen[c].assertion]

SceneAfter(c, s) ==
  CASE req[c].op = "ListInsert" -> [s EXCEPT !.items = @ \cup {req[c].arg}]
    [] req[c].op = "ListRemove" -> [s EXCEPT !.items = @ \ {req[c].arg}]
    [] OTHER -> [s EXCEPT !.value = NewValue(c), !.assertion = IdOf(c)]

\* The pre-commit scope: assertions that no later one supersedes.
Live(events) ==
  {events[i] : i \in {j \in DOMAIN events :
      \A k \in DOMAIN events : events[k].supersedes # events[j].id}}

\* The shapes: accepted values, and StateAssertionNonOverlapShape.
Conforms(entries) ==
  /\ \A e \in entries : e.new \in Allowed
  /\ \A e, f \in {g \in entries : g.op \notin {"ListInsert", "ListRemove"}} : e = f

\* One SPARQL request on a scene graph and a ledger: both halves or neither.
Transition(c, s, events) ==
  IF GuardHolds(c, s)
  THEN [scene |-> SceneAfter(c, s), events |-> Append(events, Entry(c))]
  ELSE [scene |-> s, events |-> events]

-----------------------------------------------------------------------------
Goto(c, label) == pc' = [pc EXCEPT ![c] = label]

\* Another attempt from a fresh read, or FluentError after the last one.
AfterLoss(c) == IF attempt[c] + 1 < Attempts THEN "read" ELSE "exhausted"

Lose(c) ==
  /\ attempt' = [attempt EXCEPT ![c] = @ + 1]
  /\ Goto(c, AfterLoss(c))

\* The mode and the shapes graph are read, and the operation is checked.
Start(c) ==
  /\ pc[c] = "idle"
  /\ \E r \in Requests :
       /\ req' = [req EXCEPT ![c] = r]
       /\ Goto(c, IF r.op \in ValidOps(mode) THEN "read" ELSE "refused")
  /\ UNCHANGED <<mode, gated, scene, ledger, attempt, seen, scratch>>

ReadCurrent(c) ==
  /\ pc[c] = "read"
  /\ seen' = [seen EXCEPT ![c] = [value |-> scene.value, assertion |-> scene.assertion]]
  /\ Goto(c, IF req[c].op = "ListRemove" THEN "member" ELSE "mint")
  /\ UNCHANGED <<mode, gated, scene, ledger, req, attempt, scratch>>

IsMember(c) == req[c].arg \in scene.items

CheckMember(c) ==
  /\ pc[c] = "member"
  /\ Goto(c, IF IsMember(c) THEN "mint" ELSE "refused")
  /\ UNCHANGED <<mode, gated, scene, ledger, req, attempt, seen, scratch>>

NeedsValue(c) == req[c].op \in {"Insert", "Remove"}

\* The identifier is minted, then _plan refuses a delta to no value.
MintAndPlan(c) ==
  /\ pc[c] = "mint"
  /\ Goto(c, IF NeedsValue(c) /\ seen[c].value = NoValue THEN "refused"
             ELSE IF gated THEN "copyEvents" ELSE "commit")
  /\ UNCHANGED <<mode, gated, scene, ledger, req, attempt, seen, scratch>>

\* _precommit_check: the two COPYs are two requests.
CopyEvents(c) ==
  /\ pc[c] = "copyEvents"
  /\ scratch' = [scratch EXCEPT ![c].events = ledger]
  /\ Goto(c, "copyScene")
  /\ UNCHANGED <<mode, gated, scene, ledger, req, attempt, seen>>

CopyScene(c) ==
  /\ pc[c] = "copyScene"
  /\ scratch' = [scratch EXCEPT ![c].scene = scene]
  /\ Goto(c, "check")
  /\ UNCHANGED <<mode, gated, scene, ledger, req, attempt, seen>>

\* What the shapes are applied to: the copied ledger after the trial run.
TrialEvents(c) == Transition(c, scratch[c].scene, scratch[c].events).events

\* An empty scope means the candidate did not fire: a lost race.
Check(c) ==
  /\ pc[c] = "check"
  /\ LET scope == Live(TrialEvents(c)) IN
       \/ scope = {} /\ Lose(c)
       \/ /\ scope # {}
          /\ Goto(c, IF Conforms(scope) THEN "commit" ELSE "rejected")
          /\ UNCHANGED attempt
  /\ scratch' = [scratch EXCEPT ![c] = NoScratch]
  /\ UNCHANGED <<mode, gated, scene, ledger, req, seen>>

ApplyLive(c) ==
  LET after == Transition(c, scene, ledger) IN
    /\ scene' = after.scene
    /\ ledger' = after.events

Commit(c) ==
  /\ pc[c] = "commit"
  /\ ApplyLive(c)
  /\ Goto(c, "confirm")
  /\ UNCHANGED <<mode, gated, req, attempt, seen, scratch>>

\* _confirm_own_assertion
Confirmed(c) == \E i \in DOMAIN ledger : ledger[i].id = IdOf(c)

Confirm(c) ==
  /\ pc[c] = "confirm"
  /\ \/ Confirmed(c) /\ Goto(c, "done") /\ UNCHANGED attempt
     \/ ~Confirmed(c) /\ Lose(c)
  /\ UNCHANGED <<mode, gated, scene, ledger, req, seen, scratch>>

-----------------------------------------------------------------------------
\* Any request may fail and end the call; FusekiClient does not retry.
Abort(c) ==
  /\ pc[c] \in InLoop
  /\ Goto(c, "aborted")
  /\ scratch' = [scratch EXCEPT ![c] = NoScratch]
  /\ UNCHANGED <<mode, gated, scene, ledger, req, attempt, seen>>

\* The commit times out, and the store may still run it later.
TimeOut(c) ==
  /\ pc[c] = "commit"
  /\ Goto(c, "afloat")
  /\ UNCHANGED <<mode, gated, scene, ledger, req, attempt, seen, scratch>>

LateCommit(c) ==
  /\ pc[c] = "afloat"
  /\ ApplyLive(c)
  /\ Goto(c, "aborted")
  /\ UNCHANGED <<mode, gated, req, attempt, seen, scratch>>

UpdateFluent(c) ==
  \/ Start(c) \/ ReadCurrent(c) \/ CheckMember(c) \/ MintAndPlan(c)
  \/ CopyEvents(c) \/ CopyScene(c) \/ Check(c) \/ Commit(c) \/ Confirm(c)

Fail(c) == Abort(c) \/ TimeOut(c) \/ LateCommit(c)

Next == \E c \in Calls : UpdateFluent(c) \/ Fail(c)

Spec == Init /\ [][Next]_vars

-----------------------------------------------------------------------------
EntriesOf(c) == {i \in DOMAIN ledger : ledger[i].id[1] = c}

\* The last ledger entry about a list member.
LastIsInsert(x) ==
  \E i \in DOMAIN ledger :
    /\ ledger[i].op = "ListInsert" /\ ledger[i].new = x
    /\ \A j \in DOMAIN ledger :
         j > i => ~(ledger[j].op = "ListRemove" /\ ledger[j].new = x)

\* The scene graph is what the ledger's last entries say, at every moment: no
\* ledger entry without its scene update, no scene update without its entry.
SceneMatchesLedger ==
  IF mode = "ListAccumulator"
  THEN \A x \in {r.arg : r \in Requests} : x \in scene.items <=> LastIsInsert(x)
  ELSE IF ledger = <<>>
       THEN scene.value = NoValue /\ scene.assertion = NoAssertion
       ELSE LET last == ledger[Len(ledger)] IN
              scene.value = last.new /\ scene.assertion = last.id

\* No update is lost: each entry starts from the value the one before it left,
\* and a delta is applied to that value.
NoLostUpdate ==
  mode # "ListAccumulator" =>
    \A i \in DOMAIN ledger :
      LET e == ledger[i] IN
        /\ e.old = IF i = 1 THEN NoValue ELSE ledger[i - 1].new
        /\ e.op = "Insert" => e.new = e.old + e.delta
        /\ e.op = "Remove" => e.new = e.old - e.delta

\* A call takes effect at most once, however often it retries.
AppliedOnce == \A c \in Calls : Cardinality(EntriesOf(c)) <= 1

\* A call that answered took effect; one that was refused, rejected by the
\* shapes or gave up left nothing behind.
AnswersAreTrue ==
  \A c \in Calls :
    /\ pc[c] = "done" => EntriesOf(c) # {}
    /\ pc[c] \in TurnedAway => EntriesOf(c) = {}

\* At most one StateAssertion of a scalar fluent is not superseded.
OneLiveAssertion ==
  mode # "ListAccumulator" => Cardinality(Live(ledger)) <= 1

\* Every value a gated dataset holds was accepted by its shapes.
GateSound == gated => \A i \in DOMAIN ledger : ledger[i].new \in Allowed

\* The ledger accounts for the scene and for every answer: the scene is what it
\* says last, no update is lost, none is applied twice, and a call that answered
\* success, and no call that was turned away, has its entry in it.
LedgerAccounts == SceneMatchesLedger /\ NoLostUpdate /\ AppliedOnce /\ AnswersAreTrue

\* No two transitions recorded the same value.
ValuesNeverRecur ==
  \A i, j \in DOMAIN ledger : ledger[i].new = ledger[j].new => i = j

\* Unless a value came back, the chain of supersession is unbroken and the gate
\* lets nothing past that the shapes refuse.
SoundUnlessValueRecurs == ValuesNeverRecur => OneLiveAssertion /\ GateSound

\* Where a call is, as its caller would see it and the ledger tells.
Phase(c) ==
  CASE pc[c] = "idle"        -> "idle"
    [] pc[c] = "done"        -> "answered"
    [] pc[c] \in TurnedAway  -> "turned away"
    [] pc[c] = "aborted"     -> IF EntriesOf(c) = {} THEN "failed" ELSE "in effect"
    [] OTHER                 -> IF EntriesOf(c) = {} THEN "open" ELSE "in effect"

\* Concurrent transitions of one fluent act as one register would: each takes
\* effect once, at one moment, on what the fluent holds at that moment, although
\* its read, its validation, its update and its confirmation are requests of
\* their own and an update may land after the call is over.
Held     == [value |-> scene.value, items |-> scene.items]
Phases   == [c \in Calls |-> Phase(c)]
Register == INSTANCE FluentRegister WITH held <- Held, phase <- Phases, asked <- req
ActsAsRegister == Register!Spec

=============================================================================
