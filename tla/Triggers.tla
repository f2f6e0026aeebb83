------------------------------ MODULE Triggers ------------------------------
(***************************************************************************)
(* Named triggers (holonbridge/triggers.py, trigger_authz.py,              *)
(* trigger_hook.py, trigger_registry.py, routes/triggers.py): a condition  *)
(* is evaluated after every write and on every sweep, and a focus it newly *)
(* matches has its rule run, its output staged for review, or an agent     *)
(* called.  An evaluation belongs to the request that set it off and takes *)
(* no lock; a step is one request to the store.                            *)
(***************************************************************************)
EXTENDS Integers, Sequences, FiniteSets

CONSTANTS
  Trigs, Foci, Persons,
  Requests,        \* coroutines
  Evaluators, Reviewers, Editors,   \* bound: what each of them may be asked to do
  Blanks,          \* bound: whether what a rule produces may be empty
  Contested,       \* bound: the (person, act) pairs whose grant may change
  RequireDefiner,  \* TRIGGERS_REQUIRE_DEFINER
  TTL,             \* DEFINER_RECHECK_TTL_SECONDS, in ticks
  MaxEvents,       \* bound on requests, grants and crashes
  MaxFirings,      \* bound on the ledger
  MaxCandidates    \* bound on the candidates graph

Nobody == "nobody"
(* What a trigger does when it fires: its rule's output is staged           *)
(* (reviewRequired), its rule is run, or its agent is called.  The definer *)
(* must be allowed to write the candidates, the rule's target, the calls.  *)
Acts   == {"stage", "execute", "call"}

ASSUME TriggersAssumption ==
  /\ Evaluators \subseteq Requests /\ Reviewers \subseteq Requests /\ Editors \subseteq Requests
  /\ Blanks \subseteq BOOLEAN
  /\ Contested \subseteq Persons \X Acts
  /\ Nobody \notin Persons
  /\ RequireDefiner \in BOOLEAN
  /\ TTL \in Nat \ {0}
  /\ MaxEvents \in Nat /\ MaxFirings \in Nat /\ MaxCandidates \in Nat

VARIABLES
  cond,      \* the foci each trigger's condition matches now
  reg,       \* the named-triggers graph
  log,       \* the trigger-log graph, oldest firing first
  cands,     \* the candidates graph, oldest first
  calls,     \* how many agent calls are open for a trigger and a focus
  may,       \* who may do what, by the grants of the moment
  lost,      \* ticks since a person last could, up to TTL
  verdicts,  \* _recheck_cache
  req,       \* what each request is doing
  events     \* how much has happened so far

world == <<cond, calls, may, lost>>
vars  == <<cond, reg, log, cands, calls, may, lost, verdicts, req, events>>

NoTrigger == "no trigger"
NoFocus   == "no focus"
Statuses  == {"Active", "Suspended"}          \* Deprecated is as Suspended
Absent    == [defined |-> FALSE, status |-> "Suspended", armedBy |-> Nobody, act |-> "stage"]
Defs      == [defined : BOOLEAN, status : Statuses, armedBy : Persons \cup {Nobody},
              act : Acts]
NoDefs    == [t \in Trigs |-> Absent]
Keys      == Persons \X Trigs \X Acts
Unknown   == [age |-> 0, ok |-> "unknown"]
Verdicts  == [age : 0..(TTL - 1), ok : {"unknown", "yes", "no"}]

Idle == [pc |-> "idle", load |-> NoDefs, todo |-> {}, trig |-> NoTrigger,
         matches |-> {}, stale |-> {}, foci |-> {}, focus |-> NoFocus,
         verdict |-> "unknown", asked |-> 0, lostFor |-> 0, cand |-> 0,
         def |-> Absent]
Reqs == [pc : {"idle", "load", "loop", "live", "clear", "foci", "definer", "act",
               "stage", "call", "record", "merge", "approve", "reject",
               "register", "status"},
         load : [Trigs -> Defs], todo : SUBSET Trigs, trig : Trigs \cup {NoTrigger},
         matches : SUBSET Foci, stale : SUBSET Nat, foci : SUBSET Foci,
         focus : Foci \cup {NoFocus}, verdict : {"unknown", "yes", "no"},
         asked : Nat, lostFor : 0..TTL, cand : Nat, def : Defs]

Firings == [trig : Trigs, focus : Foci, cleared : BOOLEAN, asked : Nat]
Cands   == [trig : Trigs \cup {NoTrigger}, focus : Foci \cup {NoFocus}, blank : BOOLEAN,
            status : {"Pending", "Approved", "Rejected"}, merged : BOOLEAN]

TypeOK ==
  /\ cond \in [Trigs -> SUBSET Foci]
  /\ reg \in [Trigs -> Defs]
  /\ log \in Seq(Firings)
  /\ cands \in Seq(Cands)
  /\ calls \in [Trigs \X Foci -> Nat]
  /\ may \subseteq Persons \X Acts
  /\ lost \in [Persons \X Acts -> 0..TTL]
  /\ verdicts \in [Keys -> Verdicts]
  /\ req \in [Requests -> Reqs]
  /\ events \in 0..MaxEvents

Init ==
  /\ cond = [t \in Trigs |-> {}]
  /\ reg \in [Trigs -> {d \in Defs : d.defined /\ d.status = "Active"}]
  /\ log = <<>> /\ cands = <<>>
  /\ calls = [p \in Trigs \X Foci |-> 0]
  /\ may = Persons \X Acts
  /\ lost = [g \in Persons \X Acts |-> 0]
  /\ verdicts = [k \in Keys |-> Unknown]
  /\ req = [r \in Requests |-> Idle]
  /\ events = 0

At(r, pc) == req[r].pc = pc
Goto(r, pc) == req' = [req EXCEPT ![r].pc = pc]
Stop(r) == req' = [req EXCEPT ![r] = Idle]

(* May this person do what a rule trigger does, or an agent's?              *)
RuleMayFire(p, act) == act # "call" /\ <<p, act>> \in may
AgentMayFire(p, act) == act = "call" /\ <<p, act>> \in may
Allowed(p, act) == RuleMayFire(p, act) \/ AgentMayFire(p, act)

-----------------------------------------------------------------------------
(* The firing ledger and the candidates.                                   *)

(* Mutant: the FILTER of the ASK keeps the cleared firings.                *)
OnlyCleared(t) == {i \in DOMAIN log : log[i].trig = t /\ log[i].cleared}

LiveFor(t)  == {i \in DOMAIN log : log[i].trig = t /\ ~log[i].cleared}
AlreadyFired(t, f) == \E i \in LiveFor(t) : log[i].focus = f
PendingCandidate(t, f) ==
  \E i \in DOMAIN cands : cands[i].trig = t /\ cands[i].focus = f /\ cands[i].status = "Pending"

-----------------------------------------------------------------------------
(* An evaluation, from the post-write hook, a sweep or the evaluate route. *)

Toggled(t, f) == [cond EXCEPT ![t] = IF f \in @ THEN @ \ {f} ELSE @ \cup {f}]
Changes == {cond} \cup {Toggled(t, f) : t \in Trigs, f \in Foci}

(* A write to domain data; the hook runs in the request after it commits.  *)
Write(r, t, f) ==
  /\ At(r, "idle")
  /\ cond' = Toggled(t, f)
  /\ Goto(r, "load")
  /\ UNCHANGED <<reg, log, cands, calls, may, lost, verdicts>>

(* A maintenance sweep, or POST /named-trigger/{id}/evaluate.              *)
Sweep(r) ==
  /\ At(r, "idle")
  /\ Goto(r, "load")
  /\ UNCHANGED <<world, reg, log, cands, verdicts>>

(* Where an evaluation ends: the request is answered, or goes on with the  *)
(* approval whose merge set the hook off.                                  *)
Done(q) == [Idle EXCEPT !.pc = IF q.cand = 0 THEN "idle" ELSE "approve", !.cand = q.cand]

(* What is left of q when only the triggers todo are, and of its present   *)
(* trigger when only these foci are.                                       *)
NextTrigger(q, todo) ==
  IF todo = {} THEN Done(q)
  ELSE [Idle EXCEPT !.pc = "loop", !.load = q.load, !.todo = todo, !.cand = q.cand]
NextFoci(q, foci) ==
  IF foci = {} THEN NextTrigger(q, q.todo)
  ELSE [q EXCEPT !.pc = "foci", !.foci = foci, !.focus = NoFocus, !.asked = 0,
                 !.matches = {}, !.stale = {}]

Becomes(r, q) == req' = [req EXCEPT ![r] = q]
NextFocus(r)  == Becomes(r, NextFoci(req[r], req[r].foci \ {req[r].focus}))

(* The triggers that are loaded, none if the registry does not answer, and *)
(* what the predicates a write touched leave of them: any part, since what *)
(* they watch is not modelled.                                             *)
Loaded == {t \in Trigs : reg[t].defined}
Narrowed(S) == SUBSET S

(* The Active ones of the kind and ids asked for.                          *)
Load(r) ==
  /\ At(r, "load")
  /\ \E S \in Narrowed({t \in Loaded : reg[t].status = "Active"}) :
       Becomes(r, NextTrigger([req[r] EXCEPT !.load = reg], S))
  /\ UNCHANGED <<world, reg, log, cands, verdicts>>

(* A trigger whose condition fails, or of which a part is unknown, is left *)
(* alone and nothing is re-armed.                                          *)
LeaveAlone(r, t) ==
  /\ At(r, "loop") /\ t \in req[r].todo
  /\ Becomes(r, NextTrigger(req[r], req[r].todo \ {t}))
  /\ UNCHANGED <<world, reg, log, cands, verdicts>>

(* Else it is run, and its distinct foci are what the rest is about.       *)
RunCondition(r, t) ==
  /\ At(r, "loop") /\ t \in req[r].todo
  /\ Becomes(r, [req[r] EXCEPT !.pc = "live", !.todo = @ \ {t}, !.trig = t, !.matches = cond[t]])
  /\ UNCHANGED <<world, reg, log, cands, verdicts>>

(* _rearm: the live firings whose focus is not among the matches, read ... *)
ReadLive(r) ==
  LET q == req[r]  old == {i \in LiveFor(q.trig) : log[i].focus \notin q.matches}
  IN /\ At(r, "live")
     /\ \/ Becomes(r, NextFoci(q, q.matches))         \* none, or no answer
        \/ old # {} /\ Becomes(r, [q EXCEPT !.pc = "clear", !.stale = old])
     /\ UNCHANGED <<world, reg, log, cands, verdicts>>

(* ... and stamped clearedAt.  A failure is logged and the foci go on.     *)
Clear(r) ==
  /\ At(r, "clear")
  /\ \/ UNCHANGED log
     \/ log' = [i \in DOMAIN log |-> IF i \in req[r].stale THEN [log[i] EXCEPT !.cleared = TRUE]
                                                           ELSE log[i]]
  /\ Becomes(r, NextFoci(req[r], req[r].matches))
  /\ UNCHANGED <<world, reg, cands, verdicts>>

(* The ledger is asked about one focus.  The definer is asked about once   *)
(* per trigger and evaluation, and only when there is something to fire.   *)
Ask(r, f) ==
  /\ At(r, "foci") /\ f \in req[r].foci
  /\ IF AlreadyFired(req[r].trig, f) \/ req[r].verdict = "no"
     THEN Becomes(r, NextFoci(req[r], req[r].foci \ {f}))
     ELSE req' = [req EXCEPT ![r].focus = f, ![r].asked = Len(log),
                             ![r].pc = IF req[r].verdict = "unknown" THEN "definer" ELSE "act"]
  /\ UNCHANGED <<world, reg, log, cands, verdicts>>

(* The ASK does not answer: the error leaves the evaluator and the hook    *)
(* swallows it.                                                            *)
AskFails(r) ==
  /\ At(r, "foci")
  /\ Becomes(r, Done(req[r]))
  /\ UNCHANGED <<world, reg, log, cands, verdicts>>

(* _definer_denied.  A verdict is reused for TTL; a store that does not    *)
(* answer denies, and is asked again by the next evaluation.               *)
Decide(r, ok) ==
  LET q == req[r]  t == q.trig  d == q.load[t]
      lostFor == IF d.armedBy = Nobody THEN 0 ELSE lost[<<d.armedBy, d.act>>]
  IN IF ok = "yes"
     THEN Becomes(r, [q EXCEPT !.pc = "act", !.verdict = "yes", !.lostFor = lostFor])
     ELSE Becomes(r, NextFoci([q EXCEPT !.verdict = "no"], q.foci \ {q.focus}))

Definer(r) ==
  LET t == req[r].trig  d == req[r].load[t]  key == <<d.armedBy, t, d.act>>
      ok == IF Allowed(d.armedBy, d.act) THEN "yes" ELSE "no"
  IN /\ At(r, "definer")
     /\ \/ /\ d.armedBy = Nobody
           /\ Decide(r, IF RequireDefiner THEN "no" ELSE "yes")
           /\ UNCHANGED verdicts
        \/ /\ d.armedBy # Nobody /\ verdicts[key].ok # "unknown"
           /\ Decide(r, verdicts[key].ok)
           /\ UNCHANGED verdicts
        \/ /\ d.armedBy # Nobody /\ verdicts[key].ok = "unknown"
           /\ \/ /\ verdicts' = [verdicts EXCEPT ![key] = [age |-> 0, ok |-> ok]]
                 /\ Decide(r, ok)
              \/ /\ UNCHANGED verdicts
                 /\ Decide(r, "no")
     /\ UNCHANGED <<world, reg, log, cands>>

(* A proposal is not stacked on one that still waits.                      *)
Propose(r) ==
  LET q == req[r]
  IN /\ At(r, "act") /\ q.load[q.trig].act = "stage"
     /\ IF PendingCandidate(q.trig, q.focus) THEN NextFocus(r) ELSE Goto(r, "stage")
     /\ UNCHANGED <<world, reg, log, cands, verdicts>>

(* An agent is not called while the previous call is open, or for nobody.  *)
CallAgent(r) ==
  LET q == req[r]  d == q.load[q.trig]
  IN /\ At(r, "act") /\ d.act = "call"
     /\ IF calls[<<q.trig, q.focus>>] > 0 \/ d.armedBy = Nobody THEN NextFocus(r) ELSE Goto(r, "call")
     /\ UNCHANGED <<world, reg, log, cands, verdicts>>

(* A rule is run at once; what it writes may be what conditions are about, *)
(* but sets off no evaluation of its own.                                  *)
Execute(r) ==
  /\ At(r, "act") /\ req[r].load[req[r].trig].act = "execute"
  /\ cond' \in Changes
  /\ Goto(r, "record")
  /\ UNCHANGED <<calls, may, lost, reg, log, cands, verdicts>>

(* A request of the firing fails: the next focus is tried.                 *)
FiringFails(r) ==
  /\ At(r, "act") \/ At(r, "stage")
  /\ NextFocus(r)
  /\ UNCHANGED <<world, reg, log, cands, verdicts>>

(* The output of the rule becomes a candidate; it may arrive although the  *)
(* answer does not.                                                        *)
Stage(r) ==
  /\ At(r, "stage") /\ Len(cands) < MaxCandidates
  /\ \E blank \in Blanks :
       cands' = Append(cands, [trig |-> req[r].trig, focus |-> req[r].focus, blank |-> blank,
                               status |-> "Pending", merged |-> FALSE])
  /\ \/ Goto(r, "record") \/ NextFocus(r)
  /\ UNCHANGED <<world, reg, log, verdicts>>

(* The call is put in the agent ledger (AgentCalls models what follows).   *)
PlaceCall(r) ==
  /\ At(r, "call")
  /\ \/ /\ calls' = [calls EXCEPT ![<<req[r].trig, req[r].focus>>] = @ + 1]
        /\ \/ Goto(r, "record") \/ NextFocus(r)
     \/ UNCHANGED calls /\ NextFocus(r)
  /\ UNCHANGED <<cond, may, lost, reg, log, cands, verdicts>>

(* The firing is recorded, after what it did.                              *)
Record(r) ==
  /\ At(r, "record") /\ Len(log) < MaxFirings
  /\ \/ log' = Append(log, [trig |-> req[r].trig, focus |-> req[r].focus, cleared |-> FALSE,
                            asked |-> req[r].asked])
     \/ UNCHANGED log
  /\ NextFocus(r)
  /\ UNCHANGED <<world, reg, cands, verdicts>>

-----------------------------------------------------------------------------
(* Reviewing candidates.                                                   *)

(* The candidate is read and its status looked at, then the request acts.  *)
BeginReview(r, c, verb) ==
  /\ At(r, "idle") /\ c \in DOMAIN cands /\ cands[c].status = "Pending"
  /\ req' = [req EXCEPT ![r].cand = c,
                        ![r].pc = IF verb = "approve" /\ cands[c].blank THEN "approve"
                                  ELSE IF verb = "approve" THEN "merge" ELSE "reject"]
  /\ UNCHANGED <<world, reg, log, cands, verdicts>>

(* Mutant: the write that was refused goes unnoticed.                      *)
MergeUnchecked(r) ==
  /\ At(r, "merge")
  /\ Goto(r, "approve")
  /\ UNCHANGED <<world, reg, log, cands, verdicts>>

(* The gated write of the staged Turtle: refused or failed, the candidate  *)
(* stays as it is; else it changes the data and sets the hook off.         *)
Merge(r) ==
  /\ At(r, "merge")
  /\ \/ /\ Stop(r)
        /\ UNCHANGED <<cond, cands>>
     \/ /\ cands' = [cands EXCEPT ![req[r].cand].merged = TRUE]
        /\ cond' \in Changes
        /\ \/ Goto(r, "load") \/ Stop(r)
  /\ UNCHANGED <<calls, may, lost, reg, log, verdicts>>

SetCandidateStatus(r, status) ==
  /\ \/ cands' = [cands EXCEPT ![req[r].cand].status = status]
     \/ UNCHANGED cands
  /\ Stop(r)
  /\ UNCHANGED <<world, reg, log, verdicts>>

Approve(r) == At(r, "approve") /\ SetCandidateStatus(r, "Approved")
Reject(r)  == At(r, "reject") /\ SetCandidateStatus(r, "Rejected")

(* A pipeline stage or an agent's answer is staged the same way.           *)
ProposeElsewhere ==
  /\ Len(cands) < MaxCandidates
  /\ \E blank \in Blanks :
       cands' = Append(cands, [trig |-> NoTrigger, focus |-> NoFocus, blank |-> blank,
                               status |-> "Pending", merged |-> FALSE])
  /\ UNCHANGED <<world, reg, log, verdicts, req>>

-----------------------------------------------------------------------------
(* Registration, arming and deletion.                                      *)

(* The condition and what it fires exist within the reach of whoever arms  *)
(* the trigger, who may do what it does: with a rule, and with an agent.   *)
RuleParts(p, act)  == RuleMayFire(p, act)
AgentParts(p, act) == AgentMayFire(p, act)

(* The caller is checked against the definition it brings ...              *)
Register(r, t, d) ==
  /\ At(r, "idle") /\ d.defined
  /\ RuleParts(d.armedBy, d.act) \/ AgentParts(d.armedBy, d.act)
  /\ req' = [req EXCEPT ![r].pc = "register", ![r].trig = t, ![r].def = d]
  /\ UNCHANGED <<world, reg, log, cands, verdicts>>

(* ... which then replaces the node, in one request.                       *)
Store(r) ==
  /\ At(r, "register")
  /\ \/ reg' = [reg EXCEPT ![req[r].trig] = req[r].def]
     \/ UNCHANGED reg
  /\ Stop(r)
  /\ UNCHANGED <<world, log, cands, verdicts>>

(* Setting the status checks who arms the trigger against the definition   *)
(* the registry cache holds, which may be older than what is stored; here  *)
(* it ages between this step and the next.                                 *)
CheckStatus(r, t, p, status) ==
  /\ At(r, "idle") /\ reg[t].defined
  /\ status = "Active" => RuleParts(p, reg[t].act) \/ AgentParts(p, reg[t].act)
  /\ req' = [req EXCEPT ![r].pc = "status", ![r].trig = t,
                        ![r].def = [Absent EXCEPT !.armedBy = p, !.status = status]]
  /\ UNCHANGED <<world, reg, log, cands, verdicts>>

(* The update sets the status of whatever is stored by now; armedBy only   *)
(* when it arms.  A node deleted meanwhile gets a status and nothing else, *)
(* which the loader does not take for a trigger.                           *)
SetStatus(r) ==
  LET t == req[r].trig  d == req[r].def
  IN /\ At(r, "status")
     /\ \/ reg' = IF ~reg[t].defined THEN reg
                  ELSE [reg EXCEPT ![t].status = d.status,
                          ![t].armedBy = IF d.status = "Active" THEN d.armedBy ELSE @]
        \/ UNCHANGED reg
     /\ Stop(r)
     /\ UNCHANGED <<world, log, cands, verdicts>>

(* The ledger keeps the firings of a trigger that is gone.                 *)
Delete(t) ==
  /\ reg[t].defined
  /\ reg' = [reg EXCEPT ![t] = Absent]
  /\ UNCHANGED <<world, log, cands, verdicts, req>>

(* A trigger pushed as Turtle by hand has no definer.                      *)
Push(t, act) ==
  /\ reg' = [reg EXCEPT ![t] = [defined |-> TRUE, status |-> "Active", armedBy |-> Nobody,
                                act |-> act]]
  /\ UNCHANGED <<world, log, cands, verdicts, req>>

-----------------------------------------------------------------------------
(* The surroundings: grants, agents, time, the process.                    *)

Grant(p, a) ==
  /\ may' = IF <<p, a>> \in may THEN may \ {<<p, a>>} ELSE may \cup {<<p, a>>}
  /\ lost' = [lost EXCEPT ![<<p, a>>] = 0]
  /\ UNCHANGED <<cond, calls, reg, log, cands, verdicts, req>>

CallCloses(t, f) ==
  /\ calls[<<t, f>>] > 0
  /\ calls' = [calls EXCEPT ![<<t, f>>] = @ - 1]
  /\ UNCHANGED <<cond, may, lost, reg, log, cands, verdicts, req>>

(* Mutant: a verdict is still good at the end of its TTL.                  *)
TickLate ==
  /\ lost' = [g \in Persons \X Acts |->
                IF g \in may THEN 0 ELSE IF lost[g] < TTL THEN lost[g] + 1 ELSE TTL]
  /\ verdicts' = [k \in Keys |-> IF verdicts[k].ok = "unknown" \/ verdicts[k].age = TTL
                                 THEN Unknown ELSE [verdicts[k] EXCEPT !.age = @ + 1]]
  /\ UNCHANGED <<cond, calls, may, reg, log, cands, req>>

Tick ==
  /\ lost' = [g \in Persons \X Acts |->
                IF g \in may THEN 0 ELSE IF lost[g] < TTL THEN lost[g] + 1 ELSE TTL]
  /\ verdicts' = [k \in Keys |-> IF verdicts[k].ok = "unknown" \/ verdicts[k].age + 1 = TTL
                                 THEN Unknown ELSE [verdicts[k] EXCEPT !.age = @ + 1]]
  /\ UNCHANGED <<cond, calls, may, reg, log, cands, req>>

Crash ==
  /\ req' = [r \in Requests |-> Idle]
  /\ verdicts' = [k \in Keys |-> Unknown]
  /\ UNCHANGED <<world, reg, log, cands>>

Evaluate(r) ==
  \/ Load(r) \/ ReadLive(r) \/ Clear(r) \/ AskFails(r) \/ Definer(r)
  \/ Propose(r) \/ CallAgent(r) \/ Execute(r) \/ FiringFails(r)
  \/ Stage(r) \/ PlaceCall(r) \/ Record(r)
  \/ \E t \in Trigs : LeaveAlone(r, t) \/ RunCondition(r, t)
  \/ \E f \in Foci : Ask(r, f)

Steps ==
  \/ \E r \in Requests : Evaluate(r) \/ Store(r) \/ SetStatus(r)
  \/ \E r \in Requests : Merge(r) \/ Approve(r) \/ Reject(r)
  \/ \E t \in Trigs, f \in Foci : CallCloses(t, f)
  \/ Tick

Events ==
  \/ \E r \in Evaluators : Sweep(r) \/ \E t \in Trigs, f \in Foci : Write(r, t, f)
  \/ \E r \in Reviewers, c \in DOMAIN cands, verb \in {"approve", "reject"} : BeginReview(r, c, verb)
  \/ \E r \in Editors, t \in Trigs : \/ \E d \in Defs : Register(r, t, d)
                                   \/ \E p \in Persons, s \in Statuses : CheckStatus(r, t, p, s)
  \/ \E t \in Trigs : Delete(t) \/ \E act \in Acts : Push(t, act)
  \/ \E g \in Contested : Grant(g[1], g[2])
  \/ ProposeElsewhere
  \/ Crash

Next ==
  \/ Steps /\ UNCHANGED events
  \/ events < MaxEvents /\ Events /\ events' = events + 1

Spec == Init /\ [][Next]_vars

-----------------------------------------------------------------------------
(* Properties.                                                             *)

(* A focus fires again only after its firing was cleared, unless the two   *)
(* evaluations overlapped: of two uncleared firings of one trigger for one *)
(* focus, the later asked the ledger before the earlier was recorded.      *)
DoubleFiringNeedsOverlap ==
  \A i, j \in DOMAIN log :
    (/\ log[i].trig = log[j].trig /\ log[i].focus = log[j].focus
     /\ i <= log[j].asked) => log[i].cleared

(* A trigger acts on the access of the person who armed it, and what that  *)
(* person could no longer do it stops doing within TTL: whoever is past    *)
(* the decision to fire was last able to do just that less than TTL before *)
(* it, whatever was registered, re-armed or revoked meanwhile.             *)
RevokedDefinerStops ==
  \A r \in Requests :
    req[r].pc \in {"act", "stage", "call", "record"} =>
      /\ req[r].lostFor < TTL
      /\ RequireDefiner => req[r].load[req[r].trig].armedBy # Nobody

(* What a reviewer approved is in the graph it was proposed for.            *)
ApprovedIsMerged ==
  \A c \in DOMAIN cands : cands[c].status = "Approved" => cands[c].merged \/ cands[c].blank

=============================================================================
