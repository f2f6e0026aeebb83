--------------------------- MODULE TriggersProofs ---------------------------
(***************************************************************************)
(* Proofs about what fires by itself.  First named triggers, for any       *)
(* triggers, foci, people, requests and bounds: no double firing without   *)
(* an overlap, a revoked definer stops within TTL, what is approved is     *)
(* merged.  Then the task scheduler, for any tasks, personas, limits and   *)
(* coroutines: one firing of a task at a time, and the daily limits.       *)
(***************************************************************************)
EXTENDS Triggers, Scheduler, SequenceTheorems, WellFoundedInduction, TLAPS

Decided  == {"act", "stage", "call", "record"}
AtFocus  == {"definer"} \cup Decided
AtTrigger == {"live", "clear", "foci"} \cup AtFocus

\* What holds of what a request is doing, whatever the others do.
Knows(q) ==
  /\ q.pc \in AtTrigger \cup {"register", "status"} => q.trig \in Trigs
  /\ q.pc \in AtFocus => q.focus \in Foci

\* Whoever holds a candidate past its merge holds one that is in the graph.
Reviews(q, cs) ==
  /\ q.cand # 0 => q.cand \in DOMAIN cs
  /\ q.pc \in {"merge", "approve", "reject"} => q.cand # 0
  /\ q.cand # 0 /\ q.pc \notin {"merge", "reject"} =>
       cs[q.cand].merged \/ cs[q.cand].blank

\* A verdict lives as long as the evaluation of one trigger, and "yes" was
\* given on access the definer had lost less than TTL before.
JudgedWell(q) ==
  q.verdict = "yes" =>
    /\ q.lostFor < TTL
    /\ RequireDefiner => q.load[q.trig].armedBy # Nobody
Judges(q) ==
  /\ q.pc \in Decided => q.verdict = "yes"
  /\ q.verdict # "unknown" => q.pc \in {"foci"} \cup Decided
  /\ JudgedWell(q)

\* Whoever is about to fire had seen every firing then in the ledger, and
\* those of its trigger and focus are cleared for good.
SawLedger(q, fired) ==
  q.pc \in AtFocus =>
    /\ q.asked <= Len(fired)
    /\ \A i \in 1..q.asked :
         fired[i].trig = q.trig /\ fired[i].focus = q.focus => fired[i].cleared

Sound(q, fired, cs) == Knows(q) /\ Reviews(q, cs) /\ Judges(q) /\ SawLedger(q, fired)

\* Only those who may not do a thing have lost the right to, and a cached
\* "yes" is at least as old as the loss.
CacheLagsGrants ==
  /\ \A g \in may : lost[g] = 0
  /\ \A k \in Keys : verdicts[k].ok = "yes" => lost[<<k[1], k[3]>>] <= verdicts[k].age

\* A firing is recorded after its evaluation asked.
AskedBefore == \A j \in DOMAIN log : log[j].asked < j

IInv ==
  /\ TypeOK
  /\ \A r \in Requests : Sound(req[r], log, cands)
  /\ CacheLagsGrants
  /\ AskedBefore
  /\ DoubleFiringNeedsOverlap
  /\ ApprovedIsMerged

-----------------------------------------------------------------------------
\* What may become of the ledger and of the candidates in a step.
LogGrows ==
  /\ Len(log) <= Len(log')
  /\ \A i \in DOMAIN log :
       /\ log'[i].trig = log[i].trig /\ log'[i].focus = log[i].focus
       /\ log'[i].asked = log[i].asked
       /\ log[i].cleared => log'[i].cleared
CandsGrow ==
  /\ Len(cands) <= Len(cands')
  /\ \A c \in DOMAIN cands :
       /\ cands[c].merged => cands'[c].merged
       /\ cands'[c].blank = cands[c].blank

LEMMA LogShape ==
  ASSUME NEW l \in Seq(Firings)
  PROVE  Len(l) \in Nat /\ DOMAIN l = 1..Len(l) /\ \A i \in DOMAIN l : l[i] \in Firings
BY LenProperties, ElementOfSeq

LEMMA CandsShape ==
  ASSUME NEW cs \in Seq(Cands)
  PROVE  Len(cs) \in Nat /\ DOMAIN cs = 1..Len(cs) /\ \A i \in DOMAIN cs : cs[i] \in Cands
BY LenProperties, ElementOfSeq

\* What holds of a request goes on holding as ledger and candidates grow.
LEMMA SoundStays ==
  ASSUME TypeOK, TypeOK', NEW q \in Reqs, Sound(q, log, cands), LogGrows, CandsGrow
  PROVE  Sound(q, log', cands')
<1>1. /\ Len(log) \in Nat /\ DOMAIN log = 1..Len(log)
      /\ Len(log') \in Nat /\ DOMAIN log' = 1..Len(log')
      /\ Len(cands) \in Nat /\ DOMAIN cands = 1..Len(cands)
      /\ Len(cands') \in Nat /\ DOMAIN cands' = 1..Len(cands')
  BY LogShape, CandsShape DEF TypeOK
<1>2. q.asked \in Nat /\ q.cand \in Nat
  BY DEF Reqs
<1>3. Reviews(q, cands')
  BY <1>1, <1>2 DEF Sound, Reviews, CandsGrow
<1>4. SawLedger(q, log')
  BY <1>1, <1>2 DEF Sound, SawLedger, LogGrows
<1> QED BY <1>3, <1>4 DEF Sound

\* A step of one request: it is sound where it goes, and what it leaves behind
\* in the ledger and the candidates only grew.
LEMMA OneRequestMoves ==
  ASSUME IInv, TypeOK', LogGrows, CandsGrow,
         NEW r \in Requests, NEW q \in Reqs, req' = [req EXCEPT ![r] = q],
         Sound(q, log', cands'),
         CacheLagsGrants', AskedBefore', DoubleFiringNeedsOverlap', ApprovedIsMerged'
  PROVE  IInv'
<1>1. \A s \in Requests : Sound(req'[s], log', cands')
  <2> TAKE s \in Requests
  <2>1. CASE s = r
    BY <2>1 DEF IInv, TypeOK
  <2>2. CASE s # r
    <3>1. req'[s] = req[s] /\ req[s] \in Reqs
      BY <2>2 DEF IInv, TypeOK
    <3> QED BY <3>1, SoundStays DEF IInv
  <2> QED BY <2>1, <2>2
<1> QED BY <1>1 DEF IInv

\* Most steps leave the ledger, the candidates, the grants and the cache alone.
LEMMA OnlyRequestMoves ==
  ASSUME IInv, NEW r \in Requests, NEW q \in Reqs, req' = [req EXCEPT ![r] = q],
         Sound(q, log, cands), UNCHANGED <<log, cands, may, lost, verdicts>>,
         cond' \in [Trigs -> SUBSET Foci], reg' \in [Trigs -> Defs],
         calls' \in [Trigs \X Foci -> Nat], events' \in 0..MaxEvents
  PROVE  IInv'
<1>1. TypeOK'
  BY DEF IInv, TypeOK
<1>2. LogGrows /\ CandsGrow
  BY LogShape, CandsShape DEF IInv, TypeOK, LogGrows, CandsGrow
<1>3. CacheLagsGrants' /\ AskedBefore' /\ DoubleFiringNeedsOverlap' /\ ApprovedIsMerged'
  BY DEF IInv, CacheLagsGrants, AskedBefore, DoubleFiringNeedsOverlap, ApprovedIsMerged
<1> QED BY <1>1, <1>2, <1>3, OneRequestMoves

\* Where an evaluation goes on: at its next focus, its next trigger, or the end.
LEMMA IdleTyped ==
  /\ Idle \in Reqs /\ Idle.verdict = "unknown" /\ Idle.cand = 0 /\ Idle.pc = "idle"
  /\ Absent \in Defs
<1>1. Absent \in Defs
  BY DEF Absent, Defs, Acts, Statuses
<1>2. NoDefs \in [Trigs -> Defs]
  BY <1>1 DEF NoDefs
<1> QED BY <1>1, <1>2, TriggersAssumption DEF Idle, Reqs

LEMMA DoneSound ==
  ASSUME NEW q \in Reqs, NEW fired, NEW cs, Reviews(q, cs), q.pc \notin {"merge", "reject"}
  PROVE  Done(q) \in Reqs /\ Sound(Done(q), fired, cs)
<1>1. PICK end \in {"idle", "approve"} :
        /\ Done(q) = [Idle EXCEPT !.pc = end, !.cand = q.cand]
        /\ end = "approve" => q.cand # 0
  BY DEF Done
<1>2. /\ Done(q) \in Reqs /\ Done(q).pc = end
      /\ Done(q).cand = q.cand /\ Done(q).verdict = "unknown"
  BY <1>1, IdleTyped DEF Reqs
<1> QED BY <1>1, <1>2
        DEF Sound, Knows, Reviews, Judges, JudgedWell, SawLedger, AtFocus, AtTrigger, Decided

LEMMA NextTriggerSound ==
  ASSUME NEW q \in Reqs, NEW fired, NEW cs, Reviews(q, cs), q.pc \notin {"merge", "reject"},
         NEW todo \in SUBSET Trigs
  PROVE  NextTrigger(q, todo) \in Reqs /\ Sound(NextTrigger(q, todo), fired, cs)
<1>1. CASE todo = {}
  BY <1>1, DoneSound DEF NextTrigger
<1>2. CASE todo # {}
  <2>1. NextTrigger(q, todo) \in Reqs
    BY <1>2, IdleTyped DEF NextTrigger, Reqs
  <2>2. /\ NextTrigger(q, todo).pc = "loop" /\ NextTrigger(q, todo).cand = q.cand
        /\ NextTrigger(q, todo).verdict = "unknown"
    BY <1>2, IdleTyped DEF NextTrigger, Reqs
  <2> QED BY <2>1, <2>2
          DEF Sound, Knows, Reviews, Judges, JudgedWell, SawLedger, AtFocus, AtTrigger, Decided
<1> QED BY <1>1, <1>2

LEMMA NextFociSound ==
  ASSUME NEW q \in Reqs, NEW fired, NEW cs, Reviews(q, cs), JudgedWell(q),
         q.pc \notin {"merge", "reject"}, q.trig \in Trigs, NEW foci \in SUBSET Foci
  PROVE  NextFoci(q, foci) \in Reqs /\ Sound(NextFoci(q, foci), fired, cs)
<1>1. CASE foci = {}
  BY <1>1, NextTriggerSound DEF NextFoci, Reqs
<1>2. CASE foci # {}
  BY <1>2
     DEF NextFoci, Reqs, Sound, Knows, Reviews, Judges, JudgedWell, SawLedger, AtFocus, AtTrigger,
         Decided
<1> QED BY <1>1, <1>2

LEMMA InitEstablishes == Init => IInv
<1> SUFFICES ASSUME Init PROVE IInv
  OBVIOUS
<1>1. Idle \in Reqs /\ Sound(Idle, log, cands)
  BY IdleTyped
     DEF Sound, Knows, Reviews, Judges, JudgedWell, SawLedger, AtFocus, AtTrigger, Decided
<1>2. Unknown \in Verdicts
  BY TriggersAssumption DEF Unknown, Verdicts
<1>3. log \in Seq(Firings) /\ cands \in Seq(Cands) /\ Len(log) = 0 /\ Len(cands) = 0
  BY EmptySeq DEF Init
<1>4. TypeOK
  BY <1>1, <1>2, <1>3, TriggersAssumption DEF Init, TypeOK
<1>5. CacheLagsGrants
  BY DEF Init, CacheLagsGrants, Unknown
<1>6. AskedBefore /\ DoubleFiringNeedsOverlap /\ ApprovedIsMerged
  BY <1>3 DEF Init, AskedBefore, DoubleFiringNeedsOverlap, ApprovedIsMerged
<1> QED BY <1>1, <1>4, <1>5, <1>6 DEF Init, IInv

-----------------------------------------------------------------------------
\* A step that only takes r on with the foci that are left of its trigger.
LEMMA GoesOn ==
  ASSUME IInv, NEW r \in Requests, req[r].pc \in AtTrigger, NEW foci \in SUBSET Foci
  PROVE  /\ req[r] \in Reqs
         /\ NextFoci(req[r], foci) \in Reqs
         /\ Sound(NextFoci(req[r], foci), log, cands)
<1>1. req[r] \in Reqs /\ Sound(req[r], log, cands)
  BY DEF IInv, TypeOK
<1> QED BY <1>1, NextFociSound DEF Sound, Knows, Judges, AtTrigger, AtFocus, Decided

\* The loop over the triggers and their foci, up to the decision to fire.
LEMMA LoopKeeps ==
  ASSUME IInv, NEW r \in Requests, events' \in 0..MaxEvents,
         \/ Load(r) \/ ReadLive(r) \/ AskFails(r)
         \/ \E t \in Trigs : LeaveAlone(r, t) \/ RunCondition(r, t)
         \/ \E f \in Foci : Ask(r, f)
  PROVE  IInv'
<1> DEFINE q == req[r]
<1>0. /\ q \in Reqs /\ Knows(q) /\ Reviews(q, cands) /\ Judges(q) /\ SawLedger(q, log)
      /\ cond \in [Trigs -> SUBSET Foci] /\ reg \in [Trigs -> Defs]
      /\ calls \in [Trigs \X Foci -> Nat] /\ log \in Seq(Firings)
  BY DEF IInv, TypeOK, Sound
<1> SUFFICES ASSUME UNCHANGED <<world, reg, log, cands, verdicts>>
             PROVE  \E p \in Reqs : req' = [req EXCEPT ![r] = p] /\ Sound(p, log, cands)
  BY <1>0, OnlyRequestMoves
     DEF Load, ReadLive, AskFails, LeaveAlone, RunCondition, Ask, world
<1>1. CASE Load(r)
  <2>1. PICK S \in SUBSET Trigs : Becomes(r, NextTrigger([q EXCEPT !.load = reg], S))
    BY <1>1 DEF Load, Narrowed, Loaded
  <2>2. /\ [q EXCEPT !.load = reg] \in Reqs
        /\ Reviews([q EXCEPT !.load = reg], cands)
        /\ [q EXCEPT !.load = reg].pc = "load"
    BY <1>0, <1>1 DEF Reqs, Reviews, Load, At
  <2> QED BY <2>1, <2>2, NextTriggerSound DEF Becomes
<1>2. CASE ReadLive(r)
  <2>1. q.pc = "live" /\ q.matches \in SUBSET Foci
    BY <1>0, <1>2 DEF ReadLive, At, Reqs
  <2>2. CASE Becomes(r, NextFoci(q, q.matches))
    BY <2>1, <2>2, GoesOn DEF Becomes, AtTrigger
  <2>3. ASSUME NEW old \in SUBSET Nat, Becomes(r, [q EXCEPT !.pc = "clear", !.stale = old])
        PROVE  \E p \in Reqs : req' = [req EXCEPT ![r] = p] /\ Sound(p, log, cands)
    <3>1. [q EXCEPT !.pc = "clear", !.stale = old] \in Reqs
      BY <1>0, <2>3 DEF Reqs
    <3>2. Sound([q EXCEPT !.pc = "clear", !.stale = old], log, cands)
      BY <1>0, <2>1 DEF Reqs, Sound, Knows, Reviews, Judges, JudgedWell, SawLedger, AtTrigger,
                        AtFocus, Decided
    <3> QED BY <2>3, <3>1, <3>2 DEF Becomes
  <2>4. {i \in LiveFor(q.trig) : log[i].focus \notin q.matches} \in SUBSET Nat
    BY <1>0, LogShape DEF LiveFor
  <2> QED BY <1>2, <2>2, <2>3, <2>4 DEF ReadLive
<1>3. CASE AskFails(r)
  BY <1>0, <1>3, DoneSound DEF AskFails, At, Becomes
<1>4. ASSUME NEW t \in Trigs, LeaveAlone(r, t)
      PROVE  \E p \in Reqs : req' = [req EXCEPT ![r] = p] /\ Sound(p, log, cands)
  <2>1. q.pc = "loop" /\ q.todo \ {t} \in SUBSET Trigs
    BY <1>0, <1>4 DEF LeaveAlone, At, Reqs
  <2>2. /\ NextTrigger(q, q.todo \ {t}) \in Reqs
        /\ Sound(NextTrigger(q, q.todo \ {t}), log, cands)
    BY <1>0, <2>1, NextTriggerSound
  <2> QED BY <1>4, <2>2 DEF LeaveAlone, Becomes
<1>5. ASSUME NEW t \in Trigs, RunCondition(r, t)
      PROVE  \E p \in Reqs : req' = [req EXCEPT ![r] = p] /\ Sound(p, log, cands)
  <2> DEFINE p == [q EXCEPT !.pc = "live", !.todo = @ \ {t}, !.trig = t, !.matches = cond[t]]
  <2>1. q.pc = "loop" /\ req' = [req EXCEPT ![r] = p]
    BY <1>5 DEF RunCondition, At, Becomes
  <2>2. p \in Reqs
    BY <1>0 DEF Reqs
  <2>3. Sound(p, log, cands)
    BY <1>0, <2>1 DEF Reqs, Sound, Knows, Reviews, Judges, JudgedWell, SawLedger, AtTrigger,
                      AtFocus, Decided
  <2> QED BY <2>1, <2>2, <2>3
<1>6. ASSUME NEW f \in Foci, Ask(r, f)
      PROVE  \E p \in Reqs : req' = [req EXCEPT ![r] = p] /\ Sound(p, log, cands)
  <2>1. q.pc = "foci" /\ q.foci \in SUBSET Foci /\ q.trig \in Trigs
    BY <1>0, <1>6 DEF Ask, At, Reqs, Knows, AtTrigger
  <2>2. CASE AlreadyFired(q.trig, f) \/ q.verdict = "no"
    <3>1. q.foci \ {f} \in SUBSET Foci /\ q.pc \in AtTrigger
      BY <2>1 DEF AtTrigger
    <3>2. req' = [req EXCEPT ![r] = NextFoci(q, q.foci \ {f})]
      BY <1>6, <2>2 DEF Ask, Becomes
    <3> QED BY <3>1, <3>2, GoesOn
  <2>3. CASE ~AlreadyFired(q.trig, f) /\ q.verdict # "no"
    <3> DEFINE pc == IF q.verdict = "unknown" THEN "definer" ELSE "act"
               p == [q EXCEPT !.focus = f, !.asked = Len(log), !.pc = pc]
    <3>1. req' = [req EXCEPT ![r] = p]
      BY <1>6, <2>3 DEF Ask, IInv, TypeOK
    <3>2. pc \in {"definer", "act"} /\ (pc = "act" => q.verdict = "yes")
          /\ (pc = "definer" => q.verdict = "unknown")
      BY <1>0, <2>3 DEF Reqs
    <3> HIDE DEF pc
    <3>3. p \in Reqs /\ p.pc = pc /\ p.focus = f /\ p.asked = Len(log) /\ p.trig = q.trig
          /\ p.verdict = q.verdict /\ p.lostFor = q.lostFor /\ p.load = q.load /\ p.cand = q.cand
      BY <1>0, <3>2, LogShape DEF Reqs
    <3> HIDE DEF p
    <3>4. SawLedger(p, log)
      BY <1>0, <2>3, <3>3, LogShape DEF SawLedger, AlreadyFired, LiveFor
    <3>5. Knows(p) /\ Reviews(p, cands) /\ Judges(p)
      BY <1>0, <2>1, <3>2, <3>3 DEF Knows, Reviews, Judges, JudgedWell, AtTrigger, AtFocus, Decided
    <3> QED BY <3>1, <3>3, <3>4, <3>5 DEF Sound
  <2> QED BY <2>2, <2>3
<1> QED BY <1>1, <1>2, <1>3, <1>4, <1>5, <1>6

\* The decision: "yes" is given on a right the definer has, or had when the
\* cached verdict was given.
LEMMA DefinerKeeps ==
  ASSUME IInv, NEW r \in Requests, events' \in 0..MaxEvents, Definer(r)
  PROVE  IInv'
<1> DEFINE q == req[r]
           d == q.load[q.trig]
           g == <<d.armedBy, d.act>>
           key == <<d.armedBy, q.trig, d.act>>
           lostFor == IF d.armedBy = Nobody THEN 0 ELSE lost[g]
<1>0. /\ q \in Reqs /\ Knows(q) /\ Reviews(q, cands) /\ Judges(q) /\ SawLedger(q, log)
      /\ lost \in [Persons \X Acts -> 0..TTL] /\ verdicts \in [Keys -> Verdicts]
      /\ may \subseteq Persons \X Acts /\ q.pc = "definer"
  BY DEF IInv, TypeOK, Sound, Definer, At
<1>1. /\ q.trig \in Trigs /\ q.focus \in Foci /\ d \in Defs /\ q.foci \in SUBSET Foci
      /\ lostFor \in 0..TTL
  BY <1>0, TriggersAssumption DEF Knows, AtFocus, AtTrigger, Reqs, Defs
<1>2. d.armedBy # Nobody => key \in Keys /\ g \in Persons \X Acts
  BY <1>1 DEF Defs, Keys
<1>3. ASSUME NEW ok \in {"yes", "no"}, Decide(r, ok),
             ok = "yes" => lostFor < TTL /\ (RequireDefiner => d.armedBy # Nobody)
      PROVE  \E p \in Reqs : req' = [req EXCEPT ![r] = p] /\ Sound(p, log, cands)
  <2>1. CASE ok = "yes"
    <3> DEFINE p == [q EXCEPT !.pc = "act", !.verdict = "yes", !.lostFor = lostFor]
    <3>1. req' = [req EXCEPT ![r] = p]
      BY <1>3, <2>1 DEF Decide, Becomes
    <3>2. /\ p \in Reqs /\ p.pc = "act" /\ p.verdict = "yes" /\ p.lostFor = lostFor
          /\ p.trig = q.trig /\ p.focus = q.focus /\ p.asked = q.asked /\ p.load = q.load
          /\ p.cand = q.cand
      BY <1>0, <1>1 DEF Reqs
    <3> HIDE DEF p
    <3>3. SawLedger(p, log)
      BY <1>0, <3>2 DEF SawLedger, AtFocus
    <3>4. Knows(p) /\ Reviews(p, cands) /\ Judges(p)
      BY <1>0, <1>1, <1>3, <2>1, <3>2
         DEF Knows, Reviews, Judges, JudgedWell, AtTrigger, AtFocus, Decided
    <3> QED BY <3>1, <3>2, <3>3, <3>4 DEF Sound
  <2>2. CASE ok = "no"
    <3> DEFINE p == [q EXCEPT !.verdict = "no"]
    <3>1. req' = [req EXCEPT ![r] = NextFoci(p, q.foci \ {q.focus})]
      BY <1>3, <2>2 DEF Decide, Becomes
    <3>2. /\ p \in Reqs /\ Reviews(p, cands) /\ JudgedWell(p) /\ p.pc \notin {"merge", "reject"}
          /\ p.trig \in Trigs
      BY <1>0, <1>1 DEF Reqs, Reviews, JudgedWell
    <3> QED BY <1>1, <3>1, <3>2, NextFociSound
  <2> QED BY <2>1, <2>2
<1>4. CASE d.armedBy = Nobody /\ Decide(r, IF RequireDefiner THEN "no" ELSE "yes")
           /\ UNCHANGED verdicts
  <2>1. lostFor < TTL
    BY <1>4, TriggersAssumption
  <2> QED BY <1>3, <1>4, <2>1, OnlyRequestMoves DEF Definer, world, IInv, TypeOK
<1>5. ASSUME d.armedBy # Nobody, NEW ok \in {"yes", "no"}, Decide(r, ok),
             ok = "yes" => lostFor < TTL, UNCHANGED verdicts
      PROVE  IInv'
  BY <1>3, <1>5, OnlyRequestMoves DEF Definer, world, IInv, TypeOK
<1>6. CASE d.armedBy # Nobody /\ verdicts[key].ok # "unknown" /\ Decide(r, verdicts[key].ok)
           /\ UNCHANGED verdicts
  <2>1. verdicts[key].ok \in {"yes", "no"} /\ verdicts[key].age \in 0..(TTL - 1)
    BY <1>0, <1>2, <1>6 DEF Verdicts
  <2>2. verdicts[key].ok = "yes" => lost[g] <= verdicts[key].age
    BY <1>2, <1>6 DEF IInv, CacheLagsGrants
  <2>3. verdicts[key].ok = "yes" => lostFor < TTL
    BY <1>0, <1>1, <1>6, <2>1, <2>2, TriggersAssumption
  <2> QED BY <1>5, <1>6, <2>1, <2>3
<1>7. CASE d.armedBy # Nobody /\ UNCHANGED verdicts /\ Decide(r, "no")
  BY <1>5, <1>7
<1>8. ASSUME d.armedBy # Nobody, NEW ok \in {"yes", "no"}, Decide(r, ok),
             ok = "yes" => Allowed(d.armedBy, d.act),
             verdicts' = [verdicts EXCEPT ![key] = [age |-> 0, ok |-> ok]]
      PROVE  IInv'
  <2>1. ok = "yes" => lost[g] = 0
    BY <1>2, <1>8 DEF Allowed, RuleMayFire, AgentMayFire, IInv, CacheLagsGrants
  <2>2. PICK p \in Reqs : req' = [req EXCEPT ![r] = p] /\ Sound(p, log, cands)
    BY <1>3, <1>8, <2>1, TriggersAssumption
  <2>3. UNCHANGED <<world, reg, log, cands>>
    BY DEF Definer
  <2>4. verdicts' \in [Keys -> Verdicts]
    <3>1. [age |-> 0, ok |-> ok] \in Verdicts
      BY TriggersAssumption DEF Verdicts
    <3> HIDE DEF key
    <3> QED BY <1>0, <1>8, <3>1
  <2>5. TypeOK'
    BY <2>2, <2>3, <2>4 DEF IInv, TypeOK, world
  <2>6. CacheLagsGrants'
    <3>1. ASSUME NEW k \in Keys, verdicts'[k].ok = "yes"
          PROVE  lost[<<k[1], k[3]>>] <= verdicts'[k].age
      <4>1. CASE k = key
        <5>1. verdicts'[k] = [age |-> 0, ok |-> ok]
          BY <1>0, <1>8, <4>1
        <5>2. <<k[1], k[3]>> = g
          BY <4>1
        <5> QED BY <2>1, <3>1, <5>1, <5>2
      <4>2. CASE k # key
        BY <1>0, <1>8, <3>1, <4>2 DEF IInv, CacheLagsGrants
      <4> QED BY <4>1, <4>2
    <3> QED BY <2>3, <3>1 DEF IInv, CacheLagsGrants, world
  <2>7. LogGrows /\ CandsGrow /\ AskedBefore' /\ DoubleFiringNeedsOverlap' /\ ApprovedIsMerged'
    BY <2>3, LogShape, CandsShape
       DEF IInv, TypeOK, LogGrows, CandsGrow, AskedBefore, DoubleFiringNeedsOverlap,
           ApprovedIsMerged
  <2> QED BY <2>2, <2>3, <2>5, <2>6, <2>7, OneRequestMoves
<1> QED BY <1>4, <1>6, <1>7, <1>8 DEF Definer

-----------------------------------------------------------------------------
\* What r may go on with from a focus: at a later step of the same firing ...
LEMMA StaysAtFocus ==
  ASSUME IInv, NEW r \in Requests, req[r].pc \in Decided, NEW pc \in Decided, Goto(r, pc)
  PROVE  \E p \in Reqs : req' = [req EXCEPT ![r] = p] /\ Sound(p, log, cands)
<1> DEFINE q == req[r]
           p == [q EXCEPT !.pc = pc]
<1>0. q \in Reqs /\ Sound(q, log, cands)
  BY DEF IInv, TypeOK
<1>1. req' = [req EXCEPT ![r] = p]
  BY DEF Goto
<1>2. /\ p \in Reqs /\ p.pc = pc /\ p.trig = q.trig /\ p.focus = q.focus /\ p.asked = q.asked
      /\ p.verdict = q.verdict /\ p.lostFor = q.lostFor /\ p.load = q.load /\ p.cand = q.cand
  BY <1>0 DEF Reqs, Decided
<1> HIDE DEF p
<1>3. Sound(p, log, cands)
  BY <1>0, <1>2
     DEF Sound, Knows, Reviews, Judges, JudgedWell, SawLedger, AtTrigger, AtFocus, Decided
<1> QED BY <1>1, <1>2, <1>3

\* ... or at the next focus.
LEMMA LeavesFocus ==
  ASSUME IInv, NEW r \in Requests, req[r].pc \in AtTrigger, NextFocus(r)
  PROVE  \E p \in Reqs : req' = [req EXCEPT ![r] = p] /\ Sound(p, log, cands)
<1>1. req[r].foci \ {req[r].focus} \in SUBSET Foci
  BY DEF IInv, TypeOK, Reqs
<1> QED BY <1>1, GoesOn DEF NextFocus, Becomes

LEMMA FiringKeeps ==
  ASSUME IInv, NEW r \in Requests, events' \in 0..MaxEvents,
         Propose(r) \/ CallAgent(r) \/ Execute(r) \/ FiringFails(r) \/ PlaceCall(r)
  PROVE  IInv'
<1>1. /\ req[r] \in Reqs /\ Knows(req[r]) /\ calls \in [Trigs \X Foci -> Nat]
      /\ cond \in [Trigs -> SUBSET Foci] /\ reg \in [Trigs -> Defs]
  BY DEF IInv, TypeOK, Sound
<1>2. req[r].pc \in Decided /\ req[r].pc \in AtTrigger
  BY DEF Propose, CallAgent, Execute, FiringFails, PlaceCall, At, Decided, AtTrigger, AtFocus
<1>3. NextFocus(r) \/ \E pc \in Decided : Goto(r, pc)
  BY DEF Propose, CallAgent, Execute, FiringFails, PlaceCall, Decided
<1>4. PICK p \in Reqs : req' = [req EXCEPT ![r] = p] /\ Sound(p, log, cands)
  BY <1>2, <1>3, StaysAtFocus, LeavesFocus
<1>5. UNCHANGED <<reg, log, cands, may, lost, verdicts>>
  BY DEF Propose, CallAgent, Execute, FiringFails, PlaceCall, world
<1>6. cond' \in [Trigs -> SUBSET Foci]
  <2>1. ASSUME NEW t \in Trigs, NEW f \in Foci PROVE Toggled(t, f) \in [Trigs -> SUBSET Foci]
    BY <1>1 DEF Toggled
  <2> QED BY <1>1, <2>1
          DEF Propose, CallAgent, Execute, FiringFails, PlaceCall, world, Changes
<1>7. calls' \in [Trigs \X Foci -> Nat]
  BY <1>1 DEF Propose, CallAgent, Execute, FiringFails, PlaceCall, world
<1> QED BY <1>1, <1>4, <1>5, <1>6, <1>7, OnlyRequestMoves

\* Clearing only clears.
LEMMA ClearKeeps ==
  ASSUME IInv, NEW r \in Requests, events' \in 0..MaxEvents, Clear(r)
  PROVE  IInv'
<1>0. /\ req[r] \in Reqs /\ req[r].pc = "clear" /\ req[r].matches \in SUBSET Foci
      /\ log \in Seq(Firings) /\ DOMAIN log = 1..Len(log) /\ Len(log) \in Nat
  BY LogShape DEF IInv, TypeOK, Clear, At, Reqs
<1>1. PICK p \in Reqs : req' = [req EXCEPT ![r] = p] /\ Sound(p, log, cands)
  BY <1>0, GoesOn DEF Clear, Becomes, AtTrigger
<1>2. UNCHANGED <<world, reg, cands, verdicts>>
  BY DEF Clear
<1>3. /\ log' \in Seq(Firings) /\ Len(log') = Len(log) /\ DOMAIN log' = 1..Len(log)
      /\ \A i \in 1..Len(log) :
           /\ log'[i].trig = log[i].trig /\ log'[i].focus = log[i].focus
           /\ log'[i].asked = log[i].asked /\ (log[i].cleared => log'[i].cleared)
  <2>1. CASE UNCHANGED log
    BY <1>0, <2>1
  <2>2. CASE log' = [i \in DOMAIN log |-> IF i \in req[r].stale
                                          THEN [log[i] EXCEPT !.cleared = TRUE] ELSE log[i]]
    <3>1. \A i \in 1..Len(log) :
            /\ log'[i] \in Firings /\ log'[i].trig = log[i].trig /\ log'[i].focus = log[i].focus
            /\ log'[i].asked = log[i].asked /\ (log[i].cleared => log'[i].cleared)
      <4> SUFFICES ASSUME NEW i \in 1..Len(log)
                   PROVE  /\ log'[i] \in Firings /\ log'[i].trig = log[i].trig
                          /\ log'[i].focus = log[i].focus /\ log'[i].asked = log[i].asked
                          /\ log[i].cleared => log'[i].cleared
        OBVIOUS
      <4> DEFINE f == log[i]
                 c == [f EXCEPT !.cleared = TRUE]
      <4>1. f \in Firings
        BY <1>0, ElementOfSeq
      <4>2. /\ c \in Firings /\ c.trig = f.trig /\ c.focus = f.focus /\ c.asked = f.asked
            /\ c.cleared = TRUE
        BY <4>1 DEF Firings
      <4>3. log'[i] = c \/ log'[i] = f
        BY <1>0, <2>2
      <4> HIDE DEF c, f
      <4>4. /\ log'[i] \in Firings /\ log'[i].trig = f.trig /\ log'[i].focus = f.focus
            /\ log'[i].asked = f.asked /\ (f.cleared => log'[i].cleared)
        BY <4>1, <4>2, <4>3
      <4> QED BY <4>4 DEF f
    <3>2. log' \in [1..Len(log) -> Firings]
      BY <1>0, <2>2, <3>1
    <3>3. log' \in Seq(Firings)
      BY <1>0, <3>2
    <3>4. Len(log') = Len(log)
      BY <1>0, <3>2, <3>3, LenProperties
    <3> QED BY <3>1, <3>2, <3>3, <3>4
  <2> QED BY <2>1, <2>2 DEF Clear
<1>4. TypeOK' /\ LogGrows /\ CandsGrow
  BY <1>0, <1>1, <1>2, <1>3, CandsShape DEF IInv, TypeOK, LogGrows, CandsGrow, world
<1>5. CacheLagsGrants' /\ ApprovedIsMerged'
  BY <1>2 DEF IInv, CacheLagsGrants, ApprovedIsMerged, world
<1>6. AskedBefore'
  BY <1>0, <1>3 DEF IInv, AskedBefore
<1>7. DoubleFiringNeedsOverlap'
  BY <1>0, <1>3 DEF IInv, DoubleFiringNeedsOverlap
<1>8. Sound(p, log', cands')
  BY <1>1, <1>4, SoundStays DEF IInv
<1> QED BY <1>1, <1>4, <1>5, <1>6, <1>7, <1>8, OneRequestMoves

\* What a step that only adds a candidate, or marks one, leaves to be shown.
LEMMA CandidatesMove ==
  ASSUME IInv, events' \in 0..MaxEvents, UNCHANGED <<reg, log, calls, may, lost, verdicts>>,
         cond' \in [Trigs -> SUBSET Foci], cands' \in Seq(Cands), CandsGrow, ApprovedIsMerged',
         NEW r \in Requests, NEW p \in Reqs, req' = [req EXCEPT ![r] = p], Sound(p, log, cands)
  PROVE  IInv'
<1>1. TypeOK' /\ LogGrows
  BY LogShape DEF IInv, TypeOK, LogGrows
<1>2. CacheLagsGrants' /\ AskedBefore' /\ DoubleFiringNeedsOverlap'
  BY DEF IInv, CacheLagsGrants, AskedBefore, DoubleFiringNeedsOverlap
<1>3. Sound(p, log', cands')
  BY <1>1, SoundStays DEF IInv
<1> QED BY <1>1, <1>2, <1>3, OneRequestMoves

\* A new candidate is pending, the others stay as they are.
LEMMA NewCandidate ==
  ASSUME TypeOK, ApprovedIsMerged, NEW c \in Cands, c.status = "Pending",
         cands' = Append(cands, c)
  PROVE  cands' \in Seq(Cands) /\ CandsGrow /\ ApprovedIsMerged'
<1>1. /\ cands' \in Seq(Cands) /\ Len(cands') = Len(cands) + 1 /\ Len(cands) \in Nat
      /\ DOMAIN cands = 1..Len(cands) /\ DOMAIN cands' = 1..(Len(cands) + 1)
      /\ \A i \in 1..Len(cands) : cands'[i] = cands[i]
      /\ cands'[Len(cands) + 1] = c
  BY AppendProperties, CandsShape DEF TypeOK
<1>2. CandsGrow
  BY <1>1 DEF CandsGrow
<1>3. ApprovedIsMerged'
  BY <1>1 DEF ApprovedIsMerged
<1> QED BY <1>1, <1>2, <1>3

LEMMA StageKeeps ==
  ASSUME IInv, NEW r \in Requests, events' \in 0..MaxEvents, Stage(r)
  PROVE  IInv'
<1>0. req[r] \in Reqs /\ req[r].pc = "stage" /\ Knows(req[r])
  BY DEF IInv, TypeOK, Sound, Stage, At
<1>1. PICK p \in Reqs : req' = [req EXCEPT ![r] = p] /\ Sound(p, log, cands)
  BY <1>0, StaysAtFocus, LeavesFocus DEF Stage, Decided, AtTrigger, AtFocus
<1>2. PICK blank \in BOOLEAN :
        cands' = Append(cands, [trig |-> req[r].trig, focus |-> req[r].focus, blank |-> blank,
                                status |-> "Pending", merged |-> FALSE])
  BY TriggersAssumption DEF Stage
<1>3. [trig |-> req[r].trig, focus |-> req[r].focus, blank |-> blank,
       status |-> "Pending", merged |-> FALSE] \in Cands
  BY <1>0 DEF Knows, AtTrigger, AtFocus, Decided, Cands
<1>4. cands' \in Seq(Cands) /\ CandsGrow /\ ApprovedIsMerged'
  BY <1>2, <1>3, NewCandidate DEF IInv
<1>5. cond' \in [Trigs -> SUBSET Foci] /\ UNCHANGED <<reg, log, calls, may, lost, verdicts>>
  BY DEF Stage, world, IInv, TypeOK
<1> QED BY <1>1, <1>4, <1>5, CandidatesMove

\* The firing that is recorded asked before whatever was recorded since, and
\* what it had asked of is cleared.
LEMMA RecordKeeps ==
  ASSUME IInv, NEW r \in Requests, events' \in 0..MaxEvents, Record(r)
  PROVE  IInv'
<1> DEFINE q == req[r]
           n == Len(log)
           e == [trig |-> q.trig, focus |-> q.focus, cleared |-> FALSE, asked |-> q.asked]
<1>0. /\ q \in Reqs /\ q.pc = "record" /\ Knows(q) /\ SawLedger(q, log) /\ q.asked \in Nat
      /\ log \in Seq(Firings) /\ DOMAIN log = 1..n /\ n \in Nat
      /\ \A i \in 1..n : log[i] \in Firings
  BY LogShape DEF IInv, TypeOK, Sound, Record, At, Reqs
<1>1. PICK p \in Reqs : req' = [req EXCEPT ![r] = p] /\ Sound(p, log, cands)
  BY <1>0, LeavesFocus DEF Record, AtTrigger, AtFocus, Decided
<1>2. UNCHANGED <<world, reg, cands, verdicts>>
  BY DEF Record
<1>3. CASE UNCHANGED log
  BY <1>1, <1>2, <1>3, OnlyRequestMoves DEF world, IInv, TypeOK
<1>4. CASE log' = Append(log, e)
  <2>1. e \in Firings
    BY <1>0 DEF Firings, Knows, AtTrigger, AtFocus, Decided
  <2>2. /\ log' \in Seq(Firings) /\ Len(log') = n + 1 /\ DOMAIN log' = 1..(n + 1)
        /\ \A i \in 1..n : log'[i] = log[i]
        /\ log'[n + 1] = e
    BY <1>0, <1>4, <2>1, AppendProperties, LogShape
  <2>3. TypeOK' /\ LogGrows /\ CandsGrow
    BY <1>0, <1>1, <1>2, <2>2, CandsShape DEF IInv, TypeOK, LogGrows, CandsGrow, world
  <2>4. CacheLagsGrants' /\ ApprovedIsMerged'
    BY <1>2 DEF IInv, CacheLagsGrants, ApprovedIsMerged, world
  <2>5. q.asked <= n
    BY <1>0 DEF SawLedger, AtFocus, Decided
  <2>6. AskedBefore'
    <3>1. ASSUME NEW j \in 1..(n + 1) PROVE log'[j].asked < j
      <4>1. CASE j \in 1..n
        BY <1>0, <2>2, <4>1 DEF IInv, AskedBefore
      <4>2. CASE j = n + 1
        BY <1>0, <2>2, <2>5, <4>2
      <4> QED BY <1>0, <4>1, <4>2
    <3> QED BY <2>2, <3>1 DEF AskedBefore
  <2>7. DoubleFiringNeedsOverlap'
    <3>1. ASSUME NEW i \in 1..(n + 1), NEW j \in 1..(n + 1),
                 log'[i].trig = log'[j].trig, log'[i].focus = log'[j].focus,
                 i <= log'[j].asked
          PROVE  log'[i].cleared
      <4>1. log'[j].asked < j
        BY <2>2, <2>6 DEF AskedBefore
      <4>2. log'[j].asked \in Nat
        BY <2>2, LogShape DEF Firings
      <4>3. i \in 1..n /\ log'[i] = log[i]
        BY <1>0, <2>2, <3>1, <4>1, <4>2
      <4>4. CASE j \in 1..n
        BY <1>0, <2>2, <3>1, <4>3, <4>4 DEF IInv, DoubleFiringNeedsOverlap
      <4>5. CASE j = n + 1
        <5>1. i \in 1..q.asked /\ log[i].trig = q.trig /\ log[i].focus = q.focus
          BY <1>0, <2>2, <3>1, <4>3, <4>5
        <5> QED BY <1>0, <4>3, <5>1 DEF SawLedger, AtFocus, Decided
      <4> QED BY <1>0, <4>4, <4>5
    <3> QED BY <2>2, <3>1 DEF DoubleFiringNeedsOverlap
  <2>8. Sound(p, log', cands')
    BY <1>1, <2>3, SoundStays DEF IInv
  <2> QED BY <1>1, <2>3, <2>4, <2>6, <2>7, <2>8, OneRequestMoves
<1> QED BY <1>3, <1>4 DEF Record

-----------------------------------------------------------------------------
LEMMA BeginEvaluationKeeps ==
  ASSUME IInv, NEW r \in Requests, events' \in 0..MaxEvents,
         Sweep(r) \/ \E t \in Trigs, f \in Foci : Write(r, t, f)
  PROVE  IInv'
<1> DEFINE q == req[r]
           p == [q EXCEPT !.pc = "load"]
<1>0. /\ q \in Reqs /\ Reviews(q, cands) /\ Judges(q) /\ q.pc = "idle"
      /\ cond \in [Trigs -> SUBSET Foci]
  BY DEF IInv, TypeOK, Sound, Sweep, Write, At
<1>1. req' = [req EXCEPT ![r] = p] /\ UNCHANGED <<reg, log, cands, calls, may, lost, verdicts>>
  BY DEF Sweep, Write, Goto, world
<1>2. p \in Reqs /\ p.pc = "load" /\ p.cand = q.cand /\ p.verdict = q.verdict
  BY <1>0 DEF Reqs
<1> HIDE DEF p
<1>3. Sound(p, log, cands)
  BY <1>0, <1>2
     DEF Sound, Knows, Reviews, Judges, JudgedWell, SawLedger, AtFocus, AtTrigger, Decided
<1>4. cond' \in [Trigs -> SUBSET Foci]
  BY <1>0 DEF Sweep, Write, Toggled, world
<1> QED BY <1>1, <1>2, <1>3, <1>4, OnlyRequestMoves DEF IInv, TypeOK

\* Reviews.
LEMMA IdleSound ==
  ASSUME NEW fired, NEW cs
  PROVE  Idle \in Reqs /\ Sound(Idle, fired, cs)
BY IdleTyped
   DEF Sound, Knows, Reviews, Judges, JudgedWell, SawLedger, AtFocus, AtTrigger, Decided

\* Marking a candidate, as a reviewer may.
LEMMA MarkedCandidate ==
  ASSUME TypeOK, NEW c \in DOMAIN cands, NEW e \in Cands,
         cands' = [cands EXCEPT ![c] = e],
         cands[c].merged => e.merged, e.blank = cands[c].blank,
         e.status = "Approved" => e.merged \/ e.blank, ApprovedIsMerged
  PROVE  cands' \in Seq(Cands) /\ CandsGrow /\ ApprovedIsMerged'
<1>1. /\ Len(cands) \in Nat /\ DOMAIN cands = 1..Len(cands) /\ cands \in Seq(Cands)
  BY CandsShape DEF TypeOK
<1>2. /\ cands' \in Seq(Cands) /\ Len(cands') = Len(cands)
      /\ \A i \in 1..Len(cands) : cands'[i] = IF i = c THEN e ELSE cands[i]
  BY <1>1, ExceptSeq
<1>3. DOMAIN cands' = 1..Len(cands)
  BY <1>2, CandsShape
<1>4. CandsGrow
  BY <1>1, <1>2 DEF CandsGrow
<1>5. ApprovedIsMerged'
  BY <1>1, <1>2, <1>3 DEF ApprovedIsMerged
<1> QED BY <1>2, <1>4, <1>5

LEMMA BeginReviewKeeps ==
  ASSUME IInv, events' \in 0..MaxEvents, NEW r \in Requests, NEW c \in DOMAIN cands,
         NEW verb \in {"approve", "reject"}, BeginReview(r, c, verb)
  PROVE  IInv'
<1> DEFINE q == req[r]
<1>0. /\ q \in Reqs /\ Judges(q) /\ q.pc = "idle" /\ c \in Nat /\ c # 0
  BY CandsShape DEF IInv, TypeOK, Sound, BeginReview, At
<1>1. PICK pc \in {"approve", "merge", "reject"} :
        /\ req' = [req EXCEPT ![r].cand = c, ![r].pc = pc]
        /\ pc = "approve" => cands[c].blank
  BY DEF BeginReview
<1> DEFINE p == [q EXCEPT !.cand = c, !.pc = pc]
<1>2. req' = [req EXCEPT ![r] = p]
  BY <1>1 DEF IInv, TypeOK
<1>3. /\ p \in Reqs /\ p.pc = pc /\ p.cand = c /\ p.verdict = q.verdict /\ p.lostFor = q.lostFor
      /\ p.load = q.load /\ p.trig = q.trig
  BY <1>0 DEF Reqs
<1> HIDE DEF p
<1>4. q.verdict = "unknown"
  BY <1>0 DEF Judges, Decided
<1>5. Sound(p, log, cands)
  BY <1>0, <1>1, <1>3, <1>4
     DEF Sound, Knows, Reviews, Judges, JudgedWell, SawLedger, AtFocus, AtTrigger, Decided
<1>6. UNCHANGED <<world, reg, log, cands, verdicts>>
  BY DEF BeginReview
<1> QED BY <1>2, <1>3, <1>5, <1>6, OnlyRequestMoves DEF IInv, TypeOK, world

\* A write that arrived is remembered as such, and evaluated only then.
LEMMA MergeKeeps ==
  ASSUME IInv, events' \in 0..MaxEvents, NEW r \in Requests, Merge(r)
  PROVE  IInv'
<1> DEFINE q == req[r]
<1>0. /\ q \in Reqs /\ Reviews(q, cands) /\ Judges(q) /\ q.pc = "merge" /\ cands \in Seq(Cands)
      /\ cond \in [Trigs -> SUBSET Foci]
  BY DEF IInv, TypeOK, Sound, Merge, At
<1>1. q.cand \in DOMAIN cands /\ q.cand # 0 /\ cands[q.cand] \in Cands
  BY <1>0, CandsShape DEF Reviews
<1>2. UNCHANGED <<calls, may, lost, reg, log, verdicts>>
  BY DEF Merge
<1>3. CASE Stop(r) /\ UNCHANGED <<cond, cands>>
  BY <1>2, <1>3, IdleSound, OnlyRequestMoves DEF Stop, IInv, TypeOK
<1>4. CASE cands' = [cands EXCEPT ![q.cand].merged = TRUE] /\ cond' \in Changes
           /\ (Goto(r, "load") \/ Stop(r))
  <2> DEFINE e == [cands[q.cand] EXCEPT !.merged = TRUE]
  <2>1. e \in Cands /\ e.merged /\ e.blank = cands[q.cand].blank
    BY <1>1 DEF Cands
  <2>2. cands' = [cands EXCEPT ![q.cand] = e]
    BY <1>4
  <2>3. cands' \in Seq(Cands) /\ CandsGrow /\ ApprovedIsMerged'
    BY <1>1, <2>1, <2>2, MarkedCandidate DEF IInv
  <2>4. cond' \in [Trigs -> SUBSET Foci]
    <3>1. ASSUME NEW t \in Trigs, NEW f \in Foci PROVE Toggled(t, f) \in [Trigs -> SUBSET Foci]
      BY <1>0 DEF Toggled
    <3> QED BY <1>0, <1>4, <3>1 DEF Changes
  <2>5. \E p \in Reqs : req' = [req EXCEPT ![r] = p] /\ Sound(p, log', cands')
    <3>1. CASE Stop(r)
      BY <3>1, IdleSound DEF Stop
    <3>2. CASE Goto(r, "load")
      <4> DEFINE p == [q EXCEPT !.pc = "load"]
      <4>1. p \in Reqs /\ p.pc = "load" /\ p.cand = q.cand /\ p.verdict = q.verdict
            /\ req' = [req EXCEPT ![r] = p]
        BY <1>0, <3>2 DEF Reqs, Goto
      <4> HIDE DEF p
      <4>2. /\ q.verdict = "unknown" /\ q.cand \in DOMAIN cands' /\ cands'[q.cand] = e
        BY <1>0, <1>1, <2>2, <2>3, CandsShape DEF Judges, Decided
      <4>3. Sound(p, log', cands')
        BY <2>1, <4>1, <4>2
           DEF Sound, Knows, Reviews, Judges, JudgedWell, SawLedger, AtFocus, AtTrigger, Decided
      <4> QED BY <4>1, <4>3
    <3> QED BY <1>4, <3>1, <3>2
  <2>6. TypeOK' /\ LogGrows
    BY <1>2, <2>3, <2>4, <2>5, LogShape DEF IInv, TypeOK, LogGrows
  <2>7. CacheLagsGrants' /\ AskedBefore' /\ DoubleFiringNeedsOverlap'
    BY <1>2 DEF IInv, CacheLagsGrants, AskedBefore, DoubleFiringNeedsOverlap
  <2> QED BY <2>3, <2>5, <2>6, <2>7, OneRequestMoves
<1> QED BY <1>3, <1>4 DEF Merge

\* Only what is merged, or blank, is approved.
LEMMA SettleKeeps ==
  ASSUME IInv, events' \in 0..MaxEvents, NEW r \in Requests, Approve(r) \/ Reject(r)
  PROVE  IInv'
<1> DEFINE q == req[r]
<1>0. q \in Reqs /\ Reviews(q, cands) /\ cands \in Seq(Cands) /\ q.pc \in {"approve", "reject"}
  BY DEF IInv, TypeOK, Sound, Approve, Reject, At
<1>1. /\ q.cand \in DOMAIN cands /\ q.cand # 0 /\ cands[q.cand] \in Cands
      /\ q.pc = "approve" => cands[q.cand].merged \/ cands[q.cand].blank
  BY <1>0, CandsShape DEF Reviews
<1>2. PICK status \in {"Approved", "Rejected"} :
        SetCandidateStatus(r, status) /\ (status = "Approved" => q.pc = "approve")
  BY DEF Approve, Reject, At
<1>3. Idle \in Reqs /\ Sound(Idle, log, cands) /\ req' = [req EXCEPT ![r] = Idle]
  BY <1>2, IdleSound DEF SetCandidateStatus, Stop
<1>4. UNCHANGED <<world, reg, log, verdicts>>
  BY <1>2 DEF SetCandidateStatus
<1>5. CASE UNCHANGED cands
  BY <1>3, <1>4, <1>5, OnlyRequestMoves DEF IInv, TypeOK, world
<1>6. CASE cands' = [cands EXCEPT ![q.cand].status = status]
  <2> DEFINE e == [cands[q.cand] EXCEPT !.status = status]
  <2>1. /\ e \in Cands /\ e.merged = cands[q.cand].merged /\ e.blank = cands[q.cand].blank
        /\ e.status = status
    BY <1>1 DEF Cands
  <2>2. cands' = [cands EXCEPT ![q.cand] = e]
    BY <1>6
  <2> HIDE DEF e
  <2>3. cands' \in Seq(Cands) /\ CandsGrow /\ ApprovedIsMerged'
    BY <1>1, <1>2, <2>1, <2>2, MarkedCandidate DEF IInv
  <2> QED BY <1>3, <1>4, <2>3, CandidatesMove DEF IInv, TypeOK, world
<1> QED BY <1>2, <1>5, <1>6 DEF SetCandidateStatus

-----------------------------------------------------------------------------
\* Registration, arming and deletion.
LEMMA EditKeeps ==
  ASSUME IInv, events' \in 0..MaxEvents, NEW r \in Requests,
         \/ Store(r) \/ SetStatus(r)
         \/ \E t \in Trigs, d \in Defs : Register(r, t, d)
         \/ \E t \in Trigs, p \in Persons, s \in Statuses : CheckStatus(r, t, p, s)
  PROVE  IInv'
<1> DEFINE q == req[r]
<1>0. /\ q \in Reqs /\ Knows(q) /\ Reviews(q, cands) /\ Judges(q) /\ reg \in [Trigs -> Defs]
  BY DEF IInv, TypeOK, Sound
<1>1. UNCHANGED <<world, log, cands, verdicts>>
  BY DEF Store, SetStatus, Register, CheckStatus
<1>2. ASSUME Stop(r), reg' \in [Trigs -> Defs] PROVE IInv'
  BY <1>1, <1>2, IdleSound, OnlyRequestMoves DEF IInv, TypeOK, world, Stop
<1>3. CASE Store(r)
  <2>1. q.trig \in Trigs /\ q.def \in Defs
    BY <1>0, <1>3 DEF Knows, Store, At, Reqs
  <2> QED BY <1>0, <1>2, <1>3, <2>1 DEF Store
<1>4. CASE SetStatus(r)
  <2>1. q.trig \in Trigs /\ q.def \in Defs /\ reg[q.trig] \in Defs
    BY <1>0, <1>4 DEF Knows, SetStatus, At, Reqs
  <2>2. \/ UNCHANGED reg
        \/ \E armedBy \in Persons \cup {Nobody} :
             reg' = [reg EXCEPT ![q.trig] = [reg[q.trig] EXCEPT !.status = q.def.status,
                                                                !.armedBy = armedBy]]
    <3>1. CASE UNCHANGED reg
      BY <3>1
    <3>2. CASE reg' = [reg EXCEPT ![q.trig].status = q.def.status,
                         ![q.trig].armedBy = IF q.def.status = "Active" THEN q.def.armedBy ELSE @]
      <4>1. CASE q.def.status = "Active"
        <5>1. reg' = [reg EXCEPT ![q.trig] = [reg[q.trig] EXCEPT !.status = q.def.status,
                                                                 !.armedBy = q.def.armedBy]]
          BY <1>0, <2>1, <3>2, <4>1
        <5> QED BY <2>1, <5>1 DEF Defs
      <4>2. CASE q.def.status # "Active"
        <5>1. reg' = [reg EXCEPT ![q.trig] = [reg[q.trig] EXCEPT !.status = q.def.status,
                                                                 !.armedBy = reg[q.trig].armedBy]]
          BY <1>0, <2>1, <3>2, <4>2
        <5> QED BY <2>1, <5>1 DEF Defs
      <4> QED BY <4>1, <4>2
    <3> QED BY <1>4, <3>1, <3>2 DEF SetStatus
  <2>3. reg' \in [Trigs -> Defs]
    BY <1>0, <2>1, <2>2 DEF Defs
  <2> QED BY <1>2, <1>4, <2>3 DEF SetStatus
<1>5. ASSUME q.pc = "idle", NEW t \in Trigs, NEW d \in Defs, NEW pc \in {"register", "status"},
             req' = [req EXCEPT ![r].pc = pc, ![r].trig = t, ![r].def = d], UNCHANGED reg
      PROVE  IInv'
  <2> DEFINE p == [q EXCEPT !.pc = pc, !.trig = t, !.def = d]
  <2>1. req' = [req EXCEPT ![r] = p]
    BY <1>5 DEF IInv, TypeOK
  <2>2. p \in Reqs /\ p.pc = pc /\ p.trig = t /\ p.cand = q.cand /\ p.verdict = q.verdict
    BY <1>0, <1>5 DEF Reqs
  <2> HIDE DEF p
  <2>3. Sound(p, log, cands)
    BY <1>0, <1>5, <2>2
       DEF Sound, Knows, Reviews, Judges, JudgedWell, SawLedger, AtFocus, AtTrigger, Decided
  <2> QED BY <1>1, <1>5, <2>1, <2>2, <2>3, OnlyRequestMoves DEF IInv, TypeOK, world
<1>6. ASSUME NEW t \in Trigs, NEW d \in Defs, Register(r, t, d) PROVE IInv'
  BY <1>5, <1>6 DEF Register, At
<1>7. ASSUME NEW t \in Trigs, NEW p \in Persons, NEW s \in Statuses, CheckStatus(r, t, p, s)
      PROVE  IInv'
  <2>1. [Absent EXCEPT !.armedBy = p, !.status = s] \in Defs
    BY IdleTyped DEF Defs
  <2> QED BY <1>5, <1>7, <2>1 DEF CheckStatus, At
<1> QED BY <1>3, <1>4, <1>6, <1>7

\* Steps of the surroundings: no request moves, or all are lost in a crash.
LEMMA NobodyMoves ==
  ASSUME IInv, TypeOK', UNCHANGED log, CandsGrow, CacheLagsGrants', ApprovedIsMerged',
         UNCHANGED req \/ req' = [r \in Requests |-> Idle]
  PROVE  IInv'
<1>1. LogGrows
  BY LogShape DEF IInv, TypeOK, LogGrows
<1>2. \A r \in Requests : Sound(req'[r], log', cands')
  BY <1>1, SoundStays, IdleSound DEF IInv, TypeOK
<1>3. AskedBefore' /\ DoubleFiringNeedsOverlap'
  BY DEF IInv, AskedBefore, DoubleFiringNeedsOverlap
<1> QED BY <1>2, <1>3 DEF IInv

\* A right that is given or taken is lost for no time yet.
LEMMA GrantKeeps ==
  ASSUME IInv, events' \in 0..MaxEvents, NEW g \in Persons \X Acts, Grant(g[1], g[2])
  PROVE  IInv'
<1>1. UNCHANGED <<cond, calls, reg, log, cands, verdicts, req>> /\ <<g[1], g[2]>> = g
  BY DEF Grant
<1>2. /\ may' \in {may \ {g}, may \cup {g}} /\ lost' = [lost EXCEPT ![g] = 0]
      /\ lost \in [Persons \X Acts -> 0..TTL] /\ may \subseteq Persons \X Acts
  BY <1>1 DEF Grant, IInv, TypeOK
<1>3. TypeOK'
  BY <1>1, <1>2, TriggersAssumption DEF IInv, TypeOK
<1>4. CandsGrow /\ ApprovedIsMerged'
  BY <1>1, CandsShape DEF IInv, TypeOK, CandsGrow, ApprovedIsMerged
<1>5. CacheLagsGrants'
  <2>1. \A h \in may' : lost'[h] = 0
    BY <1>2 DEF IInv, CacheLagsGrants
  <2>2. ASSUME NEW k \in Keys, verdicts[k].ok = "yes"
        PROVE  lost'[<<k[1], k[3]>>] <= verdicts[k].age
    <3>1. <<k[1], k[3]>> \in Persons \X Acts /\ verdicts[k].age \in 0..(TTL - 1)
      BY DEF Keys, IInv, TypeOK, Verdicts
    <3>2. lost[<<k[1], k[3]>>] <= verdicts[k].age
      BY <2>2 DEF IInv, CacheLagsGrants
    <3> QED BY <1>2, <3>1, <3>2
  <2> QED BY <1>1, <2>1, <2>2 DEF CacheLagsGrants
<1> QED BY <1>1, <1>3, <1>4, <1>5, NobodyMoves

\* A tick ages what is lost and what is cached alike, and a "yes" is dropped
\* before it is TTL old.
LEMMA TickKeeps ==
  ASSUME IInv, events' \in 0..MaxEvents, Tick
  PROVE  IInv'
<1>0. /\ lost \in [Persons \X Acts -> 0..TTL] /\ verdicts \in [Keys -> Verdicts]
      /\ TTL \in Nat \ {0} /\ Unknown \in Verdicts /\ Unknown.ok = "unknown"
  BY TriggersAssumption DEF IInv, TypeOK, Unknown, Verdicts
<1>1. UNCHANGED <<cond, calls, may, reg, log, cands, req>>
  BY DEF Tick
<1>2. \A g \in Persons \X Acts :
        lost'[g] = IF g \in may THEN 0 ELSE IF lost[g] < TTL THEN lost[g] + 1 ELSE TTL
  BY DEF Tick
<1>3. \A k \in Keys : verdicts'[k] = IF verdicts[k].ok = "unknown" \/ verdicts[k].age + 1 = TTL
                                     THEN Unknown ELSE [verdicts[k] EXCEPT !.age = @ + 1]
  BY DEF Tick
<1>4. lost' \in [Persons \X Acts -> 0..TTL]
  BY <1>0 DEF Tick
<1>5. ASSUME NEW k \in Keys
      PROVE  /\ verdicts'[k] \in Verdicts
             /\ verdicts'[k].ok = "yes" => verdicts[k].ok = "yes"
                                           /\ verdicts'[k].age = verdicts[k].age + 1
  <2>1. verdicts[k] \in Verdicts
    BY <1>0
  <2>2. CASE verdicts[k].ok = "unknown" \/ verdicts[k].age + 1 = TTL
    BY <1>0, <1>3, <2>2
  <2>3. CASE verdicts[k].ok # "unknown" /\ verdicts[k].age + 1 # TTL
    <3>1. verdicts'[k] = [verdicts[k] EXCEPT !.age = verdicts[k].age + 1]
      BY <1>3, <2>3
    <3>2. verdicts[k].age + 1 \in 0..(TTL - 1)
      <4>1. verdicts[k].age \in 0..(TTL - 1)
        BY <2>1 DEF Verdicts
      <4> QED BY <2>3, <4>1, TriggersAssumption
    <3>3. /\ verdicts'[k] \in Verdicts
          /\ verdicts'[k].ok = verdicts[k].ok /\ verdicts'[k].age = verdicts[k].age + 1
      BY <2>1, <3>1, <3>2 DEF Verdicts
    <3> QED BY <3>3
  <2> QED BY <2>2, <2>3
<1>6. verdicts' \in [Keys -> Verdicts]
  BY <1>5 DEF Tick
<1>7. TypeOK'
  BY <1>1, <1>4, <1>6 DEF IInv, TypeOK
<1>8. CandsGrow /\ ApprovedIsMerged'
  BY <1>1, CandsShape DEF IInv, TypeOK, CandsGrow, ApprovedIsMerged
<1>9. CacheLagsGrants'
  <2>1. \A g \in may : lost'[g] = 0
    BY <1>2 DEF IInv, TypeOK
  <2>2. ASSUME NEW k \in Keys, verdicts'[k].ok = "yes"
        PROVE  lost'[<<k[1], k[3]>>] <= verdicts'[k].age
    <3> DEFINE g == <<k[1], k[3]>>
    <3>1. g \in Persons \X Acts /\ verdicts[k] \in Verdicts
      BY <1>0 DEF Keys
    <3>2. verdicts'[k].age = verdicts[k].age + 1 /\ lost[g] <= verdicts[k].age
      BY <1>5, <2>2 DEF IInv, CacheLagsGrants
    <3>3. lost'[g] = IF g \in may THEN 0 ELSE IF lost[g] < TTL THEN lost[g] + 1 ELSE TTL
      BY <1>2, <3>1
    <3>4. lost[g] \in 0..TTL /\ verdicts[k].age \in 0..(TTL - 1)
      BY <1>0, <3>1 DEF Verdicts
    <3> QED BY <1>0, <3>2, <3>3, <3>4
  <2> QED BY <1>1, <2>1, <2>2 DEF CacheLagsGrants
<1> QED BY <1>1, <1>7, <1>8, <1>9, NobodyMoves

LEMMA SurroundingsKeep ==
  ASSUME IInv, events' \in 0..MaxEvents,
         \/ \E t \in Trigs : Delete(t) \/ \E act \in Acts : Push(t, act)
         \/ \E t \in Trigs, f \in Foci : CallCloses(t, f)
         \/ ProposeElsewhere \/ Crash
  PROVE  IInv'
<1>0. /\ reg \in [Trigs -> Defs] /\ calls \in [Trigs \X Foci -> Nat] /\ Absent \in Defs
  BY IdleTyped DEF IInv, TypeOK
<1>1. ASSUME UNCHANGED <<cond, log, may, lost, cands>>, reg' \in [Trigs -> Defs],
             calls' \in [Trigs \X Foci -> Nat],
             \/ UNCHANGED <<req, verdicts>>
             \/ req' = [r \in Requests |-> Idle] /\ verdicts' = [k \in Keys |-> Unknown]
      PROVE  IInv'
  <2>1. Unknown \in Verdicts /\ Unknown.ok = "unknown"
    BY TriggersAssumption DEF Unknown, Verdicts
  <2>2. TypeOK'
    BY <1>1, <2>1, IdleTyped DEF IInv, TypeOK
  <2>3. CandsGrow /\ ApprovedIsMerged'
    BY <1>1, CandsShape DEF IInv, TypeOK, CandsGrow, ApprovedIsMerged
  <2>4. CacheLagsGrants'
    BY <1>1, <2>1 DEF IInv, CacheLagsGrants
  <2> QED BY <1>1, <2>2, <2>3, <2>4, NobodyMoves
<1>2. ASSUME NEW t \in Trigs, Delete(t) PROVE IInv'
  BY <1>0, <1>1, <1>2 DEF Delete, world
<1>3. ASSUME NEW t \in Trigs, NEW act \in Acts, Push(t, act) PROVE IInv'
  <2>1. [defined |-> TRUE, status |-> "Active", armedBy |-> Nobody, act |-> act] \in Defs
    BY DEF Defs, Statuses
  <2> QED BY <1>0, <1>1, <1>3, <2>1 DEF Push, world
<1>4. ASSUME NEW t \in Trigs, NEW f \in Foci, CallCloses(t, f) PROVE IInv'
  <2>1. calls' \in [Trigs \X Foci -> Nat]
    BY <1>0, <1>4 DEF CallCloses
  <2> QED BY <1>0, <1>1, <1>4, <2>1 DEF CallCloses
<1>5. CASE ProposeElsewhere
  <2>1. PICK c \in Cands : c.status = "Pending" /\ cands' = Append(cands, c)
    <3>1. PICK blank \in BOOLEAN :
            cands' = Append(cands, [trig |-> NoTrigger, focus |-> NoFocus, blank |-> blank,
                                    status |-> "Pending", merged |-> FALSE])
      BY <1>5, TriggersAssumption DEF ProposeElsewhere
    <3>2. [trig |-> NoTrigger, focus |-> NoFocus, blank |-> blank,
           status |-> "Pending", merged |-> FALSE] \in Cands
      BY DEF Cands
    <3> QED BY <3>1, <3>2
  <2>2. cands' \in Seq(Cands) /\ CandsGrow /\ ApprovedIsMerged'
    BY <2>1, NewCandidate DEF IInv
  <2>3. TypeOK' /\ CacheLagsGrants'
    BY <1>5, <2>2 DEF ProposeElsewhere, IInv, TypeOK, CacheLagsGrants, world
  <2> QED BY <1>5, <2>2, <2>3, NobodyMoves DEF ProposeElsewhere
<1>6. CASE Crash
  BY <1>0, <1>1, <1>6 DEF Crash, world
<1> QED BY <1>2, <1>3, <1>4, <1>5, <1>6

-----------------------------------------------------------------------------
LEMMA NextKeeps == IInv /\ [Next]_vars => IInv'
<1> SUFFICES ASSUME IInv, [Next]_vars PROVE IInv'
  OBVIOUS
<1>1. CASE UNCHANGED vars
  <2>1. TypeOK' /\ CandsGrow
    BY <1>1, CandsShape DEF IInv, TypeOK, CandsGrow, vars
  <2>2. CacheLagsGrants' /\ ApprovedIsMerged'
    BY <1>1 DEF IInv, CacheLagsGrants, ApprovedIsMerged, vars
  <2> QED BY <1>1, <2>1, <2>2, NobodyMoves DEF vars
<1>2. ASSUME Next PROVE events' \in 0..MaxEvents
  BY <1>2, TriggersAssumption DEF Next, IInv, TypeOK
<1>3. CASE Next /\ Steps
  <2>1. ASSUME NEW r \in Requests, Evaluate(r) PROVE IInv'
    BY <1>2, <1>3, <2>1, LoopKeeps, ClearKeeps, DefinerKeeps, FiringKeeps, StageKeeps, RecordKeeps
       DEF Evaluate
  <2>2. ASSUME NEW r \in Requests, Store(r) \/ SetStatus(r) PROVE IInv'
    BY <1>2, <1>3, <2>2, EditKeeps
  <2>3. ASSUME NEW r \in Requests, Merge(r) \/ Approve(r) \/ Reject(r) PROVE IInv'
    BY <1>2, <1>3, <2>3, MergeKeeps, SettleKeeps
  <2>4. CASE Tick \/ \E t \in Trigs, f \in Foci : CallCloses(t, f)
    BY <1>2, <1>3, <2>4, TickKeeps, SurroundingsKeep
  <2> QED BY <1>3, <2>1, <2>2, <2>3, <2>4 DEF Steps
<1>4. CASE Next /\ Events
  <2>1. ASSUME NEW r \in Evaluators, Sweep(r) \/ \E t \in Trigs, f \in Foci : Write(r, t, f)
        PROVE  IInv'
    BY <1>2, <1>4, <2>1, BeginEvaluationKeeps, TriggersAssumption
  <2>2. ASSUME NEW r \in Reviewers, NEW c \in DOMAIN cands, NEW verb \in {"approve", "reject"},
               BeginReview(r, c, verb)
        PROVE  IInv'
    BY <1>2, <1>4, <2>2, BeginReviewKeeps, TriggersAssumption
  <2>3. ASSUME NEW r \in Editors, NEW t \in Trigs,
               \/ \E d \in Defs : Register(r, t, d)
               \/ \E p \in Persons, s \in Statuses : CheckStatus(r, t, p, s)
        PROVE  IInv'
    BY <1>2, <1>4, <2>3, EditKeeps, TriggersAssumption
  <2>4. ASSUME NEW g \in Contested, Grant(g[1], g[2]) PROVE IInv'
    BY <1>2, <1>4, <2>4, GrantKeeps, TriggersAssumption
  <2>5. CASE \/ \E t \in Trigs : Delete(t) \/ \E act \in Acts : Push(t, act)
             \/ ProposeElsewhere \/ Crash
    BY <1>2, <1>4, <2>5, SurroundingsKeep
  <2> QED BY <1>4, <2>1, <2>2, <2>3, <2>4, <2>5 DEF Events
<1> QED BY <1>1, <1>3, <1>4 DEF Next

\* The invariant holds in every reachable state, whatever requests interleave.
THEOREM InductiveInvariant == Spec => []IInv
BY InitEstablishes, NextKeeps, PTL DEF Spec

-----------------------------------------------------------------------------
\* Types, for any triggers, people, requests and bounds.
THEOREM TypeCorrect == Spec => []TypeOK
<1>1. IInv => TypeOK
  BY DEF IInv
<1> QED BY <1>1, InductiveInvariant, PTL

\* However evaluations interleave, a focus fires again only after its firing
\* was cleared, or because the two evaluations overlapped.
THEOREM NoDoubleFiringWithoutOverlap == Spec => []DoubleFiringNeedsOverlap
<1>1. IInv => DoubleFiringNeedsOverlap
  BY DEF IInv
<1> QED BY <1>1, InductiveInvariant, PTL

\* What a definer may no longer do, a trigger of theirs stops doing within
\* TTL: the verdict cache never outlives the right by more.
THEOREM DefinersAreHeeded == Spec => []RevokedDefinerStops
<1>1. IInv => RevokedDefinerStops
  BY DEF IInv, Sound, Judges, JudgedWell, RevokedDefinerStops, Decided
<1> QED BY <1>1, InductiveInvariant, PTL

\* No review, crash or failed write leaves an approved candidate unmerged.
THEOREM ApprovalsAreMerged == Spec => []ApprovedIsMerged
<1>1. IInv => ApprovedIsMerged
  BY DEF IInv
<1> QED BY <1>1, InductiveInvariant, PTL

-----------------------------------------------------------------------------
(* The task scheduler: its invariant.                                      *)

\* What a coroutine is doing makes sense by itself.
Sensible(j) ==
  /\ j.left \in Seq(Limited)
  /\ j.pc = "gate" => j.left # <<>>
  /\ j.pc \in {"gate", "execute"} => j.allowance # 0
  /\ j.pc \notin {"idle", "tasks", "personas"} => j.task \in Tasks
  /\ j.pc \in {"gate", "execute", "record", "touch"} =>
       j.persona \in {PersonaOf[j.task], NoPersona}

JobsAreSensible == \A w \in Workers : Sensible(job[w])

\* j is a scheduled firing that was counted for s and has not been recorded.
Counted(j, s) ==
  /\ j.source = "scheduled" /\ j.task # NoTask
  /\ s \in SubjectsOf(j.task, j.persona)
  /\ \/ j.pc = "execute"
     \/ j.pc = "record" /\ j.outcome = "committed"
     \/ j.pc = "gate" /\ \A i \in DOMAIN j.left : j.left[i] # s

CountedOn(j, s, d) == Counted(j, s) /\ Day(j.firedAt) = d

\* While it is known what s used on day d, x units, at most one firing has been
\* counted for it and not recorded; what that firing may use keeps within the
\* limit; and the record, u units, lacks no more than it is about to add.
LimitHolds(s, d, x, u, jobs) ==
  x # Uncertain =>
    /\ x <= Limit[s]
    /\ \A v, w \in Workers : CountedOn(jobs[v], s, d) /\ CountedOn(jobs[w], s, d) => v = w
    /\ \A w \in Workers : CountedOn(jobs[w], s, d) /\ jobs[w].pc # "record" =>
         jobs[w].allowance # Unlimited /\ x + jobs[w].allowance <= Limit[s]
    /\ \A w \in Workers : CountedOn(jobs[w], s, d) /\ jobs[w].pc = "record" =>
         x <= u + jobs[w].units
    /\ (\A w \in Workers : CountedOn(jobs[w], s, d) => jobs[w].pc # "record") => x <= u

LimitsHold ==
  \A s \in Limited, d \in Days : LimitHolds(s, d, done[s][d], used[s][d], job)

SchedulerIInv == SchedulerTypeOK /\ JobsAreSensible /\ InFlightIsRunning /\ LimitsHold

-----------------------------------------------------------------------------
(* Days, jobs and the set of running tasks.                                *)

\* Every time has a day within the days counted.
LEMMA DayOfTime ==
  ASSUME NEW t \in Times
  PROVE  Day(t) \in Days
<1>1. t \in Int /\ Horizon \in Int /\ DayLength \in Int /\ 0 <= t /\ t <= Horizon /\ DayLength > 0
  BY SchedulerAssumption DEF Times
<1> DEFINE a == t \div DayLength
           b == Horizon \div DayLength
<1>2. a \in Int /\ b \in Int
  BY <1>1
<1>3. DayLength * a <= t /\ t < DayLength * a + DayLength
  BY <1>1
<1>4. DayLength * b <= Horizon /\ Horizon < DayLength * b + DayLength
  BY <1>1
<1>5. 0 <= a
  BY <1>1, <1>2, <1>3, <1>4
<1>6. a <= b
  BY <1>1, <1>2, <1>3, <1>4
<1> QED BY <1>2, <1>5, <1>6 DEF Day, Days

\* The order of the natural numbers, as a relation.
Less == {p \in Nat \X Nat : p[1] < p[2]}

\* A set of numbers has a least one.
LEMMA LeastNumber ==
  ASSUME NEW T \in SUBSET Nat, T # {}
  PROVE  \E x \in T : \A y \in T : x <= y
<1>1. IsWellFoundedOn(Less, Nat)
  BY NatLessThanWellFounded DEF Less, OpToRel
<1>2. PICK x \in T : \A y \in T : <<y, x>> \notin Less
  BY <1>1, WFMin
<1>3. \A y \in T : ~(y < x)
  BY <1>2 DEF Less
<1> QED BY <1>3

\* inFlight as InFlightIsRunning has it, for any set and any jobs.
Flying(j) == j.pc \in {"gate", "execute"}

FlightHolds(f, jobs) ==
  /\ \A t : t \in f <=> \E w \in Workers : Flying(jobs[w]) /\ jobs[w].task = t
  /\ \A v, w \in Workers :
       Flying(jobs[v]) /\ Flying(jobs[w]) /\ jobs[v].task = jobs[w].task => v = w

\* The two say the same.
LEMMA FlightIs == InFlightIsRunning <=> FlightHolds(inFlight, job)
BY DEF InFlightIsRunning, FlightHolds, Flying, Running

\* A coroutine that is not running does something else.
LEMMA FlightKept ==
  ASSUME NEW f, NEW jobs \in [Workers -> Jobs], FlightHolds(f, jobs),
         NEW w \in Workers, NEW n \in Jobs, ~Flying(jobs[w]), ~Flying(n)
  PROVE  FlightHolds(f, [jobs EXCEPT ![w] = n])
BY DEF FlightHolds

\* It starts a task that is not running.
LEMMA FlightStarts ==
  ASSUME NEW f, NEW jobs \in [Workers -> Jobs], FlightHolds(f, jobs),
         NEW w \in Workers, NEW n \in Jobs, ~Flying(jobs[w]), Flying(n), n.task \notin f
  PROVE  FlightHolds(f \cup {n.task}, [jobs EXCEPT ![w] = n])
BY DEF FlightHolds

\* It stops running its task.
LEMMA FlightEnds ==
  ASSUME NEW f, NEW jobs \in [Workers -> Jobs], FlightHolds(f, jobs),
         NEW w \in Workers, NEW n \in Jobs, Flying(jobs[w]), ~Flying(n)
  PROVE  FlightHolds(f \ {jobs[w].task}, [jobs EXCEPT ![w] = n])
BY DEF FlightHolds

\* It goes on with its task.
LEMMA FlightGoesOn ==
  ASSUME NEW f, NEW jobs \in [Workers -> Jobs], FlightHolds(f, jobs),
         NEW w \in Workers, NEW n \in Jobs, Flying(jobs[w]), Flying(n), n.task = jobs[w].task
  PROVE  FlightHolds(f, [jobs EXCEPT ![w] = n])
BY DEF FlightHolds

\* A coroutine at rest has been counted for nobody.
LEMMA RestingIsFine ==
  /\ Resting \in Jobs /\ Resting.load = 0 /\ Resting.pc = "idle" /\ Sensible(Resting)
  /\ \A s : ~Counted(Resting, s)
<1>1. Resting \in Jobs
  BY SchedulerAssumption DEF Resting, Jobs, Times, Sources, Outcomes, TaskStatuses
<1>2. Sensible(Resting)
  BY DEF Resting, Sensible
<1>3. \A s : ~Counted(Resting, s)
  BY DEF Resting, Counted
<1> QED BY <1>1, <1>2, <1>3 DEF Resting

-----------------------------------------------------------------------------
(* What a coroutine turns to.                                              *)

\* n is a job that makes sense, reads a registry that was read, and was not
\* counted for anybody yet.
Fresh(n) ==
  /\ n \in Jobs /\ Sensible(n) /\ n.load \in 0..Len(loaded)
  /\ \A s \in Limited : ~Counted(n, s)

Holds(q, s) == \E i \in DOMAIN q : q[i] = s

\* What one of two sequences holds, both together hold.
LEMMA HeldByBoth ==
  ASSUME NEW S, NEW a \in Seq(S), NEW b \in Seq(S), NEW s, Holds(a, s) \/ Holds(b, s)
  PROVE  Holds(a \o b, s)
<1>1. Len(a) \in Nat /\ Len(b) \in Nat /\ DOMAIN a = 1..Len(a) /\ DOMAIN b = 1..Len(b)
  BY LenProperties
<1> DEFINE c == a \o b
<1>2. c \in Seq(S) /\ Len(c) = Len(a) + Len(b)
  BY ConcatProperties
<1>3. DOMAIN c = 1..(Len(a) + Len(b))
  BY <1>2, LenProperties
<1>4. \A k \in 1..(Len(a) + Len(b)) : c[k] = IF k <= Len(a) THEN a[k] ELSE b[k - Len(a)]
  BY ConcatProperties
<1> HIDE DEF c
<1>5. ASSUME NEW i \in DOMAIN a PROVE i \in DOMAIN c /\ c[i] = a[i]
  BY <1>1, <1>3, <1>4
<1>6. ASSUME NEW i \in DOMAIN b PROVE Len(a) + i \in DOMAIN c /\ c[Len(a) + i] = b[i]
  BY <1>1, <1>3, <1>4
<1>7. Holds(c, s)
  BY <1>5, <1>6 DEF Holds
<1> QED BY <1>7 DEF c

\* The gate asks for every limited subject of the firing.
LEMMA ToCountIs ==
  ASSUME NEW t
  PROVE  /\ ToCount(t) \in Seq(Limited)
         /\ \A s \in Limited : s \in SubjectsOf(t, Acting(t)) => Holds(ToCount(t), s)
<1> DEFINE a == IfLimited(t)
           b == IfLimited(Acting(t))
<1>1. ASSUME NEW s PROVE IfLimited(s) \in Seq(Limited)
  BY DEF IfLimited
<1>2. a \in Seq(Limited) /\ b \in Seq(Limited)
  BY <1>1
<1>3. ASSUME NEW s \in Limited PROVE Holds(IfLimited(s), s)
  BY DEF IfLimited, Holds
<1>4. ASSUME NEW s \in Limited, s \in SubjectsOf(t, Acting(t))
      PROVE  Holds(a, s) \/ Holds(b, s)
  BY <1>3, <1>4 DEF SubjectsOf
<1> HIDE DEF a, b
<1>5. ASSUME NEW s \in Limited, s \in SubjectsOf(t, Acting(t))
      PROVE  Holds(a \o b, s)
  BY <1>2, <1>4, <1>5, HeldByBoth
<1>6. a \o b \in Seq(Limited)
  BY <1>2, ConcatProperties
<1> QED BY <1>5, <1>6 DEF ToCount, a, b

\* What fire() makes of its coroutine.
LEMMA FireIsFresh ==
  ASSUME SchedulerTypeOK, NEW load \in 0..Len(loaded), NEW t \in Tasks, NEW source \in Sources,
         NEW ref \in Times, NEW queue \in Seq(Tasks)
  PROVE  LET n == Fire(load, t, source, ref, queue) IN
         /\ Fresh(n) /\ n.task = t /\ n.pc \in {"gate", "execute", "record"}
<1> DEFINE j == [Resting EXCEPT !.queue = queue, !.load = load, !.task = t,
                     !.ref = IF queue = <<>> THEN 0 ELSE ref,
                     !.source = source, !.firedAt = clock, !.persona = Acting(t)]
<1>1. Acting(t) \in Personas \cup {NoPersona} /\ Acting(t) \in {PersonaOf[t], NoPersona}
  BY SchedulerAssumption DEF SchedulerTypeOK, Acting
<1>2. Len(loaded) \in Nat /\ load \in Nat /\ 0 \in Times /\ clock \in Times
  BY SchedulerAssumption, LenProperties DEF SchedulerTypeOK, Times
<1>3. /\ j \in Jobs /\ j.task = t /\ j.load = load /\ j.left = <<>> /\ j.allowance = Unlimited
      /\ j.persona = Acting(t) /\ j.outcome = "none" /\ j.source = source
  BY <1>1, <1>2, RestingIsFine DEF Jobs, Resting
<1>4. Unlimited # 0 /\ t # NoTask
  BY SchedulerAssumption
<1>5. Limited \subseteq Subjects
  BY DEF Limited
<1>6. ToCount(t) \in Seq(Limited)
  BY ToCountIs
<1>7. ToCount(t) \in Seq(Subjects)
  BY <1>5, <1>6
<1> HIDE DEF j
<1> DEFINE x == [j EXCEPT !.pc = "record", !.outcome = "unbilled"]
           y == [j EXCEPT !.pc = "execute"]
           z == [j EXCEPT !.pc = "gate", !.left = ToCount(t)]
<1>8. x \in Jobs /\ Sensible(x) /\ x.load = load /\ x.task = t /\ x.pc = "record"
  BY <1>1, <1>3, <1>4, EmptySeq DEF Jobs, Sensible, Outcomes
<1>14. \A s \in Limited : ~Counted(x, s)
  BY <1>3 DEF Counted, Jobs
<1>9. y \in Jobs /\ Sensible(y) /\ y.load = load /\ y.task = t /\ y.pc = "execute"
  BY <1>1, <1>3, <1>4, EmptySeq DEF Jobs, Sensible
<1>10. z \in Jobs /\ z.load = load /\ z.task = t /\ z.pc = "gate"
  BY <1>3, <1>7 DEF Jobs
<1>11. source = "manual" \/ ToCount(t) = <<>> => \A s \in Limited : ~Counted(y, s)
  BY <1>1, <1>3, ToCountIs DEF Counted, Holds
<1>12. ToCount(t) # <<>> => Sensible(z)
  BY <1>1, <1>3, <1>4, <1>6 DEF Sensible, Jobs
<1>13. \A s \in Limited : ~Counted(z, s)
  BY <1>3, ToCountIs DEF Counted, Jobs, Holds
<1> DEFINE n == Fire(load, t, source, ref, queue)
<1> HIDE DEF x, y, z
<1>15. n = x \/ ((source = "manual" \/ ToCount(t) = <<>>) /\ n = y) \/ (ToCount(t) # <<>> /\ n = z)
  BY <1>3 DEF Fire, Gated, j, x, y, z
<1> HIDE DEF n
<1> DEFINE Good(k) == Fresh(k) /\ k.task = t /\ k.pc \in {"gate", "execute", "record"}
<1>16. Good(x)
  BY <1>8, <1>14 DEF Fresh
<1>17. source = "manual" \/ ToCount(t) = <<>> => Good(y)
  BY <1>9, <1>11 DEF Fresh
<1>18. ToCount(t) # <<>> => Good(z)
  BY <1>10, <1>12, <1>13 DEF Fresh
<1> HIDE DEF Good
<1>19. Good(n)
  BY <1>15, <1>16, <1>17, <1>18
<1> QED BY <1>19 DEF n, Good

\* tick() goes on with a job that is fresh, or rests, and _in_flight is kept.
LEMMA TicksOn ==
  ASSUME SchedulerTypeOK, NEW w \in Workers, NEW load \in 0..Len(loaded), NEW ref \in Times,
         NEW queue \in Seq(Tasks), GoOn(w, load, ref, queue),
         ~Flying(job[w]), FlightHolds(inFlight, job)
  PROVE  \E n : /\ Fresh(n) /\ job' = [job EXCEPT ![w] = n]
                /\ FlightHolds(inFlight', job') /\ inFlight' \subseteq Tasks
<1> DEFINE ready == Startable(load, ref, queue)
<1>1. job \in [Workers -> Jobs] /\ Len(loaded) \in Nat /\ inFlight \subseteq Tasks
  BY LenProperties DEF SchedulerTypeOK
<1>2. CASE ready = {}
  <2>1. job' = [job EXCEPT ![w] = Resting] /\ inFlight' = inFlight
    BY <1>2 DEF GoOn, Become
  <2>2. Fresh(Resting) /\ ~Flying(Resting) /\ Resting \in Jobs
    BY <1>1, RestingIsFine DEF Fresh, Flying
  <2>3. FlightHolds(inFlight', job')
    BY <1>1, <2>1, <2>2, FlightKept
  <2> QED BY <1>1, <2>1, <2>2, <2>3
<1>3. CASE ready # {}
  <2>1. ready \in SUBSET Nat /\ \A i \in ready : i \in 1..Len(queue) /\ queue[i] \in Tasks
                                              /\ queue[i] \notin inFlight
    BY LenProperties, ElementOfSeq DEF Startable, Busy
  <2> DEFINE i == CHOOSE i \in ready : \A k \in ready : i <= k
  <2>2. i \in ready
    BY <1>3, <2>1, LeastNumber
  <2> DEFINE rest == SubSeq(queue, i + 1, Len(queue))
             n == Fire(load, queue[i], "scheduled", ref, rest)
  <2>3. /\ job' = [job EXCEPT ![w] = n]
        /\ inFlight' = IF n.pc = "record" THEN inFlight ELSE inFlight \cup {queue[i]}
    BY <1>3 DEF GoOn, Become
  <2> HIDE DEF i
  <2>4. Len(queue) \in Nat /\ i \in 1..Len(queue) /\ queue[i] \in Tasks /\ queue[i] \notin inFlight
    BY <2>1, <2>2, LenProperties
  <2>5. rest \in Seq(Tasks)
    BY <2>4, SubSeqProperties
  <2> HIDE DEF rest
  <2>6. Fresh(n) /\ n.task = queue[i] /\ n.pc \in {"gate", "execute", "record"}
    BY <2>4, <2>5, FireIsFresh DEF Sources
  <2>7. n \in Jobs
    BY <2>6 DEF Fresh
  <2> HIDE DEF n
  <2>8. CASE n.pc = "record"
    <3>1. FlightHolds(inFlight, [job EXCEPT ![w] = n])
      BY <1>1, <2>7, <2>8, FlightKept DEF Flying
    <3> QED BY <1>1, <2>3, <2>6, <2>8, <3>1
  <2>9. CASE n.pc # "record"
    <3>1. FlightHolds(inFlight \cup {n.task}, [job EXCEPT ![w] = n])
      BY <1>1, <2>4, <2>6, <2>7, <2>9, FlightStarts DEF Flying
    <3> QED BY <1>1, <2>3, <2>4, <2>6, <2>9, <3>1
  <2> QED BY <2>8, <2>9
<1> QED BY <1>2, <1>3

\* The same of a coroutine whose firing is over.
LEMMA Finishes ==
  ASSUME SchedulerIInv, NEW w \in Workers, ~Flying(job[w]), Finish(w)
  PROVE  \E n : /\ Fresh(n) /\ job' = [job EXCEPT ![w] = n]
                /\ FlightHolds(inFlight', job') /\ inFlight' \subseteq Tasks
<1>1. job[w] \in Jobs /\ job[w].load \in 0..Len(loaded) /\ SchedulerTypeOK
  BY DEF SchedulerIInv, SchedulerTypeOK
<1>2. job[w].ref \in Times /\ job[w].queue \in Seq(Tasks)
  BY <1>1 DEF Jobs
<1>3. FlightHolds(inFlight, job)
  BY FlightIs DEF SchedulerIInv
<1> QED BY <1>1, <1>2, <1>3, TicksOn DEF Finish

-----------------------------------------------------------------------------
(* What it takes to keep the limits.                                       *)

\* A coroutine turns to something that was not counted; who had a record to
\* write is forgotten.
LEMMA LimitsKept ==
  ASSUME NEW s \in Limited, NEW d \in Days, NEW x, NEW u, NEW jobs \in [Workers -> Jobs],
         LimitHolds(s, d, x, u, jobs), NEW w \in Workers, NEW n \in Jobs, ~CountedOn(n, s, d),
         NEW y, y = x \/ y = Uncertain,
         jobs[w].pc = "record" /\ CountedOn(jobs[w], s, d) => y = Uncertain
  PROVE  LimitHolds(s, d, y, u, [jobs EXCEPT ![w] = n])
<1> DEFINE new == [jobs EXCEPT ![w] = n]
<1>1. \A v \in Workers : CountedOn(new[v], s, d) => v # w /\ new[v] = jobs[v]
  BY DEF CountedOn
<1>2. new[w] = n /\ \A v \in Workers : v # w => new[v] = jobs[v]
  OBVIOUS
<1> HIDE DEF new
<1>3. LimitHolds(s, d, y, u, new)
  BY <1>1, <1>2 DEF LimitHolds
<1> QED BY <1>3 DEF new

\* To forget is to keep what is known or to know no more.
LEMMA Forgets ==
  ASSUME SchedulerTypeOK, NEW w \in Workers, NEW S
  PROVE  /\ Forget(w, S) \in [Limited -> [Days -> Nat \cup {Uncertain}]]
         /\ \A s \in Limited, d \in Days : Forget(w, S)[s][d] \in {done[s][d], Uncertain}
         /\ \A s \in Limited, d \in Days :
              s \in S /\ d = Day(job[w].firedAt) => Forget(w, S)[s][d] = Uncertain
         /\ \A s \in Limited, d \in Days :
              ~(s \in S /\ d = Day(job[w].firedAt)) => Forget(w, S)[s][d] = done[s][d]
<1>1. done \in [Limited -> [Days -> Nat \cup {Uncertain}]]
  BY DEF SchedulerTypeOK
<1> QED BY <1>1 DEF Forget

\* The persona of a firing, if any, is the one its task names.
LEMMA SubjectsAreNamed ==
  ASSUME NEW j, j.persona \in {PersonaOf[j.task], NoPersona}
  PROVE  SubjectsOf(j.task, j.persona) \subseteq Named(j.task)
BY DEF SubjectsOf, Named

\* What done and used are after any step.
Accounts(d, u) ==
  d \in [Limited -> [Days -> Nat \cup {Uncertain}]] /\ u \in [Limited -> [Days -> Nat]]

\* A coroutine turns to a job that was not counted, and used stays.
LEMMA QuietStep ==
  ASSUME SchedulerIInv, NEW w \in Workers, NEW n, Fresh(n), job' = [job EXCEPT ![w] = n],
         used' = used, Accounts(done', used),
         \A s \in Limited, d \in Days : done'[s][d] \in {done[s][d], Uncertain},
         \A s \in Limited, d \in Days :
           job[w].pc = "record" /\ CountedOn(job[w], s, d) => done'[s][d] = Uncertain
  PROVE  /\ job' \in [Workers -> Jobs] /\ JobsAreSensible' /\ LimitsHold'
         /\ \A v \in Workers : job'[v].load \in 0..Len(loaded)
<1>1. /\ job \in [Workers -> Jobs] /\ n \in Jobs /\ Sensible(n) /\ n.load \in 0..Len(loaded)
      /\ \A s \in Limited : ~Counted(n, s)
  BY DEF SchedulerIInv, SchedulerTypeOK, Fresh
<1>2. /\ job'[w] = n /\ \A v \in Workers : v # w => job'[v] = job[v]
      /\ job' \in [Workers -> Jobs]
  BY <1>1
<1>3. JobsAreSensible'
  BY <1>1, <1>2 DEF SchedulerIInv, JobsAreSensible
<1>4. \A v \in Workers : job'[v].load \in 0..Len(loaded)
  BY <1>1, <1>2 DEF SchedulerIInv, SchedulerTypeOK
<1>5. ASSUME NEW s \in Limited, NEW d \in Days
      PROVE  LimitHolds(s, d, done'[s][d], used'[s][d], job')
  <2>1. LimitHolds(s, d, done[s][d], used[s][d], job)
    BY DEF SchedulerIInv, LimitsHold
  <2>2. /\ done'[s][d] = done[s][d] \/ done'[s][d] = Uncertain
        /\ ~CountedOn(n, s, d)
        /\ job[w].pc = "record" /\ CountedOn(job[w], s, d) => done'[s][d] = Uncertain
    BY <1>1 DEF CountedOn
  <2> DEFINE x == done[s][d]
             y == done'[s][d]
             u == used[s][d]
  <2> HIDE DEF x, y, u
  <2>3. LimitHolds(s, d, x, u, job)
    BY <2>1 DEF x, u
  <2>4. /\ y = x \/ y = Uncertain
        /\ job[w].pc = "record" /\ CountedOn(job[w], s, d) => y = Uncertain
    BY <2>2 DEF x, y
  <2>5. LimitHolds(s, d, y, u, [job EXCEPT ![w] = n])
    BY <1>1, <2>2, <2>3, <2>4, LimitsKept
  <2> QED BY <2>5 DEF y, u
<1>6. LimitsHold'
  BY <1>5 DEF LimitsHold
<1> QED BY <1>2, <1>3, <1>4, <1>6

\* The parts of the invariant together.
LEMMA Together ==
  ASSUME clock' \in Times, stored' \in [Tasks -> Nodes], loaded' \in Seq(Loads), loaded' # <<>>,
         personas' \subseteq Personas, inFlight' \subseteq Tasks, job' \in [Workers -> Jobs],
         \A v \in Workers : job'[v].load \in 0..Len(loaded'), asked' \in 0..MaxRequests,
         Accounts(done', used'), JobsAreSensible', FlightHolds(inFlight', job'), LimitsHold'
  PROVE  SchedulerIInv'
<1>1. SchedulerTypeOK'
  BY DEF SchedulerTypeOK, Accounts
<1>2. InFlightIsRunning'
  BY DEF InFlightIsRunning, FlightHolds, Flying, Running
<1> QED BY <1>1, <1>2 DEF SchedulerIInv

\* A step that leaves the registry, the store and the clock.
LEMMA QuietTurn ==
  ASSUME SchedulerIInv, NEW w \in Workers, NEW n, Fresh(n), job' = [job EXCEPT ![w] = n],
         FlightHolds(inFlight', job'), inFlight' \subseteq Tasks, asked' \in 0..MaxRequests,
         clock' = clock, used' = used, personas' \subseteq Personas, Accounts(done', used),
         stored' \in [Tasks -> Nodes], loaded' \in Seq(Loads), loaded' # <<>>,
         Len(loaded) <= Len(loaded'),
         \A s \in Limited, d \in Days : done'[s][d] \in {done[s][d], Uncertain},
         \A s \in Limited, d \in Days :
           job[w].pc = "record" /\ CountedOn(job[w], s, d) => done'[s][d] = Uncertain
  PROVE  SchedulerIInv'
<1>1. /\ job' \in [Workers -> Jobs] /\ JobsAreSensible' /\ LimitsHold'
      /\ \A v \in Workers : job'[v].load \in 0..Len(loaded)
  BY QuietStep
<1>2. Len(loaded) \in Nat /\ Len(loaded') \in Nat
  BY LenProperties DEF SchedulerIInv, SchedulerTypeOK
<1>3. \A v \in Workers : job'[v].load \in 0..Len(loaded')
  BY <1>1, <1>2
<1>4. clock' \in Times
  BY DEF SchedulerIInv, SchedulerTypeOK
<1> QED BY <1>1, <1>3, <1>4, Together

\* The same when nothing was to be recorded and no account changes.
LEMMA PlainTurn ==
  ASSUME SchedulerIInv, NEW w \in Workers, NEW n, Fresh(n), job' = [job EXCEPT ![w] = n],
         job[w].pc # "record", FlightHolds(inFlight', job'), inFlight' \subseteq Tasks,
         asked' \in 0..MaxRequests, clock' = clock, used' = used, done' = done,
         personas' \subseteq Personas,
         stored' \in [Tasks -> Nodes], loaded' \in Seq(Loads), loaded' # <<>>,
         Len(loaded) <= Len(loaded')
  PROVE  SchedulerIInv'
<1>1. Accounts(done', used)
  BY DEF SchedulerIInv, SchedulerTypeOK, Accounts
<1> QED BY <1>1, QuietTurn

\* What the invariant says of the state, for the leaves below.
LEMMA StateIs ==
  ASSUME SchedulerIInv
  PROVE  /\ SchedulerTypeOK /\ clock \in Times /\ stored \in [Tasks -> Nodes]
         /\ loaded \in Seq(Loads) /\ loaded # <<>> /\ Len(loaded) \in Nat /\ Len(loaded) >= 1
         /\ personas \subseteq Personas /\ inFlight \subseteq Tasks
         /\ job \in [Workers -> Jobs] /\ asked \in 0..MaxRequests
         /\ FlightHolds(inFlight, job) /\ Accounts(done, used)
         /\ \A w \in Workers : /\ job[w] \in Jobs /\ Sensible(job[w])
                               /\ job[w].load \in 0..Len(loaded)
<1>1. SchedulerTypeOK /\ JobsAreSensible /\ FlightHolds(inFlight, job)
  BY FlightIs DEF SchedulerIInv
<1>2. Len(loaded) \in Nat /\ Len(loaded) >= 1
  BY <1>1, LenProperties, EmptySeq DEF SchedulerTypeOK
<1> QED BY <1>1, <1>2 DEF SchedulerTypeOK, JobsAreSensible, Accounts

\* Only the coroutine, _in_flight and the count of requests change.
LEMMA StillTurn ==
  ASSUME SchedulerIInv, NEW w \in Workers, NEW n, Fresh(n), job' = [job EXCEPT ![w] = n],
         job[w].pc # "record", FlightHolds(inFlight', job'), inFlight' \subseteq Tasks,
         asked' \in 0..MaxRequests, UNCHANGED <<clock, store, loaded, personas, done>>
  PROVE  SchedulerIInv'
<1>1. /\ clock' = clock /\ stored' = stored /\ used' = used /\ loaded' = loaded
      /\ personas' = personas /\ done' = done
  BY DEF store
<1>2. /\ stored' \in [Tasks -> Nodes] /\ loaded' \in Seq(Loads) /\ loaded' # <<>>
      /\ Len(loaded) <= Len(loaded') /\ personas' \subseteq Personas
  BY <1>1, StateIs
<1> QED BY <1>1, <1>2, PlainTurn

\* The Task objects of a reading, by the tasks it has.
LEMMA LoadIs ==
  ASSUME NEW load \in Loads
  PROVE  DOMAIN load \subseteq Tasks /\ load \in [DOMAIN load -> Objects]
BY DEF Loads

\* _tasks is one of the readings.
LEMMA CurrentIs ==
  ASSUME SchedulerIInv
  PROVE  Current \in 0..Len(loaded) /\ Current \in 1..Len(loaded) /\ loaded[Current] \in Loads
<1>1. Len(loaded) \in Nat /\ Len(loaded) >= 1 /\ loaded \in Seq(Loads)
  BY StateIs
<1>2. Len(loaded) \in 1..Len(loaded)
  BY <1>1
<1> QED BY <1>1, <1>2, ElementOfSeq DEF Current

\* What begins was at rest, within the bound on requests.
LEMMA BeginsWithin ==
  ASSUME SchedulerIInv, NEW w \in Workers, Begins(w)
  PROVE  /\ job[w].pc = "idle" /\ job[w].pc # "record" /\ ~Flying(job[w])
         /\ asked' \in 0..MaxRequests
<1>1. asked \in 0..MaxRequests /\ MaxRequests \in Nat
  BY StateIs, SchedulerAssumption
<1> QED BY <1>1 DEF Begins, Flying

\* Each action keeps the invariant; first those with which a coroutine begins.
LEMMA TickNowKeeps ==
  ASSUME SchedulerIInv, NEW w \in Workers, TickNow(w)
  PROVE  SchedulerIInv'
<1>1. /\ GoOn(w, Current, clock, Order) /\ Begins(w)
      /\ UNCHANGED <<clock, store, loaded, personas, done>>
  BY DEF TickNow
<1>2. job[w].pc # "record" /\ ~Flying(job[w]) /\ asked' \in 0..MaxRequests
  BY <1>1, BeginsWithin
<1>3. Order \in Seq(Tasks)
  BY SchedulerAssumption
<1>4. PICK n : /\ Fresh(n) /\ job' = [job EXCEPT ![w] = n]
               /\ FlightHolds(inFlight', job') /\ inFlight' \subseteq Tasks
  BY <1>1, <1>2, <1>3, TicksOn, CurrentIs, StateIs
<1> QED BY <1>1, <1>2, <1>4, StillTurn

LEMMA FireNowKeeps ==
  ASSUME SchedulerIInv, NEW w \in Workers, FireNow(w)
  PROVE  SchedulerIInv'
<1>1. Begins(w) /\ UNCHANGED <<clock, store, loaded, personas, done>>
  BY DEF FireNow
<1>2. job[w].pc # "record" /\ ~Flying(job[w]) /\ asked' \in 0..MaxRequests
  BY <1>1, BeginsWithin
<1>3. PICK t \in DOMAIN loaded[Current] :
        LET next == Fire(Current, t, "manual", clock, <<>>) IN
        /\ ~Busy(Current, t)
        /\ Become(w, next)
        /\ inFlight' = IF next.pc = "record" THEN inFlight ELSE inFlight \cup {t}
  BY DEF FireNow
<1>4. t \in Tasks /\ t \notin inFlight
  BY <1>3, CurrentIs, LoadIs DEF Busy
<1> DEFINE n == Fire(Current, t, "manual", clock, <<>>)
<1>5. Fresh(n) /\ n.task = t /\ n.pc \in {"gate", "execute", "record"}
  BY <1>4, CurrentIs, StateIs, FireIsFresh, EmptySeq DEF Sources
<1>6. /\ job' = [job EXCEPT ![w] = n]
      /\ inFlight' = IF n.pc = "record" THEN inFlight ELSE inFlight \cup {t}
  BY <1>3 DEF Become
<1> HIDE DEF n
<1>7. n \in Jobs
  BY <1>5 DEF Fresh
<1>8. FlightHolds(inFlight', job') /\ inFlight' \subseteq Tasks
  <2>1. job \in [Workers -> Jobs] /\ FlightHolds(inFlight, job) /\ inFlight \subseteq Tasks
    BY StateIs
  <2>2. CASE n.pc = "record"
    BY <1>2, <1>6, <1>7, <2>1, <2>2, FlightKept DEF Flying
  <2>3. CASE n.pc # "record"
    <3>1. FlightHolds(inFlight \cup {n.task}, [job EXCEPT ![w] = n])
      BY <1>2, <1>4, <1>5, <1>7, <2>1, <2>3, FlightStarts DEF Flying
    <3> QED BY <1>4, <1>5, <1>6, <2>1, <2>3, <3>1
  <2> QED BY <2>2, <2>3
<1> QED BY <1>1, <1>2, <1>5, <1>6, <1>8, StillTurn

\* A coroutine that was not running, and does not run, turns to what is fresh.
LEMMA Aside ==
  ASSUME SchedulerIInv, NEW w \in Workers, NEW n, Fresh(n), job' = [job EXCEPT ![w] = n],
         ~Flying(job[w]), ~Flying(n), inFlight' = inFlight
  PROVE  FlightHolds(inFlight', job') /\ inFlight' \subseteq Tasks
BY StateIs, FlightKept DEF Fresh

\* To rest is always possible.
LEMMA RestingIsFresh ==
  ASSUME SchedulerIInv
  PROVE  Fresh(Resting) /\ ~Flying(Resting)
BY RestingIsFine, StateIs DEF Fresh, Flying

\* A request about a task, at any of its steps.
LEMMA RequestIsFresh ==
  ASSUME NEW n \in Jobs, n.left = <<>>, n.task \in Tasks, n.load \in 0..Len(loaded),
         n.pc \in {"status", "assign", "drop", "insert"}
  PROVE  Fresh(n) /\ ~Flying(n)
<1>1. Sensible(n)
  BY EmptySeq DEF Sensible
<1>2. \A s : ~Counted(n, s)
  BY DEF Counted
<1> QED BY <1>1, <1>2 DEF Fresh, Flying

\* The requests about a task.
LEMMA StartStatusKeeps ==
  ASSUME SchedulerIInv, NEW w \in Workers, StartStatus(w)
  PROVE  SchedulerIInv'
<1>1. Begins(w) /\ UNCHANGED <<clock, store, memory, done>>
  BY DEF StartStatus
<1>2. PICK t \in DOMAIN loaded[Current], status \in TaskStatuses :
        job' = [job EXCEPT ![w] =
                 [Resting EXCEPT !.pc = "status", !.load = Current, !.task = t, !.status = status]]
  BY DEF StartStatus, Become
<1>3. t \in Tasks
  BY CurrentIs, LoadIs
<1> DEFINE n == [Resting EXCEPT !.pc = "status", !.load = Current, !.task = t, !.status = status]
<1>4. /\ n \in Jobs /\ n.left = <<>> /\ n.task \in Tasks /\ n.load \in 0..Len(loaded)
      /\ n.pc = "status"
  <2>1. Current \in 0..Len(loaded) /\ Len(loaded) \in Nat
    BY CurrentIs, StateIs
  <2>2. Current \in Nat
    BY <2>1
  <2>3. n \in Jobs
    BY <1>3, <2>2, RestingIsFine DEF Jobs
  <2> QED BY <1>3, <2>1, <2>3 DEF Resting
<1> HIDE DEF n
<1>5. job' = [job EXCEPT ![w] = n] /\ Fresh(n) /\ ~Flying(n)
  BY <1>2, <1>4, RequestIsFresh DEF n
<1> QED BY <1>1, <1>5, BeginsWithin, Aside, StillTurn DEF memory

LEMMA StartCreateKeeps ==
  ASSUME SchedulerIInv, NEW w \in Workers, StartCreate(w)
  PROVE  SchedulerIInv'
<1>1. Begins(w) /\ UNCHANGED <<clock, store, memory, done>>
  BY DEF StartCreate
<1>2. PICK t \in Tasks, status \in TaskStatuses :
        job' = [job EXCEPT ![w] = [Resting EXCEPT !.pc = "drop", !.task = t, !.status = status]]
  BY DEF StartCreate, Become
<1> DEFINE n == [Resting EXCEPT !.pc = "drop", !.task = t, !.status = status]
<1>4. /\ n \in Jobs /\ n.left = <<>> /\ n.task \in Tasks /\ n.load \in 0..Len(loaded)
      /\ n.pc = "drop"
  <2>1. n \in Jobs
    BY RestingIsFine DEF Jobs
  <2>2. 0 \in 0..Len(loaded)
    BY StateIs
  <2> QED BY <2>1, <2>2 DEF Resting
<1> HIDE DEF n
<1>5. job' = [job EXCEPT ![w] = n] /\ Fresh(n) /\ ~Flying(n)
  BY <1>2, <1>4, RequestIsFresh DEF n
<1> QED BY <1>1, <1>5, BeginsWithin, Aside, StillTurn DEF memory

LEMMA AbortKeeps ==
  ASSUME SchedulerIInv, NEW w \in Workers, Abort(w)
  PROVE  SchedulerIInv'
<1>1. /\ job[w].pc # "record" /\ ~Flying(job[w]) /\ job' = [job EXCEPT ![w] = Resting]
      /\ UNCHANGED <<clock, store, loaded, personas, done>> /\ inFlight' = inFlight
      /\ asked' = asked
  BY DEF Abort, Become, setup, memory, Flying
<1>2. asked' \in 0..MaxRequests
  BY <1>1, StateIs
<1> QED BY <1>1, <1>2, RestingIsFresh, Aside, StillTurn

\* A request goes on to its next step.
LEMMA StepIsFresh ==
  ASSUME SchedulerIInv, NEW w \in Workers, job[w].pc \in {"status", "drop", "insert"},
         NEW pc \in {"assign", "insert"}
  PROVE  Fresh([job[w] EXCEPT !.pc = pc]) /\ ~Flying([job[w] EXCEPT !.pc = pc])
<1>1. job[w] \in Jobs /\ Sensible(job[w]) /\ job[w].load \in 0..Len(loaded)
  BY StateIs
<1> DEFINE n == [job[w] EXCEPT !.pc = pc]
<1>2. /\ n \in Jobs /\ n.load = job[w].load /\ n.pc = pc
      /\ n.left = job[w].left /\ n.task = job[w].task
  BY <1>1 DEF Jobs
<1> HIDE DEF n
<1>3. Sensible(n)
  BY <1>1, <1>2 DEF Sensible
<1>4. \A s : ~Counted(n, s)
  BY <1>2 DEF Counted
<1>5. Fresh(n) /\ ~Flying(n)
  BY <1>1, <1>2, <1>3, <1>4 DEF Fresh, Flying
<1> QED BY <1>5 DEF n

LEMMA WriteStatusKeeps ==
  ASSUME SchedulerIInv, NEW w \in Workers, WriteStatus(w)
  PROVE  SchedulerIInv'
<1> DEFINE n == [job[w] EXCEPT !.pc = "assign"]
<1>1. /\ job[w].pc = "status" /\ job' = [job EXCEPT ![w] = n]
      /\ stored' = [stored EXCEPT ![job[w].task].status = {job[w].status}]
      /\ clock' = clock /\ asked' = asked /\ used' = used /\ done' = done
      /\ loaded' = loaded /\ personas' = personas /\ inFlight' = inFlight
  BY DEF WriteStatus, Become, setup, memory
<1>2. Fresh(n) /\ ~Flying(n) /\ job[w].pc # "record" /\ ~Flying(job[w])
  BY <1>1, StepIsFresh DEF Flying
<1>3. job[w].status \in TaskStatuses /\ stored \in [Tasks -> Nodes]
  BY StateIs DEF Jobs
<1>4. stored' \in [Tasks -> Nodes]
  BY <1>1, <1>3 DEF Nodes
<1> HIDE DEF n
<1>5. /\ asked' \in 0..MaxRequests /\ personas' \subseteq Personas /\ loaded' \in Seq(Loads)
      /\ loaded' # <<>> /\ Len(loaded) <= Len(loaded')
  BY <1>1, StateIs
<1>6. FlightHolds(inFlight', job') /\ inFlight' \subseteq Tasks
  BY <1>1, <1>2, Aside
<1> QED BY <1>1, <1>2, <1>4, <1>5, <1>6, PlainTurn

LEMMA DropTaskKeeps ==
  ASSUME SchedulerIInv, NEW w \in Workers, DropTask(w)
  PROVE  SchedulerIInv'
<1> DEFINE n == [job[w] EXCEPT !.pc = "insert"]
<1>1. /\ job[w].pc = "drop" /\ job' = [job EXCEPT ![w] = n]
      /\ stored' = [stored EXCEPT ![job[w].task] = Blank]
      /\ clock' = clock /\ asked' = asked /\ used' = used /\ done' = done
      /\ loaded' = loaded /\ personas' = personas /\ inFlight' = inFlight
  BY DEF DropTask, Become, setup, memory
<1>2. Fresh(n) /\ ~Flying(n) /\ job[w].pc # "record" /\ ~Flying(job[w])
  BY <1>1, StepIsFresh DEF Flying
<1>3. stored \in [Tasks -> Nodes] /\ Blank \in Nodes
  BY StateIs DEF Nodes, Blank
<1>4. stored' \in [Tasks -> Nodes]
  BY <1>1, <1>3
<1> HIDE DEF n
<1>5. /\ asked' \in 0..MaxRequests /\ personas' \subseteq Personas /\ loaded' \in Seq(Loads)
      /\ loaded' # <<>> /\ Len(loaded) <= Len(loaded')
  BY <1>1, StateIs
<1>6. FlightHolds(inFlight', job') /\ inFlight' \subseteq Tasks
  BY <1>1, <1>2, Aside
<1> QED BY <1>1, <1>2, <1>4, <1>5, <1>6, PlainTurn

\* reload() is to read what comes next.
LEMMA ReloadIsFresh ==
  ASSUME NEW pc \in {"tasks", "personas"}, SchedulerIInv
  PROVE  Fresh([Resting EXCEPT !.pc = pc]) /\ ~Flying([Resting EXCEPT !.pc = pc])
<1> DEFINE n == [Resting EXCEPT !.pc = pc]
<1>1. n \in Jobs /\ n.load = 0 /\ n.pc = pc /\ n.left = <<>>
  BY RestingIsFine DEF Jobs, Resting
<1> HIDE DEF n
<1>2. Sensible(n) /\ \A s : ~Counted(n, s)
  BY <1>1, EmptySeq DEF Sensible, Counted
<1>3. Fresh(n) /\ ~Flying(n)
  BY <1>1, <1>2, StateIs DEF Fresh, Flying
<1> QED BY <1>3 DEF n

LEMMA InsertTaskKeeps ==
  ASSUME SchedulerIInv, NEW w \in Workers, InsertTask(w)
  PROVE  SchedulerIInv'
<1> DEFINE n == [Resting EXCEPT !.pc = "tasks"]
           t == job[w].task
<1>1. /\ job[w].pc = "insert" /\ job' = [job EXCEPT ![w] = n]
      /\ stored' = [stored EXCEPT ![t].there = TRUE, ![t].status = @ \cup {job[w].status}]
      /\ clock' = clock /\ asked' = asked /\ used' = used /\ done' = done
      /\ loaded' = loaded /\ personas' = personas /\ inFlight' = inFlight
  BY DEF InsertTask, Become, setup, memory
<1>2. Fresh(n) /\ ~Flying(n) /\ job[w].pc # "record" /\ ~Flying(job[w])
  BY <1>1, ReloadIsFresh DEF Flying
<1>3. /\ job[w].status \in TaskStatuses /\ stored \in [Tasks -> Nodes] /\ t \in Tasks
  BY <1>1, StateIs DEF Jobs, Sensible
<1>4. stored' \in [Tasks -> Nodes]
  <2> DEFINE m == [stored[t] EXCEPT !.there = TRUE, !.status = @ \cup {job[w].status}]
  <2>1. m \in Nodes
    BY <1>3 DEF Nodes
  <2>2. stored' = [stored EXCEPT ![t] = m]
    BY <1>1, <1>3 DEF Nodes
  <2> QED BY <1>3, <2>1, <2>2
<1> HIDE DEF n
<1>5. /\ asked' \in 0..MaxRequests /\ personas' \subseteq Personas /\ loaded' \in Seq(Loads)
      /\ loaded' # <<>> /\ Len(loaded) <= Len(loaded')
  BY <1>1, StateIs
<1>6. FlightHolds(inFlight', job') /\ inFlight' \subseteq Tasks
  BY <1>1, <1>2, Aside
<1> QED BY <1>1, <1>2, <1>4, <1>5, <1>6, PlainTurn

\* A field of a Task object changes.
LEMMA ObjectChanges ==
  ASSUME NEW r \in Loads, NEW t
  PROVE  /\ \A last \in Times : [r EXCEPT ![t].last = last] \in Loads
         /\ \A status \in TaskStatuses : [r EXCEPT ![t].status = status] \in Loads
<1>1. DOMAIN r \in SUBSET Tasks /\ r \in [DOMAIN r -> Objects]
  BY LoadIs
<1>2. ASSUME NEW last \in Times PROVE [r EXCEPT ![t].last = last] \in [DOMAIN r -> Objects]
  BY <1>1 DEF Objects
<1>3. ASSUME NEW status \in TaskStatuses
      PROVE  [r EXCEPT ![t].status = status] \in [DOMAIN r -> Objects]
  BY <1>1 DEF Objects
<1>4. [DOMAIN r -> Objects] \subseteq Loads
  BY <1>1 DEF Loads
<1> QED BY <1>2, <1>3, <1>4

\* One of the readings is changed, and the others stay.
LEMMA ReadingChanges ==
  ASSUME SchedulerIInv, NEW load \in Nat, NEW r,
         loaded[load] \in Loads => r \in Loads
  PROVE  LET new == [loaded EXCEPT ![load] = r] IN
         new \in Seq(Loads) /\ new # <<>> /\ Len(new) = Len(loaded)
<1> DEFINE new == [loaded EXCEPT ![load] = r]
<1>1. /\ Len(loaded) \in Nat /\ Len(loaded) >= 1 /\ loaded \in Seq(Loads)
      /\ DOMAIN loaded = 1..Len(loaded)
  BY StateIs, LenProperties
<1>2. \A i \in 1..Len(loaded) : loaded[i] \in Loads
  BY <1>1, ElementOfSeq
<1>3. new \in [1..Len(loaded) -> Loads]
  BY <1>1, <1>2
<1>4. new \in Seq(Loads)
  BY <1>1, <1>3, SeqDef
<1> HIDE DEF new
<1>5. Len(new) \in Nat /\ DOMAIN new = 1..Len(new)
  BY <1>4, LenProperties
<1>6. Len(new) = Len(loaded)
  BY <1>1, <1>3, <1>5
<1>7. new # <<>>
  BY <1>1, <1>6, EmptySeq
<1> QED BY <1>4, <1>6, <1>7 DEF new

LEMMA AssignStatusKeeps ==
  ASSUME SchedulerIInv, NEW w \in Workers, AssignStatus(w)
  PROVE  SchedulerIInv'
<1> DEFINE load == job[w].load
           r == [loaded[load] EXCEPT ![job[w].task].status = job[w].status]
<1>1. /\ job[w].pc = "assign" /\ job' = [job EXCEPT ![w] = Resting]
      /\ clock' = clock /\ asked' = asked /\ used' = used /\ done' = done
      /\ stored' = stored /\ personas' = personas /\ inFlight' = inFlight
  BY DEF AssignStatus, Become, setup, store
<1>2. loaded' = [loaded EXCEPT ![load] = r]
  BY DEF AssignStatus
<1>3. load \in Nat /\ job[w].status \in TaskStatuses
  BY StateIs DEF Jobs
<1>4. loaded[load] \in Loads => r \in Loads
  BY <1>3, ObjectChanges
<1> HIDE DEF load, r
<1>5. loaded' \in Seq(Loads) /\ loaded' # <<>> /\ Len(loaded') = Len(loaded)
  BY <1>2, <1>3, <1>4, ReadingChanges
<1>6. /\ asked' \in 0..MaxRequests /\ personas' \subseteq Personas /\ stored' \in [Tasks -> Nodes]
      /\ Len(loaded) <= Len(loaded') /\ job[w].pc # "record" /\ ~Flying(job[w])
  BY <1>1, <1>5, StateIs DEF Flying
<1> QED BY <1>1, <1>5, <1>6, RestingIsFresh, Aside, PlainTurn

LEMMA TouchKeeps ==
  ASSUME SchedulerIInv, NEW w \in Workers, Touch(w)
  PROVE  SchedulerIInv'
<1> DEFINE load == job[w].load
           t == job[w].task
           r == [loaded[load] EXCEPT ![t].last = job[w].firedAt]
<1>1. /\ job[w].pc = "touch" /\ Finish(w)
      /\ stored' = [stored EXCEPT ![t].last = job[w].firedAt]
      /\ clock' = clock /\ asked' = asked /\ used' = used /\ done' = done /\ personas' = personas
  BY DEF Touch, setup
<1>2. loaded' = [loaded EXCEPT ![load] = r]
  BY DEF Touch
<1>3. load \in Nat /\ job[w].firedAt \in Times /\ stored \in [Tasks -> Nodes]
  BY StateIs DEF Jobs
<1>4. loaded[load] \in Loads => r \in Loads
  BY <1>3, ObjectChanges
<1>5. stored' \in [Tasks -> Nodes]
  BY <1>1, <1>3 DEF Nodes
<1> HIDE DEF load, r, t
<1>6. loaded' \in Seq(Loads) /\ loaded' # <<>> /\ Len(loaded') = Len(loaded)
  BY <1>2, <1>3, <1>4, ReadingChanges
<1>7. /\ asked' \in 0..MaxRequests /\ personas' \subseteq Personas
      /\ Len(loaded) <= Len(loaded') /\ job[w].pc # "record" /\ ~Flying(job[w])
  BY <1>1, <1>6, StateIs DEF Flying
<1>8. PICK n : /\ Fresh(n) /\ job' = [job EXCEPT ![w] = n]
               /\ FlightHolds(inFlight', job') /\ inFlight' \subseteq Tasks
  BY <1>1, <1>7, Finishes
<1> QED BY <1>1, <1>5, <1>6, <1>7, <1>8, PlainTurn

\* Whom an unbooked firing was counted for is named by its task.
LEMMA BookedForNamed ==
  ASSUME SchedulerIInv, NEW w \in Workers, NEW s \in Limited, NEW d \in Days,
         job[w].pc = "record", CountedOn(job[w], s, d)
  PROVE  Unbooked(w) /\ s \in Named(job[w].task) /\ d = Day(job[w].firedAt)
<1>1. job[w].persona \in {PersonaOf[job[w].task], NoPersona}
  BY StateIs DEF Sensible
<1>2. SubjectsOf(job[w].task, job[w].persona) \subseteq Named(job[w].task)
  BY <1>1, SubjectsAreNamed
<1> QED BY <1>2 DEF CountedOn, Counted, Unbooked

LEMMA CannotRecordKeeps ==
  ASSUME SchedulerIInv, NEW w \in Workers, CannotRecord(w)
  PROVE  SchedulerIInv'
<1>1. /\ job[w].pc \in {"record", "touch"} /\ Finish(w)
      /\ done' = IF Unbooked(w) THEN Forget(w, Named(job[w].task)) ELSE done
      /\ clock' = clock /\ asked' = asked /\ used' = used /\ stored' = stored
      /\ personas' = personas /\ loaded' = loaded
  BY DEF CannotRecord, setup, store
<1>2. ~Flying(job[w])
  BY <1>1 DEF Flying
<1>3. PICK n : /\ Fresh(n) /\ job' = [job EXCEPT ![w] = n]
               /\ FlightHolds(inFlight', job') /\ inFlight' \subseteq Tasks
  BY <1>1, <1>2, Finishes
<1>4. SchedulerTypeOK /\ Accounts(done, used)
  BY StateIs
<1>5. Accounts(done', used)
      /\ \A s \in Limited, d \in Days : done'[s][d] \in {done[s][d], Uncertain}
  BY <1>1, <1>4, Forgets DEF Accounts
<1>6. ASSUME NEW s \in Limited, NEW d \in Days, job[w].pc = "record" /\ CountedOn(job[w], s, d)
      PROVE  done'[s][d] = Uncertain
  BY <1>1, <1>4, <1>6, BookedForNamed, Forgets
<1>7. /\ asked' \in 0..MaxRequests /\ personas' \subseteq Personas /\ stored' \in [Tasks -> Nodes]
      /\ loaded' \in Seq(Loads) /\ loaded' # <<>> /\ Len(loaded) <= Len(loaded')
  BY <1>1, StateIs
<1> QED BY <1>1, <1>3, <1>5, <1>6, <1>7, QuietTurn

-----------------------------------------------------------------------------
(* The registry is read.                                                   *)

\* What Store.tasks answers is a well-formed reading.
LEMMA ReadingsAreLoads ==
  ASSUME SchedulerIInv, NEW tasks \in Readings
  PROVE  tasks \in Loads
<1>1. stored \in [Tasks -> Nodes]
  BY StateIs
<1>2. [t \in {} |-> Uncertain] \in Loads
  BY DEF Loads
<1>3. ASSUME NEW status \in [Tasks -> TaskStatuses] PROVE Reading(status) \in Loads
  <2>1. There \in SUBSET Tasks
    BY DEF There
  <2>2. \A t \in There : stored[t].last \in Times \cup {Never}
    BY <1>1, <2>1 DEF Nodes
  <2>3. Reading(status) \in [There -> Objects]
    BY <2>1, <2>2 DEF Reading, Objects
  <2> QED BY <2>1, <2>3 DEF Loads
<1> QED BY <1>2, <1>3 DEF Readings

LEMMA ReadTasksKeeps ==
  ASSUME SchedulerIInv, NEW w \in Workers, ReadTasks(w), asked' \in 0..MaxRequests,
         job[w].pc \in {"idle", "tasks"}
  PROVE  SchedulerIInv'
<1> DEFINE n == [Resting EXCEPT !.pc = "personas"]
<1>1. PICK tasks \in Readings : loaded' = Append(loaded, tasks)
  BY DEF ReadTasks
<1>2. /\ job' = [job EXCEPT ![w] = n] /\ clock' = clock /\ used' = used /\ done' = done
      /\ stored' = stored /\ personas' = personas /\ inFlight' = inFlight
  BY DEF ReadTasks, Become, store
<1>3. Fresh(n) /\ ~Flying(n) /\ job[w].pc # "record" /\ ~Flying(job[w])
  BY ReloadIsFresh DEF Flying
<1> HIDE DEF n
<1>4. loaded \in Seq(Loads) /\ Len(loaded) \in Nat /\ tasks \in Loads
  BY <1>1, StateIs, ReadingsAreLoads
<1>5. loaded' \in Seq(Loads) /\ Len(loaded') = Len(loaded) + 1
  BY <1>1, <1>4, AppendProperties
<1>6. loaded' # <<>> /\ Len(loaded) <= Len(loaded')
  BY <1>4, <1>5, EmptySeq
<1>7. stored' \in [Tasks -> Nodes] /\ personas' \subseteq Personas
  BY <1>2, StateIs
<1>8. FlightHolds(inFlight', job') /\ inFlight' \subseteq Tasks
  BY <1>2, <1>3, Aside
<1> QED BY <1>2, <1>3, <1>5, <1>6, <1>7, <1>8, PlainTurn

LEMMA ReloadPersonasKeeps ==
  ASSUME SchedulerIInv, NEW w \in Workers, ReloadPersonas(w)
  PROVE  SchedulerIInv'
<1>1. /\ job[w].pc # "record" /\ ~Flying(job[w]) /\ job' = [job EXCEPT ![w] = Resting]
      /\ personas' \subseteq Personas
      /\ clock' = clock /\ asked' = asked /\ used' = used /\ done' = done
      /\ stored' = stored /\ loaded' = loaded /\ inFlight' = inFlight
  BY DEF ReloadPersonas, Become, setup, store, Flying
<1>2. /\ asked' \in 0..MaxRequests /\ stored' \in [Tasks -> Nodes] /\ loaded' \in Seq(Loads)
      /\ loaded' # <<>> /\ Len(loaded) <= Len(loaded')
  BY <1>1, StateIs
<1> QED BY <1>1, <1>2, RestingIsFresh, Aside, PlainTurn

LEMMA PassKeeps ==
  ASSUME SchedulerIInv, Pass
  PROVE  SchedulerIInv'
<1>1. /\ clock < Horizon /\ clock' = clock + 1 /\ asked' = asked /\ stored' = stored /\ used' = used
      /\ loaded' = loaded /\ personas' = personas /\ inFlight' = inFlight
      /\ job' = job /\ done' = done
  BY DEF Pass, store, memory
<1>2. clock' \in Times
  BY <1>1, StateIs, SchedulerAssumption DEF Times
<1> QED BY <1>1, <1>2 DEF SchedulerIInv, SchedulerTypeOK, JobsAreSensible, InFlightIsRunning,
      Running, LimitsHold

\* With nobody counted the record holds what is known.
LEMMA LimitsAtRest ==
  ASSUME NEW s \in Limited, NEW d \in Days, NEW x, NEW u \in Nat,
         x # Uncertain => x \in Nat /\ x <= Limit[s] /\ x <= u,
         NEW jobs, \A w \in Workers : jobs[w] = Resting
  PROVE  LimitHolds(s, d, x, u, jobs)
<1>1. \A w \in Workers : ~CountedOn(jobs[w], s, d)
  BY RestingIsFine DEF CountedOn
<1> QED BY <1>1 DEF LimitHolds

\* The process dies with firings that have no record yet: they are forgotten.
LEMMA RestartKeeps ==
  ASSUME SchedulerIInv, Restart
  PROVE  SchedulerIInv'
<1> DEFINE Lost(s, d) == \E w \in Workers : /\ Unbooked(w) /\ s \in Named(job[w].task)
                                            /\ d = Day(job[w].firedAt)
<1>1. /\ asked < MaxRequests /\ asked' = asked + 1 /\ personas' \in {Personas, {}}
      /\ inFlight' = {} /\ job' = [w \in Workers |-> Resting]
      /\ clock' = clock /\ stored' = stored /\ used' = used
  BY DEF Restart, store
<1>2. done' = [s \in Limited |-> [d \in Days |-> IF Lost(s, d) THEN Uncertain ELSE done[s][d]]]
  BY DEF Restart
<1>3. PICK tasks \in Readings : loaded' = <<tasks>>
  BY DEF Restart
<1>4. Accounts(done, used) /\ asked \in 0..MaxRequests /\ MaxRequests \in Nat /\ SchedulerTypeOK
  BY StateIs, SchedulerAssumption
<1> HIDE DEF Lost
<1>5. Accounts(done', used')
  BY <1>1, <1>2, <1>4 DEF Accounts
<1>6. tasks \in Loads
  BY ReadingsAreLoads
<1>7. loaded' \in Seq(Loads) /\ loaded' # <<>> /\ Len(loaded') = 1
  BY <1>3, <1>6
<1>8. job' \in [Workers -> Jobs] /\ \A v \in Workers : job'[v] = Resting
  BY <1>1, RestingIsFine
<1>9. \A v \in Workers : job'[v].load \in 0..Len(loaded')
  BY <1>7, <1>8, RestingIsFine
<1>10. JobsAreSensible'
  BY <1>8, RestingIsFine DEF JobsAreSensible
<1>11. FlightHolds(inFlight', job')
  BY <1>1, <1>8, RestingIsFine DEF FlightHolds, Flying
<1>12. ASSUME NEW s \in Limited, NEW d \in Days
       PROVE  LimitHolds(s, d, done'[s][d], used'[s][d], job')
  <2>1. used'[s][d] \in Nat /\ done[s][d] \in Nat \cup {Uncertain} /\ used'[s][d] = used[s][d]
    BY <1>1, <1>4 DEF Accounts
  <2>2. CASE Lost(s, d)
    <3>1. done'[s][d] = Uncertain
      BY <1>2, <2>2
    <3> QED BY <3>1 DEF LimitHolds
  <2>3. CASE ~Lost(s, d)
    <3>1. done'[s][d] = done[s][d]
      BY <1>2, <2>3
    <3>2. ASSUME NEW w \in Workers, CountedOn(job[w], s, d) PROVE job[w].pc # "record"
      BY <2>3, <3>2, BookedForNamed DEF Lost
    <3>3. LimitHolds(s, d, done[s][d], used[s][d], job)
      BY DEF SchedulerIInv, LimitsHold
    <3>4. done[s][d] # Uncertain => done[s][d] <= Limit[s] /\ done[s][d] <= used[s][d]
      BY <3>2, <3>3 DEF LimitHolds
    <3>5. done'[s][d] # Uncertain =>
            done'[s][d] \in Nat /\ done'[s][d] <= Limit[s] /\ done'[s][d] <= used'[s][d]
      BY <2>1, <3>1, <3>4
    <3> QED BY <1>8, <2>1, <3>5, LimitsAtRest
  <2> QED BY <2>2, <2>3
<1>13. LimitsHold'
  BY <1>12 DEF LimitsHold
<1>14. /\ clock' \in Times /\ stored' \in [Tasks -> Nodes] /\ personas' \subseteq Personas
       /\ inFlight' \subseteq Tasks /\ asked' \in 0..MaxRequests
  BY <1>1, <1>4, StateIs
<1> QED BY <1>5, <1>7, <1>8, <1>9, <1>10, <1>11, <1>13, <1>14, Together

-----------------------------------------------------------------------------
(* A firing: its gates, its action and its record.                         *)

\* A firing that runs leaves the gates or the action, and is to be recorded.
Left(j, outcome, units) ==
  [j EXCEPT !.pc = "record", !.outcome = outcome, !.units = units,
            !.left = <<>>, !.allowance = Unlimited]

\* It keeps its task, persona, source and time.
LEMMA LeftIs ==
  ASSUME SchedulerIInv, NEW w \in Workers, Flying(job[w]), NEW outcome \in Outcomes,
         NEW units \in Nat
  PROVE  /\ Left(job[w], outcome, units) \in Jobs /\ Sensible(Left(job[w], outcome, units))
         /\ Left(job[w], outcome, units).load \in 0..Len(loaded)
         /\ Left(job[w], outcome, units).pc = "record"
         /\ Left(job[w], outcome, units).outcome = outcome
         /\ Left(job[w], outcome, units).units = units
         /\ Left(job[w], outcome, units).source = job[w].source
         /\ Left(job[w], outcome, units).task = job[w].task
         /\ Left(job[w], outcome, units).persona = job[w].persona
         /\ Left(job[w], outcome, units).firedAt = job[w].firedAt
<1>1. job[w] \in Jobs /\ Sensible(job[w]) /\ job[w].load \in 0..Len(loaded)
  BY StateIs
<1> DEFINE n == Left(job[w], outcome, units)
<1>2. n \in Jobs
  <2>1. <<>> \in Seq(Subjects)
    BY EmptySeq
  <2> QED BY <1>1, <2>1 DEF Left, Jobs
<1>3. /\ n.pc = "record" /\ n.outcome = outcome /\ n.units = units /\ n.left = <<>>
      /\ n.allowance = Unlimited /\ n.load = job[w].load /\ n.source = job[w].source
      /\ n.task = job[w].task /\ n.persona = job[w].persona /\ n.firedAt = job[w].firedAt
  BY <1>1 DEF Left, Jobs
<1> HIDE DEF n
<1>4. Sensible(n)
  BY <1>1, <1>3, EmptySeq DEF Sensible, Flying
<1> QED BY <1>1, <1>2, <1>3, <1>4 DEF n

\* Its task is not running any more.
LEMMA LeavesFlight ==
  ASSUME SchedulerIInv, NEW w \in Workers, Flying(job[w]), NEW outcome \in Outcomes,
         NEW units \in Nat, Leave(w, outcome, units)
  PROVE  /\ job' = [job EXCEPT ![w] = Left(job[w], outcome, units)]
         /\ FlightHolds(inFlight', job') /\ inFlight' \subseteq Tasks
<1>1. /\ job' = [job EXCEPT ![w] = Left(job[w], outcome, units)]
      /\ inFlight' = inFlight \ {job[w].task}
  BY DEF Leave, Become, Left
<1> DEFINE n == Left(job[w], outcome, units)
<1>2. n \in Jobs /\ ~Flying(n)
  BY LeftIs DEF Flying
<1> HIDE DEF n
<1>3. FlightHolds(inFlight \ {job[w].task}, [job EXCEPT ![w] = n])
  BY <1>2, StateIs, FlightEnds
<1> QED BY <1>1, <1>3, StateIs DEF n

\* It leaves them with nothing to bill.
LEMMA LeavesUnbilled ==
  ASSUME SchedulerIInv, NEW w \in Workers, Flying(job[w]), NEW outcome \in Outcomes \ {"committed"},
         Leave(w, outcome, 0), UNCHANGED <<setup, store, loaded, personas>>,
         Accounts(done', used),
         \A s \in Limited, d \in Days : done'[s][d] \in {done[s][d], Uncertain}
  PROVE  SchedulerIInv'
<1> DEFINE n == Left(job[w], outcome, 0)
<1>1. job' = [job EXCEPT ![w] = n] /\ FlightHolds(inFlight', job') /\ inFlight' \subseteq Tasks
  BY LeavesFlight
<1>2. /\ n \in Jobs /\ Sensible(n) /\ n.load \in 0..Len(loaded)
      /\ n.pc = "record" /\ n.outcome = outcome
  BY LeftIs
<1> HIDE DEF n
<1>3. Fresh(n)
  BY <1>2 DEF Fresh, Counted
<1>4. /\ clock' = clock /\ asked' = asked /\ used' = used /\ stored' = stored
      /\ personas' = personas /\ loaded' = loaded
  BY DEF setup, store
<1>5. /\ asked' \in 0..MaxRequests /\ personas' \subseteq Personas /\ stored' \in [Tasks -> Nodes]
      /\ loaded' \in Seq(Loads) /\ loaded' # <<>> /\ Len(loaded) <= Len(loaded')
      /\ job[w].pc # "record"
  BY <1>4, StateIs DEF Flying
<1> QED BY <1>1, <1>3, <1>4, <1>5, QuietTurn

LEMMA CannotCountKeeps ==
  ASSUME SchedulerIInv, NEW w \in Workers, CannotCount(w)
  PROVE  SchedulerIInv'
<1>1. /\ Flying(job[w]) /\ Leave(w, "unbilled", 0) /\ done' = done
      /\ UNCHANGED <<setup, store, loaded, personas>>
  BY DEF CannotCount, Flying
<1> QED BY <1>1, LeavesUnbilled, StateIs DEF Outcomes

LEMMA DeclineKeeps ==
  ASSUME SchedulerIInv, NEW w \in Workers, Decline(w)
  PROVE  SchedulerIInv'
<1>1. /\ Flying(job[w]) /\ done' = done /\ UNCHANGED <<setup, store, loaded, personas>>
  BY DEF Decline, Flying
<1>2. PICK outcome \in {"deferred", "unbilled"} : Leave(w, outcome, 0)
  BY DEF Decline
<1> QED BY <1>1, <1>2, LeavesUnbilled, StateIs DEF Outcomes

LEMMA FailLateKeeps ==
  ASSUME SchedulerIInv, NEW w \in Workers, FailLate(w)
  PROVE  SchedulerIInv'
<1>1. /\ Flying(job[w]) /\ Leave(w, "unbilled", 0)
      /\ done' = IF job[w].source = "manual" THEN done ELSE Forget(w, Named(job[w].task))
      /\ UNCHANGED <<setup, store, loaded, personas>>
  BY DEF FailLate, Flying
<1>2. SchedulerTypeOK /\ Accounts(done, used)
  BY StateIs
<1>3. Accounts(done', used)
      /\ \A s \in Limited, d \in Days : done'[s][d] \in {done[s][d], Uncertain}
  BY <1>1, <1>2, Forgets DEF Accounts
<1> QED BY <1>1, <1>3, LeavesUnbilled DEF Outcomes

\* A firing is recorded: the record grows by what it used.
LEMMA LimitsRecorded ==
  ASSUME NEW s \in Limited, NEW d \in Days, NEW x \in Int, NEW u \in Nat,
         NEW jobs \in [Workers -> Jobs],
         LimitHolds(s, d, x, u, jobs), NEW w \in Workers, NEW n \in Jobs, ~Counted(n, s),
         NEW v \in Nat, u <= v,
         CountedOn(jobs[w], s, d) /\ jobs[w].pc = "record" => v = u + jobs[w].units
  PROVE  LimitHolds(s, d, x, v, [jobs EXCEPT ![w] = n])
<1> DEFINE new == [jobs EXCEPT ![w] = n]
<1>1. new[w] = n /\ \A k \in Workers : k # w => new[k] = jobs[k]
  OBVIOUS
<1>2. \A k \in Workers : CountedOn(new[k], s, d) => k # w /\ new[k] = jobs[k]
  BY DEF CountedOn
<1>3. \A k \in Workers : jobs[k].units \in Nat
  BY DEF Jobs
<1> HIDE DEF new
<1> SUFFICES ASSUME x # Uncertain PROVE LimitHolds(s, d, x, v, new)
  BY DEF LimitHolds, new
<1>4. \A k \in Workers : CountedOn(new[k], s, d) /\ new[k].pc = "record" => x <= v + new[k].units
  <2> SUFFICES ASSUME NEW k \in Workers, CountedOn(new[k], s, d), new[k].pc = "record"
               PROVE  x <= v + new[k].units
    OBVIOUS
  <2>1. new[k] = jobs[k] /\ x <= u + jobs[k].units /\ jobs[k].units \in Nat
    BY <1>2, <1>3 DEF LimitHolds
  <2> QED BY <2>1
<1>5. (\A k \in Workers : CountedOn(new[k], s, d) => new[k].pc # "record") => x <= v
  <2> SUFFICES ASSUME \A k \in Workers : CountedOn(new[k], s, d) => new[k].pc # "record"
               PROVE  x <= v
    OBVIOUS
  <2>1. CASE CountedOn(jobs[w], s, d) /\ jobs[w].pc = "record"
    BY <2>1 DEF LimitHolds
  <2>2. CASE ~(CountedOn(jobs[w], s, d) /\ jobs[w].pc = "record")
    <3>1. \A k \in Workers : CountedOn(jobs[k], s, d) => jobs[k].pc # "record"
      BY <1>1, <2>2
    <3>2. x <= u
      BY <3>1 DEF LimitHolds
    <3> QED BY <3>2
  <2> QED BY <2>1, <2>2
<1> QED BY <1>2, <1>4, <1>5 DEF LimitHolds

LEMMA RecordFiringKeeps ==
  ASSUME SchedulerIInv, NEW w \in Workers, RecordFiring(w)
  PROVE  SchedulerIInv'
<1> DEFINE e == Day(job[w].firedAt)
           subjects == SubjectsOf(job[w].task, job[w].persona)
           touch == [job[w] EXCEPT !.pc = "touch", !.outcome = "none", !.units = 0]
<1>1. /\ job[w].pc = "record"
      /\ used' = [s \in Limited |-> [used[s] EXCEPT ![e] =
                    IF Billed(w) /\ s \in subjects THEN @ + job[w].units ELSE @]]
      /\ clock' = clock /\ asked' = asked /\ stored' = stored /\ loaded' = loaded
      /\ personas' = personas /\ done' = done
  BY DEF RecordFiring, setup
<1>2. \/ Finish(w)
      \/ job' = [job EXCEPT ![w] = touch] /\ inFlight' = inFlight
  BY DEF RecordFiring, Become
<1>3. job[w] \in Jobs /\ Sensible(job[w]) /\ job[w].load \in 0..Len(loaded) /\ ~Flying(job[w])
  BY <1>1, StateIs DEF Flying
<1>4. PICK n : /\ Fresh(n) /\ job' = [job EXCEPT ![w] = n]
               /\ FlightHolds(inFlight', job') /\ inFlight' \subseteq Tasks
  <2>1. CASE Finish(w)
    BY <1>3, <2>1, Finishes
  <2>2. CASE job' = [job EXCEPT ![w] = touch] /\ inFlight' = inFlight
    <3>1. /\ touch \in Jobs /\ touch.load = job[w].load /\ touch.pc = "touch"
          /\ touch.left = job[w].left /\ touch.task = job[w].task /\ touch.persona = job[w].persona
      BY <1>3 DEF Jobs, Outcomes
    <3> HIDE DEF touch
    <3>2. Fresh(touch) /\ ~Flying(touch)
      BY <1>1, <1>3, <3>1 DEF Fresh, Sensible, Counted, Flying
    <3> QED BY <1>3, <2>2, <3>2, Aside
  <2> QED BY <1>2, <2>1, <2>2
<1>5. Accounts(done, used) /\ job \in [Workers -> Jobs] /\ job[w].units \in Nat /\ e \in Days
  BY <1>3, StateIs, DayOfTime DEF Jobs
<1> HIDE DEF e, subjects
<1>6. ASSUME NEW s \in Limited, NEW d \in Days
      PROVE  /\ used'[s][d] \in Nat /\ used[s][d] <= used'[s][d]
             /\ d = e /\ Billed(w) /\ s \in subjects => used'[s][d] = used[s][d] + job[w].units
  BY <1>1, <1>5 DEF Accounts
<1>7. Accounts(done', used')
  BY <1>1, <1>5 DEF Accounts
<1>8. n \in Jobs /\ Sensible(n) /\ n.load \in 0..Len(loaded) /\ \A s \in Limited : ~Counted(n, s)
  BY <1>4 DEF Fresh
<1>9. ASSUME NEW s \in Limited, NEW d \in Days
      PROVE  LimitHolds(s, d, done'[s][d], used'[s][d], job')
  <2>1. LimitHolds(s, d, done[s][d], used[s][d], job)
    BY DEF SchedulerIInv, LimitsHold
  <2>2. CountedOn(job[w], s, d) => d = e /\ Billed(w) /\ s \in subjects
    BY <1>1 DEF CountedOn, Counted, Billed, e, subjects
  <2> DEFINE x == done[s][d]
             u == used[s][d]
             v == used'[s][d]
  <2>3. x \in Int /\ u \in Nat
    BY <1>5 DEF Accounts, Uncertain
  <2>4. /\ v \in Nat /\ u <= v
        /\ CountedOn(job[w], s, d) /\ job[w].pc = "record" => v = u + job[w].units
    BY <1>6, <2>2
  <2>5. LimitHolds(s, d, x, u, job)
    BY <2>1
  <2>6. done'[s][d] = x
    BY <1>1
  <2> HIDE DEF x, u, v
  <2>7. LimitHolds(s, d, x, v, [job EXCEPT ![w] = n])
    BY <1>5, <1>8, <2>3, <2>4, <2>5, LimitsRecorded
  <2> QED BY <1>4, <2>6, <2>7 DEF v
<1>10. LimitsHold'
  BY <1>9 DEF LimitsHold
<1>11. /\ job' \in [Workers -> Jobs] /\ job'[w] = n /\ \A k \in Workers : k # w => job'[k] = job[k]
  BY <1>4, <1>5, <1>8
<1>12. JobsAreSensible' /\ \A k \in Workers : job'[k].load \in 0..Len(loaded')
  BY <1>1, <1>8, <1>11, StateIs DEF JobsAreSensible
<1>13. /\ asked' \in 0..MaxRequests /\ personas' \subseteq Personas /\ stored' \in [Tasks -> Nodes]
       /\ loaded' \in Seq(Loads) /\ loaded' # <<>> /\ clock' \in Times
  BY <1>1, StateIs
<1> QED BY <1>4, <1>7, <1>10, <1>11, <1>12, <1>13, Together

\* A counted firing uses k units, no more than it is allowed.
LEMMA LimitsSpent ==
  ASSUME NEW s \in Limited, NEW d \in Days, NEW x \in Nat, NEW u \in Nat,
         NEW jobs \in [Workers -> Jobs], LimitHolds(s, d, x, u, jobs),
         NEW w \in Workers, CountedOn(jobs[w], s, d), jobs[w].pc # "record",
         NEW n \in Jobs, n.pc = "record", CountedOn(n, s, d), NEW k \in Nat, n.units = k,
         jobs[w].allowance # Unlimited => k <= jobs[w].allowance
  PROVE  LimitHolds(s, d, x + k, u, [jobs EXCEPT ![w] = n])
<1> DEFINE new == [jobs EXCEPT ![w] = n]
<1>1. new[w] = n /\ \A v \in Workers : v # w => new[v] = jobs[v]
  OBVIOUS
<1> HIDE DEF new
<1>2. x # Uncertain
  BY DEF Uncertain
<1>3. \A v \in Workers : CountedOn(jobs[v], s, d) => v = w
  BY <1>2 DEF LimitHolds
<1>4. /\ jobs[w].allowance # Unlimited /\ jobs[w].allowance \in Nat
      /\ x + jobs[w].allowance <= Limit[s]
  BY <1>2 DEF LimitHolds, Jobs
<1>5. x <= u
  BY <1>2, <1>3 DEF LimitHolds
<1>6. \A v \in Workers : CountedOn(new[v], s, d) => v = w
  BY <1>1, <1>3
<1>7. Limit[s] \in Nat
  BY SchedulerAssumption DEF Limited
<1>8. x + k <= Limit[s]
  BY <1>4, <1>7
<1>9. x + k <= u + n.units
  BY <1>5
<1>10. LimitHolds(s, d, x + k, u, new)
  BY <1>1, <1>6, <1>8, <1>9 DEF LimitHolds
<1> QED BY <1>10 DEF new

\* No firing uses more than it is allowed.
LEMMA AmountsAllowed ==
  ASSUME SchedulerIInv, NEW w \in Workers, job[w].pc = "execute", NEW k \in Amounts(w)
  PROVE  k \in Nat /\ Units(w, k) \in Nat
         /\ (job[w].source = "scheduled" => Units(w, k) = k)
         /\ (job[w].allowance # Unlimited => k <= job[w].allowance)
<1>1. /\ job[w].allowance \in Nat \cup {Unlimited} /\ job[w].allowance # 0
  BY StateIs DEF Jobs, Sensible
<1>2. Batch \in Nat /\ Unlimited \notin Int
  BY SchedulerAssumption
<1>3. CASE job[w].task \in Dispatches
  BY <1>1, <1>2, <1>3 DEF Amounts, CallsAllowed, Units
<1>4. CASE job[w].task \notin Dispatches
  BY <1>1, <1>2, <1>4 DEF Amounts, Units
<1> QED BY <1>3, <1>4

LEMMA RunTaskKeeps ==
  ASSUME SchedulerIInv, NEW w \in Workers, RunTask(w)
  PROVE  SchedulerIInv'
<1>1. job[w].pc = "execute" /\ UNCHANGED <<setup, store, loaded, personas>> /\ Flying(job[w])
  BY DEF RunTask, Flying
<1>2. PICK k \in Amounts(w) : Leave(w, "committed", Units(w, k)) /\ Spend(w, k)
  BY DEF RunTask
<1> DEFINE n == Left(job[w], "committed", Units(w, k))
           e == Day(job[w].firedAt)
           t == job[w].task
           told == SubjectsOf(t, job[w].persona)
<1>3. /\ k \in Nat /\ Units(w, k) \in Nat
      /\ job[w].source = "scheduled" => Units(w, k) = k
      /\ job[w].allowance # Unlimited => k <= job[w].allowance
  BY <1>1, AmountsAllowed
<1>4. job' = [job EXCEPT ![w] = n] /\ FlightHolds(inFlight', job') /\ inFlight' \subseteq Tasks
  BY <1>1, <1>2, <1>3, LeavesFlight DEF Outcomes
<1>5. /\ n \in Jobs /\ Sensible(n) /\ n.load \in 0..Len(loaded) /\ n.pc = "record"
      /\ n.outcome = "committed" /\ n.units = Units(w, k) /\ n.source = job[w].source
      /\ n.task = t /\ n.persona = job[w].persona /\ n.firedAt = job[w].firedAt
  <2>1. "committed" \in Outcomes
    BY DEF Outcomes
  <2> DEFINE units == Units(w, k)
  <2>2. units \in Nat
    BY <1>3
  <2> HIDE DEF units
  <2> QED BY <1>1, <2>1, <2>2, LeftIs DEF units
<1>6. /\ clock' = clock /\ asked' = asked /\ used' = used /\ stored' = stored
      /\ personas' = personas /\ loaded' = loaded
  BY <1>1 DEF setup, store
<1>7. /\ asked' \in 0..MaxRequests /\ personas' \subseteq Personas /\ stored' \in [Tasks -> Nodes]
      /\ loaded' \in Seq(Loads) /\ loaded' # <<>> /\ Len(loaded) <= Len(loaded')
      /\ clock' \in Times /\ job[w].pc # "record"
  BY <1>1, <1>6, StateIs
<1>8. Accounts(done, used) /\ job \in [Workers -> Jobs] /\ SchedulerTypeOK /\ job[w] \in Jobs
      /\ t \in Tasks
  BY <1>1, StateIs DEF Sensible
<1>9. CASE job[w].source = "manual"
  <2>1. done' = done
    BY <1>2, <1>9 DEF Spend
  <2>2. Fresh(n)
    BY <1>5, <1>9 DEF Fresh, Counted
  <2> HIDE DEF n
  <2> QED BY <1>4, <1>6, <1>7, <1>8, <2>1, <2>2, QuietTurn
<1>10. CASE job[w].source = "scheduled"
  <2> DEFINE f == Forget(w, Named(t) \ told)
  <2>1. done' = [s \in Limited |-> [f[s] EXCEPT ![e] =
                  IF s \in told /\ @ # Uncertain THEN @ + k ELSE @]]
    BY <1>2, <1>10 DEF Spend
  <2>2. /\ f \in [Limited -> [Days -> Nat \cup {Uncertain}]]
        /\ \A s \in Limited, d \in Days : f[s][d] \in {done[s][d], Uncertain}
        /\ \A s \in Limited, d \in Days : s \in told => f[s][d] = done[s][d]
    BY <1>8, Forgets
  <2>3. e \in Days
    BY <1>8, DayOfTime DEF Jobs
  <2> HIDE DEF f, n, e, told
  <2>4. Accounts(done', used')
    BY <1>3, <1>6, <1>8, <2>1, <2>2, <2>3 DEF Accounts
  <2>5. \A s \in Limited : Counted(n, s) <=> s \in told
    BY <1>5, <1>8, <1>10, SchedulerAssumption DEF Counted, told
  <2>6. \A s \in Limited : Counted(job[w], s) <=> s \in told
    BY <1>1, <1>8, <1>10, SchedulerAssumption DEF Counted, told
  <2>7. ASSUME NEW s \in Limited, NEW d \in Days
        PROVE  LimitHolds(s, d, done'[s][d], used'[s][d], job')
    <3>1. LimitHolds(s, d, done[s][d], used[s][d], job) /\ used'[s][d] = used[s][d]
      BY <1>6 DEF SchedulerIInv, LimitsHold
    <3> DEFINE x == done[s][d]
               u == used[s][d]
               y == done'[s][d]
    <3>2. LimitHolds(s, d, x, u, job) /\ u \in Nat
      BY <1>8, <3>1 DEF Accounts
    <3>3. CASE s \in told /\ d = e /\ x # Uncertain
      <4>1. y = x + k /\ x \in Nat
        BY <1>8, <2>1, <2>2, <2>3, <3>3 DEF Accounts
      <4>2. CountedOn(job[w], s, d) /\ CountedOn(n, s, d)
        BY <1>5, <2>5, <2>6, <3>3 DEF CountedOn, e
      <4> HIDE DEF x, u, y
      <4>3. LimitHolds(s, d, x + k, u, [job EXCEPT ![w] = n])
        BY <1>3, <1>5, <1>7, <1>8, <1>10, <3>2, <4>1, <4>2, LimitsSpent
      <4> QED BY <1>4, <3>1, <4>1, <4>3 DEF y, u
    <3>4. CASE s \in told /\ d = e /\ x = Uncertain
      <4>1. y = Uncertain
        BY <2>1, <2>2, <2>3, <3>4
      <4> QED BY <4>1 DEF LimitHolds
    <3>5. CASE ~(s \in told /\ d = e)
      <4>1. y = x \/ y = Uncertain
        BY <2>1, <2>2, <2>3, <3>5
      <4>2. ~CountedOn(n, s, d)
        BY <1>5, <2>5, <3>5 DEF CountedOn, e
      <4> HIDE DEF x, u, y
      <4>3. LimitHolds(s, d, y, u, [job EXCEPT ![w] = n])
        BY <1>5, <1>7, <1>8, <3>2, <4>1, <4>2, LimitsKept
      <4> QED BY <1>4, <3>1, <4>3 DEF y, u
    <3> QED BY <3>3, <3>4, <3>5
  <2>8. LimitsHold'
    BY <2>7 DEF LimitsHold
  <2>9. /\ job' \in [Workers -> Jobs] /\ job'[w] = n /\ \A v \in Workers : v # w => job'[v] = job[v]
    BY <1>4, <1>5, <1>8
  <2>10. JobsAreSensible' /\ \A v \in Workers : job'[v].load \in 0..Len(loaded')
    BY <1>5, <1>6, <2>9, StateIs DEF JobsAreSensible
  <2> QED BY <1>4, <1>7, <2>4, <2>8, <2>9, <2>10, Together
<1> QED BY <1>8, <1>9, <1>10 DEF Jobs, Sources

\* The gate asks for one subject more.
LEMMA LimitsCounted ==
  ASSUME NEW s \in Limited, NEW d \in Days, NEW x \in Nat, NEW u \in Nat,
         NEW jobs \in [Workers -> Jobs], LimitHolds(s, d, x, u, jobs),
         NEW w \in Workers, jobs[w].pc # "record", NEW n \in Jobs, n.pc # "record",
         CountedOn(n, s, d) =>
           \/ /\ CountedOn(jobs[w], s, d)
              /\ jobs[w].allowance # Unlimited =>
                   n.allowance # Unlimited /\ n.allowance <= jobs[w].allowance
           \/ /\ \A v \in Workers : v # w => ~CountedOn(jobs[v], s, d)
              /\ n.allowance # Unlimited /\ u + n.allowance <= Limit[s]
  PROVE  LimitHolds(s, d, x, u, [jobs EXCEPT ![w] = n])
<1> DEFINE new == [jobs EXCEPT ![w] = n]
<1>1. new[w] = n /\ \A v \in Workers : v # w => new[v] = jobs[v]
  OBVIOUS
<1> HIDE DEF new
<1>2. x # Uncertain /\ Limit[s] \in Nat /\ Unlimited \notin Int
  BY SchedulerAssumption DEF Uncertain, Limited
<1>3. \A v \in Workers : jobs[v].allowance \in Nat \cup {Unlimited}
  BY DEF Jobs
<1>4. n.allowance \in Nat \cup {Unlimited}
  BY DEF Jobs
<1>5. CASE ~CountedOn(n, s, d)
  <2>1. LimitHolds(s, d, x, u, [jobs EXCEPT ![w] = n])
    BY <1>5, LimitsKept
  <2> QED BY <2>1
<1>6. CASE CountedOn(jobs[w], s, d) /\ (jobs[w].allowance # Unlimited =>
             n.allowance # Unlimited /\ n.allowance <= jobs[w].allowance)
  <2>1. \A v \in Workers : CountedOn(jobs[v], s, d) => v = w
    BY <1>2, <1>6 DEF LimitHolds
  <2>2. /\ jobs[w].allowance # Unlimited /\ x + jobs[w].allowance <= Limit[s]
        /\ x <= u /\ x <= Limit[s]
    BY <1>2, <1>6, <2>1 DEF LimitHolds
  <2>3. n.allowance # Unlimited /\ x + n.allowance <= Limit[s]
    BY <1>2, <1>3, <1>4, <1>6, <2>2
  <2>4. \A v \in Workers : CountedOn(new[v], s, d) => v = w
    BY <1>1, <2>1
  <2>5. LimitHolds(s, d, x, u, new)
    BY <1>1, <2>2, <2>3, <2>4 DEF LimitHolds
  <2> QED BY <2>5 DEF new
<1>7. CASE /\ \A v \in Workers : v # w => ~CountedOn(jobs[v], s, d)
           /\ n.allowance # Unlimited /\ u + n.allowance <= Limit[s]
  <2>1. x <= u /\ x <= Limit[s]
    BY <1>2, <1>7 DEF LimitHolds
  <2>2. n.allowance # Unlimited /\ x + n.allowance <= Limit[s]
    BY <1>2, <1>4, <1>7, <2>1
  <2>3. \A v \in Workers : CountedOn(new[v], s, d) => v = w
    BY <1>1, <1>7
  <2>4. LimitHolds(s, d, x, u, new)
    BY <1>1, <2>1, <2>2, <2>3 DEF LimitHolds
  <2> QED BY <2>4 DEF new
<1> QED BY <1>5, <1>6, <1>7

\* What is held and is not the head is held by the tail.
LEMMA HeldByTail ==
  ASSUME NEW S, NEW q \in Seq(S), q # <<>>, NEW s, Holds(q, s), s # Head(q)
  PROVE  Holds(Tail(q), s)
<1>1. Len(q) \in Nat /\ DOMAIN q = 1..Len(q) /\ Len(q) >= 1
  BY LenProperties, EmptySeq
<1>2. Head(q) = q[1] /\ Tail(q) \in Seq(S) /\ Len(Tail(q)) = Len(q) - 1
      /\ \A i \in 1..Len(Tail(q)) : Tail(q)[i] = q[i + 1]
  BY HeadTailProperties
<1>3. DOMAIN Tail(q) = 1..(Len(q) - 1)
  BY <1>2, LenProperties
<1>4. PICK i \in 1..Len(q) : q[i] = s
  BY <1>1 DEF Holds
<1>5. i # 1
  BY <1>2, <1>4
<1>6. i - 1 \in 1..(Len(q) - 1) /\ (i - 1) + 1 = i
  BY <1>1, <1>5
<1>7. Tail(q)[i - 1] = q[i]
  BY <1>2, <1>6
<1> QED BY <1>3, <1>4, <1>6, <1>7 DEF Holds

\* The next subject lets the firing through, with an allowance it leaves.
Passed(j, s, room) ==
  [j EXCEPT !.left = Tail(@), !.pc = IF Tail(j.left) = <<>> THEN "execute" ELSE "gate",
            !.allowance = Tighter(@, room)]

\* Nobody but that subject is newly counted for, and the allowance only shrinks.
LEMMA PassedIs ==
  ASSUME SchedulerIInv, NEW w \in Workers, job[w].pc = "gate", NEW room \in Nat \ {0}
  PROVE  LET j == job[w]
             n == Passed(j, Head(j.left), room) IN
         /\ n \in Jobs /\ Sensible(n) /\ n.load = j.load /\ n.pc \in {"gate", "execute"}
         /\ n.task = j.task /\ n.source = j.source /\ n.persona = j.persona
         /\ n.firedAt = j.firedAt /\ n.allowance # Unlimited /\ n.allowance <= room
         /\ j.allowance # Unlimited => n.allowance <= j.allowance
         /\ \A s : Counted(n, s) /\ s # Head(j.left) => Counted(j, s)
<1> DEFINE j == job[w]
           q == j.left
           n == Passed(j, Head(q), room)
           a == Tighter(j.allowance, room)
<1>1. j \in Jobs /\ Sensible(j) /\ j.pc = "gate"
  BY StateIs
<1>2. q \in Seq(Limited) /\ q # <<>> /\ j.allowance # 0 /\ j.allowance \in Nat \cup {Unlimited}
  BY <1>1 DEF Sensible, Jobs
<1>3. Tail(q) \in Seq(Limited)
  BY <1>2, HeadTailProperties
<1>4. Tail(q) \in Seq(Subjects)
  BY <1>3 DEF Limited
<1>5. /\ a \in Nat \ {0} /\ a <= room /\ a # Unlimited
      /\ j.allowance # Unlimited => a <= j.allowance
  BY <1>2, SchedulerAssumption DEF Tighter
<1> HIDE DEF a
<1>6. n \in Jobs
  BY <1>1, <1>4, <1>5 DEF Passed, Jobs, a
<1>7. /\ n.left = Tail(q) /\ n.pc = (IF Tail(q) = <<>> THEN "execute" ELSE "gate")
      /\ n.allowance = a /\ n.task = j.task /\ n.source = j.source /\ n.persona = j.persona
      /\ n.firedAt = j.firedAt /\ n.load = j.load
  BY <1>1 DEF Passed, Jobs, a
<1> HIDE DEF n, q
<1>8. Sensible(n)
  BY <1>1, <1>3, <1>5, <1>7 DEF Sensible
<1>9. ASSUME NEW s, Counted(n, s), s # Head(q) PROVE Counted(j, s)
  <2>1. ~Holds(Tail(q), s)
    BY <1>7, <1>9, EmptySeq DEF Counted, Holds
  <2>2. ~Holds(q, s)
    BY <1>2, <1>9, <2>1, HeldByTail
  <2> QED BY <1>1, <1>7, <1>9, <2>2 DEF Counted, Holds, q
<1> QED BY <1>5, <1>6, <1>7, <1>8, <1>9 DEF n, q

\* What the gate does once the subject's firings are counted.
LEMMA CountPasses ==
  ASSUME SchedulerIInv, NEW w \in Workers, Count(w),
         ~Exceeds(used[Head(job[w].left)][Day(job[w].firedAt)], Limit[Head(job[w].left)])
  PROVE  SchedulerIInv'
<1> DEFINE j == job[w]
           s == Head(j.left)
           e == Day(j.firedAt)
           room == Limit[s] - used[s][e]
           n == Passed(j, s, room)
<1>1. /\ j.pc = "gate" /\ Become(w, n) /\ inFlight' = inFlight
      /\ done' = IF Uncounted(w, s) THEN Forget(w, {s}) ELSE done
      /\ clock' = clock /\ asked' = asked /\ used' = used /\ stored' = stored
      /\ personas' = personas /\ loaded' = loaded
  BY DEF Count, Passed, setup, store
<1>2. /\ j \in Jobs /\ Sensible(j) /\ j.load \in 0..Len(loaded) /\ Accounts(done, used)
      /\ job \in [Workers -> Jobs] /\ FlightHolds(inFlight, job) /\ SchedulerTypeOK
  BY StateIs
<1>3. s \in Limited
  BY <1>1, <1>2, HeadTailProperties DEF Sensible
<1>4. e \in Days
  BY <1>2, DayOfTime DEF Jobs
<1>5. Limit[s] \in Nat /\ used[s][e] \in Nat
  BY <1>2, <1>3, <1>4, SchedulerAssumption DEF Limited, Accounts
<1>6. room \in Nat \ {0} /\ used[s][e] + room = Limit[s]
  BY <1>5 DEF Exceeds
<1>7. /\ n \in Jobs /\ Sensible(n) /\ n.load = j.load /\ n.pc \in {"gate", "execute"}
      /\ n.task = j.task /\ n.firedAt = j.firedAt /\ n.allowance # Unlimited
      /\ n.allowance <= room
      /\ j.allowance # Unlimited => n.allowance <= j.allowance
      /\ \A k : Counted(n, k) /\ k # s => Counted(j, k)
  <2> HIDE DEF room
  <2> QED BY <1>1, <1>6, PassedIs
<1>8. job' = [job EXCEPT ![w] = n]
  BY <1>1 DEF Become
<1> HIDE DEF n
<1>9. FlightHolds(inFlight', job')
  BY <1>1, <1>2, <1>7, <1>8, FlightGoesOn DEF Flying
<1>10. /\ Accounts(done', used')
       /\ \A k \in Limited, d \in Days : done'[k][d] = done[k][d] \/ done'[k][d] = Uncertain
       /\ Uncounted(w, s) => done'[s][e] = Uncertain
  <2>1. CASE Uncounted(w, s)
    <3>1. done' = Forget(w, {s})
      BY <1>1, <2>1
    <3>2. /\ Forget(w, {s}) \in [Limited -> [Days -> Nat \cup {Uncertain}]]
          /\ \A k \in Limited, d \in Days : Forget(w, {s})[k][d] \in {done[k][d], Uncertain}
          /\ Forget(w, {s})[s][e] = Uncertain
      BY <1>2, <1>3, <1>4, Forgets
    <3> QED BY <1>1, <1>2, <3>1, <3>2 DEF Accounts
  <2>2. CASE ~Uncounted(w, s)
    BY <1>1, <1>2, <2>2
  <2> QED BY <2>1, <2>2
<1>11. ASSUME NEW k \in Limited, NEW d \in Days
       PROVE  LimitHolds(k, d, done'[k][d], used'[k][d], job')
  <2> DEFINE x == done[k][d]
             u == used[k][d]
             y == done'[k][d]
  <2>1. LimitHolds(k, d, x, u, job) /\ u \in Nat /\ x \in Nat \cup {Uncertain} /\ used'[k][d] = u
    BY <1>1, <1>2 DEF SchedulerIInv, LimitsHold, Accounts
  <2>2. y = x \/ y = Uncertain
    BY <1>10
  <2>3. CASE y = Uncertain
    BY <2>3 DEF LimitHolds
  <2>4. CASE y # Uncertain
    <3>1. y = x /\ x \in Nat
      BY <2>1, <2>2, <2>4
    <3>2. CountedOn(n, k, d) /\ k # s => CountedOn(j, k, d)
      BY <1>7 DEF CountedOn
    <3>3. CountedOn(n, k, d) /\ k = s =>
            /\ \A v \in Workers : v # w => ~CountedOn(job[v], k, d)
            /\ u + n.allowance <= Limit[k]
      <4> SUFFICES ASSUME CountedOn(n, k, d), k = s
                   PROVE  /\ \A v \in Workers : v # w => ~CountedOn(job[v], k, d)
                          /\ u + n.allowance <= Limit[k]
        OBVIOUS
      <4>1. d = e
        BY <1>7 DEF CountedOn
      <4>2. ~Uncounted(w, s)
        BY <1>10, <2>4, <4>1
      <4>3. \A v \in Workers : v # w => ~CountedOn(job[v], k, d)
        BY <4>2 DEF Uncounted, Unbooked, CountedOn, Counted
      <4>4. n.allowance \in Nat /\ u = used[s][e]
        BY <1>7, <4>1 DEF Jobs
      <4>5. u + n.allowance <= Limit[s]
        BY <1>5, <1>6, <1>7, <4>4
      <4> QED BY <4>3, <4>5
    <3> HIDE DEF x, u, y, s, room
    <3>4. LimitHolds(k, d, x, u, [job EXCEPT ![w] = n])
      BY <1>1, <1>2, <1>7, <2>1, <3>1, <3>2, <3>3, LimitsCounted
    <3> QED BY <1>8, <2>1, <3>1, <3>4 DEF y
  <2> QED BY <2>3, <2>4
<1>12. LimitsHold'
  BY <1>11 DEF LimitsHold
<1>13. /\ job' \in [Workers -> Jobs] /\ job'[w] = n /\ \A v \in Workers : v # w => job'[v] = job[v]
  BY <1>2, <1>7, <1>8
<1>14. JobsAreSensible' /\ \A v \in Workers : job'[v].load \in 0..Len(loaded')
  BY <1>1, <1>2, <1>7, <1>13, StateIs DEF JobsAreSensible
<1>15. /\ clock' \in Times /\ asked' \in 0..MaxRequests /\ personas' \subseteq Personas
       /\ stored' \in [Tasks -> Nodes] /\ loaded' \in Seq(Loads) /\ loaded' # <<>>
       /\ inFlight' \subseteq Tasks
  BY <1>1, StateIs
<1> QED BY <1>9, <1>10, <1>12, <1>13, <1>14, <1>15, Together

LEMMA CountKeeps ==
  ASSUME SchedulerIInv, NEW w \in Workers, Count(w)
  PROVE  SchedulerIInv'
<1> DEFINE s == Head(job[w].left)
           count == used[s][Day(job[w].firedAt)]
<1>1. CASE Exceeds(count, Limit[s])
  <2>1. /\ Flying(job[w]) /\ Leave(w, "over limit", 0)
        /\ done' = IF Uncounted(w, s) THEN Forget(w, {s}) ELSE done
        /\ UNCHANGED <<setup, store, loaded, personas>>
    BY <1>1 DEF Count, Flying
  <2>2. SchedulerTypeOK /\ Accounts(done, used)
    BY StateIs
  <2>3. Accounts(done', used)
        /\ \A k \in Limited, d \in Days : done'[k][d] \in {done[k][d], Uncertain}
    BY <2>1, <2>2, Forgets DEF Accounts
  <2> QED BY <2>1, <2>3, LeavesUnbilled DEF Outcomes
<1>2. CASE ~Exceeds(count, Limit[s])
  BY <1>2, CountPasses
<1> QED BY <1>1, <1>2

-----------------------------------------------------------------------------
(* The theorems.                                                           *)

LEMMA SchedulerInvInit == SchedulerInit => SchedulerIInv
<1> SUFFICES ASSUME SchedulerInit PROVE SchedulerIInv
  OBVIOUS
<1>1. /\ clock = 0 /\ used = [s \in Limited |-> [d \in Days |-> 0]] /\ personas = Personas
      /\ inFlight = {} /\ job = [w \in Workers |-> Resting] /\ asked = 0 /\ done = used
      /\ loaded = <<Reading([t \in Tasks |-> "Active"])>>
  BY DEF SchedulerInit
<1>2. clock \in Times /\ asked \in 0..MaxRequests
  BY <1>1, SchedulerAssumption DEF Times
<1>3. stored \in [Tasks -> Nodes]
  <2> DEFINE active == [Blank EXCEPT !.there = TRUE, !.status = {"Active"}]
  <2>1. Blank \in Nodes
    BY DEF Nodes, Blank
  <2>2. active \in Nodes
    BY <2>1 DEF Nodes, TaskStatuses
  <2>3. PICK S \in Existing : stored = [t \in Tasks |-> IF t \in S THEN active ELSE Blank]
    BY DEF SchedulerInit
  <2> HIDE DEF active
  <2> QED BY <2>1, <2>2, <2>3
<1>4. Reading([t \in Tasks |-> "Active"]) \in Loads
  <2>1. There \in SUBSET Tasks
    BY DEF There
  <2>2. Reading([t \in Tasks |-> "Active"]) \in [There -> Objects]
    BY <1>3, <2>1 DEF Reading, Objects, Nodes, TaskStatuses
  <2> QED BY <2>1, <2>2 DEF Loads
<1>5. loaded \in Seq(Loads) /\ loaded # <<>> /\ Len(loaded) = 1
  BY <1>1, <1>4
<1>6. job \in [Workers -> Jobs] /\ \A w \in Workers : job[w] = Resting
  BY <1>1, RestingIsFine
<1>7. Accounts(done, used) /\ \A s \in Limited, d \in Days : done[s][d] = 0 /\ used[s][d] = 0
  BY <1>1 DEF Accounts
<1>8. SchedulerTypeOK
  BY <1>1, <1>2, <1>3, <1>5, <1>6, <1>7, RestingIsFine DEF SchedulerTypeOK, Accounts
<1>9. JobsAreSensible
  BY <1>6, RestingIsFine DEF JobsAreSensible
<1>10. InFlightIsRunning
  BY <1>1, <1>6, RestingIsFine DEF InFlightIsRunning, Running
<1>11. LimitsHold
  <2>1. \A s \in Limited : Limit[s] \in Nat
    BY SchedulerAssumption DEF Limited
  <2> SUFFICES ASSUME NEW s \in Limited, NEW d \in Days
               PROVE  LimitHolds(s, d, 0, 0, job)
    BY <1>7 DEF LimitsHold
  <2> QED BY <1>6, <2>1, LimitsAtRest
<1> QED BY <1>8, <1>9, <1>10, <1>11 DEF SchedulerIInv

LEMMA SchedulerInvStep == SchedulerIInv /\ [SchedulerNext]_schedulerVars => SchedulerIInv'
<1> SUFFICES ASSUME SchedulerIInv, [SchedulerNext]_schedulerVars PROVE SchedulerIInv'
  OBVIOUS
<1>1. CASE UNCHANGED schedulerVars
  <2>1. /\ clock' = clock /\ asked' = asked /\ stored' = stored /\ used' = used
        /\ loaded' = loaded /\ personas' = personas /\ inFlight' = inFlight
        /\ job' = job /\ done' = done
    BY <1>1 DEF schedulerVars, setup, store, memory
  <2> QED BY <2>1 DEF SchedulerIInv, SchedulerTypeOK, JobsAreSensible, InFlightIsRunning,
        Running, LimitsHold
<1>2. CASE Restart
  BY <1>2, RestartKeeps
<1>3. CASE Pass
  BY <1>3, PassKeeps
<1>4. ASSUME NEW w \in Workers, TickNow(w) \/ FireNow(w) PROVE SchedulerIInv'
  BY <1>4, TickNowKeeps, FireNowKeeps
<1>5. ASSUME NEW w \in Workers, Proceed(w) PROVE SchedulerIInv'
  BY <1>5, CountKeeps, CannotCountKeeps, RunTaskKeeps, DeclineKeeps, FailLateKeeps,
     RecordFiringKeeps, TouchKeeps, CannotRecordKeeps DEF Proceed
<1>6. ASSUME NEW w \in Workers, StartStatus(w) \/ WriteStatus(w) \/ AssignStatus(w) \/ Abort(w)
      PROVE  SchedulerIInv'
  BY <1>6, StartStatusKeeps, WriteStatusKeeps, AssignStatusKeeps, AbortKeeps
<1>7. ASSUME NEW w \in Workers, StartCreate(w) \/ DropTask(w) \/ InsertTask(w)
      PROVE  SchedulerIInv'
  BY <1>7, StartCreateKeeps, DropTaskKeeps, InsertTaskKeeps
<1>8. ASSUME NEW w \in Workers, ReloadCreated(w) \/ Reload(w) \/ ReloadPersonas(w)
      PROVE  SchedulerIInv'
  <2>1. ReloadCreated(w) => SchedulerIInv'
    BY ReadTasksKeeps, StateIs DEF ReloadCreated
  <2>2. Reload(w) => SchedulerIInv'
    BY ReadTasksKeeps, BeginsWithin DEF Reload
  <2> QED BY <1>8, <2>1, <2>2, ReloadPersonasKeeps
<1> QED BY <1>1, <1>2, <1>3, <1>4, <1>5, <1>6, <1>7, <1>8 DEF SchedulerNext

\* The invariant holds in every reachable state, whatever coroutines interleave.
THEOREM SchedulerInvariant == SchedulerSpec => []SchedulerIInv
BY SchedulerInvInit, SchedulerInvStep, PTL DEF SchedulerSpec

\* The scheduler's state is well-formed: clock, tasks graph, readings, firings.
THEOREM SchedulerIsTyped == SchedulerSpec => []SchedulerTypeOK
<1>1. SchedulerIInv => SchedulerTypeOK
  BY DEF SchedulerIInv
<1> QED BY <1>1, SchedulerInvariant, PTL

\* Whatever ticks, manual firings, reloads and restarts interleave, a task has
\* one firing running at a time, _in_flight is the set of those tasks, and what
\* scheduled firings do in a day stays within each task's and persona's limit.
THEOREM FiringsStayBounded == SchedulerSpec => []FiringsAreBounded
<1>1. SchedulerIInv => FiringsAreBounded
  <2> SUFFICES ASSUME SchedulerIInv PROVE WithinDailyLimit /\ InFlightIsRunning
    BY DEF FiringsAreBounded
  <2>1. ASSUME NEW s \in Limited, NEW d \in Days PROVE done[s][d] <= Limit[s]
    <3>1. LimitHolds(s, d, done[s][d], used[s][d], job)
      BY DEF SchedulerIInv, LimitsHold
    <3>2. Limit[s] \in Nat
      BY SchedulerAssumption DEF Limited
    <3> QED BY <3>1, <3>2 DEF LimitHolds, Uncertain
  <2> QED BY <2>1 DEF WithinDailyLimit, SchedulerIInv
<1> QED BY <1>1, SchedulerInvariant, PTL
=============================================================================
