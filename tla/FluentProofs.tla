---------------------------- MODULE FluentProofs ----------------------------
(***************************************************************************)
(* Proofs about concurrent transitions of a fluent, for any calls, number  *)
(* of attempts, requests, modes, shapes and seeds: the ledger accounts for *)
(* the scene and for every answer, and unless a value comes back the chain *)
(* of supersession is unbroken and the gate is sound.                      *)
(***************************************************************************)
EXTENDS Fluent, SequenceTheorems, FiniteSetTheorems, TLAPS

Scalar == mode # "ListAccumulator"

\* Where a call has not yet sent its transition, and where it may yet land.
Unsent == {"idle", "read", "member", "mint", "copyEvents", "copyScene", "check", "commit",
           "afloat"}
Planned == {"copyEvents", "copyScene", "check", "commit", "afloat"}

\* The identifiers a call may give.
Own(c) == {c} \X (0..Attempts)

\* A call that is under way asks for what its fluent's mode allows, has an
\* attempt left, and knows a value if it is to add to one.
Under(m, p, q, n, s) ==
  /\ p \in InLoop \cup {"afloat"} => q \in Requests /\ q.op \in ValidOps(m)
  /\ p \in InLoop \cup {"idle", "afloat"} => n < Attempts
  /\ p \in Planned /\ q.op \in {"Insert", "Remove"} => s.value \in Int

\* A reading s is what n entries of a ledger left.
LeftBy(s, events, n) ==
  IF n = 0 THEN s.value = NoValue /\ s.assertion = NoAssertion
           ELSE s.value = events[n].new /\ s.assertion = events[n].id

\* What a call has read was so at some time; at its check, at its copy.
Reads(s, events) == \E n \in 0..Len(events) : LeftBy(s, events, n)
Overtaken(s, events) == \E n \in 0..(Len(events) - 1) : LeftBy(s, events, n)

\* No entry is one of c's or supersedes one.
Silent(events, c) ==
  \A i \in DOMAIN events : events[i].id \notin Own(c) /\ events[i].supersedes \notin Own(c)

Closed(events) ==
  \A i \in DOMAIN events :
    \/ events[i].supersedes = NoAssertion
    \/ \E j \in DOMAIN events : events[i].supersedes = events[j].id

\* A call is in the ledger once it has sent its transition, and then once.
OnceIn(events) ==
  \A i, j \in DOMAIN events : events[i].id[1] = events[j].id[1] => i = j
Places(c, p, n, events) ==
  /\ p \in Unsent \cup TurnedAway => \A i \in DOMAIN events : events[i].id[1] # c
  /\ p = "confirm" => \A i \in DOMAIN events : events[i].id[1] = c => events[i].id = <<c, n>>
  /\ p = "done" => \E i \in DOMAIN events : events[i].id[1] = c

\* What the gate's copies x say, and what is known once it has passed.
Copied(c, m, p, s, x, events) ==
  /\ p \in {"copyScene", "check"} => Silent(x.events, c)
  /\ p = "check" /\ m # "ListAccumulator" /\ x.scene.value # s.value => Overtaken(s, events)
Target(q, s) ==
  CASE q.op = "Insert" -> s.value + q.arg
    [] q.op = "Remove" -> s.value - q.arg
    [] OTHER -> q.arg
Passed(m, g, p, q, s, events) ==
  p \in {"commit", "afloat"} /\ g /\ q.op # "ListRemove" =>
    Target(q, s) \in Allowed \/ (m # "ListAccumulator" /\ Overtaken(s, events))

\* All that is known of one call.
Knows(c, m, g, events, p, q, n, s, x) ==
  /\ Under(m, p, q, n, s) /\ Places(c, p, n, events)
  /\ m # "ListAccumulator" => Reads(s, events)
  /\ Copied(c, m, p, s, x, events) /\ Passed(m, g, p, q, s, events)

\* Each entry supersedes the one before it.
Chained(events) == \A i \in DOMAIN events : i > 1 => events[i].supersedes = events[i - 1].id
Sound == ValuesNeverRecur => (Scalar => Chained(ledger)) /\ GateSound

\* No operation on a list gives the scene an assertion.
Plain ==
  ~Scalar => /\ scene.assertion = NoAssertion
             /\ \A c \in Calls : seen[c].assertion = NoAssertion

IInv ==
  /\ TypeOK
  /\ SceneMatchesLedger /\ NoLostUpdate /\ Plain
  /\ OnceIn(ledger) /\ Closed(ledger) /\ Sound
  /\ \A c \in Calls :
       Knows(c, mode, gated, ledger, pc[c], req[c], attempt[c], seen[c], scratch[c])
-----------------------------------------------------------------------------
\* A ledger and the one an entry makes of it.
LEMMA Longer ==
  ASSUME NEW s \in Seq(Entries), NEW e \in Entries, NEW t, t = Append(s, e)
  PROVE  /\ t \in Seq(Entries) /\ Len(t) = Len(s) + 1 /\ Len(s) \in Nat
         /\ DOMAIN s = 1..Len(s) /\ DOMAIN t = 1..(Len(s) + 1)
         /\ t[Len(s) + 1] = e /\ \A i \in DOMAIN s : i \in DOMAIN t /\ t[i] = s[i]
         /\ \A i \in DOMAIN t : i = Len(s) + 1 \/ i \in DOMAIN s
<1>1. /\ t \in Seq(Entries) /\ Len(t) = Len(s) + 1
      /\ \A i \in 1..Len(s) : t[i] = s[i]
      /\ t[Len(s) + 1] = e
  BY AppendProperties
<1>2. Len(s) \in Nat /\ DOMAIN s = 1..Len(s) /\ DOMAIN t = 1..Len(t)
  BY <1>1, LenProperties
<1> HIDE DEF Entries
<1> QED BY <1>1, <1>2

\* What a reading was, and that it was overtaken, outlive an entry.
LEMMA StillRead ==
  ASSUME NEW s \in Seq(Entries), NEW e \in Entries, NEW t, t = Append(s, e), NEW x
  PROVE  /\ Reads(x, s) => Reads(x, t) /\ Overtaken(x, t)
         /\ Overtaken(x, s) => Overtaken(x, t)
<1>1. /\ Len(t) = Len(s) + 1 /\ Len(s) \in Nat /\ DOMAIN s = 1..Len(s)
      /\ \A i \in DOMAIN s : t[i] = s[i]
  BY Longer
<1>2. ASSUME NEW n \in 0..Len(s), LeftBy(x, s, n)
      PROVE  LeftBy(x, t, n)
  BY <1>1, <1>2 DEF LeftBy
<1>3. /\ 0..(Len(t) - 1) = 0..Len(s) /\ 0..Len(s) \subseteq 0..Len(t)
      /\ 0..(Len(s) - 1) \subseteq 0..Len(s)
  BY <1>1
<1>4. Reads(x, s) => Reads(x, t) /\ Overtaken(x, t)
  BY <1>2, <1>3 DEF Reads, Overtaken
<1>5. Overtaken(x, s) => Overtaken(x, t)
  BY <1>2, <1>3 DEF Overtaken
<1> QED BY <1>4, <1>5

\* The identifiers of a call are those that name it.
LEMMA OwnIds ==
  ASSUME NEW c \in Calls
  PROVE  /\ \A d \in Ids : d \in Own(c) <=> d[1] = c
         /\ NoAssertion \notin Own(c)
         /\ \A n \in 0..Attempts : <<c, n>> \in Own(c) /\ <<c, n>> \in Ids
<1>1. SeedId[1] = "seed" /\ "seed" # c
  BY FluentAssumption DEF SeedId
<1>2. \A d \in Ids : d \in Own(c) <=> d[1] = c
  <2>1. ASSUME NEW b \in Calls, NEW n \in 0..Attempts PROVE <<b, n>> \in Own(c) <=> <<b, n>>[1] = c
    BY DEF Own
  <2>2. SeedId \notin Own(c)
    BY <1>1 DEF Own
  <2> QED BY <1>1, <2>1, <2>2 DEF Ids
<1>3. NoAssertion \notin Own(c)
  <2>1. \A n : <<c, n>> # <<>>
    OBVIOUS
  <2> QED BY <2>1 DEF NoAssertion, Own
<1> QED BY <1>2, <1>3 DEF Own, Ids
-----------------------------------------------------------------------------
LEMMA Initially == Init => IInv
<1> SUFFICES ASSUME Init PROVE IInv
  OBVIOUS
<1>1. PICK v \in IF mode = "ListAccumulator" THEN {NoValue} ELSE Seeds :
        /\ scene = [value |-> v, items |-> {},
                    assertion |-> IF v = NoValue THEN NoAssertion ELSE SeedId]
        /\ ledger = IF v = NoValue THEN <<>> ELSE <<SeedEntry(v)>>
  BY DEF Init
<1>2. v \in Values /\ (v # NoValue => v \in Allowed /\ v \in Int /\ mode # "ListAccumulator")
  BY FluentAssumption, <1>1 DEF Values
<1>3. SeedId \in Ids
  BY DEF Ids
<1>4. v # NoValue => SeedEntry(v) \in Entries
  BY <1>2, <1>3 DEF SeedEntry, Entries, Values, Operations
<1>5. ledger \in Seq(Entries) /\ (v = NoValue => ledger = <<>>)
  BY <1>1, <1>4
<1>6. v # NoValue => ledger = <<SeedEntry(v)>> /\ Len(ledger) = 1 /\ DOMAIN ledger = {1}
                       /\ ledger[1] = SeedEntry(v)
  BY <1>1
<1>7. Len(<<>>) = 0 /\ DOMAIN <<>> = {}
  OBVIOUS
<1>8. TypeOK
  <2>1. scene \in Scenes
    BY <1>1, <1>2, <1>3 DEF Scenes
  <2>2. NoScratch \in [events : Seq(Entries), scene : Scenes]
    BY DEF NoScratch, Scenes, Values
  <2>3. Attempts \in Nat
    BY FluentAssumption
  <2> QED BY <1>5, <2>1, <2>2, <2>3 DEF Init, TypeOK, PCs, Values
<1>9. SceneMatchesLedger
  <2>1. CASE v = NoValue
    BY <1>1, <1>5, <1>7, <2>1 DEF SceneMatchesLedger, LastIsInsert
  <2>2. CASE v # NoValue
    <3>1. ledger # <<>>
      BY <1>6, <1>7, <2>2
    <3> QED BY <1>1, <1>2, <1>6, <2>2, <3>1 DEF SceneMatchesLedger, SeedEntry
  <2> QED BY <2>1, <2>2
<1>10. NoLostUpdate /\ OnceIn(ledger) /\ Closed(ledger) /\ Sound
  <2>1. CASE v = NoValue
    BY <1>5, <1>7, <2>1 DEF NoLostUpdate, OnceIn, Closed, Sound, Chained, GateSound
  <2>2. CASE v # NoValue
    BY <1>2, <1>6, <2>2
       DEF NoLostUpdate, OnceIn, Closed, Sound, Chained, GateSound, SeedEntry
  <2> QED BY <2>1, <2>2
<1>11. Plain
  BY <1>1, <1>2 DEF Plain, Scalar, Init
<1>12. ASSUME NEW c \in Calls
       PROVE  Knows(c, mode, gated, ledger, pc[c], req[c], attempt[c], seen[c], scratch[c])
  <2>1. pc[c] = "idle" /\ seen[c] = [value |-> NoValue, assertion |-> NoAssertion]
    BY DEF Init
  <2>2. Reads(seen[c], ledger)
    <3>1. 0 \in 0..Len(ledger)
      BY <1>5, LenProperties
    <3> QED BY <2>1, <3>1 DEF Reads, LeftBy
  <2>3. \A i \in DOMAIN ledger : ledger[i].id[1] # c
    BY <1>5, <1>6, <1>7, FluentAssumption DEF SeedEntry, SeedId
  <2>4. Under(mode, pc[c], req[c], attempt[c], seen[c])
    BY <2>1, FluentAssumption DEF Under, InLoop, Planned, Init
  <2> QED BY <2>1, <2>2, <2>3, <2>4 DEF Knows, Places, Copied, Passed, TurnedAway
<1> QED BY <1>8, <1>9, <1>10, <1>11, <1>12 DEF IInv

-----------------------------------------------------------------------------
\* The sorts of one call's part of the state.
LEMMA CallShape ==
  ASSUME TypeOK, NEW c \in Calls
  PROVE  /\ pc[c] \in PCs /\ req[c] \in Requests \cup {NoRequest} /\ attempt[c] \in 0..Attempts
         /\ seen[c].value \in Values /\ seen[c].assertion \in Ids \cup {NoAssertion}
         /\ seen[c] \in [value : Values, assertion : Ids \cup {NoAssertion}]
         /\ scratch[c] \in [events : Seq(Entries), scene : Scenes]
BY DEF TypeOK

LEMMA LedgerShape ==
  ASSUME TypeOK
  PROVE  /\ Len(ledger) \in Nat /\ DOMAIN ledger = 1..Len(ledger)
         /\ \A i \in DOMAIN ledger :
              /\ ledger[i] \in Entries /\ ledger[i].id \in Ids /\ ledger[i].new \in Int
              /\ ledger[i].supersedes \in Ids \cup {NoAssertion}
<1>1. ledger \in Seq(Entries)
  BY DEF TypeOK
<1>2. Len(ledger) \in Nat /\ DOMAIN ledger = 1..Len(ledger)
  BY <1>1, LenProperties
<1>3. ASSUME NEW i \in DOMAIN ledger PROVE ledger[i] \in Entries
  BY <1>1, <1>2, <1>3, ElementOfSeq
<1> QED BY <1>2, <1>3 DEF Entries

\* A call's step that leaves the two graphs alone disturbs no other call.
LEMMA LocalStep ==
  ASSUME IInv, NEW c \in Calls, UNCHANGED <<mode, gated, scene, ledger>>, TypeOK',
         \A d \in Calls \ {c} :
           /\ pc'[d] = pc[d] /\ req'[d] = req[d] /\ attempt'[d] = attempt[d]
           /\ seen'[d] = seen[d] /\ scratch'[d] = scratch[d],
         Scalar \/ seen'[c].assertion = NoAssertion,
         Knows(c, mode, gated, ledger, pc'[c], req'[c], attempt'[c], seen'[c], scratch'[c])
  PROVE  IInv'
<1>1. SceneMatchesLedger' /\ NoLostUpdate' /\ OnceIn(ledger)' /\ Closed(ledger)' /\ Sound'
  <2>1. SceneMatchesLedger /\ NoLostUpdate /\ OnceIn(ledger) /\ Closed(ledger) /\ Sound
    BY DEF IInv
  <2> QED BY <2>1 DEF SceneMatchesLedger, LastIsInsert, NoLostUpdate, Sound, Scalar,
                      ValuesNeverRecur, GateSound
<1>2. Plain'
  BY DEF IInv, Plain, Scalar
<1>3. ASSUME NEW d \in Calls
      PROVE  Knows(d, mode', gated', ledger', pc'[d], req'[d], attempt'[d], seen'[d], scratch'[d])
  <2>1. CASE d = c
    BY <2>1
  <2>2. CASE d # c
    BY <1>3, <2>2 DEF IInv
  <2> QED BY <2>1, <2>2
<1> QED BY <1>1, <1>2, <1>3 DEF IInv

\* Where a call goes, the others are not moved.
LEMMA Moves ==
  ASSUME TypeOK, NEW c \in Calls, NEW l \in PCs, Goto(c, l)
  PROVE  /\ pc' \in [Calls -> PCs] /\ pc'[c] = l
         /\ \A d \in Calls \ {c} : pc'[d] = pc[d]
BY DEF TypeOK, Goto

\* A call loses an attempt before it has sent its transition, or when it finds
\* that what it sent is not there.
LEMMA Loses ==
  ASSUME IInv, NEW c \in Calls, Lose(c), pc[c] \in InLoop,
         \A i \in DOMAIN ledger : ledger[i].id[1] # c
  PROVE  /\ attempt' \in [Calls -> 0..Attempts] /\ pc' \in [Calls -> PCs]
         /\ \A d \in Calls \ {c} : pc'[d] = pc[d] /\ attempt'[d] = attempt[d]
         /\ Knows(c, mode, gated, ledger, pc'[c], req[c], attempt'[c], seen[c], NoScratch)
<1>1. Knows(c, mode, gated, ledger, pc[c], req[c], attempt[c], seen[c], scratch[c]) /\ TypeOK
  BY DEF IInv
<1>2. attempt[c] < Attempts /\ attempt[c] \in Nat /\ Attempts \in Nat
  BY <1>1, CallShape, FluentAssumption DEF Knows, Under
<1>3. /\ attempt' \in [Calls -> 0..Attempts] /\ attempt'[c] = attempt[c] + 1
      /\ \A d \in Calls \ {c} : attempt'[d] = attempt[d]
  BY <1>1, <1>2 DEF TypeOK, Lose
<1>4. AfterLoss(c) \in PCs
  BY DEF AfterLoss, PCs, InLoop, Finished, TurnedAway
<1>5. /\ pc' \in [Calls -> PCs] /\ pc'[c] = AfterLoss(c)
      /\ \A d \in Calls \ {c} : pc'[d] = pc[d]
  BY <1>1, <1>4, Moves DEF Lose
<1>6. \/ pc'[c] = "read" /\ attempt'[c] < Attempts
      \/ pc'[c] = "exhausted"
  BY <1>3, <1>5 DEF AfterLoss
<1>7. Knows(c, mode, gated, ledger, pc'[c], req[c], attempt'[c], seen[c], NoScratch)
  <2>1. Under(mode, pc'[c], req[c], attempt'[c], seen[c])
    BY <1>1, <1>6 DEF Knows, Under, InLoop, Planned
  <2>2. Places(c, pc'[c], attempt'[c], ledger)
    BY <1>6 DEF Places
  <2> QED BY <1>1, <1>6, <2>1, <2>2 DEF Knows, Copied, Passed
<1> QED BY <1>3, <1>5, <1>7

LEMMA StartKeeps ==
  ASSUME IInv, NEW c \in Calls, Start(c)
  PROVE  IInv'
<1>1. TypeOK /\ pc[c] = "idle"
      /\ Knows(c, mode, gated, ledger, pc[c], req[c], attempt[c], seen[c], scratch[c])
  BY DEF IInv, Start
<1>2. PICK r \in Requests :
        /\ req' = [req EXCEPT ![c] = r]
        /\ Goto(c, IF r.op \in ValidOps(mode) THEN "read" ELSE "refused")
  BY DEF Start
<1>3. /\ req' \in [Calls -> Requests \cup {NoRequest}] /\ req'[c] = r
      /\ \A d \in Calls \ {c} : req'[d] = req[d]
  BY <1>1, <1>2 DEF TypeOK
<1> DEFINE l == IF r.op \in ValidOps(mode) THEN "read" ELSE "refused"
<1>4. l \in PCs
  BY DEF PCs, InLoop, Finished, TurnedAway
<1>5. /\ pc' \in [Calls -> PCs] /\ pc'[c] = l
      /\ \A d \in Calls \ {c} : pc'[d] = pc[d]
  BY <1>1, <1>2, <1>4, Moves
<1>6. TypeOK'
  BY <1>1, <1>3, <1>5 DEF TypeOK, Start
<1>7. attempt[c] < Attempts
  BY <1>1 DEF Knows, Under
<1>8. Knows(c, mode, gated, ledger, pc'[c], req'[c], attempt[c], seen[c], scratch[c])
  <2>1. Under(mode, pc'[c], req'[c], attempt[c], seen[c])
    BY <1>3, <1>5, <1>7 DEF Under, Planned, InLoop
  <2> QED BY <1>1, <1>5, <2>1 DEF Knows, Places, Copied, Passed, Unsent, TurnedAway
<1> QED BY <1>3, <1>5, <1>6, <1>8, LocalStep DEF Start, IInv, Plain

\* A step that only moves its call.
LEMMA OnlyMoves ==
  ASSUME IInv, NEW c \in Calls, NEW l \in PCs, Goto(c, l),
         UNCHANGED <<mode, gated, scene, ledger, req, attempt, seen, scratch>>,
         Knows(c, mode, gated, ledger, l, req[c], attempt[c], seen[c], scratch[c])
  PROVE  IInv'
<1>1. TypeOK
  BY DEF IInv
<1>2. pc' \in [Calls -> PCs] /\ pc'[c] = l /\ \A d \in Calls \ {c} : pc'[d] = pc[d]
  BY <1>1, Moves
<1>3. TypeOK'
  BY <1>1, <1>2 DEF TypeOK
<1> QED BY <1>2, <1>3, LocalStep DEF IInv, Plain

\* The scene of a scalar fluent is what the ledger's last entry left.
LEMMA SceneIsLast ==
  ASSUME IInv, Scalar
  PROVE  LeftBy(scene, ledger, Len(ledger)) /\ Len(ledger) \in Nat
<1>1. SceneMatchesLedger /\ ledger \in Seq(Entries)
  BY DEF IInv, TypeOK
<1>2. Len(ledger) \in Nat /\ (ledger = <<>> <=> Len(ledger) = 0)
  BY <1>1, LenProperties, EmptySeq
<1> QED BY <1>1, <1>2 DEF SceneMatchesLedger, Scalar, LeftBy

LEMMA ReadCurrentKeeps ==
  ASSUME IInv, NEW c \in Calls, ReadCurrent(c)
  PROVE  IInv'
<1>1. TypeOK /\ pc[c] = "read"
      /\ Knows(c, mode, gated, ledger, pc[c], req[c], attempt[c], seen[c], scratch[c])
  BY DEF IInv, ReadCurrent
<1> DEFINE x == [value |-> scene.value, assertion |-> scene.assertion]
           l == IF req[c].op = "ListRemove" THEN "member" ELSE "mint"
<1>2. x \in [value : Values, assertion : Ids \cup {NoAssertion}]
  BY <1>1 DEF TypeOK, Scenes
<1>3. seen' \in [Calls -> [value : Values, assertion : Ids \cup {NoAssertion}]] /\ seen'[c] = x
      /\ \A d \in Calls \ {c} : seen'[d] = seen[d]
  BY <1>1, <1>2 DEF TypeOK, ReadCurrent
<1>4. l \in {"member", "mint"} /\ l \in PCs
  BY DEF PCs, InLoop
<1>5. pc' \in [Calls -> PCs] /\ pc'[c] = l /\ \A d \in Calls \ {c} : pc'[d] = pc[d]
  BY <1>1, <1>4, Moves DEF ReadCurrent
<1>6. TypeOK'
  BY <1>1, <1>3, <1>5 DEF TypeOK, ReadCurrent
<1>7. mode # "ListAccumulator" => Reads(x, ledger)
  <2> SUFFICES ASSUME Scalar PROVE Reads(x, ledger)
    BY DEF Scalar
  <2>1. LeftBy(scene, ledger, Len(ledger)) /\ Len(ledger) \in 0..Len(ledger)
    BY SceneIsLast
  <2>2. x.value = scene.value /\ x.assertion = scene.assertion
    OBVIOUS
  <2> HIDE DEF x
  <2>3. LeftBy(x, ledger, Len(ledger))
    BY <2>1, <2>2 DEF LeftBy
  <2> QED BY <2>1, <2>3 DEF Reads
<1>8. Scalar \/ x.assertion = NoAssertion
  BY DEF IInv, Plain
<1> HIDE DEF x, l
<1>9. Under(mode, l, req[c], attempt[c], x)
  BY <1>1, <1>4 DEF Knows, Under, InLoop, Planned
<1>10. Places(c, l, attempt[c], ledger)
  BY <1>1, <1>4 DEF Knows, Places, Unsent, TurnedAway
<1>11. Knows(c, mode, gated, ledger, l, req[c], attempt[c], x, scratch[c])
  BY <1>4, <1>7, <1>9, <1>10 DEF Knows, Copied, Passed
<1> QED BY <1>3, <1>5, <1>6, <1>8, <1>11, LocalStep DEF ReadCurrent

LEMMA CheckMemberKeeps ==
  ASSUME IInv, NEW c \in Calls, CheckMember(c)
  PROVE  IInv'
<1>1. Knows(c, mode, gated, ledger, "member", req[c], attempt[c], seen[c], scratch[c])
  BY DEF IInv, CheckMember
<1>2. PICK l \in {"mint", "refused"} : Goto(c, l)
  BY DEF CheckMember
<1>3. l \in PCs
  BY DEF PCs, InLoop, Finished, TurnedAway
<1>4. Under(mode, l, req[c], attempt[c], seen[c]) /\ Places(c, l, attempt[c], ledger)
  BY <1>1 DEF Knows, Under, Places, InLoop, Planned, Unsent, TurnedAway
<1>5. Knows(c, mode, gated, ledger, l, req[c], attempt[c], seen[c], scratch[c])
  BY <1>1, <1>4 DEF Knows, Copied, Passed
<1> QED BY <1>2, <1>3, <1>5, OnlyMoves DEF CheckMember

LEMMA MintAndPlanKeeps ==
  ASSUME IInv, NEW c \in Calls, MintAndPlan(c)
  PROVE  IInv'
<1>1. TypeOK /\ Knows(c, mode, gated, ledger, "mint", req[c], attempt[c], seen[c], scratch[c])
  BY DEF IInv, MintAndPlan
<1>2. PICK l \in {"refused", "copyEvents", "commit"} :
        /\ Goto(c, l)
        /\ l # "refused" => ~(NeedsValue(c) /\ seen[c].value = NoValue)
        /\ l = "commit" => ~gated
  <2>1. NeedsValue(c) /\ seen[c].value = NoValue => Goto(c, "refused")
    BY DEF MintAndPlan
  <2>2. ~(NeedsValue(c) /\ seen[c].value = NoValue) /\ gated => Goto(c, "copyEvents")
    BY DEF MintAndPlan
  <2>3. ~(NeedsValue(c) /\ seen[c].value = NoValue) /\ ~gated => Goto(c, "commit")
    BY DEF MintAndPlan
  <2> QED BY <2>1, <2>2, <2>3
<1>3. l \in PCs
  BY DEF PCs, InLoop, Finished, TurnedAway
<1>4. l # "refused" /\ req[c].op \in {"Insert", "Remove"} => seen[c].value \in Int
  BY <1>1, <1>2, CallShape DEF NeedsValue, Values
<1>5. Under(mode, l, req[c], attempt[c], seen[c])
  BY <1>1, <1>4 DEF Knows, Under, InLoop, Planned
<1>6. Places(c, l, attempt[c], ledger)
  BY <1>1 DEF Knows, Places, Unsent, TurnedAway
<1>7. Knows(c, mode, gated, ledger, l, req[c], attempt[c], seen[c], scratch[c])
  BY <1>1, <1>2, <1>5, <1>6 DEF Knows, Copied, Passed
<1> QED BY <1>2, <1>3, <1>7, OnlyMoves DEF MintAndPlan

\* The pre-commit gate: the ledger as copied does not know the call, and a
\* scene that differs from what the call read has overtaken it.
LEMMA CopyEventsKeeps ==
  ASSUME IInv, NEW c \in Calls, CopyEvents(c)
  PROVE  IInv'
<1>1. /\ TypeOK /\ Closed(ledger)
      /\ Knows(c, mode, gated, ledger, "copyEvents", req[c], attempt[c], seen[c], scratch[c])
  BY DEF IInv, CopyEvents
<1> DEFINE x == [scratch[c] EXCEPT !.events = ledger]
<1>2. x \in [events : Seq(Entries), scene : Scenes] /\ x.events = ledger
  BY <1>1, CallShape DEF TypeOK
<1>3. scratch' \in [Calls -> [events : Seq(Entries), scene : Scenes]] /\ scratch'[c] = x
      /\ \A d \in Calls \ {c} : scratch'[d] = scratch[d]
  BY <1>1, <1>2 DEF TypeOK, CopyEvents
<1> HIDE DEF x
<1>4. /\ pc' \in [Calls -> PCs] /\ pc'[c] = "copyScene"
      /\ \A d \in Calls \ {c} : pc'[d] = pc[d]
  <2>1. "copyScene" \in PCs
    BY DEF PCs, InLoop
  <2> QED BY <1>1, <2>1, Moves DEF CopyEvents
<1>5. TypeOK'
  BY <1>1, <1>3, <1>4 DEF TypeOK, CopyEvents
<1>6. Silent(ledger, c)
  <2>1. \A i \in DOMAIN ledger : ledger[i].id[1] # c
    BY <1>1 DEF Knows, Places, Unsent
  <2>2. \A i \in DOMAIN ledger : ledger[i].id \in Ids
    BY <1>1, LedgerShape
  <2> QED BY <1>1, <2>1, <2>2, OwnIds DEF Silent, Closed
<1>7. Knows(c, mode, gated, ledger, "copyScene", req[c], attempt[c], seen[c], x)
  BY <1>1, <1>2, <1>6
     DEF Knows, Under, Places, Copied, Passed, InLoop, Planned, Unsent, TurnedAway
<1> QED BY <1>3, <1>4, <1>5, <1>7, LocalStep DEF CopyEvents, IInv, Plain

LEMMA CopySceneKeeps ==
  ASSUME IInv, NEW c \in Calls, CopyScene(c)
  PROVE  IInv'
<1>1. /\ TypeOK
      /\ Knows(c, mode, gated, ledger, "copyScene", req[c], attempt[c], seen[c], scratch[c])
  BY DEF IInv, CopyScene
<1> DEFINE x == [scratch[c] EXCEPT !.scene = scene]
<1>2. /\ x \in [events : Seq(Entries), scene : Scenes]
      /\ x.events = scratch[c].events /\ x.scene = scene
  BY <1>1, CallShape DEF TypeOK
<1>3. scratch' \in [Calls -> [events : Seq(Entries), scene : Scenes]] /\ scratch'[c] = x
      /\ \A d \in Calls \ {c} : scratch'[d] = scratch[d]
  BY <1>1, <1>2 DEF TypeOK, CopyScene
<1> HIDE DEF x
<1>4. /\ pc' \in [Calls -> PCs] /\ pc'[c] = "check"
      /\ \A d \in Calls \ {c} : pc'[d] = pc[d]
  <2>1. "check" \in PCs
    BY DEF PCs, InLoop
  <2> QED BY <1>1, <2>1, Moves DEF CopyScene
<1>5. TypeOK'
  BY <1>1, <1>3, <1>4 DEF TypeOK, CopyScene
<1>6. Scalar /\ scene.value # seen[c].value => Overtaken(seen[c], ledger)
  <2> SUFFICES ASSUME Scalar, scene.value # seen[c].value PROVE Overtaken(seen[c], ledger)
    OBVIOUS
  <2>1. PICK n \in 0..Len(ledger) : LeftBy(seen[c], ledger, n)
    BY <1>1 DEF Knows, Reads, Scalar
  <2>2. n # Len(ledger)
    BY <2>1, SceneIsLast DEF LeftBy
  <2>3. n \in 0..(Len(ledger) - 1)
    BY <2>2, SceneIsLast
  <2> QED BY <2>1, <2>3 DEF Overtaken
<1>7. Knows(c, mode, gated, ledger, "check", req[c], attempt[c], seen[c], x)
  BY <1>1, <1>2, <1>6
     DEF Knows, Under, Places, Copied, Passed, InLoop, Planned, Unsent, TurnedAway, Scalar
<1> QED BY <1>3, <1>4, <1>5, <1>7, LocalStep DEF CopyScene, IInv, Plain

\* What a call that is under way is about to write.
LEMMA EntryShape ==
  ASSUME IInv, NEW c \in Calls, pc[c] \in {"check", "commit", "afloat"}
  PROVE  /\ Entry(c) \in Entries /\ Entry(c).id = <<c, attempt[c]>> /\ Entry(c).op = req[c].op
         /\ Entry(c).old = seen[c].value /\ Entry(c).new = Target(req[c], seen[c])
         /\ Entry(c).delta = req[c].arg /\ Entry(c).supersedes = seen[c].assertion
         /\ NewValue(c) = Target(req[c], seen[c]) /\ Target(req[c], seen[c]) \in Int
         /\ IdOf(c) \in Own(c) /\ IdOf(c) = <<c, attempt[c]>>
         /\ req[c] \in Requests /\ req[c].arg \in Int /\ req[c].op \in ValidOps(mode)
<1>1. TypeOK /\ Under(mode, pc[c], req[c], attempt[c], seen[c])
  BY DEF IInv, Knows
<1>2. req[c] \in Requests /\ req[c].arg \in Int /\ req[c].op \in Operations
      /\ req[c].op \in ValidOps(mode)
  BY <1>1, FluentAssumption DEF Under, InLoop
<1>3. req[c].op \in {"Insert", "Remove"} => seen[c].value \in Int
  BY <1>1 DEF Under, Planned
<1>4. NewValue(c) = Target(req[c], seen[c]) /\ Target(req[c], seen[c]) \in Int
  BY <1>2, <1>3 DEF NewValue, Target
<1>5. IdOf(c) \in Own(c) /\ IdOf(c) \in Ids /\ IdOf(c) = <<c, attempt[c]>>
  BY <1>1, CallShape, OwnIds DEF IdOf
<1>6. seen[c].value \in Values /\ seen[c].assertion \in Ids \cup {NoAssertion}
  BY <1>1, CallShape
<1>7. /\ Entry(c) = [id |-> IdOf(c), op |-> req[c].op, old |-> seen[c].value,
                     delta |-> req[c].arg, new |-> NewValue(c), supersedes |-> seen[c].assertion]
  BY DEF Entry
<1> HIDE DEF IdOf, Ids
<1>8. Entry(c) \in Entries
  BY <1>2, <1>4, <1>5, <1>6, <1>7 DEF Entries
<1> QED BY <1>2, <1>4, <1>5, <1>7, <1>8

\* An entry that its copy of the ledger does not know is in the gate's scope.
LEMMA CandidateIsLive ==
  ASSUME IInv, NEW c \in Calls, pc[c] = "check", GuardHolds(c, scratch[c].scene)
  PROVE  Entry(c) \in Live(TrialEvents(c))
<1>1. TypeOK /\ Silent(scratch[c].events, c)
  BY DEF IInv, Knows, Copied
<1> DEFINE s == scratch[c].events
           e == Entry(c)
           t == Append(s, e)
<1>2. TrialEvents(c) = t
  BY DEF TrialEvents, Transition
<1>3. s \in Seq(Entries) /\ e \in Entries /\ e.id \in Own(c) /\ e.supersedes = seen[c].assertion
  BY <1>1, CallShape, EntryShape
<1>4. seen[c].assertion \notin Own(c)
  <2>1. CASE Scalar
    <3>1. PICK n \in 0..Len(ledger) : LeftBy(seen[c], ledger, n)
      BY <2>1 DEF IInv, Knows, Reads, Scalar
    <3>2. \A i \in DOMAIN ledger : ledger[i].id[1] # c
      BY DEF IInv, Knows, Places, Unsent
    <3> QED BY <1>1, <3>1, <3>2, LedgerShape, OwnIds DEF LeftBy
  <2>2. CASE ~Scalar
    BY <2>2, OwnIds DEF IInv, Plain
  <2> QED BY <2>1, <2>2
<1> HIDE DEF s, e
<1> DEFINE m == Len(s) + 1
<1>5. /\ m \in DOMAIN t /\ t[m] = e /\ \A i \in DOMAIN s : t[i] = s[i]
      /\ \A i \in DOMAIN t : i = m \/ i \in DOMAIN s
  BY <1>3, Longer
<1>6. \A i \in DOMAIN t : t[i].supersedes \notin Own(c)
  BY <1>1, <1>3, <1>4, <1>5 DEF Silent, s
<1> HIDE DEF t, m
<1>7. e \in Live(t)
  BY <1>3, <1>5, <1>6 DEF Live
<1> QED BY <1>2, <1>7 DEF e

LEMMA CheckKeeps ==
  ASSUME IInv, NEW c \in Calls, Check(c)
  PROVE  IInv'
<1>1. /\ TypeOK /\ pc[c] = "check"
      /\ Knows(c, mode, gated, ledger, "check", req[c], attempt[c], seen[c], scratch[c])
  BY DEF IInv, Check
<1>2. NoScratch \in [events : Seq(Entries), scene : Scenes]
  BY DEF NoScratch, Scenes, Values
<1>3. scratch' \in [Calls -> [events : Seq(Entries), scene : Scenes]] /\ scratch'[c] = NoScratch
      /\ \A d \in Calls \ {c} : scratch'[d] = scratch[d]
  BY <1>1, <1>2 DEF TypeOK, Check
<1>4. \A i \in DOMAIN ledger : ledger[i].id[1] # c
  BY <1>1 DEF Knows, Places, Unsent
<1>5. CASE Lose(c)
  <2>1. /\ attempt' \in [Calls -> 0..Attempts] /\ pc' \in [Calls -> PCs]
        /\ \A d \in Calls \ {c} : pc'[d] = pc[d] /\ attempt'[d] = attempt[d]
        /\ Knows(c, mode, gated, ledger, pc'[c], req[c], attempt'[c], seen[c], NoScratch)
    BY <1>1, <1>4, <1>5, Loses DEF InLoop
  <2>2. TypeOK'
    BY <1>1, <1>3, <2>1 DEF TypeOK, Check
  <2> QED BY <1>3, <2>1, <2>2, LocalStep DEF Check, IInv, Plain
<1>6. CASE LET scope == Live(TrialEvents(c)) IN
             Goto(c, IF Conforms(scope) THEN "commit" ELSE "rejected") /\ UNCHANGED attempt
  <2>1. PICK l \in {"commit", "rejected"} :
          Goto(c, l) /\ (l = "commit" => Conforms(Live(TrialEvents(c))))
    BY <1>6
  <2>2. l \in PCs
    BY DEF PCs, InLoop, Finished, TurnedAway
  <2>3. pc' \in [Calls -> PCs] /\ pc'[c] = l /\ \A d \in Calls \ {c} : pc'[d] = pc[d]
    BY <1>1, <2>1, <2>2, Moves
  <2>4. TypeOK'
    BY <1>1, <1>3, <1>6, <2>3 DEF TypeOK, Check
  <2>5. l = "commit" /\ req[c].op # "ListRemove" =>
          \/ Target(req[c], seen[c]) \in Allowed
          \/ mode # "ListAccumulator" /\ Overtaken(seen[c], ledger)
    <3> SUFFICES ASSUME l = "commit", req[c].op # "ListRemove"
                 PROVE  \/ Target(req[c], seen[c]) \in Allowed
                        \/ mode # "ListAccumulator" /\ Overtaken(seen[c], ledger)
      OBVIOUS
    <3>1. CASE GuardHolds(c, scratch[c].scene)
      <4>1. Entry(c).new \in Allowed
        BY <1>1, <2>1, <3>1, CandidateIsLive DEF Conforms
      <4> QED BY <1>1, <4>1, EntryShape
    <3>2. CASE ~GuardHolds(c, scratch[c].scene)
      <4>1. req[c].op \notin {"ListInsert", "ListRemove"} /\ scratch[c].scene.value # seen[c].value
        BY <3>2 DEF GuardHolds
      <4>2. req[c].op \in ValidOps(mode)
        BY <1>1, EntryShape
      <4>3. mode # "ListAccumulator"
        BY <4>1, <4>2 DEF ValidOps
      <4> QED BY <1>1, <4>1, <4>3 DEF Knows, Copied
    <3> QED BY <3>1, <3>2
  <2>6. Under(mode, l, req[c], attempt[c], seen[c]) /\ Places(c, l, attempt[c], ledger)
    BY <1>1 DEF Knows, Under, Places, InLoop, Planned, Unsent, TurnedAway
  <2>7. Knows(c, mode, gated, ledger, l, req[c], attempt[c], seen[c], NoScratch)
    BY <1>1, <2>5, <2>6 DEF Knows, Copied, Passed
  <2> QED BY <1>3, <1>6, <2>3, <2>4, <2>7, LocalStep DEF Check, IInv, Plain
<1> QED BY <1>5, <1>6 DEF Check

LEMMA ConfirmKeeps ==
  ASSUME IInv, NEW c \in Calls, Confirm(c)
  PROVE  IInv'
<1>1. /\ TypeOK /\ pc[c] = "confirm"
      /\ Knows(c, mode, gated, ledger, "confirm", req[c], attempt[c], seen[c], scratch[c])
  BY DEF IInv, Confirm
<1>2. CASE Confirmed(c) /\ Goto(c, "done") /\ UNCHANGED attempt
  <2>1. "done" \in PCs
    BY DEF PCs, Finished
  <2>2. \E i \in DOMAIN ledger : ledger[i].id[1] = c
    BY <1>2 DEF Confirmed, IdOf
  <2>3. Places(c, "done", attempt[c], ledger)
    BY <2>2 DEF Places, Unsent, TurnedAway
  <2>4. Knows(c, mode, gated, ledger, "done", req[c], attempt[c], seen[c], scratch[c])
    BY <1>1, <2>3 DEF Knows, Under, Copied, Passed, InLoop, Planned
  <2> QED BY <1>2, <2>1, <2>4, OnlyMoves DEF Confirm
<1>3. CASE ~Confirmed(c) /\ Lose(c)
  <2>1. \A i \in DOMAIN ledger : ledger[i].id[1] # c
    BY <1>1, <1>3 DEF Knows, Places, Confirmed, IdOf
  <2>2. /\ attempt' \in [Calls -> 0..Attempts] /\ pc' \in [Calls -> PCs]
        /\ \A d \in Calls \ {c} : pc'[d] = pc[d] /\ attempt'[d] = attempt[d]
        /\ Knows(c, mode, gated, ledger, pc'[c], req[c], attempt'[c], seen[c], NoScratch)
    BY <1>1, <1>3, <2>1, Loses DEF InLoop
  <2>3. TypeOK'
    BY <1>1, <2>2 DEF TypeOK, Confirm
  <2>4. pc'[c] \in {"read", "exhausted"}
    BY <1>1, <1>3 DEF Lose, Goto, AfterLoss, TypeOK
  <2>5. Knows(c, mode, gated, ledger, pc'[c], req[c], attempt'[c], seen[c], scratch[c])
    BY <2>2, <2>4 DEF Knows, Copied
  <2> QED BY <2>2, <2>3, <2>5, LocalStep DEF Confirm, IInv, Plain
<1> QED BY <1>2, <1>3 DEF Confirm

LEMMA AbortKeeps ==
  ASSUME IInv, NEW c \in Calls, Abort(c)
  PROVE  IInv'
<1>1. /\ TypeOK
      /\ Knows(c, mode, gated, ledger, pc[c], req[c], attempt[c], seen[c], scratch[c])
  BY DEF IInv
<1>2. NoScratch \in [events : Seq(Entries), scene : Scenes]
  BY DEF NoScratch, Scenes, Values
<1>3. scratch' \in [Calls -> [events : Seq(Entries), scene : Scenes]] /\ scratch'[c] = NoScratch
      /\ \A d \in Calls \ {c} : scratch'[d] = scratch[d]
  BY <1>1, <1>2 DEF TypeOK, Abort
<1>4. /\ pc' \in [Calls -> PCs] /\ pc'[c] = "aborted"
      /\ \A d \in Calls \ {c} : pc'[d] = pc[d]
  <2>1. "aborted" \in PCs
    BY DEF PCs, Finished
  <2> QED BY <1>1, <2>1, Moves DEF Abort
<1>5. TypeOK'
  BY <1>1, <1>3, <1>4 DEF TypeOK, Abort
<1>6. Knows(c, mode, gated, ledger, "aborted", req[c], attempt[c], seen[c], NoScratch)
  BY <1>1 DEF Knows, Under, Places, Copied, Passed, InLoop, Planned, Unsent, TurnedAway
<1> QED BY <1>3, <1>4, <1>5, <1>6, LocalStep DEF Abort, IInv, Plain

LEMMA TimeOutKeeps ==
  ASSUME IInv, NEW c \in Calls, TimeOut(c)
  PROVE  IInv'
<1>1. Knows(c, mode, gated, ledger, "commit", req[c], attempt[c], seen[c], scratch[c])
  BY DEF IInv, TimeOut
<1>2. "afloat" \in PCs
  BY DEF PCs
<1>3. Knows(c, mode, gated, ledger, "afloat", req[c], attempt[c], seen[c], scratch[c])
  BY <1>1 DEF Knows, Under, Places, Copied, Passed, InLoop, Planned, Unsent, TurnedAway
<1> QED BY <1>2, <1>3, OnlyMoves DEF TimeOut
\* The operation of a call that is about to write is one of its mode.
LEMMA ModeTells ==
  ASSUME IInv, NEW c \in Calls, pc[c] \in {"check", "commit", "afloat"}
  PROVE  /\ Scalar <=> req[c].op \notin {"ListInsert", "ListRemove"}
         /\ Scalar /\ GuardHolds(c, scene) => scene.value = seen[c].value
<1>1. mode \in {"NumericAccumulator", "DateAccumulator", "SetValueMode", "ListAccumulator"}
  BY FluentAssumption DEF IInv, TypeOK
<1>2. Scalar <=> req[c].op \notin {"ListInsert", "ListRemove"}
  BY <1>1, EntryShape DEF ValidOps, Scalar
<1> QED BY <1>2 DEF GuardHolds
-----------------------------------------------------------------------------
(***************************************************************************)
(* A transition that lands: the ledger t is the ledger s and one entry e.  *)
(***************************************************************************)

\* The scene a transition leaves is a scene, and what the longer ledger says.
LEMMA SceneFollows ==
  ASSUME IInv, TypeOK', mode' = mode, NEW c \in Calls, pc[c] \in {"commit", "afloat"},
         GuardHolds(c, scene), scene' = SceneAfter(c, scene), ledger' = Append(ledger, Entry(c))
  PROVE  SceneMatchesLedger'
<1> DEFINE e == Entry(c)
           n == Len(ledger) + 1
           x == req[c].arg
<1>1. TypeOK /\ SceneMatchesLedger /\ ledger \in Seq(Entries)
  BY DEF IInv, TypeOK
<1>2. /\ e \in Entries /\ e.id = IdOf(c) /\ e.op = req[c].op /\ e.new = NewValue(c)
      /\ req[c] \in Requests /\ x \in Int /\ req[c].op \in ValidOps(mode)
  BY EntryShape DEF IdOf
<1> HIDE DEF e
<1>3. /\ Len(ledger') = n /\ n \in DOMAIN ledger' /\ ledger'[n] = e /\ Len(ledger) \in Nat
      /\ DOMAIN ledger = 1..Len(ledger)
      /\ \A i \in DOMAIN ledger : i \in DOMAIN ledger' /\ ledger'[i] = ledger[i]
      /\ \A i \in DOMAIN ledger' : i = n \/ i \in DOMAIN ledger
  BY <1>1, <1>2, Longer DEF e
<1>4. CASE Scalar
  <2>1. req[c].op \notin {"ListInsert", "ListRemove"}
    BY <1>4, ModeTells
  <2>2. scene'.value = NewValue(c) /\ scene'.assertion = IdOf(c)
    BY <1>1, <2>1 DEF SceneAfter, TypeOK, Scenes
  <2>3. ledger' # <<>>
    BY <1>3
  <2> QED BY <1>2, <1>3, <1>4, <2>2, <2>3 DEF SceneMatchesLedger, Scalar
<1>5. CASE ~Scalar
  <2>1. req[c].op \in {"ListInsert", "ListRemove"} /\ e.new = x
    BY <1>2, <1>5, ModeTells DEF NewValue
  <2>2. scene'.items = IF req[c].op = "ListInsert" THEN scene.items \cup {x} ELSE scene.items \ {x}
    BY <1>1, <2>1 DEF SceneAfter, TypeOK, Scenes
  <2>3. ASSUME NEW y \in {r.arg : r \in Requests}
        PROVE  y \in scene'.items <=> LastIsInsert(y)'
    <3>1. y \in scene.items <=> LastIsInsert(y)
      BY <1>1, <1>5, <2>3 DEF SceneMatchesLedger, Scalar
    <3>2. CASE y # x
      <4>1. LastIsInsert(y) => LastIsInsert(y)'
        BY <1>2, <1>3, <2>1, <3>2 DEF LastIsInsert
      <4>2. LastIsInsert(y)' => LastIsInsert(y)
        BY <1>2, <1>3, <2>1, <3>2 DEF LastIsInsert
      <4> QED BY <2>2, <3>1, <3>2, <4>1, <4>2
    <3>3. CASE y = x /\ req[c].op = "ListInsert"
      <4>1. \A j \in DOMAIN ledger' : ~(j > n)
        BY <1>3
      <4>2. LastIsInsert(y)'
        BY <1>2, <1>3, <2>1, <3>3, <4>1 DEF LastIsInsert
      <4> QED BY <2>2, <3>3, <4>2
    <3>4. CASE y = x /\ req[c].op = "ListRemove"
      <4>1. ASSUME NEW i \in DOMAIN ledger', ledger'[i].op = "ListInsert"
            PROVE  n > i
        BY <1>2, <1>3, <3>4, <4>1
      <4>2. ~LastIsInsert(y)'
        BY <1>2, <1>3, <2>1, <3>4, <4>1 DEF LastIsInsert
      <4> QED BY <2>2, <3>4, <4>2
    <3> QED BY <2>1, <3>2, <3>3, <3>4
  <2> QED BY <1>5, <2>3 DEF SceneMatchesLedger, Scalar
<1> QED BY <1>4, <1>5

\* Each entry starts from what the one before it left.
LEMMA NothingIsLost ==
  ASSUME IInv, mode' = mode, NEW c \in Calls, pc[c] \in {"commit", "afloat"},
         GuardHolds(c, scene), ledger' = Append(ledger, Entry(c))
  PROVE  NoLostUpdate'
<1> SUFFICES ASSUME Scalar, NEW i \in DOMAIN ledger'
             PROVE  LET e == ledger'[i] IN
                      /\ e.old = IF i = 1 THEN NoValue ELSE ledger'[i - 1].new
                      /\ e.op = "Insert" => e.new = e.old + e.delta
                      /\ e.op = "Remove" => e.new = e.old - e.delta
  BY DEF NoLostUpdate, Scalar
<1> DEFINE e == Entry(c)
           n == Len(ledger) + 1
<1>1. TypeOK /\ NoLostUpdate /\ ledger \in Seq(Entries)
  BY DEF IInv, TypeOK
<1>2. /\ e \in Entries /\ e.op = req[c].op /\ e.old = seen[c].value /\ e.delta = req[c].arg
      /\ e.new = Target(req[c], seen[c]) /\ req[c].op \in ValidOps(mode)
  BY EntryShape
<1> HIDE DEF e
<1>3. /\ ledger'[n] = e /\ Len(ledger) \in Nat /\ DOMAIN ledger = 1..Len(ledger)
      /\ \A k \in DOMAIN ledger : ledger'[k] = ledger[k]
      /\ i = n \/ i \in DOMAIN ledger
  BY <1>1, <1>2, Longer DEF e
<1>4. CASE i \in DOMAIN ledger
  <2>1. i # 1 => i - 1 \in DOMAIN ledger
    BY <1>3, <1>4
  <2> QED BY <1>1, <1>3, <1>4, <2>1 DEF NoLostUpdate, Scalar
<1>5. CASE i = n
  <2>1. scene.value = seen[c].value
    BY ModeTells
  <2>2. seen[c].value = IF i = 1 THEN NoValue ELSE ledger'[i - 1].new
    <3>1. LeftBy(scene, ledger, Len(ledger))
      BY SceneIsLast
    <3>2. i - 1 = Len(ledger) /\ (i = 1 <=> Len(ledger) = 0)
      BY <1>3, <1>5
    <3>3. i # 1 => ledger'[i - 1] = ledger[Len(ledger)]
      BY <1>3, <3>2
    <3> QED BY <2>1, <3>1, <3>2, <3>3 DEF LeftBy
  <2> QED BY <1>2, <1>3, <1>5, <2>2 DEF Target
<1> QED BY <1>3, <1>4, <1>5

\* Unless a value came back, what the call read is what the scene still says:
\* its entry supersedes the last one, and the gate judged it as it lands.
LEMMA StaysSound ==
  ASSUME IInv, UNCHANGED <<mode, gated>>, NEW c \in Calls, pc[c] \in {"commit", "afloat"},
         GuardHolds(c, scene), ledger' = Append(ledger, Entry(c))
  PROVE  Sound'
<1> SUFFICES ASSUME ValuesNeverRecur'
             PROVE  (Scalar => Chained(ledger')) /\ GateSound'
  BY DEF Sound, Scalar
<1> DEFINE e == Entry(c)
           n == Len(ledger) + 1
           t == ledger'
<1>1. /\ TypeOK /\ SceneMatchesLedger /\ Sound /\ ledger \in Seq(Entries)
      /\ Knows(c, mode, gated, ledger, pc[c], req[c], attempt[c], seen[c], scratch[c])
  BY DEF IInv, TypeOK
<1>2. /\ e \in Entries /\ e.supersedes = seen[c].assertion /\ e.new = Target(req[c], seen[c])
      /\ req[c] \in Requests /\ req[c].op \in ValidOps(mode)
  BY EntryShape
<1> HIDE DEF e
<1>3. /\ n \in DOMAIN t /\ t[n] = e /\ Len(ledger) \in Nat /\ DOMAIN ledger = 1..Len(ledger)
      /\ \A i \in DOMAIN ledger : i \in DOMAIN t /\ t[i] = ledger[i]
      /\ \A i \in DOMAIN t : i = n \/ i \in DOMAIN ledger
  BY <1>1, <1>2, Longer DEF e
<1>4. \A i, j \in DOMAIN t : t[i].new = t[j].new => i = j
  BY DEF ValuesNeverRecur
<1> HIDE DEF t
<1>5. ValuesNeverRecur
  BY <1>3, <1>4 DEF ValuesNeverRecur
<1>6. (Scalar => Chained(ledger)) /\ GateSound
  BY <1>1, <1>5 DEF Sound
<1>7. Scalar => ~Overtaken(seen[c], ledger) /\ LeftBy(seen[c], ledger, Len(ledger))
  <2> SUFFICES ASSUME Scalar
               PROVE  ~Overtaken(seen[c], ledger) /\ LeftBy(seen[c], ledger, Len(ledger))
    OBVIOUS
  <2>1. scene.value = seen[c].value
    BY ModeTells
  <2>2. LeftBy(scene, ledger, Len(ledger))
    BY SceneIsLast
  <2>3. \A i \in DOMAIN ledger : ledger[i].new # NoValue
    BY <1>1, LedgerShape, FluentAssumption
  <2>4. ASSUME NEW k \in 0..Len(ledger), LeftBy(seen[c], ledger, k)
        PROVE  k = Len(ledger)
    <3>1. k # 0 /\ Len(ledger) # 0 => ledger[k].new = ledger[Len(ledger)].new
      BY <2>1, <2>2, <2>4 DEF LeftBy
    <3>2. k = 0 => Len(ledger) = 0
      BY <1>3, <2>1, <2>2, <2>3, <2>4 DEF LeftBy
    <3> QED BY <1>3, <1>5, <3>1, <3>2 DEF ValuesNeverRecur
  <2>5. \E k \in 0..Len(ledger) : LeftBy(seen[c], ledger, k)
    BY <1>1 DEF Knows, Reads, Scalar
  <2>6. LeftBy(seen[c], ledger, Len(ledger))
    BY <2>4, <2>5
  <2>7. ASSUME NEW k \in 0..(Len(ledger) - 1) PROVE ~LeftBy(seen[c], ledger, k)
    <3>1. Len(ledger) \in Nat
      BY <1>3
    <3>2. k \in 0..Len(ledger) /\ k # Len(ledger)
      BY <2>7, <3>1
    <3> QED BY <2>4, <3>2
  <2> QED BY <2>6, <2>7 DEF Overtaken
<1>8. Scalar => Chained(t)
  <2> SUFFICES ASSUME Scalar, NEW i \in DOMAIN t, i > 1
               PROVE  t[i].supersedes = t[i - 1].id
    BY DEF Chained
  <2>1. CASE i = n
    <3>1. i - 1 = Len(ledger) /\ Len(ledger) # 0 /\ Len(ledger) \in DOMAIN ledger
      BY <1>3, <2>1
    <3> QED BY <1>2, <1>3, <1>7, <2>1, <3>1 DEF LeftBy
  <2>2. CASE i \in DOMAIN ledger
    <3>1. i - 1 \in DOMAIN ledger
      BY <1>3, <2>2
    <3> QED BY <1>3, <1>6, <2>2, <3>1 DEF Chained
  <2> QED BY <1>3, <2>1, <2>2
<1>9. gated => e.new \in Allowed
  <2> SUFFICES ASSUME gated PROVE e.new \in Allowed
    OBVIOUS
  <2>1. req[c].op # "ListRemove"
    <3> SUFFICES ASSUME req[c].op = "ListRemove" PROVE FALSE
      OBVIOUS
    <3>1. ~Scalar /\ e.new = req[c].arg
      BY <1>2, ModeTells DEF Target
    <3>2. LastIsInsert(req[c].arg)
      BY <1>1, <1>2, <3>1 DEF GuardHolds, SceneMatchesLedger, Scalar
    <3>3. PICK i \in DOMAIN ledger : ledger[i].new = e.new
      BY <3>1, <3>2 DEF LastIsInsert
    <3> QED BY <1>3, <1>4, <3>3
  <2> QED BY <1>1, <1>2, <1>7, <2>1 DEF Knows, Passed, Scalar
<1>10. GateSound'
  <2> SUFFICES ASSUME gated, NEW i \in DOMAIN t PROVE t[i].new \in Allowed
    BY DEF GateSound, t
  <2> QED BY <1>3, <1>6, <1>9 DEF GateSound
<1> QED BY <1>8, <1>10 DEF t

\* The scene and the ledger keep their sorts, and the ledger its keys.
LEMMA StoreFollows ==
  ASSUME IInv, NEW c \in Calls, pc[c] \in {"commit", "afloat"},
         scene' = SceneAfter(c, scene), ledger' = Append(ledger, Entry(c))
  PROVE  /\ scene' \in Scenes /\ ledger' \in Seq(Entries)
         /\ OnceIn(ledger') /\ Closed(ledger')
         /\ ~Scalar => scene'.assertion = NoAssertion
<1> DEFINE e == Entry(c)
           n == Len(ledger) + 1
           t == ledger'
<1>1. /\ TypeOK /\ Closed(ledger) /\ OnceIn(ledger) /\ ledger \in Seq(Entries)
      /\ Knows(c, mode, gated, ledger, pc[c], req[c], attempt[c], seen[c], scratch[c])
  BY DEF IInv, TypeOK
<1>2. /\ e \in Entries /\ e.id = IdOf(c) /\ e.id[1] = c /\ e.supersedes = seen[c].assertion
      /\ NewValue(c) \in Int /\ req[c].arg \in Int /\ IdOf(c) \in Ids
  BY EntryShape, OwnIds, <1>1, CallShape DEF IdOf
<1> HIDE DEF e
<1>3. /\ t \in Seq(Entries) /\ n \in DOMAIN t /\ t[n] = e
      /\ \A i \in DOMAIN ledger : i \in DOMAIN t /\ t[i] = ledger[i]
      /\ \A i \in DOMAIN t : i = n \/ i \in DOMAIN ledger
  BY <1>1, <1>2, Longer DEF e
<1>4. \A i \in DOMAIN ledger : ledger[i].id[1] # c
  BY <1>1 DEF Knows, Places, Unsent
<1> HIDE DEF n, t
<1>5. OnceIn(t)
  BY <1>1, <1>2, <1>3, <1>4 DEF OnceIn
<1>6. e.supersedes = NoAssertion \/ \E j \in DOMAIN ledger : e.supersedes = ledger[j].id
  <2>1. CASE Scalar
    BY <1>1, <1>2, <2>1, LedgerShape DEF Knows, Reads, LeftBy, Scalar
  <2>2. CASE ~Scalar
    BY <1>2, <2>2 DEF IInv, Plain
  <2> QED BY <2>1, <2>2
<1>7. Closed(t)
  <2>1. ASSUME NEW i \in DOMAIN t
        PROVE  \/ t[i].supersedes = NoAssertion
               \/ \E j \in DOMAIN ledger : t[i].supersedes = ledger[j].id
    BY <1>1, <1>3, <1>6, <2>1 DEF Closed
  <2> QED BY <1>3, <2>1 DEF Closed
<1>8. scene' \in Scenes
  <2>1. scene \in Scenes
    BY <1>1 DEF TypeOK
  <2>2. scene.items \cup {req[c].arg} \in SUBSET Int /\ scene.items \ {req[c].arg} \in SUBSET Int
    BY <1>2, <2>1 DEF Scenes
  <2> HIDE DEF e
  <2> QED BY <1>2, <2>1, <2>2 DEF SceneAfter, Scenes, Values
<1>9. ~Scalar => scene'.assertion = NoAssertion
  <2> SUFFICES ASSUME ~Scalar PROVE scene'.assertion = NoAssertion
    OBVIOUS
  <2>1. scene.assertion = NoAssertion /\ scene \in Scenes
    BY <1>1 DEF IInv, Plain, TypeOK
  <2> QED BY <2>1, ModeTells DEF SceneAfter, Scenes
<1> QED BY <1>3, <1>5, <1>7, <1>8, <1>9 DEF t

\* What any call knows outlives a landing, and the one that lands moves on.
LEMMA CallsFollow ==
  ASSUME IInv, UNCHANGED <<mode, gated, req, attempt, seen, scratch>>,
         NEW c \in Calls, pc[c] \in {"commit", "afloat"}, ledger' = Append(ledger, Entry(c)),
         NEW l \in {"confirm", "aborted"}, l = "confirm" => pc[c] = "commit",
         pc'[c] = l, NEW d \in Calls, d # c => pc'[d] = pc[d]
  PROVE  Knows(d, mode', gated', ledger', pc'[d], req'[d], attempt'[d], seen'[d], scratch'[d])
<1> DEFINE e == Entry(c)
           n == Len(ledger) + 1
           t == ledger'
<1>1. TypeOK /\ ledger \in Seq(Entries)
      /\ Knows(d, mode, gated, ledger, pc[d], req[d], attempt[d], seen[d], scratch[d])
  BY DEF IInv, TypeOK
<1>2. e \in Entries /\ e.id = <<c, attempt[c]>>
  BY EntryShape
<1> HIDE DEF e
<1>3. /\ n \in DOMAIN t /\ t[n] = e
      /\ \A i \in DOMAIN ledger : i \in DOMAIN t /\ t[i] = ledger[i]
      /\ \A i \in DOMAIN t : i = n \/ i \in DOMAIN ledger
  BY <1>1, <1>2, Longer DEF e
<1>4. /\ Reads(seen[d], ledger) => Reads(seen[d], t)
      /\ Overtaken(seen[d], ledger) => Overtaken(seen[d], t)
  BY <1>1, <1>2, StillRead DEF e
<1> HIDE DEF n, t
<1>5. Under(mode, pc'[d], req[d], attempt[d], seen[d])
  BY <1>1 DEF Knows, Under, InLoop, Planned
<1>6. Places(d, pc'[d], attempt[d], t)
  <2>1. CASE d # c
    <3>1. e.id[1] # d
      BY <1>2, <2>1
    <3> QED BY <1>1, <1>3, <2>1, <3>1 DEF Knows, Places
  <2>2. CASE d = c
    <3>1. \A i \in DOMAIN ledger : ledger[i].id[1] # c
      BY <1>1, <2>2 DEF Knows, Places, Unsent
    <3>2. \A i \in DOMAIN t : t[i].id[1] = c => t[i].id = <<c, attempt[c]>>
      BY <1>2, <1>3, <3>1
    <3> QED BY <2>2, <3>2 DEF Places, Unsent, TurnedAway
  <2> QED BY <2>1, <2>2
<1>7. Copied(d, mode, pc'[d], seen[d], scratch[d], t)
  BY <1>1, <1>4 DEF Knows, Copied
<1>8. Passed(mode, gated, pc'[d], req[d], seen[d], t)
  BY <1>1, <1>4 DEF Knows, Passed
<1> QED BY <1>1, <1>4, <1>5, <1>6, <1>7, <1>8 DEF Knows, t

LEMMA LandingKeeps ==
  ASSUME IInv, NEW c \in Calls, pc[c] \in {"commit", "afloat"}, ApplyLive(c),
         UNCHANGED <<mode, gated, req, attempt, seen, scratch>>,
         NEW l \in {"confirm", "aborted"}, l = "confirm" => pc[c] = "commit", Goto(c, l)
  PROVE  IInv'
<1>1. /\ TypeOK
      /\ Knows(c, mode, gated, ledger, pc[c], req[c], attempt[c], seen[c], scratch[c])
  BY DEF IInv
<1>2. l \in PCs
  BY DEF PCs, InLoop, Finished
<1>3. pc' \in [Calls -> PCs] /\ pc'[c] = l /\ \A d \in Calls \ {c} : pc'[d] = pc[d]
  BY <1>1, <1>2, Moves
<1>4. CASE ~GuardHolds(c, scene)
  <2>1. UNCHANGED <<scene, ledger>>
    BY <1>4 DEF ApplyLive, Transition
  <2>2. Knows(c, mode, gated, ledger, l, req[c], attempt[c], seen[c], scratch[c])
    BY <1>1 DEF Knows, Under, Places, Copied, Passed, InLoop, Planned, Unsent, TurnedAway
  <2> QED BY <1>2, <2>1, <2>2, OnlyMoves
<1>5. CASE GuardHolds(c, scene)
  <2>1. scene' = SceneAfter(c, scene) /\ ledger' = Append(ledger, Entry(c))
    BY <1>5 DEF ApplyLive, Transition
  <2>2. /\ scene' \in Scenes /\ ledger' \in Seq(Entries) /\ OnceIn(ledger') /\ Closed(ledger')
        /\ ~Scalar => scene'.assertion = NoAssertion
    BY <2>1, StoreFollows
  <2>3. TypeOK'
    BY <1>1, <1>3, <2>2 DEF TypeOK
  <2>4. SceneMatchesLedger' /\ NoLostUpdate' /\ Sound'
    BY <1>5, <2>1, <2>3, SceneFollows, NothingIsLost, StaysSound
  <2>5. Plain'
    BY <2>2 DEF IInv, Plain, Scalar
  <2>6. \A d \in Calls :
          Knows(d, mode', gated', ledger', pc'[d], req'[d], attempt'[d], seen'[d], scratch'[d])
    BY <1>3, <2>1, CallsFollow
  <2> QED BY <2>2, <2>3, <2>4, <2>5, <2>6 DEF IInv
<1> QED BY <1>4, <1>5
-----------------------------------------------------------------------------
LEMMA StepKeeps ==
  ASSUME IInv, [Next]_vars
  PROVE  IInv'
<1>1. CASE UNCHANGED vars
  BY <1>1 DEF vars, IInv, TypeOK, SceneMatchesLedger, LastIsInsert, NoLostUpdate, Plain, Scalar,
              Sound, ValuesNeverRecur, GateSound
<1>2. CASE Next
  <2>1. PICK c \in Calls : UpdateFluent(c) \/ Fail(c)
    BY <1>2 DEF Next
  <2>2. CASE Commit(c)
    BY <2>2, LandingKeeps DEF Commit
  <2>3. CASE LateCommit(c)
    BY <2>3, LandingKeeps DEF LateCommit
  <2> QED BY <2>1, <2>2, <2>3, StartKeeps, ReadCurrentKeeps, CheckMemberKeeps, MintAndPlanKeeps,
             CopyEventsKeeps, CopySceneKeeps, CheckKeeps, ConfirmKeeps, AbortKeeps, TimeOutKeeps
          DEF UpdateFluent, Fail
<1> QED BY <1>1, <1>2

\* The inductive invariant holds of every behaviour of concurrent transitions.
THEOREM InductiveInvariant == Spec => []IInv
<1>1. Init => IInv
  BY Initially
<1>2. IInv /\ [Next]_vars => IInv'
  BY StepKeeps
<1> QED BY <1>1, <1>2, PTL DEF Spec

\* The types of the scene, the ledger and the calls, for any constants that
\* satisfy the assumption (fluent.py).
THEOREM TypeCorrect == Spec => []TypeOK
<1>1. IInv => TypeOK
  BY DEF IInv
<1> QED BY <1>1, InductiveInvariant, PTL

\* A set whose elements are all equal has at most one.
LEMMA AtMostOne ==
  ASSUME NEW S, \A x, y \in S : x = y
  PROVE  Cardinality(S) <= 1
<1>1. CASE S = {}
  BY <1>1, FS_EmptySet
<1>2. CASE S # {}
  <2>1. PICK x \in S : TRUE
    BY <1>2
  <2>2. S = {x}
    BY <2>1
  <2> QED BY <2>2, FS_Singleton
<1> QED BY <1>1, <1>2

\* However transitions, retries, failures and late commits interleave, the
\* scene is what the ledger says last, no update is lost, no call is applied
\* twice, and every answer is true (fluent.py).
THEOREM TheLedgerAccounts == Spec => []LedgerAccounts
<1>1. IInv => LedgerAccounts
  <2> SUFFICES ASSUME IInv PROVE LedgerAccounts
    OBVIOUS
  <2>1. AppliedOnce
    <3>1. ASSUME NEW c \in Calls PROVE \A i, j \in EntriesOf(c) : i = j
      BY DEF IInv, OnceIn, EntriesOf
    <3> QED BY <3>1, AtMostOne DEF AppliedOnce
  <2>2. AnswersAreTrue
    BY DEF IInv, Knows, Places, AnswersAreTrue, EntriesOf, TurnedAway
  <2> QED BY <2>1, <2>2 DEF IInv, LedgerAccounts
<1> QED BY <1>1, InductiveInvariant, PTL

\* Unless a value came back, each transition of a scalar fluent supersedes the
\* one before it, and the gate lets nothing past that the shapes refuse
\* (fluent.py).
THEOREM SoundWhereNoValueRecurs == Spec => []SoundUnlessValueRecurs
<1>1. IInv => SoundUnlessValueRecurs
  <2> SUFFICES ASSUME IInv, ValuesNeverRecur PROVE OneLiveAssertion /\ GateSound
    BY DEF SoundUnlessValueRecurs
  <2>1. GateSound /\ (Scalar => Chained(ledger))
    BY DEF IInv, Sound
  <2>2. Scalar => \A x, y \in Live(ledger) : x = y
    <3> SUFFICES ASSUME Scalar, NEW x \in Live(ledger) PROVE x = ledger[Len(ledger)]
      OBVIOUS
    <3>1. PICK i \in DOMAIN ledger :
            x = ledger[i] /\ \A k \in DOMAIN ledger : ledger[k].supersedes # ledger[i].id
      BY DEF Live
    <3>2. Len(ledger) \in Nat /\ DOMAIN ledger = 1..Len(ledger)
      BY LedgerShape DEF IInv
    <3>3. i # Len(ledger) => i + 1 \in DOMAIN ledger /\ i + 1 > 1 /\ (i + 1) - 1 = i
      BY <3>1, <3>2
    <3> QED BY <2>1, <3>1, <3>3 DEF Chained
  <2> QED BY <2>1, <2>2, AtMostOne DEF OneLiveAssertion, Scalar
<1> QED BY <1>1, InductiveInvariant, PTL
-----------------------------------------------------------------------------
(***************************************************************************)
(* That the calls act as the register of FluentRegister does.              *)
(***************************************************************************)

\* Where the other calls are is not changed by one call's step.
LEMMA PhaseMoves ==
  ASSUME NEW c \in Calls,
         \A d \in Calls \ {c} : pc'[d] = pc[d] /\ (EntriesOf(d) = {} <=> EntriesOf(d)' = {})
  PROVE  Phases' = [Phases EXCEPT ![c] = Phase(c)']
<1>1. \A d \in Calls \ {c} : Phase(d)' = Phase(d)
  BY DEF Phase
<1> QED BY <1>1 DEF Phases

\* A step of a call under way that leaves the graphs alone is none, or the end
\* of a call that has not taken effect.
LEMMA QuietStep ==
  ASSUME NEW c \in Calls, UNCHANGED <<scene, ledger, req>>,
         \A d \in Calls \ {c} : pc'[d] = pc[d],
         pc[c] \in InLoop \cup {"afloat"},
         pc'[c] \in InLoop \cup {"afloat", "aborted"} \cup TurnedAway,
         pc'[c] \in TurnedAway => EntriesOf(c) = {}
  PROVE  Register!End(c) \/ UNCHANGED Register!vars
<1>1. \A d \in Calls : EntriesOf(d)' = EntriesOf(d)
  BY DEF EntriesOf
<1>2. Phases' = [Phases EXCEPT ![c] = Phase(c)']
  BY <1>1, PhaseMoves
<1>3. Phases[c] = Phase(c) /\ Held' = Held
  BY DEF Phases, Held
<1>4. CASE EntriesOf(c) = {}
  <2>1. Phase(c) = "open"
    BY <1>4 DEF Phase, InLoop, TurnedAway
  <2>2. Phase(c)' \in {"open", "turned away", "failed"}
    BY <1>1, <1>4 DEF Phase, InLoop, TurnedAway
  <2>3. CASE Phase(c)' = "open"
    <3>1. Phases' = Phases
      BY <1>2, <1>3, <2>1, <2>3 DEF Phases
    <3> QED BY <1>3, <3>1 DEF Register!vars
  <2>4. CASE Phase(c)' \in {"turned away", "failed"}
    BY <1>2, <1>3, <2>1, <2>4 DEF Register!End
  <2> QED BY <2>2, <2>3, <2>4
<1>5. CASE EntriesOf(c) # {}
  <2>1. Phase(c) = "in effect" /\ Phase(c)' = "in effect"
    BY <1>1, <1>5 DEF Phase, InLoop, TurnedAway
  <2>2. Phases' = Phases
    BY <1>2, <1>3, <2>1 DEF Phases
  <2> QED BY <1>3, <2>2 DEF Register!vars
<1> QED BY <1>4, <1>5

LEMMA StartAsks ==
  ASSUME IInv, NEW c \in Calls, Start(c)
  PROVE  Register!Ask(c)
<1>1. /\ TypeOK /\ pc[c] = "idle" /\ UNCHANGED <<scene, ledger>>
      /\ Places(c, "idle", attempt[c], ledger)
  BY DEF IInv, Start, Knows
<1>2. PICK r \in Requests, l \in {"read", "refused"} :
        req' = [req EXCEPT ![c] = r] /\ pc' = [pc EXCEPT ![c] = l]
  BY DEF Start, Goto
<1>3. pc'[c] = l /\ \A d \in Calls \ {c} : pc'[d] = pc[d]
  BY <1>1, <1>2 DEF TypeOK
<1>4. \A d \in Calls : EntriesOf(d)' = EntriesOf(d)
  BY <1>1 DEF EntriesOf
<1>5. Phases' = [Phases EXCEPT ![c] = Phase(c)'] /\ Phases[c] = Phase(c) /\ Held' = Held
  BY <1>1, <1>3, <1>4, PhaseMoves DEF Phases, Held
<1>6. EntriesOf(c) = {}
  BY <1>1 DEF Places, Unsent, EntriesOf
<1>7. Phase(c) = "idle" /\ Phase(c)' \in {"open", "turned away"}
  BY <1>1, <1>3, <1>4, <1>6 DEF Phase, TurnedAway
<1> QED BY <1>2, <1>5, <1>7 DEF Register!Ask

\* Reading, minting, copying and checking take effect on nothing.
LEMMA PreparingIsQuiet ==
  ASSUME IInv, NEW c \in Calls,
         \/ ReadCurrent(c) \/ CheckMember(c) \/ MintAndPlan(c)
         \/ CopyEvents(c) \/ CopyScene(c) \/ Check(c) \/ TimeOut(c)
  PROVE  Register!End(c) \/ UNCHANGED Register!vars
<1>1. TypeOK /\ Places(c, pc[c], attempt[c], ledger)
  BY DEF IInv, Knows
<1>2. /\ UNCHANGED <<scene, ledger, req>>
      /\ pc[c] \in {"read", "member", "mint", "copyEvents", "copyScene", "check", "commit"}
  BY DEF ReadCurrent, CheckMember, MintAndPlan, CopyEvents, CopyScene, Check, TimeOut
<1>3. EntriesOf(c) = {}
  BY <1>1, <1>2 DEF Places, Unsent, EntriesOf
<1>4. PICK l \in InLoop \cup {"afloat"} \cup TurnedAway : Goto(c, l)
  BY DEF ReadCurrent, CheckMember, MintAndPlan, CopyEvents, CopyScene, Check, TimeOut, Lose,
         AfterLoss, InLoop, TurnedAway
<1>5. pc'[c] = l /\ \A d \in Calls \ {c} : pc'[d] = pc[d]
  BY <1>1, <1>4 DEF TypeOK, Goto
<1> QED BY <1>2, <1>3, <1>4, <1>5, QuietStep DEF InLoop

LEMMA AbortIsQuiet ==
  ASSUME IInv, NEW c \in Calls, Abort(c)
  PROVE  Register!End(c) \/ UNCHANGED Register!vars
<1>1. /\ pc[c] \in InLoop /\ UNCHANGED <<scene, ledger, req>>
      /\ pc'[c] = "aborted" /\ \A d \in Calls \ {c} : pc'[d] = pc[d]
  BY DEF IInv, TypeOK, Abort, Goto
<1> QED BY <1>1, QuietStep DEF TurnedAway

\* A call answers once its own assertion is in the ledger; otherwise it has
\* not taken effect, and tries again or gives up.
LEMMA ConfirmAnswers ==
  ASSUME IInv, NEW c \in Calls, Confirm(c)
  PROVE  Register!Answer(c) \/ Register!End(c) \/ UNCHANGED Register!vars
<1>1. /\ TypeOK /\ pc[c] = "confirm" /\ Places(c, "confirm", attempt[c], ledger)
      /\ UNCHANGED <<scene, ledger, req>>
  BY DEF IInv, Knows, Confirm
<1>2. CASE Confirmed(c) /\ Goto(c, "done")
  <2>1. pc'[c] = "done" /\ \A d \in Calls \ {c} : pc'[d] = pc[d]
    BY <1>1, <1>2 DEF TypeOK, Goto
  <2>2. EntriesOf(c) # {} /\ \A d \in Calls : EntriesOf(d)' = EntriesOf(d)
    BY <1>1, <1>2 DEF Confirmed, IdOf, EntriesOf
  <2>3. Phases' = [Phases EXCEPT ![c] = Phase(c)'] /\ Phases[c] = Phase(c) /\ Held' = Held
    BY <1>1, <2>1, <2>2, PhaseMoves DEF Phases, Held
  <2>4. Phase(c) = "in effect" /\ Phase(c)' = "answered"
    BY <1>1, <2>1, <2>2 DEF Phase, TurnedAway
  <2> QED BY <1>1, <2>3, <2>4 DEF Register!Answer
<1>3. CASE ~Confirmed(c) /\ Lose(c)
  <2>1. PICK l \in {"read", "exhausted"} : Goto(c, l)
    BY <1>3 DEF Lose, AfterLoss
  <2>2. pc'[c] = l /\ \A d \in Calls \ {c} : pc'[d] = pc[d]
    BY <1>1, <2>1 DEF TypeOK, Goto
  <2>3. EntriesOf(c) = {}
    BY <1>1, <1>3 DEF Places, Confirmed, IdOf, EntriesOf
  <2> QED BY <1>1, <2>2, <2>3, QuietStep DEF InLoop, TurnedAway
<1> QED BY <1>2, <1>3 DEF Confirm

\* A transition that lands takes effect on what the fluent holds just then, or
\* on nothing.
LEMMA LandingTakesEffect ==
  ASSUME IInv, NEW c \in Calls, pc[c] \in {"commit", "afloat"}, ApplyLive(c), UNCHANGED req,
         NEW l \in {"confirm", "aborted"}, Goto(c, l)
  PROVE  Register!TakeEffect(c) \/ Register!End(c) \/ UNCHANGED Register!vars
<1>1. /\ TypeOK /\ ledger \in Seq(Entries) /\ scene \in Scenes
      /\ Places(c, pc[c], attempt[c], ledger)
      /\ Under(mode, pc[c], req[c], attempt[c], seen[c])
  BY DEF IInv, Knows, TypeOK
<1>2. pc'[c] = l /\ \A d \in Calls \ {c} : pc'[d] = pc[d]
  BY <1>1 DEF TypeOK, Goto
<1>3. EntriesOf(c) = {}
  BY <1>1 DEF Places, Unsent, EntriesOf
<1>4. CASE ~GuardHolds(c, scene)
  <2>1. UNCHANGED <<scene, ledger>>
    BY <1>4 DEF ApplyLive, Transition
  <2> QED BY <1>2, <1>3, <2>1, QuietStep DEF InLoop, TurnedAway
<1>5. CASE GuardHolds(c, scene)
  <2>1. scene' = SceneAfter(c, scene) /\ ledger' = Append(ledger, Entry(c))
    BY <1>5 DEF ApplyLive, Transition
  <2>2. /\ Entry(c) \in Entries /\ Entry(c).id = <<c, attempt[c]>> /\ req[c].op \in ValidOps(mode)
        /\ req[c].op \in Operations /\ NewValue(c) = Target(req[c], seen[c])
    BY EntryShape, FluentAssumption
  <2> DEFINE n == Len(ledger) + 1
  <2>3. /\ n \in DOMAIN ledger' /\ ledger'[n].id[1] = c
        /\ \A i \in DOMAIN ledger : i \in DOMAIN ledger' /\ ledger'[i] = ledger[i]
        /\ \A i \in DOMAIN ledger' : i = n \/ i \in DOMAIN ledger
    BY <1>1, <2>1, <2>2, Longer
  <2> HIDE DEF n
  <2>4. EntriesOf(c)' # {}
    BY <2>3 DEF EntriesOf
  <2>5. \A d \in Calls \ {c} : EntriesOf(d)' = EntriesOf(d)
    BY <2>3 DEF EntriesOf
  <2>6. Phases' = [Phases EXCEPT ![c] = Phase(c)'] /\ Phases[c] = Phase(c)
    BY <1>2, <2>5, PhaseMoves DEF Phases
  <2>7. Phase(c) = "open" /\ Phase(c)' = "in effect"
    BY <1>2, <1>3, <2>4 DEF Phase, TurnedAway
  <2>8. /\ Held.value = scene.value /\ Held.items = scene.items
        /\ Held' = [value |-> scene'.value, items |-> scene'.items]
    BY DEF Held
  <2>9. Scalar => scene.value = seen[c].value
    BY <1>5, ModeTells
  <2>10. Scalar <=> req[c].op \notin {"ListInsert", "ListRemove"}
    BY ModeTells
  <2>11. Register!Accepts(req[c], Held)
    <3>1. req[c].op \in {"Insert", "Remove"} => scene.value # NoValue
      BY <1>1, <2>9, <2>10, FluentAssumption DEF Under, Planned
    <3>2. req[c].op = "ListRemove" => req[c].arg \in scene.items
      BY <1>5 DEF GuardHolds
    <3> QED BY <2>8, <3>1, <3>2 DEF Register!Accepts
  <2>12. Held' = Register!After(req[c], Held)
    <3>1. CASE Scalar
      <4>1. scene'.value = NewValue(c) /\ scene'.items = scene.items
        BY <1>1, <2>1, <2>10, <3>1 DEF SceneAfter, Scenes
      <4>2. CASE req[c].op = "Set"
        BY <2>2, <2>8, <4>1, <4>2 DEF Register!After, Held, Target
      <4>3. CASE req[c].op = "Insert"
        BY <2>2, <2>8, <2>9, <3>1, <4>1, <4>3 DEF Register!After, Held, Target
      <4>4. CASE req[c].op = "Remove"
        BY <2>2, <2>8, <2>9, <3>1, <4>1, <4>4 DEF Register!After, Held, Target
      <4> QED BY <2>2, <2>10, <3>1, <4>2, <4>3, <4>4 DEF Operations
    <3>2. CASE ~Scalar
      <4>1. CASE req[c].op = "ListInsert"
        BY <1>1, <2>1, <2>8, <4>1 DEF Register!After, Held, SceneAfter, Scenes
      <4>2. CASE req[c].op = "ListRemove"
        BY <1>1, <2>1, <2>8, <4>2 DEF Register!After, Held, SceneAfter, Scenes
      <4> QED BY <2>10, <3>2, <4>1, <4>2
    <3> QED BY <3>1, <3>2
  <2> QED BY <2>6, <2>7, <2>11, <2>12 DEF Register!TakeEffect
<1> QED BY <1>4, <1>5

\* Concurrent transitions act as one register does: every call takes effect at
\* most once, at one moment, on what the fluent holds at that moment, is answered
\* only then, and turned away only without (update_fluent in fluent.py).
THEOREM TransitionsActAsRegister == Spec => ActsAsRegister
<1>1. Init => Register!Init
  <2> SUFFICES ASSUME Init PROVE Register!Init
    OBVIOUS
  <2>1. Held \in [value : Seeds \cup {NoValue}, items : {{}}]
    BY DEF Init, Held
  <2>2. Phases = [c \in Calls |-> "idle"]
    <3>1. \A c \in Calls : pc[c] = "idle"
      BY DEF Init
    <3>2. ASSUME NEW c \in Calls PROVE Phase(c) = "idle"
      <4>1. pc[c] = "idle"
        BY <3>1
      <4> QED BY <4>1 DEF Phase, TurnedAway
    <3> QED BY <3>2 DEF Phases
  <2> QED BY <2>1, <2>2 DEF Init, Register!Init
<1>2. IInv /\ [Next]_vars => [Register!Next]_(Register!vars)
  <2> SUFFICES ASSUME IInv, [Next]_vars
               PROVE  Register!Next \/ UNCHANGED Register!vars
    OBVIOUS
  <2>1. CASE UNCHANGED vars
    BY <2>1 DEF vars, Register!vars, Held, Phases, Phase, EntriesOf
  <2>2. ASSUME NEW c \in Calls, UpdateFluent(c) \/ Fail(c)
        PROVE  \/ Register!Ask(c) \/ Register!TakeEffect(c) \/ Register!Answer(c)
               \/ Register!End(c) \/ UNCHANGED Register!vars
    <3>1. CASE Commit(c)
      BY <3>1, LandingTakesEffect DEF Commit
    <3>2. CASE LateCommit(c)
      BY <3>2, LandingTakesEffect DEF LateCommit
    <3> QED BY <2>2, <3>1, <3>2, StartAsks, PreparingIsQuiet, AbortIsQuiet, ConfirmAnswers
            DEF UpdateFluent, Fail
  <2> QED BY <2>1, <2>2 DEF Next, Register!Next
<1> QED BY <1>1, <1>2, InductiveInvariant, PTL DEF Spec, ActsAsRegister, Register!Spec
=============================================================================
