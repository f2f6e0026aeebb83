---------------------------- MODULE QueriesProofs ----------------------------
(***************************************************************************)
(* Proofs about reading, for any people, queries, graphs, facts and number *)
(* of requests: the cache agrees with the registry unless disturbed, what  *)
(* is run was reachable, what is read was open to its reader.              *)
(***************************************************************************)
EXTENDS Queries, TLAPS

Entries == [vocabulary : Vocabularies, body : Versions \cup {Absent},
            params : Versions \cup {Absent}]
Views   == [Ids -> Entries]
Reqs    == [pc : Places, op : Ops, who : Persons \cup {Idle.who}, id : Ids \cup {Idle.id},
            as : Versions \cup {Absent} \cup Vocabularies, refresh : BOOLEAN, view : Views,
            hit : BOOLEAN, seat : BOOLEAN, left : SUBSET Graphs, names : SUBSET Graphs,
            open : BOOLEAN, field : Fields \cup {Absent}, rows : SUBSET Loans,
            loan : Loans \cup {Absent}, seen : SUBSET Facts, missed : SUBSET Facts]

\* No parameters without a body.
WellFormed(view) == \A i \in Ids : view[i].body = Absent => view[i].params = Absent

Typed ==
  /\ registry \in [Tools -> Versions \cup {Absent}] /\ facts \subseteq Facts
  /\ cache \in [held : BOOLEAN, ok : BOOLEAN, view : Views] /\ WellFormed(cache.view)
  /\ persona \in [now : SUBSET Persons, file : SUBSET Persons]
  /\ task \in [Tasks -> Reqs] /\ events \in 0..MaxEvents

Reaching == {"restricted", "inset", "go"}

\* Who asks, for what, at each place of a request.
Asks(r) ==
  /\ r.pc # "idle" => r.who \in Persons
  /\ r.pc \in {"cache", "bodies", "params", "keep"} \cup Reaching => r.id \in Ids
  /\ r.pc \in Reaching => r.as \in Vocabularies
  /\ r.pc = "write" /\ r.op = "register" => r.as \in Versions
  /\ r.pc \in {"open", "fetch"} \cup Clearing => r.op = "read"

\* A request has seen each fact that bears on it as it is now.
Aware(r, now) == Matters(r) \cap now \subseteq r.seen /\ Matters(r) \ now \subseteq r.missed

\* A load that nothing disturbed holds what is registered, as far as it is.
Loads(r, bodies, view) ==
  /\ r.pc = "params" => (\A i \in Ids : r.view[i].params = Absent) /\ (~r.hit => r.view = bodies)
  /\ r.pc = "keep" => WellFormed(r.view) /\ (~r.hit => r.view = view)

Reaches(r) ==
  /\ r.pc = "inset" => r.seat
  /\ r.pc = "go" /\ r.op = "run" =>
       \/ <<"restricted", <<r.id, r.as>>>> \in r.missed
       \/ r.seat /\ <<"inset", <<r.id, r.as>>>> \in r.seen

\* That g was open to whoever asks, at some moment of the request.
Opened(r, g) ==
  \/ <<"admin", r.who>> \in r.seen
  \/ g \in Persons \ {r.who} /\ Lent(r, g)
  \/ g \in {"public", r.who} /\ <<"granted", r.who>> \in r.seen /\ <<"denied", r.who>> \in r.missed

\* The delegations still to ask about are to the caller and were current, and
\* the one being asked about has passed the questions before.
Borrows(r) ==
  /\ r.pc \in {"revoked", "person", "inactive", "covers"} =>
       \A l \in r.rows : Borrower[l] = r.who /\ <<"current", l>> \in r.seen
  /\ r.pc \in {"person", "inactive", "covers"} =>
       /\ r.loan \in Loans /\ Borrower[r.loan] = r.who
       /\ <<"current", r.loan>> \in r.seen /\ <<"revoked", r.loan>> \in r.missed
  /\ r.pc \in {"inactive", "covers"} => <<"person", Lender[r.loan]>> \in r.seen
  /\ r.pc = "covers" => <<"inactive", Lender[r.loan]>> \in r.missed

\* The graphs no longer left to clear have been, and the one being cleared
\* is of the kind its questions are for.
Clears(r) ==
  /\ r.left \subseteq r.names
  /\ r.pc = "open" => r.left = r.names
  /\ r.pc \in Clearing => r.left # {} /\ "ground" \notin r.left
  /\ r.pc = "fetch" => r.left = {}
  /\ r.pc \in {"fetch"} \cup Clearing =>
       /\ r.open => <<"admin", r.who>> \in r.seen
       /\ \A g \in r.names \ r.left : g = "ground" \/ Opened(r, g)
  /\ r.pc \in {"denied", "granted"} /\ Graph(r) \in r.left => Graph(r) \in {"public", r.who}
  /\ r.pc = "granted" => <<"denied", r.who>> \in r.missed
  /\ Borrows(r)

Sound(r, now, bodies, view) ==
  Asks(r) /\ Aware(r, now) /\ Loads(r, bodies, view) /\ Reaches(r) /\ Clears(r)

IInv ==
  /\ Typed
  /\ \A t \in Tasks : Sound(task[t], facts, Bodies, View)
  /\ CacheAgrees
-----------------------------------------------------------------------------
\* What a request that is aware of the facts has seen when it asks.
LEMMA ReaderSees ==
  ASSUME NEW r \in Reqs, NEW now \in SUBSET Facts, Aware(r, now), r.op = "read", r.who \in Persons
  PROVE  /\ \A k \in {"admin", "granted", "denied"} :
              /\ <<k, r.who>> \in now => <<k, r.who>> \in r.seen
              /\ <<k, r.who>> \notin now => <<k, r.who>> \in r.missed
         /\ \A l \in Loans : Borrower[l] = r.who => \A k \in {"current", "revoked", "covers"} :
              /\ <<k, l>> \in now => <<k, l>> \in r.seen
              /\ <<k, l>> \notin now => <<k, l>> \in r.missed
         /\ \A p \in Persons, k \in {"person", "inactive"} :
              /\ <<k, p>> \in now => <<k, p>> \in r.seen
              /\ <<k, p>> \notin now => <<k, p>> \in r.missed
<1>1. ASSUME NEW k \in {"admin", "granted", "denied"} PROVE <<k, r.who>> \in Matters(r)
  <2>1. <<k, r.who>> \in Facts
    BY DEF Facts
  <2>2. <<k, r.who>>[1] = k
    OBVIOUS
  <2> QED BY <2>1, <2>2 DEF Matters, About
<1>2. ASSUME NEW l \in Loans, Borrower[l] = r.who, NEW k \in {"current", "revoked", "covers"}
      PROVE  <<k, l>> \in Matters(r)
  <2>1. <<k, l>> \in Facts
    BY DEF Facts
  <2>2. <<k, l>>[1] = k /\ <<k, l>>[2] = l
    OBVIOUS
  <2> QED BY <1>2, <2>1, <2>2 DEF Matters, About
<1>3. ASSUME NEW p \in Persons, NEW k \in {"person", "inactive"} PROVE <<k, p>> \in Matters(r)
  <2>1. <<k, p>> \in Facts
    BY DEF Facts
  <2>2. <<k, p>>[1] = k
    OBVIOUS
  <2> QED BY <2>1, <2>2 DEF Matters, About
<1> QED BY <1>1, <1>2, <1>3 DEF Aware

LEMMA RunnerSees ==
  ASSUME NEW r \in Reqs, NEW now \in SUBSET Facts, Aware(r, now), r.op = "run", r.id \in Ids,
         r.as \in Vocabularies
  PROVE  \A k \in {"restricted", "inset"} :
           /\ <<k, <<r.id, r.as>>>> \in now => <<k, <<r.id, r.as>>>> \in r.seen
           /\ <<k, <<r.id, r.as>>>> \notin now => <<k, <<r.id, r.as>>>> \in r.missed
<1>1. ASSUME NEW k \in {"restricted", "inset"} PROVE <<k, <<r.id, r.as>>>> \in Matters(r)
  <2>1. <<k, <<r.id, r.as>>>> \in Facts
    BY DEF Facts, Tools
  <2>2. <<k, <<r.id, r.as>>>>[1] = k /\ <<k, <<r.id, r.as>>>>[2][1] = r.id
    OBVIOUS
  <2> QED BY <2>1, <2>2 DEF Matters, About
<1> QED BY <1>1 DEF Aware

LEMMA PlaceNames ==
  /\ "cache" \in Places /\ "bodies" \in Places /\ "params" \in Places /\ "keep" \in Places
  /\ "write" \in Places /\ "forget" \in Places /\ "restricted" \in Places /\ "inset" \in Places
  /\ "go" \in Places /\ "open" \in Places /\ "fetch" \in Places /\ "home" \in Places
  /\ "set" \in Places /\ "admin" \in Places /\ "revoked" \in Places /\ "person" \in Places
  /\ "inactive" \in Places /\ "covers" \in Places
BY DEF Places

\* Whether a graph was open depends on who asks and what was seen only, and
\* stays.
LEMMA OpenedStays ==
  ASSUME NEW r, NEW q, q.who = r.who, r.seen \subseteq q.seen, r.missed \subseteq q.missed, NEW g,
         Opened(r, g)
  PROVE  Opened(q, g)
<1>1. Lent(r, g) => Lent(q, g)
  BY DEF Lent
<1> QED BY <1>1 DEF Opened

\* Which graph is looked at depends on those left only.
LEMMA SameGraph ==
  ASSUME NEW r, NEW q, r.left = q.left
  PROVE  Graph(r) = Graph(q)
BY DEF Graph

LEMMA RegistryReads ==
  ASSUME registry \in [Tools -> Versions \cup {Absent}]
  PROVE  /\ Bodies \in Views /\ View \in Views /\ WellFormed(View)
         /\ \A i \in Ids : Bodies[i].params = Absent
<1>1. ASSUME NEW i \in Ids
      PROVE  /\ Definition(i) \in Vocabularies
             /\ registry[<<i, Definition(i)>>] \in Versions \cup {Absent}
  BY DEF Definition, Vocabularies, Tools
<1>2. Bodies \in Views /\ \A i \in Ids : Bodies[i].params = Absent
  BY <1>1 DEF Bodies, Views, Entries
<1>3. \A i \in Ids : View[i] = [Bodies[i] EXCEPT !.params = registry[<<i, Definition(i)>>]]
  BY DEF View
<1>4. \A i \in Ids : /\ View[i] \in Entries
                     /\ View[i].body = registry[<<i, Definition(i)>>]
                     /\ View[i].params = registry[<<i, Definition(i)>>]
  BY <1>1, <1>3 DEF Bodies, Entries
<1> QED BY <1>2, <1>4 DEF View, Views, WellFormed

LEMMA IdleSound ==
  ASSUME NEW now, NEW bodies, NEW view
  PROVE  Idle \in Reqs /\ Sound(Idle, now, bodies, view) /\ Idle.pc = "idle"
<1>1. Nothing \in Views
  BY DEF Nothing, Views, Entries, Vocabularies
<1>2. /\ Idle.pc = "idle" /\ Idle.op = "none" /\ Idle.left = {} /\ Idle.names = {}
      /\ Idle.as = Absent /\ Idle.view = Nothing
      /\ Idle.refresh = FALSE /\ Idle.hit = FALSE /\ Idle.seat = FALSE /\ Idle.open = FALSE
      /\ Idle.field = Absent /\ Idle.rows = {} /\ Idle.loan = Absent
      /\ Idle.seen = {} /\ Idle.missed = {}
  BY DEF Idle
<1>3. Idle \in Reqs
  <2>1. PICK w, i :
          Idle = [pc |-> "idle", op |-> "none", who |-> w, id |-> i, as |-> Absent,
                  refresh |-> FALSE, view |-> Nothing, hit |-> FALSE, seat |-> FALSE, left |-> {},
                  names |-> {}, open |-> FALSE, field |-> Absent, rows |-> {}, loan |-> Absent,
                  seen |-> {}, missed |-> {}]
    BY DEF Idle
  <2>2. Idle.who = w /\ Idle.id = i
    BY <2>1
  <2> QED BY <1>1, <2>1, <2>2 DEF Reqs, Places, Ops
<1>4. Sound(Idle, now, bodies, view)
  BY <1>2 DEF Sound, Asks, Aware, Matters, Loads, Reaches, Clears, Borrows, Clearing, Reaching
<1> QED BY <1>2, <1>3, <1>4

LEMMA InitEstablishes == Init => IInv
<1> SUFFICES ASSUME Init PROVE IInv
  OBVIOUS
<1>1. NotCached \in [held : BOOLEAN, ok : BOOLEAN, view : Views] /\ WellFormed(NotCached.view)
      /\ NotCached.held = FALSE
  BY DEF NotCached, Nothing, Views, Entries, Vocabularies, WellFormed
<1>2. Typed
  BY <1>1, IdleSound, QueriesAssumption DEF Init, Typed
<1>3. CacheAgrees
  BY <1>1 DEF Init, CacheAgrees
<1> QED BY <1>2, <1>3, IdleSound DEF Init, IInv
-----------------------------------------------------------------------------
\* A step of one request that leaves the registry and the facts alone.
LEMMA OneTaskMoves ==
  ASSUME IInv, events' \in 0..MaxEvents, UNCHANGED <<registry, facts>>,
         persona' \in [now : SUBSET Persons, file : SUBSET Persons],
         cache' \in [held : BOOLEAN, ok : BOOLEAN, view : Views], WellFormed(cache'.view),
         NEW t \in Tasks, NEW q \in Reqs, task' = [task EXCEPT ![t] = q],
         Sound(q, facts, Bodies, View), CacheAgrees'
  PROVE  IInv'
<1>1. Typed'
  BY DEF IInv, Typed
<1>2. Bodies' = Bodies /\ View' = View
  BY DEF Bodies, View, Definition
<1>3. \A s \in Tasks : Sound(task'[s], facts, Bodies, View)
  BY DEF IInv, Typed
<1> QED BY <1>1, <1>2, <1>3 DEF IInv

\* ... and the cache and the personas too.
LEMMA OnlyTaskMoves ==
  ASSUME IInv, events' \in 0..MaxEvents, UNCHANGED <<registry, cache, facts, persona>>,
         NEW t \in Tasks, NEW q \in Reqs, task' = [task EXCEPT ![t] = q], task[t].pc # "forget",
         Sound(q, facts, Bodies, View)
  PROVE  IInv'
<1>1. View' = View
  BY DEF View, Bodies, Definition
<1>2. CacheAgrees'
  BY <1>1 DEF IInv, Typed, CacheAgrees
<1> QED BY <1>2, OneTaskMoves DEF IInv, Typed

\* Moving on changes nothing of what a request asks.
LEMMA Going ==
  ASSUME NEW r \in Reqs, NEW pc \in Places, NEW q, q = [r EXCEPT !.pc = pc]
  PROVE  /\ q \in Reqs /\ q.pc = pc /\ q.op = r.op /\ q.who = r.who /\ q.id = r.id /\ q.as = r.as
         /\ q.view = r.view /\ q.hit = r.hit /\ q.seat = r.seat /\ q.left = r.left
         /\ q.names = r.names /\ q.rows = r.rows /\ q.loan = r.loan /\ q.open = r.open /\ q.seen = r.seen /\ q.missed = r.missed
         /\ Graph(q) = Graph(r) /\ Matters(q) = Matters(r)
<1>1. /\ q \in Reqs /\ q.pc = pc /\ q.op = r.op /\ q.who = r.who /\ q.id = r.id /\ q.as = r.as
      /\ q.view = r.view /\ q.hit = r.hit /\ q.seat = r.seat /\ q.left = r.left
      /\ q.names = r.names /\ q.rows = r.rows /\ q.loan = r.loan /\ q.open = r.open /\ q.seen = r.seen /\ q.missed = r.missed
  BY DEF Reqs
<1>2. Graph(q) = Graph(r)
  BY <1>1, SameGraph
<1>3. Matters(q) = Matters(r)
  BY <1>1 DEF Matters, About
<1> QED BY <1>1, <1>2, <1>3

-----------------------------------------------------------------------------
\* Clearing: what is no longer left to clear is ground truth or was opened.
LEMMA CheckNextSound ==
  ASSUME NEW r \in Reqs, NEW now, NEW bodies, NEW view, Aware(r, now), r.op = "read",
         r.who \in Persons, r.left \subseteq r.names, r.open => <<"admin", r.who>> \in r.seen,
         \A g \in r.names \ r.left : g = "ground" \/ Opened(r, g)
  PROVE  CheckNext(r) \in Reqs /\ Sound(CheckNext(r), now, bodies, view)
<1> DEFINE asked == r.left \ {"ground"}
<1>1. PICK q : /\ q = CheckNext(r)
               /\ \/ asked = {} /\ q = [r EXCEPT !.left = {}, !.pc = "fetch"]
                  \/ asked # {} /\ q = [r EXCEPT !.left = asked, !.pc = "admin"]
  BY DEF CheckNext
<1>2. asked \in SUBSET Graphs
  BY DEF Reqs
<1>3. /\ q \in Reqs /\ q.left = asked /\ q.op = r.op /\ q.who = r.who /\ q.id = r.id
      /\ q.names = r.names /\ q.open = r.open /\ q.seen = r.seen /\ q.missed = r.missed
      /\ \/ asked = {} /\ q.pc = "fetch"
         \/ asked # {} /\ q.pc = "admin"
  <2>1. CASE asked = {}
    BY <1>1, <1>2, <2>1, PlaceNames DEF Reqs
  <2>2. CASE asked # {}
    BY <1>1, <1>2, <2>2, PlaceNames DEF Reqs
  <2> QED BY <2>1, <2>2
<1>4. Matters(q) = Matters(r)
  BY <1>3 DEF Matters, About
<1>5. \A g \in q.names \ q.left : g = "ground" \/ Opened(q, g)
  BY <1>3, OpenedStays
<1> HIDE DEF asked
<1>6. Clears(q)
  BY <1>3, <1>5 DEF Clears, Clearing, Borrows, asked
<1>7. Asks(q) /\ Loads(q, bodies, view) /\ Reaches(q) /\ Aware(q, now)
  BY <1>3, <1>4 DEF Asks, Loads, Reaches, Clearing, Reaching, Aware
<1> QED BY <1>1, <1>3, <1>6, <1>7 DEF Sound

LEMMA ClearKeeps ==
  ASSUME IInv, events' \in 0..MaxEvents, UNCHANGED <<registry, cache, facts, persona>>,
         NEW t \in Tasks, task[t].pc \in Clearing, Clear(t),
         Graph(task[t]) \in task[t].left => Opened(task[t], Graph(task[t]))
  PROVE  IInv'
<1> DEFINE r == task[t]
           q == [r EXCEPT !.left = r.left \ {Graph(r)}, !.rows = {}, !.loan = Absent]
<1>1. r \in Reqs /\ Asks(r) /\ Aware(r, facts) /\ Clears(r)
  BY DEF IInv, Typed, Sound
<1>2. task' = [task EXCEPT ![t] = CheckNext(q)]
  BY DEF Clear, IInv, Typed
<1>3. /\ q \in Reqs /\ q.left = r.left \ {Graph(r)} /\ q.op = r.op /\ q.who = r.who /\ q.id = r.id
      /\ q.names = r.names /\ q.open = r.open /\ q.seen = r.seen /\ q.missed = r.missed
  BY <1>1 DEF Reqs
<1> HIDE DEF q
<1>4. Aware(q, facts)
  BY <1>1, <1>3 DEF Aware, Matters, About
<1>5. q.op = "read" /\ q.who \in Persons
  BY <1>1, <1>3 DEF Asks, Clearing
<1>6. \A g \in q.names \ q.left : g = "ground" \/ Opened(q, g)
  <2>1. \A g \in r.names \ r.left : g = "ground" \/ Opened(r, g)
    BY <1>1 DEF Clears
  <2>2. Graph(r) \in r.left => Opened(r, Graph(r))
    OBVIOUS
  <2> HIDE DEF r
  <2>3. \A g \in r.names \ q.left : g = "ground" \/ Opened(r, g)
    BY <1>3, <2>1, <2>2
  <2> QED BY <1>3, <2>3, OpenedStays
<1>7. q.left \subseteq q.names /\ (q.open => <<"admin", q.who>> \in q.seen)
  BY <1>1, <1>3 DEF Clears
<1>8. CheckNext(q) \in Reqs /\ Sound(CheckNext(q), facts, Bodies, View)
  BY <1>3, <1>4, <1>5, <1>6, <1>7, CheckNextSound
<1> QED BY <1>2, <1>8, OnlyTaskMoves DEF Clearing

LEMMA EndsKeeps ==
  ASSUME IInv, events' \in 0..MaxEvents, UNCHANGED <<registry, cache, facts, persona>>,
         NEW t \in Tasks, task[t].pc # "forget", task' = [task EXCEPT ![t] = Idle]
  PROVE  IInv'
BY IdleSound, OnlyTaskMoves

\* Where the next delegation is asked about, or the request is refused.
LEMMA NextLoanSound ==
  ASSUME NEW r \in Reqs, NEW now, NEW bodies, NEW view, Aware(r, now), r.op = "read",
         r.who \in Persons, r.left \subseteq r.names, r.left # {}, "ground" \notin r.left,
         r.open => <<"admin", r.who>> \in r.seen,
         \A g \in r.names \ r.left : g = "ground" \/ Opened(r, g),
         \A l \in r.rows : Borrower[l] = r.who /\ <<"current", l>> \in r.seen
  PROVE  NextLoan(r) \in Reqs /\ Sound(NextLoan(r), now, bodies, view)
<1>1. CASE r.rows = {}
  BY <1>1, IdleSound DEF NextLoan
<1>2. CASE r.rows # {}
  <2> DEFINE q == [r EXCEPT !.pc = "revoked", !.loan = Absent]
  <2>1. NextLoan(r) = q
    BY <1>2 DEF NextLoan
  <2>2. /\ q \in Reqs /\ q.pc = "revoked" /\ q.op = r.op /\ q.who = r.who /\ q.id = r.id
        /\ q.left = r.left /\ q.names = r.names /\ q.open = r.open /\ q.rows = r.rows
        /\ q.seen = r.seen /\ q.missed = r.missed
    BY PlaceNames DEF Reqs
  <2> HIDE DEF q
  <2>3. Matters(q) = Matters(r)
    BY <2>2 DEF Matters, About
  <2>4. \A g \in q.names \ q.left : g = "ground" \/ Opened(q, g)
    BY <2>2, OpenedStays
  <2>5. Clears(q)
    BY <2>2, <2>4 DEF Clears, Clearing, Borrows
  <2>6. Asks(q) /\ Loads(q, bodies, view) /\ Reaches(q) /\ Aware(q, now)
    BY <2>2, <2>3 DEF Asks, Loads, Reaches, Clearing, Reaching, Aware
  <2> QED BY <2>1, <2>2, <2>5, <2>6 DEF Sound
<1> QED BY <1>1, <1>2

\* find_delegation: each question about a delegation, asked of the facts as
\* they are then.
LEMMA LoansKeep ==
  ASSUME IInv, events' \in 0..MaxEvents, NEW t \in Tasks,
         AskLent(t) \/ AskRevoked(t) \/ AskPerson(t) \/ AskInactive(t) \/ AskCovers(t)
  PROVE  IInv'
<1> DEFINE r == task[t]
           g == Graph(r)
           Asking == {"revoked", "person", "inactive", "covers"}
<1>0. /\ r \in Reqs /\ Asks(r) /\ Aware(r, facts) /\ Clears(r) /\ Borrows(r)
      /\ facts \in SUBSET Facts /\ r.pc \in {"lent"} \cup Asking
      /\ task \in [Tasks -> Reqs] /\ UNCHANGED <<registry, cache, facts, persona>>
  BY DEF IInv, Typed, Sound, Clears, AskLent, AskRevoked, AskPerson, AskInactive, AskCovers, Standing
<1>1. /\ r.op = "read" /\ r.who \in Persons /\ r.pc # "forget" /\ r.pc \in Clearing
      /\ r.left \subseteq r.names /\ r.left # {} /\ "ground" \notin r.left
      /\ r.open => <<"admin", r.who>> \in r.seen
      /\ \A h \in r.names \ r.left : h = "ground" \/ Opened(r, h)
  BY <1>0 DEF Asks, Clears, Clearing
<1>2. /\ \A l \in Loans : Borrower[l] = r.who => \A k \in {"current", "revoked", "covers"} :
           /\ <<k, l>> \in facts => <<k, l>> \in r.seen
           /\ <<k, l>> \notin facts => <<k, l>> \in r.missed
      /\ \A p \in Persons, k \in {"person", "inactive"} :
           /\ <<k, p>> \in facts => <<k, p>> \in r.seen
           /\ <<k, p>> \notin facts => <<k, p>> \in r.missed
  BY <1>0, <1>1, ReaderSees
<1>3. ASSUME NEW q, q \in Reqs, q = [r EXCEPT !.rows = q.rows, !.loan = q.loan, !.pc = q.pc],
             \A l \in q.rows : Borrower[l] = r.who /\ <<"current", l>> \in r.seen
      PROVE  /\ NextLoan(q) \in Reqs /\ Sound(NextLoan(q), facts, Bodies, View)
             /\ q.pc \in Asking /\ Borrows(q) => Sound(q, facts, Bodies, View)
  <2>1. /\ q.op = r.op /\ q.who = r.who /\ q.id = r.id /\ q.left = r.left /\ q.names = r.names
        /\ q.open = r.open /\ q.seen = r.seen /\ q.missed = r.missed
    BY <1>0, <1>3 DEF Reqs
  <2>2. Matters(q) = Matters(r)
    BY <2>1 DEF Matters, About
  <2>3. \A h \in q.names \ q.left : h = "ground" \/ Opened(q, h)
    BY <1>1, <2>1, OpenedStays
  <2>4. NextLoan(q) \in Reqs /\ Sound(NextLoan(q), facts, Bodies, View)
    BY <1>0, <1>1, <1>3, <2>1, <2>2, <2>3, NextLoanSound DEF Aware
  <2>5. ASSUME q.pc \in Asking, Borrows(q) PROVE Sound(q, facts, Bodies, View)
    <3>1. Clears(q)
      BY <1>1, <2>1, <2>3, <2>5 DEF Clears, Clearing
    <3>2. Asks(q) /\ Loads(q, Bodies, View) /\ Reaches(q) /\ Aware(q, facts)
      BY <1>0, <1>1, <2>1, <2>2, <2>5 DEF Asks, Loads, Reaches, Clearing, Reaching, Aware
    <3> QED BY <3>1, <3>2 DEF Sound
  <2> QED BY <2>4, <2>5
<1>4. ASSUME NEW q \in Reqs, task' = [task EXCEPT ![t] = q], Sound(q, facts, Bodies, View)
      PROVE  IInv'
  BY <1>0, <1>1, <1>4, OnlyTaskMoves
<1>5. ASSUME r.pc \in Asking, task' = [task EXCEPT ![t] = NextLoan(r)] PROVE IInv'
  <2>1. r = [r EXCEPT !.rows = r.rows, !.loan = r.loan, !.pc = r.pc]
    BY <1>0 DEF Reqs
  <2>2. \A l \in r.rows : Borrower[l] = r.who /\ <<"current", l>> \in r.seen
    BY <1>0, <1>5 DEF Borrows
  <2>3. NextLoan(r) \in Reqs /\ Sound(NextLoan(r), facts, Bodies, View)
    BY <1>0, <1>3, <2>1, <2>2
  <2> QED BY <1>4, <1>5, <2>3
<1>6. ASSUME r.pc \in {"person", "inactive"}, NEW pc \in {"inactive", "covers"},
             task' = [task EXCEPT ![t] = [r EXCEPT !.pc = pc]],
             <<"person", Lender[r.loan]>> \in r.seen,
             pc = "covers" => <<"inactive", Lender[r.loan]>> \in r.missed
      PROVE  IInv'
  <2> DEFINE q == [r EXCEPT !.pc = pc]
  <2>1. /\ q \in Reqs /\ q.pc = pc /\ q.rows = r.rows /\ q.loan = r.loan /\ q.who = r.who
        /\ q.seen = r.seen /\ q.missed = r.missed
        /\ q = [r EXCEPT !.rows = q.rows, !.loan = q.loan, !.pc = q.pc]
    BY <1>0, PlaceNames DEF Reqs
  <2> HIDE DEF q
  <2>2. Borrows(q)
    BY <1>0, <1>6, <2>1 DEF Borrows
  <2>3. \A l \in q.rows : Borrower[l] = r.who /\ <<"current", l>> \in r.seen
    BY <1>0, <1>6, <2>1 DEF Borrows
  <2>4. Sound(q, facts, Bodies, View)
    BY <1>3, <1>6, <2>1, <2>2, <2>3
  <2> QED BY <1>4, <1>6, <2>1, <2>4 DEF q
<1>7. CASE AskLent(t)
  <2> DEFINE rows == {l \in Loans : Borrower[l] = r.who /\ <<"current", l>> \in facts}
             q == [r EXCEPT !.rows = rows]
  <2>1. /\ q \in Reqs /\ q.rows = rows
        /\ q = [r EXCEPT !.rows = q.rows, !.loan = q.loan, !.pc = q.pc]
    BY <1>0 DEF Reqs
  <2>2. \A l \in q.rows : Borrower[l] = r.who /\ <<"current", l>> \in r.seen
    BY <1>2, <2>1
  <2>3. task' = [task EXCEPT ![t] = NextLoan(q)]
    BY <1>7 DEF AskLent
  <2> HIDE DEF q
  <2>4. NextLoan(q) \in Reqs /\ Sound(NextLoan(q), facts, Bodies, View)
    BY <1>3, <2>1, <2>2
  <2> QED BY <1>4, <2>3, <2>4
<1>8. CASE AskRevoked(t)
  <2>1. PICK l \in r.rows :
          task' = [task EXCEPT ![t] =
            IF <<"revoked", l>> \in facts THEN NextLoan([r EXCEPT !.rows = r.rows \ {l}, !.loan = l])
            ELSE [[r EXCEPT !.rows = r.rows \ {l}, !.loan = l] EXCEPT !.pc = "person"]]
    BY <1>0, <1>8 DEF AskRevoked
  <2> DEFINE q == [r EXCEPT !.rows = r.rows \ {l}, !.loan = l]
             p == [q EXCEPT !.pc = "person"]
  <2>2. /\ l \in Loans /\ r.pc = "revoked"
        /\ \A k \in r.rows : Borrower[k] = r.who /\ <<"current", k>> \in r.seen
    BY <1>0, <1>8 DEF AskRevoked, Borrows, Reqs
  <2>3. /\ q \in Reqs /\ q.rows = r.rows \ {l} /\ q.loan = l /\ q.pc = "revoked"
        /\ q = [r EXCEPT !.rows = q.rows, !.loan = q.loan, !.pc = q.pc]
    BY <1>0, <2>2 DEF Reqs
  <2>4. /\ p \in Reqs /\ p.rows = r.rows \ {l} /\ p.loan = l /\ p.pc = "person" /\ p.who = r.who
        /\ p.seen = r.seen /\ p.missed = r.missed
        /\ p = [r EXCEPT !.rows = p.rows, !.loan = p.loan, !.pc = p.pc]
    BY <1>0, <2>2, PlaceNames DEF Reqs
  <2>5. CASE <<"revoked", l>> \in facts
    <3>1. task' = [task EXCEPT ![t] = NextLoan(q)]
      BY <2>1, <2>5
    <3> HIDE DEF q, p
    <3>2. NextLoan(q) \in Reqs /\ Sound(NextLoan(q), facts, Bodies, View)
      BY <1>3, <2>2, <2>3
    <3> QED BY <1>4, <3>1, <3>2
  <2>6. CASE <<"revoked", l>> \notin facts
    <3>1. task' = [task EXCEPT ![t] = p]
      BY <2>1, <2>6
    <3> HIDE DEF q, p
    <3>2. <<"revoked", l>> \in r.missed
      BY <1>2, <2>2, <2>6
    <3>3. Borrows(p)
      BY <2>2, <2>4, <3>2 DEF Borrows
    <3>4. Sound(p, facts, Bodies, View)
      BY <1>3, <2>2, <2>4, <3>3
    <3> QED BY <1>4, <2>4, <3>1, <3>4
  <2> QED BY <2>5, <2>6
<1>9. ASSUME r.pc \in {"person", "inactive"}
      PROVE  r.loan \in Loans /\ Lender[r.loan] \in Persons
             /\ (r.pc = "inactive" => <<"person", Lender[r.loan]>> \in r.seen)
  BY <1>0, <1>9, QueriesAssumption DEF Borrows
<1>10. CASE AskPerson(t)
  <2>1. r.pc = "person" /\ Standing(t, <<"person", Lender[r.loan]>> \in facts, "inactive")
    BY <1>10 DEF AskPerson
  <2>2. CASE <<"person", Lender[r.loan]>> \in facts
    <3>1. task' = [task EXCEPT ![t] = [r EXCEPT !.pc = "inactive"]]
      BY <1>0, <2>1, <2>2 DEF Standing
    <3> QED BY <1>2, <1>6, <1>9, <2>1, <2>2, <3>1
  <2>3. CASE <<"person", Lender[r.loan]>> \notin facts
    <3>1. task' = [task EXCEPT ![t] = NextLoan(r)]
      BY <1>0, <2>1, <2>3 DEF Standing
    <3> QED BY <1>5, <2>1, <3>1
  <2> QED BY <2>2, <2>3
<1>11. CASE AskInactive(t)
  <2>1. r.pc = "inactive" /\ Standing(t, <<"inactive", Lender[r.loan]>> \notin facts, "covers")
    BY <1>11 DEF AskInactive
  <2>2. CASE <<"inactive", Lender[r.loan]>> \notin facts
    <3>1. task' = [task EXCEPT ![t] = [r EXCEPT !.pc = "covers"]]
      BY <1>0, <2>1, <2>2 DEF Standing
    <3> QED BY <1>2, <1>6, <1>9, <2>1, <2>2, <3>1
  <2>3. CASE <<"inactive", Lender[r.loan]>> \in facts
    <3>1. task' = [task EXCEPT ![t] = NextLoan(r)]
      BY <1>0, <2>1, <2>3 DEF Standing
    <3> QED BY <1>5, <2>1, <3>1
  <2> QED BY <2>2, <2>3
<1>12. CASE AskCovers(t)
  <2>1. /\ r.pc = "covers" /\ r.loan \in Loans /\ Borrower[r.loan] = r.who
        /\ {<<"current", r.loan>>, <<"person", Lender[r.loan]>>} \subseteq r.seen
        /\ {<<"revoked", r.loan>>, <<"inactive", Lender[r.loan]>>} \subseteq r.missed
    BY <1>0, <1>12 DEF AskCovers, Borrows
  <2>2. CASE <<"covers", r.loan>> \in facts /\ Lender[r.loan] = g
    <3>1. <<"covers", r.loan>> \in r.seen /\ g \in Persons
      BY <1>2, <2>1, <2>2, QueriesAssumption
    <3>2. Lent(r, g)
      BY <2>1, <2>2, <3>1 DEF Lent
    <3>3. Clear(t)
      BY <1>12, <2>2 DEF AskCovers
    <3>4. g # r.who
      BY <2>1, <2>2, QueriesAssumption
    <3> QED BY <1>0, <1>1, <3>1, <3>2, <3>3, <3>4, ClearKeeps DEF Opened
  <2>3. CASE ~(<<"covers", r.loan>> \in facts /\ Lender[r.loan] = g)
    BY <1>5, <1>12, <2>1, <2>3 DEF AskCovers
  <2> QED BY <2>2, <2>3
<1> QED BY <1>7, <1>8, <1>10, <1>11, <1>12

LEMMA ChecksKeep ==
  ASSUME IInv, events' \in 0..MaxEvents, NEW t \in Tasks,
         AskOpen(t) \/ AskAdmin(t) \/ AskDenied(t) \/ AskGranted(t) \/ Fetch(t)
  PROVE  IInv'
<1> DEFINE r == task[t]
           g == Graph(r)
<1>0. /\ r \in Reqs /\ Asks(r) /\ Aware(r, facts) /\ Clears(r) /\ Loads(r, Bodies, View)
      /\ Reaches(r) /\ facts \in SUBSET Facts /\ r.pc \in {"open", "fetch"} \cup Clearing
      /\ UNCHANGED <<registry, cache, facts, persona>>
  BY DEF IInv, Typed, Sound, AskOpen, AskAdmin, AskDenied, AskGranted, Fetch, Clearing
<1>1. r.op = "read" /\ r.who \in Persons /\ r.pc # "forget"
  BY <1>0 DEF Asks, Clearing
<1>2. /\ \A k \in {"admin", "granted", "denied"} :
           /\ <<k, r.who>> \in facts => <<k, r.who>> \in r.seen
           /\ <<k, r.who>> \notin facts => <<k, r.who>> \in r.missed
  BY <1>0, <1>1, ReaderSees
<1>3. ASSUME NEW pc \in {"denied", "granted", "lent"}, Goes(t, pc), r.pc \in Clearing,
             pc \in {"denied", "granted"} /\ g \in r.left => g \in {"public", r.who},
             pc = "granted" => <<"denied", r.who>> \in r.missed
      PROVE  IInv'
  <2> DEFINE q == [r EXCEPT !.pc = pc]
  <2>1. task' = [task EXCEPT ![t] = q]
    BY <1>3 DEF Goes
  <2>2. pc \in Places
    BY DEF Clearing, Places
  <2> HIDE DEF q
  <2>3. /\ q \in Reqs /\ q.pc = pc /\ q.op = r.op /\ q.who = r.who /\ q.left = r.left
        /\ q.names = r.names /\ q.open = r.open /\ q.seen = r.seen /\ q.missed = r.missed
        /\ Graph(q) = Graph(r) /\ Matters(q) = Matters(r)
    BY <1>0, <2>2, Going DEF q
  <2>4. Clears(q)
    <3>1. \A h \in q.names \ q.left : h = "ground" \/ Opened(q, h)
      BY <1>0, <1>3, <2>3, OpenedStays DEF Clears
    <3> QED BY <1>0, <1>3, <2>3, <3>1 DEF Clears, Clearing, Borrows
  <2>5. Asks(q) /\ Loads(q, Bodies, View) /\ Reaches(q) /\ Aware(q, facts)
    BY <1>0, <1>1, <1>3, <2>3 DEF Asks, Loads, Reaches, Clearing, Reaching, Aware
  <2> QED BY <1>0, <1>1, <2>1, <2>3, <2>4, <2>5, OnlyTaskMoves DEF Sound
<1>4. CASE AskOpen(t)
  <2>1. CASE r.open /\ <<"admin", r.who>> \notin facts
    BY <1>0, <1>1, <1>4, <2>1, EndsKeeps DEF AskOpen
  <2>2. CASE ~(r.open /\ <<"admin", r.who>> \notin facts)
    <3>1. task' = [task EXCEPT ![t] = CheckNext(r)] /\ r.pc = "open"
      BY <1>4, <2>2 DEF AskOpen
    <3>2. r.open => <<"admin", r.who>> \in r.seen
      BY <1>0, <1>2, <2>2
    <3>3. CheckNext(r) \in Reqs /\ Sound(CheckNext(r), facts, Bodies, View)
      BY <1>0, <1>1, <3>1, <3>2, CheckNextSound DEF Clears
    <3> QED BY <1>0, <1>1, <3>1, <3>3, OnlyTaskMoves
  <2> QED BY <2>1, <2>2
<1>5. CASE AskAdmin(t)
  <2>1. CASE <<"admin", r.who>> \in facts
    BY <1>0, <1>2, <1>5, <2>1, ClearKeeps DEF AskAdmin, Opened, Clearing
  <2>2. CASE <<"admin", r.who>> \notin facts /\ g = "audit"
    BY <1>0, <1>1, <1>5, <2>2, EndsKeeps DEF AskAdmin, Ends
  <2>3. CASE <<"admin", r.who>> \notin facts /\ g # "audit"
    <3>1. r.pc = "admin" /\ Goes(t, IF SomeoneElses(r, g) THEN "lent" ELSE "denied")
      BY <1>5, <2>3 DEF AskAdmin
    <3>2. g \in r.left /\ ~SomeoneElses(r, g) => g \in {"public", r.who}
      BY <1>0, <2>3, <3>1 DEF Clears, Clearing, Reqs, Graphs, SomeoneElses
    <3>3. CASE SomeoneElses(r, g)
      BY <1>3, <3>1, <3>3 DEF Clearing
    <3>4. CASE ~SomeoneElses(r, g)
      BY <1>3, <3>1, <3>2, <3>4 DEF Clearing
    <3> QED BY <3>3, <3>4
  <2> QED BY <2>1, <2>2, <2>3
<1>6. CASE AskDenied(t)
  <2>1. r.pc = "denied" /\ (g \in r.left => g \in {"public", r.who})
    BY <1>0, <1>6 DEF AskDenied, Clears
  <2>2. CASE <<"denied", r.who>> \in facts
    BY <1>3, <1>6, <2>1, <2>2 DEF AskDenied, Clearing
  <2>3. CASE <<"denied", r.who>> \notin facts
    BY <1>2, <1>3, <1>6, <2>1, <2>3 DEF AskDenied, Clearing
  <2> QED BY <2>2, <2>3
<1>7. CASE AskGranted(t)
  <2>1. /\ r.pc = "granted" /\ <<"denied", r.who>> \in r.missed
        /\ g \in r.left => g \in {"public", r.who}
    BY <1>0, <1>7 DEF AskGranted, Clears
  <2>2. CASE <<"granted", r.who>> \in facts
    BY <1>0, <1>2, <1>7, <2>1, <2>2, ClearKeeps DEF AskGranted, Opened, Clearing
  <2>3. CASE <<"granted", r.who>> \notin facts
    BY <1>3, <1>7, <2>1, <2>3 DEF AskGranted, Clearing
  <2> QED BY <2>2, <2>3
<1>8. CASE Fetch(t)
  BY <1>0, <1>1, <1>8, EndsKeeps DEF Fetch, Ends
<1> QED BY <1>4, <1>5, <1>6, <1>7, <1>8
-----------------------------------------------------------------------------
\* Loading: what a request does with the registry it was given.
LEMMA FoundSound ==
  ASSUME NEW r \in Reqs, NEW v \in Views, NEW now, NEW bodies, NEW view,
         Aware(r, now), Clears(r), r.id \in Ids, r.who \in Persons
  PROVE  /\ Found(r, v) \in Reqs /\ Sound(Found(r, v), now, bodies, view)
         /\ Found(r, v).pc # "forget"
<1> DEFINE e == v[r.id]
           f == Found(r, v)
<1>1. e \in Entries /\ Nothing \in Views
  BY DEF Views, Nothing, Entries, Vocabularies
<1>2. CASE f = Idle
  BY <1>2, IdleSound
<1>3. ASSUME r.op = "delete", f = [r EXCEPT !.view = Nothing, !.hit = FALSE, !.pc = "write",
                                            !.as = e.vocabulary]
      PROVE  f \in Reqs /\ Sound(f, now, bodies, view) /\ f.pc # "forget"
  <2> HIDE DEF f
  <2>1. /\ f \in Reqs /\ f.pc = "write" /\ f.op = r.op /\ f.who = r.who /\ f.id = r.id
        /\ f.left = r.left /\ f.names = r.names /\ f.seen = r.seen /\ f.missed = r.missed
    BY <1>1, <1>3, PlaceNames DEF Reqs, Entries
  <2>2. Matters(f) = Matters(r)
    BY <2>1 DEF Matters, About
  <2>3. Clears(f)
    BY <2>1 DEF Clears, Clearing, Borrows
  <2> QED BY <1>3, <2>1, <2>2, <2>3 DEF Sound, Asks, Aware, Loads, Reaches, Reaching, Clearing
<1>4. ASSUME f = [r EXCEPT !.view = Nothing, !.hit = FALSE, !.pc = "restricted",
                           !.as = e.vocabulary, !.seat = r.who \in persona.now]
      PROVE  f \in Reqs /\ Sound(f, now, bodies, view) /\ f.pc # "forget"
  <2> HIDE DEF f
  <2>0. (r.who \in persona.now) \in BOOLEAN
    OBVIOUS
  <2>1. /\ f \in Reqs /\ f.pc = "restricted" /\ f.op = r.op /\ f.who = r.who /\ f.id = r.id
        /\ f.as \in Vocabularies
        /\ f.left = r.left /\ f.names = r.names /\ f.seen = r.seen /\ f.missed = r.missed
    BY <1>1, <1>4, <2>0, PlaceNames DEF Reqs, Entries
  <2>2. Matters(f) = Matters(r)
    BY <2>1 DEF Matters, About
  <2>3. Clears(f)
    BY <2>1 DEF Clears, Clearing, Borrows
  <2> QED BY <2>1, <2>2, <2>3 DEF Sound, Asks, Aware, Loads, Reaches, Reaching, Clearing
<1> QED BY <1>2, <1>3, <1>4 DEF Found

LEMMA LoadKeeps ==
  ASSUME IInv, events' \in 0..MaxEvents, NEW t \in Tasks, NEW read \in BOOLEAN,
         ReadCache(t) \/ LoadBodies(t, read) \/ LoadParams(t, read)
  PROVE  IInv'
<1> DEFINE r == task[t]
<1>0. /\ r \in Reqs /\ Asks(r) /\ Aware(r, facts) /\ Clears(r) /\ Loads(r, Bodies, View)
      /\ UNCHANGED <<registry, cache, facts, persona>> /\ cache.view \in Views
      /\ r.pc \in {"cache", "bodies", "params"}
      /\ registry \in [Tools -> Versions \cup {Absent}]
  BY DEF IInv, Typed, Sound, ReadCache, LoadBodies, LoadParams
<1>1. r.id \in Ids /\ r.who \in Persons
  BY <1>0 DEF Asks
<1>2. ASSUME NEW q \in Reqs, task' = [task EXCEPT ![t] = q], q.op = r.op, q.who = r.who,
             q.id = r.id, q.pc \in {"bodies", "params", "keep"}, Loads(q, Bodies, View),
             q.left = r.left, q.names = r.names, q.seen = r.seen, q.missed = r.missed
      PROVE  IInv'
  <2>1. Matters(q) = Matters(r)
    BY <1>2 DEF Matters, About
  <2>2. Clears(q)
    BY <1>0, <1>2 DEF Clears, Clearing, Borrows
  <2>3. Asks(q) /\ Aware(q, facts) /\ Reaches(q)
    BY <1>0, <1>1, <1>2, <2>1 DEF Asks, Aware, Reaches, Reaching, Clearing
  <2> QED BY <1>0, <1>2, <2>2, <2>3, OnlyTaskMoves DEF Sound
<1>3. CASE ReadCache(t)
  <2>1. CASE task' = [task EXCEPT ![t] = Found(r, cache.view)]
    BY <1>0, <1>1, <2>1, FoundSound, OnlyTaskMoves
  <2>2. CASE Goes(t, "bodies")
    <3> DEFINE q == [r EXCEPT !.pc = "bodies"]
    <3>1. /\ q \in Reqs /\ q.pc = "bodies" /\ q.op = r.op /\ q.who = r.who /\ q.id = r.id
          /\ q.left = r.left /\ q.names = r.names /\ q.seen = r.seen /\ q.missed = r.missed
      BY <1>0, Going DEF Places
    <3>2. task' = [task EXCEPT ![t] = q]
      BY <2>2 DEF Goes
    <3> QED BY <1>2, <3>1, <3>2 DEF Loads
  <2> QED BY <1>3, <2>1, <2>2 DEF ReadCache, IInv, Typed
<1>4. CASE LoadBodies(t, read)
  <2> DEFINE v == IF read THEN Bodies ELSE Nothing
             pc == IF read THEN "params" ELSE "keep"
             q == [r EXCEPT !.pc = pc, !.view = v, !.hit = ~read]
  <2>1. task' = [task EXCEPT ![t] = q]
    BY <1>4 DEF LoadBodies, IInv, Typed
  <2>2. v \in Views /\ pc \in {"params", "keep"} /\ (pc = "params" => read)
        /\ (pc = "keep" => ~read) /\ (read => v = Bodies) /\ (~read => v = Nothing)
    BY <1>0, RegistryReads DEF Nothing, Views, Entries, Vocabularies
  <2> HIDE DEF v, pc
  <2>3. /\ q \in Reqs /\ q.pc = pc /\ q.op = r.op /\ q.who = r.who /\ q.id = r.id
        /\ q.left = r.left /\ q.names = r.names /\ q.seen = r.seen /\ q.missed = r.missed
        /\ q.view = v /\ q.hit = ~read
    BY <1>0, <2>2, PlaceNames DEF Reqs
  <2> HIDE DEF q
  <2>4. Loads(q, Bodies, View)
    <3>1. CASE read
      BY <1>0, <2>2, <2>3, <3>1, RegistryReads DEF Loads
    <3>2. CASE ~read
      <4>1. WellFormed(Nothing)
        BY DEF WellFormed, Nothing
      <4> QED BY <2>2, <2>3, <3>2, <4>1 DEF Loads
    <3> QED BY <3>1, <3>2
  <2> QED BY <1>2, <2>1, <2>2, <2>3, <2>4
<1>5. CASE LoadParams(t, read)
  <2> DEFINE v == IF read THEN WithParams(r.view) ELSE r.view
             q == [r EXCEPT !.pc = "keep", !.view = v, !.hit = r.hit \/ ~read]
  <2>1. task' = [task EXCEPT ![t] = q] /\ r.pc = "params"
    <3>1. task' = [task EXCEPT ![t].pc = "keep", ![t].hit = task[t].hit \/ ~read, ![t].view = v]
      BY <1>5 DEF LoadParams, IInv, Typed, Reqs
    <3> QED BY <1>5, <3>1 DEF LoadParams, IInv, Typed
  <2>2. r.view \in Views /\ (\A i \in Ids : r.view[i].params = Absent)
        /\ (~r.hit => r.view = Bodies)
    BY <1>0, <2>1 DEF Loads, Reqs
  <2>3. v \in Views /\ WellFormed(v) /\ (read /\ ~r.hit => v = View)
    <3>1. CASE ~read
      BY <2>2, <3>1 DEF WellFormed
    <3>2. CASE read
      <4>1. ASSUME NEW i \in Ids
            PROVE  /\ v[i] \in Entries /\ (v[i].body = Absent => v[i].params = Absent)
                   /\ ~r.hit => v[i] = View[i]
        <5>1. r.view[i] \in Entries /\ r.view[i].params = Absent
          BY <2>2 DEF Views
        <5>2. registry[<<i, r.view[i].vocabulary>>] \in Versions \cup {Absent}
          BY <1>0, <5>1 DEF Tools, Entries
        <5>3. v[i] = IF r.view[i].body = Absent THEN r.view[i]
                     ELSE [r.view[i] EXCEPT !.params = registry[<<i, r.view[i].vocabulary>>]]
          BY <3>2 DEF WithParams
        <5>4. v[i] \in Entries /\ (v[i].body = Absent => v[i].params = Absent)
          BY <5>1, <5>2, <5>3 DEF Entries
        <5>5. ASSUME ~r.hit PROVE v[i] = View[i]
          <6>1. /\ r.view[i] = Bodies[i]
                /\ View[i] = [Bodies[i] EXCEPT !.params = registry[<<i, Definition(i)>>]]
            BY <2>2, <5>5 DEF View
          <6>2. /\ Bodies[i].vocabulary = Definition(i) /\ Bodies[i].params = Absent
                /\ Bodies[i].body = registry[<<i, Definition(i)>>]
            BY DEF Bodies
          <6>3. CASE Bodies[i].body = Absent
            <7>1. [Bodies[i] EXCEPT !.params = Absent] = Bodies[i]
              BY <5>1, <6>1, <6>2 DEF Entries
            <7> QED BY <5>3, <6>1, <6>2, <6>3, <7>1
          <6>4. CASE Bodies[i].body # Absent
            BY <5>3, <6>1, <6>2, <6>4
          <6> QED BY <6>3, <6>4
        <5> QED BY <5>4, <5>5
      <4>2. v \in Views
        BY <3>2, <4>1 DEF Views, WithParams
      <4>3. ~r.hit => v = View
        BY <3>2, <4>1 DEF WithParams, View
      <4> QED BY <4>1, <4>2, <4>3 DEF WellFormed
    <3> QED BY <3>1, <3>2
  <2> HIDE DEF v
  <2>4. /\ q \in Reqs /\ q.pc = "keep" /\ q.op = r.op /\ q.who = r.who /\ q.id = r.id
        /\ q.left = r.left /\ q.names = r.names /\ q.seen = r.seen /\ q.missed = r.missed
        /\ q.view = v /\ q.hit = (r.hit \/ ~read)
    BY <1>0, <2>3, PlaceNames DEF Reqs
  <2> HIDE DEF q
  <2>5. Loads(q, Bodies, View)
    BY <2>3, <2>4 DEF Loads
  <2> QED BY <1>2, <2>1, <2>4, <2>5
<1> QED BY <1>3, <1>4, <1>5
\* What an undisturbed load keeps is what is registered.
LEMMA KeepKeeps ==
  ASSUME IInv, events' \in 0..MaxEvents, NEW t \in Tasks, Keep(t)
  PROVE  IInv'
<1> DEFINE r == task[t]
<1>0. /\ r \in Reqs /\ Asks(r) /\ Aware(r, facts) /\ Clears(r) /\ Loads(r, Bodies, View)
      /\ r.pc = "keep" /\ r.id \in Ids /\ r.who \in Persons
      /\ UNCHANGED <<registry, facts, persona>> /\ task' = [task EXCEPT ![t] = Found(r, r.view)]
      /\ cache' = [held |-> TRUE, ok |-> ~r.hit, view |-> r.view]
  BY DEF IInv, Typed, Sound, Keep, Asks
<1>1. r.view \in Views /\ WellFormed(r.view) /\ (~r.hit => r.view = View) /\ r.hit \in BOOLEAN
  BY <1>0 DEF Reqs, Loads
<1>2. /\ cache' \in [held : BOOLEAN, ok : BOOLEAN, view : Views] /\ WellFormed(cache'.view)
      /\ cache'.ok = ~r.hit /\ cache'.view = r.view
  BY <1>0, <1>1
<1>3. View' = View
  BY <1>0 DEF View, Bodies, Definition
<1>4. CacheAgrees'
  BY <1>1, <1>2, <1>3 DEF CacheAgrees
<1>5. Found(r, r.view) \in Reqs /\ Sound(Found(r, r.view), facts, Bodies, View)
  BY <1>0, <1>1, FoundSound
<1> QED BY <1>0, <1>2, <1>4, <1>5, OneTaskMoves DEF IInv, Typed

\* Dropping the cache is always right.
LEMMA DropKeeps ==
  ASSUME IInv, events' \in 0..MaxEvents, UNCHANGED <<registry, facts, persona>>,
         cache' = NotCached, NEW t \in Tasks, NEW q \in Reqs, task' = [task EXCEPT ![t] = q],
         Sound(q, facts, Bodies, View)
  PROVE  IInv'
<1>1. /\ cache' \in [held : BOOLEAN, ok : BOOLEAN, view : Views] /\ WellFormed(cache'.view)
      /\ cache'.held = FALSE
  BY DEF NotCached, Nothing, Views, Entries, Vocabularies, WellFormed
<1>2. CacheAgrees'
  BY <1>1 DEF CacheAgrees
<1> QED BY <1>1, <1>2, OneTaskMoves DEF IInv, Typed

\* A change of the registry: the loads under way are disturbed, so nothing is
\* asked of what they hold.
LEMMA RegistryMoves ==
  ASSUME IInv, events' \in 0..MaxEvents, UNCHANGED <<facts, persona>>,
         registry' \in [Tools -> Versions \cup {Absent}],
         cache' \in [held : BOOLEAN, ok : BOOLEAN, view : Views], WellFormed(cache'.view),
         NEW f \in [Tasks -> Reqs], \A t \in Tasks : Sound(f[t], facts, Bodies, View),
         task' = Disturb(f), CacheAgrees'
  PROVE  IInv'
<1>1. ASSUME NEW t \in Tasks PROVE task'[t] \in Reqs /\ Sound(task'[t], facts, Bodies', View')
  <2> DEFINE r == f[t]
             q == task'[t]
  <2>1. r \in Reqs /\ Sound(r, facts, Bodies, View)
    OBVIOUS
  <2>2. CASE r.pc \in {"params", "keep"}
    <3>1. q = [r EXCEPT !.hit = TRUE]
      BY <2>2 DEF Disturb
    <3> HIDE DEF q
    <3>2. /\ q \in Reqs /\ q.pc = r.pc /\ q.op = r.op /\ q.who = r.who /\ q.id = r.id
          /\ q.left = r.left /\ q.names = r.names /\ q.seen = r.seen /\ q.missed = r.missed
          /\ q.view = r.view /\ q.hit
      BY <2>1, <3>1 DEF Reqs
    <3>3. Matters(q) = Matters(r)
      BY <3>2 DEF Matters, About
    <3>4. Clears(q) /\ Reaches(q)
      BY <2>1, <2>2, <3>2 DEF Sound, Clears, Clearing, Borrows, Reaches
    <3>5. Asks(q) /\ Aware(q, facts)
      BY <2>1, <2>2, <3>2, <3>3 DEF Sound, Asks, Aware, Reaching, Clearing
    <3>6. Loads(q, Bodies', View')
      BY <2>1, <2>2, <3>2 DEF Sound, Loads
    <3> QED BY <3>2, <3>4, <3>5, <3>6 DEF Sound, q
  <2>3. CASE r.pc \notin {"params", "keep"}
    <3>1. q = r
      BY <2>3 DEF Disturb
    <3> QED BY <2>1, <2>3, <3>1 DEF Sound, Loads
  <2> QED BY <2>2, <2>3
<1>2. task' \in [Tasks -> Reqs]
  BY <1>1 DEF Disturb
<1>3. Typed'
  BY <1>2 DEF IInv, Typed
<1> QED BY <1>1, <1>3 DEF IInv

LEMMA WriteKeeps ==
  ASSUME IInv, events' \in 0..MaxEvents, NEW t \in Tasks, NEW answered \in BOOLEAN,
         Write(t, answered)
  PROVE  IInv'
<1> DEFINE r == task[t]
           q == IF answered THEN [r EXCEPT !.pc = "forget"] ELSE Idle
           f == [task EXCEPT ![t] = q]
<1>0. /\ r \in Reqs /\ Sound(r, facts, Bodies, View) /\ r.pc = "write"
      /\ task \in [Tasks -> Reqs] /\ registry \in [Tools -> Versions \cup {Absent}]
      /\ cache \in [held : BOOLEAN, ok : BOOLEAN, view : Views] /\ WellFormed(cache.view)
      /\ UNCHANGED <<facts, persona>> /\ task' = Disturb(f)
  BY DEF IInv, Typed, Write
<1>1. registry' \in [Tools -> Versions \cup {Absent}]
  <2>1. PICK v, tool : v \in Versions \cup {Absent} /\ registry' = [registry EXCEPT ![tool] = v]
    BY <1>0 DEF Write, Sound, Asks
  <2> QED BY <1>0, <2>1
<1>2. q \in Reqs /\ Sound(q, facts, Bodies, View) /\ (answered => q.pc = "forget")
  <2>1. CASE answered
    <3> DEFINE p == [r EXCEPT !.pc = "forget"]
    <3>1. /\ p \in Reqs /\ p.pc = "forget" /\ p.op = r.op /\ p.who = r.who /\ p.id = r.id
          /\ p.left = r.left /\ p.names = r.names /\ p.seen = r.seen /\ p.missed = r.missed
          /\ Matters(p) = Matters(r)
      BY <1>0, Going DEF Places
    <3> HIDE DEF p
    <3>2. Sound(p, facts, Bodies, View)
      BY <1>0, <3>1 DEF Sound, Asks, Aware, Loads, Reaches, Reaching, Clears, Borrows, Clearing
    <3> QED BY <2>1, <3>1, <3>2 DEF p
  <2>2. CASE ~answered
    BY <2>2, IdleSound
  <2> QED BY <2>1, <2>2
<1> HIDE DEF q
<1>3. /\ cache' \in [held : BOOLEAN, ok : BOOLEAN, view : Views] /\ WellFormed(cache'.view)
      /\ cache'.held = cache.held /\ (cache.held /\ ~answered => ~cache'.ok)
  <2>1. cache' = [cache EXCEPT !.ok = cache.ok /\ (answered \/ ~cache.held)]
    BY DEF Write
  <2>2. (cache.ok /\ (answered \/ ~cache.held)) \in BOOLEAN
    OBVIOUS
  <2> QED BY <1>0, <2>1, <2>2
<1>4. f \in [Tasks -> Reqs] /\ \A s \in Tasks : Sound(f[s], facts, Bodies, View)
  BY <1>0, <1>2 DEF IInv
<1>5. CacheAgrees'
  <2>1. answered => task'[t].pc = "forget"
    BY <1>0, <1>2 DEF Disturb
  <2> QED BY <1>3, <2>1 DEF CacheAgrees
<1> HIDE DEF f
<1> QED BY <1>0, <1>1, <1>3, <1>4, <1>5, RegistryMoves
-----------------------------------------------------------------------------
\* Reaching a query through the persona, and switching to it.
LEMMA ReachKeeps ==
  ASSUME IInv, events' \in 0..MaxEvents, NEW t \in Tasks,
         AskRestricted(t) \/ AskInset(t) \/ Show(t) \/ Run(t) \/ AskHome(t)
  PROVE  IInv'
<1> DEFINE r == task[t]
           tool == <<r.id, r.as>>
<1>0. /\ r \in Reqs /\ Asks(r) /\ Aware(r, facts) /\ Clears(r) /\ Loads(r, Bodies, View)
      /\ Reaches(r) /\ facts \in SUBSET Facts /\ r.pc \in {"home"} \cup Reaching
      /\ UNCHANGED <<registry, cache, facts, persona>>
  BY DEF IInv, Typed, Sound, AskRestricted, AskInset, Show, Run, AskHome, Reaching
<1>1. /\ r.who \in Persons
      /\ r.pc \in Reaching => r.id \in Ids /\ r.as \in Vocabularies
  BY <1>0 DEF Asks, Reaching
<1>2. r.op = "run" /\ r.pc \in Reaching =>
        \A k \in {"restricted", "inset"} : /\ <<k, tool>> \in facts => <<k, tool>> \in r.seen
                                           /\ <<k, tool>> \notin facts => <<k, tool>> \in r.missed
  BY <1>0, <1>1, RunnerSees
<1>3. ASSUME NEW pc \in {"inset", "go", "set"}, task' = [task EXCEPT ![t] = [r EXCEPT !.pc = pc]],
             pc # "set" => r.pc \in Reaching, pc = "inset" => r.seat,
             pc = "go" /\ r.op = "run" =>
               <<"restricted", tool>> \in r.missed \/ (r.seat /\ <<"inset", tool>> \in r.seen)
      PROVE  IInv'
  <2> DEFINE q == [r EXCEPT !.pc = pc]
  <2>1. /\ q \in Reqs /\ q.pc = pc /\ q.op = r.op /\ q.who = r.who /\ q.id = r.id /\ q.as = r.as
        /\ q.left = r.left /\ q.names = r.names /\ q.seen = r.seen /\ q.missed = r.missed
        /\ q.seat = r.seat /\ Matters(q) = Matters(r)
    BY <1>0, Going DEF Places
  <2> HIDE DEF q
  <2>2. Clears(q)
    BY <1>0, <2>1 DEF Clears, Clearing, Borrows
  <2>3. Asks(q) /\ Aware(q, facts) /\ Loads(q, Bodies, View)
    BY <1>0, <1>1, <1>3, <2>1 DEF Asks, Aware, Loads, Reaching, Clearing
  <2>4. Reaches(q)
    BY <1>3, <2>1 DEF Reaches
  <2>5. r.pc # "forget"
    BY <1>0 DEF Reaching
  <2> QED BY <1>0, <1>3, <2>1, <2>2, <2>3, <2>4, <2>5, OnlyTaskMoves DEF Sound, q
<1>4. ASSUME task' = [task EXCEPT ![t] = Idle] PROVE IInv'
  BY <1>0, <1>4, EndsKeeps DEF Reaching
<1>5. CASE AskRestricted(t)
  <2>1. r.pc = "restricted" /\ r.pc \in Reaching
    BY <1>5 DEF AskRestricted, Reaching
  <2>2. CASE <<"restricted", tool>> \notin facts
    <3>1. task' = [task EXCEPT ![t] = [r EXCEPT !.pc = "go"]]
      BY <1>5, <2>2 DEF AskRestricted
    <3> QED BY <1>2, <1>3, <2>1, <2>2, <3>1
  <2>3. CASE <<"restricted", tool>> \in facts /\ r.seat
    <3>1. task' = [task EXCEPT ![t] = [r EXCEPT !.pc = "inset"]]
      BY <1>5, <2>3 DEF AskRestricted
    <3> QED BY <1>3, <2>1, <2>3, <3>1
  <2>4. CASE <<"restricted", tool>> \in facts /\ ~r.seat
    BY <1>4, <1>5, <2>4 DEF AskRestricted
  <2> QED BY <2>2, <2>3, <2>4
<1>6. CASE AskInset(t)
  <2>1. r.pc = "inset" /\ r.pc \in Reaching /\ r.seat
    BY <1>0, <1>6 DEF AskInset, Reaching, Reaches
  <2>2. CASE InToolset(r)
    <3>1. task' = [task EXCEPT ![t] = [r EXCEPT !.pc = "go"]]
      BY <1>6, <2>2 DEF AskInset, Goes, IInv, Typed
    <3> QED BY <1>2, <1>3, <2>1, <2>2, <3>1 DEF InToolset
  <2>3. CASE ~InToolset(r)
    BY <1>4, <1>6, <2>3 DEF AskInset, Ends
  <2> QED BY <2>2, <2>3
<1>7. CASE Show(t) \/ Run(t)
  BY <1>4, <1>7 DEF Show, Run, Ends
<1>8. CASE AskHome(t)
  <2>1. CASE <<"home", r.who>> \in facts
    <3>1. task' = [task EXCEPT ![t] = [r EXCEPT !.pc = "set"]]
      BY <1>8, <2>1 DEF AskHome, Goes, IInv, Typed
    <3> QED BY <1>3, <3>1
  <2>2. CASE <<"home", r.who>> \notin facts
    BY <1>4, <1>8, <2>2 DEF AskHome, Ends
  <2> QED BY <2>1, <2>2
<1> QED BY <1>5, <1>6, <1>7, <1>8

LEMMA SetPersonaKeeps ==
  ASSUME IInv, events' \in 0..MaxEvents, NEW t \in Tasks, NEW saved \in BOOLEAN,
         SetPersona(t, saved)
  PROVE  IInv'
<1>1. /\ task[t].pc = "set" /\ task[t].who \in Persons /\ UNCHANGED <<registry, cache, facts>>
      /\ task' = [task EXCEPT ![t] = Idle]
  BY DEF IInv, Typed, Sound, Asks, SetPersona, Ends
<1>2. persona' \in [now : SUBSET Persons, file : SUBSET Persons]
  BY <1>1 DEF SetPersona, IInv, Typed
<1>3. View' = View
  BY <1>1 DEF View, Bodies, Definition
<1>4. CacheAgrees'
  BY <1>1, <1>3 DEF IInv, Typed, CacheAgrees
<1> QED BY <1>1, <1>2, <1>4, IdleSound, OneTaskMoves DEF IInv, Typed

-----------------------------------------------------------------------------
\* Requests, as they begin, and what changes around them.
LEMMA WitnessSound ==
  ASSUME NEW r \in Reqs, NEW now \in SUBSET Facts, NEW bodies, NEW view,
         Asks(r), Loads(r, bodies, view), Reaches(r), Clears(r)
  PROVE  /\ Witness(r, now) \in Reqs /\ Sound(Witness(r, now), now, bodies, view)
         /\ Witness(r, now).pc = r.pc
<1> DEFINE q == Witness(r, now)
<1>1. Matters(r) \in SUBSET Facts
  BY DEF Matters, About
<1>2. /\ q \in Reqs /\ q.pc = r.pc /\ q.op = r.op /\ q.who = r.who /\ q.id = r.id /\ q.as = r.as
      /\ q.view = r.view /\ q.hit = r.hit /\ q.seat = r.seat /\ q.left = r.left
      /\ q.names = r.names /\ q.open = r.open /\ q.rows = r.rows /\ q.loan = r.loan
      /\ q.seen = r.seen \cup (Matters(r) \cap now)
      /\ q.missed = r.missed \cup (Matters(r) \ now)
  BY <1>1 DEF Witness, Reqs
<1> HIDE DEF q
<1>3. Matters(q) = Matters(r) /\ Graph(q) = Graph(r)
  BY <1>2, SameGraph DEF Matters, About
<1>4. Clears(q)
  <2>1. r.pc \in {"fetch"} \cup Clearing =>
          \A g \in q.names \ q.left : g = "ground" \/ Opened(q, g)
    BY <1>2, OpenedStays DEF Clears
  <2>2. Borrows(q)
    BY <1>2 DEF Clears, Borrows
  <2> QED BY <1>2, <1>3, <2>1, <2>2 DEF Clears, Clearing
<1>5. Asks(q) /\ Aware(q, now) /\ Loads(q, bodies, view) /\ Reaches(q)
  BY <1>2, <1>3 DEF Asks, Aware, Loads, Reaches, Clearing, Reaching
<1> QED BY <1>2, <1>4, <1>5 DEF Sound, q

LEMMA StartKeeps ==
  ASSUME IInv, events' \in 0..MaxEvents, NEW t \in Tasks, NEW p \in Persons,
         \/ \E i \in Ids : \/ \E op \in {"list", "run"}, b \in BOOLEAN : Look(t, op, p, i, b)
                           \/ \E v \in Versions : Register(t, p, i, v)
                           \/ Reload(t, p, i) \/ Delete(t, p, i)
         \/ \E q \in Named, b \in BOOLEAN, f \in Fields \cup {Absent} : Select(t, p, q, b, f)
         \/ \E g \in Graphs : GetGraph(t, p, g)
         \/ Switch(t, p)
  PROVE  IInv'
<1>0. facts \in SUBSET Facts
  BY DEF IInv, Typed
<1>1. ASSUME NEW r \in Reqs, Start(t, r), Asks(r), r.pc \in {"cache", "write", "open", "home"},
             r.left = r.names
      PROVE  IInv'
  <2>1. Loads(r, Bodies, View) /\ Reaches(r) /\ Clears(r)
    BY <1>1 DEF Loads, Reaches, Clears, Borrows, Clearing
  <2>2. Witness(r, facts) \in Reqs /\ Sound(Witness(r, facts), facts, Bodies, View)
    BY <1>0, <1>1, <2>1, WitnessSound
  <2>3. task[t].pc # "forget"
    BY <1>1, IdleSound DEF Start
  <2> QED BY <1>1, <2>2, <2>3, OnlyTaskMoves DEF Start
<1>2. ASSUME NEW op \in Ops, NEW i \in Ids \cup {Idle.id}, NEW r, r = Asked(op, p, i)
      PROVE  /\ r \in Reqs /\ r.op = op /\ r.who = p /\ r.id = i /\ r.left = r.names
  <2>1. Idle \in Reqs /\ Idle.left = Idle.names
    BY IdleSound DEF Idle
  <2> QED BY <1>2, <2>1 DEF Asked, Reqs
<1>3. ASSUME NEW i \in Ids, NEW op \in {"list", "run"}, NEW b \in BOOLEAN, Look(t, op, p, i, b)
      PROVE  IInv'
  <2> DEFINE a == Asked(op, p, i)
             r == [a EXCEPT !.pc = "cache", !.refresh = b /\ op = "list"]
  <2>1. a \in Reqs /\ a.op = op /\ a.who = p /\ a.id = i /\ a.left = a.names
    BY <1>2 DEF Ops
  <2>2. (b /\ op = "list") \in BOOLEAN
    OBVIOUS
  <2> HIDE DEF a
  <2>3. r \in Reqs /\ r.pc = "cache" /\ r.op = op /\ r.who = p /\ r.id = i /\ r.left = r.names
    BY <2>1, <2>2, PlaceNames DEF Reqs
  <2>4. Start(t, r)
    BY <1>3 DEF Look, a
  <2> HIDE DEF r
  <2> QED BY <1>1, <2>3, <2>4 DEF Asks, Reaching, Clearing
<1>4. ASSUME NEW i \in Ids, NEW v \in Versions, Register(t, p, i, v) PROVE IInv'
  <2> DEFINE a == Asked("register", p, i)
             r == [a EXCEPT !.pc = "write", !.as = v]
  <2>1. a \in Reqs /\ a.op = "register" /\ a.who = p /\ a.id = i /\ a.left = a.names
    BY <1>2 DEF Ops
  <2> HIDE DEF a
  <2>3. r \in Reqs /\ r.pc = "write" /\ r.op = "register" /\ r.who = p /\ r.left = r.names
        /\ r.as = v
    BY <2>1, PlaceNames DEF Reqs
  <2>4. Start(t, r)
    BY <1>4 DEF Register, a
  <2> HIDE DEF r
  <2> QED BY <1>1, <2>3, <2>4 DEF Asks, Reaching, Clearing
<1>5. ASSUME NEW i \in Ids, Delete(t, p, i) PROVE IInv'
  <2> DEFINE a == Asked("delete", p, i)
             r == [a EXCEPT !.pc = "cache"]
  <2>1. a \in Reqs /\ a.op = "delete" /\ a.who = p /\ a.id = i /\ a.left = a.names
    BY <1>2 DEF Ops
  <2> HIDE DEF a
  <2>3. r \in Reqs /\ r.pc = "cache" /\ r.op = "delete" /\ r.who = p /\ r.id = i /\ r.left = r.names
    BY <2>1, PlaceNames DEF Reqs
  <2>4. Start(t, r)
    BY <1>5 DEF Delete, a
  <2> HIDE DEF r
  <2> QED BY <1>1, <2>3, <2>4 DEF Asks, Reaching, Clearing
<1>6. ASSUME NEW i \in Ids, Reload(t, p, i) PROVE IInv'
  <2> DEFINE a == Asked("reload", p, i)
             r == [a EXCEPT !.pc = "bodies"]
  <2>1. a \in Reqs /\ a.op = "reload" /\ a.who = p /\ a.id = i /\ a.left = a.names
    BY <1>2 DEF Ops
  <2> HIDE DEF a
  <2>3. r \in Reqs /\ r.pc = "bodies" /\ r.op = "reload" /\ r.who = p /\ r.id = i
        /\ r.left = r.names
    BY <2>1, PlaceNames DEF Reqs
  <2>4. /\ task' = [task EXCEPT ![t] = r] /\ cache' = NotCached
        /\ UNCHANGED <<registry, facts, persona>>
    BY <1>6 DEF Reload, a
  <2> HIDE DEF r
  <2>5. Sound(r, facts, Bodies, View)
    BY <2>3 DEF Sound, Asks, Aware, Matters, Loads, Reaches, Clears, Borrows, Reaching, Clearing
  <2> QED BY <2>3, <2>4, <2>5, DropKeeps
<1>7. ASSUME NEW graphs \in SUBSET Graphs, NEW open \in BOOLEAN,
             NEW field \in Fields \cup {Absent}, Select(t, p, graphs, open, field)
      PROVE  IInv'
  <2> DEFINE a == Asked("read", p, Idle.id)
             r == [a EXCEPT !.pc = "open", !.left = graphs, !.names = graphs, !.open = open,
                   !.field = field]
  <2>1. a \in Reqs /\ a.op = "read" /\ a.who = p
    BY <1>2 DEF Ops
  <2> HIDE DEF a
  <2>3. r \in Reqs /\ r.pc = "open" /\ r.op = "read" /\ r.who = p /\ r.left = r.names
    BY <2>1, PlaceNames DEF Reqs
  <2>4. Start(t, r)
    BY <1>7 DEF Select, a
  <2> HIDE DEF r
  <2> QED BY <1>1, <2>3, <2>4 DEF Asks, Reaching, Clearing
<1>8. CASE Switch(t, p)
  <2> DEFINE a == Asked("switch", p, Idle.id)
             r == [a EXCEPT !.pc = "home"]
  <2>1. a \in Reqs /\ a.op = "switch" /\ a.who = p /\ a.left = a.names
    BY <1>2 DEF Ops
  <2> HIDE DEF a
  <2>3. r \in Reqs /\ r.pc = "home" /\ r.op = "switch" /\ r.who = p /\ r.left = r.names
    BY <2>1, PlaceNames DEF Reqs
  <2>4. Start(t, r)
    BY <1>8 DEF Switch, a
  <2> HIDE DEF r
  <2> QED BY <1>1, <2>3, <2>4 DEF Asks, Reaching, Clearing
<1>9. ASSUME NEW g \in Graphs, GetGraph(t, p, g) PROVE IInv'
  <2>1. Select(t, p, {g}, FALSE, Absent)
    BY <1>9 DEF GetGraph
  <2> QED BY <1>7, <2>1
<1>10. Named \subseteq SUBSET Graphs
  BY QueriesAssumption
<1> QED BY <1>3, <1>4, <1>5, <1>6, <1>7, <1>8, <1>9, <1>10

LEMMA SurroundingsKeep ==
  ASSUME IInv, events' \in 0..MaxEvents,
         \/ \E p \in Persons, b \in BOOLEAN : ClearPersona(p, b)
         \/ \E f \in Changeable : Change(f)
         \/ Expire \/ Restart
  PROVE  IInv'
<1>0. /\ task \in [Tasks -> Reqs] /\ facts \in SUBSET Facts
      /\ persona \in [now : SUBSET Persons, file : SUBSET Persons]
      /\ \A t \in Tasks : Sound(task[t], facts, Bodies, View)
      /\ cache \in [held : BOOLEAN, ok : BOOLEAN, view : Views] /\ WellFormed(cache.view)
  BY DEF IInv, Typed
<1>1. /\ NotCached \in [held : BOOLEAN, ok : BOOLEAN, view : Views] /\ WellFormed(NotCached.view)
      /\ NotCached.held = FALSE
  BY DEF NotCached, Nothing, Views, Entries, Vocabularies, WellFormed
<1>2. UNCHANGED registry => Bodies' = Bodies /\ View' = View
  BY DEF Bodies, View, Definition
<1>3. ASSUME NEW p \in Persons, NEW b \in BOOLEAN, ClearPersona(p, b) PROVE IInv'
  <2>1. persona' \in [now : SUBSET Persons, file : SUBSET Persons]
    BY <1>0, <1>3 DEF ClearPersona
  <2>2. Typed' /\ CacheAgrees'
    BY <1>2, <1>3, <2>1 DEF ClearPersona, IInv, Typed, CacheAgrees
  <2> QED BY <1>0, <1>2, <1>3, <2>2 DEF ClearPersona, IInv
<1>4. ASSUME NEW f \in Changeable, Change(f) PROVE IInv'
  <2>1. /\ facts' \in SUBSET Facts /\ UNCHANGED <<registry, cache, persona>>
        /\ task' = [t \in Tasks |-> Witness(task[t], facts')]
    BY <1>0, <1>4, QueriesAssumption DEF Change
  <2>2. \A t \in Tasks : /\ task'[t] \in Reqs /\ task'[t].pc = task[t].pc
                         /\ Sound(task'[t], facts', Bodies, View)
    BY <1>0, <2>1, WitnessSound DEF Sound
  <2>3. task' \in [Tasks -> Reqs]
    BY <2>1, <2>2
  <2>4. Typed' /\ CacheAgrees'
    BY <1>2, <2>1, <2>2, <2>3 DEF IInv, Typed, CacheAgrees
  <2> QED BY <1>2, <2>1, <2>2, <2>4 DEF IInv
<1>5. CASE Expire
  <2>1. Typed' /\ CacheAgrees'
    BY <1>1, <1>5 DEF Expire, IInv, Typed, CacheAgrees
  <2> QED BY <1>0, <1>2, <1>5, <2>1 DEF Expire, IInv
<1>6. CASE Restart
  <2>1. persona' \in [now : SUBSET Persons, file : SUBSET Persons]
    BY <1>0, <1>6 DEF Restart
  <2>2. task' \in [Tasks -> Reqs] /\ \A t \in Tasks : task'[t] = Idle
    BY <1>6, IdleSound DEF Restart
  <2>3. Typed' /\ CacheAgrees'
    BY <1>1, <1>6, <2>1, <2>2 DEF Restart, IInv, Typed, CacheAgrees
  <2> QED BY <1>2, <1>6, <2>2, <2>3, IdleSound DEF Restart, IInv
<1> QED BY <1>3, <1>4, <1>5, <1>6

LEMMA PushKeeps ==
  ASSUME IInv, events' \in 0..MaxEvents, NEW tool \in Tools, NEW v \in Versions \cup {Absent},
         Push(tool, v)
  PROVE  IInv'
<1>0. /\ task \in [Tasks -> Reqs] /\ \A t \in Tasks : Sound(task[t], facts, Bodies, View)
      /\ cache \in [held : BOOLEAN, ok : BOOLEAN, view : Views] /\ WellFormed(cache.view)
  BY DEF IInv, Typed
<1>1. /\ registry' \in [Tools -> Versions \cup {Absent}] /\ UNCHANGED <<facts, persona>>
      /\ task' = Disturb(task) /\ cache' = [cache EXCEPT !.ok = ~cache.held]
  BY DEF Push, IInv, Typed
<1>2. /\ cache' \in [held : BOOLEAN, ok : BOOLEAN, view : Views] /\ WellFormed(cache'.view)
      /\ cache'.held = cache.held /\ (cache.held => ~cache'.ok)
  <2>1. (~cache.held) \in BOOLEAN
    OBVIOUS
  <2> QED BY <1>0, <1>1, <2>1
<1>3. CacheAgrees'
  BY <1>2 DEF CacheAgrees
<1> QED BY <1>0, <1>1, <1>2, <1>3, RegistryMoves

-----------------------------------------------------------------------------
LEMMA NextKeeps == IInv /\ [Next]_vars => IInv'
<1> SUFFICES ASSUME IInv, [Next]_vars PROVE IInv'
  OBVIOUS
<1>1. CASE UNCHANGED vars
  BY <1>1 DEF vars, IInv, Typed, CacheAgrees, View, Bodies, Definition
<1>2. ASSUME Next PROVE events' \in 0..MaxEvents
  BY <1>2, QueriesAssumption DEF Next, IInv, Typed
<1>3. ASSUME Next, NEW t \in Tasks, Forget(t) PROVE IInv'
  BY <1>2, <1>3, IdleSound, DropKeeps DEF Forget, Invalidated, Ends
<1>4. ASSUME Next, NEW t \in Tasks, NEW b \in BOOLEAN,
             LoadBodies(t, b) \/ LoadParams(t, b) \/ Write(t, b) \/ SetPersona(t, b)
      PROVE  IInv'
  BY <1>2, <1>4, LoadKeeps, WriteKeeps, SetPersonaKeeps
<1>5. CASE Next /\ Steps
  <2>1. PICK t \in Tasks :
          \/ ReadCache(t) \/ LoadBodies(t, TRUE) \/ LoadParams(t, TRUE) \/ Keep(t)
          \/ Write(t, TRUE) \/ Forget(t) \/ AskRestricted(t) \/ AskInset(t) \/ Show(t) \/ Run(t)
          \/ AskOpen(t) \/ AskAdmin(t) \/ AskDenied(t) \/ AskGranted(t) \/ AskLent(t)
          \/ AskRevoked(t) \/ AskPerson(t) \/ AskInactive(t) \/ AskCovers(t) \/ Fetch(t)
          \/ AskHome(t) \/ SetPersona(t, TRUE)
    BY <1>5 DEF Steps
  <2>2. CASE \/ AskOpen(t) \/ AskAdmin(t) \/ AskDenied(t) \/ AskGranted(t) \/ Fetch(t)
             \/ AskLent(t) \/ AskRevoked(t) \/ AskPerson(t) \/ AskInactive(t) \/ AskCovers(t)
    BY <1>2, <1>5, <2>2, ChecksKeep, LoansKeep
  <2>3. CASE AskRestricted(t) \/ AskInset(t) \/ Show(t) \/ Run(t) \/ AskHome(t)
    BY <1>2, <1>5, <2>3, ReachKeeps
  <2>4. CASE ReadCache(t) \/ Keep(t)
    BY <1>2, <1>5, <2>4, LoadKeeps, KeepKeeps
  <2> QED BY <1>3, <1>4, <1>5, <2>1, <2>2, <2>3, <2>4
<1>6. CASE Next /\ Events
  <2>1. ASSUME NEW t \in Tasks, NEW p \in Persons,
               \/ \E i \in Ids : \/ \E op \in {"list", "run"}, b \in BOOLEAN : Look(t, op, p, i, b)
                                 \/ \E v \in Versions : Register(t, p, i, v)
                                 \/ Reload(t, p, i) \/ Delete(t, p, i)
               \/ \E q \in Named, b \in BOOLEAN, f \in Fields \cup {Absent} : Select(t, p, q, b, f)
               \/ \E g \in Graphs : GetGraph(t, p, g)
               \/ Switch(t, p)
        PROVE  IInv'
    BY <1>2, <1>6, <2>1, StartKeeps
  <2>2. CASE \E tool \in Tools, v \in Versions \cup {Absent} : Push(tool, v)
    BY <1>2, <1>6, <2>2, PushKeeps
  <2>3. CASE \/ \E p \in Persons, b \in BOOLEAN : ClearPersona(p, b)
             \/ \E f \in Changeable : Change(f)
             \/ Expire \/ Restart
    BY <1>2, <1>6, <2>3, SurroundingsKeep
  <2> QED BY <1>4, <1>6, <2>1, <2>2, <2>3 DEF Events
<1> QED BY <1>1, <1>5, <1>6 DEF Next

\* The inductive invariant holds of every behaviour of the named queries.
THEOREM InductiveInvariant == Spec => []IInv
BY InitEstablishes, NextKeeps, PTL DEF Spec

-----------------------------------------------------------------------------
\* Types, for any people, queries, graphs and requests; of what is cached, no
\* parameters without their body.
THEOREM TypeCorrect == Spec => []TypeOK
<1>1. IInv => TypeOK
  <2> SUFFICES ASSUME IInv PROVE TypeOK
    OBVIOUS
  <2>1. /\ registry \in [Tools -> Versions \cup {Absent}] /\ facts \subseteq Facts
        /\ cache.held \in BOOLEAN /\ cache.ok \in BOOLEAN
        /\ persona.now \subseteq Persons /\ persona.file \subseteq Persons
        /\ events \in 0..MaxEvents
        /\ \A i \in Ids : cache.view[i].body = Absent => cache.view[i].params = Absent
    BY DEF IInv, Typed, WellFormed
  <2>2. ASSUME NEW t \in Tasks
        PROVE  /\ task[t].pc \in Places /\ task[t].op \in Ops
               /\ task[t].left \subseteq task[t].names
               /\ task[t].pc \in Clearing => task[t].left # {}
               /\ task[t].rows \subseteq Loans /\ task[t].loan \in Loans \cup {Absent}
               /\ task[t].field \in Fields \cup {Absent}
    BY DEF IInv, Typed, Reqs, Sound, Clears, Clearing
  <2>3. ASSUME NEW t \in Tasks, NEW i \in Ids PROVE task[t].view[i] \in Entries
    BY DEF IInv, Typed, Reqs, Views
  <2> QED BY <2>1, <2>2, <2>3 DEF TypeOK, Entries
<1> QED BY <1>1, InductiveInvariant, PTL

\* What is cached is what is registered, unless it was loaded while the
\* registry changed or the change was not told to the cache.
THEOREM CacheIsTrue == Spec => []CacheAgrees
<1>1. IInv => CacheAgrees
  BY DEF IInv
<1> QED BY <1>1, InductiveInvariant, PTL

\* A named query that runs was reachable by who asked for it.
THEOREM OnlyReachableRuns == Spec => []RunsWereReachable
<1>1. IInv => RunsWereReachable
  BY DEF IInv, Sound, Reaches, RunsWereReachable
<1> QED BY <1>1, InductiveInvariant, PTL

\* Every graph of a query that is run was open to who asked for it.
THEOREM OnlyOpenGraphsAreRead == Spec => []ReadsWereAllowed
<1>1. IInv => ReadsWereAllowed
  BY DEF IInv, Sound, Clears, Opened, Touched, ReadsWereAllowed
<1> QED BY <1>1, InductiveInvariant, PTL
=============================================================================
