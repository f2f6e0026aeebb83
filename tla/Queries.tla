------------------------------ MODULE Queries ------------------------------
(***************************************************************************)
(* Reading: the registry of named queries and the cache in front of it     *)
(* (named_queries.py, cache.py, routes/named_queries.py), who may reach    *)
(* one under the persona they have switched to (toolset.py,                *)
(* persona_state.py, routes/persona.py), and the gate on a query somebody  *)
(* writes out (acl.authorize_query, routes/sparql.py, routes/graphs.py).   *)
(* Each question is a request to the store, and what it asks about may     *)
(* change before the next.                                                 *)
(***************************************************************************)
EXTENDS Naturals, FiniteSets

CONSTANTS
  Tasks, Persons, Ids,
  Versions,    \* what a query may be registered as
  Named,       \* the sets of graphs that queries name
  Place,       \* the order of their names
  Changeable,  \* the facts that change
  Given,       \* the facts that hold at first
  Loans,       \* delegations of the right to read
  Lender,      \* whose space each is about
  Borrower,    \* and to whom it is lent
  Fields,      \* the graphs that requests give beside the query
  MaxEvents    \* bound on requests, changes, failures and restarts

Absent == "absent"
Vocabularies == {"hb", "hquery"}
Tools == Ids \X Vocabularies

(* The graphs a query may name: ground truth, the audit log, the persona's *)
(* shared space, and each person's private space, named after its owner.   *)
Graphs == {"ground", "audit", "public"} \cup Persons

(* What the store says of people, delegations and tools.  A delegation is  *)
(* current while it is recorded and in its window, and covers the private  *)
(* space of its delegator or nothing that is asked for here.               *)
Facts ==
  ({"admin", "granted", "denied", "home", "person", "inactive"} \X Persons)
  \cup ({"current", "revoked", "covers"} \X Loans)
  \cup ({"restricted", "inset"} \X Tools)

ASSUME QueriesAssumption ==
  /\ Named \subseteq SUBSET Graphs /\ Place \in [Graphs -> Nat]
  /\ \A g, h \in Graphs : Place[g] = Place[h] => g = h
  /\ Changeable \subseteq Facts /\ Given \subseteq Facts /\ MaxEvents \in Nat
  /\ {"ground", "audit", "public"} \cap Persons = {}
  /\ Absent \notin Versions \cup Loans \cup Persons /\ Fields \subseteq Graphs
  /\ Lender \in [Loans -> Persons] /\ Borrower \in [Loans -> Persons]
  /\ \A l \in Loans : Lender[l] # Borrower[l]  \* delegation.py:194

VARIABLES
  registry,  \* by tool, the version registered
  cache,     \* what was loaded, and whether it was undisturbed since
  facts,
  persona,   \* who has switched to the persona, and what the file says of it
  task, events

vars == <<registry, cache, facts, persona, task, events>>

Nothing  == [i \in Ids |-> [vocabulary |-> "hb", body |-> Absent, params |-> Absent]]
NotCached == [held |-> FALSE, ok |-> TRUE, view |-> Nothing]
Idle == [pc |-> "idle", op |-> "none", who |-> CHOOSE p \in Persons : TRUE,
         id |-> CHOOSE i \in Ids : TRUE, as |-> Absent, refresh |-> FALSE, view |-> Nothing,
         hit |-> FALSE, seat |-> FALSE, left |-> {}, names |-> {}, open |-> FALSE,
         field |-> Absent, rows |-> {}, loan |-> Absent, seen |-> {}, missed |-> {}]

Ops == {"none", "list", "run", "reload", "register", "delete", "read", "switch"}
Places == {"idle", "cache", "bodies", "params", "keep", "write", "forget", "restricted", "inset", "go",
           "open", "admin", "denied", "granted", "lent", "revoked", "person", "inactive", "covers", "fetch", "home", "set"}
Clearing == {"admin", "denied", "granted", "lent", "revoked", "person", "inactive", "covers"}

TypeOK ==
  /\ registry \in [Tools -> Versions \cup {Absent}] /\ facts \subseteq Facts
  /\ cache.held \in BOOLEAN /\ cache.ok \in BOOLEAN
  /\ persona.now \subseteq Persons /\ persona.file \subseteq Persons /\ events \in 0..MaxEvents
  /\ \A t \in Tasks :
       /\ task[t].pc \in Places /\ task[t].op \in Ops /\ task[t].left \subseteq task[t].names
       /\ task[t].pc \in Clearing => task[t].left # {}
       /\ task[t].rows \subseteq Loans /\ task[t].loan \in Loans \cup {Absent}
       /\ task[t].field \in Fields \cup {Absent}
       /\ \A i \in Ids : LET q == task[t].view[i] IN
            q \in [vocabulary : Vocabularies, body : Versions \cup {Absent}, params : Versions \cup {Absent}]
  /\ \A i \in Ids : cache.view[i].body = Absent => cache.view[i].params = Absent

Init ==
  /\ registry \in [Tools -> Versions \cup {Absent}] /\ facts = Given
  /\ cache = NotCached /\ persona = [now |-> {}, file |-> {}]
  /\ task = [t \in Tasks |-> Idle] /\ events = 0

-----------------------------------------------------------------------------
(* What a request has seen to hold, and not to hold, since it began.       *)

About(r) ==
  {f \in Facts : f \in {<<"admin", r.who>>, <<"granted", r.who>>, <<"denied", r.who>>, <<"home", r.who>>}
              \/ (f[1] \in {"current", "revoked", "covers"} /\ Borrower[f[2]] = r.who)
              \/ f[1] \in {"person", "inactive"} \/ (f[1] \in {"restricted", "inset"} /\ f[2][1] = r.id)}

Matters(r) ==
  IF r.op = "read" THEN {f \in About(r) : f[1] \notin {"home", "restricted", "inset"}}
  ELSE IF r.op = "run" THEN {f \in About(r) : f[1] \in {"restricted", "inset"}}
  ELSE {}

Witness(r, now) == [r EXCEPT !.seen = @ \cup (Matters(r) \cap now), !.missed = @ \cup (Matters(r) \ now)]

Start(t, r) ==
  /\ task[t] = Idle /\ task' = [task EXCEPT ![t] = Witness(r, facts)]
  /\ UNCHANGED <<registry, cache, facts, persona>>

Goes(t, pc) == task' = [task EXCEPT ![t].pc = pc]
Ends(t)     == task' = [task EXCEPT ![t] = Idle]

-----------------------------------------------------------------------------
(* The registry: an id in both vocabularies is the hquery one's.           *)

Definition(i) == IF registry[<<i, "hquery">>] # Absent THEN "hquery" ELSE "hb"

Bodies == [i \in Ids |-> [vocabulary |-> Definition(i), body |-> registry[<<i, Definition(i)>>], params |-> Absent]]

View == [i \in Ids |-> [Bodies[i] EXCEPT !.params = registry[<<i, Definition(i)>>]]]

(* A change of the registry finds some loads between their first answer    *)
(* and what they keep.                                                     *)
Disturb(q) == [t \in Tasks |-> IF q[t].pc \in {"params", "keep"} THEN [q[t] EXCEPT !.hit = TRUE] ELSE q[t]]

(* What a request does with the registry it was given: _load_and_authorise *)
(* goes on to the caller's persona if the id is registered, a deletion to  *)
(* the definition it found; a reload is done.                              *)
Found(r, view) ==
  LET q == view[r.id]  base == [r EXCEPT !.view = Nothing, !.hit = FALSE] IN
  IF r.op = "reload" \/ q.body = Absent THEN Idle
  ELSE IF r.op = "delete" THEN [base EXCEPT !.pc = "write", !.as = q.vocabulary]
  ELSE [base EXCEPT !.pc = "restricted", !.as = q.vocabulary, !.seat = r.who \in persona.now]

(* RegistryCache.get: what is held, unless a refresh was asked for.        *)
ReadCache(t) ==
  /\ task[t].pc = "cache"
  /\ IF cache.held /\ ~task[t].refresh
       THEN task' = [task EXCEPT ![t] = Found(@, cache.view)]
       ELSE Goes(t, "bodies")
  /\ UNCHANGED <<registry, cache, facts, persona>>

(* load_named_queries: the bodies, and without them nothing; then what     *)
(* they take, and without that they are still there.                       *)
LoadBodies(t, read) ==
  /\ task[t].pc = "bodies"
  /\ task' = [task EXCEPT ![t].pc = IF read THEN "params" ELSE "keep",
       ![t].view = IF read THEN Bodies ELSE Nothing, ![t].hit = ~read]
  /\ UNCHANGED <<registry, cache, facts, persona>>

(* Mutant: a query is made up from parameters alone.                       *)
ParamsAnyway(view) == [i \in Ids |-> [view[i] EXCEPT !.params = registry[<<i, view[i].vocabulary>>]]]

WithParams(view) ==
  [i \in Ids |-> IF view[i].body = Absent THEN view[i]
                 ELSE [view[i] EXCEPT !.params = registry[<<i, view[i].vocabulary>>]]]

LoadParams(t, read) ==
  /\ task[t].pc = "params"
  /\ task' = [task EXCEPT ![t].pc = "keep", ![t].hit = @ \/ ~read,
       ![t].view = IF read THEN WithParams(@) ELSE @]
  /\ UNCHANGED <<registry, cache, facts, persona>>

Keep(t) ==
  /\ task[t].pc = "keep"
  /\ cache' = [held |-> TRUE, ok |-> ~task[t].hit, view |-> task[t].view]
  /\ task' = [task EXCEPT ![t] = Found(@, task[t].view)]
  /\ UNCHANGED <<registry, facts, persona>>

(* One update writes or deletes the definition; the cache is told after    *)
(* the store has answered.                                                 *)
Write(t, answered) ==
  LET r == task[t]
      tool == <<r.id, IF r.op = "register" THEN "hb" ELSE r.as>> IN
  /\ r.pc = "write"
  /\ registry' = [registry EXCEPT ![tool] = IF r.op = "register" THEN r.as ELSE Absent]
  /\ task' = Disturb([task EXCEPT ![t] = IF answered THEN [r EXCEPT !.pc = "forget"] ELSE Idle])
  /\ cache' = [cache EXCEPT !.ok = @ /\ (answered \/ ~cache.held)]
  /\ UNCHANGED <<facts, persona>>

(* Mutant: the cache is left to age.                                       *)
LetAge(c) == c

Invalidated(c) == NotCached

Forget(t) ==
  /\ task[t].pc = "forget" /\ cache' = Invalidated(cache)
  /\ Ends(t) /\ UNCHANGED <<registry, facts, persona>>

(* resolve_reachable: a tool in no toolset is anyone's; one in a toolset   *)
(* is reached through the persona it was asked for under.                  *)
AskRestricted(t) ==
  LET r == task[t] IN
  /\ r.pc = "restricted"
  /\ task' = [task EXCEPT ![t] =
       IF <<"restricted", <<r.id, r.as>>>> \notin facts THEN [r EXCEPT !.pc = "go"]
       ELSE IF r.seat THEN [r EXCEPT !.pc = "inset"] ELSE Idle]
  /\ UNCHANGED <<registry, cache, facts, persona>>

(* Mutant: being in some toolset will do.                                  *)
InAny(r) == <<"restricted", <<r.id, r.as>>>> \in facts

InToolset(r) == <<"inset", <<r.id, r.as>>>> \in facts

AskInset(t) ==
  /\ task[t].pc = "inset"
  /\ IF InToolset(task[t]) THEN Goes(t, "go") ELSE Ends(t)
  /\ UNCHANGED <<registry, cache, facts, persona>>

Show(t) ==
  /\ task[t].pc = "go" /\ task[t].op = "list"
  /\ Ends(t) /\ UNCHANGED <<registry, cache, facts, persona>>

(* The query is bound and sent.                                            *)
Run(t) ==
  /\ task[t].pc = "go" /\ task[t].op = "run"
  /\ Ends(t) /\ UNCHANGED <<registry, cache, facts, persona>>

-----------------------------------------------------------------------------
(* authorize_query: graph by graph, in the order of their names; a query   *)
(* with a graph that only its run will tell is for administrators.         *)

Graph(r) == CHOOSE g \in r.left : \A h \in r.left : Place[g] <= Place[h]

(* Where a check of the graphs left begins, and what clearing one leads to.*)
CheckNext(r) ==
  LET asked == r.left \ {"ground"} IN
  IF asked = {} THEN [r EXCEPT !.left = {}, !.pc = "fetch"] ELSE [r EXCEPT !.left = asked, !.pc = "admin"]

Clear(t) ==
  LET r == task[t]
  IN task' = [task EXCEPT ![t] = CheckNext([r EXCEPT !.left = @ \ {Graph(r)}, !.rows = {}, !.loan = Absent])]

AskOpen(t) ==
  LET r == task[t] IN
  /\ r.pc = "open"
  /\ task' = [task EXCEPT ![t] =
       IF r.open /\ <<"admin", r.who>> \notin facts THEN Idle ELSE CheckNext(r)]
  /\ UNCHANGED <<registry, cache, facts, persona>>

(* Mutant: what opens the persona opens every space under it.              *)
Anyones(r, g) == FALSE

(* private_space_owner, of a space that is not the caller's own.           *)
SomeoneElses(r, g) == g \in Persons \ {r.who}

AskAdmin(t) ==
  LET r == task[t]  g == Graph(r) IN
  /\ r.pc = "admin"
  /\ IF <<"admin", r.who>> \in facts THEN Clear(t)
     ELSE IF g = "audit" THEN Ends(t)
     ELSE Goes(t, IF SomeoneElses(r, g) THEN "lent" ELSE "denied")
  /\ UNCHANGED <<registry, cache, facts, persona>>

(* check_read, and a delegation where it says no.                          *)
AskDenied(t) ==
  /\ task[t].pc = "denied"
  /\ Goes(t, IF <<"denied", task[t].who>> \in facts THEN "lent" ELSE "granted")
  /\ UNCHANGED <<registry, cache, facts, persona>>

AskGranted(t) ==
  /\ task[t].pc = "granted"
  /\ IF <<"granted", task[t].who>> \in facts THEN Clear(t) ELSE Goes(t, "lent")
  /\ UNCHANGED <<registry, cache, facts, persona>>

(* find_delegation: the delegations to the caller that are current, in the *)
(* order the store lists them; of each, by a request for each, whether it  *)
(* was revoked, whether its delegator is a person, and an active one, and  *)
(* whether it covers the graph.  The first to pass all clears the graph:   *)
(* the code asks about the rest too, and changes nothing by it.            *)

NextLoan(r) == IF r.rows = {} THEN Idle ELSE [r EXCEPT !.pc = "revoked", !.loan = Absent]

AskLent(t) ==
  LET r == task[t] IN
  /\ r.pc = "lent"
  /\ task' = [task EXCEPT ![t] =
       NextLoan([r EXCEPT !.rows = {l \in Loans : Borrower[l] = r.who /\ <<"current", l>> \in facts}])]
  /\ UNCHANGED <<registry, cache, facts, persona>>

AskRevoked(t) ==
  /\ task[t].pc = "revoked"
  /\ \E l \in task[t].rows : LET q == [task[t] EXCEPT !.rows = @ \ {l}, !.loan = l] IN
       task' = [task EXCEPT ![t] =
         IF <<"revoked", l>> \in facts THEN NextLoan(q) ELSE [q EXCEPT !.pc = "person"]]
  /\ UNCHANGED <<registry, cache, facts, persona>>

Standing(t, holds, pc) ==
  /\ task' = [task EXCEPT ![t] = IF holds THEN [@ EXCEPT !.pc = pc] ELSE NextLoan(@)]
  /\ UNCHANGED <<registry, cache, facts, persona>>

AskPerson(t) ==
  /\ task[t].pc = "person" /\ Standing(t, <<"person", Lender[task[t].loan]>> \in facts, "inactive")

AskInactive(t) ==
  /\ task[t].pc = "inactive" /\ Standing(t, <<"inactive", Lender[task[t].loan]>> \notin facts, "covers")

AskCovers(t) ==
  LET r == task[t] IN
  /\ r.pc = "covers"
  /\ IF <<"covers", r.loan>> \in facts /\ Lender[r.loan] = Graph(r) THEN Clear(t)
     ELSE task' = [task EXCEPT ![t] = NextLoan(r)]
  /\ UNCHANGED <<registry, cache, facts, persona>>

(* What the store is asked over: the graphs the query names, and the one   *)
(* the request gives in its graph field, as the default graph.             *)
Touched(r) == r.names \cup ({r.field} \ {Absent})

Fetch(t) ==
  /\ task[t].pc = "fetch" /\ Ends(t) /\ UNCHANGED <<registry, cache, facts, persona>>

-----------------------------------------------------------------------------
(* switch_persona: only into a persona one has a home under; the file is   *)
(* written as it goes, unless the disk refuses.                            *)

AskHome(t) ==
  /\ task[t].pc = "home"
  /\ IF <<"home", task[t].who>> \in facts THEN Goes(t, "set") ELSE Ends(t)
  /\ UNCHANGED <<registry, cache, facts, persona>>

SetPersona(t, saved) ==
  LET now == persona.now \cup {task[t].who} IN
  /\ task[t].pc = "set"
  /\ persona' = [now |-> now, file |-> IF saved THEN now ELSE persona.file]
  /\ Ends(t) /\ UNCHANGED <<registry, cache, facts>>

-----------------------------------------------------------------------------
(* Requests, and what happens around them.                                 *)

(* Showing a query, or the shape of what it takes, is a list of the one.   *)
Asked(op, p, i) == [Idle EXCEPT !.op = op, !.who = p, !.id = i]

Look(t, op, p, i, refresh) ==
  Start(t, [Asked(op, p, i) EXCEPT !.pc = "cache", !.refresh = refresh /\ op = "list"])

Reload(t, p, i) ==
  /\ task[t] = Idle /\ cache' = NotCached
  /\ task' = [task EXCEPT ![t] = [Asked("reload", p, i) EXCEPT !.pc = "bodies"]]
  /\ UNCHANGED <<registry, facts, persona>>

Register(t, p, i, v) == Start(t, [Asked("register", p, i) EXCEPT !.pc = "write", !.as = v])
Delete(t, p, i)      == Start(t, [Asked("delete", p, i) EXCEPT !.pc = "cache"])

(* The graph field of the request (Absent: none given) goes by the gate,   *)
(* which looks at the text of the query only.                              *)
Select(t, p, graphs, open, field) ==
  Start(t, [Asked("read", p, Idle.id) EXCEPT
    !.pc = "open", !.left = graphs, !.names = graphs, !.open = open, !.field = field])

(* get_graph probes the one graph with a query of its own.                 *)
GetGraph(t, p, g) == Select(t, p, {g}, FALSE, Absent)

Switch(t, p) == Start(t, [Asked("switch", p, Idle.id) EXCEPT !.pc = "home"])

ClearPersona(p, saved) ==
  /\ persona' = [now |-> persona.now \ {p}, file |-> IF saved THEN persona.now \ {p} ELSE persona.file]
  /\ UNCHANGED <<registry, cache, facts, task>>

(* The registry's graph is written directly: a push, an update, another    *)
(* process.  Nothing tells the cache.                                      *)
Push(tool, v) ==
  /\ registry' = [registry EXCEPT ![tool] = v]
  /\ task' = Disturb(task) /\ cache' = [cache EXCEPT !.ok = ~cache.held]
  /\ UNCHANGED <<facts, persona>>

Change(f) ==
  LET now == IF f \in facts THEN facts \ {f} ELSE facts \cup {f} IN
  /\ facts' = now /\ task' = [t \in Tasks |-> Witness(task[t], now)]
  /\ UNCHANGED <<registry, cache, persona>>

Expire ==
  /\ cache.held /\ cache' = NotCached /\ UNCHANGED <<registry, facts, persona, task>>

Restart ==
  /\ cache' = NotCached /\ persona' = [persona EXCEPT !.now = persona.file]
  /\ task' = [t \in Tasks |-> Idle] /\ UNCHANGED <<registry, facts>>

Steps ==
  \E t \in Tasks :
    \/ ReadCache(t) \/ LoadBodies(t, TRUE) \/ LoadParams(t, TRUE) \/ Keep(t)
    \/ Write(t, TRUE) \/ Forget(t) \/ AskRestricted(t) \/ AskInset(t) \/ Show(t) \/ Run(t)
    \/ AskOpen(t) \/ AskAdmin(t) \/ AskDenied(t) \/ AskGranted(t) \/ AskLent(t)
    \/ AskRevoked(t) \/ AskPerson(t) \/ AskInactive(t) \/ AskCovers(t) \/ Fetch(t)
    \/ AskHome(t) \/ SetPersona(t, TRUE)

Events ==
  \/ \E t \in Tasks, p \in Persons :
       \/ \E i \in Ids : \/ \E op \in {"list", "run"}, b \in BOOLEAN : Look(t, op, p, i, b)
                         \/ \E v \in Versions : Register(t, p, i, v)
                         \/ Reload(t, p, i) \/ Delete(t, p, i)
       \/ \E q \in Named, b \in BOOLEAN, f \in Fields \cup {Absent} : Select(t, p, q, b, f)
       \/ \E g \in Graphs : GetGraph(t, p, g)
       \/ Switch(t, p)
  \/ \E t \in Tasks : \/ LoadBodies(t, FALSE) \/ LoadParams(t, FALSE) \/ Write(t, FALSE)
                      \/ SetPersona(t, FALSE)
  \/ \E p \in Persons, b \in BOOLEAN : ClearPersona(p, b)
  \/ \E tool \in Tools, v \in Versions \cup {Absent} : Push(tool, v)
  \/ \E f \in Changeable : Change(f)
  \/ Expire \/ Restart

Next ==
  \/ Steps /\ UNCHANGED events
  \/ events < MaxEvents /\ Events /\ events' = events + 1

Spec == Init /\ [][Next]_vars

-----------------------------------------------------------------------------
(* What is cached is what is registered, bodies with their own parameters, *)
(* except where a load failed or overlapped a change of the registry, or   *)
(* the change was not made, or not answered, through a registration or a   *)
(* deletion, and until such a one has told the cache.                      *)
CacheAgrees ==
  (cache.held /\ cache.ok /\ \A t \in Tasks : task[t].pc # "forget") => cache.view = View

(* A named query that is run was, while it was asked for, in no toolset,   *)
(* or in one of the persona its caller had switched to (resolve_reachable; *)
(* a query is shown after the same steps).                                 *)
RunsWereReachable ==
  \A t \in Tasks : LET r == task[t]  tool == <<r.id, r.as>> IN
    (r.op = "run" /\ r.pc = "go") =>
      \/ <<"restricted", tool>> \in r.missed
      \/ r.seat /\ <<"inset", tool>> \in r.seen

(* That a delegation has passed every question about it.                   *)
Lent(r, g) ==
  \E l \in Loans :
    /\ Lender[l] = g /\ Borrower[l] = r.who
    /\ {<<"current", l>>, <<"person", g>>, <<"covers", l>>} \subseteq r.seen
    /\ {<<"revoked", l>>, <<"inactive", g>>} \subseteq r.missed

(* Every graph the store is asked over was open to the caller while the    *)
(* query was being cleared, but for one given in the graph field and not   *)
(* named by the query, which nothing checks.  The audit log and graphs     *)
(* only the run will tell are for an administrator; another's private      *)
(* space is too, or for whom one delegation of its owner's was, each at    *)
(* some moment of the request, current, not revoked, by an active person,  *)
(* and over that space; any other graph of the persona is for who had a    *)
(* grant and was not denied it (authorize_query, find_delegation).         *)
ReadsWereAllowed ==
  \A t \in Tasks : LET r == task[t]  admin == <<"admin", r.who>> \in r.seen IN
    (r.op = "read" /\ r.pc = "fetch") =>
      /\ r.open => admin
      /\ \A g \in Touched(r) \ {"ground"} :
           \/ admin
           \/ g \in Persons \ {r.who} /\ Lent(r, g)
           \/ g \in {"public", r.who} /\ <<"granted", r.who>> \in r.seen /\ <<"denied", r.who>> \in r.missed
           \/ g = r.field /\ g \notin r.names
=============================================================================
