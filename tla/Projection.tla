----------------------------- MODULE Projection -----------------------------
(***************************************************************************)
(* One projection hook (holonbridge/projection/): runs that offer its      *)
(* target the difference between the scope's slice and the watermark,      *)
(* pull deliveries that are collected and acknowledged or rejected, the    *)
(* sweep, and the reset, as requests served at the same time.  A step is   *)
(* one request to the store; between two of them anything may happen.      *)
(*                                                                         *)
(* Left out: the hook's sequence number, which nothing here reads; access  *)
(* checks; registering, suspending and deleting the hook.  record_delivery *)
(* deletes and inserts in two requests; here it is one step.               *)
(***************************************************************************)
EXTENDS Naturals, FiniteSets

CONSTANTS
    Triples,            \* what a slice may hold
    Hooks,              \* change mode and delivery mode of the hooks to consider
    Requests,           \* requests the bridge serves at a time
    MaxRuns,            \* bound: runs of the hook
    Horizon,            \* bound: seconds
    Ages,               \* values of max_age_seconds
    Sweeping,           \* whether sweeps are requested
    Unreliable,         \* whether requests die and answers of a target get lost
    KeepsEmptyGraphs,   \* whether the store remembers a graph with no triples
    Gone, NoDelivery

ASSUME ProjectionAssumption ==
    /\ Hooks \subseteq [mode : {"append", "upsert", "soft-delete", "replace"},
                       way : {"webhook", "pull"}]
    /\ MaxRuns \in Nat /\ Horizon \in Nat /\ Ages \subseteq Nat
    /\ {Sweeping, Unreliable, KeepsEmptyGraphs} \subseteq BOOLEAN
    /\ NoDelivery \notin Nat

VARIABLES
    hook,       \* its change mode and delivery mode
    clock,      \* seconds, the resolution of the stamps
    watermark,  \* the graph urn:{dataset}:projection:{hook}
    started,    \* runs so far
    slice,      \* what the scope constructed for each delivery
    scratch,    \* the graph urn:{dataset}:projection-scratch:{delivery}, or Gone
    log,        \* the status in the delivery log, or "unrecorded"
    created,    \* createdAt of each delivery
    req,        \* the requests being served
    target,     \* what the target holds
    applied,    \* deliveries whose envelope the target applied or had no need to
    given       \* every triple an envelope gave the target

store == <<watermark, scratch, log>>
there == <<target, applied, given>>
vars == <<hook, clock, watermark, started, slice, scratch, log, created,
          req, target, applied, given>>

Deliveries == 1 .. MaxRuns
Statuses == {"unrecorded", "pending", "delivered", "acknowledged", "failed"}
NoRequest == [op |-> "none", step |-> "idle", d |-> NoDelivery, force |-> FALSE,
              additions |-> {}, retractions |-> {}, changed |-> FALSE, todo |-> {}]
DeltaSteps == {"additions", "additionCount", "retractions", "retractionCount"}
Steps == DeltaSteps \cup {"idle", "post", "bump", "settle", "record", "send",
    "fail", "advance", "drop", "next", "live", "orphans", "reclaim",
    "collectAdditions", "collectRetractions"}
Operations == {"none", "run", "collect", "acknowledge", "reject", "sweep"}
RequestRecords ==
    [op : Operations, step : Steps, d : Deliveries \cup {NoDelivery}, force : BOOLEAN,
     additions : SUBSET Triples, retractions : SUBSET Triples, changed : BOOLEAN,
     todo : SUBSET Deliveries]

Init ==
    /\ hook \in Hooks
    /\ clock = 0
    /\ watermark = {} /\ started = 0
    /\ slice = [d \in Deliveries |-> {}]
    /\ scratch = [d \in Deliveries |-> Gone]
    /\ log = [d \in Deliveries |-> "unrecorded"]
    /\ created = [d \in Deliveries |-> 0]
    /\ req = [r \in Requests |-> NoRequest]
    /\ target = {} /\ applied = {} /\ given = {}

-----------------------------------------------------------------------------
(* Mistakes the definitions below could have made; nothing uses them.      *)

\* The sweep takes any old delivery for an abandoned one.
OlderThan(cutoff) == {d \in Deliveries : created[d] < cutoff}
\* The baseline becomes the scope's latest slice, not the one handed over.
CopiesLatest(d) == slice[started]
\* A webhook that did not answer well is settled like one that did.
SettlesAnyway == "settle"

-----------------------------------------------------------------------------
(* The store, and what the requests compute from it.                       *)

\* Triples of a scratch graph; a graph that is gone has none.
Content(d) == IF scratch[d] = Gone THEN {} ELSE scratch[d]

\* A graph with no triples is not there at all in some stores.
Stored(triples) == IF triples = {} /\ ~KeepsEmptyGraphs THEN Gone ELSE triples

SendsFullSlice == hook.mode = "replace"
SendsRetractions == hook.mode \notin {"append", "replace"}

\* What the additions are taken against.
Baseline == IF SendsFullSlice THEN {} ELSE watermark

\* COPY SILENT: it succeeds without effect when the source is not there.
CopyOf(d) == IF scratch[d] = Gone THEN watermark ELSE scratch[d]

PendingBefore(cutoff) == {d \in Deliveries : log[d] = "pending" /\ created[d] < cutoff}

At(r, step) == req[r].step = step
Goto(r, step) == req' = [req EXCEPT ![r].step = step]
Done(r) == req' = [req EXCEPT ![r] = NoRequest]

\* The request goes on without the payload, which it needs no more.
Conclude(r, step) == req' = [req EXCEPT ![r] =
    [NoRequest EXCEPT !.op = req[r].op, !.step = step, !.d = req[r].d]]

\* The target takes an envelope: a full slice replaces what it holds.
Takes(d, additions, retractions, full) ==
    /\ target' = IF full THEN additions ELSE (target \ retractions) \cup additions
    /\ applied' = applied \cup {d}
    /\ given' = given \cup additions

-----------------------------------------------------------------------------
(* run(): the slice, the scratch graph, the difference.                    *)

\* The scope is constructed; nothing of the delivery is in the store yet.  The
\* graph it reads is written by others at any time, so it constructs anything.
Start(r) ==
    /\ At(r, "idle") /\ started < MaxRuns
    /\ started' = started + 1
    /\ \E triples \in SUBSET Triples : slice' = [slice EXCEPT ![started'] = triples]
    /\ \E force \in BOOLEAN : req' = [req EXCEPT ![r] =
           [NoRequest EXCEPT !.op = "run", !.step = "post", !.d = started', !.force = force]]
    /\ UNCHANGED <<hook, clock, store, created, there>>

\* The scratch graph is created and the slice written to it.
Post(r) ==
    /\ At(r, "post")
    /\ scratch' = [scratch EXCEPT ![req[r].d] = Stored(slice[req[r].d])]
    /\ Goto(r, "additions")
    /\ UNCHANGED <<hook, clock, watermark, started, slice, log, created, there>>

Compute(r) ==
    LET d == req[r].d IN
    /\ \/ /\ At(r, "additions")
          /\ req' = [req EXCEPT ![r].additions = Content(d) \ Baseline,
                                ![r].step = "additionCount"]
       \/ /\ At(r, "additionCount")
          /\ req' = [req EXCEPT
                 ![r].changed = Content(d) \ Baseline # {},
                 ![r].step = IF SendsRetractions THEN "retractions" ELSE "bump"]
       \/ /\ At(r, "retractions")
          /\ req' = [req EXCEPT ![r].retractions = watermark \ Content(d),
                                ![r].step = "retractionCount"]
       \/ /\ At(r, "retractionCount")
          /\ req' = [req EXCEPT ![r].changed = @ \/ watermark \ Content(d) # {},
                                ![r].step = "bump"]
    /\ UNCHANGED <<hook, clock, store, started, slice, created, there>>

\* The envelope is made up.  When it is empty there is nothing to deliver.
Envelope(r) ==
    LET d == req[r].d
        empty == ~req[r].changed /\ ~req[r].force /\ ~SendsFullSlice
    IN /\ At(r, "bump")
       /\ \/ empty /\ Conclude(r, "settle") /\ applied' = applied \cup {d} /\ UNCHANGED created
          \/ /\ ~empty /\ hook.way = "pull"
             /\ Conclude(r, "record") /\ created' = [created EXCEPT ![d] = clock]
             /\ UNCHANGED applied
          \/ ~empty /\ hook.way = "webhook" /\ Goto(r, "send") /\ UNCHANGED <<created, applied>>
       /\ UNCHANGED <<hook, clock, store, started, slice, target, given>>

\* A pull delivery waits in the log with its scratch graph.
Record(r) ==
    /\ At(r, "record")
    /\ log' = [log EXCEPT ![req[r].d] = "pending"]
    /\ Done(r)
    /\ UNCHANGED <<hook, clock, watermark, started, slice, scratch, created, there>>

\* Where a webhook that did not answer well leads.
AfterRefusal == "fail"

\* The webhook: taken and answered; not taken; or taken and the answer lost.
Send(r) ==
    LET envelope == req[r] IN
    /\ At(r, "send")
    /\ \/ /\ Takes(envelope.d, envelope.additions, envelope.retractions, SendsFullSlice)
          /\ \/ Conclude(r, "settle")
             \/ Unreliable /\ Conclude(r, AfterRefusal)
       \/ Unreliable /\ Conclude(r, AfterRefusal) /\ UNCHANGED there
    /\ UNCHANGED <<hook, clock, store, started, slice, created>>

-----------------------------------------------------------------------------
(* Steps that settle a delivery; each operation has them in its own order. *)

\* A run settles first; acknowledge, reject and sweep settle after dropping.
FirstOfAcknowledge == "advance"
AfterDrop(op) == CASE op = "run" -> "idle" [] op = "reject" -> "fail"
                   [] op = "sweep" -> "fail" [] op = "acknowledge" -> "settle"
AfterSettle(op) == IF op = "run" THEN "advance" ELSE "idle"
AfterFail(op) == CASE op = "run" -> "drop" [] op = "reject" -> "idle" [] op = "sweep" -> "next"

\* The request goes on with the step named, or is answered.
Onwards(r, step) == IF step = "idle" THEN Done(r) ELSE Goto(r, step)

Settle(r) ==
    LET op == req[r].op IN
    /\ At(r, "settle")
    /\ log' = [log EXCEPT ![req[r].d] = IF op = "run" THEN "delivered" ELSE "acknowledged"]
    /\ Onwards(r, AfterSettle(op))
    /\ UNCHANGED <<hook, clock, watermark, started, slice, scratch, created, there>>

Fail(r) ==
    /\ At(r, "fail")
    /\ log' = [log EXCEPT ![req[r].d] = "failed"]
    /\ Onwards(r, AfterFail(req[r].op))
    /\ UNCHANGED <<hook, clock, watermark, started, slice, scratch, created, there>>

Advance(r) ==
    /\ At(r, "advance")
    /\ watermark' = CopyOf(req[r].d)
    /\ Goto(r, "drop")
    /\ UNCHANGED <<hook, clock, started, slice, scratch, log, created, there>>

Drop(r) ==
    /\ At(r, "drop")
    /\ scratch' = [scratch EXCEPT ![req[r].d] = Gone]
    /\ Onwards(r, AfterDrop(req[r].op))
    /\ UNCHANGED <<hook, clock, watermark, started, slice, log, created, there>>

-----------------------------------------------------------------------------
(* The target collects, acknowledges or rejects; the status is read once.  *)

\* GET: the payload is computed from the scratch graph and the watermark of now.
Collect(r) ==
    /\ At(r, "idle")
    /\ \E d \in Deliveries :
          /\ log[d] = "pending"
          /\ req' = [req EXCEPT ![r] = [NoRequest EXCEPT
                 !.op = "collect", !.step = "collectAdditions", !.d = d]]
    /\ UNCHANGED <<hook, clock, store, started, slice, created, there>>

CollectAdditions(r) ==
    /\ At(r, "collectAdditions")
    /\ req' = [req EXCEPT ![r].additions = Content(req[r].d) \ watermark,
                          ![r].step = "collectRetractions"]
    /\ UNCHANGED <<hook, clock, store, started, slice, created, there>>

\* The target, which is not in this code, applies what it is answered.
CollectRetractions(r) ==
    LET d == req[r].d IN
    /\ At(r, "collectRetractions")
    /\ Takes(d, req[r].additions, watermark \ Content(d), FALSE)
    /\ Done(r)
    /\ UNCHANGED <<hook, clock, store, started, slice, created>>

\* A target acknowledges what it applied, and rejects only what it did not.
Acknowledge(r) ==
    /\ At(r, "idle")
    /\ \E d \in applied :
          /\ log[d] = "pending"
          /\ req' = [req EXCEPT ![r] = [NoRequest EXCEPT
                 !.op = "acknowledge", !.step = FirstOfAcknowledge, !.d = d]]
    /\ UNCHANGED <<hook, clock, store, started, slice, created, there>>

Reject(r) ==
    /\ At(r, "idle")
    /\ \E d \in Deliveries \ applied :
          /\ log[d] = "pending"
          /\ req' = [req EXCEPT ![r] = [NoRequest EXCEPT
                 !.op = "reject", !.step = "drop", !.d = d]]
    /\ UNCHANGED <<hook, clock, store, started, slice, created, there>>

-----------------------------------------------------------------------------
(* The sweep: abandoned deliveries first, then scratch graphs nobody holds. *)

Sweep(r) ==
    /\ At(r, "idle") /\ Sweeping
    /\ \E age \in Ages : age <= clock /\ req' = [req EXCEPT ![r] =
           [NoRequest EXCEPT !.op = "sweep", !.step = "next",
                             !.todo = PendingBefore(clock - age)]]
    /\ UNCHANGED <<hook, clock, store, started, slice, created, there>>

\* The next abandoned delivery, oldest first, is dropped and settled as failed.
NextAbandoned(r) ==
    /\ At(r, "next")
    /\ \/ \E d \in req[r].todo :
            /\ \A e \in req[r].todo : created[d] <= created[e]
            /\ req' = [req EXCEPT ![r].d = d, ![r].step = "drop", ![r].todo = @ \ {d}]
       \/ req[r].todo = {} /\ req' = [req EXCEPT ![r].d = NoDelivery, ![r].step = "live"]
    /\ UNCHANGED <<hook, clock, store, started, slice, created, there>>

\* The graphs to keep: those of deliveries pending since an earlier second.
Live(r) ==
    /\ At(r, "live")
    /\ req' = [req EXCEPT ![r].todo = PendingBefore(clock), ![r].step = "orphans"]
    /\ UNCHANGED <<hook, clock, store, started, slice, created, there>>

\* The others, of those that hold triples.
Orphans(r) ==
    /\ At(r, "orphans")
    /\ req' = [req EXCEPT ![r].todo = {d \in Deliveries : Content(d) # {}} \ @,
                          ![r].step = "reclaim"]
    /\ UNCHANGED <<hook, clock, store, started, slice, created, there>>

Reclaim(r) ==
    /\ At(r, "reclaim")
    /\ \/ \E d \in req[r].todo :
            /\ scratch' = [scratch EXCEPT ![d] = Gone]
            /\ req' = [req EXCEPT ![r].todo = @ \ {d}]
       \/ req[r].todo = {} /\ Done(r) /\ UNCHANGED scratch
    /\ UNCHANGED <<hook, clock, watermark, started, slice, log, created, there>>

-----------------------------------------------------------------------------
\* The watermark is forgotten, so the next run sends everything.
Reset ==
    /\ watermark' = {}
    /\ UNCHANGED <<hook, clock, started, slice, scratch, log, created, req, there>>

\* A request dies: the process stops or the store fails it.  Only a failure
\* while the difference is computed is caught, and drops the scratch graph.
Die(r) ==
    /\ Unreliable /\ ~At(r, "idle")
    /\ \/ Done(r)
       \/ req[r].step \in DeltaSteps /\ Goto(r, "drop")
    /\ UNCHANGED <<hook, clock, store, started, slice, created, there>>

Pass ==
    /\ clock < Horizon /\ clock' = clock + 1
    /\ UNCHANGED <<hook, store, started, slice, created, req, there>>

Next ==
    \/ \E r \in Requests :
          \/ Start(r) \/ Post(r) \/ Compute(r) \/ Envelope(r) \/ Record(r) \/ Send(r)
          \/ Settle(r) \/ Fail(r) \/ Advance(r) \/ Drop(r)
          \/ Collect(r) \/ CollectAdditions(r) \/ CollectRetractions(r)
          \/ Acknowledge(r) \/ Reject(r)
          \/ Sweep(r) \/ NextAbandoned(r) \/ Live(r) \/ Orphans(r) \/ Reclaim(r) \/ Die(r)
    \/ Reset \/ Pass

Spec == Init /\ [][Next]_vars

-----------------------------------------------------------------------------
(* Properties.                                                             *)

\* Every variable has its type, and every request is at a step of its operation
\* with the delivery the step is about.
TypeOK ==
    /\ hook \in Hooks
    /\ clock \in 0 .. Horizon /\ started \in 0 .. MaxRuns
    /\ watermark \subseteq Triples /\ target \subseteq Triples /\ given \subseteq Triples
    /\ slice \in [Deliveries -> SUBSET Triples]
    /\ scratch \in [Deliveries -> {Gone} \cup SUBSET Triples]
    /\ log \in [Deliveries -> Statuses]
    /\ created \in [Deliveries -> 0 .. Horizon]
    /\ applied \subseteq 1 .. started
    /\ req \in [Requests -> RequestRecords]
    /\ \A r \in Requests :
          /\ req[r].d \in 1 .. started \/ req[r].step \in {"idle", "next", "live", "orphans", "reclaim"}
          /\ req[r].todo \subseteq 1 .. started

\* Delivery is at-least-once (runner.py:16): whatever races, dies or gets lost,
\* a triple the watermark records, which no later run will add, was given to the
\* target in an envelope that it took.
NothingIsSkipped == watermark \subseteq given

\* The watermark only moves on a settled delivery, and advances to exactly what
\* was handed over even if the graph moved on in between (runner.py:20): each
\* move is to the slice of one delivery that the target has applied, or a reset.
MovesToWhatWasApplied ==
    [][watermark' # watermark =>
          Reset \/ \E d \in applied : watermark' = slice[d]]_vars

\* A pull delivery out of the log's pending state leaves no scratch graph: the
\* log is the last thing written, so a request that dies before leaves a
\* delivery that the sweep still finds (runner.py:288).
SettledPullHoldsNothing ==
    hook.way = "pull" => \A d \in Deliveries :
        log[d] \in {"acknowledged", "failed"} => scratch[d] = Gone

=============================================================================
