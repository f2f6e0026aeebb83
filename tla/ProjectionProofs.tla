-------------------------- MODULE ProjectionProofs --------------------------
(***************************************************************************)
(* Proofs about a projection hook, for any number of triples, deliveries   *)
(* and requests, whatever dies or gets lost, in either kind of store:      *)
(* what the watermark records was given to the target, the watermark only  *)
(* becomes a slice the target applied, and a settled pull delivery leaves  *)
(* no scratch graph.                                                       *)
(***************************************************************************)
EXTENDS Projection, TLAPS

Working == {"post", "bump", "record", "send"} \cup DeltaSteps

\* The steps that are about no delivery.
Unplaced == {"idle", "next", "live", "orphans", "reclaim"}

\* A request is at a step of its operation, about deliveries that were started.
WellFormed(x, n) ==
    /\ x.step \in Working => x.op = "run"
    /\ x.step \in {"collectAdditions", "collectRetractions"} => x.op = "collect"
    /\ x.step \in {"settle", "advance"} => x.op \in {"run", "acknowledge"}
    /\ x.step = "fail" => x.op \in {"run", "reject", "sweep"}
    /\ x.step = "drop" => x.op \in {"run", "acknowledge", "reject", "sweep"}
    /\ x.step \in Unplaced \ {"idle"} => x.op = "sweep"
    /\ x.step = "idle" => x.op = "none"
    /\ x.d \in 1 .. n \/ x.step \in Unplaced
    /\ x.todo \subseteq 1 .. n

\* Nothing is in the store of a delivery before it is started.
NothingEarly ==
    \A d \in Deliveries \ 1 .. started : log[d] = "unrecorded" /\ scratch[d] = Gone

Typed == TypeOK /\ NothingEarly /\ \A r \in Requests : WellFormed(req[r], started)

\* What the store, the log and the target hold.
DataTyped ==
    /\ watermark \subseteq Triples /\ target \subseteq Triples /\ given \subseteq Triples
    /\ scratch \in [Deliveries -> {Gone} \cup SUBSET Triples]
    /\ log \in [Deliveries -> Statuses] /\ created \in [Deliveries -> 0 .. Horizon]
    /\ applied \subseteq 1 .. started
    /\ NothingEarly

-----------------------------------------------------------------------------
(* Types.                                                                  *)

LEMMA NoRequestFits ==
  NoRequest \in RequestRecords /\ \A n \in Nat : WellFormed(NoRequest, n)
BY
DEF NoRequest, RequestRecords, Operations, Steps, DeltaSteps, WellFormed, Working, Unplaced

LEMMA InitTyped == Init => Typed
<1> SUFFICES ASSUME Init PROVE Typed
  OBVIOUS
<1>1. \A r \in Requests : req[r] = NoRequest
  BY DEF Init
<1>2. TypeOK
  BY <1>1, NoRequestFits, ProjectionAssumption DEF Init, TypeOK, NoRequest, Statuses
<1>3. \A r \in Requests : WellFormed(req[r], started)
  BY <1>1, NoRequestFits DEF Init
<1> QED BY <1>2, <1>3 DEF Typed, NothingEarly, Init

\* A step that replaces one request by a well-formed one.
LEMMA ReplaceTyped ==
  ASSUME Typed, NEW r \in Requests, NEW new \in RequestRecords,
         started' \in started .. MaxRuns,
         req' = [req EXCEPT ![r] = new],
         WellFormed(new, started')
  PROVE  /\ req' \in [Requests -> RequestRecords]
         /\ \A q \in Requests : WellFormed(req'[q], started')
         /\ \A q \in Requests :
              /\ req'[q].d \in 1 .. started' \/ req'[q].step \in Unplaced
              /\ req'[q].todo \subseteq 1 .. started'
<1>1. /\ req \in [Requests -> RequestRecords]
      /\ started \in Nat /\ started' \in Nat /\ started <= started'
  BY ProjectionAssumption DEF Typed, TypeOK
<1>2. \A q \in Requests : req'[q] = IF q = r THEN new ELSE req[q]
  BY <1>1
<1>3. 1 .. started \subseteq 1 .. started'
  BY <1>1
<1>4. ASSUME NEW q \in Requests PROVE WellFormed(req'[q], started')
  BY <1>2, <1>3 DEF Typed, WellFormed
<1>5. \A q \in Requests :
        /\ req'[q].d \in 1 .. started' \/ req'[q].step \in Unplaced
        /\ req'[q].todo \subseteq 1 .. started'
  BY <1>4 DEF WellFormed
<1> QED BY <1>1, <1>2, <1>4, <1>5

\* The rest of the state keeps its type when the store and the target do.
LEMMA KeepsTyped ==
  ASSUME Typed, hook' = hook, clock' = clock, started' = started, slice' = slice,
         DataTyped',
         NEW r \in Requests, NEW new \in RequestRecords,
         req' = [req EXCEPT ![r] = new], WellFormed(new, started)
  PROVE  Typed'
<1>1. started' \in started .. MaxRuns
  BY ProjectionAssumption DEF Typed, TypeOK
<1>2. WellFormed(new, started')
  OBVIOUS
<1>3. /\ req' \in [Requests -> RequestRecords]
      /\ \A q \in Requests : WellFormed(req'[q], started')
      /\ \A q \in Requests :
           /\ req'[q].d \in 1 .. started' \/ req'[q].step \in Unplaced
           /\ req'[q].todo \subseteq 1 .. started'
  BY <1>1, <1>2, ReplaceTyped
<1>4. TypeOK'
  BY <1>3 DEF Typed, TypeOK, DataTyped, Unplaced
<1> QED BY <1>3, <1>4 DEF Typed, DataTyped

\* What a step makes of its request.
LEMMA Edited ==
  ASSUME Typed, NEW r \in Requests
  PROVE  /\ req[r] \in RequestRecords /\ WellFormed(req[r], started)
         /\ \A s \in Steps :
              /\ [req[r] EXCEPT !.step = s] \in RequestRecords
              /\ [NoRequest EXCEPT !.op = req[r].op, !.step = s, !.d = req[r].d] \in RequestRecords
<1>1. req[r] \in RequestRecords
  BY DEF Typed, TypeOK
<1>2. ASSUME NEW s \in Steps
      PROVE  /\ [req[r] EXCEPT !.step = s] \in RequestRecords
             /\ [NoRequest EXCEPT !.op = req[r].op, !.step = s, !.d = req[r].d] \in RequestRecords
  BY <1>1, NoRequestFits DEF RequestRecords
<1> QED BY <1>1, <1>2 DEF Typed

\* A step that changes no more than its request.
LEMMA OnlyReqTyped ==
  ASSUME Typed, UNCHANGED <<hook, clock, store, started, slice, created, there>>,
         NEW r \in Requests, NEW new \in RequestRecords,
         req' = [req EXCEPT ![r] = new], WellFormed(new, started)
  PROVE  Typed'
<1>1. hook' = hook /\ clock' = clock /\ started' = started /\ slice' = slice
  OBVIOUS
<1>2. DataTyped'
  BY DEF DataTyped, NothingEarly, Typed, TypeOK, store, there
<1> QED BY <1>1, <1>2, KeepsTyped

LEMMA Placed ==
  ASSUME Typed, NEW r \in Requests, req[r].step \notin Unplaced
  PROVE  req[r].d \in 1 .. started /\ req[r].d \in Deliveries
BY ProjectionAssumption DEF Typed, TypeOK, WellFormed, Deliveries

\* Only deliveries that were started are within the log or hold a graph.
LEMMA Within ==
  ASSUME Typed
  PROVE  /\ 1 .. started \subseteq Deliveries
         /\ started \in Nat
BY ProjectionAssumption DEF Typed, TypeOK, Deliveries

LEMMA Pending ==
  ASSUME Typed
  PROVE  /\ \A d \in Deliveries : log[d] = "pending" => d \in 1 .. started
         /\ \A cutoff : PendingBefore(cutoff) \subseteq 1 .. started
         /\ {d \in Deliveries : Content(d) # {}} \subseteq 1 .. started
         /\ 1 .. started \subseteq Deliveries
BY Within DEF Typed, NothingEarly, PendingBefore, Content

\* The queries of a run and of a collection.
LEMMA ComputesTyped ==
  ASSUME Typed, NEW r \in Requests, Compute(r) \/ CollectAdditions(r)
  PROVE  Typed'
<1>1. req[r] \in RequestRecords /\ WellFormed(req[r], started)
  BY Edited
<1>2. /\ \A d \in Deliveries : Content(d) \subseteq Triples
      /\ watermark \subseteq Triples /\ Baseline \subseteq Triples
  BY DEF Typed, TypeOK, Content, Baseline
<1>3. req[r].step \notin Unplaced => req[r].d \in 1 .. started /\ req[r].d \in Deliveries
  BY Placed
<1>4. CASE CollectAdditions(r)
  <2> DEFINE new == [req[r] EXCEPT !.additions = Content(req[r].d) \ watermark,
                                   !.step = "collectRetractions"]
  <2>1. new \in RequestRecords
    BY <1>1, <1>2, <1>3, <1>4, NoRequestFits
    DEF CollectAdditions, RequestRecords, Operations, Steps, DeltaSteps, At, Unplaced
  <2>2. WellFormed(new, started)
    BY <1>1, <1>3, <1>4, NoRequestFits
    DEF CollectAdditions, WellFormed, Unplaced, Working, DeltaSteps, RequestRecords,
        NoRequest, At
  <2>3. req' = [req EXCEPT ![r] = new]
    BY <1>4 DEF CollectAdditions, At, Typed, TypeOK, Goto, Done, Conclude, Onwards
  <2> QED BY <2>1, <2>2, <2>3, <1>4, OnlyReqTyped DEF CollectAdditions
<1>5. CASE Compute(r) /\ At(r, "additions")
  <2> DEFINE new == [req[r] EXCEPT !.additions = Content(req[r].d) \ Baseline,
                                   !.step = "additionCount"]
  <2>1. new \in RequestRecords
    BY <1>1, <1>2, <1>3, <1>5, NoRequestFits
    DEF Compute, RequestRecords, Operations, Steps, DeltaSteps, At, Unplaced
  <2>2. WellFormed(new, started)
    BY <1>1, <1>3, <1>5, NoRequestFits
    DEF Compute, WellFormed, Unplaced, Working, DeltaSteps, RequestRecords, NoRequest, At
  <2>3. req' = [req EXCEPT ![r] = new]
    BY <1>5 DEF Compute, At, Typed, TypeOK, Goto, Done, Conclude, Onwards
  <2> QED BY <2>1, <2>2, <2>3, <1>5, OnlyReqTyped DEF Compute
<1>6. CASE Compute(r) /\ At(r, "additionCount")
  <2> DEFINE new == [req[r] EXCEPT !.changed = Content(req[r].d) \ Baseline # {},
                  !.step = IF SendsRetractions THEN "retractions" ELSE "bump"]
  <2>1. new \in RequestRecords
    BY <1>1, <1>2, <1>3, <1>6, NoRequestFits
    DEF Compute, RequestRecords, Operations, Steps, DeltaSteps, At, Unplaced
  <2>2. WellFormed(new, started)
    BY <1>1, <1>3, <1>6, NoRequestFits
    DEF Compute, WellFormed, Unplaced, Working, DeltaSteps, RequestRecords, NoRequest, At
  <2>3. req' = [req EXCEPT ![r] = new]
    BY <1>6 DEF Compute, At, Typed, TypeOK, Goto, Done, Conclude, Onwards
  <2> QED BY <2>1, <2>2, <2>3, <1>6, OnlyReqTyped DEF Compute
<1>7. CASE Compute(r) /\ At(r, "retractions")
  <2> DEFINE new == [req[r] EXCEPT !.retractions = watermark \ Content(req[r].d),
                                   !.step = "retractionCount"]
  <2>1. new \in RequestRecords
    BY <1>1, <1>2, <1>3, <1>7, NoRequestFits
    DEF Compute, RequestRecords, Operations, Steps, DeltaSteps, At, Unplaced
  <2>2. WellFormed(new, started)
    BY <1>1, <1>3, <1>7, NoRequestFits
    DEF Compute, WellFormed, Unplaced, Working, DeltaSteps, RequestRecords, NoRequest, At
  <2>3. req' = [req EXCEPT ![r] = new]
    BY <1>7 DEF Compute, At, Typed, TypeOK, Goto, Done, Conclude, Onwards
  <2> QED BY <2>1, <2>2, <2>3, <1>7, OnlyReqTyped DEF Compute
<1>8. CASE Compute(r) /\ At(r, "retractionCount")
  <2> DEFINE new == [req[r] EXCEPT !.changed = req[r].changed \/ watermark \ Content(req[r].d) # {},
                                   !.step = "bump"]
  <2>1. new \in RequestRecords
    BY <1>1, <1>2, <1>3, <1>8, NoRequestFits
    DEF Compute, RequestRecords, Operations, Steps, DeltaSteps, At, Unplaced
  <2>2. WellFormed(new, started)
    BY <1>1, <1>3, <1>8, NoRequestFits
    DEF Compute, WellFormed, Unplaced, Working, DeltaSteps, RequestRecords, NoRequest, At
  <2>3. req' = [req EXCEPT ![r] = new]
    BY <1>8 DEF Compute, At, Typed, TypeOK, Goto, Done, Conclude, Onwards
  <2> QED BY <2>1, <2>2, <2>3, <1>8, OnlyReqTyped DEF Compute
<1> QED BY <1>4, <1>5, <1>6, <1>7, <1>8 DEF Compute

\* The steps that write the store.
LEMMA StoresTyped ==
  ASSUME Typed, NEW r \in Requests, \/ Post(r) \/ Record(r) \/ Settle(r) \/ Fail(r)
                                 \/ Advance(r) \/ Drop(r) \/ Reclaim(r)
  PROVE  Typed'
<1>1. req[r] \in RequestRecords /\ WellFormed(req[r], started)
  BY Edited
<1>2. /\ \A d \in Deliveries : Content(d) \subseteq Triples
      /\ watermark \subseteq Triples /\ Baseline \subseteq Triples
  BY DEF Typed, TypeOK, Content, Baseline
<1>3. req[r].step \notin Unplaced => req[r].d \in 1 .. started /\ req[r].d \in Deliveries
  BY Placed
<1>4. CASE Post(r)
  <2> DEFINE new == [req[r] EXCEPT !.step = "additions"]
  <2>1. new \in RequestRecords
    BY <1>1, <1>2, <1>3, <1>4, NoRequestFits
    DEF Post, RequestRecords, Operations, Steps, DeltaSteps, At, Unplaced
  <2>2. WellFormed(new, started)
    BY <1>1, <1>3, <1>4, NoRequestFits
    DEF Post, WellFormed, Unplaced, Working, DeltaSteps, RequestRecords, NoRequest, At
  <2>3. req' = [req EXCEPT ![r] = new]
    BY <1>4 DEF Post, At, Typed, TypeOK, Goto, Done, Conclude, Onwards
  <2>4. hook' = hook /\ clock' = clock /\ started' = started /\ slice' = slice /\ DataTyped'
    BY <1>1, <1>2, <1>3, <1>4
    DEF Post, At, Unplaced, RequestRecords, DataTyped, NothingEarly, Typed, TypeOK, store,
        there, Stored
  <2> QED BY <2>1, <2>2, <2>3, <2>4, KeepsTyped
<1>5. CASE Record(r)
  <2> DEFINE new == NoRequest
  <2>1. new \in RequestRecords
    BY <1>1, <1>2, <1>3, <1>5, NoRequestFits
    DEF Record, RequestRecords, Operations, Steps, DeltaSteps, At, Unplaced
  <2>2. WellFormed(new, started)
    BY <1>1, <1>3, <1>5, NoRequestFits
    DEF Record, WellFormed, Unplaced, Working, DeltaSteps, RequestRecords, NoRequest, At
  <2>3. req' = [req EXCEPT ![r] = new]
    BY <1>5 DEF Record, At, Typed, TypeOK, Goto, Done, Conclude, Onwards
  <2>4. hook' = hook /\ clock' = clock /\ started' = started /\ slice' = slice /\ DataTyped'
    BY <1>1, <1>2, <1>3, <1>5
    DEF Record, At, Unplaced, RequestRecords, DataTyped, NothingEarly, Typed, TypeOK,
        store, there, Statuses
  <2> QED BY <2>1, <2>2, <2>3, <2>4, KeepsTyped
<1>6. CASE Advance(r)
  <2> DEFINE new == [req[r] EXCEPT !.step = "drop"]
  <2>1. new \in RequestRecords
    BY <1>1, <1>2, <1>3, <1>6, NoRequestFits
    DEF Advance, RequestRecords, Operations, Steps, DeltaSteps, At, Unplaced
  <2>2. WellFormed(new, started)
    BY <1>1, <1>3, <1>6, NoRequestFits
    DEF Advance, WellFormed, Unplaced, Working, DeltaSteps, RequestRecords, NoRequest, At
  <2>3. req' = [req EXCEPT ![r] = new]
    BY <1>6 DEF Advance, At, Typed, TypeOK, Goto, Done, Conclude, Onwards
  <2>4. hook' = hook /\ clock' = clock /\ started' = started /\ slice' = slice /\ DataTyped'
    BY <1>1, <1>2, <1>3, <1>6
    DEF Advance, At, Unplaced, RequestRecords, DataTyped, NothingEarly, Typed, TypeOK,
        store, there, CopyOf
  <2> QED BY <2>1, <2>2, <2>3, <2>4, KeepsTyped
<1>7. CASE Settle(r) /\ req[r].op = "run"
  <2> DEFINE new == [req[r] EXCEPT !.step = "advance"]
  <2>1. new \in RequestRecords
    BY <1>1, <1>2, <1>3, <1>7, NoRequestFits
    DEF Settle, AfterSettle, RequestRecords, Operations, Steps, DeltaSteps, At, Unplaced
  <2>2. WellFormed(new, started)
    BY <1>1, <1>3, <1>7, NoRequestFits
    DEF Settle, AfterSettle, WellFormed, Unplaced, Working, DeltaSteps, RequestRecords,
        NoRequest, At
  <2>3. req' = [req EXCEPT ![r] = new]
    BY <1>7 DEF Settle, AfterSettle, At, Typed, TypeOK, Goto, Done, Conclude, Onwards
  <2>4. hook' = hook /\ clock' = clock /\ started' = started /\ slice' = slice /\ DataTyped'
    BY <1>1, <1>2, <1>3, <1>7
    DEF Settle, AfterSettle, At, Unplaced, RequestRecords, DataTyped, NothingEarly, Typed,
        TypeOK, store, there, Statuses
  <2> QED BY <2>1, <2>2, <2>3, <2>4, KeepsTyped
<1>8. CASE Settle(r) /\ req[r].op # "run"
  <2> DEFINE new == NoRequest
  <2>1. new \in RequestRecords
    BY <1>1, <1>2, <1>3, <1>8, NoRequestFits
    DEF Settle, AfterSettle, RequestRecords, Operations, Steps, DeltaSteps, At, Unplaced
  <2>2. WellFormed(new, started)
    BY <1>1, <1>3, <1>8, NoRequestFits
    DEF Settle, AfterSettle, WellFormed, Unplaced, Working, DeltaSteps, RequestRecords,
        NoRequest, At
  <2>3. req' = [req EXCEPT ![r] = new]
    BY <1>8 DEF Settle, AfterSettle, At, Typed, TypeOK, Goto, Done, Conclude, Onwards
  <2>4. hook' = hook /\ clock' = clock /\ started' = started /\ slice' = slice /\ DataTyped'
    BY <1>1, <1>2, <1>3, <1>8
    DEF Settle, AfterSettle, At, Unplaced, RequestRecords, DataTyped, NothingEarly, Typed,
        TypeOK, store, there, Statuses
  <2> QED BY <2>1, <2>2, <2>3, <2>4, KeepsTyped
<1>9. CASE Fail(r) /\ req[r].op # "reject"
  <2> DEFINE new == [req[r] EXCEPT !.step = IF req[r].op = "run" THEN "drop" ELSE "next"]
  <2>1. new \in RequestRecords
    BY <1>1, <1>2, <1>3, <1>9, NoRequestFits
    DEF Fail, AfterFail, RequestRecords, Operations, Steps, DeltaSteps, At, Unplaced
  <2>2. WellFormed(new, started)
    BY <1>1, <1>3, <1>9, NoRequestFits
    DEF Fail, AfterFail, WellFormed, Unplaced, Working, DeltaSteps, RequestRecords,
        NoRequest, At
  <2>3. req' = [req EXCEPT ![r] = new]
    BY <1>9, <1>1
    DEF Fail, AfterFail, At, Typed, TypeOK, Goto, Done, Conclude, Onwards, WellFormed
  <2>4. hook' = hook /\ clock' = clock /\ started' = started /\ slice' = slice /\ DataTyped'
    BY <1>1, <1>2, <1>3, <1>9
    DEF Fail, AfterFail, At, Unplaced, RequestRecords, DataTyped, NothingEarly, Typed,
        TypeOK, store, there, Statuses
  <2> QED BY <2>1, <2>2, <2>3, <2>4, KeepsTyped
<1>10. CASE Fail(r) /\ req[r].op = "reject"
  <2> DEFINE new == NoRequest
  <2>1. new \in RequestRecords
    BY <1>1, <1>2, <1>3, <1>10, NoRequestFits
    DEF Fail, AfterFail, RequestRecords, Operations, Steps, DeltaSteps, At, Unplaced
  <2>2. WellFormed(new, started)
    BY <1>1, <1>3, <1>10, NoRequestFits
    DEF Fail, AfterFail, WellFormed, Unplaced, Working, DeltaSteps, RequestRecords,
        NoRequest, At
  <2>3. req' = [req EXCEPT ![r] = new]
    BY <1>10 DEF Fail, AfterFail, At, Typed, TypeOK, Goto, Done, Conclude, Onwards
  <2>4. hook' = hook /\ clock' = clock /\ started' = started /\ slice' = slice /\ DataTyped'
    BY <1>1, <1>2, <1>3, <1>10
    DEF Fail, AfterFail, At, Unplaced, RequestRecords, DataTyped, NothingEarly, Typed,
        TypeOK, store, there, Statuses
  <2> QED BY <2>1, <2>2, <2>3, <2>4, KeepsTyped
<1>11. CASE Drop(r) /\ req[r].op = "run"
  <2> DEFINE new == NoRequest
  <2>1. new \in RequestRecords
    BY <1>1, <1>2, <1>3, <1>11, NoRequestFits
    DEF Drop, AfterDrop, RequestRecords, Operations, Steps, DeltaSteps, At, Unplaced
  <2>2. WellFormed(new, started)
    BY <1>1, <1>3, <1>11, NoRequestFits
    DEF Drop, AfterDrop, WellFormed, Unplaced, Working, DeltaSteps, RequestRecords,
        NoRequest, At
  <2>3. req' = [req EXCEPT ![r] = new]
    BY <1>11 DEF Drop, AfterDrop, At, Typed, TypeOK, Goto, Done, Conclude, Onwards
  <2>4. hook' = hook /\ clock' = clock /\ started' = started /\ slice' = slice /\ DataTyped'
    BY <1>1, <1>2, <1>3, <1>11
    DEF Drop, AfterDrop, At, Unplaced, RequestRecords, DataTyped, NothingEarly, Typed,
        TypeOK, store, there
  <2> QED BY <2>1, <2>2, <2>3, <2>4, KeepsTyped
<1>12. CASE Drop(r) /\ req[r].op # "run"
  <2> DEFINE new == [req[r] EXCEPT !.step = IF req[r].op = "acknowledge" THEN "settle" ELSE "fail"]
  <2>1. new \in RequestRecords
    BY <1>1, <1>2, <1>3, <1>12, NoRequestFits
    DEF Drop, AfterDrop, RequestRecords, Operations, Steps, DeltaSteps, At, Unplaced
  <2>2. WellFormed(new, started)
    BY <1>1, <1>3, <1>12, NoRequestFits
    DEF Drop, AfterDrop, WellFormed, Unplaced, Working, DeltaSteps, RequestRecords,
        NoRequest, At
  <2>3. req' = [req EXCEPT ![r] = new]
    BY <1>12, <1>1
    DEF Drop, AfterDrop, At, Typed, TypeOK, Goto, Done, Conclude, Onwards, WellFormed
  <2>4. hook' = hook /\ clock' = clock /\ started' = started /\ slice' = slice /\ DataTyped'
    BY <1>1, <1>2, <1>3, <1>12
    DEF Drop, AfterDrop, At, Unplaced, RequestRecords, DataTyped, NothingEarly, Typed,
        TypeOK, store, there
  <2> QED BY <2>1, <2>2, <2>3, <2>4, KeepsTyped
<1>13. CASE Reclaim(r) /\ req[r].todo = {}
  <2> DEFINE new == NoRequest
  <2>1. new \in RequestRecords
    BY <1>1, <1>2, <1>3, <1>13, NoRequestFits
    DEF Reclaim, RequestRecords, Operations, Steps, DeltaSteps, At, Unplaced
  <2>2. WellFormed(new, started)
    BY <1>1, <1>3, <1>13, NoRequestFits
    DEF Reclaim, WellFormed, Unplaced, Working, DeltaSteps, RequestRecords, NoRequest, At
  <2>3. req' = [req EXCEPT ![r] = new]
    BY <1>13 DEF Reclaim, At, Typed, TypeOK, Goto, Done, Conclude, Onwards
  <2>4. hook' = hook /\ clock' = clock /\ started' = started /\ slice' = slice /\ DataTyped'
    BY <1>1, <1>2, <1>3, <1>13
    DEF Reclaim, At, Unplaced, RequestRecords, DataTyped, NothingEarly, Typed, TypeOK,
        store, there
  <2> QED BY <2>1, <2>2, <2>3, <2>4, KeepsTyped
<1>14. CASE Reclaim(r) /\ req[r].todo # {}
  <2>0. PICK d \in req[r].todo : /\ scratch' = [scratch EXCEPT ![d] = Gone]
                               /\ req' = [req EXCEPT ![r].todo = @ \ {d}]
    BY <1>14 DEF Reclaim
  <2> DEFINE new == [req[r] EXCEPT !.todo = req[r].todo \ {d}]
  <2>1. new \in RequestRecords
    BY <1>1, <1>2, <1>3, <1>14, NoRequestFits, <2>0
    DEF Reclaim, RequestRecords, Operations, Steps, DeltaSteps, At, Unplaced
  <2>2. WellFormed(new, started)
    BY <1>1, <1>3, <1>14, NoRequestFits, <2>0
    DEF Reclaim, WellFormed, Unplaced, Working, DeltaSteps, RequestRecords, NoRequest, At
  <2>3. req' = [req EXCEPT ![r] = new]
    BY <1>14, <2>0 DEF Reclaim, At, Typed, TypeOK, Goto, Done, Conclude, Onwards
  <2>4. hook' = hook /\ clock' = clock /\ started' = started /\ slice' = slice /\ DataTyped'
    BY <1>1, <1>2, <1>3, <1>14, <2>0
    DEF Reclaim, At, Unplaced, RequestRecords, DataTyped, NothingEarly, Typed, TypeOK,
        store, there
  <2> QED BY <2>1, <2>2, <2>3, <2>4, KeepsTyped
<1> QED BY <1>4, <1>5, <1>6, <1>7, <1>8, <1>9, <1>10, <1>11, <1>12, <1>13, <1>14

\* The steps that decide on an envelope or hand one over.
LEMMA TargetsTyped ==
  ASSUME Typed, NEW r \in Requests, Envelope(r) \/ Send(r) \/ CollectRetractions(r)
  PROVE  Typed'
<1>1. req[r] \in RequestRecords /\ WellFormed(req[r], started)
  BY Edited
<1>2. /\ \A d \in Deliveries : Content(d) \subseteq Triples
      /\ watermark \subseteq Triples /\ Baseline \subseteq Triples
  BY DEF Typed, TypeOK, Content, Baseline
<1>3. req[r].step \notin Unplaced => req[r].d \in 1 .. started /\ req[r].d \in Deliveries
  BY Placed
<1>4. CASE Envelope(r) /\ Conclude(r, "settle")
             /\ applied' = applied \cup {req[r].d} /\ created' = created
  <2> DEFINE new == [NoRequest EXCEPT !.op = req[r].op, !.step = "settle", !.d = req[r].d]
  <2>1. new \in RequestRecords
    BY <1>1, <1>2, <1>3, <1>4, NoRequestFits
    DEF Envelope, RequestRecords, Operations, Steps, DeltaSteps, At, Unplaced
  <2>2. WellFormed(new, started)
    BY <1>1, <1>3, <1>4, NoRequestFits
    DEF Envelope, WellFormed, Unplaced, Working, DeltaSteps, RequestRecords, NoRequest, At
  <2>3. req' = [req EXCEPT ![r] = new]
    BY <1>4 DEF Envelope, At, Typed, TypeOK, Goto, Done, Conclude, Onwards
  <2>4. hook' = hook /\ clock' = clock /\ started' = started /\ slice' = slice /\ DataTyped'
    BY <1>1, <1>2, <1>3, <1>4
    DEF Envelope, At, Unplaced, RequestRecords, DataTyped, NothingEarly, Typed, TypeOK,
        store, there
  <2> QED BY <2>1, <2>2, <2>3, <2>4, KeepsTyped
<1>5. CASE Envelope(r) /\ Conclude(r, "record") /\ applied' = applied
             /\ created' = [created EXCEPT ![req[r].d] = clock]
  <2> DEFINE new == [NoRequest EXCEPT !.op = req[r].op, !.step = "record", !.d = req[r].d]
  <2>1. new \in RequestRecords
    BY <1>1, <1>2, <1>3, <1>5, NoRequestFits
    DEF Envelope, RequestRecords, Operations, Steps, DeltaSteps, At, Unplaced
  <2>2. WellFormed(new, started)
    BY <1>1, <1>3, <1>5, NoRequestFits
    DEF Envelope, WellFormed, Unplaced, Working, DeltaSteps, RequestRecords, NoRequest, At
  <2>3. req' = [req EXCEPT ![r] = new]
    BY <1>5 DEF Envelope, At, Typed, TypeOK, Goto, Done, Conclude, Onwards
  <2>4. hook' = hook /\ clock' = clock /\ started' = started /\ slice' = slice /\ DataTyped'
    BY <1>1, <1>2, <1>3, <1>5
    DEF Envelope, At, Unplaced, RequestRecords, DataTyped, NothingEarly, Typed, TypeOK,
        store, there
  <2> QED BY <2>1, <2>2, <2>3, <2>4, KeepsTyped
<1>6. CASE Envelope(r) /\ Goto(r, "send") /\ UNCHANGED <<created, applied>>
  <2> DEFINE new == [req[r] EXCEPT !.step = "send"]
  <2>1. new \in RequestRecords
    BY <1>1, <1>2, <1>3, <1>6, NoRequestFits
    DEF Envelope, RequestRecords, Operations, Steps, DeltaSteps, At, Unplaced
  <2>2. WellFormed(new, started)
    BY <1>1, <1>3, <1>6, NoRequestFits
    DEF Envelope, WellFormed, Unplaced, Working, DeltaSteps, RequestRecords, NoRequest, At
  <2>3. req' = [req EXCEPT ![r] = new]
    BY <1>6 DEF Envelope, At, Typed, TypeOK, Goto, Done, Conclude, Onwards
  <2>4. hook' = hook /\ clock' = clock /\ started' = started /\ slice' = slice /\ DataTyped'
    BY <1>1, <1>2, <1>3, <1>6
    DEF Envelope, At, Unplaced, RequestRecords, DataTyped, NothingEarly, Typed, TypeOK,
        store, there
  <2> QED BY <2>1, <2>2, <2>3, <2>4, KeepsTyped
<1>7. CASE Send(r)
  <2>0. PICK s \in {"settle", "fail"} : Conclude(r, s)
    BY <1>7 DEF Send, AfterRefusal
  <2> DEFINE new == [NoRequest EXCEPT !.op = req[r].op, !.step = s, !.d = req[r].d]
  <2>1. new \in RequestRecords
    BY <1>1, <1>2, <1>3, <1>7, NoRequestFits, <2>0
    DEF Send, RequestRecords, Operations, Steps, DeltaSteps, At, Unplaced
  <2>2. WellFormed(new, started)
    BY <1>1, <1>3, <1>7, NoRequestFits, <2>0
    DEF Send, WellFormed, Unplaced, Working, DeltaSteps, RequestRecords, NoRequest, At
  <2>3. req' = [req EXCEPT ![r] = new]
    BY <1>7, <2>0 DEF Send, At, Typed, TypeOK, Goto, Done, Conclude, Onwards
  <2>4. hook' = hook /\ clock' = clock /\ started' = started /\ slice' = slice /\ DataTyped'
    BY <1>1, <1>2, <1>3, <1>7
    DEF Send, At, Unplaced, RequestRecords, DataTyped, NothingEarly, Typed, TypeOK, store,
        there, Takes
  <2> QED BY <2>1, <2>2, <2>3, <2>4, KeepsTyped
<1>8. CASE CollectRetractions(r)
  <2> DEFINE new == NoRequest
  <2>1. new \in RequestRecords
    BY <1>1, <1>2, <1>3, <1>8, NoRequestFits
    DEF CollectRetractions, RequestRecords, Operations, Steps, DeltaSteps, At, Unplaced
  <2>2. WellFormed(new, started)
    BY <1>1, <1>3, <1>8, NoRequestFits
    DEF CollectRetractions, WellFormed, Unplaced, Working, DeltaSteps, RequestRecords,
        NoRequest, At
  <2>3. req' = [req EXCEPT ![r] = new]
    BY <1>8 DEF CollectRetractions, At, Typed, TypeOK, Goto, Done, Conclude, Onwards
  <2>4. hook' = hook /\ clock' = clock /\ started' = started /\ slice' = slice /\ DataTyped'
    BY <1>1, <1>2, <1>3, <1>8
    DEF CollectRetractions, At, Unplaced, RequestRecords, DataTyped, NothingEarly, Typed,
        TypeOK, store, there, Takes
  <2> QED BY <2>1, <2>2, <2>3, <2>4, KeepsTyped
<1> QED BY <1>4, <1>5, <1>6, <1>7, <1>8 DEF Envelope

\* The requests of the target.
LEMMA TargetRequestsTyped ==
  ASSUME Typed, NEW r \in Requests, Collect(r) \/ Acknowledge(r) \/ Reject(r)
  PROVE  Typed'
<1>1. req[r] \in RequestRecords /\ WellFormed(req[r], started)
  BY Edited
<1>2. /\ \A d \in Deliveries : Content(d) \subseteq Triples
      /\ watermark \subseteq Triples /\ Baseline \subseteq Triples
  BY DEF Typed, TypeOK, Content, Baseline
<1>3. req[r].step \notin Unplaced => req[r].d \in 1 .. started /\ req[r].d \in Deliveries
  BY Placed
<1>4. CASE Collect(r)
  <2>0. PICK d \in 1 .. started : req' = [req EXCEPT
          ![r] = [NoRequest EXCEPT !.op = "collect", !.step = "collectAdditions", !.d = d]]
    BY <1>4, Pending DEF Collect, FirstOfAcknowledge, Typed, TypeOK
  <2> DEFINE new == [NoRequest EXCEPT !.op = "collect", !.step = "collectAdditions", !.d = d]
  <2>1. new \in RequestRecords
    BY <1>1, <1>2, <1>3, <1>4, NoRequestFits, <2>0, Within
    DEF Collect, RequestRecords, Operations, Steps, DeltaSteps, At, Unplaced
  <2>2. WellFormed(new, started)
    BY <1>1, <1>3, <1>4, NoRequestFits, <2>0, Within
    DEF Collect, WellFormed, Unplaced, Working, DeltaSteps, RequestRecords, NoRequest, At
  <2>3. req' = [req EXCEPT ![r] = new]
    BY <1>4, <2>0, Within DEF Collect, At, Typed, TypeOK, Goto, Done, Conclude, Onwards
  <2> QED BY <2>1, <2>2, <2>3, <1>4, OnlyReqTyped DEF Collect
<1>5. CASE Acknowledge(r)
  <2>0. PICK d \in 1 .. started : req' = [req EXCEPT
          ![r] = [NoRequest EXCEPT !.op = "acknowledge", !.step = "advance", !.d = d]]
    BY <1>5, Pending DEF Acknowledge, FirstOfAcknowledge, Typed, TypeOK
  <2> DEFINE new == [NoRequest EXCEPT !.op = "acknowledge", !.step = "advance", !.d = d]
  <2>1. new \in RequestRecords
    BY <1>1, <1>2, <1>3, <1>5, NoRequestFits, <2>0, Within
    DEF Acknowledge, RequestRecords, Operations, Steps, DeltaSteps, At, Unplaced
  <2>2. WellFormed(new, started)
    BY <1>1, <1>3, <1>5, NoRequestFits, <2>0, Within
    DEF Acknowledge, WellFormed, Unplaced, Working, DeltaSteps, RequestRecords, NoRequest,
        At
  <2>3. req' = [req EXCEPT ![r] = new]
    BY <1>5, <2>0, Within DEF Acknowledge, At, Typed, TypeOK, Goto, Done, Conclude, Onwards
  <2> QED BY <2>1, <2>2, <2>3, <1>5, OnlyReqTyped DEF Acknowledge
<1>6. CASE Reject(r)
  <2>0. PICK d \in 1 .. started :
          req' = [req EXCEPT ![r] = [NoRequest EXCEPT !.op = "reject", !.step = "drop", !.d = d]]
    BY <1>6, Pending DEF Reject, FirstOfAcknowledge, Typed, TypeOK
  <2> DEFINE new == [NoRequest EXCEPT !.op = "reject", !.step = "drop", !.d = d]
  <2>1. new \in RequestRecords
    BY <1>1, <1>2, <1>3, <1>6, NoRequestFits, <2>0, Within
    DEF Reject, RequestRecords, Operations, Steps, DeltaSteps, At, Unplaced
  <2>2. WellFormed(new, started)
    BY <1>1, <1>3, <1>6, NoRequestFits, <2>0, Within
    DEF Reject, WellFormed, Unplaced, Working, DeltaSteps, RequestRecords, NoRequest, At
  <2>3. req' = [req EXCEPT ![r] = new]
    BY <1>6, <2>0, Within DEF Reject, At, Typed, TypeOK, Goto, Done, Conclude, Onwards
  <2> QED BY <2>1, <2>2, <2>3, <1>6, OnlyReqTyped DEF Reject
<1> QED BY <1>4, <1>5, <1>6

\* The sweep's own steps, and requests that die.
LEMMA SweepsTyped ==
  ASSUME Typed, NEW r \in Requests, \/ Sweep(r) \/ NextAbandoned(r) \/ Live(r)
                                 \/ Orphans(r) \/ Die(r)
  PROVE  Typed'
<1>1. req[r] \in RequestRecords /\ WellFormed(req[r], started)
  BY Edited
<1>2. /\ \A d \in Deliveries : Content(d) \subseteq Triples
      /\ watermark \subseteq Triples /\ Baseline \subseteq Triples
  BY DEF Typed, TypeOK, Content, Baseline
<1>3. req[r].step \notin Unplaced => req[r].d \in 1 .. started /\ req[r].d \in Deliveries
  BY Placed
<1>4. CASE Sweep(r)
  <2>0. PICK age \in Ages : req' = [req EXCEPT
          ![r] = [NoRequest EXCEPT !.op = "sweep", !.step = "next", !.todo = PendingBefore(clock - age)]]
    BY <1>4 DEF Sweep
  <2> DEFINE new == [NoRequest EXCEPT !.op = "sweep", !.step = "next",
                  !.todo = PendingBefore(clock - age)]
  <2>1. new \in RequestRecords
    BY <1>1, <1>2, <1>3, <1>4, NoRequestFits, <2>0, Pending
    DEF Sweep, RequestRecords, Operations, Steps, DeltaSteps, At, Unplaced
  <2>2. WellFormed(new, started)
    BY <1>1, <1>3, <1>4, NoRequestFits, <2>0, Pending
    DEF Sweep, WellFormed, Unplaced, Working, DeltaSteps, RequestRecords, NoRequest, At
  <2>3. req' = [req EXCEPT ![r] = new]
    BY <1>4, <2>0, Pending DEF Sweep, At, Typed, TypeOK, Goto, Done, Conclude, Onwards
  <2> QED BY <2>1, <2>2, <2>3, <1>4, OnlyReqTyped DEF Sweep
<1>5. CASE NextAbandoned(r) /\ req[r].todo # {}
  <2>0. PICK d \in req[r].todo :
          req' = [req EXCEPT ![r].d = d, ![r].step = "drop", ![r].todo = @ \ {d}]
    BY <1>5 DEF NextAbandoned
  <2> DEFINE new == [req[r] EXCEPT !.d = d, !.step = "drop", !.todo = req[r].todo \ {d}]
  <2>1. new \in RequestRecords
    BY <1>1, <1>2, <1>3, <1>5, NoRequestFits, <2>0, Within
    DEF NextAbandoned, RequestRecords, Operations, Steps, DeltaSteps, At, Unplaced
  <2>2. WellFormed(new, started)
    BY <1>1, <1>3, <1>5, NoRequestFits, <2>0, Within
    DEF NextAbandoned, WellFormed, Unplaced, Working, DeltaSteps, RequestRecords,
        NoRequest, At
  <2>3. req' = [req EXCEPT ![r] = new]
    BY <1>5, <2>0, Within
    DEF NextAbandoned, At, Typed, TypeOK, Goto, Done, Conclude, Onwards
  <2> QED BY <2>1, <2>2, <2>3, <1>5, OnlyReqTyped DEF NextAbandoned
<1>6. CASE NextAbandoned(r) /\ req[r].todo = {}
  <2> DEFINE new == [req[r] EXCEPT !.d = NoDelivery, !.step = "live"]
  <2>1. new \in RequestRecords
    BY <1>1, <1>2, <1>3, <1>6, NoRequestFits
    DEF NextAbandoned, RequestRecords, Operations, Steps, DeltaSteps, At, Unplaced
  <2>2. WellFormed(new, started)
    BY <1>1, <1>3, <1>6, NoRequestFits
    DEF NextAbandoned, WellFormed, Unplaced, Working, DeltaSteps, RequestRecords,
        NoRequest, At
  <2>3. req' = [req EXCEPT ![r] = new]
    BY <1>6 DEF NextAbandoned, At, Typed, TypeOK, Goto, Done, Conclude, Onwards
  <2> QED BY <2>1, <2>2, <2>3, <1>6, OnlyReqTyped DEF NextAbandoned
<1>7. CASE Live(r)
  <2> DEFINE new == [req[r] EXCEPT !.todo = PendingBefore(clock), !.step = "orphans"]
  <2>1. new \in RequestRecords
    BY <1>1, <1>2, <1>3, <1>7, NoRequestFits, Pending
    DEF Live, RequestRecords, Operations, Steps, DeltaSteps, At, Unplaced
  <2>2. WellFormed(new, started)
    BY <1>1, <1>3, <1>7, NoRequestFits, Pending
    DEF Live, WellFormed, Unplaced, Working, DeltaSteps, RequestRecords, NoRequest, At
  <2>3. req' = [req EXCEPT ![r] = new]
    BY <1>7, Pending DEF Live, At, Typed, TypeOK, Goto, Done, Conclude, Onwards
  <2> QED BY <2>1, <2>2, <2>3, <1>7, OnlyReqTyped DEF Live
<1>8. CASE Orphans(r)
  <2> DEFINE new == [req[r] EXCEPT !.todo = {d \in Deliveries : Content(d) # {}} \ req[r].todo,
                                   !.step = "reclaim"]
  <2>1. new \in RequestRecords
    BY <1>1, <1>2, <1>3, <1>8, NoRequestFits, Pending
    DEF Orphans, RequestRecords, Operations, Steps, DeltaSteps, At, Unplaced
  <2>2. WellFormed(new, started)
    BY <1>1, <1>3, <1>8, NoRequestFits, Pending
    DEF Orphans, WellFormed, Unplaced, Working, DeltaSteps, RequestRecords, NoRequest, At
  <2>3. req' = [req EXCEPT ![r] = new]
    BY <1>8, Pending DEF Orphans, At, Typed, TypeOK, Goto, Done, Conclude, Onwards
  <2> QED BY <2>1, <2>2, <2>3, <1>8, OnlyReqTyped DEF Orphans
<1>9. CASE Die(r) /\ Done(r)
  <2> DEFINE new == NoRequest
  <2>1. new \in RequestRecords
    BY <1>1, <1>2, <1>3, <1>9, NoRequestFits
    DEF Die, RequestRecords, Operations, Steps, DeltaSteps, At, Unplaced
  <2>2. WellFormed(new, started)
    BY <1>1, <1>3, <1>9, NoRequestFits
    DEF Die, WellFormed, Unplaced, Working, DeltaSteps, RequestRecords, NoRequest, At
  <2>3. req' = [req EXCEPT ![r] = new]
    BY <1>9 DEF Die, At, Typed, TypeOK, Goto, Done, Conclude, Onwards
  <2> QED BY <2>1, <2>2, <2>3, <1>9, OnlyReqTyped DEF Die
<1>10. CASE Die(r) /\ req[r].step \in DeltaSteps /\ Goto(r, "drop")
  <2> DEFINE new == [req[r] EXCEPT !.step = "drop"]
  <2>1. new \in RequestRecords
    BY <1>1, <1>2, <1>3, <1>10, NoRequestFits
    DEF Die, RequestRecords, Operations, Steps, DeltaSteps, At, Unplaced
  <2>2. WellFormed(new, started)
    BY <1>1, <1>3, <1>10, NoRequestFits
    DEF Die, WellFormed, Unplaced, Working, DeltaSteps, RequestRecords, NoRequest, At
  <2>3. req' = [req EXCEPT ![r] = new]
    BY <1>10 DEF Die, At, Typed, TypeOK, Goto, Done, Conclude, Onwards
  <2> QED BY <2>1, <2>2, <2>3, <1>10, OnlyReqTyped DEF Die
<1> QED BY <1>4, <1>5, <1>6, <1>7, <1>8, <1>9, <1>10 DEF Die

\* A run begins, with a delivery that was never used.
LEMMA StartTyped ==
  ASSUME Typed, NEW r \in Requests, Start(r)
  PROVE  Typed'
<1>1. started' = started + 1 /\ started' \in started .. MaxRuns /\ started' \in Deliveries
  BY ProjectionAssumption DEF Start, Typed, TypeOK, Deliveries
<1>2. PICK force \in BOOLEAN : req' = [req EXCEPT ![r] =
          [NoRequest EXCEPT !.op = "run", !.step = "post", !.d = started', !.force = force]]
  BY DEF Start
<1> DEFINE new == [NoRequest EXCEPT !.op = "run", !.step = "post", !.d = started', !.force = force]
<1>3. new \in RequestRecords
  BY <1>1, NoRequestFits DEF RequestRecords, Operations, Steps, DeltaSteps
<1>4. WellFormed(new, started')
  BY <1>1, NoRequestFits, ProjectionAssumption
  DEF WellFormed, Working, Unplaced, DeltaSteps, NoRequest, Typed, TypeOK
<1>5. /\ req' \in [Requests -> RequestRecords]
      /\ \A q \in Requests : WellFormed(req'[q], started')
      /\ \A q \in Requests :
           /\ req'[q].d \in 1 .. started' \/ req'[q].step \in Unplaced
           /\ req'[q].todo \subseteq 1 .. started'
  BY <1>1, <1>2, <1>3, <1>4, ReplaceTyped
<1>6. slice' \in [Deliveries -> SUBSET Triples]
  BY DEF Start, Typed, TypeOK
<1>7. 1 .. started \subseteq 1 .. started' /\ started' \in 0 .. MaxRuns
  BY <1>1, ProjectionAssumption DEF Typed, TypeOK
<1>8. TypeOK'
  BY <1>5, <1>6, <1>7 DEF Start, Typed, TypeOK, Unplaced, store, there
<1>9. NothingEarly'
  BY <1>7 DEF Start, Typed, NothingEarly, store
<1> QED BY <1>5, <1>8, <1>9 DEF Typed

\* Steps of no request.
LEMMA QuietTyped ==
  ASSUME Typed, Reset \/ Pass \/ UNCHANGED vars
  PROVE  Typed'
<1>1. req' = req /\ started' = started
  BY DEF Reset, Pass, vars
<1>2. CASE Pass
  <2>1. clock' \in 0 .. Horizon
    BY <1>2, ProjectionAssumption DEF Pass, Typed, TypeOK
  <2>2. /\ hook' = hook /\ slice' = slice /\ created' = created /\ watermark' = watermark
        /\ scratch' = scratch /\ log' = log /\ target' = target /\ applied' = applied
        /\ given' = given
    BY <1>2 DEF Pass, store, there
  <2> QED BY <1>1, <2>1, <2>2 DEF Typed, TypeOK, NothingEarly
<1>3. CASE Reset \/ UNCHANGED vars
  <2>1. /\ hook' = hook /\ clock' = clock /\ slice' = slice /\ created' = created
        /\ watermark' \in {watermark, {}} /\ scratch' = scratch /\ log' = log
        /\ target' = target /\ applied' = applied /\ given' = given
    BY <1>3 DEF Reset, vars, there
  <2> QED BY <1>1, <2>1 DEF Typed, TypeOK, NothingEarly
<1> QED BY <1>2, <1>3

LEMMA NextTyped == Typed /\ [Next]_vars => Typed'
BY ComputesTyped, StoresTyped, TargetsTyped, TargetRequestsTyped, SweepsTyped, StartTyped,
    QuietTyped
DEF Next

\* Every variable has its type and every request is at a step of its operation,
\* whatever races or dies.
THEOREM TypeCorrect == Spec => []TypeOK
<1>1. Typed => TypeOK
  BY DEF Typed
<1> QED BY InitTyped, NextTyped, <1>1, PTL DEF Spec

-----------------------------------------------------------------------------
(* The invariant.                                                          *)

\* The payload of a request is computed, and not handed over yet.
Offering == (DeltaSteps \ {"additions"}) \cup {"bump", "send", "collectRetractions"}

\* The request is about a delivery it found in the log.
FoundInLog(x) == \/ x.op \in {"collect", "acknowledge", "reject"}
                 \/ x.op = "sweep" /\ x.step \in {"drop", "fail"}

\* What a request may rely on whatever the others do meanwhile: who works on a
\* delivery, what its payload still covers, and what was done before its step.
Sound(x) ==
    /\ x.step \in Working => log[x.d] = "unrecorded"
    /\ x.step = "post" => x.d \notin applied
    /\ FoundInLog(x) => log[x.d] # "unrecorded"
    /\ x.step # "reclaim" => \A e \in x.todo : log[e] # "unrecorded"
    /\ x.step \in Offering /\ scratch[x.d] # Gone => scratch[x.d] \subseteq x.additions \cup given
    /\ x.step \in {"retractions", "retractionCount", "bump"} /\ x.changed = FALSE
          /\ scratch[x.d] # Gone => scratch[x.d] \subseteq given
    /\ x.step \in {"settle", "advance"} \/ x.op = "acknowledge" => x.d \in applied
    /\ hook.way = "pull" /\ x.op = "run" => x.step \notin {"send", "fail"}
    /\ (x.step = "fail" /\ x.op # "run") \/ (x.step = "settle" /\ x.op = "acknowledge") =>
          scratch[x.d] = Gone

\* No two runs have the same delivery.
RunsApart ==
    \A r, q \in Requests : r # q /\ req[r].op = "run" /\ req[q].op = "run" => req[r].d # req[q].d

\* A scratch graph is the slice of its delivery, and of a delivery that was
\* applied it holds nothing the target was not given.
ScratchKept ==
    \A d \in Deliveries : scratch[d] # Gone =>
        /\ scratch[d] = slice[d]
        /\ d \in applied => scratch[d] \subseteq given

Inv == /\ \A r \in Requests : Sound(req[r])
       /\ RunsApart /\ ScratchKept /\ NothingIsSkipped /\ SettledPullHoldsNothing

LEMMA InitSound == Init => Inv
<1> SUFFICES ASSUME Init PROVE Inv
  OBVIOUS
<1>1. \A r \in Requests : req[r] = NoRequest
  BY DEF Init
<1>2. Sound(NoRequest)
  BY DEF Init, Sound, NoRequest, Working, Offering, DeltaSteps, FoundInLog
<1>3. RunsApart
  BY <1>1 DEF RunsApart, NoRequest
<1>4. ScratchKept /\ NothingIsSkipped /\ SettledPullHoldsNothing
  BY DEF Init, ScratchKept, NothingIsSkipped, SettledPullHoldsNothing
<1> QED BY <1>1, <1>2, <1>3, <1>4 DEF Inv

\* Nobody else is at a delivery that a run works on.
LEMMA Apart ==
  ASSUME Typed, Inv, NEW r \in Requests, NEW q \in Requests, r # q,
         req[r].step \notin Unplaced, req[q].step \in Working
  PROVE  req[r].d # req[q].d
<1>1. req[q].op = "run" /\ log[req[q].d] = "unrecorded"
  BY DEF Typed, WellFormed, Inv, Sound
<1>2. req[r].op = "run" \/ FoundInLog(req[r])
  BY Edited
  DEF Typed, WellFormed, FoundInLog, RequestRecords, Operations, Steps, Unplaced, Working,
      DeltaSteps
<1>3. FoundInLog(req[r]) => log[req[r].d] # "unrecorded"
  BY DEF Inv, Sound
<1> QED BY <1>1, <1>2, <1>3 DEF Inv, RunsApart

\* What a request changes about the deliveries: the log and the graph of its own,
\* and graphs that go.
Touches(d) ==
    /\ hook' = hook /\ given \subseteq given' /\ applied \subseteq applied'
    /\ applied' \subseteq applied \cup {d}
    /\ \A e \in Deliveries :
          /\ log'[e] = log[e] \/ (e = d /\ log'[e] # "unrecorded")
          /\ scratch'[e] \in {scratch[e], Gone} \/ (e = d /\ log[e] = "unrecorded")

\* The other requests may go on relying on what they did.
LEMMA OthersSound ==
  ASSUME Typed, Inv, NEW r \in Requests, Touches(req[r].d),
         req[r].step \in Unplaced => Touches(NoDelivery),
         \A q \in Requests \ {r} : req'[q] = req[q]
  PROVE  \A q \in Requests \ {r} : Sound(req[q])'
<1>1. ASSUME NEW q \in Requests \ {r} PROVE Sound(req[q])'
  <2> DEFINE d == req[q].d
  <2>1. req[q].step \notin Unplaced => d \in Deliveries
    BY Placed
  <2>2. req[q].step \in Working =>
          /\ d \in Deliveries /\ log'[d] = log[d] /\ scratch'[d] \in {scratch[d], Gone}
          /\ d \in applied' => d \in applied
    <3>1. SUFFICES ASSUME req[q].step \in Working
                   PROVE  log'[d] = log[d] /\ scratch'[d] \in {scratch[d], Gone}
                          /\ (d \in applied' => d \in applied)
      BY <2>1 DEF Working, Unplaced, DeltaSteps
    <3>2. d \in Deliveries
      BY <2>1, <3>1 DEF Working, Unplaced, DeltaSteps
    <3>3. CASE req[r].step \in Unplaced
      BY <3>2, <3>3, ProjectionAssumption DEF Touches, Deliveries
    <3>4. CASE req[r].step \notin Unplaced
      <4>1. d # req[r].d
        BY <3>1, <3>4, Apart
      <4> QED BY <3>2, <4>1 DEF Touches
    <3> QED BY <3>3, <3>4
  <2>3. \A e \in Deliveries : log[e] # "unrecorded" =>
          log'[e] # "unrecorded" /\ scratch'[e] \in {scratch[e], Gone}
    BY DEF Touches
  <2>4. req[q].todo \subseteq Deliveries
    BY Within DEF Typed, WellFormed
  <2>5. Sound(req[q]) /\ req'[q] = req[q] /\ hook' = hook
    BY DEF Inv, Touches
  <2>6. applied \subseteq applied' /\ given \subseteq given'
    BY DEF Touches
  <2>7. FoundInLog(req[q]) \/ req[q].step \in Offering \cup {"settle", "advance", "fail"} =>
          d \in Deliveries
    BY <2>1 DEF FoundInLog, Typed, WellFormed, Unplaced, Offering, DeltaSteps
  <2>8. FoundInLog(req[q]) => log'[d] # "unrecorded" /\ scratch'[d] \in {scratch[d], Gone}
    BY <2>3, <2>5, <2>7 DEF Sound
  <2>9. req[q].step \in Offering /\ scratch'[d] # Gone =>
          scratch'[d] \subseteq req[q].additions \cup given'
    <3>1. req[q].step \in Offering => scratch'[d] \in {scratch[d], Gone}
      BY <2>2, <2>8 DEF FoundInLog, Typed, WellFormed, Offering, Working, DeltaSteps
    <3> QED BY <3>1, <2>5, <2>6 DEF Sound
  <2>10. req[q].step \in {"retractions", "retractionCount", "bump"} /\ req[q].changed = FALSE
          /\ scratch'[d] # Gone => scratch'[d] \subseteq given'
    BY <2>2, <2>5, <2>6 DEF Sound, Working, DeltaSteps
  <2>11. (req[q].step = "fail" /\ req[q].op # "run")
          \/ (req[q].step = "settle" /\ req[q].op = "acknowledge") => scratch'[d] = Gone
    BY <2>5, <2>8 DEF Sound, FoundInLog, Typed, WellFormed
  <2>12. req[q].step # "reclaim" => \A e \in req[q].todo : log'[e] # "unrecorded"
    BY <2>3, <2>4, <2>5 DEF Sound
  <2> HIDE DEF d
  <2>13. Sound(req[q])'
    BY <2>2, <2>5, <2>6, <2>8, <2>9, <2>10, <2>11, <2>12 DEF Sound, d, FoundInLog, Working
  <2> QED BY <2>13
<1> QED BY <1>1

LEMMA IdleSound ==
  ASSUME NEW r, req'[r] = NoRequest
  PROVE  Sound(req[r])' /\ req'[r].op # "run"
BY DEF Sound, NoRequest, Working, Offering, DeltaSteps, FoundInLog

\* A step that writes nothing, once its own request is known to be sound.
LEMMA QuietSound ==
  ASSUME Typed, Inv, NEW r \in Requests,
         hook' = hook, watermark' = watermark, scratch' = scratch, log' = log, slice' = slice,
         applied' = applied, given' = given,
         \A q \in Requests \ {r} : req'[q] = req[q],
         req'[r].op = "run" => req[r].op = "run" /\ req'[r].d = req[r].d,
         Sound(req[r])'
  PROVE  Inv'
<1>1. Touches(req[r].d) /\ Touches(NoDelivery)
  BY DEF Touches
<1>2. \A q \in Requests \ {r} : Sound(req[q])'
  BY <1>1, OthersSound
<1>3. RunsApart'
  BY DEF Inv, RunsApart
<1>4. ScratchKept' /\ NothingIsSkipped' /\ SettledPullHoldsNothing'
  BY DEF Inv, ScratchKept, NothingIsSkipped, SettledPullHoldsNothing
<1> QED BY <1>2, <1>3, <1>4 DEF Inv

LEMMA ComputeSound ==
  ASSUME Typed, Inv, NEW r \in Requests, Compute(r)
  PROVE  Inv'
<1> DEFINE d == req[r].d
<1>1. /\ hook' = hook /\ watermark' = watermark /\ scratch' = scratch
      /\ log' = log /\ slice' = slice
      /\ applied' = applied /\ given' = given
  BY DEF Compute, store, there
<1>2. req[r].step \in DeltaSteps /\ req[r].op = "run"
  BY DEF Compute, At, DeltaSteps, Typed, WellFormed, Working
<1>3. \A q \in Requests \ {r} : req'[q] = req[q]
  BY DEF Compute, Typed, TypeOK
<1>4. req'[r].op = "run" /\ req'[r].d = d /\ req'[r].todo = req[r].todo
  BY <1>2 DEF Compute, Typed, TypeOK, RequestRecords
<1>5. Sound(req[r]) /\ watermark \subseteq given /\ Baseline \subseteq given
  BY DEF Inv, NothingIsSkipped, Baseline
<1>6. log[d] = "unrecorded"
  BY <1>2, <1>5 DEF Sound, Working
<1>7. req'[r].step \in Working \ {"post", "send", "record", "additions"}
  BY DEF Compute, At, Typed, TypeOK, RequestRecords, Working, DeltaSteps
<1>8. scratch[d] # Gone => scratch[d] \subseteq req'[r].additions \cup given
  BY <1>5
  DEF Compute, At, Typed, TypeOK, RequestRecords, Content, Sound, Offering, DeltaSteps
<1>9. req'[r].step \in {"retractions", "retractionCount", "bump"} /\ req'[r].changed = FALSE
          /\ scratch[d] # Gone => scratch[d] \subseteq given
  <2>1. CASE At(r, "additions")
    BY <2>1 DEF Compute, At, Typed, TypeOK, RequestRecords
  <2>2. CASE At(r, "additionCount")
    <3>1. req'[r].changed = (Content(d) \ Baseline # {})
      BY <2>2 DEF Compute, At, Typed, TypeOK, RequestRecords
    <3> QED BY <3>1, <1>5 DEF Content
  <2>3. CASE At(r, "retractions")
    BY <2>3, <1>5 DEF Compute, At, Typed, TypeOK, RequestRecords, Sound
  <2>4. CASE At(r, "retractionCount")
    <3>1. req'[r].changed = (req[r].changed \/ watermark \ Content(d) # {})
      BY <2>4 DEF Compute, At, Typed, TypeOK, RequestRecords
    <3>2. req[r].changed \in BOOLEAN
      BY DEF Typed, TypeOK, RequestRecords
    <3>3. req'[r].changed = FALSE => req[r].changed = FALSE
      BY <3>1, <3>2, Zenon
    <3> QED BY <2>4, <3>3, <1>5 DEF At, Sound
  <2> QED BY <2>1, <2>2, <2>3, <2>4 DEF Compute
<1>10. Sound(req[r])'
  BY <1>1, <1>2, <1>4, <1>5, <1>6, <1>7, <1>8, <1>9
  DEF Sound, FoundInLog, Working, DeltaSteps, Offering
<1> QED BY <1>1, <1>2, <1>3, <1>4, <1>10, QuietSound

\* The target's requests that only read.
LEMMA RequestSound ==
  ASSUME Typed, Inv, NEW r \in Requests,
         Collect(r) \/ CollectAdditions(r) \/ Acknowledge(r) \/ Reject(r)
  PROVE  Inv'
<1>1. /\ hook' = hook /\ watermark' = watermark /\ scratch' = scratch
      /\ log' = log /\ slice' = slice
      /\ applied' = applied /\ given' = given
  BY DEF Collect, CollectAdditions, Acknowledge, Reject, store, there
<1>2. \A q \in Requests \ {r} : req'[q] = req[q]
  BY DEF Collect, CollectAdditions, Acknowledge, Reject, Typed, TypeOK
<1>3. Sound(req[r])' /\ req'[r].op # "run"
  <2>1. CASE CollectAdditions(r)
    <3>1. /\ req'[r].step = "collectRetractions" /\ req[r].step = "collectAdditions"
          /\ req'[r].additions = Content(req[r].d) \ watermark
          /\ req'[r].op = req[r].op /\ req'[r].d = req[r].d /\ req'[r].todo = req[r].todo
      BY <2>1 DEF CollectAdditions, At, Typed, TypeOK, RequestRecords
    <3>2. Sound(req[r]) /\ req[r].op = "collect" /\ watermark \subseteq given
      BY <3>1 DEF Inv, Typed, WellFormed, NothingIsSkipped
    <3> QED BY <1>1, <3>1, <3>2 DEF Sound, FoundInLog, Content, Working, DeltaSteps, Offering
  <2>2. CASE Collect(r) \/ Acknowledge(r) \/ Reject(r)
    <3>1. PICK d \in Deliveries : /\ log[d] = "pending" /\ req'[r].d = d
                                 /\ \/ /\ req'[r].op = "collect"
                                       /\ req'[r].step = "collectAdditions"
                                    \/ /\ req'[r].op = "acknowledge" /\ req'[r].step = "advance"
                                       /\ d \in applied
                                    \/ /\ req'[r].op = "reject" /\ req'[r].step = "drop"
                                 /\ req'[r].todo = {}
      <4>1. applied \subseteq Deliveries
        BY Within DEF Typed, TypeOK
      <4>2. CASE Collect(r)
        <5>1. PICK d \in Deliveries : log[d] = "pending" /\ req' = [req EXCEPT ![r] =
                [NoRequest EXCEPT !.op = "collect", !.step = "collectAdditions", !.d = d]]
          BY <4>2 DEF Collect
        <5>2. /\ req'[r].op = "collect" /\ req'[r].step = "collectAdditions"
              /\ req'[r].d = d /\ req'[r].todo = {}
          BY <5>1 DEF NoRequest, Typed, TypeOK
        <5> QED BY <4>1, <5>1, <5>2
      <4>3. CASE Acknowledge(r)
        <5>1. PICK d \in applied : log[d] = "pending" /\ req' = [req EXCEPT ![r] =
                [NoRequest EXCEPT !.op = "acknowledge", !.step = "advance", !.d = d]]
          BY <4>3 DEF Acknowledge, FirstOfAcknowledge
        <5>2. /\ req'[r].op = "acknowledge" /\ req'[r].step = "advance"
              /\ req'[r].d = d /\ req'[r].todo = {}
          BY <5>1 DEF NoRequest, Typed, TypeOK
        <5> QED BY <4>1, <5>1, <5>2
      <4>4. CASE Reject(r)
        <5>1. PICK d \in Deliveries : log[d] = "pending" /\ req' = [req EXCEPT ![r] =
                [NoRequest EXCEPT !.op = "reject", !.step = "drop", !.d = d]]
          BY <4>4 DEF Reject
        <5>2. /\ req'[r].op = "reject" /\ req'[r].step = "drop"
              /\ req'[r].d = d /\ req'[r].todo = {}
          BY <5>1 DEF NoRequest, Typed, TypeOK
        <5> QED BY <4>1, <5>1, <5>2
      <4> QED BY <2>2, <4>2, <4>3, <4>4
    <3> QED BY <1>1, <3>1 DEF Sound, FoundInLog, Working, DeltaSteps, Offering
  <2> QED BY <2>1, <2>2
<1> QED BY <1>1, <1>2, <1>3, QuietSound

\* The sweep's reads, and requests that die.
LEMMA SweepSound ==
  ASSUME Typed, Inv, NEW r \in Requests,
         Sweep(r) \/ NextAbandoned(r) \/ Live(r) \/ Orphans(r) \/ Die(r)
  PROVE  Inv'
<1>1. /\ hook' = hook /\ watermark' = watermark /\ scratch' = scratch
      /\ log' = log /\ slice' = slice
      /\ applied' = applied /\ given' = given
  BY DEF Sweep, NextAbandoned, Live, Orphans, Die, store, there
<1>2. \A q \in Requests \ {r} : req'[q] = req[q]
  BY DEF Sweep, NextAbandoned, Live, Orphans, Die, Done, Goto, Typed, TypeOK
<1>3. \A cutoff : \A e \in PendingBefore(cutoff) : log[e] # "unrecorded"
  BY DEF PendingBefore
<1>4. Sound(req[r])
  BY DEF Inv
<1>5. CASE Sweep(r) \/ Live(r) \/ Orphans(r) \/ NextAbandoned(r)
  <2>1. /\ req'[r].op = "sweep"
        /\ \/ /\ req'[r].step \in {"next", "live", "orphans"}
              /\ \A e \in req'[r].todo : log[e] # "unrecorded"
           \/ req'[r].step = "reclaim"
           \/ /\ req'[r].step = "drop" /\ log[req'[r].d] # "unrecorded"
              /\ \A e \in req'[r].todo : log[e] # "unrecorded"
    <3>1. CASE Sweep(r)
      <4>1. PICK age \in Ages : req' = [req EXCEPT ![r] =
                [NoRequest EXCEPT !.op = "sweep", !.step = "next",
                                  !.todo = PendingBefore(clock - age)]]
        BY <3>1 DEF Sweep
      <4>2. req'[r].op = "sweep" /\ req'[r].step = "next"
            /\ req'[r].todo = PendingBefore(clock - age)
        BY <4>1 DEF NoRequest, Typed, TypeOK
      <4> QED BY <4>2, <1>3
    <3>2. CASE Live(r)
      BY <3>2, <1>3 DEF Live, At, Typed, TypeOK, RequestRecords, WellFormed, Unplaced
    <3>3. CASE Orphans(r)
      BY <3>3 DEF Orphans, At, Typed, TypeOK, RequestRecords, WellFormed, Unplaced
    <3>4. CASE NextAbandoned(r)
      <4>1. req[r].op = "sweep" /\ \A e \in req[r].todo : log[e] # "unrecorded"
        BY <3>4, <1>4 DEF NextAbandoned, At, Typed, WellFormed, Unplaced, Sound
      <4>2. CASE req[r].todo = {}
        BY <3>4, <4>1, <4>2 DEF NextAbandoned, At, Typed, TypeOK, RequestRecords
      <4>3. CASE req[r].todo # {}
        <5>1. PICK d \in req[r].todo :
                req' = [req EXCEPT ![r].d = d, ![r].step = "drop", ![r].todo = @ \ {d}]
          BY <3>4, <4>3 DEF NextAbandoned
        <5>2. /\ req'[r].op = "sweep" /\ req'[r].step = "drop" /\ req'[r].d = d
              /\ req'[r].todo = req[r].todo \ {d}
          BY <4>1, <5>1 DEF Typed, TypeOK, RequestRecords
        <5> QED BY <4>1, <5>2
      <4> QED BY <4>2, <4>3
    <3> QED BY <1>5, <3>1, <3>2, <3>3, <3>4
  <2>2. Sound(req[r])'
    BY <1>1, <2>1 DEF Sound, FoundInLog, Working, DeltaSteps, Offering
  <2> QED BY <1>1, <1>2, <2>1, <2>2, QuietSound
<1>6. CASE Die(r) /\ Done(r)
  <2>1. req'[r] = NoRequest
    BY <1>6 DEF Done, Typed, TypeOK
  <2> QED BY <2>1, IdleSound, <1>1, <1>2, QuietSound
<1>7. CASE Die(r) /\ req[r].step \in DeltaSteps /\ Goto(r, "drop")
  <2>1. /\ req[r].op = "run" /\ req'[r].op = "run" /\ req'[r].step = "drop"
        /\ req'[r].d = req[r].d /\ req'[r].todo = req[r].todo
    BY <1>7 DEF Goto, Typed, TypeOK, RequestRecords, WellFormed, Working, DeltaSteps
  <2>2. Sound(req[r])'
    BY <1>1, <1>4, <1>7, <2>1 DEF Sound, FoundInLog, Working, DeltaSteps, Offering
  <2> QED BY <1>1, <1>2, <2>1, <2>2, QuietSound
<1> QED BY <1>5, <1>6, <1>7 DEF Die

\* A step that writes, once it is known what it changes.
LEMMA WriteSound ==
  ASSUME Typed, Inv, NEW r \in Requests, Touches(req[r].d),
         req[r].step \in Unplaced => Touches(NoDelivery),
         \A q \in Requests \ {r} : req'[q] = req[q],
         req'[r].op = "run" => req[r].op = "run" /\ req'[r].d = req[r].d,
         Sound(req[r])', ScratchKept', NothingIsSkipped', SettledPullHoldsNothing'
  PROVE  Inv'
<1>1. \A q \in Requests \ {r} : Sound(req[q])'
  BY OthersSound
<1>2. RunsApart'
  BY DEF Inv, RunsApart
<1> QED BY <1>1, <1>2 DEF Inv

\* The writer's request: what the invariant says of it, and who else changed.
LEMMA Writers ==
  ASSUME Typed, Inv, NEW r \in Requests,
         \/ Post(r) \/ Envelope(r) \/ Record(r) \/ Send(r) \/ Settle(r) \/ Fail(r)
         \/ Advance(r) \/ Drop(r) \/ CollectRetractions(r)
  PROVE  /\ Sound(req[r]) /\ req[r] \in RequestRecords /\ WellFormed(req[r], started)
         /\ req[r].d \in Deliveries /\ req[r].step \notin Unplaced
         /\ \A q \in Requests \ {r} : req'[q] = req[q]
         /\ \A s : Goto(r, s) => /\ req'[r].step = s /\ req'[r].op = req[r].op
                                 /\ req'[r].d = req[r].d /\ req'[r].todo = req[r].todo
                                 /\ req'[r].additions = req[r].additions
         /\ \A s : Conclude(r, s) => /\ req'[r].step = s /\ req'[r].op = req[r].op
                                     /\ req'[r].d = req[r].d /\ req'[r].todo = {}
         /\ Done(r) => Sound(req[r])' /\ req'[r].op # "run"
<1>1. Sound(req[r]) /\ req[r] \in RequestRecords /\ WellFormed(req[r], started)
  BY Edited DEF Inv
<1>2. req[r].step \notin Unplaced
  BY
  DEF Post, Envelope, Record, Send, Settle, Fail, Advance, Drop, CollectRetractions, At,
      Unplaced
<1>3. req[r].d \in Deliveries
  BY <1>2, Placed
<1>4. \A q \in Requests \ {r} : req'[q] = req[q]
  BY DEF Post, Envelope, Record, Send, Settle, Fail, Advance, Drop, CollectRetractions,
         Goto, Done, Conclude, Onwards, Typed, TypeOK
<1>5. \A s : Goto(r, s) => /\ req'[r].step = s /\ req'[r].op = req[r].op
                           /\ req'[r].d = req[r].d /\ req'[r].todo = req[r].todo
                           /\ req'[r].additions = req[r].additions
  BY <1>1 DEF Goto, RequestRecords, Typed, TypeOK
<1>6. \A s : Conclude(r, s) => /\ req'[r].step = s /\ req'[r].op = req[r].op
                               /\ req'[r].d = req[r].d /\ req'[r].todo = {}
  BY <1>1 DEF Conclude, NoRequest, Typed, TypeOK
<1>7. Done(r) => req'[r] = NoRequest
  BY DEF Done, Typed, TypeOK
<1> QED BY <1>1, <1>2, <1>3, <1>4, <1>5, <1>6, <1>7, IdleSound

LEMMA PostSound ==
  ASSUME Typed, Inv, NEW r \in Requests, Post(r)
  PROVE  Inv'
<1> DEFINE d == req[r].d
<1>1. /\ hook' = hook /\ watermark' = watermark /\ log' = log /\ slice' = slice
      /\ applied' = applied /\ given' = given
      /\ req[r].step = "post" /\ Goto(r, "additions")
      /\ scratch' = [scratch EXCEPT ![d] = Stored(slice[d])]
  BY DEF Post, At, there
<1>2. d \in Deliveries /\ req[r].op = "run" /\ log[d] = "unrecorded" /\ d \notin applied
  BY <1>1, Writers DEF WellFormed, Sound, Working
<1>3. /\ scratch'[d] \in {Gone, slice[d]}
      /\ \A e \in Deliveries \ {d} : scratch'[e] = scratch[e]
  BY <1>1, <1>2 DEF Typed, TypeOK, Stored
<1>4. Touches(d)
  BY <1>1, <1>2, <1>3 DEF Touches
<1>5. ScratchKept' /\ NothingIsSkipped' /\ SettledPullHoldsNothing'
  BY <1>1, <1>2, <1>3 DEF Inv, ScratchKept, NothingIsSkipped, SettledPullHoldsNothing
<1>6. /\ req'[r].step = "additions" /\ req'[r].op = "run"
      /\ req'[r].d = d /\ req'[r].todo = req[r].todo
  BY <1>1, <1>2, Writers
<1>7. Sound(req[r])'
  BY <1>1, <1>2, <1>6, Writers DEF Sound, FoundInLog, Working, Offering, DeltaSteps
<1> QED BY <1>1, <1>2, <1>4, <1>5, <1>6, <1>7, Writers, WriteSound

LEMMA EnvelopeSound ==
  ASSUME Typed, Inv, NEW r \in Requests, Envelope(r)
  PROVE  Inv'
<1> DEFINE d == req[r].d
<1>1. /\ hook' = hook /\ watermark' = watermark /\ scratch' = scratch
      /\ log' = log /\ slice' = slice
      /\ given' = given /\ req[r].step = "bump"
  BY DEF Envelope, At, store
<1>2. d \in Deliveries /\ req[r].op = "run" /\ log[d] = "unrecorded"
  BY <1>1, Writers DEF WellFormed, Sound, Working
<1>3. applied' \in {applied, applied \cup {d}}
  BY DEF Envelope
<1>4. Touches(d)
  BY <1>1, <1>3 DEF Touches
<1>5. NothingIsSkipped' /\ SettledPullHoldsNothing'
  BY <1>1 DEF Inv, NothingIsSkipped, SettledPullHoldsNothing
<1>6. CASE Conclude(r, "settle") /\ applied' = applied \cup {d} /\ ~req[r].changed
  <2>1. req[r].changed = FALSE
    BY <1>6, Writers DEF RequestRecords
  <2>2. scratch[d] # Gone => scratch[d] \subseteq given
    BY <1>1, <2>1, Writers DEF Sound
  <2>3. ScratchKept'
    BY <1>1, <1>6, <2>2 DEF Inv, ScratchKept
  <2>4. req'[r].step = "settle" /\ req'[r].op = "run" /\ req'[r].d = d /\ req'[r].todo = {}
    BY <1>2, <1>6, Writers
  <2>5. Sound(req[r])'
    BY <1>6, <2>4 DEF Sound, FoundInLog, Working, Offering, DeltaSteps
  <2> QED BY <1>2, <1>4, <1>5, <2>3, <2>4, <2>5, Writers, WriteSound
<1>7. CASE /\ applied' = applied
           /\ \/ Conclude(r, "record")
              \/ hook.way = "webhook" /\ Goto(r, "send")
  <2>1. ScratchKept'
    BY <1>1, <1>7 DEF Inv, ScratchKept
  <2>2. /\ req'[r].op = "run" /\ req'[r].d = d
        /\ \/ req'[r].step = "record" /\ req'[r].todo = {}
           \/ /\ req'[r].step = "send" /\ hook.way = "webhook"
              /\ req'[r].todo = req[r].todo /\ req'[r].additions = req[r].additions
    BY <1>2, <1>7, Writers
  <2>3. Sound(req[r])'
    BY <1>1, <1>2, <1>7, <2>2, Writers DEF Sound, FoundInLog, Working, Offering, DeltaSteps
  <2> QED BY <1>2, <1>4, <1>5, <2>1, <2>2, <2>3, Writers, WriteSound
<1>8. req[r].changed \in BOOLEAN /\ req[r].force \in BOOLEAN
  BY Writers DEF RequestRecords
<1> QED BY <1>6, <1>7, <1>8, Zenon DEF Envelope

LEMMA RecordSound ==
  ASSUME Typed, Inv, NEW r \in Requests, Record(r)
  PROVE  Inv'
<1> DEFINE d == req[r].d
<1>1. /\ hook' = hook /\ watermark' = watermark /\ scratch' = scratch /\ slice' = slice
      /\ applied' = applied /\ given' = given /\ Done(r)
      /\ log' = [log EXCEPT ![d] = "pending"]
  BY DEF Record, At, there
<1>2. \A e \in Deliveries : log'[e] = log[e] \/ (e = d /\ log'[e] = "pending")
  BY <1>1 DEF Typed, TypeOK
<1>3. Touches(d)
  BY <1>1, <1>2 DEF Touches
<1>4. ScratchKept' /\ NothingIsSkipped' /\ SettledPullHoldsNothing'
  BY <1>1, <1>2 DEF Inv, ScratchKept, NothingIsSkipped, SettledPullHoldsNothing
<1> QED BY <1>1, <1>3, <1>4, Writers, WriteSound

\* An envelope that is handed over covers the scratch graph of its delivery.
LEMMA HandOverSound ==
  ASSUME Typed, Inv, NEW r \in Requests, Send(r) \/ CollectRetractions(r)
  PROVE  Inv'
<1> DEFINE d == req[r].d
<1>1. /\ hook' = hook /\ watermark' = watermark /\ scratch' = scratch
      /\ log' = log /\ slice' = slice
      /\ req[r].step \in {"send", "collectRetractions"}
  BY DEF Send, CollectRetractions, At, store
<1>2. d \in Deliveries /\ (scratch[d] # Gone => scratch[d] \subseteq req[r].additions \cup given)
  BY <1>1, Writers DEF Sound, Offering
<1>3. \/ applied' = applied /\ given' = given
      \/ applied' = applied \cup {d} /\ given' = given \cup req[r].additions
  BY DEF Send, CollectRetractions, Takes, there
<1>4. Touches(d)
  BY <1>1, <1>3 DEF Touches
<1>5. ScratchKept'
  BY <1>1, <1>2, <1>3 DEF Inv, ScratchKept
<1>6. NothingIsSkipped' /\ SettledPullHoldsNothing'
  BY <1>1, <1>3 DEF Inv, NothingIsSkipped, SettledPullHoldsNothing
<1>7. CASE CollectRetractions(r)
  <2>1. Done(r)
    BY <1>7 DEF CollectRetractions
  <2> QED BY <2>1, <1>4, <1>5, <1>6, Writers, WriteSound
<1>8. CASE Send(r)
  <2>1. \/ Conclude(r, "settle") /\ d \in applied'
        \/ Conclude(r, "fail")
    BY <1>8 DEF Send, Takes, AfterRefusal
  <2>2. req[r].op = "run" /\ hook.way # "pull"
    BY <1>8, Writers DEF Send, At, WellFormed, Working, Sound
  <2>3. /\ req'[r].op = "run" /\ req'[r].d = d /\ req'[r].todo = {}
        /\ \/ req'[r].step = "fail"
           \/ req'[r].step = "settle" /\ d \in applied'
    BY <2>1, <2>2, Writers
  <2>4. Sound(req[r])'
    BY <1>1, <2>2, <2>3 DEF Sound, FoundInLog, Working, Offering, DeltaSteps
  <2> QED BY <1>4, <1>5, <1>6, <2>2, <2>3, <2>4, Writers, WriteSound
<1> QED BY <1>7, <1>8

LEMMA SettleSound ==
  ASSUME Typed, Inv, NEW r \in Requests, Settle(r)
  PROVE  Inv'
<1> DEFINE d == req[r].d
<1>1. /\ hook' = hook /\ watermark' = watermark /\ scratch' = scratch /\ slice' = slice
      /\ applied' = applied /\ given' = given /\ req[r].step = "settle"
      /\ log' = [log EXCEPT ![d] = IF req[r].op = "run" THEN "delivered" ELSE "acknowledged"]
      /\ Onwards(r, AfterSettle(req[r].op))
  BY DEF Settle, At, there
<1>2. d \in Deliveries /\ d \in applied /\ req[r].op \in {"run", "acknowledge"}
  BY <1>1, Writers DEF Sound, WellFormed
<1>3. \A e \in Deliveries : log'[e] = IF e # d THEN log[e] ELSE
          IF req[r].op = "run" THEN "delivered" ELSE "acknowledged"
  BY <1>1 DEF Typed, TypeOK
<1>4. Touches(d)
  BY <1>1, <1>3 DEF Touches
<1>5. ScratchKept' /\ NothingIsSkipped'
  BY <1>1 DEF Inv, ScratchKept, NothingIsSkipped
<1>6. SettledPullHoldsNothing'
  <2>1. req[r].op = "acknowledge" => scratch[d] = Gone
    BY <1>1, Writers DEF Sound
  <2> QED BY <1>1, <1>2, <1>3, <2>1 DEF Inv, SettledPullHoldsNothing
<1>7. CASE req[r].op = "run"
  <2>1. Goto(r, "advance")
    BY <1>1, <1>7 DEF Onwards, AfterSettle
  <2>2. /\ req'[r].step = "advance" /\ req'[r].op = "run" /\ req'[r].d = d
        /\ req'[r].todo = req[r].todo
    BY <1>7, <2>1, Writers
  <2>3. req[r].todo \subseteq Deliveries /\ \A e \in req[r].todo : log[e] # "unrecorded"
    BY <1>1, Writers, Within DEF Sound, WellFormed
  <2>4. Sound(req[r])'
    BY <1>1, <1>2, <1>3, <2>2, <2>3 DEF Sound, FoundInLog, Working, Offering, DeltaSteps
  <2> QED BY <1>4, <1>5, <1>6, <1>7, <2>2, <2>4, Writers, WriteSound
<1>8. CASE req[r].op # "run"
  <2>1. Done(r)
    BY <1>1, <1>8 DEF Onwards, AfterSettle
  <2> QED BY <2>1, <1>4, <1>5, <1>6, Writers, WriteSound
<1> QED BY <1>7, <1>8

LEMMA FailSound ==
  ASSUME Typed, Inv, NEW r \in Requests, Fail(r)
  PROVE  Inv'
<1> DEFINE d == req[r].d
<1>1. /\ hook' = hook /\ watermark' = watermark /\ scratch' = scratch /\ slice' = slice
      /\ applied' = applied /\ given' = given /\ req[r].step = "fail"
      /\ log' = [log EXCEPT ![d] = "failed"]
      /\ Onwards(r, AfterFail(req[r].op))
  BY DEF Fail, At, there
<1>2. d \in Deliveries /\ req[r].op \in {"run", "reject", "sweep"}
  BY <1>1, Writers DEF WellFormed
<1>3. \A e \in Deliveries : log'[e] = IF e # d THEN log[e] ELSE "failed"
  BY <1>1 DEF Typed, TypeOK
<1>4. Touches(d)
  BY <1>1, <1>3 DEF Touches
<1>5. ScratchKept' /\ NothingIsSkipped'
  BY <1>1 DEF Inv, ScratchKept, NothingIsSkipped
<1>6. SettledPullHoldsNothing'
  <2>1. hook.way = "pull" => scratch[d] = Gone
    BY <1>1, Writers DEF Sound
  <2> QED BY <1>1, <1>2, <1>3, <2>1 DEF Inv, SettledPullHoldsNothing
<1>7. CASE req[r].op = "reject"
  <2>1. Done(r)
    BY <1>1, <1>7 DEF Onwards, AfterFail
  <2> QED BY <2>1, <1>4, <1>5, <1>6, Writers, WriteSound
<1>8. CASE req[r].op # "reject"
  <2>1. Goto(r, IF req[r].op = "run" THEN "drop" ELSE "next")
    BY <1>1, <1>2, <1>8 DEF Onwards, AfterFail
  <2>2. /\ req'[r].step = IF req[r].op = "run" THEN "drop" ELSE "next"
        /\ req'[r].op = req[r].op /\ req'[r].d = d /\ req'[r].todo = req[r].todo
    BY <2>1, Writers
  <2>3. req[r].todo \subseteq Deliveries /\ \A e \in req[r].todo : log[e] # "unrecorded"
    BY <1>1, Writers, Within DEF Sound, WellFormed
  <2>4. Sound(req[r])'
    BY <1>1, <1>2, <1>3, <1>8, <2>2, <2>3
    DEF Sound, FoundInLog, Working, Offering, DeltaSteps
  <2> QED BY <1>4, <1>5, <1>6, <2>2, <2>4, Writers, WriteSound
<1> QED BY <1>7, <1>8

\* The watermark becomes the slice of a delivery that was applied, or stays.
LEMMA AdvanceSound ==
  ASSUME Typed, Inv, NEW r \in Requests, Advance(r)
  PROVE  Inv' /\ (watermark' # watermark => \E e \in applied : watermark' = slice[e])
<1> DEFINE d == req[r].d
<1>1. /\ hook' = hook /\ scratch' = scratch /\ log' = log /\ slice' = slice
      /\ applied' = applied /\ given' = given /\ req[r].step = "advance"
      /\ watermark' = CopyOf(d) /\ Goto(r, "drop")
  BY DEF Advance, At, there
<1>2. d \in Deliveries /\ d \in applied /\ req[r].op \in {"run", "acknowledge"}
  BY <1>1, Writers DEF Sound, WellFormed
<1>3. watermark' = watermark \/ (watermark' = slice[d] /\ watermark' \subseteq given)
  BY <1>1, <1>2 DEF CopyOf, Inv, ScratchKept
<1>4. Touches(d)
  BY <1>1 DEF Touches
<1>5. ScratchKept' /\ NothingIsSkipped' /\ SettledPullHoldsNothing'
  BY <1>1, <1>3 DEF Inv, ScratchKept, NothingIsSkipped, SettledPullHoldsNothing
<1>6. /\ req'[r].step = "drop" /\ req'[r].op = req[r].op /\ req'[r].d = d
      /\ req'[r].todo = req[r].todo
  BY <1>1, Writers
<1>7. Sound(req[r])'
  BY <1>1, <1>2, <1>6, Writers DEF Sound, FoundInLog, Working, Offering, DeltaSteps
<1>8. Inv'
  BY <1>4, <1>5, <1>6, <1>7, Writers, WriteSound
<1> QED BY <1>2, <1>3, <1>8

LEMMA DropSound ==
  ASSUME Typed, Inv, NEW r \in Requests, Drop(r)
  PROVE  Inv'
<1> DEFINE d == req[r].d
<1>1. /\ hook' = hook /\ watermark' = watermark /\ log' = log /\ slice' = slice
      /\ applied' = applied /\ given' = given /\ req[r].step = "drop"
      /\ scratch' = [scratch EXCEPT ![d] = Gone]
      /\ Onwards(r, AfterDrop(req[r].op))
  BY DEF Drop, At, there
<1>2. d \in Deliveries /\ req[r].op \in {"run", "acknowledge", "reject", "sweep"}
  BY <1>1, Writers DEF WellFormed
<1>3. scratch'[d] = Gone /\ \A e \in Deliveries : scratch'[e] \in {scratch[e], Gone}
  BY <1>1, <1>2 DEF Typed, TypeOK
<1>4. Touches(d)
  BY <1>1, <1>3 DEF Touches
<1>5. ScratchKept' /\ NothingIsSkipped' /\ SettledPullHoldsNothing'
  BY <1>1, <1>3 DEF Inv, ScratchKept, NothingIsSkipped, SettledPullHoldsNothing
<1>6. CASE req[r].op = "run"
  <2>1. Done(r)
    BY <1>1, <1>6 DEF Onwards, AfterDrop
  <2> QED BY <2>1, <1>4, <1>5, Writers, WriteSound
<1>7. CASE req[r].op # "run"
  <2>1. Goto(r, IF req[r].op = "acknowledge" THEN "settle" ELSE "fail")
    BY <1>1, <1>2, <1>7 DEF Onwards, AfterDrop
  <2>2. /\ req'[r].step = IF req[r].op = "acknowledge" THEN "settle" ELSE "fail"
        /\ req'[r].op = req[r].op /\ req'[r].d = d /\ req'[r].todo = req[r].todo
    BY <2>1, Writers
  <2>3. Sound(req[r])'
    BY <1>1, <1>2, <1>3, <1>7, <2>2, Writers
    DEF Sound, FoundInLog, Working, Offering, DeltaSteps
  <2> QED BY <1>4, <1>5, <1>7, <2>2, <2>3, Writers, WriteSound
<1> QED BY <1>6, <1>7

LEMMA ReclaimSound ==
  ASSUME Typed, Inv, NEW r \in Requests, Reclaim(r)
  PROVE  Inv'
<1>1. /\ hook' = hook /\ watermark' = watermark /\ log' = log /\ slice' = slice
      /\ applied' = applied /\ given' = given /\ req[r].step = "reclaim"
  BY DEF Reclaim, At, there
<1>2. \A e \in Deliveries : scratch'[e] \in {scratch[e], Gone}
  BY DEF Reclaim, Typed, TypeOK
<1>3. Touches(req[r].d) /\ Touches(NoDelivery)
  BY <1>1, <1>2 DEF Touches
<1>4. ScratchKept' /\ NothingIsSkipped' /\ SettledPullHoldsNothing'
  BY <1>1, <1>2 DEF Inv, ScratchKept, NothingIsSkipped, SettledPullHoldsNothing
<1>5. \A q \in Requests \ {r} : req'[q] = req[q]
  BY DEF Reclaim, Done, Typed, TypeOK
<1>6. CASE req[r].todo = {}
  <2>1. req'[r] = NoRequest
    BY <1>6 DEF Reclaim, Done, Typed, TypeOK
  <2> QED BY <1>3, <1>4, <1>5, <2>1, IdleSound, WriteSound
<1>7. CASE req[r].todo # {}
  <2>1. PICK e \in req[r].todo : req' = [req EXCEPT ![r].todo = @ \ {e}]
    BY <1>7 DEF Reclaim
  <2>2. req'[r].step = "reclaim" /\ req'[r].op = "sweep"
    BY <1>1, <2>1 DEF Typed, TypeOK, RequestRecords, WellFormed, Unplaced
  <2>3. Sound(req[r])'
    BY <2>2 DEF Sound, FoundInLog, Working, Offering, DeltaSteps
  <2> QED BY <1>3, <1>4, <1>5, <2>2, <2>3, WriteSound
<1> QED BY <1>6, <1>7

\* A run begins with a delivery that nobody works on.
LEMMA StartSound ==
  ASSUME Typed, Inv, NEW r \in Requests, Start(r)
  PROVE  Inv'
<1>1. /\ hook' = hook /\ watermark' = watermark /\ scratch' = scratch /\ log' = log
      /\ applied' = applied /\ given' = given /\ req[r].step = "idle"
      /\ \A e \in Deliveries \ {started'} : slice'[e] = slice[e]
  BY DEF Start, At, store, there, Typed, TypeOK
<1>2. started' \in Deliveries /\ started' \notin 1 .. started
  BY ProjectionAssumption DEF Start, Typed, TypeOK, Deliveries
<1>3. log[started'] = "unrecorded" /\ scratch[started'] = Gone /\ started' \notin applied
  BY <1>2 DEF Typed, NothingEarly, TypeOK
<1>4. \A q \in Requests \ {r} : req'[q] = req[q]
  BY DEF Start, Typed, TypeOK
<1>5. /\ req'[r].op = "run" /\ req'[r].step = "post" /\ req'[r].d = started'
      /\ req'[r].todo = {}
  BY DEF Start, NoRequest, Typed, TypeOK
<1>6. Touches(req[r].d) /\ Touches(NoDelivery)
  BY <1>1 DEF Touches
<1>7. \A q \in Requests \ {r} : Sound(req[q])'
  BY <1>4, <1>6, OthersSound
<1>8. Sound(req[r])'
  BY <1>1, <1>3, <1>5 DEF Sound, FoundInLog, Working, Offering, DeltaSteps
<1>9. RunsApart'
  <2>1. \A q \in Requests : req[q].op = "run" => req[q].d \in 1 .. started
    BY DEF Typed, WellFormed, Unplaced
  <2> QED BY <1>2, <1>4, <1>5, <2>1 DEF Inv, RunsApart
<1>10. ScratchKept' /\ NothingIsSkipped' /\ SettledPullHoldsNothing'
  BY <1>1, <1>3 DEF Inv, ScratchKept, NothingIsSkipped, SettledPullHoldsNothing
<1> QED BY <1>7, <1>8, <1>9, <1>10 DEF Inv

\* Steps of no request.
LEMMA UnrequestedSound ==
  ASSUME Typed, Inv, Reset \/ Pass \/ UNCHANGED vars
  PROVE  Inv'
<1>1. /\ hook' = hook /\ watermark' \in {watermark, {}} /\ scratch' = scratch /\ log' = log
      /\ slice' = slice /\ applied' = applied /\ given' = given /\ req' = req
  BY DEF Reset, Pass, vars, store, there
<1>2. \A r \in Requests : Sound(req[r])'
  BY <1>1 DEF Inv, Sound, FoundInLog
<1> QED
  BY <1>1, <1>2 DEF Inv, RunsApart, ScratchKept, NothingIsSkipped, SettledPullHoldsNothing

LEMMA NextSound == Typed /\ Inv /\ [Next]_vars => Inv'
BY StartSound, PostSound, ComputeSound, EnvelopeSound, RecordSound, HandOverSound,
    SettleSound,
   FailSound, AdvanceSound, DropSound, RequestSound, SweepSound, ReclaimSound, UnrequestedSound
DEF Next

-----------------------------------------------------------------------------
(* What follows.                                                           *)

LEMMA Invariance == Spec => [](Typed /\ Inv)
BY InitTyped, NextTyped, InitSound, NextSound, PTL DEF Spec

\* However runs, acknowledgements, rejections, sweeps and resets interleave, and
\* wherever they die, what the watermark records was given to the target, so the
\* delivery of additions is at-least-once (runner.py:16).
THEOREM DeliveredAtLeastOnce == Spec => []NothingIsSkipped
<1>1. Inv => NothingIsSkipped
  BY DEF Inv
<1> QED BY <1>1, Invariance, PTL

\* A settled pull delivery leaves no scratch graph behind, as its log entry is
\* what is written last (runner.py:288).
THEOREM SettlingComesLast == Spec => []SettledPullHoldsNothing
<1>1. Inv => SettledPullHoldsNothing
  BY DEF Inv
<1> QED BY <1>1, Invariance, PTL

LEMMA OnlyAdvanceMoves ==
  ASSUME Typed, Inv, [Next]_vars, watermark' # watermark
  PROVE  Reset \/ \E r \in Requests : Advance(r)
BY DEF Next, vars, store, Start, Post, Compute, Envelope, Record, Send, Settle, Fail, Drop,
       Collect, CollectAdditions, CollectRetractions, Acknowledge, Reject,
       Sweep, NextAbandoned, Live, Orphans, Reclaim, Die, Pass

\* The watermark only ever moves to the slice of a delivery that the target has
\* applied, or is reset (runner.py:20).
THEOREM WatermarkFollowsTheTarget == Spec => MovesToWhatWasApplied
<1>1. Typed /\ Inv /\ [Next]_vars =>
        [watermark' # watermark => Reset \/ \E d \in applied : watermark' = slice[d]]_vars
  BY OnlyAdvanceMoves, AdvanceSound
<1> QED BY <1>1, Invariance, PTL DEF Spec, MovesToWhatWasApplied

=============================================================================
