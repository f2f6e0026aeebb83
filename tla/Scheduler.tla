------------------------------ MODULE Scheduler ------------------------------
(***************************************************************************)
(* The task scheduler (holonbridge/scheduler): the tick loop, firings      *)
(* asked for by an operator, the gates in front of a firing, its           *)
(* provenance, and the Task objects in memory beside the tasks graph.      *)
(* Workers are coroutines of one process: the loop and the requests.  A    *)
(* step is one request to the store, with the local code up to the next.   *)
(* Every call of fire() in the code has depth 0, so the depth and cycle    *)
(* guards never refuse and are left out.                                   *)
(***************************************************************************)
EXTENDS Integers, Sequences, FiniteSets

CONSTANTS
  Tasks, Order,   \* the temporal tasks, and their ids in order
  Personas,
  PersonaOf,      \* the persona a task names, or NoPersona
  Existing,       \* the sets of tasks there may be at the start
  Able,           \* the tasks that name no persona, or one that has the capability
  Limit,          \* the daily count of each task's and persona's policy
  Dispatches,     \* the tasks whose action is the agent-dispatch job
  Batch,          \* DISPATCH_BATCH
  Interval,       \* interval_seconds, the same for all
  DayLength,
  Workers, Loop,  \* the coroutines; Loop is the one of start()
  Tickers,        \* those that run tick(): the loop, and POST /tick
  Horizon,        \* bound: the clock stops here
  MaxRequests,    \* bound: what operators ask for, restarts included
  NoPersona, NoTask, Unlimited

Subjects == Tasks \cup Personas
Limited  == {s \in Subjects : Limit[s] # Unlimited}
Never    == -1
Uncertain  == -1

ASSUME SchedulerAssumption ==
  /\ Order \in Seq(Tasks)
  /\ \A t \in Tasks : \E i \in DOMAIN Order : Order[i] = t
  /\ \A i, j \in DOMAIN Order : Order[i] = Order[j] => i = j
  /\ PersonaOf \in [Tasks -> Personas \cup {NoPersona}]
  /\ Existing \subseteq SUBSET Tasks
  /\ Able \subseteq Tasks /\ Dispatches \subseteq Tasks
  /\ Limit \in [Subjects -> Nat \cup {Unlimited}]
  /\ Batch \in Nat \ {0} /\ Interval \in Nat \ {0} /\ DayLength \in Nat \ {0}
  /\ Loop \in Tickers /\ Tickers \subseteq Workers
  /\ Horizon \in Nat /\ MaxRequests \in Nat
  /\ NoPersona \notin Subjects /\ NoTask \notin Tasks /\ Unlimited \notin Int
  /\ Tasks \cap Personas = {}

VARIABLES
  clock,
  stored,      \* the tasks graph: whether a node is a task, taskStatus and lastFired
  used,        \* what firings_today() adds up, per limited subject and day
  loaded,      \* the Task objects of each reading of the registry; the last is _tasks
  personas,    \* _personas
  inFlight,    \* _in_flight
  job,         \* what each coroutine is doing
  asked,       \* how much operators have asked for
  done         \* units scheduled firings really used; Uncertain once a firing
               \* was not recorded, or not counted by another one, in time

setup  == <<clock, asked>>
store  == <<stored, used>>
memory == <<loaded, personas, inFlight>>
schedulerVars == <<setup, store, memory, job, done>>

-----------------------------------------------------------------------------
TaskStatuses == {"Active", "Suspended"}
\* "committed" stands for read-only too, "unbilled" for every failure, rejection
\* and quarantine but that of a firing over its daily limit.
Outcomes == {"none", "committed", "deferred", "unbilled", "over limit"}
Sources  == {"scheduled", "manual"}
Times    == 0..Horizon
Day(time) == time \div DayLength
Days     == 0..Day(Horizon)
Objects  == [status : TaskStatuses, last : Times \cup {Never}]
Nodes    == [there : BOOLEAN, status : SUBSET TaskStatuses, last : Times \cup {Never}]
Blank    == [there |-> FALSE, status |-> {}, last |-> Never]
Loads    == UNION {[S -> Objects] : S \in SUBSET Tasks}

Resting == [pc |-> "idle", queue |-> <<>>, load |-> 0, ref |-> 0, task |-> NoTask,
         source |-> "scheduled", firedAt |-> 0, persona |-> NoPersona, left |-> <<>>,
         allowance |-> Unlimited, outcome |-> "none", units |-> 0, status |-> "Active"]
Jobs == [pc : {"idle", "gate", "execute", "record", "touch", "status", "assign",
               "drop", "insert", "tasks", "personas"},
         queue : Seq(Tasks), load : Nat, ref : Times, task : Tasks \cup {NoTask},
         source : Sources, firedAt : Times, persona : Personas \cup {NoPersona},
         left : Seq(Subjects), allowance : Nat \cup {Unlimited},
         outcome : Outcomes, units : Nat, status : TaskStatuses]

SchedulerTypeOK ==
  /\ clock \in Times
  /\ stored \in [Tasks -> Nodes]
  /\ used \in [Limited -> [Days -> Nat]]
  /\ loaded \in Seq(Loads) /\ loaded # <<>>
  /\ personas \subseteq Personas
  /\ inFlight \subseteq Tasks
  /\ job \in [Workers -> Jobs]
  /\ \A w \in Workers : job[w].load \in 0..Len(loaded)
  /\ asked \in 0..MaxRequests
  /\ done \in [Limited -> [Days -> Nat \cup {Uncertain}]]

\* Store.tasks takes the nodes typed as tasks; of several statuses, any.
There == {t \in Tasks : stored[t].there}
Reading(status) == [t \in There |-> [status |-> status[t], last |-> stored[t].last]]

SchedulerInit ==
  /\ clock = 0
  /\ \E S \in Existing :
       stored = [t \in Tasks |->
         IF t \in S THEN [Blank EXCEPT !.there = TRUE, !.status = {"Active"}] ELSE Blank]
  /\ used = [s \in Limited |-> [d \in Days |-> 0]]
  /\ loaded = <<Reading([t \in Tasks |-> "Active"])>>
  /\ personas = Personas
  /\ inFlight = {}
  /\ job = [w \in Workers |-> Resting]
  /\ asked = 0
  /\ done = used

-----------------------------------------------------------------------------
(***************************************************************************)
(* Faulty variants of operators defined below; no action uses them.        *)
(***************************************************************************)
\* A dispatch sends a whole batch, whatever is left of the limits.
WholeBatch(w) == Batch
\* The two limits' remainders are subtracted, not compared.
TakesOff(allowance, remaining) ==
  IF allowance = Unlimited THEN remaining ELSE allowance - remaining
-----------------------------------------------------------------------------
Current == Len(loaded)

Become(w, new) == job' = [job EXCEPT ![w] = new]

Object(load, t) == loaded[load][t]

\* Task.due
Due(load, t, ref) ==
  /\ Object(load, t).status = "Active"
  /\ \/ Object(load, t).last = Never
     \/ ref - Object(load, t).last >= Interval

\* fire() skips a task that is still running, whichever object it is called with.
Busy(load, t) == t \in inFlight

\* The persona a firing runs as: the one the task names, if it was loaded.
Acting(t) == IF PersonaOf[t] \in personas THEN PersonaOf[t] ELSE NoPersona

SubjectsOf(t, persona) == IF persona = NoPersona THEN {t} ELSE {t, persona}

\* The subjects whose policy sets a limit, in the order _gate asks for them.
IfLimited(s) == IF s \in Limited THEN <<s>> ELSE <<>>
ToCount(t)   == IfLimited(t) \o IfLimited(Acting(t))

\* _gate, the part before its first request: status, then capability, then
\* whether there are daily limits to look at.
Gated(j, load, t) ==
  IF Object(load, t).status # "Active" \/ (Acting(t) # NoPersona /\ t \notin Able)
  THEN [j EXCEPT !.pc = "record", !.outcome = "unbilled"]
  ELSE IF j.source = "manual" \/ ToCount(t) = <<>> THEN [j EXCEPT !.pc = "execute"]
  ELSE [j EXCEPT !.pc = "gate", !.left = ToCount(t)]

\* fire() as far as its first request.  A tick with nothing left to look at
\* needs its reference time no more.
Fire(load, t, source, ref, queue) ==
  Gated([Resting EXCEPT !.queue = queue, !.load = load, !.task = t,
                     !.ref = IF queue = <<>> THEN 0 ELSE ref,
                     !.source = source, !.firedAt = clock, !.persona = Acting(t)], load, t)

\* The places in a tick's list at which it can fire: that of a task it has
\* loaded, which is due and not running.
Startable(load, ref, queue) ==
  {i \in DOMAIN queue : /\ queue[i] \in DOMAIN loaded[load]
                        /\ Due(load, queue[i], ref) /\ ~Busy(load, queue[i])}

\* tick() goes on: it fires the next task that is due and not running.
GoOn(w, load, ref, queue) ==
  LET ready == Startable(load, ref, queue) IN
  IF ready = {} THEN Become(w, Resting) /\ UNCHANGED inFlight
  ELSE LET i == CHOOSE i \in ready : \A k \in ready : i <= k
           next == Fire(load, queue[i], "scheduled", ref, SubSeq(queue, i + 1, Len(queue))) IN
       /\ Become(w, next)
       /\ inFlight' = IF next.pc = "record" THEN inFlight ELSE inFlight \cup {queue[i]}

\* What is left of the coroutine once its firing is over.
Finish(w) == GoOn(w, job[w].load, job[w].ref, job[w].queue)

-----------------------------------------------------------------------------
\* The loop, or an operator's request, starts on something.
Begins(w) ==
  /\ job[w].pc = "idle"
  /\ w # Loop => asked < MaxRequests
  /\ asked' = IF w = Loop THEN asked ELSE asked + 1

TickNow(w) ==
  /\ w \in Tickers /\ Begins(w)
  /\ Startable(Current, clock, Order) # {}
  /\ GoOn(w, Current, clock, Order)
  /\ UNCHANGED <<clock, store, loaded, personas, done>>

\* POST /scheduler/task/{id}/fire
FireNow(w) ==
  /\ w # Loop /\ Begins(w)
  /\ \E t \in DOMAIN loaded[Current] :
       LET next == Fire(Current, t, "manual", clock, <<>>) IN
       /\ ~Busy(Current, t)
       /\ Become(w, next)
       /\ inFlight' = IF next.pc = "record" THEN inFlight ELSE inFlight \cup {t}
  /\ UNCHANGED <<clock, store, loaded, personas, done>>

\* A firing that leaves the gates or the action stops being in flight before
\* it is recorded.  Units are read of a committed firing only.
Leave(w, outcome, units) ==
  /\ Become(w, [job[w] EXCEPT !.pc = "record", !.outcome = outcome, !.units = units,
                              !.left = <<>>, !.allowance = Unlimited])
  /\ inFlight' = inFlight \ {job[w].task}

Tighter(allowance, remaining) ==
  IF allowance = Unlimited \/ remaining < allowance THEN remaining ELSE allowance

\* A firing that is to be billed and has no record yet.
Unbooked(w) == job[w].pc = "record" /\ job[w].source = "scheduled" /\ job[w].outcome = "committed"

\* A scheduled firing of another coroutine that has been counted for s and is
\* not recorded yet.
Uncounted(w, s) ==
  \E v \in Workers \ {w} :
    /\ job[v].source = "scheduled" /\ job[v].task # NoTask
    /\ s \in SubjectsOf(job[v].task, job[v].persona)
    /\ \/ job[v].pc = "execute" \/ Unbooked(v)
       \/ job[v].pc = "gate" /\ \A i \in DOMAIN job[v].left : job[v].left[i] # s

\* From here on it is not known what the subjects used on the day of w's firing.
Forget(w, subjects) ==
  [s \in Limited |-> [done[s] EXCEPT ![Day(job[w].firedAt)] =
      IF s \in subjects THEN Uncertain ELSE @]]

\* The next subject's policy is read and its firings of the day are counted.
Exceeds(count, limit) == count >= limit

Count(w) ==
  LET s == Head(job[w].left)
      count == used[s][Day(job[w].firedAt)] IN
  /\ job[w].pc = "gate"
  /\ IF Exceeds(count, Limit[s])
     THEN Leave(w, "over limit", 0)
     ELSE /\ Become(w, [job[w] EXCEPT !.left = Tail(@),
                                      !.pc = IF Tail(job[w].left) = <<>> THEN "execute" ELSE "gate",
                                      !.allowance = Tighter(@, Limit[s] - count)])
          /\ UNCHANGED inFlight
  /\ done' = IF Uncounted(w, s) THEN Forget(w, {s}) ELSE done
  /\ UNCHANGED <<setup, store, loaded, personas>>

\* The policy does not resolve, or a request fails: the firing is refused.
CannotCount(w) ==
  /\ job[w].pc = "gate"
  /\ Leave(w, "unbilled", 0)
  /\ UNCHANGED <<setup, store, loaded, personas, done>>

\* The most calls a dispatch sends.
CallsAllowed(w) ==
  IF job[w].allowance = Unlimited THEN Batch
  ELSE IF job[w].allowance < Batch THEN job[w].allowance ELSE Batch

Amounts(w) == IF job[w].task \in Dispatches THEN 0..CallsAllowed(w) ELSE {1}

Named(t) == SubjectsOf(t, PersonaOf[t])

\* A scheduled firing uses n units.  The persona is not told if it was not loaded.
Spend(w, n) ==
  LET t == job[w].task
      told == SubjectsOf(t, job[w].persona)
      d == Day(job[w].firedAt) IN
  IF job[w].source = "manual" THEN UNCHANGED done
  ELSE done' = [s \in Limited |-> [Forget(w, Named(t) \ told)[s] EXCEPT ![d] =
                  IF s \in told /\ @ # Uncertain THEN @ + n ELSE @]]

\* The units the record will carry.
Units(w, n) ==
  IF job[w].task \notin Dispatches THEN 1
  ELSE IF job[w].source = "scheduled" THEN n ELSE 0

\* _execute: the action runs and reports success.
RunTask(w) ==
  /\ job[w].pc = "execute"
  /\ \E n \in Amounts(w) :
       /\ Leave(w, "committed", Units(w, n))
       /\ Spend(w, n)
  /\ UNCHANGED <<setup, store, loaded, personas>>

\* Nothing was attempted, or nothing came of it.
Decline(w) ==
  /\ job[w].pc = "execute"
  /\ \E outcome \in {"deferred", "unbilled"} : Leave(w, outcome, 0)
  /\ UNCHANGED <<setup, store, loaded, personas, done>>

\* The action took effect, or part of it did, before a request failed.
FailLate(w) ==
  /\ job[w].pc = "execute"
  /\ done' = IF job[w].source = "manual" THEN done ELSE Forget(w, Named(job[w].task))
  /\ Leave(w, "unbilled", 0)
  /\ UNCHANGED <<setup, store, loaded, personas>>

-----------------------------------------------------------------------------
Billed(w) == job[w].outcome = "committed"

\* BILLABLE_OUTCOMES, and those that touch_last_fired.
RecordFiring(w) ==
  LET d == Day(job[w].firedAt)
      subjects == SubjectsOf(job[w].task, job[w].persona) IN
  /\ job[w].pc = "record"
  /\ used' = [s \in Limited |-> [used[s] EXCEPT ![d] =
                IF Billed(w) /\ s \in subjects THEN @ + job[w].units ELSE @]]
  /\ IF job[w].outcome \in {"committed", "deferred"}
     THEN /\ Become(w, [job[w] EXCEPT !.pc = "touch", !.outcome = "none", !.units = 0])
          /\ UNCHANGED inFlight
     ELSE Finish(w)
  /\ UNCHANGED <<setup, stored, loaded, personas, done>>

\* touch_last_fired: the tasks graph, and the object this firing began with.
Touch(w) ==
  LET t == job[w].task IN
  /\ job[w].pc = "touch"
  /\ stored' = [stored EXCEPT ![t].last = job[w].firedAt]
  /\ loaded' = [loaded EXCEPT ![job[w].load][t].last = job[w].firedAt]
  /\ Finish(w)
  /\ UNCHANGED <<setup, used, personas, done>>

\* Either of the two cannot be written; that is logged and no more.
CannotRecord(w) ==
  /\ job[w].pc \in {"record", "touch"}
  /\ Finish(w)
  /\ done' = IF Unbooked(w) THEN Forget(w, Named(job[w].task)) ELSE done
  /\ UNCHANGED <<setup, store, loaded, personas>>

-----------------------------------------------------------------------------
\* POST /scheduler/task/{id}/status: the object is looked up, the graph is
\* written, and the object is changed when the answer is there.
StartStatus(w) ==
  /\ w # Loop /\ Begins(w)
  /\ \E t \in DOMAIN loaded[Current], status \in TaskStatuses :
       Become(w, [Resting EXCEPT !.pc = "status", !.load = Current, !.task = t, !.status = status])
  /\ UNCHANGED <<clock, store, memory, done>>

WriteStatus(w) ==
  /\ job[w].pc = "status"
  /\ stored' = [stored EXCEPT ![job[w].task].status = {job[w].status}]
  /\ Become(w, [job[w] EXCEPT !.pc = "assign"])
  /\ UNCHANGED <<setup, used, memory, done>>

AssignStatus(w) ==
  /\ job[w].pc = "assign"
  /\ loaded' = [loaded EXCEPT ![job[w].load][job[w].task].status = job[w].status]
  /\ Become(w, Resting)
  /\ UNCHANGED <<setup, store, personas, inFlight, done>>

\* save_task in POST /task: what there is of the node is deleted, then the task
\* is inserted, in a second request.  A status or a last firing written between
\* them stays.  A task is created again when the registry in memory lacks it.
StartCreate(w) ==
  /\ w # Loop /\ Begins(w)
  /\ \E t \in Tasks \ DOMAIN loaded[Current], status \in TaskStatuses :
       Become(w, [Resting EXCEPT !.pc = "drop", !.task = t, !.status = status])
  /\ UNCHANGED <<clock, store, memory, done>>

DropTask(w) ==
  /\ job[w].pc = "drop"
  /\ stored' = [stored EXCEPT ![job[w].task] = Blank]
  /\ Become(w, [job[w] EXCEPT !.pc = "insert"])
  /\ UNCHANGED <<setup, used, memory, done>>

InsertTask(w) ==
  LET t == job[w].task IN
  /\ job[w].pc = "insert"
  /\ stored' = [stored EXCEPT ![t].there = TRUE, ![t].status = @ \cup {job[w].status}]
  /\ Become(w, [Resting EXCEPT !.pc = "tasks"])
  /\ UNCHANGED <<setup, used, memory, done>>

\* Store.tasks answers with what is there, or with nothing if it cannot ask.
Readings ==
  {[t \in {} |-> Uncertain]}
    \cup {Reading(status) : status \in {s \in [Tasks -> TaskStatuses] :
                                         \A t \in There : s[t] \in stored[t].status}}

\* reload(), its first request, on demand or after a creation; then its second.
ReadTasks(w) ==
  /\ \E tasks \in Readings : loaded' = Append(loaded, tasks)
  /\ Become(w, [Resting EXCEPT !.pc = "personas"])
  /\ UNCHANGED <<clock, store, personas, inFlight, done>>

Reload(w) == w # Loop /\ Begins(w) /\ ReadTasks(w)

ReloadCreated(w) == job[w].pc = "tasks" /\ ReadTasks(w) /\ UNCHANGED asked

ReloadPersonas(w) ==
  /\ job[w].pc = "personas"
  /\ personas' \in {Personas, {}}
  /\ Become(w, Resting)
  /\ UNCHANGED <<setup, store, loaded, inFlight, done>>

\* A request about a task fails and is answered with an error.
Abort(w) ==
  /\ job[w].pc \in {"status", "assign", "drop", "insert"}
  /\ Become(w, Resting)
  /\ UNCHANGED <<setup, store, memory, done>>

\* The process dies, and start() reads the registry.
Restart ==
  /\ asked < MaxRequests
  /\ asked' = asked + 1
  /\ \E tasks \in Readings : loaded' = <<tasks>>
  /\ personas' \in {Personas, {}}
  /\ inFlight' = {}
  /\ job' = [w \in Workers |-> Resting]
  /\ done' = [s \in Limited |-> [d \in Days |->
       IF \E w \in Workers : Unbooked(w) /\ s \in Named(job[w].task) /\ d = Day(job[w].firedAt)
       THEN Uncertain ELSE done[s][d]]]
  /\ UNCHANGED <<clock, store>>

Pass ==
  /\ clock < Horizon
  /\ clock' = clock + 1
  /\ UNCHANGED <<asked, store, memory, job, done>>

Proceed(w) ==
  \/ Count(w) \/ CannotCount(w) \/ RunTask(w) \/ Decline(w) \/ FailLate(w)
  \/ RecordFiring(w) \/ Touch(w) \/ CannotRecord(w)

SchedulerNext ==
  \/ \E w \in Workers :
       \/ TickNow(w) \/ FireNow(w) \/ Proceed(w)
       \/ StartStatus(w) \/ WriteStatus(w) \/ AssignStatus(w) \/ Abort(w)
       \/ StartCreate(w) \/ DropTask(w) \/ InsertTask(w) \/ ReloadCreated(w)
       \/ Reload(w) \/ ReloadPersonas(w)
  \/ Restart \/ Pass

SchedulerSpec == SchedulerInit /\ [][SchedulerNext]_schedulerVars

-----------------------------------------------------------------------------
Running(w) == job[w].pc \in {"gate", "execute"}

\* No two firings of one task run at the same time, and _in_flight holds the
\* tasks that are running and no other: one left behind would never fire again.
InFlightIsRunning ==
  /\ inFlight = {job[w].task : w \in {v \in Workers : Running(v)}}
  /\ \A v, w \in Workers : Running(v) /\ Running(w) /\ job[v].task = job[w].task => v = w

\* Scheduled firings stay within the daily limit of their task and of its
\* persona, over restarts, reloads, manual runs and concurrent passes, unless
\* one of them could not be counted in time.
WithinDailyLimit == \A s \in Limited, d \in Days : done[s][d] <= Limit[s]

\* One firing of a task runs at a time, and no more is done in a day than its
\* limit and its persona's allow.
FiringsAreBounded == InFlightIsRunning /\ WithinDailyLimit
=============================================================================
