# Verification of the holon bridge

The bridge (`src/holonbridge/`) is an asyncio service in front of a SPARQL store (Fuseki), and the MCP connector
(`src/holonbridge_mcp/`) a second service in front of the bridge. The bridge keeps almost everything it knows in
named graphs of the store, and each request it makes to the store is a transaction of its own: there are no
transactions over several requests. What makes it hard is therefore the same everywhere: a handler reads, decides
and writes in separate requests, other handlers run in between, and it may be cut off at any `await` by an error,
a timeout (after which the store may still run the update) or the end of the process. The modules here model those
handlers step by step, check them with TLC, and prove part of the results for every value of the constants with
TLAPS.

## 1. Inventory

### Components modelled

| Component | State it keeps | Operations | Hard behaviours | What makes it correct |
|---|---|---|---|---|
| Sequence minting (`sequence.py`) | counter value and token, one record per number | `mint` | two calls read one value; lost and late updates; bounded retries | numbers are distinct, and recorded before they are answered |
| Fluent transitions and gate (`fluent.py`) | scene (current value, assertion, list items), event ledger | `update_fluent` | optimistic guard by value; validation on copies that go stale; retry after an overtaken win | scene = ledger's last word; no update lost or applied twice; one live assertion; gated values were accepted |
| Agent calls (`agents/`) | call ledger with `callStatus`; the process's write lock | request, trigger's call, approve, reject, retry, claim, send, settle, dispatch | crashes between claim and settlement; late replies; endpoint changed while queued | one send per approval; review respected; the status diagram; the queue drains |
| Triggers and candidates (`triggers.py`) | registry, firing ledger, candidates, cached verdicts on definers | evaluate, register, arm, suspend, delete, approve, reject | ledger asked, action taken and firing recorded in separate requests; cached verdicts | a rising edge acts once unless evaluations overlap; a definer's lost right stops the trigger; Approved means merged |
| Named rules and graph operations (`named_rules.py`) | registry and its cache, scratch graphs, target graphs, `supersededBy` annotations | run, run all, list, reload, graph operation | scratch and target in several requests; compare-and-set per pair | a Replace target is one whole output; one current value per pair |
| Named queries, cache, toolsets, personas, reads (`named_queries.py`, `cache.py`, `toolset.py`, `acl.authorize_query`) | registry, cache, persona switches and their file | list, show, run, register, delete, reload, switch, read | a load overtaken by an invalidation; reach and grants asked one by one | cache = registry where it can be; what ran, and every graph a query names, was open to its caller |
| Pipelines, messages, ingest (`pipeline.py`, `messages.py`) | manifest, index entry, message per run | register, drop, run, scheduled run, ingest | background task; message saved as a delete and an insert; cycles | stages in dependency order; the message tells the outcome; index = manifest; runs end |
| Access control, delegation, administration, claim (`acl.py`, `delegation.py`, `routes/identity_admin.py`, `claim.py`) | persons, roles, write grants, delegations, homes, impersonations | create, grant, revoke, deactivate, reactivate, assign, act as, delegate, claim, write | every check is one request, every change another | a dataset with an owner keeps one; writes and promotions were allowed; deactivation strips |
| Scheduler (`scheduler/`) | tasks and provenance in the store; task objects, personas, in-flight set in memory | tick, fire now, tick now, create, set status, reload, restart | loop and operator at once; reload under a firing; provenance lost | in-flight set exact; daily limits |
| Projection hooks (`projection/`) | watermark graph, scratch graph per delivery, delivery log | run, collect, acknowledge, reject, sweep, reset | all of these at once; lost answers; empty slices; sweeping something alive | watermark = a slice the target applied; at-least-once |
| MCP connector (`github_oauth.py`, `remote.py`, `session.py`) | handshakes, refresh-token families, access tokens, SSE connections, per-caller dataset and bank | sign in, refresh, call, switch, clear, restart | refresh retried after a lost answer; choices restored at restart | a removed login stops; a replay ends its family; a caller's choice is kept |

### How components interact

They meet in the store's graphs and in a few calls. The scheduler runs the agent dispatcher, the projection sweep,
the trigger sweep and pipelines (`RunTask` in `Scheduler` stands for the work and how many units it uses;
`Dispatch` in `AgentCalls`, `Sweep` in `Triggers` and in `Projection` and `StartScheduled` in `Pipelines` are that
work). A committed transition, and every other write, calls the post-write hook that evaluates triggers (`Write` in
`Triggers`); a trigger runs a rule (`Execute`, whose requests are `Rules`), stages a candidate (`Stage`), or
requests an agent call (`PlaceCall`; from there `FireAgent` in `AgentCalls`). Pipelines and agents stage candidates
too (`ProposeElsewhere`). Rights are granted in `Access`, and appear in `Triggers` and `Queries` as facts that
change at any moment. The write lock (`write_lock.py`) is shared by the writers of a dataset that take it, within
one process: moves of agent calls (`AgentCalls`) and loads of Turtle (a step each in `Triggers` and `Pipelines`).

### Components not modelled

`PROJECT.json` lists them with reasons. In short: the audit log and the event stream append single entries; dataset
creation is one call to Fuseki's administration followed by uploads, and provisioning edits a file Fuseki reads
when it restarts; a restore uploads graph after graph and, when Fuseki answers with an error, removes what it wrote
(`snapshot.py:341-350`), which a timeout skips; holon projections,
DataBooks, parameters and the navigator render or parse; SHACL is a library whose verdict is an input of the
models; the agent registry is one update per edit, and what calls see of it is in `AgentCalls`.

## 2. Plan

| Order | Module | Composes or refines | State |
|---|---|---|---|
| 1 | `Sequence`, abstract `IdSource` | `Sequence` implements `IdSource` | checked and proved |
| 2 | `Fluent`, abstract `FluentRegister` | `Fluent` implements `FluentRegister`; it mints its assertion ids as `IdSource` promises | checked and proved |
| 3 | `AgentCalls` | with the write lock and the dispatcher | checked, also liveness; safety proved |
| 4 | `Scheduler` | | checked; its properties proved |
| 5 | `Projection` | with an external target | checked; its properties proved |
| 6 | `Triggers` | with candidates, definers' rights, open agent calls | checked; its properties proved |
| 7 | `Rules` | with the registry cache and graph operations | checked; its properties proved |
| 8 | `Access` | with delegation, claim and bootstrap | checked; its properties proved |
| 9 | `Queries` | registry, cache, toolsets, personas, the read gate | checked; its properties proved |
| 10 | `Pipelines` | with messages and ingest | checked, also liveness; safety proved |
| 11 | `Connector` | OAuth, gate and sessions, two transports | checked; its properties proved |

Every safety property that a run checks is stated by a theorem. What stays with TLC is said in section 7.

Every module is written to be proved about: parameters are CONSTANTS with named assumptions, there is one action
per operation or request, and no RECURSIVE operator.

## 3. Conventions

* A step is one request to the store, to an agent or to a target: what the code does between two `await`s is
  atomic, as it is in one event loop; two requests are two steps. Where two requests are one step the module
  says so.
* `Abort`, `Die`, `Crash`, `Restart` and the like end operations at any request. `TimeOut` or `GiveUp` followed by
  `Land` or `LateUpdate` is an update that the store runs after its client has given up: `FusekiClient._post` raises
  on a timeout and nothing withdraws the request. It is in `Sequence`, `Fluent`, `AgentCalls` and `Rules`, whose
  properties such an update could break; in the others an update whose answer is lost has been run or has not.
* Identifiers the code draws at random (uuids) are distinct by construction.
* Faulty variants of a module's operators stand beside them and no action uses them: each is a bug this code
  could have had, and replacing the operator by it must make the named property fail (`mutants` in
  `PROJECT.json`).
* `events`, `happened` and `asked` count what the environment does (requests begun, failures, changes by others, restarts), up
  to a bound; the steps of what was begun are never bounded. In these modules TLC explores every interleaving of
  the steps that up to that many events lead to. Because the system may do nothing more once the bound is reached,
  those runs do not check for deadlock.
* Components of a task or request whose only readers are the properties are named in a comment where they are
  introduced (`ever`, `lent`, `seen`, `missed`, `wrote`, `hit`, `raced` and so on); no guard depends on them.

## 4. The modules and their runs

### Sequence, IdSource

`Sequence` is `mint()`: `Read`, the guarded UPDATE (`Update`, with `GuardHolds` its FILTER), the read-back of
value and token (`Confirm` or `Retry`), the record, the answer. `IdSource` is what a caller relies on: each
answered call has a number nobody else was given.

Run `sequence`: three calls with two attempts. Three is the least number for which a call can be overtaken
between its update and its read-back while a third one starts from the new value; two attempts let a call both
retry and give up. It shows that numbers are distinct, that each answered number has its record (also when an
update lands late or a call dies between update and record), and that `Sequence` implements `IdSource`. One mutant
is the bug the code had before it compared the token.

Not covered: two sequences that callers give one prefix build the same identifiers from different counters
(`sequence.py:144`); the code does not promise otherwise. `read_sequence` lists what records there are.

### Fluent, FluentRegister

`update_fluent` in the modes for numbers, single values and lists: the current state is read, an id minted, the
change planned, tried on copies of scene and events when the dataset is gated, committed as one guarded UPDATE
(`Commit`, which may also land late; `Transition` is its effect on scene and ledger at once), and confirmed by
looking for the call's own assertion. Date accumulators behave as numeric ones. Left out: times of assertions (a
removal begun before the insertion it follows carries the earlier time, and a gated dataset then refuses it,
`fluent.py:503`), and the triggers that run after a commit.

`FluentRegister` is what callers are promised: one register, of a value or of list items, on which a call takes effect
at most once, at one moment between its beginning and its answer, and on what the register holds at that moment. An
answered call has taken effect, one turned away never does, and one that failed may have done either. `Fluent`
implements it with the scene as the register and, as the moment, that of the call's entry in the ledger.

Run `fluent`: three calls, alike and symmetric, two attempts, each mode, gated and not, a shapes graph that refuses one
value, a fluent never set or set once. Calls act as one register would (`ActsAsRegister`). Scene and ledger agree at every moment, no update is lost, a call applies at most
once and answers truthfully (`LedgerAccounts`). Supersession and gate are sound unless a value recurs
(`SoundUnlessValueRecurs`); the proviso is needed, see section 6.

### AgentCalls

Workers are coroutines of one process. `RequestAgentCall` and `FireAgent` begin a call (`CountOpen`, `Vet`,
`Assemble`, `Put`); `ApproveAgentCall`, `RejectAgentCall`, `RetryAgentCall`, the claim and its failure are
`_transition`, the lock held from `Check` to `Write`; `Audit .. Settle` is `send_call`; `Dispatch`, `MaySend`,
`MayNotSend`, `CannotTell` are the maintenance job, scheduled or on demand. `Crash` ends all workers and the lock,
and leaves the ledger. `timely` says whether replies come within timeout and grace: `STALE_SENDING_GRACE_SECONDS`
is the code's own assumption, and the properties that need it say so. Whether an endpoint is Active is looked at by
request and dispatch, and not by an approval or a retry; it is a free choice where it is looked at.

* Run `agent_calls`: three workers, one call, two approvals. Three workers are a sender, one who presumes it
  lost, and the next sender. With any timing a call is sent at most once per approval and never without the
  person its endpoint asked for; with timely replies one worker at a time sends (`SendsAreSafe`), and every status
  change is an arrow of `agents/model.py` (`StatusFollowsDiagram`).
* Run `agent_dispatch` (liveness): two calls that may both be Approved, one worker, a batch of two, no cap; about
  the requester of one of them (`Doubtful`) the store may never answer. `QueueDrains`: every other Approved call is
  eventually taken, also one that is queued behind the doubtful one. Fairness: a coroutine whose request is answered
  goes on (WF); the scheduler starts the dispatch job again and again, interrupted by other work (SF); the lock is
  first come first served and the store does not refuse the same request for ever (SF on `Check` and `Write`, and,
  but for the doubtful calls, on the answer whether a call may be sent). Of a doubtful call only this is assumed:
  with another one behind it in the batch, the question ends one way or another, and the job does not die there each
  time. The property asks for fewer doubtful calls than a batch has places. With as many, the batch is taken up by
  them for ever, because `dispatch_approved` takes the oldest and leaves an undecided one where it was
  (`service.py:659`): the starvation is the code's, and the property stops short of it.

Not covered: `AGENT_MAX_OPEN_CALLS` is counted before the call is put, so concurrent requests overshoot it, and a
retry does not count at all (`service.py:266`); a candidate is staged before its call is settled, so a retry
after a failed settlement stages another (`service.py:590`).

### Triggers

A request writes domain data or sweeps, and then evaluates: `Load` the registry, per trigger `RunCondition` (or
`LeaveAlone`), re-arm (`ReadLive`, `Clear`), and per focus `Ask` the ledger, `Definer` for the verdict on whoever
armed the trigger, `Propose`, `CallAgent` or `Execute`, `Stage` or `PlaceCall`, and `Record`. Reviews are
`BeginReview`, `Merge`, `Approve`, `Reject`; `Approve` follows the evaluation that the merge sets off. What triggers
watch is not modelled, so an evaluation may look at any part of the active ones. A rule's run is one step here.

Run `triggers`: one trigger, one focus, two requests, any active definition at first, a definer whose right to stage
comes and goes, two firings and two candidates, empty or not, four events. Two requests, alike and symmetric, are
an evaluation that overlaps another one, or a review or a registration that does, or two of those. `DoubleFiringNeedsOverlap`: of two live firings of one focus the later
asked the ledger before the earlier was recorded, so a crash or a failed record alone never duplicates a recorded
firing. `RevokedDefinerStops`: whoever is past the decision to fire was able to do just that less than `TTL` before,
whatever was registered or re-armed since. `ApprovedIsMerged`: no Approved candidate whose graph lacks it.

### Rules

A request resolves the registry (`Hit`, or `Load` and `Fill`, which caches what was read before a push it did not
see), plans the runs of the Active rules in reach in order, and executes each: `Derive` into a scratch graph, then
`Append0`, `Replace`, `SyncDelete` and `SyncInsert`, or per pair `ReadLive`, `Supersede`, `Confirm`; `Drop` in any
case. What a CONSTRUCT derives is any of `Outputs`. Every update may be carried out with its answer lost, and every
request may fail. An update may also time out (`GiveUp`): the run goes on to drop its scratch graph, and the store may
run the update at any later moment (`Land`), out of the scratch graph as it then is or out of none, or, of Supersede,
under its guard (`LandGuarded`). Graph operations and pushes happen beside the runs.

Run `rules`: two requests, two rules, two graphs, one pair with two values, two attempts, three events; rules that
supersede or replace, or are redefined to Sync, asked for as they are or to append or supersede on the other graph. `WholeOutput`: a graph that only Replace
runs have written is one whole output, or empty because the last to write it was an update that landed when its
scratch graph was gone (`blanked`, section 6). It is never a mixture of two outputs or a part of one. `AtMostOneCurrent`: in graphs only Supersede has written a pair has at most
one current value. Both are about graphs written in one mode: with other writers neither is promised. The two
readings of `_apply_supersede` name `hb:` without declaring it (`named_rules.py:636` and `:693`, the update at
`:679` does declare it); the module describes the loop on a server that knows the prefix. On one that does not,
every Supersede run fails (`Fails`).

### Queries

`Look` starts a listing, a display or a run: `ReadCache`, or `LoadBodies`, `LoadParams`, `Keep`; then
`AskRestricted` and `AskInset` decide reach under the persona the caller has switched to, and `Show` or `Run`
follows. `Register` and `Delete` write the registry and tell the cache (`Write`, `Forget`); `Push` is a direct write
that tells nobody. `Select` and `GetGraph` go through `authorize_query`, graph by graph (`AskOpen`, `AskAdmin`,
`AskDenied`, `AskGranted`, and for a delegation the requests of `find_delegation`: `AskLent` for the candidates, and of
each `AskRevoked`, `AskPerson`, `AskInactive`, `AskCovers`), and then to the store (`Fetch`), with the graph field of
the request as default graph (`Touched`). Which IRIs are private spaces is as in `private_space_owner`; a delegation
covers the one space of its delegator, which stands for the graphs it lists. `Switch` and `ClearPersona` change the persona and its file. All
facts the store holds of people and tools may change at any step (`Change`).

Run `queries`: two requests by two persons, one id in either vocabulary, two delegations from one person to the other,
three events; requests and versions are symmetric. One delegation is current at first and the other can become so, so
that the second is asked about when the first fails, and each can be withdrawn half way through its questions. `CacheAgrees`: what is cached
is what is registered, except where the code knowingly lets it be stale: a load that failed or was overtaken by a
change, a direct write, a registration whose answer was lost; `cache.ok` marks those. `RunsWereReachable` and
`ReadsWereAllowed`: what is run, and every graph a query names, was open to its caller at some moment of the request,
each fact taken by itself; for a lent space all five facts are of one delegation. The graph field is left out of that
by name, since nothing checks it (section 6). Folded away: the grants a registrant needs (`Access`), `HOLONBRIDGE_PERSONA`, parameter values. Deleting a
query uses the definition the cache gave; a registration removes the parameter nodes by a link it has just deleted,
so old ones stay behind (`routes/named_queries.py:487-492`), which nothing reads.

### Pipelines

One pipeline id. `RegisterPipeline` writes the manifest graph (`PutManifest`), deletes the index entry and writes it
(`Unlist`, `List`); `DropPipeline` deletes both (`DropManifest`, `Forget`). A run saves its message (each `Save` is a
`DeleteMessage` and an `InsertMessage`), loads manifest and rules, and takes the stages in the order of
`topological_order` (`Order`, a recursive function over what is `Ready`), each ending as its kind allows
(`Outcomes`); `StartScheduled` is the same without a message, `StartIngest` a load with one. `Restart` ends every
background task.

Run `pipelines`: two runs and two administrators, three manifests (a diamond with a prompt, one that validates and
hands over and depends on a stage there is not, and a cycle), three events. `MessageTells`: stages come after what
they depend on, once each; a prompt is given only results of its own dependencies; a message exists from its first
save on, but for a save in progress or cut short; Completed means every stage was taken and none failed; and once
the run is over the message tells its outcome, unless a restart ended it or an ingest met an error that its handler
does not catch (`Escapes`: a timeout, a lost connection or a DataBook that is not YAML, while landing the push or
loading the manifest), which leaves exactly "Running". `IndexAgrees`: index and manifest agree unless a change was cut
short or two overlapped; an update of such a change that times out and lands after a later one is not modelled. `RunsEnd` (liveness): every
run ends. Fairness: the event loop gives a task that can go on its turn and a request is answered or times out (WF
on the steps of each run).

### Access

A request is a list of questions (`Plan`, one to the store each) and an update (`commit`). `Check` asks those that
let it go on or refuse it; `Override` settles an impersonation, `OwnerCheck`, `ReadRoles`, `ReadGrants`, `AskAdmin`
and `AskGranted` are questions with more than two outcomes. Then one action per handler (`CreatePerson`, `Grant`,
`RevokeRole`, `RevokeWrite`, `Deactivate`, `Reactivate`, `AssignPersona`, `ActAs`, `Cease`, `Delegate`,
`Undelegate`, `Put`, `Claim`). `Bootstrap` is the script beside the bridge.

Run `access`: three persons, two requests at a time, three events; a dataset with two owners, with two admins and no
owner, or that nobody has claimed. Three persons are two rulers and one who has only a grant; two requests are a
check and the change that invalidates it. `SomebodyRules`: the last owner or ruler goes only by two removals that
overlapped. `DeactivationStrips`: what a deactivated person still holds was granted while the deactivation ran, and
every delegation from or to them is over. `WritesWereAllowed` and `OwnersDecide`: a write, and a change of who
rules, was allowed to its caller at some moment of the request.

Bounds of the model: each person has one private graph and one grant of each kind on it; one delegation per pair;
persons are never deleted (the code does not either); a caller who is inactive is refused before anything happens,
so such requests are not started; inactive persons' roles count as remaining, as they do in the code, so that a
deactivation that overlaps a promotion can leave an inactive owner.

### Scheduler

The loop, `POST /tick`, a manual run, the creation of a task, status changes, reload (which replaces the task
objects, then the personas) and restart. Firings hold the object they were started with; `loaded` are the objects
the process has in memory, reading by reading, `stored` what the store has. `Fire` is up to the in-flight entry,
`Gated .. Count` the gates in the code's order, `RunTask` the action with the units it uses, `RecordFiring` and
`Touch` the provenance. `save_task` deletes the node and inserts the task in a second request (`DropTask`, `InsertTask`): a
death in between loses it, and a creation after a failed reading may replace a task that exists.

Run `scheduler`: two tasks that share a persona with a limit, one of them a dispatch of up to two units, the other still
to be created; the loop and an administrator; one day with two moments at which tasks come due; two
requests or restarts. `FiringsAreBounded`: a task is in flight exactly while one firing of it runs, also when it
fails in any gate; and scheduled units of a day stay within the limit for every subject all of whose firings were
recorded before others were counted. Nothing but the gates bounds how many units are used: task `a` may fire once a
day, the persona twice in all, and a dispatch takes what the tightest remainder leaves. A firing whose record was lost
puts its subjects outside the property (`scheduler/runner.py:294`), so that hazard has no property.

### Projection

One hook. `Start .. Envelope` is `run()` up to the decision; the slice is chosen freely at `Start`, because the
graph it reads may be anything by then; the four queries of the difference are four steps (`Compute`). Then an
empty envelope is settled, a pull delivery recorded, a webhook sent. Settling is shared by the operations, each
in its own order (`AfterDrop`, `AfterSettle`, `AfterFail`): a run settles, advances, drops; an acknowledgement
advances, drops, settles; a rejection and the sweep drop and settle as failed. `Collect` computes the envelope
again from what is there at that moment, both parts in every change mode, as `envelope_for` does. The target is
external: it applies each envelope it gets, acknowledges only what it applied, and rejects only what it did
not. `COPY SILENT` from a graph that does not exist is taken to succeed without effect, and
`KeepsEmptyGraphs` says whether a graph with no triples exists.

Run `projection`: two triples, two deliveries, two requests at a time, each of which may die; webhooks of
three modes and a pull hook. Two requests are enough for a run against a settlement, for two settlements of
one delivery, and for a sweep against either; two deliveries for one overtaking the other. Whatever happens,
the watermark only becomes the slice of a delivery the target applied (`MovesToWhatWasApplied`), and every triple
in it was given to the target (`NothingIsSkipped`, at-least-once). The configuration uses symmetry of triples and
of requests; no definition distinguishes them and only safety is checked.

Not covered: with more than 500 deliveries pending those beyond the limit look like orphans to the sweep
(`projection/store.py:328`); overlapping runs hand out one sequence number twice (`:143`), which nothing in the
bridge reads; deleting a hook leaves its pending deliveries, and acknowledging one later recreates the watermark
(`:153`).

### Connector

`Authorize`, `Callback`, `IssueCode`, `TokenGrant` sign a client in; `Refresh` rotates the token, possibly presenting
a spent one because the last answer was lost, and possibly one of another client, which is refused before anything
else is looked at (`Rotated`). A call (`Begin`) runs as the identity its request proves on HTTP, and
as whoever opened the connection on SSE; `Send`, `Clear` and `Checked` are tool calls and the two tools that choose.
`TimeOut` and `Tick` let handshakes, registrations and tokens expire; `Restart` may change the allowlist.

Run `connector`: two clients, two logins, one name, two sign-ins of up to three tokens, six events.
`RevokedLoginStops`: a call that runs as the login its own request proved begins less than `AccessTTL` after that
login was last allowed. On SSE a connection keeps its opener's identity, so nothing is claimed of calls by somebody
else through it. `ReplayEndsFamily`: of a family at most one token is good, and none once a spent one was presented
under the `client_id` it was issued to (a spent token that has expired and been purged is only unknown, and under
another `client_id` it is refused and the family goes on, `github_oauth.py:301-304`). A refresh whose answer was lost therefore ends in
a new sign-in. `ChoiceIsKept`: a caller's calls go where that caller last chose, over restarts and whatever others
do, unless the choice could not be written. The symmetry is of clients and of logins.

## 5. What is proved

Eight modules hold the proofs, one for each of five components and three for two components each: `SequenceProofs`
(`Sequence` and `Pipelines`), `TriggersProofs` (`Triggers` and `Scheduler`), `AccessProofs` (`Access` and
`Connector`). As such a module extends both, the definitions of the second have names of their own there
(`SchedulerInit`, `PipelinesNext`, `connectorVars`).

`SequenceProofs` proves, for any set of calls, any number of attempts and any failures:

* `TypeCorrect` and `NumbersStaySound` (`NumbersAreSound`), the invariants the run checks; the second is
  `IdsAreUnique` (no number has two owners) and `RecordsAreComplete` (answers have their records) together;
* `MintingImplementsIdSource` (`IssuesDistinctIds`): every step maps to a step of `IdSource` or to a stutter;
* beyond the run, `ContentionIsNeverImagined` and `CounterOnlyAdvances`: a call gives an attempt up only to an
  advance that another call made of the counter after its read, whose token is still there to see, and no step, late
updates included, takes the counter back.

The only assumption is `AttemptsAssumption`: `attempts` is a positive number. That numbers are unique is not
inductive. The proof adds two facts. `ReadsBehindCounter`: no call has read past the counter, and the attempts
it lost before a read are covered by the value it read; a call about to confirm has the counter past its read.
`OwnersHoldToken`: an owned number is not beyond the counter, and while the counter still shows it, the token is
its owner's. A second owner of the same number would have to see the counter at that number with its own token,
which the second fact excludes; that is exactly what the value alone could not do. `TokensTellAdvances`: whoever reads
a counter past the one it read, and not its own token, reads somebody else's. `UpdateEffect` says what the
guarded UPDATE does and serves both the timely and the late one.

The second part of the module proves, for any manifests, rules, persons, messages, administrators and number of events:

* `OrderIsTopological`: what `topological_order` returns has no stage twice and each after the stages of the manifest
  that it depends on, for manifests of any size; and it has all of them (`Runnable`) just when there is no set of
  stages each of which waits for another of the set;
* `PipelinesAreTyped`, `MessagesTell` (`MessageTells`), `TheIndexAgrees` (`IndexAgrees`): the invariants of the run
  `pipelines`.

`PipelinesAssumption` gives the sorts of the constants; that a manifest has a stage, finitely many, and an order of
their ids; and that `"ingest"`, by which a record of a push is told from one of a stage, is none of them, as stages
are IRIs. The first theorem is about a recursive function. The library's induction needs a prover that is not there;
`Induction`, which speaks of a set, follows from the least element of a non-empty set of numbers (`LeastNumber`, from
`WFMin`), and gives that the rounds of the algorithm exist (`RoundsExist`) and what each leaves (`Sorted`).

`MessageTells` is not inductive: what a message says was decided several requests before. `PipelinesIInv` adds
`RequestsAreAlone` (a registration that nothing has overlapped finds the graph as its last request left it, which
`IndexAgrees` needs), and of each run: `Told`, what the store has of the message at each step of a save that deletes
and inserts; `InLine`, that the records are the first stages of the order, each given only what may have been given to
it, and that the stages left are the rest; `Wholly`, that Completed is written once no stage is left. `RunMoves` says
that a step of one run leaves the others be.

`FluentProofs` proves, for any calls, number of attempts, requests, modes, shapes and seeds:

* `TypeCorrect`, `TheLedgerAccounts` (`LedgerAccounts`), `SoundWhereNoValueRecurs` (`SoundUnlessValueRecurs`): the
  invariants of the run `fluent`;
* `TransitionsActAsRegister` (`ActsAsRegister`): `Fluent` implements `FluentRegister`.

`FluentAssumption` gives the sorts of the constants, at least one attempt, seeds that the shapes accept, and that no
call has the name of the seed's assertion. That scene and ledger agree and that no update is lost is kept by the guard
alone. The rest needs `IInv`, which says of each call (`Knows`): that it is in the ledger only once it has sent its
transition, and then once (`Places`, `OnceIn`; this is why a confirmation that does not find the call's own assertion
may retry); that what it read is what some entry left (`Reads`); and that a call past the gate has a value the shapes
accept, or was overtaken: what it read is what an entry before the last one left (`Copied`, `Passed`). A call that
was overtaken and whose guard still holds has met a value that came back, which is the proviso. `CandidateIsLive`
says that a candidate that fired on the copies is among what the shapes see, because nothing in them supersedes it.
The proof found that the model's step after minting was a CASE whose arms overlapped, of which TLC takes the first
and the prover rightly none; it is an IF now, as in `_plan`.

The refinement maps the scene to the register, and a call to where its caller and the ledger see it (`Phase`): a call
that is under way or failed has taken effect when an entry of the ledger is its own. `QuietStep` serves every step
that leaves the graphs alone; it is a stutter or an end, and where the call is turned away the invariant says that it
has no entry. `LandingTakesEffect` is the commit, timely or late: the guard compares by value, so the new value, which
was computed from what was read, is what the register's operation makes of the value that is there. That the value may
have gone and come back meanwhile does no harm here; it does for supersession, which is why only that has a proviso.

`ProjectionProofs` proves, for any sets of triples and requests, any number of runs, any ages, whether or not
sweeps are requested, requests die, answers get lost or the store keeps empty graphs:

* `TypeCorrect`, `DeliveredAtLeastOnce` (`NothingIsSkipped`): the invariants the run `projection` checks;
* `WatermarkFollowsTheTarget` (`MovesToWhatWasApplied`): its action property;
* beyond the run, `SettlingComesLast` (`SettledPullHoldsNothing`): a settled pull delivery holds no scratch graph.

The assumption is `ProjectionAssumption`: the sorts of the constants, and that no number is `NoDelivery`. None of
the three safety properties is inductive: that the watermark was given to the target depends on what a request
several steps earlier put into its envelope. `Typed` adds to the types that a request is at a step of its
operation (`WellFormed`) and that nothing is in the store of a delivery not started yet (`NothingEarly`). `Inv`
adds:

* `RunsApart`: no two runs have one delivery; and in `Sound`, a run works on a delivery that the log does not
  have yet, while the other operations are about deliveries they found there. Hence (`Apart`) nobody touches the
  delivery a run works on.
* `ScratchKept`: a scratch graph that is there is its delivery's slice, and holds nothing the target was not
  given once the delivery was applied.
* `Sound`, for the request's step: while it offers, the scratch graph is covered by its additions and what was
  given; a count that found no change found a slice that was given; who advances or acknowledges has a delivery
  that was applied; who is about to write "acknowledged" or "failed" for a pull delivery has no scratch graph
  left. The middle ones survive a watermark that others move meanwhile, because all they say of it is that it was
  given, and that only grows.

`Touches` says what one request may change under the others, and `OthersSound` that `Sound` survives it; there is
one lemma for each action or for actions alike, and the whole invariant was model-checked on the instance of the
run before it was proved.

`AgentCallsProofs` proves, for any finite sets of calls and workers, any cap on open calls and any batch:

* `TypeCorrect`, `SendsWereApproved` (`SendsAreSafe`): the invariants of the run `agent_calls`;
* `DiagramIsFollowed` (`StatusFollowsDiagram`): its action property.

`AgentAssumption` gives the sorts of the constants, and says that the sets of calls and of workers are finite, as
counting who holds a claim needs. Neither property is inductive. `IInv` adds:

* `Budget`: for each call, the workers between claim and send, plus one if the call is Approved or the holder of
  the lock has just found it so, plus the sends, are no more than the approvals. A claim moves one unit from the
  second term to the first, a send from the first to the third, a crash only loses units; this is the permit that
  one approval is, and it needs no assumption on timing.
* `Locked` and `Prompt`: who writes holds the lock, and while replies are timely what `_transition` read under the
  lock is still so when it writes. The second is what the diagram rests on, and it fails as soon as a write lands
  late.
* `JobsSound` and `Ledger`: a call somebody works on is in the ledger unless it is being placed, which only one
  worker does; and a call found to require review has no approval but a person's.

`Follows` says what a worker's next job may be when the ledger stays as it is; most actions are instances of it.

`TriggersProofs` proves, for any triggers, foci, people, requests and bounds, whether or not a definer is required:

* `TypeCorrect`, `NoDoubleFiringWithoutOverlap` (`DoubleFiringNeedsOverlap`), `DefinersAreHeeded`
  (`RevokedDefinerStops`), `ApprovalsAreMerged` (`ApprovedIsMerged`): the invariants of the run `triggers`.

`IInv` adds, for each request (`Sound`): `SawLedger`, that whoever has asked the ledger about a focus and found
nothing had before it only cleared firings of that focus, which stay cleared; `Judges`, that a verdict lives as long as
the evaluation of one trigger and that "yes" was given on rights lost less than `TTL` before; and `Reviews`, that a
review past its merge has a candidate that was merged or blank. `CacheLagsGrants` is what `Judges` needs of the cache
of verdicts: a cached "yes" is at least as old as the loss of the right. `AskedBefore` orders a firing after its
question. `LogGrows` and `CandsGrow` say what a step may do to the ledger and the candidates, and `SoundStays` that
what the other requests know survives it.

The second part of the module proves, for any tasks, personas, limits, coroutines, batch, interval and length of a day:

* `SchedulerIsTyped`, `FiringsStayBounded` (`FiringsAreBounded`): the invariants of the run `scheduler`, and so for
  firings that span midnight and for any number of restarts too.

`SchedulerAssumption` gives the sorts of the constants, and that tasks and personas are different nodes. That a task
is in flight just while one firing of it runs is inductive with `JobsAreSensible`, which says of each coroutine what its
place requires. The daily limit is not, because a firing is counted in one step and recorded in another. `LimitHolds`
says, of each subject and day of which it is still known what was used: at most one firing has been counted for it and
not recorded; what was used and what that firing may use keep within the limit; and what the records lack is no more
than that firing is about to add. So whoever counts next either finds everything recorded, or is the one that makes the
day uncertain.

`QueriesProofs` proves, for any people, queries, versions, graphs, facts and number of requests:

* `TypeCorrect`, `CacheIsTrue` (`CacheAgrees`), `OnlyReachableRuns` (`RunsWereReachable`), `OnlyOpenGraphsAreRead`
  (`ReadsWereAllowed`): the invariants of the run `queries`.

`IInv` says of each request that it has seen every fact that bears on it as it is now (`Aware`; facts change only
together with what requests have seen and missed), that a load which nothing disturbed holds what is registered as far
as it has come (`Loads`), that its place among the questions of reach and of the gate says what was answered
(`Reaches`, `Clears`: the graphs no longer left to clear were each open to the caller at some moment; `Borrows`: the
delegation being asked about has passed the questions before). `CacheAgrees` is inductive next to `Loads`.
`QueriesAssumption` says among others that nobody lends to themselves, which `delegation.py:194` refuses.

`RulesProofs` proves, for any rules, graphs, keys, values, number of requests and of attempts:

* `TypeCorrect`, `ReplaceIsWhole` (`WholeOutput`), `SupersedeKeepsOne` (`AtMostOneCurrent`): the invariants of the run
  `rules`.

`IInv` is the types of store and requests and of the updates that may still land (`LateTyped`), `WholeOutput`, and
`OneLive`, which is `AtMostOneCurrent` stated of pairs of values. The types carry `InStep`: at each place of a run the mode of the run is known, and Supersede comes to its
update only with a key and a value it derived. With that the guarded update shows by its own condition that the value
it puts is alone. Every other write marks the graph as written in its mode, so that nothing is left to show there.

`AccessProofs` proves, for any people, operations, foundings, claimants and number of requests and events:

* `TypeCorrect`: the invariant of the run `access`;
* `DeactivatedHoldNothing` (`DeactivationStrips`), `WritersHadTheRight` (`WritesWereAllowed`), `RulersHadTheRight`
  (`OwnersDecide`), `OnlyRacesLeaveNobody` (`SomebodyRules`): its action properties.

All of them follow from `AccessAssumption` (the sorts of the constants). None follows from the update alone: every
check of a request is a step of its own, and what an update needs was asked earlier. `IInv` says of each request that
its questions come in their order and with its operation (`InOrder`); that it has lived through what holds now
(`Remembers`); what the questions no longer ahead have established for a write (`Writes`) and for a change of who
rules (`Decides`); that, unless a removal raced it, those who were to be left are there (`Leaves`); and that what a
deactivation has not read was given since it began (`Strips`). The first four are about the past and survive whatever
others do; the last two are about the store as it is, and rest on `raced` and `fresh`, which an update of another
request sets (`PassedBy`). There is a lemma for each kind of question (`GoesOn`, `Skips`, `AdminSkips`, `GrantSkips`,
`RolesAreRead`, `GrantsAreRead`), and `EndsHere` says that a request that ends by an update was at that update.

The second part of the module proves, for any clients, logins, kinds, names, lifetime and number of sign-ins:

* `ConnectorIsTyped`, `ReplaysEndFamilies` (`ReplayEndsFamily`), `ChoicesAreKept` (`ChoiceIsKept`): the invariants of
  the run `connector`;
* `RevokedLoginsStop` (`RevokedLoginStops`): its action property.

`ConnectorAssumption` gives the sorts of the constants, and that a family may have a first token. `ConnectorIInv` adds:
`FamiliesAreSound`, that every token of a family but the last is used and that a replay has revoked it;
`HandshakesAreAllowed`, that a code is held for a login allowed now, because a restart, which may change the list, drops
the handshakes; `LeasesAreBounded`, that the time since a login was last allowed and what is left of an access token
given to it are together at most a lifetime, which is `RevokedLoginStops` before the call is made; and
`FilesHoldChoices`, what a restart will read back, next to which `ChoiceIsKept` is inductive.

Two operators that pick a sequence, the rules in their order (`Fired` in `Rules`) and a batch of the oldest calls
(`Oldest` in `AgentCalls`), are stated as the set of the sequences that are sorted so, which has one member, and not
with `SortSeq` or `SelectSeq`: what these return is defined by recursion in the library, and the
sorted sequence is all that the models need. The inductive invariants of all eleven components were model-checked on
the instance of the run.

## 6. Where the code and its documents part

Met while modelling; the models follow the code.

* **Fluent, one live assertion.** The commit's guard compares the value and not the assertion (`fluent.py:733`).
  When another transition has restored or re-set the same value, a stale transition passes it, supersedes an
  assertion that is already superseded, and two stay live, where `shapes/fluent.ttl:71` says "at most one
  non-invalidated hevt:StateAssertion may exist without being superseded by another non-invalidated one". The gate
  has the same hole. Hence the proviso of `SoundUnlessValueRecurs`: without it TLC finds the state.
* **Agent calls, review.** `dispatch_approved` checks again that the endpoint is active and the requester
  authorised, and not `call_review` (`agents/service.py:637`): a call queued by policy before the endpoint asked
  for review is sent without a person. `agents/model.py:98`: "True: every call to this endpoint needs a person's
  approval, whatever registered the trigger or pipeline that asked for it." `ReviewedIfRequired` speaks of the
  endpoint as the request found it.
* **Scheduler, manual runs.** `firings_today` adds up every billable record (`scheduler/store.py:289`), so a manual
  run uses the allowance up; `scheduler/runner.py:346` says manual invocations "deliberately do not draw on the
  scheduled daily allowance".
* **Scheduler, capability gate.** A persona that was not loaded is looked up as None and skips the capability check
  and the persona's limit (`scheduler/runner.py:273`); `routes/scheduler.py:270` says "the task will fail its
  capability gate until it exists".
* **Projection, eager sweeps.** A sweep may fail a delivery that the target has applied and not yet acknowledged, or
  drop the scratch graph of one recorded in the same second; the watermark then keeps triples that the target no
  longer holds. `projection/runner.py:290`: "nothing is lost by sweeping too eagerly". That is why
  `NothingIsSkipped` speaks of what was given, and not of what the target still has.
* **Projection, empty slices.** In a store that keeps no empty graphs, `COPY SILENT` from an empty scratch graph has
  no source and the watermark stays (`projection/store.py:212`); `projection/runner.py:20` says it "advances to
  exactly what was handed over".
* **Triggers, once per rising edge.** The docstring of `evaluate_triggers` promises that a match is never proposed
  or executed twice while its condition remains true; two evaluations that overlap do both act, which is what
  `DoubleFiringNeedsOverlap` bounds.
* **Messages, restarts.** `messages.py:5-9` says a restart leaves a status stuck in Running. A save is a deletion and
  an insertion, so a restart between the two leaves no message. And `ingest` handles `PipelineError`, `FusekiError`,
  `SourceFetchError` and `ValueError` (`routes/pipeline.py:704-714`): a timeout, a connection error or a YAML error
  ends the request with its message in Running, without any restart.
* **Rules, Supersede.** `named_rules.py:26-32` says what nothing replaced stays current. Runs in other modes and
  graph operations can bring a superseded triple back, which the annotation, in the default graph, still calls
  superseded.

* **Rules, Replace.** The comment at `named_rules.py:460-479` relies on the drop and the copy being one transaction. They
  are, but when that update times out the run drops its scratch graph at once, and the store may run the update after
  that: it then drops the target and adds nothing. The same goes for the deletion of a Sync. Hence `blanked`.
* **Reads, the graph field.** `acl.authorize_query` says that it gates a query "by every graph it actually touches, not
  just a declared ``graph`` field" (`acl.py:831-832`). The routes pass the text of the query only, and the field goes
  to the store as the default graph without a check (`routes/sparql.py:134`, `:146`). `ReadsWereAllowed` is about the
  graphs the text names.

## 7. What is only model-checked, and what is out of reach

* Liveness under fairness (`QueueDrains` of `AgentCalls`, `RunsEnd` of `Pipelines`) and anything about ENABLED stay
  with TLC: the provers do not reach them. Every other property of a run is a theorem.
* The library's induction over data cannot be used; induction over the numbers, which `topological_order` needs, is
  proved in `SequenceProofs` instead. No other result rests on what a recursive definition computes.
* The run `scheduler` has one day: no firing of the instance spans midnight. The theorems have any number of days.
* Instances with `events` see every interleaving of what three to six environment steps begin. A case that takes
  more (two registrations around two loads of the cache, a third overlapping removal) is not seen.
* Where a listing, a display and a run take the same steps (`Queries`), the property is checked of the run.
* Several bridge processes on one store: caches, verdicts, overrides and the write lock are per process. `Sequence`,
  `Fluent`, `Projection`, `Rules` and `Access` do not rely on them; `AgentCalls`, `Scheduler`, `Triggers` and
  `Queries` speak of one process (another process's writes are `Push`).
* Not modelled within modelled components: deleting tasks (no route does), registering and deleting hooks, the
  projection's sequence number, payloads of agent calls, assertion times, `propose_candidate` of pipelines, merging
  into a manifest, parameter binding, tools of the connector, the requests that a rule run inside a trigger makes.
* Writers that do not take the write lock (fluent transitions, rules, graph operations) can change a graph between
  the validation and the write of `write_turtle_to_graph`, which the lock's own docstring limits to loads; no module
  has both.
