----------------------------- MODULE AgentCalls -----------------------------
(***************************************************************************)
(* Agent calls (holonbridge/agents/service.py, ledger.py, model.py): tasks *)
(* that wait in the agent-calls graph, are approved, claimed, sent to an   *)
(* outside agent over HTTP and settled.  Workers are the coroutines of one *)
(* bridge process; each may serve a request or run the agent-dispatch job. *)
(* A step is one request to the store or to the agent.  The write lock     *)
(* lives in the process; the ledger lives in the store and survives it.    *)
(***************************************************************************)
EXTENDS Integers, Sequences, FiniteSets

CONSTANTS
  Calls,         \* identifiers of the calls that may be placed on one endpoint
  Workers,       \* coroutines
  Limit,         \* batch size of the agent-dispatch job
  Cap,           \* AGENT_MAX_OPEN_CALLS, 0 for none
  Doubtful,      \* the calls about whose requester the store may never answer
  MaxApprovals,  \* bound: nobody starts to approve or retry a call beyond it
  Timeliness     \* the values `timely` may take, see below

NoOne    == "no one"
NoCall   == "no call"

ASSUME AgentAssumption ==
  /\ IsFiniteSet(Calls) /\ IsFiniteSet(Workers)
  /\ Doubtful \subseteq Calls
  /\ NoCall \notin Calls /\ NoOne \notin Workers
  /\ Limit \in Nat \ {0}
  /\ Cap \in Nat
  /\ MaxApprovals \in Nat
  /\ Timeliness \subseteq BOOLEAN

VARIABLES
  timely,        \* every send settles within its endpoint's timeout and grace,
                 \* and no update runs in the store after its client gave up
  callReview,    \* the endpoint requires a person's approval of every call
  status,        \* callStatus in the ledger
  stale,         \* started_at is older than timeout and grace
  order,         \* the calls in the order they were placed
  foundReview,   \* the calls whose request found the endpoint requiring review
  approvals,     \* how often a call became Approved
  byPerson,      \* the calls a person approved
  sends,         \* how often a call's body left the bridge
  lock,          \* who holds the dataset's write lock
  job            \* what each worker is doing

vars == <<timely, callReview, status, stale, order, foundReview, approvals, byPerson,
          sends, lock, job>>
counters == <<approvals, byPerson, sends>>
setup    == <<timely, order, foundReview>>

Statuses == {"none", "PendingApproval", "Approved", "Sending", "Responded", "Failed", "Rejected"}
Open     == {"PendingApproval", "Approved", "Sending"}
Goals    == {"request", "approve", "reject", "retry", "send", "fail", "dispatch"}

Idle == [pc |-> "idle", goal |-> "dispatch", call |-> NoCall, sendNow |-> FALSE,
         result |-> "none", queue |-> <<>>]
Jobs == [pc : {"idle", "count", "vet", "assemble", "put", "check", "write", "audit", "post", "reply",
               "stage", "settle", "afloat", "authorise"},
         goal : Goals, call : Calls \cup {NoCall}, sendNow : BOOLEAN,
         result : Statuses, queue : Seq(Calls)]

TypeOK ==
  /\ timely \in Timeliness
  /\ callReview \in BOOLEAN
  /\ status \in [Calls -> Statuses]
  /\ stale \in [Calls -> BOOLEAN]
  /\ order \in Seq(Calls)
  /\ foundReview \subseteq Calls /\ byPerson \subseteq Calls
  /\ approvals \in [Calls -> Nat] /\ sends \in [Calls -> Nat]
  /\ lock \in Workers \cup {NoOne}
  /\ job \in [Workers -> Jobs]

Init ==
  /\ timely \in Timeliness
  /\ callReview \in BOOLEAN
  /\ status = [c \in Calls |-> "none"]
  /\ stale = [c \in Calls |-> FALSE]
  /\ order = <<>>
  /\ foundReview = {} /\ byPerson = {}
  /\ approvals = [c \in Calls |-> 0]
  /\ sends = [c \in Calls |-> 0]
  /\ lock = NoOne
  /\ job = [w \in Workers |-> Idle]

-----------------------------------------------------------------------------
(***************************************************************************)
(* Faulty variants of operators defined below; no action uses them.        *)
(***************************************************************************)
\* The lock does not span the check and the write.
NeverHeld(w) == NoOne
\* A send may start from a call that failed, without a new approval.
SendsFailedCalls(goal) ==
  CASE goal = "approve" -> {"PendingApproval"}
    [] goal = "reject"  -> {"PendingApproval", "Approved"}
    [] goal = "retry"   -> {"Failed"}
    [] goal = "send"    -> {"Approved", "Failed"}
    [] goal = "fail"    -> {"Approved"}
\* A call that could not be audited is given a reason where its status goes.
FailsWithAReason(w) == [job[w] EXCEPT !.pc = "settle", !.result = "audit unavailable"]
\* A dispatch ends at the first call it could not find out about.
StopsAtDoubt(w) ==
  /\ job[w].pc = "authorise"
  /\ job' = [job EXCEPT ![w] = Idle]
  /\ UNCHANGED <<setup, callReview, status, stale, counters, lock>>

-----------------------------------------------------------------------------
\* _transition: the states each mover starts from, and where it takes a call.
From(goal) ==
  CASE goal = "approve" -> {"PendingApproval"}
    [] goal = "reject"  -> {"PendingApproval", "Approved"}
    [] goal = "retry"   -> {"Failed"}
    [] goal = "send"    -> {"Approved"}
    [] goal = "fail"    -> {"Approved"}

To(goal) ==
  CASE goal \in {"approve", "retry"} -> "Approved"
    [] goal = "reject" -> "Rejected"
    [] goal = "send"   -> "Sending"
    [] goal = "fail"   -> "Failed"

\* _stale_sending
StaleSending(c, goal) == status[c] = "Sending" /\ "Failed" \in From(goal) /\ stale[c]

Become(w, new) == job' = [job EXCEPT ![w] = new]

\* The end of one call: the dispatcher takes the next one of its batch.
Rest(w) ==
  IF job[w].queue = <<>> THEN Idle
  ELSE [Idle EXCEPT !.pc = "authorise", !.call = Head(job[w].queue), !.queue = Tail(job[w].queue)]

\* request_call: queued without a person only if the endpoint allows it.
Queued(policy) == policy /\ ~callReview

OpenCalls == {c \in Calls : status[c] \in Open}

-----------------------------------------------------------------------------
\* request_call begins with the endpoint somebody looked up.  `policy` asks for
\* a call that does not wait for a person.
Place(w, c, policy) ==
  /\ job[w].pc = "idle"
  /\ status[c] = "none" /\ \A v \in Workers : job[v].call # c
  /\ Become(w, [Idle EXCEPT !.pc = "count", !.goal = "request", !.call = c,
                           !.sendNow = Queued(policy)])
  /\ foundReview' = IF callReview THEN foundReview \cup {c} ELSE foundReview \ {c}
  /\ UNCHANGED <<timely, order, callReview, status, stale, counters, lock>>

\* POST /agent-call always asks for a person, and so does a pipeline's stage.
RequestAgentCall(w) == \E c \in Calls : Place(w, c, FALSE)

\* fire_agent: the trigger's definer says whether a person must review.
FireAgent(w) == \E c \in Calls, policy \in BOOLEAN : Place(w, c, policy)

\* The cap is read, and the call put later.
CountOpen(w) ==
  /\ job[w].pc = "count"
  /\ Become(w, IF Cap > 0 /\ Cardinality(OpenCalls) >= Cap THEN Idle ELSE [job[w] EXCEPT !.pc = "vet"])
  /\ UNCHANGED <<setup, callReview, status, stale, counters, lock>>

\* authorize_request: what the requester may reach is asked of the store.
Vet(w) ==
  /\ job[w].pc = "vet"
  /\ Become(w, [job[w] EXCEPT !.pc = "assemble"]) \/ Become(w, Idle)
  /\ UNCHANGED <<setup, callReview, status, stale, counters, lock>>

\* The context query is run and the body built from it, unless it is too big.
Assemble(w) ==
  /\ job[w].pc = "assemble"
  /\ Become(w, [job[w] EXCEPT !.pc = "put"]) \/ Become(w, Idle)
  /\ UNCHANGED <<setup, callReview, status, stale, counters, lock>>

Put(w) ==
  LET c == job[w].call
      queued == job[w].sendNow IN
  /\ job[w].pc = "put"
  /\ status' = [status EXCEPT ![c] = IF queued THEN "Approved" ELSE "PendingApproval"]
  /\ order' = Append(order, c)
  /\ approvals' = [approvals EXCEPT ![c] = IF queued THEN @ + 1 ELSE @]
  /\ Become(w, Idle)
  /\ UNCHANGED <<timely, foundReview, callReview, stale, byPerson, sends, lock>>

\* A mover begins: the call is in the ledger when its route looks it up.  A
\* retry goes on to the claim, and so does an approval.
Begin(w, goal) ==
  /\ job[w].pc = "idle"
  /\ \E c \in Calls :
       /\ status[c] # "none"
       /\ goal # "reject" => approvals[c] < MaxApprovals
       /\ Become(w, [Idle EXCEPT !.pc = "check", !.goal = goal, !.call = c,
                                !.sendNow = (goal # "reject")])
  /\ UNCHANGED <<setup, callReview, status, stale, counters, lock>>

ApproveAgentCall(w) == Begin(w, "approve")
RejectAgentCall(w)  == Begin(w, "reject")
RetryAgentCall(w)   == Begin(w, "retry")

-----------------------------------------------------------------------------
Holder(w) == w

\* _transition, first half: take the lock, read the call, refuse or go on.
Check(w) ==
  LET c == job[w].call IN
  /\ job[w].pc = "check" /\ lock = NoOne
  /\ IF status[c] \in From(job[w].goal) \/ StaleSending(c, job[w].goal)
     THEN lock' = Holder(w) /\ Become(w, [job[w] EXCEPT !.pc = "write"])
     ELSE lock' = NoOne /\ Become(w, Rest(w))
  /\ UNCHANGED <<setup, callReview, status, stale, counters>>

\* What a transition's update does to the ledger.
Move(w) ==
  LET c == job[w].call
      goal == job[w].goal IN
  /\ status' = [status EXCEPT ![c] = To(goal)]
  /\ stale' = [stale EXCEPT ![c] = IF goal = "send" THEN FALSE ELSE @]
  /\ approvals' = [approvals EXCEPT ![c] = IF To(goal) = "Approved" THEN @ + 1 ELSE @]
  /\ byPerson' = IF To(goal) = "Approved" THEN byPerson \cup {c} ELSE byPerson

Release(w) == lock' = IF lock = w THEN NoOne ELSE lock

\* Second half.  A claim goes on to the send, an approval may go on to a claim.
Write(w) ==
  /\ job[w].pc = "write"
  /\ Move(w)
  /\ Release(w)
  /\ Become(w, IF job[w].goal = "send" THEN [job[w] EXCEPT !.pc = "audit"]
               ELSE IF job[w].sendNow
               THEN [job[w] EXCEPT !.pc = "check", !.goal = "send", !.sendNow = FALSE]
               ELSE Rest(w))
  /\ UNCHANGED <<setup, callReview, sends>>

\* The update ran, its answer was lost: the operation ends with an error.
LoseAnswer(w) ==
  /\ job[w].pc = "write"
  /\ Move(w)
  /\ Release(w)
  /\ Become(w, Idle)
  /\ UNCHANGED <<setup, callReview, sends>>

\* The client gives up on an update that the store will still run.
TimeOut(w) ==
  /\ ~timely /\ job[w].pc = "write"
  /\ Release(w)
  /\ Become(w, [job[w] EXCEPT !.pc = "afloat", !.queue = <<>>])
  /\ UNCHANGED <<setup, callReview, status, stale, counters>>

Land(w) ==
  /\ job[w].pc = "afloat"
  /\ Move(w)
  /\ Become(w, Idle)
  /\ UNCHANGED <<setup, callReview, sends, lock>>

-----------------------------------------------------------------------------
Fails(w) == [job[w] EXCEPT !.pc = "settle", !.result = "Failed"]

AuditFailed(w) == Fails(w)

\* send_call after the claim: the `send` entry is written, or the call fails.
Audit(w) ==
  /\ job[w].pc = "audit"
  /\ Become(w, [job[w] EXCEPT !.pc = "post"]) \/ Become(w, AuditFailed(w))
  /\ UNCHANGED <<setup, callReview, status, stale, counters, lock>>

\* HttpAgentSender.send: refused by policy before anything leaves, or posted.
Post(w) ==
  /\ job[w].pc = "post"
  /\ \/ /\ sends' = [sends EXCEPT ![job[w].call] = @ + 1]
        /\ Become(w, [job[w] EXCEPT !.pc = "reply"])
     \/ /\ UNCHANGED sends
        /\ Become(w, Fails(w))
  /\ UNCHANGED <<setup, callReview, status, stale, approvals, byPerson, lock>>

\* The reply: an error or a timeout, an answer, or an answer with a proposal.
Reply(w) ==
  /\ job[w].pc = "reply"
  /\ \E new \in {Fails(w), [job[w] EXCEPT !.pc = "settle", !.result = "Responded"],
                 [job[w] EXCEPT !.pc = "stage"]} : Become(w, new)
  /\ UNCHANGED <<setup, callReview, status, stale, counters, lock>>

\* The proposal is staged as a candidate before the call is settled.
Stage(w) ==
  /\ job[w].pc = "stage"
  /\ Become(w, [job[w] EXCEPT !.pc = "settle", !.result = "Responded"]) \/ Become(w, Fails(w))
  /\ UNCHANGED <<setup, callReview, status, stale, counters, lock>>

\* _fail and the end of _settle: written without the lock or a look at the
\* status it replaces.  The result's own audit entry is best effort.
Settle(w) ==
  /\ job[w].pc = "settle"
  /\ status' = [status EXCEPT ![job[w].call] = job[w].result]
  /\ Become(w, Rest(w))
  /\ UNCHANGED <<setup, callReview, stale, counters, lock>>

-----------------------------------------------------------------------------
Ready(c) == status[c] = "Approved"

\* The first of the calls that are ready, in the order they were placed, up to
\* the limit: the k-th of them has k - 1 before it, so that there is one batch.
Oldest(limit) ==
  LET ready == {i \in DOMAIN order : Ready(order[i])}
      size  == IF Cardinality(ready) < limit THEN Cardinality(ready) ELSE limit
      ranks == {at \in [1..size -> ready] :
                  \A k \in 1..size : Cardinality({i \in ready : i < at[k]}) = k - 1}
  IN  {[k \in 1..size |-> order[at[k]]] : at \in ranks}

\* dispatch_approved: the oldest Approved calls, as they are now.
DispatchApproved(w, limit) ==
  /\ job[w].pc = "idle"
  /\ \E batch \in Oldest(limit) :
       /\ batch # <<>>
       /\ Become(w, [Idle EXCEPT !.pc = "authorise", !.call = Head(batch), !.queue = Tail(batch)])
  /\ UNCHANGED <<setup, callReview, status, stale, counters, lock>>

\* The scheduler's agent-dispatch job, and POST /agent-calls/dispatch with a
\* limit of its own.
Dispatch(w) == DispatchApproved(w, Limit)
DispatchOnDemand(w) == \E limit \in 1..Cardinality(Calls) : DispatchApproved(w, limit)

\* Endpoint and requester are looked at again before each send.
MaySend(w) ==
  /\ job[w].pc = "authorise"
  /\ Become(w, [job[w] EXCEPT !.pc = "check", !.goal = "send"])
  /\ UNCHANGED <<setup, callReview, status, stale, counters, lock>>

MayNotSend(w) ==
  /\ job[w].pc = "authorise"
  /\ Become(w, [job[w] EXCEPT !.pc = "check", !.goal = "fail"])
  /\ UNCHANGED <<setup, callReview, status, stale, counters, lock>>

\* A question the store refuses leaves the call queued, for the next run.
CannotTell(w) ==
  /\ job[w].pc = "authorise"
  /\ Become(w, Rest(w))
  /\ UNCHANGED <<setup, callReview, status, stale, counters, lock>>

-----------------------------------------------------------------------------
\* A request to the store fails where nothing catches it.  That one question
\* about a requester times out ends a whole dispatch: only a refusal is caught.
Abort(w) ==
  /\ job[w].pc \in {"count", "vet", "assemble", "put", "authorise", "check", "write", "settle"}
  /\ Release(w)
  /\ Become(w, Idle)
  /\ UNCHANGED <<setup, callReview, status, stale, counters>>

\* The process dies: its coroutines and its lock go, the ledger stays.
Crash ==
  /\ \E w \in Workers : job[w].pc \notin {"idle", "afloat"}
  /\ job' = [w \in Workers |-> IF job[w].pc = "afloat" THEN job[w] ELSE Idle]
  /\ lock' = NoOne
  /\ UNCHANGED <<setup, callReview, status, stale, counters>>

SendingNow(w, c) == job[w].call = c /\ job[w].pc \in {"audit", "post", "reply", "stage", "settle"}

\* Time passes: a claim outlives its endpoint's timeout by the grace period.
PresumedLost(c) == timely => \A w \in Workers : ~SendingNow(w, c)

Age(c) ==
  /\ status[c] = "Sending" /\ ~stale[c] /\ PresumedLost(c)
  /\ stale' = [stale EXCEPT ![c] = TRUE]
  /\ UNCHANGED <<setup, callReview, status, counters, lock, job>>

\* The endpoint is registered again, with the other review requirement.
Reregister ==
  /\ callReview' = ~callReview
  /\ UNCHANGED <<setup, status, stale, counters, lock, job>>

Serve(w) ==
  \/ CountOpen(w) \/ Vet(w) \/ Assemble(w) \/ Put(w) \/ Check(w) \/ Write(w) \/ LoseAnswer(w) \/ Audit(w)
  \/ Post(w) \/ Reply(w) \/ Stage(w) \/ Settle(w)

Next ==
  \/ \E w \in Workers :
       \/ RequestAgentCall(w) \/ FireAgent(w)
       \/ ApproveAgentCall(w) \/ RejectAgentCall(w) \/ RetryAgentCall(w)
       \/ Serve(w) \/ TimeOut(w) \/ Land(w) \/ Abort(w)
       \/ Dispatch(w) \/ DispatchOnDemand(w) \/ MaySend(w) \/ MayNotSend(w) \/ CannotTell(w)
  \/ \E c \in Calls : Age(c)
  \/ Crash \/ Reregister

Spec == Init /\ [][Next]_vars

(***************************************************************************)
(* A coroutine goes on when it is answered.  The scheduler runs the        *)
(* dispatch job again and again, asyncio.Lock is first come first served,  *)
(* and the store does not fail one request every time it is made.  Whether *)
(* a call may still be sent it may refuse to say for ever, of the Doubtful *)
(* ones; what it does not do is let that question time out every time.     *)
(***************************************************************************)
Taking(w, c) == job[w].call = c /\ job[w].goal \in {"send", "fail"}

Told(w, c) == job[w].call = c /\ (MaySend(w) \/ MayNotSend(w))

\* The question about c ends, one way or the other, with `next` waiting behind c.
Passed(w, c, next) ==
  /\ job[w].call = c /\ \E i \in DOMAIN job[w].queue : job[w].queue[i] = next
  /\ MaySend(w) \/ MayNotSend(w) \/ CannotTell(w)

Fairness ==
  \A w \in Workers :
    /\ WF_vars(Serve(w) \/ Land(w) \/ MaySend(w) \/ MayNotSend(w) \/ CannotTell(w))
    /\ SF_vars(Dispatch(w))
    /\ \A c \in Calls : /\ SF_vars(Taking(w, c) /\ Check(w))
                       /\ SF_vars(Taking(w, c) /\ Write(w))
    /\ \A c \in Calls \ Doubtful : SF_vars(Told(w, c))
    /\ \A c \in Doubtful, next \in Calls \ Doubtful : SF_vars(Passed(w, c, next))

FairSpec == Spec /\ Fairness

-----------------------------------------------------------------------------
\* A call leaves the bridge at most once per approval, whatever crashes, late
\* replies, retries and concurrent movers there are.
AtMostOncePerApproval == \A c \in Calls : sends[c] <= approvals[c]

\* A call placed on an endpoint that requires review leaves only after a
\* person approved it.
ReviewedIfRequired ==
  \A c \in foundReview : sends[c] > 0 => c \in byPerson

\* While replies are timely one worker at a time sends a call, the call is
\* Sending for as long as that takes, and nobody may presume it lost.
OneSenderAtATime ==
  timely => \A c \in Calls, w \in Workers :
    SendingNow(w, c) =>
      /\ status[c] = "Sending" /\ ~stale[c]
      /\ \A v \in Workers : SendingNow(v, c) => v = w

\* What leaves the bridge: each call no oftener than approved, none that needs
\* review before a person approved it, and no call from two workers at once.
SendsAreSafe == AtMostOncePerApproval /\ ReviewedIfRequired /\ OneSenderAtATime

\* The arrows of agents/model.py, with the two its text adds: an Approved call
\* may be rejected or failed unsent, and a lost claim retried.
Arrows ==
  {<<"none", "PendingApproval">>, <<"none", "Approved">>, <<"PendingApproval", "Approved">>,
   <<"PendingApproval", "Rejected">>, <<"Approved", "Rejected">>, <<"Approved", "Failed">>,
   <<"Approved", "Sending">>, <<"Sending", "Responded">>, <<"Sending", "Failed">>,
   <<"Sending", "Approved">>, <<"Failed", "Approved">>}

\* While replies are timely a call's status follows the diagram; in particular
\* nothing changes a call that was answered or rejected.
StatusFollowsDiagram ==
  [][timely => \A c \in Calls :
       status'[c] # status[c] => <<status[c], status'[c]>> \in Arrows]_vars

\* No call stays Approved: whoever approved it, whatever happened to the worker
\* that was going to send it, and whichever older calls are passed over in each
\* batch because nobody can say whether they may be sent, a dispatch reaches it.
\* With as many of those as a batch is long, the batch is theirs for ever.
QueueDrains ==
  Cardinality(Doubtful) < Limit =>
    \A c \in Calls \ Doubtful : (status[c] = "Approved") ~> (status[c] # "Approved")
=============================================================================
