--------------------------- MODULE AgentCallsProofs ---------------------------
(***************************************************************************)
(* Proofs about agent calls, for any number of calls and workers, any cap  *)
(* and any batch: what leaves the bridge was approved, reviewed and sent   *)
(* by one worker, and while replies are timely a call's status follows     *)
(* the diagram.                                                            *)
(***************************************************************************)
EXTENDS AgentCalls, FiniteSetTheorems, TLAPS

Placing == {"count", "vet", "assemble", "put"}
Claimed == {"audit", "post"}
Sending == Claimed \cup {"reply", "stage", "settle"}
Moving  == {"check", "write", "afloat"}
Movers  == {"approve", "reject", "retry", "send", "fail"}

\* Every call somebody works on is in the ledger, but the one that somebody is
\* about to put there, which waits for review if its endpoint required it.
Sound(q, now, found) ==
  /\ q.pc # "idle" => q.call \in Calls
  /\ q.pc \in Placing => now[q.call] = "none" /\ (q.sendNow => q.call \notin found)
  /\ q.pc \in Moving \cup Sending \cup {"authorise"} => now[q.call] # "none"
  /\ q.pc \in Moving => q.goal \in Movers
  /\ q.pc = "settle" => q.result \in {"Failed", "Responded"}
  /\ \A i \in DOMAIN q.queue : now[q.queue[i]] # "none"

JobsSound ==
  /\ \A w \in Workers : Sound(job[w], status, foundReview)
  /\ \A v, w \in Workers :
       job[v].pc \in Placing /\ job[w].pc \in Placing /\ job[v].call = job[w].call => v = w

Locked == \A w \in Workers : job[w].pc = "write" => lock = w

\* Who else approves a call than a person finds that it needs none.
Ledger ==
  /\ \A i \in DOMAIN order : status[order[i]] # "none"
  /\ \A c \in Calls : /\ status[c] = "none" => approvals[c] = 0
                      /\ c \in foundReview /\ approvals[c] > 0 => c \in byPerson

\* Each approval is good for one send.  Those not yet sent are with a worker
\* that has claimed the call, or in the ledger, or reserved by the worker that
\* holds the lock and found the call Approved.
Claimants(c) == {w \in Workers : job[w].pc \in Claimed /\ job[w].call = c}
Taker(q, c)  == q.pc = "write" /\ q.goal = "send" /\ q.call = c
Reserved(c)  == status[c] = "Approved" \/ \E w \in Workers : Taker(job[w], c)
Budget ==
  \A c \in Calls :
    Cardinality(Claimants(c)) + (IF Reserved(c) THEN 1 ELSE 0) + sends[c] <= approvals[c]

\* What _transition found is still so when it writes.
MayMove(q) == status[q.call] \in From(q.goal) \/ StaleSending(q.call, q.goal)
Prompt ==
  timely => /\ \A w \in Workers : job[w].pc # "afloat"
            /\ \A w \in Workers : job[w].pc = "write" => MayMove(job[w])

IInv == TypeOK /\ JobsSound /\ Locked /\ Ledger /\ Budget /\ Prompt /\ OneSenderAtATime
-----------------------------------------------------------------------------
\* The table of moves.
LEMMA Moves ==
  /\ From("approve") = {"PendingApproval"} /\ To("approve") = "Approved"
  /\ From("reject") = {"PendingApproval", "Approved"} /\ To("reject") = "Rejected"
  /\ From("retry") = {"Failed"} /\ To("retry") = "Approved"
  /\ From("send") = {"Approved"} /\ To("send") = "Sending"
  /\ From("fail") = {"Approved"} /\ To("fail") = "Failed"
BY DEF From, To

LEMMA MoverGoes ==
  ASSUME NEW goal \in Movers
  PROVE  To(goal) \in Statuses /\ To(goal) # "none"
BY Moves DEF Movers, Statuses

\* What is known of a job depends on which calls are placed, and on the review
\* found by the one that is being placed.
LEMMA StaysSound ==
  ASSUME NEW q, NEW now, NEW found, NEW later, NEW foundLater, Sound(q, now, found),
         \A c \in Calls : (now[c] = "none") = (later[c] = "none"),
         q.queue \in Seq(Calls),
         q.pc \in Placing /\ q.call \notin found => q.call \notin foundLater
  PROVE  Sound(q, later, foundLater)
<1>1. q.pc # "idle" => (now[q.call] = "none") = (later[q.call] = "none")
  BY DEF Sound
<1>2. \A i \in DOMAIN q.queue : later[q.queue[i]] # "none"
  BY DEF Sound
<1> QED BY <1>1, <1>2 DEF Sound, Placing, Moving, Sending, Claimed

\* The calls a worker has claimed, after it moved.
LEMMA ClaimantsCount ==
  ASSUME TypeOK, NEW c
  PROVE  /\ IsFiniteSet(Claimants(c)) /\ Cardinality(Claimants(c)) \in Nat
         /\ Claimants(c) \subseteq Workers
BY AgentAssumption, FS_Subset, FS_CardinalityType DEF Claimants

LEMMA ClaimsMove ==
  ASSUME TypeOK, NEW w \in Workers, NEW new, job' = [job EXCEPT ![w] = new], NEW c
  PROVE  /\ Cardinality(Claimants(c))' \in Nat
         /\ ~(new.pc \in Claimed /\ new.call = c) =>
              Cardinality(Claimants(c))' =
                Cardinality(Claimants(c)) - (IF w \in Claimants(c) THEN 1 ELSE 0)
         /\ new.pc \in Claimed /\ new.call = c =>
              Cardinality(Claimants(c))' =
                Cardinality(Claimants(c)) + (IF w \in Claimants(c) THEN 0 ELSE 1)
<1>1. \A v \in Workers : job'[v] = IF v = w THEN new ELSE job[v]
  BY DEF TypeOK
<1>2. IsFiniteSet(Claimants(c)) /\ Cardinality(Claimants(c)) \in Nat
  BY ClaimantsCount
<1>3. CASE new.pc \in Claimed /\ new.call = c
  <2>1. Claimants(c)' = Claimants(c) \cup {w}
    BY <1>1, <1>3 DEF Claimants
  <2>2. Cardinality(Claimants(c)') =
          IF w \in Claimants(c) THEN Cardinality(Claimants(c)) ELSE Cardinality(Claimants(c)) + 1
    BY <1>2, <2>1, FS_AddElement
  <2> QED BY <1>2, <1>3, <2>2
<1>4. CASE ~(new.pc \in Claimed /\ new.call = c)
  <2>1. Claimants(c)' = Claimants(c) \ {w}
    BY <1>1, <1>4 DEF Claimants
  <2>2. Cardinality(Claimants(c)') =
          IF w \in Claimants(c) THEN Cardinality(Claimants(c)) - 1 ELSE Cardinality(Claimants(c))
    BY <1>2, <2>1, FS_RemoveElement
  <2>3. Cardinality(Claimants(c)') \in Nat
    BY <1>2, <2>1, FS_Subset, FS_CardinalityType
  <2> QED BY <1>2, <1>4, <2>2, <2>3
<1> QED BY <1>3, <1>4
-----------------------------------------------------------------------------
\* What a worker's next job may be when the ledger stays as it is.
Follows(w, new) ==
  /\ Sound(new, status, foundReview)
  /\ new.pc = "write" => lock' = w /\ MayMove(new)
  /\ \A v \in Workers \ {w} : job[v].pc = "write" => lock' = lock
  /\ new.pc = "afloat" => ~timely
  /\ new.pc \in Placing => job[w].pc \in Placing /\ job[w].call = new.call
  /\ new.pc \in Sending => job[w].pc \in Sending /\ job[w].call = new.call
  /\ new.pc \in Claimed => job[w].pc \in Claimed

LEMMA Quiet ==
  ASSUME IInv, NEW w \in Workers, NEW new \in Jobs, job' = [job EXCEPT ![w] = new],
         UNCHANGED <<setup, callReview, status, stale, counters>>,
         lock' \in Workers \cup {NoOne}, Follows(w, new)
  PROVE  IInv'
<1>1. \A v \in Workers : job'[v] = IF v = w THEN new ELSE job[v]
  BY DEF IInv, TypeOK
<1>2. TypeOK'
  BY DEF IInv, TypeOK, setup, counters
<1>3. UNCHANGED <<timely, order, foundReview, callReview, status, stale>>
      /\ UNCHANGED <<approvals, byPerson, sends>>
  BY DEF setup, counters
<1>4. JobsSound'
  <2>1. \A v \in Workers : Sound(job'[v], status, foundReview)
    BY <1>1 DEF IInv, JobsSound, Follows
  <2>2. ASSUME NEW u \in Workers, NEW v \in Workers, job'[u].pc \in Placing,
               job'[v].pc \in Placing, job'[u].call = job'[v].call
        PROVE  u = v
    <3>1. /\ job[u].pc \in Placing /\ job[u].call = job'[u].call
          /\ job[v].pc \in Placing /\ job[v].call = job'[v].call
      BY <1>1, <2>2 DEF Follows
    <3> QED BY <2>2, <3>1 DEF IInv, JobsSound
  <2> QED BY <1>3, <2>1, <2>2 DEF JobsSound
<1>5. Locked'
  BY <1>1 DEF IInv, Locked, Follows
<1>6. Ledger'
  BY <1>3 DEF IInv, Ledger
<1>7. Budget'
  <2> SUFFICES ASSUME NEW c \in Calls
               PROVE  Cardinality(Claimants(c))' + (IF Reserved(c)' THEN 1 ELSE 0) + sends[c]
                        <= approvals[c]
    BY <1>3 DEF Budget
  <2>1. Cardinality(Claimants(c)) + (IF Reserved(c) THEN 1 ELSE 0) + sends[c] <= approvals[c]
    BY DEF IInv, Budget
  <2>2. new.pc \in Claimed /\ new.call = c => w \in Claimants(c)
    BY DEF Follows, Claimants, Claimed, Sending
  <2>3. /\ Cardinality(Claimants(c))' \in Nat /\ Cardinality(Claimants(c)) \in Nat
        /\ Cardinality(Claimants(c))' <= Cardinality(Claimants(c))
    <3>1. TypeOK /\ Cardinality(Claimants(c)) \in Nat
      BY ClaimantsCount DEF IInv
    <3>2. /\ Cardinality(Claimants(c))' \in Nat
          /\ ~(new.pc \in Claimed /\ new.call = c) =>
               Cardinality(Claimants(c))' =
                 Cardinality(Claimants(c)) - (IF w \in Claimants(c) THEN 1 ELSE 0)
          /\ new.pc \in Claimed /\ new.call = c =>
               Cardinality(Claimants(c))' =
                 Cardinality(Claimants(c)) + (IF w \in Claimants(c) THEN 0 ELSE 1)
      BY <3>1, ClaimsMove
    <3>3. CASE new.pc \in Claimed /\ new.call = c
      BY <2>2, <3>1, <3>2, <3>3
    <3>4. CASE ~(new.pc \in Claimed /\ new.call = c)
      BY <3>1, <3>2, <3>4
    <3> QED BY <3>3, <3>4
  <2>4. ASSUME Reserved(c)' PROVE Reserved(c)
    <3>1. CASE status[c] = "Approved"
      BY <3>1 DEF Reserved
    <3>2. CASE status[c] # "Approved"
      <4>1. PICK v \in Workers : Taker(job'[v], c)
        BY <1>3, <2>4, <3>2 DEF Reserved
      <4>2. v # w
        <5>1. SUFFICES ASSUME Taker(new, c) PROVE FALSE
          BY <1>1, <4>1
        <5>2. status[c] \in From("send") \/ StaleSending(c, "send")
          BY <5>1 DEF Follows, MayMove, Taker
        <5> QED BY <3>2, <5>2, Moves DEF StaleSending
      <4> QED BY <1>1, <4>1, <4>2 DEF Reserved
    <3> QED BY <3>1, <3>2
  <2>5. sends[c] \in Nat /\ approvals[c] \in Nat
    BY DEF IInv, TypeOK
  <2> QED BY <2>1, <2>3, <2>4, <2>5
<1>8. Prompt'
  <2>1. ASSUME timely, NEW v \in Workers
        PROVE  job'[v].pc # "afloat" /\ (job'[v].pc = "write" => MayMove(job'[v]))
    BY <1>1, <2>1 DEF IInv, Prompt, Follows
  <2> QED BY <1>3, <2>1 DEF Prompt, MayMove, StaleSending
<1>9. OneSenderAtATime'
  <2>1. ASSUME NEW v \in Workers, NEW c \in Calls, SendingNow(v, c)' PROVE SendingNow(v, c)
    BY <1>1, <2>1 DEF SendingNow, Follows, Sending, Claimed
  <2> QED BY <1>3, <2>1 DEF IInv, OneSenderAtATime
<1> QED BY <1>2, <1>4, <1>5, <1>6, <1>7, <1>8, <1>9 DEF IInv
\* Nobody takes the lock from its holder.
Untaken(w) ==
  /\ lock' \in Workers \cup {NoOne}
  /\ \A v \in Workers \ {w} : job[v].pc = "write" => lock' = lock

LEMMA Unlocks ==
  ASSUME IInv, NEW w \in Workers, UNCHANGED lock \/ Release(w)
  PROVE  Untaken(w)
BY DEF IInv, TypeOK, Locked, Release, Untaken

LEMMA JobIsSound ==
  ASSUME IInv, NEW w \in Workers
  PROVE  job[w] \in Jobs /\ Sound(job[w], status, foundReview)
BY DEF IInv, TypeOK, JobsSound

\* The end of a job, or of one call of a batch.
LEMMA IdleIsSound ==
  /\ Idle \in Jobs /\ Idle.pc = "idle"
  /\ \A now, found : Sound(Idle, now, found)
<1>1. Idle \in Jobs /\ Idle.pc = "idle" /\ Idle.queue = <<>>
  BY DEF Idle, Jobs, Goals, Statuses
<1> QED BY <1>1 DEF Sound, Placing, Moving, Sending, Claimed

LEMMA RestIsSound ==
  ASSUME NEW w \in Workers, NEW now, NEW found, job[w] \in Jobs,
         \A i \in DOMAIN job[w].queue : now[job[w].queue[i]] # "none"
  PROVE  /\ Rest(w) \in Jobs /\ Rest(w).pc \in {"idle", "authorise"}
         /\ Sound(Rest(w), now, found)
<1> DEFINE queue == job[w].queue
<1>1. queue \in Seq(Calls)
  BY DEF Jobs
<1>2. CASE queue = <<>>
  BY <1>2, IdleIsSound DEF Rest
<1>3. CASE queue # <<>>
  <2>1. /\ Head(queue) \in Calls /\ Tail(queue) \in Seq(Calls) /\ Head(queue) = queue[1]
        /\ 1 \in DOMAIN queue
        /\ \A i \in DOMAIN Tail(queue) : Tail(queue)[i] = queue[i + 1] /\ i + 1 \in DOMAIN queue
    BY <1>1, <1>3
  <2>2. Rest(w) = [Idle EXCEPT !.pc = "authorise", !.call = Head(queue), !.queue = Tail(queue)]
    BY <1>3 DEF Rest
  <2> HIDE DEF queue
  <2>3. /\ Rest(w) \in Jobs /\ Rest(w).pc = "authorise" /\ Rest(w).call = Head(queue)
        /\ Rest(w).queue = Tail(queue)
    BY <2>1, <2>2 DEF Idle, Jobs, Goals, Statuses
  <2>4. now[Head(queue)] # "none" /\ \A i \in DOMAIN Tail(queue) : now[Tail(queue)[i]] # "none"
    BY <2>1 DEF queue
  <2> QED BY <2>1, <2>3, <2>4 DEF Sound, Placing, Moving, Sending, Claimed
<1> QED BY <1>2, <1>3

LEMMA Rests ==
  ASSUME IInv, NEW w \in Workers, NEW new, new = Idle \/ new = Rest(w), Untaken(w),
         job' = [job EXCEPT ![w] = new],
         UNCHANGED <<setup, callReview, status, stale, counters>>
  PROVE  IInv'
<1>1. /\ new \in Jobs /\ new.pc \in {"idle", "authorise"}
      /\ Sound(new, status, foundReview)
  <2>1. CASE new = Idle
    BY <2>1, IdleIsSound
  <2>2. CASE new = Rest(w)
    <3>1. job[w] \in Jobs /\ \A i \in DOMAIN job[w].queue : status[job[w].queue[i]] # "none"
      BY JobIsSound DEF Sound
    <3> QED BY <2>2, <3>1, RestIsSound
  <2> QED BY <2>1, <2>2
<1>2. Follows(w, new)
  BY <1>1 DEF Follows, Untaken, Placing, Sending, Claimed
<1> QED BY <1>1, <1>2, Quiet DEF Untaken

\* A job that changes only its place, and its result at most.
LEMMA Advances ==
  ASSUME IInv, NEW w \in Workers, NEW new \in Jobs, new.call = job[w].call,
         new.goal = job[w].goal, new.sendNow = job[w].sendNow, new.queue = job[w].queue,
         \/ job[w].pc \in Placing /\ new.pc \in Placing
         \/ /\ job[w].pc \in Sending /\ new.pc \in Sending
            /\ new.pc \in Claimed => job[w].pc \in Claimed
            /\ new.pc = "settle" => new.result \in {"Failed", "Responded"},
         job' = [job EXCEPT ![w] = new],
         UNCHANGED <<setup, callReview, status, stale, counters, lock>>
  PROVE  IInv'
<1>1. Sound(job[w], status, foundReview) /\ Untaken(w)
  BY JobIsSound, Unlocks
<1>2. Sound(new, status, foundReview)
  <2>1. new.call \in Calls /\ \A i \in DOMAIN new.queue : status[new.queue[i]] # "none"
    BY <1>1 DEF Sound, Placing, Sending, Claimed
  <2>2. CASE job[w].pc \in Placing /\ new.pc \in Placing
    BY <1>1, <2>1, <2>2 DEF Sound, Placing, Moving, Sending, Claimed
  <2>3. CASE job[w].pc \in Sending /\ new.pc \in Sending
    <3>1. status[new.call] # "none"
      BY <1>1, <2>3 DEF Sound
    <3> QED BY <2>1, <2>3, <3>1 DEF Sound, Placing, Moving, Sending, Claimed
  <2> QED BY <2>2, <2>3
<1>3. Follows(w, new)
  BY <1>1, <1>2 DEF Follows, Untaken, Placing, Sending, Claimed
<1> QED BY <1>1, <1>3, Quiet DEF Untaken

LEMMA RequestSteps ==
  ASSUME IInv, NEW w \in Workers, CountOpen(w) \/ Vet(w) \/ Assemble(w)
  PROVE  IInv'
<1>1. /\ job[w].pc \in {"count", "vet", "assemble"}
      /\ UNCHANGED <<setup, callReview, status, stale, counters, lock>>
  BY DEF CountOpen, Vet, Assemble
<1>2. job[w] \in Jobs /\ Untaken(w)
  BY <1>1, JobIsSound, Unlocks
<1>3. \/ job' = [job EXCEPT ![w] = Idle]
      \/ \E pc \in {"vet", "assemble", "put"} : job' = [job EXCEPT ![w] = [job[w] EXCEPT !.pc = pc]]
  BY DEF CountOpen, Vet, Assemble, Become
<1>4. ASSUME NEW pc \in {"vet", "assemble", "put"},
             job' = [job EXCEPT ![w] = [job[w] EXCEPT !.pc = pc]]
      PROVE  IInv'
  <2> DEFINE new == [job[w] EXCEPT !.pc = pc]
  <2>1. /\ new \in Jobs /\ new.pc = pc /\ new.call = job[w].call /\ new.goal = job[w].goal
        /\ new.sendNow = job[w].sendNow /\ new.queue = job[w].queue
    BY <1>2 DEF Jobs
  <2> HIDE DEF new
  <2>2. job' = [job EXCEPT ![w] = new]
    BY <1>4 DEF new
  <2>3. job[w].pc \in Placing /\ new.pc \in Placing
    BY <1>1, <2>1 DEF Placing
  <2> QED BY <1>1, <2>1, <2>2, <2>3, Advances
<1> QED BY <1>1, <1>2, <1>3, <1>4, Rests

LEMMA SendSteps ==
  ASSUME IInv, NEW w \in Workers, Audit(w) \/ Reply(w) \/ Stage(w) \/ (Post(w) /\ UNCHANGED sends)
  PROVE  IInv'
<1>1. /\ job[w].pc \in {"audit", "reply", "stage", "post"} /\ job[w] \in Jobs
      /\ UNCHANGED <<setup, callReview, status, stale, counters, lock>>
  BY JobIsSound DEF Audit, Reply, Stage, Post, counters
<1>2. PICK new : /\ job' = [job EXCEPT ![w] = new]
                 /\ \/ job[w].pc = "audit" /\ new = [job[w] EXCEPT !.pc = "post"]
                    \/ job[w].pc = "post" /\ new = [job[w] EXCEPT !.pc = "reply"]
                    \/ job[w].pc = "reply" /\ new = [job[w] EXCEPT !.pc = "stage"]
                    \/ new = [job[w] EXCEPT !.pc = "settle", !.result = "Failed"]
                    \/ new = [job[w] EXCEPT !.pc = "settle", !.result = "Responded"]
  <2>1. CASE Audit(w)
    BY <2>1 DEF Audit, Become, AuditFailed, Fails
  <2>2. CASE Reply(w)
    BY <2>2 DEF Reply, Become, Fails
  <2>3. CASE Stage(w)
    BY <2>3 DEF Stage, Become, Fails
  <2>4. CASE Post(w)
    BY <2>4 DEF Post, Become, Fails
  <2> QED BY <2>1, <2>2, <2>3, <2>4
<1>3. /\ new \in Jobs /\ new.call = job[w].call /\ new.goal = job[w].goal
      /\ new.sendNow = job[w].sendNow /\ new.queue = job[w].queue
      /\ new.pc \in Sending /\ job[w].pc \in Sending
      /\ new.pc \in Claimed => job[w].pc \in Claimed
      /\ new.pc = "settle" => new.result \in {"Failed", "Responded"}
  BY <1>1, <1>2 DEF Jobs, Sending, Claimed, Statuses
<1> QED BY <1>1, <1>2, <1>3, Advances
LEMMA MoverBegins ==
  ASSUME IInv, NEW w \in Workers, NEW goal \in {"approve", "reject", "retry"}, Begin(w, goal)
  PROVE  IInv'
<1>1. PICK c \in Calls :
        /\ status[c] # "none"
        /\ job' = [job EXCEPT ![w] = [Idle EXCEPT !.pc = "check", !.goal = goal, !.call = c,
                                                  !.sendNow = (goal # "reject")]]
  BY DEF Begin, Become
<1> DEFINE onward == (goal # "reject")
           new == [Idle EXCEPT !.pc = "check", !.goal = goal, !.call = c, !.sendNow = onward]
<1>2. onward \in BOOLEAN
  OBVIOUS
<1>3. job' = [job EXCEPT ![w] = new]
  BY <1>1
<1> HIDE DEF onward, new
<1>4. /\ new \in Jobs /\ new.pc = "check" /\ new.goal = goal /\ new.call = c
      /\ new.queue = <<>>
  BY <1>2, IdleIsSound DEF Idle, Jobs, Goals, new
<1>5. UNCHANGED <<setup, callReview, status, stale, counters, lock>>
  BY DEF Begin
<1>6. Sound(new, status, foundReview)
  BY <1>1, <1>4 DEF Sound, Placing, Moving, Sending, Claimed, Movers
<1>7. Untaken(w)
  BY <1>5, Unlocks
<1>8. Follows(w, new)
  BY <1>4, <1>6, <1>7 DEF Follows, Untaken, Placing, Sending, Claimed
<1> QED BY <1>4, <1>3, <1>5, <1>7, <1>8, Quiet DEF Untaken

LEMMA Checks ==
  ASSUME IInv, NEW w \in Workers, Check(w)
  PROVE  IInv'
<1> DEFINE q == job[w]
           new == [q EXCEPT !.pc = "write"]
<1>1. /\ q.pc = "check" /\ lock = NoOne /\ q \in Jobs /\ Sound(q, status, foundReview)
      /\ UNCHANGED <<setup, callReview, status, stale, counters>>
  BY JobIsSound DEF Check
<1>2. \A v \in Workers : job[v].pc # "write"
  BY <1>1, AgentAssumption DEF IInv, Locked
<1>3. CASE MayMove(q)
  <2>1. /\ new \in Jobs /\ new.pc = "write" /\ new.goal = q.goal /\ new.call = q.call
        /\ new.queue = q.queue /\ new.sendNow = q.sendNow
    BY <1>1 DEF Jobs
  <2>2. lock' = w /\ job' = [job EXCEPT ![w] = new]
    BY <1>3 DEF Check, MayMove, Become, Holder
  <2> HIDE DEF new
  <2>3. Sound(new, status, foundReview)
    BY <1>1, <2>1 DEF Sound, Placing, Moving, Sending, Claimed
  <2>4. MayMove(new)
    BY <1>3, <2>1 DEF MayMove
  <2>5. Follows(w, new)
    BY <1>2, <2>1, <2>2, <2>3, <2>4 DEF Follows, Placing, Sending, Claimed
  <2> QED BY <1>1, <2>1, <2>2, <2>5, Quiet
<1>4. CASE ~MayMove(q)
  <2>1. lock' = NoOne /\ job' = [job EXCEPT ![w] = Rest(w)]
    BY <1>4 DEF Check, MayMove, Become
  <2>2. Untaken(w)
    BY <1>2, <2>1 DEF Untaken
  <2> QED BY <1>1, <2>1, <2>2, Rests
<1> QED BY <1>3, <1>4

LEMMA TimesOut ==
  ASSUME IInv, NEW w \in Workers, TimeOut(w)
  PROVE  IInv'
<1> DEFINE q == job[w]
           new == [q EXCEPT !.pc = "afloat", !.queue = <<>>]
<1>1. /\ q.pc = "write" /\ ~timely /\ q \in Jobs /\ Sound(q, status, foundReview)
      /\ job' = [job EXCEPT ![w] = new]
      /\ UNCHANGED <<setup, callReview, status, stale, counters>> /\ Untaken(w)
  BY JobIsSound, Unlocks DEF TimeOut, Become
<1>2. /\ new \in Jobs /\ new.pc = "afloat" /\ new.goal = q.goal /\ new.call = q.call
      /\ new.queue = <<>>
  <2>1. <<>> \in Seq(Calls)
    OBVIOUS
  <2> QED BY <1>1, <2>1 DEF Jobs
<1> HIDE DEF new
<1>3. Sound(new, status, foundReview)
  BY <1>1, <1>2 DEF Sound, Placing, Moving, Sending, Claimed
<1>4. Follows(w, new)
  BY <1>1, <1>2, <1>3 DEF Follows, Untaken, Placing, Sending, Claimed
<1> QED BY <1>1, <1>2, <1>4, Quiet DEF Untaken

LEMMA Dispatches ==
  ASSUME IInv, NEW w \in Workers, NEW limit \in Nat, DispatchApproved(w, limit)
  PROVE  IInv'
<1> DEFINE ready == {i \in DOMAIN order : Ready(order[i])}
           size  == IF Cardinality(ready) < limit THEN Cardinality(ready) ELSE limit
<1>1. PICK batch \in Oldest(limit) :
        /\ batch # <<>>
        /\ job' = [job EXCEPT ![w] = [Idle EXCEPT !.pc = "authorise", !.call = Head(batch),
                                                  !.queue = Tail(batch)]]
  BY DEF DispatchApproved, Become
<1>2. order \in Seq(Calls) /\ \A i \in DOMAIN order : status[order[i]] # "none"
  BY DEF IInv, TypeOK, Ledger
<1>3. size \in Nat
  <2>1. DOMAIN order = 1..Len(order) /\ Len(order) \in Nat
    BY <1>2
  <2>2. IsFiniteSet(DOMAIN order)
    BY <2>1, FS_Interval
  <2>3. Cardinality(ready) \in Nat
    BY <2>2, FS_Subset, FS_CardinalityType
  <2> QED BY <2>3
<1>4. PICK at \in [1..size -> ready] : batch = [k \in 1..size |-> order[at[k]]]
  BY DEF Oldest
<1> HIDE DEF size
<1>5. /\ batch \in Seq(Calls)
      /\ \A i \in DOMAIN batch : status[batch[i]] # "none"
  BY <1>2, <1>3, <1>4
<1>6. /\ Head(batch) \in Calls /\ Tail(batch) \in Seq(Calls) /\ status[Head(batch)] # "none"
      /\ \A i \in DOMAIN Tail(batch) : status[Tail(batch)[i]] # "none"
  <2>1. /\ Head(batch) = batch[1] /\ 1 \in DOMAIN batch /\ Tail(batch) \in Seq(Calls)
        /\ \A i \in DOMAIN Tail(batch) : Tail(batch)[i] = batch[i + 1] /\ i + 1 \in DOMAIN batch
    BY <1>1, <1>5
  <2> QED BY <1>5, <2>1
<1> DEFINE new == [Idle EXCEPT !.pc = "authorise", !.call = Head(batch), !.queue = Tail(batch)]
<1>7. /\ new \in Jobs /\ new.pc = "authorise" /\ new.call = Head(batch)
      /\ new.queue = Tail(batch)
  BY <1>6 DEF Idle, Jobs, Goals, Statuses
<1> HIDE DEF new
<1>8. /\ job' = [job EXCEPT ![w] = new]
      /\ UNCHANGED <<setup, callReview, status, stale, counters, lock>> /\ Untaken(w)
  BY <1>1, Unlocks DEF DispatchApproved, new
<1>9. Sound(new, status, foundReview)
  BY <1>6, <1>7 DEF Sound, Placing, Moving, Sending, Claimed
<1>10. Follows(w, new)
  BY <1>7, <1>8, <1>9 DEF Follows, Untaken, Placing, Sending, Claimed
<1> QED BY <1>7, <1>8, <1>10, Quiet DEF Untaken

LEMMA BatchSteps ==
  ASSUME IInv, NEW w \in Workers, MaySend(w) \/ MayNotSend(w) \/ CannotTell(w) \/ Abort(w)
  PROVE  IInv'
<1>1. UNCHANGED <<setup, callReview, status, stale, counters>> /\ Untaken(w)
  BY Unlocks DEF MaySend, MayNotSend, CannotTell, Abort
<1>2. CASE CannotTell(w) \/ Abort(w)
  BY <1>1, <1>2, Rests DEF CannotTell, Abort, Become
<1>3. CASE MaySend(w) \/ MayNotSend(w)
  <2>1. PICK goal \in {"send", "fail"} :
          job' = [job EXCEPT ![w] = [job[w] EXCEPT !.pc = "check", !.goal = goal]]
    BY <1>3 DEF MaySend, MayNotSend, Become
  <2> DEFINE q == job[w]
             new == [q EXCEPT !.pc = "check", !.goal = goal]
  <2>2. q \in Jobs /\ Sound(q, status, foundReview) /\ q.pc = "authorise"
    BY <1>3, JobIsSound DEF MaySend, MayNotSend
  <2>3. /\ new \in Jobs /\ new.pc = "check" /\ new.goal = goal /\ new.call = q.call
        /\ new.queue = q.queue
    BY <2>2 DEF Jobs, Goals
  <2> HIDE DEF new
  <2>4. job' = [job EXCEPT ![w] = new]
    BY <2>1 DEF new
  <2>5. Sound(new, status, foundReview)
    BY <2>2, <2>3 DEF Sound, Placing, Moving, Sending, Claimed, Movers
  <2>6. Follows(w, new)
    BY <1>1, <2>3, <2>5 DEF Follows, Untaken, Placing, Sending, Claimed
  <2> QED BY <1>1, <2>3, <2>4, <2>6, Quiet DEF Untaken
<1> QED BY <1>2, <1>3
-----------------------------------------------------------------------------
\* A transition is written to the ledger.
LEMMA MoveKeeps ==
  ASSUME IInv, NEW w \in Workers, job[w].pc \in {"write", "afloat"}, NEW new \in Jobs, Move(w),
         job' = [job EXCEPT ![w] = new], UNCHANGED <<setup, callReview, sends>>, Untaken(w),
         Sound(new, status', foundReview),
         \/ new.pc \in {"idle", "authorise", "check"}
         \/ /\ new.pc = "audit" /\ new.call = job[w].call
            /\ job[w].pc = "write" /\ job[w].goal = "send"
  PROVE  IInv'
<1> DEFINE q == job[w]
           c == q.call
           g == q.goal
<1>1. /\ q \in Jobs /\ Sound(q, status, foundReview) /\ c \in Calls /\ g \in Movers
      /\ status[c] # "none" /\ q.pc \notin Claimed
  BY JobIsSound DEF Sound, Moving, Claimed
<1>2. To(g) \in Statuses /\ To(g) # "none"
  BY <1>1, MoverGoes
<1>3. \A v \in Workers : job'[v] = IF v = w THEN new ELSE job[v]
  BY DEF IInv, TypeOK
<1>4. /\ status' = [status EXCEPT ![c] = To(g)]
      /\ stale' = [stale EXCEPT ![c] = IF g = "send" THEN FALSE ELSE @]
      /\ approvals' = [approvals EXCEPT ![c] = IF To(g) = "Approved" THEN @ + 1 ELSE @]
      /\ byPerson' = IF To(g) = "Approved" THEN byPerson \cup {c} ELSE byPerson
      /\ UNCHANGED <<timely, order, foundReview, callReview, sends>>
  BY DEF Move, setup
<1>5. TypeOK'
  <2> HIDE DEF c, g
  <2>1. status' \in [Calls -> Statuses] /\ byPerson' \subseteq Calls
    BY <1>1, <1>2, <1>4 DEF IInv, TypeOK
  <2>2. stale' \in [Calls -> BOOLEAN]
    <3>1. stale \in [Calls -> BOOLEAN]
      BY DEF IInv, TypeOK
    <3>2. CASE g = "send"
      BY <1>4, <3>1, <3>2
    <3>3. CASE g # "send"
      <4>1. stale' = [stale EXCEPT ![c] = stale[c]]
        BY <1>4, <3>3
      <4> QED BY <3>1, <4>1, Zenon
    <3> QED BY <3>2, <3>3
  <2>3. approvals' \in [Calls -> Nat]
    <3>1. approvals \in [Calls -> Nat] /\ c \in Calls /\ approvals[c] \in Nat
      BY <1>1 DEF IInv, TypeOK
    <3>2. CASE To(g) = "Approved"
      BY <1>4, <3>1, <3>2
    <3>3. CASE To(g) # "Approved"
      BY <1>4, <3>1, <3>3
    <3> QED BY <3>2, <3>3
  <2>4. job' \in [Workers -> Jobs] /\ lock' \in Workers \cup {NoOne}
    BY DEF IInv, TypeOK, Untaken
  <2> QED BY <1>4, <2>1, <2>2, <2>3, <2>4 DEF IInv, TypeOK
<1>6. /\ \A d \in Calls : status'[d] = IF d = c THEN To(g) ELSE status[d]
      /\ \A d \in Calls : (status[d] = "none") = (status'[d] = "none")
      /\ \A d \in Calls \ {c} : stale'[d] = stale[d] /\ approvals'[d] = approvals[d]
      /\ approvals'[c] = IF To(g) = "Approved" THEN approvals[c] + 1 ELSE approvals[c]
      /\ g = "send" => ~stale'[c]
  BY <1>1, <1>2, <1>4 DEF IInv, TypeOK
<1> HIDE DEF c, g
<1>7. JobsSound'
  <2>1. ASSUME NEW v \in Workers, v # w PROVE Sound(job[v], status', foundReview)
    <3>1. job[v].queue \in Seq(Calls) /\ Sound(job[v], status, foundReview)
      BY JobIsSound DEF Jobs
    <3> QED BY <1>6, <3>1, StaysSound
  <2>2. \A v \in Workers : Sound(job'[v], status', foundReview')
    BY <1>3, <1>4, <2>1
  <2>3. new.pc \notin Placing
    BY DEF Placing
  <2> QED BY <1>3, <2>2, <2>3 DEF IInv, JobsSound
<1>8. Locked'
  BY <1>3 DEF IInv, Locked, Untaken
<1>9. Ledger'
  <2>1. \A i \in DOMAIN order : status'[order[i]] # "none"
    <3>1. \A i \in DOMAIN order : order[i] \in Calls
      BY DEF IInv, TypeOK
    <3> QED BY <1>6, <3>1 DEF IInv, Ledger
  <2>2. ASSUME NEW d \in Calls
        PROVE  /\ status'[d] = "none" => approvals'[d] = 0
               /\ d \in foundReview /\ approvals'[d] > 0 => d \in byPerson'
    <3>1. /\ status[d] = "none" => approvals[d] = 0
          /\ d \in foundReview /\ approvals[d] > 0 => d \in byPerson
      BY DEF IInv, Ledger
    <3>2. CASE d = c
      BY <1>1, <1>4, <1>6, <3>1, <3>2 DEF c, g
    <3>3. CASE d # c
      BY <1>4, <1>6, <3>1, <3>3
    <3> QED BY <3>2, <3>3
  <2> QED BY <1>4, <2>1, <2>2 DEF Ledger
<1>10. Budget'
  <2> SUFFICES ASSUME NEW d \in Calls
               PROVE  Cardinality(Claimants(d))' + (IF Reserved(d)' THEN 1 ELSE 0) + sends[d]
                        <= approvals'[d]
    BY <1>4 DEF Budget
  <2>1. Cardinality(Claimants(d)) + (IF Reserved(d) THEN 1 ELSE 0) + sends[d] <= approvals[d]
    BY DEF IInv, Budget
  <2>2. sends[d] \in Nat /\ approvals[d] \in Nat /\ approvals[c] \in Nat
    BY <1>1 DEF IInv, TypeOK, c
  <2>3. Cardinality(Claimants(d)) \in Nat /\ w \notin Claimants(d) /\ TypeOK
    BY <1>1, ClaimantsCount DEF IInv, Claimants
  <2>4. /\ Cardinality(Claimants(d))' \in Nat
        /\ ~(new.pc \in Claimed /\ new.call = d) =>
             Cardinality(Claimants(d))' = Cardinality(Claimants(d))
        /\ new.pc \in Claimed /\ new.call = d =>
             Cardinality(Claimants(d))' = Cardinality(Claimants(d)) + 1
    <3>1. /\ Cardinality(Claimants(d))' \in Nat
          /\ ~(new.pc \in Claimed /\ new.call = d) =>
               Cardinality(Claimants(d))' =
                 Cardinality(Claimants(d)) - (IF w \in Claimants(d) THEN 1 ELSE 0)
          /\ new.pc \in Claimed /\ new.call = d =>
               Cardinality(Claimants(d))' =
                 Cardinality(Claimants(d)) + (IF w \in Claimants(d) THEN 0 ELSE 1)
      BY <2>3, ClaimsMove
    <3> QED BY <2>3, <3>1
  <2>5. ASSUME Reserved(d)', ~(d = c /\ To(g) = "Approved") PROVE Reserved(d)
    <3>1. status'[d] = "Approved" => status[d] = "Approved"
      BY <1>6, <2>5
    <3>2. ASSUME NEW v \in Workers, Taker(job'[v], d) PROVE v # w /\ Taker(job[v], d)
      BY <1>3, <3>2 DEF Taker
    <3> QED BY <2>5, <3>1, <3>2 DEF Reserved
  <2>6. CASE new.pc = "audit" /\ d = c
    <3>1. new.call = c /\ q.pc = "write" /\ g = "send"
      BY <2>6 DEF c, g
    <3>2. Reserved(d)
      BY <2>6, <3>1 DEF Reserved, Taker, c, g
    <3>3. ~Reserved(d)'
      <4>1. status'[d] = "Sending"
        BY <1>6, <2>6, <3>1, Moves
      <4>2. ASSUME NEW v \in Workers, Taker(job'[v], d) PROVE FALSE
        <5>1. v # w /\ job[v].pc = "write"
          BY <1>3, <2>6, <4>2 DEF Taker
        <5> QED BY <3>1, <5>1 DEF IInv, Locked
      <4> QED BY <4>1, <4>2 DEF Reserved
    <3>4. approvals'[d] = approvals[d]
      BY <1>6, <2>6, <3>1, Moves
    <3>5. Cardinality(Claimants(d))' = Cardinality(Claimants(d)) + 1
      BY <2>4, <2>6, <3>1 DEF Claimed
    <3> QED BY <2>1, <2>2, <2>3, <3>2, <3>3, <3>4, <3>5
  <2>7. CASE ~(new.pc = "audit" /\ d = c)
    <3>1. Cardinality(Claimants(d))' = Cardinality(Claimants(d))
      BY <2>4, <2>7 DEF Claimed, c
    <3>2. CASE d = c /\ To(g) = "Approved"
      <4>1. approvals'[d] = approvals[d] + 1
        BY <1>6, <3>2
      <4> QED BY <2>1, <2>2, <2>3, <3>1, <4>1
    <3>3. CASE ~(d = c /\ To(g) = "Approved")
      <4>1. approvals'[d] = approvals[d]
        BY <1>6, <3>3
      <4> QED BY <2>1, <2>2, <2>3, <2>5, <3>1, <3>3, <4>1
    <3> QED BY <3>2, <3>3
  <2> QED BY <2>6, <2>7
<1>11. ASSUME timely
       PROVE  /\ q.pc = "write" /\ lock = w
              /\ status[c] = "Sending" => stale[c]
  <2>1. q.pc = "write" /\ lock = w /\ MayMove(q)
    BY <1>11 DEF IInv, Prompt, Locked
  <2> QED BY <1>1, <2>1, Moves DEF MayMove, StaleSending, Movers, c, g
<1>12. Prompt'
  <2>1. ASSUME timely, NEW v \in Workers PROVE job'[v].pc \notin {"write", "afloat"}
    BY <1>3, <1>11, <2>1 DEF IInv, Locked, Prompt
  <2> QED BY <1>4, <2>1 DEF Prompt
<1>13. OneSenderAtATime'
  <2> SUFFICES ASSUME timely, NEW d \in Calls, NEW v \in Workers, SendingNow(v, d)'
               PROVE  /\ status'[d] = "Sending" /\ ~stale'[d]
                      /\ \A u \in Workers : SendingNow(u, d)' => u = v
    BY <1>4 DEF OneSenderAtATime
  <2>1. \A u \in Workers : SendingNow(u, d) =>
          /\ status[d] = "Sending" /\ ~stale[d]
          /\ \A x \in Workers : SendingNow(x, d) => x = u
    BY DEF IInv, OneSenderAtATime
  <2>2. \A u \in Workers \ {w} : SendingNow(u, d)' => SendingNow(u, d)
    BY <1>3 DEF SendingNow
  <2>3. CASE d = c
    <3>1. \A u \in Workers : ~SendingNow(u, d)
      BY <1>11, <2>1, <2>3
    <3>2. v = w
      BY <2>2, <3>1
    <3>3. g = "send"
      BY <1>3, <3>2 DEF SendingNow, g
    <3> QED BY <1>6, <2>2, <2>3, <3>1, <3>2, <3>3, Moves
  <2>4. CASE d # c
    <3>1. ~SendingNow(w, d)'
      BY <1>3, <2>4 DEF SendingNow, c
    <3> QED BY <1>6, <2>1, <2>2, <2>4, <3>1
  <2> QED BY <2>3, <2>4
<1> QED BY <1>5, <1>7, <1>8, <1>9, <1>10, <1>12, <1>13 DEF IInv
LEMMA MoveSteps ==
  ASSUME IInv, NEW w \in Workers, Write(w) \/ LoseAnswer(w) \/ Land(w)
  PROVE  IInv'
<1> DEFINE q == job[w]
<1>1. q.pc \in {"write", "afloat"} /\ Move(w) /\ UNCHANGED <<setup, callReview, sends>>
  BY DEF Write, LoseAnswer, Land
<1>2. Untaken(w)
  BY Unlocks DEF Write, LoseAnswer, Land
<1>3. q \in Jobs /\ q.queue \in Seq(Calls) /\ Sound(q, status, foundReview)
  BY JobIsSound DEF Jobs
<1>4. \A d \in Calls : (status[d] = "none") = (status'[d] = "none")
  <2>1. q.call \in Calls /\ q.goal \in Movers /\ status[q.call] # "none"
    BY <1>1, <1>3 DEF Sound, Moving
  <2>2. status' = [status EXCEPT ![q.call] = To(q.goal)] /\ To(q.goal) # "none"
    BY <1>1, <2>1, MoverGoes DEF Move
  <2> QED BY <2>1, <2>2 DEF IInv, TypeOK
<1>5. Sound(q, status', foundReview)
  BY <1>1, <1>3, <1>4, StaysSound DEF Placing
<1>6. \A i \in DOMAIN q.queue : status'[q.queue[i]] # "none"
  BY <1>5 DEF Sound
<1>7. CASE job' = [job EXCEPT ![w] = Idle]
  BY <1>1, <1>2, <1>7, IdleIsSound, MoveKeeps
<1>8. CASE job' = [job EXCEPT ![w] = Rest(w)]
  BY <1>1, <1>2, <1>3, <1>6, <1>8, RestIsSound, MoveKeeps
<1>9. CASE Write(w) /\ q.goal = "send"
  <2> DEFINE new == [q EXCEPT !.pc = "audit"]
  <2>1. q.pc = "write" /\ job' = [job EXCEPT ![w] = new]
    BY <1>9 DEF Write, Become
  <2>2. new \in Jobs /\ new.pc = "audit" /\ new.call = q.call /\ new.queue = q.queue
    BY <1>3 DEF Jobs
  <2> HIDE DEF new
  <2>3. Sound(new, status', foundReview)
    BY <1>5, <2>1, <2>2 DEF Sound, Placing, Moving, Sending, Claimed
  <2> QED BY <1>1, <1>2, <1>9, <2>1, <2>2, <2>3, MoveKeeps
<1>10. CASE Write(w) /\ q.goal # "send" /\ q.sendNow
  <2> DEFINE new == [q EXCEPT !.pc = "check", !.goal = "send", !.sendNow = FALSE]
  <2>1. q.pc = "write" /\ job' = [job EXCEPT ![w] = new]
    BY <1>10 DEF Write, Become
  <2>2. /\ new \in Jobs /\ new.pc = "check" /\ new.goal = "send" /\ new.call = q.call
        /\ new.queue = q.queue
    BY <1>3 DEF Jobs, Goals
  <2> HIDE DEF new
  <2>3. Sound(new, status', foundReview)
    BY <1>5, <2>1, <2>2 DEF Sound, Placing, Moving, Movers, Sending, Claimed
  <2> QED BY <1>1, <1>2, <2>1, <2>2, <2>3, MoveKeeps
<1> QED BY <1>7, <1>8, <1>9, <1>10 DEF Write, LoseAnswer, Land, Become

\* A call is asked for, on an endpoint whose review requirement is known now.
LEMMA Places ==
  ASSUME IInv, NEW w \in Workers, NEW c \in Calls, NEW policy \in BOOLEAN, Place(w, c, policy)
  PROVE  IInv'
<1> DEFINE now == policy /\ ~callReview
           new == [Idle EXCEPT !.pc = "count", !.goal = "request", !.call = c, !.sendNow = now]
<1>1. /\ status[c] = "none" /\ \A v \in Workers : job[v].call # c
      /\ job' = [job EXCEPT ![w] = new] /\ job[w].pc = "idle"
      /\ foundReview' = IF callReview THEN foundReview \cup {c} ELSE foundReview \ {c}
      /\ UNCHANGED <<timely, order, callReview, status, stale, approvals, byPerson, sends, lock>>
  BY DEF Place, Become, Queued, counters
<1>2. now \in BOOLEAN /\ (now => ~callReview)
  BY DEF IInv, TypeOK
<1> HIDE DEF now
<1>3. /\ new \in Jobs /\ new.pc = "count" /\ new.call = c /\ new.sendNow = now
      /\ new.queue = <<>>
  BY <1>2, IdleIsSound DEF Idle, Jobs, Goals
<1> HIDE DEF new
<1>4. \A v \in Workers : job'[v] = IF v = w THEN new ELSE job[v]
  BY <1>1 DEF IInv, TypeOK
<1>5. TypeOK'
  BY <1>1, <1>3 DEF IInv, TypeOK
<1>6. Sound(new, status, foundReview')
  <2>1. now => c \notin foundReview'
    BY <1>1, <1>2
  <2> QED BY <1>1, <1>3, <2>1 DEF Sound, Placing, Moving, Sending, Claimed
<1>7. JobsSound'
  <2>1. ASSUME NEW v \in Workers, v # w PROVE Sound(job[v], status, foundReview')
    <3>1. job[v].queue \in Seq(Calls) /\ Sound(job[v], status, foundReview) /\ job[v].call # c
      BY <1>1, JobIsSound DEF Jobs
    <3>2. job[v].call \notin foundReview => job[v].call \notin foundReview'
      BY <1>1, <3>1
    <3> QED BY <3>1, <3>2, StaysSound
  <2>2. \A v \in Workers : Sound(job'[v], status', foundReview')
    BY <1>1, <1>4, <1>6, <2>1
  <2>3. ASSUME NEW u \in Workers, NEW v \in Workers, job'[u].pc \in Placing,
               job'[v].pc \in Placing, job'[u].call = job'[v].call
        PROVE  u = v
    <3>1. CASE u # w /\ v # w
      BY <1>4, <2>3, <3>1 DEF IInv, JobsSound
    <3>2. CASE u = w \/ v = w
      BY <1>1, <1>3, <1>4, <2>3, <3>2
    <3> QED BY <3>1, <3>2
  <2> QED BY <2>2, <2>3 DEF JobsSound
<1>8. Locked'
  BY <1>1, <1>3, <1>4 DEF IInv, Locked
<1>9. Ledger'
  BY <1>1 DEF IInv, Ledger, TypeOK
<1>10. Budget'
  <2> SUFFICES ASSUME NEW d \in Calls
               PROVE  Cardinality(Claimants(d))' + (IF Reserved(d)' THEN 1 ELSE 0) + sends[d]
                        <= approvals[d]
    BY <1>1 DEF Budget
  <2>1. Cardinality(Claimants(d)) + (IF Reserved(d) THEN 1 ELSE 0) + sends[d] <= approvals[d]
    BY DEF IInv, Budget
  <2>2. Claimants(d)' = Claimants(d)
    BY <1>1, <1>3, <1>4 DEF Claimants, Claimed
  <2>3. Reserved(d)' <=> Reserved(d)
    <3>1. \A v \in Workers : Taker(job'[v], d) <=> Taker(job[v], d)
      BY <1>1, <1>3, <1>4 DEF Taker
    <3> QED BY <1>1, <3>1 DEF Reserved
  <2> QED BY <2>1, <2>2, <2>3
<1>11. Prompt'
  BY <1>1, <1>3, <1>4 DEF IInv, Prompt, MayMove, StaleSending
<1>12. OneSenderAtATime'
  <2>1. \A d \in Calls, v \in Workers : SendingNow(v, d)' <=> SendingNow(v, d)
    BY <1>1, <1>3, <1>4 DEF SendingNow
  <2> QED BY <1>1, <2>1 DEF IInv, OneSenderAtATime
<1> QED BY <1>5, <1>7, <1>8, <1>9, <1>10, <1>11, <1>12 DEF IInv
\* A call that was asked for is put into the ledger.
LEMMA Puts ==
  ASSUME IInv, NEW w \in Workers, Put(w)
  PROVE  IInv'
<1> DEFINE c == job[w].call
           queued == job[w].sendNow
           first == IF queued THEN "Approved" ELSE "PendingApproval"
<1>1. /\ job[w].pc = "put" /\ job[w] \in Jobs /\ Sound(job[w], status, foundReview)
      /\ c \in Calls /\ status[c] = "none" /\ (queued => c \notin foundReview)
  BY JobIsSound DEF Put, Sound, Placing
<1>2. /\ status' = [status EXCEPT ![c] = first] /\ order' = Append(order, c)
      /\ approvals' = [approvals EXCEPT ![c] = IF queued THEN @ + 1 ELSE @]
      /\ job' = [job EXCEPT ![w] = Idle]
      /\ UNCHANGED <<timely, foundReview, callReview, stale, byPerson, sends, lock>>
  BY DEF Put, Become
<1>3. first \in Statuses \ {"none"} /\ (first = "Approved" <=> queued)
  BY DEF Statuses
<1> HIDE DEF first
<1>4. \A v \in Workers : job'[v] = IF v = w THEN Idle ELSE job[v]
  BY <1>2 DEF IInv, TypeOK
<1>5. /\ \A d \in Calls : status'[d] = IF d = c THEN first ELSE status[d]
      /\ \A d \in Calls \ {c} : approvals'[d] = approvals[d]
      /\ approvals'[c] = IF queued THEN approvals[c] + 1 ELSE approvals[c]
      /\ approvals[c] = 0
  BY <1>1, <1>2 DEF IInv, TypeOK, Ledger
<1>6. TypeOK'
  <2>1. order' \in Seq(Calls) /\ status' \in [Calls -> Statuses] /\ job' \in [Workers -> Jobs]
    BY <1>1, <1>2, <1>3, IdleIsSound DEF IInv, TypeOK
  <2>2. approvals' \in [Calls -> Nat]
    <3>1. approvals \in [Calls -> Nat] /\ approvals[c] \in Nat
      BY <1>1 DEF IInv, TypeOK
    <3> DEFINE more == IF queued THEN approvals[c] + 1 ELSE approvals[c]
    <3>2. more \in Nat
      BY <3>1
    <3>3. approvals' = [approvals EXCEPT ![c] = more]
      BY <1>2
    <3> HIDE DEF more
    <3> QED BY <3>1, <3>2, <3>3
  <2> QED BY <1>2, <2>1, <2>2 DEF IInv, TypeOK
<1>7. Idle.pc = "idle"
  BY IdleIsSound
<1> HIDE DEF queued
<1>8. JobsSound'
  <2>1. ASSUME NEW v \in Workers, v # w PROVE Sound(job[v], status', foundReview)
    <3> DEFINE q == job[v]
    <3>1. q \in Jobs /\ q.queue \in Seq(Calls) /\ Sound(q, status, foundReview)
      BY JobIsSound DEF Jobs
    <3>2. q.pc \in Placing => q.call # c
      BY <1>1, <2>1 DEF IInv, JobsSound, Placing
    <3>3. \A d \in Calls : status[d] # "none" => status'[d] # "none"
      BY <1>3, <1>5
    <3>4. \A i \in DOMAIN q.queue : status'[q.queue[i]] # "none"
      <4>1. \A i \in DOMAIN q.queue : q.queue[i] \in Calls /\ status[q.queue[i]] # "none"
        BY <3>1 DEF Sound
      <4> QED BY <3>3, <4>1
    <3>5. q.pc # "idle" => q.call \in Calls
      BY <3>1 DEF Sound
    <3>6. q.pc \in Placing => status'[q.call] = "none" /\ (q.sendNow => q.call \notin foundReview)
      BY <1>5, <3>1, <3>2, <3>5 DEF Sound, Placing
    <3>7. q.pc \in Moving \cup Sending \cup {"authorise"} => status'[q.call] # "none"
      BY <3>1, <3>3, <3>5 DEF Sound, Moving, Sending, Claimed
    <3> QED BY <3>1, <3>4, <3>5, <3>6, <3>7 DEF Sound
  <2>2. \A v \in Workers : Sound(job'[v], status', foundReview')
    BY <1>2, <1>4, <2>1, IdleIsSound
  <2> QED BY <1>4, <1>7, <2>2 DEF IInv, JobsSound, Placing
<1>9. Locked'
  BY <1>2, <1>4, <1>7 DEF IInv, Locked
<1>10. Ledger'
  <2>1. ASSUME NEW i \in DOMAIN order' PROVE status'[order'[i]] # "none"
    <3>1. order \in Seq(Calls)
      BY DEF IInv, TypeOK
    <3>2. order'[i] = c \/ (i \in DOMAIN order /\ order'[i] = order[i] /\ order[i] \in Calls)
      BY <1>2, <2>1, <3>1
    <3> QED BY <1>1, <1>3, <1>5, <3>2 DEF IInv, Ledger
  <2>2. ASSUME NEW d \in Calls
        PROVE  /\ status'[d] = "none" => approvals'[d] = 0
               /\ d \in foundReview /\ approvals'[d] > 0 => d \in byPerson
    <3>1. CASE d = c
      BY <1>1, <1>3, <1>5, <3>1
    <3>2. CASE d # c
      BY <1>5, <3>2 DEF IInv, Ledger
    <3> QED BY <3>1, <3>2
  <2> QED BY <1>2, <2>1, <2>2 DEF Ledger
<1>11. Budget'
  <2> SUFFICES ASSUME NEW d \in Calls
               PROVE  Cardinality(Claimants(d))' + (IF Reserved(d)' THEN 1 ELSE 0) + sends[d]
                        <= approvals'[d]
    BY <1>2 DEF Budget
  <2>1. Cardinality(Claimants(d)) + (IF Reserved(d) THEN 1 ELSE 0) + sends[d] <= approvals[d]
    BY DEF IInv, Budget
  <2>2. /\ sends[d] \in Nat /\ approvals[d] \in Nat /\ Cardinality(Claimants(d)) \in Nat
    BY ClaimantsCount DEF IInv, TypeOK
  <2>3. Claimants(d)' = Claimants(d)
    BY <1>1, <1>4, <1>7 DEF Claimants, Claimed
  <2>4. ASSUME Reserved(d)', ~(d = c /\ queued) PROVE Reserved(d)
    <3>1. status'[d] = "Approved" => status[d] = "Approved"
      BY <1>3, <1>5, <2>4
    <3>2. ASSUME NEW v \in Workers, Taker(job'[v], d) PROVE Taker(job[v], d)
      BY <1>4, <1>7, <3>2 DEF Taker
    <3> QED BY <2>4, <3>1, <3>2 DEF Reserved
  <2>5. CASE d = c /\ queued
    <3>1. approvals'[d] = approvals[d] + 1
      BY <1>5, <2>5
    <3> QED BY <2>1, <2>2, <2>3, <3>1
  <2>6. CASE ~(d = c /\ queued)
    <3>1. approvals'[d] = approvals[d]
      BY <1>5, <2>6
    <3> QED BY <2>1, <2>2, <2>3, <2>4, <2>6, <3>1
  <2> QED BY <2>5, <2>6
<1>12. \A v \in Workers \ {w} : job[v].pc \in Moving \cup Sending => job[v].call \in Calls \ {c}
  <2>1. \A v \in Workers : Sound(job[v], status, foundReview)
    BY DEF IInv, JobsSound
  <2> QED BY <1>1, <2>1 DEF Sound, Moving, Sending, Claimed
<1>13. Prompt'
  <2>1. ASSUME timely, NEW v \in Workers
        PROVE  /\ job'[v].pc # "afloat"
               /\ job'[v].pc = "write" =>
                    \/ status'[job'[v].call] \in From(job'[v].goal)
                    \/ /\ status'[job'[v].call] = "Sending" /\ "Failed" \in From(job'[v].goal)
                       /\ stale[job'[v].call]
    <3>1. CASE v = w
      BY <1>4, <1>7, <3>1
    <3>2. CASE v # w
      <4>1. job'[v] = job[v] /\ job[v].pc # "afloat" /\ (job[v].pc = "write" => MayMove(job[v]))
        BY <1>4, <2>1, <3>2 DEF IInv, Prompt
      <4>2. job[v].pc = "write" => status'[job[v].call] = status[job[v].call]
        BY <1>5, <1>12, <3>2 DEF Moving
      <4> QED BY <4>1, <4>2 DEF MayMove, StaleSending
    <3> QED BY <3>1, <3>2
  <2> QED BY <1>2, <2>1 DEF Prompt, MayMove, StaleSending
<1>14. OneSenderAtATime'
  <2>1. ASSUME NEW v \in Workers, NEW d \in Calls, SendingNow(v, d)'
        PROVE  SendingNow(v, d) /\ d # c
    <3>1. v # w
      BY <1>4, <1>7, <2>1 DEF SendingNow
    <3> QED BY <1>4, <1>12, <2>1, <3>1 DEF SendingNow, Sending, Claimed
  <2> QED BY <1>2, <1>5, <2>1 DEF IInv, OneSenderAtATime
<1> QED BY <1>6, <1>8, <1>9, <1>10, <1>11, <1>13, <1>14 DEF IInv

\* A call's body leaves the bridge: one approval is used up.
LEMMA Sends ==
  ASSUME IInv, NEW w \in Workers, Post(w), ~UNCHANGED sends
  PROVE  IInv'
<1> DEFINE q == job[w]
           c == q.call
           new == [q EXCEPT !.pc = "reply"]
<1>1. /\ q.pc = "post" /\ q \in Jobs /\ Sound(q, status, foundReview) /\ c \in Calls
  BY JobIsSound DEF Post, Sound
<1>2. /\ sends' = [sends EXCEPT ![c] = @ + 1] /\ job' = [job EXCEPT ![w] = new]
      /\ UNCHANGED <<timely, order, foundReview, callReview, status, stale, approvals, byPerson,
                     lock>>
  BY DEF Post, Become, setup
<1>3. /\ new \in Jobs /\ new.pc = "reply" /\ new.call = c /\ new.queue = q.queue
  BY <1>1 DEF Jobs
<1> HIDE DEF new
<1>4. \A v \in Workers : job'[v] = IF v = w THEN new ELSE job[v]
  BY <1>2 DEF IInv, TypeOK
<1>5. TypeOK'
  <2>1. sends' \in [Calls -> Nat]
    <3>1. sends \in [Calls -> Nat] /\ sends[c] \in Nat
      BY <1>1 DEF IInv, TypeOK
    <3> QED BY <1>2, <3>1
  <2> QED BY <1>2, <1>3, <2>1 DEF IInv, TypeOK
<1>6. JobsSound'
  <2>1. Sound(new, status, foundReview)
    BY <1>1, <1>3 DEF Sound, Placing, Moving, Sending, Claimed
  <2>2. \A v \in Workers : Sound(job'[v], status', foundReview')
    BY <1>2, <1>4, <2>1 DEF IInv, JobsSound
  <2> QED BY <1>3, <1>4, <2>2 DEF IInv, JobsSound, Placing
<1>7. Locked' /\ Ledger'
  BY <1>2, <1>3, <1>4 DEF IInv, Locked, Ledger
<1>8. Budget'
  <2> SUFFICES ASSUME NEW d \in Calls
               PROVE  Cardinality(Claimants(d))' + (IF Reserved(d)' THEN 1 ELSE 0) + sends'[d]
                        <= approvals[d]
    BY <1>2 DEF Budget
  <2>1. Cardinality(Claimants(d)) + (IF Reserved(d) THEN 1 ELSE 0) + sends[d] <= approvals[d]
    BY DEF IInv, Budget
  <2>2. /\ sends[d] \in Nat /\ approvals[d] \in Nat /\ Cardinality(Claimants(d)) \in Nat
    BY ClaimantsCount DEF IInv, TypeOK
  <2>3. /\ Cardinality(Claimants(d))' \in Nat
        /\ Cardinality(Claimants(d))' =
             Cardinality(Claimants(d)) - (IF w \in Claimants(d) THEN 1 ELSE 0)
    <3>1. TypeOK /\ ~(new.pc \in Claimed /\ new.call = d)
      BY <1>3 DEF IInv, Claimed
    <3> QED BY <1>2, <3>1, ClaimsMove
  <2>4. w \in Claimants(d) <=> d = c
    BY <1>1 DEF Claimants, Claimed
  <2>5. Reserved(d)' <=> Reserved(d)
    <3>1. \A v \in Workers : Taker(job'[v], d) <=> Taker(job[v], d)
      BY <1>1, <1>3, <1>4 DEF Taker
    <3> QED BY <1>2, <3>1 DEF Reserved
  <2>6. sends'[d] = IF d = c THEN sends[d] + 1 ELSE sends[d]
    BY <1>2 DEF IInv, TypeOK
  <2> QED BY <2>1, <2>2, <2>3, <2>4, <2>5, <2>6
<1>9. Prompt'
  BY <1>2, <1>3, <1>4 DEF IInv, Prompt, MayMove, StaleSending
<1>10. OneSenderAtATime'
  <2>1. \A d \in Calls, v \in Workers : SendingNow(v, d)' <=> SendingNow(v, d)
    BY <1>1, <1>3, <1>4 DEF SendingNow
  <2> QED BY <1>2, <2>1 DEF IInv, OneSenderAtATime
<1> QED BY <1>5, <1>6, <1>7, <1>8, <1>9, <1>10 DEF IInv
\* A call that was sent is settled.  Nobody but its sender touches it then, if
\* replies are timely.
LEMMA Settles ==
  ASSUME IInv, NEW w \in Workers, Settle(w)
  PROVE  IInv'
<1> DEFINE q == job[w]
           c == q.call
           new == Rest(w)
           now == q.result
<1>1. /\ q.pc = "settle" /\ q \in Jobs /\ Sound(q, status, foundReview) /\ c \in Calls
      /\ status[c] # "none" /\ now \in {"Failed", "Responded"}
  BY JobIsSound DEF Settle, Sound, Sending
<1>2. /\ status' = [status EXCEPT ![c] = now] /\ job' = [job EXCEPT ![w] = new]
      /\ UNCHANGED <<timely, order, foundReview, callReview, stale, approvals, byPerson, sends,
                     lock>>
  BY DEF Settle, Become, setup, counters
<1>3. /\ \A d \in Calls : status'[d] = IF d = c THEN now ELSE status[d]
      /\ \A d \in Calls : (status[d] = "none") = (status'[d] = "none")
  BY <1>1, <1>2 DEF IInv, TypeOK
<1>4. Sound(q, status', foundReview)
  <2>1. q.queue \in Seq(Calls)
    BY <1>1 DEF Jobs
  <2> QED BY <1>1, <1>3, <2>1, StaysSound DEF Placing
<1>5. /\ new \in Jobs /\ new.pc \in {"idle", "authorise"}
      /\ Sound(new, status', foundReview)
  <2>1. \A i \in DOMAIN q.queue : status'[q.queue[i]] # "none"
    BY <1>4 DEF Sound
  <2> QED BY <1>1, <2>1, RestIsSound
<1> HIDE DEF new, now
<1>6. \A v \in Workers : job'[v] = IF v = w THEN new ELSE job[v]
  BY <1>2 DEF IInv, TypeOK
<1>7. TypeOK'
  BY <1>1, <1>2, <1>5 DEF IInv, TypeOK, Statuses
<1>8. JobsSound'
  <2>1. ASSUME NEW v \in Workers, v # w PROVE Sound(job[v], status', foundReview)
    <3>1. job[v].queue \in Seq(Calls) /\ Sound(job[v], status, foundReview)
      BY JobIsSound DEF Jobs
    <3> QED BY <1>3, <3>1, StaysSound
  <2>2. \A v \in Workers : Sound(job'[v], status', foundReview')
    BY <1>2, <1>5, <1>6, <2>1
  <2> QED BY <1>5, <1>6, <2>2 DEF IInv, JobsSound, Placing
<1>9. Locked'
  BY <1>2, <1>5, <1>6 DEF IInv, Locked
<1>10. Ledger'
  <2>1. \A i \in DOMAIN order : order[i] \in Calls
    BY DEF IInv, TypeOK
  <2> QED BY <1>2, <1>3, <2>1 DEF IInv, Ledger
<1>11. Budget'
  <2> SUFFICES ASSUME NEW d \in Calls
               PROVE  Cardinality(Claimants(d))' + (IF Reserved(d)' THEN 1 ELSE 0) + sends[d]
                        <= approvals[d]
    BY <1>2 DEF Budget
  <2>1. Cardinality(Claimants(d)) + (IF Reserved(d) THEN 1 ELSE 0) + sends[d] <= approvals[d]
    BY DEF IInv, Budget
  <2>2. /\ sends[d] \in Nat /\ approvals[d] \in Nat /\ Cardinality(Claimants(d)) \in Nat
    BY ClaimantsCount DEF IInv, TypeOK
  <2>3. Claimants(d)' = Claimants(d)
    BY <1>1, <1>5, <1>6 DEF Claimants, Claimed
  <2>4. ASSUME Reserved(d)' PROVE Reserved(d)
    <3>1. status'[d] = "Approved" => status[d] = "Approved"
      BY <1>1, <1>3
    <3>2. ASSUME NEW v \in Workers, Taker(job'[v], d) PROVE Taker(job[v], d)
      BY <1>5, <1>6, <3>2 DEF Taker
    <3> QED BY <2>4, <3>1, <3>2 DEF Reserved
  <2> QED BY <2>1, <2>2, <2>3, <2>4
<1>12. SendingNow(w, c)
  BY <1>1 DEF SendingNow
<1>13. Prompt'
  <2>1. ASSUME timely, NEW v \in Workers
        PROVE  /\ job'[v].pc # "afloat"
               /\ job'[v].pc = "write" =>
                    \/ status'[job'[v].call] \in From(job'[v].goal)
                    \/ /\ status'[job'[v].call] = "Sending" /\ "Failed" \in From(job'[v].goal)
                       /\ stale[job'[v].call]
    <3>1. CASE v = w
      BY <1>5, <1>6, <3>1
    <3>2. CASE v # w
      <4>1. job'[v] = job[v] /\ job[v].pc # "afloat" /\ (job[v].pc = "write" => MayMove(job[v]))
        BY <1>6, <2>1, <3>2 DEF IInv, Prompt
      <4>2. ASSUME job[v].pc = "write"
            PROVE  /\ job[v].call # c /\ job[v].call \in Calls
                   /\ MayMove(job[v])
        <5>1. status[c] = "Sending" /\ ~stale[c]
          BY <1>1, <1>12, <2>1 DEF IInv, OneSenderAtATime
        <5>2. job[v].goal \in Movers /\ job[v].call \in Calls
          BY <4>2, JobIsSound DEF Sound, Moving
        <5> QED BY <4>1, <4>2, <5>1, <5>2, Moves DEF MayMove, StaleSending, Movers
      <4>3. job[v].pc = "write" => status'[job[v].call] = status[job[v].call]
        BY <1>3, <4>2
      <4> QED BY <4>1, <4>2, <4>3 DEF MayMove, StaleSending
    <3> QED BY <3>1, <3>2
  <2> QED BY <1>2, <2>1 DEF Prompt, MayMove, StaleSending
<1>14. OneSenderAtATime'
  <2> SUFFICES ASSUME timely, NEW d \in Calls, NEW v \in Workers, SendingNow(v, d)'
               PROVE  /\ status'[d] = "Sending" /\ ~stale[d]
                      /\ \A u \in Workers : SendingNow(u, d)' => u = v
    BY <1>2 DEF OneSenderAtATime
  <2>1. \A u \in Workers : SendingNow(u, d)' => u # w /\ SendingNow(u, d)
    BY <1>5, <1>6 DEF SendingNow
  <2>2. \A u, x \in Workers : SendingNow(u, d) /\ SendingNow(x, d) =>
          status[d] = "Sending" /\ ~stale[d] /\ u = x
    BY DEF IInv, OneSenderAtATime
  <2>3. d # c
    BY <1>12, <2>1, <2>2
  <2> QED BY <1>3, <2>1, <2>2, <2>3
<1> QED BY <1>7, <1>8, <1>9, <1>10, <1>11, <1>13, <1>14 DEF IInv

LEMMA Ages ==
  ASSUME IInv, NEW c \in Calls, Age(c)
  PROVE  IInv'
<1>1. /\ stale' = [stale EXCEPT ![c] = TRUE]
      /\ UNCHANGED <<timely, order, foundReview, callReview, status, approvals, byPerson, sends,
                     lock, job>>
      /\ timely => \A w \in Workers : ~SendingNow(w, c)
  BY DEF Age, PresumedLost, setup, counters
<1>2. stale' \in [Calls -> BOOLEAN] /\ \A d \in Calls : stale'[d] = (d = c \/ stale[d])
  BY <1>1 DEF IInv, TypeOK
<1>3. TypeOK' /\ JobsSound' /\ Locked' /\ Ledger'
  BY <1>1, <1>2 DEF IInv, TypeOK, JobsSound, Locked, Ledger
<1>4. Budget'
  <2>1. \A d \in Calls : Claimants(d)' = Claimants(d) /\ (Reserved(d)' <=> Reserved(d))
    BY <1>1 DEF Claimants, Reserved
  <2> QED BY <1>1, <2>1 DEF IInv, Budget
<1>5. Prompt'
  <2>1. \A w \in Workers : job[w].pc = "write" => job[w].call \in Calls
    BY JobIsSound DEF Sound
  <2>2. \A d \in Calls : stale[d] => stale'[d]
    BY <1>2
  <2> QED BY <1>1, <2>1, <2>2 DEF IInv, Prompt, MayMove, StaleSending
<1>6. OneSenderAtATime'
  <2>1. \A d \in Calls, v \in Workers : SendingNow(v, d)' <=> SendingNow(v, d)
    BY <1>1 DEF SendingNow
  <2>2. \A d \in Calls \ {c} : stale'[d] <=> stale[d]
    BY <1>2
  <2> QED BY <1>1, <2>1, <2>2 DEF IInv, OneSenderAtATime
<1> QED BY <1>3, <1>4, <1>5, <1>6 DEF IInv

\* What a crash leaves: the updates the store still runs.
LEMMA Crashes ==
  ASSUME IInv, Crash
  PROVE  IInv'
<1>1. /\ job' = [w \in Workers |-> IF job[w].pc = "afloat" THEN job[w] ELSE Idle]
      /\ lock' = NoOne
      /\ UNCHANGED <<timely, order, foundReview, callReview, status, stale, approvals, byPerson,
                     sends>>
  BY DEF Crash, setup, counters
<1>2. \A w \in Workers : \/ job'[w] = job[w] /\ job[w].pc = "afloat"
                         \/ job'[w] = Idle
  BY <1>1
<1>3. Idle.pc = "idle" /\ Idle \in Jobs
  BY IdleIsSound
<1>4. TypeOK'
  BY <1>1, <1>3 DEF IInv, TypeOK
<1>5. JobsSound'
  <2>1. \A w \in Workers : Sound(job'[w], status, foundReview)
    BY <1>2, IdleIsSound DEF IInv, JobsSound
  <2> QED BY <1>1, <1>2, <1>3, <2>1 DEF JobsSound, Placing
<1>6. Locked' /\ Ledger'
  BY <1>1, <1>2, <1>3 DEF IInv, Locked, Ledger
<1>7. Budget'
  <2> SUFFICES ASSUME NEW d \in Calls
               PROVE  Cardinality(Claimants(d))' + (IF Reserved(d)' THEN 1 ELSE 0) + sends[d]
                        <= approvals[d]
    BY <1>1 DEF Budget
  <2>1. Cardinality(Claimants(d)) + (IF Reserved(d) THEN 1 ELSE 0) + sends[d] <= approvals[d]
    BY DEF IInv, Budget
  <2>2. /\ sends[d] \in Nat /\ approvals[d] \in Nat /\ Cardinality(Claimants(d)) \in Nat
    BY ClaimantsCount DEF IInv, TypeOK
  <2>3. Claimants(d)' = {}
    BY <1>2, <1>3 DEF Claimants, Claimed
  <2>4. Reserved(d)' => Reserved(d)
    BY <1>1, <1>2, <1>3 DEF Reserved, Taker
  <2> QED BY <2>1, <2>2, <2>3, <2>4, FS_EmptySet
<1>8. Prompt'
  BY <1>1, <1>2, <1>3 DEF IInv, Prompt
<1>9. OneSenderAtATime'
  BY <1>2, <1>3 DEF OneSenderAtATime, SendingNow
<1> QED BY <1>4, <1>5, <1>6, <1>7, <1>8, <1>9 DEF IInv

LEMMA NothingButReview ==
  ASSUME IInv, callReview' \in BOOLEAN,
         UNCHANGED <<setup, status, stale, counters, lock, job>>
  PROVE  IInv'
<1>1. UNCHANGED <<timely, order, foundReview, status, stale, approvals, byPerson, sends, lock, job>>
  BY DEF setup, counters
<1>2. TypeOK' /\ JobsSound' /\ Locked' /\ Ledger'
  BY <1>1 DEF IInv, TypeOK, JobsSound, Locked, Ledger
<1>3. Budget'
  <2>1. \A d \in Calls : Claimants(d)' = Claimants(d) /\ (Reserved(d)' <=> Reserved(d))
    BY <1>1 DEF Claimants, Reserved
  <2> QED BY <1>1, <2>1 DEF IInv, Budget
<1>4. Prompt' /\ OneSenderAtATime'
  BY <1>1 DEF IInv, Prompt, MayMove, StaleSending, OneSenderAtATime, SendingNow
<1> QED BY <1>2, <1>3, <1>4 DEF IInv
-----------------------------------------------------------------------------
LEMMA Starts ==
  ASSUME Init
  PROVE  IInv
<1>1. \A w \in Workers : job[w] = Idle
  BY DEF Init
<1>2. Idle.pc = "idle" /\ Idle \in Jobs
  BY IdleIsSound
<1>3. TypeOK
  BY <1>2 DEF Init, TypeOK, Statuses
<1>4. JobsSound
  BY <1>1, IdleIsSound DEF JobsSound, Placing
<1>5. Locked /\ Ledger
  BY <1>1, <1>2 DEF Init, Locked, Ledger
<1>6. Budget
  <2>1. ASSUME NEW c \in Calls PROVE Claimants(c) = {} /\ ~Reserved(c)
    BY <1>1, <1>2 DEF Init, Claimants, Claimed, Reserved, Taker
  <2> QED BY <2>1, FS_EmptySet DEF Init, Budget
<1>7. Prompt /\ OneSenderAtATime
  BY <1>1, <1>2 DEF Prompt, OneSenderAtATime, SendingNow
<1> QED BY <1>3, <1>4, <1>5, <1>6, <1>7 DEF IInv

LEMMA StepKeeps ==
  ASSUME IInv, [Next]_vars
  PROVE  IInv'
<1>1. ASSUME NEW w \in Workers, RequestAgentCall(w) \/ FireAgent(w) PROVE IInv'
  BY <1>1, Places DEF RequestAgentCall, FireAgent
<1>2. ASSUME NEW w \in Workers, ApproveAgentCall(w) \/ RejectAgentCall(w) \/ RetryAgentCall(w)
      PROVE  IInv'
  BY <1>2, MoverBegins DEF ApproveAgentCall, RejectAgentCall, RetryAgentCall
<1>3. ASSUME NEW w \in Workers, Serve(w) PROVE IInv'
  <2>1. CASE Post(w)
    BY <2>1, SendSteps, Sends
  <2> QED BY <1>3, <2>1, RequestSteps, Puts, Checks, MoveSteps, SendSteps, Settles DEF Serve
<1>4. ASSUME NEW w \in Workers, Dispatch(w) \/ DispatchOnDemand(w) PROVE IInv'
  <2>1. Limit \in Nat
    BY AgentAssumption
  <2>2. 1..Cardinality(Calls) \subseteq Nat
    BY AgentAssumption, FS_CardinalityType
  <2> QED BY <1>4, <2>1, <2>2, Dispatches DEF Dispatch, DispatchOnDemand
<1>5. ASSUME NEW w \in Workers,
             \/ TimeOut(w) \/ Land(w) \/ Abort(w)
             \/ MaySend(w) \/ MayNotSend(w) \/ CannotTell(w)
      PROVE  IInv'
  BY <1>5, TimesOut, MoveSteps, BatchSteps
<1>6. CASE Reregister \/ UNCHANGED vars
  <2>1. callReview' \in BOOLEAN /\ UNCHANGED <<setup, status, stale, counters, lock, job>>
    BY <1>6 DEF Reregister, vars, setup, counters, IInv, TypeOK
  <2> QED BY <2>1, NothingButReview
<1> QED BY <1>1, <1>2, <1>3, <1>4, <1>5, <1>6, Ages, Crashes DEF Next

\* The inductive invariant holds of every behaviour of agent calls.
THEOREM InductiveInvariant == Spec => []IInv
<1>1. Init => IInv
  BY Starts
<1>2. IInv /\ [Next]_vars => IInv'
  BY StepKeeps
<1> QED BY <1>1, <1>2, PTL DEF Spec

\* The types of the ledger, the lock and the workers' jobs, for any constants
\* that satisfy the assumption (agents/model.py:41-51).
THEOREM TypeCorrect == Spec => []TypeOK
<1>1. IInv => TypeOK
  BY DEF IInv
<1> QED BY <1>1, InductiveInvariant, PTL

\* Whatever crashes, replies late or is retried, a call leaves the bridge at
\* most once per approval, after a person's if its endpoint required review,
\* and from one worker at a time while replies are timely
\* (agents/service.py:338-362, 467-519).
THEOREM SendsWereApproved == Spec => []SendsAreSafe
<1>1. IInv => SendsAreSafe
  <2> SUFFICES ASSUME IInv PROVE SendsAreSafe
    OBVIOUS
  <2>1. ASSUME NEW c \in Calls
        PROVE  sends[c] <= approvals[c] /\ sends[c] \in Nat /\ approvals[c] \in Nat
    <3>1. sends[c] \in Nat /\ approvals[c] \in Nat /\ Cardinality(Claimants(c)) \in Nat
      BY ClaimantsCount DEF IInv, TypeOK
    <3>2. Cardinality(Claimants(c)) + (IF Reserved(c) THEN 1 ELSE 0) + sends[c] <= approvals[c]
      BY DEF IInv, Budget
    <3> QED BY <3>1, <3>2
  <2>2. AtMostOncePerApproval
    BY <2>1 DEF AtMostOncePerApproval
  <2>3. ReviewedIfRequired
    <3>1. foundReview \subseteq Calls
      BY DEF IInv, TypeOK
    <3>2. \A c \in Calls : sends[c] > 0 => approvals[c] > 0
      BY <2>1
    <3> QED BY <3>1, <3>2 DEF IInv, Ledger, ReviewedIfRequired
  <2> QED BY <2>2, <2>3 DEF SendsAreSafe, IInv
<1> QED BY <1>1, InductiveInvariant, PTL

\* While replies are timely every change of a call's status, by whichever of
\* any number of workers, is an arrow of the diagram in agents/model.py.
THEOREM DiagramIsFollowed == Spec => StatusFollowsDiagram
<1> DEFINE Arrow == timely => \A c \in Calls :
                      status'[c] # status[c] => <<status[c], status'[c]>> \in Arrows
<1>1. IInv /\ [Next]_vars => [Arrow]_vars
  <2> SUFFICES ASSUME IInv, Next, timely, NEW c \in Calls, status'[c] # status[c]
               PROVE  <<status[c], status'[c]>> \in Arrows
    BY DEF vars
  <2>1. PICK w \in Workers : Put(w) \/ Write(w) \/ LoseAnswer(w) \/ Land(w) \/ Settle(w)
    BY DEF Next, RequestAgentCall, FireAgent, Place, ApproveAgentCall, RejectAgentCall,
           RetryAgentCall, Begin, Serve, CountOpen, Vet, Assemble, Check, Audit, Post, Reply,
           Stage, TimeOut, Abort, Dispatch, DispatchOnDemand, DispatchApproved, MaySend,
           MayNotSend, CannotTell, Age, Crash, Reregister
  <2>2. Sound(job[w], status, foundReview) /\ status \in [Calls -> Statuses]
    BY JobIsSound DEF IInv, TypeOK
  <2>3. CASE Put(w)
    <3>1. status[job[w].call] = "none" /\ job[w].call \in Calls
      BY <2>2, <2>3 DEF Put, Sound, Placing
    <3>2. c = job[w].call /\ status'[c] \in {"Approved", "PendingApproval"}
      BY <2>2, <2>3 DEF Put
    <3> QED BY <3>1, <3>2 DEF Arrows
  <2>4. CASE Write(w) \/ LoseAnswer(w) \/ Land(w)
    <3>1. job[w].pc = "write" /\ MayMove(job[w]) /\ Move(w)
      BY <2>4 DEF Write, LoseAnswer, Land, IInv, Prompt
    <3>2. c = job[w].call /\ status'[c] = To(job[w].goal) /\ job[w].goal \in Movers
      BY <2>2, <3>1 DEF Move, Sound, Moving
    <3> QED BY <3>1, <3>2, Moves DEF MayMove, StaleSending, Movers, Arrows
  <2>5. CASE Settle(w)
    <3>1. c = job[w].call /\ status'[c] = job[w].result /\ job[w].pc = "settle"
      BY <2>2, <2>5 DEF Settle
    <3>2. status[c] = "Sending"
      BY <3>1 DEF IInv, OneSenderAtATime, SendingNow
    <3> QED BY <2>2, <3>1, <3>2 DEF Sound, Arrows
  <2> QED BY <2>1, <2>3, <2>4, <2>5
<1>2. StatusFollowsDiagram <=> [][Arrow]_vars
  BY DEF StatusFollowsDiagram
<1> QED BY <1>1, <1>2, InductiveInvariant, PTL DEF Spec
=============================================================================
