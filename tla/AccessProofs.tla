---------------------------- MODULE AccessProofs ----------------------------
(***************************************************************************)
(* Proofs about who is let in, for any people, requests, foundings and     *)
(* claimants: a write and a change of who rules were allowed, deactivation *)
(* strips, and the last ruler goes only by removals that overlap.  Then    *)
(* the MCP connector, for any clients, logins, names, pins and lifetimes:  *)
(* a login taken off the allowlist stops within one access-token lifetime, *)
(* a replayed refresh token ends its family, and a caller's choice of      *)
(* dataset and bank is kept.                                               *)
(***************************************************************************)
EXTENDS Access, Connector, SequenceTheorems, FiniteSetTheorems, TLAPS

Pasts == UNION {[S -> SUBSET Rights] : S \in SUBSET Persons}
Tasks == [ask : AnyAsk, todo : Seq(Questions), as : Persons, read : SUBSET Rights,
          ever : Pasts, unowned : BOOLEAN, fresh : SUBSET Rights, lent : BOOLEAN, raced : BOOLEAN]

\* Those of a set of people, holding what they do, who hold something of R.
With(has, R) == {p \in Persons : has[p] \cap R # {}}

Ahead(s)  == {s[i] : i \in DOMAIN s}
Due(t, q) == q \in Ahead(t.todo)

Changing == {"create", "grant", "revoke", "deactivate"}

\* The questions come in their order, and each with its operation.
PutQuestions ==
  {<<"isAdmin", "granted", "commit">>, <<"granted", "commit">>,
   <<"lent", "unrevoked", "lenderActive", "commit">>, <<"unrevoked", "lenderActive", "commit">>,
   <<"lenderActive", "commit">>, <<"commit">>}
InOrder(t) ==
  /\ t.todo # <<>> /\ t.todo[Len(t.todo)] \in {"commit", "roles"}
  /\ Due(t, "override") => Tail(t.todo) = Plan(t.ask)
  /\ t.ask.op = "put" /\ ~Due(t, "override") => t.todo \in PutQuestions
  /\ t.ask.op = "deactivate" /\ ~Due(t, "override") /\ Due(t, "roles") =>
       t.todo \in {<<"admin", "roles">>, <<"roles">>}
  /\ Due(t, "roles") \/ Due(t, "grants") => t.ask.op = "deactivate"
  /\ Due(t, "isAdmin") \/ Due(t, "granted") => t.ask.op \in {"put", "delegate"}

\* A request has lived through what holds now.
Remembers(t, has, loans) ==
  /\ t.ask.op \in Judged => {t.ask.who, t.as} \subseteq DOMAIN t.ever
  /\ \A p \in DOMAIN t.ever : has[p] \subseteq t.ever[p]
  /\ t.ask.op \in Judged /\ With(has, {"owner"}) = {} => t.unowned
  /\ t.ask.op = "put" /\ loans[<<t.ask.whom, t.as>>] \in {"live", "lapsed"} => t.lent

\* What a write has established, question by question.
Ruled(t, p) == t.ever[p] \cap Ruling # {}
MayPut(t) ==
  \/ Ruled(t, t.as)
  \/ t.as = t.ask.whom /\ t.ask.what \in t.ever[t.as]
  \/ t.lent /\ t.ask.what = "write"
Writes(t, loans) ==
  t.ask.op = "put" =>
    /\ t.as # t.ask.who /\ ~Due(t, "override") => Ruled(t, t.ask.who)
    /\ Head(t.todo) \in {"lent", "unrevoked", "lenderActive"} => t.ask.what = "write"
    /\ Head(t.todo) = "unrevoked" => loans[<<t.ask.whom, t.as>>] # "none"
    /\ Head(t.todo) = "lenderActive" => t.lent
    /\ t.todo = <<"commit">> => MayPut(t)

\* What a change of somebody's rights has established.
Settled(t) == t.ask.op \in Changing /\ (t.ask.op = "deactivate" => ~Due(t, "roles"))
Decides(t) ==
  /\ t.ask.op \in Changing /\ ~Due(t, "admin") => Ruled(t, t.ask.who)
  /\ Settled(t) /\ Touched(t) # {} /\ ~Due(t, "owner") =>
       \/ "owner" \in t.ever[t.ask.who]
       \/ "owner" \notin Touched(t) /\ (Due(t, "unowned") \/ t.unowned)

\* Unless somebody's role was taken meanwhile, those who were to be left are.
Leaves(t, has) ==
  Settled(t) /\ t.ask.op \in {"revoke", "deactivate"} /\ ~t.raced =>
    /\ "owner" \in Touched(t) /\ ~Due(t, "otherOwner") =>
         With(has, {"owner"}) \ {t.ask.whom} # {}
    /\ t.ask.op = "deactivate" /\ Touched(t) # {} /\ ~Due(t, "otherAdmin") =>
         With(has, Ruling) \ {t.ask.whom} # {}
    /\ t.ask.op = "revoke" /\ Touched(t) # {} /\ ~Due(t, "capacity") =>
         \/ With(has, Ruling) \ {t.ask.whom} # {}
         \/ (has[t.ask.whom] \cap Ruling) \ {t.ask.what} # {}

\* What a deactivation has not read was given since it began.
Strips(t, has, here) ==
  t.ask.op = "deactivate" /\ ~Due(t, "roles") =>
    /\ t.ask.whom \in here
    /\ has[t.ask.whom] \cap Ruling \subseteq t.read \cup t.fresh
    /\ ~Due(t, "grants") => has[t.ask.whom] \subseteq t.read \cup t.fresh

Sound(t, has, loans, here) ==
  /\ t \in Tasks /\ InOrder(t) /\ Remembers(t, has, loans)
  /\ Writes(t, loans) /\ Decides(t) /\ Leaves(t, has) /\ Strips(t, has, here)

StoreTyped ==
  /\ known \subseteq Persons /\ inactive \subseteq known /\ homes \subseteq Persons
  /\ rights \in [Persons -> SUBSET Rights]
  /\ dels \in [Persons \X Persons -> States]
  /\ acting \in [Persons -> Persons \cup {Nobody}]
  /\ events \in 0..MaxEvents

Underway == /\ task = [r \in Requests |-> task[r]]
            /\ \A r \in Requests : task[r] = Idle \/ Sound(task[r], rights, dels, known)

IInv == StoreTyped /\ Underway
-----------------------------------------------------------------------------
\* Sequences of questions: literal ones, joined ones, and the rest of one.
LEMMA Lists ==
  /\ <<>> \in Seq(Questions) /\ Ahead(<<>>) = {}
  /\ \A a \in Questions : <<a>> \in Seq(Questions) /\ Ahead(<<a>>) = {a}
  /\ \A a, b \in Questions : <<a, b>> \in Seq(Questions) /\ Ahead(<<a, b>>) = {a, b}
  /\ \A a, b, c \in Questions :
       <<a, b, c>> \in Seq(Questions) /\ Ahead(<<a, b, c>>) = {a, b, c}
<1>1. <<>> \in Seq(Questions) /\ Ahead(<<>>) = {}
  BY DEF Ahead
<1>2. ASSUME NEW a \in Questions PROVE <<a>> \in Seq(Questions) /\ Ahead(<<a>>) = {a}
  BY DEF Ahead
<1>3. ASSUME NEW a \in Questions, NEW b \in Questions
      PROVE  <<a, b>> \in Seq(Questions) /\ Ahead(<<a, b>>) = {a, b}
  BY DEF Ahead
<1>4. ASSUME NEW a \in Questions, NEW b \in Questions, NEW c \in Questions
      PROVE  <<a, b, c>> \in Seq(Questions) /\ Ahead(<<a, b, c>>) = {a, b, c}
  BY DEF Ahead
<1> QED BY <1>1, <1>2, <1>3, <1>4

LEMMA Joined ==
  ASSUME NEW s \in Seq(Questions), NEW t \in Seq(Questions)
  PROVE  /\ s \o t \in Seq(Questions) /\ Ahead(s \o t) = Ahead(s) \cup Ahead(t)
         /\ t # <<>> => s \o t # <<>> /\ (s \o t)[Len(s \o t)] = t[Len(t)]
<1> DEFINE u == s \o t
<1>1. /\ u \in Seq(Questions) /\ Len(u) = Len(s) + Len(t)
      /\ \A i \in 1 .. Len(s) + Len(t) : u[i] = IF i <= Len(s) THEN s[i] ELSE t[i - Len(s)]
  BY ConcatProperties
<1>2. /\ Len(s) \in Nat /\ DOMAIN s = 1..Len(s) /\ Len(t) \in Nat /\ DOMAIN t = 1..Len(t)
      /\ DOMAIN u = 1..Len(u)
  BY <1>1, LenProperties
<1> HIDE DEF u
<1>3. Ahead(u) \subseteq Ahead(s) \cup Ahead(t)
  <2>1. ASSUME NEW i \in DOMAIN u PROVE u[i] \in Ahead(s) \cup Ahead(t)
    <3>1. CASE i <= Len(s)
      BY <1>1, <1>2, <2>1, <3>1 DEF Ahead
    <3>2. CASE ~(i <= Len(s))
      <4>1. i - Len(s) \in DOMAIN t /\ u[i] = t[i - Len(s)]
        BY <1>1, <1>2, <2>1, <3>2
      <4> QED BY <4>1 DEF Ahead
    <3> QED BY <3>1, <3>2
  <2> QED BY <2>1 DEF Ahead
<1>4. Ahead(s) \subseteq Ahead(u)
  BY <1>1, <1>2 DEF Ahead
<1>5. Ahead(t) \subseteq Ahead(u)
  <2>1. ASSUME NEW j \in DOMAIN t PROVE t[j] \in Ahead(u)
    <3>1. j + Len(s) \in DOMAIN u /\ u[j + Len(s)] = t[j]
      BY <1>1, <1>2, <2>1
    <3> QED BY <3>1 DEF Ahead
  <2> QED BY <2>1 DEF Ahead
<1>6. t # <<>> => u # <<>> /\ u[Len(u)] = t[Len(t)]
  <2>1. t # <<>> => Len(t) > 0
    BY <1>2, EmptySeq
  <2>2. u = <<>> => Len(u) = 0
    OBVIOUS
  <2> QED BY <1>1, <1>2, <2>1, <2>2
<1> QED BY <1>1, <1>3, <1>4, <1>5, <1>6 DEF u

LEMMA Rest ==
  ASSUME NEW s \in Seq(Questions), s # <<>>
  PROVE  /\ Head(s) \in Questions /\ Tail(s) \in Seq(Questions)
         /\ Ahead(s) = {Head(s)} \cup Ahead(Tail(s))
         /\ Head(s) # s[Len(s)] => Tail(s) # <<>> /\ Tail(s)[Len(Tail(s))] = s[Len(s)]
<1>1. /\ Head(s) \in Questions /\ Tail(s) \in Seq(Questions) /\ Len(Tail(s)) = Len(s) - 1
      /\ \A i \in 1 .. Len(Tail(s)) : Tail(s)[i] = s[i+1]
  BY HeadTailProperties
<1>2. /\ Len(s) \in Nat /\ Len(s) > 0 /\ DOMAIN s = 1..Len(s) /\ Head(s) = s[1]
      /\ DOMAIN Tail(s) = 1..Len(Tail(s))
  BY <1>1, LenProperties, EmptySeq
<1> DEFINE u == Tail(s)
<1> HIDE DEF u
<1>3. Ahead(s) \subseteq {Head(s)} \cup Ahead(u)
  <2>1. ASSUME NEW i \in DOMAIN s PROVE s[i] = Head(s) \/ s[i] \in Ahead(u)
    <3>1. CASE i = 1
      BY <1>2, <3>1
    <3>2. CASE i # 1
      <4>1. i - 1 \in DOMAIN u /\ u[i - 1] = s[i]
        BY <1>1, <1>2, <2>1, <3>2 DEF u
      <4> QED BY <4>1 DEF Ahead
    <3> QED BY <3>1, <3>2
  <2> QED BY <2>1 DEF Ahead
<1>4. {Head(s)} \cup Ahead(u) \subseteq Ahead(s)
  <2>1. ASSUME NEW j \in DOMAIN u PROVE u[j] \in Ahead(s)
    <3>1. j + 1 \in DOMAIN s /\ u[j] = s[j + 1]
      BY <1>1, <1>2, <2>1 DEF u
    <3> QED BY <3>1 DEF Ahead
  <2>2. Head(s) \in Ahead(s)
    BY <1>2 DEF Ahead
  <2> QED BY <2>1, <2>2 DEF Ahead
<1>5. Head(s) # s[Len(s)] => u # <<>> /\ u[Len(u)] = s[Len(s)]
  <2>1. Head(s) # s[Len(s)] => Len(u) > 0 /\ Len(u) \in Nat /\ Len(u) = Len(s) - 1
    BY <1>1, <1>2 DEF u
  <2>2. u = <<>> => Len(u) = 0
    OBVIOUS
  <2>3. Len(u) > 0 => u[Len(u)] = s[Len(u) + 1]
    BY <1>1, <1>2 DEF u
  <2> QED BY <2>1, <2>2, <2>3, <1>2
<1> QED BY <1>1, <1>3, <1>4, <1>5 DEF u

\* What a request asks when it begins, an override apart.
Begins(s, a) ==
  /\ s \in Seq(Questions) /\ s # <<>> /\ s[Len(s)] \in {"commit", "roles"}
  /\ "override" \notin Ahead(s)
  /\ a.op = "put" => s = <<"isAdmin", "granted", "commit">>
  /\ a.op = "deactivate" => s = <<"admin", "roles">>
  /\ "roles" \in Ahead(s) => a.op = "deactivate"
  /\ "grants" \notin Ahead(s)
  /\ {"isAdmin", "granted"} \cap Ahead(s) # {} => a.op \in {"put", "delegate"}
  /\ a.op \in Changing => "admin" \in Ahead(s)
  /\ a.op \in Changing \ {"deactivate"} /\ a.what \in Ruling => "owner" \in Ahead(s)
  /\ a.op = "revoke" /\ a.what = "owner" => "otherOwner" \in Ahead(s)
  /\ a.op = "revoke" /\ a.what \in Ruling => "capacity" \in Ahead(s)

LEMMA Owners ==
  ASSUME NEW R
  PROVE  /\ OwnerFor(R) \in Seq(Questions)
         /\ Ahead(OwnerFor(R)) = IF R \cap Ruling = {} THEN {} ELSE {"owner"}
<1>1. CASE R \cap Ruling = {}
  BY <1>1, Lists DEF OwnerFor
<1>2. CASE R \cap Ruling # {}
  <2>1. "owner" \in Questions
    BY DEF Questions
  <2> QED BY <1>2, <2>1, Lists DEF OwnerFor
<1> QED BY <1>1, <1>2

LEMMA Lefts ==
  ASSUME NEW R, NEW gone \in Questions
  PROVE  /\ Left(R, gone) \in Seq(Questions)
         /\ Ahead(Left(R, gone)) = (IF "owner" \in R THEN {"otherOwner"} ELSE {})
                                     \cup (IF R \cap Ruling # {} THEN {gone} ELSE {})
<1> DEFINE s == IF "owner" \in R THEN <<"otherOwner">> ELSE <<>>
           t == IF R \cap Ruling # {} THEN <<gone>> ELSE <<>>
<1>1. s \in Seq(Questions) /\ Ahead(s) = IF "owner" \in R THEN {"otherOwner"} ELSE {}
  <2>1. CASE "owner" \in R
    <3>1. "otherOwner" \in Questions
      BY DEF Questions
    <3>2. s = <<"otherOwner">>
      BY <2>1
    <3> QED BY <2>1, <3>1, <3>2, Lists
  <2>2. CASE "owner" \notin R
    BY <2>2, Lists
  <2> QED BY <2>1, <2>2
<1>2. t \in Seq(Questions) /\ Ahead(t) = IF R \cap Ruling # {} THEN {gone} ELSE {}
  BY Lists
<1>3. Left(R, gone) = s \o t
  BY DEF Left
<1> HIDE DEF s, t
<1> QED BY <1>1, <1>2, <1>3, Joined

\* One question before or after others.
LEMMA OneMore ==
  ASSUME NEW s \in Seq(Questions), NEW q \in Questions
  PROVE  /\ LET u == s \o <<q>> IN
            /\ u \in Seq(Questions) /\ u # <<>> /\ u[Len(u)] = q
            /\ Ahead(u) = Ahead(s) \cup {q}
         /\ LET u == <<q>> \o s IN
            /\ u \in Seq(Questions) /\ u # <<>> /\ Head(u) = q /\ Tail(u) = s
            /\ s # <<>> => u[Len(u)] = s[Len(s)]
            /\ Ahead(u) = {q} \cup Ahead(s)
<1> DEFINE c == <<q>>
<1>1. c \in Seq(Questions) /\ Ahead(c) = {q}
  BY Lists
<1>2. c # <<>> /\ Len(c) = 1 /\ c[1] = q
  OBVIOUS
<1> HIDE DEF c
<1>3. /\ s \o c \in Seq(Questions) /\ s \o c # <<>> /\ (s \o c)[Len(s \o c)] = q
      /\ Ahead(s \o c) = Ahead(s) \cup {q}
  BY <1>1, <1>2, Joined
<1> DEFINE u == c \o s
<1>4. /\ u \in Seq(Questions) /\ Ahead(u) = {q} \cup Ahead(s)
      /\ s # <<>> => u[Len(u)] = s[Len(s)]
  BY <1>1, <1>2, Joined
<1>5. /\ Len(u) = 1 + Len(s)
      /\ \A i \in 1..(1 + Len(s)) : u[i] = IF i <= 1 THEN c[i] ELSE s[i - 1]
  <2>1. /\ Len(u) = Len(c) + Len(s)
        /\ \A i \in 1..(Len(c) + Len(s)) : u[i] = IF i <= Len(c) THEN c[i] ELSE s[i - Len(c)]
    BY <1>1, ConcatProperties
  <2> HIDE DEF u
  <2> QED BY <1>2, <2>1
<1> HIDE DEF u
<1>6. Len(s) \in Nat
  BY LenProperties
<1>7. u # <<>> /\ Head(u) = q
  <2>1. u # <<>>
    BY <1>4, <1>5, <1>6, EmptySeq
  <2> QED BY <1>2, <1>5, <1>6, <2>1
<1>8. Tail(u) = s
  <2>1. /\ Tail(u) \in Seq(Questions) /\ Len(Tail(u)) = Len(s)
        /\ \A i \in 1..Len(s) : Tail(u)[i] = u[i + 1]
    BY <1>4, <1>5, <1>6, <1>7, HeadTailProperties
  <2>2. \A i \in 1..Len(s) : Tail(u)[i] = s[i]
    BY <1>5, <1>6, <2>1
  <2> QED BY <2>1, <2>2, SeqEqual
<1> QED BY <1>3, <1>4, <1>7, <1>8 DEF c, u

LEMMA PlanBegins ==
  ASSUME NEW a \in AnyAsk
  PROVE  Begins(Plan(a), a)
<1> DEFINE x == {a.what}
           owners == OwnerFor(x)
           rest == Left(x, "capacity")
<1>1. a.op \in Ops
  BY DEF AnyAsk
<1>2. \A q \in Questions : <<q>> \in Seq(Questions) /\ Ahead(<<q>>) = {q}
  BY Lists
<1>3. {"override", "admin", "adminOnBehalf", "party", "holds", "active", "delegateActive", "home",
       "isAdmin", "granted", "unclaimed", "roles", "commit", "capacity"} \subseteq Questions
  BY DEF Questions
<1>4. owners \in Seq(Questions) /\ Ahead(owners) = IF a.what \in Ruling THEN {"owner"} ELSE {}
  <2>1. x \cap Ruling = {} <=> a.what \notin Ruling
    OBVIOUS
  <2> QED BY <2>1, Owners
<1>5. /\ rest \in Seq(Questions)
      /\ Ahead(rest) = (IF a.what = "owner" THEN {"otherOwner"} ELSE {})
                         \cup (IF a.what \in Ruling THEN {"capacity"} ELSE {})
  BY <1>3, Lefts
<1> HIDE DEF owners, rest
<1>6. CASE a.op \in {"create", "grant"}
  <2> DEFINE h == <<"admin">> \o owners
  <2>1. h \in Seq(Questions) /\ Ahead(h) = {"admin"} \cup Ahead(owners)
    BY <1>3, <1>4, OneMore
  <2>2. Plan(a) = h \o <<"commit">>
    BY <1>6 DEF Plan, owners
  <2> HIDE DEF h
  <2>3. /\ Plan(a) \in Seq(Questions) /\ Plan(a) # <<>> /\ Plan(a)[Len(Plan(a))] = "commit"
        /\ Ahead(Plan(a)) = {"admin", "commit"} \cup Ahead(owners)
    BY <2>1, <2>2, <1>3, OneMore
  <2> QED BY <1>4, <1>6, <2>3 DEF Begins, Changing
<1>7. CASE a.op = "revoke"
  <2> DEFINE h == <<"admin">> \o owners
             i == h \o <<"holds">>
             j == i \o rest
  <2>1. h \in Seq(Questions) /\ Ahead(h) = {"admin"} \cup Ahead(owners)
    BY <1>3, <1>4, OneMore
  <2>2. Plan(a) = j \o <<"commit">>
    BY <1>7 DEF Plan, owners, rest
  <2> HIDE DEF h
  <2>3. i \in Seq(Questions) /\ Ahead(i) = Ahead(h) \cup {"holds"}
    BY <1>3, <2>1, OneMore
  <2> HIDE DEF i
  <2>4. j \in Seq(Questions) /\ Ahead(j) = Ahead(i) \cup Ahead(rest)
    BY <1>5, <2>3, Joined
  <2> HIDE DEF j
  <2>5. /\ Plan(a) \in Seq(Questions) /\ Plan(a) # <<>> /\ Plan(a)[Len(Plan(a))] = "commit"
        /\ Ahead(Plan(a)) = {"admin", "holds", "commit"} \cup Ahead(owners) \cup Ahead(rest)
    BY <2>1, <2>2, <2>3, <2>4, <1>3, OneMore
  <2> QED BY <1>4, <1>5, <1>7, <2>5 DEF Begins, Changing
<1>8. CASE a.op = "deactivate"
  <2>1. Plan(a) = <<"admin", "roles">>
    BY <1>8 DEF Plan
  <2>2. Plan(a) \in Seq(Questions) /\ Ahead(Plan(a)) = {"admin", "roles"}
    BY <1>3, <2>1, Lists
  <2>3. Plan(a) # <<>> /\ Plan(a)[Len(Plan(a))] = "roles"
    BY <2>1
  <2> QED BY <1>8, <2>1, <2>2, <2>3 DEF Begins, Changing
<1>9. CASE a.op = "actAs"
  <2>1. Plan(a) = <<"admin", "active", "commit">>
    BY <1>9 DEF Plan
  <2>2. Plan(a) \in Seq(Questions) /\ Ahead(Plan(a)) = {"admin", "active", "commit"}
    BY <1>3, <2>1, Lists
  <2>3. Plan(a) # <<>> /\ Plan(a)[Len(Plan(a))] = "commit"
    BY <2>1
  <2> QED BY <1>9, <2>2, <2>3 DEF Begins, Changing
<1>10. CASE a.op \in {"reactivate", "cease", "assign", "undelegate", "claim"}
  <2>1. PICK q \in {"admin", "party", "unclaimed"} : Plan(a) = <<q, "commit">>
    BY <1>10 DEF Plan
  <2>2. Plan(a) \in Seq(Questions) /\ Ahead(Plan(a)) = {q, "commit"}
    BY <1>3, <2>1, Lists
  <2>3. Plan(a) # <<>> /\ Plan(a)[Len(Plan(a))] = "commit"
    BY <2>1
  <2> QED BY <1>10, <2>2, <2>3 DEF Begins, Changing
<1>11. MayWrite \in Seq(Questions) /\ Ahead(MayWrite) = {"isAdmin", "granted"}
  BY <1>3, Lists DEF MayWrite
<1>12. CASE a.op = "delegate"
  <2> DEFINE h == <<"adminOnBehalf", "delegateActive", "home">>
             i == h \o MayWrite
  <2>1. h \in Seq(Questions) /\ Ahead(h) = {"adminOnBehalf", "delegateActive", "home"}
    BY <1>3, Lists
  <2>2. Plan(a) = i \o <<"commit">>
    BY <1>12 DEF Plan
  <2> HIDE DEF h
  <2>3. i \in Seq(Questions) /\ Ahead(i) = Ahead(h) \cup Ahead(MayWrite)
    BY <1>11, <2>1, Joined
  <2> HIDE DEF i
  <2>4. /\ Plan(a) \in Seq(Questions) /\ Plan(a) # <<>> /\ Plan(a)[Len(Plan(a))] = "commit"
        /\ Ahead(Plan(a)) = {"adminOnBehalf", "delegateActive", "home", "isAdmin", "granted",
                             "commit"}
    BY <1>11, <2>1, <2>2, <2>3, <1>3, OneMore
  <2> QED BY <1>12, <2>4 DEF Begins, Changing
<1>13. CASE a.op = "put"
  <2> DEFINE s == MayWrite \o <<"commit">>
             u == <<"isAdmin", "granted", "commit">>
  <2>1. Plan(a) = s
    BY <1>13 DEF Plan
  <2>2. /\ s \in Seq(Questions) /\ s # <<>> /\ s[Len(s)] = "commit"
        /\ Ahead(s) = {"isAdmin", "granted", "commit"}
    BY <1>11, <1>3, OneMore
  <2>3. s = u
    <3> DEFINE c == <<"commit">>
    <3>1. u \in Seq(Questions) /\ Len(u) = 3
      BY <1>3, Lists
    <3>2. Len(MayWrite) = 2 /\ MayWrite[1] = "isAdmin" /\ MayWrite[2] = "granted"
      BY DEF MayWrite
    <3>3. c \in Seq(Questions) /\ Len(c) = 1 /\ c[1] = "commit" /\ s = MayWrite \o c
      BY <1>2, <1>3
    <3>4. u[1] = "isAdmin" /\ u[2] = "granted" /\ u[3] = "commit"
      OBVIOUS
    <3> HIDE DEF c, s, u
    <3>5. /\ Len(s) = 3
          /\ \A i \in 1..3 : s[i] = IF i <= 2 THEN MayWrite[i] ELSE c[i - 2]
      BY <1>11, <3>2, <3>3, ConcatProperties
    <3>6. \A i \in 1..3 : s[i] = u[i]
      <4>1. s[1] = "isAdmin" /\ s[2] = "granted" /\ s[3] = "commit"
        BY <3>2, <3>3, <3>5
      <4> QED BY <3>4, <4>1
    <3> QED BY <2>2, <3>1, <3>5, <3>6, SeqEqual
  <2> HIDE DEF s
  <2> QED BY <1>13, <2>1, <2>2, <2>3 DEF Begins, Changing
<1> QED BY <1>1, <1>6, <1>7, <1>8, <1>9, <1>10, <1>12, <1>13 DEF Ops
-----------------------------------------------------------------------------
\* What an answer tells, while the people hold has and what is lent is loans.
Learnt(t, q, has, loans, s) ==
  /\ q = "admin" => has[t.ask.who] \cap Ruling # {}
  /\ q = "owner" => \/ "owner" \in has[t.ask.who]
                    \/ "owner" \notin Touched(t) /\ "unowned" \in Ahead(s)
  /\ q = "unowned" => With(has, {"owner"}) = {}
  /\ q = "otherOwner" => With(has, {"owner"}) \ {t.ask.whom} # {}
  /\ q = "otherAdmin" => With(has, Ruling) \ {t.ask.whom} # {}
  /\ q = "capacity" => \/ With(has, Ruling) \ {t.ask.whom} # {}
                       \/ (has[t.ask.whom] \cap Ruling) \ {t.ask.what} # {}

\* A request goes on with the questions s once q is answered.
LEMMA GoesOn ==
  ASSUME NEW t, NEW has, NEW loans, NEW here, Sound(t, has, loans, here),
         NEW s \in Seq(Questions), NEW u, u = [t EXCEPT !.todo = s],
         InOrder(u), Writes(u, loans),
         NEW q, q \notin {"roles", "grants"}, Learnt(t, q, has, loans, s),
         Ahead(t.todo) \subseteq {q} \cup Ahead(s), "roles" \in Ahead(s) => Due(t, "roles")
  PROVE  Sound(u, has, loans, here)
<1>1. /\ t \in Tasks /\ Remembers(t, has, loans) /\ Decides(t) /\ Leaves(t, has)
      /\ Strips(t, has, here)
  BY DEF Sound
<1>2. u \in Tasks /\ u.todo = s
  BY <1>1 DEF Tasks
<1>3. /\ u.ask = t.ask /\ u.as = t.as /\ u.read = t.read /\ u.ever = t.ever
      /\ u.unowned = t.unowned /\ u.fresh = t.fresh /\ u.lent = t.lent /\ u.raced = t.raced
  BY <1>1 DEF Tasks
<1>4. /\ \A x : Due(t, x) => x = q \/ Due(u, x)
      /\ Due(u, "roles") <=> Due(t, "roles")
  BY <1>2 DEF Due
<1>5. Touched(u) = Touched(t) /\ (Settled(u) <=> Settled(t))
  BY <1>3, <1>4 DEF Touched, Settled
<1>6. Remembers(u, has, loans)
  BY <1>1, <1>3 DEF Remembers
<1>7. t.ask.op \in Changing =>
        /\ q = "admin" => Ruled(t, t.ask.who)
        /\ q = "owner" => \/ "owner" \in t.ever[t.ask.who]
                          \/ "owner" \notin Touched(t) /\ Due(u, "unowned")
        /\ q = "unowned" => t.unowned
  BY <1>1, <1>2 DEF Learnt, Remembers, Ruled, Changing, Judged, Due
<1>8. Decides(u)
  <2>1. u.ask.op \in Changing /\ ~Due(u, "admin") => Ruled(u, u.ask.who)
    BY <1>1, <1>3, <1>4, <1>7 DEF Decides, Ruled
  <2>2. ASSUME Settled(u), Touched(u) # {}, ~Due(u, "owner")
        PROVE  \/ "owner" \in u.ever[u.ask.who]
               \/ "owner" \notin Touched(u) /\ (Due(u, "unowned") \/ u.unowned)
    BY <1>1, <1>3, <1>4, <1>5, <1>7, <2>2 DEF Decides, Settled
  <2> QED BY <2>1, <2>2 DEF Decides
<1>9. Leaves(u, has)
  BY <1>1, <1>3, <1>4, <1>5 DEF Leaves, Learnt
<1>10. Strips(u, has, here)
  BY <1>1, <1>3, <1>4 DEF Strips
<1> QED BY <1>2, <1>6, <1>8, <1>9, <1>10 DEF Sound

\* What its order tells of the questions of a request.
LEMMA OrderTells ==
  ASSUME NEW t, NEW has, NEW loans, NEW here, Sound(t, has, loans, here)
  PROVE  /\ Head(t.todo) \in Questions /\ Tail(t.todo) \in Seq(Questions)
         /\ Ahead(t.todo) = {Head(t.todo)} \cup Ahead(Tail(t.todo))
         /\ Due(t, "override") <=> Head(t.todo) = "override"
         /\ Head(t.todo) \notin {"commit", "roles"} =>
              /\ Tail(t.todo) # <<>>
              /\ Tail(t.todo)[Len(Tail(t.todo))] \in {"commit", "roles"}
<1>1. t \in Tasks /\ InOrder(t)
  BY DEF Sound
<1>2. t.todo \in Seq(Questions) /\ t.todo # <<>> /\ t.todo[Len(t.todo)] \in {"commit", "roles"}
  BY <1>1 DEF Tasks, InOrder
<1>3. Begins(Plan(t.ask), t.ask)
  BY <1>1, PlanBegins DEF Tasks
<1>4. /\ Head(t.todo) \in Questions /\ Tail(t.todo) \in Seq(Questions)
      /\ Ahead(t.todo) = {Head(t.todo)} \cup Ahead(Tail(t.todo))
      /\ Head(t.todo) # t.todo[Len(t.todo)] =>
           Tail(t.todo) # <<>> /\ Tail(t.todo)[Len(Tail(t.todo))] = t.todo[Len(t.todo)]
  BY <1>2, Rest
<1>5. Due(t, "override") => "override" \notin Ahead(Tail(t.todo))
  BY <1>1, <1>3 DEF InOrder, Begins
<1> QED BY <1>2, <1>4, <1>5 DEF Due

\* A question answered: the request goes on with the rest.
LEMMA Advances ==
  ASSUME NEW t, NEW has, NEW loans, NEW here, Sound(t, has, loans, here),
         NEW u, u = [t EXCEPT !.todo = Tail(t.todo)],
         Head(t.todo) \notin {"commit", "override", "roles", "grants", "isAdmin", "granted"},
         Learnt(t, Head(t.todo), has, loans, Tail(t.todo)),
         Head(t.todo) = "lent" => loans[<<t.ask.whom, t.as>>] # "none",
         Head(t.todo) = "unrevoked" => loans[<<t.ask.whom, t.as>>] # "revoked",
         loans[<<t.ask.whom, t.as>>] \in States
  PROVE  Sound(u, has, loans, here)
<1> DEFINE q == Head(t.todo)
           s == Tail(t.todo)
<1>1. t \in Tasks /\ InOrder(t) /\ Writes(t, loans) /\ Remembers(t, has, loans)
  BY DEF Sound
<1>2. /\ q \in Questions /\ s \in Seq(Questions) /\ Ahead(t.todo) = {q} \cup Ahead(s)
      /\ ~Due(t, "override") /\ s # <<>> /\ s[Len(s)] \in {"commit", "roles"}
  BY OrderTells
<1>3. u.todo = s /\ u.ask = t.ask /\ u.as = t.as /\ u.ever = t.ever /\ u.lent = t.lent
  BY <1>1 DEF Tasks
<1>4. \A x : Due(u, x) => Due(t, x)
  BY <1>2, <1>3 DEF Due
<1>5. CASE t.ask.op = "put"
  <2>1. t.todo \in PutQuestions
    BY <1>1, <1>2, <1>5 DEF InOrder
  <2>2. \/ /\ t.todo = <<"lent", "unrevoked", "lenderActive", "commit">>
           /\ s = <<"unrevoked", "lenderActive", "commit">> /\ q = "lent"
        \/ /\ t.todo = <<"unrevoked", "lenderActive", "commit">>
           /\ s = <<"lenderActive", "commit">> /\ q = "unrevoked"
        \/ t.todo = <<"lenderActive", "commit">> /\ s = <<"commit">> /\ q = "lenderActive"
    <3>1. CASE t.todo = <<"lent", "unrevoked", "lenderActive", "commit">>
      BY <3>1
    <3>2. CASE t.todo = <<"unrevoked", "lenderActive", "commit">>
      BY <3>2
    <3>3. CASE t.todo = <<"lenderActive", "commit">>
      BY <3>3
    <3>4. t.todo \notin {<<"isAdmin", "granted", "commit">>, <<"granted", "commit">>, <<"commit">>}
      OBVIOUS
    <3> QED BY <2>1, <3>1, <3>2, <3>3, <3>4 DEF PutQuestions
  <2>3. s \in PutQuestions /\ Head(s) # "lent" /\ s # <<>>
    <3>1. s \in PutQuestions
      BY <2>2 DEF PutQuestions
    <3> QED BY <2>2, <3>1
  <2>4. t.ask.what = "write"
    BY <1>1, <1>5, <2>2 DEF Writes
  <2>5. q = "unrevoked" => t.lent
    BY <1>1, <1>5, <2>2 DEF Writes, Remembers, States
  <2>6. Head(s) = "unrevoked" => q = "lent"
    BY <2>2
  <2>7. Head(s) = "lenderActive" => q = "unrevoked"
    BY <2>2
  <2>8. s = <<"commit">> => t.lent
    <3>1. s = <<"commit">> => q = "lenderActive"
      BY <2>2
    <3> QED BY <1>1, <1>5, <3>1 DEF Writes
  <2> HIDE DEF q, s
  <2>9. Writes(u, loans)
    BY <1>1, <1>2, <1>3, <1>5, <2>4, <2>5, <2>6, <2>7, <2>8 DEF Writes, MayPut, Ruled, q
  <2>10. InOrder(u)
    BY <1>1, <1>2, <1>3, <1>4, <1>5, <2>3 DEF InOrder
  <2> QED BY <1>2, <2>9, <2>10, GoesOn DEF q, s, Due
<1>6. CASE t.ask.op # "put"
  <2>1. Writes(u, loans)
    BY <1>3, <1>6 DEF Writes
  <2>2. t.ask.op = "deactivate" /\ Due(u, "roles") => s \in {<<"admin", "roles">>, <<"roles">>}
    <3> SUFFICES ASSUME t.ask.op = "deactivate", Due(u, "roles") PROVE s = <<"roles">>
      OBVIOUS
    <3>1. t.todo \in {<<"admin", "roles">>, <<"roles">>}
      BY <1>1, <1>2, <1>4 DEF InOrder
    <3>2. t.todo # <<"roles">>
      OBVIOUS
    <3>3. t.todo = <<"admin", "roles">>
      BY <3>1, <3>2
    <3> QED BY <3>3
  <2> HIDE DEF s, q
  <2>3. InOrder(u)
    BY <1>1, <1>2, <1>3, <1>4, <1>6, <2>2 DEF InOrder
  <2> QED BY <1>2, <2>1, <2>3, GoesOn DEF q, s, Due
<1> QED BY <1>5, <1>6

\* The other way to go on: a write or a delegation skips questions.
LEMMA Skips ==
  ASSUME NEW t, NEW has, NEW loans, NEW here, Sound(t, has, loans, here),
         t.ask.op \in {"put", "delegate"}, NEW s \in Seq(Questions), NEW u,
         u = [t EXCEPT !.todo = s], InOrder(u), Writes(u, loans)
  PROVE  Sound(u, has, loans, here)
<1>1. t \in Tasks /\ Remembers(t, has, loans)
  BY DEF Sound
<1>2. /\ u \in Tasks /\ u.ask = t.ask /\ u.as = t.as /\ u.ever = t.ever
      /\ u.unowned = t.unowned /\ u.lent = t.lent
  BY <1>1 DEF Tasks
<1>3. Remembers(u, has, loans)
  BY <1>1, <1>2 DEF Remembers
<1>4. Decides(u) /\ Leaves(u, has) /\ Strips(u, has, here)
  BY <1>2 DEF Decides, Leaves, Strips, Settled, Changing
<1> QED BY <1>2, <1>3, <1>4 DEF Sound

LEMMA AdminSkips ==
  ASSUME NEW t, NEW has, NEW loans, NEW here, Sound(t, has, loans, here),
         Head(t.todo) = "isAdmin", NEW s, NEW u, u = [t EXCEPT !.todo = s],
         \/ s = <<"commit">> /\ has[Subject(t)] \cap Ruling # {}
         \/ s = Tail(t.todo)
  PROVE  Sound(u, has, loans, here)
<1>1. t \in Tasks /\ InOrder(t) /\ Writes(t, loans) /\ Remembers(t, has, loans)
  BY DEF Sound
<1>2. /\ Tail(t.todo) \in Seq(Questions) /\ Ahead(t.todo) = {"isAdmin"} \cup Ahead(Tail(t.todo))
      /\ ~Due(t, "override") /\ Due(t, "isAdmin") /\ Tail(t.todo) # <<>>
      /\ Tail(t.todo)[Len(Tail(t.todo))] \in {"commit", "roles"}
  BY OrderTells DEF Due
<1>3. t.ask.op \in {"put", "delegate"}
  BY <1>1, <1>2 DEF InOrder
<1>4. <<"commit">> \in Seq(Questions) /\ Ahead(<<"commit">>) = {"commit"}
  <2>1. "commit" \in Questions
    BY DEF Questions
  <2> QED BY <2>1, Lists
<1>5. /\ s \in Seq(Questions) /\ s # <<>> /\ s[Len(s)] \in {"commit", "roles"}
      /\ Ahead(s) \subseteq Ahead(t.todo) \cup {"commit"}
  <2>1. CASE s = <<"commit">>
    <3>1. s # <<>> /\ s[Len(s)] = "commit"
      BY <2>1
    <3> QED BY <1>4, <2>1, <3>1
  <2>2. CASE s = Tail(t.todo)
    BY <1>2, <2>2
  <2> QED BY <2>1, <2>2
<1>6. u.todo = s /\ u.ask = t.ask /\ u.as = t.as /\ u.ever = t.ever /\ u.lent = t.lent
  BY <1>1 DEF Tasks
<1>7. ~Due(u, "override") /\ ~Due(u, "roles") /\ ~Due(u, "grants")
  BY <1>1, <1>2, <1>3, <1>5, <1>6 DEF InOrder, Due
<1>8. CASE t.ask.op = "put"
  <2>1. t.todo = <<"isAdmin", "granted", "commit">>
    <3>1. t.todo \in PutQuestions
      BY <1>1, <1>2, <1>8 DEF InOrder
    <3>2. t.todo \notin {<<"granted", "commit">>, <<"lent", "unrevoked", "lenderActive", "commit">>,
                         <<"unrevoked", "lenderActive", "commit">>, <<"lenderActive", "commit">>,
                         <<"commit">>}
      OBVIOUS
    <3> QED BY <3>1, <3>2 DEF PutQuestions
  <2>2. \/ s = <<"commit">> /\ has[t.as] \cap Ruling # {}
        \/ s = <<"granted", "commit">>
    BY <1>8, <2>1 DEF Subject
  <2>3. s \in PutQuestions /\ Head(s) \in {"commit", "granted"}
    <3>1. s \in PutQuestions
      BY <2>2 DEF PutQuestions
    <3> QED BY <2>2, <3>1
  <2>4. s = <<"commit">> => Ruled(t, t.as)
    <3>1. s = <<"commit">> => has[t.as] \cap Ruling # {}
      BY <2>2
    <3> QED BY <1>1, <1>8, <3>1 DEF Remembers, Ruled, Judged
  <2>5. InOrder(u)
    BY <1>5, <1>6, <1>7, <1>8, <2>3 DEF InOrder
  <2>6. Writes(u, loans)
    BY <1>1, <1>2, <1>6, <1>8, <2>3, <2>4 DEF Writes, MayPut, Ruled
  <2> QED BY <1>3, <1>5, <2>5, <2>6, Skips
<1>9. CASE t.ask.op = "delegate"
  <2>1. InOrder(u) /\ Writes(u, loans)
    BY <1>5, <1>6, <1>7, <1>9 DEF InOrder, Writes
  <2> QED BY <1>3, <1>5, <2>1, Skips
<1> QED BY <1>3, <1>8, <1>9

LEMMA GrantSkips ==
  ASSUME NEW t, NEW has, NEW loans, NEW here, Sound(t, has, loans, here),
         Head(t.todo) = "granted", NEW s, NEW u, u = [t EXCEPT !.todo = s],
         \/ /\ s = <<"commit">>
            /\ Subject(t) = t.ask.whom /\ Needed(t) \in has[Subject(t)]
         \/ s = <<"lent", "unrevoked", "lenderActive", "commit">> /\ Needed(t) = "write"
  PROVE  Sound(u, has, loans, here)
<1>1. t \in Tasks /\ InOrder(t) /\ Writes(t, loans) /\ Remembers(t, has, loans)
  BY DEF Sound
<1>2. ~Due(t, "override") /\ Due(t, "granted")
  BY OrderTells DEF Due
<1>3. t.ask.op \in {"put", "delegate"}
  BY <1>1, <1>2 DEF InOrder
<1>4. <<"commit">> \in Seq(Questions) /\ Ahead(<<"commit">>) = {"commit"}
  <2>1. "commit" \in Questions
    BY DEF Questions
  <2> QED BY <2>1, Lists
<1>5. /\ s \in Seq(Questions) /\ s # <<>> /\ s[Len(s)] = "commit"
      /\ Ahead(s) \subseteq {"lent", "unrevoked", "lenderActive", "commit"}
      /\ s \in PutQuestions /\ Head(s) \in {"commit", "lent"}
  <2>1. CASE s = <<"commit">>
    <3>1. s # <<>> /\ s[Len(s)] = "commit" /\ Head(s) = "commit"
      BY <2>1
    <3>2. s \in PutQuestions
      BY <2>1 DEF PutQuestions
    <3> QED BY <1>4, <2>1, <3>1, <3>2
  <2>2. CASE s = <<"lent", "unrevoked", "lenderActive", "commit">>
    <3>1. s \in Seq({"lent", "unrevoked", "lenderActive", "commit"})
      BY <2>2
    <3>2. s \in Seq(Questions)
      BY <2>2 DEF Questions
    <3>3. Ahead(s) \subseteq {"lent", "unrevoked", "lenderActive", "commit"}
      BY <3>1, ElementOfSeq, LenProperties DEF Ahead
    <3>4. s # <<>> /\ s[Len(s)] = "commit" /\ Head(s) = "lent"
      BY <2>2
    <3>5. s \in PutQuestions
      BY <2>2 DEF PutQuestions
    <3> QED BY <3>2, <3>3, <3>4, <3>5
  <2> QED BY <2>1, <2>2
<1>6. u.todo = s /\ u.ask = t.ask /\ u.as = t.as /\ u.ever = t.ever /\ u.lent = t.lent
  BY <1>1 DEF Tasks
<1>7. /\ \A x \in {"override", "roles", "grants", "isAdmin", "granted"} : ~Due(u, x)
      /\ InOrder(u)
  BY <1>3, <1>5, <1>6 DEF InOrder, Due
<1>8. CASE t.ask.op = "put"
  <2>1. Subject(t) = t.as /\ Needed(t) = t.ask.what
    BY <1>8 DEF Subject, Needed
  <2>2. Head(s) = "lent" => t.ask.what = "write"
    <3>1. CASE s = <<"commit">>
      <4>1. Head(s) = "commit"
        BY <3>1
      <4> QED BY <4>1
    <3>2. CASE Needed(t) = "write"
      BY <2>1, <3>2
    <3> QED BY <3>1, <3>2
  <2>3. s = <<"commit">> => MayPut(t)
    <3>1. <<"lent", "unrevoked", "lenderActive", "commit">> # <<"commit">>
      OBVIOUS
    <3>2. s = <<"commit">> => t.as = t.ask.whom /\ t.ask.what \in has[t.as]
      BY <2>1, <3>1
    <3> QED BY <1>1, <1>8, <3>2 DEF Remembers, Judged, MayPut
  <2>4. Writes(u, loans)
    BY <1>1, <1>2, <1>5, <1>6, <1>8, <2>2, <2>3 DEF Writes, MayPut, Ruled
  <2> QED BY <1>3, <1>5, <1>7, <2>4, Skips
<1>9. CASE t.ask.op = "delegate"
  <2>1. Writes(u, loans)
    BY <1>6, <1>9 DEF Writes
  <2> QED BY <1>3, <1>5, <1>7, <2>1, Skips
<1> QED BY <1>3, <1>8, <1>9
-----------------------------------------------------------------------------
\* A deactivation reads the roles, and asks what they call for.
LEMMA RolesAreRead ==
  ASSUME NEW t, NEW has, NEW loans, NEW here, Sound(t, has, loans, here),
         has[t.ask.whom] \subseteq Rights,
         Head(t.todo) = "roles", t.ask.whom \in here,
         NEW R, R = has[t.ask.whom] \cap Ruling, NEW u,
         u = [t EXCEPT !.read = R,
                       !.todo = OwnerFor(R) \o Left(R, "otherAdmin") \o <<"grants", "commit">>]
  PROVE  Sound(u, has, loans, here)
<1>1. t \in Tasks /\ InOrder(t) /\ Remembers(t, has, loans) /\ Decides(t)
  BY DEF Sound
<1>2. ~Due(t, "override") /\ Due(t, "roles")
  BY OrderTells DEF Due
<1>3. t.ask.op = "deactivate"
  BY <1>1, <1>2 DEF InOrder
<1>4. t.todo = <<"roles">>
  <2>1. t.todo \in {<<"admin", "roles">>, <<"roles">>}
    BY <1>1, <1>2, <1>3 DEF InOrder
  <2>2. t.todo # <<"admin", "roles">>
    OBVIOUS
  <2> QED BY <2>1, <2>2
<1>5. Ruled(t, t.ask.who)
  <2>1. ~Due(t, "admin")
    <3>1. "roles" \in Questions
      BY DEF Questions
    <3>2. Ahead(<<"roles">>) = {"roles"}
      BY <3>1, Lists
    <3> QED BY <1>4, <3>2 DEF Due
  <2> QED BY <1>1, <1>3, <2>1 DEF Decides, Changing
<1> DEFINE o == OwnerFor(R)
           l == Left(R, "otherAdmin")
           c == <<"grants", "commit">>
           s == o \o l \o c
<1>6. o \in Seq(Questions) /\ Ahead(o) = IF R = {} THEN {} ELSE {"owner"}
  BY Owners
<1>7. /\ l \in Seq(Questions)
      /\ Ahead(l) = (IF "owner" \in R THEN {"otherOwner"} ELSE {})
                      \cup (IF R # {} THEN {"otherAdmin"} ELSE {})
  <2>1. "otherAdmin" \in Questions
    BY DEF Questions
  <2>2. R \cap Ruling = R
    OBVIOUS
  <2> QED BY <2>1, <2>2, Lefts
<1>8. c \in Seq(Questions) /\ Ahead(c) = {"grants", "commit"} /\ c # <<>> /\ c[Len(c)] = "commit"
  <2>1. {"grants", "commit"} \subseteq Questions
    BY DEF Questions
  <2>2. c # <<>> /\ c[Len(c)] = "commit"
    OBVIOUS
  <2> QED BY <2>1, <2>2, Lists
<1> HIDE DEF o, l, c
<1>9. o \o l \in Seq(Questions) /\ Ahead(o \o l) = Ahead(o) \cup Ahead(l)
  BY <1>6, <1>7, Joined
<1>10. /\ s \in Seq(Questions) /\ s # <<>> /\ s[Len(s)] = "commit"
       /\ Ahead(s) = Ahead(o) \cup Ahead(l) \cup {"grants", "commit"}
  BY <1>8, <1>9, Joined
<1>11. u = [t EXCEPT !.read = R, !.todo = s]
  BY DEF o, l, c
<1> HIDE DEF s
<1>12. R \subseteq Rights /\ R \subseteq Ruling
  BY DEF Rights
<1>13. /\ u \in Tasks /\ u.todo = s /\ u.read = R /\ u.ask = t.ask /\ u.as = t.as /\ u.ever = t.ever
       /\ u.unowned = t.unowned /\ u.fresh = t.fresh /\ u.lent = t.lent /\ u.raced = t.raced
  BY <1>1, <1>10, <1>11, <1>12 DEF Tasks
<1>14. /\ \A x \in {"override", "roles", "isAdmin", "granted"} : ~Due(u, x)
       /\ Due(u, "grants") /\ Touched(u) = R
       /\ R # {} => Due(u, "owner") /\ Due(u, "otherAdmin")
       /\ "owner" \in R => Due(u, "otherOwner")
  <2>1. \A x : Due(u, x) <=> x \in Ahead(o) \cup Ahead(l) \cup {"grants", "commit"}
    BY <1>10, <1>13 DEF Due
  <2>2. Touched(u) = R
    BY <1>3, <1>12, <1>13 DEF Touched
  <2> QED BY <1>6, <1>7, <2>1, <2>2
<1>15. InOrder(u)
  BY <1>3, <1>10, <1>13, <1>14 DEF InOrder
<1>16. Remembers(u, has, loans)
  BY <1>1, <1>13 DEF Remembers
<1>17. Writes(u, loans)
  BY <1>3, <1>13 DEF Writes
<1>18. Decides(u)
  BY <1>5, <1>13, <1>14 DEF Decides, Ruled
<1>19. Leaves(u, has)
  BY <1>3, <1>13, <1>14 DEF Leaves
<1>20. Strips(u, has, here)
  BY <1>13, <1>14 DEF Strips
<1> QED BY <1>13, <1>15, <1>16, <1>17, <1>18, <1>19, <1>20 DEF Sound

\* It then reads the grants.
LEMMA GrantsAreRead ==
  ASSUME NEW t, NEW has, NEW loans, NEW here, Sound(t, has, loans, here),
         has[t.ask.whom] \subseteq Rights, Head(t.todo) = "grants", NEW u,
         u = [t EXCEPT !.read = t.read \cup (has[t.ask.whom] \ Ruling), !.todo = Tail(t.todo)]
  PROVE  Sound(u, has, loans, here)
<1> DEFINE s == Tail(t.todo)
           read == t.read \cup (has[t.ask.whom] \ Ruling)
<1>1. /\ t \in Tasks /\ InOrder(t) /\ Remembers(t, has, loans) /\ Decides(t) /\ Leaves(t, has)
      /\ Strips(t, has, here)
  BY DEF Sound
<1>2. /\ s \in Seq(Questions) /\ Ahead(t.todo) = {"grants"} \cup Ahead(s) /\ ~Due(t, "override")
      /\ s # <<>> /\ s[Len(s)] \in {"commit", "roles"}
  BY OrderTells
<1>3. t.ask.op = "deactivate"
  BY <1>1, <1>2 DEF InOrder, Due
<1>4. ~Due(t, "roles")
  <2> SUFFICES ASSUME Due(t, "roles") PROVE FALSE
    OBVIOUS
  <2>1. t.todo \in {<<"admin", "roles">>, <<"roles">>}
    BY <1>1, <1>2, <1>3 DEF InOrder
  <2>2. t.todo # <<"admin", "roles">> /\ t.todo # <<"roles">>
    OBVIOUS
  <2> QED BY <2>1, <2>2
<1>5. read \in SUBSET Rights /\ read \cap Ruling = t.read \cap Ruling
  BY <1>1 DEF Tasks
<1>6. u = [t EXCEPT !.read = read, !.todo = s]
  OBVIOUS
<1>7. t.read \subseteq read /\ has[t.ask.whom] \subseteq read \cup (has[t.ask.whom] \cap Ruling)
  OBVIOUS
<1> HIDE DEF s, read
<1>8. /\ u \in Tasks /\ u.todo = s /\ u.read = read /\ u.ask = t.ask /\ u.as = t.as
      /\ u.ever = t.ever /\ u.unowned = t.unowned /\ u.fresh = t.fresh /\ u.lent = t.lent
      /\ u.raced = t.raced
  BY <1>1, <1>2, <1>5, <1>6 DEF Tasks
<1>9. /\ \A x : Due(u, x) => Due(t, x)
      /\ \A x : Due(t, x) => x = "grants" \/ Due(u, x)
  BY <1>2, <1>8 DEF Due
<1>10. Touched(u) = Touched(t) /\ Settled(t)
  BY <1>3, <1>4, <1>5, <1>8 DEF Touched, Settled, Changing
<1>11. InOrder(u)
  BY <1>1, <1>2, <1>3, <1>4, <1>8, <1>9 DEF InOrder
<1>12. Remembers(u, has, loans)
  BY <1>1, <1>8 DEF Remembers
<1>13. Writes(u, loans)
  BY <1>3, <1>8 DEF Writes
<1>14. Decides(u)
  BY <1>1, <1>8, <1>9, <1>10 DEF Decides, Ruled
<1>15. Leaves(u, has)
  BY <1>1, <1>8, <1>9, <1>10 DEF Leaves
<1>16. Strips(u, has, here)
  BY <1>1, <1>3, <1>4, <1>7, <1>8 DEF Strips
<1> QED BY <1>8, <1>11, <1>12, <1>13, <1>14, <1>15, <1>16 DEF Sound
-----------------------------------------------------------------------------
\* A request that begins, or whose override has been settled.
LEMMA Fresh ==
  ASSUME NEW t \in Tasks, NEW has, NEW loans, NEW here, Remembers(t, has, loans),
         t.todo \in {Plan(t.ask), <<"override">> \o Plan(t.ask)},
         t.ask.op = "put" /\ t.as # t.ask.who /\ t.todo = Plan(t.ask) => Ruled(t, t.ask.who)
  PROVE  Sound(t, has, loans, here)
<1> DEFINE s == Plan(t.ask)
<1>1. Begins(s, t.ask) /\ t.ask \in AnyAsk
  BY PlanBegins DEF Tasks
<1>2. "override" \in Questions
  BY DEF Questions
<1> DEFINE v == <<"override">> \o s
<1>3. /\ v \in Seq(Questions) /\ v # <<>> /\ Head(v) = "override" /\ Tail(v) = s
      /\ v[Len(v)] = s[Len(s)] /\ Ahead(v) = {"override"} \cup Ahead(s)
  BY <1>1, <1>2, OneMore DEF Begins
<1>4. t.todo \in {s, v}
  OBVIOUS
<1> HIDE DEF s, v
<1>5. /\ \A x : x # "override" => (Due(t, x) <=> x \in Ahead(s))
      /\ Due(t, "override") => t.todo = v
      /\ ~Due(t, "override") => t.todo = s
  BY <1>1, <1>3, <1>4 DEF Due, Begins
<1>6. InOrder(t)
  <2>1. t.todo # <<>> /\ t.todo[Len(t.todo)] \in {"commit", "roles"}
    BY <1>1, <1>3, <1>4 DEF Begins
  <2>2. Due(t, "override") => Tail(t.todo) = Plan(t.ask)
    BY <1>3, <1>5 DEF s
  <2>3. t.ask.op = "put" /\ ~Due(t, "override") => t.todo \in PutQuestions
    BY <1>1, <1>5 DEF Begins, PutQuestions
  <2>4. t.ask.op = "deactivate" /\ ~Due(t, "override") => t.todo = <<"admin", "roles">>
    BY <1>1, <1>5 DEF Begins
  <2> QED BY <1>1, <1>5, <2>1, <2>2, <2>3, <2>4 DEF InOrder, Begins
<1>7. Writes(t, loans)
  <2> SUFFICES ASSUME t.ask.op = "put" PROVE Writes(t, loans)
    BY DEF Writes
  <2>1. s = <<"isAdmin", "granted", "commit">>
    BY <1>1 DEF Begins
  <2>2. Head(s) = "isAdmin" /\ s # <<"commit">>
    BY <2>1
  <2>3. Head(t.todo) \in {"override", "isAdmin"}
    BY <1>3, <1>4, <2>2
  <2>4. t.todo # <<"commit">>
    <3>1. Head(<<"commit">>) = "commit"
      OBVIOUS
    <3> QED BY <2>3, <3>1
  <2>5. t.as # t.ask.who /\ ~Due(t, "override") => Ruled(t, t.ask.who)
    BY <1>5 DEF s
  <2> QED BY <2>3, <2>4, <2>5 DEF Writes
<1>8. t.ask.op = "deactivate" => Due(t, "roles")
  <2>1. {"admin", "roles"} \subseteq Questions
    BY DEF Questions
  <2>2. Ahead(<<"admin", "roles">>) = {"admin", "roles"}
    BY <2>1, Lists
  <2> QED BY <1>1, <1>5, <2>2 DEF Begins
<1>9. /\ t.ask.op \in Changing => Due(t, "admin")
      /\ Settled(t) /\ Touched(t) # {} => Due(t, "owner")
      /\ Settled(t) /\ t.ask.op = "revoke" /\ "owner" \in Touched(t) => Due(t, "otherOwner")
      /\ Settled(t) /\ t.ask.op = "revoke" /\ Touched(t) # {} => Due(t, "capacity")
      /\ Settled(t) => t.ask.op # "deactivate"
  <2>1. t.ask.op # "deactivate" => Touched(t) = {t.ask.what} \cap Ruling
    BY DEF Touched
  <2> QED BY <1>1, <1>5, <1>8, <2>1 DEF Begins, Settled, Changing
<1>10. Decides(t) /\ Leaves(t, has) /\ Strips(t, has, here)
  BY <1>8, <1>9 DEF Decides, Leaves, Strips
<1> QED BY <1>6, <1>7, <1>10 DEF Sound

\* A request that another one's update has passed by: what Witness makes of t
\* when rights become has2 and delegations loans2.
Lost(has, has2) == \E p \in Persons : (has[p] \ has2[p]) \cap Ruling # {}
Witnessed(t, has, has2, loans2) ==
  [t EXCEPT
     !.ever = [p \in DOMAIN @ |-> @[p] \cup has2[p]],
     !.unowned = @ \/ (t.ask.op \in Judged /\ \A p \in Persons : "owner" \notin has2[p]),
     !.fresh = @ \cup (IF t.ask.op = "deactivate"
                         THEN has2[t.ask.whom] \ has[t.ask.whom] ELSE {}),
     !.lent = @ \/ (t.ask.op = "put" /\ loans2[<<t.ask.whom, t.as>>] \in {"live", "lapsed"}),
     !.raced = @ \/ (t.ask.op \in {"revoke", "deactivate"} /\ Lost(has, has2))]

LEMMA PassedBy ==
  ASSUME NEW t, NEW has \in [Persons -> SUBSET Rights], NEW loans, NEW here,
         Sound(t, has, loans, here),
         NEW has2 \in [Persons -> SUBSET Rights], NEW loans2, NEW here2, here \subseteq here2,
         loans[<<t.ask.whom, t.as>>] # "none" => loans2[<<t.ask.whom, t.as>>] # "none",
         NEW u, u = Witnessed(t, has, has2, loans2)
  PROVE  Sound(u, has2, loans2, here2)
<1>1. /\ t \in Tasks /\ InOrder(t) /\ Remembers(t, has, loans) /\ Writes(t, loans) /\ Decides(t)
      /\ Leaves(t, has) /\ Strips(t, has, here)
  BY DEF Sound
<1>2. /\ t.ask.whom \in Persons /\ t.ask.who \in Persons /\ t.as \in Persons
      /\ t.fresh \subseteq Rights
      /\ t.unowned \in BOOLEAN /\ t.lent \in BOOLEAN /\ t.raced \in BOOLEAN
  BY <1>1 DEF Tasks, AnyAsk
<1> DEFINE e == [p \in DOMAIN t.ever |-> t.ever[p] \cup has2[p]]
           f == t.fresh \cup (IF t.ask.op = "deactivate"
                                THEN has2[t.ask.whom] \ has[t.ask.whom] ELSE {})
           o == t.unowned \/ (t.ask.op \in Judged /\ \A p \in Persons : "owner" \notin has2[p])
           l == t.lent \/ (t.ask.op = "put" /\ loans2[<<t.ask.whom, t.as>>] \in {"live", "lapsed"})
           c == t.raced \/ (t.ask.op \in {"revoke", "deactivate"} /\ Lost(has, has2))
<1>3. t.ever \in Pasts
  BY <1>1 DEF Tasks
<1>4. PICK S \in SUBSET Persons : t.ever \in [S -> SUBSET Rights]
  BY <1>3 DEF Pasts
<1>5. e \in Pasts /\ DOMAIN e = DOMAIN t.ever /\ \A p \in DOMAIN e : e[p] = t.ever[p] \cup has2[p]
  <2>1. e \in [S -> SUBSET Rights]
    BY <1>4
  <2>2. DOMAIN e = DOMAIN t.ever /\ \A p \in DOMAIN e : e[p] = t.ever[p] \cup has2[p]
    OBVIOUS
  <2> HIDE DEF e
  <2> QED BY <2>1, <2>2 DEF Pasts
<1>6. /\ f \subseteq Rights /\ t.fresh \subseteq f
      /\ t.ask.op = "deactivate" => has2[t.ask.whom] \ has[t.ask.whom] \subseteq f
  BY <1>2
<1>7. o \in BOOLEAN /\ l \in BOOLEAN /\ c \in BOOLEAN
  BY <1>2
<1>8. u = [t EXCEPT !.ever = e, !.unowned = o, !.fresh = f, !.lent = l, !.raced = c]
  BY DEF Witnessed
<1>9. /\ t.unowned => o
      /\ t.ask.op \in Judged /\ With(has2, {"owner"}) = {} => o
      /\ t.lent => l
      /\ t.ask.op = "put" /\ loans2[<<t.ask.whom, t.as>>] \in {"live", "lapsed"} => l
      /\ ~c /\ t.ask.op \in {"revoke", "deactivate"} => ~t.raced /\ ~Lost(has, has2)
  <2>1. With(has2, {"owner"}) = {} => \A p \in Persons : "owner" \notin has2[p]
    BY DEF With
  <2> QED BY <1>2, <2>1
<1> HIDE DEF e, f, o, l, c
<1>10. /\ u \in Tasks /\ u.todo = t.todo /\ u.read = t.read /\ u.ask = t.ask /\ u.as = t.as
       /\ u.ever = e /\ u.unowned = o /\ u.fresh = f /\ u.lent = l /\ u.raced = c
  <2>1. /\ u.todo = t.todo /\ u.read = t.read /\ u.ask = t.ask /\ u.as = t.as
        /\ u.ever = e /\ u.unowned = o /\ u.fresh = f /\ u.lent = l /\ u.raced = c
    BY <1>1, <1>8 DEF Tasks
  <2>2. u \in Tasks
    BY <1>1, <1>5, <1>6, <1>7, <1>8 DEF Tasks
  <2> QED BY <2>1, <2>2
<1>11. /\ \A x : Due(u, x) <=> Due(t, x)
       /\ Touched(u) = Touched(t) /\ (Settled(u) <=> Settled(t))
  BY <1>10 DEF Due, Touched, Settled
<1>12. InOrder(u)
  BY <1>1, <1>10, <1>11 DEF InOrder
<1>13. Remembers(u, has2, loans2)
  BY <1>1, <1>5, <1>9, <1>10 DEF Remembers
<1>14. \A p \in DOMAIN t.ever : t.ever[p] \subseteq u.ever[p]
  BY <1>5, <1>10
<1>15. t.ask.op \in Judged => \A p \in {t.ask.who, t.as} : Ruled(t, p) => Ruled(u, p)
  BY <1>1, <1>14 DEF Ruled, Remembers
<1>16. Writes(u, loans2)
  <2>1. t.ask.op = "put" /\ MayPut(t) => MayPut(u)
    BY <1>1, <1>9, <1>10, <1>14, <1>15 DEF MayPut, Remembers, Judged
  <2> QED BY <1>1, <1>9, <1>10, <1>11, <1>15, <2>1 DEF Writes, Judged
<1>17. Decides(u)
  BY <1>1, <1>9, <1>10, <1>11, <1>14, <1>15 DEF Decides, Remembers, Judged, Changing, Settled
<1>18. Leaves(u, has2)
  <2> SUFFICES ASSUME Settled(t), t.ask.op \in {"revoke", "deactivate"}, ~t.raced, ~Lost(has, has2)
               PROVE  Leaves(u, has2)
    BY <1>9, <1>10, <1>11 DEF Leaves
  <2>1. /\ With(has, {"owner"}) \subseteq With(has2, {"owner"})
        /\ With(has, Ruling) \subseteq With(has2, Ruling)
        /\ (has[t.ask.whom] \cap Ruling) \subseteq has2[t.ask.whom]
    BY <1>2 DEF Lost, With, Ruling
  <2> QED BY <1>1, <1>10, <1>11, <2>1 DEF Leaves
<1>19. Strips(u, has2, here2)
  <2>1. t.ask.op = "deactivate" => has2[t.ask.whom] \subseteq has[t.ask.whom] \cup f
    BY <1>6
  <2> QED BY <1>1, <1>6, <1>10, <1>11, <2>1 DEF Strips
<1> QED BY <1>10, <1>12, <1>13, <1>16, <1>17, <1>18, <1>19 DEF Sound
-----------------------------------------------------------------------------
LEMMA IdleIsNobody ==
  ASSUME NEW has, NEW loans, NEW here, NEW t, Sound(t, has, loans, here)
  PROVE  t # Idle
<1>1. t.ask.who \in Persons
  BY DEF Sound, Tasks, AnyAsk
<1>2. Idle.ask.who = Nobody
  BY DEF Idle, NoAsk
<1> QED BY <1>1, <1>2, AccessAssumption

LEMMA Initially ==
  Init => IInv
<1> SUFFICES ASSUME Init PROVE IInv
  OBVIOUS
<1>1. rights \in [Persons -> SUBSET Rights]
  BY AccessAssumption DEF Init
<1>2. StoreTyped
  BY <1>1, AccessAssumption DEF Init, StoreTyped, Holders, States
<1>3. Underway
  BY DEF Init, Underway
<1> QED BY <1>2, <1>3 DEF IInv

\* Steps of one request that leave the store as it is.
LEMMA OneMoves ==
  ASSUME IInv, UNCHANGED store, NEW r \in Requests, NEW u, task' = [task EXCEPT ![r] = u],
         u = Idle \/ Sound(u, rights, dels, known),
         acting' \in [Persons -> Persons \cup {Nobody}], events' \in 0..MaxEvents
  PROVE  IInv'
<1>1. StoreTyped'
  BY DEF IInv, StoreTyped, store
<1>2. task' = [q \in Requests |-> task'[q]]
  BY DEF IInv, Underway
<1>3. ASSUME NEW q \in Requests PROVE task'[q] = Idle \/ Sound(task'[q], rights', dels', known')
  <2>1. UNCHANGED <<rights, dels, known>>
    BY DEF store
  <2>2. task'[q] = IF q = r THEN u ELSE task[q]
    BY DEF IInv, Underway
  <2> QED BY <2>1, <2>2 DEF IInv, Underway
<1>4. Underway'
  BY <1>2, <1>3 DEF Underway
<1> QED BY <1>1, <1>4 DEF IInv

\* An update ends its request, and passes the others by.
LEMMA UpdatePasses ==
  ASSUME IInv, NEW r \in Requests, Witness(r),
         rights' \in [Persons -> SUBSET Rights], dels' \in [Persons \X Persons -> States],
         \A d \in Persons \X Persons : dels[d] # "none" => dels'[d] # "none",
         known \subseteq known', known' \subseteq Persons, inactive' \subseteq known',
         homes' \subseteq Persons,
         acting' \in [Persons -> Persons \cup {Nobody}], events' \in 0..MaxEvents
  PROVE  IInv'
<1>1. StoreTyped'
  BY DEF StoreTyped
<1>2. task' = [q \in Requests |-> task'[q]]
  BY DEF Witness
<1>3. ASSUME NEW q \in Requests, q # r, task[q] # Idle
      PROVE  Sound(task'[q], rights', dels', known')
  <2>1. Sound(task[q], rights, dels, known)
    BY <1>3 DEF IInv, Underway
  <2>2. task'[q] = Witnessed(task[q], rights, rights', dels')
    BY <1>3 DEF Witness, Witnessed, Lost
  <2>3. task[q].ask.whom \in Persons /\ task[q].as \in Persons
    BY <2>1 DEF Sound, Tasks, AnyAsk
  <2>4. rights \in [Persons -> SUBSET Rights]
    BY DEF IInv, StoreTyped
  <2> DEFINE u == task'[q]
             t == task[q]
  <2>5. /\ Sound(t, rights, dels, known) /\ u = Witnessed(t, rights, rights', dels')
        /\ dels[<<t.ask.whom, t.as>>] # "none" => dels'[<<t.ask.whom, t.as>>] # "none"
    BY <2>1, <2>2, <2>3
  <2> HIDE DEF u, t
  <2>6. Sound(u, rights', dels', known')
    BY <2>4, <2>5, PassedBy
  <2> QED BY <2>6 DEF u
<1>4. \A q \in Requests : q = r \/ task[q] = Idle => task'[q] = Idle
  BY DEF Witness
<1>5. Underway'
  BY <1>2, <1>3, <1>4 DEF Underway
<1> QED BY <1>1, <1>5 DEF IInv
-----------------------------------------------------------------------------
\* The questions, one action each.
LEMMA Busy ==
  ASSUME IInv, NEW r \in Requests, task[r].todo # <<>>
  PROVE  Sound(task[r], rights, dels, known)
BY DEF IInv, Underway, Idle

LEMMA StoreShape ==
  ASSUME IInv
  PROVE  /\ rights \in [Persons -> SUBSET Rights] /\ dels \in [Persons \X Persons -> States]
         /\ acting \in [Persons -> Persons \cup {Nobody}] /\ events \in 0..MaxEvents
         /\ known \subseteq Persons /\ inactive \subseteq known /\ homes \subseteq Persons
         /\ \A R : Holders(R) = With(rights, R)
BY DEF IInv, StoreTyped, Holders, With

LEMMA AskShape ==
  ASSUME NEW t \in Tasks
  PROVE  /\ t.ask \in AnyAsk /\ t.ask.op \in Ops /\ t.ask.who \in Persons
         /\ t.ask.whom \in Persons /\ t.ask.to \in Persons
         /\ t.ask.what \in Rights \cup {"none"} /\ t.as \in Persons
         /\ t.todo \in Seq(Questions) /\ t.read \subseteq Rights
BY DEF Tasks, AnyAsk

LEMMA Refuses ==
  ASSUME IInv, NEW r \in Requests, Refuse(r), UNCHANGED <<store, acting, events>>
  PROVE  IInv'
BY StoreShape, OneMoves DEF Refuse

LEMMA Proceeds ==
  ASSUME IInv, NEW r \in Requests, NEW u, UNCHANGED <<store, acting, events>>,
         task' = [task EXCEPT ![r] = u], Sound(u, rights, dels, known)
  PROVE  IInv'
BY StoreShape, OneMoves

LEMMA CheckKeeps ==
  ASSUME IInv, NEW r \in Requests, Check(r), UNCHANGED events
  PROVE  IInv'
<1> DEFINE t == task[r]
           q == Head(t.todo)
           u == [t EXCEPT !.todo = Tail(t.todo)]
<1>1. /\ t.todo # <<>>
      /\ q \notin {"commit", "override", "owner", "roles", "grants", "isAdmin", "granted"}
      /\ IF Answer(q, t) THEN Go(r, Tail(t.todo)) ELSE Refuse(r)
      /\ UNCHANGED <<store, acting, events>>
  BY DEF Check
<1>2. Sound(t, rights, dels, known)
  BY <1>1, Busy
<1>3. CASE ~Answer(q, t)
  BY <1>1, <1>3, Refuses
<1>4. CASE Answer(q, t)
  <2>1. Learnt(t, q, rights, dels, Tail(t.todo))
    BY <1>1, <1>4, StoreShape DEF Answer, Learnt, IsAdmin
  <2>2. /\ q = "lent" => dels[<<t.ask.whom, t.as>>] # "none"
        /\ q = "unrevoked" => dels[<<t.ask.whom, t.as>>] # "revoked"
    BY <1>4 DEF Answer, Unrevoked
  <2>3. dels[<<t.ask.whom, t.as>>] \in States
    BY <1>2, AskShape, StoreShape DEF Sound
  <2>4. task' = [task EXCEPT ![r] = u]
    BY <1>1, <1>4 DEF Go
  <2> HIDE DEF u
  <2>5. u = [t EXCEPT !.todo = Tail(t.todo)]
    BY DEF u
  <2> HIDE DEF t
  <2>6. Sound(u, rights, dels, known)
    BY <1>1, <1>2, <2>1, <2>2, <2>3, <2>5, Advances
  <2> QED BY <1>1, <2>4, <2>6, Proceeds
<1> QED BY <1>3, <1>4

LEMMA OverrideKeeps ==
  ASSUME IInv, NEW r \in Requests, Override(r), UNCHANGED events
  PROVE  IInv'
<1> DEFINE t == task[r]
           s == Tail(t.todo)
<1>1. t.todo # <<>> /\ Head(t.todo) = "override" /\ UNCHANGED <<store, events>>
  BY DEF Override
<1>2. Sound(t, rights, dels, known)
  BY <1>1, Busy
<1>3. t \in Tasks /\ Remembers(t, rights, dels) /\ s = Plan(t.ask) /\ s \in Seq(Questions)
  BY <1>1, <1>2, OrderTells DEF Sound, InOrder
<1>4. CASE IsAdmin(t.ask.who)
  <2> DEFINE u == [t EXCEPT !.todo = s]
  <2>1. task' = [task EXCEPT ![r] = u] /\ UNCHANGED acting
    BY <1>1, <1>4 DEF Override, Go
  <2>2. /\ u \in Tasks /\ u.todo = s /\ u.ask = t.ask /\ u.as = t.as /\ u.ever = t.ever
        /\ u.unowned = t.unowned /\ u.lent = t.lent
    BY <1>3 DEF Tasks
  <2> HIDE DEF u
  <2>3. Remembers(u, rights, dels)
    BY <1>3, <2>2 DEF Remembers
  <2>4. t.ask.op = "put" => Ruled(u, u.ask.who)
    BY <1>3, <1>4, <2>2 DEF Remembers, Judged, IsAdmin, Ruled
  <2>5. Sound(u, rights, dels, known)
    BY <1>3, <2>2, <2>3, <2>4, Fresh
  <2> QED BY <1>1, <2>1, <2>5, Proceeds
<1>5. CASE ~IsAdmin(t.ask.who)
  <2> DEFINE l == t.ask.op = "put" /\ dels[<<t.ask.whom, t.ask.who>>] \in {"live", "lapsed"}
             u == [t EXCEPT !.todo = s, !.as = t.ask.who, !.lent = l]
  <2>1. /\ task' = [task EXCEPT ![r] = u]
        /\ acting' = [acting EXCEPT ![t.ask.who] = Nobody]
    BY <1>1, <1>5 DEF Override
  <2>2. l \in BOOLEAN /\ t.ask.who \in Persons
    BY <1>3, AskShape
  <2>3. t.ask.op = "put" /\ dels[<<t.ask.whom, t.ask.who>>] \in {"live", "lapsed"} => l
    OBVIOUS
  <2> HIDE DEF l
  <2>4. /\ u \in Tasks /\ u.todo = s /\ u.ask = t.ask /\ u.as = t.ask.who /\ u.ever = t.ever
        /\ u.unowned = t.unowned /\ u.lent = l
    BY <1>3, <2>2 DEF Tasks
  <2> HIDE DEF u
  <2>5. Remembers(u, rights, dels)
    BY <1>3, <2>3, <2>4 DEF Remembers
  <2>6. Sound(u, rights, dels, known)
    BY <1>3, <2>4, <2>5, Fresh
  <2>7. acting' \in [Persons -> Persons \cup {Nobody}]
    BY <2>1, StoreShape
  <2> QED BY <1>1, <2>1, <2>6, <2>7, OneMoves, StoreShape
<1> QED BY <1>4, <1>5

LEMMA OwnerCheckKeeps ==
  ASSUME IInv, NEW r \in Requests, OwnerCheck(r), UNCHANGED events
  PROVE  IInv'
<1> DEFINE t == task[r]
           s == Tail(t.todo)
<1>1. t.todo # <<>> /\ Head(t.todo) = "owner" /\ UNCHANGED <<store, acting, events>>
  BY DEF OwnerCheck
<1>2. Sound(t, rights, dels, known) /\ t \in Tasks
  BY <1>1, Busy DEF Sound
<1>3. CASE Refuse(r)
  BY <1>1, <1>3, Refuses
<1>4. CASE MaySkip(t) /\ Go(r, s)
  <2> DEFINE u == [t EXCEPT !.todo = s]
  <2>1. task' = [task EXCEPT ![r] = u]
    BY <1>4 DEF Go
  <2>2. Learnt(t, "owner", rights, dels, s)
    BY <1>4 DEF Learnt, MaySkip, IsOwner
  <2>3. dels[<<t.ask.whom, t.as>>] \in States
    BY <1>2, AskShape, StoreShape
  <2>4. u = [t EXCEPT !.todo = s]
    OBVIOUS
  <2> HIDE DEF u, t
  <2>5. Sound(u, rights, dels, known)
    BY <1>1, <1>2, <2>2, <2>3, <2>4, Advances
  <2> QED BY <1>1, <2>1, <2>5, Proceeds
<1>5. CASE ~MaySkip(t) /\ "owner" \notin Touched(t) /\ Go(r, <<"unowned">> \o s)
  <2> DEFINE v == <<"unowned">> \o s
             u == [t EXCEPT !.todo = v]
  <2>1. task' = [task EXCEPT ![r] = u]
    BY <1>5 DEF Go
  <2>2. /\ s \in Seq(Questions) /\ Ahead(t.todo) = {"owner"} \cup Ahead(s) /\ ~Due(t, "override")
        /\ s # <<>> /\ s[Len(s)] \in {"commit", "roles"}
    BY <1>1, <1>2, OrderTells
  <2>3. "unowned" \in Questions
    BY DEF Questions
  <2>4. /\ v \in Seq(Questions) /\ v # <<>> /\ v[Len(v)] = s[Len(s)]
        /\ Ahead(v) = {"unowned"} \cup Ahead(s)
    BY <2>2, <2>3, OneMore
  <2> HIDE DEF v
  <2>5. u.todo = v /\ u.ask = t.ask
    BY <1>2 DEF Tasks
  <2>6. InOrder(t) /\ u = [t EXCEPT !.todo = v]
    BY <1>2 DEF Sound
  <2> HIDE DEF u
  <2>7. t.ask.op # "put"
    <3>1. t.ask.op = "put" => t.todo \in PutQuestions
      BY <2>2, <2>6 DEF InOrder
    <3>2. t.todo \notin PutQuestions
      BY <1>1 DEF PutQuestions
    <3> QED BY <3>1, <3>2
  <2>8. ~(t.ask.op = "deactivate" /\ Due(t, "roles"))
    <3>1. t.todo \notin {<<"admin", "roles">>, <<"roles">>}
      BY <1>1
    <3> QED BY <2>2, <2>6, <3>1 DEF InOrder
  <2>9. \A x : x # "unowned" /\ Due(u, x) => Due(t, x)
    BY <2>2, <2>4, <2>5 DEF Due
  <2>10. InOrder(u)
    BY <2>2, <2>4, <2>5, <2>6, <2>7, <2>8, <2>9 DEF InOrder
  <2>11. Writes(u, dels)
    BY <2>5, <2>7 DEF Writes
  <2>12. Learnt(t, "owner", rights, dels, v)
    BY <1>5, <2>4 DEF Learnt
  <2>13. /\ Ahead(t.todo) \subseteq {"owner"} \cup Ahead(v)
         /\ "roles" \in Ahead(v) => Due(t, "roles")
    BY <2>2, <2>4 DEF Due
  <2> HIDE DEF t
  <2>14. Sound(u, rights, dels, known)
    BY <1>2, <2>4, <2>6, <2>10, <2>11, <2>12, <2>13, GoesOn
  <2> QED BY <1>1, <2>1, <2>14, Proceeds DEF t
<1> QED BY <1>3, <1>4, <1>5 DEF OwnerCheck

LEMMA ReadRolesKeeps ==
  ASSUME IInv, NEW r \in Requests, ReadRoles(r), UNCHANGED events
  PROVE  IInv'
<1> DEFINE t == task[r]
           R == rights[t.ask.whom] \cap Ruling
           u == [t EXCEPT !.read = R,
                  !.todo = OwnerFor(R) \o Left(R, "otherAdmin") \o <<"grants", "commit">>]
<1>1. t.todo # <<>> /\ Head(t.todo) = "roles" /\ UNCHANGED <<store, acting, events>>
  BY DEF ReadRoles
<1>2. Sound(t, rights, dels, known) /\ t \in Tasks
  BY <1>1, Busy DEF Sound
<1>3. CASE t.ask.whom \in known \ {t.ask.who}
  <2>1. task' = [task EXCEPT ![r] = u]
    BY <1>3 DEF ReadRoles
  <2>2. rights[t.ask.whom] \subseteq Rights
    BY <1>2, AskShape, StoreShape
  <2>3. Sound(u, rights, dels, known)
    <3> HIDE DEF t, R
    <3>1. R = rights[t.ask.whom] \cap Ruling
      BY DEF R
    <3> QED BY <1>1, <1>2, <1>3, <2>2, <3>1, RolesAreRead
  <2> HIDE DEF u
  <2> QED BY <1>1, <2>1, <2>3, Proceeds
<1>4. CASE t.ask.whom \notin known \ {t.ask.who}
  <2>1. Refuse(r)
    BY <1>4 DEF ReadRoles
  <2> QED BY <1>1, <2>1, Refuses
<1> QED BY <1>3, <1>4

LEMMA ReadGrantsKeeps ==
  ASSUME IInv, NEW r \in Requests, ReadGrants(r), UNCHANGED events
  PROVE  IInv'
<1> DEFINE t == task[r]
           u == [t EXCEPT !.read = t.read \cup (rights[t.ask.whom] \ Ruling),
                          !.todo = Tail(t.todo)]
<1>1. t.todo # <<>> /\ Head(t.todo) = "grants" /\ UNCHANGED <<store, acting, events>>
  BY DEF ReadGrants
<1>2. Sound(t, rights, dels, known) /\ t \in Tasks
  BY <1>1, Busy DEF Sound
<1>3. task' = [task EXCEPT ![r] = u]
  BY DEF ReadGrants, Grants
<1>4. rights[t.ask.whom] \subseteq Rights
  BY <1>2, AskShape, StoreShape
<1>5. u = [t EXCEPT !.read = t.read \cup (rights[t.ask.whom] \ Ruling), !.todo = Tail(t.todo)]
  OBVIOUS
<1> HIDE DEF t, u
<1>6. Sound(u, rights, dels, known)
  BY <1>1, <1>2, <1>4, <1>5, GrantsAreRead
<1> QED BY <1>1, <1>3, <1>6, Proceeds

LEMMA AskAdminKeeps ==
  ASSUME IInv, NEW r \in Requests, AskAdmin(r), UNCHANGED events
  PROVE  IInv'
<1> DEFINE t == task[r]
           s == IF IsAdmin(Subject(t)) THEN <<"commit">> ELSE Tail(t.todo)
           u == [t EXCEPT !.todo = s]
<1>1. t.todo # <<>> /\ Head(t.todo) = "isAdmin" /\ UNCHANGED <<store, acting, events>>
  BY DEF AskAdmin
<1>2. Sound(t, rights, dels, known)
  BY <1>1, Busy
<1>3. task' = [task EXCEPT ![r] = u]
  BY DEF AskAdmin, Go
<1>4. \/ s = <<"commit">> /\ rights[Subject(t)] \cap Ruling # {}
      \/ s = Tail(t.todo)
  BY DEF IsAdmin
<1>5. u = [t EXCEPT !.todo = s]
  OBVIOUS
<1> HIDE DEF t, s, u
<1>6. Sound(u, rights, dels, known)
  BY <1>1, <1>2, <1>4, <1>5, AdminSkips
<1> QED BY <1>1, <1>3, <1>6, Proceeds

LEMMA AskGrantedKeeps ==
  ASSUME IInv, NEW r \in Requests, AskGranted(r), UNCHANGED events
  PROVE  IInv'
<1> DEFINE t == task[r]
<1>1. t.todo # <<>> /\ Head(t.todo) = "granted" /\ UNCHANGED <<store, acting, events>>
  BY DEF AskGranted
<1>2. Sound(t, rights, dels, known)
  BY <1>1, Busy
<1>3. ASSUME NEW s, Go(r, s),
             \/ /\ s = <<"commit">>
                /\ Subject(t) = t.ask.whom /\ Needed(t) \in rights[Subject(t)]
             \/ s = <<"lent", "unrevoked", "lenderActive", "commit">> /\ Needed(t) = "write"
      PROVE  IInv'
  <2> DEFINE u == [t EXCEPT !.todo = s]
  <2>1. task' = [task EXCEPT ![r] = u]
    BY <1>3 DEF Go
  <2>2. u = [t EXCEPT !.todo = s]
    OBVIOUS
  <2> HIDE DEF t, u
  <2>3. Sound(u, rights, dels, known)
    BY <1>1, <1>2, <1>3, <2>2, GrantSkips
  <2> QED BY <1>1, <2>1, <2>3, Proceeds
<1>4. CASE Refuse(r)
  BY <1>1, <1>4, Refuses
<1> QED BY <1>3, <1>4 DEF AskGranted

LEMMA NotFoundKeeps ==
  ASSUME IInv, NEW r \in Requests, NotFound(r), UNCHANGED events
  PROVE  IInv'
BY Refuses DEF NotFound
-----------------------------------------------------------------------------
\* The updates.
LEMMA CommitShape ==
  ASSUME IInv, NEW r \in Requests, NEW op \in Ops, At(r, op)
  PROVE  /\ Sound(task[r], rights, dels, known) /\ task[r] \in Tasks
         /\ task[r].ask.op = op /\ task[r].todo = <<"commit">>
         /\ \A x : Due(task[r], x) <=> x = "commit"
<1>1. Sound(task[r], rights, dels, known) /\ task[r].ask.op = op /\ task[r].todo = <<"commit">>
  BY DEF At, IInv, Underway
<1>2. "commit" \in Questions
  BY DEF Questions
<1>3. Ahead(<<"commit">>) = {"commit"}
  BY <1>2, Lists
<1> QED BY <1>1, <1>3 DEF Due, Sound

LEMMA RevokedStay ==
  ASSUME IInv, NEW S, dels' = Revoked(S)
  PROVE  /\ dels' \in [Persons \X Persons -> States]
         /\ \A d \in Persons \X Persons : dels[d] # "none" => dels'[d] # "none"
<1>1. \A d \in Persons \X Persons :
        dels'[d] = IF d \in S /\ dels[d] # "none" THEN "revoked" ELSE dels[d]
  BY DEF Revoked
<1>2. dels' \in [Persons \X Persons -> States]
  BY StoreShape DEF Revoked, States
<1> QED BY <1>1, <1>2

LEMMA GiveTyped ==
  ASSUME IInv, NEW p \in Persons, NEW x, Give(p, x)
  PROVE  rights' \in [Persons -> SUBSET Rights]
BY StoreShape DEF Give

LEMMA TakeTyped ==
  ASSUME IInv, NEW p \in Persons, NEW x, Take(p, x)
  PROVE  rights' \in [Persons -> SUBSET Rights]
BY StoreShape DEF Take

LEMMA UpdatesKeep ==
  ASSUME IInv, NEW r \in Requests, UNCHANGED events,
         \/ CreatePerson(r) \/ Grant(r) \/ RevokeRole(r) \/ RevokeWrite(r)
         \/ Deactivate(r) \/ Reactivate(r) \/ AssignPersona(r) \/ ActAs(r) \/ Cease(r)
         \/ Delegate(r) \/ Undelegate(r) \/ Put(r) \/ Claim(r)
  PROVE  IInv'
<1> USE StoreShape
<1>1. ASSUME NEW op \in Ops, At(r, op)
      PROVE  /\ task[r].ask.who \in Persons /\ task[r].ask.whom \in Persons
             /\ task[r].ask.to \in Persons
  BY <1>1, CommitShape, AskShape
<1>2. CASE CreatePerson(r)
  <2>1. At(r, "create") /\ "create" \in Ops
    BY <1>2 DEF CreatePerson, Ops
  <2>2. rights' \in [Persons -> SUBSET Rights]
    BY <1>1, <1>2, <2>1, GiveTyped DEF CreatePerson
  <2> QED BY <1>1, <1>2, <2>1, <2>2, UpdatePasses DEF CreatePerson
<1>3. CASE Grant(r)
  <2>1. At(r, "grant") /\ "grant" \in Ops
    BY <1>3 DEF Grant, Ops
  <2>2. rights' \in [Persons -> SUBSET Rights]
    BY <1>1, <1>3, <2>1, GiveTyped DEF Grant
  <2> QED BY <1>3, <2>2, UpdatePasses DEF Grant
<1>4. CASE RevokeRole(r) \/ RevokeWrite(r)
  <2>1. At(r, "revoke") /\ "revoke" \in Ops
    BY <1>4 DEF RevokeRole, RevokeWrite, Ops
  <2>2. rights' \in [Persons -> SUBSET Rights]
    BY <1>1, <1>4, <2>1, TakeTyped DEF RevokeRole, RevokeWrite
  <2> QED BY <1>4, <2>2, UpdatePasses DEF RevokeRole, RevokeWrite
<1>5. CASE Deactivate(r)
  <2>1. At(r, "deactivate") /\ "deactivate" \in Ops
    BY <1>5 DEF Deactivate, Ops
  <2>2. rights' \in [Persons -> SUBSET Rights]
    BY <1>1, <1>5, <2>1 DEF Deactivate
  <2>3. task[r].ask.whom \in known
    <3>1. Strips(task[r], rights, known) /\ task[r].ask.op = "deactivate" /\ ~Due(task[r], "roles")
      BY <2>1, CommitShape DEF Sound
    <3> QED BY <3>1 DEF Strips
  <2>4. /\ dels' \in [Persons \X Persons -> States]
        /\ \A d \in Persons \X Persons : dels[d] # "none" => dels'[d] # "none"
    BY <1>5, RevokedStay DEF Deactivate
  <2> QED BY <1>5, <2>2, <2>3, <2>4, UpdatePasses DEF Deactivate
<1>6. CASE Reactivate(r)
  BY <1>6, UpdatePasses DEF Reactivate
<1>7. CASE AssignPersona(r)
  <2>1. At(r, "assign") /\ "assign" \in Ops
    BY <1>7 DEF AssignPersona, Ops
  <2> QED BY <1>1, <1>7, <2>1, UpdatePasses DEF AssignPersona
<1>8. CASE ActAs(r)
  <2>1. At(r, "actAs") /\ "actAs" \in Ops
    BY <1>8 DEF ActAs, Ops
  <2>2. acting' \in [Persons -> Persons \cup {Nobody}]
    BY <1>1, <1>8, <2>1 DEF ActAs
  <2> QED BY <1>8, <2>2, UpdatePasses DEF ActAs, store
<1>9. CASE Cease(r)
  <2>1. acting' \in [Persons -> Persons \cup {Nobody}]
    BY <1>9 DEF Cease
  <2> QED BY <1>9, <2>1, UpdatePasses DEF Cease, store
<1>10. CASE Delegate(r)
  <2>1. At(r, "delegate") /\ "delegate" \in Ops
    BY <1>10 DEF Delegate, Ops
  <2>2. /\ dels' \in [Persons \X Persons -> States]
        /\ \A d \in Persons \X Persons : dels[d] # "none" => dels'[d] # "none"
    BY <1>1, <1>10, <2>1 DEF Delegate, States
  <2> QED BY <1>10, <2>2, UpdatePasses DEF Delegate
<1>11. CASE Undelegate(r)
  <2>1. /\ dels' \in [Persons \X Persons -> States]
        /\ \A d \in Persons \X Persons : dels[d] # "none" => dels'[d] # "none"
    BY <1>11, RevokedStay DEF Undelegate
  <2> QED BY <1>11, <2>1, UpdatePasses DEF Undelegate
<1>12. CASE Put(r)
  BY <1>12, UpdatePasses DEF Put, store
<1>13. CASE Claim(r)
  <2>1. At(r, "claim") /\ "claim" \in Ops
    BY <1>13 DEF Claim, Ops
  <2>2. CASE UNCHANGED <<store, acting>>
    BY <1>13, <2>2, UpdatePasses DEF Claim, store
  <2>3. CASE /\ known' = known \cup {task[r].ask.who} /\ Give(task[r].ask.who, "owner")
             /\ UNCHANGED <<inactive, homes, dels, acting>>
    <3>1. rights' \in [Persons -> SUBSET Rights]
      BY <1>1, <2>1, <2>3, GiveTyped
    <3> QED BY <1>1, <1>13, <2>1, <2>3, <3>1, UpdatePasses DEF Claim
  <2> QED BY <1>13, <2>2, <2>3 DEF Claim
<1> QED BY <1>2, <1>3, <1>4, <1>5, <1>6, <1>7, <1>8, <1>9, <1>10, <1>11, <1>12, <1>13
-----------------------------------------------------------------------------
\* What begins, and what happens beside the requests.
LEMMA StartKeeps ==
  ASSUME IInv, NEW r \in Requests, NEW a \in Asks, Start(r, a), events' \in 0..MaxEvents
  PROVE  IInv'
<1> DEFINE as == IF a.op = "claim" \/ acting[a.who] = Nobody THEN a.who ELSE acting[a.who]
           e == [p \in IF a.op \in Judged THEN {a.who, as} ELSE {} |-> rights[p]]
           s == (IF as # a.who THEN <<"override">> ELSE <<>>) \o Plan(a)
           o == a.op \in Judged /\ Holders({"owner"}) = {}
           l == a.op = "put" /\ dels[<<a.whom, as>>] \in {"live", "lapsed"}
           u == [Idle EXCEPT !.ask = a, !.as = as, !.ever = e, !.todo = s,
                             !.unowned = o, !.lent = l]
<1>1. a \in AnyAsk /\ a.who \in Persons /\ a.whom \in Persons
  BY AccessAssumption DEF AnyAsk
<1>2. as \in Persons
  BY <1>1, StoreShape
<1>3. task' = [task EXCEPT ![r] = u] /\ UNCHANGED <<store, acting>>
  BY DEF Start
<1>4. /\ e \in Pasts
      /\ a.op \in Judged => {a.who, as} \subseteq DOMAIN e
      /\ \A p \in DOMAIN e : e[p] = rights[p]
  <2> DEFINE S == IF a.op \in Judged THEN {a.who, as} ELSE {}
  <2>1. S \in SUBSET Persons
    BY <1>1, <1>2
  <2>2. e \in [S -> SUBSET Rights]
    BY <2>1, StoreShape
  <2>3. DOMAIN e = S /\ \A p \in DOMAIN e : e[p] = rights[p]
    OBVIOUS
  <2>4. a.op \in Judged => {a.who, as} \subseteq S
    OBVIOUS
  <2> HIDE DEF S, e
  <2> QED BY <2>1, <2>2, <2>3, <2>4 DEF Pasts
<1>5. s \in {Plan(a), <<"override">> \o Plan(a)} /\ s \in Seq(Questions)
      /\ (s = Plan(a) => as = a.who)
  <2>1. Plan(a) \in Seq(Questions) /\ "override" \notin Ahead(Plan(a))
    BY <1>1, PlanBegins DEF Begins
  <2>2. "override" \in Questions
    BY DEF Questions
  <2>3. CASE as = a.who
    <3>1. s = <<>> \o Plan(a)
      BY <2>3
    <3>2. s = Plan(a)
      BY <2>1, <3>1, ConcatEmptySeq
    <3> QED BY <2>1, <2>3, <3>2
  <2>4. CASE as # a.who
    <3>1. s = <<"override">> \o Plan(a)
      BY <2>4
    <3>2. s \in Seq(Questions) /\ "override" \in Ahead(s)
      BY <2>1, <2>2, <3>1, OneMore
    <3> QED BY <2>1, <3>1, <3>2
  <2> QED BY <2>3, <2>4
<1>6. /\ o \in BOOLEAN /\ l \in BOOLEAN
      /\ a.op \in Judged /\ With(rights, {"owner"}) = {} => o
      /\ a.op = "put" /\ dels[<<a.whom, as>>] \in {"live", "lapsed"} => l
  BY StoreShape
<1> HIDE DEF as, e, s, o, l
<1>7. /\ u \in Tasks /\ u.ask = a /\ u.as = as /\ u.ever = e /\ u.todo = s /\ u.unowned = o
      /\ u.lent = l
  BY <1>1, <1>2, <1>4, <1>5, <1>6 DEF Tasks, Idle
<1> HIDE DEF u
<1>8. Remembers(u, rights, dels)
  BY <1>4, <1>6, <1>7 DEF Remembers
<1>9. Sound(u, rights, dels, known)
  BY <1>5, <1>7, <1>8, Fresh
<1> QED BY <1>3, <1>9, OneMoves, StoreShape

LEMMA BootstrapKeeps ==
  ASSUME IInv, NEW p \in Persons, Bootstrap(p), events' \in 0..MaxEvents
  PROVE  IInv'
<1>1. PICK r \in Requests : Witness(r)
  BY DEF Bootstrap
<1>2. rights' \in [Persons -> SUBSET Rights]
  BY GiveTyped DEF Bootstrap
<1> QED BY <1>1, <1>2, StoreShape, UpdatePasses DEF Bootstrap

LEMMA LapseKeeps ==
  ASSUME IInv, NEW d \in Persons \X Persons, Lapse(d), events' \in 0..MaxEvents
  PROVE  IInv'
<1>1. /\ UNCHANGED <<known, inactive, rights, homes, acting, task>>
      /\ dels' \in [Persons \X Persons -> States]
      /\ \A x \in Persons \X Persons :
           /\ dels'[x] = "none" <=> dels[x] = "none"
           /\ dels'[x] \in {"live", "lapsed"} <=> dels[x] \in {"live", "lapsed"}
  BY StoreShape DEF Lapse, States
<1>2. StoreTyped'
  BY <1>1 DEF IInv, StoreTyped
<1>3. ASSUME NEW r \in Requests, Sound(task[r], rights, dels, known)
      PROVE  Sound(task[r], rights, dels', known)
  <2> DEFINE t == task[r]
  <2>1. <<t.ask.whom, t.as>> \in Persons \X Persons
    BY <1>3, AskShape DEF Sound
  <2> HIDE DEF t
  <2>2. Sound(t, rights, dels, known)
    BY <1>3 DEF t
  <2>3. Remembers(t, rights, dels') /\ Writes(t, dels')
    BY <1>1, <2>1, <2>2 DEF Sound, Remembers, Writes
  <2> QED BY <2>2, <2>3 DEF Sound, t
<1>4. Underway'
  BY <1>1, <1>3 DEF IInv, Underway
<1> QED BY <1>2, <1>4 DEF IInv

LEMMA ExpireKeeps ==
  ASSUME IInv, NEW p \in Persons, Expire(p), events' \in 0..MaxEvents
  PROVE  IInv'
<1>1. acting' \in [Persons -> Persons \cup {Nobody}] /\ UNCHANGED <<store, task>>
  BY StoreShape DEF Expire
<1> QED BY <1>1 DEF IInv, StoreTyped, Underway, store

LEMMA StepKeeps ==
  ASSUME IInv, [Next]_vars
  PROVE  IInv'
<1>1. CASE UNCHANGED vars
  BY <1>1 DEF IInv, StoreTyped, Underway, vars, store
<1>2. CASE Steps /\ UNCHANGED events
  <2>1. PICK r \in Requests :
          \/ Check(r) \/ Override(r) \/ OwnerCheck(r) \/ ReadRoles(r)
          \/ ReadGrants(r) \/ AskAdmin(r) \/ AskGranted(r)
          \/ CreatePerson(r) \/ Grant(r) \/ NotFound(r) \/ RevokeRole(r) \/ RevokeWrite(r)
          \/ Deactivate(r) \/ Reactivate(r)
          \/ AssignPersona(r) \/ ActAs(r) \/ Cease(r) \/ Delegate(r) \/ Undelegate(r)
          \/ Put(r) \/ Claim(r)
    BY <1>2 DEF Steps
  <2>2. CASE \/ Check(r) \/ Override(r) \/ OwnerCheck(r) \/ ReadRoles(r) \/ ReadGrants(r)
             \/ AskAdmin(r) \/ AskGranted(r) \/ NotFound(r)
    BY <1>2, <2>2, CheckKeeps, OverrideKeeps, OwnerCheckKeeps, ReadRolesKeeps, ReadGrantsKeeps,
       AskAdminKeeps, AskGrantedKeeps, NotFoundKeeps
  <2> QED BY <1>2, <2>1, <2>2, UpdatesKeep
<1>3. CASE events < MaxEvents /\ Events /\ events' = events + 1
  <2>1. events' \in 0..MaxEvents
    BY <1>3, StoreShape, AccessAssumption
  <2> QED BY <1>3, <2>1, StartKeeps, BootstrapKeeps, LapseKeeps, ExpireKeeps DEF Events
<1> QED BY <1>1, <1>2, <1>3 DEF Next

\* The inductive invariant holds of every behaviour of access control.
THEOREM InductiveInvariant == Spec => []IInv
<1>1. Init => IInv
  BY Initially
<1>2. IInv /\ [Next]_vars => IInv'
  BY StepKeeps
<1> QED BY <1>1, <1>2, PTL DEF Spec

\* The types of the store's facts and of the requests under way, for any
\* constants that satisfy the assumption (acl.py, delegation.py).
THEOREM TypeCorrect == Spec => []TypeOK
<1>1. IInv => TypeOK
  <2> SUFFICES ASSUME IInv PROVE TypeOK
    OBVIOUS
  <2>1. ASSUME NEW r \in Requests, task[r] # Idle
        PROVE  /\ task[r].ask \in AnyAsk /\ task[r].as \in Persons
               /\ task[r].todo \in Seq(Questions) /\ task[r].todo # <<>>
               /\ task[r].read \subseteq Rights /\ task[r].fresh \subseteq Rights
               /\ \A p \in DOMAIN task[r].ever : task[r].ever[p] \subseteq Rights
    <3> DEFINE t == task[r]
    <3>1. t \in Tasks /\ InOrder(t)
      BY <2>1 DEF IInv, Underway, Sound
    <3>2. t.ever \in Pasts /\ t.fresh \subseteq Rights /\ t.todo # <<>>
      BY <3>1 DEF Tasks, InOrder
    <3>3. \A p \in DOMAIN t.ever : t.ever[p] \subseteq Rights
      BY <3>2 DEF Pasts
    <3> QED BY <3>1, <3>2, <3>3, AskShape
  <2> QED BY <2>1 DEF IInv, StoreTyped, TypeOK
<1> QED BY <1>1, InductiveInvariant, PTL
-----------------------------------------------------------------------------
\* Who ends with an update was at it, or found its person missing.
LEMMA EndsHere ==
  ASSUME IInv, Next, NEW r \in Requests, NEW op \in Ops, Ends(r, op)
  PROVE  \/ CreatePerson(r) \/ Grant(r) \/ NotFound(r) \/ RevokeRole(r) \/ RevokeWrite(r)
         \/ Deactivate(r) \/ Reactivate(r)
         \/ AssignPersona(r) \/ ActAs(r) \/ Cease(r) \/ Delegate(r) \/ Undelegate(r)
         \/ Put(r) \/ Claim(r)
<1> DEFINE t == task[r]
<1>1. /\ Sound(t, rights, dels, known) /\ t \in Tasks /\ t.todo = <<"commit">>
      /\ t # Idle /\ task'[r] = Idle
  BY CommitShape DEF Ends, At
<1>2. t.todo # <<>> /\ Head(t.todo) = "commit"
  BY <1>1
<1>3. task = [q \in Requests |-> task[q]]
  BY DEF IInv, Underway
<1>4. ASSUME NEW s \in Requests, s # r, Witness(s) PROVE FALSE
  <2>1. task'[r] = Witnessed(t, rights, rights', dels')
    BY <1>1, <1>4 DEF Witness, Witnessed, Lost
  <2>2. task'[r].ask = t.ask
    BY <1>1, <2>1 DEF Witnessed, Tasks
  <2>3. t.ask.who # Nobody
    BY <1>1, AskShape, AccessAssumption
  <2> QED BY <1>1, <2>2, <2>3 DEF Idle, NoAsk
<1>5. ASSUME NEW s \in Requests, s # r, NEW u, task' = [task EXCEPT ![s] = u] PROVE FALSE
  BY <1>1, <1>3, <1>5
<1>6. ASSUME NEW s \in Requests,
             \/ CreatePerson(s) \/ Grant(s) \/ RevokeRole(s) \/ RevokeWrite(s)
             \/ Deactivate(s) \/ Reactivate(s)
             \/ AssignPersona(s) \/ ActAs(s) \/ Cease(s) \/ Delegate(s) \/ Undelegate(s)
             \/ Put(s) \/ Claim(s)
      PROVE  s = r
  <2>1. Witness(s)
    BY <1>6 DEF CreatePerson, Grant, RevokeRole, RevokeWrite, Deactivate, Reactivate, AssignPersona,
                ActAs, Cease, Delegate, Undelegate, Put, Claim
  <2> QED BY <1>4, <2>1
<1>7. ASSUME NEW s \in Requests, NotFound(s) PROVE s = r
  BY <1>5, <1>7 DEF NotFound, Refuse
<1>8. ASSUME NEW s \in Requests,
             \/ Check(s) \/ Override(s) \/ OwnerCheck(s) \/ ReadRoles(s)
             \/ ReadGrants(s) \/ AskAdmin(s) \/ AskGranted(s)
      PROVE  FALSE
  <2>1. s = r
    <3> SUFFICES ASSUME s # r PROVE FALSE
      OBVIOUS
    <3>1. CASE Check(s)
      BY <1>5, <3>1 DEF Check, Go, Refuse
    <3>2. CASE Override(s)
      BY <1>5, <3>2 DEF Override, Go
    <3>3. CASE OwnerCheck(s)
      BY <1>5, <3>3 DEF OwnerCheck, Go, Refuse
    <3>4. CASE ReadRoles(s)
      <4>1. CASE Refuse(s)
        BY <1>5, <4>1 DEF Refuse
      <4>2. CASE ~Refuse(s)
        <5> DEFINE R == rights[task[s].ask.whom] \cap Ruling
                   u == [task[s] EXCEPT !.read = R,
                           !.todo = OwnerFor(R) \o Left(R, "otherAdmin") \o <<"grants", "commit">>]
        <5>1. task' = [task EXCEPT ![s] = u]
          BY <3>4, <4>2 DEF ReadRoles
        <5> HIDE DEF u
        <5> QED BY <1>5, <5>1
      <4> QED BY <4>1, <4>2
    <3>5. CASE ReadGrants(s)
      BY <1>5, <3>5 DEF ReadGrants
    <3>6. CASE AskAdmin(s)
      BY <1>5, <3>6 DEF AskAdmin, Go
    <3>7. CASE AskGranted(s)
      BY <1>5, <3>7 DEF AskGranted, Go, Refuse
    <3> QED BY <1>8, <3>1, <3>2, <3>3, <3>4, <3>5, <3>6, <3>7
  <2> QED BY <1>2, <1>8, <2>1
          DEF Check, Override, OwnerCheck, ReadRoles, ReadGrants, AskAdmin, AskGranted
<1>9. ~Events
  <2>1. ASSUME NEW s \in Requests, NEW a, task[s] = Idle, Start(s, a) PROVE FALSE
    <3>1. s # r
      BY <1>1, <2>1
    <3> QED BY <1>5, <2>1, <3>1 DEF Start
  <2>2. ASSUME NEW p \in Persons, Bootstrap(p) PROVE FALSE
    BY <1>1, <1>4, <2>2 DEF Bootstrap
  <2>3. ASSUME UNCHANGED task PROVE FALSE
    BY <1>1, <2>3
  <2> QED BY <2>1, <2>2, <2>3 DEF Events, Lapse, Expire
<1>10. PICK s \in Requests :
          \/ Check(s) \/ Override(s) \/ OwnerCheck(s) \/ ReadRoles(s)
          \/ ReadGrants(s) \/ AskAdmin(s) \/ AskGranted(s)
          \/ CreatePerson(s) \/ Grant(s) \/ NotFound(s) \/ RevokeRole(s) \/ RevokeWrite(s)
          \/ Deactivate(s) \/ Reactivate(s)
          \/ AssignPersona(s) \/ ActAs(s) \/ Cease(s) \/ Delegate(s) \/ Undelegate(s)
          \/ Put(s) \/ Claim(s)
  BY <1>9 DEF Next, Steps
<1>11. s = r
  BY <1>6, <1>7, <1>8, <1>10
<1> QED BY <1>8, <1>10, <1>11

\* What a request is at its update with, when it is about what op does.
LEMMA OpOf ==
  ASSUME NEW r, NEW op, At(r, op)
  PROVE  /\ CreatePerson(r) => op = "create"
         /\ Grant(r) => op = "grant"
         /\ RevokeRole(r) \/ RevokeWrite(r) => op = "revoke"
         /\ Deactivate(r) => op = "deactivate"
         /\ Reactivate(r) => op = "reactivate" /\ UNCHANGED rights
         /\ NotFound(r) => op \in {"grant", "reactivate"} /\ UNCHANGED rights
         /\ AssignPersona(r) => op = "assign" /\ UNCHANGED rights
         /\ ActAs(r) => op = "actAs" /\ UNCHANGED rights
         /\ Cease(r) => op = "cease" /\ UNCHANGED rights
         /\ Delegate(r) => op = "delegate" /\ UNCHANGED rights
         /\ Undelegate(r) => op = "undelegate" /\ UNCHANGED rights
         /\ Put(r) => op = "put" /\ UNCHANGED rights
         /\ Claim(r) => op = "claim"
BY DEF At, CreatePerson, Grant, NotFound, RevokeRole, RevokeWrite, Deactivate, Reactivate,
       AssignPersona, ActAs, Cease, Delegate, Undelegate, Put, Claim, store

\* However grants and revocations interleave with a deactivation, what its
\* person has left afterwards was given while it ran
\* (routes/identity_admin.py).
THEOREM DeactivatedHoldNothing == Spec => DeactivationStrips
<1> DEFINE Stripped == \A r \in Requests : Ends(r, "deactivate") =>
       LET p == task[r].ask.whom IN
       /\ rights'[p] \subseteq task[r].fresh
       /\ \A q \in Persons : {dels'[<<p, q>>], dels'[<<q, p>>]} \subseteq {"none", "revoked"}
<1>1. IInv /\ [Next]_vars => [Stripped]_vars
  <2> SUFFICES ASSUME IInv, Next, NEW r \in Requests, Ends(r, "deactivate")
               PROVE  LET p == task[r].ask.whom IN
                      /\ rights'[p] \subseteq task[r].fresh
                      /\ \A q \in Persons :
                           {dels'[<<p, q>>], dels'[<<q, p>>]} \subseteq {"none", "revoked"}
    OBVIOUS
  <2>1. "deactivate" \in Ops /\ At(r, "deactivate")
    BY DEF Ops, Ends
  <2>2. Deactivate(r)
    BY <2>1, EndsHere, OpOf
  <2> DEFINE p == task[r].ask.whom
  <2>3. p \in Persons /\ rights[p] \subseteq task[r].read \cup task[r].fresh
    BY <2>1, CommitShape, AskShape DEF Sound, Strips
  <2>4. rights'[p] = rights[p] \ task[r].read
    BY <2>2, <2>3, StoreShape DEF Deactivate
  <2>5. ASSUME NEW q \in Persons
        PROVE  {dels'[<<p, q>>], dels'[<<q, p>>]} \subseteq {"none", "revoked"}
    <3>1. \A d \in Persons \X Persons :
            p \in {d[1], d[2]} => dels'[d] = IF dels[d] # "none" THEN "revoked" ELSE "none"
      BY <2>2 DEF Deactivate, Revoked
    <3> HIDE DEF p
    <3>2. /\ dels'[<<p, q>>] = IF dels[<<p, q>>] # "none" THEN "revoked" ELSE "none"
          /\ dels'[<<q, p>>] = IF dels[<<q, p>>] # "none" THEN "revoked" ELSE "none"
      BY <2>3, <2>5, <3>1
    <3> QED BY <3>2
  <2> QED BY <2>3, <2>4, <2>5
<1>2. DeactivationStrips <=> [][Stripped]_vars
  BY DEF DeactivationStrips
<1> QED BY <1>1, <1>2, InductiveInvariant, PTL DEF Spec

\* However rights change under it, a write that commits was allowed to its
\* caller at some moment of the request (acl.py, acting_as.py).
THEOREM WritersHadTheRight == Spec => WritesWereAllowed
<1> DEFINE Allowed == \A r \in Requests : Ends(r, "put") =>
       LET t == task[r]  had == t.ever[t.as] IN
       /\ \/ had \cap Ruling # {}
          \/ t.as = t.ask.whom /\ t.ask.what \in had
          \/ t.lent /\ t.ask.what = "write"
       /\ t.as # t.ask.who => t.ever[t.ask.who] \cap Ruling # {}
<1>1. IInv => Allowed
  <2> SUFFICES ASSUME IInv, NEW r \in Requests, Ends(r, "put")
               PROVE  LET t == task[r]  had == t.ever[t.as] IN
                      /\ \/ had \cap Ruling # {}
                         \/ t.as = t.ask.whom /\ t.ask.what \in had
                         \/ t.lent /\ t.ask.what = "write"
                      /\ t.as # t.ask.who => t.ever[t.ask.who] \cap Ruling # {}
    OBVIOUS
  <2>1. "put" \in Ops /\ At(r, "put")
    BY DEF Ops, Ends
  <2> DEFINE t == task[r]
  <2>2. /\ Writes(t, dels) /\ t.ask.op = "put" /\ t.todo = <<"commit">>
        /\ ~Due(t, "override")
    BY <2>1, CommitShape DEF Sound
  <2>3. MayPut(t) /\ (t.as # t.ask.who => Ruled(t, t.ask.who))
    BY <2>2 DEF Writes
  <2> QED BY <2>3 DEF MayPut, Ruled
<1>2. IInv /\ [Next]_vars => [Allowed]_vars
  BY <1>1
<1>3. WritesWereAllowed <=> [][Allowed]_vars
  BY DEF WritesWereAllowed
<1> QED BY <1>2, <1>3, InductiveInvariant, PTL DEF Spec

\* Through the REST API only an owner, or an admin of a dataset without one,
\* changes who rules, whatever else changes meanwhile
\* (routes/identity_admin.py).
THEOREM RulersHadTheRight == Spec => OwnersDecide
<1> DEFINE Allowed == rights' # rights =>
       \A r \in Requests : (\E op \in {"create", "grant", "revoke", "deactivate"} : Ends(r, op)) =>
         \A p \in Persons : \A x \in Ruling :
           (x \in rights[p]) # (x \in rights'[p]) =>
             LET had == task[r].ever[task[r].ask.who] IN
             \/ "owner" \in had
             \/ x = "admin" /\ "admin" \in had /\ task[r].unowned
<1>1. IInv /\ [Next]_vars => [Allowed]_vars
  <2> SUFFICES ASSUME IInv, Next, rights' # rights, NEW r \in Requests,
                      NEW op \in {"create", "grant", "revoke", "deactivate"}, Ends(r, op),
                      NEW p \in Persons, NEW x \in Ruling, (x \in rights[p]) # (x \in rights'[p])
               PROVE  LET had == task[r].ever[task[r].ask.who] IN
                      \/ "owner" \in had
                      \/ x = "admin" /\ "admin" \in had /\ task[r].unowned
    BY DEF vars
  <2> DEFINE t == task[r]
  <2>1. op \in Ops /\ At(r, op)
    BY DEF Ops, Ends
  <2>2. /\ Decides(t) /\ Remembers(t, rights, dels) /\ t \in Tasks /\ t.ask.op = op
        /\ \A q \in Questions : q # "commit" => ~Due(t, q)
    BY <2>1, CommitShape DEF Sound
  <2>3. t.ask.whom \in Persons /\ rights \in [Persons -> SUBSET Rights]
    BY <2>2, AskShape, StoreShape
  <2>4. /\ op \in {"create", "grant"} => Give(t.ask.whom, t.ask.what)
        /\ op = "revoke" => Take(t.ask.whom, t.ask.what)
        /\ op = "deactivate" => rights' = [rights EXCEPT ![t.ask.whom] = @ \ t.read]
    BY <2>1, EndsHere, OpOf DEF CreatePerson, Grant, RevokeRole, RevokeWrite, Deactivate
  <2>5. x \in Touched(t)
    <3>1. CASE op \in {"create", "grant"}
      <4>1. rights'[p] = IF p = t.ask.whom THEN rights[p] \cup ({t.ask.what} \cap Rights)
                                            ELSE rights[p]
        BY <2>3, <2>4, <3>1 DEF Give
      <4> QED BY <2>2, <3>1, <4>1 DEF Touched
    <3>2. CASE op = "revoke"
      <4>1. rights'[p] = IF p = t.ask.whom THEN rights[p] \ {t.ask.what} ELSE rights[p]
        BY <2>3, <2>4, <3>2 DEF Take
      <4> QED BY <2>2, <3>2, <4>1 DEF Touched
    <3>3. CASE op = "deactivate"
      <4>1. rights'[p] = IF p = t.ask.whom THEN rights[p] \ t.read ELSE rights[p]
        BY <2>3, <2>4, <3>3
      <4> QED BY <2>2, <3>3, <4>1 DEF Touched
    <3> QED BY <3>1, <3>2, <3>3
  <2>6. ~Due(t, "admin") /\ ~Due(t, "owner") /\ ~Due(t, "unowned") /\ ~Due(t, "roles")
    BY <2>2 DEF Questions
  <2>7. /\ Ruled(t, t.ask.who)
        /\ "owner" \in t.ever[t.ask.who] \/ ("owner" \notin Touched(t) /\ t.unowned)
    BY <2>2, <2>5, <2>6 DEF Decides, Settled, Changing
  <2> QED BY <2>5, <2>7 DEF Ruled, Ruling
<1>2. OwnersDecide <=> [][Allowed]_vars
  BY DEF OwnersDecide
<1> QED BY <1>1, <1>2, InductiveInvariant, PTL DEF Spec

\* Rights are only taken by a revocation or a deactivation.
LEMMA OthersOnlyGive ==
  ASSUME IInv, Next
  PROVE  \/ \A p \in Persons : rights[p] \subseteq rights'[p]
         \/ \E r \in Requests : RevokeRole(r) \/ RevokeWrite(r) \/ Deactivate(r)
<1> SUFFICES ASSUME \A r \in Requests : ~(RevokeRole(r) \/ RevokeWrite(r) \/ Deactivate(r))
             PROVE  \A p \in Persons : rights[p] \subseteq rights'[p]
  OBVIOUS
<1>1. ASSUME NEW p, NEW x, Give(p, x)
      PROVE  \A q \in Persons : rights[q] \subseteq rights'[q]
  BY <1>1, StoreShape DEF Give
<1>2. CASE Events
  <2>1. UNCHANGED rights \/ \E p \in Persons : Give(p, "owner")
    BY <1>2 DEF Events, Start, Bootstrap, Lapse, Expire, store
  <2> QED BY <1>1, <2>1
<1>3. CASE Steps
  <2>1. PICK r \in Requests :
          \/ Check(r) \/ Override(r) \/ OwnerCheck(r) \/ ReadRoles(r)
          \/ ReadGrants(r) \/ AskAdmin(r) \/ AskGranted(r)
          \/ CreatePerson(r) \/ Grant(r) \/ NotFound(r) \/ Reactivate(r)
          \/ AssignPersona(r) \/ ActAs(r) \/ Cease(r) \/ Delegate(r) \/ Undelegate(r)
          \/ Put(r) \/ Claim(r)
    BY <1>3 DEF Steps
  <2>2. UNCHANGED rights \/ \E p, x : Give(p, x)
    BY <2>1 DEF Check, Override, OwnerCheck, ReadRoles, ReadGrants, AskAdmin, AskGranted,
                CreatePerson, Grant, NotFound, Reactivate, AssignPersona, ActAs, Cease, Delegate,
                Undelegate, Put, Claim, store
  <2> QED BY <1>1, <2>2
<1> QED BY <1>2, <1>3 DEF Next

\* A revocation or a deactivation that nothing raced leaves somebody.
LEMMA SomebodyIsLeft ==
  ASSUME IInv, NEW r \in Requests, RevokeRole(r) \/ RevokeWrite(r) \/ Deactivate(r), ~task[r].raced,
         NEW R \in {{"owner"}, Ruling}, Holders(R) # {}
  PROVE  Holders(R)' # {}
<1> DEFINE t == task[r]
<1>1. PICK op \in {"revoke", "deactivate"} : At(r, op)
  BY DEF RevokeRole, RevokeWrite, Deactivate
<1>2. op \in Ops
  BY DEF Ops
<1>3. /\ Leaves(t, rights) /\ t \in Tasks /\ t.ask.op = op
      /\ \A q \in Questions : q # "commit" => ~Due(t, q)
  BY <1>1, <1>2, CommitShape DEF Sound
<1>4. t.ask.whom \in Persons /\ rights \in [Persons -> SUBSET Rights]
  BY <1>3, AskShape, StoreShape
<1>5. ~Due(t, "otherOwner") /\ ~Due(t, "otherAdmin") /\ ~Due(t, "capacity") /\ ~Due(t, "roles")
  BY <1>3 DEF Questions
<1>6. Settled(t)
  BY <1>3, <1>5 DEF Settled, Changing
<1> DEFINE gone == IF op = "revoke" THEN {t.ask.what} ELSE t.read
<1>7. \A p \in Persons : rights'[p] = IF p = t.ask.whom THEN rights[p] \ gone ELSE rights[p]
  <2>1. RevokeRole(r) \/ RevokeWrite(r) => op = "revoke"
    BY <1>1, OpOf
  <2>2. Deactivate(r) => op = "deactivate"
    BY <1>1, OpOf
  <2>3. rights' = [rights EXCEPT ![t.ask.whom] = @ \ gone]
    BY <2>1, <2>2 DEF RevokeRole, RevokeWrite, Deactivate, Take
  <2> HIDE DEF gone, t
  <2> QED BY <1>4, <2>3
<1>8. Touched(t) = gone \cap Ruling
  BY <1>3 DEF Touched
<1> HIDE DEF gone
<1>9. Holders(R) = {p \in Persons : rights[p] \cap R # {}} /\
      Holders(R)' = {p \in Persons : rights'[p] \cap R # {}}
  BY DEF Holders
<1>10. (With(rights, R) \ {t.ask.whom} # {}) => Holders(R)' # {}
  BY <1>7, <1>9 DEF With
<1>11. PICK h \in Persons : rights[h] \cap R # {}
  BY <1>9
<1>12. CASE gone \cap R = {}
  <2>1. rights'[h] \cap R # {}
    BY <1>7, <1>11, <1>12
  <2> QED BY <1>9, <2>1
<1>13. CASE R = {"owner"} /\ gone \cap R # {}
  <2>1. "owner" \in Touched(t)
    BY <1>8, <1>13 DEF Ruling
  <2> QED BY <1>3, <1>5, <1>6, <1>10, <1>13, <2>1 DEF Leaves
<1>14. CASE R = Ruling /\ gone \cap R # {}
  <2>1. Touched(t) # {}
    BY <1>8, <1>14
  <2>2. CASE op = "deactivate"
    BY <1>3, <1>5, <1>6, <1>10, <1>14, <2>1, <2>2 DEF Leaves
  <2>3. CASE op = "revoke"
    <3>1. \/ With(rights, Ruling) \ {t.ask.whom} # {}
          \/ (rights[t.ask.whom] \cap Ruling) \ {t.ask.what} # {}
      BY <1>3, <1>5, <1>6, <2>1, <2>3 DEF Leaves
    <3>2. CASE (rights[t.ask.whom] \cap Ruling) \ {t.ask.what} # {}
      <4>1. rights'[t.ask.whom] \cap R # {}
        BY <1>4, <1>7, <1>14, <2>3, <3>2 DEF gone
      <4> QED BY <1>4, <1>9, <4>1
    <3> QED BY <1>10, <1>14, <3>1, <3>2
  <2> QED BY <2>2, <2>3
<1> QED BY <1>12, <1>13, <1>14

\* However many revocations and deactivations are under way, the last owner,
\* or the last who rules, goes only by one that another overlapped
\* (routes/identity_admin.py).
THEOREM OnlyRacesLeaveNobody == Spec => SomebodyRules
<1> DEFINE Kept == \A R \in {{"owner"}, Ruling} :
       Holders(R) # {} /\ Holders(R)' = {} =>
         \E r \in Requests : task[r].raced /\ task'[r] = Idle
<1>1. IInv /\ [Next]_vars => [Kept]_vars
  <2> SUFFICES ASSUME IInv, Next, NEW R \in {{"owner"}, Ruling}, Holders(R) # {}, Holders(R)' = {}
               PROVE  \E r \in Requests : task[r].raced /\ task'[r] = Idle
    BY DEF vars
  <2>1. PICK r \in Requests : RevokeRole(r) \/ RevokeWrite(r) \/ Deactivate(r)
    <3>1. ~(\A p \in Persons : rights[p] \subseteq rights'[p])
      BY DEF Holders
    <3> QED BY <3>1, OthersOnlyGive
  <2>2. task'[r] = Idle
    BY <2>1 DEF RevokeRole, RevokeWrite, Deactivate, Witness
  <2>3. task[r].raced
    BY <2>1, SomebodyIsLeft
  <2> QED BY <2>2, <2>3
<1>2. SomebodyRules <=> [][Kept]_vars
  BY DEF SomebodyRules
<1> QED BY <1>1, <1>2, InductiveInvariant, PTL DEF Spec

-----------------------------------------------------------------------------
(* The MCP connector.                                                       *)

\* All the tokens of a family but its last have been used, and a replay has
\* revoked it.
SoundFamily(f) ==
  /\ \A g \in 1..Len(f.toks)-1 : f.toks[g] = "used"
  /\ f.replayed => f.revoked

FamiliesAreSound == \A i \in DOMAIN fams : SoundFamily(fams[i])

\* A handshake knows its login once GitHub has answered, and holds a code for
\* an allowed login only: a restart, which may change the list, drops it.
HandshakesAreAllowed ==
  \A c \in Clients :
    /\ flow[c].phase \in {"github", "code"} => flow[c].login \in Logins
    /\ flow[c].phase = "code" => flow[c].login \in allowed

\* What is switched is one of the kinds there are.
SwitchesAreOfKinds == \A c \in Clients : running[c].op # "none" => running[c].kind \in Kinds

TokensHaveFamilies == \A c \in Clients : held[c].gen > 0 => held[c].fam > 0

\* What is left of an access token and the time since its login was allowed
\* add up to no more than a lifetime.
LeasesAreBounded ==
  /\ \A l \in allowed : since[l] = 0
  /\ \A c \in Clients : access[c].left > 0 /\ access[c].who \in Logins
       => since[access[c].who] + access[c].left <= AccessTTL

\* What a restart will find: the file holds the choice, unless it could not be
\* written or is not looked at.
FilesHoldChoices ==
  \A k \in Kinds, i \in Callers :
    Pinned[k] = None /\ <<k, i>> \notin unsaved => chosen[k][i] \in {file[k][i], Either}

ConnectorIInv ==
  /\ ConnectorTypeOK
  /\ FamiliesAreSound
  /\ HandshakesAreAllowed
  /\ TokensHaveFamilies
  /\ SwitchesAreOfKinds
  /\ LeasesAreBounded
  /\ FilesHoldChoices
  /\ ChoiceIsKept

-----------------------------------------------------------------------------
(* Families of refresh tokens.                                             *)

\* Using up a live token and issuing the next: only the new one is live.
LEMMA IssuedFamily ==
  ASSUME NEW f \in Families, SoundFamily(f), NEW g \in 1..Len(f.toks), f.toks[g] # "used"
  PROVE  LET n == [f EXCEPT !.toks = Append([@ EXCEPT ![g] = "used"], "live")] IN
         n \in Families /\ SoundFamily(n)
<1> DEFINE used == [f.toks EXCEPT ![g] = "used"]
           n == [f EXCEPT !.toks = Append(used, "live")]
<1>1. f.toks \in Seq({"live", "used"}) /\ Len(f.toks) \in Nat
  BY LenProperties DEF Families
<1>2. /\ used \in Seq({"live", "used"}) /\ Len(used) = Len(f.toks)
      /\ \A i \in 1..Len(f.toks) : used[i] = IF i = g THEN "used" ELSE f.toks[i]
  BY <1>1, ExceptSeq
<1>3. /\ Append(used, "live") \in Seq({"live", "used"})
      /\ Len(Append(used, "live")) = Len(f.toks) + 1
      /\ \A i \in 1..Len(f.toks) : Append(used, "live")[i] = used[i]
  BY <1>2, AppendProperties
<1>4. n \in Families /\ n.toks = Append(used, "live")
  BY <1>3 DEF Families
<1>5. n.replayed = f.replayed /\ n.revoked = f.revoked
  BY DEF Families
<1>6. \A i \in 1..Len(f.toks) : n.toks[i] = "used"
  <2> SUFFICES ASSUME NEW i \in 1..Len(f.toks), i # g PROVE f.toks[i] = "used"
    BY <1>2, <1>3, <1>4
  <2>1. g = Len(f.toks)
    BY <1>1 DEF SoundFamily
  <2> QED BY <1>1, <2>1 DEF SoundFamily
<1> QED BY <1>1, <1>3, <1>4, <1>5, <1>6 DEF SoundFamily

\* A presented token leaves its family sound, whatever it is.
LEMMA RotatedIsSound ==
  ASSUME NEW f \in Families, SoundFamily(f), NEW g \in Int, NEW id \in Clients
  PROVE  Rotated(f, g, id) \in Families /\ SoundFamily(Rotated(f, g, id)) /\ Len(Rotated(f, g, id).toks) \in Nat
<1>1. CASE ~Known(f, g) \/ f.client # id \/ (~Spent(f, g) /\ g <= f.expired)
  BY <1>1, LenProperties DEF Rotated, Families
<1>2. CASE Known(f, g) /\ f.client = id /\ Spent(f, g)
  <2> DEFINE n == [f EXCEPT !.revoked = TRUE, !.replayed = TRUE]
  <2>1. Rotated(f, g, id) = n /\ n \in Families /\ n.toks = f.toks /\ n.revoked
    BY <1>2 DEF Rotated, Families
  <2>2. n.toks \in Seq({"live", "used"})
    BY <2>1 DEF Families
  <2> HIDE DEF n
  <2> QED BY <2>1, <2>2, LenProperties DEF SoundFamily
<1>3. CASE Known(f, g) /\ f.client = id /\ ~Spent(f, g) /\ ~(g <= f.expired) /\ f.login \notin allowed
  <2> DEFINE n == [f EXCEPT !.revoked = TRUE]
  <2>1. Rotated(f, g, id) = n /\ n \in Families /\ n.toks = f.toks /\ n.revoked
    BY <1>3 DEF Rotated, Families
  <2>2. n.toks \in Seq({"live", "used"})
    BY <2>1 DEF Families
  <2> HIDE DEF n
  <2> QED BY <2>1, <2>2, LenProperties DEF SoundFamily
<1>4. CASE Known(f, g) /\ f.client = id /\ ~Spent(f, g) /\ ~(g <= f.expired) /\ f.login \in allowed
  <2> DEFINE n == [f EXCEPT !.toks = Append([@ EXCEPT ![g] = "used"], "live")]
  <2>1. Rotated(f, g, id) = n
    BY <1>4 DEF Rotated
  <2>2. g \in 1..Len(f.toks) /\ f.toks[g] # "used"
    BY <1>4 DEF Known, Spent, Families
  <2>3. n \in Families /\ SoundFamily(n)
    BY <2>2, IssuedFamily
  <2>4. n.toks \in Seq({"live", "used"})
    BY <2>3 DEF Families
  <2> HIDE DEF n
  <2> QED BY <2>1, <2>3, <2>4, LenProperties
<1> QED BY <1>1, <1>2, <1>3, <1>4

\* An answer with a new token goes to a login allowed now.
LEMMA OnlyTheAllowedRenew ==
  ASSUME NEW f \in Families, NEW g \in Int, NEW id, Len(Rotated(f, g, id).toks) > Len(f.toks)
  PROVE  f.login \in allowed
<1> SUFFICES ASSUME f.login \notin allowed PROVE Rotated(f, g, id).toks = f.toks
  BY LenProperties DEF Families
<1> QED BY DEF Rotated, Families

\* A step on the table that keeps every family sound.
LEMMA NewFamilyIsSound ==
  ASSUME NEW c \in Clients, NEW l \in Logins
  PROVE  NewFamily(c, l) \in Families /\ SoundFamily(NewFamily(c, l))
<1>1. <<"live">> \in Seq({"live", "used"}) /\ Len(<<"live">>) = 1
  OBVIOUS
<1> QED BY <1>1 DEF NewFamily, Families, SoundFamily

\* So does the purge of what has expired.
LEMMA PurgedIsSound ==
  ASSUME NEW f \in Families, SoundFamily(f)
  PROVE  Purged(f) \in Families /\ SoundFamily(Purged(f))
BY DEF Purged, Families, SoundFamily

-----------------------------------------------------------------------------
(* Types.                                                                  *)

\* The table of families, after a sign-in.
LEMMA FamiliesGrow ==
  ASSUME ConnectorIInv, NEW f \in Families, SoundFamily(f)
  PROVE  LET new == Append([i \in DOMAIN fams |-> Purged(fams[i])], f) IN
         new \in Seq(Families) /\ \A i \in DOMAIN new : SoundFamily(new[i])
<1> DEFINE kept == [i \in DOMAIN fams |-> Purged(fams[i])]
           new == Append(kept, f)
<1>1. fams \in Seq(Families) /\ Len(fams) \in Nat /\ DOMAIN fams = 1..Len(fams)
  BY LenProperties DEF ConnectorIInv, ConnectorTypeOK
<1>2. \A i \in DOMAIN fams : fams[i] \in Families /\ SoundFamily(fams[i])
  BY <1>1, ElementOfSeq DEF ConnectorIInv, FamiliesAreSound
<1>3. kept \in [1..Len(fams) -> Families] /\ \A i \in 1..Len(fams) : SoundFamily(kept[i])
  BY <1>1, <1>2, PurgedIsSound
<1>4. kept \in Seq(Families) /\ Len(kept) = Len(fams)
  <2> HIDE DEF kept
  <2>1. kept \in Seq(Families)
    BY <1>1, <1>3, SeqDef
  <2> QED BY <1>1, <1>3, <2>1, LenProperties
<1> HIDE DEF kept
<1>5. /\ new \in Seq(Families) /\ Len(new) = Len(fams) + 1
      /\ \A i \in 1..Len(fams) : new[i] = kept[i]
      /\ new[Len(fams) + 1] = f
  BY <1>4, AppendProperties
<1>6. DOMAIN new = 1..Len(fams) + 1
  BY <1>5, LenProperties
<1>7. new \in Seq(Families) /\ \A i \in DOMAIN new : SoundFamily(new[i])
  BY <1>1, <1>3, <1>5, <1>6
<1> QED BY <1>7 DEF kept

\* What every step finds in the types.
LEMMA Parts ==
  ASSUME ConnectorIInv
  PROVE  /\ allowed \subseteq Logins /\ Logins \subseteq Callers /\ Shared \in Callers
         /\ \A l \in Logins : since[l] \in Nat /\ since[l] <= AccessTTL
         /\ \A c \in Clients : /\ flow[c] \in Flows /\ running[c] \in ToolCalls
                               /\ access[c].who \in Callers /\ access[c].left \in Nat
                               /\ access[c].left <= AccessTTL
                               /\ held[c].fam \in Nat /\ held[c].gen \in Nat
         /\ Len(fams) \in Nat /\ DOMAIN fams = 1..Len(fams)
         /\ \A i \in DOMAIN fams : fams[i] \in Families /\ SoundFamily(fams[i])
<1>1. fams \in Seq(Families)
  BY DEF ConnectorIInv, ConnectorTypeOK
<1>2. Len(fams) \in Nat /\ DOMAIN fams = 1..Len(fams) /\ \A i \in DOMAIN fams : fams[i] \in Families
  BY <1>1, LenProperties, ElementOfSeq
<1> QED BY <1>2, ConnectorAssumption DEF ConnectorIInv, ConnectorTypeOK, FamiliesAreSound, Callers

\* What is empty is well-formed.
LEMMA TypesAtRest ==
  /\ NoFlow \in Flows /\ NoToken \in [fam : 0..MaxFamilies, gen : 0..MaxTokens]
  /\ NoTask \in ToolCalls /\ Nothing \in [who : Callers, left : 0..AccessTTL]
BY ConnectorAssumption DEF NoFlow, Flows, NoToken, NoTask, ToolCalls, Nothing, Callers

\* Each action keeps the types.
LEMMA TypesAfterSigningIn ==
  ASSUME ConnectorIInv, happened' \in 0..MaxHappened, NEW c \in Clients,
         \/ Register(c) \/ Authorize(c) \/ IssueCode(c)
         \/ \E l \in Logins : Callback(c, l)
         \/ \E b \in BOOLEAN : TokenGrant(c, b)
  PROVE  ConnectorTypeOK'
<1> USE Parts, TypesAtRest
<1>1. CASE Register(c)
  BY <1>1 DEF ConnectorIInv, ConnectorTypeOK, Register, session
<1>2. CASE Authorize(c)
  <2>1. [NoFlow EXCEPT !.phase = "pending"] \in Flows
    BY DEF Flows
  <2> QED BY <1>2, <2>1 DEF ConnectorIInv, ConnectorTypeOK, Authorize, session
<1>3. ASSUME NEW l \in Logins, Callback(c, l) PROVE ConnectorTypeOK'
  <2>1. [phase |-> "github", login |-> l] \in Flows
    BY DEF Flows
  <2> QED BY <1>3, <2>1 DEF ConnectorIInv, ConnectorTypeOK, Callback, session
<1>4. CASE IssueCode(c)
  <2>1. [flow[c] EXCEPT !.phase = "code"] \in Flows
    BY DEF Flows
  <2>2. flow' \in [Clients -> Flows]
    BY <1>4, <2>1 DEF ConnectorIInv, ConnectorTypeOK, IssueCode
  <2> QED BY <1>4, <2>2 DEF ConnectorIInv, ConnectorTypeOK, IssueCode, session
<1>5. ASSUME NEW b \in BOOLEAN, TokenGrant(c, b) PROVE ConnectorTypeOK'
  <2>1. flow' \in [Clients -> Flows]
    BY <1>5 DEF ConnectorIInv, ConnectorTypeOK, TokenGrant
  <2>2. flow[c].login \in Logins
    BY <1>5 DEF ConnectorIInv, HandshakesAreAllowed, TokenGrant
  <2>3. fams' \in Seq(Families)
    <3>1. NewFamily(c, flow[c].login) \in Families /\ SoundFamily(NewFamily(c, flow[c].login))
      BY <2>2, NewFamilyIsSound
    <3>2. Append([i \in DOMAIN fams |-> Purged(fams[i])], NewFamily(c, flow[c].login))
            \in Seq(Families)
      BY <3>1, FamiliesGrow
    <3> QED BY <1>5, <3>2 DEF ConnectorIInv, ConnectorTypeOK, TokenGrant
  <2>4. held' \in [Clients -> [fam : 0..MaxFamilies, gen : 0..MaxTokens]]
    <3>1. Len(fams) < MaxFamilies
            => [fam |-> Len(fams) + 1, gen |-> 1] \in [fam : 0..MaxFamilies, gen : 0..MaxTokens]
      BY ConnectorAssumption
    <3> QED BY <1>5, <3>1 DEF ConnectorIInv, ConnectorTypeOK, TokenGrant
  <2>5. access' \in [Clients -> [who : Callers, left : 0..AccessTTL]]
    <3>1. [who |-> flow[c].login, left |-> AccessTTL] \in [who : Callers, left : 0..AccessTTL]
      BY <2>2, ConnectorAssumption
    <3> QED BY <1>5, <3>1 DEF ConnectorIInv, ConnectorTypeOK, TokenGrant
  <2> QED BY <1>5, <2>1, <2>3, <2>4, <2>5 DEF ConnectorIInv, ConnectorTypeOK, TokenGrant, session
<1> QED BY <1>1, <1>2, <1>3, <1>4, <1>5

\* What a refresh finds and leaves in the table.
LEMMA RefreshedFamily ==
  ASSUME ConnectorIInv, NEW c \in Clients, NEW back \in {0, 1}, NEW b \in BOOLEAN,
         NEW id \in Clients, Refresh(c, id, back, b)
  PROVE  LET i == held[c].fam
             n == Rotated(fams[i], held[c].gen - back, id) IN
         /\ i \in DOMAIN fams /\ fams[i] \in Families
         /\ n \in Families /\ SoundFamily(n) /\ Len(n.toks) \in Nat /\ Len(n.toks) <= MaxTokens
         /\ fams' = [fams EXCEPT ![i] = n]
         /\ UNCHANGED <<held, access>> \/
              /\ held' = [held EXCEPT ![c].gen = Len(n.toks)]
              /\ access' = [access EXCEPT ![c] = [who |-> fams[i].login, left |-> AccessTTL]]
              /\ fams[i].login \in allowed
<1>1. held[c].gen \in Nat /\ held[c].gen - back > 0 /\ held[c].fam <= Len(fams)
  BY Parts DEF Refresh
<1>2. held[c].fam \in DOMAIN fams
  BY <1>1, Parts DEF ConnectorIInv, TokensHaveFamilies
<1>3. held[c].gen - back \in Int
  BY <1>1
<1> QED BY <1>2, <1>3, Parts, RotatedIsSound, OnlyTheAllowedRenew DEF Refresh

LEMMA TypesAfterRefresh ==
  ASSUME ConnectorIInv, NEW c \in Clients, NEW back \in {0, 1}, NEW b \in BOOLEAN,
         NEW id \in Clients, Refresh(c, id, back, b),
         happened' \in 0..MaxHappened
  PROVE  ConnectorTypeOK'
<1> DEFINE i == held[c].fam
           n == Rotated(fams[i], held[c].gen - back, id)
<1>1. /\ i \in DOMAIN fams /\ fams[i] \in Families
      /\ n \in Families /\ Len(n.toks) \in Nat /\ Len(n.toks) <= MaxTokens
      /\ fams' = [fams EXCEPT ![i] = n]
      /\ UNCHANGED <<held, access>> \/
              /\ held' = [held EXCEPT ![c].gen = Len(n.toks)]
              /\ access' = [access EXCEPT ![c] = [who |-> fams[i].login, left |-> AccessTTL]]
  BY RefreshedFamily
<1> HIDE DEF n
<1>2. fams' \in Seq(Families)
  BY <1>1, Parts, ExceptSeq DEF ConnectorIInv, ConnectorTypeOK
<1>3. held' \in [Clients -> [fam : 0..MaxFamilies, gen : 0..MaxTokens]]
  <2>1. Len(n.toks) \in 0..MaxTokens
    BY <1>1, ConnectorAssumption
  <2>2. [held[c] EXCEPT !.gen = Len(n.toks)] \in [fam : 0..MaxFamilies, gen : 0..MaxTokens]
    BY <2>1 DEF ConnectorIInv, ConnectorTypeOK
  <2> QED BY <1>1, <2>2 DEF ConnectorIInv, ConnectorTypeOK
<1>4. access' \in [Clients -> [who : Callers, left : 0..AccessTTL]]
  <2>1. fams[i].login \in Callers
    BY <1>1 DEF Families, Callers
  <2>2. [who |-> fams[i].login, left |-> AccessTTL] \in [who : Callers, left : 0..AccessTTL]
    BY <2>1, ConnectorAssumption
  <2> QED BY <1>1, <2>2 DEF ConnectorIInv, ConnectorTypeOK
<1> QED BY <1>2, <1>3, <1>4 DEF ConnectorIInv, ConnectorTypeOK, Refresh, session

\* Which dataset and bank somebody's calls go to is always a name or none.
LEMMA EffectiveIsAChoice ==
  ASSUME ConnectorIInv, NEW k \in Kinds, NEW i \in Callers
  PROVE  Effective(k, i) \in Names \cup {None} /\ Effective(k, i) # Unread
BY ConnectorAssumption DEF Effective, ConnectorIInv, ConnectorTypeOK, None, Unread

LEMMA TypesAfterOverride ==
  ASSUME ConnectorIInv, NEW c \in Clients, NEW b \in BOOLEAN, SetOverride(c, b),
         running[c].kind \in Kinds
  PROVE  /\ mem' \in [Kinds -> [Callers -> Names \cup {None, Unread}]]
         /\ file' \in [Kinds -> [Callers -> Names \cup {None}]]
         /\ chosen' \in [Kinds -> [Callers -> Names \cup {None, Either}]]
         /\ unsaved' \subseteq Kinds \X Callers
<1>1. running[c].name \in Names \cup {None} /\ running[c].who \in Callers
  BY Parts DEF ToolCalls
<1> QED BY <1>1 DEF ConnectorIInv, ConnectorTypeOK, SetOverride, Persist

LEMMA TypesAfterCalls ==
  ASSUME ConnectorIInv, NEW c \in Clients, NEW b \in BOOLEAN, happened' \in 0..MaxHappened,
         Send(c, b) \/ Clear(c, b) \/ Checked(c, b)
  PROVE  ConnectorTypeOK'
<1>1. CASE Send(c, b)
  <2> DEFINE i == running[c].who
             gone(k) == ~b /\ mem[k][i] = Unread /\ Pinned[k] = None
  <2>1. i \in Callers /\ [running[c] EXCEPT !.op = "check"] \in ToolCalls /\ NoTask \in ToolCalls
    BY Parts, TypesAtRest DEF ToolCalls
  <2>2. running' \in [Clients -> ToolCalls]
    BY <1>1, <2>1 DEF ConnectorIInv, ConnectorTypeOK, Send
  <2>3. mem' \in [Kinds -> [Callers -> Names \cup {None, Unread}]]
    <3>1. ASSUME NEW k \in Kinds
          PROVE  [mem[k] EXCEPT ![i] = IF gone(k) THEN None ELSE Effective(k, i)]
                   \in [Callers -> Names \cup {None, Unread}]
      BY <2>1, EffectiveIsAChoice DEF ConnectorIInv, ConnectorTypeOK
    <3>2. mem' = [k \in Kinds |->
                    [mem[k] EXCEPT ![i] = IF gone(k) THEN None ELSE Effective(k, i)]]
      BY <1>1 DEF Send
    <3> HIDE DEF i, gone
    <3> QED BY <3>1, <3>2
  <2>4. chosen' \in [Kinds -> [Callers -> Names \cup {None, Either}]]
    <3>1. ASSUME NEW k \in Kinds
          PROVE  [chosen[k] EXCEPT ![i] = IF gone(k) THEN Either ELSE @]
                   \in [Callers -> Names \cup {None, Either}]
      BY <2>1 DEF ConnectorIInv, ConnectorTypeOK
    <3>2. chosen' = [k \in Kinds |-> [chosen[k] EXCEPT ![i] = IF gone(k) THEN Either ELSE @]]
      BY <1>1 DEF Send
    <3> HIDE DEF i, gone
    <3> QED BY <3>1, <3>2
  <2> QED BY <1>1, <2>2, <2>3, <2>4 DEF ConnectorIInv, ConnectorTypeOK, Send, oauth
<1>2. ASSUME SetOverride(c, b) \/ UNCHANGED session, running' = [running EXCEPT ![c] = NoTask],
             running[c].kind \in Kinds, UNCHANGED <<oauth, sse>>
      PROVE  ConnectorTypeOK'
  BY <1>2, TypesAfterOverride, TypesAtRest DEF ConnectorIInv, ConnectorTypeOK, oauth, session
<1>3. ASSUME running[c].op \in {"switch", "check"} PROVE running[c].kind \in Kinds
  BY <1>3 DEF ConnectorIInv, SwitchesAreOfKinds
<1> QED BY <1>1, <1>2, <1>3 DEF Clear, Checked

LEMMA TypesAfterConnecting ==
  ASSUME ConnectorIInv, happened' \in 0..MaxHappened, NEW c \in Clients, NEW p \in Callers,
         \/ OpenSse(c, p)
         \/ \E via \in {"http", "sse"}, op \in {"call", "switch"}, k \in Kinds,
              n \in Names \cup {None} : Begin(c, via, p, op, k, n)
  PROVE  ConnectorTypeOK'
<1>1. CASE OpenSse(c, p)
  BY <1>1 DEF ConnectorIInv, ConnectorTypeOK, OpenSse, oauth, session
<1>2. ASSUME NEW via \in {"http", "sse"}, NEW op \in {"call", "switch"},
             NEW k \in Kinds, NEW n \in Names \cup {None}, Begin(c, via, p, op, k, n)
      PROVE  ConnectorTypeOK'
  <2>1. RunsAs(c, via, p) \in Callers
    BY <1>2 DEF Begin, RunsAs, ConnectorIInv, ConnectorTypeOK
  <2>2. [op |-> op, via |-> via, who |-> RunsAs(c, via, p), poster |-> p, kind |-> k, name |-> n]
          \in ToolCalls
    BY <2>1 DEF ToolCalls
  <2> QED BY <1>2, <2>2 DEF ConnectorIInv, ConnectorTypeOK, Begin, oauth, session
<1> QED BY <1>1, <1>2

LEMMA TypesAfterTick ==
  ASSUME ConnectorIInv, happened' \in 0..MaxHappened, Tick
  PROVE  ConnectorTypeOK'
<1>1. \A c \in Clients : (IF access[c].left > 1 THEN [access[c] EXCEPT !.left = @ - 1] ELSE Nothing)
                           \in [who : Callers, left : 0..AccessTTL]
  <2> SUFFICES ASSUME NEW c \in Clients, access[c].left > 1
               PROVE  [access[c] EXCEPT !.left = @ - 1] \in [who : Callers, left : 0..AccessTTL]
    BY TypesAtRest
  <2>1. access[c] \in [who : Callers, left : 0..AccessTTL] /\ access[c].left - 1 \in 0..AccessTTL
    BY Parts, ConnectorAssumption DEF ConnectorIInv, ConnectorTypeOK
  <2> QED BY <2>1
<1>2. access' \in [Clients -> [who : Callers, left : 0..AccessTTL]]
  BY <1>1 DEF Tick
<1>3. since' \in [Logins -> 0..AccessTTL]
  BY ConnectorAssumption DEF Tick, ConnectorIInv, ConnectorTypeOK
<1> QED BY <1>2, <1>3 DEF ConnectorIInv, ConnectorTypeOK, Tick, session

LEMMA TypesAfterLapse ==
  ASSUME ConnectorIInv, happened' \in 0..MaxHappened, NEW c \in Clients, TimeOut(c)
  PROVE  ConnectorTypeOK' /\ FamiliesAreSound'
<1>1. ASSUME NEW f \in DOMAIN fams, fams' = [fams EXCEPT ![f].expired = @ + 1]
      PROVE  fams' \in Seq(Families) /\ FamiliesAreSound'
  <2> DEFINE n == [fams[f] EXCEPT !.expired = @ + 1]
  <2>1. fams[f] \in Families /\ SoundFamily(fams[f])
    BY Parts
  <2>2. n \in Families /\ SoundFamily(n)
    BY <2>1 DEF Families, SoundFamily
  <2> HIDE DEF n
  <2>3. fams' = [fams EXCEPT ![f] = n]
    BY <1>1 DEF n
  <2>4. fams \in Seq(Families) /\ f \in 1..Len(fams)
    BY Parts DEF ConnectorIInv, ConnectorTypeOK
  <2>5. fams' \in Seq(Families)
    BY <2>2, <2>3, <2>4, ExceptSeq
  <2> QED BY <2>2, <2>3, <2>4, <2>5, Parts DEF FamiliesAreSound
<1>2. fams' \in Seq(Families) /\ FamiliesAreSound'
  BY <1>1 DEF TimeOut, ConnectorIInv, ConnectorTypeOK, FamiliesAreSound
<1>3. flow' \in [Clients -> Flows] /\ reg' \subseteq Clients
  <2>1. flow' = flow \/ flow' = [flow EXCEPT ![c] = NoFlow]
    BY DEF TimeOut
  <2>2. reg' = reg \/ reg' = reg \ {c}
    BY DEF TimeOut
  <2>3. flow \in [Clients -> Flows] /\ NoFlow \in Flows /\ reg \subseteq Clients
    BY TypesAtRest DEF ConnectorIInv, ConnectorTypeOK
  <2>4. flow' \in [Clients -> Flows]
    BY <2>1, <2>3
  <2> QED BY <2>2, <2>3, <2>4
<1> QED BY <1>2, <1>3 DEF ConnectorIInv, ConnectorTypeOK, TimeOut, session

LEMMA TypesAfterRestart ==
  ASSUME ConnectorIInv, happened' \in 0..MaxHappened, NEW logins \in SUBSET Logins, Restart(logins)
  PROVE  ConnectorTypeOK'
<1> USE TypesAtRest
<1>1. allowed' \subseteq Logins /\ since' \in [Logins -> 0..AccessTTL]
  BY ConnectorAssumption DEF ConnectorIInv, ConnectorTypeOK, Restart
<1>2. /\ flow' \in [Clients -> Flows] /\ sse' \in [Clients -> Callers \cup {None}]
      /\ running' \in [Clients -> ToolCalls]
  BY DEF ConnectorIInv, ConnectorTypeOK, Restart
<1>3. /\ reg' \subseteq Clients /\ fams' \in Seq(Families)
      /\ held' \in [Clients -> [fam : 0..MaxFamilies, gen : 0..MaxTokens]]
  <2>1. CASE Durable
    BY <2>1 DEF ConnectorIInv, ConnectorTypeOK, Restart
  <2>2. CASE ~Durable
    <3>1. reg' = {} /\ fams' = <<>> /\ held' = [c \in Clients |-> NoToken]
      BY <2>2 DEF Restart
    <3> QED BY <3>1, EmptySeq
  <2> QED BY <2>1, <2>2
<1>4. mem' \in [Kinds -> [Callers -> Names \cup {None, Unread}]]
  BY DEF ConnectorIInv, ConnectorTypeOK, Restart, Everyone
<1>5. chosen' \in [Kinds -> [Callers -> Names \cup {None, Either}]]
  BY ConnectorAssumption DEF ConnectorIInv, ConnectorTypeOK, Restart
<1> QED BY <1>1, <1>2, <1>3, <1>4, <1>5 DEF ConnectorIInv, ConnectorTypeOK, Restart


-----------------------------------------------------------------------------
(* What each step leaves alone, and what it keeps of the rest.             *)

\* The tool calls and the connections leave the tables of the sign-in alone.
LEMMA SigningInStays ==
  ASSUME ConnectorIInv, UNCHANGED oauth
  PROVE  FamiliesAreSound' /\ HandshakesAreAllowed' /\ TokensHaveFamilies' /\ LeasesAreBounded'
BY DEF ConnectorIInv, oauth, FamiliesAreSound, HandshakesAreAllowed, TokensHaveFamilies,
   LeasesAreBounded,
       SoundFamily

\* And the sign-in leaves the choices alone.
LEMMA ChoicesStay ==
  ASSUME ConnectorIInv, UNCHANGED session
  PROVE  FilesHoldChoices' /\ ChoiceIsKept'
BY DEF ConnectorIInv, session, FilesHoldChoices, ChoiceIsKept, Effective

\* A sign-in begins and proceeds.
LEMMA HandshakePreserves ==
  ASSUME ConnectorIInv, happened' \in 0..MaxHappened, NEW c \in Clients,
         \/ Register(c) \/ Authorize(c) \/ IssueCode(c)
         \/ \E l \in Logins : Callback(c, l)
  PROVE  ConnectorIInv'
<1>1. ConnectorTypeOK'
  BY TypesAfterSigningIn
<1>2. UNCHANGED <<allowed, since, fams, access, sse, running, session>>
  BY DEF Register, Authorize, IssueCode, Callback
<1>3. FamiliesAreSound' /\ LeasesAreBounded' /\ SwitchesAreOfKinds'
  BY <1>2 DEF ConnectorIInv, FamiliesAreSound, SoundFamily, LeasesAreBounded, SwitchesAreOfKinds
<1>4. \A d \in Clients : flow'[d] = flow[d] \/ flow'[d] = NoFlow \/ flow'[d].phase = "pending"
        \/ (flow'[d].phase = "github" /\ flow'[d].login \in Logins)
        \/ (flow'[d].phase = "code" /\ flow'[d].login \in allowed /\ flow'[d].login \in Logins)
  <2>1. \A d \in Clients : flow'[d] = IF d = c THEN flow'[c] ELSE flow[d]
    BY DEF Register, Authorize, Callback, IssueCode, ConnectorIInv, ConnectorTypeOK
  <2>2. ASSUME Register(c) PROVE flow'[c] = flow[c]
    BY <2>2 DEF Register
  <2>3. ASSUME Authorize(c) PROVE flow'[c].phase = "pending"
    <3>1. flow'[c] = [NoFlow EXCEPT !.phase = "pending"]
      BY <2>3 DEF Authorize, ConnectorIInv, ConnectorTypeOK
    <3> QED BY <3>1 DEF NoFlow
  <2>4. ASSUME NEW l \in Logins, Callback(c, l)
        PROVE  flow'[c].phase = "github" /\ flow'[c].login \in Logins
    BY <2>4 DEF Callback, ConnectorIInv, ConnectorTypeOK
  <2>5. ASSUME IssueCode(c)
        PROVE  \/ flow'[c] = NoFlow
               \/ flow'[c].phase = "code" /\ flow'[c].login = flow[c].login
                    /\ flow'[c].login \in allowed
                    /\ flow'[c].login \in Logins
    <3>1. flow[c] \in Flows /\ allowed \subseteq Logins
      BY Parts
    <3>2. \/ flow'[c] = NoFlow
          \/ flow'[c] = [flow[c] EXCEPT !.phase = "code"] /\ flow[c].login \in allowed
      BY <2>5 DEF IssueCode, ConnectorIInv, ConnectorTypeOK
    <3> QED BY <3>1, <3>2 DEF Flows
  <2>6. \/ flow'[c] = flow[c] \/ flow'[c] = NoFlow \/ flow'[c].phase = "pending"
        \/ (flow'[c].phase = "github" /\ flow'[c].login \in Logins)
        \/ (flow'[c].phase = "code" /\ flow'[c].login \in allowed /\ flow'[c].login \in Logins)
    BY <2>2, <2>3, <2>4, <2>5
  <2> QED BY <2>1, <2>6
<1>5. HandshakesAreAllowed'
  BY <1>2, <1>4 DEF ConnectorIInv, HandshakesAreAllowed, NoFlow
<1>6. TokensHaveFamilies'
  <2>1. \A d \in Clients : held'[d] = held[d] \/ held'[d] = NoToken
    BY DEF Register, Authorize, Callback, IssueCode, ConnectorIInv, ConnectorTypeOK
  <2> QED BY <2>1 DEF ConnectorIInv, TokensHaveFamilies, NoToken
<1> QED BY <1>1, <1>2, <1>3, <1>5, <1>6, ChoicesStay DEF ConnectorIInv

\* The code grant: its login is allowed, so the clock since then stands at 0.
LEMMA GrantPreserves ==
  ASSUME ConnectorIInv, happened' \in 0..MaxHappened, NEW c \in Clients, NEW b \in BOOLEAN,
         TokenGrant(c, b)
  PROVE  ConnectorIInv'
<1> DEFINE l == flow[c].login
<1>1. ConnectorTypeOK'
  BY TypesAfterSigningIn
<1>2. UNCHANGED <<allowed, since, reg, sse, running, session>>
  BY DEF TokenGrant
<1>3. l \in allowed /\ l \in Logins /\ since[l] = 0
  BY DEF TokenGrant, ConnectorIInv, HandshakesAreAllowed, LeasesAreBounded
<1>4. FamiliesAreSound'
  <2>1. NewFamily(c, l) \in Families /\ SoundFamily(NewFamily(c, l))
    BY <1>3, NewFamilyIsSound
  <2>2. LET new == Append([i \in DOMAIN fams |-> Purged(fams[i])], NewFamily(c, l)) IN
        \A i \in DOMAIN new : SoundFamily(new[i])
    BY <2>1, FamiliesGrow
  <2>3. \/ UNCHANGED fams
        \/ fams' = Append([i \in DOMAIN fams |-> Purged(fams[i])], NewFamily(c, l))
    BY DEF TokenGrant
  <2> QED BY <2>2, <2>3 DEF ConnectorIInv, FamiliesAreSound
<1>5. HandshakesAreAllowed'
  <2>1. \A d \in Clients : flow'[d] = IF d = c THEN NoFlow ELSE flow[d]
    BY DEF TokenGrant, ConnectorIInv, ConnectorTypeOK
  <2> QED BY <1>2, <2>1 DEF ConnectorIInv, HandshakesAreAllowed, NoFlow
<1>6. TokensHaveFamilies'
  <2>1. \A d \in Clients : held'[d] = held[d] \/ held'[d] = [fam |-> Len(fams) + 1, gen |-> 1]
    BY DEF TokenGrant, ConnectorIInv, ConnectorTypeOK
  <2> QED BY <2>1, Parts DEF ConnectorIInv, TokensHaveFamilies
<1>7. LeasesAreBounded'
  <2>1. \A d \in Clients : access'[d] = access[d] \/ access'[d] = [who |-> l, left |-> AccessTTL]
    BY DEF TokenGrant, ConnectorIInv, ConnectorTypeOK
  <2> QED BY <1>2, <1>3, <2>1, ConnectorAssumption DEF ConnectorIInv, LeasesAreBounded
<1>8. SwitchesAreOfKinds'
  BY <1>2 DEF ConnectorIInv, SwitchesAreOfKinds
<1> QED BY <1>1, <1>2, <1>4, <1>5, <1>6, <1>7, <1>8, ChoicesStay DEF ConnectorIInv

\* A refresh: likewise, and the family stays sound.
LEMMA RefreshPreserves ==
  ASSUME ConnectorIInv, happened' \in 0..MaxHappened, NEW c \in Clients, NEW back \in {0, 1},
         NEW b \in BOOLEAN, NEW id \in Clients, Refresh(c, id, back, b)
  PROVE  ConnectorIInv'
<1> DEFINE i == held[c].fam
           n == Rotated(fams[i], held[c].gen - back, id)
           l == fams[i].login
<1>1. ConnectorTypeOK'
  BY TypesAfterRefresh
<1>2. UNCHANGED <<allowed, since, reg, flow, sse, running, session>>
  BY DEF Refresh
<1>3. /\ i \in DOMAIN fams /\ n \in Families /\ SoundFamily(n) /\ fams' = [fams EXCEPT ![i] = n]
      /\ UNCHANGED <<held, access>> \/
           /\ held' = [held EXCEPT ![c].gen = Len(n.toks)]
           /\ access' = [access EXCEPT ![c] = [who |-> l, left |-> AccessTTL]]
           /\ l \in allowed
  BY RefreshedFamily
<1>4. held[c].fam \in Nat /\ held[c].fam > 0
  BY <1>3, Parts
<1> HIDE DEF n, l
<1>5. FamiliesAreSound'
  BY <1>3, Parts DEF FamiliesAreSound
<1>6. HandshakesAreAllowed' /\ SwitchesAreOfKinds'
  BY <1>2 DEF ConnectorIInv, HandshakesAreAllowed, SwitchesAreOfKinds
<1>7. TokensHaveFamilies'
  <2>1. \A d \in Clients : held'[d].fam = held[d].fam /\ (d # c => held'[d].gen = held[d].gen)
    BY <1>3 DEF ConnectorIInv, ConnectorTypeOK
  <2> QED BY <1>4, <2>1 DEF ConnectorIInv, TokensHaveFamilies
<1>8. LeasesAreBounded'
  <2>1. \A d \in Clients : \/ access'[d] = access[d]
                           \/ access'[d] = [who |-> l, left |-> AccessTTL] /\ l \in allowed
    BY <1>3 DEF ConnectorIInv, ConnectorTypeOK
  <2> QED BY <1>2, <2>1, ConnectorAssumption DEF ConnectorIInv, LeasesAreBounded
<1> QED BY <1>1, <1>2, <1>5, <1>6, <1>7, <1>8, ChoicesStay DEF ConnectorIInv

\* Connections and calls change nothing but themselves.
LEMMA ConnectPreserves ==
  ASSUME ConnectorIInv, happened' \in 0..MaxHappened, NEW c \in Clients, NEW p \in Callers,
         \/ OpenSse(c, p)
         \/ \E via \in {"http", "sse"}, op \in {"call", "switch"}, k \in Kinds,
              n \in Names \cup {None} : Begin(c, via, p, op, k, n)
  PROVE  ConnectorIInv'
<1>1. ConnectorTypeOK'
  BY TypesAfterConnecting
<1>2. UNCHANGED <<oauth, session>>
  BY DEF OpenSse, Begin
<1>3. \A d \in Clients : running'[d] = running[d] \/ running'[d].kind \in Kinds
  BY DEF OpenSse, Begin, ConnectorIInv, ConnectorTypeOK
<1>4. SwitchesAreOfKinds'
  BY <1>3 DEF ConnectorIInv, SwitchesAreOfKinds
<1> QED BY <1>1, <1>2, <1>4, SigningInStays, ChoicesStay DEF ConnectorIInv

\* A clock's tick takes one from every lease and adds one to the time since
\* whoever is off the list was on it.
LEMMA TickPreserves ==
  ASSUME ConnectorIInv, happened' \in 0..MaxHappened, Tick
  PROVE  ConnectorIInv'
<1>1. ConnectorTypeOK'
  BY TypesAfterTick
<1>2. UNCHANGED <<allowed, reg, flow, fams, held, sse, running, session>>
  BY DEF Tick
<1>3. LeasesAreBounded'
  <2>1. \A l \in allowed : since'[l] = 0
    BY Parts DEF Tick
  <2>2. ASSUME NEW c \in Clients, access'[c].left > 0, access'[c].who \in Logins
        PROVE  since'[access'[c].who] + access'[c].left <= AccessTTL
    <3>1. /\ access[c].left > 1
          /\ access'[c] = [access[c] EXCEPT !.left = @ - 1]
      BY <2>2 DEF Tick, Nothing
    <3>2. access'[c].who = access[c].who /\ access'[c].left = access[c].left - 1
      BY <3>1 DEF ConnectorIInv, ConnectorTypeOK
    <3> DEFINE l == access[c].who
    <3>3. since[l] + access[c].left <= AccessTTL /\ since[l] \in Nat /\ access[c].left \in Nat
      BY <2>2, <3>1, <3>2, Parts DEF ConnectorIInv, LeasesAreBounded
    <3>4. since'[l] = 0 \/ since'[l] = since[l] + 1
          \/ (since'[l] = AccessTTL /\ since[l] >= AccessTTL)
      BY <2>2, <3>2, <3>3, ConnectorAssumption DEF Tick
    <3> QED BY <3>1, <3>2, <3>3, <3>4, ConnectorAssumption
  <2> QED BY <1>2, <2>1, <2>2 DEF LeasesAreBounded
<1>4. /\ FamiliesAreSound' /\ HandshakesAreAllowed' /\ TokensHaveFamilies'
      /\ SwitchesAreOfKinds'
  BY <1>2 DEF ConnectorIInv, FamiliesAreSound, SoundFamily, HandshakesAreAllowed,
     TokensHaveFamilies,
              SwitchesAreOfKinds
<1> QED BY <1>1, <1>2, <1>3, <1>4, ChoicesStay DEF ConnectorIInv

LEMMA TimeOutPreserves ==
  ASSUME ConnectorIInv, happened' \in 0..MaxHappened, NEW c \in Clients, TimeOut(c)
  PROVE  ConnectorIInv'
<1>1. ConnectorTypeOK' /\ FamiliesAreSound'
  BY TypesAfterLapse
<1>2. UNCHANGED <<allowed, since, held, access, sse, running, session>>
  BY DEF TimeOut
<1>3. HandshakesAreAllowed'
  <2>1. \A d \in Clients : flow'[d] = flow[d] \/ flow'[d] = NoFlow
    BY DEF TimeOut, ConnectorIInv, ConnectorTypeOK
  <2> QED BY <1>2, <2>1 DEF ConnectorIInv, HandshakesAreAllowed, NoFlow
<1>4. TokensHaveFamilies' /\ LeasesAreBounded' /\ SwitchesAreOfKinds'
  BY <1>2 DEF ConnectorIInv, TokensHaveFamilies, LeasesAreBounded, SwitchesAreOfKinds
<1> QED BY <1>1, <1>2, <1>3, <1>4, ChoicesStay DEF ConnectorIInv

\* A restart forgets what was in memory: the files hold the choices.
LEMMA RestartPreserves ==
  ASSUME ConnectorIInv, happened' \in 0..MaxHappened, NEW logins \in SUBSET Logins, Restart(logins)
  PROVE  ConnectorIInv'
<1>1. ConnectorTypeOK'
  BY TypesAfterRestart
<1>2. FamiliesAreSound' /\ TokensHaveFamilies'
  BY DEF Restart, ConnectorIInv, FamiliesAreSound, SoundFamily, TokensHaveFamilies, NoToken
<1>3. HandshakesAreAllowed' /\ SwitchesAreOfKinds'
  BY DEF Restart, HandshakesAreAllowed, NoFlow, SwitchesAreOfKinds, NoTask
<1>4. LeasesAreBounded'
  <2>1. \A l \in Logins : since'[l] = IF l \in logins \cup allowed THEN 0 ELSE since[l]
    BY DEF Restart
  <2>2. UNCHANGED access /\ allowed' = logins
    BY DEF Restart
  <2>3. ASSUME NEW c \in Clients, access[c].left > 0, access[c].who \in Logins
        PROVE  since'[access[c].who] + access[c].left <= AccessTTL
    BY <2>1, <2>3, Parts, ConnectorAssumption DEF ConnectorIInv, LeasesAreBounded
  <2> QED BY <2>1, <2>2, <2>3 DEF LeasesAreBounded
<1>5. \A k \in Kinds, i \in Callers : mem'[k][i] = Unread
  BY DEF Restart, Everyone
<1>6. \A k \in Kinds, i \in Callers :
        chosen'[k][i] = IF Pinned[k] # None THEN Pinned[k]
                        ELSE IF <<k, i>> \in unsaved THEN Either ELSE chosen[k][i]
  BY DEF Restart
<1>7. UNCHANGED file
  BY DEF Restart
<1>8. FilesHoldChoices' /\ ChoiceIsKept'
  BY <1>5, <1>6, <1>7 DEF ConnectorIInv, FilesHoldChoices, ChoiceIsKept, Effective
<1> QED BY <1>1, <1>2, <1>3, <1>4, <1>8 DEF ConnectorIInv

\* A choice is remembered, and written or known not to be.
LEMMA OverrideKeepsChoices ==
  ASSUME ConnectorIInv, NEW c \in Clients, NEW b \in BOOLEAN, SetOverride(c, b),
         running[c].kind \in Kinds
  PROVE  FilesHoldChoices' /\ ChoiceIsKept'
<1> DEFINE K == running[c].kind
           I == running[c].who
           N == running[c].name
<1>1. I \in Callers /\ N \in Names \cup {None} /\ N # Unread
  BY Parts, ConnectorAssumption DEF ToolCalls, None, Unread
<1>2. ASSUME NEW k \in Kinds, NEW i \in Callers
      PROVE  /\ mem'[k][i] = IF k = K /\ i = I THEN N ELSE mem[k][i]
             /\ chosen'[k][i] = IF k = K /\ i = I THEN N ELSE chosen[k][i]
             /\ file'[k][i] = IF k = K /\ i = I /\ b THEN N ELSE file[k][i]
             /\ <<k, i>> \in unsaved' <=> IF k = K /\ i = I THEN ~b ELSE <<k, i>> \in unsaved
  BY DEF SetOverride, Persist, ConnectorIInv, ConnectorTypeOK
<1> HIDE DEF K, I, N
<1>3. FilesHoldChoices'
  BY <1>2 DEF ConnectorIInv, FilesHoldChoices
<1>4. ChoiceIsKept'
  <2> SUFFICES ASSUME NEW k \in Kinds, NEW i \in Callers
               PROVE  chosen'[k][i] \in {Effective(k, i)', Either}
    BY DEF ChoiceIsKept, Effective
  <2>1. CASE k = K /\ i = I
    BY <1>1, <1>2, <2>1 DEF Effective
  <2>2. CASE ~(k = K /\ i = I)
    BY <1>2, <2>2 DEF ConnectorIInv, ChoiceIsKept, Effective
  <2> QED BY <2>1, <2>2
<1> QED BY <1>3, <1>4

\* A call fixes in memory what it has read; what it could not read may be
\* anything.
LEMMA SendKeepsChoices ==
  ASSUME ConnectorIInv, NEW c \in Clients, NEW b \in BOOLEAN, Send(c, b)
  PROVE  FilesHoldChoices' /\ ChoiceIsKept'
<1> DEFINE I == running[c].who
           gone(k) == ~b /\ mem[k][I] = Unread /\ Pinned[k] = None
<1>1. I \in Callers
  BY Parts DEF ToolCalls
<1>2. /\ mem' = [k \in Kinds |-> [mem[k] EXCEPT ![I] =
                   IF gone(k) THEN None ELSE Effective(k, I)]]
      /\ chosen' = [k \in Kinds |-> [chosen[k] EXCEPT ![I] = IF gone(k) THEN Either ELSE @]]
      /\ UNCHANGED <<file, unsaved>>
  BY DEF Send
<1> HIDE DEF I
<1>3. ASSUME NEW k \in Kinds, NEW i \in Callers
      PROVE  /\ mem'[k][i] = IF i = I THEN IF gone(k) THEN None ELSE Effective(k, I) ELSE mem[k][i]
             /\ chosen'[k][i] = IF i = I /\ gone(k) THEN Either ELSE chosen[k][i]
  BY <1>1, <1>2 DEF ConnectorIInv, ConnectorTypeOK
<1> HIDE DEF gone
<1>4. FilesHoldChoices'
  BY <1>2, <1>3 DEF ConnectorIInv, FilesHoldChoices
<1>5. ChoiceIsKept'
  <2> SUFFICES ASSUME NEW k \in Kinds, NEW i \in Callers
               PROVE  chosen'[k][i] \in {Effective(k, i)', Either}
    BY DEF ChoiceIsKept, Effective
  <2>1. CASE i = I
    BY <1>1, <1>3, <2>1, EffectiveIsAChoice, ConnectorAssumption
       DEF ConnectorIInv, ChoiceIsKept, Effective, None, Unread
  <2>2. CASE i # I
    BY <1>2, <1>3, <2>2 DEF ConnectorIInv, ChoiceIsKept, Effective
  <2> QED BY <2>1, <2>2
<1> QED BY <1>4, <1>5

\* A tool call runs: it sends, clears a choice, or makes one.
LEMMA CallPreserves ==
  ASSUME ConnectorIInv, happened' \in 0..MaxHappened, NEW c \in Clients, NEW b \in BOOLEAN,
         Send(c, b) \/ Clear(c, b) \/ Checked(c, b)
  PROVE  ConnectorIInv'
<1>1. ConnectorTypeOK'
  BY TypesAfterCalls
<1>2. UNCHANGED <<oauth, sse>>
  BY DEF Send, Clear, Checked
<1>3. running[c].op # "none" /\ running[c].kind \in Kinds
  BY DEF Send, Clear, Checked, ConnectorIInv, SwitchesAreOfKinds
<1>4. SwitchesAreOfKinds'
  <2>1. \A d \in Clients : \/ running'[d].op = "none"
                           \/ running'[d].kind = running[d].kind /\ d = c
                           \/ running'[d] = running[d]
    BY Parts DEF Send, Clear, Checked, ConnectorIInv, ConnectorTypeOK, NoTask, ToolCalls
  <2> QED BY <1>3, <2>1 DEF ConnectorIInv, SwitchesAreOfKinds
<1>5. FilesHoldChoices' /\ ChoiceIsKept'
  BY <1>3, SendKeepsChoices, OverrideKeepsChoices, ChoicesStay DEF Clear, Checked
<1> QED BY <1>1, <1>2, <1>4, <1>5, SigningInStays DEF ConnectorIInv

-----------------------------------------------------------------------------
LEMMA ConnectorInitEstablishes == ConnectorInit => ConnectorIInv
<1> SUFFICES ASSUME ConnectorInit PROVE ConnectorIInv
  OBVIOUS
<1>1. ConnectorTypeOK
  BY ConnectorAssumption, TypesAtRest, EmptySeq DEF ConnectorInit, ConnectorTypeOK, Everyone,
     Callers
<1>2. FamiliesAreSound /\ HandshakesAreAllowed /\ TokensHaveFamilies /\ SwitchesAreOfKinds
  BY DEF ConnectorInit, FamiliesAreSound, HandshakesAreAllowed, TokensHaveFamilies,
     SwitchesAreOfKinds,
         NoFlow, NoToken, NoTask
<1>3. LeasesAreBounded
  BY DEF ConnectorInit, LeasesAreBounded, Nothing
<1>4. FilesHoldChoices /\ ChoiceIsKept
  BY DEF ConnectorInit, FilesHoldChoices, ChoiceIsKept, Effective, Everyone
<1> QED BY <1>1, <1>2, <1>3, <1>4 DEF ConnectorIInv

LEMMA ConnectorNextPreserves == ConnectorIInv /\ [ConnectorNext]_connectorVars => ConnectorIInv'
<1> SUFFICES ASSUME ConnectorIInv, [ConnectorNext]_connectorVars PROVE ConnectorIInv'
  OBVIOUS
<1>1. CASE UNCHANGED connectorVars
  <2>1. UNCHANGED <<oauth, session, sse, running, happened>>
    BY <1>1 DEF connectorVars
  <2>2. UNCHANGED <<allowed, since, reg, flow, fams, held, access, mem, file, chosen, unsaved>>
    BY <2>1 DEF oauth, session
  <2>3. ConnectorTypeOK' /\ SwitchesAreOfKinds'
    BY <2>1, <2>2 DEF ConnectorIInv, ConnectorTypeOK, SwitchesAreOfKinds
  <2> QED BY <2>1, <2>3, SigningInStays, ChoicesStay DEF ConnectorIInv
<1>2. CASE ConnectorSteps /\ UNCHANGED happened
  <2>1. happened' \in 0..MaxHappened
    BY <1>2 DEF ConnectorIInv, ConnectorTypeOK
  <2> QED BY <1>2, <2>1, HandshakePreserves, GrantPreserves, CallPreserves DEF ConnectorSteps
<1>3. CASE happened < MaxHappened /\ Happenings /\ happened' = happened + 1
  <2>1. happened' \in 0..MaxHappened
    BY <1>3, ConnectorAssumption DEF ConnectorIInv, ConnectorTypeOK
  <2>2. ASSUME NEW c \in Clients,
               Register(c) \/ Authorize(c) \/ \E l \in Logins : Callback(c, l)
        PROVE  ConnectorIInv'
    BY <2>1, <2>2, HandshakePreserves
  <2>3. ASSUME NEW c \in Clients, TimeOut(c) PROVE ConnectorIInv'
    BY <2>1, <2>3, TimeOutPreserves
  <2>4. ASSUME NEW c \in Clients, NEW back \in {0, 1}, NEW d \in BOOLEAN,
               NEW id \in Clients, Refresh(c, id, back, d)
        PROVE  ConnectorIInv'
    BY <2>1, <2>4, RefreshPreserves
  <2>5. ASSUME NEW c \in Clients, NEW p \in Callers, OpenSse(c, p) PROVE ConnectorIInv'
    BY <2>1, <2>5, ConnectPreserves
  <2>6. ASSUME NEW c \in Clients, NEW p \in Callers, NEW via \in {"http", "sse"},
               NEW op \in {"call", "switch"}, NEW k \in Kinds, NEW n \in Names \cup {None},
               Begin(c, via, p, op, k, n)
        PROVE  ConnectorIInv'
    BY <2>1, <2>6, ConnectPreserves
  <2>7. CASE Tick
    BY <2>1, <2>7, TickPreserves
  <2>8. ASSUME NEW logins \in SUBSET Logins, Restart(logins) PROVE ConnectorIInv'
    BY <2>1, <2>8, RestartPreserves
  <2> QED BY <1>3, <2>2, <2>3, <2>4, <2>5, <2>6, <2>7, <2>8 DEF Happenings
<1> QED BY <1>1, <1>2, <1>3 DEF ConnectorNext

\* The invariant holds in every reachable state.
LEMMA ConnectorInvariant == ConnectorSpec => []ConnectorIInv
BY ConnectorInitEstablishes, ConnectorNextPreserves, PTL DEF ConnectorSpec

-----------------------------------------------------------------------------
\* Types, for any clients, logins, names, pins and lifetimes.
THEOREM ConnectorIsTyped == ConnectorSpec => []ConnectorTypeOK
<1>1. ConnectorIInv => ConnectorTypeOK
  BY DEF ConnectorIInv
<1> QED BY <1>1, ConnectorInvariant, PTL

\* A caller's calls go where that caller last chose (session.py).
THEOREM ChoicesAreKept == ConnectorSpec => []ChoiceIsKept
<1>1. ConnectorIInv => ChoiceIsKept
  BY DEF ConnectorIInv
<1> QED BY <1>1, ConnectorInvariant, PTL

\* Of a family at most one refresh token is good, and none after a spent one was
\* presented under its own client_id (rotate_refresh).
THEOREM ReplaysEndFamilies == ConnectorSpec => []ReplayEndsFamily
<1>1. ConnectorIInv => ReplayEndsFamily
  <2> SUFFICES ASSUME ConnectorIInv, NEW i \in DOMAIN fams
               PROVE  LET f == fams[i]
                          good == {g \in DOMAIN f.toks : ~Spent(f, g) /\ Known(f, g)}
                      IN  Cardinality(good) <= (IF f.replayed THEN 0 ELSE 1)
    BY DEF ReplayEndsFamily
  <2> DEFINE f == fams[i]
             good == {g \in DOMAIN f.toks : ~Spent(f, g) /\ Known(f, g)}
  <2>1. f \in Families /\ SoundFamily(f)
    BY Parts
  <2>2. Len(f.toks) \in Nat /\ DOMAIN f.toks = 1..Len(f.toks)
    BY <2>1, LenProperties DEF Families
  <2> HIDE DEF f
  <2>3. CASE f.replayed
    <3>1. good = {}
      BY <2>1, <2>3 DEF SoundFamily, Spent
    <3> HIDE DEF good
    <3> QED BY <2>3, <3>1, FS_EmptySet DEF f, good
  <2>4. CASE ~f.replayed
    <3>1. good \subseteq {Len(f.toks)}
      BY <2>1, <2>2 DEF SoundFamily, Spent
    <3>2. good = {} \/ good = {Len(f.toks)}
      BY <3>1
    <3> HIDE DEF good
    <3>3. Cardinality(good) = 0 \/ Cardinality(good) = 1
      BY <3>2, FS_EmptySet, FS_Singleton
    <3> QED BY <2>4, <3>3 DEF f, good
  <2> QED BY <2>3, <2>4
<1> QED BY <1>1, ConnectorInvariant, PTL

\* A login taken off the allowlist stops within an access token's lifetime
\* (verify_session_token).
THEOREM RevokedLoginsStop == ConnectorSpec => RevokedLoginStops
<1> DEFINE Stops ==
      \A c \in Clients : (running[c] = NoTask /\ running'[c] # NoTask) =>
        LET t == running'[c] IN
        (t.who \in Logins /\ (t.via = "http" \/ t.who = t.poster)) => since[t.who] < AccessTTL
<1>1. ConnectorIInv /\ [ConnectorNext]_connectorVars => [Stops]_connectorVars
  <2> SUFFICES ASSUME ConnectorIInv, ConnectorNext, NEW c \in Clients, running[c] = NoTask,
                      running'[c] # NoTask,
                      running'[c].who \in Logins,
                      running'[c].via = "http" \/ running'[c].who = running'[c].poster
               PROVE  since[running'[c].who] < AccessTTL
    OBVIOUS
  <2>1. PICK d \in Clients, p \in Callers, via \in {"http", "sse"}, op \in {"call", "switch"},
             k \in Kinds, n \in Names \cup {None} : Begin(d, via, p, op, k, n)
    <3> SUFFICES ASSUME ~\E d \in Clients, p \in Callers, via \in {"http", "sse"},
                           op \in {"call", "switch"}, k \in Kinds, n \in Names \cup {None} :
                             Begin(d, via, p, op, k, n)
                 PROVE  running'[c] = NoTask \/ running'[c] = running[c]
      OBVIOUS
    <3>1. ASSUME NEW d \in Clients, NEW b \in BOOLEAN, Send(d, b) \/ Clear(d, b) \/ Checked(d, b)
          PROVE  running'[c] = running[c]
      <4>1. d # c
        BY <3>1 DEF Send, Clear, Checked, NoTask
      <4> QED BY <3>1, <4>1 DEF Send, Clear, Checked, ConnectorIInv, ConnectorTypeOK
    <3>2. ASSUME NEW d \in Clients, NEW b \in BOOLEAN, IssueCode(d) \/ TokenGrant(d, b)
          PROVE  running'[c] = running[c]
      BY <3>2 DEF IssueCode, TokenGrant
    <3>3. ASSUME NEW d \in Clients,
                 \/ Register(d) \/ Authorize(d) \/ TimeOut(d) \/ \E l \in Logins : Callback(d, l)
                 \/ \E id \in Clients, back \in {0, 1}, b \in BOOLEAN : Refresh(d, id, back, b)
                 \/ \E p \in Callers : OpenSse(d, p)
          PROVE  running'[c] = running[c]
      BY <3>3 DEF Register, Authorize, TimeOut, Callback, Refresh, OpenSse
    <3>4. CASE Tick
      BY <3>4 DEF Tick
    <3>5. ASSUME NEW logins \in SUBSET Logins, Restart(logins) PROVE running'[c] = NoTask
      BY <3>5 DEF Restart
    <3> QED BY <3>1, <3>2, <3>3, <3>4, <3>5 DEF ConnectorNext, ConnectorSteps, Happenings
  <2>2. running'[c] = [op |-> op, via |-> via, who |-> RunsAs(c, via, p), poster |-> p,
                    kind |-> k, name |-> n] /\ p \in Proves(c)
    BY <2>1 DEF Begin, ConnectorIInv, ConnectorTypeOK
  <2>3. running'[c].who = p
    BY <2>2 DEF RunsAs
  <2>4. p \in Logins /\ p # Shared /\ p = access[c].who /\ access[c].left > 0
    BY <2>2, <2>3, ConnectorAssumption DEF Proves
  <2> QED BY <2>3, <2>4, Parts, ConnectorAssumption DEF ConnectorIInv, LeasesAreBounded
<1>2. RevokedLoginStops <=> [][Stops]_connectorVars
  BY DEF RevokedLoginStops
<1> QED BY <1>1, <1>2, ConnectorInvariant, PTL DEF ConnectorSpec
=============================================================================
