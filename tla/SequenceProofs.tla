--------------------------- MODULE SequenceProofs ---------------------------
(***************************************************************************)
(* Proofs about numbers and orders.  First minting, for any number of      *)
(* calls and attempts: the numbers are distinct, contention is real, and   *)
(* Sequence implements IdSource.  Then pipelines, for any manifests,       *)
(* stages, rules and requests: a pipeline runs in an order of its          *)
(* dependencies, a message tells what was done, and the index agrees with  *)
(* the manifest.                                                           *)
(***************************************************************************)
EXTENDS Sequence, Pipelines, SequenceTheorems, FiniteSetTheorems, WellFoundedInduction,
        TLAPS

\* A call's last read is never ahead of the counter, and every attempt lost
\* before that read is covered by the value it read.
ReadsBehindCounter ==
  \A m \in Minters :
    /\ current[m] <= value
    /\ attempt[m] <= value
    /\ pc[m] \in {"update", "afloat", "confirm"} => attempt[m] <= current[m]
    /\ pc[m] = "confirm" => current[m] < value
    /\ pc[m] \in {"idle", "read", "update", "confirm"} => attempt[m] < Attempts

\* While the counter still shows an owned number it shows its owner's token.
OwnersHoldToken ==
  \A m \in Minters :
    Owns(m) => /\ Nxt(m) <= value
               /\ value = Nxt(m) => token = TokenOf(m)

\* Whose token the counter shows.  A call between its read and its read-back
\* finds its own only as the trace of this attempt's update, or, before that
\* update, where nothing has moved the counter since its read.
TokensTellAdvances ==
  /\ value > 0 => token # NoToken
  /\ \A m \in Minters : token \in {m} \X Nat =>
       /\ pc[m] = "update" => value <= current[m]
       /\ pc[m] = "confirm" => IsMine(m)

IInv ==
  /\ TypeOK
  /\ ReadsBehindCounter
  /\ TokensTellAdvances
  /\ OwnersHoldToken
  /\ UniqueIds
  /\ RecordsAccountForAnswers

-----------------------------------------------------------------------------
\* The guarded update moves the counter by one or not at all, and leaves it
\* past the number its call had read.
LEMMA UpdateEffect ==
  ASSUME IInv, NEW m \in Minters, ApplyUpdate(m)
  PROVE  /\ value' \in Nat
         /\ value' = value \/ (value' = value + 1 /\ value' = Nxt(m))
         /\ token' \in {NoToken} \cup (Minters \X Nat)
         /\ value' = value => token' = token
         /\ current[m] < value'
         /\ value' = value \/ (token' = TokenOf(m) /\ value' = Nxt(m))
<1>1. value \in Nat /\ current[m] \in Nat /\ attempt[m] \in Nat /\ current[m] <= value
  BY AttemptsAssumption DEF IInv, TypeOK, ReadsBehindCounter
<1>2. CASE GuardHolds(m)
  <2>1. value = current[m]
    BY <1>1, <1>2 DEF GuardHolds
  <2>2. value' = value + 1 /\ value' = Nxt(m) /\ token' = TokenOf(m)
    BY <1>2, <2>1 DEF ApplyUpdate, Nxt
  <2>3. token' \in Minters \X Nat
    BY <1>1, <2>2 DEF TokenOf
  <2>4. value' \in Nat /\ value' # value /\ current[m] < value'
    BY <1>1, <2>1, <2>2
  <2> QED BY <2>2, <2>3, <2>4
<1>3. CASE ~GuardHolds(m)
  <2>1. value' = value /\ token' = token
    BY <1>3 DEF ApplyUpdate
  <2>2. value # current[m]
    BY <1>3 DEF GuardHolds
  <2> QED BY <1>1, <2>1, <2>2 DEF IInv, TypeOK
<1> QED BY <1>2, <1>3

LEMMA InitEstablishes == Init => IInv
<1> SUFFICES ASSUME Init PROVE IInv
  OBVIOUS
<1> QED
  BY AttemptsAssumption
  DEF Init, IInv, TypeOK, ReadsBehindCounter, TokensTellAdvances, OwnersHoldToken, UniqueIds,
      RecordsAccountForAnswers, Owns, Nxt, NoToken, PCs, InLoop, Finished

\* Steps that leave the store alone and move one call's control only.
LEMMA MovePreserves ==
  ASSUME IInv, NEW m \in Minters, NEW label \in PCs,
         UNCHANGED <<value, token, records, current, attempt>>,
         Goto(m, label), label \in {"read", "afloat", "aborted"},
         label = "afloat" => pc[m] = "update",
         label = "read" => pc[m] = "idle"
  PROVE  IInv'
<1>1. TypeOK'
  BY DEF IInv, TypeOK, Goto
<1>2. \A k \in Minters : pc'[k] = IF k = m THEN label ELSE pc[k]
  BY DEF IInv, TypeOK, Goto
<1>3. ReadsBehindCounter'
  BY <1>2 DEF IInv, ReadsBehindCounter
<1>4. OwnersHoldToken'
  BY <1>2 DEF IInv, OwnersHoldToken, Owns, Nxt, TokenOf
<1>5. UniqueIds'
  BY <1>2 DEF IInv, UniqueIds, Owns, Nxt
<1>6. RecordsAccountForAnswers'
  BY <1>2 DEF IInv, RecordsAccountForAnswers, Nxt
<1>7. TokensTellAdvances'
  BY <1>2 DEF IInv, TokensTellAdvances, IsMine, Nxt, TokenOf, NoToken
<1> QED BY <1>1, <1>3, <1>4, <1>5, <1>6, <1>7 DEF IInv

\* A step that applies the update, and takes its call to `label`.
LEMMA UpdatePreserves ==
  ASSUME IInv, NEW m \in Minters, pc[m] \in {"update", "afloat"},
         ApplyUpdate(m), NEW label \in {"confirm", "aborted"}, Goto(m, label),
         label = "confirm" => pc[m] = "update",
         UNCHANGED <<records, current, attempt>>
  PROVE  IInv'
<1>1. \A k \in Minters : pc'[k] = IF k = m THEN label ELSE pc[k]
  BY DEF IInv, TypeOK, Goto
<1>2. TypeOK'
  BY UpdateEffect DEF IInv, TypeOK, Goto, PCs, InLoop, Finished
<1>3. value \in Nat /\ value <= value'
  BY UpdateEffect DEF IInv, TypeOK
<1>4. \A k \in Minters : current[k] \in Nat /\ attempt[k] \in Nat
  BY AttemptsAssumption DEF IInv, TypeOK
<1>5. ReadsBehindCounter'
  BY <1>1, <1>2, <1>3, <1>4, UpdateEffect DEF IInv, ReadsBehindCounter, TypeOK
<1>6. OwnersHoldToken'
  <2> SUFFICES ASSUME NEW k \in Minters, Owns(k)'
               PROVE  Nxt(k) <= value' /\ (value' = Nxt(k) => token' = TokenOf(k))
    BY DEF OwnersHoldToken, Nxt, TokenOf
  <2>1. Owns(k) /\ k # m
    BY <1>1 DEF Owns
  <2>2. Nxt(k) <= value /\ (value = Nxt(k) => token = TokenOf(k)) /\ Nxt(k) \in Nat
    BY <2>1, <1>4 DEF IInv, OwnersHoldToken, Nxt
  <2> QED BY <1>3, <2>2, UpdateEffect
<1>7. UniqueIds'
  BY <1>1 DEF IInv, UniqueIds, Owns, Nxt
<1>8. RecordsAccountForAnswers'
  <2>1. \A n \in records : n \in 1..value'
    BY <1>2, <1>3 DEF IInv, RecordsAccountForAnswers, TypeOK
  <2> QED BY <1>1, <2>1 DEF IInv, RecordsAccountForAnswers, Nxt
<1>9. TokensTellAdvances'
  <2> DEFINE Mine(k) == token \in {k} \X Nat
  <2>1. value' > 0 => token' # NoToken
    <3>1. TokenOf(m) # NoToken
      BY DEF TokenOf, NoToken
    <3> QED BY <1>3, <3>1, UpdateEffect DEF IInv, TokensTellAdvances
  <2>2. ASSUME NEW k \in Minters, Mine(k)', k # m
        PROVE  /\ pc'[k] = "update" => value' <= current'[k]
               /\ pc'[k] = "confirm" => IsMine(k)'
    <3>1. token' # TokenOf(m)
      BY <2>2 DEF TokenOf
    <3>2. value' = value /\ token' = token
      BY <3>1, UpdateEffect
    <3> QED BY <1>1, <2>2, <3>2 DEF IInv, TokensTellAdvances, IsMine, Nxt, TokenOf
  <2>3. ASSUME Mine(m)', label = "confirm"
        PROVE  IsMine(m)'
    <3>1. CASE value' = value
      <4>1. token' = token /\ current[m] < value
        BY <3>1, UpdateEffect
      <4>2. value <= current[m]
        BY <2>3, <4>1 DEF IInv, TokensTellAdvances
      <4> QED BY <1>3, <1>4, <4>1, <4>2
    <3>2. CASE value' # value
      BY <3>2, UpdateEffect DEF IsMine, Nxt, TokenOf
    <3> QED BY <3>1, <3>2
  <2>4. pc'[m] = label
    BY <1>1
  <2> QED BY <2>1, <2>2, <2>3, <2>4 DEF TokensTellAdvances
<1> QED BY <1>2, <1>5, <1>6, <1>7, <1>8, <1>9 DEF IInv

LEMMA ReadPreserves ==
  ASSUME IInv, NEW m \in Minters, Read(m)
  PROVE  IInv'
<1>1. pc[m] = "read" /\ \A k \in Minters : pc'[k] = IF k = m THEN "update" ELSE pc[k]
  BY DEF IInv, TypeOK, Goto, Read
<1>2. \A k \in Minters : current'[k] = IF k = m THEN value ELSE current[k]
  BY DEF IInv, TypeOK, Read
<1>3. TypeOK'
  BY DEF IInv, TypeOK, Goto, Read, PCs, InLoop
<1>4. ReadsBehindCounter'
  BY <1>1, <1>2, <1>3 DEF IInv, ReadsBehindCounter, Read, TypeOK
<1>5. \A k \in Minters : Owns(k)' => Owns(k) /\ k # m /\ Nxt(k)' = Nxt(k)
  BY <1>1, <1>2 DEF Owns, Nxt
<1>6. OwnersHoldToken'
  BY <1>5 DEF IInv, OwnersHoldToken, TokenOf, Read
<1>7. UniqueIds'
  BY <1>5 DEF IInv, UniqueIds
<1>8. RecordsAccountForAnswers'
  BY <1>1, <1>2 DEF IInv, RecordsAccountForAnswers, Nxt, Read
<1>9. TokensTellAdvances'
  BY <1>1, <1>2, <1>3 DEF IInv, TokensTellAdvances, TypeOK, Read, IsMine, Nxt, TokenOf
<1> QED BY <1>3, <1>4, <1>6, <1>7, <1>8, <1>9 DEF IInv

\* The heart of the argument: the counter shows one token, and every owner of
\* the number it shows holds that token, so only one call can confirm it.
LEMMA ConfirmPreserves ==
  ASSUME IInv, NEW m \in Minters, Confirm(m)
  PROVE  IInv'
<1>1. pc[m] = "confirm" /\ \A k \in Minters : pc'[k] = IF k = m THEN "record" ELSE pc[k]
  BY DEF IInv, TypeOK, Goto, Confirm
<1>2. TypeOK'
  BY DEF IInv, TypeOK, Goto, Confirm, PCs, InLoop
<1>3. ReadsBehindCounter'
  BY <1>1 DEF IInv, ReadsBehindCounter, Confirm
<1>4. value = Nxt(m) /\ token = TokenOf(m) /\ Nxt(m) \in Nat
  BY DEF Confirm, IsMine, Nxt, IInv, TypeOK
<1>5. OwnersHoldToken'
  BY <1>1, <1>4 DEF IInv, OwnersHoldToken, Owns, Nxt, TokenOf, Confirm
<1>6. UniqueIds'
  <2>1. \A k \in Minters : Owns(k) /\ k # m => Nxt(k) # Nxt(m)
    BY <1>4 DEF IInv, OwnersHoldToken, TokenOf
  <2>2. \A k \in Minters : Owns(k)' => (Owns(k) \/ k = m) /\ Nxt(k)' = Nxt(k)
    BY <1>1 DEF Owns, Nxt, Confirm
  <2> QED BY <2>1, <2>2 DEF IInv, UniqueIds
<1>7. RecordsAccountForAnswers'
  BY <1>1 DEF IInv, RecordsAccountForAnswers, Nxt, Confirm
<1>8. TokensTellAdvances'
  BY <1>1 DEF IInv, TokensTellAdvances, Confirm, IsMine, Nxt, TokenOf
<1> QED BY <1>2, <1>3, <1>5, <1>6, <1>7, <1>8 DEF IInv

LEMMA RetryPreserves ==
  ASSUME IInv, NEW m \in Minters, Retry(m)
  PROVE  IInv'
<1> DEFINE label == IF attempt[m] + 1 < Attempts THEN "read" ELSE "exhausted"
<1>1. pc[m] = "confirm" /\ \A k \in Minters : pc'[k] = IF k = m THEN label ELSE pc[k]
  BY DEF IInv, TypeOK, Goto, Retry
<1>2. \A k \in Minters : attempt'[k] = IF k = m THEN attempt[m] + 1 ELSE attempt[k]
  BY DEF IInv, TypeOK, Retry
<1>3. attempt[m] \in Nat /\ attempt[m] + 1 <= value /\ value \in Nat /\ current[m] \in Nat
  BY <1>1, AttemptsAssumption DEF IInv, TypeOK, ReadsBehindCounter
<1>4. attempt[m] < Attempts
  BY <1>1, <1>3 DEF IInv, ReadsBehindCounter
<1>5. TypeOK'
  BY <1>3, <1>4, AttemptsAssumption DEF IInv, TypeOK, Goto, Retry, PCs, InLoop, Finished
<1>6. ReadsBehindCounter'
  BY <1>1, <1>2, <1>3 DEF IInv, ReadsBehindCounter, Retry
<1>7. OwnersHoldToken'
  BY <1>1, <1>2 DEF IInv, OwnersHoldToken, Owns, Nxt, TokenOf, Retry
<1>8. UniqueIds'
  BY <1>1 DEF IInv, UniqueIds, Owns, Nxt, Retry
<1>9. RecordsAccountForAnswers'
  BY <1>1 DEF IInv, RecordsAccountForAnswers, Nxt, Retry
<1>10. TokensTellAdvances'
  BY <1>1, <1>2 DEF IInv, TokensTellAdvances, Retry, IsMine, Nxt, TokenOf
<1> QED BY <1>5, <1>6, <1>7, <1>8, <1>9, <1>10 DEF IInv

LEMMA RecordPreserves ==
  ASSUME IInv, NEW m \in Minters, Record(m)
  PROVE  IInv'
<1>1. pc[m] = "record" /\ \A k \in Minters : pc'[k] = IF k = m THEN "done" ELSE pc[k]
  BY DEF IInv, TypeOK, Goto, Record
<1>2. Nxt(m) \in 1..value
  BY <1>1 DEF IInv, TypeOK, OwnersHoldToken, Owns, Nxt
<1>3. TypeOK'
  <2>1. Nxt(m) \in Nat
    BY DEF IInv, TypeOK, Nxt
  <2>2. records' \in SUBSET Nat
    BY <2>1 DEF IInv, TypeOK, Record
  <2> QED BY <2>2 DEF IInv, TypeOK, Goto, Record, PCs, Finished
<1>4. ReadsBehindCounter'
  BY <1>1 DEF IInv, ReadsBehindCounter, Record
<1>5. \A k \in Minters : (Owns(k)' <=> Owns(k)) /\ Nxt(k)' = Nxt(k)
  BY <1>1 DEF Owns, Nxt, Record
<1>6. OwnersHoldToken'
  BY <1>5 DEF IInv, OwnersHoldToken, TokenOf, Record
<1>7. UniqueIds'
  BY <1>5 DEF IInv, UniqueIds
<1>8. RecordsAccountForAnswers'
  BY <1>1, <1>2, <1>5 DEF IInv, RecordsAccountForAnswers, Record
<1>9. TokensTellAdvances'
  BY <1>1 DEF IInv, TokensTellAdvances, Record, IsMine, Nxt, TokenOf
<1> QED BY <1>3, <1>4, <1>6, <1>7, <1>8, <1>9 DEF IInv

-----------------------------------------------------------------------------
\* The inductive step, one case per action.
LEMMA NextPreserves == IInv /\ [Next]_vars => IInv'
<1> SUFFICES ASSUME IInv, [Next]_vars PROVE IInv'
  OBVIOUS
<1>1. CASE UNCHANGED vars
  BY <1>1 DEF vars, IInv, TypeOK, ReadsBehindCounter, TokensTellAdvances, OwnersHoldToken,
              UniqueIds, RecordsAccountForAnswers, Owns, IsMine, Nxt, TokenOf
<1>2. ASSUME NEW m \in Minters, Mint(m) \/ Fail(m) PROVE IInv'
  <2>1. CASE Start(m)
    BY <2>1, MovePreserves DEF Start, PCs, InLoop
  <2>2. CASE Read(m)
    BY <2>2, ReadPreserves
  <2>3. CASE Update(m)
    BY <2>3, UpdatePreserves DEF Update
  <2>4. CASE Confirm(m)
    BY <2>4, ConfirmPreserves
  <2>5. CASE Retry(m)
    BY <2>5, RetryPreserves
  <2>6. CASE Record(m)
    BY <2>6, RecordPreserves
  <2>7. CASE Abort(m)
    BY <2>7, MovePreserves DEF Abort, PCs, Finished
  <2>8. CASE TimeOut(m)
    BY <2>8, MovePreserves DEF TimeOut, PCs
  <2>9. CASE LateUpdate(m)
    BY <2>9, UpdatePreserves DEF LateUpdate
  <2> QED
    BY <1>2, <2>1, <2>2, <2>3, <2>4, <2>5, <2>6, <2>7, <2>8, <2>9 DEF Mint, Fail
<1> QED BY <1>1, <1>2 DEF Next

LEMMA InductiveInvariant == Spec => []IInv
BY InitEstablishes, NextPreserves, PTL DEF Spec

-----------------------------------------------------------------------------
\* Types, for any number of calls and attempts.
THEOREM TypeCorrect == Spec => []TypeOK
<1>1. IInv => TypeOK
  BY DEF IInv
<1> QED BY <1>1, InductiveInvariant, PTL

\* mint() never hands out one number twice.
THEOREM IdsAreUnique == Spec => []UniqueIds
<1>1. IInv => UniqueIds
  BY DEF IInv
<1> QED BY <1>1, InductiveInvariant, PTL

\* Answers have records, and records are numbers the counter reached.
THEOREM RecordsAreComplete == Spec => []RecordsAccountForAnswers
<1>1. IInv => RecordsAccountForAnswers
  BY DEF IInv
<1> QED BY <1>1, InductiveInvariant, PTL

\* No two calls own one number, and the records account for every answer: what
\* callers and gap detection rely on when they look at mint's traces.
THEOREM NumbersStaySound == Spec => []NumbersAreSound
BY IdsAreUnique, RecordsAreComplete, PTL DEF NumbersAreSound

\* A call loses an attempt, its last one before SequenceError included, only to
\* another call that advanced the counter after that attempt's read.
THEOREM ContentionIsNeverImagined == Spec => ContentionIsReal
<1>1. IInv /\ [Next]_vars =>
        [\A m \in Minters : attempt'[m] # attempt[m] =>
            value > current[m] /\ token \in (Minters \ {m}) \X Nat]_vars
  <2> SUFFICES ASSUME IInv, NEW n \in Minters, Mint(n) \/ Fail(n),
                      NEW m \in Minters, attempt'[m] # attempt[m]
               PROVE  value > current[m] /\ token \in (Minters \ {m}) \X Nat
    BY DEF Next
  <2>1. n = m /\ Retry(m)
    BY DEF Mint, Fail, Start, Read, Update, Confirm, Retry, Record, Abort, TimeOut, LateUpdate,
           IInv, TypeOK
  <2>2. pc[m] = "confirm" /\ ~IsMine(m)
    BY <2>1 DEF Retry
  <2>3. value > current[m] /\ value \in Nat /\ current[m] \in Nat
    BY <2>2 DEF IInv, TypeOK, ReadsBehindCounter
  <2>4. token # NoToken /\ token \notin {m} \X Nat
    BY <2>2, <2>3 DEF IInv, TokensTellAdvances
  <2> QED BY <2>3, <2>4 DEF IInv, TypeOK
<1> QED BY <1>1, InductiveInvariant, PTL DEF Spec, ContentionIsReal

\* The counter moves by one or not at all.
THEOREM CounterOnlyAdvances == Spec => CounterNeverGoesBack
<1>1. IInv /\ [Next]_vars => [value' \in {value, value + 1}]_vars
  <2> SUFFICES ASSUME IInv, NEW m \in Minters, Mint(m) \/ Fail(m)
               PROVE  value' \in {value, value + 1}
    BY DEF Next
  <2>1. CASE Update(m) \/ LateUpdate(m)
    BY <2>1, UpdateEffect DEF Update, LateUpdate
  <2> QED
    BY <2>1 DEF Mint, Fail, Start, Read, Confirm, Retry, Record, Abort, TimeOut
<1> QED BY <1>1, InductiveInvariant, PTL DEF Spec, CounterNeverGoesBack

\* Minting implements the abstract source of distinct numbers: only the step
\* that writes the record changes what has been given out.
THEOREM MintingImplementsIdSource == Spec => IssuesDistinctIds
<1>1. Init => IDS!Init
  BY DEF Init, IDS!Init, Given, IDS!Unanswered
<1>2. IInv /\ [Next]_vars => [IDS!Next]_Given
  <2> SUFFICES ASSUME IInv, [Next]_vars PROVE IDS!Next \/ UNCHANGED Given
    OBVIOUS
  <2>1. CASE UNCHANGED vars
    BY <2>1 DEF vars, Given, Nxt
  <2>2. ASSUME NEW m \in Minters, Record(m) PROVE IDS!Issue(m)
    <3>1. pc[m] = "record" /\ \A k \in Minters : pc'[k] = IF k = m THEN "done" ELSE pc[k]
      BY <2>2 DEF IInv, TypeOK, Goto, Record
    <3>2. Nxt(m) \in Nat \ {0}
      BY DEF IInv, TypeOK, Nxt
    <3>3. \A k \in Minters : Given[k] # Nxt(m)
      BY <3>1, <3>2 DEF Given, IInv, UniqueIds, Owns
    <3>4. Given' = [Given EXCEPT ![m] = Nxt(m)]
      BY <3>1, <2>2 DEF Given, Nxt, Record
    <3>5. Given'[m] = Nxt(m) /\ Given[m] = 0
      BY <3>1, <3>4 DEF Given
    <3> QED BY <3>2, <3>3, <3>4, <3>5 DEF IDS!Issue, IDS!Unanswered
  <2>3. ASSUME NEW m \in Minters, Mint(m) \/ Fail(m), ~Record(m) PROVE UNCHANGED Given
    <3>1. \A k \in Minters : (pc'[k] = "done" <=> pc[k] = "done")
      BY <2>3 DEF IInv, TypeOK, Mint, Fail, Start, Read, Update, Confirm, Retry,
                  Abort, TimeOut, LateUpdate, Goto, InLoop
    <3>2. \A k \in Minters : pc[k] = "done" => current'[k] = current[k]
      BY <2>3 DEF IInv, TypeOK, Mint, Fail, Start, Read, Update, Confirm, Retry,
                  Abort, TimeOut, LateUpdate
    <3> QED BY <3>1, <3>2 DEF Given, Nxt
  <2> QED BY <2>1, <2>2, <2>3 DEF Next, IDS!Next
<1> QED BY <1>1, <1>2, InductiveInvariant, PTL DEF Spec, IssuesDistinctIds, IDS!Spec

-----------------------------------------------------------------------------
(* Pipelines.                                                               *)

Less == {p \in Nat \X Nat : p[1] < p[2]}

\* A set of natural numbers has a least one.
LEMMA LeastNumber ==
  ASSUME NEW T \in SUBSET Nat, T # {}
  PROVE  \E x \in T : \A y \in T : x <= y
<1>1. IsWellFoundedOn(Less, Nat)
  BY NatLessThanWellFounded DEF Less, OpToRel
<1>2. PICK x \in T : \A y \in T : <<y, x>> \notin Less
  BY <1>1, WFMin
<1>3. \A y \in T : ~(y < x)
  BY <1>2 DEF Less
<1> QED BY <1>3

\* Induction over the natural numbers, said of a set.
LEMMA Induction ==
  ASSUME NEW S, 0 \in S, \A n \in Nat : n \in S => n + 1 \in S
  PROVE  Nat \subseteq S
<1> SUFFICES ASSUME Nat \ S # {} PROVE FALSE
  OBVIOUS
<1>1. PICK x \in Nat \ S : \A y \in Nat \ S : x <= y
  BY LeastNumber
<1>2. x # 0 /\ x - 1 \in Nat /\ x - 1 \in S
  BY <1>1
<1> QED BY <1>1, <1>2

\* f is Kahn's algorithm on m, for its first n rounds.
Rounds(m, n, f) == f = [i \in 0..n |-> IF i = 0 THEN <<>> ELSE Taken(m, f[i-1])]

\* The rounds of the algorithm exist, for any number of them.
LEMMA RoundsExist ==
  ASSUME NEW m \in Manifests, NEW n \in Nat
  PROVE  \E f : Rounds(m, n, f)
<1> DEFINE S == {k \in Nat : \E f : Rounds(m, k, f)}
<1>1. 0 \in S
  <2>1. Rounds(m, 0, [i \in 0..0 |-> <<>>])
    BY DEF Rounds
  <2> QED BY <2>1
<1>2. ASSUME NEW k \in Nat, k \in S PROVE k + 1 \in S
  <2>1. PICK f : Rounds(m, k, f)
    BY <1>2
  <2> DEFINE g == [i \in 0..k+1 |-> IF i = k + 1 THEN Taken(m, f[k]) ELSE f[i]]
  <2>2. ASSUME NEW i \in 0..k+1 PROVE g[i] = IF i = 0 THEN <<>> ELSE Taken(m, g[i-1])
    BY <2>1 DEF Rounds
  <2>3. Rounds(m, k + 1, g)
    BY <2>2 DEF Rounds
  <2> QED BY <2>3
<1> HIDE DEF S
<1>3. Nat \subseteq S
  BY <1>1, <1>2, Induction
<1> QED BY <1>3 DEF S

\* The algorithm on m, as a function of the rounds.
Kahn(m) == CHOOSE f : Rounds(m, Cardinality(Stages(m)), f)

\* topological_order is what the last round leaves.
LEMMA OrderIsKahns ==
  ASSUME NEW m \in Manifests
  PROVE  /\ Cardinality(Stages(m)) \in Nat
         /\ Rounds(m, Cardinality(Stages(m)), Kahn(m))
         /\ Order[m] = Kahn(m)[Cardinality(Stages(m))]
<1>1. Cardinality(Stages(m)) \in Nat
  BY PipelinesAssumption, FS_CardinalityType
<1>2. Rounds(m, Cardinality(Stages(m)), Kahn(m))
  BY <1>1, RoundsExist DEF Kahn
<1>3. Order[m] = Kahn(m)[Cardinality(Stages(m))]
  BY DEF Order, Kahn, Rounds
<1> QED BY <1>1, <1>2, <1>3

\* q takes no stage twice, and each after all it depends on.
Sorted(m, q) ==
  /\ q \in Seq(Stages(m))
  /\ \A i \in 1..Len(q) :
       LET before == {q[j] : j \in 1..i-1} IN
       q[i] \notin before /\ Deps[m][q[i]] \cap Stages(m) \subseteq before
  /\ Cardinality(Names(q)) = Len(q)

\* Of the stages that are ready the least can be chosen.
LEMMA LeastReady ==
  ASSUME NEW m \in Manifests, NEW r \in SUBSET Stages(m), r # {}
  PROVE  Least(m, r) \in r
<1>1. \A s \in r : Rank[m][s] \in Nat
  BY PipelinesAssumption
<1> DEFINE T == {Rank[m][s] : s \in r}
<1>2. T \in SUBSET Nat /\ T # {}
  BY <1>1
<1>3. PICK x \in T : \A y \in T : x <= y
  BY <1>2, LeastNumber
<1>4. \E s \in r : \A t \in r : Rank[m][s] <= Rank[m][t]
  BY <1>3
<1> QED BY <1>4 DEF Least

\* One round: nothing is ready, or a stage is added that may come next.
LEMMA TakenIsSorted ==
  ASSUME NEW m \in Manifests, NEW q, Sorted(m, q)
  PROVE  /\ Sorted(m, Taken(m, q))
         /\ Ready(m, Names(q)) = {} => Taken(m, q) = q
         /\ Ready(m, Names(q)) # {} => Len(Taken(m, q)) = Len(q) + 1
<1> DEFINE r == Ready(m, Names(q))
           s == Least(m, r)
           n == Append(q, s)
<1>1. q \in Seq(Stages(m)) /\ Len(q) \in Nat /\ Names(q) = {q[j] : j \in 1..Len(q)}
  BY LenProperties DEF Sorted, Names
<1>2. CASE r = {}
  BY <1>2 DEF Taken
<1>3. CASE r # {}
  <2>1. s \in r /\ r \subseteq Stages(m)
    <3>1. r \in SUBSET Stages(m)
      BY DEF Ready
    <3> HIDE DEF r
    <3> QED BY <1>3, <3>1, LeastReady
  <2>2. s \in Stages(m) /\ s \notin Names(q) /\ Deps[m][s] \cap Stages(m) \subseteq Names(q)
    BY <2>1 DEF Ready
  <2>3. Taken(m, q) = n
    BY <1>3 DEF Taken
  <2> HIDE DEF s
  <2>4. /\ n \in Seq(Stages(m)) /\ Len(n) = Len(q) + 1
        /\ \A i \in 1..Len(q) : n[i] = q[i]
        /\ n[Len(q) + 1] = s
    BY <1>1, <2>2, AppendProperties
  <2> HIDE DEF n
  <2>5. \A i \in 1..Len(q) + 1 : {n[j] : j \in 1..i-1} = {q[j] : j \in 1..i-1}
    BY <1>1, <2>4
  <2>6. Names(n) = Names(q) \cup {s}
    <3>1. DOMAIN n = 1..Len(q) + 1
      BY <2>4, LenProperties
    <3> QED BY <1>1, <2>4, <3>1 DEF Names
  <2>7. Cardinality(Names(n)) = Len(n)
    <3>1. Names(q) \subseteq Stages(m)
      BY <1>1, ElementOfSeq
    <3>2. IsFiniteSet(Names(q))
      BY <3>1, FS_Subset, PipelinesAssumption
    <3>3. Cardinality(Names(q) \cup {s}) = Cardinality(Names(q)) + 1
      BY <2>2, <3>2, FS_AddElement
    <3> QED BY <2>4, <2>6, <3>3 DEF Sorted
  <2>8. ASSUME NEW i \in 1..Len(n)
        PROVE  /\ n[i] \notin {n[j] : j \in 1..i-1}
               /\ Deps[m][n[i]] \cap Stages(m) \subseteq {n[j] : j \in 1..i-1}
    <3>1. CASE i \in 1..Len(q)
      BY <1>1, <2>4, <2>5, <3>1 DEF Sorted
    <3>2. CASE i = Len(q) + 1
      BY <1>1, <2>2, <2>4, <2>5, <3>2
    <3> QED BY <1>1, <2>4, <3>1, <3>2
  <2>9. Sorted(m, n)
    BY <2>4, <2>7, <2>8 DEF Sorted
  <2> QED BY <1>3, <2>3, <2>4, <2>9
<1> QED BY <1>2, <1>3

\* After i rounds i stages are taken, or no other ever will be.
LEMMA RoundsSort ==
  ASSUME NEW m \in Manifests, NEW n \in Nat, NEW f, Rounds(m, n, f)
  PROVE  \A i \in 0..n : Sorted(m, f[i]) /\ (Len(f[i]) = i \/ Ready(m, Names(f[i])) = {})
<1> DEFINE S == {i \in Nat : i <= n =>
                   Sorted(m, f[i]) /\ (Len(f[i]) = i \/ Ready(m, Names(f[i])) = {})}
<1>1. 0 \in S
  <2>1. f[0] = <<>>
    BY 0 \in 0..n DEF Rounds
  <2>2. <<>> \in Seq(Stages(m)) /\ Len(<<>>) = 0 /\ Names(<<>>) = {}
    BY EmptySeq DEF Names
  <2>3. Sorted(m, <<>>)
    <3>1. Cardinality(Names(<<>>)) = Len(<<>>)
      BY <2>2, FS_EmptySet
    <3>2. 1..Len(<<>>) = {}
      BY <2>2
    <3> QED BY <2>2, <3>1, <3>2 DEF Sorted
  <2> QED BY <2>1, <2>2, <2>3
<1>2. ASSUME NEW i \in Nat, i \in S PROVE i + 1 \in S
  <2> SUFFICES ASSUME i + 1 <= n
               PROVE  /\ Sorted(m, f[i+1])
                      /\ Len(f[i+1]) = i + 1 \/ Ready(m, Names(f[i+1])) = {}
    OBVIOUS
  <2>1. f[i+1] = Taken(m, f[i])
    BY DEF Rounds
  <2>2. Sorted(m, f[i]) /\ (Len(f[i]) = i \/ Ready(m, Names(f[i])) = {})
    BY <1>2
  <2> QED BY <2>1, <2>2, TakenIsSorted
<1> HIDE DEF S
<1>3. Nat \subseteq S
  BY <1>1, <1>2, Induction
<1> QED BY <1>3 DEF S

\* topological_order: each stage once and after all it depends on; and a
\* manifest is refused exactly if some of its stages wait for one another.
THEOREM OrderIsTopological ==
  ASSUME NEW m \in Manifests
  PROVE  /\ Sorted(m, Order[m])
         /\ Runnable(m) => Names(Order[m]) = Stages(m)
         /\ Runnable(m) <=>
              ~\E C \in (SUBSET Stages(m)) \ {{}} : \A s \in C : Deps[m][s] \cap C # {}
<1> DEFINE q == Order[m]
           N == Cardinality(Stages(m))
<1>1. N \in Nat /\ Sorted(m, q) /\ (Len(q) = N \/ Ready(m, Names(q)) = {})
  BY OrderIsKahns, RoundsSort
<1>2. Names(q) \subseteq Stages(m)
  BY <1>1, ElementOfSeq, LenProperties DEF Sorted, Names
<1>3. IsFiniteSet(Stages(m))
  BY PipelinesAssumption
<1>4. Runnable(m) <=> Names(q) = Stages(m)
  <2>1. Cardinality(Names(q)) = Len(q)
    BY <1>1 DEF Sorted
  <2> QED BY <1>2, <1>3, <2>1, FS_Subset DEF Runnable
<1>5. ASSUME ~Runnable(m)
      PROVE  \E C \in (SUBSET Stages(m)) \ {{}} : \A s \in C : Deps[m][s] \cap C # {}
  <2> DEFINE C == Stages(m) \ Names(q)
  <2>1. C # {}
    BY <1>2, <1>4, <1>5
  <2>2. Ready(m, Names(q)) = {}
    BY <1>1, <1>5 DEF Runnable
  <2>3. \A s \in C : Deps[m][s] \cap C # {}
    BY <2>2 DEF Ready
  <2> QED BY <2>1, <2>3
<1>6. ASSUME Runnable(m), NEW C \in (SUBSET Stages(m)) \ {{}}, \A s \in C : Deps[m][s] \cap C # {}
      PROVE  FALSE
  <2> DEFINE T == {i \in 1..Len(q) : q[i] \in C}
  <2>1. Len(q) \in Nat /\ Names(q) = {q[i] : i \in 1..Len(q)}
    BY <1>1, LenProperties DEF Sorted, Names
  <2>2. T \in SUBSET Nat /\ T # {}
    <3>1. PICK c \in C : c \in Names(q)
      BY <1>4, <1>6
    <3> QED BY <2>1, <3>1
  <2>3. PICK i \in T : \A j \in T : i <= j
    BY <2>2, LeastNumber
  <2>4. Deps[m][q[i]] \cap Stages(m) \subseteq {q[j] : j \in 1..i-1}
    BY <1>1, <2>3 DEF Sorted
  <2>5. PICK s \in C : s \in Deps[m][q[i]]
    BY <1>6, <2>3
  <2>6. PICK j \in 1..i-1 : s = q[j]
    BY <1>6, <2>4, <2>5
  <2> QED BY <2>1, <2>3, <2>5, <2>6
<1> QED BY <1>1, <1>4, <1>5, <1>6

-----------------------------------------------------------------------------
(* The invariant.  First what each variable holds, in full.                *)

AllStages == UNION {Stages(m) : m \in Manifests}

Ends == {"Skipped", "Deferred", "Completed", "Failed"}

Records == [stage : AllStages \cup {"ingest"}, status : Ends, context : SUBSET AllStages]

MessagesHeld == [status : Statuses, stages : Seq(Records)]

Runs == [pc : Places, then : Places \cup {"begin"}, man : Manifests \cup {Absent},
         left : Seq(AllStages), msg : MessagesHeld, who : Persons \cup {Nobody}, stop : BOOLEAN,
         ingest : BOOLEAN, wants : BOOLEAN, known : SUBSET RuleIds, kept : BOOLEAN,
         saved : BOOLEAN, hit : BOOLEAN, escaped : BOOLEAN]

AdminRequests == [pc : {"idle", "put", "unlist", "list", "drop", "forget"},
                  man : Manifests \cup {Absent}, alone : BOOLEAN]

Typed ==
  /\ graph \in Manifests \cup {Absent} /\ index \in BOOLEAN /\ rules \subseteq RuleIds
  /\ torn \in BOOLEAN /\ events \in 0..MaxEvents
  /\ admin \in [Admins -> AdminRequests]
  /\ store \in [Messages -> MessagesHeld] /\ run \in [Messages -> Runs]

\* A request that is alone is the only one, and has left the graph as its
\* next step expects; one that is not has torn what it wrote.
RequestsAreAlone ==
  \A a \in Admins : Busy(a) =>
    /\ torn \/ admin[a].alone
    /\ admin[a].pc = "put" => admin[a].man # Absent
    /\ admin[a].alone =>
         /\ \A b \in Admins \ {a} : ~Busy(b)
         /\ admin[a].pc \in {"unlist", "list"} => graph # Absent
         /\ admin[a].pc = "forget" => graph = Absent

Saving(r) == r.pc \in {"delete", "insert"}

Final(msg) == msg.status \in {"Completed", "Failed"}

\* How far the run r is, what its copy of the message says, and what the
\* store, which holds d, has of it.
Told(r, d) ==
  /\ ~r.kept => /\ ~r.saved /\ d = NoMessage /\ ~r.ingest
                /\ r.pc \in {"rules", "stage", "over"}
  /\ r.pc = "idle" => r = Quiet /\ d = NoMessage
  /\ r.pc = "load" /\ ~r.ingest => ~r.saved /\ d = NoMessage
  /\ Saving(r) => /\ r.msg.status # "Absent" /\ r.then \in {"land", "begin", "rules", "over"}
                  /\ Final(r.msg) <=> r.then = "over"
  /\ r.ingest => r.msg.status # "Absent"
  /\ Final(r.msg) => Saving(r) \/ r.pc = "over"
  /\ r.pc = "over" /\ ~r.hit /\ ~r.escaped /\ r.kept => d = r.msg /\ Final(d)
  /\ r.pc \in {"land", "load"} /\ r.ingest => d.status = "Running"
  /\ Saving(r) /\ r.then = "land" => r.msg.status = "Running"
  /\ r.escaped => r.pc = "over" /\ r.ingest /\ r.man = Absent /\ d.status = "Running"
  /\ r.saved /\ d = NoMessage => r.pc = "insert" \/ r.hit
  /\ d.status = "Completed" => r.pc = "over" /\ d = r.msg

Landing(r) == IF r.ingest THEN 1 ELSE 0

\* The stages a run of man has taken so far, after o for the landing of a
\* push: the first ones of the order, each with what it may have been given.
InOrder(man, o, done) ==
  LET q == Order[man] IN
  /\ o <= Len(done) /\ Len(done) - o <= Len(q) /\ (o = 1 => done[1].stage = "ingest")
  /\ \A i \in 1..Len(done) : i > o =>
       /\ done[i].stage = q[i-o]
       /\ done[i].context \subseteq Deps[man][q[i-o]] \cap {done[j].stage : j \in 1..i-1}

\* And those that are left when k have been.
Remain(man, k, left) ==
  /\ Runnable(man) /\ Len(left) = Len(Order[man]) - k
  /\ \A i \in 1..Len(left) : left[i] = Order[man][k + i]

InLine(r) ==
  LET o == Landing(r)  n == Len(r.msg.stages) IN
  /\ r.man = Absent =>
       /\ r.pc \notin {"rules", "stage"}
       /\ Saving(r) => r.ingest /\ r.then \in {"land", "over"}
       /\ r.pc = "land" => r.ingest
       /\ r.pc = "land" \/ (Saving(r) /\ r.then = "land") => n = 0
       /\ r.pc = "load" => n = o /\ (o = 1 => r.msg.stages[1].stage = "ingest")
  /\ r.man # Absent =>
       /\ InOrder(r.man, o, r.msg.stages)
       /\ ~Saving(r) => r.pc \in {"rules", "stage", "over"}
       /\ Saving(r) => r.then \in {"begin", "rules", "over"}
       /\ r.pc = "rules" \/ (Saving(r) /\ r.then # "over") => n = o
       /\ r.pc = "stage" => Remain(r.man, n - o, r.left)

\* A message that says "Completed" says of every stage how it ended well.
Wholly(r) ==
  r.msg.status = "Completed" =>
    /\ ~Failing(r.msg)
    /\ r.man # Absent => Runnable(r.man) /\ Len(r.msg.stages) = Landing(r) + Len(Order[r.man])

RunsAreSound ==
  \A m \in Messages : Told(run[m], store[m]) /\ InLine(run[m]) /\ Wholly(run[m])

PipelinesIInv == Typed /\ RequestsAreAlone /\ IndexAgrees /\ RunsAreSound

-----------------------------------------------------------------------------
(* A step of one run changes that run and what the store has of it.        *)

\* A step of one run keeps what it must: its own part, and the store of its message.
LEMMA RunMoves ==
  ASSUME PipelinesIInv, NEW m \in Messages, NEW r \in Runs, NEW d \in MessagesHeld,
         run' = [run EXCEPT ![m] = r], store' = [store EXCEPT ![m] = d],
         Told(r, d), InLine(r), Wholly(r),
         UNCHANGED <<graph, index, admin, torn>>, rules' \subseteq RuleIds,
         events' \in 0..MaxEvents
  PROVE  PipelinesIInv'
<1>1. Typed'
  BY DEF PipelinesIInv, Typed
<1>2. RequestsAreAlone' /\ IndexAgrees'
  BY DEF PipelinesIInv, RequestsAreAlone, IndexAgrees, Busy
<1>3. ASSUME NEW n \in Messages
      PROVE  Told(run'[n], store'[n]) /\ InLine(run'[n]) /\ Wholly(run'[n])
  <2>1. CASE n = m
    <3>1. run'[n] = r /\ store'[n] = d
      BY <2>1 DEF PipelinesIInv, Typed
    <3> QED BY <3>1
  <2>2. CASE n # m
    <3>1. run'[n] = run[n] /\ store'[n] = store[n]
      BY <2>2 DEF PipelinesIInv, Typed
    <3>2. Told(run[n], store[n]) /\ InLine(run[n]) /\ Wholly(run[n])
      BY DEF PipelinesIInv, RunsAreSound
    <3> QED BY <3>1, <3>2
  <2> QED BY <2>1, <2>2
<1> QED BY <1>1, <1>2, <1>3 DEF PipelinesIInv, RunsAreSound

\* The store is left alone.
LEMMA RunThinks ==
  ASSUME PipelinesIInv, NEW m \in Messages, NEW r \in Runs, run' = [run EXCEPT ![m] = r],
         Told(r, store[m]), InLine(r), Wholly(r),
         UNCHANGED <<graph, index, rules, admin, torn, store>>, events' \in 0..MaxEvents
  PROVE  PipelinesIInv'
<1>1. store[m] \in MessagesHeld /\ rules \subseteq RuleIds
  BY DEF PipelinesIInv, Typed
<1>2. store' = [store EXCEPT ![m] = store[m]]
  BY DEF PipelinesIInv, Typed
<1>3. rules' \subseteq RuleIds
  BY <1>1
<1> QED BY <1>1, <1>2, <1>3, RunMoves

\* A request that has not come, and a message that is not stored, are well-formed.
LEMMA QuietIsARun == Quiet \in Runs /\ NoMessage \in MessagesHeld
<1>1. <<>> \in Seq(Records) /\ <<>> \in Seq(AllStages)
  OBVIOUS
<1>2. NoMessage \in MessagesHeld
  BY <1>1 DEF NoMessage, MessagesHeld, Statuses
<1> HIDE DEF NoMessage
<1> QED BY <1>1, <1>2 DEF Quiet, Runs, Places

\* Nothing runs, nothing is stored.
LEMMA InvariantHoldsInitially == PipelinesInit => PipelinesIInv
<1> SUFFICES ASSUME PipelinesInit PROVE PipelinesIInv
  OBVIOUS
<1>1. Typed
  <2>1. AtRest \in AdminRequests
    BY DEF AtRest, AdminRequests
  <2>2. 0 \in 0..MaxEvents
    BY PipelinesAssumption
  <2> QED BY <2>1, <2>2, QuietIsARun DEF PipelinesInit, Typed
<1>2. RequestsAreAlone /\ IndexAgrees
  BY DEF PipelinesInit, RequestsAreAlone, IndexAgrees, Busy, AtRest
<1>3. ASSUME NEW m \in Messages PROVE Told(run[m], store[m]) /\ InLine(run[m]) /\ Wholly(run[m])
  <2>1. run[m] = Quiet /\ store[m] = NoMessage
    BY DEF PipelinesInit
  <2>2. Told(Quiet, NoMessage)
    BY DEF Told, Quiet, NoMessage, Saving, Final
  <2>3. InLine(Quiet) /\ Wholly(Quiet)
    BY PipelinesAssumption DEF InLine, Wholly, Quiet, NoMessage, Saving, Final, Landing
  <2> QED BY <2>1, <2>2, <2>3
<1> QED BY <1>1, <1>2, <1>3 DEF PipelinesIInv, RunsAreSound

\* What the invariant says of one run.
LEMMA RunFacts ==
  ASSUME PipelinesIInv, NEW m \in Messages
  PROVE  /\ run[m] \in Runs /\ store[m] \in MessagesHeld
         /\ Told(run[m], store[m]) /\ InLine(run[m]) /\ Wholly(run[m])
BY DEF PipelinesIInv, Typed, RunsAreSound

\* Each action keeps the invariant; first those that write and begin a message.
LEMMA DeletesKeepInvariant ==
  ASSUME PipelinesIInv, NEW m \in Messages, DeleteMessage(m), events' \in 0..MaxEvents
  PROVE  PipelinesIInv'
<1> DEFINE r == [run[m] EXCEPT !.pc = "insert"]
<1>1. /\ run[m] \in Runs /\ Told(run[m], store[m]) /\ InLine(run[m]) /\ Wholly(run[m])
      /\ run[m].pc = "delete"
  BY RunFacts DEF DeleteMessage
<1>2. run' = [run EXCEPT ![m] = r] /\ store' = [store EXCEPT ![m] = NoMessage]
  BY DEF DeleteMessage
<1>3. r \in Runs
  BY <1>1 DEF Runs, Places
<1>4. Told(r, NoMessage)
  BY <1>1 DEF Told, Runs, Saving, Final, NoMessage
<1>5. InLine(r)
  BY <1>1 DEF InLine, Runs, Saving, Landing
<1>6. Wholly(r)
  BY <1>1 DEF Wholly, Runs, Landing
<1>7. UNCHANGED <<graph, index, admin, torn>> /\ rules' \subseteq RuleIds
  BY DEF DeleteMessage, PipelinesIInv, Typed
<1> HIDE DEF r
<1> QED BY <1>2, <1>3, <1>4, <1>5, <1>6, <1>7, QuietIsARun, RunMoves

LEMMA InsertsKeepInvariant ==
  ASSUME PipelinesIInv, NEW m \in Messages, InsertMessage(m), events' \in 0..MaxEvents
  PROVE  PipelinesIInv'
<1> DEFINE r == [run[m] EXCEPT !.saved = TRUE,
                   !.pc = IF run[m].then = "begin" THEN "delete" ELSE run[m].then,
                   !.then = IF run[m].then = "begin" THEN "rules" ELSE run[m].then,
                   !.msg = [run[m].msg EXCEPT !.status =
                              IF run[m].then = "begin" THEN "Running" ELSE run[m].msg.status]]
           d == run[m].msg
<1>1. /\ run[m] \in Runs /\ Told(run[m], store[m]) /\ InLine(run[m]) /\ Wholly(run[m])
      /\ run[m].pc = "insert" /\ run[m].then \in {"land", "begin", "rules", "over"}
  BY RunFacts DEF InsertMessage, Told, Saving
<1>2. run' = [run EXCEPT ![m] = r] /\ store' = [store EXCEPT ![m] = d]
  BY <1>1 DEF InsertMessage, PipelinesIInv, Typed, Runs
<1>3. r \in Runs /\ d \in MessagesHeld
  BY <1>1 DEF Runs, Places, MessagesHeld, Statuses
<1>4. Told(r, d)
  BY <1>1 DEF Told, Runs, Saving, Final, NoMessage, MessagesHeld
<1>5. InLine(r)
  BY <1>1 DEF InLine, Runs, Saving, Landing, MessagesHeld
<1>6. Wholly(r)
  BY <1>1 DEF Wholly, Runs, Landing, MessagesHeld, Failing
<1>7. UNCHANGED <<graph, index, admin, torn>> /\ rules' \subseteq RuleIds
  BY DEF InsertMessage, PipelinesIInv, Typed
<1> HIDE DEF r, d
<1> QED BY <1>2, <1>3, <1>4, <1>5, <1>6, <1>7, RunMoves

LEMMA StartsKeepInvariant ==
  ASSUME PipelinesIInv, NEW m \in Messages, events' \in 0..MaxEvents,
         \/ \E w \in Persons \cup {Nobody}, b \in BOOLEAN : StartRun(m, w, b)
         \/ StartScheduled(m)
         \/ \E w \in Persons, b \in BOOLEAN : StartIngest(m, w, b)
  PROVE  PipelinesIInv'
<1>1. run[m] \in Runs /\ Told(run[m], store[m])
  BY RunFacts
<1>2. CASE \E w \in Persons \cup {Nobody}, b \in BOOLEAN : StartRun(m, w, b)
  <2>1. PICK w \in Persons \cup {Nobody}, b \in BOOLEAN : StartRun(m, w, b)
    BY <1>2
  <2> DEFINE r == [Quiet EXCEPT !.pc = "load", !.who = w, !.stop = b]
  <2>2. /\ run[m] = Quiet /\ run' = [run EXCEPT ![m] = r]
        /\ UNCHANGED <<graph, index, rules, admin, torn, store>>
    BY <2>1 DEF StartRun
  <2>3. r \in Runs
    BY QuietIsARun DEF Runs, Places
  <2>4. store[m] = NoMessage
    BY <1>1, <2>2 DEF Told, Quiet
  <2>5. Told(r, NoMessage) /\ InLine(r) /\ Wholly(r)
    BY PipelinesAssumption
       DEF Told, InLine, Wholly, Quiet, NoMessage, Saving, Final, Landing
  <2> HIDE DEF r
  <2> QED BY <2>2, <2>3, <2>4, <2>5, RunThinks
<1>3. CASE StartScheduled(m)
  <2> DEFINE r == [Quiet EXCEPT !.pc = "rules", !.man = graph, !.kept = FALSE]
  <2>2. /\ run[m] = Quiet /\ run' = [run EXCEPT ![m] = r] /\ graph # Absent
        /\ UNCHANGED <<graph, index, rules, admin, torn, store>>
    BY <1>3 DEF StartScheduled
  <2>3. r \in Runs /\ graph \in Manifests
    BY <2>2, QuietIsARun DEF Runs, Places, PipelinesIInv, Typed
  <2>4. store[m] = NoMessage
    BY <1>1, <2>2 DEF Told, Quiet
  <2>5. Told(r, NoMessage) /\ Wholly(r)
    BY DEF Told, Wholly, Quiet, NoMessage, Saving, Final
  <2>6. InLine(r)
    <3>1. Len(Order[graph]) \in Nat
      BY <2>3, OrderIsTopological, LenProperties DEF Sorted
    <3> QED BY <2>2, <3>1 DEF InLine, InOrder, Quiet, NoMessage, Saving, Landing
  <2> HIDE DEF r
  <2> QED BY <2>2, <2>3, <2>4, <2>5, <2>6, RunThinks
<1>4. CASE \E w \in Persons, b \in BOOLEAN : StartIngest(m, w, b)
  <2>1. PICK w \in Persons, b \in BOOLEAN : StartIngest(m, w, b)
    BY <1>4
  <2> DEFINE r == [Quiet EXCEPT !.pc = "delete", !.then = "land", !.who = w,
                     !.msg = [NoMessage EXCEPT !.status = "Running"], !.ingest = TRUE, !.wants = b]
  <2>2. /\ run[m] = Quiet /\ run' = [run EXCEPT ![m] = r]
        /\ UNCHANGED <<graph, index, rules, admin, torn, store>>
    BY <2>1 DEF StartIngest, Quiet
  <2>3. r \in Runs
    BY QuietIsARun DEF Runs, Places, MessagesHeld, Statuses
  <2>4. store[m] = NoMessage
    BY <1>1, <2>2 DEF Told, Quiet
  <2>5. Told(r, NoMessage) /\ InLine(r) /\ Wholly(r)
    BY PipelinesAssumption
       DEF Told, InLine, Wholly, Quiet, NoMessage, Saving, Final, Landing
  <2> HIDE DEF r
  <2> QED BY <2>2, <2>3, <2>4, <2>5, RunThinks
<1> QED BY <1>2, <1>3, <1>4

\* A stage that is recorded is added to the message, and nothing else of it changes.
LEMMA RecordIsHeld ==
  ASSUME NEW msg \in MessagesHeld, NEW s \in AllStages \cup {"ingest"}, NEW e \in Ends,
         NEW c \in SUBSET AllStages
  PROVE  /\ RecordStage(msg, s, e, c) \in MessagesHeld
         /\ RecordStage(msg, s, e, c).status = msg.status
<1> DEFINE x == [stage |-> s, status |-> e, context |-> c]
           new == RecordStage(msg, s, e, c)
<1>1. msg.stages \in Seq(Records) /\ x \in Records
  BY DEF MessagesHeld, Records
<1> HIDE DEF x
<1>2. Append(msg.stages, x) \in Seq(Records)
  BY <1>1, AppendProperties
<1>3. new = [msg EXCEPT !.stages = Append(msg.stages, x)]
  BY DEF RecordStage, x
<1>4. new \in MessagesHeld /\ new.status = msg.status
  BY <1>2, <1>3 DEF MessagesHeld
<1> HIDE DEF new
<1> QED BY <1>4 DEF new

\* A run that ends saves how it ended, or is over if nothing is kept of it.
LEMMA EndsKeepInvariant ==
  ASSUME PipelinesIInv, NEW m \in Messages, events' \in 0..MaxEvents,
         NEW msg \in MessagesHeld, NEW failed \in BOOLEAN,
         Save(m, Completed(msg, failed), "over"),
         UNCHANGED <<graph, index, rules, admin, torn, store>>,
         run[m].pc \in {"land", "load", "rules", "stage"},
         run[m].man = Absent => run[m].ingest,
         run[m].man # Absent => InOrder(run[m].man, Landing(run[m]), msg.stages),
         ~failed => /\ ~Failing(msg)
                    /\ run[m].man # Absent =>
                         /\ Runnable(run[m].man)
                         /\ Len(msg.stages) = Landing(run[m]) + Len(Order[run[m].man])
  PROVE  PipelinesIInv'
<1> DEFINE c == Completed(msg, failed)
           r == [run[m] EXCEPT !.msg = c, !.pc = IF run[m].kept THEN "delete" ELSE "over",
                               !.then = "over"]
<1>1. run[m] \in Runs /\ Told(run[m], store[m]) /\ InLine(run[m])
  BY RunFacts
<1>2. /\ c \in MessagesHeld /\ Final(c) /\ c.stages = msg.stages /\ Failing(c) = Failing(msg)
      /\ c.status = "Completed" => ~failed
  BY DEF Completed, MessagesHeld, Statuses, Final, Failing
<1> HIDE DEF c
<1>3. run' = [run EXCEPT ![m] = r]
  BY <1>1 DEF Save, PipelinesIInv, Typed, Runs, c
<1>4. r \in Runs
  BY <1>1, <1>2 DEF Runs, Places
<1>5. Told(r, store[m])
  BY <1>1, <1>2 DEF Told, Runs, Saving, Final, Quiet, NoMessage
<1>6. InLine(r)
  BY <1>1, <1>2 DEF InLine, Told, Runs, Saving, Landing
<1>7. Wholly(r)
  BY <1>1, <1>2 DEF Wholly, Runs, Landing
<1> HIDE DEF r
<1> QED BY <1>3, <1>4, <1>5, <1>6, <1>7, RunThinks

\* An ingest whose error escapes leaves its message at "Running".
LEMMA EscapesKeepInvariant ==
  ASSUME PipelinesIInv, NEW m \in Messages, Escapes(m), events' \in 0..MaxEvents,
         run[m].pc \in {"land", "load"}, run[m].ingest, run[m].man = Absent,
         UNCHANGED <<graph, index, rules, admin, torn, store>>
  PROVE  PipelinesIInv'
<1> DEFINE r == [run[m] EXCEPT !.pc = "over", !.escaped = TRUE]
<1>1. run[m] \in Runs /\ Told(run[m], store[m]) /\ InLine(run[m]) /\ Wholly(run[m])
  BY RunFacts
<1>2. run' = [run EXCEPT ![m] = r]
  BY <1>1 DEF Escapes, PipelinesIInv, Typed, Runs
<1>3. r \in Runs
  BY <1>1 DEF Runs, Places
<1>4. Told(r, store[m])
  BY <1>1 DEF Told, Runs, Saving, Final, NoMessage
<1>5. InLine(r) /\ Wholly(r)
  BY <1>1 DEF InLine, Wholly, Runs, Saving, Landing
<1> HIDE DEF r
<1> QED BY <1>2, <1>3, <1>4, <1>5, RunThinks

\* A push lands, or does not.
LEMMA LandingsKeepInvariant ==
  ASSUME PipelinesIInv, NEW m \in Messages, NEW ok \in BOOLEAN, Land(m, ok),
         events' \in 0..MaxEvents
  PROVE  PipelinesIInv'
<1> DEFINE how == IF ok THEN "Completed" ELSE "Failed"
           now == RecordStage(run[m].msg, "ingest", how, {})
           r == [run[m] EXCEPT !.msg = now, !.pc = "load"]
<1>1. /\ run[m] \in Runs /\ Told(run[m], store[m]) /\ InLine(run[m]) /\ run[m].pc = "land"
      /\ UNCHANGED <<graph, index, rules, admin, torn, store>>
  BY RunFacts DEF Land
<1>2. run[m].man = Absent /\ run[m].ingest /\ run[m].msg.stages = <<>>
  <2>1. run[m].msg.stages \in Seq(Records)
    BY <1>1 DEF Runs, MessagesHeld
  <2>2. run[m].man = Absent /\ run[m].ingest /\ Len(run[m].msg.stages) = 0
    BY <1>1 DEF InLine, Saving
  <2> QED BY <2>1, <2>2, EmptySeq
<1>3. /\ now \in MessagesHeld /\ now.status = run[m].msg.status /\ Len(now.stages) = 1
      /\ now.stages[1].stage = "ingest" /\ now.stages[1].status = how
  <2> DEFINE x == [stage |-> "ingest", status |-> how, context |-> {}]
  <2>1. run[m].msg \in MessagesHeld
    BY <1>1 DEF Runs
  <2>2. how \in Ends /\ {} \in SUBSET AllStages
    BY DEF Ends
  <2> HIDE DEF how
  <2>3. now \in MessagesHeld /\ now.status = run[m].msg.status
    BY <2>1, <2>2, RecordIsHeld
  <2>4. now.stages = Append(<<>>, x)
    BY <1>2, <2>1 DEF RecordStage, MessagesHeld
  <2>5. x.stage = "ingest" /\ x.status = how
    OBVIOUS
  <2> HIDE DEF now, x
  <2>6. Len(now.stages) = 1 /\ now.stages[1] = x
    BY <2>4
  <2> QED BY <2>3, <2>5, <2>6
<1> HIDE DEF how, now
<1>4. CASE /\ ok /\ run[m].wants
            /\ run' = [run EXCEPT ![m].msg = now, ![m].pc = "load"]
  <2>1. run' = [run EXCEPT ![m] = r]
    BY <1>1, <1>4 DEF PipelinesIInv, Typed, Runs
  <2>2. r \in Runs
    BY <1>1, <1>3 DEF Runs, Places
  <2>3. Told(r, store[m])
    BY <1>1, <1>2, <1>3 DEF Told, Runs, Saving, Final
  <2>4. InLine(r)
    BY <1>1, <1>2, <1>3 DEF InLine, Runs, Saving, Landing
  <2>5. Wholly(r)
    BY <1>1, <1>3 DEF Wholly, Told, Saving, Final, Runs
  <2> HIDE DEF r
  <2> QED BY <1>1, <2>1, <2>2, <2>3, <2>4, <2>5, RunThinks
<1>5. CASE ~(ok /\ run[m].wants) /\ Save(m, Completed(now, ~ok), "over")
  <2>1. Save(m, Completed(now, ~ok), "over")
    BY <1>5
  <2>2. ok => ~Failing(now)
    <3>1. DOMAIN now.stages = 1..1
      BY <1>3, LenProperties DEF MessagesHeld
    <3> QED BY <1>3, <3>1 DEF Failing, how
  <2> QED BY <1>1, <1>2, <1>3, <2>1, <2>2, EndsKeepInvariant
<1>6. CASE Escapes(m)
  BY <1>1, <1>2, <1>6, EscapesKeepInvariant
<1> QED BY <1>4, <1>5, <1>6 DEF Land, now, how

\* The manifest is read.
LEMMA ManifestsKeepInvariant ==
  ASSUME PipelinesIInv, NEW m \in Messages, NEW b \in BOOLEAN, LoadManifest(m, b),
         events' \in 0..MaxEvents
  PROVE  PipelinesIInv'
<1> DEFINE man == IF b THEN graph ELSE Absent
<1>1. /\ run[m] \in Runs /\ Told(run[m], store[m]) /\ InLine(run[m]) /\ run[m].pc = "load"
      /\ UNCHANGED <<graph, index, rules, admin, torn, store>>
  BY RunFacts DEF LoadManifest
<1>2. /\ run[m].man = Absent /\ ~Final(run[m].msg)
      /\ ~run[m].ingest => store[m] = NoMessage
      /\ Len(run[m].msg.stages) = Landing(run[m])
      /\ run[m].ingest => run[m].msg.stages[1].stage = "ingest"
  BY <1>1 DEF Told, InLine, Saving, Landing
<1>3. man \in Manifests \cup {Absent}
  BY DEF PipelinesIInv, Typed
<1>4. CASE /\ man # Absent /\ (run[m].ingest \/ Runnable(man))
            /\ run' = [run EXCEPT ![m].man = man, ![m].pc = "delete", ![m].then = "begin",
                 ![m].msg.status = IF run[m].ingest THEN @ ELSE "Received"]
  <2> DEFINE r == [run[m] EXCEPT !.man = man, !.pc = "delete", !.then = "begin",
                     !.msg = [run[m].msg EXCEPT !.status =
                                IF run[m].ingest THEN run[m].msg.status ELSE "Received"]]
  <2>1. run' = [run EXCEPT ![m] = r]
    <3>1. run' = [run EXCEPT ![m].man = man, ![m].pc = "delete", ![m].then = "begin",
             ![m].msg.status = IF run[m].ingest THEN @ ELSE "Received"]
      BY <1>4
    <3> HIDE DEF man
    <3> QED BY <1>1, <3>1 DEF PipelinesIInv, Typed, Runs
  <2> HIDE DEF man
  <2>2. r \in Runs
    BY <1>1, <1>3 DEF Runs, Places, MessagesHeld, Statuses
  <2>3. Told(r, store[m])
    BY <1>1, <1>2 DEF Told, Runs, MessagesHeld, Saving, Final, NoMessage
  <2>4. InLine(r)
    <3>1. Len(Order[man]) \in Nat
      BY <1>3, <1>4, OrderIsTopological, LenProperties DEF Sorted
    <3>2. InOrder(man, Landing(run[m]), run[m].msg.stages)
      BY <1>2, <3>1 DEF InOrder, Landing
    <3>3. /\ r.man = man /\ r.msg.stages = run[m].msg.stages /\ Landing(r) = Landing(run[m])
          /\ r.pc = "delete" /\ r.then = "begin"
      BY <1>1 DEF Runs, MessagesHeld, Landing
    <3> HIDE DEF r
    <3> QED BY <1>2, <1>4, <3>2, <3>3 DEF InLine, Saving
  <2>5. Wholly(r)
    BY <1>1, <1>2 DEF Wholly, Runs, MessagesHeld, Final
  <2> HIDE DEF r
  <2> QED BY <1>1, <2>1, <2>2, <2>3, <2>4, <2>5, RunThinks
<1>5. CASE man = Absent /\ run[m].ingest /\ Save(m, Completed(run[m].msg, TRUE), "over")
  <2>1. Save(m, Completed(run[m].msg, TRUE), "over")
    BY <1>5
  <2>2. run[m].msg \in MessagesHeld
    BY <1>1 DEF Runs
  <2> QED BY <1>1, <1>2, <1>5, <2>1, <2>2, EndsKeepInvariant
<1>6. CASE ~run[m].ingest /\ run' = [run EXCEPT ![m] = Quiet]
  <2>1. run' = [run EXCEPT ![m] = Quiet]
    BY <1>6
  <2>2. Told(Quiet, store[m]) /\ InLine(Quiet) /\ Wholly(Quiet)
    BY <1>2, <1>6, PipelinesAssumption
       DEF Told, InLine, Wholly, Quiet, NoMessage, Saving, Final, Landing
  <2> QED BY <1>1, <2>1, <2>2, QuietIsARun, RunThinks
<1>7. CASE Escapes(m) /\ run[m].ingest
  BY <1>1, <1>2, <1>7, EscapesKeepInvariant
<1> QED BY <1>4, <1>5, <1>6, <1>7 DEF LoadManifest

\* The rules are resolved, or the run ends on one that is not there.
LEMMA RulesKeepInvariant ==
  ASSUME PipelinesIInv, NEW m \in Messages, NEW b \in BOOLEAN, LoadRules(m, b),
         events' \in 0..MaxEvents
  PROVE  PipelinesIInv'
<1> DEFINE known == IF b THEN rules ELSE {}
           q == Order[run[m].man]
<1>1. /\ run[m] \in Runs /\ Told(run[m], store[m]) /\ InLine(run[m]) /\ Wholly(run[m])
      /\ run[m].pc = "rules" /\ UNCHANGED <<graph, index, rules, admin, torn, store>>
  BY RunFacts DEF LoadRules
<1>2. /\ run[m].man \in Manifests /\ ~Final(run[m].msg)
      /\ Len(run[m].msg.stages) = Landing(run[m]) /\ Landing(run[m]) \in Nat
      /\ InOrder(run[m].man, Landing(run[m]), run[m].msg.stages)
  <2>1. run[m].man # Absent
    BY <1>1 DEF InLine
  <2> QED BY <1>1, <2>1, PipelinesAssumption DEF Told, InLine, Saving, Runs, Landing
<1>3. q \in Seq(Stages(run[m].man)) /\ Len(q) \in Nat
  BY <1>2, OrderIsTopological, LenProperties DEF Sorted
<1>4. CASE /\ Runnable(run[m].man)
            /\ run' = [run EXCEPT ![m].pc = "stage", ![m].left = q, ![m].known = known]
  <2> DEFINE r == [run[m] EXCEPT !.pc = "stage", !.left = q, !.known = known]
  <2>1. known \in SUBSET RuleIds
    BY DEF PipelinesIInv, Typed
  <2>2. run' = [run EXCEPT ![m] = r]
    <3>1. run' = [run EXCEPT ![m].pc = "stage", ![m].left = q, ![m].known = known]
      BY <1>4
    <3> HIDE DEF known, q
    <3> QED BY <1>1, <3>1 DEF PipelinesIInv, Typed
  <2>3. q \in Seq(AllStages)
    BY <1>2, <1>3, ElementOfSeq DEF AllStages
  <2> HIDE DEF known
  <2>4. Remain(run[m].man, 0, q)
    BY <1>3, <1>4 DEF Remain
  <2> HIDE DEF q
  <2>5. r \in Runs
    BY <1>1, <2>1, <2>3 DEF Runs, Places
  <2>6. Told(r, store[m])
    BY <1>1, <1>2 DEF Told, Runs, Saving, Final
  <2>7. InLine(r)
    <3>1. /\ r.man = run[m].man /\ r.msg = run[m].msg /\ Landing(r) = Landing(run[m])
          /\ r.pc = "stage" /\ r.left = q
      BY <1>1 DEF Runs, Landing
    <3> HIDE DEF r
    <3> QED BY <1>1, <1>2, <2>4, <3>1 DEF InLine, Saving
  <2>8. Wholly(r)
    BY <1>1, <1>2 DEF Wholly, Runs, Final
  <2> HIDE DEF r
  <2> QED BY <1>1, <2>2, <2>5, <2>6, <2>7, <2>8, RunThinks
<1>5. CASE Save(m, Completed(run[m].msg, TRUE), "over")
  <2>1. Save(m, Completed(run[m].msg, TRUE), "over")
    BY <1>5
  <2>2. run[m].msg \in MessagesHeld /\ run[m].man # Absent
    BY <1>1, <1>2, PipelinesAssumption DEF Runs
  <2> QED BY <1>1, <1>2, <2>1, <2>2, EndsKeepInvariant
<1> QED BY <1>4, <1>5 DEF LoadRules

\* What a prompt is given was read, in this run, by a stage it depends on.
LEMMA SlotIsRead ==
  ASSUME NEW r \in Runs, NEW s, r.man \in Manifests
  PROVE  /\ ContextSlot(r, s) \in SUBSET AllStages
         /\ ContextSlot(r, s) \subseteq
              Deps[r.man][s] \cap {r.msg.stages[j].stage : j \in 1..Len(r.msg.stages)}
<1>1. DOMAIN r.msg.stages = 1..Len(r.msg.stages)
  BY LenProperties DEF Runs, MessagesHeld
<1>2. /\ Results(r) \subseteq Stages(r.man)
      /\ Results(r) \subseteq {r.msg.stages[j].stage : j \in 1..Len(r.msg.stages)}
  BY <1>1 DEF Results
<1>3. ContextSlot(r, s) \subseteq Deps[r.man][s] \cap Results(r)
  BY DEF ContextSlot
<1>4. Stages(r.man) \subseteq AllStages
  BY DEF AllStages
<1> QED BY <1>2, <1>3, <1>4

\* Taking the next stage in line.
LEMMA NextInLine ==
  ASSUME NEW man \in Manifests, NEW o \in {0, 1}, NEW done \in Seq(Records), NEW left,
         left \in Seq(AllStages), left # <<>>,
         InOrder(man, o, done), Remain(man, Len(done) - o, left),
         NEW x \in Records, x.stage = Head(left),
         x.context \subseteq Deps[man][Head(left)] \cap {done[j].stage : j \in 1..Len(done)}
  PROVE  /\ InOrder(man, o, Append(done, x))
         /\ Remain(man, Len(done) + 1 - o, Tail(left))
         /\ Tail(left) = <<>> => Len(done) + 1 = o + Len(Order[man])
         /\ Head(left) \in Stages(man)
<1> DEFINE q == Order[man]
           n == Len(done)
           new == Append(done, x)
<1>1. n \in Nat /\ q \in Seq(Stages(man)) /\ Len(q) \in Nat /\ Len(left) \in Nat /\ Len(left) > 0
  BY OrderIsTopological, LenProperties, EmptySeq DEF Sorted
<1>2. /\ Len(left) = Len(q) - (n - o) /\ Runnable(man)
      /\ \A i \in 1..Len(left) : left[i] = q[n - o + i]
  BY DEF Remain
<1>3. o <= n /\ n - o <= Len(q) /\ (o = 1 => done[1].stage = "ingest")
  BY DEF InOrder
<1>4. \A i \in 1..n : i > o =>
        /\ done[i].stage = q[i-o]
        /\ done[i].context \subseteq Deps[man][q[i-o]] \cap {done[j].stage : j \in 1..i-1}
  BY DEF InOrder
<1>5. /\ Len(new) = n + 1 /\ new[n+1] = x
      /\ \A i \in 1..n : new[i] = done[i]
  BY <1>1, AppendProperties
<1>6. Head(left) = left[1] /\ Head(left) = q[n + 1 - o] /\ n + 1 - o \in 1..Len(q)
  BY <1>1, <1>2, <1>3, HeadTailProperties
<1>7. /\ Len(Tail(left)) = Len(left) - 1
      /\ \A i \in 1..Len(Tail(left)) : Tail(left)[i] = left[i+1]
  BY <1>1, HeadTailProperties
<1>8. Remain(man, n + 1 - o, Tail(left))
  BY <1>1, <1>2, <1>3, <1>7 DEF Remain
<1>9. ASSUME Tail(left) = <<>> PROVE n + 1 = o + Len(q)
  <2>a. Tail(left) \in Seq(AllStages)
    BY HeadTailProperties
  <2>1. Len(Tail(left)) = 0
    BY <1>9, <2>a, EmptySeq
  <2>2. o \in Nat
    OBVIOUS
  <2> DEFINE w == Len(left)  k == Len(q)  t == Len(Tail(left))
  <2>3. w \in Nat /\ k \in Nat /\ n \in Nat /\ w = k - (n - o) /\ t = w - 1 /\ t = 0
    BY <1>1, <1>2, <1>7, <2>1
  <2>4. w = 1
    <3> HIDE DEF w, k, t, n
    <3> QED BY <2>3
  <2>5. n - o = k - 1
    <3> HIDE DEF w, k, t, n
    <3> QED BY <2>3, <2>2, <2>4
  <2>6. n + 1 = o + k
    <3> HIDE DEF w, k, t, n
    <3> QED BY <2>3, <2>2, <2>5
  <2> QED BY <2>6
<1>10. Head(left) \in Stages(man)
  BY <1>1, <1>6, ElementOfSeq
<1> HIDE DEF new, n, q
<1>11. ASSUME NEW i \in 1..n+1
       PROVE  {new[j].stage : j \in 1..i-1} = {done[j].stage : j \in 1..i-1}
  <2>1. \A j \in 1..i-1 : new[j] = done[j]
    BY <1>1, <1>5
  <2> QED BY <2>1
<1>12. ASSUME NEW i \in 1..n+1, i > o
       PROVE  /\ new[i].stage = q[i-o]
              /\ new[i].context \subseteq Deps[man][q[i-o]] \cap {new[j].stage : j \in 1..i-1}
  <2>1. CASE i \in 1..n
    BY <1>4, <1>5, <1>11, <1>12, <2>1
  <2>2. CASE i = n + 1
    <3>1. new[i] = x /\ i - o = n + 1 - o
      BY <1>1, <1>5, <2>2
    <3>2. {new[j].stage : j \in 1..i-1} = {done[j].stage : j \in 1..n}
      <4>1. i - 1 = n
        BY <1>1, <2>2
      <4> QED BY <1>11, <4>1
    <3> QED BY <1>6, <2>2, <3>1, <3>2 DEF n
  <2> QED BY <1>1, <2>1, <2>2
<1>13. ASSUME o = 1 PROVE new[1].stage = "ingest"
  <2>1. 1 \in 1..n
    BY <1>1, <1>3, <1>13
  <2>2. new[1] = done[1]
    BY <1>5, <2>1
  <2> QED BY <1>3, <1>13, <2>2
<1>14. InOrder(man, o, new)
  BY <1>1, <1>3, <1>5, <1>6, <1>12, <1>13 DEF InOrder, q
<1> QED BY <1>8, <1>9, <1>10, <1>14 DEF new, n, q

\* A stage is run and recorded.
LEMMA StagesKeepInvariant ==
  ASSUME PipelinesIInv, NEW m \in Messages, NEW e \in Ends, RunStage(m, e), events' \in 0..MaxEvents
  PROVE  PipelinesIInv'
<1> DEFINE s == Head(run[m].left)
           given == ContextSlot(run[m], s)
           x == [stage |-> s, status |-> e, context |-> given]
           new == RecordStage(run[m].msg, s, e, given)
           old == run[m].msg.stages
           man == run[m].man
           o == Landing(run[m])
<1>1. /\ run[m] \in Runs /\ Told(run[m], store[m]) /\ InLine(run[m]) /\ Wholly(run[m])
      /\ run[m].pc = "stage" /\ run[m].left # <<>>
      /\ UNCHANGED <<graph, index, rules, admin, torn, store>>
  BY RunFacts DEF RunStage
<1>2. /\ man \in Manifests /\ man # Absent /\ ~Final(run[m].msg)
      /\ InOrder(man, o, old) /\ Remain(man, Len(old) - o, run[m].left)
  <2>1. run[m].man # Absent
    BY <1>1 DEF InLine
  <2> QED BY <1>1, <2>1 DEF Told, InLine, Saving, Runs
<1>3. /\ o \in {0, 1} /\ run[m].msg \in MessagesHeld /\ old \in Seq(Records) /\ Len(old) \in Nat
      /\ run[m].left \in Seq(AllStages) /\ s \in AllStages
  BY <1>1, HeadTailProperties, LenProperties DEF Runs, MessagesHeld, Landing
<1>4. /\ given \in SUBSET AllStages
      /\ given \subseteq Deps[man][s] \cap {old[j].stage : j \in 1..Len(old)}
  BY <1>1, <1>2, SlotIsRead
<1> HIDE DEF given
<1>5. /\ new \in MessagesHeld /\ new.status = run[m].msg.status /\ new.stages = Append(old, x)
  <2>1. new \in MessagesHeld /\ new.status = run[m].msg.status
    <3>1. run[m].msg \in MessagesHeld /\ s \in AllStages \cup {"ingest"}
      BY <1>3
    <3> HIDE DEF s
    <3> QED BY <3>1, <1>4, RecordIsHeld
  <2>2. new.stages = Append(old, x)
    BY <1>3 DEF RecordStage, MessagesHeld
  <2> QED BY <2>1, <2>2
<1>6. x \in Records /\ x.stage = s /\ x.context = given /\ x.status = e
  BY <1>3, <1>4 DEF Records
<1> HIDE DEF x, new
<1>7. /\ InOrder(man, o, Append(old, x)) /\ Remain(man, Len(old) + 1 - o, Tail(run[m].left))
      /\ Tail(run[m].left) = <<>> => Len(old) + 1 = o + Len(Order[man])
  <2> DEFINE left == run[m].left
  <2>1. left \in Seq(AllStages) /\ left # <<>> /\ Remain(man, Len(old) - o, left)
    BY <1>1, <1>2, <1>3
  <2>2. x.stage = Head(left)
        /\ x.context \subseteq Deps[man][Head(left)] \cap {old[j].stage : j \in 1..Len(old)}
    BY <1>4, <1>6
  <2> HIDE DEF left, old, man, o
  <2> QED BY <1>2, <1>3, <1>6, <2>1, <2>2, NextInLine DEF left
<1>8. Len(new.stages) = Len(old) + 1 /\ new.stages[Len(old) + 1] = x
  BY <1>3, <1>5, <1>6, AppendProperties
<1>9. CASE Tail(run[m].left) = <<>> \/ (e = "Failed" /\ run[m].stop)
  <2>1. Save(m, Completed(new, Failing(new)), "over")
    BY <1>9 DEF RunStage, new, given
  <2>2. Failing(new) \in BOOLEAN
    BY DEF Failing
  <2>3. ~Failing(new) => Tail(run[m].left) = <<>>
    <3>1. DOMAIN new.stages = 1..Len(old) + 1
      BY <1>5, <1>8, LenProperties DEF MessagesHeld
    <3>2. e = "Failed" => Failing(new)
      BY <1>3, <1>6, <1>8, <3>1 DEF Failing
    <3> QED BY <1>9, <3>2
  <2>4. Runnable(man)
    BY <1>2 DEF Remain
  <2>5. InOrder(man, o, new.stages)
    BY <1>5, <1>7
  <2>6. ~Failing(new) => Runnable(man) /\ Len(new.stages) = o + Len(Order[man])
    BY <1>7, <1>8, <2>3, <2>4
  <2> QED BY <1>1, <1>2, <1>5, <2>1, <2>2, <2>5, <2>6, EndsKeepInvariant
<1>10. CASE ~(Tail(run[m].left) = <<>> \/ (e = "Failed" /\ run[m].stop))
  <2> DEFINE r == [run[m] EXCEPT !.msg = new, !.left = Tail(run[m].left)]
  <2>1. run' = [run EXCEPT ![m] = r]
    <3>1. run' = [run EXCEPT ![m].msg = new, ![m].left = Tail(@)]
      BY <1>10 DEF RunStage, new, given
    <3> QED BY <1>1, <3>1 DEF PipelinesIInv, Typed, Runs
  <2>2. Tail(run[m].left) \in Seq(AllStages)
    BY <1>1, <1>3, HeadTailProperties
  <2>3. r \in Runs
    BY <1>1, <1>5, <2>2 DEF Runs
  <2>4. Told(r, store[m])
    BY <1>1, <1>2, <1>5 DEF Told, Runs, Saving, Final
  <2>5. InLine(r)
    <3>1. /\ r.man = man /\ r.msg = new /\ Landing(r) = o /\ r.pc = "stage"
          /\ r.left = Tail(run[m].left)
      BY <1>1 DEF Runs, Landing
    <3>2. Remain(man, Len(new.stages) - o, r.left)
      <4>1. Remain(man, Len(old) + 1 - o, r.left)
        BY <1>7, <3>1
      <4>2. Len(new.stages) = Len(old) + 1
        BY <1>8
      <4> HIDE DEF r, man, o, old
      <4> QED BY <1>3, <4>1, <4>2
    <3>3. InOrder(man, o, new.stages)
      BY <1>5, <1>7
    <3> HIDE DEF r, man, o
    <3> QED BY <1>2, <3>1, <3>2, <3>3 DEF InLine, Saving
  <2>6. Wholly(r)
    BY <1>1, <1>2, <1>5 DEF Wholly, Runs, Final
  <2> HIDE DEF r
  <2> QED BY <1>1, <2>1, <2>3, <2>4, <2>5, <2>6, RunThinks
<1> QED BY <1>9, <1>10

\* A request of a run fails.
LEMMA FailuresKeepInvariant ==
  ASSUME PipelinesIInv, NEW m \in Messages, StoreFails(m), events' \in 0..MaxEvents
  PROVE  PipelinesIInv'
<1> DEFINE r == [run[m] EXCEPT !.pc = "over", !.hit = TRUE]
<1>1. /\ run[m] \in Runs /\ Told(run[m], store[m]) /\ InLine(run[m]) /\ Wholly(run[m])
      /\ Saving(run[m])
      /\ UNCHANGED <<graph, index, rules, admin, torn, store>>
  BY RunFacts DEF StoreFails, Saving
<1>2. run' = [run EXCEPT ![m] = r]
  BY DEF StoreFails
<1>3. r \in Runs
  BY <1>1 DEF Runs, Places
<1>4. Told(r, store[m])
  BY <1>1 DEF Told, Runs, Saving, Final
<1>5. InLine(r) /\ Wholly(r)
  BY <1>1 DEF InLine, Wholly, Runs, Saving, Landing
<1> HIDE DEF r
<1> QED BY <1>1, <1>2, <1>3, <1>4, <1>5, RunThinks

\* What a restart makes of a run.
LEMMA CutShort ==
  ASSUME NEW r \in Runs, NEW d, Told(r, d), InLine(r), Wholly(r), r.pc \notin {"idle", "over"}
  PROVE  LET n == [r EXCEPT !.pc = "over", !.hit = TRUE] IN
         n \in Runs /\ Told(n, d) /\ InLine(n) /\ Wholly(n)
<1> DEFINE n == [r EXCEPT !.pc = "over", !.hit = TRUE]
<1>1. n \in Runs
  BY DEF Runs, Places
<1>2. Told(n, d)
  BY DEF Told, Runs, Saving, Final
<1>3. InLine(n) /\ Wholly(n)
  BY DEF InLine, Wholly, Runs, Saving, Landing
<1> QED BY <1>1, <1>2, <1>3

\* The process dies.
LEMMA RestartsKeepInvariant ==
  ASSUME PipelinesIInv, Restart, events' \in 0..MaxEvents
  PROVE  PipelinesIInv'
<1>1. /\ UNCHANGED <<graph, index, rules, store>>
      /\ admin' = [a \in Admins |-> AtRest] /\ torn' = (torn \/ \E a \in Admins : Busy(a))
  BY DEF Restart
<1>2. ASSUME NEW m \in Messages
      PROVE  /\ run'[m] \in Runs
             /\ Told(run'[m], store[m]) /\ InLine(run'[m]) /\ Wholly(run'[m])
  <2>1. run[m] \in Runs /\ Told(run[m], store[m]) /\ InLine(run[m]) /\ Wholly(run[m])
    BY RunFacts
  <2>2. CASE run[m].pc \in {"idle", "over"}
    BY <2>1, <2>2 DEF Restart
  <2>3. CASE run[m].pc \notin {"idle", "over"}
    <3>1. run'[m] = [run[m] EXCEPT !.pc = "over", !.hit = TRUE]
      BY <2>3 DEF Restart
    <3> QED BY <2>1, <2>3, <3>1, CutShort
  <2> QED BY <2>2, <2>3
<1>3. Typed'
  <2>1. run' \in [Messages -> Runs]
    BY <1>2 DEF Restart
  <2>2. AtRest \in AdminRequests
    BY DEF AtRest, AdminRequests
  <2>3. torn' \in BOOLEAN
    BY <1>1 DEF PipelinesIInv, Typed
  <2> QED BY <1>1, <2>1, <2>2, <2>3 DEF PipelinesIInv, Typed
<1>4. RequestsAreAlone' /\ IndexAgrees'
  BY <1>1 DEF PipelinesIInv, Typed, RequestsAreAlone, IndexAgrees, Busy, AtRest
<1>5. RunsAreSound'
  BY <1>1, <1>2 DEF RunsAreSound
<1> QED BY <1>3, <1>4, <1>5 DEF PipelinesIInv

-----------------------------------------------------------------------------
(* Registering and dropping leaves the runs alone.                         *)

\* A step of an administrator leaves the runs alone.
LEMMA RequestMoves ==
  ASSUME PipelinesIInv, Typed', RequestsAreAlone', IndexAgrees', UNCHANGED <<run, store>>
  PROVE  PipelinesIInv'
<1>1. RunsAreSound'
  BY DEF PipelinesIInv, RunsAreSound
<1> QED BY <1>1 DEF PipelinesIInv

\* The requests that change manifests begin, go on and end.
LEMMA RequestsStart ==
  ASSUME PipelinesIInv, NEW a \in Admins, NEW place \in {"put", "drop"},
         NEW man \in Manifests \cup {Absent},
         place = "put" => man # Absent, AdminStarts(a, place, man),
         UNCHANGED <<graph, index, rules, store, run>>, events' \in 0..MaxEvents
  PROVE  PipelinesIInv'
<1> DEFINE others == {b \in Admins \ {a} : Busy(b)}
<1>1. ~Busy(a) /\ torn' = (torn \/ others # {}) /\ torn \in BOOLEAN
  BY DEF AdminStarts, PipelinesIInv, Typed
<1>2. /\ admin'[a] = [pc |-> place, man |-> man, alone |-> others = {}]
      /\ \A b \in Admins \ {a} : admin'[b] = [admin[b] EXCEPT !.alone = @ /\ b \notin others]
      /\ admin' = [b \in Admins |-> admin'[b]]
  BY DEF AdminStarts
<1>3. admin \in [Admins -> AdminRequests]
  BY DEF PipelinesIInv, Typed
<1>4. /\ admin'[a].pc = place /\ admin'[a].man = man /\ admin'[a].alone = (others = {})
      /\ admin'[a] \in AdminRequests
  BY <1>2 DEF AdminRequests
<1>5. ASSUME NEW b \in Admins \ {a}
      PROVE  /\ admin'[b] \in AdminRequests
             /\ admin'[b].pc = admin[b].pc /\ admin'[b].man = admin[b].man
             /\ admin'[b].alone <=> admin[b].alone /\ b \notin others
  BY <1>2, <1>3 DEF AdminRequests
<1>6. Typed'
  <2>1. admin' \in [Admins -> AdminRequests]
    BY <1>2, <1>4, <1>5
  <2> QED BY <1>1, <2>1 DEF PipelinesIInv, Typed
<1>7. RequestsAreAlone'
  <2> SUFFICES ASSUME NEW b \in Admins, Busy(b)'
               PROVE  /\ torn' \/ admin'[b].alone
                      /\ admin'[b].pc = "put" => admin'[b].man # Absent
                      /\ admin'[b].alone =>
                           /\ \A c \in Admins \ {b} : ~Busy(c)'
                           /\ admin'[b].pc \in {"unlist", "list"} => graph' # Absent
                           /\ admin'[b].pc = "forget" => graph' = Absent
    BY DEF RequestsAreAlone
  <2>1. CASE b = a
    BY <1>1, <1>4, <1>5, <2>1 DEF Busy
  <2>2. CASE b # a
    <3>1. Busy(b) /\ b \in others
      BY <1>5, <2>2 DEF Busy
    <3>2. torn' /\ ~admin'[b].alone
      BY <1>1, <1>5, <2>2, <3>1
    <3> QED BY <1>5, <2>2, <3>1, <3>2 DEF PipelinesIInv, RequestsAreAlone
  <2> QED BY <2>1, <2>2
<1>8. IndexAgrees'
  BY <1>4 DEF IndexAgrees, Busy
<1> QED BY <1>6, <1>7, <1>8, RequestMoves

LEMMA RequestsStep ==
  ASSUME PipelinesIInv, NEW a \in Admins, events' \in 0..MaxEvents,
         PutManifest(a) \/ Unlist(a) \/ DropManifest(a)
  PROVE  PipelinesIInv'
<1> DEFINE place == CASE admin[a].pc = "put" -> "unlist" [] admin[a].pc = "unlist" -> "list"
                   [] admin[a].pc = "drop" -> "forget"
<1>1. /\ admin \in [Admins -> AdminRequests] /\ Busy(a)
      /\ admin[a].pc \in {"put", "unlist", "drop"}
      /\ UNCHANGED <<rules, torn, store, run>>
  BY DEF PipelinesIInv, Typed, PutManifest, Unlist, DropManifest, Busy
<1>2. admin' = [admin EXCEPT ![a].pc = place] /\ place \in {"unlist", "list", "forget"}
  BY <1>1 DEF PutManifest, Unlist, DropManifest, AdminGoes
<1>3. /\ admin'[a].pc = place /\ admin'[a].man = admin[a].man /\ admin'[a].alone = admin[a].alone
      /\ \A b \in Admins \ {a} : admin'[b] = admin[b]
      /\ admin' \in [Admins -> AdminRequests]
  <2> HIDE DEF place
  <2> QED BY <1>1, <1>2 DEF AdminRequests
<1>4. /\ place = "unlist" => graph' = admin[a].man /\ admin[a].pc = "put"
      /\ place = "list" => graph' = graph /\ admin[a].pc = "unlist"
      /\ place = "forget" => graph' = Absent /\ admin[a].pc = "drop"
      /\ graph' \in Manifests \cup {Absent} /\ index' \in BOOLEAN
  BY <1>1 DEF PutManifest, Unlist, DropManifest, PipelinesIInv, Typed, AdminRequests
<1> HIDE DEF place
<1>5. Typed'
  BY <1>1, <1>3, <1>4 DEF PipelinesIInv, Typed
<1>6. /\ torn \/ admin[a].alone
      /\ admin[a].pc = "put" => admin[a].man # Absent
      /\ admin[a].alone => /\ \A b \in Admins \ {a} : ~Busy(b)
                           /\ admin[a].pc \in {"unlist", "list"} => graph # Absent
  BY <1>1 DEF PipelinesIInv, RequestsAreAlone
<1>7. ASSUME NEW b \in Admins, Busy(b)'
      PROVE  /\ torn' \/ admin'[b].alone
             /\ admin'[b].pc = "put" => admin'[b].man # Absent
             /\ admin'[b].alone =>
                  /\ \A c \in Admins \ {b} : ~Busy(c)'
                  /\ admin'[b].pc \in {"unlist", "list"} => graph' # Absent
                  /\ admin'[b].pc = "forget" => graph' = Absent
  <2>1. CASE b = a
    BY <1>1, <1>2, <1>3, <1>4, <1>6, <2>1 DEF Busy
  <2>2. CASE b # a
    <3>1. Busy(b) /\ ~admin[b].alone
      BY <1>1, <1>3, <1>7, <2>2 DEF PipelinesIInv, RequestsAreAlone, Busy
    <3> QED BY <1>1, <1>3, <2>2, <3>1 DEF PipelinesIInv, RequestsAreAlone
  <2> QED BY <2>1, <2>2
<1>8. RequestsAreAlone'
  BY <1>7 DEF RequestsAreAlone
<1>9. IndexAgrees'
  BY <1>2, <1>3 DEF IndexAgrees, Busy
<1> QED BY <1>1, <1>5, <1>8, <1>9, RequestMoves

LEMMA RequestsEnd ==
  ASSUME PipelinesIInv, NEW a \in Admins, events' \in 0..MaxEvents,
         List(a) \/ Forget(a) \/ AdminFails(a)
  PROVE  PipelinesIInv'
<1>1. /\ admin \in [Admins -> AdminRequests] /\ Busy(a) /\ torn \in BOOLEAN
      /\ UNCHANGED <<graph, rules, store, run>> /\ index' \in BOOLEAN /\ torn' \in BOOLEAN
      /\ admin' = [admin EXCEPT ![a] = AtRest]
  BY DEF PipelinesIInv, Typed, List, Forget, AdminFails, AdminEnds, Busy, Deleted, AdminRequests
<1>2. /\ ~Busy(a)' /\ admin'[a] = AtRest
      /\ \A b \in Admins \ {a} : admin'[b] = admin[b]
      /\ admin' \in [Admins -> AdminRequests]
  <2>1. AtRest \in AdminRequests /\ AtRest.pc = "idle"
    BY DEF AtRest, AdminRequests
  <2> QED BY <1>1, <2>1 DEF Busy
<1>3. Typed'
  BY <1>1, <1>2 DEF PipelinesIInv, Typed
<1>4. RequestsAreAlone'
  <2> SUFFICES ASSUME NEW b \in Admins, Busy(b)'
               PROVE  /\ torn' \/ admin'[b].alone
                      /\ admin'[b].pc = "put" => admin'[b].man # Absent
                      /\ admin'[b].alone =>
                           /\ \A c \in Admins \ {b} : ~Busy(c)'
                           /\ admin'[b].pc \in {"unlist", "list"} => graph' # Absent
                           /\ admin'[b].pc = "forget" => graph' = Absent
    BY DEF RequestsAreAlone
  <2>1. b # a /\ Busy(b) /\ admin'[b] = admin[b]
    BY <1>2 DEF Busy
  <2>2. ~admin[a].alone /\ ~admin[b].alone /\ torn
    BY <1>1, <2>1 DEF PipelinesIInv, RequestsAreAlone
  <2>3. torn'
    BY <2>2 DEF List, Forget, AdminFails
  <2> QED BY <2>1, <2>2, <2>3 DEF PipelinesIInv, RequestsAreAlone
<1>5. IndexAgrees'
  <2>1. CASE List(a)
    BY <1>1, <2>1 DEF List, PipelinesIInv, RequestsAreAlone, IndexAgrees
  <2>2. CASE Forget(a)
    BY <1>1, <2>2 DEF Forget, Deleted, PipelinesIInv, RequestsAreAlone, IndexAgrees
  <2>3. CASE AdminFails(a)
    BY <2>3 DEF AdminFails, IndexAgrees
  <2> QED BY <2>1, <2>2, <2>3
<1> QED BY <1>1, <1>3, <1>4, <1>5, RequestMoves

LEMMA RuleChangesKeepInvariant ==
  ASSUME PipelinesIInv, NEW rule \in RuleIds, ChangeRules(rule), events' \in 0..MaxEvents
  PROVE  PipelinesIInv'
<1>1. UNCHANGED <<graph, index, admin, torn, store, run>> /\ rules' \subseteq RuleIds
  BY DEF ChangeRules, PipelinesIInv, Typed
<1>2. Typed'
  BY <1>1 DEF PipelinesIInv, Typed
<1>3. RequestsAreAlone' /\ IndexAgrees'
  BY <1>1 DEF PipelinesIInv, RequestsAreAlone, IndexAgrees, Busy
<1> QED BY <1>1, <1>2, <1>3, RequestMoves

LEMMA StepsKeepInvariant ==
  ASSUME PipelinesIInv, Steps, events' \in 0..MaxEvents
  PROVE  PipelinesIInv'
<1>1. ASSUME NEW m \in Messages, Going(m) PROVE PipelinesIInv'
  <2>1. CASE DeleteMessage(m) \/ InsertMessage(m)
    BY <2>1, DeletesKeepInvariant, InsertsKeepInvariant
  <2>2. ASSUME NEW b \in BOOLEAN, Land(m, b) \/ LoadManifest(m, b) \/ LoadRules(m, b)
        PROVE  PipelinesIInv'
    BY <2>2, LandingsKeepInvariant, ManifestsKeepInvariant, RulesKeepInvariant
  <2>3. ASSUME NEW s \in Ends, RunStage(m, s) PROVE PipelinesIInv'
    BY <2>3, StagesKeepInvariant
  <2> QED BY <1>1, <2>1, <2>2, <2>3 DEF Going, Ends
<1>2. ASSUME NEW a \in Admins,
             PutManifest(a) \/ Unlist(a) \/ List(a) \/ DropManifest(a) \/ Forget(a)
      PROVE  PipelinesIInv'
  BY <1>2, RequestsStep, RequestsEnd
<1> QED BY <1>1, <1>2 DEF Steps

LEMMA EventsKeepInvariant ==
  ASSUME PipelinesIInv, Events, events' \in 0..MaxEvents
  PROVE  PipelinesIInv'
<1>1. ASSUME NEW a \in Admins, DropPipeline(a) PROVE PipelinesIInv'
  BY <1>1, RequestsStart DEF DropPipeline
<1>2. ASSUME NEW a \in Admins, AdminFails(a) PROVE PipelinesIInv'
  BY <1>2, RequestsEnd
<1>3. ASSUME NEW a \in Admins, NEW m \in Manifests, RegisterPipeline(a, m) PROVE PipelinesIInv'
  BY <1>3, RequestsStart, PipelinesAssumption DEF RegisterPipeline
<1>4. ASSUME NEW m \in Messages, StoreFails(m) PROVE PipelinesIInv'
  BY <1>4, FailuresKeepInvariant
<1>5. ASSUME NEW m \in Messages,
             \/ StartScheduled(m)
             \/ \E w \in Persons \cup {Nobody}, b \in BOOLEAN : StartRun(m, w, b)
             \/ \E w \in Persons, b \in BOOLEAN : StartIngest(m, w, b)
      PROVE  PipelinesIInv'
  BY <1>5, StartsKeepInvariant
<1>6. CASE Restart
  BY <1>6, RestartsKeepInvariant
<1>7. ASSUME NEW r \in RuleIds, ChangeRules(r) PROVE PipelinesIInv'
  BY <1>7, RuleChangesKeepInvariant
<1> QED BY <1>1, <1>2, <1>3, <1>4, <1>5, <1>6, <1>7 DEF Events

\* The invariant holds in every reachable state, whatever runs and changes interleave.
THEOREM PipelinesInvariant == PipelinesSpec => []PipelinesIInv
<1>1. PipelinesInit => PipelinesIInv
  BY InvariantHoldsInitially
<1>2. PipelinesIInv /\ [PipelinesNext]_pipelinesVars => PipelinesIInv'
  <2> SUFFICES ASSUME PipelinesIInv, [PipelinesNext]_pipelinesVars PROVE PipelinesIInv'
    OBVIOUS
  <2>1. CASE Steps /\ UNCHANGED events
    BY <2>1, StepsKeepInvariant DEF PipelinesIInv, Typed
  <2>2. CASE events < MaxEvents /\ Events /\ events' = events + 1
    <3>1. events' \in 0..MaxEvents
      BY <2>2, PipelinesAssumption DEF PipelinesIInv, Typed
    <3> QED BY <2>2, <3>1, EventsKeepInvariant
  <2>3. CASE UNCHANGED pipelinesVars
    <3>1. Typed'
      BY <2>3 DEF pipelinesVars, PipelinesIInv, Typed
    <3>2. RequestsAreAlone' /\ IndexAgrees'
      BY <2>3 DEF pipelinesVars, PipelinesIInv, RequestsAreAlone, IndexAgrees, Busy
    <3> QED BY <2>3, <3>1, <3>2, RequestMoves DEF pipelinesVars
  <2> QED BY <2>1, <2>2, <2>3 DEF PipelinesNext
<1> QED BY <1>1, <1>2, PTL DEF PipelinesSpec

\* Every variable keeps to its type, and every stage of every message to one
\* of the ends a stage can have.
THEOREM PipelinesAreTyped == PipelinesSpec => []PipelinesTypeOK
<1>1. PipelinesIInv => PipelinesTypeOK
  <2> SUFFICES ASSUME PipelinesIInv PROVE PipelinesTypeOK
    OBVIOUS
  <2>1. ASSUME NEW m \in Messages, NEW i \in DOMAIN run[m].msg.stages
        PROVE  run[m].msg.stages[i].status \in {"Skipped", "Deferred", "Completed", "Failed"}
    <3>1. run[m].msg.stages \in Seq(Records)
      BY DEF PipelinesIInv, Typed, Runs, MessagesHeld
    <3>2. run[m].msg.stages[i] \in Records
      BY <3>1, ElementOfSeq, LenProperties
    <3> QED BY <3>2 DEF Records, Ends
  <2>2. ASSUME NEW a \in Admins
        PROVE  /\ admin[a].pc \in {"idle", "put", "unlist", "list", "drop", "forget"}
               /\ admin[a].man \in Manifests \cup {Absent} /\ admin[a].alone \in BOOLEAN
    BY DEF PipelinesIInv, Typed, AdminRequests
  <2>3. ASSUME NEW m \in Messages
        PROVE  /\ store[m].status \in Statuses /\ run[m].msg.status \in Statuses
               /\ run[m].pc \in Places /\ run[m].man \in Manifests \cup {Absent}
               /\ run[m].known \subseteq RuleIds /\ run[m].who \in Persons \cup {Nobody}
    BY DEF PipelinesIInv, Typed, Runs, MessagesHeld
  <2>4. /\ graph \in Manifests \cup {Absent} /\ index \in BOOLEAN /\ rules \subseteq RuleIds
        /\ torn \in BOOLEAN /\ events \in 0..MaxEvents
    BY DEF PipelinesIInv, Typed
  <2> QED BY <2>1, <2>2, <2>3, <2>4 DEF PipelinesTypeOK
<1> QED BY <1>1, PipelinesInvariant, PTL

\* The index lists the pipeline exactly when there is a manifest, unless a
\* registration or a removal was cut short or two overlapped.
THEOREM TheIndexAgrees == PipelinesSpec => []IndexAgrees
<1>1. PipelinesIInv => IndexAgrees
  BY DEF PipelinesIInv
<1> QED BY <1>1, PipelinesInvariant, PTL

\* A run takes its stages in an order in which each comes after everything it
\* depends on, and a prompt is given only what its own dependencies read.
LEMMA RunsTakeStagesInOrder == PipelinesIInv => StagesInOrder
<1> SUFFICES ASSUME PipelinesIInv, NEW m \in Messages, run[m].man # Absent,
                    NEW i \in DOMAIN run[m].msg.stages, run[m].msg.stages[i].stage # "ingest"
             PROVE  LET done == run[m].msg.stages  s == done[i].stage
                        before == {done[j].stage : j \in 1..i-1} IN
                    /\ s \notin before
                    /\ Deps[run[m].man][s] \cap Stages(run[m].man) \subseteq before
                    /\ done[i].context \subseteq Deps[run[m].man][s] \cap before
  BY DEF StagesInOrder
<1> DEFINE man == run[m].man
           done == run[m].msg.stages
           n == Len(done)
           o == Landing(run[m])
           q == Order[man]
           before == {done[j].stage : j \in 1..i-1}
<1>1. man \in Manifests /\ done \in Seq(Records) /\ o \in {0, 1} /\ InOrder(man, o, done)
  BY RunFacts DEF Runs, MessagesHeld, Landing, InLine
<1>2. n \in Nat /\ i \in 1..n
  BY <1>1, LenProperties
<1>3. Sorted(man, q) /\ q \in Seq(Stages(man)) /\ Len(q) \in Nat
  BY <1>1, OrderIsTopological, LenProperties DEF Sorted
<1>4. /\ o <= n /\ n - o <= Len(q) /\ (o = 1 => done[1].stage = "ingest")
      /\ \A k \in 1..n : k > o =>
           /\ done[k].stage = q[k-o]
           /\ done[k].context \subseteq Deps[man][q[k-o]] \cap {done[j].stage : j \in 1..k-1}
  BY <1>1 DEF InOrder
<1>5. i > o
  BY <1>1, <1>2, <1>4
<1> HIDE DEF man, done, n, o, q
<1>6. i - o \in 1..Len(q) /\ done[i].stage = q[i-o]
  BY <1>1, <1>2, <1>3, <1>4, <1>5
<1>7. /\ q[i-o] \notin {q[j] : j \in 1..(i-o)-1}
      /\ Deps[man][q[i-o]] \cap Stages(man) \subseteq {q[j] : j \in 1..(i-o)-1}
  BY <1>3, <1>6 DEF Sorted
<1>8. {q[j] : j \in 1..(i-o)-1} \subseteq before
  <2>1. ASSUME NEW j \in 1..(i-o)-1 PROVE q[j] \in before
    <3>1. j + o \in 1..i-1 /\ j + o \in 1..n /\ j + o > o /\ (j + o) - o = j
      BY <1>1, <1>2, <1>5
    <3>2. done[j+o].stage = q[j]
      BY <1>4, <3>1
    <3> QED BY <3>1, <3>2
  <2> QED BY <2>1
<1>9. before \subseteq {q[j] : j \in 1..(i-o)-1} \cup {"ingest"}
  <2>1. ASSUME NEW j \in 1..i-1 PROVE done[j].stage \in {q[k] : k \in 1..(i-o)-1} \cup {"ingest"}
    <3>1. CASE j > o
      <4>1. j \in 1..n /\ j - o \in 1..(i-o)-1
        BY <1>1, <1>2, <3>1
      <4> QED BY <1>4, <3>1, <4>1
    <3>2. CASE ~(j > o)
      <4>1. o = 1 /\ j = 1
        BY <1>1, <1>2, <3>2
      <4> QED BY <1>4, <4>1
    <3> QED BY <3>1, <3>2
  <2> QED BY <2>1
<1>10. q[i-o] # "ingest"
  BY <1>1, <1>3, <1>6, ElementOfSeq, PipelinesAssumption
<1>11. /\ q[i-o] \notin before
       /\ Deps[man][q[i-o]] \cap Stages(man) \subseteq before
       /\ done[i].context \subseteq Deps[man][q[i-o]] \cap before
  BY <1>2, <1>4, <1>5, <1>7, <1>8, <1>9, <1>10
<1> QED BY <1>6, <1>11 DEF man, done

\* A message tells how its run is doing: it is there from its first save on,
\* it tells the outcome when the run is over, unless a restart or an error that
\* ingest does not handle left it at "Running" (routes/pipeline.py:704-721), and
\* "Completed" means that every stage was taken and none failed.
THEOREM MessagesTell == PipelinesSpec => []MessageTells
<1>1. PipelinesIInv => MessageTells
  <2> SUFFICES ASSUME PipelinesIInv, NEW m \in Messages
               PROVE  /\ (run[m].saved /\ store[m] = NoMessage) =>
                           (run[m].pc = "insert" \/ run[m].hit)
                      /\ (run[m].pc = "over" /\ ~run[m].hit /\ run[m].kept) =>
                           IF run[m].escaped
                           THEN /\ run[m].ingest /\ run[m].man = Absent
                                /\ store[m].status = "Running"
                           ELSE store[m].status \in {"Completed", "Failed"}
                      /\ store[m].status = "Completed" =>
                           /\ \A i \in DOMAIN store[m].stages : store[m].stages[i].status # "Failed"
                           /\ run[m].man # Absent =>
                                {store[m].stages[i].stage : i \in DOMAIN store[m].stages} \ {"ingest"}
                                  = Stages(run[m].man)
    BY RunsTakeStagesInOrder DEF MessageTells
  <2>1. Told(run[m], store[m]) /\ InLine(run[m]) /\ Wholly(run[m]) /\ run[m] \in Runs
    BY RunFacts
  <2>2. ASSUME store[m].status = "Completed", run[m].man # Absent
        PROVE  {store[m].stages[i].stage : i \in DOMAIN store[m].stages} \ {"ingest"}
                 = Stages(run[m].man)
    <3> DEFINE man == run[m].man
               done == store[m].stages
               n == Len(done)
               o == Landing(run[m])
               q == Order[man]
    <3>1. /\ store[m] = run[m].msg /\ man \in Manifests /\ done \in Seq(Records) /\ o \in {0, 1}
          /\ InOrder(man, o, done) /\ Runnable(man) /\ n = o + Len(q)
      BY <2>1, <2>2 DEF Told, InLine, Wholly, Runs, MessagesHeld, Landing
    <3>2. /\ q \in Seq(Stages(man)) /\ Len(q) \in Nat /\ Names(q) = Stages(man)
          /\ n \in Nat /\ DOMAIN done = 1..n /\ DOMAIN q = 1..Len(q)
      BY <3>1, OrderIsTopological, LenProperties DEF Sorted
    <3>3. /\ o = 1 => done[1].stage = "ingest"
          /\ \A i \in 1..n : i > o => done[i].stage = q[i-o]
      BY <3>1 DEF InOrder
    <3>4. "ingest" \notin Stages(man)
      BY <3>1, PipelinesAssumption
    <3>5. Names(q) = {q[i] : i \in 1..Len(q)}
      BY <3>2 DEF Names
    <3> HIDE DEF man, done, n, o, q
    <3>6. ASSUME NEW i \in 1..n PROVE done[i].stage \in Stages(man) \cup {"ingest"}
      <4>1. CASE i > o
        <5>1. i - o \in 1..Len(q)
          BY <3>1, <3>2, <4>1
        <5> QED BY <3>2, <3>3, <3>5, <4>1, <5>1
      <4>2. CASE ~(i > o)
        <5>1. o = 1 /\ i = 1
          BY <3>1, <3>2, <4>2
        <5> QED BY <3>3, <5>1
      <4> QED BY <4>1, <4>2
    <3>7. ASSUME NEW s \in Stages(man) PROVE \E i \in 1..n : done[i].stage = s
      <4>1. PICK j \in 1..Len(q) : q[j] = s
        BY <3>2, <3>5
      <4>2. j + o \in 1..n /\ j + o > o /\ (j + o) - o = j
        BY <3>1, <3>2
      <4> QED BY <3>3, <4>1, <4>2
    <3>8. {done[i].stage : i \in 1..n} \ {"ingest"} = Stages(man)
      BY <3>4, <3>6, <3>7
    <3> QED BY <3>2, <3>8 DEF man, done
  <2>3. store[m].status = "Completed" =>
          \A i \in DOMAIN store[m].stages : store[m].stages[i].status # "Failed"
    BY <2>1 DEF Told, Wholly, Failing
  <2> QED BY <2>1, <2>2, <2>3 DEF Told, Final
<1> QED BY <1>1, PipelinesInvariant, PTL
=============================================================================
