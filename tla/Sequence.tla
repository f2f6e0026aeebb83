------------------------------ MODULE Sequence ------------------------------
(***************************************************************************)
(* Sequence minting (holonbridge/sequence.py).  One named counter in the   *)
(* sequences graph and any number of concurrent mint calls on it.  Every   *)
(* request to the store is one step: the store runs each SPARQL UPDATE as  *)
(* a transaction of its own, and other calls run between two requests.     *)
(***************************************************************************)
EXTENDS Naturals

CONSTANTS
  Minters,     \* the calls of mint() made on this counter
  Attempts     \* its parameter `attempts`

ASSUME AttemptsAssumption == Attempts \in Nat \ {0}

VARIABLES
  value,       \* seq:value, 0 while the counter has none
  token,       \* seq:mintToken beside it
  records,     \* the numbers that have a MintedIdentifier record
  pc,          \* where each call is
  current,     \* what its last _read answered
  attempt      \* attempts it has lost

vars == <<value, token, records, pc, current, attempt>>

NoToken == <<>>

\* A uuid drawn at every pass of the loop: no two attempts share one.
TokenOf(m) == <<m, attempt[m]>>

Nxt(m) == current[m] + 1

InLoop   == {"read", "update", "confirm", "record"}
Finished == {"done", "exhausted", "aborted"}
PCs      == {"idle", "afloat"} \cup InLoop \cup Finished

TypeOK ==
  /\ value \in Nat
  /\ token \in {NoToken} \cup (Minters \X Nat)
  /\ records \in SUBSET Nat
  /\ pc \in [Minters -> PCs]
  /\ current \in [Minters -> Nat]
  /\ attempt \in [Minters -> 0..Attempts]

Init ==
  /\ value = 0
  /\ token = NoToken
  /\ records = {}
  /\ pc = [m \in Minters |-> "idle"]
  /\ current = [m \in Minters |-> 0]
  /\ attempt = [m \in Minters |-> 0]

-----------------------------------------------------------------------------
(***************************************************************************)
(* Faulty variants: each names a bug this code could have had, the first   *)
(* one a bug it did have.  No action uses them.                            *)
(***************************************************************************)
\* The read-back before 2026-09-15 compared the value and not the token.
ConfirmsByValueOnly(m) == value = Nxt(m)
\* The number is answered before, and here without, its record.
AnswerWithoutRecord(m) ==
  /\ pc[m] = "record"
  /\ pc' = [pc EXCEPT ![m] = "done"]
  /\ UNCHANGED <<value, token, records, current, attempt>>
\* One attempt too many.
RetryOnceMore(m) ==
  /\ pc[m] = "confirm"
  /\ ~(value = Nxt(m) /\ token = TokenOf(m))
  /\ attempt' = [attempt EXCEPT ![m] = @ + 1]
  /\ pc' = [pc EXCEPT ![m] = IF attempt[m] <= Attempts THEN "read" ELSE "exhausted"]
  /\ UNCHANGED <<value, token, records, current>>

-----------------------------------------------------------------------------
Goto(m, label) == pc' = [pc EXCEPT ![m] = label]

Start(m) ==
  /\ pc[m] = "idle"
  /\ Goto(m, "read")
  /\ UNCHANGED <<value, token, records, current, attempt>>

\* _read: an unbound counter reads as 0.
Read(m) ==
  /\ pc[m] = "read"
  /\ current' = [current EXCEPT ![m] = value]
  /\ Goto(m, "update")
  /\ UNCHANGED <<value, token, records, attempt>>

\* FILTER ( !BOUND(?old) || ?old = current )
GuardHolds(m) == value = 0 \/ value = current[m]

\* The guarded DELETE/INSERT, a no-op when its FILTER rejects the counter.
ApplyUpdate(m) ==
  IF GuardHolds(m)
  THEN value' = Nxt(m) /\ token' = TokenOf(m)
  ELSE UNCHANGED <<value, token>>

Update(m) ==
  /\ pc[m] = "update"
  /\ ApplyUpdate(m)
  /\ Goto(m, "confirm")
  /\ UNCHANGED <<records, current, attempt>>

IsMine(m) == value = Nxt(m) /\ token = TokenOf(m)

\* _read_confirmation shows this attempt's own value and token.
Confirm(m) ==
  /\ pc[m] = "confirm"
  /\ IsMine(m)
  /\ Goto(m, "record")
  /\ UNCHANGED <<value, token, records, current, attempt>>

\* It shows somebody else's: go round again, or raise SequenceError.
Retry(m) ==
  /\ pc[m] = "confirm"
  /\ ~IsMine(m)
  /\ attempt' = [attempt EXCEPT ![m] = @ + 1]
  /\ Goto(m, IF attempt[m] + 1 < Attempts THEN "read" ELSE "exhausted")
  /\ UNCHANGED <<value, token, records, current>>

\* The MintedIdentifier record, then the answer.
Record(m) ==
  /\ pc[m] = "record"
  /\ records' = records \cup {Nxt(m)}
  /\ Goto(m, "done")
  /\ UNCHANGED <<value, token, current, attempt>>

-----------------------------------------------------------------------------
(***************************************************************************)
(* FusekiClient never retries: a refused or timed-out request, or the end  *)
(* of the process, ends the call wherever it is.  A timed-out UPDATE may   *)
(* still be queued in the store and run later.                             *)
(***************************************************************************)
Abort(m) ==
  /\ pc[m] \in InLoop
  /\ Goto(m, "aborted")
  /\ UNCHANGED <<value, token, records, current, attempt>>

TimeOut(m) ==
  /\ pc[m] = "update"
  /\ Goto(m, "afloat")
  /\ UNCHANGED <<value, token, records, current, attempt>>

LateUpdate(m) ==
  /\ pc[m] = "afloat"
  /\ ApplyUpdate(m)
  /\ Goto(m, "aborted")
  /\ UNCHANGED <<records, current, attempt>>

Mint(m) == Start(m) \/ Read(m) \/ Update(m) \/ Confirm(m) \/ Retry(m) \/ Record(m)

Fail(m) == Abort(m) \/ TimeOut(m) \/ LateUpdate(m)

Next == \E m \in Minters : Mint(m) \/ Fail(m)

Spec == Init /\ [][Next]_vars

-----------------------------------------------------------------------------
\* The number a call owns: it saw its own token beside it.
Owns(m) == pc[m] \in {"record", "done"}

\* Two calls never own the same number, however their reads, updates and
\* read-backs interleave (the duplicate identifier fixed on 2026-09-15).
UniqueIds ==
  \A m, n \in Minters : Owns(m) /\ Owns(n) /\ m # n => Nxt(m) # Nxt(n)

\* Every number a caller was answered with has its provenance record, and a
\* number with a record was really taken from the counter: gap detection reads
\* the records, not the counter.
RecordsAccountForAnswers ==
  /\ \A m \in Minters : pc[m] = "done" => Nxt(m) \in records
  /\ \A n \in records : n \in 1..value

\* What a mint leaves behind: numbers nobody shares, and records to find the gaps
\* by, also where a call fails between its update and its record.
NumbersAreSound == UniqueIds /\ RecordsAccountForAnswers

\* SequenceError is raised only under real contention: whenever a call loses an
\* attempt, the counter shows the token of another call, which advanced it after
\* that attempt's read.  A call never takes its own update for somebody else's.
ContentionIsReal ==
  [][\A m \in Minters : attempt'[m] # attempt[m] =>
        value > current[m] /\ token \in (Minters \ {m}) \X Nat]_vars

\* The counter is never written back: it grows by one or stays, also when an
\* update that timed out lands after later mints.
CounterNeverGoesBack == [][value' \in {value, value + 1}]_vars

\* Minting implements the source of distinct numbers its callers rely on.
Given == [m \in Minters |-> IF pc[m] = "done" THEN Nxt(m) ELSE 0]
IDS == INSTANCE IdSource WITH given <- Given
IssuesDistinctIds == IDS!Spec
=============================================================================
