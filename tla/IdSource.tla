------------------------------ MODULE IdSource ------------------------------
(***************************************************************************)
(* What POST /sequence/mint promises its callers: every call that is       *)
(* answered is answered with a positive number nobody else was given.      *)
(* Nothing is promised about gaps, about order, or about calls that fail.  *)
(***************************************************************************)
EXTENDS Naturals

CONSTANT Minters        \* the mint calls

VARIABLE given          \* given[m]: the number m was answered with, 0 while none

Unanswered == 0

Init == given = [m \in Minters |-> Unanswered]

\* A call is answered once, with a number no other call was answered with.
Issue(m) ==
  /\ given[m] = Unanswered
  /\ given'[m] \in Nat \ {Unanswered}
  /\ \A k \in Minters : given[k] # given'[m]
  /\ given' = [given EXCEPT ![m] = given'[m]]

Next == \E m \in Minters : Issue(m)

Spec == Init /\ [][Next]_given
=============================================================================
