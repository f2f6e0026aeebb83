---------------------------- MODULE MCConnector ----------------------------
(***************************************************************************)
(* Two clients, two logins and the shared token; one name to choose.  The  *)
(* bank is pinned, the dataset is not.                                     *)
(***************************************************************************)
EXTENDS Connector, TLC

CONSTANTS c1, c2, a, b

TwoClients == {c1, c2}
TwoLogins  == {a, b}
BothKinds  == {"dataset", "bank"}
OneName    == {"n1"}
PinnedBank == [k \in BothKinds |-> IF k = "bank" THEN "n1" ELSE None]
Symmetric  == Permutations(TwoClients) \cup Permutations(TwoLogins)
=============================================================================
