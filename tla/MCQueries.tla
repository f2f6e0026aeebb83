----------------------------- MODULE MCQueries -----------------------------
(* Two requests at a time by two persons, one query registered in either   *)
(* vocabulary, and queries over every kind of graph.                       *)
EXTENDS Queries, TLC

CONSTANTS t1, t2, v1, v2, l1, l2

TwoTasks    == {t1, t2}
TwoPersons  == {"p", "q"}
OneId       == {"i"}
TwoVersions == {v1, v2}
TheNames    == {{"ground", "p", "public"}, {"ground"}}
ThePlaces   == "audit" :> 1 @@ "ground" :> 2 @@ "p" :> 3 @@ "public" :> 4 @@ "q" :> 5

TwoLoans    == {l1, l2}
FromP       == [l \in TwoLoans |-> "p"]
ToQ         == [l \in TwoLoans |-> "q"]
TheFields   == {"p"}

TheFacts == {<<"admin", "p">>, <<"granted", "p">>, <<"denied", "p">>, <<"inactive", "p">>}
            \cup {<<"revoked", l1>>, <<"current", l2>>}
            \cup {<<"restricted", <<"i", "hb">>>>, <<"inset", <<"i", "hb">>>>}
AtFirst  == {<<"granted", "p">>, <<"home", "p">>, <<"person", "p">>}
            \cup {<<"current", l1>>, <<"covers", l1>>, <<"covers", l2>>}
            \cup {<<"restricted", <<"i", "hb">>>>, <<"inset", <<"i", "hb">>>>}

Alike == {s @@ v : s \in Permutations(TwoTasks), v \in Permutations(TwoVersions)}
=============================================================================
