---- MODULE MCProjection ----
(* One hook over two triples; each run of TLC chooses what may go wrong. *)
EXTENDS Projection, TLC
CONSTANTS t1, t2, r1, r2

\* A webhook of each kind of change; the modes of a pull hook differ only in
\* what its run counts, as collecting computes both parts for all of them.
Hook(mode, way) == [mode |-> mode, way |-> way]
AllHooks == {Hook("append", "webhook"), Hook("upsert", "webhook"),
             Hook("replace", "webhook"), Hook("upsert", "pull")}
TwoTriples == {t1, t2}
TwoRequests == {r1, r2}
Symmetry == Permutations(TwoTriples) \cup Permutations(TwoRequests)
====
