------------------------------ MODULE MCAccess ------------------------------
(* Three persons and two requests at a time, on a dataset with two owners, *)
(* one with two admins and no owner yet, or one nobody has claimed.        *)
EXTENDS Access, TLC

CONSTANTS p1, p2, p3, r1, r2

People == {p1, p2, p3}
Slots  == {r1, r2}

Ask(op, who, whom, to, what) ==
  [op |-> op, who |-> who, whom |-> whom, to |-> to, what |-> what]

Pairs == {s \in People \X People : s[1] # s[2]}

Considered ==
  {Ask("grant", q[1], q[2], q[2], x) : q \in Pairs, x \in Ruling}
  \cup {Ask("revoke", q[1], q[2], q[2], x) : q \in People \X People, x \in Ruling}
  \cup {Ask("revoke", q[1], q[2], q[2], "write") : q \in Pairs}
  \cup {Ask(op, q[1], q[2], q[2], "none") : op \in {"deactivate", "reactivate", "actAs"}, q \in Pairs}
  \cup {Ask(op, q[1], q[1], q[2], "none") : op \in {"delegate", "undelegate"}, q \in Pairs}
  \cup {Ask("put", q[1], q[2], q[2], "write") : q \in People \X People}
  \cup {Ask("create", q[1], q[2], q[2], "none") : q \in Pairs}
  \cup {Ask(op, p, p, p, "none") : op \in {"claim", "cease", "assign"}, p \in People}

Founded ==
  {[p \in People |-> IF p = q THEN {"write"} ELSE {x}] :
     q \in People, x \in Ruling}
  \cup {[p \in People |-> {}]}

Symmetry == {p @@ s : p \in Permutations(People), s \in Permutations(Slots)}
=============================================================================
