------------------------------- MODULE Access -------------------------------
(***************************************************************************)
(* Who may do what on one dataset: roles and write grants (acl.py,         *)
(* routes/identity_admin.py), delegations (delegation.py), impersonation   *)
(* (acting_as.py, deps.py), and how the first owner is made (claim.py,     *)
(* bootstrap.py).                                                          *)
(*                                                                         *)
(* All of it is triples in the holons graph.  A request asks the store one *)
(* question at a time and then sends one update; nothing is locked         *)
(* meanwhile, so each question and each update is a step of its own.       *)
(* Every person has one private graph; "write" and "replace" are the       *)
(* grants on one's own graph, and a delegation lends the first of them.    *)
(***************************************************************************)
EXTENDS Integers, Sequences

CONSTANTS
  Persons,
  Requests,    \* the slots for requests in progress
  Asks,        \* the requests considered
  Foundings,   \* the rights there may be at the start
  Claimants,   \* DATASET_CLAIMANTS
  MaxEvents    \* bound on requests, bootstrap runs and clock ticks

Ruling == {"owner", "admin"}
Rights == Ruling \cup {"write", "replace"}
Ops == {"create", "grant", "revoke", "deactivate", "reactivate", "assign", "actAs",
        "cease", "delegate", "undelegate", "put", "claim"}
Nobody == "nobody"
AnyAsk == [op : Ops, who : Persons, whom : Persons, to : Persons,
           what : Rights \cup {"none"}]

ASSUME AccessAssumption ==
  /\ Nobody \notin Persons
  /\ Asks \subseteq AnyAsk
  /\ \A a \in Asks : a.op = "delegate" => a.whom # a.to     \* validate_request
  /\ Foundings \subseteq [Persons -> SUBSET Rights]
  /\ Claimants \subseteq Persons
  /\ MaxEvents \in Nat

VARIABLES
  known,     \* the persons the dataset has
  inactive,  \* those with holon:status "inactive"
  rights,    \* their roles and grants
  homes,     \* those with a Home under the persona
  dels,      \* the delegation of one's graph to another
  acting,    \* ActingAsStore
  task,      \* what each request has still to ask, and what it knows
  events

store == <<known, inactive, rights, homes, dels>>
vars  == <<store, acting, task, events>>

NoAsk  == [op |-> "none", who |-> Nobody, whom |-> Nobody, to |-> Nobody, what |-> "none"]
Idle   == [ask |-> NoAsk, todo |-> <<>>, as |-> Nobody, read |-> {}, ever |-> <<>>,
           unowned |-> FALSE, fresh |-> {}, lent |-> FALSE, raced |-> FALSE]

States    == {"none", "live", "lapsed", "revoked"}
Questions == {"override", "admin", "adminOnBehalf", "party", "owner",
              "unowned", "holds", "otherOwner", "otherAdmin", "capacity", "roles",
              "grants", "active", "delegateActive", "home", "isAdmin", "granted", "lent",
              "unrevoked", "lenderActive", "unclaimed", "commit"}

TypeOK ==
  /\ known \subseteq Persons /\ inactive \subseteq known /\ homes \subseteq Persons
  /\ rights \in [Persons -> SUBSET Rights]
  /\ dels \in [Persons \X Persons -> States]
  /\ acting \in [Persons -> Persons \cup {Nobody}]
  /\ events \in 0..MaxEvents
  /\ \A r \in Requests : task[r] # Idle =>
       /\ task[r].ask \in AnyAsk /\ task[r].as \in Persons
       /\ task[r].todo \in Seq(Questions) /\ task[r].todo # <<>>
       /\ task[r].read \subseteq Rights /\ task[r].fresh \subseteq Rights
       /\ \A p \in DOMAIN task[r].ever : task[r].ever[p] \subseteq Rights

Holders(R) == {p \in Persons : rights[p] \cap R # {}}

Init ==
  /\ rights \in Foundings
  /\ known = Holders(Rights) /\ homes = known /\ inactive = {}
  /\ dels = [d \in Persons \X Persons |-> "none"]
  /\ acting = [p \in Persons |-> Nobody]
  /\ task = [r \in Requests |-> Idle] /\ events = 0

-----------------------------------------------------------------------------
(* The questions each request asks, in order.  A person once known stays   *)
(* known, so _require_person_exists is asked with what follows it.         *)

OwnerFor(R) == IF R \cap Ruling = {} THEN <<>> ELSE <<"owner">>

(* Mutant: nobody asks whether an owner, or an admin, would be left.       *)
Careless(R, gone) == <<>>

(* What must be left once the rights R are taken: another owner, and       *)
(* somebody to act as an admin.                                            *)
Left(R, gone) ==
  (IF "owner" \in R THEN <<"otherOwner">> ELSE <<>>)
    \o (IF R \cap Ruling # {} THEN <<gone>> ELSE <<>>)

(* check_write and check_replace.  A delegation is not asked for replace,  *)
(* nor for a graph of one's own.                                           *)
MayWrite == <<"isAdmin", "granted">>

Plan(a) ==
  CASE a.op = "create"     -> <<"admin">> \o OwnerFor({a.what}) \o <<"commit">>
    [] a.op = "grant"      -> <<"admin">> \o OwnerFor({a.what})
                                \o <<"commit">>
    [] a.op = "revoke"     -> <<"admin">> \o OwnerFor({a.what})
                                \o <<"holds">> \o Left({a.what}, "capacity")
                                \o <<"commit">>
    [] a.op = "deactivate" -> <<"admin", "roles">>
    [] a.op = "actAs"      -> <<"admin", "active", "commit">>
    [] a.op \in {"reactivate", "cease", "assign"} -> <<"admin", "commit">>
    [] a.op = "delegate"   -> <<"adminOnBehalf", "delegateActive", "home">>
                                \o MayWrite \o <<"commit">>
    [] a.op = "undelegate" -> <<"party", "commit">>
    [] a.op = "put"        -> MayWrite \o <<"commit">>
    [] a.op = "claim"      -> <<"unclaimed", "commit">>

Judged == {"create", "grant", "revoke", "deactivate", "put"}

Active(p) == p \in known \ inactive

(* An identity that is established, and that the operator has listed.      *)
MayClaim(p) == p \in Claimants

(* require_animus resolves the real caller first, who must be active, and  *)
(* then looks up an override.  What a request has lived through is kept    *)
(* for the properties only: ever, unowned, fresh, lent and raced.          *)
Start(r, a) ==
  LET as == IF a.op = "claim" \/ acting[a.who] = Nobody THEN a.who ELSE acting[a.who] IN
  /\ task[r] = Idle
  /\ IF a.op = "claim" THEN MayClaim(a.who) ELSE Active(a.who)
  /\ task' = [task EXCEPT ![r] =
       [Idle EXCEPT !.ask = a, !.as = as,
                    !.ever = [p \in IF a.op \in Judged THEN {a.who, as} ELSE {} |-> rights[p]],
                    !.todo = (IF as # a.who THEN <<"override">> ELSE <<>>) \o Plan(a),
                    !.unowned = (a.op \in Judged /\ Holders({"owner"}) = {}),
                    !.lent = (a.op = "put" /\ dels[<<a.whom, as>>] \in {"live", "lapsed"})]]
  /\ UNCHANGED <<store, acting>>

-----------------------------------------------------------------------------
(* Asking.                                                                 *)

IsAdmin(p) == rights[p] \cap Ruling # {}
IsOwner(p) == "owner" \in rights[p]

(* Mutant: whose graph it is counts, and not who writes it.                *)
OfTheGraph(t) == t.ask.whom

(* Whose own right check_write looks for.                                  *)
Subject(t) == IF t.ask.op = "delegate" THEN t.ask.whom ELSE t.as
Needed(t)  == IF t.ask.op = "delegate" THEN "write" ELSE t.ask.what
Touched(t) == (IF t.ask.op = "deactivate" THEN t.read ELSE {t.ask.what}) \cap Ruling

Unrevoked(t) == dels[<<t.ask.whom, t.as>>] # "revoked"

Answer(q, t) ==
  LET a == t.ask IN
  \/ q = "admin"          /\ IsAdmin(a.who)
  \/ q = "adminOnBehalf"  /\ (a.whom = t.as \/ IsAdmin(a.who))
  \/ q = "party"          /\ dels[<<a.whom, a.to>>] # "none"
                          /\ (t.as \in {a.whom, a.to} \/ IsAdmin(a.who))
  \/ q = "unowned"        /\ Holders({"owner"}) = {}
  \/ q = "holds"          /\ a.what \in rights[a.whom]
  \/ q = "otherOwner"     /\ Holders({"owner"}) \ {a.whom} # {}
  \/ q = "otherAdmin"     /\ Holders(Ruling) \ {a.whom} # {}
  \/ q = "capacity"       /\ (Holders(Ruling) \ {a.whom} # {}
                              \/ (rights[a.whom] \cap Ruling) \ {a.what} # {})
  \/ q = "active"         /\ Active(a.whom)
  \/ q = "delegateActive" /\ Active(a.to)
  \/ q = "home"           /\ a.whom \in homes
  \/ q = "lent"           /\ dels[<<a.whom, t.as>>] \notin {"none", "lapsed"}
  \/ q = "unrevoked"      /\ Unrevoked(t)
  \/ q = "lenderActive"   /\ Active(a.whom)
  \/ q = "unclaimed"      /\ Holders(Ruling) = {}

Go(r, todo) == task' = [task EXCEPT ![r].todo = todo]
Refuse(r)   == task' = [task EXCEPT ![r] = Idle]

(* A question that lets the request go on, or refuses it.                  *)
Check(r) ==
  LET t == task[r]  q == Head(t.todo) IN
  /\ t.todo # <<>>
  /\ q \notin {"commit", "override", "owner", "roles", "grants", "isAdmin", "granted"}
  /\ IF Answer(q, t) THEN Go(r, Tail(t.todo)) ELSE Refuse(r)
  /\ UNCHANGED <<store, acting>>

(* An override is honoured only while the real caller is an admin; else it *)
(* is dropped.                                                             *)
Override(r) ==
  LET t == task[r] IN
  /\ t.todo # <<>> /\ Head(t.todo) = "override"
  /\ IF IsAdmin(t.ask.who)
       THEN Go(r, Tail(t.todo)) /\ UNCHANGED acting
       ELSE /\ task' = [task EXCEPT ![r].todo = Tail(t.todo), ![r].as = t.ask.who,
                          ![r].lent = (/\ t.ask.op = "put"
                                       /\ dels[<<t.ask.whom, t.ask.who>>] \in {"live", "lapsed"})]
            /\ acting' = [acting EXCEPT ![t.ask.who] = Nobody]
  /\ UNCHANGED store

(* Mutant: an admin may do what an owner may.                              *)
Flat(t) == TRUE

MaySkip(t) == IsOwner(t.ask.who)

(* _require_owner_for: an owner may; for admin alone, so may an admin of a *)
(* dataset that turns out to have no owner.                                *)
OwnerCheck(r) ==
  LET t == task[r] IN
  /\ t.todo # <<>> /\ Head(t.todo) = "owner"
  /\ \/ MaySkip(t) /\ Go(r, Tail(t.todo))
     \/ ~MaySkip(t) /\ "owner" \notin Touched(t) /\ Go(r, <<"unowned">> \o Tail(t.todo))
     \/ ~MaySkip(t) /\ "owner" \in Touched(t) /\ Refuse(r)
  /\ UNCHANGED <<store, acting>>

(* deactivate_person reads the roles, asks what they call for, then reads  *)
(* the grants: it will take exactly what it has read.                      *)
ReadRoles(r) ==
  LET t == task[r]  R == rights[t.ask.whom] \cap Ruling IN
  /\ t.todo # <<>> /\ Head(t.todo) = "roles"
  /\ IF t.ask.whom \in known \ {t.ask.who}
       THEN task' = [task EXCEPT ![r].read = R,
              ![r].todo = OwnerFor(R) \o Left(R, "otherAdmin") \o <<"grants", "commit">>]
       ELSE Refuse(r)
  /\ UNCHANGED <<store, acting>>

(* Mutant: only the roles are taken.                                       *)
Forgotten(t) == {}

Grants(t) == rights[t.ask.whom] \ Ruling

ReadGrants(r) ==
  LET t == task[r] IN
  /\ t.todo # <<>> /\ Head(t.todo) = "grants"
  /\ task' = [task EXCEPT ![r].read = @ \cup Grants(t), ![r].todo = Tail(@)]
  /\ UNCHANGED <<store, acting>>

(* check_write, check_replace: the admin bypass, then a grant, then what   *)
(* somebody has lent.                                                      *)
AskAdmin(r) ==
  LET t == task[r] IN
  /\ t.todo # <<>> /\ Head(t.todo) = "isAdmin"
  /\ Go(r, IF IsAdmin(Subject(t)) THEN <<"commit">> ELSE Tail(t.todo))
  /\ UNCHANGED <<store, acting>>

AskGranted(r) ==
  LET t == task[r] IN
  /\ t.todo # <<>> /\ Head(t.todo) = "granted"
  /\ \/ /\ Subject(t) = t.ask.whom /\ Needed(t) \in rights[Subject(t)]
        /\ Go(r, <<"commit">>)
     \/ /\ Subject(t) # t.ask.whom /\ Needed(t) = "write"
        /\ Go(r, <<"lent", "unrevoked", "lenderActive", "commit">>)
     \/ /\ IF Subject(t) = t.ask.whom THEN Needed(t) \notin rights[Subject(t)]
                                      ELSE Needed(t) # "write"
        /\ Refuse(r)
  /\ UNCHANGED <<store, acting>>

-----------------------------------------------------------------------------
(* Writing: one update, after which the request is over and every other    *)
(* request has lived through a change.                                     *)

Witness(r) ==
  task' = [q \in Requests |->
    IF q = r \/ task[q] = Idle THEN Idle
    ELSE [task[q] EXCEPT
      !.ever = [p \in DOMAIN @ |-> @[p] \cup rights'[p]],
      !.unowned = @ \/ (task[q].ask.op \in Judged /\ \A p \in Persons : "owner" \notin rights'[p]),
      !.fresh = @ \cup (IF task[q].ask.op = "deactivate"
                          THEN rights'[task[q].ask.whom] \ rights[task[q].ask.whom] ELSE {}),
      !.lent = @ \/ (task[q].ask.op = "put"
                       /\ dels'[<<task[q].ask.whom, task[q].as>>] \in {"live", "lapsed"}),
      !.raced = @ \/ (task[q].ask.op \in {"revoke", "deactivate"}
                        /\ \E p \in Persons : (rights[p] \ rights'[p]) \cap Ruling # {})]]

(* The request at its update.                                              *)
At(r, op) == task[r] # Idle /\ task[r].ask.op = op /\ task[r].todo = <<"commit">>

(* Mutant: the optional role is given even when it is absent.              *)
GiveAnything(p, x) == rights' = [rights EXCEPT ![p] = @ \cup {x}]

Give(p, x) == rights' = [rights EXCEPT ![p] = @ \cup ({x} \cap Rights)]

CreatePerson(r) ==
  /\ At(r, "create")
  /\ known' = known \cup {task[r].ask.whom} /\ Give(task[r].ask.whom, task[r].ask.what)
  /\ UNCHANGED <<inactive, homes, dels, acting>> /\ Witness(r)

(* grant_role, grant_write.                                                *)
Grant(r) ==
  /\ At(r, "grant") /\ task[r].ask.whom \in known /\ Give(task[r].ask.whom, task[r].ask.what)
  /\ UNCHANGED <<known, inactive, homes, dels, acting>> /\ Witness(r)

NotFound(r) ==
  /\ At(r, "grant") \/ At(r, "reactivate")
  /\ task[r].ask.whom \notin known /\ Refuse(r)
  /\ UNCHANGED <<store, acting>>

Take(p, x) == rights' = [rights EXCEPT ![p] = @ \ {x}]

RevokeRole(r) ==
  /\ At(r, "revoke") /\ task[r].ask.what \in Ruling /\ Take(task[r].ask.whom, task[r].ask.what)
  /\ UNCHANGED <<known, inactive, homes, dels, acting>> /\ Witness(r)

RevokeWrite(r) ==
  /\ At(r, "revoke") /\ task[r].ask.what \notin Ruling /\ Take(task[r].ask.whom, task[r].ask.what)
  /\ UNCHANGED <<known, inactive, homes, dels, acting>> /\ Witness(r)

(* revoke_update, revoke_all_update: a stamp, put once, lapsed or not.     *)
Revoked(S) == [d \in Persons \X Persons |->
                 IF d \in S /\ dels[d] # "none" THEN "revoked" ELSE dels[d]]

Deactivate(r) ==
  LET p == task[r].ask.whom IN
  /\ At(r, "deactivate")
  /\ rights' = [rights EXCEPT ![p] = @ \ task[r].read]
  /\ dels' = Revoked({d \in Persons \X Persons : p \in {d[1], d[2]}})
  /\ inactive' = inactive \cup {p}
  /\ UNCHANGED <<known, homes, acting>> /\ Witness(r)

Reactivate(r) ==
  /\ At(r, "reactivate") /\ task[r].ask.whom \in known
  /\ inactive' = inactive \ {task[r].ask.whom}
  /\ UNCHANGED <<known, rights, homes, dels, acting>> /\ Witness(r)

AssignPersona(r) ==
  /\ At(r, "assign")
  /\ homes' = homes \cup {task[r].ask.whom}
  /\ UNCHANGED <<known, inactive, rights, dels, acting>> /\ Witness(r)

ActAs(r) ==
  /\ At(r, "actAs")
  /\ acting' = [acting EXCEPT ![task[r].ask.who] = task[r].ask.whom]
  /\ UNCHANGED store /\ Witness(r)

Cease(r) ==
  /\ At(r, "cease")
  /\ acting' = [acting EXCEPT ![task[r].ask.who] = Nobody]
  /\ UNCHANGED store /\ Witness(r)

(* At most one delegation of a graph to a person is considered.            *)
Delegate(r) ==
  LET d == <<task[r].ask.whom, task[r].ask.to>> IN
  /\ At(r, "delegate")
  /\ dels' = IF dels[d] = "none" THEN [dels EXCEPT ![d] = "live"] ELSE dels
  /\ UNCHANGED <<known, inactive, rights, homes, acting>> /\ Witness(r)

Undelegate(r) ==
  /\ At(r, "undelegate")
  /\ dels' = Revoked({<<task[r].ask.whom, task[r].ask.to>>})
  /\ UNCHANGED <<known, inactive, rights, homes, acting>> /\ Witness(r)

(* push_turtle, or drop_graph ("replace"), on somebody's graph.            *)
Put(r) == At(r, "put") /\ UNCHANGED <<store, acting>> /\ Witness(r)

(* build_claim_update is guarded in the store itself; a claim that lost    *)
(* the race writes nothing, finds that out, and says so.                   *)
Claim(r) ==
  /\ At(r, "claim")
  /\ \/ /\ Holders(Ruling) = {}
        /\ known' = known \cup {task[r].ask.who} /\ Give(task[r].ask.who, "owner")
        /\ UNCHANGED <<inactive, homes, dels, acting>>
     \/ Holders(Ruling) # {} /\ UNCHANGED <<store, acting>>
  /\ Witness(r)

(* holonbridge-bootstrap-admin, beside the bridge: a new person becomes an *)
(* owner (the default of --role), a known one too with --grant-existing.   *)
Bootstrap(p) ==
  /\ known' = known \cup {p} /\ Give(p, "owner")
  /\ UNCHANGED <<inactive, homes, dels, acting>>
  /\ \E r \in Requests : task[r] = Idle /\ Witness(r)

(* valid_until passes; half an hour passes since act_as.                   *)
Lapse(d) ==
  /\ dels[d] = "live" /\ dels' = [dels EXCEPT ![d] = "lapsed"]
  /\ UNCHANGED <<known, inactive, rights, homes, acting, task>>

Expire(p) ==
  /\ acting[p] # Nobody /\ acting' = [acting EXCEPT ![p] = Nobody]
  /\ UNCHANGED <<store, task>>

Steps ==
  \E r \in Requests :
    \/ Check(r) \/ Override(r) \/ OwnerCheck(r) \/ ReadRoles(r)
    \/ ReadGrants(r) \/ AskAdmin(r) \/ AskGranted(r)
    \/ CreatePerson(r) \/ Grant(r) \/ NotFound(r) \/ RevokeRole(r) \/ RevokeWrite(r)
    \/ Deactivate(r) \/ Reactivate(r)
    \/ AssignPersona(r) \/ ActAs(r) \/ Cease(r) \/ Delegate(r) \/ Undelegate(r)
    \/ Put(r) \/ Claim(r)

Events ==
  \/ \E r \in {r \in Requests : task[r] = Idle}, a \in Asks : Start(r, a)
  \/ \E p \in Persons : Bootstrap(p)
  \/ \E d \in Persons \X Persons : Lapse(d)
  \/ \E p \in Persons : Expire(p)

Next ==
  \/ Steps /\ UNCHANGED events
  \/ events < MaxEvents /\ Events /\ events' = events + 1

Spec == Init /\ [][Next]_vars

-----------------------------------------------------------------------------
(* A dataset that has an owner, or anyone to act as its admin, is left     *)
(* without only by two removals that overlapped: each asked before the     *)
(* other wrote (_sole_remaining_owner, _admin_capacity_survives).          *)
SomebodyRules ==
  [][\A R \in {{"owner"}, Ruling} :
       Holders(R) # {} /\ Holders(R)' = {} =>
         \E r \in Requests : task[r].raced /\ task'[r] = Idle]_vars

Ends(r, op) == At(r, op) /\ task'[r] = Idle

(* deactivate_person strips whatever its person held when it was asked,    *)
(* and whatever they gave or were given: what is left was granted while it *)
(* ran, so that a reactivated person has no access again.                  *)
DeactivationStrips ==
  [][\A r \in Requests : Ends(r, "deactivate") =>
       LET p == task[r].ask.whom IN
       /\ rights'[p] \subseteq task[r].fresh
       /\ \A q \in Persons : {dels'[<<p, q>>], dels'[<<q, p>>]} \subseteq {"none", "revoked"}]_vars

(* A write commits only for someone who could write there at some moment   *)
(* of the request: as an admin, by a grant of their own, or by what was    *)
(* lent to them and not taken back; and only an admin writes as another.   *)
WritesWereAllowed ==
  [][\A r \in Requests : Ends(r, "put") =>
       LET t == task[r]  had == t.ever[t.as] IN
       /\ \/ had \cap Ruling # {}
          \/ t.as = t.ask.whom /\ t.ask.what \in had
          \/ t.lent /\ t.ask.what = "write"
       /\ t.as # t.ask.who => t.ever[t.ask.who] \cap Ruling # {}]_vars

(* Through the REST API only an owner makes or unmakes an owner, and an    *)
(* admin is made or unmade by an owner, or by an admin of a dataset that   *)
(* had no owner while the request ran.                                     *)
OwnersDecide ==
  [][rights' # rights =>
       \A r \in Requests : (\E op \in {"create", "grant", "revoke", "deactivate"} : Ends(r, op)) =>
         \A p \in Persons : \A x \in Ruling :
           (x \in rights[p]) # (x \in rights'[p]) =>
             LET had == task[r].ever[task[r].ask.who] IN
             \/ "owner" \in had
             \/ x = "admin" /\ "admin" \in had /\ task[r].unowned]_vars
=============================================================================
