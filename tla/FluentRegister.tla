--------------------------- MODULE FluentRegister ---------------------------
(***************************************************************************)
(* What update_fluent promises its callers: a fluent is one register, of a *)
(* value or of list items.  A call takes effect at most once, at one       *)
(* moment between its beginning and its answer, and on what the register   *)
(* holds at that moment.  A call that is answered has taken effect, one    *)
(* that is turned away never does; of one that failed nobody is told.      *)
(***************************************************************************)
EXTENDS Integers

CONSTANTS
  Calls, Requests,
  Seeds,        \* what the register may hold at first
  NoValue,      \* it was never set
  NoRequest

VARIABLES
  held,         \* the value and the items
  phase,        \* where each call is
  asked         \* what it asks for

vars == <<held, phase, asked>>

Init ==
  /\ held \in [value : Seeds \cup {NoValue}, items : {{}}]
  /\ phase = [c \in Calls |-> "idle"]
  /\ asked = [c \in Calls |-> NoRequest]

\* What the register must hold for a request to make sense, and what it does.
Accepts(r, h) ==
  /\ r.op \in {"Insert", "Remove"} => h.value # NoValue
  /\ r.op = "ListRemove" => r.arg \in h.items

After(r, h) ==
  CASE r.op = "Set"        -> [h EXCEPT !.value = r.arg]
    [] r.op = "Insert"     -> [h EXCEPT !.value = @ + r.arg]
    [] r.op = "Remove"     -> [h EXCEPT !.value = @ - r.arg]
    [] r.op = "ListInsert" -> [h EXCEPT !.items = @ \cup {r.arg}]
    [] r.op = "ListRemove" -> [h EXCEPT !.items = @ \ {r.arg}]

\* A request that the fluent's mode does not know is turned away at once.
Ask(c) ==
  /\ phase[c] = "idle"
  /\ \E r \in Requests, p \in {"open", "turned away"} :
       /\ asked' = [asked EXCEPT ![c] = r]
       /\ phase' = [phase EXCEPT ![c] = p]
  /\ UNCHANGED held

TakeEffect(c) ==
  /\ phase[c] = "open" /\ Accepts(asked[c], held)
  /\ held' = After(asked[c], held)
  /\ phase' = [phase EXCEPT ![c] = "in effect"]
  /\ UNCHANGED asked

Answer(c) ==
  /\ phase[c] = "in effect"
  /\ phase' = [phase EXCEPT ![c] = "answered"]
  /\ UNCHANGED <<held, asked>>

\* Turned away, or failed before it took effect.
End(c) ==
  /\ phase[c] = "open"
  /\ \E p \in {"turned away", "failed"} : phase' = [phase EXCEPT ![c] = p]
  /\ UNCHANGED <<held, asked>>

Next == \E c \in Calls : Ask(c) \/ TakeEffect(c) \/ Answer(c) \/ End(c)

Spec == Init /\ [][Next]_vars
=============================================================================
