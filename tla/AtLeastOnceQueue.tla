--------------------------- MODULE AtLeastOnceQueue ---------------------------
(***************************************************************************)
(* What the outbox promises to the modules that publish to it and to those *)
(* that subscribe: an item is handled only after the transaction that      *)
(* requested it has committed, it is settled as delivered only after its   *)
(* handler has succeeded, an item that somebody has taken is not offered   *)
(* again before it is settled, and a settled item comes back only when     *)
(* somebody asks for it. An item may be handled many times, and what       *)
(* settles it last wins. How items are taken, by how many processes, from  *)
(* which copies and with which crashes, is not said.                       *)
(***************************************************************************)
CONSTANT Items

VARIABLES
  state,   \* state[i] : absent, waiting, taken, delivered or failed
  handled  \* items whose handler has succeeded

vars == <<state, handled>>

Init ==
  /\ state = [i \in Items |-> "absent"]
  /\ handled = {}

Set(is, s) == [i \in Items |-> IF i \in is THEN s ELSE state[i]]

Request(i) ==
  /\ state[i] \in {"absent", "delivered", "failed"}
  /\ state' = Set({i}, "waiting")
  /\ UNCHANGED handled

Take(is) ==
  /\ \A i \in is : state[i] = "waiting"
  /\ state' = Set(is, "taken")
  /\ UNCHANGED handled

Handle(i) ==
  /\ state[i] # "absent"
  /\ handled' = handled \cup {i}
  /\ UNCHANGED state

Settle(i, outcome) ==
  /\ state[i] # "absent"
  /\ outcome = "delivered" => i \in handled
  /\ state' = Set({i}, outcome)
  /\ UNCHANGED handled

Next ==
  \/ \E i \in Items : Request(i) \/ Handle(i)
  \/ \E i \in Items, outcome \in {"delivered", "failed"} : Settle(i, outcome)
  \/ \E is \in SUBSET Items : Take(is)

Spec == Init /\ [][Next]_vars
=============================================================================
