------------------------------ MODULE MemTable ------------------------------
(***************************************************************************)
(* What a memtable promises its users: every put takes effect at one       *)
(* moment between its call and its return, as an update of a map.          *)
(***************************************************************************)
CONSTANTS Keys, Values, None

VARIABLES
  map,      \* the value of every key, or None
  pending   \* the puts that were called and have not taken effect

Puts == [key : Keys, value : Values]

Init == map = [k \in Keys |-> None] /\ pending = {}

Call(p) == p \notin pending /\ pending' = pending \cup {p} /\ UNCHANGED map

TakeEffect(p) ==
  /\ p \in pending
  /\ map' = [map EXCEPT ![p.key] = p.value]
  /\ pending' = pending \ {p}

Next == \E p \in Puts : Call(p) \/ TakeEffect(p)

Spec == Init /\ [][Next]_<<map, pending>>
=============================================================================
