---------------------------- MODULE SortedCursor ----------------------------
(***************************************************************************)
(* What every Xiterator promises (y/iterator.rs): a cursor over a sorted   *)
(* set of keys, walked upwards or downwards.  `at' is a key of the set,    *)
(* Start before the first call, or End when there is no item.              *)
(***************************************************************************)
EXTENDS Integers, FiniteSetsExt

CONSTANTS Targets,   \* the keys a caller may seek
          Start, End

VARIABLES contents,  \* the keys that are walked
          reverse,   \* the direction
          at

vars == <<contents, reverse, at>>

(* The first key of S in the direction of the walk *)
First(S) == CASE S = {} -> End
              [] S # {} /\ reverse -> Max(S)
              [] OTHER -> Min(S)

(* The keys from k on, in the direction of the walk *)
From(k) == {j \in contents : IF reverse THEN j <= k ELSE j >= k}

Init == at = Start

Rewind == at' = First(contents)
Seek(k) == at' = First(From(k))
Next == at' = CASE at = Start -> First(contents)
                [] at = End -> End
                [] OTHER -> First(From(at) \ {at})

Step == /\ Rewind \/ Next \/ \E k \in Targets : Seek(k)
        /\ UNCHANGED <<contents, reverse>>

Spec == Init /\ [][Step]_vars
=============================================================================
