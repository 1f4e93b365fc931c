----------------------------- MODULE KeyRanges -----------------------------
(***************************************************************************)
(* The key ranges that running compactions lay claim to: struct KeyRange   *)
(* of compaction.rs.  A key is a byte string, of which the code only uses  *)
(* the order; here it is a positive natural number, and 0 stands for the   *)
(* empty byte string, which is smaller than every key.                     *)
(***************************************************************************)
EXTENDS Naturals

CONSTANT Keys   \* the keys a table can hold

(* Keys are ordered like byte strings, and no stored key is empty. *)
ASSUME KeysAssumption == Keys \subseteq Nat \ {0}

EmptyKey == 0

(* INFO_RANGE: "including all keys".  Its two ends are empty vectors. *)
InfoRange == [left |-> EmptyKey, right |-> EmptyKey, inf |-> TRUE]

(* What KeyRange::get_range and fill_tables build: the hull of some tables. *)
HullRange(left, right) == [left |-> left, right |-> right, inf |-> FALSE]

(* Every finite range the compactor can build, and every range at all. *)
FiniteRange == {r \in [left : Keys, right : Keys, inf : {FALSE}] : r.left <= r.right}
KeyRange == FiniteRange \cup {InfoRange}

(* KeyRange::overlaps_with *)
OverlapsWith(r, other) ==
    \/ r.inf
    \/ other.inf
    \/ ~ (r.left > other.right) /\ ~ (r.right < other.left)

(***************************************************************************)
(* KeyRange::equals, and so == and != on ranges.  The code compares        *)
(* self.right with self.right and self.inf with self.inf: two ranges are   *)
(* equal as soon as their left ends are.                                   *)
(***************************************************************************)
Equals(r, other) == r.left = other.left /\ r.right = r.right /\ r.inf = r.inf

(* LevelCompactStatus::overlaps_with, over all the ranges of a level *)
AnyOverlaps(ranges, dst) == \E r \in ranges : OverlapsWith(r, dst)

(* LevelCompactStatus::remove: retain(|r| r != dst), and whether it shrank *)
RemoveRange(ranges, dst) == {r \in ranges : ~ Equals(r, dst)}
Found(ranges, dst) == \E r \in ranges : Equals(r, dst)
=============================================================================
