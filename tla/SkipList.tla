------------------------------ MODULE SkipList ------------------------------
(***************************************************************************)
(* The lock-free skip list behind a memtable (skl/skip.rs, skl/node.rs,    *)
(* skl/cursor.rs).  Nodes live in an arena, are never removed, and are     *)
(* named by their offset; offset 0 is the nil pointer.  A put searches its *)
(* place level by level from the top, and links its node level by level    *)
(* from the base, each time with one compare-and-swap.                     *)
(*                                                                         *)
(* A step is one access to memory that others write: a load of a tower, a  *)
(* compare-and-swap, a store of a value, a load of the height.  Atomics    *)
(* are sequentially consistent here, as on x86-64; cas_next_offset itself  *)
(* only asks for Acquire.                                                  *)
(***************************************************************************)
EXTENDS Naturals, Sequences

CONSTANTS
  Keys,        \* the keys that are put, positive numbers
  Targets,     \* the keys that are searched for
  Writers,     \* threads that put
  MaxHeight,   \* MAX_HEIGHT
  MaxPuts,     \* bound: puts called
  MaxPutsRead  \* bound: puts called while there are reads

ASSUME KeysAssumption == Keys \subseteq Nat \ {0} /\ Targets \subseteq Nat
ASSUME HeightAssumption == MaxHeight \in Nat \ {0}
ASSUME PutsAssumption == MaxPuts \in Nat /\ MaxPutsRead \in Nat

VARIABLES
  nodeKey, value, tower,   \* the nodes: key, value and next pointers
  free,                    \* the next offset of the arena
  height,                  \* the height of the list
  writer,                  \* writer[w]: the locals of _put
  reader,                  \* one search or scan
  puts

vars == <<nodeKey, value, tower, free, height, writer, reader, puts>>
nodeVars == <<nodeKey, value, tower, free>>

-----------------------------------------------------------------------------
Nil == 0
HeadNode == 1
Nodes == 1 .. MaxPuts + 1
Levels == 0 .. MaxHeight - 1
NoSplice == [l \in 0 .. MaxHeight |-> Nil]    \* one place more than a tower

Idle == [at |-> "idle", key |-> 0, val |-> 0, level |-> 0, before |-> Nil,
         prev |-> NoSplice, next |-> NoSplice, node |-> Nil, height |-> 0, listHeight |-> 0]

Init ==
  /\ nodeKey = [n \in Nodes |-> 0]
  /\ value = [n \in Nodes |-> 0]
  /\ tower = [n \in Nodes |-> [l \in Levels |-> Nil]]
  /\ free = HeadNode + 1
  /\ height = 1
  /\ writer = [w \in Writers |-> Idle]
  /\ reader = [at |-> "idle"]
  /\ puts = 0

(* The nodes linked on level l *)
List(l) ==
  LET nth[i \in 0 .. MaxPuts + 1] ==
        IF i = 0 THEN HeadNode ELSE IF nth[i - 1] = Nil THEN Nil ELSE tower[nth[i - 1]][l]
  IN  {nth[i] : i \in 1 .. MaxPuts + 1} \ {Nil}

KeysIn(nodes) == {nodeKey[n] : n \in nodes}

-----------------------------------------------------------------------------
(* Mutant: the level above the list is not given its predecessor. *)
HeadSplice_None(h) == NoSplice

(* The level just above the list of height h is empty: the head comes before. *)
HeadSplice(h) == [NoSplice EXCEPT ![h] = HeadNode]

(***************************************************************************)
(* _put.  The first search goes down from the height of the list.          *)
(***************************************************************************)
StartPut(w, k) ==
  /\ writer[w].at = "idle" /\ puts < MaxPuts
  /\ puts < MaxPutsRead \/ reader.at = "idle"
  /\ puts' = puts + 1
  /\ writer' = [writer EXCEPT ![w] =
                  [Idle EXCEPT !.at = "search", !.key = k, !.val = puts + 1,
                               !.level = height - 1, !.before = HeadNode,
                               !.prev = HeadSplice(height)]]
  /\ UNCHANGED <<nodeVars, height, reader>>

(* find_splice_for_level: does the search go on after node n? *)
KeepMoving(n, k) == n # Nil /\ nodeKey[n] < k

NextOf(w) == tower[writer[w].before][writer[w].level]
IsEqual(w) == NextOf(w) # Nil /\ nodeKey[NextOf(w)] = writer[w].key

Advance(w) ==
  /\ writer[w].at \in {"search", "find", "retry"}
  /\ KeepMoving(NextOf(w), writer[w].key)
  /\ writer' = [writer EXCEPT ![w].before = NextOf(w)]
  /\ UNCHANGED <<nodeVars, height, reader, puts>>

(* The locals once find_splice_for_level returned without an equal node *)
Spliced(w) ==
  [writer[w] EXCEPT !.prev[writer[w].level] = writer[w].before,
                    !.next[writer[w].level] = NextOf(w),
                    !.before = IF writer[w].at = "search" /\ writer[w].level > 0
                               THEN @ ELSE Nil]

SearchDone(w) ==
  LET s == writer[w]
  IN  /\ s.at = "search" /\ ~ KeepMoving(NextOf(w), s.key)
      /\ writer' = [writer EXCEPT ![w] =
                      IF IsEqual(w) THEN [s EXCEPT !.at = "set", !.before = NextOf(w)]
                      ELSE IF s.level = 0 THEN [Spliced(w) EXCEPT !.at = "alloc"]
                      ELSE [Spliced(w) EXCEPT !.level = s.level - 1]]
      /\ UNCHANGED <<nodeVars, height, reader, puts>>

(* set_value on the node that has the key already *)
SetValue(w) ==
  /\ writer[w].at = "set"
  /\ value' = [value EXCEPT ![writer[w].before] = writer[w].val]
  /\ writer' = [writer EXCEPT ![w] = Idle]
  /\ UNCHANGED <<nodeKey, tower, free, height, reader, puts>>

(* Mutant: a height of one more than a tower has places. *)
RandomHeights_OneMore == 1 .. MaxHeight + 1

(* random_height *)
RandomHeights == 1 .. MaxHeight

(* Node::new *)
NewNode(w) ==
  /\ writer[w].at = "alloc"
  /\ nodeKey' = [nodeKey EXCEPT ![free] = writer[w].key]
  /\ value' = [value EXCEPT ![free] = writer[w].val]
  /\ free' = free + 1
  /\ \E h \in RandomHeights :
       writer' = [writer EXCEPT ![w].at = "grow", ![w].node = free, ![w].height = h]
  /\ UNCHANGED <<tower, height, reader, puts>>

(* A node higher than the list raises the list first. *)
Grow(w) ==
  /\ writer[w].at = "grow"
  /\ writer' = [writer EXCEPT ![w] =
                  IF writer[w].height > height
                  THEN [@ EXCEPT !.at = "raise", !.listHeight = height]
                  ELSE [@ EXCEPT !.at = "link", !.listHeight = 0]]
  /\ UNCHANGED <<nodeVars, height, reader, puts>>

Raise(w) ==
  /\ writer[w].at = "raise"
  /\ IF height = writer[w].listHeight
     THEN /\ height' = writer[w].height
          /\ writer' = [writer EXCEPT ![w].at = "link", ![w].listHeight = 0]
     ELSE /\ writer' = [writer EXCEPT ![w].at = "grow"]
          /\ UNCHANGED height
  /\ UNCHANGED <<nodeVars, reader, puts>>

(* This level is above what the first search saw: assert!(i > 1), search it. *)
FindSplice(w) ==
  /\ writer[w].at = "link" /\ writer[w].prev[writer[w].level] = Nil
  /\ writer' = [writer EXCEPT ![w].at = IF writer[w].level > 1 THEN "find" ELSE "panicked",
                              ![w].before = HeadNode]
  /\ UNCHANGED <<nodeVars, height, reader, puts>>

(* Here an equal node fails assert!(prev != next). *)
FindDone(w) ==
  /\ writer[w].at = "find" /\ ~ KeepMoving(NextOf(w), writer[w].key)
  /\ writer' = [writer EXCEPT ![w] = IF IsEqual(w) THEN [@ EXCEPT !.at = "panicked"]
                                     ELSE [Spliced(w) EXCEPT !.at = "link"]]
  /\ UNCHANGED <<nodeVars, height, reader, puts>>

(* Mutant: the pointer is stored whatever it was before. *)
CasSucceeds_Always(s) == TRUE

(* cas_next_offset *)
CasSucceeds(s) == tower[s.prev[s.level]][s.level] = s.next[s.level]

(* Linked on a level: its splice is not used again, nor is the value to set. *)
NextLevel(s) ==
  [s EXCEPT !.level = @ + 1, !.prev[s.level] = Nil, !.next[s.level] = Nil, !.val = 0]

(* The store into the new node is not seen before the node is linked here. *)
Link(w) ==
  LET s == writer[w]
      linked == [tower EXCEPT ![s.node][s.level] = s.next[s.level],
                              ![s.prev[s.level]][s.level] = s.node]
      stored == [tower EXCEPT ![s.node][s.level] = s.next[s.level]]
  IN  /\ s.at = "link" /\ s.prev[s.level] # Nil
      /\ tower' = IF CasSucceeds(s) THEN linked ELSE stored
      /\ writer' = [writer EXCEPT ![w] =
                      IF ~ CasSucceeds(s)
                      THEN [s EXCEPT !.at = "retry", !.before = s.prev[s.level]]
                      ELSE IF s.level + 1 = s.height THEN Idle
                      ELSE NextLevel(s)]
      /\ UNCHANGED <<nodeKey, value, free, height, reader, puts>>

(* Mutant: the new node is linked although another one has its key now. *)
RetryDone_NotEqual(w) ==
  /\ writer[w].at = "retry" /\ ~ KeepMoving(NextOf(w), writer[w].key)
  /\ writer' = [writer EXCEPT ![w] =
                  IF IsEqual(w) /\ writer[w].level > 0 THEN [@ EXCEPT !.at = "panicked"]
                  ELSE [Spliced(w) EXCEPT !.at = "link"]]
  /\ UNCHANGED <<nodeVars, height, reader, puts>>

(***************************************************************************)
(* The search after a failed compare-and-swap.  On the base level another  *)
(* put may have linked the key meanwhile, and this one only sets its       *)
(* value; above, the code asserts that this cannot happen.                 *)
(***************************************************************************)
RetryDone(w) ==
  LET s == writer[w]
  IN  /\ s.at = "retry" /\ ~ KeepMoving(NextOf(w), s.key)
      /\ writer' = [writer EXCEPT ![w] =
                      IF ~ IsEqual(w) THEN [Spliced(w) EXCEPT !.at = "link"]
                      ELSE IF s.level = 0 THEN [s EXCEPT !.at = "set", !.before = NextOf(w)]
                      ELSE [s EXCEPT !.at = "panicked"]]
      /\ UNCHANGED <<nodeVars, height, reader, puts>>

-----------------------------------------------------------------------------
(***************************************************************************)
(* Readers: find_near, on which get, seek, seek_for_prev and prev rest;    *)
(* find_last does the same steps as a search for the last node before a    *)
(* key that is greater than all.                                           *)
(***************************************************************************)
StartFind(k, less, allowEqual) ==
  /\ reader.at = "idle" /\ puts <= MaxPutsRead
  /\ reader' = [at |-> "near", key |-> k, less |-> less, allowEqual |-> allowEqual,
                x |-> HeadNode, level |-> height - 1, start |-> KeysIn(List(0))]
  /\ UNCHANGED <<nodeVars, height, writer, puts>>

Result(n) == [at |-> "done", kind |-> "near", key |-> reader.key, less |-> reader.less,
              allowEqual |-> reader.allowEqual, result |-> n, start |-> reader.start]

(* Mutant: the search ends on the level where it passes the key. *)
CanDescend_Never == FALSE

CanDescend == reader.level > 0

(* What find_near returns at the end of the base level *)
Neighbour(next) ==
  IF ~ reader.less THEN Result(next)
  ELSE IF reader.x = HeadNode THEN Result(Nil) ELSE Result(reader.x)

FindNear ==
  LET next == tower[reader.x][reader.level]
      descend == [reader EXCEPT !.level = @ - 1]
  IN  /\ reader.at = "near"
      /\ reader' =
           IF KeepMoving(next, reader.key) THEN [reader EXCEPT !.x = next]
           ELSE IF next # Nil /\ nodeKey[next] = reader.key
           THEN IF reader.allowEqual THEN Result(next)
                ELSE IF ~ reader.less THEN [reader EXCEPT !.at = "grab", !.x = next]
                ELSE IF CanDescend THEN descend ELSE Neighbour(next)
           ELSE IF CanDescend THEN descend ELSE Neighbour(next)
      /\ UNCHANGED <<nodeVars, height, writer, puts>>

(* "We want >, so go to base level to grab the next bigger" one. *)
GrabNext ==
  /\ reader.at = "grab"
  /\ reader' = Result(tower[reader.x][0])
  /\ UNCHANGED <<nodeVars, height, writer, puts>>

(* A cursor from the head to the end, as write_level0_table uses it *)
StartScan ==
  /\ reader.at = "idle" /\ puts <= MaxPutsRead
  /\ reader' = [at |-> "scan", x |-> HeadNode, seen |-> <<>>, start |-> KeysIn(List(0))]
  /\ UNCHANGED <<nodeVars, height, writer, puts>>

(* Mutant: the cursor follows the top level. *)
ScanLevel_Top == height - 1

ScanLevel == 0

ScanNext ==
  LET next == tower[reader.x][ScanLevel]
  IN  /\ reader.at = "scan"
      /\ reader' = IF next = Nil
                   THEN [at |-> "done", kind |-> "scan", seen |-> reader.seen,
                         start |-> reader.start]
                   ELSE [reader EXCEPT !.x = next, !.seen = Append(@, nodeKey[next])]
      /\ UNCHANGED <<nodeVars, height, writer, puts>>

(* The result is handed over; nobody can tell a step of another thread before it. *)
Return ==
  /\ reader.at = "done"
  /\ reader' = [at |-> "idle"]
  /\ UNCHANGED <<nodeVars, height, writer, puts>>

-----------------------------------------------------------------------------
WriterStep(w) ==
  \/ Advance(w) \/ SearchDone(w) \/ SetValue(w) \/ NewNode(w) \/ Grow(w) \/ Raise(w)
  \/ FindSplice(w) \/ FindDone(w) \/ Link(w) \/ RetryDone(w)

Next ==
  \/ /\ reader.at # "done"
     /\ \/ \E w \in Writers : WriterStep(w) \/ \E k \in Keys : StartPut(w, k)
        \/ \E k \in Targets, less, allowEqual \in BOOLEAN : StartFind(k, less, allowEqual)
        \/ FindNear \/ GrabNext \/ StartScan \/ ScanNext
  \/ Return

Spec == Init /\ [][Next]_vars

-----------------------------------------------------------------------------
(***************************************************************************)
(* The types.  Also: no tower is higher than MAX_HEIGHT, and every pointer *)
(* points to a node that was allocated.                                    *)
(***************************************************************************)
TypeOK ==
  /\ free \in HeadNode + 1 .. MaxPuts + 2
  /\ height \in 1 .. MaxHeight
  /\ \A n \in Nodes, l \in Levels : tower[n][l] \in {Nil} \cup (HeadNode + 1 .. free - 1)
  /\ \A w \in Writers : writer[w].height <= MaxHeight /\ writer[w].node < free

(***************************************************************************)
(* On every level keys ascend strictly, so no key is there twice; a node   *)
(* on a level is on all levels below it, and only levels that searches     *)
(* start from have nodes.                                                  *)
(***************************************************************************)
ListsSorted ==
  /\ \A n \in Nodes, l \in Levels : tower[n][l] # Nil => nodeKey[n] < nodeKey[tower[n][l]]
  /\ \A l \in Levels \ {0} : List(l) \subseteq List(l - 1)
  /\ \A l \in Levels : List(l) # {} => l < height

(***************************************************************************)
(* The assertions of _put hold: "Equality can happen only on base level",  *)
(* also when several threads put the same key at once.                     *)
(***************************************************************************)
AssertionsHold == \A w \in Writers : writer[w].at # "panicked"

(***************************************************************************)
(* The skip list is a memtable: each put takes effect once, at one moment  *)
(* before it returns, and no put undoes another one's.                     *)
(***************************************************************************)
Contents ==
  [k \in Keys |->
     IF k \in KeysIn(List(0)) THEN value[CHOOSE n \in List(0) : nodeKey[n] = k] ELSE 0]

InFlight(s) == \/ s.at \in {"search", "set", "alloc", "grow", "raise"}
               \/ s.at \in {"link", "find", "retry"} /\ s.level = 0

MT == INSTANCE MemTable
        WITH Values <- 1 .. MaxPuts, None <- 0, map <- Contents,
             pending <- {[key |-> writer[w].key, value |-> writer[w].val] :
                           w \in {v \in Writers : InFlight(writer[v])}}

MapRefined == MT!Spec

(***************************************************************************)
(* find_near, while other threads insert: what it returns is on the right  *)
(* side of the key and in the list, and nothing that was there when it     *)
(* started is nearer.                                                      *)
(***************************************************************************)
FindsNear ==
  reader.at = "done" /\ reader.kind = "near" =>
    LET fits(k) == \/ k = reader.key /\ reader.allowEqual
                   \/ k < reader.key /\ reader.less
                   \/ k > reader.key /\ ~ reader.less
        found == nodeKey[reader.result]
        nearer(k) == IF reader.less THEN k > found ELSE k < found
    IN  IF reader.result = Nil THEN \A k \in reader.start : ~ fits(k)
        ELSE /\ reader.result \in List(0) /\ fits(found)
             /\ \A k \in reader.start : fits(k) => ~ nearer(k)

(***************************************************************************)
(* A cursor that walks the whole list while other threads insert sees      *)
(* every key that was there at its start, in order and once: what          *)
(* write_level0_table puts into a table is complete and sorted.            *)
(***************************************************************************)
ScanComplete ==
  reader.at = "done" /\ reader.kind = "scan" =>
    /\ reader.start \subseteq {reader.seen[i] : i \in DOMAIN reader.seen}
    /\ \A i \in 2 .. Len(reader.seen) : reader.seen[i - 1] < reader.seen[i]
=============================================================================
