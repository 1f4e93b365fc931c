-------------------------- MODULE WritePathProofs --------------------------
(***************************************************************************)
(* The write path is correct for every set of keys and clients, every size *)
(* of a memtable, every capacity of flush_chan and any number of requests. *)
(***************************************************************************)
EXTENDS WritePath, SequenceTheorems, FiniteSetTheorems, TLAPS

(* The records in memtables and levels. *)
Record == {NoRecord} \cup [op : Ops, cas : Nat \ {0}, ptr : Nat]

Request == [client : Clients, key : Keys, op : Ops, check : Nat, cas : Nat, ptr : Nat]

Memtable == [kv : [Keys -> Record], puts : Nat]

(* A flush task; ExitTask is the one for memtable 0. *)
Task == [mt : Nat, vptr : Nat]

Reader ==
  [at : {"idle"}, missed : BOOLEAN]
    \cup [at : {"mem", "disk"}, key : Keys, tables : Seq(Nat), floor : Nat]

TypeInv ==
  /\ mem \in Seq(Memtable) /\ mem # <<>>
  /\ imm \in Seq(Nat)
  /\ flushChan \in Seq(Task)
  /\ flusher \in [at : {"idle", "write", "advance", "exit", "dead"}, task : Task]
  /\ disk \in [kv : [Keys -> Record], head : [ptr : Nat, cas : Nat]]
  /\ vlogEnd \in Nat /\ vptr \in Nat /\ casCounter \in Nat
  /\ writeCh \in Seq(Request) /\ reqs \in Seq(Request) /\ batch \in Seq(Request)
  /\ writer \in {"select", "number", "log", "room", "swap", "exit", "dead"}
  /\ client \in [Clients -> {"idle", "waiting", "panicked"}]
  /\ closer \in {"no", "writes", "swap", "quit", "wait", "closed"}
  /\ reader \in Reader
  /\ latest \in [Keys -> Record]

(* The limits TypeOK states, and what keeps flush_chan within its capacity. *)
Limits ==
  /\ \A i \in DOMAIN mem : mem[i].puts <= MemSize
  /\ Len(flushChan) <= NumMemTables

(* A request that was not numbered or logged yet. *)
IsFresh(q) == q.cas = 0 /\ q.ptr = 0

(***************************************************************************)
(* Where the write loop and close can be at the same time, and what the    *)
(* requests look like there.                                               *)
(***************************************************************************)
Phases ==
  /\ batch = <<>> <=> writer \in {"select", "exit", "dead"}
  /\ closer \in {"swap", "quit", "wait", "closed"} => writer \in {"exit", "dead"}
  /\ \A i \in DOMAIN writeCh : IsFresh(writeCh[i])
  /\ \A i \in DOMAIN reqs : IsFresh(reqs[i])
  /\ writer \in {"number", "log"} => \A i \in DOMAIN batch : batch[i].ptr = 0

-----------------------------------------------------------------------------
(* A memtable has been handed to the flush task and not been swapped yet. *)
Swapping == writer = "swap" \/ closer = "swap"

QuitSent == closer \in {"wait", "closed"}

(* The oldest memtable that has not left imm. *)
FirstImm == Mt - Len(imm)

(* imm holds the memtables FirstImm .. Mt - 1, in this order. *)
ImmInv ==
  /\ Len(imm) < Mt
  /\ \A i \in DOMAIN imm : imm[i] = FirstImm + i - 1

Flushing == flusher.at \in {"write", "advance"}

(* The memtable of the next task in flush_chan. *)
NextFlush == IF Flushing THEN FirstImm + 1 ELSE FirstImm

(***************************************************************************)
(* The tasks on their way are those for the memtables of imm, in the order *)
(* of imm, and the one that is being swapped; the order to quit is last.   *)
(***************************************************************************)
TasksInv ==
  /\ Flushing => flusher.task.mt = FirstImm
  /\ flusher.at \in {"idle", "write", "advance"} =>
       /\ Len(flushChan) + NextFlush = IF Swapping \/ QuitSent THEN Mt + 1 ELSE Mt
       /\ QuitSent => Len(flushChan) > 0
       /\ \A i \in DOMAIN flushChan :
            IF QuitSent /\ i = Len(flushChan) THEN flushChan[i] = ExitTask
            ELSE flushChan[i].mt = NextFlush + i - 1

-----------------------------------------------------------------------------
(* CAS counters tell records apart and order them by age. *)
CasInv ==
  /\ \A i \in DOMAIN mem, k \in Keys : mem[i].kv[k].cas <= casCounter
  /\ \A i, j \in DOMAIN mem, k \in Keys :
       i < j /\ mem[j].kv[k] # NoRecord => mem[i].kv[k].cas < mem[j].kv[k].cas
  /\ writer \in {"log", "room", "swap"} =>
       /\ \A i \in DOMAIN batch : batch[i].cas <= casCounter
       /\ \A i \in DOMAIN batch, j \in DOMAIN mem, k \in Keys :
            mem[j].kv[k].cas < batch[i].cas
       /\ \A i, j \in DOMAIN batch : i < j => batch[i].cas < batch[j].cas

(* r is the newest record of k in the first n memtables of m. *)
IsNewest(m, r, n, k) ==
  \/ r = NoRecord /\ \A i \in 1 .. n : m[i].kv[k] = NoRecord
  \/ /\ r # NoRecord
     /\ \E i \in 1 .. n :
          r = m[i].kv[k] /\ \A j \in i + 1 .. n : m[j].kv[k] = NoRecord

LatestInv == \A k \in Keys : IsNewest(mem, latest[k], Mt, k)

(***************************************************************************)
(* The levels are what the first d memtables say; what the others got from *)
(* the value log is behind the head, and the head's counter is not less    *)
(* than those of the tables.                                               *)
(***************************************************************************)
FlushedTo(d) ==
  /\ \A k \in Keys : IsNewest(mem, disk.kv[k], d, k)
  /\ \A j \in d + 1 .. Mt, k \in Keys :
       mem[j].kv[k].ptr # 0 => disk.head.ptr < mem[j].kv[k].ptr

DiskInv ==
  /\ disk.head.ptr # 0 => \A k \in Keys : disk.kv[k].cas <= disk.head.cas
  /\ \E d \in 0 .. Mt :
       /\ FlushedTo(d)
       /\ flusher.at \in {"idle", "write", "exit"} => d = FirstImm - 1
       /\ flusher.at = "advance" => d = FirstImm
       /\ flusher.at = "dead" => d \in {FirstImm - 1, FirstImm}
       /\ d = Mt => Swapping

-----------------------------------------------------------------------------
(***************************************************************************)
(* The pointer of a task t: not before the head h in the levels, not after *)
(* the last one applied, v, and before all that later memtables of m hold. *)
(***************************************************************************)
TaskPtr(t, m, h, v) ==
  /\ t.vptr <= v
  /\ t.mt # 0 =>
       /\ h <= t.vptr
       /\ \A j \in t.mt + 1 .. Len(m), k \in Keys :
            m[j].kv[k].ptr # 0 => t.vptr < m[j].kv[k].ptr

(* The entries of the batch are behind everything that was applied. *)
BatchPtr ==
  /\ vptr <= vlogEnd /\ disk.head.ptr <= vptr
  /\ \A i \in DOMAIN batch : batch[i].ptr # 0 => vptr < batch[i].ptr /\ batch[i].ptr <= vlogEnd
  /\ \A i, j \in DOMAIN batch :
       i < j /\ batch[i].ptr # 0 /\ batch[j].ptr # 0 => batch[i].ptr < batch[j].ptr

(* The tasks carry their pointers in the order they were sent. *)
ChanPtr ==
  /\ \A i \in DOMAIN flushChan : TaskPtr(flushChan[i], mem, disk.head.ptr, vptr)
  /\ \A i, j \in DOMAIN flushChan :
       i < j /\ flushChan[j].mt # 0 => flushChan[i].vptr <= flushChan[j].vptr
  /\ flusher.at = "write" =>
       /\ TaskPtr(flusher.task, mem, disk.head.ptr, vptr)
       /\ \A i \in DOMAIN flushChan :
            flushChan[i].mt # 0 => flusher.task.vptr <= flushChan[i].vptr

(* The inductive invariant. *)
IInv ==
  /\ TypeInv /\ Limits /\ Phases
  /\ ImmInv /\ TasksInv
  /\ CasInv /\ LatestInv /\ DiskInv /\ BatchPtr /\ ChanPtr

(***************************************************************************)
(* A get that is under way will find a record not older than its floor:    *)
(* among its memtables or, if they do not have one, in the levels.         *)
(***************************************************************************)
ReaderInv ==
  /\ reader.at = "idle" => ~ reader.missed
  /\ reader.at = "mem" =>
       LET ts == reader.tables
           found(i) == mem[ts[i]].kv[reader.key]
       IN  /\ \A i \in DOMAIN ts : ts[i] \in 1 .. Mt
           /\ \A i, j \in DOMAIN ts : i < j => ts[j] < ts[i]
           /\ \/ \E i \in DOMAIN ts : found(i) # NoRecord /\ found(i).cas >= reader.floor
              \/ /\ \A i \in DOMAIN ts : found(i) = NoRecord \/ found(i).cas >= reader.floor
                 /\ disk.kv[reader.key].cas >= reader.floor
  /\ reader.at = "disk" => disk.kv[reader.key].cas >= reader.floor

-----------------------------------------------------------------------------
(* Min picks the least element of a set of naturals. *)
LEMMA MinOfNats ==
  ASSUME NEW S \in SUBSET Nat, S # {}
  PROVE  Min(S) \in S /\ \A y \in S : Min(S) <= y
<1>1. PICK x \in S : \A y \in S : ~ (<<y, x>> \in OpToRel(<, Nat))
  BY WFMin, NatLessThanWellFounded
<1>2. ASSUME NEW y \in S, y < x
      PROVE  FALSE
  <2>1. <<y, x>> \in Nat \X Nat /\ <<y, x>>[1] < <<y, x>>[2]
    BY <1>2
  <2> QED
    BY <1>1, <2>1 DEF OpToRel
<1>3. \A y \in S : x <= y
  BY <1>2
<1> QED
  BY <1>3 DEF Min

(* A record has no operation only if it is NoRecord. *)
LEMMA RecordFacts ==
  ASSUME NEW r \in Record
  PROVE  /\ r.op = "none" <=> r = NoRecord
         /\ r.cas \in Nat /\ r.ptr \in Nat
         /\ r # NoRecord => r.cas > 0
         /\ r.op \in Ops \cup {"none"}
  BY OpsAssumption DEF Record, NoRecord

(* get_mem_tables lists Mt, Mt - 1, ..., FirstImm. *)
LEMMA MemTablesShape ==
  ASSUME TypeInv, ImmInv
  PROVE  /\ DOMAIN MemTables = 1 .. Len(imm) + 1
         /\ \A i \in 1 .. Len(imm) + 1 : MemTables[i] = Mt + 1 - i
         /\ MemTables \in Seq(Nat)
<1>1. Len(imm) \in Nat /\ Mt \in Nat /\ DOMAIN imm = 1 .. Len(imm)
  BY LenProperties DEF TypeInv, Mt
<1>2. Reverse(imm) \in Seq(Nat) /\ Len(Reverse(imm)) = Len(imm)
  <2>1. \A i \in 1 .. Len(imm) : imm[(Len(imm) - i) + 1] \in Nat
    BY <1>1 DEF TypeInv
  <2> QED
    BY <1>1, <2>1 DEF Reverse
<1>3. \A i \in 1 .. Len(imm) : Reverse(imm)[i] = Mt - i
  BY <1>1 DEF Reverse, ImmInv, FirstImm
<1>4. <<Mt>> \in Seq(Nat) /\ Len(<<Mt>>) = 1 /\ <<Mt>>[1] = Mt
  BY <1>1
<1>5. /\ <<Mt>> \o Reverse(imm) \in Seq(Nat)
      /\ Len(<<Mt>> \o Reverse(imm)) = Len(imm) + 1
      /\ \A i \in 1 .. Len(imm) + 1 :
           (<<Mt>> \o Reverse(imm))[i] = IF i <= 1 THEN Mt ELSE Reverse(imm)[i - 1]
  BY <1>1, <1>2, <1>4, ConcatProperties
<1>6. DOMAIN (<<Mt>> \o Reverse(imm)) = 1 .. Len(imm) + 1
  BY <1>5, LenProperties
<1>7. \A i \in 1 .. Len(imm) + 1 : (<<Mt>> \o Reverse(imm))[i] = Mt + 1 - i
  <2> SUFFICES ASSUME NEW i \in 1 .. Len(imm) + 1
               PROVE  (<<Mt>> \o Reverse(imm))[i] = Mt + 1 - i
    OBVIOUS
  <2>1. CASE i = 1
    BY <1>1, <1>5, <2>1
  <2>2. CASE i # 1
    <3>1. i - 1 \in 1 .. Len(imm)
      BY <1>1, <2>2
    <3> QED
      BY <1>1, <1>3, <1>5, <2>2, <3>1
  <2> QED
    BY <2>1, <2>2
<1> QED
  BY <1>5, <1>6, <1>7 DEF MemTables

-----------------------------------------------------------------------------
(* What Append makes, element by element. *)
LEMMA AppendElements ==
  ASSUME NEW S, NEW s \in Seq(S), NEW x \in S
  PROVE  /\ Append(s, x) \in Seq(S) /\ Append(s, x) # <<>>
         /\ Len(s) \in Nat /\ Len(Append(s, x)) = Len(s) + 1
         /\ DOMAIN s = 1 .. Len(s) /\ DOMAIN Append(s, x) = 1 .. Len(s) + 1
         /\ \A i \in 1 .. Len(s) : Append(s, x)[i] = s[i]
         /\ Append(s, x)[Len(s) + 1] = x
  BY AppendProperties, LenProperties

(* What Head and Tail take apart, element by element. *)
LEMMA TailElements ==
  ASSUME NEW S, NEW s \in Seq(S), s # <<>>
  PROVE  /\ Head(s) \in S /\ Tail(s) \in Seq(S)
         /\ Len(s) \in Nat /\ Len(s) > 0 /\ Len(Tail(s)) = Len(s) - 1
         /\ DOMAIN s = 1 .. Len(s) /\ DOMAIN Tail(s) = 1 .. Len(s) - 1
         /\ Head(s) = s[1]
         /\ \A i \in 1 .. Len(s) - 1 : Tail(s)[i] = s[i + 1]
<1>1. Len(s) \in Nat /\ Len(s) > 0
  BY EmptySeq
<1>2. /\ Head(s) \in S /\ Tail(s) \in Seq(S) /\ Len(Tail(s)) = Len(s) - 1
      /\ \A i \in 1 .. Len(Tail(s)) : Tail(s)[i] = s[i + 1]
  BY HeadTailProperties
<1>3. DOMAIN s = 1 .. Len(s) /\ DOMAIN Tail(s) = 1 .. Len(s) - 1
  BY <1>2, LenProperties
<1> QED
  BY <1>1, <1>2, <1>3

(* What the type invariant says of lengths, domains and elements. *)
LEMMA SeqFacts ==
  ASSUME TypeInv
  PROVE  /\ Mt \in Nat /\ Mt > 0 /\ DOMAIN mem = 1 .. Mt
         /\ Len(imm) \in Nat /\ DOMAIN imm = 1 .. Len(imm)
         /\ Len(flushChan) \in Nat /\ DOMAIN flushChan = 1 .. Len(flushChan)
         /\ Len(batch) \in Nat /\ DOMAIN batch = 1 .. Len(batch)
         /\ \A i \in 1 .. Mt : mem[i] \in Memtable
         /\ \A i \in 1 .. Mt, k \in Keys : mem[i].kv[k] \in Record
         /\ mem[Mt] \in Memtable
<1>1. Mt \in Nat /\ Mt > 0 /\ DOMAIN mem = 1 .. Mt
  BY LenProperties, EmptySeq DEF TypeInv, Mt
<1>2. \A i \in 1 .. Mt : mem[i] \in Memtable
  BY <1>1, ElementOfSeq DEF TypeInv, Mt
<1>3. \A i \in 1 .. Mt, k \in Keys : mem[i].kv[k] \in Record
  BY <1>2 DEF Memtable
<1>4. mem[Mt] \in Memtable
  BY <1>1, <1>2
<1> QED
  BY <1>1, <1>2, <1>3, <1>4, LenProperties DEF TypeInv

(* A new memtable is empty. *)
LEMMA NewMemTableType == NewMemTable \in Memtable /\ \A k \in Keys : NewMemTable.kv[k] = NoRecord
  BY DEF NewMemTable, Memtable, Record

(* What _get returns is a record. *)
LEMMA GetType ==
  ASSUME TypeInv, ImmInv, NEW k \in Keys
  PROVE  Get(k) \in Record
<1> DEFINE hits == {i \in DOMAIN MemTables : mem[MemTables[i]].kv[k].op \notin {"none", "empty"}}
<1>1. hits # {} => Min(hits) \in hits
  <2>1. hits \in SUBSET Nat
    BY MemTablesShape, SeqFacts
  <2> QED
    BY <2>1, MinOfNats
<1>2. \A i \in hits : MemTables[i] \in 1 .. Mt
  BY MemTablesShape, SeqFacts DEF ImmInv
<1>3. MemSearch(MemTables, k) \in Record
  BY <1>1, <1>2, SeqFacts DEF MemSearch, Record
<1> QED
  BY <1>3 DEF Get, TypeInv

(* Whatever a client sends carries a number to check for. *)
LEMMA SendCheck ==
  ASSUME TypeInv, ImmInv, NEW c \in Clients, ClientSends(c)
  PROVE  \E k \in Keys, op \in Ops, check \in Nat : Send(c, k, op, check)
<1>1. \A k \in Keys : Get(k).cas \in Nat
  BY GetType, RecordFacts
<1> QED
  BY <1>1 DEF ClientSends

(* What Buffered does to the queues, whichever way it goes. *)
LEMMA BufferedType ==
  ASSUME TypeInv, NEW rest \in Seq(Request), NEW all \in Seq(Request), Buffered(rest, all)
  PROVE  /\ writeCh' \in Seq(Request) /\ reqs' \in Seq(Request) /\ batch' \in Seq(Request)
         /\ writer' \in {"select", "number", "log", "room", "swap", "exit", "dead"}
<1>1. CASE Len(all) < BatchLimit /\ rest # <<>>
  <2>1. Head(rest) \in Request /\ Tail(rest) \in Seq(Request)
    BY <1>1, HeadTailProperties
  <2>2. Append(all, Head(rest)) \in Seq(Request)
    BY <2>1, AppendProperties
  <2>3. /\ writeCh' = Tail(rest) /\ reqs' = Append(all, Head(rest))
        /\ UNCHANGED <<batch, writer>>
    BY <1>1 DEF Buffered
  <2> QED
    BY <2>1, <2>2, <2>3 DEF TypeInv
<1>2. CASE ~ (Len(all) < BatchLimit /\ rest # <<>>)
  <2>1. /\ writeCh' = rest /\ reqs' = <<>> /\ batch' = all
        /\ writer' = IF all = <<>> THEN "select" ELSE "number"
    BY <1>2 DEF Buffered
  <2> QED
    BY <2>1, EmptySeq
<1> QED
  BY <1>1, <1>2

(* The number of logged entries among the first i of the batch: WriteLog's rank. *)
Rank(i) == Cardinality({j \in 1 .. i : Logged(batch[j])})

(* Entries that are logged get increasing places in the value log. *)
LEMMA RankFacts ==
  ASSUME NEW i \in Nat, NEW j \in Nat, i <= j
  PROVE  /\ Rank(i) \in Nat /\ Rank(j) \in Nat /\ Rank(i) <= Rank(j)
         /\ i < j /\ Logged(batch[j]) => Rank(i) < Rank(j)
<1> DEFINE S == {x \in 1 .. i : Logged(batch[x])}
           T == {x \in 1 .. j : Logged(batch[x])}
<1>1. IsFiniteSet(1 .. j)
  BY FS_Interval
<1>2. IsFiniteSet(T)
  BY <1>1, FS_Subset
<1>3. S \subseteq T
  OBVIOUS
<1>4. IsFiniteSet(S) /\ Cardinality(S) <= Cardinality(T) /\ (Cardinality(T) = Cardinality(S) => T = S)
  BY <1>2, <1>3, FS_Subset
<1>5. Cardinality(S) \in Nat /\ Cardinality(T) \in Nat
  BY <1>2, <1>4, FS_CardinalityType
<1>6. i < j /\ Logged(batch[j]) => j \in T /\ j \notin S
  OBVIOUS
<1> QED
  BY <1>4, <1>5, <1>6 DEF Rank

(* The batch after NumberRequests and after WriteLog. *)
LEMMA BatchType ==
  ASSUME TypeInv, NEW f, f \in [1 .. Len(batch) -> Nat]
  PROVE  /\ [i \in DOMAIN batch |-> [batch[i] EXCEPT !.cas = f[i]]] \in Seq(Request)
         /\ [i \in DOMAIN batch |-> [batch[i] EXCEPT !.ptr = f[i]]] \in Seq(Request)
<1>1. ASSUME NEW i \in 1 .. Len(batch)
      PROVE  /\ [batch[i] EXCEPT !.cas = f[i]] \in Request
             /\ [batch[i] EXCEPT !.ptr = f[i]] \in Request
  <2>1. batch[i] \in Request /\ f[i] \in Nat
    BY ElementOfSeq DEF TypeInv
  <2> QED
    BY <2>1 DEF Request
<1>2. Len(batch) \in Nat /\ DOMAIN batch = 1 .. Len(batch)
  BY SeqFacts
<1> DEFINE g == [i \in DOMAIN batch |-> [batch[i] EXCEPT !.cas = f[i]]]
           h == [i \in DOMAIN batch |-> [batch[i] EXCEPT !.ptr = f[i]]]
<1>3. g \in [1 .. Len(batch) -> Request] /\ h \in [1 .. Len(batch) -> Request]
  BY <1>1, <1>2
<1> HIDE DEF g, h
<1>4. g \in Seq(Request) /\ h \in Seq(Request)
  BY <1>2, <1>3, SeqDef
<1> QED
  BY <1>4 DEF g, h

(* Every step keeps the types. *)
LEMMA TypeStep ==
  ASSUME IInv, [Next]_vars
  PROVE  TypeInv'
<1> USE DEF memVars, flushVars, logVars, writeVars, otherVars
<1>0. TypeInv /\ Phases /\ ImmInv
  BY DEF IInv
<1>1. ASSUME NEW c \in Clients, ClientSends(c)
      PROVE  TypeInv'
  <2>1. PICK k \in Keys, op \in Ops, check \in Nat : Send(c, k, op, check)
    BY <1>0, <1>1, SendCheck
  <2>2. [client |-> c, key |-> k, op |-> op, check |-> check, cas |-> 0, ptr |-> 0] \in Request
    BY DEF Request
  <2>3. writeCh' \in Seq(Request)
    BY <1>0, <2>1, <2>2, AppendProperties DEF Send, TypeInv
  <2> QED
    BY <1>0, <2>1, <2>3 DEF Send, TypeInv
<1>2. ASSUME NEW c \in Clients, SendPanics(c)
      PROVE  TypeInv'
  BY <1>0, <1>2 DEF SendPanics, TypeInv
<1>3. CASE Receive \/ Tick
  <2>1. PICK rest \in Seq(Request), all \in Seq(Request) : Buffered(rest, all)
    BY <1>0, <1>3, AppendProperties, HeadTailProperties DEF Receive, Tick, TypeInv
  <2> QED
    BY <1>0, <1>3, <2>1, BufferedType DEF Receive, Tick, TypeInv
<1>4. CASE StopWrites
  BY <1>0, <1>4 DEF StopWrites, TypeInv
<1>5. CASE Drain
  BY <1>0, <1>5, AppendProperties, HeadTailProperties, EmptySeq DEF Drain, TypeInv
<1>6. CASE WriterExits
  BY <1>0, <1>6, EmptySeq DEF WriterExits, TypeInv
<1>7. CASE NumberRequests
  <2> DEFINE f == [i \in 1 .. Len(batch) |-> casCounter + i]
  <2>1. f \in [1 .. Len(batch) -> Nat] /\ Len(batch) \in Nat /\ DOMAIN batch = 1 .. Len(batch)
    BY <1>0, SeqFacts DEF TypeInv
  <2>2. batch' = [i \in DOMAIN batch |-> [batch[i] EXCEPT !.cas = f[i]]]
    BY <1>7, <2>1 DEF NumberRequests
  <2> HIDE DEF f
  <2>3. batch' \in Seq(Request)
    BY <1>0, <2>1, <2>2, BatchType
  <2>4. casCounter' \in Nat
    BY <1>0, <1>7, <2>1 DEF NumberRequests, TypeInv
  <2> QED
    BY <1>0, <1>7, <2>3, <2>4 DEF NumberRequests, TypeInv
<1>8. CASE WriteLog
  <2> DEFINE f == [i \in 1 .. Len(batch) |-> IF Logged(batch[i]) THEN vlogEnd + Rank(i) ELSE 0]
  <2>1. Len(batch) \in Nat /\ DOMAIN batch = 1 .. Len(batch) /\ vlogEnd \in Nat
    BY <1>0, SeqFacts DEF TypeInv
  <2>2. \A i \in Nat : Rank(i) \in Nat
    BY RankFacts
  <2>3. f \in [1 .. Len(batch) -> Nat]
    <3> HIDE DEF f
    <3>1. ASSUME NEW i \in 1 .. Len(batch)
          PROVE  vlogEnd + Rank(i) \in Nat
      <4>1. i \in Nat
        BY <2>1
      <4>2. Rank(i) \in Nat
        BY <2>2, <4>1
      <4> QED
        BY <2>1, <4>2
    <3>2. \A i \in 1 .. Len(batch) : (IF Logged(batch[i]) THEN vlogEnd + Rank(i) ELSE 0) \in Nat
      BY <3>1
    <3> QED
      BY <3>2 DEF f
  <2>4. batch' = [i \in DOMAIN batch |-> [batch[i] EXCEPT !.ptr = f[i]]]
    BY <1>8, <2>1 DEF WriteLog, Rank
  <2>5. vlogEnd' = vlogEnd + Rank(Len(batch))
    BY <1>8 DEF WriteLog, Rank
  <2> HIDE DEF f
  <2>6. batch' \in Seq(Request)
    BY <1>0, <2>3, <2>4, BatchType
  <2>7. vlogEnd' \in Nat
    <3>1. Rank(Len(batch)) \in Nat
      BY <2>1, <2>2
    <3> QED
      BY <2>1, <2>5, <3>1
  <2> QED
    BY <1>0, <1>8, <2>6, <2>7 DEF WriteLog, TypeInv
<1>9. CASE EnsureRoom \/ CloseFlushes
  <2>1. FlushTask \in Task
    BY <1>0, SeqFacts DEF FlushTask, Task, TypeInv
  <2>2. flushChan' \in Seq(Task)
    <3>1. flushChan \in Seq(Task) /\ flushChan' = Append(flushChan, FlushTask)
      BY <1>0, <1>9 DEF EnsureRoom, CloseFlushes, TypeInv
    <3> QED
      BY <2>1, <3>1, AppendProperties
  <2> QED
    BY <1>0, <1>9, <2>2 DEF EnsureRoom, CloseFlushes, CloseUnchanged, TypeInv
<1>10. CASE SwapFull \/ CloseSwaps
  <2>1. mem' \in Seq(Memtable) /\ mem' # <<>> /\ imm' \in Seq(Nat)
    <3>1. SwapSt /\ mem \in Seq(Memtable) /\ imm \in Seq(Nat) /\ Mt \in Nat
      BY <1>0, <1>10, SeqFacts DEF SwapFull, CloseSwaps, TypeInv
    <3>2. mem' \in Seq(Memtable) /\ mem' # <<>>
      BY <3>1, NewMemTableType, AppendProperties DEF SwapSt
    <3>3. imm' \in Seq(Nat)
      BY <3>1, AppendProperties DEF SwapSt
    <3> QED
      BY <3>2, <3>3
  <2> QED
    BY <1>0, <1>10, <2>1 DEF SwapFull, CloseSwaps, CloseUnchanged, TypeInv
<1>11. CASE WriteToLsm
  <2> DEFINE e == Head(batch)
             r == [op |-> e.op, cas |-> e.cas, ptr |-> e.ptr]
  <2>1. batch # <<>> /\ e \in Request /\ Tail(batch) \in Seq(Request)
    BY <1>0, <1>11, HeadTailProperties DEF WriteToLsm, Phases, TypeInv
  <2>2. r \in Record
    <3>1. 1 \in DOMAIN batch /\ e = batch[1] /\ e.key \in Keys /\ e.cas \in Nat
      <4>1. batch \in Seq(Request)
        BY <1>0 DEF TypeInv
      <4>2. Len(batch) \in Nat \ {0}
        BY <2>1, <4>1, EmptySeq
      <4> QED
        BY <2>1, <4>1, <4>2, LenProperties DEF Request
    <3>2. 1 \in DOMAIN mem /\ mem[1].kv[e.key].cas \in Nat
      BY <1>0, <3>1, SeqFacts, RecordFacts
    <3>3. mem[1].kv[e.key].cas < e.cas
      BY <1>11, <3>1, <3>2 DEF IInv, CasInv, WriteToLsm
    <3> QED
      BY <2>1, <3>1, <3>2, <3>3 DEF Record, Request
  <2>3. mem' \in Seq(Memtable) /\ mem' # <<>> /\ latest' \in [Keys -> Record]
    <3>1. CASE Refused(e)
      BY <1>0, <1>11, <3>1 DEF WriteToLsm, TypeInv
    <3>2. CASE ~ Refused(e)
      <4> DEFINE m == [kv |-> [mem[Mt].kv EXCEPT ![e.key] = r], puts |-> mem[Mt].puts + 1]
      <4>1. Mt \in 1 .. Len(mem) /\ mem[Mt] \in Memtable
        BY <1>0, SeqFacts DEF Mt
      <4>2. m \in Memtable
        <5>1. mem[Mt].kv \in [Keys -> Record] /\ mem[Mt].puts + 1 \in Nat
          BY <4>1 DEF Memtable
        <5>2. [mem[Mt].kv EXCEPT ![e.key] = r] \in [Keys -> Record]
          <6> HIDE DEF r
          <6> QED
            BY <2>2, <5>1
        <5> QED
          BY <5>1, <5>2 DEF Memtable
      <4>3. mem' = [mem EXCEPT ![Mt] = m] /\ latest' = [latest EXCEPT ![e.key] = r]
        BY <1>11, <3>2 DEF WriteToLsm
      <4> HIDE DEF m, r
      <4>4. mem' \in Seq(Memtable) /\ Len(mem') = Len(mem)
        BY <1>0, <4>1, <4>2, <4>3, ExceptSeq DEF TypeInv
      <4>5. mem' # <<>>
        BY <4>1, <4>4
      <4>6. latest' \in [Keys -> Record]
        BY <1>0, <2>1, <2>2, <4>3 DEF TypeInv, Request
      <4> QED
        BY <4>4, <4>5, <4>6
    <3> QED
      BY <3>1, <3>2
  <2>4. client' \in [Clients -> {"idle", "waiting", "panicked"}] /\ vptr' \in Nat
    BY <1>0, <1>11, <2>1 DEF WriteToLsm, TypeInv, Request
  <2> QED
    BY <1>0, <1>11, <2>1, <2>3, <2>4 DEF WriteToLsm, TypeInv
<1>12. CASE WriteLogFails
  BY <1>0, <1>12, EmptySeq DEF WriteLogFails, TypeInv
<1>13. CASE FlushTakes
  BY <1>0, <1>13, HeadTailProperties DEF FlushTakes, TypeInv
<1>14. CASE FlushAdds
  <2>1. flusher.task.mt \in 1 .. Mt
    BY <1>0, <1>14, SeqFacts DEF IInv, TasksInv, Flushing, FlushAdds, ImmInv, FirstImm
  <2>2. \A k \in Keys : mem[flusher.task.mt].kv[k] \in Record /\ disk.kv[k] \in Record
    BY <1>0, <2>1, SeqFacts DEF TypeInv
  <2>3. StoredHead(flusher.task) \in [ptr : Nat, cas : Nat]
    BY <1>0 DEF StoredHead, TypeInv, Task
  <2>4. disk' \in [kv : [Keys -> Record], head : [ptr : Nat, cas : Nat]]
    BY <1>14, <2>2, <2>3 DEF FlushAdds, AddLevel0
  <2> QED
    BY <1>0, <1>14, <2>4 DEF FlushAdds, TypeInv
<1>15. CASE AdvanceImm
  <2>1. imm' \in Seq(Nat)
    <3>1. imm \in Seq(Nat) /\ imm' = IF imm = <<>> THEN imm ELSE Tail(imm)
      BY <1>0, <1>15 DEF AdvanceImm, TypeInv
    <3> QED
      BY <3>1, HeadTailProperties
  <2>2. flusher' \in [at : {"idle", "write", "advance", "exit", "dead"}, task : Task]
    BY <1>0, <1>15 DEF AdvanceImm, TypeInv
  <2> QED
    BY <1>0, <1>15, <2>1, <2>2 DEF AdvanceImm, TypeInv
<1>16. CASE FlushFails
  BY <1>0, <1>16 DEF FlushFails, TypeInv
<1>17. CASE Close \/ CloseSkips \/ Closed
  BY <1>0, <1>17 DEF Close, CloseSkips, Closed, CloseUnchanged, TypeInv
<1>18. CASE CloseQuits
  BY <1>0, <1>18, AppendProperties DEF CloseQuits, CloseUnchanged, TypeInv, ExitTask, Task
<1>19. ASSUME NEW k \in Keys, StartGet(k)
       PROVE  TypeInv'
  BY <1>0, <1>19, MemTablesShape, RecordFacts DEF StartGet, GetUnchanged, TypeInv, Reader
<1>20. CASE GetMem \/ GetDisk
  <2>1. reader' \in Reader
    <3>1. CASE GetMem
      <4>1. reader \in [at : {"mem", "disk"}, key : Keys, tables : Seq(Nat), floor : Nat]
        BY <1>0, <3>1 DEF GetMem, TypeInv, Reader
      <4> DEFINE r == MemSearch(reader.tables, reader.key)
      <4>2. reader' = IF r = NoRecord THEN [reader EXCEPT !.at = "disk", !.floor = Floor(r)]
                      ELSE [at |-> "idle", missed |-> r.cas < Floor(r)]
        BY <3>1 DEF GetMem
      <4>5. Floor(r) \in Nat
        BY <4>1 DEF Floor
      <4> HIDE DEF r
      <4>3. [reader EXCEPT !.at = "disk", !.floor = Floor(r)] \in Reader
        BY <4>1, <4>5 DEF Reader
      <4>4. [at |-> "idle", missed |-> r.cas < Floor(r)] \in Reader
        BY DEF Reader
      <4> QED
        BY <4>2, <4>3, <4>4
    <3>2. CASE GetDisk
      BY <1>0, <3>2 DEF GetDisk, TypeInv, Reader
    <3> QED
      BY <1>20, <3>1, <3>2
  <2> QED
    BY <1>0, <1>20, <2>1 DEF GetMem, GetDisk, GetUnchanged, TypeInv
<1>21. CASE UNCHANGED vars
  BY <1>0, <1>21 DEF vars, TypeInv
<1> QED
  BY <1>1, <1>2, <1>3, <1>4, <1>5, <1>6, <1>7, <1>8, <1>9, <1>10, <1>11, <1>12, <1>13, <1>14,
     <1>15, <1>16, <1>17, <1>18, <1>19, <1>20, <1>21
     DEF Next, WriterStep, FlusherStep, CloserStep

-----------------------------------------------------------------------------
(***************************************************************************)
(* The steps that leave everything alone but the queues of requests on     *)
(* their way to the batch, the clients and the reader.                     *)
(***************************************************************************)
Gather ==
  /\ UNCHANGED <<mem, imm, flushChan, flusher, disk, vlogEnd, vptr, casCounter, latest, closer>>
  /\ \/ UNCHANGED <<batch, writer>>
     \/ /\ writer = "select" /\ writer' \in {"select", "number", "exit"}
        /\ \A i \in DOMAIN batch' : IsFresh(batch'[i])

(* Buffered keeps requests fresh, and goes on to number a batch only if there is one. *)
LEMMA BufferedPhases ==
  ASSUME TypeInv, Phases, writer = "select",
         NEW rest \in Seq(Request), NEW all \in Seq(Request), Buffered(rest, all),
         \A i \in DOMAIN rest : IsFresh(rest[i]),
         \A i \in DOMAIN all : IsFresh(all[i]),
         UNCHANGED closer
  PROVE  /\ Phases'
         /\ \/ UNCHANGED <<batch, writer>>
            \/ /\ writer' \in {"select", "number", "exit"}
               /\ \A i \in DOMAIN batch' : IsFresh(batch'[i])
<1>1. CASE Len(all) < BatchLimit /\ rest # <<>>
  <2>1. /\ writeCh' = Tail(rest) /\ reqs' = Append(all, Head(rest))
        /\ UNCHANGED <<batch, writer>>
    BY <1>1 DEF Buffered
  <2>2. Len(rest) \in Nat /\ Len(rest) > 0 /\ DOMAIN rest = 1 .. Len(rest)
    BY <1>1, LenProperties, EmptySeq
  <2>3. /\ Head(rest) \in Request /\ Head(rest) = rest[1]
        /\ Tail(rest) \in Seq(Request) /\ Len(Tail(rest)) = Len(rest) - 1
        /\ \A i \in 1 .. Len(Tail(rest)) : Tail(rest)[i] = rest[i + 1]
    BY <1>1, HeadTailProperties
  <2>4. \A i \in DOMAIN Tail(rest) : IsFresh(Tail(rest)[i])
    BY <2>2, <2>3, LenProperties
  <2>5. \A i \in DOMAIN Append(all, Head(rest)) : IsFresh(Append(all, Head(rest))[i])
    <3>1. /\ Append(all, Head(rest)) \in Seq(Request)
          /\ Len(Append(all, Head(rest))) = Len(all) + 1
          /\ \A i \in 1 .. Len(all) : Append(all, Head(rest))[i] = all[i]
          /\ Append(all, Head(rest))[Len(all) + 1] = Head(rest)
      BY <2>3, AppendProperties
    <3>2. DOMAIN Append(all, Head(rest)) = 1 .. Len(all) + 1 /\ Len(all) \in Nat
          /\ DOMAIN all = 1 .. Len(all)
      BY <3>1, LenProperties
    <3>3. IsFresh(Head(rest))
      BY <2>2, <2>3
    <3> QED
      BY <3>1, <3>2, <3>3
  <2> QED
    BY <2>1, <2>4, <2>5 DEF Phases
<1>2. CASE ~ (Len(all) < BatchLimit /\ rest # <<>>)
  <2>1. /\ writeCh' = rest /\ reqs' = <<>> /\ batch' = all
        /\ writer' = IF all = <<>> THEN "select" ELSE "number"
    BY <1>2 DEF Buffered
  <2>2. \A i \in DOMAIN reqs' : IsFresh(reqs'[i])
    BY <2>1
  <2>3. writer' \in {"number", "log"} => \A i \in DOMAIN batch' : batch'[i].ptr = 0
    BY <2>1 DEF IsFresh
  <2> QED
    BY <2>1, <2>2, <2>3 DEF Phases
<1> QED
  BY <1>1, <1>2

(* Every step preserves Phases, and is a Gather step or one of the others. *)
LEMMA PhasesStep ==
  ASSUME IInv, [Next]_vars
  PROVE  /\ Phases'
         /\ \/ Gather \/ NumberRequests \/ WriteLog \/ WriteLogFails
            \/ EnsureRoom \/ SwapFull \/ WriteToLsm
            \/ FlushTakes \/ FlushAdds \/ AdvanceImm \/ FlushFails
            \/ Close \/ CloseSkips \/ CloseFlushes \/ CloseSwaps \/ CloseQuits \/ Closed
<1> USE DEF memVars, flushVars, logVars, writeVars, otherVars
<1> DEFINE Kinds == 
            \/ Gather \/ NumberRequests \/ WriteLog \/ WriteLogFails
            \/ EnsureRoom \/ SwapFull \/ WriteToLsm
            \/ FlushTakes \/ FlushAdds \/ AdvanceImm \/ FlushFails
            \/ Close \/ CloseSkips \/ CloseFlushes \/ CloseSwaps \/ CloseQuits \/ Closed
<1>0. TypeInv /\ Phases
  BY DEF IInv
<1>1. ASSUME NEW c \in Clients, ClientSends(c)
      PROVE  Phases' /\ Gather
  <2>1. PICK k \in Keys, op \in Ops, check \in Nat : Send(c, k, op, check)
    BY <1>1, SendCheck DEF IInv
  <2> DEFINE q == [client |-> c, key |-> k, op |-> op, check |-> check, cas |-> 0, ptr |-> 0]
  <2>2. writeCh' = Append(writeCh, q)
    BY <2>1 DEF Send
  <2>3. IsFresh(q) /\ q \in Request
    BY DEF IsFresh, Request
  <2> HIDE DEF q
  <2>4. writeCh \in Seq(Request) /\ \A i \in DOMAIN writeCh : IsFresh(writeCh[i])
    BY <1>0 DEF TypeInv, Phases
  <2>5. \A i \in DOMAIN writeCh' : IsFresh(writeCh'[i])
    BY <2>2, <2>3, <2>4, AppendElements
  <2> QED
    BY <1>0, <2>1, <2>5 DEF Send, Phases, Gather
<1>2. ASSUME NEW c \in Clients, SendPanics(c)
      PROVE  Phases' /\ Gather
  BY <1>0, <1>2 DEF SendPanics, Phases, Gather
<1>3. CASE Receive \/ Tick
  <2>1. writeCh \in Seq(Request) /\ reqs \in Seq(Request)
    BY <1>0 DEF TypeInv
  <2>2. CASE Receive
    <3>1. writeCh # <<>> /\ Buffered(Tail(writeCh), Append(reqs, Head(writeCh)))
      BY <2>2 DEF Receive
    <3>2. Head(writeCh) \in Request /\ Tail(writeCh) \in Seq(Request)
      BY <2>1, <3>1, HeadTailProperties
    <3>3. Append(reqs, Head(writeCh)) \in Seq(Request)
      BY <2>1, <3>2, AppendProperties
    <3>4. Len(writeCh) \in Nat /\ Len(writeCh) > 0 /\ DOMAIN writeCh = 1 .. Len(writeCh)
      BY <2>1, <3>1, LenProperties, EmptySeq
    <3>5. \A i \in DOMAIN Tail(writeCh) : IsFresh(Tail(writeCh)[i])
      BY <1>0, <2>1, <3>1, <3>4, HeadTailProperties, LenProperties DEF Phases
    <3>6. IsFresh(Head(writeCh))
      BY <1>0, <2>1, <3>4 DEF Phases
    <3>7. \A i \in DOMAIN Append(reqs, Head(writeCh)) : IsFresh(Append(reqs, Head(writeCh))[i])
      BY <1>0, <2>1, <3>2, <3>6, AppendElements DEF Phases
    <3> QED
      BY <1>0, <2>2, <3>1, <3>2, <3>3, <3>5, <3>7, BufferedPhases DEF Receive, Gather
  <2>3. CASE Tick
    BY <1>0, <2>1, <2>3, BufferedPhases DEF Tick, Gather, Phases
  <2> QED
    BY <1>3, <2>2, <2>3
<1>4. CASE StopWrites
  BY <1>0, <1>4 DEF StopWrites, Phases, Gather
<1>5. CASE Drain
  <2>1. writeCh \in Seq(Request) /\ reqs \in Seq(Request) /\ writeCh # <<>>
    BY <1>0, <1>5 DEF TypeInv, Drain
  <2>2. Head(writeCh) \in Request /\ Tail(writeCh) \in Seq(Request)
    BY <2>1, HeadTailProperties
  <2>3. Len(writeCh) \in Nat /\ Len(writeCh) > 0 /\ DOMAIN writeCh = 1 .. Len(writeCh)
    BY <2>1, LenProperties, EmptySeq
  <2>4. \A i \in DOMAIN Tail(writeCh) : IsFresh(Tail(writeCh)[i])
    BY <1>0, <2>1, <2>3, HeadTailProperties, LenProperties DEF Phases
  <2>5. IsFresh(Head(writeCh))
    BY <1>0, <2>1, <2>3 DEF Phases
  <2>6. /\ Append(reqs, Head(writeCh)) # <<>>
        /\ \A i \in DOMAIN Append(reqs, Head(writeCh)) : IsFresh(Append(reqs, Head(writeCh))[i])
    BY <1>0, <2>1, <2>2, <2>5, AppendElements DEF Phases
  <2>7. /\ writer = "select" /\ writer' = "number" /\ batch' = Append(reqs, Head(writeCh))
        /\ reqs' = <<>> /\ writeCh' = Tail(writeCh)
        /\ UNCHANGED <<closer, mem, imm, flushChan, flusher, disk, vlogEnd, vptr, casCounter, latest>>
    BY <1>5 DEF Drain
  <2> HIDE DEF Kinds
  <2>8. Phases'
    BY <1>0, <2>4, <2>6, <2>7 DEF Phases, IsFresh
  <2> QED
    BY <2>6, <2>7, <2>8 DEF Kinds, Gather
<1>6. CASE WriterExits
  BY <1>0, <1>6 DEF WriterExits, Phases, Gather
<1>7. CASE NumberRequests
  <2>1. batch' = [i \in DOMAIN batch |-> [batch[i] EXCEPT !.cas = casCounter + i]]
    BY <1>7 DEF NumberRequests
  <2>2. \A i \in DOMAIN batch' : batch'[i].ptr = 0
    <3>1. \A i \in DOMAIN batch : batch[i] \in Request /\ batch[i].ptr = 0
      BY <1>0, <1>7, SeqFacts, ElementOfSeq DEF Phases, NumberRequests, TypeInv
    <3> QED
      BY <2>1, <3>1 DEF Request
  <2>3. batch' # <<>>
    <3>1. batch # <<>> /\ batch \in Seq(Request)
      BY <1>0, <1>7 DEF Phases, NumberRequests, TypeInv
    <3>2. DOMAIN batch # {}
      BY <3>1, TailElements
    <3> QED
      BY <2>1, <3>2
  <2> QED
    BY <1>0, <1>7, <2>2, <2>3 DEF NumberRequests, Phases
<1>8. CASE WriteLog
  <2>1. DOMAIN batch' = DOMAIN batch
    BY <1>8 DEF WriteLog
  <2>2. batch # <<>> /\ batch \in Seq(Request)
    BY <1>0, <1>8 DEF Phases, WriteLog, TypeInv
  <2>3. DOMAIN batch # {}
    BY <2>2, TailElements
  <2>4. batch' # <<>>
    BY <2>1, <2>3
  <2> QED
    BY <1>0, <1>8, <2>4 DEF WriteLog, Phases
<1>9. CASE EnsureRoom \/ CloseFlushes
  BY <1>0, <1>9 DEF EnsureRoom, CloseFlushes, CloseUnchanged, Phases
<1>10. CASE SwapFull \/ CloseSwaps
  BY <1>0, <1>10 DEF SwapFull, CloseSwaps, CloseUnchanged, Phases
<1>11. CASE WriteToLsm
  BY <1>0, <1>11 DEF WriteToLsm, Phases
<1>12. CASE WriteLogFails
  BY <1>0, <1>12 DEF WriteLogFails, Phases
<1>13. CASE FlushTakes \/ FlushAdds \/ AdvanceImm \/ FlushFails
  BY <1>0, <1>13 DEF FlushTakes, FlushAdds, AdvanceImm, FlushFails, Phases
<1>14. CASE Close \/ CloseSkips \/ Closed \/ CloseQuits
  BY <1>0, <1>14 DEF Close, CloseSkips, Closed, CloseQuits, CloseUnchanged, Phases
<1>15. ASSUME NEW k \in Keys, StartGet(k)
       PROVE  Phases' /\ Gather
  BY <1>0, <1>15 DEF StartGet, GetUnchanged, Phases, Gather
<1>16. CASE GetMem \/ GetDisk
  BY <1>0, <1>16 DEF GetMem, GetDisk, GetUnchanged, Phases, Gather
<1>17. CASE UNCHANGED vars
  BY <1>0, <1>17 DEF vars, Phases, Gather
<1> QED
  BY <1>1, <1>2, <1>3, <1>4, <1>5, <1>6, <1>7, <1>8, <1>9, <1>10, <1>11, <1>12, <1>13, <1>14,
     <1>15, <1>16, <1>17
     DEF Next, WriterStep, FlusherStep, CloserStep

-----------------------------------------------------------------------------
(* What swap_st does to the memtables. *)
LEMMA SwapFacts ==
  ASSUME TypeInv, SwapSt
  PROVE  /\ Mt' = Mt + 1 /\ DOMAIN mem' = 1 .. Mt + 1
         /\ \A i \in 1 .. Mt : mem'[i] = mem[i]
         /\ mem'[Mt + 1] = NewMemTable
         /\ Len(imm') = Len(imm) + 1 /\ DOMAIN imm' = 1 .. Len(imm) + 1
         /\ \A i \in 1 .. Len(imm) : imm'[i] = imm[i]
         /\ imm'[Len(imm) + 1] = Mt
         /\ FirstImm' = FirstImm
<1>1. mem \in Seq(Memtable) /\ imm \in Seq(Nat) /\ Mt \in Nat /\ Len(imm) \in Nat
  BY SeqFacts DEF TypeInv
<1>2. mem' = Append(mem, NewMemTable) /\ imm' = Append(imm, Mt)
  BY DEF SwapSt
<1>3. /\ Mt' = Mt + 1 /\ DOMAIN mem' = 1 .. Mt + 1
      /\ \A i \in 1 .. Mt : mem'[i] = mem[i]
      /\ mem'[Mt + 1] = NewMemTable
  BY <1>1, <1>2, NewMemTableType, AppendElements DEF Mt
<1>4. /\ Len(imm') = Len(imm) + 1 /\ DOMAIN imm' = 1 .. Len(imm) + 1
      /\ \A i \in 1 .. Len(imm) : imm'[i] = imm[i]
      /\ imm'[Len(imm) + 1] = Mt
  BY <1>1, <1>2, AppendElements
<1> QED
  BY <1>1, <1>3, <1>4 DEF FirstImm

(* The record WriteToLsm makes of a request. *)
RecordOf(e) == [op |-> e.op, cas |-> e.cas, ptr |-> e.ptr]

(* What WriteToLsm does to them: one record of the last memtable, or nothing. *)
LEMMA PutFacts ==
  ASSUME TypeInv, TypeInv', Phases, WriteToLsm
  PROVE  /\ batch # <<>> /\ batch' = Tail(batch)
         /\ 1 \in DOMAIN batch /\ batch[1] = Head(batch) /\ batch[1] \in Request
         /\ Mt' = Mt /\ DOMAIN mem' = DOMAIN mem
         /\ \A i \in DOMAIN mem :
              mem'[i].puts = mem[i].puts \/ (i = Mt /\ mem'[i].puts = mem[i].puts + 1)
         /\ Refused(batch[1]) => UNCHANGED <<mem, latest>>
         /\ ~ Refused(batch[1]) =>
              /\ \A i \in DOMAIN mem, k \in Keys :
                   mem'[i].kv[k] = IF i = Mt /\ k = batch[1].key THEN RecordOf(batch[1])
                                   ELSE mem[i].kv[k]
              /\ \A k \in Keys :
                   latest'[k] = IF k = batch[1].key THEN RecordOf(batch[1]) ELSE latest[k]
<1> DEFINE e == batch[1]
           r == RecordOf(e)
           m == [kv |-> [mem[Mt].kv EXCEPT ![e.key] = r], puts |-> mem[Mt].puts + 1]
<1>1. batch # <<>> /\ batch \in Seq(Request) /\ batch' = Tail(batch)
  BY DEF TypeInv, Phases, WriteToLsm
<1>2. 1 \in DOMAIN batch /\ batch[1] = Head(batch) /\ batch[1] \in Request
  BY <1>1, TailElements
<1>3. Mt \in Nat /\ Mt > 0 /\ DOMAIN mem = 1 .. Mt /\ mem[Mt] \in Memtable
  BY SeqFacts
<1>4. CASE Refused(e)
  <2>1. UNCHANGED <<mem, latest>>
    BY <1>2, <1>4 DEF WriteToLsm
  <2>2. Mt' = Mt /\ DOMAIN mem' = DOMAIN mem
    BY <2>1 DEF Mt
  <2>3. \A i \in DOMAIN mem :
          mem'[i].puts = mem[i].puts \/ (i = Mt /\ mem'[i].puts = mem[i].puts + 1)
    BY <2>1
  <2> HIDE DEF e
  <2> QED
    BY <1>1, <1>2, <1>4, <2>1, <2>2, <2>3, Zenon DEF e
<1>5. CASE ~ Refused(e)
  <2>1. mem' = [mem EXCEPT ![Mt] = m] /\ latest' = [latest EXCEPT ![e.key] = r]
    BY <1>2, <1>5 DEF WriteToLsm, RecordOf
  <2> HIDE DEF r
  <2>2. /\ \A k \in Keys : m.kv[k] = IF k = e.key THEN r ELSE mem[Mt].kv[k]
        /\ m.puts = mem[Mt].puts + 1
    BY <1>3 DEF Memtable
  <2>3. \A k \in Keys : latest'[k] = IF k = e.key THEN r ELSE latest[k]
    BY <2>1 DEF TypeInv
  <2> HIDE DEF m
  <2>4. DOMAIN mem' = DOMAIN mem /\ \A i \in DOMAIN mem : mem'[i] = IF i = Mt THEN m ELSE mem[i]
    BY <2>1
  <2>5. Mt' = Mt
    <3>1. mem' \in Seq(Memtable)
      BY DEF TypeInv
    <3>2. Mt' \in Nat /\ DOMAIN mem' = 1 .. Mt'
      BY <3>1, LenProperties DEF Mt
    <3> QED
      BY <1>3, <2>4, <3>2
  <2>6. \A i \in DOMAIN mem, k \in Keys :
          mem'[i].kv[k] = IF i = Mt /\ k = e.key THEN r ELSE mem[i].kv[k]
    BY <2>2, <2>4
  <2>7. \A i \in DOMAIN mem :
          mem'[i].puts = mem[i].puts \/ (i = Mt /\ mem'[i].puts = mem[i].puts + 1)
    <3> SUFFICES ASSUME NEW i \in DOMAIN mem
                 PROVE  mem'[i].puts = mem[i].puts \/ (i = Mt /\ mem'[i].puts = mem[i].puts + 1)
      OBVIOUS
    <3>1. CASE i = Mt
      BY <2>2, <2>4, <3>1
    <3>2. CASE i # Mt
      <4>1. mem'[i] = mem[i]
        BY <2>4, <3>2
      <4> QED
        BY <4>1
    <3> QED
      BY <3>1, <3>2
  <2> QED
    BY <1>1, <1>2, <1>5, <2>3, <2>4, <2>5, <2>6, <2>7 DEF r
<1> QED
  BY <1>4, <1>5

-----------------------------------------------------------------------------
(* No memtable grows beyond MemSize, and flush_chan not beyond its capacity. *)
LEMMA LimitsStep ==
  ASSUME IInv, TypeInv', [Next]_vars
  PROVE  Limits'
<1> USE DEF memVars, flushVars, logVars, writeVars, otherVars, CloseUnchanged
<1>0. TypeInv /\ Phases /\ Limits
  BY DEF IInv
<1>1. CASE UNCHANGED <<mem, flushChan>>
  BY <1>0, <1>1 DEF Limits
<1>2. CASE EnsureRoom \/ CloseFlushes \/ CloseQuits
  <2>1. PICK t \in Task : flushChan' = Append(flushChan, t)
    <3>1. FlushTask \in Task /\ ExitTask \in Task
      BY <1>0, SeqFacts DEF FlushTask, ExitTask, Task, TypeInv
    <3> QED
      BY <1>2, <3>1 DEF EnsureRoom, CloseFlushes, CloseQuits
  <2>2. flushChan \in Seq(Task) /\ Len(flushChan) \in Nat /\ Len(flushChan) < NumMemTables
    <3>1. flushChan \in Seq(Task) /\ Len(flushChan) \in Nat
      BY <1>0, SeqFacts DEF TypeInv
    <3>2. ~ (Len(flushChan) >= NumMemTables)
      BY <1>2 DEF EnsureRoom, CloseFlushes, CloseQuits, FlushChanFull
    <3> QED
      BY <3>1, <3>2, MemAssumption
  <2>3. Len(flushChan') <= NumMemTables
    BY <2>1, <2>2, AppendElements, MemAssumption
  <2> QED
    BY <1>0, <1>2, <2>3 DEF EnsureRoom, CloseFlushes, CloseQuits, Limits
<1>3. CASE SwapFull \/ CloseSwaps
  <2>1. SwapSt /\ UNCHANGED flushChan
    BY <1>3 DEF SwapFull, CloseSwaps
  <2>2. NewMemTable.puts <= MemSize
    BY MemAssumption DEF NewMemTable
  <2> QED
    BY <1>0, <2>1, <2>2, SwapFacts, SeqFacts DEF Limits
<1>4. CASE WriteToLsm
  <2>1. mem[Mt].puts < MemSize /\ UNCHANGED flushChan
    BY <1>4 DEF WriteToLsm, HasRoom
  <2>2. \A i \in DOMAIN mem : mem[i].puts \in Nat
    BY <1>0, SeqFacts DEF Memtable
  <2> QED
    BY <1>0, <1>4, <2>1, <2>2, PutFacts, MemAssumption DEF Limits
<1>5. CASE FlushTakes
  <2>1. flushChan \in Seq(Task) /\ flushChan # <<>> /\ flushChan' = Tail(flushChan) /\ UNCHANGED mem
    BY <1>0, <1>5 DEF FlushTakes, TypeInv
  <2> QED
    BY <1>0, <2>1, TailElements, MemAssumption DEF Limits
<1>6. CASE \/ Gather \/ NumberRequests \/ WriteLog \/ WriteLogFails \/ FlushAdds \/ AdvanceImm
           \/ FlushFails \/ Close \/ CloseSkips \/ Closed
  BY <1>1, <1>6 DEF Gather, NumberRequests, WriteLog, WriteLogFails, FlushAdds, AdvanceImm,
                    FlushFails, Close, CloseSkips, Closed
<1> QED
  BY <1>2, <1>3, <1>4, <1>5, <1>6, PhasesStep

(* imm stays a run of consecutive memtables that ends before the last one. *)
LEMMA ImmStep ==
  ASSUME IInv, TypeInv', [Next]_vars
  PROVE  ImmInv'
<1> USE DEF memVars, flushVars, logVars, writeVars, otherVars, CloseUnchanged
<1>0. TypeInv /\ Phases /\ ImmInv
  BY DEF IInv
<1>1. ASSUME Mt' = Mt, UNCHANGED imm
      PROVE  ImmInv'
  BY <1>0, <1>1 DEF ImmInv, FirstImm
<1>2. CASE SwapFull \/ CloseSwaps
  <2>1. SwapSt
    BY <1>2 DEF SwapFull, CloseSwaps
  <2> QED
    <3>1. Mt \in Nat /\ Len(imm) \in Nat /\ Len(imm) < Mt /\ DOMAIN imm = 1 .. Len(imm)
      BY <1>0, SeqFacts DEF ImmInv
    <3>2. /\ Mt' = Mt + 1 /\ Len(imm') = Len(imm) + 1 /\ DOMAIN imm' = 1 .. Len(imm) + 1
          /\ \A i \in 1 .. Len(imm) : imm'[i] = imm[i]
          /\ imm'[Len(imm) + 1] = Mt
          /\ FirstImm' = FirstImm
      BY <1>0, <2>1, SwapFacts
    <3>3. ASSUME NEW i \in DOMAIN imm'
          PROVE  imm'[i] = FirstImm + i - 1
      <4>1. CASE i \in 1 .. Len(imm)
        BY <1>0, <3>1, <3>2, <4>1 DEF ImmInv
      <4>2. CASE i = Len(imm) + 1
        BY <3>1, <3>2, <4>2 DEF FirstImm
      <4> QED
        BY <3>1, <3>2, <4>1, <4>2
    <3> QED
      BY <3>1, <3>2, <3>3 DEF ImmInv
<1>3. CASE WriteToLsm
  BY <1>0, <1>1, <1>3, PutFacts DEF WriteToLsm
<1>4. CASE AdvanceImm
  <2>1. CASE imm = <<>>
    BY <1>1, <1>4, <2>1 DEF AdvanceImm, Mt
  <2>2. CASE imm # <<>>
    <3>1. imm \in Seq(Nat) /\ imm' = Tail(imm) /\ UNCHANGED mem
      BY <1>0, <1>4, <2>2 DEF AdvanceImm, TypeInv
    <3>2. /\ Len(imm) \in Nat /\ Len(imm) > 0 /\ Len(imm') = Len(imm) - 1
          /\ DOMAIN imm = 1 .. Len(imm) /\ DOMAIN imm' = 1 .. Len(imm) - 1
          /\ \A i \in 1 .. Len(imm) - 1 : imm'[i] = imm[i + 1]
      BY <2>2, <3>1, TailElements
    <3>3. Mt \in Nat /\ Mt' = Mt
      BY <1>0, <3>1, SeqFacts DEF Mt
    <3>4. FirstImm' = FirstImm + 1 /\ FirstImm \in Nat /\ Len(imm) < Mt
      BY <1>0, <3>2, <3>3 DEF ImmInv, FirstImm
    <3>5. ASSUME NEW i \in 1 .. Len(imm) - 1
          PROVE  imm'[i] = FirstImm + 1 + i - 1
      <4>1. i + 1 \in 1 .. Len(imm)
        BY <3>2
      <4>2. imm[i + 1] = FirstImm + (i + 1) - 1
        BY <1>0, <3>2, <4>1 DEF ImmInv
      <4> QED
        BY <3>2, <3>4, <4>1, <4>2
    <3> QED
      BY <3>2, <3>3, <3>4, <3>5 DEF ImmInv
  <2> QED
    BY <2>1, <2>2
<1>5. CASE \/ Gather \/ NumberRequests \/ WriteLog \/ WriteLogFails \/ EnsureRoom \/ FlushTakes
           \/ FlushAdds \/ FlushFails \/ Close \/ CloseSkips \/ CloseFlushes \/ CloseQuits \/ Closed
  BY <1>1, <1>5 DEF Gather, NumberRequests, WriteLog, WriteLogFails, EnsureRoom, FlushTakes,
                    FlushAdds, FlushFails, Close, CloseSkips, CloseFlushes, CloseQuits, Closed, Mt
<1> QED
  BY <1>2, <1>3, <1>4, <1>5, PhasesStep

(* FirstImm is a memtable, or the next one. *)
LEMMA FirstImmType ==
  ASSUME TypeInv, ImmInv
  PROVE  FirstImm \in 1 .. Mt /\ NextFlush \in Nat /\ Mt \in Nat /\ Len(flushChan) \in Nat
  BY SeqFacts DEF ImmInv, FirstImm, NextFlush

(* A task that is sent joins the end of the queue. *)
LEMMA TaskSent ==
  ASSUME TypeInv, ImmInv, TasksInv, NEW t \in Task, flushChan' = Append(flushChan, t),
         UNCHANGED <<mem, imm, flusher>>,
         ~ Swapping, ~ QuitSent,
         \/ Swapping' /\ ~ QuitSent' /\ t.mt = Mt
         \/ ~ Swapping' /\ QuitSent' /\ t = ExitTask
  PROVE  TasksInv'
<1> DEFINE n == Len(flushChan)
<1>1. /\ flushChan \in Seq(Task) /\ n \in Nat /\ FirstImm \in Nat /\ NextFlush \in Nat /\ Mt \in Nat
      /\ FirstImm' = FirstImm /\ NextFlush' = NextFlush /\ Mt' = Mt /\ (Flushing' <=> Flushing)
  BY FirstImmType DEF TypeInv, FirstImm, NextFlush, Mt, Flushing
<1>2. /\ Len(flushChan') = n + 1 /\ DOMAIN flushChan = 1 .. n /\ DOMAIN flushChan' = 1 .. n + 1
      /\ \A i \in 1 .. n : flushChan'[i] = flushChan[i]
      /\ flushChan'[n + 1] = t
  BY <1>1, AppendElements
<1> HIDE DEF n
<1>3. Flushing' => flusher'.task.mt = FirstImm'
  BY <1>1 DEF TasksInv
<1>4. ASSUME flusher'.at \in {"idle", "write", "advance"}
      PROVE  /\ n + NextFlush = Mt
             /\ \A i \in 1 .. n : flushChan[i].mt = NextFlush + i - 1
  BY <1>1, <1>2, <1>4 DEF TasksInv, n
<1>5. ASSUME flusher'.at \in {"idle", "write", "advance"}
      PROVE  /\ Len(flushChan') + NextFlush' = IF Swapping' \/ QuitSent' THEN Mt' + 1 ELSE Mt'
             /\ QuitSent' => Len(flushChan') > 0
  BY <1>1, <1>2, <1>4, <1>5
<1>6. ASSUME flusher'.at \in {"idle", "write", "advance"}, NEW i \in 1 .. n + 1
      PROVE  IF QuitSent' /\ i = Len(flushChan') THEN flushChan'[i] = ExitTask
             ELSE flushChan'[i].mt = NextFlush' + i - 1
  <2>1. CASE i = n + 1
    <3>1. i = Len(flushChan') /\ flushChan'[i] = t
      BY <1>2, <2>1
    <3>2. CASE QuitSent'
      BY <3>1, <3>2
    <3>3. CASE ~ QuitSent'
      <4>1. t.mt = Mt /\ n + NextFlush = Mt
        BY <1>4, <1>6, <3>3
      <4>2. flushChan'[i].mt = NextFlush' + i - 1
        BY <1>1, <2>1, <3>1, <4>1
      <4> QED
        BY <3>3, <4>2
    <3> QED
      BY <3>2, <3>3
  <2>2. CASE i \in 1 .. n
    <3>1. flushChan'[i].mt = NextFlush + i - 1 /\ i # n + 1
      BY <1>1, <1>2, <1>4, <1>6, <2>2
    <3> QED
      BY <1>1, <1>2, <3>1
  <2>3. i = n + 1 \/ i \in 1 .. n
    BY <1>1
  <2> QED
    BY <2>1, <2>2, <2>3
<1> QED
  BY <1>2, <1>3, <1>5, <1>6 DEF TasksInv

(* The tasks keep up with imm, whoever sends, takes or finishes one. *)
LEMMA TasksStep ==
  ASSUME IInv, TypeInv', Phases', [Next]_vars
  PROVE  TasksInv'
<1> USE DEF memVars, flushVars, logVars, writeVars, otherVars, CloseUnchanged
<1>0. TypeInv /\ Phases /\ ImmInv /\ TasksInv
  BY DEF IInv
<1>1. ASSUME Mt' = Mt, UNCHANGED <<imm, flushChan, flusher>>,
             Swapping' <=> Swapping, QuitSent' <=> QuitSent
      PROVE  TasksInv'
  BY <1>0, <1>1 DEF TasksInv, FirstImm, NextFlush, Flushing
<1>2. CASE Gather
  <2>1. (Swapping' <=> Swapping) /\ (QuitSent' <=> QuitSent)
    BY <1>2 DEF Gather, Swapping, QuitSent
  <2> QED
    BY <1>1, <1>2, <2>1 DEF Gather, Mt
<1>3. CASE NumberRequests \/ WriteLog \/ WriteLogFails
  <2>1. (Swapping' <=> Swapping) /\ (QuitSent' <=> QuitSent)
    BY <1>3 DEF NumberRequests, WriteLog, WriteLogFails, Swapping, QuitSent
  <2> QED
    BY <1>1, <1>3, <2>1 DEF NumberRequests, WriteLog, WriteLogFails, Mt
<1>4. CASE WriteToLsm
  <2>1. (Swapping' <=> Swapping) /\ (QuitSent' <=> QuitSent)
    BY <1>4 DEF WriteToLsm, Swapping, QuitSent
  <2> QED
    BY <1>0, <1>1, <1>4, <2>1, PutFacts DEF WriteToLsm
<1>5. CASE Close \/ CloseSkips \/ Closed
  <2>1. (Swapping' <=> Swapping) /\ (QuitSent' <=> QuitSent)
    BY <1>5 DEF Close, CloseSkips, Closed, Swapping, QuitSent
  <2> QED
    BY <1>1, <1>5, <2>1 DEF Close, CloseSkips, Closed, Mt
<1>6. CASE EnsureRoom \/ CloseFlushes
  <2>1. FlushTask \in Task /\ FlushTask.mt = Mt
    BY <1>0, SeqFacts DEF FlushTask, Task, TypeInv
  <2>2. ~ Swapping /\ ~ QuitSent /\ Swapping' /\ ~ QuitSent'
    BY <1>0, <1>6 DEF EnsureRoom, CloseFlushes, Phases, Swapping, QuitSent
  <2>3. flushChan' = Append(flushChan, FlushTask) /\ UNCHANGED <<mem, imm, flusher>>
    BY <1>6 DEF EnsureRoom, CloseFlushes
  <2> QED
    BY <1>0, <2>1, <2>2, <2>3, TaskSent
<1>7. CASE CloseQuits
  <2>1. ExitTask \in Task
    BY DEF ExitTask, Task
  <2>2. ~ Swapping /\ ~ QuitSent /\ ~ Swapping' /\ QuitSent'
    BY <1>0, <1>7 DEF CloseQuits, Phases, Swapping, QuitSent
  <2>3. flushChan' = Append(flushChan, ExitTask) /\ UNCHANGED <<mem, imm, flusher>>
    BY <1>7 DEF CloseQuits
  <2> QED
    BY <1>0, <2>1, <2>2, <2>3, TaskSent
<1>8. CASE SwapFull \/ CloseSwaps
  <2>1. SwapSt /\ UNCHANGED <<flushChan, flusher>>
    BY <1>8 DEF SwapFull, CloseSwaps
  <2>2. Swapping /\ ~ QuitSent /\ ~ Swapping' /\ ~ QuitSent'
    BY <1>0, <1>8 DEF SwapFull, CloseSwaps, Phases, Swapping, QuitSent
  <2>3. Mt' = Mt + 1 /\ FirstImm' = FirstImm /\ NextFlush' = NextFlush /\ (Flushing' <=> Flushing)
    BY <1>0, <2>1, SwapFacts DEF NextFlush, Flushing
  <2> QED
    BY <1>0, <2>1, <2>2, <2>3 DEF TasksInv
<1>9. CASE FlushTakes
  <2>1. /\ flushChan \in Seq(Task) /\ flushChan # <<>> /\ flushChan' = Tail(flushChan)
        /\ flusher.at = "idle"
        /\ flusher' = [at |-> IF Head(flushChan) = ExitTask THEN "exit" ELSE "write",
                       task |-> Head(flushChan)]
        /\ UNCHANGED <<mem, imm, writer, closer>>
    BY <1>0, <1>9 DEF FlushTakes, TypeInv
  <2> DEFINE n == Len(flushChan)
  <2>2. /\ n \in Nat /\ n > 0 /\ Len(flushChan') = n - 1
        /\ DOMAIN flushChan = 1 .. n /\ DOMAIN flushChan' = 1 .. n - 1
        /\ Head(flushChan) = flushChan[1]
        /\ \A i \in 1 .. n - 1 : flushChan'[i] = flushChan[i + 1]
    BY <2>1, TailElements
  <2>3. FirstImm' = FirstImm /\ Mt' = Mt /\ FirstImm \in Nat /\ Mt \in Nat /\ NextFlush = FirstImm
    BY <1>0, <2>1, FirstImmType DEF FirstImm, Mt, NextFlush, Flushing
  <2>4. (Swapping' <=> Swapping) /\ (QuitSent' <=> QuitSent)
    BY <2>1 DEF Swapping, QuitSent
  <2>5. CASE Head(flushChan) = ExitTask
    BY <2>1, <2>5 DEF TasksInv, Flushing
  <2>6. CASE Head(flushChan) # ExitTask
    <3>1. flusher'.at = "write" /\ flusher'.task = flushChan[1] /\ NextFlush' = FirstImm + 1
      BY <2>1, <2>2, <2>3, <2>6 DEF NextFlush, Flushing
    <3>2. /\ n + FirstImm = IF Swapping \/ QuitSent THEN Mt + 1 ELSE Mt
          /\ \A i \in 1 .. n :
               IF QuitSent /\ i = n THEN flushChan[i] = ExitTask
               ELSE flushChan[i].mt = FirstImm + i - 1
      BY <1>0, <2>1, <2>2, <2>3 DEF TasksInv
    <3> HIDE DEF n
    <3>3. flushChan[1].mt = FirstImm
      BY <2>2, <2>3, <2>6, <3>2
    <3>4. /\ Len(flushChan') + NextFlush' = IF Swapping' \/ QuitSent' THEN Mt' + 1 ELSE Mt'
          /\ QuitSent' => Len(flushChan') > 0
      <4>1. QuitSent => n # 1
        BY <2>2, <2>6, <3>2
      <4> QED
        BY <2>2, <2>3, <2>4, <3>1, <3>2, <4>1
    <3>5. ASSUME NEW i \in 1 .. n - 1
          PROVE  IF QuitSent' /\ i = Len(flushChan') THEN flushChan'[i] = ExitTask
                 ELSE flushChan'[i].mt = NextFlush' + i - 1
      <4>1. i + 1 \in 1 .. n /\ flushChan'[i] = flushChan[i + 1] /\ (i = n - 1 <=> i + 1 = n)
        BY <2>2
      <4>2. IF QuitSent /\ i + 1 = n THEN flushChan[i + 1] = ExitTask
            ELSE flushChan[i + 1].mt = FirstImm + (i + 1) - 1
        BY <3>2, <4>1
      <4>3. FirstImm + (i + 1) - 1 = NextFlush' + i - 1
        BY <2>2, <2>3, <3>1
      <4>4. i = Len(flushChan') <=> i + 1 = n
        BY <2>2, <4>1
      <4> QED
        BY <2>4, <4>1, <4>2, <4>3, <4>4
    <3> QED
      BY <2>2, <2>3, <3>1, <3>3, <3>4, <3>5 DEF TasksInv
  <2> QED
    BY <2>5, <2>6
<1>10. CASE FlushAdds
  BY <1>0, <1>10 DEF FlushAdds, TasksInv, FirstImm, NextFlush, Flushing, Swapping, QuitSent, Mt,
                     TypeInv
<1>11. CASE AdvanceImm
  <2>1. CASE imm = <<>>
    BY <1>0, <1>11, <2>1 DEF AdvanceImm, TasksInv, Flushing, TypeInv
  <2>2. CASE imm # <<>>
    <3>1. /\ imm \in Seq(Nat) /\ imm' = Tail(imm)
          /\ flusher.at = "advance" /\ flusher'.at = "idle"
          /\ UNCHANGED <<mem, flushChan, writer, closer>>
      BY <1>0, <1>11, <2>2 DEF AdvanceImm, TypeInv
    <3>2. Mt' = Mt /\ FirstImm' = FirstImm + 1
      BY <1>0, <2>2, <3>1, TailElements, SeqFacts DEF FirstImm, Mt
    <3>3. NextFlush' = NextFlush /\ ~ Flushing' /\ (Swapping' <=> Swapping) /\ (QuitSent' <=> QuitSent)
      BY <3>1, <3>2 DEF NextFlush, Flushing, Swapping, QuitSent
    <3> QED
      BY <1>0, <3>1, <3>2, <3>3 DEF TasksInv
  <2> QED
    BY <2>1, <2>2
<1>12. CASE FlushFails
  BY <1>0, <1>12 DEF FlushFails, TasksInv, Flushing, TypeInv
<1> QED
  BY <1>2, <1>3, <1>4, <1>5, <1>6, <1>7, <1>8, <1>9, <1>10, <1>11, <1>12, PhasesStep

-----------------------------------------------------------------------------
(* CAS counters only grow: numbering, putting and swapping keep the order. *)
LEMMA CasStep ==
  ASSUME IInv, TypeInv', Phases', [Next]_vars
  PROVE  CasInv'
<1> USE DEF memVars, flushVars, logVars, writeVars, otherVars, CloseUnchanged
<1>0. TypeInv /\ Phases /\ CasInv
  BY DEF IInv
<1>1. ASSUME UNCHANGED <<mem, casCounter, batch>>,
             writer' \in {"log", "room", "swap"} => writer \in {"log", "room", "swap"}
      PROVE  CasInv'
  BY <1>0, <1>1 DEF CasInv
<1>2. CASE Gather
  <2>1. CASE UNCHANGED <<batch, writer>>
    BY <1>1, <1>2, <2>1 DEF Gather
  <2>2. CASE writer' \in {"select", "number", "exit"}
    BY <1>0, <1>2, <2>2 DEF Gather, CasInv
  <2> QED
    BY <1>2, <2>1, <2>2 DEF Gather
<1>3. CASE NumberRequests
  <2>1. /\ batch' = [i \in DOMAIN batch |-> [batch[i] EXCEPT !.cas = casCounter + i]]
        /\ casCounter' = casCounter + Len(batch)
        /\ UNCHANGED mem
    BY <1>3 DEF NumberRequests
  <2>2. Len(batch) \in Nat /\ DOMAIN batch = 1 .. Len(batch) /\ casCounter \in Nat
    BY <1>0, SeqFacts DEF TypeInv
  <2>3. DOMAIN batch' = 1 .. Len(batch) /\ \A i \in 1 .. Len(batch) : batch'[i].cas = casCounter + i
    <3>1. \A i \in 1 .. Len(batch) : batch[i] \in Request
      BY <1>0, ElementOfSeq DEF TypeInv
    <3> QED
      BY <2>1, <2>2, <3>1 DEF Request
  <2>4. \A i \in DOMAIN mem, k \in Keys : mem[i].kv[k].cas \in Nat /\ mem[i].kv[k].cas <= casCounter
    BY <1>0, SeqFacts, RecordFacts DEF CasInv
  <2>5. \A i \in DOMAIN mem', k \in Keys : mem'[i].kv[k].cas <= casCounter'
    BY <2>1, <2>2, <2>4
  <2>6. \A i \in DOMAIN batch' : batch'[i].cas <= casCounter'
    BY <2>1, <2>2, <2>3
  <2>7. \A i \in DOMAIN batch', j \in DOMAIN mem', k \in Keys : mem'[j].kv[k].cas < batch'[i].cas
    BY <2>1, <2>2, <2>3, <2>4
  <2>8. \A i, j \in DOMAIN batch' : i < j => batch'[i].cas < batch'[j].cas
    BY <2>2, <2>3
  <2> QED
    BY <1>0, <2>1, <2>5, <2>6, <2>7, <2>8 DEF CasInv
<1>4. CASE WriteLog
  <2>1. UNCHANGED <<mem, casCounter>> /\ writer = "log"
    BY <1>4 DEF WriteLog
  <2>2. DOMAIN batch' = DOMAIN batch /\ \A i \in DOMAIN batch : batch'[i].cas = batch[i].cas
    <3>1. \A i \in DOMAIN batch : batch[i] \in Request
      <4>1. batch \in Seq(Request)
        BY <1>0 DEF TypeInv
      <4> QED
        BY <4>1
    <3> QED
      BY <1>4, <3>1 DEF WriteLog, Request
  <2> QED
    BY <1>0, <2>1, <2>2 DEF CasInv
<1>5. CASE WriteLogFails
  BY <1>0, <1>5 DEF WriteLogFails, CasInv
<1>6. CASE SwapFull \/ CloseSwaps
  <2>1. SwapSt /\ UNCHANGED <<casCounter, batch>> /\ (UNCHANGED writer \/ writer = "swap")
    BY <1>6 DEF SwapFull, CloseSwaps
  <2>2. /\ DOMAIN mem' = 1 .. Mt + 1 /\ DOMAIN mem = 1 .. Mt /\ Mt \in Nat /\ Mt > 0
        /\ \A i \in 1 .. Mt : mem'[i] = mem[i]
        /\ \A k \in Keys : mem'[Mt + 1].kv[k] = NoRecord
    BY <1>0, <2>1, SwapFacts, SeqFacts, NewMemTableType
  <2>3. NoRecord.cas = 0 /\ casCounter \in Nat
    BY <1>0 DEF NoRecord, TypeInv
  <2>4. \A i \in DOMAIN mem', k \in Keys :
           (i \in DOMAIN mem /\ mem'[i].kv[k] = mem[i].kv[k]) \/ (i = Mt + 1 /\ mem'[i].kv[k] = NoRecord)
    BY <2>2
  <2>5. \A i \in DOMAIN mem', k \in Keys : mem'[i].kv[k].cas <= casCounter'
    BY <1>0, <2>1, <2>3, <2>4 DEF CasInv
  <2>6. \A i, j \in DOMAIN mem', k \in Keys :
          i < j /\ mem'[j].kv[k] # NoRecord => mem'[i].kv[k].cas < mem'[j].kv[k].cas
    BY <1>0, <2>2, <2>4 DEF CasInv
  <2>7. ASSUME writer' \in {"log", "room", "swap"},
               NEW i \in DOMAIN batch', NEW j \in DOMAIN mem', NEW k \in Keys
        PROVE  mem'[j].kv[k].cas < batch'[i].cas
    <3>1. i \in DOMAIN batch /\ batch'[i] = batch[i] /\ writer \in {"log", "room", "swap"}
      BY <2>1, <2>7
    <3>2. \A l \in DOMAIN mem : mem[l].kv[k].cas < batch[i].cas
      BY <1>0, <3>1 DEF CasInv
    <3>3. batch[i].cas \in Nat /\ mem[1].kv[k].cas \in Nat /\ 1 \in DOMAIN mem
      <4>1. batch[i] \in Request
        <5>1. batch \in Seq(Request)
          BY <1>0 DEF TypeInv
        <5> QED
          BY <3>1, <5>1
      <4>2. 1 \in DOMAIN mem
        BY <2>2
      <4>3. mem[1].kv[k] \in Record
        BY <1>0, <2>2, <4>2, SeqFacts
      <4> QED
        BY <4>1, <4>2, <4>3, RecordFacts DEF Request
    <3> QED
      BY <2>3, <2>4, <3>1, <3>2, <3>3
  <2> QED
    BY <1>0, <2>1, <2>5, <2>6, <2>7 DEF CasInv
<1>7. CASE WriteToLsm
  <2>1. /\ DOMAIN mem' = DOMAIN mem /\ Mt \in Nat /\ DOMAIN mem = 1 .. Mt
        /\ batch # <<>> /\ batch \in Seq(Request) /\ batch' = Tail(batch)
        /\ UNCHANGED casCounter /\ writer = "room" /\ 1 \in DOMAIN batch
    BY <1>0, <1>7, PutFacts, SeqFacts DEF WriteToLsm, TypeInv
  <2>2. /\ Len(batch) \in Nat /\ DOMAIN batch = 1 .. Len(batch) /\ DOMAIN batch' = 1 .. Len(batch) - 1
        /\ \A i \in 1 .. Len(batch) - 1 : batch'[i] = batch[i + 1]
    BY <2>1, TailElements
  <2>3. \A i \in DOMAIN mem, k \in Keys :
          \/ mem'[i].kv[k] = mem[i].kv[k]
          \/ i = Mt /\ mem'[i].kv[k].cas = batch[1].cas
    BY <1>0, <1>7, PutFacts DEF RecordOf
  <2>4. /\ \A i \in DOMAIN batch : batch[i].cas <= casCounter
        /\ \A i \in DOMAIN batch, j \in DOMAIN mem, k \in Keys : mem[j].kv[k].cas < batch[i].cas
        /\ \A i, j \in DOMAIN batch : i < j => batch[i].cas < batch[j].cas
    BY <1>0, <2>1 DEF CasInv
  <2>5. \A i \in DOMAIN mem', k \in Keys : mem'[i].kv[k].cas <= casCounter'
    BY <1>0, <2>1, <2>3, <2>4 DEF CasInv
  <2>6. ASSUME NEW i \in DOMAIN mem, NEW j \in DOMAIN mem, NEW k \in Keys,
               i < j, mem'[j].kv[k] # NoRecord
        PROVE  mem'[i].kv[k].cas < mem'[j].kv[k].cas
    <3>1. mem'[i].kv[k] = mem[i].kv[k]
      BY <2>1, <2>3, <2>6
    <3> QED
      BY <1>0, <2>1, <2>3, <2>4, <2>6, <3>1 DEF CasInv
  <2>7. ASSUME NEW i \in DOMAIN batch'
        PROVE  i + 1 \in DOMAIN batch /\ 1 < i + 1 /\ batch'[i] = batch[i + 1]
    BY <2>2
  <2>8. ASSUME NEW i \in DOMAIN batch', NEW j \in DOMAIN mem, NEW k \in Keys
        PROVE  mem'[j].kv[k].cas < batch'[i].cas
    BY <2>1, <2>3, <2>4, <2>7
  <2>9. \A i, j \in DOMAIN batch' : i < j => batch'[i].cas < batch'[j].cas
    <3> SUFFICES ASSUME NEW i \in DOMAIN batch', NEW j \in DOMAIN batch', i < j
                 PROVE  batch'[i].cas < batch'[j].cas
      OBVIOUS
    <3>1. i + 1 < j + 1
      BY <2>2
    <3> QED
      BY <2>4, <2>7, <3>1
  <2>10. \A i \in DOMAIN batch' : batch'[i].cas <= casCounter'
    BY <2>1, <2>4, <2>7
  <2> QED
    BY <2>1, <2>5, <2>6, <2>8, <2>9, <2>10 DEF CasInv
<1>8. CASE \/ EnsureRoom \/ FlushTakes \/ FlushAdds \/ AdvanceImm \/ FlushFails
           \/ Close \/ CloseSkips \/ CloseFlushes \/ CloseQuits \/ Closed
  BY <1>1, <1>8 DEF EnsureRoom, FlushTakes, FlushAdds, AdvanceImm, FlushFails, Close, CloseSkips,
                    CloseFlushes, CloseQuits, Closed
<1> QED
  BY <1>2, <1>3, <1>4, <1>5, <1>6, <1>7, <1>8, PhasesStep

-----------------------------------------------------------------------------
(* Being the newest record depends on the memtables looked at only. *)
LEMMA NewestSame ==
  ASSUME NEW m1, NEW m2, NEW r, NEW n, NEW k,
         \A i \in 1 .. n : m2[i].kv[k] = m1[i].kv[k],
         IsNewest(m1, r, n, k)
  PROVE  IsNewest(m2, r, n, k)
<1>1. CASE r = NoRecord
  BY <1>1 DEF IsNewest
<1>2. CASE r # NoRecord
  <2>1. PICK i \in 1 .. n : r = m1[i].kv[k] /\ \A j \in i + 1 .. n : m1[j].kv[k] = NoRecord
    BY <1>2 DEF IsNewest
  <2>2. \A j \in i + 1 .. n : j \in 1 .. n
    OBVIOUS
  <2> QED
    BY <1>2, <2>1, <2>2 DEF IsNewest
<1> QED
  BY <1>1, <1>2

(* One more memtable: its record is the newest, or the newest is the same. *)
LEMMA NewestNext ==
  ASSUME NEW m, NEW r, NEW n \in Nat, NEW k, IsNewest(m, r, n, k)
  PROVE  IsNewest(m, IF m[n + 1].kv[k] # NoRecord THEN m[n + 1].kv[k] ELSE r, n + 1, k)
<1>1. CASE m[n + 1].kv[k] # NoRecord
  <2>1. n + 1 \in 1 .. n + 1 /\ \A j \in (n + 1) + 1 .. n + 1 : FALSE
    OBVIOUS
  <2> QED
    BY <1>1, <2>1 DEF IsNewest
<1>2. CASE m[n + 1].kv[k] = NoRecord
  <2>1. \A j \in 1 .. n + 1 : j \in 1 .. n \/ j = n + 1
    OBVIOUS
  <2>2. CASE r = NoRecord
    BY <1>2, <2>1, <2>2 DEF IsNewest
  <2>3. CASE r # NoRecord
    <3>1. PICK i \in 1 .. n : r = m[i].kv[k] /\ \A j \in i + 1 .. n : m[j].kv[k] = NoRecord
      BY <2>3 DEF IsNewest
    <3>2. i \in 1 .. n + 1 /\ \A j \in i + 1 .. n + 1 : j \in i + 1 .. n \/ j = n + 1
      OBVIOUS
    <3>3. \A j \in i + 1 .. n + 1 : m[j].kv[k] = NoRecord
      BY <1>2, <3>1, <3>2
    <3> QED
      BY <1>2, <2>3, <3>1, <3>2, <3>3 DEF IsNewest
  <2> QED
    BY <2>2, <2>3
<1> QED
  BY <1>1, <1>2

(***************************************************************************)
(* No record of the first n memtables is newer than the newest.            *)
(***************************************************************************)
LEMMA NewestCas ==
  ASSUME TypeInv, CasInv, NEW r, NEW n \in 0 .. Mt, NEW k \in Keys, IsNewest(mem, r, n, k),
         NEW i \in 1 .. n
  PROVE  mem[i].kv[k].cas <= r.cas
<1>1. /\ Mt \in Nat /\ DOMAIN mem = 1 .. Mt /\ i \in 1 .. Mt
      /\ mem[i].kv[k] \in Record /\ mem[i].kv[k].cas \in Nat
  BY SeqFacts, RecordFacts
<1>2. CASE r = NoRecord
  BY <1>1, <1>2 DEF IsNewest
<1>3. CASE r # NoRecord
  <2>1. PICK j \in 1 .. n : r = mem[j].kv[k] /\ \A l \in j + 1 .. n : mem[l].kv[k] = NoRecord
    BY <1>3 DEF IsNewest
  <2>2. j \in 1 .. Mt /\ mem[j].kv[k] \in Record /\ mem[j].kv[k].cas \in Nat
    BY <1>1, <2>1, SeqFacts, RecordFacts
  <2>3. CASE i = j
    BY <1>1, <2>1, <2>3
  <2>4. CASE i < j
    BY <1>1, <1>3, <2>1, <2>2, <2>4 DEF CasInv
  <2>5. CASE i > j
    <3>1. mem[i].kv[k] = NoRecord
      BY <2>1, <2>5
    <3> QED
      BY <2>1, <2>2, <3>1 DEF NoRecord
  <2> QED
    BY <2>3, <2>4, <2>5
<1> QED
  BY <1>2, <1>3

(* What a client was told of last is the newest record in the memtables. *)
LEMMA LatestStep ==
  ASSUME IInv, TypeInv', [Next]_vars
  PROVE  LatestInv'
<1> USE DEF memVars, flushVars, logVars, writeVars, otherVars, CloseUnchanged
<1>0. TypeInv /\ Phases /\ LatestInv
  BY DEF IInv
<1>1. ASSUME UNCHANGED <<mem, latest>>
      PROVE  LatestInv'
  BY <1>0, <1>1 DEF LatestInv, Mt
<1>2. CASE SwapFull \/ CloseSwaps
  <2>1. SwapSt /\ UNCHANGED latest
    BY <1>2 DEF SwapFull, CloseSwaps
  <2>2. /\ Mt' = Mt + 1 /\ Mt \in Nat /\ \A i \in 1 .. Mt : mem'[i] = mem[i]
        /\ \A k \in Keys : mem'[Mt + 1].kv[k] = NoRecord
    BY <1>0, <2>1, SwapFacts, SeqFacts, NewMemTableType
  <2>3. ASSUME NEW k \in Keys
        PROVE  IsNewest(mem', latest[k], Mt + 1, k)
    <3>1. IsNewest(mem', latest[k], Mt, k)
      BY <1>0, <2>2, NewestSame DEF LatestInv
    <3> QED
      BY <2>2, <3>1, NewestNext
  <2> QED
    BY <2>1, <2>2, <2>3 DEF LatestInv
<1>3. CASE WriteToLsm
  <2>1. Mt' = Mt /\ DOMAIN mem = 1 .. Mt /\ Mt \in Nat /\ Mt > 0
    BY <1>0, <1>3, PutFacts, SeqFacts
  <2>2. CASE Refused(batch[1])
    BY <1>0, <1>1, <1>3, <2>2, PutFacts
  <2>3. CASE ~ Refused(batch[1])
    <3> SUFFICES ASSUME NEW k \in Keys
                 PROVE  IsNewest(mem', latest'[k], Mt, k)
      BY <2>1 DEF LatestInv
    <3>1. CASE k # batch[1].key
      <4>1. latest'[k] = latest[k] /\ \A i \in 1 .. Mt : mem'[i].kv[k] = mem[i].kv[k]
        BY <1>0, <1>3, <2>1, <2>3, <3>1, PutFacts
      <4> QED
        BY <1>0, <4>1, NewestSame DEF LatestInv
    <3>2. CASE k = batch[1].key
      <4>1. latest'[k] = RecordOf(batch[1]) /\ mem'[Mt].kv[k] = RecordOf(batch[1])
        BY <1>0, <1>3, <2>1, <2>3, <3>2, PutFacts
      <4>2. RecordOf(batch[1]) # NoRecord
        BY <1>0, <1>3, PutFacts, OpsAssumption DEF RecordOf, NoRecord, Request
      <4>3. Mt \in 1 .. Mt /\ \A j \in Mt + 1 .. Mt : FALSE
        BY <2>1
      <4> QED
        BY <4>1, <4>2, <4>3 DEF IsNewest
    <3> QED
      BY <3>1, <3>2
  <2> QED
    BY <2>2, <2>3
<1>4. CASE \/ Gather \/ NumberRequests \/ WriteLog \/ WriteLogFails \/ EnsureRoom
           \/ FlushTakes \/ FlushAdds \/ AdvanceImm \/ FlushFails
           \/ Close \/ CloseSkips \/ CloseFlushes \/ CloseQuits \/ Closed
  BY <1>1, <1>4 DEF Gather, NumberRequests, WriteLog, WriteLogFails, EnsureRoom, FlushTakes,
                    FlushAdds, AdvanceImm, FlushFails, Close, CloseSkips, CloseFlushes, CloseQuits,
                    Closed
<1> QED
  BY <1>2, <1>3, <1>4, PhasesStep

-----------------------------------------------------------------------------
(* The head after a flush is the task's pointer, also when that is 0. *)
LEMMA HeadAfterFlush ==
  ASSUME IInv, FlushAdds
  PROVE  disk'.head.ptr = flusher.task.vptr
<1>1. disk'.head = StoredHead(flusher.task)
  BY DEF FlushAdds, AddLevel0
<1>2. flusher.task \in Task /\ flusher.task.mt # 0 /\ disk.head.ptr \in Nat /\ disk.head.cas \in Nat
  <2>1. TypeInv /\ ImmInv
    BY DEF IInv
  <2>2. flusher.task.mt = FirstImm /\ FirstImm \in 1 .. Mt
    BY <2>1, FirstImmType DEF IInv, TasksInv, Flushing, FlushAdds
  <2> QED
    BY <2>1, <2>2 DEF TypeInv, Task
<1>3. disk.head.ptr <= flusher.task.vptr
  BY <1>2 DEF IInv, ChanPtr, TaskPtr, FlushAdds
<1> QED
  BY <1>1, <1>2, <1>3 DEF StoredHead, Task

(* The levels follow the memtables, one flush at a time. *)
LEMMA DiskStep ==
  ASSUME IInv, TypeInv', Phases', [Next]_vars
  PROVE  DiskInv'
<1> USE DEF memVars, flushVars, logVars, writeVars, otherVars, CloseUnchanged
<1>0. TypeInv /\ Phases /\ ImmInv /\ TasksInv /\ CasInv /\ DiskInv /\ BatchPtr /\ ChanPtr
  BY DEF IInv
<1>1. PICK d \in 0 .. Mt :
        /\ FlushedTo(d)
        /\ flusher.at \in {"idle", "write", "exit"} => d = FirstImm - 1
        /\ flusher.at = "advance" => d = FirstImm
        /\ flusher.at = "dead" => d \in {FirstImm - 1, FirstImm}
        /\ d = Mt => Swapping
  BY <1>0 DEF DiskInv
<1>2. Mt \in Nat /\ FirstImm \in 1 .. Mt /\ DOMAIN mem = 1 .. Mt
  BY <1>0, FirstImmType, SeqFacts
<1>3. ASSUME UNCHANGED <<mem, disk>>, FirstImm' = FirstImm, Swapping => Swapping',
             \/ UNCHANGED flusher
             \/ flusher.at = "idle" /\ flusher'.at \in {"write", "exit"}
             \/ flusher.at = "write" /\ flusher'.at = "dead"
      PROVE  DiskInv'
  <2>1. FlushedTo(d)' /\ Mt' = Mt
    BY <1>1, <1>3 DEF FlushedTo, Mt
  <2>2. /\ flusher'.at \in {"idle", "write", "exit"} => d = FirstImm' - 1
        /\ flusher'.at = "advance" => d = FirstImm'
        /\ flusher'.at = "dead" => d \in {FirstImm' - 1, FirstImm'}
    BY <1>1, <1>3
  <2>3. disk'.head.ptr # 0 => \A k \in Keys : disk'.kv[k].cas <= disk'.head.cas
    BY <1>0, <1>3 DEF DiskInv
  <2> QED
    BY <1>1, <1>3, <2>1, <2>2, <2>3 DEF DiskInv
<1>4. CASE Gather
  BY <1>3, <1>4 DEF Gather, FirstImm, Mt, Swapping
<1>5. CASE NumberRequests \/ WriteLog \/ WriteLogFails \/ EnsureRoom
  BY <1>3, <1>5 DEF NumberRequests, WriteLog, WriteLogFails, EnsureRoom, FirstImm, Mt, Swapping
<1>6. CASE Close \/ CloseSkips \/ CloseFlushes \/ CloseQuits \/ Closed
  BY <1>3, <1>6 DEF Close, CloseSkips, CloseFlushes, CloseQuits, Closed, FirstImm, Mt, Swapping
<1>7. CASE FlushTakes \/ FlushFails
  <2>1. \/ flusher.at = "idle" /\ flusher'.at \in {"write", "exit"}
        \/ flusher.at = "write" /\ flusher'.at = "dead"
    BY <1>0, <1>7 DEF FlushTakes, FlushFails, TypeInv
  <2> QED
    BY <1>3, <1>7, <2>1 DEF FlushTakes, FlushFails, FirstImm, Mt, Swapping
<1>8. CASE SwapFull \/ CloseSwaps
  <2>1. SwapSt /\ UNCHANGED <<disk, flusher>>
    BY <1>8 DEF SwapFull, CloseSwaps
  <2>2. /\ Mt' = Mt + 1 /\ FirstImm' = FirstImm /\ \A i \in 1 .. Mt : mem'[i] = mem[i]
        /\ \A k \in Keys : mem'[Mt + 1].kv[k] = NoRecord
    BY <1>0, <2>1, SwapFacts, NewMemTableType
  <2>3. \A k \in Keys : IsNewest(mem', disk'.kv[k], d, k)
    <3> SUFFICES ASSUME NEW k \in Keys
                 PROVE  IsNewest(mem', disk.kv[k], d, k)
      BY <2>1
    <3>1. \A i \in 1 .. d : mem'[i].kv[k] = mem[i].kv[k]
      BY <1>2, <2>2
    <3>2. IsNewest(mem, disk.kv[k], d, k)
      BY <1>1 DEF FlushedTo
    <3> QED
      BY <3>1, <3>2, NewestSame
  <2>4. ASSUME NEW j \in d + 1 .. Mt + 1, NEW k \in Keys, mem'[j].kv[k].ptr # 0
        PROVE  disk'.head.ptr < mem'[j].kv[k].ptr
    <3>1. j # Mt + 1
      BY <2>2, <2>4 DEF NoRecord
    <3>2. j \in d + 1 .. Mt /\ mem'[j] = mem[j]
      BY <1>2, <2>2, <3>1
    <3> QED
      BY <1>1, <2>1, <2>4, <3>2 DEF FlushedTo
  <2>5. d \in 0 .. Mt + 1 /\ d # Mt + 1
    BY <1>2
  <2> QED
    BY <1>0, <1>1, <2>1, <2>2, <2>3, <2>4, <2>5 DEF DiskInv, FlushedTo
<1>9. CASE WriteToLsm
  <2>1. Mt' = Mt /\ FirstImm' = FirstImm /\ UNCHANGED <<disk, flusher, closer>> /\ 1 \in DOMAIN batch
    BY <1>0, <1>9, PutFacts DEF WriteToLsm, FirstImm
  <2>2. ~ Swapping /\ d # Mt /\ d < Mt
    <3>1. ~ Swapping
      BY <1>0, <1>9 DEF WriteToLsm, Phases, Swapping
    <3> QED
      BY <1>1, <1>2, <3>1
  <2>3. \A i \in 1 .. Mt, k \in Keys :
          \/ mem'[i].kv[k] = mem[i].kv[k]
          \/ i = Mt /\ mem'[i].kv[k].ptr = batch[1].ptr
    BY <1>0, <1>2, <1>9, PutFacts DEF RecordOf
  <2>4. \A k \in Keys : IsNewest(mem', disk'.kv[k], d, k)
    <3> SUFFICES ASSUME NEW k \in Keys
                 PROVE  IsNewest(mem', disk.kv[k], d, k)
      BY <2>1
    <3>1. \A i \in 1 .. d : mem'[i].kv[k] = mem[i].kv[k]
      BY <1>2, <2>2, <2>3
    <3>2. IsNewest(mem, disk.kv[k], d, k)
      BY <1>1 DEF FlushedTo
    <3> QED
      BY <3>1, <3>2, NewestSame
  <2>5. ASSUME NEW j \in d + 1 .. Mt, NEW k \in Keys, mem'[j].kv[k].ptr # 0
        PROVE  disk'.head.ptr < mem'[j].kv[k].ptr
    <3>1. CASE mem'[j].kv[k] = mem[j].kv[k]
      BY <1>1, <2>1, <2>5, <3>1 DEF FlushedTo
    <3>2. CASE mem'[j].kv[k].ptr = batch[1].ptr
      <4>1. disk.head.ptr \in Nat /\ vptr \in Nat /\ batch[1].ptr \in Nat
        BY <1>0, <1>9, PutFacts DEF TypeInv, Request
      <4>2. disk.head.ptr <= vptr /\ vptr < batch[1].ptr
        BY <1>0, <2>1, <2>5, <3>2 DEF BatchPtr
      <4> QED
        BY <2>1, <3>2, <4>1, <4>2
    <3>3. j \in 1 .. Mt
      BY <1>2
    <3> QED
      BY <2>3, <3>1, <3>2, <3>3
  <2> QED
    BY <1>0, <1>1, <2>1, <2>2, <2>4, <2>5 DEF DiskInv, FlushedTo
<1>10. CASE FlushAdds
  <2> DEFINE n == flusher.task.mt
  <2>1. /\ flusher.at = "write" /\ flusher'.at = "advance" /\ disk' = AddLevel0(flusher.task)
        /\ UNCHANGED <<mem, imm, writer, closer, flushChan, casCounter>>
    BY <1>0, <1>10 DEF FlushAdds, TypeInv
  <2>2. n = FirstImm /\ d = FirstImm - 1 /\ Mt' = Mt /\ FirstImm' = FirstImm
    BY <1>0, <1>1, <2>1 DEF TasksInv, Flushing, FirstImm, Mt
  <2>3. n \in 1 .. Mt /\ n = d + 1 /\ d \in Nat
    BY <1>2, <2>2
  <2> HIDE DEF n
  <2>4. \A k \in Keys :
          disk'.kv[k] = IF mem[n].kv[k] # NoRecord THEN mem[n].kv[k] ELSE disk.kv[k]
    BY <2>1 DEF AddLevel0, n
  <2>5. \A k \in Keys : IsNewest(mem', disk'.kv[k], n, k)
    <3> SUFFICES ASSUME NEW k \in Keys
                 PROVE  IsNewest(mem, disk'.kv[k], n, k)
      BY <2>1
    <3>1. IsNewest(mem, disk.kv[k], d, k)
      BY <1>1 DEF FlushedTo
    <3>2. IsNewest(mem, IF mem[d + 1].kv[k] # NoRecord THEN mem[d + 1].kv[k] ELSE disk.kv[k], d + 1, k)
      BY <2>3, <3>1, NewestNext
    <3> QED
      BY <2>3, <2>4, <3>2
  <2>6. \A j \in n + 1 .. Mt, k \in Keys :
          mem'[j].kv[k].ptr # 0 => disk'.head.ptr < mem'[j].kv[k].ptr
    <3>1. TaskPtr(flusher.task, mem, disk.head.ptr, vptr) /\ n # 0
      BY <1>0, <1>2, <2>1, <2>3 DEF ChanPtr
    <3>2. disk'.head.ptr = flusher.task.vptr
      BY <1>10, HeadAfterFlush
    <3> QED
      BY <2>1, <3>1, <3>2 DEF TaskPtr, n, Mt
  <2>7. FlushedTo(d + 1)'
    BY <2>2, <2>3, <2>5, <2>6 DEF FlushedTo
  <2>8. ASSUME disk'.head.ptr # 0, NEW k \in Keys
        PROVE  disk'.kv[k].cas <= disk'.head.cas
    <3>1. disk'.head.cas = casCounter
      <4>1. flusher.task.vptr # 0
        BY <1>10, <2>8, HeadAfterFlush
      <4> QED
        BY <2>1, <4>1 DEF AddLevel0, StoredHead
    <3>2. mem[n].kv[k].cas <= casCounter
      BY <1>0, <1>2, <2>3 DEF CasInv
    <3>3. disk.kv[k].cas <= casCounter
      <4>1. IsNewest(mem, disk.kv[k], d, k)
        BY <1>1 DEF FlushedTo
      <4>2. CASE disk.kv[k] = NoRecord
        BY <1>0, <4>2 DEF NoRecord, TypeInv
      <4>3. CASE disk.kv[k] # NoRecord
        <5>1. PICK i \in 1 .. d : disk.kv[k] = mem[i].kv[k]
          BY <4>1, <4>3 DEF IsNewest
        <5>2. i \in DOMAIN mem
          BY <1>2, <5>1
        <5> QED
          BY <1>0, <5>1, <5>2 DEF CasInv
      <4> QED
        BY <4>2, <4>3
    <3> QED
      BY <2>4, <3>1, <3>2, <3>3
  <2>9. d + 1 = Mt => Swapping'
    <3>1. Len(flushChan) \in Nat /\ Len(flushChan) + FirstImm + 1 = IF Swapping \/ QuitSent THEN Mt + 1 ELSE Mt
      BY <1>0, <1>2, <2>1, SeqFacts DEF TasksInv, NextFlush, Flushing
    <3>2. QuitSent => Len(flushChan) > 0
      BY <1>0, <2>1 DEF TasksInv
    <3>3. d + 1 = Mt => Swapping
      BY <1>2, <2>2, <3>1, <3>2
    <3> QED
      BY <2>1, <3>3 DEF Swapping
  <2> QED
    <3>1. d + 1 \in 0 .. Mt' /\ d + 1 = FirstImm'
      BY <1>2, <2>2, <2>3
    <3> QED
      BY <2>1, <2>2, <2>7, <2>8, <2>9, <3>1 DEF DiskInv
<1>11. CASE AdvanceImm
  <2>1. flusher.at = "advance" /\ d = FirstImm /\ UNCHANGED <<mem, disk, writer, closer>>
    BY <1>1, <1>11 DEF AdvanceImm
  <2>2. FlushedTo(d)' /\ Mt' = Mt /\ (Swapping' <=> Swapping)
    BY <1>1, <2>1 DEF FlushedTo, Mt, Swapping
  <2>3. CASE imm = <<>>
    <3>1. flusher'.at = "dead" /\ FirstImm' = FirstImm
      BY <1>0, <1>11, <2>2, <2>3 DEF AdvanceImm, TypeInv, FirstImm
    <3> QED
      BY <1>0, <1>1, <2>1, <2>2, <3>1 DEF DiskInv
  <2>4. CASE imm # <<>>
    <3>1. flusher'.at = "idle" /\ imm' = Tail(imm) /\ imm \in Seq(Nat)
      BY <1>0, <1>11, <2>4 DEF AdvanceImm, TypeInv
    <3>2. FirstImm' = FirstImm + 1
      BY <1>0, <2>2, <2>4, <3>1, TailElements, SeqFacts DEF FirstImm
    <3>3. d = FirstImm' - 1
      BY <1>2, <2>1, <3>2
    <3> QED
      BY <1>0, <1>1, <2>1, <2>2, <3>1, <3>3 DEF DiskInv
  <2> QED
    BY <2>3, <2>4
<1> QED
  BY <1>4, <1>5, <1>6, <1>7, <1>8, <1>9, <1>10, <1>11, PhasesStep

-----------------------------------------------------------------------------
(* Value pointers grow along the log, the batch and what has been applied. *)
LEMMA BatchPtrStep ==
  ASSUME IInv, TypeInv', Phases', [Next]_vars
  PROVE  BatchPtr'
<1> USE DEF memVars, flushVars, logVars, writeVars, otherVars, CloseUnchanged
<1>0. TypeInv /\ Phases /\ BatchPtr /\ ChanPtr
  BY DEF IInv
<1>1. ASSUME UNCHANGED <<vptr, vlogEnd, disk>>,
             UNCHANGED batch \/ \A i \in DOMAIN batch' : batch'[i].ptr = 0
      PROVE  BatchPtr'
  BY <1>0, <1>1 DEF BatchPtr
<1>2. CASE Gather
  BY <1>1, <1>2 DEF Gather, IsFresh
<1>3. CASE NumberRequests
  <2>1. writer' = "log" /\ UNCHANGED <<vptr, vlogEnd, disk>>
    BY <1>3 DEF NumberRequests
  <2> QED
    BY <1>1, <2>1 DEF Phases
<1>4. CASE WriteLog
  <2>1. /\ UNCHANGED <<vptr, disk>>
        /\ vlogEnd' = vlogEnd + Rank(Len(batch))
        /\ batch' = [i \in DOMAIN batch |->
                      [batch[i] EXCEPT !.ptr = IF Logged(batch[i]) THEN vlogEnd + Rank(i) ELSE 0]]
    BY <1>4 DEF WriteLog, Rank
  <2>2. /\ Len(batch) \in Nat /\ DOMAIN batch = 1 .. Len(batch)
        /\ vptr \in Nat /\ vlogEnd \in Nat /\ vptr <= vlogEnd
        /\ disk.head.ptr <= vptr
        /\ \A i \in 1 .. Len(batch) : batch[i] \in Request
    BY <1>0, SeqFacts, ElementOfSeq DEF TypeInv, BatchPtr
  <2>3. DOMAIN batch' = 1 .. Len(batch)
        /\ \A i \in 1 .. Len(batch) :
              batch'[i].ptr = IF Logged(batch[i]) THEN vlogEnd + Rank(i) ELSE 0
    BY <2>1, <2>2 DEF Request
  <2>4. Rank(0) = 0
    <3>1. {j \in 1 .. 0 : Logged(batch[j])} = {}
      OBVIOUS
    <3> QED
      BY <3>1, FS_EmptySet DEF Rank
  <2>5. ASSUME NEW i \in 1 .. Len(batch), Logged(batch[i])
        PROVE  Rank(i) \in Nat /\ Rank(Len(batch)) \in Nat /\ Rank(i) > 0 /\ Rank(i) <= Rank(Len(batch))
    <3>1. Rank(0) < Rank(i)
      BY <2>2, <2>5, RankFacts
    <3>2. Rank(i) \in Nat /\ Rank(Len(batch)) \in Nat /\ Rank(i) <= Rank(Len(batch))
      BY <2>2, RankFacts
    <3> QED
      BY <2>4, <3>1, <3>2
  <2>6. ASSUME NEW i \in 1 .. Len(batch), batch'[i].ptr # 0
        PROVE  Logged(batch[i]) /\ batch'[i].ptr = vlogEnd + Rank(i)
    BY <2>3, <2>6
  <2>7. \A i \in DOMAIN batch' : batch'[i].ptr # 0 => vptr' < batch'[i].ptr /\ batch'[i].ptr <= vlogEnd'
    <3> SUFFICES ASSUME NEW i \in 1 .. Len(batch), batch'[i].ptr # 0
                 PROVE  vptr' < batch'[i].ptr /\ batch'[i].ptr <= vlogEnd'
      BY <2>3
    <3>1. /\ batch'[i].ptr = vlogEnd + Rank(i) /\ Rank(i) \in Nat /\ Rank(Len(batch)) \in Nat
          /\ Rank(i) > 0 /\ Rank(i) <= Rank(Len(batch))
      BY <2>5, <2>6
    <3> QED
      BY <2>1, <2>2, <3>1
  <2>8. ASSUME NEW i \in 1 .. Len(batch), NEW j \in 1 .. Len(batch), i < j,
               batch'[i].ptr # 0, batch'[j].ptr # 0
        PROVE  batch'[i].ptr < batch'[j].ptr
    <3>1. Rank(i) < Rank(j) /\ Rank(i) \in Nat /\ Rank(j) \in Nat
      <4>1. i \in Nat /\ j \in Nat /\ i <= j
        BY <2>2, <2>8
      <4>2. Logged(batch[j])
        BY <2>6, <2>8
      <4> QED
        BY <4>1, <4>2, <2>8, RankFacts
    <3> QED
      BY <2>2, <2>6, <2>8, <3>1
  <2>9. Rank(Len(batch)) \in Nat
    BY <2>2, RankFacts
  <2>10. vptr' <= vlogEnd' /\ disk'.head.ptr <= vptr'
    BY <2>1, <2>2, <2>9
  <2> QED
    BY <2>3, <2>7, <2>8, <2>10 DEF BatchPtr
<1>5. CASE WriteLogFails
  <2>1. \A i \in DOMAIN batch' : FALSE
    BY <1>5 DEF WriteLogFails
  <2> QED
    BY <1>1, <1>5, <2>1 DEF WriteLogFails
<1>6. CASE WriteToLsm
  <2>1. /\ UNCHANGED <<disk, vlogEnd>> /\ batch # <<>> /\ batch \in Seq(Request)
        /\ batch' = Tail(batch) /\ 1 \in DOMAIN batch
        /\ vptr' = IF batch[1].ptr # 0 THEN batch[1].ptr ELSE vptr
    BY <1>0, <1>6, PutFacts DEF WriteToLsm, TypeInv
  <2>2. /\ Len(batch) \in Nat /\ DOMAIN batch = 1 .. Len(batch) /\ DOMAIN batch' = 1 .. Len(batch) - 1
        /\ \A i \in 1 .. Len(batch) - 1 : batch'[i] = batch[i + 1]
    BY <2>1, TailElements
  <2>3. /\ vptr \in Nat /\ vlogEnd \in Nat /\ disk.head.ptr \in Nat
        /\ \A i \in DOMAIN batch : batch[i].ptr \in Nat
    <3>1. \A i \in DOMAIN batch : batch[i] \in Request
      BY <2>1, <2>2, ElementOfSeq
    <3> QED
      BY <1>0, <3>1 DEF TypeInv, Request
  <2>4. vptr' <= vlogEnd' /\ disk'.head.ptr <= vptr'
    BY <1>0, <2>1, <2>3 DEF BatchPtr
  <2>5. ASSUME NEW i \in DOMAIN batch'
        PROVE  i + 1 \in DOMAIN batch /\ 1 < i + 1 /\ batch'[i] = batch[i + 1]
    BY <2>2
  <2>6. \A i \in DOMAIN batch' : batch'[i].ptr # 0 => vptr' < batch'[i].ptr /\ batch'[i].ptr <= vlogEnd'
    BY <1>0, <2>1, <2>3, <2>5 DEF BatchPtr
  <2>7. ASSUME NEW i \in DOMAIN batch', NEW j \in DOMAIN batch', i < j,
               batch'[i].ptr # 0, batch'[j].ptr # 0
        PROVE  batch'[i].ptr < batch'[j].ptr
    <3>1. i + 1 < j + 1
      BY <2>2, <2>7
    <3> QED
      BY <1>0, <2>5, <2>7, <3>1 DEF BatchPtr
  <2> QED
    BY <2>4, <2>6, <2>7 DEF BatchPtr
<1>7. CASE FlushAdds
  <2>1. UNCHANGED <<vptr, vlogEnd, batch>>
    BY <1>7 DEF FlushAdds
  <2>2. disk'.head.ptr <= vptr
    BY <1>0, <1>7, HeadAfterFlush DEF ChanPtr, TaskPtr, FlushAdds
  <2> QED
    BY <1>0, <2>1, <2>2 DEF BatchPtr
<1>8. CASE \/ EnsureRoom \/ SwapFull \/ FlushTakes \/ AdvanceImm \/ FlushFails
           \/ Close \/ CloseSkips \/ CloseFlushes \/ CloseSwaps \/ CloseQuits \/ Closed
  BY <1>1, <1>8 DEF EnsureRoom, SwapFull, FlushTakes, AdvanceImm, FlushFails, Close, CloseSkips,
                    CloseFlushes, CloseSwaps, CloseQuits, Closed
<1> QED
  BY <1>2, <1>3, <1>4, <1>5, <1>6, <1>7, <1>8, PhasesStep

(* A task that is sent carries the last pointer applied, or is the order to quit. *)
LEMMA TaskPtrSent ==
  ASSUME TypeInv, BatchPtr, ChanPtr, NEW t \in Task, flushChan' = Append(flushChan, t),
         UNCHANGED <<mem, disk, vptr, flusher>>,
         t.vptr <= vptr, t.mt # 0 => t.mt = Mt /\ t.vptr = vptr
  PROVE  ChanPtr'
<1> DEFINE n == Len(flushChan)
<1>1. /\ flushChan \in Seq(Task) /\ vptr \in Nat /\ disk.head.ptr \in Nat /\ Mt \in Nat
      /\ flusher.task \in Task
  BY SeqFacts DEF TypeInv
<1>2. /\ n \in Nat /\ DOMAIN flushChan = 1 .. n /\ DOMAIN flushChan' = 1 .. n + 1
      /\ \A i \in 1 .. n : flushChan'[i] = flushChan[i]
      /\ flushChan'[n + 1] = t
  BY <1>1, AppendElements
<1> HIDE DEF n
<1>3. \A i \in 1 .. n + 1 : i \in 1 .. n \/ i = n + 1
  BY <1>2
<1>4. TaskPtr(t, mem, disk.head.ptr, vptr)
  BY <1>1 DEF TaskPtr, BatchPtr, Mt
<1>5. \A i \in DOMAIN flushChan' : TaskPtr(flushChan'[i], mem', disk'.head.ptr, vptr')
  BY <1>2, <1>3, <1>4 DEF ChanPtr
<1>6. \A i \in 1 .. n : flushChan[i].vptr <= vptr
  BY <1>2 DEF ChanPtr, TaskPtr
<1>7. ASSUME NEW i \in DOMAIN flushChan', NEW j \in DOMAIN flushChan', i < j, flushChan'[j].mt # 0
      PROVE  flushChan'[i].vptr <= flushChan'[j].vptr
  <2>1. i \in 1 .. n
    BY <1>2, <1>7
  <2> QED
    BY <1>2, <1>3, <1>6, <1>7, <2>1 DEF ChanPtr
<1>8. ASSUME flusher'.at = "write"
      PROVE  /\ TaskPtr(flusher'.task, mem', disk'.head.ptr, vptr')
             /\ \A i \in DOMAIN flushChan' :
                  flushChan'[i].mt # 0 => flusher'.task.vptr <= flushChan'[i].vptr
  <2>1. TaskPtr(flusher.task, mem, disk.head.ptr, vptr) /\ flusher.task.vptr <= vptr
    BY <1>8 DEF ChanPtr, TaskPtr
  <2> QED
    BY <1>2, <1>3, <1>8, <2>1 DEF ChanPtr
<1> QED
  BY <1>5, <1>7, <1>8 DEF ChanPtr

(* The memtables and vptr move on while tasks wait. *)
LEMMA ChanPtrMoves ==
  ASSUME TypeInv, TypeInv', ChanPtr, UNCHANGED <<flushChan, flusher, disk>>, vptr <= vptr',
         \A j \in 1 .. Mt', k \in Keys :
           \/ mem'[j].kv[k].ptr = 0
           \/ j \in 1 .. Mt /\ mem'[j].kv[k] = mem[j].kv[k]
           \/ vptr < mem'[j].kv[k].ptr
  PROVE  ChanPtr'
<1>1. /\ vptr \in Nat /\ vptr' \in Nat /\ disk.head.ptr \in Nat /\ Mt \in Nat /\ Mt' \in Nat
      /\ flusher.task \in Task /\ \A i \in DOMAIN flushChan : flushChan[i] \in Task
      /\ \A j \in 1 .. Mt', k \in Keys : mem'[j].kv[k].ptr \in Nat
  <2>1. /\ mem' \in Seq(Memtable) /\ vptr \in Nat /\ vptr' \in Nat /\ disk.head.ptr \in Nat
        /\ flusher.task \in Task /\ flushChan \in Seq(Task)
    BY DEF TypeInv
  <2>2. Mt' \in Nat /\ \A j \in 1 .. Mt' : mem'[j] \in Memtable
    BY <2>1, LenProperties, ElementOfSeq DEF Mt
  <2>3. \A j \in 1 .. Mt', k \in Keys : mem'[j].kv[k] \in Record
    BY <2>2 DEF Memtable
  <2>4. Mt \in Nat /\ \A i \in DOMAIN flushChan : flushChan[i] \in Task
    BY <2>1, SeqFacts, ElementOfSeq
  <2> QED
    BY <2>1, <2>2, <2>3, <2>4, RecordFacts
<1>2. ASSUME NEW t \in Task, TaskPtr(t, mem, disk.head.ptr, vptr)
      PROVE  TaskPtr(t, mem', disk.head.ptr, vptr')
  <2>1. t.mt \in Nat /\ t.vptr \in Nat /\ t.vptr <= vptr
    BY <1>2 DEF TaskPtr, Task
  <2>2. ASSUME t.mt # 0, NEW j \in t.mt + 1 .. Len(mem'), NEW k \in Keys, mem'[j].kv[k].ptr # 0
        PROVE  t.vptr < mem'[j].kv[k].ptr
    <3>1. j \in 1 .. Mt' /\ j > t.mt
      BY <1>1, <2>1 DEF Mt
    <3>2. CASE j \in 1 .. Mt /\ mem'[j].kv[k] = mem[j].kv[k]
      <4>1. j \in t.mt + 1 .. Len(mem)
        BY <1>1, <2>1, <3>1, <3>2 DEF Mt
      <4> QED
        BY <1>2, <2>2, <3>2, <4>1 DEF TaskPtr
    <3>3. CASE vptr < mem'[j].kv[k].ptr
      BY <1>1, <2>1, <3>1, <3>3
    <3> QED
      BY <2>2, <3>1, <3>2, <3>3
  <2>3. t.vptr <= vptr'
    BY <1>1, <2>1
  <2> QED
    BY <1>2, <2>2, <2>3 DEF TaskPtr
<1> QED
  BY <1>1, <1>2 DEF ChanPtr

(* The pointers of the tasks stay in order, whoever sends or takes one. *)
LEMMA ChanPtrStep ==
  ASSUME IInv, TypeInv', Phases', [Next]_vars
  PROVE  ChanPtr'
<1> USE DEF memVars, flushVars, logVars, writeVars, otherVars, CloseUnchanged
<1>0. TypeInv /\ Phases /\ ImmInv /\ BatchPtr /\ ChanPtr
  BY DEF IInv
<1>1. ASSUME UNCHANGED <<flushChan, mem, disk, vptr>>, UNCHANGED flusher \/ flusher'.at # "write"
      PROVE  ChanPtr'
  BY <1>0, <1>1 DEF ChanPtr
<1>2. CASE EnsureRoom \/ CloseFlushes
  <2>1. /\ FlushTask \in Task /\ FlushTask.mt = Mt /\ FlushTask.vptr = vptr /\ vptr \in Nat
    BY <1>0, SeqFacts DEF FlushTask, Task, TypeInv
  <2>2. flushChan' = Append(flushChan, FlushTask) /\ UNCHANGED <<mem, disk, vptr, flusher>>
    BY <1>2 DEF EnsureRoom, CloseFlushes
  <2> QED
    BY <1>0, <2>1, <2>2, TaskPtrSent
<1>3. CASE CloseQuits
  <2>1. ExitTask \in Task /\ ExitTask.mt = 0 /\ ExitTask.vptr <= vptr
    BY <1>0 DEF ExitTask, Task, TypeInv
  <2>2. flushChan' = Append(flushChan, ExitTask) /\ UNCHANGED <<mem, disk, vptr, flusher>>
    BY <1>3 DEF CloseQuits
  <2> QED
    BY <1>0, <2>1, <2>2, TaskPtrSent
<1>4. CASE SwapFull \/ CloseSwaps
  <2>1. SwapSt /\ UNCHANGED <<flushChan, flusher, disk, vptr>>
    BY <1>4 DEF SwapFull, CloseSwaps
  <2>2. /\ Mt' = Mt + 1 /\ Mt \in Nat /\ \A i \in 1 .. Mt : mem'[i] = mem[i]
        /\ \A k \in Keys : mem'[Mt + 1].kv[k].ptr = 0
    BY <1>0, <2>1, SwapFacts, SeqFacts, NewMemTableType DEF NoRecord
  <2>3. \A j \in 1 .. Mt', k \in Keys :
           mem'[j].kv[k].ptr = 0 \/ (j \in 1 .. Mt /\ mem'[j].kv[k] = mem[j].kv[k])
    BY <2>2
  <2>4. vptr <= vptr'
    BY <1>0, <2>1 DEF TypeInv
  <2> QED
    BY <1>0, <2>1, <2>3, <2>4, ChanPtrMoves
<1>5. CASE WriteToLsm
  <2>1. /\ UNCHANGED <<flushChan, flusher, disk>> /\ Mt' = Mt /\ DOMAIN mem = 1 .. Mt
        /\ 1 \in DOMAIN batch /\ batch[1] \in Request
        /\ vptr' = IF batch[1].ptr # 0 THEN batch[1].ptr ELSE vptr
    BY <1>0, <1>5, PutFacts, SeqFacts DEF WriteToLsm
  <2>2. vptr \in Nat /\ (batch[1].ptr # 0 => vptr < batch[1].ptr)
    BY <1>0, <2>1 DEF BatchPtr, TypeInv
  <2>3. vptr <= vptr'
    BY <2>1, <2>2 DEF Request
  <2>4. \A j \in 1 .. Mt', k \in Keys :
          \/ mem'[j].kv[k].ptr = batch[1].ptr
          \/ j \in 1 .. Mt /\ mem'[j].kv[k] = mem[j].kv[k]
    BY <1>0, <1>5, <2>1, PutFacts DEF RecordOf
  <2> QED
    BY <1>0, <2>1, <2>2, <2>3, <2>4, ChanPtrMoves
<1>6. CASE FlushTakes
  <2>1. /\ flushChan \in Seq(Task) /\ flushChan # <<>> /\ flushChan' = Tail(flushChan)
        /\ flusher'.task = Head(flushChan)
        /\ UNCHANGED <<mem, disk, vptr>>
    BY <1>0, <1>6 DEF FlushTakes, TypeInv
  <2> DEFINE n == Len(flushChan)
  <2>2. /\ n \in Nat /\ n > 0 /\ DOMAIN flushChan = 1 .. n /\ DOMAIN flushChan' = 1 .. n - 1
        /\ Head(flushChan) = flushChan[1]
        /\ \A i \in 1 .. n - 1 : flushChan'[i] = flushChan[i + 1]
    BY <2>1, TailElements
  <2> HIDE DEF n
  <2>3. 1 \in DOMAIN flushChan /\ \A i \in DOMAIN flushChan' :
          i + 1 \in DOMAIN flushChan /\ 1 < i + 1 /\ flushChan'[i] = flushChan[i + 1]
    BY <2>2
  <2>4. \A i \in DOMAIN flushChan' : TaskPtr(flushChan'[i], mem', disk'.head.ptr, vptr')
    BY <1>0, <2>1, <2>3 DEF ChanPtr
  <2>5. ASSUME NEW i \in DOMAIN flushChan', NEW j \in DOMAIN flushChan', i < j, flushChan'[j].mt # 0
        PROVE  flushChan'[i].vptr <= flushChan'[j].vptr
    <3>1. i + 1 < j + 1
      BY <2>2, <2>5
    <3> QED
      BY <1>0, <2>3, <2>5, <3>1 DEF ChanPtr
  <2>6. TaskPtr(flusher'.task, mem', disk'.head.ptr, vptr')
    BY <1>0, <2>1, <2>2, <2>3 DEF ChanPtr
  <2>7. \A i \in DOMAIN flushChan' : flushChan'[i].mt # 0 => flusher'.task.vptr <= flushChan'[i].vptr
    BY <1>0, <2>1, <2>2, <2>3 DEF ChanPtr
  <2> QED
    BY <2>4, <2>5, <2>6, <2>7 DEF ChanPtr
<1>7. CASE FlushAdds
  <2>1. UNCHANGED <<mem, vptr, flushChan>> /\ flusher'.at # "write" /\ flusher.at = "write"
    BY <1>0, <1>7 DEF FlushAdds, TypeInv
  <2>2. disk'.head.ptr = flusher.task.vptr
    BY <1>7, HeadAfterFlush
  <2>3. ASSUME NEW i \in DOMAIN flushChan
        PROVE  TaskPtr(flushChan[i], mem, disk'.head.ptr, vptr)
    BY <1>0, <2>1, <2>2 DEF ChanPtr, TaskPtr
  <2> QED
    BY <1>0, <2>1, <2>3 DEF ChanPtr
<1>8. CASE \/ Gather \/ NumberRequests \/ WriteLog \/ WriteLogFails \/ Close \/ CloseSkips \/ Closed
  BY <1>1, <1>8 DEF Gather, NumberRequests, WriteLog, WriteLogFails, Close, CloseSkips, Closed
<1>9. CASE AdvanceImm \/ FlushFails
  <2>1. flusher'.at # "write"
    BY <1>0, <1>9 DEF AdvanceImm, FlushFails, TypeInv
  <2> QED
    BY <1>1, <1>9, <2>1 DEF AdvanceImm, FlushFails
<1> QED
  BY <1>2, <1>3, <1>4, <1>5, <1>6, <1>7, <1>8, <1>9, PhasesStep

-----------------------------------------------------------------------------
(* The invariant holds at the start. *)
LEMMA InitInv == Init => IInv
<1> SUFFICES ASSUME Init PROVE IInv
  OBVIOUS
<1>1. /\ mem = <<NewMemTable>> /\ imm = <<>> /\ flushChan = <<>>
      /\ flusher = [at |-> "idle", task |-> ExitTask]
      /\ disk = [kv |-> [k \in Keys |-> NoRecord], head |-> [ptr |-> 0, cas |-> 0]]
      /\ vlogEnd = 0 /\ vptr = 0 /\ casCounter = 0 /\ writeCh = <<>> /\ reqs = <<>> /\ batch = <<>>
      /\ writer = "select" /\ closer = "no" /\ latest = [k \in Keys |-> NoRecord]
      /\ client = [c \in Clients |-> "idle"] /\ reader = [at |-> "idle", missed |-> FALSE]
  BY DEF Init
<1>2. Mt = 1 /\ DOMAIN mem = {1} /\ mem[1] = NewMemTable /\ mem \in Seq(Memtable)
  BY <1>1, NewMemTableType DEF Mt
<1>3. Len(imm) = 0 /\ Len(flushChan) = 0 /\ DOMAIN imm = {} /\ DOMAIN flushChan = {} /\ DOMAIN batch = {}
      /\ FirstImm = 1 /\ NextFlush = 1 /\ ~ Flushing /\ ~ QuitSent /\ ~ Swapping
  BY <1>1, <1>2 DEF FirstImm, NextFlush, Flushing, QuitSent, Swapping
<1>4. TypeInv
  <2>1. ExitTask \in Task
    BY DEF ExitTask, Task
  <2>2. NoRecord \in Record
    BY DEF Record
  <2>3. reader \in Reader
    BY <1>1 DEF Reader
  <2>4. imm \in Seq(Nat) /\ flushChan \in Seq(Task) /\ writeCh \in Seq(Request) /\ reqs \in Seq(Request)
        /\ batch \in Seq(Request)
    BY <1>1
  <2>5. disk \in [kv : [Keys -> Record], head : [ptr : Nat, cas : Nat]] /\ latest \in [Keys -> Record]
    BY <1>1, <2>2
  <2>6. mem # <<>>
    BY <1>1
  <2> QED
    BY <1>1, <1>2, <2>1, <2>3, <2>4, <2>5, <2>6 DEF TypeInv
<1>5. Limits
  BY <1>2, <1>3, MemAssumption DEF Limits, NewMemTable
<1>6. Phases
  BY <1>1 DEF Phases
<1>7. ImmInv /\ TasksInv
  BY <1>2, <1>3 DEF ImmInv, TasksInv
<1>8. \A k \in Keys : mem[1].kv[k] = NoRecord /\ disk.kv[k] = NoRecord /\ latest[k] = NoRecord
  BY <1>1, <1>2, NewMemTableType
<1>9. CasInv
  BY <1>1, <1>2, <1>3, <1>8 DEF CasInv, NoRecord
<1>10. LatestInv
  BY <1>2, <1>8 DEF LatestInv, IsNewest
<1>11. DiskInv
  <2>1. FlushedTo(0)
    BY <1>1, <1>2, <1>8 DEF FlushedTo, IsNewest, NoRecord
  <2> QED
    BY <1>1, <1>2, <1>3, <2>1 DEF DiskInv
<1>12. BatchPtr /\ ChanPtr
  BY <1>1, <1>3 DEF BatchPtr, ChanPtr
<1> QED
  BY <1>4, <1>5, <1>6, <1>7, <1>9, <1>10, <1>11, <1>12 DEF IInv

(* The invariant is inductive. *)
THEOREM Invariant == Spec => []IInv
<1>1. IInv /\ [Next]_vars => IInv'
  <2> SUFFICES ASSUME IInv, [Next]_vars PROVE IInv'
    OBVIOUS
  <2>1. TypeInv' /\ Phases'
    BY TypeStep, PhasesStep
  <2> QED
    BY <2>1, LimitsStep, ImmStep, TasksStep, CasStep, LatestStep, DiskStep, BatchPtrStep, ChanPtrStep
       DEF IInv
<1> QED
  BY InitInv, <1>1, PTL DEF Spec

-----------------------------------------------------------------------------
(* TypeOK: no memtable is over-full and flush_chan keeps to its capacity. *)
THEOREM TypeCorrect == Spec => []TypeOK
<1>1. IInv => TypeOK
  <2> SUFFICES ASSUME IInv PROVE TypeOK
    OBVIOUS
  <2>0. TypeInv /\ ImmInv
    BY DEF IInv
  <2>1. ASSUME NEW i \in DOMAIN imm
        PROVE  imm[i] \in 1 .. Mt - 1
    <3>1. imm[i] = FirstImm + i - 1 /\ FirstImm = Mt - Len(imm) /\ Len(imm) < Mt
      BY <2>0 DEF ImmInv, FirstImm
    <3>2. Mt \in Nat /\ Len(imm) \in Nat /\ i \in 1 .. Len(imm)
      BY <2>0, SeqFacts
    <3> QED
      BY <3>1, <3>2
  <2>2. ToSet(imm) \subseteq 1 .. Mt - 1
    BY <2>1 DEF ToSet
  <2> QED
    BY <2>2 DEF IInv, TypeInv, Limits, BatchPtr, TypeOK
<1> QED
  BY <1>1, Invariant, PTL

(***************************************************************************)
(* HeadSafe: whatever order the write loop, the flush task and close run   *)
(* in, a replay of the value log from the stored !badger!head finds every  *)
(* logged record that is not in a table.                                   *)
(***************************************************************************)
THEOREM HeadIsSafe == Spec => []HeadSafe
<1>1. IInv => HeadSafe
  <2> SUFFICES ASSUME IInv PROVE HeadSafe
    OBVIOUS
  <2>0. TypeInv /\ CasInv /\ DiskInv /\ BatchPtr
    BY DEF IInv
  <2>1. PICK d \in 0 .. Mt : FlushedTo(d)
    BY <2>0 DEF DiskInv
  <2>2. ASSUME NEW i \in DOMAIN mem, NEW k \in Keys,
               mem[i].kv[k].ptr # 0, mem[i].kv[k].cas > disk.kv[k].cas
        PROVE  mem[i].kv[k].ptr > disk.head.ptr
    <3>1. Mt \in Nat /\ i \in 1 .. Mt /\ mem[i].kv[k] \in Record /\ disk.kv[k] \in Record
      BY <2>0, SeqFacts DEF TypeInv
    <3>2. IsNewest(mem, disk.kv[k], d, k)
      BY <2>1 DEF FlushedTo
    <3>3. i \notin 1 .. d
      <4> SUFFICES ASSUME i \in 1 .. d PROVE FALSE
        OBVIOUS
      <4>1. mem[i].kv[k].cas <= disk.kv[k].cas
        BY <2>0, <3>2, NewestCas
      <4> QED
        BY <2>2, <3>1, <4>1, RecordFacts
    <3>4. i \in d + 1 .. Mt
      BY <3>1, <3>3
    <3>5. disk.head.ptr < mem[i].kv[k].ptr
      BY <2>1, <2>2, <3>4 DEF FlushedTo
    <3>6. disk.head.ptr \in Nat /\ mem[i].kv[k].ptr \in Nat
      BY <2>0, <3>1, RecordFacts DEF TypeInv
    <3> QED
      BY <3>5, <3>6
  <2>3. ASSUME NEW i \in DOMAIN batch, batch[i].ptr # 0
        PROVE  batch[i].ptr > disk.head.ptr
    <3>1. batch[i] \in Request /\ disk.head.ptr \in Nat /\ vptr \in Nat
      BY <2>0, SeqFacts, ElementOfSeq DEF TypeInv
    <3>2. disk.head.ptr <= vptr /\ vptr < batch[i].ptr
      BY <2>0, <2>3 DEF BatchPtr
    <3> QED
      BY <3>1, <3>2 DEF Request
  <2> QED
    BY <2>0, <2>2, <2>3 DEF HeadSafe, DiskInv
<1> QED
  BY <1>1, Invariant, PTL

-----------------------------------------------------------------------------
(***************************************************************************)
(* What _get's walk over a list of memtables returns: the record of the    *)
(* first one that has an answer.                                           *)
(***************************************************************************)
LEMMA SearchResult ==
  ASSUME NEW ts, DOMAIN ts \in SUBSET Nat, NEW k
  PROVE  \/ /\ MemSearch(ts, k) = NoRecord
            /\ \A i \in DOMAIN ts : mem[ts[i]].kv[k].op \in {"none", "empty"}
         \/ \E i \in DOMAIN ts :
              /\ MemSearch(ts, k) = mem[ts[i]].kv[k]
              /\ mem[ts[i]].kv[k].op \notin {"none", "empty"}
              /\ \A j \in DOMAIN ts : mem[ts[j]].kv[k].op \notin {"none", "empty"} => i <= j
<1> DEFINE hits == {i \in DOMAIN ts : mem[ts[i]].kv[k].op \notin {"none", "empty"}}
<1>1. CASE hits = {}
  BY <1>1 DEF MemSearch
<1>2. CASE hits # {}
  <2>1. hits \in SUBSET Nat
    OBVIOUS
  <2>2. Min(hits) \in hits /\ \A y \in hits : Min(hits) <= y
    BY <1>2, <2>1, MinOfNats
  <2>3. MemSearch(ts, k) = mem[ts[Min(hits)]].kv[k]
    BY <1>2 DEF MemSearch
  <2> QED
    BY <2>2, <2>3
<1> QED
  BY <1>1, <1>2

(***************************************************************************)
(* Where the last record of a key is: in a memtable that get_mem_tables    *)
(* lists, after which there is none, or in the levels.                     *)
(***************************************************************************)
LEMMA LatestPlace ==
  ASSUME IInv, NEW k \in Keys
  PROVE  \/ \E p \in DOMAIN MemTables :
              /\ latest[k] = mem[MemTables[p]].kv[k] /\ latest[k] # NoRecord
              /\ \A q \in DOMAIN MemTables : q < p => mem[MemTables[q]].kv[k] = NoRecord
         \/ /\ latest[k] = disk.kv[k]
            /\ \A q \in DOMAIN MemTables : mem[MemTables[q]].kv[k] = NoRecord
<1>0. TypeInv /\ ImmInv /\ LatestInv /\ DiskInv
  BY DEF IInv
<1>1. /\ Mt \in Nat /\ FirstImm \in 1 .. Mt /\ FirstImm = Mt - Len(imm) /\ Len(imm) \in Nat
      /\ flusher.at \in {"idle", "write", "advance", "exit", "dead"}
  BY <1>0, FirstImmType, SeqFacts DEF FirstImm, TypeInv
<1>2. /\ DOMAIN MemTables = 1 .. Len(imm) + 1
      /\ \A p \in 1 .. Len(imm) + 1 : MemTables[p] = Mt + 1 - p
  BY <1>0, MemTablesShape
<1>3. \A p \in DOMAIN MemTables : MemTables[p] \in FirstImm .. Mt
  BY <1>1, <1>2
<1>4. PICK d \in 0 .. Mt : IsNewest(mem, disk.kv[k], d, k) /\ FirstImm - 1 <= d
  BY <1>0, <1>1 DEF DiskInv, FlushedTo
<1>5. CASE latest[k] = NoRecord
  <2>1. \A i \in 1 .. Mt : mem[i].kv[k] = NoRecord
    BY <1>0, <1>5 DEF LatestInv, IsNewest
  <2>2. disk.kv[k] = NoRecord
    BY <1>1, <1>4, <2>1 DEF IsNewest
  <2> QED
    BY <1>1, <1>3, <1>5, <2>1, <2>2
<1>6. CASE latest[k] # NoRecord
  <2>1. PICK i \in 1 .. Mt : /\ latest[k] = mem[i].kv[k]
                             /\ \A j \in i + 1 .. Mt : mem[j].kv[k] = NoRecord
    BY <1>0, <1>6 DEF LatestInv, IsNewest
  <2>2. CASE i >= FirstImm
    <3> DEFINE p == Mt + 1 - i
    <3>1. p \in 1 .. Len(imm) + 1 /\ Mt + 1 - p = i
      BY <1>1, <2>1, <2>2
    <3>2. p \in DOMAIN MemTables /\ MemTables[p] = i
      BY <1>2, <3>1
    <3>3. ASSUME NEW q \in DOMAIN MemTables, q < p
          PROVE  mem[MemTables[q]].kv[k] = NoRecord
      <4>1. MemTables[q] = Mt + 1 - q /\ MemTables[q] \in i + 1 .. Mt
        BY <1>1, <1>2, <3>3
      <4> QED
        BY <2>1, <4>1
    <3> QED
      BY <1>6, <2>1, <3>2, <3>3
  <2>3. CASE i < FirstImm
    <3>1. \A q \in DOMAIN MemTables : mem[MemTables[q]].kv[k] = NoRecord
      <4> SUFFICES ASSUME NEW q \in DOMAIN MemTables
                   PROVE  MemTables[q] \in i + 1 .. Mt
        BY <2>1
      <4> QED
        BY <1>1, <1>3, <2>1, <2>3
    <3>2. i \in 1 .. d
      BY <1>1, <1>4, <2>1, <2>3
    <3>3. disk.kv[k] = mem[i].kv[k]
      <4>1. disk.kv[k] # NoRecord
        BY <1>4, <1>6, <2>1, <3>2 DEF IsNewest
      <4>2. PICK j \in 1 .. d : /\ disk.kv[k] = mem[j].kv[k]
                                /\ \A l \in j + 1 .. d : mem[l].kv[k] = NoRecord
        BY <1>4, <4>1 DEF IsNewest
      <4>3. ~ (j > i)
        BY <1>1, <2>1, <4>1, <4>2
      <4>4. ~ (i > j)
        BY <1>6, <2>1, <3>2, <4>2
      <4> QED
        BY <2>1, <4>2, <4>3, <4>4
    <3> QED
      BY <2>1, <3>1, <3>3
  <2> QED
    BY <1>1, <2>1, <2>2, <2>3
<1> QED
  BY <1>5, <1>6

(* _get returns the last record written. *)
LEMMA GetIsLatest ==
  ASSUME IInv, NEW k \in Keys, latest[k].op # "empty"
  PROVE  Get(k) = latest[k]
<1>0. TypeInv /\ ImmInv
  BY DEF IInv
<1>1. /\ DOMAIN MemTables \in SUBSET Nat
      /\ latest[k] \in Record
      /\ latest[k] # NoRecord => latest[k].op \notin {"none", "empty"}
  <2>1. latest[k] \in Record
    BY <1>0 DEF TypeInv
  <2>2. DOMAIN MemTables \in SUBSET Nat
    BY <1>0, MemTablesShape, SeqFacts
  <2> QED
    BY <2>1, <2>2, RecordFacts
<1>2. NoRecord.op = "none"
  BY DEF NoRecord
<1>3. CASE \E p \in DOMAIN MemTables :
              /\ latest[k] = mem[MemTables[p]].kv[k] /\ latest[k] # NoRecord
              /\ \A q \in DOMAIN MemTables : q < p => mem[MemTables[q]].kv[k] = NoRecord
  <2>1. PICK p \in DOMAIN MemTables :
              /\ latest[k] = mem[MemTables[p]].kv[k] /\ latest[k] # NoRecord
              /\ \A q \in DOMAIN MemTables : q < p => mem[MemTables[q]].kv[k] = NoRecord
    BY <1>3
  <2>2. PICK i \in DOMAIN MemTables :
              /\ MemSearch(MemTables, k) = mem[MemTables[i]].kv[k]
              /\ mem[MemTables[i]].kv[k].op \notin {"none", "empty"}
              /\ i <= p
    BY <1>1, <2>1, SearchResult
  <2>3. i = p
    BY <1>1, <1>2, <2>1, <2>2
  <2> QED
    BY <2>1, <2>2, <2>3 DEF Get
<1>4. CASE /\ latest[k] = disk.kv[k]
           /\ \A q \in DOMAIN MemTables : mem[MemTables[q]].kv[k] = NoRecord
  <2>1. MemSearch(MemTables, k) = NoRecord
    BY <1>1, <1>2, <1>4, SearchResult
  <2> QED
    BY <1>4, <2>1 DEF Get
<1> QED
  BY <1>3, <1>4, LatestPlace

(***************************************************************************)
(* LookupIsLatest: memtables and levels together always hold the last      *)
(* record of every key, at every point of a flush.                         *)
(***************************************************************************)
THEOREM LookupCorrect == Spec => []LookupIsLatest
<1>1. IInv => LookupIsLatest
  BY GetIsLatest DEF LookupIsLatest
<1> QED
  BY <1>1, Invariant, PTL

-----------------------------------------------------------------------------
(***************************************************************************)
(* ConditionalWrites: a write with a condition takes effect only if the    *)
(* condition holds of the last record, whatever other clients wrote in     *)
(* between, unless the last record has an empty value and is passed over.  *)
(***************************************************************************)
THEOREM ConditionalWritesCorrect == Spec => ConditionalWrites
<1> USE DEF memVars, flushVars, logVars, writeVars, otherVars, CloseUnchanged
<1> DEFINE Cond(k) ==
      latest'[k] # latest[k] /\ latest[k].op # "empty" =>
         /\ Head(batch).check # 0 =>
              latest[k].cas = Head(batch).check /\ latest[k].op # "delete"
         /\ Head(batch).op = "absent" => latest[k].op \in {"none", "delete"}
<1>1. ASSUME IInv, TypeInv', [Next]_vars, NEW k \in Keys, latest'[k] # latest[k],
             latest[k].op # "empty"
      PROVE  Cond(k)
  <2>0. TypeInv /\ Phases
    BY <1>1 DEF IInv
  <2>1. WriteToLsm
    <3>1. ~ UNCHANGED latest
      BY <1>1
    <3> QED
      BY <1>1, <3>1, PhasesStep
         DEF Gather, NumberRequests, WriteLog, WriteLogFails, EnsureRoom, SwapFull, FlushTakes,
             FlushAdds, AdvanceImm, FlushFails, Close, CloseSkips, CloseFlushes, CloseSwaps,
             CloseQuits, Closed
  <2>2. Head(batch) = batch[1] /\ ~ Refused(batch[1]) /\ k = batch[1].key
    BY <1>1, <2>0, <2>1, PutFacts
  <2>3. latest[k] \in Record /\ latest[k].op # "empty"
    BY <1>1, <2>0 DEF TypeInv
  <2>4. Get(k) = latest[k]
    BY <1>1, <2>3, GetIsLatest
  <2> QED
    BY <2>2, <2>3, <2>4, RecordFacts, OpsAssumption DEF Refused, IsFound, Exists
<1>2. IInv /\ [Next]_vars => [\A k \in Keys : Cond(k)]_vars
  BY <1>1, TypeStep
<1> QED
  BY <1>2, Invariant, PTL DEF Spec, ConditionalWrites

-----------------------------------------------------------------------------
(* A get goes on to find what it has to, while records and tables get newer. *)
LEMMA ReaderKept ==
  ASSUME TypeInv, TypeInv', ReaderInv, UNCHANGED reader, Mt <= Mt',
         \A j \in 1 .. Mt, k \in Keys :
           \/ mem'[j].kv[k] = mem[j].kv[k]
           \/ /\ mem'[j].kv[k] # NoRecord
              /\ mem[j].kv[k].cas < mem'[j].kv[k].cas
              /\ disk.kv[k].cas < mem'[j].kv[k].cas,
         \A k \in Keys : disk.kv[k].cas <= disk'.kv[k].cas
  PROVE  ReaderInv'
<1> DEFINE key == reader.key
           ts == reader.tables
           floor == reader.floor
<1>1. Mt \in Nat /\ Mt' \in Nat
  BY SeqFacts, LenProperties DEF TypeInv, Mt
<1>2. CASE reader.at \notin {"mem", "disk"}
  BY <1>2 DEF ReaderInv
<1>3. CASE reader.at \in {"mem", "disk"}
  <2>1. key \in Keys /\ floor \in Nat
    BY <1>3 DEF TypeInv, Reader
  <2>2. disk.kv[key].cas \in Nat /\ disk'.kv[key].cas \in Nat
    BY <2>1, RecordFacts DEF TypeInv
  <2>3. disk.kv[key].cas >= floor => disk'.kv[key].cas >= floor
    BY <2>1, <2>2
  <2>4. CASE reader.at = "disk"
    BY <2>3, <2>4 DEF ReaderInv
  <2>5. CASE reader.at = "mem"
    <3>1. /\ \A i \in DOMAIN ts : ts[i] \in 1 .. Mt
          /\ \A i, j \in DOMAIN ts : i < j => ts[j] < ts[i]
      BY <2>5 DEF ReaderInv
    <3>2. ASSUME NEW i \in DOMAIN ts
          PROVE  /\ ts[i] \in 1 .. Mt'
                 /\ mem[ts[i]].kv[key].cas \in Nat /\ mem'[ts[i]].kv[key].cas \in Nat
      <4>1. ts[i] \in 1 .. Mt /\ ts[i] \in 1 .. Mt'
        BY <1>1, <3>1
      <4>2. mem[ts[i]].kv[key] \in Record
        BY <2>1, <4>1, SeqFacts
      <4>3. mem' \in Seq(Memtable)
        BY DEF TypeInv
      <4>4. mem'[ts[i]] \in Memtable
        BY <4>1, <4>3, ElementOfSeq DEF Mt
      <4>5. mem'[ts[i]].kv[key] \in Record
        BY <2>1, <4>4 DEF Memtable
      <4> QED
        BY <4>1, <4>2, <4>5, RecordFacts
    <3>3. CASE \E i \in DOMAIN ts : mem[ts[i]].kv[key] # NoRecord /\ mem[ts[i]].kv[key].cas >= floor
      <4>1. PICK i \in DOMAIN ts : mem[ts[i]].kv[key] # NoRecord /\ mem[ts[i]].kv[key].cas >= floor
        BY <3>3
      <4>2. mem'[ts[i]].kv[key] # NoRecord /\ mem'[ts[i]].kv[key].cas >= floor
        <5> HIDE DEF ts, key, floor
        <5>1. PICK a, b : a = mem[ts[i]].kv[key].cas /\ b = mem'[ts[i]].kv[key].cas
          OBVIOUS
        <5>2. a \in Nat /\ b \in Nat /\ a >= floor
          BY <3>2, <4>1, <5>1
        <5>3. mem'[ts[i]].kv[key] = mem[ts[i]].kv[key] \/ (mem'[ts[i]].kv[key] # NoRecord /\ a < b)
          BY <2>1, <3>1, <5>1
        <5>4. mem'[ts[i]].kv[key] # NoRecord /\ a <= b
          BY <4>1, <5>1, <5>2, <5>3
        <5> QED
          BY <2>1, <5>1, <5>2, <5>4
      <4> QED
        BY <2>5, <3>1, <3>2, <4>2 DEF ReaderInv
    <3>4. CASE /\ \A i \in DOMAIN ts : mem[ts[i]].kv[key] = NoRecord \/ mem[ts[i]].kv[key].cas >= floor
               /\ disk.kv[key].cas >= floor
      <4>1. ASSUME NEW i \in DOMAIN ts
            PROVE  mem'[ts[i]].kv[key] = NoRecord \/ mem'[ts[i]].kv[key].cas >= floor
        BY <2>1, <2>2, <3>1, <3>2, <3>4
      <4> QED
        BY <2>3, <2>5, <3>1, <3>2, <3>4, <4>1 DEF ReaderInv
    <3> QED
      BY <2>5, <3>3, <3>4 DEF ReaderInv
  <2> QED
    BY <1>3, <2>4, <2>5
<1> QED
  BY <1>2, <1>3

(* The record of a key in the levels is not newer than those in memtables it came from. *)
LEMMA DiskCas ==
  ASSUME IInv, NEW k \in Keys
  PROVE  /\ disk.kv[k] \in Record
         /\ disk.kv[k] = NoRecord \/ \E i \in DOMAIN mem : disk.kv[k] = mem[i].kv[k]
<1>0. TypeInv /\ DiskInv
  BY DEF IInv
<1>1. PICK d \in 0 .. Mt : IsNewest(mem, disk.kv[k], d, k)
  BY <1>0 DEF DiskInv, FlushedTo
<1>2. 1 .. d \subseteq DOMAIN mem
  BY <1>0, <1>1, SeqFacts
<1>3. disk.kv[k] \in Record
  BY <1>0 DEF TypeInv
<1> QED
  BY <1>1, <1>2, <1>3 DEF IsNewest

(* ReaderInv is preserved. *)
LEMMA ReaderStep ==
  ASSUME IInv, TypeInv', ReaderInv, [Next]_vars
  PROVE  ReaderInv'
<1> USE DEF memVars, flushVars, logVars, writeVars, otherVars, CloseUnchanged
<1>0. TypeInv /\ Phases /\ ImmInv /\ CasInv /\ DiskInv
  BY DEF IInv
<1>1. /\ Mt \in Nat /\ DOMAIN mem = 1 .. Mt
      /\ \A i \in 1 .. Mt, k \in Keys : mem[i].kv[k] \in Record /\ mem[i].kv[k].cas \in Nat
      /\ \A k \in Keys : disk.kv[k] \in Record /\ disk.kv[k].cas \in Nat
  BY <1>0, SeqFacts, RecordFacts DEF TypeInv
<1>2. \A r \in Record : /\ r.op = "none" <=> r = NoRecord
                        /\ r # NoRecord => r.cas > 0
  BY RecordFacts
<1>3. ASSUME NEW k \in Keys, StartGet(k)
      PROVE  ReaderInv'
  <2>1. /\ reader' = [at |-> "mem", key |-> k, tables |-> MemTables, floor |-> latest[k].cas]
        /\ UNCHANGED <<mem, disk>>
    BY <1>3 DEF StartGet, GetUnchanged
  <2>2. /\ reader'.at = "mem" /\ reader'.key = k /\ reader'.tables = MemTables
        /\ reader'.floor = latest[k].cas
    BY <2>1
  <2>3. latest[k] \in Record /\ latest[k].cas \in Nat
    BY <1>0, RecordFacts DEF TypeInv
  <2>4. /\ \A i \in DOMAIN MemTables : MemTables[i] \in 1 .. Mt
        /\ \A i, j \in DOMAIN MemTables : i < j => MemTables[j] < MemTables[i]
    <3>1. Len(imm) \in Nat /\ Len(imm) < Mt
      BY <1>0, SeqFacts DEF ImmInv
    <3>2. /\ DOMAIN MemTables = 1 .. Len(imm) + 1
          /\ \A i \in 1 .. Len(imm) + 1 : MemTables[i] = Mt + 1 - i
      BY <1>0, MemTablesShape
    <3> QED
      BY <1>1, <3>1, <3>2
  <2>5. \/ \E i \in DOMAIN MemTables : /\ mem[MemTables[i]].kv[k] # NoRecord
                                       /\ mem[MemTables[i]].kv[k].cas >= latest[k].cas
        \/ /\ \A i \in DOMAIN MemTables : mem[MemTables[i]].kv[k] = NoRecord
           /\ disk.kv[k].cas >= latest[k].cas
    BY <2>3, LatestPlace
  <2>6. Mt' = Mt
    BY <2>1 DEF Mt
  <2> QED
    BY <2>1, <2>2, <2>4, <2>5, <2>6 DEF ReaderInv
<1>4. CASE GetMem
  <2> DEFINE key == reader.key
             ts == reader.tables
             floor == reader.floor
             r == MemSearch(ts, key)
  <2>1. /\ reader.at = "mem" /\ UNCHANGED <<mem, disk>>
        /\ reader' = IF r = NoRecord THEN [reader EXCEPT !.at = "disk", !.floor = Floor(r)]
                     ELSE [at |-> "idle", missed |-> r.cas < Floor(r)]
    BY <1>4 DEF GetMem, GetUnchanged
  <2>2. reader \in [at : {"mem", "disk"}, key : Keys, tables : Seq(Nat), floor : Nat]
    BY <1>0, <2>1 DEF TypeInv, Reader
  <2>3. key \in Keys /\ floor \in Nat /\ ts \in Seq(Nat)
    BY <2>2
  <2>4. DOMAIN ts \in SUBSET Nat
    BY <2>3, LenProperties
  <2>5. /\ \A i \in DOMAIN ts : ts[i] \in 1 .. Mt
        /\ \A i, j \in DOMAIN ts : i < j => ts[j] < ts[i]
        /\ \/ \E i \in DOMAIN ts : mem[ts[i]].kv[key] # NoRecord /\ mem[ts[i]].kv[key].cas >= floor
           \/ /\ \A i \in DOMAIN ts : mem[ts[i]].kv[key] = NoRecord \/ mem[ts[i]].kv[key].cas >= floor
              /\ disk.kv[key].cas >= floor
    BY <2>1 DEF ReaderInv
  <2>6. \A i \in DOMAIN ts : /\ mem[ts[i]].kv[key] \in Record /\ mem[ts[i]].kv[key].cas \in Nat
                             /\ mem[ts[i]].kv[key].op = "none" <=> mem[ts[i]].kv[key] = NoRecord
                             /\ mem[ts[i]].kv[key] # NoRecord => mem[ts[i]].kv[key].cas > 0
    BY <1>1, <1>2, <2>3, <2>5
  <2>9. Floor(r) = (IF \E i \in DOMAIN ts : mem[ts[i]].kv[key].op = "empty" /\ mem[ts[i]].kv[key].cas > r.cas
                    THEN 0 ELSE floor)
    BY DEF Floor, PassedOver
  <2>7. CASE r = NoRecord
    <3>1. \A i \in DOMAIN ts : mem[ts[i]].kv[key].op \in {"none", "empty"}
      BY <2>4, <2>6, <2>7, SearchResult
    <3>2. disk.kv[key].cas >= Floor(r)
      <4>1. disk.kv[key].cas \in Nat /\ r.cas = 0
        BY <1>1, <2>3, <2>7 DEF NoRecord
      <4>2. CASE \A i \in DOMAIN ts : mem[ts[i]].kv[key] = NoRecord
        <5>1. Floor(r) = floor
          BY <2>6, <2>9, <4>2
        <5> QED
          BY <2>5, <4>2, <5>1
      <4>3. CASE \E i \in DOMAIN ts : mem[ts[i]].kv[key] # NoRecord
        <5>1. PICK i \in DOMAIN ts : mem[ts[i]].kv[key] # NoRecord
          BY <4>3
        <5>2. mem[ts[i]].kv[key].op = "empty" /\ mem[ts[i]].kv[key].cas > r.cas
          BY <2>6, <3>1, <4>1, <5>1
        <5>3. Floor(r) = 0
          BY <2>9, <5>2
        <5> QED
          BY <4>1, <5>3
      <4> QED
        BY <4>2, <4>3
    <3>3. reader' = [reader EXCEPT !.at = "disk", !.floor = Floor(r)]
      BY <2>1, <2>7
    <3>4. reader'.at = "disk" /\ reader'.key = key /\ reader'.floor = Floor(r)
      BY <2>2, <3>3
    <3> QED
      BY <2>1, <3>2, <3>4 DEF ReaderInv
  <2>8. CASE r # NoRecord
    <3>1. PICK q \in DOMAIN ts :
            /\ r = mem[ts[q]].kv[key] /\ mem[ts[q]].kv[key] # NoRecord
            /\ \A i \in DOMAIN ts : mem[ts[i]].kv[key].op \notin {"none", "empty"} => q <= i
      BY <2>4, <2>6, <2>8, SearchResult
    <3>2. ASSUME ~ PassedOver(r)
          PROVE  r.cas >= floor
      <4>1. CASE \E i \in DOMAIN ts : mem[ts[i]].kv[key] # NoRecord /\ mem[ts[i]].kv[key].cas >= floor
        <5>1. PICK i \in DOMAIN ts : mem[ts[i]].kv[key] # NoRecord /\ mem[ts[i]].kv[key].cas >= floor
          BY <4>1
        <5>0. CASE mem[ts[i]].kv[key].op = "empty"
          <6>1. ~ (mem[ts[i]].kv[key].cas > r.cas)
            BY <3>2, <5>0 DEF PassedOver
          <6>2. PICK a, b : a = mem[ts[i]].kv[key].cas /\ b = r.cas
            OBVIOUS
          <6>3. a \in Nat /\ b \in Nat /\ ~ (a > b) /\ a >= floor
            BY <2>6, <3>1, <5>1, <6>1, <6>2
          <6>4. b >= floor
            BY <2>3, <6>3
          <6> QED
            BY <6>2, <6>4
        <5>5. CASE mem[ts[i]].kv[key].op # "empty" /\ q = i
          BY <3>1, <5>1, <5>5
        <5>4. CASE mem[ts[i]].kv[key].op # "empty" /\ q < i
          <6>1. ts[i] < ts[q] /\ ts[i] \in DOMAIN mem /\ ts[q] \in DOMAIN mem
            BY <1>1, <2>5, <5>4
          <6>2. mem[ts[i]].kv[key].cas < mem[ts[q]].kv[key].cas
            BY <1>0, <2>3, <3>1, <6>1 DEF CasInv
          <6>3. PICK a, b : a = mem[ts[i]].kv[key].cas /\ b = mem[ts[q]].kv[key].cas
            OBVIOUS
          <6>4. a \in Nat /\ b \in Nat /\ a >= floor /\ a < b /\ floor \in Nat
            BY <2>3, <2>6, <3>1, <5>1, <6>2, <6>3
          <6>5. r.cas = b /\ b >= floor
            <7> HIDE DEF r, ts, key, floor
            <7>1. r.cas = b
              BY <3>1, <6>3
            <7> QED
              BY <6>4, <7>1
          <6> QED
            BY <6>5
        <5>6. mem[ts[i]].kv[key].op # "empty" => q <= i /\ q \in Nat /\ i \in Nat
          BY <2>4, <2>6, <3>1, <5>1
        <5> QED
          BY <5>0, <5>4, <5>5, <5>6
      <4>2. CASE \A i \in DOMAIN ts : mem[ts[i]].kv[key] = NoRecord \/ mem[ts[i]].kv[key].cas >= floor
        BY <3>1, <4>2
      <4> QED
        BY <2>5, <4>1, <4>2
    <3>3. reader' = [at |-> "idle", missed |-> r.cas < Floor(r)]
      BY <2>1, <2>8
    <3>4. reader'.at = "idle" /\ ~ reader'.missed
      <4>1. r.cas \in Nat /\ floor \in Nat
        BY <2>3, <2>6, <3>1
      <4>2. PICK c : c = r.cas
        OBVIOUS
      <4>3. ~ (c < Floor(r))
        BY <3>2, <4>1, <4>2 DEF Floor
      <4> QED
        BY <3>3, <4>2, <4>3
    <3> QED
      BY <3>4 DEF ReaderInv
  <2> QED
    BY <2>7, <2>8
<1>5. CASE GetDisk
  <2>1. /\ reader.at = "disk" /\ UNCHANGED <<mem, disk>>
        /\ reader' = [at |-> "idle", missed |-> disk.kv[reader.key].cas < reader.floor]
    BY <1>5 DEF GetDisk, GetUnchanged
  <2>2. reader.key \in Keys /\ reader.floor \in Nat
    BY <1>0, <2>1 DEF TypeInv, Reader
  <2>3. ~ (disk.kv[reader.key].cas < reader.floor)
    BY <1>1, <2>1, <2>2 DEF ReaderInv
  <2>4. reader'.at = "idle" /\ ~ reader'.missed
    BY <2>1, <2>3
  <2> QED
    BY <2>4 DEF ReaderInv
<1>6. ASSUME UNCHANGED reader
      PROVE  ReaderInv'
  <2>1. CASE UNCHANGED <<mem, disk>>
    BY <1>6, <2>1 DEF ReaderInv, Mt
  <2>2. CASE SwapFull \/ CloseSwaps
    <3>1. SwapSt /\ UNCHANGED disk
      BY <2>2 DEF SwapFull, CloseSwaps
    <3>2. Mt <= Mt' /\ \A j \in 1 .. Mt : mem'[j] = mem[j]
      BY <1>0, <1>1, <3>1, SwapFacts
    <3>3. \A k \in Keys : disk.kv[k].cas <= disk'.kv[k].cas
      BY <1>1, <3>1
    <3> QED
      BY <1>0, <1>6, <3>2, <3>3, ReaderKept
  <2>3. CASE WriteToLsm
    <3>1. UNCHANGED disk /\ Mt' = Mt /\ 1 \in DOMAIN batch /\ batch[1] \in Request
      BY <1>0, <2>3, PutFacts DEF WriteToLsm
    <3>2. \A j \in 1 .. Mt, k \in Keys : mem[j].kv[k].cas < batch[1].cas
      BY <1>0, <1>1, <2>3, <3>1 DEF CasInv, WriteToLsm
    <3>3. \A k \in Keys : disk.kv[k].cas < batch[1].cas
      <4> SUFFICES ASSUME NEW k \in Keys PROVE disk.kv[k].cas < batch[1].cas
        OBVIOUS
      <4>1. 1 \in 1 .. Mt
        BY <1>0, SeqFacts
      <4>2. mem[1].kv[k].cas < batch[1].cas /\ mem[1].kv[k].cas \in Nat /\ batch[1].cas \in Nat
        BY <1>1, <3>1, <3>2, <4>1 DEF Request
      <4>3. CASE disk.kv[k] = NoRecord
        BY <4>2, <4>3 DEF NoRecord
      <4>4. CASE \E i \in DOMAIN mem : disk.kv[k] = mem[i].kv[k]
        BY <1>1, <3>2, <4>4
      <4> QED
        BY <4>3, <4>4, DiskCas
    <3>4. RecordOf(batch[1]) # NoRecord /\ RecordOf(batch[1]).cas = batch[1].cas
      BY <3>1, OpsAssumption DEF RecordOf, NoRecord, Request
    <3>5. \A j \in 1 .. Mt, k \in Keys :
            mem'[j].kv[k] = mem[j].kv[k] \/ mem'[j].kv[k] = RecordOf(batch[1])
      BY <1>0, <1>1, <2>3, PutFacts
    <3>6. \A j \in 1 .. Mt, k \in Keys :
           \/ mem'[j].kv[k] = mem[j].kv[k]
           \/ /\ mem'[j].kv[k] # NoRecord
              /\ mem[j].kv[k].cas < mem'[j].kv[k].cas
              /\ disk.kv[k].cas < mem'[j].kv[k].cas
      BY <3>2, <3>3, <3>4, <3>5
    <3>7. (\A k \in Keys : disk.kv[k].cas <= disk'.kv[k].cas) /\ Mt <= Mt'
      BY <1>1, <3>1
    <3> QED
      BY <1>0, <1>6, <3>6, <3>7, ReaderKept
  <2>4. CASE FlushAdds
    <3>1. UNCHANGED mem /\ Mt' = Mt /\ disk' = AddLevel0(flusher.task) /\ flusher.at = "write"
      BY <2>4 DEF FlushAdds, Mt
    <3>2. flusher.task.mt = FirstImm /\ FirstImm \in 1 .. Mt
      BY <1>0, <3>1, FirstImmType DEF IInv, TasksInv, Flushing
    <3>3. PICK d \in 0 .. Mt : d = FirstImm - 1 /\ FlushedTo(d)
      BY <1>0, <3>1 DEF DiskInv
    <3>4. ASSUME NEW k \in Keys
          PROVE  disk.kv[k].cas <= disk'.kv[k].cas
      <4>1. disk'.kv[k] = IF mem[d + 1].kv[k] # NoRecord THEN mem[d + 1].kv[k] ELSE disk.kv[k]
        BY <1>1, <3>1, <3>2, <3>3 DEF AddLevel0
      <4>2. IsNewest(mem, disk.kv[k], d, k)
        BY <3>3 DEF FlushedTo
      <4>3. IsNewest(mem, disk'.kv[k], d + 1, k)
        BY <3>3, <4>1, <4>2, NewestNext
      <4>4. CASE disk.kv[k] = NoRecord
        <5>1. disk'.kv[k].cas \in Nat
          BY <1>1, <3>2, <3>3, <4>1
        <5> QED
          BY <4>4, <5>1 DEF NoRecord
      <4>5. CASE disk.kv[k] # NoRecord
        <5>1. PICK i \in 1 .. d : disk.kv[k] = mem[i].kv[k]
          BY <4>2, <4>5 DEF IsNewest
        <5>2. i \in 1 .. d + 1 /\ d + 1 \in 0 .. Mt
          BY <1>1, <3>2, <3>3, <5>1
        <5> QED
          BY <1>0, <4>3, <5>1, <5>2, NewestCas
      <4> QED
        BY <4>4, <4>5
    <3>5. Mt <= Mt' /\ \A j \in 1 .. Mt, k \in Keys : mem'[j].kv[k] = mem[j].kv[k]
      BY <1>1, <3>1
    <3> QED
      BY <1>0, <1>6, <3>4, <3>5, ReaderKept
  <2>5. CASE \/ Gather \/ NumberRequests \/ WriteLog \/ WriteLogFails \/ EnsureRoom
             \/ FlushTakes \/ AdvanceImm \/ FlushFails
             \/ Close \/ CloseSkips \/ CloseFlushes \/ CloseQuits \/ Closed
    BY <2>1, <2>5 DEF Gather, NumberRequests, WriteLog, WriteLogFails, EnsureRoom, FlushTakes,
                      AdvanceImm, FlushFails, Close, CloseSkips, CloseFlushes, CloseQuits, Closed
  <2> QED
    BY <2>2, <2>3, <2>4, <2>5, PhasesStep
<1>7. \/ \E k \in Keys : StartGet(k)
      \/ GetMem \/ GetDisk \/ UNCHANGED reader
  <2>1. ASSUME NEW c \in Clients, ClientSends(c) \/ SendPanics(c)
        PROVE  UNCHANGED reader
    BY <2>1 DEF ClientSends, Send, SendPanics
  <2>2. CASE WriterStep \/ WriteLogFails
    BY <2>2 DEF WriterStep, Receive, Tick, StopWrites, Drain, WriterExits, NumberRequests, WriteLog,
                EnsureRoom, SwapFull, WriteToLsm, WriteLogFails
  <2>3. CASE FlusherStep \/ FlushFails \/ Close \/ CloserStep
    BY <2>3 DEF FlusherStep, FlushTakes, FlushAdds, AdvanceImm, FlushFails, Close, CloserStep,
                CloseSkips, CloseFlushes, CloseSwaps, CloseQuits, Closed
  <2>4. CASE UNCHANGED vars
    BY <2>4 DEF vars
  <2> QED
    BY <2>1, <2>2, <2>3, <2>4 DEF Next
<1> QED
  BY <1>3, <1>4, <1>5, <1>6, <1>7

(***************************************************************************)
(* GetNotStale: a get that is overtaken by writes, by swap_st and by the   *)
(* flush task between its steps returns nothing older than what was        *)
(* written when it started, unless it passed over a record with an empty   *)
(* value.                                                                  *)
(***************************************************************************)
THEOREM GetIsNotStale == Spec => []GetNotStale
<1>1. Init => ReaderInv
  BY DEF Init, ReaderInv
<1>2. IInv /\ ReaderInv /\ [Next]_vars => ReaderInv'
  BY TypeStep, ReaderStep
<1>3. ReaderInv => GetNotStale
  BY DEF ReaderInv, GetNotStale
<1> QED
  BY <1>1, <1>2, <1>3, Invariant, PTL DEF Spec
=============================================================================
