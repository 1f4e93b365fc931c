------------------------------ MODULE ValueLog ------------------------------
(***************************************************************************)
(* The value log (value_log.rs, log_file.rs) from one opening of the store *)
(* to the next: appending, rotation, value pointers, the head that flushes *)
(* store, clean shutdown, crash, and the replay in KV::open (kv.rs).       *)
(*                                                                         *)
(* The write loop is the only writer of the log, so a batch is one step:   *)
(* ValueLogCore::write, ensure_room_for_write, update_offset and           *)
(* write_to_lsm; WritePath has their interleavings.  Memtables are flushed *)
(* within the step that finds them full.                                   *)
(*                                                                         *)
(* Offsets and lengths are in units in which a small entry has length 1.   *)
(* The log never has a second file, see Rotate, so `log' is file 0.        *)
(***************************************************************************)
EXTENDS Integers, Sequences, FiniteSetsExt

CONSTANTS
  Batches,      \* the requests clients make: sequences of entries [key, big, cond]
  FileSize,     \* opt.value_log_file_size
  MaxWrites,    \* bound: batches
  MaxOpens,     \* bound: openings of the store
  Garbage       \* bound: how far a counter read from misaligned bytes jumps

Length(e) == IF e.big THEN 2 ELSE 1

(* The sum of the first n lengths *)
SumOf(lengths, n) ==
  LET sum[i \in 0 .. Len(lengths)] == IF i = 0 THEN 0 ELSE sum[i - 1] + lengths[i]
  IN  sum[n]

ASSUME BoundsAssumption == FileSize \in Nat /\ Garbage \in Nat

(* A batch is not longer than a file: write asserts that it fits into the map. *)
ASSUME BatchAssumption ==
  \A b \in Batches :
    /\ b \in Seq({b[i] : i \in DOMAIN b})
    /\ \A i \in DOMAIN b : b[i].big \in BOOLEAN
    /\ SumOf([i \in 1 .. Len(b) |-> Length(b[i])], Len(b)) <= FileSize

VARIABLES
  syncWrites,   \* opt.sync_writes
  phase,        \* "down", "replay" or "up"
  writer,       \* the write loop: "alive" or "dead"
  log,          \* the records in the file
  fileLen,      \* its length
  maxFid, vlogs, woff,   \* max_fid, the keys of vlogs, writable_log_offset
  rpos,         \* where replay starts
  mt,           \* the memtable: key -> [cas, ptr]
  emptyKey,     \* replay has put the empty key into the memtable
  vptr, cas,    \* the KV's vptr and last_used_cas_counter
  tables,       \* what the tables hold
  head,         \* "!badger!head" in the tables
  acked,        \* the records that were acknowledged
  spilled,      \* a session rotated the log, or crashed, and left the file too long
  misread,      \* a record was replayed, or logged and refused with nothing to flush
  forgot,       \* an open without a head although there were tables
  writes, opens

vars == <<syncWrites, phase, writer, log, fileLen, maxFid, vlogs, woff, rpos, mt, emptyKey,
          vptr, cas, tables, head, acked, spilled, misread, forgot, writes, opens>>
fileVars == <<log, fileLen, maxFid, vlogs, woff>>
lsmVars == <<mt, emptyKey, tables, head>>

NoPtr == [fid |-> 0, off |-> 0, len |-> 0]      \* ValuePointer::is_zero
NoHead == [ptr |-> NoPtr, cas |-> 0]
Empty == [k \in {} |-> NoHead]

MapLen == 2 * FileSize                          \* what set_write maps

Init ==
  /\ syncWrites \in BOOLEAN
  /\ phase = "down" /\ writer = "dead"
  /\ log = {} /\ fileLen = 0 /\ maxFid = 0 /\ vlogs = {} /\ woff = 0 /\ rpos = 0
  /\ mt = Empty /\ emptyKey = FALSE /\ vptr = NoPtr /\ cas = 0
  /\ tables = Empty /\ head = NoHead
  /\ acked = Empty /\ spilled = FALSE /\ misread = FALSE /\ forgot = FALSE
  /\ writes = 0 /\ opens = 0

Over(f, g) == [k \in DOMAIN f \cup DOMAIN g |-> IF k \in DOMAIN f THEN f[k] ELSE g[k]]
Store == Over(mt, tables)                       \* what _get finds

LogEnd == Max({r.off + r.len : r \in log} \cup {0})

---------------------------------------------------------------------------
(* KV::open and ValueLogCore::replay *)

(* Mutant: the record that the head points to is replayed again. *)
ReplayFrom_AtHead == head.ptr.off

(* The first byte behind the last record that is in the tables *)
ReplayFrom == head.ptr.off + head.ptr.len

(* File 0 is found, or created. *)
OpenCreateFiles == vlogs' = {0} /\ maxFid' = 0 /\ woff' = 0

(* The counter and the start of the replay come from the stored head. *)
Open ==
  /\ phase = "down" /\ opens < MaxOpens
  /\ opens' = opens + 1
  /\ phase' = "replay"
  /\ OpenCreateFiles
  /\ rpos' = ReplayFrom
  /\ mt' = Empty /\ emptyKey' = FALSE /\ vptr' = NoPtr
  /\ cas' = head.cas
  /\ forgot' = (forgot \/ (head = NoHead /\ tables # Empty))
  /\ UNCHANGED <<syncWrites, writer, log, fileLen, tables, head, acked, spilled, misread, writes>>

(***************************************************************************)
(* LogFile::iterate reads a header and four bytes per record, never a key  *)
(* or a value: the record it starts at has the right header and an empty   *)
(* key, what follows is read out of step.  Behind the records are zeros.   *)
(***************************************************************************)
Aligned == {r \in log : r.off = rpos}

(* The closure of open: the counter goes up, the empty key is put. *)
Replay ==
  /\ phase = "replay" /\ rpos < fileLen
  /\ \A r \in Aligned : ~r.check
  /\ LET seen == Max({cas} \cup {r.cas : r \in Aligned})
     IN  cas' \in IF Aligned = {} THEN {seen} ELSE seen .. seen + Garbage
  /\ rpos' = fileLen
  /\ emptyKey' = TRUE /\ misread' = TRUE
  /\ UNCHANGED <<syncWrites, phase, writer, fileVars, mt, vptr, tables, head, acked, spilled, forgot,
                 writes, opens>>

(* A record with a cas_counter_check, real or misread: the empty key is not  *)
(* found and open returns the error.                                         *)
OpenFails ==
  /\ phase = "replay" /\ rpos < fileLen /\ Aligned # {}
  /\ phase' = "down" /\ misread' = TRUE
  /\ UNCHANGED <<syncWrites, writer, fileVars, rpos, lsmVars, vptr, cas, acked, spilled, forgot,
                 writes, opens>>

(* Writing goes on at the end of the file, which is then made longer. *)
Ready ==
  /\ phase = "replay" /\ rpos >= fileLen
  /\ phase' = "up" /\ writer' = "alive"
  /\ woff' = fileLen
  /\ fileLen' = MapLen
  /\ UNCHANGED <<syncWrites, log, maxFid, vlogs, rpos, lsmVars, vptr, cas, acked, spilled, misread, forgot,
                 writes, opens>>

---------------------------------------------------------------------------
(* A batch *)

Logged(e) == syncWrites \/ e.big

(* The length of the buffer when entry i is encoded *)
Before(b, i) ==
  SumOf([j \in 1 .. Len(b) |-> IF Logged(b[j]) THEN Length(b[j]) ELSE 0], i - 1)

Ptr(b, i) == [fid |-> maxFid, off |-> woff + Before(b, i), len |-> Length(b[i])]
Record(b, i) == [off |-> Ptr(b, i).off, len |-> Length(b[i]), key |-> b[i].key,
                 cas |-> cas + i, check |-> b[i].cond \in {"match", "miss"}]
LoggedIn(b) == {i \in DOMAIN b : Logged(b[i])}

(* write_to_lsm, entry by entry: a compare-and-set on a key that is absent, or *)
(* with an old counter, and a set-if-absent on one that is there do nothing.   *)
Applies(e, s) == CASE e.cond = "match" -> e.key \in DOMAIN s
                   [] e.cond = "miss" -> FALSE
                   [] e.cond = "absent" -> e.key \notin DOMAIN s
                   [] OTHER -> TRUE

Applied(b, s0) ==
  LET after[i \in 0 .. Len(b)] ==
        IF i = 0 THEN Empty
        ELSE IF ~Applies(b[i], Over(after[i - 1], s0)) THEN after[i - 1]
        ELSE Over([k \in {b[i].key} |-> [cas |-> cas + i,
                                         ptr |-> IF b[i].big THEN Ptr(b, i) ELSE NoPtr]],
                  after[i - 1])
  IN  after[Len(b)]

(* update_offset: the last entry of the batch that was logged *)
NextVptr(b) == IF LoggedIn(b) = {} THEN vptr ELSE Ptr(b, Max(LoggedIn(b)))

(* Mutant: the head is stored without the counter. *)
FlushedHead_NoCas(counter) == IF vptr = NoPtr THEN head ELSE [ptr |-> vptr, cas |-> head.cas]

(* flush_mem_table stores vptr, if there is one, with the counter. *)
FlushedHead(counter) == IF vptr = NoPtr THEN head ELSE [ptr |-> vptr, cas |-> counter]

(* An empty key is written like the dummy entry that ends a block: the block  *)
(* it begins, here the whole table, can not be read any more.                 *)
Flush(counter) ==
  /\ tables' = IF emptyKey THEN tables ELSE Over(mt, tables)
  /\ head' = IF emptyKey THEN head ELSE FlushedHead(counter)

(* Mutant: the new file becomes the current one under the old id. *)
Rotate_SameFid ==
  /\ maxFid' = maxFid
  /\ woff' = 0
  /\ fileLen' = MapLen

(* The file has grown past value_log_file_size.  fetch_add returns the old id: *)
(* what is "created" is the same file, with its content, while max_fid names   *)
(* one that is not there.                                                      *)
Rotate ==
  /\ maxFid' = maxFid + 1
  /\ woff' = 0
  /\ fileLen' = MapLen

(* ValueLogCore::write *)
AppendBatch(b) ==
  LET end == woff + Before(b, Len(b) + 1)
  IN  /\ log' = log \cup {Record(b, i) : i \in LoggedIn(b)}
      /\ IF end > FileSize /\ LoggedIn(b) # {} THEN Rotate
         ELSE woff' = end /\ UNCHANGED <<fileLen, maxFid>>
      /\ spilled' = (spilled \/ maxFid' # maxFid)
      /\ UNCHANGED <<vlogs, misread>>

(* write finds no file for max_fid, or the buffer does not fit into the map   *)
(* (assert_eq of n): the write loop is gone.                                  *)
LogPanics(b) ==
  \/ maxFid \notin vlogs
  \/ LoggedIn(b) # {} /\ woff + Before(b, Len(b) + 1) > fileLen

WritePanics(b) ==
  /\ phase = "up" /\ writer = "alive" /\ writes < MaxWrites
  /\ LogPanics(b)
  /\ writes' = writes + 1
  /\ writer' = "dead"
  /\ cas' = cas + Len(b)
  /\ UNCHANGED <<syncWrites, phase, fileVars, rpos, lsmVars, vptr, acked, spilled, misread, forgot, opens>>

Write(b) ==
  /\ phase = "up" /\ writer = "alive" /\ writes < MaxWrites
  /\ ~LogPanics(b)
  /\ writes' = writes + 1
  /\ AppendBatch(b)
  /\ cas' = cas + Len(b)
  /\ mt' = Over(Applied(b, Store), mt)
  /\ acked' = Over(Applied(b, Store), acked)
  /\ vptr' = NextVptr(b)
  /\ UNCHANGED <<syncWrites, phase, writer, rpos, emptyKey, tables, head, forgot, opens>>

(* The same with a full memtable: ensure_room_for_write has it flushed after *)
(* the log was written and before vptr moves on.                             *)
WriteFull(b) ==
  /\ phase = "up" /\ writer = "alive" /\ writes < MaxWrites
  /\ ~LogPanics(b) /\ (mt # Empty \/ emptyKey)
  /\ writes' = writes + 1
  /\ AppendBatch(b)
  /\ cas' = cas + Len(b)
  /\ Flush(cas + Len(b))
  /\ IF ~syncWrites /\ maxFid' \notin vlogs       \* ValueLogCore::sync unwraps None
     THEN /\ writer' = "dead"
          /\ UNCHANGED <<mt, emptyKey, acked, vptr>>
     ELSE /\ mt' = Applied(b, Store)
          /\ emptyKey' = FALSE
          /\ acked' = Over(Applied(b, Store), acked)
          /\ vptr' = NextVptr(b)
          /\ UNCHANGED writer
  /\ UNCHANGED <<syncWrites, phase, rpos, forgot, opens>>

(* A compaction of level 0 passes over the head (MergeIterator::rewind). *)
LoseHead ==
  /\ phase = "up" /\ head # NoHead
  /\ head' = NoHead
  /\ UNCHANGED <<syncWrites, phase, writer, fileVars, rpos, mt, emptyKey, vptr, cas, tables,
                 acked, spilled, misread, forgot, writes, opens>>

---------------------------------------------------------------------------
(* The end of a session *)

(* Mutant: the file keeps the length it was mapped with. *)
ClosedLen_Mapped == fileLen

(* ValueLogCore::close cuts the file max_fid at writable_log_offset. *)
ClosedLen == IF maxFid \in vlogs THEN woff ELSE fileLen

(* KV::close: the log, then the last memtable.  A write loop that died has    *)
(* told its closer (defer), so close does not wait for it.                    *)
Close ==
  /\ phase = "up"
  /\ phase' = "down" /\ writer' = "dead"
  /\ fileLen' = ClosedLen
  /\ IF mt = Empty /\ ~emptyKey THEN UNCHANGED <<tables, head>> ELSE Flush(cas)
  /\ misread' = (misread \/ (mt = Empty /\ vptr # NoPtr /\ vptr # head.ptr))
  /\ vlogs' = {}
  /\ UNCHANGED <<syncWrites, log, maxFid, woff, rpos, mt, emptyKey, vptr, cas, acked, spilled, forgot,
                 writes, opens>>

Crash ==
  /\ phase # "down"
  /\ phase' = "down" /\ writer' = "dead"
  /\ spilled' = (spilled \/ phase = "up")
  /\ UNCHANGED <<syncWrites, fileVars, rpos, lsmVars, vptr, cas, acked, misread, forgot, writes,
                 opens>>

Next ==
  \/ Open \/ Replay \/ OpenFails \/ Ready
  \/ \E b \in Batches : Write(b) \/ WriteFull(b) \/ WritePanics(b)
  \/ LoseHead \/ Close \/ Crash

Spec == Init /\ [][Next]_vars

---------------------------------------------------------------------------
(* Reading a value: pick_log_by_vlog_id has to find the file, async_read checks *)
(* the offset against the end of the file that is written, LogFile::read takes  *)
(* a slice of the map, and the header found there says where the value is.      *)
PickLog(p) == p.fid \in vlogs
OffsetValid(p) == p.fid = maxFid => p.off < woff
InMap(p) == p.off + p.len <= fileLen
RecordAt(p) == {r \in log : r.off = p.off /\ r.len = p.len}

(***************************************************************************)
(* async_read: whatever a get finds, in the memtable or in the tables, its *)
(* value pointer passes the check against writable_log_offset and leads to *)
(* the record of that very write, inside the mapped file: through batches, *)
(* rotation, truncation at close, crashes and replays.                     *)
(***************************************************************************)
PointersResolve ==
  phase = "up" =>
    \A k \in DOMAIN Store :
      LET p == Store[k].ptr
      IN  p # NoPtr => /\ PickLog(p) /\ OffsetValid(p) /\ InMap(p)
                       /\ \E r \in RecordAt(p) : r.key = k /\ r.cas = Store[k].cas

(***************************************************************************)
(* After sessions that ended with close, and with the head still in the    *)
(* tables, opening has nothing to replay: writing goes on right behind the *)
(* last record, and the tables hold every acknowledged write.  Sessions    *)
(* that rotated the log, replayed something, or only logged writes that    *)
(* were then refused are excluded: there the code does not keep it.        *)
(***************************************************************************)
CleanReopen ==
  phase = "replay" /\ ~spilled /\ ~misread /\ (head # NoHead \/ log = {}) =>
    /\ rpos = fileLen /\ fileLen = LogEnd
    /\ tables = acked

(***************************************************************************)
(* With sync_writes, cas counters never repeat: across restarts the        *)
(* counter is not behind the counter of any record in the store, so a      *)
(* compare-and-set cannot take a new record for an old one ("it is crucial *)
(* that we read the cas counter here after reading vptr").  Without        *)
(* sync_writes, or once a compaction dropped the head, it may start over.  *)
(***************************************************************************)
CasAhead ==
  phase = "up" /\ syncWrites /\ ~forgot => \A k \in DOMAIN Store : Store[k].cas <= cas

(***************************************************************************)
(* The write loop dies only where the log outgrew its file, in this        *)
(* session or in one before, or a session ended without close: as long as  *)
(* every session is closed and the log is short, the length close leaves   *)
(* and the offset open continues at always leave room for the next batch.  *)
(***************************************************************************)
WritesContinue == phase = "up" /\ writer = "dead" => spilled
=============================================================================
