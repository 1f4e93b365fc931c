----------------------------- MODULE WritePath -----------------------------
(***************************************************************************)
(* The way of a write through KV (kv.rs, st_manager.rs): clients send      *)
(* requests to the write loop, which numbers them, logs them and puts them *)
(* into the memtable; a full memtable is handed to the flush task, which   *)
(* makes it a table of level 0; close stops the tasks one after the other. *)
(* Readers look into the memtables, newest first, and then into the levels. *)
(*                                                                         *)
(* The guards of KV.share_lock are dropped where they are taken (let _ =   *)
(* ...), so it orders nothing.  SkipListManager's own lock makes swap_st,  *)
(* advance_imm and get_mem_tables atomic.                                  *)
(*                                                                         *)
(* The levels are the newest record of every key (module Levels), the      *)
(* value log is the number of its entries.  A record's CAS counter tells   *)
(* it from every other.                                                    *)
(***************************************************************************)
EXTENDS Naturals, SequencesExt, FiniteSetsExt

CONSTANTS
  Keys, Clients,
  Ops,            \* what clients write, of "set", "big", "absent", "delete", "empty"
  Conditional,    \* the operations that may carry a cas_counter_check
  SyncWrites,     \* opt.sync_writes: log small values too
  MemSize,        \* max_table_size: records after which a memtable is full
  NumMemTables,   \* opt.num_mem_tables, the capacity of flush_chan
  BatchLimit,     \* 3 * KV_WRITE_CH_CAPACITY
  MaxOps,         \* bound: requests sent
  MaxFailures     \* bound: I/O errors of the value log or of the flush task

ASSUME MemAssumption == MemSize \in Nat \ {0} /\ NumMemTables \in Nat \ {0}
ASSUME OpsAssumption == Ops \subseteq {"set", "big", "absent", "delete", "empty"}

VARIABLES
  mem,         \* every memtable made so far; the last one is mt
  imm,         \* the indices of the immutable ones, oldest first
  flushChan,   \* the tasks on their way to the flush task
  flusher,     \* where the flush task is, and its task
  disk,        \* the levels: newest record of each key, and !badger!head
  vlogEnd,     \* entries in the value log
  vptr,        \* the value pointer of the last request applied
  casCounter,  \* last_used_cas_counter
  writeCh, reqs, batch,   \* requests: sent, received, being written
  writer,      \* where the write loop is
  draining,    \* it has closed write_ch
  client,      \* client[c]: "idle", "waiting" for an answer, or "panicked"
  closer,      \* where close is
  reader,      \* one get
  latest,      \* latest[k]: the last record the write loop put
  ops, failures

vars == <<mem, imm, flushChan, flusher, disk, vlogEnd, vptr, casCounter, writeCh, reqs,
          batch, writer, draining, client, closer, reader, latest, ops, failures>>

memVars == <<mem, imm>>
flushVars == <<flushChan, flusher, disk>>
logVars == <<vlogEnd, vptr, casCounter>>
writeVars == <<writeCh, reqs, batch, writer>>
otherVars == <<draining, closer, reader, ops, failures>>

-----------------------------------------------------------------------------
NoRecord == [op |-> "none", cas |-> 0, ptr |-> 0]
NewMemTable == [kv |-> [k \in Keys |-> NoRecord], puts |-> 0]
ExitTask == [mt |-> 0, vptr |-> 0]

Mt == Len(mem)

(* Mutant: the immutable memtables are not reversed. *)
MemTables_OldestFirst == <<Mt>> \o imm

(* get_mem_tables *)
MemTables == <<Mt>> \o Reverse(imm)

(***************************************************************************)
(* The memtable part of _get: the record that decides, or NoRecord.  A     *)
(* record with an empty value and no delete bit is passed over.            *)
(***************************************************************************)
MemSearch(ts, k) ==
  LET hits == {i \in DOMAIN ts : mem[ts[i]].kv[k].op \notin {"none", "empty"}}
  IN  IF hits = {} THEN NoRecord ELSE mem[ts[Min(hits)]].kv[k]

(* _get, and _exists, when nothing interferes *)
Get(k) ==
  LET m == MemSearch(MemTables, k) IN IF m # NoRecord THEN m ELSE disk.kv[k]

IsFound(r) == r.op \notin {"none", "delete"}
Exists(k) == IsFound(Get(k)) /\ Get(k).op # "empty"

Init ==
  /\ mem = <<NewMemTable>> /\ imm = <<>>
  /\ flushChan = <<>> /\ flusher = [at |-> "idle", task |-> ExitTask]
  /\ disk = [kv |-> [k \in Keys |-> NoRecord], head |-> [ptr |-> 0, cas |-> 0]]
  /\ vlogEnd = 0 /\ vptr = 0 /\ casCounter = 0
  /\ writeCh = <<>> /\ reqs = <<>> /\ batch = <<>> /\ writer = "select"
  /\ draining = FALSE
  /\ client = [c \in Clients |-> "idle"]
  /\ closer = "no"
  /\ reader = [at |-> "idle", missed |-> FALSE]
  /\ latest = [k \in Keys |-> NoRecord]
  /\ ops = 0 /\ failures = 0

-----------------------------------------------------------------------------
(***************************************************************************)
(* Clients: batch_set with one entry, and the calls built on it.  A        *)
(* client takes the counter for its check from a get.                      *)
(***************************************************************************)
Send(c, k, op, check) ==
  /\ client[c] = "idle" /\ ops < MaxOps
  /\ ~ draining
  /\ op = "absent" => ~ Exists(k)
  /\ writeCh' = Append(writeCh, [client |-> c, key |-> k, op |-> op, check |-> check,
                                 cas |-> 0, ptr |-> 0])
  /\ client' = [client EXCEPT ![c] = "waiting"]
  /\ ops' = ops + 1
  /\ UNCHANGED <<memVars, flushVars, logVars, reqs, batch, writer, draining, closer, reader,
                 latest, failures>>

ClientSends(c) ==
  \E k \in Keys, op \in Ops :
    \/ Send(c, k, op, 0)
    \/ op \in Conditional /\ IsFound(Get(k)) /\ Send(c, k, op, Get(k).cas)

(* send(req).await.unwrap() on a closed channel *)
SendPanics(c) ==
  /\ client[c] = "idle" /\ ops < MaxOps
  /\ draining
  /\ client' = [client EXCEPT ![c] = "panicked"]
  /\ UNCHANGED <<memVars, flushVars, logVars, writeVars, otherVars, latest>>

-----------------------------------------------------------------------------
(***************************************************************************)
(* do_writes.  After a request or a tick the loop looks for one more       *)
(* request; if there is one it only buffers it, else it writes all it has. *)
(***************************************************************************)
Buffered(rest, all) ==
  IF Len(all) < BatchLimit /\ rest # <<>>
  THEN /\ writeCh' = Tail(rest) /\ reqs' = Append(all, Head(rest))
       /\ UNCHANGED <<batch, writer>>
  ELSE /\ writeCh' = rest /\ reqs' = <<>> /\ batch' = all
       /\ writer' = IF all = <<>> THEN "select" ELSE "number"

Receive ==
  /\ writer = "select" /\ ~ draining /\ writeCh # <<>>
  /\ Buffered(Tail(writeCh), Append(reqs, Head(writeCh)))
  /\ UNCHANGED <<memVars, flushVars, logVars, client, otherVars, latest>>

Tick ==
  /\ writer = "select" /\ ~ draining /\ (reqs # <<>> \/ writeCh # <<>>)
  /\ Buffered(writeCh, reqs)
  /\ UNCHANGED <<memVars, flushVars, logVars, client, otherVars, latest>>

(* close was called: close write_ch and write what is still in it *)
StopWrites ==
  /\ writer = "select" /\ closer = "writes" /\ ~ draining
  /\ draining' = TRUE
  /\ UNCHANGED <<memVars, flushVars, logVars, writeVars, client, closer, reader, latest, ops,
                 failures>>

Drain ==
  /\ writer = "select" /\ draining /\ writeCh # <<>>
  /\ batch' = Append(reqs, Head(writeCh))
  /\ writeCh' = Tail(writeCh) /\ reqs' = <<>>
  /\ writer' = "number"
  /\ UNCHANGED <<memVars, flushVars, logVars, client, otherVars, latest>>

(***************************************************************************)
(* The loop returns.  A request it had only buffered is dropped with it,   *)
(* and its sender, whose channel has a sending end of its own, is neither  *)
(* answered nor woken by an error.                                         *)
(***************************************************************************)
WriterExits ==
  /\ writer = "select" /\ draining /\ writeCh = <<>>
  /\ writer' = "exit"
  /\ UNCHANGED <<memVars, flushVars, logVars, writeCh, reqs, batch, client, otherVars, latest>>

(* write_requests: new_cas_counter for every entry *)
NumberRequests ==
  /\ writer = "number"
  /\ batch' = [i \in DOMAIN batch |-> [batch[i] EXCEPT !.cas = casCounter + i]]
  /\ casCounter' = casCounter + Len(batch)
  /\ writer' = "log"
  /\ UNCHANGED <<memVars, flushVars, vlogEnd, vptr, writeCh, reqs, client, otherVars, latest>>

(* vlog.write: small values go to the log only with sync_writes *)
Logged(e) == SyncWrites \/ e.op = "big"

WriteLog ==
  LET rank(i) == Cardinality({j \in 1 .. i : Logged(batch[j])})
  IN  /\ writer = "log"
      /\ batch' = [i \in DOMAIN batch |->
                     [batch[i] EXCEPT !.ptr = IF Logged(batch[i]) THEN vlogEnd + rank(i) ELSE 0]]
      /\ vlogEnd' = vlogEnd + rank(Len(batch))
      /\ writer' = "room"
      /\ UNCHANGED <<memVars, flushVars, vptr, casCounter, writeCh, reqs, client, otherVars,
                     latest>>

(* All are answered with the error, and the loop panics (expect). *)
WriteLogFails ==
  /\ writer = "log" /\ failures < MaxFailures
  /\ failures' = failures + 1
  /\ client' = [c \in Clients |->
                  IF \E i \in DOMAIN batch : batch[i].client = c THEN "idle" ELSE client[c]]
  /\ batch' = <<>>
  /\ writer' = "dead"
  /\ UNCHANGED <<memVars, flushVars, logVars, writeCh, reqs, draining, closer, reader, ops,
                 latest>>

(* Mutant: flush_chan has no limit. *)
FlushChanFull_Never == FALSE

FlushChanFull == Len(flushChan) >= NumMemTables

(* Mutant: the task is given the end of the value log. *)
FlushTask_EndOfLog == [mt |-> Mt, vptr |-> vlogEnd]

FlushTask == [mt |-> Mt, vptr |-> vptr]

HasRoom == mem[Mt].puts < MemSize

(***************************************************************************)
(* ensure_room_for_write hands a full memtable to the flush task; only     *)
(* after vlog.sync does swap_st push it to imm.  While flush_chan is full  *)
(* it fails, and the loop tries again.                                     *)
(***************************************************************************)
EnsureRoom ==
  /\ writer = "room" /\ ~ HasRoom /\ ~ FlushChanFull
  /\ flushChan' = Append(flushChan, FlushTask)
  /\ writer' = "swap"
  /\ UNCHANGED <<memVars, flusher, disk, logVars, writeCh, reqs, batch, client, otherVars,
                 latest>>

SwapSt == mem' = Append(mem, NewMemTable) /\ imm' = Append(imm, Mt)

SwapFull ==
  /\ writer = "swap"
  /\ SwapSt
  /\ writer' = "room"
  /\ UNCHANGED <<flushVars, logVars, writeCh, reqs, batch, client, otherVars, latest>>

(* Mutant: a key that exists is not checked for again. *)
Refused_CasOnly(e) == e.check # 0 /\ (~ IsFound(Get(e.key)) \/ Get(e.key).cas # e.check)

(* write_to_lsm refuses an entry: NotFound, ValueCasMisMatch, ValueKeyExists *)
Refused(e) ==
  \/ e.check # 0 /\ (~ IsFound(Get(e.key)) \/ Get(e.key).cas # e.check)
  \/ e.op = "absent" /\ Exists(e.key)

(* Mutant: an entry that is refused is never answered. *)
Answered_Accepted(e) == ~ Refused(e)

(* resp_ch.send, with Ok or with the error *)
Answered(e) == TRUE

(* update_offset and write_to_lsm for the next request *)
WriteToLsm ==
  LET e == Head(batch)
      r == [op |-> e.op, cas |-> e.cas, ptr |-> e.ptr]
  IN  /\ writer = "room" /\ HasRoom
      /\ vptr' = IF e.ptr # 0 THEN e.ptr ELSE vptr
      /\ IF Refused(e) THEN UNCHANGED <<mem, latest>>
         ELSE /\ mem' = [mem EXCEPT ![Mt] = [kv |-> [@.kv EXCEPT ![e.key] = r],
                                             puts |-> @.puts + 1]]
              /\ latest' = [latest EXCEPT ![e.key] = r]
      /\ client' = [client EXCEPT ![e.client] = IF Answered(e) THEN "idle" ELSE @]
      /\ batch' = Tail(batch)
      /\ writer' = IF Tail(batch) = <<>> THEN "select" ELSE "room"
      /\ UNCHANGED <<imm, flushVars, vlogEnd, casCounter, writeCh, reqs, otherVars>>

-----------------------------------------------------------------------------
(***************************************************************************)
(* flush_mem_table: put !badger!head into the memtable, write its file,    *)
(* add it to level 0, and take the first memtable off imm.                 *)
(***************************************************************************)
(* Mutant: the memtable leaves imm before its table is in level 0. *)
FlushTakes_Advances ==
  /\ flusher.at = "idle" /\ flushChan # <<>> /\ imm # <<>>
  /\ flushChan' = Tail(flushChan)
  /\ flusher' = [at |-> IF Head(flushChan) = ExitTask THEN "exit" ELSE "write",
                 task |-> Head(flushChan)]
  /\ imm' = Tail(imm)
  /\ UNCHANGED <<mem, disk, logVars, writeVars, client, otherVars, latest>>

FlushTakes ==
  /\ flusher.at = "idle" /\ flushChan # <<>>
  /\ flushChan' = Tail(flushChan)
  /\ flusher' = [at |-> IF Head(flushChan) = ExitTask THEN "exit" ELSE "write",
                 task |-> Head(flushChan)]
  /\ UNCHANGED <<memVars, disk, logVars, writeVars, client, otherVars, latest>>

(* The counter stored with the head is read now, the pointer came with the task. *)
StoredHead(task) ==
  IF task.vptr = 0 THEN disk.head ELSE [ptr |-> task.vptr, cas |-> casCounter]

AddLevel0(task) ==
  [kv |-> [k \in Keys |-> IF mem[task.mt].kv[k] # NoRecord THEN mem[task.mt].kv[k]
                          ELSE disk.kv[k]],
   head |-> StoredHead(task)]

FlushAdds ==
  /\ flusher.at = "write"
  /\ disk' = AddLevel0(flusher.task)
  /\ flusher' = [flusher EXCEPT !.at = "advance"]
  /\ UNCHANGED <<memVars, flushChan, logVars, writeVars, client, otherVars, latest>>

(* An I/O error ends the task, and nothing starts another one. *)
FlushFails ==
  /\ flusher.at = "write" /\ failures < MaxFailures
  /\ failures' = failures + 1
  /\ flusher' = [flusher EXCEPT !.at = "dead"]
  /\ UNCHANGED <<memVars, flushChan, disk, logVars, writeVars, client, draining, closer, reader,
                 ops, latest>>

(* advance_imm: imm.remove(0) panics when swap_st has not been called yet. *)
AdvanceImm ==
  /\ flusher.at = "advance"
  /\ IF imm = <<>> THEN flusher' = [flusher EXCEPT !.at = "dead"] /\ UNCHANGED imm
     ELSE flusher' = [flusher EXCEPT !.at = "idle"] /\ imm' = Tail(imm)
  /\ UNCHANGED <<mem, flushChan, disk, logVars, writeVars, client, otherVars, latest>>

-----------------------------------------------------------------------------
(***************************************************************************)
(* close: stop the write loop, flush the memtable, tell the flush task to  *)
(* quit and wait for it.  A task that died counts as finished (Closer).    *)
(***************************************************************************)
CloseUnchanged == UNCHANGED <<disk, flusher, logVars, writeVars, client, draining, reader,
                              latest, ops, failures>>

Close ==
  /\ closer = "no"
  /\ closer' = "writes"
  /\ UNCHANGED <<memVars, flushChan>> /\ CloseUnchanged

CloseSkips ==
  /\ closer = "writes" /\ writer \in {"exit", "dead"}
  /\ mem[Mt].puts = 0
  /\ closer' = "quit"
  /\ UNCHANGED <<memVars, flushChan>> /\ CloseUnchanged

CloseFlushes ==
  /\ closer = "writes" /\ writer \in {"exit", "dead"}
  /\ mem[Mt].puts > 0 /\ ~ FlushChanFull
  /\ flushChan' = Append(flushChan, FlushTask)
  /\ closer' = "swap"
  /\ UNCHANGED memVars /\ CloseUnchanged

CloseSwaps ==
  /\ closer = "swap"
  /\ SwapSt
  /\ closer' = "quit"
  /\ UNCHANGED flushChan /\ CloseUnchanged

(* Mutant: the flush task is not told to quit. *)
CloseQuits_Silently ==
  /\ closer = "quit" /\ ~ FlushChanFull
  /\ closer' = "wait"
  /\ UNCHANGED <<memVars, flushChan>> /\ CloseUnchanged

CloseQuits ==
  /\ closer = "quit" /\ ~ FlushChanFull
  /\ flushChan' = Append(flushChan, ExitTask)
  /\ closer' = "wait"
  /\ UNCHANGED memVars /\ CloseUnchanged

Closed ==
  /\ closer = "wait" /\ flusher.at \in {"exit", "dead"}
  /\ closer' = "closed"
  /\ UNCHANGED <<memVars, flushChan>> /\ CloseUnchanged

-----------------------------------------------------------------------------
(***************************************************************************)
(* A get: the list of memtables, then their contents, then the levels.  It *)
(* may not return less than what was written when it started, its floor;   *)
(* one that passes over a record with an empty value has none.             *)
(***************************************************************************)
GetUnchanged == UNCHANGED <<memVars, flushVars, logVars, writeVars, client, draining, closer,
                            latest, ops, failures>>

StartGet(k) ==
  /\ reader.at = "idle" /\ closer = "no"
  /\ reader' = [at |-> "mem", key |-> k, tables |-> MemTables, floor |-> latest[k].cas]
  /\ GetUnchanged

PassedOver(r) ==
  \E i \in DOMAIN reader.tables :
    LET e == mem[reader.tables[i]].kv[reader.key] IN e.op = "empty" /\ e.cas > r.cas

Floor(r) == IF PassedOver(r) THEN 0 ELSE reader.floor

GetMem ==
  LET r == MemSearch(reader.tables, reader.key)
  IN  /\ reader.at = "mem"
      /\ reader' = IF r = NoRecord THEN [reader EXCEPT !.at = "disk", !.floor = Floor(r)]
                   ELSE [at |-> "idle", missed |-> r.cas < Floor(r)]
      /\ GetUnchanged

GetDisk ==
  /\ reader.at = "disk"
  /\ reader' = [at |-> "idle", missed |-> disk.kv[reader.key].cas < reader.floor]
  /\ GetUnchanged

-----------------------------------------------------------------------------
WriterStep ==
  \/ Receive \/ Tick \/ StopWrites \/ Drain \/ WriterExits
  \/ NumberRequests \/ WriteLog \/ EnsureRoom \/ SwapFull \/ WriteToLsm

FlusherStep == FlushTakes \/ FlushAdds \/ AdvanceImm

CloserStep == CloseSkips \/ CloseFlushes \/ CloseSwaps \/ CloseQuits \/ Closed

Next ==
  \/ \E c \in Clients : ClientSends(c) \/ SendPanics(c)
  \/ WriterStep \/ WriteLogFails
  \/ FlusherStep \/ FlushFails
  \/ Close \/ CloserStep
  \/ \E k \in Keys : StartGet(k)
  \/ GetMem \/ GetDisk

Spec == Init /\ [][Next]_vars

(***************************************************************************)
(* Fairness: the write loop, the flush task and the caller of close are    *)
(* tasks of the runtime, the loop has a timer, and adding a table to level *)
(* 0 ends (FlushCompletes of module Levels).                               *)
(***************************************************************************)
Fairness == WF_vars(WriterStep) /\ WF_vars(FlusherStep) /\ WF_vars(CloserStep)

FairSpec == Spec /\ Fairness

-----------------------------------------------------------------------------
(***************************************************************************)
(* The types.  Also: a memtable is never over-full, flush_chan keeps to    *)
(* its capacity, and vptr never points behind the value log.               *)
(***************************************************************************)
TypeOK ==
  /\ \A i \in DOMAIN mem : mem[i].puts <= MemSize
  /\ ToSet(imm) \subseteq 1 .. Mt - 1
  /\ Len(flushChan) <= NumMemTables
  /\ flusher.at \in {"idle", "write", "advance", "exit", "dead"}
  /\ writer \in {"select", "number", "log", "room", "swap", "exit", "dead"}
  /\ client \in [Clients -> {"idle", "waiting", "panicked"}]
  /\ closer \in {"no", "writes", "swap", "quit", "wait", "closed"}
  /\ vptr <= vlogEnd

(***************************************************************************)
(* Whatever the flush task has done with the memtables, a search of the    *)
(* memtables and the levels finds the last record written of every key;    *)
(* a record with an empty value is passed over and not meant here.         *)
(***************************************************************************)
LookupIsLatest == \A k \in Keys : latest[k].op # "empty" => Get(k) = latest[k]

(***************************************************************************)
(* A get that takes its list of memtables, then is overtaken by the flush  *)
(* task, and then reads the levels, still finds what was there at its      *)
(* start, unless it meets a record with an empty value in a memtable.      *)
(***************************************************************************)
GetNotStale == reader.at = "idle" => ~ reader.missed

(***************************************************************************)
(* The head stored in the levels never runs ahead: what is in the value    *)
(* log and not in a table is behind it, so a replay from the head finds    *)
(* it; and its CAS counter is not less than any in the tables ("our value  *)
(* here is guaranteed to be >= the CASCounter values written before vptr"). *)
(***************************************************************************)
HeadSafe ==
  /\ \A i \in DOMAIN mem, k \in Keys :
       LET r == mem[i].kv[k]
       IN  r.ptr # 0 /\ r.cas > disk.kv[k].cas => r.ptr > disk.head.ptr
  /\ \A i \in DOMAIN batch : batch[i].ptr # 0 => batch[i].ptr > disk.head.ptr
  /\ disk.head.ptr # 0 => \A k \in Keys : disk.kv[k].cas <= disk.head.cas

(***************************************************************************)
(* A conditional write (compare_and_set, compare_and_delete) changes a key *)
(* only if the last record has the counter it asked for, and               *)
(* set_if_ab_sent only a key that is not there, however many clients try   *)
(* the same.  That is so while the last record has a value or the delete   *)
(* bit.  After a compare_and_delete it is not: the empty record that it    *)
(* writes is passed over (kv.rs:187), an older record with the counter of  *)
(* its time is found again, and a stale compare_and_set succeeds, although *)
(* kv.rs:1053 says "CompareAndDelete deletes a key".                       *)
(***************************************************************************)
ConditionalWrites ==
  [][\A k \in Keys :
       latest'[k] # latest[k] /\ latest[k].op # "empty" =>
         /\ Head(batch).check # 0 =>
              latest[k].cas = Head(batch).check /\ latest[k].op # "delete"
         /\ Head(batch).op = "absent" => latest[k].op \in {"none", "delete"}]_vars

TaskDied == flusher.at = "dead" \/ writer = "dead"

(***************************************************************************)
(* Every client gets an answer, also when requests are refused, memtables  *)
(* fill up, flush_chan is full or the store is being closed, as long as no *)
(* task died.  The one exception is a request that the write loop had      *)
(* taken from write_ch and only buffered when close came, with none behind *)
(* it: it is lost and its sender waits forever.                            *)
(***************************************************************************)
Lost(c) == writer = "exit" /\ \E i \in DOMAIN reqs : reqs[i].client = c

RequestsAnswered ==
  \A c \in Clients : client[c] = "waiting" ~> client[c] # "waiting" \/ TaskDied \/ Lost(c)

(* close comes to an end, as long as no task died. *)
CloseCompletes == closer # "no" ~> closer = "closed" \/ TaskDied

(***************************************************************************)
(* "It's crucial to call [close] to ensure all the pending updates make    *)
(* their way to disk": after close, every record a client was told of is   *)
(* in a table.                                                             *)
(***************************************************************************)
ClosedIsDurable == closer = "closed" => \A k \in Keys : disk.kv[k] = latest[k]
=============================================================================
