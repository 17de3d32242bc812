------------------------------ MODULE Memtable ------------------------------
(***************************************************************************)
(* The memtable and the tables on disk that it is frozen to:               *)
(* src/src/storage/memtable/memtable.cc, src/src/storage/sstable/*.cc, and *)
(* the iterator that merges them, src/src/storage/multi_iter.cc.           *)
(*                                                                         *)
(* Calls of a memtable are serialised by mu_, and MinorFreeze runs inside  *)
(* Add.  What can come in between is a write() that fails or the end of    *)
(* the process, after any of the four steps of SStable::Flush: open, the   *)
(* size word of the meta data, the meta data, the records.                 *)
(***************************************************************************)
EXTENDS StoreLog

CONSTANTS
  MaxSize,   \* max_size_
  MaxAdds,   \* bound: records added
  MaxLives,  \* bound: processes started
  MaxFail    \* bound: flushes that do not get through

ASSUME MemtableAssumption == {MaxSize, MaxAdds, MaxLives, MaxFail} \subseteq Nat

VARIABLES
  mst,       \* the process: "down", "up", or "failed" to start for good
  mem,       \* mem_map_
  id,        \* id_ of SSTMgr
  ssts,      \* ssts_: the file of each table and where its records begin
  files,     \* the directory: file number to cells
  adds, lives, fails,  \* what the bounds count
  flushed,   \* history: the records that the last flush wrote to a file
  reused     \* history: files that were written more than once

mtVars == <<mst, mem, id, ssts, files, adds, lives, fails, flushed, reused>>

MtInit ==
  /\ mst = "down" /\ mem = {} /\ id = 0 /\ ssts = <<>>
  /\ files = <<>>
  /\ adds = 0 /\ lives = 0 /\ fails = 0
  /\ flushed = <<>> /\ reused = {}

-----------------------------------------------------------------------------
(* Iterators *)

\* MemIterator: the set in its order.
MemIter(m) == SetToSortSeq(m, LogLess)

\* SSTIterator: from the offset of the table to the end of the file.
SSTIter(t) == ReadLogs(files[t.file], t.offset)

\* MultiIter::Next on iterators its, each given by the records it has left:
\* the least of their next records, and past its key with all of them.
Choosen(its) ==
  LET next == {its[i][1] : i \in {j \in DOMAIN its : its[j] # <<>>}}
  IN  CHOOSE l \in next : \A m \in next : m = l \/ LogLess(l, m)

\* Faulty Next: takes one record at a time from each iterator.
PastKeyOnce(it, key) == IF it # <<>> /\ it[1].key = key THEN Tail(it) ELSE it

PastKey(it, key) ==
  LET others == {i \in DOMAIN it : it[i].key # key}
  IN  IF others = {} THEN <<>> ELSE SubSeq(it, Min(others), Len(it))

MultiScan(iters) ==
  LET Scan[n \in Nat, its \in Seq(Seq(Logs(Nat) \cup {Garbage}))] ==
        IF n = 0 \/ \A i \in DOMAIN its : its[i] = <<>> THEN <<>>
        ELSE <<Choosen(its)>> \o Scan[n - 1, [i \in DOMAIN its |-> PastKey(its[i], Choosen(its).key)]]
  IN  Scan[adds, iters]

-----------------------------------------------------------------------------
(* SSTMeta, SStable, SSTFlusher, SSTMgr *)

MetaSize(last) == Size(last) + 2
\* Faulty offset: without the size word of the meta data.
DataOffsetNoWord(last) == MetaSize(last) + 1

DataOffset(last) == 1 + MetaSize(last) + 1

\* SStable::Recover reads the meta data; this table begins where it says.
MetaWhole(f) == Len(f) > 0 /\ WholeAt(f, 1, "meta", MetaSize(f[1].of))

\* File f after the first n steps of SStable::Flush of records logs, the last
\* of which is in the meta data.  The file is not truncated.
FlushTo(f, logs, n) ==
  LET last == logs[Len(logs)]
      data == FlattenSeq([i \in DOMAIN logs |-> LogCells(logs[i])])
      cells == <<SizeWord("meta", last)>> \o Encode("meta", last, MetaSize(last)) \o data
  IN  CASE n = 1 -> f
        [] n = 2 -> Overlay(f, 1, SubSeq(cells, 1, 1))
        [] n = 3 -> Overlay(f, 1, SubSeq(cells, 1, DataOffset(last) - 1))
        [] n = 4 -> Overlay(f, 1, cells)

\* Memtable::Init and SSTMgr::Init: the tables that are there, and numbers
\* from the start again.  A file whose meta data is not whole ends the process.
Recover ==
  /\ mst = "down" /\ lives < MaxLives
  /\ lives' = lives + 1
  /\ mem' = {} /\ id' = 0
  /\ IF \A n \in DOMAIN files : MetaWhole(files[n])
       THEN /\ mst' = "up"
            /\ ssts' = SetToSeq({[file |-> n, offset |-> DataOffset(files[n][1].of)] : n \in DOMAIN files})
       ELSE mst' = "failed" /\ ssts' = <<>>
  /\ UNCHANGED <<files, adds, fails, flushed, reused>>

\* The end of the process between two calls; Stop writes nothing either.
MtStop ==
  /\ mst = "up" /\ lives < MaxLives
  /\ mst' = "down"
  /\ UNCHANGED <<mem, id, ssts, files, adds, lives, fails, flushed, reused>>

-----------------------------------------------------------------------------
(* Memtable *)

DataSize(m) == FoldSet(LAMBDA l, n : n + Size(l), 0, m)

\* MinorFreeze of the records m with a flush that does n steps, after which
\* the process goes on or not.  A write() of the records that fails is no
\* error for SStable::Flush.
MinorFreeze(m, n, alive) ==
  LET logs == MemIter(m)
      new == id + 1
      old == IF new \in DOMAIN files THEN files[new] ELSE <<>>
  IN  /\ mem' = {} /\ id' = new
      /\ fails' = IF n = 4 /\ alive THEN fails ELSE fails + 1
      /\ mst' = IF alive THEN "up" ELSE "down"
      /\ files' = IF n = 0 THEN files
                  ELSE [i \in DOMAIN files \cup {new} |-> IF i = new THEN FlushTo(old, logs, n) ELSE files[i]]
      /\ ssts' = IF n >= 3 /\ alive
                   THEN Append(ssts, [file |-> new, offset |-> DataOffset(logs[Len(logs)])]) ELSE ssts
      /\ flushed' = IF n = 0 THEN flushed
                    ELSE [i \in DOMAIN files' |-> IF i = new THEN IF n = 4 THEN logs ELSE <<>> ELSE flushed[i]]
      /\ reused' = IF n > 0 /\ new \in DOMAIN files THEN reused \cup {new} ELSE reused

\* Add of a record with the next lsn.
Add(key, val) ==
  LET log == [lsn |-> adds + 1, key |-> key, val |-> val]
      m == mem \cup {log}
  IN  /\ mst = "up" /\ adds < MaxAdds
      /\ adds' = adds + 1
      /\ \/ /\ DataSize(m) <= MaxSize
            /\ mem' = m
            /\ UNCHANGED <<mst, id, ssts, files, fails, flushed, reused>>
         \/ /\ DataSize(m) > MaxSize
            /\ \E n \in 0 .. 4, alive \in BOOLEAN :
                 /\ (n = 4 /\ alive) \/ fails < MaxFail
                 /\ MinorFreeze(m, n, alive)
      /\ UNCHANGED lives

MtNext ==
  \/ Recover \/ MtStop
  \/ \E key \in Keys, val \in Vals : Add(key, val)

-----------------------------------------------------------------------------
(* Properties *)

NewestOf(logs) ==
  SetToSortSeq({l \in logs : \A m \in logs : m.key = l.key => m.lsn <= l.lsn}, LogLess)

\* A scan over the memtable and all tables, those of earlier processes
\* included, gives the keys in order and of each its newest record among all
\* that were flushed or are in memory, however they are spread over tables,
\* and whichever flushes failed or were cut off; as long as no file has been
\* written twice (SSTMgr counts its files from the start again after a
\* restart).
ScanIsNewest ==
  (mst = "up" /\ reused = {}) =>
     MultiScan(<<MemIter(mem)>> \o [i \in DOMAIN ssts |-> SSTIter(ssts[i])])
       = NewestOf(mem \cup UNION {ToSet(flushed[n]) : n \in DOMAIN flushed})

\* The table that was flushed last to a file reads back: all of it, first, and
\* alone unless the file was there before (Flush does not truncate it, and
\* what was longer stays).
TablesReadBack ==
  \A i \in DOMAIN ssts :
    LET n == ssts[i].file
        found == SSTIter(ssts[i])
    IN  (mst = "up" /\ \A j \in i + 1 .. Len(ssts) : ssts[j].file # n)
          => IsPrefix(flushed[n], found) /\ (n \notin reused => found = flushed[n])
=============================================================================
