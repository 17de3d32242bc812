------------------------------ MODULE StoreLog ------------------------------
(***************************************************************************)
(* The records of the storage engine, src/src/include/storage/log.h, their *)
(* order, and how they lie in a file.                                      *)
(*                                                                         *)
(* A file is a sequence of cells, the units that a write may end between.  *)
(* A record takes a cell for the word with its size, which is written by   *)
(* itself, a cell for its fields of fixed size and its key, and one for    *)
(* every unit of its value.                                                *)
(***************************************************************************)
EXTENDS Integers, Sequences, SequencesExt, FiniteSets, FiniteSetsExt

CONSTANTS
  Keys,      \* keys, as numbers in the order of the strings
  Vals       \* values, each by the units it takes

ASSUME StoreLogAssumption == Keys \subseteq Nat \ {0} /\ Vals \subseteq Nat

\* Nothing looks at the operation of a record (PUT or DEL), so it is left out.
Logs(lsns) == [lsn : lsns, key : Keys, val : Vals]

\* operator<: by key, and the newest record of a key first.
LogLess(left, right) ==
  left.key < right.key \/ (left.key = right.key /\ left.lsn > right.lsn)

Size(log) == 1 + log.val

\* What Log::Write and Encode put into a file; kind tells the records of a
\* table from its meta data.
SizeWord(kind, log) == [kind |-> kind, of |-> log, at |-> 0]
Encode(kind, log, size) == [i \in 1 .. size |-> [kind |-> kind, of |-> log, at |-> i]]
LogCells(log) == <<SizeWord("log", log)>> \o Encode("log", log, Size(log))

\* Log::Read and Decode at position p of file f give what was written there,
\* if all of it is there.
WholeAt(f, p, kind, size) ==
  /\ f[p].kind = kind /\ f[p].at = 0
  /\ p + size <= Len(f)
  /\ \A i \in 1 .. size : f[p + i] = [kind |-> kind, of |-> f[p].of, at |-> i]

\* If not, read() is short or finds other bytes, Decode takes lengths from
\* bytes that are none, and the assertion on the size, or the allocation,
\* ends the process; the model reads no further.
Garbage == [lsn |-> 0, key |-> 0, val |-> 0]

\* The records that a reader finds from position p (counted from 1) on.
ReadLogs(f, p) ==
  LET Read[q \in 1 .. Len(f) + 1] ==
        IF q > Len(f) THEN <<>>
        ELSE IF WholeAt(f, q, "log", Size(f[q].of))
               THEN <<f[q].of>> \o Read[q + 1 + Size(f[q].of)]
        ELSE <<Garbage>>
  IN  IF p > Len(f) THEN <<>> ELSE Read[p]

\* write() of cells at position p of a file that may be longer already.
Overlay(f, p, cells) ==
  [i \in 1 .. Max({Len(f), p - 1 + Len(cells)}) |->
     IF i \in p .. p - 1 + Len(cells) THEN cells[i - p + 1] ELSE f[i]]
=============================================================================
