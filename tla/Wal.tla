--------------------------------- MODULE Wal ---------------------------------
(***************************************************************************)
(* The log of src/src/wal/wal.cc: records are collected in mlog_ and       *)
(* written by SyncToDLog, or written to the stream at once by LogToDisk.   *)
(* A record takes two cells of the file, its type and key and its value,   *)
(* and there is no mark of where a record begins.                          *)
(***************************************************************************)
EXTENDS StoreLog

CONSTANTS
  DLogs,     \* bound: records given to the log
  DLives,    \* bound: times it is opened
  NoFile     \* the log file does not exist

ASSUME WalAssumption == {DLogs, DLives} \subseteq Nat

VARIABLES
  dst,       \* "closed", "open" or "failed"
  dfile,     \* the log file
  stream,    \* records in the buffer of dlog_
  mlog,      \* mlog_
  dcount,    \* what the bounds count
  durable,   \* history: the records that have been on disk
  mixed,     \* history: LogToDisk overtook records in mlog_
  cut        \* history: the process ended inside a write that was not clean

dlogVars == <<dst, dfile, stream, mlog, dcount, durable, mixed, cut>>

DInit ==
  /\ dst = "closed" /\ dfile = NoFile /\ stream = <<>> /\ mlog = <<>>
  /\ dcount = [logs |-> 0, lives |-> 0]
  /\ durable = {} /\ mixed = FALSE /\ cut = FALSE

\* operator<<
DCells(logs) ==
  FlattenSeq([i \in DOMAIN logs |-> <<SizeWord("wal", logs[i])>> \o Encode("wal", logs[i], 1)])

\* operator>> until it fails: a record that is cut off at the end of the file
\* is left out, and one that is followed by others shifts them.
DRead(f) ==
  LET Read[p \in 1 .. Len(f) + 1] ==
        IF p >= Len(f) THEN <<>>
        ELSE IF WholeAt(f, p, "wal", 1) THEN <<f[p].of>> \o Read[p + 2]
        ELSE <<Garbage>>
  IN  Read[1]


\* Recover: the records are loaded into mlog_, and stay in the file.
DRecover ==
  LET logs == DRead(dfile)
  IN  /\ mlog' = logs
      /\ dst' = IF Garbage \in ToSet(logs) THEN "failed" ELSE "open"
      /\ UNCHANGED dfile

\* Start, where there is no file.
DStart == dfile' = <<>> /\ mlog' = <<>> /\ dst' = "open"

Open ==
  /\ dst = "closed" /\ dcount.lives < DLives
  /\ dcount' = [dcount EXCEPT !.lives = @ + 1]
  /\ IF dfile = NoFile THEN DStart ELSE DRecover
  /\ UNCHANGED <<stream, durable, mixed, cut>>

NewLog(key) == [lsn |-> dcount.logs + 1, key |-> key, val |-> 0]

AppendToMLog(key) ==
  /\ dst = "open" /\ dcount.logs < DLogs
  /\ dcount' = [dcount EXCEPT !.logs = @ + 1]
  /\ mlog' = Append(mlog, NewLog(key))
  /\ UNCHANGED <<dst, dfile, stream, durable, mixed, cut>>

LogToDisk(key) ==
  /\ dst = "open" /\ dcount.logs < DLogs
  /\ dcount' = [dcount EXCEPT !.logs = @ + 1]
  /\ stream' = Append(stream, NewLog(key))
  /\ mixed' = (mixed \/ mlog # <<>>)
  /\ UNCHANGED <<dst, dfile, mlog, durable, cut>>

\* SyncToDLog writes the records that were read by Recover, too.  Stop is
\* SyncToDLog and close.
SyncToDLog(stop) ==
  /\ dst = "open"
  /\ dfile' = dfile \o DCells(stream \o mlog)
  /\ durable' = durable \cup ToSet(stream \o mlog)
  /\ stream' = <<>> /\ mlog' = <<>>
  /\ dst' = IF stop THEN "closed" ELSE "open"
  /\ UNCHANGED <<dcount, mixed, cut>>

\* The process ends after n cells have been written, of the stream when its
\* buffer was full or of a SyncToDLog.
DCrash(n) ==
  LET all == stream \o mlog
      out == SubSeq(all, 1, n \div 2)
      again == {i \in DOMAIN all : all[i] \in durable}
  IN  /\ dst = "open" /\ n <= 2 * Len(all)
      /\ dfile' = dfile \o SubSeq(DCells(all), 1, n)
      /\ durable' = durable \cup ToSet(out)
      /\ cut' = (cut \/ n % 2 = 1 \/ again \cap DOMAIN out \notin {{}, again})
      /\ stream' = <<>> /\ mlog' = <<>> /\ dst' = "closed"
      /\ UNCHANGED <<dcount, mixed>>

DLogNext ==
  \/ Open
  \/ \E key \in Keys : AppendToMLog(key) \/ LogToDisk(key)
  \/ \E stop \in BOOLEAN : SyncToDLog(stop)
  \/ \E n \in 0 .. 2 * Len(stream \o mlog) : DCrash(n)

-----------------------------------------------------------------------------
(* Properties *)

=============================================================================
