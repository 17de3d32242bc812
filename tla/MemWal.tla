------------------------------- MODULE MemWal -------------------------------
(***************************************************************************)
(* The write-ahead log of the memtable, src/src/storage/memtable/wal.cc:   *)
(* records are appended to log.ctgfs, and CURRENT says from where on they  *)
(* are replayed.  One thread logs (log_mu_ lets one in at a time), another *)
(* sets the mark without that lock; the process may end at any step.       *)
(***************************************************************************)
EXTENDS StoreLog

CONSTANTS
  WalLogs,   \* bound: records logged
  WalLives,  \* bound: processes started
  WalFails,  \* bound: write()s that fail
  WalMarks,  \* bound: marks set
  Absent, Empty   \* contents of CURRENT: no file, and no offset in it

ASSUME MemWalAssumption == {WalLogs, WalLives, WalFails, WalMarks} \subseteq Nat

VARIABLES
  wst,       \* the process: "down", "start1", "start2", "up", "failed"
  wlog,      \* log.ctgfs, Absent or cells
  current,   \* CURRENT
  writing,   \* the record of which LogToDisk has written the size word
  mark,      \* LogCurrent: where it is, and its offset
  wcount,    \* what the bounds count
  written,   \* history: the records written and where each begins
  holes      \* history: where size words are that no record follows

walVars == <<wst, wlog, current, writing, mark, wcount, written, holes>>

NoMark == [pc |-> "idle", offset |-> 0]

WalInit ==
  /\ wst = "down" /\ wlog = Absent /\ current = Absent
  /\ writing = <<>> /\ mark = NoMark
  /\ wcount = [logs |-> 0, lives |-> 0, fails |-> 0, marks |-> 0]
  /\ written = <<>> /\ holes = {}

-----------------------------------------------------------------------------
(* Init: Start or Recover *)

\* Start: makes the log, then CURRENT, then writes an offset of 0 to it.
Start ==
  /\ \/ /\ wst = "down" /\ Absent \in {wlog, current}
        /\ wcount.lives < WalLives
        /\ wcount' = [wcount EXCEPT !.lives = @ + 1]
        /\ wst' = "start1" /\ wlog' = <<>> /\ UNCHANGED current
     \/ /\ wst = "start1"
        /\ wst' = "start2" /\ current' = Empty /\ UNCHANGED <<wlog, wcount>>
     \/ /\ wst = "start2"
        /\ wst' = "up" /\ current' = 0 /\ UNCHANGED <<wlog, wcount>>
  /\ UNCHANGED <<writing, mark, written, holes>>

\* The offset that Recover reads; it stays 0 if read() finds nothing.
RecoverFrom == IF current = Empty THEN 0 ELSE current

\* Faulty Recover: begins with the record after the mark.
ReplayPast == ReadLogs(wlog, RecoverFrom + 2)

\* The records that Recover passes to func_.
Replay == ReadLogs(wlog, RecoverFrom + 1)

WalRecover ==
  /\ wst = "down" /\ wlog # Absent /\ current # Absent
  /\ wcount.lives < WalLives
  /\ wcount' = [wcount EXCEPT !.lives = @ + 1]
  /\ wst' = IF Garbage \in ToSet(Replay) THEN "failed" ELSE "up"
  /\ UNCHANGED <<wlog, current, writing, mark, written, holes>>

\* The end of the process; Stop only closes the log.
WalCrash ==
  /\ wst \in {"start1", "start2", "up"} /\ wcount.lives < WalLives
  /\ wst' = "down"
  /\ holes' = IF writing = <<>> THEN holes ELSE holes \cup {Len(wlog)}
  /\ writing' = <<>> /\ mark' = NoMark
  /\ UNCHANGED <<wlog, current, wcount, written>>

-----------------------------------------------------------------------------
(* LogToDisk: two write()s *)

LogSize(key, val) ==
  LET log == [lsn |-> wcount.logs + 1, key |-> key, val |-> val]
  IN  /\ wst = "up" /\ writing = <<>> /\ wcount.logs < WalLogs
      /\ wcount' = [wcount EXCEPT !.logs = @ + 1]
      /\ wlog' = Append(wlog, SizeWord("log", log))
      /\ writing' = <<log>>
      /\ UNCHANGED <<wst, current, mark, written, holes>>

LogBody ==
  LET log == writing[1]
  IN  /\ writing # <<>>
      /\ wlog' = wlog \o Encode("log", log, Size(log))
      /\ written' = Append(written, [log |-> log, at |-> Len(wlog)])
      /\ writing' = <<>>
      /\ UNCHANGED <<wst, current, mark, wcount, holes>>

\* The size word stays when the second write() fails.
LogBodyFails ==
  /\ writing # <<>> /\ wcount.fails < WalFails
  /\ wcount' = [wcount EXCEPT !.fails = @ + 1]
  /\ holes' = holes \cup {Len(wlog)}
  /\ writing' = <<>>
  /\ UNCHANGED <<wst, wlog, current, mark, written>>

-----------------------------------------------------------------------------
(* LogCurrent *)

\* GetDiskLogSize, by LogCurrent() or by who will pass the offset to
\* LogCurrent(offset); an offset of 0 is passed, too.
MarkSize ==
  /\ wst = "up" /\ mark.pc = "idle" /\ wcount.marks < WalMarks
  /\ wcount' = [wcount EXCEPT !.marks = @ + 1]
  /\ \E n \in {0, Len(wlog)} : mark' = [pc |-> "open", offset |-> n]
  /\ UNCHANGED <<wst, wlog, current, writing, written, holes>>

\* open() with O_TRUNC, then write().
MarkOpen ==
  /\ mark.pc = "open"
  /\ current' = Empty
  /\ mark' = [mark EXCEPT !.pc = "write"]
  /\ UNCHANGED <<wst, wlog, writing, wcount, written, holes>>

MarkWrite ==
  /\ mark.pc = "write"
  /\ current' = mark.offset
  /\ mark' = NoMark
  /\ UNCHANGED <<wst, wlog, writing, wcount, written, holes>>

WalNext ==
  \/ Start \/ WalRecover \/ WalCrash
  \/ \E key \in Keys, val \in Vals : LogSize(key, val)
  \/ LogBody \/ LogBodyFails
  \/ MarkSize \/ MarkOpen \/ MarkWrite

-----------------------------------------------------------------------------
(* Properties *)

\* Whenever the process ends, the next one replays exactly the records that
\* were written from the mark on (from the start, if the mark was just being
\* written), each once and in order.  It fails to start exactly if there is a
\* size word without its record after the mark, or if the mark was taken
\* between a size word and its record, which LogCurrent() can do.
ReplayIsExact ==
  (wlog # Absent /\ current # Absent) =>
    LET from == RecoverFrom
        unfinished == holes \cup IF writing = <<>> THEN {} ELSE {Len(wlog)}
        inside == \E i \in DOMAIN written :
                    written[i].at <= from /\ from < written[i].at + Size(written[i].log)
        kept == SelectSeq(written, LAMBDA w : w.at > from)
    IN  IF inside \/ \E h \in unfinished : h > from
          THEN Garbage \in ToSet(Replay)
          ELSE Replay = [i \in DOMAIN kept |-> kept[i].log]
=============================================================================
