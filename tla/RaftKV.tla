------------------------------- MODULE RaftKV -------------------------------
(***************************************************************************)
(* The replicated key-value store: RaftKV of src/src/kv/raft_kv.cc on the  *)
(* state machine RocksFSM of src/src/raft/fsm.cc, whose operations are     *)
(* replicated by braft and applied to a rocksdb on every node.             *)
(*                                                                         *)
(* braft and rocksdb are external.  Of braft the model has the committed   *)
(* log, one leader at a time with what was proposed to it, and that a      *)
(* leader that steps down fails the closures of proposals that are not     *)
(* committed, some of which its successor commits all the same.  There are *)
(* no snapshots: a node that is started applies the whole log again, to    *)
(* the database that it finds.                                             *)
(***************************************************************************)
EXTENDS Integers, Sequences, FiniteSets, Waiter

CONSTANTS
  Nodes, None,
  KvKeys,        \* keys; a caller puts its own name
  KvBounds       \* alternative bounds of a behaviour, see KvBound

\* Bounds: the calls that are made, and of which operations; the leaders
\* elected; the times that nodes are opened.
KvBound == [callers : SUBSET Callers, ops : SUBSET {"PUT", "GET"}, elections : Nat, starts : Nat]

ASSUME RaftKVAssumption == KvBounds \subseteq KvBound

VARIABLES
  st,            \* a node: "down", "opening" and "closing" (braft runs, db_
                 \* is not there), or "up"
  leader_term,   \* leader_term_ >= 0
  db,            \* rocksdb, which survives
  leader, log, tail,   \* external: the leader, the committed log, proposals
  applied,       \* entries that a node has applied since it was opened
  call,          \* calls of RaftKV::Put and RocksFSM::Get: node, key, step
  kvbound,       \* the bounds of this behaviour
  elections, starts,   \* what they count
  high           \* history: the most entries that a node has ever applied

counters == <<kvbound, elections, starts>>
raftVars == <<leader, log, tail, counters>>
nodeVars == <<st, leader_term, db, applied, high>>
kvVars == <<raftVars, nodeVars, call, waiterVars>>

KvInit ==
  /\ st = [n \in Nodes |-> "down"]
  /\ leader_term = [n \in Nodes |-> FALSE]
  /\ db = [n \in Nodes |-> [k \in KvKeys |-> None]]
  /\ leader = None /\ log = <<>> /\ tail = <<>>
  /\ applied = [n \in Nodes |-> 0] /\ high = [n \in Nodes |-> 0]
  /\ call = [c \in Callers |-> [pc |-> "idle", node |-> None, key |-> None, op |-> None]]
  /\ kvbound \in KvBounds /\ elections = 0 /\ starts = 0
  /\ WaiterInit

-----------------------------------------------------------------------------
(* Open, Close, and the end of the process *)

\* Open starts the raft node before it opens the database.
Open(n) ==
  \/ /\ st[n] = "down" /\ starts < kvbound.starts
     /\ starts' = starts + 1
     /\ st' = [st EXCEPT ![n] = "opening"]
     /\ applied' = [applied EXCEPT ![n] = 0]
     /\ UNCHANGED <<leader_term, db, high, leader, log, tail, kvbound, elections, call, waiterVars>>
  \/ /\ st[n] = "opening"
     /\ st' = [st EXCEPT ![n] = "up"]
     /\ UNCHANGED <<leader_term, db, applied, high, raftVars, call, waiterVars>>

\* A leader is lost: the first k of its proposals are committed by its
\* successor.
Lost(k) ==
  /\ log' = log \o SubSeq(tail, 1, k)
  /\ tail' = <<>> /\ leader' = None

\* The process of node n ends, and its calls with it.
Ends(n) ==
  LET here == {c \in Callers : call[c].node = n /\ wait[c].pc # "done"}
  IN  /\ st' = [st EXCEPT ![n] = "down"]
      /\ leader_term' = [leader_term EXCEPT ![n] = FALSE]
      /\ IF leader = n THEN \E k \in 0 .. Len(tail) : Lost(k) ELSE UNCHANGED <<leader, log, tail>>
      /\ call' = [c \in Callers |-> IF c \in here THEN [call[c] EXCEPT !.pc = "dead"] ELSE call[c]]
      /\ signal' = [c \in Callers |-> IF call[c].node = n THEN [signal[c] EXCEPT !.pc = "done"] ELSE signal[c]]
      /\ wait' = [c \in Callers |-> IF c \in here THEN [wait[c] EXCEPT !.pc = "none"] ELSE wait[c]]
      /\ UNCHANGED <<db, applied, high, counters, waiter, missed, early>>

\* Close deletes the database before it shuts the node down.
Close(n) ==
  /\ st[n] = "up" /\ starts < kvbound.starts
  /\ st' = [st EXCEPT ![n] = "closing"]
  /\ UNCHANGED <<leader_term, db, applied, high, raftVars, call, waiterVars>>

\* The end of Close, or a crash.
Stop(n) == st[n] # "down" /\ starts < kvbound.starts /\ Ends(n)

-----------------------------------------------------------------------------
(* External: leaders, and the log *)

\* on_leader_start is called when a leader has applied all that was committed
\* before it.
Elect(n) ==
  /\ leader = None /\ st[n] = "up" /\ elections < kvbound.elections
  /\ applied[n] = Len(log)
  /\ elections' = elections + 1
  /\ leader' = n
  /\ leader_term' = [leader_term EXCEPT ![n] = TRUE]
  /\ UNCHANGED <<log, tail, kvbound, starts, st, db, applied, high, call, waiterVars>>


\* RocksClosure::Run for the calls of a set: Signal is under way.
Closures(calls, status) ==
  signal' = [c \in Callers |-> IF c \in calls THEN [pc |-> "completed", status |-> status] ELSE signal[c]]

\* on_leader_stop; the proposals that are not committed fail.
StepDown(n) ==
  /\ leader = n
  /\ leader_term' = [leader_term EXCEPT ![n] = FALSE]
  /\ Closures({tail[i] : i \in DOMAIN tail}, "error")
  /\ \E k \in 0 .. Len(tail) : Lost(k)
  /\ UNCHANGED <<counters, st, db, applied, high, call, waiter, wait, missed, early>>

Commit ==
  /\ leader # None /\ tail # <<>>
  /\ log' = Append(log, Head(tail)) /\ tail' = Tail(tail)
  /\ UNCHANGED <<leader, counters, nodeVars, call, waiterVars>>

-----------------------------------------------------------------------------
(* RocksFSM *)

\* Faulty on_apply: keeps a value that is there.
DbAfterInsert(d, c) ==
  IF call[c].op = "PUT" /\ d[call[c].key] = None THEN [d EXCEPT ![call[c].key] = c] ELSE d

\* The database after an entry; OP_GET does nothing.
DbAfter(d, c) ==
  IF call[c].op = "PUT" THEN [d EXCEPT ![call[c].key] = c] ELSE d

\* The node that proposed an entry has its closure until it stops or steps
\* down.
HasClosure(n, c) == call[c].node = n /\ call[c].pc = "wait" /\ signal[c].pc = "none"

\* on_apply of one entry, and its closure.
Apply(n) ==
  LET c == log[applied[n] + 1]
  IN  /\ st[n] # "down" /\ applied[n] < Len(log)
      /\ \/ /\ st[n] = "up"
            /\ db' = [db EXCEPT ![n] = DbAfter(@, c)]
            /\ applied' = [applied EXCEPT ![n] = @ + 1]
            /\ high' = [high EXCEPT ![n] = IF @ > applied[n] THEN @ ELSE applied[n] + 1]
            /\ Closures(IF HasClosure(n, c) THEN {c} ELSE {}, "ok")
            /\ UNCHANGED <<raftVars, st, leader_term, call, waiter, wait, missed, early>>
         \* db_ is not there: the process ends
         \/ st[n] # "up" /\ Ends(n)

\* propose: braft refuses a task if the node is not the leader (any more).
Propose(c) ==
  LET n == call[c].node
  IN  /\ call[c].pc = "checked"
      /\ call' = [call EXCEPT ![c].pc = "wait"]
      /\ wait' = [wait EXCEPT ![c].pc = "check"]
      /\ IF leader = n THEN tail' = Append(tail, c) /\ UNCHANGED signal
         ELSE Closures({c}, "error") /\ UNCHANGED tail
      /\ UNCHANGED <<leader, log, counters, nodeVars, waiter, missed, early>>

-----------------------------------------------------------------------------
(* RaftKV *)

\* Put up to IsLeader; and RocksFSM::Get, which is proposed like a Put.
Call(c, n, key, op) ==
  /\ call[c].pc = "idle" /\ st[n] = "up"
  /\ call' = [call EXCEPT ![c] = [pc |-> IF leader_term[n] THEN "checked" ELSE "refused",
                                  node |-> n, key |-> key, op |-> op]]
  /\ UNCHANGED <<raftVars, nodeVars, waiterVars>>

\* What goes on by itself: the raft log, and every thread that can run.
Progress ==
  \/ Commit
  \/ \E n \in Nodes : Apply(n)
  \/ \E c \in Callers : Propose(c)
  \/ WaiterStep /\ UNCHANGED <<raftVars, nodeVars, call>>

KvNext ==
  \/ Progress
  \/ (\E c \in Callers : WaitSpurious(c)) /\ UNCHANGED <<raftVars, nodeVars, call>>
  \/ \E n \in Nodes : Open(n) \/ Close(n) \/ Stop(n) \/ Elect(n) \/ StepDown(n)
  \/ \E c \in kvbound.callers, n \in Nodes, key \in KvKeys, op \in kvbound.ops : Call(c, n, key, op)

-----------------------------------------------------------------------------
(* Properties *)


\* The last value that the first n entries put under each key.
LastPut(n) ==
  [k \in KvKeys |->
     LET puts == {i \in 1 .. n : call[log[i]].op = "PUT" /\ call[log[i]].key = k}
     IN  IF puts = {} THEN None ELSE log[CHOOSE i \in puts : \A j \in puts : j <= i]]

\* A node that was opened again holds, when it has come to where it was, the last
\* values of the log: applying it a second time, over a database with later
\* values, ends in the same state.  So nodes that have applied the
\* same entries agree, through crashes and changes of the leader.
ReplayConverges ==
  \A n \in Nodes : applied[n] >= high[n] => db[n] = LastPut(applied[n])

\* A call returns, whether its proposal is applied, refused or failed by a
\* leader that steps down; except a Wait without a timeout to which the
\* notification came after it had looked at completed_ and before it slept.
CallsReturn ==
  \A c \in Callers :
    call[c].pc \in {"checked", "wait"}
      ~> (wait[c].pc = "done" \/ call[c].pc = "dead" \/ (missed[c] /\ c \notin Timed))
=============================================================================
