------------------------------- MODULE KvStore -------------------------------
(***************************************************************************)
(* The key-value store: calls that are replicated (RaftKV), and versions   *)
(* on top of a store (Mvcc).  A behaviour exercises one of them; Mvcc asks *)
(* of its store only Put and Query, of which it has the model itself.      *)
(***************************************************************************)
EXTENDS RaftKV, Mvcc

VARIABLE side

vars == <<side, kvVars, mvccVars>>

Init ==
  /\ side \in {"raft", "mvcc"}
  /\ KvInit /\ MvccInit
  /\ side = "mvcc" => kvbound = CHOOSE b \in KvBounds : TRUE  \* unused

RaftStep == side = "raft" /\ KvNext /\ UNCHANGED <<side, mvccVars>>
MvccStep == side = "mvcc" /\ MvccNext /\ UNCHANGED <<side, kvVars>>

Next == RaftStep \/ MvccStep

\* The raft log moves on while there is a leader, entries are applied, and a
\* thread that can run does.  Nothing is assumed of leaders, crashes or calls.
Spec == Init /\ [][Next]_vars /\ WF_vars(side = "raft" /\ Progress /\ UNCHANGED <<side, mvccVars>>)
=============================================================================
