-------------------------------- MODULE Parts --------------------------------
(***************************************************************************)
(* Parts of the repository that the file system is not connected to, or    *)
(* only loosely, side by side; a behaviour exercises one of them and the   *)
(* others stay as they are.                                                *)
(*                                                                         *)
(* The storage engine: the memtable with its tables, its log, and the      *)
(* write-ahead log.  CtgStore, which would put them together, is declared  *)
(* in src/src/include/storage/ctg_store.h and not written yet.             *)
(*                                                                         *)
(* How files are spread over extent servers: the tree of the master, the   *)
(* addresses that a client keeps, the moving of extents, and what extent   *)
(* servers report.  The thread of the master that adjusts the tree and     *)
(* moves files does not run (stop_ is true from the start), and the master *)
(* does nothing with the reports.                                          *)
(***************************************************************************)
EXTENDS Memtable, MemWal, Wal, PrefixTree, AddressCache, Move, Collector

VARIABLE part

storeVars == <<mtVars, walVars, dlogVars>>
spreadVars == <<treeVars, addrVars, moveVars, dirtyVars>>
vars == <<part, storeVars, spreadVars>>

Init ==
  /\ part \in {"memtable", "memwal", "wal", "tree", "address", "move", "collector"}
  /\ MtInit /\ WalInit /\ DInit
  /\ TreeInit /\ AddrInit /\ MoveInit /\ DirtyInit
  \* bounds and addresses of parts that stay as they are
  /\ part # "tree" => treeBound = CHOOSE b \in TreeBounds : TRUE
  /\ part # "address" => budget = CHOOSE b \in AddrBounds : TRUE
  /\ part # "address" => home = [i \in CInums |-> CHOOSE a \in Addrs : TRUE]

StoreNext ==
  \/ part = "memtable" /\ MtNext /\ UNCHANGED <<walVars, dlogVars>>
  \/ part = "memwal" /\ WalNext /\ UNCHANGED <<mtVars, dlogVars>>
  \/ part = "wal" /\ DLogNext /\ UNCHANGED <<mtVars, walVars>>

SpreadNext ==
  \/ part = "tree" /\ TreeNext /\ UNCHANGED <<addrVars, moveVars, dirtyVars>>
  \/ part = "address" /\ AddrNext /\ UNCHANGED <<treeVars, moveVars, dirtyVars>>
  \/ part = "move" /\ MoveNext /\ UNCHANGED <<treeVars, addrVars, dirtyVars>>
  \/ part = "collector" /\ DirtyNext /\ UNCHANGED <<treeVars, addrVars, moveVars>>

Next ==
  \/ StoreNext /\ UNCHANGED <<part, spreadVars>>
  \/ SpreadNext /\ UNCHANGED <<part, storeVars>>

Spec == Init /\ [][Next]_vars
=============================================================================
