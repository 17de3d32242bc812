----------------------------- MODULE MCRpcServer -----------------------------
(***************************************************************************)
(* Instances of RpcServer for TLC: one connection with requests of every   *)
(* kind that arrive unit by unit, and the end of the server; two           *)
(* connections of a client, of which one may die while a request of it is  *)
(* dispatched; three connections, the last of which gets the descriptor of *)
(* the first; and more requests than the queue of the pool has room for.   *)
(***************************************************************************)
EXTENDS RpcServer

CONSTANTS w1, w2, lis, k1

OneConn == [conns |-> 1, units |-> 3, chunk |-> 1, sockbuf |-> 1, faults |-> 1,
            kinds |-> {"bad", "old", "new", "again", "busy"}, destroy |-> TRUE]
TwoConns == [conns |-> 2, units |-> 4, chunk |-> 2, sockbuf |-> 2, faults |-> 1,
             kinds |-> {"new"}, destroy |-> FALSE]
ThreeConns == [conns |-> 3, units |-> 2, chunk |-> 2, sockbuf |-> 1, faults |-> 1,
               kinds |-> {"new"}, destroy |-> FALSE]
Backlog == [conns |-> 1, units |-> 8, chunk |-> 2, sockbuf |-> 1, faults |-> 0,
            kinds |-> {"new"}, destroy |-> FALSE]
Cases == {OneConn, TwoConns, ThreeConns, Backlog}
=============================================================================
