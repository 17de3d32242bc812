------------------------------- MODULE MCRpc -------------------------------
(***************************************************************************)
(* Instances of Rpc for TLC: one client, since clients share nothing but   *)
(* the server's instance.                                                  *)
(***************************************************************************)
EXTENDS Rpc

CONSTANT c1

\* Bound: four calls on the first connection, or three with a reconnection.
FourCallsOrTwoConns == \A c \in Clients : chan[c] < 2 \/ xid_[c] <= 4
=============================================================================
