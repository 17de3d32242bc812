------------------------------- MODULE MCLock -------------------------------
(***************************************************************************)
(* Instances of LockProtocol for TLC: one lock, two clients, and one or    *)
(* two threads in the first of them.                                       *)
(***************************************************************************)
EXTENDS LockProtocol

CONSTANTS c1, c2, l1, t1, t2, t3

\* One thread in each client, as with the single-threaded loop of fuse.cc.
OneThreadEach == t1 :> c1 @@ t2 :> c2
TwoThreadsInOne == t1 :> c1 @@ t2 :> c1 @@ t3 :> c2
=============================================================================
