---------------------------- MODULE LockService ----------------------------
(***************************************************************************)
(* What the caching lock service promises to a client with one thread: at  *)
(* any time at most one client has anything to do with a lock, and a       *)
(* client that has it may keep it when it does not use it, until the       *)
(* server wants it back.  Then the client flushes what the lock protects   *)
(* (RELEASING, lu->dorelease) and gives it up.                             *)
(*                                                                         *)
(* LockProtocol implements it in the schedules of the run lock_calm;       *)
(* ExtentCache and Yfs are written on top of it.                           *)
(***************************************************************************)
CONSTANTS
  Clients,   \* lock clients
  Locks      \* lockid_t: the inums of files and directories

VARIABLE lock   \* lock[c][l]: what client c may do with lock l

LockInit == lock = [c \in Clients |-> [l \in Locks |-> "NONE"]]

SetLock(c, l, s) == lock' = [lock EXCEPT ![c][l] = s]

\* No other client has the lock or is still flushing what it protects.
Available(c, l) == \A d \in Clients \ {c} : lock[d][l] = "NONE"

\* acquire returns with the lock: it was cached, or comes from the server.
Take(c, l) ==
  /\ lock[c][l] = "FREE" \/ (lock[c][l] = "NONE" /\ Available(c, l))
  /\ SetLock(c, l, "LOCKED")

\* retry_handler gets the lock for a thread that waits for it.
Grant(c, l) ==
  /\ lock[c][l] = "NONE" /\ Available(c, l)
  /\ SetLock(c, l, "FREE")

\* release keeps the lock, or starts to give it up.
Untake(c, l, s) ==
  /\ lock[c][l] = "LOCKED" /\ s \in {"FREE", "RELEASING"}
  /\ SetLock(c, l, s)

\* revoke_handler starts to give up a lock that is not in use.
Recall(c, l) == lock[c][l] = "FREE" /\ SetLock(c, l, "RELEASING")

\* release or revoke_handler cannot reach the server: the client does not use
\* the lock again, and nobody gets it.
Drop(c, l) == lock[c][l] \in {"FREE", "LOCKED"} /\ SetLock(c, l, "NONE")

\* The release RPC reaches the server.
GiveUp(c, l) == lock[c][l] = "RELEASING" /\ SetLock(c, l, "NONE")

LockNext ==
  \E c \in Clients, l \in Locks :
    \/ Take(c, l) \/ Grant(c, l) \/ Recall(c, l) \/ Drop(c, l) \/ GiveUp(c, l)
    \/ \E s \in {"FREE", "RELEASING"} : Untake(c, l, s)

LockSpec == LockInit /\ [][LockNext]_lock
=============================================================================
