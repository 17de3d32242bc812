-------------------------- MODULE LockServerCache --------------------------
(***************************************************************************)
(* The caching lock server, src/src/master/lock_server_cache.cc.           *)
(*                                                                         *)
(* Per lock the server keeps its holder and the clients that wait for it   *)
(* (pendingers).  acquire and release change them under lock_m_ and then,  *)
(* without the mutex, call the holder back (revoke) or the next client     *)
(* (retry).  This module is the part under the mutex; LockProtocol adds    *)
(* the calls and the clients.                                              *)
(***************************************************************************)
EXTENDS Naturals, Sequences

CONSTANTS
  Clients,   \* ids of the lock clients, "127.0.0.1:port"
  Locks,     \* lockid_t
  None,      \* the empty holder: holded is false
  MaxQueue   \* bound: clients waiting for one lock

ASSUME LockServerAssumption ==
  /\ None \notin Clients
  /\ MaxQueue \in Nat

VARIABLES
  holder,      \* lsm_[l].holder, None when lsm_[l].holded is false
  pendingers   \* lsm_[l].pendingers

serverVars == <<holder, pendingers>>

\* A lock the map does not know is created free, with nobody waiting.
ServerInit ==
  /\ holder = [l \in Locks |-> None]
  /\ pendingers = [l \in Locks |-> <<>>]

HeldByOther(c, l) == holder[l] # None /\ holder[l] # c


\* What acquire returns in r.
AcquireReply(c, l) ==
  CASE HeldByOther(c, l) -> "RETRY"
    [] holder[l] = c /\ pendingers[l] # <<>> -> "RETIRE"
    [] OTHER -> "OK"


\* acquire calls the holder back only for the first client in the queue.
NeedRevoke(c, l) == HeldByOther(c, l) /\ pendingers[l] = <<>>

\* acquire, up to the unlock.
ServerAcquire(c, l) ==
  \/ /\ HeldByOther(c, l)
     /\ Len(pendingers[l]) < MaxQueue
     /\ pendingers' = [pendingers EXCEPT ![l] = Append(@, c)]
     /\ UNCHANGED holder
  \/ /\ holder[l] = None /\ pendingers[l] = <<>>
     /\ holder' = [holder EXCEPT ![l] = c]
     /\ UNCHANGED pendingers
  \/ /\ holder[l] = c \/ (holder[l] = None /\ pendingers[l] # <<>>)
     /\ UNCHANGED serverVars

\* release hands the lock to the front of the queue and calls it (retry).
HandsOver(c, l) == holder[l] = c /\ pendingers[l] # <<>>

\* Faulty release: frees the lock in front of a queue.
ServerReleaseForgets(c, l) ==
  \/ /\ holder[l] = c
     /\ holder' = [holder EXCEPT ![l] = None]
     /\ UNCHANGED pendingers
  \/ holder[l] # c /\ UNCHANGED serverVars

\* release, up to the unlock.
ServerRelease(c, l) ==
  \/ /\ HandsOver(c, l)
     /\ holder' = [holder EXCEPT ![l] = Head(pendingers[l])]
     /\ pendingers' = [pendingers EXCEPT ![l] = Tail(@)]
  \/ /\ holder[l] = c /\ pendingers[l] = <<>>
     /\ holder' = [holder EXCEPT ![l] = None]
     /\ UNCHANGED pendingers
  \/ holder[l] # c /\ UNCHANGED serverVars

\* The server with clients that may call anything at any time.
ServerNext ==
  \E c \in Clients, l \in Locks : ServerAcquire(c, l) \/ ServerRelease(c, l)

ServerSpec == ServerInit /\ [][ServerNext]_serverVars

-----------------------------------------------------------------------------

\* Locks are held by clients and waited for by clients.
ServerTypeOK ==
  /\ holder \in [Locks -> Clients \cup {None}]
  /\ pendingers \in [Locks -> Seq(Clients)]

\* Nobody waits for a free lock: the branch of acquire that logs "Why there
\* is not holding while having penderings", and grants nothing although it
\* answers OK, cannot be reached.
FreeHasNoWaiters ==
  \A l \in Locks : holder[l] = None => pendingers[l] = <<>>
=============================================================================
