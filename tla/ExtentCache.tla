---------------------------- MODULE ExtentCache ----------------------------
(***************************************************************************)
(* The extent cache of a client, src/src/client/extent_client_cache.cc.    *)
(*                                                                         *)
(* Who holds the lock of an extent works on a copy of it; flush writes the *)
(* copy back when the lock is given up (lock_release_user_impl).  Locks    *)
(* are those of LockService.  An RPC may fail, before or after the server  *)
(* has done it.                                                            *)
(*                                                                         *)
(* All extents are on one server (see Master), so that moving the          *)
(* connection (initExtentClient, retry, ConnectTo) does not change it; the *)
(* address cache of class Client is left out.                              *)
(***************************************************************************)
EXTENDS ExtentServer, LockService

CONSTANTS
  NotCached, \* what cache_map_ has for an id it does not know
  MaxFail    \* bound: RPCs that fail

VARIABLES
  cache,   \* cache[c][i]: cache_map_ of client c
  fl,      \* fl[c][i]: where flush(i) is, "idle" when it does not run
  fails    \* RPCs that failed so far

cacheVars == <<store, lock, cache, fl, fails>>

CacheInit ==
  /\ StoreInit /\ LockInit
  /\ cache = [c \in Clients |-> [i \in Inums |-> NotCached]]
  /\ fl = [c \in Clients |-> [i \in Inums |-> "idle"]]
  /\ fails = 0

Cached(c, i) == cache[c][i] # NotCached

\* A cached extent, as get and getattr fetch it, as put leaves it and as
\* remove leaves it.
Fetched(v) == [content |-> v, deleted |-> FALSE, dirty |-> FALSE]
Dirty(v) == [content |-> v, deleted |-> FALSE, dirty |-> TRUE]
Deleted(e) ==
  [content |-> IF e = NotCached THEN <<>> ELSE e.content, deleted |-> TRUE, dirty |-> TRUE]

\* How an RPC ends: the server answers, or the caller sees a failure and the
\* server has or has not done what it was asked.
Outcomes == {"ok", "lost", "unsent"}
Outcome(o) ==
  /\ o # "ok" => fails < MaxFail
  /\ fails' = IF o = "ok" THEN fails ELSE fails + 1

-----------------------------------------------------------------------------
(* flush *)

SetFlush(c, i, pc) == fl' = [fl EXCEPT ![c][i] = pc]

\* flush decides what to write back.
FlushStart(c, i) ==
  /\ fl[c][i] = "start"
  /\ \/ /\ Cached(c, i) => ~cache[c][i].dirty
        /\ SetFlush(c, i, "erase")
     \/ /\ Cached(c, i) /\ cache[c][i].dirty
        /\ SetFlush(c, i, IF cache[c][i].deleted THEN "remove" ELSE "put")
  /\ UNCHANGED <<store, lock, cache, fails>>

\* The calls of flush, the second attempt at each, and what follows it.
Again == [put |-> "put2", setattr |-> "setattr2", remove |-> "remove2"]
Then(pc) == IF pc \in {"put", "put2"} THEN "setattr" ELSE "erase"

\* What the server does for a call.
Flushed(pc, i, v) ==
  CASE pc \in {"put", "put2"} -> StorePut(i, v)
    [] pc \in {"setattr", "setattr2"} -> StoreSetAttr(i, Len(v))
    [] OTHER -> StoreRemove(i)

\* Faulty flush: does not repeat a call that failed.
FlushCallOnce(c, i) ==
  /\ fl[c][i] \in {"put", "setattr", "remove"}
  /\ \E o \in Outcomes :
       /\ Outcome(o)
       /\ store' = IF o = "unsent" THEN store
                   ELSE Flushed(fl[c][i], i, cache[c][i].content)
       /\ SetFlush(c, i, IF o = "ok" THEN Then(fl[c][i]) ELSE "keep")
  /\ UNCHANGED <<lock, cache>>

\* callPut, callSetAttr and callRemove: one RPC of flush.  What failed once
\* is sent again (retry); what failed twice ends flush.
FlushCall(c, i) ==
  /\ fl[c][i] \in DOMAIN Again \cup {"put2", "setattr2", "remove2"}
  /\ \E o \in Outcomes :
       /\ Outcome(o)
       /\ store' = IF o = "unsent" THEN store
                   ELSE Flushed(fl[c][i], i, cache[c][i].content)
       /\ \/ /\ o = "ok"
             /\ SetFlush(c, i, Then(fl[c][i]))
          \/ /\ o # "ok" /\ fl[c][i] \in DOMAIN Again
             /\ SetFlush(c, i, Again[fl[c][i]])
          \/ /\ o # "ok" /\ fl[c][i] \notin DOMAIN Again
             /\ SetFlush(c, i, "keep")
  /\ UNCHANGED <<lock, cache>>

\* Faulty flush: keeps the copy it has written back.
FlushEndKeeps(c, i) ==
  /\ fl[c][i] \in {"erase", "keep"}
  /\ SetFlush(c, i, "idle")
  /\ GiveUp(c, i)
  /\ UNCHANGED <<store, cache, fails>>

\* flush ends, with the copy erased unless an RPC failed, and the lock client,
\* which does not look at what flush returns, gives up the lock.
FlushEnd(c, i) ==
  /\ fl[c][i] \in {"erase", "keep"}
  /\ cache' = IF fl[c][i] = "keep" THEN cache ELSE [cache EXCEPT ![c][i] = NotCached]
  /\ SetFlush(c, i, "idle")
  /\ GiveUp(c, i)
  /\ UNCHANGED <<store, fails>>

\* revoke_handler takes back a lock that the client does not use.
Revoke(c, i) ==
  /\ Recall(c, i)
  /\ SetFlush(c, i, "start")
  /\ UNCHANGED <<store, cache, fails>>

Flush(c, i) == FlushStart(c, i) \/ FlushCall(c, i) \/ FlushEnd(c, i)
=============================================================================
