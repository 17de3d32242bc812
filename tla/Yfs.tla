-------------------------------- MODULE Yfs --------------------------------
(***************************************************************************)
(* The file system of a client, src/src/client/yfs_client.cc, as the FUSE  *)
(* thread of each client runs it (fuse.cc, fuse_session_loop: one request  *)
(* at a time), over the extent cache and the lock service.                 *)
(*                                                                         *)
(* An operation works on a first extent x (the file, or the directory it   *)
(* names an entry of) and may then work on a second one y (what the entry  *)
(* names).  For each it acquires the lock, fetches the extent into the     *)
(* cache, does its work there and releases.                                *)
(*                                                                         *)
(* The acquire RPC may fail; release does not fail here.                   *)
(***************************************************************************)
EXTENDS ExtentCache, Master, SequencesExt

CONSTANTS
  Gone,      \* what truth has for an extent that was removed
  Ops,       \* bound: the FUSE requests that come in
  Bytes,     \* what a write writes
  MaxSize    \* bound: bytes of a file

VARIABLES
  op,      \* op[c]: what the FUSE thread of c is doing
  stuck,   \* <<c, i>>: acquire(i) failed in client c, which stays ACQUIRING
  truth    \* truth[i]: what the last operation on i made of it

vars == <<cacheVars, masterVars, op, stuck, truth>>

Idle == [fn |-> "idle", pc |-> "idle", x |-> 0, y |-> 0, k |-> 1, name |-> "",
         off |-> 0, old |-> <<>>, calls |-> <<>>, again |-> FALSE]

Init ==
  /\ CacheInit /\ MasterInit
  /\ op = [c \in Clients |-> Idle]
  /\ stuck = {}
  /\ truth = [i \in Inums |-> IF i = Root THEN <<>> ELSE NoExtent]

\* The extent the thread of c is at, first or second.
At(c) == IF op[c].k = 1 THEN op[c].x ELSE op[c].y

SetOp(c, o) == op' = [op EXCEPT ![c] = o]
Goto(c, pc) == [op[c] EXCEPT !.pc = pc]

DirOps == {"create", "mkdir", "lookup", "readdir", "unlink"}
FileOps == {"read", "write", "setattr"}

-----------------------------------------------------------------------------
(* Reaching an extent *)

\* The inums the kernel knows from an earlier reply.
Replied(i) ==
  /\ truth[i] # NoExtent
  /\ \A d \in Clients : op[d].fn \in {"create", "mkdir"} => op[d].y # i

\* A FUSE request comes in.  off is the offset of a write, or the size
\* setattr sets.
Begin(c) ==
  /\ op[c].fn = "idle"
  /\ \E x \in {i \in Inums : Replied(i)} :
       \E fn \in Ops \cap ({"getattr"} \cup IF IsFile(x) THEN FileOps ELSE DirOps) :
         \E name \in IF fn \in DirOps \ {"readdir"} THEN Names ELSE {""},
            off \in IF fn = "write" THEN 0 .. MaxSize - 1
                    ELSE IF fn = "setattr" THEN 0 .. MaxSize ELSE {0} :
           SetOp(c, [Idle EXCEPT !.fn = fn, !.pc = "lock", !.x = x,
                                 !.name = name, !.off = off])
  /\ UNCHANGED <<cacheVars, masterVars, stuck, truth>>

\* The RPCs that fetch an extent: get, getattr and setattr of the cache.
Calls(fn) ==
  CASE fn = "setattr" -> <<"get">>
    [] fn \in {"getattr", "lookup2"} -> <<"getattr", "get">>
    [] OTHER -> <<"get", "getattr">>

\* The operation fetches what it is at; what it creates or removes, it does
\* not look at.
Fetches(c) == op[c].k = 1 \/ op[c].fn = "lookup"
FetchCalls(c) == Calls(IF op[c].fn = "lookup" /\ op[c].k = 2 THEN "lookup2" ELSE op[c].fn)

\* A copy in the cache is used as it is; get marks it dirty.
Used(c, i) ==
  IF Cached(c, i) /\ Fetches(c) /\ FetchCalls(c)[1] = "get" /\ ~cache[c][i].deleted
    THEN [cache EXCEPT ![c][i].dirty = TRUE] ELSE cache

\* acquire returns with the lock.
Acquire(c) ==
  /\ op[c].pc = "lock"
  /\ <<c, At(c)>> \notin stuck
  /\ Take(c, At(c))
  /\ SetOp(c, IF Fetches(c) /\ ~Cached(c, At(c))
                THEN [op[c] EXCEPT !.pc = "call", !.calls = FetchCalls(c)]
                ELSE Goto(c, "work"))
  /\ cache' = Used(c, At(c))
  /\ UNCHANGED <<store, fl, fails, masterVars, stuck, truth>>

\* The acquire RPC fails.  The lock client stays ACQUIRING.  create and mkdir
\* return and keep the lock of the parent; lookup releases it.
AcquireFails(c) ==
  /\ op[c].pc = "lock"
  /\ <<c, At(c)>> \notin stuck
  /\ lock[c][At(c)] = "NONE"
  /\ fails < MaxFail
  /\ fails' = fails + 1
  /\ stuck' = stuck \cup {<<c, At(c)>>}
  /\ SetOp(c, IF op[c].k = 2 /\ op[c].fn = "lookup"
                THEN [op[c] EXCEPT !.k = 1, !.pc = "release"] ELSE Idle)
  /\ UNCHANGED <<store, lock, cache, fl, masterVars, truth>>

\* callGet and callGetAttr.  What failed once, be it that the server does not
\* have the extent, is sent again (retry).
Fetch(c) ==
  /\ op[c].pc = "call"
  /\ \E o \in {"ok", "unsent"} :
       /\ Outcome(o)
       /\ LET i == At(c)
              ok == o = "ok" /\ Has(i)
              rest == Tail(op[c].calls)
              v == IF Head(op[c].calls) = "get" THEN store[i] ELSE op[c].old
          IN \/ /\ ok /\ rest # <<>>
                /\ SetOp(c, [op[c] EXCEPT !.calls = rest, !.again = FALSE, !.old = v])
                /\ UNCHANGED cache
             \/ /\ ok /\ rest = <<>>
                /\ cache' = [cache EXCEPT ![c][i] = Fetched(v)]
                /\ SetOp(c, [op[c] EXCEPT !.calls = rest, !.again = FALSE, !.old = <<>>,
                                          !.pc = "work"])
             \/ /\ ~ok /\ ~op[c].again
                /\ SetOp(c, [op[c] EXCEPT !.again = TRUE])
                /\ UNCHANGED cache
             \/ /\ ~ok /\ op[c].again
                /\ SetOp(c, [op[c] EXCEPT !.calls = <<>>, !.again = FALSE, !.old = <<>>,
                                          !.pc = "work"])
                /\ UNCHANGED cache
  /\ UNCHANGED <<store, lock, fl, masterVars, stuck, truth>>

-----------------------------------------------------------------------------
(* The work on an extent that is locked *)

\* The content of extent i in the cache of c.
Content(c, i) == cache[c][i].content
Missing(c) == Fetches(c) /\ (Cached(c, At(c)) => cache[c][At(c)].deleted)

Working(c, fns, k) == op[c].pc = "work" /\ op[c].fn \in fns /\ op[c].k = k

\* The extent cannot be fetched: the operation releases what it has, but
\* unlink returns with the lock of the directory.
WorkFails(c) ==
  /\ op[c].pc = "work" /\ Missing(c)
  /\ SetOp(c, IF op[c].fn = "unlink" THEN Idle ELSE Goto(c, "release"))
  /\ UNCHANGED <<cacheVars, masterVars, stuck, truth>>

\* What only looks at the extent.
Looked(c) ==
  /\ ~Missing(c)
  /\ SetOp(c, Goto(c, "release"))
  /\ UNCHANGED <<cacheVars, masterVars, stuck, truth>>

\* getfileInfo and getdirInfo, for getattr and for what lookup has found.
Getattr(c) == (Working(c, {"getattr"}, 1) \/ Working(c, {"lookup"}, 2)) /\ Looked(c)
Read(c) == Working(c, {"read"}, 1) /\ Looked(c)
Readdir(c) == Working(c, {"readdir"}, 1) /\ Looked(c)


\* The content v with buf written at offset off.
WriteAt(v, off, buf) ==
  IF off >= Len(v) THEN Resize(v, off) \o buf
  ELSE SubSeq(v, 1, off) \o buf \o SubSeq(v, off + Len(buf) + 1, Len(v))

\* The cache gets a new content of the extent.
Changed(c, new) ==
  /\ cache' = [cache EXCEPT ![c][op[c].x] = Dirty(new)]
  /\ truth' = [truth EXCEPT ![op[c].x] = new]
  /\ SetOp(c, [op[c] EXCEPT !.pc = "release", !.old = Content(c, op[c].x)])
  /\ UNCHANGED <<store, lock, fl, fails, masterVars, stuck>>

Write(c) ==
  /\ Working(c, {"write"}, 1) /\ ~Missing(c)
  /\ \E b \in Bytes : Changed(c, WriteAt(Content(c, op[c].x), op[c].off, <<b>>))

SetAttr(c) ==
  /\ Working(c, {"setattr"}, 1) /\ ~Missing(c)
  /\ Changed(c, Resize(Content(c, op[c].x), op[c].off))

\* Where the loops over directory v find name, if they do: at its first entry.
Found(v, name) ==
  {j \in DOMAIN v : v[j].name = name /\ \A k \in 1 .. j - 1 : v[k].name # name}

\* Faulty create: does not look for the name in the parent.
CreateInumBlind(c, fn) ==
  /\ Working(c, {fn}, 1) /\ ~Missing(c)
  /\ GenInum(op[c].x, op[c].name, fn = "mkdir")
  /\ SetOp(c, [op[c] EXCEPT !.y = Fresh(fn = "mkdir"), !.k = 2, !.pc = "lock",
                            !.old = Content(c, op[c].x)])
  /\ UNCHANGED <<cacheVars, stuck, truth>>

\* create and mkdir look for the name in the parent, and get an inum.
CreateInum(c, fn) ==
  /\ Working(c, {fn}, 1) /\ ~Missing(c)
  /\ LET v == Content(c, op[c].x)
     IN \/ /\ Found(v, op[c].name) # {}
           /\ SetOp(c, Goto(c, "release"))
           /\ UNCHANGED masterVars
        \/ /\ Found(v, op[c].name) = {}
           /\ GenInum(op[c].x, op[c].name, fn = "mkdir")
           /\ SetOp(c, [op[c] EXCEPT !.y = Fresh(fn = "mkdir"), !.k = 2, !.pc = "lock",
                                     !.old = v])
  /\ UNCHANGED <<cacheVars, stuck, truth>>

\* create and mkdir put an empty extent, and the parent with its entry.
CreateEntry(c, fn) ==
  /\ Working(c, {fn}, 2)
  /\ LET new == Append(op[c].old, [name |-> op[c].name, inum |-> op[c].y])
     IN /\ cache' = [cache EXCEPT ![c][op[c].y] = Dirty(<<>>), ![c][op[c].x] = Dirty(new)]
        /\ truth' = [truth EXCEPT ![op[c].y] = <<>>, ![op[c].x] = new]
  /\ SetOp(c, [op[c] EXCEPT !.pc = "release", !.old = <<>>])
  /\ UNCHANGED <<store, lock, fl, fails, masterVars, stuck>>

Create(c) == CreateInum(c, "create") \/ CreateEntry(c, "create")
Mkdir(c) == CreateInum(c, "mkdir") \/ CreateEntry(c, "mkdir")

\* lookup goes on to what the entry names.
LookupEntry(c) ==
  /\ Working(c, {"lookup"}, 1) /\ ~Missing(c)
  /\ LET v == Content(c, op[c].x)
     IN \/ /\ Found(v, op[c].name) = {}
           /\ SetOp(c, Goto(c, "release"))
        \/ \E j \in Found(v, op[c].name) :
             SetOp(c, [op[c] EXCEPT !.y = v[j].inum, !.k = 2, !.pc = "lock"])
  /\ UNCHANGED <<cacheVars, masterVars, stuck, truth>>

\* Faulty unlink: returns after it has taken out the entry.
UnlinkEntryOnly(c) ==
  /\ Working(c, {"unlink"}, 1) /\ ~Missing(c)
  /\ LET x == op[c].x
         v == Content(c, x)
         f == {j \in Found(v, op[c].name) : IsFile(v[j].inum)}
         new == IF f = {} THEN v ELSE RemoveAt(v, Min(f))
     IN /\ cache' = [cache EXCEPT ![c][x] = Dirty(new)]
        /\ truth' = [truth EXCEPT ![x] = new]
  /\ SetOp(c, Goto(c, "release"))
  /\ UNCHANGED <<store, lock, fl, fails, masterVars, stuck>>

\* Faulty unlink: returns with the lock when it does not find the name.
UnlinkEntryHolds(c) ==
  /\ Working(c, {"unlink"}, 1) /\ ~Missing(c)
  /\ SetOp(c, IF Found(Content(c, op[c].x), op[c].name) = {} THEN Idle ELSE Goto(c, "release"))
  /\ UNCHANGED <<cacheVars, masterVars, stuck, truth>>

\* unlink takes the entry out of the directory, unless it names a directory.
UnlinkEntry(c) ==
  /\ Working(c, {"unlink"}, 1) /\ ~Missing(c)
  /\ LET x == op[c].x
         v == Content(c, x)
         f == {j \in Found(v, op[c].name) : IsFile(v[j].inum)}
     IN \/ /\ f = {}
           /\ SetOp(c, Goto(c, "release"))
           /\ UNCHANGED <<cache, truth>>
        \/ \E j \in f :
             /\ cache' = [cache EXCEPT ![c][x] = Dirty(RemoveAt(v, j))]
             /\ truth' = [truth EXCEPT ![x] = RemoveAt(v, j)]
             /\ SetOp(c, [op[c] EXCEPT !.y = v[j].inum, !.pc = "release"])
  /\ UNCHANGED <<store, lock, fl, fails, masterVars, stuck>>

\* unlink removes the file.
UnlinkFile(c) ==
  /\ Working(c, {"unlink"}, 2)
  /\ cache' = [cache EXCEPT ![c][op[c].y] = Deleted(@)]
  /\ truth' = [truth EXCEPT ![op[c].y] = Gone]
  /\ SetOp(c, Goto(c, "release"))
  /\ UNCHANGED <<store, lock, fl, fails, masterVars, stuck>>

-----------------------------------------------------------------------------
(* Releasing *)

\* Faulty create and lookup: return after the release of the second extent.
ContinueForgets(c) ==
  SetOp(c, IF op[c].k = 1 /\ op[c].fn = "unlink" /\ op[c].y # 0
             THEN [op[c] EXCEPT !.k = 2, !.pc = "lock"] ELSE Idle)

\* Where the operation goes on after a release: unlink to the file, the
\* others to the release of the parent.
Continue(c) ==
  SetOp(c, CASE op[c].k = 1 /\ op[c].fn = "unlink" /\ op[c].y # 0 ->
                  [op[c] EXCEPT !.k = 2, !.pc = "lock"]
             [] op[c].k = 2 /\ op[c].fn # "unlink" ->
                  [op[c] EXCEPT !.k = 1, !.pc = "release"]
             [] OTHER -> Idle)

\* Another client asks for the lock, or has asked and given up: the server
\* sends a revoke.
Wanted(c, i) ==
  \E d \in Clients \ {c} : (op[d].pc = "lock" /\ At(d) = i) \/ <<d, i>> \in stuck

\* release keeps the lock in the client.
Release(c) ==
  /\ op[c].pc = "release"
  /\ Untake(c, At(c), "FREE")
  /\ Continue(c)
  /\ UNCHANGED <<store, cache, fl, fails, masterVars, stuck, truth>>

\* release of a lock that was revoked meanwhile flushes the extent first.
ReleaseRevoked(c) ==
  /\ op[c].pc = "release" /\ Wanted(c, At(c))
  /\ Untake(c, At(c), "RELEASING")
  /\ SetFlush(c, At(c), "start")
  /\ SetOp(c, Goto(c, "flush"))
  /\ UNCHANGED <<store, cache, fails, masterVars, stuck, truth>>

Released(c) ==
  /\ op[c].pc = "flush" /\ fl[c][At(c)] = "idle"
  /\ Continue(c)
  /\ UNCHANGED <<cacheVars, masterVars, stuck, truth>>

Operate(c) ==
  \/ Begin(c) \/ Acquire(c) \/ AcquireFails(c) \/ Fetch(c)
  \/ WorkFails(c) \/ Getattr(c) \/ Read(c) \/ Readdir(c)
  \/ Write(c) \/ SetAttr(c) \/ Create(c) \/ Mkdir(c) \/ LookupEntry(c)
  \/ UnlinkEntry(c) \/ UnlinkFile(c)
  \/ Release(c) \/ ReleaseRevoked(c) \/ Released(c)

\* Everything ends when the master aborts.
Next ==
  /\ ~aborted
  /\ \E c \in Clients :
       \/ Operate(c)
       \/ \E i \in Inums :
            /\ Flush(c, i) \/ (Wanted(c, i) /\ Revoke(c, i))
            /\ UNCHANGED <<masterVars, op, stuck, truth>>

Spec == Init /\ [][Next]_vars
-----------------------------------------------------------------------------

\* The content of extent i, if it has one, after the last operation on it.
Exists(i) == truth[i] \notin {NoExtent, Gone}

\* An operation sees what the last operation on the extent left, by whichever
\* client: the get and getattr that follow an acquire return it, from the
\* cache or from the extent server, and also when one RPC failed on the way.
ReadsLatest ==
  fails <= 1 =>
    \A c \in Clients : op[c].pc = "work" /\ Fetches(c) =>
      IF Missing(c) THEN ~Exists(At(c)) ELSE Content(c, At(c)) = truth[At(c)]

\* Nothing is lost when a lock is given up: while no client has the lock of
\* an extent, its server has what the last operation on it left, and nothing
\* when that was unlink ("Free the file's extent"), although flush ignores
\* what it is told and one RPC may have failed.
WrittenBack ==
  fails <= 1 =>
    \A i \in Inums : (\A c \in Clients : lock[c][i] = "NONE") =>
      store[i] = IF Exists(i) THEN truth[i] ELSE NoExtent

\* A directory has a name once, and its entries name extents that exist,
\* whatever create, mkdir and unlink of several clients do to it.
DirectoriesAreSound ==
  fails <= 1 =>
    \A d \in Inums : Exists(d) /\ ~IsFile(d) =>
      /\ \A j, k \in DOMAIN truth[d] : truth[d][j].name = truth[d][k].name => j = k
      /\ \A j \in DOMAIN truth[d] : Exists(truth[d][j].inum)

\* No file is left behind: without failures an extent other than the root is
\* named by some directory, or unlink is about to remove it.
NoOrphan ==
  fails = 0 =>
    \A i \in Inums \ {Root} : Exists(i) =>
      \/ \E d \in Inums : Exists(d) /\ ~IsFile(d) /\ \E j \in DOMAIN truth[d] : truth[d][j].inum = i
      \/ \E c \in Clients : op[c].fn = "unlink" /\ op[c].y = i

\* An operation that is over has released every lock it took, unless an RPC
\* failed.
LocksReturned ==
  fails = 0 =>
    \A c \in Clients, i \in Inums : op[c].fn = "idle" => lock[c][i] # "LOCKED"

\* Operations that hold a directory while they wait for what an entry of it
\* names do not wait for each other in a circle.
Blocked(c) == op[c].pc = "lock" /\ \E d \in Clients : lock[d][At(c)] = "LOCKED"
NoLockCycle == fails = 0 => \E c \in Clients : ~Blocked(c)


\* The assertion of genInum: the prefix tree finds the place for every file
\* that a client creates.
TreeTakesEveryFile == ~aborted
=============================================================================
