---------------------------- MODULE AddressCache ----------------------------
(***************************************************************************)
(* How a client finds the extent server of an extent: Client of            *)
(* src/src/client/client.cc, which asks the master and keeps addresses,    *)
(* and the connection that extent_client has to one server at a time.      *)
(*                                                                         *)
(* The thread of FUSE and the thread that answers revokes write extents    *)
(* back through the same Client and the same connection, without a lock;   *)
(* every function of Client is one step here, and so is ConnectTo.  The    *)
(* map kv_addr_connect_status_ is looked up by inum and set by index.  A   *)
(* read past the end of kv_addr_list_ matches no address, or the process   *)
(* ends.                                                                   *)
(***************************************************************************)
EXTENDS Integers, Sequences, FiniteSets

CONSTANTS
  CThreads,     \* threads of the client
  CInums,       \* inums, as numbers; the index of an address is one as well
  Addrs,        \* addresses of extent servers
  AddrBounds    \* alternative bounds of a behaviour, see AddrBound

\* Bounds: operations of FUSE, calls of put, extents that get another server,
\* calls that fail.
AddrBound == [starts : Nat, sends : Nat, moved : Nat, failed : Nat]

ASSUME AddressAssumption == AddrBounds \subseteq AddrBound

NoAddr == "none"

VARIABLES
  index,        \* kv_addr_index_list_, with the inums it has
  status,       \* kv_addr_connect_status_, with the numbers it has
  list,         \* kv_addr_list_: address and count
  reused_queue, \* reused_queue_
  cl,           \* the server that extent_client is connected to
  addr_,        \* the address it was last told to connect to
  home,         \* external: what the master answers
  thread,       \* where a thread is: pc, inum, address, whether it tries again
  told,         \* history: the answer of the master when it was asked
  disturbed,    \* history: another thread linked or connected since FailCache
  sent,         \* history: the last put: its server, told and disturbed
  budget,       \* what is left of the bounds
  crashed       \* the process has ended

addrVars == <<index, status, list, reused_queue, cl, addr_, home, thread, told, disturbed, sent, budget, crashed>>
cacheVars == <<index, status, list, reused_queue>>

AddrInit ==
  /\ index = <<>> /\ status = <<>> /\ list = <<>> /\ reused_queue = <<>>
  /\ cl = NoAddr /\ addr_ = NoAddr
  /\ home \in [CInums -> Addrs]
  /\ thread = [p \in CThreads |-> [pc |-> "idle", ino |-> 0, addr |-> NoAddr, again |-> FALSE]]
  /\ told = [p \in CThreads |-> NoAddr]
  /\ disturbed = [p \in CThreads |-> FALSE]
  /\ sent = [to |-> NoAddr, told |-> NoAddr, disturbed |-> FALSE]
  /\ budget \in AddrBounds
  /\ crashed = FALSE

\* operator[] of a map, which makes the element; and an assignment to one.
At(map, k) == IF k \in DOMAIN map THEN map[k] ELSE 0
Set(map, k, v) == [x \in DOMAIN map \cup {k} |-> IF x = k THEN v ELSE map[x]]

Goes(p, pc) == thread' = [thread EXCEPT ![p].pc = pc]

-----------------------------------------------------------------------------
(* Client *)


FailCache(ino) ==
  LET id == At(index, ino)
      cnt == list[id + 1].cnt
  IN  /\ status' = Set(status, ino, 1)
      /\ index' = Set(index, ino, id)
      /\ list' = IF cnt = 0 THEN list
                 ELSE [list EXCEPT ![id + 1] = IF cnt = 1 THEN [addr |-> NoAddr, cnt |-> -1]
                                               ELSE [@ EXCEPT !.cnt = cnt - 1]]
      /\ reused_queue' = IF cnt = 1 THEN Append(reused_queue, id) ELSE reused_queue

\* getKVAddrByInumViaCache: whether it has an address.
Cached(ino) == ino \in DOMAIN status /\ status[ino] = 0 /\ list[At(index, ino) + 1].addr # NoAddr

\* linkToKVAddr and getNextId
linkToKVAddr(ino, addr) ==
  LET inums == Cardinality(DOMAIN index)   \* the bound of the loop
      same == {i \in 0 .. inums - 1 : i < Len(list) /\ list[i + 1].addr = addr /\ list[i + 1].cnt # -1}
      first == CHOOSE i \in same : \A j \in same : i <= j
      id == IF reused_queue = <<>> THEN Len(list) ELSE Head(reused_queue)
      at == IF same # {} THEN first ELSE id
  IN  /\ index' = Set(index, ino, at)
      /\ status' = Set(status, at, 0)
      /\ IF same # {} THEN list' = [list EXCEPT ![at + 1].cnt = @ + 1] /\ UNCHANGED reused_queue
         ELSE IF reused_queue = <<>> THEN list' = Append(list, [addr |-> addr, cnt |-> 1]) /\ UNCHANGED reused_queue
         ELSE /\ list' = [list EXCEPT ![at + 1] = [addr |-> addr, cnt |-> @.cnt + 1]]
              /\ reused_queue' = Tail(reused_queue)

\* The loop reads past the end of the list.
PastEnd(addr) ==
  /\ Cardinality(DOMAIN index) > Len(list)
  /\ \A i \in DOMAIN list : list[i].addr # addr \/ list[i].cnt = -1

-----------------------------------------------------------------------------
(* The threads *)

\* initExtentClient, at the start of an operation on an extent; only FUSE
\* does that, and the first operation does before anything is written back.
StartOp(p, ino) ==
  /\ thread[p].pc = "idle" /\ budget.starts > 0
  /\ budget' = [budget EXCEPT !.starts = @ - 1]
  /\ thread' = [thread EXCEPT ![p] = [pc |-> "init", ino |-> ino, addr |-> NoAddr, again |-> FALSE]]
  /\ UNCHANGED <<cacheVars, cl, addr_, home, told, disturbed, sent, crashed>>

\* retry, first part.  The list is empty until there was an operation.
Retry(p, ino, again) ==
  /\ list # <<>>
  /\ FailCache(ino)
  /\ thread' = [thread EXCEPT ![p] = [pc |-> "get", ino |-> ino, addr |-> NoAddr, again |-> again]]
  /\ disturbed' = [disturbed EXCEPT ![p] = FALSE]

\* callPut, of an extent that FUSE or a revoke writes back
CallPut(p, ino) ==
  /\ thread[p].pc = "idle" /\ budget.sends > 0
  /\ budget' = [budget EXCEPT !.sends = @ - 1]
  /\ Retry(p, ino, TRUE)
  /\ UNCHANGED <<cl, addr_, home, told, sent, crashed>>

\* GetKVAddrByInum from the cache.  What the master would answer is noted.
FromCache(p) ==
  /\ thread[p].pc \in {"init", "get"} /\ Cached(thread[p].ino)
  /\ index' = Set(index, thread[p].ino, At(index, thread[p].ino))
  /\ thread' = [thread EXCEPT ![p].addr = list[At(index, thread[p].ino) + 1].addr,
                              ![p].pc = IF @ = "init" THEN "reinit" ELSE "connect"]
  /\ told' = [told EXCEPT ![p] = home[thread[p].ino]]
  /\ UNCHANGED <<status, list, reused_queue, cl, addr_, home, disturbed, sent, budget, crashed>>

\* From the master, which has the answer before it is linked.
Ask(p) ==
  /\ thread[p].pc \in {"init", "get"} /\ ~Cached(thread[p].ino)
  /\ \/ /\ thread' = [thread EXCEPT ![p].addr = home[thread[p].ino],
                                    ![p].pc = IF @ = "init" THEN "initlink" ELSE "link"]
        /\ told' = [told EXCEPT ![p] = home[thread[p].ino]]
        /\ UNCHANGED budget
     \* the call fails: there is no address, and cl becomes a null pointer
     \/ /\ budget.failed > 0 /\ budget' = [budget EXCEPT !.failed = @ - 1]
        /\ thread' = [thread EXCEPT ![p].pc = IF @ = "init" THEN "reinit" ELSE "connect"]
        /\ UNCHANGED told
  /\ UNCHANGED <<cacheVars, cl, addr_, home, disturbed, sent, crashed>>

Link(p) ==
  /\ thread[p].pc \in {"initlink", "link"}
  /\ linkToKVAddr(thread[p].ino, thread[p].addr)
  /\ crashed' \in {FALSE, PastEnd(thread[p].addr)}
  /\ disturbed' = [q \in CThreads |-> disturbed[q] \/ q # p]
  /\ Goes(p, IF thread[p].pc = "initlink" THEN "reinit" ELSE "connect")
  /\ UNCHANGED <<cl, addr_, home, told, sent, budget>>

\* initExtentClient ends with the connection that there is, if it is told the
\* same address again.
Reuse(p) ==
  /\ thread[p].pc = "reinit" /\ addr_ = thread[p].addr
  /\ Goes(p, "idle")
  /\ UNCHANGED <<cacheVars, cl, addr_, home, told, disturbed, sent, budget, crashed>>

\* ConnectTo; if bind fails cl is a null pointer.
Connect(p) ==
  /\ thread[p].pc = "connect" \/ (thread[p].pc = "reinit" /\ addr_ # thread[p].addr)
  /\ addr_' = thread[p].addr
  /\ \/ cl' = thread[p].addr /\ UNCHANGED budget
     \/ budget.failed > 0 /\ budget' = [budget EXCEPT !.failed = @ - 1] /\ cl' = NoAddr
  /\ disturbed' = [q \in CThreads |-> disturbed[q] \/ q # p]
  /\ Goes(p, IF thread[p].pc = "reinit" THEN "idle" ELSE "send")
  /\ UNCHANGED <<cacheVars, home, told, sent, crashed>>

\* cl->call; callPut tries again once.
Send(p) ==
  /\ thread[p].pc = "send"
  /\ IF cl = NoAddr THEN crashed' = TRUE /\ UNCHANGED sent
     ELSE sent' = [to |-> cl, told |-> told[p], disturbed |-> disturbed[p]] /\ UNCHANGED crashed
  /\ \/ Goes(p, "idle") /\ UNCHANGED <<budget, cacheVars, disturbed>>
     \/ /\ budget.failed > 0 /\ budget' = [budget EXCEPT !.failed = @ - 1]
        /\ IF thread[p].again THEN Retry(p, thread[p].ino, FALSE)
           ELSE Goes(p, "idle") /\ UNCHANGED <<cacheVars, disturbed>>
  /\ UNCHANGED <<cl, addr_, home, told>>

\* External: the master has another server for an extent.
Moved(ino) ==
  /\ budget.moved > 0 /\ budget' = [budget EXCEPT !.moved = @ - 1]
  /\ \E a \in Addrs \ {home[ino]} : home' = [home EXCEPT ![ino] = a]
  /\ UNCHANGED <<cacheVars, cl, addr_, thread, told, disturbed, sent, crashed>>

AddrNext ==
  /\ ~crashed
  /\ \/ \E p \in CThreads : FromCache(p) \/ Ask(p) \/ Link(p) \/ Reuse(p) \/ Connect(p) \/ Send(p)
     \/ \E p \in CThreads, ino \in CInums : CallPut(p, ino)
     \/ \E ino \in CInums : StartOp("fuse", ino) \/ Moved(ino)

-----------------------------------------------------------------------------
(* Properties *)

=============================================================================
