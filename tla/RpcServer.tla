------------------------------ MODULE RpcServer ------------------------------
(***************************************************************************)
(* The server side of the RPC library below the at-most-once logic of      *)
(* module Rpc: the listener of src/src/rpc/connection.cc, which accepts    *)
(* connections and collects dead ones, and from src/src/rpc/rpc.cc what    *)
(* got_pdu, dispatch and the destructor of rpcs do with connections and    *)
(* the dispatch pool.                                                      *)
(***************************************************************************)
EXTENDS Connection

CONSTANT Clients   \* the clients, by their clt_nonce

VARIABLES
  nonce,     \* the client a connection comes from
  listed,    \* conns_ of tcpsconn
  scan,      \* the connections that the listener's loop still has to look at
  saved,     \* conns_ of rpcs: the latest connection of a client
  leaked     \* references that nobody gives back

serverVars == <<nonce, listed, scan, saved, leaked>>
vars == <<pollVars, jobq, th, connVars, serverVars>>

Init ==
  /\ PollInit /\ ConnInit
  /\ jobq = <<>>
  /\ th = [t \in Threads |-> [pc |-> "idle", c |-> 0, old |-> FALSE]]
  /\ nonce = [c \in Conns |-> None]
  /\ listed = {} /\ scan = {}
  /\ saved = [k \in Clients |-> None]
  /\ leaked = [c \in Conns |-> 0]

-----------------------------------------------------------------------------
(* tcpsconn *)

\* process_accept: a connection with the lowest free descriptor, then a loop
\* over the others.
Accept(k) ==
  LET new == {c \in 1 .. bound.conns : conn[c].st = "new"}
      c == Min(new)
      fd == Min(Fds \ OpenFds)
  IN  /\ At(Listener, "idle")
      /\ new # {} /\ Fds \ OpenFds # {}
      /\ conn' = [conn EXCEPT ![c] = [NoConn EXCEPT !.st = "open", !.fd = fd, !.refno = 1]]
      /\ add_callback(fd, RDONLY, c)
      /\ nonce' = [nonce EXCEPT ![c] = k]
      /\ scan' = listed
      /\ th' = [th EXCEPT ![Listener].pc = "gc", ![Listener].c = c]
      /\ UNCHANGED <<poll, jobq, netVars, errno, failed, listed, saved, leaked>>

Scanned == CHOOSE c \in scan : \A d \in scan : Fd(c) <= Fd(d)

\* isdead() and ref() are two critical sections.
GcDead ==
  /\ At(Listener, "gc")
  /\ IF scan = {}
       THEN /\ th' = [th EXCEPT ![Listener].pc = "idle", ![Listener].c = 0]
            /\ listed' = listed \cup {th[Listener].c}
            /\ UNCHANGED scan
     ELSE IF IsDead(Scanned) THEN th' = Go(Listener, "gcref") /\ UNCHANGED <<listed, scan>>
     ELSE scan' = scan \ {Scanned} /\ UNCHANGED <<th, listed>>
  /\ UNCHANGED <<pollVars, jobq, connVars, nonce, saved, leaked>>


GcRef ==
  /\ At(Listener, "gcref")
  /\ IF conn[Scanned].refno = 1
       THEN conn' = DecRef(conn, Scanned) /\ listed' = listed \ {Scanned}
       ELSE UNCHANGED <<conn, listed>>
  /\ scan' = scan \ {Scanned}
  /\ th' = Go(Listener, "gc")
  /\ UNCHANGED <<pollVars, jobq, netVars, errno, failed, nonce, saved, leaked>>

-----------------------------------------------------------------------------
(* ~rpcs: the listener is deleted, then the pool *)

Destroy ==
  /\ At(Listener, "idle") /\ bound.destroy
  /\ scan' = listed
  /\ th' = Go(Listener, "shutdown")
  /\ UNCHANGED <<pollVars, jobq, connVars, nonce, listed, saved, leaked>>

DestroyNext ==
  /\ At(Listener, "shutdown")
  /\ th' = IF scan = {} THEN [th EXCEPT ![Listener].pc = "pills", ![Listener].c = 0]
           ELSE [th EXCEPT ![Listener].pc = "close", ![Listener].c = Scanned]
  /\ UNCHANGED <<pollVars, jobq, connVars, serverVars>>

DestroyClosed ==
  /\ At(Listener, "closed")
  /\ conn' = DecRef(conn, th[Listener].c)
  /\ scan' = scan \ {th[Listener].c}
  /\ listed' = listed \ {th[Listener].c}
  /\ th' = Go(Listener, "shutdown")
  /\ UNCHANGED <<pollVars, jobq, netVars, errno, failed, nonce, saved, leaked>>

\* ~ThrPool: a pill for every thread, then a join with every thread.
DestroyPool ==
  /\ UNCHANGED <<pollVars, connVars, serverVars>>
  /\ At(Listener, "pills")
  /\ IF th[Listener].c < Cardinality(Workers)
       THEN HasRoom /\ enq(Pill, [th EXCEPT ![Listener].c = @ + 1])
       ELSE /\ \A w \in Workers : At(w, "exited")
            /\ th' = Go(Listener, "gone")
            /\ UNCHANGED jobq

-----------------------------------------------------------------------------
(* dispatch, by a worker *)

Take(w) == TakeJob(w) /\ UNCHANGED <<pollVars, connVars, serverVars>>

\* "save the latest good connection to the client"
SaveConn(c) ==
  LET k == nonce[c]
  IN  IF saved[k] = None
        THEN conn' = IncRef(conn, c) /\ saved' = [saved EXCEPT ![k] = c]
      ELSE IF saved[k] < c
        THEN conn' = IncRef(DecRef(conn, saved[k]), c) /\ saved' = [saved EXCEPT ![k] = c]
      ELSE UNCHANGED <<conn, saved>>

\* dispatch up to the handler.  It finds a header it cannot read (bad), a
\* request for an old instance of the server (old), a new request, one that it
\* answers from the window (again), or one that another thread works on (busy).
Dispatch(w, kind) ==
  /\ At(w, "job")
  /\ IF kind \in {"bad", "old"} THEN UNCHANGED <<conn, saved>> ELSE SaveConn(th[w].c)
  /\ th' = [th EXCEPT ![w].old = (kind = "old"),
                      ![w].pc = CASE kind = "new" -> "run"
                                  [] kind \in {"old", "again"} -> "send"
                                  [] kind \in {"bad", "busy"} -> "sent"]
  /\ UNCHANGED <<pollVars, jobq, netVars, errno, failed, nonce, listed, scan, leaked>>

\* Faulty choice of the connection: takes no reference to the latest one.
RanBorrows(w) ==
  LET c == th[w].c
      d == saved[nonce[c]]
  IN  /\ At(w, "run")
      /\ th' = [th EXCEPT ![w].pc = "send", ![w].c = IF IsDead(c) THEN d ELSE c]
      /\ conn' = IF IsDead(c) /\ c # d THEN DecRef(conn, c) ELSE conn
      /\ UNCHANGED <<pollVars, jobq, netVars, errno, failed, serverVars>>

\* The handler has run: "get the latest connection to the client".
Ran(w) ==
  LET c == th[w].c
      d == saved[nonce[c]]
  IN  /\ At(w, "run")
      /\ IF IsDead(c) /\ c # d
           THEN conn' = IncRef(DecRef(conn, c), d) /\ th' = [th EXCEPT ![w].pc = "send", ![w].c = d]
           ELSE th' = Go(w, "send") /\ UNCHANGED conn
      /\ UNCHANGED <<pollVars, jobq, netVars, errno, failed, serverVars>>

\* The end of dispatch.  The answer to a request for an old instance returns
\* without the decref.
JobEnd(w) ==
  /\ At(w, "sent")
  /\ IF th[w].old THEN leaked' = [leaked EXCEPT ![th[w].c] = @ + 1] /\ UNCHANGED conn
     ELSE conn' = DecRef(conn, th[w].c) /\ UNCHANGED leaked
  /\ th' = [th EXCEPT ![w] = [pc |-> "idle", c |-> 0, old |-> FALSE]]
  /\ UNCHANGED <<pollVars, jobq, netVars, errno, failed, nonce, listed, scan, saved>>

-----------------------------------------------------------------------------

PollCallback ==
  /\ poll.pc = "call"
  /\ poll' = AfterCallback
  /\ IF callbacks[NextFd] = None THEN UNCHANGED <<mgrVars, jobq, th, connVars>>
     ELSE IF poll.rd # {} THEN read_cb(callbacks[NextFd])
     ELSE write_cb(callbacks[NextFd])
  /\ UNCHANGED serverVars

PollStep ==
  \/ PollCallback
  \/ /\ PollTop \/ PollCopy \/ PollSelect(Readable, Writable)
     /\ UNCHANGED <<jobq, th, connVars, serverVars>>

SendStep(t) ==
  /\ SendWrite(t) \/ SendWoken(t) \/ RemoveFd(t) \/ RemovedFd(t)
  /\ UNCHANGED serverVars

WorkerStep(w) == Take(w) \/ (\E kind \in bound.kinds : Dispatch(w, kind)) \/ Ran(w) \/ JobEnd(w) \/ SendStep(w)

ListenerStep ==
  \/ GcDead \/ GcRef \/ DestroyNext \/ DestroyClosed \/ DestroyPool
  \/ Close(Listener) /\ UNCHANGED serverVars
  \/ SendStep(Listener)

PeerStep(c) ==
  /\ PeerSends(c) \/ PeerReads(c) \/ PeerCloses(c) \/ Breaks(c)
  /\ UNCHANGED <<pollVars, jobq, th, conn, errno, failed, serverVars>>

Next ==
  /\ failed = ""
  /\ \/ PollStep \/ ListenerStep \/ Destroy
     \/ \E k \in Clients : Accept(k)
     \/ \E w \in Workers : WorkerStep(w)
     \/ \E c \in Conns : PeerStep(c)

\* The poll thread runs, some thread that can run does, and some peer reads
\* what it is sent.  (A peer sends a bounded number of requests, so that no
\* thread runs for ever at the expense of another.)
Fairness ==
  /\ WF_vars(failed = "" /\ PollStep)
  /\ WF_vars(failed = "" /\ (ListenerStep \/ \E w \in Workers : WorkerStep(w)))
  /\ WF_vars(failed = "" /\ (\E c \in Conns : PeerReads(c))
               /\ UNCHANGED <<pollVars, jobq, th, conn, errno, failed, serverVars>>)

Spec == Init /\ [][Next]_vars /\ Fairness

-----------------------------------------------------------------------------
(* Properties *)

\* The references to a connection: the listener's, those of queued and
\* running jobs, the one rpcs keeps per client, and the lost ones.
References(c) ==
  LET listener == IF c \in listed \/ (th[Listener].pc \in {"gc", "gcref"} /\ th[Listener].c = c)
                    THEN 1 ELSE 0
  IN  listener + Cardinality({i \in DOMAIN jobq : jobq[i] = c}) + Cardinality({w \in Workers : th[w].c = c})
        + Cardinality({k \in Clients : saved[k] = c}) + leaked[c]

\* incref and decref keep the count of the references that there are, over
\* got_pdu, dispatch, the collection of dead connections and the destructor
\* of tcpsconn; so a connection is deleted by its last user and by nobody
\* else.  (Only the answers to requests for an old instance lose one.)
RefsCounted ==
  \A c \in Conns : /\ conn[c].refno = References(c)
                   /\ conn[c].st = "open" <=> conn[c].refno > 0

\* The poll thread never uses what is gone: callbacks_ holds connections that
\* exist, under their own descriptors, and select() has only descriptors that
\* are open, although connections are deleted by other threads, descriptors
\* are used again at once and callbacks_ is read without a lock.  This is the
\* VERIFY of add_callback, too.
NoDanglingCallback ==
  /\ \A fd \in Fds : callbacks[fd] # None => Exists(callbacks[fd]) /\ Fd(callbacks[fd]) = fd
  /\ poll.pc = "select" => poll.rd \cup poll.wr \subseteq OpenFds
  /\ rfds \cup wfds \subseteq OpenFds \cap 0 .. highfds


\* fifo: while a thread of the pool sleeps in deq, there is for every job in
\* the queue a thread that is about to take one; so no job waits behind a
\* handler that runs for long, although enq signals one thread at a time and
\* threads that were not asleep may take the job first.
JobsFindWorkers ==
  (\E w \in Workers : At(w, "deqwait"))
    => Len(jobq) <= Cardinality({w \in Workers : At(w, "idle")})

Resting(w) == th[w].pc \in {"idle", "deqwait", "exited"}

\* Jobs end: send returns whether its message is written at once, by
\* write_cb or not at all, and block_remove_fd is answered, so that the pool
\* comes to rest when no more requests arrive.  The exception is a send that
\* closeconn overtakes, which nobody wakes.
JobsEnd ==
  (\E w \in Workers : ~Resting(w))
    ~> (failed # "" \/ \A w \in Workers : Resting(w) \/ conn[th[w].c].dead = "closed")

\* A request that got_pdu refused because the queue was full is dispatched
\* when more of the stream arrives: read_cb offers it again and again, and
\* reads nothing past it.
Refused(c) == conn[c].rgot = PduLen /\ sock[c].in > 0 /\ ~IsDead(c)
RefusedIsRetried ==
  (\E c \in Conns : Refused(c))
    ~> (failed # "" \/ ~At(Listener, "idle") \/ \A c \in Conns : ~Refused(c))
=============================================================================
