----------------------------- MODULE Connection -----------------------------
(***************************************************************************)
(* The connections of an RPC process, src/src/rpc/connection.cc, with the  *)
(* threads that send on them and the poll manager that reads from them and *)
(* finishes what could not be written at once.                             *)
(*                                                                         *)
(* Connections are numbered in the order of their creation (compare()).    *)
(* Every critical section of a connection's m_ is a step.  A message (PDU) *)
(* is PduLen units long, the first of them the word with its size; read()  *)
(* and write() move as many units as there are, and a peer may close in    *)
(* the middle of a message.                                                *)
(***************************************************************************)
EXTENDS PollMgr, ThrPool

CONSTANTS
  PduLen,    \* units of a message
  Bounds     \* alternative bounds of a behaviour, see Bound

\* Bounds: the connections made; the units that peers send, and how many at a
\* time; the units that a socket takes before the peer reads them; the
\* connections that peers close or that break; the kinds of requests; whether
\* the server is destroyed.
Bound == [conns : Nat, units : Nat, chunk : Nat, sockbuf : Nat \ {0}, faults : Nat,
          kinds : SUBSET {"bad", "old", "new", "again", "busy"}, destroy : BOOLEAN]

ASSUME ConnectionAssumption ==
  /\ PduLen \in Nat \ {0, 1}
  /\ Bounds \subseteq Bound

VARIABLES
  bound,     \* the bounds of this behaviour
  conn,      \* the connection objects
  sock,      \* external: their sockets, what is on the way in them
  sent, faults, \* external: units sent by peers, connections closed or broken
  errno,     \* errno of the poll thread: EAGAIN or another
  failed     \* the VERIFY that ended the process, or ""

netVars == <<bound, sock, sent, faults>>
connVars == <<conn, netVars, errno, failed>>

Conns == 1 .. Max({b.conns : b \in Bounds})

\* dead: dead_, and whether it was I/O or closeconn that set it.  rgot: units
\* of rpdu_ read so far.  wby: the thread whose message wpdu_ is; wleft: units
\* of it not written yet.
NoConn == [st |-> "new", fd |-> None, dead |-> "no", refno |-> 0, rgot |-> 0,
           wby |-> None, wleft |-> 0]
NoSock == [in |-> 0, out |-> 0, peer |-> "open"]

ConnInit ==
  /\ bound \in Bounds
  /\ conn = [c \in Conns |-> NoConn]
  /\ sock = [c \in Conns |-> NoSock]
  /\ sent = 0 /\ faults = 0
  /\ errno = "other" /\ failed = ""

Exists(c) == conn[c].st = "open"
IsDead(c) == conn[c].dead # "no"
Fd(c) == conn[c].fd
OpenFds == {Fd(c) : c \in {d \in Conns : Exists(d)}}

-----------------------------------------------------------------------------
(* External: the socket and the peer *)

Readable == {Fd(c) : c \in {d \in Conns : Exists(d) /\ (sock[d].in > 0 \/ sock[d].peer # "open")}}
Writable == {Fd(c) : c \in {d \in Conns : Exists(d) /\ (sock[d].out < bound.sockbuf \/ sock[d].peer # "open")}}

PeerSends(c) ==
  /\ Exists(c) /\ sock[c].peer = "open" /\ sent < bound.units
  /\ sock' = [sock EXCEPT ![c].in = @ + bound.chunk]
  /\ sent' = sent + bound.chunk
  /\ UNCHANGED <<bound, faults>>
PeerReads(c) ==
  /\ Exists(c) /\ sock[c].out > 0
  /\ sock' = [sock EXCEPT ![c].out = @ - 1]
  /\ UNCHANGED <<bound, sent, faults>>

\* The peer closes its end, or the connection breaks (also what send() does
\* to its own connection when RPC_LOSSY is set).
PeerCloses(c) ==
  /\ Exists(c) /\ sock[c].peer = "open" /\ faults < bound.faults
  /\ faults' = faults + 1 /\ UNCHANGED <<bound, sent>>
  /\ sock' = [sock EXCEPT ![c].peer = "closed"]
Breaks(c) ==
  /\ Exists(c) /\ sock[c].peer # "reset" /\ faults < bound.faults
  /\ faults' = faults + 1 /\ UNCHANGED <<bound, sent>>
  /\ sock' = [sock EXCEPT ![c].peer = "reset", ![c].in = 0]

-----------------------------------------------------------------------------
(* Reading and writing *)

\* The second read() of readpdu, for the rest of a message of which got units
\* are there, from a socket s.  At the end of the stream read() leaves errno
\* as it is, and readpdu takes an old EAGAIN for the answer.
ReadBody(got, s) ==
  LET n == Min({s.in, PduLen - got})
      e == CASE s.peer = "open" -> "EAGAIN" [] s.peer = "reset" -> "other" [] OTHER -> errno
  IN  IF n > 0 THEN [ok |-> TRUE, rgot |-> got + n, in |-> s.in - n, errno |-> errno]
      ELSE [ok |-> e = "EAGAIN", rgot |-> IF e = "EAGAIN" THEN got ELSE 0, in |-> 0, errno |-> e]

\* readpdu: its possible outcomes.  The read() of the size may be short.
readpdu(c) ==
  LET s == sock[c]
      fails == [ok |-> FALSE, rgot |-> 0, in |-> s.in, errno |-> errno]
  IN  IF conn[c].rgot > 0 THEN {ReadBody(conn[c].rgot, s)}
      ELSE IF s.in > 0 THEN {fails, ReadBody(1, [s EXCEPT !.in = @ - 1])}
      ELSE {fails}

\* The VERIFY of readpdu: there is something to read where a size is expected.
SizeExpected(c) == conn[c].rgot = 0 /\ ~IsDead(c)
VerifyReadable(c) == SizeExpected(c) => sock[c].in > 0 \/ sock[c].peer # "open"

\* writepdu of the last n units: its possible outcomes.
writepdu(c, n) ==
  LET s == sock[c]
      k == Min({n, bound.sockbuf - s.out})
      fails == [ok |-> FALSE, left |-> n, sock |-> s]
  IN  CASE s.peer = "open" -> {[ok |-> TRUE, left |-> n - k, sock |-> [s EXCEPT !.out = @ + k]]}
        [] s.peer = "closed" -> {fails, [ok |-> TRUE, left |-> 0, sock |-> [s EXCEPT !.peer = "reset", !.in = 0]]}
        [] s.peer = "reset" -> {fails}

\* pthread_cond_signal(&send_complete_) of connection c, with the threads s.
SignalComplete(c, s) ==
  LET t == conn[c].wby
  IN  IF t # None /\ s[t].pc = "sending" THEN [s EXCEPT ![t].pc = "woken"] ELSE s

\* The last part of read_cb: a whole message is offered to got_pdu, which
\* takes it, and a reference to the connection, if the pool's queue has room.
GotPdu(c, got) ==
  IF got = PduLen /\ HasRoom
    THEN /\ enq(c, th)
         /\ conn' = [conn EXCEPT ![c].rgot = 0, ![c].refno = @ + 1]
    ELSE /\ conn' = [conn EXCEPT ![c].rgot = got]
         /\ UNCHANGED <<jobq, th>>

\* Faulty read_cb: offers a message only when it has just been read.
read_cbOnce(c) ==
  IF IsDead(c) \/ conn[c].rgot = PduLen THEN UNCHANGED <<mgrVars, jobq, th, connVars>>
  ELSE \E o \in readpdu(c) :
    /\ sock' = [sock EXCEPT ![c].in = o.in] /\ UNCHANGED <<bound, sent, faults>>
    /\ errno' = o.errno
    /\ UNCHANGED failed
    /\ IF o.ok THEN GotPdu(c, o.rgot) /\ UNCHANGED mgrVars
       ELSE /\ del_callback(Fd(c), RDWR)
            /\ conn' = [conn EXCEPT ![c].dead = "io", ![c].rgot = 0]
            /\ th' = SignalComplete(c, th)
            /\ UNCHANGED jobq

\* read_cb.  A message that got_pdu refused is offered again, and no other is
\* read before it.
read_cb(c) ==
  IF IsDead(c) THEN UNCHANGED <<mgrVars, jobq, th, connVars>>
  ELSE \E o \in IF conn[c].rgot = PduLen THEN {[ok |-> TRUE, rgot |-> PduLen, in |-> sock[c].in, errno |-> errno]}
                 ELSE readpdu(c) :
    /\ sock' = [sock EXCEPT ![c].in = o.in] /\ UNCHANGED <<bound, sent, faults>>
    /\ errno' = o.errno
    /\ failed' = IF VerifyReadable(c) THEN failed ELSE "readpdu"
    /\ IF o.ok THEN GotPdu(c, o.rgot) /\ UNCHANGED mgrVars
       ELSE /\ del_callback(Fd(c), RDWR)
            /\ conn' = [conn EXCEPT ![c].dead = "io", ![c].rgot = 0]
            /\ th' = SignalComplete(c, th)
            /\ UNCHANGED jobq

\* write_cb; its first statement is VERIFY(!dead_).
write_cb(c) ==
  /\ UNCHANGED jobq
  /\ IF IsDead(c)
       THEN failed' = "write_cb" /\ UNCHANGED <<mgrVars, th, conn, netVars, errno>>
     ELSE IF conn[c].wby = None
       THEN del_callback(Fd(c), WRONLY) /\ UNCHANGED <<th, connVars>>
     ELSE \E o \in writepdu(c, conn[c].wleft) :
       /\ sock' = [sock EXCEPT ![c] = o.sock] /\ UNCHANGED <<bound, sent, faults>>
       /\ conn' = [conn EXCEPT ![c].wleft = o.left, ![c].dead = IF o.ok THEN @ ELSE "io"]
       /\ errno' = CASE ~o.ok -> "other" [] o.left = conn[c].wleft /\ o.left > 0 -> "EAGAIN" [] OTHER -> errno
       /\ IF o.ok THEN UNCHANGED mgrVars ELSE del_callback(Fd(c), RDWR)
       /\ th' = IF o.ok /\ o.left > 0 THEN th ELSE SignalComplete(c, th)
       /\ UNCHANGED failed

-----------------------------------------------------------------------------
(* send, by thread t on th[t].c *)

\* The end of send: wpdu_ is cleared, and who waits for it told.
SendEnd(t) ==
  LET c == th[t].c
  IN  /\ conn' = [conn EXCEPT ![c].wby = None, ![c].wleft = 0]
      /\ th' = [u \in Threads |-> IF u = t THEN [th[t] EXCEPT !.pc = "sent"]
                 ELSE IF th[u].pc = "sendwait" /\ th[u].c = c THEN [th[u] EXCEPT !.pc = "send"]
                 ELSE th[u]]

\* From the entry, and from the wait for wpdu_ to be free, to the first write.
\* A message that is not written at once is left to write_cb.
SendWrite(t) ==
  LET c == th[t].c
  IN  /\ At(t, "send")
      /\ UNCHANGED <<jobq, pending, removing, poll, bound, sent, faults, errno, failed>>
      /\ \/ /\ IsDead(c)
            /\ th' = Go(t, "sent")
            /\ UNCHANGED <<watchVars, callbacks, conn, sock>>
         \/ /\ ~IsDead(c) /\ conn[c].wby # None
            /\ th' = Go(t, "sendwait")
            /\ UNCHANGED <<watchVars, callbacks, conn, sock>>
         \/ /\ ~IsDead(c) /\ conn[c].wby = None
            /\ \E o \in writepdu(c, PduLen) :
                 /\ sock' = [sock EXCEPT ![c] = o.sock] /\ UNCHANGED <<bound, sent, faults>>
                 /\ \/ /\ o.ok /\ o.left = 0
                       /\ SendEnd(t)
                       /\ UNCHANGED <<watchVars, callbacks>>
                    \/ /\ o.ok /\ o.left > 0
                       /\ watch_fd(Fd(c), WRONLY)
                       /\ callbacks' = [callbacks EXCEPT ![Fd(c)] = c]
                       /\ conn' = [conn EXCEPT ![c].wby = t, ![c].wleft = o.left]
                       /\ th' = Go(t, "sending")
                    \/ /\ ~o.ok
                       /\ conn' = [conn EXCEPT ![c].wby = t, ![c].dead = "io"]
                       /\ th' = Go(t, "remove")
                       /\ UNCHANGED <<watchVars, callbacks>>

\* After a signal of send_complete_.
SendWoken(t) ==
  LET c == th[t].c
  IN  /\ At(t, "woken")
      /\ IF ~IsDead(c) /\ conn[c].wleft > 0
           THEN th' = Go(t, "sending") /\ UNCHANGED conn
           ELSE SendEnd(t)
      /\ UNCHANGED <<jobq, pollVars, netVars, errno, failed>>

\* block_remove_fd, for a send that failed and for closeconn.
RemoveFd(t) ==
  /\ At(t, "remove")
  /\ BlockRemove(t, Fd(th[t].c))
  /\ th' = Go(t, "removing")
  /\ UNCHANGED <<jobq, connVars>>
RemovedFd(t) ==
  /\ At(t, "removing")
  /\ BlockRemoveEnd(t, Fd(th[t].c))
  /\ th' = Go(t, IF t = Listener THEN "closed" ELSE "woken")
  /\ UNCHANGED <<jobq, connVars>>

-----------------------------------------------------------------------------
(* closeconn and decref *)

\* closeconn, by the listener; it wakes nobody.
Close(t) ==
  LET c == th[t].c
  IN  /\ At(t, "close")
      /\ IF IsDead(c) THEN th' = Go(t, "closed") /\ UNCHANGED <<conn, sock>>
         ELSE /\ conn' = [conn EXCEPT ![c].dead = "closed"]
              /\ sock' = [sock EXCEPT ![c].peer = "reset", ![c].in = 0]
              /\ th' = Go(t, "remove")
      /\ UNCHANGED <<jobq, pollVars, bound, sent, faults, errno, failed>>

\* The connections after decref of c: the last reference to a dead connection
\* deletes it and closes its descriptor.
DecRef(cn, c) ==
  [cn EXCEPT ![c].refno = @ - 1,
             ![c].st = IF cn[c].refno = 1 /\ cn[c].dead # "no" THEN "deleted" ELSE @]
IncRef(cn, c) == [cn EXCEPT ![c].refno = @ + 1]
=============================================================================
