--------------------------- MODULE RpcInvariants ----------------------------
(***************************************************************************)
(* TLAPS proofs about Rpc: type correctness, and what numbers, headers and *)
(* nonces that are under way agree on, for any set of clients and any      *)
(* number of calls, connections and server instances.  IInv is the         *)
(* inductive invariant of RpcProofs.                                       *)
(***************************************************************************)
EXTENDS Rpc, TLAPS

\* What a client has numbered: everything that mentions an xid mentions one
\* that call1 has handed out, and no request carries an xid_rep that
\* reaches its own xid.
Numbered ==
  \A c \in Clients :
    /\ xid_rep[c] < xid_[c]
    /\ dup_req[c] < xid_[c]
    /\ \A x \in ahead[c] : x < xid_[c]
    /\ \A x \in Xids : call[c][x].st # "none" <=> x < xid_[c]
    /\ \A x \in Xids : x < xid_[c] => call[c][x].rep < x
    /\ \A x \in Xids : x >= xid_[c] => execs[c][x] = 0

\* Every copy of a request carries the header its call was packed with.
Packed ==
  \A m \in reqs :
    /\ m.x < xid_[m.c]
    /\ m.rep = call[m.c][m.x].rep
    /\ m.srv = call[m.c][m.x].srv

\* Replies and server threads belong to numbered calls.
Known ==
  /\ \A m \in reps : m.x < xid_[m.c]
  /\ \A j \in jobs : j.x < xid_[j.c]

\* No nonce is known before the instance that has it exists.
Nonced ==
  /\ \A c \in Clients : srv_nonce[c] <= nonce
  /\ \A c \in Clients, x \in Xids : call[c][x].srv <= nonce
  /\ \A c \in Clients, x \in Xids : call[c][x].val <= nonce
  /\ \A m \in reps : m.val <= nonce

\* The server has taken the request: its handler ran, runs or will run.
Taken(c, x) == execs[c][x] > 0 \/ \E j \in jobs : j.c = c /\ j.x = x

\* The reply window still knows x, or has moved past it for good.
Remembered(c, x) ==
  window[c] # {} /\ (x \in window[c] \/ \A y \in window[c] : x < y)

\* The at-most-once argument: what this instance has taken it remembers,
\* and a thread is about to run a handler only if nobody ran it.
Once ==
  /\ \A c \in Clients : present[c] \subseteq window[c]
  /\ \A j \in jobs : call[j.c][j.x].srv \in {0, nonce}
  /\ \A c \in Clients, x \in Xids :
       call[c][x].srv = nonce /\ Taken(c, x) => Remembered(c, x)
  /\ \A j \in jobs :
       j.ph = "run" /\ call[j.c][j.x].srv # 0 => execs[j.c][j.x] = 0
  /\ \A i, j \in jobs :
       /\ i.c = j.c /\ i.x = j.x /\ i.ph = "run" /\ j.ph = "run"
       /\ call[i.c][i.x].srv # 0
       => i = j

IInv == TypeOK /\ Numbered /\ Packed /\ Known /\ Nonced /\ Once /\ AtMostOnce
-----------------------------------------------------------------------------
(* Type correctness *)

\* update_xid_rep keeps the window a set of xids above its front.
LEMMA UpdateXidRepType ==
  ASSUME TypeOK, NEW c \in Clients, NEW x \in Xids, UpdateXidRep(c, x)
  PROVE  /\ xid_rep' \in [Clients -> 0 .. MaxXid]
         /\ ahead' \in [Clients -> SUBSET Xids]
<1>1. CASE x <= xid_rep[c]
  BY <1>1 DEF TypeOK, UpdateXidRep
<1>2. CASE ~(x <= xid_rep[c])
  <2>1. PICK g \in xid_rep[c] .. MaxXid :
          /\ xid_rep' = [xid_rep EXCEPT ![c] = g]
          /\ ahead' = [ahead EXCEPT ![c] = {y \in @ \cup {x} : y > g}]
    BY <1>2 DEF UpdateXidRep
  <2>2. g \in 0 .. MaxXid
    BY RpcAssumption DEF RpcAssumption, TypeOK
  <2>3. {y \in ahead[c] \cup {x} : y > g} \in SUBSET Xids
    BY DEF TypeOK
  <2> QED
    BY <2>1, <2>2, <2>3 DEF TypeOK
<1> QED
  BY <1>1, <1>2

\* A transmission leaves calls_, the connections and the requests typed.
LEMMA TransmitType ==
  ASSUME TypeOK, NEW c \in Clients, NEW x \in Xids, NEW k \in Call,
         NEW st \in Status, Transmit(c, x, k, st)
  PROVE  /\ call' \in [Clients -> [Xids -> Call]]
         /\ chan' \in [Clients -> Conns]
         /\ up' \in [Clients -> BOOLEAN]
         /\ reqs' \subseteq Request
         /\ dup_req' \in [Clients -> 0 .. MaxXid]
<1> USE RpcAssumption DEF RpcAssumption
<1>1. [k EXCEPT !.st = st] \in Call
  BY DEF Call
<1>2. \A n \in Conns : [k EXCEPT !.st = st, !.conn = n] \in Call
  BY Zenon DEF Call
<1>3. \A n \in Conns : RequestOf(c, x, k, n) \in Request
  BY DEF RequestOf, Request, Call
<1>4. \A n \in Conns : dup_req[c] # 0 =>
        RequestOf(c, dup_req[c], call[c][dup_req[c]], n) \in Request
  <2> SUFFICES ASSUME NEW n \in Conns, dup_req[c] # 0
               PROVE RequestOf(c, dup_req[c], call[c][dup_req[c]], n)
                       \in Request
    OBVIOUS
  <2>1. dup_req[c] \in Xids
    BY DEF TypeOK, Xids
  <2>2. call[c][dup_req[c]] \in Call
    BY <2>1 DEF TypeOK
  <2> QED
    BY <2>1, <2>2 DEF RequestOf, Request, Call
<1>5. ASSUME NEW n \in Conns \ {0}, TransmitOn(c, x, k, st, n)
      PROVE  /\ call' \in [Clients -> [Xids -> Call]]
             /\ chan' \in [Clients -> Conns]
             /\ up' \in [Clients -> BOOLEAN]
             /\ reqs' \subseteq Request
             /\ dup_req' \in [Clients -> 0 .. MaxXid]
  <2>1. reqs' \subseteq Request
    <3>1. \/ /\ dup_req[c] # 0
             /\ reqs' = reqs \cup
                  {RequestOf(c, x, k, n),
                   RequestOf(c, dup_req[c], call[c][dup_req[c]], n)}
          \/ reqs' = reqs \cup {RequestOf(c, x, k, n)}
      BY <1>5 DEF TransmitOn
    <3> QED
      BY <3>1, <1>3, <1>4 DEF TypeOK
  <2>2. call' \in [Clients -> [Xids -> Call]]
    BY <1>2, <1>5, Zenon DEF TypeOK, TransmitOn
  <2>3. dup_req' \in [Clients -> 0 .. MaxXid]
    <3>1. dup_req' = dup_req \/ dup_req' = [dup_req EXCEPT ![c] = 0]
      BY <1>5 DEF TransmitOn
    <3> QED
      BY <3>1 DEF TypeOK
  <2>4. chan' \in [Clients -> Conns] /\ up' \in [Clients -> BOOLEAN]
    BY <1>5 DEF TypeOK, TransmitOn
  <2> QED
    BY <2>1, <2>2, <2>3, <2>4
<1>6. CASE TransmitFails(c, x, k, st)
  BY <1>1, <1>6 DEF TypeOK, TransmitFails
<1> QED
  BY <1>5, <1>6 DEF Transmit

\* A new call starts with a typed record and an xid in range.
LEMMA Call1Type ==
  ASSUME TypeOK, NEW c \in Clients, NEW srv \in Nonces, Call1(c, srv)
  PROVE  TypeOK'
<1>1. xid_[c] \in Xids
  BY RpcAssumption DEF RpcAssumption, TypeOK, Call1, Xids
<1>2. NewCall(xid_rep[c], srv) \in Call
  <2>1. xid_rep[c] \in Nat
    BY DEF TypeOK
  <2> QED
    BY <2>1, RpcAssumption
    DEF RpcAssumption, NewCall, Call, Status, Ret, Nonces, Conns
<1>3. "wait" \in Status
  BY DEF Status
<1>4. /\ call' \in [Clients -> [Xids -> Call]]
      /\ chan' \in [Clients -> Conns]
      /\ up' \in [Clients -> BOOLEAN]
      /\ reqs' \subseteq Request
      /\ dup_req' \in [Clients -> 0 .. MaxXid]
  BY <1>1, <1>2, <1>3, TransmitType DEF Call1
<1>5. xid_' \in [Clients -> 1 .. (MaxXid + 1)]
  BY <1>1, RpcAssumption DEF RpcAssumption, TypeOK, Call1, Xids
<1> QED
  BY <1>4, <1>5 DEF TypeOK, Call1, serverVars
\* Every step of Next keeps the types.
LEMMA TypeStep == TypeOK /\ [Next]_vars => TypeOK'
<1> SUFFICES ASSUME TypeOK, [Next]_vars PROVE TypeOK'
  OBVIOUS
<1> USE RpcAssumption DEF RpcAssumption
<1>1. ASSUME NEW c \in Clients, Bind(c) PROVE TypeOK'
  BY <1>1, Call1Type, 0 \in Nonces DEF Bind, Nonces
<1>2. ASSUME NEW c \in Clients, StartCall(c) PROVE TypeOK'
  <2>1. srv_nonce[c] \in Nonces
    BY DEF TypeOK
  <2> QED
    BY <1>2, <2>1, Call1Type DEF StartCall
<1>3. ASSUME NEW c \in Clients, Cancel(c) PROVE TypeOK'
  <2>1. call' \in [Clients -> [Xids -> Call]]
    <3>1. \A k \in Call : [k EXCEPT !.st = "done", !.ret = "cancel"] \in Call
      BY Zenon DEF Call, Status, Ret
    <3>2. \A x \in Xids : call[c][x] \in Call
      BY DEF TypeOK
    <3> QED
      BY <1>3, <3>1, <3>2, Zenon DEF TypeOK, Cancel
  <2> QED
    BY <1>3, <2>1, Zenon DEF TypeOK, Cancel, chanVars, serverVars
<1>4. ASSUME NEW c \in Clients, ConnDies(c) PROVE TypeOK'
  BY <1>4 DEF TypeOK, ConnDies, clientVars, serverVars
<1>5. ASSUME NEW c \in Clients, NEW x \in Xids, Retransmit(c, x)
      PROVE TypeOK'
  <2>1. call[c][x] \in Call /\ "wait" \in Status
    BY DEF TypeOK, Status
  <2>2. /\ call' \in [Clients -> [Xids -> Call]]
        /\ chan' \in [Clients -> Conns]
        /\ up' \in [Clients -> BOOLEAN]
        /\ reqs' \subseteq Request
        /\ dup_req' \in [Clients -> 0 .. MaxXid]
    BY <1>5, <2>1, TransmitType DEF Retransmit
  <2> QED
    BY <1>5, <2>2 DEF TypeOK, Retransmit, serverVars
<1>6. ASSUME NEW c \in Clients, NEW x \in Xids, Timeout(c, x)
      PROVE TypeOK'
  <2>1. call[c][x] \in Call /\ "last" \in Status
    BY DEF TypeOK, Status
  <2>2. /\ call' \in [Clients -> [Xids -> Call]]
        /\ chan' \in [Clients -> Conns]
        /\ up' \in [Clients -> BOOLEAN]
        /\ reqs' \subseteq Request
        /\ dup_req' \in [Clients -> 0 .. MaxXid]
    <3>1. CASE ChannelDead(c, x)
      BY <1>6, <2>1, <3>1, TransmitType DEF Timeout
    <3>2. CASE ~ChannelDead(c, x)
      <4>1. [call[c][x] EXCEPT !.st = "last"] \in Call
        BY <2>1 DEF Call
      <4>2. call' = [call EXCEPT ![c][x] = [call[c][x] EXCEPT !.st = "last"]]
        BY <1>6, <3>2 DEF Timeout, TypeOK
      <4> QED
        BY <1>6, <3>2, <4>1, <4>2 DEF TypeOK, Timeout, chanVars
    <3> QED
      BY <3>1, <3>2
  <2> QED
    BY <1>6, <2>2 DEF TypeOK, Timeout, serverVars
<1>7. ASSUME NEW c \in Clients, NEW x \in Xids, Return(c, x)
      PROVE TypeOK'
  <2> DEFINE k == call[c][x]
             ret == IF k.st = "done" THEN k.ret ELSE "timeout"
  <2>1. k \in Call /\ k.val \in Nonces /\ k.rep \in Int
    BY DEF TypeOK, Call
  <2>2. [k EXCEPT !.st = "returned", !.ret = ret] \in Call
    BY <2>1, Zenon DEF Call, Status, Ret
  <2>3. call' \in [Clients -> [Xids -> Call]]
    BY <1>7, <2>2 DEF TypeOK, Return
  <2>4. srv_nonce' \in [Clients -> Nonces]
    BY <1>7, <2>1 DEF TypeOK, Return
  <2>5. dup_req' \in [Clients -> 0 .. MaxXid]
    <3>1. \/ dup_req' = dup_req
          \/ dup_req' = [dup_req EXCEPT ![c] = IF @ = 0 THEN x ELSE @]
      BY <1>7 DEF Return
    <3>2. (IF dup_req[c] = 0 THEN x ELSE dup_req[c]) \in 0 .. MaxXid
      BY DEF TypeOK, Xids
    <3> QED
      BY <3>1, <3>2 DEF TypeOK
  <2>6. xid_rep_done' \in [Clients -> Int]
    <3>1. \/ xid_rep_done' = xid_rep_done
          \/ xid_rep_done' =
               [xid_rep_done EXCEPT ![c] = IF k.rep > @ THEN k.rep ELSE @]
      BY <1>7 DEF Return
    <3> QED
      BY <2>1, <3>1 DEF TypeOK
  <2>7. /\ xid_rep' \in [Clients -> 0 .. MaxXid]
        /\ ahead' \in [Clients -> SUBSET Xids]
    BY <1>7, UpdateXidRepType DEF Return
  <2> QED
    BY <1>7, <2>3, <2>4, <2>5, <2>6, <2>7
    DEF TypeOK, Return, chanVars, serverVars
<1>8. ASSUME NEW m \in reps, GotPdu(m) PROVE TypeOK'
  <2>1. /\ m.c \in Clients /\ m.x \in Xids
        /\ m.ret \in Ret /\ m.val \in Nonces
    BY DEF TypeOK, Reply, Ret
  <2>2. call' \in [Clients -> [Xids -> Call]]
    <3>1. CASE Pending(m.c, m.x)
      <4> DEFINE k == [call[m.c][m.x] EXCEPT !.st = "done", !.ret = m.ret,
                                             !.val = m.val]
      <4>1. k \in Call
        <5>1. call[m.c][m.x] \in Call /\ "done" \in Status
          BY <2>1 DEF TypeOK, Status
        <5> QED
          BY <2>1, <5>1 DEF Call
      <4>2. call' = [call EXCEPT ![m.c][m.x] = k]
        BY <1>8, <2>1, <3>1 DEF GotPdu, TypeOK
      <4> QED
        BY <2>1, <4>1, <4>2 DEF TypeOK
    <3>2. CASE ~Pending(m.c, m.x)
      BY <1>8, <3>2 DEF GotPdu, TypeOK
    <3> QED
      BY <3>1, <3>2
  <2>3. /\ xid_rep' \in [Clients -> 0 .. MaxXid]
        /\ ahead' \in [Clients -> SUBSET Xids]
    BY <1>8, <2>1, UpdateXidRepType DEF GotPdu
  <2>4. reps' \subseteq Reply
    BY <1>8 DEF GotPdu, TypeOK
  <2> QED
    BY <1>8, <2>2, <2>3, <2>4 DEF TypeOK, GotPdu, chanVars, serverVars
<1>9. ASSUME NEW m \in reqs, DispatchOld(m) PROVE TypeOK'
  <2>1. m \in Request
    BY DEF TypeOK
  <2>2. reps' \subseteq Reply
    BY <1>9, <2>1
    DEF TypeOK, DispatchOld, SendReply, Request, Reply, Nonces
  <2> QED
    BY <1>9, <2>2
    DEF TypeOK, DispatchOld, clientVars, chanVars, serverVars
<1>10. ASSUME NEW m \in reqs, Dispatch(m) PROVE TypeOK'
  <2> DEFINE stat == CheckDuplicate(m.c, m.x)
             w == UpdateWindow(window[m.c], m.x, m.rep, stat)
  <2>1. m \in Request
    BY DEF TypeOK
  <2>2. w \in SUBSET Xids
    BY <2>1 DEF TypeOK, UpdateWindow, GcReplyWindow, Request
  <2>3. window' \in [Clients -> SUBSET Xids]
    BY <1>10, <2>2 DEF TypeOK, Dispatch
  <2>4. present' \in [Clients -> SUBSET Xids]
    <3>1. present' = [present EXCEPT ![m.c] = @ \cap w]
      BY <1>10 DEF Dispatch
    <3> QED
      BY <2>2, <3>1, Zenon DEF TypeOK
  <2>5. conns' \in [Clients -> Conns]
    BY <1>10, <2>1 DEF TypeOK, Dispatch, Request
  <2>6. jobs' \subseteq Job
    BY <1>10, <2>1 DEF TypeOK, Dispatch, Request, Job
  <2>7. reps' \subseteq Reply
    BY <1>10, <2>1 DEF TypeOK, Dispatch, SendReply, Request, Reply, Nonces
  <2> QED
    BY <1>10, <2>3, <2>4, <2>5, <2>6, <2>7
    DEF TypeOK, Dispatch, clientVars, chanVars
<1>11. ASSUME NEW j \in jobs, RunHandler(j) PROVE TypeOK'
  <2>1. j \in Job
    BY DEF TypeOK
  <2>2. execs' \in [Clients -> [Xids -> Nat]]
    BY <1>11, <2>1 DEF TypeOK, RunHandler, Job
  <2>3. present' \in [Clients -> SUBSET Xids]
    BY <1>11, <2>1 DEF TypeOK, RunHandler, Job
  <2>4. jobs' \subseteq Job
    <3>1. [j EXCEPT !.ph = IF j.x \in window[j.c] THEN "send" ELSE "sendown"]
            \in Job
      BY <2>1 DEF Job
    <3> QED
      BY <1>11, <3>1, Zenon DEF TypeOK, RunHandler
  <2> QED
    BY <1>11, <2>2, <2>3, <2>4 DEF TypeOK, RunHandler, clientVars, chanVars
<1>12. ASSUME NEW j \in jobs, Send(j) PROVE TypeOK'
  <2>1. j \in Job
    BY DEF TypeOK
  <2>2. reps' \subseteq Reply
    BY <1>12, <2>1 DEF TypeOK, Send, SendReply, Job, Reply
  <2> QED
    BY <1>12, <2>2 DEF TypeOK, Send, clientVars, chanVars
<1>13. CASE Restart
  BY <1>13 DEF TypeOK, Restart, clientVars, Nonces, Conns
<1>14. CASE UNCHANGED vars
  BY <1>14 DEF TypeOK, vars, clientVars, chanVars, serverVars
<1> QED
  BY <1>1, <1>2, <1>3, <1>4, <1>5, <1>6, <1>7, <1>8, <1>9, <1>10, <1>11,
     <1>12, <1>13, <1>14 DEF Next
\* rpcc and rpcs keep their types, however many calls, connections and
\* server instances there are.
THEOREM TypeCorrect == Spec => []TypeOK
<1>1. Init => TypeOK
  <2>1. NoCall \in Call
    BY RpcAssumption
    DEF RpcAssumption, NoCall, NewCall, Call, Status, Ret, Nonces, Conns
  <2> QED
    BY <2>1, RpcAssumption DEF RpcAssumption, Init, TypeOK, Nonces, Conns
<1> QED
  BY <1>1, TypeStep, PTL DEF Spec

-----------------------------------------------------------------------------
(* Headers *)

\* The step renumbers no call and changes no header.
SameHeaders ==
  \A c \in Clients, x \in Xids :
    /\ call'[c][x].rep = call[c][x].rep
    /\ call'[c][x].srv = call[c][x].srv
    /\ call'[c][x].st = "none" <=> call[c][x].st = "none"

\* What a transmission does to calls_, to the requests in flight and to the
\* saved request.
LEMMA TransmitEffect ==
  ASSUME TypeOK, NEW c \in Clients, NEW x \in Xids, NEW k \in Call,
         NEW st \in Status, Transmit(c, x, k, st)
  PROVE  /\ \A d \in Clients, y \in Xids :
              d # c \/ y # x => call'[d][y] = call[d][y]
         /\ call'[c][x].rep = k.rep
         /\ call'[c][x].srv = k.srv
         /\ call'[c][x].val = k.val
         /\ call'[c][x].st = st
         /\ \A m \in reqs' :
              \/ m \in reqs
              \/ m.c = c /\ m.x = x /\ m.rep = k.rep /\ m.srv = k.srv
              \/ /\ m.c = c /\ m.x = dup_req[c] /\ dup_req[c] # 0
                 /\ m.rep = call[c][m.x].rep /\ m.srv = call[c][m.x].srv
         /\ \A d \in Clients : dup_req'[d] \in {0, dup_req[d]}
<1>2. ASSUME NEW n \in Conns \ {0}, TransmitOn(c, x, k, st, n)
      PROVE  /\ \A d \in Clients, y \in Xids :
                  d # c \/ y # x => call'[d][y] = call[d][y]
             /\ call'[c][x].rep = k.rep
             /\ call'[c][x].srv = k.srv
             /\ call'[c][x].val = k.val
             /\ call'[c][x].st = st
  <2>1. call' = [call EXCEPT ![c][x] = [k EXCEPT !.st = st, !.conn = n]]
    BY <1>2 DEF TransmitOn
  <2>2. call'[c][x] = [k EXCEPT !.st = st, !.conn = n]
    BY <2>1 DEF TypeOK
  <2>3. \A d \in Clients, y \in Xids :
          d # c \/ y # x => call'[d][y] = call[d][y]
    BY <2>1 DEF TypeOK
  <2> QED
    BY <2>2, <2>3 DEF Call
<1>3. ASSUME NEW n \in Conns \ {0}, TransmitOn(c, x, k, st, n)
      PROVE  /\ \A m \in reqs' :
                  \/ m \in reqs
                  \/ m.c = c /\ m.x = x /\ m.rep = k.rep /\ m.srv = k.srv
                  \/ /\ m.c = c /\ m.x = dup_req[c] /\ dup_req[c] # 0
                     /\ m.rep = call[c][m.x].rep
                     /\ m.srv = call[c][m.x].srv
             /\ \A d \in Clients : dup_req'[d] \in {0, dup_req[d]}
  <2>1. \/ /\ dup_req[c] # 0
           /\ reqs' = reqs \cup
                {RequestOf(c, x, k, n),
                 RequestOf(c, dup_req[c], call[c][dup_req[c]], n)}
           /\ dup_req' = [dup_req EXCEPT ![c] = 0]
        \/ /\ reqs' = reqs \cup {RequestOf(c, x, k, n)}
           /\ dup_req' = dup_req
    BY <1>3 DEF TransmitOn
  <2> QED
    BY <2>1 DEF TypeOK, RequestOf
<1>4. CASE TransmitFails(c, x, k, st)
  <2>1. call'[c][x] = [k EXCEPT !.st = st]
    BY <1>4 DEF TypeOK, TransmitFails
  <2> QED
    BY <1>4, <2>1 DEF TypeOK, TransmitFails, Call
<1> QED
  BY <1>2, <1>3, <1>4 DEF Transmit

\* Cancelling marks calls done and leaves the rest of their records alone.
LEMMA CancelEffect ==
  ASSUME TypeOK, NEW c \in Clients, Cancel(c)
  PROVE  \A d \in Clients, x \in Xids :
           \/ call'[d][x] = call[d][x]
           \/ /\ call[d][x].st # "none"
              /\ call'[d][x].st = "done"
              /\ call'[d][x].rep = call[d][x].rep
              /\ call'[d][x].srv = call[d][x].srv
              /\ call'[d][x].val = call[d][x].val
<1> DEFINE inCalls == {x \in Xids : call[c][x].st \notin {"none", "returned"}}
           new == [x \in Xids |->
                     IF x \in inCalls
                     THEN [call[c][x] EXCEPT !.st = "done", !.ret = "cancel"]
                     ELSE call[c][x]]
<1>1. call' = [call EXCEPT ![c] = new]
  BY Zenon DEF Cancel
<1>2. call'[c] = new /\ \A d \in Clients : d # c => call'[d] = call[d]
  BY <1>1, Zenon DEF TypeOK
<1>3. \A k \in Call :
        /\ [k EXCEPT !.st = "done", !.ret = "cancel"].st = "done"
        /\ [k EXCEPT !.st = "done", !.ret = "cancel"].rep = k.rep
        /\ [k EXCEPT !.st = "done", !.ret = "cancel"].srv = k.srv
        /\ [k EXCEPT !.st = "done", !.ret = "cancel"].val = k.val
  BY DEF Call
<1>4. \A x \in Xids : call[c][x] \in Call
  BY DEF TypeOK
<1>5. \A x \in Xids :
        \/ call'[c][x] = call[c][x]
        \/ /\ call[c][x].st # "none"
           /\ call'[c][x] = [call[c][x] EXCEPT !.st = "done",
                                               !.ret = "cancel"]
  BY <1>2
<1> HIDE DEF new
<1> SUFFICES ASSUME NEW d \in Clients, NEW x \in Xids
             PROVE  \/ call'[d][x] = call[d][x]
                    \/ /\ call[d][x].st # "none"
                       /\ call'[d][x].st = "done"
                       /\ call'[d][x].rep = call[d][x].rep
                       /\ call'[d][x].srv = call[d][x].srv
                       /\ call'[d][x].val = call[d][x].val
  OBVIOUS
<1>6. CASE d # c
  BY <1>2, <1>6
<1>7. CASE d = c /\ call'[c][x] # call[c][x]
  <2>1. /\ call[c][x].st # "none"
        /\ call'[c][x] = [call[c][x] EXCEPT !.st = "done", !.ret = "cancel"]
    BY <1>5, <1>7, Zenon
  <2> QED
    BY <1>3, <1>4, <1>7, <2>1
<1> QED
  BY <1>6, <1>7

\* Only a new call packs a header.
LEMMA HeadersKept ==
  ASSUME TypeOK, NEW c \in Clients,
         \/ Cancel(c)
         \/ \E x \in Xids : Retransmit(c, x) \/ Timeout(c, x) \/ Return(c, x)
         \/ \E m \in reps : GotPdu(m)
  PROVE  SameHeaders
<1>1. CASE Cancel(c)
  BY <1>1, CancelEffect DEF SameHeaders
<1>2. ASSUME NEW x \in Xids, Retransmit(c, x) PROVE SameHeaders
  <2>1. call[c][x] \in Call /\ "wait" \in Status /\ call[c][x].st = "wait"
    BY <1>2 DEF TypeOK, Status, Retransmit
  <2>2. Transmit(c, x, call[c][x], "wait")
    BY <1>2 DEF Retransmit
  <2> QED
    BY <2>1, <2>2, TransmitEffect DEF SameHeaders
<1>3. ASSUME NEW x \in Xids, Timeout(c, x) PROVE SameHeaders
  <2>1. call[c][x] \in Call /\ "last" \in Status /\ call[c][x].st = "wait"
    BY <1>3 DEF TypeOK, Status, Timeout
  <2>2. CASE Transmit(c, x, call[c][x], "last")
    BY <2>1, <2>2, TransmitEffect DEF SameHeaders
  <2>3. CASE call' = [call EXCEPT ![c][x].st = "last"]
    BY <2>1, <2>3 DEF TypeOK, SameHeaders, Call
  <2> QED
    BY <1>3, <2>2, <2>3 DEF Timeout
<1>4. ASSUME NEW x \in Xids, Return(c, x) PROVE SameHeaders
  <2>1. call[c][x] \in Call /\ call[c][x].st # "none"
    BY <1>4, Zenon DEF TypeOK, Return
  <2>2. PICK ret : call' = [call EXCEPT ![c][x] =
                     [call[c][x] EXCEPT !.st = "returned", !.ret = ret]]
    BY <1>4, Zenon DEF Return
  <2> QED
    BY <2>1, <2>2 DEF TypeOK, SameHeaders, Call
<1>5. ASSUME NEW m \in reps, GotPdu(m) PROVE SameHeaders
  <2>1. m.c \in Clients /\ m.x \in Xids
    BY DEF TypeOK, Reply
  <2>2. CASE Pending(m.c, m.x)
    <3>1. call' = [call EXCEPT ![m.c][m.x] =
                     [@ EXCEPT !.st = "done", !.ret = m.ret, !.val = m.val]]
      BY <1>5, <2>2, Zenon DEF GotPdu
    <3> QED
      BY <2>1, <2>2, <3>1 DEF TypeOK, SameHeaders, Call, Pending
  <2>3. CASE ~Pending(m.c, m.x)
    BY <1>5, <2>3, Zenon DEF GotPdu, SameHeaders
  <2> QED
    BY <2>2, <2>3
<1> QED
  BY <1>1, <1>2, <1>3, <1>4, <1>5
\* update_xid_rep stays among the numbered calls.
LEMMA UpdateXidRepNumbered ==
  ASSUME TypeOK, Numbered, NEW c \in Clients, NEW x \in Xids, x < xid_[c],
         UpdateXidRep(c, x)
  PROVE  \A d \in Clients :
           xid_rep'[d] < xid_[d] /\ \A y \in ahead'[d] : y < xid_[d]
<1>1. CASE x <= xid_rep[c]
  BY <1>1 DEF UpdateXidRep, Numbered
<1>2. CASE ~(x <= xid_rep[c])
  <2>1. PICK g \in xid_rep[c] .. MaxXid :
          /\ \A y \in (xid_rep[c] + 1) .. g : y \in ahead[c] \cup {x}
          /\ xid_rep' = [xid_rep EXCEPT ![c] = g]
          /\ ahead' = [ahead EXCEPT ![c] = {y \in @ \cup {x} : y > g}]
    BY <1>2 DEF UpdateXidRep
  <2>2. g < xid_[c]
    <3>1. CASE g = xid_rep[c]
      BY <3>1 DEF Numbered
    <3>2. CASE g # xid_rep[c]
      <4>1. g \in (xid_rep[c] + 1) .. g
        <5>1. xid_rep[c] \in Int /\ MaxXid \in Int
          BY RpcAssumption DEF RpcAssumption, TypeOK
        <5> QED
          BY <3>2, <5>1
      <4>2. g \in ahead[c] \cup {x}
        BY <2>1, <4>1
      <4> QED
        BY <4>2 DEF Numbered
    <3> QED
      BY <3>1, <3>2
  <2>3. xid_rep'[c] = g /\ ahead'[c] = {y \in ahead[c] \cup {x} : y > g}
    BY <2>1 DEF TypeOK
  <2>4. \A d \in Clients :
          d # c => xid_rep'[d] = xid_rep[d] /\ ahead'[d] = ahead[d]
    BY <2>1 DEF TypeOK
  <2> QED
    BY <2>2, <2>3, <2>4 DEF Numbered
<1> QED
  BY <1>1, <1>2

Book == Numbered /\ Packed /\ Known

\* A step that numbers no call keeps the books if what it adds to the
\* window, to the saved request and to the network belongs to numbered
\* calls.
LEMMA BookKept ==
  ASSUME TypeOK, TypeOK', Book, SameHeaders, xid_' = xid_,
         \A c \in Clients :
           /\ xid_rep'[c] < xid_[c]
           /\ \A y \in ahead'[c] : y < xid_[c]
           /\ dup_req'[c] < xid_[c],
         execs' = execs,
         \A m \in reqs' :
           \/ m \in reqs
           \/ /\ m.x < xid_[m.c]
              /\ m.rep = call[m.c][m.x].rep
              /\ m.srv = call[m.c][m.x].srv,
         \A m \in reps' : m \in reps \/ m.x < xid_[m.c],
         \A j \in jobs' : j \in jobs \/ j.x < xid_[j.c]
  PROVE  Book'
<1>1. Numbered'
  BY DEF Book, Numbered, SameHeaders
<1>2. Packed'
  <2> SUFFICES ASSUME NEW m \in reqs'
               PROVE  /\ m.x < xid_[m.c]
                      /\ m.rep = call'[m.c][m.x].rep
                      /\ m.srv = call'[m.c][m.x].srv
    BY DEF Packed
  <2>1. m.c \in Clients /\ m.x \in Xids
    BY DEF TypeOK, Request
  <2> QED
    BY <2>1 DEF Book, Packed, SameHeaders
<1>3. Known'
  BY DEF Book, Known
<1> QED
  BY <1>1, <1>2, <1>3 DEF Book

\* The step of a thread inside call1 keeps the books.
LEMMA BookClient ==
  ASSUME TypeOK, TypeOK', Book, NEW c \in Clients, NEW x \in Xids,
         Retransmit(c, x) \/ Timeout(c, x) \/ Return(c, x)
  PROVE  Book'
<1>1. SameHeaders
  BY HeadersKept
<1>2. x < xid_[c]
  BY DEF Book, Numbered, Retransmit, Timeout, Return
<1>3. call[c][x] \in Call /\ "wait" \in Status /\ "last" \in Status
  BY DEF TypeOK, Status
<1>4. ASSUME NEW st \in Status, Transmit(c, x, call[c][x], st)
      PROVE  /\ \A m \in reqs' :
                  \/ m \in reqs
                  \/ /\ m.x < xid_[m.c]
                     /\ m.rep = call[m.c][m.x].rep
                     /\ m.srv = call[m.c][m.x].srv
             /\ \A d \in Clients : dup_req'[d] < xid_[d]
  <2>1. \A m \in reqs' :
          \/ m \in reqs
          \/ /\ m.c = c /\ m.x = x
             /\ m.rep = call[c][x].rep /\ m.srv = call[c][x].srv
          \/ /\ m.c = c /\ m.x = dup_req[c] /\ dup_req[c] # 0
             /\ m.rep = call[c][m.x].rep /\ m.srv = call[c][m.x].srv
    BY <1>3, <1>4, TransmitEffect
  <2>2. \A d \in Clients : dup_req'[d] \in {0, dup_req[d]}
    BY <1>3, <1>4, TransmitEffect
  <2>3. \A d \in Clients : 0 < xid_[d] /\ dup_req[d] < xid_[d]
    BY DEF TypeOK, Book, Numbered
  <2> QED
    BY <1>2, <2>1, <2>2, <2>3
<1>5. CASE Retransmit(c, x)
  <2>1. /\ xid_' = xid_ /\ xid_rep' = xid_rep /\ ahead' = ahead
        /\ reps' = reps /\ jobs' = jobs /\ execs' = execs
        /\ Transmit(c, x, call[c][x], "wait")
    BY <1>5 DEF Retransmit, serverVars
  <2>2. \A d \in Clients :
          xid_rep[d] < xid_[d] /\ \A y \in ahead[d] : y < xid_[d]
    BY DEF Book, Numbered
  <2> QED
    BY <1>1, <1>3, <1>4, <2>1, <2>2, BookKept
<1>6. CASE Timeout(c, x)
  <2>1. /\ xid_' = xid_ /\ xid_rep' = xid_rep /\ ahead' = ahead
        /\ reps' = reps /\ jobs' = jobs /\ execs' = execs
        /\ \/ Transmit(c, x, call[c][x], "last")
           \/ reqs' = reqs /\ dup_req' = dup_req
    BY <1>6 DEF Timeout, serverVars, chanVars
  <2>2. \A d \in Clients :
          /\ xid_rep[d] < xid_[d] /\ dup_req[d] < xid_[d]
          /\ \A y \in ahead[d] : y < xid_[d]
    BY DEF Book, Numbered
  <2> QED
    BY <1>1, <1>3, <1>4, <2>1, <2>2, BookKept
<1>7. CASE Return(c, x)
  <2>1. /\ xid_' = xid_ /\ reqs' = reqs /\ reps' = reps /\ jobs' = jobs
        /\ execs' = execs
        /\ UpdateXidRep(c, x)
        /\ \/ dup_req' = dup_req
           \/ dup_req' = [dup_req EXCEPT ![c] = IF @ = 0 THEN x ELSE @]
    BY <1>7 DEF Return, serverVars
  <2>2. \A d \in Clients : dup_req'[d] < xid_[d]
    <3>1. \A d \in Clients : dup_req[d] < xid_[d]
      BY DEF Book, Numbered
    <3>2. \A d \in Clients :
            dup_req'[d] = dup_req[d] \/ (d = c /\ dup_req'[d] = x)
      BY <2>1 DEF TypeOK
    <3> QED
      BY <1>2, <3>1, <3>2
  <2>3. \A d \in Clients :
          xid_rep'[d] < xid_[d] /\ \A y \in ahead'[d] : y < xid_[d]
    BY <1>2, <2>1, UpdateXidRepNumbered DEF Book
  <2> QED
    BY <1>1, <2>1, <2>2, <2>3, BookKept
<1> QED
  BY <1>5, <1>6, <1>7
\* A new call is numbered and packed with the front of the window.
LEMMA BookCall1 ==
  ASSUME TypeOK, TypeOK', Book, NEW c \in Clients, NEW srv \in Nonces,
         Call1(c, srv)
  PROVE  /\ Book'
         /\ \A d \in Clients, y \in Xids :
              d # c \/ y # xid_[c] => call'[d][y] = call[d][y]
         /\ call'[c][xid_[c]].srv = srv
         /\ call'[c][xid_[c]].val = 0
<1> DEFINE x == xid_[c]
           k == NewCall(xid_rep[c], srv)
<1>1. x \in Xids /\ x <= MaxXid
  BY RpcAssumption DEF RpcAssumption, TypeOK, Call1, Xids
<1>2. k \in Call /\ "wait" \in Status
  <2>1. xid_rep[c] \in Nat
    BY DEF TypeOK
  <2> QED
    BY <2>1, RpcAssumption
    DEF RpcAssumption, NewCall, Call, Status, Ret, Nonces, Conns
<1>3. k.rep = xid_rep[c] /\ k.srv = srv /\ k.val = 0
  BY DEF NewCall
<1>4. /\ xid_' = [xid_ EXCEPT ![c] = x + 1]
      /\ Transmit(c, x, k, "wait")
      /\ xid_rep' = xid_rep /\ ahead' = ahead
      /\ reps' = reps /\ jobs' = jobs /\ execs' = execs
  BY DEF Call1, serverVars
<1> HIDE DEF k, x
<1>5. /\ \A d \in Clients, y \in Xids :
           d # c \/ y # x => call'[d][y] = call[d][y]
      /\ call'[c][x].rep = xid_rep[c]
      /\ call'[c][x].srv = srv
      /\ call'[c][x].val = 0
      /\ call'[c][x].st = "wait"
  BY <1>1, <1>2, <1>3, <1>4, TransmitEffect
<1>6. \A m \in reqs' :
        \/ m \in reqs
        \/ m.c = c /\ m.x = x /\ m.rep = k.rep /\ m.srv = k.srv
        \/ /\ m.c = c /\ m.x = dup_req[c] /\ dup_req[c] # 0
           /\ m.rep = call[c][m.x].rep /\ m.srv = call[c][m.x].srv
  BY <1>1, <1>2, <1>4, TransmitEffect
<1>7. \A d \in Clients : dup_req'[d] \in {0, dup_req[d]}
  BY <1>1, <1>2, <1>4, TransmitEffect
<1>8. xid_'[c] = x + 1 /\ \A d \in Clients : d # c => xid_'[d] = xid_[d]
  BY <1>4 DEF TypeOK
<1>9. \A d \in Clients :
        xid_[d] \in Nat /\ 0 < xid_[d] /\ xid_'[d] \in Nat /\ xid_[d] <= xid_'[d]
  <2>1. \A d \in Clients : xid_[d] \in Nat /\ 0 < xid_[d]
    BY RpcAssumption DEF RpcAssumption, TypeOK
  <2> QED
    BY <1>8, <2>1 DEF x
<1>10. Numbered'
  <2> SUFFICES ASSUME NEW d \in Clients
               PROVE  /\ xid_rep[d] < xid_'[d]
                      /\ dup_req'[d] < xid_'[d]
                      /\ \A y \in ahead[d] : y < xid_'[d]
                      /\ \A y \in Xids :
                           call'[d][y].st # "none" <=> y < xid_'[d]
                      /\ \A y \in Xids :
                           y < xid_'[d] => call'[d][y].rep < y
                      /\ \A y \in Xids : y >= xid_'[d] => execs[d][y] = 0
    BY <1>4 DEF Numbered
  <2>1. /\ xid_rep[d] < xid_[d] /\ dup_req[d] < xid_[d]
        /\ \A y \in ahead[d] : y < xid_[d]
        /\ \A y \in Xids : call[d][y].st # "none" <=> y < xid_[d]
        /\ \A y \in Xids : y < xid_[d] => call[d][y].rep < y
        /\ \A y \in Xids : y >= xid_[d] => execs[d][y] = 0
    BY DEF Book, Numbered
  <2>2. /\ xid_rep[d] \in Int /\ dup_req[d] \in Int
        /\ \A y \in ahead[d] : y \in Int
    BY DEF TypeOK, Xids
  <2>3. /\ xid_rep[d] < xid_'[d]
        /\ dup_req'[d] < xid_'[d]
        /\ \A y \in ahead[d] : y < xid_'[d]
    BY <1>7, <1>9, <2>1, <2>2, <1>8, <1>1 DEF x
  <2>4. \A y \in Xids : y >= xid_'[d] => execs[d][y] = 0
    BY <1>8, <1>9, <2>1 DEF Xids, x
  <2>5. CASE d # c
    BY <2>5, <2>1, <2>3, <2>4, <1>5, <1>8
  <2>6. CASE d = c
    <3>1. \A y \in Xids : y < x + 1 <=> y < x \/ y = x
      BY <1>1 DEF Xids
    <3> QED
      BY <2>6, <2>1, <2>3, <2>4, <1>5, <1>8, <3>1, <1>1 DEF x
  <2> QED
    BY <2>5, <2>6
<1>11. Packed'
  <2> SUFFICES ASSUME NEW m \in reqs'
               PROVE  /\ m.x < xid_'[m.c]
                      /\ m.rep = call'[m.c][m.x].rep
                      /\ m.srv = call'[m.c][m.x].srv
    BY DEF Packed
  <2>1. m.c \in Clients /\ m.x \in Xids /\ m.x \in Int
    <3>1. m \in Request
      BY DEF TypeOK
    <3> QED
      BY <3>1 DEF Request, Xids
  <2>2. CASE m \in reqs
    <3>1. /\ m.x < xid_[m.c]
          /\ m.rep = call[m.c][m.x].rep /\ m.srv = call[m.c][m.x].srv
      BY <2>2 DEF Book, Packed
    <3>2. m.c # c \/ m.x # x
      BY <3>1, <2>1, <1>9 DEF x
    <3>3. call'[m.c][m.x] = call[m.c][m.x]
      BY <2>1, <3>2, <1>5
    <3>4. m.x < xid_'[m.c]
      BY <2>1, <3>1, <1>9
    <3> QED
      BY <3>1, <3>3, <3>4
  <2>3. CASE m.c = c /\ m.x = x /\ m.rep = k.rep /\ m.srv = k.srv
    BY <2>3, <1>1, <1>3, <1>5, <1>8, <2>1
  <2>4. CASE /\ m.c = c /\ m.x = dup_req[c]
             /\ m.rep = call[c][m.x].rep /\ m.srv = call[c][m.x].srv
    <3>1. m.x < x
      BY <2>4 DEF Book, Numbered, x
    <3>2. m.x # x
      BY <3>1, <2>1, <1>1 DEF Xids
    <3> QED
      BY <2>1, <2>4, <3>1, <3>2, <1>5, <1>8, <1>1 DEF Xids
  <2> QED
    BY <1>6, <2>2, <2>3, <2>4
<1>12. Known'
  <2>1. \A m \in reps : m.c \in Clients /\ m.x \in Int /\ m.x < xid_[m.c]
    BY DEF TypeOK, Reply, Xids, Book, Known
  <2>2. \A j \in jobs : j.c \in Clients /\ j.x \in Int /\ j.x < xid_[j.c]
    BY DEF TypeOK, Job, Xids, Book, Known
  <2>3. \A d \in Clients : xid_'[d] \in Int
    BY DEF TypeOK
  <2> QED
    BY <1>4, <1>9, <2>1, <2>2, <2>3 DEF Known
<1> QED
  BY <1>5, <1>10, <1>11, <1>12 DEF Book, x
\* Sending a reply adds at most that reply.
LEMMA SendReplyEffect ==
  ASSUME NEW c, NEW x, NEW conn, NEW ret, NEW val,
         SendReply(c, x, conn, ret, val)
  PROVE  \A r \in reps' :
           \/ r \in reps
           \/ r.c = c /\ r.x = x /\ r.ret = ret /\ r.val = val
<1>1. reps' \subseteq
        reps \cup {[c |-> c, x |-> x, ret |-> ret, val |-> val]}
  BY DEF SendReply
<1> QED
  BY <1>1

\* Dispatching a request starts at most one thread for it, and that runs
\* the handler only if the request is NEW.
LEMMA DispatchEffect ==
  ASSUME NEW m, Dispatch(m)
  PROVE  /\ \A r \in reps' :
              \/ r \in reps
              \/ /\ CheckDuplicate(m.c, m.x) = "FORGOTTEN"
                 /\ r.c = m.c /\ r.x = m.x
                 /\ r.ret = "forgotten" /\ r.val = 0
         /\ \A j \in jobs' :
              \/ j \in jobs
              \/ /\ j = [c |-> m.c, x |-> m.x, conn |-> m.conn, ph |-> "run"]
                 /\ CheckDuplicate(m.c, m.x) = "NEW"
              \/ /\ j = [c |-> m.c, x |-> m.x, conn |-> m.conn,
                         ph |-> "resend"]
                 /\ CheckDuplicate(m.c, m.x) = "DONE"
<1>1. \/ reps' = reps
      \/ /\ CheckDuplicate(m.c, m.x) = "FORGOTTEN"
         /\ SendReply(m.c, m.x, m.conn, "forgotten", 0)
  BY DEF Dispatch
<1>2. \/ jobs' = jobs
      \/ /\ CheckDuplicate(m.c, m.x) = "NEW"
         /\ jobs' = jobs \cup {[c |-> m.c, x |-> m.x, conn |-> m.conn,
                                ph |-> "run"]}
      \/ /\ CheckDuplicate(m.c, m.x) = "DONE"
         /\ jobs' = jobs \cup {[c |-> m.c, x |-> m.x, conn |-> m.conn,
                                ph |-> "resend"]}
  BY DEF Dispatch
<1>3. \A r \in reps' :
        \/ r \in reps
        \/ /\ CheckDuplicate(m.c, m.x) = "FORGOTTEN"
           /\ r.c = m.c /\ r.x = m.x /\ r.ret = "forgotten" /\ r.val = 0
  BY <1>1, SendReplyEffect
<1> QED
  BY <1>2, <1>3

\* Running the handler moves one thread on to sending the reply.
LEMMA RunHandlerEffect ==
  ASSUME TypeOK, NEW j \in jobs, RunHandler(j)
  PROVE  \A i \in jobs' :
           \/ i \in jobs /\ i # j
           \/ i.c = j.c /\ i.x = j.x /\ i.ph # "run"
<1>1. PICK ph \in {"send", "sendown"} :
        jobs' = (jobs \ {j}) \cup {[j EXCEPT !.ph = ph]}
  <2>1. CASE j.x \in window[j.c]
    BY <2>1 DEF RunHandler
  <2>2. CASE j.x \notin window[j.c]
    BY <2>2 DEF RunHandler
  <2> QED
    BY <2>1, <2>2
<1>2. j \in Job
  BY DEF TypeOK
<1>3. /\ [j EXCEPT !.ph = ph].c = j.c /\ [j EXCEPT !.ph = ph].x = j.x
      /\ [j EXCEPT !.ph = ph].ph = ph
  BY <1>2 DEF Job
<1> QED
  BY <1>1, <1>3, Zenon

\* Sending ends the thread and adds at most the reply "ok".
LEMMA SendEffect ==
  ASSUME NEW j \in jobs, Send(j)
  PROVE  \A r \in reps' :
           \/ r \in reps
           \/ r.c = j.c /\ r.x = j.x /\ r.ret = "ok" /\ r.val = nonce
<1>1. \/ reps' = reps
      \/ \E conn : SendReply(j.c, j.x, conn, "ok", nonce)
  BY DEF Send
<1> QED
  BY <1>1, SendReplyEffect

\* Every step keeps the books.
LEMMA BookStep ==
  ASSUME TypeOK, TypeOK', Book, Next
  PROVE  Book'
<1>1. \A c \in Clients :
        /\ xid_rep[c] < xid_[c] /\ dup_req[c] < xid_[c]
        /\ \A y \in ahead[c] : y < xid_[c]
  BY DEF Book, Numbered
<1>2. ASSUME NEW c \in Clients, Bind(c) \/ StartCall(c) PROVE Book'
  <2>1. PICK srv \in Nonces : Call1(c, srv)
    BY <1>2, RpcAssumption
    DEF RpcAssumption, Bind, StartCall, TypeOK, Nonces
  <2> QED
    BY <2>1, BookCall1
<1>3. ASSUME NEW c \in Clients, Cancel(c) PROVE Book'
  <2>1. SameHeaders
    BY <1>3, HeadersKept
  <2> QED
    BY <1>1, <1>3, <2>1, BookKept, Zenon DEF Cancel, serverVars
<1>4. ASSUME NEW c \in Clients, ConnDies(c) PROVE Book'
  BY <1>1, <1>4, BookKept DEF ConnDies, clientVars, serverVars, SameHeaders
<1>5. ASSUME NEW m \in reps, GotPdu(m) PROVE Book'
  <2>1. m.c \in Clients /\ m.x \in Xids /\ m.x < xid_[m.c]
    BY DEF TypeOK, Reply, Book, Known
  <2>2. SameHeaders
    BY <1>5, <2>1, HeadersKept
  <2>3. \A d \in Clients :
          xid_rep'[d] < xid_[d] /\ \A y \in ahead'[d] : y < xid_[d]
    BY <1>5, <2>1, UpdateXidRepNumbered DEF Book, GotPdu
  <2>4. /\ xid_' = xid_ /\ dup_req' = dup_req /\ reqs' = reqs
        /\ reps' \subseteq reps /\ jobs' = jobs /\ execs' = execs
    BY <1>5 DEF GotPdu, serverVars
  <2> QED
    BY <1>1, <2>2, <2>3, <2>4, BookKept
<1>6. ASSUME NEW m \in reqs, DispatchOld(m) \/ Dispatch(m) PROVE Book'
  <2>1. /\ xid_' = xid_ /\ dup_req' = dup_req /\ reqs' \subseteq reqs
        /\ xid_rep' = xid_rep /\ ahead' = ahead /\ execs' = execs
        /\ call' = call
    BY <1>6 DEF DispatchOld, Dispatch, clientVars
  <2>2. \A r \in reps' : r \in reps \/ (r.c = m.c /\ r.x = m.x)
    BY <1>6, SendReplyEffect, DispatchEffect DEF DispatchOld
  <2>3. \A j \in jobs' : j \in jobs \/ (j.c = m.c /\ j.x = m.x)
    BY <1>6, DispatchEffect DEF DispatchOld, serverVars
  <2>4. m.x < xid_[m.c]
    BY DEF Book, Packed
  <2> QED
    BY <1>1, <2>1, <2>2, <2>3, <2>4, BookKept DEF SameHeaders
<1>7. ASSUME NEW j \in jobs, RunHandler(j) PROVE Book'
  <2>1. /\ xid_' = xid_ /\ dup_req' = dup_req /\ reqs' = reqs
        /\ xid_rep' = xid_rep /\ ahead' = ahead /\ reps' = reps
        /\ call' = call
        /\ execs' = [execs EXCEPT ![j.c][j.x] = @ + 1]
    BY <1>7 DEF RunHandler, clientVars
  <2>2. j.c \in Clients /\ j.x \in Xids /\ j.x < xid_[j.c]
    BY DEF TypeOK, Job, Book, Known
  <2>3. \A i \in jobs' : i \in jobs \/ (i.c = j.c /\ i.x = j.x)
    BY <1>7, RunHandlerEffect
  <2>4. \A c \in Clients, x \in Xids : x >= xid_[c] => execs'[c][x] = 0
    <3>1. \A c \in Clients, x \in Xids :
            c # j.c \/ x # j.x => execs'[c][x] = execs[c][x]
      BY <2>1 DEF TypeOK
    <3>2. \A c \in Clients : xid_[c] \in Int
      BY RpcAssumption DEF RpcAssumption, TypeOK
    <3>3. \A c \in Clients, x \in Xids : x >= xid_[c] => execs[c][x] = 0
      BY DEF Book, Numbered
    <3> QED
      BY <3>1, <3>2, <3>3, <2>2 DEF Xids
  <2>5. Numbered'
    BY <2>1, <2>4 DEF Book, Numbered
  <2> QED
    BY <2>1, <2>2, <2>3, <2>5 DEF Book, Packed, Known
<1>8. ASSUME NEW j \in jobs, Send(j) PROVE Book'
  <2>1. /\ xid_' = xid_ /\ dup_req' = dup_req /\ reqs' = reqs
        /\ xid_rep' = xid_rep /\ ahead' = ahead /\ execs' = execs
        /\ call' = call /\ jobs' \subseteq jobs
    BY <1>8 DEF Send, clientVars
  <2>2. \A r \in reps' : r \in reps \/ (r.c = j.c /\ r.x = j.x)
    BY <1>8, SendEffect
  <2>3. j.x < xid_[j.c]
    BY DEF Book, Known
  <2> QED
    BY <1>1, <2>1, <2>2, <2>3, BookKept DEF SameHeaders
<1>9. CASE Restart
  BY <1>1, <1>9, BookKept DEF Restart, clientVars, SameHeaders
<1> QED
  BY <1>2, <1>3, <1>4, <1>5, <1>6, <1>7, <1>8, <1>9, BookClient DEF Next
-----------------------------------------------------------------------------
(* Nonces *)

\* Every step keeps nonces within the instances that exist.
LEMMA NoncedStep ==
  ASSUME TypeOK, TypeOK', Book, Nonced, Next
  PROVE  Nonced'
<1>1. /\ nonce \in Int /\ nonce > 0
      /\ \A c \in Clients : srv_nonce[c] \in Int /\ srv_nonce[c] <= nonce
      /\ \A c \in Clients, x \in Xids :
           /\ call[c][x].srv \in Int /\ call[c][x].srv <= nonce
           /\ call[c][x].val \in Int /\ call[c][x].val <= nonce
      /\ \A r \in reps : r.val \in Int /\ r.val <= nonce
  <2>1. /\ nonce \in Int /\ nonce > 0
        /\ \A c \in Clients : srv_nonce[c] \in Int
    BY RpcAssumption DEF RpcAssumption, TypeOK, Nonces
  <2>2. \A c \in Clients, x \in Xids :
          call[c][x].srv \in Int /\ call[c][x].val \in Int
    <3>1. \A c \in Clients, x \in Xids : call[c][x] \in Call
      BY DEF TypeOK
    <3> QED
      BY <3>1, RpcAssumption DEF RpcAssumption, Call, Nonces
  <2>3. \A r \in reps : r.val \in Int
    BY RpcAssumption DEF RpcAssumption, TypeOK, Reply, Nonces
  <2> QED
    BY <2>1, <2>2, <2>3 DEF Nonced
<1>0. call \in [Clients -> [Xids -> Call]]
  BY DEF TypeOK
<1>2. ASSUME NEW c \in Clients, Bind(c) \/ StartCall(c) PROVE Nonced'
  <2>1. PICK srv \in Nonces : Call1(c, srv) /\ srv <= nonce
    BY <1>1, <1>2, RpcAssumption
    DEF RpcAssumption, Bind, StartCall, TypeOK, Nonces
  <2>2. xid_[c] \in Xids
    BY <2>1, RpcAssumption DEF RpcAssumption, TypeOK, Call1, Xids
  <2>3. /\ \A d \in Clients, y \in Xids :
             d # c \/ y # xid_[c] => call'[d][y] = call[d][y]
        /\ call'[c][xid_[c]].srv = srv
        /\ call'[c][xid_[c]].val = 0
    BY <2>1, BookCall1
  <2>4. nonce' = nonce /\ srv_nonce' = srv_nonce /\ reps' = reps
    BY <2>1, Zenon DEF Call1, serverVars
  <2> QED
    BY <1>1, <2>1, <2>2, <2>3, <2>4 DEF Nonced
<1>3. ASSUME NEW c \in Clients, NEW x \in Xids,
             Retransmit(c, x) \/ Timeout(c, x)
      PROVE  Nonced'
  <2>1. call[c][x] \in Call /\ "wait" \in Status /\ "last" \in Status
    BY DEF TypeOK, Status
  <2>2. \A d \in Clients, y \in Xids : call'[d][y].val = call[d][y].val
    <3>1. ASSUME NEW st \in Status, Transmit(c, x, call[c][x], st)
          PROVE \A d \in Clients, y \in Xids :
                  call'[d][y].val = call[d][y].val
      <4>1. /\ \A d \in Clients, y \in Xids :
                 d # c \/ y # x => call'[d][y] = call[d][y]
            /\ call'[c][x].val = call[c][x].val
        BY <2>1, <3>1, TransmitEffect, SMTT(30)
      <4> QED
        BY <4>1
    <3>2. CASE call' = [call EXCEPT ![c][x].st = "last"]
      <4>1. /\ \A d \in Clients, y \in Xids :
                 d # c \/ y # x => call'[d][y] = call[d][y]
            /\ call'[c][x] = [call[c][x] EXCEPT !.st = "last"]
        BY <1>0, <3>2
      <4>2. call'[c][x].val = call[c][x].val
        BY <2>1, <4>1 DEF Call
      <4> QED
        BY <4>1, <4>2, Zenon
    <3> QED
      BY <1>3, <2>1, <3>1, <3>2 DEF Retransmit, Timeout
  <2>3. SameHeaders
    BY <1>3, HeadersKept
  <2>4. nonce' = nonce /\ srv_nonce' = srv_nonce /\ reps' = reps
    BY <1>3 DEF Retransmit, Timeout, serverVars
  <2> QED
    BY <1>1, <2>2, <2>3, <2>4 DEF Nonced, SameHeaders
<1>4. ASSUME NEW c \in Clients, NEW x \in Xids, Return(c, x) PROVE Nonced'
  <2>1. call[c][x] \in Call
    BY DEF TypeOK
  <2>2. \A d \in Clients, y \in Xids : call'[d][y].val = call[d][y].val
    <3>1. PICK ret : call' = [call EXCEPT ![c][x] =
                       [call[c][x] EXCEPT !.st = "returned", !.ret = ret]]
      BY <1>4 DEF Return
    <3>2. /\ \A d \in Clients, y \in Xids :
               d # c \/ y # x => call'[d][y] = call[d][y]
          /\ call'[c][x] = [call[c][x] EXCEPT !.st = "returned", !.ret = ret]
      BY <1>0, <3>1
    <3>3. call'[c][x].val = call[c][x].val
      BY <2>1, <3>2 DEF Call
    <3> QED
      BY <3>2, <3>3, Zenon
  <2>3. SameHeaders
    BY <1>4, HeadersKept
  <2>4. /\ nonce' = nonce /\ reps' = reps
        /\ \/ srv_nonce' = srv_nonce
           \/ srv_nonce' = [srv_nonce EXCEPT ![c] = call[c][x].val]
    BY <1>4 DEF Return, serverVars
  <2>5. \A d \in Clients : srv_nonce'[d] <= nonce
    <3>1. \A d \in Clients :
            srv_nonce'[d] = srv_nonce[d] \/ srv_nonce'[d] = call[c][x].val
      BY <2>4 DEF TypeOK
    <3> QED
      BY <1>1, <3>1
  <2> QED
    BY <1>1, <2>2, <2>3, <2>4, <2>5 DEF Nonced, SameHeaders
<1>5. ASSUME NEW c \in Clients, Cancel(c) PROVE Nonced'
  <2>1. \A d \in Clients, y \in Xids : call'[d][y].val = call[d][y].val
    BY <1>5, CancelEffect
  <2>2. SameHeaders
    BY <1>5, HeadersKept
  <2>3. nonce' = nonce /\ srv_nonce' = srv_nonce /\ reps' = reps
    BY <1>5, Zenon DEF Cancel, serverVars
  <2> QED
    BY <1>1, <2>1, <2>2, <2>3 DEF Nonced, SameHeaders
<1>6. ASSUME NEW m \in reps, GotPdu(m) PROVE Nonced'
  <2>1. m.c \in Clients /\ m.x \in Xids
    BY DEF TypeOK, Reply
  <2>2. \A d \in Clients, y \in Xids :
          call'[d][y].val \in {call[d][y].val, m.val}
    <3>1. CASE call' = call
      BY <3>1
    <3>2. CASE call' = [call EXCEPT ![m.c][m.x] =
                         [@ EXCEPT !.st = "done", !.ret = m.ret,
                                   !.val = m.val]]
      <4>1. /\ \A d \in Clients, y \in Xids :
                 d # m.c \/ y # m.x => call'[d][y] = call[d][y]
            /\ call'[m.c][m.x] = [call[m.c][m.x] EXCEPT !.st = "done",
                                    !.ret = m.ret, !.val = m.val]
        BY <1>0, <2>1, <3>2
      <4>2. call'[m.c][m.x].val = m.val
        BY <1>0, <2>1, <4>1 DEF Call
      <4> QED
        BY <4>1, <4>2, Zenon
    <3> QED
      BY <1>6, <3>1, <3>2 DEF GotPdu
  <2>3. SameHeaders
    BY <1>6, <2>1, HeadersKept
  <2>4. nonce' = nonce /\ srv_nonce' = srv_nonce /\ reps' \subseteq reps
    BY <1>6 DEF GotPdu, serverVars
  <2> QED
    BY <1>1, <2>2, <2>3, <2>4 DEF Nonced, SameHeaders
<1>7. ASSUME NEW m \in reqs, DispatchOld(m) \/ Dispatch(m) PROVE Nonced'
  <2>1. \A r \in reps' : r \in reps \/ r.val = 0
    BY <1>7, SendReplyEffect, DispatchEffect DEF DispatchOld
  <2>2. nonce' = nonce /\ srv_nonce' = srv_nonce /\ call' = call
    BY <1>7 DEF DispatchOld, Dispatch, clientVars, serverVars
  <2> QED
    BY <1>1, <2>1, <2>2 DEF Nonced
<1>8. ASSUME NEW j \in jobs, RunHandler(j) \/ Send(j) PROVE Nonced'
  <2>1. \A r \in reps' : r \in reps \/ r.val = nonce
    <3>1. CASE RunHandler(j)
      BY <3>1, Zenon DEF RunHandler
    <3>2. CASE Send(j)
      BY <3>2, SendEffect, Zenon
    <3> QED
      BY <1>8, <3>1, <3>2, Zenon
  <2>2. nonce' = nonce /\ srv_nonce' = srv_nonce /\ call' = call
    <3>1. CASE RunHandler(j)
      BY <3>1, Zenon DEF RunHandler, clientVars
    <3>2. CASE Send(j)
      BY <3>2, Zenon DEF Send, clientVars
    <3> QED
      BY <1>8, <3>1, <3>2, Zenon
  <2>3. \A r \in reps' : r.val <= nonce
    <3> SUFFICES ASSUME NEW r \in reps' PROVE r.val <= nonce
      OBVIOUS
    <3>1. CASE r \in reps
      BY <3>1 DEF Nonced
    <3>2. CASE r.val = nonce
      BY <1>1, <3>2
    <3> QED
      BY <2>1, <3>1, <3>2
  <2> QED
    BY <2>2, <2>3, Zenon DEF Nonced
<1>9. ASSUME NEW c \in Clients, ConnDies(c) PROVE Nonced'
  BY <1>1, <1>9 DEF Nonced, ConnDies, clientVars, serverVars
<1>10. CASE Restart
  BY <1>1, <1>10 DEF Nonced, Restart, clientVars
<1> QED
  BY <1>2, <1>3, <1>4, <1>5, <1>6, <1>7, <1>8, <1>9, <1>10 DEF Next
=============================================================================
