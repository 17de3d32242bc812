-------------------------------- MODULE Rpc --------------------------------
(***************************************************************************)
(* The RPC library of src/src/rpc/rpc.cc: rpcc (the client end point) and  *)
(* rpcs (the server), with the at-most-once protocol between them.         *)
(*                                                                         *)
(* A client numbers its calls (xid), remembers which it has finished       *)
(* (xid_rep_window_) and sends the front of that window with every         *)
(* request.  A call is retransmitted, with the header it was first packed  *)
(* with, whenever its connection is dead.  The server remembers the        *)
(* requests it has seen in a reply window that it trims by the client's    *)
(* front, and tells apart NEW, INPROGRESS, DONE and FORGOTTEN requests.    *)
(*                                                                         *)
(* Requests of one client may reach the server in any order: the threads   *)
(* of the client number a request and send it in separate steps, and six   *)
(* pool threads of the server dispatch what the connection delivers.       *)
(***************************************************************************)
EXTENDS Integers

CONSTANTS
  Clients,   \* the rpcc objects, each with a clt_nonce_ of its own
  MaxXid,    \* bound: calls numbered by one client
  MaxConn,   \* bound: connections opened by one client
  MaxNonce,  \* bound: instances of the server
  Lossy      \* lossytest_: the client resends a finished request later on

ASSUME RpcAssumption ==
  /\ MaxXid \in Nat
  /\ MaxConn \in Nat
  /\ MaxNonce \in Nat \ {0}
  /\ Lossy \in BOOLEAN

VARIABLES
  \* rpcc
  xid_,          \* the next xid
  srv_nonce,     \* srv_nonce_; 0 as long as bind_done_ is false
  destroy_wait,  \* destroy_wait_
  call,          \* calls_, and what became of the calls erased from it
  xid_rep,       \* the front of xid_rep_window_
  ahead,         \* the rest of xid_rep_window_, as a set
  dup_req,       \* xid of dup_req_, 0 when it is not valid
  xid_rep_done,  \* xid_rep_done_
  chan, up,      \* the connections opened so far; is the last one alive?
  \* rpcs
  nonce,         \* nonce_, a new one for every instance of the server
  window,        \* the xids in reply_window_
  present,       \* those with cb_present
  conns,         \* conns_, 0 when the client is unknown
  jobs,          \* the threads inside dispatch
  \* the connections
  reqs, reps,    \* requests and replies in flight
  \* history
  execs          \* how often the handler ran for a call

clientVars == <<xid_, srv_nonce, destroy_wait, call, xid_rep, ahead,
                dup_req, xid_rep_done>>
chanVars == <<chan, up>>
serverVars == <<nonce, window, present, conns, jobs>>
vars == <<clientVars, chanVars, serverVars, reqs, reps, execs>>

Xids == 1..MaxXid
Conns == 0..MaxConn
Nonces == 0..MaxNonce

\* "wait" covers the wait loop of call1, "last" what follows the final
\* deadline, "done" a caller whose done flag is set.
Status == {"none", "wait", "last", "done", "returned"}
Ret == {"none", "ok", "oldsrv", "forgotten", "timeout", "cancel"}

Call == [st : Status, ret : Ret, rep : Nat, srv : Nonces, conn : Conns,
         val : Nonces]
Request == [c : Clients, x : Xids, rep : Nat, srv : Nonces, conn : Conns]
Reply == [c : Clients, x : Xids, ret : {"ok", "oldsrv", "forgotten"},
          val : Nonces]
Job == [c : Clients, x : Xids, conn : Conns,
        ph : {"run", "send", "sendown", "resend"}]

\* The record of a call whose header carries rep and srv, before it is sent.
NewCall(rep, srv) ==
  [st |-> "none", ret |-> "none", rep |-> rep, srv |-> srv, conn |-> 0,
   val |-> 0]
NoCall == NewCall(0, 0)

Init ==
  /\ xid_ = [c \in Clients |-> 1]
  /\ srv_nonce = [c \in Clients |-> 0]
  /\ destroy_wait = [c \in Clients |-> FALSE]
  /\ call = [c \in Clients |-> [x \in Xids |-> NoCall]]
  /\ xid_rep = [c \in Clients |-> 0]
  /\ ahead = [c \in Clients |-> {}]
  /\ dup_req = [c \in Clients |-> 0]
  /\ xid_rep_done = [c \in Clients |-> -1]
  /\ chan = [c \in Clients |-> 0]
  /\ up = [c \in Clients |-> FALSE]
  /\ nonce = 1
  /\ window = [c \in Clients |-> {}]
  /\ present = [c \in Clients |-> {}]
  /\ conns = [c \in Clients |-> 0]
  /\ jobs = {}
  /\ reqs = {}
  /\ reps = {}
  /\ execs = [c \in Clients |-> [x \in Xids |-> 0]]

-----------------------------------------------------------------------------
(* The client *)

\* calls_ holds x and nobody has marked it done.
Pending(c, x) == call[c][x].st \in {"wait", "last"}

\* Faulty update_xid_rep: the front becomes x although earlier calls are open.
UpdateXidRepJump(c, x) ==
  IF x <= xid_rep[c]
  THEN UNCHANGED <<xid_rep, ahead>>
  ELSE /\ xid_rep' = [xid_rep EXCEPT ![c] = x]
       /\ ahead' = [ahead EXCEPT ![c] = {y \in @ : y > x}]

\* update_xid_rep.  The list is sorted and may hold an xid twice; neither
\* changes where the run of consecutive xids that starts at the front ends.
UpdateXidRep(c, x) ==
  IF x <= xid_rep[c]
  THEN UNCHANGED <<xid_rep, ahead>>
  ELSE \E g \in xid_rep[c] .. MaxXid :
         /\ \A y \in (xid_rep[c] + 1) .. g : y \in ahead[c] \cup {x}
         /\ g + 1 \notin ahead[c] \cup {x}
         /\ xid_rep' = [xid_rep EXCEPT ![c] = g]
         /\ ahead' = [ahead EXCEPT ![c] = {y \in @ \cup {x} : y > g}]

RequestOf(c, x, k, conn) ==
  [c |-> c, x |-> x, rep |-> k.rep, srv |-> k.srv, conn |-> conn]

\* The transmit branch of call1's loop with get_refconn: reconnect if the
\* channel is dead, send a saved finished request first (lossytest_), then
\* the request.  k is the call's record before the transmission.
TransmitOn(c, x, k, st, n) ==
  /\ n = IF up[c] THEN chan[c] ELSE chan[c] + 1
  /\ chan' = [chan EXCEPT ![c] = n]
  /\ up' = [up EXCEPT ![c] = TRUE]
  /\ call' = [call EXCEPT ![c][x] = [k EXCEPT !.st = st, !.conn = n]]
  /\ IF dup_req[c] # 0 /\ xid_rep_done[c] > dup_req[c]
     THEN /\ reqs' = reqs \cup
               {RequestOf(c, x, k, n),
                RequestOf(c, dup_req[c], call[c][dup_req[c]], n)}
          /\ dup_req' = [dup_req EXCEPT ![c] = 0]
     ELSE /\ reqs' = reqs \cup {RequestOf(c, x, k, n)}
          /\ UNCHANGED dup_req

\* Connecting fails: nothing is sent and ch keeps what it had.
TransmitFails(c, x, k, st) ==
  /\ ~up[c]
  /\ call' = [call EXCEPT ![c][x] = [k EXCEPT !.st = st]]
  /\ UNCHANGED <<chan, up, reqs, dup_req>>

Transmit(c, x, k, st) ==
  \/ \E n \in Conns \ {0} : TransmitOn(c, x, k, st, n)
  \/ TransmitFails(c, x, k, st)

\* call1 up to its first transmission.  The refusals (bind_failure,
\* cancel_failure) return before anything is changed.
Call1(c, srv) ==
  /\ ~destroy_wait[c]
  /\ xid_[c] <= MaxXid
  /\ xid_' = [xid_ EXCEPT ![c] = @ + 1]
  /\ Transmit(c, xid_[c], NewCall(xid_rep[c], srv), "wait")
  /\ UNCHANGED <<srv_nonce, destroy_wait, xid_rep, ahead, xid_rep_done,
                 serverVars, reps, execs>>

\* bind: the thread that made the rpcc binds it before anybody else calls.
Bind(c) ==
  /\ srv_nonce[c] = 0
  /\ \A x \in Xids : call[c][x].st \in {"none", "returned"}
  /\ Call1(c, 0)

StartCall(c) == srv_nonce[c] # 0 /\ Call1(c, srv_nonce[c])

ChannelDead(c, x) == call[c][x].conn # chan[c] \/ ~up[c]

\* An interval of the wait loop ends on a dead channel: transmit again.
Retransmit(c, x) ==
  /\ call[c][x].st = "wait"
  /\ ChannelDead(c, x)
  /\ Transmit(c, x, call[c][x], "wait")
  /\ UNCHANGED <<xid_, srv_nonce, destroy_wait, xid_rep, ahead,
                 xid_rep_done, serverVars, reps, execs>>

\* The final deadline passes.  On a dead channel the loop still transmits
\* once more before it sees that it must give up.
Timeout(c, x) ==
  /\ call[c][x].st = "wait"
  /\ IF ChannelDead(c, x)
     THEN Transmit(c, x, call[c][x], "last")
     ELSE /\ call' = [call EXCEPT ![c][x].st = "last"]
          /\ UNCHANGED <<chanVars, reqs, dup_req>>
  /\ UNCHANGED <<xid_, srv_nonce, destroy_wait, xid_rep, ahead,
                 xid_rep_done, serverVars, reps, execs>>

\* got_pdu on a reply.
GotPdu(m) ==
  LET c == m.c
      x == m.x
  IN /\ reps' = reps \ {m}
     /\ UpdateXidRep(c, x)
     /\ call' = IF Pending(c, x)
                THEN [call EXCEPT ![c][x] = [@ EXCEPT !.st = "done",
                                                      !.ret = m.ret,
                                                      !.val = m.val]]
                ELSE call
     /\ UNCHANGED <<xid_, srv_nonce, destroy_wait, dup_req, xid_rep_done,
                    chanVars, serverVars, reqs, execs>>

\* The end of call1: leave calls_, update the window (again), save the
\* request for lossytest_, return; bind also records the nonce.
Return(c, x) ==
  LET k == call[c][x]
      done == k.st = "done"
      ret == IF done THEN k.ret ELSE "timeout"
  IN /\ k.st \in {"last", "done"}
     /\ call' = [call EXCEPT ![c][x] = [k EXCEPT !.st = "returned",
                                                 !.ret = ret]]
     /\ UpdateXidRep(c, x)
     /\ srv_nonce' = IF k.srv = 0 /\ ret = "ok"
                     THEN [srv_nonce EXCEPT ![c] = k.val]
                     ELSE srv_nonce
     /\ IF done /\ Lossy
        THEN /\ dup_req' = [dup_req EXCEPT ![c] = IF @ = 0 THEN x ELSE @]
             /\ xid_rep_done' =
                  [xid_rep_done EXCEPT ![c] = IF k.rep > @ THEN k.rep ELSE @]
        ELSE UNCHANGED <<dup_req, xid_rep_done>>
     /\ UNCHANGED <<xid_, destroy_wait, chanVars, serverVars, reqs, reps,
                    execs>>

\* cancel: force every caller to fail; destroy_wait_ is never reset.
Cancel(c) ==
  LET inCalls == {x \in Xids : call[c][x].st \notin {"none", "returned"}}
  IN /\ inCalls # {}
     /\ call' = [call EXCEPT ![c] = [x \in Xids |->
                   IF x \in inCalls
                   THEN [@[x] EXCEPT !.st = "done", !.ret = "cancel"]
                   ELSE @[x]]]
     /\ destroy_wait' = [destroy_wait EXCEPT ![c] = TRUE]
     /\ UNCHANGED <<xid_, srv_nonce, xid_rep, ahead, dup_req, xid_rep_done,
                    chanVars, serverVars, reqs, reps, execs>>

-----------------------------------------------------------------------------
(* The server *)

\* Faulty gc_reply_window: deletes up to and including xid_rep.
GcReplyWindowAll(w, rep) == {x \in w : x > rep}

\* Faulty gc_reply_window: deletes whatever xid_rep says.
GcReplyWindowLast(w, rep) == {x \in w : \A y \in w : y <= x}

\* gc_reply_window: from the front, while the xid is below xid_rep and is
\* not the only one left.
GcReplyWindow(w, rep) ==
  {x \in w : x >= rep \/ \A y \in w : y <= x}

\* The reply travels on connection conn, if the client still reads from it.
SendReply(c, x, conn, ret, val) ==
  reps' = IF conn = chan[c] /\ up[c]
          THEN reps \cup {[c |-> c, x |-> x, ret |-> ret, val |-> val]}
          ELSE reps

\* Faulty checkduplicate_and_update: looks only for requests with a reply.
CheckDuplicateNoProgress(c, x) ==
  CASE window[c] = {} -> "NEW"
    [] window[c] # {} /\ \A y \in window[c] : x < y -> "FORGOTTEN"
    [] x \in present[c] -> "DONE"
    [] OTHER -> "NEW"

\* Faulty checkduplicate_and_update: does not test cb_present.
CheckDuplicateNoPresent(c, x) ==
  CASE window[c] = {} -> "NEW"
    [] window[c] # {} /\ \A y \in window[c] : x < y -> "FORGOTTEN"
    [] x \in window[c] -> "DONE"
    [] OTHER -> "NEW"

\* checkduplicate_and_update: the state of the request and the new window.
CheckDuplicate(c, x) ==
  CASE window[c] = {} -> "NEW"
    [] window[c] # {} /\ \A y \in window[c] : x < y -> "FORGOTTEN"
    [] x \in present[c] -> "DONE"
    [] x \in window[c] /\ x \notin present[c] -> "INPROGRESS"
    [] OTHER -> "NEW"

UpdateWindow(w, x, rep, stat) ==
  IF w = {} THEN {x}
  ELSE GcReplyWindow(IF stat = "NEW" THEN w \cup {x} ELSE w, rep)

\* dispatch, for a request to an earlier instance of the server.
DispatchOld(m) ==
  /\ m.srv # 0 /\ m.srv # nonce
  /\ reqs' = reqs \ {m}
  /\ SendReply(m.c, m.x, m.conn, "oldsrv", 0)
  /\ UNCHANGED <<clientVars, chanVars, serverVars, execs>>

\* dispatch up to the handler, or to its end when the handler does not run.
Dispatch(m) ==
  LET c == m.c
      stat == CheckDuplicate(c, m.x)
      w == UpdateWindow(window[c], m.x, m.rep, stat)
      JobIn(ph) == [c |-> c, x |-> m.x, conn |-> m.conn, ph |-> ph]
  IN /\ m.srv \in {0, nonce}
     /\ reqs' = reqs \ {m}
     /\ conns' = [conns EXCEPT ![c] = IF m.conn > @ THEN m.conn ELSE @]
     /\ window' = [window EXCEPT ![c] = w]
     /\ present' = [present EXCEPT ![c] = @ \cap w]
     /\ \/ stat = "NEW" /\ jobs' = jobs \cup {JobIn("run")} /\ UNCHANGED reps
        \/ stat = "INPROGRESS" /\ UNCHANGED <<jobs, reps>>
        \/ stat = "DONE" /\ jobs' = jobs \cup {JobIn("resend")}
                         /\ UNCHANGED reps
        \/ /\ stat = "FORGOTTEN"
           /\ SendReply(c, m.x, m.conn, "forgotten", 0)
           /\ UNCHANGED jobs
     /\ UNCHANGED <<clientVars, chanVars, nonce, execs>>

\* The handler runs and add_reply saves what it returned, if the entry is
\* still in the window.
RunHandler(j) ==
  LET c == j.c
      saved == j.x \in window[c]
  IN /\ j.ph = "run"
     /\ execs' = [execs EXCEPT ![c][j.x] = @ + 1]
     /\ present' = [present EXCEPT ![c] = IF saved THEN @ \cup {j.x} ELSE @]
     /\ jobs' = (jobs \ {j}) \cup
                  {[j EXCEPT !.ph = IF saved THEN "send" ELSE "sendown"]}
     /\ UNCHANGED <<clientVars, chanVars, nonce, window, conns, reqs, reps>>

\* The connection a reply goes out on: after running the handler a thread
\* whose own connection it knows to be dead takes the latest one.  A
\* connection dead at the client may not look dead at the server yet.
ReplyConns(j) ==
  {j.conn} \cup IF j.ph # "resend" /\ ~(j.conn = chan[j.c] /\ up[j.c])
                THEN {conns[j.c]} ELSE {}

\* c->send.  The buffer belongs to the window, whose mutex is not held:
\* when another thread's gc has freed it the bytes sent are those of the
\* reply or make no reply a call waits for.
Send(j) ==
  /\ j.ph \in {"send", "sendown", "resend"}
  /\ jobs' = jobs \ {j}
  /\ \/ \E conn \in ReplyConns(j) : SendReply(j.c, j.x, conn, "ok", nonce)
     \/ j.ph # "sendown" /\ j.x \notin window[j.c] /\ UNCHANGED reps
  /\ UNCHANGED <<clientVars, chanVars, nonce, window, present, conns, reqs,
                 execs>>

-----------------------------------------------------------------------------
(* Failures *)

\* The client's connection dies.  The server may still read requests that
\* were sent on it; the client reads no more replies from it.
ConnDies(c) ==
  /\ up[c]
  /\ up' = [up EXCEPT ![c] = FALSE]
  /\ \E lost \in SUBSET {m \in reqs : m.c = c /\ m.conn = chan[c]} :
       reqs' = reqs \ lost
  /\ reps' = {m \in reps : m.c # c}
  /\ UNCHANGED <<clientVars, chan, serverVars, execs>>

\* The server process dies and another one is started.
Restart ==
  /\ nonce < MaxNonce
  /\ nonce' = nonce + 1
  /\ window' = [c \in Clients |-> {}]
  /\ present' = [c \in Clients |-> {}]
  /\ conns' = [c \in Clients |-> 0]
  /\ jobs' = {}
  /\ reqs' = {}
  /\ reps' = {}
  /\ up' = [c \in Clients |-> FALSE]
  /\ UNCHANGED <<clientVars, chan, execs>>

Next ==
  \/ \E c \in Clients :
       \/ Bind(c)
       \/ StartCall(c)
       \/ Cancel(c)
       \/ ConnDies(c)
       \/ \E x \in Xids : Retransmit(c, x) \/ Timeout(c, x) \/ Return(c, x)
  \/ \E m \in reps : GotPdu(m)
  \/ \E m \in reqs : DispatchOld(m) \/ Dispatch(m)
  \/ \E j \in jobs : RunHandler(j) \/ Send(j)
  \/ Restart

Spec == Init /\ [][Next]_vars

-----------------------------------------------------------------------------
(* Properties *)

\* Every variable of rpcc and rpcs has the shape the code gives it.
TypeOK ==
  /\ xid_ \in [Clients -> 1 .. (MaxXid + 1)]
  /\ srv_nonce \in [Clients -> Nonces]
  /\ destroy_wait \in [Clients -> BOOLEAN]
  /\ call \in [Clients -> [Xids -> Call]]
  /\ xid_rep \in [Clients -> 0 .. MaxXid]
  /\ ahead \in [Clients -> SUBSET Xids]
  /\ dup_req \in [Clients -> 0 .. MaxXid]
  /\ xid_rep_done \in [Clients -> Int]
  /\ chan \in [Clients -> Conns]
  /\ up \in [Clients -> BOOLEAN]
  /\ nonce \in Nonces \ {0}
  /\ window \in [Clients -> SUBSET Xids]
  /\ present \in [Clients -> SUBSET Xids]
  /\ conns \in [Clients -> Conns]
  /\ jobs \subseteq Job
  /\ reqs \subseteq Request
  /\ reps \subseteq Reply
  /\ execs \in [Clients -> [Xids -> Nat]]

\* At most once: however often a request is retransmitted, delayed or
\* reordered, and across restarts of the server, the handler of a call runs
\* at most once (rpcs::dispatch, checkduplicate_and_update, the srv_nonce
\* test).  bind goes to whatever instance is there and is exempt.
AtMostOnce ==
  \A c \in Clients, x \in Xids : call[c][x].srv # 0 => execs[c][x] <= 1

\* A call that returns a reply of its handler ran exactly once: a reply is
\* never taken for another call's, and never sent before the handler ran.
OkRanOnce ==
  \A c \in Clients, x \in Xids :
    call[c][x].ret = "ok" /\ call[c][x].srv # 0 => execs[c][x] = 1

\* A call that fails with atmostonce_failure has not run and never will:
\* the reply of a call that somebody waits for is not deleted, so FORGOTTEN
\* reaches a caller only for a request the server never took.
ForgottenNeverRan ==
  \A c \in Clients, x \in Xids :
    call[c][x].ret = "forgotten" => execs[c][x] = 0

\* A call fails with atmostonce_failure only if an earlier call of the same
\* client was given up (timed out or cancelled): otherwise the entry for
\* xid_rep stays in the window and keeps its front below every open call.
ForgottenAfterGivingUp ==
  \A c \in Clients, x \in Xids :
    call[c][x].ret = "forgotten" =>
      \E y \in Xids : y < x /\ call[c][y].ret \in {"timeout", "cancel"}

\* gc_reply_window deletes only what no caller waits for: a call that ran
\* in this instance and is still waiting finds its entry in the window.
WaitingIsRemembered ==
  \A c \in Clients, x \in Xids :
    /\ Pending(c, x)
    /\ call[c][x].srv = nonce
    /\ execs[c][x] > 0
    => x \in window[c]

\* What xid_rep tells the server (got_pdu, update_xid_rep): no call up to
\* the xid_rep of any request in flight is still waiting for a reply.
XidRepIsFinished ==
  \A m \in reqs : \A x \in Xids : x <= m.rep => ~Pending(m.c, x)

\* A call that ran is never left without its reply: while a caller waits on
\* a live connection for a call whose reply the server has, the request or
\* the reply is on its way.  dispatch says it sends the reply on "the latest
\* connection to the client".
ReplyFindsCaller ==
  \A c \in Clients, x \in Xids :
    call[c][x].st = "wait" /\ ~ChannelDead(c, x) /\ x \in present[c] =>
      \E m \in reqs \cup reps \cup jobs : m.c = c /\ m.x = x
=============================================================================
