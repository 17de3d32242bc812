----------------------------- MODULE RpcProofs ------------------------------
(***************************************************************************)
(* TLAPS proof that rpcs runs a call at most once, for any set of clients  *)
(* and any number of calls, connections and server instances.              *)
(***************************************************************************)
EXTENDS RpcInvariants

\* checkduplicate_and_update, given that a request's xid_rep is below its
\* xid: the window does not become empty, knows a NEW request afterwards,
\* and what it knew or had moved past it still knows or has moved past.
LEMMA WindowStep ==
  ASSUME NEW c, window[c] \subseteq Int, NEW x \in Int, NEW rep \in Int,
         rep < x, present[c] \subseteq window[c],
         NEW w, w = UpdateWindow(window[c], x, rep, CheckDuplicate(c, x))
  PROVE  /\ w # {}
         /\ CheckDuplicate(c, x) = "NEW" =>
              /\ x \in w
              /\ ~Remembered(c, x)
         /\ \A y \in Int : Remembered(c, y) =>
              y \in w \/ \A z \in w : y < z
<1> DEFINE stat == CheckDuplicate(c, x)
<1>1. CASE window[c] = {}
  BY <1>1 DEF UpdateWindow, Remembered
<1>2. CASE window[c] # {} /\ \A y \in window[c] : x < y
  <2>1. stat = "FORGOTTEN"
    BY <1>2 DEF CheckDuplicate
  <2>2. w = {y \in window[c] : y >= rep \/ \A z \in window[c] : z <= y}
    BY <1>2, <2>1 DEF UpdateWindow, GcReplyWindow
  <2>3. \A y \in window[c] : y >= rep
    BY <1>2
  <2>4. w = window[c]
    BY <2>2, <2>3
  <2> QED
    BY <1>2, <2>1, <2>4 DEF Remembered
<1>3. CASE x \in window[c]
  <2>1. stat \in {"DONE", "INPROGRESS"}
    <3>1. ~ \A y \in window[c] : x < y
      BY <1>3
    <3> QED
      BY <1>3, <3>1 DEF CheckDuplicate
  <2>2. w = {y \in window[c] : y >= rep \/ \A z \in window[c] : z <= y}
    BY <1>3, <2>1 DEF UpdateWindow, GcReplyWindow
  <2>3. x \in w
    BY <1>3, <2>2
  <2>4. \A y \in Int : Remembered(c, y) => y \in w \/ \A z \in w : y < z
    BY <2>2 DEF Remembered
  <2> QED
    BY <2>1, <2>3, <2>4
<1>4. CASE /\ window[c] # {} /\ x \notin window[c]
           /\ ~ \A y \in window[c] : x < y
  <2>1. stat = "NEW"
    BY <1>4 DEF CheckDuplicate
  <2>2. w = {y \in window[c] \cup {x} :
               y >= rep \/ \A z \in window[c] \cup {x} : z <= y}
    BY <1>4, <2>1 DEF UpdateWindow, GcReplyWindow
  <2>3. x \in w
    BY <2>2
  <2>4. ~Remembered(c, x)
    BY <1>4 DEF Remembered
  <2>5. \A y \in Int : Remembered(c, y) => y \in w \/ \A z \in w : y < z
    <3> SUFFICES ASSUME NEW y \in Int, Remembered(c, y), y \notin w
                 PROVE  \A z \in w : y < z
      OBVIOUS
    <3>1. CASE y \in window[c]
      BY <2>2, <3>1
    <3>2. CASE \A z \in window[c] : y < z
      <4>1. y < x
        BY <1>4, <3>2
      <4> QED
        BY <2>2, <3>2, <4>1
    <3> QED
      BY <3>1, <3>2 DEF Remembered
  <2> QED
    BY <2>3, <2>4, <2>5
<1> QED
  BY <1>1, <1>2, <1>3, <1>4
\* A step that leaves the server and the headers alone keeps Once.
LEMMA OnceClient ==
  ASSUME TypeOK, Once, AtMostOnce, SameHeaders,
         UNCHANGED <<nonce, window, present, jobs, execs>>
  PROVE  Once' /\ AtMostOnce'
<1>1. \A j \in jobs : j.c \in Clients /\ j.x \in Xids
  BY DEF TypeOK, Job
<1>2. \A c \in Clients, x \in Xids : Taken(c, x)' <=> Taken(c, x)
  BY DEF Taken
<1>3. \A c \in Clients, x \in Xids : Remembered(c, x)' <=> Remembered(c, x)
  BY DEF Remembered
<1>4. \A c \in Clients, x \in Xids : call'[c][x].srv = call[c][x].srv
  BY DEF SameHeaders
<1>5. AtMostOnce'
  BY <1>4 DEF AtMostOnce
<1>6. \A c \in Clients : present'[c] \subseteq window'[c]
  BY DEF Once
<1>7. \A j \in jobs' : call'[j.c][j.x].srv \in {0, nonce'}
  BY <1>1, <1>4 DEF Once
<1>8. \A c \in Clients, x \in Xids :
        call'[c][x].srv = nonce' /\ Taken(c, x)' => Remembered(c, x)'
  BY <1>2, <1>3, <1>4 DEF Once
<1>9. \A j \in jobs' :
        j.ph = "run" /\ call'[j.c][j.x].srv # 0 => execs'[j.c][j.x] = 0
  BY <1>1, <1>4 DEF Once
<1>10. \A i, j \in jobs' :
         /\ i.c = j.c /\ i.x = j.x /\ i.ph = "run" /\ j.ph = "run"
         /\ call'[i.c][i.x].srv # 0
         => i = j
  BY <1>1, <1>4 DEF Once
<1> QED
  BY <1>5, <1>6, <1>7, <1>8, <1>9, <1>10, Zenon DEF Once

\* The window holds numbers, and what is present is in it.
LEMMA WindowTypes ==
  ASSUME TypeOK, Once, NEW c \in Clients
  PROVE  window[c] \subseteq Int /\ present[c] \subseteq window[c]
<1>1. window \in [Clients -> SUBSET Xids]
  BY DEF TypeOK
<1>2. window[c] \subseteq Int
  BY <1>1 DEF Xids
<1>3. present[c] \subseteq window[c]
  BY DEF Once
<1> QED
  BY <1>2, <1>3

\* Dispatching keeps Once: a thread is started to run a handler only for a
\* request that the window does not remember, so nobody has taken it.
LEMMA OnceDispatch ==
  ASSUME TypeOK, TypeOK', Book, Nonced, Once, AtMostOnce, NEW m \in reqs,
         Dispatch(m)
  PROVE  Once' /\ AtMostOnce'
<1> DEFINE c == m.c
           x == m.x
           stat == CheckDuplicate(c, x)
           w == UpdateWindow(window[c], x, m.rep, stat)
<1>1. /\ c \in Clients /\ x \in Xids /\ x \in Int /\ m.rep \in Int
      /\ m.rep < x /\ m.srv = call[c][x].srv
      /\ m.srv \in {0, nonce}
  <2>1. c \in Clients /\ x \in Xids /\ x \in Int /\ m.rep \in Int
    BY DEF TypeOK, Request, Xids
  <2>2. x < xid_[c] /\ m.rep = call[c][x].rep /\ m.srv = call[c][x].srv
    BY DEF Book, Packed
  <2>3. call[c][x].rep < x
    BY <2>1, <2>2 DEF Book, Numbered
  <2>4. m.srv \in {0, nonce}
    BY DEF Dispatch
  <2> QED
    BY <2>1, <2>2, <2>3, <2>4
<1>2. /\ window' = [window EXCEPT ![c] = w]
      /\ present' = [present EXCEPT ![c] = @ \cap w]
      /\ nonce' = nonce /\ call' = call /\ execs' = execs
  BY DEF Dispatch, clientVars
<1>3. window[c] \subseteq Int /\ present[c] \subseteq window[c]
  BY <1>1, WindowTypes
<1>4. /\ w # {}
      /\ stat = "NEW" => x \in w /\ ~Remembered(c, x)
      /\ \A y \in Int : Remembered(c, y) => y \in w \/ \A z \in w : y < z
  <2>1. w = UpdateWindow(window[c], x, m.rep, CheckDuplicate(c, x))
    OBVIOUS
  <2> HIDE DEF w, c, x
  <2>2. /\ w # {}
        /\ CheckDuplicate(c, x) = "NEW" => x \in w /\ ~Remembered(c, x)
        /\ \A y \in Int : Remembered(c, y) => y \in w \/ \A z \in w : y < z
    BY <1>1, <1>3, <2>1, WindowStep
  <2> QED
    BY <2>2
<1> HIDE DEF w
<1>5. window'[c] = w /\ \A d \in Clients : d # c => window'[d] = window[d]
  BY <1>1, <1>2 DEF TypeOK
<1>6. \A d \in Clients : present'[d] \subseteq window'[d]
  BY <1>1, <1>2, <1>5 DEF TypeOK, Once
<1>7. \A d \in Clients, y \in Xids : Remembered(d, y) => Remembered(d, y)'
  BY <1>4, <1>5 DEF Remembered, Xids
<1>8. \A j \in jobs' :
        \/ j \in jobs
        \/ j = [c |-> c, x |-> x, conn |-> m.conn, ph |-> "run"] /\ stat = "NEW"
        \/ /\ j = [c |-> c, x |-> x, conn |-> m.conn, ph |-> "resend"]
           /\ stat = "DONE"
  BY DispatchEffect
<1>9. \A j \in jobs' : \/ j \in jobs
                       \/ /\ j.c = c /\ j.x = x
                          /\ stat = "NEW" \/ (stat = "DONE" /\ j.ph # "run")
  BY <1>8
<1>10. stat = "DONE" => Remembered(c, x)
  <2>1. stat = "DONE" => x \in present[c]
    BY DEF CheckDuplicate
  <2> QED
    BY <1>1, <1>3, <2>1 DEF Remembered
<1>11. stat = "NEW" => Remembered(c, x)'
  BY <1>4, <1>5 DEF Remembered
<1>12. stat = "NEW" /\ call[c][x].srv # 0 => ~Taken(c, x)
  BY <1>1, <1>4 DEF Once
<1>13. \A d \in Clients, y \in Xids :
         call[d][y].srv = nonce /\ Taken(d, y)' => Remembered(d, y)'
  <2> SUFFICES ASSUME NEW d \in Clients, NEW y \in Xids,
                      call[d][y].srv = nonce, Taken(d, y)'
               PROVE  Remembered(d, y)'
    OBVIOUS
  <2>1. CASE Taken(d, y)
    BY <2>1, <1>7 DEF Once
  <2>2. CASE ~Taken(d, y)
    <3>1. PICK j \in jobs' : j.c = d /\ j.x = y /\ j \notin jobs
      BY <2>2, <1>2 DEF Taken
    <3>2. d = c /\ y = x /\ (stat = "NEW" \/ stat = "DONE")
      BY <3>1, <1>9
    <3> QED
      BY <3>2, <1>1, <1>7, <1>10, <1>11
  <2> QED
    BY <2>1, <2>2
<1>14. \A j \in jobs' : call[j.c][j.x].srv \in {0, nonce}
  BY <1>1, <1>9 DEF Once
<1>15. \A j \in jobs' :
         j.ph = "run" /\ call[j.c][j.x].srv # 0 => execs[j.c][j.x] = 0
  <2>1. \A j \in jobs' : j \notin jobs /\ j.ph = "run" =>
          j.c = c /\ j.x = x /\ stat = "NEW"
    BY <1>9
  <2>2. ~Taken(c, x) => execs[c][x] = 0
    BY <1>1 DEF Taken, TypeOK
  <2>3. \A j \in jobs :
          j.ph = "run" /\ call[j.c][j.x].srv # 0 => execs[j.c][j.x] = 0
    BY DEF Once
  <2> QED
    BY <1>12, <2>1, <2>2, <2>3
<1>16. \A i, j \in jobs' :
         /\ i.c = j.c /\ i.x = j.x /\ i.ph = "run" /\ j.ph = "run"
         /\ call[i.c][i.x].srv # 0
         => i = j
  <2>1. \A j \in jobs' : j \notin jobs /\ j.ph = "run" =>
          /\ j = [c |-> c, x |-> x, conn |-> m.conn, ph |-> "run"]
          /\ j.c = c /\ j.x = x /\ stat = "NEW"
    BY <1>8
  <2>2. stat = "NEW" /\ call[c][x].srv # 0 =>
          \A j \in jobs : ~(j.c = c /\ j.x = x)
    BY <1>12 DEF Taken
  <2> QED
    BY <2>1, <2>2, Zenon DEF Once
<1> QED
  BY <1>2, <1>6, <1>13, <1>14, <1>15, <1>16, Zenon DEF Once, AtMostOnce
\* Every step keeps Once and AtMostOnce.
LEMMA OnceStep ==
  ASSUME TypeOK, TypeOK', Book, Nonced, Once, AtMostOnce, Next
  PROVE  Once' /\ AtMostOnce'
<1>1. ASSUME NEW c \in Clients, Bind(c) \/ StartCall(c)
      PROVE  Once' /\ AtMostOnce'
  <2>1. PICK srv \in Nonces : Call1(c, srv)
    BY <1>1, RpcAssumption
    DEF RpcAssumption, Bind, StartCall, TypeOK, Nonces
  <2>2. xid_[c] \in Xids /\ xid_[c] \in Int
    BY <2>1, RpcAssumption DEF RpcAssumption, TypeOK, Call1, Xids
  <2>3. \A d \in Clients, y \in Xids :
          d # c \/ y # xid_[c] => call'[d][y] = call[d][y]
    BY <2>1, BookCall1
  <2>4. UNCHANGED <<nonce, window, present, jobs, execs>>
    BY <2>1 DEF Call1, serverVars
  <2>5. \A j \in jobs : /\ j.c \in Clients /\ j.x \in Xids /\ j.x \in Int
                        /\ j.x < xid_[j.c]
    BY DEF TypeOK, Job, Xids, Book, Known
  <2>6. \A j \in jobs : call'[j.c][j.x] = call[j.c][j.x]
    BY <2>2, <2>3, <2>5
  <2>7. execs[c][xid_[c]] = 0
    BY <2>2 DEF Book, Numbered
  <2>8. ~Taken(c, xid_[c])
    BY <2>2, <2>5, <2>7 DEF Taken
  <2>9. \A d \in Clients, y \in Xids :
          /\ Taken(d, y)' <=> Taken(d, y)
          /\ Remembered(d, y)' <=> Remembered(d, y)
    BY <2>4 DEF Taken, Remembered
  <2>10. Once'
    <3>1. \A d \in Clients : present'[d] \subseteq window'[d]
      BY <2>4 DEF Once
    <3>2. \A j \in jobs' : call'[j.c][j.x].srv \in {0, nonce'}
      BY <2>4, <2>6 DEF Once
    <3>3. \A d \in Clients, y \in Xids :
            call'[d][y].srv = nonce' /\ Taken(d, y)' => Remembered(d, y)'
      <4>1. \A d \in Clients, y \in Xids :
              call[d][y].srv = nonce /\ Taken(d, y) => Remembered(d, y)
        BY DEF Once
      <4> QED
        BY <2>3, <2>4, <2>8, <2>9, <4>1
    <3>4. \A j \in jobs' :
            j.ph = "run" /\ call'[j.c][j.x].srv # 0 => execs'[j.c][j.x] = 0
      BY <2>4, <2>6, Zenon DEF Once
    <3>5. \A i, j \in jobs' :
            /\ i.c = j.c /\ i.x = j.x /\ i.ph = "run" /\ j.ph = "run"
            /\ call'[i.c][i.x].srv # 0
            => i = j
      BY <2>4, <2>6 DEF Once
    <3> QED
      BY <3>1, <3>2, <3>3, <3>4, <3>5, Zenon DEF Once
  <2>11. AtMostOnce'
    <3> SUFFICES ASSUME NEW d \in Clients, NEW y \in Xids, call'[d][y].srv # 0
                 PROVE  execs'[d][y] <= 1
      BY DEF AtMostOnce
    <3>1. CASE d = c /\ y = xid_[c]
      BY <2>4, <2>7, <3>1
    <3>2. CASE d # c \/ y # xid_[c]
      <4>1. call[d][y].srv # 0
        BY <2>3, <3>2
      <4> QED
        BY <2>4, <4>1 DEF AtMostOnce
    <3> QED
      BY <3>1, <3>2
  <2> QED
    BY <2>10, <2>11
<1>2. ASSUME NEW c \in Clients,
             \/ Cancel(c)
             \/ \E x \in Xids :
                  Retransmit(c, x) \/ Timeout(c, x) \/ Return(c, x)
      PROVE  Once' /\ AtMostOnce'
  <2>1. SameHeaders
    BY <1>2, HeadersKept
  <2> QED
    BY <1>2, <2>1, OnceClient, Zenon
    DEF Cancel, Retransmit, Timeout, Return, serverVars
<1>3. ASSUME NEW m \in reps, GotPdu(m) PROVE Once' /\ AtMostOnce'
  <2>1. m.c \in Clients
    BY DEF TypeOK, Reply
  <2>2. SameHeaders
    BY <1>3, <2>1, HeadersKept
  <2> QED
    BY <1>3, <2>2, OnceClient DEF GotPdu, serverVars
<1>4. ASSUME NEW c \in Clients, ConnDies(c) PROVE Once' /\ AtMostOnce'
  BY <1>4, OnceClient DEF ConnDies, clientVars, serverVars, SameHeaders
<1>5. ASSUME NEW m \in reqs, DispatchOld(m) PROVE Once' /\ AtMostOnce'
  BY <1>5, OnceClient DEF DispatchOld, clientVars, serverVars, SameHeaders
<1>6. ASSUME NEW m \in reqs, Dispatch(m) PROVE Once' /\ AtMostOnce'
  BY <1>6, OnceDispatch
<1>7. ASSUME NEW j \in jobs, RunHandler(j) PROVE Once' /\ AtMostOnce'
  <2>1. /\ nonce' = nonce /\ window' = window /\ call' = call
        /\ j.ph = "run"
        /\ execs' = [execs EXCEPT ![j.c][j.x] = @ + 1]
    BY <1>7 DEF RunHandler, clientVars
  <2>2. j.c \in Clients /\ j.x \in Xids
    BY DEF TypeOK, Job
  <2>3. /\ execs'[j.c][j.x] = execs[j.c][j.x] + 1
        /\ \A c \in Clients, x \in Xids :
             c # j.c \/ x # j.x => execs'[c][x] = execs[c][x]
        /\ execs[j.c][j.x] \in Nat
    BY <2>1, <2>2 DEF TypeOK
  <2>4. \A i \in jobs' :
          \/ i \in jobs /\ i # j
          \/ i.c = j.c /\ i.x = j.x /\ i.ph # "run"
    BY <1>7, RunHandlerEffect
  <2>5. \A c \in Clients : present'[c] \subseteq window'[c]
    <3>1. \/ present' = present
          \/ /\ j.x \in window[j.c]
             /\ present' = [present EXCEPT ![j.c] = @ \cup {j.x}]
      <4>1. CASE j.x \in window[j.c]
        BY <1>7, <4>1 DEF RunHandler
      <4>2. CASE j.x \notin window[j.c]
        <5>1. present' = [present EXCEPT ![j.c] = present[j.c]]
          BY <1>7, <4>2 DEF RunHandler
        <5> QED
          BY <2>2, <5>1 DEF TypeOK
      <4> QED
        BY <4>1, <4>2
    <3>2. \A c \in Clients :
            \/ present'[c] = present[c]
            \/ /\ c = j.c /\ j.x \in window[j.c]
               /\ present'[c] = present[c] \cup {j.x}
      BY <2>2, <3>1 DEF TypeOK
    <3>3. \A c \in Clients : present[c] \subseteq window[c]
      BY DEF Once
    <3> QED
      BY <2>1, <3>2, <3>3
  <2>6. \A c \in Clients, x \in Xids : Taken(c, x)' => Taken(c, x)
    BY <2>2, <2>3, <2>4 DEF Taken
  <2>7. \A c \in Clients, x \in Xids : Remembered(c, x)' <=> Remembered(c, x)
    BY <2>1 DEF Remembered
  <2>8. \A c \in Clients, x \in Xids :
          call'[c][x].srv = nonce' /\ Taken(c, x)' => Remembered(c, x)'
    BY <2>1, <2>6, <2>7 DEF Once
  <2>9. \A i \in jobs' : call'[i.c][i.x].srv \in {0, nonce'}
    BY <2>1, <2>4 DEF Once
  <2>10. \A i \in jobs' :
           i.ph = "run" /\ call'[i.c][i.x].srv # 0 => execs'[i.c][i.x] = 0
    <3> SUFFICES ASSUME NEW i \in jobs', i.ph = "run",
                        call[i.c][i.x].srv # 0
                 PROVE  execs'[i.c][i.x] = 0
      BY <2>1
    <3>1. i \in jobs /\ i # j /\ i.c \in Clients /\ i.x \in Xids
      BY <2>4 DEF TypeOK, Job
    <3>2. i.c # j.c \/ i.x # j.x
      BY <2>1, <3>1 DEF Once
    <3> QED
      BY <2>3, <3>1, <3>2 DEF Once
  <2>11. \A i, k \in jobs' :
           /\ i.c = k.c /\ i.x = k.x /\ i.ph = "run" /\ k.ph = "run"
           /\ call'[i.c][i.x].srv # 0
           => i = k
    BY <2>1, <2>4 DEF Once
  <2>12. AtMostOnce'
    <3>1. call[j.c][j.x].srv # 0 => execs[j.c][j.x] = 0
      BY <2>1 DEF Once
    <3> QED
      BY <2>1, <2>2, <2>3, <3>1 DEF AtMostOnce
  <2> QED
    BY <2>5, <2>8, <2>9, <2>10, <2>11, <2>12, Zenon DEF Once
<1>8. ASSUME NEW j \in jobs, Send(j) PROVE Once' /\ AtMostOnce'
  <2>1. /\ jobs' \subseteq jobs
        /\ UNCHANGED <<nonce, window, present, call, execs>>
    BY <1>8, Zenon DEF Send, clientVars
  <2>2. \A c \in Clients, x \in Xids :
          /\ Taken(c, x)' => Taken(c, x)
          /\ Remembered(c, x)' <=> Remembered(c, x)
    BY <2>1 DEF Taken, Remembered
  <2> QED
    BY <2>1, <2>2 DEF Once, AtMostOnce
<1>9. CASE Restart
  <2>1. /\ nonce' = nonce + 1 /\ jobs' = {} /\ call' = call
        /\ execs' = execs
        /\ present' = [c \in Clients |-> {}]
    BY <1>9 DEF Restart, clientVars
  <2>2. \A c \in Clients, x \in Xids : call[c][x].srv # nonce + 1
    <3>1. \A c \in Clients, x \in Xids :
            call[c][x].srv \in Int /\ call[c][x].srv <= nonce
      BY RpcAssumption
      DEF RpcAssumption, TypeOK, Call, Nonces, Nonced
    <3>2. nonce \in Int
      BY RpcAssumption DEF RpcAssumption, TypeOK, Nonces
    <3> QED
      BY <3>1, <3>2
  <2> QED
    BY <2>1, <2>2 DEF Once, AtMostOnce
<1> QED
  BY <1>1, <1>2, <1>3, <1>4, <1>5, <1>6, <1>7, <1>8, <1>9 DEF Next

\* The inductive invariant holds initially and is kept by every step.
LEMMA Inductive == Spec => []IInv
<1>1. Init => IInv
  <2> SUFFICES ASSUME Init PROVE IInv
    OBVIOUS
  <2>1. NoCall \in Call /\ NoCall.st = "none" /\ NoCall.srv = 0
        /\ NoCall.val = 0
    BY RpcAssumption
    DEF RpcAssumption, NoCall, NewCall, Call, Status, Ret, Nonces, Conns
  <2>2. TypeOK
    BY <2>1, RpcAssumption DEF RpcAssumption, Init, TypeOK, Nonces, Conns
  <2>3. Numbered
    <3>1. \A x \in Xids : x \in Nat /\ x > 0
      BY RpcAssumption DEF RpcAssumption, Xids
    <3>2. \A c \in Clients :
            /\ xid_[c] = 1 /\ xid_rep[c] = 0 /\ dup_req[c] = 0
            /\ ahead[c] = {}
            /\ \A x \in Xids : call[c][x] = NoCall /\ execs[c][x] = 0
      BY DEF Init
    <3>3. \A x \in Xids : ~(x < 1)
      BY <3>1
    <3>4. \A c \in Clients, x \in Xids :
            ~(x < xid_[c]) /\ ~(call[c][x].st # "none")
      BY <2>1, <3>2, <3>3
    <3>5. \A c \in Clients :
            /\ xid_rep[c] < xid_[c] /\ dup_req[c] < xid_[c]
            /\ \A x \in ahead[c] : x < xid_[c]
      <4> TAKE c \in Clients
      <4>1. xid_[c] = 1 /\ xid_rep[c] = 0 /\ dup_req[c] = 0
        BY <3>2
      <4>2. ahead[c] = {}
        BY <3>2
      <4> QED
        BY <4>1, <4>2
    <3> QED
      BY <3>2, <3>4, <3>5, Zenon DEF Numbered
  <2>4. Packed /\ Known /\ Nonced /\ AtMostOnce
    BY <2>1 DEF Init, Packed, Known, Nonced, AtMostOnce
  <2>5. Once
    BY <2>1 DEF Init, Once
  <2> QED
    BY <2>2, <2>3, <2>4, <2>5 DEF IInv
<1>2. IInv /\ [Next]_vars => IInv'
  <2> SUFFICES ASSUME IInv, [Next]_vars PROVE IInv'
    OBVIOUS
  <2>1. TypeOK'
    BY TypeStep DEF IInv
  <2>2. CASE Next
    <3>1. Book'
      BY <2>1, <2>2, BookStep DEF IInv, Book
    <3>2. Nonced'
      BY <2>1, <2>2, NoncedStep DEF IInv, Book
    <3>3. Once' /\ AtMostOnce'
      BY <2>1, <2>2, OnceStep DEF IInv, Book
    <3> QED
      BY <2>1, <3>1, <3>2, <3>3 DEF IInv, Book
  <2>3. CASE UNCHANGED vars
    <3>1. UNCHANGED <<xid_, srv_nonce, call, xid_rep, ahead, dup_req, nonce,
                      window, present, jobs, reqs, reps, execs>>
      BY <2>3 DEF vars, clientVars, serverVars
    <3>2. Numbered'
      BY <3>1 DEF IInv, Numbered
    <3>3. Packed' /\ Known'
      BY <3>1 DEF IInv, Packed, Known
    <3>4. Nonced'
      BY <3>1 DEF IInv, Nonced
    <3>5. SameHeaders
      BY <3>1 DEF SameHeaders
    <3>6. Once' /\ AtMostOnce'
      BY <3>1, <3>5, OnceClient DEF IInv
    <3> QED
      BY <2>1, <3>2, <3>3, <3>4, <3>6 DEF IInv
  <2> QED
    BY <2>2, <2>3
<1> QED
  BY <1>1, <1>2, PTL DEF Spec

\* At most once (rpcs::dispatch with checkduplicate_and_update): whatever is
\* retransmitted, delayed, reordered or lost, and however often the server
\* restarts, no call other than bind runs its handler twice.
THEOREM AtMostOnceHolds == Spec => []AtMostOnce
<1>1. IInv => AtMostOnce
  BY DEF IInv
<1> QED
  BY <1>1, Inductive, PTL
=============================================================================
