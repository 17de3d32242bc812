--------------------------- MODULE LockInvariants ---------------------------
(***************************************************************************)
(* The inductive invariant of the lock protocol, and when a step keeps it, *)
(* for any numbers of clients, threads, locks, workers and failed RPCs.    *)
(* LockProofs shows that every action is such a step.                      *)
(***************************************************************************)
EXTENDS LockProtocol, SequenceTheorems, TLAPS

(***************************************************************************)
(* The server alone                                                        *)
(***************************************************************************)

\* Each handler of the server keeps its types and never leaves clients
\* waiting for a lock that nobody holds.
LEMMA ServerKept ==
  ASSUME ServerTypeOK, FreeHasNoWaiters, [ServerNext]_serverVars
  PROVE  ServerTypeOK' /\ FreeHasNoWaiters'
<1>1. CASE UNCHANGED serverVars
  BY <1>1 DEF ServerTypeOK, FreeHasNoWaiters, serverVars
<1>2. ASSUME NEW c \in Clients, NEW l \in Locks, ServerAcquire(c, l)
      PROVE  ServerTypeOK' /\ FreeHasNoWaiters'
  <2>1. CASE /\ HeldByOther(c, l)
             /\ pendingers' = [pendingers EXCEPT ![l] = Append(@, c)]
             /\ UNCHANGED holder
    <3>1. Append(pendingers[l], c) \in Seq(Clients)
      BY AppendProperties DEF ServerTypeOK
    <3>2. QED BY <2>1, <3>1 DEF ServerTypeOK, FreeHasNoWaiters, HeldByOther
  <2>2. CASE /\ holder[l] = None /\ pendingers[l] = <<>>
             /\ holder' = [holder EXCEPT ![l] = c]
             /\ UNCHANGED pendingers
    BY <2>2, LockServerAssumption
    DEF ServerTypeOK, FreeHasNoWaiters, LockServerAssumption
  <2>3. CASE UNCHANGED serverVars
    BY <2>3 DEF ServerTypeOK, FreeHasNoWaiters, serverVars
  <2>4. QED BY <1>2, <2>1, <2>2, <2>3 DEF ServerAcquire
<1>3. ASSUME NEW c \in Clients, NEW l \in Locks, ServerRelease(c, l)
      PROVE  ServerTypeOK' /\ FreeHasNoWaiters'
  <2>1. CASE /\ HandsOver(c, l)
             /\ holder' = [holder EXCEPT ![l] = Head(pendingers[l])]
             /\ pendingers' = [pendingers EXCEPT ![l] = Tail(@)]
    <3>1. /\ Head(pendingers[l]) \in Clients
          /\ Tail(pendingers[l]) \in Seq(Clients)
      BY <2>1, HeadTailProperties DEF ServerTypeOK, HandsOver
    <3>2. QED BY <2>1, <3>1, LockServerAssumption
              DEF ServerTypeOK, FreeHasNoWaiters, LockServerAssumption
  <2>2. CASE /\ holder[l] = c /\ pendingers[l] = <<>>
             /\ holder' = [holder EXCEPT ![l] = None]
             /\ UNCHANGED pendingers
    BY <2>2 DEF ServerTypeOK, FreeHasNoWaiters
  <2>3. CASE UNCHANGED serverVars
    BY <2>3 DEF ServerTypeOK, FreeHasNoWaiters, serverVars
  <2>4. QED BY <1>3, <2>1, <2>2, <2>3 DEF ServerRelease
<1>4. QED BY <1>1, <1>2, <1>3 DEF ServerNext

LEMMA ServerStarts ==
  ASSUME ServerInit
  PROVE  ServerTypeOK /\ FreeHasNoWaiters
<1>1. <<>> \in Seq(Clients)
  BY EmptySeq
<1>2. QED BY <1>1 DEF ServerInit, ServerTypeOK, FreeHasNoWaiters

\* Whatever clients send, in any order, the server never has clients waiting
\* for a free lock: acquire's branch "Why there is not holding while having
\* penderings", which answers OK without granting the lock, is dead code.
THEOREM ServerFreeHasNoWaiters == ServerSpec => []FreeHasNoWaiters
<1>1. ServerInit => ServerTypeOK /\ FreeHasNoWaiters
  BY ServerStarts
<1>2. ServerTypeOK /\ FreeHasNoWaiters /\ [ServerNext]_serverVars
        => (ServerTypeOK /\ FreeHasNoWaiters)'
  BY ServerKept
<1>3. QED BY <1>1, <1>2, PTL DEF ServerSpec

(***************************************************************************)
(* Stacks of calls                                                         *)
(***************************************************************************)

Fns == {"acquire", "release"}
Handlers == {"revoke", "retry", "sacquire", "srelease"}
Replies == {"OK", "RETRY", "RETIRE", "ERR"}

\* The calls q of thread t: the outermost one is the application's, of the
\* client of t, and all but the innermost have been started.
Good(t, q) ==
  /\ q \in Seq(Frame)
  /\ \A i \in 1..Len(q) : (q[i].fn \in Fns) <=> (i = 1)
  /\ \A i \in 1..Len(q) : i < Len(q) => q[i].pc # "start"
  /\ q # <<>> => q[1].c = Owner[t]

\* q is a call of release(l) that has not started.
Starts(q, l) ==
  /\ q # <<>> /\ Len(q) = 1
  /\ q[1].fn = "release" /\ q[1].pc = "start" /\ q[1].l = l

\* Changing pc or r of the innermost frame leaves a well-formed stack.
LEMMA TopChanged ==
  ASSUME NEW t, NEW q, Good(t, q), q # <<>>, NEW f \in Frame,
         f.fn = q[Len(q)].fn, f.c = q[Len(q)].c
  PROVE  /\ Good(t, [q EXCEPT ![Len(q)] = f])
         /\ [q EXCEPT ![Len(q)] = f] # <<>>
         /\ Len([q EXCEPT ![Len(q)] = f]) = Len(q)
         /\ [q EXCEPT ![Len(q)] = f][Len(q)] = f
<1> DEFINE p == [q EXCEPT ![Len(q)] = f]
<1>1. q \in Seq(Frame) /\ Len(q) \in Nat \ {0}
  BY EmptySeq DEF Good
<1>2. Len(q) \in 1..Len(q)
  BY <1>1
<1>3. /\ p \in Seq(Frame) /\ Len(p) = Len(q)
      /\ \A j \in 1..Len(q) : p[j] = IF j = Len(q) THEN f ELSE q[j]
  BY <1>1, <1>2, ExceptSeq
<1> HIDE DEF p
<1>4. p # <<>>
  BY <1>1, <1>3, EmptySeq
<1>5. Good(t, p)
  BY <1>1, <1>2, <1>3, <1>4 DEF Good
<1>6. QED BY <1>2, <1>3, <1>4, <1>5 DEF p

\* The innermost function goes on at pc, or sees its RPC fail.
LEMMA GoingGood ==
  ASSUME NEW t, NEW q, Good(t, q), q # <<>>,
         NEW pc \in {"rpc", "rpc2", "wait", "woken"}
  PROVE  /\ Good(t, Going(q, pc)) /\ Good(t, Failing(q, pc))
         /\ Going(q, pc) # <<>> /\ Len(Going(q, pc)) = Len(q)
         /\ Going(q, pc)[Len(q)].pc = pc
         /\ \A l : ~Starts(Going(q, pc), l) /\ ~Starts(Failing(q, pc), l)
<1> DEFINE n == Len(q)
           f == [q[n] EXCEPT !.pc = pc]
           g == [q[n] EXCEPT !.pc = pc, !.r = "ERR"]
<1>1. n \in 1..n /\ q \in Seq(Frame)
  BY EmptySeq DEF Good
<1>2. q[n] \in Frame
  BY <1>1, ElementOfSeq
<1>3. /\ f \in Frame /\ f.fn = q[n].fn /\ f.c = q[n].c /\ f.pc = pc
      /\ g \in Frame /\ g.fn = q[n].fn /\ g.c = q[n].c /\ g.pc = pc
  BY <1>2, Zenon DEF Frame
<1>4. /\ Going(q, pc) = [q EXCEPT ![Len(q)] = f]
      /\ Failing(q, pc) = [q EXCEPT ![Len(q)] = g]
  BY DEF Going, Failing
<1> HIDE DEF f, g
<1>5. /\ Good(t, Going(q, pc)) /\ Going(q, pc) # <<>>
      /\ Len(Going(q, pc)) = n /\ Going(q, pc)[n] = f
  <2>1. /\ Good(t, [q EXCEPT ![Len(q)] = f])
        /\ [q EXCEPT ![Len(q)] = f] # <<>>
        /\ Len([q EXCEPT ![Len(q)] = f]) = Len(q)
        /\ [q EXCEPT ![Len(q)] = f][Len(q)] = f
    BY <1>3, TopChanged, Zenon
  <2>2. QED BY <1>4, <2>1, Zenon
<1>6. /\ Good(t, Failing(q, pc)) /\ Len(Failing(q, pc)) = n
      /\ Failing(q, pc)[n] = g
  <2>1. /\ Good(t, [q EXCEPT ![Len(q)] = g])
        /\ Len([q EXCEPT ![Len(q)] = g]) = Len(q)
        /\ [q EXCEPT ![Len(q)] = g][Len(q)] = g
    BY <1>3, TopChanged, Zenon
  <2>2. QED BY <1>4, <2>1, Zenon
<1>7. \A l : ~Starts(Going(q, pc), l) /\ ~Starts(Failing(q, pc), l)
  BY <1>3, <1>5, <1>6 DEF Starts
<1>8. QED BY <1>3, <1>5, <1>6, <1>7

\* The innermost function calls a handler.
LEMMA CallingGood ==
  ASSUME NEW t, NEW q, Good(t, q), q # <<>>, NEW pc \in {"rpc", "rpc2"},
         NEW fn \in Handlers, NEW c \in Clients, NEW l \in Locks
  PROVE  /\ Good(t, Calling(q, pc, fn, c, l))
         /\ \A m : ~Starts(Calling(q, pc, fn, c, l), m)
<1> DEFINE p == Going(q, pc)
           f == NewFrame(fn, c, l)
           a == Calling(q, pc, fn, c, l)
<1>1. Good(t, p) /\ p # <<>> /\ Len(p) = Len(q) /\ p[Len(q)].pc = pc
  <2>1. pc \in {"rpc", "rpc2", "wait", "woken"}
    OBVIOUS
  <2>2. QED BY <2>1, GoingGood, Zenon
<1>2. f \in Frame /\ f.fn = fn
  BY DEF NewFrame, Frame, Handlers
<1>3. a = Append(p, f)
  BY DEF Calling
<1> HIDE DEF p, f, a
<1>4. p \in Seq(Frame) /\ Len(p) \in Nat \ {0}
  BY <1>1, EmptySeq DEF Good
<1>5. /\ a \in Seq(Frame) /\ a # <<>> /\ Len(a) = Len(p) + 1
      /\ \A i \in 1..Len(p) : a[i] = p[i]
      /\ a[Len(p) + 1] = f
  BY <1>2, <1>3, <1>4, AppendProperties
<1>6. f.fn \notin Fns
  BY <1>2 DEF Handlers, Fns
<1>7. Good(t, a)
  <2>1. \A i \in 1..Len(a) : (a[i].fn \in Fns) <=> (i = 1)
    BY <1>1, <1>4, <1>5, <1>6 DEF Good
  <2>2. \A i \in 1..Len(a) : i < Len(a) => a[i].pc # "start"
    BY <1>1, <1>4, <1>5 DEF Good
  <2>3. a[1].c = Owner[t]
    BY <1>1, <1>4, <1>5 DEF Good
  <2>4. QED BY <1>5, <2>1, <2>2, <2>3, Zenon DEF Good
<1>8. \A m : ~Starts(a, m)
  BY <1>4, <1>5 DEF Starts
<1>9. QED BY <1>7, <1>8 DEF a

\* The application's call returns.
LEMMA FrontEmpty ==
  ASSUME NEW t, NEW q, Good(t, q), q # <<>>, q[Len(q)].fn \in Fns
  PROVE  Len(q) = 1 /\ Front(q) = <<>>
<1>1. q \in Seq(Frame) /\ Len(q) \in 1..Len(q) /\ Len(q) \in Nat
  BY EmptySeq DEF Good
<1>2. Len(q) = 1
  BY <1>1, Zenon DEF Good
<1>3. Front(q) = <<>>
  BY <1>2, SubSeqEmpty DEF Front
<1>4. QED BY <1>2, <1>3

\* A handler returns.
LEMMA AnsweredGood ==
  ASSUME NEW t, NEW q, Good(t, q), q # <<>>, q[Len(q)].fn \notin Fns,
         NEW a \in Replies
  PROVE  /\ Good(t, Answered(q, a))
         /\ \A l : ~Starts(Answered(q, a), l)
<1> DEFINE n == Len(q) - 1
           p == Front(q)
           f == [p[n] EXCEPT !.r = a]
<1>1. q \in Seq(Frame) /\ Len(q) \in Nat \ {0}
  BY EmptySeq DEF Good
<1>2. n \in Nat \ {0}
  BY <1>1 DEF Good
<1>3. \A i \in 1..n : q[i] \in Frame
  BY <1>1, ElementOfSeq
<1>4. /\ p \in Seq(Frame) /\ Len(p) = n /\ \A i \in 1..n : p[i] = q[i]
  <2>1. 1 \in Int /\ n \in Int /\ n - 1 + 1 = n /\ 1 <= n
    BY <1>1, <1>2
  <2>2. /\ SubSeq(q, 1, n) \in Seq(Frame)
        /\ Len(SubSeq(q, 1, n)) = IF 1 <= n THEN n - 1 + 1 ELSE 0
        /\ \A i \in 1..n - 1 + 1 : SubSeq(q, 1, n)[i] = q[1 + i - 1]
    <3>1. \A i \in 1..n : q[i] \in Frame
      BY <1>3
    <3> HIDE DEF n
    <3>2. QED BY <2>1, <3>1, SubSeqProperties
  <2>3. p = SubSeq(q, 1, n)
    BY DEF Front
  <2>4. QED BY <1>2, <2>1, <2>2, <2>3
<1> HIDE DEF p
<1>5. p # <<>>
  BY <1>2, <1>4, EmptySeq
<1>6. Good(t, p) /\ p[n].pc # "start"
  BY <1>1, <1>2, <1>4, <1>5 DEF Good
<1>7. p[n] \in Frame
  BY <1>2, <1>3, <1>4
<1>8. f \in Frame /\ f.fn = p[n].fn /\ f.c = p[n].c /\ f.pc = p[n].pc
  BY <1>7 DEF Frame, Replies
<1>9. Answered(q, a) = [p EXCEPT ![Len(p)] = f]
  BY <1>4 DEF Answered, p
<1> HIDE DEF f
<1>10. /\ Good(t, Answered(q, a)) /\ Len(Answered(q, a)) = n
       /\ Answered(q, a)[n] = f
  <2>1. f \in Frame /\ f.fn = p[Len(p)].fn /\ f.c = p[Len(p)].c
    BY <1>4, <1>8
  <2>2. /\ Good(t, [p EXCEPT ![Len(p)] = f])
        /\ Len([p EXCEPT ![Len(p)] = f]) = Len(p)
        /\ [p EXCEPT ![Len(p)] = f][Len(p)] = f
    BY <1>5, <1>6, <2>1, TopChanged, Zenon
  <2>3. QED BY <1>4, <1>9, <2>2
<1>11. QED BY <1>6, <1>8, <1>10 DEF Starts

(***************************************************************************)
(* The inductive invariant                                                 *)
(***************************************************************************)

Stacks(s) == s \in [Threads -> Seq(Frame)] /\ \A u \in Threads : Good(u, s[u])

\* Thread t has lock l, or has called release(l) and not started it.
Using(t, l) == l \in has[t] \/ Starts(stack[t], l)

\* A lock a thread uses is LOCKED at its client, only one thread of the
\* client uses it, and no thread releases a lock it still has.
Users ==
  /\ \A t \in Threads, l \in Locks : Using(t, l) => state[Owner[t]][l] = "LOCKED"
  /\ \A t, u \in Threads, l \in Locks :
       Using(t, l) /\ Using(u, l) /\ Owner[t] = Owner[u] => t = u
  /\ \A t \in Threads, l \in Locks : Starts(stack[t], l) => l \notin has[t]

IInv == TypeOK /\ FreeHasNoWaiters /\ Stacks(stack) /\ Users

\* The calls s follow from a step of t, which leaves t in no unstarted
\* release and starts none in other threads.
Settles(s, t) ==
  /\ Stacks(s)
  /\ \A l \in Locks : ~Starts(s[t], l)
  /\ \A u \in Threads \ {t} : \A l \in Locks : Starts(s[u], l) => Starts(stack[u], l)

LEMMA Replaced ==
  ASSUME Stacks(stack), NEW t \in Threads, NEW q, Good(t, q),
         \A l \in Locks : ~Starts(q, l)
  PROVE  Settles([stack EXCEPT ![t] = q], t)
<1>1. q \in Seq(Frame)
  BY DEF Good
<1>2. QED BY <1>1 DEF Stacks, Settles

LEMMA ReturnSettles ==
  ASSUME Stacks(stack), NEW t \in Threads, stack[t] # <<>>, Top(t).fn \in Fns
  PROVE  Settles(Returned(t), t)
<1>1. Front(stack[t]) = <<>>
  BY FrontEmpty DEF Stacks, Top
<1>2. Good(t, <<>>) /\ \A l \in Locks : ~Starts(<<>>, l)
  BY EmptySeq DEF Good, Starts
<1>3. Settles([stack EXCEPT ![t] = <<>>], t)
  BY <1>2, Replaced
<1>4. QED BY <1>1, <1>3 DEF Returned

LEMMA GotoSettles ==
  ASSUME Stacks(stack), NEW t \in Threads, stack[t] # <<>>
  PROVE  \A pc \in {"rpc", "rpc2", "wait", "woken"} : Settles(Goto(stack, t, pc), t)
<1> TAKE pc \in {"rpc", "rpc2", "wait", "woken"}
<1>1. Good(t, Going(stack[t], pc)) /\ \A l \in Locks : ~Starts(Going(stack[t], pc), l)
  BY GoingGood DEF Stacks
<1>2. Settles([stack EXCEPT ![t] = Going(stack[t], pc)], t)
  BY <1>1, Replaced
<1>3. QED BY <1>2 DEF Goto

LEMMA RpcSettles ==
  ASSUME Stacks(stack), fails \in 0..MaxFail, NEW t \in Threads, stack[t] # <<>>,
         NEW pc \in {"rpc", "rpc2"}, NEW fn \in Handlers,
         NEW c \in Clients, NEW l \in Locks, Rpc(t, pc, fn, c, l)
  PROVE  Settles(stack', t) /\ fails' \in 0..MaxFail
<1>0. pc \in {"rpc", "rpc2", "wait", "woken"} /\ Good(t, stack[t])
  BY DEF Stacks
<1>1. CASE stack' = [stack EXCEPT ![t] = Calling(@, pc, fn, c, l)] /\ UNCHANGED fails
  <2>1. /\ Good(t, Calling(stack[t], pc, fn, c, l))
        /\ \A m \in Locks : ~Starts(Calling(stack[t], pc, fn, c, l), m)
    BY <1>0, CallingGood
  <2>2. Settles([stack EXCEPT ![t] = Calling(stack[t], pc, fn, c, l)], t)
    BY <2>1, Replaced
  <2>3. QED BY <1>1, <2>2
<1>2. CASE /\ fails < MaxFail /\ fails' = fails + 1
           /\ stack' = [stack EXCEPT ![t] = Failing(@, pc)]
  <2>1. /\ Good(t, Failing(stack[t], pc))
        /\ \A m \in Locks : ~Starts(Failing(stack[t], pc), m)
    BY <1>0, GoingGood
  <2>2. Settles([stack EXCEPT ![t] = Failing(stack[t], pc)], t)
    BY <2>1, Replaced
  <2>3. fails' \in 0..MaxFail
    BY <1>2, LockProtocolAssumption DEF LockProtocolAssumption
  <2>4. QED BY <1>2, <2>2, <2>3
<1>3. QED BY <1>1, <1>2 DEF Rpc

LEMMA RepliedSettles ==
  ASSUME Stacks(stack), NEW t \in Threads, stack[t] # <<>>, Top(t).fn \notin Fns,
         NEW a \in Replies
  PROVE  Settles(Replied(t, a), t)
<1>1. /\ Good(t, Answered(stack[t], a))
      /\ \A l \in Locks : ~Starts(Answered(stack[t], a), l)
  BY AnsweredGood DEF Stacks, Top
<1>2. Settles([stack EXCEPT ![t] = Answered(stack[t], a)], t)
  BY <1>1, Replaced
<1>3. QED BY <1>2 DEF Replied

LEMMA DeliveredType ==
  ASSUME fails \in 0..MaxFail, NEW r, NEW a, Delivered(r, a)
  PROVE  fails' \in 0..MaxFail
BY LockProtocolAssumption DEF LockProtocolAssumption, Delivered

LEMMA ReplySettles ==
  ASSUME Stacks(stack), fails \in 0..MaxFail, NEW t \in Threads, stack[t] # <<>>,
         Top(t).fn \notin Fns, NEW r \in Replies, Reply(t, r)
  PROVE  Settles(stack', t) /\ fails' \in 0..MaxFail
<1>1. PICK a \in {r, "ERR"} : Delivered(r, a) /\ stack' = Replied(t, a)
  BY DEF Reply
<1>2. a \in Replies
  BY DEF Replies
<1>3. Settles(Replied(t, a), t)
  BY <1>2, RepliedSettles
<1>4. QED BY <1>1, <1>3, DeliveredType

\* pthread_cond_signal wakes a thread that waits, which is in no unstarted
\* release.
LEMMA SignalSettles ==
  ASSUME NEW t \in Threads, NEW s, Settles(s, t), NEW c, NEW l, Signal(s, c, l)
  PROVE  Settles(stack', t)
<1>1. CASE stack' = s
  BY <1>1
<1>2. ASSUME NEW u \in Threads, s[u] # <<>>, stack' = Goto(s, u, "woken")
      PROVE  Settles(stack', t)
  <2> DEFINE q == Going(s[u], "woken")
  <2>1. Good(u, q) /\ \A m \in Locks : ~Starts(q, m)
    <3>1. Good(u, s[u]) /\ "woken" \in {"rpc", "rpc2", "wait", "woken"}
      BY DEF Settles, Stacks
    <3>2. QED BY <1>2, <3>1, GoingGood, Zenon
  <2>2. stack' = [s EXCEPT ![u] = q]
    BY <1>2 DEF Goto
  <2> HIDE DEF q
  <2>3. q \in Seq(Frame)
    BY <2>1 DEF Good
  <2>4. Stacks(stack')
    BY <2>1, <2>2, <2>3 DEF Settles, Stacks
  <2>5. \A m \in Locks : ~Starts(stack'[t], m)
    BY <2>1, <2>2 DEF Settles, Stacks
  <2>6. \A v \in Threads \ {t} : \A m \in Locks :
          Starts(stack'[v], m) => Starts(stack[v], m)
    BY <2>1, <2>2 DEF Settles, Stacks
  <2>7. QED BY <2>4, <2>5, <2>6 DEF Settles
<1>3. QED BY <1>1, <1>2 DEF Signal, Waiters

(***************************************************************************)
(* What a step of thread t does                                            *)
(***************************************************************************)

\* The state of locks changes, but no lock leaves LOCKED.
KeepsLocked ==
  /\ state' \in [Clients -> [Locks -> State]]
  /\ \A c \in Clients, l \in Locks :
       state[c][l] = "LOCKED" => state'[c][l] = "LOCKED"

\* acquire(l) returns to thread t: the lock was not LOCKED before.
Locks1(t, l) ==
  /\ state[Owner[t]][l] # "LOCKED"
  /\ state' = [state EXCEPT ![Owner[t]][l] = "LOCKED"]
  /\ has' = [has EXCEPT ![t] = @ \cup {l}]

\* release(l) of thread t starts.
Unlocks1(t, l, s) ==
  /\ Starts(stack[t], l)
  /\ state' = [state EXCEPT ![Owner[t]][l] = s]
  /\ has' = has

Effect(t) ==
  /\ Settles(stack', t)
  /\ fails' \in 0..MaxFail
  /\ revoked' \in [Clients -> [Locks -> BOOLEAN]]
  /\ [ServerNext]_serverVars
  /\ \/ has' = has /\ KeepsLocked
     \/ \E l \in Locks : Locks1(t, l)
     \/ \E l \in Locks : \E s \in State : Unlocks1(t, l, s)

LEMMA OwnerType ==
  ASSUME NEW t \in Threads
  PROVE  Owner[t] \in Clients
BY LockProtocolAssumption DEF LockProtocolAssumption

\* Changing the state of a lock that is not LOCKED.
LEMMA SetKeeps ==
  ASSUME TypeOK, NEW c \in Clients, NEW l \in Locks, NEW s \in State,
         SetState(c, l, s), state[c][l] # "LOCKED"
  PROVE  KeepsLocked
BY DEF TypeOK, SetState, KeepsLocked

LEMMA SameKeeps ==
  ASSUME TypeOK, state' = state
  PROVE  KeepsLocked
BY DEF TypeOK, KeepsLocked

LEMMA RevokedType ==
  ASSUME TypeOK, NEW c \in Clients, NEW l \in Locks, NEW b \in BOOLEAN,
         SetRevoked(c, l, b)
  PROVE  revoked' \in [Clients -> [Locks -> BOOLEAN]]
BY DEF TypeOK, SetRevoked

\* Such a step preserves the invariant.
LEMMA EffectKeeps ==
  ASSUME IInv, NEW t \in Threads, Effect(t)
  PROVE  IInv'
<1>0. /\ TypeOK /\ Stacks(stack) /\ Users /\ FreeHasNoWaiters
      /\ Settles(stack', t) /\ Owner[t] \in Clients
  BY OwnerType DEF IInv, Effect
<1>1. ServerTypeOK' /\ FreeHasNoWaiters'
  <2>1. ServerTypeOK
    BY <1>0 DEF TypeOK
  <2>2. QED BY <1>0, <2>1, ServerKept DEF Effect
<1>2. Stacks(stack)' /\ stack' \in [Threads -> Seq(Frame)]
  BY <1>0 DEF Settles, Stacks
<1>3. /\ state \in [Clients -> [Locks -> State]]
      /\ has \in [Threads -> SUBSET Locks]
  BY <1>0 DEF TypeOK
<1>4. \A u \in Threads \ {t} : \A l \in Locks : Starts(stack'[u], l) => Starts(stack[u], l)
  BY <1>0 DEF Settles
<1>5. \A l \in Locks : ~Starts(stack'[t], l)
  BY <1>0 DEF Settles
<1>6. \A u \in Threads : Owner[u] \in Clients
  BY OwnerType
<1>7. CASE has' = has /\ KeepsLocked
  <2>1. \A u \in Threads, l \in Locks : Using(u, l)' => Using(u, l)
    BY <1>4, <1>5, <1>7 DEF Using
  <2>2. Users'
    BY <1>0, <1>4, <1>5, <1>6, <1>7, <2>1 DEF Users, KeepsLocked
  <2>3. QED BY <1>1, <1>2, <1>3, <1>7, <2>2 DEF IInv, TypeOK, Effect, KeepsLocked
<1>8. ASSUME NEW l \in Locks, Locks1(t, l)
      PROVE  IInv'
  <2>1. \A u \in Threads, m \in Locks :
          Using(u, m)' => Using(u, m) \/ (u = t /\ m = l)
    BY <1>3, <1>4, <1>5, <1>8 DEF Using, Locks1
  <2>2. \A u \in Threads : Owner[u] = Owner[t] => ~Using(u, l)
    BY <1>0, <1>8 DEF Users, Locks1
  <2>3. \A c \in Clients, m \in Locks :
          state'[c][m] = IF c = Owner[t] /\ m = l THEN "LOCKED" ELSE state[c][m]
    BY <1>0, <1>3, <1>8 DEF Locks1
  <2>4. \A u \in Threads, m \in Locks : Using(u, m)' => state'[Owner[u]][m] = "LOCKED"
    BY <1>0, <1>6, <2>1, <2>3 DEF Users
  <2>5. \A u, v \in Threads, m \in Locks :
          Using(u, m)' /\ Using(v, m)' /\ Owner[u] = Owner[v] => u = v
    BY <1>0, <2>1, <2>2 DEF Users
  <2>6. \A u \in Threads, m \in Locks : Starts(stack'[u], m) => m \notin has'[u]
    BY <1>0, <1>3, <1>4, <1>5, <1>8 DEF Users, Locks1
  <2>7. Users'
    BY <2>4, <2>5, <2>6 DEF Users
  <2>8. /\ state' \in [Clients -> [Locks -> State]]
        /\ has' \in [Threads -> SUBSET Locks]
    BY <1>3, <1>8, Zenon DEF Locks1, State
  <2>9. QED BY <1>1, <1>2, <2>7, <2>8 DEF IInv, TypeOK, Effect
<1>9. ASSUME NEW l \in Locks, NEW s \in State, Unlocks1(t, l, s)
      PROVE  IInv'
  <2>1. \A u \in Threads, m \in Locks : Using(u, m)' => Using(u, m)
    BY <1>4, <1>5, <1>9 DEF Using, Unlocks1
  <2>2. \A u \in Threads : Owner[u] = Owner[t] => ~Using(u, l)'
    <3>1. SUFFICES ASSUME NEW u \in Threads, Owner[u] = Owner[t], Using(u, l)'
                   PROVE  FALSE
      OBVIOUS
    <3>2. Using(u, l) /\ Using(t, l)
      BY <1>9, <2>1, <3>1 DEF Using, Unlocks1
    <3>3. u = t
      BY <1>0, <3>1, <3>2 DEF Users
    <3>4. l \in has[t]
      BY <1>5, <1>9, <3>1, <3>3 DEF Using, Unlocks1
    <3>5. QED BY <1>0, <1>9, <3>4 DEF Users, Unlocks1
  <2>3. \A c \in Clients, m \in Locks :
          state'[c][m] = IF c = Owner[t] /\ m = l THEN s ELSE state[c][m]
    BY <1>0, <1>3, <1>9 DEF Unlocks1
  <2>4. \A u \in Threads, m \in Locks : Using(u, m)' => state'[Owner[u]][m] = "LOCKED"
    BY <1>0, <1>6, <2>1, <2>2, <2>3 DEF Users
  <2>5. \A u, v \in Threads, m \in Locks :
          Using(u, m)' /\ Using(v, m)' /\ Owner[u] = Owner[v] => u = v
    BY <1>0, <2>1 DEF Users
  <2>6. \A u \in Threads, m \in Locks : Starts(stack'[u], m) => m \notin has'[u]
    BY <1>0, <1>4, <1>5, <1>9 DEF Users, Unlocks1
  <2>7. Users'
    BY <2>4, <2>5, <2>6 DEF Users
  <2>8. /\ state' \in [Clients -> [Locks -> State]]
        /\ has' \in [Threads -> SUBSET Locks]
    BY <1>3, <1>9, Zenon DEF Unlocks1
  <2>9. QED BY <1>1, <1>2, <2>7, <2>8 DEF IInv, TypeOK, Effect
<1>10. QED BY <1>7, <1>8, <1>9 DEF Effect
=============================================================================
