---------------------------- MODULE LockProtocol ----------------------------
(***************************************************************************)
(* The caching lock clients, src/src/client/lock_client_cache.cc, with the *)
(* lock server of LockServerCache.                                         *)
(*                                                                         *)
(* All calls between them are synchronous RPCs, and handlers make calls of *)
(* their own: a client's acquire may wait for the server's revoke of the   *)
(* holder, which waits for the holder's release, which waits for the       *)
(* server's retry of the next client, which waits for that client's        *)
(* acquire.  stack[t] is the chain of calls that application thread t      *)
(* waits for, outermost first, across all machines.  A step is what the    *)
(* innermost function does while it holds its lock_m_: pushing a frame is  *)
(* sending a request, popping one is sending the reply.                    *)
(***************************************************************************)
EXTENDS LockServerCache, FiniteSets, SequencesExt

CONSTANTS
  Threads,   \* application threads
  Owner,     \* the client a thread belongs to
  MaxFail,   \* bound: RPCs that fail
  Workers,   \* threads of the server's dispatch pool, ThrPool(6)
  Overlap    \* may acquire find the lock RELEASING?

ASSUME LockProtocolAssumption ==
  /\ Owner \in [Threads -> Clients]
  /\ MaxFail \in Nat
  /\ Workers \in Nat \ {0}
  /\ Overlap \in BOOLEAN

VARIABLES
  state,     \* lsm_[l].state of each client
  revoked,   \* lsm_[l].is_revoked of each client
  stack,     \* the calls a thread waits for
  has,       \* locks whose acquire returned OK to the thread
  fails      \* RPCs that failed so far

vars == <<holder, pendingers, state, revoked, stack, has, fails>>

State == {"NONE", "FREE", "LOCKED", "ACQUIRING", "RELEASING"}

\* A frame: function fn of client c (fn "sacquire" and "srelease": of the
\* server, for c) about to go on at pc; r is the reply to its last RPC.
\* pc "rpc2" is the wait of release for the acquire it sends (need_send).
Frame == [fn : {"acquire", "release", "revoke", "retry", "sacquire", "srelease"},
          pc : {"start", "rpc", "rpc2", "wait", "woken"},
          c : Clients, l : Locks, r : {"OK", "RETRY", "RETIRE", "ERR"}]
NewFrame(fn, c, l) == [fn |-> fn, pc |-> "start", c |-> c, l |-> l, r |-> "OK"]

Init ==
  /\ ServerInit
  /\ state = [c \in Clients |-> [l \in Locks |-> "NONE"]]
  /\ revoked = [c \in Clients |-> [l \in Locks |-> FALSE]]
  /\ stack = [t \in Threads |-> <<>>]
  /\ has = [t \in Threads |-> {}]
  /\ fails = 0

-----------------------------------------------------------------------------
(* Calls and waiting *)

Top(t) == stack[t][Len(stack[t])]
At(t, fn, pc) == stack[t] # <<>> /\ Top(t).fn = fn /\ Top(t).pc = pc

\* Calls q: the innermost function goes on at pc; it waits there for function
\* fn of c; it sees at pc that its RPC failed; it returns a to its caller.
Going(q, pc) == [q EXCEPT ![Len(q)] = [@ EXCEPT !.pc = pc]]
Calling(q, pc, fn, c, l) == Append(Going(q, pc), NewFrame(fn, c, l))
Failing(q, pc) == [q EXCEPT ![Len(q)] = [@ EXCEPT !.pc = pc, !.r = "ERR"]]
Answered(q, a) == [Front(q) EXCEPT ![Len(q) - 1] = [@ EXCEPT !.r = a]]

Goto(s, t, pc) == [s EXCEPT ![t] = Going(@, pc)]

\* An RPC, which fails at once when the peer cannot be reached or bound.
Rpc(t, pc, fn, c, l) ==
  \/ /\ stack' = [stack EXCEPT ![t] = Calling(@, pc, fn, c, l)]
     /\ UNCHANGED fails
  \/ /\ fails < MaxFail
     /\ fails' = fails + 1
     /\ stack' = [stack EXCEPT ![t] = Failing(@, pc)]

\* The innermost function returns to the application.
Returned(t) == [stack EXCEPT ![t] = Front(@)]
Return(t) == stack' = Returned(t)

\* The answer a that a reply r becomes: the caller sees a failure when the
\* reply is lost.
Delivered(r, a) ==
  \/ a = r /\ UNCHANGED fails
  \/ a = "ERR" /\ fails < MaxFail /\ fails' = fails + 1

\* A handler replies r.
Replied(t, a) == [stack EXCEPT ![t] = Answered(@, a)]
Reply(t, r) == \E a \in {r, "ERR"} : Delivered(r, a) /\ stack' = Replied(t, a)

SetState(c, l, s) == state' = [state EXCEPT ![c][l] = s]
SetRevoked(c, l, b) == revoked' = [revoked EXCEPT ![c][l] = b]

\* Threads in pthread_cond_wait on lsm_[l].cond of client c.
Waiters(s, c, l) ==
  {u \in Threads : s[u] # <<>> /\
     LET f == Last(s[u]) IN f.pc = "wait" /\ f.c = c /\ f.l = l}

\* pthread_cond_signal, with the calls s.
Signal(s, c, l) ==
  IF Waiters(s, c, l) = {} THEN stack' = s
  ELSE \E u \in Waiters(s, c, l) : stack' = Goto(s, u, "woken")

\* waiting_threads: one counter for all locks of the client.  A thread that
\* was signalled counts until it has the mutex again.
WaitingThreads(c) ==
  Cardinality({u \in Threads : stack[u] # <<>> /\
                 Top(u).pc \in {"wait", "woken"} /\ Top(u).c = c})

-----------------------------------------------------------------------------
(* lock_client_cache *)

\* A thread calls acquire(l).
CallAcquire(t, l) ==
  /\ stack[t] = <<>> /\ has[t] = {}
  /\ stack' = [stack EXCEPT ![t] = <<NewFrame("acquire", Owner[t], l)>>]
  /\ UNCHANGED <<serverVars, state, revoked, has, fails>>

\* Faulty acquire: takes a LOCKED lock as it takes a FREE one.
AcquireSwitchLocked(t, c, l) ==
  \/ /\ state[c][l] = "NONE"
     /\ SetState(c, l, "ACQUIRING")
     /\ Rpc(t, "rpc", "sacquire", c, l)
     /\ UNCHANGED has
  \/ /\ state[c][l] \in {"FREE", "LOCKED"}
     /\ SetState(c, l, "LOCKED")
     /\ has' = [has EXCEPT ![t] = @ \cup {l}]
     /\ Return(t)
     /\ UNCHANGED fails
  \/ /\ state[c][l] = "ACQUIRING"
     /\ stack' = Goto(stack, t, "wait")
     /\ UNCHANGED <<state, has, fails>>

\* The switch of acquire's loop.
AcquireSwitch(t, c, l) ==
  \/ /\ state[c][l] = "NONE" \/ (state[c][l] = "RELEASING" /\ Overlap)
     /\ SetState(c, l, "ACQUIRING")
     /\ Rpc(t, "rpc", "sacquire", c, l)
     /\ UNCHANGED has
  \/ /\ state[c][l] = "FREE"
     /\ SetState(c, l, "LOCKED")
     /\ has' = [has EXCEPT ![t] = @ \cup {l}]
     /\ Return(t)
     /\ UNCHANGED fails
  \/ /\ state[c][l] \in {"LOCKED", "ACQUIRING"}
     /\ stack' = Goto(stack, t, "wait")
     /\ UNCHANGED <<state, has, fails>>

\* acquire enters its loop, or comes back from pthread_cond_wait.
Acquire(t) ==
  /\ At(t, "acquire", "start") \/ At(t, "acquire", "woken")
  /\ AcquireSwitch(t, Top(t).c, Top(t).l)
  /\ UNCHANGED <<serverVars, revoked>>

\* acquire comes back from the acquire RPC.
AcquireBack(t) ==
  /\ At(t, "acquire", "rpc")
  /\ LET c == Top(t).c
         l == Top(t).l
         r == Top(t).r
     IN \/ /\ r = "ERR"
           /\ Return(t)
           /\ UNCHANGED <<state, revoked, has, fails>>
        \/ /\ r # "ERR" /\ state[c][l] # "ACQUIRING"
           /\ AcquireSwitch(t, c, l)
           /\ UNCHANGED revoked
        \/ /\ r = "RETRY" /\ state[c][l] = "ACQUIRING"
           /\ SetState(c, l, "NONE")
           /\ stack' = Goto(stack, t, "wait")
           /\ UNCHANGED <<revoked, has, fails>>
        \/ /\ r \in {"OK", "RETIRE"} /\ state[c][l] = "ACQUIRING"
           /\ revoked[c][l]
           /\ SetRevoked(c, l, FALSE)
           /\ Rpc(t, "rpc", "sacquire", c, l)
           /\ UNCHANGED <<state, has>>
        \/ /\ r \in {"OK", "RETIRE"} /\ state[c][l] = "ACQUIRING"
           /\ ~revoked[c][l]
           /\ SetState(c, l, "LOCKED")
           /\ SetRevoked(c, l, r = "RETIRE")
           /\ has' = [has EXCEPT ![t] = @ \cup {l}]
           /\ Return(t)
           /\ UNCHANGED fails
  /\ UNCHANGED serverVars

\* pthread_cond_wait may return without a signal.
SpuriousWakeup(t) ==
  /\ At(t, "acquire", "wait")
  /\ stack' = Goto(stack, t, "woken")
  /\ UNCHANGED <<serverVars, state, revoked, has, fails>>

\* A thread calls release(l) for a lock it has.
CallRelease(t, l) ==
  /\ stack[t] = <<>> /\ l \in has[t]
  /\ has' = [has EXCEPT ![t] = @ \ {l}]
  /\ stack' = [stack EXCEPT ![t] = <<NewFrame("release", Owner[t], l)>>]
  /\ UNCHANGED <<serverVars, state, revoked, fails>>

\* release, up to its RPC.  In any other state than LOCKED it aborts.
Release(t) ==
  /\ At(t, "release", "start")
  /\ LET c == Top(t).c
         l == Top(t).l
     IN /\ state[c][l] = "LOCKED"
        /\ \/ /\ revoked[c][l]
              /\ SetRevoked(c, l, FALSE)
              /\ SetState(c, l, "RELEASING")
              /\ Rpc(t, "rpc", "srelease", c, l)
           \/ /\ ~revoked[c][l]
              /\ SetState(c, l, "FREE")
              /\ Signal(Returned(t), c, l)
              /\ UNCHANGED <<revoked, fails>>
  /\ UNCHANGED <<serverVars, has>>

\* release comes back from the release RPC.
ReleaseBack(t) ==
  /\ At(t, "release", "rpc")
  /\ LET c == Top(t).c
         l == Top(t).l
     IN \/ /\ Top(t).r = "ERR" \/ state[c][l] # "RELEASING"
           /\ Return(t)
           /\ UNCHANGED <<state, fails>>
        \/ /\ Top(t).r # "ERR" /\ state[c][l] = "RELEASING"
           /\ WaitingThreads(c) = 0
           /\ SetState(c, l, "NONE")
           /\ Return(t)
           /\ UNCHANGED fails
        \/ /\ Top(t).r # "ERR" /\ state[c][l] = "RELEASING"
           /\ WaitingThreads(c) # 0
           /\ SetState(c, l, "ACQUIRING")
           /\ Rpc(t, "rpc2", "sacquire", c, l)
  /\ UNCHANGED <<serverVars, revoked, has>>

\* release comes back from the acquire RPC it sent for the waiting threads.
ReleaseBack2(t) ==
  /\ At(t, "release", "rpc2")
  /\ LET c == Top(t).c
         l == Top(t).l
         r == Top(t).r
     IN \/ /\ r = "ERR" \/ state[c][l] # "ACQUIRING"
           /\ Return(t)
           /\ UNCHANGED <<state, revoked>>
        \/ /\ r = "RETRY" /\ state[c][l] = "ACQUIRING"
           /\ SetState(c, l, "NONE")
           /\ Return(t)
           /\ UNCHANGED revoked
        \/ /\ r \in {"OK", "RETIRE"} /\ state[c][l] = "ACQUIRING"
           /\ SetState(c, l, "FREE")
           /\ SetRevoked(c, l, revoked[c][l] \/ r = "RETIRE")
           /\ Signal(Returned(t), c, l)
  /\ UNCHANGED <<serverVars, has, fails>>

\* Faulty revoke_handler: releases a lock that a thread has.
RevokeLocked(t) ==
  /\ At(t, "revoke", "start")
  /\ LET c == Top(t).c
         l == Top(t).l
     IN \/ /\ state[c][l] \in {"FREE", "LOCKED"}
           /\ SetState(c, l, "RELEASING")
           /\ Rpc(t, "rpc", "srelease", c, l)
        \/ /\ state[c][l] \notin {"FREE", "LOCKED"}
           /\ Reply(t, "OK")
           /\ UNCHANGED state
  /\ UNCHANGED <<serverVars, revoked, has>>


\* revoke_handler, up to its RPC.
Revoke(t) ==
  /\ At(t, "revoke", "start")
  /\ LET c == Top(t).c
         l == Top(t).l
     IN \/ /\ state[c][l] \in {"NONE", "RELEASING"}
           /\ Reply(t, "OK")
           /\ UNCHANGED <<state, revoked>>
        \/ /\ state[c][l] = "FREE"
           /\ SetState(c, l, "RELEASING")
           /\ Rpc(t, "rpc", "srelease", c, l)
           /\ UNCHANGED revoked
        \/ /\ state[c][l] \in {"LOCKED", "ACQUIRING"}
           /\ SetRevoked(c, l, TRUE)
           /\ Reply(t, "OK")
           /\ UNCHANGED state
  /\ UNCHANGED <<serverVars, has>>

\* revoke_handler comes back from the release RPC.
RevokeBack(t) ==
  /\ At(t, "revoke", "rpc")
  /\ LET c == Top(t).c
         l == Top(t).l
         ok == Top(t).r # "ERR"
     IN /\ state' = [state EXCEPT ![c][l] =
                       IF ok /\ @ = "RELEASING" THEN "NONE" ELSE @]
        /\ Reply(t, Top(t).r)
  /\ UNCHANGED <<serverVars, revoked, has>>

\* The switch of retry_handler's loop.
RetrySwitch(t, c, l) ==
  \/ /\ state[c][l] \in {"NONE", "ACQUIRING", "RELEASING"}
     /\ state[c][l] = "RELEASING" => Overlap
     /\ SetState(c, l, "ACQUIRING")
     /\ Rpc(t, "rpc", "sacquire", c, l)
  \/ /\ state[c][l] \in {"FREE", "LOCKED"}
     /\ Reply(t, "OK")
     /\ UNCHANGED state

Retry(t) ==
  /\ At(t, "retry", "start")
  /\ RetrySwitch(t, Top(t).c, Top(t).l)
  /\ UNCHANGED <<serverVars, revoked, has>>

\* retry_handler comes back from the acquire RPC.  It takes the lock as FREE
\* whatever the server answered.
RetryBack(t) ==
  /\ At(t, "retry", "rpc")
  /\ LET c == Top(t).c
         l == Top(t).l
         r == Top(t).r
     IN \/ /\ r = "ERR"
           /\ Reply(t, "ERR")
           /\ UNCHANGED <<state, revoked>>
        \/ /\ r # "ERR" /\ state[c][l] # "ACQUIRING"
           /\ RetrySwitch(t, c, l)
           /\ UNCHANGED revoked
        \/ /\ r # "ERR" /\ state[c][l] = "ACQUIRING"
           /\ SetState(c, l, "FREE")
           /\ SetRevoked(c, l, revoked[c][l] \/ r \in {"RETIRE", "RETRY"})
           /\ \E a \in {"OK", "ERR"} :
                Delivered("OK", a) /\ Signal(Replied(t, a), c, l)
  /\ UNCHANGED <<serverVars, has>>

-----------------------------------------------------------------------------
(* lock_server_cache *)

\* Dispatch threads of the server that are in a handler waiting for a client.
Busy == UNION {{<<t, i>> : i \in {j \in DOMAIN stack[t] :
                 stack[t][j].fn \in {"sacquire", "srelease"} /\ stack[t][j].pc = "rpc"}} :
               t \in Threads}
Queued(t) == At(t, "sacquire", "start") \/ At(t, "srelease", "start")


WorkerFree == Cardinality(Busy) < Workers

\* The acquire handler: under lock_m_, and then the revoke RPC.
HandleAcquire(t) ==
  /\ At(t, "sacquire", "start") /\ WorkerFree
  /\ LET c == Top(t).c
         l == Top(t).l
     IN /\ ServerAcquire(c, l)
        /\ IF NeedRevoke(c, l)
             THEN Rpc(t, "rpc", "revoke", holder[l], l)
             ELSE Reply(t, AcquireReply(c, l))
  /\ UNCHANGED <<state, revoked, has>>

\* The acquire handler comes back from the revoke RPC.
HandleAcquireBack(t) ==
  /\ At(t, "sacquire", "rpc")
  /\ Reply(t, IF Top(t).r = "ERR" THEN "ERR" ELSE "RETRY")
  /\ UNCHANGED <<serverVars, state, revoked, has>>

\* Faulty release: hands the lock over and does not tell the next client.
HandleReleaseSilent(t) ==
  /\ At(t, "srelease", "start") /\ WorkerFree
  /\ ServerRelease(Top(t).c, Top(t).l)
  /\ Reply(t, "OK")
  /\ UNCHANGED <<state, revoked, has>>

\* The release handler: under lock_m_, and then the retry RPC.
HandleRelease(t) ==
  /\ At(t, "srelease", "start") /\ WorkerFree
  /\ LET c == Top(t).c
         l == Top(t).l
     IN /\ ServerRelease(c, l)
        /\ IF HandsOver(c, l)
             THEN Rpc(t, "rpc", "retry", Head(pendingers[l]), l)
             ELSE Reply(t, "OK")
  /\ UNCHANGED <<state, revoked, has>>

\* The release handler comes back from the retry RPC.
HandleReleaseBack(t) ==
  /\ At(t, "srelease", "rpc")
  /\ Reply(t, Top(t).r)
  /\ UNCHANGED <<serverVars, state, revoked, has>>

-----------------------------------------------------------------------------

\* What runs by itself once a thread has made a call.
Step(t) ==
  \/ Acquire(t) \/ AcquireBack(t)
  \/ Release(t) \/ ReleaseBack(t) \/ ReleaseBack2(t)
  \/ Revoke(t) \/ RevokeBack(t)
  \/ Retry(t) \/ RetryBack(t)
  \/ HandleAcquire(t) \/ HandleAcquireBack(t)
  \/ HandleRelease(t) \/ HandleReleaseBack(t)

Next ==
  \E t \in Threads :
    \/ Step(t)
    \/ SpuriousWakeup(t)
    \/ \E l \in Locks : CallAcquire(t, l) \/ CallRelease(t, l)

Spec == Init /\ [][Next]_vars

-----------------------------------------------------------------------------

\* Every client has each lock in one of the five states, and a call waits for
\* its reply in one of the functions of the protocol.
TypeOK ==
  /\ ServerTypeOK
  /\ state \in [Clients -> [Locks -> State]]
  /\ revoked \in [Clients -> [Locks -> BOOLEAN]]
  /\ stack \in [Threads -> Seq(Frame)]
  /\ has \in [Threads -> SUBSET Locks]
  /\ fails \in 0..MaxFail

\* Two threads of one client never have a lock at the same time, whatever
\* replies, revokes and retries cross each other on the way.
ClientExclusion ==
  \A t, u \in Threads :
    t # u /\ Owner[t] = Owner[u] => has[t] \cap has[u] = {}

\* release finds the lock LOCKED: its assert(0) for the other states ("Never
\* meet release when in none/free state") is never reached.
ReleaseFindsLocked ==
  \A t \in Threads :
    At(t, "release", "start") => state[Top(t).c][Top(t).l] = "LOCKED"


\* A client with a lock in FREE ("client owns the lock and no thread has it")
\* or LOCKED ("client owns the lock and a thread has it") is its holder at
\* the server.
OwnerIsHolder ==
  \A c \in Clients, l \in Locks :
    state[c][l] \in {"FREE", "LOCKED"} => holder[l] = c

\* Nothing runs or is on its way for lock l: every thread that works on it
\* is in pthread_cond_wait.
Quiet(l) ==
  \A t \in Threads :
    stack[t] # <<>> /\ stack[t][1].l = l => Top(t).pc = "wait"

\* A lock is never lost: when nothing is on its way and no RPC failed, the
\* client that the server takes for the holder knows that it owns the lock.
NoLostLock ==
  \A l \in Locks : fails = 0 /\ Quiet(l) /\ holder[l] # None =>
    state[holder[l]][l] \in {"FREE", "LOCKED"}



\* What a client may do with a lock, for the abstract service.  A client in
\* RELEASING still counts until the server has handled its release; from then
\* on its state lags behind.
LockOf(c, l) ==
  CASE state[c][l] \in {"FREE", "LOCKED"} -> state[c][l]
    [] /\ state[c][l] = "RELEASING"
       /\ \E t \in Threads : At(t, "srelease", "start") /\ Top(t).c = c /\ Top(t).l = l
         -> "RELEASING"
    [] OTHER -> "NONE"

Service ==
  INSTANCE LockService WITH lock <- [c \in Clients |-> [l \in Locks |-> LockOf(c, l)]]

=============================================================================
