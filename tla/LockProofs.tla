----------------------------- MODULE LockProofs -----------------------------
(***************************************************************************)
(* Proofs about the lock clients with the lock server, for any numbers of  *)
(* clients, threads, locks, workers and failed RPCs.                       *)
(***************************************************************************)
EXTENDS LockInvariants

(***************************************************************************)
(* The actions                                                             *)
(***************************************************************************)

LEMMA TopFacts ==
  ASSUME IInv, NEW t \in Threads, stack[t] # <<>>
  PROVE  /\ Top(t) \in Frame /\ Top(t).c \in Clients /\ Top(t).l \in Locks
         /\ Top(t).r \in Replies
         /\ Top(t).fn \in Fns => Top(t).c = Owner[t] /\ Len(stack[t]) = 1
         /\ TypeOK /\ Stacks(stack) /\ fails \in 0..MaxFail
         /\ revoked \in [Clients -> [Locks -> BOOLEAN]]
<1>1. Good(t, stack[t]) /\ TypeOK /\ Stacks(stack)
  BY DEF IInv, Stacks
<1>2. stack[t] \in Seq(Frame) /\ Len(stack[t]) \in 1..Len(stack[t])
  BY <1>1, EmptySeq DEF Good
<1>3. Top(t) \in Frame
  BY <1>2, ElementOfSeq DEF Top
<1>4. Top(t).fn \in Fns => Top(t).c = Owner[t] /\ Len(stack[t]) = 1
  BY <1>1, <1>2, Zenon DEF Good, Top
<1>5. Top(t).c \in Clients /\ Top(t).l \in Locks /\ Top(t).r \in Replies
  BY <1>3 DEF Frame, Replies
<1>6. QED BY <1>1, <1>3, <1>4, <1>5 DEF TypeOK

LEMMA AcquireSwitchEffect ==
  ASSUME IInv, NEW t \in Threads, stack[t] # <<>>, Top(t).fn = "acquire",
         AcquireSwitch(t, Top(t).c, Top(t).l), UNCHANGED <<serverVars, revoked>>
  PROVE  Effect(t)
<1> DEFINE c == Top(t).c
           l == Top(t).l
<1>0. /\ c \in Clients /\ l \in Locks /\ c = Owner[t] /\ Top(t).fn \in Fns
      /\ TypeOK /\ Stacks(stack) /\ fails \in 0..MaxFail
      /\ revoked' \in [Clients -> [Locks -> BOOLEAN]]
  BY TopFacts DEF Fns
<1>1. [ServerNext]_serverVars
  OBVIOUS
<1> HIDE DEF c, l
<1>2. CASE /\ state[c][l] = "NONE" \/ (state[c][l] = "RELEASING" /\ Overlap)
           /\ SetState(c, l, "ACQUIRING")
           /\ Rpc(t, "rpc", "sacquire", c, l)
           /\ UNCHANGED has
  <2>1. KeepsLocked
    BY <1>0, <1>2, SetKeeps DEF State
  <2>2. Settles(stack', t) /\ fails' \in 0..MaxFail
    BY <1>0, <1>2, RpcSettles DEF Handlers
  <2>3. QED BY <1>0, <1>1, <1>2, <2>1, <2>2 DEF Effect
<1>3. CASE /\ state[c][l] = "FREE"
           /\ SetState(c, l, "LOCKED")
           /\ has' = [has EXCEPT ![t] = @ \cup {l}]
           /\ Return(t)
           /\ UNCHANGED fails
  <2>1. Settles(stack', t)
    BY <1>0, <1>3, ReturnSettles DEF Return
  <2>2. Locks1(t, l)
    BY <1>0, <1>3 DEF Locks1, SetState
  <2>3. QED BY <1>0, <1>1, <1>3, <2>1, <2>2 DEF Effect
<1>4. CASE /\ stack' = Goto(stack, t, "wait")
           /\ UNCHANGED <<state, has, fails>>
  <2>1. Settles(stack', t)
    BY <1>0, <1>4, GotoSettles
  <2>2. KeepsLocked
    BY <1>0, <1>4, SameKeeps
  <2>3. QED BY <1>0, <1>1, <1>4, <2>1, <2>2 DEF Effect
<1>5. QED BY <1>2, <1>3, <1>4 DEF AcquireSwitch, c, l

LEMMA AcquireEffect ==
  ASSUME IInv, NEW t \in Threads, Acquire(t)
  PROVE  Effect(t)
BY AcquireSwitchEffect DEF Acquire, At

LEMMA AcquireBackEffect ==
  ASSUME IInv, NEW t \in Threads, AcquireBack(t)
  PROVE  Effect(t)
<1> DEFINE c == Top(t).c
           l == Top(t).l
           r == Top(t).r
<1>a. stack[t] # <<>> /\ Top(t).fn = "acquire" /\ UNCHANGED serverVars
  BY DEF AcquireBack, At
<1>0. /\ c \in Clients /\ l \in Locks /\ c = Owner[t] /\ Top(t).fn \in Fns
      /\ TypeOK /\ Stacks(stack) /\ fails \in 0..MaxFail
      /\ revoked \in [Clients -> [Locks -> BOOLEAN]]
  BY <1>a, TopFacts DEF Fns
<1>1. [ServerNext]_serverVars
  BY <1>a
<1>2. CASE r # "ERR" /\ state[c][l] # "ACQUIRING" /\ AcquireSwitch(t, c, l)
           /\ UNCHANGED revoked
  BY <1>a, <1>2, AcquireSwitchEffect
<1> HIDE DEF c, l, r
<1>3. CASE Return(t) /\ UNCHANGED <<state, revoked, has, fails>>
  <2>1. Settles(stack', t)
    BY <1>a, <1>0, <1>3, ReturnSettles DEF Return
  <2>2. KeepsLocked
    BY <1>0, <1>3, SameKeeps
  <2>3. QED BY <1>0, <1>1, <1>3, <2>1, <2>2 DEF Effect
<1>4. CASE /\ state[c][l] = "ACQUIRING"
           /\ SetState(c, l, "NONE")
           /\ stack' = Goto(stack, t, "wait")
           /\ UNCHANGED <<revoked, has, fails>>
  <2>1. Settles(stack', t)
    BY <1>a, <1>0, <1>4, GotoSettles
  <2>2. KeepsLocked
    BY <1>0, <1>4, SetKeeps DEF State
  <2>3. QED BY <1>0, <1>1, <1>4, <2>1, <2>2 DEF Effect
<1>5. CASE /\ SetRevoked(c, l, FALSE)
           /\ Rpc(t, "rpc", "sacquire", c, l)
           /\ UNCHANGED <<state, has>>
  <2>1. Settles(stack', t) /\ fails' \in 0..MaxFail
    BY <1>a, <1>0, <1>5, RpcSettles DEF Handlers
  <2>2. KeepsLocked
    BY <1>0, <1>5, SameKeeps
  <2>3. revoked' \in [Clients -> [Locks -> BOOLEAN]]
    BY <1>0, <1>5, RevokedType, Zenon
  <2>4. QED BY <1>1, <1>5, <2>1, <2>2, <2>3 DEF Effect
<1>6. CASE /\ state[c][l] = "ACQUIRING"
           /\ SetState(c, l, "LOCKED")
           /\ SetRevoked(c, l, r = "RETIRE")
           /\ has' = [has EXCEPT ![t] = @ \cup {l}]
           /\ Return(t)
           /\ UNCHANGED fails
  <2>1. Settles(stack', t)
    BY <1>a, <1>0, <1>6, ReturnSettles DEF Return
  <2>2. Locks1(t, l)
    BY <1>0, <1>6 DEF Locks1, SetState
  <2>3. revoked' \in [Clients -> [Locks -> BOOLEAN]]
    BY <1>0, <1>6, RevokedType, Zenon
  <2>4. QED BY <1>0, <1>1, <1>6, <2>1, <2>2, <2>3 DEF Effect
<1>7. QED BY <1>2, <1>3, <1>4, <1>5, <1>6, Zenon DEF AcquireBack, c, l, r

LEMMA SpuriousWakeupEffect ==
  ASSUME IInv, NEW t \in Threads, SpuriousWakeup(t)
  PROVE  Effect(t)
<1>0. /\ stack[t] # <<>> /\ stack' = Goto(stack, t, "woken")
      /\ UNCHANGED <<serverVars, state, revoked, has, fails>>
  BY DEF SpuriousWakeup, At
<1>1. /\ TypeOK /\ Stacks(stack) /\ fails \in 0..MaxFail
      /\ revoked \in [Clients -> [Locks -> BOOLEAN]]
  BY <1>0, TopFacts
<1>2. Settles(stack', t)
  BY <1>0, <1>1, GotoSettles
<1>3. KeepsLocked
  BY <1>0, <1>1, SameKeeps
<1>4. QED BY <1>0, <1>1, <1>2, <1>3 DEF Effect

\* A call the application makes.
LEMMA NewCallGood ==
  ASSUME NEW t \in Threads, NEW l \in Locks, NEW fn \in Fns
  PROVE  /\ Good(t, <<NewFrame(fn, Owner[t], l)>>)
         /\ NewFrame(fn, Owner[t], l) \in Frame
<1> DEFINE f == NewFrame(fn, Owner[t], l)
<1>1. f \in Frame /\ f.fn = fn /\ f.c = Owner[t]
  BY OwnerType DEF NewFrame, Frame, Fns
<1> HIDE DEF f
<1>2. <<f>> \in Seq(Frame) /\ Len(<<f>>) = 1 /\ <<f>>[1] = f
  BY <1>1
<1>3. QED BY <1>1, <1>2 DEF Good, f

LEMMA CallAcquireEffect ==
  ASSUME IInv, NEW t \in Threads, NEW l \in Locks, CallAcquire(t, l)
  PROVE  Effect(t)
<1> DEFINE q == <<NewFrame("acquire", Owner[t], l)>>
<1>0. stack' = [stack EXCEPT ![t] = q] /\ UNCHANGED <<serverVars, state, revoked, has, fails>>
  BY DEF CallAcquire
<1>1. /\ TypeOK /\ Stacks(stack) /\ fails \in 0..MaxFail
      /\ revoked \in [Clients -> [Locks -> BOOLEAN]]
  BY DEF IInv, TypeOK
<1>2. \A m \in Locks : ~Starts(q, m)
  BY DEF Starts, NewFrame
<1>3. Good(t, q)
  BY NewCallGood DEF Fns
<1> HIDE DEF q
<1>4. Settles(stack', t)
  BY <1>0, <1>1, <1>2, <1>3, Replaced, Zenon
<1>5. KeepsLocked
  BY <1>0, <1>1, SameKeeps
<1>6. QED BY <1>0, <1>1, <1>4, <1>5 DEF Effect

\* release(l) is called: the thread uses l as before.
LEMMA CallReleaseKeeps ==
  ASSUME IInv, NEW t \in Threads, NEW l \in Locks, CallRelease(t, l)
  PROVE  IInv'
<1> DEFINE q == <<NewFrame("release", Owner[t], l)>>
<1>0. /\ l \in has[t] /\ has' = [has EXCEPT ![t] = @ \ {l}]
      /\ stack' = [stack EXCEPT ![t] = q]
      /\ UNCHANGED <<serverVars, state, revoked, fails>>
  BY DEF CallRelease
<1>1. TypeOK /\ Stacks(stack) /\ Users /\ FreeHasNoWaiters
      /\ has \in [Threads -> SUBSET Locks] /\ stack \in [Threads -> Seq(Frame)]
  BY DEF IInv, TypeOK
<1>2. Good(t, q)
  BY NewCallGood, Zenon DEF Fns
<1>3. \A m \in Locks : Starts(q, m) => m = l
  BY DEF Starts, NewFrame
<1> HIDE DEF q
<1>4. q \in Seq(Frame)
  BY <1>2 DEF Good
<1>5. Stacks(stack)' /\ stack' \in [Threads -> Seq(Frame)]
  BY <1>0, <1>1, <1>2, <1>4 DEF Stacks
<1>6. \A u \in Threads, m \in Locks : Using(u, m)' => Using(u, m)
  BY <1>0, <1>1, <1>3 DEF Using
<1>7. \A u \in Threads, m \in Locks : Starts(stack'[u], m) => m \notin has'[u]
  BY <1>0, <1>1, <1>3 DEF Users
<1>8. Users'
  BY <1>0, <1>1, <1>6, <1>7 DEF Users
<1>9. TypeOK' /\ FreeHasNoWaiters'
  <2>1. ServerTypeOK' /\ FreeHasNoWaiters'
    BY <1>0, <1>1 DEF TypeOK, ServerTypeOK, FreeHasNoWaiters, serverVars
  <2>2. has' \in [Threads -> SUBSET Locks]
    BY <1>0, <1>1
  <2>3. QED BY <1>0, <1>1, <1>5, <2>1, <2>2 DEF TypeOK
<1>10. QED BY <1>5, <1>8, <1>9 DEF IInv

LEMMA ReleaseEffect ==
  ASSUME IInv, NEW t \in Threads, Release(t)
  PROVE  Effect(t)
<1> DEFINE c == Top(t).c
           l == Top(t).l
<1>a. /\ stack[t] # <<>> /\ Top(t).fn = "release" /\ Top(t).pc = "start"
      /\ UNCHANGED <<serverVars, has>>
  BY DEF Release, At
<1>0. /\ c \in Clients /\ l \in Locks /\ c = Owner[t] /\ Top(t).fn \in Fns
      /\ Len(stack[t]) = 1 /\ TypeOK /\ Stacks(stack) /\ fails \in 0..MaxFail
      /\ revoked \in [Clients -> [Locks -> BOOLEAN]]
  BY <1>a, TopFacts DEF Fns
<1>b. Starts(stack[t], l)
  BY <1>a, <1>0 DEF Starts, Top
<1>1. [ServerNext]_serverVars
  BY <1>a
<1> HIDE DEF c, l
<1>2. CASE /\ SetRevoked(c, l, FALSE)
           /\ SetState(c, l, "RELEASING")
           /\ Rpc(t, "rpc", "srelease", c, l)
  <2>1. Settles(stack', t) /\ fails' \in 0..MaxFail
    BY <1>a, <1>0, <1>2, RpcSettles DEF Handlers
  <2>2. Unlocks1(t, l, "RELEASING") /\ "RELEASING" \in State
    BY <1>a, <1>b, <1>0, <1>2 DEF Unlocks1, SetState, State
  <2>3. revoked' \in [Clients -> [Locks -> BOOLEAN]]
    BY <1>0, <1>2, RevokedType, Zenon
  <2>4. QED BY <1>0, <1>1, <2>1, <2>2, <2>3 DEF Effect
<1>3. CASE /\ SetState(c, l, "FREE")
           /\ Signal(Returned(t), c, l)
           /\ UNCHANGED <<revoked, fails>>
  <2>1. Settles(Returned(t), t)
    BY <1>a, <1>0, ReturnSettles
  <2>2. Settles(stack', t)
    BY <1>3, <2>1, SignalSettles
  <2>3. Unlocks1(t, l, "FREE") /\ "FREE" \in State
    BY <1>a, <1>b, <1>0, <1>3 DEF Unlocks1, SetState, State
  <2>4. QED BY <1>0, <1>1, <1>3, <2>2, <2>3 DEF Effect
<1>4. QED BY <1>2, <1>3, Zenon DEF Release, c, l

LEMMA ReleaseBackEffect ==
  ASSUME IInv, NEW t \in Threads, ReleaseBack(t)
  PROVE  Effect(t)
<1> DEFINE c == Top(t).c
           l == Top(t).l
<1>a. /\ stack[t] # <<>> /\ Top(t).fn = "release"
      /\ UNCHANGED <<serverVars, revoked, has>>
  BY DEF ReleaseBack, At
<1>0. /\ c \in Clients /\ l \in Locks /\ Top(t).fn \in Fns
      /\ TypeOK /\ Stacks(stack) /\ fails \in 0..MaxFail
      /\ revoked' \in [Clients -> [Locks -> BOOLEAN]]
  BY <1>a, TopFacts DEF Fns
<1>1. [ServerNext]_serverVars
  BY <1>a
<1> HIDE DEF c, l
<1>2. CASE Return(t) /\ UNCHANGED <<state, fails>>
  <2>1. Settles(stack', t)
    BY <1>a, <1>0, <1>2, ReturnSettles DEF Return
  <2>2. KeepsLocked
    BY <1>0, <1>2, SameKeeps
  <2>3. QED BY <1>a, <1>0, <1>1, <1>2, <2>1, <2>2 DEF Effect
<1>3. CASE state[c][l] = "RELEASING" /\ SetState(c, l, "NONE") /\ Return(t) /\ UNCHANGED fails
  <2>1. Settles(stack', t)
    BY <1>a, <1>0, <1>3, ReturnSettles DEF Return
  <2>2. KeepsLocked
    BY <1>0, <1>3, SetKeeps DEF State
  <2>3. QED BY <1>a, <1>0, <1>1, <1>3, <2>1, <2>2 DEF Effect
<1>4. CASE /\ state[c][l] = "RELEASING" /\ SetState(c, l, "ACQUIRING")
           /\ Rpc(t, "rpc2", "sacquire", c, l)
  <2>1. Settles(stack', t) /\ fails' \in 0..MaxFail
    BY <1>a, <1>0, <1>4, RpcSettles DEF Handlers
  <2>2. KeepsLocked
    BY <1>0, <1>4, SetKeeps DEF State
  <2>3. QED BY <1>a, <1>0, <1>1, <2>1, <2>2 DEF Effect
<1>5. QED BY <1>2, <1>3, <1>4 DEF ReleaseBack, c, l

LEMMA ReleaseBack2Effect ==
  ASSUME IInv, NEW t \in Threads, ReleaseBack2(t)
  PROVE  Effect(t)
<1> DEFINE c == Top(t).c
           l == Top(t).l
           r == Top(t).r
<1>a. /\ stack[t] # <<>> /\ Top(t).fn = "release"
      /\ UNCHANGED <<serverVars, has, fails>>
  BY DEF ReleaseBack2, At
<1>0. /\ c \in Clients /\ l \in Locks /\ Top(t).fn \in Fns
      /\ TypeOK /\ Stacks(stack) /\ fails \in 0..MaxFail
      /\ revoked \in [Clients -> [Locks -> BOOLEAN]]
  BY <1>a, TopFacts DEF Fns
<1>1. [ServerNext]_serverVars
  BY <1>a
<1>c. Settles(Returned(t), t)
  BY <1>a, <1>0, ReturnSettles
<1> HIDE DEF c, l, r
<1>2. CASE Return(t) /\ UNCHANGED <<state, revoked>>
  <2>1. KeepsLocked
    BY <1>0, <1>2, SameKeeps
  <2>2. QED BY <1>a, <1>0, <1>c, <1>1, <1>2, <2>1 DEF Effect, Return
<1>3. CASE state[c][l] = "ACQUIRING" /\ SetState(c, l, "NONE") /\ Return(t)
           /\ UNCHANGED revoked
  <2>1. KeepsLocked
    BY <1>0, <1>3, SetKeeps DEF State
  <2>2. QED BY <1>a, <1>0, <1>c, <1>1, <1>3, <2>1 DEF Effect, Return
<1>4. CASE /\ state[c][l] = "ACQUIRING" /\ SetState(c, l, "FREE")
           /\ SetRevoked(c, l, revoked[c][l] \/ r = "RETIRE")
           /\ Signal(Returned(t), c, l)
  <2>1. KeepsLocked
    BY <1>0, <1>4, SetKeeps DEF State
  <2>2. Settles(stack', t)
    BY <1>c, <1>4, SignalSettles
  <2>3. revoked' \in [Clients -> [Locks -> BOOLEAN]]
    BY <1>0, <1>4, RevokedType
  <2>4. QED BY <1>a, <1>0, <1>1, <2>1, <2>2, <2>3 DEF Effect
<1>5. QED BY <1>2, <1>3, <1>4 DEF ReleaseBack2, c, l, r

LEMMA RevokeEffect ==
  ASSUME IInv, NEW t \in Threads, Revoke(t)
  PROVE  Effect(t)
<1> DEFINE c == Top(t).c
           l == Top(t).l
           r == Top(t).r
<1>a. /\ stack[t] # <<>> /\ Top(t).fn = "revoke"
      /\ UNCHANGED <<serverVars, has>>
  BY DEF Revoke, At
<1>0. /\ c \in Clients /\ l \in Locks /\ r \in Replies /\ Top(t).fn \notin Fns
      /\ TypeOK /\ Stacks(stack) /\ fails \in 0..MaxFail
      /\ revoked \in [Clients -> [Locks -> BOOLEAN]]
  BY <1>a, TopFacts DEF Fns
<1>1. [ServerNext]_serverVars
  BY <1>a
<1> HIDE DEF c, l, r
<1>2. CASE Reply(t, "OK") /\ UNCHANGED <<state, revoked>>
  <2>1. Settles(stack', t) /\ fails' \in 0..MaxFail
    BY <1>a, <1>0, <1>2, ReplySettles DEF Replies
  <2>2. KeepsLocked
    BY <1>0, <1>2, SameKeeps
  <2>3. QED BY <1>a, <1>0, <1>1, <1>2, <2>1, <2>2 DEF Effect
<1>3. CASE /\ state[c][l] = "FREE" /\ SetState(c, l, "RELEASING")
           /\ Rpc(t, "rpc", "srelease", c, l) /\ UNCHANGED revoked
  <2>1. Settles(stack', t) /\ fails' \in 0..MaxFail
    BY <1>a, <1>0, <1>3, RpcSettles DEF Handlers
  <2>2. KeepsLocked
    BY <1>0, <1>3, SetKeeps DEF State
  <2>3. QED BY <1>a, <1>0, <1>1, <1>3, <2>1, <2>2 DEF Effect
<1>4. CASE SetRevoked(c, l, TRUE) /\ Reply(t, "OK") /\ UNCHANGED state
  <2>1. Settles(stack', t) /\ fails' \in 0..MaxFail
    BY <1>a, <1>0, <1>4, ReplySettles DEF Replies
  <2>2. KeepsLocked
    BY <1>0, <1>4, SameKeeps
  <2>3. revoked' \in [Clients -> [Locks -> BOOLEAN]]
    BY <1>0, <1>4, RevokedType, Zenon
  <2>4. QED BY <1>a, <1>1, <2>1, <2>2, <2>3 DEF Effect
<1>5. QED BY <1>2, <1>3, <1>4, Zenon DEF Revoke, c, l

LEMMA RevokeBackEffect ==
  ASSUME IInv, NEW t \in Threads, RevokeBack(t)
  PROVE  Effect(t)
<1> DEFINE c == Top(t).c
           l == Top(t).l
           r == Top(t).r
<1>a. /\ stack[t] # <<>> /\ Top(t).fn = "revoke"
      /\ UNCHANGED <<serverVars, revoked, has>>
  BY DEF RevokeBack, At
<1>0. /\ c \in Clients /\ l \in Locks /\ r \in Replies /\ Top(t).fn \notin Fns
      /\ TypeOK /\ Stacks(stack) /\ fails \in 0..MaxFail
      /\ revoked \in [Clients -> [Locks -> BOOLEAN]]
  BY <1>a, TopFacts DEF Fns
<1>1. [ServerNext]_serverVars
  BY <1>a
<1>2. Reply(t, r)
  BY DEF RevokeBack
<1>3. Settles(stack', t) /\ fails' \in 0..MaxFail
  BY <1>a, <1>0, <1>2, ReplySettles
<1>4. KeepsLocked
  <2>1. \/ state' = [state EXCEPT ![c][l] = state[c][l]]
        \/ state[c][l] = "RELEASING" /\ state' = [state EXCEPT ![c][l] = "NONE"]
    BY Zenon DEF RevokeBack
  <2> HIDE DEF c, l
  <2>2. CASE state' = [state EXCEPT ![c][l] = state[c][l]]
    <3>1. state' = state
      BY <1>0, <2>2 DEF TypeOK
    <3>2. QED BY <1>0, <3>1, SameKeeps
  <2>3. CASE state[c][l] = "RELEASING" /\ state' = [state EXCEPT ![c][l] = "NONE"]
    BY <1>0, <2>3, SetKeeps, Zenon DEF SetState, State
  <2>4. QED BY <2>1, <2>2, <2>3
<1>5. QED BY <1>a, <1>0, <1>1, <1>3, <1>4 DEF Effect

LEMMA RetrySwitchEffect ==
  ASSUME IInv, NEW t \in Threads, stack[t] # <<>>, Top(t).fn = "retry",
         RetrySwitch(t, Top(t).c, Top(t).l), UNCHANGED <<serverVars, revoked, has>>
  PROVE  Effect(t)
<1> DEFINE c == Top(t).c
           l == Top(t).l
<1>0. /\ c \in Clients /\ l \in Locks /\ Top(t).fn \notin Fns
      /\ TypeOK /\ Stacks(stack) /\ fails \in 0..MaxFail
      /\ revoked \in [Clients -> [Locks -> BOOLEAN]]
  BY TopFacts DEF Fns
<1>1. [ServerNext]_serverVars
  OBVIOUS
<1> HIDE DEF c, l
<1>2. CASE /\ state[c][l] \in {"NONE", "ACQUIRING", "RELEASING"}
           /\ SetState(c, l, "ACQUIRING")
           /\ Rpc(t, "rpc", "sacquire", c, l)
  <2>1. Settles(stack', t) /\ fails' \in 0..MaxFail
    BY <1>0, <1>2, RpcSettles DEF Handlers
  <2>2. KeepsLocked
    BY <1>0, <1>2, SetKeeps DEF State
  <2>3. QED BY <1>0, <1>1, <2>1, <2>2 DEF Effect
<1>3. CASE Reply(t, "OK") /\ UNCHANGED state
  <2>1. Settles(stack', t) /\ fails' \in 0..MaxFail
    BY <1>0, <1>3, ReplySettles DEF Replies
  <2>2. KeepsLocked
    BY <1>0, <1>3, SameKeeps
  <2>3. QED BY <1>0, <1>1, <2>1, <2>2 DEF Effect
<1>4. QED BY <1>2, <1>3 DEF RetrySwitch, c, l

LEMMA RetryEffect ==
  ASSUME IInv, NEW t \in Threads, Retry(t)
  PROVE  Effect(t)
BY RetrySwitchEffect DEF Retry, At

LEMMA RetryBackEffect ==
  ASSUME IInv, NEW t \in Threads, RetryBack(t)
  PROVE  Effect(t)
<1> DEFINE c == Top(t).c
           l == Top(t).l
           r == Top(t).r
<1>a. /\ stack[t] # <<>> /\ Top(t).fn = "retry"
      /\ UNCHANGED <<serverVars, has>>
  BY DEF RetryBack, At
<1>0. /\ c \in Clients /\ l \in Locks /\ r \in Replies /\ Top(t).fn \notin Fns
      /\ TypeOK /\ Stacks(stack) /\ fails \in 0..MaxFail
      /\ revoked \in [Clients -> [Locks -> BOOLEAN]]
  BY <1>a, TopFacts DEF Fns
<1>1. [ServerNext]_serverVars
  BY <1>a
<1>2. CASE RetrySwitch(t, c, l) /\ UNCHANGED revoked
  BY <1>a, <1>2, RetrySwitchEffect
<1> HIDE DEF c, l, r
<1>3. CASE Reply(t, "ERR") /\ UNCHANGED <<state, revoked>>
  <2>1. Settles(stack', t) /\ fails' \in 0..MaxFail
    BY <1>a, <1>0, <1>3, ReplySettles DEF Replies
  <2>2. KeepsLocked
    BY <1>0, <1>3, SameKeeps
  <2>3. QED BY <1>a, <1>0, <1>1, <1>3, <2>1, <2>2 DEF Effect
<1>4. CASE /\ state[c][l] = "ACQUIRING" /\ SetState(c, l, "FREE")
           /\ SetRevoked(c, l, revoked[c][l] \/ r \in {"RETIRE", "RETRY"})
           /\ \E a \in {"OK", "ERR"} :
                Delivered("OK", a) /\ Signal(Replied(t, a), c, l)
  <2>1. PICK a \in {"OK", "ERR"} : Delivered("OK", a) /\ Signal(Replied(t, a), c, l)
    BY <1>4
  <2>2. a \in Replies
    BY DEF Replies
  <2>3. Settles(Replied(t, a), t)
    BY <1>a, <1>0, <2>2, RepliedSettles
  <2>4. Settles(stack', t)
    BY <2>1, <2>3, SignalSettles
  <2>5. fails' \in 0..MaxFail
    BY <1>0, <2>1, DeliveredType
  <2>6. KeepsLocked
    BY <1>0, <1>4, SetKeeps DEF State
  <2>7. revoked' \in [Clients -> [Locks -> BOOLEAN]]
    BY <1>0, <1>4, RevokedType, Zenon
  <2>8. QED BY <1>a, <1>1, <2>4, <2>5, <2>6, <2>7 DEF Effect
<1>5. QED BY <1>2, <1>3, <1>4 DEF RetryBack, c, l, r

LEMMA HandleAcquireEffect ==
  ASSUME IInv, NEW t \in Threads, HandleAcquire(t)
  PROVE  Effect(t)
<1> DEFINE c == Top(t).c
           l == Top(t).l
           r == Top(t).r
<1>a. /\ stack[t] # <<>> /\ Top(t).fn = "sacquire"
      /\ UNCHANGED <<state, revoked, has>>
  BY DEF HandleAcquire, At
<1>0. /\ c \in Clients /\ l \in Locks /\ r \in Replies /\ Top(t).fn \notin Fns
      /\ TypeOK /\ Stacks(stack) /\ fails \in 0..MaxFail
      /\ revoked \in [Clients -> [Locks -> BOOLEAN]]
  BY <1>a, TopFacts DEF Fns
<1>1. [ServerNext]_serverVars
  BY <1>0 DEF HandleAcquire, ServerNext
<1>2. KeepsLocked
  BY <1>a, <1>0, SameKeeps
<1>3. \/ NeedRevoke(c, l) /\ Rpc(t, "rpc", "revoke", holder[l], l)
      \/ Reply(t, AcquireReply(c, l))
  BY DEF HandleAcquire
<1> HIDE DEF c, l, r
<1>4. NeedRevoke(c, l) => holder[l] \in Clients
  BY <1>0 DEF TypeOK, ServerTypeOK, NeedRevoke, HeldByOther
<1>5. AcquireReply(c, l) \in Replies
  BY DEF AcquireReply, Replies
<1>6. Settles(stack', t) /\ fails' \in 0..MaxFail
  BY <1>a, <1>0, <1>3, <1>4, <1>5, RpcSettles, ReplySettles DEF Handlers
<1>7. QED BY <1>a, <1>0, <1>1, <1>2, <1>6 DEF Effect

LEMMA HandleAcquireBackEffect ==
  ASSUME IInv, NEW t \in Threads, HandleAcquireBack(t)
  PROVE  Effect(t)
<1> DEFINE c == Top(t).c
           l == Top(t).l
           r == Top(t).r
<1>a. /\ stack[t] # <<>> /\ Top(t).fn = "sacquire"
      /\ UNCHANGED <<serverVars, state, revoked, has>>
  BY DEF HandleAcquireBack, At
<1>0. /\ c \in Clients /\ l \in Locks /\ r \in Replies /\ Top(t).fn \notin Fns
      /\ TypeOK /\ Stacks(stack) /\ fails \in 0..MaxFail
      /\ revoked \in [Clients -> [Locks -> BOOLEAN]]
  BY <1>a, TopFacts DEF Fns
<1>1. [ServerNext]_serverVars
  BY <1>a
<1>2. \E a \in Replies : Reply(t, a)
  BY <1>0 DEF HandleAcquireBack, Replies
<1>3. Settles(stack', t) /\ fails' \in 0..MaxFail
  BY <1>a, <1>0, <1>2, ReplySettles
<1>4. KeepsLocked
  BY <1>a, <1>0, SameKeeps
<1>5. QED BY <1>a, <1>0, <1>1, <1>3, <1>4 DEF Effect

LEMMA HandleReleaseEffect ==
  ASSUME IInv, NEW t \in Threads, HandleRelease(t)
  PROVE  Effect(t)
<1> DEFINE c == Top(t).c
           l == Top(t).l
           r == Top(t).r
<1>a. /\ stack[t] # <<>> /\ Top(t).fn = "srelease"
      /\ UNCHANGED <<state, revoked, has>>
  BY DEF HandleRelease, At
<1>0. /\ c \in Clients /\ l \in Locks /\ r \in Replies /\ Top(t).fn \notin Fns
      /\ TypeOK /\ Stacks(stack) /\ fails \in 0..MaxFail
      /\ revoked \in [Clients -> [Locks -> BOOLEAN]]
  BY <1>a, TopFacts DEF Fns
<1>1. [ServerNext]_serverVars
  BY <1>0 DEF HandleRelease, ServerNext
<1>2. KeepsLocked
  BY <1>a, <1>0, SameKeeps
<1>3. \/ HandsOver(c, l) /\ Rpc(t, "rpc", "retry", Head(pendingers[l]), l)
      \/ Reply(t, "OK")
  BY DEF HandleRelease
<1> HIDE DEF c, l, r
<1>4. HandsOver(c, l) => Head(pendingers[l]) \in Clients
  BY <1>0, HeadTailProperties DEF TypeOK, ServerTypeOK, HandsOver
<1>5. "OK" \in Replies
  BY DEF Replies
<1>6. Settles(stack', t) /\ fails' \in 0..MaxFail
  BY <1>a, <1>0, <1>3, <1>4, <1>5, RpcSettles, ReplySettles DEF Handlers
<1>7. QED BY <1>a, <1>0, <1>1, <1>2, <1>6 DEF Effect

LEMMA HandleReleaseBackEffect ==
  ASSUME IInv, NEW t \in Threads, HandleReleaseBack(t)
  PROVE  Effect(t)
<1> DEFINE c == Top(t).c
           l == Top(t).l
           r == Top(t).r
<1>a. /\ stack[t] # <<>> /\ Top(t).fn = "srelease"
      /\ UNCHANGED <<serverVars, state, revoked, has>>
  BY DEF HandleReleaseBack, At
<1>0. /\ c \in Clients /\ l \in Locks /\ r \in Replies /\ Top(t).fn \notin Fns
      /\ TypeOK /\ Stacks(stack) /\ fails \in 0..MaxFail
      /\ revoked \in [Clients -> [Locks -> BOOLEAN]]
  BY <1>a, TopFacts DEF Fns
<1>1. [ServerNext]_serverVars
  BY <1>a
<1>2. \E a \in Replies : Reply(t, a)
  BY <1>0 DEF HandleReleaseBack, Replies
<1>3. Settles(stack', t) /\ fails' \in 0..MaxFail
  BY <1>a, <1>0, <1>2, ReplySettles
<1>4. KeepsLocked
  BY <1>a, <1>0, SameKeeps
<1>5. QED BY <1>a, <1>0, <1>1, <1>3, <1>4 DEF Effect

(***************************************************************************)
(* The theorems                                                            *)
(***************************************************************************)

LEMMA Starting ==
  ASSUME Init
  PROVE  IInv
<1>1. <<>> \in Seq(Frame) /\ \A t : Good(t, <<>>)
  BY EmptySeq DEF Good
<1>2. \A l : ~Starts(<<>>, l)
  BY DEF Starts
<1>3. ServerTypeOK /\ FreeHasNoWaiters
  BY ServerStarts DEF Init
<1>4. TypeOK
  BY <1>1, <1>3, LockProtocolAssumption
  DEF Init, TypeOK, State, LockProtocolAssumption
<1>5. Stacks(stack)
  BY <1>1 DEF Init, Stacks
<1>6. Users
  BY <1>2 DEF Init, Users, Using
<1>7. QED BY <1>3, <1>4, <1>5, <1>6 DEF IInv

LEMMA Inductive ==
  ASSUME IInv, [Next]_vars
  PROVE  IInv'
<1>1. CASE UNCHANGED vars
  BY <1>1 DEF vars, IInv, TypeOK, ServerTypeOK, FreeHasNoWaiters, Stacks, Users, Using
<1>2. ASSUME NEW t \in Threads, Step(t)
      PROVE  IInv'
  <2>1. Effect(t)
    BY <1>2, AcquireEffect, AcquireBackEffect, ReleaseEffect, ReleaseBackEffect,
       ReleaseBack2Effect, RevokeEffect, RevokeBackEffect, RetryEffect,
       RetryBackEffect, HandleAcquireEffect, HandleAcquireBackEffect,
       HandleReleaseEffect, HandleReleaseBackEffect DEF Step
  <2>2. QED BY <2>1, EffectKeeps
<1>3. ASSUME NEW t \in Threads, SpuriousWakeup(t)
      PROVE  IInv'
  BY <1>3, SpuriousWakeupEffect, EffectKeeps
<1>4. ASSUME NEW t \in Threads, NEW l \in Locks, CallAcquire(t, l)
      PROVE  IInv'
  BY <1>4, CallAcquireEffect, EffectKeeps
<1>5. ASSUME NEW t \in Threads, NEW l \in Locks, CallRelease(t, l)
      PROVE  IInv'
  BY <1>5, CallReleaseKeeps
<1>6. QED BY <1>1, <1>2, <1>3, <1>4, <1>5 DEF Next

LEMMA Consequences ==
  ASSUME IInv
  PROVE  ClientExclusion /\ ReleaseFindsLocked
<1>1. ClientExclusion
  BY DEF IInv, TypeOK, Users, Using, ClientExclusion
<1>2. ASSUME NEW t \in Threads, At(t, "release", "start")
      PROVE  state[Top(t).c][Top(t).l] = "LOCKED"
  <2>1. stack[t] # <<>> /\ Top(t).fn \in Fns
    BY <1>2 DEF At, Fns
  <2>2. Top(t).c = Owner[t] /\ Len(stack[t]) = 1 /\ Top(t).l \in Locks
    BY <2>1, TopFacts
  <2>3. Starts(stack[t], Top(t).l)
    BY <1>2, <2>1, <2>2 DEF At, Starts, Top
  <2>4. QED BY <2>2, <2>3 DEF IInv, Users, Using
<1>3. QED BY <1>1, <1>2 DEF ReleaseFindsLocked

\* Types, for every number of clients, threads, locks and failed RPCs.
THEOREM LockTypeCorrect == Spec => []TypeOK
<1>1. IInv => TypeOK
  BY DEF IInv
<1>2. QED BY <1>1, Starting, Inductive, PTL DEF Spec

\* However revokes, retries, replies and failed calls cross each other, the
\* threads of one client never have a lock at the same time.
THEOREM ClientExclusionHolds == Spec => []ClientExclusion
BY Starting, Inductive, Consequences, PTL DEF Spec

\* The assert(0) branches of lock_client_cache::release are never reached.
THEOREM ReleaseFindsLockedHolds == Spec => []ReleaseFindsLocked
BY Starting, Inductive, Consequences, PTL DEF Spec

\* With real clients, too, nobody waits for a lock that is free.
THEOREM FreeHasNoWaitersHolds == Spec => []FreeHasNoWaiters
<1>1. IInv => FreeHasNoWaiters
  BY DEF IInv
<1>2. QED BY <1>1, Starting, Inductive, PTL DEF Spec
=============================================================================
