------------------------------- MODULE ThrPool -------------------------------
(***************************************************************************)
(* The dispatch pool, src/src/rpc/thr_pool.cc, and the queue it takes its  *)
(* jobs from, src/src/include/rpc/fifo.h.  What a job is, and the steps of *)
(* a thread that runs one, are for the modules that extend this one.       *)
(***************************************************************************)
EXTENDS Naturals, Sequences

CONSTANTS
  Workers,   \* threads of the pool
  Listener,  \* the thread that accepts connections, and later deletes the pool
  MaxQueue   \* capacity of the queue, 100 jobs per thread

ASSUME ThrPoolAssumption == Listener \notin Workers /\ MaxQueue \in Nat \ {0}

Threads == Workers \cup {Listener}

\* The job whose function is NULL: the poison pill.
Pill == 0

VARIABLES
  jobq,      \* jobq_
  th         \* the threads: where each is, and the connection it works for

\* A worker is "idle" before takeJob and "deqwait" in its pthread_cond_wait;
\* it is "exited" after the pill.
At(t, pc) == th[t].pc = pc
Go(t, pc) == [th EXCEPT ![t].pc = pc]

\* pthread_cond_signal(&non_empty_c_), with the threads s.
SignalNonEmpty(s) ==
  LET asleep == {w \in Workers : s[w].pc = "deqwait"}
  IN  IF asleep = {} THEN th' = s
      ELSE \E w \in asleep : th' = [s EXCEPT ![w].pc = "idle"]

\* Faulty enq: tells a thread only when the queue was empty.
enqFirst(j, s) ==
  /\ jobq' = Append(jobq, j)
  /\ IF jobq = <<>> THEN SignalNonEmpty(s) ELSE th' = s

\* enq where there is room; without room it returns false or, when it is
\* blocking, waits for room.
enq(j, s) ==
  /\ jobq' = Append(jobq, j)
  /\ SignalNonEmpty(s)

HasRoom == Len(jobq) < MaxQueue

\* takeJob, as do_worker calls it: deq, and the pill ends the thread.
TakeJob(w) ==
  /\ At(w, "idle")
  /\ IF jobq = <<>> THEN th' = Go(w, "deqwait") /\ UNCHANGED jobq
     ELSE /\ jobq' = Tail(jobq)
          /\ th' = [th EXCEPT ![w].pc = IF Head(jobq) = Pill THEN "exited" ELSE "job",
                              ![w].c = Head(jobq)]
=============================================================================
