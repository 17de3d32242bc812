------------------------------- MODULE Waiter -------------------------------
(***************************************************************************)
(* The Waiter of src/src/util/waiter.cc, by which a caller waits for the   *)
(* end of an asynchronous operation: one per call.  Wait looks at          *)
(* completed_ before it takes the mutex, Signal takes none, and the wait   *)
(* on the condition is not in a loop.                                      *)
(***************************************************************************)
CONSTANTS
  Callers,   \* calls, each with a waiter of its own
  Timed      \* those that wait with a timeout

ASSUME WaiterAssumption == Timed \subseteq Callers

VARIABLES
  waiter,    \* completed_ and status_
  wait,      \* where the caller is in Wait, and what it returned
  signal,    \* where the other thread is in Signal, and the status it sets
  missed,    \* history: notify_one came between the look and the wait
  early      \* history: status_ was read before Signal had set it

waiterVars == <<waiter, wait, signal, missed, early>>

WaiterInit ==
  /\ waiter = [c \in Callers |-> [completed |-> FALSE, status |-> "ok"]]
  /\ wait = [c \in Callers |-> [pc |-> "none", result |-> "none"]]
  /\ signal = [c \in Callers |-> [pc |-> "none", status |-> "ok"]]
  /\ missed = [c \in Callers |-> FALSE]
  /\ early = [c \in Callers |-> FALSE]

-----------------------------------------------------------------------------
(* Wait *)

WaitCheck(c) ==
  /\ wait[c].pc = "check"
  /\ wait' = [wait EXCEPT ![c].pc = IF waiter[c].completed THEN "read" ELSE "lock"]
  /\ UNCHANGED <<waiter, signal, missed, early>>

\* Without a timeout the caller sleeps until it is notified.
WaitSleep(c) ==
  /\ wait[c].pc = "lock"
  /\ wait' = [wait EXCEPT ![c].pc = "asleep"]
  /\ UNCHANGED <<waiter, signal, missed, early>>

\* wait_for gives up; completed_ is overwritten.
WaitTimeout(c) ==
  /\ wait[c].pc = "asleep" /\ c \in Timed
  /\ wait' = [wait EXCEPT ![c] = [pc |-> "done", result |-> "timeout"]]
  /\ waiter' = [waiter EXCEPT ![c].completed = FALSE]
  /\ UNCHANGED <<signal, missed, early>>

\* The wait on the condition may end without a notification.
WaitSpurious(c) ==
  /\ wait[c].pc = "asleep"
  /\ wait' = [wait EXCEPT ![c].pc = "read"]
  /\ waiter' = [waiter EXCEPT ![c].completed = @ \/ c \in Timed]
  /\ UNCHANGED <<signal, missed, early>>

\* return status_
WaitRead(c) ==
  /\ wait[c].pc = "read"
  /\ wait' = [wait EXCEPT ![c] = [pc |-> "done", result |-> waiter[c].status]]
  /\ early' = [early EXCEPT ![c] = signal[c].pc \in {"none", "completed", "status"}]
  /\ UNCHANGED <<waiter, signal, missed>>

-----------------------------------------------------------------------------
(* Signal: three statements, and no lock *)

SignalCompleted(c) ==
  /\ signal[c].pc = "completed"
  /\ waiter' = [waiter EXCEPT ![c].completed = TRUE]
  /\ signal' = [signal EXCEPT ![c].pc = "status"]
  /\ UNCHANGED <<wait, missed, early>>

SignalStatus(c) ==
  /\ signal[c].pc = "status"
  /\ waiter' = [waiter EXCEPT ![c].status = signal[c].status]
  /\ signal' = [signal EXCEPT ![c].pc = "notify"]
  /\ UNCHANGED <<wait, missed, early>>

\* Faulty Signal: nobody is notified.
SignalNotifyNone(c) ==
  /\ signal[c].pc = "notify"
  /\ signal' = [signal EXCEPT ![c].pc = "done"]
  /\ UNCHANGED <<waiter, wait, missed, early>>

\* notify_one; a caller with a timeout sets completed_ when it wakes up.
SignalNotify(c) ==
  /\ signal[c].pc = "notify"
  /\ signal' = [signal EXCEPT ![c].pc = "done"]
  /\ missed' = [missed EXCEPT ![c] = (wait[c].pc = "lock")]
  /\ wait' = [wait EXCEPT ![c].pc = IF @ = "asleep" THEN "read" ELSE @]
  /\ waiter' = [waiter EXCEPT ![c].completed = @ \/ (c \in Timed /\ wait[c].pc = "asleep")]
  /\ UNCHANGED early

WaiterStep ==
  \E c \in Callers :
    \/ WaitCheck(c) \/ WaitSleep(c) \/ WaitTimeout(c) \/ WaitRead(c)
    \/ SignalCompleted(c) \/ SignalStatus(c) \/ SignalNotify(c)
=============================================================================
