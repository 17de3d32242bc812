------------------------------- MODULE PollMgr -------------------------------
(***************************************************************************)
(* The poll manager of the RPC library, src/src/rpc/pollmgr.cc: one thread *)
(* that waits in select() for the descriptors of all connections and calls *)
(* their callbacks, and the calls by which other threads add and remove    *)
(* descriptors.  SelectAIO is the aio_mgr that PollMgr uses.               *)
(*                                                                         *)
(* The operators below say what a call does to the variables of this       *)
(* module; module Connection says who calls them.  A byte in the pipe      *)
(* makes select() return.  One byte stands for any number of them, since   *)
(* the others only repeat the loop; so would a signal (EINTR), and the     *)
(* process handles none.                                                   *)
(***************************************************************************)
EXTENDS Integers, FiniteSets, FiniteSetsExt

CONSTANTS
  Fds,       \* descriptors below MAX_POLL_FDS that connections can have
  PipeFd,    \* pipefd_[0]
  None

ASSUME PollMgrAssumption ==
  /\ Fds \subseteq Nat /\ IsFiniteSet(Fds)
  /\ PipeFd \in Nat \ Fds

VARIABLES
  rfds, wfds,   \* rfds_ without the pipe, wfds_
  highfds,      \* highfds_
  pipe,         \* is there a byte in the pipe?
  callbacks,    \* callbacks_
  pending,      \* pending_change_
  removing,     \* threads in the pthread_cond_wait of block_remove_fd
  poll          \* the thread: where it is, and its trfds and twfds, then its
                \* readable and writable, as sets

watchVars == <<rfds, wfds, highfds, pipe>>
mgrVars == <<watchVars, callbacks, pending, removing>>
pollVars == <<mgrVars, poll>>

PollInit ==
  /\ rfds = {} /\ wfds = {} /\ highfds = PipeFd
  /\ pipe = FALSE
  /\ callbacks = [fd \in Fds |-> None]
  /\ pending = FALSE /\ removing = {}
  /\ poll = [pc |-> "top", rd |-> {}, wr |-> {}]

RDONLY == {"r"}
WRONLY == {"w"}
RDWR == {"r", "w"}

-----------------------------------------------------------------------------
(* SelectAIO *)

watch_fd(fd, flag) ==
  /\ highfds' = Max({highfds, fd})
  /\ rfds' = IF "r" \in flag THEN rfds \cup {fd} ELSE rfds
  /\ wfds' = IF "w" \in flag THEN wfds \cup {fd} ELSE wfds
  /\ pipe' = TRUE

\* Faulty unwatch_fd: looks for the new highfds_ among the read descriptors.
unwatch_fdReads(fd, flag) ==
  LET r == IF "r" \in flag THEN rfds \ {fd} ELSE rfds
      w == IF "w" \in flag THEN wfds \ {fd} ELSE wfds
  IN  /\ rfds' = r /\ wfds' = w
      /\ highfds' = IF fd = highfds /\ fd \notin w THEN Max({PipeFd} \cup {f \in r : f < fd}) ELSE highfds
      /\ pipe' = (pipe \/ flag = RDWR)

\* unwatch_fd; it returns Unwatched(fd, flag).
unwatch_fd(fd, flag) ==
  LET r == IF "r" \in flag THEN rfds \ {fd} ELSE rfds
      w == IF "w" \in flag THEN wfds \ {fd} ELSE wfds
  IN  /\ rfds' = r /\ wfds' = w
      /\ highfds' = IF fd = highfds /\ fd \notin r \cup w THEN Max({PipeFd} \cup r \cup w)
                    ELSE highfds
      /\ pipe' = (pipe \/ flag = RDWR)

Unwatched(fd, flag) == (fd \in rfds => "r" \in flag) /\ (fd \in wfds => "w" \in flag)

-----------------------------------------------------------------------------
(* Calls of other threads and of callbacks *)

\* The VERIFY of add_callback.
CallbackFits(fd, c) == callbacks[fd] \in {None, c}

add_callback(fd, flag, c) ==
  /\ watch_fd(fd, flag)
  /\ callbacks' = [callbacks EXCEPT ![fd] = c]
  /\ UNCHANGED <<pending, removing>>

del_callback(fd, flag) ==
  /\ unwatch_fd(fd, flag)
  /\ callbacks' = IF Unwatched(fd, flag) THEN [callbacks EXCEPT ![fd] = None] ELSE callbacks
  /\ UNCHANGED <<pending, removing>>

\* Faulty block_remove_fd: the flag is set, but nobody is told.
BlockRemoveQuiet(t, fd) ==
  /\ rfds' = rfds \ {fd} /\ wfds' = wfds \ {fd}
  /\ pending' = TRUE
  /\ removing' = removing \cup {t}
  /\ UNCHANGED <<highfds, pipe, callbacks, poll>>

\* block_remove_fd up to its pthread_cond_wait, which is not in a loop, and
\* after it.
BlockRemove(t, fd) ==
  /\ unwatch_fd(fd, RDWR)
  /\ pending' = TRUE
  /\ removing' = removing \cup {t}
  /\ UNCHANGED <<callbacks, poll>>

BlockRemoveEnd(t, fd) ==
  /\ t \notin removing
  /\ callbacks' = [callbacks EXCEPT ![fd] = None]
  /\ UNCHANGED <<watchVars, pending, removing, poll>>

-----------------------------------------------------------------------------
(* The thread: wait_loop *)

\* Threads that wait in block_remove_fd are told at the top of the loop.
PollTop ==
  /\ poll.pc = "top"
  /\ pending' = FALSE
  /\ removing' = IF pending THEN {} ELSE removing
  /\ poll' = [poll EXCEPT !.pc = "copy"]
  /\ UNCHANGED <<watchVars, callbacks>>

\* wait_ready copies the sets before it calls select().
PollCopy ==
  /\ poll.pc = "copy"
  /\ poll' = [pc |-> "select", rd |-> {fd \in rfds : fd <= highfds},
              wr |-> {fd \in wfds : fd <= highfds}]
  /\ UNCHANGED mgrVars

\* select() returns with those of readyR and readyW that it was given, or
\* because of the pipe.
PollSelect(readyR, readyW) ==
  LET rd == poll.rd \cap readyR
      wr == poll.wr \cap readyW
  IN  /\ poll.pc = "select"
      /\ pipe \/ rd # {} \/ wr # {}
      /\ poll' = [pc |-> IF rd \cup wr = {} THEN "top" ELSE "call", rd |-> rd, wr |-> wr]
      /\ pipe' = FALSE
      /\ UNCHANGED <<rfds, wfds, highfds, callbacks, pending, removing>>

\* The next callback is that of poll.fd, in the order of the descriptors,
\* read_cb before write_cb; callbacks_ is looked at without the mutex.
NextFd == IF poll.rd # {} THEN Min(poll.rd) ELSE Min(poll.wr)
AfterCallback ==
  LET rd == poll.rd \ {NextFd}
      wr == IF poll.rd = {} THEN poll.wr \ {NextFd} ELSE poll.wr
  IN  [pc |-> IF rd = {} /\ wr = {} THEN "top" ELSE "call", rd |-> rd, wr |-> wr]
=============================================================================
