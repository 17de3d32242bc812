-------------------------------- MODULE Move --------------------------------
(***************************************************************************)
(* Master::Move of src/src/master/master.cc, which locks files and has     *)
(* their extents moved from one extent server to another, and              *)
(* extent_server::move of src/src/fs/extent_server.cc, which does it.      *)
(*                                                                         *)
(* Clients put extents at the source, under their locks: Move does not     *)
(* change the address that the master gives.  (The adjust thread of the    *)
(* master would before it calls Move; it never runs.)  Its lock client has *)
(* no lock_release_user, through which it would release a lock that is     *)
(* revoked, so the master dies there.  At the end of Move the lock client  *)
(* is deleted with the locks that it caches; its rpcs is not, and a revoke *)
(* then runs on memory that was freed.                                     *)
(***************************************************************************)
EXTENDS Naturals, Sequences, FiniteSets

CONSTANTS
  MFiles,       \* inums, as numbers
  MaxMoves,     \* bound: calls of Master::Move
  MaxPuts,      \* bound: puts of clients
  MaxLostCalls  \* bound: calls that fail

VARIABLES
  extents,      \* extent_map_ of the source and of the destination; 0: none
  owner,        \* whose a lock is at the lock server: "none", "client",
                \* "move" or, when that lock client is deleted, "gone"
  mover,        \* Master::Move: where it is, the next file, go_on, and
                \* state and is_revoked of its lock client
  server,       \* extent_server::move: where it is, extents, deleted_ok
  newest,       \* history: the last content put
  puts, moves, lostCalls

moveVars == <<extents, owner, mover, server, newest, puts, moves, lostCalls>>

\* The inums to be moved, in the order of the vector.
Inum == [i \in 1 .. Cardinality(MFiles) |-> CHOOSE f \in MFiles : Cardinality({g \in MFiles : g <= f}) = i]

Idle == [pc |-> "idle", i |-> 1, go_on |-> TRUE, state |-> [f \in MFiles |-> "NONE"], is_revoked |-> {}]

MoveInit ==
  /\ extents = [src |-> [f \in MFiles |-> 1], dst |-> [f \in MFiles |-> 0]]
  /\ owner = [f \in MFiles |-> "none"]
  /\ mover = Idle
  /\ server = [pc |-> "idle", extents |-> {}, deleted_ok |-> {}]
  /\ newest = [f \in MFiles |-> 1]
  /\ puts = 1 /\ moves = 0 /\ lostCalls = 0

CanFail == lostCalls < MaxLostCalls /\ lostCalls' = lostCalls + 1

Gone == [f \in MFiles |-> IF owner[f] = "move" THEN "gone" ELSE owner[f]]

\* The end of Move, or of the master.
EndsAs(m) == mover' = m /\ owner' = Gone
Dead == [Idle EXCEPT !.pc = "dead"]

-----------------------------------------------------------------------------
(* Clients *)

\* Under its lock a client puts an extent; the lock stays in its cache.
ClientPut(f) ==
  /\ puts < MaxPuts /\ owner[f] \in {"none", "client"}
  /\ puts' = puts + 1
  /\ owner' = [owner EXCEPT ![f] = "client"]
  /\ extents' = [extents EXCEPT !.src[f] = puts']
  /\ newest' = [newest EXCEPT ![f] = puts']
  /\ UNCHANGED <<mover, server, moves, lostCalls>>

\* revoke_handler of the lock client of Move, for a client that wants the
\* lock.  After the lock client is deleted anything may happen; the lock is
\* not released.
Revoke(f) ==
  /\ mover.pc # "dead"
  /\ \/ /\ owner[f] = "move" /\ mover.state[f] \in {"LOCKED", "ACQUIRING"}
        /\ mover' = [mover EXCEPT !.is_revoked = @ \cup {f}] /\ UNCHANGED owner
     \/ owner[f] = "move" /\ mover.state[f] = "FREE" /\ EndsAs(Dead)
     \/ owner[f] = "gone" /\ EndsAs(Dead)
  /\ UNCHANGED <<extents, server, newest, puts, moves, lostCalls>>

\* A client that was revoked for an acquire of Move that failed releases the
\* lock after it: retry_handler of the lock client takes it.
GrantedLate(f) ==
  /\ mover.state[f] = "ACQUIRING" /\ owner[f] = "client"
  /\ owner' = [owner EXCEPT ![f] = "move"]
  /\ mover' = [mover EXCEPT !.state[f] = "FREE"]
  /\ UNCHANGED <<extents, server, newest, puts, moves, lostCalls>>

-----------------------------------------------------------------------------
(* Master::Move *)

\* release of files: the master dies of one that was revoked, or that is not
\* LOCKED; the others stay in the cache.
Dies(files) == \E f \in files : f \in mover.is_revoked \/ mover.state[f] # "LOCKED"
Freed(files) == [f \in MFiles |-> IF f \in files THEN "FREE" ELSE mover.state[f]]

\* The connection to the source is made, or Move ends.
MoveBegin ==
  /\ mover.pc = "idle" /\ moves < MaxMoves
  /\ moves' = moves + 1
  /\ \/ mover' = [mover EXCEPT !.pc = "lock"] /\ UNCHANGED lostCalls
     \/ CanFail /\ UNCHANGED mover
  /\ UNCHANGED <<extents, owner, server, newest, puts>>

\* acquire of the next file returns OK.  (A lock that is gone it may wait for
\* without end.)
MoveLock ==
  LET f == Inum[mover.i]
  IN  /\ mover.pc = "lock" /\ mover.i <= Len(Inum)
      /\ owner[f] \in {"none", "client"}
      /\ owner' = [owner EXCEPT ![f] = "move"]
      /\ mover' = [mover EXCEPT !.i = @ + 1, !.state[f] = "LOCKED"]
      /\ UNCHANGED <<extents, server, newest, puts, moves, lostCalls>>

\* acquire fails, and the lock server may have granted the lock.  The files
\* before this one are released, and the loop goes on with those after it.
MoveLockFails ==
  LET f == Inum[mover.i]
      before == {Inum[j] : j \in 1 .. mover.i - 1}
  IN  /\ mover.pc = "lock" /\ mover.i <= Len(Inum)
      /\ IF owner[f] = "gone" THEN UNCHANGED lostCalls ELSE CanFail
      /\ IF Dies(before)
           THEN EndsAs(Dead)
           ELSE /\ owner' \in IF owner[f] = "gone" THEN {owner} ELSE {owner, [owner EXCEPT ![f] = "move"]}
                /\ mover' = [mover EXCEPT !.i = @ + 1, !.go_on = FALSE,
                                          !.state = [Freed(before) EXCEPT ![f] = "ACQUIRING"]]
      /\ UNCHANGED <<extents, server, newest, puts, moves>>

\* Faulty Move: calls the extent server although a lock failed.
MoveCallBlind ==
  /\ mover.pc = "lock" /\ mover.i > Len(Inum)
  /\ mover' = [mover EXCEPT !.pc = "called"]
  /\ server' = [pc |-> "take", extents |-> {}, deleted_ok |-> {}]
  /\ UNCHANGED <<extents, owner, newest, puts, moves, lostCalls>>

\* All files are locked, and move is called; or Move ends.
MoveCall ==
  /\ mover.pc = "lock" /\ mover.i > Len(Inum)
  /\ \/ /\ mover.go_on
        /\ mover' = [mover EXCEPT !.pc = "called"]
        /\ server' = [pc |-> "take", extents |-> {}, deleted_ok |-> {}]
        /\ UNCHANGED owner
     \/ ~mover.go_on /\ EndsAs(Idle) /\ UNCHANGED server
  /\ UNCHANGED <<extents, newest, puts, moves, lostCalls>>

\* The call returns, or it fails while the server may go on; all the locks
\* are released and the lock client is deleted.
MoveEnd ==
  /\ mover.pc = "called"
  /\ (server.pc = "idle" /\ UNCHANGED lostCalls) \/ CanFail
  /\ EndsAs(IF Dies(MFiles) THEN Dead ELSE Idle)
  /\ UNCHANGED <<extents, server, newest, puts, moves>>

-----------------------------------------------------------------------------
(* extent_server::move *)

\* The extents are taken under server_mu_; then the connection to the
\* destination is made, or the call ends.
TakeOut ==
  /\ server.pc = "take"
  /\ \/ /\ server' = [server EXCEPT !.pc = "put", !.extents = {f \in MFiles : extents.src[f] # 0}]
        /\ UNCHANGED lostCalls
     \/ CanFail /\ server' = [server EXCEPT !.pc = "idle"]
  /\ UNCHANGED <<extents, owner, mover, newest, puts, moves>>

\* put of the next extent at the destination, with the content it has then.
\* If the call fails the destination may have it all the same.
PutOne ==
  LET f == CHOOSE g \in server.extents : \A h \in server.extents : g <= h
      arrives == [extents EXCEPT !.dst[f] = extents.src[f]]
  IN  /\ server.pc = "put" /\ server.extents # {}
      /\ \/ /\ extents' = arrives /\ UNCHANGED lostCalls
            /\ server' = [server EXCEPT !.extents = @ \ {f}, !.deleted_ok = @ \cup {f}]
         \/ /\ extents' \in {extents, arrives} /\ CanFail
            /\ server' = [server EXCEPT !.extents = @ \ {f}]
      /\ UNCHANGED <<owner, mover, newest, puts, moves>>

\* Those that were put are removed from the source.
DeleteMoved ==
  /\ server.pc = "put" /\ server.extents = {}
  /\ extents' = [extents EXCEPT !.src = [f \in MFiles |-> IF f \in server.deleted_ok THEN 0 ELSE @[f]]]
  /\ server' = [server EXCEPT !.pc = "idle"]
  /\ UNCHANGED <<owner, mover, newest, puts, moves, lostCalls>>

MoveNext ==
  \/ \E f \in MFiles : ClientPut(f) \/ Revoke(f) \/ GrantedLate(f)
  \/ MoveBegin \/ MoveLock \/ MoveLockFails \/ MoveCall \/ MoveEnd
  \/ TakeOut \/ PutOne \/ DeleteMoved

-----------------------------------------------------------------------------
(* Properties *)

\* Through failed locks, connections, puts and replies, and when the master
\* dies in the middle, the last content that a client put in a file is on the
\* source or on the destination: Move calls the extent server only with all
\* locks, and what the extent server deletes has arrived.
MoveKeepsNewest ==
  \A f \in MFiles : newest[f] \in {extents.src[f], extents.dst[f]}
=============================================================================
