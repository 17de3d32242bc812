------------------------------ MODULE Collector ------------------------------
(***************************************************************************)
(* InfoCollector, src/src/fs/info_collector.cc, through which an extent    *)
(* server tells the master the sizes of extents that have changed.  Every  *)
(* put, setattr and remove adds to vectors of inums and of sizes under     *)
(* info_mu; a thread sends them every three seconds and clears them after  *)
(* the call, also if it failed, and without info_mu: one vector after the  *)
(* other, in a data race with a change.  The vector of types, which nothing*)
(* depends on, is left out.                                                *)
(***************************************************************************)
EXTENDS Naturals, Sequences, SequencesExt, FiniteSets

CONSTANTS
  DirtyInums,   \* inums, as numbers
  MaxChanges,   \* bound: changes, whose numbers stand for sizes
  MaxBeats      \* bound: heartbeats

VARIABLES
  inum, sz,     \* the vectors of i_
  adder,        \* AddDirtyData: what it did last, and the inum
  beat,         \* the thread: what it does next, and what Get returned
  size,         \* the sizes of extents
  known,        \* the sizes that the master was told
  raced,        \* history: a change raced the last clear
  untold,       \* history: inums whose change came at a bad time: after
                \* another of the same extent that was not sent yet, during a
                \* heartbeat, before one that failed, or after such a race
  changes, beats

dirtyVars == <<inum, sz, adder, beat, size, known, raced, untold, changes, beats>>

DirtyInit ==
  /\ inum = <<>> /\ sz = <<>>
  /\ adder = [did |-> "unlock", i |-> 0] /\ beat = [pc |-> "get", info |-> {}]
  /\ size = [i \in DirtyInums |-> 0] /\ known = [i \in DirtyInums |-> 0]
  /\ raced = FALSE /\ untold = {} /\ changes = 0 /\ beats = 0

Unlocked == adder.did = "unlock"
Inums(info) == {r.inum : r \in info}

-----------------------------------------------------------------------------
(* AddDirtyData *)

\* A size changes, under server_mu_, and the inum is added.
AddInum(i) ==
  /\ changes < MaxChanges /\ Unlocked /\ beat.pc # "dead"
  /\ changes' = changes + 1
  /\ size' = [size EXCEPT ![i] = changes']
  /\ inum' = Append(inum, i)
  /\ adder' = [did |-> "inum", i |-> i]
  /\ raced' = (raced \/ beat.pc = "clear sz")
  /\ untold' = IF beat.pc = "get" /\ i \notin ToSet(inum) /\ ~raced THEN untold \ {i} ELSE untold \cup {i}
  /\ UNCHANGED <<sz, beat, known, beats>>

AddSize ==
  /\ adder.did = "inum"
  /\ sz' = Append(sz, size[adder.i])
  /\ adder' = [adder EXCEPT !.did = "sz"]
  /\ UNCHANGED <<inum, beat, size, known, raced, untold, changes, beats>>

AddEnd ==
  /\ adder.did = "sz"
  /\ adder' = [did |-> "unlock", i |-> 0]
  /\ UNCHANGED <<inum, sz, beat, size, known, raced, untold, changes, beats>>

-----------------------------------------------------------------------------
(* SendHeartBeat *)


\* The records that Get keeps: the first of each inum (map::insert).
Firsts(n) == {k \in 1 .. n : \A j \in 1 .. k - 1 : inum[j] # inum[k]}

\* Get under info_mu: the vectors become the records kept, in the order of
\* inums.  After a race there may be no size for an inum: what is read in its
\* place is any number, or the extent server dies.
BeatGet ==
  LET n == Len(inum)
      bad == {k \in 1 .. n : k > Len(sz)}
  IN  /\ beat.pc = "get" /\ beats < MaxBeats /\ Unlocked
      /\ beats' = beats + 1
      /\ \/ \E garbage \in [bad -> 0 .. MaxChanges] :
              LET info == {[inum |-> inum[k], sz |-> IF k \in bad THEN garbage[k] ELSE sz[k]] : k \in Firsts(n)}
                  kept == SetToSortSeq(info, LAMBDA r, s : r.inum < s.inum)
              IN  /\ beat' = [pc |-> "call", info |-> info]
                  /\ inum' = [k \in DOMAIN kept |-> kept[k].inum]
                  /\ sz' = [k \in DOMAIN kept |-> kept[k].sz]
         \/ bad # {} /\ beat' = [pc |-> "dead", info |-> {}] /\ UNCHANGED <<inum, sz>>
      /\ UNCHANGED <<adder, size, known, raced, untold, changes>>

\* The master is told (UpdateKVInfo, which does nothing with it), or the call
\* fails.
BeatCall ==
  /\ beat.pc = "call"
  /\ beat' = [pc |-> "clear inum", info |-> {}]
  /\ \/ /\ known' = [i \in DirtyInums |-> IF i \in Inums(beat.info) THEN (CHOOSE r \in beat.info : r.inum = i).sz ELSE known[i]]
        /\ untold' = IF raced THEN untold \cup Inums(beat.info) ELSE untold
     \/ untold' = untold \cup Inums(beat.info) /\ UNCHANGED known
  /\ UNCHANGED <<inum, sz, adder, size, raced, changes, beats>>

\* clear of one vector; one that races a push_back may be without effect.
ClearInum ==
  /\ beat.pc = "clear inum"
  /\ inum' \in {<<>>} \cup {v \in {inum} : adder.did = "inum"}
  /\ raced' = ~Unlocked
  /\ beat' = [beat EXCEPT !.pc = "clear sz"]
  /\ UNCHANGED <<sz, adder, size, known, untold, changes, beats>>

ClearSize ==
  /\ beat.pc = "clear sz"
  /\ sz' \in {<<>>} \cup {v \in {sz} : adder.did = "sz"}
  /\ beat' = [beat EXCEPT !.pc = "get"]
  /\ UNCHANGED <<inum, adder, size, known, raced, untold, changes, beats>>

DirtyNext ==
  \/ \E i \in DirtyInums : AddInum(i)
  \/ AddSize \/ AddEnd \/ BeatGet \/ BeatCall \/ ClearInum \/ ClearSize

-----------------------------------------------------------------------------
(* Properties *)

=============================================================================
