-------------------------------- MODULE Mvcc --------------------------------
(***************************************************************************)
(* SimpleMVCC, src/src/mvcc/mvcc.cc, which keeps versions of a value in a  *)
(* key-value store under keys made of the raw key, '_' and the bytes of a  *)
(* timestamp, lowest byte first, and '_d' if the version is a deletion.    *)
(*                                                                         *)
(* A timestamp has two bytes here, each one of 0 .. Base - 1, of which one *)
(* is the code of '_'.  The stores are MockKV (src/src/kv/mock_kv.cc) and  *)
(* RaftKV, which differ in what their Query finds.                         *)
(***************************************************************************)
EXTENDS Integers, Sequences, SequencesExt, FiniteSets, FiniteSetsExt

CONSTANTS
  RawKeys,    \* raw keys, as numbers in their order; none has a '_'
  Base,       \* values of a byte
  Underscore, \* the byte '_'
  MaxVersions \* bound: versions put

ASSUME MvccAssumption ==
  /\ RawKeys \subseteq Nat /\ {Base, MaxVersions} \subseteq Nat
  /\ Underscore \in 0 .. Base - 1

VARIABLES
  kvs,        \* the store: keys to values
  versions    \* versions put so far, which are also their values

mvccVars == <<kvs, versions>>

MvccInit == kvs = <<>> /\ versions = 0

Timestamps == 0 .. Base * Base - 1
ts_to_str(t) == <<t % Base, t \div Base>>

\* The order of keys in the store.
Before(a, b) ==
  IF a.key # b.key THEN a.key < b.key
  ELSE IF a.ts # b.ts
    THEN LET s == ts_to_str(a.ts)
             t == ts_to_str(b.ts)
         IN  s[1] < t[1] \/ (s[1] = t[1] /\ s[2] < t[2])
  ELSE ~a.del /\ b.del

\* Query: MockKV gives the versions of the raw key, RaftKV whatever has a '_'
\* from the raw key on to the end of the database.
Query(kind, key) ==
  LET found == {e \in DOMAIN kvs : e.key = key \/ (kind = "raft" /\ e.key > key)}
  IN  SetToSortSeq(found, Before)

\* Insert and Delete; what is put replaces what is there.
Put(e) ==
  /\ versions < MaxVersions
  /\ versions' = versions + 1
  /\ kvs' = [x \in DOMAIN kvs \cup {e} |-> IF x = e THEN versions' ELSE kvs[x]]
Insert(key, ts) == Put([key |-> key, ts |-> ts, del |-> FALSE])
Delete(kind, key, ts) ==
  /\ Query(kind, key) # <<>>
  /\ Put([key |-> key, ts |-> ts, del |-> TRUE])


\* search_version: the loop, with the indices of the code.
search_version(vec, key) ==
  LET Search[lb \in Nat, ub \in Int, ret \in Int] ==
        LET mid == (lb + ub) \div 2
        IN  IF lb > ub THEN ret
            ELSE IF vec[mid + 1] <= key THEN Search[mid + 1, ub, mid]
            ELSE Search[lb, mid - 1, ret]
  IN  Search[0, Len(vec) - 1, -1]

\* The times '_' is in a key: what Select tells deletions by.
Underscores(e) ==
  1 + Cardinality({i \in 1 .. 2 : ts_to_str(e.ts)[i] = Underscore}) + (IF e.del THEN 1 ELSE 0)

\* Select: 0 if it returns false.
Select(kind, key, ts) ==
  LET data == Query(kind, key)
      data_timestamp == [i \in DOMAIN data |-> data[i].ts]
      data_del == {data[i].ts : i \in {j \in DOMAIN data : Underscores(data[j]) = 2}}
      idx == search_version(data_timestamp, ts)
  IN  IF \E i \in DOMAIN data : Underscores(data[i]) > 2 THEN 0
      ELSE IF idx < 0 THEN 0
      ELSE IF data[idx + 1].ts \in data_del THEN 0
      ELSE kvs[data[idx + 1]]

MvccNext ==
  \E key \in RawKeys, ts \in Timestamps :
    Insert(key, ts) \/ \E kind \in {"mock", "raft"} : Delete(kind, key, ts)

-----------------------------------------------------------------------------
(* Properties *)

\* The value of a key at a time, as the tests of mvcc have it: that of the
\* newest version up to then, and none if that is deleted.
ValueAt(key, ts) ==
  LET past == {e \in DOMAIN kvs : e.key = key /\ e.ts <= ts}
      newest == {e \in past : \A f \in past : f.ts <= e.ts}
  IN  IF newest = {} \/ \E e \in newest : e.del THEN 0 ELSE kvs[CHOOSE e \in newest : TRUE]

=============================================================================
