----------------------------- MODULE PrefixTree -----------------------------
(***************************************************************************)
(* The prefix tree of the master, src/src/master/prefix_tree.cc and        *)
(* prefix_tree_node.cc: the tree of files and directories, of which every  *)
(* extent server that is registered has a domain.  A domain is a list of   *)
(* nodes, which carry the id of the server as their tag and have           *)
(* everything below them in it.  Adjust moves nodes between servers that   *)
(* are next to each other in kv_list_, and cuts directories up for that.   *)
(*                                                                         *)
(* The operations are those the unit tests of the tree call; the master    *)
(* itself calls RegistNewKV and Create (see Master).  A directory is made  *)
(* with size 0, as yfs_client makes it, and the first server is registered *)
(* before there are files ("prefixTree needs at least one kv has regist to *)
(* the master").                                                           *)
(***************************************************************************)
EXTENDS Integers, Sequences, SequencesExt, FiniteSets, FiniteSetsExt

CONSTANTS
  TreeNames,      \* names, as numbers in their order
  Sizes,          \* sizes of files
  Memories,       \* sum_memory of servers
  Targets,        \* target scores
  TreeBounds      \* alternative bounds of a behaviour, see TreeBound

\* Bounds: nodes ever made, with the root; servers; calls of Adjust, Remove.
TreeBound == [nodes : Nat, servers : Nat, adjusts : Nat, removes : Nat]

ASSUME PrefixTreeAssumption ==
  /\ TreeNames \cup Sizes \cup Targets \subseteq Nat /\ Memories \subseteq Nat \ {0}
  /\ TreeBounds \subseteq TreeBound

LIMIT_SCORE == 30
Root == 1
NoTag == -1

VARIABLES
  t,              \* the nodes, by inode number, and kv_list_
  place,          \* history: where a file is if every move is made in turn
  lost,           \* history: files made when no node in the tree had a tag
  adjust,         \* what became of the last Adjust
  treeBound, left \* the bounds, and what is left of them

treeVars == <<t, place, lost, adjust, treeBound, left>>

TreeInit ==
  /\ t = [node |-> <<[parent |-> 0, name |-> 0, dir |-> TRUE, sz |-> 0, tag |-> NoTag, linked |-> TRUE]>>,
          kv_list |-> <<>>]
  /\ place = <<NoTag>> /\ lost = {} /\ adjust = "done"
  /\ treeBound \in TreeBounds /\ left = [adjusts |-> treeBound.adjusts, removes |-> treeBound.removes]

\* GetList
Children(s, n) ==
  SetToSortSeq({m \in DOMAIN s.node : s.node[m].parent = n /\ s.node[m].linked},
               LAMBDA a, b : s.node[a].name < s.node[b].name)
Child(s, n, name) == {m \in ToSet(Children(s, n)) : s.node[m].name = name}

SizeOf(s, nodes) == FoldSet(LAMBDA n, sum : sum + s.node[n].sz, 0, nodes)
pushUp(s, n) == [s EXCEPT !.node[n].sz = SizeOf(s, ToSet(Children(s, n)))]

-----------------------------------------------------------------------------
(* RegistNewKV *)

\* From the third server on the loop looks at the tag count of the element
\* past the end of the list; the counts of the others are 0 (see Adjust).  If
\* it happens to be larger, the new server comes before the last.
RegistNewKV(sum_memory) ==
  LET n == Len(t.kv_list)
      info == [id |-> n + 1, sum |-> sum_memory, list |-> <<>>]
  IN  /\ n < treeBound.servers /\ adjust = "done"
      /\ \/ /\ n = 0
            /\ t' = [t EXCEPT !.kv_list = <<[info EXCEPT !.list = <<Root>>]>>, !.node[Root].tag = info.id]
         \/ n > 0 /\ t' = [t EXCEPT !.kv_list = Append(@, info)]
         \/ n > 1 /\ t' = [t EXCEPT !.kv_list = InsertAt(@, n, info)]
      /\ UNCHANGED <<place, lost, adjust, treeBound, left>>

-----------------------------------------------------------------------------
(* Create and Remove *)

\* What doGetNearByDomainID passes on its way: the outermost nodes that have
\* a tag, and the target.
RECURSIVE Tagged(_, _, _)
Tagged(s, n, target) ==
  IF n = target \/ s.node[n].tag # NoTag THEN <<n>>
  ELSE FlattenSeq([i \in DOMAIN Children(s, n) |-> Tagged(s, Children(s, n)[i], target)])

\* getNearByDomainID: the next such node after the target, or the one before
\* it if there is none; 0 if there is neither.
NearBy(s, target) ==
  LET walk == Tagged(s, Root, target)
      at == CHOOSE i \in DOMAIN walk : walk[i] = target
  IN  IF at < Len(walk) THEN walk[at + 1] ELSE IF at > 1 THEN walk[at - 1] ELSE 0

\* The list of a domain with a new node: before the one that precedes its
\* neighbour, or at the front.
Enlist(list, n, near) ==
  LET before == {i \in DOMAIN list : \A j \in 1 .. i : list[j] # near}
  IN  IF before = {} THEN <<n>> \o list ELSE InsertAt(list, Max(before), n)

\* createNode: a node that is in no domain joins that of its neighbour.
createNode(s, parent, name, is_dir, sz, domain) ==
  LET n == Len(s.node) + 1
      new == [parent |-> parent, name |-> name, dir |-> is_dir, sz |-> sz, tag |-> NoTag, linked |-> TRUE]
      made == [s EXCEPT !.node = Append(@, new)]
      near == NearBy(made, n)
      id == IF near = 0 THEN NoTag ELSE made.node[near].tag
      at == CHOOSE i \in DOMAIN s.kv_list : s.kv_list[i].id = id
  IN  IF domain # NoTag THEN [s |-> made, domain |-> domain]
      ELSE IF near = 0 THEN [s |-> made, domain |-> NoTag]
      ELSE [s |-> [made EXCEPT !.node[n].tag = id, !.kv_list[at].list = Enlist(@, n, near)],
            domain |-> id]

\* doInsert: the result of the recursive call is not looked at.
RECURSIVE doInsert(_, _, _, _, _, _)
doInsert(s, cur, path, is_dir, sz, domain) ==
  LET dom == IF domain = NoTag THEN s.node[cur].tag ELSE domain
      child == Child(s, cur, Head(path))
      fails == [s |-> s, domain |-> dom, ok |-> FALSE]
      Ends(r) == [s |-> pushUp(r.s, cur), domain |-> r.domain, ok |-> TRUE]
  IN  IF Len(path) = 1
        THEN Ends(IF child # {} THEN fails ELSE createNode(s, cur, Head(path), is_dir, sz, dom))
      ELSE IF child = {} THEN fails
      ELSE LET c == CHOOSE m \in child : TRUE
           IN  IF ~s.node[c].dir THEN fails ELSE Ends(doInsert(s, c, Tail(path), is_dir, sz, dom))

\* Create; the caller learns the server.
Create(path, is_dir, sz) ==
  LET r == doInsert(t, Root, path, is_dir, sz, NoTag)
      made == Len(r.s.node) > Len(t.node)
  IN  /\ Len(t.node) < treeBound.nodes /\ t.kv_list # <<>> /\ adjust = "done"
      /\ t' = r.s
      /\ place' = IF made THEN Append(place, r.domain) ELSE place
      /\ lost' = IF made /\ r.domain = NoTag THEN lost \cup {Len(r.s.node)} ELSE lost
      /\ UNCHANGED <<adjust, treeBound, left>>

\* Remove: the node leaves its parent, and stays in the list of its domain.
RECURSIVE doRemove(_, _, _)
doRemove(s, cur, path) ==
  LET child == Child(s, cur, Head(path))
      c == CHOOSE m \in child : TRUE
  IN  IF ~s.node[cur].dir \/ child = {} THEN s
      ELSE IF Len(path) > 1 THEN pushUp(doRemove(s, c, Tail(path)), cur)
      ELSE IF Children(s, c) # <<>> THEN s
      ELSE pushUp([s EXCEPT !.node[c].linked = FALSE], cur)

RemovePath(path) ==
  /\ left.removes > 0 /\ adjust = "done"
  /\ left' = [left EXCEPT !.removes = @ - 1]
  /\ t' = doRemove(t, Root, path)
  /\ UNCHANGED <<place, lost, adjust, treeBound>>

-----------------------------------------------------------------------------
(* Adjust works on a: t, place, whether overweighed_tag_cnt of the server   *)
(* is 1, and how it ends.  The count is set for the next server and used up *)
(* when that has its turn, so it is never more, and 0 at the end; its loop  *)
(* runs once.                                                               *)

Score(a, i, mem) == (100 * mem) \div a.t.kv_list[i].sum
ListOf(a, i) == a.t.kv_list[i].list

\* cur_memory starts as the sum over the list, and is kept so: the size of a
\* directory is that of its children.
cur_memory(a, i) == FoldLeft(LAMBDA sum, n : sum + a.t.node[n].sz, 0, ListOf(a, i))
ScoreOf(a, i) == Score(a, i, cur_memory(a, i))

\* doMove: the files of a subtree
RECURSIVE Files(_, _)
Files(s, n) ==
  IF ~s.node[n].dir THEN {n} ELSE UNION {Files(s, m) : m \in ToSet(Children(s, n))}

\* moveSubTree; a file that is not at the source stays.
MoveNode(a, n, i, j) ==
  LET from == a.t.kv_list[i].id
      to == a.t.kv_list[j].id
      moved == {m \in Files(a.t, n) : a.place[m] = from}
  IN  [a EXCEPT !.t.node[n].tag = to,
                !.place = FoldSet(LAMBDA m, p : [p EXCEPT ![m] = to], @, moved)]

\* The last of server i becomes the first of i + 1, or the other way round.
PushOne(a, i) ==
  LET n == Last(ListOf(a, i))
  IN  [MoveNode(a, n, i, i + 1) EXCEPT !.t.kv_list[i].list = Front(@),
                                       !.t.kv_list[i + 1].list = <<n>> \o @]
PullOne(a, i) ==
  LET n == Head(ListOf(a, i + 1))
  IN  [MoveNode(a, n, i + 1, i) EXCEPT !.t.kv_list[i + 1].list = Tail(@),
                                       !.t.kv_list[i].list = Append(@, n)]


\* PushDownDomainTag
PushDownDomainTag(s, n) ==
  IF s.node[n].tag = NoTag THEN s
  ELSE FoldLeft(LAMBDA r, m : [r EXCEPT !.node[m].tag = s.node[n].tag],
                [s EXCEPT !.node[n].tag = NoTag], Children(s, n))

\* splitFileNode of a directory: its children, for the last of the list.
Split(a, i, n) ==
  LET down == PushDownDomainTag(a.t, n)
  IN  [a EXCEPT !.t = [down EXCEPT !.kv_list[i].list = Front(@) \o Children(a.t, n)]]

\* "must move at least once"
Overweighed(a, i) ==
  LET n == Last(ListOf(a, i - 1))
  IN  IF a.t.node[n].sz + cur_memory(a, i) <= a.t.kv_list[i].sum THEN PushOne(a, i - 1) ELSE a

\* Pull from the next server.  An empty list has no first element.  If the
\* first is a directory to be split and not the last as well, another node is
\* popped; the directory stays the first, and as it has children the list
\* does not get shorter: the loop does not end.
RECURSIVE Pull(_, _, _)
Pull(a, i, target) ==
  LET list == ListOf(a, i + 1)
      n == Head(list)
      cur_score == Score(a, i, cur_memory(a, i) + a.t.node[n].sz)
      Loop(b) == IF ScoreOf(b, i) <= Min({LIMIT_SCORE, target}) THEN Pull(b, i, target) ELSE b
  IN  IF list = <<>> THEN [a EXCEPT !.out = "undefined"]
      ELSE IF cur_score <= target THEN Loop(PullOne(a, i))
      ELSE IF ~a.t.node[n].dir THEN a
      ELSE IF Len(list) > 1 THEN [a EXCEPT !.out = "endless"]
      ELSE Loop(Split(a, i + 1, n))

\* Push to the next server.
RECURSIVE Push(_, _, _)
Push(a, i, target) ==
  LET n == Last(ListOf(a, i))
  IN  IF ListOf(a, i) = <<>> \/ ScoreOf(a, i) <= target \/ i = Len(a.t.kv_list) THEN a
      ELSE IF Score(a, i + 1, a.t.node[n].sz + cur_memory(a, i + 1)) <= target THEN Push(PushOne(a, i), i, target)
      ELSE IF a.t.node[n].dir THEN Push(Split(a, i, n), i, target)
      ELSE [a EXCEPT !.over = TRUE]

\* One turn of the loop over the servers.
Turn(a, i, target) ==
  LET first == IF a.over THEN Overweighed(a, i) ELSE a
      pulls == /\ i < Len(a.t.kv_list) /\ ScoreOf(first, i) <= Min({LIMIT_SCORE, target})
               /\ ScoreOf(first, i + 1) > target
      second == IF pulls THEN Pull([first EXCEPT !.over = FALSE], i, target)
                ELSE [first EXCEPT !.over = FALSE]
  IN  IF a.out # "done" THEN a ELSE IF second.out # "done" THEN second ELSE Push(second, i, target)

Adjust(target) ==
  LET a == [t |-> t, place |-> place, over |-> FALSE, out |-> "done"]
      r == FoldLeft(LAMBDA b, i : Turn(b, i, target), a, [i \in DOMAIN t.kv_list |-> i])
  IN  /\ left.adjusts > 0 /\ adjust = "done"
      /\ left' = [left EXCEPT !.adjusts = @ - 1]
      /\ t' = r.t /\ place' = r.place /\ adjust' = r.out
      /\ UNCHANGED <<lost, treeBound>>

TreePaths == {<<n>> : n \in TreeNames} \cup (TreeNames \X TreeNames)

TreeNext ==
  \/ \E sum \in Memories : RegistNewKV(sum)
  \/ \E path \in TreePaths :
       \/ Create(path, TRUE, 0)
       \/ \E sz \in Sizes : Create(path, FALSE, sz)
       \/ RemovePath(path)
  \/ \E target \in Targets : Adjust(target)

-----------------------------------------------------------------------------
(* Properties *)

RECURSIVE Above(_)
Above(n) == IF n = 0 THEN {} ELSE {n} \cup Above(t.node[n].parent)

=============================================================================
