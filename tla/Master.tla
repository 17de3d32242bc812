------------------------------- MODULE Master -------------------------------
(***************************************************************************)
(* The part of the master that gives out inums, src/src/master/master.cc   *)
(* and prefix_tree.cc.                                                     *)
(*                                                                         *)
(* genInum takes the next number and enters the new file into the prefix   *)
(* tree.  The path it enters is the name of the parent (inum_to_path_      *)
(* has the name, without the directories above) and the name of the file,  *)
(* so the tree is never deeper than two; what unlink removes stays in it.  *)
(* All extents belong to the extent server that registered first: the root *)
(* of the tree has its id, and the thread that would move them to others   *)
(* does not run (stop_ is true from the start).                            *)
(***************************************************************************)
EXTENDS Naturals

CONSTANTS
  Names,     \* file names
  FileBit,   \* stands for 0x80000000: the inums of files are larger
  MaxInum    \* bound: numbers given out, the root's included

VARIABLES
  ino_count,     \* ino_count_
  inum_to_path,  \* inum_to_path_, "" for the inums it does not have
  tree,          \* the children of the root of the prefix tree: name to kind
  aborted        \* an assertion failed

masterVars == <<ino_count, inum_to_path, tree, aborted>>

AllInums == 1 .. MaxInum \cup {FileBit + n : n \in 2 .. MaxInum}

MasterInit ==
  /\ ino_count = 2
  /\ inum_to_path = [i \in AllInums |-> ""]
  /\ tree = [n \in Names |-> "none"]
  /\ aborted = FALSE

IsFile(i) == i > FileBit

Fresh(is_dir) == IF is_dir THEN ino_count ELSE FileBit + ino_count

\* doInsert finds the place for an entry of directory parent: at the root, or
\* in a child of the root that is a directory.
Inserts(parent) ==
  inum_to_path[parent] = "" \/ tree[inum_to_path[parent]] = "dir"

\* AskForIno: the new inum is Fresh(is_dir).  A child of the root that is
\* there already stays as it is.  The assertion is that doInsert succeeds.
GenInum(parent, name, is_dir) ==
  /\ ino_count <= MaxInum
  /\ ino_count' = ino_count + 1
  /\ tree' = IF inum_to_path[parent] = "" /\ tree[name] = "none"
               THEN [tree EXCEPT ![name] = IF is_dir THEN "dir" ELSE "file"] ELSE tree
  /\ inum_to_path' = [inum_to_path EXCEPT ![Fresh(is_dir)] = name]
  /\ aborted' = ~Inserts(parent)
=============================================================================
