---------------------------- MODULE ExtentServer ----------------------------
(***************************************************************************)
(* The extent server, src/src/fs/extent_server.cc: it maps extent ids to   *)
(* contents, and every operation runs under server_mu_.  A content is a    *)
(* sequence: the bytes of a file, or the entries of a directory, of which  *)
(* encode_dir and parse_dir make a string and back; an empty directory is  *)
(* the empty string.  Times are left out, and so are move and what the     *)
(* server tells the InfoCollector.                                         *)
(***************************************************************************)
EXTENDS Naturals, Sequences

CONSTANTS
  Inums,     \* extentid_t
  NoExtent   \* what extent_map_ has for an id it does not know

VARIABLE store   \* extent_map_

Root == 1

\* The server starts with an empty root directory.
StoreInit == store = [i \in Inums |-> IF i = Root THEN <<>> ELSE NoExtent]

\* get and getattr answer OK, and not NOENT.
Has(id) == store[id] # NoExtent

\* The content v when its size becomes n, the gap filled with '\0'.
Resize(v, n) ==
  IF n > Len(v) THEN v \o [i \in 1 .. n - Len(v) |-> 0] ELSE SubSeq(v, 1, n)

\* store after put, setattr and remove; remove of an unknown id is OK, too.
StorePut(id, v) == [store EXCEPT ![id] = v]
StoreSetAttr(id, n) == [store EXCEPT ![id] = IF Has(id) THEN Resize(@, n) ELSE @]
StoreRemove(id) == [store EXCEPT ![id] = NoExtent]
=============================================================================
