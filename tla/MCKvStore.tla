------------------------------ MODULE MCKvStore ------------------------------
(***************************************************************************)
(* Instances of KvStore for TLC: one call with a change of the leader, and *)
(* two calls that are applied to a database that a node opens again.       *)
(***************************************************************************)
EXTENDS KvStore

CONSTANTS c1, c2, n1, n2, k1

OneCall(c) == [callers |-> {c}, ops |-> {"PUT", "GET"}, elections |-> 2, starts |-> 3]
TwoCalls == [callers |-> {c1, c2}, ops |-> {"PUT"}, elections |-> 1, starts |-> 2]
Cases == {OneCall(c1), OneCall(c2), TwoCalls}
=============================================================================
