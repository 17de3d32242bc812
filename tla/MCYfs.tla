------------------------------- MODULE MCYfs -------------------------------
(* Instances of Yfs for TLC. *)
EXTENDS Yfs

CONSTANTS c1, c2

\* Clients are interchangeable.
ClientSymmetry == Permutations({c1, c2})
=============================================================================
