------------------------------ MODULE MCPager -------------------------------
(* Instances of Pager for TLC: connections are interchangeable. *)
EXTENDS Pager, TLC

ConnSymmetry == Permutations(Conn)
=============================================================================
