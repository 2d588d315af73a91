----------------------------- MODULE MCPullPin ------------------------------
(***************************************************************************)
(* The instance of PullPin that TLC checks.                                *)
(***************************************************************************)
EXTENDS PullPin

\* The whole file and more, a part that is not aligned, and nothing.
SomeRanges == {[start |-> 0, stop |-> 10], [start |-> 1, stop |-> 3], [start |-> 3, stop |-> 3]}
=============================================================================
