-------------------------- MODULE MCReferenceClock --------------------------
(***************************************************************************)
(* The instance of ReferenceClock that TLC checks.                         *)
(***************************************************************************)
EXTENDS ReferenceClock

\* The clock goes a millisecond back, or forward by a step the thread is not
\* told of, or by one it is told of.
SomeDeltas == {-2, 1, 2}
=============================================================================
