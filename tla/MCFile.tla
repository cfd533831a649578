------------------------------- MODULE MCFile -------------------------------
(***************************************************************************)
(* A small instance of File.                                               *)
(***************************************************************************)
EXTENDS File, TLC

\* Processes are interchangeable.
SameProcs == Permutations(Proc)
=============================================================================
