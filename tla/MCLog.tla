------------------------------- MODULE MCLog -------------------------------
(***************************************************************************)
(* Small instances of Log.  The configurations choose the sizes; here are  *)
(* the values that are not model values.                                   *)
(***************************************************************************)
EXTENDS Log, TLC

\* mkfs writes the same content everywhere, so that runs with a symmetric
\* set of blocks start from a symmetric state.
Formatted == [b \in Block |-> Zero]
=============================================================================
