------------------------------- MODULE MCProc -------------------------------
(***************************************************************************)
(* Small instances of Proc; the configurations give their sizes.           *)
(***************************************************************************)
EXTENDS Proc, TLC
=============================================================================
