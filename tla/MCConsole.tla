------------------------------ MODULE MCConsole ------------------------------
(***************************************************************************)
(* A small instance of Console; the configuration gives its sizes.         *)
(***************************************************************************)
EXTENDS Console, TLC
=============================================================================
