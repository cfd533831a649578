------------------------------- MODULE MCPipe -------------------------------
(***************************************************************************)
(* A small instance of Pipe.                                               *)
(***************************************************************************)
EXTENDS Pipe, TLC

\* A write that fits and one that does not.
ShortLong == {<<1>>, <<0, 1, 1>>}
=============================================================================
