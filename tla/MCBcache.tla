------------------------------ MODULE MCBcache ------------------------------
(* Instances of Bcache for TLC. *)
EXTENDS Bcache, TLC

\* Processes, blocks and contents other than Blank are interchangeable.
Interchangeable == Permutations(Proc) \cup Permutations(Block)
=============================================================================
