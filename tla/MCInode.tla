------------------------------ MODULE MCInode ------------------------------
(* Small instances of Inode and of Spinlock, which share no state: part    *)
(* says which one runs.                                                    *)
EXTENDS Inode

CONSTANTS p1, p2, CPU

VARIABLES part, owner, ncli, intena, FL_IF, todo, spinning
lockvars == <<owner, ncli, intena, FL_IF, todo, spinning>>

MCProc == {p1, p2}
A == <<"/", "a">>
AB == <<"/", "a", "b">>
B == <<"b">>
Each(calls, paths) == {<<c, path, <<>>>> : c \in calls, path \in paths}
MCCall ==
  p1 :> Each({"mkdir", "unlink", "chdir"}, {A, B}) @@
  p2 :> (Each({"open", "creat", "unlink"}, {A, AB}) \cup Each({"unlink"}, {<<"/">>})
         \cup {<<"link", A, AB>>, <<"link", AB, A>>, <<"link", A, <<"/">>>>})

\* Every lock path but the one of the cps() system call, and the handlers.
LockPath == INSTANCE Spinlock WITH Call <- {}, Handler <- {}
MCHandler == {LockPath!trap_timer, LockPath!consoleintr, LockPath!ideintr}
Spin == INSTANCE Spinlock WITH Call <- LockPath!Path \ ({LockPath!cps} \cup MCHandler),
                               Handler <- MCHandler

MCInit == part \in {"tree", "lock"} /\ Init /\ Spin!Init
MCNext ==
  /\ UNCHANGED part
  /\ \/ part = "tree" /\ Next /\ UNCHANGED lockvars
     \/ part = "lock" /\ Spin!Next /\ UNCHANGED vars
MCSpec == MCInit /\ [][MCNext]_<<part, vars, lockvars>>

-----------------------------------------------------------------------------
(* The invariants of Spinlock.                                             *)

\* A CPU never acquires a lock it holds and releases only locks it holds, and
\* pushcli() and popcli() match.
LocksMatched ==
  part = "lock" => Spin!TypeOK /\ Spin!NeverReacquired /\ Spin!CliMatched

\* No CPUs spin for each other's locks.
NoLockCycle == part = "lock" => Spin!NoLockCycle
=============================================================================
