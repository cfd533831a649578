------------------------------ MODULE MCParts -------------------------------
(* The parts that a single actor drives or that share no state, each on    *)
(* its own: part says which one runs, the others stay as they began.       *)
EXTENDS Memory, Blocks, Umalloc, Clock, Boot, Shell, UnixShell

CONSTANTS s1

VARIABLE part

Seg(v, m, f, s) == [vaddr |-> v, memsz |-> m, filesz |-> f, short |-> s]
MCProgram ==
  {<<Seg(0, 1, 1, FALSE)>>, <<Seg(0, 2, 2, FALSE), Seg(2, 1, 0, FALSE)>>, <<Seg(1, 1, 1, FALSE)>>,
   <<Seg(0, 2, 2, FALSE), Seg(2, 1, 1, TRUE)>>, <<Seg(0, 1, 2, FALSE)>>,
   <<Seg(18, 4, 0, FALSE)>>}
MCShmSize == {-1, 2, 3}
MCIncrement == {-19, -2, 1, 3, 9}
MCInterval == {-2, 0, 1, 3}
MCEarly == <<1, 2, 3>>
MCLater == <<4, 5>>
MCOverlaid == {<<"a", "&">>}
MCRunnable == MCOverlaid \cup
  {<<"a">>, <<"|">>, <<"a", "a", "a">>, <<"a", "<", "a">>, <<"a", "|", "a">>, <<"a", ";", "a">>,
   <<"a", "|", "a", "|", "a">>, <<"(", "a", "&", ")", "|", "a">>,
   <<"(", "a", ";", "a", ")", "|", "a">>, <<"a", "|", "(", "a", "|", "a", ")">>}
MCComponent == {<<"d">>, <<"f">>, <<".">>, <<".", ".">>}
MCDirs == {<<>>, <<<<"d">>>>, <<<<"d">>, <<"f">>>>}
MCCwd == <<<<"d">>>>
MCHome == <<"/", "h">>
MCReadOnly == {<<>>}
MCCdArg ==
  {<<>>, <<"/">>, <<"/", "d">>, <<"/", "x">>, <<".">>, <<".", ".">>, <<".", ".", "/", "d">>,
   <<".", ".", "d">>, <<".", "/", "f">>, <<"f">>, <<"f", "/">>}

Init ==
  /\ part \in {"memory", "blocks", "heap", "clock", "boot", "shell", "unix", "line", "path"}
  /\ MemInit /\ HeapInit /\ BootInit /\ ShInit /\ UxInit
  /\ \E n \in IF part = "blocks" THEN FileSize ELSE {0} : mkfs(n)
  /\ ticks \in (IF part = "clock" THEN 0..UINT - 1 ELSE {0}) /\ ClockInit

Kernel == <<memvars, blkvars, clockvars, bootvars>>
User == <<heapvars, shvars, uxvars>>

Next ==
  /\ UNCHANGED part
  /\ \/ part = "memory" /\ MemNext /\ UNCHANGED <<blkvars, clockvars, bootvars, User>>
     \/ part = "blocks" /\ BlkNext /\ UNCHANGED <<memvars, clockvars, bootvars, User>>
     \/ part = "clock" /\ ClockNext /\ UNCHANGED <<memvars, blkvars, bootvars, User>>
     \/ part = "boot" /\ BootNext /\ UNCHANGED <<memvars, blkvars, clockvars, User>>
     \/ part = "heap" /\ HeapNext /\ UNCHANGED <<Kernel, shvars, uxvars>>
     \/ part = "shell" /\ ShNext /\ UNCHANGED <<Kernel, heapvars, uxvars>>
     \/ /\ \/ part = "unix" /\ UxNext
           \/ part = "line" /\ scanf
           \/ part = "path" /\ ((path = <<>> /\ \E arg \in CdArg : custom_cd(arg)) \/ type_path)
        /\ UNCHANGED <<Kernel, heapvars, shvars>>

Spec == Init /\ [][Next]_<<part, Kernel, User>>
=============================================================================
