----------------------------- MODULE PipeProofs -----------------------------
(***************************************************************************)
(* Proofs about Pipe for any number of readers and writers and any size:   *)
(* the page is freed when nobody can use it, no wakeup is lost, and the    *)
(* pipe is a byte stream.                                                  *)
(***************************************************************************)
EXTENDS Pipe, RingProofs, TLAPS

\* The holder of p->lock is the one process inside a critical section.
LockHeld == \A p \in Proc : pc[p] \in {"loop", "presleep"} <=> lock = p

\* A process that has closed its end does not refer to it; the last one to do so is on
\* its way to pipeclose(), and an end that is not open has nobody left.
EndOpen(mine, isopen) ==
  /\ \A p \in mine : p \notin fd <=> pc[p] \in {"close", "closed"}
  /\ \A p \in mine : pc[p] = "close" => fd \cap mine = {}
  /\ \A p, q \in mine : pc[p] = "close" /\ pc[q] = "close" => p = q
  /\ ~isopen => \A p \in mine : pc[p] = "closed"

Ends ==
  /\ EndOpen(Writer, writeopen) /\ EndOpen(Reader, readopen)
  /\ freed => ~readopen /\ ~writeopen

\* A writer sleeps while the pipe is full, or while a reader that has taken a byte from
\* it is still in piperead().
WritersSleep ==
  \A w \in Writer :
    /\ pc[w] = "presleep" => Full /\ readopen
    /\ pc[w] = "sleep" =>
         /\ readopen
         /\ Full \/ \E r \in Reader : lock = r /\ pc[r] = "loop" /\ got[r] # <<>>

\* A reader sleeps while the pipe is empty, or while a writer is in pipewrite(); one that
\* was killed there may have left bytes.
ReadersSleep ==
  \A r \in Reader :
    /\ pc[r] = "presleep" => Empty /\ writeopen
    /\ pc[r] = "sleep" =>
         /\ writeopen
         /\ Empty \/ Writer \cap killed # {} \/ \E w \in Writer : lock = w /\ pc[w] = "loop"

Inv == TypeOK /\ LockHeld /\ Ends /\ WritersSleep /\ ReadersSleep

-----------------------------------------------------------------------------

\* The counters stay below their range, and an index within the ring.
LEMMA Remainder ==
  ASSUME NEW a \in Nat, NEW b \in Nat \ {0}
  PROVE  a % b \in 0..b - 1
  OBVIOUS

\* Nobody is in the pipe when it has just been made.
LEMMA InitInv == Init => Inv
<1> SUFFICES ASSUME Init PROVE Inv
  OBVIOUS
<1> USE PipeAssumption DEF Init, Proc
<1>1. TypeOK
  <2>1. data \in [0..PIPESIZE-1 -> Byte] /\ 0 \in 0..WRAP-1
    OBVIOUS
  <2>2. todo \in [Writer -> Seq(Byte)] /\ got \in [Reader -> Seq(Byte)]
    OBVIOUS
  <2> QED
    BY <2>1, <2>2 DEF TypeOK, Pcs
<1>2. LockHeld
  BY DEF LockHeld
<1>3. Ends
  BY DEF Ends, EndOpen
<1>4. WritersSleep /\ ReadersSleep
  BY DEF WritersSleep, ReadersSleep
<1> QED
  BY <1>1, <1>2, <1>3, <1>4 DEF Inv

\* p->lock is taken when it is free.
LEMMA StepAcquire == ASSUME NEW p \in Proc, Inv, acquire(p) PROVE Inv'
<1>0. Writer \cap Reader = {} /\ None \notin Proc
  BY PipeAssumption DEF Proc
<1> USE <1>0 DEF Inv, Proc
<1>1. pc[p] = "call" /\ pc'[p] = "loop" /\ lock = None /\ lock' = p
      /\ \A q \in Proc \ {p} : pc'[q] = pc[q]
  BY DEF acquire, TypeOK
<1>2. data' = data /\ nread' = nread /\ nwrite' = nwrite /\ readopen' = readopen /\ writeopen' = writeopen
      /\ freed' = freed /\ fd' = fd /\ killed' = killed /\ todo' = todo /\ got' = got
  BY DEF acquire, pipe
<1>3. Full' = Full /\ Empty' = Empty
  BY <1>2 DEF Full, Empty
<1>4. TypeOK'
  BY <1>1, <1>2, PipeAssumption DEF TypeOK, Pcs, acquire
<1>5. LockHeld'
  BY <1>1, <1>2 DEF LockHeld, TypeOK
<1>6. Ends'
  BY <1>1, <1>2 DEF Ends, EndOpen
<1>7. WritersSleep'
  BY <1>1, <1>2, <1>3 DEF WritersSleep, LockHeld
<1>8. ReadersSleep'
  BY <1>1, <1>2, <1>3 DEF ReadersSleep, LockHeld
<1> QED
  BY <1>4, <1>5, <1>6, <1>7, <1>8

\* sleep() gives p->lock up when the process is SLEEPING.
LEMMA StepSleep == ASSUME NEW p \in Proc, Inv, sleep(p) PROVE Inv'
<1>0. Writer \cap Reader = {} /\ None \notin Proc
  BY PipeAssumption DEF Proc
<1> USE <1>0 DEF Inv, Proc
<1>1. pc[p] = "presleep" /\ pc'[p] = "sleep" /\ lock' = None
      /\ \A q \in Proc \ {p} : pc'[q] = pc[q]
  BY DEF sleep, TypeOK
<1>2. data' = data /\ nread' = nread /\ nwrite' = nwrite /\ readopen' = readopen /\ writeopen' = writeopen
      /\ freed' = freed /\ fd' = fd /\ killed' = killed /\ todo' = todo /\ got' = got
  BY DEF sleep, pipe
<1>3. Full' = Full /\ Empty' = Empty
  BY <1>2 DEF Full, Empty
<1>4. TypeOK'
  BY <1>1, <1>2, PipeAssumption DEF TypeOK, Pcs, sleep
<1>5. LockHeld'
  BY <1>1, <1>2 DEF LockHeld, TypeOK
<1>6. Ends'
  BY <1>1, <1>2 DEF Ends, EndOpen
<1>7. WritersSleep'
  BY <1>1, <1>2, <1>3 DEF WritersSleep, LockHeld
<1>8. ReadersSleep'
  BY <1>1, <1>2, <1>3 DEF ReadersSleep, LockHeld
<1> QED
  BY <1>4, <1>5, <1>6, <1>7, <1>8

\* A write() begins.
LEMMA StepWrite == ASSUME NEW w \in Writer, Inv, write(w) PROVE Inv'
<1>0. Writer \cap Reader = {} /\ None \notin Proc
  BY PipeAssumption DEF Proc
<1> USE <1>0 DEF Inv, Proc
<1>1. pc[w] = "user" /\ pc'[w] = "call"
      /\ \A q \in Proc \ {w} : pc'[q] = pc[q]
  BY DEF write, TypeOK
<1>2. data' = data /\ nread' = nread /\ nwrite' = nwrite /\ readopen' = readopen /\ writeopen' = writeopen
      /\ freed' = freed /\ fd' = fd /\ killed' = killed /\ lock' = lock /\ got' = got
  BY DEF write, pipe
<1>3. Full' = Full /\ Empty' = Empty
  BY <1>2 DEF Full, Empty
<1>4. TypeOK'
  BY <1>1, <1>2, PipeAssumption DEF TypeOK, Pcs, write
<1>5. LockHeld'
  BY <1>1, <1>2 DEF LockHeld, TypeOK
<1>6. Ends'
  BY <1>1, <1>2 DEF Ends, EndOpen
<1>7. WritersSleep'
  BY <1>1, <1>2, <1>3 DEF WritersSleep, LockHeld
<1>8. ReadersSleep'
  BY <1>1, <1>2, <1>3 DEF ReadersSleep, LockHeld
<1> QED
  BY <1>4, <1>5, <1>6, <1>7, <1>8

\* A read() begins.
LEMMA StepRead == ASSUME NEW r \in Reader, Inv, read(r) PROVE Inv'
<1>0. Writer \cap Reader = {} /\ None \notin Proc
  BY PipeAssumption DEF Proc
<1> USE <1>0 DEF Inv, Proc
<1>1. pc[r] = "user" /\ pc'[r] = "call"
      /\ \A q \in Proc \ {r} : pc'[q] = pc[q]
  BY DEF read, TypeOK
<1>2. data' = data /\ nread' = nread /\ nwrite' = nwrite /\ readopen' = readopen /\ writeopen' = writeopen
      /\ freed' = freed /\ fd' = fd /\ killed' = killed /\ lock' = lock /\ todo' = todo
  BY DEF read, pipe
<1>3. Full' = Full /\ Empty' = Empty
  BY <1>2 DEF Full, Empty
<1>9. \A q \in Reader \ {r} : got'[q] = got[q]
  BY DEF read, TypeOK
<1>4. TypeOK'
  BY <1>1, <1>2, PipeAssumption DEF TypeOK, Pcs, read
<1>5. LockHeld'
  BY <1>1, <1>2 DEF LockHeld, TypeOK
<1>6. Ends'
  BY <1>1, <1>2 DEF Ends, EndOpen
<1>7. WritersSleep'
  BY <1>1, <1>2, <1>3, <1>9 DEF WritersSleep, LockHeld
<1>8. ReadersSleep'
  BY <1>1, <1>2, <1>3, <1>9 DEF ReadersSleep, LockHeld
<1> QED
  BY <1>4, <1>5, <1>6, <1>7, <1>8

\* kill() wakes the process it kills.
LEMMA StepKill == ASSUME NEW p \in Proc, Inv, kill(p) PROVE Inv'
<1>0. Writer \cap Reader = {} /\ None \notin Proc
  BY PipeAssumption DEF Proc
<1> USE <1>0 DEF Inv, Proc
<1>1. pc'[p] = (IF pc[p] = "sleep" THEN "call" ELSE pc[p]) /\ killed' = killed \cup {p}
      /\ \A q \in Proc \ {p} : pc'[q] = pc[q]
  BY DEF kill, TypeOK
<1>2. data' = data /\ nread' = nread /\ nwrite' = nwrite /\ readopen' = readopen /\ writeopen' = writeopen
      /\ freed' = freed /\ fd' = fd /\ lock' = lock /\ todo' = todo /\ got' = got
  BY DEF kill, pipe
<1>3. Full' = Full /\ Empty' = Empty
  BY <1>2 DEF Full, Empty
<1>4. TypeOK'
  BY <1>1, <1>2, PipeAssumption DEF TypeOK, Pcs, kill
<1>5. LockHeld'
  BY <1>1, <1>2 DEF LockHeld, TypeOK
<1>6. Ends'
  BY <1>1, <1>2 DEF Ends, EndOpen
<1>7. WritersSleep'
  BY <1>1, <1>2, <1>3 DEF WritersSleep, LockHeld
<1>8. ReadersSleep'
  BY <1>1, <1>2, <1>3 DEF ReadersSleep, LockHeld
<1> QED
  BY <1>4, <1>5, <1>6, <1>7, <1>8

\* A reader waits for bytes, or leaves because it was killed.
LEMMA StepReadEmpty == ASSUME NEW r \in Reader, Inv, piperead_empty(r) PROVE Inv'
<1>0. Writer \cap Reader = {} /\ None \notin Proc
  BY PipeAssumption DEF Proc
<1> USE <1>0 DEF Inv, Proc
<1>1. CASE r \in killed /\ lock' = None /\ pc' = [pc EXCEPT ![r] = "user"]
  <2>1. pc[r] = "loop" /\ pc'[r] = "user" /\ lock' = None
        /\ \A q \in Proc \ {r} : pc'[q] = pc[q]
    BY <1>1 DEF piperead_empty, TypeOK
  <2>2. data' = data /\ nread' = nread /\ nwrite' = nwrite /\ readopen' = readopen /\ writeopen' = writeopen
      /\ freed' = freed /\ fd' = fd /\ killed' = killed /\ todo' = todo /\ got' = got
    BY <1>1 DEF piperead_empty, pipe
  <2>3. Full' = Full /\ Empty' = Empty
    BY <2>2 DEF Full, Empty
  <2>9. got[r] = <<>>
    BY <1>1 DEF piperead_empty, TypeOK, MustWait
  <2>4. TypeOK'
    BY <1>1, <2>1, <2>2 DEF TypeOK, Pcs, piperead_empty
  <2>5. LockHeld'
    BY <2>1, <2>2 DEF LockHeld, TypeOK
  <2>6. Ends'
    BY <2>1, <2>2 DEF Ends, EndOpen
  <2>7. WritersSleep'
    BY <2>1, <2>2, <2>3, <2>9 DEF WritersSleep, LockHeld
  <2>8. ReadersSleep'
    BY <2>1, <2>2, <2>3 DEF ReadersSleep, LockHeld
  <2> QED
    BY <2>4, <2>5, <2>6, <2>7, <2>8
<1>2. CASE r \notin killed /\ lock' = lock /\ pc' = [pc EXCEPT ![r] = "presleep"]
  <2>1. pc[r] = "loop" /\ pc'[r] = "presleep" /\ lock' = lock
        /\ \A q \in Proc \ {r} : pc'[q] = pc[q]
    BY <1>2 DEF piperead_empty, TypeOK
  <2>2. data' = data /\ nread' = nread /\ nwrite' = nwrite /\ readopen' = readopen /\ writeopen' = writeopen
      /\ freed' = freed /\ fd' = fd /\ killed' = killed /\ todo' = todo /\ got' = got
    BY <1>2 DEF piperead_empty, pipe
  <2>3. Full' = Full /\ Empty' = Empty
    BY <2>2 DEF Full, Empty
  <2>9. got[r] = <<>> /\ Empty /\ writeopen
    BY <1>2 DEF piperead_empty, TypeOK, MustWait
  <2>4. TypeOK'
    BY <1>2, <2>1, <2>2 DEF TypeOK, Pcs, piperead_empty
  <2>5. LockHeld'
    BY <2>1, <2>2 DEF LockHeld, TypeOK
  <2>6. Ends'
    BY <2>1, <2>2 DEF Ends, EndOpen
  <2>7. WritersSleep'
    BY <2>1, <2>2, <2>3, <2>9 DEF WritersSleep, LockHeld
  <2>8. ReadersSleep'
    BY <2>1, <2>2, <2>3, <2>9 DEF ReadersSleep, LockHeld
  <2> QED
    BY <2>4, <2>5, <2>6, <2>7, <2>8
<1> QED
  BY <1>1, <1>2 DEF piperead_empty

\* A writer finds the pipe full: it leaves, or wakes the readers and sleeps.
LEMMA StepWriteFull == ASSUME NEW w \in Writer, Inv, pipewrite_full(w) PROVE Inv'
<1>0. Writer \cap Reader = {} /\ None \notin Proc
  BY PipeAssumption DEF Proc
<1> USE <1>0 DEF Inv, Proc
<1>1. CASE (~readopen \/ w \in killed) /\ lock' = None
           /\ pc' = [pc EXCEPT ![w] = "user"] /\ todo' = [todo EXCEPT ![w] = <<>>]
  <2>1. pc[w] = "loop" /\ pc'[w] = "user" /\ lock' = None
        /\ \A q \in Proc \ {w} : pc'[q] = pc[q]
    BY <1>1 DEF pipewrite_full, TypeOK, wakeup
  <2>2. data' = data /\ nread' = nread /\ nwrite' = nwrite /\ readopen' = readopen /\ writeopen' = writeopen
      /\ freed' = freed /\ fd' = fd /\ killed' = killed /\ got' = got
    BY <1>1 DEF pipewrite_full, pipe
  <2>3. Full' = Full /\ Empty' = Empty
    BY <2>2 DEF Full, Empty
  <2>9. ~readopen \/ w \in killed
    BY <1>1 DEF pipewrite_full, TypeOK, MustWait
  <2>4. TypeOK'
    BY <1>1, <2>1, <2>2 DEF TypeOK, Pcs, pipewrite_full, wakeup
  <2>5. LockHeld'
    BY <2>1, <2>2 DEF LockHeld, TypeOK
  <2>6. Ends'
    BY <2>1, <2>2 DEF Ends, EndOpen
  <2>7. WritersSleep'
    BY <2>1, <2>2, <2>3 DEF WritersSleep, LockHeld
  <2>8. ReadersSleep'
    BY <2>1, <2>2, <2>3, <2>9 DEF ReadersSleep, LockHeld, Ends, EndOpen
  <2> QED
    BY <2>4, <2>5, <2>6, <2>7, <2>8
<1>2. CASE readopen /\ w \notin killed /\ UNCHANGED <<lock, todo>>
           /\ pc' = [wakeup(Reader) EXCEPT ![w] = "presleep"]
  <2>1. pc[w] = "loop" /\ pc'[w] = "presleep" /\ lock' = lock
        /\ (\A q \in Writer \ {w} : pc'[q] = pc[q])
        /\ \A q \in Reader : pc'[q] = (IF pc[q] = "sleep" THEN "call" ELSE pc[q])
    BY <1>2 DEF pipewrite_full, TypeOK, wakeup
  <2>2. data' = data /\ nread' = nread /\ nwrite' = nwrite /\ readopen' = readopen /\ writeopen' = writeopen
      /\ freed' = freed /\ fd' = fd /\ killed' = killed /\ todo' = todo /\ got' = got
    BY <1>2 DEF pipewrite_full, pipe
  <2>3. Full' = Full /\ Empty' = Empty
    BY <2>2 DEF Full, Empty
  <2>9. Full /\ readopen
    BY <1>2 DEF pipewrite_full, TypeOK, MustWait
  <2>4. TypeOK'
    BY <1>2, <2>1, <2>2 DEF TypeOK, Pcs, pipewrite_full, wakeup
  <2>5. LockHeld'
    BY <2>1, <2>2 DEF LockHeld, TypeOK
  <2>6. Ends'
    BY <2>1, <2>2 DEF Ends, EndOpen
  <2>7. WritersSleep'
    BY <2>1, <2>2, <2>3, <2>9 DEF WritersSleep, LockHeld
  <2>8. ReadersSleep'
    BY <2>1, <2>2, <2>3 DEF ReadersSleep, LockHeld
  <2> QED
    BY <2>4, <2>5, <2>6, <2>7, <2>8
<1> QED
  BY <1>1, <1>2 DEF pipewrite_full

\* A write() returns, and wakes the readers.
LEMMA StepWriteReturn == ASSUME NEW w \in Writer, Inv, pipewrite_return(w) PROVE Inv'
<1>0. Writer \cap Reader = {} /\ None \notin Proc
  BY PipeAssumption DEF Proc
<1> USE <1>0 DEF Inv, Proc
<1>1. pc[w] = "loop" /\ pc'[w] = "user" /\ lock' = None
      /\ (\A q \in Writer \ {w} : pc'[q] = pc[q])
      /\ \A q \in Reader : pc'[q] = (IF pc[q] = "sleep" THEN "call" ELSE pc[q])
  BY DEF pipewrite_return, TypeOK, wakeup
<1>2. data' = data /\ nread' = nread /\ nwrite' = nwrite /\ readopen' = readopen /\ writeopen' = writeopen
      /\ freed' = freed /\ fd' = fd /\ killed' = killed /\ todo' = todo /\ got' = got
  BY DEF pipewrite_return, pipe
<1>3. Full' = Full /\ Empty' = Empty
  BY <1>2 DEF Full, Empty
<1>4. TypeOK'
  BY <1>1, <1>2, PipeAssumption DEF TypeOK, Pcs, pipewrite_return, wakeup
<1>5. LockHeld'
  BY <1>1, <1>2 DEF LockHeld, TypeOK
<1>6. Ends'
  BY <1>1, <1>2 DEF Ends, EndOpen
<1>7. WritersSleep'
  BY <1>1, <1>2, <1>3 DEF WritersSleep, LockHeld
<1>8. ReadersSleep'
  BY <1>1, <1>2, <1>3 DEF ReadersSleep, LockHeld
<1> QED
  BY <1>4, <1>5, <1>6, <1>7, <1>8

\* A read() returns, and wakes the writers.
LEMMA StepReadReturn == ASSUME NEW r \in Reader, Inv, piperead_return(r) PROVE Inv'
<1>0. Writer \cap Reader = {} /\ None \notin Proc
  BY PipeAssumption DEF Proc
<1> USE <1>0 DEF Inv, Proc
<1>1. pc[r] = "loop" /\ pc'[r] = "user" /\ lock' = None
      /\ (\A q \in Reader \ {r} : pc'[q] = pc[q])
      /\ \A q \in Writer : pc'[q] = (IF pc[q] = "sleep" THEN "call" ELSE pc[q])
  BY DEF piperead_return, TypeOK, wakeup
<1>2. data' = data /\ nread' = nread /\ nwrite' = nwrite /\ readopen' = readopen /\ writeopen' = writeopen
      /\ freed' = freed /\ fd' = fd /\ killed' = killed /\ todo' = todo /\ got' = got
  BY DEF piperead_return, pipe
<1>3. Full' = Full /\ Empty' = Empty
  BY <1>2 DEF Full, Empty
<1>4. TypeOK'
  BY <1>1, <1>2, PipeAssumption DEF TypeOK, Pcs, piperead_return, wakeup
<1>5. LockHeld'
  BY <1>1, <1>2 DEF LockHeld, TypeOK
<1>6. Ends'
  BY <1>1, <1>2 DEF Ends, EndOpen
<1>7. WritersSleep'
  BY <1>1, <1>2, <1>3 DEF WritersSleep, LockHeld
<1>8. ReadersSleep'
  BY <1>1, <1>2, <1>3 DEF ReadersSleep, LockHeld
<1> QED
  BY <1>4, <1>5, <1>6, <1>7, <1>8

\* A byte is written: no writer sleeps, for p->lock is held and the pipe is not full.
LEMMA StepWriteByte == ASSUME NEW w \in Writer, Inv, pipewrite_byte(w) PROVE Inv'
<1>0. Writer \cap Reader = {} /\ None \notin Proc
  BY PipeAssumption DEF Proc
<1> USE <1>0 DEF Inv, Proc
<1>1. pc[w] = "loop" /\ pc' = pc /\ lock' = lock /\ lock = w /\ ~Full
  BY DEF pipewrite_byte, LockHeld
<1>2. /\ nread' = nread /\ readopen' = readopen /\ writeopen' = writeopen /\ freed' = freed
      /\ fd' = fd /\ killed' = killed /\ got' = got
  BY DEF pipewrite_byte
<1>3. data' \in [0..PIPESIZE-1 -> Byte] /\ todo' \in [Writer -> Seq(Byte)]
  <2>1. todo[w] \in Seq(Byte) /\ todo[w] # <<>>
    BY DEF TypeOK, pipewrite_byte
  <2>2. Head(todo[w]) \in Byte /\ Tail(todo[w]) \in Seq(Byte)
    BY <2>1
  <2> QED
    BY <2>2 DEF TypeOK, pipewrite_byte
<1>4. nwrite' \in 0..WRAP-1
  <2>1. nwrite + 1 \in Nat /\ WRAP \in Nat \ {0}
    BY PipeAssumption DEF TypeOK
  <2> QED
    BY <2>1, Remainder DEF pipewrite_byte
<1>5. TypeOK'
  BY <1>1, <1>2, <1>3, <1>4 DEF TypeOK
<1>6. LockHeld' /\ Ends'
  BY <1>1, <1>2 DEF LockHeld, Ends, EndOpen
<1>7. WritersSleep'
  BY <1>1, <1>2 DEF WritersSleep, LockHeld
<1>8. ReadersSleep'
  BY <1>1, <1>2 DEF ReadersSleep, LockHeld
<1> QED
  BY <1>5, <1>6, <1>7, <1>8

\* A byte is read: a writer that sleeps will be woken by this reader, and no reader
\* sleeps on bytes unless a writer was killed.
LEMMA StepReadByte == ASSUME NEW r \in Reader, Inv, piperead_byte(r) PROVE Inv'
<1>0. Writer \cap Reader = {} /\ None \notin Proc
  BY PipeAssumption DEF Proc
<1> USE <1>0 DEF Inv, Proc
<1>1. pc[r] = "loop" /\ pc' = pc /\ lock' = lock /\ lock = r /\ ~Empty
  BY DEF piperead_byte, LockHeld
<1>2. /\ data' = data /\ nwrite' = nwrite /\ readopen' = readopen /\ writeopen' = writeopen
      /\ freed' = freed /\ fd' = fd /\ killed' = killed /\ todo' = todo
  BY DEF piperead_byte
<1>3. got' \in [Reader -> Seq(Byte)] /\ got'[r] # <<>>
  <2>1. nread % PIPESIZE \in 0..PIPESIZE-1
    BY PipeAssumption, Remainder DEF TypeOK
  <2>2. data[nread % PIPESIZE] \in Byte /\ got[r] \in Seq(Byte)
    BY <2>1 DEF TypeOK
  <2>3. /\ Append(got[r], data[nread % PIPESIZE]) \in Seq(Byte)
        /\ Append(got[r], data[nread % PIPESIZE]) # <<>>
    BY <2>2
  <2> QED
    BY <2>3 DEF TypeOK, piperead_byte
<1>4. nread' \in 0..WRAP-1
  <2>1. nread + 1 \in Nat /\ WRAP \in Nat \ {0}
    BY PipeAssumption DEF TypeOK
  <2> QED
    BY <2>1, Remainder DEF piperead_byte
<1>5. TypeOK'
  BY <1>1, <1>2, <1>3, <1>4 DEF TypeOK
<1>6. LockHeld' /\ Ends'
  BY <1>1, <1>2 DEF LockHeld, Ends, EndOpen
<1>7. WritersSleep'
  BY <1>1, <1>2, <1>3 DEF WritersSleep, LockHeld
<1>8. ReadersSleep'
  BY <1>1, <1>2 DEF ReadersSleep, LockHeld
<1> QED
  BY <1>5, <1>6, <1>7, <1>8

\* A reference to an end goes; the last one leads to pipeclose().
LEMMA StepFileclose == ASSUME NEW p \in Proc, Inv, fileclose(p) PROVE Inv'
<1>0. Writer \cap Reader = {} /\ None \notin Proc
  BY PipeAssumption DEF Proc
<1> USE <1>0 DEF Inv, Proc
<1>1. /\ pc[p] = "user" /\ p \in fd /\ fd' = fd \ {p} /\ lock' = lock
      /\ pc'[p] \in {"close", "closed"} /\ \A q \in Proc \ {p} : pc'[q] = pc[q]
  BY DEF fileclose, TypeOK
<1>2. /\ data' = data /\ nread' = nread /\ nwrite' = nwrite /\ readopen' = readopen
      /\ writeopen' = writeopen /\ freed' = freed /\ killed' = killed /\ todo' = todo /\ got' = got
  BY DEF fileclose, pipe
<1>3. Full' = Full /\ Empty' = Empty
  BY <1>2 DEF Full, Empty
<1>4. TypeOK'
  BY <1>1, <1>2 DEF TypeOK, Pcs, fileclose
<1>5. LockHeld'
  BY <1>1, <1>2 DEF LockHeld
<1>6. Ends'
  <2>1. CASE p \in Writer
    <3>1. pc'[p] = "close" => fd' \cap Writer = {}
      BY <2>1 DEF fileclose, TypeOK
    <3>2. EndOpen(Writer, writeopen)'
      BY <1>1, <1>2, <2>1, <3>1 DEF Ends, EndOpen
    <3>3. EndOpen(Reader, readopen)'
      BY <1>1, <1>2, <2>1 DEF Ends, EndOpen
    <3> QED
      BY <1>2, <3>2, <3>3 DEF Ends
  <2>2. CASE p \in Reader
    <3>1. pc'[p] = "close" => fd' \cap Reader = {}
      BY <2>2 DEF fileclose, TypeOK
    <3>2. EndOpen(Reader, readopen)'
      BY <1>1, <1>2, <2>2, <3>1 DEF Ends, EndOpen
    <3>3. EndOpen(Writer, writeopen)'
      BY <1>1, <1>2, <2>2 DEF Ends, EndOpen
    <3> QED
      BY <1>2, <3>2, <3>3 DEF Ends
  <2> QED
    BY <2>1, <2>2
<1>7. WritersSleep'
  BY <1>1, <1>2, <1>3 DEF WritersSleep
<1>8. ReadersSleep'
  BY <1>1, <1>2, <1>3 DEF ReadersSleep
<1> QED
  BY <1>4, <1>5, <1>6, <1>7, <1>8

\* An end closes: nobody of that end is left in the pipe's code, and the other side wakes.
LEMMA StepPipeclose == ASSUME NEW p \in Proc, Inv, pipeclose(p) PROVE Inv'
<1>0. Writer \cap Reader = {} /\ None \notin Proc
  BY PipeAssumption DEF Proc
<1> USE <1>0 DEF Inv, Proc
<1>1. pc[p] = "close" /\ lock = None /\ lock' = None
  BY DEF pipeclose
<1>2. /\ data' = data /\ nread' = nread /\ nwrite' = nwrite
      /\ fd' = fd /\ killed' = killed /\ todo' = todo /\ got' = got
  BY DEF pipeclose
<1>3. CASE p \in Writer
  <2>1. /\ writeopen' = FALSE /\ readopen' = readopen /\ pc' = [wakeup(Reader) EXCEPT ![p] = "closed"]
        /\ freed' = (freed \/ ~readopen)
    BY <1>3 DEF pipeclose, TypeOK
  <2>2. \A q \in Reader : pc'[q] = (IF pc[q] = "sleep" THEN "call" ELSE pc[q])
    BY <1>3, <2>1 DEF TypeOK, wakeup
  <2>3. \A q \in Writer : pc'[q] = "closed" /\ q \notin fd
    <3>1. \A q \in Writer \ {p} : pc[q] = "closed"
      BY <1>1, <1>3 DEF Ends, EndOpen
    <3>2. \A q \in Writer : q \notin fd
      BY <1>1, <1>3 DEF Ends, EndOpen
    <3> QED
      BY <2>1, <3>1, <3>2, <1>3 DEF TypeOK, wakeup
  <2>4. TypeOK'
    BY <1>1, <1>2, <2>1 DEF TypeOK, Pcs, wakeup
  <2>5. LockHeld'
    BY <1>1, <2>2, <2>3 DEF LockHeld
  <2>6. Ends'
    <3>1. EndOpen(Writer, writeopen)'
      BY <1>2, <2>3 DEF EndOpen
    <3>2. EndOpen(Reader, readopen)'
      BY <1>2, <2>1, <2>2 DEF Ends, EndOpen
    <3> QED
      BY <2>1, <3>1, <3>2 DEF Ends, TypeOK
  <2>7. WritersSleep'
    BY <2>3 DEF WritersSleep
  <2>8. ReadersSleep'
    BY <1>1, <2>2 DEF ReadersSleep, LockHeld
  <2> QED
    BY <2>4, <2>5, <2>6, <2>7, <2>8
<1>4. CASE p \in Reader
  <2>1. /\ readopen' = FALSE /\ writeopen' = writeopen /\ pc' = [wakeup(Writer) EXCEPT ![p] = "closed"]
        /\ freed' = (freed \/ ~writeopen)
    BY <1>4 DEF pipeclose, TypeOK
  <2>2. \A q \in Writer : pc'[q] = (IF pc[q] = "sleep" THEN "call" ELSE pc[q])
    BY <1>4, <2>1 DEF TypeOK, wakeup
  <2>3. \A q \in Reader : pc'[q] = "closed" /\ q \notin fd
    <3>1. \A q \in Reader \ {p} : pc[q] = "closed"
      BY <1>1, <1>4 DEF Ends, EndOpen
    <3>2. \A q \in Reader : q \notin fd
      BY <1>1, <1>4 DEF Ends, EndOpen
    <3> QED
      BY <2>1, <3>1, <3>2, <1>4 DEF TypeOK, wakeup
  <2>4. TypeOK'
    BY <1>1, <1>2, <2>1 DEF TypeOK, Pcs, wakeup
  <2>5. LockHeld'
    BY <1>1, <2>2, <2>3 DEF LockHeld
  <2>6. Ends'
    <3>1. EndOpen(Reader, readopen)'
      BY <1>2, <2>3 DEF EndOpen
    <3>2. EndOpen(Writer, writeopen)'
      BY <1>2, <2>1, <2>2 DEF Ends, EndOpen
    <3> QED
      BY <2>1, <3>1, <3>2 DEF Ends, TypeOK
  <2>7. ReadersSleep'
    BY <2>3 DEF ReadersSleep
  <2>8. WritersSleep'
    BY <1>1, <2>2 DEF WritersSleep, LockHeld
  <2> QED
    BY <2>4, <2>5, <2>6, <2>7, <2>8
<1> QED
  BY <1>3, <1>4

-----------------------------------------------------------------------------

\* Every step keeps the invariant.
LEMMA StepInv == Inv /\ [Next]_vars => Inv'
<1> SUFFICES ASSUME Inv, [Next]_vars PROVE Inv'
  OBVIOUS
<1>1. ASSUME NEW p \in Proc, Kernel(p) PROVE Inv'
  <2>1. CASE acquire(p) \/ sleep(p) \/ pipeclose(p)
    BY <2>1, StepAcquire, StepSleep, StepPipeclose
  <2>2. CASE p \in Writer /\ (pipewrite_byte(p) \/ pipewrite_full(p) \/ pipewrite_return(p))
    BY <2>2, StepWriteByte, StepWriteFull, StepWriteReturn
  <2>3. CASE p \in Reader /\ (piperead_empty(p) \/ piperead_byte(p) \/ piperead_return(p))
    BY <2>3, StepReadEmpty, StepReadByte, StepReadReturn
  <2> QED
    BY <1>1, <2>1, <2>2, <2>3 DEF Kernel
<1>2. ASSUME NEW p \in Proc, fileclose(p) \/ kill(p) PROVE Inv'
  BY <1>2, StepFileclose, StepKill
<1>3. ASSUME NEW w \in Writer, write(w) PROVE Inv'
  BY <1>3, StepWrite
<1>4. ASSUME NEW r \in Reader, read(r) PROVE Inv'
  BY <1>4, StepRead
<1>5. CASE UNCHANGED vars
  BY <1>5 DEF vars, pipe, Inv, TypeOK, LockHeld, Ends, EndOpen, WritersSleep, ReadersSleep,
              Full, Empty
<1> QED
  BY <1>1, <1>2, <1>3, <1>4, <1>5 DEF Next

\* The invariant holds throughout.
LEMMA Invariant == Spec => []Inv
  BY InitInv, StepInv, PTL DEF Spec

\* pipeclose() calls kfree() only when every process has closed its end: none is in
\* piperead() or pipewrite(), or can still get there; and the counters and the bytes
\* keep their types.
THEOREM PipeNoUseAfterFree == Spec => []NoUseAfterFree
<1>1. Inv => NoUseAfterFree
  BY DEF Inv, NoUseAfterFree, Ends, EndOpen, Proc
<1> QED
  BY <1>1, Invariant, PTL

\* wakeup() of the other side never falls between the test of full or empty and sleep(),
\* whatever number of readers and writers there are, at every wrap of the counters.
THEOREM PipeNoLostWakeup == Spec => []NoLostWakeup
<1>1. Inv => NoLostWakeup
  <2>1. None \notin Proc
    BY PipeAssumption DEF Proc
  <2> QED
    BY <2>1 DEF Inv, NoLostWakeup, WritersSleep, ReadersSleep, Proc
<1> QED
  BY <1>1, Invariant, PTL

-----------------------------------------------------------------------------
(* The refinement of ByteStream                                            *)

\* The number of bytes in the ring.
Held == (nwrite - nread) % WRAP

\* The ring never holds more than its cells, and a process that is not in write() has
\* nothing left to write.
Bounded == Held <= PIPESIZE
Idle == \A w \in Writer : pc[w] \in {"user", "close", "closed"} => todo[w] = <<>>
RInv == Bounded /\ Idle

\* How many bytes the pipe holds.
LEMMA HeldType ==
  ASSUME TypeOK
  PROVE  /\ Held \in 0..WRAP-1
         /\ nwrite >= nread => Held = nwrite - nread
         /\ nwrite < nread => Held = nwrite - nread + WRAP
<1>1. WRAP \in Nat \ {0} /\ nread \in 0..WRAP-1 /\ nwrite \in 0..WRAP-1
  BY PipeAssumption DEF TypeOK
<1> QED
  BY <1>1, Distance DEF Held

\* The tests for a full and for an empty ring, with counters that wrap around.
LEMMA FullEmpty ==
  ASSUME TypeOK, Bounded
  PROVE  (Full <=> Held = PIPESIZE) /\ (Empty <=> Held = 0)
<1>1. /\ WRAP \in Nat \ {0} /\ nread \in 0..WRAP-1 /\ nwrite \in 0..WRAP-1
      /\ PIPESIZE \in Nat \ {0} /\ PIPESIZE < WRAP
  BY PipeAssumption DEF TypeOK
<1>2. nread + PIPESIZE < WRAP => (nread + PIPESIZE) % WRAP = nread + PIPESIZE
  BY <1>1
<1>3. nread + PIPESIZE >= WRAP => (nread + PIPESIZE) % WRAP = (nread + PIPESIZE) - WRAP
  <2> DEFINE a == nread + PIPESIZE
  <2>1. a >= WRAP => a \in WRAP..2*WRAP-1
    BY <1>1
  <2> HIDE DEF a
  <2>2. a >= WRAP => a % WRAP = a - WRAP
    <3>1. WRAP \in Nat \ {0}
      BY <1>1
    <3> QED
      BY <2>1, <3>1, Wraps, Zenon
  <2> QED
    BY <2>2, Zenon DEF a
<1>4. Full <=> Held = PIPESIZE
  BY <1>1, <1>2, <1>3, HeldType DEF Full
<1>5. Empty <=> Held = 0
  BY <1>1, HeldType DEF Empty
<1> QED
  BY <1>4, <1>5

\* The queue is the stretch of data from nread on.
LEMMA QueueIs ==
  ASSUME TypeOK
  PROVE  /\ Queue = Stretch(data, nread, Held, PIPESIZE)
         /\ Queue \in Seq(Byte) /\ Len(Queue) = Held
         /\ Held = 0 => Queue = <<>>
<1>1. PIPESIZE \in Nat \ {0} /\ nread \in Nat /\ data \in [0..PIPESIZE-1 -> Byte] /\ Held \in Nat
  BY PipeAssumption, HeldType DEF TypeOK
<1>2. Queue = Stretch(data, nread, Held, PIPESIZE)
  BY DEF Queue, Stretch, Held
<1>3. \A k \in 1..Held : (nread + k - 1) % PIPESIZE \in 0..PIPESIZE-1
  BY <1>1, Division
<1>4. Queue \in [1..Held -> Byte]
  BY <1>1, <1>2, <1>3 DEF Stretch
<1>5. Queue \in Seq(Byte) /\ Len(Queue) = Held
  BY <1>1, <1>4
<1> QED
  BY <1>2, <1>5

\* One iteration of pipewrite() puts the byte behind the bytes that are there.
LEMMA WritesBehind ==
  ASSUME NEW w \in Writer, TypeOK, Bounded, pipewrite_byte(w), TypeOK'
  PROVE  /\ Len(Queue) < PIPESIZE
         /\ Held' = Held + 1
         /\ Queue' = Append(Queue, Head(todo[w]))
<1>1. /\ WRAP \in Nat \ {0} /\ nread \in 0..WRAP-1 /\ nwrite \in 0..WRAP-1
      /\ PIPESIZE \in Nat \ {0} /\ PIPESIZE < WRAP /\ WRAP % PIPESIZE = 0
      /\ data \in [0..PIPESIZE-1 -> Byte]
  BY PipeAssumption DEF TypeOK
<1>2. /\ nread' = nread /\ nwrite' = (nwrite + 1) % WRAP
      /\ data' = [data EXCEPT ![nwrite % PIPESIZE] = Head(todo[w])] /\ ~Full
  BY DEF pipewrite_byte
<1>3. Held \in Nat /\ Held < PIPESIZE /\ Len(Queue) = Held
  BY <1>1, <1>2, FullEmpty, HeldType, QueueIs DEF Bounded
<1>4. /\ nwrite >= nread => Held = nwrite - nread
      /\ nwrite < nread => Held = nwrite - nread + WRAP
  BY HeldType
<1>5. /\ nwrite' >= nread => Held' = nwrite' - nread
      /\ nwrite' < nread => Held' = nwrite' - nread + WRAP
  <2>1. nwrite' \in 0..WRAP-1
    BY <1>1 DEF TypeOK
  <2>2. Held' = (nwrite' - nread) % WRAP
    BY <1>2 DEF Held
  <2> DEFINE v == nwrite'
  <2>3. v \in 0..WRAP-1 /\ Held' = (v - nread) % WRAP
    BY <2>1, <2>2
  <2> HIDE DEF v
  <2>4. /\ v >= nread => (v - nread) % WRAP = v - nread
        /\ v < nread => (v - nread) % WRAP = v - nread + WRAP
    BY <1>1, <2>3, Distance
  <2> QED
    BY <2>3, <2>4 DEF v
<1>6. /\ nwrite < WRAP - 1 => nwrite' = nwrite + 1
      /\ nwrite = WRAP - 1 => nwrite' = 0
  BY <1>1, <1>2, NextCount
<1>7. Held' = Held + 1
  BY <1>1, <1>3, <1>4, <1>5, <1>6
<1>8. (nread + Held) % PIPESIZE = nwrite % PIPESIZE
  <2>1. CASE nwrite >= nread
    BY <1>1, <1>4, <2>1
  <2>2. CASE nwrite < nread
    <3>1. nread + Held = nwrite + WRAP
      BY <1>1, <1>4, <2>2
    <3>2. (nwrite + WRAP) % PIPESIZE = nwrite % PIPESIZE
      <4>1. PIPESIZE \in Nat \ {0} /\ WRAP \in Nat \ {0} /\ WRAP % PIPESIZE = 0 /\ nwrite \in Int
        BY <1>1
      <4> QED
        BY <4>1, SameCell, Zenon
    <3> QED
      BY <3>1, <3>2
  <2> QED
    BY <1>1, <2>1, <2>2
<1>9. nwrite % PIPESIZE \in 0..PIPESIZE-1
  BY <1>1, Division
<1>10. Head(todo[w]) \in Byte
  BY DEF pipewrite_byte, TypeOK
<1>11. Stretch(data', nread, Held + 1, PIPESIZE)
         = Append(Stretch(data, nread, Held, PIPESIZE), Head(todo[w]))
  <2> DEFINE j == nwrite % PIPESIZE
             c == Head(todo[w])
             h == Held
  <2>1. j \in 0..PIPESIZE-1 /\ c \in Byte /\ h \in Nat /\ h < PIPESIZE /\ j = (nread + h) % PIPESIZE
        /\ nread \in Nat
    BY <1>1, <1>3, <1>8, <1>9, <1>10
  <2>2. data' = WithCell(data, j, c)
    BY <1>2 DEF WithCell
  <2> HIDE DEF j, c, h
  <2>3. PIPESIZE \in Nat \ {0} /\ data \in Cells(PIPESIZE, Byte) /\ nread \in Nat /\ h \in Nat
        /\ h < PIPESIZE /\ c \in Byte
    BY <1>1, <2>1 DEF Cells
  <2>4. Stretch(WithCell(data, (nread + h) % PIPESIZE, c), nread, h + 1, PIPESIZE)
          = Append(Stretch(data, nread, h, PIPESIZE), c)
    BY <2>3, StretchAppend
  <2> QED
    BY <2>1, <2>2, <2>4 DEF c, h
<1>12. Queue' = Stretch(data', nread', Held', PIPESIZE)
  BY DEF Queue, Stretch, Held
<1> QED
  BY <1>2, <1>3, <1>7, <1>11, <1>12, QueueIs

\* One iteration of piperead() takes the oldest byte.
LEMMA ReadsOldest ==
  ASSUME NEW r \in Reader, TypeOK, Bounded, piperead_byte(r), TypeOK'
  PROVE  /\ Queue # <<>> /\ Head(Queue) = data[nread % PIPESIZE]
         /\ Held > 0 /\ Held' = Held - 1
         /\ Queue' = Tail(Queue)
<1>1. /\ WRAP \in Nat \ {0} /\ nread \in 0..WRAP-1 /\ nwrite \in 0..WRAP-1
      /\ PIPESIZE \in Nat \ {0} /\ PIPESIZE < WRAP /\ WRAP % PIPESIZE = 0
      /\ data \in [0..PIPESIZE-1 -> Byte]
  BY PipeAssumption DEF TypeOK
<1>2. nwrite' = nwrite /\ nread' = (nread + 1) % WRAP /\ data' = data /\ ~Empty
  BY DEF piperead_byte
<1>3. Held \in Nat /\ Held > 0
  BY <1>1, <1>2, FullEmpty, HeldType
<1>4. /\ nwrite >= nread => Held = nwrite - nread
      /\ nwrite < nread => Held = nwrite - nread + WRAP
  BY HeldType
<1>5. /\ nwrite >= nread' => Held' = nwrite - nread'
      /\ nwrite < nread' => Held' = nwrite - nread' + WRAP
  <2>1. nread' \in 0..WRAP-1
    BY <1>1 DEF TypeOK
  <2>2. Held' = (nwrite - nread') % WRAP
    BY <1>2 DEF Held
  <2> DEFINE v == nread'
  <2>3. v \in 0..WRAP-1 /\ Held' = (nwrite - v) % WRAP
    BY <2>1, <2>2
  <2> HIDE DEF v
  <2>4. /\ nwrite >= v => (nwrite - v) % WRAP = nwrite - v
        /\ nwrite < v => (nwrite - v) % WRAP = nwrite - v + WRAP
    BY <1>1, <2>3, Distance
  <2> QED
    BY <2>3, <2>4 DEF v
<1>6. /\ nread < WRAP - 1 => nread' = nread + 1
      /\ nread = WRAP - 1 => nread' = 0
  BY <1>1, <1>2, NextCount
<1>7. Held' = Held - 1
  BY <1>1, <1>3, <1>4, <1>5, <1>6
<1> DEFINE h == Held
<1>8. PIPESIZE \in Nat \ {0} /\ data \in Cells(PIPESIZE, Byte) /\ nread \in Nat /\ h \in Nat /\ h > 0
  BY <1>1, <1>3 DEF Cells
<1>9. Queue = Stretch(data, nread, h, PIPESIZE)
  BY QueueIs
<1>10. Queue' = Stretch(data, nread', h - 1, PIPESIZE)
  <2>1. Queue' = Stretch(data', nread', Held', PIPESIZE)
    BY DEF Queue, Stretch, Held
  <2> QED
    BY <1>2, <1>7, <2>1
<1> HIDE DEF h
<1>11. /\ Stretch(data, nread, h, PIPESIZE) # <<>>
       /\ Head(Stretch(data, nread, h, PIPESIZE)) = data[nread % PIPESIZE]
       /\ Tail(Stretch(data, nread, h, PIPESIZE)) = Stretch(data, nread + 1, h - 1, PIPESIZE)
  BY <1>8, StretchTail, Zenon
<1>12. Stretch(data, nread + 1, h - 1, PIPESIZE) = Stretch(data, nread', h - 1, PIPESIZE)
  <2>1. CASE nread < WRAP - 1
    BY <1>6, <2>1
  <2>2. CASE nread = WRAP - 1
    <3> DEFINE m == h - 1
    <3>1. PIPESIZE \in Nat \ {0} /\ WRAP \in Nat \ {0} /\ WRAP % PIPESIZE = 0 /\ m \in Nat
      BY <1>1, <1>8
    <3>2. nread + 1 = WRAP /\ nread' = 0
      BY <1>1, <1>6, <2>2
    <3> HIDE DEF m
    <3>4. Stretch(data, WRAP, m, PIPESIZE) = Stretch(data, 0, m, PIPESIZE)
      BY <3>1, StretchWrapped
    <3> QED
      BY <3>2, <3>4 DEF m
  <2> QED
    BY <1>1, <2>1, <2>2
<1> QED
  BY <1>3, <1>7, <1>9, <1>10, <1>11, <1>12

\* The abstract step, or a stuttering one.
Mapped == [Stream!SNext]_(Stream!svars)

\* The ring stays as it is.
SameRing == data' = data /\ nread' = nread /\ nwrite' = nwrite

\* Steps that leave the ring alone.
LEMMA RingUnchanged ==
  ASSUME SameRing
  PROVE  Held' = Held /\ Queue' = Queue /\ (Bounded => Bounded')
<1>1. Held' = Held /\ Queue' = Queue
  BY DEF SameRing, Held, Queue
<1> QED
  BY <1>1 DEF Bounded

\* Who is in read() as before, and nothing else changes that the stream knows.
LEMMA MapStutter ==
  ASSUME SameRing, todo' = todo, got' = got, killed' = killed, writeopen' = writeopen,
         readopen' = readopen, Reading' = Reading
  PROVE  Mapped
  BY RingUnchanged DEF Mapped, Stream!svars

\* acquire() changes nothing ByteStream speaks of.
LEMMA MapAcquire ==
  ASSUME NEW p \in Proc, Inv, RInv, acquire(p) PROVE RInv' /\ Mapped
<1>1. SameRing /\ todo' = todo /\ got' = got /\ killed' = killed /\ writeopen' = writeopen
      /\ readopen' = readopen
  BY DEF acquire, pipe, SameRing
<1>2. pc[p] = "call" /\ pc'[p] = "loop" /\ \A q \in Proc \ {p} : pc'[q] = pc[q]
  BY DEF acquire, Inv, TypeOK
<1>3. Reading' = Reading
  BY <1>2 DEF Reading, Proc
<1>4. Idle'
  BY <1>1, <1>2 DEF RInv, Idle, Proc
<1> QED
  BY <1>1, <1>3, <1>4, RingUnchanged, MapStutter DEF RInv

\* Nor does sleep().
LEMMA MapSleep ==
  ASSUME NEW p \in Proc, Inv, RInv, sleep(p) PROVE RInv' /\ Mapped
<1>1. SameRing /\ todo' = todo /\ got' = got /\ killed' = killed /\ writeopen' = writeopen
      /\ readopen' = readopen
  BY DEF sleep, pipe, SameRing
<1>2. pc[p] = "presleep" /\ pc'[p] = "sleep" /\ \A q \in Proc \ {p} : pc'[q] = pc[q]
  BY DEF sleep, Inv, TypeOK
<1>3. Reading' = Reading
  BY <1>2 DEF Reading, Proc
<1>4. Idle'
  BY <1>1, <1>2 DEF RInv, Idle, Proc
<1> QED
  BY <1>1, <1>3, <1>4, RingUnchanged, MapStutter DEF RInv

\* The call that begins has nothing left from an earlier one.
LEMMA MapWrite ==
  ASSUME NEW w \in Writer, Inv, RInv, write(w) PROVE RInv' /\ Mapped
<1>1. SameRing /\ got' = got /\ killed' = killed /\ writeopen' = writeopen /\ readopen' = readopen
  BY DEF write, pipe, SameRing
<1>2. pc[w] = "user" /\ pc'[w] = "call" /\ w \in fd /\ \A q \in Proc \ {w} : pc'[q] = pc[q]
  BY DEF write, Inv, TypeOK, Proc
<1>3. Reading' = Reading
  BY <1>2, PipeAssumption DEF Reading, Proc
<1>4. PICK m \in Message : todo' = [todo EXCEPT ![w] = m]
  BY DEF write
<1>5. Idle'
  BY <1>2, <1>4 DEF RInv, Idle, Proc, Inv, TypeOK
<1>6. writeopen /\ todo[w] = <<>>
  BY <1>2 DEF Inv, TypeOK, Ends, EndOpen, RInv, Idle
<1>7. Stream!StartWrite(w)
  BY <1>1, <1>3, <1>4, <1>6, RingUnchanged DEF Stream!StartWrite
<1> QED
  BY <1>1, <1>5, <1>7, RingUnchanged DEF RInv, Mapped, Stream!SNext

\* A byte is written: ByteStream puts it at the end of its queue.
LEMMA MapWriteByte ==
  ASSUME NEW w \in Writer, Inv, Inv', RInv, pipewrite_byte(w) PROVE RInv' /\ Mapped
<1>1. got' = got /\ killed' = killed /\ writeopen' = writeopen /\ readopen' = readopen /\ pc' = pc
      /\ pc[w] = "loop" /\ todo[w] # <<>> /\ todo' = [todo EXCEPT ![w] = Tail(@)]
  BY DEF pipewrite_byte
<1>2. Len(Queue) < PIPESIZE /\ Held' = Held + 1 /\ Queue' = Append(Queue, Head(todo[w]))
  BY WritesBehind DEF Inv, RInv
<1>3. Bounded'
  <2>1. Held \in Nat /\ Len(Queue) = Held /\ PIPESIZE \in Nat
    BY HeldType, QueueIs, PipeAssumption DEF Inv
  <2> QED
    BY <1>2, <2>1 DEF Bounded
<1>4. Idle'
  BY <1>1 DEF RInv, Idle, Inv, TypeOK
<1>5. Reading' = Reading
  BY <1>1 DEF Reading
<1>6. Stream!Put(w)
  BY <1>1, <1>2, <1>5 DEF Stream!Put
<1> QED
  BY <1>3, <1>4, <1>6 DEF RInv, Mapped, Stream!SNext

\* A writer that finds the pipe full goes to sleep, or gives up.
LEMMA MapWriteFull ==
  ASSUME NEW w \in Writer, Inv, RInv, pipewrite_full(w) PROVE RInv' /\ Mapped
<1>1. SameRing /\ got' = got /\ killed' = killed /\ writeopen' = writeopen /\ readopen' = readopen
      /\ pc[w] = "loop" /\ todo[w] # <<>>
  BY DEF pipewrite_full, pipe, SameRing
<1>2. w \notin Reader
  BY PipeAssumption
<1>3. CASE (~readopen \/ w \in killed) /\ pc' = [pc EXCEPT ![w] = "user"] /\ todo' = [todo EXCEPT ![w] = <<>>]
  <2>1. pc'[w] = "user" /\ \A q \in Proc \ {w} : pc'[q] = pc[q]
    BY <1>3 DEF Inv, TypeOK, Proc
  <2>2. Reading' = Reading
    BY <1>2, <2>1 DEF Reading, Proc
  <2>3. Idle'
    BY <1>3, <2>1 DEF RInv, Idle, Proc, Inv, TypeOK
  <2>4. Stream!FailWrite(w)
    BY <1>1, <1>3, <2>2, RingUnchanged DEF Stream!FailWrite
  <2> QED
    BY <1>1, <2>3, <2>4, RingUnchanged DEF RInv, Mapped, Stream!SNext
<1>4. CASE readopen /\ w \notin killed /\ UNCHANGED <<lock, todo>>
           /\ pc' = [wakeup(Reader) EXCEPT ![w] = "presleep"]
  <2>1. pc'[w] = "presleep" /\ (\A q \in Writer \ {w} : pc'[q] = pc[q])
        /\ \A q \in Reader : pc'[q] = (IF pc[q] = "sleep" THEN "call" ELSE pc[q])
    BY <1>2, <1>4, PipeAssumption DEF Inv, TypeOK, Proc, wakeup
  <2>2. Reading' = Reading
    BY <2>1 DEF Reading
  <2>3. Idle'
    BY <1>4, <2>1 DEF RInv, Idle
  <2> QED
    BY <1>1, <1>4, <2>2, <2>3, RingUnchanged, MapStutter DEF RInv
<1> QED
  BY <1>3, <1>4 DEF pipewrite_full

\* pipewrite() returns.
LEMMA MapWriteReturn ==
  ASSUME NEW w \in Writer, Inv, RInv, pipewrite_return(w) PROVE RInv' /\ Mapped
<1>1. SameRing /\ todo' = todo /\ got' = got /\ killed' = killed /\ writeopen' = writeopen
      /\ readopen' = readopen /\ todo[w] = <<>>
  BY DEF pipewrite_return, pipe, SameRing
<1>2. pc[w] = "loop" /\ pc'[w] = "user" /\ (\A q \in Writer \ {w} : pc'[q] = pc[q])
      /\ \A q \in Reader : pc'[q] = (IF pc[q] = "sleep" THEN "call" ELSE pc[q])
  BY PipeAssumption DEF pipewrite_return, Inv, TypeOK, Proc, wakeup
<1>3. Reading' = Reading
  BY <1>2 DEF Reading
<1>4. Idle'
  BY <1>1, <1>2 DEF RInv, Idle
<1> QED
  BY <1>1, <1>3, <1>4, RingUnchanged, MapStutter DEF RInv

\* piperead() starts.
LEMMA MapRead ==
  ASSUME NEW r \in Reader, Inv, RInv, read(r) PROVE RInv' /\ Mapped
<1>1. SameRing /\ todo' = todo /\ killed' = killed /\ writeopen' = writeopen /\ readopen' = readopen
      /\ got' = [got EXCEPT ![r] = <<>>]
  BY DEF read, pipe, SameRing
<1>2. pc[r] = "user" /\ pc'[r] = "call" /\ r \in fd /\ \A q \in Proc \ {r} : pc'[q] = pc[q]
  BY DEF read, Inv, TypeOK, Proc
<1>3. r \notin Reading /\ Reading' = Reading \cup {r}
  BY <1>2 DEF Reading, Proc
<1>4. Idle'
  BY <1>1, <1>2, PipeAssumption DEF RInv, Idle, Proc
<1>5. readopen
  BY <1>2 DEF Inv, TypeOK, Ends, EndOpen
<1>6. Stream!StartRead(r)
  BY <1>1, <1>3, <1>5, RingUnchanged DEF Stream!StartRead
<1> QED
  BY <1>1, <1>4, <1>6, RingUnchanged DEF RInv, Mapped, Stream!SNext

\* A byte is read: it is the head of the queue.
LEMMA MapReadByte ==
  ASSUME NEW r \in Reader, Inv, Inv', RInv, piperead_byte(r) PROVE RInv' /\ Mapped
<1>1. todo' = todo /\ killed' = killed /\ writeopen' = writeopen /\ readopen' = readopen /\ pc' = pc
      /\ pc[r] = "loop" /\ got' = [got EXCEPT ![r] = Append(@, data[nread % PIPESIZE])]
  BY DEF piperead_byte
<1>2. Queue # <<>> /\ Head(Queue) = data[nread % PIPESIZE] /\ Held > 0 /\ Held' = Held - 1
      /\ Queue' = Tail(Queue)
  BY ReadsOldest DEF Inv, RInv
<1>3. Bounded'
  <2>1. Held \in Nat /\ PIPESIZE \in Nat
    BY HeldType, PipeAssumption DEF Inv
  <2> QED
    BY <1>2, <2>1 DEF RInv, Bounded
<1>4. Idle'
  BY <1>1 DEF RInv, Idle
<1>5. r \in Reading /\ Reading' = Reading
  BY <1>1 DEF Reading
<1>6. Stream!Take(r)
  BY <1>1, <1>2, <1>5 DEF Stream!Take
<1> QED
  BY <1>3, <1>4, <1>6 DEF RInv, Mapped, Stream!SNext

\* A reader that leaves the loop without a byte was killed.
LEMMA MapReadEmpty ==
  ASSUME NEW r \in Reader, Inv, RInv, piperead_empty(r) PROVE RInv' /\ Mapped
<1>1. SameRing /\ todo' = todo /\ got' = got /\ killed' = killed /\ writeopen' = writeopen
      /\ readopen' = readopen /\ pc[r] = "loop"
  BY DEF piperead_empty, pipe, SameRing
<1>2. r \notin Writer
  BY PipeAssumption
<1>3. CASE r \in killed /\ pc' = [pc EXCEPT ![r] = "user"]
  <2>1. pc'[r] = "user" /\ \A q \in Proc \ {r} : pc'[q] = pc[q]
    BY <1>3 DEF Inv, TypeOK, Proc
  <2>2. r \in Reading /\ Reading' = Reading \ {r}
    BY <1>1, <2>1 DEF Reading, Proc
  <2>3. Idle'
    BY <1>1, <1>2, <2>1 DEF RInv, Idle, Proc
  <2>4. Stream!EndRead(r)
    BY <1>1, <1>3, <2>2, RingUnchanged DEF Stream!EndRead
  <2> QED
    BY <1>1, <2>3, <2>4, RingUnchanged DEF RInv, Mapped, Stream!SNext
<1>4. CASE pc' = [pc EXCEPT ![r] = "presleep"]
  <2>1. pc'[r] = "presleep" /\ \A q \in Proc \ {r} : pc'[q] = pc[q]
    BY <1>4 DEF Inv, TypeOK, Proc
  <2>2. Reading' = Reading
    BY <1>1, <2>1 DEF Reading, Proc
  <2>3. Idle'
    BY <1>1, <1>2, <2>1 DEF RInv, Idle, Proc
  <2> QED
    BY <1>1, <2>2, <2>3, RingUnchanged, MapStutter DEF RInv
<1> QED
  BY <1>3, <1>4 DEF piperead_empty

\* A read that returns has bytes, or the stream is at its end.
LEMMA MapReadReturn ==
  ASSUME NEW r \in Reader, Inv, RInv, piperead_return(r) PROVE RInv' /\ Mapped
<1>1. SameRing /\ todo' = todo /\ got' = got /\ killed' = killed /\ writeopen' = writeopen
      /\ readopen' = readopen
  BY DEF piperead_return, pipe, SameRing
<1>2. pc[r] = "loop" /\ pc'[r] = "user" /\ (\A q \in Reader \ {r} : pc'[q] = pc[q])
      /\ \A q \in Writer : pc'[q] = (IF pc[q] = "sleep" THEN "call" ELSE pc[q])
  BY PipeAssumption DEF piperead_return, Inv, TypeOK, Proc, wakeup
<1>3. r \in Reading /\ Reading' = Reading \ {r}
  BY <1>2 DEF Reading
<1>4. Idle'
  BY <1>1, <1>2 DEF RInv, Idle
<1>5. got[r] # <<>> \/ (Queue = <<>> /\ ~writeopen)
  <2>1. Empty => Queue = <<>>
    BY FullEmpty, QueueIs DEF Inv, RInv
  <2>2. Len(got[r]) = N => got[r] # <<>>
    BY PipeAssumption
  <2> QED
    BY <2>1, <2>2 DEF piperead_return, MustWait
<1>6. Stream!EndRead(r)
  BY <1>1, <1>3, <1>5, RingUnchanged DEF Stream!EndRead
<1> QED
  BY <1>1, <1>4, <1>6, RingUnchanged DEF RInv, Mapped, Stream!SNext

\* An end is closed.
LEMMA MapFileclose ==
  ASSUME NEW p \in Proc, Inv, RInv, fileclose(p) PROVE RInv' /\ Mapped
<1>1. SameRing /\ todo' = todo /\ got' = got /\ killed' = killed /\ writeopen' = writeopen
      /\ readopen' = readopen
  BY DEF fileclose, pipe, SameRing
<1>2. pc[p] = "user" /\ pc'[p] \in {"close", "closed"} /\ \A q \in Proc \ {p} : pc'[q] = pc[q]
  BY DEF fileclose, Inv, TypeOK
<1>3. Reading' = Reading
  BY <1>2 DEF Reading, Proc
<1>4. Idle'
  BY <1>1, <1>2 DEF RInv, Idle, Proc
<1> QED
  BY <1>1, <1>3, <1>4, RingUnchanged, MapStutter DEF RInv

\* An end is closed by the last process that had it, when no call is in progress there.
LEMMA MapPipeclose ==
  ASSUME NEW p \in Proc, Inv, RInv, pipeclose(p) PROVE RInv' /\ Mapped
<1>1. SameRing /\ todo' = todo /\ got' = got /\ killed' = killed /\ pc[p] = "close"
  BY DEF pipeclose, SameRing
<1>2. CASE p \in Writer
  <2>1. writeopen' = FALSE /\ readopen' = readopen /\ pc' = [wakeup(Reader) EXCEPT ![p] = "closed"]
    BY <1>2, PipeAssumption DEF pipeclose
  <2>2. (\A q \in Reader : pc'[q] = (IF pc[q] = "sleep" THEN "call" ELSE pc[q]))
        /\ \A q \in Writer : pc'[q] = "closed" \/ pc'[q] = pc[q]
    BY <1>2, <2>1, PipeAssumption DEF Inv, TypeOK, Proc, wakeup
  <2>3. \A w \in Writer : todo[w] = <<>>
    BY <1>1, <1>2 DEF Inv, Ends, EndOpen, RInv, Idle
  <2>4. todo = [w \in Writer |-> <<>>]
    BY <2>3 DEF Inv, TypeOK
  <2>5. Reading' = Reading
    BY <2>2 DEF Reading
  <2>6. Idle'
    BY <1>1, <2>3 DEF Idle
  <2>7. Stream!CloseWrite
    BY <1>1, <2>1, <2>4, <2>5, RingUnchanged DEF Stream!CloseWrite
  <2> QED
    BY <1>1, <2>6, <2>7, RingUnchanged DEF RInv, Mapped, Stream!SNext
<1>3. CASE p \in Reader
  <2>1. readopen' = FALSE /\ writeopen' = writeopen /\ pc' = [wakeup(Writer) EXCEPT ![p] = "closed"]
    BY <1>3, PipeAssumption DEF pipeclose
  <2>2. (\A q \in Writer : pc'[q] = (IF pc[q] = "sleep" THEN "call" ELSE pc[q]))
        /\ \A q \in Reader : pc'[q] = "closed" \/ pc'[q] = pc[q]
    BY <1>3, <2>1, PipeAssumption DEF Inv, TypeOK, Proc, wakeup
  <2>3. \A r \in Reader : pc[r] \in {"close", "closed"}
    BY <1>1, <1>3 DEF Inv, Ends, EndOpen
  <2>4. Reading = {} /\ Reading' = Reading
    BY <2>2, <2>3 DEF Reading
  <2>5. Idle'
    BY <1>1, <2>2 DEF RInv, Idle
  <2>6. Stream!CloseRead
    BY <1>1, <2>1, <2>4, RingUnchanged DEF Stream!CloseRead
  <2> QED
    BY <1>1, <2>5, <2>6, RingUnchanged DEF RInv, Mapped, Stream!SNext
<1> QED
  BY <1>2, <1>3 DEF Proc

\* A process is killed.
LEMMA MapKill ==
  ASSUME NEW p \in Proc, Inv, RInv, kill(p) PROVE RInv' /\ Mapped
<1>1. SameRing /\ todo' = todo /\ got' = got /\ killed' = killed \cup {p} /\ writeopen' = writeopen
      /\ readopen' = readopen
  BY DEF kill, pipe, SameRing
<1>2. pc'[p] = (IF pc[p] = "sleep" THEN "call" ELSE pc[p]) /\ \A q \in Proc \ {p} : pc'[q] = pc[q]
  BY DEF kill, Inv, TypeOK
<1>3. Reading' = Reading
  BY <1>2 DEF Reading, Proc
<1>4. Idle'
  BY <1>1, <1>2 DEF RInv, Idle, Proc
<1>5. Stream!Kill(p)
  BY <1>1, <1>3, RingUnchanged DEF Stream!Kill
<1> QED
  BY <1>1, <1>4, <1>5, RingUnchanged DEF RInv, Mapped, Stream!SNext, Proc

\* Every step is a step of ByteStream or leaves its variables alone.
LEMMA StepMapped == Inv /\ Inv' /\ RInv /\ [Next]_vars => RInv' /\ Mapped
<1> SUFFICES ASSUME Inv, Inv', RInv, [Next]_vars PROVE RInv' /\ Mapped
  OBVIOUS
<1>1. ASSUME NEW p \in Proc, Kernel(p) PROVE RInv' /\ Mapped
  <2>1. CASE acquire(p) \/ sleep(p) \/ pipeclose(p)
    BY <2>1, MapAcquire, MapSleep, MapPipeclose
  <2>2. CASE p \in Writer /\ (pipewrite_byte(p) \/ pipewrite_full(p) \/ pipewrite_return(p))
    BY <2>2, MapWriteByte, MapWriteFull, MapWriteReturn
  <2>3. CASE p \in Reader /\ (piperead_empty(p) \/ piperead_byte(p) \/ piperead_return(p))
    BY <2>3, MapReadEmpty, MapReadByte, MapReadReturn
  <2> QED
    BY <1>1, <2>1, <2>2, <2>3 DEF Kernel
<1>2. ASSUME NEW p \in Proc, fileclose(p) \/ kill(p) PROVE RInv' /\ Mapped
  BY <1>2, MapFileclose, MapKill
<1>3. ASSUME NEW w \in Writer, write(w) PROVE RInv' /\ Mapped
  BY <1>3, MapWrite
<1>4. ASSUME NEW r \in Reader, read(r) PROVE RInv' /\ Mapped
  BY <1>4, MapRead
<1>5. CASE UNCHANGED vars
  <2>1. SameRing /\ todo' = todo /\ got' = got /\ killed' = killed /\ writeopen' = writeopen
        /\ readopen' = readopen /\ pc' = pc
    BY <1>5 DEF vars, pipe, SameRing
  <2>2. Reading' = Reading /\ Idle'
    BY <2>1 DEF Reading, RInv, Idle
  <2> QED
    BY <2>1, <2>2, RingUnchanged, MapStutter DEF RInv
<1> QED
  BY <1>1, <1>2, <1>3, <1>4, <1>5 DEF Next

\* The pipe implements the bounded byte stream, for any number of readers and writers, any
\* PIPESIZE and any counters that wrap around at a multiple of it: every step of pipe.c is
\* a step of ByteStream, or one that the users of the stream cannot see.
THEOREM PipeRefines == Spec => PipeIsStream
<1>1. Init => Stream!SInit /\ RInv
  <2> SUFFICES ASSUME Init PROVE Stream!SInit /\ RInv
    OBVIOUS
  <2>1. TypeOK /\ nread = nwrite
    BY InitInv DEF Inv, Init
  <2>2. Held = 0
    BY <2>1, HeldType DEF TypeOK
  <2>3. Queue = <<>> /\ Bounded
    BY <2>1, <2>2, QueueIs, PipeAssumption DEF Bounded
  <2>4. Reading = {}
    BY DEF Reading, Init, Proc
  <2> QED
    BY <2>3, <2>4 DEF Init, Stream!SInit, RInv, Idle
<1>2. Inv /\ Inv' /\ RInv /\ [Next]_vars => RInv' /\ [Stream!SNext]_(Stream!svars)
  BY StepMapped DEF Mapped
<1> QED
  BY <1>1, <1>2, Invariant, PTL DEF Spec, PipeIsStream, Stream!SSpec
=============================================================================
