------------------------------- MODULE Console -------------------------------
(***************************************************************************)
(* console.c's input: the keyboard interrupt edits a ring of INPUT_BUF     *)
(* characters with three uint indexes, and consoleread() takes what is     *)
(* complete.  Output and ^P, which only print, are left out.               *)
(***************************************************************************)
EXTENDS Integers, Sequences

CONSTANTS
  Reader,      \* processes that read the console
  Char,        \* ordinary characters
  Size,        \* the n of a read()
  INPUT_BUF,
  WRAP,        \* 2^32, the range of r, w and e
  None         \* nobody holds cons.lock

ASSUME ConsoleAssumption ==
  /\ None \notin Reader
  /\ Char \cap {"nl", "cr", "nul", "^D", "^U", "^H"} = {}
  /\ Size \subseteq Nat \ {0}
  /\ INPUT_BUF \in Nat \ {0}
  /\ WRAP \in Nat /\ WRAP > INPUT_BUF /\ WRAP % INPUT_BUF = 0

VARIABLES
  buf, r, w, e,   \* struct input
  lock,           \* the process that holds cons.lock
  pc,             \* where each reader is
  killed,         \* the killed readers
  left, got       \* consoleread()'s n, and what it has copied to dst

input == <<buf, r, w, e>>
vars == <<input, lock, pc, killed, left, got>>

\* "call": waits for cons.lock; "loop": holds it; "presleep": holds it and
\* has decided to sleep.
Pcs == {"user", "call", "loop", "presleep", "sleep"}
Stored == Char \cup {"nl", "^D"}
Key == Stored \cup {"cr", "nul", "^U", "^H"}

\* The types of struct input and of its readers.
TypeOK ==
  /\ buf \in [0..INPUT_BUF-1 -> Stored \cup {"nul"}]
  /\ {r, w, e} \subseteq 0..WRAP-1
  /\ lock \in Reader \cup {None}
  /\ pc \in [Reader -> Pcs]
  /\ killed \subseteq Reader
  /\ left \in [Reader -> Nat] /\ got \in [Reader -> Seq(Stored)]

Init ==
  /\ buf = [i \in 0..INPUT_BUF-1 |-> "nul"]
  /\ r = 0 /\ w = 0 /\ e = 0
  /\ lock = None
  /\ pc = [p \in Reader |-> "user"]
  /\ killed = {}
  /\ left = [p \in Reader |-> 0]
  /\ got = [p \in Reader |-> <<>>]

-----------------------------------------------------------------------------
(* consoleintr, one character; it runs with cons.lock.                     *)

Used == (e - r) % WRAP

\* wakeup(&input.r)
wakeup == [p \in Reader |-> IF pc[p] = "sleep" THEN "call" ELSE pc[p]]

\* Mutant of store: a full ring does not complete the line.
store_endless(k) ==
  LET c == IF k = "cr" THEN "nl" ELSE k
  IN  /\ c \in Stored
      /\ Used < INPUT_BUF
      /\ buf' = [buf EXCEPT ![e % INPUT_BUF] = c]
      /\ e' = (e + 1) % WRAP
      /\ w' = IF c \in {"nl", "^D"} THEN e' ELSE w
      /\ pc' = IF c \in {"nl", "^D"} THEN wakeup ELSE pc
      /\ UNCHANGED r

\* Mutant of store: ^D completes the line but wakes nobody.
store_silent(k) ==
  LET c == IF k = "cr" THEN "nl" ELSE k
  IN  /\ c \in Stored
      /\ Used < INPUT_BUF
      /\ buf' = [buf EXCEPT ![e % INPUT_BUF] = c]
      /\ e' = (e + 1) % WRAP
      /\ w' = IF c \in {"nl", "^D"} \/ e' = (r + INPUT_BUF) % WRAP THEN e' ELSE w
      /\ pc' = IF c = "nl" THEN wakeup ELSE pc
      /\ UNCHANGED r

\* The default case: the line is complete at a newline, at ^D and when the
\* ring is full.
store(k) ==
  LET c == IF k = "cr" THEN "nl" ELSE k
  IN  /\ c \in Stored
      /\ Used < INPUT_BUF
      /\ buf' = [buf EXCEPT ![e % INPUT_BUF] = c]
      /\ e' = (e + 1) % WRAP
      /\ \/ /\ c \in {"nl", "^D"} \/ e' = (r + INPUT_BUF) % WRAP
            /\ w' = e'
            /\ pc' = wakeup
         \/ /\ c \notin {"nl", "^D"} /\ e' # (r + INPUT_BUF) % WRAP
            /\ UNCHANGED <<w, pc>>
      /\ UNCHANGED r

\* Mutant of backspace: it erases down to r.
backspace_far(k) ==
  /\ k = "^H"
  /\ e # r
  /\ e' = (e - 1) % WRAP
  /\ UNCHANGED <<buf, r, w, pc>>

backspace(k) ==
  /\ k = "^H"
  /\ e # w
  /\ e' = (e - 1) % WRAP
  /\ UNCHANGED <<buf, r, w, pc>>

\* Back to the newline before the cursor, or to w.
killline(k) ==
  /\ k = "^U"
  /\ LET stop == {i \in 0..(e - w) % WRAP :
                    \/ (e - i) % WRAP = w
                    \/ buf[((e - i - 1) % WRAP) % INPUT_BUF] = "nl"}
         back == CHOOSE i \in stop : \A j \in stop : i <= j
     IN  e' = (e - back) % WRAP
  /\ UNCHANGED <<buf, r, w, pc>>

\* A key that changes nothing: "nul", a full ring, nothing to erase.
ignored(k) ==
  /\ \/ k = "nul"
     \/ k \in Stored \cup {"cr"} /\ Used >= INPUT_BUF
     \/ k = "^H" /\ e = w
  /\ UNCHANGED <<input, pc>>

consoleintr(k) ==
  /\ lock = None
  /\ store(k) \/ backspace(k) \/ killline(k) \/ ignored(k)
  /\ UNCHANGED <<lock, killed, left, got>>

-----------------------------------------------------------------------------
(* consoleread.                                                            *)

read(p) ==
  /\ pc[p] = "user" /\ p \notin killed
  /\ \E n \in Size : left' = [left EXCEPT ![p] = n]
  /\ got' = [got EXCEPT ![p] = <<>>]
  /\ pc' = [pc EXCEPT ![p] = "call"]
  /\ UNCHANGED <<input, lock, killed>>

\* acquire(&cons.lock), on entry and when sleep() returns.
acquire(p) ==
  /\ pc[p] = "call" /\ lock = None
  /\ lock' = p
  /\ pc' = [pc EXCEPT ![p] = "loop"]
  /\ UNCHANGED <<input, killed, left, got>>

\* The inner while loop, up to sleep().
empty(p) ==
  /\ pc[p] = "loop" /\ left[p] > 0 /\ r = w
  /\ \/ /\ p \in killed
        /\ lock' = None
        /\ pc' = [pc EXCEPT ![p] = "user"]
        /\ left' = [left EXCEPT ![p] = 0]
     \/ /\ p \notin killed
        /\ pc' = [pc EXCEPT ![p] = "presleep"]
        /\ UNCHANGED <<lock, left>>
  /\ UNCHANGED <<input, killed, got>>

sleep(p) ==
  /\ pc[p] = "presleep"
  /\ lock' = None
  /\ pc' = [pc EXCEPT ![p] = "sleep"]
  /\ UNCHANGED <<input, killed, left, got>>

\* release(&cons.lock) and return.
return(p) ==
  /\ lock' = None
  /\ pc' = [pc EXCEPT ![p] = "user"]

\* One character of the outer loop.
take(p) ==
  /\ pc[p] = "loop" /\ left[p] > 0 /\ r # w
  /\ LET c == buf[r % INPUT_BUF]
     IN  \/ /\ c = "^D"
            /\ r' = IF got[p] # <<>> THEN r ELSE (r + 1) % WRAP
            /\ left' = [left EXCEPT ![p] = 0]
            /\ return(p)
            /\ UNCHANGED got
         \/ /\ c # "^D"
            /\ r' = (r + 1) % WRAP
            /\ got' = [got EXCEPT ![p] = Append(@, c)]
            /\ \/ /\ c = "nl" \/ left[p] = 1
                  /\ left' = [left EXCEPT ![p] = 0]
                  /\ return(p)
               \/ /\ c # "nl" /\ left[p] > 1
                  /\ left' = [left EXCEPT ![p] = @ - 1]
                  /\ UNCHANGED <<lock, pc>>
  /\ UNCHANGED <<buf, w, e, killed>>

\* kill() of a reader.
kill(p) ==
  /\ p \notin killed
  /\ killed' = killed \cup {p}
  /\ pc' = [pc EXCEPT ![p] = IF @ = "sleep" THEN "call" ELSE @]
  /\ UNCHANGED <<input, lock, left, got>>

consoleread(p) == acquire(p) \/ empty(p) \/ sleep(p) \/ take(p)

Next ==
  \/ \E k \in Key : consoleintr(k)
  \/ \E p \in Reader : read(p) \/ consoleread(p) \/ kill(p)

Spec == Init /\ [][Next]_vars

\* Readers are run and read again; nobody has to type.  Of the readers that spin for
\* cons.lock while it is free one gets it, not each.
Fairness ==
  /\ \A p \in Reader : WF_vars(read(p)) /\ WF_vars(empty(p) \/ sleep(p) \/ take(p))
  /\ WF_vars(\E p \in Reader : acquire(p))

FairSpec == Spec /\ Fairness

-----------------------------------------------------------------------------
(* Properties.                                                             *)

\* The characters from index i up to index j.
Ring(i, j) == [n \in 1..((j - i) % WRAP) |-> buf[((i + n - 1) % WRAP) % INPUT_BUF]]

\* The ring and its indexes, wraparound included, are the line editor that
\* LineInput describes: nothing that a reader may already have seen is
\* erased, nothing is read twice or out of order, and every ^D gives one
\* reader an empty read.
Lines == INSTANCE LineInput WITH line <- Ring(w, e), ready <- Ring(r, w),
                                 Capacity <- INPUT_BUF
ConsoleIsLineInput == Lines!LSpec

\* A reader sleeps only while there is nothing to read: the wakeup of
\* consoleintr() cannot fall between the test and sleep(), and a line that
\* one reader leaves is not left to a sleeping one.
NoLostWakeup == TypeOK /\ (lock = None => \A p \in Reader : pc[p] = "sleep" => r = w)

\* A full ring ignores every key, so that only a reader can empty it: it
\* does, as long as a reader is alive.
FullRingDrains ==
  Used = INPUT_BUF ~> Used < INPUT_BUF \/ killed = Reader
=============================================================================
