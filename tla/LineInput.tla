------------------------------ MODULE LineInput ------------------------------
(***************************************************************************)
(* What the console promises its readers: typed characters wait in `line'  *)
(* where they can be erased, until a newline, ^D or a full buffer makes    *)
(* them `ready'; ready characters are read in order, at most a line at a   *)
(* time, and ^D ends a read without being read as a character.             *)
(***************************************************************************)
EXTENDS Naturals, Sequences

CONSTANTS Reader, Char, Capacity, Size

VARIABLES
  line,        \* typed, and can still be erased
  ready,       \* can be read
  left,        \* the number of characters a reader still wants
  got          \* the characters it has

lvars == <<line, ready, left, got>>

LInit ==
  /\ line = <<>> /\ ready = <<>>
  /\ left = [p \in Reader |-> 0]
  /\ got = [p \in Reader |-> <<>>]

\* A character is typed; a full buffer takes none.
Type(c) ==
  /\ Len(ready) + Len(line) < Capacity
  /\ \/ /\ c \in {"nl", "^D"} \/ Len(ready) + Len(line) = Capacity - 1
        /\ ready' = ready \o Append(line, c)
        /\ line' = <<>>
     \/ /\ c \notin {"nl", "^D"} /\ Len(ready) + Len(line) < Capacity - 1
        /\ line' = Append(line, c)
        /\ UNCHANGED ready
  /\ UNCHANGED <<left, got>>

\* The last character, or all of the line, is erased.
Erase ==
  /\ line # <<>>
  /\ line' \in {SubSeq(line, 1, Len(line) - 1), <<>>}
  /\ UNCHANGED <<ready, left, got>>

StartRead(p, n) ==
  /\ left' = [left EXCEPT ![p] = n]
  /\ got' = [got EXCEPT ![p] = <<>>]
  /\ UNCHANGED <<line, ready>>

\* A newline is the last character of a read.
Read(p) ==
  /\ left[p] > 0 /\ ready # <<>> /\ Head(ready) # "^D"
  /\ got' = [got EXCEPT ![p] = Append(@, Head(ready))]
  /\ left' = [left EXCEPT ![p] = IF Head(ready) = "nl" THEN 0 ELSE @ - 1]
  /\ ready' = Tail(ready)
  /\ UNCHANGED line

\* ^D ends a read; it stays for the next one unless this one has nothing.
EndOfFile(p) ==
  /\ left[p] > 0 /\ ready # <<>> /\ Head(ready) = "^D"
  /\ ready' = IF got[p] = <<>> THEN Tail(ready) ELSE ready
  /\ left' = [left EXCEPT ![p] = 0]
  /\ UNCHANGED <<line, got>>

\* The reader is killed while nothing is ready.
Abort(p) ==
  /\ left[p] > 0 /\ ready = <<>>
  /\ left' = [left EXCEPT ![p] = 0]
  /\ UNCHANGED <<line, ready, got>>

LNext ==
  \/ \E c \in Char \cup {"nl", "^D"} : Type(c)
  \/ Erase
  \/ \E p \in Reader : \/ \E n \in Size : StartRead(p, n)
                       \/ Read(p) \/ EndOfFile(p) \/ Abort(p)

LSpec == LInit /\ [][LNext]_lvars
=============================================================================
