----------------------------- MODULE ByteStream -----------------------------
(***************************************************************************)
(* What a pipe promises: a bounded first-in first-out stream of bytes.  A  *)
(* read returns the oldest bytes, and no bytes only at the end of file; a  *)
(* write fails only when nobody can read, or when its process was killed.  *)
(***************************************************************************)
EXTENDS Naturals, Sequences

CONSTANTS
  Writer,     \* processes that hold the write end
  Reader,     \* processes that hold the read end
  Message,    \* the byte sequences a write() may be given
  Capacity    \* bytes the pipe holds

VARIABLES
  queue,      \* the bytes written and not yet read
  todo,       \* what each writer's current call has still to write
  got,        \* what each reader's current call has read
  reading,    \* the readers in a read()
  killed,     \* the killed processes
  wopen,      \* some writer has the write end open
  ropen       \* some reader has the read end open

svars == <<queue, todo, got, reading, killed, wopen, ropen>>

SInit ==
  /\ queue = <<>>
  /\ todo = [w \in Writer |-> <<>>]
  /\ got = [r \in Reader |-> <<>>]
  /\ reading = {}
  /\ killed = {}
  /\ wopen = TRUE /\ ropen = TRUE

StartWrite(w) ==
  /\ wopen /\ todo[w] = <<>>
  /\ \E m \in Message : todo' = [todo EXCEPT ![w] = m]
  /\ UNCHANGED <<queue, got, reading, killed, wopen, ropen>>

\* The next byte of a write enters the stream.
Put(w) ==
  /\ todo[w] # <<>>
  /\ Len(queue) < Capacity
  /\ queue' = Append(queue, Head(todo[w]))
  /\ todo' = [todo EXCEPT ![w] = Tail(@)]
  /\ UNCHANGED <<got, reading, killed, wopen, ropen>>

\* A write gives up the bytes it could not write.
FailWrite(w) ==
  /\ todo[w] # <<>>
  /\ ~ropen \/ w \in killed
  /\ todo' = [todo EXCEPT ![w] = <<>>]
  /\ UNCHANGED <<queue, got, reading, killed, wopen, ropen>>

StartRead(r) ==
  /\ ropen /\ r \notin reading
  /\ reading' = reading \cup {r}
  /\ got' = [got EXCEPT ![r] = <<>>]
  /\ UNCHANGED <<queue, todo, killed, wopen, ropen>>

\* A read takes the oldest byte.
Take(r) ==
  /\ r \in reading
  /\ queue # <<>>
  /\ got' = [got EXCEPT ![r] = Append(@, Head(queue))]
  /\ queue' = Tail(queue)
  /\ UNCHANGED <<todo, reading, killed, wopen, ropen>>

\* A read returns something, the end of file, or an error to a killed
\* process.
EndRead(r) ==
  /\ r \in reading
  /\ got[r] # <<>> \/ (queue = <<>> /\ ~wopen) \/ r \in killed
  /\ reading' = reading \ {r}
  /\ UNCHANGED <<queue, todo, got, killed, wopen, ropen>>

Kill(p) ==
  /\ killed' = killed \cup {p}
  /\ UNCHANGED <<queue, todo, got, reading, wopen, ropen>>

\* An end is closed when no call that uses it is in progress.
CloseWrite ==
  /\ wopen' = FALSE
  /\ todo = [w \in Writer |-> <<>>]
  /\ UNCHANGED <<queue, todo, got, reading, killed, ropen>>

CloseRead ==
  /\ ropen' = FALSE
  /\ reading = {}
  /\ UNCHANGED <<queue, todo, got, reading, killed, wopen>>

SNext ==
  \/ \E w \in Writer : StartWrite(w) \/ Put(w) \/ FailWrite(w)
  \/ \E r \in Reader : StartRead(r) \/ Take(r) \/ EndRead(r)
  \/ \E p \in Writer \cup Reader : Kill(p)
  \/ CloseWrite
  \/ CloseRead

SSpec == SInit /\ [][SNext]_svars
=============================================================================
