------------------------------ MODULE UnixShell -----------------------------
(***************************************************************************)
(* The small shell of Project 2: main()'s splitting of a line into         *)
(* arguments, the paths of cd, cp and mv, and what cp and mv do to files.  *)
(* cd changes directory_path only: the process stays in Cwd, where the     *)
(* relative names that cp and mv open are looked up.                       *)
(***************************************************************************)
EXTENDS Naturals, Sequences, FiniteSets, Bind

CONSTANTS
  Dirs,      \* the directories, as sequences of names; <<>> is the root
  Cwd, Home, \* the process's directory, and /home/$USER (which need not exist)
  ReadOnly,  \* directories in which no file can be created
  Files,     \* names of files
  CdArg,     \* arguments of cd and last arguments of cp and mv, as characters
  Component, MAXCOMP,  \* components of a path that is typed, and bound on their number
  LineChars, MAXLINE,  \* characters of a line, and bound on its length
  ARGUMENTS_SIZE, WORDLEN   \* rows of commands[][], and characters in a row

ASSUME UnixAssumption ==
  /\ Cwd \in Dirs /\ ReadOnly \subseteq Dirs
  /\ {MAXLINE, MAXCOMP, ARGUMENTS_SIZE, WORDLEN} \subseteq Nat \ {0}

VARIABLES
  directory_path,  \* the prompt's path, a string of characters
  files,           \* [Dirs \X Files -> contents]; a name stands for its first contents
  dest,            \* ghost: the directory the last cp or mv wrote to
  twice,           \* ghost: it was given a file twice
  line,            \* the characters of a line, and
  path             \* the components of a relative path, typed so far
uxvars == <<directory_path, files, dest, twice, line, path>>

NUL == "NUL"
Absent == "absent"
EmptyFile == "empty"
Part == "part"   \* what is left of a file when not all of it was read or written

\* The types; the path is absolute, since all of it grows from getcwd()'s.
UxTypeOK ==
  /\ directory_path # <<>> /\ directory_path[1] = "/"
  /\ files \in [Dirs \X Files -> Files \cup {Absent, EmptyFile, Part}]
  /\ dest \in Dirs /\ twice \in BOOLEAN
  /\ line \in Seq(LineChars) /\ Len(line) <= MAXLINE /\ path \in Seq(Component)

-----------------------------------------------------------------------------
(* Paths                                                                   *)

Ends(p) == p # <<>> /\ p[Len(p)] = "/"
Ch(arg, k) == IF k <= Len(arg) THEN arg[k] ELSE NUL   \* the buffers are zero-filled
Cut(p) == SubSeq(p, 1, Len(p) - 1)

\* The names of a path, and the directory the system finds for it.
RECURSIVE Names(_, _), Found(_, _), Spelled(_)
Names(p, n) ==
  IF p = <<>> THEN IF n = <<>> THEN <<>> ELSE <<n>>
  ELSE IF Head(p) # "/" THEN Names(Tail(p), Append(n, Head(p)))
  ELSE IF n = <<>> THEN Names(Tail(p), <<>>) ELSE <<n>> \o Names(Tail(p), <<>>)
Found(at, names) ==
  IF names = <<>> THEN at
  ELSE Found(IF Head(names) = <<".">> THEN at
             ELSE IF Head(names) = <<".", ".">> THEN (IF at = <<>> THEN at ELSE Cut(at))
             ELSE Append(at, Head(names)), Tail(names))
Spelled(names) == IF names = <<>> THEN <<>> ELSE <<"/">> \o Head(names) \o Spelled(Tail(names))

Dir(p) == Found(<<>>, Names(p, <<>>))
opendir(p) == Dir(p) \in Dirs

\* "..": the last slash goes, unless it is the only one, and what is before it up to
\* the next.
Up(p) ==
  Bind(IF Len(p) # 1 THEN Cut(p) ELSE p, LAMBDA q :
    SubSeq(q, 1, CHOOSE n \in 0..Len(q) :
                   (n = 0 \/ q[n] = "/") /\ \A m \in n + 1..Len(q) : q[m] # "/"))

\* The loop over a relative argument from its k-th character.  At a "." the code looks
\* at the next character for "/", and at the character `ahead` for the end: 2 in cd, 1 in
\* cp and mv.  It panics at "..x"; at another "." inside a name it loops for ever.
Bad == <<"bad">>
Loops == <<"loops">>
RECURSIVE Walk(_, _, _, _)
Walk(p, arg, k, ahead) ==
  IF Ch(arg, k) = NUL THEN (IF Len(p) # 1 /\ Ends(p) THEN Cut(p) ELSE p)
  ELSE IF Ch(arg, k) # "." THEN Walk(Append(p, arg[k]), arg, k + 1, ahead)
  ELSE Bind(IF Ch(arg, k + 1) = "/" \/ Ch(arg, k + ahead) = NUL THEN k + 2 ELSE k, LAMBDA j :
         IF Ch(arg, j + 1) = "." THEN
           IF Ch(arg, j + 2) \in {"/", NUL} THEN Walk(Up(p), arg, j + 3, ahead) ELSE Bad
         ELSE IF j = k THEN Loops ELSE Walk(p, arg, j, ahead))

Relative(dir, arg, ahead) == Walk(IF Ends(dir) THEN dir ELSE Append(dir, "/"), arg, 1, ahead)

-----------------------------------------------------------------------------
(* Commands                                                                *)

Getcwd(d) == IF d = <<>> THEN <<"/">> ELSE Spelled(d)

UxInit ==
  /\ directory_path = Getcwd(Cwd)
  /\ files = [x \in Dirs \X Files |-> IF x[1] = Cwd THEN x[2] ELSE Absent]
  /\ dest = Cwd /\ twice = FALSE /\ line = <<>> /\ path = <<>>

\* The new path if it can be opened, else the old one.
Tried(p, old) == IF p # Bad /\ opendir(p) THEN p ELSE old

custom_cd(arg) ==
  /\ \/ arg = <<>> /\ directory_path' = Home
     \/ arg # <<>> /\ arg[1] = "/" /\ directory_path' = Tried(arg, directory_path)
     \/ /\ arg # <<>> /\ arg[1] # "/"
        /\ \E p \in {Relative(directory_path, arg, 2)} :
             p # Loops /\ directory_path' = Tried(p, directory_path)
  /\ UNCHANGED <<files, dest, twice, line, path>>

\* Mutant of Opened: the check of the two fopen()s is dropped.
Opened_any(f, n, d) == TRUE

\* Both fopen()s succeed.
Opened(f, n, d) == f[Cwd, n] # Absent /\ d \notin ReadOnly

\* What arrives of contents c: the results of fread(), fwrite() and fclose() are not
\* looked at, and a disk that is full takes a part.
Arrives(c) == IF c = EmptyFile THEN {c} ELSE {c, Part}

\* One file: fopen(new_path, "wb") has truncated the target, also when there is no
\* source; a file that is its own target is empty by the time it is read.  mv (rm)
\* removes the source, whatever has arrived.
Copied(f, n, d, rm) ==
  Bind(IF d \in ReadOnly THEN f ELSE [f EXCEPT ![d, n] = EmptyFile], LAMBDA g :
    IF ~Opened(f, n, d) THEN {g}
    ELSE {[g EXCEPT ![d, n] = IF d \in ReadOnly THEN @ ELSE c,
                    ![Cwd, n] = IF rm THEN Absent ELSE IF d = Cwd THEN c ELSE @] :
            c \in Arrives(g[Cwd, n])})

\* The files from the last to the first, up to one that cannot be opened.
RECURSIVE CopiedAll(_, _, _, _)
CopiedAll(f, ns, d, rm) ==
  IF ns = <<>> THEN {f}
  ELSE LET after == Copied(f, ns[Len(ns)], d, rm)
       IN  IF Opened(f, ns[Len(ns)], d)
           THEN UNION {CopiedAll(g, Cut(ns), d, rm) : g \in after} ELSE after

\* The directories a last argument can mean.  For a relative one temp_path is not
\* initialised: what follows the characters put into it may make it any path.
Targets(arg) == IF arg[1] = "/" THEN {Dir(arg)} \cap Dirs ELSE Dirs

\* custom_cp() and custom_mv() (rm).  How a relative argument is read, up to "Not a
\* directory" and the loop that never ends, does not depend on temp_path.
Copies(ns, arg, rm) ==
  /\ arg # <<>> /\ ns # <<>>
  /\ \E p \in {IF arg[1] = "/" THEN arg ELSE Relative(directory_path, arg, 1)} :
       /\ p # Loops
       /\ \/ /\ p # Bad
             /\ \E d \in Targets(arg) : dest' = d /\ files' \in CopiedAll(files, ns, d, rm)
          \/ (arg[1] = "/" => ~opendir(arg)) /\ UNCHANGED <<files, dest>>
  /\ twice' = (Cardinality({ns[i] : i \in DOMAIN ns}) # Len(ns))
  /\ UNCHANGED <<directory_path, line, path>>

custom_cp(ns, arg) == Copies(ns, arg, FALSE)
custom_mv(ns, arg) == Copies(ns, arg, TRUE)

-----------------------------------------------------------------------------
(* The arguments of a line                                                 *)

\* main() reads "w" (a character of a word), " " and a quote; a new line ends the line.
\* commands[command][index] gets the character; only a blank resets index.  The rows lie
\* one after the other, so a long word runs into the next; got is the places written, and
\* over that a character fell behind the last row.
Start0 == [command |-> 1, index |-> 1, quoted |-> FALSE, got |-> {}, over |-> FALSE]

Place(command, index) == (command - 1) * WORDLEN + index

\* Mutant of Reset: the next word goes on where the last one ended.
Reset_kept(i) == i

\* A blank ends the inner loop, which begins with index = 0.
Reset(i) == 1

Scanned(st, ch) ==
  CASE ch = "q" -> [st EXCEPT !.quoted = ~@, !.command = IF st.quoted THEN @ + 1 ELSE @]
    [] ch = " " /\ ~st.quoted -> [st EXCEPT !.command = @ + 1, !.index = Reset(@)]
    [] OTHER -> Bind(Place(st.command, st.index), LAMBDA at :
                  [st EXCEPT !.got = @ \cup {at}, !.index = @ + 1,
                             !.over = @ \/ at > ARGUMENTS_SIZE * WORDLEN])

RECURSIVE Scan(_, _)
Scan(st, l) == IF l = <<>> THEN st ELSE Bind(Scanned(st, Head(l)), LAMBDA x : Scan(x, Tail(l)))

\* The length of the string that starts at a row.
strlen(st, n) ==
  Cardinality({i \in 1..MAXLINE : \A j \in 1..i : Place(n, j) \in st.got})

\* The strings that the commands see: up to the first that is empty.  args[] has an
\* entry for every row but the first, and none behind them to stop at.
Seen(st) == {n \in 1..ARGUMENTS_SIZE : \A m \in 1..n : strlen(st, m) > 0}

scanf ==
  /\ Len(line) < MAXLINE
  /\ \E ch \in LineChars : line' = Append(line, ch)
  /\ UNCHANGED <<directory_path, files, dest, twice, path>>

\* A path is typed, component by component.
type_path ==
  /\ Len(path) < MAXCOMP
  /\ \E n \in Component : path' = Append(path, n)
  /\ UNCHANGED <<directory_path, files, dest, twice, line>>

UxNext ==
  \/ \E arg \in CdArg : custom_cd(arg)
  \/ \E m, n \in Files, arg \in CdArg :
       \E ns \in {<<m>>, <<m, n>>} : custom_cp(ns, arg) \/ custom_mv(ns, arg)

-----------------------------------------------------------------------------
(* Properties                                                              *)

\* What the prompt shows is a directory that can be opened, whatever cd is given, except
\* after a cd without argument, which does not look whether the home directory exists.
PromptIsDirectory == directory_path = Home \/ opendir(directory_path)

\* For an argument made of ".", ".." and names without a dot, cd finds the directory the
\* system would, unless the argument ends in ".." and not in "./..".
LastUp(names) ==
  /\ names[Len(names)] = <<".", ".">>
  /\ Len(names) > 1 => names[Len(names) - 1] # <<".">>
ResolvesRight ==
  path # <<>> /\ ~LastUp(path) =>
    Dir(Relative(directory_path, Tail(Spelled(path)), 2)) = Found(Dir(directory_path), path)

\* cp and mv change only files they are given, in the process's directory and in the one
\* they are sent to, and a file that is emptied, replaced or removed by them leaves the
\* whole of the source in that directory.  The exceptions: the two are one directory; a
\* file is named twice or does not exist, when the target is emptied for nothing; and
\* not all of it could be read or written, which the code does not notice.
NothingLost ==
  [][\A e \in Dirs, n \in Files :
       files[e, n] # Absent /\ files'[e, n] # files[e, n] =>
         /\ e \in {Cwd, dest'}
         /\ \/ files'[dest', n] = files[Cwd, n]
            \/ dest' = Cwd \/ twice' \/ files[Cwd, n] = Absent
            \/ files'[dest', n] = Part]_uxvars

\* A line without quotes whose fields, empty ones included, are fewer than the rows and
\* shorter than a row stays in the buffer, and the commands see its words, each as long
\* as it was typed, up to its first empty field, which ends the list.
Blanks(l) == {0, Len(l) + 1} \cup {i \in DOMAIN l : l[i] = " "}
FieldLen(l, b) == (CHOOSE c \in Blanks(l) : c > b /\ \A x \in Blanks(l) : x > b => c <= x) - b - 1
Nth(l, n) == CHOOSE b \in Blanks(l) : Cardinality({x \in Blanks(l) : x < b}) = n - 1
Fields(l) == [n \in 1..Cardinality(Blanks(l)) - 1 |-> FieldLen(l, Nth(l, n))]
SeenUpToGap ==
  (\A i \in DOMAIN line : line[i] # "q") =>
    \E st \in {Scan(Start0, line)}, words \in {Fields(line)} :
      Len(words) < ARGUMENTS_SIZE /\ (\A n \in DOMAIN words : words[n] < WORDLEN) =>
        /\ ~st.over
        /\ Seen(st) = {n \in DOMAIN words : \A m \in 1..n : words[m] > 0}
        /\ \A n \in Seen(st) : strlen(st, n) = words[n]

\* What a command takes its arguments for is what was typed, with the exceptions above:
\* the words it sees, the directory cd finds for a path, and the one the prompt shows.
ArgumentsRight == UxTypeOK /\ PromptIsDirectory /\ ResolvesRight /\ SeenUpToGap
=============================================================================
