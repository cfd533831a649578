------------------------------- MODULE Inode -------------------------------
(***************************************************************************)
(* The inode cache and the directories of fs.c, and the calls of sysfile.c *)
(* that walk and change the tree.  A step runs from one acquisition of an  *)
(* inode's sleep lock to the next point where the call can wait or where   *)
(* another process sees what it did.  A cache entry is named by its inode  *)
(* number: iget() never makes a second entry for a number.                 *)
(***************************************************************************)
EXTENDS Naturals, Sequences, FiniteSets, FiniteSetsExt, TLC

CONSTANTS
  Proc,
  NINODES,     \* sb.ninodes: inodes are 1..NINODES-1
  Name,        \* names besides "." and ".."
  Call,        \* the system calls each process makes: <<call, path, second path of link()>>;
               \* an absolute path begins with "/"
  Crashes,     \* whether the machine crashes
  MAXLINK,     \* bound: a file with so many links gets no other
  None

ASSUME InodeAssumption ==
  /\ DOMAIN Call = Proc
  /\ NINODES \in Nat /\ NINODES > 1 /\ MAXLINK \in Nat /\ Crashes \in BOOLEAN
  /\ \A c \in UNION {Call[p] : p \in Proc} :
       c[1] \in {"open", "creat", "mkdir", "mknod", "link", "unlink", "chdir"}
  /\ None \notin Proc

Inum == 1..NINODES - 1
Root == 1                    \* ROOTINO
Dot == {".", ".."}
Entry == Name \cup Dot
NoEntries == [n \in Entry |-> 0]

VARIABLES
  disk,     \* struct dinode: type and nlink
  ents,     \* the directory entries in the inode's content; 0 is a free one
  ic,       \* the icache entry: ref, valid, the lock's holder, the copy of disk
  s,        \* each process: its place in a call and the inodes it refers to
  cwd, fd,  \* proc->cwd and one open file
  lost      \* entries that went with a directory freed after its removal

vars == <<disk, ents, ic, s, cwd, fd, lost>>

Dinode == [type : {"free", "dir", "file", "dev"}, nlink : Nat]
Pcs == {"user", "walk", "open", "creat", "mkdir", "mknod", "link", "unlink", "chdir",
        "create_new", "create_old", "create_ret", "link_dir", "link_dup", "link_bad",
        "unlink_ip", "unlink_nlink", "unlink_bad"}
Idle == [pc |-> "user", op |-> "", cur |-> 0, held |-> 0, sub |-> 0, name |-> "",
         path |-> <<>>, new |-> <<>>, puts |-> <<>>, stage |-> ""]

\* The types of the disk, of the cache and of the calls in progress.
TypeOK ==
  /\ disk \in [Inum -> Dinode] /\ ents \in [Inum -> [Entry -> {0} \cup Inum]]
  /\ ic \in [Inum -> [ref : Nat, valid : BOOLEAN, lock : Proc \cup {None}, d : Dinode]]
  /\ cwd \in [Proc -> Inum] /\ fd \in [Proc -> {0} \cup Inum] /\ lost \in [Inum -> Nat]
  /\ \A p \in Proc : /\ s[p].pc \in Pcs /\ s[p].puts \in Seq(Inum)
                     /\ {s[p].cur, s[p].held, s[p].sub} \subseteq {0} \cup Inum
                     /\ s[p].stage \in {"", "free", "drop"}

\* The image mkfs makes, and processes that run in its root directory.
Init ==
  /\ disk = [i \in Inum |-> IF i = Root THEN [type |-> "dir", nlink |-> 1]
                                        ELSE [type |-> "free", nlink |-> 0]]
  /\ ents = [i \in Inum |-> [n \in Entry |-> IF i = Root /\ n \in Dot THEN Root ELSE 0]]
  /\ ic = [i \in Inum |-> [ref |-> IF i = Root THEN Cardinality(Proc) ELSE 0,
                           valid |-> FALSE, lock |-> None,
                           d |-> [type |-> "free", nlink |-> 0]]]
  /\ s = [p \in Proc |-> Idle]
  /\ cwd = [p \in Proc |-> Root] /\ fd = [p \in Proc |-> 0]
  /\ lost = [i \in Inum |-> 0]

-----------------------------------------------------------------------------
(* The cache: each operator takes and returns ic.                          *)

iget(c, i) == [c EXCEPT ![i].ref = @ + 1, ![i].valid = @ /\ c[i].ref > 0]

\* The inode as ilock() leaves it in memory.
Load(i) == IF ic[i].valid THEN ic[i].d ELSE disk[i]
ilock(c, p, i) == [c EXCEPT ![i].lock = p, ![i].valid = TRUE, ![i].d = Load(i)]
iunlock(c, i) == [c EXCEPT ![i].lock = None]

\* The process goes on with the given fields changed.
Go(p, changes) == s' = [s EXCEPT ![p] = changes @@ @]
Return(p, puts) == s' = [s EXCEPT ![p] = [Idle EXCEPT !.puts = puts]]

\* The process is at l, and has dropped the references it had to drop before.
At(p, l) == s[p].pc = l /\ s[p].puts = <<>>

\* The inode whose lock the process takes next.
Wants(p) ==
  CASE s[p].puts # <<>> -> IF s[p].stage = "" THEN Head(s[p].puts) ELSE 0
    [] s[p].pc = "walk" /\ s[p].path = <<>> -> 0
    [] s[p].pc \in {"walk", "open", "creat", "mkdir", "mknod", "unlink", "chdir", "link_dir"}
         -> s[p].cur
    [] s[p].pc \in {"create_new", "create_old", "unlink_ip"} -> s[p].sub
    [] s[p].pc \in {"link", "link_bad"} -> s[p].held
    [] OTHER -> 0

\* p has come to ilock(i) and the lock is free; an inode without type is a panic.
Locks(p, i) == Wants(p) = i /\ ic[i].lock = None /\ Load(i).type # "free"

-----------------------------------------------------------------------------
(* iput(): what it frees is decided under the inode's lock, the reference  *)
(* goes after the lock.                                                    *)

\* The reference goes; so does the iput() that was to drop it.
Dropped(p, i) ==
  /\ ic' = [ic EXCEPT ![i].ref = @ - 1]
  /\ Go(p, [stage |-> "", puts |-> Tail(s[p].puts)])

\* Mutant of LastRef: the other references are not looked at.
LastRef_any(i) == TRUE

\* r == 1, read with the inode locked.
LastRef(i) == ic[i].ref = 1

\* iput() up to its test of ref; without that test the rest is one step with it.
iput(p) ==
  /\ s[p].puts # <<>> /\ s[p].stage = ""
  /\ LET i == Head(s[p].puts)
         unlinked == ic[i].valid /\ ic[i].d.nlink = 0
     IN  /\ ic[i].lock = None
         /\ \/ ~unlinked /\ Dropped(p, i)
            \/ /\ unlinked /\ LastRef(i)
               /\ ic' = [ic EXCEPT ![i].lock = p] /\ Go(p, [stage |-> "free"])
            \/ /\ unlinked /\ ~LastRef(i)
               /\ Go(p, [stage |-> "drop"]) /\ UNCHANGED ic
  /\ UNCHANGED <<disk, ents, cwd, fd, lost>>

\* Mutant of Freed: the entry stays valid.
Freed_valid(e) == [e EXCEPT !.lock = None, !.d.type = "free"]

\* ip->type = 0, ip->valid = 0, and the lock is released.
Freed(e) == [e EXCEPT !.lock = None, !.d.type = "free", !.valid = FALSE]

\* itrunc(), the inode is freed on disk, and its entries are gone.
iput_free(p) ==
  /\ s[p].stage = "free"
  /\ LET i == Head(s[p].puts)
     IN  /\ disk' = [disk EXCEPT ![i].type = "free"]
         /\ ents' = [ents EXCEPT ![i] = NoEntries]
         /\ lost' = [j \in Inum |-> IF j = i THEN 0 ELSE
                       lost[j] + Cardinality({n \in Name : ents[i][n] = j})]
         /\ ic' = [ic EXCEPT ![i] = Freed(@)]
  /\ Go(p, [stage |-> "drop"])
  /\ UNCHANGED <<cwd, fd>>

iput_drop(p) ==
  /\ s[p].stage = "drop"
  /\ Dropped(p, Head(s[p].puts))
  /\ UNCHANGED <<disk, ents, cwd, fd, lost>>

-----------------------------------------------------------------------------
(* namex()                                                                 *)

\* Where a walk along the path begins, and the elements that are left.
From(p, path) == IF path # <<>> /\ Head(path) = "/" THEN Root ELSE cwd[p]
Elements(path) == IF path # <<>> /\ Head(path) = "/" THEN Tail(path) ELSE path

\* A call begins a transaction and walks its (first) path.
begin(p) ==
  /\ At(p, "user")
  /\ \E c \in Call[p] :
       /\ Go(p, [pc |-> "walk", op |-> c[1], cur |-> From(p, c[2]),
                 path |-> Elements(c[2]), new |-> c[3]])
       /\ ic' = iget(ic, From(p, c[2]))
  /\ UNCHANGED <<disk, ents, cwd, fd, lost>>

\* nameiparent() or namei().
Parent(p) == s[p].op \in {"creat", "mkdir", "mknod", "unlink"} \/ s[p].held # 0

\* No element is left.
namex_end(p) ==
  /\ At(p, "walk") /\ s[p].path = <<>>
  /\ \/ /\ ~Parent(p)
        /\ IF s[p].op = "link" THEN Go(p, [pc |-> "link", held |-> s[p].cur, cur |-> 0])
                               ELSE Go(p, [pc |-> s[p].op])
     \/ /\ Parent(p) /\ s[p].held = 0
        /\ Return(p, <<s[p].cur>>)
     \/ /\ Parent(p) /\ s[p].held # 0
        /\ Go(p, [pc |-> "link_bad", puts |-> <<s[p].cur>>, cur |-> 0])
  /\ UNCHANGED <<disk, ents, ic, cwd, fd, lost>>

\* One turn of the loop: under the directory's lock, find the next inode.
namex(p) ==
  /\ At(p, "walk")
  /\ s[p].path # <<>>
  /\ LET i == s[p].cur
         name == Head(s[p].path)
         next == ents[i][name]
         unlocked == iunlock(ilock(ic, p, i), i)
         isdir == Load(i).type = "dir"
         stop == isdir /\ Parent(p) /\ Len(s[p].path) = 1
     IN  /\ Locks(p, i)
         /\ \/ /\ stop
               /\ ic' = unlocked
               /\ Go(p, [pc |-> IF s[p].op = "link" THEN "link_dir" ELSE s[p].op,
                         name |-> name, path |-> <<>>])
            \/ /\ isdir /\ ~stop /\ next # 0
               /\ ic' = iget(unlocked, next)
               /\ Go(p, [cur |-> next, path |-> Tail(s[p].path), puts |-> <<i>>])
            \/ /\ ~isdir \/ (~stop /\ next = 0)
               /\ ic' = unlocked
               /\ IF s[p].held = 0 THEN Return(p, <<i>>)
                  ELSE Go(p, [pc |-> "link_bad", cur |-> 0, puts |-> <<i>>])
  /\ UNCHANGED <<disk, ents, cwd, fd, lost>>

-----------------------------------------------------------------------------
(* open, chdir, close                                                      *)

\* Mutant of Opened: no iput() where no descriptor is free.
Opened_leak(p, i) ==
  \/ fd[p] = 0 /\ fd' = [fd EXCEPT ![p] = i] /\ Return(p, <<>>)
  \/ Return(p, <<>>) /\ UNCHANGED fd

\* With a descriptor to spare the open file keeps the inode.
Opened(p, i) ==
  \/ fd[p] = 0 /\ fd' = [fd EXCEPT ![p] = i] /\ Return(p, <<>>)
  \/ Return(p, <<i>>) /\ UNCHANGED fd

\* sys_open() without O_CREATE, after namei(); a directory is only read.
sys_open(p) ==
  /\ At(p, "open") /\ Locks(p, s[p].cur)
  /\ ic' = iunlock(ilock(ic, p, s[p].cur), s[p].cur)
  /\ Opened(p, s[p].cur)
  /\ UNCHANGED <<disk, ents, cwd, lost>>

sys_chdir(p) ==
  /\ At(p, "chdir")
  /\ LET i == s[p].cur
     IN  /\ Locks(p, i)
         /\ ic' = iunlock(ilock(ic, p, i), i)
         /\ \/ /\ Load(i).type = "dir"
               /\ cwd' = [cwd EXCEPT ![p] = i]
               /\ Return(p, <<cwd[p]>>)
            \/ Load(i).type # "dir" /\ Return(p, <<i>>) /\ UNCHANGED cwd
  /\ UNCHANGED <<disk, ents, fd, lost>>

sys_close(p) ==
  /\ At(p, "user") /\ fd[p] # 0
  /\ fd' = [fd EXCEPT ![p] = 0]
  /\ Go(p, [puts |-> <<fd[p]>>])
  /\ UNCHANGED <<disk, ents, ic, cwd, lost>>

-----------------------------------------------------------------------------
(* create()                                                                *)

Free == {i \in Inum : disk[i].type = "free"}
TypeOf(op) == CASE op = "creat" -> "file" [] op = "mkdir" -> "dir" [] OTHER -> "dev"

\* Under the parent's lock: the name exists, or ialloc() takes an inode.
create(p) ==
  /\ s[p].pc \in {"creat", "mkdir", "mknod"} /\ s[p].puts = <<>>
  /\ LET dp == s[p].cur
         ip == ents[dp][s[p].name]
         c == ilock(ic, p, dp)
     IN  /\ Locks(p, dp)
         /\ \/ /\ ip # 0
               /\ ic' = iget(iunlock(c, dp), ip)
               /\ Go(p, [pc |-> "create_old", sub |-> ip, cur |-> 0, puts |-> <<dp>>])
               /\ UNCHANGED <<disk, ents>>
            \/ /\ ip = 0 /\ Free # {}
               /\ LET new == Min(Free)
                  IN  /\ disk' = [disk EXCEPT ![new] = [type |-> TypeOf(s[p].op), nlink |-> 0]]
                      /\ ents' = [ents EXCEPT ![new] = NoEntries]
                      /\ ic' = iget(c, new)
                      /\ Go(p, [pc |-> "create_new", sub |-> new])
  /\ UNCHANGED <<cwd, fd, lost>>

\* An inode of that name was found.
create_old(p) ==
  /\ At(p, "create_old")
  /\ LET i == s[p].sub
     IN  /\ Locks(p, i)
         /\ \/ /\ s[p].op = "creat" /\ Load(i).type = "file"
               /\ ic' = ilock(ic, p, i)
               /\ Go(p, [pc |-> "create_ret"])
            \/ /\ ~(s[p].op = "creat" /\ Load(i).type = "file")
               /\ ic' = iunlock(ilock(ic, p, i), i)
               /\ Return(p, <<i>>)
  /\ UNCHANGED <<disk, ents, cwd, fd, lost>>

\* Mutant of LinkedNew: the new inode's count is not set.
LinkedNew_unset(d, i, dp) == d

\* nlink = 1, and "." and ".." of a new directory; "." is not counted.
LinkedNew(d, i, dp) ==
  IF d[i].type = "dir" THEN [d EXCEPT ![i].nlink = 1, ![dp].nlink = @ + 1]
                       ELSE [d EXCEPT ![i].nlink = 1]

create_new(p) ==
  /\ At(p, "create_new")
  /\ LET i == s[p].sub
         dp == s[p].cur
         d == LinkedNew(disk, i, dp)
     IN  /\ Locks(p, i)
         /\ disk' = d
         /\ ents' = [ents EXCEPT ![dp][s[p].name] = i,
                       ![i] = IF d[i].type = "dir"
                              THEN [@ EXCEPT !["."] = i, ![".."] = dp] ELSE @]
         /\ ic' = [iunlock(ilock(ic, p, i), dp) EXCEPT ![i].d = d[i], ![dp].d = d[dp]]
         /\ Go(p, [pc |-> "create_ret", cur |-> 0, puts |-> <<dp>>])
  /\ UNCHANGED <<cwd, fd, lost>>

\* create() has returned the inode locked to sys_open, sys_mkdir or sys_mknod.
create_ret(p) ==
  /\ At(p, "create_ret")
  /\ ic' = iunlock(ic, s[p].sub)
  /\ IF s[p].op = "creat" THEN Opened(p, s[p].sub)
                          ELSE Return(p, <<s[p].sub>>) /\ UNCHANGED fd
  /\ UNCHANGED <<disk, ents, cwd, lost>>

-----------------------------------------------------------------------------
(* link and unlink                                                         *)

\* ip->nlink = n and iupdate().
Counted(d, i, n) == [d EXCEPT ![i].nlink = n]

\* sys_link() after namei(old).
sys_link(p) ==
  /\ At(p, "link")
  /\ LET i == s[p].held
         c == iunlock(ilock(ic, p, i), i)
         n == Load(i).nlink + 1
     IN  /\ Locks(p, i)
         /\ \/ /\ Load(i).type = "dir" \/ n > MAXLINK
               /\ ic' = c /\ Return(p, <<i>>) /\ UNCHANGED disk
            \/ /\ Load(i).type # "dir" /\ n <= MAXLINK
               /\ disk' = Counted(disk, i, n)
               /\ ic' = iget([c EXCEPT ![i].d.nlink = n], From(p, s[p].new))
               /\ Go(p, [pc |-> "walk", cur |-> From(p, s[p].new),
                         path |-> Elements(s[p].new), new |-> <<>>])
  /\ UNCHANGED <<ents, cwd, fd, lost>>

\* dirlink() in the new parent; it drops an inode of that name with dp locked.
link_dir(p) ==
  /\ At(p, "link_dir")
  /\ LET dp == s[p].cur
         old == ents[dp][s[p].name]
         c == ilock(ic, p, dp)
     IN  /\ Locks(p, dp)
         /\ \/ /\ old # 0
               /\ ic' = iget(c, old)
               /\ Go(p, [pc |-> "link_dup", puts |-> <<old>>])
               /\ UNCHANGED ents
            \/ /\ old = 0
               /\ ents' = [ents EXCEPT ![dp][s[p].name] = s[p].held]
               /\ ic' = iunlock(c, dp)
               /\ Return(p, <<dp, s[p].held>>)
  /\ UNCHANGED <<disk, cwd, fd, lost>>

link_dup(p) ==
  /\ At(p, "link_dup")
  /\ ic' = iunlock(ic, s[p].cur)
  /\ Go(p, [pc |-> "link_bad", cur |-> 0, puts |-> <<s[p].cur>>])
  /\ UNCHANGED <<disk, ents, cwd, fd, lost>>

\* Mutant of Undone: bad: keeps the count.
Undone_kept(n) == n

\* bad: takes the count back.
Undone(n) == n - 1

link_bad(p) ==
  /\ At(p, "link_bad")
  /\ LET i == s[p].held
         n == Undone(Load(i).nlink)
     IN  /\ Locks(p, i)
         /\ disk' = Counted(disk, i, n)
         /\ ic' = [iunlock(ilock(ic, p, i), i) EXCEPT ![i].d.nlink = n]
         /\ Return(p, <<i>>)
  /\ UNCHANGED <<ents, cwd, fd, lost>>

\* sys_unlink() under the parent's lock, which it keeps if the name is there.
sys_unlink(p) ==
  /\ At(p, "unlink")
  /\ LET dp == s[p].cur
         ip == ents[dp][s[p].name]
         found == s[p].name \notin Dot /\ ip # 0
         c == ilock(ic, p, dp)
     IN  /\ Locks(p, dp)
         /\ \/ /\ found
               /\ ic' = iget(c, ip)
               /\ Go(p, [pc |-> "unlink_ip", sub |-> ip])
            \/ ~found /\ ic' = iunlock(c, dp) /\ Return(p, <<dp>>)
  /\ UNCHANGED <<disk, ents, cwd, fd, lost>>

isdirempty(i) == \A n \in Name : ents[i][n] = 0

\* What may be unlinked: anything but a directory with entries.
May(i) == Load(i).type = "dir" => isdirempty(i)

\* Both locks held: the entry is cleared, a directory gives up its "..".
unlink_ip(p) ==
  /\ At(p, "unlink_ip")
  /\ LET dp == s[p].cur
         i == s[p].sub
         c == ilock(ic, p, i)
         n == IF Load(i).type = "dir" THEN ic[dp].d.nlink - 1 ELSE ic[dp].d.nlink
     IN  /\ Locks(p, i)
         /\ Load(i).nlink >= 1
         /\ \/ /\ ~May(i)
               /\ ic' = iunlock(c, i)
               /\ Go(p, [pc |-> "unlink_bad", sub |-> 0, puts |-> <<i>>])
               /\ UNCHANGED <<disk, ents>>
            \/ /\ May(i)
               /\ ents' = [ents EXCEPT ![dp][s[p].name] = 0]
               /\ disk' = Counted(disk, dp, n)
               /\ ic' = [iunlock(c, dp) EXCEPT ![dp].d.nlink = n]
               /\ Go(p, [pc |-> "unlink_nlink", cur |-> 0, puts |-> <<dp>>])
  /\ UNCHANGED <<cwd, fd, lost>>

unlink_nlink(p) ==
  /\ At(p, "unlink_nlink")
  /\ LET i == s[p].sub
         n == ic[i].d.nlink - 1
     IN  /\ disk' = Counted(disk, i, n)
         /\ ic' = [iunlock(ic, i) EXCEPT ![i].d.nlink = n]
         /\ Return(p, <<i>>)
  /\ UNCHANGED <<ents, cwd, fd, lost>>

unlink_bad(p) ==
  /\ At(p, "unlink_bad")
  /\ ic' = iunlock(ic, s[p].cur)
  /\ Return(p, <<s[p].cur>>)
  /\ UNCHANGED <<disk, ents, cwd, fd, lost>>

-----------------------------------------------------------------------------

\* No transaction is open.  A crash at any other time leaves the disk as the
\* last commit did, when none was.
AtRest == \A p \in Proc : At(p, "user")

\* The machine crashes and boots again.
crash ==
  /\ Crashes /\ AtRest
  /\ ic' = [i \in Inum |-> [ic[i] EXCEPT !.valid = FALSE,
                              !.ref = IF i = Root THEN Cardinality(Proc) ELSE 0]]
  /\ cwd' = [p \in Proc |-> Root] /\ fd' = [p \in Proc |-> 0]
  /\ UNCHANGED <<disk, ents, s, lost>>

Next ==
  \/ crash
  \/ \E p \in Proc :
       \/ begin(p) \/ iput(p) \/ iput_free(p) \/ iput_drop(p)
       \/ namex_end(p) \/ namex(p) \/ sys_open(p) \/ sys_chdir(p) \/ sys_close(p)
       \/ create(p) \/ create_old(p) \/ create_new(p) \/ create_ret(p)
       \/ sys_link(p) \/ link_dir(p) \/ link_dup(p) \/ link_bad(p)
       \/ sys_unlink(p) \/ unlink_ip(p) \/ unlink_nlink(p) \/ unlink_bad(p)

Spec == Init /\ [][Next]_vars
-----------------------------------------------------------------------------
(* Properties                                                              *)

\* The references p holds: its directory, its file, and those of its call.
Refs(p, i) ==
  LET held == <<cwd[p], fd[p], s[p].cur, s[p].held, s[p].sub>> \o s[p].puts
  IN  Cardinality({k \in DOMAIN held : held[k] = i})

\* ref counts the C pointers to an inode in every state of every call, the
\* failing ones included: none leaks a reference and none drops one twice.
RefsExact == TypeOK /\ \A i \in Inum : ic[i].ref = MapThenSumSet(LAMBDA p : Refs(p, i), Proc)

Allocated == {i \in Inum : disk[i].type # "free"}
Links(i) == {e \in Allocated \X Name : ents[e[1]][e[2]] = i}
Subdirs(i) == {d \in Allocated \ {Root} : ents[d][".."] = i /\ Links(d) # {}}

\* Whenever no transaction is open, and so in every state a crash can leave, an
\* inode's link count is the number of names it has, plus the ".." of the
\* directories in it, plus the names that were made in a directory already
\* removed and went with it: create(), link() and unlink() keep it however they
\* interleave and wherever they fail.
LinksExact ==
  AtRest => \A i \in Allocated :
    disk[i].nlink = Cardinality(Links(i)) + Cardinality(Subdirs(i)) + lost[i]
                    + (IF i = Root THEN 1 ELSE 0)

\* No directory entry leads to a free inode, at any moment of any call; the ".."
\* of a removed directory is the exception.  Nor does a call: the inode that one
\* is about to lock has a type on disk, and one it unlinks has a link, so that
\* no panic of ilock() and sys_unlink() is reached.
NoDanglingEntry ==
  /\ \A d \in Allocated, n \in Entry :
       ents[d][n] # 0 /\ (n = ".." => d = Root \/ Links(d) # {}) => ents[d][n] \in Allocated
  /\ \A p \in Proc : s[p].puts = <<>> /\ Wants(p) # 0 /\ ic[Wants(p)].lock = None =>
       /\ Load(Wants(p)).type # "free"
       /\ s[p].pc = "unlink_ip" => Load(Wants(p)).nlink >= 1

\* iput() that has read ref as 1 and goes on to free the inode is right until it
\* has: nobody gets another reference, and no name leads to the inode.
FreesAlone ==
  \A p \in Proc : s[p].stage = "free" =>
    LET i == Head(s[p].puts) IN ic[i].ref = 1 /\ Links(i) = {}

\* The copy in the cache is what is on disk whenever the inode is unlocked: every
\* change is written through before the lock goes, and an entry that outlives
\* its inode is read again.
CacheCoherent == \A i \in Inum : ic[i].valid /\ ic[i].lock = None => ic[i].d = disk[i]
=============================================================================
