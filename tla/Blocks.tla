------------------------------ MODULE Blocks -------------------------------
(***************************************************************************)
(* The content of inodes: the block bitmap, the direct and indirect block  *)
(* numbers, reading, writing and truncating (fs.c), on the image that      *)
(* mkfs.c makes.  writei() and itrunc() run under the inode's lock in a    *)
(* transaction and meet other calls only in the bitmap, so each is a step. *)
(***************************************************************************)
EXTENDS Naturals, Sequences, FiniteSets, FiniteSetsExt, SequencesExt, Bind

CONSTANTS
  FSSIZE,    \* blocks of the disk
  NMETA,     \* boot, super, log, inode and bitmap blocks
  BSIZE,     \* units of a block; a unit is a byte of data or a block number
  NDIRECT,   \* direct block numbers of an inode
  NFILE,     \* files besides the root directory
  RootSize,  \* size of the root directory's entries, for mkfs
  FileSize,  \* sizes the first file may have when mkfs copies it
  WriteSize  \* units one writei() writes

NINDIRECT == BSIZE
MAXFILE == NDIRECT + NINDIRECT
Block == 0..FSSIZE - 1
Unit == 0..BSIZE - 1
Inum == 1..NFILE + 1
Root == 1

\* mkfs makes the root's size the next multiple of BSIZE, a block too many when it
\* is one already.
ASSUME BlocksAssumption ==
  /\ {FSSIZE, NMETA, BSIZE, NDIRECT, NFILE} \subseteq Nat \ {0}
  /\ RootSize \in Nat /\ RootSize % BSIZE # 0 /\ RootSize < NDIRECT * BSIZE
  /\ NMETA < FSSIZE

VARIABLES used, data, ino
blkvars == <<used, data, ino>>

Zero == [u \in Unit |-> 0]
Empty == [size |-> 0, addrs |-> [k \in 0..NDIRECT |-> 0]]

\* What inode i holds: every unit of it is i.
Fill(i) == i

\* The types of the bitmap, the blocks and the inodes.
BlkTypeOK ==
  /\ used \subseteq Block
  /\ data \in [Block -> [Unit -> Block]]
  /\ \A i \in Inum : /\ ino[i].size \in 0..MAXFILE * BSIZE
                     /\ ino[i].addrs \in [0..NDIRECT -> Block]

-----------------------------------------------------------------------------
(* m is what a loop works on: the bitmap, the blocks and one inode's       *)
(* addrs; ok is FALSE once balloc() panics.                                *)

\* The first free block, marked and zeroed.
Fresh(m, b) == [m EXCEPT !.used = @ \cup {b}, !.data[b] = Zero]

\* balloc(), whose result goes to addrs[k].
balloc(m, k) ==
  IF m.used = Block THEN [m EXCEPT !.ok = FALSE]
  ELSE LET b == Min(Block \ m.used) IN [Fresh(m, b) EXCEPT !.addrs[k] = b]

\* balloc(), whose result goes to entry k of the indirect block.
balloc_indirect(m, k) ==
  IF m.used = Block THEN [m EXCEPT !.ok = FALSE]
  ELSE LET b == Min(Block \ m.used) IN [Fresh(m, b) EXCEPT !.data[m.addrs[NDIRECT]][k] = b]

\* bmap() for block bn of the file, allocating.
bmap(m, bn) ==
  LET direct == bn < NDIRECT
      k == IF direct THEN bn ELSE NDIRECT
  IN  Bind(IF m.addrs[k] = 0 THEN balloc(m, k) ELSE m, LAMBDA a :
        IF direct \/ ~a.ok \/ a.data[a.addrs[NDIRECT]][bn - NDIRECT] # 0 THEN a
        ELSE balloc_indirect(a, bn - NDIRECT))

\* The block bmap() returns where it need not allocate; 0 where it would.
Mapped(d, addrs, bn) ==
  IF bn < NDIRECT THEN addrs[bn]
  ELSE IF addrs[NDIRECT] = 0 THEN 0 ELSE d[addrs[NDIRECT]][bn - NDIRECT]

\* Mutant of Span: the last, partial block is left out.
Span_whole(bn, off, n) == {u \in Unit : bn * BSIZE >= off /\ (bn + 1) * BSIZE <= off + n}

\* The units of block bn that lie in [off, off + n).
Span(bn, off, n) == {u \in Unit : off <= bn * BSIZE + u /\ bn * BSIZE + u < off + n}

\* A turn of the loop of writei().
WriteBlock(m, bn, i, off, n) ==
  Bind(bmap(m, bn), LAMBDA a :
    IF ~a.ok THEN a
    ELSE [a EXCEPT !.data[Mapped(a.data, a.addrs, bn)] =
            [u \in Unit |-> IF u \in Span(bn, off, n) THEN Fill(i) ELSE @[u]]])

\* The loop from off on.
Written(m, i, off, n) ==
  LET first == off \div BSIZE
      blocks == [k \in 1..(off + n - 1) \div BSIZE - first + 1 |-> first + k - 1]
  IN  IF n = 0 THEN m
      ELSE FoldLeft(LAMBDA a, bn : Bind(a, LAMBDA y : IF y.ok THEN WriteBlock(y, bn, i, off, n)
                                                              ELSE y), m, blocks)

\* writei() refuses what would not fit in MAXFILE blocks.
Fits(off, n) == off + n <= MAXFILE * BSIZE

\* Only a write past the end changes the size.
NewSize(size, off, n) == Max({size, off + n})

writei(i, off, n) ==
  /\ off <= ino[i].size /\ Fits(off, n)
  /\ \E m \in {Written([used |-> used, data |-> data, addrs |-> ino[i].addrs, ok |-> TRUE],
                       i, off, n)} :
       /\ m.ok
       /\ used' = m.used /\ data' = m.data
       /\ ino' = [ino EXCEPT ![i] = [addrs |-> m.addrs, size |-> NewSize(@.size, off, n)]]

\* Mutant of Truncated: the indirect block itself is not freed.
Truncated_indirect(i) ==
  {ino[i].addrs[k] : k \in 0..NDIRECT - 1} \cup
  (IF ino[i].addrs[NDIRECT] = 0 THEN {} ELSE {data[ino[i].addrs[NDIRECT]][k] : k \in Unit})

\* The blocks itrunc() gives to bfree(): direct, in the indirect block, itself.
Truncated(i) ==
  {ino[i].addrs[k] : k \in 0..NDIRECT} \cup
  (IF ino[i].addrs[NDIRECT] = 0 THEN {} ELSE {data[ino[i].addrs[NDIRECT]][k] : k \in Unit})

\* bfree() of each; a block that is free already would be a panic, which
\* BitmapExact excludes.
bfree(map, blocks_) == map \ blocks_

itrunc(i) ==
  /\ i # Root
  /\ used' = bfree(used, Truncated(i) \ {0})
  /\ ino' = [ino EXCEPT ![i] = Empty]
  /\ UNCHANGED data

-----------------------------------------------------------------------------
(* mkfs.  Its iappend() takes blocks in order from freeblock; the bitmap   *)
(* is written last, with every block below freeblock set.                  *)

\* iappend() of n units to an empty inode, on a disk whose first blocks are used.
iappend(m, i, n) == Written([m EXCEPT !.addrs = Empty.addrs], i, 0, n)

\* "fix size of root inode dir"
RootFixed(off) == (off \div BSIZE + 1) * BSIZE

\* mkfs's own balloc(): every block below freeblock.
balloc_mkfs(m) == {b \in Block : \A a \in Block \ m.used : b < a}

\* The root's entries were appended, then the file.
mkfs(n) ==
  \E r \in {iappend([used |-> 0..NMETA - 1, data |-> [b \in Block |-> Zero],
                     addrs |-> Empty.addrs, ok |-> TRUE], Root, RootSize)} :
    \E f \in {iappend(r, Root + 1, n)} :
      /\ f.ok /\ used = balloc_mkfs(f) /\ data = f.data
      /\ ino = [i \in Inum |->
           CASE i = Root -> [size |-> RootFixed(RootSize), addrs |-> r.addrs]
             [] i = Root + 1 -> [size |-> n, addrs |-> f.addrs]
             [] OTHER -> Empty]

BlkInit == \E n \in FileSize : mkfs(n)

BlkNext ==
  \E i \in Inum \ {Root} :
    \/ itrunc(i)
    \/ \E off \in 0..MAXFILE * BSIZE, n \in WriteSize : writei(i, off, n)

-----------------------------------------------------------------------------
(* Properties                                                              *)

\* The blocks of an inode, with the indirect block, one by one.
BlocksOf(i) ==
  [k \in 0..MAXFILE |->
     IF k <= NDIRECT THEN ino[i].addrs[k]
     ELSE IF ino[i].addrs[NDIRECT] = 0 THEN 0
     ELSE data[ino[i].addrs[NDIRECT]][k - NDIRECT - 1]]
Holds(b) == {h \in Inum \X (0..MAXFILE) : BlocksOf(h[1])[h[2]] = b}

\* The bitmap is exact after every write and every truncation, from the image
\* mkfs made on: a block is marked if and only if it is metadata or exactly one
\* inode holds it, once.
BitmapExact ==
  /\ BlkTypeOK
  /\ \A b \in Block :
       IF b < NMETA THEN b \in used /\ (b # 0 => Holds(b) = {})
       ELSE Cardinality(Holds(b)) = IF b \in used THEN 1 ELSE 0

\* What readi() returns for a unit below the size.
readi(i, off) == data[Mapped(data, ino[i].addrs, off \div BSIZE)][off % BSIZE]

\* A file reads back as what was written to it, across the step from direct to
\* indirect blocks and however blocks went from one file to another before.  Every
\* block below the size is there, the root directory's included, so that a read
\* never allocates: fileread() opens no transaction.
ReadsWritten ==
  \A i \in Inum : \A off \in 0..ino[i].size - 1 :
    /\ Mapped(data, ino[i].addrs, off \div BSIZE) # 0
    /\ i # Root => readi(i, off) = Fill(i)
=============================================================================
