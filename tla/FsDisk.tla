------------------------------- MODULE FsDisk -------------------------------
(***************************************************************************)
(* What the file system keeps on the disk, as values: the block bitmap,    *)
(* the inodes, the contents of the blocks, and the operators of fs.c that  *)
(* read and change them for one inode: balloc, bfree, bmap, itrunc, readi, *)
(* writei, dirlookup, dirlink and skipelem, and mkfs.c, which makes the    *)
(* first image.                                                            *)
(*                                                                         *)
(* The unit of data is the cell.  A byte of a file, a directory entry and  *)
(* a block address take one cell each, and a block holds BSIZE cells.      *)
(* Zero is what a cleared cell holds: no byte, no entry, no address.       *)
(*                                                                         *)
(* A state of the operators is st = [d, x, i]: the disk d, the in-memory   *)
(* copy x of an inode and its number i.  The caller holds the inode lock.  *)
(***************************************************************************)
EXTENDS Integers, Sequences, FiniteSets, SequencesExt

CONSTANTS
  BSIZE,     \* cells in a block
  NDIRECT,   \* direct addresses in an inode; address NDIRECT is INDIRECT
  DIRSIZ,    \* characters in the name of a directory entry
  BPB,       \* bits in the bitmap
  FSSIZE,    \* sb.size: blocks of the file system, at most BPB
  NINODES,   \* the last inode number: ialloc scans 1..sb.ninodes-1
  Zero       \* a cleared cell

ASSUME DiskAssumption ==
  /\ BSIZE \in Nat \ {0} /\ NDIRECT \in Nat \ {0} /\ DIRSIZ \in Nat \ {0}
  /\ FSSIZE \in 1..BPB /\ NINODES \in Nat \ {0}

Block == 0..(BPB - 1)
Inum == 1..NINODES
ROOTINO == 1
NINDIRECT == BSIZE
MAXFILE == NDIRECT + NINDIRECT
T_DIR == 1
T_FILE == 2
T_DEV == 3

NoAddrs == [a \in 0..NDIRECT |-> Zero]
ZeroBlock == [o \in 0..(BSIZE - 1) |-> Zero]

\* struct dinode; type 0 marks a free inode.
Dinode(type, nlink) ==
  [type |-> type, major |-> 0, nlink |-> nlink, size |-> 0, addrs |-> NoAddrs]

-----------------------------------------------------------------------------
(* Blocks *)

\* The first free bit.  The scan covers all BPB bits of a bitmap block,
\* also those past sb.size.
balloc(d) == Min(Block \ d.used)

Mark(d, b) == [d EXCEPT !.used = @ \cup {b}]

\* bfree: the block is cleared first, then its bit.
bfree_no_bzero(d, b) == [d EXCEPT !.used = @ \ {b}]
bfree(d, b) == [d EXCEPT !.data[b] = ZeroBlock, !.used = @ \ {b}]

\* bmap with alloc = 0: the address of block bn of the inode.
Addr(st, bn) ==
  CASE bn < NDIRECT -> st.x.addrs[bn]
    [] bn >= NDIRECT /\ st.x.addrs[NDIRECT] = Zero -> Zero
    [] OTHER -> st.d.data[st.x.addrs[NDIRECT]][bn - NDIRECT]

\* Gives address a of the inode itself a block, if it has none.
WithAddr(st, a) ==
  IF st.x.addrs[a] # Zero THEN st
  ELSE [st EXCEPT !.x.addrs[a] = balloc(st.d), !.d = Mark(@, balloc(st.d))]

\* bmap with alloc = 1.  Only the indirect block is written here: the
\* addresses in the inode reach the disk with the next iupdate.
bmap(st, bn) ==
  IF bn < NDIRECT THEN WithAddr(st, bn)
  ELSE LET s == WithAddr(st, NDIRECT)
           b == balloc(s.d)
       IN IF Addr(s, bn) # Zero THEN s
          ELSE [s EXCEPT !.d = [Mark(@, b) EXCEPT
                  !.data[s.x.addrs[NDIRECT]][bn - NDIRECT] = b]]

iupdate(st) == [st EXCEPT !.d.inode[st.i] = st.x]

\* The blocks that hold the inode's contents.
DataBlocks(st) ==
  {Addr(st, bn) : bn \in 0..(MAXFILE - 1)} \ {Zero}

\* itrunc frees the direct blocks and those the indirect block lists, and
\* forgets the indirect block without freeing it.
itrunc(st) ==
  iupdate([st EXCEPT
    !.d = FoldSet(LAMBDA b, d : bfree(d, b), @, DataBlocks(st)),
    !.x.addrs = NoAddrs, !.x.size = 0])

-----------------------------------------------------------------------------
(* Contents *)

Cell(st, off) ==
  LET b == Addr(st, off \div BSIZE)
  IN IF b = Zero THEN Zero ELSE st.d.data[b][off % BSIZE]

\* At most n cells from off on; the caller has off <= size.
readi(st, off, n) ==
  [k \in 1..Min({n, st.x.size - off}) |-> Cell(st, off + k - 1)]

WriteCell(st, off, c) ==
  LET s == bmap(st, off \div BSIZE)
  IN [s EXCEPT !.d.data[Addr(s, off \div BSIZE)][off % BSIZE] = c]

\* How many of n cells writei stores at off: MAXFILE blocks is the limit.
Writable(off, n) == Min({n, MAXFILE * BSIZE - off})

writei(st, off, cells) ==
  LET n == Writable(off, Len(cells))
      w == FoldLeft(LAMBDA s, k : WriteCell(s, off + k - 1, cells[k]),
                    st, [k \in 1..n |-> k])
  IN IF n > 0 /\ off + n > w.x.size
     THEN iupdate([w EXCEPT !.x.size = off + n])
     ELSE w

-----------------------------------------------------------------------------
(* Directories and paths *)

Entries(st) == {off \in 0..(st.x.size - 1) : Cell(st, off) # Zero}

\* The offsets of the entries with this name; dirlookup takes the first.
Matches(st, name) == {off \in Entries(st) : Cell(st, off).name = name}

dirlookup(st, name) == Cell(st, Min(Matches(st, name))).inum

\* The caller has seen that the name is not there.  The entry goes into the
\* first empty slot, or at the end.
dirlink(st, name, inum) ==
  LET empty == (0..(st.x.size - 1)) \ Entries(st)
  IN writei(st, Min(empty \cup {st.x.size}), <<[inum |-> inum, name |-> name]>>)

isdirempty(st) == \A off \in Entries(st) : off < 2

SkipSlashes(path) ==
  LET k == SelectInSeq(path, LAMBDA c : c # "/")
  IN IF k = 0 THEN <<>> ELSE SubSeq(path, k, Len(path))

\* The first element of a path, cut at DIRSIZ characters, and what follows
\* it.  A path is a sequence of characters; only "/" is special.
CutName_none(name) == name
CutName(name) == SubSeq(name, 1, Min({Len(name), DIRSIZ}))
skipelem(path) ==
  LET s == SkipSlashes(path)
      k == SelectInSeq(s, LAMBDA c : c = "/")
      len == IF k = 0 THEN Len(s) ELSE k - 1
  IN [name |-> CutName(SubSeq(s, 1, len)),
      rest |-> SkipSlashes(SubSeq(s, len + 1, Len(s)))]

\* skipelem returns 0: there is no element left.
NoElem(path) == SkipSlashes(path) = <<>>

-----------------------------------------------------------------------------
(* mkfs *)

\* iappend.  freeblock++ takes the first unused block, as balloc does while
\* used is an initial segment.
iappend(d, inum, cells) ==
  writei([d |-> d, x |-> d.inode[inum], i |-> inum],
         d.inode[inum].size, cells).d

mkfs_ialloc(d, inum, type) == [d EXCEPT !.inode[inum] = Dinode(type, 1)]

\* One round of the loop over the files: its inode, its entry, its data.
AddFile(d, f) ==
  LET inum == Min({i \in Inum : d.inode[i].type = 0})
      e == iappend(mkfs_ialloc(d, inum, T_FILE), ROOTINO,
                   <<[inum |-> inum, name |-> f.name]>>)
  IN iappend(e, inum, f.data)

\* The image of an empty root directory and these files.  The first nmeta
\* blocks hold the boot block, the super block, the inodes and the bitmap.
\* The size of the root directory is rounded up past its last block.
mkfs(files, nmeta) ==
  LET empty == [used |-> 0..(nmeta - 1),
                inode |-> [i \in Inum |-> Dinode(0, 0)],
                data |-> [b \in Block |-> ZeroBlock]]
      root == iappend(mkfs_ialloc(empty, ROOTINO, T_DIR), ROOTINO,
                      <<[inum |-> ROOTINO, name |-> <<".">>],
                        [inum |-> ROOTINO, name |-> <<"..">>]>>)
      d == FoldLeft(AddFile, root, files)
  IN [d EXCEPT !.inode[ROOTINO].size = ((@ \div BSIZE) + 1) * BSIZE]
=============================================================================
