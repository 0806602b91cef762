------------------------------- MODULE Blocks -------------------------------
(***************************************************************************)
(* The contents of files: block allocation, bmap(), readi(), writei() and  *)
(* itrunc() of src/fs.c, fileread() and filewrite() of src/file.c, and the *)
(* image that src/mkfs.c makes for them to start with.                     *)
(*                                                                         *)
(* The inode is locked in all of this code and balloc() and bfree() keep a *)
(* bitmap block locked, so a chunk of a call is a function from one state  *)
(* of the disk to the next.  The cells of a block hold a byte, a block     *)
(* number or a directory entry, all of the same size; the superblock and   *)
(* the log are not stored.  What log_write() was called for is collected.  *)
(***************************************************************************)
EXTENDS Integers, Sequences, FiniteSets, FiniteSetsExt

CONSTANTS
  FSSIZE, LOGSIZE, NINODES,    \* blocks of the disk, of the log; inodes
  BSIZE, IPB, BPB,             \* cells, inodes and bits of a block
  NDIRECT,                     \* direct blocks of an inode
  MAXOPBLOCKS,                 \* blocks a transaction may write
  UINT,                        \* number of values of a uint
  Shipped,                     \* the contents of the files given to mkfs
  WriteSizes, Bytes, Offsets,  \* bounds: of write(), of its data, of readi()
  MaxCalls                     \* bound: the calls of a behaviour

NINDIRECT == BSIZE
MAXFILE == NDIRECT + NINDIRECT
ROOTINO == 1

(* mkfs main(): the layout of the disk.                                    *)
nbitmap == FSSIZE \div BPB + 1
ninodeblocks == NINODES \div IPB + 1
nmeta == 2 + LOGSIZE + ninodeblocks + nbitmap
IBLOCK(i) == i \div IPB + 2 + LOGSIZE
BBLOCK(b) == b \div BPB + 2 + LOGSIZE + ninodeblocks

Zeroes == [k \in 0..BSIZE - 1 |-> 0]
NoInode == [alloc |-> FALSE, size |-> 0, addrs |-> [k \in 0..NDIRECT |-> 0]]
Take2(a, b) == IF a < b THEN a ELSE b

(* A state of the disk, with the blocks of the transaction in progress.    *)
LogWrite(s, b) == [s EXCEPT !.logged = @ \cup {b}]

-----------------------------------------------------------------------------
(* mkfs.c.                                                                 *)

(* ialloc() of mkfs: inodes in order.                                      *)
mkfs_ialloc(m) == [m EXCEPT !.ino[m.freeinode] = [NoInode EXCEPT !.alloc = TRUE],
                            !.freeinode = @ + 1]

(* The block of cell off, and the image with it: blocks in order.          *)
mkfs_bmap(m, i, fbn) ==
  LET k == Take2(fbn, NDIRECT)
      m1 == IF m.ino[i].addrs[k] # 0 THEN m
            ELSE [m EXCEPT !.ino[i].addrs[k] = m.freeblock, !.freeblock = @ + 1]
      x == m1.ino[i].addrs[k]
  IN IF fbn < NDIRECT \/ m1.disk[x][fbn - NDIRECT] # 0 THEN m1
     ELSE [m1 EXCEPT !.disk[x][fbn - NDIRECT] = m1.freeblock, !.freeblock = @ + 1]
mkfs_addr(m, i, fbn) ==
  IF fbn < NDIRECT THEN m.ino[i].addrs[fbn] ELSE m.disk[m.ino[i].addrs[NDIRECT]][fbn - NDIRECT]

(* iappend(), cell by cell.                                                *)
RECURSIVE iappend(_, _, _)
iappend(m, i, src) ==
  IF src = <<>> THEN m
  ELSE LET off == m.ino[i].size
           fbn == off \div BSIZE
           m1 == mkfs_bmap(m, i, fbn)
       IN iappend([m1 EXCEPT !.disk[mkfs_addr(m1, i, fbn)][off % BSIZE] = Head(src),
                             !.ino[i].size = off + 1], i, Tail(src))

(* Each shipped file gets an entry in the root directory and its contents. *)
RECURSIVE Ship(_, _)
Ship(m, fs) ==
  IF fs = <<>> THEN m
  ELSE LET i == m.freeinode
           m1 == iappend(mkfs_ialloc(m), ROOTINO, <<i>>)
       IN Ship(iappend(m1, i, Head(fs)), Tail(fs))

(* main(): the root with "." and "..", the files, the size of the root     *)
(* rounded up to whole blocks, and balloc(): the bitmap.                   *)
Blank == [disk |-> [b \in 0..FSSIZE - 1 |-> Zeroes], ino |-> [i \in 1..NINODES |-> NoInode],
          used |-> {}, logged |-> {}, panic |-> "none"]
mkfs ==
  LET empty == [disk |-> Blank.disk, ino |-> Blank.ino, freeinode |-> ROOTINO, freeblock |-> nmeta]
      root == iappend(mkfs_ialloc(empty), ROOTINO, <<ROOTINO, ROOTINO>>)
      m == Ship(root, Shipped)
  IN [disk |-> m.disk,
      ino |-> [m.ino EXCEPT ![ROOTINO].size = ((@ \div BSIZE) + 1) * BSIZE],
      used |-> 0..m.freeblock - 1,
      logged |-> {}, panic |-> "none"]

ASSUME BlocksConstants ==
  /\ {FSSIZE, LOGSIZE, NINODES, BSIZE, IPB, BPB, NDIRECT, MAXOPBLOCKS, UINT} \subseteq Nat \ {0}
  /\ FSSIZE > nmeta /\ MAXFILE * BSIZE < UINT /\ MAXOPBLOCKS > 5
  /\ Cardinality(mkfs.used) < BPB       \* balloc(): the bitmap is one block

-----------------------------------------------------------------------------
(* fs.c.                                                                   *)

(* balloc(): the first free block, zeroed.                                 *)
FreeBlocks(s) == (0..FSSIZE - 1) \ s.used

(* Faulty: the block keeps what it held.                                   *)
balloc_dirty(s) ==
  IF FreeBlocks(s) = {} THEN [addr |-> 0, s |-> [s EXCEPT !.panic = "out of blocks"]]
  ELSE LET b == Min(FreeBlocks(s))
       IN [addr |-> b, s |-> [s EXCEPT !.used = @ \cup {b}, !.logged = @ \cup {BBLOCK(b), b}]]

balloc(s) ==
  IF FreeBlocks(s) = {} THEN [addr |-> 0, s |-> [s EXCEPT !.panic = "out of blocks"]]
  ELSE LET b == Min(FreeBlocks(s))
       IN [addr |-> b, s |-> [s EXCEPT !.used = @ \cup {b}, !.disk[b] = Zeroes,
                                       !.logged = @ \cup {BBLOCK(b), b}]]

(* bfree(); panics on a block that is free.                                *)
bfree(s, b) == [s EXCEPT !.panic = IF b \in s.used THEN @ ELSE "freeing free block", !.used = @ \ {b},
                         !.logged = @ \cup {BBLOCK(b)}]

(* Faulty: the new block is not entered in the indirect block.             *)
bmap_forgets(s, i, bn) ==
  LET k == Take2(bn, NDIRECT)
      d == IF s.ino[i].addrs[k] # 0 THEN [addr |-> s.ino[i].addrs[k], s |-> s] ELSE balloc(s)
      s1 == [d.s EXCEPT !.ino[i].addrs[k] = d.addr]
  IN IF bn < NDIRECT THEN [addr |-> d.addr, s |-> s1] ELSE balloc(s1)

bmap(s, i, bn) ==
  LET k == Take2(bn, NDIRECT)
      d == IF s.ino[i].addrs[k] # 0 THEN [addr |-> s.ino[i].addrs[k], s |-> s] ELSE balloc(s)
      s1 == [d.s EXCEPT !.ino[i].addrs[k] = d.addr]
      j == bn - NDIRECT
      e == balloc(s1)
  IN IF bn < NDIRECT THEN [addr |-> d.addr, s |-> s1]
     ELSE IF s1.disk[d.addr][j] # 0 THEN [addr |-> s1.disk[d.addr][j], s |-> s1]
     ELSE [addr |-> e.addr, s |-> LogWrite([e.s EXCEPT !.disk[d.addr][j] = e.addr], d.addr)]

(* bfree() of those that are there.                                        *)
RECURSIVE BfreeAll(_, _)
BfreeAll(s, bs) == IF bs = <<>> THEN s ELSE BfreeAll(IF Head(bs) = 0 THEN s ELSE bfree(s, Head(bs)), Tail(bs))

(* itrunc(): the direct blocks, the blocks of the indirect block and it.   *)
itrunc(s, i) ==
  LET a == s.ino[i].addrs
      direct == [k \in 1..NDIRECT |-> a[k - 1]]
      indirect == IF a[NDIRECT] = 0 THEN <<>>
                  ELSE [j \in 1..NINDIRECT |-> s.disk[a[NDIRECT]][j - 1]] \o <<a[NDIRECT]>>
      t == BfreeAll(s, direct \o indirect)
  IN LogWrite([t EXCEPT !.ino[i].size = 0, !.ino[i].addrs = NoInode.addrs], IBLOCK(i))

(* readi(): -1, or the cells read and the state of the disk, which bmap()  *)
(* may have changed.                                                       *)
RECURSIVE ReadLoop(_, _, _, _)
ReadLoop(s, i, off, n) ==
  IF n = 0 THEN [dst |-> <<>>, s |-> s]
  ELSE LET b == bmap(s, i, off \div BSIZE)
           m == Take2(n, BSIZE - (off % BSIZE))
           r == ReadLoop(b.s, i, off + m, n - m)
       IN [r EXCEPT !.dst = [k \in 1..m |-> b.s.disk[b.addr][(off % BSIZE) + k - 1]] \o @]

readi(s, i, off, n) ==
  LET size == s.ino[i].size IN
  IF off > size \/ (off + n) % UINT < off THEN [dst |-> <<-1>>, s |-> s]
  ELSE ReadLoop(s, i, off, IF off + n > size THEN size - off ELSE n)

RECURSIVE WriteLoop(_, _, _, _)
WriteLoop(s, i, src, off) ==
  IF src = <<>> THEN s
  ELSE LET b == bmap(s, i, off \div BSIZE)
           o == off % BSIZE
           m == Take2(Len(src), BSIZE - o)
           cells == [k \in 0..BSIZE - 1 |-> IF k \in o..o + m - 1 THEN src[k - o + 1] ELSE b.s.disk[b.addr][k]]
       IN WriteLoop(LogWrite([b.s EXCEPT !.disk[b.addr] = cells], b.addr),
                    i, SubSeq(src, m + 1, Len(src)), off + m)

(* writei(): ok is whether it returned n and not -1.                       *)
writei(s, i, src, off) ==
  LET n == Len(src)
      t == WriteLoop(s, i, src, off)
  IN IF off > s.ino[i].size \/ (off + n) % UINT < off \/ off + n > MAXFILE * BSIZE
     THEN [ok |-> FALSE, s |-> s]
     ELSE [ok |-> TRUE, s |-> IF n > 0 /\ off + n > s.ino[i].size
                              THEN LogWrite([t EXCEPT !.ino[i].size = off + n], IBLOCK(i)) ELSE t]

-----------------------------------------------------------------------------
(* file.c: an open file writes a chunk per transaction.                    *)

VARIABLES
  fs,         \* the disk
  open,       \* the open files: inode, offset and what is still to write
  text,       \* what was written to each inode (reference)
  txn,        \* the size of the last transaction
  calls       \* calls made

blockvars == <<fs, open, text, txn, calls>>
Files == {1, 2}
Inums == 2..NINODES

(* The end of a transaction with the disk in state s.                      *)
end_op(s) == fs' = [s EXCEPT !.logged = {}] /\ txn' = Cardinality(s.logged)
Count == calls < MaxCalls /\ calls' = calls + 1

(* sys_open() of an inode, which is created if it is free.                 *)
open_inode(f, i) ==
  /\ Count /\ open[f].todo = <<>>
  /\ open' = [open EXCEPT ![f] = [ip |-> i, off |-> 0, todo |-> <<>>]]
  /\ end_op(LogWrite([fs EXCEPT !.ino[i].alloc = TRUE], IBLOCK(i)))
  /\ UNCHANGED text

(* iput() of a file without links that nobody has open.                    *)
remove(i) ==
  /\ Count /\ fs.ino[i].alloc
  /\ \A f \in Files : open[f].ip # i
  /\ end_op(itrunc([fs EXCEPT !.ino[i].alloc = FALSE], i))
  /\ text' = [text EXCEPT ![i] = <<>>]
  /\ UNCHANGED open

(* fileread().                                                             *)
fileread(f, n) ==
  LET r == readi(fs, open[f].ip, open[f].off, n) IN
  /\ Count /\ open[f].ip # 0 /\ open[f].todo = <<>> /\ r.dst # <<>> /\ r.dst # <<-1>>
  /\ open' = [open EXCEPT ![f].off = @ + Len(r.dst)]
  /\ fs' = r.s
  /\ UNCHANGED <<text, txn>>

(* filewrite() is called with n bytes of value v.                          *)
filewrite(f, n, v) ==
  /\ Count /\ open[f].ip # 0 /\ open[f].todo = <<>>
  /\ open' = [open EXCEPT ![f].todo = [k \in 1..n |-> v]]
  /\ UNCHANGED <<fs, text, txn>>

(* Faulty: one transaction for the whole write.                            *)
MaxChunkWhole == MAXFILE * BSIZE
MaxChunk == ((MAXOPBLOCKS - 1 - 1 - 2) \div 2) * BSIZE

Overwrite(t, off, src) ==
  [k \in 1..Max({Len(t), off + Len(src)}) |-> IF k \in off + 1..off + Len(src) THEN src[k - off] ELSE t[k]]

(* One turn of its loop.                                                   *)
write_chunk(f) ==
  LET o == open[f]
      src == SubSeq(o.todo, 1, Take2(Len(o.todo), MaxChunk))
      w == writei(fs, o.ip, src, o.off)
  IN
  /\ o.todo # <<>>
  /\ end_op(w.s)
  /\ IF w.ok
     THEN /\ open' = [open EXCEPT ![f].off = @ + Len(src), ![f].todo = SubSeq(@, Len(src) + 1, Len(@))]
          /\ text' = [text EXCEPT ![o.ip] = Overwrite(@, o.off, src)]
     ELSE /\ open' = [open EXCEPT ![f].todo = <<>>]
          /\ UNCHANGED text
  /\ UNCHANGED calls

Formatted == fs.used # {}

(* The image is built and the system booted from it.                       *)
boot ==
  /\ ~Formatted
  /\ fs' = mkfs
  /\ text' = [i \in 1..NINODES |-> IF i \in 2..Len(Shipped) + 1 THEN Shipped[i - 1] ELSE <<>>]
  /\ UNCHANGED <<open, txn, calls>>

BlocksInit ==
  /\ fs = Blank
  /\ open = [f \in Files |-> [ip |-> 0, off |-> 0, todo |-> <<>>]]
  /\ text = [i \in 1..NINODES |-> <<>>]
  /\ txn = 0 /\ calls = 0

BlocksNext ==
  \/ boot
  \/ Formatted /\ fs.panic = "none" /\
               \/ \E i \in Inums : remove(i)
               \/ \E f \in Files : \/ write_chunk(f)
                                   \/ \E i \in Inums : open_inode(f, i)
                                   \/ \E n \in WriteSizes : fileread(f, n) \/ \E v \in Bytes : filewrite(f, n, v)

-----------------------------------------------------------------------------
(* Properties.                                                             *)

(* The blocks an inode refers to, as the places that hold their numbers.   *)
Places(i) ==
  LET a == fs.ino[i].addrs IN
  {<<i, k, a[k]>> : k \in {k \in 0..NDIRECT : a[k] # 0}}
  \cup IF a[NDIRECT] = 0 THEN {}
       ELSE {<<i, NDIRECT + 1 + j, fs.disk[a[NDIRECT]][j]>> : j \in {j \in 0..NINDIRECT - 1 : fs.disk[a[NDIRECT]][j] # 0}}

(* Every block is free, or of the file system itself, or in one place of   *)
(* one file: mkfs, balloc(), bmap() and itrunc() neither leak a block nor  *)
(* share one, and bfree() never meets a free block.                        *)
BlocksOwnedOnce ==
  LET all == UNION {Places(i) : i \in 1..NINODES} IN
  /\ fs.panic # "freeing free block"
  /\ Formatted /\ fs.panic = "none" =>
               /\ fs.used = 0..nmeta - 1 \cup {x[3] : x \in all}
               /\ Cardinality({x[3] : x \in all}) = Cardinality(all)
               /\ \A x \in all : x[3] >= nmeta

(* readi() returns what was written, for any offset and length a program   *)
(* or the header of an executable may contain, and allocates nothing:      *)
(* a file has no holes below its size.                                     *)
ReadsRight == Formatted /\ fs.panic = "none" => \A i \in Inums, off, n \in Offsets :
  LET t == text[i]
      r == readi(fs, i, off, n)
  IN /\ r.s = fs
     /\ r.dst = IF off > Len(t) \/ off + n >= UINT THEN <<-1>>
                ELSE SubSeq(t, off + 1, Take2(Len(t), off + n))

(* A transaction of write(), or of the iput() that frees a file, writes no *)
(* more blocks than begin_op() has reserved for it: the data of a chunk, a *)
(* block split at each end, the indirect block, the bitmap blocks of all   *)
(* that is allocated and the inode (file.c:127 to 133).                    *)
TransactionFits == txn =< MAXOPBLOCKS
=============================================================================
