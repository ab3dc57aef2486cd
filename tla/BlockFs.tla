------------------------------- MODULE BlockFs -------------------------------
(***************************************************************************)
(* The persistent filesystem of the kernel (kernel/src/fs/blockfs.rs): a   *)
(* block bitmap, an inode table and a cache of every allocated block held  *)
(* in memory, a set of dirty blocks, and sync(), which writes the dirty    *)
(* blocks and then the metadata to a disk that survives a crash.           *)
(*                                                                         *)
(* An image of the filesystem is a record m; the operators below are the   *)
(* methods of BlockFsInner and return the changed image.  Every method     *)
(* runs under the one RwLock of the filesystem, so it is one step; sync    *)
(* holds the lock too, but a crash can fall between any two of its writes, *)
(* so each disk write is a step.                                           *)
(*                                                                         *)
(* A block holds BLOCK_SIZE words.  A word is what the code stores in the  *)
(* smallest piece its own layout tells apart: a u32 block pointer, a       *)
(* directory entry (its first word; longer entries are followed by padding *)
(* words), or a piece of file data.  File data may be any bytes: it is a   *)
(* Data word, which does not parse as a directory entry (rec_len under the *)
(* header size), so the walk of a directory stops at one, or it is one of  *)
(* Lookalikes, words that do parse as an entry.                            *)
(***************************************************************************)
EXTENDS Integers, FiniteSets

CONSTANTS
  DataBlocks,   \* block numbers first_data_block .. block_count - 1
  Inodes,       \* inode numbers 0 .. inode_count - 1; 0 is the root
  BLOCK_SIZE,   \* words in a block, which is also PTRS_PER_BLOCK
  DIRECT_BLOCKS,
  Names,        \* the names used by create, mkdir, symlink and unlink
  EntryLen,     \* words the entry of each name takes, "." and ".." included
  First,        \* the name of the empty file the image starts with
  Writes,       \* <<offset, length>> pairs that write is called with
  Lookalikes,   \* <<offset, length, word>> of writes whose data parses as an entry
  Foreign,      \* inode numbers of the files of other filesystems
  Cuts,         \* how far a device write that fails may have come
  Sizes,        \* sizes that truncate is called with
  U32,          \* modulus of sizes and superblock counters, 2^32 in the code
  DeviceBlocks, \* block_count() of the device
  MaxOps,       \* bound: calls that change the image, over a behaviour
  MaxSyncs      \* bound: syncs started, over a behaviour

ASSUME BlockFsAssumption ==
  /\ DataBlocks \subseteq Nat \ {0} /\ DataBlocks # {} /\ IsFiniteSet(DataBlocks)
  /\ Inodes \subseteq Nat /\ 0 \in Inodes /\ IsFiniteSet(Inodes)
  /\ BLOCK_SIZE \in Nat \ {0} /\ DIRECT_BLOCKS \in Nat \ {0}
  /\ EntryLen \in [Names \cup {".", ".."} -> 1 .. BLOCK_SIZE]
  /\ U32 \in Nat \ {0}
  /\ First \in Names /\ 1 \in Inodes
  /\ EntryLen["."] + EntryLen[".."] <= BLOCK_SIZE /\ DIRECT_BLOCKS > 1
  /\ Writes \subseteq Nat \X (1 .. BLOCK_SIZE) /\ Sizes \subseteq Nat
  /\ \A x \in Lookalikes :
       /\ x[1] \in Nat /\ x[2] \in 1 .. BLOCK_SIZE
       /\ x[3] \in {<<"entry", i, name, ty>> :
                     i \in Inodes, name \in Names, ty \in {"file", "dir", "symlink"}}
  /\ Foreign \subseteq Nat /\ Cuts \subseteq Nat
  /\ MaxOps \in Nat /\ MaxSyncs \in Nat
  /\ MaxOps + 2 < 65536   \* no link count, a u16, overflows

\* The device is as large as the image it holds.
ASSUME DeviceAssumption ==
  DeviceBlocks \in Nat /\ \A b \in DataBlocks : b < DeviceBlocks

VARIABLES
  mem,      \* BlockFsInner: inode table, bitmap, counters, block cache, dirty set
  disk,     \* the device: superblock counters, bitmap, inode table, data blocks
  sync,     \* progress of sync_to_disk: phase and the data blocks still to write
  mode,     \* "up", "hung" inside link, "torn": see Reboot
  held,     \* inode numbers of the nodes callers hold (BlockFsNode)
  ops,      \* calls made so far; also the value a write stores
  syncs,    \* syncs started so far
  \* what a caller may expect, kept beside the code's state:
  written,  \* last word written at each offset of each inode (Zero: none)
  snap,     \* image and expectations at the last sync that completed
  torn,     \* a sync has begun to write and has not completed
  clobbered \* a directory holds words that no directory operation stored

vars == <<mem, disk, sync, mode, held, ops, syncs, written, snap, torn, clobbered>>
-----------------------------------------------------------------------------
PTRS_PER_BLOCK == BLOCK_SIZE
SINGLE_INDIRECT_MAX_BLOCKS == DIRECT_BLOCKS + PTRS_PER_BLOCK
DOUBLE_INDIRECT_MAX_BLOCKS ==
  SINGLE_INDIRECT_MAX_BLOCKS + PTRS_PER_BLOCK * PTRS_PER_BLOCK
MAX_SIZE == DOUBLE_INDIRECT_MAX_BLOCKS * BLOCK_SIZE

\* The pointer fields of an inode: the direct blocks, then the two others.
IND == DIRECT_BLOCKS
DBL == DIRECT_BLOCKS + 1
Fields == 0 .. DBL
Slots == 0 .. BLOCK_SIZE - 1
Units == 0 .. MAX_SIZE - 1

\* Words of a block.
Zero == <<"zero">>
Pad == <<"pad">>
Ptr(b) == <<"ptr", b>>
Data(v) == <<"data", v>>
Entry(i, name, ty) == <<"entry", i, name, ty>>
IsEntry(w) == w[1] = "entry"
EntryInode(w) == w[2]
EntryName(w) == w[3]
EntryType(w) == w[4]

ZERO_BLOCK == [k \in Slots |-> Zero]

\* DiskInode::new, with the type bits of the mode and the links the caller sets.
NewInode(ty, links, size) ==
  [ty |-> ty, links |-> links, size |-> size, ptr |-> [k \in Fields |-> 0]]

Image(ino, bm, free, freeIno, data, dirty) ==
  [ino |-> ino, bm |-> bm, free |-> free, freeIno |-> freeIno,
   data |-> data, dirty |-> dirty]

Lowest(S) == CHOOSE x \in S : \A y \in S : x <= y

SetInode(m, i, node) ==
  Image([j \in Inodes |-> IF j = i THEN node ELSE m.ino[j]],
        m.bm, m.free, m.freeIno, m.data, m.dirty)

SetPtr(m, i, k, b) ==
  SetInode(m, i, [ty |-> m.ino[i].ty, links |-> m.ino[i].links,
                  size |-> m.ino[i].size,
                  ptr |-> [j \in Fields |-> IF j = k THEN b ELSE m.ino[i].ptr[j]]])

SetSize(m, i, size) ==
  SetInode(m, i, [ty |-> m.ino[i].ty, links |-> m.ino[i].links,
                  size |-> size, ptr |-> m.ino[i].ptr])

SetLinks(m, i, links) ==
  SetInode(m, i, [ty |-> m.ino[i].ty, links |-> links,
                  size |-> m.ino[i].size, ptr |-> m.ino[i].ptr])

\* Store word w in the slots K of block b and mark the block dirty.
SetWords(m, b, K, w) ==
  Image(m.ino, m.bm, m.free, m.freeIno,
        [c \in DataBlocks |->
           IF c = b THEN [k \in Slots |-> IF k \in K THEN w ELSE m.data[c][k]]
                    ELSE m.data[c]],
        m.dirty \cup {b})

ClearSlots(m, b, K) == IF K = {} THEN m ELSE SetWords(m, b, K, Zero)

\* Variant: free_block leaves the dirty set alone.
FreeBlocksDirty(m, B) ==
  Image(m.ino, m.bm \ B, m.free + Cardinality(B), m.freeIno, m.data, m.dirty)

FreeBlocks(m, B) ==
  Image(m.ino, m.bm \ B, m.free + Cardinality(B), m.freeIno, m.data, m.dirty \ B)

\* free_inodes is a u32.
AddFreeInodes(m, n) ==
  Image(m.ino, m.bm, m.free, (m.freeIno + n) % U32, m.data, m.dirty)
-----------------------------------------------------------------------------
\* allocate_block with the mark_dirty every caller adds: the lowest clear bit
\* of the bitmap.  The block keeps the words it held (materialize_block only
\* fills a block that has no storage) unless the caller zeroes it.
AllocBlock(m, zeroed) ==
  LET b == Lowest(DataBlocks \ m.bm)
  IN  IF DataBlocks \subseteq m.bm
        THEN [m |-> m, b |-> 0]
        ELSE [m |-> Image(m.ino, m.bm \cup {b}, m.free - 1, m.freeIno,
                          [c \in DataBlocks |-> IF c = b /\ zeroed
                                                  THEN ZERO_BLOCK ELSE m.data[c]],
                          m.dirty \cup {b}),
              b |-> b]

\* read_block_ptr
PtrAt(m, b, k) == IF m.data[b][k][1] = "ptr" THEN m.data[b][k][2] ELSE 0

\* The block in pointer field k of inode i, allocated if it is missing.
EnsureField(m, i, k, zeroed) ==
  LET attach(a) == IF a.b = 0 THEN a ELSE [m |-> SetPtr(a.m, i, k, a.b), b |-> a.b]
  IN  IF m.ino[i].ptr[k] # 0 THEN [m |-> m, b |-> m.ino[i].ptr[k]]
      ELSE attach(AllocBlock(m, zeroed))

\* The block in slot k of indirect block p, allocated if it is missing; p = 0
\* when the indirect block itself could not be allocated.
EnsureSlot(m, p, k, zeroed) ==
  LET attach(a) ==
        IF a.b = 0 THEN a ELSE [m |-> SetWords(a.m, p, {k}, Ptr(a.b)), b |-> a.b]
  IN  IF p = 0 THEN [m |-> m, b |-> 0]
      ELSE IF PtrAt(m, p, k) # 0 THEN [m |-> m, b |-> PtrAt(m, p, k)]
      ELSE attach(AllocBlock(m, zeroed))

\* ensure_block: blocks allocated before one that fails stay attached.
EnsureBlock(m, i, lb) ==
  LET rel == lb - SINGLE_INDIRECT_MAX_BLOCKS
      below(p, k, zeroed) == EnsureSlot(p.m, p.b, k, zeroed)
  IN  IF lb < DIRECT_BLOCKS THEN EnsureField(m, i, lb, FALSE)
      ELSE IF lb < SINGLE_INDIRECT_MAX_BLOCKS
        THEN below(EnsureField(m, i, IND, TRUE), lb - DIRECT_BLOCKS, FALSE)
      ELSE below(below(EnsureField(m, i, DBL, TRUE), rel \div PTRS_PER_BLOCK, TRUE),
                 rel % PTRS_PER_BLOCK, FALSE)

\* resolve_block; 0 for a hole or an index out of range.
ResolveBlock(m, i, lb) ==
  LET at(p, k) == IF p = 0 THEN 0 ELSE PtrAt(m, p, k)
      rel == lb - SINGLE_INDIRECT_MAX_BLOCKS
  IN  IF lb < DIRECT_BLOCKS THEN m.ino[i].ptr[lb]
      ELSE IF lb < SINGLE_INDIRECT_MAX_BLOCKS
        THEN at(m.ino[i].ptr[IND], lb - DIRECT_BLOCKS)
      ELSE IF lb < DOUBLE_INDIRECT_MAX_BLOCKS
        THEN at(at(m.ino[i].ptr[DBL], rel \div PTRS_PER_BLOCK), rel % PTRS_PER_BLOCK)
      ELSE 0

\* read_inode, one word of it.
ReadInode(m, i, u) ==
  LET b == ResolveBlock(m, i, u \div BLOCK_SIZE)
  IN  IF b = 0 THEN Zero ELSE m.data[b][u % BLOCK_SIZE]

\* write_inode of n times the word w, n at most BLOCK_SIZE, so the words fall
\* into at most two blocks.  Words past the addressing range are dropped; all
\* blocks are allocated before any is written; the size grows to the end of
\* the write, cast to u32.
WriteInode(m, i, off, n, w) ==
  LET last == IF off + n <= MAX_SIZE THEN off + n - 1 ELSE MAX_SIZE - 1
      done == IF off < MAX_SIZE THEN last - off + 1 ELSE 0
      lb1 == off \div BLOCK_SIZE
      lb2 == last \div BLOCK_SIZE
      in(lb) == {k \in Slots : off <= lb * BLOCK_SIZE + k /\ lb * BLOCK_SIZE + k <= last}
      grown(x) == IF off + done > x.ino[i].size
                    THEN SetSize(x, i, (off + done) % U32) ELSE x
      rest(w1, e2) == IF lb2 = lb1 THEN w1 ELSE SetWords(w1, e2.b, in(lb2), w)
      store(e1, e2) ==
        IF e2.b = 0 THEN [m |-> e2.m, ok |-> FALSE, done |-> 0]
        ELSE [m |-> grown(rest(SetWords(e2.m, e1.b, in(lb1), w), e2)),
              ok |-> TRUE, done |-> done]
      second(e1) ==
        IF e1.b = 0 THEN [m |-> e1.m, ok |-> FALSE, done |-> 0]
        ELSE store(e1, IF lb2 = lb1 THEN e1 ELSE EnsureBlock(e1.m, i, lb2))
  IN  IF done = 0 THEN [m |-> grown(m), ok |-> TRUE, done |-> 0]
      ELSE second(EnsureBlock(m, i, lb1))
-----------------------------------------------------------------------------
\* Variant: the indirect block is freed and its pointer stays in the inode.
TruncateSingleKeepPtr(m, i, first) ==
  LET p == m.ino[i].ptr[IND]
      gone == {k \in Slots : DIRECT_BLOCKS + k >= first /\ PtrAt(m, p, k) # 0}
  IN  IF p = 0 \/ first >= SINGLE_INDIRECT_MAX_BLOCKS THEN m
      ELSE FreeBlocks(m, {PtrAt(m, p, k) : k \in gone} \cup {p})

\* truncate_single_indirect: free what lies at or past logical block first.
TruncateSingleIndirect(m, i, first) ==
  LET p == m.ino[i].ptr[IND]
      kept == {k \in Slots : DIRECT_BLOCKS + k < first /\ PtrAt(m, p, k) # 0}
      gone == {k \in Slots : DIRECT_BLOCKS + k >= first /\ PtrAt(m, p, k) # 0}
      freed == {PtrAt(m, p, k) : k \in gone}
      clear(x) == IF first <= DIRECT_BLOCKS THEN x ELSE ClearSlots(x, p, gone)
      drop(x) == IF kept = {} THEN SetPtr(FreeBlocks(x, {p}), i, IND, 0) ELSE x
  IN  IF p = 0 \/ first >= SINGLE_INDIRECT_MAX_BLOCKS THEN m
      ELSE drop(clear(FreeBlocks(m, freed)))

\* truncate_double_indirect.  l1 blocks are cut slot by slot only when the
\* cut falls inside the range; when everything goes, no pointer is cleared.
TruncateDoubleIndirect(m, i, first) ==
  LET d == m.ino[i].ptr[DBL]
      whole == first <= SINGLE_INDIRECT_MAX_BLOCKS
      base(k) == SINGLE_INDIRECT_MAX_BLOCKS + k * PTRS_PER_BLOCK
      L1 == {k \in Slots : PtrAt(m, d, k) # 0}
      gone(k) == {j \in Slots : base(k) + j >= first /\ PtrAt(m, PtrAt(m, d, k), j) # 0}
      kept(k) == {j \in Slots : base(k) + j < first /\ PtrAt(m, PtrAt(m, d, k), j) # 0}
      before(k) == base(k) + PTRS_PER_BLOCK <= first
      empty == {k \in L1 : ~before(k) /\ kept(k) = {}}
      dataFreed == UNION {{PtrAt(m, PtrAt(m, d, k), j) : j \in gone(k)} : k \in L1}
      cutL1 == {k \in L1 : gone(k) # {}}
      touched == {PtrAt(m, d, k) : k \in cutL1}
      wiped(c) == {j \in Slots : \E k \in cutL1 : PtrAt(m, d, k) = c /\ j \in gone(k)}
      cleared ==
        Image(m.ino, m.bm, m.free, m.freeIno,
              [c \in DataBlocks |->
                 IF c \in touched
                   THEN [j \in Slots |-> IF j \in wiped(c) THEN Zero ELSE m.data[c][j]]
                   ELSE m.data[c]],
              m.dirty \cup touched)
      freedL1 == {PtrAt(m, d, k) : k \in empty}
      clear(x) == IF whole THEN x ELSE ClearSlots(x, d, empty)
      drop(x) == IF empty = L1 THEN SetPtr(FreeBlocks(x, {d}), i, DBL, 0) ELSE x
  IN  IF d = 0 \/ first >= DOUBLE_INDIRECT_MAX_BLOCKS THEN m
      ELSE drop(clear(FreeBlocks(IF whole THEN m ELSE cleared, dataFreed \cup freedL1)))

\* The direct blocks at or past first, freed and cleared.
TruncateDirect(m, i, first) ==
  LET gone == {k \in 0 .. DIRECT_BLOCKS - 1 : k >= first /\ m.ino[i].ptr[k] # 0}
      node == m.ino[i]
  IN  SetInode(FreeBlocks(m, {node.ptr[k] : k \in gone}), i,
               [ty |-> node.ty, links |-> node.links, size |-> node.size,
                ptr |-> [k \in Fields |-> IF k \in gone THEN 0 ELSE node.ptr[k]]])

FreeFrom(m, i, first) ==
  TruncateDoubleIndirect(TruncateSingleIndirect(TruncateDirect(m, i, first), i, first),
                         i, first)

\* Variant: the first block to free is rounded down.
TruncateRoundDown(m, i, size) ==
  IF size >= m.ino[i].size THEN SetSize(m, i, size % U32)
  ELSE FreeFrom(SetSize(m, i, size), i, size \div BLOCK_SIZE)

\* truncate_inode: a shorter file loses its blocks and the tail of the last
\* one is zeroed; a longer one only has its size changed, cast to u32.
TruncateInode(m, i, size) ==
  LET from == size % BLOCK_SIZE
      wipe(cut, tail) == IF size > 0 /\ tail # 0 /\ from > 0
                           THEN SetWords(cut, tail, {k \in Slots : k >= from}, Zero)
                           ELSE cut
      zeroTail(cut) == wipe(cut, ResolveBlock(cut, i, (size - 1) \div BLOCK_SIZE))
  IN  IF size >= m.ino[i].size THEN SetSize(m, i, size % U32)
      ELSE zeroTail(FreeFrom(SetSize(m, i, size), i,
                             (size + BLOCK_SIZE - 1) \div BLOCK_SIZE))

\* Variant: the blocks of the inode are counted as freed twice.
FreeInodeBlocksTwice(m, i) ==
  LET again(x) ==
        Image(x.ino, x.bm, x.free + x.free - m.free, x.freeIno, x.data, x.dirty)
  IN  SetSize(again(FreeFrom(m, i, 0)), i, 0)

\* free_inode_blocks
FreeInodeBlocks(m, i) == SetSize(FreeFrom(m, i, 0), i, 0)
-----------------------------------------------------------------------------
\* The offsets in block b at which the walk of a directory finds an entry:
\* records follow one another from offset 0 until one does not parse or the
\* end is reached, so the walk reaches o through a set of record starts C.
EntryStarts(m, b, end) ==
  LET follows(p, o) ==
        IsEntry(m.data[b][p]) /\ p + EntryLen[EntryName(m.data[b][p])] = o
      reached(o) == \E C \in SUBSET (0 .. o) :
                      o \in C /\ \A x \in C \ {0} : \E p \in C : follows(p, x)
  IN  {o \in Slots : o < end /\ reached(o) /\ IsEntry(m.data[b][o])}

\* The walk shared by readdir and find_dir_entry: positions of the entries of
\* directory d that are not marked deleted (inode 0).
LiveEntries(m, d) ==
  LET node == m.ino[d]
      block(pos) == node.ptr[pos \div BLOCK_SIZE]
  IN  {pos \in 0 .. DIRECT_BLOCKS * BLOCK_SIZE - 1 :
        /\ node.ty = "dir" /\ pos < node.size
        /\ \A k \in 0 .. pos \div BLOCK_SIZE : node.ptr[k] # 0
        /\ pos % BLOCK_SIZE \in EntryStarts(m, block(pos), node.size - (pos \div BLOCK_SIZE) * BLOCK_SIZE)
        /\ EntryInode(m.data[block(pos)][pos % BLOCK_SIZE]) # 0}

EntryAt(m, d, pos) == m.data[m.ino[d].ptr[pos \div BLOCK_SIZE]][pos % BLOCK_SIZE]

Matches(m, d, name) == {pos \in LiveEntries(m, d) : EntryName(EntryAt(m, d, pos)) = name}

\* The part of write_dir_entry that follows the choice of a place, with
\* serialize_dir_entry: the entry is stored at offset off of direct block idx,
\* which is allocated if it is missing.
SerializeDirEntry(m, d, idx, off, len, entry) ==
  LET put(e) == SetWords(SetWords(e.m, e.b, {off}, entry), e.b, off + 1 .. off + len - 1, Pad)
      into(e) == IF e.b = 0 THEN [m |-> m, ok |-> FALSE]
                 ELSE [m |-> SetSize(put(e), d, idx * BLOCK_SIZE + off + len), ok |-> TRUE]
  IN  into(EnsureField(m, d, idx, FALSE))

\* write_dir_entry: append at the end of the directory, or at the start of the
\* next block when the entry does not fit in this one.
WriteDirEntry(m, d, target, name, ty) ==
  LET size == m.ino[d].size
      len == EntryLen[name]
      fits == (size % BLOCK_SIZE) + len <= BLOCK_SIZE
      idx == IF fits THEN size \div BLOCK_SIZE ELSE size \div BLOCK_SIZE + 1
      off == IF fits THEN size % BLOCK_SIZE ELSE 0
  IN  IF idx >= DIRECT_BLOCKS THEN [m |-> m, ok |-> FALSE]
      ELSE SerializeDirEntry(m, d, idx, off, len, Entry(target, name, ty))
-----------------------------------------------------------------------------
FreeInodes(m) == {i \in Inodes \ {0} : m.ino[i].links = 0}

\* allocate_inode and the new inode stored in it.
AllocInode(m, ty, links, size) ==
  AddFreeInodes(SetInode(m, Lowest(FreeInodes(m)), NewInode(ty, links, size)), -1)

\* The rollback of a creation: blocks the inode already has stay with it.
DropInode(m, i) == AddFreeInodes(SetLinks(m, i, 0), 1)

\* create_file, create_directory and create_symlink start alike: the name must
\* be new in the parent and an inode must be free.
CanCreate(m, d, name) == Matches(m, d, name) = {} /\ FreeInodes(m) # {}

CreateFile(m, d, name) ==
  LET i == Lowest(FreeInodes(m))
      named(w) == IF w.ok THEN w ELSE [m |-> DropInode(w.m, i), ok |-> FALSE]
  IN  named(WriteDirEntry(AllocInode(m, "file", 1, 0), d, i, name, "file"))

CreateDirectory(m, d, name) ==
  LET i == Lowest(FreeInodes(m))
      fail(x) == [m |-> DropInode(x, i), ok |-> FALSE]
      named(w) == IF ~w.ok THEN fail(w.m)
                  ELSE [m |-> SetLinks(w.m, d, w.m.ino[d].links + 1), ok |-> TRUE]
      dotdot(w) == IF ~w.ok THEN fail(w.m)
                   ELSE named(WriteDirEntry(w.m, d, i, name, "dir"))
      dot(w) == IF ~w.ok THEN fail(w.m)
                ELSE dotdot(WriteDirEntry(w.m, i, d, "..", "dir"))
  IN  dot(WriteDirEntry(AllocInode(m, "dir", 2, 0), i, i, ".", "dir"))

\* A symlink whose target cannot be stored keeps its inode: only a failure of
\* the directory entry is rolled back.
CreateSymlink(m, d, name, n, target) ==
  LET i == Lowest(FreeInodes(m))
      named(w) == IF w.ok THEN w ELSE [m |-> DropInode(w.m, i), ok |-> FALSE]
      stored(w) == IF ~w.ok THEN [m |-> w.m, ok |-> FALSE]
                   ELSE named(WriteDirEntry(w.m, d, i, name, "symlink"))
  IN  stored(WriteInode(AllocInode(m, "symlink", 1, n), i, 0, n, target))

\* link_in_dir past its checks: the entry is a symlink's or a file's, whatever
\* else the inode t may be.
LinkInDir(m, d, name, t) ==
  LET ty == IF m.ino[t].ty = "symlink" THEN "symlink" ELSE "file"
      linked(w) == IF w.ok THEN SetLinks(w.m, t, w.m.ino[t].links + 1) ELSE w.m
  IN  linked(WriteDirEntry(m, d, t, name, ty))

\* Variant: the link count drops but the entry keeps its inode number.
UnlinkKeepEntry(m, d, pos) ==
  LET t == EntryInode(EntryAt(m, d, pos))
      free(x) == IF x.ino[t].links = 0 THEN FreeInodeBlocks(x, t) ELSE x
  IN  free(SetLinks(m, t, m.ino[t].links - 1))

\* unlink_from_dir past its checks, for the entry at pos.
UnlinkEntry(m, d, pos) ==
  LET e == EntryAt(m, d, pos)
      t == EntryInode(e)
      down(x, i) == IF x.ino[i].links > 0 THEN SetLinks(x, i, x.ino[i].links - 1) ELSE x
      parent(x) == IF EntryType(e) = "dir" THEN down(x, d) ELSE x
      free(x) == IF x.ino[t].links = 0 THEN FreeInodeBlocks(x, t) ELSE x
  IN  free(parent(down(SetWords(m, m.ino[d].ptr[pos \div BLOCK_SIZE], {pos % BLOCK_SIZE},
                                Entry(0, EntryName(e), EntryType(e))), t)))

\* A directory may be removed when it holds nothing but "." and "..".
Removable(m, e) ==
  EntryType(e) = "dir" =>
    /\ m.ino[EntryInode(e)].ty = "dir"
    /\ \A p \in LiveEntries(m, EntryInode(e)) :
         EntryName(EntryAt(m, EntryInode(e), p)) \in {".", ".."}

\* What load_existing reads back from a device, and what a device holding the
\* image m would give: only allocated blocks are read, the others are zero.
Load(d) ==
  Image(d.ino, d.bm, d.free, d.freeIno,
        [b \in DataBlocks |-> IF b \in d.bm THEN d.data[b] ELSE ZERO_BLOCK], {})
-----------------------------------------------------------------------------
Nothing == [i \in Inodes |-> [u \in Units |-> Zero]]

\* An image as mkfs-blockfs writes it, with one empty file in the root.
MkfsImage ==
  LET b0 == Lowest(DataBlocks)
      root == [NewInode("dir", 2, EntryLen["."] + EntryLen[".."]) EXCEPT !.ptr[0] = b0]
      words == [k \in Slots |-> IF k = 0 THEN Entry(0, ".", "dir")
                                ELSE IF k = EntryLen["."] THEN Entry(0, "..", "dir")
                                ELSE IF k < root.size THEN Pad ELSE Zero]
      empty == Image([i \in Inodes |-> IF i = 0 THEN root ELSE NewInode("file", 0, 0)],
                     {b0}, Cardinality(DataBlocks) - 1, (Cardinality(Inodes) - 1) % U32,
                     [b \in DataBlocks |-> IF b = b0 THEN words ELSE ZERO_BLOCK], {})
  IN  Load(CreateFile(empty, 0, First).m)

Init ==
  /\ mem = MkfsImage
  /\ disk = [ino |-> mem.ino, bm |-> mem.bm, free |-> mem.free,
             freeIno |-> mem.freeIno, data |-> mem.data]
  /\ sync = [ph |-> "idle", todo |-> {}]
  /\ mode = "up" /\ held = {0} /\ ops = 0 /\ syncs = 0
  /\ written = Nothing
  /\ snap = [img |-> mem, written |-> Nothing]
  /\ torn = FALSE /\ clobbered = FALSE

\* A call that changes the image: the lock is free and the bound not reached.
Call ==
  /\ mode = "up" /\ sync.ph = "idle" /\ ops < MaxOps
  /\ ops' = ops + 1
  /\ UNCHANGED <<disk, sync, mode, syncs, snap, torn>>

\* The inode an allocation takes is new: nothing has been written to it.
Forget(i) == written' = [written EXCEPT ![i] = Nothing[i]]

\* Blocks are not cleared when they are freed or allocated.  From image m to
\* image n a directory took a block with old words that can parse as entries:
\* file data, or the pointers of an indirect block.
TookStale(m, n) ==
  \E i \in Inodes, k \in Fields : \E s \in Slots :
    /\ n.ino[i].ty = "dir" /\ n.ino[i].ptr[k] \notin m.bm \cup {0}
    /\ m.data[n.ino[i].ptr[k]][s][1] \in {"entry", "ptr"}

\* create, mkdir and symlink go through the node d of the parent and return the
\* node of the new inode.  None of them asks whether d is a directory.
Create(d, name) ==
  LET r == CreateFile(mem, d, name)
      i == Lowest(FreeInodes(mem))
  IN  /\ Call /\ CanCreate(mem, d, name)
      /\ mem' = r.m
      /\ held' = IF r.ok THEN held \cup {i} ELSE held
      /\ Forget(i)
      /\ clobbered' = (clobbered \/ TookStale(mem, r.m))

Mkdir(d, name) ==
  LET r == CreateDirectory(mem, d, name)
      i == Lowest(FreeInodes(mem))
  IN  /\ Call /\ CanCreate(mem, d, name)
      /\ mem' = r.m
      /\ held' = IF r.ok THEN held \cup {i} ELSE held
      /\ Forget(i)
      /\ clobbered' = (clobbered \/ TookStale(mem, r.m))

Symlink(d, name) ==
  LET target == Data(ops + 1)
      r == CreateSymlink(mem, d, name, 1, target)
      i == Lowest(FreeInodes(mem))
  IN  /\ Call /\ CanCreate(mem, d, name)
      /\ mem' = r.m
      /\ held' = IF r.ok THEN held \cup {i} ELSE held
      /\ written' = [written EXCEPT ![i] =
                       [u \in Units |-> IF r.ok /\ u = 0 THEN target ELSE Zero]]
      /\ clobbered' = (clobbered \/ TookStale(mem, r.m))

\* lookup, of files, directories and symlinks alike: the node holds the inode
\* number and nothing else.
Lookup(d, name) ==
  /\ mode = "up" /\ sync.ph = "idle"
  /\ \E pos \in Matches(mem, d, name) :
       /\ \A p \in Matches(mem, d, name) : pos <= p
       /\ held' = held \cup {EntryInode(EntryAt(mem, d, pos))}
  /\ UNCHANGED <<mem, disk, sync, mode, ops, syncs, written, snap, torn, clobbered>>

Unlink(d, name) ==
  /\ Call /\ name \notin {".", ".."}
  /\ \E pos \in Matches(mem, d, name) :
       LET t == EntryInode(EntryAt(mem, d, pos))
       IN  /\ \A p \in Matches(mem, d, name) : pos <= p
           /\ Removable(mem, EntryAt(mem, d, pos))
           /\ mem' = UnlinkEntry(mem, d, pos)
           /\ IF mem'.ino[t].links = 0 THEN Forget(t) ELSE UNCHANGED written
  /\ UNCHANGED <<held, clobbered>>

\* write and truncate through a node: nothing checks that the inode is a file,
\* or still the file the node was opened for.  The size is a u32: when the end
\* of a write or the new size reaches 2^32, the file ends where the cast says,
\* and nothing past that is expected to read back.
Write(i, off, n, w) ==
  LET r == WriteInode(mem, i, off, n, w)
      end == off + r.done
      cut(u) == r.ok /\ end >= U32 /\ u >= end % U32
  IN  /\ Call
      /\ mem' = r.m
      /\ written' = [written EXCEPT ![i] =
                       [u \in Units |-> IF cut(u) THEN Zero
                                        ELSE IF off <= u /\ u < end THEN w
                                        ELSE written[i][u]]]
      /\ clobbered' = (clobbered \/ mem.ino[i].ty = "dir")
      /\ UNCHANGED held

Truncate(i, size) ==
  /\ Call
  /\ mem' = TruncateInode(mem, i, size)
  /\ written' = [written EXCEPT ![i] =
                   [u \in Units |-> IF u < size % U32 THEN written[i][u] ELSE Zero]]
  /\ clobbered' = (clobbered \/ mem.ino[i].ty = "dir")
  /\ UNCHANGED held

\* link takes the write lock and then asks the target node for its type.  For
\* a node of this filesystem that takes the read lock of the same RwLock: the
\* call never returns.
Link ==
  /\ mode = "up" /\ sync.ph = "idle" /\ ops < MaxOps
  /\ mode' = "hung" /\ ops' = ops + 1
  /\ UNCHANGED <<mem, disk, sync, held, syncs, written, snap, torn, clobbered>>

\* A file of another filesystem answers.  Its inode number t is taken for a
\* number of this filesystem, as long as the inode is in use here.
LinkForeign(d, name, t) ==
  LET n == LinkInDir(mem, d, name, t)
  IN  /\ Call /\ Matches(mem, d, name) = {}
      /\ t \in Inodes /\ mem.ino[t].links > 0
      /\ mem' = n
      /\ clobbered' = (clobbered \/ TookStale(mem, n))
      /\ UNCHANGED <<held, written>>
-----------------------------------------------------------------------------
\* Variant: the dirty set is taken, not copied, when a sync starts.
SyncStartTake ==
  /\ mode = "up" /\ sync.ph = "idle"
  /\ syncs < MaxSyncs /\ syncs' = syncs + 1
  /\ sync' = [ph |-> "data", todo |-> mem.dirty]
  /\ mem' = Image(mem.ino, mem.bm, mem.free, mem.freeIno, mem.data, {})
  /\ torn' = TRUE
  /\ UNCHANGED <<disk, mode, held, ops, written, snap, clobbered>>

\* sync_to_disk, one step per device write.  The lock is held from the first
\* step to the last, so the image does not change between them.
SyncStart ==
  /\ mode = "up" /\ sync.ph = "idle"
  /\ syncs < MaxSyncs /\ syncs' = syncs + 1
  /\ sync' = [ph |-> "data", todo |-> mem.dirty]
  /\ torn' = TRUE
  /\ UNCHANGED <<mem, disk, mode, held, ops, written, snap, clobbered>>

\* A block beyond the end of the device would be skipped.
SyncData ==
  LET b == Lowest(sync.todo)
  IN  /\ mode = "up" /\ sync.ph = "data" /\ sync.todo # {}
      /\ disk' = [disk EXCEPT !.data = [c \in DataBlocks |->
                    IF c = b /\ b < DeviceBlocks THEN mem.data[c] ELSE disk.data[c]]]
      /\ sync' = [ph |-> "data", todo |-> sync.todo \ {b}]
      /\ UNCHANGED <<mem, mode, held, ops, syncs, written, snap, torn, clobbered>>

SyncClear ==
  /\ mode = "up" /\ sync.ph = "data" /\ sync.todo = {}
  /\ mem' = Image(mem.ino, mem.bm, mem.free, mem.freeIno, mem.data, {})
  /\ sync' = [ph |-> "super", todo |-> {}]
  /\ UNCHANGED <<disk, mode, held, ops, syncs, written, snap, torn, clobbered>>

SyncSuper ==
  /\ mode = "up" /\ sync.ph = "super"
  /\ disk' = [disk EXCEPT !.free = mem.free, !.freeIno = mem.freeIno]
  /\ sync' = [ph |-> "bitmap", todo |-> {}]
  /\ UNCHANGED <<mem, mode, held, ops, syncs, written, snap, torn, clobbered>>

\* Variant: the bitmap is not written.
SyncBitmapSkip ==
  /\ mode = "up" /\ sync.ph = "bitmap"
  /\ sync' = [ph |-> "inodes", todo |-> {}]
  /\ UNCHANGED <<mem, disk, mode, held, ops, syncs, written, snap, torn, clobbered>>

SyncBitmap ==
  /\ mode = "up" /\ sync.ph = "bitmap"
  /\ disk' = [disk EXCEPT !.bm = mem.bm]
  /\ sync' = [ph |-> "inodes", todo |-> {}]
  /\ UNCHANGED <<mem, mode, held, ops, syncs, written, snap, torn, clobbered>>

SyncInodes ==
  /\ mode = "up" /\ sync.ph = "inodes"
  /\ disk' = [disk EXCEPT !.ino = mem.ino]
  /\ sync' = [ph |-> "idle", todo |-> {}]
  /\ snap' = [img |-> Load(mem), written |-> written]
  /\ torn' = FALSE
  /\ UNCHANGED <<mem, mode, held, ops, syncs, written, clobbered>>

\* What the disk may hold after a write that fails: write_block writes eight
\* sectors, and bitmap and inode table take several blocks, in this order.
PartlyWritten ==
  \/ /\ sync.ph = "data"
     /\ \E b \in sync.todo, j \in Cuts :
          /\ \A c \in sync.todo : b <= c
          /\ disk' = [disk EXCEPT !.data = [c \in DataBlocks |->
               IF c # b THEN disk.data[c]
               ELSE [k \in Slots |-> IF k < j THEN mem.data[c][k] ELSE disk.data[c][k]]]]
  \/ /\ sync.ph = "super"
     /\ \/ disk' = disk
        \/ disk' = [disk EXCEPT !.free = mem.free, !.freeIno = mem.freeIno]
  \/ /\ sync.ph = "bitmap"
     /\ \E c \in Cuts :
          disk' = [disk EXCEPT !.bm = {b \in mem.bm : b < c} \cup {b \in disk.bm : b >= c}]
  \/ /\ sync.ph = "inodes"
     /\ \E c \in Cuts :
          disk' = [disk EXCEPT !.ino =
                     [i \in Inodes |-> IF i < c THEN mem.ino[i] ELSE disk.ino[i]]]

\* A device write fails and sync returns the error.
SyncFail ==
  /\ mode = "up" /\ PartlyWritten
  /\ sync' = [ph |-> "idle", todo |-> {}]
  /\ UNCHANGED <<mem, mode, held, ops, syncs, written, snap, torn, clobbered>>

\* A crash and the mount that follows it (load_existing).  There is no recovery
\* pass: after a sync that was cut short the metadata and the data blocks may
\* disagree, a pointer may be anything, and the model stops there ("torn").
Reboot ==
  /\ mem' = Load(disk)
  /\ sync' = [ph |-> "idle", todo |-> {}]
  /\ mode' = IF torn THEN "torn" ELSE "up"
  /\ held' = {0}
  /\ written' = snap.written
  /\ UNCHANGED <<disk, ops, syncs, snap, torn, clobbered>>

Next ==
  \/ \E d \in held, name \in Names :
       \/ Create(d, name) \/ Mkdir(d, name) \/ Symlink(d, name)
       \/ Lookup(d, name) \/ Unlink(d, name)
       \/ \E t \in Foreign : LinkForeign(d, name, t)
  \/ \E i \in held :
       \/ \E x \in Writes : Write(i, x[1], x[2], Data(ops + 1))
       \/ \E x \in Lookalikes : Write(i, x[1], x[2], x[3])
  \/ \E i \in held, size \in Sizes : Truncate(i, size)
  \/ Link
  \/ SyncStart \/ SyncData \/ SyncClear \/ SyncSuper \/ SyncBitmap \/ SyncInodes
  \/ SyncFail \/ Reboot

Spec == Init /\ [][Next]_vars
-----------------------------------------------------------------------------
Blocks0 == DataBlocks \cup {0}
Words ==
  {Zero, Pad} \cup {Ptr(b) : b \in Blocks0} \cup {Data(v) : v \in 1 .. MaxOps}
  \cup {Entry(i, name, ty) : i \in Inodes, name \in Names \cup {".", ".."},
                             ty \in {"file", "dir", "symlink"}}

\* The tables have the shape the code gives them.
TypeOK ==
  /\ \A i \in Inodes :
       /\ mem.ino[i].ty \in {"file", "dir", "symlink"}
       /\ mem.ino[i].links \in Nat /\ mem.ino[i].size \in Nat
       /\ mem.ino[i].ptr \in [Fields -> Blocks0]
  /\ mem.bm \subseteq DataBlocks /\ mem.dirty \subseteq mem.bm
  /\ mem.free \in Nat /\ mem.freeIno \in 0 .. U32 - 1
  /\ \A b \in DataBlocks, k \in Slots : mem.data[b][k] \in Words
  /\ sync.ph \in {"idle", "data", "super", "bitmap", "inodes"}
  /\ sync.todo \subseteq DataBlocks
  /\ mode \in {"up", "hung", "torn"}
  /\ held \subseteq Inodes /\ ops \in 0 .. MaxOps /\ syncs \in 0 .. MaxSyncs

\* The pointers of an image, each with the place that holds it: a field of an
\* inode, a slot of an indirect block or a slot of a level-1 block.
Pointers(m) ==
  LET at(p, k) == IF p = 0 THEN 0 ELSE PtrAt(m, p, k)
      field(i, k) == m.ino[i].ptr[k]
      all == {<<field(i, k), <<i, k>> >> : i \in Inodes, k \in Fields}
             \cup {<<at(field(i, k), j), <<i, k, j>> >> : i \in Inodes, k \in {IND, DBL}, j \in Slots}
             \cup {<<at(at(field(i, DBL), j), l), <<i, DBL, j, l>> >> :
                     i \in Inodes, j \in Slots, l \in Slots}
  IN  {p \in all : p[1] # 0}

Running == mode \in {"up", "hung"}

\* No block belongs to two files, or twice to one, and every block that a file
\* can reach is allocated: however writes that fail half way, truncations,
\* writes through nodes of deleted files and recoveries are interleaved
\* (ensure_block, truncate_inode, free_inode_blocks).
OneOwner ==
  Running =>
    LET P == Pointers(mem)
        B == {p[1] : p \in P}
    IN  B \subseteq mem.bm /\ Cardinality(B) = Cardinality(P)

\* The free-block counter of the superblock is the number of clear bits of the
\* bitmap: no block is freed twice (allocate_block, free_block).
FreeBlocksExact == Running => mem.free = Cardinality(DataBlocks \ mem.bm)

\* Every allocated block that is not dirty is on disk word for word, also after
\* a sync that failed half way: no write path forgets mark_dirty and no sync
\* drops a block it has not written (mark_dirty, sync_to_disk).
CleanOnDisk ==
  Running => \A b \in DataBlocks :
    b \in mem.bm /\ b \notin mem.dirty => disk.data[b] = mem.data[b]

\* Unless a sync has begun and not completed, a mount gives back the filesystem
\* as it was when the last sync returned: metadata, directories and every
\* allocated block, although only dirty blocks were written (sync_to_disk,
\* load_existing).
Durable == ~torn => Load(disk) = snap.img

\* Each word of a file reads back as the last one written there, through
\* direct, indirect and double-indirect blocks, block reuse, truncation,
\* failed writes and recovery, unless the size was cast to u32 and the word
\* lies past what is left (write_inode, read_inode, truncate_inode).
ReadBack ==
  Running => \A i \in Inodes, u \in Units :
    mem.ino[i].ty # "dir" /\ written[i][u] # Zero =>
      u < mem.ino[i].size /\ ReadInode(mem, i, u) = written[i][u]

Dirs == {d \in Inodes : mem.ino[d].ty = "dir" /\ mem.ino[d].links > 0}

\* The entries of all directories other than "." and "..".
Named ==
  {x \in UNION {{<<d, pos>> : pos \in LiveEntries(mem, d)} : d \in Dirs} :
     EntryName(EntryAt(mem, x[1], x[2])) \notin {".", ".."}}

\* An inode has at least as many links as names, so taking one name away never
\* frees what another still leads to; a directory has no name twice, and what
\* an entry calls a directory is one.  This holds with links to files of other
\* filesystems, whose numbers are taken for numbers of this one, and as long as
\* directories hold nothing but what the directory operations stored: no call
\* wrote through a node of a directory and no old words came with a block
\* (write_dir_entry, link_in_dir, unlink_from_dir).
LinksCoverNames ==
  Running /\ ~clobbered =>
    LET e(x) == EntryAt(mem, x[1], x[2])
    IN  /\ \A i \in Inodes :
             Cardinality({x \in Named : EntryInode(e(x)) = i}) <= mem.ino[i].links
        /\ \A x \in Named :
             EntryType(e(x)) = "dir" => mem.ino[EntryInode(e(x))].ty = "dir"
        /\ \A x, y \in Named :
             x[1] = y[1] /\ EntryName(e(x)) = EntryName(e(y)) => x = y
=============================================================================
