---------------------------- MODULE BlockFsProofs ----------------------------
(***************************************************************************)
(* Proofs about BlockFs, for every number of blocks, inodes, names, calls  *)
(* and syncs: blocks that are not dirty are on disk, and a mount gives     *)
(* back the image of the last sync that completed.                         *)
(*                                                                         *)
(* The argument is one relation between images: n keeps m when every block *)
(* that n holds as allocated and clean was allocated and clean in m and    *)
(* has not changed.  Each primitive keeps its image, the relation is       *)
(* transitive, so each method of the filesystem keeps its image too.       *)
(***************************************************************************)
EXTENDS BlockFs, TLAPS

Keeps(m, n) ==
  \A b \in DataBlocks :
    b \in n.bm /\ b \notin n.dirty =>
      b \in m.bm /\ b \notin m.dirty /\ n.data[b] = m.data[b]

\* Every image keeps itself.
LEMMA KeepsRefl == ASSUME NEW m PROVE Keeps(m, m)
BY Zenon DEF Keeps

\* Two changes in a row keep what each of them keeps.
LEMMA KeepsTrans ==
  ASSUME NEW l, NEW m, NEW n, Keeps(l, m), Keeps(m, n)
  PROVE  Keeps(l, n)
BY Zenon DEF Keeps

\* Storing an inode touches no block.
LEMMA KeepsSetInode ==
  ASSUME NEW m, NEW i, NEW node
  PROVE  Keeps(m, SetInode(m, i, node))
BY Zenon DEF Keeps, SetInode, Image

\* The three setters of inode fields touch no block.
LEMMA KeepsFields ==
  ASSUME NEW m, NEW i, NEW k, NEW x
  PROVE  /\ Keeps(m, SetPtr(m, i, k, x))
         /\ Keeps(m, SetSize(m, i, x))
         /\ Keeps(m, SetLinks(m, i, x))
BY KeepsSetInode, Zenon DEF SetPtr, SetSize, SetLinks

\* The inode counter is not a block.
LEMMA KeepsAddFreeInodes ==
  ASSUME NEW m, NEW n
  PROVE  Keeps(m, AddFreeInodes(m, n))
BY Zenon DEF Keeps, AddFreeInodes, Image

\* A block that words are stored in is dirty afterwards.
LEMMA KeepsSetWords ==
  ASSUME NEW m, NEW b, NEW K, NEW w
  PROVE  Keeps(m, SetWords(m, b, K, w))
BY Zenon DEF Keeps, SetWords, Image

\* Clearing slots is storing words, or nothing.
LEMMA KeepsClearSlots ==
  ASSUME NEW m, NEW b, NEW K
  PROVE  Keeps(m, ClearSlots(m, b, K))
BY KeepsSetWords, KeepsRefl, Zenon DEF ClearSlots

\* A freed block is no longer allocated.
LEMMA KeepsFreeBlocks ==
  ASSUME NEW m, NEW B
  PROVE  Keeps(m, FreeBlocks(m, B))
BY Zenon DEF Keeps, FreeBlocks, Image

\* A block that is allocated is dirty at once.
LEMMA KeepsAlloc ==
  ASSUME NEW m, NEW z
  PROVE  Keeps(m, AllocBlock(m, z).m)
<1> DEFINE b == Lowest(DataBlocks \ m.bm)
           n == Image(m.ino, m.bm \cup {b}, m.free - 1, m.freeIno,
                      [c \in DataBlocks |-> IF c = b /\ z THEN ZERO_BLOCK ELSE m.data[c]],
                      m.dirty \cup {b})
<1>1. Keeps(m, n)
  <2> HIDE DEF b
  <2> QED BY Zenon DEF Keeps, Image
<1>2. AllocBlock(m, z).m = m \/ AllocBlock(m, z).m = n
  <2> HIDE DEF n
  <2> QED BY Zenon DEF AllocBlock, n
<1> HIDE DEF n
<1> QED BY <1>1, <1>2, KeepsRefl, Zenon

\* ensure_block on a field of the inode.
LEMMA KeepsEnsureField ==
  ASSUME NEW m, NEW i, NEW k, NEW z
  PROVE  Keeps(m, EnsureField(m, i, k, z).m)
<1> DEFINE a == AllocBlock(m, z)
<1>1. Keeps(m, a.m)
  BY KeepsAlloc, Zenon
<1> HIDE DEF a
<1>2. Keeps(a.m, SetPtr(a.m, i, k, a.b))
  BY KeepsFields, Zenon
<1>3. Keeps(m, SetPtr(a.m, i, k, a.b))
  BY <1>1, <1>2, KeepsTrans, Zenon
<1>4. \/ EnsureField(m, i, k, z).m = m
      \/ EnsureField(m, i, k, z).m = a.m
      \/ EnsureField(m, i, k, z).m = SetPtr(a.m, i, k, a.b)
  BY Zenon DEF EnsureField, a
<1> QED BY <1>1, <1>3, <1>4, KeepsRefl, Zenon

\* ensure_block on a slot of an indirect block.
LEMMA KeepsEnsureSlot ==
  ASSUME NEW m, NEW p, NEW k, NEW z
  PROVE  Keeps(m, EnsureSlot(m, p, k, z).m)
<1> DEFINE a == AllocBlock(m, z)
<1>1. Keeps(m, a.m)
  BY KeepsAlloc, Zenon
<1> HIDE DEF a
<1> DEFINE n == SetWords(a.m, p, {k}, Ptr(a.b))
<1>2. Keeps(a.m, n)
  BY KeepsSetWords, Zenon
<1> HIDE DEF n
<1>3. Keeps(m, n)
  BY <1>1, <1>2, KeepsTrans, Zenon
<1>4. \/ EnsureSlot(m, p, k, z).m = m
      \/ EnsureSlot(m, p, k, z).m = a.m
      \/ EnsureSlot(m, p, k, z).m = n
  BY Zenon DEF EnsureSlot, a, n
<1> QED BY <1>1, <1>3, <1>4, KeepsRefl, Zenon

\* ensure_block.
LEMMA KeepsEnsureBlock ==
  ASSUME NEW m, NEW i, NEW lb
  PROVE  Keeps(m, EnsureBlock(m, i, lb).m)
<1> DEFINE rel == lb - SINGLE_INDIRECT_MAX_BLOCKS
           p == EnsureField(m, i, IND, TRUE)
           q == EnsureField(m, i, DBL, TRUE)
           s == EnsureSlot(p.m, p.b, lb - DIRECT_BLOCKS, FALSE)
           l1 == EnsureSlot(q.m, q.b, rel \div PTRS_PER_BLOCK, TRUE)
           t == EnsureSlot(l1.m, l1.b, rel % PTRS_PER_BLOCK, FALSE)
<1>1. Keeps(m, p.m) /\ Keeps(m, q.m)
  BY KeepsEnsureField, ZenonT(30)
<1>2. Keeps(p.m, s.m) /\ Keeps(q.m, l1.m) /\ Keeps(l1.m, t.m)
  BY KeepsEnsureSlot, ZenonT(30)
<1>3. \/ EnsureBlock(m, i, lb) = EnsureField(m, i, lb, FALSE)
      \/ EnsureBlock(m, i, lb) = s
      \/ EnsureBlock(m, i, lb) = t
  BY ZenonT(30) DEF EnsureBlock
<1> HIDE DEF p, q, s, l1, t
<1>4. Keeps(m, s.m) /\ Keeps(m, t.m)
  BY <1>1, <1>2, KeepsTrans, Zenon
<1> QED BY <1>3, <1>4, KeepsEnsureField, ZenonT(30)

\* write_inode, whether it succeeds or stops at a full disk.
LEMMA KeepsWriteInode ==
  ASSUME NEW m, NEW i, NEW off, NEW n, NEW w
  PROVE  Keeps(m, WriteInode(m, i, off, n, w).m)
<1> DEFINE last == IF off + n <= MAX_SIZE THEN off + n - 1 ELSE MAX_SIZE - 1
           done == IF off < MAX_SIZE THEN last - off + 1 ELSE 0
           lb1 == off \div BLOCK_SIZE
           lb2 == last \div BLOCK_SIZE
           e1 == EnsureBlock(m, i, lb1)
           e2 == IF lb2 = lb1 THEN e1 ELSE EnsureBlock(e1.m, i, lb2)
           in(lb) == {k \in Slots : off <= lb * BLOCK_SIZE + k /\ lb * BLOCK_SIZE + k <= last}
           w1 == SetWords(e2.m, e1.b, in(lb1), w)
           w2 == IF lb2 = lb1 THEN w1 ELSE SetWords(w1, e2.b, in(lb2), w)
           grown(x) == IF off + done > x.ino[i].size
                         THEN SetSize(x, i, (off + done) % U32) ELSE x
<1>1. Keeps(m, e1.m)
  BY KeepsEnsureBlock, Zenon
<1>2. Keeps(e1.m, EnsureBlock(e1.m, i, lb2).m)
  BY KeepsEnsureBlock, Zenon
<1>3. Keeps(e1.m, e2.m)
  BY <1>2, KeepsRefl, Zenon
<1>4. Keeps(e2.m, w1)
  BY KeepsSetWords, Zenon
<1>5. Keeps(w1, SetWords(w1, e2.b, in(lb2), w))
  BY KeepsSetWords, Zenon
<1>6. Keeps(w1, w2)
  BY <1>5, KeepsRefl, Zenon
<1>7. WriteInode(m, i, off, n, w).m \in {grown(m), e1.m, e2.m, grown(w2)}
  <2> HIDE DEF e1, e2, w2, done, grown
  <2> QED BY ZenonT(30) DEF WriteInode, e1, e2, w1, w2, done, grown, last, lb1, lb2, in
<1>8. ASSUME NEW x PROVE Keeps(x, grown(x))
  BY KeepsFields, KeepsRefl, Zenon
<1> HIDE DEF e1, e2, w1, w2, grown
<1>9. Keeps(m, e2.m)
  BY <1>1, <1>3, KeepsTrans, Zenon
<1>10. Keeps(m, w2)
  BY <1>9, <1>4, <1>6, KeepsTrans, Zenon
<1>11. Keeps(w2, grown(w2)) /\ Keeps(m, grown(m))
  BY <1>8, Zenon
<1>12. Keeps(m, grown(w2))
  BY <1>10, <1>11, KeepsTrans, Zenon
<1> QED BY <1>1, <1>7, <1>9, <1>11, <1>12, Zenon

\* truncate_single_indirect.
LEMMA KeepsTruncateSingle ==
  ASSUME NEW m, NEW i, NEW first
  PROVE  Keeps(m, TruncateSingleIndirect(m, i, first))
<1> DEFINE p == m.ino[i].ptr[IND]
           gone == {k \in Slots : DIRECT_BLOCKS + k >= first /\ PtrAt(m, p, k) # 0}
           freed == {PtrAt(m, p, k) : k \in gone}
           f == FreeBlocks(m, freed)
           c == ClearSlots(f, p, gone)
           cut == IF first <= DIRECT_BLOCKS THEN f ELSE c
           end == SetPtr(FreeBlocks(cut, {p}), i, IND, 0)
<1>1. TruncateSingleIndirect(m, i, first) \in {m, cut, end}
  <2> HIDE DEF cut, end
  <2> QED BY Zenon DEF TruncateSingleIndirect, cut, end, c, f, freed, gone, p
<1>2. Keeps(m, f) /\ Keeps(f, c)
  BY KeepsFreeBlocks, KeepsClearSlots, Zenon
<1> HIDE DEF f, c
<1>3. Keeps(m, cut)
  BY <1>2, KeepsTrans, Zenon
<1> HIDE DEF cut
<1>4. Keeps(cut, FreeBlocks(cut, {p}))
  BY KeepsFreeBlocks, Zenon
<1>5. Keeps(FreeBlocks(cut, {p}), end)
  BY KeepsFields, Zenon
<1> HIDE DEF end
<1>6. Keeps(m, end)
  BY <1>3, <1>4, <1>5, KeepsTrans, Zenon
<1> QED BY <1>1, <1>3, <1>6, KeepsRefl, Zenon

\* truncate_double_indirect.
LEMMA KeepsTruncateDouble ==
  ASSUME NEW m, NEW i, NEW first
  PROVE  Keeps(m, TruncateDoubleIndirect(m, i, first))
<1> DEFINE d == m.ino[i].ptr[DBL]
           whole == first <= SINGLE_INDIRECT_MAX_BLOCKS
           base(k) == SINGLE_INDIRECT_MAX_BLOCKS + k * PTRS_PER_BLOCK
           L1 == {k \in Slots : PtrAt(m, d, k) # 0}
           gone(k) == {j \in Slots : base(k) + j >= first /\ PtrAt(m, PtrAt(m, d, k), j) # 0}
           kept(k) == {j \in Slots : base(k) + j < first /\ PtrAt(m, PtrAt(m, d, k), j) # 0}
           before(k) == base(k) + PTRS_PER_BLOCK <= first
           empty == {k \in L1 : ~before(k) /\ kept(k) = {}}
           dataFreed == UNION {{PtrAt(m, PtrAt(m, d, k), j) : j \in gone(k)} : k \in L1}
           cutL1 == {k \in L1 : gone(k) # {}}
           touched == {PtrAt(m, d, k) : k \in cutL1}
           wiped(c) == {j \in Slots : \E k \in cutL1 : PtrAt(m, d, k) = c /\ j \in gone(k)}
           cleared ==
             Image(m.ino, m.bm, m.free, m.freeIno,
                   [c \in DataBlocks |->
                      IF c \in touched
                        THEN [j \in Slots |-> IF j \in wiped(c) THEN Zero ELSE m.data[c][j]]
                        ELSE m.data[c]],
                   m.dirty \cup touched)
           start == IF whole THEN m ELSE cleared
           cut == FreeBlocks(start, dataFreed \cup {PtrAt(m, d, k) : k \in empty})
           done == IF whole THEN cut ELSE ClearSlots(cut, d, empty)
           end == SetPtr(FreeBlocks(done, {d}), i, DBL, 0)
<1>1. TruncateDoubleIndirect(m, i, first) \in {m, done, end}
  <2> HIDE DEF done, end
  <2> QED BY ZenonT(30) DEF TruncateDoubleIndirect, done, end, cut, start, cleared, wiped, touched,
                 cutL1, dataFreed, empty, before, kept, gone, L1, base, whole, d
<1>2. Keeps(m, cleared)
  <2> HIDE DEF touched, wiped
  <2> QED BY Zenon DEF Keeps, Image
<1>3. Keeps(m, start)
  BY <1>2, KeepsRefl, ZenonT(30)
<1>4. Keeps(start, cut)
  BY KeepsFreeBlocks, ZenonT(30)
<1>5. Keeps(cut, done)
  BY KeepsClearSlots, KeepsRefl, ZenonT(30)
<1>6. Keeps(done, FreeBlocks(done, {d}))
  BY KeepsFreeBlocks, ZenonT(30)
<1>7. Keeps(FreeBlocks(done, {d}), end)
  BY KeepsFields, ZenonT(30)
<1> HIDE DEF start, cut, done, end
<1>8. Keeps(m, done)
  BY <1>3, <1>4, <1>5, KeepsTrans, Zenon
<1>9. Keeps(m, end)
  BY <1>8, <1>6, <1>7, KeepsTrans, Zenon
<1> QED BY <1>1, <1>8, <1>9, KeepsRefl, Zenon

\* The three parts of a truncation in a row, and free_inode_blocks.
LEMMA KeepsFreeFrom ==
  ASSUME NEW m, NEW i, NEW first
  PROVE  Keeps(m, FreeFrom(m, i, first))
<1> DEFINE a == TruncateDirect(m, i, first)
           b == TruncateSingleIndirect(a, i, first)
           c == TruncateDoubleIndirect(b, i, first)
<1>1. Keeps(m, a)
  BY KeepsFreeBlocks, KeepsSetInode, KeepsTrans, Zenon DEF TruncateDirect
<1>2. Keeps(a, b)
  BY KeepsTruncateSingle, Zenon
<1>3. Keeps(b, c)
  BY KeepsTruncateDouble, Zenon
<1>4. FreeFrom(m, i, first) = c
  BY Zenon DEF FreeFrom
<1> HIDE DEF a, b, c
<1> QED BY <1>1, <1>2, <1>3, <1>4, KeepsTrans, Zenon

\* free_inode_blocks.
LEMMA KeepsFreeInodeBlocks ==
  ASSUME NEW m, NEW i
  PROVE  Keeps(m, FreeInodeBlocks(m, i))
BY KeepsFreeFrom, KeepsFields, KeepsTrans, Zenon DEF FreeInodeBlocks

\* truncate_inode.
LEMMA KeepsTruncateInode ==
  ASSUME NEW m, NEW i, NEW size
  PROVE  Keeps(m, TruncateInode(m, i, size))
<1> DEFINE long == SetSize(m, i, size % U32)
           s == SetSize(m, i, size)
           cut == FreeFrom(s, i, (size + BLOCK_SIZE - 1) \div BLOCK_SIZE)
           tail == ResolveBlock(cut, i, (size - 1) \div BLOCK_SIZE)
           end == SetWords(cut, tail, {k \in Slots : k >= size % BLOCK_SIZE}, Zero)
<1>1. TruncateInode(m, i, size) \in {long, end, cut}
  <2> HIDE DEF long, s, end
  <2> QED BY Zenon DEF TruncateInode, long, s, end, tail, cut
<1>2. Keeps(m, s) /\ Keeps(m, long)
  BY KeepsFields, Zenon
<1>3. Keeps(s, cut)
  BY KeepsFreeFrom, Zenon
<1>4. Keeps(cut, end)
  BY KeepsSetWords, Zenon
<1> HIDE DEF long, s, cut, end
<1> QED BY <1>1, <1>2, <1>3, <1>4, KeepsTrans

\* serialize_dir_entry.
LEMMA KeepsSerialize ==
  ASSUME NEW m, NEW d, NEW idx, NEW off, NEW len, NEW entry
  PROVE  Keeps(m, SerializeDirEntry(m, d, idx, off, len, entry).m)
<1> DEFINE e == EnsureField(m, d, idx, FALSE)
           p == SetWords(e.m, e.b, {off}, entry)
           put == SetWords(p, e.b, off + 1 .. off + len - 1, Pad)
           end == SetSize(put, d, idx * BLOCK_SIZE + off + len)
<1>1. SerializeDirEntry(m, d, idx, off, len, entry).m \in {m, end}
  <2> HIDE DEF end
  <2> QED BY Zenon DEF SerializeDirEntry, end, put, p, e
<1>2. Keeps(m, e.m)
  BY KeepsEnsureField, ZenonT(30)
<1>3. Keeps(e.m, p) /\ Keeps(p, put)
  BY KeepsSetWords, ZenonT(30)
<1>4. Keeps(put, end)
  BY KeepsFields, ZenonT(30)
<1> HIDE DEF e, p, put, end
<1>5. Keeps(m, put)
  BY <1>2, <1>3, KeepsTrans, Zenon
<1>6. Keeps(m, end)
  BY <1>5, <1>4, KeepsTrans, Zenon
<1> QED BY <1>1, <1>6, KeepsRefl, Zenon

\* write_dir_entry.
LEMMA KeepsWriteDirEntry ==
  ASSUME NEW m, NEW d, NEW t, NEW name, NEW ty
  PROVE  Keeps(m, WriteDirEntry(m, d, t, name, ty).m)
<1> DEFINE size == m.ino[d].size
           len == EntryLen[name]
           fits == (size % BLOCK_SIZE) + len <= BLOCK_SIZE
           idx == IF fits THEN size \div BLOCK_SIZE ELSE size \div BLOCK_SIZE + 1
           off == IF fits THEN size % BLOCK_SIZE ELSE 0
           s == SerializeDirEntry(m, d, idx, off, len, Entry(t, name, ty))
<1>1. Keeps(m, s.m)
  BY KeepsSerialize, Zenon
<1>2. WriteDirEntry(m, d, t, name, ty) \in {[m |-> m, ok |-> FALSE], s}
  <2> HIDE DEF s
  <2> QED BY Zenon DEF WriteDirEntry, s
<1> HIDE DEF s
<1> QED BY <1>1, <1>2, KeepsRefl

\* allocate_inode and the rollback of a creation.
LEMMA KeepsInodeCounts ==
  ASSUME NEW m, NEW i, NEW ty, NEW links, NEW size
  PROVE  Keeps(m, AllocInode(m, ty, links, size)) /\ Keeps(m, DropInode(m, i))
BY KeepsSetInode, KeepsFields, KeepsAddFreeInodes, KeepsTrans, Zenon DEF AllocInode, DropInode

\* create_file.
LEMMA KeepsCreateFile ==
  ASSUME NEW m, NEW d, NEW name
  PROVE  Keeps(m, CreateFile(m, d, name).m)
<1> DEFINE i == Lowest(FreeInodes(m))
           a == AllocInode(m, "file", 1, 0)
           w == WriteDirEntry(a, d, i, name, "file")
<1>1. Keeps(m, a) /\ Keeps(w.m, DropInode(w.m, i))
  BY KeepsInodeCounts, Zenon
<1>2. Keeps(a, w.m)
  BY KeepsWriteDirEntry, Zenon
<1>3. CreateFile(m, d, name).m \in {w.m, DropInode(w.m, i)}
  <2> HIDE DEF w
  <2> QED BY Zenon DEF CreateFile, w, a, i
<1> HIDE DEF i, a, w
<1> QED BY <1>1, <1>2, <1>3, KeepsTrans

\* create_directory.
LEMMA KeepsCreateDirectory ==
  ASSUME NEW m, NEW d, NEW name
  PROVE  Keeps(m, CreateDirectory(m, d, name).m)
<1> DEFINE i == Lowest(FreeInodes(m))
           a == AllocInode(m, "dir", 2, 0)
           w1 == WriteDirEntry(a, i, i, ".", "dir")
           w2 == WriteDirEntry(w1.m, i, d, "..", "dir")
           w3 == WriteDirEntry(w2.m, d, i, name, "dir")
           end == SetLinks(w3.m, d, w3.m.ino[d].links + 1)
<1>1. Keeps(m, a) /\ \A x \in {w1.m, w2.m, w3.m} : Keeps(x, DropInode(x, i))
  BY KeepsInodeCounts, Zenon
<1>2. Keeps(a, w1.m) /\ Keeps(w1.m, w2.m) /\ Keeps(w2.m, w3.m)
  BY KeepsWriteDirEntry, Zenon
<1>3. Keeps(w3.m, end)
  BY KeepsFields, ZenonT(30)
<1>4. CreateDirectory(m, d, name).m
        \in {DropInode(w1.m, i), DropInode(w2.m, i), DropInode(w3.m, i), end}
  <2> HIDE DEF w1, w2, w3, end
  <2> QED BY ZenonT(30) DEF CreateDirectory, w1, w2, w3, end, a, i
<1> HIDE DEF i, a, w1, w2, w3, end
<1>5. Keeps(m, w1.m)
  BY <1>1, <1>2, KeepsTrans, ZenonT(30)
<1>6. Keeps(m, w2.m)
  BY <1>5, <1>2, KeepsTrans, ZenonT(30)
<1>7. Keeps(m, w3.m)
  BY <1>6, <1>2, KeepsTrans, Zenon
<1> QED BY <1>1, <1>3, <1>4, <1>5, <1>6, <1>7, KeepsTrans

\* create_symlink.
LEMMA KeepsCreateSymlink ==
  ASSUME NEW m, NEW d, NEW name, NEW n, NEW v
  PROVE  Keeps(m, CreateSymlink(m, d, name, n, v).m)
<1> DEFINE i == Lowest(FreeInodes(m))
           a == AllocInode(m, "symlink", 1, n)
           w1 == WriteInode(a, i, 0, n, v)
           w2 == WriteDirEntry(w1.m, d, i, name, "symlink")
<1>1. Keeps(m, a) /\ Keeps(w2.m, DropInode(w2.m, i))
  BY KeepsInodeCounts, Zenon
<1>2. Keeps(a, w1.m)
  BY KeepsWriteInode, Zenon
<1>3. Keeps(w1.m, w2.m)
  BY KeepsWriteDirEntry, Zenon
<1>4. CreateSymlink(m, d, name, n, v).m \in {w1.m, w2.m, DropInode(w2.m, i)}
  <2> HIDE DEF w1, w2
  <2> QED BY ZenonT(30) DEF CreateSymlink, w1, w2, a, i
<1> HIDE DEF i, a, w1, w2
<1>5. Keeps(m, w1.m)
  BY <1>1, <1>2, KeepsTrans, Zenon
<1>6. Keeps(m, w2.m)
  BY <1>5, <1>3, KeepsTrans, Zenon
<1> QED BY <1>1, <1>4, <1>5, <1>6, KeepsTrans

\* link_in_dir.
LEMMA KeepsLinkInDir ==
  ASSUME NEW m, NEW d, NEW name, NEW t
  PROVE  Keeps(m, LinkInDir(m, d, name, t))
<1> DEFINE ty == IF m.ino[t].ty = "symlink" THEN "symlink" ELSE "file"
           w == WriteDirEntry(m, d, t, name, ty)
           end == SetLinks(w.m, t, w.m.ino[t].links + 1)
<1>1. Keeps(m, w.m)
  BY KeepsWriteDirEntry, Zenon
<1>2. Keeps(w.m, end)
  BY KeepsFields, ZenonT(30)
<1>3. LinkInDir(m, d, name, t) \in {w.m, end}
  <2> HIDE DEF w, end
  <2> QED BY Zenon DEF LinkInDir, w, end, ty
<1> HIDE DEF w, end
<1> QED BY <1>1, <1>2, <1>3, KeepsTrans

\* unlink_from_dir.
LEMMA KeepsUnlink ==
  ASSUME NEW m, NEW d, NEW pos
  PROVE  Keeps(m, UnlinkEntry(m, d, pos))
<1> DEFINE e == EntryAt(m, d, pos)
           t == EntryInode(e)
           down(x, i) == IF x.ino[i].links > 0 THEN SetLinks(x, i, x.ino[i].links - 1) ELSE x
           m1 == SetWords(m, m.ino[d].ptr[pos \div BLOCK_SIZE], {pos % BLOCK_SIZE},
                          Entry(0, EntryName(e), EntryType(e)))
           m2 == down(m1, t)
           m3 == IF EntryType(e) = "dir" THEN down(m2, d) ELSE m2
<1>1. ASSUME NEW x, NEW i PROVE Keeps(x, down(x, i))
  BY KeepsFields, KeepsRefl, Zenon
<1>2. Keeps(m, m1)
  BY KeepsSetWords, Zenon
<1>3. UnlinkEntry(m, d, pos) \in {m3, FreeInodeBlocks(m3, t)}
  <2> HIDE DEF m3
  <2> QED BY ZenonT(30) DEF UnlinkEntry, m3, m2, m1, t, e
<1> HIDE DEF down, m1
<1>4. Keeps(m1, m2) /\ Keeps(m2, m3)
  BY <1>1, KeepsRefl, Zenon
<1>5. Keeps(m3, FreeInodeBlocks(m3, t))
  BY KeepsFreeInodeBlocks, Zenon
<1> HIDE DEF m2, m3, t
<1> QED BY <1>2, <1>3, <1>4, <1>5, KeepsTrans, SMTT(30)
-----------------------------------------------------------------------------
DiskShape ==
  disk = [ino |-> disk.ino, bm |-> disk.bm, free |-> disk.free,
          freeIno |-> disk.freeIno, data |-> disk.data]

Clean == \A b \in DataBlocks :
           b \in mem.bm /\ b \notin mem.dirty => disk.data[b] = mem.data[b]

\* The inductive invariant.  During the data phase of a sync only the blocks
\* still to be written may differ from the disk; after it nothing is dirty, and
\* each metadata write leaves its part of the disk equal to the image.
SyncInv ==
  /\ DiskShape
  /\ mode # "torn" => Clean
  /\ ~torn => Load(disk) = snap.img
  /\ sync.ph # "idle" => torn /\ mode # "torn"
  /\ sync.ph = "data" =>
       /\ sync.todo \subseteq mem.dirty
       /\ \A b \in DataBlocks : b \in mem.bm /\ b \notin sync.todo => disk.data[b] = mem.data[b]
  /\ sync.ph \in {"super", "bitmap", "inodes"} => mem.dirty = {}
  /\ sync.ph \in {"bitmap", "inodes"} =>
       disk.free = mem.free /\ disk.freeIno = mem.freeIno
  /\ sync.ph = "inodes" => disk.bm = mem.bm
  /\ sync.ph \in {"idle", "data", "super", "bitmap", "inodes"}
  /\ mode \in {"up", "hung", "torn"}

\* A call that keeps the image and touches neither the disk nor the sync
\* preserves the invariant.
LEMMA CallKeeps ==
  ASSUME SyncInv, sync.ph = "idle", Keeps(mem, mem'),
         UNCHANGED <<disk, sync, mode, snap, torn>>
  PROVE  SyncInv'
<1>1. (mode # "torn" => Clean)'
  BY Zenon DEF SyncInv, Clean, Keeps
<1> QED BY <1>1, Zenon DEF SyncInv, DiskShape, Load

\* The freshly made image is clean, and is what the disk holds.
LEMMA InitSync == Init => SyncInv
<1> SUFFICES ASSUME Init PROVE SyncInv
  OBVIOUS
<1>1. \E x : mem = Load(x)
  BY Zenon DEF Init, MkfsImage
<1>2. PICK x : mem = Load(x)
  BY <1>1, Zenon
<1>3. Load(disk) = mem
  <2>1. disk.ino = mem.ino /\ disk.bm = mem.bm /\ disk.free = mem.free
        /\ disk.freeIno = mem.freeIno /\ disk.data = mem.data
    BY Zenon DEF Init
  <2> QED BY <1>2, <2>1, Zenon DEF Load, Image
<1>4. DiskShape /\ Clean
  BY Zenon DEF Init, DiskShape, Clean
<1> QED BY <1>3, <1>4, Zenon DEF Init, SyncInv

\* Every step preserves the invariant.
LEMMA NextSync == SyncInv /\ [Next]_vars => SyncInv'
<1> SUFFICES ASSUME SyncInv, [Next]_vars PROVE SyncInv'
  OBVIOUS
<1>1. ASSUME NEW d \in held, NEW name \in Names, Create(d, name) PROVE SyncInv'
  BY <1>1, KeepsCreateFile, CallKeeps, Zenon DEF Create, Call
<1>2. ASSUME NEW d \in held, NEW name \in Names, Mkdir(d, name) PROVE SyncInv'
  BY <1>2, KeepsCreateDirectory, CallKeeps, Zenon DEF Mkdir, Call
<1>3. ASSUME NEW d \in held, NEW name \in Names, Symlink(d, name) PROVE SyncInv'
  BY <1>3, KeepsCreateSymlink, CallKeeps, Zenon DEF Symlink, Call
<1>4. ASSUME NEW d \in held, NEW name \in Names, Lookup(d, name) PROVE SyncInv'
  BY <1>4, KeepsRefl, CallKeeps, Zenon DEF Lookup
<1>5. ASSUME NEW d \in held, NEW name \in Names, Unlink(d, name) PROVE SyncInv'
  BY <1>5, KeepsUnlink, CallKeeps, Zenon DEF Unlink, Call
<1>6. ASSUME NEW i \in held, NEW off, NEW n, NEW w, Write(i, off, n, w) PROVE SyncInv'
  BY <1>6, KeepsWriteInode, CallKeeps, Zenon DEF Write, Call
<1>7. ASSUME NEW i \in held, NEW size \in Sizes, Truncate(i, size) PROVE SyncInv'
  BY <1>7, KeepsTruncateInode, CallKeeps, Zenon DEF Truncate, Call
<1>8. ASSUME Link PROVE SyncInv'
  BY <1>8, Zenon DEF Link, SyncInv, DiskShape, Clean, Load
<1>9. ASSUME SyncStart PROVE SyncInv'
  BY <1>9, Zenon DEF SyncStart, SyncInv, DiskShape, Clean, Load
<1>10. ASSUME SyncData PROVE SyncInv'
  <2> DEFINE b == Lowest(sync.todo)
  <2> HIDE DEF b
  <2>1. disk' = [ino |-> disk.ino, bm |-> disk.bm, free |-> disk.free, freeIno |-> disk.freeIno,
                 data |-> [c \in DataBlocks |-> IF c = b THEN mem.data[c] ELSE disk.data[c]]]
    <3>1. \A c \in DataBlocks : c = b => b < DeviceBlocks
      BY DeviceAssumption, Zenon
    <3>2. [c \in DataBlocks |-> IF c = b /\ b < DeviceBlocks THEN mem.data[c] ELSE disk.data[c]]
            = [c \in DataBlocks |-> IF c = b THEN mem.data[c] ELSE disk.data[c]]
      BY <3>1, Zenon
    <3>3. disk' = [disk EXCEPT !.data =
            [c \in DataBlocks |-> IF c = b /\ b < DeviceBlocks THEN mem.data[c] ELSE disk.data[c]]]
      BY <1>10, Zenon DEF SyncData, b
    <3> QED BY <3>2, <3>3, Zenon DEF SyncInv, DiskShape
  <2>2. sync' = [ph |-> "data", todo |-> sync.todo \ {b}] /\ UNCHANGED <<mem, mode, snap>> /\ torn'
    BY <1>10, Zenon DEF SyncData, SyncInv, b
  <2> QED BY <1>10, <2>1, <2>2 DEF SyncData, SyncInv, DiskShape, Clean
<1>11. ASSUME SyncClear PROVE SyncInv'
  BY <1>11, Zenon DEF SyncClear, SyncInv, DiskShape, Clean, Load, Image
<1>12. ASSUME SyncSuper PROVE SyncInv'
  BY <1>12, ZenonT(30) DEF SyncSuper, SyncInv, DiskShape, Clean
<1>13. ASSUME SyncBitmap PROVE SyncInv'
  BY <1>13, Zenon DEF SyncBitmap, SyncInv, DiskShape, Clean
<1>14. ASSUME SyncInodes PROVE SyncInv'
  BY <1>14, Zenon DEF SyncInodes, SyncInv, DiskShape, Clean, Load, Image
<1>15. ASSUME SyncFail PROVE SyncInv'
  <2>1. PartlyWritten /\ torn /\ torn' /\ mode = "up" /\ sync'.ph = "idle" /\ UNCHANGED <<mem, mode>>
    BY <1>15, Zenon DEF SyncFail, PartlyWritten, SyncInv
  <2>2. DiskShape' /\ Clean'
    <3>1. CASE sync.ph = "data"
      <4>1. PICK b \in sync.todo, j \in Cuts :
              disk' = [disk EXCEPT !.data = [c \in DataBlocks |->
                IF c # b THEN disk.data[c]
                ELSE [k \in Slots |-> IF k < j THEN mem.data[c][k] ELSE disk.data[c][k]]]]
        BY <2>1, <3>1, Zenon DEF PartlyWritten
      <4>2. \A c \in DataBlocks : c # b => disk'.data[c] = disk.data[c]
        BY <4>1, Zenon DEF SyncInv, DiskShape
      <4>3. b \in mem.dirty
        BY <3>1, Zenon DEF SyncInv
      <4>4. Clean'
        BY <2>1, <4>2, <4>3, Zenon DEF SyncInv, Clean
      <4> QED BY <4>1, <4>4, Zenon DEF SyncInv, DiskShape
    <3>2. CASE sync.ph = "super"
      BY <2>1, <3>2, Zenon DEF PartlyWritten, SyncInv, DiskShape, Clean
    <3>3. CASE sync.ph = "bitmap"
      BY <2>1, <3>3, Zenon DEF PartlyWritten, SyncInv, DiskShape, Clean
    <3>4. CASE sync.ph = "inodes"
      BY <2>1, <3>4, Zenon DEF PartlyWritten, SyncInv, DiskShape, Clean
    <3> QED BY <2>1, <3>1, <3>2, <3>3, <3>4, Zenon DEF PartlyWritten
  <2> QED BY <2>1, <2>2, Zenon DEF SyncInv
<1>16. ASSUME Reboot PROVE SyncInv'
  BY <1>16, Zenon DEF Reboot, SyncInv, DiskShape, Clean, Load, Image
<1>17. ASSUME NEW d \in held, NEW name \in Names, NEW t \in Foreign, LinkForeign(d, name, t)
       PROVE  SyncInv'
  BY <1>17, KeepsLinkInDir, CallKeeps, Zenon DEF LinkForeign, Call
<1>18. ASSUME UNCHANGED vars PROVE SyncInv'
  BY <1>18, Zenon DEF vars, SyncInv, DiskShape, Clean, Load
<1> QED BY <1>1, <1>2, <1>3, <1>4, <1>5, <1>6, <1>7, <1>8, <1>9, <1>10, <1>11, <1>12,
           <1>13, <1>14, <1>15, <1>16, <1>17, <1>18, Zenon DEF Next

\* Allocated blocks that are not dirty are on disk, whatever calls, failed
\* syncs and crashes came before (mark_dirty, free_block, sync_to_disk).
THEOREM CleanBlocksOnDisk == Spec => []CleanOnDisk
<1>1. SyncInv => CleanOnDisk
  BY Zenon DEF SyncInv, CleanOnDisk, Clean, Running
<1> QED BY <1>1, InitSync, NextSync, PTL DEF Spec

\* Unless a sync has begun and not completed, the disk gives back exactly the
\* image of the last sync that completed (sync_to_disk, load_existing).
THEOREM SyncedImageDurable == Spec => []Durable
<1>1. SyncInv => Durable
  BY Zenon DEF SyncInv, Durable
<1> QED BY <1>1, InitSync, NextSync, PTL DEF Spec
=============================================================================
