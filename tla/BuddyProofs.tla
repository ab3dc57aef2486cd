---------------------------- MODULE BuddyProofs ----------------------------
(***************************************************************************)
(* Proofs about BuddyAllocator for every number of orders and every start  *)
(* frame: no two blocks share a frame, the allocator implements the pool   *)
(* of FramePool, its counter and lists account for every frame, and no     *)
(* two buddies are free at the same time.                                  *)
(*                                                                         *)
(* The first two rest on BuddyInv.  The accounts add that a managed frame  *)
(* is free exactly when no caller holds it, and that free() counts its     *)
(* block when it is done (AccountInv).  The last adds that the lists a     *)
(* split has yet to fill are empty (MergeInv), and that a block is the     *)
(* buddy of its buddy wherever it starts.                                  *)
(***************************************************************************)
EXTENDS BuddyAllocator, FiniteSetTheorems, TLAPS

USE BuddyAssumption

Lists == [Orders -> SUBSET Nat]

\* The blocks of a family of lists, by membership.
LEMMA BlockMember ==
    ASSUME NEW L \in Lists
    PROVE  \A b : b \in BlocksOf(L) <=> b \in Nat \X Orders /\ b[1] \in L[b[2]]
<1>1. ASSUME NEW b, b \in BlocksOf(L)
      PROVE  b \in Nat \X Orders /\ b[1] \in L[b[2]]
  <2>1. PICK k \in Orders : b \in L[k] \X {k}
    BY <1>1, Zenon DEF BlocksOf
  <2> QED
    BY <2>1, Zenon DEF Lists
<1>2. ASSUME NEW b, b \in Nat \X Orders, b[1] \in L[b[2]]
      PROVE  b \in BlocksOf(L)
  <2>1. b[2] \in Orders /\ b \in L[b[2]] \X {b[2]}
    BY <1>2, Zenon
  <2> QED
    BY <2>1, Zenon DEF BlocksOf
<1> QED
  BY <1>1, <1>2, Zenon

\* Putting a block on its list adds that block and no other.
LEMMA AddBlock ==
    ASSUME NEW L \in Lists, NEW k \in Orders, NEW f \in Nat
    PROVE  /\ [L EXCEPT ![k] = @ \cup {f}] \in Lists
           /\ BlocksOf([L EXCEPT ![k] = @ \cup {f}]) = BlocksOf(L) \cup {<<f, k>>}
<1> DEFINE M == [L EXCEPT ![k] = @ \cup {f}]
<1>1. M \in Lists
  BY Zenon DEF Lists
<1>2. \A b \in Nat \X Orders : b[1] \in M[b[2]] <=> b[1] \in L[b[2]] \/ b = <<f, k>>
  BY DEF Lists
<1>3. \A b : b \in BlocksOf(M) <=> b \in Nat \X Orders /\ b[1] \in M[b[2]]
  BY <1>1, BlockMember, Zenon
<1>4. \A b : b \in BlocksOf(L) <=> b \in Nat \X Orders /\ b[1] \in L[b[2]]
  BY BlockMember, Zenon
<1>5. <<f, k>> \in Nat \X Orders
  OBVIOUS
<1> HIDE DEF M
<1>6. BlocksOf(M) = BlocksOf(L) \cup {<<f, k>>}
  BY <1>2, <1>3, <1>4, <1>5, Zenon
<1> QED
  BY <1>1, <1>6, Zenon DEF M

\* Taking a block off its list removes that block and no other.
LEMMA DropBlock ==
    ASSUME NEW L \in Lists, NEW k \in Orders, NEW f \in L[k]
    PROVE  /\ [L EXCEPT ![k] = @ \ {f}] \in Lists
           /\ BlocksOf([L EXCEPT ![k] = @ \ {f}]) = BlocksOf(L) \ {<<f, k>>}
           /\ <<f, k>> \in BlocksOf(L)
<1> DEFINE M == [L EXCEPT ![k] = @ \ {f}]
<1>1. M \in Lists /\ f \in Nat
  BY Zenon DEF Lists
<1>2. \A b \in Nat \X Orders : b[1] \in M[b[2]] <=> b[1] \in L[b[2]] /\ b # <<f, k>>
  BY DEF Lists
<1>3. \A b : b \in BlocksOf(M) <=> b \in Nat \X Orders /\ b[1] \in M[b[2]]
  BY <1>1, BlockMember, Zenon
<1>4. \A b : b \in BlocksOf(L) <=> b \in Nat \X Orders /\ b[1] \in L[b[2]]
  BY BlockMember, Zenon
<1>5. <<f, k>> \in Nat \X Orders /\ <<f, k>>[1] = f /\ <<f, k>>[2] = k
  BY <1>1, Zenon
<1> HIDE DEF M
<1>6. BlocksOf(M) = BlocksOf(L) \ {<<f, k>>}
  BY <1>2, <1>3, <1>4, <1>5, Zenon
<1>7. <<f, k>> \in BlocksOf(L)
  BY <1>4, <1>5, Zenon
<1> QED
  BY <1>1, <1>6, <1>7, Zenon DEF M

-----------------------------------------------------------------------------
(* How each step moves blocks between the lists, the callers and the call  *)
(* in progress.                                                            *)

\* The free lists of a well-typed state are lists in the sense of the lemmas
\* above.
LEMMA TypeLists == BuddyTypeOK => free_lists \in Lists
BY Zenon DEF BuddyTypeOK, Lists

\* Taking a block from a free list moves it into the hand of the call.
LEMMA TakeMoves ==
    ASSUME BuddyTypeOK, NEW count, AllocTake(count)
    PROVE  /\ BuddyTypeOK'
           /\ \E b \in FreeBlocks :
                /\ OpBlocks = {} /\ OpBlocks' = {b} /\ held' = held
                /\ FreeBlocks' = FreeBlocks \ {b}
<1>0. PICK want \in Orders, k \in Orders : \E f \in free_lists[k] :
          /\ free_lists' = [free_lists EXCEPT ![k] = @ \ {f}]
          /\ op' = Call("alloc", f, k, want)
  BY Zenon DEF AllocTake
<1>1. PICK f \in free_lists[k] :
          /\ free_lists' = [free_lists EXCEPT ![k] = @ \ {f}]
          /\ op' = Call("alloc", f, k, want)
  BY <1>0, Zenon
<1>2. op.kind = "idle" /\ held' = held /\ free_frames' = free_frames
  BY Zenon DEF AllocTake
<1>3. free_lists' \in Lists /\ FreeBlocks' = FreeBlocks \ {<<f, k>>}
      /\ <<f, k>> \in FreeBlocks
  BY <1>1, TypeLists, DropBlock, Zenon DEF FreeBlocks
<1>4. f \in Nat
  BY Zenon DEF BuddyTypeOK
<1>5. OpBlocks = {} /\ OpBlocks' = {<<f, k>>}
  BY <1>1, <1>2, Zenon DEF OpBlocks, Call
<1>6. BuddyTypeOK'
  BY <1>1, <1>2, <1>3, <1>4, Zenon DEF BuddyTypeOK, Lists, Call
<1> QED
  BY <1>2, <1>3, <1>5, <1>6, Zenon

\* A split keeps the lower half in hand and lists the upper half.
LEMMA SplitMoves ==
    ASSUME BuddyTypeOK, AllocSplit
    PROVE  /\ BuddyTypeOK'
           /\ \E f \in Nat, k \in Orders :
                /\ k > 0 /\ OpBlocks = {<<f, k>>} /\ OpBlocks' = {<<f, k - 1>>}
                /\ held' = held
                /\ FreeBlocks' = FreeBlocks \cup {<<f + Size[k - 1], k - 1>>}
<1> DEFINE f == op.frame
           k == op.order
<1>1. /\ op.kind = "alloc" /\ k > op.want /\ held' = held
      /\ free_frames' = free_frames
      /\ free_lists' = [free_lists EXCEPT ![k - 1] = @ \cup {f + Size[k - 1]}]
      /\ op' = [op EXCEPT !.order = @ - 1]
  BY Zenon DEF AllocSplit, Split
<1>2. f \in Nat /\ k \in Orders /\ k > 0 /\ k - 1 \in Orders
  BY <1>1 DEF BuddyTypeOK, Orders
<1>3. f + Size[k - 1] \in Nat
  BY <1>2
<1>4. free_lists' \in Lists
      /\ FreeBlocks' = FreeBlocks \cup {<<f + Size[k - 1], k - 1>>}
  BY <1>1, <1>2, <1>3, TypeLists, AddBlock, Zenon DEF FreeBlocks
<1>5. op' \in [kind : {"idle", "alloc", "free"}, frame : Nat, order : Orders,
               want : Orders]
      /\ op'.kind = "alloc" /\ op'.frame = f /\ op'.order = k - 1
  BY <1>1, <1>2, Zenon DEF BuddyTypeOK
<1>6. OpBlocks = {<<f, k>>} /\ OpBlocks' = {<<f, k - 1>>}
  BY <1>1, <1>5, Zenon DEF OpBlocks
<1>7. BuddyTypeOK'
  BY <1>1, <1>4, <1>5, Zenon DEF BuddyTypeOK, Lists
<1> QED
  BY <1>1, <1>2, <1>4, <1>6, <1>7, Zenon

\* The end of allocate_frames hands the block in hand to the caller.
LEMMA GrantMoves ==
    ASSUME BuddyTypeOK, AllocDone
    PROVE  /\ BuddyTypeOK'
           /\ \E b \in Nat \X Orders :
                /\ OpBlocks = {b} /\ OpBlocks' = {}
                /\ held' = held \cup {b} /\ FreeBlocks' = FreeBlocks
<1> DEFINE b == <<op.frame, op.order>>
<1>1. /\ op.kind = "alloc" /\ op.order = op.want /\ op' = Idle
      /\ held' = held \cup {<<op.frame, op.want>>} /\ free_lists' = free_lists
      /\ free_frames' = free_frames - Size[op.want]
  BY Zenon DEF AllocDone
<1>2. b \in Nat \X Orders
  BY Zenon DEF BuddyTypeOK
<1>3. OpBlocks = {b} /\ OpBlocks' = {} /\ FreeBlocks' = FreeBlocks
  BY <1>1, Zenon DEF OpBlocks, Idle, FreeBlocks
<1>4. op' \in [kind : {"idle", "alloc", "free"}, frame : Nat, order : Orders,
               want : Orders]
  BY <1>1 DEF Idle, Orders
<1>5. free_frames' \in Int
  BY <1>1 DEF BuddyTypeOK
<1>6. BuddyTypeOK'
  BY <1>1, <1>2, <1>4, <1>5, Zenon DEF BuddyTypeOK
<1> QED
  BY <1>1, <1>2, <1>3, <1>6, Zenon

\* The start of free_frames takes the block back from its holder.
LEMMA ReturnMoves ==
    ASSUME BuddyTypeOK, NEW b \in held, FreeBegin(b)
    PROVE  /\ BuddyTypeOK'
           /\ OpBlocks = {} /\ OpBlocks' = {b}
           /\ held' = held \ {b} /\ FreeBlocks' = FreeBlocks
<1>1. /\ op.kind = "idle" /\ op' = Call("free", b[1], b[2], b[2])
      /\ held' = held \ {b} /\ free_lists' = free_lists
      /\ free_frames' = free_frames
  BY Zenon DEF FreeBegin
<1>2. b \in Nat \X Orders /\ b = <<b[1], b[2]>> /\ b[1] \in Nat /\ b[2] \in Orders
  BY DEF BuddyTypeOK
<1>3. OpBlocks = {} /\ OpBlocks' = {b} /\ FreeBlocks' = FreeBlocks
  BY <1>1, <1>2, Zenon DEF OpBlocks, Call, FreeBlocks
<1>4. BuddyTypeOK'
  BY <1>1, <1>2, Zenon DEF BuddyTypeOK, Call
<1> QED
  BY <1>1, <1>3, <1>4, Zenon

\* A merge takes the neighbour of the same order off its list and joins it to
\* the block in hand.
LEMMA MergeMoves ==
    ASSUME BuddyTypeOK, FreeMerge
    PROVE  /\ BuddyTypeOK'
           /\ \E f \in Nat, g \in Nat, m \in Nat, k \in Orders :
                /\ k + 1 \in Orders /\ <<g, k>> \in FreeBlocks
                /\ \/ g = f + Size[k] /\ m = f
                   \/ f = g + Size[k] /\ m = g
                /\ OpBlocks = {<<f, k>>} /\ OpBlocks' = {<<m, k + 1>>}
                /\ held' = held /\ FreeBlocks' = FreeBlocks \ {<<g, k>>}
<1> DEFINE f == op.frame
           k == op.order
           g == Buddy(f, k)
           m == IF f <= g THEN f ELSE g
<1>1. /\ op.kind = "free" /\ k < MaxOrder /\ g \in free_lists[k] /\ held' = held
      /\ free_frames' = free_frames
      /\ free_lists' = [free_lists EXCEPT ![k] = @ \ {g}]
      /\ op' = [op EXCEPT !.frame = m, !.order = @ + 1]
  BY Zenon DEF FreeMerge, Merge, CanMerge
<1>2. f \in Nat /\ k \in Orders /\ k + 1 \in Orders
  BY <1>1 DEF BuddyTypeOK, Orders
<1>3. g \in Nat /\ m \in Nat
  BY <1>1, <1>2, Zenon DEF BuddyTypeOK
<1>4. Size[k] \in Nat \ {0}
  BY <1>2, Zenon
<1>5. g = f + Size[k] \/ g = f - Size[k]
  BY Zenon DEF Buddy
<1>6. \/ g = f + Size[k] /\ m = f
      \/ f = g + Size[k] /\ m = g
  <2> HIDE DEF f, k, g
  <2> QED
    BY <1>2, <1>3, <1>4, <1>5
<1>7. /\ free_lists' \in Lists /\ <<g, k>> \in FreeBlocks
      /\ FreeBlocks' = FreeBlocks \ {<<g, k>>}
  <2> HIDE DEF g
  <2> QED
    BY <1>1, <1>2, TypeLists, DropBlock, Zenon DEF FreeBlocks
<1>8. /\ op' \in [kind : {"idle", "alloc", "free"}, frame : Nat, order : Orders,
                  want : Orders]
      /\ op'.kind = "free" /\ op'.frame = m /\ op'.order = k + 1
  <2> HIDE DEF m
  <2> QED
    BY <1>1, <1>2, <1>3, Zenon DEF BuddyTypeOK
<1>9. OpBlocks = {<<f, k>>} /\ OpBlocks' = {<<m, k + 1>>}
  <2> HIDE DEF m
  <2> QED
    BY <1>1, <1>8, Zenon DEF OpBlocks
<1>10. BuddyTypeOK'
  BY <1>1, <1>7, <1>8, Zenon DEF BuddyTypeOK, Lists
<1> HIDE DEF f, g, k, m
<1> QED
  BY <1>1, <1>2, <1>3, <1>6, <1>7, <1>9, <1>10, Zenon

\* The end of free_frames lists the block in hand.
LEMMA ReleaseMoves ==
    ASSUME BuddyTypeOK, FreeDone
    PROVE  /\ BuddyTypeOK'
           /\ OpBlocks' = {} /\ held' = held
           /\ FreeBlocks' = FreeBlocks \cup OpBlocks
<1>1. /\ op.kind = "free" /\ op' = Idle /\ held' = held
      /\ free_lists' = [free_lists EXCEPT ![op.order] = @ \cup {op.frame}]
      /\ free_frames' = free_frames + Size[op.want]
  BY Zenon DEF FreeDone, Release
<1>2. op.frame \in Nat /\ op.order \in Orders
  BY Zenon DEF BuddyTypeOK
<1>3. OpBlocks = {<<op.frame, op.order>>} /\ OpBlocks' = {}
  BY <1>1, Zenon DEF OpBlocks, Idle
<1>4. free_lists' \in Lists /\ FreeBlocks' = FreeBlocks \cup OpBlocks
  BY <1>1, <1>2, <1>3, TypeLists, AddBlock DEF FreeBlocks
<1>5. op' \in [kind : {"idle", "alloc", "free"}, frame : Nat, order : Orders,
               want : Orders]
  BY <1>1 DEF Idle, Orders
<1>6. free_frames' \in Int
  BY <1>1 DEF BuddyTypeOK
<1>7. BuddyTypeOK'
  BY <1>1, <1>4, <1>5, <1>6, Zenon DEF BuddyTypeOK, Lists
<1> QED
  BY <1>1, <1>3, <1>4, <1>7, Zenon
-----------------------------------------------------------------------------
(* The inductive invariant.                                                *)

Blocks == FreeBlocks \cup held \cup OpBlocks

BuddyInv == BuddyTypeOK /\ BlocksApart

\* Blocks are pairs of a frame number and an order.
LEMMA BlocksTyped ==
    BuddyTypeOK => Blocks \subseteq Nat \X Orders
<1> SUFFICES ASSUME BuddyTypeOK PROVE Blocks \subseteq Nat \X Orders
  OBVIOUS
<1>1. FreeBlocks \subseteq Nat \X Orders
  BY TypeLists, BlockMember, Zenon DEF FreeBlocks
<1>2. held \subseteq Nat \X Orders /\ OpBlocks \subseteq Nat \X Orders
  BY DEF BuddyTypeOK, OpBlocks
<1> QED
  BY <1>1, <1>2, Zenon DEF Blocks

\* The range handed to the allocator is one block inside itself.
LEMMA InitInv == BuddyInit => BuddyInv
<1> SUFFICES ASSUME BuddyInit PROVE BuddyInv
  OBVIOUS
<1>1. BuddyTypeOK
  BY DEF BuddyInit, BuddyTypeOK, Idle, Orders
<1>2. \A b : b \in FreeBlocks <=> b = <<Start, TopOrder>>
  <2>1. \A b : b \in FreeBlocks <=>
              b \in Nat \X Orders /\ b[1] \in free_lists[b[2]]
    BY <1>1, TypeLists, BlockMember, Zenon DEF FreeBlocks
  <2>2. \A b \in Nat \X Orders :
              b[1] \in free_lists[b[2]] <=> b = <<Start, TopOrder>>
    BY DEF BuddyInit
  <2> QED
    BY <2>1, <2>2, Zenon
<1>3. held = {} /\ OpBlocks = {}
  BY Zenon DEF BuddyInit, OpBlocks, Idle
<1>4. Inside(<<Start, TopOrder>>)
  BY DEF Inside
<1> QED
  BY <1>1, <1>2, <1>3, <1>4 DEF BuddyInv, BlocksApart

\* Moving a block between the lists, the callers and the call in progress
\* keeps the blocks apart.
LEMMA SameBlocks ==
    ASSUME BlocksApart, Blocks' = Blocks,
           FreeBlocks' \cap held' = {},
           OpBlocks' \cap (FreeBlocks' \cup held') = {}
    PROVE  BlocksApart'
<1>1. \A b, c \in Blocks : b = c \/ Apart(b, c)
  BY Zenon DEF BlocksApart, Blocks
<1>2. \A b \in Blocks : Inside(b)
  BY Zenon DEF BlocksApart, Blocks
<1>3. (\A b, c \in Blocks' : b = c \/ Apart(b, c)) /\ \A b \in Blocks' : Inside(b)
  BY <1>1, <1>2, Zenon
<1> QED
  BY <1>3, Zenon DEF BlocksApart, Blocks, Apart, Before, Inside

\* No step of a call makes two blocks overlap or leave the managed range.
LEMMA NextInv == BuddyInv /\ [BuddyNext]_buddyVars => BuddyInv'
<1> SUFFICES ASSUME BuddyInv, [BuddyNext]_buddyVars PROVE BuddyInv'
  OBVIOUS
<1>0. /\ BuddyTypeOK /\ BlocksApart
      /\ FreeBlocks \cap held = {} /\ OpBlocks \cap (FreeBlocks \cup held) = {}
  BY Zenon DEF BuddyInv, BlocksApart
<1>1. ASSUME NEW count, AllocTake(count) PROVE BuddyInv'
  <2>1. PICK b \in FreeBlocks :
          /\ OpBlocks = {} /\ OpBlocks' = {b} /\ held' = held
          /\ FreeBlocks' = FreeBlocks \ {b}
    BY <1>0, <1>1, TakeMoves, Zenon
  <2>2. Blocks' = Blocks
    BY <2>1, Zenon DEF Blocks
  <2>3. FreeBlocks' \cap held' = {} /\ OpBlocks' \cap (FreeBlocks' \cup held') = {}
    BY <1>0, <2>1, Zenon
  <2> QED
    BY <1>0, <1>1, <2>2, <2>3, SameBlocks, TakeMoves, Zenon DEF BuddyInv
<1>2. CASE AllocSplit
  <2>1. PICK f \in Nat, k \in Orders :
          /\ k > 0 /\ OpBlocks = {<<f, k>>} /\ OpBlocks' = {<<f, k - 1>>}
          /\ held' = held
          /\ FreeBlocks' = FreeBlocks \cup {<<f + Size[k - 1], k - 1>>}
    BY <1>0, <1>2, SplitMoves, Zenon
  <2> DEFINE lo == <<f, k - 1>>
             hi == <<f + Size[k - 1], k - 1>>
  <2>2. k - 1 \in Orders /\ Size[k - 1] \in Nat \ {0} /\ Size[k] = 2 * Size[k - 1]
    BY <2>1 DEF Orders
  <2>3. \A c \in FreeBlocks \cup held :
            c \in Nat \X Orders /\ Inside(c) /\ Apart(<<f, k>>, c) /\ c # <<f, k>>
    BY <1>0, <2>1, BlocksTyped, Zenon DEF BlocksApart, Blocks
  <2>4. \A c \in FreeBlocks \cup held : Apart(lo, c) /\ Apart(hi, c)
                                      /\ c # lo /\ c # hi
    <3> SUFFICES ASSUME NEW c \in FreeBlocks \cup held
                 PROVE  Apart(lo, c) /\ Apart(hi, c) /\ c # lo /\ c # hi
      OBVIOUS
    <3>1. c \in Nat \X Orders /\ Apart(<<f, k>>, c)
      BY <2>3, Zenon
    <3>2. Size[c[2]] \in Nat \ {0} /\ c[1] \in Nat
      BY <3>1, Zenon
    <3> QED
      BY <2>2, <3>1, <3>2 DEF Apart, Before
  <2>5. Inside(lo) /\ Inside(hi) /\ Apart(lo, hi) /\ Apart(hi, lo) /\ lo # hi
    <3>1. Inside(<<f, k>>)
      BY <1>0, <2>1, Zenon DEF BlocksApart
    <3>2. Size[TopOrder] \in Nat
      OBVIOUS
    <3> QED
      BY <2>2, <3>1, <3>2 DEF Inside, Apart, Before
  <2>6. \A b, c \in FreeBlocks \cup held : b = c \/ Apart(b, c)
    BY <1>0, Zenon DEF BlocksApart
  <2>7. \A b, c : Apart(b, c) => Apart(c, b)
    BY Zenon DEF Apart
  <2>8. FreeBlocks' \cup held' \cup OpBlocks' = FreeBlocks \cup held \cup {lo, hi}
    BY <2>1, Zenon
  <2>9. \A b, c \in FreeBlocks \cup held \cup {lo, hi} : b = c \/ Apart(b, c)
    <3> HIDE DEF lo, hi
    <3> QED
      BY <2>4, <2>5, <2>6, <2>7, Zenon
  <2>10. /\ \A b, c \in (FreeBlocks \cup held \cup OpBlocks)' : b = c \/ Apart(b, c)
         /\ \A b \in (FreeBlocks \cup held \cup OpBlocks)' : Inside(b)
    <3> HIDE DEF lo, hi
    <3> QED
      BY <2>3, <2>5, <2>8, <2>9, Zenon
  <2>11. FreeBlocks' \cap held' = {} /\ OpBlocks' \cap (FreeBlocks' \cup held') = {}
    <3>1. FreeBlocks' = FreeBlocks \cup {hi} /\ OpBlocks' = {lo} /\ held' = held
      BY <2>1, Zenon
    <3> HIDE DEF lo, hi
    <3> QED
      BY <1>0, <2>4, <2>5, <3>1, Zenon
  <2>12. BlocksApart'
    BY <2>10, <2>11, Zenon DEF BlocksApart, Apart, Before, Inside
  <2> QED
    BY <1>0, <1>2, <2>12, SplitMoves, Zenon DEF BuddyInv
<1>3. CASE AllocDone
  <2>1. PICK b \in Nat \X Orders :
          /\ OpBlocks = {b} /\ OpBlocks' = {}
          /\ held' = held \cup {b} /\ FreeBlocks' = FreeBlocks
    BY <1>0, <1>3, GrantMoves, Zenon
  <2>2. Blocks' = Blocks
    BY <2>1, Zenon DEF Blocks
  <2>3. FreeBlocks' \cap held' = {} /\ OpBlocks' \cap (FreeBlocks' \cup held') = {}
    BY <1>0, <2>1, Zenon
  <2> QED
    BY <1>0, <1>3, <2>2, <2>3, SameBlocks, GrantMoves, Zenon DEF BuddyInv
<1>4. ASSUME NEW b \in held, FreeBegin(b) PROVE BuddyInv'
  <2>1. /\ OpBlocks = {} /\ OpBlocks' = {b}
        /\ held' = held \ {b} /\ FreeBlocks' = FreeBlocks /\ BuddyTypeOK'
    BY <1>0, <1>4, ReturnMoves, Zenon
  <2>2. Blocks' = Blocks
    BY <2>1, b \in held, Zenon DEF Blocks
  <2>3. FreeBlocks' \cap held' = {} /\ OpBlocks' \cap (FreeBlocks' \cup held') = {}
    BY <1>0, <2>1, Zenon
  <2> QED
    BY <1>0, <2>1, <2>2, <2>3, SameBlocks, Zenon DEF BuddyInv
<1>5. CASE FreeMerge
  <2>1. PICK f \in Nat, g \in Nat, m \in Nat, k \in Orders :
          /\ k + 1 \in Orders /\ <<g, k>> \in FreeBlocks
          /\ \/ g = f + Size[k] /\ m = f
             \/ f = g + Size[k] /\ m = g
          /\ OpBlocks = {<<f, k>>} /\ OpBlocks' = {<<m, k + 1>>}
          /\ held' = held /\ FreeBlocks' = FreeBlocks \ {<<g, k>>}
    BY <1>0, <1>5, MergeMoves, Zenon
  <2> DEFINE new == <<m, k + 1>>
             rest == (FreeBlocks \ {<<g, k>>}) \cup held
  <2>2. Size[k] \in Nat \ {0} /\ Size[k + 1] = 2 * Size[k] /\ Size[TopOrder] \in Nat
    BY <2>1 DEF Orders
  <2>3. \A c \in rest : /\ c \in Nat \X Orders /\ Inside(c)
                        /\ Apart(<<f, k>>, c) /\ Apart(<<g, k>>, c)
    <3>1. \A c \in rest : c \in Blocks /\ c # <<f, k>> /\ c # <<g, k>>
      BY <1>0, <2>1, Zenon DEF Blocks
    <3>2. <<f, k>> \in Blocks /\ <<g, k>> \in Blocks
      BY <2>1, Zenon DEF Blocks
    <3> HIDE DEF rest
    <3> QED
      BY <1>0, <3>1, <3>2, BlocksTyped, Zenon DEF BlocksApart, Blocks
  <2>4. \A c \in rest : Apart(new, c) /\ Apart(c, new) /\ c # new
    <3> SUFFICES ASSUME NEW c \in rest PROVE Apart(new, c) /\ Apart(c, new) /\ c # new
      OBVIOUS
    <3>1. c \in Nat \X Orders /\ Apart(<<f, k>>, c) /\ Apart(<<g, k>>, c)
      BY <2>3, Zenon
    <3>2. Size[c[2]] \in Nat \ {0} /\ c[1] \in Nat
      BY <3>1, Zenon
    <3> HIDE DEF rest
    <3> QED
      BY <2>1, <2>2, <3>1, <3>2 DEF Apart, Before
  <2>5. Inside(new)
    <3>1. Inside(<<f, k>>) /\ Inside(<<g, k>>)
      BY <1>0, <2>1, Zenon DEF BlocksApart
    <3> QED
      BY <2>1, <2>2, <3>1 DEF Inside
  <2>6. \A b, c \in rest : b = c \/ Apart(b, c)
    BY <1>0, Zenon DEF BlocksApart
  <2>7. (FreeBlocks \cup held \cup OpBlocks)' = rest \cup {new}
    BY <2>1, Zenon
  <2>8. /\ \A b, c \in (FreeBlocks \cup held \cup OpBlocks)' : b = c \/ Apart(b, c)
        /\ \A b \in (FreeBlocks \cup held \cup OpBlocks)' : Inside(b)
    <3> HIDE DEF new, rest
    <3> QED
      BY <2>3, <2>4, <2>5, <2>6, <2>7, Zenon
  <2>9. FreeBlocks' \cap held' = {} /\ OpBlocks' \cap (FreeBlocks' \cup held') = {}
    <3>1. FreeBlocks' \cup held' = rest /\ OpBlocks' = {new}
      BY <2>1, Zenon
    <3>2. FreeBlocks' \cap held' = {}
      BY <1>0, <2>1, Zenon
    <3> HIDE DEF new, rest
    <3> QED
      BY <2>4, <3>1, <3>2, Zenon
  <2>10. BlocksApart'
    BY <2>8, <2>9, Zenon DEF BlocksApart, Apart, Before, Inside
  <2> QED
    BY <1>0, <1>5, <2>10, MergeMoves, Zenon DEF BuddyInv
<1>6. CASE FreeDone
  <2>1. /\ OpBlocks' = {} /\ held' = held /\ BuddyTypeOK'
        /\ FreeBlocks' = FreeBlocks \cup OpBlocks
    BY <1>0, <1>6, ReleaseMoves, Zenon
  <2>2. Blocks' = Blocks
    BY <2>1, Zenon DEF Blocks
  <2>3. FreeBlocks' \cap held' = {} /\ OpBlocks' \cap (FreeBlocks' \cup held') = {}
    BY <1>0, <2>1, Zenon
  <2> QED
    BY <1>0, <2>1, <2>2, <2>3, SameBlocks, Zenon DEF BuddyInv
<1>7. CASE UNCHANGED buddyVars
  BY <1>0, <1>7, Zenon DEF buddyVars, BuddyInv, BuddyTypeOK, BlocksApart, FreeBlocks,
     OpBlocks, Apart, Before, Inside
<1> QED
  BY <1>1, <1>2, <1>3, <1>4, <1>5, <1>6, <1>7, Zenon DEF BuddyNext

\* For every number of orders, every size of the range and every start frame,
\* aligned or not: no frame is ever in two blocks, free or handed out.
THEOREM BuddySafety == BuddySpec => []BlocksApart
<1>1. BuddySpec => []BuddyInv
  BY InitInv, NextInv, PTL DEF BuddySpec
<1>2. BuddyInv => BlocksApart
  BY Zenon DEF BuddyInv
<1> QED
  BY <1>1, <1>2, PTL
-----------------------------------------------------------------------------
(* The allocator implements the pool.                                      *)

\* A frame is free when a listed block or the block in hand covers it.
LEMMA FreeSetMember ==
    \A x : x \in FreeSet <=> \E b \in FreeBlocks \cup OpBlocks : x \in BlockFrames(b)
BY Zenon DEF FreeSet

\* The same in the next state.
LEMMA FreeSetMemberNext ==
    \A x : x \in FreeSet' <=> \E b \in FreeBlocks' \cup OpBlocks' : x \in BlockFrames(b)
BY Zenon DEF FreeSet, BlockFrames

\* Two halves make the whole block.
LEMMA Halves ==
    ASSUME NEW f \in Nat, NEW k \in Orders, k > 0
    PROVE  BlockFrames(<<f, k>>) =
               BlockFrames(<<f, k - 1>>) \cup BlockFrames(<<f + Size[k - 1], k - 1>>)
<1>1. Size[k - 1] \in Nat \ {0} /\ Size[k] = 2 * Size[k - 1]
  BY DEF Orders
<1> QED
  BY <1>1 DEF BlockFrames

\* Blocks that lie apart share no frame and are different runs.
LEMMA ApartFrames ==
    ASSUME NEW b \in Nat \X Orders, NEW c \in Nat \X Orders, Apart(b, c)
    PROVE  /\ BlockFrames(b) \cap BlockFrames(c) = {}
           /\ <<b[1], Size[b[2]]>> # <<c[1], Size[c[2]]>>
<1>1. /\ b[1] \in Nat /\ Size[b[2]] \in Nat \ {0}
      /\ c[1] \in Nat /\ Size[c[2]] \in Nat \ {0}
  OBVIOUS
<1>2. BlockFrames(b) \cap BlockFrames(c) = {}
  BY <1>1 DEF Apart, Before, BlockFrames
<1>3. b[1] # c[1]
  BY <1>1 DEF Apart, Before
<1> QED
  BY <1>2, <1>3, Zenon

Runs == {<<b[1], Size[b[2]]>> : b \in held}

RunOf(b) == <<b[1], Size[b[2]]>>

\* A block is a run of frames that the abstract pool may grant.
LEMMA RunOfBlock ==
    ASSUME NEW b \in Nat \X Orders, Inside(b)
    PROVE  /\ Pool!RunFrames(RunOf(b)) = BlockFrames(b)
           /\ b[1] \in Managed /\ Size[b[2]] \in {Size[k] : k \in Orders}
<1>1. b[1] \in Nat /\ Size[b[2]] \in Nat \ {0} /\ Size[TopOrder] \in Nat /\ b[2] \in Orders
  OBVIOUS
<1> QED
  BY <1>1 DEF Pool!RunFrames, RunOf, BlockFrames, Managed, Inside

\* Splits, merges and the end of free() change no free frame.
LEMMA QuietFrames ==
    ASSUME BuddyInv,
           \/ \E count : AllocTake(count)
           \/ AllocSplit \/ FreeMerge \/ FreeDone \/ UNCHANGED buddyVars
    PROVE  FreeSet' = FreeSet /\ held' = held
<1>0. BuddyTypeOK
  BY Zenon DEF BuddyInv
<1>1. ASSUME FreeBlocks' \cup OpBlocks' = FreeBlocks \cup OpBlocks, held' = held
      PROVE  FreeSet' = FreeSet /\ held' = held
  BY <1>1, FreeSetMember, FreeSetMemberNext, Zenon
<1>2. ASSUME NEW count, AllocTake(count) PROVE FreeSet' = FreeSet /\ held' = held
  <2>1. PICK b \in FreeBlocks :
          /\ OpBlocks = {} /\ OpBlocks' = {b} /\ held' = held
          /\ FreeBlocks' = FreeBlocks \ {b}
    BY <1>0, <1>2, TakeMoves, Zenon
  <2> QED
    BY <1>1, <2>1, Zenon
<1>3. CASE AllocSplit
  <2>1. PICK f \in Nat, k \in Orders :
          /\ k > 0 /\ OpBlocks = {<<f, k>>} /\ OpBlocks' = {<<f, k - 1>>}
          /\ held' = held
          /\ FreeBlocks' = FreeBlocks \cup {<<f + Size[k - 1], k - 1>>}
    BY <1>0, <1>3, SplitMoves, Zenon
  <2> DEFINE lo == <<f, k - 1>>
             hi == <<f + Size[k - 1], k - 1>>
             whole == <<f, k>>
  <2>2. BlockFrames(whole) = BlockFrames(lo) \cup BlockFrames(hi)
    BY <2>1, Halves, Zenon
  <2>3. /\ FreeBlocks \cup OpBlocks = FreeBlocks \cup {whole}
        /\ FreeBlocks' \cup OpBlocks' = FreeBlocks \cup {lo, hi}
    BY <2>1, Zenon
  <2> HIDE DEF lo, hi, whole
  <2>4. FreeSet' = FreeSet
    BY <2>2, <2>3, FreeSetMember, FreeSetMemberNext, Zenon
  <2> QED
    BY <2>1, <2>4, Zenon
<1>4. CASE FreeMerge
  <2>1. PICK f \in Nat, g \in Nat, m \in Nat, k \in Orders :
          /\ k + 1 \in Orders /\ <<g, k>> \in FreeBlocks
          /\ \/ g = f + Size[k] /\ m = f
             \/ f = g + Size[k] /\ m = g
          /\ OpBlocks = {<<f, k>>} /\ OpBlocks' = {<<m, k + 1>>}
          /\ held' = held /\ FreeBlocks' = FreeBlocks \ {<<g, k>>}
    BY <1>0, <1>4, MergeMoves, Zenon
  <2> DEFINE whole == <<m, k + 1>>
             one == <<f, k>>
             two == <<g, k>>
  <2>2. BlockFrames(whole) = BlockFrames(one) \cup BlockFrames(two)
    <3>1. k + 1 > 0 /\ (k + 1) - 1 = k
      BY <2>1 DEF Orders
    <3>2. BlockFrames(<<m, k + 1>>) =
              BlockFrames(<<m, k>>) \cup BlockFrames(<<m + Size[k], k>>)
      BY <2>1, <3>1, Halves, Zenon
    <3> QED
      BY <2>1, <3>2, Zenon
  <2>3. /\ FreeBlocks \cup OpBlocks = (FreeBlocks \ {two}) \cup {one, two}
        /\ FreeBlocks' \cup OpBlocks' = (FreeBlocks \ {two}) \cup {whole}
    BY <2>1, Zenon
  <2> HIDE DEF whole, one, two
  <2>4. FreeSet' = FreeSet
    BY <2>2, <2>3, FreeSetMember, FreeSetMemberNext, Zenon
  <2> QED
    BY <2>1, <2>4, Zenon
<1>5. CASE FreeDone
  <2>1. /\ OpBlocks' = {} /\ held' = held
        /\ FreeBlocks' = FreeBlocks \cup OpBlocks
    BY <1>0, <1>5, ReleaseMoves, Zenon
  <2> QED
    BY <1>1, <2>1, Zenon
<1>6. CASE UNCHANGED buddyVars
  <2>1. FreeBlocks' = FreeBlocks /\ OpBlocks' = OpBlocks /\ held' = held
    BY <1>6, Zenon DEF buddyVars, FreeBlocks, OpBlocks
  <2> QED
    BY <1>1, <2>1, Zenon
<1> QED
  BY <1>2, <1>3, <1>4, <1>5, <1>6, Zenon

\* The frames of a block that is granted are free until then.
LEMMA GrantFrames ==
    ASSUME BuddyInv, AllocDone
    PROVE  \E b \in Nat \X Orders :
              /\ Inside(b) /\ b[2] = op.want
              /\ FreeSet' = FreeSet \ BlockFrames(b) /\ BlockFrames(b) \subseteq FreeSet
              /\ held' = held \cup {b}
<1>0. /\ BuddyTypeOK /\ BlocksApart
      /\ FreeBlocks \cap held = {} /\ OpBlocks \cap (FreeBlocks \cup held) = {}
      /\ \A b, c \in Blocks : b = c \/ Apart(b, c)
      /\ \A b \in Blocks : b \in Nat \X Orders /\ Inside(b)
  BY BlocksTyped, Zenon DEF BuddyInv, BlocksApart, Blocks
<1>1. PICK b \in Nat \X Orders :
        /\ OpBlocks = {b} /\ OpBlocks' = {}
        /\ held' = held \cup {b} /\ FreeBlocks' = FreeBlocks
  BY <1>0, GrantMoves, Zenon
<1>2. b \in Blocks /\ Inside(b)
  BY <1>0, <1>1, Zenon DEF Blocks
<1>3. \A c \in FreeBlocks : BlockFrames(c) \cap BlockFrames(b) = {}
  <2> SUFFICES ASSUME NEW c \in FreeBlocks
               PROVE  BlockFrames(c) \cap BlockFrames(b) = {}
    OBVIOUS
  <2>1. c \in Blocks /\ c # b
    BY <1>0, <1>1, Zenon DEF Blocks
  <2> QED
    BY <1>0, <1>2, <2>1, ApartFrames, Zenon
<1>4. FreeSet' = FreeSet \ BlockFrames(b) /\ BlockFrames(b) \subseteq FreeSet
  BY <1>1, <1>3, FreeSetMember, FreeSetMemberNext, Zenon
<1>5. b[2] = op.want
  BY <1>1 DEF AllocDone, OpBlocks
<1> QED
  BY <1>1, <1>2, <1>4, <1>5, Zenon

\* The frames of a block that is returned are free at once.
LEMMA ReturnFrames ==
    ASSUME BuddyInv, NEW b \in held, FreeBegin(b)
    PROVE  /\ b \in Nat \X Orders /\ Inside(b)
           /\ FreeSet' = FreeSet \cup BlockFrames(b)
           /\ held' = held \ {b}
           /\ \A c \in held \ {b} : RunOf(c) # RunOf(b) /\ BlockFrames(b) \cap BlockFrames(c) = {}
<1>0. /\ BuddyTypeOK /\ BlocksApart
      /\ \A d, c \in Blocks : d = c \/ Apart(d, c)
      /\ \A d \in Blocks : d \in Nat \X Orders /\ Inside(d)
  BY BlocksTyped, Zenon DEF BuddyInv, BlocksApart, Blocks
<1>1. /\ OpBlocks = {} /\ OpBlocks' = {b}
      /\ held' = held \ {b} /\ FreeBlocks' = FreeBlocks
  BY <1>0, ReturnMoves, Zenon
<1>2. b \in Nat \X Orders /\ Inside(b) /\ held \subseteq Blocks
  BY <1>0, Zenon DEF Blocks
<1>3. FreeSet' = FreeSet \cup BlockFrames(b)
  BY <1>1, FreeSetMember, FreeSetMemberNext, Zenon
<1>4. \A c \in held \ {b} : RunOf(c) # RunOf(b) /\ BlockFrames(b) \cap BlockFrames(c) = {}
  BY <1>0, <1>2, ApartFrames, Zenon DEF RunOf
<1> QED
  BY <1>1, <1>2, <1>3, <1>4, Zenon

\* Every step of the allocator is a grant, a reclaim or a stutter of the
\* pool.
LEMMA StepRefines ==
    BuddyInv /\ [BuddyNext]_buddyVars => [Pool!PoolNext]_(Pool!poolVars)
<1> SUFFICES ASSUME BuddyInv, [BuddyNext]_buddyVars
             PROVE  Pool!PoolNext \/ (FreeSet' = FreeSet /\ Runs' = Runs)
  BY Zenon DEF Pool!poolVars, Runs
<1>1. CASE (\E count : AllocTake(count)) \/ AllocSplit \/ FreeMerge \/ FreeDone \/ UNCHANGED buddyVars
  BY <1>1, QuietFrames, Zenon DEF Runs
<1>2. CASE AllocDone
  <2>1. PICK b \in Nat \X Orders :
          /\ Inside(b)
          /\ FreeSet' = FreeSet \ BlockFrames(b) /\ BlockFrames(b) \subseteq FreeSet
          /\ held' = held \cup {b}
    BY <1>2, GrantFrames, Zenon
  <2>2. Runs' = Runs \cup {RunOf(b)}
    BY <2>1, Zenon DEF Runs, RunOf
  <2>3. Pool!Grant(RunOf(b))
    BY <2>1, <2>2, RunOfBlock, Zenon DEF Pool!Grant, Runs
  <2> QED
    BY <2>1, <2>3, RunOfBlock, Zenon DEF Pool!PoolNext, RunOf
<1>3. ASSUME NEW b \in held, FreeBegin(b) PROVE Pool!PoolNext
  <2>1. /\ b \in Nat \X Orders /\ Inside(b)
        /\ FreeSet' = FreeSet \cup BlockFrames(b)
        /\ held' = held \ {b}
        /\ \A c \in held \ {b} : RunOf(c) # RunOf(b)
    BY <1>3, ReturnFrames, Zenon
  <2>2. Runs' = Runs \ {RunOf(b)} /\ RunOf(b) \in Runs
    <3>1. Runs = {RunOf(c) : c \in held} /\ Runs' = {RunOf(c) : c \in held \ {b}}
      BY <2>1, Zenon DEF Runs, RunOf
    <3> QED
      BY <2>1, <3>1
  <2>3. Pool!Reclaim(RunOf(b))
    BY <2>1, <2>2, RunOfBlock, Zenon DEF Pool!Reclaim, Runs
  <2> QED
    BY <2>1, <2>3, RunOfBlock, Zenon DEF Pool!PoolNext, RunOf
<1> QED
  BY <1>1, <1>2, <1>3, Zenon DEF BuddyNext

\* The allocator starts with every frame free, as the pool does.
LEMMA InitRefines == BuddyInit => Pool!PoolInit
<1> SUFFICES ASSUME BuddyInit PROVE Pool!PoolInit
  OBVIOUS
<1>1. free_lists \in Lists
  BY Zenon DEF BuddyInit, Lists
<1>2. \A b : b \in FreeBlocks <=> b = <<Start, TopOrder>>
  <2>1. \A b \in Nat \X Orders :
              b[1] \in free_lists[b[2]] <=> b = <<Start, TopOrder>>
    BY DEF BuddyInit
  <2> QED
    BY <1>1, <2>1, BlockMember, Zenon DEF FreeBlocks
<1>3. OpBlocks = {} /\ held = {}
  BY Zenon DEF BuddyInit, OpBlocks, Idle
<1>4. FreeSet = Managed
  <2>1. FreeBlocks \cup OpBlocks = {<<Start, TopOrder>>}
    BY <1>2, <1>3, Zenon
  <2>2. BlockFrames(<<Start, TopOrder>>) = Managed
    BY Zenon DEF BlockFrames, Managed
  <2> QED
    BY <2>1, <2>2, FreeSetMember, Zenon
<1> QED
  BY <1>3, <1>4, Zenon DEF Pool!PoolInit

\* allocate() and free() of the buddy allocator implement the abstract pool:
\* only free runs are handed out, and a returned run is free again at once.
THEOREM BuddyRefinesPool == BuddySpec => ImplementsPool
<1>1. BuddySpec => []BuddyInv
  BY InitInv, NextInv, PTL DEF BuddySpec
<1> QED
  BY <1>1, InitRefines, StepRefines, PTL DEF BuddySpec, ImplementsPool, Pool!PoolSpec

-----------------------------------------------------------------------------
(* Every frame is accounted for.                                           *)

\* Frames of the block being released that free_frames does not count yet.
Uncounted == IF op.kind = "free" THEN Size[op.want] ELSE 0

AccountInv ==
    /\ BuddyInv
    /\ FreeSet = Managed \ HeldSet
    /\ free_frames + Uncounted = Cardinality(FreeSet)

\* The managed range is finite.
LEMMA ManagedFinite == IsFiniteSet(Managed)
<1>1. Start \in Int /\ Start + Size[TopOrder] - 1 \in Int
  OBVIOUS
<1> QED
  BY <1>1, FS_Interval, Zenon DEF Managed

\* A block of order k has Size[k] frames.
LEMMA BlockSize ==
    ASSUME NEW b \in Nat \X Orders
    PROVE  /\ IsFiniteSet(BlockFrames(b)) /\ Cardinality(BlockFrames(b)) = Size[b[2]]
           /\ Inside(b) => BlockFrames(b) \subseteq Managed
<1> DEFINE lo == b[1]
           hi == b[1] + Size[b[2]] - 1
<1>1. lo \in Int /\ hi \in Int /\ lo <= hi /\ hi - lo + 1 = Size[b[2]]
  <2>1. b[1] \in Nat /\ Size[b[2]] \in Nat \ {0}
    OBVIOUS
  <2> QED
    BY <2>1
<1>2. BlockFrames(b) = lo .. hi
  BY Zenon DEF BlockFrames
<1> HIDE DEF lo, hi
<1>3. IsFiniteSet(lo .. hi) /\ Cardinality(lo .. hi) = IF lo > hi THEN 0 ELSE hi - lo + 1
  BY <1>1, FS_Interval, Zenon
<1>4. (IF lo > hi THEN 0 ELSE hi - lo + 1) = Size[b[2]]
  BY <1>1
<1>5. Inside(b) => BlockFrames(b) \subseteq Managed
  <2>1. b[1] \in Nat /\ Size[b[2]] \in Nat \ {0} /\ Size[TopOrder] \in Nat
    OBVIOUS
  <2> QED
    BY <2>1 DEF Inside, BlockFrames, Managed
<1> QED
  BY <1>2, <1>3, <1>4, <1>5, Zenon

\* A frame is held when a held block covers it, in this state and the next.
LEMMA HeldSetMember ==
    /\ \A x : x \in HeldSet <=> \E b \in held : x \in BlockFrames(b)
    /\ \A x : x \in HeldSet' <=> \E b \in held' : x \in BlockFrames(b)
BY Zenon DEF HeldSet, BlockFrames

\* At the start every frame is free and counted.
LEMMA AccountInit == BuddyInit => AccountInv
<1> SUFFICES ASSUME BuddyInit PROVE AccountInv
  OBVIOUS
<1>1. FreeSet = Managed
  BY InitRefines, Zenon DEF Pool!PoolInit
<1>2. HeldSet = {} /\ Uncounted = 0 /\ free_frames = Size[TopOrder]
  BY Zenon DEF BuddyInit, HeldSet, Uncounted, Idle
<1>3. <<Start, TopOrder>> \in Nat \X Orders /\ BlockFrames(<<Start, TopOrder>>) = Managed
      /\ <<Start, TopOrder>>[2] = TopOrder
  BY Zenon DEF BlockFrames, Managed
<1>4. Cardinality(Managed) = Size[TopOrder]
  BY <1>3, BlockSize, Zenon
<1>5. free_frames + Uncounted = Cardinality(FreeSet)
  <2>1. Size[TopOrder] \in Nat
    OBVIOUS
  <2> QED
    BY <1>1, <1>2, <1>4, <2>1
<1>6. FreeSet = Managed \ HeldSet
  BY <1>1, <1>2, Zenon
<1> QED
  BY <1>5, <1>6, InitInv, Zenon DEF AccountInv

\* The counter, in the steps that change no free frame.
LEMMA QuietCounter ==
    ASSUME BuddyTypeOK,
           \/ \E count : AllocTake(count)
           \/ AllocSplit \/ FreeMerge \/ FreeDone \/ UNCHANGED buddyVars
    PROVE  free_frames' + Uncounted' = free_frames + Uncounted
<1>1. free_frames \in Int /\ op.want \in Orders /\ Size[op.want] \in Nat
  BY Zenon DEF BuddyTypeOK
<1>2. CASE \E count : AllocTake(count)
  BY <1>2 DEF AllocTake, Call, Uncounted
<1>3. CASE AllocSplit
  <2>1. op.kind = "alloc" /\ op'.kind = "alloc" /\ free_frames' = free_frames
    BY <1>3, Zenon DEF AllocSplit, Split, BuddyTypeOK
  <2> QED
    BY <2>1, Zenon DEF Uncounted
<1>4. CASE FreeMerge
  <2>1. op.kind = "free" /\ op'.kind = "free" /\ op'.want = op.want /\ free_frames' = free_frames
    BY <1>4, Zenon DEF FreeMerge, Merge, BuddyTypeOK
  <2> QED
    BY <2>1, Zenon DEF Uncounted
<1>5. CASE FreeDone
  <2>1. op.kind = "free" /\ op'.kind = "idle" /\ free_frames' = free_frames + Size[op.want]
    BY <1>5, Zenon DEF FreeDone, Release, Idle
  <2> QED
    BY <1>1, <2>1 DEF Uncounted
<1>6. CASE UNCHANGED buddyVars
  BY <1>6, Zenon DEF buddyVars, Uncounted
<1> QED
  BY <1>2, <1>3, <1>4, <1>5, <1>6, Zenon

\* No step of a call loses a frame or miscounts one.
LEMMA AccountNext == AccountInv /\ [BuddyNext]_buddyVars => AccountInv'
<1> SUFFICES ASSUME AccountInv, [BuddyNext]_buddyVars PROVE AccountInv'
  OBVIOUS
<1>0. BuddyInv /\ BuddyInv' /\ BuddyTypeOK
  BY NextInv, Zenon DEF AccountInv, BuddyInv
<1>f. IsFiniteSet(FreeSet) /\ Cardinality(FreeSet) \in Nat /\ FreeSet \subseteq Managed
  <2>1. FreeSet \subseteq Managed
    BY Zenon DEF AccountInv
  <2> QED
    BY <2>1, ManagedFinite, FS_Subset, FS_CardinalityType, Zenon
<1>1. CASE (\E count : AllocTake(count)) \/ AllocSplit \/ FreeMerge \/ FreeDone \/ UNCHANGED buddyVars
  <2>1. FreeSet' = FreeSet /\ held' = held
    BY <1>0, <1>1, QuietFrames, Zenon
  <2>2. HeldSet' = HeldSet
    BY <2>1, HeldSetMember, Zenon
  <2>3. free_frames' + Uncounted' = free_frames + Uncounted
    BY <1>0, <1>1, QuietCounter, Zenon
  <2>4. FreeSet' = Managed' \ HeldSet'
    BY <2>1, <2>2, Zenon DEF AccountInv, Managed
  <2>5. free_frames' + Uncounted' = Cardinality(FreeSet')
    BY <2>1, <2>3, Zenon DEF AccountInv
  <2> QED
    BY <1>0, <2>4, <2>5, Zenon DEF AccountInv
<1>2. CASE AllocDone
  <2>1. PICK b \in Nat \X Orders :
          /\ Inside(b) /\ b[2] = op.want
          /\ FreeSet' = FreeSet \ BlockFrames(b) /\ BlockFrames(b) \subseteq FreeSet
          /\ held' = held \cup {b}
    BY <1>0, <1>2, GrantFrames, Zenon
  <2>2. HeldSet' = HeldSet \cup BlockFrames(b)
    BY <2>1, HeldSetMember, Zenon
  <2>3. FreeSet' = Managed' \ HeldSet'
    BY <2>1, <2>2, Zenon DEF AccountInv, Managed
  <2> DEFINE B == BlockFrames(b)
  <2>4. Cardinality(B) = Size[op.want] /\ FreeSet \cap B = B /\ FreeSet' = FreeSet \ B
    BY <2>1, BlockSize, Zenon
  <2> HIDE DEF B
  <2>5. Cardinality(FreeSet \ B) = Cardinality(FreeSet) - Cardinality(FreeSet \cap B)
    BY <1>f, FS_Difference, Zenon
  <2>6. op.kind = "alloc" /\ op'.kind = "idle" /\ free_frames' = free_frames - Size[op.want]
    BY <1>2, Zenon DEF AllocDone, Idle
  <2>7. Uncounted = 0 /\ Uncounted' = 0
    BY <2>6, Zenon DEF Uncounted
  <2> DEFINE n == Cardinality(FreeSet)
             s == Size[op.want]
             c == free_frames
  <2>8. n \in Nat /\ s \in Nat /\ c \in Int /\ c + 0 = n
    <3>1. Size[op.want] \in Nat /\ free_frames \in Int
      BY <1>0, Zenon DEF BuddyTypeOK
    <3>2. free_frames + Uncounted = Cardinality(FreeSet)
      BY Zenon DEF AccountInv
    <3> QED
      BY <1>f, <2>7, <3>1, <3>2, Zenon
  <2>9. Cardinality(FreeSet') = n - s /\ free_frames' = c - s
    BY <2>4, <2>5, <2>6, Zenon
  <2> HIDE DEF n, s, c
  <2>10. free_frames' + 0 = Cardinality(FreeSet')
    BY <2>8, <2>9
  <2> QED
    BY <1>0, <2>3, <2>7, <2>10, Zenon DEF AccountInv
<1>3. ASSUME NEW b \in held, FreeBegin(b) PROVE AccountInv'
  <2>1. /\ b \in Nat \X Orders /\ Inside(b)
        /\ FreeSet' = FreeSet \cup BlockFrames(b)
        /\ held' = held \ {b}
        /\ \A c \in held \ {b} : BlockFrames(b) \cap BlockFrames(c) = {}
    BY <1>0, <1>3, ReturnFrames, Zenon
  <2> DEFINE B == BlockFrames(b)
  <2>2. HeldSet' = HeldSet \ B /\ B \subseteq HeldSet
    BY <2>1, HeldSetMember, Zenon
  <2>3. B \subseteq Managed /\ IsFiniteSet(B) /\ Cardinality(B) = Size[b[2]] /\ FreeSet' = FreeSet \cup B
    BY <2>1, BlockSize, Zenon
  <2> HIDE DEF B
  <2>4. FreeSet' = Managed' \ HeldSet'
    BY <2>2, <2>3, Zenon DEF AccountInv, Managed
  <2>5. FreeSet \cap B = {}
    BY <2>2, Zenon DEF AccountInv
  <2>6. Cardinality(FreeSet \cup B) = Cardinality(FreeSet) + Cardinality(B) - Cardinality(FreeSet \cap B)
    BY <1>f, <2>3, FS_Union, Zenon
  <2>7. op.kind = "idle" /\ op'.kind = "free" /\ op'.want = b[2] /\ free_frames' = free_frames
    BY <1>3, Zenon DEF FreeBegin, Call
  <2>8. Uncounted = 0 /\ Uncounted' = Size[b[2]]
    BY <2>7, Zenon DEF Uncounted
  <2> DEFINE n == Cardinality(FreeSet)
             s == Size[b[2]]
             c == free_frames
  <2>9. n \in Nat /\ s \in Nat /\ c \in Int /\ c + 0 = n
    <3>1. Size[b[2]] \in Nat /\ free_frames \in Int
      BY <1>0, <2>1, Zenon DEF BuddyTypeOK
    <3>2. free_frames + Uncounted = Cardinality(FreeSet)
      BY Zenon DEF AccountInv
    <3> QED
      BY <1>f, <2>8, <3>1, <3>2, Zenon
  <2>10. Cardinality({}) = 0
    BY FS_EmptySet, Zenon
  <2>11. Cardinality(FreeSet') = n + s - 0 /\ free_frames' = c /\ Uncounted' = s
    BY <2>3, <2>5, <2>6, <2>7, <2>8, <2>10, Zenon
  <2> HIDE DEF n, s, c
  <2>12. c + s = n + s - 0
    BY <2>9
  <2>13. free_frames' + Uncounted' = Cardinality(FreeSet')
    BY <2>11, <2>12, Zenon
  <2> QED
    BY <1>0, <2>4, <2>13, Zenon DEF AccountInv
<1> QED
  BY <1>1, <1>2, <1>3, Zenon DEF BuddyNext

\* get_stats() is exact between calls, for every range and every order of
\* requests: the counter equals the free frames, and every managed frame is
\* free or handed out, never both and never neither.
THEOREM BuddyAccounts == BuddySpec => []FramesAccounted
<1>1. AccountInv => FramesAccounted
  <2> SUFFICES ASSUME AccountInv, op.kind = "idle"
               PROVE  free_frames = Cardinality(FreeSet) /\ FreeSet = Managed \ HeldSet
    BY Zenon DEF FramesAccounted
  <2>1. free_frames + 0 = Cardinality(FreeSet) /\ free_frames \in Int
    BY Zenon DEF AccountInv, Uncounted, BuddyInv, BuddyTypeOK
  <2>2. free_frames + 0 = free_frames
    BY <2>1
  <2> QED
    BY <2>1, <2>2, Zenon DEF AccountInv
<1> QED
  BY <1>1, AccountInit, AccountNext, PTL DEF BuddySpec

-----------------------------------------------------------------------------
(* Buddies are merged.                                                     *)

\* Multiplication by a block size is strictly monotone.
LEMMA Products ==
    ASSUME NEW x \in Int, NEW y \in Int, NEW s \in Nat \ {0}, x < y
    PROVE  x * s + s <= y * s
<1>1. PICK d \in Nat : y - x = d + 1
  <2>1. y - x - 1 \in Nat /\ y - x = (y - x - 1) + 1
    OBVIOUS
  <2> QED
    BY <2>1, Zenon
<1>2. (d + 1) * s = d * s + s /\ d * s >= 0
  OBVIOUS
<1>3. (y - x) * s = y * s - x * s
  OBVIOUS
<1> QED
  BY <1>1, <1>2, <1>3

\* Division finds the quotient a number is built from.
LEMMA Quotient ==
    ASSUME NEW q \in Int, NEW s \in Nat \ {0}, NEW r \in 0 .. (s - 1),
           NEW f \in Nat, f = q * s + r
    PROVE  f \div s = q
<1> DEFINE d == f \div s
           e == f % s
<1>1. d \in Int /\ e \in 0 .. (s - 1) /\ f = s * d + e
  OBVIOUS
<1> HIDE DEF d, e
<1>2. s * d = d * s /\ d * s \in Int /\ q * s \in Int
  BY <1>1
<1>3. /\ q < d => q * s + s <= d * s
      /\ d < q => d * s + s <= q * s
  BY <1>1, Products
<1>4. q = d
  BY <1>1, <1>2, <1>3
<1> QED
  BY <1>4, Zenon DEF d

\* A block is not its own buddy, and is the buddy of its buddy, wherever it
\* starts.
LEMMA BuddyBack ==
    ASSUME NEW k \in Orders, NEW f \in Nat
    PROVE  Buddy(Buddy(f, k), k) = f /\ Buddy(f, k) # f
<1> DEFINE s == Size[k]
           q == f \div s
           r == f % s
           g == Buddy(f, k)
<1>1. s \in Nat \ {0}
  OBVIOUS
<1>2. g = IF q % 2 = 0 THEN f + s ELSE f - s
  BY Zenon DEF Buddy
<1>3. Buddy(g, k) = IF (g \div s) % 2 = 0 THEN g + s ELSE g - s
  BY Zenon DEF Buddy
<1> HIDE DEF g, s
<1>4. q \in Nat /\ r \in 0 .. (s - 1) /\ f = q * s + r
  BY <1>1
<1> HIDE DEF q, r
<1>5. CASE q % 2 = 0
  <2>1. g = f + s /\ g \in Nat
    BY <1>1, <1>2, <1>5
  <2>2. g = (q + 1) * s + r /\ q + 1 \in Int
    BY <1>1, <1>4, <2>1
  <2>3. g \div s = q + 1
    BY <1>1, <1>4, <2>1, <2>2, Quotient, Zenon
  <2>4. (q + 1) % 2 # 0
    BY <1>4, <1>5
  <2>5. Buddy(g, k) = g - s
    BY <1>3, <2>3, <2>4, Zenon
  <2>6. Buddy(g, k) = f /\ g # f
    BY <1>1, <2>1, <2>5
  <2> QED
    BY <2>6, Zenon DEF g
<1>6. CASE q % 2 # 0
  <2>0. q >= 1 /\ q - 1 \in Nat
    BY <1>4, <1>6
  <2>1. g = f - s
    BY <1>2, <1>6, Zenon
  <2>2. g = (q - 1) * s + r /\ (q - 1) * s \in Nat
    BY <1>1, <1>4, <2>0, <2>1
  <2>3. g \in Nat /\ q - 1 \in Int
    BY <1>4, <2>0, <2>2
  <2>4. g \div s = q - 1
    BY <1>1, <1>4, <2>2, <2>3, Quotient, Zenon
  <2>5. (q - 1) % 2 = 0
    BY <1>4, <1>6
  <2>6. Buddy(g, k) = g + s
    BY <1>3, <2>4, <2>5, Zenon
  <2>7. Buddy(g, k) = f /\ g # f
    BY <1>1, <2>1, <2>3, <2>6
  <2> QED
    BY <2>7, Zenon DEF g
<1> QED
  BY <1>5, <1>6, Zenon

\* While a block is split, the lists it has yet to fill are empty.
Gap ==
    op.kind = "alloc" =>
        /\ op.want <= op.order
        /\ \A j \in Orders : op.want <= j /\ j < op.order => free_lists[j] = {}

MergeInv == BuddyInv /\ NoPairLeft /\ Gap

\* A range starts as one block, with no pair of buddies to merge.
LEMMA MergeInit == BuddyInit => MergeInv
<1> SUFFICES ASSUME BuddyInit PROVE MergeInv
  OBVIOUS
<1>1. \A k \in Orders : free_lists[k] = IF k = TopOrder THEN {Start} ELSE {}
  BY Zenon DEF BuddyInit
<1>2. op.kind = "idle"
  BY Zenon DEF BuddyInit, Idle
<1>3. Buddy(Start, TopOrder) # Start
  BY BuddyBack, Zenon
<1>4. NoPairLeft
  BY <1>1, <1>3, Zenon DEF NoPairLeft
<1>5. Gap
  BY <1>2, Zenon DEF Gap
<1> QED
  BY <1>4, <1>5, InitInv, Zenon DEF MergeInv

\* Taking the block of the least order that fits leaves the lists below it
\* empty and no pair of buddies free.
LEMMA TakeMerges ==
    ASSUME MergeInv, BuddyInv', NEW count, AllocTake(count)
    PROVE  MergeInv'
<1>0. PICK want \in Orders, k \in Orders : \E f \in free_lists[k] :
          /\ want <= k /\ \A j \in Orders : want <= j /\ j < k => free_lists[j] = {}
          /\ free_lists' = [free_lists EXCEPT ![k] = @ \ {f}]
          /\ op' = Call("alloc", f, k, want)
  BY Zenon DEF AllocTake
<1>1. PICK f \in free_lists[k] :
          /\ free_lists' = [free_lists EXCEPT ![k] = @ \ {f}]
          /\ op' = Call("alloc", f, k, want)
  BY <1>0, Zenon
<1>2. free_lists \in Lists
  BY TypeLists, Zenon DEF MergeInv, BuddyInv
<1>3. \A j \in Orders : free_lists'[j] \subseteq free_lists[j]
  BY <1>1, <1>2, Zenon DEF Lists
<1>4. op'.order = k /\ op'.want = want
  BY <1>1, Zenon DEF Call
<1>5. Gap'
  <2>1. \A j \in Orders : want <= j /\ j < k => free_lists'[j] = {}
    BY <1>0, <1>3, Zenon
  <2> QED
    BY <1>0, <1>4, <2>1, Zenon DEF Gap
<1>6. NoPairLeft'
  <2>1. NoPairLeft
    BY Zenon DEF MergeInv
  <2> QED
    BY <1>3, <2>1, Zenon DEF NoPairLeft
<1> QED
  BY <1>5, <1>6, Zenon DEF MergeInv

\* A split lists the upper half where the list was empty, while its buddy
\* stays in hand.
LEMMA SplitMerges ==
    ASSUME MergeInv, BuddyInv', AllocSplit
    PROVE  MergeInv'
<1> DEFINE f == op.frame
           k == op.order
           u == f + Size[k - 1]
           w == op.want
<1>0. BuddyTypeOK /\ free_lists \in Lists /\ NoPairLeft /\ Gap
  BY TypeLists, Zenon DEF MergeInv, BuddyInv
<1>1. /\ op.kind = "alloc" /\ k > op.want
      /\ free_lists' = [free_lists EXCEPT ![k - 1] = @ \cup {u}]
      /\ op' = [op EXCEPT !.order = @ - 1]
  BY Zenon DEF AllocSplit, Split
<1>2. f \in Nat /\ k \in Orders /\ k > 0 /\ k - 1 \in Orders /\ op.want \in Orders /\ op.want <= k - 1
  BY <1>0, <1>1 DEF BuddyTypeOK, Orders
<1>3. op'.kind = "alloc" /\ op'.order = k - 1 /\ op'.want = op.want
  BY <1>0, <1>1, Zenon DEF BuddyTypeOK
<1>4. u \in Nat
  BY <1>2
<1>5. Buddy(u, k - 1) # u
  <2> HIDE DEF u
  <2> QED
    BY <1>2, <1>4, BuddyBack, Zenon
<1>7. free_lists[k - 1] = {} /\ \A j \in Orders : w <= j /\ j < k - 1 => free_lists[j] = {}
  <2>1. \A j \in Orders : w <= j /\ j < k => free_lists[j] = {}
    BY <1>0, <1>1, Zenon DEF Gap
  <2>2. w \in Int /\ k \in Int /\ w <= k - 1 /\ Orders \subseteq Int
    BY <1>2 DEF Orders
  <2> HIDE DEF w, k
  <2>3. k - 1 < k /\ \A j \in Orders : j < k - 1 => j < k
    BY <2>2
  <2> QED
    BY <1>2, <2>1, <2>2, <2>3, Zenon
<1> HIDE DEF f, u, k, w
<1>8. \A j \in Orders : free_lists'[j] = IF j = k - 1 THEN {u} ELSE free_lists[j]
  BY <1>0, <1>1, <1>2, <1>7, Zenon DEF Lists
<1>9. Gap'
  <2>1. op'.want = w /\ op'.want <= op'.order
    BY <1>2, <1>3, Zenon DEF w
  <2>2. \A j \in Orders : j < k - 1 => j # k - 1
    BY <1>2 DEF Orders
  <2>3. \A j \in Orders : w <= j /\ j < k - 1 => free_lists'[j] = {}
    BY <1>7, <1>8, <2>2, Zenon
  <2> QED
    BY <1>3, <2>1, <2>3, Zenon DEF Gap
<1>10. NoPairLeft'
  BY <1>0, <1>5, <1>8, Zenon DEF NoPairLeft
<1> QED
  BY <1>9, <1>10, Zenon DEF MergeInv

\* Granting a block and taking one back list nothing.
LEMMA QuietMerges ==
    ASSUME MergeInv, BuddyInv', free_lists' = free_lists, op'.kind # "alloc"
    PROVE  MergeInv'
BY Zenon DEF MergeInv, NoPairLeft, Gap

\* A merge takes one of two buddies off its list.
LEMMA MergeMerges ==
    ASSUME MergeInv, BuddyInv', FreeMerge
    PROVE  MergeInv'
<1> DEFINE k == op.order
           g == Buddy(op.frame, op.order)
<1>0. BuddyTypeOK /\ free_lists \in Lists /\ NoPairLeft
  BY TypeLists, Zenon DEF MergeInv, BuddyInv
<1>1. /\ op.kind = "free"
      /\ free_lists' = [free_lists EXCEPT ![k] = @ \ {g}]
      /\ op'.kind = op.kind
  BY <1>0, Zenon DEF FreeMerge, Merge, CanMerge, BuddyTypeOK
<1>2. k \in Orders
  BY <1>0, Zenon DEF BuddyTypeOK
<1> HIDE DEF g, k
<1>3. \A j \in Orders : free_lists'[j] \subseteq free_lists[j]
  BY <1>0, <1>1, Zenon DEF Lists
<1>4. Gap'
  BY <1>1, Zenon DEF Gap
<1>5. NoPairLeft'
  BY <1>0, <1>3, Zenon DEF NoPairLeft
<1> QED
  BY <1>4, <1>5, Zenon DEF MergeInv

\* The block is listed only when its buddy is not, so no pair of buddies
\* appears.
LEMMA ReleaseMerges ==
    ASSUME MergeInv, BuddyInv', FreeDone
    PROVE  MergeInv'
<1> DEFINE f == op.frame
           k == op.order
           g == Buddy(op.frame, op.order)
<1>0. BuddyTypeOK /\ free_lists \in Lists /\ NoPairLeft
  BY TypeLists, Zenon DEF MergeInv, BuddyInv
<1>1. /\ op.kind = "free" /\ (k < MaxOrder => g \notin free_lists[k])
      /\ free_lists' = [free_lists EXCEPT ![k] = @ \cup {f}]
      /\ op'.kind = "idle"
  BY Zenon DEF FreeDone, Release, CanMerge, Idle
<1>2. k \in Orders /\ f \in Nat
  BY <1>0, Zenon DEF BuddyTypeOK
<1>4. g # f /\ g = Buddy(f, k)
  BY <1>2, BuddyBack, Zenon
<1> HIDE DEF f, g, k
<1>5. \A h \in free_lists[k] : Buddy(Buddy(h, k), k) = h
  BY <1>0, <1>2, BuddyBack, Zenon DEF Lists
<1>6. \A h \in free_lists[k] : Buddy(h, k) = f => h = g
  BY <1>4, <1>5, Zenon
<1>7. \A j \in Orders : free_lists'[j] = IF j = k THEN free_lists[k] \cup {f} ELSE free_lists[j]
  BY <1>0, <1>1, <1>2, Zenon DEF Lists
<1>8. NoPairLeft'
  <2> SUFFICES ASSUME NEW j \in Orders, j < MaxOrder, NEW h \in free_lists'[j],
                      Buddy(h, j) \in free_lists'[j]
               PROVE  FALSE
    BY Zenon DEF NoPairLeft
  <2>1. CASE j # k
    BY <1>0, <1>7, <2>1, Zenon DEF NoPairLeft
  <2>2. CASE j = k
    <3>1. h \in free_lists[k] \cup {f} /\ Buddy(h, k) \in free_lists[k] \cup {f}
          /\ g \notin free_lists[k]
      BY <1>1, <1>7, <2>2, Zenon
    <3>2. h \in free_lists[k] => Buddy(h, k) \notin free_lists[k]
      BY <1>0, <1>2, <2>2, Zenon DEF NoPairLeft
    <3> QED
      BY <1>4, <1>6, <3>1, <3>2, Zenon
  <2> QED
    BY <2>1, <2>2, Zenon
<1>9. Gap'
  BY <1>1, Zenon DEF Gap
<1> QED
  BY <1>8, <1>9, Zenon DEF MergeInv

\* Every step keeps buddies merged.
LEMMA MergeNext == MergeInv /\ [BuddyNext]_buddyVars => MergeInv'
<1> SUFFICES ASSUME MergeInv, [BuddyNext]_buddyVars PROVE MergeInv'
  OBVIOUS
<1>1. BuddyInv'
  BY NextInv, Zenon DEF MergeInv
<1>2. CASE UNCHANGED buddyVars
  BY <1>1, <1>2, Zenon DEF buddyVars, MergeInv, NoPairLeft, Gap
<1>3. CASE BuddyNext
  <2>1. ASSUME AllocDone PROVE free_lists' = free_lists /\ op'.kind # "alloc"
    BY <2>1, Zenon DEF AllocDone, Idle
  <2>2. ASSUME NEW b \in held, FreeBegin(b)
        PROVE  free_lists' = free_lists /\ op'.kind # "alloc"
    BY <2>2, Zenon DEF FreeBegin, Call
  <2> QED
    BY <1>1, <1>3, <2>1, <2>2, TakeMerges, SplitMerges, QuietMerges, MergeMerges,
       ReleaseMerges, Zenon DEF BuddyNext
<1> QED
  BY <1>2, <1>3, Zenon

\* Whatever the start of the range and the order of the calls, no free list
\* ever holds two blocks that free() would merge.
THEOREM BuddyPairsMerged == BuddySpec => []NoPairLeft
<1>1. MergeInv => NoPairLeft
  BY Zenon DEF MergeInv
<1> QED
  BY <1>1, MergeInit, MergeNext, PTL DEF BuddySpec
=============================================================================
