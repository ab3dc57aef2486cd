--------------------------- MODULE BuddyAllocator ---------------------------
(***************************************************************************)
(* BuddyAllocator of kernel/src/mm/frame_allocator.rs: free lists of       *)
(* blocks of 2^order frames, split on allocation and merged on release.    *)
(*                                                                         *)
(* Every call runs under the lock of the global FRAME_ALLOCATOR, so one    *)
(* call is in progress at a time; each iteration of its splitting or       *)
(* merging loop is a step.  A free list is the set of its blocks: the      *)
(* order of the list only decides which block a call takes, and the model  *)
(* lets it take any.                                                       *)
(***************************************************************************)
EXTENDS Integers, FiniteSets

CONSTANTS
    MaxOrder,       \* the last index of free_lists
    TopOrder,       \* total_frames = Size[TopOrder]
    Start,          \* start_frame
    Size            \* Size[k] = 1 << k, the frames of a block of order k

Orders == 0 .. MaxOrder

ASSUME BuddyAssumption ==
    /\ MaxOrder \in Nat /\ TopOrder \in Orders /\ Start \in Nat
    /\ Size \in [Orders -> Nat \ {0}]
    /\ \A k \in Orders : k > 0 => Size[k] = 2 * Size[k - 1]

VARIABLES
    free_lists,     \* free_lists[k]: first frames of the free blocks of order k
    held,           \* blocks handed out: pairs <<first frame, order>>
    op,             \* the call in progress
    free_frames     \* the counter free_frames

buddyVars == <<free_lists, held, op, free_frames>>

Idle == [kind |-> "idle", frame |-> 0, order |-> 0, want |-> 0]
Call(kind, f, k, want) == [kind |-> kind, frame |-> f, order |-> k, want |-> want]

\* The type invariant of free_lists, the blocks handed out and the call in
\* progress.
BuddyTypeOK ==
    /\ free_lists \in [Orders -> SUBSET Nat]
    /\ held \in SUBSET (Nat \X Orders)
    /\ op \in [kind : {"idle", "alloc", "free"}, frame : Nat, order : Orders,
               want : Orders]
    /\ free_frames \in Int

\* new(): one block of all the frames.
BuddyInit ==
    /\ free_lists = [k \in Orders |-> IF k = TopOrder THEN {Start} ELSE {}]
    /\ held = {}
    /\ op = Idle
    /\ free_frames = Size[TopOrder]

\* get_order(): k is the order of the next power of two.
IsOrder(k, count) == count <= Size[k] /\ \A j \in Orders : j < k => Size[j] < count

\* current_frame ^ (1 << order)
Buddy(f, k) == IF (f \div Size[k]) % 2 = 0 THEN f + Size[k] ELSE f - Size[k]

-----------------------------------------------------------------------------
(* allocate()                                                              *)

\* The first non-empty list at or above the wanted order gives up a block.
AllocTake(count) ==
    /\ op.kind = "idle"
    /\ \E want, k \in Orders : \E f \in free_lists[k] :
         /\ IsOrder(want, count) /\ want <= k
         /\ \A j \in Orders : want <= j /\ j < k => free_lists[j] = {}
         /\ free_lists' = [free_lists EXCEPT ![k] = @ \ {f}]
         /\ op' = Call("alloc", f, k, want)
    /\ UNCHANGED <<held, free_frames>>

\* The upper half of the block goes to the list of the next lower order.
Split(more, upper) ==
    /\ op.kind = "alloc" /\ more
    /\ free_lists' = [free_lists EXCEPT ![op.order - 1] = @ \cup {upper}]
    /\ op' = [op EXCEPT !.order = @ - 1]
    /\ UNCHANGED <<held, free_frames>>

AllocSplit_WrongHalf == Split(op.order > op.want, op.frame)

AllocSplit == Split(op.order > op.want, op.frame + Size[op.order - 1])

AllocDone ==
    /\ op.kind = "alloc" /\ op.order = op.want
    /\ held' = held \cup {<<op.frame, op.want>>}
    /\ free_frames' = free_frames - Size[op.want]
    /\ op' = Idle
    /\ UNCHANGED free_lists

-----------------------------------------------------------------------------
(* free(): the caller returns a block with the count it asked for.         *)

FreeBegin(b) ==
    /\ op.kind = "idle" /\ b \in held
    /\ held' = held \ {b}
    /\ op' = Call("free", b[1], b[2], b[2])
    /\ UNCHANGED <<free_lists, free_frames>>

CanMerge == op.order < MaxOrder
            /\ Buddy(op.frame, op.order) \in free_lists[op.order]

Merge(buddy, first) ==
    /\ op.kind = "free" /\ CanMerge
    /\ free_lists' = [free_lists EXCEPT ![op.order] = @ \ {buddy}]
    /\ op' = [op EXCEPT !.frame = first, !.order = @ + 1]
    /\ UNCHANGED <<held, free_frames>>

FreeMerge_KeepsFrame == Merge(Buddy(op.frame, op.order), op.frame)

FreeMerge ==
    LET buddy == Buddy(op.frame, op.order)
    IN Merge(buddy, IF op.frame <= buddy THEN op.frame ELSE buddy)

Release(cond, counted) ==
    /\ op.kind = "free" /\ cond
    /\ free_lists' = [free_lists EXCEPT ![op.order] = @ \cup {op.frame}]
    /\ free_frames' = free_frames + Size[counted]
    /\ op' = Idle
    /\ UNCHANGED held

FreeDone_MergedCount == Release(~CanMerge, op.order)

FreeDone_NoMerge == Release(TRUE, op.want)

FreeDone == Release(~CanMerge, op.want)

-----------------------------------------------------------------------------
BuddyNext ==
    \/ \E count \in 1 .. Size[MaxOrder] : AllocTake(count)
    \/ AllocSplit \/ AllocDone
    \/ \E b \in held : FreeBegin(b)
    \/ FreeMerge \/ FreeDone

BuddySpec == BuddyInit /\ [][BuddyNext]_buddyVars

-----------------------------------------------------------------------------
(* Properties.                                                             *)

Managed == Start .. (Start + Size[TopOrder] - 1)

BlockFrames(b) == b[1] .. (b[1] + Size[b[2]] - 1)

BlocksOf(lists) == UNION {lists[k] \X {k} : k \in Orders}

FreeBlocks == BlocksOf(free_lists)

\* The block a call in progress works on is in no list.
OpBlocks == IF op.kind = "idle" THEN {} ELSE {<<op.frame, op.order>>}

Before(b, c) == b[1] + Size[b[2]] <= c[1]

Apart(b, c) == Before(b, c) \/ Before(c, b)

Inside(b) == Start <= b[1] /\ b[1] + Size[b[2]] <= Start + Size[TopOrder]

\* No frame is in two blocks, be they free, handed out or in the middle of a
\* split or a merge, and none lies outside the managed range: two callers are
\* never given the same frame (allocate(), free()), whatever start_frame is.
BlocksApart ==
    /\ \A b, c \in FreeBlocks \cup held \cup OpBlocks : b = c \/ Apart(b, c)
    /\ FreeBlocks \cap held = {} /\ OpBlocks \cap (FreeBlocks \cup held) = {}
    /\ \A b \in FreeBlocks \cup held \cup OpBlocks : Inside(b)

FreeSet == UNION {BlockFrames(b) : b \in FreeBlocks \cup OpBlocks}

HeldSet == UNION {BlockFrames(b) : b \in held}

\* Between calls the counter equals the frames in the lists, and every managed
\* frame is in a list or handed out: no split, merge or release leaks a frame
\* or counts it twice (the get_stats() figures).
FramesAccounted ==
    op.kind = "idle" => /\ free_frames = Cardinality(FreeSet)
                        /\ FreeSet = Managed \ HeldSet

\* No list holds a block together with the block free() would merge it with:
\* whatever was split has been joined again wherever the exclusive-or rule
\* allows it.  free() looks for the buddy of the block it returns only, so this
\* also needs allocate() to split a block just when the lists it fills are
\* empty.  It holds for every start_frame.
NoPairLeft ==
    \A k \in Orders : k < MaxOrder =>
        \A f \in free_lists[k] : Buddy(f, k) \notin free_lists[k]

\* Once every block has been returned, the blocks have merged back into the
\* one block new() made.  This needs a start_frame that is a multiple of the
\* size of the range, which init_numa_node() does not ask for.
MergesBack ==
    op.kind = "idle" /\ held = {} => free_lists[TopOrder] = {Start}

Pool == INSTANCE FramePool WITH
    Frames <- Managed, Lengths <- {Size[k] : k \in Orders},
    pool <- FreeSet,
    runs <- {<<b[1], Size[b[2]]>> : b \in held}

\* The allocator implements the pool: a request is granted when its last split
\* is done, a return is taken when free() starts, and splitting and merging
\* change nothing a caller can see.
ImplementsPool == Pool!PoolSpec
=============================================================================
