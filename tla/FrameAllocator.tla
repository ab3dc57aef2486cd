--------------------------- MODULE FrameAllocator ---------------------------
(***************************************************************************)
(* FrameAllocator of kernel/src/mm/frame_allocator.rs on one NUMA node: a  *)
(* bitmap for the first frames of the node, the buddy allocator for the    *)
(* rest, the per-CPU page caches in front of both, and the guard of        *)
(* kernel/src/raii.rs that returns frames one at a time.                   *)
(*                                                                         *)
(* Every operation runs under the lock of FRAME_ALLOCATOR (a cache         *)
(* operation also under that of PER_CPU_PAGE_CACHES), so it is one step.   *)
(* The buddy allocator appears as the pool BuddyAllocator is proved to     *)
(* implement; unlike the pool, its free() tests nothing.  No caller ever   *)
(* registers a reserved region, so is_reserved() is constantly false.      *)
(***************************************************************************)
EXTENDS Integers, Sequences, FiniteSets, FiniteSetsExt, SequencesExt

CONSTANTS
    Start,              \* start_frame of the node
    FrameCount,         \* frame_count of the node
    BitmapBits,         \* bits of the bitmap array (2048 * 64)
    Threshold,          \* BITMAP_BUDDY_THRESHOLD
    Counts,             \* the counts callers ask for
    Cpus, CAPACITY, HIGH_WATERMARK, BATCH_SIZE

Lesser(a, b) == IF a < b THEN a ELSE b

\* init_numa_node(): the bitmap takes as many frames as it has bits, and the
\* buddy allocator the rest, rounded down to a power of two.
BitmapFrames == Lesser(FrameCount, BitmapBits)
BuddyFrames == LET rest == FrameCount - BitmapFrames
               IN IF rest = 0 THEN 0 ELSE Max({2^k : k \in {j \in 0..8 : 2^j <= rest}})

BitmapRange == Start .. (Start + BitmapFrames - 1)
BuddyRange == (Start + BitmapFrames) .. (Start + BitmapFrames + BuddyFrames - 1)
Managed == BitmapRange \cup BuddyRange

ASSUME FrameAssumption == Start \in Nat /\ FrameCount \in Nat \ {0} /\ BitmapBits \in Nat
                          /\ HIGH_WATERMARK < CAPACITY /\ BATCH_SIZE \in 1..CAPACITY

VARIABLES
    global,     \* [bits: frames whose bit is 1, free: the bitmap's counter,
                \*  pool: frames free in the buddy allocator]
    cache,      \* cache[c]: the frames cached by CPU c, a stack
    owned,      \* runs in the hands of callers: <<first frame, count>>
    pinned      \* frames mark_frame_used() took at boot

vars == <<global, cache, owned, pinned>>

Run(f, n) == f .. (f + n - 1)

\* BitmapAllocator::new() sets every bit of the array.
NewNode ==
    [bits |-> Run(Start, BitmapBits), free |-> BitmapFrames, pool |-> BuddyRange]

Init ==
    /\ global = NewNode
    /\ cache = [c \in Cpus |-> <<>>]
    /\ owned = {} /\ pinned = {}

-----------------------------------------------------------------------------
(* Allocation.                                                             *)

RoundUp(n) == Min({2^k : k \in {j \in 0..8 : n <= 2^j}})

\* What a run holds: the buddy allocator hands out a power of two.
RunFrames(r) == Run(r[1], IF r[1] < Start + BitmapBits THEN r[2] ELSE RoundUp(r[2]))

Fits(n) == {f \in global.bits : Run(f, n) \subseteq global.bits}

\* The bitmap's first fit, if it has one.
BitmapTake(n, f) ==
    /\ n < Threshold /\ Fits(n) # {} /\ f = Min(Fits(n))
    /\ global' = [global EXCEPT !.bits = @ \ Run(f, n), !.free = @ - n]

\* The buddy allocator, for a large request or when the bitmap has no fit.
BuddyTake(n, f) ==
    /\ n >= Threshold \/ Fits(n) = {}
    /\ Run(f, RoundUp(n)) \subseteq global.pool
    /\ global' = [global EXCEPT !.pool = @ \ Run(f, RoundUp(n))]

allocate_frames(n) ==
    /\ \E f \in global.bits \cup global.pool :
         /\ BitmapTake(n, f) \/ BuddyTake(n, f)
         /\ owned' = owned \cup {<<f, n>>}
    /\ UNCHANGED <<cache, pinned>>

\* mark_frame_used(): boot page tables, before anything is allocated.
mark_frame_used(f) ==
    /\ owned = {} /\ \A c \in Cpus : cache[c] = <<>>
    /\ f \in BitmapRange \cap global.bits
    /\ global' = [global EXCEPT !.bits = @ \ {f}, !.free = @ - 1]
    /\ pinned' = pinned \cup {f}
    /\ UNCHANGED <<cache, owned>>

-----------------------------------------------------------------------------
(* Release.                                                                *)

\* BitmapAllocator::free() sets bits up to the first that is already set.
SetBits(g, f, n, counted) ==
    LET bad == Run(f, n) \cap g.bits
        set == IF bad = {} THEN Run(f, n) ELSE f .. (Min(bad) - 1)
    IN [g EXCEPT !.bits = @ \cup set, !.free = @ + (IF bad = {} THEN counted ELSE 0)]

BitmapFree_CountsOne(g, f, n) == SetBits(g, f, n, 1)

BitmapFree(g, f, n) == SetBits(g, f, n, n)

InBitmap_OffByOne(f, n) == f - Start + n <= BitmapFrames + 1

InBitmap(f, n) == f - Start + n <= BitmapFrames

\* free_frames(): the bitmap first; what it refuses goes to the buddy
\* allocator, which takes the count rounded up.
Returned(g, f, n) ==
    LET h == IF InBitmap(f, n) THEN BitmapFree(g, f, n) ELSE g
    IN IF InBitmap(f, n) /\ Run(f, n) \cap g.bits = {} THEN h
       ELSE [h EXCEPT !.pool = @ \cup Run(f, RoundUp(n))]

free_frames(r) ==
    /\ r \in owned
    /\ global' = Returned(global, r[1], r[2])
    /\ owned' = owned \ {r}
    /\ UNCHANGED <<cache, pinned>>

ReturnOne(g, f) == Returned(g, f, 1)

\* FramesGuard::drop(): each frame of the run by itself.
DropGuard(r) ==
    /\ r \in owned
    /\ global' = FoldLeft(ReturnOne, global, [i \in 1..r[2] |-> r[1] + i - 1])
    /\ owned' = owned \ {r}
    /\ UNCHANGED <<cache, pinned>>
-----------------------------------------------------------------------------
(* Per-CPU page caches.                                                    *)

\* batch_refill() of an empty cache: the frames of BATCH_SIZE allocations of
\* one frame, the bitmap's lowest first, in the order they are stacked.
Lowest(k) == {f \in global.bits : Cardinality({g \in global.bits : g < f}) < k}

Refills ==
    LET low == Lowest(BATCH_SIZE)
        more == Lesser(BATCH_SIZE - Cardinality(low), Cardinality(global.pool))
    IN {SetToSortSeq(low, <) \o p :
            p \in UNION {SetToSeqs(T) : T \in kSubset(more, global.pool)}}

\* per_cpu_alloc_frame().  When the refill brings nothing, the caller turns to
\* allocate_frames(1), which is that action.
per_cpu_alloc_frame(c) ==
    \E q \in IF cache[c] # <<>> THEN {cache[c]} ELSE Refills :
        /\ q # <<>>
        /\ cache' = [cache EXCEPT ![c] = Front(q)]
        /\ owned' = owned \cup {<<Last(q), 1>>}
        /\ LET got == IF cache[c] # <<>> THEN {} ELSE Range(q)
           IN global' = [global EXCEPT
                  !.bits = @ \ got, !.pool = @ \ got,
                  !.free = @ - Cardinality(got \cap global.bits)]
        /\ UNCHANGED pinned

Keep(s) == SubSeq(s, 1, Len(s) - Lesser(BATCH_SIZE, Len(s)))

\* batch_drain(): the frames of the stack above the kept ones, topmost first.
DrainFrom(g, s, bottom) == FoldLeft(ReturnOne, g, Reverse(SubSeq(s, bottom, Len(s))))

Drained_OneFewer(g, s) == DrainFrom(g, s, Len(Keep(s)) + 2)

Drained(g, s) == DrainFrom(g, s, Len(Keep(s)) + 1)

\* per_cpu_free_frame(): stack the frame, and drain above the high watermark;
\* a full cache is drained first.
PutBack(c, f, high, pop) ==
    LET full == Len(cache[c]) >= CAPACITY
        s == IF full THEN cache[c] ELSE Append(cache[c], f)
        drain == full \/ Len(s) > high
    IN /\ <<f, 1>> \in owned
       /\ owned' = owned \ {<<f, 1>>}
       /\ cache' = [cache EXCEPT ![c] =
              IF drain THEN (IF pop THEN Keep(s) ELSE s) \o (IF full THEN <<f>> ELSE <<>>)
              ELSE s]
       /\ global' = IF drain THEN Drained(global, s) ELSE global
       /\ UNCHANGED pinned

per_cpu_free_frame_NotPopped(c, f) == PutBack(c, f, HIGH_WATERMARK, FALSE)

per_cpu_free_frame_DrainsWhenFull(c, f) == PutBack(c, f, CAPACITY, TRUE)

per_cpu_free_frame(c, f) == PutBack(c, f, HIGH_WATERMARK, TRUE)

-----------------------------------------------------------------------------
Next ==
    \/ \E n \in Counts : allocate_frames(n)
    \/ \E f \in Managed : mark_frame_used(f)
    \/ \E r \in owned : free_frames(r) \/ DropGuard(r)
    \/ \E c \in Cpus : per_cpu_alloc_frame(c)
    \/ \E c \in Cpus, r \in owned : per_cpu_free_frame(c, r[1])

Spec == Init /\ [][Next]_vars

-----------------------------------------------------------------------------
(* Properties.                                                             *)

\* The type invariant of the allocator: every free, cached or owned frame is
\* one of the node's.
TypeOK ==
    /\ global \in [bits : SUBSET Run(Start, BitmapBits), free : Int,
                   pool : SUBSET BuddyRange]
    /\ cache \in [Cpus -> Seq(Managed)]
    /\ owned \subseteq Managed \X Counts
    /\ pinned \subseteq BitmapRange

Cached == UNION {Range(cache[c]) : c \in Cpus}

Everywhere == global.bits \cup global.pool \cup Cached \cup pinned
              \cup UNION {RunFrames(r) : r \in owned}

\* A frame is in one place only: free in the bitmap, free in the buddy
\* allocator, in one CPU's cache once, or in one caller's hands.
OneOwner ==
    Cardinality(Everywhere) =
        Cardinality(global.bits) + Cardinality(global.pool) + Cardinality(pinned)
        + MapThenSumSet(LAMBDA c : Len(cache[c]), Cpus)
        + MapThenSumSet(LAMBDA r : Cardinality(RunFrames(r)), owned)

\* No refill, drain, fallback or release loses a frame of the node.
NoFrameLost == Managed \subseteq Everywhere

\* The bitmap's free_frames counter, which get_stats() reports, is the number
\* of its free frames.
CounterExact == global.free = Cardinality(global.bits \cap BitmapRange)

\* A cache never stays above the high watermark, so that the branch for a full
\* cache of per_cpu_free_frame() is never taken.
CacheBounded == \A c \in Cpus : Len(cache[c]) <= HIGH_WATERMARK
=============================================================================
