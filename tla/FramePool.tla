----------------------------- MODULE FramePool -----------------------------
(***************************************************************************)
(* What a physical frame allocator promises: it hands out runs of frames   *)
(* that are free, and takes back the runs it handed out.                   *)
(***************************************************************************)
EXTENDS Integers

CONSTANTS
    Frames,              \* the frame numbers the pool manages
    Lengths              \* the lengths a run can have

VARIABLES
    pool,                \* frames that are free
    runs                 \* runs handed out: pairs <<first frame, length>>

poolVars == <<pool, runs>>

RunFrames(r) == r[1] .. (r[1] + r[2] - 1)

PoolInit == pool = Frames /\ runs = {}

Grant(r) ==
    /\ RunFrames(r) \subseteq pool
    /\ pool' = pool \ RunFrames(r)
    /\ runs' = runs \cup {r}

Reclaim(r) ==
    /\ r \in runs
    /\ pool' = pool \cup RunFrames(r)
    /\ runs' = runs \ {r}

PoolNext == \E f \in Frames, n \in Lengths : Grant(<<f, n>>) \/ Reclaim(<<f, n>>)

PoolSpec == PoolInit /\ [][PoolNext]_poolVars
=============================================================================
