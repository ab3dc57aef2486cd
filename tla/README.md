# Verification of VeridianOS

TLA+ models of the VeridianOS microkernel (`src/kernel/src`), the TLC configurations that
check them on small instances, and TLAPS proofs of the properties that matter most. Paths
below are relative to `src/kernel/src/` unless they begin with `src/`.

## The system and what is modelled

VeridianOS is a capability-based microkernel in Rust. Processes hold *capabilities* in a
per-process table; they exchange messages through *endpoints* and *asynchronous channels*;
their threads synchronise with *futexes*; physical memory comes from a *frame allocator*
with per-CPU caches; a *scheduler* runs tasks and keeps the blocked ones in wait queues.
Open files sit in per-process *descriptor tables*, among them the ends of *pipes*; *BlockFS*
keeps files on disk; *RCU* lets kernel code read shared structures without locks.

| Part | Source | Module | Proofs |
|---|---|---|---|
| Capability table of a process | `cap/space.rs`, `cap/inheritance.rs` | `CapSpace` | `CapProofs` |
| Capability manager, transfer, fork, exit | `cap/manager.rs`, `ipc/cap_transfer.rs`, `syscall/process.rs`, `process/exit.rs` | `CapManager` | `CapProofs` |
| IPC endpoint with blocking and waking | `ipc/channel.rs`, `sched/ipc_blocking.rs` | `Endpoint` | `EndpointProofs` |
| Asynchronous channel | `ipc/async_channel.rs` | `AsyncRing` | `AsyncRingProofs` |
| Futexes | `syscall/futex.rs` | `Futex` | `FutexProofs` |
| Frame pool, what an allocator promises | (abstract) | `FramePool` | |
| Buddy allocator | `mm/frame_allocator.rs` | `BuddyAllocator` | `BuddyProofs` |
| Frame allocator, per-CPU caches, guards | `mm/frame_allocator.rs`, `raii.rs` | `FrameAllocator` | |
| Descriptor tables, pipes and their system calls | `fs/file.rs`, `fs/pipe.rs`, `syscall/filesystem.rs`, `process/fork.rs`, `process/exit.rs` | `PipeFiles` | `PipeFilesProofs` |
| BlockFS with sync, crash and mount | `fs/blockfs.rs` | `BlockFs` | `BlockFsProofs` |
| Read-copy-update | `sync/rcu.rs` | `Rcu` | `RcuProofs` |

The rest of the repository, and why it is not modelled, is in the component list of
`PROJECT.json` and summarised under *Not modelled* below.

How the modelled parts interact:

- `CapManager` uses `CapSpace` for what each method does to a table and adds the registry,
  the locks and the processes. A capability travels with an IPC message; the endpoint that
  carries the message is not part of that model, and messages of `Endpoint` carry none.
- `FrameAllocator` sees the buddy allocator as the pool that `BuddyAllocator` is proved to
  implement (`ImplementsPool`), not as free lists.
- `Endpoint` and `Futex` take the scheduler at its contract: a task that was put into a
  ready queue runs again. The scheduler itself is not modelled; *Not modelled* says where the
  code in `sched/` falls short of that contract.
- `fork` and `exit` appear in `CapManager` with what they do to capabilities and in `PipeFiles`
  with what they do to descriptors. The two tables share no state, so the models are separate.
- `PipeFiles` treats every file as a pipe end; files of `BlockFs` would be entries of the same
  table whose closing has no effect on the pipes.

The `MC*` modules give the constants that a `.cfg` cannot express, and the symmetry sets.
Operators marked `Variant` (and those with a suffix such as `_OffByOne`) are altered forms
of the definition that follows them; each breaks one property, which shows that the
property depends on that line of the code. They are no part of any specification.

## The models

### AsyncRing

State: the three counters `size`, `write_pos`, `read_pos`, the slots, the `active` flag and,
per thread, the place in its call. Each atomic access of `push()` and `pop()` is an action
(`PushLoadSize`, `PushReserve`, `PushPublish`; `PopLoadSize`, `PopTake`, `PopClaim`). The
message itself is copied by plain `ptr::write` and `ptr::read`: `PushWrite` and `PopRead` copy
one word each, in any order, so a read that overlaps a write returns a mixture. `SendAsync`, `ReceiveAsync` and `Close` are the channel's operations.
A weak compare-exchange may fail although nothing moved. Memory is sequentially consistent
in the model; effects of weaker orderings are out of its scope. `accepted` and `received`
are histories. The positions are unbounded here; in the code they wrap after 2^64 messages.

### FramePool, BuddyAllocator

Every call runs under the lock of the global allocator, so one call is in progress at a
time, and each iteration of the splitting or merging loop is a step. A free list is the set
of its blocks; the order of the list only decides which block a call takes, and the model
takes any. `Start` is any frame number: buddies are found by exclusive-or on frame numbers, and
the model has what that does on a range that starts at no multiple of its size. `Size[k]` is a constant function with `Size[k] = 2 * Size[k-1]`, so that the
provers need no exponentiation. `FramePool` is the promise: hand out free runs, take back
runs that were handed out.

### FrameAllocator

One NUMA node: bitmap, buddy pool, per-CPU caches, callers' runs, frames marked at boot.
Each public operation holds its locks throughout and is one action: `allocate_frames` (bitmap
first fit below the threshold, else or on failure the buddy pool), `free_frames` (falls
through from the bitmap to the buddy pool), `mark_frame_used`, `per_cpu_alloc_frame` with its
batch refill, `per_cpu_free_frame` with its batch drain, and `DropGuard`, the destructor of
`FramesGuard`. Left out: the choice between several nodes, zones, reserved regions (nothing
ever registers one) and statistics.

### CapSpace, CapManager

`CapSpace` gives each method of `CapabilitySpace` as a function on a space: lookup by whole
token, insert with quota and occupied-slot tests, remove (which empties the slot *before* it
compares tokens), clone for fork, inherit. The counter `used` wraps like a `usize`.
`CapManager` adds the registry and the operations: create (allocate id, register, insert),
check (space, then registry), the system calls that look only into the caller's table
(`TableCheck`), transfer and share (validity, lock of the target, delegate,
insert), revoke, remove, the guard of `CapabilityGuard`, process creation, fork (clone, lock parent and child,
inherit), exit and reap. An operation holds the mutex of its process's space throughout and
takes the registry lock for each access, so steps of other processes fall in between.
`minted`, `late` and `cloned` only observe.

Assumptions: the mutex of a space serialises the operations of its process; `Reap` does not
happen while an operation has the process at hand; ids are not recycled, because `delete`
has no caller; `global_generation` never changes in the code and is constant here; `exec`
leaves the space as it is.

### Endpoint

The queue, the list of waiting receivers and the flag are under separate locks, so an
operation is one action per lock section: `SendSync`, `SendPop`, `SendDirect` or
`SendChecked`; `SendAsync`, `AsyncPush`, `AsyncPop`; `Wake`; `ReceiveSync`, `RecvCheck`,
`Register`, `Block`, `RecvAgain`; `TryReceive`, `TryPop`; `Close` and its four parts.
`StrayWake` stands for every other way a blocked process is made ready: a wake by process id
from an exiting child, a fast-path send, or a second entry in a ready queue. In the tree,
`Channel` and the registry use `send_async` and `try_receive`; `send_sync`, `receive_sync`
and `close` are public operations of the same type. `ipc/message_passing.rs` has a different
type of the same name, which is not this one. Nothing ever adds to `waiting_senders`.

### Futex

State: the words, the queue of each word (`table`), how often each thread is in a ready
queue, and each thread's place in its call. `WaitCheck` (compare), `WaitPush` (enqueue and
block), `Resume`, `WaitOk` and `WaitGiveUp` (timeout or signal) are `sys_futex_wait`; `Take`
under the table lock and `Deliver`, one thread at a time under the scheduler lock, are the
wake; `OpRead`, `OpWrite` and `WakeInside` are `FUTEX_WAKE_OP`; `Requeue` is
`FUTEX_REQUEUE`; `Exit` clears the thread's clear-tid word and wakes one waiter on it. `Store` is user code. The queue is sorted
by priority as the code sorts it. There is no clock: a deadline that has passed is one of the
ways to return after a wake. `missed` only observes. A wake by process id reaches the main
thread only, which is `StrayWake`.

### PipeFiles

State: for each process its slot vector `files` and the number `next_fd` that the next appended
slot is given (two fields of `FileTable` that can disagree), the hand-kept `refcount` of each
file, and for each pipe the buffer and the two flags `read_closed` and `write_closed` that the
destructors of its ends set. The system calls run under the lock of the caller's table and are
one action each: `Pipe2`, `Close`, `Dup`, `DupAtLeast` (`F_DUPFD`), `DupTo` (`dup2` and `dup3`),
`SetCloexec`, `Exec`, `Fork`, `Exit`, `Read`, `Write`; `ForkFails` is a fork that gives up after
the table was copied. An end of a pipe is dropped when no table holds it any more: `AllHeld` is
the set of files with a reference, and `Drop` sets the flag of an end that leaves this set, as
the last `Arc` does in the code. `refcount` decides nothing of this; it is kept beside the `Arc`
as `file.rs` keeps it. Bytes are numbered in the order in which writers were told they were
accepted; `sent`, `got` and `eof` are histories of that.

### BlockFs

State: the in-memory filesystem `mem` (inode table, bitmap, the two free counters, block cache,
dirty set), the device `disk`, and the progress of a sync. Each method of `BlockFsInner` is an
operator from an image to an image, with its failure paths: a write that finds the disk full
after it has attached an indirect block keeps that block, a creation that fails half way rolls
back what the code rolls back and no more. All calls hold the one lock, so a call is a step; a
crash can fall between any two device writes, so `sync_to_disk` is a step per data block and one
each for clearing the dirty set, superblock, bitmap and inode table. Any device write may fail and
leave a part of itself on the device (`SyncFail`, `PartlyWritten`). `Reboot` is a crash and the
mount after it.

A block is an array of words: a block pointer, the first word of a directory entry, padding, or
a piece of file data. Blocks keep their words when they are freed and allocated again, and file
data may look like a directory entry (`Lookalikes`): such words parse as one when their block
becomes part of a directory, and entries found that way are looked up, unlinked and counted like
any other. Pointers are taken not to parse. Nodes that callers hold (`held`) carry an inode number
and nothing else, files, directories and symlinks alike: a node of a deleted file goes on to act
on whatever the inode has become, a directory can be written and truncated, and a file can be the
parent of a creation. Sizes are cast to `u32` as in `write_inode` and `truncate_inode`, so a write
or truncation at 2^32 makes a file short.

`Link`, with a target on the same filesystem, is modelled as what it does: it takes the write lock
and then waits for the read lock of the same `RwLock`, so the filesystem hangs (`mode = "hung"`)
until a reboot. With a target of another filesystem (`LinkForeign`) it adds a name for whatever
inode has that number here. After a crash inside a sync the metadata and the blocks on disk may
disagree in any way; the code has no recovery pass and the model stops there (`mode = "torn"`).
`written`, `snap`, `torn` and `clobbered` only observe: `clobbered` says that a directory holds
words that no directory operation stored, by a write or truncation through its node or by a block
that came with old words.

### Rcu

Each atomic access is a step: the two loads per CPU of the scan in `synchronize_rcu`, the load
and the store of `rcu_quiescent`, the computation of the grace period in `call_rcu` and the push
under the lock, and each turn of `process_callbacks`, with the lock dropped around a callback and
`swap_remove` moving the last entry into the gap. The client is the one the header of the file
describes: a shared pointer, readers that follow it inside a section, writers that replace it and
dispose of the old version by `synchronize_rcu` or `call_rcu`. A section ends on the CPU it began
on, and no section begins on a CPU between the load and the store of its `rcu_quiescent`. Memory
is sequentially consistent. `owed` only observes: the callbacks that were queued when a
`synchronize_rcu` began.


## The runs

Passing runs check invariants and properties on every reachable state of the instance. The type
invariants of `AsyncRing`, `BuddyAllocator`, `CapManager`, `Endpoint`, `Futex` and `Rcu` are conjuncts of the
inductive invariants that are proved, and the runs do not repeat them.

| Run | Instance | What it shows |
|---|---|---|
| `ring_spsc` | one producer, one consumer, 2 slots, 5 messages of 2 words | The counters agree at every point between their separate updates, no unwritten word is read, a word that is read is at most one lap off, and a polling consumer receives as many messages as were accepted. |
| `buddy_range` | 8 frames starting at frame 6, orders 0 to 4 | Blocks never overlap, every frame is accounted for, no two buddies stay unmerged in a list, and the allocator implements `FramePool`. |
| `frames_node` | 7 frames (3 bitmap, 4 buddy), 2 CPUs, counts 1, 2, 4 | A frame is in one place only and none is lost through fallback, refill, drain, release and boot-time marking; the bitmap's counter is exact; caches stay within the watermark. |
| `cap_pair` | 2 processes, 2 ids, 2 rights, 2 + 1 slots, quota 1 | Entries stay backed by the registry, rights never grow, what asks the registry refuses a capability revoked before, the counter of a table that no fork filled covers its entries within the quota, and no revocation is taken back, in every interleaving. |
| `endpoint_queue` | 3 processes, 5 messages, capacity 1, 1 stray wake | First in, first out under all interleavings, and the queue exceeds its capacity by a bounded amount only. |
| `futex_table` | 3 threads, 2 words, 1 stray wake | No sleeping thread is dropped by wakes, requeues, timeouts and exits of others, and no wait is woken twice. |
| `pipe_hangup` | 2 processes, 1 pipe of 2 bytes, tables of 2 descriptors and a slot past them, 3 bytes sent | Bytes come out in order and complete; end of file and broken pipe are told only when the other end is gone everywhere, and stay true; the hand-kept count never falls below the descriptors; poll promises what the next call does; a reader that keeps reading hears the hang-up. |
| `blockfs_crash` | 6 data blocks of 2 words, 3 inodes, 3 direct blocks, 3 calls, 1 sync | No block has two owners, the free counter is exact, clean blocks are on disk, a completed sync survives a crash, words read back as written, an inode has a link for each name, on a disk that runs full, with stale nodes, sizes past their `u32`, data that looks like directory entries, and device writes that fail half way. |
| `rcu_grace` | 2 writers, 3 versions, 3 grace periods, 1 CPU and a second that does not exist | No version is reclaimed under a reader, each is reclaimed by one party, no callback is left behind by the callers it was due for, and `synchronize_rcu` returns if the CPUs report. |

Violation runs state what the repository says of the code and show that the code does
otherwise. Each checks one property.

| Run | Property | What happens |
|---|---|---|
| `endpoint_wake` | `WakeReaches`, a comment in `receive_sync` | A sender takes the registration of a receiver that has not blocked yet; the wake finds nobody and the receiver blocks with its message queued. |
| `futex_missed` | `NoMissedWake`, the module comment of `futex.rs` | A store and its wake fall between the comparison and the enqueueing of a wait. |
| `pipe_fresh` | `NewDescriptorIsFresh`, the comment of `dup_at_least` | `dup2`, `dup3` and `F_DUPFD` lengthen a table without moving `next_fd`; with every slot taken (for `F_DUPFD` every slot from the requested number on) the next answer is a descriptor in use. |

`pipe_fresh` has the constants of the code (three standard slots, 1024 open files) and needs two
calls: `pipe2` on a new table and one `F_DUPFD`.

Six more configurations are kept beside the runs. Each refutes a single property, and the
counterexample of TLC is the explanation of a note in the hazards:

| Configuration (module) | Property | What happens |
|---|---|---|
| `AsyncRing_overwrite.cfg` (`AsyncRing`) | `OverwritesOnlyConsumed`, a SAFETY comment of `push()` | `pop()` lowers `size` before it reads its slot; a producer on a full ring reserves and overwrites that slot in between. |
| `MCBuddy_fragment.cfg` (`MCBuddy`) | `MergesBack`, a test of the allocator | On a range whose start is not a multiple of its size the two halves of a split are not each other's exclusive-or buddy: with everything returned the range is not one block again. `NoPairLeft` is what holds. |
| `FrameAllocator_guard.cfg` (`FrameAllocator`) | `NoFrameLost`, a test comment on `FramesGuard` | A guard over three frames returns three of the four frames the buddy allocator took. |
| `MCCap_revoked.cfg` (`MCCap`) | `RevokedUnusable`, no operation accepts a revoked capability | A system call that looks only into the caller's table accepts it. |
| `Rcu_alone.cfg` (`Rcu`) | `QuietSuffices`, the comment at `sync/rcu.rs:114` | The only CPU is outside every section, but its caller spins and never reports for it. |
| `MCCap_lock.cfg` (`MCCap`) | `NoLockCycle`, `src/verification/tla+/README.md:85` | Two operations in opposite directions each hold one space and wait for the other. |

The lock cycle needs two operations at once whose processes name each other: two threads in
system calls, on two processors or with preemption in between.
`src/verification/tla+/README.md:71`
says "Buffer size never exceeds capacity"; for an endpoint `OverfillBound` gives the bound
that does hold, and why it is larger.

### Bounds

- `MaxMsgs` = 5 on a ring of 2 slots: two full laps and one more message, so that every slot is
  reused twice. Two words per message are enough for a mixture. The proofs cover any number of slots,
  words and messages; the accounting also any number of producers and consumers.
- 8 frames with four orders in use, from a start that is a multiple of 2 only: splits of three
  levels in one call, merges, and halves that are no buddies. `MaxOrder` is
  one above the top, as in the code, where 21 lists are more than the range fills.
- `frames_node` has a bitmap smaller than the largest request, caches that cross both ends of
  their watermarks, and a refill that runs dry in the bitmap and goes on in the buddy pool. The
  callers' counts are powers of two; `FrameAllocator_guard.cfg` has the case that is not.
- Two processes are the smallest number with a transfer in both directions, a fork and an exit
  while the other acts; ids 1 and 2 sit in the first and in the second level of the table; the
  quota of 1 makes inserts fail. With one object in TLC, `Backed` says little about objects: the
  proof covers any number of them. `WordSize` = 4 makes the counter wrap.
- Three processes at an endpoint: two registered receivers and a sender, or two senders that race
  for one registration. Capacity 1 is reached by one message. With five messages the queue does reach the bound of
  `OverfillBound`.
- Three threads on two words: a waiter, a waker and a requeuer. `Values` has one element in
  `futex_table`, because the table never depends on the value of a word once the comparison has
  passed (with one value it always passes, which admits the most waits); `futex_missed` has two.
  `MaxStrays` bounds the wakes from elsewhere.
- Two processes share one pipe: fork, then either closes, overwrites, execs or exits first. With
  `MAX_OPEN` = 2 both ends fill a table, so `open` and `dup` also meet a full one; only `dup2` and
  `F_DUPFD` with a number past the end reach the third slot; a pipe of two bytes is full after one write of two. `MaxRef` = 2 bounds the
  references to an end and so the length of a chain of duplications; `MaxSent`, `MaxCount` and
  `MaxLen` bound bytes, the size of one call and the table. `NewFdArgs` has a slot in use and one
  past the end. With one pipe, `pipe2` never meets a table that has room for one end only; the
  proofs have that path, and an instance with one process and two pipes was checked as well.
- Blocks of two words make every border of the code's layout close: the writes reach across the
  border to the indirect block and past the end of the addressing range, and six blocks run out in
  the middle of a write that needs indirect blocks. `U32` = 16 stands for 2^32 and lies below the
  addressing range of 18 words, as in the code; `Sizes` has one size on each side of it. Three
  calls are a deletion, a creation and a use of the node from before (nodes are looked up without
  limit), or a creation, a write and a truncation, from an image with one empty file. One sync is
  enough for a failure or a crash at each of its writes; several syncs in a row are covered by the
  proofs. `Cuts` = {1}: a write that fails has stored one word, one inode or nothing of the bitmap.
  One lookalike, a file entry for inode 2, and one number (`Foreign`) for files of other
  filesystems. A larger instance was checked as well: seven blocks, a write across the border to the
  double-indirect blocks, a truncation inside the indirect range, `Foreign` = {1}, and `Cuts` =
  {1, 7} (half a bitmap); so was that instance with four calls, every number in `Foreign` and no
  sync. `MaxOps` is below
  2^16 for every instance, so that no link count, a `u16`, overflows.
- One CPU that reports and one that does not exist: `synchronize_rcu` treats the second as
  quiescent. Two writers meet in the callback queue while one has dropped its lock. Three grace
  periods let one begin and end between the two halves of a `call_rcu`. Safety for any number of
  CPUs, writers and versions is proved.

Deadlock is checked for the allocators, which always accept a call, and for `BlockFs`, which can
always be rebooted. It is off elsewhere: a closed channel with all its messages sent, processes
that have all blocked, exited or used up the ids, threads that have all exited or sleep, and
writers that have used up the versions are legal ends of the bounded instances.

### Fairness

For `ring_spsc`, `FairSpec` assumes that the consumer keeps taking
steps (weak fairness), as `poll()` loops without bound over `receive_async()`, and that a
compare-exchange which is possible again and again succeeds some time (strong fairness): a
weak compare-exchange may fail spuriously, but not for ever. Producers need no fairness.
`Delivery` speaks of the number of messages, because an overwritten message is replaced by
another (`AsyncRing_overwrite.cfg`). For endpoints and futexes the corresponding property is false in
this code; its safety part is what `endpoint_wake` and `futex_missed` refute.

For `pipe_hangup`, a process that holds the read end keeps reading (weak fairness of a read of the
pipe by any holder): the comment at `syscall/filesystem.rs:492` sends the C library back with
`EAGAIN` to try again, and the kernel itself does not block a reader. Writers, closers and exits
need no fairness.

For `rcu_grace`, `FairSpec` assumes only that a writer inside a call keeps running. What else
`synchronize_rcu` needs is the premise of `SynchronizeReturns`: every CPU that is online, the
caller's included, reports again and again, and from some point on no section is open. The code
guarantees neither: the loop itself reports nothing, so a caller that keeps its CPU spins for good
(`Rcu_alone.cfg`), and under unending read traffic no scan may find all CPUs outside a section. The
property shows that nothing else can hold a caller up.

## The proofs

Every theorem holds for all values of the constants that satisfy the named assumptions
(`RingAssumption`, `BuddyAssumption`, `CapSpaceAssumption`, `CapManagerAssumption`,
`EndpointAssumption`, `FutexAssumption`, `BlockFsAssumption`, `DeviceAssumption`, `RcuAssumption` and the
`ConstantsAssumption` of `PipeFiles`). TLC evaluates the assumptions in the runs.

| Theorem | States | Inductive invariant |
|---|---|---|
| `RingAccounting` | `[]SizeCountsPublished` | `RingInv`: the type, the accounting, and that a consumer at the compare-exchange loaded a non-zero size; otherwise the decrement could leave the naturals. |
| `RingWithinCapacity` | `[]SizeWithinCapacity`, one producer | `OverfillInv`: size and the producers past the size test together stay below capacity plus producers. |
| `RingReadsWritten` | `[]NeverReadsUninit`, one producer | `WrittenInv`: the slots of accepted messages have no unwritten word, nor has what a consumer has copied so far. |
| `RingOneLap` | `[]OneLapAtMost`, one producer, one consumer | `LapInv`: word by word, which two messages a slot, and a copy under way, can hold. |
| `BuddySafety` | `[]BlocksApart` | `BuddyInv`: the type and `BlocksApart`. It is inductive because it includes the block in the hand of the call in progress. |
| `BuddyRefinesPool` | `ImplementsPool` | the same; each step is shown to map to `Grant`, `Reclaim` or a stutter. |
| `BuddyAccounts` | `[]FramesAccounted` | `AccountInv`: also in the middle of a call the frames not held are free or in its hand, and the counter lags by the block being released. |
| `BuddyPairsMerged` | `[]NoPairLeft` | `MergeInv`: adds `Gap`, that the lists a split has yet to fill are empty. |
| `CapabilitiesBacked`, `RightsNeverGrow`, `RegistryRefusesRevoked` | `[]Backed`, `[]RightsBounded`, `[]RevokedRefused` | `CapInv`: adds what an operation under way relies on: the id it is creating is its own and unregistered, the entry it looked up is still there, and it passed `is_valid` only if the id was not revoked when it began. |
| `RevokedStays` | `RevokedForever` | from `CapInv`: a step registers only ids that are not registered. |
| `QuotaHolds` | `[]QuotaKept` | `QuotaInv`: only tables that `clone_from` filled are inherited into. |
| `EndpointInvariant`, `EndpointFifo` | `[]EndpointInv`, `[]Fifo` | `EndpointInv`: adds that a call with a message to queue has one and a call with a process to wake has one. |
| `EndpointOverfill` | `[]OverfillBound` | `OInv`: messages, registrations and hand-overs under way together are bounded, registrations by the calls that wait and the wakes from elsewhere, and at most one `close` is under way. |
| `FutexInvariant`, `SleepersReachable` | `[]FutexInv`, `[]NoWaiterLost` | `FutexInv`: adds that only a call about to make threads ready has threads in its hand, and states reachability by entries rather than by sets of positions. |
| `WaitWokenOnce` | `[]WokenOnce` | `WokenInv`: the entries of a thread in queues, hands and the ready queue are at most its wait and the wakes from elsewhere. |
| `StreamKept`, `HangupIsTruthful`, `PollIsTruthful`, `PipeFilesTyped` | `[]ByteStream`, `[]HangupIsFinal`, `[]PollPromises`, `[]TypeOK` | `IInv` of `PipeFilesProofs`: the types, `ByteStream`, and `Ends`: a flag is set only when no table holds that end, a pipe not made yet is held by nobody, and a pipe that told end of file has an empty buffer and closed writers. Each call is shown to leave in the tables only files that were held before, which is all that `Drop` needs. |
| `RefcountNeverLow` | `[]RefcountCovers` | `RInv`: adds the count of descriptors over tables of bounded length; each call is shown to change a count by as much as it changes one table. |
| `CleanBlocksOnDisk`, `SyncedImageDurable` | `[]CleanOnDisk`, `[]Durable` | `SyncInv`: adds that during a sync the allocated blocks no longer on its list are on disk and those on it are dirty, and that after each phase the parts it wrote agree with memory. Every method of the filesystem *keeps* its image (`Keeps`: a block clean afterwards was clean before and is unchanged); the relation is transitive, so it is proved for the few primitives and composed. |
| `GracePeriodHolds`, `ReclaimedOnce` | `[]GracePeriod`, `[]OneDisposer` | `IInv` of `RcuProofs`: a CPU that has reported, or is about to report, the grace period of a version holds it no more, a writer part way through its scan has seen the CPUs before it report, and no way leads back from a version taken out to the readers. |
| `NoCallbackMissed` | `[]NoneMissed` | `MissInv`: a callback owed to a caller that has gone past it is done, running, or ahead of another caller that will take it. |

No theorem about the buddy allocator assumes an aligned start: `MCBuddy_fragment.cfg` shows that
unaligned ranges fragment, the theorems that they stay safe and that every pair the exclusive-or
rule finds is merged. What sorting a futex queue does is stated declaratively (`Sorted`: an
order-preserving enumeration of the chosen entries), so the proofs need no induction over queues.

Only model-checked: `Delivery`, `SynchronizeReturns` and `ReaderHearsEof` (liveness is out of the
prover's reach); all of `FrameAllocator`, whose operations fold over runs and caches; `OneOwner`,
`FreeBlocksExact`, `ReadBack`, `LinksCoverNames` and the type invariant of `BlockFs`, which speak of
the whole pointer tree and of walks through directories.


## Known deviations that no run states

These are in the models as the code has them, or lie just outside; no property speaks of them.

- The counter `used` of a capability space is wrong after a fork (it stays 0) and after a
  removal whose token does not match; the quota is compared with it.
- `exec` builds a filtered copy of the capability space and drops it.
- `create_capability` leaves the registry entry of an id when the insert fails.
- `free_frames` passes a frame the bitmap refuses on to the buddy allocator, which tests nothing;
  the models have no caller that returns a frame twice.
- A node with fewer frames than the bitmap has bits hands out frames past its end.
- A send that passed the `active` test queues its message after `close` has cleared the queue.
- Futex queues are sorted by the numeric priority in descending order, while in `sched/task.rs`
  the smaller number is the more urgent one; no timer ends a wait at its deadline.
- `FUTEX_WAKE_OP` reads and writes the word in two accesses; a store in between is lost. A thread
  that exited may still have an entry in the futex table, and a wake makes its task ready again.
- A receiver that passed the `active` test before `close` may block after `close` has woken all.
- BlockFS: `free_inodes` is counted down by every creation and never up by `unlink`, so it wraps; a
  removed directory keeps one link and is never reused; a data block that is allocated again keeps
  its old words until they are written, also when the new owner is a directory. Sizes wrap at
  2^32. `mkdir`, `create` and `symlink` do not test that the parent is a directory, and a
  directory can be written through its node. A hard link to a file of another filesystem names an
  unrelated inode.
- `dup` raises `refcount` before it looks for a slot, and a fork that fails late has already raised
  it for every descriptor; the failure paths do not lower it. `dup2`, `dup3` and `F_DUPFD` lengthen
  a table to any number the caller passes.

## Not modelled

The repository has some 356,000 lines, most of them drivers, desktop, browser, media and services.
The models cover the parts of the kernel core in which concurrency, failure and long histories
decide; that is about one per cent of all lines.

- *Scheduler* (`sched/`): `schedule` (`scheduler.rs:585`) drops a task it took out of the ready queue
  and does not preempt with, `tick` (`:543`) resets the time slice before `schedule` tests it, and
  `enqueue` (`:165`) ignores the answer of a full queue. The progress one would state is false; the
  rest is the context switch.
- *Process lifecycle, wait and signals* (`process/`, `syscall/signal.rs`): only what exit, exec and
  fork do to capabilities, descriptors and blocked parents is modelled. `wait` looks for a zombie and
  blocks in two steps, and reaping frees a process that its exiting thread still reads.
- *Message passing, synchronous IPC, fast path, shared memory* (the rest of `ipc/`): the direct
  delivery of `message_passing.rs:324` stores and looks up messages in two different statics.
- *Capability derivation tree* (`cap/revocation.rs`): kept apart from the registry the checks read.
- *Lock-free queue* (`sync/lockfree_queue.rs`): `pop` frees the old sentinel at once while a producer may
  still read it; a model needs an allocator that reuses nodes. *Hazard pointers*, *once lock*.
- *Kernel synchronisation* (`process/sync.rs`): mutexes and semaphores that no other file uses.
- *Virtual memory* (`mm/vas.rs`, `mm/page_fault.rs`): mappings and copy-on-write.
- *File locks, event and timer descriptors* (`fs/`); the file systems other than BlockFS.
- *Network stack*; *interrupts and timers*.
- Out of reach or without a protocol of their own: architecture code, device drivers, cryptography,
  program loading, system-call decoding, packages and shell, desktop, graphics, audio, video,
  browser, virtualisation, debugging and performance tools, user land.

Within the modelled parts: weak memory orderings (`AsyncRing` and `Rcu` are sequentially consistent);
in `BlockFs` permissions, times, the byte layout of the metadata, read-only devices, devices smaller
than the image on them (`DeviceAssumption`; `sync_to_disk` skips the blocks past the end), block
pointers read as directory entries, lookalike entries for inodes past the table, and what happens on an image left by a sync that was cut short; in `PipeFiles` files other
than pipe ends, and the spinning reads and writes of the in-kernel shell.

## Open ends

Proofs still to do: the properties of `FrameAllocator`, and `OneOwner` of `BlockFs`. Components that would come next: virtual memory over
`FrameAllocator`, the TCP state machine, the capability derivation tree as a refinement of what
`CapManager` says of revocation.
