------------------------------ MODULE PipeFiles ------------------------------
(***************************************************************************)
(* Descriptor tables (fs/file.rs), kernel pipes (fs/pipe.rs) and the       *)
(* system calls that join them (syscall/filesystem.rs), for several        *)
(* processes that fork, exec and exit.                                     *)
(*                                                                         *)
(* Every call takes the caller's file_table lock for its whole length, and *)
(* touches a pipe's state only under the pipe's own lock, once: a call is  *)
(* one step, and the steps of different processes interleave.              *)
(*                                                                         *)
(* A pipe has two open files, its ends, each an Arc<File> that the slots   *)
(* of the tables share.  Rust drops a File, and with it the PipeReader or  *)
(* PipeWriter inside, when its last slot goes; the refcount field of File  *)
(* is a second count that the code keeps by hand.                          *)
(*                                                                         *)
(* Bytes are never looked at, so the i-th byte accepted by a pipe is i.    *)
(***************************************************************************)
EXTENDS Naturals, Sequences, FiniteSets

CONSTANTS
  Procs,          \* process identifiers
  InitProc,       \* the process that is there from the start
  Pipes,          \* identities of the pipes that may be created
  None,           \* an empty slot
  STD_SLOTS,      \* slots reserved by FileTable::new, 3 in the code
  MAX_OPEN,       \* the limit of open_with_flags, 1024 in the code
  PIPE_CAPACITY,  \* bytes a pipe holds, 65536 in the code
  FdArgs,         \* descriptors that callers pass to name an open file
  NewFdArgs,      \* numbers that callers pass as min_fd and new_fd
  MaxCount,       \* bound: bytes asked for in one read or write
  MaxSent,        \* bound: bytes accepted by one pipe
  MaxLen,         \* bound: slots in one table
  MaxRef          \* bound: the refcount of one file

Sides == {"r", "w"}
File == Pipes \X Sides
Entry == [file : File, cloexec : BOOLEAN]

ASSUME ConstantsAssumption ==
  /\ InitProc \in Procs /\ IsFiniteSet(Procs)
  /\ None \notin Entry
  /\ {STD_SLOTS, MAX_OPEN, PIPE_CAPACITY, MaxCount, MaxSent, MaxLen, MaxRef} \subseteq Nat
  /\ FdArgs \subseteq Nat /\ NewFdArgs \subseteq Nat

VARIABLES
  state,     \* of a process: not created yet, running, or exited
  files,     \* the slots of each table; descriptor fd is slot fd + 1
  next_fd,   \* the number the next appended slot is given
  refcount,  \* the hand-kept count of each open file
  pipe,      \* the PipeInner of each pipe
  made,      \* the pipes that have been created
  sent,      \* number of bytes each pipe has accepted
  got,       \* the bytes that readers of each pipe were given, in order
  eof        \* pipes a reader of which was told end of file

vars == <<state, files, next_fd, refcount, pipe, made, sent, got, eof>>

-----------------------------------------------------------------------------
\* The table of one process, and what its methods answer.

Table(p) == [files |-> files[p], next_fd |-> next_fd[p]]

FdOf(i) == i - 1
IsOpen(fs, fd) == fd + 1 \in 1..Len(fs) /\ fs[fd + 1] # None

\* The files that the slots of a table hold.
Held(fs) == {fs[i].file : i \in {j \in 1..Len(fs) : fs[j] # None}}

\* while files.len() <= fd { files.push(None) }
Grow(fs, fd) ==
  [i \in 1..(IF Len(fs) > fd THEN Len(fs) ELSE fd + 1) |->
     IF i <= Len(fs) THEN fs[i] ELSE None]

Lowest(S) == CHOOSE i \in S : \A j \in S : i <= j
EmptySlots(fs, from) == {i \in (from + 1)..Len(fs) : fs[i] = None}

NewTable == [files |-> [i \in 1..STD_SLOTS |-> None], next_fd |-> STD_SLOTS]

Answer(ok, fs, nx, fd) == [ok |-> ok, files |-> fs, next_fd |-> nx, fd |-> fd]

open_with_flags(t, e) ==
  LET empty == EmptySlots(t.files, 0) IN
  IF empty # {}
  THEN Answer(TRUE, [t.files EXCEPT ![Lowest(empty)] = e], t.next_fd, FdOf(Lowest(empty)))
  ELSE IF t.next_fd >= MAX_OPEN
       THEN Answer(FALSE, t.files, t.next_fd, 0)
       ELSE Answer(TRUE, Append(t.files, e), t.next_fd + 1, t.next_fd)

dup_at_least(t, e, min_fd) ==
  LET fs == Grow(t.files, min_fd)
      nx == IF t.next_fd <= min_fd THEN min_fd ELSE t.next_fd
      empty == EmptySlots(fs, min_fd) IN
  IF empty # {}
  THEN Answer(TRUE, [fs EXCEPT ![Lowest(empty)] = e], nx, FdOf(Lowest(empty)))
  ELSE IF nx >= MAX_OPEN
       THEN Answer(FALSE, fs, nx, 0)
       ELSE Answer(TRUE, [Grow(fs, nx) EXCEPT ![nx + 1] = e], nx + 1, nx)

\* What dup2 and dup3 leave in the table for two different descriptors.
Replace(fs, e, new_fd) == [Grow(fs, new_fd) EXCEPT ![new_fd + 1] = e]

CloseSlot(fs, fd) == IF IsOpen(fs, fd) THEN [fs EXCEPT ![fd + 1] = None] ELSE fs

\* Every slot whose entry is marked close-on-exec is emptied.
CloseMarked(fs) ==
  [i \in 1..Len(fs) |-> IF fs[i] # None /\ fs[i].cloexec THEN None ELSE fs[i]]

CloseAll(fs) == [i \in 1..Len(fs) |-> None]

\* How many slots of a table hold f.
Slots(fs, f) == Cardinality({i \in 1..Len(fs) : fs[i] # None /\ fs[i].file = f})

-----------------------------------------------------------------------------
\* The two counts of an open file.

inc_ref(rc, f) == [rc EXCEPT ![f] = @ + 1]

\* saturating_sub, once for each slot that is given up.
DecBy(n, k) == IF n > k THEN n - k ELSE 0

\* Variant: the count goes down at the close and again at the drop, unchecked.
DecTwice(rc, before, after) ==
  [f \in File |-> rc[f] - 2 * (Slots(before, f) - Slots(after, f))]

\* close, close_on_exec and close_all count down once per slot they empty.
dec_ref(rc, before, after) ==
  [f \in File |-> DecBy(rc[f], Slots(before, f) - Slots(after, f))]

AllHeld(tabs) == UNION {Held(tabs[p]) : p \in Procs}

\* Variant: the drop of an end leaves its flag alone while bytes are buffered.
DropWhenEmpty(pp, had, tabs) ==
  LET gone == had \ AllHeld(tabs) IN
  [q \in Pipes |->
     [pp[q] EXCEPT !.write_closed = @ \/ (<<q, "w">> \in gone /\ pp[q].buffer = <<>>),
                   !.read_closed = @ \/ <<q, "r">> \in gone]]

\* Of the files that had an owner, those that no slot holds any more are
\* dropped, and the drop of an end closes it.
Drop(pp, had, tabs) ==
  LET gone == had \ AllHeld(tabs) IN
  [q \in Pipes |->
     [pp[q] EXCEPT !.write_closed = @ \/ <<q, "w">> \in gone,
                   !.read_closed = @ \/ <<q, "r">> \in gone]]

-----------------------------------------------------------------------------
\* The pipe operations: the result and the state left behind.

NewInner == [buffer |-> <<>>, write_closed |-> FALSE, read_closed |-> FALSE]

Least(a, b) == IF a <= b THEN a ELSE b

\* Variant: end of file is tested before the buffer.
TryReadClosedFirst(in, n) ==
  LET k == Least(n, Len(in.buffer)) IN
  IF in.write_closed
  THEN [res |-> "eof", bytes |-> <<>>, inner |-> in]
  ELSE IF in.buffer = <<>>
  THEN [res |-> "WouldBlock", bytes |-> <<>>, inner |-> in]
  ELSE [res |-> "ok", bytes |-> SubSeq(in.buffer, 1, k),
        inner |-> [in EXCEPT !.buffer = SubSeq(@, k + 1, Len(@))]]

try_read(in, n) ==
  LET k == Least(n, Len(in.buffer)) IN
  IF in.buffer = <<>>
  THEN [res |-> IF in.write_closed THEN "eof" ELSE "WouldBlock", bytes |-> <<>>, inner |-> in]
  ELSE [res |-> "ok", bytes |-> SubSeq(in.buffer, 1, k),
        inner |-> [in EXCEPT !.buffer = SubSeq(@, k + 1, Len(@))]]

\* Variant: all of the data is said to be accepted, what does not fit is lost.
PipeWriteAll(in, data) ==
  IF in.read_closed \/ in.write_closed
  THEN [res |-> "BrokenPipe", n |-> 0, inner |-> in]
  ELSE LET to_write == Least(Len(data), PIPE_CAPACITY - Len(in.buffer)) IN
       [res |-> "ok", n |-> IF to_write = 0 THEN 0 ELSE Len(data),
        inner |-> [in EXCEPT !.buffer = @ \o SubSeq(data, 1, to_write)]]

pipe_write(in, data) ==
  IF in.read_closed \/ in.write_closed
  THEN [res |-> "BrokenPipe", n |-> 0, inner |-> in]
  ELSE LET to_write == Least(Len(data), PIPE_CAPACITY - Len(in.buffer)) IN
       [res |-> "ok", n |-> to_write,
        inner |-> [in EXCEPT !.buffer = @ \o SubSeq(data, 1, to_write)]]

\* Variant: a hung up pipe reports POLLHUP and no POLLIN.
PollReadHupOnly(in) ==
  (IF in.buffer # <<>> THEN {"POLLIN"} ELSE {}) \cup
  (IF in.write_closed THEN {"POLLHUP"} ELSE {})

poll_read(in) ==
  (IF in.buffer # <<>> THEN {"POLLIN"} ELSE {}) \cup
  (IF in.write_closed
   THEN {"POLLHUP"} \cup (IF in.buffer = <<>> THEN {"POLLIN"} ELSE {})
   ELSE {})

poll_write(in) ==
  IF in.read_closed THEN {"POLLERR"}
  ELSE IF Len(in.buffer) < PIPE_CAPACITY THEN {"POLLOUT"} ELSE {}

-----------------------------------------------------------------------------
Init ==
  /\ state = [p \in Procs |-> IF p = InitProc THEN "live" ELSE "new"]
  /\ files = [p \in Procs |-> NewTable.files]
  /\ next_fd = [p \in Procs |-> NewTable.next_fd]
  /\ refcount = [f \in File |-> 0]
  /\ pipe = [q \in Pipes |-> NewInner]
  /\ made = {}
  /\ sent = [q \in Pipes |-> 0]
  /\ got = [q \in Pipes |-> <<>>]
  /\ eof = {}

Quiet == UNCHANGED <<sent, got, eof>>

\* Process p ends up with slots fs and counter nx; what lost its last slot is
\* dropped.
Install(p, fs, nx, had) ==
  /\ Len(fs) <= MaxLen
  /\ files' = [files EXCEPT ![p] = fs]
  /\ next_fd' = [next_fd EXCEPT ![p] = nx]
  /\ pipe' = Drop(pipe, had, files')

CanRef(f) == refcount[f] < MaxRef

\* sys_pipe2: both ends are opened; when the second cannot be, the descriptor
\* number that the first was given is closed again.
Pipe2(p, q, cloexec) ==
  LET rf == <<q, "r">>
      wf == <<q, "w">>
      r == open_with_flags(Table(p), [file |-> rf, cloexec |-> cloexec])
      w == open_with_flags([files |-> r.files, next_fd |-> r.next_fd],
                           [file |-> wf, cloexec |-> cloexec])
      fs == IF r.ok /\ ~w.ok THEN CloseSlot(r.files, r.fd) ELSE w.files
      nx == w.next_fd
      rc == [refcount EXCEPT ![rf] = 1, ![wf] = 1] IN
  /\ state[p] = "live"
  /\ q \notin made
  /\ made' = made \cup {q}
  /\ IF r.ok
     THEN /\ Install(p, fs, nx, AllHeld(files) \cup {rf, wf})
          /\ refcount' = IF w.ok THEN rc ELSE dec_ref(rc, r.files, fs)
     ELSE /\ Install(p, r.files, r.next_fd, AllHeld(files) \cup {rf, wf})
          /\ refcount' = rc
  /\ UNCHANGED state /\ Quiet

\* The entry of an open descriptor of a running process.
Fd(p, fd) == files[p][fd + 1]
Has(p, fd) == state[p] = "live" /\ IsOpen(files[p], fd)

Close(p, fd) ==
  LET fs == CloseSlot(files[p], fd) IN
  /\ Has(p, fd)
  /\ Install(p, fs, next_fd[p], AllHeld(files))
  /\ refcount' = dec_ref(refcount, files[p], fs)
  /\ UNCHANGED <<state, made>> /\ Quiet

\* The count goes up before the slot is looked for, and stays up when the
\* table turns out to be full.
Dup(p, fd) ==
  /\ Has(p, fd)
  /\ CanRef(Fd(p, fd).file)
  /\ LET a == open_with_flags(Table(p), [file |-> Fd(p, fd).file, cloexec |-> FALSE]) IN
     Install(p, a.files, a.next_fd, AllHeld(files))
  /\ refcount' = inc_ref(refcount, Fd(p, fd).file)
  /\ UNCHANGED <<state, made>> /\ Quiet

\* sys_fcntl with F_DUPFD and F_DUPFD_CLOEXEC.
DupAtLeast(p, fd, min_fd, cloexec) ==
  /\ Has(p, fd)
  /\ CanRef(Fd(p, fd).file)
  /\ LET a == dup_at_least(Table(p), [file |-> Fd(p, fd).file, cloexec |-> cloexec], min_fd) IN
     Install(p, a.files, a.next_fd, AllHeld(files))
  /\ refcount' = inc_ref(refcount, Fd(p, fd).file)
  /\ UNCHANGED <<state, made>> /\ Quiet

\* sys_dup2 (cloexec is FALSE) and sys_dup3; next_fd is left alone.
DupTo(p, old_fd, new_fd, cloexec) ==
  /\ Has(p, old_fd)
  /\ old_fd # new_fd
  /\ CanRef(Fd(p, old_fd).file)
  /\ LET e == [file |-> Fd(p, old_fd).file, cloexec |-> cloexec] IN
     Install(p, Replace(files[p], e, new_fd), next_fd[p], AllHeld(files))
  /\ refcount' = dec_ref(inc_ref(refcount, Fd(p, old_fd).file),
                         files[p], CloseSlot(files[p], new_fd))
  /\ UNCHANGED <<state, made>> /\ Quiet

\* sys_fcntl with F_SETFD.
SetCloexec(p, fd, cloexec) ==
  /\ Has(p, fd)
  /\ files' = [files EXCEPT ![p][fd + 1].cloexec = cloexec]
  /\ UNCHANGED <<state, next_fd, refcount, pipe, made>> /\ Quiet

\* exec, once nothing of it can fail any more.
Exec(p) ==
  LET fs == CloseMarked(files[p]) IN
  /\ state[p] = "live"
  /\ Install(p, fs, next_fd[p], AllHeld(files))
  /\ refcount' = dec_ref(refcount, files[p], fs)
  /\ UNCHANGED <<state, made>> /\ Quiet

ForkRefs(p) == [f \in File |-> refcount[f] + Slots(files[p], f)]

\* Variant: the child's entries are not counted.
ForkNoInc(p, c) ==
  /\ state[p] = "live" /\ state[c] = "new"
  /\ \A f \in File : ForkRefs(p)[f] <= MaxRef
  /\ state' = [state EXCEPT ![c] = "live"]
  /\ files' = [files EXCEPT ![c] = files[p]]
  /\ next_fd' = [next_fd EXCEPT ![c] = next_fd[p]]
  /\ UNCHANGED <<pipe, made, refcount>> /\ Quiet

\* clone_for_fork, for a child that gets to be added to the process table.
Fork(p, c) ==
  /\ state[p] = "live" /\ state[c] = "new"
  /\ \A f \in File : ForkRefs(p)[f] <= MaxRef
  /\ state' = [state EXCEPT ![c] = "live"]
  /\ files' = [files EXCEPT ![c] = files[p]]
  /\ next_fd' = [next_fd EXCEPT ![c] = next_fd[p]]
  /\ refcount' = ForkRefs(p)
  /\ UNCHANGED <<pipe, made>> /\ Quiet

\* A later step of fork fails: the child's table is dropped with its entries,
\* which nothing counts down.
ForkFails(p) ==
  /\ state[p] = "live"
  /\ \A f \in File : ForkRefs(p)[f] <= MaxRef
  /\ refcount' = ForkRefs(p)
  /\ UNCHANGED <<state, files, next_fd, pipe, made>> /\ Quiet

\* cleanup_process closes every descriptor.
Exit(p) ==
  LET fs == CloseAll(files[p]) IN
  /\ state[p] = "live"
  /\ state' = [state EXCEPT ![p] = "exited"]
  /\ Install(p, fs, next_fd[p], AllHeld(files))
  /\ refcount' = dec_ref(refcount, files[p], fs)
  /\ UNCHANGED made /\ Quiet

\* sys_read on the read end of q; a read that would block changes nothing.
Read(p, fd, q, n) ==
  LET r == try_read(pipe[q], n) IN
  /\ Has(p, fd)
  /\ Fd(p, fd).file = <<q, "r">>
  /\ pipe' = [pipe EXCEPT ![q] = r.inner]
  /\ got' = [got EXCEPT ![q] = @ \o r.bytes]
  /\ eof' = IF r.res = "eof" THEN eof \cup {q} ELSE eof
  /\ UNCHANGED <<state, files, next_fd, refcount, made, sent>>

\* The next n bytes that are offered to pipe q.
NextBytes(q, n) == [i \in 1..n |-> sent[q] + i]

\* sys_write on the write end of q; what does not fit is not accepted.
Write(p, fd, q, n) ==
  LET w == pipe_write(pipe[q], NextBytes(q, n)) IN
  /\ Has(p, fd)
  /\ Fd(p, fd).file = <<q, "w">>
  /\ sent[q] + n <= MaxSent
  /\ pipe' = [pipe EXCEPT ![q] = w.inner]
  /\ sent' = [sent EXCEPT ![q] = @ + w.n]
  /\ UNCHANGED <<state, files, next_fd, refcount, made, got, eof>>

ReadSome(q) == \E p \in Procs, fd \in FdArgs, n \in 1..MaxCount : Read(p, fd, q, n)

Next ==
  \/ \E p \in Procs, q \in Pipes, c \in BOOLEAN : Pipe2(p, q, c)
  \/ \E p \in Procs, fd \in FdArgs : Close(p, fd)
  \/ \E p \in Procs, fd \in FdArgs : Dup(p, fd)
  \/ \E p \in Procs, fd \in FdArgs, m \in NewFdArgs, c \in BOOLEAN : DupAtLeast(p, fd, m, c)
  \/ \E p \in Procs, fd \in FdArgs, n \in NewFdArgs, c \in BOOLEAN : DupTo(p, fd, n, c)
  \/ \E p \in Procs, fd \in FdArgs, c \in BOOLEAN : SetCloexec(p, fd, c)
  \/ \E p \in Procs : Exec(p)
  \/ \E p, c \in Procs : Fork(p, c)
  \/ \E p \in Procs : ForkFails(p)
  \/ \E p \in Procs : Exit(p)
  \/ \E q \in Pipes : ReadSome(q)
  \/ \E p \in Procs, fd \in FdArgs, q \in Pipes, n \in 1..MaxCount : Write(p, fd, q, n)

Spec == Init /\ [][Next]_vars

\* Whoever holds the read end of a pipe keeps reading, as the EAGAIN that
\* sys_read ends with asks of the C library.
FairSpec == Spec /\ \A q \in Pipes : WF_vars(ReadSome(q))

-----------------------------------------------------------------------------
Inner == [buffer : Seq(Nat), write_closed : BOOLEAN, read_closed : BOOLEAN]

TypeOK ==
  /\ state \in [Procs -> {"new", "live", "exited"}]
  /\ files \in [Procs -> Seq(Entry \cup {None})]
  /\ next_fd \in [Procs -> Nat]
  /\ refcount \in [File -> Nat]
  /\ pipe \in [Pipes -> Inner]
  /\ made \subseteq Pipes
  /\ sent \in [Pipes -> Nat]
  /\ got \in [Pipes -> Seq(Nat)]
  /\ eof \subseteq Pipes

\* What readers were given, followed by what is buffered, is what writers
\* were told was accepted: whatever the sharing of the ends between slots and
\* processes and however writes are cut short by the capacity, no byte is
\* lost, repeated or out of order, and the buffer stays within its capacity.
ByteStream ==
  \A q \in Pipes :
    /\ got[q] \o pipe[q].buffer = [i \in 1..sent[q] |-> i]
    /\ Len(pipe[q].buffer) <= PIPE_CAPACITY

\* A reader is told end of file only when every byte has been read and no
\* slot of any process holds the write end; a writer is told broken pipe only
\* when no slot holds the read end; and both stay so for ever.  A descriptor
\* inherited by fork or made by dup keeps the pipe open.
HangupIsFinal ==
  /\ \A q \in eof : <<q, "w">> \notin AllHeld(files) /\ Len(got[q]) = sent[q]
  /\ \A q \in Pipes : pipe[q].read_closed => <<q, "r">> \notin AllHeld(files)
  /\ \A q \in Pipes : pipe[q].write_closed => <<q, "w">> \notin AllHeld(files)

\* The hand-kept refcount of a file is never below the number of descriptors
\* that refer to it, so that "last reference" in close is never said too
\* early.  (It may be above: a dup that finds the table full, a fork that
\* fails late and an F_DUPFD that overwrites a slot each leave it high.)
RefcountCovers ==
  \A f \in File :
    /\ refcount[f] >= Cardinality({x \in Procs \X (1..MaxLen) :
          /\ x[2] <= Len(files[x[1]])
          /\ files[x[1]][x[2]] # None
          /\ files[x[1]][x[2]].file = f})

\* poll promises what the next call does: POLLIN exactly when a read will not
\* ask to come back, POLLOUT exactly when a write makes progress, POLLERR
\* exactly when it would fail.
PollPromises ==
  \A q \in made :
    /\ ("POLLIN" \in poll_read(pipe[q])) <=> try_read(pipe[q], 1).res # "WouldBlock"
    /\ <<q, "w">> \in AllHeld(files) =>
         LET w == pipe_write(pipe[q], <<sent[q] + 1>>) IN
         /\ ("POLLOUT" \in poll_write(pipe[q])) <=> w.n = 1
         /\ ("POLLERR" \in poll_write(pipe[q])) <=> w.res = "BrokenPipe"

\* Once the last descriptor of the write end is gone, by whatever mix of
\* close, dup2, exec and exit, a reader that keeps reading is told end of
\* file, unless the read end goes too.
ReaderHearsEof ==
  \A q \in Pipes :
    (/\ q \in made
     /\ <<q, "w">> \notin AllHeld(files)
     /\ <<q, "r">> \in AllHeld(files))
      ~> (q \in eof \/ <<q, "r">> \notin AllHeld(files))

\* The doc comments of open, "Open a file and return a file descriptor", and
\* of dup_at_least, "the lowest available fd": the number that comes back was
\* not in use, and denotes the file afterwards.
NewDescriptorIsFresh ==
  \A p \in Procs, f \in File, m \in NewFdArgs :
    LET e == [file |-> f, cloexec |-> FALSE]
        Fresh(a) == a.ok => /\ ~IsOpen(files[p], a.fd)
                            /\ IsOpen(a.files, a.fd) /\ a.files[a.fd + 1] = e IN
    state[p] = "live" => /\ Fresh(open_with_flags(Table(p), e))
                         /\ Fresh(dup_at_least(Table(p), e, m))
=============================================================================
