------------------------------- MODULE Futex --------------------------------
(***************************************************************************)
(* The futex system calls (syscall/futex.rs) of the threads of one process.*)
(*                                                                         *)
(* FUTEX_TABLE maps a word of user memory to the threads that wait on it.  *)
(* Its lock covers one look into the table; user memory is read and written*)
(* outside of it, and the threads a wake takes from the table are made     *)
(* ready later, under the scheduler's lock.  Each of these is a step of its*)
(* own here, and those of other threads come between.                      *)
(*                                                                         *)
(* The scheduler is taken at its word: a thread that has given up the      *)
(* processor runs again when, and only when, it is in the ready queue.     *)
(* ready[t] counts its entries there.                                      *)
(***************************************************************************)
EXTENDS Integers, Sequences, FiniteSets

CONSTANTS Threads, Words, Values, Bits,
          Main,          \* the main thread, which a wake by process id reaches
          Priority,      \* Task::priority of each thread, as a number
          Masks,         \* the bitsets that waits and wakes use
          Counts,        \* the numbers of threads that callers ask for
          NoWord, NoValue,
          MaxStrays      \* bound: how often the main thread is woken from elsewhere

ASSUME FutexAssumption ==
    /\ Main \in Threads
    /\ IsFiniteSet(Threads) /\ IsFiniteSet(Words)
    /\ 0 \in Values
    /\ Priority \in [Threads -> Nat]
    /\ Masks \subseteq (SUBSET Bits) \ {{}}
    /\ Counts \subseteq Nat /\ 1 \in Counts
    /\ NoWord \notin Words
    /\ NoValue \notin Values
    /\ MaxStrays \in Nat

VARIABLES word,          \* user memory
          table,         \* FUTEX_TABLE; an absent key is an empty queue
          ready,         \* entries in the scheduler's ready queue
          call,          \* where each thread is in its system call
          missed,        \* history: threads not yet queued when their word's wake came
          strays         \* number of wakes from elsewhere so far

vars == <<word, table, ready, call, missed, strays>>

Waiters == [thread : Threads, bits : SUBSET Bits]

PCs == {"user", "push", "asleep", "resumed", "op_write", "take", "deliver", "exited"}

\* A call under way: its word, the value its wait saw, its bitset, how many
\* to wake, the word to modify, the threads taken from the table, and where
\* the thread goes when the wake is done.
Calls == [pc : PCs, word : Words \cup {NoWord}, seen : Values \cup {NoValue},
          bits : SUBSET Bits, n : Nat, other : Words \cup {NoWord},
          hand : Seq(Threads), then : {"user", "exited"}]

User == [pc |-> "user", word |-> NoWord, seen |-> NoValue, bits |-> {}, n |-> 0,
         other |-> NoWord, hand |-> <<>>, then |-> "user"]

At(t, pc) == call[t].pc = pc
Return(t) == call' = [call EXCEPT ![t] = User]

Init ==
    /\ word = [w \in Words |-> 0]
    /\ table = [w \in Words |-> <<>>]
    /\ ready = [t \in Threads |-> 0]
    /\ call = [t \in Threads |-> User]
    /\ missed = {}
    /\ strays = 0

-----------------------------------------------------------------------------
(* A wait queue is sorted by priority, the largest number first; the sort  *)
(* is stable.                                                              *)

Before(s, i, j) ==
    \/ Priority[s[i].thread] > Priority[s[j].thread]
    \/ Priority[s[i].thread] = Priority[s[j].thread] /\ i < j

\* The entries I of s in sorted order, as a sequence of indices.
Sorted(s, I) ==
    {f \in [1 .. Cardinality(I) -> I] :
        /\ \A i \in I : \E k \in DOMAIN f : f[k] = i
        /\ \A k, l \in DOMAIN f : k < l => Before(s, f[k], f[l])}

Pick(s, f) == [k \in DOMAIN f |-> s[f[k]]]
PickThreads(s, f) == [k \in DOMAIN f |-> s[f[k]].thread]

Eligible(s, bits) == {i \in DOMAIN s : s[i].bits \cap bits # {}}

\* The first n of the entries I.
First(s, I, n) == {i \in I : Cardinality({j \in I : Before(s, j, i)}) < n}

\* Threads that have compared the word but are not in its queue yet, although
\* the word has changed since: a wake that comes now does not see them.
Overlooked(w) == {t \in Threads : At(t, "push") /\ call[t].word = w /\ call[t].seen # word[w]}

-----------------------------------------------------------------------------
(* FUTEX_WAIT: compare, become Blocked, join the queue, give up the        *)
(* processor.                                                              *)

\* User code: threads write to the words as they like.
Store(t, w, v) ==
    /\ At(t, "user")
    /\ word' = [word EXCEPT ![w] = v]
    /\ UNCHANGED <<table, ready, call, missed, strays>>

\* The value is the expected one; a call that finds another one returns.
WaitCheck(t, w, bits) ==
    /\ At(t, "user")
    /\ call' = [call EXCEPT ![t] = [User EXCEPT !.pc = "push", !.word = w,
                                                !.seen = word[w], !.bits = bits]]
    /\ missed' = missed \ {t}
    /\ UNCHANGED <<word, table, ready, strays>>

WaitPush(t) ==
    /\ At(t, "push")
    /\ table' = [table EXCEPT ![call[t].word] =
                    Append(@, [thread |-> t, bits |-> call[t].bits])]
    /\ call' = [call EXCEPT ![t].pc = "asleep"]
    /\ UNCHANGED <<word, ready, missed, strays>>

\* The scheduler takes an entry of t from the ready queue.
Resume(t) ==
    /\ At(t, "asleep")
    /\ ready[t] > 0
    /\ ready' = [ready EXCEPT ![t] = @ - 1]
    /\ call' = [call EXCEPT ![t].pc = "resumed"]
    /\ UNCHANGED <<word, table, missed, strays>>

\* Neither a signal nor a deadline: return Ok, and leave the queue alone.
WaitOk(t) ==
    /\ At(t, "resumed")
    /\ Return(t)
    /\ UNCHANGED <<word, table, ready, missed, strays>>

\* remove_self: a signal is pending or the deadline has passed; t leaves the
\* queue it joined, which after a requeue is not the one it is in.
WaitGiveUp(t) ==
    /\ At(t, "resumed")
    /\ LET s == table[call[t].word]
           I == {i \in DOMAIN s : s[i].thread # t}
       IN \E f \in [1 .. Cardinality(I) -> I] :
            /\ \A i \in I : \E k \in DOMAIN f : f[k] = i
            /\ \A k, l \in DOMAIN f : k < l => f[k] < f[l]
            /\ table' = [table EXCEPT ![call[t].word] = Pick(s, f)]
    /\ Return(t)
    /\ UNCHANGED <<word, ready, missed, strays>>

\* wake_up_process(pid) from outside the futex code queues the main thread.
StrayWake ==
    /\ strays < MaxStrays
    /\ strays' = strays + 1
    /\ ready' = [ready EXCEPT ![Main] = @ + 1]
    /\ UNCHANGED <<word, table, call, missed>>

-----------------------------------------------------------------------------
(* FUTEX_WAKE: take threads from the queue, then make them ready.          *)

\* With nobody to make ready the call returns, or the thread is gone.
Deliverable(t, hand, then) ==
    call' = [call EXCEPT ![t] = IF hand = <<>> THEN [User EXCEPT !.pc = then]
                                ELSE [User EXCEPT !.pc = "deliver", !.hand = hand, !.then = then]]

\* Variant: the entries that are taken stay in the queue.
TakeCopy(t, w, n, bits, then) ==
    LET s == table[w]
        I == First(s, Eligible(s, bits), n)
    IN \E f \in Sorted(s, I), g \in Sorted(s, DOMAIN s) :
         /\ table' = [table EXCEPT ![w] = Pick(s, g)]
         /\ Deliverable(t, PickThreads(s, f), then)

Take(t, w, n, bits, then) ==
    LET s == table[w]
        I == First(s, Eligible(s, bits), n)
    IN \E f \in Sorted(s, I), g \in Sorted(s, DOMAIN s \ I) :
         /\ table' = [table EXCEPT ![w] = Pick(s, g)]
         /\ Deliverable(t, PickThreads(s, f), then)

Wake(t, w, n, bits) ==
    /\ At(t, "user")
    /\ Take(t, w, n, bits, "user")
    /\ missed' = missed \cup Overlooked(w)
    /\ UNCHANGED <<word, ready, strays>>

\* Variant: only the first of the threads is made ready.
DeliverFirst(t) ==
    /\ At(t, "deliver")
    /\ ready' = [ready EXCEPT ![Head(call[t].hand)] = @ + 1]
    /\ call' = [call EXCEPT ![t] = [User EXCEPT !.pc = call[t].then]]
    /\ UNCHANGED <<word, table, missed, strays>>

Deliver(t) ==
    /\ At(t, "deliver")
    /\ ready' = [u \in Threads |->
                    ready[u] + Cardinality({k \in DOMAIN call[t].hand : call[t].hand[k] = u})]
    /\ call' = [call EXCEPT ![t] = [User EXCEPT !.pc = call[t].then]]
    /\ UNCHANGED <<word, table, missed, strays>>

\* FUTEX_WAKE_OP reads the second word, then writes it and compares what it
\* read; the operation, its argument and the comparison are the caller's, so
\* any value may be written and the comparison may go either way.
OpRead(t, w, n, w2) ==
    /\ At(t, "user")
    /\ call' = [call EXCEPT ![t] = [User EXCEPT !.pc = "op_write", !.word = w, !.n = n,
                                                !.bits = Bits, !.other = w2]]
    /\ UNCHANGED <<word, table, ready, missed, strays>>

OpWrite(t, v) ==
    /\ At(t, "op_write")
    /\ word' = [word EXCEPT ![call[t].other] = v]
    /\ \/ Return(t)
       \/ call' = [call EXCEPT ![t].pc = "take"]
    /\ UNCHANGED <<table, ready, missed, strays>>

\* exit_thread: clear the word at clear_tid, wake one waiter, never return.
Exit(t, w) ==
    /\ At(t, "user")
    /\ word' = [word EXCEPT ![w] = 0]
    /\ call' = [call EXCEPT ![t] = [User EXCEPT !.pc = "take", !.word = w, !.n = 1,
                                                !.bits = Bits, !.then = "exited"]]
    /\ UNCHANGED <<table, ready, missed, strays>>

\* The wake inside FUTEX_WAKE_OP and exit_thread.
WakeInside(t) ==
    /\ At(t, "take")
    /\ Take(t, call[t].word, call[t].n, call[t].bits, call[t].then)
    /\ missed' = missed \cup Overlooked(call[t].word)
    /\ UNCHANGED <<word, ready, strays>>

\* FUTEX_REQUEUE: wake the first n whatever their bitset, move the next m.
Requeue(t, w, n, w2, m) ==
    /\ At(t, "user")
    /\ w # w2
    /\ LET s == table[w]
           I == First(s, DOMAIN s, n)
           J == First(s, DOMAIN s \ I, m)
       IN \E f \in Sorted(s, I), g \in Sorted(s, J), h \in Sorted(s, (DOMAIN s \ I) \ J) :
            /\ table' = [table EXCEPT ![w] = Pick(s, h), ![w2] = @ \o Pick(s, g)]
            /\ Deliverable(t, PickThreads(s, f), "user")
    /\ missed' = missed \cup Overlooked(w)
    /\ UNCHANGED <<word, ready, strays>>

-----------------------------------------------------------------------------
Next ==
    \/ \E t \in Threads :
        \/ \E w \in Words, v \in Values : Store(t, w, v)
        \/ \E w \in Words, bits \in Masks : WaitCheck(t, w, bits)
        \/ WaitPush(t)
        \/ Resume(t)
        \/ WaitOk(t)
        \/ WaitGiveUp(t)
        \/ \E w \in Words, n \in Counts, bits \in Masks : Wake(t, w, n, bits)
        \/ Deliver(t)
        \/ \E w, w2 \in Words, n \in Counts : OpRead(t, w, n, w2)
        \/ \E v \in Values : OpWrite(t, v)
        \/ \E w \in Words : Exit(t, w)
        \/ WakeInside(t)
        \/ \E w, w2 \in Words, n, m \in Counts : Requeue(t, w, n, w2, m)
    \/ StrayWake

Spec == Init /\ [][Next]_vars

-----------------------------------------------------------------------------
(* Properties.                                                             *)

\* The type invariant of the futex table and of the calls under way.
TypeOK ==
    /\ word \in [Words -> Values]
    /\ table \in [Words -> Seq(Waiters)]
    /\ ready \in [Threads -> Nat]
    /\ call \in [Threads -> Calls]
    /\ missed \subseteq Threads
    /\ strays \in 0 .. MaxStrays

\* The places a wake can still reach t from: entries in the table, in the
\* hands of wakers, and in the ready queue.
Queued(t) == UNION {{<<w, i>> : i \in {j \in DOMAIN table[w] : table[w][j].thread = t}} : w \in Words}
InHand(t) == UNION {{<<u, k>> : k \in {l \in DOMAIN call[u].hand : call[u].hand[l] = t}} : u \in Threads}

\* A thread that has gone to sleep can be woken: it is in some queue of the
\* table, or a wake has taken it from there and will make it ready, or it is
\* ready.  Waking, requeueing and giving up by the others never drop it.
NoWaiterLost ==
    \A t \in Threads : At(t, "asleep") => Queued(t) # {} \/ InHand(t) # {} \/ ready[t] > 0

\* A wait is woken once: a thread has no more entries in the table, in the
\* hands of wakers and in the ready queue than its wait under way and the
\* wakes from elsewhere account for.
WokenOnce ==
    \A t \in Threads :
        Cardinality(Queued(t)) + Cardinality(InHand(t)) + ready[t]
            <= (IF At(t, "asleep") THEN 1 ELSE 0) + (IF t = Main THEN strays ELSE 0)

\* futex.rs: "Atomic re-check of expected value before sleeping".  No thread
\* is asleep that compared its word before it changed and joined the queue
\* after the wake that followed the change.
NoMissedWake == \A t \in Threads : At(t, "asleep") => t \notin missed

=============================================================================
