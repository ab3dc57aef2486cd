----------------------------- MODULE AsyncRing -----------------------------
(***************************************************************************)
(* The asynchronous IPC channel of kernel/src/ipc/async_channel.rs: the    *)
(* "lock-free" RingBuffer and the operations AsyncChannel builds on it.    *)
(*                                                                         *)
(* Every atomic access of push() and pop() is a step of its own, so the    *)
(* model has exactly the interleavings that the three counters size,       *)
(* write_pos and read_pos admit.  The ptr::write and the ptr::read of a    *)
(* message of several words are no atomic accesses: they copy the words    *)
(* one by one in an order of the compiler's choice, so that a write that   *)
(* overlaps a read leaves a mixture of two messages.  Messages are         *)
(* numbered in the order in which send_async() is called and each word of  *)
(* a message is its number; 0 is the content of an unwritten word.         *)
(***************************************************************************)
EXTENDS Naturals, Sequences, FiniteSets

CONSTANTS
    Producers,      \* threads that call send_async()
    Consumers,      \* threads that call receive_async() or poll()
    Capacity,       \* RingBuffer::capacity
    Words,          \* the words of a message
    MaxMsgs         \* bound: messages offered to the channel

ASSUME RingAssumption ==
    /\ Capacity \in Nat \ {0}
    /\ MaxMsgs \in Nat
    /\ Producers \cap Consumers = {}
    /\ IsFiniteSet(Producers) /\ IsFiniteSet(Consumers)
    /\ Words # {}

VARIABLES
    active,                       \* AsyncChannel::active
    buffer,                       \* the slots, addressed modulo Capacity
    write_pos, read_pos, size,    \* the counters of RingBuffer
    pc,                           \* where each thread is in its call
    reg,                          \* push: its message; pop: the size it loaded
    slot,                         \* the slot a thread has reserved
    todo,                         \* the words of it a thread has yet to copy
    item,                         \* pop: the words copied out of the slot
    next,                         \* number of the next message offered
    accepted,                     \* messages whose push() returned Ok, in order
    received                      \* messages returned by pop(), in order

counters == <<write_pos, read_pos, size>>
copying  == <<todo, item>>
history  == <<next, accepted, received>>
vars     == <<active, buffer, counters, pc, reg, slot, copying, history>>

Threads == Producers \cup Consumers
Slots   == 0 .. Capacity - 1
Uninit  == 0
Labels  == {"idle", "load", "reserve", "write", "publish",
            "poll", "take", "claim", "read"}

\* The type invariant of the counters, slots and calls of push() and pop().
TypeOK ==
    /\ active \in BOOLEAN
    /\ buffer \in [Slots -> [Words -> Nat]]
    /\ write_pos \in Nat /\ read_pos \in Nat /\ size \in Nat
    /\ pc \in [Threads -> Labels]
    /\ reg \in [Threads -> Nat]
    /\ slot \in [Threads -> Slots]
    /\ todo \in [Threads -> SUBSET Words]
    /\ item \in [Threads -> [Words -> Nat]]
    /\ next \in Nat
    /\ accepted \in Seq(Nat)
    /\ received \in Seq([Words -> Nat])

Init ==
    /\ active = TRUE
    /\ buffer = [s \in Slots |-> [w \in Words |-> Uninit]]
    /\ write_pos = 0 /\ read_pos = 0 /\ size = 0
    /\ pc = [t \in Threads |-> "idle"]
    /\ reg = [t \in Threads |-> 0]
    /\ slot = [t \in Threads |-> 0]
    /\ todo = [t \in Threads |-> {}]
    /\ item = [t \in Threads |-> [w \in Words |-> Uninit]]
    /\ next = 1
    /\ accepted = <<>>
    /\ received = <<>>

goto(t, from, to) == pc[t] = from /\ pc' = [pc EXCEPT ![t] = to]

-----------------------------------------------------------------------------
(* send_async() and RingBuffer::push().                                    *)

\* The active flag is loaded first; a closed channel refuses the message.
SendAsync(p) ==
    /\ next <= MaxMsgs
    /\ next' = next + 1
    /\ reg' = [reg EXCEPT ![p] = next]
    /\ goto(p, "idle", IF active THEN "load" ELSE "idle")
    /\ UNCHANGED <<active, buffer, counters, slot, copying, accepted, received>>

\* A full buffer refuses the message: ChannelFull.
LoadSize(p, full) ==
    /\ goto(p, "load", IF full THEN "idle" ELSE "reserve")
    /\ UNCHANGED <<active, buffer, counters, reg, slot, copying, history>>

PushLoadSize_OffByOne(p) == LoadSize(p, size > Capacity)

PushLoadSize(p) == LoadSize(p, size >= Capacity)

Reserve(p, newSize) ==
    /\ goto(p, "reserve", "write")
    /\ slot' = [slot EXCEPT ![p] = write_pos % Capacity]
    /\ todo' = [todo EXCEPT ![p] = Words]
    /\ write_pos' = write_pos + 1
    /\ size' = newSize
    /\ UNCHANGED <<active, buffer, read_pos, reg, item, history>>

PushReserve_CountBeforeWrite(p) == Reserve(p, size + 1)

PushReserve(p) == Reserve(p, size)

\* One word of the ptr::write.
PushWrite(p) ==
    /\ \E w \in todo[p] :
          /\ buffer' = [buffer EXCEPT ![slot[p]][w] = reg[p]]
          /\ todo' = [todo EXCEPT ![p] = @ \ {w}]
    /\ goto(p, "write", IF todo'[p] = {} THEN "publish" ELSE "write")
    /\ UNCHANGED <<active, counters, reg, slot, item, history>>

Publish(p, newSize) ==
    /\ goto(p, "publish", "idle")
    /\ size' = newSize
    /\ accepted' = Append(accepted, reg[p])
    /\ UNCHANGED <<active, buffer, write_pos, read_pos, reg, slot, copying,
                   next, received>>

PushPublish_NotCounted(p) == Publish(p, size)

PushPublish(p) == Publish(p, size + 1)

-----------------------------------------------------------------------------
(* receive_async() and RingBuffer::pop().                                  *)

ReceiveAsync(c) ==
    /\ active
    /\ goto(c, "idle", "poll")
    /\ UNCHANGED <<active, buffer, counters, reg, slot, copying, history>>

\* An empty buffer ends the call: ChannelEmpty.
PopLoadSize(c) ==
    /\ goto(c, "poll", IF size = 0 THEN "idle" ELSE "take")
    /\ reg' = [reg EXCEPT ![c] = size]
    /\ UNCHANGED <<active, buffer, counters, slot, copying, history>>

\* compare_exchange_weak fails when size moved, and may fail anyway: retry.
PopTake(c) ==
    /\ \/ /\ size = reg[c]
          /\ size' = size - 1
          /\ goto(c, "take", "claim")
       \/ /\ size' = size
          /\ goto(c, "take", "poll")
    /\ UNCHANGED <<active, buffer, write_pos, read_pos, reg, slot, copying,
                   history>>

Claim(c, newPos) ==
    /\ goto(c, "claim", "read")
    /\ slot' = [slot EXCEPT ![c] = read_pos % Capacity]
    /\ todo' = [todo EXCEPT ![c] = Words]
    /\ read_pos' = newPos
    /\ UNCHANGED <<active, buffer, write_pos, size, reg, item, history>>

PopClaim_NotAdvanced(c) == Claim(c, read_pos)

PopClaim(c) == Claim(c, read_pos + 1)

\* One word of the ptr::read; the last one ends the call.
PopRead(c) ==
    /\ \E w \in todo[c] :
          /\ item' = [item EXCEPT ![c][w] = buffer[slot[c]][w]]
          /\ todo' = [todo EXCEPT ![c] = @ \ {w}]
    /\ \/ /\ todo'[c] # {}
          /\ goto(c, "read", "read")
          /\ received' = received
       \/ /\ todo'[c] = {}
          /\ goto(c, "read", "idle")
          /\ received' = Append(received, item'[c])
    /\ UNCHANGED <<active, buffer, counters, reg, slot, next, accepted>>

\* close() only clears the flag: calls in flight run to their end.
Close ==
    /\ active /\ active' = FALSE
    /\ UNCHANGED <<buffer, counters, pc, reg, slot, copying, history>>

-----------------------------------------------------------------------------
ProducerStep(p) ==
    SendAsync(p) \/ PushLoadSize(p) \/ PushReserve(p) \/ PushWrite(p)
        \/ PushPublish(p)

ConsumerStep(c) ==
    ReceiveAsync(c) \/ PopLoadSize(c) \/ PopTake(c) \/ PopClaim(c)
        \/ PopRead(c)

Next ==
    \/ \E p \in Producers : ProducerStep(p)
    \/ \E c \in Consumers : ConsumerStep(c)
    \/ Close

Spec == Init /\ [][Next]_vars

\* poll() calls receive_async() in a loop without bound, and a weak
\* compare-exchange on a size that stays put does not fail forever.
FairSpec ==
    /\ Spec
    /\ \A c \in Consumers : /\ WF_vars(ConsumerStep(c))
                            /\ SF_vars(PopTake(c) /\ size' # size)

-----------------------------------------------------------------------------
(* Properties.  The comment at async_channel.rs:365 says that in practice  *)
(* the ring has a single producer and a single consumer.                   *)

\* The messages whose slot was reserved, in that order: the accepted ones and
\* the one, if any, that is not published yet.
Pushed ==
    LET pending == {p \in Producers : pc[p] \in {"write", "publish"}}
    IN  accepted \o (IF pending = {} THEN <<>>
                     ELSE <<reg[CHOOSE p \in pending : TRUE]>>)

\* The size test of push() keeps the published messages within the capacity
\* although push() and pop() change size and the positions in separate steps.
SizeWithinCapacity == size <= Capacity

\* size is exactly the number of published messages no pop() has taken, at
\* every point between the separate updates of the three counters.
SizeCountsPublished ==
    Len(accepted) = size + read_pos
                      + Cardinality({c \in Consumers : pc[c] = "claim"})

\* A pop() that takes an item reads a slot some push() has written, every word
\* of it: the SAFETY comment of pop(), "guaranteeing a valid item exists at this
\* slot".
NeverReadsUninit ==
    \A i \in 1 .. Len(received) : \A w \in Words : received[i][w] # Uninit

\* Each word that the i-th pop() returns is one of the i-th message or of the
\* message a lap later.  pop() lowers size before it reads its slot, so that a
\* push() may overlap the read and the message received be a mixture; but the
\* producer gets at most one lap ahead of a consumer that has yet to read, and
\* the mixture is never of more than these two messages.
OneLapAtMost ==
    \A i \in 1 .. Len(received) : \A w \in Words :
        \E j \in {i, i + Capacity} \cap 1 .. Len(Pushed) :
            received[i][w] = Pushed[j]

\* push() only overwrites a slot that was never written or whose message a
\* pop() has already read: the SAFETY comment of push(), "the slot may contain
\* uninitialized memory (never written) or previously-read memory (already
\* consumed by pop)".  The message it overwrites is the one a lap earlier.
OverwritesOnlyConsumed ==
    \A p \in Producers :
        pc[p] = "write" => Len(received) + Capacity >= write_pos

\* While the channel is open a polling consumer receives as many messages as
\* were accepted: none is left behind by the counters' separate updates.
Delivery ==
    \A n \in 1 .. MaxMsgs :
        (Len(accepted) >= n) ~> (Len(received) >= n \/ ~active)
=============================================================================
