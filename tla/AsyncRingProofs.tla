-------------------------- MODULE AsyncRingProofs --------------------------
(***************************************************************************)
(* The accounting of the asynchronous channel's ring, for any number of    *)
(* producers and consumers and any capacity: size always equals the number *)
(* of published messages that no pop() has taken, and passes the capacity  *)
(* by at most one message per further producer.  With one producer the     *)
(* ring is never overfull, pop() reads only written slots, and the writer  *)
(* is at most one lap ahead of the reader.                                 *)
(***************************************************************************)
EXTENDS AsyncRing, FiniteSetTheorems, TLAPS

\* The consumers between the compare-exchange on size and the fetch_add on
\* read_pos: each has taken a message that read_pos does not count yet.
Claiming == {c \in Consumers : pc[c] = "claim"}

\* SizeCountsPublished is inductive only with the type invariant and the fact
\* that a consumer reaches the compare-exchange with a non-zero size in hand.
RingInv ==
    /\ TypeOK
    /\ SizeCountsPublished
    /\ \A c \in Consumers : pc[c] = "take" => reg[c] # 0

\* The number of claiming consumers, and how one step of one thread moves it.
LEMMA ClaimingCount ==
    /\ IsFiniteSet(Claiming)
    /\ Cardinality(Claiming) \in Nat
BY RingAssumption, FS_Subset, FS_CardinalityType, Zenon DEF Claiming

\* A consumer that decremented size is one more that has a message to claim.
LEMMA EnterClaim ==
    ASSUME NEW c \in Consumers, pc \in [Threads -> Labels],
           goto(c, "take", "claim")
    PROVE  Cardinality(Claiming') = Cardinality(Claiming) + 1
<1>1. Claiming' = Claiming \cup {c} /\ c \notin Claiming
  BY Zenon DEF Claiming, Threads, goto
<1> QED BY <1>1, ClaimingCount, FS_AddElement, Zenon

\* A consumer that advanced read_pos has its message claimed.
LEMMA LeaveClaim ==
    ASSUME NEW c \in Consumers, pc \in [Threads -> Labels],
           goto(c, "claim", "read")
    PROVE  Cardinality(Claiming') = Cardinality(Claiming) - 1
<1>1. Claiming' = Claiming \ {c} /\ c \in Claiming
  BY Zenon DEF Claiming, Threads, goto
<1> QED BY <1>1, ClaimingCount, FS_RemoveElement, Zenon

\* No other step of push or pop changes who has a message to claim.
LEMMA KeepClaim ==
    ASSUME NEW t \in Threads, NEW from, NEW to, pc \in [Threads -> Labels],
           goto(t, from, to), t \in Producers \/ "claim" \notin {from, to}
    PROVE  Claiming' = Claiming
BY RingAssumption, Zenon DEF Claiming, Threads, goto

\* Every reachable state satisfies the inductive invariant.
THEOREM RingInvariant == Spec => []RingInv
<1>1. Init => RingInv
  <2> SUFFICES ASSUME Init PROVE RingInv
    OBVIOUS
  <2>1. TypeOK
    BY RingAssumption DEF Init, TypeOK, Threads, Slots, Uninit, Labels
  <2>2. Claiming = {}
    BY Zenon DEF Init, Threads, Claiming
  <2>3. Cardinality(Claiming) = 0
    BY <2>2, FS_EmptySet, Zenon
  <2>4. SizeCountsPublished
    BY <2>3 DEF Init, SizeCountsPublished, Claiming
  <2> QED BY <2>1, <2>4, Zenon DEF Init, RingInv, Threads
<1>2. RingInv /\ [Next]_vars => RingInv'
  <2> SUFFICES ASSUME RingInv, [Next]_vars PROVE RingInv'
    OBVIOUS
  <2>0. /\ TypeOK
        /\ pc \in [Threads -> Labels]
        /\ Len(accepted) \in Nat
        /\ Len(accepted) = size + read_pos + Cardinality(Claiming)
        /\ \A c \in Consumers : pc[c] = "take" => reg[c] # 0
        /\ SizeCountsPublished'
             <=> Len(accepted') = size' + read_pos' + Cardinality(Claiming')
    BY DEF RingInv, TypeOK, SizeCountsPublished, Claiming
  <2>1. ASSUME NEW p \in Producers, ProducerStep(p) PROVE RingInv'
    <3>0. p \in Threads /\ p \notin Consumers
      BY RingAssumption, Zenon DEF Threads
    <3>1. CASE SendAsync(p)
      <4>1. Claiming' = Claiming
        BY <2>0, <3>0, <3>1, KeepClaim, Zenon DEF SendAsync
      <4> QED BY <2>0, <3>0, <3>1, <4>1 DEF SendAsync, counters, copying, goto, RingInv,
                 TypeOK, Labels
    <3>2. CASE PushLoadSize(p)
      <4>1. Claiming' = Claiming
        BY <2>0, <3>0, <3>2, KeepClaim, Zenon DEF PushLoadSize, LoadSize
      <4> QED BY <2>0, <3>0, <3>2, <4>1 DEF PushLoadSize, LoadSize, counters, copying,
                 history, goto, RingInv, TypeOK, Labels
    <3>3. CASE PushReserve(p)
      <4>1. Claiming' = Claiming
        BY <2>0, <3>0, <3>3, KeepClaim, Zenon DEF PushReserve, Reserve
      <4>2. write_pos % Capacity \in Slots
        BY <2>0, RingAssumption DEF TypeOK, Slots
      <4>3. slot' \in [Threads -> Slots]
        BY <2>0, <3>3, <4>2, Zenon DEF PushReserve, Reserve, TypeOK
      <4> QED BY <2>0, <3>0, <3>3, <4>1, <4>3 DEF PushReserve, Reserve,
                 history, goto, RingInv, TypeOK, Labels
    <3>4. CASE PushWrite(p)
      <4>1. Claiming' = Claiming
        BY <2>0, <3>0, <3>4, KeepClaim, Zenon DEF PushWrite
      <4>2. PICK w \in todo[p] :
              /\ buffer' = [buffer EXCEPT ![slot[p]][w] = reg[p]]
              /\ todo' = [todo EXCEPT ![p] = @ \ {w}]
        BY <3>4, Zenon DEF PushWrite
      <4>3. buffer' \in [Slots -> [Words -> Nat]] /\ todo' \in [Threads -> SUBSET Words]
        BY <2>0, <3>0, <4>2 DEF TypeOK
      <4> QED BY <2>0, <3>0, <3>4, <4>1, <4>3 DEF PushWrite, counters, history,
                 goto, RingInv, TypeOK, Labels
    <3>5. CASE PushPublish(p)
      <4>1. Claiming' = Claiming
        BY <2>0, <3>0, <3>5, KeepClaim, Zenon DEF PushPublish, Publish
      <4>2. accepted' \in Seq(Nat) /\ Len(accepted') = Len(accepted) + 1
        BY <2>0, <3>0, <3>5 DEF PushPublish, Publish, TypeOK
      <4>3. SizeCountsPublished'
        BY <2>0, <3>5, <4>1, <4>2, ClaimingCount DEF PushPublish, Publish,
           TypeOK
      <4> QED BY <2>0, <3>0, <3>5, <4>2, <4>3 DEF PushPublish, Publish, copying, goto,
                 RingInv, TypeOK, Labels
    <3> QED BY <2>1, <3>1, <3>2, <3>3, <3>4, <3>5, Zenon DEF ProducerStep
  <2>2. ASSUME NEW c \in Consumers, ConsumerStep(c) PROVE RingInv'
    <3>0. c \in Threads
      BY Zenon DEF Threads
    <3>1. CASE ReceiveAsync(c)
      <4>1. Claiming' = Claiming
        BY <2>0, <3>0, <3>1, KeepClaim, Zenon DEF ReceiveAsync
      <4> QED BY <2>0, <3>0, <3>1, <4>1, Zenon DEF ReceiveAsync, counters, copying, history,
                 goto, RingInv, TypeOK, Labels, Threads
    <3>2. CASE PopLoadSize(c)
      <4>1. Claiming' = Claiming
        BY <2>0, <3>0, <3>2, KeepClaim, Zenon DEF PopLoadSize
      <4> QED BY <2>0, <3>0, <3>2, <4>1, Zenon DEF PopLoadSize, counters, copying,
                 history, goto, RingInv, TypeOK, Labels, Threads
    <3>3. CASE PopTake(c)
      <4>1. CASE goto(c, "take", "poll") /\ size' = size
        <5>1. Claiming' = Claiming
          BY <2>0, <3>0, <4>1, KeepClaim, Zenon
        <5> QED BY <2>0, <3>0, <3>3, <4>1, <5>1, Zenon DEF PopTake, copying, history, goto,
                   RingInv, TypeOK, Labels, Threads
      <4>2. CASE /\ goto(c, "take", "claim")
                 /\ size = reg[c] /\ size' = size - 1
        <5>1. Cardinality(Claiming') = Cardinality(Claiming) + 1
          BY <2>0, <4>2, EnterClaim, Zenon
        <5>2. size # 0 /\ size \in Nat /\ read_pos \in Nat
          BY <2>0, <4>2, Zenon DEF goto, TypeOK
        <5>3. /\ read_pos' = read_pos /\ accepted' = accepted
              /\ size' = size - 1 /\ size' \in Nat
          BY <3>3, <4>2, <5>2 DEF PopTake, history
        <5>4. SizeCountsPublished'
          BY <2>0, <5>1, <5>2, <5>3, ClaimingCount
        <5>5. TypeOK'
          BY <2>0, <3>0, <3>3, <4>2, <5>3, Zenon DEF PopTake, copying, history, goto, TypeOK,
             Labels
        <5> QED BY <2>0, <3>0, <3>3, <4>2, <5>4, <5>5, Zenon DEF PopTake, goto,
                   RingInv, Threads
      <4> QED BY <3>3, <4>1, <4>2, Zenon DEF PopTake
    <3>4. CASE PopClaim(c)
      <4>1. Cardinality(Claiming') = Cardinality(Claiming) - 1
        BY <2>0, <3>4, LeaveClaim, Zenon DEF PopClaim, Claim
      <4>2. SizeCountsPublished'
        BY <2>0, <3>4, <4>1, ClaimingCount DEF PopClaim, Claim, history, TypeOK
      <4>3. read_pos % Capacity \in Slots
        BY <2>0, RingAssumption DEF TypeOK, Slots
      <4>4. slot' \in [Threads -> Slots]
        BY <2>0, <3>4, <4>3, Zenon DEF PopClaim, Claim, TypeOK
      <4> QED BY <2>0, <3>0, <3>4, <4>2, <4>4 DEF PopClaim, Claim, history,
                 goto, RingInv, TypeOK, Labels, Threads
    <3>5. CASE PopRead(c)
      <4>1. Claiming' = Claiming
        BY <2>0, <3>0, <3>5, KeepClaim, Zenon DEF PopRead
      <4>2. PICK w \in todo[c] :
              /\ item' = [item EXCEPT ![c][w] = buffer[slot[c]][w]]
              /\ todo' = [todo EXCEPT ![c] = @ \ {w}]
        BY <3>5, Zenon DEF PopRead
      <4>3. item' \in [Threads -> [Words -> Nat]] /\ todo' \in [Threads -> SUBSET Words]
        BY <2>0, <3>0, <4>2 DEF TypeOK
      <4>4. received' \in Seq([Words -> Nat])
        <5>1. item'[c] \in [Words -> Nat] /\ received \in Seq([Words -> Nat])
          BY <2>0, <3>0, <4>3, Zenon DEF TypeOK
        <5>2. received' = received \/ received' = Append(received, item'[c])
          BY <3>5, Zenon DEF PopRead
        <5>3. PICK i \in [Words -> Nat] : i = item'[c]
          BY <5>1, Zenon
        <5> DEFINE W == [Words -> Nat]
        <5>4. i \in W /\ received \in Seq(W)
          BY <5>1, <5>3, Zenon
        <5> HIDE DEF W
        <5>5. Append(received, i) \in Seq(W)
          BY <5>4
        <5> QED BY <5>1, <5>2, <5>3, <5>5, Zenon DEF W
      <4>5. /\ pc' \in [Threads -> Labels] /\ pc'[c] # "take"
            /\ \A d \in Consumers \ {c} : pc'[d] = pc[d]
        BY <2>0, <3>0, <3>5, Zenon DEF PopRead, goto, TypeOK, Labels, Threads
      <4>6. UNCHANGED <<active, buffer, write_pos, read_pos, size, reg, slot, next, accepted>>
        BY <3>5, Zenon DEF PopRead, counters
      <4>7. TypeOK'
        BY <2>0, <4>3, <4>4, <4>5, <4>6, Zenon DEF TypeOK
      <4>8. SizeCountsPublished'
        BY <2>0, <4>1, <4>6, Zenon
      <4> QED BY <2>0, <4>5, <4>6, <4>7, <4>8, Zenon DEF RingInv
    <3> QED BY <2>2, <3>1, <3>2, <3>3, <3>4, <3>5, Zenon DEF ConsumerStep
  <2>3. CASE Close
    BY <2>0, <2>3, Zenon DEF Close, counters, copying, history, Claiming, RingInv, TypeOK
  <2>4. CASE UNCHANGED vars
    BY <2>0, <2>4, Zenon DEF vars, counters, copying, history, Claiming, RingInv, TypeOK
  <2> QED BY <2>1, <2>2, <2>3, <2>4, Zenon DEF Next
<1> QED BY <1>1, <1>2, PTL DEF Spec

\* For any number of producers and consumers, size counts the published
\* messages that no pop() has taken (RingBuffer::size, async_channel.rs).
THEOREM RingAccounting == Spec => []SizeCountsPublished
<1>1. RingInv => SizeCountsPublished
  BY Zenon DEF RingInv
<1> QED BY <1>1, RingInvariant, PTL

-----------------------------------------------------------------------------
(* Overfilling.  The size test of push() and the update of size are two    *)
(* steps, so each producer but one may pass the test on the same last free *)
(* slot.                                                                   *)

\* The producers that passed the size test and have not published yet.
Pushing == {p \in Producers : pc[p] \in {"reserve", "write", "publish"}}

\* Every producer past the test is a message more that size will count.
OverfillInv == size + Cardinality(Pushing) < Capacity + Cardinality(Producers)

\* The producers past the test are finite in number; a producer not past it
\* leaves room for one more.
LEMMA PushingCount ==
    /\ IsFiniteSet(Pushing)
    /\ Cardinality(Pushing) \in Nat
    /\ Cardinality(Producers) \in Nat
    /\ Cardinality(Pushing) <= Cardinality(Producers)
    /\ \A p \in Producers \ Pushing : Cardinality(Pushing) < Cardinality(Producers)
<1>1. /\ IsFiniteSet(Pushing) /\ Cardinality(Pushing) \in Nat
      /\ Cardinality(Producers) \in Nat
      /\ Cardinality(Pushing) <= Cardinality(Producers)
      /\ Cardinality(Producers) = Cardinality(Pushing) => Producers = Pushing
  BY RingAssumption, FS_Subset, FS_CardinalityType, Zenon DEF Pushing
<1> QED BY <1>1

\* Every step keeps the bound.
LEMMA OverfillNext == RingInv /\ OverfillInv /\ [Next]_vars => OverfillInv'
<1> SUFFICES ASSUME RingInv, OverfillInv, [Next]_vars PROVE OverfillInv'
  OBVIOUS
<1>0. /\ pc \in [Threads -> Labels] /\ size \in Nat /\ Capacity \in Nat
      /\ size + Cardinality(Pushing) < Capacity + Cardinality(Producers)
  BY RingAssumption, Zenon DEF RingInv, TypeOK, OverfillInv
<1>1. ASSUME Pushing' = Pushing, size' \in Nat, size' <= size PROVE OverfillInv'
  BY <1>0, <1>1, PushingCount DEF OverfillInv
<1>2. ASSUME NEW p \in Producers, ProducerStep(p) PROVE OverfillInv'
  <2>0. p \in Threads
    BY Zenon DEF Threads
  <2>1. CASE SendAsync(p)
    <3>1. Pushing' = Pushing /\ size' = size
      BY <1>0, <2>0, <2>1, Zenon DEF SendAsync, goto, Pushing, Threads, counters
    <3> QED BY <1>0, <1>1, <3>1
  <2>2. CASE PushLoadSize(p)
    <3>1. CASE size >= Capacity
      <4>1. Pushing' = Pushing /\ size' = size
        BY <1>0, <2>0, <2>2, <3>1, Zenon DEF PushLoadSize, LoadSize, goto, Pushing,
           Threads, counters
      <4> QED BY <1>0, <1>1, <4>1
    <3>2. CASE ~(size >= Capacity)
      <4>1. Pushing' = Pushing \cup {p} /\ p \notin Pushing /\ size' = size
        BY <1>0, <2>0, <2>2, <3>2, Zenon DEF PushLoadSize, LoadSize, goto, Pushing,
           Threads, counters
      <4>2. Cardinality(Pushing') = Cardinality(Pushing) + 1
        BY <4>1, PushingCount, FS_AddElement, Zenon
      <4>3. Cardinality(Pushing) < Cardinality(Producers)
        BY <4>1, PushingCount, Zenon
      <4> QED BY <1>0, <3>2, <4>1, <4>2, <4>3, PushingCount DEF OverfillInv
    <3> QED BY <3>1, <3>2, Zenon
  <2>3. CASE PushReserve(p)
    <3>1. Pushing' = Pushing /\ size' = size
      BY <1>0, <2>0, <2>3, Zenon DEF PushReserve, Reserve, goto, Pushing, Threads
    <3> QED BY <1>0, <1>1, <3>1
  <2>4. CASE PushWrite(p)
    <3>1. Pushing' = Pushing /\ size' = size
      BY <1>0, <2>0, <2>4, Zenon DEF PushWrite, goto, Pushing, Threads, counters
    <3> QED BY <1>0, <1>1, <3>1
  <2>5. CASE PushPublish(p)
    <3>1. Pushing' = Pushing \ {p} /\ p \in Pushing /\ size' = size + 1
      BY <1>0, <2>0, <2>5, Zenon DEF PushPublish, Publish, goto, Pushing, Threads
    <3>2. Cardinality(Pushing') = Cardinality(Pushing) - 1
      BY <3>1, PushingCount, FS_RemoveElement, Zenon
    <3> QED BY <1>0, <3>1, <3>2, PushingCount DEF OverfillInv
  <2> QED BY <1>2, <2>1, <2>2, <2>3, <2>4, <2>5, Zenon DEF ProducerStep
<1>3. ASSUME NEW c \in Consumers, ConsumerStep(c) PROVE OverfillInv'
  <2>1. c \in Threads /\ c \notin Producers
    BY RingAssumption, Zenon DEF Threads
  <2>2. \A t \in Threads : t # c => pc'[t] = pc[t]
    BY <1>0, <1>3, <2>1, Zenon DEF ConsumerStep, ReceiveAsync, PopLoadSize, PopTake,
       PopClaim, Claim, PopRead, goto
  <2>3. Pushing' = Pushing
    BY <2>1, <2>2, Zenon DEF Pushing, Threads
  <2>4. size' = size \/ (size' = size - 1 /\ size # 0)
    BY <1>3, Zenon DEF ConsumerStep, ReceiveAsync, PopLoadSize, PopTake, PopClaim,
       Claim, PopRead, goto, counters, RingInv
  <2>5. size' \in Nat /\ size' <= size
    BY <1>0, <2>4
  <2> QED BY <1>1, <2>3, <2>5, Zenon
<1>4. CASE Close \/ UNCHANGED vars
  <2>1. Pushing' = Pushing /\ size' = size
    BY <1>4, Zenon DEF Close, vars, counters, Pushing
  <2> QED BY <1>0, <1>1, <2>1
<1> QED BY <1>2, <1>3, <1>4, Zenon DEF Next

\* With n producers size exceeds the capacity by less than n: each producer
\* but one may slip through the size test of push() on the same free slot.
THEOREM RingOverfill == Spec => []OverfillInv
<1>1. Init => OverfillInv
  <2> SUFFICES ASSUME Init PROVE OverfillInv
    OBVIOUS
  <2>1. Pushing = {} /\ size = 0
    BY Zenon DEF Init, Pushing, Threads
  <2>2. Cardinality(Pushing) = 0
    BY <2>1, FS_EmptySet, Zenon
  <2> QED BY <2>1, <2>2, PushingCount, RingAssumption DEF OverfillInv
<1> QED BY <1>1, RingInvariant, OverfillNext, PTL DEF Spec

\* With one producer the size test of push() keeps size within the capacity,
\* however many consumers there are (RingBuffer::push, RingBuffer::pop).
THEOREM RingWithinCapacity ==
    ASSUME Cardinality(Producers) = 1
    PROVE  Spec => []SizeWithinCapacity
<1>1. RingInv /\ OverfillInv => SizeWithinCapacity
  BY RingAssumption, PushingCount DEF OverfillInv, SizeWithinCapacity, RingInv, TypeOK
<1> QED BY <1>1, RingInvariant, RingOverfill, PTL

-----------------------------------------------------------------------------
(* One producer: its messages are published in the order of their slots,   *)
(* so a message that size counts has been written.                         *)

Unpublished(p) == pc[p] \in {"write", "publish"}

\* The producer p has written the word w of its message.
Copied(p, w) == pc[p] = "publish" \/ (pc[p] = "write" /\ w \notin todo[p])

\* Where the producer p stands: the slot it reserved is the next to publish.
ProducerAt(p) ==
    /\ pc[p] \in {"load", "reserve", "write", "publish"} => reg[p] # Uninit
    /\ write_pos = Len(accepted) + (IF Unpublished(p) THEN 1 ELSE 0)
    /\ Unpublished(p) => slot[p] = Len(accepted) % Capacity
    /\ \A w \in Words : Copied(p, w) => buffer[slot[p]][w] = reg[p]

\* Every word of the slot s was written.
SlotWritten(s) == \A w \in Words : buffer[s][w] # Uninit

\* The consumer c reads a written slot and holds written words only.
ReadsWritten(c) ==
    pc[c] = "read" => /\ SlotWritten(slot[c])
                      /\ \A w \in Words \ todo[c] : item[c][w] # Uninit

\* The inductive invariant behind NeverReadsUninit.
WrittenInv ==
    /\ next # 0
    /\ \A p \in Producers : ProducerAt(p)
    /\ \A k \in 0 .. Len(accepted) - 1 : SlotWritten(k % Capacity)
    /\ \A c \in Consumers : ReadsWritten(c)
    /\ NeverReadsUninit

\* Every step keeps it.
LEMMA WrittenNext ==
    ASSUME Cardinality(Producers) = 1
    PROVE  RingInv /\ WrittenInv /\ [Next]_vars => WrittenInv'
<1> USE SMTT(30)
<1> SUFFICES ASSUME RingInv, WrittenInv, [Next]_vars PROVE WrittenInv'
  OBVIOUS
<1>p. PICK p : Producers = {p}
  BY RingAssumption, FS_Singleton, Zenon
<1>0. /\ p \in Threads /\ p \notin Consumers /\ Consumers \subseteq Threads
      /\ Capacity \in Nat /\ Capacity > 0
      /\ buffer \in [Slots -> [Words -> Nat]]
      /\ write_pos \in Nat /\ read_pos \in Nat /\ size \in Nat
      /\ pc \in [Threads -> Labels] /\ reg \in [Threads -> Nat]
      /\ slot \in [Threads -> Slots] /\ next \in Nat
      /\ todo \in [Threads -> SUBSET Words] /\ item \in [Threads -> [Words -> Nat]]
      /\ accepted \in Seq(Nat) /\ received \in Seq([Words -> Nat])
      /\ Len(accepted) \in Nat /\ Len(received) \in Nat
  <2>1. TypeOK /\ Producers \subseteq Threads /\ Consumers \subseteq Threads
    BY Zenon DEF RingInv, Threads
  <2>2. p \in Threads /\ p \notin Consumers /\ Consumers \subseteq Threads
    BY <1>p, <2>1, RingAssumption, Zenon
  <2>3. Len(accepted) \in Nat /\ Len(received) \in Nat
    BY <2>1 DEF TypeOK
  <2> QED BY <2>1, <2>2, <2>3, RingAssumption DEF TypeOK
<1>1. /\ next # 0 /\ ProducerAt(p)
      /\ \A k \in 0 .. Len(accepted) - 1 : SlotWritten(k % Capacity)
      /\ \A c \in Consumers : ReadsWritten(c)
      /\ NeverReadsUninit
  BY <1>p, Zenon DEF WrittenInv
<1>2. \A k \in Nat : k % Capacity \in Slots
  BY <1>0 DEF Slots
<1>3. ASSUME next' # 0, ProducerAt(p)',
             \A k \in 0 .. Len(accepted') - 1 : SlotWritten(k % Capacity)',
             \A c \in Consumers : ReadsWritten(c)',
             NeverReadsUninit'
      PROVE  WrittenInv'
  BY <1>3, <1>p, Zenon DEF WrittenInv
<1>b. ASSUME buffer' = buffer PROVE \A q : SlotWritten(q)' <=> SlotWritten(q)
  BY <1>b, Zenon DEF SlotWritten
<1>4. CASE ProducerStep(p)
  <2>0. /\ received' = received /\ item' = item
        /\ \A c \in Consumers : pc'[c] = pc[c] /\ slot'[c] = slot[c] /\ todo'[c] = todo[c]
    BY <1>4, <1>0, Zenon DEF ProducerStep, SendAsync, PushLoadSize, LoadSize, PushReserve, Reserve,
       PushWrite, PushPublish, Publish, goto, copying, history
  <2>r. NeverReadsUninit'
    BY <1>1, <2>0, Zenon DEF NeverReadsUninit
  <2>c. ASSUME \A q \in Slots : SlotWritten(q) => SlotWritten(q)'
        PROVE  \A c \in Consumers : ReadsWritten(c)'
    <3> SUFFICES ASSUME NEW c \in Consumers, pc'[c] = "read"
                 PROVE  /\ SlotWritten(slot[c])'
                        /\ \A w \in Words \ todo'[c] : item'[c][w] # Uninit
      BY Zenon DEF ReadsWritten
    <3>1. /\ slot[c] \in Slots /\ SlotWritten(slot[c])
          /\ \A w \in Words \ todo[c] : item[c][w] # Uninit
      BY <1>0, <1>1, <2>0, Zenon DEF ReadsWritten
    <3>2. buffer'[slot'[c]] = buffer'[slot[c]]
      BY <2>0, Zenon
    <3>3. \A w \in Words : buffer'[slot[c]][w] # Uninit
      BY <2>c, <3>1, Zenon DEF SlotWritten
    <3> QED BY <2>0, <3>1, <3>2, <3>3, Zenon DEF SlotWritten
  <2>d. ASSUME buffer' = buffer PROVE \A c \in Consumers : ReadsWritten(c)'
    BY <1>b, <2>c, <2>d, Zenon
  <2>1. CASE SendAsync(p)
    <3>1. buffer' = buffer /\ accepted' = accepted /\ next' = next + 1 /\ next' # 0
      BY <2>1, <1>0 DEF SendAsync
    <3>2. ProducerAt(p)'
      BY <2>1, <1>0, <1>1, <3>1, Zenon DEF SendAsync, goto, counters, ProducerAt, Unpublished,
         Uninit, Copied
    <3> QED BY <1>1, <1>3, <1>b, <2>r, <2>d, <3>1, <3>2, Zenon
  <2>2. CASE PushLoadSize(p)
    <3>1. buffer' = buffer /\ accepted' = accepted /\ next' = next
      BY <2>2, Zenon DEF PushLoadSize, LoadSize, history
    <3>2. ProducerAt(p)'
      BY <2>2, <1>0, <1>1, <3>1, Zenon DEF PushLoadSize, LoadSize, goto, counters, ProducerAt,
         Unpublished, Uninit, Copied
    <3> QED BY <1>1, <1>3, <1>b, <2>r, <2>d, <3>1, <3>2, Zenon
  <2>3. CASE PushReserve(p)
    <3>1. buffer' = buffer /\ accepted' = accepted /\ next' = next
      BY <2>3, Zenon DEF PushReserve, Reserve, history
    <3>2. \A w \in Words : ~Copied(p, w)'
      BY <2>3, <1>0, Zenon DEF PushReserve, Reserve, goto, Copied
    <3>3. ProducerAt(p)'
      BY <2>3, <1>0, <1>1, <3>1, <3>2 DEF PushReserve, Reserve, goto, ProducerAt, Unpublished,
         Uninit
    <3> QED BY <1>1, <1>3, <1>b, <2>r, <2>d, <3>1, <3>3, Zenon
  <2>4. CASE PushWrite(p)
    <3>0. PICK v \in todo[p] :
            /\ buffer' = [buffer EXCEPT ![slot[p]][v] = reg[p]]
            /\ todo' = [todo EXCEPT ![p] = @ \ {v}]
      BY <2>4, Zenon DEF PushWrite
    <3>1. /\ accepted' = accepted /\ next' = next /\ write_pos' = write_pos
          /\ reg' = reg /\ slot' = slot /\ pc[p] = "write" /\ Unpublished(p) /\ Unpublished(p)'
          /\ v \in Words /\ slot[p] \in Slots
          /\ \A w \in Words : Copied(p, w)' => w = v \/ Copied(p, w)
      <4>1. /\ accepted' = accepted /\ next' = next /\ write_pos' = write_pos
            /\ reg' = reg /\ slot' = slot /\ pc[p] = "write"
            /\ pc'[p] = (IF todo'[p] = {} THEN "publish" ELSE "write")
        BY <2>4, <1>0, Zenon DEF PushWrite, goto, history, counters
      <4>2. todo'[p] = todo[p] \ {v} /\ v \in Words /\ slot[p] \in Slots
        BY <1>0, <3>0, Zenon
      <4>3. \A w \in Words : Copied(p, w)' => w = v \/ Copied(p, w)
        BY <4>1, <4>2, Zenon DEF Copied
      <4> QED BY <4>1, <4>2, <4>3, Zenon DEF Unpublished
    <3>2. /\ buffer'[slot[p]][v] = reg[p] /\ reg[p] # 0
          /\ \A q \in Slots, w \in Words :
               ~(q = slot[p] /\ w = v) => buffer'[q][w] = buffer[q][w]
      <4>1. reg[p] # 0
        BY <1>1, <3>1, Zenon DEF ProducerAt, Uninit
      <4> QED BY <1>0, <3>0, <3>1, <4>1
    <3>3. ProducerAt(p)'
      <4>1. \A w \in Words : Copied(p, w)' => buffer'[slot'[p]][w] = reg'[p]
        BY <1>1, <3>1, <3>2, Zenon DEF ProducerAt
      <4> QED BY <1>1, <3>1, <4>1, Zenon DEF ProducerAt
    <3>4. \A q \in Slots : SlotWritten(q) => SlotWritten(q)'
      BY <3>1, <3>2, Zenon DEF SlotWritten, Uninit
    <3>5. \A k \in 0 .. Len(accepted') - 1 : SlotWritten(k % Capacity)'
      <4> SUFFICES ASSUME NEW k \in 0 .. Len(accepted) - 1 PROVE SlotWritten(k % Capacity)'
        BY <3>1, Zenon
      <4>1. k % Capacity \in Slots
        BY <1>0, <1>2
      <4> QED BY <1>1, <3>4, <4>1, Zenon
    <3> QED BY <1>1, <1>3, <2>r, <2>c, <3>1, <3>3, <3>4, <3>5, Zenon
  <2>5. CASE PushPublish(p)
    <3>1. buffer' = buffer /\ next' = next /\ Len(accepted') = Len(accepted) + 1
      BY <2>5, <1>0 DEF PushPublish, Publish
    <3>2. ProducerAt(p)'
      <4>1. \A w \in Words : ~Copied(p, w)'
        BY <2>5, <1>0, Zenon DEF PushPublish, Publish, goto, Copied
      <4> QED BY <2>5, <1>0, <1>1, <3>1, <4>1 DEF PushPublish, Publish, goto, ProducerAt,
                 Unpublished, Uninit
    <3>3. SlotWritten(Len(accepted) % Capacity)
      BY <2>5, <1>1, Zenon DEF PushPublish, Publish, goto, ProducerAt, Unpublished, Uninit,
         Copied, SlotWritten
    <3>4. \A k \in 0 .. Len(accepted') - 1 : SlotWritten(k % Capacity)'
      <4> SUFFICES ASSUME NEW k \in 0 .. Len(accepted') - 1 PROVE SlotWritten(k % Capacity)
        BY <1>b, <3>1, Zenon
      <4>1. k = Len(accepted) \/ k \in 0 .. Len(accepted) - 1
        BY <1>0, <3>1
      <4> QED BY <1>1, <3>3, <4>1, Zenon
    <3> QED BY <1>1, <1>3, <2>r, <2>d, <3>1, <3>2, <3>4, Zenon
  <2> QED BY <1>4, <2>1, <2>2, <2>3, <2>4, <2>5, Zenon DEF ProducerStep
<1>5. ASSUME NEW c \in Consumers, ConsumerStep(c) PROVE WrittenInv'
  <2>0. /\ c \in Threads /\ c # p
        /\ buffer' = buffer /\ accepted' = accepted /\ next' = next
        /\ write_pos' = write_pos /\ pc'[p] = pc[p] /\ reg'[p] = reg[p] /\ slot'[p] = slot[p]
        /\ todo'[p] = todo[p]
    BY <1>0, <1>5, Zenon DEF ConsumerStep, ReceiveAsync, PopLoadSize, PopTake, PopClaim, Claim,
       PopRead, goto, history, counters, copying
  <2>1. ProducerAt(p)'
    BY <1>1, <2>0, Zenon DEF ProducerAt, Unpublished, Copied
  <2>s. \A k \in 0 .. Len(accepted') - 1 : SlotWritten(k % Capacity)'
    BY <1>1, <1>b, <2>0, Zenon
  <2>t. ASSUME NEW d \in Consumers, pc'[d] = pc[d], slot'[d] = slot[d], todo'[d] = todo[d],
               item'[d] = item[d]
        PROVE  ReadsWritten(d)'
    BY <1>1, <2>0, <2>t, Zenon DEF ReadsWritten, SlotWritten
  <2>2. CASE ReceiveAsync(c) \/ PopLoadSize(c) \/ PopTake(c)
    <3>1. /\ received' = received /\ pc'[c] # "read"
          /\ \A d \in Consumers \ {c} : pc'[d] = pc[d]
          /\ slot' = slot /\ todo' = todo /\ item' = item
      BY <1>0, <2>2, Zenon DEF ReceiveAsync, PopLoadSize, PopTake, goto, history, copying
    <3>2. \A d \in Consumers : ReadsWritten(d)'
      BY <2>t, <3>1, Zenon DEF ReadsWritten
    <3>3. NeverReadsUninit'
      BY <1>1, <3>1, Zenon DEF NeverReadsUninit
    <3> QED BY <1>1, <1>3, <2>0, <2>1, <2>s, <3>2, <3>3, Zenon
  <2>3. CASE PopClaim(c)
    <3>1. c \in Claiming
      BY <2>3, Zenon DEF PopClaim, Claim, goto, Claiming
    <3>2. Cardinality(Claiming) # 0
      BY <3>1, ClaimingCount, FS_EmptySet, Zenon
    <3>3. read_pos \in 0 .. Len(accepted) - 1
      BY <1>0, <3>2, ClaimingCount DEF RingInv, SizeCountsPublished, Claiming
    <3>4. /\ received' = received /\ slot'[c] = read_pos % Capacity /\ todo'[c] = Words
          /\ item' = item
          /\ \A d \in Consumers \ {c} : pc'[d] = pc[d] /\ slot'[d] = slot[d] /\ todo'[d] = todo[d]
      BY <1>0, <2>0, <2>3, Zenon DEF PopClaim, Claim, goto, history
    <3>5. ReadsWritten(c)'
      <4>1. SlotWritten(read_pos % Capacity)
        BY <1>1, <3>3, Zenon
      <4> QED BY <2>0, <3>4, <4>1, Zenon DEF ReadsWritten, SlotWritten
    <3>6. \A d \in Consumers : ReadsWritten(d)'
      BY <2>t, <3>4, <3>5, Zenon
    <3>7. NeverReadsUninit'
      BY <1>1, <3>4, Zenon DEF NeverReadsUninit
    <3> QED BY <1>1, <1>3, <2>0, <2>1, <2>s, <3>6, <3>7, Zenon
  <2>4. CASE PopRead(c)
    <3>0. PICK v \in todo[c] :
            /\ item' = [item EXCEPT ![c][v] = buffer[slot[c]][v]]
            /\ todo' = [todo EXCEPT ![c] = @ \ {v}]
      BY <2>4, Zenon DEF PopRead
    <3>1. /\ pc[c] = "read" /\ slot' = slot /\ v \in Words /\ slot[c] \in Slots
          /\ todo'[c] = todo[c] \ {v} /\ item'[c] = [item[c] EXCEPT ![v] = buffer[slot[c]][v]]
          /\ \A d \in Consumers \ {c} : pc'[d] = pc[d] /\ todo'[d] = todo[d] /\ item'[d] = item[d]
      BY <1>0, <2>0, <2>4, <3>0, Zenon DEF PopRead, goto
    <3>2. \A w \in Words \ todo'[c] : item'[c][w] # Uninit
      <4>1. /\ \A w \in Words \ todo[c] : item[c][w] # Uninit
            /\ buffer[slot[c]][v] # Uninit
        BY <1>1, <3>1, Zenon DEF ReadsWritten, SlotWritten
      <4>2. item[c] \in [Words -> Nat]
        BY <1>0, <2>0, Zenon
      <4> QED BY <3>1, <4>1, <4>2, Zenon
    <3>3. ReadsWritten(c)'
      BY <1>1, <2>0, <3>1, <3>2, Zenon DEF ReadsWritten, SlotWritten
    <3>4. \A d \in Consumers : ReadsWritten(d)'
      BY <2>t, <3>1, <3>3, Zenon
    <3>5. NeverReadsUninit'
      <4>1. CASE received' = received
        BY <1>1, <4>1, Zenon DEF NeverReadsUninit
      <4>2. CASE todo'[c] = {} /\ received' = Append(received, item'[c])
        <5>1. item'[c] \in [Words -> Nat] /\ \A w \in Words : item'[c][w] # Uninit
          <6>1. item[c] \in [Words -> Nat] /\ buffer[slot[c]][v] \in Nat
            <7>1. item[c] \in [Words -> Nat] /\ buffer[slot[c]] \in [Words -> Nat]
              BY <1>0, <2>0, <3>1, Zenon
            <7> QED BY <3>1, <7>1, Zenon
          <6>2. item'[c] \in [Words -> Nat]
            BY <3>1, <6>1, Zenon
          <6> QED BY <3>2, <4>2, <6>2, Zenon
        <5>2. /\ Len(received') = Len(received) + 1
              /\ received'[Len(received) + 1] = item'[c]
              /\ \A i \in 1 .. Len(received) : received'[i] = received[i]
          BY <1>0, <4>2, <5>1
        <5>3. \A i \in 1 .. Len(received') : i \in 1 .. Len(received) \/ i = Len(received) + 1
          BY <1>0, <5>2
        <5> QED BY <1>1, <5>1, <5>2, <5>3, Zenon DEF NeverReadsUninit
      <4> QED BY <2>4, <4>1, <4>2, Zenon DEF PopRead
    <3> QED BY <1>1, <1>3, <2>0, <2>1, <2>s, <3>4, <3>5, Zenon
  <2> QED BY <1>5, <2>2, <2>3, <2>4, Zenon DEF ConsumerStep
<1>6. CASE Close \/ UNCHANGED vars
  <2>1. UNCHANGED <<buffer, write_pos, pc, reg, slot, todo, item, next, accepted, received>>
    BY <1>6, Zenon DEF Close, vars, counters, copying, history
  <2>2. ProducerAt(p)' /\ NeverReadsUninit'
    BY <1>1, <2>1, Zenon DEF ProducerAt, Unpublished, Copied, NeverReadsUninit
  <2>3. \A c \in Consumers : ReadsWritten(c)'
    BY <1>1, <2>1, Zenon DEF ReadsWritten, SlotWritten
  <2> QED BY <1>1, <1>3, <1>b, <2>1, <2>2, <2>3, Zenon
<1> QED BY <1>p, <1>4, <1>5, <1>6, Zenon DEF Next

\* The initial state satisfies it.
LEMMA WrittenInit == Init => WrittenInv
<1> SUFFICES ASSUME Init PROVE WrittenInv
  OBVIOUS
<1>1. next # 0 /\ Len(accepted) = 0 /\ Len(received) = 0 /\ write_pos = 0
  BY DEF Init
<1>2. \A t \in Threads : pc[t] = "idle"
  BY Zenon DEF Init
<1>3. \A p \in Producers : ProducerAt(p)
  <2> SUFFICES ASSUME NEW p \in Producers PROVE ProducerAt(p)
    OBVIOUS
  <2>1. pc[p] = "idle"
    BY <1>2, Zenon DEF Threads
  <2> QED BY <1>1, <2>1 DEF ProducerAt, Unpublished, Copied
<1>4. \A c \in Consumers : ReadsWritten(c)
  BY <1>2, Zenon DEF ReadsWritten, Threads
<1>5. 0 .. Len(accepted) - 1 = {} /\ 1 .. Len(received) = {}
  BY <1>1
<1> QED BY <1>1, <1>3, <1>4, <1>5, Zenon DEF WrittenInv, NeverReadsUninit

\* With one producer and any number of consumers, pop() never returns a word
\* of a slot that was not written: the SAFETY comment of RingBuffer::pop holds.
THEOREM RingReadsWritten ==
    ASSUME Cardinality(Producers) = 1
    PROVE  Spec => []NeverReadsUninit
<1>1. Init => WrittenInv
  BY WrittenInit, Zenon
<1>2. WrittenInv => NeverReadsUninit
  BY Zenon DEF WrittenInv
<1> QED BY <1>1, <1>2, RingInvariant, WrittenNext, PTL DEF Spec

-----------------------------------------------------------------------------
(* One producer and one consumer.                                          *)

\* The messages whose slot the producer p reserved, in that order.
Offered(p) == IF Unpublished(p) THEN Append(accepted, reg[p]) ELSE accepted

\* The slot of the k-th of them.
SlotOf(k) == (k - 1) % Capacity

\* How many of them have their word w in the slot.
Written(p, w) == Len(accepted) + (IF Copied(p, w) THEN 1 ELSE 0)

\* Word by word, the slots hold the messages of the last lap.
SlotsHold(p) ==
    \A w \in Words : \A k \in 1 .. Written(p, w) :
        k + Capacity > Written(p, w) => buffer[SlotOf(k)][w] = Offered(p)[k]

\* The consumer c is about to read the slot of the message after those received.
ConsumerAt(c) ==
    /\ read_pos = Len(received) + (IF pc[c] = "read" THEN 1 ELSE 0)
    /\ pc[c] = "read" => slot[c] = Len(received) % Capacity

\* The word v is one of the i-th message or of the message a lap later.
Fits(p, i, v) ==
    \E j \in {i, i + Capacity} \cap 1 .. Len(Offered(p)) : v = Offered(p)[j]

\* The words that the consumer c has copied so far are such words.
Holding(p, c) ==
    pc[c] = "read" => \A w \in Words \ todo[c] : Fits(p, Len(received) + 1, item[c][w])

\* OneLapAtMost, for the producer p.
Explained(p) ==
    \A i \in 1 .. Len(received) : \A w \in Words : Fits(p, i, received[i][w])

\* The inductive invariant behind OneLapAtMost.
LapInv ==
    /\ \A p \in Producers : SlotsHold(p) /\ Explained(p)
    /\ \A c \in Consumers : ConsumerAt(c)
    /\ \A p \in Producers, c \in Consumers : Holding(p, c)

\* The remainders modulo Capacity that address the slots.
LEMMA DivMod ==
    ASSUME NEW a \in Nat
    PROVE  \E q \in Nat, r \in Slots : r = a % Capacity /\ a = Capacity * q + r
<1> DEFINE q == a \div Capacity
           r == a % Capacity
<1>0. Capacity \in Nat /\ Capacity > 0
  BY RingAssumption
<1>1. r \in Slots /\ q \in Nat /\ a - r = Capacity * q
  BY <1>0 DEF Slots
<1> HIDE DEF q, r
<1>2. Capacity * q \in Nat
  BY <1>0, <1>1
<1>3. a = Capacity * q + r
  BY <1>0, <1>1, <1>2 DEF Slots
<1> QED BY <1>1, <1>3, Zenon DEF r

\* Positions less than a lap apart use different slots.
LEMMA ModApart ==
    ASSUME NEW a \in Nat, NEW b \in Nat, a < b, b < a + Capacity
    PROVE  a % Capacity # b % Capacity
<1>0. Capacity \in Nat /\ Capacity > 0
  BY RingAssumption
<1> SUFFICES ASSUME a % Capacity = b % Capacity PROVE FALSE
  OBVIOUS
<1>1. PICK q \in Nat, r \in Slots : r = a % Capacity /\ a = Capacity * q + r
  BY DivMod, Zenon
<1>2. PICK p \in Nat, s \in Slots : s = b % Capacity /\ b = Capacity * p + s
  BY DivMod, Zenon
<1>3. r = s
  BY <1>1, <1>2, Zenon
<1>4. Capacity * p - Capacity * q \in 1 .. Capacity - 1
  BY <1>0, <1>1, <1>2, <1>3 DEF Slots
<1>5. p >= q + 1
  BY <1>0, <1>4
<1>6. Capacity * p >= Capacity * (q + 1) /\ Capacity * (q + 1) = Capacity * q + Capacity
  BY <1>0, <1>5
<1> QED BY <1>0, <1>4, <1>6

\* A position and the one a lap later use the same slot.
LEMMA ModLap ==
    ASSUME NEW a \in Nat
    PROVE  (a + Capacity) % Capacity = a % Capacity
<1>0. Capacity \in Nat /\ Capacity > 0
  BY RingAssumption
<1>1. PICK q \in Nat, r \in Slots : r = a % Capacity /\ a = Capacity * q + r
  BY DivMod, Zenon
<1>2. a + Capacity \in Nat
  BY <1>0
<1>3. PICK p \in Nat, s \in Slots : s = (a + Capacity) % Capacity /\ a + Capacity = Capacity * p + s
  BY <1>2, DivMod, Zenon
<1>4. Capacity * (q + 1) = Capacity * q + Capacity
  BY <1>0
<1>5. Capacity * (q + 1) + r = Capacity * p + s /\ q + 1 \in Nat
  BY <1>0, <1>1, <1>3, <1>4
<1>6. ASSUME q + 1 < p PROVE FALSE
  <2>1. Capacity * p >= Capacity * (q + 2) /\ Capacity * (q + 2) = Capacity * (q + 1) + Capacity
    BY <1>0, <1>6
  <2> QED BY <1>0, <1>5, <2>1 DEF Slots
<1>7. ASSUME p < q + 1 PROVE FALSE
  <2>1. Capacity * (q + 1) >= Capacity * (p + 1) /\ Capacity * (p + 1) = Capacity * p + Capacity
    BY <1>0, <1>7
  <2> QED BY <1>0, <1>5, <2>1 DEF Slots
<1>8. p = q + 1
  BY <1>6, <1>7
<1> QED BY <1>0, <1>1, <1>3, <1>5, <1>8 DEF Slots

\* Every step keeps LapInv.
LEMMA LapNext ==
    ASSUME Cardinality(Producers) = 1, Cardinality(Consumers) = 1
    PROVE  RingInv /\ OverfillInv /\ WrittenInv /\ LapInv /\ [Next]_vars => LapInv'
<1> USE SMTT(30)
<1> SUFFICES ASSUME RingInv, OverfillInv, WrittenInv, LapInv, [Next]_vars PROVE LapInv'
  OBVIOUS
<1>p. PICK p : Producers = {p}
  BY RingAssumption, FS_Singleton, Zenon
<1>c. PICK c : Consumers = {c}
  BY RingAssumption, FS_Singleton, Zenon
<1>n. c # p
  BY <1>p, <1>c, RingAssumption, Zenon
<1>0. /\ p \in Threads /\ c \in Threads /\ c # p
      /\ Capacity \in Nat /\ Capacity > 0
      /\ buffer \in [Slots -> [Words -> Nat]]
      /\ write_pos \in Nat /\ read_pos \in Nat /\ size \in Nat
      /\ pc \in [Threads -> Labels] /\ reg \in [Threads -> Nat]
      /\ slot \in [Threads -> Slots] /\ next \in Nat
      /\ todo \in [Threads -> SUBSET Words] /\ item \in [Threads -> [Words -> Nat]]
      /\ accepted \in Seq(Nat) /\ received \in Seq([Words -> Nat])
      /\ Len(accepted) \in Nat /\ Len(received) \in Nat
  <2>1. TypeOK /\ Producers \subseteq Threads /\ Consumers \subseteq Threads
    BY Zenon DEF RingInv, Threads
  <2>2. p \in Threads /\ c \in Threads /\ c # p
    BY <1>p, <1>c, <1>n, <2>1, Zenon
  <2>3. Len(accepted) \in Nat /\ Len(received) \in Nat
    BY <2>1 DEF TypeOK
  <2> QED BY <2>1, <2>2, <2>3, RingAssumption DEF TypeOK
<1>1. ProducerAt(p)
  BY <1>p, Zenon DEF WrittenInv
<1>2. SlotsHold(p) /\ Explained(p) /\ ConsumerAt(c) /\ Holding(p, c)
  BY <1>p, <1>c, Zenon DEF LapInv
<1>3. /\ \A k \in Nat : k % Capacity \in Slots
      /\ Offered(p) \in Seq(Nat)
      /\ Len(Offered(p)) = Len(accepted) + (IF Unpublished(p) THEN 1 ELSE 0)
      /\ Len(Offered(p)) \in Nat
  BY <1>0 DEF Slots, Offered
<1>4. ASSUME SlotsHold(p)', Explained(p)', ConsumerAt(c)', Holding(p, c)' PROVE LapInv'
  BY <1>4, <1>p, <1>c, Zenon DEF LapInv
<1>a. ASSUME Offered(p)' = Offered(p), \A w \in Words : Written(p, w)' = Written(p, w),
             buffer' = buffer
      PROVE  SlotsHold(p)'
  BY <1>2, <1>a, Zenon DEF SlotsHold
<1>f. ASSUME Len(Offered(p)') \in Nat, Len(Offered(p)') >= Len(Offered(p)),
             \A k \in 1 .. Len(Offered(p)) : Offered(p)'[k] = Offered(p)[k]
      PROVE  \A i, v : Fits(p, i, v) => Fits(p, i, v)'
  <2>1. \A k \in 1 .. Len(Offered(p)) :
           k \in 1 .. Len(Offered(p)') /\ Offered(p)'[k] = Offered(p)[k]
    BY <1>3, <1>f
  <2> SUFFICES ASSUME NEW i, NEW v, Fits(p, i, v) PROVE Fits(p, i, v)'
    OBVIOUS
  <2>2. PICK j \in {i, i + Capacity} \cap 1 .. Len(Offered(p)) : v = Offered(p)[j]
    BY Zenon DEF Fits
  <2>3. j \in {i, i + Capacity} \cap 1 .. Len(Offered(p)') /\ v = Offered(p)'[j]
    BY <2>1, <2>2, Zenon
  <2> QED BY <2>3, Zenon DEF Fits
<1>g. ASSUME Offered(p)' = Offered(p) PROVE \A i, v : Fits(p, i, v) <=> Fits(p, i, v)'
  BY <1>g, Zenon DEF Fits
<1>b. ASSUME UNCHANGED <<received, read_pos>>, pc'[c] = pc[c], slot'[c] = slot[c],
             todo'[c] = todo[c], item' = item,
             \A i, v : Fits(p, i, v) => Fits(p, i, v)'
      PROVE  ConsumerAt(c)' /\ Explained(p)' /\ Holding(p, c)'
  <2>1. ConsumerAt(c)'
    BY <1>2, <1>b, Zenon DEF ConsumerAt
  <2>2. Explained(p)'
    BY <1>2, <1>b, Zenon DEF Explained
  <2>3. Holding(p, c)'
    BY <1>2, <1>b, Zenon DEF Holding
  <2> QED BY <2>1, <2>2, <2>3, Zenon
<1>5. CASE ProducerStep(p)
  <2>0. /\ received' = received /\ read_pos' = read_pos
        /\ pc'[c] = pc[c] /\ slot'[c] = slot[c] /\ todo'[c] = todo[c] /\ item' = item
    BY <1>5, <1>0, Zenon DEF ProducerStep, SendAsync, PushLoadSize, LoadSize, PushReserve, Reserve,
       PushWrite, PushPublish, Publish, goto, history, counters, copying
  <2>c. ASSUME Offered(p)' = Offered(p)
        PROVE  ConsumerAt(c)' /\ Explained(p)' /\ Holding(p, c)'
    BY <1>b, <1>g, <2>0, <2>c, Zenon
  <2>1. CASE SendAsync(p) \/ PushLoadSize(p)
    <3>1. /\ Offered(p)' = Offered(p) /\ buffer' = buffer
          /\ \A w \in Words : Written(p, w)' = Written(p, w)
      BY <2>1, <1>0, Zenon DEF SendAsync, PushLoadSize, LoadSize, goto, history, copying, Offered,
         Written, Unpublished, Copied
    <3> QED BY <1>4, <1>a, <2>c, <3>1, Zenon
  <2>3. CASE PushReserve(p)
    <3>1. /\ Offered(p) = accepted /\ Offered(p)' = Append(accepted, reg[p]) /\ buffer' = buffer
      BY <2>3, <1>0 DEF PushReserve, Reserve, goto, history, Offered, Unpublished
    <3>w. \A w \in Words : Written(p, w) = Len(accepted) /\ Written(p, w)' = Len(accepted)
      <4>1. \A w \in Words : ~Copied(p, w) /\ ~Copied(p, w)'
        BY <2>3, <1>0, Zenon DEF PushReserve, Reserve, goto, Copied
      <4>2. accepted' = accepted
        BY <2>3, Zenon DEF PushReserve, Reserve, history
      <4> QED BY <1>0, <4>1, <4>2 DEF Written
    <3>2. /\ \A k \in 1 .. Len(accepted) : Offered(p)'[k] = Offered(p)[k]
          /\ Len(Offered(p)') = Len(accepted) + 1
      BY <3>1, <1>0
    <3>3. \A i, v : Fits(p, i, v) => Fits(p, i, v)'
      <4>1. Len(Offered(p)') \in Nat /\ Len(Offered(p)') >= Len(Offered(p))
        BY <1>0, <3>1, <3>2
      <4> QED BY <1>f, <3>1, <3>2, <4>1, Zenon
    <3>4. SlotsHold(p)'
      BY <1>0, <1>2, <3>1, <3>2, <3>w, Zenon DEF SlotsHold
    <3> QED BY <1>4, <1>b, <2>0, <3>3, <3>4, Zenon
  <2>4. CASE PushWrite(p)
    <3>0. PICK v \in todo[p] :
            /\ buffer' = [buffer EXCEPT ![slot[p]][v] = reg[p]]
            /\ todo' = [todo EXCEPT ![p] = @ \ {v}]
      BY <2>4, Zenon DEF PushWrite
    <3>1. /\ accepted' = accepted /\ reg' = reg /\ pc[p] = "write"
          /\ pc'[p] = (IF todo'[p] = {} THEN "publish" ELSE "write")
          /\ v \in Words /\ slot[p] \in Slots /\ slot[p] = Len(accepted) % Capacity
          /\ todo'[p] = todo[p] \ {v}
      BY <2>4, <1>0, <1>1, <3>0, Zenon DEF PushWrite, goto, history, ProducerAt, Unpublished
    <3>2. /\ Offered(p)' = Offered(p) /\ Offered(p) = Append(accepted, reg[p])
          /\ Offered(p)[Len(accepted) + 1] = reg[p]
      <4>1. Offered(p)' = Offered(p) /\ Offered(p) = Append(accepted, reg[p])
        BY <3>1, Zenon DEF Offered, Unpublished
      <4> QED BY <1>0, <4>1
    <3>3. /\ Written(p, v) = Len(accepted) /\ Written(p, v)' = Len(accepted) + 1
          /\ \A w \in Words : w # v => Written(p, w)' = Written(p, w)
      <4>1. /\ ~Copied(p, v) /\ Copied(p, v)'
            /\ \A w \in Words : w # v => (Copied(p, w)' <=> Copied(p, w))
        <5>1. \A w \in Words : Copied(p, w) <=> w \notin todo[p]
          BY <3>1, Zenon DEF Copied
        <5>2. \A w \in Words : Copied(p, w)' <=> w \notin todo'[p]
          BY <3>1, Zenon DEF Copied
        <5> QED BY <3>1, <5>1, <5>2, Zenon
      <4> QED BY <1>0, <3>1, <4>1 DEF Written
    <3>4. /\ buffer'[slot[p]][v] = reg[p]
          /\ \A q \in Slots, w \in Words :
               ~(q = slot[p] /\ w = v) => buffer'[q][w] = buffer[q][w]
      BY <1>0, <3>0, <3>1
    <3>5. ASSUME NEW w \in Words, NEW k \in 1 .. Written(p, w)', k + Capacity > Written(p, w)'
          PROVE  buffer'[SlotOf(k)][w] = Offered(p)'[k]
      <4>0. Written(p, w) \in Nat /\ Written(p, w)' \in Nat /\ Written(p, w) \in {Len(accepted), Len(accepted) + 1}
        BY <1>0, <3>1 DEF Written
      <4>1. SlotOf(k) \in Slots /\ k \in Nat /\ k - 1 \in Nat
        BY <1>3, <3>5, <4>0 DEF SlotOf
      <4>2. CASE w # v
        <5>1. k \in 1 .. Written(p, w) /\ k + Capacity > Written(p, w)
          BY <3>3, <3>5, <4>2, Zenon
        <5> QED BY <1>2, <3>2, <3>4, <4>1, <4>2, <5>1, Zenon DEF SlotsHold
      <4>3. CASE w = v /\ k = Len(accepted) + 1
        <5>1. SlotOf(k) = slot[p]
          BY <1>0, <3>1, <4>3 DEF SlotOf
        <5> QED BY <3>2, <3>4, <4>3, <5>1, Zenon
      <4>4. CASE w = v /\ k # Len(accepted) + 1
        <5>1. /\ k \in 1 .. Written(p, w) /\ k + Capacity > Written(p, w)
              /\ k - 1 < Len(accepted) /\ Len(accepted) < (k - 1) + Capacity
          BY <1>0, <3>3, <3>5, <4>1, <4>4
        <5>2. SlotOf(k) # slot[p]
          BY <1>0, <3>1, <4>1, <5>1, ModApart, Zenon DEF SlotOf
        <5> QED BY <1>2, <3>2, <3>4, <4>1, <5>1, <5>2, Zenon DEF SlotsHold
      <4> QED BY <4>2, <4>3, <4>4, Zenon
    <3>6. SlotsHold(p)'
      BY <3>5, Zenon DEF SlotsHold
    <3> QED BY <1>4, <2>c, <3>2, <3>6, Zenon
  <2>5. CASE PushPublish(p)
    <3>1. Offered(p)' = Offered(p) /\ buffer' = buffer
      BY <2>5, <1>0 DEF PushPublish, Publish, goto, Offered, Unpublished
    <3>2. \A w \in Words : Written(p, w)' = Written(p, w)
      <4>1. \A w \in Words : Copied(p, w) /\ ~Copied(p, w)'
        BY <2>5, <1>0, Zenon DEF PushPublish, Publish, goto, Copied
      <4>2. Len(accepted') = Len(accepted) + 1
        BY <2>5, <1>0 DEF PushPublish, Publish
      <4> QED BY <1>0, <4>1, <4>2 DEF Written
    <3> QED BY <1>4, <1>a, <2>c, <3>1, <3>2, Zenon
  <2> QED BY <1>5, <2>1, <2>3, <2>4, <2>5, Zenon DEF ProducerStep
<1>6. CASE ConsumerStep(c)
  <2>0. /\ Offered(p)' = Offered(p) /\ buffer' = buffer
        /\ \A w \in Words : Written(p, w)' = Written(p, w)
    <3>1. /\ buffer' = buffer /\ accepted' = accepted /\ pc'[p] = pc[p] /\ reg'[p] = reg[p]
          /\ todo'[p] = todo[p]
      BY <1>0, <1>6, Zenon DEF ConsumerStep, ReceiveAsync, PopLoadSize, PopTake, PopClaim, Claim,
         PopRead, goto, history, counters, copying
    <3> QED BY <3>1, Zenon DEF Offered, Written, Unpublished, Copied
  <2>h. SlotsHold(p)' /\ \A i, v : Fits(p, i, v) <=> Fits(p, i, v)'
    BY <1>a, <1>g, <2>0, Zenon
  <2>1. CASE ReceiveAsync(c) \/ PopLoadSize(c) \/ PopTake(c)
    <3>1. /\ received' = received /\ read_pos' = read_pos
          /\ pc[c] # "read" /\ pc'[c] # "read"
      BY <1>0, <2>1, Zenon DEF ReceiveAsync, PopLoadSize, PopTake, goto, history, counters
    <3>2. ConsumerAt(c)' /\ Holding(p, c)'
      BY <1>2, <3>1, Zenon DEF ConsumerAt, Holding
    <3>3. Explained(p)'
      BY <1>2, <2>h, <3>1, Zenon DEF Explained
    <3> QED BY <1>4, <2>h, <3>2, <3>3, Zenon
  <2>2. CASE PopClaim(c)
    <3>1. /\ received' = received /\ read_pos' = read_pos + 1 /\ todo'[c] = Words
          /\ pc[c] # "read" /\ pc'[c] = "read" /\ slot'[c] = read_pos % Capacity
      BY <1>0, <2>2, Zenon DEF PopClaim, Claim, goto, history
    <3>2. ConsumerAt(c)'
      BY <1>2, <3>1 DEF ConsumerAt
    <3>3. Explained(p)' /\ Holding(p, c)'
      BY <1>2, <2>h, <3>1, Zenon DEF Explained, Holding
    <3> QED BY <1>4, <2>h, <3>2, <3>3, Zenon
  <2>3. CASE PopRead(c)
    <3>0. PICK i \in Nat : i = Len(received) + 1
      BY <1>0
    <3>v. PICK v \in todo[c] :
            /\ item' = [item EXCEPT ![c][v] = buffer[slot[c]][v]]
            /\ todo' = [todo EXCEPT ![c] = @ \ {v}]
      BY <2>3, Zenon DEF PopRead
    <3>1. /\ read_pos' = read_pos /\ pc[c] = "read" /\ slot' = slot /\ v \in Words
          /\ todo'[c] = todo[c] \ {v}
          /\ item'[c] = [item[c] EXCEPT ![v] = buffer[slot[c]][v]]
          /\ item[c] \in [Words -> Nat]
      BY <1>0, <2>3, <3>v, Zenon DEF PopRead, goto, counters
    <3>2. slot[c] = SlotOf(i) /\ read_pos = i
      BY <1>0, <1>2, <3>0, <3>1 DEF SlotOf, ConsumerAt
    <3>3. Cardinality(Claiming) = 0
      <4>1. Claiming = {}
        BY <1>c, <3>1, Zenon DEF Claiming
      <4> QED BY <4>1, FS_EmptySet, Zenon
    <3>4. Len(accepted) = size + i
      BY <1>0, <3>2, <3>3 DEF RingInv, SizeCountsPublished, Claiming
    <3>5. size <= Capacity /\ (Unpublished(p) => size < Capacity)
      <4>1. size + Cardinality(Pushing) <= Capacity /\ Cardinality(Pushing) \in Nat
        BY <1>0, PushingCount DEF OverfillInv
      <4>2. Unpublished(p) => Cardinality(Pushing) # 0
        <5>1. Unpublished(p) => p \in Pushing
          BY <1>p, Zenon DEF Unpublished, Pushing
        <5> QED BY <5>1, PushingCount, FS_EmptySet, Zenon
      <4> QED BY <1>0, <4>1, <4>2
    <3> DEFINE n == Written(p, v)
    <3>6. i <= n /\ n <= i + Capacity /\ n \in Nat /\ n <= Len(Offered(p))
      <4>1. n \in {Len(accepted), Len(accepted) + 1} /\ (n = Len(accepted) + 1 => Unpublished(p))
        BY <1>0 DEF Written, Copied, Unpublished
      <4> HIDE DEF n
      <4> QED BY <1>0, <1>3, <3>4, <3>5, <4>1
    <3>s. \A k \in 1 .. n : k + Capacity > n => buffer[SlotOf(k)][v] = Offered(p)[k]
      BY <1>2, <3>1, Zenon DEF SlotsHold
    <3> HIDE DEF n
    <3>7. Fits(p, i, buffer[slot[c]][v])
      <4>1. CASE n < i + Capacity
        <5>1. i \in 1 .. n /\ i + Capacity > n /\ i \in 1 .. Len(Offered(p))
          BY <1>0, <1>3, <3>0, <3>6, <4>1
        <5> QED BY <3>2, <3>s, <5>1, Zenon DEF Fits
      <4>2. CASE n = i + Capacity
        <5>1. SlotOf(i + Capacity) = SlotOf(i)
          <6>1. i - 1 \in Nat /\ (i - 1) + Capacity = (i + Capacity) - 1
            BY <1>0, <3>0
          <6> QED BY <6>1, ModLap, Zenon DEF SlotOf
        <5>2. /\ i + Capacity \in 1 .. n /\ (i + Capacity) + Capacity > n
              /\ i + Capacity \in 1 .. Len(Offered(p))
          BY <1>0, <1>3, <3>0, <3>6, <4>2
        <5>3. buffer[SlotOf(i + Capacity)][v] = Offered(p)[i + Capacity]
          BY <3>s, <5>2, Zenon
        <5> QED BY <3>2, <5>1, <5>2, <5>3, Zenon DEF Fits
      <4>3. n < i + Capacity \/ n = i + Capacity
        BY <3>6, RingAssumption
      <4> QED BY <4>1, <4>2, <4>3, Zenon
    <3>8. \A w \in Words \ todo'[c] : Fits(p, i, item'[c][w])
      <4>1. \A w \in Words \ todo[c] : Fits(p, i, item[c][w])
        BY <1>2, <3>0, <3>1, Zenon DEF Holding
      <4>2. item'[c][v] = buffer[slot[c]][v] /\ \A w \in Words : w # v => item'[c][w] = item[c][w]
        BY <3>1, Zenon
      <4> QED BY <3>1, <3>7, <4>1, <4>2, Zenon
    <3>9. CASE todo'[c] # {} /\ pc'[c] = "read" /\ received' = received
      <4>1. ConsumerAt(c)' /\ Holding(p, c)'
        BY <1>2, <2>h, <3>0, <3>1, <3>8, <3>9, Zenon DEF ConsumerAt, Holding
      <4>2. Explained(p)'
        BY <1>2, <2>h, <3>9, Zenon DEF Explained
      <4> QED BY <1>4, <2>h, <4>1, <4>2, Zenon
    <3>10. CASE todo'[c] = {} /\ pc'[c] = "idle" /\ received' = Append(received, item'[c])
      <4>1. /\ Len(received') = i /\ received'[i] = item'[c]
            /\ \A k \in 1 .. Len(received) : received'[k] = received[k]
        <5> DEFINE b == item'[c]
        <5>1. b \in [Words -> Nat]
          <6>1. buffer[slot[c]] \in [Words -> Nat]
            BY <1>0, Zenon
          <6>2. buffer[slot[c]][v] \in Nat
            BY <3>1, <6>1, Zenon
          <6> QED BY <3>1, <6>2, Zenon
        <5>2. received' = Append(received, b) /\ b = item'[c]
          BY <3>10, Zenon
        <5> HIDE DEF b
        <5>3. /\ Len(received') = i /\ received'[i] = b
              /\ \A k \in 1 .. Len(received) : received'[k] = received[k]
          BY <1>0, <3>0, <5>1, <5>2
        <5> QED BY <5>2, <5>3, Zenon
      <4>2. Explained(p)'
        <5> SUFFICES ASSUME NEW k \in 1 .. Len(received'), NEW w \in Words
                     PROVE  Fits(p, k, received'[k][w])
          BY <2>h, Zenon DEF Explained
        <5>1. k = i \/ k \in 1 .. Len(received)
          BY <1>0, <3>0, <4>1
        <5>2. CASE k = i
          BY <3>8, <3>10, <4>1, <5>2, Zenon
        <5>3. CASE k \in 1 .. Len(received)
          BY <1>2, <4>1, <5>3, Zenon DEF Explained
        <5> QED BY <5>1, <5>2, <5>3, Zenon
      <4>3. ConsumerAt(c)' /\ Holding(p, c)'
        BY <1>0, <3>1, <3>2, <3>10, <4>1 DEF ConsumerAt, Holding
      <4> QED BY <1>4, <2>h, <4>2, <4>3, Zenon
    <3> QED BY <1>0, <2>3, <3>9, <3>10, Zenon DEF PopRead, goto
  <2> QED BY <1>6, <2>1, <2>2, <2>3, Zenon DEF ConsumerStep
<1>7. CASE Close \/ UNCHANGED vars
  <2>1. UNCHANGED <<buffer, read_pos, pc, reg, slot, todo, item, accepted, received>>
    BY <1>7, Zenon DEF Close, vars, counters, copying, history
  <2>2. Offered(p)' = Offered(p) /\ \A w \in Words : Written(p, w)' = Written(p, w)
    BY <2>1, Zenon DEF Offered, Written, Unpublished, Copied
  <2> QED BY <1>4, <1>a, <1>b, <1>g, <2>1, <2>2, Zenon
<1> QED BY <1>p, <1>c, <1>5, <1>6, <1>7, Zenon DEF Next

\* The initial state satisfies LapInv.
LEMMA LapInit == Init => LapInv
<1> SUFFICES ASSUME Init PROVE LapInv
  OBVIOUS
<1>1. Len(accepted) = 0 /\ Len(received) = 0 /\ read_pos = 0 /\ 1 .. Len(received) = {}
  BY DEF Init
<1>2. \A t \in Threads : pc[t] = "idle"
  BY Zenon DEF Init
<1>3. ASSUME NEW p \in Producers PROVE SlotsHold(p) /\ Explained(p)
  <2>1. \A w \in Words : ~Copied(p, w)
    BY <1>2, Zenon DEF Copied, Threads
  <2>2. \A w \in Words : 1 .. Written(p, w) = {}
    BY <1>1, <2>1 DEF Written
  <2> QED BY <1>1, <2>2, Zenon DEF SlotsHold, Explained
<1>4. ASSUME NEW c \in Consumers PROVE ConsumerAt(c)
  <2>1. pc[c] = "idle"
    BY <1>2, Zenon DEF Threads
  <2> QED BY <1>1, <2>1 DEF ConsumerAt
<1>5. \A p \in Producers, c \in Consumers : Holding(p, c)
  BY <1>2, Zenon DEF Holding, Threads
<1> QED BY <1>3, <1>4, <1>5, Zenon DEF LapInv

\* With one producer and one consumer, for every capacity, message length and
\* number of messages, each word that the i-th pop() returns is one of the i-th
\* message pushed or of the message a lap later: the most that the separate
\* updates of size and of the slot, and an overlapping write, can do.
THEOREM RingOneLap ==
    ASSUME Cardinality(Producers) = 1, Cardinality(Consumers) = 1
    PROVE  Spec => []OneLapAtMost
<1>p. PICK p : Producers = {p}
  BY RingAssumption, FS_Singleton, Zenon
<1>1. Init => WrittenInv /\ LapInv
  BY WrittenInit, LapInit, Zenon
<1>2. RingInv /\ LapInv => OneLapAtMost
  <2> SUFFICES ASSUME RingInv, LapInv PROVE OneLapAtMost
    OBVIOUS
  <2>1. Pushed = Offered(p)
    <3> DEFINE pending == {q \in Producers : pc[q] \in {"write", "publish"}}
    <3>1. CASE Unpublished(p)
      <4>1. pending = {p}
        BY <1>p, <3>1, Zenon DEF Unpublished
      <4>2. (CHOOSE q \in pending : TRUE) = p
        BY <4>1, Zenon
      <4>3. Pushed = accepted \o <<reg[p]>>
        BY <4>1, <4>2, Zenon DEF Pushed
      <4>4. accepted \in Seq(Nat) /\ reg[p] \in Nat
        BY <1>p, Zenon DEF RingInv, TypeOK, Threads
      <4> QED BY <3>1, <4>3, <4>4 DEF Offered
    <3>2. CASE ~Unpublished(p)
      <4>1. pending = {}
        BY <1>p, <3>2, Zenon DEF Unpublished
      <4>2. Pushed = accepted \o <<>>
        BY <4>1, Zenon DEF Pushed
      <4>3. accepted \in Seq(Nat)
        BY Zenon DEF RingInv, TypeOK
      <4> QED BY <3>2, <4>2, <4>3 DEF Offered
    <3> QED BY <3>1, <3>2, Zenon
  <2> QED BY <1>p, <2>1, Zenon DEF LapInv, Explained, Fits, OneLapAtMost
<1> QED BY <1>1, <1>2, RingInvariant, RingOverfill, WrittenNext, LapNext, PTL DEF Spec
=============================================================================
