--------------------------- MODULE EndpointProofs ---------------------------
(***************************************************************************)
(* For every finite set of processes, every set of messages and every      *)
(* capacity: the state of an endpoint keeps its type, its queue is first   *)
(* in, first out, and no interleaving fills it beyond OverfillBound.       *)
(*                                                                         *)
(* The first two are inductive together with one more fact, that a call    *)
(* which has a message to queue or a process to wake really has one        *)
(* (SoundCalls).  The bound counts: a message handed over without a look   *)
(* at the capacity was paid for by a registration, made by a process that  *)
(* had seen the queue empty and that waits since, or by a wake from        *)
(* elsewhere (Registered, Filled).                                         *)
(***************************************************************************)
EXTENDS Endpoint, FiniteSetTheorems, SequenceTheorems, TLAPS

\* The program counters at which a call owns a message, and a peer.
Sending == {"send_pop", "send_direct", "send_checked", "async_push"}
Handing == {"send_direct", "wake"}

SoundCalls == {c \in Calls : /\ c.pc \in Sending => c.msg \in Msgs
                             /\ c.pc \in Handing => c.peer \in Procs}

\* The inductive invariant.
EndpointInv == TypeOK /\ Fifo /\ call \in [Procs -> SoundCalls]

\* How a call moves on.
LEMMA CallStep ==
  ASSUME NEW c \in SoundCalls, NEW pc \in PCs
  PROVE  /\ pc \notin Sending \cup Handing => [c EXCEPT !.pc = pc] \in SoundCalls
         /\ c.msg \in Msgs => [c EXCEPT !.pc = "send_checked"] \in SoundCalls
         /\ c.peer \in Procs => [c EXCEPT !.pc = "wake"] \in SoundCalls
         /\ \A m \in Msgs : pc \notin Handing => [c EXCEPT !.pc = pc, !.msg = m] \in SoundCalls
         /\ \A q \in Procs : (pc \in Sending => c.msg \in Msgs)
               => [c EXCEPT !.pc = pc, !.peer = q] \in SoundCalls
         /\ \A l \in Seq(Procs) : pc \notin Sending \cup Handing
               => [c EXCEPT !.pc = pc, !.list = l] \in SoundCalls
<1>1. "send_checked" \in PCs /\ "send_checked" \notin Handing /\ "wake" \in PCs /\ "wake" \notin Sending
  BY Zenon DEF PCs, Sending, Handing
<1>2. c \in Calls
  BY Zenon DEF SoundCalls
<1>3. pc \notin Sending \cup Handing => [c EXCEPT !.pc = pc] \in SoundCalls
  BY <1>2, Zenon DEF SoundCalls, Calls
<1>4. c.msg \in Msgs => [c EXCEPT !.pc = "send_checked"] \in SoundCalls
  BY <1>1, <1>2, Zenon DEF SoundCalls, Calls
<1>5. c.peer \in Procs => [c EXCEPT !.pc = "wake"] \in SoundCalls
  BY <1>1, <1>2, Zenon DEF SoundCalls, Calls
<1>6. \A m \in Msgs : pc \notin Handing => [c EXCEPT !.pc = pc, !.msg = m] \in SoundCalls
  BY <1>2, Zenon DEF SoundCalls, Calls
<1>7. \A q \in Procs : (pc \in Sending => c.msg \in Msgs)
               => [c EXCEPT !.pc = pc, !.peer = q] \in SoundCalls
  BY <1>2, Zenon DEF SoundCalls, Calls
<1>8. \A l \in Seq(Procs) : pc \notin Sending \cup Handing
               => [c EXCEPT !.pc = pc, !.list = l] \in SoundCalls
  BY <1>2, Zenon DEF SoundCalls, Calls
<1> QED
  BY <1>3, <1>4, <1>5, <1>6, <1>7, <1>8, Zenon

\* The idle call is sound.
LEMMA IdleSound == Idle \in SoundCalls
BY EmptySeq, Zenon DEF Idle, SoundCalls, Calls, PCs, Sending, Handing

\* The same for the calls of all processes.
LEMMA CallsStep ==
  ASSUME EndpointInv, NEW p \in Procs
  PROVE  /\ \A pc \in PCs \ (Sending \cup Handing) : [call EXCEPT ![p].pc = pc] \in [Procs -> SoundCalls]
         /\ [call EXCEPT ![p] = Idle] \in [Procs -> SoundCalls]
         /\ Woken(p) \in [Procs -> SoundCalls]
<1>1. call \in [Procs -> SoundCalls]
  BY Zenon DEF EndpointInv
<1>2. \A pc \in PCs \ (Sending \cup Handing) : [call[p] EXCEPT !.pc = pc] \in SoundCalls
  BY <1>1, CallStep, Zenon
<1>3. \A pc \in PCs \ (Sending \cup Handing) : [call EXCEPT ![p].pc = pc] \in [Procs -> SoundCalls]
  BY <1>1, <1>2, Zenon
<1>4. "woken" \in PCs \ (Sending \cup Handing)
  BY Zenon DEF PCs, Sending, Handing
<1> QED
  BY <1>1, <1>3, <1>4, IdleSound, Zenon DEF Woken

\* Adding a message at the back keeps the type and the order.
LEMMA PushStep ==
  ASSUME TypeOK, Fifo, NEW m \in Msgs, PushBack(m), taken' = taken
  PROVE  queue' \in Seq(Msgs) /\ pushed' \in Seq(Msgs) /\ Fifo'
<1>1. queue \in Seq(Msgs) /\ taken \in Seq(Msgs) /\ pushed \in Seq(Msgs)
  BY Zenon DEF TypeOK
<1>2. queue' = Append(queue, m) /\ pushed' = Append(pushed, m)
  BY Zenon DEF PushBack
<1>3. Append(taken \o queue, m) = taken \o Append(queue, m)
  <2>1. <<m>> \in Seq(Msgs) /\ taken \o queue \in Seq(Msgs)
    BY <1>1
  <2>2. Append(taken \o queue, m) = (taken \o queue) \o <<m>>
    BY <2>1, AppendIsConcat, Zenon
  <2>3. Append(queue, m) = queue \o <<m>>
    BY <1>1, AppendIsConcat, Zenon
  <2> QED
    BY <1>1, <2>1, <2>2, <2>3, ConcatAssociative
<1> QED
  BY <1>1, <1>2, <1>3 DEF Fifo

\* So does taking one from the front.
LEMMA PopStep ==
  ASSUME TypeOK, Fifo, queue # <<>>, PopFront, pushed' = pushed
  PROVE  queue' \in Seq(Msgs) /\ taken' \in Seq(Msgs) /\ Fifo'
<1>1. queue \in Seq(Msgs) /\ taken \in Seq(Msgs)
  BY Zenon DEF TypeOK
<1>2. queue' = Tail(queue) /\ taken' = Append(taken, Head(queue)) /\ Head(queue) \in Msgs
  BY <1>1 DEF PopFront
<1>3. Append(taken, Head(queue)) \o Tail(queue) = taken \o queue
  BY <1>1
<1> QED
  BY <1>1, <1>2, <1>3 DEF Fifo

\* Taking a registration from the list of waiting receivers.
LEMMA PopReceiverStep ==
  ASSUME EndpointInv, receivers # <<>>, NEW p \in Procs, NEW pc \in PCs, PopReceiver(p, pc),
         pc \in Sending => call[p].msg \in Msgs
  PROVE  receivers' \in Seq(Procs) /\ call' \in [Procs -> SoundCalls]
<1>1. receivers \in Seq(Procs) /\ call \in [Procs -> SoundCalls]
  BY Zenon DEF EndpointInv, TypeOK
<1>2. Len(receivers) \in Nat /\ Len(receivers) >= 1 /\ receivers[Len(receivers)] \in Procs
  BY <1>1
<1>3. receivers' \in Seq(Procs)
  BY <1>1, <1>2 DEF PopReceiver
<1>4. [call[p] EXCEPT !.pc = pc, !.peer = receivers[Len(receivers)]] \in SoundCalls
  BY <1>1, <1>2, CallStep, Zenon
<1>5. call' = [call EXCEPT ![p] = [call[p] EXCEPT !.pc = pc, !.peer = receivers[Len(receivers)]]]
  BY <1>1, Zenon DEF PopReceiver
<1> QED
  BY <1>1, <1>3, <1>4, <1>5, Zenon

\* Every step keeps the invariant.
LEMMA EndpointNext == EndpointInv /\ [Next]_vars => EndpointInv'
<1> SUFFICES ASSUME EndpointInv, [Next]_vars PROVE EndpointInv'
  OBVIOUS
<1> DEFINE Goal == EndpointInv'
           CallOk == call' \in [Procs -> SoundCalls]
<1>0. /\ TypeOK /\ Fifo
      /\ active \in BOOLEAN
      /\ queue \in Seq(Msgs)
      /\ receivers \in Seq(Procs)
      /\ call \in [Procs -> SoundCalls]
      /\ pushed \in Seq(Msgs)
      /\ taken \in Seq(Msgs)
      /\ strays \in 0 .. MaxStrays
  BY Zenon DEF EndpointInv, TypeOK
<1>t. ASSUME CallOk PROVE call' \in [Procs -> Calls]
  BY <1>t, Zenon DEF SoundCalls
<1>a. ASSUME UNCHANGED <<queue, pushed, taken>>, active' \in BOOLEAN,
             receivers' \in Seq(Procs), CallOk, strays' \in 0 .. MaxStrays
      PROVE  Goal
  BY <1>a, <1>0, <1>t, Zenon DEF EndpointInv, TypeOK, Fifo
<1>b. ASSUME UNCHANGED <<active, queue, receivers, pushed, taken, strays>>, CallOk
      PROVE  Goal
  BY <1>a, <1>b, <1>0, Zenon
<1>c. ASSUME NEW m \in Msgs, PushBack(m), UNCHANGED <<active, receivers, taken, strays>>, CallOk
      PROVE  Goal
  BY <1>c, <1>0, <1>t, PushStep, Zenon DEF EndpointInv, TypeOK
<1>d. ASSUME queue # <<>>, PopFront, UNCHANGED <<active, receivers, pushed, strays>>, CallOk
      PROVE  Goal
  BY <1>d, <1>0, <1>t, PopStep, Zenon DEF EndpointInv, TypeOK
<1>e. ASSUME NEW p \in Procs, NEW pc \in PCs \ (Sending \cup Handing), Goto(p, pc) PROVE CallOk
  BY <1>e, CallsStep, Zenon DEF Goto
<1>f. ASSUME NEW p \in Procs, Return(p) PROVE CallOk
  BY <1>f, CallsStep, Zenon DEF Return
<1>g. {"async_pop", "recv_check", "register", "block", "blocked", "woken", "try_pop",
       "close_drain", "close_wake", "close_clear", "close_waiters"}
        \subseteq PCs \ (Sending \cup Handing)
  BY Zenon DEF PCs, Sending, Handing
<1>h. \A p \in Procs : /\ call[p].pc \in Sending => call[p].msg \in Msgs
                       /\ call[p].pc \in Handing => call[p].peer \in Procs
  BY <1>0, Zenon DEF SoundCalls
<1> HIDE DEF Goal, CallOk
<1>1. ASSUME UNCHANGED vars PROVE Goal
  BY <1>1, <1>b, <1>0, Zenon DEF vars, CallOk
<1>2. ASSUME NEW p \in Procs, NEW m \in Msgs, SendSync(p, m) \/ SendAsync(p, m)
      PROVE  Goal
  <2>1. PICK pc \in {"send_pop", "async_push"} :
           call' = [call EXCEPT ![p] = [call[p] EXCEPT !.pc = pc, !.msg = m]]
    BY <1>2, <1>0, Zenon DEF SendSync, SendAsync
  <2>2. pc \in PCs /\ pc \notin Handing
    BY Zenon DEF PCs, Handing
  <2>3. [call[p] EXCEPT !.pc = pc, !.msg = m] \in SoundCalls
    BY <1>0, <2>2, CallStep, Zenon
  <2> QED BY <1>2, <1>b, <1>0, <2>1, <2>3, Zenon DEF SendSync, SendAsync, CallOk
<1>3. ASSUME NEW p \in Procs, SendPop(p) PROVE Goal
  <2>1. call[p].msg \in Msgs
    BY <1>3, <1>h, Zenon DEF SendPop, At, Sending
  <2>2. CASE receivers # <<>>
    <3>1. PopReceiver(p, "send_direct") /\ UNCHANGED <<active, queue, pushed, taken, strays>>
      BY <1>3, <2>2, Zenon DEF SendPop
    <3>2. receivers' \in Seq(Procs) /\ CallOk
      BY <2>1, <2>2, <3>1, PopReceiverStep, Zenon DEF PCs, CallOk
    <3> QED BY <1>a, <1>0, <3>1, <3>2, Zenon
  <2>3. CASE receivers = <<>>
    <3>1. call' = [call EXCEPT ![p] = [call[p] EXCEPT !.pc = "send_checked"]]
      BY <1>3, <1>0, <2>3, Zenon DEF SendPop, Goto
    <3>2. [call[p] EXCEPT !.pc = "send_checked"] \in SoundCalls
      BY <1>0, <2>1, CallStep, Zenon DEF PCs
    <3> QED BY <1>3, <1>b, <1>0, <2>3, <3>1, <3>2, Zenon DEF SendPop, CallOk
  <2> QED BY <2>2, <2>3, Zenon
<1>4. ASSUME NEW p \in Procs, SendDirect(p) PROVE Goal
  <2>1. call[p].msg \in Msgs /\ call[p].peer \in Procs
    BY <1>4, <1>h, Zenon DEF SendDirect, At, Sending, Handing
  <2>2. [call[p] EXCEPT !.pc = "wake"] \in SoundCalls
    BY <1>0, <2>1, CallStep, Zenon DEF PCs
  <2>3. CallOk
    BY <1>4, <1>0, <2>2, Zenon DEF SendDirect, Goto, CallOk
  <2> QED BY <1>4, <1>c, <2>1, <2>3, Zenon DEF SendDirect
<1>5. ASSUME NEW p \in Procs, SendChecked(p) PROVE Goal
  <2>1. call[p].msg \in Msgs /\ CallOk
    BY <1>5, <1>f, <1>h, Zenon DEF SendChecked, At, Sending
  <2> QED BY <1>5, <1>b, <1>c, <2>1, Zenon DEF SendChecked
<1>6. ASSUME NEW p \in Procs, AsyncPush(p) PROVE Goal
  <2>1. call[p].msg \in Msgs /\ CallOk
    BY <1>6, <1>e, <1>f, <1>g, <1>h, Zenon DEF AsyncPush, At, Sending
  <2> QED BY <1>6, <1>b, <1>c, <2>1, Zenon DEF AsyncPush
<1>7. ASSUME NEW p \in Procs, AsyncPop(p) PROVE Goal
  <2>1. CASE receivers # <<>>
    <3>1. PopReceiver(p, "wake") /\ UNCHANGED <<active, queue, pushed, taken, strays>>
      BY <1>7, <2>1, Zenon DEF AsyncPop
    <3>2. receivers' \in Seq(Procs) /\ CallOk
      BY <2>1, <3>1, PopReceiverStep, Zenon DEF PCs, Sending, CallOk
    <3> QED BY <1>a, <1>0, <3>1, <3>2, Zenon
  <2>2. CASE receivers = <<>>
    BY <1>7, <2>2, <1>b, <1>f, Zenon DEF AsyncPop
  <2> QED BY <2>1, <2>2, Zenon
<1>8. ASSUME NEW p \in Procs, Wake(p) PROVE Goal
  <2>1. call[p].peer \in Procs
    BY <1>8, <1>h, Zenon DEF Wake, At, Handing
  <2>2. Woken(call[p].peer) \in [Procs -> SoundCalls]
    BY <2>1, CallsStep, Zenon
  <2>3. CallOk
    BY <1>8, <2>2, IdleSound, Zenon DEF Wake, CallOk
  <2> QED BY <1>8, <1>b, <2>3, Zenon DEF Wake
<1>9. ASSUME NEW p \in Procs, ReceiveSync(p) \/ TryReceive(p) \/ Block(p) PROVE Goal
  BY <1>9, <1>b, <1>e, <1>g, Zenon DEF ReceiveSync, TryReceive, Block
<1>10. ASSUME NEW p \in Procs, RecvCheck(p) PROVE Goal
  <2>1. CallOk
    BY <1>10, <1>e, <1>f, <1>g, Zenon DEF RecvCheck
  <2> QED BY <1>10, <2>1, <1>b, <1>d, Zenon DEF RecvCheck
<1>11. ASSUME NEW p \in Procs, RecvAgain(p) \/ TryPop(p) PROVE Goal
  <2>1. CallOk
    BY <1>11, <1>f, Zenon DEF RecvAgain, TryPop
  <2> QED BY <1>11, <2>1, <1>b, <1>d, Zenon DEF RecvAgain, TryPop
<1>12. ASSUME NEW p \in Procs, Register(p) PROVE Goal
  <2>1. CallOk /\ receivers' \in Seq(Procs)
    BY <1>12, <1>e, <1>g, <1>0 DEF Register
  <2> QED BY <1>12, <2>1, <1>a, <1>0, Zenon DEF Register
<1>13. ASSUME NEW p \in Procs, StrayWake(p) PROVE Goal
  <2>1. CallOk
    BY <1>13, <1>e, <1>g, Zenon DEF StrayWake
  <2>2. strays' \in 0 .. MaxStrays
    BY <1>13, <1>0, EndpointAssumption DEF StrayWake
  <2> QED BY <1>13, <2>1, <2>2, <1>a, <1>0, Zenon DEF StrayWake
<1>14. ASSUME NEW p \in Procs, Close(p) PROVE Goal
  <2>1. CallOk
    BY <1>14, <1>e, <1>g, Zenon DEF Close
  <2> QED BY <1>14, <2>1, <1>a, <1>0, Zenon DEF Close
<1>15. ASSUME NEW p \in Procs, CloseDrain(p) PROVE Goal
  <2>1. [call[p] EXCEPT !.pc = "close_wake", !.list = receivers] \in SoundCalls
    BY <1>0, <1>g, CallStep, Zenon
  <2>2. CallOk
    BY <1>15, <1>0, <2>1, Zenon DEF CloseDrain, CallOk
  <2>3. receivers' \in Seq(Procs)
    BY <1>15, EmptySeq, Zenon DEF CloseDrain
  <2> QED BY <1>15, <2>2, <2>3, <1>a, <1>0, Zenon DEF CloseDrain
<1>16. ASSUME NEW p \in Procs, CloseWake(p) PROVE Goal
  <2>1. CASE call[p].list = <<>>
    BY <1>16, <2>1, <1>b, <1>e, <1>g, Zenon DEF CloseWake
  <2>2. CASE call[p].list # <<>>
    <3> DEFINE q == Head(call[p].list)
               w == Woken(q)
    <3>1. call[p].list \in Seq(Procs)
      BY <1>0, Zenon DEF SoundCalls, Calls
    <3>2. q \in Procs /\ Tail(call[p].list) \in Seq(Procs)
      BY <2>2, <3>1
    <3>3. w \in [Procs -> SoundCalls]
      BY <3>2, CallsStep, Zenon
    <3>4. w[p].list = call[p].list
      BY <1>0, <3>2 DEF Woken, SoundCalls, Calls
    <3>5. \A c \in SoundCalls, l \in Seq(Procs) : [c EXCEPT !.list = l] \in SoundCalls
      BY Zenon DEF SoundCalls, Calls
    <3>6. call' = [w EXCEPT ![p].list = Tail(@)]
      BY <1>16, <2>2, Zenon DEF CloseWake
    <3> HIDE DEF q, w
    <3>7. [w[p] EXCEPT !.list = Tail(call[p].list)] \in SoundCalls
      BY <3>2, <3>3, <3>5, Zenon
    <3>8. CallOk
      BY <3>3, <3>4, <3>6, <3>7, Zenon DEF CallOk
    <3> QED BY <1>16, <3>8, <1>b, Zenon DEF CloseWake
  <2> QED BY <2>1, <2>2, Zenon
<1>17. ASSUME NEW p \in Procs, CloseClear(p) PROVE Goal
  <2>1. CallOk
    BY <1>17, <1>e, <1>g, Zenon DEF CloseClear
  <2>2. queue' = <<>> /\ taken' = taken \o queue /\ pushed' = pushed
        /\ UNCHANGED <<active, receivers, strays>>
    BY <1>17, Zenon DEF CloseClear
  <2>3. queue' \in Seq(Msgs) /\ taken' \in Seq(Msgs)
    BY <1>0, <2>2, EmptySeq, ConcatProperties, Zenon
  <2>4. Fifo'
    BY <1>0, <2>2, <2>3, ConcatEmptySeq, Zenon DEF Fifo
  <2>5. TypeOK'
    BY <1>0, <1>t, <2>1, <2>2, <2>3, Zenon DEF TypeOK
  <2> QED BY <2>1, <2>4, <2>5, Zenon DEF EndpointInv, Goal, CallOk
<1>18. ASSUME NEW p \in Procs, CloseWaiters(p) PROVE Goal
  <2>1. \A q \in Procs : [call[q] EXCEPT !.pc = "woken"] \in SoundCalls
    BY <1>0, <1>g, CallStep, Zenon
  <2>2. CallOk
    BY <1>18, <1>0, <2>1, IdleSound, Zenon DEF CloseWaiters, CallOk
  <2> QED BY <1>18, <2>2, <1>b, Zenon DEF CloseWaiters
<1>19. ASSUME Next PROVE Goal
  <2>1. PICK p \in Procs :
      \/ \E m \in Msgs : SendSync(p, m) \/ SendAsync(p, m)
      \/ SendPop(p) \/ SendDirect(p) \/ SendChecked(p) \/ AsyncPush(p) \/ AsyncPop(p)
      \/ Wake(p) \/ ReceiveSync(p) \/ RecvCheck(p) \/ Register(p) \/ Block(p)
      \/ RecvAgain(p) \/ TryReceive(p) \/ TryPop(p) \/ StrayWake(p) \/ Close(p)
      \/ CloseDrain(p) \/ CloseWake(p) \/ CloseClear(p) \/ CloseWaiters(p)
    BY <1>19, Zenon DEF Next
  <2> QED
    BY <2>1, <1>2, <1>3, <1>4, <1>5, <1>6, <1>7, <1>8, <1>9, <1>10, <1>11, <1>12, <1>13,
       <1>14, <1>15, <1>16, <1>17, <1>18, Zenon
<1>20. Goal
  BY <1>1, <1>19, Zenon
<1> QED BY <1>20, Zenon DEF Goal

\* It holds of an endpoint just created.
LEMMA EndpointInit == Init => EndpointInv
<1> SUFFICES ASSUME Init PROVE EndpointInv
  OBVIOUS
<1>1. call \in [Procs -> SoundCalls] /\ call \in [Procs -> Calls]
  BY IdleSound, Zenon DEF Init, SoundCalls
<1>2. TypeOK
  BY <1>1, EmptySeq, EndpointAssumption DEF Init, TypeOK
<1>3. Fifo
  BY EmptySeq, ConcatEmptySeq, Zenon DEF Init, Fifo
<1> QED BY <1>1, <1>2, <1>3, Zenon DEF EndpointInv

\* The invariant holds of every behaviour: the endpoint's state keeps its
\* type, and calls carry what their next step needs.
THEOREM EndpointInvariant == Spec => []EndpointInv
BY EndpointInit, EndpointNext, PTL DEF Spec

\* Whatever the processes do to an endpoint, in any number and interleaving,
\* its messages leave the queue in the order push_back put them there, each
\* exactly once.
THEOREM EndpointFifo == Spec => []Fifo
<1>1. EndpointInv => Fifo
  BY Zenon DEF EndpointInv
<1> QED
  BY <1>1, EndpointInvariant, PTL

-----------------------------------------------------------------------------
\* How far the queue can be filled.

Closes == {"close_drain", "close_wake", "close_clear", "close_waiters"}
Pending == {"send_direct", "register"}

\* The close is over.
Over == ~active /\ \A q \in Procs : call[q].pc \notin Closes

\* The program counters of receivers whose registration may still be listed.
\* Once the close is over nobody leaves them for good.
WaitPcs == {"block", "blocked"} \cup (IF Over THEN {"woken", "idle"} ELSE {})

\* How many calls are at one of the program counters S.
CountIn(c, S) == Cardinality({q \in Procs : c[q].pc \in S})

Left(p) == IF At(p, "close_wake") THEN Len(call[p].list) ELSE 0

\* Close is called once.
OneCloser ==
  /\ \A p \in Procs : call[p].pc \in Closes => ~active
  /\ \A p, q \in Procs : call[p].pc \in Closes /\ call[q].pc \in Closes => p = q

\* Every registration, in the list or taken from it, is that of a receiver
\* that waits or that a wake from elsewhere made return.
Registered ==
  \A p \in Procs :
    Len(receivers) + CountIn(call, Handing) + Left(p) <= CountIn(call, WaitPcs) + strays

\* Messages, registrations and hand-overs under way together.
Filled ==
  Len(queue) + Len(receivers) + CountIn(call, Pending) <= Capacity + (Cardinality(Procs) - 1) + strays

OInv == EndpointInv /\ OneCloser /\ Registered /\ Filled

\* Whether a program counter is one of S, as a number.
In(x, S) == IF x \in S THEN 1 ELSE 0

\* Counts are numbers.
LEMMA CountType ==
  ASSUME NEW c, NEW S
  PROVE  /\ IsFiniteSet({q \in Procs : c[q].pc \in S})
         /\ CountIn(c, S) \in Nat
<1>1. {q \in Procs : c[q].pc \in S} \subseteq Procs /\ IsFiniteSet(Procs)
  BY EndpointAssumption, Zenon
<1>2. IsFiniteSet({q \in Procs : c[q].pc \in S})
  BY <1>1, FS_Subset, Zenon
<1> QED BY <1>2, FS_CardinalityType, Zenon DEF CountIn

\* What one process that moves on does to a count.
LEMMA CountMove ==
  ASSUME NEW c, NEW d, NEW S, NEW p \in Procs, \A q \in Procs \ {p} : d[q].pc = c[q].pc
  PROVE  CountIn(d, S) + In(c[p].pc, S) = CountIn(c, S) + In(d[p].pc, S)
<1> DEFINE A == {q \in Procs : c[q].pc \in S}
           B == {q \in Procs : d[q].pc \in S}
<1>1. IsFiniteSet(A) /\ IsFiniteSet(B)
  BY CountType, Zenon
<1>2. A \ {p} = B \ {p}
  OBVIOUS
<1>3. (p \in A <=> c[p].pc \in S) /\ (p \in B <=> d[p].pc \in S)
  OBVIOUS
<1>c. CountIn(c, S) = Cardinality(A) /\ CountIn(d, S) = Cardinality(B)
  BY Zenon DEF CountIn
<1> HIDE DEF A, B
<1>4. /\ IsFiniteSet(A \ {p}) /\ Cardinality(A) \in Nat /\ Cardinality(B) \in Nat
      /\ Cardinality(A \ {p}) \in Nat
  <2>1. IsFiniteSet(A \ {p})
    BY <1>1, FS_Subset, Zenon
  <2> QED BY <1>1, <2>1, FS_CardinalityType, Zenon
<1>5. Cardinality(A) = Cardinality(A \ {p}) + In(c[p].pc, S)
  <2>1. p \in A => Cardinality(A \ {p}) = Cardinality(A) - 1
    BY <1>1, FS_RemoveElement, Zenon
  <2>2. p \notin A => A \ {p} = A
    OBVIOUS
  <2>3. CASE p \in A
    BY <2>1, <2>3, <1>3, <1>4 DEF In
  <2>4. CASE p \notin A
    <3>1. Cardinality(A \ {p}) = Cardinality(A) /\ In(c[p].pc, S) = 0
      BY <2>2, <2>4, <1>3, Zenon DEF In
    <3> QED BY <3>1, <1>4
  <2> QED BY <2>3, <2>4, Zenon
<1>6. Cardinality(B) = Cardinality(A \ {p}) + In(d[p].pc, S)
  <2>1. p \in B => Cardinality(B \ {p}) = Cardinality(B) - 1
    BY <1>1, FS_RemoveElement, Zenon
  <2>2. p \notin B => B \ {p} = B
    OBVIOUS
  <2>5. Cardinality(A \ {p}) = Cardinality(B \ {p})
    BY <1>2, Zenon
  <2>3. CASE p \in B
    BY <2>1, <2>3, <2>5, <1>3, <1>4 DEF In
  <2>4. CASE p \notin B
    <3>1. Cardinality(B \ {p}) = Cardinality(B) /\ In(d[p].pc, S) = 0
      BY <2>2, <2>4, <1>3, Zenon DEF In
    <3> QED BY <3>1, <2>5, <1>4
  <2> QED BY <2>3, <2>4, Zenon
<1>7. In(c[p].pc, S) \in Nat /\ In(d[p].pc, S) \in Nat
  BY Zenon DEF In
<1> QED BY <1>4, <1>5, <1>6, <1>7, <1>c

\* The numbers of the invariant.
Numbers ==
  /\ Len(queue) \in Nat /\ Len(receivers) \in Nat /\ strays \in Nat
  /\ Capacity \in Nat /\ Capacity >= 1 /\ Cardinality(Procs) \in Nat
  /\ \A p \in Procs : Left(p) \in Nat

\* The counts of the invariant are numbers.
LEMMA NumbersType == EndpointInv => Numbers
<1> SUFFICES ASSUME EndpointInv PROVE Numbers
  OBVIOUS
<1>1. /\ queue \in Seq(Msgs) /\ receivers \in Seq(Procs) /\ strays \in 0..MaxStrays
      /\ call \in [Procs -> Calls]
  BY Zenon DEF EndpointInv, TypeOK
<1>2. Cardinality(Procs) \in Nat /\ Capacity \in Nat \ {0} /\ MaxStrays \in Nat
  BY EndpointAssumption, FS_CardinalityType, Zenon
<1>3. ASSUME NEW p \in Procs PROVE Left(p) \in Nat
  <2>1. call[p].list \in Seq(Procs)
    BY <1>1, Zenon DEF Calls
  <2> QED BY <2>1 DEF Left
<1> QED BY <1>1, <1>2, <1>3 DEF Numbers

\* A step in which only p moves, and the balance it has to keep.
OthersStay(p) == \A q \in Procs \ {p} : call'[q].pc = call[q].pc

RegBalance(p, q) ==
  Len(receivers') + In(call'[p].pc, Handing) + In(call[p].pc, WaitPcs) + Left(q)' + strays
    <= Len(receivers) + In(call[p].pc, Handing) + In(call'[p].pc, WaitPcs) + Left(q) + strays'

FillBalance(p) ==
  Len(queue') + Len(receivers') + In(call'[p].pc, Pending) + strays
    <= Len(queue) + Len(receivers) + In(call[p].pc, Pending) + strays'

\* Such a step keeps the invariant.
LEMMA MoveKeeps ==
  ASSUME OInv, EndpointInv', NEW p \in Procs, OthersStay(p), OneCloser', Over' = Over,
         \A q \in Procs : RegBalance(p, q), FillBalance(p) \/ Filled'
  PROVE  OInv'
<1> DEFINE a == call[p].pc
           b == call'[p].pc
<1>1. EndpointInv /\ OneCloser /\ Registered /\ Filled
  BY Zenon DEF OInv
<1>2. Numbers /\ Numbers'
  BY <1>1, NumbersType, PTL
<1>4. WaitPcs' = WaitPcs
  BY Zenon DEF WaitPcs
<1>5. /\ CountIn(call', Handing) + In(a, Handing) = CountIn(call, Handing) + In(b, Handing)
      /\ CountIn(call', Pending) + In(a, Pending) = CountIn(call, Pending) + In(b, Pending)
      /\ CountIn(call', WaitPcs) + In(a, WaitPcs) = CountIn(call, WaitPcs) + In(b, WaitPcs)
  BY CountMove DEF OthersStay
<1>6. /\ CountIn(call, Handing) \in Nat /\ CountIn(call, Pending) \in Nat /\ CountIn(call, WaitPcs) \in Nat
      /\ CountIn(call', Handing) \in Nat /\ CountIn(call', Pending) \in Nat /\ CountIn(call', WaitPcs) \in Nat
  BY CountType, Zenon
<1>7. /\ In(a, Handing) \in Nat /\ In(b, Handing) \in Nat /\ In(a, Pending) \in Nat
      /\ In(b, Pending) \in Nat /\ In(a, WaitPcs) \in Nat /\ In(b, WaitPcs) \in Nat
  BY Zenon DEF In
<1> HIDE DEF a, b
<1> DEFINE q1 == Len(queue)
           q2 == Len(queue')
           r1 == Len(receivers)
           r2 == Len(receivers')
           h1 == CountIn(call, Handing)
           h2 == CountIn(call', Handing)
           n1 == CountIn(call, Pending)
           n2 == CountIn(call', Pending)
           t1 == CountIn(call, WaitPcs)
           t2 == CountIn(call', WaitPcs)
           cap == Capacity
           k == Cardinality(Procs)
           s1 == strays
           s2 == strays'
           ha == In(a, Handing)
           hb == In(b, Handing)
           na == In(a, Pending)
           nb == In(b, Pending)
           ta == In(a, WaitPcs)
           tb == In(b, WaitPcs)
<1>n. /\ q1 \in Nat /\ q2 \in Nat /\ r1 \in Nat /\ r2 \in Nat /\ k \in Nat /\ cap \in Nat
      /\ s1 \in Nat /\ s2 \in Nat /\ \A q \in Procs : Left(q) \in Nat /\ Left(q)' \in Nat
  BY <1>2, Zenon DEF Numbers
<1>8. ASSUME NEW q \in Procs PROVE r2 + h2 + Left(q)' <= t2 + s2
  <2> DEFINE l1 == Left(q)
             l2 == Left(q)'
  <2>1. r1 + h1 + l1 <= t1 + s1
    BY <1>1, Zenon DEF Registered
  <2>2. r2 + hb + ta + l2 + s1 <= r1 + ha + tb + l1 + s2
    BY Zenon DEF a, b, RegBalance
  <2>3. l1 \in Nat /\ l2 \in Nat
    BY <1>n, Zenon
  <2>5. /\ h2 + ha = h1 + hb /\ h1 \in Nat /\ h2 \in Nat /\ ha \in Nat /\ hb \in Nat
        /\ t2 + ta = t1 + tb /\ t1 \in Nat /\ t2 \in Nat /\ ta \in Nat /\ tb \in Nat
    BY <1>5, <1>6, <1>7, Zenon
  <2>6. r1 \in Nat /\ r2 \in Nat /\ s1 \in Nat /\ s2 \in Nat
    BY <1>n, Zenon
  <2> HIDE DEF q1, q2, r1, r2, h1, h2, n1, n2, t1, t2, k, s1, s2, cap, ha, hb, na, nb, ta, tb, l1, l2
  <2>4. r2 + h2 + l2 <= t2 + s2
    BY <2>1, <2>2, <2>3, <2>5, <2>6
  <2> QED BY <2>4, Zenon DEF l2
<1>9. Registered'
  BY <1>4, <1>8, Zenon DEF Registered
<1>10. Filled'
  <2>1. ASSUME FillBalance(p) PROVE q2 + r2 + n2 <= cap + (k - 1) + s2
    <3>1. q1 + r1 + n1 <= cap + (k - 1) + s1
      BY <1>1, Zenon DEF Filled
    <3>2. q2 + r2 + nb + s1 <= q1 + r1 + na + s2
      BY <2>1, Zenon DEF a, b, FillBalance
    <3>3. n2 + na = n1 + nb /\ n1 \in Nat /\ n2 \in Nat /\ na \in Nat /\ nb \in Nat
      BY <1>5, <1>6, <1>7, Zenon
    <3> HIDE DEF q1, q2, r1, r2, h1, h2, n1, n2, t1, t2, k, s1, s2, cap, ha, hb, na, nb, ta, tb
    <3>4. q1 \in Nat /\ q2 \in Nat /\ r1 \in Nat /\ r2 \in Nat /\ k \in Nat /\ cap \in Nat /\ s1 \in Nat /\ s2 \in Nat
      BY <1>n, Zenon
    <3> QED BY <3>1, <3>2, <3>3, <3>4
  <2> QED BY <2>1, Zenon DEF Filled
<1> QED BY <1>9, <1>10, Zenon DEF OInv

\* A process that is neither waiting nor about to register leaves room.
LEMMA PushRoom ==
  ASSUME OInv, NEW p \in Procs, call[p].pc \notin WaitPcs, call[p].pc # "register"
  PROVE  Len(receivers) + CountIn(call, Pending) <= (Cardinality(Procs) - 1) + strays
<1> DEFINE T == {q \in Procs : call[q].pc \in WaitPcs}
           G == {q \in Procs : call[q].pc \in {"register"}}
           D == {q \in Procs : call[q].pc \in {"send_direct"}}
           H == {q \in Procs : call[q].pc \in Handing}
           Pn == {q \in Procs : call[q].pc \in Pending}
<1>1. Len(receivers) + CountIn(call, Handing) + Left(p) <= CountIn(call, WaitPcs) + strays
  BY Zenon DEF OInv, Registered
<1>2. Len(receivers) \in Nat /\ strays \in Nat /\ Cardinality(Procs) \in Nat /\ Left(p) \in Nat
  BY NumbersType, Zenon DEF OInv, Numbers
<1>3. IsFiniteSet(T) /\ IsFiniteSet(G) /\ IsFiniteSet(D) /\ IsFiniteSet(H) /\ IsFiniteSet(Procs)
  BY CountType, EndpointAssumption, Zenon
<1>4. /\ CountIn(call, Handing) = Cardinality(H) /\ CountIn(call, WaitPcs) = Cardinality(T)
      /\ CountIn(call, Pending) = Cardinality(Pn)
  BY Zenon DEF CountIn
<1>5. D \subseteq H /\ Pn = D \cup G /\ D \cap G = {} /\ T \cap G = {}
  BY Zenon DEF Handing, Pending, WaitPcs
<1>6. T \cup G \subseteq Procs \ {p}
  OBVIOUS
<1> HIDE DEF T, G, D, H, Pn
<1>7. /\ Cardinality(T) \in Nat /\ Cardinality(G) \in Nat /\ Cardinality(D) \in Nat
      /\ Cardinality(H) \in Nat /\ Cardinality({}) = 0
  BY <1>3, FS_CardinalityType, FS_EmptySet, Zenon
<1>8. Cardinality(D) <= Cardinality(H)
  BY <1>3, <1>5, FS_Subset, Zenon
<1>9. Cardinality(Pn) = Cardinality(D) + Cardinality(G) - Cardinality(D \cap G)
  BY <1>3, <1>5, FS_Union, Zenon
<1>10. Cardinality(T \cup G) = Cardinality(T) + Cardinality(G) - Cardinality(T \cap G)
  BY <1>3, FS_Union, Zenon
<1>11. IsFiniteSet(Procs \ {p}) /\ Cardinality(Procs \ {p}) = Cardinality(Procs) - 1
  BY <1>3, FS_RemoveElement, Zenon
<1>12. Cardinality(T \cup G) <= Cardinality(Procs) - 1
  BY <1>6, <1>11, FS_Subset
<1>d. Cardinality(D \cap G) = 0 /\ Cardinality(T \cap G) = 0
  BY <1>5, <1>7, Zenon
<1>13. Cardinality(Pn) = Cardinality(D) + Cardinality(G)
  BY <1>d, <1>7, <1>9
<1>14. Cardinality(T) + Cardinality(G) <= Cardinality(Procs) - 1
  BY <1>d, <1>7, <1>10, <1>12
<1> DEFINE r == Len(receivers)
           l == Left(p)
           s == strays
           k == Cardinality(Procs)
           t == Cardinality(T)
           g == Cardinality(G)
           d == Cardinality(D)
           h == Cardinality(H)
           n == Cardinality(Pn)
<1>15. /\ r \in Nat /\ l \in Nat /\ s \in Nat /\ k \in Nat /\ t \in Nat /\ g \in Nat /\ d \in Nat
       /\ h \in Nat /\ r + h + l <= t + s /\ d <= h /\ n = d + g /\ t + g <= k - 1
  BY <1>1, <1>2, <1>4, <1>7, <1>8, <1>13, <1>14, Zenon
<1> HIDE DEF r, l, s, k, t, g, d, h, n
<1>16. r + n <= (k - 1) + s
  BY <1>15
<1> QED BY <1>4, <1>16, Zenon DEF r, s, k, n

\* p, and nobody else, goes from a to b.
Moved(p, a, b) ==
  /\ call[p].pc = a /\ call'[p].pc = b
  /\ \A q \in Procs \ {p} : call'[q] = call[q]

\* The ways in which calls move.
LEMMA MovedBy ==
  ASSUME EndpointInv, NEW p \in Procs, NEW a, NEW b, At(p, a)
  PROVE  /\ Goto(p, b) => Moved(p, a, b)
         /\ Return(p) => Moved(p, a, "idle")
         /\ PopReceiver(p, b) => Moved(p, a, b)
         /\ \A m : call' = [call EXCEPT ![p].pc = b, ![p].msg = m] => Moved(p, a, b)
         /\ \A l : call' = [call EXCEPT ![p].pc = b, ![p].list = l] => Moved(p, a, b)
<1>1. call \in [Procs -> Calls]
  BY Zenon DEF EndpointInv, TypeOK
<1>2. call[p] \in [pc : PCs, msg : Msgs \cup {NoMsg}, peer : Procs \cup {NoProc}, list : Seq(Procs)]
  BY <1>1, Zenon DEF Calls
<1>3. ASSUME NEW c, c.pc = b, call' = [call EXCEPT ![p] = c] PROVE Moved(p, a, b)
  BY <1>1, <1>3, Zenon DEF Moved, At
<1>4. Goto(p, b) => Moved(p, a, b)
  BY <1>2, <1>3, Zenon DEF Goto
<1>5. Return(p) => Moved(p, a, "idle")
  BY <1>1 DEF Return, Moved, At, Idle
<1>6. PopReceiver(p, b) => Moved(p, a, b)
  <2> SUFFICES ASSUME PopReceiver(p, b) PROVE Moved(p, a, b)
    OBVIOUS
  <2> DEFINE c == [call[p] EXCEPT !.pc = b, !.peer = receivers[Len(receivers)]]
  <2>1. call' = [call EXCEPT ![p] = c]
    BY <1>1, Zenon DEF PopReceiver
  <2>2. c.pc = b
    BY <1>2, Zenon
  <2> QED BY <1>3, <2>1, <2>2, Zenon
<1>7. ASSUME NEW m, call' = [call EXCEPT ![p].pc = b, ![p].msg = m] PROVE Moved(p, a, b)
  <2> DEFINE c == [call[p] EXCEPT !.pc = b, !.msg = m]
  <2>1. call' = [call EXCEPT ![p] = c]
    BY <1>1, <1>7, Zenon
  <2>2. c.pc = b
    BY <1>2, Zenon
  <2> QED BY <1>3, <2>1, <2>2, Zenon
<1>8. ASSUME NEW l, call' = [call EXCEPT ![p].pc = b, ![p].list = l] PROVE Moved(p, a, b)
  <2> DEFINE c == [call[p] EXCEPT !.pc = b, !.list = l]
  <2>1. call' = [call EXCEPT ![p] = c]
    BY <1>1, <1>8, Zenon
  <2>2. c.pc = b
    BY <1>2, Zenon
  <2> QED BY <1>3, <2>1, <2>2, Zenon
<1> QED BY <1>4, <1>5, <1>6, <1>7, <1>8, Zenon

\* The numbers of a move: receivers, messages and stray wakes that it adds.
LEMMA MoveBalance ==
  ASSUME OInv, EndpointInv', NEW p \in Procs, NEW a, NEW b, Moved(p, a, b),
         OneCloser', Over' = Over,
         NEW dr \in Int, NEW dq \in Int, NEW ds \in Int,
         Len(receivers') = Len(receivers) + dr, Len(queue') <= Len(queue) + dq, strays' = strays + ds,
         \A q \in Procs : Left(q)' <= Left(q),
         dr + In(b, Handing) + In(a, WaitPcs) <= In(a, Handing) + In(b, WaitPcs) + ds,
         \/ dq + dr + In(b, Pending) <= In(a, Pending) + ds
         \/ Filled'
  PROVE  OInv'
<1>1. Numbers /\ Numbers'
  BY NumbersType, PTL DEF OInv
<1>2. /\ Len(queue) \in Nat /\ Len(queue') \in Nat /\ Len(receivers) \in Nat /\ Len(receivers') \in Nat
      /\ strays \in Nat /\ strays' \in Nat /\ \A q \in Procs : Left(q) \in Nat /\ Left(q)' \in Nat
  BY <1>1, Zenon DEF Numbers
<1>3. call[p].pc = a /\ call'[p].pc = b /\ OthersStay(p)
  BY Zenon DEF Moved, OthersStay
<1> DEFINE q1 == Len(queue)
           q2 == Len(queue')
           r1 == Len(receivers)
           r2 == Len(receivers')
           s1 == strays
           s2 == strays'
           ha == In(a, Handing)
           hb == In(b, Handing)
           na == In(a, Pending)
           nb == In(b, Pending)
           ta == In(a, WaitPcs)
           tb == In(b, WaitPcs)
<1>4. /\ ha \in Nat /\ hb \in Nat /\ na \in Nat /\ nb \in Nat /\ ta \in Nat /\ tb \in Nat
      /\ q1 \in Nat /\ q2 \in Nat /\ r1 \in Nat /\ r2 \in Nat /\ s1 \in Nat /\ s2 \in Nat
  BY <1>2, Zenon DEF In
<1>5. r2 = r1 + dr /\ q2 <= q1 + dq /\ s2 = s1 + ds
  OBVIOUS
<1>6. ASSUME NEW q \in Procs PROVE RegBalance(p, q)
  <2> DEFINE l1 == Left(q)
             l2 == Left(q)'
  <2>1. l1 \in Nat /\ l2 \in Nat /\ l2 <= l1
    BY <1>2, Zenon
  <2>2. dr + hb + ta <= ha + tb + ds
    OBVIOUS
  <2> HIDE DEF q1, q2, r1, r2, s1, s2, ha, hb, na, nb, ta, tb, l1, l2
  <2>3. r2 + hb + ta + l2 + s1 <= r1 + ha + tb + l1 + s2
    BY <2>1, <2>2, <1>4, <1>5
  <2> QED BY <2>3, <1>3, Zenon DEF RegBalance, q1, q2, r1, r2, s1, s2, ha, hb, na, nb, ta, tb, l1, l2
<1>7. FillBalance(p) \/ Filled'
  <2>1. ASSUME dq + dr + nb <= na + ds PROVE FillBalance(p)
    <3> HIDE DEF q1, q2, r1, r2, s1, s2, ha, hb, na, nb, ta, tb
    <3>1. q2 + r2 + nb + s1 <= q1 + r1 + na + s2
      BY <2>1, <1>4, <1>5
    <3> QED BY <3>1, <1>3, Zenon DEF FillBalance, q1, q2, r1, r2, s1, s2, ha, hb, na, nb, ta, tb
  <2> QED BY <2>1, Zenon
<1> QED BY <1>3, <1>6, <1>7, MoveKeeps, Zenon

\* A move outside close.
LEMMA PlainMove ==
  ASSUME OInv, NEW p \in Procs, NEW a, NEW b, Moved(p, a, b), a \notin Closes, b \notin Closes,
         active' = active
  PROVE  OneCloser' /\ Over' = Over /\ \A q \in Procs : Left(q)' = Left(q)
<1>1. \A q \in Procs : call'[q].pc \in Closes <=> call[q].pc \in Closes
  BY Zenon DEF Moved
<1>2. OneCloser'
  BY <1>1, Zenon DEF OInv, OneCloser
<1>3. Over' = Over
  BY <1>1, Zenon DEF Over
<1>4. \A q \in Procs : Left(q)' = Left(q)
  BY Zenon DEF Moved, Left, At, Closes
<1> QED BY <1>2, <1>3, <1>4, Zenon

\* Both together.
LEMMA PlainStep ==
  ASSUME OInv, EndpointInv', NEW p \in Procs, NEW a, NEW b, Moved(p, a, b),
         a \notin Closes, b \notin Closes, active' = active,
         NEW dr \in Int, NEW dq \in Int, NEW ds \in Int,
         Len(receivers') = Len(receivers) + dr, Len(queue') <= Len(queue) + dq, strays' = strays + ds,
         dr + In(b, Handing) + In(a, WaitPcs) <= In(a, Handing) + In(b, WaitPcs) + ds,
         \/ dq + dr + In(b, Pending) <= In(a, Pending) + ds
         \/ Filled'
  PROVE  OInv'
<1>1. OneCloser' /\ Over' = Over /\ \A q \in Procs : Left(q)' = Left(q)
  BY PlainMove, Zenon
<1>2. \A q \in Procs : Left(q)' \in Nat
  <2>1. Numbers'
    BY NumbersType, PTL
  <2> QED BY <2>1, Zenon DEF Numbers
<1>3. \A q \in Procs : Left(q)' <= Left(q)
  BY <1>1, <1>2
<1> QED BY <1>1, <1>3, MoveBalance, Zenon

\* The program counters outside close.
Plain == {"idle", "send_pop", "send_direct", "send_checked", "async_push", "async_pop", "wake",
          "recv_check", "register", "block", "blocked", "woken", "try_pop"}

\* None of these steps belongs to a close.
LEMMA PlainPcs ==
  /\ \A x \in Plain : x \notin Closes
  /\ "idle" \in Plain /\ "send_pop" \in Plain /\ "send_direct" \in Plain
  /\ "send_checked" \in Plain /\ "async_push" \in Plain /\ "async_pop" \in Plain
  /\ "wake" \in Plain /\ "recv_check" \in Plain /\ "register" \in Plain
  /\ "block" \in Plain /\ "blocked" \in Plain /\ "woken" \in Plain /\ "try_pop" \in Plain
BY Zenon DEF Plain, Closes

\* A step that changes neither the receivers nor the stray wakes.
Still == UNCHANGED <<active, receivers, strays>>

\* Going from a to b, a call keeps what its registration pays for.
Pays(a, b) == In(b, Handing) + In(a, WaitPcs) <= In(a, Handing) + In(b, WaitPcs)

\* Where the program counters belong.
LEMMA InValues ==
  /\ \A x : x \notin {"send_direct", "wake"} => In(x, Handing) = 0
  /\ In("send_direct", Handing) = 1 /\ In("wake", Handing) = 1
  /\ \A x : x \notin {"send_direct", "register"} => In(x, Pending) = 0
  /\ In("send_direct", Pending) = 1 /\ In("register", Pending) = 1
  /\ \A x : x \notin {"block", "blocked", "woken", "idle"} => In(x, WaitPcs) = 0
  /\ In("block", WaitPcs) = 1 /\ In("blocked", WaitPcs) = 1
  /\ In("idle", WaitPcs) = IF Over THEN 1 ELSE 0
  /\ In("woken", WaitPcs) = IF Over THEN 1 ELSE 0
BY Zenon DEF In, Handing, Pending, WaitPcs

\* The steps of senders and receivers keep the invariant.
LEMMA CallerSteps ==
  ASSUME OInv, EndpointInv', NEW p \in Procs,
         \/ \E m \in Msgs : SendSync(p, m) \/ SendAsync(p, m)
         \/ SendPop(p) \/ SendDirect(p) \/ SendChecked(p) \/ AsyncPush(p) \/ AsyncPop(p)
         \/ ReceiveSync(p) \/ RecvCheck(p) \/ Register(p) \/ Block(p)
         \/ RecvAgain(p) \/ TryReceive(p) \/ TryPop(p) \/ StrayWake(p)
  PROVE  OInv'
<1>1. /\ EndpointInv /\ OneCloser
      /\ queue \in Seq(Msgs) /\ receivers \in Seq(Procs) /\ Len(queue) \in Nat /\ Len(receivers) \in Nat
      /\ strays \in Nat /\ Capacity \in Nat /\ Capacity >= 1
      /\ Cardinality(Procs) \in Nat
  BY NumbersType, Zenon DEF OInv, EndpointInv, TypeOK, Numbers
<1>a. active => ~Over
  BY Zenon DEF Over
<1>i. -1 \in Int /\ 0 \in Int /\ 1 \in Int
  OBVIOUS
<1>z. Len(queue') \in Nat
  <2>1. Numbers'
    BY NumbersType, PTL
  <2> QED BY <2>1, Zenon DEF Numbers
\* A step that adds nothing, of receivers, messages and stray wakes.
<1>q. ASSUME NEW a \in Plain, NEW b \in Plain, Moved(p, a, b), Still, Len(queue') <= Len(queue),
             Pays(a, b), In(b, Pending) <= In(a, Pending)
      PROVE  OInv'
  <2>0. Len(queue') \in Nat /\ a \notin Closes /\ b \notin Closes /\ active' = active
    BY <1>q, <1>z, PlainPcs, Zenon DEF Still
  <2>1. Len(receivers') = Len(receivers) + 0 /\ strays' = strays + 0
    BY <1>1, <1>q DEF Still
  <2>2. Len(queue') <= Len(queue) + 0
    BY <1>1, <1>q, <2>0
  <2>3. /\ 0 + In(b, Handing) + In(a, WaitPcs) <= In(a, Handing) + In(b, WaitPcs) + 0
        /\ 0 + 0 + In(b, Pending) <= In(a, Pending) + 0
    BY <1>q DEF In, Pays
  <2> QED BY <1>q, <1>i, <2>0, <2>1, <2>2, <2>3, PlainStep, Zenon
\* A step that queues one message more where there is room.
<1>r. ASSUME NEW a \in Plain, NEW b \in Plain, Moved(p, a, b), Still,
             Len(queue') <= Len(queue) + 1, Pays(a, b), Filled'
      PROVE  OInv'
  <2>0. a \notin Closes /\ b \notin Closes /\ active' = active
    BY <1>r, PlainPcs, Zenon DEF Still
  <2>1. Len(receivers') = Len(receivers) + 0 /\ strays' = strays + 0
    BY <1>1, <1>r DEF Still
  <2>2. 0 + In(b, Handing) + In(a, WaitPcs) <= In(a, Handing) + In(b, WaitPcs) + 0
    BY <1>r DEF In, Pays
  <2> QED BY <1>r, <1>i, <2>0, <2>1, <2>2, PlainStep, Zenon
<1>p. PopFront /\ queue # <<>> => Len(queue') <= Len(queue)
  BY <1>1 DEF PopFront
<1>u. queue' = queue => Len(queue') <= Len(queue)
  BY <1>1
\* Room for one more, seen from a process that is not waiting.
<1>m. ASSUME NEW a \in {"send_checked", "async_push", "recv_check"}, NEW b, Moved(p, a, b), Still,
             Len(queue') + In(b, Pending) <= Capacity
      PROVE  Filled'
  <2>0. call[p].pc = a /\ call'[p].pc = b /\ \A x \in Procs \ {p} : call'[x].pc = call[x].pc
    BY <1>m, Zenon DEF Moved
  <2>1. a \notin WaitPcs /\ a # "register" /\ In(a, Pending) = 0 /\ In(b, Pending) \in Nat
    BY <1>m, Zenon DEF WaitPcs, In, Pending
  <2>2. Len(receivers) + CountIn(call, Pending) <= (Cardinality(Procs) - 1) + strays
    BY <2>0, <2>1, PushRoom, Zenon
  <2>3. CountIn(call', Pending) + In(call[p].pc, Pending) = CountIn(call, Pending) + In(call'[p].pc, Pending)
    BY <2>0, CountMove
  <2>4. CountIn(call', Pending) + In(a, Pending) = CountIn(call, Pending) + In(b, Pending)
    BY <2>0, <2>3, Zenon
  <2>5. CountIn(call, Pending) \in Nat /\ CountIn(call', Pending) \in Nat
    BY CountType, Zenon
  <2> DEFINE q2 == Len(queue')
             r1 == Len(receivers)
             n1 == CountIn(call, Pending)
             n2 == CountIn(call', Pending)
             x == In(b, Pending)
             k == Cardinality(Procs)
             s == strays
             cap == Capacity
  <2>7. /\ q2 \in Nat /\ r1 \in Nat /\ n1 \in Nat /\ n2 \in Nat /\ x \in Nat /\ k \in Nat /\ s \in Nat
        /\ cap \in Nat /\ r1 + n1 <= (k - 1) + s /\ n2 + 0 = n1 + x /\ q2 + x <= cap
    BY <1>1, <1>m, <1>z, <2>1, <2>2, <2>4, <2>5, Zenon
  <2> HIDE DEF q2, r1, n1, n2, x, k, s, cap
  <2>8. q2 + r1 + n2 <= cap + (k - 1) + s
    BY <2>7
  <2> QED BY <2>8, <1>m, Zenon DEF Filled, Still, q2, r1, n1, n2, x, k, s, cap
<1>2. ASSUME NEW m \in Msgs, SendSync(p, m) \/ SendAsync(p, m) PROVE OInv'
  <2>1. PICK b \in {"send_pop", "async_push"} : Moved(p, "idle", b)
    BY <1>1, <1>2, MovedBy, Zenon DEF SendSync, SendAsync
  <2>2. Still /\ queue' = queue /\ ~Over /\ b \in Plain
    BY <1>2, <1>a, Zenon DEF SendSync, SendAsync, Still, Plain
  <2>3. Pays("idle", b) /\ In(b, Pending) <= In("idle", Pending)
    BY <2>2, InValues DEF Pays
  <2> QED BY PlainPcs, <1>q, <1>u, <2>1, <2>2, <2>3, Zenon
<1>3. ASSUME SendPop(p) PROVE OInv'
  <2>1. CASE receivers # <<>>
    <3>1. Moved(p, "send_pop", "send_direct") /\ UNCHANGED <<active, queue, strays>>
      BY <1>1, <1>3, <2>1, MovedBy, Zenon DEF SendPop
    <3>2. Len(receivers') = Len(receivers) + (-1)
      BY <1>1, <1>3, <2>1 DEF SendPop, PopReceiver
    <3>3. Len(queue') <= Len(queue) + 0 /\ strays' = strays + 0
      BY <1>1, <3>1
    <3>4. /\ -1 + In("send_direct", Handing) + In("send_pop", WaitPcs)
               <= In("send_pop", Handing) + In("send_direct", WaitPcs) + 0
          /\ 0 + (-1) + In("send_direct", Pending) <= In("send_pop", Pending) + 0
      BY InValues
    <3> QED BY PlainPcs, <1>i, <3>1, <3>2, <3>3, <3>4, PlainStep, Zenon
  <2>2. CASE receivers = <<>>
    <3>1. Moved(p, "send_pop", "send_checked") /\ Still /\ queue' = queue
      BY <1>1, <1>3, <2>2, MovedBy, Zenon DEF SendPop, Still
    <3>2. Pays("send_pop", "send_checked") /\ In("send_checked", Pending) <= In("send_pop", Pending)
      BY InValues DEF Pays
    <3> QED BY PlainPcs, <1>q, <1>u, <3>1, <3>2, Zenon
  <2> QED BY <2>1, <2>2, Zenon
<1>4. ASSUME SendDirect(p) PROVE OInv'
  <2>1. Moved(p, "send_direct", "wake") /\ UNCHANGED <<active, receivers, strays>>
    BY <1>1, <1>4, MovedBy, Zenon DEF SendDirect
  <2>2. Len(queue') <= Len(queue) + 1 /\ Len(receivers') = Len(receivers) + 0 /\ strays' = strays + 0
    BY <1>1, <1>4, <2>1 DEF SendDirect, PushBack
  <2>3. /\ 0 + In("wake", Handing) + In("send_direct", WaitPcs)
             <= In("send_direct", Handing) + In("wake", WaitPcs) + 0
        /\ 1 + 0 + In("wake", Pending) <= In("send_direct", Pending) + 0
    BY InValues
  <2> QED BY PlainPcs, <1>i, <2>1, <2>2, <2>3, PlainStep, Zenon
<1>5. ASSUME SendChecked(p) PROVE OInv'
  <2>1. Moved(p, "send_checked", "idle") /\ Still
    BY <1>1, <1>5, MovedBy, Zenon DEF SendChecked, Still
  <2>2. Pays("send_checked", "idle") /\ In("idle", Pending) <= In("send_checked", Pending)
        /\ In("idle", Pending) = 0
    BY InValues DEF Pays
  <2>3. CASE Full
    <3>1. queue' = queue
      BY <1>5, <2>3, Zenon DEF SendChecked
    <3> QED BY PlainPcs, <1>q, <1>u, <2>1, <2>2, <3>1, Zenon
  <2>4. CASE ~Full
    <3>1. Len(queue') = Len(queue) + 1 /\ Len(queue) < Capacity
      BY <1>1, <1>5, <2>4 DEF SendChecked, PushBack, Full
    <3>2. Len(queue') + In("idle", Pending) <= Capacity /\ Len(queue') <= Len(queue) + 1
      BY <1>1, <2>2, <3>1
    <3>3. Filled'
      BY <1>m, <2>1, <3>2, Zenon
    <3> QED BY PlainPcs, <1>r, <2>1, <2>2, <3>2, <3>3, Zenon
  <2> QED BY <2>3, <2>4, Zenon
<1>6. ASSUME AsyncPush(p) PROVE OInv'
  <2>1. Still
    BY <1>6, Zenon DEF AsyncPush, Still
  <2>2. /\ Pays("async_push", "idle") /\ In("idle", Pending) <= In("async_push", Pending)
        /\ Pays("async_push", "async_pop") /\ In("async_pop", Pending) = 0
    BY InValues DEF Pays
  <2>3. CASE Full
    <3>1. Moved(p, "async_push", "idle") /\ queue' = queue
      BY <1>1, <1>6, <2>3, MovedBy, Zenon DEF AsyncPush
    <3> QED BY PlainPcs, <1>q, <1>u, <2>1, <2>2, <3>1, Zenon
  <2>4. CASE ~Full
    <3>1. Moved(p, "async_push", "async_pop")
      BY <1>1, <1>6, <2>4, MovedBy, Zenon DEF AsyncPush
    <3>2. Len(queue') = Len(queue) + 1 /\ Len(queue) < Capacity
      BY <1>1, <1>6, <2>4 DEF AsyncPush, PushBack, Full
    <3>3. Len(queue') + In("async_pop", Pending) <= Capacity /\ Len(queue') <= Len(queue) + 1
      BY <1>1, <2>2, <3>2
    <3>4. Filled'
      BY <1>m, <2>1, <3>1, <3>3, Zenon
    <3> QED BY PlainPcs, <1>r, <2>1, <2>2, <3>1, <3>3, <3>4, Zenon
  <2> QED BY <2>3, <2>4, Zenon
<1>7. ASSUME AsyncPop(p) PROVE OInv'
  <2>1. CASE receivers # <<>>
    <3>1. Moved(p, "async_pop", "wake") /\ UNCHANGED <<active, queue, strays>>
      BY <1>1, <1>7, <2>1, MovedBy, Zenon DEF AsyncPop
    <3>2. Len(receivers') = Len(receivers) + (-1)
      BY <1>1, <1>7, <2>1 DEF AsyncPop, PopReceiver
    <3>3. Len(queue') <= Len(queue) + 0 /\ strays' = strays + 0
      BY <1>1, <3>1
    <3>4. /\ -1 + In("wake", Handing) + In("async_pop", WaitPcs)
               <= In("async_pop", Handing) + In("wake", WaitPcs) + 0
          /\ 0 + (-1) + In("wake", Pending) <= In("async_pop", Pending) + 0
      BY InValues
    <3> QED BY PlainPcs, <1>i, <3>1, <3>2, <3>3, <3>4, PlainStep, Zenon
  <2>2. CASE receivers = <<>>
    <3>1. Moved(p, "async_pop", "idle") /\ Still /\ queue' = queue
      BY <1>1, <1>7, <2>2, MovedBy, Zenon DEF AsyncPop, Still
    <3>2. Pays("async_pop", "idle") /\ In("idle", Pending) <= In("async_pop", Pending)
      BY InValues DEF Pays
    <3> QED BY PlainPcs, <1>q, <1>u, <3>1, <3>2, Zenon
  <2> QED BY <2>1, <2>2, Zenon
<1>8. ASSUME ReceiveSync(p) \/ TryReceive(p) PROVE OInv'
  <2>1. PICK b \in {"recv_check", "try_pop"} : Moved(p, "idle", b)
    BY <1>1, <1>8, MovedBy, Zenon DEF ReceiveSync, TryReceive
  <2>2. Still /\ queue' = queue /\ ~Over /\ b \in Plain
    BY <1>8, <1>a, Zenon DEF ReceiveSync, TryReceive, Still, Plain
  <2>3. Pays("idle", b) /\ In(b, Pending) <= In("idle", Pending)
    BY <2>2, InValues DEF Pays
  <2> QED BY PlainPcs, <1>q, <1>u, <2>1, <2>2, <2>3, Zenon
<1>9. ASSUME RecvCheck(p) PROVE OInv'
  <2>1. Still
    BY <1>9, Zenon DEF RecvCheck, Still
  <2>2. CASE queue # <<>>
    <3>1. Moved(p, "recv_check", "idle") /\ PopFront
      BY <1>1, <1>9, <2>2, MovedBy, Zenon DEF RecvCheck
    <3>2. Pays("recv_check", "idle") /\ In("idle", Pending) <= In("recv_check", Pending)
      BY InValues DEF Pays
    <3> QED BY PlainPcs, <1>p, <1>q, <2>1, <2>2, <3>1, <3>2, Zenon
  <2>3. CASE queue = <<>>
    <3>1. Moved(p, "recv_check", "register") /\ queue' = queue
      BY <1>1, <1>9, <2>3, MovedBy, Zenon DEF RecvCheck
    <3>2. Len(queue') = 0 /\ Len(queue') <= Len(queue) + 1
      BY <2>3, <3>1
    <3>3. Pays("recv_check", "register") /\ In("register", Pending) = 1
      BY InValues DEF Pays
    <3>4. Len(queue') + In("register", Pending) <= Capacity
      BY <1>1, <3>2, <3>3
    <3>5. Filled'
      BY <1>m, <2>1, <3>1, <3>4, Zenon
    <3> QED BY PlainPcs, <1>r, <2>1, <3>1, <3>2, <3>3, <3>5, Zenon
  <2> QED BY <2>2, <2>3, Zenon
<1>10. ASSUME Register(p) PROVE OInv'
  <2>1. Moved(p, "register", "block") /\ UNCHANGED <<active, queue, strays>>
    BY <1>1, <1>10, MovedBy, Zenon DEF Register
  <2>2. Len(receivers') = Len(receivers) + 1 /\ Len(queue') <= Len(queue) + 0 /\ strays' = strays + 0
    BY <1>1, <1>10, <2>1 DEF Register
  <2>3. /\ 1 + In("block", Handing) + In("register", WaitPcs)
             <= In("register", Handing) + In("block", WaitPcs) + 0
        /\ 0 + 1 + In("block", Pending) <= In("register", Pending) + 0
    BY InValues
  <2> QED BY PlainPcs, <1>i, <2>1, <2>2, <2>3, PlainStep, Zenon
<1>11. ASSUME Block(p) PROVE OInv'
  <2>1. Moved(p, "block", "blocked") /\ Still /\ queue' = queue
    BY <1>1, <1>11, MovedBy, Zenon DEF Block, Still
  <2>2. Pays("block", "blocked") /\ In("blocked", Pending) <= In("block", Pending)
    BY InValues DEF Pays
  <2> QED BY PlainPcs, <1>q, <1>u, <2>1, <2>2, Zenon
<1>12. ASSUME RecvAgain(p) \/ TryPop(p) PROVE OInv'
  <2>1. PICK a \in {"woken", "try_pop"} : Moved(p, a, "idle")
    BY <1>1, <1>12, MovedBy, Zenon DEF RecvAgain, TryPop
  <2>2. Still /\ Len(queue') <= Len(queue) /\ a \in Plain
    BY <1>12, <1>p, <1>u, Zenon DEF RecvAgain, TryPop, Still, Plain
  <2>3. Pays(a, "idle") /\ In("idle", Pending) <= In(a, Pending)
    BY InValues DEF Pays
  <2> QED BY PlainPcs, <1>q, <2>1, <2>2, <2>3, Zenon
<1>13. ASSUME StrayWake(p) PROVE OInv'
  <2>1. Moved(p, "blocked", "woken") /\ UNCHANGED <<active, queue, receivers>> /\ strays' = strays + 1
    BY <1>1, <1>13, MovedBy, Zenon DEF StrayWake
  <2>2. Len(receivers') = Len(receivers) + 0 /\ Len(queue') <= Len(queue) + 0
    BY <1>1, <2>1
  <2>3. /\ 0 + In("woken", Handing) + In("blocked", WaitPcs)
             <= In("blocked", Handing) + In("woken", WaitPcs) + 1
        /\ 0 + 0 + In("woken", Pending) <= In("blocked", Pending) + 1
    BY InValues
  <2> QED BY PlainPcs, <1>i, <2>1, <2>2, <2>3, PlainStep, Zenon
<1> QED BY <1>2, <1>3, <1>4, <1>5, <1>6, <1>7, <1>8, <1>9, <1>10, <1>11, <1>12, <1>13, Zenon

\* What waking a process does to the counts.
LEMMA WakeCounts ==
  ASSUME EndpointInv, NEW q \in Procs, NEW c, c = Woken(q)
  PROVE  /\ \A x \in Procs : /\ c[x].list = call[x].list
                             /\ \/ c[x] = call[x]
                                \/ call[x].pc = "blocked" /\ c[x].pc = "woken"
         /\ CountIn(c, Handing) = CountIn(call, Handing)
         /\ CountIn(c, Pending) = CountIn(call, Pending)
         /\ CountIn(call, WaitPcs) <= CountIn(c, WaitPcs) + 1
<1>1. call \in [Procs -> Calls]
  BY Zenon DEF EndpointInv, TypeOK
<1>2. \A x \in Procs : /\ c[x].list = call[x].list
                       /\ \/ c[x] = call[x]
                          \/ call[x].pc = "blocked" /\ c[x].pc = "woken"
  BY <1>1, Zenon DEF Woken, Calls
<1>3. \A x \in Procs \ {q} : c[x].pc = call[x].pc
  BY <1>1, Zenon DEF Woken
<1>4. /\ CountIn(c, Handing) + In(call[q].pc, Handing) = CountIn(call, Handing) + In(c[q].pc, Handing)
      /\ CountIn(c, Pending) + In(call[q].pc, Pending) = CountIn(call, Pending) + In(c[q].pc, Pending)
      /\ CountIn(c, WaitPcs) + In(call[q].pc, WaitPcs) = CountIn(call, WaitPcs) + In(c[q].pc, WaitPcs)
  BY <1>3, CountMove
<1>5. /\ CountIn(c, Handing) \in Nat /\ CountIn(c, Pending) \in Nat /\ CountIn(c, WaitPcs) \in Nat
      /\ CountIn(call, Handing) \in Nat /\ CountIn(call, Pending) \in Nat /\ CountIn(call, WaitPcs) \in Nat
  BY CountType, Zenon
<1>6. In(call[q].pc, Handing) = In(c[q].pc, Handing) /\ In(call[q].pc, Pending) = In(c[q].pc, Pending)
  BY <1>2, Zenon DEF In, Handing, Pending
<1>7. /\ In(c[q].pc, WaitPcs) \in {0, 1} /\ In(call[q].pc, WaitPcs) \in {0, 1}
      /\ In(c[q].pc, Handing) \in Nat /\ In(c[q].pc, Pending) \in Nat
  BY Zenon DEF In
<1>8. CountIn(c, Handing) = CountIn(call, Handing)
  BY <1>4, <1>5, <1>6, <1>7
<1>9. CountIn(c, Pending) = CountIn(call, Pending)
  BY <1>4, <1>5, <1>6, <1>7
<1>10. CountIn(call, WaitPcs) <= CountIn(c, WaitPcs) + 1
  BY <1>4, <1>5, <1>7
<1> QED BY <1>2, <1>8, <1>9, <1>10, Zenon

\* The wake at the end of a send.
LEMMA WakeStep ==
  ASSUME OInv, EndpointInv', NEW p \in Procs, Wake(p)
  PROVE  OInv'
<1>0. /\ EndpointInv /\ OneCloser /\ Registered /\ Filled /\ call \in [Procs -> SoundCalls]
      /\ call[p].pc = "wake" /\ UNCHANGED <<active, queue, receivers, strays>>
  BY Zenon DEF OInv, EndpointInv, Wake, At
<1>1. call[p].peer \in Procs
  BY <1>0, Zenon DEF SoundCalls, Handing
<1> DEFINE c == Woken(call[p].peer)
<1>2. /\ \A x \in Procs : /\ c[x].list = call[x].list
                          /\ \/ c[x] = call[x]
                             \/ call[x].pc = "blocked" /\ c[x].pc = "woken"
      /\ CountIn(c, Handing) = CountIn(call, Handing)
      /\ CountIn(c, Pending) = CountIn(call, Pending)
      /\ CountIn(call, WaitPcs) <= CountIn(c, WaitPcs) + 1
  BY <1>0, <1>1, WakeCounts, Zenon
<1>3. c \in [Procs -> SoundCalls]
  BY <1>0, <1>1, CallsStep, Zenon
<1>4. call' = [c EXCEPT ![p] = Idle]
  BY Zenon DEF Wake
<1> HIDE DEF c
<1>5. c[p].pc = "wake"
  BY <1>0, <1>2, Zenon
<1>6. call'[p].pc = "idle" /\ \A x \in Procs \ {p} : call'[x] = c[x]
  BY <1>3, <1>4, Zenon DEF Idle
<1>7. \A x \in Procs : call'[x].pc \in Closes <=> call[x].pc \in Closes
  BY <1>0, <1>2, <1>6, Zenon DEF Closes
<1>8. OneCloser' /\ Over' = Over
  BY <1>0, <1>7, Zenon DEF OneCloser, Over
<1>9. WaitPcs' = WaitPcs
  BY <1>8, Zenon DEF WaitPcs
<1>10. \A x \in Procs : Left(x)' = Left(x)
  BY <1>0, <1>2, <1>6, Zenon DEF Left, At
<1>11. /\ CountIn(call', Handing) + In("wake", Handing) = CountIn(c, Handing) + In("idle", Handing)
       /\ CountIn(call', Pending) + In("wake", Pending) = CountIn(c, Pending) + In("idle", Pending)
       /\ CountIn(call', WaitPcs) + In("wake", WaitPcs) = CountIn(c, WaitPcs) + In("idle", WaitPcs)
  BY <1>5, <1>6, CountMove
<1>12. /\ CountIn(c, Handing) \in Nat /\ CountIn(c, Pending) \in Nat /\ CountIn(c, WaitPcs) \in Nat
       /\ CountIn(call', Handing) \in Nat /\ CountIn(call', Pending) \in Nat /\ CountIn(call', WaitPcs) \in Nat
       /\ CountIn(call, WaitPcs) \in Nat
  BY CountType, Zenon
<1>13. /\ In("wake", Handing) = 1 /\ In("idle", Handing) = 0 /\ In("wake", Pending) = 0
       /\ In("idle", Pending) = 0 /\ In("wake", WaitPcs) = 0 /\ In("idle", WaitPcs) \in Nat
  BY InValues
<1> DEFINE r == Len(receivers)
           s == strays
           h1 == CountIn(call, Handing)
           h2 == CountIn(call', Handing)
           t1 == CountIn(call, WaitPcs)
           t2 == CountIn(call', WaitPcs)
           tc == CountIn(c, WaitPcs)
           ti == In("idle", WaitPcs)
<1>14. r \in Nat /\ s \in Nat /\ \A x \in Procs : Left(x) \in Nat
  BY <1>0, NumbersType, Zenon DEF Numbers
<1>15. h2 + 1 = h1 /\ t2 = tc + ti /\ t1 <= tc + 1 /\ h1 \in Nat /\ h2 \in Nat
  BY <1>2, <1>11, <1>12, <1>13
<1>16. t1 \in Nat /\ t2 \in Nat /\ tc \in Nat /\ ti \in Nat
  BY <1>12, <1>13, Zenon
<1>17. ASSUME NEW x \in Procs PROVE r + h2 + Left(x) <= t2 + s
  <2> DEFINE l == Left(x)
  <2>1. r + h1 + l <= t1 + s /\ l \in Nat
    BY <1>0, <1>14, Zenon DEF Registered
  <2> HIDE DEF r, s, h1, h2, t1, t2, tc, ti, l
  <2>2. r + h2 + l <= t2 + s
    BY <1>14, <1>15, <1>16, <2>1
  <2> QED BY <2>2, Zenon DEF l
<1>18. Registered'
  BY <1>0, <1>9, <1>10, <1>17, Zenon DEF Registered
<1>19. CountIn(call', Pending) = CountIn(call, Pending)
  BY <1>2, <1>11, <1>12, <1>13
<1>20. Filled'
  BY <1>0, <1>19, Zenon DEF Filled
<1> QED BY <1>8, <1>18, <1>20, Zenon DEF OInv

\* A call to close, up to where it wakes the receivers it found.
LEMMA CloseBegins ==
  ASSUME OInv, EndpointInv', NEW p \in Procs, Close(p) \/ CloseDrain(p)
  PROVE  OInv'
<1>0. /\ EndpointInv /\ OneCloser /\ call \in [Procs -> Calls]
      /\ queue \in Seq(Msgs) /\ receivers \in Seq(Procs)
      /\ Len(queue) \in Nat /\ Len(receivers) \in Nat /\ strays \in Nat
  BY NumbersType, Zenon DEF OInv, EndpointInv, TypeOK, Numbers
<1>1. ASSUME Close(p) PROVE OInv'
  <2>1. /\ Moved(p, "idle", "close_drain") /\ active /\ ~active'
        /\ UNCHANGED <<queue, receivers, strays>>
    BY <1>0, <1>1, MovedBy, Zenon DEF Close
  <2>2. \A x \in Procs : call[x].pc \notin Closes
    BY <1>0, <2>1, Zenon DEF OneCloser
  <2>3. \A x \in Procs : call'[x].pc \in Closes <=> x = p
    BY <2>1, <2>2, Zenon DEF Moved, Closes
  <2>4. OneCloser' /\ ~Over /\ ~Over'
    BY <2>1, <2>3, Zenon DEF OneCloser, Over
  <2>5. \A x \in Procs : Left(x)' <= Left(x)
    <3>1. \A x \in Procs : Left(x)' = 0 /\ Left(x) = 0
      BY <2>1, <2>2, <2>3, Zenon DEF Moved, Left, At, Closes
    <3> QED BY <3>1
  <2>6. /\ Len(receivers') = Len(receivers) + 0 /\ Len(queue') <= Len(queue) + 0 /\ strays' = strays + 0
    BY <1>0, <2>1
  <2>7. /\ 0 + In("close_drain", Handing) + In("idle", WaitPcs) <= In("idle", Handing) + In("close_drain", WaitPcs) + 0
        /\ 0 + 0 + In("close_drain", Pending) <= In("idle", Pending) + 0
    BY <2>4, InValues
  <2>8. 0 \in Int /\ Over' = Over
    BY <2>4 DEF Over
  <2> QED BY <2>1, <2>4, <2>5, <2>6, <2>7, <2>8, MoveBalance, Zenon
<1>2. ASSUME CloseDrain(p) PROVE OInv'
  <2>1. /\ Moved(p, "close_drain", "close_wake") /\ call'[p].list = receivers /\ receivers' = <<>>
        /\ UNCHANGED <<active, queue, strays>>
    BY <1>0, <1>2, MovedBy, Zenon DEF CloseDrain, Calls
  <2>2. \A x \in Procs : call'[x].pc \in Closes <=> call[x].pc \in Closes
    BY <2>1, Zenon DEF Moved, Closes
  <2>3. OneCloser' /\ Over' = Over
    BY <1>0, <2>1, <2>2, Zenon DEF OneCloser, Over
  <2>4. \A x \in Procs : Left(x) = 0 /\ Left(x)' \in {0, Len(receivers)}
    <3>1. Left(p) = 0 /\ Left(p)' = Len(receivers)
      BY <2>1, Zenon DEF Moved, Left, At
    <3>2. ASSUME NEW x \in Procs \ {p} PROVE Left(x) = 0 /\ Left(x)' = 0
      <4>1. call[x].pc # "close_wake" /\ call'[x] = call[x]
        BY <1>0, <2>1, Zenon DEF OneCloser, Moved, Closes
      <4> QED BY <4>1, Zenon DEF Left, At
    <3> QED BY <3>1, <3>2, Zenon
  <2>5. Len(receivers') = 0 /\ Len(queue') = Len(queue) /\ strays' = strays
    BY <2>1, Zenon
  <2>6. OthersStay(p) /\ call[p].pc = "close_drain" /\ call'[p].pc = "close_wake"
    BY <2>1, Zenon DEF Moved, OthersStay
  <2>7. /\ In("close_drain", Handing) = 0 /\ In("close_wake", Handing) = 0
        /\ In("close_drain", Pending) = 0 /\ In("close_wake", Pending) = 0
        /\ In("close_drain", WaitPcs) = 0 /\ In("close_wake", WaitPcs) = 0
    BY InValues, Zenon
  <2> DEFINE r1 == Len(receivers)
             q1 == Len(queue)
             s1 == strays
  <2>8. \A x \in Procs : RegBalance(p, x)
    <3> SUFFICES ASSUME NEW x \in Procs PROVE RegBalance(p, x)
      OBVIOUS
    <3> DEFINE l2 == Left(x)'
    <3>1. r1 \in Nat /\ s1 \in Nat /\ l2 \in {0, r1}
      BY <1>0, <2>4, Zenon
    <3> HIDE DEF r1, s1, l2
    <3>2. 0 + 0 + 0 + l2 + s1 <= r1 + 0 + 0 + 0 + s1
      BY <3>1
    <3> QED BY <2>4, <2>5, <2>6, <2>7, <3>2, Zenon DEF RegBalance, r1, s1, l2
  <2>9. FillBalance(p)
    <3>1. r1 \in Nat /\ s1 \in Nat /\ q1 \in Nat
      BY <1>0, Zenon
    <3> HIDE DEF r1, s1, q1
    <3>2. q1 + 0 + 0 + s1 <= q1 + r1 + 0 + s1
      BY <3>1
    <3> QED BY <2>5, <2>6, <2>7, <3>2, Zenon DEF FillBalance, r1, s1, q1
  <2> QED BY <2>3, <2>6, <2>8, <2>9, MoveKeeps, Zenon
<1> QED BY <1>1, <1>2, Zenon

\* Waking them, one after another, and clearing the queue.
LEMMA CloseGoesOn ==
  ASSUME OInv, EndpointInv', NEW p \in Procs, CloseWake(p) \/ CloseClear(p)
  PROVE  OInv'
<1>0. /\ EndpointInv /\ OneCloser /\ Registered /\ Filled
      /\ call \in [Procs -> SoundCalls] /\ call[p].list \in Seq(Procs)
      /\ queue \in Seq(Msgs) /\ receivers \in Seq(Procs)
      /\ Len(queue) \in Nat /\ Len(receivers) \in Nat /\ strays \in Nat
      /\ UNCHANGED <<active, receivers, strays>> /\ Len(queue') <= Len(queue)
  <2>1. EndpointInv /\ OneCloser /\ Registered /\ Filled
    BY Zenon DEF OInv
  <2>2. /\ call \in [Procs -> SoundCalls] /\ call[p].list \in Seq(Procs)
        /\ queue \in Seq(Msgs) /\ receivers \in Seq(Procs)
    BY <2>1, Zenon DEF EndpointInv, TypeOK, Calls
  <2>3. Len(queue) \in Nat /\ Len(receivers) \in Nat /\ strays \in Nat
    BY <2>1, NumbersType, Zenon DEF Numbers
  <2>4. UNCHANGED <<active, receivers, strays>> /\ (queue' = queue \/ queue' = <<>>)
    BY Zenon DEF CloseWake, CloseClear
  <2>5. Len(<<>>) = 0 /\ \A k \in Nat : k <= k /\ 0 <= k
    OBVIOUS
  <2>6. Len(queue') <= Len(queue)
    BY <2>3, <2>4, <2>5, Zenon
  <2> QED BY <2>1, <2>2, <2>3, <2>4, <2>6, Zenon
<1>1. ASSUME NEW a, NEW b, a \in Closes, b \in Closes, b # "close_wake", Moved(p, a, b)
      PROVE  OInv'
  <2>1. \A x \in Procs : call'[x].pc \in Closes <=> call[x].pc \in Closes
    BY <1>1, Zenon DEF Moved
  <2>2. OneCloser' /\ Over' = Over
    BY <1>0, <2>1, Zenon DEF OneCloser, Over
  <2>3. \A x \in Procs : Left(x)' <= Left(x)
    <3>1. Left(p)' = 0 /\ \A x \in Procs \ {p} : Left(x)' = Left(x)
      BY <1>1, Zenon DEF Moved, Left, At
    <3>2. \A x \in Procs : Left(x) \in Nat
      BY <1>0, NumbersType, Zenon DEF Numbers
    <3> QED BY <3>1, <3>2
  <2>4. Len(receivers') = Len(receivers) + 0 /\ Len(queue') <= Len(queue) + 0 /\ strays' = strays + 0
    BY <1>0
  <2>5. /\ 0 + In(b, Handing) + In(a, WaitPcs) <= In(a, Handing) + In(b, WaitPcs) + 0
        /\ 0 + 0 + In(b, Pending) <= In(a, Pending) + 0
    BY <1>1, InValues DEF Closes
  <2>6. 0 \in Int
    OBVIOUS
  <2> QED BY <1>1, <2>2, <2>3, <2>4, <2>5, <2>6, MoveBalance, Zenon
<1>2. ASSUME CloseClear(p) PROVE OInv'
  BY <1>0, <1>1, <1>2, MovedBy, Zenon DEF CloseClear, Closes
<1>3. ASSUME CloseWake(p), call[p].list = <<>> PROVE OInv'
  BY <1>0, <1>1, <1>3, MovedBy, Zenon DEF CloseWake, Closes
<1>4. ASSUME CloseWake(p), call[p].list # <<>> PROVE OInv'
  <2>1. /\ call[p].pc = "close_wake" /\ queue' = queue
        /\ Head(call[p].list) \in Procs /\ Len(Tail(call[p].list)) = Len(call[p].list) - 1
        /\ Len(call[p].list) \in Nat /\ Len(call[p].list) >= 1
    <3> DEFINE L == call[p].list
    <3>1. L \in Seq(Procs) /\ L # <<>>
      BY <1>0, <1>4, Zenon
    <3> HIDE DEF L
    <3>2. Head(L) \in Procs /\ Len(Tail(L)) = Len(L) - 1 /\ Len(L) \in Nat /\ Len(L) >= 1
      BY <3>1
    <3>3. call[p].pc = "close_wake" /\ queue' = queue
      BY <1>4, Zenon DEF CloseWake, At
    <3> QED BY <3>2, <3>3, Zenon DEF L
  <2> DEFINE c == Woken(Head(call[p].list))
  <2>2. /\ \A x \in Procs : /\ c[x].list = call[x].list
                            /\ \/ c[x] = call[x]
                               \/ call[x].pc = "blocked" /\ c[x].pc = "woken"
        /\ CountIn(c, Handing) = CountIn(call, Handing)
        /\ CountIn(c, Pending) = CountIn(call, Pending)
        /\ CountIn(call, WaitPcs) <= CountIn(c, WaitPcs) + 1
    BY <1>0, <2>1, WakeCounts, Zenon
  <2>3. c \in [Procs -> SoundCalls]
    BY <1>0, <2>1, CallsStep, Zenon
  <2>4. call' = [c EXCEPT ![p].list = Tail(@)]
    BY <1>4, Zenon DEF CloseWake
  <2> HIDE DEF c
  <2>5. /\ call'[p].list = Tail(call[p].list) /\ call'[p].pc = "close_wake"
        /\ \A x \in Procs \ {p} : call'[x] = c[x]
        /\ \A x \in Procs : call'[x].pc = c[x].pc
    <3> DEFINE d == [c[p] EXCEPT !.list = Tail(call[p].list)]
    <3>1. c[p].list = call[p].list /\ c[p].pc = "close_wake"
      BY <2>1, <2>2, Zenon
    <3>2. call' = [c EXCEPT ![p] = d]
      BY <2>3, <2>4, <3>1, Zenon
    <3>3. c[p] \in [pc : PCs, msg : Msgs \cup {NoMsg}, peer : Procs \cup {NoProc}, list : Seq(Procs)]
      BY <2>3, Zenon DEF SoundCalls, Calls
    <3>4. d.list = Tail(call[p].list) /\ d.pc = "close_wake"
      BY <3>1, <3>3, Zenon
    <3> HIDE DEF d
    <3> QED BY <2>3, <3>1, <3>2, <3>4, Zenon
  <2>7. \A x \in Procs : call'[x].pc \in Closes <=> call[x].pc \in Closes
    BY <2>2, <2>5, Zenon DEF Closes
  <2>8. OneCloser' /\ Over' = Over
    BY <1>0, <2>7, Zenon DEF OneCloser, Over
  <2>9. WaitPcs' = WaitPcs
    BY <2>8, Zenon DEF WaitPcs
  <2>10. CountIn(call', Handing) = CountIn(c, Handing) /\ CountIn(call', Pending) = CountIn(c, Pending)
         /\ CountIn(call', WaitPcs) = CountIn(c, WaitPcs)
    <3>1. ASSUME NEW S PROVE CountIn(call', S) = CountIn(c, S)
      <4>1. {x \in Procs : call'[x].pc \in S} = {x \in Procs : c[x].pc \in S}
        BY <2>5, Zenon
      <4> QED BY <4>1, Zenon DEF CountIn
    <3> QED BY <3>1, Zenon
  <2> DEFINE r == Len(receivers)
             s == strays
             h == CountIn(call, Handing)
             t1 == CountIn(call, WaitPcs)
             t2 == CountIn(call', WaitPcs)
             l == Len(call[p].list)
  <2>11. r \in Nat /\ s \in Nat /\ h \in Nat /\ t1 \in Nat /\ t2 \in Nat /\ l \in Nat /\ l >= 1
    BY <1>0, <2>1, CountType, Zenon
  <2>12. t1 <= t2 + 1
    BY <2>2, <2>10, Zenon
  <2>13. r + h + l <= t1 + s
    <3>1. Left(p) = l
      BY <2>1, Zenon DEF Left, At
    <3> QED BY <1>0, <3>1, Zenon DEF Registered
  <2>14. Left(p)' = l - 1 /\ \A x \in Procs \ {p} : Left(x)' = 0
    <3>1. Left(p)' = l - 1
      BY <2>1, <2>5, Zenon DEF Left, At
    <3>2. ASSUME NEW x \in Procs \ {p} PROVE call'[x].pc # "close_wake"
      <4>1. call[x].pc \notin Closes
        BY <1>0, <2>1, Zenon DEF OneCloser, Closes
      <4> QED BY <2>7, <4>1, Zenon DEF Closes
    <3> QED BY <3>1, <3>2, Zenon DEF Left, At
  <2> HIDE DEF r, s, h, t1, t2, l
  <2>15. r + h + (l - 1) <= t2 + s /\ r + h + 0 <= t2 + s
    BY <2>11, <2>12, <2>13
  <2>16. \A x \in Procs : r + h + Left(x)' <= t2 + s
    BY <2>14, <2>15, Zenon
  <2>17. Registered'
    BY <1>0, <2>2, <2>9, <2>10, <2>16, Zenon DEF Registered, r, s, h, t2
  <2>18. Filled'
    BY <1>0, <2>1, <2>2, <2>10, Zenon DEF Filled
  <2> QED BY <2>8, <2>17, <2>18, Zenon DEF OInv
<1> QED BY <1>2, <1>3, <1>4, Zenon DEF CloseClear

\* The last step of close wakes whoever still waits.
LEMMA CloseEnds ==
  ASSUME OInv, EndpointInv', NEW p \in Procs, CloseWaiters(p)
  PROVE  OInv'
<1>0. /\ EndpointInv /\ OneCloser /\ Registered /\ Filled
      /\ call \in [Procs -> Calls] /\ call[p].pc = "close_waiters"
      /\ UNCHANGED <<active, queue, receivers, strays>>
  BY Zenon DEF OInv, EndpointInv, TypeOK, CloseWaiters, At
<1>1. ~active /\ \A x \in Procs \ {p} : call[x].pc \notin Closes
  BY <1>0, Zenon DEF OneCloser, Closes
<1>2. /\ call'[p].pc = "idle"
      /\ \A x \in Procs \ {p} : \/ call'[x] = call[x]
                                \/ call[x].pc = "blocked" /\ call'[x].pc = "woken"
  BY <1>0, Zenon DEF CloseWaiters, Idle, Calls
<1>3. \A x \in Procs : call'[x].pc \notin Closes
  BY <1>1, <1>2, Zenon DEF Closes
<1>4. OneCloser' /\ Over' /\ ~Over
  BY <1>0, <1>1, <1>3, Zenon DEF OneCloser, Over, Closes
<1>5. WaitPcs = {"block", "blocked"} /\ WaitPcs' = {"block", "blocked", "woken", "idle"}
  BY <1>4, Zenon DEF WaitPcs
<1>6. \A x \in Procs : Left(x)' = 0
  BY <1>3, Zenon DEF Left, At, Closes
<1>7. CountIn(call', Handing) = CountIn(call, Handing)
  <2>1. {x \in Procs : call'[x].pc \in Handing} = {x \in Procs : call[x].pc \in Handing}
    BY <1>0, <1>2, Zenon DEF Handing
  <2> QED BY <2>1, Zenon DEF CountIn
<1>8. CountIn(call', Pending) = CountIn(call, Pending)
  <2>1. {x \in Procs : call'[x].pc \in Pending} = {x \in Procs : call[x].pc \in Pending}
    BY <1>0, <1>2, Zenon DEF Pending
  <2> QED BY <2>1, Zenon DEF CountIn
<1>9. CountIn(call, WaitPcs) <= CountIn(call', WaitPcs')
  <2>1. {x \in Procs : call[x].pc \in WaitPcs} \subseteq {x \in Procs : call'[x].pc \in WaitPcs'}
    BY <1>0, <1>2, <1>5, Zenon
  <2>2. IsFiniteSet({x \in Procs : call'[x].pc \in WaitPcs'})
    BY CountType, Zenon
  <2> QED BY <2>1, <2>2, FS_Subset, Zenon DEF CountIn
<1> DEFINE r == Len(receivers)
           s == strays
           h == CountIn(call, Handing)
           t1 == CountIn(call, WaitPcs)
           t2 == CountIn(call', WaitPcs')
           l == Left(p)
<1>10. r \in Nat /\ s \in Nat /\ l \in Nat
  BY <1>0, NumbersType, Zenon DEF Numbers
<1>11. h \in Nat /\ t1 \in Nat /\ t2 \in Nat
  BY CountType, Zenon
<1>12. r + h + l <= t1 + s /\ t1 <= t2
  BY <1>0, <1>9, Zenon DEF Registered
<1> HIDE DEF r, s, h, t1, t2, l
<1>13. r + h + 0 <= t2 + s
  BY <1>10, <1>11, <1>12
<1>14. Registered'
  BY <1>0, <1>6, <1>7, <1>13, Zenon DEF Registered, r, s, h, t2
<1>15. Filled'
  BY <1>0, <1>8, Zenon DEF Filled
<1> QED BY <1>4, <1>14, <1>15, Zenon DEF OInv

\* Every step keeps the invariant.
LEMMA NextOInv == OInv /\ [Next]_vars => OInv'
<1> SUFFICES ASSUME OInv, [Next]_vars PROVE OInv'
  OBVIOUS
<1>1. EndpointInv'
  BY EndpointNext, Zenon DEF OInv
<1>2. ASSUME UNCHANGED vars PROVE OInv'
  <2>1. UNCHANGED <<active, queue, receivers, call, strays>>
    BY <1>2, Zenon DEF vars
  <2>2. OneCloser' /\ Over' = Over
    BY <2>1, Zenon DEF OInv, OneCloser, Over
  <2>3. WaitPcs' = WaitPcs
    BY <2>2, Zenon DEF WaitPcs
  <2>4. \A p \in Procs : Left(p)' = Left(p)
    BY <2>1, Zenon DEF Left, At
  <2>5. Registered'
    BY <2>1, <2>3, <2>4, Zenon DEF OInv, Registered
  <2>6. Filled'
    BY <2>1, Zenon DEF OInv, Filled
  <2> QED BY <1>1, <2>2, <2>5, <2>6, Zenon DEF OInv
<1>3. ASSUME Next PROVE OInv'
  <2>1. PICK p \in Procs :
      \/ \E m \in Msgs : SendSync(p, m) \/ SendAsync(p, m)
      \/ SendPop(p) \/ SendDirect(p) \/ SendChecked(p) \/ AsyncPush(p) \/ AsyncPop(p)
      \/ Wake(p) \/ ReceiveSync(p) \/ RecvCheck(p) \/ Register(p) \/ Block(p)
      \/ RecvAgain(p) \/ TryReceive(p) \/ TryPop(p) \/ StrayWake(p) \/ Close(p)
      \/ CloseDrain(p) \/ CloseWake(p) \/ CloseClear(p) \/ CloseWaiters(p)
    BY <1>3, Zenon DEF Next
  <2> QED BY <1>1, <2>1, CallerSteps, WakeStep, CloseBegins, CloseGoesOn, CloseEnds, Zenon
<1> QED BY <1>2, <1>3, Zenon

\* At the start nothing is queued, registered or under way.
LEMMA InitOInv == Init => OInv
<1> SUFFICES ASSUME Init PROVE OInv
  OBVIOUS
<1>1. EndpointInv
  BY EndpointInit, Zenon
<1>2. /\ active /\ \A p \in Procs : call[p].pc = "idle"
      /\ Len(queue) = 0 /\ Len(receivers) = 0 /\ strays = 0
  BY Zenon DEF Init, Idle
<1>3. OneCloser
  BY <1>2, Zenon DEF OneCloser, Closes
<1>4. CountIn(call, Handing) = 0 /\ CountIn(call, Pending) = 0
  <2>1. {q \in Procs : call[q].pc \in Handing} = {} /\ {q \in Procs : call[q].pc \in Pending} = {}
    BY <1>2, Zenon DEF Handing, Pending
  <2>2. Cardinality({}) = 0
    BY FS_EmptySet, Zenon
  <2> QED BY <2>1, <2>2, Zenon DEF CountIn
<1>5. \A p \in Procs : Left(p) = 0
  BY <1>2, Zenon DEF Left, At
<1>6. CountIn(call, WaitPcs) \in Nat
  BY CountType, Zenon
<1>7. Registered
  <2> DEFINE t == CountIn(call, WaitPcs)
  <2>1. 0 + 0 + 0 <= t + 0
    <3> HIDE DEF t
    <3> QED BY <1>6 DEF t
  <2> QED BY <1>2, <1>4, <1>5, <2>1, Zenon DEF Registered
<1>8. Filled
  <2> DEFINE k == Cardinality(Procs)
  <2>1. k \in Nat /\ Capacity \in Nat \ {0}
    BY EndpointAssumption, FS_CardinalityType, Zenon
  <2> HIDE DEF k
  <2>2. 0 + 0 + 0 <= Capacity + (k - 1) + 0
    BY <2>1
  <2> QED BY <1>2, <1>4, <2>2, Zenon DEF Filled, k
<1> QED BY <1>1, <1>3, <1>7, <1>8, Zenon DEF OInv

\* However senders, receivers and close interleave, the queue of an endpoint
\* exceeds MAX_CHANNEL_QUEUE_SIZE by at most one message for each process but
\* the sender and for each wake from elsewhere, although send_sync hands a
\* message to a waiting receiver without looking at the queue's length.
THEOREM EndpointOverfill == Spec => []OverfillBound
<1>1. OInv => OverfillBound
  <2> SUFFICES ASSUME OInv PROVE OverfillBound
    OBVIOUS
  <2> DEFINE q == Len(queue)
             r == Len(receivers)
             n == CountIn(call, Pending)
             k == Cardinality(Procs)
             s == strays
  <2>1. q + r + n <= Capacity + (k - 1) + s
    BY Zenon DEF OInv, Filled
  <2>2. q \in Nat /\ r \in Nat /\ k \in Nat /\ s \in Nat /\ Capacity \in Nat
    BY NumbersType, Zenon DEF OInv, Numbers
  <2>3. n \in Nat
    BY CountType, Zenon
  <2> HIDE DEF q, r, n, k, s
  <2>4. q <= Capacity + (k - 1) + s
    BY <2>1, <2>2, <2>3
  <2> QED BY <2>4, Zenon DEF OverfillBound, q, k, s
<1> QED BY <1>1, InitOInv, NextOInv, PTL DEF Spec

=============================================================================
