------------------------------ MODULE Endpoint ------------------------------
(***************************************************************************)
(* An IPC endpoint (ipc/channel.rs, struct Endpoint) shared by processes   *)
(* that send, receive and close it, together with the blocking and waking  *)
(* of sched/ipc_blocking.rs as the endpoint uses it.                       *)
(*                                                                         *)
(* The endpoint keeps its message queue, the list of waiting receivers and *)
(* the active flag under separate locks, so an operation is a sequence of  *)
(* steps, one per lock it takes, and those of other processes come between.*)
(* A process whose pc is "blocked" is in the scheduler's wait queue of the *)
(* endpoint; waking it moves it to "woken".  Every message is sent once.   *)
(***************************************************************************)
EXTENDS Integers, Sequences, FiniteSets

CONSTANTS Procs, Msgs,
          NoProc, NoMsg,
          Capacity,      \* MAX_CHANNEL_QUEUE_SIZE
          MaxStrays      \* bound: how often a receiver is woken from elsewhere

ASSUME EndpointAssumption ==
    /\ NoProc \notin Procs
    /\ NoMsg \notin Msgs
    /\ Capacity \in Nat \ {0}
    /\ IsFiniteSet(Procs)
    /\ MaxStrays \in Nat

VARIABLES active,        \* AtomicBool
          queue,         \* receive_queue
          receivers,     \* waiting_receivers: popped at the end
          call,          \* where each process is in its operation
          pushed,        \* history: the messages in the order they were queued
          taken,         \* history: the messages in the order they left the queue
          strays         \* number of wakes from elsewhere so far

vars == <<active, queue, receivers, call, pushed, taken, strays>>

PCs == {"idle", "send_pop", "send_direct", "send_checked", "async_push", "async_pop",
        "wake", "recv_check", "register", "block", "blocked", "woken", "try_pop",
        "close_drain", "close_wake", "close_clear", "close_waiters"}

\* An operation under way: the message sent, the process to wake, and the
\* receivers a close still has to wake.
Calls == [pc : PCs, msg : Msgs \cup {NoMsg}, peer : Procs \cup {NoProc}, list : Seq(Procs)]

Idle == [pc |-> "idle", msg |-> NoMsg, peer |-> NoProc, list |-> <<>>]

At(p, pc) == call[p].pc = pc
Goto(p, pc) == call' = [call EXCEPT ![p].pc = pc]
Return(p) == call' = [call EXCEPT ![p] = Idle]

\* A message that no send has used.
Fresh(m) == m \notin {pushed[i] : i \in DOMAIN pushed} /\ \A p \in Procs : call[p].msg # m

Init ==
    /\ active = TRUE
    /\ queue = <<>>
    /\ receivers = <<>>
    /\ call = [p \in Procs |-> Idle]
    /\ pushed = <<>>
    /\ taken = <<>>
    /\ strays = 0

-----------------------------------------------------------------------------
(* The queue and the list of waiting receivers, each under its lock.       *)

\* Variant: the message overtakes those that wait.
PushFront(m) == queue' = <<m>> \o queue /\ pushed' = Append(pushed, m)

PushBack(m) == queue' = Append(queue, m) /\ pushed' = Append(pushed, m)

PopFront == queue' = Tail(queue) /\ taken' = Append(taken, Head(queue))

\* Variant: no bound.
FullNever == FALSE

Full == Len(queue) >= Capacity

\* receivers.pop(): the receiver that registered last is the one to wake.
PopReceiver(p, pc) ==
    /\ receivers' = SubSeq(receivers, 1, Len(receivers) - 1)
    /\ call' = [call EXCEPT ![p].pc = pc, ![p].peer = receivers[Len(receivers)]]

\* wake_up_process(q) for a process that is not in a wait queue: the one that
\* runs is only marked Ready, which its block_on_ipc undoes.  One that does not
\* run is put into a ready queue once more, which may end a later wait early:
\* that is a StrayWake.
Woken(q) == IF call[q].pc = "blocked" THEN [call EXCEPT ![q].pc = "woken"] ELSE call

-----------------------------------------------------------------------------
(* send_sync: hand over to a waiting receiver, else queue if there is room.*)

SendSync(p, m) ==
    /\ At(p, "idle")
    /\ active
    /\ Fresh(m)
    /\ call' = [call EXCEPT ![p].pc = "send_pop", ![p].msg = m]
    /\ UNCHANGED <<active, queue, receivers, pushed, taken, strays>>

SendPop(p) ==
    /\ At(p, "send_pop")
    /\ IF receivers # <<>> THEN PopReceiver(p, "send_direct")
       ELSE Goto(p, "send_checked") /\ UNCHANGED receivers
    /\ UNCHANGED <<active, queue, pushed, taken, strays>>

\* The hand-over does not look at the capacity.
SendDirect(p) ==
    /\ At(p, "send_direct")
    /\ PushBack(call[p].msg)
    /\ Goto(p, "wake")
    /\ UNCHANGED <<active, receivers, taken, strays>>

SendChecked(p) ==
    /\ At(p, "send_checked")
    /\ IF Full THEN UNCHANGED <<queue, pushed>> ELSE PushBack(call[p].msg)
    /\ Return(p)
    /\ UNCHANGED <<active, receivers, taken, strays>>

\* send_async: queue first, then look for a receiver to wake.
SendAsync(p, m) ==
    /\ At(p, "idle")
    /\ active
    /\ Fresh(m)
    /\ call' = [call EXCEPT ![p].pc = "async_push", ![p].msg = m]
    /\ UNCHANGED <<active, queue, receivers, pushed, taken, strays>>

AsyncPush(p) ==
    /\ At(p, "async_push")
    /\ IF Full THEN Return(p) /\ UNCHANGED <<queue, pushed>>
       ELSE PushBack(call[p].msg) /\ Goto(p, "async_pop")
    /\ UNCHANGED <<active, receivers, taken, strays>>

AsyncPop(p) ==
    /\ At(p, "async_pop")
    /\ IF receivers # <<>> THEN PopReceiver(p, "wake")
       ELSE Return(p) /\ UNCHANGED receivers
    /\ UNCHANGED <<active, queue, pushed, taken, strays>>

Wake(p) ==
    /\ At(p, "wake")
    /\ call' = [Woken(call[p].peer) EXCEPT ![p] = Idle]
    /\ UNCHANGED <<active, queue, receivers, pushed, taken, strays>>

-----------------------------------------------------------------------------
(* receive_sync: take a message, or register, block and look once more.    *)

ReceiveSync(p) ==
    /\ At(p, "idle")
    /\ active
    /\ Goto(p, "recv_check")
    /\ UNCHANGED <<active, queue, receivers, pushed, taken, strays>>

RecvCheck(p) ==
    /\ At(p, "recv_check")
    /\ IF queue # <<>> THEN PopFront /\ Return(p)
       ELSE Goto(p, "register") /\ UNCHANGED <<queue, taken>>
    /\ UNCHANGED <<active, receivers, pushed, strays>>

Register(p) ==
    /\ At(p, "register")
    /\ receivers' = Append(receivers, p)
    /\ Goto(p, "block")
    /\ UNCHANGED <<active, queue, pushed, taken, strays>>

\* block_on_ipc: under the scheduler's lock the task becomes Blocked, joins
\* the wait queue and the processor is given up.
Block(p) ==
    /\ At(p, "block")
    /\ Goto(p, "blocked")
    /\ UNCHANGED <<active, queue, receivers, pushed, taken, strays>>

\* Woken: take a message if there is one, else WouldBlock.  The registration
\* is not withdrawn.
RecvAgain(p) ==
    /\ At(p, "woken")
    /\ IF queue # <<>> THEN PopFront ELSE UNCHANGED <<queue, taken>>
    /\ Return(p)
    /\ UNCHANGED <<active, receivers, pushed, strays>>

TryReceive(p) ==
    /\ At(p, "idle")
    /\ active
    /\ Goto(p, "try_pop")
    /\ UNCHANGED <<active, queue, receivers, pushed, taken, strays>>

TryPop(p) ==
    /\ At(p, "try_pop")
    /\ IF queue # <<>> THEN PopFront ELSE UNCHANGED <<queue, taken>>
    /\ Return(p)
    /\ UNCHANGED <<active, receivers, pushed, strays>>

\* A blocked process runs again for another reason: wake_up_process by pid
\* from a child that exits, a fast-path send or a call to this process, or a
\* second entry in a ready queue.
StrayWake(p) ==
    /\ At(p, "blocked")
    /\ strays < MaxStrays
    /\ strays' = strays + 1
    /\ Goto(p, "woken")
    /\ UNCHANGED <<active, queue, receivers, pushed, taken>>

-----------------------------------------------------------------------------
(* close(&self), at most once: Channel::close consumes the channel.  No    *)
(* send ever waits, so there are no waiting senders to wake.               *)

Close(p) ==
    /\ At(p, "idle")
    /\ active
    /\ active' = FALSE
    /\ Goto(p, "close_drain")
    /\ UNCHANGED <<queue, receivers, pushed, taken, strays>>

CloseDrain(p) ==
    /\ At(p, "close_drain")
    /\ receivers' = <<>>
    /\ call' = [call EXCEPT ![p].pc = "close_wake", ![p].list = receivers]
    /\ UNCHANGED <<active, queue, pushed, taken, strays>>

CloseWake(p) ==
    /\ At(p, "close_wake")
    /\ IF call[p].list = <<>> THEN Goto(p, "close_clear")
       ELSE call' = [Woken(Head(call[p].list)) EXCEPT ![p].list = Tail(@)]
    /\ UNCHANGED <<active, queue, receivers, pushed, taken, strays>>

CloseClear(p) ==
    /\ At(p, "close_clear")
    /\ queue' = <<>>
    /\ taken' = taken \o queue
    /\ Goto(p, "close_waiters")
    /\ UNCHANGED <<active, receivers, pushed, strays>>

\* wake_up_endpoint_waiters: everyone in the wait queue of the endpoint.
CloseWaiters(p) ==
    /\ At(p, "close_waiters")
    /\ call' = [q \in Procs |-> IF q = p THEN Idle
                                ELSE IF call[q].pc = "blocked"
                                     THEN [call[q] EXCEPT !.pc = "woken"] ELSE call[q]]
    /\ UNCHANGED <<active, queue, receivers, pushed, taken, strays>>

-----------------------------------------------------------------------------
Next ==
    \E p \in Procs :
        \/ \E m \in Msgs : SendSync(p, m) \/ SendAsync(p, m)
        \/ SendPop(p)
        \/ SendDirect(p)
        \/ SendChecked(p)
        \/ AsyncPush(p)
        \/ AsyncPop(p)
        \/ Wake(p)
        \/ ReceiveSync(p)
        \/ RecvCheck(p)
        \/ Register(p)
        \/ Block(p)
        \/ RecvAgain(p)
        \/ TryReceive(p)
        \/ TryPop(p)
        \/ StrayWake(p)
        \/ Close(p)
        \/ CloseDrain(p)
        \/ CloseWake(p)
        \/ CloseClear(p)
        \/ CloseWaiters(p)

Spec == Init /\ [][Next]_vars

-----------------------------------------------------------------------------
(* Properties.                                                             *)

\* The type invariant of the endpoint's state.
TypeOK ==
    /\ active \in BOOLEAN
    /\ queue \in Seq(Msgs)
    /\ receivers \in Seq(Procs)
    /\ call \in [Procs -> Calls]
    /\ pushed \in Seq(Msgs)
    /\ taken \in Seq(Msgs)
    /\ strays \in 0 .. MaxStrays

\* Messages leave the queue in the order they entered it, whoever sends and
\* receives and whether they are taken or cleared by close: none is lost,
\* repeated or overtaken between push_back and pop_front.
Fifo == pushed = taken \o queue

\* A hand-over ignores the capacity, but it uses up a registration, and a
\* process registers only when it has seen the queue empty: the queue exceeds
\* its capacity by no more than one message for each process but the sender
\* and for each registration a wake from elsewhere left behind.
OverfillBound == Len(queue) <= Capacity + (Cardinality(Procs) - 1) + strays

\* channel.rs, receive_sync: "When a sender calls send_sync/send_async, it
\* will wake us via ipc_blocking::wake_up_process()."  A receiver blocked on
\* an active endpoint is registered, or a sender that took its registration
\* has still to wake it.
WakeReaches ==
    \A p \in Procs : active /\ At(p, "blocked") =>
        \/ \E i \in DOMAIN receivers : receivers[i] = p
        \/ \E q \in Procs : call[q].pc \in {"send_direct", "wake"} /\ call[q].peer = p

=============================================================================
