----------------------------- MODULE RcuProofs -----------------------------
(***************************************************************************)
(* Proofs about Rcu: a version is not reclaimed while a section that has   *)
(* obtained it is open (GracePeriod), it is reclaimed once (OneDisposer),  *)
(* and no callback is missed by the callers that take callbacks out of the *)
(* queue under one another (NoneMissed), for any number of CPUs, writers   *)
(* and versions.                                                           *)
(***************************************************************************)
EXTENDS Rcu, WellFoundedInduction, TLAPS

(* CPU c has reported, or is about to report, grace period t. *)
Reports(c, t) == cpuGp[c] >= t \/ report[c] >= t

(* A CPU that has reported grace period t no longer holds v. *)
Passed(v, t) == \A c \in CPUs : Reports(c, t) => v \notin holds[c]

(* What the CPUs guarantee to one another. *)
CpuInv ==
    \A c \in CPUs :
        /\ nesting[c] = 0 => holds[c] = {}
        /\ report[c] # NoReport =>
              nesting[c] = 0 /\ report[c] >= cpuGp[c] /\ report[c] <= gp
        /\ cpuGp[c] <= gp
        /\ c \notin Online => nesting[c] = 0

(* No way leads back from a version that was taken out to the readers. *)
GoneInv ==
    /\ current \notin fresh
    /\ freed \cap fresh = {}
    /\ \A w \in Writers : \A v \in task[w].old \union task[w].func : v # current /\ v \notin fresh
    /\ \A k \in 1..Len(callbacks) : callbacks[k].func # current /\ callbacks[k].func \notin fresh

Waiting == {"nesting", "cpu_gp", "process", "func", "reclaim", "push"}
Scanning == {"nesting", "cpu_gp"}
Complete == {"process", "func", "reclaim"}

(* What a writer in state t knows of the CPUs. *)
TaskOK(t) ==
    /\ t.pc \in Waiting => \A v \in t.old : Passed(v, t.target)
    /\ t.pc \in Scanning => \A c \in Online : c < t.cpu => cpuGp[c] >= t.target
    /\ t.pc \in Complete => \A c \in Online : cpuGp[c] >= t.target
    /\ \A v \in t.func : \A c \in CPUs : v \notin holds[c]

(* What the writers and the queued callbacks know of the CPUs. *)
WaitInv ==
    /\ \A w \in Writers : TaskOK(task[w])
    /\ \A k \in 1..Len(callbacks) : Passed(callbacks[k].func, callbacks[k].target)

IInv == TypeOK /\ CpuInv /\ GoneInv /\ WaitInv /\ GracePeriod

Callback == [target : Nat, func : Versions]

(* What is in the queue is a callback. *)
LEMMA QueueType ==
    ASSUME TypeOK
    PROVE  \A k \in 1..Len(callbacks) :
              /\ callbacks[k] \in Callback
              /\ callbacks[k].target \in Nat
              /\ callbacks[k].func \in Versions
<1>1. callbacks \in Seq(Callback)
  BY Zenon DEF TypeOK, Callback
<1>2. \A k \in 1..Len(callbacks) : callbacks[k] \in Callback
  BY <1>1
<1>3. QED
  BY <1>2, Zenon DEF Callback

(* swap_remove leaves a sequence that is one shorter. *)
LEMMA SwapRemoveType ==
    ASSUME NEW S, NEW s \in Seq(S), NEW k \in 1..Len(s)
    PROVE  /\ SwapRemove(s, k) \in Seq(S)
           /\ Len(SwapRemove(s, k)) = Len(s) - 1
           /\ \A j \in 1..(Len(s) - 1) : SwapRemove(s, k)[j] = IF j = k THEN s[Len(s)] ELSE s[j]
<1> DEFINE n == Len(s) - 1
           r == SwapRemove(s, k)
<1>1. n \in Nat /\ Len(s) \in 1..Len(s) /\ \A j \in 1..n : j \in 1..Len(s)
  OBVIOUS
<1>2. \A j \in 1..Len(s) : s[j] \in S
  OBVIOUS
<1>3. r \in [1..n -> S]
  BY <1>1, <1>2, Zenon DEF SwapRemove
<1>4. QED
  BY <1>1, <1>3 DEF SwapRemove

(* The boot state satisfies the invariant. *)
LEMMA InitIInv == Init => IInv
<1> SUFFICES ASSUME Init PROVE IInv
  OBVIOUS
<1> USE RcuAssumption
<1>1. TypeOK
  BY DEF Init, TypeOK, CPUs, NoReport, IdleTask, Task, PCs
<1>2. CpuInv
  BY DEF Init, CpuInv, NoReport
<1>3. GoneInv
  BY DEF Init, GoneInv, IdleTask, Task
<1>4. WaitInv
  BY DEF Init, WaitInv, TaskOK, IdleTask, Task, Waiting, Scanning, Complete
<1>5. GracePeriod
  BY Zenon DEF Init, GracePeriod
<1>6. QED
  BY <1>1, <1>2, <1>3, <1>4, <1>5, Zenon DEF IInv

(* What a CPU does keeps the invariant. *)
LEMMA CpuStepIInv ==
    ASSUME IInv, NEW c \in Online, CpuStep(c)
    PROVE  IInv'
<1> USE RcuAssumption, SMTT(30)
<1>0. c \in CPUs
  BY Zenon DEF CPUs
<1>t. TypeOK'
  <2>1. CASE ReadLock(c)
    BY <1>0, <2>1 DEF IInv, TypeOK, ReadLock
  <2>2. CASE Dereference(c)
    BY <1>0, <2>2, Zenon DEF IInv, TypeOK, Dereference
  <2>3. CASE ReadUnlock(c)
    BY <1>0, <2>3 DEF IInv, TypeOK, ReadUnlock
  <2>4. CASE QuiescentLoad(c)
    BY <1>0, <2>4, Zenon DEF IInv, TypeOK, QuiescentLoad
  <2>5. CASE QuiescentStore(c)
    BY <1>0, <2>5, Zenon DEF IInv, TypeOK, QuiescentStore, NoReport
  <2>6. QED
    BY <2>1, <2>2, <2>3, <2>4, <2>5, Zenon DEF CpuStep
<1>c. CpuInv'
  <2>1. CASE ReadLock(c)
    BY <1>0, <2>1 DEF IInv, TypeOK, CpuInv, ReadLock, NoReport
  <2>2. CASE Dereference(c)
    BY <1>0, <2>2 DEF IInv, TypeOK, CpuInv, Dereference, NoReport
  <2>3. CASE ReadUnlock(c)
    BY <1>0, <2>3 DEF IInv, TypeOK, CpuInv, ReadUnlock, NoReport
  <2>4. CASE QuiescentLoad(c)
    BY <1>0, <2>4 DEF IInv, TypeOK, CpuInv, QuiescentLoad, NoReport
  <2>5. CASE QuiescentStore(c)
    BY <1>0, <2>5, Zenon DEF IInv, TypeOK, CpuInv, QuiescentStore, NoReport
  <2>6. QED
    BY <2>1, <2>2, <2>3, <2>4, <2>5, Zenon DEF CpuStep
<1>g. GoneInv'
  BY Zenon DEF IInv, GoneInv, CpuStep, ReadLock, Dereference, ReadUnlock, QuiescentLoad, QuiescentStore
<1>m. /\ \A d \in CPUs : cpuGp'[d] >= cpuGp[d]
      /\ \A d \in CPUs : \A v : v # current /\ v \notin holds[d] => v \notin holds'[d]
      /\ \A d \in CPUs, t \in Nat : \A v : Reports(d, t)' => Reports(d, t) \/ v \notin holds'[d]
  <2>1. CASE ReadLock(c)
    BY <1>0, <2>1 DEF IInv, TypeOK, ReadLock, Reports
  <2>2. CASE Dereference(c)
    BY <1>0, <2>2 DEF IInv, TypeOK, Dereference, Reports
  <2>3. CASE ReadUnlock(c)
    BY <1>0, <2>3 DEF IInv, TypeOK, ReadUnlock, Reports
  <2>4. CASE QuiescentLoad(c)
    BY <1>0, <2>4 DEF IInv, TypeOK, CpuInv, QuiescentLoad, Reports, NoReport
  <2>5. CASE QuiescentStore(c)
    BY <1>0, <2>5 DEF IInv, TypeOK, CpuInv, QuiescentStore, Reports, NoReport
  <2>6. QED
    BY <2>1, <2>2, <2>3, <2>4, <2>5, Zenon DEF CpuStep
<1>u. task' = task /\ callbacks' = callbacks /\ current' = current /\ freed' = freed
  BY Zenon DEF CpuStep, ReadLock, Dereference, ReadUnlock, QuiescentLoad, QuiescentStore
<1>p. ASSUME NEW v, NEW t \in Nat, v # current, Passed(v, t)
      PROVE  Passed(v, t)'
  <2>1. ASSUME NEW d \in CPUs, Reports(d, t)' PROVE v \notin holds'[d]
    <3>1. Reports(d, t) \/ v \notin holds'[d]
      BY <2>1, <1>m, Zenon
    <3>2. QED
      BY <3>1, <1>p, <1>m, Zenon DEF Passed
  <2>2. QED
    BY <2>1, Zenon DEF Passed
<1>w. WaitInv'
  <2>1. \A w \in Writers : task[w].target \in Nat /\ task[w].cpu \in CPUs
    BY Zenon DEF IInv, TypeOK
  <2>2. \A k \in 1..Len(callbacks) : callbacks[k].target \in Nat
    BY QueueType, Zenon DEF IInv
  <2>3. ASSUME NEW w \in Writers
        PROVE  /\ task[w].pc \in Waiting => \A v \in task[w].old : Passed(v, task[w].target)'
               /\ task[w].pc \in Scanning =>
                     \A d \in Online : d < task[w].cpu => cpuGp'[d] >= task[w].target
               /\ task[w].pc \in Complete => \A d \in Online : cpuGp'[d] >= task[w].target
               /\ \A v \in task[w].func : \A d \in CPUs : v \notin holds'[d]
    <3>1. task[w].pc \in Waiting => \A v \in task[w].old : Passed(v, task[w].target)'
      BY <1>p, <1>u, <2>1, Zenon DEF IInv, GoneInv, WaitInv, TaskOK
    <3>2. ASSUME NEW d \in Online, cpuGp[d] >= task[w].target
          PROVE  cpuGp'[d] >= task[w].target
      <4>1. d \in CPUs /\ cpuGp[d] \in Nat /\ cpuGp'[d] \in Nat
        BY <1>t, Zenon DEF IInv, TypeOK, CPUs
      <4>2. QED
        BY <4>1, <3>2, <1>m, <2>1
    <3>3. \A v \in task[w].func : \A d \in CPUs : v \notin holds'[d]
      BY <1>m, Zenon DEF IInv, GoneInv, WaitInv, TaskOK
    <3>4. QED
      BY <3>1, <3>2, <3>3, Zenon DEF IInv, WaitInv, TaskOK
  <2>4. \A k \in 1..Len(callbacks) : Passed(callbacks[k].func, callbacks[k].target)'
    BY <1>p, <1>u, <2>2, Zenon DEF IInv, GoneInv, WaitInv
  <2>5. QED
    BY <1>u, <2>3, <2>4, Zenon DEF WaitInv, TaskOK, Passed, Reports
<1>f. GracePeriod'
  BY <1>u, <1>m, Zenon DEF IInv, GracePeriod
<1>z. QED
  BY <1>t, <1>c, <1>g, <1>w, <1>f, Zenon DEF IInv

TaskType == [pc : PCs, old : SUBSET Versions, target : Nat, cpu : CPUs,
             depth : Nat, i : Nat \ {0}, func : SUBSET Versions]

(* A version the readers can no longer reach. *)
Gone(v) == v # current' /\ v \notin fresh'

(* A step of a writer touches no CPU; this is what it has to show. *)
LEMMA WriterUpdate ==
    ASSUME IInv, NEW w \in Writers,
           UNCHANGED <<nesting, cpuGp, report, holds>>,
           gp' \in Nat, gp' >= gp,
           task' \in [Writers -> TaskType],
           \A x \in Writers : x # w => task'[x] = task[x],
           TaskOK(task'[w]),
           \A x \in Writers : \A v \in task'[x].old \union task'[x].func : Gone(v),
           callbacks' \in Seq(Callback),
           \A k \in 1..Len(callbacks') :
              Gone(callbacks'[k].func) /\ Passed(callbacks'[k].func, callbacks'[k].target),
           current' \in Versions, current' \notin fresh', current' \notin freed',
           fresh' \subseteq Versions, freed' \subseteq Versions, freed' \cap fresh' = {},
           \A c \in CPUs : holds[c] \cap freed' = {},
           owed' \in [Writers -> SUBSET Versions]
    PROVE  IInv'
<1>1. TypeOK'
  BY ZenonT(30), Zenon DEF IInv, TypeOK, Callback, TaskType
<1>2. CpuInv'
  BY SMTT(30) DEF IInv, TypeOK, CpuInv, NoReport
<1>3. GoneInv'
  BY Zenon DEF GoneInv, Gone
<1>4. WaitInv'
  <2>1. \A x \in Writers : TaskOK(task'[x])
    BY Zenon DEF IInv, WaitInv
  <2>2. QED
    BY <2>1, Zenon DEF WaitInv, TaskOK, Passed, Reports
<1>5. GracePeriod'
  BY Zenon DEF GracePeriod
<1>6. QED
  BY <1>1, <1>2, <1>3, <1>4, <1>5, Zenon DEF IInv

(* What a writer does keeps the invariant. *)
LEMMA WriterStepIInv ==
    ASSUME IInv, NEW w \in Writers, WriterStep(w)
    PROVE  IInv'
<1> USE RcuAssumption, SMTT(30)
<1>a. /\ task \in [Writers -> TaskType]
      /\ task[w] \in TaskType
      /\ gp \in Nat /\ current \in Versions /\ fresh \subseteq Versions /\ freed \subseteq Versions
      /\ cpuGp \in [CPUs -> Nat] /\ report \in [CPUs -> Nat \union {NoReport}]
      /\ nesting \in [CPUs -> Nat]
      /\ callbacks \in Seq(Callback)
      /\ 0 \in CPUs
  BY ZenonT(30), Zenon DEF IInv, TypeOK, TaskType, Callback, CPUs
<1>b. /\ current \notin fresh /\ current \notin freed /\ freed \cap fresh = {}
      /\ \A c \in CPUs : holds[c] \cap freed = {}
      /\ \A x \in Writers : \A v \in task[x].old \union task[x].func : v # current /\ v \notin fresh
      /\ \A k \in 1..Len(callbacks) :
            /\ callbacks[k].func # current
            /\ callbacks[k].func \notin fresh
            /\ Passed(callbacks[k].func, callbacks[k].target)
      /\ \A x \in Writers : TaskOK(task[x])
  BY Zenon DEF IInv, GoneInv, WaitInv, GracePeriod
<1>c. \A v : Passed(v, gp + 1)
  BY <1>a DEF IInv, CpuInv, Passed, Reports, NoReport
<1>o. owed' \in [Writers -> SUBSET Versions]
  <2>1. owed \in [Writers -> SUBSET Versions] /\ Queued(gp + 1) \in SUBSET Versions
    BY QueueType, Zenon DEF IInv, TypeOK, Queued
  <2>2. owed' = owed \/ owed' = [owed EXCEPT ![w] = Queued(gp + 1)]
    BY Zenon DEF WriterStep, Proceed, Publish, Synchronize, CallRcu, LoadNesting, LoadCpuGp,
       TakeCallback, RunCallback, SynchronizeReturn, Reclaim, CallRcuPush
  <2>3. QED
    BY <2>1, <2>2, Zenon
<1>1. CASE Publish(w)
  <2>1. PICK v \in fresh : current' = v /\ fresh' = fresh \ {v}
    BY <1>1, Zenon DEF Publish
  <2>2. /\ task' \in [Writers -> TaskType]
        /\ task'[w] = Task("published", {current}, 0, 0, 0, 1, {})
        /\ \A x \in Writers : x # w => task'[x] = task[x]
    BY <1>1, <1>a DEF Publish, Steps, Task, TaskType, PCs
  <2>3. UNCHANGED <<nesting, gp, cpuGp, callbacks, report, holds, freed>>
    BY <1>1, Zenon DEF Publish
  <2>4. TaskOK(task'[w])
    BY <2>2 DEF TaskOK, Task, Waiting, Scanning, Complete
  <2>5. \A x \in Writers : \A u \in task'[x].old \union task'[x].func : Gone(u)
    BY <1>b, <2>1, <2>2 DEF Gone, Task
  <2>6. \A k \in 1..Len(callbacks') :
           Gone(callbacks'[k].func) /\ Passed(callbacks'[k].func, callbacks'[k].target)
    BY <1>b, <2>1, <2>3, Zenon DEF Gone
  <2>r. /\ UNCHANGED <<nesting, cpuGp, report, holds>> /\ gp' \in Nat /\ gp' >= gp
        /\ callbacks' \in Seq(Callback)
        /\ current' \in Versions /\ current' \notin fresh' /\ current' \notin freed'
        /\ fresh' \subseteq Versions /\ freed' \subseteq Versions /\ freed' \cap fresh' = {}
        /\ \A c \in CPUs : holds[c] \cap freed' = {}
    BY <1>a, <1>b, <2>1, <2>3
  <2>7. QED
    BY <2>r, <2>2, <2>4, <2>5, <2>6, <1>o, WriterUpdate, Zenon
<1>2. ASSUME \/ Synchronize(w) \/ CallRcu(w) \/ LoadNesting(w) \/ LoadCpuGp(w) \/ SynchronizeReturn(w),
             task' \in [Writers -> TaskType],
             \A x \in Writers : x # w => task'[x] = task[x],
             task'[w].old = task[w].old, task'[w].func = {},
             TaskOK(task'[w])
      PROVE  IInv'
  <2>1. /\ UNCHANGED <<nesting, cpuGp, callbacks, report, current, holds, fresh, freed>>
        /\ gp' \in Nat /\ gp' >= gp
    BY <1>2, <1>a DEF Synchronize, CallRcu, LoadNesting, LoadCpuGp, SynchronizeReturn
  <2>2. \A x \in Writers : \A u \in task'[x].old \union task'[x].func : Gone(u)
    BY <1>b, <1>2, <2>1, Zenon DEF Gone
  <2>3. \A k \in 1..Len(callbacks') :
           Gone(callbacks'[k].func) /\ Passed(callbacks'[k].func, callbacks'[k].target)
    BY <1>b, <2>1, Zenon DEF Gone
  <2>4. QED
    BY <1>a, <1>b, <1>2, <2>1, <2>2, <2>3, <1>o, WriterUpdate, ZenonT(30), Zenon
<1>3. CASE Synchronize(w)
  <2>1. /\ task' \in [Writers -> TaskType]
        /\ task'[w] = Task("nesting", task[w].old, gp + 1, 0, 0, 1, {})
        /\ \A x \in Writers : x # w => task'[x] = task[x]
    BY <1>3, <1>a DEF Synchronize, Steps, Task, TaskType, PCs
  <2>2. \A c \in Online : ~(c < 0)
    BY DEF CPUs
  <2>3. TaskOK(task'[w])
    BY <2>1, <2>2, <1>c DEF TaskOK, Task, Waiting, Scanning, Complete
  <2>4. QED
    BY <1>2, <1>3, <2>1, <2>3 DEF Task
<1>4. CASE CallRcu(w)
  <2>1. /\ task' \in [Writers -> TaskType]
        /\ task'[w] = Task("push", task[w].old, gp + 1, 0, 0, 1, {})
        /\ \A x \in Writers : x # w => task'[x] = task[x]
    BY <1>4, <1>a DEF CallRcu, Steps, Task, TaskType, PCs
  <2>2. TaskOK(task'[w])
    BY <2>1, <1>c DEF TaskOK, Task, Waiting, Scanning, Complete
  <2>3. QED
    BY <1>2, <1>4, <2>1, <2>2 DEF Task
<1>5. CASE LoadNesting(w)
  <2>1. /\ task' \in [Writers -> TaskType]
        /\ task'[w] = Task("cpu_gp", task[w].old, task[w].target, task[w].cpu, nesting[task[w].cpu], 1, {})
        /\ \A x \in Writers : x # w => task'[x] = task[x]
    BY <1>5, <1>a DEF LoadNesting, Steps, Task, TaskType, PCs
  <2>2. TaskOK(task'[w])
    BY <2>1, <1>5, <1>b DEF LoadNesting, TaskOK, Task, Waiting, Scanning, Complete
  <2>3. QED
    BY <1>2, <1>5, <2>1, <2>2 DEF Task
<1>6. CASE LoadCpuGp(w)
  <2> DEFINE t == task[w]
  <2>0. t.cpu \in CPUs /\ t.cpu \in Int /\ t.target \in Nat /\ t.depth \in Nat /\ TaskOK(t) /\ t.pc = "cpu_gp"
    BY <1>a, <1>b, <1>6 DEF TaskType, CPUs, LoadCpuGp
  <2>1. /\ task' = [x \in Writers |-> IF x = w THEN AfterCpu(t) ELSE task[x]]
        /\ AfterCpu(t) \in TaskType
        /\ AfterCpu(t).old = t.old /\ AfterCpu(t).func = {}
    <3>1. t.cpu < RCU_MAX_CPUS - 1 => t.cpu + 1 \in CPUs
      BY <2>0 DEF CPUs
    <3>2. t.old \in SUBSET Versions
      BY <1>a, Zenon DEF TaskType
    <3>3. AfterCpu(t) \in TaskType
      BY <1>a, <2>0, <3>1, <3>2 DEF AfterCpu, Task, TaskType, PCs
    <3>4. QED
      BY <1>6, <3>3, ZenonT(30), Zenon DEF LoadCpuGp, Steps, AfterCpu, Task
  <2>2. TaskOK(AfterCpu(t))
    <3>1. \A v \in t.old : Passed(v, t.target)
      BY <2>0, Zenon DEF TaskOK, Waiting
    <3>2. \A c \in Online : c < t.cpu => cpuGp[c] >= t.target
      BY <2>0, Zenon DEF TaskOK, Scanning
    <3>3. CASE NotQuiescent(t)
      <4>1. \A c \in Online : ~(c < 0)
        BY DEF CPUs
      <4>2. QED
        BY <3>1, <3>3, <4>1, ZenonT(30), Zenon DEF AfterCpu, TaskOK, Task, Waiting, Scanning, Complete
    <3>4. CASE ~NotQuiescent(t)
      <4>1. t.cpu \in Online => cpuGp[t.cpu] >= t.target
        BY <3>4, <2>0, <1>a DEF NotQuiescent
      <4>2. \A c \in Online : c < t.cpu + 1 => cpuGp[c] >= t.target
        BY <4>1, <3>2, <2>0 DEF CPUs
      <4>3. t.cpu >= RCU_MAX_CPUS - 1 => \A c \in Online : c < t.cpu + 1
        BY <2>0 DEF CPUs
      <4>4. CASE t.cpu < RCU_MAX_CPUS - 1
        BY <3>1, <3>4, <4>2, <4>4, ZenonT(30), Zenon DEF AfterCpu, TaskOK, Task, Waiting, Scanning, Complete
      <4>5. CASE ~(t.cpu < RCU_MAX_CPUS - 1)
        <5>1. \A c \in Online : cpuGp[c] >= t.target
          BY <4>2, <4>3, <4>5, <2>0
        <5>2. QED
          BY <3>1, <3>4, <5>1, <4>5, ZenonT(30), Zenon DEF AfterCpu, TaskOK, Task, Waiting, Scanning, Complete
      <4>6. QED
        BY <4>4, <4>5, Zenon
    <3>5. QED
      BY <3>3, <3>4, Zenon
  <2>3. task' \in [Writers -> TaskType] /\ task'[w] = AfterCpu(t)
        /\ \A x \in Writers : x # w => task'[x] = task[x]
    BY <2>1, <1>a, Zenon
  <2>4. QED
    BY <1>2, <1>6, <2>1, <2>2, <2>3, Zenon
<1>7. CASE SynchronizeReturn(w)
  <2>1. /\ task' \in [Writers -> TaskType]
        /\ task'[w] = Task("reclaim", task[w].old, task[w].target, 0, 0, 1, {})
        /\ \A x \in Writers : x # w => task'[x] = task[x]
    BY <1>7, <1>a DEF SynchronizeReturn, Steps, Task, TaskType, PCs
  <2>2. TaskOK(task'[w])
    BY <2>1, <1>7, <1>b DEF SynchronizeReturn, TaskOK, Task, Waiting, Scanning, Complete
  <2>3. QED
    BY <1>2, <1>7, <2>1, <2>2 DEF Task
<1>8. CASE TakeCallback(w)
  <2> DEFINE t == task[w]
  <2>1. PICK k \in FirstReady(t.i, t.target) :
           /\ callbacks' = SwapRemove(callbacks, k)
           /\ Steps(w, Task("func", t.old, t.target, 0, 0, k, {callbacks[k].func}))
    BY <1>8, ZenonT(30), Zenon DEF TakeCallback
  <2>2. t.i \in Nat \ {0} /\ t.target \in Nat /\ t.pc = "process" /\ TaskOK(t) /\ Len(callbacks) \in Nat
    BY <1>a, <1>b, <1>8 DEF TaskType, TakeCallback
  <2>3. k \in 1..Len(callbacks) /\ k \in Nat \ {0} /\ callbacks[k].target <= t.target
    BY <2>1, <2>2 DEF FirstReady
  <2>4. callbacks[k].func \in Versions /\ callbacks[k].target \in Nat
    BY <2>3, QueueType, Zenon DEF IInv
  <2>5. /\ task' \in [Writers -> TaskType]
        /\ task'[w] = Task("func", t.old, t.target, 0, 0, k, {callbacks[k].func})
        /\ \A x \in Writers : x # w => task'[x] = task[x]
    BY <2>1, <2>3, <2>4, <1>a, Zenon DEF Steps, Task, TaskType, PCs
  <2>6. UNCHANGED <<nesting, gp, cpuGp, report, current, holds, fresh, freed>>
    BY <1>8, ZenonT(30), Zenon DEF TakeCallback
  <2>7. \A c \in CPUs : callbacks[k].func \notin holds[c]
    <3>1. \A c \in Online : c \in CPUs /\ cpuGp[c] >= t.target
      BY <2>2, Zenon DEF TaskOK, Complete, CPUs
    <3>2. \A c \in Online : Reports(c, callbacks[k].target)
      BY <3>1, <2>2, <2>3, <2>4, <1>a DEF Reports
    <3>3. \A c \in CPUs : c \notin Online => holds[c] = {}
      BY Zenon DEF IInv, CpuInv
    <3>4. QED
      BY <3>1, <3>2, <3>3, <2>3, <1>b, ZenonT(30), Zenon DEF Passed
  <2>8. TaskOK(task'[w])
    BY <2>2, <2>5, <2>7 DEF TaskOK, Task, Waiting, Scanning, Complete
  <2>9. \A x \in Writers : \A u \in task'[x].old \union task'[x].func : Gone(u)
    BY <1>b, <2>3, <2>5, <2>6 DEF Gone, Task
  <2>10. /\ callbacks' \in Seq(Callback)
         /\ Len(callbacks') = Len(callbacks) - 1
         /\ \A j \in 1..(Len(callbacks) - 1) :
               callbacks'[j] = IF j = k THEN callbacks[Len(callbacks)] ELSE callbacks[j]
    BY <2>1, <2>3, <1>a, SwapRemoveType, ZenonT(30), Zenon
  <2>11. \A j \in 1..Len(callbacks') : \E l \in 1..Len(callbacks) : callbacks'[j] = callbacks[l]
    BY <2>2, <2>10
  <2>12. \A j \in 1..Len(callbacks') :
            Gone(callbacks'[j].func) /\ Passed(callbacks'[j].func, callbacks'[j].target)
    BY <1>b, <2>6, <2>11, Zenon DEF Gone
  <2>r. /\ UNCHANGED <<nesting, cpuGp, report, holds>> /\ gp' \in Nat /\ gp' >= gp
        /\ callbacks' \in Seq(Callback)
        /\ current' \in Versions /\ current' \notin fresh' /\ current' \notin freed'
        /\ fresh' \subseteq Versions /\ freed' \subseteq Versions /\ freed' \cap fresh' = {}
        /\ \A c \in CPUs : holds[c] \cap freed' = {}
    BY <1>a, <1>b, <2>6, <2>10
  <2>13. QED
    BY <2>r, <2>5, <2>8, <2>9, <2>12, <1>o, WriterUpdate, Zenon
<1>9. CASE RunCallback(w)
  <2>1. /\ task' \in [Writers -> TaskType]
        /\ task'[w] = Task("process", task[w].old, task[w].target, 0, 0, task[w].i, {})
        /\ \A x \in Writers : x # w => task'[x] = task[x]
    BY <1>9, <1>a, Zenon DEF RunCallback, Steps, Task, TaskType, PCs
  <2>2. /\ UNCHANGED <<nesting, gp, cpuGp, callbacks, report, current, holds, fresh>>
        /\ freed' = freed \union task[w].func
    BY <1>9, Zenon DEF RunCallback
  <2>f. /\ task'[w].pc = "process" /\ task'[w].old = task[w].old
        /\ task'[w].target = task[w].target /\ task'[w].func = {}
    BY <2>1 DEF Task
  <2>3. TaskOK(task'[w])
    <3>1. /\ \A v \in task[w].old : Passed(v, task[w].target)
          /\ \A c \in Online : cpuGp[c] >= task[w].target
      BY <1>9, <1>b, ZenonT(30), Zenon DEF RunCallback, TaskOK, Waiting, Complete
    <3>2. QED
      BY <2>f, <3>1, ZenonT(30), Zenon DEF TaskOK, Scanning
  <2>4. \A x \in Writers : \A u \in task'[x].old \union task'[x].func : Gone(u)
    <3>1. \A u \in task'[w].old \union task'[w].func : Gone(u)
      BY <1>b, <2>f, <2>2, ZenonT(30), Zenon DEF Gone
    <3>2. \A x \in Writers : x # w => \A u \in task'[x].old \union task'[x].func : Gone(u)
      BY <1>b, <2>1, <2>2, Zenon DEF Gone
    <3>3. QED
      BY <3>1, <3>2, Zenon
  <2>5. \A k \in 1..Len(callbacks') :
           Gone(callbacks'[k].func) /\ Passed(callbacks'[k].func, callbacks'[k].target)
    BY <1>b, <2>2, Zenon DEF Gone
  <2>6. /\ task[w].func \subseteq Versions
        /\ \A c \in CPUs : holds[c] \cap task[w].func = {}
        /\ current \notin task[w].func
        /\ fresh \cap task[w].func = {}
    BY <1>a, <1>b, Zenon DEF TaskType, TaskOK
  <2>r. /\ UNCHANGED <<nesting, cpuGp, report, holds>> /\ gp' \in Nat /\ gp' >= gp
        /\ callbacks' \in Seq(Callback)
        /\ current' \in Versions /\ current' \notin fresh' /\ current' \notin freed'
        /\ fresh' \subseteq Versions /\ freed' \subseteq Versions /\ freed' \cap fresh' = {}
        /\ \A c \in CPUs : holds[c] \cap freed' = {}
    BY <1>a, <1>b, <2>2, <2>6
  <2>7. QED
    BY <2>r, <2>1, <2>3, <2>4, <2>5, <1>o, WriterUpdate, Zenon
<1>10. CASE Reclaim(w)
  <2>1. /\ task' \in [Writers -> TaskType]
        /\ task'[w] = Task("idle", {}, 0, 0, 0, 1, {})
        /\ \A x \in Writers : x # w => task'[x] = task[x]
    BY <1>10, <1>a DEF Reclaim, Steps, IdleTask, Task, TaskType, PCs
  <2>2. /\ UNCHANGED <<nesting, gp, cpuGp, callbacks, report, current, holds, fresh>>
        /\ freed' = freed \union task[w].old
        /\ task[w].pc = "reclaim"
    BY <1>10, Zenon DEF Reclaim
  <2>3. TaskOK(task'[w])
    BY <2>1 DEF TaskOK, Task, Waiting, Scanning, Complete
  <2>4. \A x \in Writers : \A u \in task'[x].old \union task'[x].func : Gone(u)
    BY <1>b, <2>1, <2>2 DEF Gone, Task
  <2>5. \A k \in 1..Len(callbacks') :
           Gone(callbacks'[k].func) /\ Passed(callbacks'[k].func, callbacks'[k].target)
    BY <1>b, <2>2, Zenon DEF Gone
  <2>6. \A c \in CPUs : holds[c] \cap task[w].old = {}
    <3>1. task[w].target \in Nat
      BY <1>a, Zenon DEF TaskType
    <3>2. \A c \in Online : c \in CPUs /\ Reports(c, task[w].target)
      BY <1>b, <2>2, Zenon DEF TaskOK, Complete, CPUs, Reports
    <3>3. \A c \in CPUs : c \notin Online => holds[c] = {}
      BY Zenon DEF IInv, CpuInv
    <3>4. QED
      BY <3>2, <3>3, <1>b, <2>2, Zenon DEF TaskOK, Waiting, Passed
  <2>7. /\ task[w].old \subseteq Versions
        /\ current \notin task[w].old
        /\ fresh \cap task[w].old = {}
    BY <1>a, <1>b, Zenon DEF TaskType
  <2>r. /\ UNCHANGED <<nesting, cpuGp, report, holds>> /\ gp' \in Nat /\ gp' >= gp
        /\ callbacks' \in Seq(Callback)
        /\ current' \in Versions /\ current' \notin fresh' /\ current' \notin freed'
        /\ fresh' \subseteq Versions /\ freed' \subseteq Versions /\ freed' \cap fresh' = {}
        /\ \A c \in CPUs : holds[c] \cap freed' = {}
    BY <1>a, <1>b, <2>2, <2>6, <2>7
  <2>8. QED
    BY <2>r, <2>1, <2>3, <2>4, <2>5, <1>o, WriterUpdate, Zenon
<1>11. CASE CallRcuPush(w)
  <2>1. PICK v \in task[w].old :
           callbacks' = Append(callbacks, [target |-> task[w].target, func |-> v])
    BY <1>11, Zenon DEF CallRcuPush
  <2>2. /\ task' \in [Writers -> TaskType]
        /\ task'[w] = Task("idle", {}, 0, 0, 0, 1, {})
        /\ \A x \in Writers : x # w => task'[x] = task[x]
    BY <1>11, <1>a DEF CallRcuPush, Steps, IdleTask, Task, TaskType, PCs
  <2>3. UNCHANGED <<nesting, gp, cpuGp, report, current, holds, fresh, freed>> /\ task[w].pc = "push"
    BY <1>11, Zenon DEF CallRcuPush
  <2>4. TaskOK(task'[w])
    BY <2>2 DEF TaskOK, Task, Waiting, Scanning, Complete
  <2>5. \A x \in Writers : \A u \in task'[x].old \union task'[x].func : Gone(u)
    BY <1>b, <2>2, <2>3 DEF Gone, Task
  <2> DEFINE cb == [target |-> task[w].target, func |-> v]
  <2>6. cb \in Callback /\ cb.func = v /\ cb.target = task[w].target
    BY <1>a, <2>1, Zenon DEF TaskType, Callback
  <2>7. Passed(v, task[w].target) /\ Gone(v)
    BY <1>b, <2>1, <2>3, Zenon DEF TaskOK, Waiting, Gone
  <2> HIDE DEF cb
  <2>8. /\ callbacks' = Append(callbacks, cb)
        /\ callbacks' \in Seq(Callback)
        /\ \A k \in 1..Len(callbacks') : callbacks'[k] = cb \/ (k \in 1..Len(callbacks) /\ callbacks'[k] = callbacks[k])
    <3>1. callbacks' = Append(callbacks, cb)
      BY <2>1, Zenon DEF cb
    <3>2. QED
      BY <3>1, <1>a, <2>6
  <2>9. \A k \in 1..Len(callbacks') :
           Gone(callbacks'[k].func) /\ Passed(callbacks'[k].func, callbacks'[k].target)
    BY <1>b, <2>3, <2>6, <2>7, <2>8, Zenon DEF Gone
  <2>r. /\ UNCHANGED <<nesting, cpuGp, report, holds>> /\ gp' \in Nat /\ gp' >= gp
        /\ callbacks' \in Seq(Callback)
        /\ current' \in Versions /\ current' \notin fresh' /\ current' \notin freed'
        /\ fresh' \subseteq Versions /\ freed' \subseteq Versions /\ freed' \cap fresh' = {}
        /\ \A c \in CPUs : holds[c] \cap freed' = {}
    BY <1>a, <1>b, <2>3, <2>8
  <2>10. QED
    BY <2>r, <2>2, <2>4, <2>5, <2>9, <1>o, WriterUpdate, Zenon
<1>12. QED
  BY <1>1, <1>3, <1>4, <1>5, <1>6, <1>7, <1>8, <1>9, <1>10, <1>11, Zenon DEF WriterStep, Proceed

(* Every step of the system keeps the invariant. *)
LEMMA NextIInv == IInv /\ [Next]_vars => IInv'
<1> SUFFICES ASSUME IInv, [Next]_vars PROVE IInv'
  OBVIOUS
<1>1. CASE UNCHANGED vars
  BY <1>1, Zenon DEF vars, IInv, TypeOK, CpuInv, GoneInv, WaitInv, TaskOK, Passed, Reports, GracePeriod
<1>2. CASE Next
  BY <1>2, CpuStepIInv, WriterStepIInv, Zenon DEF Next
<1>3. QED
  BY <1>1, <1>2, Zenon

(* What a reader has obtained inside its section is not reclaimed before    *)
(* the outermost unlock, for any number of CPUs, writers and versions:      *)
(* synchronize_rcu and the callbacks of call_rcu wait long enough.          *)
THEOREM GracePeriodHolds == Spec => []GracePeriod
<1>1. IInv => GracePeriod
  BY Zenon DEF IInv
<1>2. QED
  BY InitIInv, NextIInv, <1>1, PTL DEF Spec

(* A step after which writer w owns no more than before, and nothing else  *)
(* changes hands.                                                          *)
LEMMA DisposerKept ==
    ASSUME OneDisposer, NEW w \in Writers,
           \A x \in Writers : x # w => task'[x] = task[x],
           task'[w].old \subseteq task[w].old, task'[w].func \subseteq task[w].func,
           UNCHANGED <<callbacks, freed>>
    PROVE  OneDisposer'
<1>1. InQueue' = InQueue
  BY Zenon DEF InQueue
<1>2. \A x \in Writers : task'[x].old \subseteq task[x].old /\ task'[x].func \subseteq task[x].func
  OBVIOUS
<1>3. \A x \in Writers :
         /\ (task'[x].old \union task'[x].func) \cap (freed' \union InQueue') = {}
         /\ task'[x].old \cap task'[x].func = {}
  BY <1>1, <1>2 DEF OneDisposer
<1>4. \A x, y \in Writers : x # y =>
         (task'[x].old \union task'[x].func) \cap (task'[y].old \union task'[y].func) = {}
  BY <1>2 DEF OneDisposer
<1>5. InQueue' \cap freed' = {}
      /\ \A j, k \in 1..Len(callbacks') : callbacks'[j].func = callbacks'[k].func => j = k
  BY <1>1, Zenon DEF OneDisposer
<1>6. QED
  BY <1>3, <1>4, <1>5, Zenon DEF OneDisposer

(* The steps of a writer that move a version, and the others, keep every   *)
(* version in one place.                                                   *)
LEMMA WriterStepDisposer ==
    ASSUME IInv, OneDisposer, NEW w \in Writers, WriterStep(w)
    PROVE  OneDisposer'
<1> USE SMTT(30)
<1>a. /\ task \in [Writers -> TaskType]
      /\ callbacks \in Seq(Callback) /\ Len(callbacks) \in Nat
  BY DEF IInv, TypeOK, TaskType, Callback
<1>1. CASE Publish(w)
  <2>1. /\ task'[w].old = {current} /\ task'[w].func = {}
        /\ \A x \in Writers : x # w => task'[x] = task[x]
        /\ UNCHANGED <<callbacks, freed>>
    BY <1>1, Zenon DEF Publish, Steps, Task
  <2>2. InQueue' = InQueue
    BY <2>1, Zenon DEF InQueue
  <2>3. /\ current \notin freed /\ current \notin InQueue
        /\ \A x \in Writers : current \notin task[x].old \union task[x].func
    BY Zenon DEF IInv, GoneInv, GracePeriod, InQueue
  <2>4. \A x \in Writers :
            /\ (task'[x].old \union task'[x].func) \cap (freed' \union InQueue') = {}
            /\ task'[x].old \cap task'[x].func = {}
    BY <2>1, <2>2, <2>3 DEF OneDisposer
  <2>5. \A x, y \in Writers : x # y =>
            (task'[x].old \union task'[x].func) \cap (task'[y].old \union task'[y].func) = {}
    BY <2>1, <2>3 DEF OneDisposer
  <2>6. QED
    BY <2>1, <2>2, <2>4, <2>5, ZenonT(30), Zenon DEF OneDisposer
<1>2. CASE \/ Synchronize(w) \/ CallRcu(w) \/ LoadNesting(w) \/ LoadCpuGp(w) \/ SynchronizeReturn(w)
  <2>1. /\ \A x \in Writers : x # w => task'[x] = task[x]
        /\ task'[w].old = task[w].old /\ task'[w].func = {}
        /\ UNCHANGED <<callbacks, freed>>
    <3>1. CASE Synchronize(w)
      BY <3>1, Zenon DEF Synchronize, Steps, Task
    <3>2. CASE CallRcu(w)
      BY <3>2, Zenon DEF CallRcu, Steps, Task
    <3>3. CASE LoadNesting(w)
      BY <3>3, Zenon DEF LoadNesting, Steps, Task
    <3>4. CASE LoadCpuGp(w)
      BY <3>4, Zenon DEF LoadCpuGp, Steps, AfterCpu, Task
    <3>5. CASE SynchronizeReturn(w)
      BY <3>5, ZenonT(30), Zenon DEF SynchronizeReturn, Steps, Task
    <3>6. QED
      BY <1>2, <3>1, <3>2, <3>3, <3>4, <3>5, Zenon
  <2>2. QED
    BY <2>1, DisposerKept, Zenon
<1>3. CASE TakeCallback(w)
  <2> DEFINE t == task[w]
  <2>1. PICK k \in FirstReady(t.i, t.target) :
           /\ callbacks' = SwapRemove(callbacks, k)
           /\ Steps(w, Task("func", t.old, t.target, 0, 0, k, {callbacks[k].func}))
    BY <1>3, Zenon DEF TakeCallback
  <2>2. t.i \in Nat \ {0} /\ k \in 1..Len(callbacks)
    <3>1. t.i \in Nat \ {0}
      BY <1>a, Zenon DEF TaskType
    <3>2. QED
      BY <3>1, <2>1, <1>a DEF FirstReady
  <2>3. /\ Len(callbacks') = Len(callbacks) - 1
        /\ \A j \in 1..(Len(callbacks) - 1) :
              callbacks'[j] = IF j = k THEN callbacks[Len(callbacks)] ELSE callbacks[j]
    BY <2>1, <2>2, <1>a, SwapRemoveType, ZenonT(30), Zenon
  <2>4. /\ task'[w].old = t.old /\ task'[w].func = {callbacks[k].func}
        /\ \A x \in Writers : x # w => task'[x] = task[x]
        /\ freed' = freed
    BY <2>1, <1>3, Zenon DEF TakeCallback, Steps, Task
  <2>5. \A i, j \in 1..Len(callbacks) : callbacks[i].func = callbacks[j].func => i = j
    BY Zenon DEF OneDisposer
  <2>6. \A i, j \in 1..Len(callbacks') : callbacks'[i].func = callbacks'[j].func => i = j
    BY <2>2, <2>3, <2>5, <1>a
  <2>7. \A j \in 1..Len(callbacks') : callbacks'[j].func # callbacks[k].func
    BY <2>2, <2>3, <2>5, <1>a
  <2>8. \A j \in 1..Len(callbacks') : \E l \in 1..Len(callbacks) : callbacks'[j] = callbacks[l]
    BY <2>2, <2>3, <1>a
  <2>9. InQueue' \subseteq InQueue /\ callbacks[k].func \in InQueue /\ callbacks[k].func \notin InQueue'
    BY <2>2, <2>7, <2>8, Zenon DEF InQueue
  <2> DEFINE f == callbacks[k].func
  <2>10. /\ f \notin freed
         /\ \A x \in Writers : f \notin task[x].old \union task[x].func
    BY <2>9, Zenon DEF OneDisposer
  <2>11. \A x \in Writers :
            /\ (task'[x].old \union task'[x].func) \cap (freed' \union InQueue') = {}
            /\ task'[x].old \cap task'[x].func = {}
    BY <2>4, <2>9, <2>10 DEF OneDisposer
  <2>12. \A x, y \in Writers : x # y =>
            (task'[x].old \union task'[x].func) \cap (task'[y].old \union task'[y].func) = {}
    BY <2>4, <2>10 DEF OneDisposer
  <2>13. InQueue' \cap freed' = {}
    BY <2>4, <2>9, Zenon DEF OneDisposer
  <2>14. QED
    BY <2>6, <2>11, <2>12, <2>13, Zenon DEF OneDisposer
<1>4. CASE RunCallback(w)
  <2>1. /\ task'[w].old = task[w].old /\ task'[w].func = {}
        /\ \A x \in Writers : x # w => task'[x] = task[x]
        /\ callbacks' = callbacks /\ freed' = freed \union task[w].func
    BY <1>4, Zenon DEF RunCallback, Steps, Task
  <2>2. InQueue' = InQueue
    BY <2>1, Zenon DEF InQueue
  <2>3. \A x \in Writers :
            /\ (task'[x].old \union task'[x].func) \cap (freed' \union InQueue') = {}
            /\ task'[x].old \cap task'[x].func = {}
    BY <2>1, <2>2 DEF OneDisposer
  <2>4. \A x, y \in Writers : x # y =>
            (task'[x].old \union task'[x].func) \cap (task'[y].old \union task'[y].func) = {}
    BY <2>1 DEF OneDisposer
  <2>5. InQueue' \cap freed' = {}
        /\ \A j, k \in 1..Len(callbacks') : callbacks'[j].func = callbacks'[k].func => j = k
    BY <2>1, <2>2 DEF OneDisposer
  <2>6. QED
    BY <2>3, <2>4, <2>5, Zenon DEF OneDisposer
<1>5. CASE Reclaim(w)
  <2>1. /\ task'[w].old = {} /\ task'[w].func = {}
        /\ \A x \in Writers : x # w => task'[x] = task[x]
        /\ callbacks' = callbacks /\ freed' = freed \union task[w].old
    BY <1>5, Zenon DEF Reclaim, Steps, IdleTask, Task
  <2>2. InQueue' = InQueue
    BY <2>1, Zenon DEF InQueue
  <2>3. QED
    BY <2>1, <2>2, Zenon DEF OneDisposer
<1>6. CASE CallRcuPush(w)
  <2>1. PICK v \in task[w].old :
           callbacks' = Append(callbacks, [target |-> task[w].target, func |-> v])
    BY <1>6, Zenon DEF CallRcuPush
  <2>2. /\ task'[w].old = {} /\ task'[w].func = {}
        /\ \A x \in Writers : x # w => task'[x] = task[x]
        /\ freed' = freed
    BY <1>6, Zenon DEF CallRcuPush, Steps, IdleTask, Task
  <2>3. /\ Len(callbacks') = Len(callbacks) + 1
        /\ callbacks'[Len(callbacks) + 1].func = v
        /\ \A j \in 1..Len(callbacks) : callbacks'[j] = callbacks[j]
    BY <2>1, <1>a
  <2>4. v \notin InQueue /\ v \notin freed /\ \A x \in Writers : x # w => v \notin task[x].old \union task[x].func
    BY <2>1, Zenon DEF OneDisposer
  <2>5. \A j \in 1..Len(callbacks) : callbacks[j].func # v
    BY <2>4, Zenon DEF InQueue
  <2>6. \A i, j \in 1..Len(callbacks') : callbacks'[i].func = callbacks'[j].func => i = j
    <3>1. \A i, j \in 1..Len(callbacks) : callbacks[i].func = callbacks[j].func => i = j
      BY Zenon DEF OneDisposer
    <3>2. QED
      BY <3>1, <2>3, <2>5, <1>a
  <2>7. \A j \in 1..Len(callbacks') : callbacks'[j].func = v \/ \E l \in 1..Len(callbacks) : callbacks'[j] = callbacks[l]
    BY <2>3, <1>a
  <2>8. InQueue' \subseteq InQueue \union {v}
    BY <2>7, Zenon DEF InQueue
  <2>9. QED
    BY <2>2, <2>4, <2>6, <2>8 DEF OneDisposer
<1>7. QED
  BY <1>1, <1>2, <1>3, <1>4, <1>5, <1>6, Zenon DEF WriterStep, Proceed

(* A version that was taken out is reclaimed by exactly one party and at   *)
(* most once, although process_callbacks drops its lock around every       *)
(* callback and several callers work on the queue at a time.               *)
THEOREM ReclaimedOnce == Spec => []OneDisposer
<1>1. Init => OneDisposer
  BY SMTT(30) DEF Init, OneDisposer, InQueue, IdleTask, Task
<1>2. IInv /\ OneDisposer /\ [Next]_vars => OneDisposer'
  <2> SUFFICES ASSUME IInv, OneDisposer, [Next]_vars PROVE OneDisposer'
    OBVIOUS
  <2>1. CASE UNCHANGED <<task, callbacks, freed>>
    BY <2>1, SMTT(30) DEF OneDisposer, InQueue
  <2>2. ASSUME NEW c \in Online, CpuStep(c) PROVE UNCHANGED <<task, callbacks, freed>>
    BY <2>2, Zenon DEF CpuStep, ReadLock, Dereference, ReadUnlock, QuiescentLoad, QuiescentStore
  <2>3. QED
    BY <2>1, <2>2, WriterStepDisposer, Zenon DEF Next, vars
<1>3. QED
  BY InitIInv, NextIInv, <1>1, <1>2, PTL DEF Spec

-----------------------------------------------------------------------------
(* No callback is missed.  The invariant says where a callback that a      *)
(* caller owes may be found: at an index such that every entry up to it is *)
(* due later than the caller's grace period, or still ahead of a caller    *)
(* whose grace period is no earlier.                                       *)

(* Some caller of process_callbacks for grace period t or a later one has  *)
(* index j ahead of it.                                                    *)
Active(x) == task[x].pc \in {"process", "func"}
Ahead(j, t) == \E x \in Writers : Active(x) /\ task[x].i <= j /\ task[x].target >= t

(* The entry at index j cannot hide a callback from grace period t. *)
Clear(j, t) == callbacks[j].target > t \/ Ahead(j, t)

(* The callback for v has run or is running. *)
Held(v) == v \in freed \/ \E x \in Writers : v \in task[x].func

(* It is queued for t or earlier and, once the scan is over, in sight. *)
Waits(v, t, pc) ==
    \E k \in 1..Len(callbacks) :
        /\ callbacks[k].func = v
        /\ callbacks[k].target <= t
        /\ pc \in Scanning \/ \A j \in 1..k : Clear(j, t)

Calling == {"nesting", "cpu_gp", "process", "func", "reclaim"}

OwedOK(w) ==
    task[w].pc \in Calling =>
        \A v \in owed[w] : Held(v) \/ Waits(v, task[w].target, task[w].pc)

MissInv ==
    /\ \A w \in Writers : OwedOK(w)
    /\ \A w \in Writers : task[w].pc # "func" => task[w].func = {}

(* What a step has to keep for the callbacks that others are owed. *)
StepKeeps ==
    \A v, pc : \A t \in Nat :
        Held(v) \/ Waits(v, t, pc) => (Held(v) \/ Waits(v, t, pc))'

(* A step that leaves the queue alone keeps them when it hides no entry. *)
LEMMA QueueKept ==
    ASSUME callbacks' = callbacks,
           \A v : Held(v) => Held(v)',
           \A t \in Nat : \A j \in 1..Len(callbacks) : Clear(j, t) => Clear(j, t)'
    PROVE  StepKeeps
<1> SUFFICES ASSUME NEW v, NEW t \in Nat, NEW pc, Waits(v, t, pc)
             PROVE  Waits(v, t, pc)'
  BY Zenon DEF StepKeeps
<1>1. PICK k \in 1..Len(callbacks) :
         /\ callbacks[k].func = v
         /\ callbacks[k].target <= t
         /\ pc \in Scanning \/ \A j \in 1..k : Clear(j, t)
  BY Zenon DEF Waits
<1>2. \A j \in 1..k : j \in 1..Len(callbacks)
  BY <1>1
<1>3. pc \in Scanning \/ \A j \in 1..k : Clear(j, t)'
  BY <1>1, <1>2, Zenon
<1> QED BY <1>1, <1>3, Zenon DEF Waits

(* What a step of writer w has to show. *)
LEMMA MissUpdate ==
    ASSUME TypeOK, MissInv, NEW w \in Writers,
           StepKeeps,
           \A x \in Writers : x # w => task'[x] = task[x] /\ owed'[x] = owed[x],
           task'[w].pc # "func" => task'[w].func = {},
           OwedOK(w)'
    PROVE  MissInv'
<1>1. ASSUME NEW x \in Writers, x # w PROVE OwedOK(x)'
  <2>1. task'[x] = task[x] /\ owed'[x] = owed[x] /\ task[x].target \in Nat
    BY <1>1, Zenon DEF TypeOK
  <2> SUFFICES ASSUME task[x].pc \in Calling, NEW v \in owed[x]
               PROVE  (Held(v) \/ Waits(v, task[x].target, task[x].pc))'
    BY <2>1, Zenon DEF OwedOK
  <2>2. PICK t \in Nat : t = task[x].target
    BY <2>1, Zenon
  <2>3. PICK pc : pc = task[x].pc
    BY Zenon
  <2>4. Held(v) \/ Waits(v, t, pc)
    BY <2>2, <2>3, Zenon DEF MissInv, OwedOK
  <2>5. (Held(v) \/ Waits(v, t, pc))'
    BY <2>4, Zenon DEF StepKeeps
  <2> QED BY <2>1, <2>2, <2>3, <2>5, Zenon
<1>2. \A x \in Writers : task'[x].pc # "func" => task'[x].func = {}
  BY Zenon DEF MissInv
<1> QED BY <1>1, <1>2, Zenon DEF MissInv

(* The caller's own debts: a step that leaves its grace period alone keeps *)
(* them, and a scan that ends has every entry ahead of it.                 *)
LEMMA OwnDebts ==
    ASSUME TypeOK, MissInv, NEW w \in Writers, StepKeeps,
           owed'[w] = owed[w], task[w].pc \in Calling,
           task'[w].target = task[w].target,
           task'[w].pc \in Scanning <=> task[w].pc \in Scanning
    PROVE  OwedOK(w)'
<1> SUFFICES ASSUME NEW v \in owed[w]
             PROVE  (Held(v) \/ Waits(v, task[w].target, task[w].pc))'
  BY Zenon DEF OwedOK
<1>2. PICK t \in Nat : t = task[w].target
  BY Zenon DEF TypeOK
<1>3. PICK pc : pc = task[w].pc
  BY Zenon
<1>4. Held(v) \/ Waits(v, t, pc)
  BY <1>2, <1>3, Zenon DEF MissInv, OwedOK
<1>5. (Held(v) \/ Waits(v, t, pc))'
  BY <1>4, Zenon DEF StepKeeps
<1>6. CASE Held(v)'
  BY <1>6, Zenon
<1>7. CASE Waits(v, t, pc)'
  <2>1. task'[w].pc \in Scanning <=> pc \in Scanning
    BY <1>3, Zenon
  <2>2. t = task'[w].target
    BY <1>2, Zenon
  <2> QED BY <1>7, <2>1, <2>2, Zenon DEF Waits
<1> QED BY <1>5, <1>6, <1>7, Zenon

(* A step of writer w that leaves the queue and its own place in it alone. *)
LEMMA PlainKept ==
    ASSUME NEW w \in Writers, callbacks' = callbacks, freed \subseteq freed',
           \A x \in Writers : x # w => task'[x] = task[x],
           task[w].func \subseteq task'[w].func \union freed',
           Active(w) => /\ Active(w)'
                        /\ task'[w].i = task[w].i
                        /\ task'[w].target = task[w].target
    PROVE  StepKeeps
<1>1. \A v : Held(v) => Held(v)'
  <2> SUFFICES ASSUME NEW v, Held(v) PROVE Held(v)'
    OBVIOUS
  <2>1. CASE v \in freed
    BY <2>1, Zenon DEF Held
  <2>2. ASSUME NEW x \in Writers, v \in task[x].func PROVE Held(v)'
    <3>1. CASE x = w
      BY <2>2, <3>1, Zenon DEF Held
    <3>2. CASE x # w
      <4>1. v \in task'[x].func
        BY <2>2, <3>2, Zenon
      <4> QED BY <4>1, Zenon DEF Held
    <3> QED BY <3>1, <3>2, Zenon
  <2> QED BY <2>1, <2>2, Zenon DEF Held
<1>2. \A j, t : Ahead(j, t) => Ahead(j, t)'
  <2> SUFFICES ASSUME NEW j, NEW t, NEW x \in Writers,
                      Active(x), task[x].i <= j, task[x].target >= t
               PROVE  Ahead(j, t)'
    BY Zenon DEF Ahead
  <2>1. Active(x)' /\ task'[x].i = task[x].i /\ task'[x].target = task[x].target
    <3>1. CASE x = w
      BY <3>1, Zenon
    <3>2. CASE x # w
      BY <3>2, Zenon DEF Active
    <3> QED BY <3>1, <3>2, Zenon
  <2>2. task'[x].i <= j /\ task'[x].target >= t
    BY <2>1, Zenon
  <2> QED BY <2>1, <2>2, Zenon DEF Ahead
<1>3. \A t \in Nat : \A j \in 1..Len(callbacks) : Clear(j, t) => Clear(j, t)'
  BY <1>2, Zenon DEF Clear
<1> QED BY <1>1, <1>3, QueueKept, Zenon

(* The caller that leaves the queue had nothing due ahead of it. *)
LEMMA ReturnKept ==
    ASSUME TypeOK, MissInv, NEW w \in Writers, SynchronizeReturn(w)
    PROVE  StepKeeps
<1>1. /\ callbacks' = callbacks /\ freed' = freed /\ task[w].pc = "process"
      /\ \A x \in Writers : x # w => task'[x] = task[x]
      /\ task[w].func = {}
      /\ FirstReady(task[w].i, task[w].target) = {}
  BY ZenonT(30), Zenon DEF SynchronizeReturn, Steps, MissInv
<1>2. /\ task[w].i \in Nat \ {0} /\ task[w].target \in Nat /\ Len(callbacks) \in Nat
      /\ \A k \in 1..Len(callbacks) : callbacks[k].target \in Nat
  <2>1. task[w].i \in Nat \ {0} /\ task[w].target \in Nat
    BY Zenon DEF TypeOK
  <2>2. Len(callbacks) \in Nat
    BY DEF TypeOK
  <2> QED BY <2>1, <2>2, QueueType, Zenon
<1>3. \A v : Held(v) => Held(v)'
  <2> SUFFICES ASSUME NEW v, Held(v) PROVE Held(v)'
    OBVIOUS
  <2>1. CASE v \in freed
    BY <1>1, <2>1, Zenon DEF Held
  <2>2. ASSUME NEW x \in Writers, v \in task[x].func PROVE Held(v)'
    <3>1. v \in task'[x].func
      BY <1>1, <2>2, Zenon
    <3> QED BY <3>1, Zenon DEF Held
  <2> QED BY <2>1, <2>2, Zenon DEF Held
<1>4. \A j \in 1..Len(callbacks) : j >= task[w].i => callbacks[j].target > task[w].target
  <2> DEFINE Due == {j \in (task[w].i)..Len(callbacks) : callbacks[j].target <= task[w].target}
  <2>1. SUFFICES Due = {}
    BY <1>2
  <2>2. SUFFICES ASSUME Due # {} PROVE FALSE
    OBVIOUS
  <2>3. PICK m \in Due : \A j \in Due : m <= j
    <3>1. Due \in SUBSET Nat
      BY <1>2
    <3>2. PICK d \in Due : TRUE
      BY <2>2, Zenon
    <3> HIDE DEF Due
    <3>3. \E e \in Due : \A j \in Due : ~(<<j, e>> \in OpToRel(<, Nat))
      BY <3>1, <3>2, NatLessThanWellFounded, WFMin, Zenon
    <3>4. \A e, j \in Nat : ~(<<j, e>> \in OpToRel(<, Nat)) => e <= j
      BY DEF OpToRel
    <3> QED BY <3>1, <3>3, <3>4, ZenonT(30)
  <2>4. m \in FirstReady(task[w].i, task[w].target)
    BY <1>2, <2>3 DEF FirstReady
  <2> QED BY <1>1, <2>4, Zenon
<1>5. ASSUME NEW t \in Nat, NEW j \in 1..Len(callbacks), Clear(j, t) PROVE Clear(j, t)'
  <2>1. CASE callbacks[j].target > t
    BY <1>1, <2>1, Zenon DEF Clear
  <2>2. ASSUME NEW x \in Writers, Active(x), task[x].i <= j, task[x].target >= t
        PROVE  Clear(j, t)'
    <3>1. CASE x = w
      <4>1. callbacks[j].target > t
        BY <1>2, <1>4, <2>2, <3>1
      <4> QED BY <1>1, <4>1, Zenon DEF Clear
    <3>2. CASE x # w
      <4>1. task'[x] = task[x]
        BY <1>1, <3>2, Zenon
      <4>2. Ahead(j, t)'
        BY <2>2, <4>1, Zenon DEF Ahead, Active
      <4> QED BY <4>2, Zenon DEF Clear
    <3> QED BY <3>1, <3>2, Zenon
  <2> QED BY <1>5, <2>1, <2>2, Zenon DEF Clear, Ahead
<1> QED BY <1>1, <1>3, <1>5, QueueKept, Zenon

(* The caller that takes a callback stays in front of the entry that       *)
(* swap_remove puts in its place, and what it passed is due later.         *)
LEMMA TakeKept ==
    ASSUME TypeOK, MissInv, NEW w \in Writers, TakeCallback(w)
    PROVE  StepKeeps
<1> DEFINE n == Len(callbacks)
<1>1. PICK k \in FirstReady(task[w].i, task[w].target) :
         /\ callbacks' = SwapRemove(callbacks, k)
         /\ Steps(w, Task("func", task[w].old, task[w].target, 0, 0, k, {callbacks[k].func}))
  BY ZenonT(30), Zenon DEF TakeCallback
<1>2. freed' = freed /\ task[w].pc = "process" /\ task[w].func = {}
  BY ZenonT(30), Zenon DEF TakeCallback, MissInv
<1>3. /\ task[w].i \in Nat \ {0} /\ task[w].target \in Nat /\ n \in Nat
      /\ \A j \in 1..n : callbacks[j].target \in Nat
  <2>1. task[w].i \in Nat \ {0} /\ task[w].target \in Nat
    BY Zenon DEF TypeOK
  <2>2. n \in Nat
    BY DEF TypeOK
  <2> QED BY <2>1, <2>2, QueueType, Zenon
<1>4. /\ k \in 1..n /\ task[w].i <= k /\ callbacks[k].target <= task[w].target
      /\ \A j \in (task[w].i)..(k - 1) : callbacks[j].target > task[w].target
  BY <1>1, <1>3 DEF FirstReady
<1>5. /\ Len(callbacks') = n - 1
      /\ \A j \in 1..(n - 1) : callbacks'[j] = IF j = k THEN callbacks[n] ELSE callbacks[j]
  <2>1. callbacks \in Seq(Callback)
    BY Zenon DEF TypeOK, Callback
  <2> QED BY <1>1, <1>4, <2>1, SwapRemoveType, ZenonT(30), Zenon
<1>6. /\ task'[w].pc = "func" /\ task'[w].i = k /\ task'[w].target = task[w].target
      /\ task'[w].func = {callbacks[k].func}
      /\ \A x \in Writers : x # w => task'[x] = task[x]
  BY <1>1, Zenon DEF Steps, Task
<1>7. Active(w) /\ Active(w)'
  BY <1>2, <1>6, Zenon DEF Active
<1>u. PICK u : u = callbacks[k].func
  BY Zenon
<1>8. Held(u)' /\ \A v : Held(v) => Held(v)'
  <2>1. Held(u)'
    <3>1. u \in task'[w].func
      BY <1>6, <1>u, Zenon
    <3> QED BY <3>1, Zenon DEF Held
  <2>2. ASSUME NEW v, Held(v) PROVE Held(v)'
    <3>1. CASE v \in freed
      BY <1>2, <3>1, Zenon DEF Held
    <3>2. ASSUME NEW x \in Writers, v \in task[x].func PROVE Held(v)'
      <4>1. v \in task'[x].func
        BY <1>2, <1>6, <3>2, Zenon
      <4> QED BY <4>1, Zenon DEF Held
    <3> QED BY <2>2, <3>1, <3>2, Zenon DEF Held
  <2> QED BY <2>1, <2>2, Zenon
<1> HIDE DEF n
<1>9. ASSUME NEW t \in Nat, NEW j \in 1..n, Clear(j, t)
      PROVE  Ahead(j, t)' \/ (j # k /\ callbacks[j].target > t)
  <2>w. ASSUME k <= j, task[w].target >= t PROVE Ahead(j, t)'
    <3>1. task'[w].i <= j /\ task'[w].target >= t
      BY <1>6, <2>w, Zenon
    <3> QED BY <1>7, <3>1, Zenon DEF Ahead
  <2>1. CASE callbacks[j].target > t
    <3>1. CASE j = k
      <4>1. k <= j /\ task[w].target >= t
        BY <1>3, <1>4, <2>1, <3>1
      <4> QED BY <2>w, <4>1, Zenon
    <3> QED BY <2>1, <3>1, Zenon
  <2>2. ASSUME NEW x \in Writers, Active(x), task[x].i <= j, task[x].target >= t
        PROVE  Ahead(j, t)' \/ (j # k /\ callbacks[j].target > t)
    <3>1. CASE x = w
      <4>1. CASE k <= j
        BY <2>w, <2>2, <3>1, <4>1, Zenon
      <4>2. CASE ~(k <= j)
        <5>1. j \in (task[w].i)..(k - 1)
          BY <1>3, <1>4, <2>2, <3>1, <4>2
        <5>2. callbacks[j].target > task[w].target
          BY <1>4, <5>1, Zenon
        <5> QED BY <1>3, <1>4, <2>2, <3>1, <4>2, <5>2
      <4> QED BY <4>1, <4>2, Zenon
    <3>2. CASE x # w
      <4>1. task'[x] = task[x]
        BY <1>6, <3>2, Zenon
      <4> QED BY <2>2, <4>1, Zenon DEF Ahead, Active
    <3> QED BY <3>1, <3>2, Zenon
  <2> QED BY <1>9, <2>1, <2>2, Zenon DEF Clear, Ahead
<1>10. ASSUME NEW t \in Nat, NEW j \in 1..(n - 1), Clear(j, t) PROVE Clear(j, t)'
  <2>1. j \in 1..n
    BY <1>3
  <2>2. Ahead(j, t)' \/ (j # k /\ callbacks[j].target > t)
    BY <1>9, <1>10, <2>1, Zenon
  <2>3. j # k => callbacks'[j] = callbacks[j]
    BY <1>5, Zenon
  <2> QED BY <2>2, <2>3, Zenon DEF Clear
<1> SUFFICES ASSUME NEW v, NEW t \in Nat, NEW pc, Waits(v, t, pc)
             PROVE  (Held(v) \/ Waits(v, t, pc))'
  BY <1>8, Zenon DEF StepKeeps
<1>11. PICK m \in 1..n :
         /\ callbacks[m].func = v
         /\ callbacks[m].target <= t
         /\ pc \in Scanning \/ \A j \in 1..m : Clear(j, t)
  BY Zenon DEF Waits, n
<1>12. CASE m = k
  BY <1>8, <1>11, <1>12, <1>u, Zenon
<1>13. CASE m # k
  <2>1. PICK l \in 1..(n - 1) : l <= m /\ callbacks'[l] = callbacks[m]
    <3>1. CASE m = n
      <4>1. k \in 1..(n - 1) /\ k <= m
        BY <1>3, <1>4, <1>13, <3>1
      <4> QED BY <1>5, <3>1, <4>1, Zenon
    <3>2. CASE m # n
      <4>1. m \in 1..(n - 1) /\ m <= m
        BY <1>3, <3>2
      <4> QED BY <1>5, <1>13, <4>1, Zenon
    <3> QED BY <3>1, <3>2, Zenon
  <2>2. \A j \in 1..l : j \in 1..m /\ j \in 1..(n - 1)
    BY <1>3, <2>1
  <2>3. pc \in Scanning \/ \A j \in 1..l : Clear(j, t)'
    BY <1>10, <1>11, <2>2, Zenon
  <2>4. l \in 1..Len(callbacks')
    BY <1>5, <2>1, Zenon
  <2>5. callbacks'[l].func = v /\ callbacks'[l].target <= t
    BY <1>11, <2>1, Zenon
  <2> QED BY <2>3, <2>4, <2>5, Zenon DEF Waits
<1> QED BY <1>12, <1>13, Zenon

(* A callback that joins the queue does so behind all others. *)
LEMMA PushKept ==
    ASSUME TypeOK, MissInv, NEW w \in Writers, CallRcuPush(w)
    PROVE  StepKeeps
<1>1. PICK e : callbacks' = Append(callbacks, e)
  BY Zenon DEF CallRcuPush
<1>2. freed' = freed /\ task[w].pc = "push" /\ task[w].func = {}
  BY ZenonT(30), Zenon DEF CallRcuPush, MissInv
<1>3. \A x \in Writers : x # w => task'[x] = task[x]
  BY Zenon DEF CallRcuPush, Steps
<1>4. /\ \A j \in 1..Len(callbacks) : j \in 1..Len(callbacks') /\ callbacks'[j] = callbacks[j]
      /\ Len(callbacks) \in Nat
  <2>1. callbacks \in Seq(Callback)
    BY Zenon DEF TypeOK, Callback
  <2>2. PICK v \in task[w].old : callbacks' = Append(callbacks, [target |-> task[w].target, func |-> v])
    BY Zenon DEF CallRcuPush
  <2>3. [target |-> task[w].target, func |-> v] \in Callback
    <3>1. task[w].target \in Nat /\ task[w].old \in SUBSET Versions
      BY Zenon DEF TypeOK
    <3> QED BY <3>1, Zenon DEF Callback
  <2>4. PICK c \in Callback : callbacks' = Append(callbacks, c)
    BY <2>2, <2>3, Zenon
  <2> HIDE DEF Callback
  <2> QED BY <2>1, <2>4
<1>5. \A v : Held(v) => Held(v)'
  <2> SUFFICES ASSUME NEW v, Held(v) PROVE Held(v)'
    OBVIOUS
  <2>1. CASE v \in freed
    BY <1>2, <2>1, Zenon DEF Held
  <2>2. ASSUME NEW x \in Writers, v \in task[x].func PROVE Held(v)'
    <3>1. v \in task'[x].func
      BY <1>2, <1>3, <2>2, Zenon
    <3> QED BY <3>1, Zenon DEF Held
  <2> QED BY <2>1, <2>2, Zenon DEF Held
<1>6. ASSUME NEW t \in Nat, NEW j \in 1..Len(callbacks), Clear(j, t) PROVE Clear(j, t)'
  <2>1. CASE callbacks[j].target > t
    BY <1>4, <2>1, Zenon DEF Clear
  <2>2. ASSUME NEW x \in Writers, Active(x), task[x].i <= j, task[x].target >= t
        PROVE  Clear(j, t)'
    <3>1. x # w
      BY <1>2, <2>2, Zenon DEF Active
    <3>2. task'[x] = task[x]
      BY <1>3, <3>1, Zenon
    <3> QED BY <2>2, <3>2, Zenon DEF Ahead, Active, Clear
  <2> QED BY <1>6, <2>1, <2>2, Zenon DEF Clear, Ahead
<1> SUFFICES ASSUME NEW v, NEW t \in Nat, NEW pc, Waits(v, t, pc)
             PROVE  Waits(v, t, pc)'
  BY <1>5, Zenon DEF StepKeeps
<1>7. PICK k \in 1..Len(callbacks) :
         /\ callbacks[k].func = v
         /\ callbacks[k].target <= t
         /\ pc \in Scanning \/ \A j \in 1..k : Clear(j, t)
  BY Zenon DEF Waits
<1>8. \A j \in 1..k : j \in 1..Len(callbacks)
  BY <1>4, <1>7
<1>9. pc \in Scanning \/ \A j \in 1..k : Clear(j, t)'
  BY <1>6, <1>7, <1>8, Zenon
<1>10. k \in 1..Len(callbacks') /\ callbacks'[k] = callbacks[k]
  BY <1>4, Zenon
<1>11. callbacks'[k].func = v /\ callbacks'[k].target <= t
  BY <1>7, <1>10, Zenon
<1> QED BY <1>9, <1>10, <1>11, Zenon DEF Waits

(* Every step of a writer keeps the callbacks in sight of their callers. *)
LEMMA WriterStepMiss ==
    ASSUME TypeOK, MissInv, NEW w \in Writers, WriterStep(w)
    PROVE  MissInv'
<1>a. \A x \in Writers : task[x].pc # "func" => task[x].func = {}
  BY Zenon DEF MissInv
<1>1. CASE Publish(w)
  <2>1. /\ task[w].pc = "idle" /\ callbacks' = callbacks /\ freed' = freed /\ owed' = owed
        /\ task'[w].pc = "published" /\ task'[w].func = {}
        /\ \A x \in Writers : x # w => task'[x] = task[x]
    BY <1>1, ZenonT(30), Zenon DEF Publish, Steps, Task
  <2>2. ~Active(w) /\ task[w].func = {} /\ OwedOK(w)'
    BY <2>1, <1>a, Zenon DEF Active, OwedOK, Calling
  <2>3. StepKeeps
    BY <2>1, <2>2, PlainKept, Zenon
  <2> QED BY <2>1, <2>2, <2>3, MissUpdate, Zenon
<1>2. CASE Synchronize(w)
  <2>1. /\ task[w].pc \in {"idle", "published"} /\ callbacks' = callbacks /\ freed' = freed
        /\ task'[w].pc = "nesting" /\ task'[w].func = {} /\ task'[w].target = gp + 1
        /\ \A x \in Writers : x # w => task'[x] = task[x]
    BY <1>2, ZenonT(30), Zenon DEF Synchronize, Steps, Task
  <2>2. owed'[w] = Queued(gp + 1) /\ \A x \in Writers : x # w => owed'[x] = owed[x]
    <3>1. owed \in [Writers -> SUBSET Versions] /\ owed' = [owed EXCEPT ![w] = Queued(gp + 1)]
      BY <1>2, Zenon DEF Synchronize, TypeOK
    <3> QED BY <3>1, Zenon
  <2>3. ~Active(w) /\ task[w].func = {}
    BY <2>1, <1>a, Zenon DEF Active
  <2>4. StepKeeps
    BY <2>1, <2>3, PlainKept, Zenon
  <2>5. OwedOK(w)'
    <3> SUFFICES ASSUME NEW v \in owed'[w]
                 PROVE  Waits(v, task[w].target, task[w].pc)'
      BY Zenon DEF OwedOK
    <3>1. PICK k \in 1..Len(callbacks) : callbacks[k].func = v /\ callbacks[k].target <= gp + 1
      BY <2>2, Zenon DEF Queued
    <3>2. task'[w].pc \in Scanning
      BY <2>1, Zenon DEF Scanning
    <3>3. callbacks'[k].target <= task'[w].target
      BY <2>1, <3>1, Zenon
    <3> QED BY <2>1, <3>1, <3>2, <3>3, Zenon DEF Waits
  <2> QED BY <2>1, <2>2, <2>4, <2>5, MissUpdate, Zenon
<1>3. CASE CallRcu(w)
  <2>1. /\ task[w].pc = "published" /\ callbacks' = callbacks /\ freed' = freed /\ owed' = owed
        /\ task'[w].pc = "push" /\ task'[w].func = {}
        /\ \A x \in Writers : x # w => task'[x] = task[x]
    BY <1>3, ZenonT(30), Zenon DEF CallRcu, Steps, Task
  <2>2. ~Active(w) /\ task[w].func = {} /\ OwedOK(w)'
    BY <2>1, <1>a, Zenon DEF Active, OwedOK, Calling
  <2>3. StepKeeps
    BY <2>1, <2>2, PlainKept, Zenon
  <2> QED BY <2>1, <2>2, <2>3, MissUpdate, Zenon
<1>4. CASE LoadNesting(w)
  <2>1. /\ task[w].pc = "nesting" /\ callbacks' = callbacks /\ freed' = freed /\ owed' = owed
        /\ task'[w].pc = "cpu_gp" /\ task'[w].func = {} /\ task'[w].target = task[w].target
        /\ \A x \in Writers : x # w => task'[x] = task[x]
    BY <1>4, ZenonT(30), Zenon DEF LoadNesting, Steps, Task
  <2>2. /\ ~Active(w) /\ task[w].func = {} /\ task[w].pc \in Calling
        /\ task'[w].pc \in Scanning /\ task[w].pc \in Scanning
    BY <2>1, <1>a, Zenon DEF Active, Calling, Scanning
  <2>3. StepKeeps
    BY <2>1, <2>2, PlainKept, Zenon
  <2>4. OwedOK(w)'
    BY <2>1, <2>2, <2>3, OwnDebts, Zenon
  <2> QED BY <2>1, <2>3, <2>4, MissUpdate, Zenon
<1>5. CASE LoadCpuGp(w)
  <2>1. /\ task[w].pc = "cpu_gp" /\ callbacks' = callbacks /\ freed' = freed /\ owed' = owed
        /\ task'[w].func = {} /\ task'[w].target = task[w].target
        /\ task'[w].pc = "nesting" \/ (task'[w].pc = "process" /\ task'[w].i = 1)
        /\ \A x \in Writers : x # w => task'[x] = task[x]
    <3>1. task'[w] = AfterCpu(task[w]) /\ \A x \in Writers : x # w => task'[x] = task[x]
      BY <1>5, Zenon DEF LoadCpuGp, Steps
    <3>2. /\ AfterCpu(task[w]).func = {} /\ AfterCpu(task[w]).target = task[w].target
          /\ \/ AfterCpu(task[w]).pc = "nesting"
             \/ AfterCpu(task[w]).pc = "process" /\ AfterCpu(task[w]).i = 1
      BY ZenonT(30), Zenon DEF AfterCpu, Task
    <3>3. task[w].pc = "cpu_gp" /\ callbacks' = callbacks /\ freed' = freed /\ owed' = owed
      BY <1>5, Zenon DEF LoadCpuGp
    <3> QED BY <3>1, <3>2, <3>3, Zenon
  <2>2. ~Active(w) /\ task[w].func = {} /\ task[w].pc \in Calling /\ task[w].pc \in Scanning
    BY <2>1, <1>a, Zenon DEF Active, Calling, Scanning
  <2>3. StepKeeps
    BY <2>1, <2>2, PlainKept, Zenon
  <2>4. CASE task'[w].pc = "nesting"
    <3>1. task'[w].pc \in Scanning
      BY <2>4, Zenon DEF Scanning
    <3>2. OwedOK(w)'
      BY <2>1, <2>2, <2>3, <3>1, OwnDebts, Zenon
    <3> QED BY <2>1, <2>3, <3>2, MissUpdate, Zenon
  <2>5. CASE task'[w].pc = "process" /\ task'[w].i = 1
    <3>1. OwedOK(w)'
      <4> SUFFICES ASSUME NEW v \in owed[w]
                   PROVE  (Held(v) \/ Waits(v, task[w].target, task[w].pc))'
        BY <2>1, Zenon DEF OwedOK
      <4>2. PICK t \in Nat : t = task[w].target
        BY Zenon DEF TypeOK
      <4>3. PICK pc : pc = task[w].pc
        BY Zenon
      <4>4. Held(v) \/ Waits(v, t, pc)
        BY <2>2, <4>2, <4>3, Zenon DEF MissInv, OwedOK
      <4>5. (Held(v) \/ Waits(v, t, pc))'
        BY <2>3, <4>4, Zenon DEF StepKeeps
      <4>6. CASE Held(v)'
        BY <4>6, Zenon
      <4>7. CASE Waits(v, t, pc)'
        <5>1. PICK k \in 1..Len(callbacks') : callbacks'[k].func = v /\ callbacks'[k].target <= t
          BY <4>7, Zenon DEF Waits
        <5>2. ASSUME NEW j \in 1..k PROVE Clear(j, t)'
          <6>1. 1 <= j /\ t >= t
            OBVIOUS
          <6>2. Active(w)' /\ task'[w].i <= j /\ task'[w].target >= t
            BY <2>1, <2>5, <4>2, <6>1, Zenon DEF Active
          <6>3. Ahead(j, t)'
            BY <6>2, Zenon DEF Ahead
          <6> QED BY <6>3, Zenon DEF Clear
        <5>3. t = task'[w].target
          BY <2>1, <4>2, Zenon
        <5>4. \A j \in 1..k : Clear(j, task[w].target)'
          BY <5>2, <5>3, Zenon DEF Clear, Ahead
        <5>5. callbacks'[k].target <= task'[w].target
          BY <5>1, <5>3, Zenon
        <5> QED BY <5>1, <5>4, <5>5, Zenon DEF Waits
      <4> QED BY <4>5, <4>6, <4>7, Zenon
    <3> QED BY <2>1, <2>3, <3>1, MissUpdate, Zenon
  <2> QED BY <2>1, <2>4, <2>5, Zenon
<1>6. CASE TakeCallback(w)
  <2>1. /\ task[w].pc = "process" /\ owed' = owed
        /\ task'[w].pc = "func" /\ task'[w].target = task[w].target
        /\ \A x \in Writers : x # w => task'[x] = task[x]
    <3>1. PICK k, f : Steps(w, Task("func", task[w].old, task[w].target, 0, 0, k, f))
      BY <1>6, ZenonT(30), Zenon DEF TakeCallback
    <3>2. task[w].pc = "process" /\ owed' = owed
      BY <1>6, ZenonT(30), Zenon DEF TakeCallback
    <3> QED BY <3>1, <3>2, Zenon DEF Steps, Task
  <2>2. task[w].pc \in Calling /\ task[w].pc \notin Scanning /\ task'[w].pc \notin Scanning
    BY <2>1, Zenon DEF Calling, Scanning
  <2>3. StepKeeps
    BY <1>6, TakeKept, Zenon
  <2>4. OwedOK(w)'
    BY <2>1, <2>2, <2>3, OwnDebts, Zenon
  <2> QED BY <2>1, <2>3, <2>4, MissUpdate, Zenon
<1>7. CASE RunCallback(w)
  <2>1. /\ task[w].pc = "func" /\ callbacks' = callbacks /\ owed' = owed
        /\ freed' = freed \union task[w].func
        /\ task'[w].pc = "process" /\ task'[w].func = {} /\ task'[w].target = task[w].target
        /\ task'[w].i = task[w].i
        /\ \A x \in Writers : x # w => task'[x] = task[x]
    BY <1>7, ZenonT(30), Zenon DEF RunCallback, Steps, Task
  <2>2. /\ Active(w)' /\ task[w].pc \in Calling
        /\ task[w].pc \notin Scanning /\ task'[w].pc \notin Scanning
    BY <2>1, Zenon DEF Active, Calling, Scanning
  <2>3. StepKeeps
    <3>1. freed \subseteq freed' /\ task[w].func \subseteq task'[w].func \union freed'
      BY <2>1, Zenon
    <3> QED BY <2>1, <2>2, <3>1, PlainKept, Zenon
  <2>4. OwedOK(w)'
    BY <2>1, <2>2, <2>3, OwnDebts, Zenon
  <2> QED BY <2>1, <2>3, <2>4, MissUpdate, Zenon
<1>8. CASE SynchronizeReturn(w)
  <2>1. /\ task[w].pc = "process" /\ owed' = owed
        /\ task'[w].pc = "reclaim" /\ task'[w].func = {} /\ task'[w].target = task[w].target
        /\ \A x \in Writers : x # w => task'[x] = task[x]
    BY <1>8, ZenonT(30), Zenon DEF SynchronizeReturn, Steps, Task
  <2>2. task[w].pc \in Calling /\ task[w].pc \notin Scanning /\ task'[w].pc \notin Scanning
    BY <2>1, Zenon DEF Calling, Scanning
  <2>3. StepKeeps
    BY <1>8, ReturnKept, Zenon
  <2>4. OwedOK(w)'
    BY <2>1, <2>2, <2>3, OwnDebts, Zenon
  <2> QED BY <2>1, <2>3, <2>4, MissUpdate, Zenon
<1>9. CASE Reclaim(w)
  <2>1. /\ task[w].pc = "reclaim" /\ callbacks' = callbacks /\ owed' = owed
        /\ freed' = freed \union task[w].old
        /\ task'[w].pc = "idle" /\ task'[w].func = {}
        /\ \A x \in Writers : x # w => task'[x] = task[x]
    BY <1>9, ZenonT(30), Zenon DEF Reclaim, Steps, IdleTask, Task
  <2>2. ~Active(w) /\ task[w].func = {} /\ OwedOK(w)' /\ freed \subseteq freed'
    BY <2>1, <1>a, Zenon DEF Active, OwedOK, Calling
  <2>3. StepKeeps
    BY <2>1, <2>2, PlainKept, Zenon
  <2> QED BY <2>1, <2>2, <2>3, MissUpdate, Zenon
<1>10. CASE CallRcuPush(w)
  <2>1. /\ owed' = owed /\ task'[w].pc = "idle" /\ task'[w].func = {}
        /\ \A x \in Writers : x # w => task'[x] = task[x]
    BY <1>10, ZenonT(30), Zenon DEF CallRcuPush, Steps, IdleTask, Task
  <2>2. OwedOK(w)'
    BY <2>1, Zenon DEF OwedOK, Calling
  <2>3. StepKeeps
    BY <1>10, PushKept, Zenon
  <2> QED BY <2>1, <2>2, <2>3, MissUpdate, Zenon
<1> QED
  BY <1>1, <1>2, <1>3, <1>4, <1>5, <1>6, <1>7, <1>8, <1>9, <1>10, Zenon DEF WriterStep, Proceed

(* No callback is missed: when synchronize_rcu returns, each callback that *)
(* was queued when it began has run, is running, or is ahead of another    *)
(* caller of process_callbacks that will take it, whatever the callers do  *)
(* to the queue under one another with swap_remove.                        *)
THEOREM NoCallbackMissed == Spec => []NoneMissed
<1>1. Init => MissInv
  <2> SUFFICES ASSUME Init PROVE MissInv
    OBVIOUS
  <2>1. \A w \in Writers : task[w].pc = "idle" /\ task[w].func = {}
    BY ZenonT(30), Zenon DEF Init, IdleTask, Task
  <2> QED BY <2>1, Zenon DEF MissInv, OwedOK, Calling
<1>2. IInv /\ MissInv /\ [Next]_vars => MissInv'
  <2> SUFFICES ASSUME IInv, MissInv, [Next]_vars PROVE MissInv'
    OBVIOUS
  <2>1. ASSUME NEW w \in Writers, WriterStep(w) PROVE MissInv'
    <3>1. TypeOK
      BY Zenon DEF IInv
    <3> QED BY <2>1, <3>1, WriterStepMiss, Zenon
  <2>2. CASE UNCHANGED <<task, callbacks, freed, owed>>
    <3>1. task' = task /\ callbacks' = callbacks /\ freed' = freed /\ owed' = owed
      BY <2>2, Zenon
    <3>2. \A v : Held(v)' <=> Held(v)
      BY <3>1, Zenon DEF Held
    <3>3. \A j, t : Ahead(j, t)' <=> Ahead(j, t)
      BY <3>1, Zenon DEF Ahead, Active
    <3>4. \A j, t : Clear(j, t)' <=> Clear(j, t)
      BY <3>1, <3>3, Zenon DEF Clear
    <3>5. \A v, t, pc : Waits(v, t, pc)' <=> Waits(v, t, pc)
      BY <3>1, <3>4, Zenon DEF Waits
    <3>6. ASSUME NEW x \in Writers PROVE OwedOK(x)'
      <4>1. OwedOK(x)
        BY Zenon DEF MissInv
      <4>2. \A v : Waits(v, task[x].target, task[x].pc)' <=> Waits(v, task[x].target, task[x].pc)
        <5>1. PICK t, pc : t = task[x].target /\ pc = task[x].pc
          BY Zenon
        <5>2. t = task'[x].target /\ pc = task'[x].pc
          BY <3>1, <5>1, Zenon
        <5> QED BY <3>1, <3>4, <5>1, <5>2, Zenon DEF Waits, Clear, Ahead, Active
      <4> QED BY <3>1, <3>2, <4>1, <4>2, Zenon DEF OwedOK
    <3> QED BY <3>1, <3>6, Zenon DEF MissInv
  <2>3. ASSUME NEW c \in Online, CpuStep(c) PROVE UNCHANGED <<task, callbacks, freed, owed>>
    BY <2>3, Zenon DEF CpuStep, ReadLock, Dereference, ReadUnlock, QuiescentLoad, QuiescentStore
  <2>4. vars' = vars => UNCHANGED <<task, callbacks, freed, owed>>
    BY Zenon DEF vars
  <2> QED BY <2>1, <2>2, <2>3, <2>4, Zenon DEF Next
<1>3. IInv /\ MissInv => NoneMissed
  <2> SUFFICES ASSUME IInv, MissInv, NEW w \in Writers, task[w].pc = "reclaim", NEW v \in owed[w]
               PROVE  \/ Held(v)
                      \/ \E x \in Writers, k \in 1..Len(callbacks) :
                            callbacks[k].func = v /\ WillTake(x, k)
    BY Zenon DEF NoneMissed, Held
  <2>1. Held(v) \/ Waits(v, task[w].target, "reclaim")
    BY Zenon DEF MissInv, OwedOK, Calling
  <2> SUFFICES ASSUME Waits(v, task[w].target, "reclaim")
               PROVE  \E x \in Writers, k \in 1..Len(callbacks) :
                         callbacks[k].func = v /\ WillTake(x, k)
    BY <2>1, Zenon
  <2>2. PICK k \in 1..Len(callbacks) :
           /\ callbacks[k].func = v
           /\ callbacks[k].target <= task[w].target
           /\ \A j \in 1..k : Clear(j, task[w].target)
    BY Zenon DEF Waits, Scanning
  <2>3. TypeOK /\ task[w].target \in Nat /\ callbacks[k].target \in Nat /\ Len(callbacks) \in Nat
    <3>1. TypeOK
      BY Zenon DEF IInv
    <3>2. task[w].target \in Nat
      BY <3>1, Zenon DEF TypeOK
    <3>3. Len(callbacks) \in Nat
      BY <3>1 DEF TypeOK
    <3> QED BY <3>1, <3>2, <3>3, QueueType, Zenon
  <2>4. k \in 1..k /\ ~(callbacks[k].target > task[w].target)
    BY <2>2, <2>3
  <2>5. PICK x \in Writers : Active(x) /\ task[x].i <= k /\ task[x].target >= task[w].target
    BY <2>2, <2>4, Zenon DEF Clear, Ahead
  <2>6. task[x].target \in Nat
    BY <2>3, Zenon DEF TypeOK
  <2>7. callbacks[k].target <= task[x].target
    BY <2>2, <2>3, <2>5, <2>6
  <2> QED BY <2>2, <2>5, <2>7, Zenon DEF WillTake, Active
<1> QED BY <1>1, <1>2, <1>3, InitIInv, NextIInv, PTL DEF Spec
=============================================================================
