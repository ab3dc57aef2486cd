-------------------------------- MODULE Rcu --------------------------------
(***************************************************************************)
(* Read-copy-update, sync/rcu.rs: the per-CPU nesting counters, the        *)
(* grace-period counter, synchronize_rcu at the grain of its loads,        *)
(* call_rcu and the queue of deferred callbacks.                           *)
(*                                                                         *)
(* The client is the one the module's header describes: one shared pointer *)
(* (current), readers that follow it inside a read-side section, writers   *)
(* that replace it and have the version they took out reclaimed, either    *)
(* after synchronize_rcu or by a callback.  Memory is sequentially         *)
(* consistent and a section ends on the CPU it began on.                   *)
(***************************************************************************)
EXTENDS Integers, Sequences, FiniteSets

CONSTANTS RCU_MAX_CPUS,     \* the CPUs synchronize_rcu scans are 0..RCU_MAX_CPUS-1
          Online,           \* those for which smp::per_cpu answers
          Writers,          \* tasks that update the structure
          Versions,         \* what the shared pointer may point to
          FirstVersion,     \* what it points to at boot
          MaxNest,          \* bound on the depth of a section
          MaxGp             \* bound on the grace-period counter

ASSUME RcuAssumption ==
    /\ RCU_MAX_CPUS \in Nat \ {0}
    /\ Online \subseteq 0..(RCU_MAX_CPUS - 1)
    /\ 0 \in Online
    /\ FirstVersion \in Versions
    /\ MaxNest \in Nat
    /\ MaxGp \in Nat

VARIABLES nesting,          \* RCU_NESTING
          gp,               \* RCU_GP_COUNTER
          cpuGp,            \* RCU_CPU_GP
          callbacks,        \* RCU_CALLBACKS
          report,           \* the counter rcu_quiescent has loaded on a CPU and not stored yet
          task,             \* where each writer stands, and its locals
          current,          \* the shared pointer
          holds,            \* the versions the section open on a CPU has obtained
          fresh,            \* versions never published
          freed,            \* versions reclaimed
          owed              \* the callbacks queued when a writer's latest
                            \* synchronize_rcu began

vars == <<nesting, gp, cpuGp, callbacks, report, task, current, holds, fresh, freed, owed>>

CPUs == 0..(RCU_MAX_CPUS - 1)
NoReport == -1

(* A writer: the version it has to dispose of, the grace period it waits   *)
(* for, the CPU and the nesting depth synchronize_rcu has in hand, and the *)
(* index and the callback of process_callbacks.                            *)
Task(pc, old, target, cpu, depth, i, func) ==
    [pc |-> pc, old |-> old, target |-> target, cpu |-> cpu,
     depth |-> depth, i |-> i, func |-> func]

IdleTask == Task("idle", {}, 0, 0, 0, 1, {})

Steps(w, t) == task' = [x \in Writers |-> IF x = w THEN t ELSE task[x]]

Init ==
    /\ nesting = [c \in CPUs |-> 0]
    /\ gp = 0
    /\ cpuGp = [c \in CPUs |-> 0]
    /\ callbacks = <<>>
    /\ report = [c \in CPUs |-> NoReport]
    /\ task = [w \in Writers |-> IdleTask]
    /\ current = FirstVersion
    /\ holds = [c \in CPUs |-> {}]
    /\ fresh = Versions \ {FirstVersion}
    /\ freed = {}
    /\ owed = [w \in Writers |-> {}]

-----------------------------------------------------------------------------
(* Readers.  rcu_quiescent is straight-line code of a CPU, so no section   *)
(* begins there between its load and its store.                            *)

ReadLock(c) ==
    /\ report[c] = NoReport
    /\ nesting[c] < MaxNest
    /\ nesting' = [nesting EXCEPT ![c] = @ + 1]
    /\ UNCHANGED <<gp, cpuGp, callbacks, report, task, current, holds, fresh, freed, owed>>

(* The reader follows the shared pointer. *)
Dereference(c) ==
    /\ report[c] = NoReport
    /\ nesting[c] > 0
    /\ holds' = [holds EXCEPT ![c] = @ \union {current}]
    /\ UNCHANGED <<nesting, gp, cpuGp, callbacks, report, task, current, fresh, freed, owed>>

(* What a section has obtained is usable until the outermost unlock. *)
ReadUnlock(c) ==
    /\ report[c] = NoReport
    /\ nesting[c] > 0
    /\ nesting' = [nesting EXCEPT ![c] = @ - 1]
    /\ holds' = [holds EXCEPT ![c] = IF nesting[c] = 1 THEN {} ELSE @]
    /\ UNCHANGED <<gp, cpuGp, callbacks, report, task, current, fresh, freed, owed>>

(* Variant: the counter of the grace period before is reported. *)
QuiescentLoadBehind(c) ==
    /\ report[c] = NoReport
    /\ nesting[c] = 0
    /\ report' = [report EXCEPT ![c] = IF gp = 0 THEN 0 ELSE gp - 1]
    /\ UNCHANGED <<nesting, gp, cpuGp, callbacks, task, current, holds, fresh, freed, owed>>

(* rcu_quiescent, called around a context switch: the load of the counter  *)
(* and the store to the CPU's slot are two accesses.                       *)
QuiescentLoad(c) ==
    /\ report[c] = NoReport
    /\ nesting[c] = 0
    /\ report' = [report EXCEPT ![c] = gp]
    /\ UNCHANGED <<nesting, gp, cpuGp, callbacks, task, current, holds, fresh, freed, owed>>

QuiescentStore(c) ==
    /\ report[c] # NoReport
    /\ cpuGp' = [cpuGp EXCEPT ![c] = report[c]]
    /\ report' = [report EXCEPT ![c] = NoReport]
    /\ UNCHANGED <<nesting, gp, callbacks, task, current, holds, fresh, freed, owed>>

-----------------------------------------------------------------------------
(* Writers. *)

(* The writer swaps the shared pointer and now owns the old version. *)
Publish(w) ==
    /\ task[w].pc = "idle"
    /\ \E v \in fresh :
          /\ current' = v
          /\ fresh' = fresh \ {v}
    /\ Steps(w, Task("published", {current}, 0, 0, 0, 1, {}))
    /\ UNCHANGED <<nesting, gp, cpuGp, callbacks, report, holds, freed, owed>>

(* The versions in the queue whose callbacks grace period t covers. *)
Queued(t) ==
    {callbacks[k].func : k \in {j \in 1..Len(callbacks) : callbacks[j].target <= t}}

(* synchronize_rcu begins: with a version to reclaim, or only to wait. *)
Synchronize(w) ==
    /\ task[w].pc \in {"idle", "published"}
    /\ gp < MaxGp
    /\ gp' = gp + 1
    /\ Steps(w, Task("nesting", task[w].old, gp + 1, 0, 0, 1, {}))
    /\ owed' = [owed EXCEPT ![w] = Queued(gp + 1)]
    /\ UNCHANGED <<nesting, cpuGp, callbacks, report, current, holds, fresh, freed>>

LoadNesting(w) ==
    /\ task[w].pc = "nesting"
    /\ Steps(w, Task("cpu_gp", task[w].old, task[w].target, task[w].cpu,
                     nesting[task[w].cpu], 1, {}))
    /\ UNCHANGED <<nesting, gp, cpuGp, callbacks, report, current, holds, fresh, freed, owed>>

(* The CPU in hand is not quiescent: it is inside a section or has not     *)
(* seen this grace period, and it exists.                                  *)
NotQuiescent(t) ==
    /\ t.depth > 0 \/ cpuGp[t.cpu] < t.target
    /\ t.cpu \in Online

(* The scan starts over, takes the next CPU, or is complete. *)
AfterCpu(t) ==
    IF NotQuiescent(t) THEN Task("nesting", t.old, t.target, 0, 0, 1, {})
    ELSE IF t.cpu < RCU_MAX_CPUS - 1 THEN Task("nesting", t.old, t.target, t.cpu + 1, 0, 1, {})
    ELSE Task("process", t.old, t.target, 0, 0, 1, {})

LoadCpuGp(w) ==
    /\ task[w].pc = "cpu_gp"
    /\ Steps(w, AfterCpu(task[w]))
    /\ UNCHANGED <<nesting, gp, cpuGp, callbacks, report, current, holds, fresh, freed, owed>>

(* Vec::swap_remove: the last element takes the place of the removed one. *)
SwapRemove(s, i) ==
    [k \in 1..(Len(s) - 1) |-> IF k = i THEN s[Len(s)] ELSE s[k]]

(* The first callback at or after index i that the grace period t covers. *)
FirstReady(i, t) ==
    {k \in i..Len(callbacks) :
        /\ callbacks[k].target <= t
        /\ \A j \in i..(k - 1) : callbacks[j].target > t}

(* Variant: the callback is run in place, without leaving the queue. *)
TakeCallbackKeep(w) ==
    /\ task[w].pc = "process"
    /\ \E k \in FirstReady(task[w].i, task[w].target) :
          Steps(w, Task("func", task[w].old, task[w].target, 0, 0, k + 1, {callbacks[k].func}))
    /\ UNCHANGED <<nesting, gp, cpuGp, callbacks, report, current, holds, fresh, freed, owed>>

(* Variant: the loop steps over the element that swap_remove moved.  *)
TakeCallbackSkip(w) ==
    /\ task[w].pc = "process"
    /\ \E k \in FirstReady(task[w].i, task[w].target) :
          /\ callbacks' = SwapRemove(callbacks, k)
          /\ Steps(w, Task("func", task[w].old, task[w].target, 0, 0, k + 1, {callbacks[k].func}))
    /\ UNCHANGED <<nesting, gp, cpuGp, report, current, holds, fresh, freed, owed>>

(* process_callbacks under its lock: the loop passes the callbacks that    *)
(* are not due and takes out the next one that is.                         *)
TakeCallback(w) ==
    /\ task[w].pc = "process"
    /\ \E k \in FirstReady(task[w].i, task[w].target) :
          /\ callbacks' = SwapRemove(callbacks, k)
          /\ Steps(w, Task("func", task[w].old, task[w].target, 0, 0, k, {callbacks[k].func}))
    /\ UNCHANGED <<nesting, gp, cpuGp, report, current, holds, fresh, freed, owed>>

(* The lock is dropped while the callback runs. *)
RunCallback(w) ==
    /\ task[w].pc = "func"
    /\ freed' = freed \union task[w].func
    /\ Steps(w, Task("process", task[w].old, task[w].target, 0, 0, task[w].i, {}))
    /\ UNCHANGED <<nesting, gp, cpuGp, callbacks, report, current, holds, fresh, owed>>

(* The loop is over and synchronize_rcu returns; the caller reclaims. *)
SynchronizeReturn(w) ==
    /\ task[w].pc = "process"
    /\ FirstReady(task[w].i, task[w].target) = {}
    /\ Steps(w, Task("reclaim", task[w].old, task[w].target, 0, 0, 1, {}))
    /\ UNCHANGED <<nesting, gp, cpuGp, callbacks, report, current, holds, fresh, freed, owed>>

Reclaim(w) ==
    /\ task[w].pc = "reclaim"
    /\ freed' = freed \union task[w].old
    /\ Steps(w, IdleTask)
    /\ UNCHANGED <<nesting, gp, cpuGp, callbacks, report, current, holds, fresh, owed>>

(* Variant: the grace period that is running counts as the next one. *)
CallRcuEarly(w) ==
    /\ task[w].pc = "published"
    /\ Steps(w, Task("push", task[w].old, gp, 0, 0, 1, {}))
    /\ UNCHANGED <<nesting, gp, cpuGp, callbacks, report, current, holds, fresh, freed, owed>>

(* call_rcu loads the counter before it has the lock of the queue. *)
CallRcu(w) ==
    /\ task[w].pc = "published"
    /\ Steps(w, Task("push", task[w].old, gp + 1, 0, 0, 1, {}))
    /\ UNCHANGED <<nesting, gp, cpuGp, callbacks, report, current, holds, fresh, freed, owed>>

CallRcuPush(w) ==
    /\ task[w].pc = "push"
    /\ \E v \in task[w].old :
          callbacks' = Append(callbacks, [target |-> task[w].target, func |-> v])
    /\ Steps(w, IdleTask)
    /\ UNCHANGED <<nesting, gp, cpuGp, report, current, holds, fresh, freed, owed>>

-----------------------------------------------------------------------------
CpuStep(c) ==
    \/ ReadLock(c)
    \/ Dereference(c)
    \/ ReadUnlock(c)
    \/ QuiescentLoad(c)
    \/ QuiescentStore(c)

(* The steps of a call that has begun. *)
Proceed(w) ==
    \/ LoadNesting(w)
    \/ LoadCpuGp(w)
    \/ TakeCallback(w)
    \/ RunCallback(w)
    \/ SynchronizeReturn(w)
    \/ Reclaim(w)
    \/ CallRcuPush(w)

WriterStep(w) ==
    \/ Publish(w)
    \/ Synchronize(w)
    \/ CallRcu(w)
    \/ Proceed(w)

Next ==
    \/ \E c \in Online : CpuStep(c)
    \/ \E w \in Writers : WriterStep(w)

Spec == Init /\ [][Next]_vars

(* A writer inside a call keeps running.  Nothing makes a CPU report: its  *)
(* rcu_quiescent runs when the scheduler resumes a task there, which a     *)
(* caller that spins in synchronize_rcu may keep from happening.           *)
FairSpec == Spec /\ \A w \in Writers : WF_vars(Proceed(w))

-----------------------------------------------------------------------------
(* Properties. *)

PCs == {"idle", "published", "nesting", "cpu_gp", "process", "func", "reclaim", "push"}

(* The counters, slots and locals of rcu.rs have their types. *)
TypeOK ==
    /\ nesting \in [CPUs -> Nat]
    /\ gp \in Nat
    /\ cpuGp \in [CPUs -> Nat]
    /\ report \in [CPUs -> Nat \union {NoReport}]
    /\ callbacks \in Seq([target : Nat, func : Versions])
    /\ task \in [Writers -> [pc : PCs, old : SUBSET Versions, target : Nat, cpu : CPUs,
                             depth : Nat, i : Nat \ {0}, func : SUBSET Versions]]
    /\ current \in Versions
    /\ holds \in [CPUs -> SUBSET Versions]
    /\ fresh \subseteq Versions
    /\ freed \subseteq Versions
    /\ owed \in [Writers -> SUBSET Versions]

(* After synchronize_rcu has returned, or when a deferred callback runs,   *)
(* no reader that could still see the version is inside its section: what  *)
(* a section has obtained is not reclaimed before the section ends.        *)
GracePeriod ==
    /\ current \notin freed
    /\ \A c \in CPUs : holds[c] \cap freed = {}

InQueue == {callbacks[k].func : k \in 1..Len(callbacks)}

(* A version taken out has exactly one place that will reclaim it: its     *)
(* writer, the queue, or the caller of process_callbacks that took it out  *)
(* of the queue while the lock was dropped; and it is reclaimed once.      *)
OneDisposer ==
    /\ \A j, k \in 1..Len(callbacks) : callbacks[j].func = callbacks[k].func => j = k
    /\ \A w \in Writers :
          /\ (task[w].old \union task[w].func) \cap (freed \union InQueue) = {}
          /\ task[w].old \cap task[w].func = {}
    /\ \A w, x \in Writers :
          w # x => (task[w].old \union task[w].func) \cap (task[x].old \union task[x].func) = {}
    /\ InQueue \cap freed = {}

Quiet == \A c \in CPUs : nesting[c] = 0

(* synchronize_rcu returns when the sections end for good and every online *)
(* CPU, the caller's included, completes rcu_quiescent again and again:    *)
(* the reports of the CPUs, each a load and a store, are seen by every     *)
(* scan in progress, CPUs that do not exist do not hold it up, and the     *)
(* callbacks are worked off.                                               *)
Reporting == \A c \in Online : []<><<QuiescentStore(c)>>_vars
SynchronizeReturns ==
    (<>[]Quiet /\ Reporting) =>
        \A w \in Writers : (task[w].pc = "nesting") ~> (task[w].pc = "idle")

(* The comment of synchronize_rcu, "On a single-CPU system, if we're not   *)
(* in an RCU read section, we're already past a quiescent point": with one *)
(* CPU the end of the sections suffices.                                   *)
QuietSuffices ==
    <>[]Quiet => \A w \in Writers : (task[w].pc = "nesting") ~> (task[w].pc = "idle")

(* Caller x of process_callbacks still has the callback at index k ahead   *)
(* of it and will take it.                                                 *)
WillTake(x, k) ==
    /\ task[x].pc \in {"process", "func"}
    /\ task[x].i <= k
    /\ callbacks[k].target <= task[x].target

(* When synchronize_rcu returns, every callback that was queued when it    *)
(* began has run, is running, or is ahead of another caller that will take *)
(* it: swap_remove, applied by callers at different places in the queue    *)
(* and for different grace periods, never moves a callback to where every  *)
(* caller it is due for has been already.                                  *)
NoneMissed ==
    \A w \in Writers : task[w].pc = "reclaim" =>
        \A v \in owed[w] :
            \/ v \in freed
            \/ \E x \in Writers : v \in task[x].func
            \/ \E x \in Writers, k \in 1..Len(callbacks) :
                  callbacks[k].func = v /\ WillTake(x, k)
=============================================================================
