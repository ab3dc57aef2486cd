----------------------------- MODULE CapManager -----------------------------
(***************************************************************************)
(* The capability manager (kernel/src/cap/manager.rs) with the paths that  *)
(* call it: creation, checks, transfer with an IPC message                 *)
(* (ipc/cap_transfer.rs), sharing, revocation, fork and exit.              *)
(*                                                                         *)
(* Every operation holds the mutex of its process's capability space       *)
(* (call[p] is the operation in progress under the mutex of p's space) and *)
(* reads or writes the global registry under a lock of its own, so other   *)
(* processes' steps fall between a look into the space and a look into the *)
(* registry.  An operation that fails early changes nothing and is left    *)
(* out.  Three variables only observe: minted, late and cloned.            *)
(***************************************************************************)
EXTENDS CapSpace

CONSTANTS Procs,    \* process slots, each holding one process at a time
          NoProc,   \* no process
          MaxId,    \* bound on ids: MAX_CAP_ID
          Minted,   \* sets of rights capabilities are created with
          Shared    \* sets of rights a share asks for

ASSUME CapManagerAssumption ==
    /\ NoProc \notin Procs
    /\ MaxId \in Nat \ {0}
    /\ Objects # {}
    /\ "grant" \in RightSet
    /\ Minted \subseteq SUBSET RightSet
    /\ Shared \subseteq SUBSET RightSet

VARIABLES
    spaces,     \* the capability space of each process
    status,     \* unused, live or zombie
    registry,   \* the manager's entry of each id; registered: it has one
    next_id,    \* IdAllocator::next_id
    call,       \* the operation that holds the mutex of each space
    forks,      \* <<parent, child>> pairs between fork_process and inheritance
    minted,     \* the rights each id was created with
    late,       \* kinds of operations that succeeded on an id revoked before they began
    cloned      \* processes whose table clone_from filled

vars == <<spaces, status, registry, next_id, call, forks, minted, late, cloned>>

Ids == 1 .. MaxId
SomeObject == CHOOSE o \in Objects : TRUE
RegistryEntries == [registered : BOOLEAN, object : Objects,
                    generation : 0 .. 255, revoked : BOOLEAN]
Unregistered == [registered |-> FALSE, object |-> SomeObject,
                 generation |-> 0, revoked |-> FALSE]
NoToken == [id |-> 0, type |-> 0, flags |-> {}]

PCs == {"idle", "register", "insert", "check_valid", "transfer_valid",
        "lock_target", "delegate", "delegate_insert", "lock_child"}

Calls == [pc : PCs, token : Tokens, obj : Objects, rights : SUBSET RightSet,
          peer : Procs \cup {NoProc}, stale : BOOLEAN]

\* An operation: where it is, its token, the object and rights it creates or
\* passes on, the other process, and whether the id was revoked at its start.
Idle == [pc |-> "idle", token |-> NoToken, obj |-> SomeObject,
         rights |-> {}, peer |-> NoProc, stale |-> FALSE]

IsRevoked(id) == registry[id].registered /\ registry[id].revoked

\* Variant: any registered id is valid.
IsValidRegistered(id) == registry[id].registered

\* is_valid: registered, not revoked, and of the token's generation, 0.
IsValid(id) ==
    /\ registry[id].registered
    /\ ~registry[id].revoked
    /\ registry[id].generation = 0

\* The mutex of p's space is free.
Unlocked(p) ==
    /\ call[p].pc = "idle"
    /\ \A q \in Procs : ~(call[q].pc \in {"delegate", "delegate_insert"} /\ call[q].peer = p)

\* The token and rights of an entry p holds.
HeldTokens(p) == {spaces[p].table[s].token : s \in Filled(spaces[p])}

At(p, pc) == call[p].pc = pc
Goto(p, pc) == call' = [call EXCEPT ![p].pc = pc]
Return(p) == call' = [call EXCEPT ![p] = Idle]

Init ==
    /\ spaces = [p \in Procs |-> EmptySpace]
    /\ \E first \in Procs :
          status = [p \in Procs |-> IF p = first THEN "live" ELSE "unused"]
    /\ registry = [id \in Ids |-> Unregistered]
    /\ next_id = 1
    /\ call = [p \in Procs |-> Idle]
    /\ forks = {}
    /\ minted = [id \in Ids |-> {}]
    /\ late = {}
    /\ cloned = {}

-----------------------------------------------------------------------------
(* create_capability: take an id, register it, insert it in the space.     *)

\* Variant: the counter is read but not advanced.
AllocateSame == next_id <= MaxId /\ next_id' = next_id

\* IdAllocator::allocate on an empty recycle set; past MaxId it fails.
AllocateId == next_id <= MaxId /\ next_id' = next_id + 1

CreateAllocate(p, obj, rights) ==
    /\ status[p] = "live"
    /\ Unlocked(p)
    /\ AllocateId
    /\ call' = [call EXCEPT ![p] = [Idle EXCEPT !.pc = "register", !.obj = obj,
                                       !.token = Token(next_id, obj, rights),
                                       !.rights = rights]]
    /\ UNCHANGED <<spaces, status, registry, forks, minted, late, cloned>>

CreateRegister(p) ==
    LET id == call[p].token.id IN
    /\ At(p, "register")
    /\ registry' = [registry EXCEPT ![id] =
                       [registered |-> TRUE, object |-> call[p].obj,
                        generation |-> 0, revoked |-> FALSE]]
    /\ minted' = [minted EXCEPT ![id] = call[p].rights]
    /\ Goto(p, "insert")
    /\ UNCHANGED <<spaces, status, next_id, forks, late, cloned>>

\* A refused insert leaves the registry entry behind.
CreateInsert(p) ==
    /\ At(p, "insert")
    /\ spaces' = [spaces EXCEPT ![p] =
                     Insert(@, call[p].token, call[p].obj, call[p].rights)]
    /\ Return(p)
    /\ UNCHANGED <<status, registry, next_id, forks, minted, late, cloned>>

-----------------------------------------------------------------------------
(* check_capability: the space first, then the registry.                   *)

CheckBegin(p, t, required) ==
    /\ status[p] = "live"
    /\ Unlocked(p)
    /\ CheckRights(spaces[p], t, required)
    /\ call' = [call EXCEPT ![p] = [Idle EXCEPT !.pc = "check_valid", !.token = t,
                                       !.stale = IsRevoked(t.id)]]
    /\ UNCHANGED <<spaces, status, registry, next_id, forks, minted, late, cloned>>

CheckValid(p) ==
    /\ At(p, "check_valid")
    /\ late' = IF IsValid(call[p].token.id) /\ call[p].stale
               THEN late \cup {"check"} ELSE late
    /\ Return(p)
    /\ UNCHANGED <<spaces, status, registry, next_id, forks, minted, cloned>>

\* System calls that only look through the caller's own table for an entry with
\* the rights they need (mount, package management, priorities).
TableCheck(p, t, required) ==
    /\ status[p] = "live"
    /\ Unlocked(p)
    /\ CheckRights(spaces[p], t, required)
    /\ late' = IF IsRevoked(t.id) THEN late \cup {"table"} ELSE late
    /\ UNCHANGED <<spaces, status, registry, next_id, call, forks, minted, cloned>>

-----------------------------------------------------------------------------
(* transfer_capability and share_memory_capability: check for GRANT, lock  *)
(* the target's space, then CapabilityManager::delegate.  A transfer asks  *)
(* for the sender's rights without GRANT, a share for some given rights.   *)

Requested(p, t) == {RightsOf(spaces[p], t) \ {"grant"}} \cup Shared

TransferBegin(p, q, t, requested) ==
    /\ status[p] = "live"
    /\ Unlocked(p)
    /\ q # p
    /\ CheckRights(spaces[p], t, {"grant"})
    /\ call' = [call EXCEPT ![p] = [Idle EXCEPT !.pc = "transfer_valid", !.token = t,
                                       !.rights = requested, !.peer = q,
                                       !.stale = IsRevoked(t.id)]]
    /\ UNCHANGED <<spaces, status, registry, next_id, forks, minted, late, cloned>>

\* is_valid, then get_process: a zombie is still in the process table.
TransferValid(p) ==
    /\ At(p, "transfer_valid")
    /\ IF IsValid(call[p].token.id) /\ status[call[p].peer] # "unused"
       THEN Goto(p, "lock_target") ELSE Return(p)
    /\ UNCHANGED <<spaces, status, registry, next_id, forks, minted, late, cloned>>

LockTarget(p) ==
    /\ At(p, "lock_target")
    /\ Unlocked(call[p].peer)
    /\ Goto(p, "delegate")
    /\ UNCHANGED <<spaces, status, registry, next_id, forks, minted, late, cloned>>

\* delegate looks the source up again and reads the registry: present and
\* not revoked.  It takes the object from there.
Delegate(p) ==
    LET t == call[p].token IN
    /\ At(p, "delegate")
    /\ IF /\ CheckRights(spaces[p], t, {"grant"})
          /\ registry[t.id].registered
          /\ ~registry[t.id].revoked
       THEN call' = [call EXCEPT ![p].pc = "delegate_insert",
                                 ![p].obj = registry[t.id].object]
       ELSE Return(p)
    /\ UNCHANGED <<spaces, status, registry, next_id, forks, minted, late, cloned>>

\* Variant: the rights asked for, whatever the source has.
RequestedRights(p) == call[p].rights

\* The rights delegate gives: those asked for that the source has.
DerivedRights(p) == RightsOf(spaces[p], call[p].token) \cap call[p].rights

\* Variant: the source's token is passed on as it is.
SourceToken(p) == call[p].token

\* The new token: the same id and type, with the flags of the derived rights.
DerivedToken(p) == [call[p].token EXCEPT !.flags = DerivedRights(p) \cap FlagRights]

DelegateInsert(p) ==
    LET q == call[p].peer IN
    /\ At(p, "delegate_insert")
    /\ spaces' = [spaces EXCEPT ![q] =
                     Insert(@, DerivedToken(p), call[p].obj, DerivedRights(p))]
    /\ late' = IF CanInsert(spaces[q], call[p].token.id) /\ call[p].stale
               THEN late \cup {"delegate"} ELSE late
    /\ Return(p)
    /\ UNCHANGED <<status, registry, next_id, forks, minted, cloned>>

-----------------------------------------------------------------------------
(* Revocation and removal.                                                 *)

\* CapabilityManager::revoke through revoke_transferred_capability, whose
\* caller must hold the capability: the registry entry, under its lock.
Revoke(p, t) ==
    /\ status[p] = "live"
    /\ Unlocked(p)
    /\ Holds(spaces[p], t)
    /\ registry[t.id].registered
    /\ ~registry[t.id].revoked
    /\ registry' = [registry EXCEPT ![t.id].revoked = TRUE,
                                    ![t.id].generation = (@ + 1) % 256]
    /\ UNCHANGED <<spaces, status, next_id, call, forks, minted, late, cloned>>

\* CapabilitySpace::remove with the holder's token, from cascading_revoke.
RemoveHeld(p, t) ==
    /\ status[p] = "live"
    /\ Unlocked(p)
    /\ spaces' = [spaces EXCEPT ![p] = Remove(@, t)]
    /\ UNCHANGED <<status, registry, next_id, call, forks, minted, late, cloned>>

\* CapabilityGuard's drop: CapabilitySpace::revoke removes by the id alone.
DropGuard(p, id) ==
    /\ status[p] = "live"
    /\ Unlocked(p)
    /\ spaces[p].table[SlotOf(id)] # NoEntry
    /\ spaces' = [spaces EXCEPT ![p] = Remove(@, BareToken(id))]
    /\ UNCHANGED <<status, registry, next_id, call, forks, minted, late, cloned>>

-----------------------------------------------------------------------------
(* Creation, fork and exit.  sys_exec filters the capabilities into a new  *)
(* space and drops it: the process's space stays as it is.                 *)

\* A process that is not made by fork begins with an empty space.
CreateProcess(q) ==
    /\ status[q] = "unused"
    /\ spaces' = [spaces EXCEPT ![q] = EmptySpace]
    /\ status' = [status EXCEPT ![q] = "live"]
    /\ UNCHANGED <<registry, next_id, call, forks, minted, late, cloned>>

\* fork_process copies the parent's space into the new process and makes it
\* runnable; sys_fork inherits into it afterwards, the mutexes free between.
ForkClone(p, q) ==
    /\ status[p] = "live"
    /\ status[q] = "unused"
    /\ Unlocked(p)
    /\ spaces' = [spaces EXCEPT ![q] = CloneFrom(spaces[p])]
    /\ status' = [status EXCEPT ![q] = "live"]
    /\ forks' = forks \cup {<<p, q>>}
    /\ cloned' = cloned \cup {q}
    /\ UNCHANGED <<registry, next_id, call, minted, late>>

ForkLockParent(p, q) ==
    /\ <<p, q>> \in forks
    /\ status[p] = "live"
    /\ Unlocked(p)
    /\ call' = [call EXCEPT ![p] = [Idle EXCEPT !.pc = "lock_child", !.peer = q]]
    /\ forks' = forks \ {<<p, q>>}
    /\ UNCHANGED <<spaces, status, registry, next_id, minted, late, cloned>>

ForkInherit(p) ==
    LET q == call[p].peer IN
    /\ At(p, "lock_child")
    /\ Unlocked(q)
    /\ spaces' = [spaces EXCEPT ![q] = Inherit(spaces[p], @)]
    /\ Return(p)
    /\ UNCHANGED <<status, registry, next_id, forks, minted, late, cloned>>

\* exit_process: cleanup_process clears the space, then the process is a
\* zombie.  Its half-finished fork, if any, ends with it.
Exit(p) ==
    /\ status[p] = "live"
    /\ Unlocked(p)
    /\ spaces' = [spaces EXCEPT ![p] = EmptySpace]
    /\ status' = [status EXCEPT ![p] = "zombie"]
    /\ forks' = {f \in forks : f[1] # p}
    /\ UNCHANGED <<registry, next_id, call, minted, late, cloned>>

\* A zombie is reaped and leaves the process table; sys_fork no longer finds
\* the child.  Assumed: not while an operation has its process at hand.
Reap(q) ==
    /\ status[q] = "zombie"
    /\ Unlocked(q)
    /\ \A p \in Procs : call[p].peer # q
    /\ spaces' = [spaces EXCEPT ![q] = EmptySpace]
    /\ status' = [status EXCEPT ![q] = "unused"]
    /\ forks' = {f \in forks : f[2] # q}
    /\ cloned' = cloned \ {q}
    /\ UNCHANGED <<registry, next_id, call, minted, late>>

Next ==
    \E p \in Procs :
        \/ \E obj \in Objects, rights \in Minted : CreateAllocate(p, obj, rights)
        \/ CreateRegister(p)
        \/ CreateInsert(p)
        \/ \E t \in HeldTokens(p) :
              \/ \E required \in SUBSET RightSet :
                    CheckBegin(p, t, required) \/ TableCheck(p, t, required)
              \/ \E q \in Procs, requested \in Requested(p, t) : TransferBegin(p, q, t, requested)
              \/ Revoke(p, t)
              \/ RemoveHeld(p, t)
        \/ CheckValid(p)
        \/ TransferValid(p)
        \/ LockTarget(p)
        \/ Delegate(p)
        \/ DelegateInsert(p)
        \/ \E id \in Ids : DropGuard(p, id)
        \/ CreateProcess(p)
        \/ \E q \in Procs : ForkClone(p, q) \/ ForkLockParent(p, q)
        \/ ForkInherit(p)
        \/ Exit(p)
        \/ Reap(p)

Spec == Init /\ [][Next]_vars

-----------------------------------------------------------------------------
(* Properties.                                                             *)

\* The type invariant of the manager's state.
TypeOK ==
    /\ spaces \in [Procs -> Spaces]
    /\ status \in [Procs -> {"unused", "live", "zombie"}]
    /\ registry \in [Ids -> RegistryEntries]
    /\ next_id \in 1 .. MaxId + 1
    /\ call \in [Procs -> Calls]
    /\ forks \subseteq Procs \X Procs
    /\ minted \in [Ids -> SUBSET RightSet]
    /\ late \subseteq {"check", "delegate", "table"}
    /\ cloned \subseteq Procs

\* Every entry of every space, however it got there (creation, transfer,
\* sharing, fork), is for a registered id, refers to the object the id was
\* registered with, sits in the id's slot and has a token that agrees with
\* its rights.
Backed ==
    \A p \in Procs : \A s \in Filled(spaces[p]) :
        LET e == spaces[p].table[s] IN
        /\ e.token.id \in Ids
        /\ s = SlotOf(e.token.id)
        /\ registry[e.token.id].registered
        /\ registry[e.token.id].object = e.obj
        /\ e.token = Token(e.token.id, e.obj, e.rights)

\* delegate intersects rights and fork copies them: no chain of transfers,
\* shares, forks and removals gives anyone rights beyond those create_capability
\* minted the id with.
RightsBounded ==
    \A p \in Procs : \A s \in Filled(spaces[p]) :
        spaces[p].table[s].rights \subseteq minted[spaces[p].table[s].token.id]

\* The operations that ask the registry, check_capability and delegate, never
\* succeed on a capability when they begin after revoke returned, although they
\* look into the space and into the registry at different moments.
RevokedRefused == late \subseteq {"table"}

\* docs/design/CAPABILITY-SYSTEM-DESIGN.md: "Support for immediate revocation".
\* No operation at all succeeds, those that look only into the table included.
RevokedUnusable == late = {}

\* A revoked id is never valid again: ids are not handed out twice and
\* nothing clears the registry's mark.
RevokedForever == [][\A id \in Ids : IsRevoked(id) => IsRevoked(id)']_vars

\* Outside the tables clone_from filled, insert enforces the quota and remove
\* keeps the counter in step: there are never more entries than `used' counts,
\* `used' never passes the quota and so never wraps, whatever guards that remove
\* by an id alone and inserts that are refused do to it.
QuotaKept ==
    \A p \in Procs \ cloned :
        /\ Cardinality(Filled(spaces[p])) <= spaces[p].used
        /\ spaces[p].used <= Quota

\* verification/tla+/README.md: "No cycles in wait-for graph".  p waits for
\* the mutex of q's space, whose holder waits for the mutex of p's.
WaitsFor(p, q) == call[p].pc \in {"lock_target", "lock_child"} /\ call[p].peer = q
NoLockCycle == \A p, q \in Procs : ~(WaitsFor(p, q) /\ WaitsFor(q, p))
=============================================================================
