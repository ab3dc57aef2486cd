------------------------------ MODULE CapProofs ------------------------------
(***************************************************************************)
(* Proofs about CapManager for any processes, objects, rights, quota and   *)
(* number of ids.  The inductive invariant adds to the properties what an  *)
(* operation in progress relies on: the id it is creating is its own and   *)
(* not yet registered, the entry it looked up is still there, and it goes  *)
(* on past is_valid only if the id was not revoked when it began.          *)
(***************************************************************************)
EXTENDS CapManager, FiniteSetTheorems, TLAPS

\* What Backed and RightsBounded say of one entry e in slot s.
EntryOk(e, s, reg, mint) ==
    /\ e.token.id \in Ids
    /\ s = SlotOf(e.token.id)
    /\ reg[e.token.id].registered
    /\ reg[e.token.id].object = e.obj
    /\ e.token = Token(e.token.id, e.obj, e.rights)
    /\ e.rights \subseteq mint[e.token.id]

SpaceOk(sp, reg, mint) ==
    \A s \in Slots : sp.table[s] # NoEntry => EntryOk(sp.table[s], s, reg, mint)

\* A step only registers ids that were not, and keeps the rest.
Extends(reg, mint, reg2, mint2) ==
    \A id \in Ids : reg[id].registered =>
        /\ reg2[id].registered
        /\ reg2[id].object = reg[id].object
        /\ mint2[id] = mint[id]

\* What the operation c, in progress on the space sp, relies on.
CallOk(c, sp) ==
    /\ c.pc \in {"register", "insert"} =>
          /\ c.token.id \in Ids
          /\ c.token.id < next_id
          /\ c.token = Token(c.token.id, c.obj, c.rights)
    /\ c.pc = "register" => ~registry[c.token.id].registered
    /\ c.pc = "insert" =>
          /\ registry[c.token.id].registered
          /\ registry[c.token.id].object = c.obj
          /\ c.rights = minted[c.token.id]
    /\ c.pc \in {"check_valid", "transfer_valid"} =>
          /\ c.token.id \in Ids
          /\ c.stale => IsRevoked(c.token.id)
    /\ c.pc \in {"lock_target", "delegate", "delegate_insert"} =>
          c.token.id \in Ids /\ ~c.stale
    /\ c.pc = "delegate_insert" =>
          /\ Holds(sp, c.token)
          /\ c.obj = registry[c.token.id].object
    /\ c.pc \in {"transfer_valid", "lock_target", "delegate", "delegate_insert",
                 "lock_child"} => c.peer \in Procs

CapInv ==
    /\ TypeOK
    /\ \A p \in Procs : SpaceOk(spaces[p], registry, minted)
    /\ \A p \in Procs : CallOk(call[p], spaces[p])
    /\ \A p \in Procs : call[p].pc # "idle" => status[p] = "live"
    /\ \A p, q \in Procs : /\ p # q
                           /\ call[p].pc = "register"
                           /\ call[q].pc = "register"
                           => call[p].token.id # call[q].token.id
    /\ \A id \in Ids : registry[id].registered => id < next_id
    /\ late \subseteq {"table"}

-----------------------------------------------------------------------------
(* Lemmas about the operations of a space.                                 *)

\* Every id has a slot.
LEMMA SlotOfSlots == \A id \in Nat : SlotOf(id) \in Slots
<1> SUFFICES ASSUME NEW id \in Nat PROVE SlotOf(id) \in Slots
  OBVIOUS
<1>1. id % L2Span \in 0 .. L2Span - 1
  BY CapSpaceAssumption
<1> QED
  BY <1>1, CapSpaceAssumption DEF SlotOf, Slots

\* The counter stays a usize.
LEMMA WordMod == \A n \in Int : n % WordSize \in 0 .. WordSize - 1
  BY CapSpaceAssumption

\* A new token is a token.
LEMMA TokenType ==
  ASSUME NEW id \in Nat, NEW obj \in Objects, NEW rights \in SUBSET RightSet
  PROVE  Token(id, obj, rights) \in Tokens
  BY CapSpaceAssumption, Zenon DEF Token, Tokens

\* An empty space is a space, and vacuously sound.
LEMMA EmptyOk ==
  ASSUME NEW reg, NEW mint
  PROVE  EmptySpace \in Spaces /\ SpaceOk(EmptySpace, reg, mint)
<1>1. 0 \in 0 .. WordSize - 1
  BY CapSpaceAssumption
<1> QED
  BY <1>1, Zenon DEF EmptySpace, Spaces, SpaceOk

\* insert yields a space.
LEMMA InsertType ==
  ASSUME NEW sp \in Spaces, NEW t \in Tokens, NEW obj \in Objects,
         NEW rights \in SUBSET RightSet
  PROVE  Insert(sp, t, obj, rights) \in Spaces
<1>1. (sp.used + 1) % WordSize \in 0 .. WordSize - 1
  <2>1. sp.used + 1 \in Int
    BY CapSpaceAssumption DEF Spaces
  <2> QED BY <2>1, WordMod, Zenon
<1>2. [token |-> t, obj |-> obj, rights |-> rights] \in Entries
  BY Zenon DEF Entries
<1>3. [sp.table EXCEPT ![SlotOf(t.id)] = [token |-> t, obj |-> obj, rights |-> rights]]
         \in [Slots -> Entries \cup {NoEntry}]
  BY <1>2, Zenon DEF Spaces
<1> QED
  BY <1>1, <1>3, Zenon DEF Insert, Spaces

\* insert keeps the entries there are and adds the new one to an empty slot.
LEMMA InsertTable ==
  ASSUME NEW sp \in Spaces, NEW t \in Tokens, NEW obj, NEW rights, NEW s \in Slots
  PROVE  \/ Insert(sp, t, obj, rights).table[s] = sp.table[s]
         \/ /\ s = SlotOf(t.id)
            /\ sp.table[s] = NoEntry
            /\ Insert(sp, t, obj, rights).table[s] = [token |-> t, obj |-> obj, rights |-> rights]
  BY Zenon DEF Insert, CanInsert, Spaces

\* Inserting a sound entry keeps a capability space sound.
LEMMA InsertOk ==
  ASSUME NEW reg, NEW mint, NEW sp \in Spaces, SpaceOk(sp, reg, mint),
         NEW t \in Tokens, NEW obj, NEW rights,
         EntryOk([token |-> t, obj |-> obj, rights |-> rights], SlotOf(t.id), reg, mint)
  PROVE  SpaceOk(Insert(sp, t, obj, rights), reg, mint)
  BY InsertTable DEF SpaceOk

\* remove yields a space with fewer entries.
LEMMA RemoveOk ==
  ASSUME NEW reg, NEW mint, NEW sp \in Spaces, NEW t \in Tokens
  PROVE  /\ Remove(sp, t) \in Spaces
         /\ SpaceOk(sp, reg, mint) => SpaceOk(Remove(sp, t), reg, mint)
<1>1. (sp.used + WordSize - 1) % WordSize \in 0 .. WordSize - 1
  <2>1. sp.used + WordSize - 1 \in Int
    BY CapSpaceAssumption DEF Spaces
  <2> QED BY <2>1, WordMod, Zenon
<1>2. [sp.table EXCEPT ![SlotOf(t.id)] = NoEntry] \in [Slots -> Entries \cup {NoEntry}]
  BY Zenon DEF Spaces
<1>3. Remove(sp, t) \in Spaces
  BY <1>1, <1>2, Zenon DEF Remove, Spaces
<1>4. ASSUME SpaceOk(sp, reg, mint), NEW s \in Slots, Remove(sp, t).table[s] # NoEntry
      PROVE  EntryOk(Remove(sp, t).table[s], s, reg, mint)
  <2>1. Remove(sp, t).table[s] = sp.table[s]
    BY <1>4, Zenon DEF Remove, Spaces
  <2> QED BY <1>4, <2>1, Zenon DEF SpaceOk
<1> QED
  BY <1>3, <1>4, Zenon DEF SpaceOk

\* clone_from copies the parent's entries.
LEMMA CloneOk ==
  ASSUME NEW reg, NEW mint, NEW sp \in Spaces
  PROVE  /\ CloneFrom(sp) \in Spaces
         /\ SpaceOk(sp, reg, mint) => SpaceOk(CloneFrom(sp), reg, mint)
<1>1. 0 \in 0 .. WordSize - 1
  BY CapSpaceAssumption
<1> QED
  BY <1>1, Zenon DEF CloneFrom, Spaces, SpaceOk

\* Inheritance gives each slot the parent's entry or leaves the child's, and
\* never replaces one.
LEMMA InheritTable ==
  ASSUME NEW par \in Spaces, NEW ch \in Spaces, NEW s \in Slots
  PROVE  \/ Inherit(par, ch).table[s] = ch.table[s]
         \/ ch.table[s] = NoEntry /\ Inherit(par, ch).table[s] = par.table[s]
  BY Zenon DEF Inherit, Filled

\* Inheriting at a fork gives a capability space.
LEMMA InheritType ==
  ASSUME NEW par \in Spaces, NEW ch \in Spaces
  PROVE  Inherit(par, ch) \in Spaces
<1> DEFINE new  == Filled(par) \ Filled(ch)
           took == {s \in new : ch.used + Cardinality({u \in new : u < s}) < Quota}
           tab  == [s \in Slots |-> IF s \in took THEN par.table[s] ELSE ch.table[s]]
<1>1. IsFiniteSet(Slots)
  BY FS_Interval, CapSpaceAssumption DEF Slots
<1>2. took \subseteq Slots
  BY Zenon DEF Filled
<1>3. Cardinality(took) \in Nat
  BY <1>1, <1>2, FS_Subset, FS_CardinalityType, Zenon
<1> HIDE DEF took
<1>4. ch.used + Cardinality(took) \in Int
  BY <1>3, CapSpaceAssumption DEF Spaces
<1>5. (ch.used + Cardinality(took)) % WordSize \in 0 .. WordSize - 1
  BY <1>4, WordMod, Zenon
<1>6. tab \in [Slots -> Entries \cup {NoEntry}]
  BY Zenon DEF Spaces
<1> HIDE DEF tab
<1>7. [table |-> tab, used |-> (ch.used + Cardinality(took)) % WordSize] \in Spaces
  BY <1>5, <1>6, Zenon DEF Spaces
<1> QED
  BY <1>7, Zenon DEF Inherit, tab, took

\* A child inherits only sound entries from its parent.
LEMMA InheritOk ==
  ASSUME NEW reg, NEW mint, NEW par \in Spaces, NEW ch \in Spaces,
         SpaceOk(par, reg, mint), SpaceOk(ch, reg, mint)
  PROVE  SpaceOk(Inherit(par, ch), reg, mint)
  BY InheritTable, Zenon DEF SpaceOk

\* Registering a new id keeps every space sound.
LEMMA ExtendsOk ==
  ASSUME NEW reg, NEW mint, NEW reg2, NEW mint2, NEW sp,
         SpaceOk(sp, reg, mint), Extends(reg, mint, reg2, mint2)
  PROVE  SpaceOk(sp, reg2, mint2)
  BY Zenon DEF SpaceOk, EntryOk, Extends
-----------------------------------------------------------------------------
(* The type invariant.                                                     *)

\* The idle call is a call.
LEMMA IdleType == Idle \in Calls
<1>1. SomeObject \in Objects
  BY CapManagerAssumption, Zenon DEF SomeObject
<1> QED
  BY <1>1, Zenon DEF Idle, Calls, PCs, NoToken, Tokens

\* The tokens p holds are tokens.
LEMMA HeldType ==
  ASSUME TypeOK, NEW p \in Procs, NEW t \in HeldTokens(p)
  PROVE  t \in Tokens
  BY DEF TypeOK, HeldTokens, Filled, Spaces, Entries

\* Moving an operation to another of its steps keeps the type.
LEMMA GotoType ==
  ASSUME TypeOK, NEW p \in Procs, NEW pc \in PCs, NEW c,
         c = [call EXCEPT ![p].pc = pc] \/ c = [call EXCEPT ![p] = Idle]
  PROVE  c \in [Procs -> Calls]
<1>1. [call[p] EXCEPT !.pc = pc] \in Calls
  BY DEF TypeOK, Calls
<1> QED
  BY <1>1, IdleType, Zenon DEF TypeOK

\* Where an entry is inserted into a process's space.
LEMMA InsertInto ==
  ASSUME TypeOK, NEW q, NEW t \in Tokens, NEW obj \in Objects,
         NEW rights \in SUBSET RightSet
  PROVE  [spaces EXCEPT ![q] = Insert(@, t, obj, rights)] \in [Procs -> Spaces]
<1>1. ASSUME q \in Procs PROVE Insert(spaces[q], t, obj, rights) \in Spaces
  BY <1>1, InsertType, Zenon DEF TypeOK
<1> QED
  BY <1>1, Zenon DEF TypeOK

\* Every step keeps the type invariant.
LEMMA TypeNext == CapInv /\ [Next]_vars => TypeOK'
<1> SUFFICES ASSUME CapInv, [Next]_vars PROVE TypeOK'
  OBVIOUS
<1> TypeOK
  BY Zenon DEF CapInv
<1>0. PCs = {"idle", "register", "insert", "check_valid", "transfer_valid",
             "lock_target", "delegate", "delegate_insert", "lock_child"}
  BY Zenon DEF PCs
<1>1. ASSUME UNCHANGED vars PROVE TypeOK'
  BY <1>1, Zenon DEF vars, TypeOK
<1>2. ASSUME NEW p \in Procs, NEW obj \in Objects, NEW rights \in Minted,
             CreateAllocate(p, obj, rights)
      PROVE  TypeOK'
  <2>1. next_id \in Nat /\ next_id' \in 1 .. MaxId + 1
    BY <1>2, CapManagerAssumption DEF CreateAllocate, AllocateId, TypeOK
  <2>2. rights \in SUBSET RightSet /\ Token(next_id, obj, rights) \in Tokens
    BY <2>1, TokenType, CapManagerAssumption, Zenon
  <2>3. [Idle EXCEPT !.pc = "register", !.obj = obj,
                     !.token = Token(next_id, obj, rights), !.rights = rights] \in Calls
    BY <2>2, <1>0, IdleType, Zenon DEF Calls
  <2> QED
    BY <1>2, <2>1, <2>3, Zenon DEF CreateAllocate, TypeOK
<1>3. ASSUME NEW p \in Procs, CreateRegister(p) PROVE TypeOK'
  <2>1. [registered |-> TRUE, object |-> call[p].obj, generation |-> 0, revoked |-> FALSE]
           \in RegistryEntries
    BY DEF RegistryEntries, TypeOK, Calls
  <2>2. call[p].rights \in SUBSET RightSet
    BY Zenon DEF TypeOK, Calls
  <2>3. call' \in [Procs -> Calls]
    BY <1>3, <1>0, GotoType, Zenon DEF CreateRegister, Goto
  <2>4. registry' \in [Ids -> RegistryEntries] /\ minted' \in [Ids -> SUBSET RightSet]
    BY <1>3, <2>1, <2>2, Zenon DEF CreateRegister, TypeOK
  <2> QED
    BY <1>3, <2>3, <2>4, Zenon DEF CreateRegister, TypeOK
<1>4. ASSUME NEW p \in Procs, CreateInsert(p) PROVE TypeOK'
  <2>1. /\ call[p].token \in Tokens
        /\ call[p].obj \in Objects
        /\ call[p].rights \in SUBSET RightSet
    BY Zenon DEF TypeOK, Calls
  <2>2. spaces' \in [Procs -> Spaces]
    BY <1>4, <2>1, InsertInto, Zenon DEF CreateInsert
  <2>3. call' \in [Procs -> Calls]
    BY <1>4, <1>0, GotoType, Zenon DEF CreateInsert, Return
  <2> QED
    BY <1>4, <2>2, <2>3, Zenon DEF CreateInsert, TypeOK
<1>5. ASSUME NEW p \in Procs, NEW t \in HeldTokens(p), NEW required,
             CheckBegin(p, t, required)
      PROVE  TypeOK'
  <2>1. t \in Tokens
    BY HeldType, Zenon
  <2>2. IsRevoked(t.id) \in BOOLEAN
    BY Zenon DEF IsRevoked
  <2>3. [Idle EXCEPT !.pc = "check_valid", !.token = t, !.stale = IsRevoked(t.id)] \in Calls
    BY <2>1, <2>2, <1>0, IdleType, Zenon DEF Calls
  <2> QED
    BY <1>5, <2>3, Zenon DEF CheckBegin, TypeOK
<1>6. ASSUME NEW p \in Procs, NEW t \in HeldTokens(p), NEW q \in Procs,
             NEW requested \in Requested(p, t), TransferBegin(p, q, t, requested)
      PROVE  TypeOK'
  <2>1. t \in Tokens
    BY HeldType, Zenon
  <2>2. IsRevoked(t.id) \in BOOLEAN
    BY Zenon DEF IsRevoked
  <2>3. requested \in SUBSET RightSet
    <3>1. PICK s \in Slots : spaces[p].table[s] # NoEntry /\ spaces[p].table[s].token = t
      BY Zenon DEF HeldTokens, Filled
    <3>2. SlotOf(t.id) \in Slots
      BY <2>1, SlotOfSlots, Zenon DEF Tokens
    <3>3. spaces[p].table[SlotOf(t.id)] \in Entries
      BY <1>6, <3>2 DEF TransferBegin, CheckRights, Holds, TypeOK, Spaces
    <3> QED
      BY <3>3, CapManagerAssumption, Zenon DEF Requested, RightsOf, Entries
  <2>4. [Idle EXCEPT !.pc = "transfer_valid", !.token = t, !.rights = requested,
                     !.peer = q, !.stale = IsRevoked(t.id)] \in Calls
    BY <2>1, <2>2, <2>3, <1>0, IdleType, Zenon DEF Calls
  <2> QED
    BY <1>6, <2>4, Zenon DEF TransferBegin, TypeOK
<1>7. ASSUME NEW p \in Procs, NEW t \in HeldTokens(p), Revoke(p, t) PROVE TypeOK'
  <2>1. ASSUME t.id \in Ids
        PROVE  [registry[t.id] EXCEPT !.revoked = TRUE,
                                      !.generation = (registry[t.id].generation + 1) % 256]
                  \in RegistryEntries
    <3>1. registry[t.id] \in RegistryEntries
      BY <2>1, Zenon DEF TypeOK
    <3>2. (registry[t.id].generation + 1) % 256 \in 0 .. 255
      <4>1. \A n \in Nat : n % 256 \in 0 .. 255
        OBVIOUS
      <4>2. registry[t.id].generation + 1 \in Nat
        BY <3>1 DEF RegistryEntries
      <4> QED BY <4>1, <4>2, Zenon
    <3> DEFINE e == registry[t.id]
               g == (registry[t.id].generation + 1) % 256
    <3>3. \A x \in RegistryEntries, n \in 0 .. 255 :
             [x EXCEPT !.revoked = TRUE, !.generation = n] \in RegistryEntries
      BY DEF RegistryEntries
    <3>4. e \in RegistryEntries /\ g \in 0 .. 255
      BY <3>1, <3>2, Zenon
    <3> HIDE DEF e, g
    <3>5. [e EXCEPT !.revoked = TRUE, !.generation = g] \in RegistryEntries
      BY <3>3, <3>4, Zenon
    <3> QED BY <3>5, Zenon DEF e, g
  <2>2. registry' \in [Ids -> RegistryEntries]
    BY <1>7, <2>1, ZenonT(30) DEF Revoke, TypeOK
  <2> QED
    BY <1>7, <2>2, Zenon DEF Revoke, TypeOK
<1>8. ASSUME NEW p \in Procs, NEW t \in HeldTokens(p), RemoveHeld(p, t) PROVE TypeOK'
  <2>1. Remove(spaces[p], t) \in Spaces
    BY HeldType, RemoveOk, Zenon DEF TypeOK
  <2> QED
    BY <1>8, <2>1, Zenon DEF RemoveHeld, TypeOK
<1>9. ASSUME NEW p \in Procs, CheckValid(p) PROVE TypeOK'
  <2>1. call' \in [Procs -> Calls]
    BY <1>9, <1>0, GotoType, Zenon DEF CheckValid, Return
  <2>2. late' \subseteq {"check", "delegate", "table"}
    BY <1>9 DEF CheckValid, TypeOK
  <2> QED
    BY <1>9, <2>1, <2>2, Zenon DEF CheckValid, TypeOK
<1>10. ASSUME NEW p \in Procs, TransferValid(p) \/ LockTarget(p) PROVE TypeOK'
  <2>1. call' \in [Procs -> Calls]
    BY <1>10, <1>0, GotoType, Zenon DEF TransferValid, LockTarget, Return, Goto
  <2> QED
    BY <1>10, <2>1, Zenon DEF TransferValid, LockTarget, TypeOK
<1>11. ASSUME NEW p \in Procs, Delegate(p) PROVE TypeOK'
  <2>1. CASE call' = [call EXCEPT ![p] = Idle]
    <3>1. call' \in [Procs -> Calls]
      BY <2>1, IdleType, Zenon DEF TypeOK
    <3> QED BY <1>11, <3>1, Zenon DEF Delegate, TypeOK
  <2>2. CASE call' = [call EXCEPT ![p].pc = "delegate_insert",
                                  ![p].obj = registry[call[p].token.id].object]
    <3>1. call[p].token.id \in Ids
      BY <1>11, Zenon DEF Delegate, At, CapInv, CallOk
    <3>2. registry[call[p].token.id].object \in Objects
      BY <3>1, Zenon DEF TypeOK, RegistryEntries
    <3>3. [call[p] EXCEPT !.pc = "delegate_insert",
                          !.obj = registry[call[p].token.id].object] \in Calls
      <4> DEFINE o == registry[call[p].token.id].object
      <4>1. o \in Objects /\ call[p] \in Calls
        BY <3>2, Zenon DEF TypeOK
      <4> HIDE DEF o
      <4>2. [call[p] EXCEPT !.pc = "delegate_insert", !.obj = o] \in Calls
        BY <4>1, <1>0, Zenon DEF Calls
      <4> QED BY <4>2, Zenon DEF o
    <3>4. call' \in [Procs -> Calls]
      BY <2>2, <3>3, Zenon DEF TypeOK
    <3> QED BY <1>11, <3>4, Zenon DEF Delegate, TypeOK
  <2> QED
    BY <1>11, <2>1, <2>2, Zenon DEF Delegate, Return
<1>12. ASSUME NEW p \in Procs, DelegateInsert(p) PROVE TypeOK'
  <2>1. /\ call[p].token \in Tokens
        /\ call[p].obj \in Objects
        /\ call[p].rights \in SUBSET RightSet
    BY Zenon DEF TypeOK, Calls
  <2>2. DerivedRights(p) \in SUBSET RightSet
    BY <2>1, Zenon DEF DerivedRights
  <2>3. DerivedToken(p) \in Tokens
    BY <2>1, <2>2, Zenon DEF DerivedToken, Tokens
  <2>4. spaces' \in [Procs -> Spaces]
    BY <1>12, <2>1, <2>2, <2>3, InsertInto, Zenon DEF DelegateInsert
  <2>5. call' \in [Procs -> Calls]
    BY <1>12, <1>0, GotoType, Zenon DEF DelegateInsert, Return
  <2>6. late' \subseteq {"check", "delegate", "table"}
    BY <1>12 DEF DelegateInsert, TypeOK
  <2> QED
    BY <1>12, <2>4, <2>5, <2>6, Zenon DEF DelegateInsert, TypeOK
<1>13. ASSUME NEW p \in Procs, NEW id \in Ids, DropGuard(p, id) PROVE TypeOK'
  <2>1. BareToken(id) \in Tokens
    BY DEF BareToken, Tokens, Ids
  <2>2. Remove(spaces[p], BareToken(id)) \in Spaces
    BY <2>1, RemoveOk, Zenon DEF TypeOK
  <2> QED
    BY <1>13, <2>2, Zenon DEF DropGuard, TypeOK
<1>14. ASSUME NEW p \in Procs, NEW q \in Procs, ForkClone(p, q) PROVE TypeOK'
  <2>1. CloneFrom(spaces[p]) \in Spaces
    BY CloneOk, Zenon DEF TypeOK
  <2> QED
    BY <1>14, <2>1 DEF ForkClone, TypeOK
<1>15. ASSUME NEW p \in Procs, NEW q \in Procs, ForkLockParent(p, q) PROVE TypeOK'
  <2>1. [Idle EXCEPT !.pc = "lock_child", !.peer = q] \in Calls
    BY <1>0, IdleType, Zenon DEF Calls
  <2> QED
    BY <1>15, <2>1, Zenon DEF ForkLockParent, TypeOK
<1>16. ASSUME NEW p \in Procs, ForkInherit(p) PROVE TypeOK'
  <2>1. call[p].peer \in Procs
    BY <1>16, Zenon DEF ForkInherit, At, CapInv, CallOk
  <2>2. Inherit(spaces[p], spaces[call[p].peer]) \in Spaces
    BY <2>1, InheritType, Zenon DEF TypeOK
  <2>3. spaces' \in [Procs -> Spaces]
    BY <1>16, <2>1, <2>2, Zenon DEF ForkInherit, TypeOK
  <2>4. call' \in [Procs -> Calls]
    BY <1>16, <1>0, GotoType, Zenon DEF ForkInherit, Return
  <2> QED
    BY <1>16, <2>3, <2>4, Zenon DEF ForkInherit, TypeOK
<1>17. ASSUME NEW p \in Procs, Exit(p) \/ Reap(p) PROVE TypeOK'
  <2>1. EmptySpace \in Spaces
    BY EmptyOk, Zenon
  <2>2. CASE Exit(p)
    BY <2>1, <2>2 DEF Exit, TypeOK
  <2>3. CASE Reap(p)
    BY <2>1, <2>3 DEF Reap, TypeOK
  <2> QED
    BY <1>17, <2>2, <2>3, Zenon
<1>18. ASSUME NEW p \in Procs, CreateProcess(p) PROVE TypeOK'
  <2>1. EmptySpace \in Spaces
    BY EmptyOk, Zenon
  <2> QED
    BY <1>18, <2>1 DEF CreateProcess, TypeOK
<1>19. ASSUME NEW p \in Procs, NEW t, NEW required, TableCheck(p, t, required) PROVE TypeOK'
  <2>1. late' \subseteq {"check", "delegate", "table"}
    BY <1>19 DEF TableCheck, TypeOK
  <2> QED
    BY <1>19, <2>1, Zenon DEF TableCheck, TypeOK
<1> QED
  BY <1>1, <1>2, <1>3, <1>4, <1>5, <1>6, <1>7, <1>8, <1>9, <1>10, <1>11, <1>12,
     <1>13, <1>14, <1>15, <1>16, <1>17, <1>18, <1>19, Zenon DEF Next
-----------------------------------------------------------------------------
(* The spaces stay sound.                                                  *)

\* The entry a token is found at is sound, and is the token's.
LEMMA HeldEntry ==
  ASSUME CapInv, NEW p \in Procs, NEW t \in Tokens, Holds(spaces[p], t)
  PROVE  /\ EntryOk(spaces[p].table[SlotOf(t.id)], SlotOf(t.id), registry, minted)
         /\ spaces[p].table[SlotOf(t.id)].token = t
         /\ spaces[p].table[SlotOf(t.id)] \in Entries
         /\ t.id \in Ids
<1>1. SlotOf(t.id) \in Slots
  BY SlotOfSlots, Zenon DEF Tokens
<1>2. EntryOk(spaces[p].table[SlotOf(t.id)], SlotOf(t.id), registry, minted)
  BY <1>1, Zenon DEF CapInv, SpaceOk, Holds
<1>3. spaces[p].table[SlotOf(t.id)] \in Entries
  BY <1>1 DEF CapInv, TypeOK, Spaces, Holds
<1> QED
  BY <1>2, <1>3, Zenon DEF Holds, EntryOk

\* A token p holds is found in p's space.
LEMMA HeldFound ==
  ASSUME CapInv, NEW p \in Procs, NEW t \in HeldTokens(p)
  PROVE  t \in Tokens /\ t.id \in Ids /\ Holds(spaces[p], t)
<1>1. PICK s \in Slots : spaces[p].table[s] # NoEntry /\ spaces[p].table[s].token = t
  BY Zenon DEF HeldTokens, Filled
<1>2. EntryOk(spaces[p].table[s], s, registry, minted)
  BY <1>1, Zenon DEF CapInv, SpaceOk
<1>3. t \in Tokens
  BY HeldType, Zenon DEF CapInv
<1> QED
  BY <1>1, <1>2, <1>3, Zenon DEF EntryOk, Holds

\* Neither insert nor inheritance loses an entry.
LEMMA InsertHolds ==
  ASSUME NEW sp \in Spaces, NEW t \in Tokens, NEW u \in Tokens, NEW obj, NEW rights,
         Holds(sp, u)
  PROVE  Holds(Insert(sp, t, obj, rights), u)
<1>1. SlotOf(u.id) \in Slots
  BY SlotOfSlots, Zenon DEF Tokens
<1>2. Insert(sp, t, obj, rights).table[SlotOf(u.id)] = sp.table[SlotOf(u.id)]
  <2>1. sp.table[SlotOf(u.id)] # NoEntry
    BY Zenon DEF Holds
  <2>2. \A s \in Slots : sp.table[s] # NoEntry
                             => Insert(sp, t, obj, rights).table[s] = sp.table[s]
    BY Zenon DEF Insert, CanInsert, Spaces
  <2> QED BY <1>1, <2>1, <2>2, Zenon
<1> QED
  BY <1>2, Zenon DEF Holds

\* What a child held before a fork's inheritance it still holds.
LEMMA InheritHolds ==
  ASSUME NEW par \in Spaces, NEW ch \in Spaces, NEW u \in Tokens, Holds(ch, u)
  PROVE  Holds(Inherit(par, ch), u)
<1>1. SlotOf(u.id) \in Slots
  BY SlotOfSlots, Zenon DEF Tokens
<1> QED
  BY <1>1, InheritTable, Zenon DEF Holds

\* The entry delegate inserts is sound.
LEMMA DerivedOk ==
  ASSUME CapInv, NEW p \in Procs, call[p].pc = "delegate_insert"
  PROVE  /\ DerivedToken(p) \in Tokens
         /\ EntryOk([token |-> DerivedToken(p), obj |-> call[p].obj,
                     rights |-> DerivedRights(p)],
                    SlotOf(DerivedToken(p).id), registry, minted)
<1> DEFINE t == call[p].token
           e == spaces[p].table[SlotOf(t.id)]
<1>1. t \in Tokens /\ call[p].rights \subseteq RightSet
  BY Zenon DEF CapInv, TypeOK, Calls
<1>2. Holds(spaces[p], t) /\ call[p].obj = registry[t.id].object
  BY Zenon DEF CapInv, CallOk
<1>3. EntryOk(e, SlotOf(t.id), registry, minted) /\ e.token = t /\ t.id \in Ids
  BY <1>1, <1>2, HeldEntry, Zenon
<1>4. e.obj = call[p].obj
  BY <1>2, <1>3, Zenon DEF EntryOk
<1>5. t = Token(t.id, call[p].obj, e.rights)
  BY <1>3, <1>4, Zenon DEF EntryOk
<1>6. DerivedToken(p) = Token(t.id, call[p].obj, DerivedRights(p))
  <2>1. \A r, i, ty, f, g : r = [id |-> i, type |-> ty, flags |-> f]
          => [r EXCEPT !.flags = g] = [id |-> i, type |-> ty, flags |-> g]
    OBVIOUS
  <2>2. t = [id |-> t.id, type |-> TypeCode[call[p].obj],
             flags |-> e.rights \cap FlagRights]
    BY <1>5, Zenon DEF Token
  <2>3. DerivedToken(p) = [t EXCEPT !.flags = DerivedRights(p) \cap FlagRights]
    BY Zenon DEF DerivedToken
  <2> HIDE DEF t, e
  <2>4. [t EXCEPT !.flags = DerivedRights(p) \cap FlagRights]
          = [id |-> t.id, type |-> TypeCode[call[p].obj],
             flags |-> DerivedRights(p) \cap FlagRights]
    <3> HIDE DEF DerivedRights
    <3> DEFINE i == t.id
               f == e.rights \cap FlagRights
               g == DerivedRights(p) \cap FlagRights
               ty == TypeCode[call[p].obj]
    <3>1. t = [id |-> i, type |-> ty, flags |-> f]
      BY <2>2, Zenon
    <3> HIDE DEF i, f, g, ty
    <3>2. [t EXCEPT !.flags = g] = [id |-> i, type |-> ty, flags |-> g]
      BY <2>1, <3>1, SMT
    <3> QED BY <3>2, Zenon DEF i, g, ty
  <2> QED BY <2>3, <2>4, Zenon DEF Token
<1>7. DerivedToken(p) \in Tokens /\ DerivedToken(p).id = t.id
  BY <1>1, Zenon DEF DerivedToken, DerivedRights, Tokens
<1>8. DerivedRights(p) \subseteq minted[t.id]
  BY <1>3, Zenon DEF DerivedRights, RightsOf, EntryOk
<1>9. registry[t.id].registered
  BY <1>3, Zenon DEF EntryOk
<1> HIDE DEF t, e
<1> QED
  BY <1>2, <1>3, <1>6, <1>7, <1>8, <1>9, Zenon DEF EntryOk, t

\* Every step keeps every capability space sound against the registry.
LEMMA SpacesNext ==
  CapInv /\ [Next]_vars => \A p \in Procs : SpaceOk(spaces'[p], registry', minted')
<1> SUFFICES ASSUME CapInv, [Next]_vars
             PROVE  \A p \in Procs : SpaceOk(spaces'[p], registry', minted')
  OBVIOUS
<1> TypeOK /\ spaces \in [Procs -> Spaces]
  BY Zenon DEF CapInv, TypeOK
<1>0. \A p \in Procs : SpaceOk(spaces[p], registry, minted)
  BY Zenon DEF CapInv
<1> DEFINE Goal == \A r \in Procs : SpaceOk(spaces'[r], registry', minted')
<1>a. ASSUME NEW q \in Procs, NEW sp, spaces' = [spaces EXCEPT ![q] = sp],
             SpaceOk(sp, registry, minted), UNCHANGED <<registry, minted>>
      PROVE  Goal
  BY <1>a, <1>0, Zenon
<1>1. ASSUME UNCHANGED <<spaces, registry, minted>> PROVE Goal
  BY <1>1, <1>0, Zenon
<1>2. ASSUME NEW p \in Procs, CreateRegister(p) PROVE Goal
  <2>1. call[p].token.id \in Ids /\ ~registry[call[p].token.id].registered
    BY <1>2, Zenon DEF CreateRegister, At, CapInv, CallOk
  <2>2. Extends(registry, minted, registry', minted')
    BY <1>2, <2>1, Zenon DEF CreateRegister, Extends, TypeOK
  <2>3. spaces' = spaces
    BY <1>2, Zenon DEF CreateRegister
  <2> QED
    BY <1>0, <2>2, <2>3, ExtendsOk, Zenon
<1>3. ASSUME NEW p \in Procs, CreateInsert(p) PROVE Goal
  <2> DEFINE t == call[p].token
  <2>1. t \in Tokens /\ call[p].obj \in Objects /\ call[p].rights \subseteq RightSet
    BY Zenon DEF TypeOK, Calls
  <2>2. EntryOk([token |-> t, obj |-> call[p].obj, rights |-> call[p].rights],
                SlotOf(t.id), registry, minted)
    BY <1>3, Zenon DEF CreateInsert, At, CapInv, CallOk, EntryOk
  <2>3. SpaceOk(Insert(spaces[p], t, call[p].obj, call[p].rights), registry, minted)
    BY <1>0, <2>1, <2>2, InsertOk, Zenon
  <2> QED
    BY <1>3, <2>3, <1>a, Zenon DEF CreateInsert
<1>4. ASSUME NEW p \in Procs, NEW t \in HeldTokens(p), Revoke(p, t) PROVE Goal
  <2>1. t.id \in Ids
    BY HeldFound, Zenon
  <2>2. Extends(registry, minted, registry', minted')
    BY <1>4, <2>1 DEF Revoke, Extends, TypeOK, RegistryEntries
  <2>3. spaces' = spaces
    BY <1>4, Zenon DEF Revoke
  <2> QED
    BY <1>0, <2>2, <2>3, ExtendsOk, Zenon
<1>5. ASSUME NEW p \in Procs, NEW t \in HeldTokens(p), RemoveHeld(p, t) PROVE Goal
  <2>1. SpaceOk(Remove(spaces[p], t), registry, minted)
    BY <1>0, HeldFound, RemoveOk, Zenon
  <2> QED
    BY <1>5, <2>1, <1>a, Zenon DEF RemoveHeld
<1>6. ASSUME NEW p \in Procs, DelegateInsert(p) PROVE Goal
  <2> DEFINE q == call[p].peer
  <2>1. call[p].pc = "delegate_insert" /\ q \in Procs
    BY <1>6, Zenon DEF DelegateInsert, At, CapInv, CallOk
  <2>2. SpaceOk(Insert(spaces[q], DerivedToken(p), call[p].obj, DerivedRights(p)),
                registry, minted)
    BY <1>0, <2>1, DerivedOk, InsertOk, Zenon
  <2> QED
    BY <1>6, <2>1, <2>2, <1>a, Zenon DEF DelegateInsert
<1>7. ASSUME NEW p \in Procs, NEW id \in Ids, DropGuard(p, id) PROVE Goal
  <2>1. BareToken(id) \in Tokens
    BY DEF BareToken, Tokens, Ids
  <2>2. SpaceOk(Remove(spaces[p], BareToken(id)), registry, minted)
    BY <1>0, <2>1, RemoveOk, Zenon
  <2> QED
    BY <1>7, <2>2, <1>a, Zenon DEF DropGuard
<1>8. ASSUME NEW p \in Procs, NEW q \in Procs, ForkClone(p, q) PROVE Goal
  <2>1. SpaceOk(CloneFrom(spaces[p]), registry, minted)
    BY <1>0, CloneOk, Zenon
  <2> QED
    BY <1>8, <2>1, <1>a, Zenon DEF ForkClone
<1>9. ASSUME NEW p \in Procs, ForkInherit(p) PROVE Goal
  <2> DEFINE q == call[p].peer
  <2>1. q \in Procs
    BY <1>9, Zenon DEF ForkInherit, At, CapInv, CallOk
  <2>2. SpaceOk(Inherit(spaces[p], spaces[q]), registry, minted)
    BY <1>0, <2>1, InheritOk, Zenon
  <2> QED
    BY <1>9, <2>1, <2>2, <1>a, Zenon DEF ForkInherit
<1>10. ASSUME NEW p \in Procs, Exit(p) \/ Reap(p) \/ CreateProcess(p) PROVE Goal
  BY <1>10, <1>a, EmptyOk, Zenon DEF Exit, Reap, CreateProcess
<1> HIDE DEF Goal
<1>11. Goal
  <2>1. CASE UNCHANGED vars
    BY <2>1, <1>1, Zenon DEF vars
  <2>2. CASE Next
    <3>1. ASSUME NEW p \in Procs, NEW obj, NEW rights, CreateAllocate(p, obj, rights) PROVE Goal
      BY <3>1, <1>1, Zenon DEF CreateAllocate
    <3>2. ASSUME NEW p \in Procs, NEW t, NEW required,
                 CheckBegin(p, t, required) \/ TableCheck(p, t, required)
          PROVE  Goal
      BY <3>2, <1>1, Zenon DEF CheckBegin, TableCheck
    <3>3. ASSUME NEW p \in Procs, NEW q, NEW t, NEW requested, TransferBegin(p, q, t, requested)
          PROVE  Goal
      BY <3>3, <1>1, Zenon DEF TransferBegin
    <3>4. ASSUME NEW p \in Procs, CheckValid(p) \/ TransferValid(p) \/ LockTarget(p) PROVE Goal
      BY <3>4, <1>1, Zenon DEF CheckValid, TransferValid, LockTarget
    <3>5. ASSUME NEW p \in Procs, Delegate(p) PROVE Goal
      BY <3>5, <1>1, Zenon DEF Delegate
    <3>6. ASSUME NEW p \in Procs, NEW q \in Procs, ForkLockParent(p, q) PROVE Goal
      BY <3>6, <1>1, Zenon DEF ForkLockParent
    <3> QED
      BY <2>2, <3>1, <3>2, <3>3, <3>4, <3>5, <3>6, <1>2, <1>3, <1>4, <1>5, <1>6, <1>7, <1>8,
         <1>9, <1>10, Zenon DEF Next
  <2> QED BY <2>1, <2>2, Zenon
<1> QED
  BY <1>11, Zenon DEF Goal
-----------------------------------------------------------------------------
(* What operations in progress rely on stays true.                         *)

\* An operation that does not move keeps what it relies on when ids are only
\* registered or revoked, its own id not by others, and its entry stays.
LEMMA CallKept ==
  ASSUME CapInv, NEW q \in Procs, call'[q] = call[q],
         next_id <= next_id', next_id' \in Nat,
         \A id \in Ids : registry[id].registered =>
             /\ registry'[id].registered
             /\ registry'[id].object = registry[id].object
             /\ registry[id].revoked => registry'[id].revoked
             /\ minted'[id] = minted[id],
         call[q].pc = "register" => ~registry'[call[q].token.id].registered,
         call[q].pc = "delegate_insert" => Holds(spaces'[q], call[q].token)
  PROVE  CallOk(call[q], spaces[q])'
<1> DEFINE c == call[q]
<1>1. CallOk(c, spaces[q]) /\ next_id \in Nat /\ c \in Calls
  BY DEF CapInv, TypeOK
<1>2. c.pc \in {"register", "insert"} => c.token.id < next_id'
  <2>1. c.pc \in {"register", "insert"} => c.token.id < next_id /\ c.token.id \in Nat
    BY <1>1, Zenon DEF CallOk, Calls, Tokens
  <2> QED BY <1>1, <2>1
<1>3. c.pc = "delegate_insert" =>
         registry[c.token.id].registered /\ c.token.id \in Ids
  <2>1. ASSUME c.pc = "delegate_insert"
        PROVE  registry[c.token.id].registered /\ c.token.id \in Ids
    <3>1. Holds(spaces[q], c.token) /\ c.token \in Tokens
      BY <1>1, <2>1, Zenon DEF CallOk, Calls
    <3> DEFINE e == spaces[q].table[SlotOf(c.token.id)]
    <3>2. EntryOk(e, SlotOf(c.token.id), registry, minted) /\ e.token = c.token
          /\ c.token.id \in Ids
      BY <3>1, HeldEntry
    <3> HIDE DEF e
    <3> QED BY <3>2, Zenon DEF EntryOk
  <2> QED BY <2>1, Zenon
<1>4. c.pc \in {"register", "insert"} =>
         c.token.id \in Ids /\ c.token = Token(c.token.id, c.obj, c.rights)
  BY <1>1, Zenon DEF CallOk
<1>5. c.pc = "insert" =>
         /\ registry'[c.token.id].registered
         /\ registry'[c.token.id].object = c.obj
         /\ c.rights = minted'[c.token.id]
  <2>1. c.pc = "insert" =>
           /\ c.token.id \in Ids
           /\ registry[c.token.id].registered
           /\ registry[c.token.id].object = c.obj
           /\ c.rights = minted[c.token.id]
    BY <1>1, Zenon DEF CallOk
  <2> QED BY <2>1, Zenon
<1>6. c.pc \in {"check_valid", "transfer_valid"} =>
         c.token.id \in Ids /\ (c.stale => IsRevoked(c.token.id)')
  <2>1. c.pc \in {"check_valid", "transfer_valid"} =>
           c.token.id \in Ids /\ (c.stale => IsRevoked(c.token.id))
    BY <1>1, Zenon DEF CallOk
  <2> QED BY <2>1, Zenon DEF IsRevoked
<1>7. c.pc \in {"lock_target", "delegate", "delegate_insert"} => c.token.id \in Ids /\ ~c.stale
  BY <1>1, Zenon DEF CallOk
<1>8. c.pc = "delegate_insert" => c.obj = registry'[c.token.id].object
  <2>1. c.pc = "delegate_insert" => c.obj = registry[c.token.id].object
    BY <1>1, Zenon DEF CallOk
  <2> QED BY <1>3, <2>1, Zenon
<1>9. c.pc \in {"transfer_valid", "lock_target", "delegate", "delegate_insert", "lock_child"}
         => c.peer \in Procs
  BY <1>1, Zenon DEF CallOk
<1> QED
  BY <1>2, <1>4, <1>5, <1>6, <1>7, <1>8, <1>9, Zenon DEF CallOk

\* Every step keeps what each call under way relies on.
LEMMA CallsNext ==
  CapInv /\ [Next]_vars => \A p \in Procs : CallOk(call[p], spaces[p])'
<1> SUFFICES ASSUME CapInv, [Next]_vars, NEW q \in Procs
             PROVE  CallOk(call[q], spaces[q])'
  OBVIOUS
<1> DEFINE Goal == CallOk(call[q], spaces[q])'
           SameIds == UNCHANGED <<registry, next_id, minted>>
<1>0. /\ TypeOK
      /\ spaces \in [Procs -> Spaces]
      /\ next_id \in Nat
      /\ call \in [Procs -> Calls]
      /\ CallOk(call[q], spaces[q])
      /\ call[q].pc = "register" => ~registry[call[q].token.id].registered
      /\ call[q].pc = "delegate_insert" => Holds(spaces[q], call[q].token)
      /\ call[q].token \in Tokens
  <2>1. TypeOK /\ CallOk(call[q], spaces[q])
    BY Zenon DEF CapInv
  <2>2. spaces \in [Procs -> Spaces] /\ call \in [Procs -> Calls] /\ next_id \in Nat
    BY <2>1 DEF TypeOK
  <2>3. call[q].token \in Tokens
    BY <2>2, Zenon DEF Calls
  <2> QED
    BY <2>1, <2>2, <2>3, Zenon DEF CallOk
<1>a. ASSUME call'[q] = call[q], SameIds,
             call[q].pc = "delegate_insert" => Holds(spaces'[q], call[q].token)
      PROVE  Goal
  <2>1. next_id <= next_id' /\ next_id' \in Nat
    BY <1>a, <1>0
  <2>2. \A id \in Ids : registry[id].registered =>
             /\ registry'[id].registered
             /\ registry'[id].object = registry[id].object
             /\ registry[id].revoked => registry'[id].revoked
             /\ minted'[id] = minted[id]
    BY <1>a, Zenon
  <2>3. call[q].pc = "register" => ~registry'[call[q].token.id].registered
    BY <1>a, <1>0, Zenon
  <2> QED BY <1>a, <2>1, <2>2, <2>3, CallKept, Zenon
<1>b. ASSUME call'[q] = call[q], SameIds, spaces'[q] = spaces[q] PROVE Goal
  BY <1>a, <1>b, <1>0, Zenon
<1>c. ASSUME call'[q] = call[q], SameIds, call[q].pc = "idle" PROVE Goal
  BY <1>a, <1>c, Zenon
<1>d. ASSUME call'[q].pc = "idle" PROVE Goal
  BY <1>d, Zenon DEF CallOk
<1>e. Idle.pc = "idle"
  BY Zenon DEF Idle
<1>1. ASSUME UNCHANGED vars PROVE Goal
  BY <1>1, <1>b, Zenon DEF vars
<1>2. ASSUME NEW p \in Procs, NEW obj \in Objects, NEW rights \in Minted,
             CreateAllocate(p, obj, rights)
      PROVE  Goal
  <2>1. CASE q # p
    <3>1. call'[q] = call[q] /\ next_id' = next_id + 1
      BY <1>0, <1>2, <2>1, Zenon DEF CreateAllocate, AllocateId
    <3> QED
      BY <1>0, <1>2, <3>1, CallKept DEF CreateAllocate
  <2>2. CASE q = p
    <3> DEFINE t == Token(next_id, obj, rights)
    <3>1. /\ call'[q].pc = "register" /\ call'[q].token = t
          /\ call'[q].obj = obj /\ call'[q].rights = rights
      BY <1>0, <1>2, <2>2, Zenon DEF CreateAllocate, Idle
    <3>2. t.id = next_id /\ next_id \in Ids /\ next_id < next_id'
      BY <1>0, <1>2, CapManagerAssumption
         DEF CreateAllocate, AllocateId, Token, Ids, CapInv, TypeOK
    <3>3. ~registry'[next_id].registered
      BY <1>0, <1>2, <3>2 DEF CreateAllocate, CapInv
    <3>4. t = Token(t.id, obj, rights)
      BY <3>2, Zenon
    <3> HIDE DEF t
    <3> QED
      BY <3>1, <3>2, <3>3, <3>4, Zenon DEF CallOk
  <2> QED BY <2>1, <2>2, Zenon
<1>3. ASSUME NEW p \in Procs, CreateRegister(p) PROVE Goal
  <2> DEFINE i == call[p].token.id
  <2>1. i \in Ids /\ ~registry[i].registered /\ i < next_id
        /\ call[p].token = Token(i, call[p].obj, call[p].rights)
    BY <1>3, Zenon DEF CreateRegister, At, CapInv, CallOk
  <2>2. /\ registry' = [registry EXCEPT ![i] =
               [registered |-> TRUE, object |-> call[p].obj,
                generation |-> 0, revoked |-> FALSE]]
        /\ minted' = [minted EXCEPT ![i] = call[p].rights]
        /\ next_id' = next_id /\ spaces' = spaces
        /\ call' = [call EXCEPT ![p].pc = "insert"]
        /\ call[p].pc = "register"
    BY <1>3, Zenon DEF CreateRegister, Goto, At
  <2>3. \A id \in Ids : id # i => registry'[id] = registry[id] /\ minted'[id] = minted[id]
    BY <2>1, <2>2, Zenon DEF CapInv, TypeOK
  <2>4. CASE q # p
    <3>1. call'[q] = call[q]
      BY <1>0, <2>2, <2>4, Zenon
    <3>2. call[q].pc = "register" => ~registry'[call[q].token.id].registered
      <4>1. call[q].pc = "register" => call[q].token.id # i /\ call[q].token.id \in Ids
        BY <1>0, <2>2, <2>4, Zenon DEF CapInv, CallOk
      <4> QED BY <1>0, <2>3, <4>1, Zenon
    <3>3. \A id \in Ids : registry[id].registered =>
             /\ registry'[id] = registry[id]
             /\ minted'[id] = minted[id]
      BY <2>1, <2>3, Zenon
    <3> HIDE DEF i
    <3> QED
      BY <1>0, <2>2, <3>1, <3>2, <3>3, CallKept
  <2>5. CASE q = p
    <3>1. /\ call'[q].pc = "insert" /\ call'[q].token = call[p].token
          /\ call'[q].obj = call[p].obj /\ call'[q].rights = call[p].rights
      BY <1>0, <2>2, <2>5, Zenon DEF Calls
    <3>2. registry'[i].registered /\ registry'[i].object = call[p].obj
          /\ minted'[i] = call[p].rights
      BY <2>1, <2>2, Zenon DEF CapInv, TypeOK
    <3> QED
      BY <2>1, <2>2, <3>1, <3>2, Zenon DEF CallOk
  <2> QED BY <2>4, <2>5, Zenon
<1>4. ASSUME NEW p \in Procs, CreateInsert(p) \/ CheckValid(p) PROVE Goal
  <2>1. CASE q # p
    <3>1. call'[q] = call[q] /\ spaces'[q] = spaces[q] /\ SameIds
      BY <1>0, <1>4, <2>1, Zenon DEF CreateInsert, CheckValid, Return
    <3> QED BY <3>1, <1>b, Zenon
  <2>2. CASE q = p
    <3>1. call'[q].pc = "idle"
      BY <1>0, <1>4, <1>e, <2>2, Zenon DEF CreateInsert, CheckValid, Return
    <3> QED BY <3>1, <1>d, Zenon
  <2> QED BY <2>1, <2>2, Zenon
<1>5. ASSUME NEW p \in Procs, NEW t \in HeldTokens(p), NEW required,
             CheckBegin(p, t, required)
      PROVE  Goal
  <2>1. CASE q # p
    <3>1. call'[q] = call[q] /\ spaces'[q] = spaces[q] /\ SameIds
      BY <1>0, <1>5, <2>1, Zenon DEF CheckBegin
    <3> QED BY <3>1, <1>b, Zenon
  <2>2. CASE q = p
    <3>1. call'[q].pc = "check_valid" /\ call'[q].token = t /\ call'[q].stale = IsRevoked(t.id)
      BY <1>0, <1>5, <2>2, Zenon DEF CheckBegin, Idle
    <3>2. t.id \in Ids /\ (IsRevoked(t.id) => IsRevoked(t.id)')
      BY <1>5, HeldFound, Zenon DEF CheckBegin, IsRevoked
    <3> QED BY <3>1, <3>2, Zenon DEF CallOk
  <2> QED BY <2>1, <2>2, Zenon
<1>6. ASSUME NEW p \in Procs, NEW t \in HeldTokens(p), NEW r \in Procs,
             NEW requested, TransferBegin(p, r, t, requested)
      PROVE  Goal
  <2>1. CASE q # p
    <3>1. call'[q] = call[q] /\ spaces'[q] = spaces[q] /\ SameIds
      BY <1>0, <1>6, <2>1, Zenon DEF TransferBegin
    <3> QED BY <3>1, <1>b, Zenon
  <2>2. CASE q = p
    <3>1. /\ call'[q].pc = "transfer_valid" /\ call'[q].token = t
          /\ call'[q].stale = IsRevoked(t.id) /\ call'[q].peer = r
      BY <1>0, <1>6, <2>2, Zenon DEF TransferBegin, Idle
    <3>2. t.id \in Ids /\ (IsRevoked(t.id) => IsRevoked(t.id)')
      BY <1>6, HeldFound, Zenon DEF TransferBegin, IsRevoked
    <3> QED BY <3>1, <3>2, Zenon DEF CallOk
  <2> QED BY <2>1, <2>2, Zenon
<1>7. ASSUME NEW p \in Procs, NEW t \in HeldTokens(p), Revoke(p, t) PROVE Goal
  <2>1. t.id \in Ids
    BY HeldFound, Zenon
  <2>2. /\ registry' = [registry EXCEPT ![t.id].revoked = TRUE,
                                        ![t.id].generation = (@ + 1) % 256]
        /\ registry[t.id].registered
        /\ UNCHANGED <<spaces, next_id, call, minted>>
    BY <1>7, Zenon DEF Revoke
  <2>3. \A id \in Ids : /\ registry'[id].registered <=> registry[id].registered
                        /\ registry'[id].object = registry[id].object
                        /\ registry[id].revoked => registry'[id].revoked
    BY <1>0, <2>1, <2>2 DEF TypeOK, RegistryEntries
  <2>4. call[q].pc = "register" => call[q].token.id \in Ids
    BY <1>0, Zenon DEF CallOk
  <2>5. \A id \in Ids : registry[id].registered =>
             /\ registry'[id].registered
             /\ registry'[id].object = registry[id].object
             /\ registry[id].revoked => registry'[id].revoked
             /\ minted'[id] = minted[id]
    <3>1. minted' = minted
      BY <2>2, Zenon
    <3> QED BY <2>3, <3>1, Zenon
  <2>6. call[q].pc = "register" => ~registry'[call[q].token.id].registered
    <3>1. call[q].pc = "register" => ~registry[call[q].token.id].registered
      BY <1>0, Zenon
    <3> QED BY <2>3, <2>4, <3>1, Zenon
  <2>7. /\ call'[q] = call[q] /\ next_id <= next_id' /\ next_id' \in Nat
        /\ call[q].pc = "delegate_insert" => Holds(spaces'[q], call[q].token)
    BY <1>0, <2>2
  <2> QED
    BY <2>5, <2>6, <2>7, CallKept, Zenon
<1>8. ASSUME NEW p \in Procs, NEW t, RemoveHeld(p, t) PROVE Goal
  <2>1. CASE q # p
    <3>1. call'[q] = call[q] /\ spaces'[q] = spaces[q] /\ SameIds
      BY <1>0, <1>8, <2>1, Zenon DEF RemoveHeld
    <3> QED BY <3>1, <1>b, Zenon
  <2>2. CASE q = p
    BY <1>8, <2>2, <1>c, Zenon DEF RemoveHeld, Unlocked
  <2> QED BY <2>1, <2>2, Zenon
<1>9. ASSUME NEW p \in Procs, TransferValid(p) PROVE Goal
  <2>1. CASE q # p
    <3>1. call'[q] = call[q] /\ spaces'[q] = spaces[q] /\ SameIds
      BY <1>0, <1>9, <2>1, Zenon DEF TransferValid, Return, Goto
    <3> QED BY <3>1, <1>b, Zenon
  <2>2. CASE q = p /\ call'[q].pc = "idle"
    BY <2>2, <1>d, Zenon
  <2>3. CASE q = p /\ IsValid(call[p].token.id) /\ Goto(p, "lock_target")
    <3>1. /\ call'[q].pc = "lock_target" /\ call'[q].token = call[q].token
          /\ call'[q].stale = call[q].stale /\ call'[q].peer = call[q].peer
      BY <1>0, <2>3, Zenon DEF Goto, Calls
    <3>2. call[q].token.id \in Ids /\ ~call[q].stale /\ call[q].peer \in Procs
      BY <1>0, <1>9, <2>3, Zenon DEF TransferValid, At, CallOk, IsValid, IsRevoked
    <3> QED BY <3>1, <3>2, Zenon DEF CallOk
  <2>4. q = p => call'[q].pc = "idle" \/ (IsValid(call[p].token.id) /\ Goto(p, "lock_target"))
    BY <1>0, <1>9, <1>e, Zenon DEF TransferValid, Return
  <2> QED BY <2>1, <2>2, <2>3, <2>4, Zenon
<1>10. ASSUME NEW p \in Procs, LockTarget(p) PROVE Goal
  <2>1. CASE q # p
    <3>1. call'[q] = call[q] /\ spaces'[q] = spaces[q] /\ SameIds
      BY <1>0, <1>10, <2>1, Zenon DEF LockTarget, Goto
    <3> QED BY <3>1, <1>b, Zenon
  <2>2. CASE q = p
    <3>1. /\ call'[q].pc = "delegate" /\ call'[q].token = call[q].token
          /\ call'[q].stale = call[q].stale /\ call'[q].peer = call[q].peer
      BY <1>0, <1>10, <2>2, Zenon DEF LockTarget, Goto, Calls
    <3>2. call[q].token.id \in Ids /\ ~call[q].stale /\ call[q].peer \in Procs
      BY <1>0, <1>10, <2>2, Zenon DEF LockTarget, At, CallOk
    <3> QED BY <3>1, <3>2, Zenon DEF CallOk
  <2> QED BY <2>1, <2>2, Zenon
<1>11. ASSUME NEW p \in Procs, Delegate(p) PROVE Goal
  <2> DEFINE ob == registry[call[p].token.id].object
  <2>1. CASE q # p
    <3>1. call'[q] = call[q] /\ spaces'[q] = spaces[q] /\ SameIds
      BY <1>0, <1>11, <2>1, Zenon DEF Delegate, Return
    <3> QED BY <3>1, <1>b, Zenon
  <2>2. CASE q = p /\ call'[q].pc = "idle"
    BY <2>2, <1>d, Zenon
  <2>3. CASE /\ q = p /\ Holds(spaces[p], call[p].token)
             /\ call' = [call EXCEPT ![p].pc = "delegate_insert", ![p].obj = ob]
    <3>1. /\ call'[q].pc = "delegate_insert" /\ call'[q].token = call[q].token
          /\ call'[q].stale = call[q].stale /\ call'[q].peer = call[q].peer
          /\ call'[q].obj = ob
      BY <1>0, <2>3, Zenon DEF Calls
    <3>2. call[q].token.id \in Ids /\ ~call[q].stale /\ call[q].peer \in Procs
      BY <1>0, <1>11, <2>3, Zenon DEF Delegate, At, CallOk
    <3>3. spaces' = spaces /\ registry' = registry
      BY <1>11, Zenon DEF Delegate
    <3> QED BY <2>3, <3>1, <3>2, <3>3, Zenon DEF CallOk
  <2>4. q = p => \/ call'[q].pc = "idle"
                 \/ /\ Holds(spaces[p], call[p].token)
                    /\ call' = [call EXCEPT ![p].pc = "delegate_insert", ![p].obj = ob]
    BY <1>0, <1>11, <1>e, Zenon DEF Delegate, Return, CheckRights
  <2> QED BY <2>1, <2>2, <2>3, <2>4, Zenon
<1>12. ASSUME NEW p \in Procs, DelegateInsert(p) PROVE Goal
  <2> DEFINE r == call[p].peer
  <2>1. call[p].pc = "delegate_insert" /\ r \in Procs
    BY <1>12, Zenon DEF DelegateInsert, At, CapInv, CallOk
  <2>2. CASE q = p
    <3>1. call'[q].pc = "idle"
      BY <1>0, <1>12, <1>e, <2>2, Zenon DEF DelegateInsert, Return
    <3> QED BY <3>1, <1>d, Zenon
  <2>3. CASE q # p
    <3>1. call'[q] = call[q] /\ SameIds
      BY <1>0, <1>12, <2>3, Zenon DEF DelegateInsert, Return
    <3>2. /\ spaces' = [spaces EXCEPT ![r] =
               Insert(spaces[r], DerivedToken(p), call[p].obj, DerivedRights(p))]
      BY <1>12, Zenon DEF DelegateInsert
    <3>3. DerivedToken(p) \in Tokens
      BY <2>1, DerivedOk, Zenon
    <3>4. CASE q # r
      BY <1>0, <3>1, <3>2, <3>4, <1>b, Zenon
    <3>5. CASE q = r
      <4>1. spaces'[q] = Insert(spaces[q], DerivedToken(p), call[p].obj, DerivedRights(p))
        BY <1>0, <3>2, <3>5, Zenon
      <4>2. call[q].pc = "delegate_insert" => Holds(spaces'[q], call[q].token)
        BY <1>0, <3>3, <4>1, InsertHolds, Zenon
      <4> QED BY <3>1, <4>2, <1>a, Zenon
    <3> QED BY <3>4, <3>5, Zenon
  <2> QED BY <2>2, <2>3, Zenon
<1>13. ASSUME NEW p \in Procs, NEW id \in Ids, DropGuard(p, id) PROVE Goal
  <2>1. CASE q # p
    <3>1. call'[q] = call[q] /\ spaces'[q] = spaces[q] /\ SameIds
      BY <1>0, <1>13, <2>1, Zenon DEF DropGuard
    <3> QED BY <3>1, <1>b, Zenon
  <2>2. CASE q = p
    BY <1>13, <2>2, <1>c, Zenon DEF DropGuard, Unlocked
  <2> QED BY <2>1, <2>2, Zenon
<1>14. ASSUME NEW p \in Procs, NEW r \in Procs, ForkClone(p, r) PROVE Goal
  <2>1. CASE q # r
    <3>1. call'[q] = call[q] /\ spaces'[q] = spaces[q] /\ SameIds
      BY <1>0, <1>14, <2>1, Zenon DEF ForkClone
    <3> QED BY <3>1, <1>b, Zenon
  <2>2. CASE q = r
    <3>1. call[q].pc = "idle"
      BY <1>14, <2>2, Zenon DEF ForkClone, CapInv
    <3> QED BY <1>14, <3>1, <1>c, Zenon DEF ForkClone
  <2> QED BY <2>1, <2>2, Zenon
<1>15. ASSUME NEW p \in Procs, NEW r \in Procs, ForkLockParent(p, r) PROVE Goal
  <2>1. CASE q # p
    <3>1. call'[q] = call[q] /\ spaces'[q] = spaces[q] /\ SameIds
      BY <1>0, <1>15, <2>1, Zenon DEF ForkLockParent
    <3> QED BY <3>1, <1>b, Zenon
  <2>2. CASE q = p
    <3>1. call'[q].pc = "lock_child" /\ call'[q].peer = r
      BY <1>0, <1>15, <2>2, Zenon DEF ForkLockParent, Idle
    <3> QED BY <3>1, Zenon DEF CallOk
  <2> QED BY <2>1, <2>2, Zenon
<1>16. ASSUME NEW p \in Procs, ForkInherit(p) PROVE Goal
  <2> DEFINE r == call[p].peer
  <2>1. r \in Procs
    BY <1>16, Zenon DEF ForkInherit, At, CapInv, CallOk
  <2>2. CASE q = p
    <3>1. call'[q].pc = "idle"
      BY <1>0, <1>16, <1>e, <2>2, Zenon DEF ForkInherit, Return
    <3> QED BY <3>1, <1>d, Zenon
  <2>3. CASE q # p
    <3>1. call'[q] = call[q] /\ SameIds
      BY <1>0, <1>16, <2>3, Zenon DEF ForkInherit, Return
    <3>2. spaces' = [spaces EXCEPT ![r] = Inherit(spaces[p], spaces[r])]
      BY <1>16, Zenon DEF ForkInherit
    <3>3. CASE q # r
      BY <1>0, <3>1, <3>2, <3>3, <1>b, Zenon
    <3>4. CASE q = r
      BY <1>16, <3>1, <3>4, <1>c, Zenon DEF ForkInherit, Unlocked
    <3> QED BY <3>3, <3>4, Zenon
  <2> QED BY <2>2, <2>3, Zenon
<1>17. ASSUME NEW p \in Procs, Exit(p) \/ Reap(p) PROVE Goal
  <2>1. CASE q # p
    <3>1. call'[q] = call[q] /\ spaces'[q] = spaces[q] /\ SameIds
      BY <1>0, <1>17, <2>1, Zenon DEF Exit, Reap
    <3> QED BY <3>1, <1>b, Zenon
  <2>2. CASE q = p
    BY <1>17, <2>2, <1>c, Zenon DEF Exit, Reap, Unlocked
  <2> QED BY <2>1, <2>2, Zenon
<1>18. ASSUME NEW p \in Procs, CreateProcess(p) PROVE Goal
  <2>1. CASE q # p
    <3>1. call'[q] = call[q] /\ spaces'[q] = spaces[q] /\ SameIds
      BY <1>0, <1>18, <2>1, Zenon DEF CreateProcess
    <3> QED BY <3>1, <1>b, Zenon
  <2>2. CASE q = p
    <3>1. call[q].pc = "idle"
      BY <1>18, <2>2, Zenon DEF CreateProcess, CapInv
    <3> QED BY <1>18, <3>1, <1>c, Zenon DEF CreateProcess
  <2> QED BY <2>1, <2>2, Zenon
<1>19. ASSUME NEW p \in Procs, NEW t, NEW required, TableCheck(p, t, required) PROVE Goal
  BY <1>19, <1>b, Zenon DEF TableCheck
<1> HIDE DEF Goal
<1>20. Goal
  BY <1>1, <1>2, <1>3, <1>4, <1>5, <1>6, <1>7, <1>8, <1>9, <1>10, <1>11, <1>12,
     <1>13, <1>14, <1>15, <1>16, <1>17, <1>18, <1>19, Zenon DEF Next
<1> QED
  BY <1>20, Zenon DEF Goal
-----------------------------------------------------------------------------
(* The rest of the invariant, and the theorems.                            *)

\* Operations run in live processes.
LEMMA LiveNext ==
  CapInv /\ [Next]_vars => \A p \in Procs : call'[p].pc # "idle" => status'[p] = "live"
<1> SUFFICES ASSUME CapInv, [Next]_vars, NEW q \in Procs, call'[q].pc # "idle"
             PROVE  status'[q] = "live"
  OBVIOUS
<1>0. /\ call \in [Procs -> Calls]
      /\ status \in [Procs -> {"unused", "live", "zombie"}]
      /\ call[q].pc # "idle" => status[q] = "live"
      /\ Idle.pc = "idle"
  BY Zenon DEF CapInv, TypeOK, Idle
<1>1. CASE UNCHANGED <<call, status>>
  BY <1>0, <1>1, Zenon
<1>2. ASSUME NEW p \in Procs, status' = status, status[p] = "live" \/ call[p].pc # "idle",
             NEW c, call' = [call EXCEPT ![p] = c]
      PROVE  status'[q] = "live"
  BY <1>0, <1>2, Zenon DEF CapInv
<1>3. ASSUME NEW p \in Procs, status' = status, status[p] = "live" \/ call[p].pc # "idle",
             NEW pc, call' = [call EXCEPT ![p].pc = pc]
      PROVE  status'[q] = "live"
  BY <1>0, <1>3, Zenon DEF CapInv
<1>4. ASSUME NEW p \in Procs, Delegate(p) PROVE status'[q] = "live"
  <2>1. CASE q = p
    BY <1>0, <1>4, <2>1, Zenon DEF Delegate, At
  <2>2. CASE q # p
    BY <1>0, <1>4, <2>2, Zenon DEF Delegate, Return
  <2> QED BY <2>1, <2>2, Zenon
<1>5. ASSUME NEW p \in Procs, CreateProcess(p) \/ \E r \in Procs : ForkClone(p, r)
      PROVE  status'[q] = "live"
  BY <1>0, <1>5, Zenon DEF ForkClone, CreateProcess
<1>6. ASSUME NEW p \in Procs, Exit(p) \/ Reap(p) PROVE status'[q] = "live"
  BY <1>0, <1>6, Zenon DEF Exit, Reap, Unlocked
<1>7. CASE UNCHANGED vars
  BY <1>7, <1>1, Zenon DEF vars
<1>8. ASSUME NEW p \in Procs,
             \/ \E obj \in Objects, rights \in Minted : CreateAllocate(p, obj, rights)
             \/ \E t \in HeldTokens(p), required \in SUBSET RightSet : CheckBegin(p, t, required)
             \/ \E t \in HeldTokens(p), r \in Procs :
                   \E requested \in Requested(p, t) : TransferBegin(p, r, t, requested)
             \/ \E r \in Procs : ForkLockParent(p, r)
      PROVE  status'[q] = "live"
  <2>1. status' = status /\ status[p] = "live" /\ \E c : call' = [call EXCEPT ![p] = c]
    BY <1>8, Zenon DEF CreateAllocate, CheckBegin, TransferBegin, ForkLockParent
  <2> QED BY <2>1, <1>2, Zenon
<1>9. ASSUME NEW p \in Procs,
             \/ CreateRegister(p) \/ CreateInsert(p) \/ CheckValid(p) \/ TransferValid(p)
             \/ LockTarget(p) \/ DelegateInsert(p) \/ ForkInherit(p)
      PROVE  status'[q] = "live"
  <2>1. /\ status' = status /\ call[p].pc # "idle"
        /\ \/ call' = [call EXCEPT ![p] = Idle]
           \/ \E pc : call' = [call EXCEPT ![p].pc = pc]
    BY <1>9, Zenon DEF CreateRegister, CreateInsert, CheckValid, TransferValid, LockTarget,
                DelegateInsert, ForkInherit, At, Goto, Return
  <2> QED BY <2>1, <1>2, <1>3, Zenon
<1>10. ASSUME NEW p \in Procs,
              \/ \E t \in HeldTokens(p) : Revoke(p, t) \/ RemoveHeld(p, t)
              \/ \E t \in HeldTokens(p), required \in SUBSET RightSet : TableCheck(p, t, required)
              \/ \E id \in Ids : DropGuard(p, id)
       PROVE  status'[q] = "live"
  BY <1>10, <1>1, Zenon DEF Revoke, RemoveHeld, TableCheck, DropGuard
<1>11. CASE Next
  BY <1>11, <1>4, <1>5, <1>6, <1>8, <1>9, <1>10, Zenon DEF Next
<1> QED
  BY <1>7, <1>11, Zenon

\* Ids in use were handed out, and no two operations register the same one.
LEMMA IdsNext ==
  CapInv /\ [Next]_vars =>
     /\ \A p, q \in Procs : /\ p # q
                            /\ call'[p].pc = "register"
                            /\ call'[q].pc = "register"
                            => call'[p].token.id # call'[q].token.id
     /\ \A id \in Ids : registry'[id].registered => id < next_id'
<1> SUFFICES ASSUME CapInv, [Next]_vars
             PROVE  /\ \A p, q \in Procs : /\ p # q
                                           /\ call'[p].pc = "register"
                                           /\ call'[q].pc = "register"
                                           => call'[p].token.id # call'[q].token.id
                    /\ \A id \in Ids : registry'[id].registered => id < next_id'
  OBVIOUS
<1> DEFINE Own(c) == \A p, q \in Procs : /\ p # q
                                         /\ c[p].pc = "register"
                                         /\ c[q].pc = "register"
                                         => c[p].token.id # c[q].token.id
           Issued(reg, n) == \A id \in Ids : reg[id].registered => id < n
<1>0. /\ call \in [Procs -> Calls]
      /\ registry \in [Ids -> RegistryEntries]
      /\ next_id \in Nat
      /\ Own(call)
      /\ Issued(registry, next_id)
      /\ \A p \in Procs : call[p].pc = "register" => call[p].token.id \in Ids
                                                     /\ call[p].token.id < next_id
      /\ Idle.pc = "idle"
  <2>1. Own(call) /\ Issued(registry, next_id)
    BY Zenon DEF CapInv
  <2>2. \A p \in Procs : call[p].pc = "register" => call[p].token.id \in Ids
                                                    /\ call[p].token.id < next_id
    BY Zenon DEF CapInv, CallOk
  <2>3. call \in [Procs -> Calls] /\ registry \in [Ids -> RegistryEntries] /\ next_id \in Nat
    BY DEF CapInv, TypeOK
  <2> HIDE DEF Own, Issued
  <2> QED BY <2>1, <2>2, <2>3, Zenon DEF Idle
<1>1. ASSUME UNCHANGED <<call, registry, next_id>> PROVE Own(call') /\ Issued(registry', next_id')
  BY <1>0, <1>1, Zenon
<1>2. ASSUME NEW p \in Procs, NEW c, c.pc # "register", call' = [call EXCEPT ![p] = c]
      PROVE  Own(call')
  BY <1>0, <1>2, Zenon
<1>3. ASSUME NEW p \in Procs, NEW pc, pc # "register", call' = [call EXCEPT ![p].pc = pc]
      PROVE  Own(call')
  <2>1. call'[p].pc # "register"
    BY <1>0, <1>3, Zenon DEF Calls
  <2>2. \A r \in Procs : r # p => call'[r] = call[r]
    BY <1>0, <1>3, Zenon
  <2> QED BY <1>0, <2>1, <2>2
<1>4. ASSUME NEW p \in Procs, NEW obj, NEW rights, CreateAllocate(p, obj, rights)
      PROVE  Own(call') /\ Issued(registry', next_id')
  <2>1. /\ call'[p].token.id = next_id
        /\ \A r \in Procs : r # p => call'[r] = call[r]
        /\ registry' = registry /\ next_id' = next_id + 1
    BY <1>0, <1>4, Zenon DEF CreateAllocate, AllocateId, Token, Idle
  <2>2. \A r \in Procs : r # p /\ call'[r].pc = "register" => call'[r].token.id # next_id
    BY <1>0, <2>1 DEF Ids
  <2>3. Own(call')
    BY <1>0, <2>1, <2>2
  <2>4. Issued(registry', next_id')
    BY <1>0, <2>1 DEF Ids
  <2> QED BY <2>3, <2>4, Zenon
<1>5. ASSUME NEW p \in Procs, CreateRegister(p)
      PROVE  Own(call') /\ Issued(registry', next_id')
  <2>1. Own(call')
    BY <1>5, <1>3, Zenon DEF CreateRegister, Goto
  <2>2. call[p].token.id \in Ids /\ call[p].token.id < next_id
    BY <1>0, <1>5, Zenon DEF CreateRegister, At
  <2>3. Issued(registry', next_id')
    BY <1>0, <1>5, <2>2, Zenon DEF CreateRegister
  <2> QED BY <2>1, <2>3, Zenon
<1>6. ASSUME NEW p \in Procs, NEW t \in HeldTokens(p), Revoke(p, t)
      PROVE  Own(call') /\ Issued(registry', next_id')
  <2>1. t.id \in Ids
    BY HeldFound, Zenon
  <2>2. \A id \in Ids : registry'[id].registered = registry[id].registered
    BY <1>0, <1>6, <2>1 DEF Revoke, RegistryEntries
  <2> QED BY <1>0, <1>6, <2>2, Zenon DEF Revoke
<1>7. ASSUME NEW p \in Procs,
             \/ \E t \in HeldTokens(p), required \in SUBSET RightSet : CheckBegin(p, t, required)
             \/ \E t \in HeldTokens(p), q \in Procs :
                   \E requested \in Requested(p, t) : TransferBegin(p, q, t, requested)
             \/ \E q \in Procs : ForkLockParent(p, q)
      PROVE  Own(call') /\ UNCHANGED <<registry, next_id>>
  <2>1. \E c : c.pc # "register" /\ call' = [call EXCEPT ![p] = c]
    BY <1>7, Zenon DEF CheckBegin, TransferBegin, ForkLockParent, Idle
  <2> QED BY <1>7, <2>1, <1>2, Zenon DEF CheckBegin, TransferBegin, ForkLockParent
<1>8. ASSUME NEW p \in Procs,
             \/ CreateInsert(p) \/ CheckValid(p) \/ TransferValid(p) \/ LockTarget(p)
             \/ DelegateInsert(p) \/ ForkInherit(p)
      PROVE  Own(call') /\ UNCHANGED <<registry, next_id>>
  BY <1>0, <1>8, <1>2, <1>3, Zenon
     DEF CreateInsert, CheckValid, TransferValid, LockTarget, DelegateInsert, ForkInherit,
         Return, Goto
<1>9. ASSUME NEW p \in Procs, Delegate(p) PROVE Own(call') /\ UNCHANGED <<registry, next_id>>
  <2>1. call'[p].pc # "register"
    BY <1>0, <1>9 DEF Delegate, Return, Calls
  <2>2. \A r \in Procs : r # p => call'[r] = call[r]
    BY <1>0, <1>9, Zenon DEF Delegate, Return
  <2>3. Own(call')
    BY <1>0, <2>1, <2>2
  <2> QED BY <1>9, <2>3, Zenon DEF Delegate
<1>10. CASE UNCHANGED vars
  BY <1>10, <1>1, Zenon DEF vars
<1> HIDE DEF Own, Issued
<1>11. CASE Next
  <2>1. Own(call') /\ Issued(registry', next_id')
    BY <1>0, <1>11, <1>1, <1>4, <1>5, <1>6, <1>7, <1>8, <1>9, Zenon
       DEF Next, RemoveHeld, DropGuard, TableCheck, CreateProcess, ForkClone, Exit, Reap
  <2> QED BY <2>1, Zenon DEF Own, Issued
<1> QED
  BY <1>10, <1>11, Zenon DEF Own, Issued

\* No operation that asks the registry succeeds late: past is_valid the id was
\* not revoked before.
LEMMA LateNext == CapInv /\ [Next]_vars => late' \subseteq {"table"}
<1> SUFFICES ASSUME CapInv, [Next]_vars PROVE late' \subseteq {"table"}
  OBVIOUS
<1>0. late \subseteq {"table"}
  BY Zenon DEF CapInv
<1>1. ASSUME NEW p \in Procs, CheckValid(p) PROVE late' \subseteq {"table"}
  <2>1. call[p].stale => IsRevoked(call[p].token.id)
    BY <1>1, Zenon DEF CheckValid, At, CapInv, CallOk
  <2> QED BY <1>0, <1>1, <2>1, Zenon DEF CheckValid, IsValid, IsRevoked
<1>2. ASSUME NEW p \in Procs, DelegateInsert(p) PROVE late' \subseteq {"table"}
  <2>1. ~call[p].stale
    BY <1>2, Zenon DEF DelegateInsert, At, CapInv, CallOk
  <2> QED BY <1>0, <1>2, <2>1, Zenon DEF DelegateInsert
<1>3. CASE UNCHANGED vars
  BY <1>0, <1>3, Zenon DEF vars
<1>4. ASSUME NEW p \in Procs,
             \/ \E obj \in Objects, rights \in Minted : CreateAllocate(p, obj, rights)
             \/ CreateRegister(p) \/ CreateInsert(p) \/ TransferValid(p)
             \/ LockTarget(p) \/ Delegate(p) \/ ForkInherit(p) \/ Exit(p) \/ Reap(p)
             \/ CreateProcess(p)
      PROVE  late' \subseteq {"table"}
  BY <1>0, <1>4, Zenon DEF CreateAllocate, CreateRegister, CreateInsert, TransferValid,
                    LockTarget, Delegate, ForkInherit, Exit, Reap, CreateProcess
<1>5. ASSUME NEW p \in Procs,
             \/ \E t \in HeldTokens(p) :
                   \/ \E required \in SUBSET RightSet : CheckBegin(p, t, required)
                   \/ \E q \in Procs, requested \in Requested(p, t) :
                         TransferBegin(p, q, t, requested)
                   \/ Revoke(p, t)
                   \/ RemoveHeld(p, t)
             \/ \E id \in Ids : DropGuard(p, id)
             \/ \E q \in Procs : ForkClone(p, q) \/ ForkLockParent(p, q)
      PROVE  late' \subseteq {"table"}
  BY <1>0, <1>5, Zenon DEF CheckBegin, TransferBegin, Revoke, RemoveHeld, DropGuard,
                    ForkClone, ForkLockParent
<1>6. ASSUME NEW p \in Procs, NEW t, NEW required, TableCheck(p, t, required)
      PROVE  late' \subseteq {"table"}
  BY <1>0, <1>6, Zenon DEF TableCheck
<1> QED
  BY <1>1, <1>2, <1>3, <1>4, <1>5, <1>6, Zenon DEF Next

\* The empty registry and the empty spaces are sound.
LEMMA CapInit == Init => CapInv
<1> SUFFICES ASSUME Init PROVE CapInv
  OBVIOUS
<1>1. SomeObject \in Objects
  BY CapManagerAssumption, Zenon DEF SomeObject
<1>2. TypeOK
  <2>1. Unregistered \in RegistryEntries
    BY <1>1 DEF Unregistered, RegistryEntries
  <2>2. next_id \in 1 .. MaxId + 1
    BY CapManagerAssumption DEF Init
  <2> QED
    BY <2>1, <2>2, EmptyOk, IdleType, Zenon DEF Init, TypeOK
<1>3. \A p \in Procs : SpaceOk(spaces[p], registry, minted)
  BY EmptyOk, Zenon DEF Init
<1>4. \A p \in Procs : CallOk(call[p], spaces[p]) /\ call[p].pc = "idle"
  BY Zenon DEF Init, Idle, CallOk
<1>5. \A id \in Ids : ~registry[id].registered
  BY Zenon DEF Init, Unregistered
<1> QED
  BY <1>2, <1>3, <1>4, <1>5, Zenon DEF CapInv, Init

\* The invariant behind the theorems below: the operations of the capability
\* manager, in any interleaving, keep every entry and every call under way
\* sound against the registry.
THEOREM CapInvariant == Spec => []CapInv
<1>1. CapInv /\ [Next]_vars => CapInv'
  BY TypeNext, SpacesNext, CallsNext, LiveNext, IdsNext, LateNext, Zenon DEF CapInv
<1> QED
  BY CapInit, <1>1, PTL DEF Spec

\* Ids stay below the counter's limit, spaces within their slots, their counters
\* within a word, and every operation in progress holds values of its own types.
THEOREM CapTyped == Spec => []TypeOK
<1>1. CapInv => TypeOK
  BY Zenon DEF CapInv
<1> QED
  BY <1>1, CapInvariant, PTL

\* Every capability in every process's space is backed by the manager's
\* registry: same object, own slot, token in agreement with the rights.
THEOREM CapabilitiesBacked == Spec => []Backed
<1>1. CapInv => Backed
  <2>1. CapInv => \A p \in Procs : SpaceOk(spaces[p], registry, minted)
    BY Zenon DEF CapInv
  <2>2. CapInv => \A p \in Procs : \A s \in Filled(spaces[p]) :
                     EntryOk(spaces[p].table[s], s, registry, minted)
    BY <2>1, Zenon DEF SpaceOk, Filled
  <2> QED
    BY <2>2, Zenon DEF Backed, EntryOk
<1> QED
  BY <1>1, CapInvariant, PTL

\* No sequence of transfers, shares and forks yields rights beyond those the
\* capability was created with.
THEOREM RightsNeverGrow == Spec => []RightsBounded
<1>1. CapInv => RightsBounded
  BY Zenon DEF CapInv, RightsBounded, SpaceOk, EntryOk, Filled
<1> QED
  BY <1>1, CapInvariant, PTL

\* check_capability and delegate, the operations that ask the registry, never
\* succeed on a capability whose revocation was complete when they began.
THEOREM RegistryRefusesRevoked == Spec => []RevokedRefused
<1>1. CapInv => RevokedRefused
  BY Zenon DEF CapInv, RevokedRefused
<1> QED
  BY <1>1, CapInvariant, PTL

\* The registry's mark of a revoked id is never taken back, since an id is
\* registered once.
THEOREM RevokedStays == Spec => RevokedForever
<1> DEFINE Stays == \A id \in Ids : IsRevoked(id) => IsRevoked(id)'
<1>1. ASSUME CapInv, Next PROVE Stays
  <2>0. registry \in [Ids -> RegistryEntries]
    BY <1>1, Zenon DEF CapInv, TypeOK
  <2>1. ASSUME NEW p \in Procs, CreateRegister(p) PROVE Stays
    <3>1. ~registry[call[p].token.id].registered
      BY <1>1, <2>1, Zenon DEF CreateRegister, At, CapInv, CallOk
    <3> QED BY <2>0, <2>1, <3>1, Zenon DEF CreateRegister, IsRevoked
  <2>2. ASSUME NEW p \in Procs, NEW t \in HeldTokens(p), Revoke(p, t) PROVE Stays
    <3>1. \A id \in Ids : registry[id] \in RegistryEntries
      BY <2>0, Zenon
    <3> QED BY <2>0, <2>2, <3>1, Zenon DEF Revoke, IsRevoked, RegistryEntries
  <2>3. ASSUME registry' = registry PROVE Stays
    BY <2>3, Zenon DEF IsRevoked
  <2> HIDE DEF Stays
  <2>4. ASSUME NEW p \in Procs,
               \/ \E obj \in Objects, rights \in Minted : CreateAllocate(p, obj, rights)
               \/ CreateInsert(p) \/ CheckValid(p) \/ TransferValid(p) \/ LockTarget(p)
               \/ Delegate(p) \/ DelegateInsert(p) \/ ForkInherit(p) \/ Exit(p) \/ Reap(p)
               \/ CreateProcess(p)
               \/ \E t \in HeldTokens(p), required \in SUBSET RightSet : TableCheck(p, t, required)
        PROVE  Stays
    BY <2>3, <2>4, Zenon DEF CreateAllocate, CreateInsert, CheckValid, TransferValid, LockTarget,
                      Delegate, DelegateInsert, ForkInherit, Exit, Reap, CreateProcess, TableCheck
  <2>5. ASSUME NEW p \in Procs,
               \/ \E t \in HeldTokens(p) :
                     \/ \E required \in SUBSET RightSet : CheckBegin(p, t, required)
                     \/ \E q \in Procs, requested \in Requested(p, t) :
                           TransferBegin(p, q, t, requested)
                     \/ RemoveHeld(p, t)
               \/ \E id \in Ids : DropGuard(p, id)
               \/ \E q \in Procs : ForkClone(p, q) \/ ForkLockParent(p, q)
        PROVE  Stays
    BY <2>3, <2>5, Zenon DEF CheckBegin, TransferBegin, RemoveHeld, DropGuard, ForkClone,
                      ForkLockParent
  <2> QED
    BY <1>1, <2>1, <2>2, <2>4, <2>5, Zenon DEF Next
<1>2. CapInv /\ [Next]_vars => [Stays]_vars
  BY <1>1, Zenon
<1> QED
  BY <1>2, CapInvariant, PTL DEF Spec, RevokedForever

-----------------------------------------------------------------------------
(* The quota.  A table that clone_from has not filled is counted in full,  *)
(* and only tables it has filled are inherited into.                       *)

Counted(sp) == Cardinality(Filled(sp)) <= sp.used /\ sp.used <= Quota

QuotaInv ==
    /\ \A p \in Procs : p \notin cloned => Counted(spaces[p])
    /\ \A f \in forks : f[2] \in cloned
    /\ \A p \in Procs : call[p].pc = "lock_child" => call[p].peer \in cloned

\* The filled slots of a space can be counted.
LEMMA FilledFinite ==
  ASSUME NEW sp
  PROVE  IsFiniteSet(Filled(sp)) /\ Cardinality(Filled(sp)) \in Nat
<1>1. IsFiniteSet(Slots)
  BY FS_Interval, CapSpaceAssumption DEF Slots
<1>2. Filled(sp) \subseteq Slots
  BY Zenon DEF Filled
<1> QED BY <1>1, <1>2, FS_Subset, FS_CardinalityType, Zenon

\* The counter of a usize, where it does not wrap.
LEMMA WordSmall ==
  \A n \in Nat : n < WordSize => n % WordSize = n /\ (n + WordSize) % WordSize = n
  BY CapSpaceAssumption

\* An empty space is counted.
LEMMA EmptyCounted == Counted(EmptySpace)
<1>1. Filled(EmptySpace) = {} /\ EmptySpace.used = 0
  BY Zenon DEF Filled, EmptySpace
<1>2. Cardinality(Filled(EmptySpace)) = 0
  BY <1>1, FS_EmptySet, Zenon
<1> QED BY <1>1, <1>2, CapSpaceAssumption DEF Counted

\* insert counts what it adds.
LEMMA InsertCounted ==
  ASSUME NEW sp \in Spaces, NEW t \in Tokens, NEW obj, NEW rights, Counted(sp)
  PROVE  Counted(Insert(sp, t, obj, rights))
<1> DEFINE new == Insert(sp, t, obj, rights)
           s == SlotOf(t.id)
<1>1. CASE ~CanInsert(sp, t.id)
  <2>1. new = sp
    BY <1>1, Zenon DEF Insert
  <2> QED BY <2>1, Zenon
<1>2. CASE CanInsert(sp, t.id)
  <2>1. sp.used < Quota /\ sp.used \in Nat /\ sp.used \in 0 .. WordSize - 1
    BY <1>2, CapSpaceAssumption DEF CanInsert, Spaces
  <2>2. new.used = (sp.used + 1) % WordSize
    BY <1>2, Zenon DEF Insert
  <2>3. new.used = sp.used + 1
    BY <2>1, <2>2, WordSmall, CapSpaceAssumption
  <2>4. Filled(new) \subseteq Filled(sp) \cup {s}
    <3>1. \A r \in Slots : r # s => new.table[r] = sp.table[r]
      BY <1>2, Zenon DEF Insert, Spaces
    <3> HIDE DEF new, s
    <3> QED BY <3>1, Zenon DEF Filled
  <2>5. s \notin Filled(sp)
    BY <1>2, Zenon DEF CanInsert, Filled
  <2> HIDE DEF new, s
  <2>6. Cardinality(Filled(sp) \cup {s}) = Cardinality(Filled(sp)) + 1
        /\ IsFiniteSet(Filled(sp) \cup {s})
    BY <2>5, FilledFinite, FS_AddElement, Zenon
  <2>7. Cardinality(Filled(new)) <= Cardinality(Filled(sp)) + 1
    BY <2>4, <2>6, FS_Subset, Zenon
  <2>8. Cardinality(Filled(new)) \in Nat /\ Cardinality(Filled(sp)) \in Nat
    BY FilledFinite, Zenon
  <2>9. Counted(new)
    BY <2>1, <2>3, <2>7, <2>8, CapSpaceAssumption DEF Counted
  <2> QED BY <2>9, Zenon DEF new
<1> QED BY <1>1, <1>2, Zenon

\* remove takes out at least what it stops counting.
LEMMA RemoveCounted ==
  ASSUME NEW sp \in Spaces, NEW t \in Tokens, Counted(sp)
  PROVE  Counted(Remove(sp, t))
<1> DEFINE new == Remove(sp, t)
           s == SlotOf(t.id)
<1>0. sp.used \in Nat /\ sp.used \in 0 .. WordSize - 1
  BY CapSpaceAssumption DEF Spaces
<1>1. s \in Slots
  BY SlotOfSlots, Zenon DEF Tokens
<1>2. Filled(new) = Filled(sp) \ {s}
  <2>1. new.table = [sp.table EXCEPT ![s] = NoEntry] /\ sp.table \in [Slots -> Entries \cup {NoEntry}]
    BY Zenon DEF Remove, Spaces
  <2>2. \A r \in Slots : (r # s => new.table[r] = sp.table[r]) /\ new.table[s] = NoEntry
    BY <1>1, <2>1, Zenon
  <2> HIDE DEF new, s
  <2> QED BY <2>2, Zenon DEF Filled
<1>3. CASE Holds(sp, t)
  <2>1. s \in Filled(sp)
    BY <1>1, <1>3, Zenon DEF Holds, Filled
  <2>2. new.used = (sp.used + WordSize - 1) % WordSize
    BY <1>3, Zenon DEF Remove
  <2> HIDE DEF new, s
  <2>3. Cardinality(Filled(new)) = Cardinality(Filled(sp)) - 1
    BY <1>2, <2>1, FilledFinite, FS_RemoveElement, Zenon
  <2>4. Cardinality(Filled(new)) \in Nat /\ Cardinality(Filled(sp)) \in Nat
    BY FilledFinite, Zenon
  <2>5. sp.used - 1 \in Nat /\ sp.used - 1 < WordSize
    BY <1>0, <2>3, <2>4, CapSpaceAssumption DEF Counted
  <2>6. PICK n \in Nat : n = sp.used - 1
    BY <2>5, Zenon
  <2>7. n + WordSize = sp.used + WordSize - 1
    BY <1>0, <2>6, CapSpaceAssumption
  <2>8. (n + WordSize) % WordSize = n
    BY <2>5, <2>6, WordSmall, Zenon
  <2>9. new.used = sp.used - 1
    BY <2>2, <2>6, <2>7, <2>8, Zenon
  <2>10. Counted(new)
    BY <1>0, <2>3, <2>4, <2>9, CapSpaceAssumption DEF Counted
  <2> QED BY <2>10, Zenon DEF new
<1>4. CASE ~Holds(sp, t)
  <2>1. new.used = sp.used
    BY <1>4, Zenon DEF Remove
  <2> HIDE DEF new, s
  <2>2. Cardinality(Filled(new)) <= Cardinality(Filled(sp))
    <3>1. Filled(new) \subseteq Filled(sp)
      BY <1>2, Zenon
    <3> QED BY <3>1, FilledFinite, FS_Subset, Zenon
  <2>3. Cardinality(Filled(new)) \in Nat /\ Cardinality(Filled(sp)) \in Nat
    BY FilledFinite, Zenon
  <2>4. Counted(new)
    BY <1>0, <2>1, <2>2, <2>3, CapSpaceAssumption DEF Counted
  <2> QED BY <2>4, Zenon DEF new
<1> QED BY <1>3, <1>4, Zenon

\* Every step keeps the tables counted that clone_from has not filled.
LEMMA QuotaNext == CapInv /\ QuotaInv /\ [Next]_vars => QuotaInv'
<1> SUFFICES ASSUME CapInv, QuotaInv, [Next]_vars PROVE QuotaInv'
  OBVIOUS
<1>0. /\ TypeOK
      /\ spaces \in [Procs -> Spaces]
      /\ call \in [Procs -> Calls]
      /\ forks \subseteq Procs \X Procs
  BY Zenon DEF CapInv, TypeOK
<1>q. /\ \A p \in Procs : p \notin cloned => Counted(spaces[p])
      /\ \A f \in forks : f[2] \in cloned
      /\ \A p \in Procs : call[p].pc = "lock_child" => call[p].peer \in cloned
  BY Zenon DEF QuotaInv
<1>e. Idle.pc = "idle"
  BY Zenon DEF Idle
<1> DEFINE SameForks == forks' = forks /\ cloned' = cloned
           CallsKept == \A p \in Procs : call'[p].pc = "lock_child" => call'[p].peer \in cloned'
<1>a. ASSUME spaces' = spaces, SameForks, CallsKept PROVE QuotaInv'
  BY <1>a, <1>q, Zenon DEF QuotaInv
<1>b. ASSUME NEW q \in Procs, NEW sp, spaces' = [spaces EXCEPT ![q] = sp],
             q \notin cloned => Counted(sp), SameForks, CallsKept
      PROVE  QuotaInv'
  BY <1>0, <1>b, <1>q, Zenon DEF QuotaInv
<1>c. ASSUME NEW p \in Procs, cloned' = cloned,
             \/ call' = call
             \/ \E c : c.pc # "lock_child" /\ call' = [call EXCEPT ![p] = c]
             \/ \E pc : pc # "lock_child" /\ call' = [call EXCEPT ![p].pc = pc]
      PROVE  CallsKept
  <2>1. \A r \in Procs : r # p => call'[r] = call[r]
    BY <1>0, <1>c, Zenon
  <2>2. call'[p] = call[p] \/ call'[p].pc # "lock_child"
    BY <1>0, <1>c, Zenon DEF Calls
  <2> QED BY <1>c, <1>q, <2>1, <2>2, Zenon
<1>1. CASE UNCHANGED vars
  BY <1>1, <1>q, Zenon DEF vars, QuotaInv
<1>2. ASSUME NEW p \in Procs,
             \/ \E obj \in Objects, rights \in Minted : CreateAllocate(p, obj, rights)
             \/ \E t \in HeldTokens(p), required \in SUBSET RightSet :
                   CheckBegin(p, t, required) \/ TableCheck(p, t, required)
             \/ \E t \in HeldTokens(p), q \in Procs :
                   \E requested \in Requested(p, t) : TransferBegin(p, q, t, requested)
             \/ \E t \in HeldTokens(p) : Revoke(p, t)
      PROVE  QuotaInv'
  <2>1. /\ spaces' = spaces /\ SameForks
        /\ call' = call \/ \E c : c.pc # "lock_child" /\ call' = [call EXCEPT ![p] = c]
    BY <1>2, Zenon DEF CreateAllocate, CheckBegin, TableCheck, TransferBegin, Revoke, Idle
  <2>2. CallsKept
    BY <2>1, <1>c, Zenon
  <2> HIDE DEF CallsKept
  <2> QED BY <2>1, <2>2, <1>a, Zenon
<1>3. ASSUME NEW p \in Procs,
             \/ CreateRegister(p) \/ CheckValid(p) \/ TransferValid(p) \/ LockTarget(p)
      PROVE  QuotaInv'
  <2>1. /\ spaces' = spaces /\ SameForks
        /\ \/ call' = [call EXCEPT ![p] = Idle]
           \/ \E pc : pc # "lock_child" /\ call' = [call EXCEPT ![p].pc = pc]
    BY <1>3, Zenon DEF CreateRegister, CheckValid, TransferValid, LockTarget, Goto, Return
  <2>2. CallsKept
    BY <2>1, <1>c, <1>e, Zenon
  <2> HIDE DEF CallsKept
  <2> QED BY <2>1, <2>2, <1>a, Zenon
<1>4. ASSUME NEW p \in Procs, Delegate(p) PROVE QuotaInv'
  <2>1. spaces' = spaces /\ SameForks
    BY <1>4, Zenon DEF Delegate
  <2>2. \A r \in Procs : r # p => call'[r] = call[r]
    BY <1>0, <1>4, Zenon DEF Delegate, Return
  <2>3. call'[p].pc # "lock_child"
    <3>1. CASE call' = [call EXCEPT ![p] = Idle]
      BY <1>0, <1>e, <3>1, Zenon
    <3>2. CASE call' = [call EXCEPT ![p].pc = "delegate_insert",
                                    ![p].obj = registry[call[p].token.id].object]
      BY <1>0, <3>2, Zenon DEF Calls
    <3> QED BY <1>4, <3>1, <3>2, Zenon DEF Delegate, Return
  <2>4. CallsKept
    BY <1>q, <2>1, <2>2, <2>3, Zenon
  <2> HIDE DEF CallsKept
  <2> QED BY <2>1, <2>4, <1>a, Zenon
<1>5. ASSUME NEW p \in Procs, CreateInsert(p) PROVE QuotaInv'
  <2>1. /\ spaces' = [spaces EXCEPT ![p] =
               Insert(spaces[p], call[p].token, call[p].obj, call[p].rights)]
        /\ SameForks /\ call' = [call EXCEPT ![p] = Idle]
    BY <1>5, Zenon DEF CreateInsert, Return
  <2>2. call[p].token \in Tokens
    BY <1>0, Zenon DEF Calls
  <2>3. p \notin cloned => Counted(Insert(spaces[p], call[p].token, call[p].obj, call[p].rights))
    BY <1>0, <1>q, <2>2, InsertCounted, Zenon
  <2>4. CallsKept
    BY <2>1, <1>c, <1>e, Zenon
  <2> HIDE DEF CallsKept
  <2> QED BY <2>1, <2>3, <2>4, <1>b, Zenon
<1>6. ASSUME NEW p \in Procs, DelegateInsert(p) PROVE QuotaInv'
  <2>0. call[p].pc = "delegate_insert" /\ call[p].peer \in Procs
    BY <1>6, Zenon DEF DelegateInsert, At, CapInv, CallOk
  <2>1. /\ spaces' = [spaces EXCEPT ![call[p].peer] =
               Insert(spaces[call[p].peer], DerivedToken(p), call[p].obj, DerivedRights(p))]
        /\ SameForks /\ call' = [call EXCEPT ![p] = Idle]
    BY <1>6, Zenon DEF DelegateInsert, Return
  <2>2. DerivedToken(p) \in Tokens
    BY <2>0, DerivedOk, Zenon
  <2>3. call[p].peer \notin cloned =>
           Counted(Insert(spaces[call[p].peer], DerivedToken(p), call[p].obj, DerivedRights(p)))
    BY <1>0, <1>q, <2>0, <2>2, InsertCounted, Zenon
  <2>4. CallsKept
    BY <2>1, <1>c, <1>e, Zenon
  <2> HIDE DEF CallsKept
  <2> QED BY <2>0, <2>1, <2>3, <2>4, <1>b, Zenon
<1>7. ASSUME NEW p \in Procs,
             \/ \E t \in HeldTokens(p) : RemoveHeld(p, t)
             \/ \E id \in Ids : DropGuard(p, id)
      PROVE  QuotaInv'
  <2>1. PICK t \in Tokens : spaces' = [spaces EXCEPT ![p] = Remove(spaces[p], t)]
    <3>1. \A id \in Ids : BareToken(id) \in Tokens
      BY DEF BareToken, Tokens, Ids
    <3> QED BY <1>0, <1>7, <3>1, HeldType, Zenon DEF RemoveHeld, DropGuard
  <2>2. SameForks /\ call' = call
    BY <1>7, Zenon DEF RemoveHeld, DropGuard
  <2>3. p \notin cloned => Counted(Remove(spaces[p], t))
    BY <1>0, <1>q, RemoveCounted, Zenon
  <2>4. CallsKept
    BY <2>2, <1>c, Zenon
  <2> HIDE DEF CallsKept
  <2> QED BY <2>1, <2>2, <2>3, <2>4, <1>b, Zenon
<1>8. ASSUME NEW p \in Procs, NEW q \in Procs, ForkClone(p, q) PROVE QuotaInv'
  <2>1. /\ cloned' = cloned \cup {q} /\ forks' = forks \cup {<<p, q>>} /\ call' = call
        /\ spaces' = [spaces EXCEPT ![q] = CloneFrom(spaces[p])]
    BY <1>8, Zenon DEF ForkClone
  <2>2. \A r \in Procs : r \notin cloned' => Counted(spaces'[r])
    BY <1>0, <1>q, <2>1, Zenon
  <2>3. \A f \in forks' : f[2] \in cloned'
    BY <1>q, <2>1
  <2>4. \A r \in Procs : call'[r].pc = "lock_child" => call'[r].peer \in cloned'
    BY <1>q, <2>1, Zenon
  <2> QED BY <2>2, <2>3, <2>4, Zenon DEF QuotaInv
<1>9. ASSUME NEW p \in Procs, NEW q \in Procs, ForkLockParent(p, q) PROVE QuotaInv'
  <2>1. /\ <<p, q>> \in forks /\ forks' = forks \ {<<p, q>>} /\ cloned' = cloned /\ spaces' = spaces
        /\ call' = [call EXCEPT ![p] = [Idle EXCEPT !.pc = "lock_child", !.peer = q]]
    BY <1>9, Zenon DEF ForkLockParent
  <2>2. q \in cloned
    BY <1>q, <2>1
  <2>3. \A r \in Procs : call'[r].pc = "lock_child" => call'[r].peer \in cloned'
    BY <1>0, <1>q, <2>1, <2>2, Zenon DEF Idle
  <2> QED BY <1>q, <2>1, <2>3, Zenon DEF QuotaInv
<1>10. ASSUME NEW p \in Procs, ForkInherit(p) PROVE QuotaInv'
  <2>1. call[p].pc = "lock_child" /\ call[p].peer \in Procs /\ call[p].peer \in cloned
    BY <1>10, <1>q, Zenon DEF ForkInherit, At, CapInv, CallOk
  <2>2. /\ spaces' = [spaces EXCEPT ![call[p].peer] = Inherit(spaces[p], spaces[call[p].peer])]
        /\ SameForks /\ call' = [call EXCEPT ![p] = Idle]
    BY <1>10, Zenon DEF ForkInherit, Return
  <2>3. CallsKept
    BY <2>2, <1>c, <1>e, Zenon
  <2> HIDE DEF CallsKept
  <2> QED BY <2>1, <2>2, <2>3, <1>b, Zenon
<1>11. ASSUME NEW p \in Procs, CreateProcess(p) PROVE QuotaInv'
  <2>1. spaces' = [spaces EXCEPT ![p] = EmptySpace] /\ SameForks /\ call' = call
    BY <1>11, Zenon DEF CreateProcess
  <2>2. CallsKept
    BY <2>1, <1>c, Zenon
  <2> HIDE DEF CallsKept
  <2> QED BY <2>1, <2>2, <1>b, EmptyCounted, Zenon
<1>12. ASSUME NEW p \in Procs, Exit(p) PROVE QuotaInv'
  <2>1. /\ spaces' = [spaces EXCEPT ![p] = EmptySpace] /\ call' = call /\ cloned' = cloned
        /\ forks' = {f \in forks : f[1] # p}
    BY <1>12, Zenon DEF Exit
  <2>2. \A r \in Procs : r \notin cloned' => Counted(spaces'[r])
    BY <1>0, <1>q, <2>1, EmptyCounted, Zenon
  <2> QED BY <1>q, <2>1, <2>2, Zenon DEF QuotaInv
<1>13. ASSUME NEW p \in Procs, Reap(p) PROVE QuotaInv'
  <2>1. /\ spaces' = [spaces EXCEPT ![p] = EmptySpace] /\ call' = call
        /\ cloned' = cloned \ {p} /\ forks' = {f \in forks : f[2] # p}
        /\ \A r \in Procs : call[r].peer # p
    BY <1>13, Zenon DEF Reap
  <2>2. \A r \in Procs : r \notin cloned' => Counted(spaces'[r])
    BY <1>0, <1>q, <2>1, EmptyCounted, Zenon
  <2>3. \A f \in forks' : f[2] \in cloned'
    BY <1>q, <2>1, Zenon
  <2>4. \A r \in Procs : call'[r].pc = "lock_child" => call'[r].peer \in cloned'
    BY <1>q, <2>1, Zenon
  <2> QED BY <2>2, <2>3, <2>4, Zenon DEF QuotaInv
<1> QED
  BY <1>1, <1>2, <1>3, <1>4, <1>5, <1>6, <1>7, <1>8, <1>9, <1>10, <1>11, <1>12, <1>13,
     Zenon DEF Next

\* The quota holds, and the counter does not wrap, in every table that was not
\* filled by clone_from: inserts, removals by token or by id alone, refused
\* inserts and delegations from other processes included.
THEOREM QuotaHolds == Spec => []QuotaKept
<1>1. Init => QuotaInv
  <2> SUFFICES ASSUME Init PROVE QuotaInv
    OBVIOUS
  <2>1. \A p \in Procs : spaces[p] = EmptySpace /\ call[p].pc = "idle"
    BY Zenon DEF Init, Idle
  <2>2. forks = {}
    BY Zenon DEF Init
  <2> QED BY <2>1, <2>2, EmptyCounted, Zenon DEF QuotaInv
<1>2. QuotaInv => QuotaKept
  BY Zenon DEF QuotaInv, QuotaKept, Counted
<1> QED
  BY <1>1, <1>2, QuotaNext, CapInvariant, PTL DEF Spec
=============================================================================
