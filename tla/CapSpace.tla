------------------------------ MODULE CapSpace ------------------------------
(***************************************************************************)
(* A process's capability table (kernel/src/cap/space.rs): what each       *)
(* method of CapabilitySpace does to the value of a space.  A space is a   *)
(* record of its table, one entry or NoEntry per slot, and its counter     *)
(* `used'.  The methods run under the mutex of the process that owns the   *)
(* space, so each is one step of the modules that use them.                *)
(***************************************************************************)
EXTENDS Integers, FiniteSets

CONSTANTS
    Objects,    \* the kernel objects capabilities refer to
    TypeCode,   \* Objects -> Nat, ObjectRef::type_code
    RightSet,   \* the individual access rights
    FlagRights, \* those that have a bit in the token's flags
    L1Size,     \* L1_SIZE
    L2Span,     \* ids told apart by the L2 key and index: 2^16 tables of L2_SIZE
    Quota,      \* the space's quota
    WordSize    \* values of a usize

ASSUME CapSpaceAssumption ==
    /\ TypeCode \in [Objects -> Nat]
    /\ FlagRights \subseteq RightSet
    /\ L1Size \in Nat
    /\ L2Span \in Nat \ {0}
    /\ Quota \in Nat
    /\ WordSize \in Nat \ {0}
    /\ Quota < WordSize

(***************************************************************************)
(* CapabilityToken: id, object type and flags, compared as one 64-bit      *)
(* word.  The token's generation is that of the manager, which never       *)
(* changes, and is left out.                                               *)
(***************************************************************************)
Token(id, obj, rights) ==
    [id |-> id, type |-> TypeCode[obj], flags |-> rights \cap FlagRights]

\* from_id_and_generation builds a token with type 0 and no flags.
BareToken(id) == [id |-> id, type |-> 0, flags |-> {}]

Tokens == [id : Nat, type : Nat, flags : SUBSET RightSet]

Entries == [token : Tokens, obj : Objects, rights : SUBSET RightSet]

NoEntry == [empty |-> TRUE]

\* Ids below L1Size index the L1 table.  The others are looked up by
\* (id >> 8) as u16 and id & 0xFF, that is, by the id modulo L2Span.
Slots == 0 .. (L1Size + L2Span - 1)

SlotOf(id) == IF id < L1Size THEN id ELSE L1Size + (id % L2Span)

Spaces == [table : [Slots -> Entries \cup {NoEntry}], used : 0 .. WordSize - 1]

EmptySpace == [table |-> [s \in Slots |-> NoEntry], used |-> 0]

Filled(sp) == {s \in Slots : sp.table[s] # NoEntry}

\* CapabilitySpace::lookup finds an entry whose whole token is equal.
Holds(sp, t) ==
    /\ sp.table[SlotOf(t.id)] # NoEntry
    /\ sp.table[SlotOf(t.id)].token = t

RightsOf(sp, t) == sp.table[SlotOf(t.id)].rights

\* check_rights: the token is found and carries every required right.
CheckRights(sp, t, required) == Holds(sp, t) /\ required \subseteq RightsOf(sp, t)

\* CapabilitySpace::insert refuses at the quota and on an occupied slot.
CanInsert(sp, id) == sp.used < Quota /\ sp.table[SlotOf(id)] = NoEntry

Insert(sp, t, obj, rights) ==
    IF CanInsert(sp, t.id)
    THEN [table |-> [sp.table EXCEPT ![SlotOf(t.id)] =
                        [token |-> t, obj |-> obj, rights |-> rights]],
          used  |-> (sp.used + 1) % WordSize]
    ELSE sp

\* Variant: the counter goes down before the tokens are compared, and an entry
\* that does not match stays.
RemoveCounts(sp, t) ==
    [table |-> [sp.table EXCEPT ![SlotOf(t.id)] = IF Holds(sp, t) THEN NoEntry ELSE @],
     used  |-> (sp.used + WordSize - 1) % WordSize]

\* CapabilitySpace::remove takes the entry out of its slot first, and
\* compares tokens afterwards: only a match decrements `used'.
Remove(sp, t) ==
    [table |-> [sp.table EXCEPT ![SlotOf(t.id)] = NoEntry],
     used  |-> IF Holds(sp, t) THEN (sp.used + WordSize - 1) % WordSize
                               ELSE sp.used]

\* clone_from clears the space, copies every entry and leaves `used' at 0.
CloneFrom(other) == [table |-> other.table, used |-> 0]

(***************************************************************************)
(* inherit_capabilities with InheritancePolicy::All inserts the parent's   *)
(* entries one by one in slot order.  Inserts into occupied slots fail;    *)
(* of the others the first ones succeed, until `used' reaches the quota.   *)
(***************************************************************************)
Inherit(parent, child) ==
    LET new  == Filled(parent) \ Filled(child)
        took == {s \in new : child.used + Cardinality({u \in new : u < s}) < Quota}
    IN  [table |-> [s \in Slots |-> IF s \in took THEN parent.table[s]
                                                  ELSE child.table[s]],
         used  |-> (child.used + Cardinality(took)) % WordSize]
=============================================================================
