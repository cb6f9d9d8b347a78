---------------------------- MODULE IdAssignment ----------------------------
(***************************************************************************)
(* The zones from which rings draw the ids of new objects, the check that a *)
(* ring performs when it is loaded on top of its base rings, and how the   *)
(* block of the top ring gives ids to new objects (schemat/db/db.js:       *)
(* Ring.id_insert_zones, valid_insert_id, validate_zones;                  *)
(* schemat/db/block.js: DataBlock.$master.insert and its _assign_id*,      *)
(* upsave, delete, __start__).  An object is its id across the whole stack, *)
(* and an upper ring overrides the objects of the lower ones, so two rings *)
(* must not give the same id to two new objects.                           *)
(*                                                                         *)
(* Load adds rings to the stack; Open starts the block of its top ring, in *)
(* which insert calls then overlap: a call assigns all its ids first and   *)
(* saves the objects one by one later, so between the two the store does   *)
(* not show that an id is taken.  A ring has one block for inserts,        *)
(* _random_block() always returns the first one.                           *)
(***************************************************************************)
EXTENDS Integers, Sequences, FiniteSetsExt

(***************************************************************************)
(* Shard of schemat/common/structs.js: a residue class of integers that    *)
(* object ids are drawn from.  Rings get disjoint shards of base 3**k,     *)
(* blocks of one ring disjoint shards of base 2**k, and a block inserts    *)
(* ids of the intersection.                                                *)
(***************************************************************************)
Shard(offset, base) == [offset |-> offset, base |-> base]

IsShard(s) == s.base \in Nat \ {0} /\ s.offset \in 0..(s.base - 1)

NoShard == [offset |-> 0, base |-> 0]     \* null: two shards that are disjoint

Includes(s, x) == x % s.base = s.offset

\* The smallest member of s that is not below x, as the code computes it.
FixUpwards(s, x) == LET y == x - (x % s.base) + s.offset
                    IN IF y >= x THEN y ELSE y + s.base

\* lcm() of the bases.
CommonBase(s, t) == Min({m \in 1..(s.base * t.base) : m % s.base = 0 /\ m % t.base = 0})

\* Offsets of the classes that make up s in a base that is a multiple of its own.
OffsetsIn(s, base) == {s.offset + i * s.base : i \in 0..((base \div s.base) - 1)}

\* The code asserts that the common offset is a single one.
CommonOffsets(s, t) == LET base == CommonBase(s, t) IN OffsetsIn(s, base) \intersect OffsetsIn(t, base)
Intersection(s, t) ==
    IF CommonOffsets(s, t) = {} THEN NoShard ELSE Shard(Min(CommonOffsets(s, t)), CommonBase(s, t))

Overlaps(s, t) == Intersection(s, t) # NoShard

-----------------------------------------------------------------------------

CONSTANTS Bounds,       \* values of the three zone limits, 0 for a missing one
          ShardedFrom,  \* values of min_id_sharded, which is never missing
          RingShards,   \* values of shard3
          MaxRings,     \* bound: height of the stack
          MaxId         \* bound: ids looked at

RingZonesAssumption ==
    /\ Bounds \subseteq Nat /\ ShardedFrom \subseteq Nat \ {0}
    /\ \A s \in RingShards : IsShard(s)
    /\ MaxRings \in Nat /\ MaxId \in Nat

VARIABLE stack          \* rings that are loaded, the bottom one first

Rings == [min_id_exclusive : Bounds, min_id_forbidden : Bounds,
          min_id_sharded : ShardedFrom, shard3 : RingShards]

\* Ring.id_insert_zones: A is 0 without an exclusive zone, B defaults to C.
A(r) == r.min_id_exclusive
C(r) == r.min_id_sharded
B(r) == IF r.min_id_forbidden = 0 THEN C(r) ELSE r.min_id_forbidden

ValidInsertId(r, id) == IF id >= C(r) THEN Includes(r.shard3, id)
                                      ELSE A(r) # 0 /\ A(r) <= id /\ id < B(r)

\* Ring.validate_zones() of ring r on top of the rings in `base`, TRUE if no
\* error is thrown; the tests come in the order of the code.
ZonesOrdered(r) == A(r) # 0 => A(r) <= B(r) /\ B(r) <= C(r)

ShardsDisjoint(r, base) == \A i \in DOMAIN base : ~Overlaps(r.shard3, base[i].shard3)

ExclusiveBelowSharded(r, base) == \A i \in DOMAIN base : B(r) < C(base[i])

ExclusiveDisjoint(r, base) ==
    \A i \in DOMAIN base :
        ~(A(base[i]) # 0 /\ B(r) > A(base[i]) /\ A(r) < B(base[i]))

ValidateZones(r, base) ==
    /\ ZonesOrdered(r)
    /\ base # <<>> => /\ ShardsDisjoint(r, base)
                      /\ A(r) # 0 => ExclusiveBelowSharded(r, base) /\ ExclusiveDisjoint(r, base)

Init == stack = <<>>

\* Ring.__load__() of the next ring, whose base ring is loaded.
LoadRing(r) == /\ Len(stack) < MaxRings
               /\ ValidateZones(r, stack)
               /\ stack' = Append(stack, r)

\* validate_zones() does not look whether the sharded zone of the new ring starts
\* below the exclusive zone of a lower one: ids that it then may have in common.
Unchecked(i, j) == {id \in 1..MaxId : /\ A(stack[i]) # 0 /\ A(stack[i]) <= id /\ id < B(stack[i])
                                      /\ C(stack[j]) <= id}

\* No id can be given to a new object by two rings of one stack, these aside.
ZonesDisjoint ==
    \A i, j \in DOMAIN stack : i < j =>
        \A id \in 1..MaxId \ Unchecked(i, j) : ~(ValidInsertId(stack[i], id) /\ ValidInsertId(stack[j], id))

-----------------------------------------------------------------------------
CONSTANTS Calls,        \* overlapping calls of $master.insert
          BlockShards,  \* values of the base-2 shard of the block; NoShard: none
          Modes,        \* values of insert_mode of the ring
          Overrides,    \* insert modes that a caller asks for, as admin_reinsert
          FixedIds,     \* ids that a caller asks for, as admin_reinsert
          MaxLower,     \* bound: objects of the lower rings
          MaxEntries,   \* bound: objects of an insert call
          MaxRestarts   \* bound: restarts of the block

VARIABLES block,      \* "off" before Open, then "on"
          shard,      \* shard of the block
          mode,       \* insert_mode of the top ring
          lower,      \* ids of objects in the lower rings
          store,      \* ids of the records of the block
          auto,       \* $state.autoincrement
          reserved,   \* $state.reserved
          pending,    \* pending[c]: ids assigned by call c and not saved yet
          saving,     \* saving[c]: call c assigned all its ids
          restarts,   \* how many of MaxRestarts are used up
          strayed,    \* history: ids assigned in another mode than the ring's
          removed     \* history: ids deleted since the block was started

state == <<store, auto, reserved, pending, saving, removed>>
config == <<block, shard, mode, lower>>
allvars == <<stack, config, state, restarts, strayed>>

Ring == stack[Len(stack)]

\* DataBlock.shard_combined: honours the block and the ring at the same time.
ShardCombined == IF shard = NoShard THEN Ring.shard3 ELSE Intersection(shard, Ring.shard3)

\* What the block may give out: an id of its ring, and in the sharded zone of
\* its own shard.
Slot(id) == /\ ValidInsertId(Ring, id)
            /\ id >= C(Ring) /\ shard # NoShard => Includes(shard, id)

\* Block shards and ring shards have one offset in common, as the bases are powers of 2 and 3.
IdsAssumption ==
    /\ RingZonesAssumption /\ MaxEntries \in Nat \ {0} /\ FixedIds \subseteq 1..MaxId
    /\ \A s \in BlockShards \ {NoShard} : /\ IsShard(s)
                                          /\ \A t \in RingShards : \E o \in CommonOffsets(s, t) : CommonOffsets(s, t) = {o}

Assigned == {a \in Calls \X (1..MaxEntries) : a[2] <= Len(pending[a[1]])}
PendingId(a) == pending[a[1]][a[2]]

TypeOKBlock ==
    /\ stack \in Seq(Rings) /\ \A i \in DOMAIN stack : ZonesOrdered(stack[i])
    /\ block \in {"off", "on"} /\ (block = "on" => stack # <<>>)
    /\ shard \in BlockShards /\ mode \in Modes
    /\ lower \subseteq 1..MaxId /\ store \subseteq 1..MaxId
    /\ auto \in 0..MaxId
    /\ reserved \subseteq 1..auto
    /\ pending \in [Calls -> Seq(1..MaxId)]
    /\ saving \in [Calls -> BOOLEAN]
    /\ \A c \in Calls : Len(pending[c]) <= MaxEntries /\ (saving[c] => pending[c] # <<>>)

InitBlock ==
    /\ Init
    /\ block = "off"
    /\ shard \in BlockShards /\ mode \in Modes
    /\ lower = {}
    /\ store = {} /\ auto = 0 /\ reserved = {}
    /\ pending = [c \in Calls |-> <<>>]
    /\ saving = [c \in Calls |-> FALSE]
    /\ restarts = 0 /\ strayed = {}
    /\ removed = {}

-----------------------------------------------------------------------------
\* The next ring is loaded, and the stack is complete: the lower rings hold
\* objects that were inserted in one of them.
Load == /\ block = "off"
        /\ \E r \in Rings : LoadRing(r)
        /\ UNCHANGED <<config, state, restarts, strayed>>

Open == /\ block = "off" /\ stack # <<>>
        /\ block' = "on"
        /\ \E ids \in SUBSET {n \in 1..MaxId : \E i \in 1..(Len(stack) - 1) : ValidInsertId(stack[i], n)} :
              Cardinality(ids) <= MaxLower /\ lower' = ids
        /\ UNCHANGED <<stack, shard, mode, state, restarts, strayed>>

\* _assign_id_incremental()
Larger(x, y) == IF x >= y THEN x ELSE y

IncrementalId ==
    LET next == auto + 1
        id == Larger(next, IF A(Ring) = 0 THEN 1 ELSE A(Ring))
    IN IF A(Ring) # 0 /\ id < B(Ring) THEN id
       ELSE FixUpwards(ShardCombined, Larger(next, C(Ring)))

\* The ids that _assign_id_compact() visits, and those that it accepts.
Visited(id) == \/ A(Ring) # 0 /\ A(Ring) <= id /\ id < B(Ring)
               \/ id >= C(Ring) /\ Includes(ShardCombined, id)

\* Mutant of Unallocated: `reserved` is not looked at.
Unallocated_StoreOnly(id) == Visited(id) /\ id \notin store

Unallocated(id) == Visited(id) /\ id \notin reserved /\ id \notin store

\* The id of _assign_id_compact(): once the slots below autoincrement are all
\* allocated, the incremental one, before that the first unallocated one.
CompactId(id) ==
    IF auto \in reserved THEN id = IncrementalId
    ELSE Unallocated(id) /\ \A n \in 1..(id - 1) : ~Unallocated(n)

\* An insert call assigns the id of one of its objects, or of an object that
\* a __setup__() of another one created.
Assign(c, m, id) ==
    /\ block = "on"
    /\ ~saving[c] /\ Len(pending[c]) < MaxEntries
    /\ IF m = "compact" THEN CompactId(id) ELSE id = IncrementalId
    /\ ValidInsertId(Ring, id)
    /\ reserved' = IF m = "compact" THEN reserved \union {id} ELSE reserved
    /\ auto' = Larger(id, auto)
    /\ pending' = [pending EXCEPT ![c] = Append(@, id)]
    /\ strayed' = IF m = mode THEN strayed ELSE strayed \union {id}
    /\ UNCHANGED <<stack, config, store, saving, restarts, removed>>

\* An insert call with a fixed id, which must not be in the store; neither the
\* zones of the ring nor autoincrement and reserved are looked at.
AssignFixed(c, id) ==
    /\ block = "on"
    /\ ~saving[c] /\ pending[c] = <<>>
    /\ id \notin store
    /\ pending' = [pending EXCEPT ![c] = <<id>>]
    /\ saving' = [saving EXCEPT ![c] = TRUE]
    /\ UNCHANGED <<stack, config, store, auto, reserved, restarts, removed, strayed>>

\* _prepare_for_insert() and _save() of the next object.
Save(c) ==
    /\ pending[c] # <<>>
    /\ store' = store \union {Head(pending[c])}
    /\ pending' = [pending EXCEPT ![c] = Tail(@)]
    /\ saving' = [saving EXCEPT ![c] = Tail(pending[c]) # <<>>]
    /\ UNCHANGED <<stack, config, auto, reserved, restarts, removed, strayed>>

\* A __setup__(), the validation or the saving of an object throws: the rest of
\* the call is dropped, what it saved stays saved, its ids stay used up.
Throw(c) ==
    /\ pending[c] # <<>>
    /\ pending' = [pending EXCEPT ![c] = <<>>]
    /\ saving' = [saving EXCEPT ![c] = FALSE]
    /\ UNCHANGED <<stack, config, store, auto, reserved, restarts, removed, strayed>>

\* $master.upsave() of an object of a lower ring.
Upsave(id) ==
    /\ block = "on"
    /\ id \in lower \ store
    /\ store' = store \union {id}
    /\ UNCHANGED <<stack, config, auto, reserved, pending, saving, restarts, removed, strayed>>

\* $master.delete()
Delete(id) ==
    /\ id \in store
    /\ store' = store \ {id}
    /\ removed' = removed \union {id}
    /\ UNCHANGED <<stack, config, auto, reserved, pending, saving, restarts, strayed>>

\* __start__() after a __stop__(), which waits for the calls to end: get_max_id()
\* of the store, and nothing is reserved.
Restart ==
    /\ block = "on" /\ restarts < MaxRestarts
    /\ \A c \in Calls : pending[c] = <<>>
    /\ auto' = Max(store \union {0})
    /\ reserved' = {}
    /\ restarts' = restarts + 1
    /\ removed' = {}
    /\ UNCHANGED <<stack, config, store, pending, saving, strayed>>

NextBlock ==
    \/ Load \/ Open
    \/ \E c \in Calls :
          \/ \E m \in {mode} \union Overrides, id \in 1..MaxId : Assign(c, m, id)
          \/ \E id \in FixedIds : AssignFixed(c, id)
          \/ Save(c) \/ Throw(c)
    \/ \E id \in lower : Upsave(id)
    \/ \E id \in store : Delete(id)
    \/ Restart

SpecBlock == InitBlock /\ [][NextBlock]_allvars

-----------------------------------------------------------------------------
\* Ids in `but` aside, no id that an insert call holds belongs to another object:
\* of another call, of the same call, of the store, or of a lower ring.
Unique(but) ==
    \A a \in Assigned : PendingId(a) \notin but =>
        /\ PendingId(a) \notin store \union lower
        /\ \A b \in Assigned : PendingId(a) = PendingId(b) => a = b

\* No two objects get the same id, whatever insert calls overlap, fail, or come after deletions, upsaves and restarts. That is
\* but for ids that callers ask for, which are looked up in the store only, not among the ids of overlapping calls; ids given
\* in the mode that a caller asks for, as the compact one does not see those of the incremental one before they are saved;
\* and ids for which validate_zones() does not look.
UncheckedIds == UNION {Unchecked(i, Len(stack)) : i \in 1..(Len(stack) - 1)}
UniqueIds == Unique(FixedIds \union strayed \union UncheckedIds)

\* No id is given twice: neither by two rings of a stack nor by overlapping calls.
NoIdTwice == ZonesDisjoint /\ UniqueIds

\* The error "candidate ID is outside of the valid set" is never raised: what
\* _assign_id_*() computes lies in the zones of the ring and in both shards.
CandidatesAreValid ==
    block = "on" => /\ Slot(IncrementalId)
                    /\ \A id \in 1..MaxId : Visited(id) => Slot(id)

\* The shortcut of _assign_id_compact(): once it reserved autoincrement, all
\* slots below are allocated, or were freed by a deletion since the start.
NoSlotSkipped ==
    auto \in reserved =>
        \A id \in 1..auto : Slot(id) => id \in store \union reserved \union removed

\* Both algorithms compute ids that fit, and give the lowest one if they should.
CandidatesFit == CandidatesAreValid /\ NoSlotSkipped
=============================================================================
