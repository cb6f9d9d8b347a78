----------------------------- MODULE Aggregates -----------------------------
(* A derived sequence that counts the objects of a source and sums up one of their fields, per group. Every change of an
   object is turned into decrements for the groups of its previous content and increments for those of its next one;
   they are sent to the block of the aggregation, not awaited, and executed there in any order. An object may list
   several groups, and one of them twice. Lost operations are the subject of ChangeCapture. *)
EXTENDS Integers, SequencesExt, FiniteSetsExt

CONSTANTS Objects, Groups, Amounts,
          None,         \* no object, no accumulators, and an amount that is not a number
          MaxChanges    \* bound: changes of the source

AggregatesAssumption == Amounts \subseteq Int /\ MaxChanges \in Nat

VARIABLES source,       \* [Objects -> content or None]
          acc,          \* [Groups -> [count, sum] or None], as stored
          sent,         \* operations that were sent and have not begun
          reading,      \* [Groups -> the operation that holds the row, with the accumulators it has read, or None]
          changes
aggvars == <<source, acc, sent, reading, changes>>

Contents == [groups : BoundedSeq(Groups, 2), amount : Amounts \cup {None}]
Zero == [count |-> 0, sum |-> 0]
Add(x, y) == [count |-> x.count + y.count, sum |-> x.sum + y.sum]
Minus(x)  == [count |-> -x.count, sum |-> -x.sum]

\* generate_value(): what is not a number is no summand, but it counts
Increment(content) == [count |-> 1, sum |-> IF content.amount = None THEN 0 ELSE content.amount]

\* _make_records(): one record per group, however often it is listed
Records(content) == IF content = None THEN {} ELSE {[group |-> g, value |-> Increment(content)] : g \in ToSet(content.groups)}

\* derive_ops() with _prune_plan(): what is removed and inserted with the same value cancels out
Pruned_ByGroup(rmv, ins) == {r \in rmv : \A s \in ins : s.group # r.group}       \* mutant: an increment replaces a decrement, as in an index
Pruned(rmv, ins) == rmv \ ins
DeriveOps(prev, next) ==
    {[group |-> r.group, by |-> Minus(r.value)] : r \in Pruned(Records(prev), Records(next))}
    \cup {[group |-> r.group, by |-> r.value] : r \in Records(next) \ Records(prev)}

Init == /\ source = [o \in Objects |-> None]
        /\ acc = [g \in Groups |-> None]
        /\ sent = {} /\ reading = [g \in Groups |-> None] /\ changes = 0

\* A record of the source is inserted, updated or deleted; operations of different changes are different.
Change(o, next) ==
    /\ changes < MaxChanges /\ next # source[o]
    /\ changes' = changes + 1
    /\ source' = [source EXCEPT ![o] = next]
    /\ sent' = sent \cup {[op |-> op, of |-> changes'] : op \in DeriveOps(source[o], next)}
    /\ UNCHANGED <<acc, reading>>

\* _update_acc(): the accumulators are read and written under the lock of the row
Read(m) ==
    /\ m \in sent /\ reading[m.op.group] = None
    /\ sent' = sent \ {m}
    /\ reading' = [reading EXCEPT ![m.op.group] = [by |-> m.op.by, acc |-> acc[m.op.group]]]
    /\ UNCHANGED <<source, acc, changes>>
Write(g) ==
    /\ reading[g] # None
    /\ acc' = [acc EXCEPT ![g] = IF reading[g].acc = None THEN reading[g].by ELSE Add(reading[g].acc, reading[g].by)]
    /\ reading' = [reading EXCEPT ![g] = None]
    /\ UNCHANGED <<source, sent, changes>>

Next == \/ \E o \in Objects, next \in Contents \cup {None} : Change(o, next)
        \/ \E m \in sent : Read(m)
        \/ \E g \in Groups : Write(g)
Spec == Init /\ [][Next]_aggvars

----------------------------------------------------------------------------
Total(values, S) == FoldSet(LAMBDA x, t : Add(values[x], t), Zero, S)
Members(g) == {o \in Objects : source[o] # None /\ g \in ToSet(source[o].groups)}
Expected(g) == Total([o \in Members(g) |-> Increment(source[o])], Members(g))
Pending(g) == LET ms == {m \in sent : m.op.group = g}
              IN Add(Total([m \in ms |-> m.op.by], ms), IF reading[g] = None THEN Zero ELSE reading[g].by)

\* The stored count and sum of a group, and what is on its way to them, are those of the objects of the source that list
\* the group, each once: no change is counted twice or cancelled by another one, in whatever order they arrive.
AggregateFollows == \A g \in Groups : Add(IF acc[g] = None THEN Zero ELSE acc[g], Pending(g)) = Expected(g)
=============================================================================
