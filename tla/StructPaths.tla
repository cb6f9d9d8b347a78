----------------------------- MODULE StructPaths -----------------------------
(* Paths into nested collections: reading, editing and copying the data of a web object. Memory is a table of nodes. The data
   is the tree of node 1, and the tree of node `copy` is made of it by clone(). Of a catalog's own index, which Catalog models,
   only one thing matters here: whether a rename has dropped position 0 from it (`lost`). *)
EXTENDS Integers, Sequences, SequencesExt, FiniteSetsExt

CONSTANTS Trees,        \* tables of nodes [is, of], of = entries <<key, value>>, value = [is: "atom" or "node", of]
          Paths,        \* sequences of steps [is: "key" or "pos", of]; positions count from 0
          News,         \* sequences of atoms to be set
          Names,        \* keys to be given
          MaxEdits      \* bound

VARIABLES heap, copy,   \* nodes have a third field, `lost`; copy = 0: there is none
          last,         \* the edit before: [op, root, path, args, ok, count, memory: heap before it]
          edits
pathvars == <<heap, copy, last, edits>>

Ref(n) == [is |-> "node", of |-> n]
What(h, v) == IF v.is = "node" THEN h[v.of].is ELSE "atom"
Entries(h, v) == IF v.is = "node" THEN h[v.of].of ELSE << >>
IsCollection(h, v) == What(h, v) \in {"catalog", "map", "plain", "array"}        \* an "object" has a class of its own

----------------------------------------------------------------------------
\* Entries that a step leads to: a catalog may have several of one key, and finds them by its index.
Hits(h, v, step) == IF step.is = "pos" THEN {step.of + 1} \cap DOMAIN Entries(h, v)
                    ELSE {i \in DOMAIN Entries(h, v) : What(h, v) # "array" /\ Entries(h, v)[i][1] = step.of /\ (i > 1 \/ ~h[v.of].lost)}
\* yieldAll(), or the way of delete(), which does not go into objects
RECURSIVE Walk(_, _, _, _)
Walk(h, v, path, closed) ==
    IF What(h, v) \in closed THEN << >>
    ELSE IF path = << >> THEN <<v>>
    ELSE FlattenSeq([i \in DOMAIN Entries(h, v) |->
             IF i \in Hits(h, v, Head(path)) THEN Walk(h, Entries(h, v)[i][2], Tail(path), closed) ELSE << >>])
All(h, root, path) == Walk(h, Ref(root), path, {})

WithEntries(h, v, es) == [h EXCEPT ![v.of].of = es]
Without(es, hits) == LET kept == SetToSortSeq(DOMAIN es \ hits, <) IN [i \in DOMAIN kept |-> es[kept[i]]]
Pairs(k, vs) == [i \in DOMAIN vs |-> <<k, vs[i]>>]
Inserted_Over(es, pos, new) == SubSeq(es, 1, pos) \o new \o SubSeq(es, pos + 2, Len(es))
Inserted(es, pos, new) == SubSeq(es, 1, pos) \o new \o SubSeq(es, pos + 1, Len(es))
\* A map or a plain object that is filled again: of equal keys the first one keeps its place, and the last one its value.
Refilled(es) == FoldLeft(LAMBDA acc, e : LET at == {i \in DOMAIN acc : acc[i][1] = e[1]}
                                         IN IF at = {} THEN Append(acc, e) ELSE [acc EXCEPT ![Min(at)] = e], << >>, es)
Rebuilt(h, v, es) == IF What(h, v) \in {"map", "plain"} THEN Refilled(es) ELSE es

Done(op, root, path, args, h, count) ==
    /\ heap' = h /\ edits' = edits + 1 /\ UNCHANGED copy
    /\ last' = [op |-> op, root |-> root, path |-> path, args |-> args, ok |-> TRUE, count |-> count, memory |-> heap]
Refused(op, root, path, args) ==
    /\ edits' = edits + 1 /\ UNCHANGED <<heap, copy>>
    /\ last' = [op |-> op, root |-> root, path |-> path, args |-> args, ok |-> FALSE, count |-> 0, memory |-> heap]

----------------------------------------------------------------------------
\* set(): the first place on the path, except its last step, that can hold the key; several values go into a catalog only.
CanHold(v, step) == What(heap, v) \in {"catalog", "map", "plain", "object"} \/ (What(heap, v) = "array" /\ step.is = "pos")
InPlace(es, hits, k, vs) == IF Cardinality(hits) = 1 /\ Len(vs) = 1 THEN [es EXCEPT ![Min(hits)][2] = vs[1]]
                            ELSE Without(es, {i \in DOMAIN es : es[i][1] = k}) \o Pairs(k, vs)
Set(root, path, vs) ==
    LET step == Last(path)
        places == All(heap, root, Front(path))
        fit == {i \in DOMAIN places : CanHold(places[i], step)}
        v == places[Min(fit)]  es == Entries(heap, v)  hits == Hits(heap, v, step)
        refused == fit = {} \/ (Len(vs) > 1 /\ What(heap, Head(places)) # "catalog")
    IN IF refused THEN Refused("set", root, path, vs)
       ELSE /\ step.is = "pos" => hits # {}
            /\ Done("set", root, path, vs, WithEntries(heap, v, InPlace(es, hits, IF step.is = "pos" THEN es[step.of + 1][1] ELSE step.of, vs)), 0)

\* delete(): of all places on the path
Delete(root, path) ==
    LET places == Walk(heap, Ref(root), Front(path), {"object", "atom"})
        gone(n) == IF Ref(n) \in Range(places) THEN Hits(heap, Ref(n), Last(path)) ELSE {}
    IN Done("delete", root, path, << >>, [n \in DOMAIN heap |-> [heap[n] EXCEPT !.of = Without(@, gone(n))]],
            SumSet({1000 * n + Cardinality(gone(n)) : n \in DOMAIN heap}) - SumSet({1000 * n : n \in DOMAIN heap}))

\* The others work on the first place on the path. A catalog's rename takes the positions of the old key and of the new one
\* through filter(Number), which drops position 0.
DropsFirst(v, pos, k) == LET prev == Entries(heap, v)[pos][1]
                         IN What(heap, v) = "catalog" /\ prev # k /\ (pos = 1 \/ Entries(heap, v)[1][1] \in {prev, k})
Rename(root, path, k) ==
    LET places == All(heap, root, Front(path))  v == Head(places)  hits == Hits(heap, v, Last(path))
        named == WithEntries(heap, v, Rebuilt(heap, v, [Entries(heap, v) EXCEPT ![Min(hits)][1] = k]))
    IN IF places = << >> \/ hits = {} \/ ~IsCollection(heap, v) \/ What(heap, v) = "array" THEN Refused("rename", root, path, <<k>>)
       ELSE Done("rename", root, path, <<k>>, [named EXCEPT ![v.of].lost = @ \/ DropsFirst(v, Min(hits), k)], 0)
Add(root, path, vs) ==
    LET places == All(heap, root, Front(path))  v == Head(places)
    IN IF places = << >> \/ What(heap, v) # "catalog" THEN Refused("append", root, path, vs)
       ELSE /\ Last(path).is = "key"
            /\ Done("append", root, path, vs, WithEntries(heap, v, Entries(heap, v) \o Pairs(Last(path).of, vs)), 0)
Push(root, path, vs) ==
    LET places == All(heap, root, path)  v == Head(places)
    IN IF places = << >> \/ What(heap, v) # "array" THEN Refused("push", root, path, vs)
       ELSE Done("push", root, path, vs, WithEntries(heap, v, Entries(heap, v) \o Pairs("", vs)), 0)
\* insert(): an array has no keys, so that the key is its first new value; a map and a plain object take one value.
Insert(root, path, pos, k, vs) ==
    LET places == All(heap, root, path)  v == Head(places)  es == Entries(heap, v)
        new == CASE What(heap, v) = "catalog" -> Pairs(k, vs)
                 [] What(heap, v) = "array" -> Pairs("", <<[is |-> "atom", of |-> k]>> \o vs)
                 [] OTHER -> <<<<k, vs[1]>>>>
        args == <<pos, k, vs>>
    IN IF \/ places = << >> \/ ~IsCollection(heap, v)
          \/ vs # << >> /\ (pos > Len(es) \/ (What(heap, v) = "map" /\ Hits(heap, v, [is |-> "key", of |-> k]) # {}))
       THEN Refused("insert", root, path, args)
       ELSE Done("insert", root, path, args, IF vs = << >> THEN heap ELSE WithEntries(heap, v, Rebuilt(heap, v, Inserted(es, pos, new))), 0)

\* move(): a key is looked up in the catalog that move() is called on, wherever the path leads; one that it misses counts as 0.
From(root, v, step) == LET hits == IF step.is = "pos" THEN {step.of + 1} ELSE Hits(heap, Ref(root), step)
                       IN IF hits = {} THEN 0 ELSE Min(hits) - 1
Move(root, path, pos) ==
    LET places == All(heap, root, Front(path))  v == Head(places)  es == Entries(heap, v)
        from == From(root, v, Last(path))
    IN IF places = << >> \/ ~IsCollection(heap, v) \/ from >= Len(es) \/ pos >= Len(es) THEN Refused("move", root, path, <<pos>>)
       ELSE Done("move", root, path, <<pos>>, WithEntries(heap, v, Inserted(Without(es, {from + 1}), pos, <<es[from + 1]>>)), 0)

\* clone(): plain objects are copied without what is in them, and objects not at all.
RECURSIVE CloneOf(_, _)
CloneOf(h, v) ==
    LET Copied(acc, e) == LET c == CloneOf(acc.h, e[2]) IN [h |-> c.h, of |-> Append(acc.of, <<e[1], c.v>>), ok |-> acc.ok /\ c.ok]
        inner == FoldLeft(Copied, [h |-> h, of |-> << >>, ok |-> TRUE], Entries(h, v))
        all == IF What(h, v) = "plain" THEN [h |-> h, of |-> Entries(h, v), ok |-> TRUE] ELSE inner
    IN IF v.is = "atom" THEN [h |-> h, v |-> v, ok |-> TRUE]
       ELSE [h |-> Append(all.h, [is |-> What(h, v), of |-> all.of, lost |-> FALSE]), v |-> Ref(Len(all.h) + 1), ok |-> all.ok /\ What(h, v) # "object"]
Clone == /\ copy = 0 /\ edits = 0 /\ CloneOf(heap, Ref(1)).ok
         /\ heap' = CloneOf(heap, Ref(1)).h /\ copy' = CloneOf(heap, Ref(1)).v.of
         /\ UNCHANGED <<last, edits>>

\* A tree as it is loaded: every index is built of the entries.
Loaded(tree) == [n \in DOMAIN tree |-> [is |-> tree[n].is, of |-> tree[n].of, lost |-> FALSE]]

Init == heap \in {Loaded(tree) : tree \in Trees} /\ copy = 0 /\ edits = 0 /\ last = [op |-> "none"]
Edit(root, path) ==
    \/ Delete(root, path)
    \/ \E k \in Names : Rename(root, path, k)
    \/ \E vs \in News : Set(root, path, vs) \/ Add(root, path, vs) \/ Push(root, path, vs)
    \/ \E vs \in News \cup {<< >>}, k \in Names, pos \in 0 .. 1 : Insert(root, path, pos, k, vs) \/ Insert(root, Front(path), pos, k, vs)
    \/ \E pos \in 0 .. 1 : Move(root, path, pos)
\* What becomes of a catalog that has lost position 0 when it is edited further is left to Catalog.
Next == \/ Clone
        \/ edits < MaxEdits /\ (\A n \in DOMAIN heap : ~heap[n].lost) /\ \E root \in {1, copy} \ {0}, path \in Paths : Edit(root, path)

----------------------------------------------------------------------------
\* collect(): all nodes with their paths, in pre-order
RECURSIVE Collect(_, _, _)
Collect(h, v, path) ==
    <<<<path, IF v.is = "atom" THEN v.of ELSE What(h, v)>>>>
    \o FlattenSeq([i \in DOMAIN Entries(h, v) |->
           Collect(h, Entries(h, v)[i][2], Append(path, IF What(h, v) = "array" THEN [is |-> "pos", of |-> i - 1]
                                                         ELSE [is |-> "key", of |-> Entries(h, v)[i][1]]))])
Elsewhere(h) == SelectSeq(Collect(h, Ref(last.root), << >>), LAMBDA e : ~IsPrefix(last.path, e[1]))

Before(path) == All(last.memory, last.root, path)
After(path) == All(heap, last.root, path)
ByKeys == \A step \in Range(last.path) : step.is = "key"
Holder(path) == What(last.memory, Head(Before(path)))
Known(path, k) == Hits(last.memory, Head(Before(path)), [is |-> "key", of |-> k]) # {}
At(path, i) == Entries(heap, Head(After(path)))[i]
\* The entries of the holder are those of before but for `n` at `pos`, and for at most `gone` that were taken away.
ButFor(path, pos, n, gone) == LET rest == Without(Entries(heap, Head(After(path))), (pos + 1) .. (pos + n))
                                  before == Entries(last.memory, Head(Before(path)))
                              IN \E hits \in SUBSET DOMAIN before : Cardinality(hits) = gone /\ rest = Without(before, hits)

\* What was set is read back under the same path, what was deleted is not, unless it is inside an object, and nothing else of
\* the tree has changed. An inserted entry is where it was to be inserted, between the others, except that a plain object ignores a key that it has
\* and an array a single value; a renamed one is found under the new key, unless a map had this key or it is the first entry of
\* a catalog; a moved one is at its new position, unless a key led into a nested collection or nowhere. (Struct, Catalog)
ReadsBack == "root" \in DOMAIN last /\ last.ok =>
    LET path == last.path  op == last.op
        args == last.args
    IN /\ op = "set" /\ (ByKeys \/ Len(args) = 1) => SubSeq(After(path), 1, Len(args)) = args
       /\ op = "delete" => last.count = Len(Before(path)) - Len(After(path)) \/ ~ByKeys
       /\ op = "delete" /\ ByKeys => \/ After(path) = << >>
                                     \/ \E i \in DOMAIN path : "object" \in {What(heap, v) : v \in Range(After(SubSeq(path, 1, i - 1)))}
       /\ op \in {"set", "delete"} /\ ByKeys => Elsewhere(heap) = Elsewhere(last.memory)
       /\ op = "insert" => \/ args[3] = << >>
                           \/ Holder(path) = "plain" /\ Known(path, args[2])
                           \/ Holder(path) = "array" /\ At(path, args[1] + 1)[2].of = args[2]
                           \/ Holder(path) # "array" /\ At(path, args[1] + 1) = <<args[2], args[3][1]>>
       /\ op = "insert" /\ args[3] # << >> =>
              CASE Holder(path) = "catalog" -> ButFor(path, args[1], Len(args[3]), 0)
                [] Holder(path) = "array" -> ButFor(path, args[1], Len(args[3]) + 1, 0)
                [] OTHER -> Known(path, args[2]) \/ ButFor(path, args[1], 1, 0)
       /\ op = "rename" => \/ Head(Before(path)) \in Range(After(Append(Front(path), [is |-> "key", of |-> args[1]])))
                           \/ Holder(Front(path)) # "catalog" /\ Known(Front(path), args[1])
                           \/ Holder(Front(path)) = "catalog" /\ 1 \in Hits(last.memory, Head(Before(Front(path))), Last(path))
       /\ op = "move" => \/ Before(path) = << >>
                         \/ At(Front(path), args[1] + 1)[2] = Head(Before(path))
                         \/ Len(path) > 1 /\ Last(path).is = "key"
       /\ op = "move" => ButFor(Front(path), args[1], 1, 1)
       /\ op \in {"append", "push"} => IsSuffix(args, [i \in DOMAIN Entries(heap, Head(After(IF op = "push" THEN path ELSE Front(path)))) |->
                                                          At(IF op = "push" THEN path ELSE Front(path), i)[2]])

RECURSIVE Nodes(_, _)
Nodes(h, n) == {n} \cup UNION {Nodes(h, e[2].of) : e \in {e \in Range(h[n].of) : e[2].is = "node"}}
\* Data and copy have nothing in common but what is inside plain objects, so that editing the copy leaves the data alone.
\* (Struct.clone)
CopyIsIndependent == copy # 0 =>
    \A n \in Nodes(heap, 1) \cap Nodes(heap, copy) :
       \E p \in Nodes(heap, 1) \ {n} : heap[p].is = "plain" /\ n \in Nodes(heap, p)
=============================================================================
