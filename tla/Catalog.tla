------------------------------ MODULE Catalog ------------------------------
(* Catalogs, the ordered multimaps that hold the content of every web object: the list `_entries`, and the index `_keys`
   of the positions of each key, which every operation keeps up to date in a way of its own. Entries are mutable pairs
   that catalogs made from each other may share: those with the same cell # 0 are the same pair. Positions count from 0,
   as in the code, which drops position 0 where it filters positions with Number(). There are two catalogs, "a" and "b";
   the second one is made from the first one, or from both, and edited then. *)
EXTENDS Integers, SequencesExt, FiniteSetsExt

CONSTANTS Keys,         \* key strings
          Numeric,      \* those of Keys that read as array indices, which a plain object lists first
          Null,         \* the missing key
          Values,
          MaxLength,    \* bound: entries of a catalog
          MaxEdits      \* bound: operations after a copy or a merge

CatalogAssumption == Numeric \subseteq Keys /\ Null \notin Keys /\ MaxLength \in Nat /\ MaxEdits \in Nat

VARIABLES cats,         \* the catalogs, [entries: pairs, keys: positions of each key]
          broken,       \* catalogs whose index a rename has left wrong
          made,         \* what "b" is: "none" yet, a "deep" copy, or "shared", made of the same entries
          edits         \* operations since "b" was made
catvars == <<cats, broken, made, edits>>

Names == {"a", "b"}
Other(c) == IF c = "a" THEN "b" ELSE "a"
Positions(es, k) == SetToSortSeq({i \in 0 .. Len(es) - 1 : es[i + 1].key = k}, <)
Index(es)    == [k \in Keys |-> Positions(es, k)]
Entries(c)   == cats[c].entries
Length(c)    == Len(cats[c].entries)
Locs(c, k)   == IF k = Null THEN << >> ELSE cats[c].keys[k]
Fresh(k, vs) == [i \in DOMAIN vs |-> [key |-> k, value |-> vs[i], cell |-> 0]]     \* new entries, in cells of their own
Plain(es)    == [i \in DOMAIN es |-> [key |-> es[i].key, value |-> es[i].value]]

\* Catalog c gets the entries es and the index; the change of an entry shows in the other catalog if that shares it, and
\* an entry that one of them dropped is not shared any more.
Shared(es)   == {es[i].cell : i \in DOMAIN es} \ {0}
Through(es, from) == [i \in DOMAIN es |->
    IF es[i].cell = 0 \/ es[i].cell \notin Shared(from) THEN [es[i] EXCEPT !.cell = 0]
    ELSE from[CHOOSE j \in DOMAIN from : from[j].cell = es[i].cell]]
Change(c, es, index) ==
    cats' = [n \in Names |-> IF n = c THEN [entries |-> Through(es, Through(Entries(Other(c)), es)), keys |-> index]
                             ELSE [cats[n] EXCEPT !.entries = Through(@, es)]]
Rebuild(c, es) == Change(c, es, Index(es)) /\ broken' = broken \ {c}       \* init()

Init == /\ cats = [c \in Names |-> [entries |-> << >>, keys |-> Index(<< >>)]]
        /\ broken = {} /\ made = "none" /\ edits = 0

----------------------------------------------------------------------------
(* Operations; vs are the values of a key, one or more. *)

\* mutant: several values are all given the first one's position
Appended_First(index, k, start, n) == IF k = Null THEN index ELSE [index EXCEPT ![k] = @ \o [i \in 1 .. n |-> start]]

\* _append(): new positions go to the end of the list of the key
Appended(index, k, start, n) ==
    IF k = Null THEN index ELSE [index EXCEPT ![k] = @ \o [i \in 1 .. n |-> start + i - 1]]
Append_(c, k, vs) ==
    /\ Length(c) + Len(vs) <= MaxLength
    /\ Change(c, Entries(c) \o Fresh(k, vs), Appended(cats[c].keys, k, Length(c), Len(vs)))
    /\ UNCHANGED broken

\* Struct.insert(): before position pos; the end is left to _append()
Insert(c, pos, k, vs) ==
    /\ Length(c) + Len(vs) <= MaxLength /\ pos < Length(c)
    /\ Rebuild(c, SubSeq(Entries(c), 1, pos) \o Fresh(k, vs) \o SubSeq(Entries(c), pos + 1, Length(c)))

\* _delete() of one position: of the last one without rebuilding the index
DeleteAt(es, index, pos) ==
    IF pos = Len(es) - 1
    THEN LET k == es[pos + 1].key
         IN [entries |-> Front(es), keys |-> IF k = Null \/ index[k] = << >> THEN index ELSE [index EXCEPT ![k] = Front(@)]]
    ELSE LET rest == RemoveAt(es, pos + 1) IN [entries |-> rest, keys |-> Index(rest)]

\* Struct.delete() of a key: its positions from the last one to the first one
Deleted(c, locs) == FoldRight(LAMBDA pos, x : DeleteAt(x.entries, x.keys, pos), locs, [entries |-> Entries(c), keys |-> cats[c].keys])
Delete(c, locs) ==
    /\ locs # << >>
    /\ Change(c, Deleted(c, locs).entries, Deleted(c, locs).keys)
    /\ UNCHANGED broken

\* _set(): in place if the key occurs once and there is one value; otherwise all its entries go, and new ones are appended
SetInPlace(c, pos, v) ==
    /\ Change(c, [Entries(c) EXCEPT ![pos + 1].value = v], cats[c].keys)
    /\ UNCHANGED broken
SetAnew(c, k, vs) ==
    /\ LET x == Deleted(c, Locs(c, k))
       IN /\ Len(x.entries) + Len(vs) <= MaxLength
          /\ Change(c, x.entries \o Fresh(k, vs), Appended(x.keys, k, Len(x.entries), Len(vs)))
    /\ UNCHANGED broken
Set(c, k, vs) == IF Len(vs) = 1 /\ Len(Locs(c, k)) = 1 THEN SetInPlace(c, Locs(c, k)[1], vs[1]) ELSE SetAnew(c, k, vs)

\* _rename(): the position moves from the list of one key to that of the other; both lists are filtered with Number().
\* A position that its list misses fails an assertion, after the entry was changed.
Kept(locs) == SelectSeq(locs, LAMBDA i : i # 0)
Sorted(locs) == SetToSortSeq(ToSet(locs), <)
Moved(index, pos, k, l) ==
    LET out == IF k = Null THEN index ELSE [index EXCEPT ![k] = Kept(SelectSeq(@, LAMBDA i : i # pos))]
    IN IF k # Null /\ ~Contains(index[k], pos) THEN index
       ELSE IF l = Null THEN out
       ELSE [out EXCEPT ![l] = Sorted(Kept(Append(@, pos)))]
Rename(c, pos, l) ==
    LET e == Entries(c)[pos + 1]
        lost == \/ l # Null /\ pos = 0
                \/ pos # 0 /\ Entries(c)[1].key \in {e.key, l} \ {Null}
    IN /\ e.key # l
       /\ Change(c, [Entries(c) EXCEPT ![pos + 1].key = l], Moved(cats[c].keys, pos, e.key, l))
       /\ broken' = broken \cup (IF lost THEN {c} ELSE {}) \cup (IF e.cell # 0 THEN {Other(c)} ELSE {})

\* Struct.move() of count entries
Move(c, pos, to, count) ==
    /\ pos # to
    /\ LET last  == IF pos + count > Length(c) THEN Length(c) ELSE pos + count
           rest  == SubSeq(Entries(c), 1, pos) \o SubSeq(Entries(c), last + 1, Length(c))
           at    == IF to > Len(rest) THEN Len(rest) ELSE to
       IN Rebuild(c, SubSeq(rest, 1, at) \o SubSeq(Entries(c), pos + 1, last) \o SubSeq(rest, at + 1, Len(rest)))

\* new Catalog(a), and merge() of both catalogs: the entries themselves are taken over; clone() makes a deep copy
Numbered(es) == [i \in DOMAIN es |-> [es[i] EXCEPT !.cell = i]]
Private(es) == [i \in DOMAIN es |-> [es[i] EXCEPT !.cell = 0]]
Make(a, b, how) ==
    /\ cats' = [cats EXCEPT !["a"].entries = a, !["b"] = [entries |-> b, keys |-> Index(b)]]
    /\ made' = how /\ edits' = 0 /\ UNCHANGED broken
Copy  == made = "none" /\ Make(Numbered(Entries("a")), Numbered(Entries("a")), "shared")
Clone == made = "none" /\ Make(Private(Entries("a")), Private(Entries("a")), "deep")
Merge == /\ made = "deep" /\ Length("a") + Length("b") <= MaxLength
         /\ Make(Numbered(Entries("a")), Numbered(Entries("a")) \o Entries("b"), "shared")

Operation(c) ==
    \/ \E k \in Keys \cup {Null}, v, w \in Values : \E vs \in {<<v>>, <<v, w>>} :
          Append_(c, k, vs) \/ (k # Null /\ Set(c, k, vs)) \/ \E pos \in 0 .. Length(c) - 1 : Insert(c, pos, k, vs)
    \/ \E k \in Keys : Delete(c, Locs(c, k))
    \/ \E pos \in 0 .. Length(c) - 1 :
          \/ Delete(c, <<pos>>)
          \/ \E to \in 0 .. Length(c) - 1, count \in 1 .. 2 : Move(c, pos, to, count)
          \/ \E v \in Values : SetInPlace(c, pos, v)
          \/ \E k \in Keys \cup {Null} : Rename(c, pos, k)
Edit(c) == /\ IF made = "none" THEN c = "a" /\ UNCHANGED edits ELSE edits < MaxEdits /\ edits' = edits + 1
           /\ Operation(c)
           /\ UNCHANGED made

\* A broken catalog is not followed any further.
Next == broken = {} /\ (Copy \/ Clone \/ Merge \/ \E c \in Names : Edit(c))
Spec == Init /\ [][Next]_catvars

----------------------------------------------------------------------------
(* Serialisation: a plain object, whose keys are unique and whose numeric keys come first. *)

Repeat_Twice(es, i) == IF \E j \in 1 .. i - 1 : es[j].key = es[i].key THEN 2 ELSE 1     \* mutant: one number for all repetitions
Repeat(es, i) == Cardinality({j \in 1 .. i : es[j].key = es[i].key})       \* which occurrence of its key an entry is
Unique(c) == Cardinality({k \in Keys : cats[c].keys[k] # << >>}) = Length(c)
Label(c, i) == [key |-> Entries(c)[i].key, rep |-> IF Unique(c) THEN 1 ELSE Repeat(Entries(c), i)]

\* Object.fromEntries(): the first of the equal labels keeps its place, and the last one its value
State(c) ==
    LET firsts == {i \in 1 .. Length(c) : \A j \in 1 .. i - 1 : Label(c, j) # Label(c, i)}
        Value(i) == Entries(c)[Max({j \in 1 .. Length(c) : Label(c, j) = Label(c, i)})].value
        Early(i) == Label(c, i).rep = 1 /\ Label(c, i).key \in Numeric
        order == SetToSortSeq(firsts, LAMBDA i, j : (Early(i) /\ ~Early(j)) \/ (Early(i) = Early(j) /\ i < j))
    IN [n \in DOMAIN order |-> [label |-> Label(c, order[n]), value |-> Value(order[n])]]

\* __setstate__(): a label is its key again
Restored(c) == [n \in DOMAIN State(c) |-> [key |-> State(c)[n].label.key, value |-> State(c)[n].value]]
Serialisable(c) == \A i \in 1 .. Length(c) : Entries(c)[i].key # Null

----------------------------------------------------------------------------
\* The index lists, for each key, the positions at which it occurs, in increasing order (catalog.js 499), after whatever
\* operations, except where a rename took position 0 out of a list or renamed an entry that another catalog shares.
IndexAgrees == \A c \in Names \ broken : cats[c].keys = Index(Entries(c))

\* Nothing of a catalog is lost when it is written and read back, repeated keys keep their order, and so do all entries
\* if none but the first keys are numeric.
RestoredAsStored ==
    \A c \in Names \ broken : Serialisable(c) =>
        /\ \A k \in Keys : SelectSeq(Restored(c), LAMBDA e : e.key = k) = SelectSeq(Plain(Entries(c)), LAMBDA e : e.key = k)
        /\ (\A i \in 1 .. Length(c) : Entries(c)[i].key \notin Numeric) => Restored(c) = Plain(Entries(c))

=============================================================================
