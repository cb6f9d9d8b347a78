---------------------------- MODULE Inheritance ----------------------------
(* Properties of web objects. A property of an object is computed from its own values, those of its ancestors (in the order
   of the prototype graph), the default of its category and the default of its type, and is kept in the cache of immutable
   instances. Object 1 is the one that is read; the prototypes of an object have greater numbers. *)
EXTENDS Naturals, Sequences, SequencesExt, FiniteSets

CONSTANTS Objects,      \* 1 .. N
          Settings,     \* [kind, multiple, virtual, inherited, last]: types that the property may have
          Missing,      \* no value: the value of a property that has none
          MaxReads      \* bound: reads and writes of properties

InheritanceAssumption == MaxReads \in Nat /\ Missing \notin Nat

VARIABLES protos,       \* [Objects -> sequence of objects], __prototype$
          own,          \* [Objects -> sequence of values], the entries of the property in __data
          type,         \* type of the property in the schema, `default` and `impute` are sequences of one value or none
          defaults,     \* values of the property in `defaults` of the category, a sequence of one or none
          mode,         \* object 1 is "immutable", "mutable", or "deaf" (for indexing, always immutable)
          cache,        \* [names of properties -> entry, or NotCached]
          importing,    \* the class that the member_class getter imports has not been imported yet
          got,          \* what the last read got
          reads
inheritvars == <<protos, own, type, defaults, mode, cache, importing, got, reads>>

NotCached == [is |-> "nothing"]
Value(v) == [is |-> "value", of |-> v]
Names == {"prop", "prop$", "alias", "class"}

\* Values are numbers, sequences of numbers ("array", "set"), or of pairs of a key and a number ("dict", "catalog").
Atomic == type.kind = "atomic"

----------------------------------------------------------------------------
\* Ancestors of an object, itself first: depth first, each at its first occurrence
Unique(s) == LET First(i) == \A j \in 1 .. i - 1 : s[j] # s[i]
             IN FoldLeftDomain(LAMBDA acc, i : IF First(i) THEN Append(acc, s[i]) ELSE acc, << >>, s)
ancestors[o \in Objects] == Unique(<<o>> \o FlattenSeq([i \in 1 .. Len(protos[o]) |-> ancestors[protos[o][i]]]))

\* The values of one key in many collections, the youngest first
Keys(collections) == Unique([i \in 1 .. Len(FlattenSeq(collections)) |-> FlattenSeq(collections)[i][1]])
YoungestOf(k, collections) == SelectSeq(FlattenSeq(collections), LAMBDA e : e[1] = k)[1]
MergeDicts(collections) ==
    [i \in 1 .. Len(Keys(collections)) |-> <<Keys(collections)[i], YoungestOf(Keys(collections)[i], collections)[2]>>]
MergeInherited(values) == CASE type.kind = "array"   -> FlattenSeq(values)
                            [] type.kind = "set"     -> Unique(FlattenSeq(values))
                            [] type.kind = "catalog" -> FlattenSeq(values)      \* a key may be repeated
                            [] type.kind = "dict"    -> MergeDicts(values)
                            [] OTHER                 -> values[1]

CombineInherited(streams) ==
    LET given  == FlattenSeq(streams) \o type.default
        values == IF given = << >> THEN type.impute ELSE given
    IN IF type.multiple \/ values = << >> THEN values
       ELSE IF Len(values) > 1 /\ ~Atomic THEN <<MergeInherited(values)>> ELSE <<values[1]>>

\* An own value of an atomic property is taken at once.
Shortcut_AnyType == ~type.multiple /\ own[1] # << >>        \* mutant: compound types, too
Shortcut == ~type.multiple /\ Atomic /\ own[1] # << >>
Streams == LET from == IF type.inherited /\ ~type.virtual THEN ancestors[1] ELSE <<1>>
           IN IF type.virtual THEN << >> ELSE [i \in 1 .. Len(from) |-> own[from[i]]]
ComputeProperty == IF mode = "deaf" THEN own[1] ELSE IF Shortcut THEN <<own[1][1]>>
                   ELSE CombineInherited(Append(Streams, defaults))

----------------------------------------------------------------------------
\* The property or its alias is read. The computed values are cached under both names of the one read, with and without $.
Base(name) == IF name = "alias" THEN "alias" ELSE "prop"
First(values) == IF values = << >> THEN Missing ELSE values[1]
Read(name) ==
    LET base == Base(name)  values == ComputeProperty
    IN /\ got' = [name |-> name, again |-> FALSE,
                  read |-> IF cache[name] # NotCached THEN cache[name]
                           ELSE Value(IF name = base THEN First(values) ELSE values)]
       /\ cache' = IF mode = "mutable" \/ cache[name] # NotCached THEN cache
                   ELSE [n \in Names |-> IF n = "class" \/ Base(n) # base THEN cache[n]
                                         ELSE Value(IF n = base THEN First(values) ELSE values)]
       /\ UNCHANGED <<protos, own, type, defaults, mode, importing>>

\* The getter is read: what it returns is cached. In place of a promise goes its continuation, whose outcome is that of
\* Map.set(), the cache itself; it puts the value into the cache.
Returned == IF importing THEN [is |-> "promise", of |-> "class"] ELSE Value("class")
ReadClass == /\ got' = [name |-> "class", again |-> importing /\ cache["class"] # NotCached,
                        read |-> IF cache["class"] # NotCached THEN cache["class"] ELSE Returned]
             /\ cache' = IF mode = "mutable" \/ cache["class"] # NotCached THEN cache
                         ELSE [cache EXCEPT !["class"] = IF importing THEN [is |-> "promise", of |-> "cache"] ELSE Returned]
             /\ UNCHANGED <<protos, own, type, defaults, mode, importing>>
Imported == /\ importing /\ importing' = FALSE
            /\ cache' = IF cache["class"] # NotCached THEN [cache EXCEPT !["class"] = Value("class")] ELSE cache
            /\ got' = NotCached
            /\ UNCHANGED <<protos, own, type, defaults, mode, reads>>

\* The property is assigned (one value, or the array given to prop$) or deleted. Edits of an immutable instance go to its
\* mutable copy, which is another object. A virtual property cannot be assigned.
EditTo(values) == /\ own' = IF mode = "mutable" THEN [own EXCEPT ![1] = values] ELSE own
                  /\ got' = NotCached
                  /\ UNCHANGED <<protos, type, defaults, mode, cache, importing>>
Set(values) == ~type.virtual /\ EditTo(values)
Delete == EditTo(<< >>)

----------------------------------------------------------------------------
\* Values tell whose they are: those of object o are about number o, the category's 7, the type's default 8, imputed 9.
ValueOf(kind, n) == CASE kind = "atomic" -> n [] kind \in {"array", "set"} -> <<n, 5>>
                      [] OTHER -> IF n = 2 THEN <<<<"b", n>>, <<"a", n>>>> ELSE <<<<"a", n>>>>
Init == \E s \in Settings, owners \in SUBSET (Objects \cup {7}) :
        LET From(n) == IF n \in owners THEN <<ValueOf(s.kind, n)>> ELSE << >>
        IN /\ type = [kind |-> s.kind, multiple |-> s.multiple, virtual |-> s.virtual, inherited |-> s.inherited,
                      default |-> IF s.last = "default" THEN <<ValueOf(s.kind, 8)>> ELSE << >>,
                      impute |-> IF s.last = "impute" THEN <<ValueOf(s.kind, 9)>> ELSE << >>]
           /\ own = [o \in Objects |-> From(o)] /\ defaults = From(7)
           /\ protos \in [Objects -> UNION {[1 .. n -> Objects] : n \in 0 .. 2}]
           /\ \A o \in Objects : \A i, j \in DOMAIN protos[o] : protos[o][i] > o /\ (i # j => protos[o][i] # protos[o][j])
           /\ mode \in {"immutable", "mutable", "deaf"} /\ (s.kind # "dict" => mode = "immutable")
           /\ cache = [n \in Names |-> NotCached] /\ importing = (owners = {})
           /\ got = NotCached /\ reads = 0

Next == \/ /\ reads < MaxReads /\ reads' = reads + 1
           /\ \/ \E name \in Names \ {"class"} : Read(name)
              \/ ReadClass
              \/ Set(<<ValueOf(type.kind, 4)>>)
              \/ Delete
        \/ Imported

----------------------------------------------------------------------------
\* Where values of the property come from, and which of them is meant to hide which
Above == IF type.virtual THEN {} ELSE IF type.inherited THEN Range(ancestors[1]) ELSE {1}
Given(x) == CASE x = 7 -> defaults [] x = 8 -> type.default [] x = 9 -> type.impute [] OTHER -> own[x]
Sources == LET given == {x \in Above \cup {7, 8} : Given(x) # << >>}
           IN IF given # {} THEN given ELSE {x \in {9} : Given(x) # << >>}
Younger(x, y) == IF y \in Objects THEN x \in Objects \ {y} /\ y \in Range(ancestors[x]) ELSE x < y
Diamond == \E o \in Range(ancestors[1]) : \E p, q \in Range(protos[o]) :
              p # q /\ Range(ancestors[p]) \cap Range(ancestors[q]) # {}
Elements(value) == IF Atomic THEN {<<"", value>>} ELSE IF type.kind \in {"array", "set"} THEN {<<n, n>> : n \in Range(value)}
                   ELSE Range(value)
All == UNION {Elements(v) : v \in UNION {Range(Given(x)) : x \in Sources}}
\* The youngest source wins, key by key.
Visible(e) == ~\E x, y \in Sources : /\ Younger(x, y) /\ e \in UNION {Elements(v) : v \in Range(Given(y))}
                                     /\ \E v \in Range(Given(x)) : \E f \in Elements(v) : f[1] = e[1] /\ f # e
                                     /\ e \notin UNION {Elements(v) : v \in Range(Given(x))}

\* What is read of a property is all that its object, its ancestors, the category and the type say of it: the values of a
\* multiple property all of them, those of a compound one merged, for each key the youngest, of an atomic one the youngest.
\* It does not depend on what was read or written before. There are two exceptions: an ancestor that is reached on two ways
\* counts as older than the first of its descendants on the way only, and an own value of a virtual property is not ignored.
\* The class of a category's members is what member_class returns or promises, unless it is read again before it is imported.
\* (WebObject._compute_property, Type.combine_inherited, Intercept)
ReadsAreDerived ==
    got # NotCached =>
        IF got.name = "class" THEN got.again \/ got.read \in {Value("class"), [is |-> "promise", of |-> "class"]}
        ELSE LET single == got.name = Base(got.name)
                 v      == got.read.of
                 shown  == IF single THEN IF v = Missing THEN {} ELSE Elements(v) ELSE UNION {Elements(w) : w \in Range(v)}
             IN mode # "deaf" /\ ~(type.virtual /\ own[1] # << >>) =>
                  /\ shown \subseteq All
                  /\ shown = {} <=> Sources = {}
                  /\ type.kind = "catalog" \/ type.kind \in {"array", "set"} \/ (type.multiple /\ ~single)
                       => type.multiple \/ shown = All
                  /\ ~single /\ type.multiple => shown = All
                  /\ type.kind = "dict" /\ ~type.multiple
                       => {e[1] : e \in shown} = {e[1] : e \in All} /\ (Diamond \/ \A e \in shown : Visible(e))
                  /\ Atomic /\ ~(type.multiple /\ ~single) => Diamond \/ \A e \in shown : Visible(e)
=============================================================================
