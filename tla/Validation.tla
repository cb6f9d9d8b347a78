----------------------------- MODULE Validation -----------------------------
(* Validation of the attributes of a web object by the types in the schema of its category. It is done in the data block,
   on insert and on every update, it normalises the values in place, and what it accepted is stored. *)
EXTENDS Integers, Sequences, SequencesExt, FiniteSets

CONSTANTS Schemas,      \* [strict, fields, required]: fields maps attributes to types; strict: no allow_custom_fields
          Contents,     \* what may be inserted: sequences of [attr, value]
          NaN,          \* the number that is none, or the time of an invalid date
          Safe,         \* largest safe integer, in halves
          Dated         \* strings and arrays that new Date() can read: the time each of them names

\* Numbers are counted in halves. A string is <<blanks before, characters inside, blanks after>>. The content of an array or
\* a set is a sequence of values, that of an object, a map or a catalog a sequence of pairs of a string and a value.
Undefined == [is |-> "undefined", of |-> 0]
Null      == [is |-> "null", of |-> 0]
Rejected  == [is |-> "rejected", of |-> 0]
Infinity  == 2 * Safe           \* more than any other number that occurs
Check(v, ok) == IF v # Rejected /\ ok THEN v ELSE Rejected

VARIABLES schema, data, given, status
validationvars == <<schema, data, given, status>>

\* Options of a type that it does not set itself
Default == [is |-> "generic", not_null |-> TRUE, not_blank |-> TRUE, class |-> "any", trim |-> FALSE, charset |-> FALSE,
            min |-> -Infinity, max |-> Infinity, signed |-> TRUE, whole |-> FALSE, choices |-> {}, strict |-> TRUE,
            multiple |-> FALSE, virtual |-> FALSE, required |-> FALSE]
Dicts == {"object", "map", "catalog"}

----------------------------------------------------------------------------
Length(str) == str[1] + str[2] + str[3]
IsBlank(t, v) == CASE t.is = "string" -> v.is = "string" /\ Length(v.of) = 0
                   [] t.is \in {"array", "set", "map", "catalog"} -> v.is \in {"array", "set", "map", "catalog"} /\ v.of = << >>
                   [] t.is = "object" -> v.is \notin {"object", "string", "array"} \/ v.of = << >>
                   [] OTHER -> FALSE

\* Type.validate(): a blank value that is allowed becomes undefined.
Basic(t, v) ==
    LET blank == v = Null \/ IsBlank(t, v)
        ok    == /\ v # Undefined
                 /\ t.not_null => v # Null
                 /\ t.not_blank => ~blank
                 /\ t.class # "any" => v.is = t.class
    IN IF ~ok THEN Rejected ELSE IF blank THEN Undefined ELSE v
Primitive(t, v) == Check(Basic(t, v), Basic(t, v).is = t.is)

\* Comparisons with NaN fail, so it is within all bounds. A number that need not be whole has none unless they are set.
Number(t, v) == LET n == Primitive(t, v)
                IN Check(n, IF n.of = NaN THEN ~t.whole
                            ELSE /\ n.of >= t.min /\ n.of <= t.max
                                 /\ t.whole => n.of % 2 = 0 /\ (t.signed \/ n.of >= 0) /\ n.of \in -Safe .. Safe)

\* The length is checked before the string is trimmed.
Trimmed(v) == [v EXCEPT !.of = <<0, v.of[2], 0>>]
String(t, v) == LET s == Primitive(t, v)
                    w == Check(s, Length(s.of) >= t.min /\ Length(s.of) <= t.max /\ (t.charset => s = Trimmed(s)))
                IN IF w # Rejected /\ t.trim THEN Trimmed(w) ELSE w

\* What is not a date is converted to one before it is checked: a number, a boolean, null, a text or an array with such a text.
\* The time is a whole number, and within bounds that are narrower than those of a safe integer.
Time(v) == CASE v.is = "date" -> v.of
             [] v.is = "number" /\ v.of \in -Safe .. Safe -> IF v.of < 0 THEN v.of + (v.of % 2) ELSE v.of - (v.of % 2)
             [] v.is = "boolean" -> 2 * v.of
             [] v = Null -> 0
             [] OTHER -> IF v \in DOMAIN Dated THEN Dated[v] ELSE NaN
Date(t, v) == Check(Basic(t, [is |-> "date", of |-> Time(v)]), Time(v) # NaN)
Reference(t, v) == Check(Basic(t, v), Basic(t, v).is = "ref" /\ Basic(t, v).of # 0)
Choice(t, v)    == Check(Basic(t, v), Basic(t, v) \in t.choices)

RECURSIVE Validate(_, _)
Elements(t, v) == [i \in DOMAIN v.of |-> Validate(t.type, v.of[i])]
AllOf(v, elements, as) == IF v.is \notin {"array", "set"} \/ Rejected \in Range(elements) THEN Rejected
                          ELSE [v EXCEPT !.is = as, !.of = elements]
Array(t, v) == LET a == Basic(t, v) IN IF a.is # "array" THEN Rejected ELSE AllOf(a, Elements(t, a), "array")
Once(s) == FoldLeft(LAMBDA acc, e : IF Contains(acc, e) THEN acc ELSE Append(acc, e), << >>, s)
Set(t, v) == LET a == Basic(t, IF v.is = "array" THEN [is |-> "set", of |-> Once(v.of)] ELSE v)
             IN IF a.is # "set" THEN Rejected
                ELSE LET w == AllOf(a, Elements(t, a), "set") IN IF w = Rejected THEN w ELSE [w EXCEPT !.of = Once(w.of)]

\* An object or a map that changed is built anew: of entries with the same key the last one is kept, at the place of the first.
KeysOf(entries) == [i \in DOMAIN entries |-> entries[i][1]]
LastOfEach(entries) == LET keys == Once(KeysOf(entries))
                       IN [i \in DOMAIN keys |-> Last(SelectSeq(entries, LAMBDA e : e[1] = keys[i]))]
Dict(t, v) ==
    LET d == Basic(t, v)
        entries == [i \in DOMAIN d.of |-> <<Validate(t.key, d.of[i][1]), Validate(t.type, d.of[i][2])>>]
    IN IF d.is # t.is \/ \E i \in DOMAIN d.of : Rejected \in Range(entries[i]) THEN Rejected
       ELSE IF t.is # "catalog" THEN [d EXCEPT !.of = LastOfEach(entries)]
       ELSE Check([d EXCEPT !.of = entries], t.key.multiple \/ IsInjective(KeysOf(entries)))

\* The keys of a record are those of an object. Other values have none, or positions, and what is in a map is not looked at.
HasKeys(v) == (v.is = "string" /\ Length(v.of) > 0) \/ (v.is = "array" /\ v.of # << >>)
Record(t, v) ==
    LET r == Basic(t, v)
        At(key) == IF \E e \in Range(r.of) : e[1] = key THEN (CHOOSE e \in Range(r.of) : e[1] = key)[2] ELSE Undefined
        valid == [i \in DOMAIN r.of |-> IF r.of[i][1] \in DOMAIN t.fields
                                        THEN <<r.of[i][1], Validate(t.fields[r.of[i][1]], r.of[i][2])>> ELSE r.of[i]]
        must == {key \in DOMAIN t.fields : t.fields[key].required}
    IN IF r \in {Rejected, Undefined} THEN Rejected
       ELSE IF r.is # "object" THEN Check(r, must = {} /\ (t.strict => ~HasKeys(r)))
       ELSE Check([r EXCEPT !.of = valid],
                  /\ \A e \in Range(valid) : e[2] # Rejected /\ (t.strict => e[1] \in DOMAIN t.fields)
                  /\ \A key \in must : \E e \in Range(valid) : e[1] = key /\ e[2] # Undefined)

Validate(t, v) == CASE t.is = "number" -> Number(t, v)      [] t.is = "string" -> String(t, v)
                    [] t.is = "boolean" -> Primitive(t, v)  [] t.is = "date" -> Date(t, v)
                    [] t.is = "ref" -> Reference(t, v)      [] t.is = "enum" -> Choice(t, v)
                    [] t.is = "array" -> Array(t, v)        [] t.is = "set" -> Set(t, v)
                    [] t.is \in Dicts -> Dict(t, v)         [] t.is = "record" -> Record(t, v)
                    [] OTHER -> Basic(t, v)

----------------------------------------------------------------------------
\* WebObject.validate(): an attribute that becomes undefined is not stored.
Known(s, attr) == attr \in DOMAIN s.fields
Values(content, attr) == {i \in DOMAIN content : content[i].attr = attr}
Attribute(s, e) == IF ~Known(s, e.attr) \/ e.value = Undefined THEN e
                   ELSE [e EXCEPT !.value = Validate(s.fields[e.attr], e.value)]
Normalised(s, content) == [i \in DOMAIN content |-> Attribute(s, content[i])]
Present(s, content) == \A attr \in s.required : \E i \in Values(content, attr) : /\ \A j \in Values(content, attr) : i <= j
                                                                               /\ content[i].value # Undefined
Allowed(s, content) ==
    \A e \in Range(content) : /\ e.attr \notin {"", "reserved"}
                              /\ IF Known(s, e.attr)
                                 THEN /\ ~s.fields[e.attr].virtual
                                      /\ Cardinality(Values(content, e.attr)) = 1 \/ s.fields[e.attr].multiple
                                 ELSE ~s.strict
Accepted_Raw(s, content) ==                   \* mutant: blank values count for the required attributes
    Allowed(s, content) /\ (\A e \in Range(Normalised(s, content)) : e.value # Rejected) /\ Present(s, content)
Accepted(s, content) == LET new == Normalised(s, content)
                        IN Allowed(s, content) /\ (\A e \in Range(new) : e.value # Rejected) /\ Present(s, new)

\* In JSON there is no NaN and no infinity: they are written as null, which is read back as 1970 where a date is expected.
Unwritten(v) == \/ v.is = "date" /\ v.of = NaN
                \/ v.is = "number" /\ v.of \in {NaN, Infinity, -Infinity}
RECURSIVE Stored(_)
Stored(v) == CASE Unwritten(v) -> IF v.is = "date" THEN [v EXCEPT !.of = 0] ELSE Null
               [] v.is = "array" -> [v EXCEPT !.of = [i \in DOMAIN v.of |-> Stored(v.of[i])]]
               [] v.is = "set" -> [v EXCEPT !.of = Once([i \in DOMAIN v.of |-> Stored(v.of[i])])]
               [] v.is \in Dicts -> [v EXCEPT !.of = [i \in DOMAIN v.of |-> <<v.of[i][1], Stored(v.of[i][2])>>]]
               [] OTHER -> v
Serialised(content) == LET kept == SelectSeq(content, LAMBDA e : e.value # Undefined)
                       IN [i \in DOMAIN kept |-> [kept[i] EXCEPT !.value = Stored(@)]]

Init == /\ schema \in Schemas /\ given \in Contents /\ data = << >> /\ status = "new"
Insert == /\ status = "new"
          /\ status' = IF Accepted(schema, given) THEN "stored" ELSE "rejected"
          /\ data' = IF Accepted(schema, given) THEN Serialised(Normalised(schema, given)) ELSE data
          /\ UNCHANGED <<schema, given>>
\* An update that leaves the attributes as they are, or repeats one of them
Update == /\ status = "stored"
          /\ status' = IF Accepted(schema, data) THEN "stored" ELSE "refused"
          /\ data' = IF Accepted(schema, data) THEN Serialised(Normalised(schema, data)) ELSE data
          /\ UNCHANGED <<schema, given>>
Next == Insert \/ Update

----------------------------------------------------------------------------
RECURSIVE PartsOf(_)
PartsOf(v) == {v} \cup CASE v.is \in {"array", "set"} -> UNION {PartsOf(e) : e \in Range(v.of)}
                         [] v.is \in Dicts -> UNION {PartsOf(e[1]) \cup PartsOf(e[2]) : e \in Range(v.of)}
                         [] OTHER -> {}
Given == UNION {PartsOf(e.value) : e \in Range(given)}
Blanks == {v \in Given : v.is = "string" /\ v # Trimmed(v)}
NotStored == \E v \in Given : Unwritten(v)
Collide(keys) == \E i, j \in DOMAIN keys : i # j /\ Trimmed(keys[i]) = Trimmed(keys[j])

\* What was accepted is accepted again, and does not change: an object can be updated whatever was inserted. Excepted are
\* strings with blanks around them, which are trimmed after the length was checked, and NaN, an infinity or an invalid date,
\* which are stored as null. No entry of a collection gets lost, except those of a map or an object whose keys differ in such
\* blanks, and what is stored under an attribute is of its type, except that a record may be anything without keys, and anything
\* at all if it is not strict.
\* (Type.validate and its overrides, WebObject.validate)
AcceptedStays ==
    /\ status = "refused" => Blanks # {} \/ NotStored
    /\ status = "stored" /\ Accepted(schema, data) => NotStored \/ Serialised(Normalised(schema, data)) = data
    /\ status = "stored" => \A i \in DOMAIN data :
           LET v == data[i].value  t == schema.fields[data[i].attr]
           IN Known(schema, data[i].attr) =>
                 /\ t.is \in {"generic", "enum"} \/ v.is = t.is \/ v = Null
                    \/ (t.is = "record" /\ (v.is = "object" \/ ~t.strict \/ ~HasKeys(v)))
                 /\ Len(data) = Len(given) /\ v.is \in Dicts
                      => Len(v.of) = Len(given[i].value.of) \/ (v.is # "catalog" /\ Collide(KeysOf(given[i].value.of)))
=============================================================================
