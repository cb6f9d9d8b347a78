----------------------------- MODULE JsonCodec -----------------------------
(* JSONx: objects of any class are encoded as JSON, in which a dictionary with the key "@" stands for an instance of a class and
   "=" holds a state that is not a dictionary. Memory is a table of nodes, which may be shared or lead back to themselves. *)
EXTENDS Integers, Sequences, SequencesExt, FiniteSets, Relation

CONSTANTS Heaps,        \* tables of nodes [is, of], of = entries <<key, value>>; the value to be encoded is node 1
          Number        \* a map's key that is a number, and "7" as text

VARIABLES heap, json, result, phase
codecvars == <<heap, json, result, phase>>

Atom(x) == [is |-> "atom", of |-> x]
Undefined == Atom("undefined")
Null == Atom("null")
Epoch == Atom("0")                                  \* the first moment of 1970: new Date(null)
Ref(n) == [is |-> "node", of |-> n]
Make(what, entries) == [is |-> what, of |-> entries]
Bad == Make("error", << >>)

Keyed == {"plain", "map", "object"}                 \* nodes whose entries have keys
Flags == {"%bin", "%big", "%class"}                 \* texts with a class of their own
ClassOf == [date |-> "Date", map |-> "Map", set |-> "Set", object |-> "C", stated |-> "S"]  \* C: a class, S: one with __getstate__

HasKey(d, k) == \E i \in DOMAIN d.of : d.of[i][1] = k
Get(d, k) == d.of[CHOOSE i \in DOMAIN d.of : d.of[i][1] = k][2]
\* Object.fromEntries(): keys become strings, and of equal ones the last has the say
FromEntries(entries) ==
    FoldLeft(LAMBDA acc, e : LET k == IF e[1] = Number THEN "7" ELSE e[1]
                             IN IF \E i \in DOMAIN acc : acc[i][1] = k
                                THEN [i \in DOMAIN acc |-> IF acc[i][1] = k THEN <<k, e[2]>> ELSE acc[i]]
                                ELSE Append(acc, <<k, e[2]>>), << >>, entries)
Encodable(node) == LET es == IF node.is = "map" THEN FromEntries(node.of) ELSE node.of
                   IN IF node.is \in Keyed THEN SelectSeq(es, LAMBDA e : e[2] # Undefined) ELSE es

----------------------------------------------------------------------------
\* The state of a node out of its encoded entries
Wrapped_Never(dict) == dict                         \* mutant: a plain object with a key "@" is taken for an instance
Wrapped(dict) == IF HasKey(dict, "@") THEN Make("dict", <<<<"=", dict>>, <<"@", Atom("%wrap")>>>>) ELSE dict
WithClass(state, class) ==
    LET dict == IF state.is # "dict" \/ HasKey(state, "@") THEN Make("dict", <<<<"=", state>>>>) ELSE state
    IN Make("dict", Append(dict.of, <<"@", Atom(class)>>))
StateOf(what, entries) ==
    CASE what = "plain" -> Wrapped(Make("dict", entries))
      [] what = "web" -> Make("dict", <<<<"@", entries[1][2]>>>>)
      [] what = "array" -> Make("list", entries)
      [] what = "coded" -> Make("dict", <<<<"=", Null>>, <<"@", Atom(entries[1][1])>>>>)
      [] what \in {"date", "stated"} -> WithClass(entries[1][2], ClassOf[what])
      [] what \in {"map", "object"} -> WithClass(Make("dict", entries), ClassOf[what])
      [] what = "set" -> WithClass(Make("list", entries), ClassOf[what])

\* `refs` are the objects being encoded, in which a plain object stays for good: its encoded copy is deleted instead.
RECURSIVE Encode(_, _)
EncodeAll(entries, refs) ==
    FoldLeft(LAMBDA acc, e : IF ~acc.ok THEN acc
                             ELSE LET r == Encode(e[2], acc.refs)
                                  IN [ok |-> r.ok, out |-> Append(acc.out, <<e[1], r.out>>), refs |-> r.refs],
             [ok |-> TRUE, out |-> << >>, refs |-> refs], entries)
Encode(v, refs) ==
    IF v.is = "atom" THEN [ok |-> v # Undefined, out |-> v, refs |-> refs]
    ELSE IF v.of \in refs THEN [ok |-> FALSE, out |-> Null, refs |-> refs]
    ELSE LET node == heap[v.of]
             r == EncodeAll(Encodable(node), refs \cup {v.of})
         IN [ok |-> r.ok, out |-> IF r.ok THEN StateOf(node.is, r.out) ELSE Null,
             refs |-> IF node.is = "plain" THEN r.refs ELSE r.refs \ {v.of}]

\* JSON has no NaN.
RECURSIVE Text(_)
Text(s) == IF s.is = "atom" THEN IF s = Atom("NaN") THEN Null ELSE s
           ELSE Make(s.is, [i \in DOMAIN s.of |-> <<s.of[i][1], Text(s.of[i][2])>>])

Stringify == /\ phase = "given"
             /\ LET r == Encode(Ref(1), {})
                IN phase' = (IF r.ok THEN "text" ELSE "refused") /\ json' = IF r.ok THEN Text(r.out) ELSE Null
             /\ UNCHANGED <<heap, result>>

----------------------------------------------------------------------------
RECURSIVE Decode(_)
DecodeAll(entries) == [i \in DOMAIN entries |-> <<entries[i][1], Decode(entries[i][2])>>]
Instance(class, state) ==
    CASE class = Atom("7") -> Make("web", <<<<"", class>>>>)
      [] class = Atom("Date") -> Make("date", <<<<"", IF state = Null THEN Epoch ELSE state>>>>)
      [] class = Atom("Map") /\ state.is = "dict" -> Make("map", DecodeAll(state.of))
      [] class = Atom("Set") /\ state.is = "list" -> Make("set", DecodeAll(state.of))
      [] class = Atom("C") -> LET o == Decode(state) IN IF o.is = "plain" THEN Make("object", o.of) ELSE Bad
      [] class = Atom("S") -> Make("stated", <<<<"", Decode(state)>>>>)
      [] OTHER -> Bad
Decode(s) ==
    LET class == IF s.is = "dict" /\ HasKey(s, "@") THEN Get(s, "@") ELSE Null
        rest == SelectSeq(s.of, LAMBDA e : e[1] # "@")
    IN CASE s.is = "atom" -> s
         [] s.is = "list" -> Make("array", DecodeAll(s.of))
         [] s.is = "dict" /\ class = Null -> Make("plain", DecodeAll(s.of))
         [] class = Atom("%wrap") -> Make("plain", DecodeAll(Get(s, "=").of))
         [] class.is = "atom" /\ class.of \in Flags -> Make("coded", <<<<class.of, Null>>>>)
         [] OTHER -> IF ~HasKey(s, "=") THEN Instance(class, Make("dict", rest))
                     ELSE IF Len(rest) > 1 THEN Bad ELSE Instance(class, Get(s, "="))

Parse == phase = "text" /\ phase' = "back" /\ result' = Decode(json) /\ UNCHANGED <<heap, json>>

Init == heap \in Heaps /\ json = Null /\ result = Null /\ phase = "given"
Next == Stringify \/ Parse

----------------------------------------------------------------------------
\* What a value is, without the identity of its parts: an undefined entry is none, keys of maps are text, and NaN is null.
\* What comes back for an invalid date is the first moment of 1970.
RECURSIVE Unfold(_)
Unfold(v) == IF v.is = "atom" THEN IF v = Atom("NaN") THEN Null ELSE v
             ELSE IF heap[v.of].is = "date" /\ heap[v.of].of[1][2] = Atom("NaN") THEN Make("date", <<<<"", Epoch>>>>)
             ELSE LET es == Encodable(heap[v.of]) IN Make(heap[v.of].is, [i \in DOMAIN es |-> <<es[i][1], Unfold(es[i][2])>>])

Children(n) == {e[2].of : e \in {e \in Range(Encodable(heap[n])) : e[2].is = "node"}}
Reach == TransitiveClosure([e \in (DOMAIN heap) \X (DOMAIN heap) |-> e[2] \in Children(e[1])], DOMAIN heap)
Used == {n \in DOMAIN heap : n = 1 \/ Reach[<<1, n>>]}
Cyclic == \E n \in Used : Reach[<<n, n>>]
Places(n) == UNION {LET es == Encodable(heap[m]) IN {<<m, i>> : i \in {i \in DOMAIN es : es[i][2] = Ref(n)}} : m \in Used}
SharedPlain == \E p, n \in Used : heap[p].is = "plain" /\ Cardinality(Places(n)) > 1 /\ (n = p \/ Reach[<<n, p>>])
Nothing == \E n \in Used : heap[n].is \notin Keyed /\ \E e \in Range(heap[n].of) : e[2] = Undefined
Misread(n) == CASE heap[n].is = "object" -> {"@", "="}
                [] heap[n].is = "map" \/ \E o \in Used : heap[o].is = "stated" /\ n \in Children(o) -> {"="}
                [] OTHER -> {}
Reserved == \E n \in Used : \E e \in Range(Encodable(heap[n])) : e[1] \in Misread(n)

\* What is encoded comes back, whatever it is nested in, but for an invalid date, which comes back as 1970. Refused are
\* cycles, undefined where it cannot be left out, and plain objects that occur twice, which are taken for cycles; keys that look
\* like those of the encoding are not told apart from them.
\* (JSONx.encode, JSONx.decode)
ComesBack == /\ phase = "refused" => Cyclic \/ Nothing \/ SharedPlain
             /\ phase = "back" => ~Cyclic /\ (Reserved \/ result = Unfold(Ref(1)))
=============================================================================
