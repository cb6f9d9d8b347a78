----------------------------- MODULE MCObjects -----------------------------
(* Instances of the modules about web objects, side by side: `part` picks one of them, and the variables of the others keep
   one value. *)
EXTENDS MCRecords, TLC

CONSTANTS t1, t2,                                           \* threads
          MaxReads,                                         \* Inheritance
          NaN, Safe,                                        \* Validation
          MaxText                                           \* SpotDiff

VARIABLES protos, own, type, defaults, kind, cache, importing, got, reads,
          schema, data, given, status,
          heap, json, result, phase,
          format, sent, flying, buffer, expected, current, received,
          s1, s2, plan, overrun, computed,
          files, groupsFirst, exact, dynamic, url, found, params, stage,
          application, context, known, call,
          nodes, copy, last, edits

inheritvars == <<protos, own, type, defaults, kind, cache, importing, got, reads>>
validationvars == <<schema, data, given, status>>
codecvars == <<heap, json, result, phase>>
framevars == <<format, sent, flying, buffer, expected, current, received>>
diffvars == <<s1, s2, plan, overrun, computed>>
routevars == <<files, groupsFirst, exact, dynamic, url, found, params, stage>>
contextvars == <<application, context, known, call>>
pathvars == <<nodes, copy, last, edits>>
objectvars == <<sessionvars, inheritvars, validationvars>>
valuevars == <<codecvars, framevars, diffvars, routevars, contextvars, pathvars>>
vars == <<part, objectvars, valuevars, recordvars>>

MCThreads == {t1, t2}
Symmetry == Permutations(MCThreads)

\* Types of a property that differ in one or two options.
Settings == {s \in [kind : {"atomic", "array", "set", "dict", "catalog"}, multiple : BOOLEAN, virtual : BOOLEAN,
                    inherited : BOOLEAN, last : {"default", "impute", "none"}] :
                /\ s.kind \in {"array", "set", "catalog"} => s.inherited /\ ~s.virtual /\ ~s.multiple /\ s.last = "default"
                /\ s.kind = "dict" => s.inherited /\ ~s.virtual
                /\ ~s.inherited => ~s.virtual /\ ~s.multiple
                /\ s.virtual => ~s.multiple}

\* Values that are blank, at a limit, badly spaced, or of another type; collections of up to two of them
V(what, x) == [is |-> what, of |-> x]
Str(l, n, r) == V("string", <<l, n, r>>)
Atoms == {V("undefined", 0), V("null", 0), V("boolean", 1), V("ref", 1), V("ref", 0), V("date", 2), V("date", NaN)}
         \cup {V("number", x) : x \in {-4, 1, 2, 4, Safe + 2, 2 * Safe, -2 * Safe, NaN}} \cup {Str(l, n, r) : l \in 0 .. 1, n \in 0 .. 2, r \in {0}}
Members == {V("null", 0), V("number", 4), V("number", 2 * Safe), Str(0, 1, 0), Str(1, 1, 0), Str(1, 0, 0)}
Entries == {<<k, e>> : k \in {Str(0, 1, 0), Str(1, 1, 0)}, e \in {V("number", 4), V("number", NaN), Str(1, 1, 0), V("null", 0)}}
Values == Atoms
          \cup {V(what, s) : what \in {"array", "set"}, s \in {<< >>} \cup {<<e>> : e \in Members} \cup Members \X Members}
          \cup {V(what, s) : what \in {"object", "map"}, s \in {<< >>} \cup {<<e>> : e \in Entries}
                                                               \cup {q \in Entries \X Entries : q[1][1] # q[2][1]}}
          \cup {V("catalog", s) : s \in {<< >>} \cup {<<e>> : e \in Entries} \cup Entries \X Entries}
Contents == {<<[attr |-> "x", value |-> v]>> : v \in Values}
            \cup {<<[attr |-> "x", value |-> V("null", 0)], [attr |-> a, value |-> V("number", 4)]>> : a \in {"x", "y", "", "reserved"}}

\* Types of the attribute, with one option or two that are not the default
I == INSTANCE Inheritance WITH Objects <- 1 .. 3, mode <- kind
\* A text of one letter is a year, and the array of a 2 reads as 2.
Dated == [v \in {Str(l, 1, 0) : l \in 0 .. 1} \cup {V("array", <<e>>) : e \in {V("number", 4), Str(0, 1, 0), Str(1, 1, 0)}} |-> 2]
D == INSTANCE Validation WITH Schemas <- {}, Contents <- {}
With(opts) == opts @@ D!Default
Textual == With([is |-> "string", min |-> 0])
Numeric == With([is |-> "number"])
Types == {With([is |-> "generic"]), With([is |-> "generic", not_null |-> FALSE, not_blank |-> FALSE]), With([is |-> "boolean"]),
          Numeric, With([Numeric EXCEPT !.min = 2, !.max = 4]), With([Numeric EXCEPT !.whole = TRUE, !.signed = FALSE]),
          Textual, With([Textual EXCEPT !.trim = TRUE]), With([Textual EXCEPT !.trim = TRUE, !.min = 2, !.max = 3]),
          With([Textual EXCEPT !.charset = TRUE, !.trim = TRUE, !.not_blank = FALSE, !.not_null = FALSE]),
          With([is |-> "date", class |-> "any"]), With([is |-> "ref"]),
          With([is |-> "enum", choices |-> {V("number", 4), Str(0, 1, 0)}])}
Inner == {With([is |-> "generic"]), Numeric, With([Textual EXCEPT !.trim = TRUE])}
Deep == {With([is |-> what, class |-> what, type |-> t]) : what \in {"array", "set"}, t \in Inner}
        \cup {With([is |-> what, class |-> IF what = "object" THEN "any" ELSE what, type |-> t,
                    key |-> With([Textual EXCEPT !.trim = TRUE, !.multiple = m])]) :
                 what \in {"object", "map", "catalog"}, t \in Inner, m \in BOOLEAN}
        \cup {With([is |-> "record", strict |-> strict, fields |-> Str(0, 1, 0) :> With([Numeric EXCEPT !.required = required])]) :
                 strict, required \in BOOLEAN}
Schemas == {[strict |-> strict, required |-> required,
             fields |-> [x |-> [t EXCEPT !.multiple = multiple]]] :
                strict \in {TRUE}, required \in {{}, {"x"}}, multiple \in {FALSE}, t \in Types \cup Deep}
           \cup {[strict |-> FALSE, required |-> {"x"}, fields |-> [x |-> [t EXCEPT !.multiple = TRUE]]] : t \in Types}
W == INSTANCE Validation

\* Nodes of up to two entries, the second node small; and two nodes that may share a third
Atom(x) == V("atom", x)
To(n) == V("node", n)
Singles(values) == {V(what, e) : what \in {"plain", "map", "object"},
                                 e \in {<< >>} \cup {<<<<k, x>>>> : k \in {"a", "@", "="}, x \in values}}
                   \cup {V(what, e) : what \in {"array", "set"}, e \in {<< >>} \cup {<<<<"", x>>>> : x \in values}}
                   \cup {V("web", <<<<"", x>>>>) : x \in {Atom("7"), Atom("undefined")}}
                   \cup {V("coded", <<<<"%big", Atom("null")>>>>), V("date", <<<<"", Atom("7")>>>>), V("date", <<<<"", Atom("NaN")>>>>)}
                   \cup {V("stated", <<<<"", x>>>>) : x \in values}
Doubles(values) == {V(what, <<<<k, x>>, <<l, y>>>>) : what \in {"plain", "object"}, k \in {"@", "a"}, l \in {"=", "b"},
                                                     x, y \in values}
                   \cup {V("map", <<<<"7", x>>, <<"number", y>>>>) : x, y \in values}
                   \cup {V("set", <<<<"", x>>, <<"", y>>>>) : x, y \in values}
Heaps == {<<a, b>> : a \in Doubles({Atom("7"), Atom("undefined"), To(1), To(2)}) \cup Singles({To(2)}),
                     b \in Singles({Atom("7"), Atom("NaN"), Atom("null"), Atom("undefined"), To(1), To(2)})}
         \cup {<<a, b, c>> : a \in {V("array", <<<<"", To(2)>>, <<"", To(3)>>>>), V("plain", <<<<"@", To(2)>>, <<"a", To(3)>>>>)},
                             b \in Singles({Atom("7"), To(3)}), c \in Singles({Atom("7"), Atom("null")})}
J == INSTANCE JsonCodec WITH Number <- "number"

\* Up to two messages of up to two letters
Short == UNION {[1 .. n -> 1 .. 2] : n \in 0 .. 2}
UpToTwo(S) == {<< >>} \cup {<<a>> : a \in S} \cup S \X S
F == INSTANCE Framing WITH Newline <- 0, Answers <- UpToTwo(Short \ {<< >>}),
                           Requests <- UpToTwo({[id |-> n, json |-> j, content |-> c] : n \in {7, 8}, j \in BOOLEAN, c \in Short})

\* Texts of two letters, with patches of two letters or more
T == INSTANCE SpotDiff WITH Strings <- UNION {[1 .. n -> {"a", "b"}] : n \in 0 .. MaxText}, Whole <- Missing,
                            MaxDepth <- 2, NumPatches <- 2, MinLen <- 2, MinPatches <- 2, Penalty <- 0

\* Up to two files in folders with groups and parameters
Dirs == {<< >>, <<<<"a">>>>, <<<<"[p]">>>>, <<<<"(g)">>>>, <<<<"_x">>>>, <<<<"(g)">>, <<"[p]">>>>, <<<<"[q]">>, <<"[p]">>>>}
Filenames == {<<"a", "css">>, <<"a", "js">>, <<"index", "js">>, <<"[p]", "js">>, <<"[q]", "svelte">>}
Files == {Append(d, n) : d \in Dirs, n \in Filenames}
Segments == {<<"a">>, <<"b">>, <<"_x">>, <<"index">>, <<"a", "js">>, <<"a", "css">>, <<"a", "css", "js">>}
U == INSTANCE Routing WITH
        Trees <- {{f, g} : f, g \in Files},
        Urls <- {<< >>} \cup {<<s>> : s \in Segments} \cup {<<<<d>>, s>> : d \in {"a", "b"}, s \in Segments}
                \cup {<<<<"b">>, <<"a">>, s>> : s \in Segments},
        Private <- {"_x"}, Groups <- {"(g)"}, Params <- {"[p]", "[q]"}, Default <- "index",
        Static <- {"css", "js"}, Transpiled <- {"svelte"}, Rendered <- {"js", "svelte"}, None <- Missing,
        Rank <- [a |-> 1, b |-> 2, index |-> 3, css |-> 4, js |-> 5, svelte |-> 6, _x |-> 0] @@ "(g)" :> 1 @@ "[p]" :> 1 @@ "[q]" :> 2

\* Trees of a catalog with collections of every kind, and duplicate keys
Kinds == {"catalog", "map", "plain", "array", "object"}
Keyed(what, k) == IF what = "array" THEN "" ELSE k
Nested == {V(what, << >>) : what \in Kinds} \cup {V(what, <<<<Keyed(what, "b"), Atom("7")>>>>) : what \in Kinds}
          \cup {V(what, <<<<Keyed(what, "a"), Atom("7")>>, <<Keyed(what, "b"), x>>>>) : what \in Kinds, x \in {Atom("7"), To(3)}}
          \cup {V("catalog", <<<<"b", Atom("7")>>, <<"b", Atom("8")>>>>)}
Deepest == {V("array", <<<<"", Atom("8")>>>>), V("map", <<<<"a", Atom("8")>>>>)}
Key(k) == V("key", k)
Pos(n) == V("pos", n)
P == INSTANCE StructPaths WITH
        heap <- nodes,
        Trees <- {<<V("catalog", <<<<"a", To(2)>>, <<k, Atom("8")>>>>), n, d>> : n \in Nested, d \in Deepest, k \in {"a", "b"}}
                 \cup {<<V("catalog", <<<<"a", To(2)>>, <<"a", To(3)>>>>), n, d>> :
                             n \in {n \in Nested : \A i \in DOMAIN n.of : n.of[i][2].is = "atom"}, d \in Deepest},
        Paths <- {<<s>> : s \in {Key("a"), Key("b"), Pos(1)}}
                 \cup {<<s, r>> : s \in {Key("a"), Pos(0)}, r \in {Key("a"), Key("b"), Pos(0), Pos(1)}}
                 \cup {<<Key("a"), Key("b"), s>> : s \in {Key("a"), Pos(0)}},
        News <- {<<Atom("9")>>, <<Atom("9"), Atom("10")>>}, Names <- {"a", "c"}, MaxEdits <- 1

\* Two calls ask for two databases, of one application or two, or of none
X == INSTANCE Contexts WITH Calls <- MCThreads, Dbs <- {"d1", "d2"}, Kernel <- "kernel", Apps <- {"a1", "a2"}, NoApp <- "none"

\* Three objects in two rings: the first, in one of the rings or both, refers to itself, or strongly to the third; the others
\* refer to it, or look like it.
Rec(refs, nulls) == [edits |-> {}, refs |-> refs, nulls |-> nulls]
First == {1 :> Rec(refs, FALSE) : refs \in {{<<"weak", 1>>}, {<<"strong", 3>>, <<"weak", 2>>}}}
Others == {2 :> Rec(refs, TRUE) @@ 3 :> Rec({<<"weak", 1>>}, FALSE) : refs \in {{}, {<<"like", 1>>}}}
MCDatabases == UNION {{<<f @@ o, << >>>>, <<o, f>>, <<f, o>>, <<f @@ o, f>>} : f \in First, o \in Others}
MCUnwritable == {{}, {1}}
MCLists == {<<1>>, <<1, 2>>, <<3, 1>>}

\* Operators are created in two rings, of which the upper one may be read-only.
MCReadOnly == {{}, {2}}

ASSUME ObjectsAssumption == I!InheritanceAssumption /\ T!DiffAssumption

InheritAtRest == /\ protos = [o \in 1 .. 3 |-> << >>] /\ own = [o \in 1 .. 3 |-> << >>] /\ type = 0 /\ defaults = << >>
                 /\ kind = "mutable" /\ cache = << >> /\ importing = FALSE /\ got = I!NotCached /\ reads = MaxReads
Init == /\ part \in {"session", "inheritance", "validation", "codec", "framing", "diff", "routing", "contexts", "paths",
                    "reinsertion", "sequences"}
        /\ Sess!Init /\ (part # "session" => lite)
        /\ IF part = "inheritance" THEN I!Init ELSE InheritAtRest
        /\ IF part = "validation" THEN W!Init ELSE schema = 0 /\ given = << >> /\ data = << >> /\ status = "new"
        /\ IF part = "codec" THEN J!Init ELSE heap = << >> /\ json = J!Null /\ result = J!Null /\ phase = "given"
        /\ IF part = "framing" THEN F!Init ELSE /\ format = "lines" /\ sent = << >> /\ flying = << >> /\ buffer = << >>
                                                /\ expected = 0 /\ current = 0 /\ received = << >>
        /\ IF part = "diff" THEN T!Init ELSE s1 = << >> /\ s2 = << >> /\ plan = << >> /\ overrun = FALSE /\ computed = FALSE
        /\ IF part = "routing" THEN U!Init ELSE /\ files = {} /\ groupsFirst = FALSE /\ exact = {} /\ dynamic = << >> /\ url = << >>
                                                /\ found = Missing /\ params = << >> /\ stage = "new"
        /\ IF part = "contexts" THEN X!Init ELSE application = << >> /\ context = << >> /\ known = {} /\ call = << >>
        /\ IF part = "paths" THEN P!Init ELSE nodes = << >> /\ copy = 0 /\ last = [op |-> "none"] /\ edits = 0
        /\ IF part = "reinsertion" THEN Move!Init
           ELSE /\ fixed = {} /\ rings = << >> /\ todo = << >> /\ to = << >> /\ pc = "load" /\ taken = Missing /\ new = 0 /\ at = << >>
                /\ write = Missing /\ doomed = {} /\ moved = << >> /\ changes = 0 /\ wanted = << >> /\ caught = {} /\ late = {}
                /\ older = << >> /\ outdated = {}
        /\ Seqs!Init /\ (part # "sequences" => locked = {})
NextObject == \/ part = "session" /\ Sess!Next /\ UNCHANGED <<inheritvars, validationvars>>
              \/ part = "inheritance" /\ I!Next /\ UNCHANGED <<sessionvars, validationvars>>
              \/ part = "validation" /\ W!Next /\ UNCHANGED <<sessionvars, inheritvars>>
NextValue == \/ part = "codec" /\ J!Next /\ UNCHANGED <<framevars, diffvars, routevars, contextvars, pathvars>>
             \/ part = "framing" /\ F!Next /\ UNCHANGED <<codecvars, diffvars, routevars, contextvars, pathvars>>
             \/ part = "diff" /\ T!Next /\ UNCHANGED <<codecvars, framevars, routevars, contextvars, pathvars>>
             \/ part = "routing" /\ U!Next /\ UNCHANGED <<codecvars, framevars, diffvars, contextvars, pathvars>>
             \/ part = "contexts" /\ X!Next /\ UNCHANGED <<codecvars, framevars, diffvars, routevars, pathvars>>
             \/ part = "paths" /\ P!Next /\ UNCHANGED <<codecvars, framevars, diffvars, routevars, contextvars>>
NextRecord == \/ part = "reinsertion" /\ Move!Next /\ UNCHANGED sequencevars
              \/ part = "sequences" /\ Seqs!Next /\ UNCHANGED reinsertvars
Next == \/ NextObject /\ UNCHANGED <<part, valuevars, recordvars>>
        \/ NextValue /\ UNCHANGED <<part, objectvars, recordvars>>
        \/ NextRecord /\ UNCHANGED <<part, objectvars, valuevars>>
Spec == Init /\ [][Next]_vars

----------------------------------------------------------------------------
\* What is read is derived from all that is said of the property (Inheritance).
ReadsAreDerived == part = "inheritance" => I!ReadsAreDerived
\* What was accepted is accepted again (Validation).
AcceptedStays == part = "validation" => W!AcceptedStays
\* What is encoded comes back (JsonCodec), and messages arrive whole and in order, in chunks of any size (Framing).
SentIsReceived == /\ part = "codec" => J!ComesBack
                  /\ part = "framing" => F!WholeMessagesArrive
\* A plan of changes leads to the new string (SpotDiff).
PlanLeadsToNew == part = "diff" => T!PlanLeadsToNew
\* A request is led to the right file (Routing), and its callback runs in the context of its application (Contexts).
RequestsAreServed == /\ part = "routing" => U!RouteIsRight
                     /\ part = "contexts" => X!ServedInPlace
\* Paths lead to what was put there, and copies are independent (StructPaths).
PathsAreSound == part = "paths" => P!ReadsBack /\ P!CopyIsIndependent
=============================================================================
