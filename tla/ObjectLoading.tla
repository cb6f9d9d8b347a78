---------------------------- MODULE ObjectLoading ----------------------------
(* Loading of web objects that depend on each other, in one process. load() of an object reads its record and then awaits
   the loading of its prototypes, of its categories, and of the references that are to be loaded with it; all callers of
   an object that is loading await the same promise. A load that fails leaves the object as it was before, except that
   one which fails before anything was awaited, that is, on a record taken from the registry, leaves its promise behind. *)
EXTENDS Naturals, FiniteSets

CONSTANTS Objects,
          Links,        \* sets of links [of, kind, to] that objects may have, kind is "proto", "category" or "autoload"
          MaxCalls,     \* bound: load() called from outside
          MaxErrors     \* bound: records not found, database errors, classes that cannot be imported

LoadingAssumption == MaxCalls \in Nat /\ MaxErrors \in Nat

VARIABLES links,        \* the links of the objects
          corrupt,      \* objects whose record cannot be decoded
          cached,       \* objects whose record is in the registry
          stage,        \* "stub", "record", "data", "protos", "categories", "refs", "active" or "rejected"
          awaits,       \* [Objects -> objects it waits for]
          hurt,         \* objects that wait for one whose loading failed
          calls, errors
loadvars == <<links, corrupt, cached, stage, awaits, hurt, calls, errors>>

Loading == {o \in Objects : stage[o] \in {"record", "data", "protos", "categories", "refs"}}
To(o, kind) == {l.to : l \in {m \in links : m.of = o /\ m.kind = kind}}

Init == /\ links \in Links
        /\ corrupt \in {S \in SUBSET Objects : Cardinality(S) <= 1}
        /\ cached = {}
        /\ stage = [o \in Objects |-> "stub"]
        /\ awaits = [o \in Objects |-> {}] /\ hurt = {}
        /\ calls = 0 /\ errors = 0

----------------------------------------------------------------------------
\* load() of the objects S: those that are stubs start, the others return the promise they have
Started(o) == IF o \notin cached THEN "record" ELSE IF o \in corrupt THEN "rejected" ELSE "data"
Load(S, st) == [o \in Objects |-> IF o \in S /\ st[o] = "stub" THEN Started(o) ELSE st[o]]

Call(o) == /\ calls < MaxCalls /\ calls' = calls + 1
           /\ stage[o] # "active"
           /\ stage' = Load({o}, stage)
           /\ UNCHANGED <<links, corrupt, cached, awaits, hurt, errors>>

\* o goes on to the given stage and awaits those of the objects S that are not loaded, in parallel
IsLoaded_Data(p) == stage[p] \notin {"stub", "record", "rejected"}     \* mutant: an object counts as loaded once it has data
IsLoaded(p) == stage[p] = "active"
Await(o, next, S) ==
    LET missing == {p \in S : ~IsLoaded(p)}
    IN /\ awaits[o] = {} /\ o \notin hurt
       /\ stage' = Load(missing, [stage EXCEPT ![o] = next])
       /\ awaits' = [awaits EXCEPT ![o] = missing]
       /\ hurt' = IF \E p \in missing : stage'[p] = "rejected" THEN hurt \cup {o} ELSE hurt
       /\ UNCHANGED <<links, corrupt, cached, calls, errors>>

\* The promise of o is rejected: all who wait for it fail, too. The object is a stub again.
Waiting(o) == {p \in Objects : o \in awaits[p]}
Reject_Unheard(o) ==                         \* mutant: those who wait are not told
    /\ stage' = [stage EXCEPT ![o] = "stub"] /\ awaits' = [awaits EXCEPT ![o] = {}] /\ hurt' = hurt \ {o}
    /\ UNCHANGED <<links, corrupt, calls>>
Reject(o) == /\ stage' = [stage EXCEPT ![o] = "stub"]
             /\ awaits' = [p \in Objects |-> IF p = o THEN {} ELSE awaits[p] \ {o}]
             /\ hurt' = (hurt \ {o}) \cup (Waiting(o) \ {o})
             /\ UNCHANGED <<links, corrupt, calls>>

Receive(o) == /\ stage[o] = "record"
              /\ cached' = cached \cup {o}
              /\ IF o \in corrupt THEN Reject(o) /\ UNCHANGED errors
                 ELSE /\ stage' = [stage EXCEPT ![o] = "data"]
                      /\ UNCHANGED <<links, corrupt, awaits, hurt, calls, errors>>
LoadPrototypes(o) == stage[o] = "data"       /\ Await(o, "protos", To(o, "proto"))
LoadCategories(o) == stage[o] = "protos"     /\ Await(o, "categories", To(o, "category") \ {o})
LoadReferences(o) == stage[o] = "categories" /\ Await(o, "refs", To(o, "autoload"))
Activate(o) == /\ stage[o] = "refs" /\ awaits[o] = {} /\ o \notin hurt
               /\ stage' = [stage EXCEPT ![o] = "active"]
               /\ awaits' = [p \in Objects |-> awaits[p] \ {o}]
               /\ UNCHANGED <<links, corrupt, cached, hurt, calls, errors>>

\* Promise.all() rejects at the first failure; the other loads go on.
Fail(o) == o \in hurt /\ Reject(o) /\ UNCHANGED <<cached, errors>>
\* No record, or no class
Error(o) == /\ errors < MaxErrors /\ errors' = errors + 1
            /\ stage[o] = "record" \/ (stage[o] = "categories" /\ awaits[o] = {} /\ o \notin hurt)
            /\ Reject(o) /\ UNCHANGED cached

\* A corrected record is registered; the registry is purged, and the next caller makes a new stub.
Correct(o) == /\ o \in corrupt
              /\ corrupt' = corrupt \ {o} /\ cached' = cached \cup {o}
              /\ UNCHANGED <<links, stage, awaits, hurt, calls, errors>>
Purge(o) == /\ stage[o] = "rejected"
            /\ stage' = [stage EXCEPT ![o] = "stub"]
            /\ cached' = cached \ {o}
            /\ UNCHANGED <<links, corrupt, awaits, hurt, calls, errors>>

Proceed(o) == Receive(o) \/ LoadPrototypes(o) \/ LoadCategories(o) \/ LoadReferences(o) \/ Activate(o) \/ Fail(o)
Next == \E o \in Objects : Call(o) \/ Proceed(o) \/ Error(o) \/ Correct(o) \/ Purge(o)

\* The database answers, and the promises of a process are settled; nobody has to call, to correct or to purge.
Fairness == \A o \in Objects : WF_loadvars(Proceed(o))
Spec == Init /\ [][Next]_loadvars /\ Fairness

----------------------------------------------------------------------------
Needs(o) == To(o, "proto") \cup (To(o, "category") \ {o}) \cup To(o, "autoload")
\* Objects whose links lead to no circle
Grounded == LET f[n \in 0 .. Cardinality(Objects)] == IF n = 0 THEN {} ELSE {o \in Objects : Needs(o) \subseteq f[n - 1]}
            IN f[Cardinality(Objects)]

\* What can be used has everything it inherits from: the prototypes, categories and autoloaded references of an active
\* object are active, however the loads of objects that share them overlap and fail. (In a circle, is_loaded() is true of
\* an object whose load() has not returned its promise yet; here it never is, so nothing is said of circles.)
ActiveIsComplete == \A o \in Objects : o \in Grounded /\ stage[o] = "active" => \A p \in Needs(o) : stage[p] = "active"

\* Every load ends, successfully or not, unless the links of the object lead to a circle, where loads may wait for each
\* other, or for themselves, forever.
LoadsEndUnlessCircular == \A o \in Objects : o \in Loading /\ o \in Grounded ~> o \notin Loading

\* "clean up to allow another load attempt, even after error" (object.js 513): no promise that is settled stays behind.
AnotherAttempt == \A o \in Objects : stage[o] # "rejected"
=============================================================================
