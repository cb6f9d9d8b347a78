---------------------------- MODULE ProcessProofs ----------------------------
(***************************************************************************)
(* Proofs about what a process serves and what it knows (MCProcess), for   *)
(* any values of the constants.                                            *)
(*                                                                         *)
(* Served: a process serves the version it registered last.  The invariant *)
(* is about the instances of the object: one that starts has the record    *)
(* that is registered, unless another one was registered while it started  *)
(* (crossed), and the one in the registry, once active, is such a one.     *)
(* That version is the newest one unless an older answer came after it.    *)
(*                                                                         *)
(* Known: records that were changed come back.  The argument is about one  *)
(* object at a time, and about the calls that have a record of it to send  *)
(* (Holds).  As long as only one call at a time changes the object while   *)
(* its callers wait, these calls are a chain, in which records are newer   *)
(* the later the call (Ordered), and the last one has what is stored       *)
(* (Newest); a caller takes the record over, so the chain gets shorter but *)
(* keeps its end.  A failure and a nested action cut it.  Lite sessions    *)
(* are no part of it: they have the records of the last answer only.       *)
(*                                                                         *)
(* Arrives: requests find their agent.  The invariant says where each copy *)
(* of the request may be, by its options (InPlace), and, as long as no     *)
(* frame is started or stopped, that the tables have all frames that run   *)
(* or will run (Tables), so that a copy is on its way to one that fits if  *)
(* there is one (OnItsWay).  The copies of a broadcast are an enumeration  *)
(* of the frames that fit: the k-th one heads for the k-th frame (Spread). *)
(***************************************************************************)
EXTENDS MCProcess, FiniteSetTheorems, WellFoundedInduction, TLAPS

-----------------------------------------------------------------------------
States == {"free", "stub", "asked", "answered", "starting", "active"}
Instances == [state : States, data : Nat, expired : BOOLEAN, reload : BOOLEAN, crossed : BOOLEAN]
Caches == [rec : Nat, obj : 0 .. Slots, loading : Nat, inst : [1 .. Slots -> Instances]]

\* What instance i has is some record, and the one of version v unless another one was registered while it started.
Has(x, i, v) == x.inst[i].data # 0 /\ (x.inst[i].data = v \/ x.inst[i].crossed)

\* A cache that is right if v is the version registered last
Sound(x, v) ==
    /\ x \in Caches /\ x.rec \in {0, v}
    /\ \A i \in 1 .. Slots : x.inst[i].state = "starting" => Has(x, i, v)
    /\ C!Loaded(x) => Has(x, x.obj, v)
Answered(x, i) == x.inst[i].state = "answered" => x.inst[i].data # 0
Right(x, v) == Sound(x, v) /\ \A i \in 1 .. Slots : Answered(x, i)

CacheInv == ~essential => Right(c, latest) /\ latest \in Nat /\ newest \in Nat /\ latest <= newest /\ notes \subseteq Nat /\ db \in Nat \ {0}

Two(x) == \E a, b \in C!FreeSlots(x) : a # b

-----------------------------------------------------------------------------
\* A nonempty set of natural numbers has a least element.
LEMMA LeastExists ==
    ASSUME NEW S \in SUBSET Nat, S # {}
    PROVE  \E x \in S : \A y \in S : x <= y
<1>1. \E x \in S : \A y \in S : ~(<<y, x>> \in OpToRel(<, Nat))
  BY WFMin, NatLessThanWellFounded
<1>2. \A x, y \in Nat : ~(<<y, x>> \in OpToRel(<, Nat)) => x <= y
  BY DEF OpToRel
<1> QED BY <1>1, <1>2

\* There are slots for instances, and 0 stands for none.
LEMMA SomeSlots == Slots \in Nat /\ 0 \in 0 .. Slots
BY ProcessAssumption DEF C!CacheAssumption

\* Room in the cache means two free slots: get_object() and the reload of it take one each.
LEMMA RoomForTwo ==
    ASSUME C!Room
    PROVE  Two(c)
<1>1. Slots \in Nat
  BY ProcessAssumption DEF C!CacheAssumption
<1>2. IsFiniteSet(C!FreeSlots(c))
  <2>1. IsFiniteSet(1 .. Slots)
    BY <1>1, FS_Interval
  <2>2. C!FreeSlots(c) \in SUBSET (1 .. Slots)
    BY DEF C!FreeSlots
  <2> QED BY <2>1, <2>2, FS_Subset
<1>3. Cardinality(C!FreeSlots(c)) >= 2
  BY DEF C!Room, C!Cardinality, Cardinality
<1>4. PICK a : a \in C!FreeSlots(c)
  BY <1>2, <1>3, FS_EmptySet
<1>5. C!FreeSlots(c) # {a}
  <2>1. Cardinality({a}) = 1
    BY FS_Singleton
  <2> QED BY <1>3, <2>1
<1> QED BY <1>4, <1>5 DEF Two

\* The slot that a new instance takes is a free one.
LEMMA FreeSlot ==
    ASSUME NEW x, C!FreeSlots(x) # {}
    PROVE  C!Slot(x) \in 1 .. Slots /\ x.inst[C!Slot(x)].state = "free"
<1>1. Slots \in Nat
  BY ProcessAssumption DEF C!CacheAssumption
<1>2. C!FreeSlots(x) \in SUBSET Nat
  BY <1>1 DEF C!FreeSlots
<1>3. \E i \in C!FreeSlots(x) : \A j \in C!FreeSlots(x) : i <= j
  BY <1>2, LeastExists
<1>4. C!Slot(x) \in C!FreeSlots(x)
  BY <1>3 DEF C!Slot
<1> QED BY <1>4 DEF C!FreeSlots

\* One instance is changed to what it may be.
LEMMA SoundChanged ==
    ASSUME NEW x, NEW v, Sound(x, v), NEW i \in 1 .. Slots,
           NEW y \in Caches, y.rec \in {0, v}, y.obj \in {0, x.obj, i},
           \A j \in 1 .. Slots : j # i => y.inst[j] = x.inst[j],
           y.inst[i].state = "starting" \/ (y.inst[i].state = "active" /\ y.obj = i) => Has(y, i, v)
    PROVE  Sound(y, v)
<1>1. C!Loaded(y) => Has(y, y.obj, v)
  <2>1. CASE y.obj = i
    BY <2>1 DEF C!Loaded
  <2>2. CASE y.obj # i
    <3>1. y.obj # 0 => y.obj = x.obj /\ y.obj \in 1 .. Slots
      BY <2>2 DEF Sound, Caches
    <3> QED BY <2>2, <3>1 DEF Sound, Has, C!Loaded
  <2> QED BY <2>1, <2>2
<1>2. ASSUME NEW j \in 1 .. Slots
      PROVE  y.inst[j].state = "starting" => Has(y, j, v)
  BY DEF Sound, Has
<1> QED BY <1>1, <1>2 DEF Sound

\* A cache stays right as one of its instances is changed to one that has what it must have.
LEMMA InstanceChanged ==
    ASSUME NEW x, NEW v, Right(x, v), NEW i \in 1 .. Slots,
           NEW y \in Caches, y.rec \in {0, v}, y.obj \in {0, x.obj, i},
           \A j \in 1 .. Slots : j # i => y.inst[j] = x.inst[j],
           Answered(y, i),
           y.inst[i].state = "starting" \/ (y.inst[i].state = "active" /\ y.obj = i) => Has(y, i, v)
    PROVE  Right(y, v)
<1>1. Sound(y, v)
  BY SoundChanged DEF Right, Sound, Answered
<1>2. \A j \in 1 .. Slots : Answered(y, j)
  BY DEF Right, Sound, Answered
<1> QED BY <1>1, <1>2 DEF Right, Sound, Answered

\* A stub has no record, and with or without a reload asked for it is one of the instances.
LEMMA StubIsInstance ==
    /\ C!Stub \in Instances /\ C!Stub.state = "stub"
    /\ [C!Stub EXCEPT !.reload = TRUE] \in Instances /\ [C!Stub EXCEPT !.reload = TRUE].state = "stub"
<1>1. C!Free \in Instances
  BY DEF C!Free, Instances, States
<1>2. C!Stub \in Instances /\ C!Stub.state = "stub"
  BY <1>1 DEF C!Stub, Instances, States
<1> QED BY <1>2 DEF Instances

\* Registry.get_object(): the instance that there is, or a new stub in a free slot.
LEMMA GetObjectIsRight ==
    ASSUME NEW x, NEW v, Right(x, v), C!FreeSlots(x) # {}
    PROVE  /\ Right(C!GetObject(x), v) /\ C!GetObject(x).obj \in 1 .. Slots
           /\ C!FreeSlots(x) \subseteq C!FreeSlots(C!GetObject(x)) \union {C!Slot(x)}
           /\ \/ C!GetObject(x) = x
              \/ C!GetObject(x).inst[C!GetObject(x).obj].state = "stub"
<1>1. CASE x.obj # 0 /\ ~C!Outdated(x)
  BY <1>1 DEF C!GetObject, Right, Sound, Answered, Caches
<1>2. CASE ~(x.obj # 0 /\ ~C!Outdated(x))
  <2>1. PICK s \in 1 .. Slots : s = C!Slot(x) /\ x.inst[s].state = "free"
    BY FreeSlot
  <2>2. PICK n \in Instances : n = C!Stub /\ n.state = "stub"
    BY StubIsInstance
  <2>3. PICK y : y = [x EXCEPT !.obj = s, !.inst[s] = n]
    OBVIOUS
  <2>4. C!GetObject(x) = y
    BY <1>2, <2>1, <2>2, <2>3 DEF C!GetObject
  <2>5. /\ y \in Caches /\ y.rec = x.rec /\ y.obj \in {0, x.obj, s} /\ y.obj = s /\ y.inst[s] = n
        /\ \A j \in 1 .. Slots : j # s => y.inst[j] = x.inst[j]
    <3>1. x \in Caches
      BY DEF Right, Sound
    <3>2. y.rec = x.rec /\ y.loading = x.loading /\ y.obj = s /\ y.inst = [x.inst EXCEPT ![s] = n]
      BY <2>3, <3>1 DEF Caches
    <3>3. y = [rec |-> x.rec, obj |-> s, loading |-> x.loading, inst |-> [x.inst EXCEPT ![s] = n]]
      BY <2>3, <3>1 DEF Caches
    <3> QED BY <2>2, <3>1, <3>2, <3>3, SomeSlots DEF Caches
  <2>6. Right(y, v)
    <3>1. y.rec \in {0, v}
      BY <2>5 DEF Right, Sound, Answered
    <3> QED BY <2>2, <2>5, <3>1, InstanceChanged DEF Answered
  <2> QED BY <2>1, <2>2, <2>4, <2>5, <2>6 DEF C!FreeSlots
<1> QED BY <1>1, <1>2

\* WebObject.load() of a stub: it starts with the record in the cache, or asks the block for it.
LEMMA LoadIsRight ==
    ASSUME NEW x, NEW v, Right(x, v), NEW i \in 1 .. Slots, x.inst[i].state = "stub", C!FreeSlots(x) # {}
    PROVE  Right(C!Load(x, i), v)
<1>1. /\ x \in Caches /\ x.obj \in 0 .. Slots /\ x.inst \in [1 .. Slots -> Instances] /\ x.rec \in Nat
      /\ \A j \in 1 .. Slots : /\ Answered(x, j)
                               /\ x.inst[j].state = "starting" => Has(x, j, v)
      /\ C!Loaded(x) => Has(x, x.obj, v)
      /\ x.rec \in {0, v}
  BY DEF Right, Sound, Answered, Caches
<1>2. ASSUME NEW y, Right(y, v)
      PROVE  Right([y EXCEPT !.loading = i], v)
  <2>1. PICK z : z = [y EXCEPT !.loading = i]
    OBVIOUS
  <2>2. z \in Caches /\ z.rec = y.rec /\ z.inst = y.inst /\ z.obj = y.obj
    BY <1>2, <2>1 DEF Right, Sound, Answered, Caches
  <2> QED BY <1>2, <2>1, <2>2 DEF Right, Sound, Answered, Has, C!Loaded
<1>3. ASSUME x.rec # 0
      PROVE  Right([x EXCEPT !.inst[i].state = "starting", !.inst[i].data = x.rec], v)
  <2>1. PICK z : z = [x EXCEPT !.inst[i].state = "starting", !.inst[i].data = x.rec]
    OBVIOUS
  <2>2. /\ z \in Caches /\ z.rec = x.rec /\ z.obj = x.obj
        /\ z.inst[i].state = "starting" /\ z.inst[i].data = v /\ v # 0
        /\ \A j \in 1 .. Slots : j # i => z.inst[j] = x.inst[j]
    <3>1. x.inst[i] \in Instances
      BY <1>1
    <3>2. PICK n : n = [x.inst[i] EXCEPT !.state = "starting", !.data = x.rec]
      OBVIOUS
    <3>3. n \in Instances /\ n.state = "starting" /\ n.data = x.rec
      BY <1>1, <3>1, <3>2 DEF Instances, States
    <3>4. z = [x EXCEPT !.inst = [x.inst EXCEPT ![i] = n]]
      BY <1>1, <2>1, <3>1, <3>2 DEF Caches, Instances
    <3> QED BY <1>1, <1>3, <3>3, <3>4 DEF Caches
  <2>3. C!Loaded(z) => z.obj # i /\ z.obj \in 1 .. Slots /\ C!Loaded(x)
    BY <1>1, <2>2 DEF C!Loaded
  <2>4. Right(z, v)
    BY <1>1, <2>2, <2>3 DEF Right, Sound, Answered, Has
  <2> QED BY <2>1, <2>4
<1>4. Right(C!GetObject([x EXCEPT !.inst[i].state = "asked"]), v)
  <2>1. PICK z : z = [x EXCEPT !.inst[i].state = "asked"]
    OBVIOUS
  <2>2. /\ z \in Caches /\ z.rec = x.rec /\ z.obj = x.obj
        /\ z.inst[i].state = "asked"
        /\ \A j \in 1 .. Slots : j # i => z.inst[j] = x.inst[j]
    <3>1. x.inst[i] \in Instances
      BY <1>1
    <3>2. PICK n : n = [x.inst[i] EXCEPT !.state = "asked"]
      OBVIOUS
    <3>3. n \in Instances /\ n.state = "asked"
      BY <3>1, <3>2 DEF Instances, States
    <3>4. z = [x EXCEPT !.inst = [x.inst EXCEPT ![i] = n]]
      BY <1>1, <2>1, <3>1, <3>2 DEF Caches, Instances
    <3> QED BY <1>1, <3>3, <3>4 DEF Caches
  <2>3. C!Loaded(z) => z.obj # i /\ z.obj \in 1 .. Slots /\ C!Loaded(x)
    BY <1>1, <2>2 DEF C!Loaded
  <2>4. Right(z, v)
    BY <1>1, <2>2, <2>3 DEF Right, Sound, Answered, Has
  <2>5. C!FreeSlots(z) = C!FreeSlots(x)
    BY <2>2 DEF C!FreeSlots
  <2> QED BY <2>1, <2>4, <2>5, GetObjectIsRight
<1>5. PICK y : /\ y = IF x.rec # 0 THEN [x EXCEPT !.inst[i].state = "starting", !.inst[i].data = x.rec]
                      ELSE C!GetObject([x EXCEPT !.inst[i].state = "asked"])
               /\ Right(y, v)
  BY <1>3, <1>4
<1>6. C!Load(x, i) = IF y.obj = i THEN [y EXCEPT !.loading = i] ELSE y
  BY <1>5 DEF C!Load
<1> QED BY <1>2, <1>5, <1>6

\* load() of the object in the registry, if it is a stub.
LEMMA LoadStubIsRight ==
    ASSUME NEW x, NEW v, Right(x, v), x.obj # 0, C!FreeSlots(x) # {}
    PROVE  Right(C!LoadStub(x), v)
<1>1. x.obj \in 1 .. Slots
  BY DEF Right, Sound, Answered, Caches
<1> QED BY <1>1, LoadIsRight DEF C!LoadStub

\* get_object() and load(), as every use of an object does.
LEMMA UseIsRight ==
    ASSUME NEW x, NEW v, Right(x, v), Two(x)
    PROVE  Right(C!LoadStub(C!GetObject(x)), v)
<1>1. C!FreeSlots(x) # {}
  BY DEF Two
<1>2. PICK y : y = C!GetObject(x)
  OBVIOUS
<1>3. /\ Right(y, v) /\ y.obj \in 1 .. Slots
      /\ C!FreeSlots(x) \subseteq C!FreeSlots(y) \union {C!Slot(x)}
  BY <1>1, <1>2, GetObjectIsRight
<1>4. C!FreeSlots(y) # {} /\ y.obj # 0
  BY <1>3 DEF Two
<1>5. Right(C!LoadStub(y), v)
  BY <1>3, <1>4, LoadStubIsRight
<1> QED BY <1>2, <1>5

\* reload(): the instance of before stays the one in the registry until the new one is active.
LEMMA ReloadIsRight ==
    ASSUME NEW x, NEW v, Right(x, v), Two(x), NEW force \in BOOLEAN
    PROVE  Right(C!Reload(x, force), v)
<1>1. PICK y : y = IF force THEN [x EXCEPT !.rec = 0] ELSE x
  OBVIOUS
<1>2. y.inst = x.inst /\ y.obj = x.obj /\ y.rec \in {0, x.rec} /\ y \in Caches
  BY <1>1 DEF Right, Sound, Answered, Caches
<1>3. Right(y, v) /\ Two(y)
  BY <1>2 DEF Right, Sound, Answered, Has, C!Loaded, Two, C!FreeSlots
<1>4. CASE force \/ C!Loaded(y)
  <2>1. C!FreeSlots(y) # {}
    BY <1>3 DEF Two
  <2>2. PICK s \in 1 .. Slots : s = C!Slot(y) /\ y.inst[s].state = "free"
    BY <2>1, FreeSlot
  <2>3. PICK n : n = [C!Stub EXCEPT !.reload = TRUE] /\ n \in Instances /\ n.state = "stub"
    BY StubIsInstance
  <2>4. PICK z : z = [y EXCEPT !.inst[s] = n]
    OBVIOUS
  <2>5. /\ z \in Caches /\ z.rec = y.rec /\ z.obj \in {0, y.obj, s} /\ z.inst[s] = n
        /\ \A j \in 1 .. Slots : j # s => z.inst[j] = y.inst[j]
    BY <1>2, <2>3, <2>4 DEF Caches
  <2>6. /\ Right(z, v) /\ z.inst[s].state = "stub"
        /\ \A j \in 1 .. Slots : j # s => z.inst[j] = y.inst[j]
    <3>1. z.rec \in {0, v}
      BY <1>3, <2>5 DEF Right, Sound, Answered
    <3>2. Right(z, v)
      BY <1>3, <2>3, <2>5, <3>1, InstanceChanged DEF Answered
    <3> QED BY <2>3, <2>5, <3>2
  <2>7. C!FreeSlots(z) # {}
    BY <1>3, <2>6 DEF Two, C!FreeSlots
  <2>8. PICK w : w = C!Load(z, s) /\ Right(w, v)
    BY <2>6, <2>7, LoadIsRight
  <2>9. Right([w EXCEPT !.loading = s], v)
    <3>1. PICK u : u = [w EXCEPT !.loading = s]
      OBVIOUS
    <3>2. u \in Caches /\ u.inst = w.inst /\ u.obj = w.obj /\ u.rec = w.rec
      BY <2>8, <3>1 DEF Right, Sound, Answered, Caches
    <3> QED BY <2>8, <3>1, <3>2 DEF Right, Sound, Answered, Has, C!Loaded
  <2>10. C!Reload(x, force) \in {x, [w EXCEPT !.loading = s]}
    BY <1>1, <1>4, <2>2, <2>3, <2>4, <2>8 DEF C!Reload
  <2> QED BY <2>9, <2>10
<1>5. CASE ~(force \/ C!Loaded(y))
  <2>1. C!Reload(x, force) \in {x, C!LoadStub(C!GetObject(y))}
    BY <1>1, <1>5 DEF C!Reload
  <2> QED BY <1>3, <2>1, UseIsRight
<1> QED BY <1>4, <1>5

\* Instances that are dropped were neither being loaded nor in the cache.
LEMMA CollectIsRight ==
    ASSUME NEW x, NEW v, Right(x, v)
    PROVE  Right(C!Collect(x), v)
<1>1. PICK y : y = C!Collect(x)
  OBVIOUS
<1>2. x \in Caches /\ x.obj \in 0 .. Slots /\ x.inst \in [1 .. Slots -> Instances]
  BY DEF Right, Sound, Answered, Caches
<1>3. C!Free \in Instances /\ C!Free.state = "free"
  BY DEF C!Free, Instances, States
<1>4. /\ y.obj = x.obj /\ y.rec = x.rec /\ y \in Caches
      /\ \A i \in 1 .. Slots : y.inst[i] = IF i \notin C!Busy(x) /\ i # x.obj /\ i # x.loading THEN C!Free ELSE x.inst[i]
  BY <1>1, <1>2, <1>3 DEF C!Collect, Caches
<1>5. x.obj # 0 => y.inst[x.obj] = x.inst[x.obj]
  BY <1>2, <1>4
<1> QED BY <1>1, <1>3, <1>4, <1>5 DEF Right, Sound, Answered, Has, C!Loaded

\* A record that is registered: all that is left of another one started before.
LEMMA RegisterIsSound ==
    ASSUME NEW x, NEW v \in Nat, NEW w, Sound(x, w), ~essential
    PROVE  /\ Sound(C!Register(x, v), v)
           /\ \A i \in 1 .. Slots : /\ C!Register(x, v).inst[i].state = x.inst[i].state
                                   /\ C!Register(x, v).inst[i].data = x.inst[i].data
<1>1. PICK f : f = [i \in 1 .. Slots |-> IF x.inst[i].state = "starting" /\ x.inst[i].data # v
                                         THEN [x.inst[i] EXCEPT !.crossed = TRUE] ELSE x.inst[i]]
  OBVIOUS
<1>2. x \in Caches /\ x.obj \in 0 .. Slots /\ x.inst \in [1 .. Slots -> Instances]
  BY DEF Sound, Caches
<1>3. /\ f \in [1 .. Slots -> Instances]
      /\ \A i \in 1 .. Slots :
             /\ f[i].state = x.inst[i].state /\ f[i].data = x.inst[i].data
             /\ x.inst[i].crossed \/ (x.inst[i].state = "starting" /\ x.inst[i].data # v) => f[i].crossed
  <2>1. ASSUME NEW i \in 1 .. Slots
        PROVE  /\ f[i] \in Instances
               /\ f[i].state = x.inst[i].state /\ f[i].data = x.inst[i].data
               /\ x.inst[i].crossed \/ (x.inst[i].state = "starting" /\ x.inst[i].data # v) => f[i].crossed
    <3>1. x.inst[i] \in Instances
      BY <1>2
    <3>2. f[i] = IF x.inst[i].state = "starting" /\ x.inst[i].data # v THEN [x.inst[i] EXCEPT !.crossed = TRUE]
                 ELSE x.inst[i]
      BY <1>1
    <3> QED BY <3>1, <3>2 DEF Instances
  <2> QED BY <1>1, <2>1
<1>4. PICK y : y = [x EXCEPT !.rec = v, !.obj = IF v = C!Gone THEN 0 ELSE @, !.inst = f]
  OBVIOUS
<1>5. y \in Caches /\ y.rec = v /\ y.obj \in {0, x.obj} /\ y.inst = f
  BY <1>2, <1>3, <1>4, SomeSlots DEF Caches
<1>6. \A i \in 1 .. Slots : y.inst[i].state = "starting" => Has(y, i, v)
  BY <1>3, <1>5 DEF Sound, Has
<1>7. PICK z : z = C!Register(x, v) /\ z = IF C!Differs(y, v) THEN C!Evict(y) ELSE y
  BY <1>1, <1>4 DEF C!Register
<1>8. z.inst = y.inst
  <2>1. C!Differs(y, v) => z = [y EXCEPT !.obj = 0]
    BY <1>7 DEF C!Evict
  <2> QED BY <1>5, <1>7, <2>1 DEF Caches
<1>9. \A i \in 1 .. Slots : z.inst[i].state = x.inst[i].state /\ z.inst[i].data = x.inst[i].data
  BY <1>3, <1>5, <1>8
<1>10. Sound(z, v)
  <2>1. CASE C!Differs(y, v)
    <3>1. z = [y EXCEPT !.obj = 0]
      BY <1>7, <2>1 DEF C!Evict
    <3>2. z \in Caches /\ z.obj = 0 /\ z.rec = v /\ z.inst = y.inst
      BY <1>5, <3>1, SomeSlots DEF Caches
    <3>3. Sound(z, v)
      BY <1>6, <3>2 DEF Sound, Has, C!Loaded
    <3> QED BY <3>3
  <2>2. CASE ~C!Differs(y, v)
    <3>1. C!Loaded(y) => y.inst[y.obj].data \in {0, v} /\ y.obj = x.obj /\ x.obj \in 1 .. Slots /\ C!Loaded(x)
      BY <1>2, <1>3, <1>5, <2>2 DEF C!Differs, C!Loaded
    <3>2. C!Loaded(y) => Has(y, y.obj, v)
      BY <1>3, <1>5, <3>1 DEF Sound, Has
    <3>3. Sound(y, v)
      BY <1>5, <1>6, <3>2 DEF Sound
    <3> QED BY <1>7, <2>2, <3>3
  <2> QED BY <2>1, <2>2
<1> QED BY <1>7, <1>9, <1>10

-----------------------------------------------------------------------------
\* Each step of the cache keeps it right.
LEMMA CacheStep ==
    ASSUME CacheInv, C!Next, ~essential
    PROVE  Right(c, latest)' /\ latest' \in Nat
<1>1. Right(c, latest) /\ latest \in Nat /\ notes \subseteq Nat /\ db \in Nat \ {0}
  BY DEF CacheInv
<1>2. c \in Caches /\ c.obj \in 0 .. Slots /\ c.inst \in [1 .. Slots -> Instances]
  BY <1>1 DEF Right, Sound, Answered, Caches
<1>3. ASSUME NEW x, NEW v \in Nat, Right(x, v), C!Becomes(x), latest' = v
      PROVE  Right(c, latest)' /\ latest' \in Nat
  <2>1. Right(c', latest')
    BY <1>3, CollectIsRight DEF C!Becomes
  <2> QED BY <1>3, <2>1 DEF Right, Sound, Answered, Has, C!Loaded
<1>4. ASSUME c' = c, latest' = latest
      PROVE  Right(c, latest)' /\ latest' \in Nat
  BY <1>1, <1>4 DEF Right, Sound, Answered, Has, C!Loaded
<1>5. CASE (\E own \in BOOLEAN : C!Write(own)) \/ C!Delete \/ \E v \in notes : C!Lose(v)
  BY <1>4, <1>5 DEF C!Write, C!Delete, C!Lose
<1>6. CASE C!Use
  <2>1. Right(C!LoadStub(C!GetObject(c)), latest)
    BY <1>1, <1>6, RoomForTwo, UseIsRight DEF C!Use
  <2> QED BY <1>1, <1>3, <1>6, <2>1 DEF C!Use
<1>7. CASE C!Refresh
  <2>1. PICK x : x = IF c.rec = 0 THEN C!GetObject(c) ELSE c
    OBVIOUS
  <2>2. C!Becomes(C!Reload(x, FALSE)) /\ latest' = latest /\ Two(c)
    BY <1>7, <2>1, RoomForTwo DEF C!Refresh
  <2>3. CASE x = c
    <3>1. Right(C!Reload(x, FALSE), latest)
      BY <1>1, <2>2, <2>3, ReloadIsRight
    <3> QED BY <1>1, <1>3, <2>2, <3>1
  <2>4. CASE x # c
    <3>1. x = C!GetObject(c) /\ C!FreeSlots(c) # {}
      BY <2>1, <2>2, <2>4 DEF Two
    <3>2. /\ Right(x, latest) /\ x.obj \in 1 .. Slots
          /\ C!FreeSlots(c) \subseteq C!FreeSlots(x) \union {C!Slot(c)}
          /\ x.inst[x.obj].state = "stub"
      BY <1>1, <2>4, <3>1, GetObjectIsRight
    <3>3. C!FreeSlots(x) # {} /\ x.obj # 0 /\ ~C!Loaded(x)
      BY <2>2, <3>2 DEF Two, C!Loaded
    <3>4. C!GetObject(x) = x
      BY <3>3 DEF C!GetObject, C!Outdated
    <3>5. C!Reload(x, FALSE) \in {x, C!LoadStub(x)}
      BY <3>3, <3>4 DEF C!Reload
    <3>6. Right(C!LoadStub(x), latest)
      BY <3>2, <3>3, LoadStubIsRight
    <3> QED BY <1>1, <1>3, <2>2, <3>2, <3>5, <3>6
  <2> QED BY <2>3, <2>4
<1>8. CASE \E force \in BOOLEAN : C!ProgramReload(force)
  <2>1. PICK force \in BOOLEAN : C!ProgramReload(force)
    BY <1>8
  <2>2. Right(C!Reload(c, force), latest)
    BY <1>1, <2>1, RoomForTwo, ReloadIsRight DEF C!ProgramReload
  <2> QED BY <1>1, <1>3, <2>1, <2>2 DEF C!ProgramReload
<1>9. CASE \E v \in notes : C!RegisterChange(v)
  <2>1. PICK v \in notes : C!RegisterChange(v)
    BY <1>9
  <2>2. Right(C!Register(c, v), v)
    <3>1. PICK y : y = C!Register(c, v)
      OBVIOUS
    <3>2. /\ Sound(y, v)
          /\ \A i \in 1 .. Slots : y.inst[i].state = c.inst[i].state /\ y.inst[i].data = c.inst[i].data
      BY <1>1, <2>1, <3>1, RegisterIsSound DEF Right, Sound, Answered
    <3>3. Right(y, v)
      BY <1>1, <3>2 DEF Right, Sound, Answered
    <3> QED BY <3>1, <3>3
  <2> QED BY <1>1, <1>3, <2>1, <2>2 DEF C!RegisterChange, C!Registered
<1>10. CASE \E i \in 1 .. Slots : C!Select(i)
  <2>1. PICK i \in 1 .. Slots : C!Select(i)
    BY <1>10
  <2>2. PICK n : n = [c.inst[i] EXCEPT !.state = "answered", !.data = db]
    OBVIOUS
  <2>3. n \in Instances /\ n.state = "answered" /\ n.data = db
    BY <1>1, <1>2, <2>2 DEF Instances, States
  <2>4. c' = [c EXCEPT !.inst[i] = n] /\ latest' = latest
    BY <1>2, <2>1, <2>2 DEF C!Select, Caches, Instances
  <2>5. /\ c' \in Caches /\ c'.rec = c.rec /\ c'.obj \in {0, c.obj, i} /\ c'.inst[i] = n
        /\ \A j \in 1 .. Slots : j # i => c'.inst[j] = c.inst[j]
    BY <1>2, <2>3, <2>4 DEF Caches
  <2>6. Right(c', latest)
    <3>1. c'.rec \in {0, latest}
      BY <1>1, <2>5 DEF Right, Sound, Answered
    <3> QED BY <1>1, <2>3, <2>5, <3>1, InstanceChanged DEF Answered
  <2> QED BY <1>1, <2>4, <2>6 DEF Right, Sound, Answered, Has, C!Loaded
<1>11. CASE \E i \in 1 .. Slots : C!Arrive(i)
  <2>1. PICK i \in 1 .. Slots : C!Arrive(i)
    BY <1>11
  <2>2. PICK v : v = c.inst[i].data
    OBVIOUS
  <2>3. v \in Nat \ {0}
    BY <1>1, <1>2, <2>1, <2>2 DEF C!Arrive, Right, Sound, Answered, Instances
  <2>4. PICK x : x = c
    OBVIOUS
  <2>5. Sound(x, latest) /\ \A j \in 1 .. Slots : Answered(x, j)
    BY <1>1, <2>4 DEF Right
  <2>6. PICK y : /\ y = C!Register(x, v) /\ Sound(y, v)
                 /\ \A j \in 1 .. Slots : y.inst[j].state = x.inst[j].state /\ y.inst[j].data = x.inst[j].data
    BY <2>3, <2>5, RegisterIsSound
  <2>7. PICK z : z = [y EXCEPT !.inst[i].state = "starting"]
    OBVIOUS
  <2>8. C!Becomes(z) /\ latest' = v
    <3>1. C!Becomes([C!Register(c, v) EXCEPT !.inst[i].state = "starting"]) /\ latest' = v
      BY <2>1, <2>2 DEF C!Arrive, C!Registered
    <3> QED BY <2>4, <2>6, <2>7, <3>1
  <2>9. /\ z \in Caches /\ z.rec = y.rec /\ z.obj = y.obj
        /\ z.inst[i].state = "starting" /\ z.inst[i].data = v
        /\ \A j \in 1 .. Slots : j # i => z.inst[j] = y.inst[j]
    <3>1. y \in Caches /\ y.inst[i] \in Instances /\ y.inst[i].data = v
      BY <2>2, <2>4, <2>6 DEF Right, Sound, Answered, Caches
    <3>2. PICK n : n = [y.inst[i] EXCEPT !.state = "starting"]
      OBVIOUS
    <3>3. n \in Instances /\ n.state = "starting" /\ n.data = v
      BY <2>3, <3>1, <3>2 DEF Instances, States
    <3>4. z = [y EXCEPT !.inst[i] = n]
      BY <2>7, <3>1, <3>2 DEF Caches, Instances
    <3> QED BY <3>1, <3>3, <3>4 DEF Caches
  <2>10. Right(z, v)
    <3>1. z.rec \in {0, v} /\ z.obj \in {0, y.obj, i} /\ Has(z, i, v)
      BY <2>3, <2>6, <2>9 DEF Sound, Has
    <3>2. Sound(z, v)
      BY <2>6, <2>9, <3>1, SoundChanged
    <3>3. \A j \in 1 .. Slots : Answered(z, j)
      BY <2>5, <2>6, <2>9 DEF Answered
    <3> QED BY <3>2, <3>3 DEF Right, Sound, Answered
  <2> QED BY <1>3, <2>3, <2>8, <2>10
<1>12. CASE \E i \in 1 .. Slots : C!Finish(i)
  <2>1. PICK i \in 1 .. Slots : C!Finish(i)
    BY <1>12
  <2>2. PICK n : n = [c.inst[i] EXCEPT !.state = "active", !.expired = FALSE]
    OBVIOUS
  <2>3. /\ n \in Instances /\ n.state = "active" /\ n.data = c.inst[i].data /\ n.crossed = c.inst[i].crossed
        /\ c.inst[i].state = "starting"
    BY <1>2, <2>1, <2>2 DEF C!Finish, C!Settle, Instances, States
  <2>4. PICK o, l : /\ o = IF c.inst[i].reload THEN i ELSE c.obj
                    /\ l = IF c.loading = i THEN 0 ELSE c.loading
    OBVIOUS
  <2>5. o \in {c.obj, i} /\ o \in 0 .. Slots /\ l \in Nat
    BY <1>2, <2>4, SomeSlots DEF Caches
  <2>6. PICK x : x = [c EXCEPT !.inst[i] = n, !.obj = o, !.loading = l]
    OBVIOUS
  <2>7. /\ x \in Caches /\ x.rec = c.rec /\ x.obj \in {0, c.obj, i} /\ x.inst[i] = n
        /\ \A j \in 1 .. Slots : j # i => x.inst[j] = c.inst[j]
    <3>1. x.rec = c.rec /\ x.obj = o /\ x.loading = l /\ x.inst = [c.inst EXCEPT ![i] = n]
      BY <1>2, <2>6 DEF Caches
    <3>2. x = [rec |-> c.rec, obj |-> o, loading |-> l, inst |-> [c.inst EXCEPT ![i] = n]]
      BY <1>2, <2>6 DEF Caches
    <3>3. [c.inst EXCEPT ![i] = n] \in [1 .. Slots -> Instances]
      BY <1>2, <2>3
    <3>4. x \in Caches
      BY <1>2, <2>5, <3>2, <3>3 DEF Caches
    <3> QED BY <1>2, <2>5, <3>1, <3>4
  <2>9. C!Becomes(x) /\ latest' = latest
    <3>1. PICK w : w = [c EXCEPT !.inst[i].state = "active", !.inst[i].expired = FALSE,
                                 !.obj = IF c.inst[i].reload THEN i ELSE @,
                                 !.loading = IF @ = i THEN 0 ELSE @]
      OBVIOUS
    <3>2. C!Becomes(w) /\ latest' = latest
      BY <2>1, <3>1 DEF C!Finish
    <3>3. w = [c EXCEPT !.inst = [[c.inst EXCEPT ![i].state = "active"] EXCEPT ![i].expired = FALSE], !.obj = o, !.loading = l]
      BY <1>2, <2>4, <3>1 DEF Caches
    <3>4. [[c.inst EXCEPT ![i].state = "active"] EXCEPT ![i].expired = FALSE] = [c.inst EXCEPT ![i] = n]
      BY <1>2, <2>2 DEF Instances
    <3>5. w = x
      BY <1>2, <2>6, <3>3, <3>4 DEF Caches
    <3> QED BY <3>2, <3>5
  <2>8. Right(x, latest)
    <3>1. x.rec \in {0, latest} /\ Has(x, i, latest)
      BY <1>1, <2>3, <2>7 DEF Right, Sound, Answered, Has
    <3> QED BY <1>1, <2>3, <2>7, <3>1, InstanceChanged DEF Answered
  <2> QED BY <1>1, <1>3, <2>8, <2>9
<1>13. CASE \E i \in 1 .. Slots : C!Fail(i)
  <2>1. PICK i \in 1 .. Slots : C!Fail(i)
    BY <1>13
  <2>2. PICK l : l = IF c.loading = i THEN 0 ELSE c.loading
    OBVIOUS
  <2>3. PICK x : x = [c EXCEPT !.inst[i] = C!Stub, !.loading = l]
    OBVIOUS
  <2>4. C!Becomes(x) /\ latest' = latest
    BY <1>2, <2>1, <2>2, <2>3 DEF C!Fail, Caches
  <2>5. /\ x \in Caches /\ x.rec = c.rec /\ x.obj \in {0, c.obj, i} /\ x.inst[i].state = "stub"
        /\ \A j \in 1 .. Slots : j # i => x.inst[j] = c.inst[j]
    BY <1>2, <2>2, <2>3, StubIsInstance DEF Caches
  <2>6. Right(x, latest)
    <3>1. x.rec \in {0, latest}
      BY <1>1, <2>5 DEF Right, Sound, Answered
    <3> QED BY <1>1, <2>5, <3>1, InstanceChanged DEF Answered
  <2> QED BY <1>1, <1>3, <2>4, <2>6
<1>14. CASE C!Expire
  <2>1. PICK n : n = [c.inst[c.obj] EXCEPT !.expired = TRUE]
    OBVIOUS
  <2>2. PICK i \in 1 .. Slots : i = c.obj
    BY <1>2, <1>14 DEF C!Expire, C!Loaded
  <2>3. n \in Instances /\ n.state = "active" /\ n.data = c.inst[i].data /\ n.crossed = c.inst[i].crossed
    BY <1>2, <1>14, <2>1, <2>2 DEF C!Expire, C!Loaded, Instances
  <2>4. c' = [c EXCEPT !.inst[i] = n] /\ latest' = latest
    BY <1>2, <1>14, <2>1, <2>2 DEF C!Expire, Caches
  <2>5. /\ c' \in Caches /\ c'.rec = c.rec /\ c'.obj \in {0, c.obj, i} /\ c'.inst[i] = n
        /\ \A j \in 1 .. Slots : j # i => c'.inst[j] = c.inst[j]
    BY <1>2, <2>2, <2>3, <2>4 DEF Caches
  <2>6. c'.rec \in {0, latest} /\ Has(c', i, latest)
    BY <1>1, <1>14, <2>2, <2>3, <2>5 DEF Right, Sound, Answered, Has, C!Expire
  <2>7. Right(c', latest)
    BY <1>1, <2>3, <2>5, <2>6, InstanceChanged DEF Answered
  <2> QED BY <1>1, <2>4, <2>7 DEF Right, Sound, Answered, Has, C!Loaded
<1>15. CASE C!Purge \/ C!EraseObjects
  <2>1. PICK x : x = [c EXCEPT !.obj = 0] /\ C!Becomes(x) /\ latest' = latest
    BY <1>15 DEF C!Purge, C!EraseObjects, C!Evict
  <2>2. x \in Caches /\ x.obj = 0 /\ x.rec = c.rec /\ x.inst = c.inst
    BY <1>2, <2>1, SomeSlots DEF Caches
  <2>3. Right(x, latest)
    BY <1>1, <2>2 DEF Right, Sound, Answered, Has, C!Loaded
  <2> QED BY <1>1, <1>3, <2>1, <2>3
<1>16. CASE C!PurgeRecords
  <2>1. c' = [c EXCEPT !.rec = 0] /\ latest' = latest
    BY <1>16 DEF C!PurgeRecords
  <2>2. c' \in Caches /\ c'.obj = c.obj /\ c'.rec = 0 /\ c'.inst = c.inst
    BY <1>2, <2>1 DEF Caches
  <2> QED BY <1>1, <2>1, <2>2 DEF Right, Sound, Answered, Has, C!Loaded
<1> QED BY <1>5, <1>6, <1>7, <1>8, <1>9, <1>10, <1>11, <1>12, <1>13, <1>14, <1>15, <1>16 DEF C!Next

-----------------------------------------------------------------------------
\* The registry is empty at first.
LEMMA CacheInit == Init => CacheInv
<1> SUFFICES ASSUME Init PROVE CacheInv
  OBVIOUS
<1>1. /\ essential \in BOOLEAN /\ db = 1 /\ notes = {} /\ latest = 0 /\ newest = 0
      /\ c = [rec |-> 0, obj |-> 0, loading |-> 0, inst |-> [i \in 1 .. Slots |-> C!Free]]
  BY DEF Init, C!Init
<1>2. C!Free \in Instances /\ C!Free.state = "free"
  BY DEF C!Free, Instances, States
<1>3. c \in Caches /\ c.rec = 0 /\ c.obj = 0 /\ \A i \in 1 .. Slots : c.inst[i].state = "free"
  BY <1>1, <1>2, SomeSlots DEF Caches
<1>4. Right(c, latest)
  BY <1>1, <1>3 DEF Right, Sound, Answered, C!Loaded
<1> QED BY <1>1, <1>4 DEF CacheInv

\* Versions are numbers, those of the changes that are announced, too.
LEMMA CacheOthers ==
    ASSUME CacheInv, C!Next, ~essential
    PROVE  notes' \subseteq Nat /\ db' \in Nat \ {0}
<1>1. notes \subseteq Nat /\ db \in Nat \ {0} /\ C!Gone \in Nat \ {0}
  BY ProcessAssumption DEF CacheInv, C!CacheAssumption, C!Gone
<1>2. \/ notes' \subseteq notes /\ db' = db
      \/ notes' \subseteq notes \cup {db + 1} /\ db' = db + 1
      \/ notes' = notes \cup {C!Gone} /\ db' = C!Gone
  BY DEF C!Next, C!Write, C!Delete, C!Use, C!Refresh, C!ProgramReload, C!RegisterChange, C!Lose, C!Select, C!Arrive,
         C!Finish, C!Fail, C!Expire, C!Purge, C!PurgeRecords, C!EraseObjects
<1>3. db + 1 \in Nat \ {0}
  BY <1>1
<1>4. db' \in Nat \ {0}
  BY <1>1, <1>2, <1>3
<1>5. notes' \subseteq Nat
  BY <1>1, <1>2, <1>3
<1> QED BY <1>4, <1>5

\* The newest version is at least that registered last.
LEMMA NewestStep ==
    ASSUME CacheInv, C!Next, ~essential
    PROVE  newest' \in Nat /\ latest' <= newest'
<1>1. latest \in Nat /\ newest \in Nat /\ latest <= newest /\ notes \subseteq Nat /\ Right(c, latest)
  BY DEF CacheInv
<1>2. ASSUME NEW v \in Nat, C!Registered(v)
      PROVE  newest' \in Nat /\ latest' <= newest'
  BY <1>1, <1>2 DEF C!Registered
<1>3. ASSUME latest' = latest, newest' = newest
      PROVE  newest' \in Nat /\ latest' <= newest'
  BY <1>1, <1>3
<1>4. CASE \E v \in notes : C!RegisterChange(v)
  BY <1>1, <1>2, <1>4 DEF C!RegisterChange
<1>5. CASE \E i \in 1 .. Slots : C!Arrive(i)
  <2>1. PICK i \in 1 .. Slots : C!Arrive(i)
    BY <1>5
  <2>2. c.inst[i].data \in Nat
    BY <1>1 DEF Right, Sound, Caches, Instances
  <2> QED BY <1>2, <2>1, <2>2 DEF C!Arrive
<1>6. CASE latest' = latest /\ newest' = newest
  BY <1>3, <1>6
<1>7. \/ latest' = latest /\ newest' = newest
      \/ \E v \in notes : C!RegisterChange(v)
      \/ \E i \in 1 .. Slots : C!Arrive(i)
  BY DEF C!Next, C!Write, C!Delete, C!Use, C!Refresh, C!ProgramReload, C!Lose, C!Select,
         C!Finish, C!Fail, C!Expire, C!Purge, C!PurgeRecords, C!EraseObjects
<1> QED BY <1>4, <1>5, <1>6, <1>7

\* Whether the object is an essential one never changes.
LEMMA EssentialStays == C!Next => essential' = essential
BY DEF C!Next, C!Write, C!Delete, C!Use, C!Refresh, C!ProgramReload, C!RegisterChange, C!Lose, C!Select, C!Arrive,
       C!Finish, C!Fail, C!Expire, C!Purge, C!PurgeRecords, C!EraseObjects

\* Each step keeps what the proof is about, those of the other parts, too.
LEMMA CacheNext ==
    ASSUME CacheInv, [Next]_<<part, cachevars, routingvars, actionvars>>
    PROVE  CacheInv'
<1>1. CASE C!Next
  <2>1. essential' = essential
    BY <1>1, EssentialStays
  <2>2. ~essential => Right(c, latest)' /\ latest' \in Nat
    BY <1>1, CacheStep
  <2>3. ~essential => notes' \subseteq Nat /\ db' \in Nat \ {0}
    BY <1>1, CacheOthers
  <2>4. ~essential => newest' \in Nat /\ latest' <= newest'
    BY <1>1, NewestStep
  <2> QED BY <2>1, <2>2, <2>3, <2>4 DEF CacheInv
<1>2. CASE UNCHANGED cachevars
  BY <1>2 DEF CacheInv, cachevars, Right, Sound, Answered, Has, C!Loaded
<1> QED BY <1>1, <1>2 DEF Next

\* What is served is what was registered last, and the newest version unless an older answer came after it or the instance
\* was completing its load meanwhile (ServedIsLatest of ObjectCache).
THEOREM Served == Spec => []ServedIsLatest
<1>1. CacheInv => ServedIsLatest
  <2> SUFFICES ASSUME CacheInv, C!Loaded(c), ~essential
               PROVE  /\ C!Served(c) # latest => c.inst[c.obj].crossed
                      /\ C!Served(c) # newest => c.inst[c.obj].crossed \/ latest < newest
    BY DEF ServedIsLatest, C!ServedIsLatest
  <2>1. C!Served(c) # latest => c.inst[c.obj].crossed
    BY DEF CacheInv, Right, Sound, Has, C!Served
  <2>2. latest \in Nat /\ newest \in Nat /\ latest <= newest
    BY DEF CacheInv
  <2> QED BY <2>1, <2>2
<1> QED BY <1>1, CacheInit, CacheNext, PTL DEF Spec

-----------------------------------------------------------------------------
(* The second part: calls, sessions, and the records they send. *)

-----------------------------------------------------------------------------
\* The calls, and the sessions they run in.
Ids == DOMAIN calls
Lite(i) == sessions[calls[i].sess].lite
Held(i) == sessions[calls[i].sess].snap
Alive(i) == calls[i].pc # "done"
Open(i) == calls[i].pc \in {"run", "stored"}
\* The types of what processes, sessions and calls have.
Processes == {A!Client} \cup A!Servers
Records == [Objects -> Nat]
SessionType == [lite : BOOLEAN, owner : BOOLEAN, staged : SUBSET Objects, snap : Records]
CallType == [kind : {"action", "background", "rpc", "update"}, at : A!Servers, sess : Nat, by : Nat, of : SUBSET Objects,
             pc : {"run", "stored", "answered", "done"}, snap : Records, wrote : Records, above : SUBSET Nat]
Typed ==
    /\ stored \in Records /\ heard \in [Processes -> Records]
    /\ sessions \in Seq(SessionType) /\ calls \in Seq(CallType)
    /\ Len(sessions) >= NServers
    /\ \A s \in DOMAIN sessions : sessions[s].lite <=> s <= NServers
    /\ \A i \in Ids : calls[i].sess \in DOMAIN sessions /\ calls[i].by \in 0 .. i - 1

-----------------------------------------------------------------------------
(* What the steps change. *)

\* The calls and sessions stay, and all of them that never changes.
Same ==
    /\ calls' \in Seq(CallType) /\ Len(calls') = Len(calls)
    /\ sessions' \in Seq(SessionType) /\ Len(sessions') = Len(sessions)
    /\ \A i \in Ids : /\ calls'[i].kind = calls[i].kind /\ calls'[i].at = calls[i].at /\ calls'[i].sess = calls[i].sess
                      /\ calls'[i].by = calls[i].by /\ calls'[i].of = calls[i].of /\ calls'[i].above = calls[i].above
    /\ \A s \in DOMAIN sessions : sessions'[s].lite = sessions[s].lite /\ sessions'[s].owner = sessions[s].owner

SameRecords == stored' = stored /\ heard' = heard /\ UNCHANGED <<crossed, outdated, disturbed, aged>>
SameBut(i) == \A j \in Ids : j # i => calls'[j] = calls[j]
SameSnaps == \A s \in DOMAIN sessions : sessions'[s].snap = sessions[s].snap

\* Call n of b is added: r, in the session of its process or in a new one.
InSession(b, r) ==
    \/ sessions'[r.sess].lite /\ r.sess \in A!Servers /\ Len(sessions') = Len(sessions)
    \/ /\ ~sessions'[r.sess].lite /\ r.sess = Len(sessions) + 1 /\ Len(sessions') = r.sess
       /\ sessions'[r.sess].snap = A!Nothing /\ sessions'[r.sess].staged = {}
       /\ b # 0 /\ Lite(b) => r.kind = "action"
CalledBy(b, r) ==
    b # 0 => /\ Open(b) /\ (sessions'[r.sess].lite => Lite(b)) /\ r.kind # "background"
             /\ r.kind = "action" => (sessions'[r.sess].owner <=> Lite(b))
             /\ calls[b].kind = "update" => sessions[calls[b].sess].staged # {}
SessionsStay == \A t \in DOMAIN sessions : /\ sessions'[t].lite = sessions[t].lite /\ sessions'[t].owner = sessions[t].owner
                                           /\ sessions'[t].snap = sessions[t].snap /\ sessions'[t].staged \subseteq sessions[t].staged
Added(n, b, r) ==
    /\ n = Len(calls) + 1 /\ Len(calls') = n /\ calls' \in Seq(CallType) /\ \A i \in Ids : calls'[i] = calls[i]
    /\ calls'[n] = r /\ r \in CallType
    /\ r.by = b /\ b \in 0 .. Len(calls) /\ r.pc = "run" /\ r.snap = A!Nothing /\ r.wrote = A!Nothing
    /\ r.above = {n} \cup (IF b = 0 THEN {} ELSE calls[b].above)
    /\ r.kind = "update" => \E o \in Objects : r.of = {o}
    /\ sessions' \in Seq(SessionType) /\ Len(sessions') \in {Len(sessions), Len(sessions) + 1} /\ r.sess \in DOMAIN sessions'
    /\ SessionsStay /\ InSession(b, r) /\ CalledBy(b, r)
    /\ SameRecords /\ dropped' = dropped

\* A sequence with another element in one place.
LEMMA ElementChanged ==
    ASSUME NEW S, NEW q \in Seq(S), NEW i \in DOMAIN q, NEW e \in S
    PROVE  [q EXCEPT ![i] = e] \in Seq(S) /\ Len([q EXCEPT ![i] = e]) = Len(q)
OBVIOUS

\* Servers are numbered from 1, the one of the block, and the client is none of them.
LEMMA ServersExist == NServers \in Nat \ {0} /\ A!Servers = 1 .. NServers /\ A!Home = 1 /\ A!Client = 0 /\ 1 \in A!Servers
BY ProcessAssumption DEF A!ActionsAssumption, A!Servers, A!Home, A!Client

\* Nothing is a record of no object.
LEMMA NothingIsRecords == A!Nothing \in Records /\ \A o \in Objects : A!Nothing[o] = 0
BY DEF A!Nothing, Records

\* Both ways of adding a call: what is appended to the calls and to the sessions.
LEMMA Adds ==
    ASSUME Typed, NEW r \in CallType, NEW b \in 0 .. Len(calls), NEW s \in SessionType, NEW before \in Seq(SessionType),
           Len(before) = Len(sessions),
           \A t \in DOMAIN sessions : /\ before[t].lite = sessions[t].lite /\ before[t].owner = sessions[t].owner
                                      /\ before[t].snap = sessions[t].snap /\ before[t].staged \subseteq sessions[t].staged,
           calls' = Append(calls, r), sessions' = IF s.lite THEN before ELSE Append(before, s),
           r.sess = IF s.lite THEN r.at ELSE Len(sessions) + 1,
           r.by = b, r.pc = "run", r.snap = A!Nothing, r.wrote = A!Nothing,
           r.above = {Len(calls) + 1} \cup (IF b = 0 THEN {} ELSE calls[b].above),
           r.kind = "update" => \E o \in Objects : r.of = {o},
           s.lite \/ (s.snap = A!Nothing /\ s.staged = {}),
           ~s.lite /\ b # 0 /\ Lite(b) => r.kind = "action",
           b # 0 => /\ Open(b) /\ (s.lite => Lite(b)) /\ r.kind # "background"
                    /\ r.kind = "action" => ~s.lite /\ (s.owner <=> Lite(b))
                    /\ calls[b].kind = "update" => sessions[calls[b].sess].staged # {},
           SameRecords, dropped' = dropped
    PROVE  Added(Len(calls) + 1, b, r)
<1>1. /\ sessions \in Seq(SessionType) /\ calls \in Seq(CallType) /\ Len(sessions) >= NServers
      /\ \A t \in DOMAIN sessions : sessions[t].lite <=> t <= NServers
  BY DEF Typed
<1>2. PICK n : n = Len(calls) + 1
  OBVIOUS
<1>3. /\ Len(calls') = n /\ calls' \in Seq(CallType) /\ calls'[n] = r /\ \A i \in Ids : calls'[i] = calls[i]
  BY <1>1, <1>2 DEF Ids
<1>4. SessionsStay /\ sessions' \in Seq(SessionType) /\ Len(sessions') \in {Len(sessions), Len(sessions) + 1} /\ r.sess \in DOMAIN sessions'
  <2>1. CASE s.lite
    <3>1. sessions' = before /\ r.sess = r.at /\ r.at \in A!Servers
      BY <2>1 DEF CallType
    <3> QED BY <1>1, <3>1, ServersExist DEF SessionsStay
  <2>2. CASE ~s.lite
    <3>1. sessions' = Append(before, s) /\ r.sess = Len(sessions) + 1
      BY <2>2
    <3> QED BY <1>1, <3>1 DEF SessionsStay
  <2> QED BY <2>1, <2>2
<1>5. InSession(b, r)
  <2>1. CASE s.lite
    <3>1. sessions' = before /\ r.sess = r.at /\ r.at \in A!Servers
      BY <2>1 DEF CallType
    <3>2. sessions'[r.sess].lite
      <4>1. r.sess \in DOMAIN sessions /\ r.sess <= NServers
        BY <1>1, <3>1, ServersExist
      <4>2. sessions[r.sess].lite
        BY <1>1, <4>1
      <4>3. before[r.sess].lite = sessions[r.sess].lite
        BY <4>1
      <4> QED BY <3>1, <4>2, <4>3
    <3> QED BY <1>1, <3>1, <3>2 DEF InSession
  <2>2. CASE ~s.lite
    <3>1. sessions' = Append(before, s) /\ r.sess = Len(sessions) + 1
      BY <2>2
    <3>2. sessions'[r.sess] = s /\ Len(sessions') = Len(sessions) + 1
      BY <1>1, <3>1
    <3> QED BY <2>2, <3>1, <3>2 DEF InSession
  <2> QED BY <2>1, <2>2
<1>6. CalledBy(b, r)
  <2>1. CASE s.lite
    <3>1. b # 0 => Lite(b) /\ r.kind # "action"
      BY <2>1
    <3> QED BY <3>1 DEF CalledBy
  <2>2. CASE ~s.lite
    <3>1. sessions' = Append(before, s) /\ r.sess = Len(sessions) + 1
      BY <2>2
    <3>2. sessions'[r.sess] = s
      BY <1>1, <3>1
    <3> QED BY <2>2, <3>2 DEF CalledBy
  <2> QED BY <2>1, <2>2
<1>7. /\ r.by = b /\ b \in 0 .. Len(calls) /\ r.pc = "run" /\ r.snap = A!Nothing /\ r.wrote = A!Nothing
      /\ r.above = {n} \cup (IF b = 0 THEN {} ELSE calls[b].above)
      /\ r.kind = "update" => \E o \in Objects : r.of = {o}
  BY <1>2
<1>8. Added(n, b, r)
  BY <1>2, <1>3, <1>4, <1>5, <1>6, <1>7 DEF Added
<1> QED BY <1>2, <1>8

\* Operation Add() on the sessions as they are.
LEMMA AddAdds ==
    ASSUME Typed, NEW k \in {"action", "background", "rpc"}, NEW b \in 0 .. Len(calls), NEW p \in A!Servers, NEW s \in SessionType,
           s.lite \/ (s.snap = A!Nothing /\ s.staged = {}),
           A!Add(k, b, p, {}, s), SameRecords, dropped' = dropped,
           ~s.lite /\ b # 0 /\ Lite(b) => k = "action",
           b # 0 => /\ Open(b) /\ (s.lite => Lite(b)) /\ k # "background"
                    /\ k = "action" => ~s.lite /\ (s.owner <=> Lite(b))
                    /\ calls[b].kind # "update"
    PROVE  \E r : Added(Len(calls) + 1, b, r)
<1>1. /\ sessions \in Seq(SessionType) /\ calls \in Seq(CallType)
  BY DEF Typed
<1>2. PICK r : r = [kind |-> k, at |-> p, sess |-> IF s.lite THEN p ELSE Len(sessions) + 1, by |-> b, of |-> {},
                    pc |-> "run", snap |-> A!Nothing, wrote |-> A!Nothing,
                    above |-> {Len(calls) + 1} \cup (IF b = 0 THEN {} ELSE calls[b].above)]
  OBVIOUS
<1>3. calls' = Append(calls, r) /\ sessions' = IF s.lite THEN sessions ELSE Append(sessions, s)
  BY <1>2 DEF A!Add
<1>4. r \in CallType
  <2>1. b # 0 => calls[b] \in CallType
    BY <1>1
  <2>2. (IF b = 0 THEN {} ELSE calls[b].above) \in SUBSET Nat
    BY <2>1 DEF CallType
  <2>3. (IF s.lite THEN p ELSE Len(sessions) + 1) \in Nat
    BY <1>1, ServersExist
  <2>4. Len(calls) + 1 \in Nat /\ b \in Nat
    BY <1>1
  <2> QED BY <1>2, <2>2, <2>3, <2>4, NothingIsRecords DEF CallType
<1>5. /\ r.kind = k /\ r.at = p /\ r.sess = (IF s.lite THEN p ELSE Len(sessions) + 1) /\ r.by = b /\ r.pc = "run"
      /\ r.snap = A!Nothing /\ r.wrote = A!Nothing
      /\ r.above = {Len(calls) + 1} \cup (IF b = 0 THEN {} ELSE calls[b].above)
  BY <1>2
<1>6. k # "update"
  OBVIOUS
<1>7. /\ r.kind = "update" => \E o \in Objects : r.of = {o}
      /\ ~s.lite /\ b # 0 /\ Lite(b) => r.kind = "action"
      /\ b # 0 => /\ Open(b) /\ (s.lite => Lite(b)) /\ r.kind # "background"
                  /\ r.kind = "action" => ~s.lite /\ (s.owner <=> Lite(b))
                  /\ calls[b].kind = "update" => sessions[calls[b].sess].staged # {}
  BY <1>5, <1>6
<1>8. \A t \in DOMAIN sessions : /\ sessions[t].lite = sessions[t].lite /\ sessions[t].owner = sessions[t].owner
                                  /\ sessions[t].snap = sessions[t].snap /\ sessions[t].staged \subseteq sessions[t].staged
  OBVIOUS
<1> QED BY <1>1, <1>3, <1>4, <1>5, <1>7, <1>8, Adds

\* Each action that adds a call does so.
Adding == (\E p \in A!Servers : A!Act(p) \/ A!Background(p)) \/ \E i \in Ids : A!ActHere(i) \/ (\E p \in A!Servers : A!Rpc(i, p)) \/ \E o \in Objects : A!Save(i, o)

\* The sessions that calls start with have captured nothing.
LEMMA NewSessions ==
    /\ A!LiteSession \in SessionType /\ A!LiteSession.lite
    /\ \A own \in BOOLEAN : /\ A!Session(own) \in SessionType /\ ~A!Session(own).lite /\ (A!Session(own).owner <=> own)
                            /\ A!Session(own).snap = A!Nothing /\ A!Session(own).staged = {}
BY NothingIsRecords DEF A!LiteSession, A!Session, SessionType

\* The actions that do: Act, Background, ActHere, Rpc and Save.
LEMMA AddingAdds ==
    ASSUME Typed, Adding
    PROVE  \E b, r : Added(Len(calls) + 1, b, r)
<1>1. sessions \in Seq(SessionType) /\ calls \in Seq(CallType) /\ \A i \in Ids : calls[i].sess \in DOMAIN sessions
  BY DEF Typed
<1>2. \A i \in Ids : i \in 0 .. Len(calls) /\ i # 0 /\ sessions[calls[i].sess] \in SessionType /\ calls[i] \in CallType
  BY <1>1 DEF Ids
<1>3. 0 \in 0 .. Len(calls)
  BY <1>1
<1>4. ASSUME NEW p \in A!Servers, A!Act(p) PROVE \E r : Added(Len(calls) + 1, 0, r)
  <2>1. A!Add("action", 0, p, {}, A!Session(TRUE)) /\ SameRecords /\ dropped' = dropped
    BY <1>4 DEF A!Act, A!history, SameRecords
  <2>2. PICK s \in SessionType : s = A!Session(TRUE) /\ ~s.lite /\ s.snap = A!Nothing /\ s.staged = {}
    BY NewSessions
  <2>3. A!Add("action", 0, p, {}, s)
    BY <2>1, <2>2
  <2> QED BY <1>3, <2>1, <2>2, <2>3, AddAdds
<1>5. ASSUME NEW p \in A!Servers, A!Background(p) PROVE \E r : Added(Len(calls) + 1, 0, r)
  <2>1. A!Add("background", 0, p, {}, A!LiteSession) /\ SameRecords /\ dropped' = dropped
    BY <1>5 DEF A!Background, A!history, SameRecords
  <2>2. PICK s \in SessionType : s = A!LiteSession /\ s.lite
    BY NewSessions
  <2>3. A!Add("background", 0, p, {}, s)
    BY <2>1, <2>2
  <2> QED BY <1>3, <2>1, <2>2, <2>3, AddAdds
<1>6. ASSUME NEW i \in Ids, A!ActHere(i) PROVE \E r : Added(Len(calls) + 1, i, r)
  <2>1. A!Add("action", i, calls[i].at, {}, A!Session(Lite(i))) /\ SameRecords /\ dropped' = dropped
    BY <1>6 DEF A!ActHere, A!history, SameRecords, A!SessionOf, Lite
  <2>2. Lite(i) \in BOOLEAN /\ calls[i].at \in A!Servers
    BY <1>2 DEF Lite, SessionType, CallType
  <2>3. PICK s \in SessionType : s = A!Session(Lite(i)) /\ ~s.lite /\ s.snap = A!Nothing /\ s.staged = {} /\ (s.owner <=> Lite(i))
    BY <2>2, NewSessions
  <2>4. A!Add("action", i, calls[i].at, {}, s)
    BY <2>1, <2>3
  <2>5. Open(i) /\ calls[i].kind # "update"
    BY <1>6 DEF A!ActHere, A!Running, Open
  <2> QED BY <1>2, <2>1, <2>2, <2>3, <2>4, <2>5, AddAdds
<1>7. ASSUME NEW i \in Ids, NEW p \in A!Servers, A!Rpc(i, p) PROVE \E r : Added(Len(calls) + 1, i, r)
  <2>1. A!Add("rpc", i, p, {}, A!Tx(i)) /\ SameRecords /\ dropped' = dropped
    BY <1>7 DEF A!Rpc, A!history, SameRecords
  <2>3. PICK s \in SessionType : s = A!Tx(i) /\ (s.lite \/ (s.snap = A!Nothing /\ s.staged = {})) /\ (s.lite <=> Lite(i))
    BY NewSessions DEF A!Tx, A!SessionOf, Lite
  <2>4. A!Add("rpc", i, p, {}, s)
    BY <2>1, <2>3
  <2>5. Open(i) /\ calls[i].kind # "update"
    BY <1>7 DEF A!Rpc, A!Running, Open
  <2>6. ~(~s.lite /\ Lite(i)) /\ (s.lite => Lite(i))
    BY <2>3
  <2> QED BY <1>2, <2>1, <2>3, <2>4, <2>5, <2>6, AddAdds
<1>8. ASSUME NEW i \in Ids, NEW o \in Objects, A!Save(i, o) PROVE \E r : Added(Len(calls) + 1, i, r)
  <2>1. PICK s \in SessionType : s = A!Tx(i) /\ (s.lite \/ (s.snap = A!Nothing /\ s.staged = {})) /\ (s.lite <=> Lite(i))
    BY NewSessions DEF A!Tx, A!SessionOf, Lite
  <2>2. PICK before : before = [sessions EXCEPT ![calls[i].sess].staged = @ \ {o}]
    OBVIOUS
  <2>3. PICK r : r = [kind |-> "update", at |-> A!Home, sess |-> IF s.lite THEN A!Home ELSE Len(sessions) + 1,
                      by |-> i, of |-> {o}, pc |-> "run", snap |-> A!Nothing, wrote |-> A!Nothing,
                      above |-> {Len(calls) + 1} \cup calls[i].above]
    OBVIOUS
  <2>4. /\ calls' = Append(calls, r) /\ sessions' = IF s.lite THEN before ELSE Append(before, s)
        /\ Open(i) /\ o \in sessions[calls[i].sess].staged /\ SameRecords /\ dropped' = dropped
    BY <1>8, <2>1, <2>2, <2>3 DEF A!Save, A!history, SameRecords, A!SessionOf, Open
  <2>5. /\ before \in Seq(SessionType) /\ Len(before) = Len(sessions)
        /\ \A t \in DOMAIN sessions : /\ before[t].lite = sessions[t].lite /\ before[t].owner = sessions[t].owner
                                      /\ before[t].snap = sessions[t].snap /\ before[t].staged \subseteq sessions[t].staged
    <3>1. PICK m : m = [sessions[calls[i].sess] EXCEPT !.staged = @ \ {o}]
      OBVIOUS
    <3>2. m \in SessionType /\ m.lite = sessions[calls[i].sess].lite /\ m.owner = sessions[calls[i].sess].owner
          /\ m.snap = sessions[calls[i].sess].snap /\ m.staged = sessions[calls[i].sess].staged \ {o}
      BY <1>2, <3>1 DEF SessionType
    <3>3. before = [sessions EXCEPT ![calls[i].sess] = m]
      BY <1>1, <2>2, <3>1
    <3> QED BY <1>1, <3>2, <3>3
  <2>6. r \in CallType
    <3>1. calls[i].above \in SUBSET Nat /\ i \in Nat /\ Len(calls) + 1 \in Nat /\ Len(sessions) + 1 \in Nat
      BY <1>1, <1>2 DEF CallType
    <3> QED BY <2>3, <3>1, NothingIsRecords, ServersExist DEF CallType
  <2>7. /\ r.sess = (IF s.lite THEN r.at ELSE Len(sessions) + 1) /\ r.by = i /\ r.pc = "run" /\ r.snap = A!Nothing
        /\ r.wrote = A!Nothing /\ r.above = {Len(calls) + 1} \cup (IF i = 0 THEN {} ELSE calls[i].above)
        /\ r.kind = "update" /\ r.of = {o}
    BY <1>2, <2>3
  <2>8. /\ r.kind = "update" => \E q \in Objects : r.of = {q}
        /\ ~s.lite /\ i # 0 /\ Lite(i) => r.kind = "action"
        /\ i # 0 => /\ Open(i) /\ (s.lite => Lite(i)) /\ r.kind # "background"
                    /\ r.kind = "action" => ~s.lite /\ (s.owner <=> Lite(i))
                    /\ calls[i].kind = "update" => sessions[calls[i].sess].staged # {}
    BY <2>1, <2>4, <2>7
  <2>9. i \in 0 .. Len(calls)
    BY <1>2
  <2> QED BY <2>1, <2>4, <2>5, <2>6, <2>7, <2>8, <2>9, Adds
<1> QED BY <1>4, <1>5, <1>6, <1>7, <1>8 DEF Adding

-----------------------------------------------------------------------------
\* Operation Register() of records for call b, 0 for the client, in process p.
Captured(b, recs) ==
    /\ sessions' \in Seq(SessionType) /\ Len(sessions') = Len(sessions)
    /\ \A s \in DOMAIN sessions : /\ sessions'[s].lite = sessions[s].lite /\ sessions'[s].owner = sessions[s].owner
                                  /\ sessions'[s].staged = sessions[s].staged
                                  /\ s # calls[b].sess => sessions'[s].snap = sessions[s].snap
    /\ \A q \in Objects : sessions'[calls[b].sess].snap[q] = IF recs[q] # 0 THEN recs[q] ELSE IF Lite(b) THEN 0 ELSE Held(b)[q]
    /\ disturbed' = IF Lite(b) THEN (disturbed \cup {d \in Ids : Open(d) /\ calls[d].sess = calls[b].sess}) \ {b} ELSE disturbed
Registered(b, p, recs) ==
    /\ heard' \in [Processes -> Records]
    /\ \A q \in Objects : heard'[p][q] = IF recs[q] # 0 THEN recs[q] ELSE heard[p][q]
    /\ \A r \in Processes \ {p} : heard'[r] = heard[r]
    /\ \A q \in aged' : q \in aged \/ (q \in Objects /\ heard'[p][q] < heard[p][q])
    /\ b = 0 => sessions' = sessions /\ disturbed' = disturbed
    /\ b # 0 => Captured(b, recs)

\* Put() takes the new records where there are some.
LEMMA PutPuts ==
    ASSUME NEW old \in Records, NEW new \in Records
    PROVE  /\ A!Put(old, new) \in Records
           /\ \A q \in Objects : A!Put(old, new)[q] = IF new[q] # 0 THEN new[q] ELSE old[q]
BY DEF A!Put, Records

\* Register() does what Registered says.
LEMMA Registers ==
    ASSUME Typed, NEW b \in 0 .. Len(calls), NEW p \in Processes, NEW recs \in Records, A!Register(b, p, recs)
    PROVE  Registered(b, p, recs)
<1>1. /\ sessions \in Seq(SessionType) /\ calls \in Seq(CallType) /\ heard \in [Processes -> Records]
      /\ \A i \in Ids : calls[i].sess \in DOMAIN sessions
  BY DEF Typed
<1>2. /\ heard' = [heard EXCEPT ![p] = A!Put(@, recs)]
      /\ aged' = aged \cup {o \in Objects : heard'[p][o] < heard[p][o]}
  BY DEF A!Register
<1>3. PICK m : m = A!Put(heard[p], recs)
  OBVIOUS
<1>4. m \in Records /\ \A q \in Objects : m[q] = IF recs[q] # 0 THEN recs[q] ELSE heard[p][q]
  BY <1>1, <1>3, PutPuts
<1>5. heard' = [heard EXCEPT ![p] = m]
  BY <1>2, <1>3
<1>6. /\ heard' \in [Processes -> Records] /\ heard'[p] = m
      /\ \A r \in Processes \ {p} : heard'[r] = heard[r]
  BY <1>1, <1>4, <1>5
<1>7. ASSUME b = 0 PROVE sessions' = sessions /\ disturbed' = disturbed
  BY <1>7 DEF A!Register
<1>8. ASSUME b # 0 PROVE Captured(b, recs)
  <2>1. b \in Ids /\ calls[b].sess \in DOMAIN sessions /\ sessions[calls[b].sess] \in SessionType
    BY <1>1, <1>8 DEF Ids
  <2>2. /\ sessions' = [sessions EXCEPT ![calls[b].sess] = A!Captured(@, recs)]
        /\ disturbed' = IF Lite(b) THEN (disturbed \cup {d \in Ids : Open(d) /\ calls[d].sess = calls[b].sess}) \ {b} ELSE disturbed
    BY <1>8 DEF A!Register, A!SessionOf, Lite, A!Open, Open, Ids
  <2>3. PICK s : s = sessions[calls[b].sess] /\ s \in SessionType
    BY <2>1
  <2>4. PICK n : n = A!Captured(s, recs)
    OBVIOUS
  <2>5. /\ n \in SessionType /\ n.lite = s.lite /\ n.owner = s.owner /\ n.staged = s.staged
        /\ \A q \in Objects : n.snap[q] = IF recs[q] # 0 THEN recs[q] ELSE IF s.lite THEN 0 ELSE s.snap[q]
    <3>1. CASE s.lite
      <4>1. n = [s EXCEPT !.snap = recs]
        BY <2>4, <3>1 DEF A!Captured
      <4>2. \A q \in Objects : recs[q] = IF recs[q] # 0 THEN recs[q] ELSE 0
        BY DEF Records
      <4> QED BY <2>3, <3>1, <4>1, <4>2 DEF SessionType
    <3>2. CASE ~s.lite
      <4>1. PICK r : r = A!Put(s.snap, recs)
        OBVIOUS
      <4>2. s.snap \in Records
        BY <2>3 DEF SessionType
      <4>3. r \in Records /\ \A q \in Objects : r[q] = IF recs[q] # 0 THEN recs[q] ELSE s.snap[q]
        BY <4>1, <4>2, PutPuts
      <4>4. n = [s EXCEPT !.snap = r]
        BY <2>4, <3>2, <4>1 DEF A!Captured
      <4> QED BY <2>3, <3>2, <4>3, <4>4 DEF SessionType
    <3> QED BY <3>1, <3>2
  <2>6. sessions' = [sessions EXCEPT ![calls[b].sess] = n]
    BY <2>2, <2>3, <2>4
  <2>7. /\ sessions' \in Seq(SessionType) /\ Len(sessions') = Len(sessions) /\ sessions'[calls[b].sess] = n
        /\ \A t \in DOMAIN sessions : t # calls[b].sess => sessions'[t] = sessions[t]
    BY <1>1, <2>1, <2>5, <2>6
  <2>8. \A t \in DOMAIN sessions : /\ sessions'[t].lite = sessions[t].lite /\ sessions'[t].owner = sessions[t].owner
                                   /\ sessions'[t].staged = sessions[t].staged
                                   /\ t # calls[b].sess => sessions'[t].snap = sessions[t].snap
    BY <2>3, <2>5, <2>7
  <2>9. \A q \in Objects : sessions'[calls[b].sess].snap[q] = IF recs[q] # 0 THEN recs[q] ELSE IF Lite(b) THEN 0 ELSE Held(b)[q]
    BY <2>3, <2>5, <2>7 DEF Lite, Held
  <2> QED BY <2>2, <2>7, <2>8, <2>9 DEF Captured
<1>9. \A q \in aged' : q \in aged \/ (q \in Objects /\ heard'[p][q] < heard[p][q])
  BY <1>2
<1> QED BY <1>4, <1>6, <1>7, <1>8, <1>9 DEF Registered

-----------------------------------------------------------------------------
\* Only where call i is, and what it sends, is changed.
Moved(i, pc, snap) ==
    /\ Same /\ SameBut(i) /\ sessions' = sessions
    /\ calls'[i].pc = pc /\ calls'[i].snap = snap /\ calls'[i].wrote = calls[i].wrote
    /\ UNCHANGED <<stored, heard, crossed, disturbed, aged>>

\* A change of the pc and of the records of one call is one.
LEMMA Moves ==
    ASSUME Typed, NEW i \in Ids, NEW pc \in {"run", "stored", "answered", "done"}, NEW snap \in Records,
           calls' = [calls EXCEPT ![i].pc = pc, ![i].snap = snap], sessions' = sessions,
           UNCHANGED <<stored, heard, crossed, disturbed, aged>>
    PROVE  Moved(i, pc, snap)
<1>1. /\ sessions \in Seq(SessionType) /\ calls \in Seq(CallType) /\ calls[i] \in CallType
  BY DEF Typed, Ids
<1>2. PICK n : n = [calls[i] EXCEPT !.pc = pc, !.snap = snap]
  OBVIOUS
<1>3. /\ n \in CallType /\ n.pc = pc /\ n.snap = snap /\ n.wrote = calls[i].wrote
      /\ n.kind = calls[i].kind /\ n.at = calls[i].at /\ n.sess = calls[i].sess
      /\ n.by = calls[i].by /\ n.of = calls[i].of /\ n.above = calls[i].above
  BY <1>1, <1>2 DEF CallType
<1>4. calls' = [calls EXCEPT ![i] = n]
  BY <1>1, <1>2 DEF Ids, CallType
<1>5. calls' \in Seq(CallType) /\ Len(calls') = Len(calls) /\ calls'[i] = n /\ \A j \in Ids : j # i => calls'[j] = calls[j]
  <2>1. i \in DOMAIN calls /\ n \in CallType
    BY <1>3 DEF Ids
  <2>2. calls' \in Seq(CallType) /\ Len(calls') = Len(calls)
    <3>1. calls \in Seq(CallType)
      BY <1>1
    <3> QED BY ONLY <3>1, <1>4, <2>1, ElementChanged
  <2>3. calls'[i] = n /\ \A j \in DOMAIN calls : j # i => calls'[j] = calls[j]
    BY <1>4, <2>1
  <2> QED BY <2>2, <2>3 DEF Ids
<1>6. Same
  BY <1>1, <1>3, <1>5 DEF Same
<1> QED BY <1>3, <1>5, <1>6 DEF Moved, SameBut

Replied(i) ==
    /\ Moved(i, "answered", Held(i))
    /\ dropped' = dropped /\ outdated' = outdated \cup {o \in Objects : Lite(i) /\ Held(i)[o] \in 1 .. stored[o] - 1}
    /\ A!Ended(i) /\ ~A!Nested(i)

\* Answer: the call has what its session captured.
LEMMA AnswerMoves ==
    ASSUME Typed, NEW i \in Ids, A!Answer(i)
    PROVE  Replied(i)
<1>1. Held(i) \in Records
  <2>1. sessions[calls[i].sess] \in SessionType
    BY DEF Typed
  <2> QED BY <2>1 DEF Held, SessionType
<1>2. /\ calls' = [calls EXCEPT ![i].pc = "answered", ![i].snap = Held(i)] /\ sessions' = sessions
      /\ UNCHANGED <<stored, heard, crossed, disturbed, aged>>
  BY DEF A!Answer, A!SessionOf, Held
<1>3. Moved(i, "answered", Held(i))
  BY <1>1, <1>2, Moves
<1> QED BY <1>3 DEF Replied, A!Answer, A!SessionOf, Lite, Held

\* A call that ends stays as it was.
LEMMA DoneMoves ==
    ASSUME Typed, NEW i \in Ids, calls' = A!Now(i, "done"), sessions' = sessions,
           UNCHANGED <<stored, heard, crossed, disturbed, aged>>
    PROVE  Moved(i, "done", calls[i].snap)
<1>1. calls \in Seq(CallType) /\ calls[i] \in CallType
  BY DEF Typed, Ids
<1>2. calls[i].snap \in Records
  BY <1>1 DEF CallType
<1>3. calls' = [calls EXCEPT ![i].pc = "done", ![i].snap = calls[i].snap]
  BY <1>1 DEF A!Now, Ids, CallType
<1> QED BY <1>2, <1>3, Moves

Returned(i) ==
    /\ Moved(i, "done", calls[i].snap)
    /\ dropped' = IF sessions[calls[i].sess].owner THEN dropped
                  ELSE dropped \cup {o \in Objects : A!Nested(i) /\ calls[i].wrote[o] # 0}
    /\ outdated' = outdated
    /\ A!Ended(i) /\ (A!Nested(i) \/ calls[i].kind = "background")

\* Return: nobody takes the records.
LEMMA ReturnMoves ==
    ASSUME Typed, NEW i \in Ids, A!Return(i)
    PROVE  Returned(i)
<1>1. Moved(i, "done", calls[i].snap)
  BY DoneMoves DEF A!Return
<1> QED BY <1>1 DEF Returned, A!Return, A!SessionOf

Failed(i) ==
    /\ Moved(i, "done", calls[i].snap) /\ calls[i].pc = "run"
    /\ dropped' = dropped \cup {o \in Objects : \E d \in Ids : Alive(d) /\ i \in A!Callers(d) /\ calls[d].wrote[o] # 0}
    /\ outdated' = outdated

\* Fail: the records of those it waits for are not sent on.
LEMMA FailMoves ==
    ASSUME Typed, NEW i \in Ids, A!Fail(i)
    PROVE  Failed(i)
<1>1. Moved(i, "done", calls[i].snap)
  BY DoneMoves DEF A!Fail
<1> QED BY <1>1 DEF Failed, A!Fail, A!Alive, Alive, Ids

\* An object is staged.
Edited(i) ==
    /\ Same /\ calls' = calls /\ SameRecords /\ dropped' = dropped /\ calls[i].kind # "update"
    /\ \A s \in DOMAIN sessions : /\ sessions'[s].snap = sessions[s].snap
                                  /\ s # calls[i].sess => sessions'[s].staged = sessions[s].staged

\* Edit: one more object is staged in the session of the call.
LEMMA EditEdits ==
    ASSUME Typed, NEW i \in Ids, NEW o \in Objects, A!Edit(i, o)
    PROVE  Edited(i)
<1>1. /\ sessions \in Seq(SessionType) /\ calls \in Seq(CallType) /\ calls[i].sess \in DOMAIN sessions
      /\ sessions[calls[i].sess] \in SessionType
  BY DEF Typed, Ids
<1>2. PICK t : t = calls[i].sess
  OBVIOUS
<1>3. PICK n : n = [sessions[t] EXCEPT !.staged = @ \cup {o}]
  OBVIOUS
<1>4. /\ n \in SessionType /\ n.snap = sessions[t].snap /\ n.lite = sessions[t].lite /\ n.owner = sessions[t].owner
  BY <1>1, <1>2, <1>3 DEF SessionType
<1>5. sessions' = [sessions EXCEPT ![t] = n]
  <2>1. sessions' = [sessions EXCEPT ![calls[i].sess].staged = @ \cup {o}]
    BY DEF A!Edit
  <2> QED BY <1>1, <1>2, <1>3, <2>1
<1>6. sessions' \in Seq(SessionType) /\ Len(sessions') = Len(sessions)
  <2>1. sessions \in Seq(SessionType) /\ t \in DOMAIN sessions
    BY <1>1, <1>2
  <2> QED BY ONLY <2>1, <1>4, <1>5, ElementChanged
<1>7. \A s \in DOMAIN sessions : sessions'[s] = IF s = t THEN n ELSE sessions[s]
  BY <1>5
<1>8. calls' = calls /\ SameRecords /\ dropped' = dropped /\ calls[i].kind # "update"
  BY DEF A!Edit, A!Running, A!history, SameRecords
<1>9. Same
  BY <1>1, <1>4, <1>6, <1>7, <1>8 DEF Same
<1> QED BY <1>2, <1>4, <1>7, <1>8, <1>9 DEF Edited

\* The block stores a new record of o for call i.
Stored(i, o) ==
    /\ Same /\ SameBut(i)
    /\ calls[i].kind = "update" /\ calls[i].pc = "run" /\ o \in calls[i].of
    /\ calls'[i].pc = "stored" /\ calls'[i].snap = calls[i].snap
    /\ \A q \in Objects : calls'[i].wrote[q] = IF q = o THEN stored[o] + 1 ELSE 0
    /\ stored' \in Records /\ \A q \in Objects : stored'[q] = IF q = o THEN stored[o] + 1 ELSE stored[q]
    /\ \E recs \in Records : /\ \A q \in Objects : recs[q] = IF q = o THEN stored[o] + 1 ELSE 0
                             /\ Registered(i, A!Home, recs)
    /\ crossed \subseteq crossed'
    /\ o \notin crossed' => \A d \in Ids \ A!Callers(i) : Alive(d) => o \notin A!ToSend(d)
    /\ outdated' = outdated /\ dropped' = dropped

\* Store: a version that was never there before, for the process of the block and for the session of the update.
LEMMA StoreStores ==
    ASSUME Typed, NEW i \in Ids, A!Store(i), calls[i].of \subseteq Objects
    PROVE  \E o \in Objects : Stored(i, o)
<1>1. /\ sessions \in Seq(SessionType) /\ calls \in Seq(CallType) /\ calls[i] \in CallType
      /\ stored \in Records /\ i \in 0 .. Len(calls) /\ i # 0
  BY DEF Typed, Ids
<1>2. PICK o \in calls[i].of :
          LET rec == [A!Nothing EXCEPT ![o] = stored[o] + 1]
          IN /\ stored' = [stored EXCEPT ![o] = @ + 1]
             /\ A!Register(i, A!Home, rec)
             /\ calls' = [calls EXCEPT ![i].pc = "stored", ![i].wrote = rec]
             /\ crossed' = IF \E d \in DOMAIN calls \ A!Callers(i) : A!Alive(d) /\ o \in A!ToSend(d) THEN crossed \cup {o} ELSE crossed
  BY DEF A!Store
<1>3. o \in Objects /\ stored[o] + 1 \in Nat
  BY <1>1 DEF Records
<1>4. PICK rec : rec = [A!Nothing EXCEPT ![o] = stored[o] + 1]
  OBVIOUS
<1>5. rec \in Records /\ \A q \in Objects : rec[q] = IF q = o THEN stored[o] + 1 ELSE 0
  BY <1>3, <1>4, NothingIsRecords DEF Records
<1>6. Registered(i, A!Home, rec)
  <2>1. A!Register(i, A!Home, rec) /\ A!Home \in Processes
    BY <1>2, <1>4, ServersExist DEF Processes
  <2> QED BY <1>1, <1>5, <2>1, Registers
<1>7. stored' \in Records /\ \A q \in Objects : stored'[q] = IF q = o THEN stored[o] + 1 ELSE stored[q]
  BY <1>1, <1>2, <1>3 DEF Records
<1>8. PICK n : n = [calls[i] EXCEPT !.pc = "stored", !.wrote = rec]
  OBVIOUS
<1>9. /\ n \in CallType /\ n.pc = "stored" /\ n.snap = calls[i].snap /\ n.wrote = rec
      /\ n.kind = calls[i].kind /\ n.at = calls[i].at /\ n.sess = calls[i].sess
      /\ n.by = calls[i].by /\ n.of = calls[i].of /\ n.above = calls[i].above
  BY <1>1, <1>5, <1>8 DEF CallType
<1>10. calls' = [calls EXCEPT ![i] = n]
  BY <1>1, <1>2, <1>4, <1>8 DEF Ids, CallType
<1>11. calls' \in Seq(CallType) /\ Len(calls') = Len(calls) /\ \A j \in Ids : calls'[j] = IF j = i THEN n ELSE calls[j]
  <2>1. calls \in Seq(CallType) /\ i \in DOMAIN calls
    BY <1>1 DEF Ids
  <2>2. calls' \in Seq(CallType) /\ Len(calls') = Len(calls)
    BY ONLY <2>1, <1>9, <1>10, ElementChanged
  <2> QED BY <1>10, <2>2 DEF Ids
<1>12. Same
  <2>1. /\ sessions' \in Seq(SessionType) /\ Len(sessions') = Len(sessions)
        /\ \A s \in DOMAIN sessions : sessions'[s].lite = sessions[s].lite /\ sessions'[s].owner = sessions[s].owner
    BY <1>1, <1>6 DEF Registered, Captured
  <2>2. \A j \in Ids : /\ calls'[j].kind = calls[j].kind /\ calls'[j].at = calls[j].at /\ calls'[j].sess = calls[j].sess
                       /\ calls'[j].by = calls[j].by /\ calls'[j].of = calls[j].of /\ calls'[j].above = calls[j].above
    BY <1>9, <1>11
  <2> QED BY <1>11, <2>1, <2>2 DEF Same
<1>13. SameBut(i) /\ calls'[i] = n
  BY <1>11 DEF SameBut
<1>14. /\ crossed \subseteq crossed'
       /\ o \notin crossed' => \A d \in Ids \ A!Callers(i) : Alive(d) => o \notin A!ToSend(d)
  BY <1>2 DEF Ids, Alive, A!Alive
<1>15. calls[i].kind = "update" /\ calls[i].pc = "run" /\ outdated' = outdated /\ dropped' = dropped
  BY DEF A!Store
<1>16. Stored(i, o)
  BY <1>5, <1>6, <1>7, <1>9, <1>12, <1>13, <1>14, <1>15 DEF Stored
<1> QED BY <1>3, <1>16

\* The answer of call i is received by its caller b in process p.
NewWrote(i, b, q) ==
    IF Lite(b) THEN IF i \in disturbed THEN 0 ELSE calls[i].wrote[q]
    ELSE IF i \notin disturbed /\ calls[i].wrote[q] > calls[b].wrote[q] THEN calls[i].wrote[q] ELSE calls[b].wrote[q]
Received(i, b) ==
    /\ Same /\ calls[i].pc = "answered" /\ b = calls[i].by
    /\ \A j \in Ids : j # i /\ j # b => calls'[j] = calls[j]
    /\ calls'[i].pc = "done" /\ calls'[i].snap = calls[i].snap /\ calls'[i].wrote = calls[i].wrote
    /\ b # 0 => calls'[b].pc = calls[b].pc /\ calls'[b].snap = calls[b].snap
    /\ UNCHANGED <<stored, crossed, outdated, dropped>>
    /\ \A s \in DOMAIN sessions : sessions'[s].staged = sessions[s].staged
    /\ \/ /\ calls[i].snap = A!Nothing /\ sessions' = sessions /\ UNCHANGED <<heard, disturbed, aged>>
          /\ b # 0 => calls'[b].wrote = calls[b].wrote
       \/ /\ \E p \in Processes : Registered(b, p, calls[i].snap)
          /\ b # 0 => \A q \in Objects : calls'[b].wrote[q] = NewWrote(i, b, q)

\* Receive: the caller has what was sent as its own.
LEMMA ReceiveReceives ==
    ASSUME Typed, NEW i \in Ids, A!Receive(i)
    PROVE  Received(i, calls[i].by)
<1>1. /\ sessions \in Seq(SessionType) /\ calls \in Seq(CallType) /\ calls[i] \in CallType /\ calls[i].by \in 0 .. i - 1
      /\ i \in 1 .. Len(calls) /\ calls[i].snap \in Records /\ calls[i].wrote \in Records
  <2>1. /\ sessions \in Seq(SessionType) /\ calls \in Seq(CallType) /\ calls[i] \in CallType /\ calls[i].by \in 0 .. i - 1
        /\ i \in 1 .. Len(calls)
    BY DEF Typed, Ids
  <2> QED BY <2>1 DEF CallType
<1>2. PICK b : b = calls[i].by
  OBVIOUS
<1>3. b \in 0 .. Len(calls) /\ b # i /\ (b # 0 => b \in Ids /\ calls[b] \in CallType)
  BY <1>1, <1>2 DEF Ids
<1>4. PICK w : w = IF i \in disturbed THEN A!Nothing ELSE calls[i].wrote
  OBVIOUS
<1>5. w \in Records /\ \A q \in Objects : w[q] = IF i \in disturbed THEN 0 ELSE calls[i].wrote[q]
  BY <1>1, <1>4, NothingIsRecords
<1>6. PICK p \in Processes : p = IF b = 0 THEN A!Client ELSE calls[b].at
  BY <1>3 DEF Processes, CallType
<1>7. PICK n : n = [calls[i] EXCEPT !.pc = "done"]
  OBVIOUS
<1>8. /\ n \in CallType /\ n.pc = "done" /\ n.snap = calls[i].snap /\ n.wrote = calls[i].wrote
      /\ n.kind = calls[i].kind /\ n.at = calls[i].at /\ n.sess = calls[i].sess
      /\ n.by = calls[i].by /\ n.of = calls[i].of /\ n.above = calls[i].above
  BY <1>1, <1>7 DEF CallType
<1>9. PICK now : now = A!Now(i, "done")
  OBVIOUS
<1>10. now \in Seq(CallType) /\ Len(now) = Len(calls) /\ \A j \in Ids : now[j] = IF j = i THEN n ELSE calls[j]
  <2>1. now = [calls EXCEPT ![i] = n]
    BY <1>1, <1>7, <1>9 DEF A!Now
  <2>2. calls \in Seq(CallType) /\ i \in DOMAIN calls
    BY <1>1
  <2>3. now \in Seq(CallType) /\ Len(now) = Len(calls)
    BY ONLY <2>1, <2>2, <1>8, ElementChanged
  <2> QED BY <2>1, <2>3 DEF Ids
<1>11. /\ calls[i].pc = "answered" /\ UNCHANGED <<stored, crossed, outdated, dropped>>
       /\ IF calls[i].snap = A!Nothing THEN UNCHANGED <<heard, sessions, disturbed, aged>> ELSE A!ReceiveRecords(b, p, calls[i].snap)
       /\ calls' = IF b = 0 \/ calls[i].snap = A!Nothing THEN now
                   ELSE [now EXCEPT ![b].wrote = IF Lite(b) THEN w ELSE A!Greater(@, w)]
  BY <1>2, <1>4, <1>6, <1>9 DEF A!Receive, A!SessionOf, Lite
<1>12. DOMAIN now = Ids
  BY <1>1, <1>10 DEF Ids
<1>13. /\ Same /\ calls'[i].pc = "done" /\ calls'[i].snap = calls[i].snap /\ calls'[i].wrote = calls[i].wrote
       /\ \A j \in Ids : j # i /\ j # b => calls'[j] = calls[j]
       /\ b # 0 => calls'[b].pc = calls[b].pc /\ calls'[b].snap = calls[b].snap
       /\ b # 0 /\ calls[i].snap = A!Nothing => calls'[b].wrote = calls[b].wrote
       /\ b # 0 /\ calls[i].snap # A!Nothing => \A q \in Objects : calls'[b].wrote[q] = NewWrote(i, b, q)
  <2>1. /\ sessions' \in Seq(SessionType) /\ Len(sessions') = Len(sessions)
        /\ \A s \in DOMAIN sessions : sessions'[s].lite = sessions[s].lite /\ sessions'[s].owner = sessions[s].owner
    <3>1. CASE calls[i].snap = A!Nothing
      BY <1>1, <1>11, <3>1
    <3>2. CASE calls[i].snap # A!Nothing
      <4>1. Registered(b, p, calls[i].snap)
        BY <1>1, <1>3, <1>11, <3>2, Registers DEF A!ReceiveRecords
      <4> QED BY <1>1, <4>1 DEF Registered, Captured
    <3> QED BY <3>1, <3>2
  <2>2. CASE b = 0 \/ calls[i].snap = A!Nothing
    <3>1. calls' = now
      BY <1>11, <2>2
    <3>2. Same
      BY <1>8, <1>10, <2>1, <3>1 DEF Same
    <3> QED BY <1>3, <1>8, <1>10, <2>2, <3>1, <3>2 DEF Ids
  <2>3. CASE b # 0 /\ calls[i].snap # A!Nothing
    <3>1. PICK v : v = IF Lite(b) THEN w ELSE A!Greater(calls[b].wrote, w)
      OBVIOUS
    <3>2. v \in Records /\ \A q \in Objects : v[q] = NewWrote(i, b, q)
      <4>1. calls[b].wrote \in Records
        BY <1>3, <2>3 DEF CallType
      <4>2. A!Greater(calls[b].wrote, w) \in Records
        BY <1>5, <4>1 DEF A!Greater, Records
      <4>3. \A q \in Objects : A!Greater(calls[b].wrote, w)[q] = IF w[q] > calls[b].wrote[q] THEN w[q] ELSE calls[b].wrote[q]
        BY DEF A!Greater
      <4>4. \A q \in Objects : w[q] \in Nat /\ calls[b].wrote[q] \in Nat
        BY <1>5, <4>1 DEF Records
      <4>5. CASE Lite(b)
        BY <1>5, <3>1, <4>5 DEF NewWrote
      <4>6. CASE ~Lite(b)
        BY <1>5, <3>1, <4>2, <4>3, <4>4, <4>6 DEF NewWrote
      <4> QED BY <4>5, <4>6
    <3>3. PICK m : m = [calls[b] EXCEPT !.wrote = v]
      OBVIOUS
    <3>4. /\ m \in CallType /\ m.pc = calls[b].pc /\ m.snap = calls[b].snap /\ m.wrote = v
          /\ m.kind = calls[b].kind /\ m.at = calls[b].at /\ m.sess = calls[b].sess
          /\ m.by = calls[b].by /\ m.of = calls[b].of /\ m.above = calls[b].above
      BY <1>3, <2>3, <3>2, <3>3 DEF CallType
    <3>5. calls' = [now EXCEPT ![b] = m]
      <4>1. calls' = [now EXCEPT ![b].wrote = IF Lite(b) THEN w ELSE A!Greater(@, w)]
        BY <1>11, <2>3
      <4>2. now[b] = calls[b] /\ b \in DOMAIN now
        BY <1>3, <1>10, <1>12, <2>3
      <4> QED BY <3>1, <3>3, <4>1, <4>2
    <3>6. calls' \in Seq(CallType) /\ Len(calls') = Len(calls)
      <4>1. now \in Seq(CallType) /\ b \in DOMAIN now
        BY <1>3, <1>10, <1>12, <2>3
      <4>2. calls' \in Seq(CallType) /\ Len(calls') = Len(now)
        BY ONLY <4>1, <3>4, <3>5, ElementChanged
      <4> QED BY <1>10, <4>2
    <3>7. \A j \in Ids : calls'[j] = IF j = b THEN m ELSE IF j = i THEN n ELSE calls[j]
      BY <1>10, <1>12, <3>5
    <3>8. Same
      <4>1. \A j \in Ids : /\ calls'[j].kind = calls[j].kind /\ calls'[j].at = calls[j].at /\ calls'[j].sess = calls[j].sess
                           /\ calls'[j].by = calls[j].by /\ calls'[j].of = calls[j].of /\ calls'[j].above = calls[j].above
        BY <1>8, <3>4, <3>7
      <4> QED BY <2>1, <3>6, <4>1 DEF Same
    <3> QED BY <1>3, <1>8, <2>3, <3>2, <3>4, <3>7, <3>8
  <2> QED BY <2>2, <2>3
<1>14. \/ /\ calls[i].snap = A!Nothing /\ sessions' = sessions /\ UNCHANGED <<heard, disturbed, aged>>
          /\ b # 0 => calls'[b].wrote = calls[b].wrote
       \/ /\ \E r \in Processes : Registered(b, r, calls[i].snap)
          /\ b # 0 => \A q \in Objects : calls'[b].wrote[q] = NewWrote(i, b, q)
  <2>1. CASE calls[i].snap = A!Nothing
    BY <1>11, <1>13, <2>1
  <2>2. CASE calls[i].snap # A!Nothing
    <3>1. Registered(b, p, calls[i].snap)
      BY <1>1, <1>3, <1>11, <2>2, Registers DEF A!ReceiveRecords
    <3> QED BY <1>13, <2>2, <3>1
  <2> QED BY <2>1, <2>2
<1>15. \A s \in DOMAIN sessions : sessions'[s].staged = sessions[s].staged
  BY <1>14 DEF Registered, Captured
<1> QED BY <1>2, <1>11, <1>13, <1>14, <1>15 DEF Received

Steps == \/ \E b, r : Added(Len(calls) + 1, b, r)
         \/ \E i \in Ids : Edited(i) \/ Replied(i) \/ Returned(i) \/ Failed(i) \/ Received(i, calls[i].by)
         \/ \E i \in Ids, o \in Objects : Stored(i, o)

\* An update is of one object.
Updates == \A i \in Ids : calls[i].kind = "update" => \E o \in Objects : calls[i].of = {o}

\* These are all steps there are.
LEMMA NextSteps ==
    ASSUME Typed, Updates, A!Next
    PROVE  Steps
<1>1. CASE Adding
  BY <1>1, AddingAdds DEF Steps
<1>2. CASE \E i \in Ids, o \in Objects : A!Edit(i, o)
  BY <1>2, EditEdits DEF Steps
<1>3. CASE \E i \in Ids : A!Store(i)
  <2>1. PICK i \in Ids : A!Store(i)
    BY <1>3
  <2>2. calls[i].of \subseteq Objects
    BY <2>1 DEF A!Store, Updates
  <2> QED BY <2>1, <2>2, StoreStores DEF Steps
<1>4. CASE \E i \in Ids : A!Answer(i)
  BY <1>4, AnswerMoves DEF Steps
<1>5. CASE \E i \in Ids : A!Return(i)
  BY <1>5, ReturnMoves DEF Steps
<1>6. CASE \E i \in Ids : A!Fail(i)
  BY <1>6, FailMoves DEF Steps
<1>7. CASE \E i \in Ids : A!Receive(i)
  BY <1>7, ReceiveReceives DEF Steps
<1> QED BY <1>1, <1>2, <1>3, <1>4, <1>5, <1>6, <1>7 DEF A!Next, Adding, Ids

\* Types are kept, and a step adds a call or keeps those there are.
LEMMA StepsAreTyped ==
    ASSUME Typed, Steps
    PROVE  Typed' /\ (Same \/ \E b, r : Added(Len(calls) + 1, b, r))
<1>1. /\ sessions \in Seq(SessionType) /\ calls \in Seq(CallType) /\ stored \in Records /\ heard \in [Processes -> Records]
      /\ Len(sessions) >= NServers
      /\ \A s \in DOMAIN sessions : sessions[s].lite <=> s <= NServers
      /\ \A i \in Ids : calls[i].sess \in DOMAIN sessions /\ calls[i].by \in 0 .. i - 1
  BY DEF Typed
<1>2. ASSUME Same, stored' \in Records, heard' \in [Processes -> Records]
      PROVE  Typed'
  <2>1. DOMAIN calls' = Ids /\ DOMAIN sessions' = DOMAIN sessions
    BY <1>1, <1>2 DEF Same, Ids
  <2>2. \A s \in DOMAIN sessions : sessions'[s].lite <=> s <= NServers
    BY <1>1, <1>2 DEF Same
  <2>3. \A i \in Ids : calls'[i].sess \in DOMAIN sessions /\ calls'[i].by \in 0 .. i - 1
    BY <1>1, <1>2 DEF Same
  <2>4. sessions' \in Seq(SessionType) /\ calls' \in Seq(CallType) /\ Len(sessions') >= NServers
    BY <1>1, <1>2 DEF Same
  <2> QED BY <1>2, <2>1, <2>2, <2>3, <2>4 DEF Typed, Ids
<1>3. ASSUME NEW b, NEW r, Added(Len(calls) + 1, b, r)
      PROVE  Typed'
  <2>1. PICK n : n = Len(calls) + 1
    OBVIOUS
  <2>2. /\ calls' \in Seq(CallType) /\ Len(calls') = n /\ calls'[n] = r /\ \A i \in Ids : calls'[i] = calls[i]
        /\ sessions' \in Seq(SessionType) /\ Len(sessions') \in {Len(sessions), Len(sessions) + 1}
        /\ r.sess \in DOMAIN sessions' /\ r.by = b /\ b \in 0 .. Len(calls) /\ SessionsStay /\ InSession(b, r)
        /\ stored' = stored /\ heard' = heard
    BY <1>3, <2>1 DEF Added, SameRecords
  <2>3. DOMAIN calls' = 1 .. n /\ Ids = 1 .. n - 1 /\ n \in Nat /\ DOMAIN sessions \subseteq DOMAIN sessions'
    BY <1>1, <2>1, <2>2 DEF Ids
  <2>4. \A i \in DOMAIN calls' : calls'[i].sess \in DOMAIN sessions' /\ calls'[i].by \in 0 .. i - 1
    <3>1. ASSUME NEW i \in DOMAIN calls' PROVE calls'[i].sess \in DOMAIN sessions' /\ calls'[i].by \in 0 .. i - 1
      <4>1. CASE i = n
        BY <1>1, <2>1, <2>2, <2>3, <4>1
      <4>2. CASE i # n
        <5>1. i \in Ids /\ calls'[i] = calls[i]
          BY <2>2, <2>3, <4>2
        <5>2. calls[i].sess \in DOMAIN sessions /\ calls[i].by \in 0 .. i - 1
          BY <1>1, <5>1
        <5> QED BY <2>3, <5>1, <5>2
      <4> QED BY <4>1, <4>2
    <3> QED BY <3>1
  <2>5. \A s \in DOMAIN sessions' : sessions'[s].lite <=> s <= NServers
    <3>1. ASSUME NEW s \in DOMAIN sessions' PROVE sessions'[s].lite <=> s <= NServers
      <4>1. CASE s \in DOMAIN sessions
        BY <1>1, <2>2, <4>1 DEF SessionsStay
      <4>2. CASE s \notin DOMAIN sessions
        <5>1. s = Len(sessions) + 1 /\ Len(sessions') # Len(sessions)
          BY <1>1, <2>2, <4>2
        <5>2. ~sessions'[s].lite
          BY <2>2, <5>1 DEF InSession
        <5> QED BY <1>1, <5>1, <5>2, ServersExist
      <4> QED BY <4>1, <4>2
    <3> QED BY <3>1
  <2>6. Len(sessions') >= NServers
    BY <1>1, <2>2, ServersExist
  <2> QED BY <1>1, <2>2, <2>4, <2>5, <2>6 DEF Typed, Ids
<1>4. ASSUME NEW i \in Ids, Edited(i) \/ Replied(i) \/ Returned(i) \/ Failed(i)
      PROVE  Same /\ stored' = stored /\ heard' = heard
  BY <1>4 DEF Edited, Replied, Returned, Failed, Moved, SameRecords
<1>5. ASSUME NEW i \in Ids, Received(i, calls[i].by)
      PROVE  Same /\ stored' = stored /\ heard' \in [Processes -> Records]
  BY <1>1, <1>5 DEF Received, Registered
<1>6. ASSUME NEW i \in Ids, NEW o \in Objects, Stored(i, o)
      PROVE  Same /\ stored' \in Records /\ heard' \in [Processes -> Records]
  BY <1>1, <1>6 DEF Stored, Registered
<1> QED BY <1>1, <1>2, <1>3, <1>4, <1>5, <1>6 DEF Steps

-----------------------------------------------------------------------------
(* How calls are related. *)

\* The calls above a call are a chain of callers.
Chain(i) ==
    /\ calls[i].above = {i} \cup (IF calls[i].by = 0 THEN {} ELSE calls[calls[i].by].above)
    /\ \A j \in calls[i].above :
          /\ j \in 1 .. i /\ calls[j].above \subseteq calls[i].above
          /\ j # i => \E k \in calls[i].above : calls[k].by = j /\ j \in calls[k].above
          /\ \A k \in calls[i].above : j \in calls[k].above \/ k \in calls[j].above
Chains == \A i \in Ids : Chain(i)

\* Sessions that are not lite belong to one call, and such a call makes no others in lite sessions.
Alone == \A i, j \in Ids : ~Lite(i) /\ calls[j].sess = calls[i].sess => i = j
Related(i) ==
    calls[i].by # 0 => /\ (Lite(i) => Lite(calls[i].by)) /\ calls[i].kind # "background"
                       /\ Lite(calls[i].by) /\ ~Lite(i) => calls[i].kind = "action"
                       /\ calls[i].kind = "action" => (sessions[calls[i].sess].owner <=> Lite(calls[i].by))
                       /\ Lite(calls[i].by) \/ calls[calls[i].by].kind # "update"
Unstaged == \A i \in Ids : calls[i].kind = "update" /\ ~Lite(i) => sessions[calls[i].sess].staged = {}
Static == Updates /\ Chains /\ Alone /\ (\A i \in Ids : Related(i))

\* What the calls before have is kept as another one is added.
LEMMA AddedKeeps ==
    ASSUME Typed, NEW n, NEW b, NEW r, Added(n, b, r)
    PROVE  /\ n \in Nat \ {0} /\ n \notin Ids /\ Ids' = Ids \cup {n} /\ Ids = 1 .. n - 1 /\ b \in 0 .. n - 1 /\ (b # 0 => b \in Ids)
           /\ DOMAIN sessions \subseteq DOMAIN sessions'
           /\ \A i \in Ids : /\ calls'[i] = calls[i] /\ (Lite(i)' <=> Lite(i)) /\ Held(i)' = Held(i)
                             /\ sessions'[calls[i].sess].owner = sessions[calls[i].sess].owner
                             /\ sessions'[calls[i].sess].staged \subseteq sessions[calls[i].sess].staged
                             /\ calls[i].sess \in DOMAIN sessions /\ calls[i].by \in 0 .. i - 1 /\ i # n
           /\ calls'[n] = r /\ r.by = b
<1>1. /\ sessions \in Seq(SessionType) /\ calls \in Seq(CallType)
      /\ \A i \in Ids : calls[i].sess \in DOMAIN sessions /\ calls[i].by \in 0 .. i - 1
  BY DEF Typed
<1>2. /\ n = Len(calls) + 1 /\ Len(calls') = n /\ calls' \in Seq(CallType) /\ \A i \in Ids : calls'[i] = calls[i]
      /\ calls'[n] = r /\ r.by = b /\ b \in 0 .. Len(calls)
      /\ sessions' \in Seq(SessionType) /\ Len(sessions') \in {Len(sessions), Len(sessions) + 1} /\ SessionsStay
  BY DEF Added
<1>3. n \in Nat \ {0} /\ n \notin Ids /\ Ids' = Ids \cup {n} /\ Ids = 1 .. n - 1 /\ b \in 0 .. n - 1 /\ (b # 0 => b \in Ids)
  <2>1. Ids = 1 .. Len(calls) /\ Len(calls) \in Nat /\ Ids' = 1 .. Len(calls')
    BY <1>1, <1>2 DEF Ids
  <2>2. n = Len(calls) + 1 /\ Len(calls') = n /\ b \in 0 .. Len(calls)
    BY <1>2
  <2>3. n \in Nat \ {0} /\ Ids = 1 .. n - 1 /\ Ids' = 1 .. n /\ b \in 0 .. n - 1
    BY <2>1, <2>2
  <2> QED BY <2>3
<1>4. DOMAIN sessions \subseteq DOMAIN sessions'
  BY <1>1, <1>2
<1>5. ASSUME NEW i \in Ids
      PROVE  /\ calls'[i] = calls[i] /\ (Lite(i)' <=> Lite(i)) /\ Held(i)' = Held(i)
             /\ sessions'[calls[i].sess].owner = sessions[calls[i].sess].owner
             /\ sessions'[calls[i].sess].staged \subseteq sessions[calls[i].sess].staged
             /\ calls[i].sess \in DOMAIN sessions /\ calls[i].by \in 0 .. i - 1 /\ i # n
  <2>1. PICK t \in DOMAIN sessions : t = calls[i].sess
    BY <1>1
  <2>2. calls'[i].sess = t
    BY <1>2, <2>1
  <2>3. sessions'[t].lite = sessions[t].lite /\ sessions'[t].owner = sessions[t].owner /\ sessions'[t].snap = sessions[t].snap
        /\ sessions'[t].staged \subseteq sessions[t].staged
    BY <1>2, <2>1 DEF SessionsStay
  <2>4. Lite(i)' <=> Lite(i)
    BY <2>1, <2>2, <2>3 DEF Lite
  <2>5. Held(i)' = Held(i)
    BY <2>1, <2>2, <2>3 DEF Held
  <2> QED BY <1>1, <1>2, <1>3, <2>1, <2>3, <2>4, <2>5
<1> QED BY <1>2, <1>3, <1>4, <1>5

\* What never changes in a call.
LEMMA SameKeeps ==
    ASSUME Typed, Same
    PROVE  /\ Ids' = Ids /\ DOMAIN sessions' = DOMAIN sessions
           /\ \A i \in Ids : /\ (Lite(i)' <=> Lite(i)) /\ sessions'[calls[i].sess].owner = sessions[calls[i].sess].owner
                             /\ calls'[i].kind = calls[i].kind /\ calls'[i].sess = calls[i].sess
                             /\ calls'[i].by = calls[i].by /\ calls'[i].of = calls[i].of /\ calls'[i].above = calls[i].above
                             /\ calls[i].by \in 0 .. i - 1 /\ (calls[i].by # 0 => calls[i].by \in Ids)
                             /\ calls[i].sess \in DOMAIN sessions
<1>1. /\ sessions \in Seq(SessionType) /\ calls \in Seq(CallType)
      /\ \A i \in Ids : calls[i].sess \in DOMAIN sessions /\ calls[i].by \in 0 .. i - 1
  BY DEF Typed
<1>2. /\ calls' \in Seq(CallType) /\ Len(calls') = Len(calls)
      /\ sessions' \in Seq(SessionType) /\ Len(sessions') = Len(sessions)
      /\ \A i \in Ids : /\ calls'[i].kind = calls[i].kind /\ calls'[i].at = calls[i].at /\ calls'[i].sess = calls[i].sess
                        /\ calls'[i].by = calls[i].by /\ calls'[i].of = calls[i].of /\ calls'[i].above = calls[i].above
      /\ \A s \in DOMAIN sessions : sessions'[s].lite = sessions[s].lite /\ sessions'[s].owner = sessions[s].owner
  BY DEF Same
<1>3. Ids' = Ids /\ DOMAIN sessions' = DOMAIN sessions /\ \A i \in Ids : calls[i].by # 0 => calls[i].by \in Ids
  BY <1>1, <1>2 DEF Ids
<1>4. \A i \in Ids : Lite(i)' <=> Lite(i)
  BY <1>1, <1>2 DEF Lite
<1> QED BY <1>1, <1>2, <1>3, <1>4

\* How calls are related is settled when they are added.
LEMMA StaticStays ==
    ASSUME Typed, Static, Unstaged, Steps
    PROVE  Static'
<1>1. Updates /\ Chains /\ Alone /\ \A i \in Ids : Related(i)
  BY DEF Static
<1>2. CASE Same
  <2>1. /\ Ids' = Ids
        /\ \A i \in Ids : /\ (Lite(i)' <=> Lite(i)) /\ sessions'[calls[i].sess].owner = sessions[calls[i].sess].owner
                          /\ calls'[i].kind = calls[i].kind /\ calls'[i].sess = calls[i].sess
                          /\ calls'[i].by = calls[i].by /\ calls'[i].of = calls[i].of /\ calls'[i].above = calls[i].above
                          /\ calls[i].by \in 0 .. i - 1 /\ (calls[i].by # 0 => calls[i].by \in Ids)
    BY <1>2, SameKeeps
  <2>2. Updates'
    BY <1>1, <2>1 DEF Updates
  <2>3. Chains'
    <3>1. ASSUME NEW i \in Ids PROVE Chain(i)'
      <4>1. Chain(i) /\ \A j \in 1 .. i : j \in Ids
        BY <1>1 DEF Chains, Ids, Typed
      <4>2. \A j \in calls[i].above : j \in Ids
        BY <4>1 DEF Chain
      <4> QED BY <2>1, <4>1, <4>2 DEF Chain
    <3> QED BY <2>1, <3>1 DEF Chains
  <2>4. Alone'
    BY <1>1, <2>1 DEF Alone
  <2>5. \A i \in Ids : Related(i)'
    <3>1. ASSUME NEW i \in Ids, calls[i].by # 0 PROVE Related(i)'
      <4>1. PICK b \in Ids : b = calls[i].by
        BY <2>1, <3>1
      <4>2. Related(i) /\ (Lite(b)' <=> Lite(b)) /\ (Lite(i)' <=> Lite(i)) /\ calls'[b].kind = calls[b].kind /\ calls'[i].by = b
        BY <1>1, <2>1, <4>1
      <4> QED BY <2>1, <3>1, <4>1, <4>2 DEF Related
    <3> QED BY <2>1, <3>1 DEF Related
  <2> QED BY <2>1, <2>2, <2>3, <2>4, <2>5 DEF Static
<1>3. ASSUME NEW b, NEW r, Added(Len(calls) + 1, b, r)
      PROVE  Static'
  <2>1. PICK n : n = Len(calls) + 1 /\ Added(n, b, r)
    BY <1>3
  <2>2. /\ n \in Nat \ {0} /\ n \notin Ids /\ Ids' = Ids \cup {n} /\ Ids = 1 .. n - 1 /\ b \in 0 .. n - 1 /\ (b # 0 => b \in Ids)
        /\ \A i \in Ids : /\ calls'[i] = calls[i] /\ (Lite(i)' <=> Lite(i))
                          /\ sessions'[calls[i].sess].owner = sessions[calls[i].sess].owner
                          /\ calls[i].sess \in DOMAIN sessions /\ calls[i].by \in 0 .. i - 1 /\ i # n
        /\ calls'[n] = r /\ r.by = b
    BY <2>1, AddedKeeps
  <2>3. /\ r.kind = "update" => \E o \in Objects : r.of = {o}
        /\ r.above = {n} \cup (IF b = 0 THEN {} ELSE calls[b].above)
        /\ InSession(b, r) /\ CalledBy(b, r)
    BY <2>1 DEF Added
  <2>4. Updates'
    <3>1. ASSUME NEW i \in Ids', calls'[i].kind = "update" PROVE \E o \in Objects : calls'[i].of = {o}
      <4>1. CASE i = n
        BY <2>2, <2>3, <3>1, <4>1
      <4>2. CASE i \in Ids
        BY <1>1, <2>2, <3>1, <4>2 DEF Updates
      <4> QED BY <2>2, <4>1, <4>2
    <3> QED BY <3>1 DEF Updates
  <2>5. \A i \in Ids : Chain(i)'
    <3>1. ASSUME NEW i \in Ids PROVE Chain(i)'
      <4>1. Chain(i) /\ (\A j \in 1 .. i : j \in Ids) /\ (calls[i].by # 0 => calls[i].by \in Ids)
        BY <1>1, <2>2 DEF Chains
      <4>2. \A j \in calls[i].above : j \in Ids
        BY <4>1 DEF Chain
      <4>3. /\ calls'[i] = calls[i] /\ (\A j \in calls[i].above : calls'[j] = calls[j])
            /\ calls[i].by # 0 => calls'[calls[i].by] = calls[calls[i].by]
        BY <2>2, <4>1, <4>2
      <4> QED BY <4>1, <4>3 DEF Chain
    <3> QED BY <3>1
  <2>6. Chain(n)'
    <3>1. CASE b = 0
      BY <2>2, <2>3, <3>1 DEF Chain
    <3>2. CASE b # 0
      <4>1. b \in Ids /\ Chain(b) /\ r.above = {n} \cup calls[b].above /\ b \in calls[b].above /\ calls'[b] = calls[b] /\ b \in 1 .. n - 1
        BY <1>1, <2>2, <2>3, <3>2 DEF Chains, Chain
      <4>2. \A j \in calls[b].above : j \in Ids /\ j \in 1 .. n - 1 /\ calls'[j] = calls[j] /\ calls[j].above \subseteq calls[b].above
        BY <2>2, <4>1 DEF Chain
      <4>3. calls'[n].above = {n} \cup (IF calls'[n].by = 0 THEN {} ELSE calls'[calls'[n].by].above)
        BY <2>2, <4>1
      <4>4. ASSUME NEW j \in calls'[n].above
            PROVE  /\ j \in 1 .. n /\ calls'[j].above \subseteq calls'[n].above
                   /\ j # n => \E k \in calls'[n].above : calls'[k].by = j /\ j \in calls'[k].above
                   /\ \A k \in calls'[n].above : j \in calls'[k].above \/ k \in calls'[j].above
        <5>1. CASE j = n
          BY <2>2, <4>1, <4>2, <5>1
        <5>2. CASE j # n
          <6>1. j \in calls[b].above
            BY <2>2, <4>1, <5>2
          <6>2. j \in 1 .. n /\ calls'[j].above \subseteq calls'[n].above
            BY <2>2, <4>1, <4>2, <6>1
          <6>3. \E k \in calls'[n].above : calls'[k].by = j /\ j \in calls'[k].above
            <7>1. CASE j = b
              BY <2>2, <4>1, <6>1, <7>1
            <7>2. CASE j # b
              <8>1. PICK k \in calls[b].above : calls[k].by = j /\ j \in calls[k].above
                BY <4>1, <6>1, <7>2 DEF Chain
              <8> QED BY <2>2, <4>1, <4>2, <8>1
            <7> QED BY <7>1, <7>2
          <6>4. ASSUME NEW k \in calls'[n].above PROVE j \in calls'[k].above \/ k \in calls'[j].above
            <7>1. CASE k = n
              BY <2>2, <4>1, <6>1, <7>1
            <7>2. CASE k # n
              <8>1. k \in calls[b].above
                BY <2>2, <4>1, <7>2
              <8>2. j \in calls[k].above \/ k \in calls[j].above
                BY <4>1, <6>1, <8>1 DEF Chain
              <8> QED BY <4>2, <6>1, <8>1, <8>2
            <7> QED BY <7>1, <7>2
          <6> QED BY <6>2, <6>3, <6>4
        <5> QED BY <5>1, <5>2
      <4> QED BY <4>3, <4>4 DEF Chain
    <3> QED BY <3>1, <3>2
  <2>7. Alone'
    <3>1. ASSUME NEW i \in Ids', NEW j \in Ids', ~Lite(i)', calls'[j].sess = calls'[i].sess PROVE i = j
      <4>1. CASE i \in Ids /\ j \in Ids
        BY <1>1, <2>2, <3>1, <4>1 DEF Alone
      <4>2. CASE i = n /\ j \in Ids
        <5>1. r.sess = Len(sessions) + 1
          BY <2>2, <2>3, <3>1, <4>2 DEF InSession, Lite
        <5>2. calls[j].sess = r.sess /\ calls[j].sess \in DOMAIN sessions
          BY <2>2, <3>1, <4>2
        <5>3. Len(sessions) + 1 \notin DOMAIN sessions
          BY DEF Typed
        <5> QED BY <5>1, <5>2, <5>3
      <4>3. CASE i \in Ids /\ j = n
        <5>1. r.sess = calls[i].sess /\ r.sess \in DOMAIN sessions
          BY <2>2, <3>1, <4>3
        <5>2. sessions'[r.sess].lite
          BY <2>3, <5>1 DEF InSession, Typed
        <5> QED BY <2>2, <3>1, <4>3, <5>1, <5>2 DEF Lite
      <4> QED BY <2>2, <4>1, <4>2, <4>3
    <3> QED BY <3>1 DEF Alone
  <2>8. \A i \in Ids : Related(i)'
    <3>1. ASSUME NEW i \in Ids, calls[i].by # 0 PROVE Related(i)'
      <4>1. PICK d \in Ids : d = calls[i].by
        BY <2>2, <3>1
      <4>2. Related(i) /\ (Lite(d)' <=> Lite(d)) /\ (Lite(i)' <=> Lite(i)) /\ calls'[d] = calls[d] /\ calls'[i] = calls[i]
            /\ sessions'[calls[i].sess].owner = sessions[calls[i].sess].owner
        BY <1>1, <2>2, <4>1
      <4> QED BY <3>1, <4>1, <4>2 DEF Related
    <3> QED BY <2>2, <3>1 DEF Related
  <2>9. Related(n)'
    <3>1. CASE b # 0
      <4>1. b \in Ids /\ (Lite(b)' <=> Lite(b)) /\ calls'[b] = calls[b]
        BY <2>2, <3>1
      <4>2. /\ (sessions'[r.sess].lite => Lite(b)) /\ r.kind # "background"
            /\ r.kind = "action" => (sessions'[r.sess].owner <=> Lite(b))
            /\ calls[b].kind = "update" => sessions[calls[b].sess].staged # {}
        BY <2>3, <3>1 DEF CalledBy
      <4>3. Lite(b) \/ calls[b].kind # "update"
        BY <4>1, <4>2 DEF Unstaged
      <4>4. Lite(b) /\ ~sessions'[r.sess].lite => r.kind = "action"
        BY <2>3, <3>1 DEF InSession
      <4>5. Lite(n)' <=> sessions'[r.sess].lite
        BY <2>2 DEF Lite
      <4> QED BY <2>2, <4>1, <4>2, <4>3, <4>4, <4>5 DEF Related
    <3> QED BY <2>2, <3>1 DEF Related
  <2> QED BY <2>2, <2>4, <2>5, <2>6, <2>7, <2>8, <2>9 DEF Static, Chains
<1> QED BY <1>2, <1>3, StepsAreTyped

-----------------------------------------------------------------------------
(* Who waits, and what is sent. *)

\* No call waits for an answer that has itself answered.
Waiting == \A i \in Ids : calls[i].by # 0 /\ calls[calls[i].by].pc = "answered" => ~Alive(i)
\* A call sends what its session captured, and a nested action sends nothing.
Sending(i) ==
    /\ Open(i) => calls[i].snap = A!Nothing
    /\ calls[i].pc = "answered" => (~Lite(i) => calls[i].snap = Held(i)) /\ ~(calls[i].kind = "action" /\ calls[i].by # 0)
    /\ calls[i].kind = "update" /\ ~Lite(i) /\ calls[i].pc = "run" => Held(i) = A!Nothing
Flags == \A i \in disturbed : i \in Ids /\ Lite(i)
Sends == Unstaged /\ Waiting /\ Flags /\ \A i \in Ids : Sending(i)

\* Records that are captured for call b are not in the session of another call, unless both are in a lite session.
LEMMA OthersHold ==
    ASSUME Typed, Alone, Same, NEW b \in Ids, NEW recs, Captured(b, recs), NEW i \in Ids, i # b,
           ~Lite(i) \/ calls[i].sess # calls[b].sess
    PROVE  Held(i)' = Held(i)
<1>1. calls[i].sess # calls[b].sess
  BY DEF Alone
<1>2. calls[i].sess \in DOMAIN sessions /\ calls'[i].sess = calls[i].sess
  BY SameKeeps
<1> QED BY <1>1, <1>2 DEF Captured, Held

\* What the session has then: all of it new if it is a lite one.
LEMMA BHolds ==
    ASSUME Typed, Same, NEW b \in Ids, NEW recs, Captured(b, recs)
    PROVE  \A q \in Objects : Held(b)'[q] = IF recs[q] # 0 THEN recs[q] ELSE IF Lite(b) THEN 0 ELSE Held(b)[q]
<1>1. calls'[b].sess = calls[b].sess
  BY SameKeeps
<1> QED BY <1>1 DEF Captured, Held

\* Where only a call has moved, sessions have what they had.
LEMMA MovedKeeps ==
    ASSUME Typed, NEW i \in Ids, NEW pc, NEW snap, Moved(i, pc, snap)
    PROVE  /\ \A j \in Ids : (Lite(j)' <=> Lite(j)) /\ Held(j)' = Held(j) /\ calls'[j].wrote = calls[j].wrote
           /\ \A j \in Ids : j # i => calls'[j] = calls[j]
<1>1. Same /\ SameBut(i) /\ sessions' = sessions /\ calls'[i].wrote = calls[i].wrote
  BY DEF Moved
<1>2. \A j \in Ids : (Lite(j)' <=> Lite(j)) /\ calls'[j].sess = calls[j].sess
  BY <1>1, SameKeeps
<1>3. \A j \in Ids : Held(j)' = Held(j)
  BY <1>1, <1>2 DEF Held
<1> QED BY <1>1, <1>2, <1>3 DEF SameBut

\* An edit captures nothing.
LEMMA EditedKeeps ==
    ASSUME Typed, NEW i \in Ids, Edited(i)
    PROVE  calls' = calls /\ \A j \in Ids : (Lite(j)' <=> Lite(j)) /\ Held(j)' = Held(j)
<1>1. Same /\ calls' = calls /\ \A s \in DOMAIN sessions : sessions'[s].snap = sessions[s].snap
  BY DEF Edited
<1>2. \A j \in Ids : (Lite(j)' <=> Lite(j)) /\ calls[j].sess \in DOMAIN sessions
  BY <1>1, SameKeeps
<1>3. \A j \in Ids : Held(j)' = Held(j)
  BY <1>1, <1>2 DEF Held
<1> QED BY <1>1, <1>2, <1>3

\* The session of an update never has staged objects, for it only stores.
LEMMA UnstagedStays ==
    ASSUME Typed, Static, Unstaged, Steps
    PROVE  Unstaged'
<1>1. ASSUME NEW b, NEW r, Added(Len(calls) + 1, b, r) PROVE Unstaged'
  <2>1. PICK n : n = Len(calls) + 1 /\ Added(n, b, r)
    BY <1>1
  <2>2. /\ Ids' = Ids \cup {n} /\ calls'[n] = r
        /\ \A i \in Ids : /\ calls'[i] = calls[i] /\ (Lite(i)' <=> Lite(i))
                          /\ sessions'[calls[i].sess].staged \subseteq sessions[calls[i].sess].staged
    BY <2>1, AddedKeeps
  <2>3. \A i \in Ids : calls[i].kind = "update" /\ ~Lite(i) => sessions'[calls[i].sess].staged = {}
    BY <2>2 DEF Unstaged
  <2>4. ~Lite(n)' => sessions'[r.sess].staged = {}
    BY <2>1, <2>2 DEF Added, InSession, Lite
  <2> QED BY <2>2, <2>3, <2>4 DEF Unstaged
<1>2. ASSUME Same, \A s \in DOMAIN sessions : sessions'[s].staged = sessions[s].staged
      PROVE  Unstaged'
  <2>1. /\ Ids' = Ids
        /\ \A i \in Ids : /\ (Lite(i)' <=> Lite(i)) /\ calls'[i].kind = calls[i].kind /\ calls'[i].sess = calls[i].sess
                          /\ calls[i].sess \in DOMAIN sessions
    BY <1>2, SameKeeps
  <2> QED BY <1>2, <2>1 DEF Unstaged
<1>3. ASSUME NEW i \in Ids, Edited(i) PROVE Unstaged'
  <2>1. Same /\ calls' = calls /\ calls[i].kind # "update"
        /\ \A s \in DOMAIN sessions : s # calls[i].sess => sessions'[s].staged = sessions[s].staged
    BY <1>3 DEF Edited
  <2>2. Ids' = Ids /\ \A j \in Ids : (Lite(j)' <=> Lite(j)) /\ calls[j].sess \in DOMAIN sessions
    BY <2>1, SameKeeps
  <2>3. \A j \in Ids : calls[j].kind = "update" /\ ~Lite(j) => calls[j].sess # calls[i].sess
    BY <2>1 DEF Static, Alone
  <2> QED BY <2>1, <2>2, <2>3 DEF Unstaged
<1>4. ASSUME NEW i \in Ids, Replied(i) \/ Returned(i) \/ Failed(i) PROVE Unstaged'
  BY <1>2, <1>4 DEF Replied, Returned, Failed, Moved
<1>5. ASSUME NEW i \in Ids, Received(i, calls[i].by) PROVE Unstaged'
  BY <1>2, <1>5 DEF Received
<1>6. ASSUME NEW i \in Ids, NEW o \in Objects, Stored(i, o) PROVE Unstaged'
  <2>1. i # 0
    BY DEF Typed, Ids
  <2> QED BY <1>2, <1>6, <2>1 DEF Stored, Registered, Captured
<1> QED BY <1>1, <1>3, <1>4, <1>5, <1>6 DEF Steps

\* A call answers when those it made have ended, and is asked nothing more.
LEMMA WaitingStays ==
    ASSUME Typed, Waiting, Steps
    PROVE  Waiting'
<1>1. ASSUME NEW b, NEW r, Added(Len(calls) + 1, b, r) PROVE Waiting'
  <2>1. PICK n : n = Len(calls) + 1 /\ Added(n, b, r)
    BY <1>1
  <2>2. /\ Ids' = Ids \cup {n} /\ calls'[n] = r /\ r.by = b /\ Ids = 1 .. n - 1 /\ n \in Nat /\ (b # 0 => b \in Ids)
        /\ \A i \in Ids : calls'[i] = calls[i] /\ calls[i].by \in 0 .. i - 1
    BY <2>1, AddedKeeps
  <2>3. \A i \in Ids : calls[i].by # 0 => calls[i].by \in Ids
    BY <2>2
  <2>4. b # 0 => calls[b].pc # "answered"
    BY <2>1 DEF Added, CalledBy, Open
  <2>5. ASSUME NEW i \in Ids', calls'[i].by # 0, calls'[calls'[i].by].pc = "answered" PROVE calls'[i].pc = "done"
    <3>1. CASE i = n
      <4>1. b # 0 /\ b \in Ids /\ calls'[b] = calls[b] /\ calls'[i].by = b
        BY <2>2, <2>5, <3>1
      <4> QED BY <2>4, <2>5, <4>1
    <3>2. CASE i \in Ids
      <4>1. PICK d \in Ids : d = calls[i].by
        BY <2>2, <2>3, <2>5, <3>2
      <4>2. calls'[i] = calls[i] /\ calls'[d] = calls[d]
        BY <2>2, <3>2
      <4> QED BY <2>5, <3>2, <4>1, <4>2 DEF Waiting, Alive
    <3> QED BY <2>2, <3>1, <3>2
  <2> QED BY <2>5 DEF Waiting, Alive
<1>2. ASSUME Same, NEW i \in Ids, \A j \in Ids : calls'[j].pc = calls[j].pc \/ (j = i /\ calls'[j].pc # "answered" /\ Alive(i))
      PROVE  Waiting'
  <2>1. Ids' = Ids /\ \A j \in Ids : calls'[j].by = calls[j].by /\ (calls[j].by # 0 => calls[j].by \in Ids)
    BY <1>2, SameKeeps
  <2>2. ASSUME NEW j \in Ids, calls[j].by # 0, calls'[calls[j].by].pc = "answered" PROVE calls'[j].pc = "done"
    <3>1. PICK d \in Ids : d = calls[j].by
      BY <2>1, <2>2
    <3>2. calls[d].pc = "answered"
      BY <1>2, <2>2, <3>1
    <3>3. calls[j].pc = "done"
      BY <2>2, <3>1, <3>2 DEF Waiting, Alive
    <3> QED BY <1>2, <3>3 DEF Alive
  <2> QED BY <2>1, <2>2 DEF Waiting, Alive
<1>3. ASSUME NEW i \in Ids, Edited(i) PROVE Waiting'
  BY <1>2, <1>3 DEF Edited
<1>4. ASSUME NEW i \in Ids, Replied(i) PROVE Waiting'
  <2>1. Same /\ calls'[i].pc = "answered" /\ (\A j \in Ids : j # i => calls'[j] = calls[j])
    BY <1>4, MovedKeeps DEF Replied, Moved
  <2>2. \A j \in Ids : calls[j].by = i => ~Alive(j)
    BY <1>4 DEF Replied, A!Ended, A!Children, A!Alive, Alive, Ids
  <2>3. calls[i].by # i
    BY DEF Typed, Ids
  <2>4. Ids' = Ids /\ \A j \in Ids : calls'[j].by = calls[j].by /\ (calls[j].by # 0 => calls[j].by \in Ids)
    BY <2>1, SameKeeps
  <2>5. Alive(i)
    BY <1>4 DEF Replied, A!Ended, Alive
  <2> QED BY <2>1, <2>2, <2>3, <2>4, <2>5 DEF Waiting, Alive
<1>5. ASSUME NEW i \in Ids, Returned(i) \/ Failed(i) PROVE Waiting'
  <2>1. Same /\ calls'[i].pc = "done" /\ (\A j \in Ids : j # i => calls'[j] = calls[j])
    BY <1>5, MovedKeeps DEF Returned, Failed, Moved
  <2>2. Alive(i)
    BY <1>5 DEF Returned, Failed, A!Ended, Alive
  <2> QED BY <1>2, <2>1, <2>2
<1>6. ASSUME NEW i \in Ids, Received(i, calls[i].by) PROVE Waiting'
  <2>1. /\ Same /\ calls'[i].pc = "done" /\ calls[i].pc = "answered" /\ \A j \in Ids : j # i => calls'[j].pc = calls[j].pc
    <3>1. \A j \in Ids : j # i /\ j # calls[i].by => calls'[j] = calls[j]
      BY <1>6 DEF Received
    <3>2. calls[i].by # 0 => calls'[calls[i].by].pc = calls[calls[i].by].pc
      BY <1>6 DEF Received
    <3>3. 0 \notin Ids
      BY DEF Typed, Ids
    <3> QED BY <1>6, <3>1, <3>2, <3>3 DEF Received
  <2> QED BY <1>2, <2>1 DEF Alive
<1>7. ASSUME NEW i \in Ids, NEW o \in Objects, Stored(i, o) PROVE Waiting'
  <2>1. Same /\ calls'[i].pc = "stored" /\ calls[i].pc = "run" /\ \A j \in Ids : j # i => calls'[j] = calls[j]
    BY <1>7 DEF Stored, SameBut
  <2> QED BY <1>2, <2>1 DEF Alive
<1> QED BY <1>1, <1>3, <1>4, <1>5, <1>6, <1>7 DEF Steps

\* Calls that are made in a lite session are made by those in lite sessions only.
LiteAbove == \A i \in Ids : Lite(i) => \A k \in calls[i].above : k \in Ids /\ Lite(k)

\* This never changes either.
LEMMA LiteAboveStays ==
    ASSUME Typed, LiteAbove, Steps
    PROVE  LiteAbove'
<1>1. CASE Same
  <2>1. Ids' = Ids /\ \A i \in Ids : (Lite(i)' <=> Lite(i)) /\ calls'[i].above = calls[i].above
    BY <1>1, SameKeeps
  <2> QED BY <2>1 DEF LiteAbove
<1>2. ASSUME NEW b, NEW r, Added(Len(calls) + 1, b, r) PROVE LiteAbove'
  <2>1. PICK n : n = Len(calls) + 1 /\ Added(n, b, r)
    BY <1>2
  <2>2. /\ Ids' = Ids \cup {n} /\ calls'[n] = r /\ (b # 0 => b \in Ids)
        /\ \A i \in Ids : calls'[i] = calls[i] /\ (Lite(i)' <=> Lite(i))
    BY <2>1, AddedKeeps
  <2>3. \A i \in Ids : Lite(i)' => \A k \in calls'[i].above : k \in Ids' /\ Lite(k)'
    BY <2>2 DEF LiteAbove
  <2>4. ASSUME Lite(n)' PROVE \A k \in calls'[n].above : k \in Ids' /\ Lite(k)'
    <3>1. calls'[n].above = {n} \cup (IF b = 0 THEN {} ELSE calls[b].above) /\ (b # 0 => Lite(b))
      BY <2>1, <2>2, <2>4 DEF Added, CalledBy, Lite
    <3>2. b # 0 => \A k \in calls[b].above : k \in Ids /\ Lite(k)
      BY <2>2, <3>1 DEF LiteAbove
    <3> QED BY <2>2, <2>4, <3>1, <3>2
  <2> QED BY <2>2, <2>3, <2>4 DEF LiteAbove
<1> QED BY <1>1, <1>2, StepsAreTyped

\* What is received, and what is stored, changes the session of one call.
LEMMA NonliteHold ==
    ASSUME Typed, Alone, Same, NEW b \in Ids, NEW recs, Captured(b, recs)
    PROVE  /\ \A i \in Ids : i # b /\ (~Lite(i) \/ ~Lite(b) \/ calls[i].sess # calls[b].sess) => Held(i)' = Held(i)
           /\ \A i \in Ids : i \notin disturbed' => i \notin disturbed \/ i = b
           /\ \A i \in disturbed' : i \in disturbed \/ (i \in Ids /\ Lite(i) /\ Open(i) /\ calls[i].sess = calls[b].sess /\ Lite(b))
           /\ Lite(b) => b \notin disturbed' /\ \A i \in Ids : i # b /\ Open(i) /\ calls[i].sess = calls[b].sess => i \in disturbed'
           /\ ~Lite(b) => disturbed' = disturbed
<1>1. ASSUME NEW i \in Ids, i # b, ~Lite(i) \/ ~Lite(b) \/ calls[i].sess # calls[b].sess PROVE Held(i)' = Held(i)
  <2>1. calls[i].sess # calls[b].sess
    BY <1>1 DEF Alone
  <2> QED BY <1>1, <2>1, OthersHold
<1>2. disturbed' = IF Lite(b) THEN (disturbed \cup {d \in Ids : Open(d) /\ calls[d].sess = calls[b].sess}) \ {b} ELSE disturbed
  BY DEF Captured
<1>3. \A d \in Ids : calls[d].sess = calls[b].sess => (Lite(d) <=> Lite(b))
  BY DEF Lite
<1>4. CASE Lite(b)
  BY <1>1, <1>2, <1>3, <1>4
<1>5. CASE ~Lite(b)
  BY <1>1, <1>2, <1>5
<1> QED BY <1>4, <1>5

\* The call that has answered, and its caller.
LEMMA AnswerIsReceived ==
    ASSUME Typed, Static, Sends, NEW i \in Ids, NEW b, Received(i, b)
    PROVE  /\ Same /\ calls[i].pc = "answered" /\ b = calls[i].by /\ i # b /\ (b # 0 => b \in Ids)
           /\ \A j \in Ids : /\ j # i => calls'[j].pc = calls[j].pc
                             /\ calls'[j].snap = calls[j].snap
                             /\ j # b => calls'[j].wrote = calls[j].wrote
           /\ calls'[i].pc = "done"
           /\ b # 0 => calls[b].pc # "answered" /\ (Lite(i) <=> Lite(b))
           /\ b # 0 /\ ~Lite(b) => calls[b].kind # "update"
           /\ ~Lite(i) => i \notin disturbed /\ calls[i].snap = Held(i)
<1>1. /\ Same /\ calls[i].pc = "answered" /\ b = calls[i].by
      /\ \A j \in Ids : j # i /\ j # b => calls'[j] = calls[j]
      /\ calls'[i].pc = "done" /\ calls'[i].snap = calls[i].snap /\ calls'[i].wrote = calls[i].wrote
      /\ b # 0 => calls'[b].pc = calls[b].pc /\ calls'[b].snap = calls[b].snap
  BY DEF Received
<1>2. i # b /\ (b # 0 => b \in Ids) /\ 0 \notin Ids
  BY <1>1, SameKeeps DEF Typed, Ids
<1>3. ASSUME b # 0 PROVE calls[b].pc # "answered"
  <2>1. Alive(i)
    BY <1>1 DEF Alive
  <2> QED BY <1>1, <1>3, <2>1 DEF Sends, Waiting
<1>4. ASSUME b # 0 PROVE (Lite(i) <=> Lite(b)) /\ (~Lite(b) => calls[b].kind # "update")
  <2>1. Related(i) /\ Sending(i)
    BY DEF Static, Sends
  <2>2. calls[i].kind # "action"
    BY <1>1, <1>4, <2>1 DEF Sending
  <2> QED BY <1>1, <1>4, <2>1, <2>2 DEF Related
<1>5. ASSUME ~Lite(i) PROVE i \notin disturbed /\ calls[i].snap = Held(i)
  <2>1. Flags /\ Sending(i)
    BY DEF Sends
  <2> QED BY <1>1, <1>5, <2>1 DEF Flags, Sending
<1> QED BY <1>1, <1>2, <1>3, <1>4, <1>5

\* Only lite sessions are reset.
LEMMA FlagsStay ==
    ASSUME Typed, Static, Flags, Steps
    PROVE  Flags'
<1>1. ASSUME NEW b, NEW r, Added(Len(calls) + 1, b, r) PROVE Flags'
  <2>1. PICK n : n = Len(calls) + 1 /\ Added(n, b, r)
    BY <1>1
  <2>2. Ids' = Ids \cup {n} /\ (\A i \in Ids : Lite(i)' <=> Lite(i)) /\ disturbed' = disturbed
    BY <2>1, AddedKeeps DEF Added, SameRecords
  <2> QED BY <2>2 DEF Flags
<1>2. ASSUME Same, disturbed' = disturbed PROVE Flags'
  BY <1>2, SameKeeps DEF Flags
<1>3. ASSUME Same, NEW b \in Ids, NEW recs, Captured(b, recs) PROVE Flags'
  <2>1. \A i \in disturbed' : i \in disturbed \/ (i \in Ids /\ Lite(i))
    BY <1>3, NonliteHold DEF Static
  <2>2. Ids' = Ids /\ \A i \in Ids : Lite(i)' <=> Lite(i)
    BY <1>3, SameKeeps
  <2> QED BY <2>1, <2>2 DEF Flags
<1>4. ASSUME NEW i \in Ids, Edited(i) \/ Replied(i) \/ Returned(i) \/ Failed(i) PROVE Flags'
  BY <1>2, <1>4 DEF Edited, Replied, Returned, Failed, Moved, SameRecords
<1>5. ASSUME NEW i \in Ids, Received(i, calls[i].by) PROVE Flags'
  <2>1. PICK b : b = calls[i].by
    OBVIOUS
  <2>2. Same /\ (b # 0 => b \in Ids)
    BY <1>5, <2>1, SameKeeps DEF Received
  <2>3. disturbed' = disturbed \/ (b # 0 /\ Captured(b, calls[i].snap))
    BY <1>5, <2>1 DEF Received, Registered
  <2> QED BY <1>2, <1>3, <2>2, <2>3
<1>6. ASSUME NEW i \in Ids, NEW o \in Objects, Stored(i, o) PROVE Flags'
  <2>1. i # 0 /\ Same
    BY <1>6 DEF Typed, Ids, Stored
  <2>2. \E recs : Captured(i, recs)
    BY <1>6, <2>1 DEF Stored, Registered
  <2> QED BY <1>3, <2>1, <2>2
<1> QED BY <1>1, <1>4, <1>5, <1>6 DEF Steps

\* An answer has what the session captured until then, and the session captures no more.
LEMMA SendingStays ==
    ASSUME Typed, Static, Sends, Steps
    PROVE  \A j \in Ids' : Sending(j)'
<1>1. \A j \in Ids : Sending(j)
  BY DEF Sends
<1>2. ASSUME NEW b, NEW r, Added(Len(calls) + 1, b, r) PROVE \A j \in Ids' : Sending(j)'
  <2>1. PICK n : n = Len(calls) + 1 /\ Added(n, b, r)
    BY <1>2
  <2>2. /\ Ids' = Ids \cup {n} /\ calls'[n] = r
        /\ \A i \in Ids : calls'[i] = calls[i] /\ (Lite(i)' <=> Lite(i)) /\ Held(i)' = Held(i)
    BY <2>1, AddedKeeps
  <2>3. \A j \in Ids : Sending(j)'
    BY <1>1, <2>2 DEF Sending, Open
  <2>4. Sending(n)'
    <3>1. r.pc = "run" /\ r.snap = A!Nothing /\ (~sessions'[r.sess].lite => sessions'[r.sess].snap = A!Nothing)
      BY <2>1 DEF Added, InSession
    <3> QED BY <2>2, <3>1 DEF Sending, Lite, Held
  <2> QED BY <2>2, <2>3, <2>4
<1>3. ASSUME NEW i \in Ids, Edited(i) PROVE \A j \in Ids' : Sending(j)'
  <2>1. calls' = calls /\ \A j \in Ids : (Lite(j)' <=> Lite(j)) /\ Held(j)' = Held(j)
    BY <1>3, EditedKeeps
  <2> QED BY <1>1, <2>1 DEF Sending, Open, Ids
<1>4. ASSUME NEW i \in Ids, NEW pc, NEW snap, Moved(i, pc, snap), pc = "done" \/ (Replied(i) /\ pc = "answered" /\ snap = Held(i))
      PROVE  \A j \in Ids' : Sending(j)'
  <2>1. /\ \A j \in Ids : (Lite(j)' <=> Lite(j)) /\ Held(j)' = Held(j)
        /\ \A j \in Ids : j # i => calls'[j] = calls[j]
    BY <1>4, MovedKeeps
  <2>2. Ids' = Ids /\ calls'[i].kind = calls[i].kind /\ calls'[i].by = calls[i].by /\ calls'[i].pc = pc /\ calls'[i].snap = snap
    BY <1>4, SameKeeps DEF Moved
  <2>3. \A j \in Ids : j # i => Sending(j)'
    BY <1>1, <2>1 DEF Sending, Open
  <2>4. Sending(i)'
    <3>1. CASE pc = "done"
      BY <2>2, <3>1 DEF Sending, Open
    <3>2. CASE Replied(i) /\ pc = "answered" /\ snap = Held(i)
      <4>1. ~(calls[i].kind = "action" /\ calls[i].by # 0)
        BY <3>2 DEF Replied, A!Nested
      <4> QED BY <2>1, <2>2, <3>2, <4>1 DEF Sending, Open
    <3> QED BY <1>4, <3>1, <3>2
  <2> QED BY <2>2, <2>3, <2>4
<1>5. ASSUME NEW i \in Ids, Replied(i) \/ Returned(i) \/ Failed(i) PROVE \A j \in Ids' : Sending(j)'
  BY <1>4, <1>5 DEF Replied, Returned, Failed
<1>6. ASSUME Same, NEW i \in Ids,
             \A j \in Ids : ~Lite(j) /\ Held(j)' # Held(j) => calls[j].pc # "answered" /\ (calls[j].kind # "update" \/ j = i),
             \A j \in Ids : calls'[j].snap = calls[j].snap /\ (j # i => calls'[j].pc = calls[j].pc),
             calls'[i].pc = "done" \/ (calls[i].pc = "run" /\ calls'[i].pc = "stored")
      PROVE  \A j \in Ids' : Sending(j)'
  <2>1. Ids' = Ids /\ \A j \in Ids : (Lite(j)' <=> Lite(j)) /\ calls'[j].kind = calls[j].kind /\ calls'[j].by = calls[j].by
    BY <1>6, SameKeeps
  <2>2. ASSUME NEW j \in Ids PROVE Sending(j)'
    <3>1. CASE j = i
      BY <1>1, <1>6, <2>1, <3>1 DEF Sending, Open
    <3>2. CASE j # i /\ (Lite(j) \/ Held(j)' = Held(j))
      <4>1. calls'[j].snap = calls[j].snap /\ calls'[j].pc = calls[j].pc /\ Sending(j)
        BY <1>1, <1>6, <3>2
      <4> QED BY <2>1, <3>2, <4>1 DEF Sending, Open
    <3>3. CASE j # i /\ ~Lite(j) /\ Held(j)' # Held(j)
      <4>1. calls'[j].snap = calls[j].snap /\ calls'[j].pc = calls[j].pc /\ Sending(j) /\ calls[j].pc # "answered" /\ calls[j].kind # "update"
        BY <1>1, <1>6, <3>3
      <4> QED BY <2>1, <3>3, <4>1 DEF Sending, Open
    <3> QED BY <3>1, <3>2, <3>3
  <2> QED BY <2>1, <2>2
<1>7. ASSUME NEW i \in Ids, Received(i, calls[i].by) PROVE \A j \in Ids' : Sending(j)'
  <2>1. PICK b : b = calls[i].by /\ Received(i, b)
    BY <1>7
  <2>2. /\ Same /\ (b # 0 => b \in Ids) /\ calls'[i].pc = "done"
        /\ \A j \in Ids : (j # i => calls'[j].pc = calls[j].pc) /\ calls'[j].snap = calls[j].snap
        /\ b # 0 => calls[b].pc # "answered" /\ (~Lite(b) => calls[b].kind # "update")
    BY <2>1, AnswerIsReceived
  <2>3. sessions' = sessions \/ (b # 0 /\ Captured(b, calls[i].snap))
    BY <2>1 DEF Received, Registered
  <2>4. \A j \in Ids : ~Lite(j) /\ Held(j)' # Held(j) => j = b
    <3>1. CASE sessions' = sessions
      BY <2>2, <3>1, SameKeeps DEF Held
    <3>2. CASE b # 0 /\ Captured(b, calls[i].snap)
      BY <2>2, <3>2, NonliteHold DEF Static
    <3> QED BY <2>3, <3>1, <3>2
  <2>5. \A j \in Ids : ~Lite(j) /\ Held(j)' # Held(j) => calls[j].pc # "answered" /\ (calls[j].kind # "update" \/ j = i)
    BY <2>2, <2>4 DEF Typed, Ids
  <2> QED BY <1>6, <2>2, <2>5
<1>8. ASSUME NEW i \in Ids, NEW o \in Objects, Stored(i, o) PROVE \A j \in Ids' : Sending(j)'
  <2>1. i # 0 /\ Same /\ calls[i].pc = "run" /\ calls'[i].pc = "stored" /\ calls'[i].snap = calls[i].snap
        /\ \A j \in Ids : j # i => calls'[j] = calls[j]
    BY <1>8 DEF Typed, Ids, Stored, SameBut
  <2>2. PICK recs : Captured(i, recs)
    BY <1>8, <2>1 DEF Stored, Registered
  <2>3. \A j \in Ids : ~Lite(j) /\ Held(j)' # Held(j) => calls[j].pc # "answered" /\ (calls[j].kind # "update" \/ j = i)
    BY <2>1, <2>2, NonliteHold DEF Static
  <2> QED BY <1>6, <2>1, <2>3
<1> QED BY <1>2, <1>3, <1>5, <1>7, <1>8 DEF Steps

\* All of it together.
LEMMA SendsStay ==
    ASSUME Typed, Static, Sends, Steps
    PROVE  Sends'
<1>1. Unstaged /\ Waiting /\ Flags
  BY DEF Sends
<1>2. Unstaged' /\ Waiting' /\ Flags'
  BY <1>1, UnstagedStays, WaitingStays, FlagsStay
<1> QED BY <1>2, SendingStays DEF Sends

-----------------------------------------------------------------------------
(* The versions that are kept and sent. *)

Versions ==
    \A o \in Objects : /\ stored[o] \in Nat
                       /\ \A p \in Processes : heard[p][o] \in Nat
                       /\ \A s \in DOMAIN sessions : sessions[s].snap[o] \in Nat
                       /\ \A i \in Ids : calls[i].snap[o] \in Nat /\ calls[i].wrote[o] \in Nat /\ Held(i)[o] \in Nat

\* Versions are numbers.
LEMMA AreVersions ==
    ASSUME Typed
    PROVE  Versions
<1>1. /\ stored \in Records /\ heard \in [Processes -> Records]
      /\ \A s \in DOMAIN sessions : sessions[s] \in SessionType
      /\ \A i \in Ids : calls[i] \in CallType /\ calls[i].sess \in DOMAIN sessions
  BY DEF Typed, Ids
<1>2. \A s \in DOMAIN sessions : sessions[s].snap \in Records
  BY <1>1 DEF SessionType
<1>3. \A i \in Ids : calls[i].snap \in Records /\ calls[i].wrote \in Records /\ Held(i) \in Records
  BY <1>1, <1>2 DEF CallType, Held
<1> QED BY <1>1, <1>2, <1>3 DEF Records, Versions

\* No record is newer than the one that is stored.
AtMost(recs) == \A o \in Objects : recs[o] <= stored[o]
Bounded ==
    /\ \A p \in Processes : AtMost(heard[p])
    /\ \A s \in DOMAIN sessions : AtMost(sessions[s].snap)
    /\ \A i \in Ids : AtMost(calls[i].snap) /\ AtMost(calls[i].wrote)

\* Each record was stored once, and versions of the stored ones grow.
LEMMA BoundedStays ==
    ASSUME Typed, Static, Sends, Bounded, Steps
    PROVE  Bounded'
<1>1. Versions /\ Versions'
  <2>1. Typed'
    BY StepsAreTyped
  <2>2. Typed' => Versions'
    BY AreVersions, PTL
  <2> QED BY <2>1, <2>2, AreVersions
<1>2. ASSUME Same, stored' = stored, heard' = heard, \A s \in DOMAIN sessions : sessions'[s].snap = sessions[s].snap,
             \A i \in Ids : AtMost(calls'[i].snap) /\ AtMost(calls'[i].wrote)
      PROVE  Bounded'
  <2>1. Ids' = Ids /\ DOMAIN sessions' = DOMAIN sessions
    BY <1>2, SameKeeps
  <2> QED BY <1>2, <2>1 DEF Bounded, AtMost
<1>3. ASSUME NEW b, NEW r, Added(Len(calls) + 1, b, r) PROVE Bounded'
  <2>1. PICK n : n = Len(calls) + 1 /\ Added(n, b, r)
    BY <1>3
  <2>2. /\ Ids' = Ids \cup {n} /\ calls'[n] = r /\ \A i \in Ids : calls'[i] = calls[i]
    BY <2>1, AddedKeeps
  <2>3. r.snap = A!Nothing /\ r.wrote = A!Nothing /\ stored' = stored /\ heard' = heard
    BY <2>1 DEF Added, SameRecords
  <2>4. AtMost(A!Nothing)
    BY <1>1, NothingIsRecords DEF AtMost, Versions
  <2>5. \A s \in DOMAIN sessions' : AtMost(sessions'[s].snap)
    <3>1. ASSUME NEW s \in DOMAIN sessions' PROVE AtMost(sessions'[s].snap)
      <4>1. CASE s \in DOMAIN sessions
        BY <2>1, <4>1 DEF Added, SessionsStay, Bounded
      <4>2. CASE s \notin DOMAIN sessions
        <5>1. s = Len(sessions) + 1 /\ Len(sessions') # Len(sessions)
          BY <2>1, <4>2 DEF Added, Typed
        <5>2. sessions'[s].snap = A!Nothing
          BY <2>1, <5>1 DEF Added, InSession
        <5> QED BY <2>4, <5>2
      <4> QED BY <4>1, <4>2
    <3> QED BY <3>1
  <2>6. \A i \in Ids' : AtMost(calls'[i].snap) /\ AtMost(calls'[i].wrote)
    BY <2>2, <2>3, <2>4 DEF Bounded
  <2> QED BY <2>3, <2>5, <2>6 DEF Bounded, AtMost
<1>4. ASSUME NEW i \in Ids, Edited(i) PROVE Bounded'
  BY <1>2, <1>4 DEF Edited, SameRecords, Bounded
<1>5. ASSUME NEW i \in Ids, NEW pc, NEW snap, Moved(i, pc, snap), AtMost(snap) PROVE Bounded'
  <2>1. \A j \in Ids : AtMost(calls'[j].snap) /\ AtMost(calls'[j].wrote)
    <3>1. \A j \in Ids : j # i => calls'[j] = calls[j]
      BY <1>5, MovedKeeps
    <3> QED BY <1>5, <3>1 DEF Moved, Bounded
  <2> QED BY <1>2, <1>5, <2>1 DEF Moved
<1>6. ASSUME NEW i \in Ids, Replied(i) \/ Returned(i) \/ Failed(i) PROVE Bounded'
  <2>1. AtMost(calls[i].snap) /\ AtMost(Held(i))
    BY DEF Bounded, Held, Typed
  <2> QED BY <1>5, <1>6, <2>1 DEF Replied, Returned, Failed
<1>7. ASSUME Same, NEW b \in 0 .. Len(calls), NEW p \in Processes, NEW recs, Registered(b, p, recs),
             \A o \in Objects : recs[o] \in Nat /\ recs[o] <= stored'[o] /\ stored[o] <= stored'[o],
             \A j \in Ids, o \in Objects : calls'[j].snap[o] <= stored'[o] /\ calls'[j].wrote[o] <= stored'[o]
      PROVE  Bounded'
  <2>1. Ids' = Ids /\ DOMAIN sessions' = DOMAIN sessions
    BY <1>7, SameKeeps
  <2>2. ASSUME NEW r \in Processes, NEW o \in Objects PROVE heard'[r][o] <= stored'[o]
    <3>1. heard[r][o] <= stored[o] /\ heard[r][o] \in Nat /\ stored[o] \in Nat /\ stored'[o] \in Nat
      BY <1>1 DEF Versions, Bounded, AtMost
    <3>2. CASE r = p
      <4>1. heard'[r][o] = IF recs[o] # 0 THEN recs[o] ELSE heard[r][o]
        BY <1>7, <3>2 DEF Registered
      <4> QED BY <1>7, <3>1, <4>1
    <3>3. CASE r # p
      <4>1. heard'[r] = heard[r]
        BY <1>7, <3>3 DEF Registered
      <4> QED BY <1>7, <3>1, <4>1
    <3> QED BY <3>2, <3>3
  <2>3. ASSUME NEW s \in DOMAIN sessions, NEW o \in Objects PROVE sessions'[s].snap[o] <= stored'[o]
    <3>1. sessions[s].snap[o] <= stored[o] /\ sessions[s].snap[o] \in Nat /\ stored[o] \in Nat /\ stored'[o] \in Nat
      BY <1>1 DEF Versions, Bounded, AtMost
    <3>2. CASE sessions'[s].snap = sessions[s].snap
      BY <1>7, <3>1, <3>2
    <3>3. CASE b # 0 /\ s = calls[b].sess
      <4>1. sessions'[s].snap[o] = IF recs[o] # 0 THEN recs[o] ELSE IF Lite(b) THEN 0 ELSE sessions[s].snap[o]
        BY <1>7, <3>3 DEF Registered, Captured, Held
      <4> QED BY <1>7, <3>1, <4>1
    <3> QED BY <1>7, <3>2, <3>3 DEF Registered, Captured
  <2> QED BY <1>7, <2>1, <2>2, <2>3 DEF Bounded, AtMost
<1>8. ASSUME NEW i \in Ids, Received(i, calls[i].by) PROVE Bounded'
  <2>1. PICK b : b = calls[i].by /\ Received(i, b)
    BY <1>8
  <2>2. /\ Same /\ (b # 0 => b \in Ids) /\ stored' = stored
        /\ \A j \in Ids : calls'[j].snap = calls[j].snap /\ (j # b => calls'[j].wrote = calls[j].wrote)
    BY <2>1, AnswerIsReceived DEF Received
  <2>3. b \in 0 .. Len(calls)
    BY <2>2 DEF Typed, Ids
  <2>4. CASE sessions' = sessions /\ heard' = heard /\ (b # 0 => calls'[b].wrote = calls[b].wrote)
    <3>1. \A j \in Ids : calls'[j].wrote = calls[j].wrote
      BY <2>2, <2>4 DEF Typed, Ids
    <3> QED BY <1>2, <2>2, <2>4, <3>1 DEF Bounded
  <2>5. CASE /\ \E p \in Processes : Registered(b, p, calls[i].snap)
             /\ b # 0 => \A q \in Objects : calls'[b].wrote[q] = NewWrote(i, b, q)
    <3>1. \A j \in Ids, o \in Objects : /\ calls[j].wrote[o] <= stored[o] /\ calls[j].snap[o] <= stored[o]
                                        /\ calls[j].wrote[o] \in Nat /\ calls[j].snap[o] \in Nat /\ stored[o] \in Nat
      BY <1>1 DEF Versions, Bounded, AtMost
    <3>2. b # 0 => \A o \in Objects : calls'[b].wrote[o] <= stored[o]
      <4>1. ASSUME b # 0, NEW o \in Objects PROVE calls'[b].wrote[o] <= stored[o]
        <5>1. calls'[b].wrote[o] \in {0, calls[i].wrote[o], calls[b].wrote[o]}
          BY <2>5, <4>1 DEF NewWrote
        <5> QED BY <2>2, <3>1, <4>1, <5>1
      <4> QED BY <4>1
    <3>3. \A j \in Ids, o \in Objects : calls'[j].snap[o] <= stored[o] /\ calls'[j].wrote[o] <= stored[o]
      <4>1. ASSUME NEW j \in Ids, NEW o \in Objects PROVE calls'[j].snap[o] <= stored[o] /\ calls'[j].wrote[o] <= stored[o]
        <5>1. j # 0
          BY DEF Typed, Ids
        <5>2. CASE j = b
          BY <2>2, <3>1, <3>2, <5>1, <5>2
        <5>3. CASE j # b
          BY <2>2, <3>1, <5>3
        <5> QED BY <5>2, <5>3
      <4> QED BY <2>2, <4>1
    <3>4. PICK p \in Processes : Registered(b, p, calls[i].snap)
      BY <2>5
    <3> QED BY <1>7, <2>2, <2>3, <3>1, <3>3, <3>4
  <2> QED BY <2>1, <2>4, <2>5 DEF Received
<1>9. ASSUME NEW i \in Ids, NEW o \in Objects, Stored(i, o) PROVE Bounded'
  <2>1. /\ Same /\ (\A j \in Ids : j # i => calls'[j] = calls[j]) /\ calls'[i].snap = calls[i].snap
        /\ \A q \in Objects : calls'[i].wrote[q] = IF q = o THEN stored[o] + 1 ELSE 0
        /\ \A q \in Objects : stored'[q] = IF q = o THEN stored[o] + 1 ELSE stored[q]
    BY <1>9 DEF Stored, SameBut
  <2>2. PICK recs : (\A q \in Objects : recs[q] = IF q = o THEN stored[o] + 1 ELSE 0) /\ Registered(i, A!Home, recs)
    BY <1>9 DEF Stored
  <2>3. \A q \in Objects : stored[q] \in Nat /\ stored'[q] \in Nat
    BY <1>1 DEF Versions
  <2>4. \A q \in Objects : recs[q] \in Nat /\ recs[q] <= stored'[q] /\ stored[q] <= stored'[q]
    BY <2>1, <2>2, <2>3
  <2>5. ASSUME NEW j \in Ids, NEW q \in Objects PROVE calls'[j].snap[q] <= stored'[q] /\ calls'[j].wrote[q] <= stored'[q]
    <3>1. /\ calls[j].wrote[q] <= stored[q] /\ calls[j].snap[q] <= stored[q]
          /\ calls[j].wrote[q] \in Nat /\ calls[j].snap[q] \in Nat
      BY <1>1 DEF Versions, Bounded, AtMost
    <3> QED BY <2>1, <2>3, <3>1
  <2>6. i \in 0 .. Len(calls) /\ A!Home \in Processes
    BY ServersExist DEF Typed, Ids, Processes
  <2> QED BY <1>7, <2>1, <2>2, <2>4, <2>5, <2>6
<1> QED BY <1>3, <1>4, <1>6, <1>8, <1>9 DEF Steps

\* A transaction's session has records of those objects that were changed for its call.
Zero(i) == ~Lite(i) => \A q \in Objects : Held(i)[q] = 0 <=> calls[i].wrote[q] = 0
Zeros == \A i \in Ids : Zero(i)

\* A transaction captures what its calls send, and each of them sends what was changed for it.
LEMMA ZerosStay ==
    ASSUME Typed, Static, Sends, Zeros, Steps
    PROVE  Zeros'
<1>1. ASSUME NEW b, NEW r, Added(Len(calls) + 1, b, r) PROVE Zeros'
  <2>1. PICK n : n = Len(calls) + 1 /\ Added(n, b, r)
    BY <1>1
  <2>2. /\ Ids' = Ids \cup {n} /\ calls'[n] = r
        /\ \A i \in Ids : calls'[i] = calls[i] /\ (Lite(i)' <=> Lite(i)) /\ Held(i)' = Held(i)
    BY <2>1, AddedKeeps
  <2>3. \A i \in Ids : Zero(i)'
    BY <2>2 DEF Zeros, Zero
  <2>4. Zero(n)'
    <3>1. r.wrote = A!Nothing /\ (~sessions'[r.sess].lite => sessions'[r.sess].snap = A!Nothing)
      BY <2>1 DEF Added, InSession
    <3> QED BY <2>2, <3>1 DEF Zero, Lite, Held
  <2> QED BY <2>2, <2>3, <2>4 DEF Zeros
<1>2. ASSUME NEW i \in Ids, Edited(i) PROVE Zeros'
  BY <1>2, EditedKeeps DEF Zeros, Zero, Ids
<1>3. ASSUME NEW i \in Ids, NEW pc, NEW snap, Moved(i, pc, snap) PROVE Zeros'
  <2>1. Ids' = Ids
    BY <1>3, SameKeeps DEF Moved
  <2> QED BY <1>3, <2>1, MovedKeeps DEF Zeros, Zero
<1>4. ASSUME NEW i \in Ids, Replied(i) \/ Returned(i) \/ Failed(i) PROVE Zeros'
  BY <1>3, <1>4 DEF Replied, Returned, Failed
<1>5. ASSUME NEW i \in Ids, Received(i, calls[i].by) PROVE Zeros'
  <2>1. PICK b : b = calls[i].by /\ Received(i, b)
    BY <1>5
  <2>2. /\ Same /\ (b # 0 => b \in Ids) /\ i # b
        /\ \A j \in Ids : j # b => calls'[j].wrote = calls[j].wrote
        /\ b # 0 => (Lite(i) <=> Lite(b))
        /\ ~Lite(i) => i \notin disturbed /\ calls[i].snap = Held(i)
    BY <2>1, AnswerIsReceived
  <2>3. Ids' = Ids /\ (\A j \in Ids : (Lite(j)' <=> Lite(j)) /\ calls'[j].sess = calls[j].sess) /\ 0 \notin Ids
    BY <2>2, SameKeeps DEF Typed, Ids
  <2>4. CASE sessions' = sessions /\ (b # 0 => calls'[b].wrote = calls[b].wrote)
    <3>1. \A j \in Ids : Held(j)' = Held(j) /\ calls'[j].wrote = calls[j].wrote
      BY <2>2, <2>3, <2>4 DEF Held
    <3> QED BY <2>3, <3>1 DEF Zeros, Zero
  <2>5. CASE b # 0 /\ Captured(b, calls[i].snap) /\ \A q \in Objects : calls'[b].wrote[q] = NewWrote(i, b, q)
    <3>1. \A j \in Ids : j # b /\ ~Lite(j) => Held(j)' = Held(j)
      BY <2>2, <2>5, NonliteHold DEF Static
    <3>2. \A j \in Ids : j # b => Zero(j)'
      BY <2>2, <2>3, <3>1 DEF Zeros, Zero
    <3>3. ASSUME ~Lite(b), NEW q \in Objects PROVE Held(b)'[q] = 0 <=> calls'[b].wrote[q] = 0
      <4>1. Held(b)'[q] = IF Held(i)[q] # 0 THEN Held(i)[q] ELSE Held(b)[q]
        BY <2>2, <2>5, <3>3, BHolds
      <4>2. calls'[b].wrote[q] = IF calls[i].wrote[q] > calls[b].wrote[q] THEN calls[i].wrote[q] ELSE calls[b].wrote[q]
        BY <2>2, <2>5, <3>3 DEF NewWrote
      <4>3. (Held(i)[q] = 0 <=> calls[i].wrote[q] = 0) /\ (Held(b)[q] = 0 <=> calls[b].wrote[q] = 0)
        BY <2>2, <2>5, <3>3 DEF Zeros, Zero
      <4>4. calls[i].wrote[q] \in Nat /\ calls[b].wrote[q] \in Nat
        BY <2>2, <2>5, AreVersions DEF Versions
      <4> QED BY <4>1, <4>2, <4>3, <4>4
    <3>4. Zero(b)'
      BY <2>2, <2>3, <2>5, <3>3 DEF Zero
    <3> QED BY <2>3, <3>2, <3>4 DEF Zeros
  <2>6. CASE b = 0
    <3>1. sessions' = sessions
      BY <2>1, <2>6 DEF Received, Registered
    <3> QED BY <2>4, <2>6, <3>1
  <2> QED BY <2>1, <2>4, <2>5, <2>6 DEF Received, Registered
<1>6. ASSUME NEW i \in Ids, NEW o \in Objects, Stored(i, o) PROVE Zeros'
  <2>1. /\ Same /\ (\A j \in Ids : j # i => calls'[j] = calls[j]) /\ i # 0
        /\ \A q \in Objects : calls'[i].wrote[q] = IF q = o THEN stored[o] + 1 ELSE 0
    BY <1>6 DEF Stored, SameBut, Typed, Ids
  <2>2. PICK recs : (\A q \in Objects : recs[q] = IF q = o THEN stored[o] + 1 ELSE 0) /\ Captured(i, recs)
    BY <1>6, <2>1 DEF Stored, Registered
  <2>3. Ids' = Ids /\ (\A j \in Ids : (Lite(j)' <=> Lite(j)))
    BY <2>1, SameKeeps
  <2>4. \A j \in Ids : j # i /\ ~Lite(j) => Held(j)' = Held(j)
    BY <2>1, <2>2, NonliteHold DEF Static
  <2>5. \A j \in Ids : j # i => Zero(j)'
    BY <2>1, <2>3, <2>4 DEF Zeros, Zero
  <2>6. ASSUME ~Lite(i), NEW q \in Objects PROVE Held(i)'[q] = 0 <=> calls'[i].wrote[q] = 0
    <3>1. Held(i) = A!Nothing
      BY <1>6, <2>6 DEF Sends, Sending, Stored
    <3>2. Held(i)'[q] = IF recs[q] # 0 THEN recs[q] ELSE Held(i)[q]
      BY <2>1, <2>2, <2>6, BHolds
    <3>3. Held(i)[q] = 0
      BY <3>1, NothingIsRecords
    <3> QED BY <2>1, <2>2, <3>2, <3>3
  <2>7. Zero(i)'
    BY <2>3, <2>6 DEF Zero
  <2> QED BY <2>3, <2>5, <2>7 DEF Zeros
<1> QED BY <1>1, <1>2, <1>4, <1>5, <1>6 DEF Steps

\* A call in a lite session sends the records that were changed for it, unless the session was reset for another call.
LiteSend(i) ==
    Lite(i) /\ i \notin disturbed =>
        \A q \in Objects : /\ Open(i) => Held(i)[q] >= calls[i].wrote[q]
                           /\ calls[i].pc = "answered" => calls[i].snap[q] >= calls[i].wrote[q]
LiteSends == \A i \in Ids : LiteSend(i)

\* A lite session is reset by each call that comes back, and then has just the records of that call.
LEMMA LiteSendsStay ==
    ASSUME Typed, Static, Sends, LiteSends, Steps
    PROVE  LiteSends'
<1>0. Versions /\ Versions'
  <2>1. Typed'
    BY StepsAreTyped
  <2>2. Typed' => Versions'
    BY AreVersions, PTL
  <2> QED BY <2>1, <2>2, AreVersions
<1>1. ASSUME NEW b, NEW r, Added(Len(calls) + 1, b, r) PROVE LiteSends'
  <2>1. PICK n : n = Len(calls) + 1 /\ Added(n, b, r)
    BY <1>1
  <2>2. /\ Ids' = Ids \cup {n} /\ calls'[n] = r
        /\ \A i \in Ids : calls'[i] = calls[i] /\ (Lite(i)' <=> Lite(i)) /\ Held(i)' = Held(i)
    BY <2>1, AddedKeeps
  <2>3. r.wrote = A!Nothing /\ r.pc = "run" /\ disturbed' = disturbed
    BY <2>1 DEF Added, SameRecords
  <2>4. \A i \in Ids : LiteSend(i)'
    BY <2>2, <2>3 DEF LiteSends, LiteSend, Open
  <2>5. LiteSend(n)'
    <3>1. ASSUME NEW q \in Objects PROVE Held(n)'[q] >= calls'[n].wrote[q]
      <4>1. calls'[n].wrote[q] = 0
        BY <2>2, <2>3, NothingIsRecords
      <4>2. Held(n)'[q] \in Nat
        BY <1>0, <2>2 DEF Versions
      <4> QED BY <4>1, <4>2
    <3> QED BY <2>2, <2>3, <3>1 DEF LiteSend
  <2> QED BY <2>2, <2>4, <2>5 DEF LiteSends
<1>2. ASSUME NEW i \in Ids, Edited(i) PROVE LiteSends'
  BY <1>2, EditedKeeps DEF LiteSends, LiteSend, Ids, Open, Edited, SameRecords
<1>3. ASSUME NEW i \in Ids, NEW pc, NEW snap, Moved(i, pc, snap),
             pc = "done" \/ (pc = "answered" /\ snap = Held(i) /\ Open(i)) PROVE LiteSends'
  <2>1. Ids' = Ids /\ disturbed' = disturbed /\ calls'[i].pc = pc /\ calls'[i].snap = snap
    BY <1>3, SameKeeps DEF Moved
  <2>2. /\ \A j \in Ids : (Lite(j)' <=> Lite(j)) /\ Held(j)' = Held(j) /\ calls'[j].wrote = calls[j].wrote
        /\ \A j \in Ids : j # i => calls'[j] = calls[j]
    BY <1>3, MovedKeeps
  <2>3. \A j \in Ids : j # i => LiteSend(j)'
    BY <2>1, <2>2 DEF LiteSends, LiteSend, Open
  <2>4. LiteSend(i)'
    BY <1>3, <2>1, <2>2 DEF LiteSends, LiteSend, Open
  <2> QED BY <2>1, <2>3, <2>4 DEF LiteSends
<1>4. ASSUME NEW i \in Ids, Replied(i) \/ Returned(i) \/ Failed(i) PROVE LiteSends'
  BY <1>3, <1>4 DEF Replied, Returned, Failed, A!Ended, Open
<1>5. ASSUME Same, NEW b \in Ids, NEW recs, Captured(b, recs),
             Lite(b) /\ Open(b) => \A q \in Objects : Held(b)'[q] >= calls'[b].wrote[q],
             \A j \in Ids : j # b => calls'[j].wrote = calls[j].wrote,
             \A j \in Ids : calls'[j].snap = calls[j].snap,
             \A j \in Ids : calls'[j].pc = calls[j].pc \/ calls'[j].pc = "done" \/ (j = b /\ Open(b) /\ Open(b)'),
             calls[b].pc # "answered"
      PROVE  LiteSends'
  <2>1. Ids' = Ids /\ \A j \in Ids : Lite(j)' <=> Lite(j)
    BY <1>5, SameKeeps
  <2>2. /\ \A i \in Ids : i # b /\ (~Lite(i) \/ ~Lite(b) \/ calls[i].sess # calls[b].sess) => Held(i)' = Held(i)
        /\ \A i \in Ids : i \notin disturbed' => i \notin disturbed \/ i = b
        /\ Lite(b) => \A i \in Ids : i # b /\ Open(i) /\ calls[i].sess = calls[b].sess => i \in disturbed'
    BY <1>5, NonliteHold DEF Static
  <2>3. ASSUME NEW j \in Ids, j # b PROVE LiteSend(j)'
    <3>1. CASE j \in disturbed'
      BY <3>1 DEF LiteSend
    <3>2. CASE j \notin disturbed' /\ Open(j)
      <4>1. Held(j)' = Held(j) /\ j \notin disturbed
        BY <2>2, <2>3, <3>2
      <4>2. calls'[j].wrote = calls[j].wrote /\ calls'[j].snap = calls[j].snap /\ (calls'[j].pc = calls[j].pc \/ calls'[j].pc = "done")
        BY <1>5, <2>3
      <4> QED BY <2>1, <4>1, <4>2 DEF LiteSends, LiteSend, Open
    <3>3. CASE j \notin disturbed' /\ ~Open(j)
      <4>1. j \notin disturbed
        BY <2>2, <2>3, <3>3
      <4>2. calls'[j].wrote = calls[j].wrote /\ calls'[j].snap = calls[j].snap /\ (calls'[j].pc = calls[j].pc \/ calls'[j].pc = "done")
        BY <1>5, <2>3
      <4> QED BY <2>1, <3>3, <4>1, <4>2 DEF LiteSends, LiteSend, Open
    <3> QED BY <3>1, <3>2, <3>3
  <2>4. LiteSend(b)'
    <3>1. calls'[b].pc # "answered" /\ (Open(b)' => Open(b))
      BY <1>5 DEF Open
    <3> QED BY <1>5, <2>1, <3>1 DEF LiteSend
  <2> QED BY <2>1, <2>3, <2>4 DEF LiteSends
<1>6. ASSUME NEW i \in Ids, Received(i, calls[i].by) PROVE LiteSends'
  <2>1. PICK b : b = calls[i].by /\ Received(i, b)
    BY <1>6
  <2>2. /\ Same /\ calls[i].pc = "answered" /\ (b # 0 => b \in Ids) /\ i # b /\ calls'[i].pc = "done"
        /\ \A j \in Ids : (j # b => calls'[j].wrote = calls[j].wrote) /\ calls'[j].snap = calls[j].snap /\ (j # i => calls'[j].pc = calls[j].pc)
        /\ b # 0 => calls[b].pc # "answered" /\ (Lite(i) <=> Lite(b))
    BY <2>1, AnswerIsReceived
  <2>3. Ids' = Ids /\ (\A j \in Ids : (Lite(j)' <=> Lite(j)) /\ calls'[j].sess = calls[j].sess) /\ 0 \notin Ids
    BY <2>2, SameKeeps DEF Typed, Ids
  <2>4. CASE sessions' = sessions /\ disturbed' = disturbed /\ (b # 0 => calls'[b].wrote = calls[b].wrote)
    <3>1. \A j \in Ids : Held(j)' = Held(j) /\ calls'[j].wrote = calls[j].wrote /\ (calls'[j].pc = calls[j].pc \/ calls'[j].pc = "done")
      BY <2>2, <2>3, <2>4 DEF Held
    <3> QED BY <2>2, <2>3, <2>4, <3>1 DEF LiteSends, LiteSend, Open
  <2>5. CASE b # 0 /\ Captured(b, calls[i].snap) /\ \A q \in Objects : calls'[b].wrote[q] = NewWrote(i, b, q)
    <3>1. ASSUME Lite(b), NEW q \in Objects PROVE Held(b)'[q] >= calls'[b].wrote[q]
      <4>1. Held(b)'[q] = IF calls[i].snap[q] # 0 THEN calls[i].snap[q] ELSE 0
        BY <2>2, <2>5, <3>1, BHolds
      <4>2. calls'[b].wrote[q] = IF i \in disturbed THEN 0 ELSE calls[i].wrote[q]
        BY <2>5, <3>1 DEF NewWrote
      <4>3. i \notin disturbed => calls[i].snap[q] >= calls[i].wrote[q]
        BY <2>2, <2>5, <3>1 DEF LiteSends, LiteSend
      <4>4. calls[i].snap[q] \in Nat /\ calls[i].wrote[q] \in Nat
        BY <1>0 DEF Versions
      <4> QED BY <4>1, <4>2, <4>3, <4>4
    <3>2. \A j \in Ids : calls'[j].pc = calls[j].pc \/ calls'[j].pc = "done"
      BY <2>2
    <3>3. b \in Ids /\ calls[b].pc # "answered"
      BY <2>2, <2>5
    <3> QED BY <1>5, <2>2, <2>5, <3>1, <3>2, <3>3
  <2>6. CASE b = 0
    <3>1. sessions' = sessions /\ disturbed' = disturbed
      BY <2>1, <2>6 DEF Received, Registered
    <3> QED BY <2>4, <2>6, <3>1
  <2> QED BY <2>1, <2>4, <2>5, <2>6 DEF Received, Registered
<1>7. ASSUME NEW i \in Ids, NEW o \in Objects, Stored(i, o) PROVE LiteSends'
  <2>1. /\ Same /\ (\A j \in Ids : j # i => calls'[j] = calls[j]) /\ i # 0
        /\ \A q \in Objects : calls'[i].wrote[q] = IF q = o THEN stored[o] + 1 ELSE 0
        /\ calls[i].pc = "run" /\ calls'[i].pc = "stored" /\ calls'[i].snap = calls[i].snap
    BY <1>7 DEF Stored, SameBut, Typed, Ids
  <2>2. PICK recs : (\A q \in Objects : recs[q] = IF q = o THEN stored[o] + 1 ELSE 0) /\ Captured(i, recs)
    BY <1>7, <2>1 DEF Stored, Registered
  <2>3. ASSUME Lite(i), NEW q \in Objects PROVE Held(i)'[q] >= calls'[i].wrote[q]
    <3>1. Held(i)'[q] = IF recs[q] # 0 THEN recs[q] ELSE 0
      BY <2>1, <2>2, <2>3, BHolds
    <3>2. stored[o] \in Nat
      BY <1>0 DEF Versions
    <3> QED BY <2>1, <2>2, <3>1, <3>2
  <2>4. Open(i) /\ Open(i)' /\ calls[i].pc # "answered"
    BY <2>1 DEF Open
  <2>5. \A j \in Ids : j # i => calls'[j].wrote = calls[j].wrote /\ calls'[j].snap = calls[j].snap /\ calls'[j].pc = calls[j].pc
    BY <2>1
  <2> QED BY <1>5, <2>1, <2>2, <2>3, <2>4, <2>5
<1> QED BY <1>1, <1>2, <1>4, <1>6, <1>7 DEF Steps

-----------------------------------------------------------------------------
(* The calls that wait. *)

\* The definition of Callers.
LEMMA CallersAre ==
    ASSUME NEW j, NEW k
    PROVE  k \in A!Callers(j) <=> k \in calls[j].above /\ \A e \in calls[j].above : k \in calls[e].above => Alive(e)
BY DEF A!Callers, A!Alive, Alive

\* What Chain says, for use.
LEMMA AboveIsChain ==
    ASSUME Typed, Static, NEW j \in Ids
    PROVE  /\ j \in calls[j].above /\ j \in Nat \ {0}
           /\ \A k \in calls[j].above : k \in Ids /\ k \in 1 .. j /\ calls[k].above \subseteq calls[j].above
           /\ calls[j].by # 0 => calls[j].by \in Ids /\ calls[j].above = {j} \cup calls[calls[j].by].above
           /\ calls[j].by = 0 => calls[j].above = {j}
<1>1. Chain(j) /\ j \in 1 .. Len(calls) /\ Len(calls) \in Nat /\ calls[j].by \in 0 .. j - 1
  BY DEF Static, Chains, Typed, Ids
<1>2. \A k \in 1 .. j : k \in Ids
  BY <1>1 DEF Ids, Typed
<1> QED BY <1>1, <1>2 DEF Chain

\* A call that another one waits behind has a call to wait for itself.
LEMMA CallerHasChild ==
    ASSUME Typed, Static, NEW j \in Ids, NEW i \in A!Callers(j), i # j
    PROVE  \E k \in Ids : calls[k].by = i /\ Alive(k)
<1>1. i \in calls[j].above /\ \A e \in calls[j].above : i \in calls[e].above => Alive(e)
  BY CallersAre
<1>2. PICK k \in calls[j].above : calls[k].by = i /\ i \in calls[k].above
  BY <1>1 DEF Static, Chains, Chain
<1> QED BY <1>1, <1>2, AboveIsChain

\* Of those above a call, all between it and a call that waits for it do so, too.
LEMMA CallersBetween ==
    ASSUME Typed, Static, NEW j \in Ids, NEW i \in calls[j].above, NEW k \in calls[i].above, k \in A!Callers(j)
    PROVE  i \in A!Callers(j)
<1>1. \A e \in calls[j].above : k \in calls[e].above => Alive(e)
  BY CallersAre
<1>2. ASSUME NEW e \in calls[j].above, i \in calls[e].above PROVE Alive(e)
  <2>1. calls[i].above \subseteq calls[e].above
    BY <1>2, AboveIsChain
  <2> QED BY <1>1, <2>1
<1> QED BY <1>2, CallersAre

\* As call i ends, the others wait as before.
LEMMA CallersStay ==
    ASSUME Typed, Static, NEW j \in Ids, NEW k \in A!Callers(j),
           \A d \in Ids : calls'[d].above = calls[d].above,
           \A d \in Ids : Alive(d) => Alive(d)' \/ d \notin A!Callers(j)
    PROVE  k \in A!Callers(j)'
<1>1. k \in calls[j].above /\ \A e \in calls[j].above : k \in calls[e].above => Alive(e)
  BY CallersAre
<1>2. \A e \in calls[j].above : e \in Ids
  BY AboveIsChain
<1>3. ASSUME NEW e \in calls'[j].above, k \in calls'[e].above PROVE Alive(e)'
  <2>1. e \in calls[j].above /\ e \in Ids /\ k \in calls[e].above
    BY <1>2, <1>3
  <2>2. Alive(e)
    BY <1>1, <2>1
  <2>3. e \in A!Callers(j)
    BY <2>1, CallersBetween
  <2> QED BY <2>1, <2>2, <2>3
<1>4. k \in calls'[j].above
  BY <1>1
<1> QED BY <1>3, <1>4 DEF A!Callers, A!Alive, Alive

\* None waits behind a call that has no calls of its own left.
LEMMA NoneWaits ==
    ASSUME Typed, Static, NEW i \in Ids, \A d \in Ids : calls[d].by = i => ~Alive(d), NEW j \in Ids, i \in A!Callers(j)
    PROVE  i = j
BY CallerHasChild

-----------------------------------------------------------------------------
(* The calls that have a record of an object to send back. *)

Holds(i, o) == ~Lite(i) /\ Alive(i) /\ calls[i].wrote[o] # 0

\* No call gets another record of o, and those that wait for a call with one still do, unless it was dropped.
Kept(o) ==
    /\ stored'[o] = stored[o]
    /\ \A i \in Ids : i \in Ids' /\ calls'[i].above = calls[i].above
    /\ \A i \in Ids' : Holds(i, o)' => /\ i \in Ids /\ Holds(i, o)
                                       /\ Held(i)'[o] = Held(i)[o] /\ calls'[i].wrote[o] = calls[i].wrote[o]
    /\ \A i, j \in Ids : Holds(i, o)' /\ Holds(j, o) /\ i # j /\ i \in A!Callers(j) /\ o \notin dropped'
                            => Holds(j, o)' /\ i \in A!Callers(j)'
\* Call b takes the record of call i over.
Taken(i, b, o) ==
    /\ stored'[o] = stored[o] /\ i \in Ids /\ b \in Ids /\ i # b /\ b = calls[i].by
    /\ \A j \in Ids : calls'[j].above = calls[j].above /\ (Lite(j)' <=> Lite(j)) /\ (j # i => (Alive(j)' <=> Alive(j)))
    /\ Ids' = Ids /\ ~Alive(i)' /\ calls[i].pc = "answered"
    /\ \A j \in Ids : j # b => calls'[j].wrote = calls[j].wrote /\ (~Lite(j) => Held(j)' = Held(j))
    /\ ~Lite(b) /\ Holds(i, o) /\ Held(b)'[o] = Held(i)[o]
    /\ calls'[b].wrote[o] = IF calls[i].wrote[o] > calls[b].wrote[o] THEN calls[i].wrote[o] ELSE calls[b].wrote[o]
\* Call i changes the object.
Fresh(i, o) ==
    /\ stored'[o] = stored[o] + 1 /\ i \in Ids /\ Ids' = Ids
    /\ \A j \in Ids : calls'[j].above = calls[j].above /\ (Lite(j)' <=> Lite(j)) /\ (Alive(j)' <=> Alive(j))
    /\ \A j \in Ids : j # i => calls'[j] = calls[j] /\ (~Lite(j) => Held(j)' = Held(j))
    /\ ~Lite(i) => Held(i)'[o] = stored[o] + 1 /\ calls'[i].wrote[o] = stored[o] + 1
    /\ Alive(i) /\ calls[i].pc = "run"
    /\ o \notin crossed' => \A j \in Ids : Alive(j) /\ o \in A!ToSend(j) => j \in A!Callers(i)
    /\ o \notin crossed' => \A j \in Ids : Holds(j, o) => j # i /\ ~Lite(i) /\ j \in A!Callers(i)

\* A new call has no record yet.
LEMMA AddedIsKept ==
    ASSUME Typed, Static, NEW b, NEW r, Added(Len(calls) + 1, b, r), NEW o \in Objects
    PROVE  Kept(o)
<1>1. PICK n : n = Len(calls) + 1 /\ Added(n, b, r)
  OBVIOUS
<1>2. /\ Ids' = Ids \cup {n} /\ calls'[n] = r
      /\ \A i \in Ids : calls'[i] = calls[i] /\ (Lite(i)' <=> Lite(i)) /\ Held(i)' = Held(i)
  BY <1>1, AddedKeeps
<1>3. r.wrote[o] = 0 /\ stored' = stored
  BY <1>1, NothingIsRecords DEF Added, SameRecords
<1>4. \A i \in Ids : Holds(i, o)' <=> Holds(i, o)
  BY <1>2 DEF Holds, Alive
<1>5. ~Holds(n, o)'
  BY <1>2, <1>3 DEF Holds
<1>6. \A i, j \in Ids : i \in A!Callers(j) => i \in A!Callers(j)'
  BY <1>2, CallersStay DEF Alive
<1> QED BY <1>2, <1>3, <1>4, <1>5, <1>6 DEF Kept

\* Edits change no record.
LEMMA EditedIsKept ==
    ASSUME Typed, Static, NEW i \in Ids, Edited(i), NEW o \in Objects
    PROVE  Kept(o)
<1>1. calls' = calls /\ \A j \in Ids : (Lite(j)' <=> Lite(j)) /\ Held(j)' = Held(j)
  BY EditedKeeps
<1>2. stored' = stored /\ Ids' = Ids
  BY <1>1 DEF Edited, SameRecords, Ids
<1>3. \A j \in Ids : Holds(j, o)' <=> Holds(j, o)
  BY <1>1 DEF Holds, Alive
<1>4. \A d, j \in Ids : d \in A!Callers(j) => d \in A!Callers(j)'
  BY <1>1, CallersStay DEF Alive
<1> QED BY <1>1, <1>2, <1>3, <1>4 DEF Kept

\* A call that has answered still has its record, for its caller.
LEMMA RepliedIsKept ==
    ASSUME Typed, Static, NEW i \in Ids, Replied(i), NEW o \in Objects
    PROVE  Kept(o)
<1>1. /\ \A j \in Ids : (Lite(j)' <=> Lite(j)) /\ Held(j)' = Held(j) /\ calls'[j].wrote = calls[j].wrote
      /\ \A j \in Ids : j # i => calls'[j] = calls[j]
  BY MovedKeeps DEF Replied
<1>2. stored' = stored /\ Ids' = Ids /\ \A j \in Ids : calls'[j].above = calls[j].above
  BY SameKeeps DEF Replied, Moved
<1>3. \A j \in Ids : Alive(j)' <=> Alive(j)
  <2>1. Alive(i) /\ Alive(i)'
    BY DEF Replied, Moved, A!Ended, Alive
  <2> QED BY <1>1, <2>1 DEF Alive
<1>4. \A j \in Ids : Holds(j, o)' <=> Holds(j, o)
  BY <1>1, <1>3 DEF Holds
<1>5. \A d, j \in Ids : d \in A!Callers(j) => d \in A!Callers(j)'
  BY <1>2, <1>3, CallersStay
<1> QED BY <1>1, <1>2, <1>4, <1>5 DEF Kept

\* Call i ends: no other waits for it, or its record is dropped.
LEMMA EndedIsKept ==
    ASSUME Typed, Static, NEW i \in Ids, NEW o \in Objects, Same, stored' = stored,
           \A j \in Ids : j # i => (Alive(j)' <=> Alive(j)), ~Alive(i)',
           \A j \in Ids : ~Lite(j) => Held(j)'[o] = Held(j)[o] /\ calls'[j].wrote[o] = calls[j].wrote[o],
           \A d, j \in Ids : Holds(d, o) /\ Holds(j, o) /\ d # j /\ d # i /\ d \in A!Callers(j) /\ i \in A!Callers(j) => o \in dropped'
    PROVE  Kept(o)
<1>1. Ids' = Ids /\ \A j \in Ids : calls'[j].above = calls[j].above /\ (Lite(j)' <=> Lite(j))
  BY SameKeeps
<1>2. \A j \in Ids : Holds(j, o)' <=> j # i /\ Holds(j, o)
  BY <1>1 DEF Holds
<1>3. ASSUME NEW d \in Ids, NEW j \in Ids, Holds(d, o)', Holds(j, o), d # j, d \in A!Callers(j), o \notin dropped'
      PROVE  Holds(j, o)' /\ d \in A!Callers(j)'
  <2>1. Holds(d, o) /\ d # i
    BY <1>2, <1>3
  <2>2. i \notin A!Callers(j)
    BY <1>3, <2>1
  <2>3. d \in A!Callers(j)'
    BY <1>1, <1>3, <2>2, CallersStay
  <2>4. i # j
    <3>1. ASSUME i = j PROVE FALSE
      <4>1. Alive(i)
        BY <1>3, <3>1 DEF Holds
      <4>2. i \in A!Callers(i)
        <5>1. i \in calls[i].above /\ \A e \in calls[i].above : i \in calls[e].above => e = i
          <6>1. i \in calls[i].above /\ i \in Nat
            BY AboveIsChain
          <6>2. ASSUME NEW e \in calls[i].above, i \in calls[e].above PROVE e = i
            <7>1. e \in Ids /\ e \in 1 .. i
              BY AboveIsChain
            <7>2. i \in 1 .. e /\ e \in Nat
              BY <6>2, <7>1, AboveIsChain
            <7> QED BY <6>1, <7>1, <7>2
          <6> QED BY <6>1, <6>2
        <5> QED BY <4>1, <5>1, CallersAre
      <4> QED BY <2>2, <3>1, <4>2
    <3> QED BY <3>1
  <2> QED BY <1>2, <1>3, <2>3, <2>4
<1>4. \A j \in Ids : Holds(j, o)' => Holds(j, o) /\ Held(j)'[o] = Held(j)[o] /\ calls'[j].wrote[o] = calls[j].wrote[o]
  BY <1>2 DEF Holds
<1> QED BY <1>1, <1>3, <1>4 DEF Kept

\* What calls have for one that fails is dropped.
LEMMA FailedIsKept ==
    ASSUME Typed, Static, NEW i \in Ids, Failed(i), NEW o \in Objects
    PROVE  Kept(o)
<1>1. /\ Same /\ stored' = stored /\ ~Alive(i)'
      /\ dropped' = dropped \cup {q \in Objects : \E d \in Ids : Alive(d) /\ i \in A!Callers(d) /\ calls[d].wrote[q] # 0}
  BY DEF Failed, Moved, Alive
<1>2. \A j \in Ids : /\ Held(j)' = Held(j) /\ calls'[j].wrote = calls[j].wrote
                     /\ j # i => (Alive(j)' <=> Alive(j))
  BY MovedKeeps DEF Failed, Alive
<1>3. \A j \in Ids : Holds(j, o) /\ i \in A!Callers(j) => o \in dropped'
  BY <1>1 DEF Holds
<1> QED BY <1>1, <1>2, <1>3, EndedIsKept

\* A nested action drops what it has, and one with the transaction of its own has no caller with a record.
LEMMA ReturnedIsKept ==
    ASSUME Typed, Static, LiteAbove, NEW i \in Ids, Returned(i), NEW o \in Objects
    PROVE  Kept(o)
<1>1. /\ Same /\ stored' = stored /\ ~Alive(i)'
      /\ dropped' = IF sessions[calls[i].sess].owner THEN dropped
                    ELSE dropped \cup {q \in Objects : A!Nested(i) /\ calls[i].wrote[q] # 0}
      /\ A!Ended(i) /\ (A!Nested(i) \/ calls[i].kind = "background")
  BY DEF Returned, Moved, Alive
<1>2. \A j \in Ids : /\ Held(j)' = Held(j) /\ calls'[j].wrote = calls[j].wrote
                     /\ j # i => (Alive(j)' <=> Alive(j))
  BY MovedKeeps DEF Returned, Alive
<1>3. \A d \in Ids : calls[d].by = i => ~Alive(d)
  BY <1>1 DEF A!Ended, A!Children, A!Alive, Alive, Ids
<1>4. ASSUME NEW d \in Ids, NEW j \in Ids, Holds(d, o), Holds(j, o), d # j, d # i, d \in A!Callers(j), i \in A!Callers(j)
      PROVE  o \in dropped'
  <2>1. j = i
    BY <1>3, <1>4, NoneWaits
  <2>2. d \in calls[i].above /\ d # i
    BY <1>4, <2>1, CallersAre
  <2>3. PICK b : b = calls[i].by /\ b # 0 /\ b \in Ids /\ d \in calls[b].above
    BY <2>2, AboveIsChain
  <2>4. ~Lite(b)
    BY <1>4, <2>3 DEF LiteAbove, Holds
  <2>5. Related(i)
    BY DEF Static
  <2>6. calls[i].kind # "background" /\ (calls[i].kind = "action" => ~sessions[calls[i].sess].owner)
    BY <2>3, <2>4, <2>5 DEF Related
  <2>7. A!Nested(i) /\ ~sessions[calls[i].sess].owner
    BY <1>1, <2>6 DEF A!Nested
  <2>8. calls[i].wrote[o] # 0
    BY <1>4, <2>1 DEF Holds
  <2> QED BY <1>1, <2>7, <2>8
<1> QED BY <1>1, <1>2, <1>4, EndedIsKept

\* Whoever receives a record takes it over.
LEMMA ReceivedIsKept ==
    ASSUME Typed, Static, Sends, Zeros, NEW i \in Ids, NEW b, Received(i, b), NEW o \in Objects
    PROVE  Kept(o) \/ Taken(i, b, o)
<1>1. /\ Same /\ calls[i].pc = "answered" /\ b = calls[i].by /\ i # b /\ (b # 0 => b \in Ids)
      /\ \A j \in Ids : /\ j # i => calls'[j].pc = calls[j].pc
                        /\ j # b => calls'[j].wrote = calls[j].wrote
      /\ calls'[i].pc = "done"
      /\ b # 0 => (Lite(i) <=> Lite(b))
      /\ ~Lite(i) => i \notin disturbed /\ calls[i].snap = Held(i)
  BY AnswerIsReceived
<1>2. /\ stored' = stored /\ Ids' = Ids /\ 0 \notin Ids
      /\ \A j \in Ids : calls'[j].above = calls[j].above /\ (Lite(j)' <=> Lite(j)) /\ calls'[j].sess = calls[j].sess
  BY <1>1, SameKeeps DEF Received, Typed, Ids
<1>3. ~Alive(i)' /\ Alive(i) /\ \A j \in Ids : j # i => (Alive(j)' <=> Alive(j))
  BY <1>1 DEF Alive
<1>4. \A d \in Ids : calls[d].by = i => ~Alive(d)
  BY <1>1, <1>2 DEF Sends, Waiting
<1>5. \/ sessions' = sessions /\ (b # 0 => calls'[b].wrote = calls[b].wrote) /\ (b = 0 \/ calls[i].snap = A!Nothing)
      \/ b # 0 /\ Captured(b, calls[i].snap) /\ \A q \in Objects : calls'[b].wrote[q] = NewWrote(i, b, q)
  BY DEF Received, Registered
<1>6. \A j \in Ids : j # b /\ ~Lite(j) => Held(j)' = Held(j)
  <2>1. CASE sessions' = sessions
    BY <1>2, <2>1 DEF Held
  <2>2. CASE b # 0 /\ Captured(b, calls[i].snap)
    BY <1>1, <2>2, NonliteHold DEF Static
  <2> QED BY <1>5, <2>1, <2>2
<1>7. CASE b # 0 /\ ~Lite(b) /\ Captured(b, calls[i].snap) /\ calls[i].wrote[o] # 0 /\ \A q \in Objects : calls'[b].wrote[q] = NewWrote(i, b, q)
  <2>1. Held(i)[o] # 0
    BY <1>1, <1>7 DEF Zeros, Zero
  <2>2. Held(b)'[o] = Held(i)[o]
    BY <1>1, <1>7, <2>1, BHolds
  <2>3. calls'[b].wrote[o] = IF calls[i].wrote[o] > calls[b].wrote[o] THEN calls[i].wrote[o] ELSE calls[b].wrote[o]
    BY <1>1, <1>7 DEF NewWrote
  <2>4. Holds(i, o)
    BY <1>1, <1>3, <1>7 DEF Holds
  <2> QED BY <1>1, <1>2, <1>3, <1>6, <1>7, <2>2, <2>3, <2>4 DEF Taken
<1>8. ASSUME \A j \in Ids : ~Lite(j) => Held(j)'[o] = Held(j)[o] /\ calls'[j].wrote[o] = calls[j].wrote[o],
             b = 0 \/ ~Holds(i, o)
      PROVE  Kept(o)
  <2>1. ASSUME NEW d \in Ids, NEW j \in Ids, Holds(d, o), Holds(j, o), d # j, d # i, d \in A!Callers(j), i \in A!Callers(j)
        PROVE  o \in dropped'
    <3>1. j = i
      BY <1>4, <2>1, NoneWaits
    <3>2. d \in calls[i].above
      BY <2>1, <3>1, CallersAre
    <3>3. b # 0
      BY <1>1, <2>1, <3>2, AboveIsChain
    <3> QED BY <1>8, <2>1, <3>1, <3>3
  <2> QED BY <1>1, <1>2, <1>3, <1>8, <2>1, EndedIsKept
<1>9. CASE sessions' = sessions /\ (b # 0 => calls'[b].wrote = calls[b].wrote) /\ (b = 0 \/ calls[i].snap = A!Nothing)
  <2>1. \A j \in Ids : Held(j)' = Held(j) /\ calls'[j].wrote = calls[j].wrote
    BY <1>1, <1>2, <1>9 DEF Held
  <2>2. b = 0 \/ ~Holds(i, o)
    <3>1. ASSUME b # 0, ~Lite(i) PROVE calls[i].wrote[o] = 0
      <4>1. Held(i)[o] = 0
        BY <1>1, <1>9, <3>1, NothingIsRecords
      <4> QED BY <3>1, <4>1 DEF Zeros, Zero
    <3> QED BY <3>1 DEF Holds
  <2> QED BY <1>8, <2>1, <2>2
<1>10. CASE b # 0 /\ Captured(b, calls[i].snap) /\ (Lite(b) \/ calls[i].wrote[o] = 0) /\ \A q \in Objects : calls'[b].wrote[q] = NewWrote(i, b, q)
  <2>1. ~Holds(i, o)
    BY <1>1, <1>10 DEF Holds
  <2>2. ASSUME ~Lite(b) PROVE Held(b)'[o] = Held(b)[o] /\ calls'[b].wrote[o] = calls[b].wrote[o]
    <3>1. calls[i].wrote[o] = 0 /\ Held(i)[o] = 0
      BY <1>1, <1>10, <2>2 DEF Zeros, Zero
    <3>2. Held(b)'[o] = Held(b)[o]
      BY <1>1, <1>10, <2>2, <3>1, BHolds
    <3>3. calls'[b].wrote[o] = IF calls[i].wrote[o] > calls[b].wrote[o] THEN calls[i].wrote[o] ELSE calls[b].wrote[o]
      BY <1>1, <1>10, <2>2 DEF NewWrote
    <3>4. calls[b].wrote[o] \in Nat
      BY <1>1, <1>10, AreVersions DEF Versions
    <3> QED BY <3>1, <3>2, <3>3, <3>4
  <2>3. \A j \in Ids : ~Lite(j) => Held(j)'[o] = Held(j)[o] /\ calls'[j].wrote[o] = calls[j].wrote[o]
    BY <1>1, <1>6, <2>2
  <2> QED BY <1>8, <2>1, <2>3
<1> QED BY <1>5, <1>7, <1>9, <1>10

\* A new version, captured while nobody but the callers has an older one.
LEMMA StoredIsKept ==
    ASSUME Typed, Static, LiteAbove, Sends, Zeros, NEW i \in Ids, NEW p \in Objects, Stored(i, p), NEW o \in Objects
    PROVE  Kept(o) \/ Fresh(i, o)
<1>1. /\ Same /\ (\A j \in Ids : j # i => calls'[j] = calls[j]) /\ i # 0
      /\ \A q \in Objects : calls'[i].wrote[q] = IF q = p THEN stored[p] + 1 ELSE 0
      /\ \A q \in Objects : stored'[q] = IF q = p THEN stored[p] + 1 ELSE stored[q]
      /\ calls[i].kind = "update" /\ calls[i].pc = "run" /\ calls'[i].pc = "stored" /\ p \in calls[i].of
      /\ p \notin crossed' => \A d \in Ids \ A!Callers(i) : Alive(d) => p \notin A!ToSend(d)
  BY DEF Stored, SameBut, Typed, Ids
<1>2. PICK recs : (\A q \in Objects : recs[q] = IF q = p THEN stored[p] + 1 ELSE 0) /\ Captured(i, recs)
  BY <1>1 DEF Stored, Registered
<1>3. Ids' = Ids /\ \A j \in Ids : calls'[j].above = calls[j].above /\ (Lite(j)' <=> Lite(j))
  BY <1>1, SameKeeps
<1>4. Alive(i) /\ Alive(i)' /\ \A j \in Ids : Alive(j)' <=> Alive(j)
  BY <1>1 DEF Alive
<1>5. \A j \in Ids : j # i /\ ~Lite(j) => Held(j)' = Held(j)
  BY <1>1, <1>2, NonliteHold DEF Static
<1>6. ASSUME ~Lite(i) PROVE \A q \in Objects : Held(i)[q] = 0 /\ calls[i].wrote[q] = 0 /\ Held(i)'[q] = recs[q]
  <2>1. Held(i) = A!Nothing
    BY <1>1, <1>6 DEF Sends, Sending
  <2>2. \A q \in Objects : Held(i)[q] = 0 /\ calls[i].wrote[q] = 0
    BY <1>6, <2>1, NothingIsRecords DEF Zeros, Zero
  <2>3. \A q \in Objects : Held(i)'[q] = IF recs[q] # 0 THEN recs[q] ELSE Held(i)[q]
    BY <1>1, <1>2, <1>6, BHolds
  <2> QED BY <2>2, <2>3
<1>7. CASE o # p
  <2>1. \A j \in Ids : ~Lite(j) => Held(j)'[o] = Held(j)[o] /\ calls'[j].wrote[o] = calls[j].wrote[o]
    BY <1>1, <1>2, <1>5, <1>6, <1>7
  <2>2. \A j \in Ids : Holds(j, o)' <=> Holds(j, o)
    BY <1>3, <1>4, <2>1 DEF Holds
  <2>3. \A d, j \in Ids : d \in A!Callers(j) => d \in A!Callers(j)'
    BY <1>3, <1>4, CallersStay
  <2>4. stored'[o] = stored[o]
    BY <1>1, <1>7
  <2>5. \A j \in Ids : Holds(j, o)' => Holds(j, o) /\ Held(j)'[o] = Held(j)[o] /\ calls'[j].wrote[o] = calls[j].wrote[o]
    BY <2>1, <2>2 DEF Holds
  <2>6. \A j \in Ids : j \in Ids' /\ calls'[j].above = calls[j].above
    BY <1>3
  <2>7. \A d, j \in Ids : Holds(d, o)' /\ Holds(j, o) /\ d # j /\ d \in A!Callers(j) /\ o \notin dropped' => Holds(j, o)' /\ d \in A!Callers(j)'
    BY <2>2, <2>3
  <2> QED BY <1>3, <2>4, <2>5, <2>6, <2>7 DEF Kept
<1>8. CASE o = p
  <2>1. ~Lite(i) => Held(i)'[o] = stored[o] + 1 /\ calls'[i].wrote[o] = stored[o] + 1
    BY <1>1, <1>2, <1>6, <1>8
  <2>2. ASSUME o \notin crossed', NEW j \in Ids, Alive(j), o \in A!ToSend(j) PROVE j \in A!Callers(i)
    BY <1>1, <1>8, <2>2
  <2>3. ASSUME o \notin crossed', NEW j \in Ids, Holds(j, o) PROVE j # i /\ ~Lite(i) /\ j \in A!Callers(i)
    <3>1. o \in A!ToSend(j)
      BY <2>3 DEF Holds, A!ToSend
    <3>2. j \in A!Callers(i)
      BY <2>2, <2>3, <3>1 DEF Holds
    <3>3. ~Lite(i)
      <4>1. j \in calls[i].above
        BY <3>2, CallersAre
      <4> QED BY <2>3, <4>1 DEF LiteAbove, Holds
    <3>4. j # i
      BY <1>6, <2>3, <3>3 DEF Holds
    <3> QED BY <3>2, <3>3, <3>4
  <2>4. stored'[o] = stored[o] + 1
    BY <1>1, <1>8
  <2>5. o \notin crossed' => \A j \in Ids : Alive(j) /\ o \in A!ToSend(j) => j \in A!Callers(i)
    BY <2>2
  <2>6. o \notin crossed' => \A j \in Ids : Holds(j, o) => j # i /\ ~Lite(i) /\ j \in A!Callers(i)
    BY <2>3
  <2>7. \A j \in Ids : calls'[j].above = calls[j].above /\ (Lite(j)' <=> Lite(j)) /\ (Alive(j)' <=> Alive(j))
    BY <1>3, <1>4
  <2>8. \A j \in Ids : j # i => calls'[j] = calls[j] /\ (~Lite(j) => Held(j)' = Held(j))
    BY <1>1, <1>5
  <2> QED BY <1>1, <1>3, <1>4, <2>1, <2>4, <2>5, <2>6, <2>7, <2>8 DEF Fresh
<1> QED BY <1>7, <1>8

\* Each step does one of these for each object.
LEMMA StepsKeep ==
    ASSUME Typed, Static, LiteAbove, Sends, Zeros, Steps, NEW o \in Objects
    PROVE  /\ Kept(o) \/ (\E i \in Ids : Taken(i, calls[i].by, o)) \/ (\E i \in Ids : Fresh(i, o))
           /\ crossed \subseteq crossed' /\ dropped \subseteq dropped'
<1>1. Kept(o) \/ (\E i \in Ids : Taken(i, calls[i].by, o)) \/ (\E i \in Ids : Fresh(i, o))
  <2>1. CASE \E b, r : Added(Len(calls) + 1, b, r)
    BY <2>1, AddedIsKept
  <2>2. CASE \E i \in Ids : Edited(i) \/ Replied(i) \/ Returned(i) \/ Failed(i) \/ Received(i, calls[i].by)
    BY <2>2, EditedIsKept, RepliedIsKept, ReturnedIsKept, FailedIsKept, ReceivedIsKept
  <2>3. CASE \E i \in Ids, p \in Objects : Stored(i, p)
    BY <2>3, StoredIsKept
  <2> QED BY <2>1, <2>2, <2>3 DEF Steps
<1>2. crossed \subseteq crossed' /\ dropped \subseteq dropped' /\ outdated \subseteq outdated'
  BY DEF Steps, Added, SameRecords, Edited, Replied, Returned, Failed, Moved, Received, Stored
<1> QED BY <1>1, <1>2

-----------------------------------------------------------------------------
(* The records of an object that was changed by one call at a time. *)

Compared(i, j, o) ==
    Holds(j, o) => /\ i \in calls[j].above \/ j \in calls[i].above
                   /\ i \in calls[j].above => Held(j)[o] >= Held(i)[o]
OrderedAt(o) == \A i \in Ids : Holds(i, o) => /\ Held(i)[o] >= calls[i].wrote[o]
                                              /\ \A j \in Ids : Compared(i, j, o)
\* The records that calls have are as old as the calls, each with the one to send back for what was changed for it.
Ordered == \A o \in Objects \ crossed : OrderedAt(o)
\* One has the newest record, and the others wait for a call that has it.
NewestAt(o) ==
    \A i \in Ids : Holds(i, o) => \/ Held(i)[o] = stored[o]
                                  \/ \E j \in Ids : j # i /\ Holds(j, o) /\ i \in A!Callers(j) /\ Held(j)[o] = stored[o]
Newest == \A o \in Objects \ (crossed \cup dropped) : NewestAt(o)

\* Two calls are not above each other.
LEMMA OnlyOneIsAbove ==
    ASSUME Typed, Static, NEW i \in Ids, NEW j \in Ids, i \in calls[j].above, j \in calls[i].above
    PROVE  i = j
<1>1. i \in Nat /\ j \in Nat /\ i \in 1 .. j /\ j \in 1 .. i
  BY AboveIsChain
<1> QED BY <1>1

\* Fewer calls with the same records are ordered as before.
LEMMA KeptStaysOrdered ==
    ASSUME NEW o \in Objects, OrderedAt(o), Kept(o)
    PROVE  OrderedAt(o)'
<1>1. \A i \in Ids' : Holds(i, o)' => /\ i \in Ids /\ Holds(i, o) /\ calls'[i].above = calls[i].above
                                      /\ Held(i)'[o] = Held(i)[o] /\ calls'[i].wrote[o] = calls[i].wrote[o]
  BY DEF Kept
<1>2. ASSUME NEW i \in Ids', Holds(i, o)' PROVE Held(i)'[o] >= calls'[i].wrote[o] /\ \A j \in Ids' : Compared(i, j, o)'
  <2>1. i \in Ids /\ Holds(i, o)
    BY <1>1, <1>2
  <2>2. Held(i)'[o] >= calls'[i].wrote[o]
    BY <1>1, <1>2, <2>1 DEF OrderedAt
  <2>3. ASSUME NEW j \in Ids', Holds(j, o)' PROVE Compared(i, j, o)'
    <3>1. j \in Ids /\ Holds(j, o)
      BY <1>1, <2>3
    <3>2. Compared(i, j, o)
      BY <2>1, <3>1 DEF OrderedAt
    <3> QED BY <1>1, <1>2, <2>3, <3>1, <3>2 DEF Compared
  <2> QED BY <2>2, <2>3 DEF Compared
<1> QED BY <1>2 DEF OrderedAt

\* The caller has a record as new as that of the call, which had no older one than the caller.
LEMMA TakenStaysOrdered ==
    ASSUME Typed, Static, NEW o \in Objects, OrderedAt(o), NEW i, NEW b, Taken(i, b, o)
    PROVE  OrderedAt(o)'
<1>1. /\ i \in Ids /\ b \in Ids /\ i # b /\ b = calls[i].by /\ Ids' = Ids /\ ~Alive(i)'
      /\ \A j \in Ids : calls'[j].above = calls[j].above /\ (Lite(j)' <=> Lite(j)) /\ (j # i => (Alive(j)' <=> Alive(j)))
      /\ \A j \in Ids : j # b => calls'[j].wrote = calls[j].wrote /\ (~Lite(j) => Held(j)' = Held(j))
      /\ ~Lite(b) /\ Holds(i, o) /\ Held(b)'[o] = Held(i)[o]
      /\ calls'[b].wrote[o] = IF calls[i].wrote[o] > calls[b].wrote[o] THEN calls[i].wrote[o] ELSE calls[b].wrote[o]
  BY DEF Taken
<1>2. /\ calls[i].above = {i} \cup calls[b].above /\ b \in calls[b].above
      /\ \A j \in Ids : i \in calls[j].above => b \in calls[j].above
  <2>1. i # 0 /\ b # 0
    BY <1>1 DEF Typed, Ids
  <2>2. calls[i].above = {i} \cup calls[b].above /\ b \in calls[b].above
    BY <1>1, <2>1, AboveIsChain
  <2>3. \A j \in Ids : i \in calls[j].above => calls[i].above \subseteq calls[j].above
    BY AboveIsChain
  <2> QED BY <2>2, <2>3
<1>3. /\ \A j \in Ids : Holds(j, o)' /\ j # b => j # i /\ Holds(j, o) /\ Held(j)'[o] = Held(j)[o] /\ calls'[j].wrote[o] = calls[j].wrote[o]
      /\ ~Holds(i, o)' /\ (Holds(b, o)' => Alive(b))
  BY <1>1 DEF Holds
<1>4. \A j \in Ids : Held(j)[o] \in Nat /\ calls[j].wrote[o] \in Nat
  BY AreVersions DEF Versions
<1>5. ASSUME Holds(b, o)' PROVE Held(b)'[o] >= calls'[b].wrote[o]
  <2>1. Held(i)[o] >= calls[i].wrote[o]
    BY <1>1 DEF OrderedAt
  <2>2. CASE Holds(b, o)
    <3>1. Held(b)[o] >= calls[b].wrote[o] /\ Compared(b, i, o)
      BY <1>1, <2>2 DEF OrderedAt
    <3>2. Held(i)[o] >= Held(b)[o]
      BY <1>1, <1>2, <3>1 DEF Compared
    <3> QED BY <1>1, <1>4, <2>1, <3>1, <3>2
  <2>3. CASE ~Holds(b, o)
    <3>1. calls[b].wrote[o] = 0
      BY <1>1, <1>3, <1>5, <2>3 DEF Holds
    <3> QED BY <1>1, <1>4, <2>1, <3>1
  <2> QED BY <2>2, <2>3
<1>6. ASSUME NEW j \in Ids, Holds(j, o)', j # b
      PROVE  Compared(b, j, o)' /\ Compared(j, b, o)'
  <2>1. j # i /\ Holds(j, o) /\ Held(j)'[o] = Held(j)[o]
    BY <1>3, <1>6
  <2>2. Compared(i, j, o) /\ Compared(j, i, o)
    BY <1>1, <2>1 DEF OrderedAt
  <2>3. CASE i \in calls[j].above
    <3>1. b \in calls[j].above /\ Held(j)[o] >= Held(i)[o]
      BY <1>2, <2>1, <2>2, <2>3 DEF Compared
    <3>2. j \notin calls[b].above
      BY <1>1, <1>6, <3>1, OnlyOneIsAbove
    <3> QED BY <1>1, <2>1, <3>1, <3>2 DEF Compared
  <2>4. CASE j \in calls[i].above
    <3>1. j \in calls[b].above /\ Held(i)[o] >= Held(j)[o]
      BY <1>1, <1>2, <2>1, <2>2, <2>4 DEF Compared
    <3>2. b \notin calls[j].above
      BY <1>1, <1>6, <3>1, OnlyOneIsAbove
    <3> QED BY <1>1, <2>1, <3>1, <3>2 DEF Compared
  <2> QED BY <2>1, <2>2, <2>3, <2>4 DEF Compared
<1>7. ASSUME NEW j \in Ids, Holds(j, o)', j # b, NEW k \in Ids, Holds(k, o)', k # b
      PROVE  Compared(j, k, o)'
  <2>1. Holds(j, o) /\ Held(j)'[o] = Held(j)[o] /\ Holds(k, o) /\ Held(k)'[o] = Held(k)[o]
    BY <1>3, <1>7
  <2>2. Compared(j, k, o)
    BY <2>1 DEF OrderedAt
  <2> QED BY <1>1, <2>1, <2>2 DEF Compared
<1>8. Compared(b, b, o)'
  BY <1>1, <1>2, <1>4 DEF Compared
<1>9. ASSUME NEW j \in Ids, Holds(j, o)' PROVE Held(j)'[o] >= calls'[j].wrote[o]
  <2>1. CASE j = b
    BY <1>5, <1>9, <2>1
  <2>2. CASE j # b
    BY <1>3, <1>9, <2>2 DEF OrderedAt
  <2> QED BY <2>1, <2>2
<1>10. ASSUME NEW j \in Ids, Holds(j, o)', NEW k \in Ids, Holds(k, o)' PROVE Compared(j, k, o)'
  <2>1. CASE j = b /\ k = b
    BY <1>8, <2>1
  <2>2. CASE j = b /\ k # b
    BY <1>6, <1>10, <2>2
  <2>3. CASE j # b /\ k = b
    BY <1>6, <1>10, <2>3
  <2>4. CASE j # b /\ k # b
    BY <1>7, <1>10, <2>4
  <2> QED BY <2>1, <2>2, <2>3, <2>4
<1>11. \A j, k \in Ids : Holds(j, o)' => Compared(j, k, o)'
  BY <1>10 DEF Compared
<1> QED BY <1>1, <1>9, <1>11 DEF OrderedAt

\* The newest record belongs to the call that all others wait for.
LEMMA FreshStaysOrdered ==
    ASSUME Typed, Static, Bounded, NEW o \in Objects, OrderedAt(o), NEW i, Fresh(i, o), o \notin crossed'
    PROVE  OrderedAt(o)'
<1>1. /\ i \in Ids /\ Ids' = Ids
      /\ \A j \in Ids : calls'[j].above = calls[j].above /\ (Lite(j)' <=> Lite(j)) /\ (Alive(j)' <=> Alive(j))
      /\ \A j \in Ids : j # i => calls'[j] = calls[j] /\ (~Lite(j) => Held(j)' = Held(j))
      /\ ~Lite(i) => Held(i)'[o] = stored[o] + 1 /\ calls'[i].wrote[o] = stored[o] + 1
      /\ \A j \in Ids : Holds(j, o) => j # i /\ ~Lite(i) /\ j \in A!Callers(i)
  BY DEF Fresh
<1>2. \A j \in Ids : Held(j)[o] \in Nat /\ Held(j)[o] <= stored[o] /\ stored[o] \in Nat
  <2>1. \A j \in Ids : AtMost(Held(j))
    BY DEF Bounded, Held, Typed
  <2> QED BY <2>1, AreVersions DEF Versions, AtMost
<1>3. \A j \in Ids : Holds(j, o)' /\ j # i => Holds(j, o) /\ Held(j)'[o] = Held(j)[o] /\ calls'[j].wrote[o] = calls[j].wrote[o]
  BY <1>1 DEF Holds
<1>4. \A j \in Ids : Holds(j, o) => j # i /\ ~Lite(i) /\ j \in calls[i].above
  BY <1>1, CallersAre
<1>5. ASSUME Holds(i, o)' PROVE Held(i)'[o] = stored[o] + 1 /\ calls'[i].wrote[o] = stored[o] + 1
  BY <1>1, <1>5 DEF Holds
<1>6. ASSUME NEW j \in Ids, Holds(j, o)' PROVE Held(j)'[o] >= calls'[j].wrote[o]
  <2>1. CASE j = i
    BY <1>2, <1>5, <1>6, <2>1
  <2>2. CASE j # i
    BY <1>3, <1>6, <2>2 DEF OrderedAt
  <2> QED BY <2>1, <2>2
<1>7. ASSUME NEW j \in Ids, Holds(j, o)', NEW k \in Ids, Holds(k, o)' PROVE Compared(j, k, o)'
  <2>1. CASE j = i /\ k = i
    <3>1. i \in calls[i].above
      BY <1>1, AboveIsChain
    <3> QED BY <1>1, <1>2, <1>5, <1>7, <2>1, <3>1 DEF Compared
  <2>2. CASE j = i /\ k # i
    <3>1. k \in calls[i].above
      BY <1>3, <1>4, <1>7, <2>2
    <3>2. i \notin calls[k].above
      BY <1>1, <2>2, <3>1, OnlyOneIsAbove
    <3> QED BY <1>1, <2>2, <3>1, <3>2 DEF Compared
  <2>3. CASE j # i /\ k = i
    <3>1. j \in calls[i].above /\ Held(j)'[o] = Held(j)[o]
      BY <1>3, <1>4, <1>7, <2>3
    <3> QED BY <1>1, <1>2, <1>5, <1>7, <2>3, <3>1 DEF Compared
  <2>4. CASE j # i /\ k # i
    <3>1. Holds(j, o) /\ Held(j)'[o] = Held(j)[o] /\ Holds(k, o) /\ Held(k)'[o] = Held(k)[o]
      BY <1>3, <1>7, <2>4
    <3>2. Compared(j, k, o)
      BY <3>1 DEF OrderedAt
    <3> QED BY <1>1, <3>1, <3>2 DEF Compared
  <2> QED BY <2>1, <2>2, <2>3, <2>4
<1>8. \A j, k \in Ids : Holds(j, o)' => Compared(j, k, o)'
  BY <1>7 DEF Compared
<1> QED BY <1>1, <1>6, <1>8 DEF OrderedAt

\* Records are in the order of the calls.
LEMMA OrderedStays ==
    ASSUME Typed, Static, LiteAbove, Sends, Zeros, Bounded, Ordered, Steps
    PROVE  Ordered'
<1>1. ASSUME NEW o \in Objects, o \notin crossed' PROVE OrderedAt(o)'
  <2>1. o \notin crossed
    BY <1>1, StepsKeep
  <2>2. OrderedAt(o)
    BY <2>1 DEF Ordered
  <2>3. CASE Kept(o)
    BY <2>2, <2>3, KeptStaysOrdered
  <2>4. CASE \E i \in Ids : Taken(i, calls[i].by, o)
    BY <2>2, <2>4, TakenStaysOrdered
  <2>5. CASE \E i \in Ids : Fresh(i, o)
    BY <1>1, <2>2, <2>5, FreshStaysOrdered
  <2> QED BY <2>3, <2>4, <2>5, StepsKeep
<1> QED BY <1>1 DEF Ordered

\* Who had the newest record still has it.
LEMMA KeptStaysNewest ==
    ASSUME NEW o \in Objects, NewestAt(o), Kept(o), o \notin dropped'
    PROVE  NewestAt(o)'
<1>1. /\ stored'[o] = stored[o]
      /\ \A i \in Ids' : Holds(i, o)' => i \in Ids /\ Holds(i, o) /\ Held(i)'[o] = Held(i)[o]
      /\ \A i \in Ids : i \in Ids'
      /\ \A i, j \in Ids : Holds(i, o)' /\ Holds(j, o) /\ i # j /\ i \in A!Callers(j) => Holds(j, o)' /\ i \in A!Callers(j)'
  BY DEF Kept
<1>2. ASSUME NEW i \in Ids', Holds(i, o)', Held(i)'[o] # stored'[o]
      PROVE  \E j \in Ids' : j # i /\ Holds(j, o)' /\ i \in A!Callers(j)' /\ Held(j)'[o] = stored'[o]
  <2>1. i \in Ids /\ Holds(i, o) /\ Held(i)[o] # stored[o]
    BY <1>1, <1>2
  <2>2. PICK j \in Ids : j # i /\ Holds(j, o) /\ i \in A!Callers(j) /\ Held(j)[o] = stored[o]
    BY <2>1 DEF NewestAt
  <2>3. j \in Ids' /\ Holds(j, o)' /\ i \in A!Callers(j)'
    BY <1>1, <1>2, <2>1, <2>2
  <2> QED BY <1>1, <2>2, <2>3
<1> QED BY <1>2 DEF NewestAt

\* The call that has answered waits for nobody, and so has the newest record itself.
LEMMA AnsweredIsNewest ==
    ASSUME Typed, Static, Sends, NEW o \in Objects, NewestAt(o), NEW i \in Ids, Holds(i, o), calls[i].pc = "answered"
    PROVE  Held(i)[o] = stored[o] /\ \A j \in Ids : i \in A!Callers(j) => i = j
<1>1. i # 0
  BY DEF Typed, Ids
<1>2. \A d \in Ids : calls[d].by = i => ~Alive(d)
  BY <1>1 DEF Sends, Waiting
<1>3. \A j \in Ids : i \in A!Callers(j) => i = j
  BY <1>2, NoneWaits
<1> QED BY <1>3 DEF NewestAt

\* It goes to the caller, whom those wait for that waited for the call.
LEMMA TakenStaysNewest ==
    ASSUME Typed, Static, Sends, NEW o \in Objects, NewestAt(o), NEW i, NEW b, Taken(i, b, o)
    PROVE  NewestAt(o)'
<1>1. /\ i \in Ids /\ b \in Ids /\ i # b /\ b = calls[i].by /\ Ids' = Ids /\ stored'[o] = stored[o] /\ calls[i].pc = "answered"
      /\ \A j \in Ids : calls'[j].above = calls[j].above /\ (Lite(j)' <=> Lite(j)) /\ (j # i => (Alive(j)' <=> Alive(j)))
      /\ \A j \in Ids : j # b => calls'[j].wrote = calls[j].wrote /\ (~Lite(j) => Held(j)' = Held(j))
      /\ ~Alive(i)' /\ ~Lite(b) /\ Holds(i, o) /\ Held(b)'[o] = Held(i)[o]
      /\ calls'[b].wrote[o] = IF calls[i].wrote[o] > calls[b].wrote[o] THEN calls[i].wrote[o] ELSE calls[b].wrote[o]
  BY DEF Taken
<1>2. Held(i)[o] = stored[o] /\ \A j \in Ids : i \in A!Callers(j) => i = j
  BY <1>1, AnsweredIsNewest
<1>3. \A j \in Ids : j # b /\ Holds(j, o)' => j # i /\ Holds(j, o) /\ Held(j)'[o] = Held(j)[o]
  BY <1>1 DEF Holds
<1>4. calls'[b].wrote[o] # 0
  <2>1. calls[i].wrote[o] # 0 /\ calls[i].wrote[o] \in Nat /\ calls[b].wrote[o] \in Nat
    BY <1>1, AreVersions DEF Holds, Versions
  <2> QED BY <1>1, <2>1
<1>5. Alive(b) => Holds(b, o)' /\ Held(b)'[o] = stored'[o]
  BY <1>1, <1>2, <1>4 DEF Holds
<1>6. ASSUME NEW j \in Ids, j # i, NEW k \in Ids, k \in A!Callers(j) PROVE k \in A!Callers(j)'
  <2>1. i \notin A!Callers(j)
    BY <1>2, <1>6
  <2> QED BY <1>1, <1>6, <2>1, CallersStay
<1>7. ASSUME NEW k \in Ids, Holds(k, o)', Held(k)'[o] # stored'[o]
      PROVE  \E j \in Ids : j # k /\ Holds(j, o)' /\ k \in A!Callers(j)' /\ Held(j)'[o] = stored'[o]
  <2>1. k # b
    BY <1>1, <1>2, <1>7
  <2>2. Holds(k, o) /\ k # i /\ Held(k)[o] # stored[o]
    BY <1>1, <1>3, <1>7, <2>1
  <2>3. PICK j \in Ids : j # k /\ Holds(j, o) /\ k \in A!Callers(j) /\ Held(j)[o] = stored[o]
    BY <2>2 DEF NewestAt
  <2>4. CASE j = i
    <3>1. k \in calls[i].above /\ \A e \in calls[i].above : k \in calls[e].above => Alive(e)
      BY <2>3, <2>4, CallersAre
    <3>2. b # 0 /\ calls[i].above = {i} \cup calls[b].above /\ b \in calls[b].above
      <4>1. 0 \notin Ids
        BY DEF Typed, Ids
      <4> QED BY <1>1, <4>1, AboveIsChain
    <3>3. k \in calls[b].above /\ Alive(b)
      BY <2>2, <3>1, <3>2
    <3>4. k \in A!Callers(b)
      BY <3>1, <3>2, <3>3, CallersAre
    <3>5. k \in A!Callers(b)'
      BY <1>1, <1>6, <3>4
    <3> QED BY <1>1, <1>5, <2>1, <3>3, <3>5
  <2>5. CASE j = b
    <3>1. k \in A!Callers(b)' /\ Alive(b)
      BY <1>1, <1>6, <2>3, <2>5 DEF Holds
    <3> QED BY <1>1, <1>5, <2>1, <3>1
  <2>6. CASE j # i /\ j # b
    <3>1. Holds(j, o)' /\ Held(j)'[o] = Held(j)[o]
      BY <1>1, <2>3, <2>6 DEF Holds
    <3>2. k \in A!Callers(j)'
      BY <1>6, <2>3, <2>6
    <3> QED BY <1>1, <2>3, <3>1, <3>2
  <2> QED BY <2>4, <2>5, <2>6
<1> QED BY <1>1, <1>7 DEF NewestAt

\* All that have a record wait for the call that stores another one.
LEMMA FreshStaysNewest ==
    ASSUME Typed, Static, NEW o \in Objects, NEW i, Fresh(i, o), o \notin crossed'
    PROVE  NewestAt(o)'
<1>1. /\ i \in Ids /\ Ids' = Ids /\ stored'[o] = stored[o] + 1 /\ stored[o] \in Nat
      /\ \A j \in Ids : calls'[j].above = calls[j].above /\ (Lite(j)' <=> Lite(j)) /\ (Alive(j)' <=> Alive(j))
      /\ \A j \in Ids : j # i => calls'[j] = calls[j]
      /\ ~Lite(i) => Held(i)'[o] = stored[o] + 1 /\ calls'[i].wrote[o] = stored[o] + 1
      /\ Alive(i)
      /\ \A j \in Ids : Holds(j, o) => j # i /\ ~Lite(i) /\ j \in A!Callers(i)
  BY AreVersions DEF Fresh, Versions
<1>2. ASSUME NEW k \in Ids, Holds(k, o)', k # i
      PROVE  \E j \in Ids : j # k /\ Holds(j, o)' /\ k \in A!Callers(j)' /\ Held(j)'[o] = stored'[o]
  <2>1. Holds(k, o)
    BY <1>1, <1>2 DEF Holds
  <2>2. ~Lite(i) /\ k \in A!Callers(i)
    BY <1>1, <2>1
  <2>3. k \in A!Callers(i)'
    BY <1>1, <2>2, CallersStay
  <2>4. Holds(i, o)' /\ Held(i)'[o] = stored'[o]
    BY <1>1, <2>2 DEF Holds
  <2> QED BY <1>1, <1>2, <2>3, <2>4
<1>3. Holds(i, o)' => Held(i)'[o] = stored'[o]
  BY <1>1 DEF Holds
<1> QED BY <1>1, <1>2, <1>3 DEF NewestAt

\* The newest record is with the call that the others wait for.
LEMMA NewestStays ==
    ASSUME Typed, Static, LiteAbove, Sends, Zeros, Newest, Steps
    PROVE  Newest'
<1>1. ASSUME NEW o \in Objects, o \notin crossed', o \notin dropped' PROVE NewestAt(o)'
  <2>1. o \notin crossed /\ o \notin dropped
    BY <1>1, StepsKeep
  <2>2. NewestAt(o)
    BY <2>1 DEF Newest
  <2>3. CASE Kept(o)
    BY <1>1, <2>2, <2>3, KeptStaysNewest
  <2>4. CASE \E i \in Ids : Taken(i, calls[i].by, o)
    BY <2>2, <2>4, TakenStaysNewest
  <2>5. CASE \E i \in Ids : Fresh(i, o)
    BY <1>1, <2>5, FreshStaysNewest
  <2> QED BY <2>3, <2>4, <2>5, StepsKeep
<1> QED BY <1>1 DEF Newest

-----------------------------------------------------------------------------
\* What was answered in a lite session is the newest record, if it is one at all.
LiteNew(i, o) == Lite(i) /\ calls[i].pc = "answered" => calls[i].snap[o] \in {0, stored[o]}
LiteNewest == \A o \in Objects \ (crossed \cup outdated) : \A i \in Ids : LiteNew(i, o)

\* Between an answer and its receipt nothing is stored, unless calls cross.
LEMMA LiteNewestStays ==
    ASSUME Typed, Static, Sends, Bounded, LiteNewest, Steps
    PROVE  LiteNewest'
<1>1. ASSUME stored' = stored, crossed' = crossed, outdated' = outdated, NEW i \in Ids, Ids \subseteq Ids',
             \A j \in Ids : Lite(j)' <=> Lite(j),
             \A j \in Ids : calls'[j].snap = calls[j].snap /\ (calls'[j].pc = "answered" => calls[j].pc = "answered"),
             \A j \in Ids' : j \in Ids \/ calls'[j].pc # "answered"
      PROVE  LiteNewest'
  BY <1>1 DEF LiteNewest, LiteNew
<1>2. ASSUME NEW b, NEW r, Added(Len(calls) + 1, b, r) PROVE LiteNewest'
  <2>1. PICK n : n = Len(calls) + 1 /\ Added(n, b, r)
    BY <1>2
  <2>2. /\ Ids' = Ids \cup {n} /\ calls'[n] = r
        /\ \A i \in Ids : calls'[i] = calls[i] /\ (Lite(i)' <=> Lite(i))
    BY <2>1, AddedKeeps
  <2>3. stored' = stored /\ crossed' = crossed /\ outdated' = outdated /\ r.pc = "run"
    BY <2>1 DEF Added, SameRecords
  <2> QED BY <2>2, <2>3 DEF LiteNewest, LiteNew
<1>3. ASSUME NEW i \in Ids, Edited(i) PROVE LiteNewest'
  <2>1. stored' = stored /\ crossed' = crossed /\ outdated' = outdated /\ calls' = calls /\ Ids' = Ids
    BY <1>3 DEF Edited, SameRecords, Ids
  <2>2. \A j \in Ids : Lite(j)' <=> Lite(j)
    BY <1>3, EditedKeeps
  <2> QED BY <2>1, <2>2 DEF LiteNewest, LiteNew
<1>4. ASSUME NEW i \in Ids, Returned(i) \/ Failed(i) PROVE LiteNewest'
  <2>1. /\ Same /\ stored' = stored /\ crossed' = crossed /\ outdated' = outdated /\ calls'[i].pc = "done" /\ calls'[i].snap = calls[i].snap
        /\ \A j \in Ids : (Lite(j)' <=> Lite(j)) /\ (j # i => calls'[j] = calls[j])
    BY <1>4, MovedKeeps DEF Returned, Failed, Moved
  <2>2. Ids' = Ids
    BY <2>1, SameKeeps
  <2> QED BY <2>1, <2>2 DEF LiteNewest, LiteNew
<1>5. ASSUME NEW i \in Ids, Replied(i) PROVE LiteNewest'
  <2>1. /\ Same /\ stored' = stored /\ crossed' = crossed /\ calls'[i].pc = "answered" /\ calls'[i].snap = Held(i)
        /\ outdated' = outdated \cup {o \in Objects : Lite(i) /\ Held(i)[o] \in 1 .. stored[o] - 1}
        /\ \A j \in Ids : (Lite(j)' <=> Lite(j)) /\ (j # i => calls'[j] = calls[j])
    BY <1>5, MovedKeeps DEF Replied, Moved
  <2>2. Ids' = Ids
    BY <2>1, SameKeeps
  <2>3. ASSUME NEW o \in Objects, o \notin outdated', Lite(i) PROVE Held(i)[o] \in {0, stored[o]}
    <3>1. Held(i)[o] \in Nat /\ stored[o] \in Nat /\ Held(i)[o] <= stored[o]
      <4>1. AtMost(Held(i))
        BY DEF Bounded, Held, Typed
      <4> QED BY <4>1, AreVersions DEF Versions, AtMost
    <3>2. Held(i)[o] \notin 1 .. stored[o] - 1
      BY <2>1, <2>3
    <3> QED BY <3>1, <3>2
  <2>4. \A o \in Objects \ (crossed' \cup outdated') : LiteNew(i, o)'
    BY <2>1, <2>3 DEF LiteNew
  <2>5. ASSUME NEW o \in Objects \ (crossed' \cup outdated'), NEW j \in Ids, j # i PROVE LiteNew(j, o)'
    <3>1. LiteNew(j, o)
      BY <2>1 DEF LiteNewest
    <3> QED BY <2>1, <2>5, <3>1 DEF LiteNew
  <2> QED BY <2>2, <2>4, <2>5 DEF LiteNewest
<1>6. ASSUME NEW i \in Ids, Received(i, calls[i].by) PROVE LiteNewest'
  <2>1. PICK b : b = calls[i].by /\ Received(i, b)
    BY <1>6
  <2>2. /\ Same /\ stored' = stored /\ crossed' = crossed /\ outdated' = outdated
        /\ \A j \in Ids : (j # i => calls'[j].pc = calls[j].pc) /\ calls'[j].snap = calls[j].snap
        /\ calls'[i].pc = "done"
    BY <2>1, AnswerIsReceived DEF Received
  <2>3. Ids' = Ids /\ \A j \in Ids : Lite(j)' <=> Lite(j)
    BY <2>2, SameKeeps
  <2>4. ASSUME NEW o \in Objects \ (crossed' \cup outdated'), NEW j \in Ids PROVE LiteNew(j, o)'
    <3>1. LiteNew(j, o)
      BY <2>2 DEF LiteNewest
    <3> QED BY <2>2, <2>3, <3>1 DEF LiteNew
  <2> QED BY <2>3, <2>4 DEF LiteNewest
<1>7. ASSUME NEW i \in Ids, NEW p \in Objects, Stored(i, p) PROVE LiteNewest'
  <2>1. /\ Same /\ (\A j \in Ids : j # i => calls'[j] = calls[j])
        /\ \A q \in Objects : stored'[q] = IF q = p THEN stored[p] + 1 ELSE stored[q]
        /\ calls[i].pc = "run" /\ calls'[i].pc = "stored" /\ outdated' = outdated /\ crossed \subseteq crossed'
        /\ p \notin crossed' => \A d \in Ids \ A!Callers(i) : Alive(d) => p \notin A!ToSend(d)
    BY <1>7 DEF Stored, SameBut
  <2>2. Ids' = Ids /\ \A j \in Ids : Lite(j)' <=> Lite(j)
    BY <2>1, SameKeeps
  <2>3. ASSUME NEW o \in Objects, o \notin crossed', o \notin outdated', NEW j \in Ids PROVE LiteNew(j, o)'
    <3>1. LiteNew(j, o)
      BY <2>1, <2>3 DEF LiteNewest
    <3>2. CASE j = i
      BY <2>1, <3>2 DEF LiteNew
    <3>3. CASE j # i /\ o # p
      BY <2>1, <2>2, <3>1, <3>3 DEF LiteNew
    <3>4. CASE j # i /\ o = p
      <4>1. ASSUME calls[j].pc = "answered", calls[j].snap[o] # 0 PROVE FALSE
        <5>1. Alive(j) /\ o \in A!ToSend(j)
          BY <4>1 DEF Alive, A!ToSend
        <5>2. j \in A!Callers(i)
          BY <2>1, <2>3, <3>4, <5>1
        <5>3. PICK k \in Ids : calls[k].by = j /\ Alive(k)
          BY <3>4, <5>2, CallerHasChild
        <5>4. j # 0
          BY DEF Typed, Ids
        <5> QED BY <4>1, <5>3, <5>4 DEF Sends, Waiting
      <4> QED BY <2>1, <3>4, <4>1 DEF LiteNew
    <3> QED BY <3>2, <3>3, <3>4
  <2> QED BY <2>2, <2>3 DEF LiteNewest
<1> QED BY <1>2, <1>3, <1>4, <1>5, <1>6, <1>7 DEF Steps

NoOlder == aged \subseteq crossed \cup outdated \cup dropped

\* What is answered with is no record, or the newest one.
LEMMA AnswersAreNewest ==
    ASSUME Typed, Static, Sends, Zeros, Newest, LiteNewest, NEW i \in Ids, calls[i].pc = "answered",
           NEW o \in Objects, o \notin crossed \cup outdated \cup dropped
    PROVE  calls[i].snap[o] \in {0, stored[o]}
<1>1. CASE Lite(i)
  BY <1>1 DEF LiteNewest, LiteNew
<1>2. CASE ~Lite(i)
  <2>1. calls[i].snap = Held(i)
    BY <1>2 DEF Sends, Sending
  <2>2. CASE calls[i].wrote[o] = 0
    BY <1>2, <2>1, <2>2 DEF Zeros, Zero
  <2>3. CASE calls[i].wrote[o] # 0
    <3>1. Holds(i, o) /\ NewestAt(o)
      BY <1>2, <2>3 DEF Holds, Alive, Newest
    <3> QED BY <2>1, <3>1, AnsweredIsNewest
  <2> QED BY <2>2, <2>3
<1> QED BY <1>1, <1>2

\* A process takes older records only from calls that crossed, that were outdated, or that dropped some.
LEMMA NoOlderStays ==
    ASSUME Typed, Static, Sends, Zeros, Bounded, Newest, LiteNewest, NoOlder, Steps
    PROVE  NoOlder'
<1>1. crossed \subseteq crossed' /\ dropped \subseteq dropped' /\ outdated \subseteq outdated'
  BY DEF Steps, Added, SameRecords, Edited, Replied, Returned, Failed, Moved, Received, Stored
<1>2. CASE aged' = aged
  BY <1>1, <1>2 DEF NoOlder
<1>3. ASSUME NEW i \in Ids, Received(i, calls[i].by), aged' # aged PROVE NoOlder'
  <2>1. PICK b : b = calls[i].by /\ Received(i, b)
    BY <1>3
  <2>2. calls[i].pc = "answered" /\ UNCHANGED <<stored, crossed, outdated, dropped>>
    BY <2>1 DEF Received
  <2>3. PICK p \in Processes : Registered(b, p, calls[i].snap)
    BY <1>3, <2>1 DEF Received
  <2>4. ASSUME NEW o \in aged', o \notin aged, o \notin crossed \cup outdated \cup dropped PROVE FALSE
    <3>1. o \in Objects /\ heard'[p][o] < heard[p][o]
      BY <2>3, <2>4 DEF Registered
    <3>2. heard'[p][o] = IF calls[i].snap[o] # 0 THEN calls[i].snap[o] ELSE heard[p][o]
      BY <2>3, <3>1 DEF Registered
    <3>3. heard[p][o] \in Nat /\ stored[o] \in Nat /\ heard[p][o] <= stored[o]
      BY <3>1, AreVersions DEF Versions, Bounded, AtMost
    <3>4. calls[i].snap[o] \in {0, stored[o]}
      BY <2>2, <2>4, <3>1, AnswersAreNewest
    <3> QED BY <3>1, <3>2, <3>3, <3>4
  <2> QED BY <2>2, <2>4 DEF NoOlder
<1>4. ASSUME NEW i \in Ids, NEW o \in Objects, Stored(i, o) PROVE aged' \subseteq aged
  <2>1. PICK recs : (\A q \in Objects : recs[q] = IF q = o THEN stored[o] + 1 ELSE 0) /\ Registered(i, A!Home, recs)
    BY <1>4 DEF Stored
  <2>2. A!Home \in Processes
    BY ServersExist DEF Processes
  <2>3. ASSUME NEW q \in aged', q \notin aged PROVE FALSE
    <3>1. q \in Objects /\ heard'[A!Home][q] < heard[A!Home][q]
      BY <2>1, <2>3 DEF Registered
    <3>2. heard'[A!Home][q] = IF recs[q] # 0 THEN recs[q] ELSE heard[A!Home][q]
      BY <2>1, <3>1 DEF Registered
    <3>3. heard[A!Home][q] \in Nat /\ stored[q] \in Nat /\ heard[A!Home][q] <= stored[q]
      BY <2>2, <3>1, AreVersions DEF Versions, Bounded, AtMost
    <3>4. recs[q] = IF q = o THEN stored[q] + 1 ELSE 0
      BY <2>1, <3>1
    <3> QED BY <3>1, <3>2, <3>3, <3>4
  <2> QED BY <2>3
<1>5. CASE \E i \in Ids, o \in Objects : Stored(i, o)
  BY <1>1, <1>4, <1>5 DEF NoOlder
<1>6. CASE \E i \in Ids : Edited(i) \/ Replied(i) \/ Returned(i) \/ Failed(i)
  BY <1>2, <1>6 DEF Edited, Replied, Returned, Failed, Moved, SameRecords
<1>7. CASE \E b, r : Added(Len(calls) + 1, b, r)
  BY <1>2, <1>7 DEF Added, SameRecords
<1> QED BY <1>2, <1>3, <1>5, <1>6, <1>7 DEF Steps

-----------------------------------------------------------------------------
\* What each step of the calls keeps.
CallsInv ==
    /\ Typed /\ Static /\ LiteAbove /\ Sends
    /\ Bounded /\ Zeros /\ LiteSends /\ Ordered /\ Newest /\ LiteNewest /\ NoOlder

\* There are no calls at first.
LEMMA CallsInit == A!Init => CallsInv
<1> SUFFICES ASSUME A!Init PROVE CallsInv
  OBVIOUS
<1>1. /\ stored = [o \in Objects |-> 1] /\ heard = [p \in Processes |-> A!Nothing]
      /\ sessions = [p \in A!Servers |-> A!LiteSession] /\ calls = << >>
      /\ crossed = {} /\ outdated = {} /\ dropped = {} /\ disturbed = {} /\ aged = {}
  BY DEF A!Init, Processes
<1>2. Ids = {} /\ Len(calls) = 0
  BY <1>1 DEF Ids
<1>3. sessions \in Seq(SessionType) /\ Len(sessions) = NServers /\ \A s \in DOMAIN sessions : sessions[s] = A!LiteSession
  <2>1. A!LiteSession \in SessionType /\ A!Servers = 1 .. NServers /\ NServers \in Nat
    BY ServersExist, NewSessions
  <2> QED BY <1>1, <2>1
<1>4. Typed
  <2>1. stored \in Records /\ heard \in [Processes -> Records]
    BY <1>1, NothingIsRecords DEF Records
  <2>2. calls \in Seq(CallType)
    BY <1>1
  <2>3. \A s \in DOMAIN sessions : sessions[s].lite <=> s <= NServers
    BY <1>3, NewSessions, ServersExist
  <2> QED BY <1>2, <1>3, <2>1, <2>2, <2>3, ServersExist DEF Typed
<1>5. Bounded
  <2>1. AtMost(A!Nothing)
    BY <1>1, NothingIsRecords DEF AtMost
  <2>2. \A s \in DOMAIN sessions : AtMost(sessions[s].snap)
    BY <1>3, <2>1 DEF A!LiteSession
  <2> QED BY <1>1, <1>2, <2>1, <2>2 DEF Bounded
<1>6. Static /\ LiteAbove /\ Sends /\ Zeros /\ LiteSends /\ LiteNewest
  BY <1>1, <1>2 DEF Static, Updates, Chains, Alone, LiteAbove, Sends, Unstaged, Waiting, Flags, Zeros, LiteSends, LiteNewest
<1>7. Ordered /\ Newest /\ NoOlder
  BY <1>1, <1>2 DEF Ordered, OrderedAt, Newest, NewestAt, NoOlder
<1> QED BY <1>4, <1>5, <1>6, <1>7 DEF CallsInv

\* Each step of the calls keeps the invariant.
LEMMA CallsNext == CallsInv /\ A!Next => CallsInv'
<1> SUFFICES ASSUME CallsInv, A!Next PROVE CallsInv'
  OBVIOUS
<1>1. /\ Typed /\ Static /\ LiteAbove /\ Sends
      /\ Bounded /\ Zeros /\ LiteSends /\ Ordered /\ Newest /\ LiteNewest /\ NoOlder
  BY DEF CallsInv
<1>2. Steps
  <2>1. Updates
    BY <1>1 DEF Static
  <2> QED BY <1>1, <2>1, NextSteps
<1>3. Typed' /\ Static' /\ LiteAbove' /\ Sends'
  <2>1. Unstaged
    BY <1>1 DEF Sends
  <2> QED BY <1>1, <1>2, <2>1, StepsAreTyped, StaticStays, LiteAboveStays, SendsStay
<1>4. Bounded' /\ Zeros' /\ LiteSends'
  BY <1>1, <1>2, BoundedStays, ZerosStay, LiteSendsStay
<1>5. Ordered' /\ Newest' /\ LiteNewest' /\ NoOlder'
  BY <1>1, <1>2, OrderedStays, NewestStays, LiteNewestStays, NoOlderStays
<1> QED BY <1>3, <1>4, <1>5 DEF CallsInv

\* And so do the steps of other parts.
LEMMA CallsStutter == CallsInv /\ UNCHANGED actionvars => CallsInv'
<1> SUFFICES ASSUME CallsInv, UNCHANGED actionvars PROVE CallsInv'
  OBVIOUS
<1> USE DEF actionvars
<1>0. /\ Typed /\ Updates /\ Chains /\ Alone /\ (\A i \in Ids : Related(i)) /\ LiteAbove
      /\ Unstaged /\ Waiting /\ Flags /\ \A i \in Ids : Sending(i)
  BY DEF CallsInv, Static, Sends
<1>1. Typed' /\ Static' /\ LiteAbove' /\ Sends'
  <2>1. Typed'
    BY <1>0 DEF Typed, Ids
  <2>2. Updates' /\ Chains'
    BY <1>0 DEF Updates, Chains, Chain, Ids
  <2>3. Alone' /\ LiteAbove' /\ \A i \in Ids' : Related(i)'
    BY <1>0 DEF Alone, LiteAbove, Related, Ids, Lite
  <2>4. Unstaged' /\ Waiting' /\ Flags' /\ \A i \in Ids' : Sending(i)'
    BY <1>0 DEF Unstaged, Waiting, Flags, Sending, Ids, Lite, Held, Alive, Open
  <2> QED BY <2>1, <2>2, <2>3, <2>4 DEF Static, Sends
<1>2. Bounded' /\ Zeros' /\ LiteSends' /\ LiteNewest' /\ NoOlder'
  BY DEF CallsInv, Bounded, AtMost, Zeros, Zero, LiteSends, LiteSend, LiteNewest, LiteNew, NoOlder, Ids, Lite, Held, Open
<1>3. Ordered'
  BY DEF CallsInv, Ordered, OrderedAt, Compared, Holds, Ids, Lite, Held, Alive
<1>4. Newest'
  BY DEF CallsInv, Newest, NewestAt, Holds, Ids, Lite, Held, Alive, A!Callers, A!Alive
<1> QED BY <1>1, <1>2, <1>3, <1>4 DEF CallsInv

\* The invariant says enough.
LEMMA CallsAreKnown == CallsInv => RecordsAreKnown
<1> SUFFICES ASSUME CallsInv PROVE RecordsAreKnown
  OBVIOUS
<1>1. A!NoOlderRecord
  BY DEF CallsInv, NoOlder, A!NoOlderRecord
<1>2. ASSUME NEW i \in DOMAIN calls, NEW o \in Objects, calls[i].pc = "answered", i \notin disturbed, o \notin crossed
      PROVE  calls[i].snap[o] >= calls[i].wrote[o]
  <2>1. i \in Ids /\ Typed
    BY DEF Ids, CallsInv
  <2>2. CASE Lite(i)
    BY <1>2, <2>1, <2>2 DEF CallsInv, LiteSends, LiteSend
  <2>3. CASE ~Lite(i)
    <3>1. calls[i].snap = Held(i)
      BY <1>2, <2>1, <2>3 DEF CallsInv, Sends, Sending
    <3>2. Held(i)[o] \in Nat /\ calls[i].wrote[o] \in Nat
      BY <2>1, AreVersions DEF Versions
    <3>3. CASE calls[i].wrote[o] = 0
      BY <3>1, <3>2, <3>3
    <3>4. CASE calls[i].wrote[o] # 0
      <4>1. Holds(i, o)
        BY <1>2, <2>3, <3>4 DEF Holds, Alive
      <4> QED BY <1>2, <2>1, <3>1, <4>1 DEF CallsInv, Ordered, OrderedAt
    <3> QED BY <3>3, <3>4
  <2> QED BY <2>2, <2>3
<1>3. A!RecordsComeBack
  BY <1>2 DEF A!RecordsComeBack
<1> QED BY <1>1, <1>3 DEF RecordsAreKnown, A!RecordsAreKnown

\* Changed records come back to the caller and are taken for older ones only (RecordsAreKnown, of Actions), for any
\* number of calls, servers, objects and edits: neither chains of transactions across processes nor failures lose a record or
\* bring an old one back, but where calls cross, share a lite session, fail, or are nested actions of a transaction.
THEOREM Known == Spec => []RecordsAreKnown
<1>1. Init => CallsInv
  BY CallsInit DEF Init
<1>2. CallsInv /\ [Next]_<<part, cachevars, routingvars, actionvars>> => CallsInv'
  BY CallsNext, CallsStutter DEF Next
<1> QED BY <1>1, <1>2, CallsAreKnown, PTL DEF Spec

-----------------------------------------------------------------------------
\* What a request fits, as NodeRouting says, with the request as a parameter.
Fit(q, f) == f.id = q.id /\ q.role \in {"any", f.role}
Fitting(q, S) == {f \in S : Fit(q, f)}
ScopeOf(q) == IF q.private /\ q.scope # "process" THEN "node" ELSE q.scope
Local(q) == ScopeOf(q) = "process" \/ (ScopeOf(q) = "node" /\ q.worker = q.from[2])
Place(f) == <<f.node, f.worker>>
Origin(q, f) == Place(f) = q.from /\ (q.broadcast => Local(q))
Meant(q, f) == /\ q.node \in {None, f.node} /\ q.worker \in {None, f.worker}
               /\ q.private \/ (q.worker # None /\ q.node = None) => f.node = q.from[1]
               /\ q.worker = None => f.role # "$worker"
Allowed(q, S) == {f \in Fitting(q, S) : Origin(q, f) \/ (~Local(q) /\ Meant(q, f))}

\* The operators of NodeRouting are these ones.
LEMMA SameTargets ==
    /\ \A S : R!Found(S) = Fitting(req, S)
    /\ R!Homebound = Local(req)
    /\ \A S : R!Targets(S) = Allowed(req, S)
BY DEF R!Found, R!Fits, Fitting, Fit, R!Homebound, R!Scope, Local, ScopeOf, R!Targets, Allowed, Origin, Place, Meant

\* Frames of agents other than the nodes' own, and those
Ordinary == Places \cup (UNION Deployments)
Roots == {R!Root(p) : p \in R!Processes}
\* All frames there are or will be, if none is started or stopped
Everything(l) == (UNION {l[n] : n \in Nodes}) \cup Roots

\* What may become of a copy
Stages == {"call", "frwd", "send", "tcp", "recv", "exec", "ran", "not found", "not allowed", "no worker", "lost"}
Refused == {"not found", "not allowed", "no worker", "lost"}
IsCopy(x) == x = [at |-> x.at, step |-> x.step, frame |-> x.frame] /\ x.step \in Stages

\* A node, a master and a process that the options allow
Chosen(q, m) == /\ ~Local(q) /\ q.node \in {None, m} /\ m \in Nodes
                /\ q.worker # None /\ q.node = None => m = q.from[1]
Entered(q, m) == Chosen(q, m) /\ (q.private => m = q.from[1])
Given(q, p) == Entered(q, p[1]) /\ q.worker \in {None, p[2]} /\ (q.worker = None /\ q.id \in Nodes => p[2] = 0)

\* Where a copy may be
InPlace(q, x) ==
    /\ x.step \in {"call", "frwd"} => x.at = q.from
    /\ x.step = "send" => x.at = R!Master(q.from[1]) /\ ~Local(q)
    /\ x.step = "tcp" => \E m \in Nodes : x.at = R!Master(m) /\ Chosen(q, m) /\ m # q.from[1]
    /\ x.step = "recv" => \E m \in Nodes : x.at = R!Master(m) /\ Entered(q, m)
    /\ x.step = "exec" => x.at \in R!Processes /\ ((x.at = q.from /\ (q.broadcast => Local(q))) \/ Given(q, x.at))
    /\ x.step = "ran" => x.frame \in Allowed(q, {x.frame})

\* A request that is no broadcast gets to a frame, if there is one
OnItsWay(q, S, x) ==
    /\ x.step \in {"send", "tcp", "recv"} => Fitting(q, R!At(S, q.from)) = {}
    /\ x.step = "exec" => Fitting(q, R!At(S, x.at)) # {} \/ Allowed(q, S) = {}
    /\ x.step \in {"tcp", "recv"} => Allowed(q, S) = {} \/ \E g \in Allowed(q, S) : g.node = x.at[1]
    /\ x.step \in Refused => Allowed(q, S) = {}
    /\ x.step = "ran" => x.frame \in S

\* The frames as they are while processes start, and nothing else changes
Tables(S) ==
    /\ known = [n \in Nodes |-> Nodes]
    /\ \A n \in Nodes : global[n] = UNION {local[m] : m \in Nodes}
    /\ frames \subseteq S /\ \A f \in S : Place(f) \notin booting => f \in frames
    
\* The state and what its parts have to do with each other
RouteType ==
    /\ req \in Requests
    /\ booting \subseteq R!Processes /\ req.from \notin booting
    /\ local \in [Nodes -> SUBSET Ordinary] /\ global \in [Nodes -> SUBSET Ordinary] /\ known \in [Nodes -> SUBSET Nodes]
    /\ \A n \in Nodes : \A f \in local[n] : f.node = n
    /\ frames \subseteq Ordinary \cup Roots
    /\ changes \in Nat
    /\ \A k \in DOMAIN copies : IsCopy(copies[k])
    /\ copies = [k \in DOMAIN copies |-> copies[k]]
\* Nothing was started or stopped.
Still == changes = 0
\* The invariant for one copy
Routed ==
    /\ RouteType
    /\ \A k \in DOMAIN copies : InPlace(req, copies[k])
    /\ Still => Tables(Everything(local))
    /\ Still /\ ~req.broadcast => DOMAIN copies = {1} /\ OnItsWay(req, Everything(local), copies[1])

-----------------------------------------------------------------------------
\* What RoutingAssumption says, one at a time.
LEMMA Constants ==
    /\ \A f \in Ordinary : f.id \notin Nodes /\ f.role # "$worker" /\ Place(f) \in R!Processes
    /\ \A q \in Requests : q.from \in R!Processes /\ q.node \in Nodes \cup {None}
    /\ \A q \in Requests : q.broadcast => q.node = None /\ q.worker = None
    /\ 1 \in Workers /\ 0 \notin Workers /\ None \notin Nodes /\ MaxChanges \in Nat /\ Booting \subseteq SUBSET R!Processes
BY ProcessAssumption DEF R!RoutingAssumption, Ordinary, Place

\* The nodes' own agents run in each process.
LEMMA RootsAre ==
    /\ \A f \in Roots : f.id = f.node /\ f.id \in Nodes /\ Place(f) \in R!Processes /\ f = R!Root(Place(f))
    /\ \A p \in R!Processes : Place(R!Root(p)) = p /\ R!Root(p) \in Roots /\ R!Root(p).id = p[1] /\ p[1] \in Nodes
    /\ \A f \in Roots : f.role = IF f.worker = 0 THEN "$master" ELSE "$worker"
    /\ \A n \in Nodes : R!Master(n) \in R!Processes /\ R!Root(R!Master(n)).role = "$master"
BY DEF Roots, R!Root, R!Processes, Place, R!Master

\* All frames are on the nodes; a frame is one of its node's table or a node's own agent.
LEMMA PlacesAre ==
    ASSUME RouteType, NEW f \in Everything(local)
    PROVE  /\ Place(f) \in R!Processes /\ f.node \in Nodes
           /\ f \in local[f.node] \/ f \in Roots
           /\ f \in local[f.node] => f \in Ordinary /\ f.id \notin Nodes /\ f.role # "$worker"
<1>1. CASE f \in Roots
  <2>1. Place(f) \in R!Processes /\ f.node \in Nodes /\ f.id \in Nodes
    BY <1>1, RootsAre
  <2>2. f \notin Ordinary
    BY <2>1, Constants
  <2>3. f \notin local[f.node]
    BY <2>1, <2>2 DEF RouteType
  <2> QED BY <1>1, <2>1, <2>3
<1>2. CASE f \notin Roots
  <2>0. f \in UNION {local[n] : n \in Nodes}
    BY <1>2 DEF Everything
  <2>1. PICK n \in Nodes : f \in local[n]
    BY <2>0
  <2>2. f.node = n /\ f \in Ordinary
    BY <2>1 DEF RouteType
  <2> QED BY <2>1, <2>2, Constants
<1> QED BY <1>1, <1>2

\* A step of one copy
Goes(k, p, step, f) ==
    /\ DOMAIN copies' = DOMAIN copies
    /\ copies'[k] = [at |-> p, step |-> step, frame |-> f]
    /\ \A j \in DOMAIN copies : j # k => copies'[j] = copies[j]
    /\ copies' = [j \in DOMAIN copies' |-> copies'[j]]

\* What a step of one copy makes of it.
LEMMA StepGoes ==
    ASSUME RouteType, NEW k \in DOMAIN copies, NEW p, NEW s
    PROVE  /\ R!Step(k, p, s) => Goes(k, p, s, copies[k].frame)
           /\ \A f : copies' = [copies EXCEPT ![k].step = s, ![k].frame = f] => Goes(k, copies[k].at, s, f)
           /\ \A m, n : copies' = [copies EXCEPT ![k] = R!Towards(n, m)] => Goes(k, R!Master(m), IF m = n THEN "recv" ELSE "tcp", None)
<1>1. PICK a, b, e : copies[k] = [at |-> a, step |-> b, frame |-> e]
  BY DEF RouteType, IsCopy
<1>2. copies = [j \in DOMAIN copies |-> copies[j]]
  BY DEF RouteType
<1>3. R!Step(k, p, s) => Goes(k, p, s, copies[k].frame)
  BY <1>1, <1>2 DEF R!Step, Goes
<1>4. ASSUME NEW f, copies' = [copies EXCEPT ![k].step = s, ![k].frame = f]
      PROVE  Goes(k, copies[k].at, s, f)
  BY <1>1, <1>2, <1>4 DEF Goes
<1>5. ASSUME NEW m, NEW n, copies' = [copies EXCEPT ![k] = R!Towards(n, m)]
      PROVE  Goes(k, R!Master(m), IF m = n THEN "recv" ELSE "tcp", None)
  BY <1>1, <1>2, <1>5 DEF Goes, R!Towards
<1> QED BY <1>3, <1>4, <1>5

\* A copy of the request
Copy(p, s, f) == [at |-> p, step |-> s, frame |-> f]
\* The copy k has become y, which is as good.
Lands(k, y) ==
    /\ y = Copy(y.at, y.step, y.frame) /\ y.step \in Stages
    /\ Goes(k, y.at, y.step, y.frame)
    /\ InPlace(req, y)
    /\ Still /\ ~req.broadcast /\ OnItsWay(req, Everything(local), copies[k]) => OnItsWay(req, Everything(local), y)

Knows == RouteType /\ (Still => Tables(Everything(local)))

\* It is enough to show where the copy is and that it is on its way.
LEMMA LandsAt ==
    ASSUME NEW k, NEW p, NEW s \in Stages, NEW f, Goes(k, p, s, f), InPlace(req, Copy(p, s, f)),
           Still /\ ~req.broadcast /\ OnItsWay(req, Everything(local), copies[k]) => OnItsWay(req, Everything(local), Copy(p, s, f))
    PROVE  Lands(k, Copy(p, s, f))
BY DEF Lands, Copy

\* As long as nothing is started or stopped, a process that does not boot has all its frames.
LEMMA HereIsFound ==
    ASSUME Knows, NEW p \in R!Processes
    PROVE  /\ R!Here(p) = IF req.broadcast THEN {} ELSE Fitting(req, R!At(frames, p))
           /\ Still => Fitting(req, R!At(frames, p)) \subseteq Fitting(req, R!At(Everything(local), p))
           /\ Still /\ p \notin booting => Fitting(req, R!At(frames, p)) = Fitting(req, R!At(Everything(local), p))
<1>1. R!Here(p) = IF req.broadcast THEN {} ELSE Fitting(req, R!At(frames, p))
  BY SameTargets DEF R!Here
<1>2. Still => frames \subseteq Everything(local) /\ \A f \in Everything(local) : Place(f) \notin booting => f \in frames
  BY DEF Knows, Tables
<1> QED BY <1>1, <1>2 DEF Fitting, R!At, Place

\* The proxy calls a frame of its process, or asks for one.
LEMMA CallLands ==
    ASSUME Knows, NEW k \in DOMAIN copies, InPlace(req, copies[k]), R!Call(k)
    PROVE  \E y : Lands(k, y)
<1> DEFINE p == copies[k].at
           s == IF R!Here(p) # {} THEN "exec" ELSE "frwd"
           y == Copy(p, s, copies[k].frame)
<1>1. R!Step(k, p, s) /\ copies[k].step = "call"
  BY DEF R!Call, R!Waits
<1>2. Goes(k, p, s, copies[k].frame)
  BY <1>1, StepGoes DEF Knows
<1>3. p = req.from /\ p \in R!Processes /\ p \notin booting
  BY <1>1, Constants DEF InPlace, Knows, RouteType
<1>4. InPlace(req, y)
  BY <1>3, HereIsFound DEF InPlace, Copy
<1>5. Still /\ ~req.broadcast => OnItsWay(req, Everything(local), y)
  BY <1>3, HereIsFound DEF OnItsWay, Copy, Refused
<1>6. s \in Stages
  BY DEF Stages
<1>7. Lands(k, y)
  BY <1>2, <1>4, <1>5, <1>6, LandsAt
<1> QED BY <1>7

\* The kernel executes the request, or passes it to its master.
LEMMA FrwdLands ==
    ASSUME Knows, NEW k \in DOMAIN copies, InPlace(req, copies[k]), R!Frwd(k)
    PROVE  \E y : Lands(k, y)
<1> DEFINE p == copies[k].at
           stays == R!Scope = "process" \/ (R!Scope = "node" /\ req.worker = p[2]) \/ R!Here(p) # {}
           y == IF stays THEN Copy(p, "exec", copies[k].frame) ELSE Copy(R!Master(p[1]), "send", copies[k].frame)
<1>1. copies[k].step = "frwd" /\ IF stays THEN R!Step(k, p, "exec") ELSE R!Step(k, R!Master(p[1]), "send")
  BY DEF R!Frwd, R!Waits
<1>3. p = req.from /\ p \in R!Processes /\ p \notin booting
  BY <1>1, Constants DEF InPlace, Knows, RouteType
<1>4. stays <=> Local(req) \/ R!Here(p) # {}
  BY <1>3 DEF Local, ScopeOf, R!Scope
<1>a. CASE stays
  <2>1. Goes(k, p, "exec", copies[k].frame)
    BY <1>1, <1>a, StepGoes DEF Knows
  <2>2. InPlace(req, Copy(p, "exec", copies[k].frame))
    BY <1>a, <1>4, <1>3, HereIsFound DEF InPlace, Copy
  <2>3. Still /\ ~req.broadcast => Fitting(req, R!At(Everything(local), p)) # {} \/ Allowed(req, Everything(local)) = {}
    <3>1. CASE R!Here(p) # {}
      BY <3>1, <1>3, HereIsFound
    <3>2. CASE Local(req)
      BY <3>2, <1>3 DEF Fitting, R!At, Allowed, Origin, Place
    <3> QED BY <3>1, <3>2, <1>a, <1>4
  <2>4. Still /\ ~req.broadcast => OnItsWay(req, Everything(local), Copy(p, "exec", copies[k].frame))
    BY <2>3 DEF OnItsWay, Copy, Refused
  <2> QED BY <2>1, <2>2, <2>4, LandsAt DEF Stages
<1>b. CASE ~stays
  <2>1. Goes(k, R!Master(p[1]), "send", copies[k].frame)
    BY <1>1, <1>b, StepGoes DEF Knows
  <2>2. InPlace(req, Copy(R!Master(p[1]), "send", copies[k].frame))
    BY <1>b, <1>4, <1>3 DEF InPlace, Copy
  <2>3. Still /\ ~req.broadcast => Fitting(req, R!At(Everything(local), p)) = {}
    BY <1>b, <1>4, <1>3, HereIsFound
  <2>4. Still /\ ~req.broadcast => OnItsWay(req, Everything(local), Copy(R!Master(p[1]), "send", copies[k].frame))
    BY <2>3, <1>3 DEF OnItsWay, Copy, Refused
  <2> QED BY <2>1, <2>2, <2>4, LandsAt DEF Stages
<1> QED BY <1>a, <1>b

\* The table of a node has all its frames, without its workers' own agents.
LEMMA LocalAre ==
    ASSUME Knows, NEW n \in Nodes
    PROVE  /\ \A f \in R!LocalRecords(n) : /\ f \in Everything(local) /\ f.node = n /\ f.role # "$worker"
                                           /\ f.id \in Nodes => f.worker = 0
           /\ \A f \in Everything(local) : f.node = n /\ f.role # "$worker" => f \in R!LocalRecords(n)
<1>1. R!Master(n) \in R!Processes /\ R!Root(R!Master(n)) \in Roots /\ Place(R!Root(R!Master(n))) = R!Master(n)
  BY RootsAre
<1>2. ASSUME NEW f \in R!LocalRecords(n)
      PROVE  f \in Everything(local) /\ f.node = n /\ f.role # "$worker" /\ (f.id \in Nodes => f.worker = 0)
  <2>1. CASE f = R!Root(R!Master(n))
    <3>1. f.role = "$master" /\ f.node = n /\ f.worker = 0
      BY <2>1, <1>1, RootsAre DEF Place, R!Master
    <3> QED BY <3>1, <2>1, <1>1 DEF Everything
  <2>2. CASE f \in local[n]
    <3>1. f \in Everything(local) /\ f.node = n
      BY <2>2 DEF Everything, Knows, RouteType
    <3>2. f.id \notin Nodes /\ f.role # "$worker"
      BY <2>2, <3>1, PlacesAre DEF Knows
    <3> QED BY <3>1, <3>2
  <2> QED BY <2>1, <2>2 DEF R!LocalRecords
<1>3. ASSUME NEW f \in Everything(local), f.node = n, f.role # "$worker"
      PROVE  f \in R!LocalRecords(n)
  <2>1. f \in local[n] \/ f \in Roots
    BY <1>3, PlacesAre DEF Knows
  <2>2. CASE f \in Roots
    <3>1. f.worker = 0 /\ f = R!Root(<<f.node, f.worker>>)
      BY <2>2, <1>3, RootsAre DEF Place
    <3>2. f = R!Root(R!Master(n))
      BY <3>1, <1>3 DEF R!Master
    <3> QED BY <3>2 DEF R!LocalRecords
  <2> QED BY <2>1, <2>2 DEF R!LocalRecords
<1> QED BY <1>2, <1>3

\* _find_worker() finds one if the table has a frame that fits.
LEMMA WorkerIsFound ==
    ASSUME NEW n \in Nodes
    PROVE  /\ \A w \in R!FindWorker(n) : \E f \in Fitting(req, R!LocalRecords(n)) : f.worker = w
           /\ R!FindWorker(n) = {} <=> Fitting(req, R!LocalRecords(n)) = {}
<1>1. R!Found(R!LocalRecords(n)) = Fitting(req, R!LocalRecords(n))
  BY SameTargets
<1> DEFINE found == Fitting(req, R!LocalRecords(n))
           first == {f \in found : f.worker = 0}
<1>2. R!FindWorker(n) = {f.worker : f \in IF first # {} THEN first ELSE found}
  BY <1>1 DEF R!FindWorker
<1> HIDE DEF found
<1> QED BY <1>2 DEF found

\* The table of the cluster has all frames, and one agent for all workers of a node.
LEMMA GlobalAre ==
    ASSUME Knows, NEW n \in Nodes, Still
    PROVE  /\ R!GlobalRecords(n) \subseteq Everything(local)
           /\ \A f \in Everything(local) : f.role # "$worker" => f \in R!GlobalRecords(n)
           /\ \A m \in Nodes : R!Root(<<m, 1>>) \in R!GlobalRecords(n) /\ R!Root(<<m, 1>>) \in Roots
           /\ \A f \in R!GlobalRecords(n) : f.role = "$worker" => f.node \in Nodes /\ f = R!Root(<<f.node, 1>>)
<1>1. R!GlobalRecords(n) = (UNION {local[m] : m \in Nodes}) \cup {R!Root(p) : p \in Nodes \X {0, 1}}
  BY DEF Knows, Tables, R!GlobalRecords
<1>2. Nodes \X {0, 1} \subseteq R!Processes
  BY Constants DEF R!Processes
<1>3. R!GlobalRecords(n) \subseteq Everything(local)
  BY <1>1, <1>2 DEF Everything, Roots
<1>4. ASSUME NEW f \in Everything(local), f.role # "$worker"
      PROVE  f \in R!GlobalRecords(n)
  <2>1. CASE f \in Roots
    <3>1. f.worker = 0 /\ f = R!Root(<<f.node, 0>>) /\ f.node \in Nodes
      BY <2>1, <1>4, RootsAre DEF Place
    <3> QED BY <3>1, <1>1
  <2>2. CASE f \notin Roots
    BY <2>2, <1>1 DEF Everything
  <2> QED BY <2>1, <2>2
<1>5. ASSUME NEW m \in Nodes
      PROVE  R!Root(<<m, 1>>) \in R!GlobalRecords(n) /\ R!Root(<<m, 1>>) \in Roots
  BY <1>1, <1>2 DEF Roots
<1>6. ASSUME NEW f \in R!GlobalRecords(n), f.role = "$worker"
      PROVE  f.node \in Nodes /\ f = R!Root(<<f.node, 1>>)
  <2>1. CASE f \in UNION {local[m] : m \in Nodes}
    <3>1. f \in Everything(local)
      BY <1>3
    <3>2. f \in Ordinary
      BY <2>1 DEF Knows, RouteType
    <3> QED BY <3>2, <1>6, Constants
  <2>2. CASE f \in {R!Root(p) : p \in Nodes \X {0, 1}}
    <3>1. PICK m \in Nodes, w \in {0, 1} : f = R!Root(<<m, w>>)
      BY <2>2
    <3>2. f.node = m /\ f.role = IF w = 0 THEN "$master" ELSE "$worker"
      BY <3>1 DEF R!Root
    <3> QED BY <3>1, <3>2, <1>6
  <2> QED BY <2>1, <2>2, <1>1
<1> QED BY <1>3, <1>4, <1>5, <1>6

\* The role of a node's $worker is no other one's.
LEMMA WorkersAre ==
    ASSUME Knows, NEW f \in Everything(local), f.role = "$worker"
    PROVE  f.id = f.node /\ f.node \in Nodes /\ f \in Roots
BY PlacesAre, RootsAre DEF Knows

\* A request that finds nothing in its own process is executed where its options say.
LEMMA NotAtOrigin ==
    ASSUME NEW q, NEW S, ~Local(q), Fitting(q, R!At(S, q.from)) = {}, NEW f \in Allowed(q, S)
    PROVE  f \in S /\ Fit(q, f) /\ Meant(q, f)
<1>1. f \in S /\ Fit(q, f) /\ (Origin(q, f) \/ Meant(q, f))
  BY DEF Allowed, Fitting
<1>2. ASSUME Origin(q, f) PROVE FALSE
  <2>1. f \in Fitting(q, R!At(S, q.from))
    BY <1>1, <1>2 DEF Origin, Fitting, R!At, Place
  <2> QED BY <2>1
<1> QED BY <1>1, <1>2

\* The master of the caller picks a node that has a frame that fits, if there is one.
LEMMA SendLands ==
    ASSUME Knows, NEW k \in DOMAIN copies, InPlace(req, copies[k]), R!Send(k)
    PROVE  \E y : Lands(k, y)
<1> DEFINE n == req.from[1]
           E == Everything(local)
<1>1. /\ copies[k].step = "send" /\ ~req.broadcast /\ copies[k].at = R!Master(n) /\ ~Local(req)
  BY DEF R!Send, R!Waits, InPlace
<1>2. n \in Nodes /\ copies[k].at[1] = n /\ req.node \in Nodes \cup {None} /\ None \notin Nodes
  BY <1>1, Constants DEF Knows, RouteType, R!Processes, R!Master
<1> DEFINE targets == IF req.node # None THEN {req.node} ELSE R!FindNode(n)
<1>3. \/ targets = {} /\ R!Step(k, R!Master(n), "not found")
      \/ \E m \in targets : copies' = [copies EXCEPT ![k] = R!Towards(n, m)]
  BY <1>2 DEF R!Send
<1> DEFINE found == {f.node : f \in Fitting(req, R!GlobalRecords(n))}
<1>4. R!FindNode(n) = IF req.worker # None \/ R!FindWorker(n) # {} \/ n \in found THEN {n} ELSE found
  BY SameTargets DEF R!FindNode
<1>5. ASSUME Still, OnItsWay(req, E, copies[k]) PROVE Fitting(req, R!At(E, req.from)) = {}
  BY <1>5, <1>1 DEF OnItsWay
<1>6. ASSUME Still, OnItsWay(req, E, copies[k]), NEW f \in Allowed(req, E)
      PROVE  Fit(req, f) /\ f \in E /\ Meant(req, f)
  BY <1>1, <1>5, <1>6, NotAtOrigin
<1>a. CASE targets = {} /\ R!Step(k, R!Master(n), "not found")
  <2>1. Goes(k, R!Master(n), "not found", copies[k].frame)
    BY <1>a, StepGoes DEF Knows
  <2>2. InPlace(req, Copy(R!Master(n), "not found", copies[k].frame))
    BY DEF InPlace, Copy
  <2>3. req.node = None /\ req.worker = None /\ R!FindWorker(n) = {} /\ found = {}
    BY <1>a, <1>4
  <2>4. ASSUME Still, OnItsWay(req, E, copies[k])
        PROVE  Allowed(req, E) = {}
    <3>1. SUFFICES ASSUME NEW f \in Allowed(req, E) PROVE FALSE
      OBVIOUS
    <3>2. f \in E /\ Fit(req, f) /\ Meant(req, f)
      BY <1>6, <2>4
    <3>3. f.role # "$worker"
      BY <3>2, <2>3 DEF Meant
    <3>4. f \in R!GlobalRecords(n)
      BY <3>2, <3>3, <2>4, <1>2, GlobalAre
    <3>5. f.node \in found
      BY <3>4, <3>2 DEF Fitting
    <3> QED BY <3>5, <2>3
  <2>5. Still /\ ~req.broadcast /\ OnItsWay(req, E, copies[k]) => OnItsWay(req, E, Copy(R!Master(n), "not found", copies[k].frame))
    BY <2>4, <1>5 DEF OnItsWay, Copy, Refused
  <2> QED BY <2>1, <2>2, <2>5, LandsAt DEF Stages
<1>b. ASSUME NEW m \in targets, copies' = [copies EXCEPT ![k] = R!Towards(n, m)]
      PROVE  \E y : Lands(k, y)
  <2> DEFINE s == IF m = n THEN "recv" ELSE "tcp"
             y == Copy(R!Master(m), s, None)
  <2>1. Goes(k, R!Master(m), s, None)
    BY <1>b, StepGoes DEF Knows
  <2>2. m \in Nodes
    <3>1. CASE req.node # None
      BY <3>1, <1>2
    <3>2. CASE req.node = None /\ m # n
      <4>1. m \in found
        BY <3>2, <1>4
      <4>2. PICK f \in R!GlobalRecords(n) : m = f.node
        BY <4>1 DEF Fitting
      <4>3. f \in global[n] \/ f \in {R!Root(p) : p \in known[n] \X {0, 1}}
        BY <4>2 DEF R!GlobalRecords
      <4>4. CASE f \in global[n]
        <5>1. f \in Ordinary
          BY <4>4, <1>2 DEF Knows, RouteType
        <5> QED BY <5>1, <4>2, Constants DEF Place, R!Processes
      <4>5. CASE f \in {R!Root(p) : p \in known[n] \X {0, 1}}
        <5>1. known[n] \subseteq Nodes
          BY <1>2 DEF Knows, RouteType
        <5> QED BY <4>5, <5>1, <4>2 DEF R!Root
      <4> QED BY <4>3, <4>4, <4>5
    <3> QED BY <3>1, <3>2, <1>2
  <2>3. Chosen(req, m)
    BY <1>1, <1>2, <1>4, <2>2 DEF Chosen
  <2>4. InPlace(req, y)
    BY <2>3, <2>2 DEF InPlace, Copy, Entered
  <2>5. ASSUME Still, OnItsWay(req, E, copies[k])
        PROVE  Allowed(req, E) = {} \/ \E g \in Allowed(req, E) : g.node = m
    <3>1. SUFFICES ASSUME NEW f \in Allowed(req, E) PROVE \E g \in Allowed(req, E) : g.node = m
      OBVIOUS
    <3>2. f \in E /\ Fit(req, f) /\ Meant(req, f)
      BY <1>6, <2>5
    <3>3. CASE req.node # None \/ req.worker # None
      BY <3>2, <3>3, <1>4, <1>2 DEF Meant
    <3>4. CASE req.node = None /\ req.worker = None
      <4>1. f.role # "$worker"
        BY <3>2, <3>4 DEF Meant
      <4>2. ASSUME NEW g \in E, Fit(req, g), g.role # "$worker", g.node = m, req.private => m = n
            PROVE  g \in Allowed(req, E)
        BY <4>2, <3>4, <1>1 DEF Allowed, Fitting, Meant
      <4>3. CASE R!FindWorker(n) # {}
        <5>1. m = n
          BY <4>3, <3>4, <1>4
        <5>2. PICK g \in R!LocalRecords(n) : Fit(req, g)
          BY <4>3, WorkerIsFound, <1>2 DEF Fitting
        <5> QED BY <5>1, <5>2, <4>2, LocalAre, <1>2
      <4>4. CASE R!FindWorker(n) = {}
        <5>1. f.node # n
          <6>1. SUFFICES ASSUME f.node = n PROVE FALSE
            OBVIOUS
          <6>2. f \in Fitting(req, R!LocalRecords(n))
            BY <6>1, <3>2, <4>1, LocalAre, <1>2 DEF Fitting
          <6> QED BY <6>2, <4>4, WorkerIsFound, <1>2
        <5>2. ~req.private
          BY <5>1, <3>2 DEF Meant
        <5>3. f \in Fitting(req, R!GlobalRecords(n))
          BY <3>2, <4>1, <2>5, GlobalAre, <1>2 DEF Fitting
        <5>4. m \in found
          BY <4>4, <3>4, <1>4
        <5>5. PICK g \in R!GlobalRecords(n) : Fit(req, g) /\ g.node = m
          BY <5>4 DEF Fitting
        <5>6. g \in E
          BY <5>5, <2>5, GlobalAre, <1>2
        <5>7. CASE g.role # "$worker"
          BY <5>7, <5>6, <5>5, <5>2, <4>2
        <5>8. CASE g.role = "$worker"
          <6>1. g.id = m /\ m \in Nodes
            BY <5>8, <5>6, <5>5, WorkersAre
          <6>2. req.role = "any" /\ req.id = m
            BY <6>1, <5>5, <5>8, <3>2, <4>1 DEF Fit
          <6> DEFINE h == R!Root(R!Master(m))
          <6>3. h \in Roots /\ h.role = "$master" /\ h.id = m /\ h.node = m
            BY <6>1, RootsAre DEF Place, R!Master, R!Root
          <6>4. h \in E /\ Fit(req, h)
            BY <6>3, <6>2 DEF Fit, Everything
          <6>5. h \in Allowed(req, E)
            BY <6>3, <6>4, <5>2, <4>2
          <6> QED BY <6>5, <6>3
        <5> QED BY <5>7, <5>8
      <4> QED BY <4>3, <4>4
    <3> QED BY <3>3, <3>4
  <2>6. Still /\ ~req.broadcast /\ OnItsWay(req, E, copies[k]) => OnItsWay(req, E, y)
    <3>1. y.step = s /\ y.at[1] = m
      BY DEF Copy, R!Master
    <3> QED BY <3>1, <2>5, <1>5 DEF OnItsWay, Refused
  <2>7. s \in Stages
    BY DEF Stages
  <2>8. Lands(k, y)
    BY <2>1, <2>4, <2>6, <2>7, LandsAt
  <2> QED BY <2>8
<1> QED BY <1>3, <1>a, <1>b

\* A private request is not accepted from another node, and fits nothing there.
LEMMA TcpRecvLands ==
    ASSUME Knows, NEW k \in DOMAIN copies, InPlace(req, copies[k]), R!TcpRecv(k)
    PROVE  \E y : Lands(k, y)
<1> DEFINE E == Everything(local)
           s == IF req.private THEN "not allowed" ELSE "recv"
           y == Copy(copies[k].at, s, copies[k].frame)
<1>1. copies[k].step = "tcp" /\ R!Step(k, copies[k].at, s)
  BY DEF R!TcpRecv, R!Waits
<1>2. Goes(k, copies[k].at, s, copies[k].frame)
  BY <1>1, StepGoes DEF Knows
<1>3. PICK m \in Nodes : copies[k].at = R!Master(m) /\ Chosen(req, m) /\ m # req.from[1]
  BY <1>1 DEF InPlace
<1>4. InPlace(req, y)
  BY <1>3 DEF InPlace, Copy, Entered
<1>5. ASSUME Still, ~req.broadcast, OnItsWay(req, E, copies[k])
      PROVE  OnItsWay(req, E, y)
  <2>1. copies[k].at[1] = m /\ ~Local(req)
    BY <1>3 DEF R!Master, Chosen
  <2>2. /\ Fitting(req, R!At(E, req.from)) = {}
        /\ Allowed(req, E) = {} \/ \E g \in Allowed(req, E) : g.node = m
    BY <1>1, <1>5, <2>1 DEF OnItsWay
  <2>3. req.private => Allowed(req, E) = {}
    <3>1. SUFFICES ASSUME req.private, NEW g \in Allowed(req, E), g.node = m PROVE FALSE
      BY <2>2
    <3>2. Meant(req, g)
      BY <2>1, <2>2, NotAtOrigin
    <3> QED BY <3>1, <3>2, <1>3 DEF Meant
  <2>4. y.step = s /\ y.at = copies[k].at
    BY DEF Copy
  <2> QED BY <2>1, <2>2, <2>3, <2>4 DEF OnItsWay, Refused
<1>6. s \in Stages
  BY DEF Stages
<1>7. Lands(k, y)
  BY <1>2, <1>4, <1>5, <1>6, LandsAt
<1> QED BY <1>7

\* The master of the node picks a process that has a frame that fits, if the node has one.
LEMMA RecvLands ==
    ASSUME Knows, NEW k \in DOMAIN copies, InPlace(req, copies[k]), R!Recv(k)
    PROVE  \E y : Lands(k, y)
<1> DEFINE E == Everything(local)
<1>1. copies[k].step = "recv"
  BY DEF R!Recv, R!Waits
<1>2. PICK m \in Nodes : copies[k].at = R!Master(m) /\ Entered(req, m)
  BY <1>1 DEF InPlace
<1> DEFINE targets == IF req.worker # None THEN {req.worker} ELSE R!FindWorker(m)
<1>3. copies[k].at[1] = m /\ ~Local(req)
  BY <1>2 DEF R!Master, Entered, Chosen
<1>4. \/ targets = {} /\ R!Step(k, R!Master(m), "not found")
      \/ \E w \in targets : R!Step(k, <<m, w>>, IF w \in {0} \cup Workers THEN "exec" ELSE "no worker")
  BY <1>3 DEF R!Recv
<1>5. ASSUME Still, ~req.broadcast, OnItsWay(req, E, copies[k])
      PROVE  Allowed(req, E) = {} \/ \E g \in E : Fit(req, g) /\ Meant(req, g) /\ g.node = m
  <2>1. SUFFICES ASSUME NEW g \in Allowed(req, E), g.node = m
                 PROVE  \E h \in E : Fit(req, h) /\ Meant(req, h) /\ h.node = m
    BY <1>1, <1>3, <1>5 DEF OnItsWay
  <2>2. Fitting(req, R!At(E, req.from)) = {}
    BY <1>1, <1>5 DEF OnItsWay
  <2> QED BY <2>1, <2>2, <1>3, NotAtOrigin
<1>6. \A w \in R!FindWorker(m) : \E f \in R!LocalRecords(m) : f.worker = w /\ Fit(req, f)
  BY WorkerIsFound DEF Fitting
<1>a. CASE targets = {} /\ R!Step(k, R!Master(m), "not found")
  <2> DEFINE y == Copy(R!Master(m), "not found", copies[k].frame)
  <2>1. Goes(k, R!Master(m), "not found", copies[k].frame)
    BY <1>a, StepGoes DEF Knows
  <2>2. InPlace(req, y)
    BY DEF InPlace, Copy
  <2>3. ASSUME Still, ~req.broadcast, OnItsWay(req, E, copies[k])
        PROVE  Allowed(req, E) = {}
    <3>1. SUFFICES ASSUME NEW g \in E, Fit(req, g), Meant(req, g), g.node = m PROVE FALSE
      BY <2>3, <1>5
    <3>2. req.worker = None /\ R!FindWorker(m) = {}
      BY <1>a
    <3>3. g.role # "$worker"
      BY <3>1, <3>2 DEF Meant
    <3>4. g \in Fitting(req, R!LocalRecords(m))
      BY <3>1, <3>3, LocalAre DEF Fitting
    <3> QED BY <3>2, <3>4, WorkerIsFound
  <2>4. Still /\ ~req.broadcast /\ OnItsWay(req, E, copies[k]) => OnItsWay(req, E, y)
    BY <2>3 DEF OnItsWay, Copy, Refused
  <2>5. Lands(k, y)
    BY <2>1, <2>2, <2>4, LandsAt DEF Stages
  <2> QED BY <2>5
<1>b. ASSUME NEW w \in targets, w \in {0} \cup Workers, R!Step(k, <<m, w>>, "exec")
      PROVE  \E y : Lands(k, y)
  <2> DEFINE y == Copy(<<m, w>>, "exec", copies[k].frame)
  <2>1. Goes(k, <<m, w>>, "exec", copies[k].frame)
    BY <1>b, StepGoes DEF Knows
  <2>2. req.worker = None => \E f \in E : f.node = m /\ f.worker = w /\ Fit(req, f) /\ (f.id \in Nodes => f.worker = 0)
    BY <1>b, <1>6, LocalAre
  <2>3. Given(req, <<m, w>>)
    BY <2>2, <1>2, <1>b DEF Given, Fit
  <2>4. InPlace(req, y)
    BY <2>3, <1>b DEF InPlace, Copy, R!Processes
  <2>5. ASSUME Still, ~req.broadcast, OnItsWay(req, E, copies[k])
        PROVE  Fitting(req, R!At(E, <<m, w>>)) # {} \/ Allowed(req, E) = {}
    <3>1. CASE req.worker = None
      BY <3>1, <2>2 DEF Fitting, R!At
    <3>2. CASE req.worker # None
      BY <3>2, <1>b, <1>5, <2>5 DEF Fitting, R!At, Meant
    <3> QED BY <3>1, <3>2
  <2>6. Still /\ ~req.broadcast /\ OnItsWay(req, E, copies[k]) => OnItsWay(req, E, y)
    BY <2>5 DEF OnItsWay, Copy, Refused
  <2>7. Lands(k, y)
    BY <2>1, <2>4, <2>6, LandsAt DEF Stages
  <2> QED BY <2>7
<1>c. ASSUME NEW w \in targets, w \notin {0} \cup Workers, R!Step(k, <<m, w>>, "no worker")
      PROVE  \E y : Lands(k, y)
  <2> DEFINE y == Copy(<<m, w>>, "no worker", copies[k].frame)
  <2>1. Goes(k, <<m, w>>, "no worker", copies[k].frame)
    BY <1>c, StepGoes DEF Knows
  <2>2. InPlace(req, y)
    BY DEF InPlace, Copy
  <2>3. \A f \in E : f.worker \in {0} \cup Workers
    BY PlacesAre DEF Knows, Place, R!Processes
  <2>4. ASSUME Still, ~req.broadcast, OnItsWay(req, E, copies[k])
        PROVE  Allowed(req, E) = {}
    <3>1. CASE req.worker = None
      <4>1. w \in R!FindWorker(m)
        BY <3>1, <1>c
      <4>2. PICK f \in R!LocalRecords(m) : f.worker = w
        BY <4>1, <1>6
      <4>3. f \in E
        BY <4>2, LocalAre
      <4> QED BY <4>2, <4>3, <2>3, <1>c
    <3>2. CASE req.worker # None
      <4>1. w = req.worker
        BY <3>2, <1>c
      <4>2. ASSUME NEW g \in E, Meant(req, g) PROVE FALSE
        <5>1. g.worker = w
          BY <4>1, <4>2, <3>2 DEF Meant
        <5> QED BY <5>1, <2>3, <1>c
      <4> QED BY <4>2, <1>5, <2>4
    <3> QED BY <3>1, <3>2
  <2>5. Still /\ ~req.broadcast /\ OnItsWay(req, E, copies[k]) => OnItsWay(req, E, y)
    BY <2>4 DEF OnItsWay, Copy, Refused
  <2>6. Lands(k, y)
    BY <2>1, <2>2, <2>5, LandsAt DEF Stages
  <2> QED BY <2>6
<1> QED BY <1>4, <1>a, <1>b, <1>c

\* A frame of the process executes the request, or it is lost as there is none.
LEMMA ExecLands ==
    ASSUME Knows, NEW k \in DOMAIN copies, InPlace(req, copies[k]), R!Exec(k)
    PROVE  \E y : Lands(k, y)
<1> DEFINE E == Everything(local)
           p == copies[k].at
<1>1. copies[k].step = "exec"
  BY DEF R!Exec, R!Waits
<1>2. p \in R!Processes /\ ((p = req.from /\ (req.broadcast => Local(req))) \/ Given(req, p))
  BY <1>1 DEF InPlace
<1>3. \/ \E f \in R!Found(R!At(frames, p)) : copies' = [copies EXCEPT ![k].step = "ran", ![k].frame = f]
      \/ R!Found(R!At(frames, p)) = {} /\ p \notin booting /\ R!Step(k, p, "lost")
  BY DEF R!Exec
<1>4. R!Found(R!At(frames, p)) = Fitting(req, R!At(frames, p))
  BY SameTargets
<1>a. ASSUME NEW f \in Fitting(req, R!At(frames, p)), copies' = [copies EXCEPT ![k].step = "ran", ![k].frame = f]
      PROVE  \E y : Lands(k, y)
  <2> DEFINE y == Copy(p, "ran", f)
  <2>1. Goes(k, p, "ran", f)
    BY <1>a, StepGoes DEF Knows
  <2>2. f \in frames /\ Place(f) = p /\ Fit(req, f)
    BY <1>a DEF Fitting, R!At, Place
  <2>3. f \in Allowed(req, {f})
    <3>1. CASE p = req.from /\ (req.broadcast => Local(req))
      BY <3>1, <2>2 DEF Allowed, Fitting, Origin
    <3>2. CASE Given(req, p)
      <4>1. f.node = p[1] /\ f.worker = p[2]
        BY <2>2 DEF Place
      <4>2. req.worker = None => f.role # "$worker"
        <5>1. f \in Ordinary \/ f \in Roots
          BY <2>2 DEF Knows, RouteType
        <5>2. CASE f \in Roots
          BY <5>2, <3>2, <2>2, <4>1, RootsAre DEF Given, Fit
        <5> QED BY <5>1, <5>2, Constants
      <4>3. ~Local(req) /\ Meant(req, f)
        BY <3>2, <4>1, <4>2 DEF Given, Entered, Chosen, Meant
      <4> QED BY <4>3, <2>2 DEF Allowed, Fitting
    <3> QED BY <3>1, <3>2, <1>2
  <2>4. InPlace(req, y)
    BY <2>3 DEF InPlace, Copy
  <2>5. Still => f \in E
    BY <2>2 DEF Knows, Tables
  <2>6. Still /\ ~req.broadcast /\ OnItsWay(req, E, copies[k]) => OnItsWay(req, E, y)
    BY <2>5 DEF OnItsWay, Copy, Refused
  <2>7. Lands(k, y)
    BY <2>1, <2>4, <2>6, LandsAt DEF Stages
  <2> QED BY <2>7
<1>b. CASE R!Found(R!At(frames, p)) = {} /\ p \notin booting /\ R!Step(k, p, "lost")
  <2> DEFINE y == Copy(p, "lost", copies[k].frame)
  <2>1. Goes(k, p, "lost", copies[k].frame)
    BY <1>b, StepGoes DEF Knows
  <2>2. InPlace(req, y)
    BY DEF InPlace, Copy
  <2>3. Still => Fitting(req, R!At(E, p)) = {}
    BY <1>b, <1>4, <1>2, HereIsFound
  <2>4. Still /\ ~req.broadcast /\ OnItsWay(req, E, copies[k]) => OnItsWay(req, E, y)
    BY <2>3, <1>1 DEF OnItsWay, Copy, Refused
  <2>5. Lands(k, y)
    BY <2>1, <2>2, <2>4, LandsAt DEF Stages
  <2> QED BY <2>5
<1> QED BY <1>3, <1>4, <1>a, <1>b

\* A broadcast whose receivers are on nodes of their own
Single(q, S) == \A f, g \in Fitting(q, S) : f.node = g.node => f = g
\* The records that a broadcast finds
Listed(q, S) == {f \in Fitting(q, S) : f.role = "$worker" => f.worker = 1}
\* The only copy of a broadcast
Lone(q, S, x) ==
    /\ x.step \in {"call", "frwd", "send", "exec", "ran", "lost"}
    /\ x.step \in {"exec", "ran", "lost"} => Local(q)
    /\ x.step = "exec" => x.at = q.from
    /\ x.step = "ran" => x.frame \in S
    /\ x.step = "lost" => Fitting(q, R!At(S, q.from)) = {}
\* The copy of a broadcast for f
Heading(f, x) ==
    /\ x.step \in {"tcp", "recv", "exec", "ran", "not found"}
    /\ x.step \in {"tcp", "recv"} => x.at = R!Master(f.node)
    /\ x.step = "exec" => x.at = Place(f)
    /\ x.step = "ran" => x.frame = f
    /\ IF x.step = "not found" THEN f.role = "$worker" ELSE x.step \in {"exec", "ran"} => f.role # "$worker"
Order(q, S) == R!SetToSeq(Listed(q, S))
Spread(q, S, x) ==
    /\ IsFiniteSet(Listed(q, S))
    /\ \/ DOMAIN x = {1} /\ Lone(q, S, x[1])
       \/ /\ ~Local(q) /\ DOMAIN x = 1 .. Cardinality(Listed(q, S))
          /\ \A k \in DOMAIN x : Heading(Order(q, S)[k], x[k])
Broadcasts == Still /\ req.broadcast /\ ~req.private /\ Single(req, Everything(local))

\* A step of a copy is one of a broadcast.
Spreads(k) ==
    Broadcasts =>
        /\ Lone(req, Everything(local), copies[k]) => Lone(req, Everything(local), copies'[k])
        /\ ~Local(req) => \A f \in Listed(req, Everything(local)) : Heading(f, copies[k]) => Heading(f, copies'[k])

\* A broadcast is not executed at once.
LEMMA CallSpreads ==
    ASSUME Knows, NEW k \in DOMAIN copies, InPlace(req, copies[k]), R!Call(k)
    PROVE  Spreads(k)
<1> DEFINE p == copies[k].at
           s == IF R!Here(p) # {} THEN "exec" ELSE "frwd"
<1>1. R!Step(k, p, s) /\ copies[k].step = "call"
  BY DEF R!Call, R!Waits
<1>2. Goes(k, p, s, copies[k].frame)
  BY <1>1, StepGoes DEF Knows
<1>3. req.broadcast => s = "frwd"
  BY DEF R!Here
<1>4. Broadcasts => copies'[k].step = "frwd"
  BY <1>2, <1>3 DEF Goes, Broadcasts
<1> QED BY <1>1, <1>4 DEF Spreads, Lone, Heading

\* A broadcast stays in the process only if its scope says so.
LEMMA FrwdSpreads ==
    ASSUME Knows, NEW k \in DOMAIN copies, InPlace(req, copies[k]), R!Frwd(k)
    PROVE  Spreads(k)
<1> DEFINE p == copies[k].at
           stays == R!Scope = "process" \/ (R!Scope = "node" /\ req.worker = p[2]) \/ R!Here(p) # {}
<1>1. copies[k].step = "frwd" /\ IF stays THEN R!Step(k, p, "exec") ELSE R!Step(k, R!Master(p[1]), "send")
  BY DEF R!Frwd, R!Waits
<1>2. p = req.from
  BY <1>1 DEF InPlace
<1>3. req.broadcast => (stays <=> Local(req))
  BY <1>2 DEF Local, ScopeOf, R!Scope, R!Here
<1>4. CASE stays
  <2>1. Goes(k, p, "exec", copies[k].frame)
    BY <1>1, <1>4, StepGoes DEF Knows
  <2>2. copies'[k].step = "exec" /\ copies'[k].at = req.from
    BY <2>1, <1>2 DEF Goes
  <2> QED BY <1>1, <1>3, <1>4, <2>2 DEF Spreads, Lone, Heading, Broadcasts
<1>5. CASE ~stays
  <2>1. Goes(k, R!Master(p[1]), "send", copies[k].frame)
    BY <1>1, <1>5, StepGoes DEF Knows
  <2>2. copies'[k].step = "send"
    BY <2>1 DEF Goes
  <2> QED BY <1>1, <2>2 DEF Spreads, Lone, Heading, Broadcasts
<1> QED BY <1>4, <1>5

\* A copy of a broadcast gets to the node it was sent to.
LEMMA TcpRecvSpreads ==
    ASSUME Knows, NEW k \in DOMAIN copies, InPlace(req, copies[k]), R!TcpRecv(k)
    PROVE  Spreads(k)
<1> DEFINE s == IF req.private THEN "not allowed" ELSE "recv"
<1>1. copies[k].step = "tcp" /\ R!Step(k, copies[k].at, s)
  BY DEF R!TcpRecv, R!Waits
<1>2. Goes(k, copies[k].at, s, copies[k].frame)
  BY <1>1, StepGoes DEF Knows
<1>3. Broadcasts => copies'[k].step = "recv" /\ copies'[k].at = copies[k].at
  BY <1>2 DEF Goes, Broadcasts
<1> QED BY <1>1, <1>3 DEF Spreads, Lone, Heading

\* The frame that a broadcast's copy heads for is the only one of its node.
LEMMA OnlyOne ==
    ASSUME Broadcasts, NEW f \in Listed(req, Everything(local)), NEW g \in Everything(local), Fit(req, g), g.node = f.node
    PROVE  g = f
<1>1. f \in Fitting(req, Everything(local)) /\ g \in Fitting(req, Everything(local))
  BY DEF Listed, Fitting
<1> QED BY <1>1 DEF Broadcasts, Single

\* The node passes the copy to the frame's process, and refuses the one for its workers' own agent.
LEMMA RecvSpreads ==
    ASSUME Knows, NEW k \in DOMAIN copies, InPlace(req, copies[k]), R!Recv(k)
    PROVE  Spreads(k)
<1> DEFINE E == Everything(local)
<1>1. copies[k].step = "recv"
  BY DEF R!Recv, R!Waits
<1>2. PICK m \in Nodes : copies[k].at = R!Master(m) /\ Entered(req, m)
  BY <1>1 DEF InPlace
<1> DEFINE targets == IF req.worker # None THEN {req.worker} ELSE R!FindWorker(m)
<1>3. copies[k].at[1] = m
  BY <1>2 DEF R!Master
<1>4. \/ targets = {} /\ R!Step(k, R!Master(m), "not found")
      \/ \E w \in targets : R!Step(k, <<m, w>>, IF w \in {0} \cup Workers THEN "exec" ELSE "no worker")
  BY <1>3 DEF R!Recv
<1>5. SUFFICES ASSUME Broadcasts, NEW f \in Listed(req, E), Heading(f, copies[k])
               PROVE  Heading(f, copies'[k])
  BY <1>1 DEF Spreads, Lone
<1>6. f \in E /\ Fit(req, f) /\ f.node = m
  <2>1. R!Master(f.node) = R!Master(m)
    BY <1>1, <1>2, <1>5 DEF Heading
  <2> QED BY <2>1, <1>5 DEF Listed, Fitting, R!Master
<1>7. targets = R!FindWorker(m)
  <2>1. req.worker = None
    BY <1>5, Constants DEF Broadcasts, Knows, RouteType
  <2> QED BY <2>1
<1>8. ASSUME NEW w \in R!FindWorker(m) PROVE f.worker = w /\ f.role # "$worker" /\ w \in {0} \cup Workers
  <2>1. PICK g \in Fitting(req, R!LocalRecords(m)) : g.worker = w
    BY WorkerIsFound, <1>2
  <2>2. g \in E /\ g.node = m /\ g.role # "$worker" /\ Fit(req, g)
    BY <2>1, LocalAre DEF Fitting
  <2>3. g = f
    BY <2>2, <1>6, <1>5, OnlyOne
  <2>4. Place(f) \in R!Processes
    BY <1>6, PlacesAre DEF Knows
  <2> QED BY <2>1, <2>2, <2>3, <2>4 DEF Place, R!Processes
<1>a. CASE targets = {} /\ R!Step(k, R!Master(m), "not found")
  <2>1. Goes(k, R!Master(m), "not found", copies[k].frame)
    BY <1>a, StepGoes DEF Knows
  <2>2. f.role = "$worker"
    <3>1. SUFFICES ASSUME f.role # "$worker" PROVE FALSE
      OBVIOUS
    <3>2. f \in R!LocalRecords(m)
      BY <3>1, <1>6, LocalAre
    <3>3. f \in Fitting(req, R!LocalRecords(m))
      BY <3>2, <1>6 DEF Fitting
    <3> QED BY <3>3, <1>a, <1>7, WorkerIsFound
  <2>3. copies'[k] = [at |-> R!Master(m), step |-> "not found", frame |-> copies[k].frame]
    BY <2>1 DEF Goes
  <2> DEFINE x == [at |-> R!Master(m), step |-> "not found", frame |-> copies[k].frame]
  <2>4. x.step = "not found"
    OBVIOUS
  <2> QED BY <2>2, <2>3, <2>4 DEF Heading
<1>b. ASSUME NEW w \in targets, R!Step(k, <<m, w>>, IF w \in {0} \cup Workers THEN "exec" ELSE "no worker")
      PROVE  Heading(f, copies'[k])
  <2>1. f.worker = w /\ f.role # "$worker" /\ w \in {0} \cup Workers
    BY <1>b, <1>7, <1>8
  <2>2. R!Step(k, <<m, w>>, "exec")
    BY <1>b, <2>1
  <2>3. Goes(k, <<m, w>>, "exec", copies[k].frame)
    BY <2>2, StepGoes DEF Knows
  <2>4. copies'[k].step = "exec" /\ copies'[k].at = Place(f)
    BY <2>3, <2>1, <1>6 DEF Goes, Place
  <2> QED BY <2>4, <2>1 DEF Heading
<1> QED BY <1>4, <1>a, <1>b

\* The frame that a copy heads for executes it.
LEMMA ExecSpreads ==
    ASSUME Knows, NEW k \in DOMAIN copies, InPlace(req, copies[k]), R!Exec(k)
    PROVE  Spreads(k)
<1> DEFINE E == Everything(local)
           p == copies[k].at
<1>1. copies[k].step = "exec"
  BY DEF R!Exec, R!Waits
<1>2. p \in R!Processes
  BY <1>1 DEF InPlace
<1>3. \/ \E f \in R!Found(R!At(frames, p)) : copies' = [copies EXCEPT ![k].step = "ran", ![k].frame = f]
      \/ R!Found(R!At(frames, p)) = {} /\ p \notin booting /\ R!Step(k, p, "lost")
  BY DEF R!Exec
<1>4. R!Found(R!At(frames, p)) = Fitting(req, R!At(frames, p))
  BY SameTargets
<1>a. ASSUME NEW f \in Fitting(req, R!At(frames, p)), copies' = [copies EXCEPT ![k].step = "ran", ![k].frame = f]
      PROVE  Spreads(k)
  <2>1. Goes(k, p, "ran", f)
    BY <1>a, StepGoes DEF Knows
  <2>2. copies'[k].step = "ran" /\ copies'[k].frame = f
    BY <2>1 DEF Goes
  <2>3. f \in frames /\ Place(f) = p /\ Fit(req, f) /\ (Still => f \in E)
    BY <1>a DEF Fitting, R!At, Place, Knows, Tables
  <2>4. Broadcasts /\ Lone(req, E, copies[k]) => Lone(req, E, copies'[k])
    BY <2>2, <2>3, <1>1 DEF Lone, Broadcasts
  <2>5. ASSUME Broadcasts, NEW g \in Listed(req, E), Heading(g, copies[k])
        PROVE  Heading(g, copies'[k])
    <3>1. p = Place(g) /\ g.role # "$worker"
      BY <1>1, <2>5 DEF Heading
    <3>2. f = g
      <4>1. f.node = g.node
        BY <3>1, <2>3 DEF Place
      <4> QED BY <4>1, <2>3, <2>5, OnlyOne DEF Broadcasts
    <3> QED BY <2>2, <3>1, <3>2 DEF Heading
  <2> QED BY <2>4, <2>5 DEF Spreads
<1>b. CASE R!Found(R!At(frames, p)) = {} /\ p \notin booting /\ R!Step(k, p, "lost")
  <2>1. Goes(k, p, "lost", copies[k].frame)
    BY <1>b, StepGoes DEF Knows
  <2>2. copies'[k].step = "lost"
    BY <2>1 DEF Goes
  <2>3. Still => Fitting(req, R!At(E, p)) = {}
    BY <1>b, <1>4, <1>2, HereIsFound
  <2>4. Broadcasts /\ Lone(req, E, copies[k]) => Lone(req, E, copies'[k])
    BY <2>2, <2>3, <1>1 DEF Lone, Broadcasts
  <2>5. ASSUME Broadcasts, NEW g \in Listed(req, E), Heading(g, copies[k])
        PROVE  FALSE
    <3>1. p = Place(g)
      BY <1>1, <2>5 DEF Heading
    <3>2. g \in Fitting(req, R!At(E, p))
      BY <3>1, <2>5 DEF Listed, Fitting, R!At, Place
    <3> QED BY <3>2, <2>3, <2>5 DEF Broadcasts
  <2> QED BY <2>4, <2>5 DEF Spreads
<1> QED BY <1>3, <1>4, <1>a, <1>b

\* Finiteness and cardinality of the instance are those of the library.
LEMMA SameFinite == \A S : (R!IsFiniteSet(S) <=> IsFiniteSet(S)) /\ R!Cardinality(S) = Cardinality(S)
BY DEF R!IsFiniteSet, IsFiniteSet, R!Cardinality, Cardinality

\* Nodes and what runs at first are finite.
LEMMA FiniteConstants == IsFiniteSet(Nodes) /\ \A placed \in Deployments : IsFiniteSet(placed)
BY ProcessAssumption, SameFinite DEF R!RoutingAssumption

\* A finite set, put in order, has every element once.
LEMMA OrderIs ==
    ASSUME NEW F, IsFiniteSet(F)
    PROVE  /\ R!SetToSeq(F) \in [1 .. Cardinality(F) -> F] /\ Cardinality(F) \in Nat
           /\ \A i, j \in 1 .. Cardinality(F) : R!SetToSeq(F)[i] = R!SetToSeq(F)[j] => i = j
           /\ \A f \in F : \E i \in 1 .. Cardinality(F) : R!SetToSeq(F)[i] = f
<1> DEFINE N == Cardinality(F)
           s == R!SetToSeq(F)
<1>1. N \in Nat /\ ExistsBijection(1 .. N, F)
  BY FS_CardinalityType
<1>2. PICK g \in Bijection(1 .. N, F) : TRUE
  BY <1>1 DEF ExistsBijection
<1>3. g \in [1 .. N -> F] /\ R!IsInjective(g)
  BY <1>2 DEF Bijection, Injection, IsInjective, R!IsInjective
<1>4. s \in [1 .. N -> F] /\ R!IsInjective(s)
  <2>1. s = CHOOSE f \in [1 .. N -> F] : R!IsInjective(f)
    BY SameFinite DEF R!SetToSeq
  <2>2. \E f \in [1 .. N -> F] : R!IsInjective(f)
    BY <1>3
  <2> QED BY <2>1, <2>2
<1>5. s \in Injection(1 .. N, F)
  BY <1>4 DEF R!IsInjective, Injection, IsInjective
<1>6. IsFiniteSet(1 .. N) /\ Cardinality(1 .. N) = N
  BY <1>1, FS_Interval
<1>7. s \in Surjection(1 .. N, F)
  BY <1>5, <1>6, FS_Injection
<1> HIDE DEF s
<1>8. \A i, j \in 1 .. N : s[i] = s[j] => i = j
  BY <1>4 DEF R!IsInjective
<1>9. \A f \in F : \E i \in 1 .. N : s[i] = f
  BY <1>7 DEF Surjection
<1> QED BY <1>1, <1>4, <1>8, <1>9 DEF s

\* The values of a function on a finite set are finite.
LEMMA ImageIsFinite ==
    ASSUME NEW f, IsFiniteSet(DOMAIN f), f = [x \in DOMAIN f |-> f[x]]
    PROVE  IsFiniteSet({f[x] : x \in DOMAIN f})
<1> DEFINE T == {f[x] : x \in DOMAIN f}
<1>1. f \in [DOMAIN f -> T]
  OBVIOUS
<1>2. \A t \in T : \E x \in DOMAIN f : f[x] = t
  OBVIOUS
<1> HIDE DEF T
<1>3. f \in Surjection(DOMAIN f, T)
  BY <1>1, <1>2 DEF Surjection
<1>4. IsFiniteSet(T)
  BY <1>3, FS_Surjection
<1> QED BY <1>4 DEF T

\* The tables are finite.
Finite == IsFiniteSet(frames \ Roots) /\ \A n \in Nodes : IsFiniteSet(local[n]) /\ IsFiniteSet(global[n])

\* The cluster has finitely many frames.
LEMMA AllLocalFinite ==
    ASSUME Finite, local \in [Nodes -> SUBSET Ordinary]
    PROVE  IsFiniteSet(UNION {local[n] : n \in Nodes})
<1>1. IsFiniteSet(DOMAIN local) /\ DOMAIN local = Nodes /\ local = [n \in DOMAIN local |-> local[n]]
  BY FiniteConstants
<1>2. IsFiniteSet({local[n] : n \in DOMAIN local})
  BY <1>1, ImageIsFinite
<1>3. \A T \in {local[n] : n \in Nodes} : IsFiniteSet(T)
  BY DEF Finite
<1> QED BY <1>1, <1>2, <1>3, FS_UNION

\* The table of the cluster has frames of its nodes only.
LEMMA GlobalNodes ==
    ASSUME RouteType, NEW n \in Nodes, NEW f \in R!GlobalRecords(n)
    PROVE  f.node \in Nodes
<1>1. f \in global[n] \/ f \in {R!Root(p) : p \in known[n] \X {0, 1}}
  BY DEF R!GlobalRecords
<1>2. CASE f \in global[n]
  <2>1. f \in Ordinary
    BY <1>2 DEF RouteType
  <2> QED BY <2>1, Constants DEF Place, R!Processes
<1>3. CASE f \in {R!Root(p) : p \in known[n] \X {0, 1}}
  <2>1. known[n] \subseteq Nodes
    BY DEF RouteType
  <2> QED BY <1>3, <2>1 DEF R!Root
<1> QED BY <1>1, <1>2, <1>3

\* A broadcast finds finitely many records.
LEMMA FoundIsFinite ==
    ASSUME RouteType, Finite, NEW n \in Nodes
    PROVE  IsFiniteSet(Fitting(req, R!GlobalRecords(n)))
<1> DEFINE P == known[n] \X {0, 1}
           r == [p \in P |-> R!Root(p)]
<1>1. IsFiniteSet(P)
  <2>1. IsFiniteSet(Nodes) /\ known[n] \in SUBSET Nodes
    BY FiniteConstants DEF RouteType
  <2>2. IsFiniteSet(known[n])
    BY <2>1, FS_Subset
  <2>3. IsFiniteSet({0, 1})
    <3>1. {0, 1} = {0} \cup {1} /\ IsFiniteSet({0}) /\ IsFiniteSet({1})
      BY FS_Singleton
    <3> QED BY <3>1, FS_Union
  <2> QED BY <2>2, <2>3, FS_Product
<1>2. IsFiniteSet({r[p] : p \in DOMAIN r})
  BY <1>1, ImageIsFinite
<1>3. {r[p] : p \in DOMAIN r} = {R!Root(p) : p \in P}
  OBVIOUS
<1>4. IsFiniteSet(global[n])
  BY DEF Finite
<1>5. IsFiniteSet(R!GlobalRecords(n))
  BY <1>2, <1>3, <1>4, FS_Union DEF R!GlobalRecords
<1> QED BY <1>5, FS_Subset DEF Fitting

\* What a broadcast finds are the frames that fit, and one agent for all workers of a node.
LEMMA ListedAre ==
    ASSUME Knows, Still, NEW n \in Nodes
    PROVE  Fitting(req, R!GlobalRecords(n)) = Listed(req, Everything(local))
<1>1. ASSUME NEW f \in Fitting(req, R!GlobalRecords(n)) PROVE f \in Listed(req, Everything(local))
  <2>1. f \in R!GlobalRecords(n) /\ Fit(req, f) /\ f \in Everything(local)
    BY GlobalAre DEF Fitting
  <2>2. f.role = "$worker" => f = R!Root(<<f.node, 1>>)
    BY <2>1, GlobalAre
  <2>3. R!Root(<<f.node, 1>>).worker = 1
    BY DEF R!Root
  <2> QED BY <2>1, <2>2, <2>3 DEF Listed, Fitting
<1>2. ASSUME NEW f \in Listed(req, Everything(local)) PROVE f \in Fitting(req, R!GlobalRecords(n))
  <2>1. f \in Everything(local) /\ Fit(req, f) /\ (f.role = "$worker" => f.worker = 1)
    BY <1>2 DEF Listed, Fitting
  <2>2. CASE f.role = "$worker"
    <3>1. f \in Roots /\ f.node \in Nodes
      BY <2>1, <2>2, WorkersAre
    <3>2. f = R!Root(<<f.node, 1>>)
      BY <3>1, <2>1, <2>2, RootsAre DEF Place
    <3>3. R!Root(<<f.node, 1>>) \in R!GlobalRecords(n)
      BY <3>1, GlobalAre
    <3> QED BY <3>2, <3>3, <2>1 DEF Fitting
  <2>3. CASE f.role # "$worker"
    BY <2>1, <2>3, GlobalAre DEF Fitting
  <2> QED BY <2>2, <2>3
<1> QED BY <1>1, <1>2

\* The invariant
RouteInv == Routed /\ Finite /\ (Broadcasts => Spread(req, Everything(local), copies))

\* A step of one copy keeps the invariant.
LEMMA CopyStep ==
    ASSUME RouteInv, NEW k \in DOMAIN copies, NEW y, Lands(k, y), Spreads(k), R!Unmoved
    PROVE  RouteInv'
<1> DEFINE E == Everything(local)
<1>1. frames' = frames /\ local' = local /\ global' = global /\ known' = known /\ booting' = booting /\ req' = req /\ changes' = changes
  BY DEF R!Unmoved
<1>2. /\ DOMAIN copies' = DOMAIN copies /\ copies'[k] = y /\ IsCopy(y)
      /\ \A j \in DOMAIN copies : j # k => copies'[j] = copies[j]
      /\ copies' = [j \in DOMAIN copies' |-> copies'[j]]
  <2>1. /\ DOMAIN copies' = DOMAIN copies /\ copies'[k] = [at |-> y.at, step |-> y.step, frame |-> y.frame]
        /\ \A j \in DOMAIN copies : j # k => copies'[j] = copies[j]
        /\ copies' = [j \in DOMAIN copies' |-> copies'[j]]
    BY DEF Lands, Goes
  <2>2. y = [at |-> y.at, step |-> y.step, frame |-> y.frame] /\ y.step \in Stages
    BY DEF Lands, Copy
  <2> QED BY <2>1, <2>2, Zenon DEF IsCopy
<1>3. RouteType'
  <2>1. \A j \in DOMAIN copies' : IsCopy(copies'[j])
    BY <1>2 DEF RouteInv, Routed, RouteType
  <2> QED BY <1>1, <1>2, <2>1 DEF RouteInv, Routed, RouteType, IsCopy
<1>4. (\A j \in DOMAIN copies : InPlace(req, copies[j]))'
  <2>1. InPlace(req, y)
    BY DEF Lands
  <2>2. \A j \in DOMAIN copies : InPlace(req, copies[j])
    BY DEF RouteInv, Routed
  <2>3. ASSUME NEW j \in DOMAIN copies' PROVE InPlace(req', copies'[j])
    <3>1. InPlace(req, copies'[j])
      BY <1>2, <2>1, <2>2
    <3> QED BY <3>1, <1>1
  <2> QED BY <2>3
<1>5. (Still => Tables(Everything(local)))'
  BY <1>1 DEF RouteInv, Routed, Still, Tables, Everything
<1>6. (Still /\ ~req.broadcast => DOMAIN copies = {1} /\ OnItsWay(req, Everything(local), copies[1]))'
  <2>1. SUFFICES ASSUME Still, ~req.broadcast
                 PROVE  DOMAIN copies = {1} /\ OnItsWay(req, E, y) /\ copies'[1] = y
    BY <1>1, <1>2 DEF Still
  <2>2. DOMAIN copies = {1} /\ OnItsWay(req, E, copies[1])
    BY <2>1 DEF RouteInv, Routed
  <2>3. k = 1
    BY <2>2
  <2> QED BY <1>2, <2>1, <2>2, <2>3 DEF Lands
<1>7. Finite'
  BY <1>1 DEF RouteInv, Finite
<1>8. (Broadcasts => Spread(req, Everything(local), copies))'
  <2>1. SUFFICES ASSUME Broadcasts PROVE Spread(req, E, copies')
    BY <1>1 DEF Broadcasts, Still
  <2>2. Spread(req, E, copies)
    BY <2>1 DEF RouteInv
  <2>3. CASE DOMAIN copies = {1} /\ Lone(req, E, copies[1])
    <3>1. k = 1
      BY <2>3
    <3>2. Lone(req, E, copies'[1])
      BY <2>1, <2>3, <3>1 DEF Spreads
    <3> QED BY <3>2, <2>2, <2>3, <1>2 DEF Spread
  <2>4. CASE /\ ~Local(req) /\ DOMAIN copies = 1 .. Cardinality(Listed(req, E))
             /\ \A j \in DOMAIN copies : Heading(Order(req, E)[j], copies[j])
    <3>1. IsFiniteSet(Listed(req, E))
      BY <2>2 DEF Spread
    <3>2. \A j \in DOMAIN copies : Order(req, E)[j] \in Listed(req, E)
      BY <3>1, <2>4, OrderIs DEF Order
    <3>3. ASSUME NEW j \in DOMAIN copies PROVE Heading(Order(req, E)[j], copies'[j])
      <4>1. CASE j = k
        BY <4>1, <3>2, <2>1, <2>4 DEF Spreads
      <4>2. CASE j # k
        BY <4>2, <1>2, <2>4
      <4> QED BY <4>1, <4>2
    <3> QED BY <3>1, <3>3, <2>4, <1>2 DEF Spread
  <2> QED BY <2>2, <2>3, <2>4 DEF Spread
<1> QED BY <1>3, <1>4, <1>5, <1>6, <1>7, <1>8 DEF RouteInv, Routed

\* The master of the caller makes a copy for each record: each has a way to go.
LEMMA BroadcastStep ==
    ASSUME RouteInv, NEW k \in DOMAIN copies, R!Broadcast(k)
    PROVE  RouteInv'
<1> DEFINE E == Everything(local)
           n == req.from[1]
           found == Fitting(req, R!GlobalRecords(n))
           order == R!SetToSeq(found)
           N == Cardinality(found)
<1>1. frames' = frames /\ local' = local /\ global' = global /\ known' = known /\ booting' = booting /\ req' = req /\ changes' = changes
  BY DEF R!Broadcast, R!Unmoved
<1>2. copies[k].step = "send" /\ copies[k].at = R!Master(n) /\ ~Local(req) /\ req.broadcast
  BY DEF R!Broadcast, R!Waits, RouteInv, Routed, InPlace
<1>3. n \in Nodes /\ copies[k].at[1] = n /\ req.node = None /\ req.worker = None
  BY <1>2, Constants DEF RouteInv, Routed, RouteType, R!Processes, R!Master
<1>4. copies' = [j \in 1 .. N |-> R!Towards(n, order[j].node)]
  BY <1>3, SameTargets, SameFinite DEF R!Broadcast
<1>5. IsFiniteSet(found)
  BY <1>3, FoundIsFinite DEF RouteInv, Routed
<1>6. N \in Nat /\ order \in [1 .. N -> found]
  BY <1>5, OrderIs
<1> HIDE DEF order, N
<1>7. ASSUME NEW j \in 1 .. N
      PROVE  /\ order[j] \in found /\ order[j].node \in Nodes
             /\ copies'[j] = [at |-> R!Master(order[j].node), step |-> IF order[j].node = n THEN "recv" ELSE "tcp", frame |-> None]
             /\ IsCopy(copies'[j])
             /\ InPlace(req, copies'[j])
  <2>1. order[j] \in found
    BY <1>6
  <2>2. order[j].node \in Nodes
    <3>1. order[j] \in R!GlobalRecords(n)
      BY <2>1 DEF Fitting
    <3> QED BY <3>1, <1>3, GlobalNodes DEF RouteInv, Routed
  <2>3. copies'[j] = [at |-> R!Master(order[j].node), step |-> IF order[j].node = n THEN "recv" ELSE "tcp", frame |-> None]
    BY <1>4 DEF R!Towards
  <2>4. IsCopy(copies'[j])
    BY <2>3 DEF IsCopy, Stages
  <2>5. copies'[j].at = R!Master(order[j].node) /\ copies'[j].step = IF order[j].node = n THEN "recv" ELSE "tcp"
    BY <2>3
  <2>6. Chosen(req, order[j].node)
    BY <1>2, <1>3, <2>2 DEF Chosen
  <2>7. InPlace(req, copies'[j])
    BY <2>2, <2>5, <2>6 DEF InPlace, Entered
  <2> QED BY <2>1, <2>2, <2>3, <2>4, <2>7
<1>8. DOMAIN copies' = 1 .. N /\ copies' = [j \in DOMAIN copies' |-> copies'[j]]
  BY <1>4
<1>9. RouteType'
  <2>1. \A j \in DOMAIN copies' : IsCopy(copies'[j])
    BY <1>7, <1>8
  <2> QED BY <1>1, <1>8, <2>1 DEF RouteInv, Routed, RouteType, IsCopy
<1>10. (\A j \in DOMAIN copies : InPlace(req, copies[j]))'
  <2>1. ASSUME NEW j \in DOMAIN copies' PROVE InPlace(req', copies'[j])
    <3>1. InPlace(req, copies'[j])
      BY <1>7, <1>8
    <3> QED BY <3>1, <1>1
  <2> QED BY <2>1
<1>11. (Still => Tables(Everything(local)))'
  BY <1>1 DEF RouteInv, Routed, Still, Tables, Everything
<1>12. ~(req.broadcast)' => FALSE
  BY <1>1, <1>2
<1>13. Finite'
  BY <1>1 DEF RouteInv, Finite
<1>14. (Broadcasts => Spread(req, Everything(local), copies))'
  <2>1. SUFFICES ASSUME Broadcasts PROVE Spread(req, E, copies')
    BY <1>1 DEF Broadcasts, Still
  <2>2. found = Listed(req, E)
    BY <2>1, <1>3, ListedAre DEF RouteInv, Routed, Knows, Broadcasts
  <2>3. ASSUME NEW j \in 1 .. N PROVE Heading(order[j], copies'[j])
    <3>1. copies'[j] = [at |-> R!Master(order[j].node), step |-> IF order[j].node = n THEN "recv" ELSE "tcp", frame |-> None]
      BY <1>7
    <3>2. copies'[j].at = R!Master(order[j].node) /\ copies'[j].step \in {"tcp", "recv"}
      BY <3>1
    <3> QED BY <3>2 DEF Heading
  <2>4. order = Order(req, E) /\ N = Cardinality(Listed(req, E))
    BY <2>2 DEF order, Order, N
  <2> QED BY <2>2, <2>3, <2>4, <1>2, <1>5, <1>8 DEF Spread
<1> QED BY <1>9, <1>10, <1>11, <1>12, <1>13, <1>14 DEF RouteInv, Routed

\* Every step of a copy keeps the invariant.
LEMMA CopiesGo ==
    ASSUME RouteInv, NEW k \in DOMAIN copies,
           \/ R!Call(k) \/ R!Frwd(k) \/ R!Send(k) \/ R!Broadcast(k) \/ R!TcpRecv(k) \/ R!Recv(k) \/ R!Exec(k)
    PROVE  RouteInv'
<1>1. Knows /\ InPlace(req, copies[k])
  BY DEF RouteInv, Routed, Knows
<1>2. CASE R!Call(k)
  <2>1. R!Unmoved /\ Spreads(k) /\ \E y : Lands(k, y)
    BY <1>1, <1>2, CallLands, CallSpreads DEF R!Call
  <2> QED BY <2>1, CopyStep
<1>3. CASE R!Frwd(k)
  <2>1. R!Unmoved /\ Spreads(k) /\ \E y : Lands(k, y)
    BY <1>1, <1>3, FrwdLands, FrwdSpreads DEF R!Frwd
  <2> QED BY <2>1, CopyStep
<1>4. CASE R!Send(k)
  <2>1. R!Unmoved /\ \E y : Lands(k, y)
    BY <1>1, <1>4, SendLands DEF R!Send
  <2>2. Spreads(k)
    BY <1>4 DEF R!Send, Spreads, Broadcasts
  <2> QED BY <2>1, <2>2, CopyStep
<1>5. CASE R!TcpRecv(k)
  <2>1. R!Unmoved /\ Spreads(k) /\ \E y : Lands(k, y)
    BY <1>1, <1>5, TcpRecvLands, TcpRecvSpreads DEF R!TcpRecv
  <2> QED BY <2>1, CopyStep
<1>6. CASE R!Recv(k)
  <2>1. R!Unmoved /\ Spreads(k) /\ \E y : Lands(k, y)
    BY <1>1, <1>6, RecvLands, RecvSpreads DEF R!Recv
  <2> QED BY <2>1, CopyStep
<1>7. CASE R!Exec(k)
  <2>1. R!Unmoved /\ Spreads(k) /\ \E y : Lands(k, y)
    BY <1>1, <1>7, ExecLands, ExecSpreads DEF R!Exec
  <2> QED BY <2>1, CopyStep
<1> QED BY <1>2, <1>3, <1>4, <1>5, <1>6, <1>7, BroadcastStep

\* What the frames and tables do leaves the copies as they are.
LEMMA CopiesStay ==
    ASSUME RouteInv, req' = req, copies' = copies, RouteType', Finite',
           Still' => Still /\ local' = local /\ Tables(Everything(local))'
    PROVE  RouteInv'
<1>1. (\A k \in DOMAIN copies : InPlace(req, copies[k]))'
  BY DEF RouteInv, Routed
<1>2. (Still => Tables(Everything(local)))'
  OBVIOUS
<1>3. (Still /\ ~req.broadcast => DOMAIN copies = {1} /\ OnItsWay(req, Everything(local), copies[1]))'
  BY DEF RouteInv, Routed
<1>4. (Broadcasts => Spread(req, Everything(local), copies))'
  BY DEF RouteInv, Broadcasts
<1> QED BY <1>1, <1>2, <1>3, <1>4 DEF RouteInv, Routed

\* A process that boots starts the frames that are saved for it.
LEMMA BootSteps ==
    ASSUME RouteInv, NEW p \in booting, R!BootStep(p)
    PROVE  RouteInv'
<1> DEFINE E == Everything(local)
<1>1. /\ local' = local /\ global' = global /\ known' = known /\ req' = req /\ copies' = copies /\ changes' = changes
      /\ p \in R!Processes
  BY DEF R!BootStep, RouteInv, Routed, RouteType
<1>2. R!Due(p) \subseteq UNION {local[n] : n \in Nodes}
  BY <1>1 DEF R!Due, R!At, R!Processes
<1>3. R!Root(p) \in Roots
  BY <1>1, RootsAre
<1>4. UNION {local[n] : n \in Nodes} \subseteq Ordinary
  BY DEF RouteInv, Routed, RouteType
<1>5. /\ \/ frames' = frames
         \/ frames' = frames \cup {R!Root(p)}
         \/ \E f \in R!Due(p) : frames' = frames \cup {f}
      /\ \/ booting' = booting
         \/ R!Root(p) \in frames /\ R!Due(p) = {} /\ booting' = booting \ {p} /\ frames' = frames
  BY DEF R!BootStep
<1>6. frames' \subseteq Ordinary \cup Roots /\ booting' \subseteq R!Processes /\ req.from \notin booting'
  BY <1>2, <1>3, <1>4, <1>5 DEF RouteInv, Routed, RouteType
<1>7. RouteType'
  BY <1>1, <1>6 DEF RouteInv, Routed, RouteType
<1>8. Finite'
  <2>1. IsFiniteSet(frames \ Roots)
    BY DEF RouteInv, Finite
  <2>2. CASE frames' \ Roots = frames \ Roots
    BY <1>1, <2>2, <2>1 DEF RouteInv, Finite
  <2>3. CASE \E f : frames' \ Roots = (frames \ Roots) \cup {f}
    BY <1>1, <2>1, <2>3, FS_AddElement DEF RouteInv, Finite
  <2>4. frames' \ Roots = frames \ Roots \/ \E f : frames' \ Roots = (frames \ Roots) \cup {f}
    <3>1. ASSUME NEW f \in R!Due(p), frames' = frames \cup {f}
          PROVE  frames' \ Roots = frames \ Roots \/ frames' \ Roots = (frames \ Roots) \cup {f}
      BY <3>1
    <3> QED BY <3>1, <1>3, <1>5
  <2> QED BY <2>2, <2>3, <2>4
<1>9. Still => Tables(Everything(local))'
  <2>1. SUFFICES ASSUME Still PROVE Tables(E)'
    BY <1>1
  <2>2. Tables(E)
    BY <2>1 DEF RouteInv, Routed
  <2>3. frames' \subseteq E
    BY <2>2, <1>2, <1>3, <1>5 DEF Tables, Everything
  <2>4. ASSUME NEW f \in E, Place(f) \notin booting' PROVE f \in frames'
    <3>1. CASE Place(f) \notin booting
      BY <3>1, <2>2, <1>5 DEF Tables
    <3>2. CASE Place(f) \in booting
      <4>1. Place(f) = p /\ R!Root(p) \in frames /\ R!Due(p) = {} /\ frames' = frames
        BY <3>2, <2>4, <1>5
      <4>2. f \in local[f.node] \/ f \in Roots
        BY PlacesAre DEF RouteInv, Routed
      <4>3. CASE f \in Roots
        BY <4>1, <4>3, RootsAre
      <4>4. CASE f \in local[f.node]
        <5>1. f.node = p[1] /\ f.worker = p[2]
          BY <4>1 DEF Place
        <5>2. f \in R!At(local[p[1]], p)
          BY <5>1, <4>1, <4>4 DEF R!At, Place
        <5> QED BY <5>2, <4>1 DEF R!Due
      <4> QED BY <4>2, <4>3, <4>4
    <3> QED BY <3>1, <3>2
  <2> QED BY <1>1, <2>2, <2>3, <2>4 DEF Tables, Everything
<1>10. Still' => Still
  BY <1>1 DEF Still
<1> QED BY <1>1, <1>7, <1>8, <1>9, <1>10, CopiesStay

\* Once a frame is started or stopped, the copies are somewhere they may be.
LEMMA StartStops ==
    ASSUME RouteInv, NEW f \in Places, R!Start(f) \/ R!Stop(f)
    PROVE  RouteInv'
<1>1. /\ local' = local /\ global' = global /\ known' = known /\ req' = req /\ copies' = copies /\ booting' = booting
      /\ changes' = changes + 1
  BY DEF R!Start, R!Stop, R!Changes
<1>2. frames' = frames \cup {f} \/ frames' = frames \ {f}
  BY DEF R!Start, R!Stop
<1>3. f \in Ordinary
  BY DEF Ordinary
<1>4. changes' \in Nat /\ changes' # 0
  BY <1>1 DEF RouteInv, Routed, RouteType
<1>5. RouteType'
  <2>1. frames' \subseteq Ordinary \cup Roots
    BY <1>2, <1>3 DEF RouteInv, Routed, RouteType
  <2> QED BY <1>1, <1>4, <2>1 DEF RouteInv, Routed, RouteType
<1>6. Finite'
  <2>1. IsFiniteSet(frames \ Roots)
    BY DEF RouteInv, Finite
  <2>2. IsFiniteSet((frames \ Roots) \cup {f}) /\ IsFiniteSet((frames \ Roots) \ {f})
    BY <2>1, FS_AddElement, FS_RemoveElement
  <2>3. \/ frames' \ Roots = (frames \ Roots) \cup {f}
        \/ frames' \ Roots = frames \ Roots
        \/ frames' \ Roots = (frames \ Roots) \ {f}
    BY <1>2
  <2>4. IsFiniteSet(frames' \ Roots)
    BY <2>1, <2>2, <2>3
  <2> QED BY <1>1, <2>4 DEF RouteInv, Finite
<1>7. ~Still'
  BY <1>4 DEF Still
<1> QED BY <1>1, <1>5, <1>6, <1>7, CopiesStay

\* The table of a node changes only after a start or a stop.
LEMMA LearnLocals ==
    ASSUME RouteInv, NEW n \in Nodes, R!LearnLocal(n)
    PROVE  RouteInv'
<1> DEFINE runs == {f \in frames : f.node = n} \ Roots
<1>1. R!Actual(n) = runs
  BY DEF R!Actual, Roots
<1>2. /\ frames' = frames /\ known' = known /\ booting' = booting /\ req' = req /\ copies' = copies /\ changes' = changes
      /\ local' = [local EXCEPT ![n] = runs] /\ global' = [global EXCEPT ![n] = @ \ (local[n] \ runs)]
      /\ local[n] # runs /\ R!Quiet(n)
  BY <1>1 DEF R!LearnLocal
<1>3. runs \subseteq Ordinary /\ \A f \in runs : f.node = n
  BY DEF RouteInv, Routed, RouteType
<1>4. RouteType'
  <2>1. local' \in [Nodes -> SUBSET Ordinary] /\ \A m \in Nodes : \A f \in local'[m] : f.node = m
    BY <1>2, <1>3 DEF RouteInv, Routed, RouteType
  <2>2. global' \in [Nodes -> SUBSET Ordinary]
    BY <1>2 DEF RouteInv, Routed, RouteType
  <2> QED BY <1>2, <2>1, <2>2 DEF RouteInv, Routed, RouteType
<1>5. Finite'
  <2>1. IsFiniteSet(frames \ Roots) /\ runs \subseteq frames \ Roots
    BY DEF RouteInv, Finite
  <2>2. IsFiniteSet(runs)
    BY <2>1, FS_Subset
  <2>3. ASSUME NEW m \in Nodes PROVE IsFiniteSet(local'[m])
    <3>1. local'[m] = local[m] \/ local'[m] = runs
      BY <1>2 DEF RouteInv, Routed, RouteType
    <3> QED BY <3>1, <2>2 DEF RouteInv, Finite
  <2>4. ASSUME NEW m \in Nodes PROVE IsFiniteSet(global'[m])
    <3>1. global'[m] \subseteq global[m]
      BY <1>2 DEF RouteInv, Routed, RouteType
    <3>2. IsFiniteSet(global[m])
      BY DEF RouteInv, Finite
    <3> QED BY <3>1, <3>2, FS_Subset
  <2> QED BY <1>2, <2>1, <2>3, <2>4 DEF Finite
<1>6. ~Still
  <2>1. SUFFICES ASSUME Still PROVE local[n] = runs
    BY <1>2
  <2>2. Tables(Everything(local)) /\ RouteType
    BY <2>1 DEF RouteInv, Routed
  <2>3. ASSUME NEW f \in local[n] PROVE f \in runs
    <3>1. f \in Everything(local) /\ f.node = n
      BY <2>2 DEF Everything, RouteType
    <3>2. Place(f) \in R!Processes /\ f \notin Roots
      BY <2>2, <3>1, PlacesAre, RootsAre
    <3>3. Place(f) \in {n} \X ({0} \cup Workers)
      BY <3>1, <3>2 DEF Place, R!Processes
    <3>4. Place(f) \notin booting
      BY <3>3, <1>2 DEF R!Quiet
    <3>5. f \in frames
      BY <2>2, <3>1, <3>4 DEF Tables
    <3> QED BY <3>1, <3>2, <3>5
  <2>4. ASSUME NEW f \in runs PROVE f \in local[n]
    <3>1. f \in Everything(local) /\ f.node = n /\ f \notin Roots
      BY <2>2 DEF Tables
    <3> QED BY <3>1, <2>2, PlacesAre
  <2> QED BY <2>3, <2>4
<1>7. ~Still'
  BY <1>2, <1>6 DEF Still
<1> QED BY <1>2, <1>4, <1>5, <1>7, CopiesStay

\* So does the table of the cluster.
LEMMA LearnGlobals ==
    ASSUME RouteInv, NEW n \in Nodes, R!LearnGlobal(n)
    PROVE  RouteInv'
<1> DEFINE all == UNION {local[m] : m \in Nodes}
<1>1. /\ frames' = frames /\ local' = local /\ booting' = booting /\ req' = req /\ copies' = copies /\ changes' = changes
      /\ global' = [global EXCEPT ![n] = all] /\ known' = [known EXCEPT ![n] = {f.node : f \in all}]
      /\ changes > 0
  BY DEF R!LearnGlobal
<1>2. all \subseteq Ordinary
  BY DEF RouteInv, Routed, RouteType
<1> HIDE DEF all
<1>3. {f.node : f \in all} \subseteq Nodes
  <2>1. ASSUME NEW f \in all PROVE f.node \in Nodes
    <3>1. <<f.node, f.worker>> \in R!Processes
      BY <1>2, Constants DEF Place
    <3> QED BY <3>1 DEF R!Processes
  <2> QED BY <2>1
<1>4. RouteType'
  BY <1>1, <1>2, <1>3 DEF RouteInv, Routed, RouteType
<1>5. Finite'
  <2>1. IsFiniteSet(all)
    BY AllLocalFinite DEF all, RouteInv, Routed, RouteType
  <2>2. ASSUME NEW m \in Nodes PROVE IsFiniteSet(global'[m])
    <3>1. global'[m] = global[m] \/ global'[m] = all
      BY <1>1 DEF RouteInv, Routed, RouteType
    <3> QED BY <3>1, <2>1 DEF RouteInv, Finite
  <2> QED BY <1>1, <2>2 DEF RouteInv, Finite
<1>6. ~Still'
  BY <1>1 DEF Still, RouteInv, Routed, RouteType
<1> QED BY <1>1, <1>4, <1>5, <1>6, CopiesStay

\* All steps of NodeRouting keep the invariant.
LEMMA RoutingSteps == RouteInv /\ R!Next => RouteInv'
<1> SUFFICES ASSUME RouteInv, R!Next PROVE RouteInv'
  OBVIOUS
<1> QED BY CopiesGo, BootSteps, StartStops, LearnLocals, LearnGlobals DEF R!Next

\* It holds at first.
LEMMA RoutingStarts == R!Init => RouteInv
<1> SUFFICES ASSUME R!Init PROVE RouteInv
  OBVIOUS
<1>1. PICK placed \in Deployments :
          /\ frames = {f \in placed : <<f.node, f.worker>> \notin booting} \cup {R!Root(p) : p \in R!Processes \ booting}
          /\ local = [n \in Nodes |-> {f \in placed : f.node = n}]
          /\ global = [n \in Nodes |-> placed]
          /\ known = [n \in Nodes |-> Nodes]
  BY DEF R!Init
<1>2. /\ req \in Requests /\ changes = 0 /\ booting \subseteq R!Processes /\ req.from \notin booting
      /\ copies = [i \in {1} |-> [at |-> req.from, step |-> "call", frame |-> None]]
  BY Constants DEF R!Init
<1>3. placed \subseteq Ordinary /\ \A f \in placed : f.node \in Nodes
  <2>1. placed \subseteq Ordinary
    BY DEF Ordinary
  <2>2. ASSUME NEW f \in placed PROVE f.node \in Nodes
    <3>1. <<f.node, f.worker>> \in R!Processes
      BY <2>1, Constants DEF Place
    <3> QED BY <3>1 DEF R!Processes
  <2> QED BY <2>1, <2>2
<1>4. copies[1] = [at |-> req.from, step |-> "call", frame |-> None] /\ DOMAIN copies = {1}
  BY <1>2
<1>5. IsCopy(copies[1])
  BY <1>4 DEF IsCopy, Stages
<1>6. RouteType
  <2>1. frames \subseteq Ordinary \cup Roots
    BY <1>1, <1>3 DEF Roots
  <2>2. local \in [Nodes -> SUBSET Ordinary] /\ \A n \in Nodes : \A f \in local[n] : f.node = n
    BY <1>1, <1>3
  <2>3. global \in [Nodes -> SUBSET Ordinary] /\ known \in [Nodes -> SUBSET Nodes]
    BY <1>1, <1>3
  <2>4. \A k \in DOMAIN copies : IsCopy(copies[k])
    BY <1>4, <1>5
  <2>5. copies = [k \in DOMAIN copies |-> copies[k]] /\ changes \in Nat
    BY <1>2
  <2> QED BY <1>2, <2>1, <2>2, <2>3, <2>4, <2>5 DEF RouteType
<1>7. copies[1].step = "call" /\ copies[1].at = req.from
  BY <1>4
<1>8. \A k \in DOMAIN copies : InPlace(req, copies[k])
  <2>1. InPlace(req, copies[1])
    BY <1>7 DEF InPlace
  <2> QED BY <2>1, <1>4
<1>9. UNION {local[n] : n \in Nodes} = placed
  BY <1>1, <1>3
<1>10. Tables(Everything(local))
  <2>1. frames \subseteq Everything(local)
    BY <1>1, <1>9 DEF Everything, Roots
  <2>2. ASSUME NEW f \in Everything(local), Place(f) \notin booting PROVE f \in frames
    <3>1. CASE f \in placed
      BY <3>1, <2>2, <1>1 DEF Place
    <3>2. CASE f \in Roots
      BY <3>2, <2>2, <1>1, RootsAre
    <3> QED BY <3>1, <3>2, <1>9 DEF Everything
  <2> QED BY <2>1, <2>2, <1>1, <1>9 DEF Tables
<1>11. OnItsWay(req, Everything(local), copies[1])
  BY <1>7 DEF OnItsWay, Refused
<1>12. Finite
  <2>1. IsFiniteSet(placed)
    BY FiniteConstants
  <2>2. frames \ Roots \subseteq placed
    BY <1>1 DEF Roots
  <2>3. \A n \in Nodes : local[n] \subseteq placed /\ global[n] = placed
    BY <1>1
  <2> QED BY <2>1, <2>2, <2>3, FS_Subset DEF Finite
<1>13. Broadcasts => Spread(req, Everything(local), copies)
  <2>1. SUFFICES ASSUME Broadcasts PROVE Spread(req, Everything(local), copies)
    OBVIOUS
  <2>2. req.from[1] \in Nodes
    BY <1>2, Constants DEF R!Processes
  <2>3. IsFiniteSet(Fitting(req, R!GlobalRecords(req.from[1])))
    BY <2>2, <1>6, <1>12, FoundIsFinite
  <2>4. IsFiniteSet(Listed(req, Everything(local)))
    BY <2>1, <2>2, <2>3, <1>6, <1>10, ListedAre DEF Knows, Broadcasts
  <2>5. Lone(req, Everything(local), copies[1])
    BY <1>7 DEF Lone
  <2> QED BY <2>4, <2>5, <1>4 DEF Spread
<1> QED BY <1>4, <1>6, <1>8, <1>10, <1>11, <1>12, <1>13 DEF RouteInv, Routed

\* Frames that run, and those that will, are the frames of the tables.
LEMMA AllIsEverything == RouteInv /\ Still => R!All = Everything(local)
<1> SUFFICES ASSUME RouteInv, Still PROVE R!All = Everything(local)
  OBVIOUS
<1>1. Tables(Everything(local)) /\ RouteType
  BY DEF RouteInv, Routed
<1>2. ASSUME NEW f \in R!All PROVE f \in Everything(local)
  <2>1. CASE f \in frames
    BY <2>1, <1>1 DEF Tables
  <2>2. CASE f \in UNION {R!Due(p) : p \in booting}
    <3>1. PICK p \in booting : f \in R!Due(p)
      BY <2>2
    <3>2. f \in local[p[1]] /\ p[1] \in Nodes
      BY <3>1, <1>1 DEF R!Due, R!At, RouteType, R!Processes
    <3> QED BY <3>2 DEF Everything
  <2>3. CASE f \in {R!Root(p) : p \in booting}
    BY <2>3, <1>1 DEF Everything, Roots, RouteType
  <2> QED BY <1>2, <2>1, <2>2, <2>3 DEF R!All
<1>3. ASSUME NEW f \in Everything(local) PROVE f \in R!All
  <2>1. CASE Place(f) \notin booting
    BY <2>1, <1>1 DEF Tables, R!All
  <2>2. CASE Place(f) \in booting
    <3>1. CASE f \in Roots
      BY <3>1, <2>2, RootsAre DEF R!All
    <3>2. CASE f \in local[f.node]
      <4>1. Place(f)[1] = f.node
        BY DEF Place
      <4>2. f \in frames \/ f \in R!Due(Place(f))
        BY <3>2, <4>1 DEF R!Due, R!At, Place
      <4>3. f \in frames \/ f \in UNION {R!Due(p) : p \in booting}
        BY <4>2, <2>2
      <4> QED BY <4>3 DEF R!All
    <3> QED BY <3>1, <3>2, <1>1, PlacesAre
  <2> QED BY <2>1, <2>2
<1> QED BY <1>2, <1>3

\* When all copies of a broadcast are done, each frame that it is meant for has executed one of them.
LEMMA BroadcastReaches ==
    ASSUME RouteInv, Broadcasts, R!Done
    PROVE  /\ {copies[i].frame : i \in R!Ran} = Allowed(req, Everything(local))
           /\ Cardinality(R!Ran) = Cardinality(Allowed(req, Everything(local)))
<1> DEFINE E == Everything(local)
           allowed == Allowed(req, E)
           F == Listed(req, E)
           order == Order(req, E)
<1>1. Spread(req, E, copies) /\ req.broadcast /\ ~req.private /\ req.node = None /\ req.worker = None
  BY Constants DEF RouteInv, Broadcasts, Routed, RouteType
<1>2. ASSUME NEW i \in DOMAIN copies, copies[i].step = "ran"
      PROVE  copies[i].frame \in Allowed(req, {copies[i].frame})
  BY <1>2 DEF RouteInv, Routed, InPlace
<1>3. CASE DOMAIN copies = {1} /\ Lone(req, E, copies[1])
  <2>1. Local(req) /\ copies[1].step \in {"ran", "lost"}
    BY <1>3 DEF Lone, R!Done
  <2>2. \A f \in allowed : f \in Fitting(req, R!At(E, req.from))
    BY <2>1 DEF Allowed, Origin, Place, Fitting, R!At
  <2>3. CASE copies[1].step = "ran"
    <3> DEFINE f == copies[1].frame
    <3>1. R!Ran = {1}
      BY <1>3, <2>3 DEF R!Ran
    <3>2. f \in Allowed(req, {f}) /\ f \in E
      BY <1>2, <1>3, <2>3 DEF Lone
    <3>3. f \in allowed /\ f \in Fitting(req, E) /\ Place(f) = req.from
      BY <3>2, <2>1 DEF Allowed, Fitting, Origin
    <3>4. ASSUME NEW g \in allowed PROVE g = f
      <4>1. g \in Fitting(req, E) /\ Place(g) = req.from
        BY <2>2 DEF Fitting, R!At, Place
      <4>2. g.node = f.node
        BY <4>1, <3>3 DEF Place
      <4> QED BY <4>1, <4>2, <3>3 DEF Broadcasts, Single
    <3>5. allowed = {f}
      BY <3>3, <3>4
    <3>6. {copies[i].frame : i \in R!Ran} = allowed
      BY <3>1, <3>5
    <3>7. Cardinality(R!Ran) = Cardinality(allowed)
      BY <3>1, <3>5, FS_Singleton
    <3> QED BY <3>6, <3>7
  <2>4. CASE copies[1].step = "lost"
    <3>1. R!Ran = {}
      BY <1>3, <2>4 DEF R!Ran
    <3>2. allowed = {}
      BY <2>2, <2>4, <1>3 DEF Lone
    <3>3. {copies[i].frame : i \in R!Ran} = {}
      BY <3>1
    <3> QED BY <3>1, <3>2, <3>3
  <2> QED BY <2>1, <2>3, <2>4
<1>4. CASE /\ ~Local(req) /\ DOMAIN copies = 1 .. Cardinality(F)
           /\ \A j \in DOMAIN copies : Heading(order[j], copies[j])
  <2>1. IsFiniteSet(F)
    BY <1>1 DEF Spread
  <2>2. /\ order \in [1 .. Cardinality(F) -> F] /\ Cardinality(F) \in Nat
        /\ \A i, j \in 1 .. Cardinality(F) : order[i] = order[j] => i = j
        /\ \A f \in F : \E i \in 1 .. Cardinality(F) : order[i] = f
    BY <2>1, OrderIs DEF Order
  <2>3. \A f \in allowed : f \in F /\ f.role # "$worker"
    BY <1>1, <1>4 DEF Allowed, Listed, Origin, Meant, Fitting
  <2>4. \A f \in F : f.role # "$worker" => f \in allowed
    BY <1>1, <1>4 DEF Allowed, Listed, Meant, Fitting
  <2>5. ASSUME NEW i \in DOMAIN copies
        PROVE  IF i \in R!Ran THEN copies[i].frame = order[i] /\ order[i].role # "$worker" ELSE order[i].role = "$worker"
    <3>1. Heading(order[i], copies[i])
      BY <1>4
    <3>2. copies[i].step \notin {"tcp", "recv", "exec"}
      BY DEF R!Done
    <3>3. i \in R!Ran <=> copies[i].step = "ran"
      BY DEF R!Ran
    <3>4. CASE copies[i].step = "ran"
      BY <3>1, <3>3, <3>4 DEF Heading
    <3>5. CASE copies[i].step # "ran"
      BY <3>1, <3>2, <3>3, <3>5 DEF Heading
    <3> QED BY <3>4, <3>5
  <2>6. R!Ran \subseteq DOMAIN copies
    BY DEF R!Ran
  <2> HIDE DEF allowed, F, order
  <2> DEFINE b == [i \in R!Ran |-> copies[i].frame]
  <2>7. b \in [R!Ran -> allowed]
    BY <2>2, <2>4, <2>5, <2>6, <1>4
  <2>8. \A i, j \in R!Ran : b[i] = b[j] => i = j
    BY <2>2, <2>5, <2>6, <1>4
  <2>9. ASSUME NEW f \in allowed PROVE \E i \in R!Ran : b[i] = f
    <3>1. PICK i \in 1 .. Cardinality(F) : order[i] = f
      BY <2>2, <2>3
    <3> QED BY <3>1, <2>3, <2>5, <1>4
  <2>10. IsFiniteSet(R!Ran)
    <3>1. IsFiniteSet(1 .. Cardinality(F))
      BY <2>2, FS_Interval
    <3> QED BY <3>1, <2>6, <1>4, FS_Subset
  <2>11. ExistsBijection(R!Ran, allowed)
    <3>1. b \in Bijection(R!Ran, allowed)
      BY <2>7, <2>8, <2>9 DEF Bijection, Injection, Surjection, IsInjective
    <3> QED BY <3>1 DEF ExistsBijection
  <2>12. Cardinality(R!Ran) = Cardinality(allowed)
    BY <2>10, <2>11, FS_Bijection
  <2>13. {copies[i].frame : i \in R!Ran} = allowed
    BY <2>7, <2>9
  <2> QED BY <2>12, <2>13 DEF allowed
<1> QED BY <1>1, <1>3, <1>4 DEF Spread

\* The invariant says enough.
LEMMA RoutedRequestsArrive == RouteInv => R!RequestsFindTheirAgent
<1> SUFFICES ASSUME RouteInv PROVE R!RequestsFindTheirAgent
  OBVIOUS
<1> DEFINE E == Everything(local)
<1>1. \A i \in R!Ran : copies[i].frame \in R!Targets({copies[i].frame})
  BY SameTargets DEF RouteInv, Routed, InPlace, R!Ran
<1>2. ASSUME R!Done, changes = 0, ~req.broadcast
      PROVE  R!Ran # {} <=> R!Targets(R!All) # {}
  <2>1. Still /\ R!Targets(R!All) = Allowed(req, E)
    BY <1>2, SameTargets, AllIsEverything DEF Still
  <2>2. DOMAIN copies = {1} /\ OnItsWay(req, E, copies[1])
    BY <1>2, <2>1 DEF RouteInv, Routed
  <2>3. copies[1].step \in Refused \cup {"ran"}
    BY <1>2, <2>2 DEF R!Done, RouteInv, Routed, RouteType, IsCopy, Stages, Refused
  <2>4. CASE copies[1].step = "ran"
    <3>1. copies[1].frame \in Allowed(req, {copies[1].frame}) /\ copies[1].frame \in E
      BY <2>2, <2>4 DEF RouteInv, Routed, InPlace, OnItsWay
    <3>2. copies[1].frame \in Allowed(req, E)
      BY <3>1 DEF Allowed, Fitting
    <3> QED BY <2>1, <2>2, <2>4, <3>2 DEF R!Ran
  <2>5. CASE copies[1].step \in Refused
    <3>1. Allowed(req, E) = {} /\ copies[1].step # "ran"
      BY <2>2, <2>5 DEF OnItsWay, Refused
    <3> QED BY <2>1, <2>2, <3>1 DEF R!Ran
  <2> QED BY <2>3, <2>4, <2>5
<1>3. ASSUME R!Done, changes = 0, req.broadcast, ~req.private
      PROVE  \/ {copies[i].frame : i \in R!Ran} = R!Targets(R!All) /\ R!Cardinality(R!Ran) = R!Cardinality(R!Targets(R!All))
             \/ \E f, g \in R!Found(R!All) : f # g /\ f.node = g.node
  <2>1. R!All = E /\ R!Targets(R!All) = Allowed(req, E) /\ R!Found(R!All) = Fitting(req, E)
    BY <1>3, SameTargets, AllIsEverything DEF Still
  <2>2. CASE Single(req, E)
    <3>1. Broadcasts
      BY <1>3, <2>2 DEF Broadcasts, Still
    <3> QED BY <1>3, <2>1, <3>1, BroadcastReaches, SameFinite
  <2>3. CASE ~Single(req, E)
    BY <2>1, <2>3 DEF Single
  <2> QED BY <2>2, <2>3
<1> QED BY <1>1, <1>2, <1>3 DEF R!RequestsFindTheirAgent

RouteAlways == part = "routing" => RouteInv

\* A request is executed only where its options let it, and if there is such a place and nothing is started or stopped it is
\* executed (RequestsFindTheirAgent, of NodeRouting: Node.rpc, _find_node, _find_worker, Atlas), for any nodes, workers, frames
\* and requests, whatever processes are booting; a broadcast is executed once by each frame, if no node has two of them.
THEOREM Arrives == Spec => []RequestsFindTheirAgent
<1>1. Init => RouteAlways
  BY RoutingStarts DEF Init, RouteAlways
<1>2. RouteAlways /\ [Next]_<<part, cachevars, routingvars, actionvars>> => RouteAlways'
  <2> SUFFICES ASSUME RouteAlways, [Next]_<<part, cachevars, routingvars, actionvars>>, part' = "routing"
               PROVE  RouteInv'
    BY DEF RouteAlways
  <2>1. part = "routing" /\ RouteInv
    BY DEF Next, RouteAlways
  <2>2. CASE R!Next
    BY <2>1, <2>2, RoutingSteps
  <2>3. CASE UNCHANGED routingvars
    <3>1. /\ frames' = frames /\ local' = local /\ global' = global /\ known' = known /\ booting' = booting
          /\ req' = req /\ copies' = copies /\ changes' = changes
      BY <2>3 DEF routingvars
    <3>2. RouteType'
      BY <2>1, <3>1 DEF RouteInv, Routed, RouteType, IsCopy
    <3>3. Finite'
      BY <2>1, <3>1 DEF RouteInv, Finite
    <3>4. Still' => Still /\ local' = local /\ Tables(Everything(local))'
      BY <2>1, <3>1 DEF Still, RouteInv, Routed, Tables, Everything
    <3> QED BY <2>1, <3>1, <3>2, <3>3, <3>4, CopiesStay
  <2> QED BY <2>1, <2>2, <2>3 DEF Next
<1>3. RouteAlways => RequestsFindTheirAgent
  BY RoutedRequestsArrive DEF RouteAlways, RequestsFindTheirAgent
<1> QED BY <1>1, <1>2, <1>3, PTL DEF Spec
=============================================================================
