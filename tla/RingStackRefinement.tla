------------------------- MODULE RingStackRefinement -------------------------
(***************************************************************************)
(* RingStack implements ObjectStore, for any number of rings, calls and    *)
(* crashes, if calls enter the top ring.                                   *)
(*                                                                         *)
(* The argument: a copy above a call can only have been brought up from a  *)
(* read-only ring that the call has still before it (Above), so a call in  *)
(* a writable ring finds the topmost copy; between reading and saving it   *)
(* is inside its row, and records of read-only rings never change (Held);  *)
(* and the topmost copy at or below a call is what the object has been at  *)
(* some moment since the call started (Current).                           *)
(***************************************************************************)
EXTENDS RingStack, WellFoundedInduction, SequenceTheorems, TLAPS

\* A nonempty set of natural numbers has a least element.
LEMMA LeastElement ==
    ASSUME NEW S, S \subseteq Nat, S # {}
    PROVE  \E x \in S : \A y \in S : x <= y
<1>1. PICK x \in S : \A y \in S : ~(<<y, x>> \in OpToRel(<, Nat))
  BY WFMin, NatLessThanWellFounded
<1>2. \A y \in S : ~(y < x)
  BY <1>1 DEF OpToRel
<1> QED BY <1>2

-----------------------------------------------------------------------------
\* The pile of a ring from that of the ring below.
Grow(s, r, below) == IF r = 0 THEN <<>> ELSE IF s[r] = Missing THEN below ELSE <<s[r]>> \o below

\* The recursive definition of piles has a solution.
LEMMA PilesGrow ==
    ASSUME NEW s
    PROVE  \A r \in 0..NRings : Piles(s)[r] = Grow(s, r, Piles(s)[r - 1])
<1> DEFINE Solves(f, n) == f = [r \in 0..n |-> Grow(s, r, f[r - 1])]
           Unsolved == {n \in 0..NRings : ~\E f : Solves(f, n)}
<1>1. NRings \in Nat
  BY RingStackAssumption
<1>2. Unsolved = {}
  <2> SUFFICES ASSUME Unsolved # {} PROVE FALSE
    OBVIOUS
  <2>1. Unsolved \subseteq Nat
    BY <1>1
  <2>2. PICK m \in Unsolved : \A n \in Unsolved : m <= n
    BY <2>1, LeastElement
  <2>3. m \in Nat /\ m \in 0..NRings /\ ~\E f : Solves(f, m)
    BY <2>1, <2>2
  <2>4. CASE m = 0
    <3> DEFINE g == [r \in 0..0 |-> <<>>]
    <3>1. Solves(g, 0)
      BY DEF Grow
    <3> QED BY <3>1, <2>3, <2>4
  <2>5. CASE m # 0
    <3>1. m - 1 \in 0..NRings /\ m - 1 \notin Unsolved
      BY <2>2, <2>3, <2>5, <1>1
    <3>2. PICK f : Solves(f, m - 1)
      BY <3>1
    <3> DEFINE g == [r \in 0..m |-> IF r = m THEN Grow(s, m, f[m - 1]) ELSE f[r]]
    <3>3. ASSUME NEW r \in 0..m PROVE g[r] = Grow(s, r, g[r - 1])
      <4>1. CASE r = m
        <5>1. g[r - 1] = f[m - 1]
          BY <4>1, <2>3, <2>5
        <5> QED BY <5>1, <4>1
      <4>2. CASE r # m
        <5>1. r \in 0..m - 1 /\ g[r] = f[r] /\ f[r] = Grow(s, r, f[r - 1])
          BY <4>2, <3>2, <2>3
        <5>2. CASE r = 0
          BY <5>1, <5>2 DEF Grow
        <5>3. CASE r # 0
          <6>1. g[r - 1] = f[r - 1]
            BY <5>1, <5>3, <2>3
          <6> QED BY <5>1, <6>1
        <5> QED BY <5>2, <5>3
      <4> QED BY <4>1, <4>2
    <3>4. Solves(g, m)
      BY <3>3
    <3> QED BY <3>4, <2>3
  <2> QED BY <2>4, <2>5
<1>3. \E f : Solves(f, NRings)
  BY <1>1, <1>2
<1>4. Piles(s) = CHOOSE f : Solves(f, NRings)
  BY DEF Piles, Grow
<1> HIDE DEF Solves
<1>5. Solves(Piles(s), NRings)
  BY <1>3, <1>4
<1> QED BY <1>5 DEF Solves

Contents == [Rings -> Records]

\* A pile is a sequence of records.
LEMMA PileTypes ==
    ASSUME NEW s \in Contents
    PROVE  \A r \in 0..NRings : Piles(s)[r] \in Seq(Records)
<1> DEFINE Odd == {r \in 0..NRings : Piles(s)[r] \notin Seq(Records)}
<1> SUFFICES ASSUME Odd # {} PROVE FALSE
  OBVIOUS
<1>1. NRings \in Nat /\ Odd \subseteq Nat
  BY RingStackAssumption
<1>2. PICK m \in Odd : \A n \in Odd : m <= n
  BY <1>1, LeastElement
<1>3. Piles(s)[m] = Grow(s, m, Piles(s)[m - 1]) /\ m \in 0..NRings /\ Piles(s)[m] \notin Seq(Records)
  BY <1>2, PilesGrow
<1>4. m # 0
  BY <1>3 DEF Grow
<1>5. m - 1 \in 0..NRings /\ m - 1 \notin Odd /\ m \in Rings
  BY <1>1, <1>2, <1>3, <1>4 DEF Rings
<1>6. Piles(s)[m - 1] \in Seq(Records) /\ s[m] \in Records
  BY <1>5 DEF Contents
<1> QED BY <1>3, <1>4, <1>6 DEF Grow

\* Rings that have the same records up to n have the same piles.
LEMMA PilesAgree ==
    ASSUME NEW s, NEW t, NEW n \in 0..NRings, \A r \in 1..n : s[r] = t[r]
    PROVE  \A r \in 0..n : Piles(s)[r] = Piles(t)[r]
<1> DEFINE Odd == {r \in 0..n : Piles(s)[r] # Piles(t)[r]}
<1> SUFFICES ASSUME Odd # {} PROVE FALSE
  OBVIOUS
<1>1. NRings \in Nat /\ n \in Nat /\ Odd \subseteq Nat /\ n <= NRings
  BY RingStackAssumption
<1>2. PICK m \in Odd : \A q \in Odd : m <= q
  BY <1>1, LeastElement
<1>3. m \in 0..n /\ m \in 0..NRings /\ Piles(s)[m] # Piles(t)[m]
  BY <1>1, <1>2
<1>4. Piles(s)[m] = Grow(s, m, Piles(s)[m - 1]) /\ Piles(t)[m] = Grow(t, m, Piles(t)[m - 1])
  BY <1>3, PilesGrow
<1>5. m # 0
  BY <1>3, <1>4 DEF Grow
<1>6. m - 1 \in 0..n /\ m - 1 \notin Odd /\ m \in 1..n
  BY <1>1, <1>2, <1>3, <1>5
<1> QED BY <1>3, <1>4, <1>6 DEF Grow

\* Rings without a copy add nothing to a pile.
LEMMA PilesOver ==
    ASSUME NEW s, NEW n \in 0..NRings, NEW m \in n..NRings, \A r \in n+1..m : s[r] = Missing
    PROVE  Piles(s)[m] = Piles(s)[n]
<1> DEFINE Odd == {r \in n..m : Piles(s)[r] # Piles(s)[n]}
<1> SUFFICES ASSUME Odd # {} PROVE FALSE
  BY RingStackAssumption
<1>1. NRings \in Nat /\ n \in Nat /\ m \in Nat /\ Odd \subseteq Nat /\ n <= m /\ m <= NRings
  BY RingStackAssumption
<1>2. PICK k \in Odd : \A q \in Odd : k <= q
  BY <1>1, LeastElement
<1>3. k \in n..m /\ k # n /\ k # 0 /\ Piles(s)[k] # Piles(s)[n]
  BY <1>1, <1>2
<1>4. Piles(s)[k] = Grow(s, k, Piles(s)[k - 1])
  BY <1>1, <1>3, PilesGrow
<1>5. k - 1 \in n..m /\ k - 1 \notin Odd /\ k \in n+1..m
  BY <1>1, <1>2, <1>3
<1> QED BY <1>3, <1>4, <1>5 DEF Grow

\* The topmost copy in rings 1..r, if there is one.
TopOf(s, r) == IF Piles(s)[r] = <<>> THEN Missing ELSE Head(Piles(s)[r])

\* The pile of a ring with a copy, and of one without.
LEMMA PileOfRing ==
    ASSUME NEW s \in Contents, NEW r \in Rings
    PROVE  /\ s[r] # Missing => /\ Piles(s)[r] = <<s[r]>> \o Piles(s)[r - 1]
                                /\ Piles(s)[r] # <<>>
                                /\ Head(Piles(s)[r]) = s[r] /\ Tail(Piles(s)[r]) = Piles(s)[r - 1]
                                /\ TopOf(s, r) = s[r]
           /\ s[r] = Missing => Piles(s)[r] = Piles(s)[r - 1] /\ TopOf(s, r) = TopOf(s, r - 1)
<1>1. NRings \in Nat /\ r \in 0..NRings /\ r - 1 \in 0..NRings /\ r # 0
  BY RingStackAssumption DEF Rings
<1>2. Piles(s)[r] = Grow(s, r, Piles(s)[r - 1]) /\ Piles(s)[r - 1] \in Seq(Records) /\ s[r] \in Records
  BY <1>1, PilesGrow, PileTypes DEF Contents
<1>3. CASE s[r] = Missing
  BY <1>1, <1>2, <1>3 DEF Grow, TopOf
<1>4. CASE s[r] # Missing
  <2> DEFINE p == Piles(s)[r - 1]
             q == Piles(s)[r]
  <2>1. q = <<s[r]>> \o p /\ p \in Seq(Records)
    BY <1>1, <1>2, <1>4 DEF Grow
  <2> HIDE DEF p, q
  <2>2. q # <<>> /\ Head(q) = s[r] /\ Tail(q) = p
    BY <2>1, <1>2
  <2> QED BY <2>1, <2>2, <1>4 DEF TopOf, p, q
<1> QED BY <1>3, <1>4

\* What is visible is the topmost copy of all rings; the empty stack has none.
LEMMA VisibleTop ==
    /\ copies = Piles(store)[NRings] /\ Visible = TopOf(store, NRings)
    /\ copies' = Piles(store')[NRings] /\ Visible' = TopOf(store', NRings)
    /\ \A s : TopOf(s, 0) = Missing
<1>1. ASSUME NEW s PROVE Piles(s)[0] = <<>>
  <2>1. 0 \in 0..NRings
    BY RingStackAssumption
  <2>2. Piles(s)[0] = Grow(s, 0, Piles(s)[0 - 1])
    BY <2>1, PilesGrow
  <2> QED BY <2>2 DEF Grow
<1> QED BY <1>1 DEF copies, Visible, TopOf

-----------------------------------------------------------------------------
CallType == [kind : Kinds, pc : {"new", "look", "wait", "save", "upsave", "return", "end"},
             ring : Rings, top : Rings, record : Records, answer : Answers]

Typed ==
    /\ readonly \subseteq Rings
    /\ store \in Contents
    /\ rows \in [Rings -> Seq(Entries)]
    /\ call \in [Calls -> CallType]
    /\ seen \in [Calls -> SUBSET Records]
    /\ \A c \in Calls : call[c].pc \in {"return", "end"} <=> ~Open(c)

Active(c) == call[c].pc \in {"look", "wait", "save", "upsave"}

\* A copy in ring k above a call that is in ring r was brought up by an upsave from
\* a read-only ring, r or below.
BroughtUp(r, k) == \E e \in 1..r : e \in readonly /\ Has(e) /\ \A q \in e+1..k-1 : q \in readonly

\* Copies above a call.
Above(c) == Active(c) =>
    /\ call[c].top = NRings
    /\ \A k \in call[c].ring + 1 .. NRings : Has(k) => k \notin readonly /\ BroughtUp(call[c].ring, k)

\* A call that has read a record holds it; a record that goes up is read-only.
Held(c) ==
    /\ call[c].pc = "wait" => call[c].kind # "select"
    /\ call[c].pc = "save" => /\ call[c].kind # "select"
                              /\ Lock!Holds(Entry(c), call[c].ring)
                              /\ call[c].ring \notin readonly
    /\ call[c].pc = "upsave" => /\ call[c].kind = "update"
                                /\ call[c].ring \in readonly
                                /\ Writable(c) # {}
    /\ call[c].pc \in {"save", "upsave"} => Has(call[c].ring) /\ call[c].record = store[call[c].ring]

\* What a call will find is something the object has been since it started.
Current(c) ==
    /\ call[c].pc = "new" <=> seen[c] = {}
    /\ call[c].pc = "new" => call[c].answer = <<"none", Missing>>
    /\ Active(c) => TopOf(store, call[c].ring) \in seen[c] /\ Visible \in seen[c]

Inv == Typed /\ \A c \in Calls : Above(c) /\ Held(c) /\ Current(c)

-----------------------------------------------------------------------------
\* What is on top is a record, or missing.
LEMMA TopTypes ==
    ASSUME NEW s \in Contents, NEW r \in 0..NRings
    PROVE  TopOf(s, r) \in Records
<1>1. Piles(s)[r] \in Seq(Records)
  BY PileTypes
<1>2. Missing \in Records
  BY DEF Records
<1>3. \A p \in Seq(Records) : p # <<>> => Head(p) \in Records
  OBVIOUS
<1> QED BY <1>1, <1>2, <1>3 DEF TopOf

\* A caller that is inside stays inside when others join or leave.
LEMMA LineKept ==
    ASSUME Typed, NEW p \in Entries, NEW k \in Rings, Lock!Join(p, k) \/ Lock!Leave(p, k)
    PROVE  /\ rows' \in [Rings -> Seq(Entries)]
           /\ \A q \in Entries, r \in Rings : Lock!Holds(q, r) =>
                 \/ Lock!Holds(q, r)'
                 \/ Lock!Leave(p, k) /\ q = p /\ r = k
<1>1. rows \in [Rings -> Seq(Entries)]
  BY DEF Typed
<1>2. CASE Lock!Join(p, k)
  <2>1. rows' = [rows EXCEPT ![k] = Append(@, p)]
    BY <1>2 DEF Lock!Join
  <2>2. \A r \in Rings : rows'[r] = rows[r] \/ rows'[r] = Append(rows[r], p)
    BY <1>1, <2>1
  <2>3. \A t \in Seq(Entries) : /\ Append(t, p) \in Seq(Entries)
                                /\ t # <<>> => Append(t, p) # <<>> /\ Head(Append(t, p)) = Head(t)
    OBVIOUS
  <2>4. \A q \in Entries, r \in Rings : Lock!Holds(q, r) => Lock!Holds(q, r)'
    BY <1>1, <2>2, <2>3 DEF Lock!Holds
  <2>5. rows' \in [Rings -> Seq(Entries)]
    BY <1>1, <2>1, <2>3
  <2> QED BY <2>4, <2>5
<1>3. CASE Lock!Leave(p, k)
  <2>1. rows' = [rows EXCEPT ![k] = Tail(@)] /\ rows[k] # <<>> /\ Head(rows[k]) = p
    BY <1>3 DEF Lock!Leave, Lock!Holds
  <2>2. rows' \in [Rings -> Seq(Entries)]
    BY <1>1, <2>1
  <2>3. \A r \in Rings : r # k => rows'[r] = rows[r]
    BY <1>1, <2>1
  <2> QED BY <1>3, <2>1, <2>2, <2>3 DEF Lock!Holds
<1> QED BY <1>2, <1>3

\* The history of a call.
LEMMA SeenGrows ==
    ASSUME Inv, Watch, NEW c \in Calls
    PROVE  /\ seen'[c] = IF call'[c].pc # "new" /\ Open(c) THEN seen[c] \union {Visible'} ELSE seen[c]
           /\ seen[c] \subseteq seen'[c]
  BY DEF Watch

\* A step that changes no record: every call stays as it is, has its answer, or is
\* where it should be.
LEMMA StoreKept ==
    ASSUME Inv, Watch, UNCHANGED <<readonly, store>>,
           rows' \in [Rings -> Seq(Entries)], call' \in [Calls -> CallType],
           \A d \in Calls : call'[d].pc \in {"return", "end"} <=> call'[d].answer[1] # "none",
           \A d \in Calls :
              \/ call'[d] = call[d] /\ (call[d].pc = "save" => Lock!Holds(Entry(d), call[d].ring)')
              \/ call'[d].pc \in {"return", "end"} /\ call[d].pc # "new"
              \/ /\ Open(d) /\ call'[d].pc # "new" /\ Above(d)' /\ Held(d)'
                 /\ Active(d)' => TopOf(store, call'[d].ring) \in seen[d] \union {Visible}
    PROVE  Inv' /\ copies' = copies /\ Visible' = Visible
<1>1. copies' = copies /\ Visible' = Visible
  BY VisibleTop
<1>2. Visible \in Records
  <2>1. NRings \in 0..NRings
    BY RingStackAssumption
  <2> QED BY <2>1, VisibleTop, TopTypes DEF Inv, Typed
<1>3. seen' \in [Calls -> SUBSET Records]
  BY <1>1, <1>2 DEF Watch, Inv, Typed
<1>4. Typed'
  BY <1>3 DEF Inv, Typed, Open
<1>5. ASSUME NEW d \in Calls PROVE Above(d)' /\ Held(d)' /\ Current(d)'
  <2>0. Above(d) /\ Held(d) /\ Current(d)
    BY DEF Inv
  <2>1. /\ seen'[d] = IF call'[d].pc # "new" /\ Open(d) THEN seen[d] \union {Visible'} ELSE seen[d]
        /\ seen[d] \subseteq seen'[d]
    BY SeenGrows
  <2>2. CASE call'[d] = call[d] /\ (call[d].pc = "save" => Lock!Holds(Entry(d), call[d].ring)')
    <3>1. Above(d)'
      BY <2>0, <2>2 DEF Above, Active, BroughtUp, Has
    <3>2. Held(d)'
      BY <2>0, <2>2 DEF Held, Has, Writable
    <3>3. Current(d)'
      BY <2>0, <2>1, <2>2, <1>1 DEF Current, Active
    <3> QED BY <3>1, <3>2, <3>3
  <2>3. CASE call'[d].pc \in {"return", "end"} /\ call[d].pc # "new"
    BY <2>0, <2>1, <2>3 DEF Above, Held, Current, Active
  <2>4. CASE /\ Open(d) /\ call'[d].pc # "new" /\ Above(d)' /\ Held(d)'
             /\ Active(d)' => TopOf(store, call'[d].ring) \in seen[d] \union {Visible}
    <3>1. seen'[d] = seen[d] \union {Visible}
      BY <2>1, <2>4, <1>1
    <3>2. Current(d)'
      BY <3>1, <2>4, <1>1 DEF Current, Active
    <3> QED BY <2>4, <3>2
  <2> QED BY <2>2, <2>3, <2>4
<1> QED BY <1>1, <1>4, <1>5 DEF Inv

\* Nothing a client sees has changed.
LEMMA QuietStep ==
    ASSUME Inv, Watch, UNCHANGED <<readonly, store>>, copies' = copies, Visible' = Visible,
           call' \in [Calls -> CallType],
           \A d \in Calls : /\ call'[d].answer = call[d].answer
                            /\ call'[d].pc = "new" <=> call[d].pc = "new"
    PROVE  UNCHANGED <<copies, answer, seen>>
<1>1. answer' = answer
  BY DEF answer
<1>2. ASSUME NEW d \in Calls PROVE seen'[d] = seen[d]
  <2>1. seen'[d] = IF call[d].pc # "new" /\ Open(d) THEN seen[d] \union {Visible} ELSE seen[d]
    BY SeenGrows
  <2>2. call[d].pc # "new" /\ Open(d) => Active(d)
    BY DEF Inv, Typed, CallType, Active
  <2>3. Active(d) => Visible \in seen[d]
    BY DEF Inv, Current
  <2> QED BY <2>1, <2>2, <2>3
<1>3. seen' = seen
  <2>1. seen' = [c \in Calls |-> seen'[c]] /\ seen = [c \in Calls |-> seen[c]]
    BY DEF Watch, Inv, Typed
  <2> QED BY <2>1, <1>2
<1> QED BY <1>1, <1>3

\* A call gets its answer.
LEMMA EndingStep ==
    ASSUME Inv, Watch, NEW c \in Calls, Active(c), NEW a,
           call' \in [Calls -> CallType], call'[c].answer = a, call'[c].pc # "new",
           \A d \in Calls : d # c => call'[d] = call[d]
    PROVE  Objects!Take(c, a, copies')
<1>1. \A d \in Calls : Objects!Open(d) <=> Open(d)
  BY DEF Objects!Open, answer, Open
<1>2. answer' = [answer EXCEPT ![c] = a]
  BY DEF answer
<1>3. Objects!Visible(copies') = Visible'
  BY DEF Objects!Visible, Visible, Objects!Missing, Missing
<1>4. Open(c)
  BY DEF Active, Inv, Typed
<1>5. seen[c] # {}
  BY DEF Active, Inv, Current
<1>6. \A d \in Calls : call'[d].pc # "new" /\ Open(d) <=> seen[d] # {} /\ Open(d)
  BY <1>5 DEF Inv, Current
<1>7. seen' = [d \in Calls |-> IF seen[d] # {} /\ Objects!Open(d)
                               THEN seen[d] \union {Objects!Visible(copies')} ELSE seen[d]]
  BY <1>1, <1>3, <1>6 DEF Watch
<1> QED BY <1>1, <1>2, <1>4, <1>5, <1>7 DEF Objects!Take

-----------------------------------------------------------------------------
\* The calls but c that hold the row of their ring go on holding it.
OthersHold(c) ==
    /\ rows' \in [Rings -> Seq(Entries)]
    /\ \A d \in Calls : d # c /\ call[d].pc = "save" => Lock!Holds(Entry(d), call[d].ring)'

\* Call c, or its upsave, joins or leaves a line.
LEMMA OthersKept ==
    ASSUME Typed, NEW c \in Calls, \A d \in Calls : d # c => call'[d] = call[d],
           \A d \in Calls : Held(d),
           \/ UNCHANGED rows
           \/ \E p \in {Entry(c), Upsaver(c)}, k \in Rings : Lock!Join(p, k) \/ Lock!Leave(p, k)
    PROVE  OthersHold(c)
<1>1. \A d \in Calls : call[d].ring \in Rings /\ Entry(d) \in Entries /\ Upsaver(d) \in Entries
  BY DEF Typed, CallType, Entries
<1>2. CASE UNCHANGED rows
  BY <1>2 DEF OthersHold, Typed, Held, Lock!Holds
<1>3. CASE \E p \in {Entry(c), Upsaver(c)}, k \in Rings : Lock!Join(p, k) \/ Lock!Leave(p, k)
  <2>1. PICK p \in {Entry(c), Upsaver(c)}, k \in Rings : Lock!Join(p, k) \/ Lock!Leave(p, k)
    BY <1>3
  <2>2. p \in Entries
    BY <2>1, <1>1
  <2>3. /\ rows' \in [Rings -> Seq(Entries)]
        /\ \A q \in Entries, r \in Rings : Lock!Holds(q, r) => Lock!Holds(q, r)' \/ q = p
    BY <2>1, <2>2, LineKept
  <2>4. ASSUME NEW d \in Calls, d # c, call[d].pc = "save"
        PROVE  Lock!Holds(Entry(d), call[d].ring)'
    <3>1. Lock!Holds(Entry(d), call[d].ring) /\ call'[d].ring = call[d].ring
      BY <2>4 DEF Held
    <3>2. Entry(d) # p
      BY <2>1, <2>4 DEF Entry, Upsaver
    <3> DEFINE q == Entry(d)
               r == call[d].ring
    <3>3. q \in Entries /\ r \in Rings /\ Lock!Holds(q, r)
      BY <1>1, <3>1
    <3>4. rows'[r] # <<>> /\ Head(rows'[r]) = q
      BY <3>2, <3>3, <2>3 DEF Lock!Holds
    <3> QED BY <3>1, <3>4 DEF Lock!Holds
  <2> QED BY <2>3, <2>4 DEF OthersHold
<1> QED BY <1>2, <1>3

\* Call c goes on, or is over; clients see nothing.
LEMMA MoveStep ==
    ASSUME Inv, Watch, UNCHANGED <<readonly, store>>, NEW c \in Calls, call[c].pc # "new",
           NEW n \in CallType, call' = [call EXCEPT ![c] = n], n.answer = call[c].answer, OthersHold(c),
           \/ n.pc \in {"return", "end"} /\ ~Open(c)
           \/ /\ n.pc \notin {"new", "return", "end"} /\ Open(c)
              /\ Above(c)' /\ Held(c)' /\ TopOf(store, n.ring) \in seen[c]
    PROVE  Inv' /\ UNCHANGED Objects!vars
<1>1. /\ call' \in [Calls -> CallType] /\ call'[c] = n
      /\ \A d \in Calls : d # c => call'[d] = call[d]
  BY DEF Inv, Typed
<1>2. \A d \in Calls : call'[d].pc \in {"return", "end"} <=> call'[d].answer[1] # "none"
  BY <1>1 DEF Inv, Typed, Open
<1>3. Inv' /\ copies' = copies /\ Visible' = Visible
  BY <1>1, <1>2, StoreKept DEF OthersHold
<1>4. \A d \in Calls : /\ call'[d].answer = call[d].answer
                       /\ call'[d].pc = "new" <=> call[d].pc = "new"
  BY <1>1
<1>5. UNCHANGED <<copies, answer, seen>>
  BY <1>1, <1>3, <1>4, QuietStep
<1> QED BY <1>3, <1>5 DEF Objects!vars

\* Call c gets an answer and no record is changed.
LEMMA AnswerStep ==
    ASSUME Inv, Watch, UNCHANGED <<readonly, store>>, NEW c \in Calls, Active(c), OthersHold(c),
           NEW a \in Answers, a[1] # "none",
           call' = [call EXCEPT ![c].answer = a, ![c].pc = "return"]
    PROVE  Inv' /\ Objects!Take(c, a, copies)
<1>1. /\ call' \in [Calls -> CallType] /\ call'[c].answer = a /\ call'[c].pc = "return"
      /\ \A d \in Calls : d # c => call'[d] = call[d]
  BY ZenonT(60) DEF Inv, Typed, CallType
<1>2. \A d \in Calls : call'[d].pc \in {"return", "end"} <=> call'[d].answer[1] # "none"
  BY <1>1 DEF Inv, Typed, Open
<1>3. call[c].pc # "new"
  BY DEF Active
<1>4. Inv' /\ copies' = copies
  BY <1>1, <1>2, <1>3, StoreKept DEF OthersHold
<1>5. Objects!Take(c, a, copies')
  BY <1>1, EndingStep
<1> QED BY <1>4, <1>5

\* Calls that are open fail.
LEMMA FailStep ==
    ASSUME Inv, Watch, UNCHANGED <<readonly, store>>, NEW cs \in SUBSET Calls, \A c \in cs : Active(c),
           rows' \in [Rings -> Seq(Entries)],
           call' = [c \in Calls |-> IF c \in cs THEN [call[c] EXCEPT !.answer = <<"failed", Missing>>,
                                                                     !.pc = "return"] ELSE call[c]],
           \A d \in Calls \ cs : call[d].pc = "save" => Lock!Holds(Entry(d), call[d].ring)'
    PROVE  Inv' /\ Objects!Next
<1>1. <<"failed", Missing>> \in Answers
  BY DEF Answers, Records
<1>2. /\ call' \in [Calls -> CallType]
      /\ \A d \in cs : call'[d].answer = <<"failed", Missing>> /\ call'[d].pc = "return"
      /\ \A d \in Calls \ cs : call'[d] = call[d]
  BY ZenonT(60), <1>1 DEF Inv, Typed, CallType
<1>3. ASSUME NEW d \in Calls
      PROVE  call'[d].pc \in {"return", "end"} <=> call'[d].answer[1] # "none"
  <2>1. CASE d \in cs
    <3>1. call'[d].pc = "return" /\ call'[d].answer = <<"failed", Missing>>
      BY <1>2, <2>1
    <3>2. <<"failed", Missing>>[1] = "failed"
      OBVIOUS
    <3>3. call'[d].answer[1] = <<"failed", Missing>>[1]
      BY <3>1, Zenon
    <3> QED BY <3>1, <3>2, <3>3
  <2>2. CASE d \notin cs
    BY <1>2, <2>2 DEF Inv, Typed, Open
  <2> QED BY <2>1, <2>2
<1>4. \A d \in cs : call[d].pc # "new" /\ Open(d)
  BY DEF Active, Inv, Typed
<1>5. Inv' /\ copies' = copies /\ Visible' = Visible
  <2>1. \A d \in Calls :
           \/ call'[d] = call[d] /\ (call[d].pc = "save" => Lock!Holds(Entry(d), call[d].ring)')
           \/ call'[d].pc \in {"return", "end"} /\ call[d].pc # "new"
    BY <1>2, <1>4
  <2> QED BY <2>1, <1>2, <1>3, StoreKept
<1>6. seen' = seen
  <2>1. ASSUME NEW d \in Calls PROVE seen'[d] = seen[d]
    <3>1. seen'[d] = IF call'[d].pc # "new" /\ Open(d) THEN seen[d] \union {Visible} ELSE seen[d]
      BY <1>5, SeenGrows
    <3>2. call'[d].pc # "new" /\ Open(d) => Active(d)
      BY <1>2 DEF Inv, Typed, CallType, Active
    <3>3. Active(d) => Visible \in seen[d]
      BY DEF Inv, Current
    <3> QED BY <3>1, <3>2, <3>3
  <2>2. seen' = [c \in Calls |-> seen'[c]] /\ seen = [c \in Calls |-> seen[c]]
    BY DEF Watch, Inv, Typed
  <2> QED BY <2>1, <2>2
<1>7. answer' = [c \in Calls |-> IF c \in cs THEN <<"failed", Missing>> ELSE answer[c]]
  BY <1>2 DEF answer
<1>8. \A c \in cs : Objects!Open(c) /\ seen[c] # {}
  BY <1>4 DEF Objects!Open, answer, Open, Inv, Current
<1>9. Objects!Fail(cs)
  BY <1>5, <1>6, <1>7, <1>8 DEF Objects!Fail, Objects!Missing, Missing
<1> QED BY <1>5, <1>9 DEF Objects!Next

\* A call starts in the top ring.
LEMMA StartStep ==
    ASSUME Entered = {NRings}, Inv, Watch, UNCHANGED <<readonly, store>>,
           NEW c \in Calls, call[c].pc = "new", NEW n \in CallType, call' = [call EXCEPT ![c] = n],
           n.pc \in {"look", "wait"}, n.pc = "wait" => n.kind # "select",
           n.answer = <<"none", Missing>>, n.ring = NRings, n.top = NRings, OthersHold(c)
    PROVE  Inv' /\ Objects!Next
<1>1. /\ call' \in [Calls -> CallType] /\ call'[c] = n
      /\ \A d \in Calls : d # c => call'[d] = call[d]
  BY DEF Inv, Typed
<1>2. \A d \in Calls : call'[d].pc \in {"return", "end"} <=> call'[d].answer[1] # "none"
  BY <1>1 DEF Inv, Typed, Open
<1>3. Open(c) /\ seen[c] = {} /\ call[c].answer = <<"none", Missing>>
  BY DEF Inv, Typed, Current, Open
<1>4. Above(c)' /\ Held(c)' /\ TopOf(store, call'[c].ring) = Visible
  <2>1. NRings + 1 .. NRings = {}
    BY RingStackAssumption
  <2> QED BY <1>1, <2>1, VisibleTop DEF Above, Held
<1>5. Inv' /\ copies' = copies /\ Visible' = Visible
  BY <1>1, <1>2, <1>3, <1>4, StoreKept DEF OthersHold
<1>6. answer' = answer
  BY <1>1, <1>3 DEF answer
<1>7. ASSUME NEW d \in Calls PROVE seen'[d] = IF d = c THEN {Visible} ELSE seen[d]
  <2>1. seen'[d] = IF call'[d].pc # "new" /\ Open(d) THEN seen[d] \union {Visible} ELSE seen[d]
    BY <1>5, SeenGrows
  <2>2. CASE d = c
    BY <2>1, <2>2, <1>1, <1>3
  <2>3. CASE d # c
    <3>1. call[d].pc # "new" /\ Open(d) => Active(d)
      BY DEF Inv, Typed, CallType, Active
    <3>2. Active(d) => Visible \in seen[d]
      BY DEF Inv, Current
    <3> QED BY <2>1, <2>3, <3>1, <3>2, <1>1
  <2> QED BY <2>2, <2>3
<1>8. seen' = [seen EXCEPT ![c] = {Visible}]
  <2>1. seen' = [d \in Calls |-> seen'[d]] /\ seen = [d \in Calls |-> seen[d]]
    BY DEF Watch, Inv, Typed
  <2> QED BY <2>1, <1>7
<1>9. Objects!Visible(copies) = Visible
  BY DEF Objects!Visible, Visible, Objects!Missing, Missing
<1>10. Objects!Start(c)
  BY <1>3, <1>5, <1>6, <1>8, <1>9 DEF Objects!Start, Objects!Open, answer
<1> QED BY <1>5, <1>10 DEF Objects!Next

-----------------------------------------------------------------------------
\* select, update and delete enter the top ring.
LEMMA StartKeeps ==
    ASSUME Entered = {NRings}, Inv, Watch, NEW c \in Calls, NEW r \in Entered,
           StartSelect(c, r) \/ \E kind \in {"update", "delete"} : StartWrite(c, kind, r)
    PROVE  Inv' /\ Objects!Next
<1>1. r = NRings /\ r \in Rings /\ 1 \in Rings
  BY RingStackAssumption DEF Rings
<1>2. NewCall \in CallType /\ NewCall.answer = <<"none", Missing>>
  BY <1>1 DEF NewCall, CallType, Kinds, Records, Answers
<1>3. CASE StartSelect(c, r)
  <2> DEFINE n == [NewCall EXCEPT !.pc = "look", !.ring = r, !.top = r]
  <2>1. /\ n \in CallType /\ n.pc = "look" /\ n.ring = r /\ n.top = r
        /\ n.answer = <<"none", Missing>>
    BY <1>1, <1>2 DEF CallType, NewCall
  <2> HIDE DEF n
  <2>2. /\ call[c].pc = "new" /\ call' = [call EXCEPT ![c] = n]
        /\ UNCHANGED <<readonly, store, rows>>
    BY <1>3 DEF StartSelect, n
  <2>3. OthersHold(c)
    BY <2>2, OthersKept DEF Inv, Typed
  <2> QED BY <1>1, <2>1, <2>2, <2>3, StartStep
<1>4. CASE \E kind \in {"update", "delete"} : StartWrite(c, kind, r)
  <2>1. PICK kind \in {"update", "delete"} : StartWrite(c, kind, r)
    BY <1>4
  <2> DEFINE n == [NewCall EXCEPT !.kind = kind, !.pc = "wait", !.ring = r, !.top = r]
  <2>2. /\ n \in CallType /\ n.pc = "wait" /\ n.kind = kind /\ n.ring = r /\ n.top = r
        /\ n.answer = <<"none", Missing>> /\ kind # "select"
    BY <1>1, <1>2 DEF CallType, NewCall, Kinds
  <2> HIDE DEF n
  <2>3. /\ call[c].pc = "new" /\ call' = [call EXCEPT ![c] = n] /\ Lock!Join(Entry(c), r)
        /\ UNCHANGED <<readonly, store>>
    BY <2>1 DEF StartWrite, n
  <2>4. OthersHold(c)
    BY <1>1, <2>3, OthersKept DEF Inv, Typed
  <2> QED BY <1>1, <2>2, <2>3, <2>4, StartStep
<1> QED BY <1>3, <1>4

\* A call in a ring without a copy goes one ring down.
LEMMA LowerAbove ==
    ASSUME Inv, NEW c \in Calls, Active(c), ~Has(call[c].ring), call[c].ring > 1,
           UNCHANGED <<readonly, store>>, call'[c].ring = call[c].ring - 1, call'[c].top = call[c].top
    PROVE  Above(c)' /\ TopOf(store, call[c].ring - 1) \in seen[c]
<1> DEFINE r == call[c].ring
<1>1. r \in Rings /\ r \in Nat /\ r <= NRings /\ NRings \in Nat
  BY RingStackAssumption DEF Inv, Typed, CallType, Rings
<1>2. /\ call[c].top = NRings
      /\ \A k \in r + 1 .. NRings : Has(k) => k \notin readonly /\ BroughtUp(r, k)
  BY DEF Inv, Above
<1>3. ASSUME NEW k \in (r - 1) + 1 .. NRings, Has(k)
      PROVE  k \notin readonly /\ BroughtUp(r - 1, k)
  <2>1. k \in r + 1 .. NRings
    BY <1>1, <1>3
  <2>2. PICK e \in 1..r : e \in readonly /\ Has(e) /\ \A q \in e+1..k-1 : q \in readonly
    BY <1>2, <1>3, <2>1 DEF BroughtUp
  <2>3. e \in 1..r-1
    BY <2>2, <1>1
  <2> QED BY <1>2, <1>3, <2>1, <2>2, <2>3 DEF BroughtUp
<1>4. Above(c)'
  BY <1>2, <1>3 DEF Above, BroughtUp, Has
<1>5. TopOf(store, r) \in seen[c] /\ store[r] = Missing /\ store \in Contents
  BY DEF Inv, Typed, Current, Has
<1>6. TopOf(store, r) = TopOf(store, r - 1)
  BY <1>1, <1>5, PileOfRing
<1> QED BY <1>4, <1>5, <1>6

-----------------------------------------------------------------------------
\* select: the record, nothing, or one ring down.
LEMMA SelectKeeps ==
    ASSUME Inv, Watch, NEW c \in Calls, SelectHere(c) \/ SelectBelow(c) \/ SelectNothing(c)
    PROVE  Inv' /\ [Objects!Next]_Objects!vars
<1> DEFINE r == call[c].ring
<1>1. /\ UNCHANGED <<readonly, store, rows>> /\ call[c].pc = "look" /\ Active(c)
      /\ \A d \in Calls : d # c => call'[d] = call[d]
  BY DEF SelectHere, SelectBelow, SelectNothing, Active, Answer, Inv, Typed
<1>2. OthersHold(c)
  BY <1>1, OthersKept DEF Inv
<1>3. r \in Rings /\ r \in Nat /\ store \in Contents /\ store[r] \in Records /\ TopOf(store, r) \in seen[c]
  BY <1>1 DEF Inv, Typed, CallType, Contents, Current, Rings
<1>4. CASE SelectHere(c)
  <2> DEFINE a == <<"value", store[r]>>
  <2>1. a \in Answers /\ a[1] # "none" /\ Has(r)
    BY <1>3, <1>4 DEF Answers, SelectHere
  <2>2. call' = [call EXCEPT ![c].answer = a, ![c].pc = "return"]
    BY <1>4 DEF SelectHere
  <2> HIDE DEF a
  <2>3. Inv' /\ Objects!Take(c, a, copies)
    BY <1>1, <1>2, <2>1, <2>2, AnswerStep
  <2>4. store[r] \in seen[c]
    BY <1>3, <2>1, PileOfRing DEF Has
  <2>5. Objects!Select(c)
    BY <2>3, <2>4 DEF Objects!Select, a
  <2> QED BY <2>3, <2>5 DEF Objects!Next
<1>5. CASE SelectBelow(c)
  <2> DEFINE n == [call[c] EXCEPT !.ring = r - 1]
  <2>1. r > 1 /\ ~Has(r) /\ call' = [call EXCEPT ![c] = n]
    <3>1. call' = [call EXCEPT ![c].ring = @ - 1]
      BY <1>5 DEF SelectBelow
    <3> QED BY <1>5, <3>1 DEF SelectBelow, Inv, Typed
  <2>2. r - 1 \in Rings
    BY <1>3, <2>1, RingStackAssumption DEF Rings
  <2>3. /\ n \in CallType /\ n.pc = "look" /\ n.answer = call[c].answer /\ n.ring = r - 1
        /\ n.top = call[c].top
    BY <1>1, <2>2 DEF Inv, Typed, CallType
  <2> HIDE DEF n
  <2>4. call'[c] = n
    BY <2>1 DEF Inv, Typed
  <2>5. Above(c)' /\ TopOf(store, r - 1) \in seen[c]
    BY <1>1, <2>1, <2>3, <2>4, LowerAbove
  <2>6. Held(c)'
    BY <2>3, <2>4 DEF Held
  <2>7. Open(c)
    BY <1>1 DEF Inv, Typed
  <2>8. Inv' /\ UNCHANGED Objects!vars
    BY <1>1, <1>2, <2>1, <2>3, <2>5, <2>6, <2>7, MoveStep
  <2> QED BY <2>8
<1>6. CASE SelectNothing(c)
  <2> DEFINE a == <<"value", Missing>>
  <2>1. a \in Answers /\ a[1] # "none" /\ ~Has(r) /\ r = 1
    BY <1>6 DEF Answers, Records, SelectNothing
  <2>2. call' = [call EXCEPT ![c].answer = a, ![c].pc = "return"]
    BY <1>6 DEF SelectNothing, Answer
  <2> HIDE DEF a
  <2>3. Inv' /\ Objects!Take(c, a, copies)
    BY <1>1, <1>2, <2>1, <2>2, AnswerStep
  <2>4. Missing \in seen[c]
    <3>0. store[r] = Missing /\ r - 1 = 0
      BY <2>1 DEF Has
    <3>1. TopOf(store, r) = TopOf(store, r - 1) /\ r - 1 = 0
      BY <1>3, <3>0, PileOfRing
    <3> QED BY <1>3, <3>1, VisibleTop
  <2>5. Objects!Select(c)
    BY <2>3, <2>4 DEF Objects!Select, a
  <2> QED BY <2>3, <2>5 DEF Objects!Next
<1> QED BY <1>4, <1>5, <1>6

\* A write finds nothing here: one ring down, or there is nothing.
LEMMA WriteBelowKeeps ==
    ASSUME Inv, Watch, NEW c \in Calls, WriteBelow(c) \/ WriteNothing(c)
    PROVE  Inv' /\ [Objects!Next]_Objects!vars
<1> DEFINE r == call[c].ring
<1>1. /\ UNCHANGED <<readonly, store>> /\ call[c].pc = "wait" /\ Active(c)
      /\ \A d \in Calls : d # c => call'[d] = call[d]
  BY DEF WriteBelow, WriteNothing, Inside, Active, Answer, Inv, Typed
<1>2. /\ r \in Rings /\ r \in Nat /\ store \in Contents /\ TopOf(store, r) \in seen[c]
      /\ call[c].kind # "select"
  BY <1>1 DEF Inv, Typed, CallType, Current, Rings, Held
<1>3. CASE WriteBelow(c)
  <2> DEFINE n == [call[c] EXCEPT !.ring = r - 1]
  <2>1. r > 1 /\ ~Has(r) /\ Lock!Join(Entry(c), r - 1) /\ call' = [call EXCEPT ![c] = n]
    <3>1. call' = [call EXCEPT ![c].ring = r - 1]
      BY <1>3 DEF WriteBelow
    <3> QED BY <1>3, <3>1 DEF WriteBelow, Inv, Typed
  <2>2. r - 1 \in Rings
    BY <1>2, <2>1, RingStackAssumption DEF Rings
  <2>3. /\ n \in CallType /\ n.pc = "wait" /\ n.answer = call[c].answer /\ n.ring = r - 1
        /\ n.top = call[c].top /\ n.kind = call[c].kind
    BY <1>1, <2>2 DEF Inv, Typed, CallType
  <2> HIDE DEF n
  <2>4. call'[c] = n
    BY <2>1 DEF Inv, Typed
  <2>5. Above(c)' /\ TopOf(store, r - 1) \in seen[c]
    BY <1>1, <2>1, <2>3, <2>4, LowerAbove
  <2>6. Held(c)'
    BY <1>2, <2>3, <2>4 DEF Held
  <2>7. Open(c)
    BY <1>1 DEF Inv, Typed
  <2>8. OthersHold(c)
    BY <1>1, <2>1, <2>2, OthersKept DEF Inv
  <2>9. Inv' /\ UNCHANGED Objects!vars
    BY <1>1, <2>1, <2>3, <2>5, <2>6, <2>7, <2>8, MoveStep
  <2> QED BY <2>9
<1>4. CASE WriteNothing(c)
  <2> DEFINE a == <<"nothing", Missing>>
  <2>1. a \in Answers /\ a[1] # "none" /\ ~Has(r) /\ r = 1
    BY <1>4 DEF Answers, Records, WriteNothing
  <2>2. call' = [call EXCEPT ![c].answer = a, ![c].pc = "return"] /\ UNCHANGED rows
    BY <1>4 DEF WriteNothing, Answer
  <2> HIDE DEF a
  <2>3. OthersHold(c)
    BY <1>1, <2>2, OthersKept DEF Inv
  <2>4. Inv' /\ Objects!Take(c, a, copies)
    BY <1>1, <2>1, <2>2, <2>3, AnswerStep
  <2>5. Missing \in seen[c]
    <3>0. store[r] = Missing /\ r - 1 = 0
      BY <2>1 DEF Has
    <3>1. TopOf(store, r) = TopOf(store, r - 1) /\ r - 1 = 0
      BY <1>2, <3>0, PileOfRing
    <3> QED BY <1>2, <3>1, VisibleTop
  <2>6. Objects!Nothing(c)
    BY <2>4, <2>5 DEF Objects!Nothing, Objects!Missing, Missing, a
  <2> QED BY <2>4, <2>6 DEF Objects!Next
<1> QED BY <1>3, <1>4

\* A write reads the record, or its upsave goes up.
LEMMA ReadKeeps ==
    ASSUME Inv, Watch, NEW c \in Calls, Read(c) \/ MoveUp(c)
    PROVE  Inv' /\ [Objects!Next]_Objects!vars
<1> DEFINE r == call[c].ring
           n == IF Read(c) THEN [call[c] EXCEPT !.pc = "save", !.record = store[r]]
                ELSE [call[c] EXCEPT !.pc = "upsave", !.record = store[r]]
<1>1. /\ UNCHANGED <<readonly, store>> /\ call[c].pc = "wait" /\ Active(c) /\ Inside(c) /\ Has(r)
      /\ Lock!Holds(Entry(c), r) /\ call[c].kind # "select" /\ Open(c)
  BY DEF Read, MoveUp, Inside, Active, Inv, Typed, Held
<1>2. /\ r \in Rings /\ store[r] \in Records /\ TopOf(store, r) \in seen[c] /\ Above(c)
  BY <1>1 DEF Inv, Typed, CallType, Contents, Current
<1>3. call' = [call EXCEPT ![c] = n]
  <2>1. CASE Read(c)
    <3>1. call' = [call EXCEPT ![c].pc = "save", ![c].record = store[r]]
      BY <2>1 DEF Read
    <3> QED BY <2>1, <3>1 DEF Inv, Typed
  <2>2. CASE ~Read(c)
    <3>1. call' = [call EXCEPT ![c].pc = "upsave", ![c].record = store[r]]
      BY <2>2 DEF MoveUp
    <3> QED BY <2>2, <3>1 DEF Inv, Typed
  <2> QED BY <2>1, <2>2
<1>4. /\ n \in CallType /\ n.answer = call[c].answer /\ n.ring = r /\ n.top = call[c].top
      /\ n.kind = call[c].kind /\ n.record = store[r] /\ n.pc = IF Read(c) THEN "save" ELSE "upsave"
  BY <1>1, <1>2 DEF Inv, Typed, CallType
<1> HIDE DEF n
<1>5. call'[c] = n /\ \A d \in Calls : d # c => call'[d] = call[d]
  BY <1>3 DEF Inv, Typed
<1>6. Above(c)'
  BY <1>1, <1>2, <1>4, <1>5 DEF Above, BroughtUp, Has
<1>7. CASE Read(c)
  <2>1. UNCHANGED rows /\ r \notin readonly
    BY <1>7 DEF Read
  <2>2. Held(c)'
    BY <1>1, <1>4, <1>5, <1>7, <2>1 DEF Held, Has, Lock!Holds
  <2>3. OthersHold(c)
    BY <1>5, <2>1, OthersKept DEF Inv
  <2>4. Inv' /\ UNCHANGED Objects!vars
    BY <1>1, <1>2, <1>3, <1>4, <1>6, <1>7, <2>2, <2>3, MoveStep
  <2> QED BY <2>4
<1>8. CASE ~Read(c)
  <2>1. /\ Lock!Join(Upsaver(c), Min(Writable(c))) /\ r \in readonly
        /\ call[c].kind = "update" /\ Writable(c) # {}
    BY <1>8 DEF MoveUp
  <2>2. Min(Writable(c)) \in Rings
    <3>1. Writable(c) \subseteq Nat /\ Writable(c) \subseteq Rings
      BY RingStackAssumption DEF Writable, Rings, Inv, Typed, CallType
    <3>2. \E x \in Writable(c) : \A y \in Writable(c) : x <= y
      BY <2>1, <3>1, LeastElement
    <3> QED BY <3>1, <3>2 DEF Min
  <2>3. Writable(c)' = Writable(c)
    BY <1>1, <1>4, <1>5 DEF Writable
  <2>4. Held(c)'
    BY <1>1, <1>4, <1>5, <1>8, <2>1, <2>3 DEF Held, Has
  <2>5. OthersHold(c)
    BY <1>5, <2>1, <2>2, OthersKept DEF Inv
  <2>6. Inv' /\ UNCHANGED Objects!vars
    BY <1>1, <1>2, <1>3, <1>4, <1>6, <1>8, <2>4, <2>5, MoveStep
  <2> QED BY <2>6
<1> QED BY <1>7, <1>8

\* A call that must not write is refused.
LEMMA RefuseKeeps ==
    ASSUME Inv, Watch, NEW c \in Calls, Refuse(c)
    PROVE  Inv' /\ [Objects!Next]_Objects!vars
<1>1. /\ UNCHANGED <<readonly, store, rows>> /\ Active(c)
      /\ call' = [call EXCEPT ![c].answer = <<"failed", Missing>>, ![c].pc = "return"]
  BY DEF Refuse, Inside, Active, Answer
<1>2. rows' \in [Rings -> Seq(Entries)]
  BY <1>1 DEF Inv, Typed
<1>3. call' = [d \in Calls |-> IF d \in {c} THEN [call[d] EXCEPT !.answer = <<"failed", Missing>>,
                                                                 !.pc = "return"] ELSE call[d]]
  BY <1>1 DEF Inv, Typed
<1>4. \A d \in Calls \ {c} : call[d].pc = "save" => Lock!Holds(Entry(d), call[d].ring)'
  BY <1>1, <1>3 DEF Inv, Held, Lock!Holds
<1>5. {c} \in SUBSET Calls /\ \A d \in {c} : Active(d)
  BY <1>1
<1> QED BY <1>1, <1>2, <1>3, <1>4, <1>5, FailStep

\* The block of a ring is done with a call.
LEMMA ReturnKeeps ==
    ASSUME Inv, Watch, NEW c \in Calls, Return(c)
    PROVE  Inv' /\ [Objects!Next]_Objects!vars
<1>1. PICK r \in Rings : Returning(c, r) /\ Lock!Leave(Entry(c), r) /\ UNCHANGED <<readonly, store, call, crashes>>
  BY DEF Return
<1>2. \A d \in Calls : Entry(d) \in Entries /\ call[d].ring \in Rings
  BY DEF Entries, Inv, Typed, CallType
<1>3. /\ rows' \in [Rings -> Seq(Entries)]
      /\ \A q \in Entries, k \in Rings : Lock!Holds(q, k) => Lock!Holds(q, k)' \/ (q = Entry(c) /\ k = r)
  BY <1>1, <1>2, LineKept DEF Inv
<1>4. ASSUME NEW d \in Calls, call[d].pc = "save" PROVE Lock!Holds(Entry(d), call[d].ring)'
  <2> DEFINE q == Entry(d)
             k == call[d].ring
  <2>1. q \in Entries /\ k \in Rings /\ Lock!Holds(q, k)
    BY <1>2, <1>4 DEF Inv, Held
  <2>2. ~(q = Entry(c) /\ k = r)
    BY <1>1, <1>4 DEF Entry, Returning
  <2>3. rows'[k] # <<>> /\ Head(rows'[k]) = q
    BY <1>3, <2>1, <2>2 DEF Lock!Holds
  <2> QED BY <1>1, <2>3 DEF Lock!Holds
<1>5. Inv' /\ copies' = copies /\ Visible' = Visible
  <2>1. call' \in [Calls -> CallType]
    BY <1>1 DEF Inv, Typed
  <2>2. \A d \in Calls : call'[d].pc \in {"return", "end"} <=> call'[d].answer[1] # "none"
    BY <1>1 DEF Inv, Typed, Open
  <2>3. \A d \in Calls : call'[d] = call[d] /\ (call[d].pc = "save" => Lock!Holds(Entry(d), call[d].ring)')
    BY <1>1, <1>4
  <2> QED BY <1>1, <1>3, <2>1, <2>2, <2>3, StoreKept
<1>6. UNCHANGED <<copies, answer, seen>>
  BY <1>1, <1>5, QuietStep DEF Inv, Typed
<1> QED BY <1>5, <1>6 DEF Objects!vars

\* A call is over.
LEMMA EndKeeps ==
    ASSUME Inv, Watch, NEW c \in Calls, End(c)
    PROVE  Inv' /\ [Objects!Next]_Objects!vars
<1> DEFINE n == [call[c] EXCEPT !.pc = "end"]
<1>1. /\ UNCHANGED <<readonly, store, rows>> /\ call[c].pc = "return"
      /\ call' = [call EXCEPT ![c].pc = "end"]
  BY DEF End
<1>2. call' = [call EXCEPT ![c] = n]
  BY <1>1 DEF Inv, Typed
<1>3. n \in CallType /\ n.answer = call[c].answer /\ n.pc = "end"
  BY DEF Inv, Typed, CallType
<1> HIDE DEF n
<1>4. \A d \in Calls : d # c => call'[d] = call[d]
  BY <1>2 DEF Inv, Typed
<1>5. OthersHold(c)
  BY <1>1, <1>4, OthersKept DEF Inv
<1>6. ~Open(c)
  BY <1>1 DEF Inv, Typed
<1>7. Inv' /\ UNCHANGED Objects!vars
  BY <1>1, <1>2, <1>3, <1>5, <1>6, MoveStep
<1> QED BY <1>7

\* The process of a block dies: the calls in it fail.
LEMMA CrashKeeps ==
    ASSUME Inv, Watch, NEW r \in Rings, Crash(r)
    PROVE  Inv' /\ [Objects!Next]_Objects!vars
<1> DEFINE cs == {c \in Calls : \/ call[c].pc \in {"look", "wait", "save"} /\ call[c].ring = r
                                \/ call[c].pc = "upsave" /\ r = Min(Writable(c))}
<1>1. /\ UNCHANGED <<readonly, store>> /\ rows' = [rows EXCEPT ![r] = <<>>]
      /\ call' = [c \in Calls |-> IF c \in cs THEN [call[c] EXCEPT !.answer = <<"failed", Missing>>,
                                                                   !.pc = "return"] ELSE call[c]]
  BY DEF Crash
<1>2. cs \in SUBSET Calls /\ \A c \in cs : Active(c)
  BY DEF Active
<1>3. rows' \in [Rings -> Seq(Entries)] /\ \A k \in Rings : k # r => rows'[k] = rows[k]
  <2>1. rows \in [Rings -> Seq(Entries)] /\ <<>> \in Seq(Entries)
    BY DEF Inv, Typed
  <2> QED BY <1>1, <2>1
<1>4. ASSUME NEW d \in Calls \ cs, call[d].pc = "save" PROVE Lock!Holds(Entry(d), call[d].ring)'
  <2>1. call'[d] = call[d] /\ call[d].ring # r /\ call[d].ring \in Rings
    BY <1>1, <1>4 DEF Inv, Typed, CallType
  <2>2. Lock!Holds(Entry(d), call[d].ring)
    BY <1>4 DEF Inv, Held
  <2> QED BY <1>3, <2>1, <2>2 DEF Lock!Holds
<1> HIDE DEF cs
<1> QED BY <1>1, <1>2, <1>3, <1>4, FailStep

-----------------------------------------------------------------------------
\* The record of ring r is changed and no ring above has one.
LEMMA TopChange ==
    ASSUME NEW s \in Contents, NEW t \in Contents, NEW r \in Rings,
           \A k \in Rings : k # r => t[k] = s[k],
           \A k \in r + 1 .. NRings : t[k] = Missing
    PROVE  /\ Piles(t)[r - 1] = Piles(s)[r - 1]
           /\ Piles(t)[NRings] = Piles(t)[r]
           /\ \A m \in Rings : /\ m < r => TopOf(t, m) = TopOf(s, m)
                               /\ m >= r => TopOf(t, m) = TopOf(t, NRings)
<1>1. NRings \in Nat /\ r \in Nat /\ r >= 1 /\ r <= NRings /\ r - 1 \in 0..NRings /\ r \in 0..NRings
  BY RingStackAssumption DEF Rings
<1>2. \A k \in 1..r-1 : t[k] = s[k]
  BY <1>1 DEF Rings
<1>3. \A m \in 0..r-1 : Piles(t)[m] = Piles(s)[m]
  BY <1>1, <1>2, PilesAgree
<1>4. ASSUME NEW m \in r..NRings PROVE Piles(t)[m] = Piles(t)[r]
  <2>1. \A k \in r+1..m : t[k] = Missing
    BY <1>1
  <2> QED BY <1>1, <2>1, PilesOver
<1>5. ASSUME NEW m \in Rings, m < r PROVE TopOf(t, m) = TopOf(s, m)
  <2>1. m \in 0..r-1
    BY <1>1, <1>5 DEF Rings
  <2> QED BY <2>1, <1>3 DEF TopOf
<1>6. ASSUME NEW m \in Rings, m >= r PROVE TopOf(t, m) = TopOf(t, NRings)
  <2>1. m \in r..NRings /\ NRings \in r..NRings
    BY <1>1, <1>6 DEF Rings
  <2> QED BY <2>1, <1>4 DEF TopOf
<1>7. r - 1 \in 0..r-1 /\ NRings \in r..NRings
  BY <1>1
<1> QED BY <1>3, <1>4, <1>5, <1>6, <1>7

\* A record with one more update is a record, and not missing.
LEMMA UpdatedRecord ==
    ASSUME NEW record \in Records, record # Missing, NEW c \in Calls
    PROVE  record \union {c} \in Records /\ record \union {c} # Missing
<1>1. record \subseteq Calls
  BY DEF Records
<1>2. c # "missing"
  BY RingStackAssumption
<1>3. c \notin Missing
  BY <1>2 DEF Missing
<1> QED BY <1>1, <1>3 DEF Records

\* No copy lies above a call in a writable ring.
LEMMA NoneAbove ==
    ASSUME Inv, NEW c \in Calls, Active(c), call[c].ring \notin readonly
    PROVE  \A k \in call[c].ring + 1 .. NRings : store[k] = Missing
<1> DEFINE r == call[c].ring
<1>1. r \in Nat
  BY DEF Inv, Typed, CallType, Rings
<1> SUFFICES ASSUME NEW k \in r + 1 .. NRings, Has(k) PROVE FALSE
  BY DEF Has
<1>2. PICK e \in 1..r : e \in readonly /\ \A q \in e+1..k-1 : q \in readonly
  BY DEF Inv, Above, BroughtUp
<1>3. e # r /\ r \in e+1..k-1
  BY <1>1, <1>2
<1> QED BY <1>2, <1>3

\* An update or delete is saved in the ring where the record is.
LEMMA SaveKeeps ==
    ASSUME Inv, Watch, NEW c \in Calls, Save(c)
    PROVE  Inv' /\ Objects!Next
<1> DEFINE r == call[c].ring
           new == Changed(c)
           a == <<"done", Missing>>
<1>1. /\ call[c].pc = "save" /\ UNCHANGED <<readonly, rows>> /\ Active(c)
      /\ store' = [store EXCEPT ![r] = new]
      /\ call' = [call EXCEPT ![c].answer = a, ![c].pc = "return"]
  BY DEF Save, Answer, Active
<1>2. /\ r \in Rings /\ store \in Contents /\ r \notin readonly /\ Has(r)
      /\ call[c].record = store[r] /\ store[r] \in Records /\ Lock!Holds(Entry(c), r)
      /\ call[c].kind \in {"update", "delete"}
  BY <1>1 DEF Inv, Typed, CallType, Held, Contents, Kinds
<1>3. new = IF call[c].kind = "update" THEN store[r] \union {c} ELSE Missing
  BY <1>2 DEF Changed
<1>4. /\ new \in Records
      /\ call[c].kind = "update" => new # Missing
  <2>1. Missing \in Records
    BY DEF Records
  <2> QED BY <2>1, <1>2, <1>3, UpdatedRecord DEF Has
<1>5. a \in Answers /\ a[1] # "none"
  BY DEF Answers, Records
<1> HIDE DEF new, a
<1>6. /\ store' \in Contents /\ store'[r] = new
      /\ \A k \in Rings : k # r => store'[k] = store[k]
  BY <1>1, <1>2, <1>4 DEF Contents
<1>7. /\ call' \in [Calls -> CallType] /\ call'[c].answer = a /\ call'[c].pc = "return"
      /\ \A d \in Calls : d # c => call'[d] = call[d]
  BY ZenonT(60), <1>1, <1>5 DEF Inv, Typed, CallType
<1>8. NRings \in Nat /\ r \in Nat /\ r >= 1 /\ r <= NRings
  BY <1>2, RingStackAssumption DEF Rings
<1>9. \A k \in r + 1 .. NRings : store[k] = Missing /\ store'[k] = Missing
  <2>1. \A k \in r + 1 .. NRings : store[k] = Missing /\ k \in Rings /\ k # r
    BY <1>1, <1>2, <1>8, NoneAbove DEF Rings
  <2> QED BY <2>1, <1>6
<1>10. /\ Piles(store')[r - 1] = Piles(store)[r - 1]
       /\ copies' = Piles(store')[r]
       /\ \A m \in Rings : /\ m < r => TopOf(store', m) = TopOf(store, m)
                           /\ m >= r => TopOf(store', m) = Visible'
  BY <1>2, <1>6, <1>9, TopChange, VisibleTop
<1>11. /\ copies # <<>> /\ Head(copies) = store[r] /\ Tail(copies) = Piles(store)[r - 1]
  <2>1. Piles(store)[NRings] = Piles(store)[r]
    BY <1>2, <1>8, <1>9, PilesOver
  <2>2. /\ Piles(store)[r] # <<>> /\ Head(Piles(store)[r]) = store[r]
        /\ Tail(Piles(store)[r]) = Piles(store)[r - 1]
    BY <1>2, PileOfRing DEF Has
  <2> QED BY <2>1, <2>2, VisibleTop
<1>12. Objects!Take(c, a, copies')
  BY <1>1, <1>7, EndingStep
<1>13. Objects!Next
  <2>1. CASE call[c].kind = "update"
    <3>0. Piles(store')[r] = <<new>> \o Piles(store')[r - 1]
      BY <2>1, <1>2, <1>4, <1>6, PileOfRing
    <3>1. copies' = <<Head(copies) \union {c}>> \o Tail(copies)
      BY <2>1, <3>0, <1>3, <1>10, <1>11
    <3>2. Objects!Update(c)
      BY <3>1, <1>11, <1>12 DEF Objects!Update, Objects!Missing, Missing, a
    <3> QED BY <3>2 DEF Objects!Next
  <2>2. CASE call[c].kind = "delete"
    <3>0. Piles(store')[r] = Piles(store')[r - 1]
      <4>1. store'[r] = Missing /\ store' \in Contents /\ r \in Rings
        BY <2>2, <1>2, <1>3, <1>6
      <4> QED BY <4>1, PileOfRing
    <3>1. copies' = Tail(copies)
      BY <3>0, <1>10, <1>11
    <3>2. Objects!Delete(c)
      BY <3>1, <1>11, <1>12 DEF Objects!Delete, Objects!Missing, Missing, a
    <3> QED BY <3>2 DEF Objects!Next
  <2> QED BY <2>1, <2>2, <1>2
<1>14. Inv'
  <2>1. Visible' \in Records /\ seen' \in [Calls -> SUBSET Records]
    <3>1. NRings \in 0..NRings
      BY <1>8
    <3>2. Visible' \in Records
      BY <3>1, <1>6, VisibleTop, TopTypes
    <3> QED BY <3>2 DEF Watch, Inv, Typed
  <2>2. Typed'
    <3>1. \A d \in Calls : call'[d].pc \in {"return", "end"} <=> call'[d].answer[1] # "none"
      BY <1>5, <1>7 DEF Inv, Typed, Open
    <3> QED BY <2>1, <3>1, <1>1, <1>6, <1>7 DEF Inv, Typed, Open
  <2>3. ASSUME NEW d \in Calls PROVE Above(d)' /\ Held(d)' /\ Current(d)'
    <3>0. /\ Above(d) /\ Held(d) /\ Current(d) /\ call[d].ring \in Rings
          /\ seen'[d] = IF call'[d].pc # "new" /\ Open(d) THEN seen[d] \union {Visible'} ELSE seen[d]
          /\ seen[d] \subseteq seen'[d]
      BY SeenGrows DEF Inv, Typed, CallType
    <3>1. CASE d = c
      BY <3>0, <3>1, <1>1, <1>7 DEF Above, Held, Current, Active
    <3>2. CASE d # c
      <4>1. call'[d] = call[d]
        BY <3>2, <1>7
      <4>2. \A k \in Rings : Has(k)' => Has(k)
        BY <1>2, <1>6 DEF Has
      <4>3. \A e \in readonly : store'[e] = store[e] /\ (Has(e)' <=> Has(e))
        BY <1>2, <1>6 DEF Has, Inv, Typed
      <4>4. Above(d)'
        <5> SUFFICES ASSUME Active(d), NEW k \in call[d].ring + 1 .. NRings, Has(k)'
                     PROVE  k \notin readonly /\ BroughtUp(call[d].ring, k)'
          BY <4>1, <1>1, <3>0 DEF Above, Active
        <5>1. k \in Rings
          BY <3>0, <1>8 DEF Rings
        <5>2. k \notin readonly /\ BroughtUp(call[d].ring, k)
          BY <3>0, <4>2, <5>1 DEF Above
        <5> QED BY <5>2, <4>1, <4>3, <1>1 DEF BroughtUp
      <4>5. Held(d)'
        <5>1. CASE call[d].pc = "save"
          <6>1. Lock!Holds(Entry(d), call[d].ring)
            BY <5>1, <3>0 DEF Held
          <6>2. call[d].ring # r
            BY <6>1, <1>2, <3>2 DEF Lock!Holds, Entry
          <6> QED BY <5>1, <6>2, <3>0, <4>1, <1>1, <1>6 DEF Held, Has, Lock!Holds
        <5>2. CASE call[d].pc # "save"
          BY <5>2, <3>0, <4>1, <4>3, <1>1 DEF Held, Has, Writable
        <5> QED BY <5>1, <5>2
      <4>6. Current(d)'
        <5>1. ASSUME Active(d) PROVE Visible' \in seen'[d] /\ TopOf(store', call[d].ring) \in seen'[d]
          <6>1. Visible' \in seen'[d] /\ TopOf(store, call[d].ring) \in seen'[d]
            BY <5>1, <3>0, <4>1 DEF Active, Inv, Typed, Current
          <6>2. call[d].ring < r \/ call[d].ring >= r
            BY <1>8, <3>0 DEF Rings
          <6> QED BY <6>1, <6>2, <3>0, <1>10
        <5> QED BY <5>1, <3>0, <4>1 DEF Current, Active
      <4> QED BY <4>4, <4>5, <4>6
    <3> QED BY <3>1, <3>2
  <2> QED BY <2>2, <2>3 DEF Inv
<1> QED BY <1>13, <1>14

\* The ring that an upsave goes to.
LEMMA UpsaveTarget ==
    ASSUME Inv, NEW c \in Calls, call[c].pc = "upsave"
    PROVE  LET q == call[c].ring
               r == Min(Writable(c))
           IN  /\ q \in Rings /\ r \in Rings /\ r \notin readonly /\ q < r
               /\ \A k \in q + 1 .. r - 1 : k \in readonly
<1> DEFINE q == call[c].ring
           r == Min(Writable(c))
<1>1. q \in Rings /\ call[c].top = NRings /\ Writable(c) # {} /\ NRings \in Nat
  BY RingStackAssumption DEF Inv, Typed, CallType, Held, Above, Active
<1>2. Writable(c) = {k \in q + 1 .. NRings : k \notin readonly}
  BY <1>1 DEF Writable
<1> HIDE DEF q
<1>3. Writable(c) \subseteq Nat /\ Writable(c) \subseteq Rings
  BY <1>1, <1>2 DEF Rings
<1>4. r \in Writable(c) /\ \A k \in Writable(c) : r <= k
  <2>1. \E x \in Writable(c) : \A y \in Writable(c) : x <= y
    BY <1>1, <1>3, LeastElement
  <2> QED BY <2>1 DEF Min
<1> HIDE DEF r
<1>5. r \in Rings /\ r \notin readonly /\ q < r
  BY <1>1, <1>2, <1>3, <1>4 DEF Rings
<1>6. \A k \in q + 1 .. r - 1 : k \in readonly
  BY <1>1, <1>2, <1>4, <1>5 DEF Rings
<1> QED BY <1>1, <1>5, <1>6 DEF q, r

\* A changed copy of a read-only record is put into the first writable ring above,
\* unless that ring has a copy by now.
LEMMA UpsaveKeeps ==
    ASSUME Inv, Watch, NEW c \in Calls, Upsave(c)
    PROVE  Inv' /\ Objects!Next
<1> DEFINE q == call[c].ring
           r == Min(Writable(c))
           new == store[q] \union {c}
           a == <<"done", Missing>>
<1>1. /\ call[c].pc = "upsave" /\ UNCHANGED readonly /\ Active(c)
      /\ store' = IF Has(r) THEN store ELSE [store EXCEPT ![r] = Changed(c)]
      /\ call' = [call EXCEPT ![c].answer = <<IF Has(r) THEN "failed" ELSE "done", Missing>>,
                              ![c].pc = "return"]
      /\ Lock!Leave(Upsaver(c), r)
  BY DEF Upsave, Upsaving, Answer, Active
<1>2. /\ q \in Rings /\ r \in Rings /\ r \notin readonly /\ q < r
      /\ \A k \in q + 1 .. r - 1 : k \in readonly
  BY <1>1, UpsaveTarget
<1>3. /\ store \in Contents /\ q \in readonly /\ Has(q) /\ call[c].record = store[q] /\ store[q] \in Records
      /\ call[c].kind = "update"
  BY <1>1, <1>2 DEF Inv, Typed, CallType, Held, Contents
<1> HIDE DEF q, r
<1>4. \A d \in Calls : d # c => call'[d] = call[d]
  BY <1>1 DEF Inv, Typed
<1>5. OthersHold(c)
  BY <1>1, <1>2, <1>4, OthersKept DEF Inv
<1>6. CASE Has(r)
  <2>1. call' = [d \in Calls |-> IF d \in {c} THEN [call[d] EXCEPT !.answer = <<"failed", Missing>>,
                                                                   !.pc = "return"] ELSE call[d]]
    BY <1>1, <1>6 DEF Inv, Typed
  <2>2. {c} \in SUBSET Calls /\ \A d \in {c} : Active(d)
    BY <1>1
  <2>3. rows' \in [Rings -> Seq(Entries)]
        /\ \A d \in Calls \ {c} : call[d].pc = "save" => Lock!Holds(Entry(d), call[d].ring)'
    BY <1>5 DEF OthersHold
  <2> QED BY <1>1, <1>6, <2>1, <2>2, <2>3, FailStep
<1>7. CASE ~Has(r)
  <2>1. a \in Answers /\ a[1] # "none"
    BY DEF Answers, Records
  <2>2. new \in Records /\ new # Missing /\ Changed(c) = new
    BY <1>3, UpdatedRecord DEF Has, Changed
  <2>3. call' = [call EXCEPT ![c].answer = a, ![c].pc = "return"] /\ store' = [store EXCEPT ![r] = new]
    BY <1>1, <1>7, <2>2
  <2>4. new = store[q] \union {c}
    OBVIOUS
  <2> HIDE DEF new, a
  <2>5. /\ store' \in Contents /\ store'[r] = new /\ store[r] = Missing
        /\ \A k \in Rings : k # r => store'[k] = store[k]
    BY <1>2, <1>3, <1>7, <2>2, <2>3 DEF Contents, Has
  <2>6. /\ call' \in [Calls -> CallType] /\ call'[c].answer = a /\ call'[c].pc = "return"
    BY ZenonT(60), <2>1, <2>3 DEF Inv, Typed, CallType
  <2>7. NRings \in Nat /\ q \in Nat /\ q >= 1 /\ r \in Nat /\ r <= NRings
    BY <1>2, RingStackAssumption DEF Rings
  <2>8. \A k \in q + 1 .. NRings : store[k] = Missing
    <3>1. \A k \in q + 1 .. NRings : Has(k) => k \notin readonly /\ BroughtUp(q, k)
      BY <1>1 DEF Inv, Above, q
    <3> SUFFICES ASSUME NEW k \in q + 1 .. NRings, Has(k) PROVE FALSE
      BY DEF Has
    <3>2. PICK e \in 1..q : \A p \in e+1..k-1 : p \in readonly
      BY <3>1 DEF BroughtUp
    <3>3. k \in Nat /\ k \notin readonly /\ k # r
      BY <3>1, <2>5, <2>7 DEF Has
    <3>4. k > r
      BY <3>3, <1>2, <2>7
    <3>5. r \in e+1..k-1
      BY <3>4, <3>3, <1>2, <2>7
    <3> QED BY <3>2, <3>5, <1>2
  <2>9. \A k \in r + 1 .. NRings : store'[k] = Missing
    <3>1. \A k \in r + 1 .. NRings : k \in Rings /\ k # r /\ k \in q + 1 .. NRings
      BY <1>2, <2>7 DEF Rings
    <3> QED BY <3>1, <2>5, <2>8
  <2>10. /\ Piles(store')[r - 1] = Piles(store)[r - 1]
         /\ copies' = Piles(store')[r]
         /\ \A m \in Rings : /\ m < r => TopOf(store', m) = TopOf(store, m)
                             /\ m >= r => TopOf(store', m) = Visible'
    BY <1>2, <1>3, <2>5, <2>9, TopChange, VisibleTop
  <2>11. copies = Piles(store)[r - 1] /\ copies # <<>> /\ Head(copies) = store[q]
    <3>1. q \in 0..NRings /\ NRings \in q..NRings /\ r - 1 \in q..NRings
      BY <1>2, <2>7
    <3>2. \A k \in q + 1 .. r - 1 : store[k] = Missing
      BY <2>7, <2>8
    <3>3. Piles(store)[NRings] = Piles(store)[q] /\ Piles(store)[r - 1] = Piles(store)[q]
      BY <3>1, <3>2, <2>8, PilesOver
    <3>4. Piles(store)[q] # <<>> /\ Head(Piles(store)[q]) = store[q]
      BY <1>2, <1>3, PileOfRing DEF Has
    <3> QED BY <3>3, <3>4, VisibleTop
  <2>12. copies' = <<Head(copies) \union {c}>> \o copies
    <3>1. Piles(store')[r] = <<new>> \o Piles(store')[r - 1]
      BY <1>2, <2>2, <2>5, PileOfRing
    <3> QED BY <3>1, <2>4, <2>10, <2>11
  <2>13. Objects!Next
    <3>1. Objects!Take(c, a, copies')
      BY <1>1, <1>4, <2>6, EndingStep
    <3>2. Objects!Cover(c)
      BY <3>1, <2>11, <2>12 DEF Objects!Cover, Objects!Missing, Missing, a
    <3> QED BY <3>2 DEF Objects!Next
  <2>14. Typed'
    <3>1. NRings \in 0..NRings
      BY <2>7
    <3>2. Visible' \in Records
      BY <3>1, <2>5, VisibleTop, TopTypes
    <3>3. seen' \in [Calls -> SUBSET Records]
      BY <3>2 DEF Watch, Inv, Typed
    <3>4. \A d \in Calls : call'[d].pc \in {"return", "end"} <=> call'[d].answer[1] # "none"
      BY <1>4, <2>1, <2>6 DEF Inv, Typed, Open
    <3> QED BY <3>3, <3>4, <1>1, <1>5, <2>5, <2>6 DEF Inv, Typed, Open, OthersHold
  <2>15. ASSUME NEW d \in Calls PROVE Above(d)' /\ Held(d)' /\ Current(d)'
    <3>0. /\ Above(d) /\ Held(d) /\ Current(d) /\ call[d].ring \in Rings
          /\ seen'[d] = IF call'[d].pc # "new" /\ Open(d) THEN seen[d] \union {Visible'} ELSE seen[d]
          /\ seen[d] \subseteq seen'[d]
      BY SeenGrows DEF Inv, Typed, CallType
    <3>1. CASE d = c
      BY <3>0, <3>1, <1>1, <2>6 DEF Above, Held, Current, Active
    <3>2. CASE d # c
      <4>1. call'[d] = call[d]
        BY <3>2, <1>4
      <4>2. \A k \in Rings : Has(k) => store'[k] = store[k] /\ Has(k)'
        BY <1>7, <2>5 DEF Has
      <4>3. readonly \subseteq Rings
        BY DEF Inv, Typed
      <4>4. Above(d)'
        <5> DEFINE m == call[d].ring
        <5> SUFFICES ASSUME Active(d), NEW k \in m + 1 .. NRings, Has(k)'
                     PROVE  k \notin readonly /\ BroughtUp(m, k)'
          BY <4>1, <1>1, <3>0 DEF Above, Active
        <5>1. k \in Rings /\ m \in Nat /\ m >= 1
          BY <3>0, <2>7 DEF Rings
        <5>2. CASE k # r
          <6>1. Has(k)
            BY <5>1, <5>2, <2>5 DEF Has
          <6>2. k \notin readonly /\ BroughtUp(m, k)
            BY <3>0, <6>1 DEF Above
          <6> QED BY <6>2, <4>1, <4>2, <4>3, <1>1 DEF BroughtUp
        <5>3. CASE k = r
          <6>1. q <= m
            <7>1. m < q => q \in m + 1 .. NRings
              BY <5>1, <1>2, <2>7
            <7>2. m < q => q \notin readonly
              BY <7>1, <3>0, <1>3 DEF Above
            <7> QED BY <7>2, <1>3, <5>1, <2>7
          <6>2. q \in 1..m
            BY <6>1, <5>1, <2>7
          <6>3. store'[q] # Missing /\ q \in readonly
            BY <4>2, <1>2, <1>3 DEF Has
          <6>4. \A p \in q+1..k-1 : p \in readonly
            BY <5>3, <1>2
          <6>5. call'[d].ring = m /\ readonly' = readonly
            BY <4>1, <1>1
          <6> QED BY <6>2, <6>3, <6>4, <6>5, <5>3, <1>2 DEF BroughtUp, Has
        <5> QED BY <5>2, <5>3
      <4>5. Held(d)'
        <5>1. CASE call[d].pc = "save"
          <6>1. Lock!Holds(Entry(d), call[d].ring)'
            BY <5>1, <3>2, <1>5 DEF OthersHold
          <6> QED BY <5>1, <6>1, <3>0, <4>1, <4>2, <1>1 DEF Held
        <5>2. CASE call[d].pc # "save"
          BY <5>2, <3>0, <4>1, <4>2, <1>1 DEF Held, Writable
        <5> QED BY <5>1, <5>2
      <4>6. Current(d)'
        <5>1. ASSUME Active(d) PROVE Visible' \in seen'[d] /\ TopOf(store', call[d].ring) \in seen'[d]
          <6>1. Visible' \in seen'[d] /\ TopOf(store, call[d].ring) \in seen'[d]
            BY <5>1, <3>0, <4>1 DEF Active, Inv, Typed, Current
          <6>2. call[d].ring < r \/ call[d].ring >= r
            BY <2>7, <3>0 DEF Rings
          <6> QED BY <6>1, <6>2, <3>0, <2>10
        <5> QED BY <5>1, <3>0, <4>1 DEF Current, Active
      <4> QED BY <4>4, <4>5, <4>6
    <3> QED BY <3>1, <3>2
  <2> QED BY <2>13, <2>14, <2>15 DEF Inv
<1> QED BY <1>6, <1>7

-----------------------------------------------------------------------------
\* No call has started: any rings may be read-only and have a copy.
LEMMA InitRefines == Init => Inv /\ Objects!Init
<1> SUFFICES ASSUME Init PROVE Inv /\ Objects!Init
  OBVIOUS
<1>1. 1 \in Rings
  BY RingStackAssumption DEF Rings
<1>2. NewCall \in CallType /\ NewCall.answer = <<"none", Missing>> /\ NewCall.pc = "new"
  BY <1>1 DEF NewCall, CallType, Kinds, Records, Answers
<1>3. \A c \in Calls : call[c] = NewCall /\ seen[c] = {}
  BY DEF Init
<1>4. Typed
  <2>1. readonly \subseteq Rings /\ store \in Contents
    BY DEF Init, Contents, Records
  <2>2. rows \in [Rings -> Seq(Entries)]
    BY DEF Init
  <2>3. call \in [Calls -> CallType] /\ seen \in [Calls -> SUBSET Records]
    BY <1>2 DEF Init
  <2>4. \A c \in Calls : call[c].pc \in {"return", "end"} <=> ~Open(c)
    BY <1>2, <1>3 DEF Open
  <2> QED BY <2>1, <2>2, <2>3, <2>4 DEF Typed
<1>5. \A c \in Calls : Above(c) /\ Held(c) /\ Current(c)
  BY <1>2, <1>3 DEF Above, Held, Current, Active
<1>6. answer = [c \in Calls |-> <<"none", Missing>>] /\ seen = [c \in Calls |-> {}]
  BY <1>2, <1>3 DEF answer, Init
<1> QED BY <1>4, <1>5, <1>6 DEF Inv, Objects!Init, Objects!Missing, Missing

\* Every step keeps the invariant, and is one of ObjectStore or changes nothing there.
LEMMA NextRefines ==
    ASSUME Entered = {NRings}
    PROVE  Inv /\ [Next]_vars => Inv' /\ [Objects!Next]_Objects!vars
<1> SUFFICES ASSUME Inv, [Next]_vars PROVE Inv' /\ [Objects!Next]_Objects!vars
  OBVIOUS
<1>1. CASE UNCHANGED vars
  <2>1. UNCHANGED <<readonly, store, rows, call, seen>>
    BY <1>1 DEF vars
  <2>2. UNCHANGED <<copies, answer, seen>> /\ Visible' = Visible
    BY <2>1, VisibleTop DEF answer
  <2>3. Inv'
    BY <2>1, <2>2 DEF Inv, Typed, Open, Above, Active, BroughtUp, Has, Held, Lock!Holds, Writable, Current
  <2> QED BY <2>2, <2>3 DEF Objects!vars
<1>2. CASE Next
  <2>0. Watch
    BY <1>2 DEF Next
  <2>1. ASSUME NEW c \in Calls, NEW r \in Entered,
               StartSelect(c, r) \/ \E kind \in {"update", "delete"} : StartWrite(c, kind, r)
        PROVE  Inv' /\ [Objects!Next]_Objects!vars
    BY <2>0, <2>1, StartKeeps
  <2>2. ASSUME NEW c \in Calls, Step(c)
        PROVE  Inv' /\ [Objects!Next]_Objects!vars
    BY <2>0, <2>2, SelectKeeps, WriteBelowKeeps, ReadKeeps, RefuseKeeps, ReturnKeeps, EndKeeps,
       SaveKeeps, UpsaveKeeps DEF Step
  <2>3. ASSUME NEW r \in Rings, Crash(r)
        PROVE  Inv' /\ [Objects!Next]_Objects!vars
    BY <2>0, <2>3, CrashKeeps
  <2> QED BY <1>2, <2>1, <2>2, <2>3 DEF Next
<1> QED BY <1>1, <1>2

\* Whatever calls overlap and blocks die, the stack of rings behaves like one object with a
\* pile of copies: updates and deletions take effect once, on the topmost copy, failed calls
\* leave no trace, and a select returns what the object has been during the call
\* (block.js:669-860).
THEOREM Refinement ==
    ASSUME Entered = {NRings}
    PROVE  Spec => ImplementsObjectStore
<1>1. Inv /\ [Next]_vars => Inv' /\ [Objects!Next]_Objects!vars
  BY NextRefines
<1> QED BY InitRefines, <1>1, PTL DEF Spec, ImplementsObjectStore, Objects!Spec

=============================================================================
