----------------------------- MODULE BlockProofs -----------------------------
(***************************************************************************)
(* Proofs about the two parts of MCBlock, for any sets of keys, of calls,  *)
(* of rings and of shards.                                                 *)
(*                                                                         *)
(* Locks.  The inductive invariant is the conjunction of the invariants    *)
(* that TLC checks: mutual exclusion alone is not inductive, since a mutex *)
(* is handed over to the head of its queue, which NoLostWakeup knows to be *)
(* a waiting call of the same key, and only one.  From it follows that the *)
(* map of mutexes implements FifoLock: an acquire() joins the line of its  *)
(* key, a release() leaves it, and the other steps do not move anybody.    *)
(*                                                                         *)
(* Ids.  What is in the store of a block, or held by a call, lies at or    *)
(* below autoincrement, unless it was fixed by a caller or came from a     *)
(* lower ring (StoreBelow, GivenFit); the incremental algorithm gives the  *)
(* next slot above it (IncrementalIs), and the compact one a slot that is  *)
(* neither reserved nor stored.  The slots of the top ring are no ids of   *)
(* lower rings, as shards that do not overlap have no number in common     *)
(* (ShardsApart) and zones that pass validate_zones() no other one         *)
(* (ZonesApart).                                                           *)
(***************************************************************************)
EXTENDS MCBlock, SequenceTheorems, WellFoundedInduction, TLAPS

Inv == TypeOK /\ MutualExclusion /\ NoLostWakeup

-----------------------------------------------------------------------------
\* A sequence with an element appended: the new element comes last, the others
\* keep their places.
LEMMA AppendElements ==
    ASSUME NEW S, NEW q \in Seq(S), NEW x \in S
    PROVE  /\ Append(q, x) \in Seq(S)
           /\ Append(q, x) # <<>>
           /\ DOMAIN q = 1..Len(q)
           /\ DOMAIN Append(q, x) = 1..(Len(q) + 1)
           /\ \A i \in 1..Len(q) : Append(q, x)[i] = q[i]
           /\ Append(q, x)[Len(q) + 1] = x
  OBVIOUS

\* A sequence without its head: the elements move down by one place.
LEMMA TailElements ==
    ASSUME NEW S, NEW q \in Seq(S), q # <<>>
    PROVE  /\ Tail(q) \in Seq(S)
           /\ Head(q) \in S
           /\ Head(q) = q[1]
           /\ DOMAIN q = 1..Len(q)
           /\ Len(q) \in Nat /\ Len(q) >= 1
           /\ DOMAIN Tail(q) = 1..(Len(q) - 1)
           /\ \A i \in 1..(Len(q) - 1) : Tail(q)[i] = q[i + 1]
  OBVIOUS

\* The invariant holds before any call is made.
LEMMA InitInv == Init => Inv
  BY DEF Init, Inv, TypeOK, PC, MutualExclusion, NoLostWakeup, Owner, OwnerOf, Queued,
         QueuesHoldWaiters, QueuedOnce, LockedHasOwner, QueueOnlyBehindOwner

\* acquire() of a free mutex: it has no owner and nobody waits for it.
LEMMA AcquireFreeInv ==
    ASSUME Inv, NEW p \in Procs, NEW k \in Keys, AcquireFree(p, k)
    PROVE  Inv'
<1> USE DEF Inv, Owner, OwnerOf
<1>1. queue[k] = <<>> /\ \A o \in Procs : ~OwnerOf(o, k)
  BY DEF AcquireFree, MutualExclusion, NoLostWakeup, QueueOnlyBehindOwner
<1>2. TypeOK'
  BY DEF AcquireFree, TypeOK, PC
<1>3. MutualExclusion'
  BY <1>1 DEF AcquireFree, TypeOK, MutualExclusion
<1>4. NoLostWakeup'
  <2>1. QueuesHoldWaiters'
    BY DEF AcquireFree, TypeOK, NoLostWakeup, QueuesHoldWaiters, Queued
  <2>2. QueuedOnce' /\ QueueOnlyBehindOwner'
    BY DEF AcquireFree, TypeOK, NoLostWakeup, QueuedOnce, QueueOnlyBehindOwner
  <2>3. LockedHasOwner'
    BY DEF AcquireFree, TypeOK, NoLostWakeup, LockedHasOwner
  <2> QED BY <2>1, <2>2, <2>3 DEF NoLostWakeup
<1> QED BY <1>2, <1>3, <1>4

\* acquire() of a locked mutex: the caller comes last in its queue.
LEMMA AcquireBusyInv ==
    ASSUME Inv, NEW p \in Procs, NEW k \in Keys, AcquireBusy(p, k)
    PROVE  Inv'
<1> USE DEF Inv, Owner, OwnerOf
<1> DEFINE q == queue[k]
<1>1. /\ q \in Seq(Procs) /\ queue' = [queue EXCEPT ![k] = Append(q, p)]
      /\ queue'[k] = Append(q, p)
      /\ \A l \in Keys \ {k} : queue'[l] = queue[l]
  BY DEF AcquireBusy, TypeOK
<1>2. /\ Append(q, p) \in Seq(Procs) /\ Append(q, p) # <<>>
      /\ DOMAIN q = 1..Len(q) /\ DOMAIN Append(q, p) = 1..(Len(q) + 1)
      /\ \A i \in 1..Len(q) : Append(q, p)[i] = q[i]
      /\ Append(q, p)[Len(q) + 1] = p
      /\ Len(q) \in Nat
  BY <1>1, AppendElements
<1>3. \A l \in Keys : ~Queued(p, l)
  BY DEF AcquireBusy, NoLostWakeup, QueuesHoldWaiters
<1>4. TypeOK'
  BY <1>1, <1>2 DEF AcquireBusy, TypeOK, PC
<1>5. MutualExclusion'
  BY DEF AcquireBusy, TypeOK, MutualExclusion
<1>6. QueuesHoldWaiters'
  <2>1. \A o \in Procs : Queued(o, k)' <=> Queued(o, k) \/ o = p
    BY <1>1, <1>2 DEF Queued
  <2>2. \A o \in Procs, l \in Keys \ {k} : Queued(o, l)' <=> Queued(o, l)
    BY <1>1 DEF Queued
  <2> QED BY <1>3, <2>1, <2>2 DEF AcquireBusy, TypeOK, NoLostWakeup, QueuesHoldWaiters
<1>7. QueuedOnce'
  <2>1. \A i \in 1..Len(q) : q[i] # p
    BY <1>2, <1>3 DEF Queued
  <2>2. \A i, j \in DOMAIN queue'[k] : queue'[k][i] = queue'[k][j] => i = j
    BY <1>1, <1>2, <2>1 DEF NoLostWakeup, QueuedOnce
  <2> QED BY <1>1, <2>2 DEF NoLostWakeup, QueuedOnce
<1>8. LockedHasOwner' /\ QueueOnlyBehindOwner'
  BY <1>1 DEF AcquireBusy, TypeOK, NoLostWakeup, LockedHasOwner, QueueOnlyBehindOwner
<1> QED BY <1>4, <1>5, <1>6, <1>7, <1>8 DEF NoLostWakeup

\* release(): the mutex passes to the head of the queue, or becomes free.
LEMMA ReleaseInv ==
    ASSUME Inv, NEW p \in Procs, NEW next \in {"outside", "idle"},
           pc[p] = "inside", Release(p, next)
    PROVE  Inv'
<1> USE DEF Inv, Owner, OwnerOf
<1>0. PICK k \in Keys : k = key[p]
  BY DEF TypeOK
<1>q. PICK q \in Seq(Procs) : q = queue[k]
  BY DEF TypeOK
<1>1. /\ k = key[p] /\ q = queue[k] /\ locked[k]
      /\ key' = key /\ present' = present
  BY <1>0, <1>q DEF Release, TypeOK, MutualExclusion
<1>2. \A o \in Procs : OwnerOf(o, k) => o = p
  BY <1>1 DEF MutualExclusion
<1>3. CASE q # <<>>
  <2>0. PICK h \in Procs : h = Head(q)
    BY <1>3, TailElements
  <2>1. /\ Tail(q) \in Seq(Procs) /\ h = q[1]
        /\ DOMAIN q = 1..Len(q) /\ Len(q) \in Nat /\ Len(q) >= 1
        /\ DOMAIN Tail(q) = 1..(Len(q) - 1)
        /\ \A i \in 1..(Len(q) - 1) : Tail(q)[i] = q[i + 1]
    BY <1>3, <2>0, TailElements
  <2>2. /\ queue' = [queue EXCEPT ![k] = Tail(q)]
        /\ pc' = [pc EXCEPT ![h] = "granted", ![p] = next]
        /\ locked' = locked
    BY <1>1, <1>3, <2>0 DEF Release
  <2>3. pc[h] = "waiting" /\ key[h] = k /\ h # p
    <3>1. Queued(h, k)
      BY <1>1, <2>1 DEF Queued
    <3> QED BY <1>1, <2>1, <3>1 DEF NoLostWakeup, QueuesHoldWaiters
  <2>4. /\ pc'[h] = "granted" /\ pc'[p] = next
        /\ \A o \in Procs \ {h, p} : pc'[o] = pc[o]
        /\ queue'[k] = Tail(q)
        /\ \A l \in Keys \ {k} : queue'[l] = queue[l]
    BY <1>1, <2>1, <2>2, <2>3 DEF TypeOK
  <2>5. TypeOK'
    BY <1>1, <2>1, <2>2 DEF TypeOK, PC
  <2>6. MutualExclusion'
    <3>1. \A o \in Procs : Owner(o)' <=> o = h \/ (Owner(o) /\ o # p)
      BY <2>1, <2>3, <2>4
    <3>2. \A o \in Procs : Owner(o) /\ o # p => key[o] # k
      BY <1>2
    <3>3. \A o \in Procs : Owner(o)' => locked'[key'[o]]
      BY <1>1, <2>2, <2>3, <3>1 DEF MutualExclusion
    <3>4. \A o, n \in Procs : Owner(o)' /\ Owner(n)' /\ key'[o] = key'[n] => o = n
      BY <1>1, <2>3, <3>1, <3>2 DEF MutualExclusion
    <3> QED BY <3>3, <3>4 DEF MutualExclusion
  <2>7. QueuesHoldWaiters'
    <3>1. \A o \in Procs : Queued(o, k)' <=> Queued(o, k) /\ o # h
      <4>1. \A i \in 1..(Len(q) - 1) : i + 1 \in 1..Len(q) /\ i + 1 # 1
        BY <2>1
      <4>2. \A j \in 1..Len(q) : j # 1 => j - 1 \in 1..(Len(q) - 1) /\ (j - 1) + 1 = j
        BY <2>1
      <4>3. \A i, j \in 1..Len(q) : q[i] = q[j] => i = j
        BY <1>1, <2>1 DEF NoLostWakeup, QueuedOnce
      <4>4. ASSUME NEW o \in Procs, NEW i \in 1..(Len(q) - 1), Tail(q)[i] = o
            PROVE  i + 1 \in 1..Len(q) /\ q[i + 1] = o /\ o # h
        BY <2>1, <4>1, <4>3, <4>4
      <4>5. ASSUME NEW o \in Procs, NEW i \in 1..Len(q), q[i] = o, o # h
            PROVE  i - 1 \in 1..(Len(q) - 1) /\ Tail(q)[i - 1] = o
        BY <2>1, <4>2, <4>5
      <4>6. \A o \in Procs : Queued(o, k)' <=> \E i \in 1..(Len(q) - 1) : Tail(q)[i] = o
        BY <2>1, <2>4 DEF Queued
      <4>7. \A o \in Procs : Queued(o, k) <=> \E i \in 1..Len(q) : q[i] = o
        BY <1>1, <2>1 DEF Queued
      <4> QED BY <4>4, <4>5, <4>6, <4>7
    <3>2. \A o \in Procs, l \in Keys \ {k} : Queued(o, l)' <=> Queued(o, l)
      BY <2>4 DEF Queued
    <3>3. \A o \in Procs : pc'[o] = "waiting" <=> pc[o] = "waiting" /\ o # h
      BY <2>1, <2>3, <2>4
    <3> QED BY <1>1, <2>3, <3>1, <3>2, <3>3 DEF NoLostWakeup, QueuesHoldWaiters
  <2>8. QueuedOnce'
    <3>1. \A i, j \in DOMAIN queue'[k] : queue'[k][i] = queue'[k][j] => i = j
      <4>1. ASSUME NEW i \in 1..(Len(q) - 1), NEW j \in 1..(Len(q) - 1),
                   Tail(q)[i] = Tail(q)[j]
            PROVE  i = j
        <5>1. i + 1 \in DOMAIN q /\ j + 1 \in DOMAIN q /\ q[i + 1] = q[j + 1]
          BY <2>1, <4>1
        <5>2. i + 1 = j + 1
          BY <1>1, <5>1 DEF NoLostWakeup, QueuedOnce
        <5> QED BY <5>2
      <4>2. queue'[k] = Tail(q) /\ DOMAIN Tail(q) = 1..(Len(q) - 1)
        BY <2>1, <2>4
      <4> QED BY <4>1, <4>2
    <3> QED BY <2>4, <3>1 DEF NoLostWakeup, QueuedOnce
  <2>9. LockedHasOwner'
    <3>1. OwnerOf(h, k)'
      BY <1>1, <2>3, <2>4
    <3>2. \A l \in Keys \ {k}, o \in Procs : OwnerOf(o, l) => OwnerOf(o, l)'
      BY <1>1, <2>3, <2>4
    <3>3. locked' = locked /\ h \in Procs
      BY <2>1, <2>2
    <3> QED BY <1>1, <3>1, <3>2, <3>3 DEF NoLostWakeup, LockedHasOwner
  <2>10. QueueOnlyBehindOwner'
    BY <1>1, <2>2, <2>4 DEF NoLostWakeup, QueueOnlyBehindOwner
  <2> QED BY <2>5, <2>6, <2>7, <2>8, <2>9, <2>10 DEF NoLostWakeup
<1>4. CASE q = <<>>
  <2>1. /\ queue' = queue
        /\ pc' = [pc EXCEPT ![p] = next]
        /\ locked' = [locked EXCEPT ![k] = FALSE]
    BY <1>1, <1>4 DEF Release
  <2>2. /\ pc'[p] = next /\ \A o \in Procs \ {p} : pc'[o] = pc[o]
        /\ ~locked'[k] /\ \A l \in Keys \ {k} : locked'[l] = locked[l]
    BY <1>1, <2>1 DEF TypeOK
  <2>3. TypeOK'
    BY <1>1, <1>4, <2>1 DEF TypeOK, PC
  <2>4. MutualExclusion'
    <3>1. \A o \in Procs : Owner(o)' => Owner(o) /\ o # p /\ key[o] # k
      BY <1>2, <2>2
    <3> QED BY <1>1, <2>2, <3>1 DEF TypeOK, MutualExclusion
  <2>5. QueuesHoldWaiters'
    BY <1>1, <2>1, <2>2 DEF NoLostWakeup, QueuesHoldWaiters, Queued
  <2>6. QueuedOnce'
    BY <2>1 DEF NoLostWakeup, QueuedOnce
  <2>7. LockedHasOwner'
    <3>1. \A l \in Keys \ {k}, o \in Procs : OwnerOf(o, l) => OwnerOf(o, l)'
      BY <1>1, <2>2
    <3> QED BY <2>2, <3>1 DEF NoLostWakeup, LockedHasOwner
  <2>8. QueueOnlyBehindOwner'
    BY <1>1, <1>4, <2>1, <2>2 DEF NoLostWakeup, QueueOnlyBehindOwner
  <2> QED BY <2>3, <2>4, <2>5, <2>6, <2>7, <2>8 DEF NoLostWakeup
<1> QED BY <1>3, <1>4

\* The steps that move a call on without touching a mutex.
LEMMA MoveOnInv ==
    ASSUME Inv, NEW p \in Procs, Enter(p) \/ FinishReleased(p)
    PROVE  Inv'
<1> USE DEF Inv, Owner, OwnerOf
<1>1. /\ UNCHANGED <<present, locked, queue, key>>
      /\ \A o \in Procs : /\ pc'[o] \in PC
                          /\ Owner(o)' <=> Owner(o)
                          /\ pc'[o] = "waiting" <=> pc[o] = "waiting"
      /\ pc' \in [Procs -> PC]
  BY DEF Enter, FinishReleased, TypeOK, PC
<1>2. TypeOK'
  BY <1>1 DEF TypeOK
<1>3. MutualExclusion'
  BY <1>1 DEF MutualExclusion
<1>4. QueuesHoldWaiters'
  BY <1>1 DEF NoLostWakeup, QueuesHoldWaiters, Queued
<1>5. QueuedOnce' /\ QueueOnlyBehindOwner'
  BY <1>1 DEF NoLostWakeup, QueuedOnce, QueueOnlyBehindOwner
<1>6. LockedHasOwner'
  BY <1>1 DEF NoLostWakeup, LockedHasOwner
<1> QED BY <1>2, <1>3, <1>4, <1>5, <1>6 DEF NoLostWakeup

-----------------------------------------------------------------------------
\* The invariant is inductive: every step of every call preserves it.
THEOREM Invariance == Spec => []Inv
<1>1. Inv /\ [Next]_vars => Inv'
  <2> SUFFICES ASSUME Inv, [Next]_vars PROVE Inv'
    OBVIOUS
  <2>1. CASE \E p \in Procs, k \in Keys : AcquireFree(p, k)
    BY <2>1, AcquireFreeInv
  <2>2. CASE \E p \in Procs, k \in Keys : AcquireBusy(p, k)
    BY <2>2, AcquireBusyInv
  <2>3. CASE \E p \in Procs : Enter(p) \/ FinishReleased(p)
    BY <2>3, MoveOnInv
  <2>4. CASE \E p \in Procs : ReleaseEarly(p) \/ Finish(p)
    BY <2>4, ReleaseInv DEF ReleaseEarly, Finish
  <2>5. CASE UNCHANGED vars
    BY <2>5 DEF vars, Inv, TypeOK, MutualExclusion, Owner, OwnerOf, NoLostWakeup, Queued,
                QueuesHoldWaiters, QueuedOnce, LockedHasOwner, QueueOnlyBehindOwner
  <2> QED BY <2>1, <2>2, <2>3, <2>4, <2>5 DEF Next, Step
<1> QED BY InitInv, <1>1, PTL DEF Spec

\* Every variable keeps its type, and a mutex that is in use stays in the map:
\* a second mutex for the same key never comes into being.
THEOREM TypeCorrectness == Spec => []TypeOK
  BY Invariance, PTL DEF Inv

\* run_exclusive() is exclusive for each key, for any number of keys and calls.
THEOREM Exclusion == Spec => []MutualExclusion
  BY Invariance, PTL DEF Inv

\* No call of acquire() is forgotten in a queue without an owner ahead of it.
THEOREM Wakeups == Spec => []NoLostWakeup
  BY Invariance, PTL DEF Inv

\* The locks of a block behave as if they were alone.
LEMMA LocksOfBlock == BlockSpec => Spec
<1>1. BlockInit => Init
  BY DEF BlockInit
<1>2. [BlockNext]_blockvars => [Next]_vars
  BY DEF BlockNext, blockvars
<1> QED BY <1>1, <1>2, PTL DEF BlockSpec, Spec

\* Both together, as the run checks them: the locks of a block exclude each other's
\* callers and always pass on, for any number of keys and calls.
THEOREM Safety == BlockSpec => []LockSafety
<1>1. BlockSpec => Spec
  BY LocksOfBlock
<1> QED BY <1>1, Exclusion, Wakeups, PTL DEF LockSafety

-----------------------------------------------------------------------------
\* A line made of the caller at the head and of the queue: appending a caller to
\* it, and taking the head away.
LEMMA LineOperations ==
    ASSUME NEW S, NEW o \in S, NEW q \in Seq(S), NEW p \in S
    PROVE  /\ <<o>> \o q \in Seq(S)
           /\ <<o>> \o q # <<>>
           /\ Head(<<o>> \o q) = o
           /\ Tail(<<o>> \o q) = q
           /\ Append(<<o>> \o q, p) = <<o>> \o Append(q, p)
<1>1. <<o>> \in Seq(S) /\ Len(<<o>>) = 1 /\ <<o>>[1] = o
  OBVIOUS
<1>2. /\ <<o>> \o q \in Seq(S)
      /\ Len(<<o>> \o q) = 1 + Len(q)
      /\ \A i \in 1..(1 + Len(q)) : (<<o>> \o q)[i] = IF i <= 1 THEN <<o>>[i] ELSE q[i - 1]
  BY <1>1, ConcatProperties
<1>3. <<o>> \o q # <<>> /\ Head(<<o>> \o q) = o
  BY <1>1, <1>2
<1>4. Tail(<<o>> \o q) = q
  <2>1. Tail(<<o>> \o q) \in Seq(S) /\ Len(Tail(<<o>> \o q)) = Len(q)
    BY <1>2, <1>3
  <2>2. \A i \in 1..Len(q) : Tail(<<o>> \o q)[i] = q[i]
    BY <1>2, <1>3
  <2> QED BY <2>1, <2>2, SeqEqual
<1>5. Append(<<o>> \o q, p) = <<o>> \o Append(q, p)
  BY <1>1, <1>2, AppendIsConcat, ConcatAssociative
<1> QED BY <1>2, <1>3, <1>4, <1>5

\* The line of a key: of its owner and its queue if there is an owner, else empty.
LEMMA LineOfOwner ==
    ASSUME Inv, NEW k \in Keys, NEW o \in Procs, OwnerOf(o, k)
    PROVE  line[k] = <<o>> \o queue[k] /\ queue[k] \in Seq(Procs)
<1>1. \A p \in Procs : OwnerOf(p, k) => p = o
  BY DEF Inv, MutualExclusion, OwnerOf
<1>2. (CHOOSE p \in Procs : OwnerOf(p, k)) = o
  BY <1>1
<1> QED BY <1>2 DEF line, Inv, TypeOK

\* The line of a key that nobody owns is empty.
LEMMA LineWithoutOwner ==
    ASSUME NEW k \in Keys, \A o \in Procs : ~OwnerOf(o, k)
    PROVE  line[k] = <<>>
  BY DEF line

\* A line only depends on who owns the mutex and on its queue.
LEMMA SameLine ==
    ASSUME NEW k \in Keys, queue'[k] = queue[k],
           \A o \in Procs : OwnerOf(o, k)' <=> OwnerOf(o, k)
    PROVE  line'[k] = line[k]
<1>1. (CHOOSE p \in Procs : OwnerOf(p, k)') = (CHOOSE p \in Procs : OwnerOf(p, k))
  OBVIOUS
<1> QED BY <1>1 DEF line

\* A call that is idle stands in no line.
LEMMA IdleNotInLine ==
    ASSUME Inv, NEW p \in Procs, pc[p] = "idle"
    PROVE  ~Fifo!InLine(p)
<1> SUFFICES ASSUME NEW k \in Keys, NEW i \in DOMAIN line[k], line[k][i] = p
             PROVE  FALSE
  BY DEF Fifo!InLine
<1>1. CASE \A o \in Procs : ~OwnerOf(o, k)
  BY <1>1, LineWithoutOwner
<1>2. CASE \E o \in Procs : OwnerOf(o, k)
  <2>1. PICK o \in Procs : OwnerOf(o, k)
    BY <1>2
  <2>2. line[k] = <<o>> \o queue[k] /\ queue[k] \in Seq(Procs)
    BY <2>1, LineOfOwner
  <2>3. o # p /\ \A j \in DOMAIN queue[k] : queue[k][j] # p
    BY <2>1 DEF OwnerOf, Owner, Inv, NoLostWakeup, QueuesHoldWaiters, Queued
  <2>4. /\ Len(line[k]) = 1 + Len(queue[k])
        /\ \A j \in 1..(1 + Len(queue[k])) :
              line[k][j] = IF j <= 1 THEN <<o>>[j] ELSE queue[k][j - 1]
        /\ DOMAIN line[k] = 1..(1 + Len(queue[k]))
        /\ DOMAIN queue[k] = 1..Len(queue[k]) /\ Len(queue[k]) \in Nat
    BY <2>2, ConcatProperties
  <2>5. CASE i = 1
    BY <2>3, <2>4, <2>5
  <2>6. CASE i # 1
    <3>1. i \in 1..(1 + Len(queue[k])) /\ line[k][i] = queue[k][i - 1]
      BY <2>4, <2>6
    <3>2. i - 1 \in DOMAIN queue[k]
      BY <2>4, <2>6, <3>1
    <3> QED BY <2>3, <3>1, <3>2
  <2> QED BY <2>5, <2>6
<1> QED BY <1>1, <1>2

\* The lines are functions on the keys: two of them that agree on each are equal.
LEMMA LinesExcept ==
    ASSUME NEW k \in Keys, NEW l,
           line'[k] = l, \A n \in Keys \ {k} : line'[n] = line[n]
    PROVE  line' = [line EXCEPT ![k] = l]
  BY DEF line

\* acquire() of a free mutex joins an empty line.
LEMMA AcquireFreeJoins ==
    ASSUME Inv, NEW p \in Procs, NEW k \in Keys, AcquireFree(p, k)
    PROVE  ~Fifo!InLine(p) /\ Fifo!Join(p, k)
<1>1. ~Fifo!InLine(p)
  BY IdleNotInLine DEF AcquireFree
<1>2. queue[k] = <<>> /\ \A o \in Procs : ~OwnerOf(o, k)
  BY DEF AcquireFree, Inv, MutualExclusion, NoLostWakeup, QueueOnlyBehindOwner, OwnerOf
<1>3. Inv' /\ OwnerOf(p, k)' /\ queue' = queue
  BY AcquireFreeInv DEF AcquireFree, Inv, TypeOK, OwnerOf, Owner
<1>4. line'[k] = <<p>> \o queue'[k]
  <2>1. \A o \in Procs : OwnerOf(o, k)' => o = p
    BY <1>3 DEF Inv, MutualExclusion, OwnerOf
  <2>2. (CHOOSE o \in Procs : OwnerOf(o, k)') = p
    BY <1>3, <2>1
  <2> QED BY <1>3, <2>2 DEF line
<1>5. line[k] = <<>> /\ line'[k] = Append(line[k], p)
  BY <1>2, <1>3, <1>4, LineWithoutOwner
<1>6. \A n \in Keys \ {k} : line'[n] = line[n]
  <2> SUFFICES ASSUME NEW n \in Keys \ {k} PROVE line'[n] = line[n]
    OBVIOUS
  <2>1. \A o \in Procs : OwnerOf(o, n)' <=> OwnerOf(o, n)
    BY DEF AcquireFree, Inv, TypeOK, OwnerOf, Owner
  <2> QED BY <1>3, <2>1, SameLine
<1> QED BY <1>1, <1>5, <1>6, LinesExcept DEF Fifo!Join

\* acquire() of a locked mutex joins the line behind its owner.
LEMMA AcquireBusyJoins ==
    ASSUME Inv, NEW p \in Procs, NEW k \in Keys, AcquireBusy(p, k)
    PROVE  ~Fifo!InLine(p) /\ Fifo!Join(p, k)
<1>1. ~Fifo!InLine(p)
  BY IdleNotInLine DEF AcquireBusy
<1>2. PICK o \in Procs : OwnerOf(o, k)
  BY DEF AcquireBusy, Inv, NoLostWakeup, LockedHasOwner
<1>3. \A n \in Keys, r \in Procs : OwnerOf(r, n)' <=> OwnerOf(r, n)
  BY DEF AcquireBusy, Inv, TypeOK, OwnerOf, Owner
<1>4. /\ queue'[k] = Append(queue[k], p)
      /\ \A n \in Keys \ {k} : queue'[n] = queue[n]
  BY DEF AcquireBusy, Inv, TypeOK
<1>5. line[k] = <<o>> \o queue[k] /\ queue[k] \in Seq(Procs)
  BY <1>2, LineOfOwner
<1>6. line'[k] = <<o>> \o queue'[k]
  <2>1. (CHOOSE r \in Procs : OwnerOf(r, k)') = o
    BY <1>2, <1>3 DEF Inv, MutualExclusion, OwnerOf
  <2> QED BY <1>2, <1>3, <2>1 DEF line
<1>7. line'[k] = Append(line[k], p)
  <2>1. <<o>> \o Append(queue[k], p) = Append(<<o>> \o queue[k], p)
    BY <1>5, LineOperations
  <2>2. line'[k] = <<o>> \o Append(queue[k], p)
    BY <1>4, <1>6
  <2> QED BY <2>1, <2>2, <1>5
<1>8. \A n \in Keys \ {k} : line'[n] = line[n]
  BY <1>3, <1>4, SameLine
<1> QED BY <1>1, <1>7, <1>8, LinesExcept DEF Fifo!Join

\* release() takes its caller off the head of the line, and the next one in line
\* becomes the owner.
LEMMA ReleaseLeaves ==
    ASSUME Inv, NEW p \in Procs, NEW next \in {"outside", "idle"},
           pc[p] = "inside", Release(p, next)
    PROVE  \E k \in Keys : Fifo!Leave(p, k)
<1>0. PICK k \in Keys : k = key[p]
  BY DEF Inv, TypeOK
<1>1. OwnerOf(p, k) /\ \A o \in Procs : OwnerOf(o, k) => o = p
  BY <1>0 DEF Inv, MutualExclusion, OwnerOf, Owner
<1>2. line[k] = <<p>> \o queue[k] /\ queue[k] \in Seq(Procs)
  BY <1>1, LineOfOwner
<1>3. /\ line[k] # <<>> /\ Head(line[k]) = p
      /\ Tail(line[k]) = queue[k]
  BY <1>2, LineOperations
<1>4. CASE queue[k] # <<>>
  <2>1. PICK h \in Procs : h = Head(queue[k])
    BY <1>2, <1>4, HeadTailProperties
  <2>2. /\ pc[h] = "waiting" /\ key[h] = k /\ h # p
    <3>1. Queued(h, k)
      BY <1>2, <1>4, <2>1, TailElements DEF Queued
    <3> QED BY <3>1, <1>0 DEF Inv, NoLostWakeup, QueuesHoldWaiters
  <2>3. /\ queue' = [queue EXCEPT ![k] = Tail(queue[k])]
        /\ pc' = [pc EXCEPT ![h] = "granted", ![p] = next]
        /\ key' = key
    BY <1>0, <1>4, <2>1 DEF Release
  <2>4. /\ queue'[k] = Tail(queue[k])
        /\ \A n \in Keys \ {k} : queue'[n] = queue[n]
        /\ pc'[h] = "granted" /\ pc'[p] = next
        /\ \A o \in Procs \ {h, p} : pc'[o] = pc[o]
    BY <2>2, <2>3 DEF Inv, TypeOK
  <2>5. OwnerOf(h, k)' /\ \A o \in Procs : OwnerOf(o, k)' => o = h
    BY <1>1, <2>2, <2>3, <2>4 DEF OwnerOf, Owner
  <2>6. line'[k] = <<h>> \o queue'[k]
    <3>1. (CHOOSE o \in Procs : OwnerOf(o, k)') = h
      BY <2>5
    <3> QED BY <2>5, <3>1 DEF line
  <2>7. <<h>> \o Tail(queue[k]) = queue[k]
    <3>1. /\ Tail(queue[k]) \in Seq(Procs)
          /\ Len(Tail(queue[k])) = Len(queue[k]) - 1
          /\ \A i \in 1..Len(Tail(queue[k])) : Tail(queue[k])[i] = queue[k][i + 1]
      BY <1>2, <1>4, HeadTailProperties
    <3>2. <<h>> \in Seq(Procs) /\ Len(<<h>>) = 1 /\ <<h>>[1] = queue[k][1]
      BY <1>2, <1>4, <2>1, TailElements
    <3>3. /\ <<h>> \o Tail(queue[k]) \in Seq(Procs)
          /\ Len(<<h>> \o Tail(queue[k])) = Len(queue[k])
          /\ \A i \in 1..Len(queue[k]) : (<<h>> \o Tail(queue[k]))[i] =
                IF i <= 1 THEN <<h>>[i] ELSE Tail(queue[k])[i - 1]
      BY <1>2, <3>1, <3>2, ConcatProperties
    <3>4. \A i \in 1..Len(queue[k]) : (<<h>> \o Tail(queue[k]))[i] = queue[k][i]
      BY <1>2, <3>1, <3>2, <3>3
    <3> QED BY <1>2, <3>3, <3>4, SeqEqual
  <2>8. line'[k] = Tail(line[k])
    BY <1>3, <2>4, <2>6, <2>7
  <2>9. \A n \in Keys \ {k} : line'[n] = line[n]
    <3>1. \A n \in Keys \ {k}, o \in Procs : OwnerOf(o, n)' <=> OwnerOf(o, n)
      BY <1>0, <2>2, <2>3, <2>4 DEF OwnerOf, Owner
    <3> QED BY <2>4, <3>1, SameLine
  <2> QED BY <1>3, <2>8, <2>9, LinesExcept DEF Fifo!Leave, Fifo!Holds
<1>5. CASE queue[k] = <<>>
  <2>1. queue' = queue /\ pc' = [pc EXCEPT ![p] = next] /\ key' = key
    BY <1>0, <1>5 DEF Release
  <2>2. pc'[p] = next /\ \A o \in Procs \ {p} : pc'[o] = pc[o]
    BY <2>1 DEF Inv, TypeOK
  <2>3. \A o \in Procs : ~OwnerOf(o, k)'
    BY <1>1, <2>1, <2>2 DEF OwnerOf, Owner
  <2>4. line'[k] = Tail(line[k])
    BY <1>3, <1>5, <2>3 DEF line
  <2>5. \A n \in Keys \ {k} : line'[n] = line[n]
    <3>1. \A n \in Keys \ {k}, o \in Procs : OwnerOf(o, n)' <=> OwnerOf(o, n)
      BY <1>0, <2>1, <2>2 DEF OwnerOf, Owner
    <3> QED BY <2>1, <3>1, SameLine
  <2> QED BY <1>3, <2>4, <2>5, LinesExcept DEF Fifo!Leave, Fifo!Holds
<1> QED BY <1>4, <1>5

\* Resuming a call, and ending one that released before, leave all lines alone.
LEMMA MoveOnStutters ==
    ASSUME Inv, NEW p \in Procs, Enter(p) \/ FinishReleased(p)
    PROVE  line' = line
<1>1. queue' = queue /\ \A o \in Procs, n \in Keys : OwnerOf(o, n)' <=> OwnerOf(o, n)
  BY DEF Enter, FinishReleased, Inv, TypeOK, OwnerOf, Owner
<1>2. \A n \in Keys : line'[n] = line[n]
  BY <1>1, SameLine
<1> QED BY <1>2 DEF line

\* Mutexes is a first-come first-served lock for each key: its lines start empty
\* and every step is a step of FifoLock, or leaves the lines as they are.
THEOREM Refinement == BlockSpec => ImplementsFifoLock
<1>1. Init => Fifo!Init
  BY DEF Init, Fifo!Init, line, OwnerOf, Owner
<1>2. Inv /\ [Next]_vars => [Fifo!Next]_line
  <2> SUFFICES ASSUME Inv, [Next]_vars PROVE [Fifo!Next]_line
    OBVIOUS
  <2>1. CASE \E p \in Procs, k \in Keys : AcquireFree(p, k) \/ AcquireBusy(p, k)
    BY <2>1, AcquireFreeJoins, AcquireBusyJoins DEF Fifo!Next
  <2>2. CASE \E p \in Procs : ReleaseEarly(p) \/ Finish(p)
    BY <2>2, ReleaseLeaves DEF ReleaseEarly, Finish, Fifo!Next
  <2>3. CASE \E p \in Procs : Enter(p) \/ FinishReleased(p)
    BY <2>3, MoveOnStutters
  <2>4. CASE UNCHANGED vars
    BY <2>4 DEF vars, line, OwnerOf, Owner
  <2> QED BY <2>1, <2>2, <2>3, <2>4 DEF Next, Step
<1> QED BY <1>1, <1>2, Invariance, LocksOfBlock, PTL DEF Spec, ImplementsFifoLock, Fifo!Spec

-----------------------------------------------------------------------------
\* A nonempty set of natural numbers has a least element.
LEMMA LeastElement ==
    ASSUME NEW S, S \subseteq Nat, S # {}
    PROVE  \E x \in S : \A y \in S : x <= y
<1>1. PICK x \in S : \A y \in S : ~(<<y, x>> \in OpToRel(<, Nat))
  BY WFMin, NatLessThanWellFounded
<1>2. \A y \in S : ~(y < x)
  BY <1>1 DEF OpToRel
<1> QED BY <1>2

\* The smallest of a set of numbers.
LEMMA MinOf ==
    ASSUME NEW S, S \subseteq Nat, S # {}
    PROVE  Ids!Min(S) \in S /\ \A y \in S : Ids!Min(S) <= y
<1>1. \E x \in S : \A y \in S : x <= y
  BY LeastElement
<1> QED BY <1>1 DEF Ids!Min

\* The largest of a set of numbers up to a limit.
LEMMA MaxOf ==
    ASSUME NEW n \in Nat, NEW S, S \subseteq 0 .. n, S # {}
    PROVE  Ids!Max(S) \in S /\ \A y \in S : y <= Ids!Max(S)
<1> DEFINE Bounding == {x \in 0 .. n : \A y \in S : y <= x}
<1>1. Bounding \subseteq Nat /\ n \in Bounding
  OBVIOUS
<1>2. PICK m \in Bounding : \A x \in Bounding : m <= x
  BY <1>1, LeastElement
<1>3. m \in S
  <2> SUFFICES ASSUME m \notin S PROVE FALSE
    OBVIOUS
  <2>1. \A y \in S : y < m /\ y \in Nat
    BY <1>2
  <2>2. m # 0
    <3>1. PICK y \in S : TRUE
      OBVIOUS
    <3>2. y < m /\ y \in Nat
      BY <2>1
    <3> QED BY <1>2, <3>2
  <2>3. m - 1 \in Bounding
    BY <1>2, <2>1, <2>2
  <2> QED BY <1>2, <2>3
<1>4. \E x \in S : \A y \in S : x >= y
  BY <1>2, <1>3
<1> QED BY <1>4 DEF Ids!Max

-----------------------------------------------------------------------------
\* Division with a remainder.
LEMMA DivMod ==
    ASSUME NEW x \in Int, NEW b \in Nat \ {0}
    PROVE  /\ x \div b \in Int /\ x % b \in 0 .. b - 1 /\ x % b \in Nat
           /\ x = b * (x \div b) + (x % b)
OBVIOUS

\* Multiples of b are at least b apart.
LEMMA Below ==
    ASSUME NEW b \in Nat \ {0}, NEW q \in Int, NEW p \in Int, q < p
    PROVE  b * q <= b * p - b
<1>1. p - q - 1 \in Nat
  OBVIOUS
<1>2. b * (p - q - 1) >= 0
  BY <1>1
<1>3. b * (p - q - 1) = b * p - b * q - b
  OBVIOUS
<1> QED BY <1>2, <1>3

\* A sum of a multiple of b and of a number below b has that number as its remainder.
LEMMA ModIs ==
    ASSUME NEW b \in Nat \ {0}, NEW q \in Int, NEW r \in 0 .. b - 1
    PROVE  (b * q + r) % b = r
<1> DEFINE x == b * q + r
<1>1. x \in Int /\ b * q \in Int
  OBVIOUS
<1>2. PICK p \in Int, t \in 0 .. b - 1 : x = b * p + t /\ t = x % b
  BY <1>1, DivMod
<1>3. ~(p < q)
  BY <1>1, <1>2, Below
<1>4. ~(q < p)
  BY <1>1, <1>2, Below
<1>5. p = q
  BY <1>3, <1>4
<1> QED BY <1>1, <1>2, <1>5

\* A multiple n of b.
LEMMA Multiple ==
    ASSUME NEW b \in Nat \ {0}, NEW n \in Nat \ {0}, n % b = 0
    PROVE  n \div b \in Nat \ {0} /\ n = b * (n \div b)
<1> DEFINE k == n \div b
<1>1. k \in Int /\ n = b * k
  BY DivMod
<1>2. ~(k < 1)
  <2>1. b * 1 = b /\ b * k \in Int
    BY <1>1
  <2> QED BY <1>1, <2>1, Below
<1> QED BY <1>1, <1>2

\* A remainder by a multiple of b keeps the remainder by b.
LEMMA Scaled ==
    ASSUME NEW b \in Nat \ {0}, NEW n \in Nat \ {0}, n % b = 0, NEW x \in Int
    PROVE  (x % n) % b = x % b
<1>1. PICK k \in Nat \ {0} : n = b * k
  BY Multiple
<1>2. PICK q \in Int, y \in Nat : x = n * q + y /\ y = x % n
  BY DivMod
<1>3. PICK p \in Int, r \in 0 .. b - 1 : y = b * p + r /\ r = y % b
  <2>1. y \in Int
    OBVIOUS
  <2> QED BY <2>1, DivMod
<1>4. k * q + p \in Int
  OBVIOUS
<1>5. x = b * (k * q + p) + r
  <2>1. n * q = b * (k * q)
    BY <1>1
  <2>2. b * (k * q + p) = b * (k * q) + b * p
    OBVIOUS
  <2>3. b * (k * q) \in Int /\ b * p \in Int
    OBVIOUS
  <2>4. x = b * (k * q) + (b * p + r)
    BY <1>2, <1>3, <2>1
  <2> QED BY <2>2, <2>3, <2>4
<1>6. x % b = r
  BY <1>4, <1>5, ModIs
<1> QED BY <1>2, <1>3, <1>6

\* The offsets of a shard in a multiple of its base.
LEMMA OffsetsAre ==
    ASSUME NEW s, Ids!IsShard(s), NEW n \in Nat \ {0}, n % s.base = 0
    PROVE  Ids!OffsetsIn(s, n) = {y \in 0 .. n - 1 : y % s.base = s.offset}
<1>1. s.base \in Nat \ {0} /\ s.offset \in 0 .. s.base - 1
  BY DEF Ids!IsShard
<1>2. PICK k \in Nat \ {0} : k = n \div s.base /\ n = s.base * k
  <2>1. n \div s.base \in Nat \ {0} /\ n = s.base * (n \div s.base)
    BY <1>1, Multiple
  <2> QED BY <2>1
<1>3. PICK b \in Nat \ {0}, o \in Nat : o \in 0 .. b - 1 /\ b = s.base /\ o = s.offset
  BY <1>1
<1>4. Ids!OffsetsIn(s, n) = {o + i * b : i \in 0 .. k - 1}
  BY <1>2, <1>3 DEF Ids!OffsetsIn
<1>5. ASSUME NEW i \in 0 .. k - 1 PROVE o + i * b \in 0 .. n - 1 /\ (o + i * b) % b = o
  <2>1. b * i <= b * k - b /\ b * i >= 0 /\ b * i \in Int /\ i * b = b * i
    BY Below
  <2>2. (b * i + o) % b = o
    BY <1>3, ModIs
  <2>3. o + i * b = b * i + o
    BY <2>1
  <2> QED BY <2>1, <2>2, <2>3, <1>2, <1>3
<1>6. ASSUME NEW y \in 0 .. n - 1, y % b = o PROVE \E i \in 0 .. k - 1 : y = o + i * b
  <2>1. PICK p \in Int : y = b * p + o
    <3>1. y \in Int
      OBVIOUS
    <3> QED BY <1>6, <3>1, DivMod
  <2>2. ~(p < 0)
    <3>1. b * 0 = 0 /\ b * p \in Int
      OBVIOUS
    <3>2. b * p <= b * 0 - b \/ ~(p < 0)
      BY Below, 0 \in Int
    <3> QED BY <2>1, <3>1, <3>2, <1>3
  <2>3. ~(k - 1 < p)
    <3>1. b * k = n /\ b * p \in Int /\ b * (k - 1) = b * k - b
      BY <1>2, <1>3
    <3> QED BY <2>1, <3>1, Below
  <2>4. p \in 0 .. k - 1 /\ y = o + p * b
    BY <2>1, <2>2, <2>3
  <2> QED BY <2>4
<1>7. {o + i * b : i \in 0 .. k - 1} = {y \in 0 .. n - 1 : y % b = o}
  <2>1. ASSUME NEW y \in {o + i * b : i \in 0 .. k - 1} PROVE y \in 0 .. n - 1 /\ y % b = o
    BY <1>5
  <2>2. ASSUME NEW y \in 0 .. n - 1, y % b = o PROVE y \in {o + i * b : i \in 0 .. k - 1}
    BY <1>6, <2>2
  <2> QED BY <2>1, <2>2
<1> QED BY <1>3, <1>4, <1>7

\* The common base of two shards is a multiple of both bases.
LEMMA CommonBaseIs ==
    ASSUME NEW s, NEW t, Ids!IsShard(s), Ids!IsShard(t)
    PROVE  /\ Ids!CommonBase(s, t) \in Nat \ {0}
           /\ Ids!CommonBase(s, t) % s.base = 0 /\ Ids!CommonBase(s, t) % t.base = 0
<1>1. PICK b \in Nat \ {0}, c \in Nat \ {0} : b = s.base /\ c = t.base
  BY DEF Ids!IsShard
<1> DEFINE S == {m \in 1 .. (b * c) : m % b = 0 /\ m % c = 0}
<1>2. b * c \in S
  <2>1. b * c \in Nat \ {0} /\ b * c = c * b /\ b * c + 0 = b * c /\ c * b + 0 = c * b
    OBVIOUS
  <2>2. (b * c + 0) % b = 0 /\ (c * b + 0) % c = 0
    BY ModIs
  <2> QED BY <2>1, <2>2
<1>3. Ids!Min(S) \in S
  <2>1. S \subseteq Nat /\ S # {}
    BY <1>2
  <2> QED BY <2>1, MinOf
<1>4. Ids!CommonBase(s, t) = Ids!Min(S)
  BY <1>1 DEF Ids!CommonBase
<1> QED BY <1>1, <1>3, <1>4

\* The offsets that two shards have in common are those of the numbers that are in both.
LEMMA CommonOffsetsAre ==
    ASSUME NEW s, NEW t, Ids!IsShard(s), Ids!IsShard(t), NEW x \in Nat
    PROVE  /\ Ids!CommonOffsets(s, t) \subseteq 0 .. Ids!CommonBase(s, t) - 1
           /\ (Ids!Includes(s, x) /\ Ids!Includes(t, x)) <=> x % Ids!CommonBase(s, t) \in Ids!CommonOffsets(s, t)
<1>1. PICK n \in Nat \ {0} : n = Ids!CommonBase(s, t) /\ n % s.base = 0 /\ n % t.base = 0
  BY CommonBaseIs
<1>2. Ids!CommonOffsets(s, t) = {y \in 0 .. n - 1 : y % s.base = s.offset /\ y % t.base = t.offset}
  BY <1>1, OffsetsAre DEF Ids!CommonOffsets
<1>3. s.base \in Nat \ {0} /\ t.base \in Nat \ {0}
  BY DEF Ids!IsShard
<1>4. (x % n) % s.base = x % s.base /\ (x % n) % t.base = x % t.base /\ x % n \in 0 .. n - 1
  <2>1. x \in Int
    OBVIOUS
  <2>2. x % n \in 0 .. n - 1
    BY <2>1, DivMod
  <2>3. (x % n) % s.base = x % s.base
    BY <1>1, <1>3, <2>1, Scaled
  <2>4. (x % n) % t.base = x % t.base
    BY <1>1, <1>3, <2>1, Scaled
  <2> QED BY <2>2, <2>3, <2>4
<1> QED BY <1>1, <1>2, <1>4 DEF Ids!Includes

\* Shards that do not overlap have no number in common.
LEMMA ShardsApart ==
    ASSUME NEW s, NEW t, Ids!IsShard(s), Ids!IsShard(t), ~Ids!Overlaps(s, t), NEW x \in Nat
    PROVE  ~(Ids!Includes(s, x) /\ Ids!Includes(t, x))
<1>1. Ids!CommonBase(s, t) # 0
  BY CommonBaseIs
<1>2. Ids!CommonOffsets(s, t) = {}
  <2> SUFFICES ASSUME Ids!CommonOffsets(s, t) # {} PROVE FALSE
    OBVIOUS
  <2>1. Ids!Intersection(s, t).base = Ids!CommonBase(s, t)
    BY DEF Ids!Intersection, Ids!Shard
  <2>2. Ids!Intersection(s, t) = Ids!NoShard
    BY DEF Ids!Overlaps
  <2> QED BY <2>1, <2>2, <1>1 DEF Ids!NoShard
<1> QED BY <1>2, CommonOffsetsAre

\* The intersection of shards with one offset in common is the shard of all numbers in both.
LEMMA IntersectionIs ==
    ASSUME NEW s, NEW t, Ids!IsShard(s), Ids!IsShard(t), NEW o \in Ids!CommonOffsets(s, t), Ids!CommonOffsets(s, t) = {o}
    PROVE  /\ Ids!IsShard(Ids!Intersection(s, t))
           /\ \A x \in Nat : Ids!Includes(Ids!Intersection(s, t), x) <=> Ids!Includes(s, x) /\ Ids!Includes(t, x)
<1>1. PICK n \in Nat \ {0} : n = Ids!CommonBase(s, t)
  BY CommonBaseIs
<1>2. o \in 0 .. n - 1 /\ o \in Nat
  BY <1>1, CommonOffsetsAre, 0 \in Nat
<1>3. Ids!Min({o}) = o
  BY <1>2 DEF Ids!Min
<1>4. Ids!Intersection(s, t) = [offset |-> o, base |-> n]
  BY <1>1, <1>3 DEF Ids!Intersection, Ids!Shard
<1>5. ASSUME NEW x \in Nat PROVE (Ids!Includes(s, x) /\ Ids!Includes(t, x)) <=> x % n = o
  BY <1>1, CommonOffsetsAre
<1> QED BY <1>2, <1>4, <1>5 DEF Ids!IsShard, Ids!Includes

\* fix_upwards() gives the next number of a shard.
LEMMA FixUpwardsIs ==
    ASSUME NEW s, Ids!IsShard(s), NEW x \in Nat
    PROVE  /\ Ids!FixUpwards(s, x) \in Nat /\ Ids!FixUpwards(s, x) >= x /\ Ids!Includes(s, Ids!FixUpwards(s, x))
           /\ \A z \in Nat : x <= z /\ z < Ids!FixUpwards(s, x) => ~Ids!Includes(s, z)
<1>1. PICK b \in Nat \ {0}, o \in Nat : o \in 0 .. b - 1 /\ b = s.base /\ o = s.offset
  BY DEF Ids!IsShard
<1>2. PICK q \in Int, r \in 0 .. b - 1 : x = b * q + r /\ r = x % b
  <2>1. x \in Int
    OBVIOUS
  <2> QED BY <2>1, DivMod
<1>3. PICK m \in Int, n \in Int : m = b * q /\ n = b * (q + 1) /\ q + 1 \in Int
  OBVIOUS
<1>4. x = m + r /\ n = m + b
  <2>1. b * (q + 1) = b * q + b
    OBVIOUS
  <2> QED BY <1>2, <1>3, <2>1
<1>5. Ids!FixUpwards(s, x) = IF o >= r THEN m + o ELSE n + o
  <2>1. Ids!FixUpwards(s, x) = IF x - r + o >= x THEN x - r + o ELSE x - r + o + b
    BY <1>1, <1>2 DEF Ids!FixUpwards
  <2>2. x - r + o = m + o /\ x - r + o + b = n + o /\ (x - r + o >= x <=> o >= r)
    BY <1>1, <1>4
  <2> QED BY <2>1, <2>2
<1>6. Ids!FixUpwards(s, x) \in Nat /\ Ids!FixUpwards(s, x) >= x
  BY <1>1, <1>4, <1>5
<1>7. Ids!Includes(s, Ids!FixUpwards(s, x))
  <2>1. (b * q + o) % b = o /\ (b * (q + 1) + o) % b = o
    BY <1>1, <1>3, ModIs
  <2> QED BY <1>1, <1>3, <1>5, <2>1 DEF Ids!Includes
<1>8. ASSUME NEW z \in Nat, x <= z, z < Ids!FixUpwards(s, x), Ids!Includes(s, z) PROVE FALSE
  <2>1. PICK p \in Int : z = b * p + o
    <3>1. z \in Int /\ z % b = o
      BY <1>1, <1>8 DEF Ids!Includes
    <3> QED BY <3>1, DivMod
  <2>2. PICK k \in Int : k = b * p
    OBVIOUS
  <2>3. (p < q => k <= m - b) /\ (q < p => m <= k - b) /\ (q + 1 < p => n <= k - b) /\ (p = q => k = m) /\ (p = q + 1 => k = n)
    BY <1>3, <2>2, Below
  <2>4. z = k + o
    BY <2>1, <2>2
  <2>5. p < q \/ p = q \/ p = q + 1 \/ q + 1 < p
    OBVIOUS
  <2>6. CASE o >= r
    BY <1>1, <1>4, <1>5, <1>8, <2>3, <2>4, <2>5, <2>6
  <2>7. CASE ~(o >= r)
    BY <1>1, <1>4, <1>5, <1>8, <2>3, <2>4, <2>5, <2>7
  <2> QED BY <2>6, <2>7
<1> QED BY <1>6, <1>7, <1>8

-----------------------------------------------------------------------------
\* The ids of insert calls, and those that may be given twice.
Given == Ids!Assigned
GivenId(a) == Ids!PendingId(a)
Shared == FixedIds \union strayed \union Ids!UncheckedIds

\* The types of the state of a block.
IdTypes == /\ stack \in Seq(Ids!Rings) /\ (\A i \in DOMAIN stack : Ids!ZonesOrdered(stack[i])) /\ (block = "on" => stack # <<>>)
           /\ shard \in BlockShards /\ lower \subseteq 1 .. MaxId /\ store \subseteq 1 .. MaxId
           /\ auto \in Nat /\ reserved \subseteq 1 .. auto /\ pending \in [Inserts -> Seq(1 .. MaxId)]
           /\ \A c \in Inserts : Len(pending[c]) <= MaxEntries

\* A block that was not opened has given no ids.
OffIsEmpty == block # "on" => store = {} /\ lower = {} /\ auto = 0 /\ reserved = {} /\ Given = {}

\* What is in the lower rings was inserted there, and what is in the block below autoincrement, unless it came from elsewhere.
StoreBelow == /\ \A id \in lower : \E i \in 1 .. Len(stack) - 1 : Ids!ValidInsertId(stack[i], id)
              /\ store \subseteq (1 .. auto) \union FixedIds \union lower

\* So are the ids that calls hold, and those of a compact ring are reserved.
GivenFit == /\ \A a \in Given : GivenId(a) \in FixedIds \/ (GivenId(a) <= auto /\ Ids!ValidInsertId(Ids!Ring, GivenId(a)))
            /\ mode = "compact" => \A a \in Given : GivenId(a) \in FixedIds \union strayed \union reserved

\* The inductive invariant of a block.
IdsInv == IdTypes /\ OffIsEmpty /\ Ids!ZonesDisjoint /\ StoreBelow /\ GivenFit /\ Ids!UniqueIds /\ Ids!NoSlotSkipped

\* What the constants are.
LEMMA IdsConstants ==
    /\ Bounds \subseteq Nat /\ ShardedFrom \subseteq Nat \ {0} /\ MaxId \in Nat /\ MaxEntries \in Nat \ {0} /\ FixedIds \subseteq 1 .. MaxId
    /\ \A s \in RingShards : Ids!IsShard(s)
    /\ \A s \in BlockShards \ {Ids!NoShard} :
          Ids!IsShard(s) /\ \A t \in RingShards : \E o \in Ids!CommonOffsets(s, t) : Ids!CommonOffsets(s, t) = {o}
BY BlockAssumption DEF Ids!IdsAssumption, Ids!RingZonesAssumption

\* The limits of the zones of a ring.
LEMMA ZonesAre ==
    ASSUME NEW r \in Ids!Rings
    PROVE  /\ Ids!A(r) \in Nat /\ Ids!B(r) \in Nat \ {0} /\ Ids!C(r) \in Nat \ {0} /\ Ids!IsShard(r.shard3)
BY IdsConstants DEF Ids!Rings, Ids!A, Ids!B, Ids!C

\* A ring that passes validate_zones() shares no id with the rings below, but for those that are not checked.
LEMMA ZonesApart ==
    ASSUME IdTypes, Ids!ZonesDisjoint, NEW r \in Ids!Rings, Ids!LoadRing(r)
    PROVE  Ids!ZonesDisjoint'
<1>1. stack \in Seq(Ids!Rings) /\ stack' = Append(stack, r) /\ Ids!ValidateZones(r, stack) /\ MaxId \in Nat
  BY IdsConstants DEF IdTypes, Ids!LoadRing
<1>2. PICK n \in Nat : n = Len(stack)
  BY <1>1
<1>3. /\ DOMAIN stack = 1 .. n /\ DOMAIN stack' = 1 .. n + 1 /\ stack'[n + 1] = r
      /\ \A i \in 1 .. n : stack'[i] = stack[i] /\ stack[i] \in Ids!Rings
  BY <1>1, <1>2
<1>4. SUFFICES ASSUME NEW i \in 1 .. n + 1, NEW j \in 1 .. n + 1, i < j, NEW id \in 1 .. MaxId, id \notin Ids!Unchecked(i, j)',
                      Ids!ValidInsertId(stack'[i], id), Ids!ValidInsertId(stack'[j], id)
               PROVE  FALSE
  BY <1>3 DEF Ids!ZonesDisjoint
<1>5. i \in 1 .. n /\ stack'[i] = stack[i] /\ stack[i] \in Ids!Rings
  BY <1>3, <1>4
<1>6. CASE j \in 1 .. n
  <2>1. stack'[j] = stack[j]
    BY <1>3, <1>6
  <2>2. id \in 1 .. MaxId \ Ids!Unchecked(i, j)
    BY <1>4, <1>5, <2>1 DEF Ids!Unchecked
  <2> QED BY <1>3, <1>4, <1>5, <1>6, <2>1, <2>2 DEF Ids!ZonesDisjoint
<1>7. CASE j = n + 1
  <2>1. stack'[j] = r
    BY <1>3, <1>7
  <2>2. PICK s \in Ids!Rings : s = stack[i]
    BY <1>5
  <2>3. /\ Ids!A(s) \in Nat /\ Ids!B(s) \in Nat /\ Ids!C(s) \in Nat /\ Ids!A(r) \in Nat /\ Ids!B(r) \in Nat /\ Ids!C(r) \in Nat
        /\ Ids!IsShard(s.shard3) /\ Ids!IsShard(r.shard3) /\ id \in Nat
    BY ZonesAre
  <2>4. stack # <<>>
    BY <1>3, <1>5
  <2>5. /\ ~Ids!Overlaps(r.shard3, s.shard3)
        /\ Ids!A(r) # 0 => Ids!B(r) < Ids!C(s) /\ ~(Ids!A(s) # 0 /\ Ids!B(r) > Ids!A(s) /\ Ids!A(r) < Ids!B(s))
    BY <1>1, <1>3, <1>5, <2>2, <2>4 DEF Ids!ValidateZones, Ids!ShardsDisjoint, Ids!ExclusiveBelowSharded, Ids!ExclusiveDisjoint
  <2>6. ~(Ids!Includes(r.shard3, id) /\ Ids!Includes(s.shard3, id))
    BY <2>3, <2>5, ShardsApart
  <2>7. /\ IF id >= Ids!C(s) THEN Ids!Includes(s.shard3, id) ELSE Ids!A(s) # 0 /\ Ids!A(s) <= id /\ id < Ids!B(s)
        /\ IF id >= Ids!C(r) THEN Ids!Includes(r.shard3, id) ELSE Ids!A(r) # 0 /\ Ids!A(r) <= id /\ id < Ids!B(r)
    BY <1>4, <1>5, <2>1, <2>2 DEF Ids!ValidInsertId
  <2>8. ~(Ids!A(s) # 0 /\ Ids!A(s) <= id /\ id < Ids!B(s) /\ Ids!C(r) <= id)
    BY <1>4, <1>5, <2>1, <2>2 DEF Ids!Unchecked
  <2> QED BY <2>3, <2>5, <2>6, <2>7, <2>8
<1> QED BY <1>4, <1>6, <1>7

\* The shard of block and ring has the ids of both.
LEMMA CombinedIs ==
    ASSUME IdTypes, stack # <<>>
    PROVE  /\ Ids!Ring \in Ids!Rings /\ Ids!ZonesOrdered(Ids!Ring) /\ Ids!IsShard(Ids!ShardCombined)
           /\ \A id \in Nat : Ids!Includes(Ids!ShardCombined, id)
                                  <=> Ids!Includes(Ids!Ring.shard3, id) /\ (shard # Ids!NoShard => Ids!Includes(shard, id))
<1>1. Ids!Ring \in Ids!Rings /\ Ids!ZonesOrdered(Ids!Ring)
  BY DEF IdTypes, Ids!Ring
<1>2. Ids!IsShard(Ids!Ring.shard3) /\ Ids!Ring.shard3 \in RingShards
  BY <1>1, ZonesAre DEF Ids!Rings
<1>3. CASE shard = Ids!NoShard
  BY <1>1, <1>2, <1>3 DEF Ids!ShardCombined
<1>4. CASE shard # Ids!NoShard
  <2>1. shard \in BlockShards \ {Ids!NoShard}
    BY <1>4 DEF IdTypes
  <2>2. PICK o \in Ids!CommonOffsets(shard, Ids!Ring.shard3) : Ids!CommonOffsets(shard, Ids!Ring.shard3) = {o}
    BY <2>1, <1>2, IdsConstants
  <2>3. Ids!IsShard(shard)
    BY <2>1, IdsConstants
  <2>4. /\ Ids!IsShard(Ids!Intersection(shard, Ids!Ring.shard3))
        /\ \A id \in Nat : Ids!Includes(Ids!Intersection(shard, Ids!Ring.shard3), id)
                               <=> Ids!Includes(shard, id) /\ Ids!Includes(Ids!Ring.shard3, id)
    BY <1>2, <2>2, <2>3, IntersectionIs
  <2> QED BY <1>1, <1>4, <2>4 DEF Ids!ShardCombined
<1> QED BY <1>3, <1>4

\* _assign_id_incremental() gives the next id of the block above autoincrement.
LEMMA IncrementalIs ==
    ASSUME IdTypes, stack # <<>>
    PROVE  /\ Ids!IncrementalId \in Nat /\ auto < Ids!IncrementalId /\ Ids!Slot(Ids!IncrementalId)
           /\ \A id \in Nat : auto < id /\ id < Ids!IncrementalId => ~Ids!Slot(id)
<1>1. PICK a \in Nat, b \in Nat \ {0}, c \in Nat \ {0} :
         a = Ids!A(Ids!Ring) /\ b = Ids!B(Ids!Ring) /\ c = Ids!C(Ids!Ring) /\ (a # 0 => a <= b /\ b <= c)
  BY CombinedIs, ZonesAre DEF Ids!ZonesOrdered
<1>2. auto \in Nat /\ auto + 1 \in Nat
  BY DEF IdTypes
<1>3. \A id \in Nat : /\ id >= c => (Ids!Slot(id) <=> Ids!Includes(Ids!ShardCombined, id))
                      /\ id < c => (Ids!Slot(id) <=> a # 0 /\ a <= id /\ id < b)
  BY <1>1, CombinedIs DEF Ids!Slot, Ids!ValidInsertId
<1> DEFINE first == Ids!Larger(auto + 1, IF a = 0 THEN 1 ELSE a)
           from == Ids!Larger(auto + 1, c)
<1>4. first \in Nat /\ first > auto /\ from \in Nat /\ from > auto /\ from >= c
  BY <1>1, <1>2 DEF Ids!Larger
<1>5. CASE a # 0 /\ first < b
  <2>1. Ids!IncrementalId = first
    BY <1>1, <1>5 DEF Ids!IncrementalId
  <2>2. first >= a /\ first < c
    BY <1>1, <1>2, <1>5 DEF Ids!Larger
  <2>3. Ids!Slot(first)
    BY <1>1, <1>3, <1>4, <1>5, <2>2
  <2>4. ASSUME NEW id \in Nat, auto < id, id < first PROVE ~Ids!Slot(id)
    <3>1. id < a /\ id < c
      BY <1>1, <1>2, <1>5, <2>2, <2>4 DEF Ids!Larger
    <3> QED BY <1>1, <1>3, <3>1
  <2> QED BY <1>4, <2>1, <2>3, <2>4
<1>6. CASE ~(a # 0 /\ first < b)
  <2> DEFINE next == Ids!FixUpwards(Ids!ShardCombined, from)
  <2>1. Ids!IncrementalId = next
    BY <1>1, <1>6 DEF Ids!IncrementalId
  <2>2. next \in Nat /\ next >= from /\ Ids!Includes(Ids!ShardCombined, next)
        /\ \A id \in Nat : from <= id /\ id < next => ~Ids!Includes(Ids!ShardCombined, id)
    BY <1>4, CombinedIs, FixUpwardsIs
  <2>3. Ids!Slot(next) /\ next > auto
    BY <1>1, <1>2, <1>3, <1>4, <2>2
  <2>4. ASSUME NEW id \in Nat, auto < id, id < next PROVE ~Ids!Slot(id)
    <3>1. CASE id >= c
      <4>1. from <= id
        BY <1>1, <1>2, <2>4, <3>1 DEF Ids!Larger
      <4> QED BY <1>3, <2>2, <2>4, <3>1, <4>1
    <3>2. CASE id < c
      <4>1. ~(a # 0 /\ a <= id /\ id < b)
        BY <1>1, <1>2, <1>6, <2>4 DEF Ids!Larger
      <4> QED BY <1>3, <3>2, <4>1
    <3> QED BY <1>1, <3>1, <3>2
  <2> QED BY <2>1, <2>2, <2>3, <2>4
<1> QED BY <1>5, <1>6

\* _assign_id_compact() visits the ids that the block may give out.
LEMMA VisitedIs ==
    ASSUME IdTypes, stack # <<>>, NEW id \in Nat
    PROVE  Ids!Visited(id) <=> Ids!Slot(id)
<1>1. PICK a \in Nat, b \in Nat \ {0}, c \in Nat \ {0} :
         a = Ids!A(Ids!Ring) /\ b = Ids!B(Ids!Ring) /\ c = Ids!C(Ids!Ring) /\ (a # 0 => a <= b /\ b <= c)
  BY CombinedIs, ZonesAre DEF Ids!ZonesOrdered
<1>2. CASE id >= c
  BY <1>1, <1>2, CombinedIs DEF Ids!Visited, Ids!Slot, Ids!ValidInsertId
<1>3. CASE id < c
  BY <1>1, <1>3 DEF Ids!Visited, Ids!Slot, Ids!ValidInsertId
<1> QED BY <1>1, <1>2, <1>3

-----------------------------------------------------------------------------
\* What insert calls hold.
LEMMA GivenIs ==
    IdTypes => /\ Given = {a \in Inserts \X (1 .. MaxEntries) : a[2] \in 1 .. Len(pending[a[1]])}
               /\ \A c \in Inserts, i \in Nat : /\ <<c, i>> \in Given <=> i \in 1 .. Len(pending[c])
                                                /\ GivenId(<<c, i>>) = pending[c][i]
               /\ \A a \in Given : GivenId(a) \in 1 .. MaxId
<1> SUFFICES ASSUME IdTypes PROVE  /\ Given = {a \in Inserts \X (1 .. MaxEntries) : a[2] \in 1 .. Len(pending[a[1]])}
                                   /\ \A c \in Inserts, i \in Nat : /\ <<c, i>> \in Given <=> i \in 1 .. Len(pending[c])
                                                                    /\ GivenId(<<c, i>>) = pending[c][i]
                                   /\ \A a \in Given : GivenId(a) \in 1 .. MaxId
  OBVIOUS
<1>1. MaxEntries \in Nat /\ \A c \in Inserts : Len(pending[c]) \in Nat /\ Len(pending[c]) <= MaxEntries
  BY IdsConstants DEF IdTypes
<1>2. Given = {a \in Inserts \X (1 .. MaxEntries) : a[2] \in 1 .. Len(pending[a[1]])}
  BY <1>1 DEF Given, Ids!Assigned
<1>3. ASSUME NEW c \in Inserts, NEW i \in Nat PROVE (<<c, i>> \in Given <=> i \in 1 .. Len(pending[c])) /\ GivenId(<<c, i>>) = pending[c][i]
  BY <1>1, <1>2 DEF GivenId, Ids!PendingId
<1>4. ASSUME NEW a \in Given PROVE GivenId(a) \in 1 .. MaxId
  <2>1. a[1] \in Inserts /\ a[2] \in 1 .. Len(pending[a[1]])
    BY <1>2
  <2>2. pending[a[1]] \in Seq(1 .. MaxId)
    BY <2>1 DEF IdTypes
  <2>3. pending[a[1]][a[2]] \in 1 .. MaxId
    BY <2>1, <2>2, ElementOfSeq
  <2> QED BY <2>3 DEF GivenId, Ids!PendingId
<1> QED BY <1>2, <1>3, <1>4

\* The same of the next state.
LEMMA GivenIsNext ==
    ASSUME IdTypes'
    PROVE  /\ Given' = {a \in Inserts \X (1 .. MaxEntries) : a[2] \in 1 .. Len(pending'[a[1]])}
           /\ \A c \in Inserts, i \in Nat : /\ <<c, i>> \in Given' <=> i \in 1 .. Len(pending'[c])
                                            /\ GivenId(<<c, i>>)' = pending'[c][i]
<1>1. (IdTypes => /\ Given = {a \in Inserts \X (1 .. MaxEntries) : a[2] \in 1 .. Len(pending[a[1]])}
                  /\ \A c \in Inserts, i \in Nat : /\ <<c, i>> \in Given <=> i \in 1 .. Len(pending[c])
                                                   /\ GivenId(<<c, i>>) = pending[c][i]
                  /\ \A a \in Given : GivenId(a) \in 1 .. MaxId)'
  BY GivenIs, PTL
<1> QED BY <1>1

\* Every step of a block keeps the types.
LEMMA IdTypesStep ==
    ASSUME IdTypes, Ids!NextBlock
    PROVE  IdTypes'
<1> USE IdsConstants
<1>1. CASE Ids!Load
  <2>1. PICK r \in Ids!Rings : Ids!LoadRing(r)
    BY <1>1 DEF Ids!Load
  <2>2. stack \in Seq(Ids!Rings) /\ stack' = Append(stack, r) /\ Ids!ZonesOrdered(r)
    BY <2>1 DEF Ids!LoadRing, Ids!ValidateZones, IdTypes
  <2>3. stack' \in Seq(Ids!Rings) /\ (\A i \in DOMAIN stack' : Ids!ZonesOrdered(stack'[i])) /\ stack' # <<>>
    BY <2>2 DEF IdTypes
  <2> QED BY <1>1, <2>3 DEF Ids!Load, Ids!config, Ids!state, IdTypes
<1>2. CASE Ids!Open
  BY <1>2 DEF Ids!Open, Ids!state, IdTypes
<1>3. ASSUME NEW c \in Inserts, NEW m \in {mode} \union Overrides, NEW id \in 1 .. MaxId, Ids!Assign(c, m, id)
      PROVE  IdTypes'
  <2>1. /\ UNCHANGED <<stack, block, shard, lower, store>> /\ auto' \in Nat /\ auto' >= auto /\ id <= auto'
        /\ pending' = [pending EXCEPT ![c] = Append(@, id)] /\ Len(pending[c]) < MaxEntries /\ reserved' \subseteq reserved \union {id}
    BY <1>3 DEF Ids!Assign, Ids!config, Ids!Larger, IdTypes
  <2>2. reserved' \subseteq 1 .. auto'
    BY <2>1 DEF IdTypes
  <2>3. pending' \in [Inserts -> Seq(1 .. MaxId)]
    BY <2>1 DEF IdTypes
  <2>4. \A d \in Inserts : Len(pending'[d]) <= MaxEntries
    BY <2>1 DEF IdTypes
  <2> QED BY <2>1, <2>2, <2>3, <2>4 DEF IdTypes
<1>4. ASSUME NEW c \in Inserts, NEW id \in FixedIds, Ids!AssignFixed(c, id)
      PROVE  IdTypes'
  <2>1. <<id>> \in Seq(1 .. MaxId) /\ Len(<<id>>) <= MaxEntries
    OBVIOUS
  <2> QED BY <1>4, <2>1 DEF Ids!AssignFixed, Ids!config, IdTypes
<1>5. ASSUME NEW c \in Inserts, Ids!Save(c)
      PROVE  IdTypes'
  <2>1. /\ Head(pending[c]) \in 1 .. MaxId /\ Tail(pending[c]) \in Seq(1 .. MaxId) /\ Len(Tail(pending[c])) <= MaxEntries
    BY <1>5 DEF Ids!Save, IdTypes
  <2> QED BY <1>5, <2>1 DEF Ids!Save, Ids!config, IdTypes
<1>6. ASSUME NEW c \in Inserts, Ids!Throw(c)
      PROVE  IdTypes'
  BY <1>6 DEF Ids!Throw, Ids!config, IdTypes
<1>7. ASSUME NEW id \in lower, Ids!Upsave(id)
      PROVE  IdTypes'
  BY <1>7 DEF Ids!Upsave, Ids!config, IdTypes
<1>8. ASSUME NEW id \in store, Ids!Delete(id)
      PROVE  IdTypes'
  BY <1>8 DEF Ids!Delete, Ids!config, IdTypes
<1>9. CASE Ids!Restart
  <2>1. auto' \in Nat
    <3>1. store \union {0} \subseteq 0 .. MaxId /\ store \union {0} # {}
      BY DEF IdTypes
    <3>2. Ids!Max(store \union {0}) \in store \union {0}
      BY <3>1, MaxOf
    <3> QED BY <1>9, <3>1, <3>2 DEF Ids!Restart
  <2> QED BY <1>9, <2>1 DEF Ids!Restart, Ids!config, IdTypes
<1> QED BY <1>1, <1>2, <1>3, <1>4, <1>5, <1>6, <1>7, <1>8, <1>9 DEF Ids!NextBlock

\* Two insert calls get one id only if it may be given twice.
LEMMA AssignedIsFresh ==
    ASSUME IdsInv, NEW c \in Inserts, NEW m, NEW id \in 1 .. MaxId, Ids!Assign(c, m, id), id \notin Shared'
    PROVE  id \notin store \union lower /\ \A a \in Given : GivenId(a) # id
<1>1. IdTypes /\ stack # <<>> /\ UNCHANGED stack
  BY DEF IdsInv, IdTypes, Ids!Assign
<1>2. id \notin FixedIds /\ id \notin strayed /\ id \notin Ids!UncheckedIds /\ (m # mode => id \in strayed')
  BY <1>1 DEF Shared, Ids!Assign, Ids!UncheckedIds, Ids!Unchecked
<1>3. id \notin lower
  <2> SUFFICES ASSUME id \in lower PROVE FALSE
    OBVIOUS
  <2>1. PICK i \in 1 .. Len(stack) - 1 : Ids!ValidInsertId(stack[i], id)
    BY DEF IdsInv, StoreBelow
  <2>2. i \in DOMAIN stack /\ Len(stack) \in DOMAIN stack /\ i < Len(stack)
    BY <1>1 DEF IdTypes
  <2>3. id \notin Ids!Unchecked(i, Len(stack))
    BY <1>2 DEF Ids!UncheckedIds
  <2>4. Ids!ValidInsertId(stack[Len(stack)], id)
    BY DEF Ids!Assign, Ids!Ring
  <2> QED BY <2>1, <2>2, <2>3, <2>4 DEF IdsInv, Ids!ZonesDisjoint
<1>4. CASE id = Ids!IncrementalId
  <2>1. auto < id /\ auto \in Nat
    BY <1>1, <1>4, IncrementalIs DEF IdTypes
  <2> QED BY <1>2, <1>3, <2>1 DEF IdsInv, StoreBelow, GivenFit
<1>5. CASE id # Ids!IncrementalId
  <2>1. m = "compact" /\ Ids!Unallocated(id)
    BY <1>5 DEF Ids!Assign, Ids!CompactId
  <2>2. id \notin store /\ id \notin reserved
    BY <2>1 DEF Ids!Unallocated
  <2>3. mode = "compact"
    BY <2>1, <1>2 DEF Shared
  <2> QED BY <1>2, <1>3, <2>2, <2>3 DEF IdsInv, GivenFit
<1> QED BY <1>4, <1>5

\* The shortcut of _assign_id_compact() stays right.
LEMMA NoneSkipped ==
    ASSUME IdsInv, NEW c \in Inserts, NEW m, NEW id \in 1 .. MaxId, Ids!Assign(c, m, id)
    PROVE  Ids!NoSlotSkipped'
<1>1. IdTypes /\ stack # <<>> /\ UNCHANGED <<stack, shard, store, removed>> /\ auto \in Nat /\ reserved \subseteq 1 .. auto
  BY DEF IdsInv, IdTypes, Ids!Assign, Ids!config
<1>2. SUFFICES ASSUME auto' \in reserved', NEW n \in 1 .. auto', Ids!Slot(n), n # id PROVE n \in store \union reserved \union removed
  <2>1. \A n : Ids!Slot(n)' <=> Ids!Slot(n)
    BY <1>1 DEF Ids!Slot, Ids!Ring
  <2>2. reserved \subseteq reserved' /\ (auto' \in reserved' => id \in reserved' \/ auto' \in reserved)
    BY DEF Ids!Assign
  <2>3. auto' >= id /\ auto' >= auto
    BY <1>1 DEF Ids!Assign, Ids!Larger
  <2>4. ASSUME auto' \in reserved', id \notin reserved', auto' # id PROVE FALSE
    <3>1. m # "compact" /\ id = Ids!IncrementalId
      BY <2>4 DEF Ids!Assign
    <3>2. auto < id
      BY <1>1, <3>1, IncrementalIs
    <3> QED BY <1>1, <2>4, <3>2 DEF Ids!Assign, Ids!Larger
  <2>5. ASSUME auto' \in reserved', auto' = id, id \notin reserved' PROVE FALSE
    BY <2>5
  <2> QED BY <1>1, <2>1, <2>2, <2>4, <2>5 DEF Ids!NoSlotSkipped
<1>3. auto' = (IF id >= auto THEN id ELSE auto) /\ n \in Nat
  BY <1>1 DEF Ids!Assign, Ids!Larger
<1>4. CASE ~(m = "compact" /\ auto \notin reserved)
  <2>1. id = Ids!IncrementalId
    BY <1>4 DEF Ids!Assign, Ids!CompactId
  <2>2. auto < id /\ auto' = id
    BY <1>1, <1>3, <2>1, IncrementalIs
  <2>3. ~(auto < n)
    BY <1>1, <1>2, <1>3, <2>1, <2>2, IncrementalIs
  <2>4. auto \in reserved
    <3>1. id \notin reserved
      BY <1>1, <2>2
    <3> QED BY <1>2, <1>4, <2>2, <3>1 DEF Ids!Assign
  <2> QED BY <1>1, <1>2, <1>3, <2>2, <2>3, <2>4 DEF IdsInv, Ids!NoSlotSkipped
<1>5. CASE m = "compact" /\ auto \notin reserved
  <2>1. \A k \in 1 .. id - 1 : ~Ids!Unallocated(k)
    BY <1>5 DEF Ids!Assign, Ids!CompactId
  <2>2. reserved' = reserved \union {id}
    BY <1>5 DEF Ids!Assign
  <2>3. auto' = id
    BY <1>1, <1>2, <1>3, <1>5, <2>2
  <2>4. n \in 1 .. id - 1
    BY <1>2, <2>3
  <2>5. Ids!Visited(n)
    BY <1>1, <1>2, <1>3, VisitedIs
  <2> QED BY <2>1, <2>4, <2>5 DEF Ids!Unallocated
<1> QED BY <1>4, <1>5

-----------------------------------------------------------------------------
\* The steps after which the calls hold no other ids than before: what is left to show.
LEMMA HeldStay ==
    ASSUME IdsInv, IdTypes', UNCHANGED <<stack, lower, auto, reserved, mode, strayed>>, Given' \subseteq Given,
           \A a \in Given' : GivenId(a)' = GivenId(a)
    PROVE  /\ Ids!ZonesDisjoint' /\ GivenFit' /\ (\A id \in lower' : \E i \in 1 .. Len(stack') - 1 : Ids!ValidInsertId(stack'[i], id))
           /\ \A a \in Given' : GivenId(a) \notin Shared =>
                 /\ GivenId(a) \notin store \union lower /\ \A b \in Given' : GivenId(a) = GivenId(b) => a = b
<1>1. Ids!ZonesDisjoint'
  BY DEF IdsInv, Ids!ZonesDisjoint, Ids!Unchecked
<1>2. GivenFit'
  BY DEF IdsInv, GivenFit, Ids!Ring
<1>3. \A id \in lower' : \E i \in 1 .. Len(stack') - 1 : Ids!ValidInsertId(stack'[i], id)
  BY DEF IdsInv, StoreBelow
<1>4. \A a \in Given' : GivenId(a) \notin Shared =>
         /\ GivenId(a) \notin store \union lower /\ \A b \in Given' : GivenId(a) = GivenId(b) => a = b
  BY DEF IdsInv, Ids!UniqueIds, Ids!Unique, Given, GivenId, Shared
<1> QED BY <1>1, <1>2, <1>3, <1>4

\* An insert call assigns an id.
LEMMA AssignStep ==
    ASSUME IdsInv, IdTypes', NEW c \in Inserts, NEW m, NEW id \in 1 .. MaxId, Ids!Assign(c, m, id)
    PROVE  IdsInv'
<1>1. /\ IdTypes /\ stack # <<>> /\ UNCHANGED <<stack, block, shard, mode, lower, store>> /\ block = "on"
      /\ auto \in Nat /\ auto' \in Nat /\ auto <= auto' /\ id <= auto' /\ Ids!ValidInsertId(Ids!Ring, id)
      /\ strayed \subseteq strayed' /\ reserved \subseteq reserved'
      /\ pending' = [pending EXCEPT ![c] = Append(@, id)] /\ pending \in [Inserts -> Seq(1 .. MaxId)]
  BY DEF IdsInv, IdTypes, Ids!Assign, Ids!config, Ids!Larger
<1>2. PICK n \in Nat : n = Len(pending[c])
  BY <1>1
<1>3. Given' = Given \union {<<c, n + 1>>} /\ GivenId(<<c, n + 1>>)' = id /\ \A a \in Given : a # <<c, n + 1>> /\ GivenId(a)' = GivenId(a)
  <2>1. pending'[c] = Append(pending[c], id) /\ \A d \in Inserts : d # c => pending'[d] = pending[d]
    BY <1>1
  <2>2. /\ Len(pending'[c]) = n + 1 /\ pending'[c][n + 1] = id /\ \A i \in 1 .. n : pending'[c][i] = pending[c][i]
    BY <1>1, <1>2, <2>1
  <2>3. /\ Given = {a \in Inserts \X (1 .. MaxEntries) : a[2] \in 1 .. Len(pending[a[1]])}
        /\ \A d \in Inserts, i \in Nat : /\ <<d, i>> \in Given <=> i \in 1 .. Len(pending[d])
                                         /\ GivenId(<<d, i>>) = pending[d][i]
    BY <1>1, GivenIs
  <2>4. /\ Given' = {a \in Inserts \X (1 .. MaxEntries) : a[2] \in 1 .. Len(pending'[a[1]])}
        /\ \A d \in Inserts, i \in Nat : /\ <<d, i>> \in Given' <=> i \in 1 .. Len(pending'[d])
                                         /\ GivenId(<<d, i>>)' = pending'[d][i]
    BY GivenIsNext
  <2>5. ASSUME NEW d \in Inserts, NEW i \in Nat, <<d, i>> \in Given
        PROVE  <<d, i>> \in Given' /\ <<d, i>> # <<c, n + 1>> /\ GivenId(<<d, i>>)' = GivenId(<<d, i>>)
    BY <1>2, <2>1, <2>2, <2>3, <2>4, <2>5
  <2>6. ASSUME NEW d \in Inserts, NEW i \in Nat, <<d, i>> \in Given', <<d, i>> \notin Given
        PROVE  <<d, i>> = <<c, n + 1>>
    BY <1>2, <2>1, <2>2, <2>3, <2>4, <2>6
  <2>7. <<c, n + 1>> \in Given' /\ GivenId(<<c, n + 1>>)' = id
    BY <1>2, <2>2, <2>4
  <2>8. \A a \in Given \union Given' : \E d \in Inserts, i \in Nat : a = <<d, i>>
    BY <2>3, <2>4
  <2> QED BY <2>5, <2>6, <2>7, <2>8
<1>4. Ids!ZonesDisjoint' /\ OffIsEmpty'
  BY <1>1 DEF IdsInv, OffIsEmpty, Ids!ZonesDisjoint, Ids!Unchecked
<1>5. StoreBelow'
  BY <1>1 DEF IdsInv, StoreBelow
<1>6. Shared \subseteq Shared' /\ (m # mode => id \in strayed')
  BY <1>1 DEF Shared, Ids!UncheckedIds, Ids!Unchecked, Ids!Assign
<1>7. GivenFit'
  <2>1. Ids!Ring' = Ids!Ring
    BY <1>1 DEF Ids!Ring
  <2>2. \A a \in Given' : GivenId(a)' \in FixedIds \/ (GivenId(a)' <= auto' /\ Ids!ValidInsertId(Ids!Ring, GivenId(a)'))
    <3>1. \A a \in Given : GivenId(a)' \in FixedIds \/ (GivenId(a)' <= auto' /\ Ids!ValidInsertId(Ids!Ring, GivenId(a)'))
      <4>1. \A a \in Given : GivenId(a) \in 1 .. MaxId
        BY <1>1, GivenIs
      <4> QED BY <1>1, <1>3, <4>1 DEF IdsInv, GivenFit
    <3> QED BY <1>1, <1>3, <3>1
  <2>3. ASSUME mode = "compact", NEW a \in Given' PROVE GivenId(a)' \in FixedIds \union strayed' \union reserved'
    <3>1. CASE a = <<c, n + 1>>
      BY <1>3, <1>6, <2>3, <3>1 DEF Ids!Assign
    <3>2. CASE a \in Given
      BY <1>1, <1>3, <2>3, <3>2 DEF IdsInv, GivenFit
    <3> QED BY <1>3, <3>1, <3>2
  <2> QED BY <1>1, <2>1, <2>2, <2>3 DEF GivenFit
<1>8. Ids!UniqueIds'
  <2>1. SUFFICES ASSUME NEW a \in Given', GivenId(a)' \notin Shared'
                 PROVE  /\ GivenId(a)' \notin store \union lower
                        /\ \A b \in Given' : GivenId(a)' = GivenId(b)' => a = b
    BY <1>1 DEF Ids!UniqueIds, Ids!Unique, Given, GivenId, Shared
  <2>2. CASE a = <<c, n + 1>>
    <3>1. id \notin store \union lower /\ \A b \in Given : GivenId(b) # id
      BY <1>3, <2>1, <2>2, AssignedIsFresh
    <3> QED BY <1>3, <2>2, <3>1
  <2>3. CASE a \in Given
    <3>1. /\ GivenId(a) \notin store \union lower
          /\ \A b \in Given : GivenId(a) = GivenId(b) => a = b
      BY <1>3, <1>6, <2>1, <2>3 DEF IdsInv, Ids!UniqueIds, Ids!Unique, Given, GivenId, Shared
    <3>2. GivenId(a) # id
      <4> SUFFICES ASSUME GivenId(a) = id PROVE FALSE
        OBVIOUS
      <4>1. id \notin Shared'
        BY <1>3, <2>1, <2>3
      <4> QED BY <4>1, <2>3, AssignedIsFresh
    <3> QED BY <1>3, <2>3, <3>1, <3>2
  <2> QED BY <1>3, <2>2, <2>3
<1> QED BY <1>4, <1>5, <1>7, <1>8, NoneSkipped DEF IdsInv

\* An insert call with a fixed id.
LEMMA AssignFixedStep ==
    ASSUME IdsInv, IdTypes', NEW c \in Inserts, NEW id \in FixedIds, Ids!AssignFixed(c, id)
    PROVE  IdsInv'
<1>1. /\ IdTypes /\ UNCHANGED <<stack, block, shard, mode, lower, store, auto, reserved, strayed, removed>> /\ block = "on"
      /\ pending[c] = <<>> /\ pending' = [pending EXCEPT ![c] = <<id>>] /\ pending \in [Inserts -> Seq(1 .. MaxId)]
  BY DEF IdsInv, IdTypes, Ids!AssignFixed, Ids!config
<1>2. Given' = Given \union {<<c, 1>>} /\ GivenId(<<c, 1>>)' = id /\ \A a \in Given : a # <<c, 1>> /\ GivenId(a)' = GivenId(a)
  <2>1. pending'[c] = <<id>> /\ \A d \in Inserts : d # c => pending'[d] = pending[d]
    BY <1>1
  <2>2. Len(pending'[c]) = 1 /\ pending'[c][1] = id /\ Len(pending[c]) = 0
    BY <1>1, <2>1
  <2>3. /\ Given = {a \in Inserts \X (1 .. MaxEntries) : a[2] \in 1 .. Len(pending[a[1]])}
        /\ \A d \in Inserts, i \in Nat : /\ <<d, i>> \in Given <=> i \in 1 .. Len(pending[d])
                                         /\ GivenId(<<d, i>>) = pending[d][i]
    BY <1>1, GivenIs
  <2>4. /\ Given' = {a \in Inserts \X (1 .. MaxEntries) : a[2] \in 1 .. Len(pending'[a[1]])}
        /\ \A d \in Inserts, i \in Nat : /\ <<d, i>> \in Given' <=> i \in 1 .. Len(pending'[d])
                                         /\ GivenId(<<d, i>>)' = pending'[d][i]
    BY GivenIsNext
  <2>5. ASSUME NEW d \in Inserts, NEW i \in Nat, <<d, i>> \in Given
        PROVE  <<d, i>> \in Given' /\ <<d, i>> # <<c, 1>> /\ GivenId(<<d, i>>)' = GivenId(<<d, i>>)
    BY <2>1, <2>2, <2>3, <2>4, <2>5
  <2>6. ASSUME NEW d \in Inserts, NEW i \in Nat, <<d, i>> \in Given', <<d, i>> \notin Given
        PROVE  <<d, i>> = <<c, 1>>
    BY <2>1, <2>2, <2>3, <2>4, <2>6
  <2>7. <<c, 1>> \in Given' /\ GivenId(<<c, 1>>)' = id
    BY <2>2, <2>4
  <2>8. \A a \in Given \union Given' : \E d \in Inserts, i \in Nat : a = <<d, i>>
    BY <2>3, <2>4
  <2> QED BY <2>5, <2>6, <2>7, <2>8
<1>3. Ids!ZonesDisjoint' /\ OffIsEmpty' /\ StoreBelow' /\ Ids!NoSlotSkipped'
  BY <1>1 DEF IdsInv, OffIsEmpty, Ids!ZonesDisjoint, Ids!Unchecked, StoreBelow, Ids!NoSlotSkipped, Ids!Slot, Ids!Ring
<1>4. Shared' = Shared
  BY <1>1 DEF Shared, Ids!UncheckedIds, Ids!Unchecked
<1>5. GivenFit'
  BY <1>1, <1>2 DEF IdsInv, GivenFit, Ids!Ring
<1>6. Ids!UniqueIds'
  <2>1. SUFFICES ASSUME NEW a \in Given', GivenId(a)' \notin Shared
                 PROVE  /\ GivenId(a)' \notin store \union lower
                        /\ \A b \in Given' : GivenId(a)' = GivenId(b)' => a = b
    BY <1>1, <1>4 DEF Ids!UniqueIds, Ids!Unique, Given, GivenId, Shared
  <2>2. a \in Given /\ GivenId(a)' # id
    BY <1>2, <2>1 DEF Shared
  <2>3. /\ GivenId(a) \notin store \union lower
        /\ \A b \in Given : GivenId(a) = GivenId(b) => a = b
    BY <1>2, <2>1, <2>2 DEF IdsInv, Ids!UniqueIds, Ids!Unique, Given, GivenId, Shared
  <2> QED BY <1>2, <2>2, <2>3
<1> QED BY <1>3, <1>5, <1>6 DEF IdsInv

\* The next object of an insert call is saved, its id leaves those that the call holds.
LEMMA SaveStep ==
    ASSUME IdsInv, IdTypes', NEW c \in Inserts, Ids!Save(c)
    PROVE  IdsInv'
<1> DEFINE old(a) == IF a[1] = c THEN <<c, a[2] + 1>> ELSE a
           first == <<c, 1>>
<1>1. /\ IdTypes /\ UNCHANGED <<stack, block, shard, mode, lower, auto, reserved, strayed, removed>>
      /\ pending[c] # <<>> /\ pending' = [pending EXCEPT ![c] = Tail(@)] /\ pending \in [Inserts -> Seq(1 .. MaxId)]
      /\ store' = store \union {Head(pending[c])}
  BY DEF IdsInv, IdTypes, Ids!Save, Ids!config
<1>2. PICK n \in Nat \ {0} : n = Len(pending[c])
  BY <1>1
<1>3. /\ first \in Given /\ GivenId(first) = Head(pending[c])
      /\ \A a \in Given' : old(a) \in Given /\ old(a) # first /\ GivenId(a)' = GivenId(old(a))
      /\ \A a, b \in Given' : old(a) = old(b) => a = b
  <2>1. pending'[c] = Tail(pending[c]) /\ \A d \in Inserts : d # c => pending'[d] = pending[d]
    BY <1>1
  <2>2. /\ Len(pending'[c]) = n - 1 /\ pending[c][1] = Head(pending[c]) /\ \A i \in 1 .. n - 1 : pending'[c][i] = pending[c][i + 1]
    BY <1>1, <1>2, <2>1
  <2>3. /\ Given = {a \in Inserts \X (1 .. MaxEntries) : a[2] \in 1 .. Len(pending[a[1]])}
        /\ \A d \in Inserts, i \in Nat : /\ <<d, i>> \in Given <=> i \in 1 .. Len(pending[d])
                                         /\ GivenId(<<d, i>>) = pending[d][i]
    BY <1>1, GivenIs
  <2>4. /\ Given' = {a \in Inserts \X (1 .. MaxEntries) : a[2] \in 1 .. Len(pending'[a[1]])}
        /\ \A d \in Inserts, i \in Nat : /\ <<d, i>> \in Given' <=> i \in 1 .. Len(pending'[d])
                                         /\ GivenId(<<d, i>>)' = pending'[d][i]
    BY GivenIsNext
  <2>5. first \in Given /\ GivenId(first) = Head(pending[c])
    BY <1>2, <2>2, <2>3
  <2>6. ASSUME NEW d \in Inserts, NEW i \in Nat, <<d, i>> \in Given'
        PROVE  old(<<d, i>>) \in Given /\ old(<<d, i>>) # first /\ GivenId(<<d, i>>)' = GivenId(old(<<d, i>>))
    <3>1. CASE d = c
      <4>1. i \in 1 .. n - 1 /\ i + 1 \in 1 .. n /\ i + 1 # 1 /\ old(<<d, i>>) = <<c, i + 1>>
        BY <2>2, <2>4, <2>6, <3>1
      <4>2. <<c, i + 1>> \in Given /\ GivenId(<<c, i + 1>>) = pending[c][i + 1]
        BY <1>2, <2>3, <4>1
      <4>3. GivenId(<<d, i>>)' = pending'[c][i]
        BY <2>4, <3>1
      <4> QED BY <2>2, <4>1, <4>2, <4>3
    <3>2. CASE d # c
      <4>1. old(<<d, i>>) = <<d, i>> /\ <<d, i>> # first
        BY <3>2
      <4> QED BY <2>1, <2>3, <2>4, <2>6, <3>2, <4>1
    <3> QED BY <3>1, <3>2
  <2>7. \A a \in Given' : \E d \in Inserts, i \in Nat : a = <<d, i>>
    BY <2>4
  <2>8. ASSUME NEW a \in Given', NEW b \in Given', old(a) = old(b) PROVE a = b
    <3>1. PICK d \in Inserts, i \in Nat, e \in Inserts, j \in Nat : a = <<d, i>> /\ b = <<e, j>>
      BY <2>7
    <3>2. old(a) = (IF d = c THEN <<c, i + 1>> ELSE <<d, i>>) /\ old(b) = (IF e = c THEN <<c, j + 1>> ELSE <<e, j>>)
      BY <3>1
    <3> HIDE DEF old
    <3> QED BY <2>8, <3>1, <3>2
  <2> HIDE DEF old, first
  <2> QED BY <2>5, <2>6, <2>7, <2>8
<1> HIDE DEF old, first
<1>4. Ids!ZonesDisjoint' /\ Ids!NoSlotSkipped'
  BY <1>1 DEF IdsInv, Ids!ZonesDisjoint, Ids!Unchecked, Ids!NoSlotSkipped, Ids!Slot, Ids!Ring
<1>5. OffIsEmpty'
  BY <1>1, <1>3 DEF IdsInv, OffIsEmpty
<1>6. StoreBelow'
  <2>1. Head(pending[c]) \in 1 .. MaxId /\ (Head(pending[c]) \in FixedIds \/ Head(pending[c]) <= auto)
    BY <1>1, <1>3, GivenIs DEF IdsInv, GivenFit
  <2>2. Head(pending[c]) \in (1 .. auto) \union FixedIds
    BY <2>1 DEF IdsInv, IdTypes
  <2> QED BY <1>1, <2>2 DEF IdsInv, StoreBelow
<1>7. Shared' = Shared
  BY <1>1 DEF Shared, Ids!UncheckedIds, Ids!Unchecked
<1>8. GivenFit'
  BY <1>1, <1>3 DEF IdsInv, GivenFit, Ids!Ring
<1>9. Ids!UniqueIds'
  <2>1. SUFFICES ASSUME NEW a \in Given', GivenId(a)' \notin Shared
                 PROVE  /\ GivenId(a)' \notin store' \union lower
                        /\ \A b \in Given' : GivenId(a)' = GivenId(b)' => a = b
    BY <1>1, <1>7 DEF Ids!UniqueIds, Ids!Unique, Given, GivenId, Shared
  <2>2. /\ GivenId(old(a)) \notin store \union lower
        /\ \A b \in Given : GivenId(old(a)) = GivenId(b) => old(a) = b
    BY <1>3, <2>1 DEF IdsInv, Ids!UniqueIds, Ids!Unique, Given, GivenId, Shared
  <2>3. GivenId(old(a)) # Head(pending[c])
    BY <1>3, <2>1, <2>2
  <2> QED BY <1>1, <1>3, <2>1, <2>2, <2>3
<1> QED BY <1>4, <1>5, <1>6, <1>8, <1>9 DEF IdsInv

\* What a call did not save yet is dropped.
LEMMA ThrowStep ==
    ASSUME IdsInv, IdTypes', NEW c \in Inserts, Ids!Throw(c)
    PROVE  IdsInv'
<1>1. /\ IdTypes /\ UNCHANGED <<stack, block, shard, mode, lower, store, auto, reserved, strayed, removed>>
      /\ pending' = [pending EXCEPT ![c] = <<>>] /\ pending \in [Inserts -> Seq(1 .. MaxId)]
  BY DEF IdsInv, IdTypes, Ids!Throw, Ids!config
<1>2. Given' \subseteq Given /\ \A a \in Given' : GivenId(a)' = GivenId(a)
  <2>1. Len(pending'[c]) = 0 /\ \A d \in Inserts : d # c => pending'[d] = pending[d]
    BY <1>1
  <2>2. /\ Given = {a \in Inserts \X (1 .. MaxEntries) : a[2] \in 1 .. Len(pending[a[1]])}
        /\ Given' = {a \in Inserts \X (1 .. MaxEntries) : a[2] \in 1 .. Len(pending'[a[1]])}
    BY <1>1, GivenIs, GivenIsNext
  <2>3. \A a \in Given' : a[1] # c /\ a \in Given
    BY <2>1, <2>2
  <2> QED BY <2>1, <2>2, <2>3 DEF GivenId, Ids!PendingId
<1>3. /\ Ids!ZonesDisjoint' /\ GivenFit' /\ (\A id \in lower' : \E i \in 1 .. Len(stack') - 1 : Ids!ValidInsertId(stack'[i], id))
      /\ \A a \in Given' : GivenId(a) \notin Shared =>
            /\ GivenId(a) \notin store \union lower /\ \A b \in Given' : GivenId(a) = GivenId(b) => a = b
  BY <1>1, <1>2, HeldStay
<1>4. OffIsEmpty' /\ StoreBelow' /\ Ids!NoSlotSkipped' /\ Shared' = Shared
  BY <1>1, <1>2, <1>3 DEF IdsInv, OffIsEmpty, StoreBelow, Ids!NoSlotSkipped, Ids!Slot, Ids!Ring, Shared, Ids!UncheckedIds, Ids!Unchecked
<1>5. Ids!UniqueIds'
  BY <1>1, <1>2, <1>3, <1>4 DEF Ids!UniqueIds, Ids!Unique, Given, GivenId, Shared
<1> QED BY <1>3, <1>4, <1>5 DEF IdsInv

\* A record is added to the block by an upsave() or deleted; the calls hold what they held.
LEMMA RecordsStep ==
    ASSUME IdsInv, IdTypes', UNCHANGED <<stack, shard, mode, lower, auto, reserved, strayed, pending>>, block = "on", block' = "on",
           store' \subseteq store \union lower, store \subseteq store' \union removed', removed \subseteq removed'
    PROVE  IdsInv'
<1>1. Given' = Given /\ \A a \in Given : GivenId(a)' = GivenId(a)
  BY DEF Given, Ids!Assigned, GivenId, Ids!PendingId
<1>2. /\ Ids!ZonesDisjoint' /\ GivenFit' /\ (\A id \in lower' : \E i \in 1 .. Len(stack') - 1 : Ids!ValidInsertId(stack'[i], id))
      /\ \A a \in Given' : GivenId(a) \notin Shared =>
            /\ GivenId(a) \notin store \union lower /\ \A b \in Given' : GivenId(a) = GivenId(b) => a = b
  BY <1>1, HeldStay
<1>3. StoreBelow' /\ OffIsEmpty'
  BY <1>2 DEF IdsInv, StoreBelow, OffIsEmpty
<1>4. Ids!NoSlotSkipped' /\ Shared' = Shared
  BY DEF IdsInv, Ids!NoSlotSkipped, Ids!Slot, Ids!Ring, Shared, Ids!UncheckedIds, Ids!Unchecked
<1>5. Ids!UniqueIds'
  BY <1>1, <1>2, <1>4 DEF Ids!UniqueIds, Ids!Unique, Given, GivenId, Shared
<1> QED BY <1>2, <1>3, <1>4, <1>5 DEF IdsInv

\* While no call holds an id, the block may be opened or restarted, as autoincrement starts at the largest id of the store.
LEMMA EmptyStep ==
    ASSUME IdTypes, IdTypes', Given = {}, pending' = pending, Ids!ZonesDisjoint', StoreBelow', OffIsEmpty', reserved' = {}
    PROVE  IdsInv'
<1>1. Given' = {}
  BY DEF Given, Ids!Assigned
<1>2. GivenFit' /\ Ids!UniqueIds' /\ Ids!NoSlotSkipped'
  BY <1>1 DEF GivenFit, Ids!UniqueIds, Ids!Unique, Given, Ids!NoSlotSkipped
<1> QED BY <1>2 DEF IdsInv

\* A ring is loaded, on top of which the block is opened.
LEMMA LoadStep ==
    ASSUME IdsInv, IdTypes', Ids!Load
    PROVE  IdsInv'
<1>1. /\ block # "on" /\ IdTypes /\ Given = {} /\ UNCHANGED <<block, lower, store, auto, reserved, pending>>
      /\ store = {} /\ lower = {} /\ auto = 0 /\ reserved = {}
  BY DEF IdsInv, OffIsEmpty, Ids!Load, Ids!config, Ids!state
<1>2. PICK r \in Ids!Rings : Ids!LoadRing(r)
  BY DEF Ids!Load
<1>3. Ids!ZonesDisjoint'
  BY <1>1, <1>2, ZonesApart DEF IdsInv
<1>4. StoreBelow' /\ OffIsEmpty'
  BY <1>1 DEF StoreBelow, OffIsEmpty, Given, Ids!Assigned
<1> QED BY <1>1, <1>3, <1>4, EmptyStep

\* The block of the top ring is opened above rings with objects.
LEMMA OpenStep ==
    ASSUME IdsInv, IdTypes', Ids!Open
    PROVE  IdsInv'
<1>1. /\ block # "on" /\ block' = "on" /\ IdTypes /\ Given = {} /\ UNCHANGED <<stack, store, auto, reserved, pending>>
      /\ store = {} /\ reserved = {}
  BY DEF IdsInv, OffIsEmpty, Ids!Open, Ids!state
<1>2. Ids!ZonesDisjoint'
  BY <1>1 DEF IdsInv, Ids!ZonesDisjoint, Ids!Unchecked
<1>3. StoreBelow' /\ OffIsEmpty'
  BY <1>1 DEF StoreBelow, OffIsEmpty, Ids!Open
<1> QED BY <1>1, <1>2, <1>3, EmptyStep

\* The block restarts with the largest id of its store.
LEMMA RestartStep ==
    ASSUME IdsInv, IdTypes', Ids!Restart
    PROVE  IdsInv'
<1>1. /\ block = "on" /\ IdTypes /\ UNCHANGED <<stack, block, lower, store, pending>> /\ \A c \in Inserts : pending[c] = <<>>
      /\ auto' = Ids!Max(store \union {0}) /\ reserved' = {} /\ MaxId \in Nat
  BY IdsConstants DEF IdsInv, Ids!Restart, Ids!config
<1>2. Given = {}
  <2>1. Given = {a \in Inserts \X (1 .. MaxEntries) : a[2] \in 1 .. Len(pending[a[1]])}
    BY <1>1, GivenIs
  <2>2. \A c \in Inserts : Len(pending[c]) = 0
    BY <1>1
  <2> QED BY <2>1, <2>2
<1>3. store \subseteq 1 .. auto'
  <2>1. store \union {0} \subseteq 0 .. MaxId /\ store \union {0} # {} /\ store \subseteq 1 .. MaxId
    BY <1>1 DEF IdTypes
  <2>2. Ids!Max(store \union {0}) \in store \union {0} /\ \A y \in store \union {0} : y <= Ids!Max(store \union {0})
    BY <1>1, <2>1, MaxOf
  <2>3. PICK m \in 0 .. MaxId : m = auto' /\ \A y \in store : y <= m
    BY <1>1, <2>1, <2>2
  <2> QED BY <2>1, <2>3
<1>4. Ids!ZonesDisjoint'
  BY <1>1 DEF IdsInv, Ids!ZonesDisjoint, Ids!Unchecked
<1>5. StoreBelow' /\ OffIsEmpty'
  BY <1>1, <1>3 DEF IdsInv, StoreBelow, OffIsEmpty
<1> QED BY <1>1, <1>2, <1>4, <1>5, EmptyStep

\* Every step of a block keeps its invariant.
LEMMA IdsStep ==
    ASSUME IdsInv, Ids!NextBlock
    PROVE  IdsInv'
<1>1. IdTypes'
  BY IdTypesStep DEF IdsInv
<1>2. ASSUME NEW c \in Inserts, NEW m \in {mode} \union Overrides, NEW id \in 1 .. MaxId, Ids!Assign(c, m, id)
      PROVE  IdsInv'
  BY <1>1, <1>2, AssignStep
<1>3. ASSUME NEW id \in lower, Ids!Upsave(id)
      PROVE  IdsInv'
  BY <1>1, <1>3, RecordsStep DEF Ids!Upsave, Ids!config
<1>4. ASSUME NEW id \in store, Ids!Delete(id)
      PROVE  IdsInv'
  <2>1. block = "on"
    BY DEF IdsInv, OffIsEmpty
  <2> QED BY <1>1, <1>4, <2>1, RecordsStep DEF Ids!Delete, Ids!config
<1> QED BY <1>1, <1>2, <1>3, <1>4, LoadStep, OpenStep, AssignFixedStep, SaveStep, ThrowStep, RestartStep DEF Ids!NextBlock

\* The invariant of a block holds at the start.
LEMMA IdsInit ==
    ASSUME Ids!InitBlock
    PROVE  IdsInv
<1>1. IdTypes
  BY IdsConstants DEF Ids!InitBlock, Ids!Init, IdTypes
<1>2. Given = {}
  <2>1. Given = {a \in Inserts \X (1 .. MaxEntries) : a[2] \in 1 .. Len(pending[a[1]])}
    BY <1>1, GivenIs
  <2>2. \A c \in Inserts : Len(pending[c]) = 0
    BY DEF Ids!InitBlock
  <2> QED BY <2>1, <2>2
<1>3. Ids!ZonesDisjoint
  BY DEF Ids!InitBlock, Ids!Init, Ids!ZonesDisjoint
<1>4. OffIsEmpty /\ StoreBelow
  BY <1>2 DEF Ids!InitBlock, OffIsEmpty, StoreBelow
<1>5. GivenFit /\ Ids!UniqueIds /\ Ids!NoSlotSkipped
  BY <1>2 DEF Ids!InitBlock, GivenFit, Ids!UniqueIds, Ids!Unique, Given, Ids!NoSlotSkipped
<1> QED BY <1>1, <1>3, <1>4, <1>5 DEF IdsInv

\* A step of another part of the server.
LEMMA IdsRest ==
    ASSUME IdsInv, UNCHANGED idvars
    PROVE  IdsInv'
<1>1. IdTypes' /\ OffIsEmpty' /\ StoreBelow' /\ GivenFit'
  BY DEF IdsInv, idvars, IdTypes, OffIsEmpty, StoreBelow, GivenFit, Given, GivenId, Ids!Assigned, Ids!PendingId, Ids!Ring
<1>2. Ids!ZonesDisjoint' /\ Ids!UniqueIds' /\ Ids!NoSlotSkipped'
  BY DEF IdsInv, idvars, Ids!ZonesDisjoint, Ids!Unchecked, Ids!UniqueIds, Ids!Unique, Ids!Assigned, Ids!PendingId, Ids!UncheckedIds,
         Ids!NoSlotSkipped, Ids!Slot, Ids!Ring
<1> QED BY <1>1, <1>2 DEF IdsInv

\* It implies what the run checks.
LEMMA IdsHold ==
    ASSUME IdsInv
    PROVE  IdsAreSound
<1>1. Ids!CandidatesAreValid
  <2> SUFFICES ASSUME block = "on" PROVE Ids!Slot(Ids!IncrementalId) /\ \A id \in 1 .. MaxId : Ids!Visited(id) => Ids!Slot(id)
    BY DEF Ids!CandidatesAreValid
  <2>1. IdTypes /\ stack # <<>>
    BY DEF IdsInv, IdTypes
  <2>2. ASSUME NEW id \in 1 .. MaxId, Ids!Visited(id) PROVE Ids!Slot(id)
    <3>1. id \in Nat
      OBVIOUS
    <3> QED BY <2>1, <2>2, <3>1, VisitedIs
  <2> QED BY <2>1, <2>2, IncrementalIs
<1> QED BY <1>1 DEF IdsInv, IdsAreSound, Ids!NoIdTwice, Ids!CandidatesFit

\* No id is given twice, by two rings, by overlapping or failing calls, after deletions, upsaves or restarts;
\* and the ids fit into the zones and shards: for stacks of any rings, any block shard, and any number of calls.
THEOREM GivenOnce == BlockSpec => []IdsAreSound
<1>1. BlockInit => IdsInv
  BY IdsInit DEF BlockInit
<1>2. IdsInv /\ [BlockNext]_blockvars => IdsInv'
  BY IdsStep, IdsRest DEF BlockNext, blockvars
<1>3. IdsInv => IdsAreSound
  BY IdsHold
<1> QED BY <1>1, <1>2, <1>3, PTL DEF BlockSpec
=============================================================================
