------------------------------ MODULE RingStack ------------------------------
(***************************************************************************)
(* Reading and writing one object in a stack of rings (schemat/db/block.js: *)
(* DataBlock.$agent.select, $master.update, upsave, delete, _move_down,    *)
(* _move_up; schemat/db/db.js: Ring.select, update, delete, upsave;        *)
(* schemat/db/data_request.js: push_ring, pop_ring).                       *)
(*                                                                         *)
(* A call enters the block of one ring, the top one unless the caller says *)
(* otherwise, and is forwarded down until a block has the record.  update  *)
(* and delete hold the row lock of every block on the way while they wait  *)
(* for the answer from below.  An update of a record in a read-only ring   *)
(* is sent up again, as upsave, to the first writable ring on its way,     *)
(* which takes the row lock of that block.                                 *)
(*                                                                         *)
(* Blocks run in different processes: the process of one may die while     *)
(* others go on with their part of a call.  A record is the set of updates *)
(* it contains.  Derived sequences and the block-wide lock are left to     *)
(* ChangeCapture.                                                          *)
(***************************************************************************)
EXTENDS Naturals, Sequences, FiniteSetsExt

CONSTANTS NRings,    \* the rings are 1..NRings, from bottom to top
          Entered,   \* rings that callers address: the top one by default
          Calls,     \* calls on the object, each made once
          MaxCrashes \* bound: crashes of the process of a block

ASSUME RingStackAssumption == /\ NRings \in Nat \ {0} /\ MaxCrashes \in Nat
                             /\ Entered \subseteq 1..NRings
                             /\ "missing" \notin Calls

Rings == 1..NRings

VARIABLES readonly, \* rings that are read-only
          store,    \* store[r]: the record in the block of ring r
          rows,     \* rows[r]: line of the callers of lock_row() in that block
          call,     \* call[c]: a call and its local variables
          crashes,  \* how many of MaxCrashes are used up
          seen      \* history, seen[c]: what the object has been during call c

vars == <<readonly, store, rows, call, crashes, seen>>

Missing == {"missing"}
Kinds == {"select", "update", "delete"}

\* In the line of a block a call stands for itself, or for its upsave.
Entry(c) == <<c, "call">>
Upsaver(c) == <<c, "upsave">>
Entries == {Entry(c) : c \in Calls} \union {Upsaver(c) : c \in Calls}

Lock == INSTANCE FifoLock WITH Keys <- Rings, Procs <- Entries, line <- rows

\* `ring` is where the call is, `top` where it entered: the list of rings in its
\* DataRequest is ring+1..top, without those that pop_ring() took off.
NewCall == [kind |-> "select", pc |-> "new", ring |-> 1, top |-> 1,
            record |-> Missing, answer |-> <<"none", Missing>>]

Records == {Missing} \union SUBSET Calls
Answers == {"none", "failed", "nothing", "done", "value"} \X Records

Open(c) == call[c].answer[1] = "none"

TypeOK == /\ readonly \subseteq Rings
          /\ store \in [Rings -> Records]
          /\ rows \in [Rings -> Seq(Entries)]
          /\ \A c \in Calls :
                /\ call[c].kind \in Kinds
                /\ call[c].pc \in {"new", "look", "wait", "save", "upsave", "return", "end"}
                /\ call[c].ring \in Rings /\ call[c].top \in Rings
                /\ call[c].record \in Records /\ call[c].answer \in Answers
                /\ call[c].pc \in {"return", "end"} <=> ~Open(c)
          /\ crashes \in 0..MaxCrashes

Init == /\ readonly \in SUBSET Rings
        /\ store \in [Rings -> {Missing, {}}]
        /\ rows = [r \in Rings |-> <<>>]
        /\ call = [c \in Calls |-> NewCall]
        /\ crashes = 0
        /\ seen = [c \in Calls |-> {}]

-----------------------------------------------------------------------------
Has(r) == store[r] # Missing
Waits(c, r) == \E i \in DOMAIN rows[r] : rows[r][i] = Entry(c)
Answer(c, a) == [call EXCEPT ![c].answer = <<a, Missing>>, ![c].pc = "return"]

\* Ring.select() of a ring.
StartSelect(c, r) ==
    /\ call[c].pc = "new"
    /\ call' = [call EXCEPT ![c] = [NewCall EXCEPT !.pc = "look", !.ring = r, !.top = r]]
    /\ UNCHANGED <<readonly, store, rows, crashes>>

\* $agent.select(), which takes no lock: here, below, or nowhere.
SelectHere(c) ==
    /\ call[c].pc = "look" /\ Has(call[c].ring)
    /\ call' = [call EXCEPT ![c].answer = <<"value", store[call[c].ring]>>, ![c].pc = "return"]
    /\ UNCHANGED <<readonly, store, rows, crashes>>

SelectBelow(c) ==
    /\ call[c].pc = "look" /\ ~Has(call[c].ring) /\ call[c].ring > 1
    /\ call' = [call EXCEPT ![c].ring = @ - 1]
    /\ UNCHANGED <<readonly, store, rows, crashes>>

SelectNothing(c) ==
    /\ call[c].pc = "look" /\ ~Has(call[c].ring) /\ call[c].ring = 1
    /\ call' = Answer(c, "value")
    /\ UNCHANGED <<readonly, store, rows, crashes>>

\* Ring.update() or delete() of a ring: the call queues for the row.
StartWrite(c, kind, r) ==
    /\ call[c].pc = "new"
    /\ Lock!Join(Entry(c), r)
    /\ call' = [call EXCEPT ![c] = [NewCall EXCEPT !.kind = kind, !.pc = "wait",
                                                   !.ring = r, !.top = r]]
    /\ UNCHANGED <<readonly, store, crashes>>

\* Mutant of Inside: the row lock is not waited for.
Inside_NoLock(c) == call[c].pc = "wait"

Inside(c) == call[c].pc = "wait" /\ Lock!Holds(Entry(c), call[c].ring)

\* No record here: _move_down(), which keeps the row.
WriteBelow(c) ==
    LET r == call[c].ring IN
    /\ Inside(c) /\ ~Has(r) /\ r > 1
    /\ Lock!Join(Entry(c), r - 1)
    /\ call' = [call EXCEPT ![c].ring = r - 1]
    /\ UNCHANGED <<readonly, store, crashes>>

WriteNothing(c) ==
    /\ Inside(c) /\ ~Has(call[c].ring) /\ call[c].ring = 1
    /\ call' = Answer(c, "nothing")
    /\ UNCHANGED <<readonly, store, rows, crashes>>

\* The record is here: update() reads it and computes the new one, delete() runs
\* __delete__() of the object.
Read(c) ==
    LET r == call[c].ring IN
    /\ Inside(c) /\ Has(r) /\ r \notin readonly
    /\ call' = [call EXCEPT ![c].pc = "save", ![c].record = store[r]]
    /\ UNCHANGED <<readonly, store, rows, crashes>>

Changed(c) == IF call[c].kind = "update" THEN call[c].record \union {c} ELSE Missing

Save(c) ==
    /\ call[c].pc = "save"
    /\ store' = [store EXCEPT ![call[c].ring] = Changed(c)]
    /\ call' = Answer(c, "done")
    /\ UNCHANGED <<readonly, rows, crashes>>

\* The first writable ring among those the request came through.
Writable(c) == {r \in (call[c].ring + 1)..call[c].top : r \notin readonly}

\* _move_up() raises an error, and so does delete() in a read-only ring.
Refuse(c) ==
    /\ Inside(c) /\ Has(call[c].ring) /\ call[c].ring \in readonly
    /\ call[c].kind = "delete" \/ Writable(c) = {}
    /\ call' = Answer(c, "failed")
    /\ UNCHANGED <<readonly, store, rows, crashes>>

\* update() in a read-only ring: the changed record goes up and queues for the
\* row there; all rows on the way stay locked.
MoveUp(c) ==
    /\ Inside(c) /\ Has(call[c].ring) /\ call[c].ring \in readonly
    /\ call[c].kind = "update" /\ Writable(c) # {}
    /\ Lock!Join(Upsaver(c), Min(Writable(c)))
    /\ call' = [call EXCEPT ![c].pc = "upsave", ![c].record = store[call[c].ring]]
    /\ UNCHANGED <<readonly, store, crashes>>

Upsaving(c) == call[c].pc = "upsave" /\ Lock!Holds(Upsaver(c), Min(Writable(c)))

\* $master.upsave(): an error if the ring has the record by now.
Upsave(c) ==
    LET r == Min(Writable(c)) IN
    /\ Upsaving(c)
    /\ store' = IF Has(r) THEN store ELSE [store EXCEPT ![r] = Changed(c)]
    /\ call' = Answer(c, IF Has(r) THEN "failed" ELSE "done")
    /\ Lock!Leave(Upsaver(c), r)
    /\ UNCHANGED <<readonly, crashes>>

\* Mutant of Returning: a block whose part of the call failed keeps the row.
Returning_IfAnswered(c, r) ==
    /\ Lock!Holds(Entry(c), r)
    /\ r = call[c].ring => call[c].pc = "return" /\ call[c].answer[1] # "failed"
    /\ r > call[c].ring => ~Waits(c, r - 1)

\* The block of ring r is done with the call: it answered, or it has the answer
\* of the block below, or that one died.
Returning(c, r) ==
    /\ Lock!Holds(Entry(c), r)
    /\ r = call[c].ring => call[c].pc = "return"
    /\ r > call[c].ring => ~Waits(c, r - 1)

Return(c) == \E r \in Rings :
    /\ Returning(c, r)
    /\ Lock!Leave(Entry(c), r)
    /\ UNCHANGED <<readonly, store, call, crashes>>

End(c) ==
    /\ call[c].pc = "return" /\ \A r \in Rings : ~Waits(c, r)
    /\ call' = [call EXCEPT ![c].pc = "end"]
    /\ UNCHANGED <<readonly, store, rows, crashes>>

\* The process of the block of ring r dies and starts again with new locks.  The
\* calls that are in it now fail; a call that waits for another block goes on
\* there, only the row it held here is free, and an upsave that was sent from
\* here still runs.
Crash(r) ==
    /\ crashes < MaxCrashes
    /\ crashes' = crashes + 1
    /\ rows' = [rows EXCEPT ![r] = <<>>]
    /\ call' = [c \in Calls |->
                  IF \/ call[c].pc \in {"look", "wait", "save"} /\ call[c].ring = r
                     \/ call[c].pc = "upsave" /\ r = Min(Writable(c))
                  THEN [call[c] EXCEPT !.answer = <<"failed", Missing>>, !.pc = "return"]
                  ELSE call[c]]
    /\ UNCHANGED <<readonly, store>>

-----------------------------------------------------------------------------
Step(c) == \/ SelectHere(c) \/ SelectBelow(c) \/ SelectNothing(c)
           \/ WriteBelow(c) \/ WriteNothing(c) \/ Read(c) \/ Save(c)
           \/ Refuse(c) \/ MoveUp(c) \/ Upsave(c) \/ Return(c) \/ End(c)

\* Piles(s)[r]: the copies in rings 1..r if s are the records of the rings, the topmost one first.
Piles(s) == LET pile[r \in 0..NRings] == IF r = 0 THEN <<>>
                                         ELSE IF s[r] = Missing THEN pile[r - 1] ELSE <<s[r]>> \o pile[r - 1]
            IN  pile
copies == Piles(store)[NRings]
Visible == IF copies = <<>> THEN Missing ELSE Head(copies)

Watch == seen' = [c \in Calls |-> IF call'[c].pc # "new" /\ Open(c)
                                  THEN seen[c] \union {Visible'} ELSE seen[c]]

Next == /\ \/ \E c \in Calls :
                 \/ \E r \in Entered : \/ StartSelect(c, r)
                                       \/ \E kind \in {"update", "delete"} : StartWrite(c, kind, r)
                 \/ Step(c)
           \/ \E r \in Rings : Crash(r)
        /\ Watch

Spec == Init /\ [][Next]_vars

\* Blocks go on with the calls they have.
FairSpec == Spec /\ \A c \in Calls : WF_vars(Step(c) /\ Watch)

-----------------------------------------------------------------------------
answer == [c \in Calls |-> call[c].answer]

Objects == INSTANCE ObjectStore

\* Whatever calls overlap and blocks die: an update is applied exactly once to
\* the object as it is then, a failed call leaves no trace, and what select
\* returns is no older than the call.
ImplementsObjectStore == Objects!Spec

\* An upsave that waits for the row of the ring it goes to.
UpsaveWaits(c) == call[c].pc = "upsave" /\ ~Upsaving(c)

\* Row locks are taken from the top down, so calls do not block each other for
\* good: if a call does not end then an upsave waits.
CallsEndUnlessUpsaveWaits ==
    \A c \in Calls : call[c].pc # "new" ~> (call[c].pc = "end" \/ \E d \in Calls : UpsaveWaits(d))
=============================================================================
