---------------------------- MODULE RecordProofs ----------------------------
(* Three invariants of MCRecords: operators and their sequences agree (DerivedSequences), for any number of rings, names, flows,
   operators and events, moving objects is sound (Reinsertion), for any number of rings, objects, lists and edits, and
   accepted edits are accounted for (Session), for any number of flows, records, copies and edits.

   SequencesAgree is not inductive. Its second part, that an operator is served, holds when its creation ends as the array that
   the flow staged for every ring has it and the flow made its sequence and monitor there (StagedExist), unless the array that
   is set missed a change, which makes the ring stale. Nobody else can have removed it by then, since nobody else has seen it
   (CreatedOnce). The third, that nothing is left of an operator removed, says in which rings the removal has passed nothing is
   left so far (RemovedSoFar); the sequence that is found by name is its own if there is no other of the name (SameName). The
   first, that arrays name sequences with a record, needs that a record is deleted only when its array is (Detached).

   MovesAreSound says something only of moves that are done. The records that the scan has passed do not refer to the object
   that is moved, nor any record to those moved before (Unreferenced), for which the data on its way must not either (Carried).
   Edits are in the record that counts (Kept): a copy has those of its object unless this was edited meanwhile (Carried),
   and comes to an id that has none (Targets, Unused), or takes the place of its object in another ring, when the
   records on both sides of the one to be deleted have them (Replaced).

   EditsAccounted says of a record only that its edits come in order. What is on its way to it was made later than these, and
   what is staged later than both (InOrder), as long as one operation for the object is on its way at a time (Alone), and a
   newborn that is inserted has no record and no other copy before its turn (Unborn), since ids are given once (Numbered) and
   a newborn is taken by one save (Newborns). An update waits for its flow, which sends no other before all have ended (Stages).
   An edit leaves the place where it was for the next one, or for those that are dropped with notice (Covered). *)
EXTENDS MCRecords, SequenceTheorems, FiniteSetTheorems, WellFoundedInduction, TLAPS

\* A flow creates an operator, also if it has failed before its session is committed, or removes one.
Rings == Seqs!Rings
Ops == DOMAIN operators
Creates(c) == work[c].pc \in {"derive", "deploy", "commit"} \/ DOMAIN staged[c] # {}
Removes(c) == work[c].pc \in {"find", "detach", "drop", "end"}

\* The types of the variables.
Jobs == [pc : {"idle", "derive", "deploy", "commit", "failed", "find", "detach", "drop", "end"},
         op : Ops \cup {0}, ring : Rings, seen : SUBSET Ops, seq : Ops \cup {0}]
SeqTypes == /\ operators \in Seq([name : OpNames, ring : Rings])
            /\ live \subseteq Ops /\ complete \subseteq Ops /\ gone \subseteq Ops
            /\ derived \in [Rings -> SUBSET Ops] /\ view \in [Rings -> SUBSET Ops]
            /\ DOMAIN staged = Threads
            /\ \A c \in Threads : \A r \in DOMAIN staged[c] : r \in Rings /\ staged[c][r] \subseteq Ops
            /\ \A c \in Threads : DOMAIN staged[c] # {} => work[c].pc \in {"derive", "deploy", "commit", "failed"}
            /\ work \in [Threads -> Jobs]
            /\ \A c \in Threads : work[c].pc # "idle" => work[c].op \in Ops

\* Operators that the processes can see, as the one that is being created cannot be seen yet
Published(o) == \/ o \in complete
                \/ \E r \in Rings : o \in derived[r] \/ o \in view[r]
                \/ \E d \in Threads : \/ o \in work[d].seen
                                      \/ Removes(d) /\ work[d].seq = o
                                      \/ \E r \in DOMAIN staged[d] : o \in staged[d][r] /\ o # work[d].op
CreatedOnce == \A c \in Threads : Creates(c) =>
                  /\ ~Published(work[c].op)
                  /\ \A d \in Threads : Creates(d) /\ work[d].op = work[c].op => d = c

\* The sequences of an operator that is being created, and the rings in which they are
Deployed(c) == /\ \A r \in DOMAIN staged[c] : /\ work[c].op \in staged[c][r]
                                              /\ <<r, work[c].op>> \in sequences
                                              /\ <<r, work[c].op>> \in Seqs!Requested \/ r \in stale
               /\ work[c].pc = "deploy" => <<work[c].ring, work[c].op>> \in sequences
Spans(c) == /\ work[c].pc \in {"derive", "deploy"} => /\ DOMAIN staged[c] = operators[work[c].op].ring .. (work[c].ring - 1)
                                                      /\ operators[work[c].op].ring <= work[c].ring
            /\ work[c].pc = "commit" => DOMAIN staged[c] = operators[work[c].op].ring .. NRings
StagedExist == \A c \in Threads : Deployed(c) /\ Spans(c)

\* A sequence was found by the name of its operator.
SameName == \A c \in Threads : work[c].pc \in {"detach", "drop"} =>
               work[c].seq \in Ops /\ operators[work[c].seq].name = operators[work[c].op].name

\* A record is deleted when the array of the source does not name it.
Detached == \A c \in Threads : work[c].pc = "drop" => work[c].seq \notin derived[work[c].ring] \/ work[c].ring \in stale

\* In the rings that a removal has passed nothing is left of its operator.
Passed(c) == IF work[c].pc = "end" THEN Rings ELSE (work[c].ring + 1) .. NRings
NotCreating(o) == \A c \in Threads : Creates(c) => work[c].op # o
RemovedSoFar ==
    /\ \A c \in Threads : Removes(c) /\ work[c].op \notin missed =>
          /\ work[c].pc # "find" \/ work[c].ring < NRings => NotCreating(work[c].op)
          /\ Seqs!Namesakes(work[c].op) = {} /\ work[c].op \in complete =>
                \A r \in Passed(c) : <<r, work[c].op>> \notin sequences
    /\ \A o \in gone \ missed : NotCreating(o)

\* The inductive invariant.
SeqInv == /\ SeqTypes /\ CreatedOnce /\ StagedExist /\ SameName /\ Detached /\ RemovedSoFar
          /\ Seqs!ArraysLoad /\ Seqs!OperatorsAreServed /\ Seqs!NothingIsLeft

----------------------------------------------------------------------------
\* Rings are numbered from the bottom one.
LEMMA RingsAre == NRings \in Nat \ {0} /\ Rings = 1 .. NRings /\ Seqs!Rings = Rings
  BY RecordsAssumption DEF Seqs!SequencesAssumption, Rings, Seqs!Rings

\* A flow that does nothing.
LEMMA IdleIs == Seqs!Idle \in Jobs /\ Seqs!Idle.pc = "idle" /\ Seqs!Idle.seen = {} /\ Seqs!Idle.seq = 0 /\ Seqs!Idle.op = 0
<1>1. 1 \in Rings /\ {} \in SUBSET Ops /\ 0 \in Ops \cup {0}
  BY RingsAre
<1> QED BY <1>1 DEF Jobs, Seqs!Idle

\* An operator has a name and a ring.
LEMMA OpIs == ASSUME SeqTypes, NEW o \in Ops PROVE operators[o] \in [name : OpNames, ring : Rings] /\ operators[o].ring \in Rings
<1>1. PICK S : S = [name : OpNames, ring : Rings]
  OBVIOUS
<1>2. operators \in Seq(S) /\ o \in DOMAIN operators
  BY <1>1 DEF SeqTypes, Ops
<1>3. operators[o] \in S
  BY <1>2
<1> QED BY <1>1, <1>3

\* What remove_operator() goes on with after a ring.
LEMMA BelowIs == ASSUME NEW j \in Jobs
                 PROVE  /\ Seqs!Below(j) \in Jobs /\ Seqs!Below(j).op = j.op /\ Seqs!Below(j).seen = j.seen /\ Seqs!Below(j).seq = j.seq
                        /\ \/ Seqs!Below(j).pc = "find" /\ Seqs!Below(j).ring = j.ring - 1
                           \/ Seqs!Below(j).pc = "end" /\ Seqs!Below(j).ring = j.ring /\ j.ring = 1
<1>1. j.ring \in Rings /\ (j.ring > 1 => j.ring - 1 \in Rings) /\ (~(j.ring > 1) => j.ring = 1)
  BY RingsAre DEF Jobs
<1> QED BY <1>1 DEF Jobs, Seqs!Below

\* At first there are no operators.
LEMMA SeqInit == ASSUME Seqs!Init PROVE SeqInv
<1> USE RingsAre DEF Seqs!Init, Seqs!Idle
<1>1. SeqTypes
  BY DEF SeqTypes, Jobs, Ops
<1>2. \A c \in Threads : ~Creates(c) /\ ~Removes(c)
  BY DEF Creates, Removes
<1>3. CreatedOnce /\ RemovedSoFar
  BY <1>2 DEF CreatedOnce, RemovedSoFar
<1>4. StagedExist /\ SameName /\ Detached
  BY DEF StagedExist, Deployed, Spans, SameName, Detached
<1> QED BY <1>1, <1>3, <1>4 DEF SeqInv, Seqs!ArraysLoad, Seqs!OperatorsAreServed, Seqs!NothingIsLeft

\* A job goes on, the others stay as they are.
LEMMA Becomes == ASSUME SeqTypes, NEW c \in Threads, NEW j, Seqs!Become(c, j)
                 PROVE  /\ work' = [d \in Threads |-> IF d = c THEN j ELSE work[d]]
                        /\ work'[c] = j
                        /\ \A d \in Threads \ {c} : work'[d] = work[d]
  BY DEF SeqTypes, Seqs!Become

\* NewOperator(): its number is a new one.
LEMMA NewOperatorStep ==
    ASSUME SeqInv, NEW c \in Threads, NEW name \in OpNames, NEW r \in Rings, Seqs!NewOperator(c, name, r)
    PROVE  SeqInv'
<1>1. PICK n \in Nat \ {0} : n = Len(operators) + 1
  BY DEF SeqInv, SeqTypes
<1>2. /\ work[c] = Seqs!Idle
      /\ operators' = Append(operators, [name |-> name, ring |-> r]) /\ live' = live \cup {n}
      /\ UNCHANGED <<sequences, derived, Seqs!Requested, view, staged, complete, gone, stale, missed>>
  BY <1>1 DEF Seqs!NewOperator, Seqs!history, SeqInv, SeqTypes, Seqs!Requested
<1>3. /\ n \notin Ops /\ Ops' = Ops \cup {n} /\ Ops \subseteq Nat
      /\ \A o \in Ops : operators'[o] = operators[o]
      /\ operators' \in Seq([name : OpNames, ring : Rings]) /\ operators'[n] = [name |-> name, ring |-> r]
  BY <1>1, <1>2 DEF SeqInv, SeqTypes, Ops
<1>4. PICK j \in Jobs' : /\ work'[c] = j /\ j.pc = "derive" /\ j.op = n /\ j.ring = r /\ j.seen = {} /\ j.seq = 0
                         /\ work' = [d \in Threads |-> IF d = c THEN j ELSE work[d]]
                         /\ \A d \in Threads \ {c} : work'[d] = work[d]
  <2>1. Seqs!Idle \in Jobs' /\ Seqs!Idle.seen = {} /\ Seqs!Idle.seq = 0
    <3>1. 1 \in Rings' /\ {} \in SUBSET Ops' /\ 0 \in Ops' \cup {0}
      BY RingsAre
    <3> QED BY <3>1 DEF Jobs, Seqs!Idle
  <2> DEFINE j == [Seqs!Idle EXCEPT !.pc = "derive", !.op = n, !.ring = r]
  <2>2. Seqs!Become(c, j)
    BY <1>1, <1>2 DEF Seqs!NewOperator, SeqInv, SeqTypes
  <2>3. j \in Jobs' /\ j.pc = "derive" /\ j.op = n /\ j.ring = r /\ j.seen = {} /\ j.seq = 0
    BY <1>3, <2>1, RingsAre DEF Jobs
  <2> HIDE DEF j
  <2> QED BY <2>2, <2>3, Becomes DEF SeqInv
<1>5. \A d \in Threads : work[d] \in Jobs'
  BY <1>3 DEF SeqInv, SeqTypes, Jobs
<1>6. SeqTypes'
  <2>1. work[c].pc = "idle" /\ DOMAIN staged[c] = {}
    <3>1. work[c].pc = "idle"
      BY <1>2 DEF Seqs!Idle
    <3>2. \A d \in Threads : DOMAIN staged[d] # {} => work[d].pc \in {"derive", "deploy", "commit", "failed"}
      BY Zenon DEF SeqInv, SeqTypes
    <3> QED BY <3>1, <3>2
  <2>2. (work \in [Threads -> Jobs])'
    <3>1. \A d \in Threads : (IF d = c THEN j ELSE work[d]) \in Jobs'
      BY <1>4, <1>5
    <3> QED BY <1>4, <3>1
  <2>3. /\ (live \subseteq Ops /\ complete \subseteq Ops /\ gone \subseteq Ops)'
        /\ (derived \in [Rings -> SUBSET Ops] /\ view \in [Rings -> SUBSET Ops])'
    BY <1>2, <1>3 DEF SeqInv, SeqTypes
  <2>4. /\ (DOMAIN staged = Threads)'
        /\ (\A d \in Threads : \A q \in DOMAIN staged[d] : q \in Rings /\ staged[d][q] \subseteq Ops)'
    BY <1>2, <1>3 DEF SeqInv, SeqTypes
  <2>5. /\ (\A d \in Threads : DOMAIN staged[d] # {} => work[d].pc \in {"derive", "deploy", "commit", "failed"})'
        /\ (\A d \in Threads : work[d].pc # "idle" => work[d].op \in Ops)'
    BY <1>2, <1>3, <1>4, <2>1 DEF SeqInv, SeqTypes
  <2> QED BY <1>3, <2>2, <2>3, <2>4, <2>5 DEF SeqTypes
<1>7. /\ work[c].pc = "idle" /\ DOMAIN staged[c] = {} /\ Creates(c)' /\ ~Removes(c)' /\ ~Creates(c) /\ ~Removes(c)
      /\ \A d \in Threads \ {c} : (Creates(d)' <=> Creates(d)) /\ (Removes(d)' <=> Removes(d))
  BY <1>2, <1>4 DEF SeqInv, SeqTypes, Seqs!Idle, Creates, Removes
<1>8. /\ \A o : Published(o)' => Published(o)
      /\ Published(n) => n = 0
  <2>1. ASSUME NEW o, Published(o)' PROVE Published(o)
    BY <1>2, <1>3, <1>4, <1>7, <2>1 DEF Published
  <2>2. \A d \in Threads : work[d].seen \subseteq Ops /\ (Removes(d) => work[d].seq \in Ops \cup {0})
    BY DEF SeqInv, SeqTypes, Jobs
  <2>3. Published(n) => n = 0
    BY <1>3, <2>2 DEF SeqInv, SeqTypes, Published
  <2> QED BY <2>1, <2>3
<1>9. CreatedOnce'
  <2>1. \A d \in Threads \ {c} : Creates(d) => work[d].op \in Ops
    BY DEF SeqInv, SeqTypes, Creates
  <2>2. ~Published(n)'
    BY <1>1, <1>8
  <2> QED BY <1>3, <1>4, <1>7, <1>8, <2>1, <2>2 DEF SeqInv, CreatedOnce
<1>10. StagedExist'
  <2>1. ASSUME NEW d \in Threads \ {c}
        PROVE  work'[d] = work[d] /\ (work[d].pc \in {"derive", "deploy", "commit"} => work[d].op \in Ops)
    BY <1>4 DEF SeqInv, SeqTypes
  <2>2. r .. (r - 1) = {} /\ r <= r
    BY RingsAre
  <2>3. /\ work'[c].pc = "derive" /\ DOMAIN staged'[c] = {}
        /\ work'[c].op = n /\ work'[c].ring = r
    BY <1>2, <1>4, <1>7
  <2>5. operators'[n].ring = r
    BY <1>3
  <2>4. ASSUME NEW d \in Threads \ {c}, work[d].pc \in {"derive", "deploy", "commit"}
        PROVE  operators'[work'[d].op] = operators[work[d].op]
    BY <1>3, <2>1, <2>4
  <2>6. DOMAIN staged'[c] = operators'[work'[c].op].ring .. (work'[c].ring - 1) /\ operators'[work'[c].op].ring <= work'[c].ring
    BY <2>2, <2>3, <2>5
  <2>7. ASSUME NEW d \in Threads \ {c} PROVE staged'[d] = staged[d]
    BY <1>2
  <2>8. ASSUME NEW d \in Threads \ {c} PROVE Deployed(d)'
    BY <1>2, <2>1, <2>7 DEF SeqInv, StagedExist, Deployed
  <2>9. ASSUME NEW d \in Threads \ {c} PROVE Spans(d)'
    BY <2>1, <2>4, <2>7 DEF SeqInv, StagedExist, Spans
  <2>10. Deployed(c)' /\ Spans(c)'
    BY <2>3, <2>6 DEF Deployed, Spans
  <2> QED BY <2>8, <2>9, <2>10 DEF StagedExist
<1>11. SameName' /\ Detached'
  BY <1>2, <1>3, <1>4 DEF SeqInv, SeqTypes, SameName, Detached, Ops
<1>12. \A o \in Ops : (NotCreating(o)' <=> NotCreating(o)) /\ (Seqs!Namesakes(o)' = {} => Seqs!Namesakes(o) = {})
  BY <1>3, <1>4, <1>7 DEF NotCreating, Seqs!Namesakes, Ops
<1>13. RemovedSoFar'
  <2>1. ASSUME NEW d \in Threads, Removes(d)'
        PROVE  d # c /\ work'[d] = work[d] /\ Removes(d) /\ work[d].op \in Ops
    BY <1>4, <1>7, <2>1 DEF SeqInv, SeqTypes, Removes
  <2>2. ASSUME NEW o \in gone \ missed PROVE o \in Ops
    BY DEF SeqInv, SeqTypes
  <2> QED BY <1>2, <1>12, <2>1, <2>2 DEF SeqInv, RemovedSoFar, Passed
<1>14. \A o \in Ops : o \in Seqs!Removed => o \in Seqs!Removed'
  BY <1>2, <1>3, <1>4, <1>7 DEF Seqs!Removed, Ops
<1>15. Seqs!ArraysLoad' /\ Seqs!OperatorsAreServed' /\ Seqs!NothingIsLeft'
  BY <1>2, <1>3, <1>12, <1>14 DEF SeqInv, SeqTypes, Seqs!ArraysLoad, Seqs!OperatorsAreServed, Seqs!NothingIsLeft, Seqs!Rings
<1> QED BY <1>6, <1>9, <1>10, <1>11, <1>13, <1>15 DEF SeqInv

\* Ring.create_derived(): the sequence of the new operator; the array is read.
LEMMA CreateDerivedStep ==
    ASSUME SeqInv, NEW c \in Threads, Seqs!CreateDerived(c)
    PROVE  SeqInv'
<1>1. PICK o \in Ops, r \in Rings : o = work[c].op /\ r = work[c].ring
  BY DEF SeqInv, SeqTypes, Seqs!CreateDerived, Jobs
<1>2. /\ work[c].pc = "derive" /\ sequences' = sequences \cup {<<r, o>>}
      /\ UNCHANGED <<operators, live, derived, Seqs!Requested, view, staged, complete, gone, stale, missed>>
  BY <1>1 DEF Seqs!CreateDerived, Seqs!history, Seqs!Requested
<1>3. PICK j \in Jobs : /\ work'[c] = j /\ j.pc = "deploy" /\ j.op = o /\ j.ring = r /\ j.seen = view[r] /\ j.seq = work[c].seq
                        /\ work' = [d \in Threads |-> IF d = c THEN j ELSE work[d]]
                        /\ \A d \in Threads \ {c} : work'[d] = work[d]
  <2> DEFINE j == [work[c] EXCEPT !.pc = "deploy", !.seen = view[r]]
  <2>1. Seqs!Become(c, j)
    BY <1>1 DEF Seqs!CreateDerived
  <2>2. j \in Jobs /\ j.pc = "deploy" /\ j.op = o /\ j.ring = r /\ j.seen = view[r] /\ j.seq = work[c].seq
    BY <1>1 DEF SeqInv, SeqTypes, Jobs
  <2> QED BY <2>1, <2>2, Becomes DEF SeqInv
<1>4. Ops' = Ops /\ Jobs' = Jobs
  BY <1>2 DEF Ops, Jobs
<1>5. SeqTypes'
  BY <1>1, <1>2, <1>3, <1>4 DEF SeqInv, SeqTypes
<1>6. /\ Creates(c) /\ Creates(c)' /\ ~Removes(c)' /\ ~Removes(c)
      /\ \A d \in Threads \ {c} : (Creates(d)' <=> Creates(d)) /\ (Removes(d)' <=> Removes(d))
  BY <1>2, <1>3 DEF Creates, Removes
<1>7. /\ \A x : Published(x)' => Published(x)
      /\ \A x \in Ops : NotCreating(x)' <=> NotCreating(x)
      /\ ~Published(o) /\ ~NotCreating(o)
  BY <1>1, <1>2, <1>3, <1>6 DEF SeqInv, Published, CreatedOnce, NotCreating
<1>8. CreatedOnce'
  BY <1>1, <1>3, <1>6, <1>7 DEF SeqInv, CreatedOnce
<1>9. StagedExist'
  BY <1>1, <1>2, <1>3 DEF SeqInv, StagedExist, Deployed, Spans
<1>10. SameName' /\ Detached'
  BY <1>2, <1>3, <1>4 DEF SeqInv, SameName, Detached
<1>11. o \notin complete /\ o \notin gone \ missed
  BY <1>7 DEF SeqInv, RemovedSoFar, Published
<1>12. RemovedSoFar'
  BY <1>1, <1>2, <1>3, <1>6, <1>7, <1>11 DEF SeqInv, SeqTypes, RemovedSoFar, Passed, Removes, Seqs!Namesakes
<1>13. \A x : x \in Seqs!Removed => x \in Seqs!Removed'
  BY <1>2, <1>3 DEF Seqs!Removed
<1>14. Seqs!ArraysLoad' /\ Seqs!OperatorsAreServed' /\ Seqs!NothingIsLeft'
  BY <1>2, <1>11, <1>13 DEF SeqInv, Seqs!ArraysLoad, Seqs!OperatorsAreServed, Seqs!NothingIsLeft, Seqs!Rings, Seqs!Namesakes
<1> QED BY <1>5, <1>8, <1>9, <1>10, <1>12, <1>14 DEF SeqInv

\* What an action that changes neither operators nor the records leaves as it is.
LEMMA SameOps == ASSUME UNCHANGED operators PROVE Ops' = Ops /\ Jobs' = Jobs /\ (\A o : Seqs!Namesakes(o)' = Seqs!Namesakes(o))
  BY DEF Ops, Jobs, Seqs!Namesakes

\* _deploy(): the array to be set is staged.
LEMMA DeployStep ==
    ASSUME SeqInv, NEW c \in Threads, Seqs!Deploy(c)
    PROVE  SeqInv'
<1>1. PICK o \in Ops, r \in Rings, seen \in SUBSET Ops : o = work[c].op /\ r = work[c].ring /\ seen = work[c].seen
  BY DEF SeqInv, SeqTypes, Seqs!Deploy, Jobs
<1>2. /\ work[c].pc = "deploy" /\ Seqs!Requested' = Seqs!Requested \cup {<<r, o>>}
      /\ UNCHANGED <<operators, live, sequences, derived, view, complete, gone, stale, missed>>
  BY <1>1 DEF Seqs!Deploy, Seqs!history, Seqs!Requested
<1>3. /\ DOMAIN staged' = Threads
      /\ staged'[c] = [q \in DOMAIN staged[c] \cup {r} |-> IF q = r THEN seen \cup {o} ELSE staged[c][q]]
      /\ \A d \in Threads \ {c} : staged'[d] = staged[d]
  BY <1>1 DEF Seqs!Deploy, SeqInv, SeqTypes
<1>4. PICK j \in Jobs : /\ work'[c] = j /\ j.op = o /\ j.seen = seen /\ j.seq = work[c].seq
                        /\ IF r < NRings THEN j.pc = "derive" /\ j.ring = r + 1 ELSE j.pc = "commit" /\ j.ring = r
                        /\ work' = [d \in Threads |-> IF d = c THEN j ELSE work[d]]
                        /\ \A d \in Threads \ {c} : work'[d] = work[d]
  <2> DEFINE j == IF r < NRings THEN [work[c] EXCEPT !.pc = "derive", !.ring = @ + 1] ELSE [work[c] EXCEPT !.pc = "commit"]
  <2>1. Seqs!Become(c, j)
    BY <1>1 DEF Seqs!Deploy
  <2>2. r < NRings => r + 1 \in Rings
    BY RingsAre
  <2>3. /\ j \in Jobs /\ j.op = o /\ j.seen = seen /\ j.seq = work[c].seq
        /\ IF r < NRings THEN j.pc = "derive" /\ j.ring = r + 1 ELSE j.pc = "commit" /\ j.ring = r
    BY <1>1, <2>2 DEF SeqInv, SeqTypes, Jobs
  <2> QED BY <2>1, <2>3, Becomes DEF SeqInv
<1>5. Ops' = Ops /\ Jobs' = Jobs
  BY <1>2, SameOps
<1>6. SeqTypes'
  BY <1>1, <1>2, <1>3, <1>4, <1>5 DEF SeqInv, SeqTypes
<1>7. /\ Creates(c) /\ Creates(c)' /\ ~Removes(c)' /\ ~Removes(c)
      /\ \A d \in Threads \ {c} : (Creates(d)' <=> Creates(d)) /\ (Removes(d)' <=> Removes(d))
  BY <1>2, <1>3, <1>4 DEF Creates, Removes
<1>8. /\ \A x : Published(x)' => Published(x)
      /\ \A x \in Ops : NotCreating(x)' <=> NotCreating(x)
  <2>1. ASSUME NEW x, NEW q \in DOMAIN staged'[c], x \in staged'[c][q], x # o PROVE Published(x)
    BY <1>1, <1>3, <2>1 DEF Published
  <2>2. ASSUME NEW x, Published(x)' PROVE Published(x)
    BY <1>1, <1>2, <1>3, <1>4, <1>7, <2>1, <2>2 DEF Published
  <2> QED BY <1>1, <1>4, <1>7, <2>2 DEF NotCreating
<1>9. CreatedOnce'
  BY <1>1, <1>4, <1>7, <1>8 DEF SeqInv, CreatedOnce
<1>10. StagedExist'
  <2>1. ASSUME NEW d \in Threads \ {c} PROVE Deployed(d)' /\ Spans(d)'
    BY <1>2, <1>3, <1>4 DEF SeqInv, StagedExist, Deployed, Spans
  <2>2. Deployed(c)'
    <3>1. work'[c].op = o /\ work'[c].pc # "deploy" /\ <<r, o>> \in sequences'
      BY <1>1, <1>2, <1>4 DEF SeqInv, StagedExist, Deployed
    <3>2. ASSUME NEW q \in DOMAIN staged'[c]
          PROVE  o \in staged'[c][q] /\ <<q, o>> \in sequences' /\ (<<q, o>> \in Seqs!Requested' \/ q \in stale')
      <4>1. CASE q = r
        BY <1>2, <1>3, <3>1, <3>2, <4>1
      <4>2. CASE q # r
        <5>1. q \in DOMAIN staged[c] /\ staged'[c][q] = staged[c][q]
          BY <1>3, <3>2, <4>2
        <5> QED BY <1>1, <1>2, <5>1 DEF SeqInv, StagedExist, Deployed
      <4> QED BY <4>1, <4>2
    <3> QED BY <3>1, <3>2 DEF Deployed
  <2>3. PICK q \in Rings : q = operators[o].ring
    BY <1>1, OpIs DEF SeqInv
  <2>4. DOMAIN staged[c] = q .. (r - 1) /\ q <= r
    BY <1>1, <1>2, <2>3 DEF SeqInv, StagedExist, Spans
  <2>5. DOMAIN staged'[c] = q .. r
    BY <1>3, <2>4, RingsAre
  <2>6. Spans(c)'
    <3>1. CASE r < NRings
      <4>1. work'[c].pc = "derive" /\ work'[c].ring = r + 1 /\ work'[c].op = o /\ operators'[o].ring = q
        BY <1>2, <1>4, <2>3, <3>1
      <4>2. (r + 1) - 1 = r /\ q <= r + 1
        BY <2>4, RingsAre
      <4> QED BY <2>5, <4>1, <4>2 DEF Spans
    <3>2. CASE ~(r < NRings)
      <4>1. work'[c].pc = "commit" /\ work'[c].op = o /\ operators'[o].ring = q /\ r = NRings
        BY <1>2, <1>4, <2>3, <3>2, RingsAre
      <4> QED BY <2>5, <4>1 DEF Spans
    <3> QED BY <3>1, <3>2
  <2> QED BY <2>1, <2>2, <2>6 DEF StagedExist
<1>11. SameName' /\ Detached'
  BY <1>2, <1>4, <1>5 DEF SeqInv, SameName, Detached
<1>12. RemovedSoFar'
  BY <1>2, <1>4, <1>7, <1>8, SameOps DEF SeqInv, SeqTypes, RemovedSoFar, Passed, Removes
<1>13. \A x : x \in Seqs!Removed => x \in Seqs!Removed'
  BY <1>2, <1>4 DEF Seqs!Removed
<1>14. Seqs!ArraysLoad' /\ Seqs!OperatorsAreServed' /\ Seqs!NothingIsLeft'
  BY <1>2, <1>13, SameOps DEF SeqInv, Seqs!ArraysLoad, Seqs!OperatorsAreServed, Seqs!NothingIsLeft, Seqs!Rings
<1> QED BY <1>6, <1>9, <1>10, <1>11, <1>12, <1>14 DEF SeqInv

\* The session is committed: the arrays are set.
LEMMA CommitStep ==
    ASSUME SeqInv, NEW c \in Threads, Seqs!Commit(c)
    PROVE  SeqInv'
<1>1. PICK o \in Ops : o = work[c].op
  BY DEF SeqInv, SeqTypes, Seqs!Commit, Jobs
<1>2. /\ work[c].pc \in {"commit", "failed"}
      /\ UNCHANGED <<operators, live, sequences, Seqs!Requested, view, gone, missed>>
      /\ stale' = stale \cup {r \in DOMAIN staged[c] : staged[c][r] # derived[r] \cup {o}}
      /\ complete' = IF work[c].pc = "commit" THEN complete \cup {o} ELSE complete
  BY <1>1 DEF Seqs!Commit, Seqs!Requested
<1>3. /\ DOMAIN staged' = Threads /\ DOMAIN staged'[c] = {} /\ \A d \in Threads \ {c} : staged'[d] = staged[d]
  BY DEF Seqs!Commit, SeqInv, SeqTypes
<1>4. derived' = [r \in Rings |-> IF r \in DOMAIN staged[c] THEN staged[c][r] ELSE derived[r]]
  BY RingsAre DEF Seqs!Commit
<1>5. /\ Seqs!Idle \in Jobs /\ work' = [d \in Threads |-> IF d = c THEN Seqs!Idle ELSE work[d]] /\ work'[c] = Seqs!Idle
      /\ \A d \in Threads \ {c} : work'[d] = work[d]
  <2>1. Seqs!Become(c, Seqs!Idle)
    BY DEF Seqs!Commit
  <2> QED BY <2>1, Becomes, IdleIs DEF SeqInv
<1>6. Ops' = Ops /\ Jobs' = Jobs
  BY <1>2, SameOps
<1>7. SeqTypes'
  BY <1>1, <1>2, <1>3, <1>4, <1>5, <1>6, IdleIs DEF SeqInv, SeqTypes
<1>8. /\ ~Creates(c)' /\ ~Removes(c)' /\ ~Removes(c) /\ (~Creates(c) => derived' = derived /\ complete' = complete /\ stale' = stale)
      /\ \A d \in Threads \ {c} : (Creates(d)' <=> Creates(d)) /\ (Removes(d)' <=> Removes(d))
  BY <1>2, <1>3, <1>4, <1>5, IdleIs DEF Creates, Removes, SeqInv, SeqTypes
<1>9. /\ \A x : Published(x)' => Published(x) \/ (Creates(c) /\ x = o)
      /\ \A x \in Ops : NotCreating(x) => NotCreating(x)'
  <2>1. ASSUME NEW x, NEW r \in Rings, x \in derived'[r], x # o PROVE Published(x)
    BY <1>1, <1>4, <2>1 DEF Published
  <2>2. ASSUME NEW x, Published(x)', x # o PROVE Published(x)
    BY <1>1, <1>2, <1>3, <1>5, <1>8, <2>1, <2>2, IdleIs DEF Published
  <2>3. ASSUME ~Creates(c), Published(o)' PROVE Published(o)
    BY <1>1, <1>2, <1>3, <1>5, <1>8, <2>3, IdleIs DEF Published
  <2> QED BY <1>3, <1>5, <1>8, <2>2, <2>3 DEF NotCreating
<1>10. CreatedOnce'
  BY <1>1, <1>5, <1>8, <1>9 DEF SeqInv, CreatedOnce
<1>11. StagedExist'
  BY <1>2, <1>3, <1>5, IdleIs DEF SeqInv, StagedExist, Deployed, Spans
<1>12. \A r \in Rings \ stale' : r \notin stale /\ (derived'[r] = derived[r] \/ (derived'[r] = derived[r] \cup {o} /\ r \in DOMAIN staged[c]))
  BY <1>2, <1>4
<1>13. SameName' /\ Detached'
  <2>1. ASSUME NEW d \in Threads, work'[d].pc \in {"detach", "drop"}
        PROVE  work'[d] = work[d] /\ d # c /\ Published(work[d].seq) /\ work[d].ring \in Rings
    BY <1>5, <2>1, IdleIs DEF Published, Removes, SeqInv, SeqTypes, Jobs
  <2>2. SameName'
    BY <1>2, <1>6, <2>1 DEF SeqInv, SameName
  <2>3. ASSUME NEW d \in Threads, work'[d].pc = "drop" PROVE work'[d].seq \notin derived'[work'[d].ring] \/ work'[d].ring \in stale'
    <3>1. work[d].seq = o => ~Creates(c)
      BY <1>1, <2>1, <2>3 DEF SeqInv, CreatedOnce
    <3> QED BY <1>8, <1>12, <2>1, <2>3, <3>1 DEF SeqInv, Detached
  <2> QED BY <2>2, <2>3 DEF Detached
<1>14. RemovedSoFar'
  <2>1. ASSUME NEW d \in Threads, Removes(d)', work'[d].op \notin missed', Seqs!Namesakes(work[d].op)' = {}, work'[d].op \in complete',
               NEW r \in Passed(d)'
        PROVE  <<r, work'[d].op>> \notin sequences'
    <3>1. /\ d # c /\ work'[d] = work[d] /\ Removes(d) /\ work[d].op \notin missed /\ Seqs!Namesakes(work[d].op) = {}
          /\ r \in Passed(d) /\ work[d].ring \in Rings
      <4>1. d # c /\ work'[d] = work[d]
        BY <1>5, <1>8, <2>1
      <4> QED BY <1>2, <1>8, <2>1, <4>1, SameOps DEF Passed, SeqInv, SeqTypes, Jobs
    <3>2. CASE work[d].op \in complete
      BY <1>2, <3>1, <3>2 DEF SeqInv, RemovedSoFar
    <3>3. CASE work[d].op \notin complete
      <4>1. Creates(c) /\ work[d].op = o
        BY <1>2, <2>1, <3>1, <3>3 DEF Creates
      <4>2. ~NotCreating(o)
        BY <1>1, <4>1 DEF NotCreating
      <4>3. work[d].pc = "find" /\ ~(work[d].ring < NRings)
        BY <3>1, <4>1, <4>2 DEF SeqInv, RemovedSoFar
      <4>4. Passed(d) = {}
        BY <3>1, <4>3, RingsAre DEF Passed
      <4> QED BY <3>1, <4>4
    <3> QED BY <3>2, <3>3
  <2>2. ASSUME NEW d \in Threads, Removes(d)', work'[d].op \notin missed', work'[d].pc # "find" \/ work'[d].ring < NRings
        PROVE  NotCreating(work[d].op)'
    <3>1. d # c /\ work'[d] = work[d] /\ Removes(d) /\ work[d].op \notin missed /\ work[d].op \in Ops
      BY <1>2, <1>5, <1>8, <2>2 DEF Removes, SeqInv, SeqTypes
    <3>2. NotCreating(work[d].op)
      BY <2>2, <3>1 DEF SeqInv, RemovedSoFar
    <3> QED BY <1>9, <3>1, <3>2
  <2>3. ASSUME NEW x \in gone' \ missed' PROVE NotCreating(x)'
    BY <1>2, <1>9 DEF SeqInv, SeqTypes, RemovedSoFar
  <2> QED BY <2>1, <2>2, <2>3 DEF RemovedSoFar
<1>15. \A x \in Ops : x \in Seqs!Removed => x \in Seqs!Removed'
  BY <1>2, <1>5 DEF Seqs!Removed
<1>16. Seqs!ArraysLoad'
  <2>1. \A r \in DOMAIN staged[c] : <<r, o>> \in sequences
    BY <1>1 DEF SeqInv, StagedExist, Deployed
  <2> QED BY <1>2, <1>12, <2>1, RingsAre DEF SeqInv, Seqs!ArraysLoad
<1>17. Seqs!OperatorsAreServed'
  <2> SUFFICES ASSUME NEW x \in complete', x \notin (Seqs!Removed \cup missed)', NEW r \in operators'[x].ring .. NRings, r \notin stale',
                      Seqs!Namesakes(x)' = {}
               PROVE  x \in derived'[r] /\ <<r, x>> \in Seqs!Requested'
    BY DEF Seqs!OperatorsAreServed
  <2>1. x \in Ops /\ operators[x].ring \in Rings /\ r \in Rings /\ r \in operators[x].ring .. NRings
    <3>1. x \in Ops
      BY <1>1, <1>2 DEF SeqInv, SeqTypes
    <3>2. PICK q \in Rings : q = operators[x].ring
      BY <3>1, OpIs DEF SeqInv
    <3>3. r \in q .. NRings
      BY <1>2, <3>2
    <3> QED BY <3>1, <3>2, <3>3, RingsAre
  <2>2. CASE x \in complete
    <3>1. x \notin Seqs!Removed \cup missed /\ Seqs!Namesakes(x) = {} /\ r \notin stale
      BY <1>2, <1>15, <2>1, SameOps
    <3>2. x \in derived[r] /\ <<r, x>> \in Seqs!Requested
      BY <2>1, <2>2, <3>1 DEF SeqInv, Seqs!OperatorsAreServed
    <3> QED BY <1>2, <1>12, <2>1, <3>2
  <2>3. CASE x \notin complete
    <3>1. x = o /\ work[c].pc = "commit"
      BY <1>2, <2>3
    <3>2. r \in DOMAIN staged[c]
      BY <1>1, <2>1, <3>1 DEF SeqInv, StagedExist, Spans
    <3>3. o \in staged[c][r] /\ (<<r, o>> \in Seqs!Requested \/ r \in stale)
      BY <1>1, <3>2 DEF SeqInv, StagedExist, Deployed
    <3> QED BY <1>2, <1>4, <2>1, <3>1, <3>2, <3>3
  <2> QED BY <2>2, <2>3
<1>18. Seqs!NothingIsLeft'
  <2> SUFFICES ASSUME NEW x \in gone \cap complete', x \notin missed, Seqs!Namesakes(x)' = {}, NEW r \in Rings PROVE <<r, x>> \notin sequences
    BY <1>2, RingsAre DEF Seqs!NothingIsLeft
  <2>1. x \in complete
    <3>1. NotCreating(x)
      BY DEF SeqInv, RemovedSoFar
    <3>2. Creates(c) => x # o
      BY <1>1, <3>1 DEF NotCreating
    <3> QED BY <1>2, <3>2 DEF Creates
  <2> QED BY <2>1, SameOps, <1>2, RingsAre DEF SeqInv, Seqs!NothingIsLeft
<1> QED BY <1>7, <1>10, <1>11, <1>13, <1>14, <1>16, <1>17, <1>18 DEF SeqInv

\* The caller gives up, or an operation fails; what it did stays.
LEMMA EndStep ==
    ASSUME SeqInv, NEW c \in Threads, Seqs!GiveUp(c) \/ Seqs!Fail(c)
    PROVE  SeqInv'
<1>1. /\ UNCHANGED <<operators, live, sequences, derived, Seqs!Requested, view, complete, gone, stale>>
      /\ work[c].pc \in {"failed", "derive", "deploy", "detach", "drop"}
      /\ missed \subseteq missed' /\ (work[c].pc \in {"detach", "drop"} => work[c].op \in missed')
      /\ \A x \in missed' : x \in missed \/ x = work[c].op
  BY DEF Seqs!GiveUp, Seqs!Fail, Seqs!history, Seqs!Requested
<1>2. /\ DOMAIN staged' = Threads /\ \A d \in Threads \ {c} : staged'[d] = staged[d]
      /\ staged'[c] = staged[c] \/ DOMAIN staged'[c] = {}
  BY DEF SeqInv, SeqTypes, Seqs!GiveUp, Seqs!Fail
<1>3. PICK j \in Jobs : /\ work' = [d \in Threads |-> IF d = c THEN j ELSE work[d]] /\ work'[c] = j
                        /\ \A d \in Threads \ {c} : work'[d] = work[d]
                        /\ \/ j.pc = "idle" /\ j.seen = {} /\ DOMAIN staged'[c] = {}
                           \/ /\ j.pc = "failed" /\ j.op = work[c].op /\ j.seen = work[c].seen /\ j.op \in Ops
                              /\ work[c].pc \in {"derive", "deploy", "detach", "drop"}
  <2>1. CASE Seqs!GiveUp(c)
    <3>1. Seqs!Become(c, Seqs!Idle) /\ DOMAIN staged'[c] = {}
      BY <2>1 DEF Seqs!GiveUp, SeqInv, SeqTypes
    <3> QED BY <3>1, Becomes, IdleIs DEF SeqInv
  <2>2. CASE Seqs!Fail(c)
    <3> DEFINE j == [work[c] EXCEPT !.pc = "failed"]
    <3>1. Seqs!Become(c, j) /\ work[c].pc \in {"derive", "deploy", "detach", "drop"}
      BY <2>2 DEF Seqs!Fail
    <3>2. j \in Jobs /\ j.pc = "failed" /\ j.op = work[c].op /\ j.seen = work[c].seen /\ j.op \in Ops
      <4>1. work[c] \in Jobs /\ work[c].op \in Ops
        BY <3>1 DEF SeqInv, SeqTypes
      <4> QED BY <4>1 DEF Jobs
    <3> HIDE DEF j
    <3> QED BY <3>1, <3>2, Becomes DEF SeqInv
  <2> QED BY <2>1, <2>2
<1>4. Ops' = Ops /\ Jobs' = Jobs
  BY <1>1, SameOps
<1>5. SeqTypes'
  <2>1. (work \in [Threads -> Jobs])'
    BY <1>3, <1>4 DEF SeqInv, SeqTypes
  <2>2. ASSUME NEW d \in Threads
        PROVE  /\ DOMAIN staged'[d] # {} => work'[d].pc \in {"derive", "deploy", "commit", "failed"}
               /\ work'[d].pc # "idle" => work'[d].op \in Ops
               /\ \A r \in DOMAIN staged'[d] : r \in Rings /\ staged'[d][r] \subseteq Ops
    BY <1>2, <1>3 DEF SeqInv, SeqTypes
  <2> QED BY <1>1, <1>2, <1>4, <2>1, <2>2 DEF SeqInv, SeqTypes
<1>6. /\ \A d \in Threads : Creates(d)' => Creates(d) /\ work'[d].op = work[d].op
      /\ \A d \in Threads : Removes(d)' => Removes(d) /\ d # c
  BY <1>2, <1>3 DEF Creates, Removes
<1>7. /\ \A x : Published(x)' => Published(x)
      /\ \A x \in Ops : NotCreating(x) => NotCreating(x)'
  <2>1. ASSUME NEW d \in Threads, NEW r \in DOMAIN staged'[d], NEW x \in staged'[d][r], x # work'[d].op
        PROVE  r \in DOMAIN staged[d] /\ x \in staged[d][r] /\ x # work[d].op
    BY <1>2, <1>3, <2>1
  <2>2. ASSUME NEW d \in Threads, NEW x \in work'[d].seen PROVE x \in work[d].seen
    BY <1>3, <2>2
  <2>3. ASSUME NEW d \in Threads, Removes(d)' PROVE Removes(d) /\ work'[d] = work[d]
    BY <1>3, <1>6, <2>3
  <2>4. ASSUME NEW x, Published(x)' PROVE Published(x)
    BY <1>1, <2>1, <2>2, <2>3, <2>4 DEF Published
  <2> QED BY <1>6, <2>4 DEF NotCreating
<1>8. CreatedOnce'
  BY <1>6, <1>7 DEF SeqInv, CreatedOnce
<1>9. StagedExist'
  <2>1. ASSUME NEW d \in Threads \ {c} PROVE Deployed(d)' /\ Spans(d)'
    BY <1>1, <1>2, <1>3 DEF SeqInv, StagedExist, Deployed, Spans
  <2>2. Deployed(c)' /\ Spans(c)'
    BY <1>1, <1>2, <1>3 DEF SeqInv, StagedExist, Deployed, Spans
  <2> QED BY <2>1, <2>2 DEF StagedExist
<1>10. SameName' /\ Detached'
  BY <1>1, <1>3, <1>4 DEF SeqInv, SameName, Detached
<1>11. RemovedSoFar'
  <2>1. ASSUME NEW d \in Threads, Removes(d)', work'[d].op \notin missed'
        PROVE  /\ work'[d] = work[d] /\ Removes(d) /\ work[d].op \notin missed /\ work[d].op \in Ops
    BY <1>1, <1>3, <1>6, <2>1 DEF SeqInv, SeqTypes, Removes
  <2>2. \A x \in gone : x \in Ops
    BY DEF SeqInv, SeqTypes
  <2> QED BY <1>1, <1>7, <2>1, <2>2, SameOps DEF SeqInv, RemovedSoFar, Passed
<1>12. \A x \in Ops : x \in Seqs!Removed \cup missed => x \in (Seqs!Removed \cup missed)'
  <2>1. ASSUME NEW x \in Ops, NEW d \in Threads, work[d].op = x, work[d].pc \in {"find", "detach", "drop", "end"}
        PROVE  x \in missed' \/ (work'[d].op = x /\ work'[d].pc \in {"find", "detach", "drop", "end"})
    <3>1. CASE d = c
      BY <1>1, <2>1, <3>1
    <3>2. CASE d # c
      BY <1>3, <2>1, <3>2
    <3> QED BY <3>1, <3>2
  <2> QED BY <1>1, <1>4, <2>1 DEF Seqs!Removed, Ops
<1>13. Seqs!ArraysLoad' /\ Seqs!OperatorsAreServed' /\ Seqs!NothingIsLeft'
  BY <1>1, <1>12, SameOps DEF SeqInv, SeqTypes, Seqs!ArraysLoad, Seqs!OperatorsAreServed, Seqs!NothingIsLeft, Seqs!Rings
<1> QED BY <1>5, <1>8, <1>9, <1>10, <1>11, <1>13 DEF SeqInv

\* remove_operator() begins at the top ring.
LEMMA RemoveStep ==
    ASSUME SeqInv, NEW c \in Threads, NEW o \in live, Seqs!Remove(c, o)
    PROVE  SeqInv'
<1>1. /\ work[c] = Seqs!Idle /\ o \in Ops /\ DOMAIN staged[c] = {}
      /\ UNCHANGED <<operators, live, sequences, derived, Seqs!Requested, view, staged, complete, gone, stale, missed>>
  BY IdleIs DEF SeqInv, SeqTypes, Seqs!Remove, Seqs!history, Seqs!Requested
<1>2. PICK j \in Jobs : /\ j.pc = "find" /\ j.op = o /\ j.ring = NRings /\ j.seen = {} /\ j.seq = 0
                        /\ work' = [d \in Threads |-> IF d = c THEN j ELSE work[d]] /\ work'[c] = j
                        /\ \A d \in Threads \ {c} : work'[d] = work[d]
  <2> DEFINE j == [Seqs!Idle EXCEPT !.pc = "find", !.op = o, !.ring = NRings]
  <2>1. Seqs!Become(c, j)
    BY DEF Seqs!Remove
  <2>2. j \in Jobs /\ j.pc = "find" /\ j.op = o /\ j.ring = NRings /\ j.seen = {} /\ j.seq = 0
    <3>1. NRings \in Rings /\ o \in Ops \cup {0}
      BY <1>1, RingsAre
    <3>2. Seqs!Idle \in [pc : {"idle", "derive", "deploy", "commit", "failed", "find", "detach", "drop", "end"},
                         op : Ops \cup {0}, ring : Rings, seen : SUBSET Ops, seq : Ops \cup {0}]
      BY IdleIs DEF Jobs
    <3> QED BY <3>1, <3>2, IdleIs DEF Jobs
  <2> HIDE DEF j
  <2> QED BY <2>1, <2>2, Becomes DEF SeqInv
<1>3. Ops' = Ops /\ Jobs' = Jobs
  BY <1>1, SameOps
<1>4. SeqTypes'
  BY <1>1, <1>2, <1>3 DEF SeqInv, SeqTypes
<1>5. /\ ~Creates(c) /\ ~Creates(c)' /\ Removes(c)'
      /\ \A d \in Threads \ {c} : (Creates(d)' <=> Creates(d)) /\ (Removes(d)' <=> Removes(d))
  BY <1>1, <1>2, IdleIs DEF Creates, Removes
<1>6. /\ \A x \in Ops : Published(x)' => Published(x)
      /\ \A x \in Ops : NotCreating(x)' <=> NotCreating(x)
  <2>1. 0 \notin Ops
    BY DEF SeqInv, SeqTypes, Ops
  <2> QED BY <1>1, <1>2, <1>5, <2>1 DEF Published, NotCreating
<1>7. CreatedOnce'
  <2>1. \A d \in Threads \ {c} : Creates(d) => work[d].op \in Ops
    BY DEF SeqInv, SeqTypes, Creates
  <2> QED BY <1>2, <1>5, <1>6, <2>1 DEF SeqInv, CreatedOnce
<1>8. StagedExist'
  BY <1>1, <1>2 DEF SeqInv, StagedExist, Deployed, Spans
<1>9. SameName' /\ Detached'
  BY <1>1, <1>2, <1>3 DEF SeqInv, SameName, Detached
<1>10. RemovedSoFar'
  <2>1. Passed(c)' = {}
    BY <1>2, RingsAre DEF Passed
  <2>2. ASSUME NEW d \in Threads \ {c}, Removes(d)' PROVE work'[d] = work[d] /\ Removes(d) /\ work[d].op \in Ops
    BY <1>2, <1>5, <2>2 DEF SeqInv, SeqTypes, Removes
  <2>3. \A x \in gone : x \in Ops
    BY DEF SeqInv, SeqTypes
  <2>4. work'[c].pc = "find" /\ ~(work'[c].ring < NRings)
    BY <1>2, RingsAre
  <2>5. ASSUME NEW d \in Threads \ {c} PROVE Passed(d)' = Passed(d)
    BY <1>2 DEF Passed
  <2> QED BY <1>1, <1>6, <2>1, <2>2, <2>3, <2>4, <2>5, SameOps DEF SeqInv, RemovedSoFar
<1>11. \A x \in Ops : x \in Seqs!Removed => x \in Seqs!Removed'
  BY <1>1, <1>2, IdleIs DEF Seqs!Removed
<1>12. Seqs!ArraysLoad' /\ Seqs!OperatorsAreServed' /\ Seqs!NothingIsLeft'
  BY <1>1, <1>11, SameOps DEF SeqInv, SeqTypes, Seqs!ArraysLoad, Seqs!OperatorsAreServed, Seqs!NothingIsLeft, Seqs!Rings
<1> QED BY <1>4, <1>7, <1>8, <1>9, <1>10, <1>12 DEF SeqInv

\* remove_operator() looks for a sequence of the name in the next ring.
LEMMA FindStep ==
    ASSUME SeqInv, NEW c \in Threads, Seqs!Find(c)
    PROVE  SeqInv'
<1> DEFINE found == Seqs!Named(operators[work[c].op].name, view[work[c].ring])
<1>1. PICK o \in Ops, r \in Rings : o = work[c].op /\ r = work[c].ring
  <2>1. /\ work \in [Threads -> Jobs]
        /\ \A d \in Threads : work[d].pc # "idle" => work[d].op \in Ops
    BY Zenon DEF SeqInv, SeqTypes
  <2>2. work[c].pc = "find"
    BY DEF Seqs!Find
  <2> QED BY <2>1, <2>2 DEF Jobs
<1>2. /\ work[c].pc = "find"
      /\ UNCHANGED <<operators, live, sequences, derived, Seqs!Requested, view, staged, complete, gone, stale>>
      /\ missed \subseteq missed'
      /\ o \notin missed' => o \in found \/ (o \in complete /\ <<r, o>> \notin sequences)
  BY <1>1 DEF Seqs!Find, Seqs!Requested
<1>3. \A x \in found : x \in view[r] /\ x \in Ops /\ operators[x].name = operators[o].name
  <2>1. view[r] \subseteq Ops
    <3>1. view \in [Rings -> SUBSET Ops]
      BY Zenon DEF SeqInv, SeqTypes
    <3> QED BY <1>1, <3>1
  <2> QED BY <1>1, <2>1 DEF Seqs!Named
<1>4. PICK j \in Jobs : /\ j.op = o /\ j.seen = work[c].seen
                        /\ work' = [d \in Threads |-> IF d = c THEN j ELSE work[d]] /\ work'[c] = j
                        /\ \A d \in Threads \ {c} : work'[d] = work[d]
                        /\ \/ j.pc = "detach" /\ j.ring = r /\ j.seq \in found
                           \/ j.pc = "find" /\ j.ring = r - 1 /\ j.seq = work[c].seq /\ found = {}
                           \/ j.pc = "end" /\ j.ring = r /\ r = 1 /\ j.seq = work[c].seq /\ found = {}
  <2>1. work[c] \in Jobs
    <3>1. SeqTypes
      BY DEF SeqInv
    <3> QED BY <3>1 DEF SeqTypes
  <2>2. CASE \E s \in found : Seqs!Become(c, [work[c] EXCEPT !.pc = "detach", !.seq = s])
    <3>1. PICK s \in found : Seqs!Become(c, [work[c] EXCEPT !.pc = "detach", !.seq = s])
      BY <2>2
    <3> DEFINE j == [work[c] EXCEPT !.pc = "detach", !.seq = s]
    <3>2. j \in Jobs /\ j.op = o /\ j.seen = work[c].seen /\ j.pc = "detach" /\ j.ring = r /\ j.seq \in found
      BY <1>1, <1>3, <2>1 DEF Jobs
    <3>3. Seqs!Become(c, j)
      BY <3>1
    <3> HIDE DEF j
    <3> QED BY <3>2, <3>3, Becomes DEF SeqInv
  <2>3. CASE found = {} /\ Seqs!Become(c, Seqs!Below(work[c]))
    <3> DEFINE j == Seqs!Below(work[c])
    <3>1. j \in Jobs /\ j.op = o /\ j.seen = work[c].seen /\ j.seq = work[c].seq
          /\ ((j.pc = "find" /\ j.ring = r - 1) \/ (j.pc = "end" /\ j.ring = r /\ r = 1))
      BY <1>1, <2>1, BelowIs
    <3> HIDE DEF j
    <3> QED BY <2>3, <3>1, Becomes DEF SeqInv, j
  <2> QED BY <2>2, <2>3 DEF Seqs!Find
<1>5. Ops' = Ops /\ Jobs' = Jobs
  BY <1>2, SameOps
<1>6. SeqTypes'
  BY <1>1, <1>2, <1>4, <1>5 DEF SeqInv, SeqTypes
<1>7. /\ Removes(c) /\ Removes(c)' /\ ~Creates(c)
      /\ \A d \in Threads : Creates(d)' <=> Creates(d)
      /\ \A d \in Threads \ {c} : Removes(d)' <=> Removes(d)
  BY <1>2, <1>4 DEF Creates, Removes, SeqInv, SeqTypes
<1>8. /\ \A x : Published(x)' => Published(x)
      /\ \A x \in Ops : NotCreating(x)' <=> NotCreating(x)
  <2>1. work'[c].op = work[c].op /\ work'[c].seen = work[c].seen
    BY <1>1, <1>4
  <2>2. Published(work'[c].seq) \/ work'[c].seq = work[c].seq
    BY <1>1, <1>3, <1>4 DEF Published
  <2>3. \A d \in Threads \ {c} : work'[d] = work[d]
    BY <1>4
  <2>4. ASSUME NEW x, Published(x)' PROVE Published(x)
    BY <1>2, <1>7, <2>1, <2>2, <2>3, <2>4 DEF Published
  <2> QED BY <1>7, <2>1, <2>3, <2>4 DEF NotCreating
<1>9. CreatedOnce'
  BY <1>4, <1>7, <1>8 DEF SeqInv, CreatedOnce
<1>10. StagedExist'
  <2>1. \A d \in Threads : work'[d].op = work[d].op
    BY <1>1, <1>4
  <2>2. ASSUME NEW d \in Threads, work'[d].pc \in {"derive", "deploy", "commit"} PROVE work'[d] = work[d]
    BY <1>4, <2>2
  <2>3. ASSUME NEW d \in Threads PROVE Deployed(d)' /\ Spans(d)'
    BY <1>2, <2>1, <2>2 DEF SeqInv, StagedExist, Deployed, Spans
  <2> QED BY <2>3 DEF StagedExist
<1>11. SameName' /\ Detached'
  <2>1. ASSUME NEW d \in Threads \ {c} PROVE work'[d] = work[d]
    BY <1>4
  <2>2. work'[c].pc # "drop" /\ (work'[c].pc = "detach" => work'[c].seq \in found /\ work'[c].op = o)
    BY <1>4
  <2> QED BY <1>2, <1>3, <1>5, <2>1, <2>2 DEF SeqInv, SameName, Detached
<1>12. RemovedSoFar'
  <2>1. ASSUME NEW d \in Threads \ {c}, Removes(d)', work'[d].op \notin missed'
        PROVE  /\ work'[d] = work[d] /\ Removes(d) /\ work[d].op \notin missed /\ work[d].op \in Ops /\ Passed(d)' = Passed(d)
    BY <1>2, <1>4, <1>7, <2>1 DEF SeqInv, SeqTypes, Removes, Passed
  <2>2. ASSUME NEW d \in Threads \ {c}, Removes(d)', work'[d].op \notin missed'
        PROVE  /\ work'[d].pc # "find" \/ work'[d].ring < NRings => NotCreating(work[d].op)'
               /\ Seqs!Namesakes(work[d].op)' = {} /\ work'[d].op \in complete' =>
                     \A q \in Passed(d)' : <<q, work'[d].op>> \notin sequences'
    BY <1>2, <1>8, <2>1, <2>2, SameOps DEF SeqInv, RemovedSoFar
  <2>3. ASSUME o \notin missed' PROVE NotCreating(o)'
    <3>1. Published(o)
      BY <1>1, <1>2, <1>3, <2>3 DEF Published
    <3>2. NotCreating(o)
      BY <1>1, <3>1 DEF SeqInv, CreatedOnce, NotCreating
    <3> QED BY <1>8, <3>2
  <2>4. ASSUME o \notin missed', Seqs!Namesakes(o)' = {}, o \in complete, NEW q \in Passed(c)'
        PROVE  <<q, o>> \notin sequences
    <3>1. \A p \in (r + 1) .. NRings : <<p, o>> \notin sequences
      BY <1>1, <1>2, <1>7, <2>4, SameOps DEF SeqInv, RemovedSoFar, Passed
    <3>2. CASE found = {}
      <4>1. <<r, o>> \notin sequences
        BY <1>2, <2>4, <3>2
      <4>2. q \in r .. NRings
        <5>1. CASE work'[c].pc = "find" /\ work'[c].ring = r - 1
          <6>1. q \in ((r - 1) + 1) .. NRings
            BY <5>1, <2>4 DEF Passed
          <6> QED BY <6>1, RingsAre
        <5>2. CASE work'[c].pc = "end" /\ r = 1
          BY <5>2, <2>4, RingsAre DEF Passed
        <5> QED BY <1>4, <3>2, <5>1, <5>2
      <4>3. q = r \/ q \in (r + 1) .. NRings
        BY <4>2, RingsAre
      <4> QED BY <3>1, <4>1, <4>3
    <3>3. CASE found # {}
      <4>1. work'[c].pc = "detach" /\ work'[c].ring = r
        BY <1>4, <3>3
      <4> QED BY <2>4, <3>1, <4>1 DEF Passed
    <3> QED BY <3>2, <3>3
  <2>5. work'[c].op = o /\ work[c].op = o
    BY <1>1, <1>4
  <2>6. ASSUME NEW x \in gone' \ missed' PROVE NotCreating(x)'
    BY <1>2, <1>8 DEF SeqInv, SeqTypes, RemovedSoFar
  <2> QED BY <1>2, <2>2, <2>3, <2>4, <2>5, <2>6 DEF RemovedSoFar
<1>13. \A x \in Ops : x \in Seqs!Removed => x \in Seqs!Removed'
  BY <1>1, <1>2, <1>4, <1>5 DEF Seqs!Removed, Ops
<1>14. Seqs!ArraysLoad' /\ Seqs!OperatorsAreServed' /\ Seqs!NothingIsLeft'
  BY <1>2, <1>13, SameOps DEF SeqInv, SeqTypes, Seqs!ArraysLoad, Seqs!OperatorsAreServed, Seqs!NothingIsLeft, Seqs!Rings
<1> QED BY <1>6, <1>9, <1>10, <1>11, <1>12, <1>14 DEF SeqInv

\* __delete__() of a sequence: it leaves the array of its source, which feeds it no more.
LEMMA DetachStep ==
    ASSUME SeqInv, NEW c \in Threads, Seqs!Detach(c)
    PROVE  SeqInv'
<1>1. PICK o \in Ops, s \in Ops, r \in Rings : o = work[c].op /\ s = work[c].seq /\ r = work[c].ring
  BY DEF SeqInv, SeqTypes, SameName, Seqs!Detach, Jobs
<1>2. /\ work[c].pc = "detach"
      /\ UNCHANGED <<operators, live, sequences, view, staged, complete, gone, stale, missed>>
      /\ \/ <<r, s>> \in sequences /\ derived' = [derived EXCEPT ![r] = @ \ {s}]
         \/ <<r, s>> \notin sequences /\ derived' = derived
      /\ Seqs!Requested \subseteq Seqs!Requested' \cup {<<r, s>>}
  BY <1>1 DEF Seqs!Detach, Seqs!history, Seqs!RmvDerived, Seqs!RemoveMonitor, Seqs!Requested
<1>3. /\ derived' \in [Rings -> SUBSET Ops]
      /\ \A q \in Rings : \A x \in derived'[q] : x \in derived[q]
      /\ \A q \in Rings : \A x \in derived[q] : x \in derived'[q] \/ (q = r /\ x = s)
      /\ \A q, x : <<q, x>> \in Seqs!Requested => <<q, x>> \in Seqs!Requested' \/ (q = r /\ x = s)
      /\ <<r, s>> \in sequences => s \notin derived'[r]
  BY <1>1, <1>2 DEF SeqInv, SeqTypes
<1>4. PICK j \in Jobs : /\ j.op = o /\ j.seen = work[c].seen /\ j.pc = "drop" /\ j.ring = r /\ j.seq = s
                        /\ work' = [d \in Threads |-> IF d = c THEN j ELSE work[d]] /\ work'[c] = j
                        /\ \A d \in Threads \ {c} : work'[d] = work[d]
  <2> DEFINE j == [work[c] EXCEPT !.pc = "drop"]
  <2>1. j \in Jobs /\ j.op = o /\ j.seen = work[c].seen /\ j.pc = "drop" /\ j.ring = r /\ j.seq = s
    BY <1>1 DEF SeqInv, SeqTypes, Jobs
  <2>2. Seqs!Become(c, j)
    BY DEF Seqs!Detach
  <2> HIDE DEF j
  <2> QED BY <2>1, <2>2, Becomes DEF SeqInv
<1>5. Ops' = Ops /\ Jobs' = Jobs
  BY <1>2, SameOps
<1>6. SeqTypes'
  BY <1>1, <1>2, <1>3, <1>4, <1>5 DEF SeqInv, SeqTypes
<1>7. /\ Removes(c) /\ Removes(c)' /\ ~Creates(c)
      /\ \A d \in Threads : Creates(d)' <=> Creates(d)
      /\ \A d \in Threads \ {c} : Removes(d)' <=> Removes(d)
  BY <1>2, <1>4 DEF Creates, Removes, SeqInv, SeqTypes
<1>8. /\ \A x : Published(x)' => Published(x)
      /\ \A x \in Ops : NotCreating(x)' <=> NotCreating(x)
      /\ Published(s)
  <2>1. \A d \in Threads : work'[d].op = work[d].op /\ work'[d].seen = work[d].seen /\ work'[d].seq = work[d].seq
    BY <1>1, <1>4
  <2>2. \A d \in Threads : Removes(d)' <=> Removes(d)
    BY <1>7
  <2>3. ASSUME NEW x, Published(x)' PROVE Published(x)
    BY <1>2, <1>3, <2>1, <2>2, <2>3 DEF Published
  <2> QED BY <1>1, <1>7, <2>1, <2>3 DEF NotCreating, Published
<1>9. CreatedOnce'
  BY <1>4, <1>7, <1>8 DEF SeqInv, CreatedOnce
<1>10. StagedExist'
  <2>1. \A d \in Threads : work'[d].op = work[d].op
    BY <1>1, <1>4
  <2>2. ASSUME NEW d \in Threads, work'[d].pc \in {"derive", "deploy", "commit"} PROVE work'[d] = work[d]
    BY <1>4, <2>2
  <2>3. \A d \in Threads : DOMAIN staged[d] # {} => work[d].op # s
    BY <1>8 DEF SeqInv, CreatedOnce, Creates
  <2>4. ASSUME NEW d \in Threads PROVE Deployed(d)' /\ Spans(d)'
    BY <1>2, <1>3, <2>1, <2>2, <2>3 DEF SeqInv, StagedExist, Deployed, Spans
  <2> QED BY <2>4 DEF StagedExist
<1>11. SameName' /\ Detached'
  <2>1. ASSUME NEW d \in Threads \ {c} PROVE work'[d] = work[d]
    BY <1>4
  <2>2. SameName'
    BY <1>1, <1>2, <1>4, <1>5, <2>1 DEF SeqInv, SameName
  <2>3. s \notin derived'[r] \/ r \in stale
    BY <1>1, <1>2, <1>3, RingsAre DEF SeqInv, Seqs!ArraysLoad
  <2>4. ASSUME NEW d \in Threads PROVE work[d].ring \in Rings
    BY DEF SeqInv, SeqTypes, Jobs
  <2>5. Detached'
    BY <1>2, <1>3, <1>4, <2>1, <2>3, <2>4 DEF SeqInv, Detached
  <2> QED BY <2>2, <2>5
<1>12. RemovedSoFar'
  <2>1. ASSUME NEW d \in Threads, Removes(d)'
        PROVE  /\ work'[d].op = work[d].op /\ Removes(d) /\ work[d].op \in Ops /\ Passed(d)' = Passed(d)
               /\ work'[d].pc # "find" => work[d].pc # "find"
               /\ work'[d].ring = work[d].ring
    BY <1>1, <1>2, <1>4, <1>7, <2>1 DEF SeqInv, SeqTypes, Removes, Passed
  <2>2. \A x \in gone : x \in Ops
    BY DEF SeqInv, SeqTypes
  <2> QED BY <1>2, <1>8, <2>1, <2>2, SameOps DEF SeqInv, RemovedSoFar
<1>13. \A x \in Ops : (x \in Seqs!Removed => x \in Seqs!Removed') /\ (x = o => x \in Seqs!Removed)
  BY <1>1, <1>2, <1>4, <1>5 DEF Seqs!Removed, Ops
<1>14. Seqs!ArraysLoad' /\ Seqs!NothingIsLeft'
  BY <1>2, <1>3, SameOps, RingsAre DEF SeqInv, Seqs!ArraysLoad, Seqs!NothingIsLeft
<1>15. Seqs!OperatorsAreServed'
  <2> SUFFICES ASSUME NEW x \in complete', x \notin (Seqs!Removed \cup missed)', NEW q \in operators'[x].ring .. NRings, q \notin stale',
                      Seqs!Namesakes(x)' = {}
               PROVE  x \in derived'[q] /\ <<q, x>> \in Seqs!Requested'
    BY DEF Seqs!OperatorsAreServed
  <2>1. x \in Ops /\ x \in complete /\ x \notin Seqs!Removed \cup missed /\ Seqs!Namesakes(x) = {} /\ q \notin stale
    BY <1>2, <1>13, SameOps DEF SeqInv, SeqTypes
  <2>2. x \in derived[q] /\ <<q, x>> \in Seqs!Requested
    BY <1>2, <2>1 DEF SeqInv, Seqs!OperatorsAreServed
  <2>3. q \in Rings
    <3>1. PICK p \in Rings : p = operators[x].ring
      BY <2>1, OpIs DEF SeqInv
    <3>2. q \in p .. NRings
      BY <1>2, <3>1
    <3> QED BY <3>2, RingsAre
  <2>4. x # s
    <3>1. x = s => x # o /\ operators[x].name = operators[o].name
      BY <1>1, <1>2, <1>13, <2>1 DEF SeqInv, SameName
    <3>2. o \in Seqs!Namesakes(s) \/ s = o \/ operators[o].name # operators[s].name
      BY <1>1 DEF Seqs!Namesakes, Ops
    <3> QED BY <2>1, <3>1, <3>2
  <2> QED BY <1>3, <2>2, <2>3, <2>4
<1> QED BY <1>6, <1>9, <1>10, <1>11, <1>12, <1>14, <1>15 DEF SeqInv

\* The record of the sequence is deleted.
LEMMA DropStep ==
    ASSUME SeqInv, NEW c \in Threads, Seqs!Drop(c)
    PROVE  SeqInv'
<1>1. PICK o \in Ops, s \in Ops, r \in Rings : o = work[c].op /\ s = work[c].seq /\ r = work[c].ring
  BY DEF SeqInv, SeqTypes, SameName, Seqs!Drop, Jobs
<1>2. /\ work[c].pc = "drop" /\ sequences' = sequences \ {<<r, s>>}
      /\ UNCHANGED <<operators, live, derived, Seqs!Requested, view, staged, complete, gone, stale, missed>>
  BY <1>1 DEF Seqs!Drop, Seqs!history, Seqs!Requested
<1>3. PICK j \in Jobs : /\ j.op = o /\ j.seen = work[c].seen /\ j.seq = s
                        /\ work' = [d \in Threads |-> IF d = c THEN j ELSE work[d]] /\ work'[c] = j
                        /\ \A d \in Threads \ {c} : work'[d] = work[d]
                        /\ \/ j.pc = "find" /\ j.ring = r - 1
                           \/ j.pc = "end" /\ j.ring = r /\ r = 1
  <2> DEFINE j == Seqs!Below(work[c])
  <2>1. work[c] \in Jobs
    BY DEF SeqInv, SeqTypes
  <2>2. j \in Jobs /\ j.op = o /\ j.seen = work[c].seen /\ j.seq = s
        /\ ((j.pc = "find" /\ j.ring = r - 1) \/ (j.pc = "end" /\ j.ring = r /\ r = 1))
    BY <1>1, <2>1, BelowIs
  <2>3. Seqs!Become(c, j)
    BY DEF Seqs!Drop
  <2> HIDE DEF j
  <2> QED BY <2>2, <2>3, Becomes DEF SeqInv
<1>4. Ops' = Ops /\ Jobs' = Jobs
  BY <1>2, SameOps
<1>5. SeqTypes'
  BY <1>1, <1>2, <1>3, <1>4 DEF SeqInv, SeqTypes
<1>6. /\ Removes(c) /\ Removes(c)' /\ ~Creates(c)
      /\ \A d \in Threads : Creates(d)' <=> Creates(d)
      /\ \A d \in Threads \ {c} : Removes(d)' <=> Removes(d)
  BY <1>2, <1>3 DEF Creates, Removes, SeqInv, SeqTypes
<1>7. /\ \A x : Published(x)' => Published(x)
      /\ \A x \in Ops : NotCreating(x)' <=> NotCreating(x)
      /\ Published(s)
  <2>1. \A d \in Threads : work'[d].op = work[d].op /\ work'[d].seen = work[d].seen /\ work'[d].seq = work[d].seq
    BY <1>1, <1>3
  <2>2. \A d \in Threads : Removes(d)' <=> Removes(d)
    BY <1>6
  <2>3. ASSUME NEW x, Published(x)' PROVE Published(x)
    BY <1>2, <2>1, <2>2, <2>3 DEF Published
  <2> QED BY <1>1, <1>6, <2>1, <2>3 DEF NotCreating, Published
<1>8. CreatedOnce'
  BY <1>3, <1>6, <1>7 DEF SeqInv, CreatedOnce
<1>9. StagedExist'
  <2>1. \A d \in Threads : work'[d].op = work[d].op
    BY <1>1, <1>3
  <2>2. ASSUME NEW d \in Threads, work'[d].pc \in {"derive", "deploy", "commit"} PROVE work'[d] = work[d]
    BY <1>3, <2>2
  <2>3. \A d \in Threads : Creates(d) => work[d].op # s
    BY <1>7 DEF SeqInv, CreatedOnce
  <2>4. ASSUME NEW d \in Threads PROVE Deployed(d)'
    <3>1. \A q \in DOMAIN staged[d] : work[d].op # s
      BY <2>3 DEF Creates
    <3>2. work[d].pc = "deploy" => work[d].op # s
      BY <2>3 DEF Creates
    <3> QED BY <1>2, <2>1, <2>2, <3>1, <3>2 DEF SeqInv, StagedExist, Deployed
  <2>5. ASSUME NEW d \in Threads PROVE Spans(d)'
    BY <1>2, <2>1, <2>2 DEF SeqInv, StagedExist, Spans
  <2> QED BY <2>4, <2>5 DEF StagedExist
<1>10. SameName' /\ Detached'
  <2>1. ASSUME NEW d \in Threads, work'[d].pc \in {"detach", "drop"} PROVE work'[d] = work[d]
    BY <1>3, <2>1
  <2> QED BY <1>2, <1>4, <2>1 DEF SeqInv, SameName, Detached
<1>11. RemovedSoFar'
  <2>1. ASSUME NEW d \in Threads \ {c}, Removes(d)'
        PROVE  /\ work'[d] = work[d] /\ Removes(d) /\ work[d].op \in Ops /\ Passed(d)' = Passed(d)
    BY <1>3, <1>6, <2>1 DEF SeqInv, SeqTypes, Removes, Passed
  <2>2. ASSUME NEW d \in Threads \ {c}, Removes(d)', work'[d].op \notin missed'
        PROVE  /\ work'[d].pc # "find" \/ work'[d].ring < NRings => NotCreating(work[d].op)'
               /\ Seqs!Namesakes(work[d].op)' = {} /\ work'[d].op \in complete' =>
                     \A q \in Passed(d)' : <<q, work'[d].op>> \notin sequences'
    BY <1>2, <1>7, <2>1, <2>2, SameOps DEF SeqInv, RemovedSoFar
  <2>3. ASSUME o \notin missed PROVE NotCreating(o)'
    BY <1>1, <1>2, <1>6, <1>7, <2>3 DEF SeqInv, RemovedSoFar
  <2>4. ASSUME o \notin missed, Seqs!Namesakes(o)' = {}, o \in complete, NEW q \in Passed(c)' PROVE <<q, o>> \notin sequences'
    <3>1. \A p \in (r + 1) .. NRings : <<p, o>> \notin sequences
      BY <1>1, <1>2, <1>6, <2>4, SameOps DEF SeqInv, RemovedSoFar, Passed
    <3>2. s = o
      <4>1. s # o => s \in Seqs!Namesakes(o)
        BY <1>1, <1>2 DEF SeqInv, SameName, Seqs!Namesakes, Ops
      <4> QED BY <2>4, <4>1, <1>2, SameOps
    <3>3. q \in r .. NRings
      <4>1. CASE work'[c].pc = "find" /\ work'[c].ring = r - 1
        <5>1. q \in ((r - 1) + 1) .. NRings
          BY <4>1, <2>4 DEF Passed
        <5> QED BY <5>1, RingsAre
      <4>2. CASE work'[c].pc = "end" /\ r = 1
        BY <4>2, <2>4, RingsAre DEF Passed
      <4> QED BY <1>3, <4>1, <4>2
    <3>4. q = r \/ q \in (r + 1) .. NRings
      BY <3>3, RingsAre
    <3> QED BY <1>2, <3>1, <3>2, <3>4
  <2>5. work'[c].op = o /\ work[c].op = o
    BY <1>1, <1>3
  <2>6. ASSUME NEW x \in gone' \ missed' PROVE NotCreating(x)'
    BY <1>2, <1>7 DEF SeqInv, SeqTypes, RemovedSoFar
  <2> QED BY <1>2, <2>2, <2>3, <2>4, <2>5, <2>6 DEF RemovedSoFar
<1>12. \A x \in Ops : x \in Seqs!Removed => x \in Seqs!Removed'
  BY <1>1, <1>2, <1>3, <1>4 DEF Seqs!Removed, Ops
<1>13. Seqs!ArraysLoad'
  <2>1. s \notin derived[r] \/ r \in stale
    BY <1>1, <1>2 DEF SeqInv, Detached
  <2> QED BY <1>2, <2>1 DEF SeqInv, Seqs!ArraysLoad
<1>14. Seqs!OperatorsAreServed' /\ Seqs!NothingIsLeft'
  BY <1>2, <1>12, SameOps DEF SeqInv, SeqTypes, Seqs!OperatorsAreServed, Seqs!NothingIsLeft, Seqs!Rings
<1> QED BY <1>5, <1>8, <1>9, <1>10, <1>11, <1>13, <1>14 DEF SeqInv

\* The record of the operator is deleted, after the sequences in all rings.
LEMMA DeleteOperatorStep ==
    ASSUME SeqInv, NEW c \in Threads, Seqs!DeleteOperator(c)
    PROVE  SeqInv'
<1>1. PICK o \in Ops : o = work[c].op
  BY DEF SeqInv, SeqTypes, Seqs!DeleteOperator
<1>2. /\ work[c].pc = "end" /\ gone' = gone \cup {o} /\ live' = live \ {o} /\ DOMAIN staged[c] = {}
      /\ UNCHANGED <<operators, sequences, derived, Seqs!Requested, view, staged, complete, stale, missed>>
  BY <1>1 DEF Seqs!DeleteOperator, SeqInv, SeqTypes, Seqs!Requested
<1>3. PICK j \in Jobs : /\ j.pc = "idle" /\ j.seen = {}
                        /\ work' = [d \in Threads |-> IF d = c THEN j ELSE work[d]] /\ work'[c] = j
                        /\ \A d \in Threads \ {c} : work'[d] = work[d]
  <2>1. Seqs!Become(c, Seqs!Idle)
    BY DEF Seqs!DeleteOperator
  <2> QED BY <2>1, Becomes, IdleIs DEF SeqInv
<1>4. Ops' = Ops /\ Jobs' = Jobs
  BY <1>2, SameOps
<1>5. SeqTypes'
  BY <1>1, <1>2, <1>3, <1>4 DEF SeqInv, SeqTypes
<1>6. /\ Removes(c) /\ ~Removes(c)' /\ ~Creates(c) /\ ~Creates(c)'
      /\ \A d \in Threads \ {c} : (Creates(d)' <=> Creates(d)) /\ (Removes(d)' <=> Removes(d)) /\ work'[d] = work[d]
  BY <1>2, <1>3 DEF Creates, Removes
<1>7. /\ \A x : Published(x)' => Published(x)
      /\ \A x \in Ops : NotCreating(x)' <=> NotCreating(x)
  <2>1. ASSUME NEW x, Published(x)' PROVE Published(x)
    BY <1>2, <1>3, <1>6, <2>1 DEF Published
  <2> QED BY <1>6, <2>1 DEF NotCreating
<1>8. CreatedOnce'
  BY <1>6, <1>7 DEF SeqInv, CreatedOnce
<1>9. StagedExist'
  <2>1. ASSUME NEW d \in Threads \ {c} PROVE Deployed(d)' /\ Spans(d)'
    BY <1>2, <1>6 DEF SeqInv, StagedExist, Deployed, Spans
  <2>2. Deployed(c)' /\ Spans(c)'
    BY <1>2, <1>3 DEF Deployed, Spans
  <2> QED BY <2>1, <2>2 DEF StagedExist
<1>10. SameName' /\ Detached'
  BY <1>2, <1>3, <1>4 DEF SeqInv, SameName, Detached
<1>11. o \notin missed => NotCreating(o) /\ (Seqs!Namesakes(o) = {} /\ o \in complete => \A q \in Rings : <<q, o>> \notin sequences)
  BY <1>1, <1>2, <1>6 DEF SeqInv, RemovedSoFar, Passed
<1>12. RemovedSoFar'
  <2>1. ASSUME NEW d \in Threads, Removes(d)'
        PROVE  /\ work'[d] = work[d] /\ Removes(d) /\ work[d].op \in Ops /\ Passed(d)' = Passed(d)
    BY <1>6, <2>1 DEF SeqInv, SeqTypes, Removes, Passed
  <2>2. ASSUME NEW x \in gone' \ missed' PROVE NotCreating(x)'
    BY <1>1, <1>2, <1>7, <1>11 DEF SeqInv, SeqTypes, RemovedSoFar
  <2> QED BY <1>2, <1>7, <2>1, <2>2, SameOps DEF SeqInv, RemovedSoFar
<1>13. \A x \in Ops : x \in Seqs!Removed => x \in Seqs!Removed'
  BY <1>1, <1>2, <1>4, <1>6 DEF Seqs!Removed, Ops
<1>14. Seqs!ArraysLoad' /\ Seqs!OperatorsAreServed'
  BY <1>2, <1>13, SameOps DEF SeqInv, SeqTypes, Seqs!ArraysLoad, Seqs!OperatorsAreServed, Seqs!Rings
<1>15. Seqs!NothingIsLeft'
  BY <1>2, <1>11, SameOps, RingsAre DEF SeqInv, Seqs!NothingIsLeft
<1> QED BY <1>5, <1>8, <1>9, <1>10, <1>12, <1>14, <1>15 DEF SeqInv

\* The process loads the main sequences again.
LEMMA RefreshStep == ASSUME SeqInv, Seqs!Refresh PROVE SeqInv'
<1>1. view' = derived /\ UNCHANGED <<operators, live, sequences, derived, Seqs!Requested, staged, work, complete, gone, stale, missed>>
  BY DEF Seqs!Refresh, Seqs!history, Seqs!Requested
<1>2. Ops' = Ops /\ Jobs' = Jobs
  BY <1>1, SameOps
<1>3. SeqTypes'
  BY <1>1, <1>2 DEF SeqInv, SeqTypes
<1>4. /\ \A d \in Threads : (Creates(d)' <=> Creates(d)) /\ (Removes(d)' <=> Removes(d))
      /\ \A x : Published(x)' => Published(x)
      /\ \A x : NotCreating(x)' <=> NotCreating(x)
  BY <1>1 DEF Creates, Removes, Published, NotCreating
<1>5. CreatedOnce' /\ StagedExist'
  BY <1>1, <1>4 DEF SeqInv, CreatedOnce, StagedExist, Deployed, Spans
<1>6. SameName' /\ Detached'
  BY <1>1, <1>2 DEF SeqInv, SameName, Detached
<1>7. RemovedSoFar'
  <2>1. \A d \in Threads : Passed(d)' = Passed(d)
    BY <1>1 DEF Passed
  <2> QED BY <1>1, <1>4, <2>1, SameOps DEF SeqInv, RemovedSoFar
<1>8. Seqs!ArraysLoad' /\ Seqs!OperatorsAreServed' /\ Seqs!NothingIsLeft'
  BY <1>1, SameOps DEF SeqInv, Seqs!ArraysLoad, Seqs!OperatorsAreServed, Seqs!NothingIsLeft, Seqs!Rings, Seqs!Removed
<1> QED BY <1>3, <1>5, <1>6, <1>7, <1>8 DEF SeqInv

\* The blocks of a ring are started again: what their monitors lose makes the ring stale.
LEMMA RestartStep == ASSUME SeqInv, NEW r \in Rings, Seqs!Restart(r) PROVE SeqInv'
<1>1. /\ UNCHANGED <<operators, live, sequences, derived, view, staged, work, complete, gone, missed>>
      /\ stale \subseteq stale'
      /\ \A q, x : <<q, x>> \in Seqs!Requested => <<q, x>> \in Seqs!Requested' \/ q \in stale'
  <2>1. /\ fed' = {s \in fed : s[1] # r} \cup {r} \X derived[r] /\ unfed' = unfed \ fed' /\ asked' = asked
        /\ stale' = IF \E s \in fed \ fed' : s[1] = r THEN stale \cup {r} ELSE stale
        /\ UNCHANGED <<operators, live, sequences, derived, view, staged, work, complete, gone, missed>>
    BY DEF Seqs!Restart
  <2>2. ASSUME NEW q, NEW x, <<q, x>> \in fed, <<q, x>> \notin fed' PROVE q \in stale'
    <3>1. q = r
      BY <2>1, <2>2
    <3>2. <<q, x>>[1] = r /\ <<q, x>> \in fed \ fed'
      BY <2>2, <3>1
    <3> QED BY <2>1, <3>1, <3>2
  <2>3. stale \subseteq stale'
    BY <2>1
  <2>4. ASSUME NEW q, NEW x, <<q, x>> \in Seqs!Requested PROVE <<q, x>> \in Seqs!Requested' \/ q \in stale'
    BY <2>1, <2>2, <2>4 DEF Seqs!Requested
  <2> QED BY <2>1, <2>3, <2>4
<1>2. Ops' = Ops /\ Jobs' = Jobs
  BY <1>1, SameOps
<1>3. SeqTypes'
  BY <1>1, <1>2 DEF SeqInv, SeqTypes
<1>4. /\ \A d \in Threads : (Creates(d)' <=> Creates(d)) /\ (Removes(d)' <=> Removes(d))
      /\ \A x : Published(x)' <=> Published(x)
      /\ \A x : NotCreating(x)' <=> NotCreating(x)
  BY <1>1 DEF Creates, Removes, Published, NotCreating
<1>5. CreatedOnce'
  BY <1>1, <1>4 DEF SeqInv, CreatedOnce
<1>6. StagedExist'
  <2>1. ASSUME NEW d \in Threads PROVE Deployed(d)' /\ Spans(d)'
    BY <1>1 DEF SeqInv, StagedExist, Deployed, Spans
  <2> QED BY <2>1 DEF StagedExist
<1>7. SameName' /\ Detached'
  BY <1>1, <1>2 DEF SeqInv, SameName, Detached
<1>8. RemovedSoFar'
  <2>1. \A d \in Threads : Passed(d)' = Passed(d)
    BY <1>1 DEF Passed
  <2> QED BY <1>1, <1>4, <2>1, SameOps DEF SeqInv, RemovedSoFar
<1>9. Seqs!ArraysLoad' /\ Seqs!NothingIsLeft'
  BY <1>1, SameOps DEF SeqInv, Seqs!ArraysLoad, Seqs!NothingIsLeft, Seqs!Rings
<1>10. Seqs!OperatorsAreServed'
  <2>1. Seqs!Removed' = Seqs!Removed
    BY <1>1 DEF Seqs!Removed
  <2> QED BY <1>1, <2>1, SameOps DEF SeqInv, Seqs!OperatorsAreServed
<1> QED BY <1>3, <1>5, <1>6, <1>7, <1>8, <1>9, <1>10 DEF SeqInv

\* What is not the concern of the operators and their sequences, or is only the way of a request to make a monitor, leaves all
\* as it is.
LEMMA SeqStutter ==
    ASSUME SeqInv,
           UNCHANGED <<operators, live, sequences, derived, Seqs!Requested, view, staged, work, complete, gone, stale, missed>>
    PROVE  SeqInv'
<1>1. UNCHANGED <<operators, live, sequences, derived, Seqs!Requested, view, staged, work, complete, gone, stale, missed>>
  OBVIOUS
<1>2. Ops' = Ops /\ Jobs' = Jobs
  BY <1>1, SameOps
<1>3. SeqTypes' /\ CreatedOnce' /\ StagedExist'
  BY <1>1, <1>2 DEF SeqInv, SeqTypes, CreatedOnce, Creates, Removes, Published, StagedExist, Deployed, Spans
<1>4. SameName' /\ Detached' /\ RemovedSoFar'
  BY <1>1, <1>2, SameOps DEF SeqInv, SameName, Detached, RemovedSoFar, Creates, Removes, Passed, NotCreating
<1>5. Seqs!ArraysLoad' /\ Seqs!OperatorsAreServed' /\ Seqs!NothingIsLeft'
  BY <1>1, SameOps DEF SeqInv, Seqs!ArraysLoad, Seqs!OperatorsAreServed, Seqs!NothingIsLeft, Seqs!Rings, Seqs!Removed
<1> QED BY <1>3, <1>4, <1>5 DEF SeqInv

\* Every step of the flows, and of the processes around them.
LEMMA SeqStep == ASSUME SeqInv, [Seqs!Next]_Seqs!dseqvars PROVE SeqInv'
<1>1. ASSUME NEW c \in Threads,
             Seqs!CreateDerived(c) \/ Seqs!Deploy(c) \/ Seqs!Commit(c) \/ Seqs!GiveUp(c) \/ Seqs!Fail(c)
      PROVE  SeqInv'
  BY <1>1, CreateDerivedStep, DeployStep, CommitStep, EndStep
<1>2. ASSUME NEW c \in Threads,
             Seqs!Find(c) \/ Seqs!Detach(c) \/ Seqs!Drop(c) \/ Seqs!DeleteOperator(c)
      PROVE  SeqInv'
  BY <1>2, FindStep, DetachStep, DropStep, DeleteOperatorStep
<1>3. ASSUME NEW c \in Threads, NEW name \in OpNames, NEW r \in Rings, Seqs!NewOperator(c, name, r)
      PROVE  SeqInv'
  BY <1>3, NewOperatorStep
<1>4. ASSUME NEW c \in Threads, NEW o \in live, Seqs!Remove(c, o)
      PROVE  SeqInv'
  BY <1>4, RemoveStep
<1>5. ASSUME NEW r \in Rings, Seqs!Restart(r)
      PROVE  SeqInv'
  BY <1>5, RestartStep
<1>6. ASSUME NEW s \in asked, Seqs!Backfill(s) \/ Seqs!LoseBackfill(s)
      PROVE  SeqInv'
  BY <1>6, SeqStutter DEF Seqs!Backfill, Seqs!LoseBackfill, Seqs!history, Seqs!Requested
<1>7. ASSUME UNCHANGED Seqs!dseqvars
      PROVE  SeqInv'
  BY <1>7, SeqStutter DEF Seqs!dseqvars, Seqs!Requested
<1> QED BY <1>1, <1>2, <1>3, <1>4, <1>5, <1>6, <1>7, RefreshStep, RingsAre DEF Seqs!Next

(* Whatever operators are created, removed and found at the same time, and whenever a call fails or a block is started again:
   the arrays of the main sequences name sequences that have a record, an operator whose creation ended well is served in its
   ring and all above, and nothing is left of one that was removed. *)
THEOREM Agree == Seqs!Spec => []SequencesAgree
<1>1. Seqs!Init => SeqInv
  BY SeqInit
<1>2. SeqInv /\ [Seqs!Next]_Seqs!dseqvars => SeqInv'
  BY SeqStep
<1>3. SeqInv => SequencesAgree
  BY DEF SeqInv, SequencesAgree, Seqs!SequencesAgree
<1> QED BY <1>1, <1>2, <1>3, PTL DEF Seqs!Spec

----------------------------------------------------------------------------
\* The objects, their records, and what was moved (Reinsertion)
Ids == Move!Ids
Stack == Move!Rings
Holders(id) == Move!Holders(id)
Top(id) == Move!Top(id)
OldId == Move!OldId
Pairs == Move!ToSet(moved)

\* A record has the fields of a record.
IsRecord(rec) == rec = [edits |-> rec.edits, refs |-> rec.refs, nulls |-> rec.nulls]
Busy == pc \in {"insert", "scan", "write", "delete"}
MoveTypes == /\ DOMAIN rings = Stack
             /\ \A r \in Stack : DOMAIN rings[r] \subseteq Ids /\ \A id \in DOMAIN rings[r] : IsRecord(rings[r][id])
             /\ todo \in Seq(1 .. NGiven) /\ moved \in Seq((1 .. NGiven) \X Ids)
             /\ to \in Stack \X (0 .. NGiven)
             /\ pc \in {"load", "insert", "scan", "write", "delete", "failed"}
             /\ new \in Ids \cup {0} /\ at \in (Nat \ {0}) \X Nat /\ changes \in Nat
             /\ DOMAIN wanted = Ids
             /\ DOMAIN older = Ids /\ \A id \in Ids : \A rec \in older[id] : IsRecord(rec)
             /\ Busy => todo # << >>
             /\ pc = "insert" => IsRecord(taken)
             /\ pc = "write" => IsRecord(write) /\ at[1] \in Stack /\ at[2] \in Ids
             /\ pc \in {"scan", "write", "delete"} => new \in Ids

\* Objects that are moved get ids of their own, unless the id was given, for the only object.
Targets == /\ to[2] # 0 => /\ \A i \in DOMAIN todo : i = 1
                           /\ todo # << >> => moved = << >>
                           /\ pc \in {"scan", "write", "delete"} => new = to[2]
                           /\ \A m \in Pairs : m[2] = to[2]
                           /\ todo # << >> /\ pc \in {"load", "insert"} /\ to[2] # OldId => Holders(to[2]) = {}
           /\ to[2] = 0 => /\ pc \in {"scan", "write", "delete"} => new > NGiven
                           /\ \A m \in Pairs : m[2] > NGiven
           /\ pc \in {"scan", "write"} => new # OldId

\* No references to what was moved, in the records that the scan has passed
Clean(refs) == \A m \in Move!Moves : \A ref \in refs : ref[2] # m[1]
Lacks(refs, id) == \A ref \in refs : ref[2] # id
Past(r, id) == r < at[1] \/ (r = at[1] /\ id < at[2])
Searched(r, id) == (pc \in {"scan", "write"} /\ Past(r, id)) \/ (pc = "delete" /\ new # OldId)
Unreferenced == \A r \in Stack \ fixed : \A id \in DOMAIN rings[r] \ late :
                   /\ Clean(rings[r][id].refs)
                   /\ Searched(r, id) => Lacks(rings[r][id].refs, OldId)

\* Data that is on its way
Carried == /\ pc = "write" => /\ at[1] \notin fixed /\ Move!Has(at[1], at[2])
                              /\ at[2] \notin late => Clean(write.refs) /\ Lacks(write.refs, OldId)
                              /\ at[2] \notin caught => write.edits = rings[at[1]][at[2]].edits
           /\ pc = "insert" /\ OldId \notin caught \cup outdated => taken.edits = rings[Top(OldId)][OldId].edits
           /\ pc = "insert" /\ moved # << >> /\ OldId \notin late \cup outdated /\ Top(OldId) \notin fixed => Clean(taken.refs)

\* Ids that were never used
Unused == todo # << >> => \A id \in Ids : Holders(id) = {} /\ (\A m \in Pairs : m[1] # id) => wanted[id] = {}

\* Edits are in the topmost record.
InPlace == pc = "delete" /\ new = OldId
Kept == \A id \in Ids : /\ id \notin caught \cup outdated /\ (\A m \in Move!Moves : m[1] # id)
                        /\ Holders(id) # {} /\ ~Move!Between(id)
                        => wanted[id] \subseteq rings[Top(id)][id].edits
Others(id) == Holders(id) \ {to[1]}
Replaced == /\ pc \in {"scan", "write", "delete"} => Move!Has(to[1], new)
            /\ Busy => Holders(OldId) # {}
            /\ InPlace => /\ Others(OldId) # {}
                          /\ OldId \notin caught \cup outdated =>
                                \A r \in Holders(OldId) : r = to[1] \/ (\A q \in Others(OldId) : q <= r) =>
                                    wanted[OldId] \subseteq rings[r][OldId].edits
There == \A m \in Pairs : m[2] \in caught \/ Holders(m[2]) # {}

MoveInv == MoveTypes /\ Targets /\ Unreferenced /\ Carried /\ Unused /\ Kept /\ Replaced /\ There

----------------------------------------------------------------------------
\* A nonempty set of numbers has a least element, and one that is bounded a greatest.
LEMMA Least == ASSUME NEW S, S \subseteq Nat, S # {} PROVE Move!Min(S) \in S /\ \A y \in S : Move!Min(S) <= y
<1>1. PICK x \in S : \A y \in S : ~(<<y, x>> \in OpToRel(<, Nat))
  BY WFMin, NatLessThanWellFounded
<1>2. \A y \in S : ~(y < x)
  BY <1>1 DEF OpToRel
<1>3. \E m \in S : \A y \in S : m <= y
  BY <1>2
<1> QED BY <1>3 DEF Move!Min

LEMMA Greatest == ASSUME NEW n \in Nat, NEW S, S \subseteq 0 .. n, S # {} PROVE Move!Max(S) \in S /\ \A y \in S : y <= Move!Max(S)
<1> DEFINE Bounds == {x \in 0 .. n : \A y \in S : y <= x}
<1> DEFINE m == Move!Min(Bounds)
<1>1. Bounds \subseteq Nat /\ n \in Bounds
  OBVIOUS
<1>2. m \in Bounds /\ \A x \in Bounds : m <= x
  BY <1>1, Least
<1> HIDE DEF m
<1>3. m \in S
  <2> SUFFICES ASSUME m \notin S PROVE FALSE
    OBVIOUS
  <2>1. \A y \in S : y < m /\ y \in Nat
    BY <1>2
  <2>2. PICK y \in S : y < m /\ y \in Nat
    BY <2>1
  <2>3. m - 1 \in Bounds
    BY <1>2, <2>1, <2>2
  <2> QED BY <1>2, <2>3
<1>4. \E x \in S : \A y \in S : x >= y
  BY <1>2, <1>3
<1> QED BY <1>4 DEF Move!Max

\* Rings and ids are numbers.
LEMMA Numbers == /\ NRings \in Nat /\ NRings > 0 /\ NGiven \in Nat /\ MaxCopy \in Nat /\ NGiven <= MaxCopy /\ MaxTouches \in Nat
                 /\ Stack = 1 .. NRings /\ Ids = 1 .. MaxCopy /\ Move!Rings = Stack
  BY RecordsAssumption DEF Move!ReinsertionAssumption, Stack, Move!Rings, Ids, Move!Ids

\* The record that counts of an object.
LEMMA TopIs == ASSUME NEW id, Holders(id) # {}
               PROVE  /\ Top(id) \in Holders(id) /\ Top(id) \in Stack /\ id \in DOMAIN rings[Top(id)]
                      /\ \A r \in Holders(id) : r <= Top(id)
<1>1. Holders(id) \subseteq Stack /\ Stack \subseteq 0 .. NRings /\ NRings \in Nat
  BY Numbers DEF Holders, Move!Holders
<1>2. Top(id) = Move!Max(Holders(id))
  BY DEF Top, Move!Top, Holders
<1> QED BY <1>1, <1>2, Greatest DEF Holders, Move!Holders, Move!Has

\* The record that counts is the one in the highest ring.
LEMMA TopOnly == ASSUME NEW id, NEW r \in Holders(id), \A q \in Holders(id) : q <= r PROVE Top(id) = r
<1>1. Top(id) \in Stack /\ r \in Stack /\ r <= Top(id) /\ Top(id) <= r
  BY TopIs DEF Holders, Move!Holders, Stack
<1> QED BY <1>1, Numbers

\* A record is put in a ring.
LEMMA PutIs == ASSUME MoveTypes, NEW r \in Stack, NEW id \in Ids, NEW rec, IsRecord(rec), rings' = Move!Put(r, id, rec)
               PROVE  /\ DOMAIN rings' = Stack
                      /\ \A q \in Stack : DOMAIN rings'[q] \subseteq Ids /\ \A i \in DOMAIN rings'[q] : IsRecord(rings'[q][i])
                      /\ \A q \in Stack, i \in Ids : i \in DOMAIN rings'[q] <=> i \in DOMAIN rings[q] \/ (q = r /\ i = id)
                      /\ rings'[r][id] = rec
                      /\ \A q \in Stack : \A i \in DOMAIN rings[q] : ~(q = r /\ i = id) => rings'[q][i] = rings[q][i]
<1>1. /\ DOMAIN rings = Stack /\ \A q \in Stack : DOMAIN rings[q] \subseteq Ids
      /\ \A q \in Stack : \A i \in DOMAIN rings[q] : IsRecord(rings[q][i])
  BY DEF MoveTypes
<1>2. rings' = [rings EXCEPT ![r] = [i \in DOMAIN rings[r] \cup {id} |-> IF i = id THEN rec ELSE rings[r][i]]]
  BY DEF Move!Put
<1>3. /\ DOMAIN rings' = Stack /\ rings'[r] = [i \in DOMAIN rings[r] \cup {id} |-> IF i = id THEN rec ELSE rings[r][i]]
      /\ \A q \in Stack \ {r} : rings'[q] = rings[q]
  BY <1>1, <1>2
<1>4. /\ DOMAIN rings'[r] = DOMAIN rings[r] \cup {id} /\ rings'[r][id] = rec
      /\ \A i \in DOMAIN rings[r] : i # id => rings'[r][i] = rings[r][i]
  BY <1>3
<1>5. ASSUME NEW q \in Stack, NEW i \in DOMAIN rings'[q] PROVE i \in Ids /\ IsRecord(rings'[q][i])
  <2>1. CASE q = r /\ i = id
    BY <1>4, <2>1
  <2>2. CASE ~(q = r /\ i = id)
    BY <1>1, <1>3, <1>4, <1>5, <2>2
  <2> QED BY <2>1, <2>2
<1> QED BY <1>3, <1>4, <1>5

\* It is the one that counts if it is in the highest ring; of other objects another one does not count then.
LEMMA PutTops == ASSUME MoveTypes, NEW r \in Stack, NEW id \in Ids, NEW rec, IsRecord(rec), rings' = Move!Put(r, id, rec)
                 PROVE  /\ Holders(id)' = Holders(id) \cup {r}
                        /\ \A i \in Ids \ {id} : /\ Holders(i)' = Holders(i)
                                                 /\ Top(i)' = Top(i)
                                                 /\ Holders(i) # {} => rings'[Top(i)][i] = rings[Top(i)][i]
                        /\ (\A q \in Holders(id) : q <= r) => Top(id)' = r
<1>1. \A i \in Ids : Holders(i)' = {q \in Stack : i \in DOMAIN rings'[q]} /\ Holders(i) = {q \in Stack : i \in DOMAIN rings[q]}
  BY DEF Holders, Move!Holders, Move!Has, Stack
<1>2. Holders(id)' = Holders(id) \cup {r} /\ \A i \in Ids \ {id} : Holders(i)' = Holders(i)
  <2>1. \A q \in Stack, i \in Ids : i \in DOMAIN rings'[q] <=> i \in DOMAIN rings[q] \/ (q = r /\ i = id)
    BY PutIs
  <2>2. Holders(id)' = Holders(id) \cup {r}
    BY <1>1, <2>1
  <2>3. ASSUME NEW i \in Ids \ {id} PROVE Holders(i)' = Holders(i)
    BY <1>1, <2>1
  <2> QED BY <2>2, <2>3
<1>3. \A i : Top(i)' = Move!Max(Holders(i)') /\ Top(i) = Move!Max(Holders(i))
  BY DEF Top, Move!Top, Holders
<1>4. ASSUME NEW i \in Ids \ {id} PROVE Top(i)' = Top(i) /\ (Holders(i) # {} => rings'[Top(i)][i] = rings[Top(i)][i])
  BY <1>2, <1>3, TopIs, PutIs
<1>5. ASSUME \A q \in Holders(id) : q <= r PROVE Top(id)' = r
  <2>1. \A q \in Holders(id)' : q <= r
    BY <1>2, <1>5, Numbers
  <2>2. Holders(id)' \subseteq 0 .. NRings /\ Holders(id)' # {} /\ NRings \in Nat
    BY <1>1, <1>2, Numbers
  <2>3. Top(id)' \in Holders(id)' /\ \A q \in Holders(id)' : q <= Top(id)'
    BY <1>3, <2>2, Greatest
  <2>4. Top(id)' <= r /\ r <= Top(id)' /\ Top(id)' \in Nat /\ r \in Nat
    BY <1>2, <2>1, <2>2, <2>3, Numbers
  <2> QED BY <2>4
<1> QED BY <1>2, <1>4, <1>5

\* A record is deleted: another one may count then, or none.
LEMMA WithoutIs == ASSUME MoveTypes, NEW r \in Stack, NEW id \in Ids, rings' = Move!Without(r, id)
                   PROVE  /\ DOMAIN rings' = Stack
                          /\ \A q \in Stack : DOMAIN rings'[q] \subseteq Ids /\ \A i \in DOMAIN rings'[q] : IsRecord(rings'[q][i])
                          /\ \A q \in Stack, i \in Ids : i \in DOMAIN rings'[q] <=> i \in DOMAIN rings[q] /\ ~(q = r /\ i = id)
                          /\ \A q \in Stack : \A i \in DOMAIN rings'[q] : rings'[q][i] = rings[q][i]
<1>1. /\ DOMAIN rings = Stack /\ \A q \in Stack : DOMAIN rings[q] \subseteq Ids
      /\ \A q \in Stack : \A i \in DOMAIN rings[q] : IsRecord(rings[q][i])
  BY DEF MoveTypes
<1>2. rings' = [rings EXCEPT ![r] = [i \in DOMAIN rings[r] \ {id} |-> rings[r][i]]]
  BY DEF Move!Without
<1>3. /\ DOMAIN rings' = Stack /\ rings'[r] = [i \in DOMAIN rings[r] \ {id} |-> rings[r][i]]
      /\ \A q \in Stack \ {r} : rings'[q] = rings[q]
  BY <1>1, <1>2
<1>4. /\ DOMAIN rings'[r] = DOMAIN rings[r] \ {id}
      /\ \A i \in DOMAIN rings'[r] : rings'[r][i] = rings[r][i]
  BY <1>3
<1>5. ASSUME NEW q \in Stack, NEW i \in DOMAIN rings'[q] PROVE i \in Ids /\ IsRecord(rings'[q][i]) /\ rings'[q][i] = rings[q][i]
  BY <1>1, <1>3, <1>4, <1>5
<1> QED BY <1>3, <1>4, <1>5

\* The record that counts then is the one in the next lower ring.
LEMMA WithoutTops == ASSUME MoveTypes, NEW r \in Stack, NEW id \in Ids, rings' = Move!Without(r, id)
                     PROVE  /\ Holders(id)' = Holders(id) \ {r}
                            /\ \A i \in Ids \ {id} : /\ Holders(i)' = Holders(i)
                                                     /\ Top(i)' = Top(i)
                                                     /\ Holders(i) # {} => rings'[Top(i)][i] = rings[Top(i)][i]
                            /\ Holders(id)' # {} => /\ Top(id)' \in Holders(id) \ {r}
                                                    /\ \A q \in Holders(id) \ {r} : q <= Top(id)'
                                                    /\ rings'[Top(id)'][id] = rings[Top(id)'][id]
<1>1. \A i \in Ids : Holders(i)' = {q \in Stack : i \in DOMAIN rings'[q]} /\ Holders(i) = {q \in Stack : i \in DOMAIN rings[q]}
  BY DEF Holders, Move!Holders, Move!Has, Stack
<1>2. Holders(id)' = Holders(id) \ {r} /\ \A i \in Ids \ {id} : Holders(i)' = Holders(i)
  <2>1. \A q \in Stack, i \in Ids : i \in DOMAIN rings'[q] <=> i \in DOMAIN rings[q] /\ ~(q = r /\ i = id)
    BY WithoutIs
  <2>2. Holders(id)' = Holders(id) \ {r}
    BY <1>1, <2>1
  <2>3. ASSUME NEW i \in Ids \ {id} PROVE Holders(i)' = Holders(i)
    BY <1>1, <2>1
  <2> QED BY <2>2, <2>3
<1>3. \A i : Top(i)' = Move!Max(Holders(i)') /\ Top(i) = Move!Max(Holders(i))
  BY DEF Top, Move!Top, Holders
<1>4. ASSUME NEW i \in Ids \ {id} PROVE Top(i)' = Top(i) /\ (Holders(i) # {} => rings'[Top(i)][i] = rings[Top(i)][i])
  <2>1. Top(i)' = Top(i)
    BY <1>2, <1>3
  <2>2. ASSUME Holders(i) # {} PROVE Top(i) \in Stack /\ i \in DOMAIN rings'[Top(i)]
    BY <1>1, <1>2, <2>2, TopIs
  <2> QED BY <2>1, <2>2, WithoutIs
<1>5. ASSUME Holders(id)' # {}
      PROVE  /\ Top(id)' \in Holders(id)' /\ \A q \in Holders(id)' : q <= Top(id)'
             /\ rings'[Top(id)'][id] = rings[Top(id)'][id]
  <2>1. Holders(id)' \subseteq 0 .. NRings /\ NRings \in Nat
    BY <1>1, Numbers
  <2>2. Top(id)' \in Holders(id)' /\ \A q \in Holders(id)' : q <= Top(id)'
    BY <1>3, <1>5, <2>1, Greatest
  <2>3. Top(id)' \in Stack /\ id \in DOMAIN rings'[Top(id)']
    BY <1>1, <2>2
  <2> QED BY <2>2, <2>3, WithoutIs
<1> QED BY <1>2, <1>4, <1>5

\* What follows from the list of what was moved, and what from the records.
LEMMA SameMoves == ASSUME UNCHANGED moved
                   PROVE  Pairs' = Pairs /\ Move!Moves' = Move!Moves /\ \A refs : Clean(refs)' <=> Clean(refs)
  BY DEF Pairs, Move!Moves, Clean
\* While records, target and list are the same, so is what counts of an object.
LEMMA SameRecords == ASSUME UNCHANGED <<rings, to, moved>>
                     PROVE  \A id : Holders(id)' = Holders(id) /\ Top(id)' = Top(id) /\ (Move!Between(id)' <=> Move!Between(id))
                                    /\ Others(id)' = Others(id)
  BY DEF Holders, Move!Holders, Move!Has, Top, Move!Top, Move!Between, Others
\* At first nothing was moved.
LEMMA NothingMoved == ASSUME moved = << >> PROVE Pairs = {} /\ Move!Moves = {} /\ \A id : ~Move!Between(id)
  BY DEF Pairs, Move!Moves, Move!ToSet, Move!Between
\* What was moved is added to the list.
LEMMA MovedOne == ASSUME MoveTypes, NEW m, moved' = Append(moved, m) PROVE Pairs' = Pairs \cup {m}
<1>1. PICK n \in Nat : n = Len(moved) /\ DOMAIN moved = 1 .. n
  BY DEF MoveTypes
<1>2. /\ DOMAIN moved' = 1 .. (n + 1) /\ moved'[n + 1] = m /\ \A i \in 1 .. n : moved'[i] = moved[i]
  BY <1>1 DEF MoveTypes
<1>3. Pairs = {moved[i] : i \in 1 .. n} /\ Pairs' = {moved'[i] : i \in 1 .. (n + 1)}
  BY <1>1, <1>2 DEF Pairs, Move!ToSet
<1>4. 1 .. (n + 1) = (1 .. n) \cup {n + 1}
  OBVIOUS
<1> QED BY <1>2, <1>3, <1>4

\* The pairs are of objects there were at first, and those they became.
LEMMA PairsAre == ASSUME MoveTypes PROVE \A m \in Pairs : m \in (1 .. NGiven) \X Ids /\ m[1] \in 1 .. NGiven /\ m[2] \in Ids
<1>1. \A i \in DOMAIN moved : moved[i] \in (1 .. NGiven) \X Ids
  <2>1. PICK S : S = (1 .. NGiven) \X Ids
    OBVIOUS
  <2>2. moved \in Seq(S)
    BY <2>1 DEF MoveTypes
  <2> QED BY <2>1, <2>2
<1> QED BY <1>1 DEF Pairs, Move!ToSet

\* The object that is moved is one there was at first.
LEMMA OldIdIs == ASSUME MoveTypes, todo # << >>
                 PROVE  /\ OldId \in 1 .. NGiven /\ OldId \in Ids /\ Tail(todo) \in Seq(1 .. NGiven)
                        /\ (\A i \in DOMAIN todo : i = 1) => Tail(todo) = << >>
<1>1. todo \in Seq(1 .. NGiven)
  BY DEF MoveTypes
<1>2. Head(todo) \in 1 .. NGiven /\ Tail(todo) \in Seq(1 .. NGiven) /\ Len(Tail(todo)) = Len(todo) - 1
  <2>1. PICK S : S = 1 .. NGiven
    OBVIOUS
  <2>2. Head(todo) \in S /\ Tail(todo) \in Seq(S) /\ Len(Tail(todo)) = Len(todo) - 1
    <3>1. todo \in Seq(S) /\ todo # << >>
      BY <1>1, <2>1
    <3> QED BY <3>1, HeadTailProperties
  <2> QED BY <2>1, <2>2
<1>3. ASSUME \A i \in DOMAIN todo : i = 1 PROVE Tail(todo) = << >>
  <2>1. Len(todo) \in Nat /\ Len(todo) > 0 /\ DOMAIN todo = 1 .. Len(todo)
    BY <1>1
  <2>2. Len(todo) \in DOMAIN todo
    BY <2>1
  <2>3. Len(todo) = 1
    BY <1>3, <2>2
  <2>4. Len(Tail(todo)) = 0
    BY <1>2, <2>3
  <2> QED BY <1>2, <2>4, EmptySeq
<1> QED BY <1>2, <1>3, Numbers DEF OldId, Move!OldId

\* At first no object is on its way and nobody has edited anything.
LEMMA MoveInit == ASSUME Move!Init PROVE MoveInv
<1>1. /\ rings \in Databases /\ todo \in Lists /\ to \in Stack \X (0 .. NGiven)
      /\ Len(todo) > 1 => to[2] = 0
      /\ to[2] \in {0} \cup {i \in Ids : i \in Move!ToSet(todo) \/ Holders(i) = {}}
      /\ pc = "load" /\ new = 0 /\ at = <<1, 1>> /\ moved = << >> /\ changes = 0 /\ wanted = [id \in Ids |-> {}]
      /\ older = [id \in Ids |-> {}]
  BY DEF Move!Init, Stack, Ids, Holders
<1>2. /\ todo \in Seq(1 .. NGiven) /\ DOMAIN rings = Stack
      /\ \A r \in Stack : DOMAIN rings[r] \subseteq 1 .. NGiven /\ \A id \in DOMAIN rings[r] : rings[r][id] \in Move!Records
  BY <1>1, Numbers, RecordsAssumption DEF Move!ReinsertionAssumption
<1>3. MoveTypes
  <2>1. \A rec \in Move!Records : IsRecord(rec)
    BY DEF Move!Records, IsRecord
  <2> QED BY <1>1, <1>2, <2>1, Numbers DEF MoveTypes, Busy
<1>4. Targets
  <2>1. ASSUME to[2] # 0 PROVE \A i \in DOMAIN todo : i = 1
    BY <1>1, <1>2, <2>1
  <2>2. ASSUME to[2] # 0, todo # << >>, to[2] # OldId PROVE Holders(to[2]) = {}
    <3>1. Move!ToSet(todo) = {todo[i] : i \in DOMAIN todo} /\ OldId = todo[1]
      BY <1>2, <2>2 DEF Move!ToSet, OldId, Move!OldId
    <3> QED BY <1>1, <2>1, <2>2, <3>1
  <2> QED BY <1>1, <2>1, <2>2, NothingMoved DEF Targets
<1>5. Unreferenced /\ Carried /\ Unused /\ Kept /\ Replaced /\ There
  BY <1>1, NothingMoved DEF Unreferenced, Clean, Searched, Carried, Unused, Kept, Replaced, Busy, InPlace, There
<1> QED BY <1>3, <1>4, <1>5 DEF MoveInv

\* A move that fails leaves all as it is.
LEMMA MoveFails == ASSUME MoveInv, Move!Fail PROVE MoveInv'
<1>1. pc' = "failed" /\ UNCHANGED <<fixed, rings, todo, to, taken, new, at, write, moved, older, changes, wanted, caught, late, outdated>>
  BY DEF Move!Fail, Move!arguments, Move!history
<1>2. OldId' = OldId
  BY <1>1 DEF OldId, Move!OldId
<1>3. MoveTypes' /\ Targets'
  BY <1>1, <1>2, SameMoves DEF MoveInv, MoveTypes, Busy, Targets
<1>4. Unreferenced' /\ Carried' /\ Unused' /\ There'
  BY <1>1, SameMoves, SameRecords DEF MoveInv, Unreferenced, Searched, Carried, Unused, There
<1>5. Kept' /\ Replaced'
  BY <1>1, SameMoves, SameRecords DEF MoveInv, Kept, Replaced, Busy, InPlace
<1> QED BY <1>3, <1>4, <1>5 DEF MoveInv

\* The next object of the list is loaded, or there is none.
LEMMA MoveLoad == ASSUME MoveInv, Move!Load PROVE MoveInv'
<1>1. /\ pc = "load" /\ todo # << >>
      /\ UNCHANGED <<fixed, rings, to, new, at, write, moved, changes, wanted, caught, late>>
      /\ \/ Holders(OldId) = {} /\ todo' = Tail(todo) /\ pc' = "load"
         \/ /\ Holders(OldId) # {} /\ pc' = "insert" /\ todo' = todo /\ OldId' = OldId
            /\ taken' \in older[OldId] \cup {rings[Top(OldId)][OldId]}
            /\ OldId \notin outdated' => taken' = rings[Top(OldId)][OldId]
      /\ older' = [older EXCEPT ![OldId] = {}] /\ outdated \subseteq outdated'
  BY DEF Move!Load, Move!Current, Move!arguments, Move!history, Holders, OldId, Move!OldId, Top
<1>2. /\ OldId \in Ids /\ Tail(todo) \in Seq(1 .. NGiven)
      /\ (\A i \in DOMAIN todo : i = 1) => Tail(todo) = << >>
  BY <1>1, OldIdIs DEF MoveInv
<1>3. Holders(OldId) # {} => Top(OldId) \in Stack /\ OldId \in DOMAIN rings[Top(OldId)]
  BY TopIs
<1>4. MoveTypes'
  <2>1. \A id \in Ids : older'[id] = older[id] \/ older'[id] = {}
    BY <1>1, <1>2 DEF MoveInv, MoveTypes
  <2>2. DOMAIN older' = Ids /\ \A id \in Ids : \A rec \in older'[id] : IsRecord(rec)
    BY <1>1, <2>1 DEF MoveInv, MoveTypes
  <2>3. pc' = "insert" => IsRecord(taken')
    BY <1>1, <1>2, <1>3 DEF MoveInv, MoveTypes
  <2> QED BY <1>1, <1>2, <2>2, <2>3 DEF MoveInv, MoveTypes, Busy
<1>5. Targets'
  BY <1>1, <1>2, SameMoves, SameRecords DEF MoveInv, Targets
<1>6. Unreferenced' /\ Unused' /\ There' /\ Kept'
  BY <1>1, SameMoves, SameRecords DEF MoveInv, Unreferenced, Searched, Unused, There, Kept
<1>7. Carried'
  BY <1>1, <1>3, SameMoves, SameRecords DEF MoveInv, Unreferenced, Carried
<1>8. Replaced'
  BY <1>1, SameRecords DEF Replaced, Busy, InPlace
<1> QED BY <1>4, <1>5, <1>6, <1>7, <1>8 DEF MoveInv

\* The record that is inserted has the references of the copy, and its edits.
LEMMA CopyIs == ASSUME MoveTypes, NEW rec
                PROVE  LET put == Move!Transform(rec, 0, 0)
                       IN IsRecord(put) /\ put.edits = rec.edits /\ (Clean(rec.refs) => Clean(put.refs))
<1> DEFINE put == Move!Transform(rec, 0, 0)
<1>1. IsRecord(put) /\ put.edits = rec.edits /\ put.refs = {Move!Renamed(ref, 0, 0) : ref \in rec.refs}
  BY DEF Move!Transform, IsRecord
<1>2. \A ref : Move!Renamed(ref, 0, 0)[2] = ref[2]
  BY DEF Move!Renamed
<1>3. Clean(rec.refs) => Clean(put.refs)
  BY <1>1, <1>2 DEF Clean
<1> QED BY <1>1, <1>3

\* The copy gets an id that no record has, or takes the place of its object in another ring.
LEMMA TargetIs == ASSUME MoveInv, pc = "insert", ~Move!Refused, to[2] # 0 \/ Move!Free # {}
                  PROVE  /\ Move!Target \in Ids /\ to[1] \notin Holders(Move!Target)
                         /\ Move!Target # OldId => Holders(Move!Target) = {}
                         /\ to[2] # 0 => Move!Target = to[2] /\ moved = << >>
                         /\ to[2] = 0 => Move!Target > NGiven /\ Move!Target # OldId
<1>1. /\ todo # << >> /\ to \in Stack \X (0 .. NGiven) /\ OldId \in 1 .. NGiven
  BY OldIdIs DEF MoveInv, MoveTypes, Busy
<1>2. to[1] \notin Holders(Move!Target)
  BY DEF Move!Refused, Holders, Move!Holders
<1>3. CASE to[2] # 0
  BY <1>1, <1>2, <1>3, Numbers DEF MoveInv, Targets, Move!Target
<1>4. CASE to[2] = 0
  <2>1. Move!Free \subseteq Nat /\ Move!Free # {}
    BY <1>4, Numbers DEF Move!Free
  <2>2. Move!Target = Move!Min(Move!Free)
    BY <1>4 DEF Move!Target, Move!Fresh
  <2>3. Move!Target \in Move!Free
    BY <2>1, <2>2, Least
  <2>4. Move!Target \in NGiven + 1 .. MaxCopy /\ Holders(Move!Target) = {}
    BY <2>3 DEF Move!Free, Holders
  <2> QED BY <1>1, <1>2, <1>4, <2>4, Numbers
<1> QED BY <1>3, <1>4

\* The copy is inserted: a new object, or one more record of the same, which has all edits that the record it is a copy of has.
LEMMA MoveInsert == ASSUME MoveInv, Move!Insert PROVE MoveInv'
<1> PICK T : T = Move!Target
  OBVIOUS
<1> PICK put : put = Move!Transform(taken, 0, 0)
  OBVIOUS
<1>1. /\ pc = "insert" /\ rings' = Move!Put(to[1], T, put) /\ new' = T /\ at' = <<1, 1>>
      /\ wanted' = [wanted EXCEPT ![T] = @ \cup IF \E m \in Pairs : m[1] = OldId THEN taken.edits ELSE wanted[OldId]]
      /\ outdated' = IF OldId \in caught \cup outdated THEN outdated \cup {T} ELSE outdated
      /\ pc' = IF T = OldId THEN "delete" ELSE "scan"
      /\ late' = IF OldId \in late \/ (moved # << >> /\ (OldId \in outdated \/ Top(OldId) \in fixed)) THEN late \cup {T} ELSE late
      /\ UNCHANGED <<fixed, to, todo, taken, write, moved, older, changes, caught>>
  BY DEF Move!Insert, Move!arguments, OldId, Top, Pairs
<1>2. /\ T \in Ids /\ to[1] \notin Holders(T) /\ (T # OldId => Holders(T) = {})
      /\ to[2] # 0 => T = to[2] /\ moved = << >>
      /\ to[2] = 0 => T > NGiven /\ T # OldId
  BY TargetIs DEF Move!Insert
<1>3. IsRecord(put) /\ put.edits = taken.edits /\ (Clean(taken.refs) => Clean(put.refs))
  BY CopyIs DEF MoveInv
<1>4. /\ MoveTypes /\ todo # << >> /\ OldId' = OldId /\ OldId \in 1 .. NGiven /\ OldId \in Ids
      /\ to \in Stack \X (0 .. NGiven) /\ to[1] \in Stack /\ DOMAIN wanted = Ids
  BY <1>1, OldIdIs DEF MoveInv, MoveTypes, Busy, OldId, Move!OldId
<1>5. /\ DOMAIN rings' = Stack /\ rings'[to[1]][T] = put
      /\ \A r \in Stack : DOMAIN rings'[r] \subseteq Ids /\ \A i \in DOMAIN rings'[r] : IsRecord(rings'[r][i])
      /\ \A r \in Stack, i \in Ids : i \in DOMAIN rings'[r] <=> i \in DOMAIN rings[r] \/ (r = to[1] /\ i = T)
      /\ \A r \in Stack : \A i \in DOMAIN rings[r] : ~(r = to[1] /\ i = T) => rings'[r][i] = rings[r][i]
  <2>1. MoveTypes /\ to[1] \in Stack /\ T \in Ids /\ IsRecord(put) /\ rings' = Move!Put(to[1], T, put)
    BY <1>1, <1>2, <1>3, <1>4
  <2> QED BY <2>1, PutIs
<1>6. /\ Holders(T)' = Holders(T) \cup {to[1]}
      /\ \A i \in Ids \ {T} : /\ Holders(i)' = Holders(i) /\ Top(i)' = Top(i)
                              /\ Holders(i) # {} => rings'[Top(i)][i] = rings[Top(i)][i]
      /\ (\A q \in Holders(T) : q <= to[1]) => Top(T)' = to[1]
  <2>1. MoveTypes /\ to[1] \in Stack /\ T \in Ids /\ IsRecord(put) /\ rings' = Move!Put(to[1], T, put)
    BY <1>1, <1>2, <1>3, <1>4
  <2> PICK ring : ring = to[1]
    OBVIOUS
  <2>2. ring \in Stack /\ rings' = Move!Put(ring, T, put)
    BY <2>1
  <2> QED BY <2>1, <2>2, PutTops
<1>7. MoveTypes'
  BY <1>1, <1>2, <1>4, <1>5 DEF MoveTypes, Busy
<1>8. Targets'
  BY <1>1, <1>2, <1>4, SameMoves DEF MoveInv, Targets
<1>9. Unreferenced'
  <2> SUFFICES ASSUME NEW r \in Stack \ fixed, NEW id \in DOMAIN rings'[r] \ late'
               PROVE  Clean(rings'[r][id].refs) /\ ~Searched(r, id)'
    BY <1>1, SameMoves DEF Unreferenced
  <2>1. id \in Ids /\ id \notin late
    BY <1>1, <1>5
  <2>2. ~Searched(r, id)'
    BY <1>1, <1>4, <2>1, Numbers DEF Searched, Past
  <2>3. CASE ~(r = to[1] /\ id = T)
    BY <1>5, <2>1, <2>2, <2>3 DEF MoveInv, Unreferenced
  <2>4. CASE r = to[1] /\ id = T
    <3>1. moved = << >> => Clean(put.refs)
      BY NothingMoved DEF Clean
    <3>2. ASSUME moved # << >> PROVE Clean(taken.refs)
      BY <1>1, <2>4, <3>2 DEF MoveInv, Carried
    <3> QED BY <1>3, <1>5, <2>2, <2>4, <3>1, <3>2
  <2> QED BY <2>2, <2>3, <2>4
<1>10. Carried'
  BY <1>1 DEF Carried
<1>11. Unused'
  BY <1>1, <1>4, <1>6, SameMoves DEF MoveInv, Unused
<1>12. There'
  <2> SUFFICES ASSUME NEW m \in Pairs PROVE m[2] \in caught \/ Holders(m[2])' # {}
    BY <1>1, SameMoves DEF There
  <2> PICK obj : obj = m[2]
    OBVIOUS
  <2>1. obj \in Ids /\ (obj \in caught \/ Holders(obj) # {})
    BY <1>4, PairsAre DEF MoveInv, There
  <2>2. obj \in caught \/ Holders(obj)' # {}
    BY <1>6, <2>1
  <2> QED BY <2>2
<1>13. Replaced'
  <2>1. Move!Has(to[1], T)' /\ Holders(OldId)' # {}
    BY <1>1, <1>2, <1>4, <1>5, <1>6 DEF MoveInv, Replaced, Busy, Move!Has
  <2>2. ASSUME T = OldId
        PROVE  /\ Others(OldId)' # {}
               /\ OldId \notin caught \cup outdated => \A r \in Holders(OldId)' : r = to[1] \/ (\A q \in Others(OldId)' : q <= r) =>
                                            wanted'[OldId] \subseteq rings'[r][OldId].edits
    <3>1. Others(OldId)' = Holders(OldId) /\ Holders(OldId) # {}
      BY <1>1, <1>2, <1>4, <1>6, <2>2 DEF Others, MoveInv, Replaced, Busy
    <3>2. ASSUME OldId \notin caught \cup outdated PROVE wanted'[OldId] \subseteq put.edits /\ put.edits = rings[Top(OldId)][OldId].edits
      <4>1. moved = << >>
        BY <1>2, <2>2
      <4>2. wanted[OldId] \subseteq rings[Top(OldId)][OldId].edits
        BY <1>4, <3>1, <3>2, <4>1, NothingMoved DEF MoveInv, Kept
      <4>3. taken.edits = rings[Top(OldId)][OldId].edits
        BY <1>1, <3>2 DEF MoveInv, Carried
      <4>4. wanted'[OldId] = wanted[OldId]
        BY <1>1, <1>4, <2>2, <4>1, NothingMoved
      <4> QED BY <1>3, <4>2, <4>3, <4>4
    <3>3. ASSUME NEW r \in Holders(OldId), \A q \in Holders(OldId) : q <= r PROVE rings'[r][OldId] = rings[Top(OldId)][OldId]
      <4>1. Top(OldId) = r
        BY <3>3, TopOnly
      <4>2. r \in Stack /\ OldId \in DOMAIN rings[r] /\ r # to[1]
        BY <1>2, <2>2, <3>1, <4>1, TopIs
      <4> QED BY <1>5, <4>1, <4>2
    <3>4. Holders(OldId)' = Holders(OldId) \cup {to[1]}
      BY <1>4, <1>6, <2>2
    <3> QED BY <1>5, <2>2, <3>1, <3>2, <3>3, <3>4
  <2> QED BY <1>1, <1>4, <2>1, <2>2 DEF Replaced, Busy, InPlace
<1>14. Kept'
  <2> SUFFICES ASSUME NEW id \in Ids, id \notin caught \cup outdated', \A m \in Move!Moves : m[1] # id, Holders(id)' # {},
                      ~Move!Between(id)'
               PROVE  wanted'[id] \subseteq rings'[Top(id)'][id].edits
    BY <1>1, SameMoves DEF Kept
  <2>0. id \notin outdated
    BY <1>1
  <2>1. CASE id # T
    <3>1. Move!Between(id)' <=> Move!Between(id)
      BY <1>1, <1>6, <2>1, SameMoves DEF Move!Between, Pairs, Top
    <3> QED BY <1>1, <1>4, <1>6, <2>0, <2>1, <3>1 DEF MoveInv, Kept
  <2>2. CASE id = T /\ T # OldId
    <3>1. Top(id)' = to[1]
      BY <1>2, <1>6, <2>2
    <3>2. \A m \in Pairs : m[1] # T
      <4>1. ASSUME NEW m \in Pairs PROVE m[1] # T
        BY <1>2, <1>4, NothingMoved, PairsAre, Numbers
      <4> QED BY <4>1
    <3>3. wanted[T] = {}
      BY <1>2, <1>4, <2>2, <3>2 DEF MoveInv, Unused
    <3>4. wanted'[T] \subseteq put.edits
      <4>1. CASE \E m \in Pairs : m[1] = OldId
        BY <1>1, <1>2, <1>3, <1>4, <3>3, <4>1
      <4>2. CASE ~ \E m \in Pairs : m[1] = OldId
        <5>1. OldId \notin caught \cup outdated
          BY <1>1, <2>2
        <5>2. (\A m \in Move!Moves : m[1] # OldId) /\ ~Move!Between(OldId)
          BY <4>2 DEF Move!Moves, Move!Between, Pairs
        <5>3. Holders(OldId) # {}
          BY <1>1 DEF MoveInv, Replaced, Busy
        <5>4. wanted[OldId] \subseteq rings[Top(OldId)][OldId].edits
          BY <1>4, <5>1, <5>2, <5>3 DEF MoveInv, Kept
        <5>5. taken.edits = rings[Top(OldId)][OldId].edits
          BY <1>1, <5>1 DEF MoveInv, Carried
        <5> QED BY <1>1, <1>2, <1>3, <1>4, <3>3, <4>2, <5>4, <5>5
      <4> QED BY <4>1, <4>2
    <3> QED BY <1>5, <2>2, <3>1, <3>4
  <2>3. CASE id = T /\ T = OldId
    <3>1. InPlace'
      BY <1>1, <1>4, <2>3 DEF InPlace
    <3>2. Top(id)' \in Holders(id)' /\ \A q \in Holders(id)' : q <= Top(id)'
      <4>1. \A i : Top(i)' = Move!Max(Holders(i)')
        BY DEF Top, Move!Top, Holders
      <4>2. Holders(id)' \subseteq 0 .. NRings
        BY Numbers DEF Holders, Move!Holders
      <4> QED BY <4>1, <4>2, Greatest, Numbers
    <3>3. Others(OldId)' \subseteq Holders(OldId)'
      BY DEF Others
    <3> QED BY <1>1, <1>4, <1>13, <2>0, <2>3, <3>1, <3>2, <3>3 DEF Replaced
  <2> QED BY <2>1, <2>2, <2>3
<1> QED BY <1>7, <1>8, <1>9, <1>10, <1>11, <1>12, <1>13, <1>14 DEF MoveInv

\* What the record of the copy is renamed to refers neither to the old object nor to those moved before.
LEMMA RenamedIs == ASSUME MoveInv, pc \in {"scan", "write"}, NEW rec
                   PROVE  LET put == Move!Transform(rec, OldId, new)
                          IN /\ IsRecord(put) /\ put.edits = rec.edits
                             /\ Lacks(put.refs, OldId) /\ (Clean(rec.refs) => Clean(put.refs))
<1> DEFINE put == Move!Transform(rec, OldId, new)
<1>1. IsRecord(put) /\ put.edits = rec.edits /\ put.refs = {Move!Renamed(ref, OldId, new) : ref \in rec.refs}
  BY DEF Move!Transform, IsRecord
<1>2. new # OldId
  BY DEF MoveInv, Targets
<1>3. \A ref : Move!Renamed(ref, OldId, new)[2] = IF ref[2] = OldId THEN new ELSE ref[2]
  BY DEF Move!Renamed
<1>4. \A m \in Move!Moves : m[1] # new
  <2>1. todo # << >>
    BY DEF MoveInv, MoveTypes, Busy
  <2>2. \A m \in Move!Moves : m[1] \in 1 .. NGiven
    BY PairsAre DEF MoveInv, Move!Moves, Pairs
  <2>3. Move!Moves = {} \/ new > NGiven
    BY <2>1, NothingMoved DEF MoveInv, Targets
  <2> QED BY <2>2, <2>3, Numbers
<1>5. Lacks(put.refs, OldId)
  BY <1>1, <1>2, <1>3 DEF Lacks
<1>6. Clean(rec.refs) => Clean(put.refs)
  BY <1>1, <1>3, <1>4 DEF Clean
<1> QED BY <1>1, <1>5, <1>6

\* After a record comes the next, and nothing lies between them.
LEMMA AfterIs == ASSUME at \in (Nat \ {0}) \X Nat, at' = Move!After(at)
                 PROVE  /\ at' \in (Nat \ {0}) \X Nat
                        /\ \A r \in Stack, id \in Ids : Past(r, id)' <=> Past(r, id) \/ (r = at[1] /\ id = at[2])
<1>1. at[1] \in Nat \ {0} /\ at[2] \in Nat /\ at = <<at[1], at[2]>>
  OBVIOUS
<1>2. CASE at[2] < MaxCopy
  <2>1. at' = <<at[1], at[2] + 1>>
    BY <1>2 DEF Move!After
  <2>2. at'[1] = at[1] /\ at'[2] = at[2] + 1
    BY <2>1
  <2> QED BY <1>1, <2>1, <2>2, Numbers DEF Past
<1>3. CASE ~(at[2] < MaxCopy)
  <2>1. at' = <<at[1] + 1, 1>>
    BY <1>3 DEF Move!After
  <2>2. at'[1] = at[1] + 1 /\ at'[2] = 1
    BY <2>1
  <2> QED BY <1>1, <1>3, <2>1, <2>2, Numbers DEF Past
<1> QED BY <1>2, <1>3

\* A record that refers to the old object is put on its way, and other records are passed.
LEMMA MoveScan == ASSUME MoveInv, Move!Scan PROVE MoveInv'
<1>1. /\ pc = "scan" /\ at[1] <= NRings
      /\ UNCHANGED <<fixed, rings, to, todo, taken, new, moved, older, changes, wanted, caught, late, outdated>>
  BY DEF Move!Scan, Move!arguments, Move!history
<1>2. \/ /\ Move!Has(at[1], at[2]) /\ at[1] \notin fixed /\ pc' = "write" /\ at' = at
         /\ write' = Move!Transform(Move!Here, OldId, new)
      \/ /\ at' = Move!After(at) /\ pc' = "scan" /\ write' = write
         /\ ~(Move!Has(at[1], at[2]) /\ at[1] \notin fixed) \/ Move!Transform(Move!Here, OldId, new) = Move!Here
  BY DEF Move!Scan, Move!Changes, OldId
<1>3. /\ MoveTypes /\ at \in (Nat \ {0}) \X Nat /\ at[1] \in Stack /\ OldId' = OldId
      /\ \A q \in Stack : DOMAIN rings[q] \subseteq Ids
      /\ Move!Has(at[1], at[2]) => at[2] \in Ids
  BY <1>1, Numbers DEF MoveInv, MoveTypes, OldId, Move!OldId, Move!Has
<1>4. LET put == Move!Transform(Move!Here, OldId, new)
      IN IsRecord(put) /\ put.edits = Move!Here.edits /\ Lacks(put.refs, OldId) /\ (Clean(Move!Here.refs) => Clean(put.refs))
  BY <1>1, RenamedIs
<1>5. MoveTypes'
  BY <1>1, <1>2, <1>3, <1>4, AfterIs DEF MoveTypes, Busy
<1>6. Targets' /\ Unused' /\ Kept' /\ There' /\ Replaced'
  <2>1. Targets'
    BY <1>1, <1>2, <1>3, SameMoves DEF MoveInv, Targets
  <2>2. Unused' /\ Kept' /\ There'
    BY <1>1, SameMoves, SameRecords DEF MoveInv, Unused, Kept, There
  <2>3. Replaced'
    BY <1>1, <1>2, <1>3, SameRecords DEF MoveInv, Replaced, Busy, InPlace, Move!Has
  <2> QED BY <2>1, <2>2, <2>3
<1>7. Unreferenced'
  <2> SUFFICES ASSUME NEW r \in Stack \ fixed, NEW id \in DOMAIN rings[r] \ late
               PROVE  Clean(rings[r][id].refs) /\ (Searched(r, id)' => Lacks(rings[r][id].refs, OldId))
    BY <1>1, <1>3, SameMoves DEF Unreferenced
  <2>1. Clean(rings[r][id].refs) /\ (Searched(r, id) => Lacks(rings[r][id].refs, OldId)) /\ id \in Ids
    BY <1>3 DEF MoveInv, Unreferenced
  <2>2. Searched(r, id)' => Searched(r, id) \/ (r = at[1] /\ id = at[2] /\ at' = Move!After(at))
    BY <1>1, <1>2, <1>3, <2>1, AfterIs DEF Searched, Past
  <2>3. ASSUME r = at[1], id = at[2], at' = Move!After(at) PROVE Lacks(rings[r][id].refs, OldId)
    <3>1. at' # at
      BY <1>3, <2>3 DEF Move!After
    <3>2. Move!Has(at[1], at[2]) /\ Move!Here = rings[r][id]
      BY <2>3 DEF Move!Has, Move!Here
    <3> QED BY <1>2, <1>4, <2>3, <3>1, <3>2
  <2> QED BY <2>1, <2>2, <2>3
<1>8. Carried'
  <2> SUFFICES ASSUME pc' = "write"
               PROVE  /\ at[1] \notin fixed /\ Move!Has(at[1], at[2])
                      /\ at[2] \notin late => Clean(write'.refs) /\ Lacks(write'.refs, OldId)
                      /\ at[2] \notin caught => write'.edits = rings[at[1]][at[2]].edits
    BY <1>1, <1>2, <1>3, SameMoves DEF Carried, Move!Has
  <2>1. Move!Has(at[1], at[2]) /\ at[1] \notin fixed /\ write' = Move!Transform(Move!Here, OldId, new)
    BY <1>1, <1>2
  <2>2. Move!Here = rings[at[1]][at[2]]
    BY DEF Move!Here
  <2>3. at[2] \notin late => Clean(Move!Here.refs)
    BY <1>3, <2>1, <2>2 DEF MoveInv, Unreferenced, Move!Has
  <2> QED BY <1>4, <2>1, <2>2, <2>3
<1> QED BY <1>5, <1>6, <1>7, <1>8 DEF MoveInv

\* The scan has passed the records of all rings.
LEMMA MoveScanEnds == ASSUME MoveInv, Move!ScanEnds PROVE MoveInv'
<1>1. /\ pc = "scan" /\ at[1] > NRings /\ pc' = "delete"
      /\ UNCHANGED <<fixed, rings, to, todo, taken, new, at, write, moved, older, changes, wanted, caught, late, outdated>>
  BY DEF Move!ScanEnds, Move!Scanned, Move!arguments, Move!history
<1>2. OldId' = OldId /\ new # OldId
  BY <1>1 DEF OldId, Move!OldId, MoveInv, Targets
<1>3. MoveTypes' /\ Targets' /\ Carried'
  BY <1>1, <1>2, SameMoves, SameRecords DEF MoveInv, MoveTypes, Targets, Carried, Busy
<1>4. Unused' /\ Kept' /\ There' /\ Replaced'
  <2>1. Unused' /\ Kept' /\ There'
    BY <1>1, SameMoves, SameRecords DEF MoveInv, Unused, Kept, There
  <2>2. Replaced'
    BY <1>1, <1>2, SameRecords DEF MoveInv, Replaced, Busy, InPlace, Move!Has
  <2> QED BY <2>1, <2>2
<1>5. Unreferenced'
  <2>1. \A r \in Stack, id \in Ids : Past(r, id)
    BY <1>1, Numbers DEF MoveInv, MoveTypes, Past
  <2> QED BY <1>1, <1>2, <2>1, SameMoves DEF MoveInv, MoveTypes, Unreferenced, Searched
<1> QED BY <1>3, <1>4, <1>5 DEF MoveInv

\* A record that may be cached somewhere when it is replaced is a record.
LEMMA OlderIs == ASSUME MoveTypes, NEW obj \in Ids, Holders(obj) # {}, Move!Replaced(obj)
                 PROVE  DOMAIN older' = Ids /\ \A id \in Ids : \A rec \in older'[id] : IsRecord(rec)
<1>1. PICK rec : rec = rings[Top(obj)][obj] /\ IsRecord(rec)
  BY TopIs DEF MoveTypes
<1>2. older' = older \/ older' = [older EXCEPT ![obj] = @ \cup {rec}]
  BY <1>1 DEF Move!Replaced, Move!Current, Top
<1>3. \A id \in Ids : older'[id] \subseteq older[id] \cup {rec}
  BY <1>2 DEF MoveTypes
<1>4. DOMAIN older' = Ids
  BY <1>2 DEF MoveTypes
<1> QED BY <1>1, <1>3, <1>4 DEF MoveTypes

\* A record is overwritten in its ring with what has the same edits.
LEMMA MoveWrite == ASSUME MoveInv, Move!Write PROVE MoveInv'
<1> PICK ring : ring = at[1]
  OBVIOUS
<1> PICK obj : obj = at[2]
  OBVIOUS
<1>1. /\ pc = "write" /\ pc' = "scan" /\ rings' = Move!Put(ring, obj, write) /\ at' = Move!After(at)
      /\ Move!Replaced(obj)
      /\ UNCHANGED <<fixed, to, todo, taken, new, write, moved, changes, wanted, caught, late, outdated>>
  BY DEF Move!Write, Move!arguments, Move!history
<1>2. /\ MoveTypes /\ at \in (Nat \ {0}) \X Nat /\ ring \in Stack /\ obj \in Ids /\ IsRecord(write) /\ OldId' = OldId
      /\ todo # << >> /\ OldId \in Ids /\ new \in Ids
  BY <1>1, OldIdIs DEF MoveInv, MoveTypes, Busy, OldId, Move!OldId
<1>3. /\ ring \notin fixed /\ obj \in DOMAIN rings[ring] /\ ring \in Holders(obj)
      /\ obj \notin late => Clean(write.refs) /\ Lacks(write.refs, OldId)
      /\ obj \notin caught => write.edits = rings[ring][obj].edits
  BY <1>1, <1>2 DEF MoveInv, Carried, Holders, Move!Holders, Move!Has, Stack
<1>4. /\ DOMAIN rings' = Stack /\ rings'[ring][obj] = write
      /\ \A r \in Stack : DOMAIN rings'[r] \subseteq Ids /\ \A i \in DOMAIN rings'[r] : IsRecord(rings'[r][i])
      /\ \A r \in Stack, i \in Ids : i \in DOMAIN rings'[r] <=> i \in DOMAIN rings[r] \/ (r = ring /\ i = obj)
      /\ \A r \in Stack : \A i \in DOMAIN rings[r] : ~(r = ring /\ i = obj) => rings'[r][i] = rings[r][i]
  BY <1>1, <1>2, PutIs
<1>5. \A i \in Ids : Holders(i)' = Holders(i) /\ Top(i)' = Top(i) /\ (Move!Between(i)' <=> Move!Between(i)) /\ Others(i)' = Others(i)
  <2>1. \A i \in Ids : Holders(i)' = Holders(i)
    <3>1. Holders(obj)' = Holders(obj) \cup {ring} /\ \A i \in Ids \ {obj} : Holders(i)' = Holders(i)
      BY <1>1, <1>2, PutTops
    <3> QED BY <1>3, <3>1
  <2>2. \A i \in Ids : Top(i)' = Top(i)
    BY <2>1 DEF Top, Move!Top, Holders
  <2> QED BY <1>1, <2>1, <2>2 DEF Move!Between, Top, Others
<1>6. \A r \in Stack : \A i \in DOMAIN rings[r] : i \notin caught => rings'[r][i].edits = rings[r][i].edits
  BY <1>3, <1>4
<1>7. MoveTypes'
  <2>1. DOMAIN older' = Ids /\ \A id \in Ids : \A rec \in older'[id] : IsRecord(rec)
    BY <1>1, <1>2, <1>3, OlderIs
  <2> QED BY <1>1, <1>2, <1>4, <2>1, AfterIs DEF MoveTypes, Busy
<1>8. Targets' /\ Carried'
  BY <1>1, <1>2, SameMoves DEF MoveInv, Targets, Carried
<1>9. Unused' /\ There'
  <2>1. \A m \in Pairs : m[2] \in Ids
    BY <1>2, PairsAre
  <2> QED BY <1>1, <1>5, <2>1, SameMoves DEF MoveInv, Unused, There
<1>10. Kept'
  <2> SUFFICES ASSUME NEW id \in Ids, id \notin caught \cup outdated, \A m \in Move!Moves : m[1] # id, Holders(id) # {},
                      ~Move!Between(id)
               PROVE  wanted[id] \subseteq rings'[Top(id)][id].edits
    BY <1>1, <1>5, SameMoves DEF Kept
  <2>1. Top(id) \in Stack /\ id \in DOMAIN rings[Top(id)]
    BY TopIs
  <2> QED BY <1>6, <2>1 DEF MoveInv, Kept
<1>11. Replaced'
  <2>1. Move!Has(to[1], new) /\ to[1] \in Stack /\ Holders(OldId) # {}
    BY <1>1, <1>2 DEF MoveInv, Replaced, MoveTypes, Busy
  <2>2. Move!Has(to[1], new)'
    BY <1>1, <1>2, <1>4, <2>1 DEF Move!Has
  <2>3. Holders(OldId)' # {}
    BY <1>2, <1>5, <2>1
  <2> QED BY <1>1, <2>2, <2>3 DEF Replaced, InPlace
<1>12. Unreferenced'
  <2> SUFFICES ASSUME NEW r \in Stack \ fixed, NEW id \in DOMAIN rings'[r] \ late
               PROVE  Clean(rings'[r][id].refs) /\ (Searched(r, id)' => Lacks(rings'[r][id].refs, OldId))
    BY <1>1, <1>2, SameMoves DEF Unreferenced
  <2>1. id \in Ids
    BY <1>4
  <2>2. CASE r = ring /\ id = obj
    BY <1>3, <1>4, <2>2
  <2>3. CASE ~(r = ring /\ id = obj)
    <3>1. id \in DOMAIN rings[r] /\ rings'[r][id] = rings[r][id]
      BY <1>4, <2>1, <2>3
    <3>2. Searched(r, id)' => Searched(r, id)
      BY <1>1, <1>2, <2>1, <2>3, AfterIs DEF Searched
    <3> QED BY <3>1, <3>2 DEF MoveInv, Unreferenced
  <2> QED BY <2>2, <2>3
<1> QED BY <1>7, <1>8, <1>9, <1>10, <1>11, <1>12 DEF MoveInv

\* The topmost record of the object is deleted: what has been put in another ring remains.
LEMMA MoveDelete == ASSUME MoveInv, Move!Delete PROVE MoveInv'
<1> PICK old : old = OldId
  OBVIOUS
<1> PICK by : by = new
  OBVIOUS
<1> PICK ring : ring = Top(old)
  OBVIOUS
<1>1. /\ pc = "delete" /\ pc' = "load" /\ moved' = Append(moved, <<old, by>>) /\ todo' = Tail(todo)
      /\ UNCHANGED <<fixed, to, taken, new, at, write, older, changes, wanted, caught, late, outdated>>
  BY DEF Move!Delete, Move!arguments, Move!history, OldId
<1>2. /\ MoveTypes /\ todo # << >> /\ old \in 1 .. NGiven /\ old \in Ids /\ Tail(todo) \in Seq(1 .. NGiven) /\ by \in Ids
      /\ to \in Stack \X (0 .. NGiven) /\ to[1] \in Stack /\ Holders(old) # {} /\ ring \in Stack /\ Stack \subseteq Nat
      /\ (\A i \in DOMAIN todo : i = 1) => Tail(todo) = << >>
  <2>1. MoveTypes /\ todo # << >> /\ by \in Ids /\ to \in Stack \X (0 .. NGiven) /\ Holders(old) # {}
    BY <1>1 DEF MoveInv, MoveTypes, Busy, Replaced
  <2>2. ring \in Stack
    BY <2>1, TopIs
  <2> QED BY <2>1, <2>2, OldIdIs, Numbers
<1>3. rings' = Move!Without(ring, old)
  BY <1>2 DEF Move!Delete, Move!Deleted, OldId, Top, Holders
<1>4. /\ DOMAIN rings' = Stack
      /\ \A q \in Stack : DOMAIN rings'[q] \subseteq Ids /\ \A i \in DOMAIN rings'[q] : IsRecord(rings'[q][i])
      /\ \A q \in Stack, i \in Ids : i \in DOMAIN rings'[q] <=> i \in DOMAIN rings[q] /\ ~(q = ring /\ i = old)
      /\ \A q \in Stack : \A i \in DOMAIN rings'[q] : rings'[q][i] = rings[q][i]
  BY <1>2, <1>3, WithoutIs
<1>5. /\ Holders(old)' = Holders(old) \ {ring}
      /\ \A i \in Ids \ {old} : /\ Holders(i)' = Holders(i) /\ Top(i)' = Top(i)
                                /\ Holders(i) # {} => rings'[Top(i)][i] = rings[Top(i)][i]
      /\ Holders(old)' # {} => /\ Top(old)' \in Holders(old) \ {ring}
                               /\ \A q \in Holders(old) \ {ring} : q <= Top(old)'
                               /\ rings'[Top(old)'][old] = rings[Top(old)'][old]
  BY <1>2, <1>3, WithoutTops
<1>6. /\ Pairs' = Pairs \cup {<<old, by>>}
      /\ Move!Moves' = IF old = by THEN Move!Moves ELSE Move!Moves \cup {<<old, by>>}
  <2>1. Pairs' = Pairs \cup {<<old, by>>}
    BY <1>1, <1>2, MovedOne
  <2>2. Move!Moves = {m \in Pairs : m[1] # m[2]} /\ Move!Moves' = {m \in Pairs' : m[1] # m[2]}
    BY DEF Move!Moves, Pairs
  <2> QED BY <2>1, <2>2
<1>7. to[2] # 0 => by = to[2] /\ moved = << >> /\ Tail(todo) = << >>
  BY <1>1, <1>2 DEF MoveInv, Targets
<1>8. to[2] = 0 => by > NGiven /\ by # old /\ \A m \in Pairs : m[2] > NGiven
  BY <1>1, <1>2, Numbers DEF MoveInv, Targets
<1>9. Move!Has(to[1], by) /\ to[1] \in Holders(by)
  BY <1>1, <1>2 DEF MoveInv, Replaced, Holders, Move!Holders, Stack
<1>10. by = old => InPlace /\ Others(old) # {}
  BY <1>1 DEF MoveInv, Replaced, InPlace
<1>11. MoveTypes'
  <2>1. moved' \in Seq((1 .. NGiven) \X Ids)
    BY <1>1, <1>2 DEF MoveTypes
  <2> QED BY <1>1, <1>2, <1>4, <2>1 DEF MoveTypes, Busy
<1>12. Targets'
  <2>1. CASE to[2] # 0
    <3>1. Pairs' = {<<old, by>>}
      BY <1>6, <1>7, <2>1, NothingMoved
    <3> QED BY <1>1, <1>7, <2>1, <3>1 DEF Targets
  <2>2. CASE to[2] = 0
    BY <1>1, <1>6, <1>8, <2>2 DEF Targets
  <2> QED BY <1>2, <2>1, <2>2, Numbers
<1>13. Unreferenced'
  <2> SUFFICES ASSUME NEW r \in Stack \ fixed, NEW id \in DOMAIN rings'[r] \ late PROVE Clean(rings[r][id].refs)'
    BY <1>1, <1>4 DEF Unreferenced, Searched
  <2>1. id \in DOMAIN rings[r] /\ rings'[r][id] = rings[r][id]
    BY <1>4
  <2>2. Clean(rings[r][id].refs) /\ (by # old => Lacks(rings[r][id].refs, old))
    BY <1>1, <2>1 DEF MoveInv, Unreferenced, Searched
  <2>3. \A m \in Move!Moves' : m \in Move!Moves \/ (m = <<old, by>> /\ by # old)
    BY <1>6
  <2> QED BY <2>1, <2>2, <2>3 DEF Clean, Lacks
<1>14. Carried' /\ Replaced'
  BY <1>1 DEF Carried, Replaced, Busy, InPlace
<1>15. Unused'
  <2> SUFFICES ASSUME NEW id \in Ids, Holders(id)' = {}, \A m \in Pairs' : m[1] # id PROVE wanted[id] = {}
    BY <1>1 DEF Unused
  <2>1. id # old
    <3>1. <<old, by>> \in Pairs'
      BY <1>6
    <3> QED BY <3>1
  <2>2. Holders(id) = {} /\ \A m \in Pairs : m[1] # id
    BY <1>5, <1>6, <2>1
  <2> QED BY <1>2, <2>2 DEF MoveInv, Unused
<1>16. There'
  <2>1. ASSUME NEW m \in Pairs PROVE m[2] \in caught \/ Holders(m[2])' # {}
    <3>1. m[2] # old /\ m[2] \in Ids
      BY <1>2, <1>7, <1>8, <2>1, NothingMoved, PairsAre, Numbers
    <3> QED BY <1>5, <2>1, <3>1 DEF MoveInv, There
  <2>2. Holders(by)' # {}
    <3>1. CASE by # old
      BY <1>2, <1>5, <1>9, <3>1
    <3>2. CASE by = old
      BY <1>5, <1>9, <1>10, <3>2 DEF Others
    <3> QED BY <3>1, <3>2
  <2>3. ASSUME NEW m \in Pairs' PROVE m[2] \in caught \/ Holders(m[2])' # {}
    BY <1>6, <2>1, <2>2, <2>3
  <2> QED BY <1>1, <2>3 DEF There
<1>17. Kept'
  <2> SUFFICES ASSUME NEW id \in Ids, id \notin caught \cup outdated, \A m \in Move!Moves' : m[1] # id, Holders(id)' # {},
                      ~Move!Between(id)'
               PROVE  wanted[id] \subseteq rings'[Top(id)'][id].edits
    BY <1>1 DEF Kept
  <2>1. \A m \in Move!Moves : m[1] # id
    BY <1>6
  <2>2. Move!Between(id)' <=> <<id, id>> \in Pairs' /\ Top(id)' > to[1]
    BY <1>1 DEF Move!Between, Pairs, Top
  <2>3. CASE id # old
    <3>1. ~Move!Between(id)
      BY <1>5, <1>6, <2>2, <2>3 DEF Move!Between, Pairs, Top
    <3> QED BY <1>5, <2>1, <2>3, <3>1 DEF MoveInv, Kept
  <2>4. CASE id = old
    <3>1. by = old
      <4>1. by # old => <<old, by>> \in Move!Moves'
        BY <1>6
      <4> QED BY <2>4, <4>1
    <3>2. ~(Top(old)' > to[1])
      BY <1>6, <2>2, <2>4, <3>1
    <3>3. /\ Top(old)' \in Holders(old) \ {ring} /\ Top(old)' \in Nat /\ \A q \in Holders(old) \ {ring} : q <= Top(old)'
          /\ rings'[Top(old)'][old] = rings[Top(old)'][old]
      <4>1. Holders(old) \subseteq Stack
        BY DEF Holders, Move!Holders, Stack
      <4> QED BY <1>2, <1>5, <2>4, <4>1
    <3>4. Top(old)' = to[1] \/ \A q \in Others(old) : q <= Top(old)'
      <4>1. CASE ring = to[1]
        BY <3>3, <4>1 DEF Others
      <4>2. CASE ring # to[1]
        BY <1>2, <1>9, <3>1, <3>2, <3>3, <4>2
      <4> QED BY <4>1, <4>2
    <3>5. \A r \in Holders(old) : r = to[1] \/ (\A q \in Others(old) : q <= r) => wanted[old] \subseteq rings[r][old].edits
      BY <1>10, <2>4, <3>1 DEF MoveInv, Replaced
    <3> QED BY <2>4, <3>3, <3>4, <3>5
  <2> QED BY <2>3, <2>4
<1> QED BY <1>11, <1>12, <1>13, <1>14, <1>15, <1>16, <1>17 DEF MoveInv

\* What an object that is deleted strongly referred to is deleted, too.
LEMMA MoveCascade == ASSUME MoveInv, NEW id \in Ids, Move!Cascade(id) PROVE MoveInv'
<1>1. /\ pc = "load" /\ todo = << >> /\ caught' = caught \cup {id}
      /\ UNCHANGED <<fixed, to, todo, pc, taken, new, at, write, moved, older, changes, wanted, late, outdated>>
      /\ rings' = rings \/ (Holders(id) # {} /\ rings' = Move!Without(Top(id), id))
  BY DEF Move!Cascade, Move!Deleted, Move!arguments, Holders, Top
<1>2. /\ DOMAIN rings' = Stack
      /\ \A q \in Stack : DOMAIN rings'[q] \subseteq Ids /\ \A i \in DOMAIN rings'[q] : IsRecord(rings'[q][i])
      /\ \A q \in Stack : \A i \in DOMAIN rings'[q] : i \in DOMAIN rings[q] /\ rings'[q][i] = rings[q][i]
      /\ \A i \in Ids \ {id} : /\ Holders(i)' = Holders(i) /\ Top(i)' = Top(i)
                               /\ Holders(i) # {} => rings'[Top(i)][i] = rings[Top(i)][i]
  <2>1. CASE rings' = rings
    <3>1. \A i : Holders(i)' = Holders(i) /\ Top(i)' = Top(i)
      BY <2>1 DEF Holders, Move!Holders, Move!Has, Top, Move!Top
    <3> QED BY <2>1, <3>1 DEF MoveInv, MoveTypes
  <2>2. CASE Holders(id) # {} /\ rings' = Move!Without(Top(id), id)
    <3> PICK ring : ring = Top(id)
      OBVIOUS
    <3>1. ring \in Stack /\ MoveTypes /\ rings' = Move!Without(ring, id)
      BY <2>2, TopIs DEF MoveInv
    <3>2. /\ DOMAIN rings' = Stack
          /\ \A q \in Stack : DOMAIN rings'[q] \subseteq Ids /\ \A i \in DOMAIN rings'[q] : IsRecord(rings'[q][i])
          /\ \A q \in Stack, i \in Ids : i \in DOMAIN rings'[q] <=> i \in DOMAIN rings[q] /\ ~(q = ring /\ i = id)
          /\ \A q \in Stack : \A i \in DOMAIN rings'[q] : rings'[q][i] = rings[q][i]
      BY <3>1, WithoutIs
    <3>3. \A i \in Ids \ {id} : /\ Holders(i)' = Holders(i) /\ Top(i)' = Top(i)
                                /\ Holders(i) # {} => rings'[Top(i)][i] = rings[Top(i)][i]
      BY <3>1, WithoutTops
    <3> QED BY <3>2, <3>3
  <2> QED BY <1>1, <2>1, <2>2
<1>3. MoveTypes' /\ Targets' /\ Carried' /\ Unused' /\ Replaced'
  <2>1. MoveTypes'
    BY <1>1, <1>2 DEF MoveInv, MoveTypes, Busy
  <2>2. Targets'
    BY <1>1, SameMoves DEF MoveInv, Targets
  <2>3. Carried' /\ Unused' /\ Replaced'
    BY <1>1 DEF Carried, Unused, Replaced, Busy, InPlace
  <2> QED BY <2>1, <2>2, <2>3
<1>4. Unreferenced'
  BY <1>1, <1>2, SameMoves DEF MoveInv, Unreferenced, Searched
<1>5. Kept'
  <2> SUFFICES ASSUME NEW i \in Ids, i \notin caught' \cup outdated, \A m \in Move!Moves : m[1] # i, Holders(i)' # {},
                      ~Move!Between(i)'
               PROVE  wanted[i] \subseteq rings'[Top(i)'][i].edits
    BY <1>1, SameMoves DEF Kept
  <2>1. i # id /\ i \notin caught
    BY <1>1
  <2>2. ~Move!Between(i)
    BY <1>1, <1>2, <2>1 DEF Move!Between, Top
  <2> QED BY <1>2, <2>1, <2>2 DEF MoveInv, Kept
<1>6. There'
  <2> SUFFICES ASSUME NEW m \in Pairs PROVE m[2] \in caught' \/ Holders(m[2])' # {}
    BY <1>1, SameMoves DEF There
  <2>1. m[2] \in Ids
    BY PairsAre DEF MoveInv
  <2> QED BY <1>1, <1>2, <2>1 DEF MoveInv, There
<1> QED BY <1>3, <1>4, <1>5, <1>6 DEF MoveInv

\* A client edits the topmost record, or puts it with the edit into a ring above.
LEMMA MoveEdit == ASSUME MoveInv, NEW id \in Ids, NEW ref, Move!Edit(id, ref) PROVE MoveInv'
<1> PICK ring : ring = Move!Min(Move!Writable(id))
  OBVIOUS
<1> PICK rec : rec = rings[Top(id)][id]
  OBVIOUS
<1> PICK put : put = [rec EXCEPT !.edits = @ \cup {changes + 1}, !.refs = @ \cup ref]
  OBVIOUS
<1>1. /\ Holders(id) # {} /\ Move!Writable(id) # {}
      /\ rings' = Move!Put(ring, id, put) /\ changes' = changes + 1
      /\ wanted' = [wanted EXCEPT ![id] = @ \cup {changes + 1}]
      /\ caught' = IF Move!OnItsWay(id) THEN caught \cup {id} ELSE caught
      /\ late' = IF pc \in {"scan", "write", "delete"} \/ moved # << >> THEN late \cup {id} ELSE late
      /\ Move!Replaced(id)
      /\ UNCHANGED <<fixed, to, todo, pc, taken, new, at, write, moved, outdated>>
  BY DEF Move!Edit, Move!arguments, Holders, Top
<1>2. /\ MoveTypes /\ OldId' = OldId /\ to \in Stack \X (0 .. NGiven) /\ to[1] \in Stack /\ DOMAIN wanted = Ids
      /\ changes \in Nat
      /\ Busy => OldId \in Ids /\ todo # << >>
  BY <1>1, OldIdIs DEF MoveInv, MoveTypes, Busy, OldId, Move!OldId
<1>3. /\ Top(id) \in Holders(id) /\ Top(id) \in Stack /\ id \in DOMAIN rings[Top(id)] /\ \A r \in Holders(id) : r <= Top(id)
  BY <1>1, TopIs
<1>4. IsRecord(rec)
  BY <1>2, <1>3 DEF MoveTypes
<1>5. IsRecord(put) /\ put.edits = rec.edits \cup {changes + 1}
  <2>1. put = [edits |-> rec.edits \cup {changes + 1}, refs |-> rec.refs \cup ref, nulls |-> rec.nulls]
    BY <1>4 DEF IsRecord
  <2> QED BY <2>1 DEF IsRecord
<1>6. ring \in Stack /\ ring \notin fixed /\ Top(id) <= ring /\ \A q \in Holders(id) : q <= ring
  <2>1. Move!Writable(id) \subseteq Nat /\ \A r \in Move!Writable(id) : r \in Stack /\ r \notin fixed /\ Top(id) <= r
    BY <1>3, Numbers DEF Move!Writable, Top
  <2>2. ring \in Move!Writable(id)
    BY <1>1, <2>1, Least
  <2>3. Holders(id) \subseteq Stack /\ Stack \subseteq Nat
    BY Numbers DEF Holders, Move!Holders
  <2>4. ring \in Stack /\ ring \notin fixed /\ Top(id) <= ring
    BY <2>1, <2>2
  <2>5. \A q \in Holders(id) : q <= ring
    BY <1>3, <2>3, <2>4
  <2> QED BY <2>4, <2>5
<1>7. /\ DOMAIN rings' = Stack /\ rings'[ring][id] = put
      /\ \A r \in Stack : DOMAIN rings'[r] \subseteq Ids /\ \A i \in DOMAIN rings'[r] : IsRecord(rings'[r][i])
      /\ \A r \in Stack, i \in Ids : i \in DOMAIN rings'[r] <=> i \in DOMAIN rings[r] \/ (r = ring /\ i = id)
      /\ \A r \in Stack : \A i \in DOMAIN rings[r] : ~(r = ring /\ i = id) => rings'[r][i] = rings[r][i]
  <2>1. MoveTypes /\ ring \in Stack /\ IsRecord(put) /\ rings' = Move!Put(ring, id, put)
    BY <1>1, <1>2, <1>5, <1>6
  <2> QED BY <2>1, PutIs
<1>8. /\ Holders(id)' = Holders(id) \cup {ring} /\ Top(id)' = ring
      /\ \A i \in Ids \ {id} : /\ Holders(i)' = Holders(i) /\ Top(i)' = Top(i)
                               /\ Holders(i) # {} => rings'[Top(i)][i] = rings[Top(i)][i]
  <2>1. MoveTypes /\ ring \in Stack /\ IsRecord(put) /\ rings' = Move!Put(ring, id, put)
    BY <1>1, <1>2, <1>5, <1>6
  <2> QED BY <1>6, <2>1, PutTops
<1>9. \A i \in Ids, r \in Stack : i \in DOMAIN rings'[r] /\ ~(r = ring /\ i = id) => i \in DOMAIN rings[r] /\ rings'[r][i] = rings[r][i]
  BY <1>7
<1>10. /\ \A i \in Ids : Holders(i) \subseteq Holders(i)'
      /\ \A r \in Stack : DOMAIN rings[r] \subseteq Ids
  <2>1. \A i \in Ids : Holders(i) \subseteq Holders(i)'
    BY <1>8
  <2>2. \A r \in Stack : DOMAIN rings[r] \subseteq Ids
    BY <1>2 DEF MoveTypes
  <2> QED BY <2>1, <2>2
<1>11. MoveTypes'
  <2>1. DOMAIN wanted' = Ids /\ changes' \in Nat
    BY <1>1, <1>2
  <2>2. /\ DOMAIN rings' = Stack
        /\ \A r \in Stack : DOMAIN rings'[r] \subseteq Ids /\ \A i \in DOMAIN rings'[r] : IsRecord(rings'[r][i])
    BY <1>7
  <2>3. UNCHANGED <<to, todo, pc, taken, new, at, write, moved>>
    BY <1>1
  <2>4. DOMAIN older' = Ids /\ \A i \in Ids : \A old \in older'[i] : IsRecord(old)
    BY <1>1, <1>2, OlderIs
  <2> QED BY <1>2, <2>1, <2>2, <2>3, <2>4 DEF MoveTypes, Busy
<1>12. Targets'
  <2>1. ASSUME to[2] # 0, todo # << >>, pc \in {"load", "insert"}, to[2] # OldId PROVE Holders(to[2])' = {}
    <3> PICK target : target = to[2]
      OBVIOUS
    <3>1. Holders(target) = {} /\ target \in Ids
      BY <1>2, <2>1, Numbers DEF MoveInv, Targets
    <3>2. Holders(target)' = {}
      BY <1>1, <1>8, <3>1
    <3> QED BY <1>1, <3>2
  <2> QED BY <1>1, <1>2, <2>1, SameMoves DEF MoveInv, Targets
<1>13. Unreferenced'
  <2> SUFFICES ASSUME NEW r \in Stack \ fixed, NEW i \in DOMAIN rings'[r] \ late'
               PROVE  Clean(rings'[r][i].refs) /\ (Searched(r, i) => Lacks(rings'[r][i].refs, OldId))
    BY <1>1, <1>2, SameMoves DEF Unreferenced, Searched, Past
  <2>1. i \in Ids /\ i \notin late
    BY <1>1, <1>7
  <2>2. CASE r = ring /\ i = id
    <3>1. moved = << >> /\ pc \notin {"scan", "write", "delete"}
      BY <1>1, <2>2
    <3> QED BY <3>1, NothingMoved DEF Clean, Searched
  <2>3. CASE ~(r = ring /\ i = id)
    <3>1. i \in DOMAIN rings[r] /\ rings'[r][i] = rings[r][i]
      BY <1>9, <2>1, <2>3
    <3> QED BY <2>1, <3>1 DEF MoveInv, Unreferenced
  <2> QED BY <2>2, <2>3
<1>14. Carried'
  <2>1. ASSUME pc = "write"
        PROVE  /\ at[1] \notin fixed /\ Move!Has(at[1], at[2])'
               /\ at[2] \notin late' => Clean(write.refs) /\ Lacks(write.refs, OldId)
               /\ at[2] \notin caught' => write.edits = rings'[at[1]][at[2]].edits
    <3>1. at[1] \in Stack /\ at[2] \in Ids /\ at[2] \in DOMAIN rings[at[1]]
      <4>1. at[1] \in Stack /\ at[2] \in Ids
        BY <1>2, <2>1 DEF MoveTypes
      <4> QED BY <2>1, <4>1 DEF MoveInv, Carried, Move!Has
    <3>2. Move!Has(at[1], at[2])'
      BY <1>1, <1>7, <3>1 DEF Move!Has
    <3>3. ASSUME at[2] \notin caught' PROVE write.edits = rings'[at[1]][at[2]].edits
      <4>1. at[2] # id /\ at[2] \notin caught
        BY <1>1, <2>1, <3>3 DEF Move!OnItsWay
      <4> QED BY <1>7, <2>1, <3>1, <4>1 DEF MoveInv, Carried
    <3> QED BY <1>1, <2>1, <3>2, <3>3 DEF MoveInv, Carried
  <2>2. ASSUME pc = "insert"
        PROVE  /\ OldId \notin caught' \cup outdated => taken.edits = rings'[Top(OldId)'][OldId].edits
               /\ moved # << >> /\ OldId \notin late' \cup outdated /\ Top(OldId)' \notin fixed => Clean(taken.refs)
    <3> PICK old : old = OldId
      OBVIOUS
    <3>1. old \in Ids /\ Holders(old) # {}
      BY <1>2, <2>2 DEF MoveInv, Replaced, Busy
    <3>2. ASSUME old \notin caught' \cup outdated PROVE taken.edits = rings'[Top(old)'][old].edits
      <4>1. old # id /\ old \notin caught
        BY <1>1, <2>2, <3>2 DEF Move!OnItsWay, OldId
      <4> QED BY <1>8, <2>2, <3>1, <3>2, <4>1 DEF MoveInv, Carried
    <3>3. ASSUME moved # << >>, old \notin late' \cup outdated, Top(old)' \notin fixed PROVE Clean(taken.refs)
      <4>1. old # id /\ old \notin late
        BY <1>1, <3>3
      <4> QED BY <1>8, <2>2, <3>1, <3>3, <4>1 DEF MoveInv, Carried
    <3> QED BY <1>2, <3>2, <3>3
  <2> QED BY <1>1, <1>2, <2>1, <2>2, SameMoves DEF Carried
<1>15. Unused'
  <2> SUFFICES ASSUME todo # << >>, NEW i \in Ids, Holders(i)' = {}, \A m \in Pairs : m[1] # i PROVE wanted'[i] = {}
    BY <1>1, SameMoves DEF Unused
  <2>1. i # id /\ Holders(i) = {}
    BY <1>8
  <2> QED BY <1>1, <1>2, <2>1 DEF MoveInv, Unused
<1>16. Kept'
  <2> SUFFICES ASSUME NEW i \in Ids, i \notin caught' \cup outdated, \A m \in Move!Moves : m[1] # i, Holders(i)' # {},
                      ~Move!Between(i)'
               PROVE  wanted'[i] \subseteq rings'[Top(i)'][i].edits
    BY <1>1, SameMoves DEF Kept
  <2>1. i \notin caught
    BY <1>1
  <2>2. Move!Between(i) <=> <<i, i>> \in Pairs /\ Top(i) > to[1]
    BY DEF Move!Between, Pairs, Top
  <2>3. Move!Between(i)' <=> <<i, i>> \in Pairs /\ Top(i)' > to[1]
    BY <1>1 DEF Move!Between, Pairs, Top
  <2>4. CASE i = id
    <3>1. ~Move!Between(id)
      BY <1>2, <1>3, <1>6, <1>8, <2>2, <2>3, <2>4, Numbers
    <3>2. wanted[id] \subseteq rec.edits
      BY <1>1, <2>1, <2>4, <3>1 DEF MoveInv, Kept
    <3>3. wanted'[id] = wanted[id] \cup {changes + 1}
      BY <1>1, <1>2
    <3>4. wanted'[id] \subseteq put.edits
      BY <1>5, <3>2, <3>3
    <3> QED BY <1>7, <1>8, <2>4, <3>4
  <2>5. CASE i # id
    <3>1. Holders(i) # {} /\ ~Move!Between(i) /\ Top(i)' = Top(i) /\ rings'[Top(i)][i] = rings[Top(i)][i]
      BY <1>8, <2>2, <2>3, <2>5
    <3>2. wanted'[i] = wanted[i]
      BY <1>1, <1>2, <2>5
    <3> QED BY <2>1, <3>1, <3>2 DEF MoveInv, Kept
  <2> QED BY <2>4, <2>5
<1>17. Replaced'
  <2>1. ASSUME pc \in {"scan", "write", "delete"} PROVE Move!Has(to[1], new)'
    <3>1. Move!Has(to[1], new) /\ new \in Ids
      BY <1>2, <2>1 DEF MoveInv, Replaced, MoveTypes
    <3> QED BY <1>1, <1>2, <1>7, <3>1 DEF Move!Has
  <2>2. ASSUME Busy PROVE Holders(OldId)' # {}
    <3> PICK old : old = OldId
      OBVIOUS
    <3>1. old \in Ids /\ Holders(old) # {}
      BY <1>2, <2>2 DEF MoveInv, Replaced
    <3>2. Holders(old)' # {}
      BY <1>10, <3>1
    <3> QED BY <1>2, <3>2
  <2>3. ASSUME InPlace
        PROVE  /\ Others(OldId)' # {}
               /\ OldId \notin caught' \cup outdated => \A r \in Holders(OldId)' : r = to[1] \/ (\A q \in Others(OldId)' : q <= r) =>
                                             wanted'[OldId] \subseteq rings'[r][OldId].edits
    <3> PICK old : old = OldId
      OBVIOUS
    <3>1. /\ old \in Ids /\ Others(old) # {} /\ Move!OnItsWay(old)
          /\ old \notin caught \cup outdated => \A r \in Holders(old) : r = to[1] \/ (\A q \in Others(old) : q <= r) =>
                                     wanted[old] \subseteq rings[r][old].edits
      BY <1>2, <2>3 DEF MoveInv, Replaced, InPlace, Busy, Move!OnItsWay, OldId
    <3>2. Others(old) = Holders(old) \ {to[1]} /\ Others(old)' = Holders(old)' \ {to[1]}
      BY <1>1 DEF Others
    <3>3. Others(old)' # {}
      BY <1>10, <3>1, <3>2
    <3>4. ASSUME old \notin caught' \cup outdated, NEW r \in Holders(old)', r = to[1] \/ (\A q \in Others(old)' : q <= r)
          PROVE  wanted'[old] \subseteq rings'[r][old].edits
      <4>1. old # id /\ old \notin caught
        BY <1>1, <3>1, <3>4
      <4>2. Holders(old)' = Holders(old) /\ wanted'[old] = wanted[old]
        BY <1>1, <1>2, <1>8, <3>1, <4>1
      <4>3. r \in Stack /\ old \in DOMAIN rings[r]
        BY <3>4, <4>2 DEF Holders, Move!Holders, Move!Has, Stack
      <4> QED BY <1>7, <3>1, <3>2, <3>4, <4>1, <4>2, <4>3
    <3> QED BY <1>2, <3>3, <3>4
  <2>4. UNCHANGED <<pc, new, to, outdated>> /\ OldId' = OldId
    BY <1>1, <1>2
  <2> QED BY <2>1, <2>2, <2>3, <2>4 DEF Replaced, Busy, InPlace
<1>18. There'
  <2> SUFFICES ASSUME NEW m \in Pairs PROVE m[2] \in caught' \/ Holders(m[2])' # {}
    BY <1>1, SameMoves DEF There
  <2> PICK obj : obj = m[2]
    OBVIOUS
  <2>1. obj \in Ids /\ (obj \in caught \/ Holders(obj) # {})
    BY <1>2, PairsAre DEF MoveInv, There
  <2>2. obj \in caught' \/ Holders(obj)' # {}
    BY <1>1, <1>10, <2>1
  <2> QED BY <2>2
<1> QED BY <1>11, <1>12, <1>13, <1>14, <1>15, <1>16, <1>17, <1>18 DEF MoveInv

\* Nothing changes.
LEMMA MoveStutters == ASSUME MoveInv, UNCHANGED Move!reinsvars PROVE MoveInv'
<1>1. UNCHANGED <<fixed, rings, todo, to, pc, taken, new, at, write, moved, older, changes, wanted, caught, late, outdated>>
  BY DEF Move!reinsvars
<1>2. OldId' = OldId
  BY <1>1 DEF OldId, Move!OldId
<1>3. MoveTypes' /\ Targets'
  BY <1>1, <1>2, SameMoves, SameRecords DEF MoveInv, MoveTypes, Busy, Targets
<1>4. Unreferenced' /\ Carried'
  BY <1>1, <1>2, SameMoves, SameRecords DEF MoveInv, Unreferenced, Searched, Past, Carried, Move!Has
<1>5. Unused' /\ There' /\ Kept' /\ Replaced'
  BY <1>1, <1>2, SameMoves, SameRecords DEF MoveInv, Unused, There, Kept, Replaced, Busy, InPlace, Move!Has
<1> QED BY <1>3, <1>4, <1>5 DEF MoveInv

\* All steps preserve the invariant.
LEMMA MoveStep == ASSUME MoveInv, [Move!Next]_(Move!reinsvars) PROVE MoveInv'
<1>1. CASE Move!Load
  BY <1>1, MoveLoad
<1>2. CASE Move!Insert
  BY <1>2, MoveInsert
<1>3. CASE Move!InsertRefused \/ Move!DeleteRefused \/ Move!CascadeRefused
  BY <1>3, MoveFails DEF Move!InsertRefused, Move!DeleteRefused, Move!CascadeRefused
<1>4. CASE Move!Scan
  BY <1>4, MoveScan
<1>5. CASE Move!ScanEnds
  BY <1>5, MoveScanEnds
<1>6. CASE Move!Write
  BY <1>6, MoveWrite
<1>7. CASE Move!Delete
  BY <1>7, MoveDelete
<1>8. ASSUME NEW id \in Ids, Move!Cascade(id) PROVE MoveInv'
  BY <1>8, MoveCascade
<1>9. ASSUME NEW id \in Ids, NEW ref, Move!Edit(id, ref) PROVE MoveInv'
  BY <1>9, MoveEdit
<1>10. CASE UNCHANGED Move!reinsvars
  BY <1>10, MoveStutters
<1> QED BY <1>1, <1>2, <1>3, <1>4, <1>5, <1>6, <1>7, <1>8, <1>9, <1>10 DEF Move!Next, Ids

\* What holds of all steps holds of a move that is done.
LEMMA MoveSound == MoveInv => MovesAreSound
<1> SUFFICES ASSUME MoveInv, Move!Done PROVE Move!MovesAreSound
  BY DEF MovesAreSound, Move!MovesAreSound, Move!NoReferenceLeft, Move!EditsKept, Move!MovedIsThere
<1>1. Move!NoReferenceLeft
  BY DEF MoveInv, Unreferenced, Clean, Move!NoReferenceLeft, Stack
<1>2. Move!EditsKept
  BY DEF MoveInv, Kept, Move!EditsKept, Holders, Top, Ids
<1>3. Move!MovedIsThere
  BY DEF MoveInv, There, Move!MovedIsThere, Pairs, Holders
<1> QED BY <1>1, <1>2, <1>3 DEF Move!MovesAreSound

(* Moving objects, with clients editing the same objects, and with any number of rings, objects, databases, lists and edits: records
   that can be written do not refer to what was moved unless they were edited or copied late, edits are in the record that counts
   of their object unless its data was on its way, and what was moved is there unless it was deleted as part of something else
   (MovesAreSound of Reinsertion). *)
THEOREM Moved == Move!Spec => []MovesAreSound
<1>1. Move!Init => MoveInv
  BY MoveInit
<1>2. MoveInv /\ [Move!Next]_(Move!reinsvars) => MoveInv'
  BY MoveStep
<1>3. MoveInv => MovesAreSound
  BY MoveSound
<1> QED BY <1>1, <1>2, <1>3, PTL DEF Move!Spec

----------------------------------------------------------------------------
\* The instances, the saves of the flows, and the operations on their way (Session)
Pos == DOMAIN inst
ToSet(s) == Sess!ToSet(s)
Pc(t) == job[t].pc
Saving(t) == Pc(t) \in {"insert", "store", "update"}
Sent(t) == IF Saving(t) THEN job[t].sent ELSE {}
Line(t) == IF Saving(t) THEN job[t].queue ELSE << >>
Born(t) == IF Saving(t) THEN job[t].born ELSE << >>
Given(t) == IF Saving(t) THEN job[t].ids ELSE << >>
Waits(t) == IF Pc(t) = "store" THEN ToSet(Line(t)) ELSE {}
Carriers == ops \cup UNION {Sent(t) : t \in Threads}

\* The types of the variables.
Instances == [id : Nat, edits : Seq(Nat), inblock : BOOLEAN, deleted : BOOLEAN, obsolete : BOOLEAN]
Messages == [op : {"upd", "del"}, id : 1 .. MaxId, edits : Seq(Nat), by : Threads \cup {"nobody"}]
Entries == [id : Nat, of : Nat, data : Seq(Nat)]
IsSave(j) == /\ j = [pc |-> j.pc, discard |-> j.discard, all |-> j.all, before |-> j.before, sent |-> j.sent,
                     queue |-> j.queue, born |-> j.born, ids |-> j.ids]
             /\ j.pc \in {"insert", "store", "update"} /\ j.sent \subseteq Messages /\ j.queue \in Seq(Entries)
             /\ j.born \in Seq(Nat) /\ j.ids \in Seq(Nat)
JobTypes == DOMAIN job = Threads /\ \A t \in Threads : Pc(t) \in {"idle", "again"} \/ IsSave(job[t])
StoreTypes == /\ records \in [1 .. MaxId -> Seq(Nat)] /\ lastid \in Nat /\ lastid <= MaxId /\ accepted \in Nat
              /\ ops \subseteq Messages /\ \A m \in ops : m.op = "del" => m.edits = << >>
InstTypes == /\ inst \in Seq(Instances) /\ staging \subseteq Pos
             /\ DOMAIN held = Threads /\ \A t \in Threads : held[t] = 0 \/ held[t] \in Pos

\* Copies: one staged for an object, and others are obsolete unless a block made them.
Copies == /\ \A o \in staging : ~inst[o].inblock
          /\ \A o \in Pos \ staging : inst[o].id # 0 /\ ~inst[o].inblock => inst[o].obsolete
          /\ \A o, p \in staging : inst[o].id # 0 /\ inst[o].id = inst[p].id => o = p
          /\ \A o \in Pos : inst[o].id <= lastid /\ (inst[o].inblock => inst[o].id # 0)

\* Newborns that a save has taken from the staging area
Newborns == \A t \in Threads :
               /\ \A i \in DOMAIN Born(t) : /\ Born(t)[i] \in Pos \ staging
                                            /\ inst[Born(t)[i]].id = 0 /\ ~inst[Born(t)[i]].inblock
               /\ \A i, j \in DOMAIN Born(t) : Born(t)[i] = Born(t)[j] => i = j
               /\ \A u \in Threads \ {t} : \A i \in DOMAIN Born(t), j \in DOMAIN Born(u) : Born(t)[i] # Born(u)[j]

\* Steps of a save, and the insert mode of the block's session
Stages == /\ \A t \in Threads : /\ Pc(t) = "insert" => /\ DOMAIN Line(t) = DOMAIN Born(t) /\ Given(t) = << >>
                                                       /\ \A i \in DOMAIN Line(t) : Line(t)[i].of = 0
                                /\ Pc(t) = "update" => Line(t) = << >> /\ Sent(t) = {}
                                /\ \A m \in Sent(t) : m.op = "upd" /\ m.by = t
                                /\ Pc(t) \in {"store", "update"} => DOMAIN Given(t) = DOMAIN Born(t)
          /\ mode \in {"off", "dead"} \cup Threads
          /\ mode \in Threads => Pc(mode) = "store"
          /\ ~lite => mode = "off"
          /\ \A m \in ops : m.op = "upd" /\ m.by \in Threads => Pc(m.by) = "update"

\* Ids that were given to newborns
Numbered == \A t \in Threads :
               /\ \A i \in DOMAIN Given(t) : Given(t)[i] \in 1 .. lastid
               /\ \A i, j \in DOMAIN Given(t) : Given(t)[i] = Given(t)[j] => i = j
               /\ \A u \in Threads \ {t} : \A i \in DOMAIN Given(t) : \A q \in Waits(u) : q.id # Given(t)[i]

\* Objects with an id and without a record
Unborn == /\ \A id \in 1 .. MaxId : id > lastid => records[id] = << >>
          /\ \A m \in Carriers : m.id <= lastid
          /\ \A t \in Threads : \A q \in Waits(t) :
                /\ q.id \in 1 .. lastid /\ records[q.id] = << >>
                /\ q.of # 0 => q.of \in Pos /\ inst[q.of].inblock
                /\ \A o \in staging : inst[o].id # q.id
                /\ \A m \in Carriers : m.id # q.id
                /\ \A u \in Threads \ {t} : \A p \in Waits(u) : p.id # q.id
          /\ \A t \in Threads : Pc(t) = "store" => \A i, j \in DOMAIN Line(t) : Line(t)[i].id = Line(t)[j].id => i = j

\* Edits are counted up, and those of one place come in order.
Rising(s) == \A i, j \in DOMAIN s : i < j => s[i] < s[j]
Made(s) == \A i \in DOMAIN s : s[i] <= accepted
Under(r, s) == \A i \in DOMAIN r, j \in DOMAIN s : r[i] < s[j]
Counted == /\ \A id \in 1 .. MaxId : Made(records[id])
           /\ \A m \in Carriers : Made(m.edits) /\ Rising(m.edits)
           /\ \A t \in Threads : \A q \in ToSet(Line(t)) : Made(q.data) /\ Rising(q.data)
           /\ \A o \in Pos : Made(inst[o].edits) /\ Rising(inst[o].edits)

\* One operation for an object, and what it holds comes after the record and before what is staged.
Alone == /\ \A m, n \in ops : m.id = n.id /\ m.id \notin overlap => m = n
         /\ \A t \in Threads : \A m, n \in Sent(t) : m.id = n.id /\ m.id \notin overlap => m = n
         /\ \A t \in Threads : \A u \in Threads \ {t} : \A m \in Sent(t), n \in Sent(u) : m.id = n.id => m.id \in overlap
         /\ \A t \in Threads : \A m \in Sent(t), n \in ops : m.id = n.id => m.id \in overlap
InOrder == \A id \in 1 .. MaxId \ overlap :
              /\ Rising(records[id])
              /\ \A m \in Carriers : m.id = id => Under(records[id], m.edits)
              /\ \A o \in staging : inst[o].id = id => /\ Under(records[id], inst[o].edits)
                                                       /\ \A m \in Carriers : m.id = id => Under(m.edits, inst[o].edits)

\* Where an edit is
IsStaged(e) == \E o \in staging : e \in ToSet(inst[o].edits)
IsSent(e) == \E m \in Carriers : e \in ToSet(m.edits)
IsQueued(e) == \E t \in Threads : \E q \in ToSet(Line(t)) : e \in ToSet(IF q.of = 0 THEN q.data ELSE inst[q.of].edits)
IsStored(e) == \E id \in 1 .. MaxId : e \in ToSet(records[id])
Somewhere(e) == IsStaged(e) \/ IsSent(e) \/ IsQueued(e) \/ IsStored(e) \/ e \in told \/ e \in slipped
Covered == \A e \in 1 .. accepted : Somewhere(e)

SessTypes == InstTypes /\ JobTypes /\ StoreTypes
SessInv == SessTypes /\ Copies /\ Newborns /\ Stages /\ Numbered /\ Unborn /\ Counted /\ Alone /\ InOrder /\ Covered

----------------------------------------------------------------------------
\* The constants.
LEMMA SessionNumbers == /\ Old \in Nat /\ MaxId \in Nat /\ Old <= MaxId
                        /\ "off" \notin Threads /\ "dead" \notin Threads /\ "nobody" \notin Threads
  BY RecordsAssumption DEF Sess!SessionAssumption

\* Elements of sequences.
LEMMA ElementsOf == ASSUME NEW S, NEW s \in Seq(S)
                    PROVE  /\ ToSet(s) \subseteq S /\ \A i \in DOMAIN s : s[i] \in S /\ s[i] \in ToSet(s)
                           /\ \A x \in ToSet(s) : \E i \in DOMAIN s : s[i] = x
  BY DEF ToSet, Sess!ToSet
\* The empty sequence has none.
LEMMA ElementsOfEmpty == ToSet(<< >>) = {}
  BY DEF ToSet, Sess!ToSet
\* An element that is appended comes last.
LEMMA Appended == ASSUME NEW S, NEW s \in Seq(S), NEW x \in S
                  PROVE  LET a == Append(s, x) n == Len(s) + 1
                         IN /\ a \in Seq(S) /\ n \in Nat \ {0} /\ n \notin DOMAIN s /\ DOMAIN a = DOMAIN s \cup {n}
                            /\ a[n] = x /\ (\A i \in DOMAIN s : a[i] = s[i] /\ i < n) /\ ToSet(a) = ToSet(s) \cup {x}
<1> DEFINE a == Append(s, x)
           n == Len(s) + 1
<1>1. /\ a \in Seq(S) /\ n \in Nat \ {0} /\ n \notin DOMAIN s /\ DOMAIN a = DOMAIN s \cup {n}
      /\ a[n] = x /\ (\A i \in DOMAIN s : a[i] = s[i] /\ i < n)
  OBVIOUS
<1> HIDE DEF a, n
<1>2. ToSet(a) = ToSet(s) \cup {x}
  BY <1>1 DEF ToSet, Sess!ToSet
<1> QED BY <1>1, <1>2 DEF a, n
\* A joined sequence has the elements of both, in their order.
LEMMA Joined == ASSUME NEW S, NEW s \in Seq(S), NEW t \in Seq(S)
                PROVE  /\ s \o t \in Seq(S)
                       /\ DOMAIN (s \o t) = 1 .. (Len(s) + Len(t))
                       /\ \A i \in DOMAIN s : i \in DOMAIN (s \o t) /\ (s \o t)[i] = s[i]
                       /\ \A i \in DOMAIN t : Len(s) + i \in DOMAIN (s \o t) /\ (s \o t)[Len(s) + i] = t[i]
                       /\ \A i \in DOMAIN (s \o t) : i \in DOMAIN s \/ (i - Len(s) \in DOMAIN t /\ (s \o t)[i] = t[i - Len(s)])
                       /\ ToSet(s \o t) = ToSet(s) \cup ToSet(t)
<1>1. /\ s \o t \in Seq(S) /\ Len(s \o t) = Len(s) + Len(t) /\ Len(s) \in Nat /\ Len(t) \in Nat
      /\ \A i \in 1 .. Len(s) + Len(t) : (s \o t)[i] = IF i <= Len(s) THEN s[i] ELSE t[i - Len(s)]
      /\ DOMAIN (s \o t) = 1 .. (Len(s) + Len(t)) /\ DOMAIN s = 1 .. Len(s) /\ DOMAIN t = 1 .. Len(t)
  BY ConcatProperties
<1>2. \A i \in DOMAIN s : i \in DOMAIN (s \o t) /\ (s \o t)[i] = s[i]
  BY <1>1
<1>3. \A i \in DOMAIN t : Len(s) + i \in DOMAIN (s \o t) /\ (s \o t)[Len(s) + i] = t[i]
  BY <1>1
<1>4. \A i \in DOMAIN (s \o t) : i \in DOMAIN s \/ (i - Len(s) \in DOMAIN t /\ (s \o t)[i] = t[i - Len(s)])
  BY <1>1
<1>5. ToSet(s \o t) = ToSet(s) \cup ToSet(t)
  <2>1. PICK c : c = s \o t OBVIOUS
  <2>2. ToSet(s) \subseteq ToSet(c)
    BY <2>1, <1>2 DEF ToSet, Sess!ToSet
  <2>3. ToSet(t) \subseteq ToSet(c)
    BY <2>1, <1>3 DEF ToSet, Sess!ToSet
  <2>4. ASSUME NEW i \in DOMAIN c PROVE c[i] \in ToSet(s) \cup ToSet(t)
    <3>1. CASE i \in DOMAIN s
      BY <3>1, <2>1, <1>2 DEF ToSet, Sess!ToSet
    <3>2. CASE i - Len(s) \in DOMAIN t /\ c[i] = t[i - Len(s)]
      BY <3>2 DEF ToSet, Sess!ToSet
    <3> QED BY <3>1, <3>2, <2>4, <2>1, <1>4
  <2>5. ToSet(c) \subseteq ToSet(s) \cup ToSet(t)
    BY <2>4 DEF ToSet, Sess!ToSet
  <2> QED BY <2>1, <2>2, <2>3, <2>5
<1> QED BY <1>1, <1>2, <1>3, <1>4, <1>5
\* A sequence is its first element and the others, which move one place.
LEMMA HeadAndTail == ASSUME NEW S, NEW s \in Seq(S), s # << >>
                     PROVE  /\ Head(s) \in S /\ Tail(s) \in Seq(S) /\ 1 \in DOMAIN s /\ Head(s) = s[1]
                            /\ \A i \in DOMAIN Tail(s) : i + 1 \in DOMAIN s /\ Tail(s)[i] = s[i + 1] /\ i \in Nat \ {0}
                            /\ ToSet(s) = {Head(s)} \cup ToSet(Tail(s))
<1>1. /\ Head(s) \in S /\ Tail(s) \in Seq(S) /\ 1 \in DOMAIN s /\ Head(s) = s[1]
      /\ \A i \in DOMAIN Tail(s) : i + 1 \in DOMAIN s /\ Tail(s)[i] = s[i + 1] /\ i \in Nat \ {0}
      /\ \A i \in DOMAIN s : i = 1 \/ (i - 1 \in DOMAIN Tail(s) /\ s[i] = Tail(s)[i - 1])
  <2>1. /\ Head(s) \in S /\ Tail(s) \in Seq(S) /\ Len(Tail(s)) = Len(s) - 1
        /\ \A i \in 1 .. Len(Tail(s)) : Tail(s)[i] = s[i + 1]
    BY HeadTailProperties
  <2>2. Len(s) \in Nat /\ Len(s) # 0 /\ DOMAIN s = 1 .. Len(s) /\ DOMAIN Tail(s) = 1 .. Len(Tail(s))
    BY <2>1, EmptySeq, LenProperties
  <2> QED BY <2>1, <2>2
<1>2. ToSet(s) = {Head(s)} \cup ToSet(Tail(s))
  <2>1. PICK r : r = Tail(s) OBVIOUS
  <2>2. ToSet(r) \subseteq ToSet(s)
    BY <2>1, <1>1 DEF ToSet, Sess!ToSet
  <2>3. ASSUME NEW i \in DOMAIN s PROVE s[i] \in {s[1]} \cup ToSet(r)
    <3>1. CASE i - 1 \in DOMAIN r /\ s[i] = r[i - 1]
      BY <3>1 DEF ToSet, Sess!ToSet
    <3> QED BY <3>1, <2>3, <2>1, <1>1
  <2>4. ToSet(s) \subseteq {s[1]} \cup ToSet(r)
    BY <2>3 DEF ToSet, Sess!ToSet
  <2>5. s[1] \in ToSet(s)
    BY <1>1 DEF ToSet, Sess!ToSet
  <2> QED BY <2>1, <2>2, <2>4, <2>5, <1>1
<1> QED BY <1>1, <1>2

\* The jobs of flows that a step leaves alone.
SameJob(t) == /\ Pc(t)' = Pc(t) /\ Saving(t)' = Saving(t) /\ Sent(t)' = Sent(t) /\ Line(t)' = Line(t) /\ Born(t)' = Born(t)
              /\ Given(t)' = Given(t) /\ Waits(t)' = Waits(t)
\* A job that stays has the same parts.
LEMMA SameJobs == ASSUME NEW t, job'[t] = job[t] PROVE SameJob(t)
  BY DEF SameJob, Pc, Saving, Sent, Line, Born, Given, Waits

\* A flow that is not saving has nothing on its way.
LEMMA Resting == ASSUME NEW t, ~Saving(t) PROVE Sent(t) = {} /\ Line(t) = << >> /\ Born(t) = << >> /\ Given(t) = << >> /\ Waits(t) = {}
  BY DEF Saving, Sent, Line, Born, Given, Waits

\* An entry of a queue is data, or stands for an instance made by the block while an insert runs.
LEMMA LineIs == ASSUME SessInv, NEW t \in Threads, NEW q \in ToSet(Line(t))
                PROVE  /\ q \in Entries /\ (q.of # 0 => q \in Waits(t) /\ q.of \in Pos /\ inst[q.of].inblock)
                       /\ Pc(t) \in {"insert", "store"}
<1>1. Saving(t)
  BY ElementsOfEmpty, Resting
<1>2. IsSave(job[t]) /\ Line(t) = job[t].queue
  BY <1>1 DEF SessInv, SessTypes, JobTypes, Saving, Line
<1>3. Line(t) \in Seq(Entries)
  BY <1>2 DEF IsSave
<1>4. PICK i \in DOMAIN Line(t) : Line(t)[i] = q
  BY <1>3, ElementsOf
<1>5. q \in Entries
  BY <1>3, <1>4, ElementsOf
<1>6. Pc(t) \in {"insert", "store"}
  BY <1>1, ElementsOfEmpty DEF SessInv, Stages, Saving
<1>7. Pc(t) = "insert" => q.of = 0
  BY <1>4 DEF SessInv, Stages
<1>8. Pc(t) = "store" => q \in Waits(t)
  BY DEF Waits
<1> QED BY <1>5, <1>6, <1>7, <1>8 DEF SessInv, Unborn

\* Operations on their way name an object.
LEMMA CarriersAre == ASSUME SessInv PROVE Carriers \subseteq Messages /\ \A m \in Carriers : m.id \in 1 .. MaxId /\ m.edits \in Seq(Nat)
<1>1. \A t \in Threads : Sent(t) \subseteq Messages
  BY DEF SessInv, SessTypes, JobTypes, IsSave, Sent, Saving, Pc
<1>2. ops \subseteq Messages
  BY DEF SessInv, SessTypes, StoreTypes
<1>3. Carriers \subseteq Messages
  BY <1>1, <1>2 DEF Carriers
<1> QED BY <1>3 DEF Messages

\* At first nothing is staged, and records hold one edit.
LEMMA SessInit == ASSUME Sess!Init PROVE SessInv
<1> USE SessionNumbers DEF Sess!Init, Sess!Idle
<1>1. \A t \in Threads : Pc(t) = "idle" /\ ~Saving(t)
  BY DEF Pc, Saving
<1>2. \A t \in Threads : Sent(t) = {} /\ Line(t) = << >> /\ Born(t) = << >> /\ Given(t) = << >> /\ Waits(t) = {}
  BY <1>1, Resting
<1>3. Carriers = {}
  BY <1>2 DEF Carriers
<1>4. SessTypes
  BY <1>1 DEF SessTypes, InstTypes, JobTypes, StoreTypes, Pos
<1>5. Copies /\ Newborns /\ Stages /\ Numbered /\ Unborn /\ Alone
  BY <1>1, <1>2, <1>3 DEF Copies, Newborns, Stages, Numbered, Unborn, Alone, Pos
<1>6. Counted /\ InOrder /\ Covered
  BY <1>1, <1>2, <1>3, ElementsOfEmpty DEF Counted, InOrder, Covered, Rising, Made, Under, Pos
<1> QED BY <1>4, <1>5, <1>6 DEF SessInv

\* Staging, editing and reverting leave the saves alone, and what they stage has a record or is a newborn.
Quiet == /\ UNCHANGED <<lite, job, ops, mode, records, lastid, overlap>> /\ accepted' \in {accepted, accepted + 1}
         /\ \A o \in Pos : /\ o \in Pos' /\ inst'[o].id = inst[o].id /\ inst'[o].inblock = inst[o].inblock
                           /\ o \in staging' => o \in staging
                           /\ ToSet(inst[o].edits) \subseteq ToSet(inst'[o].edits)
         /\ \A o \in staging' : \/ o \in staging
                                \/ inst'[o].id = 0
                                \/ inst'[o].id \in 1 .. MaxId /\ records[inst'[o].id] # << >>
\* Then all jobs stay, and so do operations on their way.
LEMMA QuietJobs == ASSUME Quiet PROVE (\A t : SameJob(t)) /\ Carriers' = Carriers
<1>1. \A t : SameJob(t)
  BY SameJobs DEF Quiet
<1>2. \A t : Sent(t)' = Sent(t)
  BY <1>1 DEF SameJob
<1>3. (UNION {Sent(t) : t \in Threads})' = UNION {Sent(t) : t \in Threads}
  BY <1>2
<1> QED BY <1>1, <1>3 DEF Carriers, Quiet
\* What is said of jobs, queues and records stays true.
LEMMA QuietKeeps == ASSUME SessInv, Quiet
                    PROVE  JobTypes' /\ StoreTypes' /\ Newborns' /\ Stages' /\ Numbered' /\ Unborn' /\ Alone'
<1> USE SessionNumbers, QuietJobs
<1>1. JobTypes'
  BY DEF SessInv, SessTypes, JobTypes, Quiet, Pc, IsSave, Messages, Entries
<1>2. StoreTypes'
  BY DEF SessInv, SessTypes, StoreTypes, Quiet, Messages
<1>3. Newborns'
  <2>1. \A o \in Pos \ staging : o \in Pos' \ staging' /\ inst'[o].id = inst[o].id /\ inst'[o].inblock = inst[o].inblock
    BY DEF Quiet
  <2>2. ASSUME NEW t \in Threads
        PROVE  /\ \A i \in DOMAIN Born(t) : /\ Born(t)[i] \in Pos' \ staging'
                                             /\ inst'[Born(t)[i]].id = 0 /\ ~inst'[Born(t)[i]].inblock
               /\ \A i, j \in DOMAIN Born(t) : Born(t)[i] = Born(t)[j] => i = j
               /\ \A u \in Threads \ {t} : \A i \in DOMAIN Born(t), j \in DOMAIN Born(u) : Born(t)[i] # Born(u)[j]
    BY <2>1 DEF SessInv, Newborns
  <2>3. \A t : Born(t)' = Born(t)
    BY DEF SameJob
  <2> QED BY <2>2, <2>3 DEF Newborns
<1>4. Stages'
  BY DEF SessInv, Stages, Quiet, SameJob
<1>5. Numbered'
  BY DEF SessInv, Numbered, Quiet, SameJob
<1>6. Unborn'
  <2> USE DEF SessInv, Unborn
  <2>1. \A t : Waits(t)' = Waits(t) /\ Line(t)' = Line(t) /\ Pc(t)' = Pc(t)
    BY DEF SameJob
  <2>2. ASSUME NEW t \in Threads, NEW q \in Waits(t)
        PROVE  /\ q.of # 0 => q.of \in Pos' /\ inst'[q.of].inblock
               /\ \A o \in staging' : inst'[o].id # q.id
    <3>1. q.of # 0 => q.of \in Pos' /\ inst'[q.of].inblock
      BY DEF Quiet
    <3>2. q.id \in 1 .. lastid /\ records[q.id] = << >> /\ \A o \in staging : inst[o].id # q.id
      OBVIOUS
    <3>3. lastid \in Nat
      BY DEF SessTypes, StoreTypes
    <3>4. \A o \in staging : o \in Pos
      BY DEF SessTypes, InstTypes
    <3> QED BY <3>1, <3>2, <3>3, <3>4 DEF Quiet
  <2>3. records' = records /\ lastid' = lastid
    BY DEF Quiet
  <2> QED BY <2>1, <2>2, <2>3
<1>7. Alone'
  BY DEF SessInv, Alone, Quiet, SameJob
<1> QED BY <1>1, <1>2, <1>3, <1>4, <1>5, <1>6, <1>7
\* Edits that are on their way, queued or stored still are.
LEMMA QuietCovers == ASSUME SessInv, Quiet, NEW e
                     PROVE  IsSent(e)' = IsSent(e) /\ IsStored(e)' = IsStored(e) /\ (IsQueued(e) => IsQueued(e)')
<1> USE SessionNumbers, QuietJobs
<1>1. IsSent(e)' = IsSent(e)
  BY DEF IsSent
<1>2. IsStored(e)' = IsStored(e)
  BY DEF IsStored, Quiet
<1>3. ASSUME IsQueued(e) PROVE IsQueued(e)'
  <2> PICK t \in Threads : \E q \in ToSet(Line(t)) : e \in ToSet(IF q.of = 0 THEN q.data ELSE inst[q.of].edits)
    BY <1>3 DEF IsQueued
  <2>1. PICK q \in ToSet(Line(t)) : e \in ToSet(IF q.of = 0 THEN q.data ELSE inst[q.of].edits)
    OBVIOUS
  <2>2. q \in ToSet(Line(t)')
    BY DEF SameJob
  <2>3. CASE q.of = 0
    BY <2>1, <2>2, <2>3 DEF IsQueued
  <2>4. CASE q.of # 0
    <3>1. q.of \in Pos
      BY <2>1, <2>4, LineIs
    <3>2. e \in ToSet(inst[q.of].edits)
      BY <2>1, <2>4
    <3>3. e \in ToSet(inst'[q.of].edits)
      BY <3>1, <3>2 DEF Quiet
    <3> QED BY <3>3, <2>2, <2>4 DEF IsQueued
  <2> QED BY <2>3, <2>4
<1> QED BY <1>1, <1>2, <1>3

\* The invariant holds if copies stay unique, and their edits are counted, in order and accounted for.
LEMMA QuietStep ==
    ASSUME SessInv, Quiet, InstTypes', Copies',
           \A o \in Pos' : (\A i \in DOMAIN inst'[o].edits : inst'[o].edits[i] <= accepted') /\ Rising(inst'[o].edits),
           \A o \in staging' : inst'[o].id \in (1 .. MaxId) \ overlap =>
              /\ Under(records[inst'[o].id], inst'[o].edits)
              /\ \A m \in Carriers : m.id = inst'[o].id => Under(m.edits, inst'[o].edits),
           \A e \in 1 .. accepted : IsStaged(e) \/ e \in told \/ e \in slipped => IsStaged(e)' \/ e \in told' \/ e \in slipped',
           \A e : e = accepted' /\ e # accepted => Somewhere(e)'
    PROVE  SessInv'
<1> USE SessionNumbers, QuietJobs
<1>1. accepted \in Nat /\ accepted' \in {accepted, accepted + 1}
  BY DEF SessInv, SessTypes, StoreTypes, Quiet
<1>2. \A s : s \in Seq(Nat) /\ Made(s) => Made(s)'
  BY <1>1 DEF Made
<1>3. \A m \in Carriers : m.edits \in Seq(Nat)
  BY CarriersAre
<1>4. Counted'
  <2>1. \A id \in 1 .. MaxId : Made(records[id])'
    BY <1>2 DEF SessInv, Counted, SessTypes, StoreTypes, Quiet
  <2>2. \A m \in Carriers' : Made(m.edits)' /\ Rising(m.edits)
    BY <1>2, <1>3 DEF SessInv, Counted
  <2>3. \A t \in Threads : \A q \in ToSet(Line(t)') : Made(q.data)' /\ Rising(q.data)
    <3>1. \A t \in Threads : \A q \in ToSet(Line(t)) : q.data \in Seq(Nat) /\ Made(q.data) /\ Rising(q.data)
      BY LineIs DEF SessInv, Counted, Entries
    <3> QED BY <3>1, <1>2 DEF SameJob
  <2>4. \A o \in Pos' : Made(inst[o].edits)' /\ Rising(inst'[o].edits)
    BY DEF Made
  <2> QED BY <2>1, <2>2, <2>3, <2>4 DEF Counted, Rising
<1>5. InOrder'
  <2>1. records' = records /\ overlap' = overlap
    BY DEF Quiet
  <2> QED BY <2>1 DEF SessInv, InOrder
<1>6. Covered'
  <2>1. ASSUME NEW e \in 1 .. accepted PROVE Somewhere(e)'
    BY QuietCovers DEF SessInv, Covered, Somewhere
  <2>2. ASSUME NEW e \in 1 .. accepted', e \notin 1 .. accepted PROVE e = accepted' /\ e # accepted
    BY <2>2, <1>1
  <2>3. ASSUME NEW e \in 1 .. accepted' PROVE Somewhere(e)'
    BY <2>1, <2>2
  <2> QED BY <2>3 DEF Covered
<1> QED BY QuietKeeps, <1>4, <1>5, <1>6 DEF SessInv, SessTypes

\* Instances that are dropped become obsolete, with their edits.
LEMMA DropIs == ASSUME InstTypes, NEW S \in SUBSET Pos, NEW d, d = Sess!Drop(S)
                PROVE  /\ d \in Seq(Instances) /\ DOMAIN d = Pos /\ Len(d) = Len(inst)
                       /\ \A o \in Pos : /\ d[o].id = inst[o].id /\ d[o].edits = inst[o].edits
                                         /\ d[o].inblock = inst[o].inblock /\ d[o].deleted = inst[o].deleted
                                         /\ (o \in S => d[o].obsolete) /\ (o \notin S => d[o].obsolete = inst[o].obsolete)
<1>1. inst \in Seq(Instances) /\ DOMAIN inst = 1 .. Len(inst) /\ Len(inst) \in Nat /\ Pos = DOMAIN inst
  BY DEF InstTypes, Pos
<1>2. \A o \in Pos : inst[o] \in Instances
  BY <1>1
<1>3. \A o \in Pos : d[o] = IF o \in S THEN [inst[o] EXCEPT !.obsolete = TRUE] ELSE inst[o]
  BY <1>1 DEF Sess!Drop
<1>4. \A o \in Pos : /\ d[o] \in Instances
                     /\ d[o].id = inst[o].id /\ d[o].edits = inst[o].edits
                     /\ d[o].inblock = inst[o].inblock /\ d[o].deleted = inst[o].deleted
                     /\ (o \in S => d[o].obsolete) /\ (o \notin S => d[o].obsolete = inst[o].obsolete)
  BY <1>2, <1>3 DEF Instances
<1>5. d = [o \in 1 .. Len(inst) |-> d[o]]
  BY <1>1 DEF Sess!Drop
<1>6. d \in Seq(Instances) /\ Len(d) = Len(inst)
  BY <1>1, <1>4, <1>5
<1> QED BY <1>1, <1>4, <1>5, <1>6

\* An edit that is added to a sequence of them.
LEMMA OneMore == ASSUME accepted \in Nat, NEW s \in Seq(Nat), Made(s), Rising(s), NEW a, a = Append(s, accepted + 1)
                 PROVE  /\ a \in Seq(Nat) /\ Rising(a) /\ \A i \in DOMAIN a : a[i] <= accepted + 1
                        /\ \A r \in Seq(Nat) : Made(r) /\ Under(r, s) => Under(r, a)
                        /\ ToSet(a) = ToSet(s) \cup {accepted + 1}
<1> DEFINE n == Len(s) + 1
<1>1. /\ a \in Seq(Nat) /\ n \in Nat \ {0} /\ n \notin DOMAIN s /\ DOMAIN a = DOMAIN s \cup {n}
      /\ a[n] = accepted + 1 /\ (\A i \in DOMAIN s : a[i] = s[i] /\ i < n) /\ ToSet(a) = ToSet(s) \cup {accepted + 1}
  <2>1. PICK x \in Nat : x = accepted + 1
    OBVIOUS
  <2> QED BY <2>1, Appended
<1>2. \A i \in DOMAIN s : s[i] \in Nat /\ i \in Nat /\ s[i] <= accepted
  BY DEF Made
<1> HIDE DEF n
<1>3. Rising(a)
  BY <1>1, <1>2 DEF Rising
<1>4. \A i \in DOMAIN a : a[i] <= accepted + 1
  BY <1>1, <1>2
<1>5. ASSUME NEW r \in Seq(Nat), Made(r), Under(r, s) PROVE Under(r, a)
  <2>1. \A i \in DOMAIN r : r[i] \in Nat /\ r[i] <= accepted
    BY <1>5 DEF Made
  <2> QED BY <2>1, <1>1, <1>2, <1>5 DEF Under
<1> QED BY <1>1, <1>3, <1>4, <1>5

\* Copying an object leaves the copies it replaces obsolete.
LEMMA GetMutableStep == ASSUME SessInv, NEW t \in Threads, NEW id \in 1 .. MaxId, records[id] # << >>, Sess!GetMutable(t, id) PROVE SessInv'
<1> USE SessionNumbers
<1>0. UNCHANGED <<lite, committed, job, ops, mode, records, lastid, accepted, told, slipped, overlap>>
  BY DEF Sess!GetMutable, Sess!hist
<1>1. InstTypes /\ Copies /\ Pos = DOMAIN inst /\ \A o \in Pos : Made(inst[o].edits) /\ Rising(inst[o].edits)
  BY DEF SessInv, SessTypes, Counted, Pos
<1>2. CASE UNCHANGED <<inst, staging>> /\ \E o \in Sess!Staged(id) : held' = [held EXCEPT ![t] = o]
  <2>1. Quiet
    BY <1>0, <1>2 DEF Quiet, Pos
  <2>2. InstTypes'
    BY <1>1, <1>2 DEF InstTypes, Sess!Staged, Pos
  <2>3. Copies'
    BY <1>0, <1>1, <1>2 DEF Copies, Pos
  <2>4. \A o \in staging : o \in Pos
    BY <1>1 DEF InstTypes
  <2>5. \A o \in Pos' : (\A i \in DOMAIN inst'[o].edits : inst'[o].edits[i] <= accepted') /\ Rising(inst'[o].edits)
    BY <1>0, <1>1, <1>2 DEF Made, Pos
  <2>6. \A e : IsStaged(e)' = IsStaged(e)
    BY <1>2 DEF IsStaged
  <2>7. \A o \in staging' : inst'[o].id \in (1 .. MaxId) \ overlap =>
              /\ Under(records[inst'[o].id], inst'[o].edits)
              /\ \A m \in Carriers : m.id = inst'[o].id => Under(m.edits, inst'[o].edits)
    BY <1>2 DEF SessInv, InOrder
  <2> QED BY <2>1, <2>2, <2>3, <2>5, <2>6, <2>7, <1>0, QuietStep
<1>3. CASE /\ \A o \in Sess!Staged(id) : Sess!Replaces(o)
           /\ inst' = Append(Sess!Drop(Sess!Staged(id)), Sess!Instance(id, << >>, FALSE))
           /\ staging' = (staging \ Sess!Staged(id)) \cup {Len(inst) + 1}
           /\ held' = [held EXCEPT ![t] = Len(inst) + 1]
  <2>1. PICK S : S = Sess!Staged(id)
    OBVIOUS
  <2>2. S = {o \in staging : inst[o].id = id} /\ S \in SUBSET Pos
    BY <2>1, <1>1 DEF Sess!Staged, InstTypes
  <2>3. PICK d : d = Sess!Drop(S)
    OBVIOUS
  <2>4. /\ d \in Seq(Instances) /\ DOMAIN d = Pos /\ Len(d) = Len(inst)
        /\ \A o \in Pos : /\ d[o].id = inst[o].id /\ d[o].edits = inst[o].edits
                          /\ d[o].inblock = inst[o].inblock /\ d[o].deleted = inst[o].deleted
                          /\ (o \in S => d[o].obsolete) /\ (o \notin S => d[o].obsolete = inst[o].obsolete)
    BY <2>2, <2>3, <1>1, DropIs
  <2>5. PICK r : r = Sess!Instance(id, << >>, FALSE)
    OBVIOUS
  <2>6. r \in Instances /\ r.id = id /\ r.edits = << >> /\ r.inblock = FALSE /\ ~r.deleted /\ ~r.obsolete
    <3>1. id \in Nat /\ << >> \in Seq(Nat)
      OBVIOUS
    <3>2. r = [id |-> id, edits |-> << >>, inblock |-> FALSE, deleted |-> FALSE, obsolete |-> FALSE]
      BY <2>5 DEF Sess!Instance
    <3> QED BY <3>1, <3>2 DEF Instances
  <2>7. PICK n : n = Len(inst) + 1
    OBVIOUS
  <2>8. /\ inst' \in Seq(Instances) /\ n \in Nat \ {0} /\ n \notin Pos /\ Pos' = Pos \cup {n}
        /\ inst'[n] = r /\ \A o \in Pos : inst'[o] = d[o]
    <3>1. inst' = Append(d, r) /\ r \in Instances /\ d \in Seq(Instances) /\ n = Len(d) + 1
      BY <1>3, <2>1, <2>3, <2>4, <2>5, <2>6, <2>7
    <3> QED BY <3>1, <2>4, Appended DEF Pos
  <2>9. staging' = (staging \ S) \cup {n} /\ held' = [held EXCEPT ![t] = n]
    BY <1>3, <2>1, <2>7
  <2>10. Quiet
    BY <1>0, <2>4, <2>6, <2>8, <2>9 DEF Quiet
  <2>11. InstTypes'
    BY <1>1, <2>8, <2>9 DEF InstTypes
  <2>12. \A o \in S : inst[o].edits = << >>
    BY <1>3, <2>1 DEF Sess!Replaces
  <2>13. id <= lastid
    <3>1. lastid \in Nat /\ ~(id > lastid)
      BY DEF SessInv, Unborn, SessTypes, StoreTypes
    <3> QED BY <3>1
  <2>14. Copies'
    <3>1. \A o \in staging' : ~inst'[o].inblock
      BY <1>1, <2>4, <2>6, <2>8, <2>9 DEF Copies, InstTypes
    <3>2. \A o \in Pos' \ staging' : inst'[o].id # 0 /\ ~inst'[o].inblock => inst'[o].obsolete
      BY <1>1, <2>4, <2>6, <2>8, <2>9 DEF Copies
    <3>3. \A o, p \in staging' : inst'[o].id # 0 /\ inst'[o].id = inst'[p].id => o = p
      BY <1>1, <2>2, <2>4, <2>6, <2>8, <2>9 DEF Copies, InstTypes
    <3>4. \A o \in Pos' : inst'[o].id <= lastid /\ (inst'[o].inblock => inst'[o].id # 0)
      BY <1>1, <2>4, <2>6, <2>8, <2>13 DEF Copies
    <3> QED BY <3>1, <3>2, <3>3, <3>4, <1>0 DEF Copies
  <2>15. \A o \in Pos' : (\A i \in DOMAIN inst'[o].edits : inst'[o].edits[i] <= accepted') /\ Rising(inst'[o].edits)
    <3>1. \A o \in Pos : inst'[o].edits = inst[o].edits
      BY <2>4, <2>8
    <3>2. Rising(<< >>)
      BY DEF Rising
    <3> QED BY <3>1, <3>2, <1>0, <1>1, <2>6, <2>8 DEF Made
  <2>16. \A o \in staging' : inst'[o].id \in (1 .. MaxId) \ overlap =>
              /\ Under(records[inst'[o].id], inst'[o].edits)
              /\ \A m \in Carriers : m.id = inst'[o].id => Under(m.edits, inst'[o].edits)
    <3>1. \A s : Under(s, << >>)
      BY DEF Under
    <3>2. \A o \in staging' \ {n} : o \in staging /\ o \in Pos /\ inst'[o].id = inst[o].id /\ inst'[o].edits = inst[o].edits
      BY <1>1, <2>4, <2>8, <2>9 DEF InstTypes
    <3> QED BY <3>1, <3>2, <2>6, <2>8 DEF SessInv, InOrder
  <2>17. ASSUME NEW e, IsStaged(e) PROVE IsStaged(e)'
    <3>1. PICK o \in staging : e \in ToSet(inst[o].edits)
      BY <2>17 DEF IsStaged
    <3>2. o \notin S /\ o \in Pos
      BY <3>1, <2>12, ElementsOfEmpty, <1>1 DEF InstTypes
    <3> QED BY <3>1, <3>2, <2>4, <2>8, <2>9 DEF IsStaged
  <2> QED BY <2>10, <2>11, <2>14, <2>15, <2>16, <2>17, <1>0, QuietStep
<1> QED BY <1>2, <1>3 DEF Sess!GetMutable

\* A newborn is staged with its first edit.
LEMMA CreateStagedStep == ASSUME SessInv, NEW t \in Threads, Sess!CreateStaged(t) PROVE SessInv'
<1> USE SessionNumbers
<1>0. UNCHANGED <<lite, committed, job, ops, mode, records, lastid, told, slipped, overlap>> /\ accepted' = accepted + 1 /\ accepted \in Nat
  BY DEF Sess!CreateStaged, SessInv, SessTypes, StoreTypes
<1>1. InstTypes /\ Copies /\ Pos = DOMAIN inst /\ lastid \in Nat /\ \A o \in Pos : inst[o].edits \in Seq(Nat) /\ Made(inst[o].edits) /\ Rising(inst[o].edits)
  <2>1. inst \in Seq(Instances)
    BY DEF SessInv, SessTypes, InstTypes
  <2>2. \A o \in Pos : inst[o] \in Instances
    BY <2>1 DEF Pos
  <2> QED BY <2>2 DEF SessInv, SessTypes, Counted, Pos, StoreTypes, Instances
<1>2. PICK r : r = Sess!Instance(0, <<accepted + 1>>, FALSE)
  OBVIOUS
<1>3. r \in Instances /\ r.id = 0 /\ r.edits = <<accepted + 1>> /\ r.inblock = FALSE
  <2>1. <<accepted + 1>> \in Seq(Nat)
    BY <1>0
  <2>2. r = [id |-> 0, edits |-> <<accepted + 1>>, inblock |-> FALSE, deleted |-> FALSE, obsolete |-> FALSE]
    BY <1>2 DEF Sess!Instance
  <2> QED BY <2>1, <2>2 DEF Instances
<1>4. PICK n : n = Len(inst) + 1
  OBVIOUS
<1>5. inst' = Append(inst, r) /\ inst \in Seq(Instances)
  BY <1>1, <1>2 DEF Sess!CreateStaged, InstTypes
<1>6. /\ inst' \in Seq(Instances) /\ n \in Nat \ {0} /\ n \notin Pos /\ Pos' = Pos \cup {n}
      /\ inst'[n] = r /\ \A o \in Pos : inst'[o] = inst[o]
  BY <1>3, <1>4, <1>5, Appended DEF Pos
<1>7. staging' = staging \cup {n} /\ held' = [held EXCEPT ![t] = n]
  BY <1>4 DEF Sess!CreateStaged
<1>8. \A o \in staging : o \in Pos
  BY <1>1 DEF InstTypes
<1>9. Quiet
  BY <1>0, <1>3, <1>6, <1>7 DEF Quiet
<1>10. InstTypes'
  BY <1>1, <1>6, <1>7 DEF InstTypes
<1>11. Copies'
  BY <1>0, <1>1, <1>3, <1>6, <1>7, <1>8 DEF Copies
<1>12. \A o \in Pos' : (\A i \in DOMAIN inst'[o].edits : inst'[o].edits[i] <= accepted') /\ Rising(inst'[o].edits)
  <2>1. DOMAIN r.edits = {1} /\ r.edits[1] = accepted + 1
    BY <1>3
  <2>2. Rising(r.edits) /\ \A i \in DOMAIN r.edits : r.edits[i] <= accepted'
    BY <2>1, <1>0 DEF Rising
  <2>3. \A o \in Pos : \A i \in DOMAIN inst[o].edits : inst[o].edits[i] \in Nat /\ inst[o].edits[i] <= accepted
    BY <1>1 DEF Made
  <2>4. \A o \in Pos : \A i \in DOMAIN inst[o].edits : inst[o].edits[i] <= accepted'
    BY <2>3, <1>0
  <2> QED BY <1>1, <1>6, <2>2, <2>4
<1>13. \A o \in staging' : inst'[o].id \in (1 .. MaxId) \ overlap =>
            /\ Under(records[inst'[o].id], inst'[o].edits)
            /\ \A m \in Carriers : m.id = inst'[o].id => Under(m.edits, inst'[o].edits)
  BY <1>3, <1>6, <1>7, <1>8 DEF SessInv, InOrder
<1>14. \A e : IsStaged(e) => IsStaged(e)'
  BY <1>6, <1>7, <1>8 DEF IsStaged
<1>15. ASSUME NEW e, e = accepted' PROVE IsStaged(e)'
  <2>1. e \in ToSet(inst'[n].edits)
    BY <1>15, <1>0, <1>3, <1>6 DEF ToSet, Sess!ToSet
  <2> QED BY <2>1, <1>7 DEF IsStaged
<1> QED BY <1>9, <1>10, <1>11, <1>12, <1>13, <1>14, <1>15, <1>0, QuietStep DEF Somewhere

\* A step that changes one instance.
LEMMA OneChanges == ASSUME InstTypes, NEW h \in Pos, NEW r \in Instances, inst' = [inst EXCEPT ![h] = r]
                    PROVE  inst' \in Seq(Instances) /\ Pos' = Pos /\ inst'[h] = r /\ \A o \in Pos \ {h} : inst'[o] = inst[o]
<1>1. inst \in Seq(Instances) /\ Pos = 1 .. Len(inst) /\ Len(inst) \in Nat
  BY DEF InstTypes, Pos
<1>2. inst' \in Seq(Instances)
  BY <1>1
<1> QED BY <1>1, <1>2 DEF Pos

\* What the invariant says of one instance.
LEMMA InstanceIs == ASSUME SessInv, NEW o \in Pos
                    PROVE  /\ inst[o] \in Instances /\ inst[o].id \in Nat /\ inst[o].edits \in Seq(Nat) /\ inst[o].inblock \in BOOLEAN
                           /\ inst[o].deleted \in BOOLEAN /\ inst[o].obsolete \in BOOLEAN
                           /\ Made(inst[o].edits) /\ Rising(inst[o].edits) /\ o \in Nat \ {0}
                           /\ \A i \in DOMAIN inst[o].edits : inst[o].edits[i] <= accepted
<1>1. inst \in Seq(Instances)
  BY DEF SessInv, SessTypes, InstTypes
<1>2. inst[o] \in Instances /\ o \in Nat \ {0}
  BY <1>1 DEF Pos
<1> QED BY <1>2 DEF SessInv, Counted, Instances, Made

\* A step that changes nothing of the objects, the saves and the records.
LEMMA SessStutter == ASSUME SessInv, UNCHANGED <<lite, inst, staging, held, job, ops, mode, records, lastid, accepted, told, slipped, overlap>>
                     PROVE  SessInv'
<1>1. Quiet
  BY DEF Quiet, Pos
<1>2. InstTypes' /\ Copies'
  BY DEF SessInv, SessTypes, InstTypes, Copies, Pos
<1>3. \A o \in Pos' : (\A i \in DOMAIN inst'[o].edits : inst'[o].edits[i] <= accepted') /\ Rising(inst'[o].edits)
  BY InstanceIs DEF Pos
<1>4. \A o \in staging : o \in Pos
  BY DEF SessInv, SessTypes, InstTypes
<1>5. \A e : IsStaged(e)' = IsStaged(e)
  BY DEF IsStaged
<1>6. \A o \in staging' : inst'[o].id \in (1 .. MaxId) \ overlap =>
            /\ Under(records[inst'[o].id], inst'[o].edits)
            /\ \A m \in Carriers : m.id = inst'[o].id => Under(m.edits, inst'[o].edits)
  BY DEF SessInv, InOrder
<1> QED BY <1>1, <1>2, <1>3, <1>5, <1>6, QuietStep

\* An object that is deleted stays staged with its edits.
LEMMA DeleteStep == ASSUME SessInv, NEW t \in Threads, Sess!Delete(t) PROVE SessInv'
<1>0. UNCHANGED <<lite, committed, staging, held, job, ops, mode, records, lastid, accepted, told, slipped, overlap>>
  BY DEF Sess!Delete, Sess!hist
<1>1. InstTypes /\ Copies /\ \A o \in staging : o \in Pos
  BY DEF SessInv, SessTypes, InstTypes
<1>2. PICK h : h = held[t]
  OBVIOUS
<1>3. h \in Pos /\ inst[h] \in Instances
  BY <1>1, <1>2, InstanceIs DEF Sess!Delete
<1>4. PICK r : r = [inst[h] EXCEPT !.deleted = TRUE]
  OBVIOUS
<1>5. r \in Instances /\ r.id = inst[h].id /\ r.edits = inst[h].edits /\ r.inblock = inst[h].inblock /\ r.obsolete = inst[h].obsolete
  BY <1>3, <1>4 DEF Instances
<1>6. inst' = [inst EXCEPT ![h] = r]
  BY <1>2, <1>4 DEF Sess!Delete
<1>7. inst' \in Seq(Instances) /\ Pos' = Pos /\ inst'[h] = r /\ \A o \in Pos \ {h} : inst'[o] = inst[o]
  BY <1>1, <1>3, <1>5, <1>6, OneChanges
<1>8. \A o \in Pos : /\ inst'[o].id = inst[o].id /\ inst'[o].edits = inst[o].edits /\ inst'[o].inblock = inst[o].inblock
                     /\ inst'[o].obsolete = inst[o].obsolete
  BY <1>5, <1>7
<1>9. Quiet
  BY <1>0, <1>7, <1>8 DEF Quiet
<1>10. InstTypes'
  BY <1>0, <1>1, <1>7 DEF InstTypes
<1>11. Copies'
  BY <1>0, <1>1, <1>7, <1>8 DEF Copies
<1>12. \A o \in Pos' : (\A i \in DOMAIN inst'[o].edits : inst'[o].edits[i] <= accepted') /\ Rising(inst'[o].edits)
  BY <1>0, <1>7, <1>8, InstanceIs
<1>13. \A o \in staging' : inst'[o].id \in (1 .. MaxId) \ overlap =>
            /\ Under(records[inst'[o].id], inst'[o].edits)
            /\ \A m \in Carriers : m.id = inst'[o].id => Under(m.edits, inst'[o].edits)
  BY <1>0, <1>1, <1>8 DEF SessInv, InOrder
<1>14. \A e : IsStaged(e)' = IsStaged(e)
  BY <1>0, <1>1, <1>8 DEF IsStaged
<1> QED BY <1>9, <1>10, <1>11, <1>12, <1>13, <1>14, <1>0, QuietStep

\* Reverting makes what was staged obsolete and says so.
LEMMA RevertStep == ASSUME SessInv, NEW t \in Threads, Sess!Revert(t) PROVE SessInv'
<1>0. /\ UNCHANGED <<lite, committed, held, job, ops, mode, records, lastid, accepted, slipped, overlap>>
      /\ inst' = Sess!Drop(staging) /\ staging' = {} /\ told' = told \cup Sess!EditsOf(staging)
  BY DEF Sess!Revert
<1>1. InstTypes /\ Copies /\ staging \in SUBSET Pos
  BY DEF SessInv, SessTypes, InstTypes
<1>2. /\ inst' \in Seq(Instances) /\ Pos' = Pos
      /\ \A o \in Pos : /\ inst'[o].id = inst[o].id /\ inst'[o].edits = inst[o].edits
                        /\ inst'[o].inblock = inst[o].inblock
                        /\ (o \in staging => inst'[o].obsolete) /\ (o \notin staging => inst'[o].obsolete = inst[o].obsolete)
  <2>1. PICK d : d = Sess!Drop(staging)
    OBVIOUS
  <2>2. inst' = d
    BY <2>1, <1>0
  <2> QED BY <2>1, <2>2, <1>1, DropIs DEF Pos
<1>3. Quiet
  BY <1>0, <1>2 DEF Quiet
<1>4. InstTypes'
  BY <1>0, <1>1, <1>2 DEF InstTypes
<1>5. Copies'
  BY <1>0, <1>1, <1>2 DEF Copies
<1>6. \A o \in Pos' : (\A i \in DOMAIN inst'[o].edits : inst'[o].edits[i] <= accepted') /\ Rising(inst'[o].edits)
  BY <1>0, <1>2, InstanceIs
<1>7. \A e : IsStaged(e) => e \in told'
  BY <1>0 DEF IsStaged, Sess!EditsOf, ToSet
<1> QED BY <1>0, <1>3, <1>4, <1>5, <1>6, <1>7, QuietStep

\* An edit goes to a staged instance, or to one that is being inserted, or is counted as one that goes to nowhere.
LEMMA EditStep == ASSUME SessInv, NEW t \in Threads, Sess!Edit(t) PROVE SessInv'
<1> USE SessionNumbers
<1>0. /\ UNCHANGED <<lite, committed, staging, held, job, ops, mode, records, lastid, told, overlap>>
      /\ accepted' = accepted + 1 /\ accepted \in Nat
  BY DEF Sess!Edit, SessInv, SessTypes, StoreTypes
<1>1. InstTypes /\ Copies /\ \A o \in staging : o \in Pos
  BY DEF SessInv, SessTypes, InstTypes
<1>2. PICK h : h = held[t]
  OBVIOUS
<1>3. h \in Pos /\ inst[h] \in Instances /\ inst[h].edits \in Seq(Nat) /\ Made(inst[h].edits) /\ Rising(inst[h].edits)
  <2>1. h \in Pos
    BY <1>1, <1>2 DEF Sess!Edit, InstTypes
  <2> QED BY <2>1, InstanceIs
<1>4. \A o \in Pos : \A i \in DOMAIN inst[o].edits : inst[o].edits[i] <= accepted + 1
  <2>1. \A o \in Pos : \A i \in DOMAIN inst[o].edits : inst[o].edits[i] \in Nat /\ inst[o].edits[i] <= accepted
    BY InstanceIs
  <2> QED BY <2>1, <1>0
<1>5. \A o \in staging : inst[o].id \in (1 .. MaxId) \ overlap =>
            /\ Under(records[inst[o].id], inst[o].edits)
            /\ \A m \in Carriers : m.id = inst[o].id => Under(m.edits, inst[o].edits)
  BY DEF SessInv, InOrder
<1>6. CASE inst' = inst /\ slipped' = slipped \cup {accepted + 1}
  <2>1. Quiet
    BY <1>0, <1>6 DEF Quiet, Pos
  <2>2. InstTypes' /\ Copies'
    BY <1>0, <1>1, <1>6 DEF InstTypes, Copies, Pos
  <2>3. \A e : IsStaged(e)' = IsStaged(e)
    BY <1>0, <1>6 DEF IsStaged
  <2>4. \A o \in Pos' : (\A i \in DOMAIN inst'[o].edits : inst'[o].edits[i] <= accepted') /\ Rising(inst'[o].edits)
    BY <1>0, <1>4, <1>6, InstanceIs DEF Pos
  <2>5. \A e : e = accepted' => Somewhere(e)'
    BY <1>0, <1>6 DEF Somewhere
  <2> QED BY QuietStep, <2>1, <2>2, <2>3, <2>4, <2>5, <1>0, <1>5, <1>6, SMTT(30)
<1>7. CASE (h \in staging \/ Sess!Queued(h)) /\ inst' = [inst EXCEPT ![h].edits = Append(@, accepted + 1)] /\ slipped' = slipped
  <2>1. PICK a : a = Append(inst[h].edits, accepted + 1)
    OBVIOUS
  <2>2. /\ a \in Seq(Nat) /\ Rising(a) /\ \A i \in DOMAIN a : a[i] <= accepted + 1
        /\ \A r \in Seq(Nat) : Made(r) /\ Under(r, inst[h].edits) => Under(r, a)
        /\ ToSet(a) = ToSet(inst[h].edits) \cup {accepted + 1}
    BY <1>0, <1>3, <2>1, OneMore
  <2>3. PICK r : r = [inst[h] EXCEPT !.edits = a]
    OBVIOUS
  <2>4. r \in Instances /\ r.id = inst[h].id /\ r.edits = a /\ r.inblock = inst[h].inblock /\ r.obsolete = inst[h].obsolete
    BY <1>3, <2>2, <2>3 DEF Instances
  <2>5. inst' = [inst EXCEPT ![h] = r]
    BY <1>7, <2>1, <2>3
  <2>6. inst' \in Seq(Instances) /\ Pos' = Pos /\ inst'[h] = r /\ \A o \in Pos \ {h} : inst'[o] = inst[o]
    BY <1>1, <1>3, <2>4, <2>5, OneChanges
  <2>7. \A o \in Pos : /\ inst'[o].id = inst[o].id /\ inst'[o].inblock = inst[o].inblock /\ inst'[o].obsolete = inst[o].obsolete
                       /\ ToSet(inst[o].edits) \subseteq ToSet(inst'[o].edits)
    BY <2>2, <2>4, <2>6
  <2>8. Quiet
    BY <1>0, <2>6, <2>7 DEF Quiet
  <2>9. InstTypes'
    BY <1>0, <1>1, <2>6 DEF InstTypes
  <2>10. Copies'
    BY <1>0, <1>1, <2>6, <2>7 DEF Copies
  <2>11. \A o \in Pos' : (\A i \in DOMAIN inst'[o].edits : inst'[o].edits[i] <= accepted') /\ Rising(inst'[o].edits)
    BY <1>0, <1>4, <2>2, <2>4, <2>6, InstanceIs
  <2>12. \A o \in staging' : inst'[o].id \in (1 .. MaxId) \ overlap =>
              /\ Under(records[inst'[o].id], inst'[o].edits)
              /\ \A m \in Carriers : m.id = inst'[o].id => Under(m.edits, inst'[o].edits)
    <3>1. \A m \in Carriers : m.edits \in Seq(Nat) /\ Made(m.edits)
      BY CarriersAre DEF SessInv, Counted
    <3>2. \A id \in 1 .. MaxId : records[id] \in Seq(Nat) /\ Made(records[id])
      BY DEF SessInv, Counted, SessTypes, StoreTypes
    <3>3. ASSUME NEW o \in staging, inst[o].id \in (1 .. MaxId) \ overlap
          PROVE  /\ Under(records[inst[o].id], inst'[o].edits)
                 /\ \A m \in Carriers : m.id = inst[o].id => Under(m.edits, inst'[o].edits)
      <4>1. CASE o = h
        BY <4>1, <3>1, <3>2, <3>3, <1>5, <2>2, <2>4, <2>6
      <4>2. CASE o # h
        BY <4>2, <3>3, <1>1, <1>5, <2>6
      <4> QED BY <4>1, <4>2
    <3> QED BY <3>3, <1>0, <1>1, <2>7
  <2>13. \A e : IsStaged(e) => IsStaged(e)'
    BY <1>0, <1>1, <2>7 DEF IsStaged
  <2>14. ASSUME NEW e, e = accepted' PROVE Somewhere(e)'
    <3>1. e \in ToSet(inst'[h].edits)
      BY <2>14, <1>0, <2>2, <2>4, <2>6
    <3>2. CASE h \in staging
      BY <3>1, <3>2, <1>0 DEF Somewhere, IsStaged
    <3>3. CASE Sess!Queued(h)
      <4>1. PICK u \in Threads : job[u].pc = "store" /\ \E i \in DOMAIN job[u].queue : job[u].queue[i].of = h
        BY <3>3 DEF Sess!Queued
      <4>2. PICK i \in DOMAIN job[u].queue : job[u].queue[i].of = h
        BY <4>1
      <4>3. Line(u) = job[u].queue /\ job[u].queue \in Seq(Entries)
        BY <4>1 DEF Line, Saving, Pc, SessInv, SessTypes, JobTypes, IsSave
      <4>4. job[u].queue[i] \in ToSet(Line(u))
        BY <4>2, <4>3, ElementsOf
      <4>5. PICK q \in ToSet(Line(u)) : q.of = h
        BY <4>2, <4>4
      <4>6. h # 0
        BY <1>2 DEF Sess!Edit
      <4>7. q \in ToSet(Line(u)') /\ e \in ToSet(IF q.of = 0 THEN q.data ELSE inst'[q.of].edits)
        BY <4>5, <4>6, <3>1, <2>8, QuietJobs DEF SameJob
      <4>8. IsQueued(e)'
        BY <4>7 DEF IsQueued
      <4> QED BY <4>8 DEF Somewhere
    <3> QED BY <3>2, <3>3, <1>7
  <2> QED BY <2>8, <2>9, <2>10, <2>11, <2>12, <2>13, <2>14, <1>0, <1>7, QuietStep
<1> QED BY <1>2, <1>6, <1>7 DEF Sess!Edit

\* A save with some of its fields changed is a save.
LEMMA SaveIs == ASSUME SessInv, NEW t \in Threads, Saving(t)
                PROVE  /\ IsSave(job[t]) /\ Sent(t) = job[t].sent /\ Line(t) = job[t].queue /\ Born(t) = job[t].born
                       /\ Given(t) = job[t].ids
                       /\ job[t].sent \subseteq Messages /\ job[t].queue \in Seq(Entries)
                       /\ job[t].born \in Seq(Nat) /\ job[t].ids \in Seq(Nat) /\ job[t].pc = Pc(t)
                       /\ Pc(t) \in {"insert", "store", "update"} /\ DOMAIN job = Threads
<1>1. IsSave(job[t]) /\ Sent(t) = job[t].sent /\ Line(t) = job[t].queue /\ Born(t) = job[t].born /\ DOMAIN job = Threads
      /\ Given(t) = job[t].ids
  BY DEF SessInv, SessTypes, JobTypes, Saving, Sent, Line, Born, Given
<1> QED BY <1>1 DEF IsSave, Pc

\* An entry is appended to a queue.
LEMMA QueueGrows == ASSUME SessInv, NEW w \in Threads, Pc(w) = "store", NEW q \in Entries,
                           job' = [job EXCEPT ![w].queue = Append(@, q)]
                    PROVE  /\ JobTypes' /\ \A u \in Threads \ {w} : SameJob(u)
                           /\ Pc(w)' = "store" /\ Saving(w)' /\ Sent(w)' = Sent(w) /\ Born(w)' = Born(w) /\ Given(w)' = Given(w)
                           /\ Line(w)' = Append(Line(w), q) /\ Waits(w)' = Waits(w) \cup {q}
                           /\ Line(w) \in Seq(Entries)
<1>1. Saving(w)
  BY DEF Saving
<1>2. PICK j : j = job[w]
  OBVIOUS
<1>3. PICK s : s = Append(j.queue, q)
  OBVIOUS
<1>4. IsSave(j) /\ j.queue \in Seq(Entries) /\ j.pc = "store" /\ Line(w) = j.queue /\ DOMAIN job = Threads
  BY <1>1, <1>2, SaveIs
<1>5. s \in Seq(Entries) /\ ToSet(s) = ToSet(j.queue) \cup {q}
  BY <1>3, <1>4, Appended
<1>6. PICK k : k = [j EXCEPT !.queue = s]
  OBVIOUS
<1>7. job' = [job EXCEPT ![w] = k]
  BY <1>2, <1>3, <1>6
<1>8. job'[w] = k /\ DOMAIN job' = Threads /\ \A u \in Threads \ {w} : job'[u] = job[u]
  BY <1>4, <1>7
<1>9. /\ IsSave(k) /\ k.pc = "store" /\ k.sent = j.sent /\ k.born = j.born /\ k.ids = j.ids /\ k.queue = s
  BY <1>4, <1>5, <1>6 DEF IsSave
<1>10. \A u \in Threads \ {w} : SameJob(u)
  BY <1>8, SameJobs
<1>11. JobTypes'
  <2>1. \A u \in Threads \ {w} : job'[u].pc \in {"idle", "again"} \/ IsSave(job'[u])
    BY <1>8 DEF SessInv, SessTypes, JobTypes, Pc
  <2>2. IsSave(job'[w])
    BY <1>8, <1>9
  <2> QED BY <2>1, <2>2, <1>8 DEF JobTypes, Pc
<1>12. /\ Pc(w)' = "store" /\ Saving(w)' /\ Sent(w)' = Sent(w) /\ Born(w)' = Born(w) /\ Given(w)' = Given(w)
       /\ Line(w)' = s /\ Waits(w)' = ToSet(s) /\ Waits(w) = ToSet(j.queue)
  <2>1. Pc(w)' = "store" /\ Saving(w)' /\ Saving(w) /\ Pc(w) = "store"
    BY <1>1, <1>8, <1>9 DEF Pc, Saving
  <2>2. Sent(w)' = Sent(w) /\ Born(w)' = Born(w) /\ Given(w)' = Given(w) /\ Line(w)' = s
    BY <2>1, <1>2, <1>8, <1>9 DEF Sent, Born, Given, Line
  <2>3. Waits(w)' = ToSet(s) /\ Waits(w) = ToSet(j.queue)
    BY <2>1, <2>2, <1>4 DEF Waits
  <2> QED BY <2>1, <2>2, <2>3
<1> QED BY <1>3, <1>4, <1>5, <1>10, <1>11, <1>12

\* In insert mode a newborn is given an id at once, and joins the queue of the insert that runs.
LEMMA CreateInBlockStep == ASSUME SessInv, NEW t \in Threads, Sess!CreateInBlock(t) PROVE SessInv'
<1> USE SessionNumbers
<1>0. /\ UNCHANGED <<lite, committed, staging, ops, mode, records, told, overlap>> /\ mode # "off"
      /\ accepted' = accepted + 1 /\ accepted \in Nat /\ lastid' = lastid + 1 /\ lastid \in Nat /\ lastid < MaxId
  BY DEF Sess!CreateInBlock, SessInv, SessTypes, StoreTypes
<1>1. InstTypes /\ Copies /\ \A o \in staging : o \in Pos
  BY DEF SessInv, SessTypes, InstTypes
<1>2. PICK r : r = Sess!Instance(lastid + 1, <<accepted + 1>>, TRUE)
  OBVIOUS
<1>3. r \in Instances /\ r.id = lastid + 1 /\ r.edits = <<accepted + 1>> /\ r.inblock = TRUE
  <2>1. <<accepted + 1>> \in Seq(Nat) /\ lastid + 1 \in Nat
    BY <1>0
  <2>2. r = [id |-> lastid + 1, edits |-> <<accepted + 1>>, inblock |-> TRUE, deleted |-> FALSE, obsolete |-> FALSE]
    BY <1>2 DEF Sess!Instance
  <2> QED BY <2>1, <2>2 DEF Instances
<1>4. PICK n : n = Len(inst) + 1
  OBVIOUS
<1>5. inst' = Append(inst, r) /\ inst \in Seq(Instances)
  BY <1>1, <1>2 DEF Sess!CreateInBlock, InstTypes
<1>6. /\ inst' \in Seq(Instances) /\ n \in Nat \ {0} /\ n \notin Pos /\ Pos' = Pos \cup {n}
      /\ inst'[n] = r /\ \A o \in Pos : inst'[o] = inst[o]
  BY <1>3, <1>4, <1>5, Appended DEF Pos
<1>7. held' = [held EXCEPT ![t] = n]
  BY <1>4 DEF Sess!CreateInBlock
<1>8. PICK q : q = [id |-> lastid + 1, of |-> n, data |-> << >>]
  OBVIOUS
<1>9. q \in Entries /\ q.id = lastid + 1 /\ q.of = n /\ q.data = << >>
  BY <1>0, <1>6, <1>8 DEF Entries
<1>10. /\ JobTypes'
       /\ \A u \in Threads : /\ Pc(u)' = Pc(u) /\ Sent(u)' = Sent(u) /\ Born(u)' = Born(u) /\ Given(u)' = Given(u)
                             /\ \/ Line(u)' = Line(u) /\ Waits(u)' = Waits(u)
                                \/ /\ u = mode /\ Pc(u) = "store" /\ Line(u)' = Append(Line(u), q)
                                   /\ Waits(u)' = Waits(u) \cup {q} /\ Line(u) \in Seq(Entries)
       /\ (mode = "dead" => accepted + 1 \in slipped') /\ (mode # "dead" => mode \in Threads /\ q \in Waits(mode)')
       /\ slipped \subseteq slipped'
  <2>1. CASE mode = "dead"
    <3>1. job' = job /\ slipped' = slipped \cup {accepted + 1}
      BY <2>1 DEF Sess!CreateInBlock
    <3>2. JobTypes'
      BY <3>1 DEF SessInv, SessTypes, JobTypes, Pc, IsSave, Messages, Entries
    <3>3. \A u : SameJob(u)
      BY <3>1, SameJobs
    <3> QED BY <2>1, <3>1, <3>2, <3>3 DEF SameJob
  <2>2. CASE mode # "dead"
    <3>1. mode \in Threads /\ Pc(mode) = "store"
      BY <2>2, <1>0 DEF SessInv, Stages
    <3>2. job' = [job EXCEPT ![mode].queue = Append(@, q)] /\ slipped' = slipped
      BY <2>2, <1>4, <1>8 DEF Sess!CreateInBlock
    <3>3. PICK w : w = mode
      OBVIOUS
    <3>4. /\ JobTypes' /\ \A u \in Threads \ {w} : SameJob(u)
          /\ Pc(w)' = "store" /\ Saving(w)' /\ Sent(w)' = Sent(w) /\ Born(w)' = Born(w) /\ Given(w)' = Given(w)
          /\ Line(w)' = Append(Line(w), q) /\ Waits(w)' = Waits(w) \cup {q}
          /\ Line(w) \in Seq(Entries)
      BY <3>1, <3>2, <3>3, <1>9, QueueGrows
    <3>5. Waits(mode)' = Waits(w)'
      BY <3>3, <1>0
    <3> QED BY <2>2, <3>1, <3>2, <3>3, <3>4, <3>5 DEF SameJob
  <2> QED BY <2>1, <2>2
<1>11. Carriers' = Carriers /\ \A u \in Threads : ToSet(Line(u)') = ToSet(Line(u)) \/ ToSet(Line(u)') = ToSet(Line(u)) \cup {q}
  <2>1. (UNION {Sent(u) : u \in Threads})' = UNION {Sent(u) : u \in Threads}
    BY <1>10
  <2>2. \A l : l \in Seq(Entries) => ToSet(Append(l, q)) = ToSet(l) \cup {q}
    BY <1>9, Appended
  <2> QED BY <2>1, <2>2, <1>0, <1>10 DEF Carriers
<1>12. \A m \in Carriers : m.id <= lastid /\ m.id \in Nat
  BY CarriersAre DEF SessInv, Unborn
<1>13. \A u \in Threads : \A p \in Waits(u) : p.id \in 1 .. lastid
  BY DEF SessInv, Unborn
<1>14. SessTypes'
  <2>1. InstTypes'
    BY <1>0, <1>1, <1>6, <1>7 DEF InstTypes
  <2>2. StoreTypes'
    BY <1>0 DEF SessInv, SessTypes, StoreTypes, Messages
  <2> QED BY <2>1, <2>2, <1>10 DEF SessTypes
<1>15. Copies'
  <2>1. \A o \in Pos : inst[o].id \in Nat
    BY InstanceIs
  <2>2. \A o \in staging' : ~inst'[o].inblock
    BY <1>0, <1>1, <1>6 DEF Copies
  <2>3. ASSUME NEW o \in Pos' \ staging', inst'[o].id # 0, ~inst'[o].inblock PROVE inst'[o].obsolete
    <3>1. o # n
      BY <2>3, <1>3, <1>6
    <3>2. o \in Pos \ staging /\ inst'[o] = inst[o]
      BY <2>3, <3>1, <1>0, <1>6
    <3> QED BY <2>3, <3>2, <1>1 DEF Copies
  <2>4. \A o, p \in staging' : inst'[o].id # 0 /\ inst'[o].id = inst'[p].id => o = p
    BY <1>0, <1>1, <1>6 DEF Copies
  <2>5. ASSUME NEW o \in Pos' PROVE inst'[o].id <= lastid' /\ (inst'[o].inblock => inst'[o].id # 0)
    <3>1. CASE o = n
      BY <3>1, <1>0, <1>3, <1>6
    <3>2. CASE o \in Pos
      BY <3>2, <2>1, <1>0, <1>1, <1>6 DEF Copies
    <3> QED BY <3>1, <3>2, <1>6
  <2> QED BY <2>2, <2>3, <2>4, <2>5 DEF Copies
<1>16. Newborns'
  BY <1>0, <1>6, <1>10 DEF SessInv, Newborns
<1>17. Stages'
  BY <1>0, <1>10 DEF SessInv, Stages
<1>18. Numbered'
  <2>1. \A u \in Threads : \A i \in DOMAIN Given(u) : Given(u)[i] \in 1 .. lastid' /\ Given(u)[i] # q.id
    BY <1>0, <1>9 DEF SessInv, Numbered
  <2> QED BY <2>1, <1>10 DEF SessInv, Numbered
<1>19. Unborn'
  <2>1. \A id \in 1 .. MaxId : id > lastid' => records'[id] = << >>
    BY <1>0 DEF SessInv, Unborn
  <2>2. \A m \in Carriers' : m.id <= lastid'
    BY <1>0, <1>11, <1>12
  <2>3. ASSUME NEW u \in Threads, NEW p \in Waits(u)'
        PROVE  /\ p.id \in 1 .. lastid' /\ records'[p.id] = << >>
               /\ p.of # 0 => p.of \in Pos' /\ inst'[p.of].inblock
               /\ \A o \in staging' : inst'[o].id # p.id
               /\ \A m \in Carriers' : m.id # p.id
               /\ \A v \in Threads \ {u} : \A p1 \in Waits(v)' : p1.id # p.id
    <3>1. CASE p \in Waits(u)
      <4>1. p.id \in 1 .. lastid /\ p.id # q.id
        BY <3>1, <1>13, <1>9, <1>0
      <4>2. /\ records[p.id] = << >> /\ (p.of # 0 => p.of \in Pos /\ inst[p.of].inblock)
            /\ (\A o \in staging : inst[o].id # p.id) /\ (\A m \in Carriers : m.id # p.id)
            /\ \A v \in Threads \ {u} : \A p1 \in Waits(v) : p1.id # p.id
        BY <3>1 DEF SessInv, Unborn
      <4>3. \A v \in Threads \ {u} : \A p1 \in Waits(v)' : p1.id # p.id
        BY <4>1, <4>2, <1>10
      <4>4. p.id \in 1 .. lastid'
        BY <4>1, <1>0
      <4>5. \A o \in staging' : inst'[o].id # p.id
        BY <4>2, <1>0, <1>1, <1>6
      <4> QED BY <4>2, <4>3, <4>4, <4>5, <1>0, <1>6, <1>11
    <3>2. CASE p = q /\ u = mode /\ Waits(u)' = Waits(u) \cup {q}
      <4>1. p.id \in 1 .. lastid' /\ records'[p.id] = << >>
        <5>1. lastid + 1 \in 1 .. MaxId /\ lastid + 1 > lastid
          BY <1>0
        <5> QED BY <5>1, <3>2, <1>0, <1>9 DEF SessInv, Unborn
      <4>2. p.of \in Pos' /\ inst'[p.of].inblock
        BY <3>2, <1>3, <1>6, <1>9
      <4>3. \A o \in staging' : inst'[o].id # p.id
        <5>1. \A o \in staging : inst[o].id \in Nat /\ inst[o].id <= lastid
          BY <1>1, InstanceIs DEF Copies
        <5> QED BY <5>1, <3>2, <1>0, <1>1, <1>6, <1>9
      <4>4. \A m \in Carriers' : m.id # p.id
        BY <3>2, <1>0, <1>9, <1>11, <1>12
      <4>5. \A v \in Threads \ {u} : \A p1 \in Waits(v)' : p1.id # p.id
        BY <3>2, <1>0, <1>9, <1>10, <1>13
      <4> QED BY <4>1, <4>2, <4>3, <4>4, <4>5
    <3> QED BY <3>1, <3>2, <1>10
  <2>4. ASSUME NEW u \in Threads, Pc(u)' = "store"
        PROVE  \A i, j \in DOMAIN Line(u)' : Line(u)'[i].id = Line(u)'[j].id => i = j
    <3>1. \A i, j \in DOMAIN Line(u) : Line(u)[i].id = Line(u)[j].id => i = j
      BY <2>4, <1>10 DEF SessInv, Unborn
    <3>2. CASE Line(u)' = Line(u)
      BY <3>1, <3>2
    <3>3. CASE Line(u)' = Append(Line(u), q) /\ Line(u) \in Seq(Entries)
      <4>1. PICK l : l = Line(u)
        OBVIOUS
      <4>2. PICK a : a = Append(l, q)
        OBVIOUS
      <4>3. PICK k : k = Len(l) + 1
        OBVIOUS
      <4>4. DOMAIN a = DOMAIN l \cup {k} /\ k \notin DOMAIN l /\ a[k] = q /\ \A i \in DOMAIN l : a[i] = l[i]
        BY <3>3, <4>1, <4>2, <4>3, <1>9, Appended
      <4>5. \A i \in DOMAIN l : l[i] \in Waits(u)
        BY <2>4, <3>3, <4>1, <1>10, ElementsOf DEF Waits
      <4>6. \A i \in DOMAIN l : l[i].id # q.id
        BY <4>5, <1>13, <1>9, <1>0
      <4>7. \A i, j \in DOMAIN a : a[i].id = a[j].id => i = j
        BY <3>1, <4>1, <4>4, <4>6
      <4> QED BY <4>7, <3>3, <4>1, <4>2
    <3> QED BY <3>2, <3>3, <1>10
  <2> QED BY <2>1, <2>2, <2>3, <2>4 DEF Unborn
<1>20. \A s : s \in Seq(Nat) /\ Made(s) => Made(s)'
  <2>1. ASSUME NEW s, s \in Seq(Nat), Made(s) PROVE Made(s)'
    <3>1. \A i \in DOMAIN s : s[i] \in Nat /\ s[i] <= accepted
      BY <2>1 DEF Made
    <3> QED BY <3>1, <1>0 DEF Made
  <2> QED BY <2>1
<1>21. Counted'
  <2>1. \A id \in 1 .. MaxId : Made(records[id])'
    BY <1>0, <1>20 DEF SessInv, Counted, SessTypes, StoreTypes
  <2>2. \A m \in Carriers' : Made(m.edits)' /\ Rising(m.edits)
    BY <1>11, <1>20, CarriersAre DEF SessInv, Counted
  <2>3. \A u \in Threads : \A p \in ToSet(Line(u)') : p \in ToSet(Line(u)) \/ p = q
    BY <1>11
  <2>4. \A u \in Threads : \A p \in ToSet(Line(u)) : p.data \in Seq(Nat) /\ Made(p.data) /\ Rising(p.data)
    BY LineIs DEF SessInv, Counted, Entries
  <2>5. Made(q.data)' /\ Rising(q.data)
    BY <1>9 DEF Made, Rising
  <2>6. \A o \in Pos : Made(inst[o].edits)' /\ Rising(inst[o].edits)
    BY <1>6, <1>20, InstanceIs
  <2>8. DOMAIN r.edits = {1} /\ r.edits[1] = accepted + 1
    BY <1>3
  <2>9. Made(r.edits)' /\ Rising(r.edits)
    BY <2>8, <1>0 DEF Made, Rising
  <2>10. \A o \in Pos' : Made(inst[o].edits)' /\ Rising(inst'[o].edits)
    BY <2>6, <2>9, <1>6
  <2> QED BY <2>1, <2>2, <2>3, <2>4, <2>5, <2>10, <1>20 DEF Counted, Rising
<1>22. Alone'
  BY <1>0, <1>10 DEF SessInv, Alone
<1>23. InOrder'
  BY <1>0, <1>1, <1>6, <1>11 DEF SessInv, InOrder
<1>24. Covered'
  <2>1. ASSUME NEW e, IsStaged(e) \/ IsSent(e) \/ IsStored(e) \/ e \in told \/ e \in slipped PROVE Somewhere(e)'
    <3>1. IsStaged(e) => IsStaged(e)'
      BY <1>0, <1>1, <1>6 DEF IsStaged
    <3>2. IsSent(e) => IsSent(e)'
      BY <1>11 DEF IsSent
    <3>3. IsStored(e) => IsStored(e)'
      BY <1>0 DEF IsStored
    <3> QED BY <2>1, <3>1, <3>2, <3>3, <1>0, <1>10 DEF Somewhere
  <2>2. ASSUME NEW e, IsQueued(e) PROVE IsQueued(e)'
    <3>1. PICK u \in Threads : \E p \in ToSet(Line(u)) : e \in ToSet(IF p.of = 0 THEN p.data ELSE inst[p.of].edits)
      BY <2>2 DEF IsQueued
    <3>2. PICK p \in ToSet(Line(u)) : e \in ToSet(IF p.of = 0 THEN p.data ELSE inst[p.of].edits)
      BY <3>1
    <3>3. p \in ToSet(Line(u)')
      BY <1>11
    <3>4. p.of # 0 => p.of \in Pos /\ inst'[p.of] = inst[p.of]
      BY <1>6, LineIs
    <3>5. e \in ToSet(IF p.of = 0 THEN p.data ELSE inst'[p.of].edits)
      BY <3>2, <3>4
    <3> QED BY <3>3, <3>5 DEF IsQueued
  <2>3. ASSUME NEW e, e = accepted + 1 PROVE Somewhere(e)'
    <3>1. CASE mode = "dead"
      BY <3>1, <2>3, <1>10 DEF Somewhere
    <3>2. CASE mode # "dead"
      <4>1. PICK w \in Threads : w = mode /\ q \in Waits(w)'
        <5>1. PICK w : w = mode
          OBVIOUS
        <5>2. Waits(mode)' = Waits(w)'
          BY <5>1, <1>0
        <5> QED BY <3>2, <5>1, <5>2, <1>10
      <4>2. q \in ToSet(Line(w)')
        BY <4>1 DEF Waits, ToSet, Sess!ToSet
      <4>3. e \in ToSet(inst'[n].edits)
        BY <2>3, <1>0, <1>3, <1>6 DEF ToSet, Sess!ToSet
      <4>4. IsQueued(e)'
        BY <4>2, <4>3, <1>6, <1>9 DEF IsQueued
      <4> QED BY <4>4 DEF Somewhere
    <3> QED BY <3>1, <3>2
  <2>4. ASSUME NEW e \in 1 .. accepted' PROVE Somewhere(e)'
    <3>1. CASE e \in 1 .. accepted
      BY <3>1, <2>1, <2>2 DEF SessInv, Covered, Somewhere
    <3>2. CASE e = accepted + 1
      BY <3>2, <2>3
    <3> QED BY <3>1, <3>2, <1>0
  <2> QED BY <2>4 DEF Covered
<1> QED BY <1>14, <1>15, <1>16, <1>17, <1>18, <1>19, <1>21, <1>22, <1>23, <1>24 DEF SessInv

\* A flow goes on with another job.
LEMMA OneJob == ASSUME SessInv, NEW t \in Threads, NEW k, k.pc \in {"idle", "again"} \/ IsSave(k), job' = [job EXCEPT ![t] = k]
                PROVE  /\ JobTypes' /\ (\A u \in Threads \ {t} : SameJob(u)) /\ Pc(t)' = k.pc
                       /\ IsSave(k) => /\ Sent(t)' = k.sent /\ Line(t)' = k.queue /\ Born(t)' = k.born /\ Given(t)' = k.ids
                                       /\ Waits(t)' = IF k.pc = "store" THEN ToSet(k.queue) ELSE {}
                       /\ ~IsSave(k) => /\ Sent(t)' = {} /\ Line(t)' = << >> /\ Born(t)' = << >> /\ Given(t)' = << >> /\ Waits(t)' = {}
                                        /\ k.pc \in {"idle", "again"}
                       /\ k.pc \in {"idle", "again"} => ~IsSave(k)
<1>1. DOMAIN job = Threads /\ \A u \in Threads : Pc(u) \in {"idle", "again"} \/ IsSave(job[u])
  BY DEF SessInv, SessTypes, JobTypes
<1>2. job'[t] = k /\ DOMAIN job' = Threads /\ \A u \in Threads \ {t} : job'[u] = job[u]
  BY <1>1
<1>3. \A u \in Threads \ {t} : SameJob(u)
  BY <1>2, SameJobs
<1>4. JobTypes'
  BY <1>1, <1>2 DEF JobTypes, Pc
<1>5. IsSave(k) => k.pc \in {"insert", "store", "update"}
  BY DEF IsSave
<1>6. Pc(t)' = k.pc
  BY <1>2 DEF Pc
<1>7. ASSUME IsSave(k)
      PROVE  /\ Sent(t)' = k.sent /\ Line(t)' = k.queue /\ Born(t)' = k.born /\ Given(t)' = k.ids
             /\ Waits(t)' = IF k.pc = "store" THEN ToSet(k.queue) ELSE {}
  <2>1. Saving(t)'
    BY <1>5, <1>6, <1>7 DEF Saving
  <2>2. Sent(t)' = k.sent /\ Line(t)' = k.queue /\ Born(t)' = k.born /\ Given(t)' = k.ids
    BY <2>1, <1>2 DEF Sent, Line, Born, Given
  <2> QED BY <2>2, <1>6 DEF Waits
<1>8. ASSUME ~IsSave(k)
      PROVE  /\ Sent(t)' = {} /\ Line(t)' = << >> /\ Born(t)' = << >> /\ Given(t)' = << >> /\ Waits(t)' = {}
             /\ k.pc \in {"idle", "again"}
  <2>1. ~Saving(t)' /\ k.pc \in {"idle", "again"}
    BY <1>6, <1>8 DEF Saving
  <2> QED BY <2>1 DEF Sent, Line, Born, Given, Waits, Saving
<1> QED BY <1>3, <1>4, <1>5, <1>6, <1>7, <1>8

\* What may be said of edits still holds when more of them were made.
LEMMA SameCounts == ASSUME SessInv, UNCHANGED accepted
                    PROVE  /\ \A s : Made(s)' = Made(s)
                           /\ \A id \in 1 .. MaxId : records[id] \in Seq(Nat) /\ Made(records[id])
                           /\ \A m \in Carriers : m.edits \in Seq(Nat) /\ Made(m.edits) /\ Rising(m.edits)
                           /\ \A t \in Threads : \A q \in ToSet(Line(t)) : q.data \in Seq(Nat) /\ Made(q.data) /\ Rising(q.data)
<1>1. \A s : Made(s)' = Made(s)
  BY DEF Made
<1> QED BY <1>1, CarriersAre, LineIs DEF SessInv, Counted, SessTypes, StoreTypes, Entries

\* Operations on their way are the same if those of no flow change.
LEMMA SameCarriers == ASSUME UNCHANGED ops, \A t \in Threads : Sent(t)' = Sent(t) PROVE Carriers' = Carriers
<1>1. (UNION {Sent(t) : t \in Threads})' = UNION {Sent(t) : t \in Threads}
  OBVIOUS
<1> QED BY <1>1 DEF Carriers

\* The block gives new ids to the objects of an insert.
LEMMA BeginInsertStep ==
    ASSUME SessInv, NEW t \in Threads, Sess!BeginInsert(t), ~(lite /\ mode # "off") PROVE SessInv'
<1> USE SessionNumbers
<1>0. /\ UNCHANGED <<lite, committed, inst, staging, held, records, accepted, slipped, overlap, ops, told>>
      /\ mode' = IF lite THEN t ELSE mode
      /\ job[t].pc = "insert" /\ job[t].queue # << >>
      /\ lastid' = lastid + Len(job[t].queue) /\ lastid' <= MaxId /\ lastid \in Nat
  BY DEF Sess!BeginInsert, SessInv, SessTypes, StoreTypes
<1>1. PICK j : j = job[t]
  OBVIOUS
<1>2. /\ IsSave(j) /\ j.pc = "insert" /\ Pc(t) = "insert" /\ Sent(t) = j.sent /\ Line(t) = j.queue /\ Born(t) = j.born
      /\ j.queue \in Seq(Entries) /\ Given(t) = << >> /\ Waits(t) = {} /\ DOMAIN j.queue = DOMAIN j.born
      /\ \A i \in DOMAIN j.queue : j.queue[i].of = 0
  <2>1. Pc(t) = "insert" /\ Saving(t)
    BY <1>0 DEF Saving, Pc
  <2>2. Waits(t) = {}
    BY <2>1 DEF Waits
  <2> QED BY <2>1, <2>2, <1>1, SaveIs DEF SessInv, Stages
<1>3. PICK s : s = [i \in DOMAIN j.queue |-> [j.queue[i] EXCEPT !.id = lastid + i]]
  OBVIOUS
<1>4. PICK g : g = [i \in DOMAIN j.queue |-> lastid + i]
  OBVIOUS
<1>5. PICK n : n = Len(j.queue)
  OBVIOUS
<1>6. n \in Nat /\ DOMAIN j.queue = 1 .. n /\ lastid' = lastid + n
  BY <1>0, <1>1, <1>2, <1>5
<1>7. /\ s \in Seq(Entries) /\ g \in Seq(Nat) /\ DOMAIN s = DOMAIN j.queue /\ DOMAIN g = DOMAIN j.queue
      /\ \A i \in DOMAIN j.queue : s[i].id = lastid + i /\ s[i].of = 0 /\ s[i].data = j.queue[i].data /\ g[i] = lastid + i
  <2>1. \A i \in DOMAIN j.queue : j.queue[i] \in Entries /\ i \in Nat
    BY <1>2
  <2>2. \A i \in DOMAIN j.queue : /\ s[i] \in Entries /\ g[i] \in Nat
                                  /\ s[i].id = lastid + i /\ s[i].of = 0 /\ s[i].data = j.queue[i].data /\ g[i] = lastid + i
    <3>1. ASSUME NEW i \in DOMAIN j.queue
          PROVE  /\ s[i] \in Entries /\ g[i] \in Nat
                 /\ s[i].id = lastid + i /\ s[i].of = 0 /\ s[i].data = j.queue[i].data /\ g[i] = lastid + i
      <4>1. PICK q \in Entries : q = j.queue[i]
        BY <2>1
      <4>2. i \in Nat /\ lastid + i \in Nat /\ q.of = 0
        BY <2>1, <4>1, <1>0, <1>2
      <4>3. s[i] = [q EXCEPT !.id = lastid + i] /\ g[i] = lastid + i
        BY <4>1, <1>3, <1>4
      <4> QED BY <4>1, <4>2, <4>3 DEF Entries
    <3> QED BY <3>1
  <2>3. s = [i \in 1 .. n |-> s[i]] /\ g = [i \in 1 .. n |-> g[i]]
    BY <1>3, <1>4, <1>6
  <2>4. s \in Seq(Entries) /\ g \in Seq(Nat)
    <3>1. (\A i \in 1 .. n : s[i] \in Entries) /\ \A i \in 1 .. n : g[i] \in Nat
      BY <2>2, <1>6
    <3>2. [i \in 1 .. n |-> s[i]] \in Seq(Entries)
      BY <3>1, <1>6
    <3>3. [i \in 1 .. n |-> g[i]] \in Seq(Nat)
      BY <3>1, <1>6
    <3> QED BY <3>2, <3>3, <2>3
  <2> QED BY <2>2, <2>4, <1>3, <1>4
<1>8. PICK k : k = [j EXCEPT !.pc = "store", !.queue = s, !.ids = g]
  OBVIOUS
<1>9. job' = [job EXCEPT ![t] = k]
  <2>1. job' = [job EXCEPT ![t].pc = "store",
                           ![t].queue = [i \in DOMAIN @ |-> [@[i] EXCEPT !.id = lastid + i]],
                           ![t].ids = [i \in DOMAIN job[t].queue |-> lastid + i]]
    BY DEF Sess!BeginInsert
  <2> QED BY <2>1, <1>1, <1>3, <1>4, <1>8
<1>10. IsSave(k) /\ k.pc = "store" /\ k.sent = j.sent /\ k.queue = s /\ k.born = j.born /\ k.ids = g
  BY <1>2, <1>7, <1>8 DEF IsSave
<1>11. /\ JobTypes' /\ (\A u \in Threads \ {t} : SameJob(u)) /\ Pc(t)' = "store"
       /\ Sent(t)' = Sent(t) /\ Line(t)' = s /\ Born(t)' = Born(t) /\ Given(t)' = g /\ Waits(t)' = ToSet(s)
  BY <1>2, <1>9, <1>10, OneJob
<1>12. Carriers' = Carriers
  BY <1>0, <1>11, SameCarriers DEF SameJob
<1>13. SessTypes'
  <2>1. InstTypes'
    BY <1>0 DEF SessInv, SessTypes, InstTypes, Pos
  <2>2. StoreTypes'
    BY <1>0, <1>6 DEF SessInv, SessTypes, StoreTypes, Messages
  <2> QED BY <2>1, <2>2, <1>11 DEF SessTypes
<1>14. Copies'
  <2>1. \A o \in Pos : inst[o].id \in Nat
    BY InstanceIs
  <2> QED BY <2>1, <1>0, <1>6 DEF SessInv, Copies, Pos
<1>15. Newborns'
  BY <1>0, <1>11 DEF SessInv, Newborns, SameJob, Pos
<1>16. \A u \in Threads : Born(u)' = Born(u) /\ Sent(u)' = Sent(u) /\ (u # t => SameJob(u))
  BY <1>11 DEF SameJob
<1>17. Stages'
  <2>1. ASSUME NEW u \in Threads
        PROVE  /\ Pc(u)' = "insert" => /\ DOMAIN Line(u)' = DOMAIN Born(u)' /\ Given(u)' = << >>
                                       /\ \A i \in DOMAIN Line(u)' : Line(u)'[i].of = 0
               /\ \A m \in Sent(u)' : m.op = "upd" /\ m.by = u
               /\ Pc(u)' = "update" => Line(u)' = << >> /\ Sent(u)' = {}
               /\ Pc(u)' \in {"store", "update"} => DOMAIN Given(u)' = DOMAIN Born(u)'
    <3>1. CASE u = t
      BY <3>1, <1>2, <1>7, <1>11 DEF SessInv, Stages
    <3>2. CASE u # t
      BY <3>2, <1>11 DEF SameJob, SessInv, Stages
    <3> QED BY <3>1, <3>2
  <2>2. \A m \in ops : m.op = "upd" /\ m.by \in Threads => m.by # t /\ Pc(m.by) = "update"
    BY <1>2 DEF SessInv, Stages
  <2>3. mode' \in {"off", "dead"} \cup Threads /\ (~lite => mode' = "off")
    BY <1>0 DEF SessInv, Stages
  <2>4. mode' \in Threads => mode' = t
    BY <1>0 DEF SessInv, Stages
  <2>5. mode' = t => Pc(mode)' = "store"
    BY <1>11 DEF Pc
  <2>6. \A m \in ops' : m.op = "upd" /\ m.by \in Threads => Pc(m.by)' = "update"
    BY <2>2, <1>0, <1>11 DEF SameJob
  <2> QED BY <2>1, <2>3, <2>4, <2>5, <2>6, <1>0 DEF Stages
<1>18. \A u \in Threads : \A p \in Waits(u) : p.id \in 1 .. lastid
  BY DEF SessInv, Unborn
<1>19. \A u \in Threads : \A i \in DOMAIN Given(u) : Given(u)[i] \in 1 .. lastid
  BY DEF SessInv, Numbered
<1>20. \A p \in ToSet(s) : p.id \in 1 .. lastid' /\ p.id > lastid /\ p.of = 0
  <2>1. \A p \in ToSet(s) : \E i \in DOMAIN s : s[i] = p
    BY <1>7, ElementsOf
  <2>2. \A i \in DOMAIN s : s[i].id \in 1 .. lastid' /\ s[i].id > lastid /\ s[i].of = 0
    BY <1>0, <1>6, <1>7
  <2> QED BY <2>1, <2>2
<1>21. Numbered'
  <2>1. \A i \in DOMAIN g : g[i] \in 1 .. lastid' /\ g[i] > lastid
    BY <1>0, <1>6, <1>7
  <2>2. \A i, i2 \in DOMAIN g : g[i] = g[i2] => i = i2
    BY <1>0, <1>6, <1>7
  <2>3. \A u \in Threads \ {t} : Given(u)' = Given(u) /\ Waits(u)' = Waits(u)
    BY <1>11 DEF SameJob
  <2>4. ASSUME NEW u \in Threads
        PROVE  /\ \A i \in DOMAIN Given(u)' : Given(u)'[i] \in 1 .. lastid'
               /\ \A i, i2 \in DOMAIN Given(u)' : Given(u)'[i] = Given(u)'[i2] => i = i2
               /\ \A v \in Threads \ {u} : \A i \in DOMAIN Given(u)' : \A q \in Waits(v)' : q.id # Given(u)'[i]
    <3>1. CASE u = t
      <4>1. \A v \in Threads \ {t} : \A i \in DOMAIN g : \A q \in Waits(v) : q.id # g[i]
        BY <2>1, <1>0, <1>18
      <4> QED BY <3>1, <4>1, <2>1, <2>2, <2>3, <1>11
    <3>2. CASE u # t
      <4>1. \A i \in DOMAIN Given(u) : Given(u)[i] \in 1 .. lastid'
        BY <1>0, <1>6, <1>19
      <4>2. \A i \in DOMAIN Given(u) : \A q \in Waits(t)' : q.id # Given(u)[i]
        BY <1>0, <1>11, <1>19, <1>20
      <4>3. \A v \in Threads \ {u} : v # t => \A i \in DOMAIN Given(u) : \A q \in Waits(v)' : q.id # Given(u)[i]
        BY <2>3 DEF SessInv, Numbered
      <4>4. \A i, i2 \in DOMAIN Given(u) : Given(u)[i] = Given(u)[i2] => i = i2
        BY DEF SessInv, Numbered
      <4> QED BY <3>2, <4>1, <4>2, <4>3, <4>4, <2>3
    <3> QED BY <3>1, <3>2
  <2> QED BY <2>4 DEF Numbered
<1>22. Unborn'
  <2>1. \A id \in 1 .. MaxId : id > lastid' => records'[id] = << >>
    BY <1>0, <1>6 DEF SessInv, Unborn
  <2>2. \A m \in Carriers : m.id \in Nat /\ m.id <= lastid /\ m.id <= lastid'
    BY <1>0, <1>6, CarriersAre DEF SessInv, Unborn
  <2>3. \A o \in staging : o \in Pos /\ inst[o].id \in Nat /\ inst[o].id <= lastid
    BY InstanceIs DEF SessInv, SessTypes, InstTypes, Copies
  <2>4. \A u \in Threads \ {t} : Waits(u)' = Waits(u) /\ Line(u)' = Line(u) /\ Pc(u)' = Pc(u)
    BY <1>11 DEF SameJob
  <2>5. ASSUME NEW u \in Threads, NEW p \in Waits(u)'
        PROVE  /\ p.id \in 1 .. lastid' /\ records'[p.id] = << >>
               /\ p.of # 0 => p.of \in Pos' /\ inst'[p.of].inblock
               /\ \A o \in staging' : inst'[o].id # p.id
               /\ \A m \in Carriers' : m.id # p.id
               /\ \A v \in Threads \ {u} : \A p1 \in Waits(v)' : p1.id # p.id
    <3>1. CASE u = t
      <4>1. p.id \in 1 .. lastid' /\ p.id > lastid /\ p.of = 0
        BY <3>1, <2>5, <1>11, <1>20
      <4>2. p.id \in 1 .. MaxId
        BY <4>1, <1>0, <1>6
      <4>3. records[p.id] = << >>
        BY <4>1, <4>2 DEF SessInv, Unborn
      <4>4. \A v \in Threads \ {u} : \A p1 \in Waits(v)' : p1.id # p.id
        BY <3>1, <4>1, <2>4, <1>0, <1>18
      <4>5. (\A o \in staging' : inst'[o].id # p.id) /\ \A m \in Carriers' : m.id # p.id
        BY <4>1, <2>2, <2>3, <1>0, <1>12
      <4> QED BY <4>1, <4>3, <4>4, <4>5, <1>0
    <3>2. CASE u # t
      <4>1. p \in Waits(u)
        BY <3>2, <2>4, <2>5
      <4>2. p.id \in 1 .. lastid /\ p.id \in 1 .. lastid'
        BY <4>1, <1>0, <1>6, <1>18
      <4>3. \A p1 \in Waits(t)' : p1.id # p.id
        BY <4>2, <1>0, <1>11, <1>20
      <4>4. /\ records[p.id] = << >> /\ (p.of # 0 => p.of \in Pos /\ inst[p.of].inblock)
            /\ (\A o \in staging : inst[o].id # p.id) /\ (\A m \in Carriers : m.id # p.id)
            /\ \A v \in Threads \ {u} : \A p1 \in Waits(v) : p1.id # p.id
        BY <4>1 DEF SessInv, Unborn
      <4> QED BY <4>2, <4>3, <4>4, <2>4, <1>0, <1>12 DEF Pos
    <3> QED BY <3>1, <3>2
  <2>6. \A u \in Threads : Pc(u)' = "store" => \A i, i2 \in DOMAIN Line(u)' : Line(u)'[i].id = Line(u)'[i2].id => i = i2
    <3>1. \A i, i2 \in DOMAIN s : s[i].id = s[i2].id => i = i2
      BY <1>0, <1>6, <1>7
    <3> QED BY <3>1, <2>4, <1>11 DEF SessInv, Unborn
  <2> QED BY <2>1, <2>2, <2>5, <2>6, <1>12 DEF Unborn
<1>23. \A p \in ToSet(s) : \E q \in ToSet(Line(t)) : p.data = q.data
  <2>1. \A p \in ToSet(s) : \E i \in DOMAIN s : s[i] = p
    BY <1>7, ElementsOf
  <2>2. \A i \in DOMAIN j.queue : j.queue[i] \in ToSet(Line(t))
    BY <1>2, ElementsOf
  <2> QED BY <2>1, <2>2, <1>7
<1>24. Counted'
  <2>1. \A u \in Threads : \A q \in ToSet(Line(u)') : Made(q.data) /\ Rising(q.data)
    BY <1>11, <1>23, <1>0, SameCounts DEF SameJob
  <2>2. \A o \in Pos' : Made(inst'[o].edits) /\ Rising(inst'[o].edits)
    BY <1>0, InstanceIs DEF Pos
  <2> QED BY <2>1, <2>2, <1>0, <1>12, SameCounts DEF Counted, Rising
<1>25. Alone' /\ InOrder'
  BY <1>0, <1>12, <1>16 DEF SessInv, Alone, InOrder
<1>26. Covered'
  <2>1. ASSUME NEW e, IsQueued(e) PROVE IsQueued(e)'
    <3>1. PICK u \in Threads : \E p \in ToSet(Line(u)) : e \in ToSet(IF p.of = 0 THEN p.data ELSE inst[p.of].edits)
      BY <2>1 DEF IsQueued
    <3>2. PICK p \in ToSet(Line(u)) : e \in ToSet(IF p.of = 0 THEN p.data ELSE inst[p.of].edits)
      BY <3>1
    <3>3. CASE u # t
      BY <3>2, <3>3, <1>0, <1>11 DEF IsQueued, SameJob
    <3>4. CASE u = t
      <4>1. PICK i \in DOMAIN j.queue : j.queue[i] = p
        BY <3>2, <3>4, <1>2, ElementsOf
      <4>2. e \in ToSet(s[i].data) /\ s[i].of = 0
        BY <3>2, <4>1, <1>2, <1>7
      <4>3. s[i] \in ToSet(Line(t)')
        BY <4>1, <1>7, <1>11, ElementsOf
      <4> QED BY <4>2, <4>3 DEF IsQueued
    <3> QED BY <3>3, <3>4
  <2>2. \A e : (IsStaged(e) => IsStaged(e)') /\ (IsSent(e) => IsSent(e)') /\ (IsStored(e) => IsStored(e)')
    BY <1>0, <1>12 DEF IsStaged, IsSent, IsStored
  <2> QED BY <2>1, <2>2, <1>0 DEF SessInv, Covered, Somewhere
<1> QED BY <1>13, <1>14, <1>15, <1>17, <1>21, <1>22, <1>24, <1>25, <1>26 DEF SessInv

\* The first object of an insert is stored under its id, which nothing else names.
LEMMA StoreNextStep == ASSUME SessInv, NEW t \in Threads, Sess!StoreNext(t) PROVE SessInv'
<1> USE SessionNumbers
<1>0. /\ UNCHANGED <<lite, committed, staging, held, ops, mode, lastid, accepted, told, slipped, overlap>>
      /\ job[t].pc = "store" /\ job[t].queue # << >>
  BY DEF Sess!StoreNext, Sess!hist
<1>1. PICK j : j = job[t]
  OBVIOUS
<1>2. /\ IsSave(j) /\ j.pc = "store" /\ Pc(t) = "store" /\ Sent(t) = j.sent /\ Line(t) = j.queue /\ Born(t) = j.born
      /\ j.queue \in Seq(Entries) /\ Given(t) = j.ids /\ Waits(t) = ToSet(j.queue) /\ j.queue # << >>
  <2>1. Pc(t) = "store" /\ Saving(t)
    BY <1>0 DEF Saving, Pc
  <2> QED BY <2>1, <1>0, <1>1, SaveIs DEF Waits
<1>3. PICK q : q = Head(j.queue)
  OBVIOUS
<1>4. PICK s : s = Tail(j.queue)
  OBVIOUS
<1>5. /\ q \in Entries /\ s \in Seq(Entries) /\ 1 \in DOMAIN j.queue /\ q = j.queue[1]
      /\ \A i \in DOMAIN s : i + 1 \in DOMAIN j.queue /\ s[i] = j.queue[i + 1] /\ i \in Nat \ {0}
      /\ ToSet(j.queue) = {q} \cup ToSet(s)
  BY <1>2, <1>3, <1>4, HeadAndTail
<1>6. PICK x : x = IF q.of = 0 THEN q.data ELSE inst[q.of].edits
  OBVIOUS
<1>7. q \in Waits(t) /\ q \in ToSet(Line(t))
  BY <1>2, <1>5
<1>8. /\ q.id \in 1 .. lastid /\ q.id \in 1 .. MaxId /\ records[q.id] = << >>
      /\ (q.of # 0 => q.of \in Pos /\ inst[q.of].inblock)
      /\ (\A o \in staging : inst[o].id # q.id) /\ (\A m \in Carriers : m.id # q.id)
      /\ \A u \in Threads \ {t} : \A p \in Waits(u) : p.id # q.id
  <2>1. lastid <= MaxId /\ lastid \in Nat
    BY DEF SessInv, SessTypes, StoreTypes
  <2>2. q.id \in 1 .. lastid
    BY <1>7 DEF SessInv, Unborn
  <2>3. q.id \in 1 .. MaxId
    BY <2>1, <2>2
  <2> QED BY <2>2, <2>3, <1>7 DEF SessInv, Unborn
<1>9. \A p \in ToSet(s) : p.id # q.id /\ p \in Waits(t)
  <2>1. \A p \in ToSet(s) : \E i \in DOMAIN s : s[i] = p
    BY <1>5, ElementsOf
  <2>2. \A i, i2 \in DOMAIN j.queue : j.queue[i].id = j.queue[i2].id => i = i2
    BY <1>2 DEF SessInv, Unborn
  <2>3. \A i \in DOMAIN s : s[i].id # q.id
    <3>1. ASSUME NEW i \in DOMAIN s, s[i].id = q.id PROVE FALSE
      <4>1. i + 1 \in DOMAIN j.queue /\ s[i] = j.queue[i + 1] /\ i \in Nat \ {0}
        BY <1>5
      <4>2. i + 1 = 1
        BY <4>1, <3>1, <2>2, <1>5
      <4> QED BY <4>1, <4>2
    <3> QED BY <3>1
  <2> QED BY <2>1, <2>3, <1>2, <1>5
<1>10. x \in Seq(Nat) /\ Made(x) /\ Rising(x)
  BY <1>6, <1>7, <1>8, <1>0, InstanceIs, SameCounts
<1>11. records' = [records EXCEPT ![q.id] = x]
  BY <1>1, <1>3, <1>6 DEF Sess!StoreNext
<1>12. records \in [1 .. MaxId -> Seq(Nat)]
  BY DEF SessInv, SessTypes, StoreTypes
<1>13. records' \in [1 .. MaxId -> Seq(Nat)] /\ records'[q.id] = x /\ \A id \in 1 .. MaxId : id # q.id => records'[id] = records[id]
  BY <1>8, <1>10, <1>11, <1>12
<1>14. PICK k : k = [j EXCEPT !.queue = s]
  OBVIOUS
<1>15. job' = [job EXCEPT ![t] = k]
  <2>1. job' = [job EXCEPT ![t].queue = Tail(@)]
    BY DEF Sess!StoreNext
  <2> QED BY <2>1, <1>1, <1>4, <1>14
<1>16. IsSave(k) /\ k.pc = "store" /\ k.sent = j.sent /\ k.queue = s /\ k.born = j.born /\ k.ids = j.ids
  BY <1>2, <1>5, <1>14 DEF IsSave
<1>17. /\ JobTypes' /\ (\A u \in Threads \ {t} : SameJob(u)) /\ Pc(t)' = "store"
       /\ Sent(t)' = Sent(t) /\ Line(t)' = s /\ Born(t)' = Born(t) /\ Given(t)' = Given(t) /\ Waits(t)' = ToSet(s)
  BY <1>2, <1>15, <1>16, OneJob
<1>18. /\ Carriers' = Carriers
       /\ \A u \in Threads : /\ Pc(u)' = Pc(u) /\ Sent(u)' = Sent(u) /\ Born(u)' = Born(u) /\ Given(u)' = Given(u)
                             /\ Waits(u)' \subseteq Waits(u) /\ q \notin Waits(u)' /\ \A p \in Waits(u)' : p.id # q.id
  <2>1. \A u \in Threads : /\ Pc(u)' = Pc(u) /\ Sent(u)' = Sent(u) /\ Born(u)' = Born(u) /\ Given(u)' = Given(u)
                           /\ Waits(u)' \subseteq Waits(u) /\ q \notin Waits(u)' /\ \A p \in Waits(u)' : p.id # q.id
    BY <1>2, <1>8, <1>9, <1>17 DEF SameJob
  <2> QED BY <2>1, <1>0, SameCarriers
<1>19. /\ InstTypes' /\ Pos' = Pos
       /\ \A o \in Pos : /\ inst'[o].id = inst[o].id /\ inst'[o].inblock = inst[o].inblock /\ inst'[o].obsolete = inst[o].obsolete
                         /\ inst'[o].edits = inst[o].edits \/ (o = q.of /\ q.of # 0 /\ inst'[o].edits = << >>)
                         /\ inst'[o] \in Instances
  <2>1. InstTypes
    BY DEF SessInv, SessTypes
  <2>2. CASE q.of = 0
    <3>1. inst' = inst
      BY <2>2, <1>1, <1>3 DEF Sess!StoreNext
    <3> QED BY <3>1, <2>1, <1>0, InstanceIs DEF InstTypes, Pos
  <2>3. CASE q.of # 0
    <3>1. PICK h : h = q.of
      OBVIOUS
    <3>2. h \in Pos /\ inst[h] \in Instances
      BY <3>1, <2>3, <1>8, InstanceIs
    <3>3. PICK r : r = [inst[h] EXCEPT !.edits = << >>]
      OBVIOUS
    <3>4. r \in Instances /\ r.id = inst[h].id /\ r.inblock = inst[h].inblock /\ r.obsolete = inst[h].obsolete /\ r.edits = << >>
      <4>1. << >> \in Seq(Nat)
        OBVIOUS
      <4> QED BY <4>1, <3>2, <3>3 DEF Instances
    <3>5. inst' = [inst EXCEPT ![h] = r]
      BY <2>3, <3>1, <3>3, <1>1, <1>3 DEF Sess!StoreNext
    <3>6. inst' \in Seq(Instances) /\ Pos' = Pos /\ inst'[h] = r /\ \A o \in Pos \ {h} : inst'[o] = inst[o]
      BY <2>1, <3>2, <3>4, <3>5, OneChanges
    <3>7. InstTypes'
      BY <2>1, <3>6, <1>0 DEF InstTypes
    <3>8. \A o \in Pos : inst[o] \in Instances
      BY InstanceIs
    <3> QED BY <3>1, <3>4, <3>6, <3>7, <3>8, <2>3
  <2> QED BY <2>2, <2>3
<1>20. SessTypes'
  <2>1. StoreTypes'
    BY <1>0, <1>13 DEF SessInv, SessTypes, StoreTypes, Messages
  <2> QED BY <2>1, <1>17, <1>19 DEF SessTypes
<1>21. \A o \in staging : o \in Pos /\ ~inst[o].inblock
  BY DEF SessInv, SessTypes, InstTypes, Copies
<1>22. \A o \in staging : o # q.of \/ q.of = 0
  BY <1>21, <1>8
<1>23. \A o \in staging : inst'[o].edits = inst[o].edits /\ inst'[o].id = inst[o].id
  BY <1>19, <1>21, <1>22
<1>24. Copies'
  BY <1>0, <1>19, <1>21 DEF SessInv, Copies
<1>25. Newborns'
  BY <1>0, <1>18, <1>19 DEF SessInv, Newborns
<1>26. Stages'
  <2>1. \A u \in Threads : u # t => Line(u)' = Line(u)
    BY <1>17 DEF SameJob
  <2> QED BY <2>1, <1>0, <1>17, <1>18 DEF SessInv, Stages
<1>27. Numbered'
  BY <1>0, <1>18 DEF SessInv, Numbered
<1>28. Unborn'
  <2>1. \A id \in 1 .. MaxId : id > lastid' => records'[id] = << >>
    <3>1. lastid \in Nat /\ \A id \in 1 .. MaxId : id > lastid => id # q.id
      BY <1>8 DEF SessInv, SessTypes, StoreTypes
    <3> QED BY <3>1, <1>0, <1>13 DEF SessInv, Unborn
  <2>2. ASSUME NEW u \in Threads, NEW p \in Waits(u)'
        PROVE  /\ p.id \in 1 .. lastid' /\ records'[p.id] = << >>
               /\ p.of # 0 => p.of \in Pos' /\ inst'[p.of].inblock
               /\ \A o \in staging' : inst'[o].id # p.id
               /\ \A m \in Carriers' : m.id # p.id
               /\ \A v \in Threads \ {u} : \A p1 \in Waits(v)' : p1.id # p.id
    <3>1. p \in Waits(u) /\ p.id # q.id
      BY <2>2, <1>18
    <3>2. /\ p.id \in 1 .. lastid /\ records[p.id] = << >> /\ (p.of # 0 => p.of \in Pos /\ inst[p.of].inblock)
          /\ (\A o \in staging : inst[o].id # p.id) /\ (\A m \in Carriers : m.id # p.id)
          /\ \A v \in Threads \ {u} : \A p1 \in Waits(v) : p1.id # p.id
      BY <3>1 DEF SessInv, Unborn
    <3>3. p.id \in 1 .. MaxId
      BY <3>2 DEF SessInv, SessTypes, StoreTypes
    <3>4. \A v \in Threads \ {u} : \A p1 \in Waits(v)' : p1.id # p.id
      BY <3>2, <1>18
    <3> QED BY <3>1, <3>2, <3>3, <3>4, <1>0, <1>13, <1>18, <1>19, <1>23
  <2>3. \A u \in Threads : Pc(u)' = "store" => \A i, i2 \in DOMAIN Line(u)' : Line(u)'[i].id = Line(u)'[i2].id => i = i2
    <3>1. ASSUME NEW i \in DOMAIN s, NEW i2 \in DOMAIN s, s[i].id = s[i2].id PROVE i = i2
      <4>1. i + 1 \in DOMAIN j.queue /\ s[i] = j.queue[i + 1] /\ i \in Nat
        BY <1>5
      <4>2. i2 + 1 \in DOMAIN j.queue /\ s[i2] = j.queue[i2 + 1] /\ i2 \in Nat
        BY <1>5
      <4>3. i + 1 = i2 + 1
        BY <4>1, <4>2, <3>1, <1>2 DEF SessInv, Unborn
      <4> QED BY <4>1, <4>2, <4>3
    <3>2. \A u \in Threads \ {t} : Line(u)' = Line(u)
      BY <1>17 DEF SameJob
    <3> QED BY <3>1, <3>2, <1>17, <1>18 DEF SessInv, Unborn
  <2>4. \A m \in Carriers' : m.id <= lastid'
    BY <1>0, <1>18 DEF SessInv, Unborn
  <2> QED BY <2>1, <2>2, <2>3, <2>4 DEF Unborn
<1>29. \A u \in Threads : ToSet(Line(u)') \subseteq ToSet(Line(u)) /\ \A p \in ToSet(Line(u)) : p \in ToSet(Line(u)') \/ (p = q /\ u = t)
  BY <1>2, <1>5, <1>17 DEF SameJob
<1>30. Counted'
  <2>1. \A u \in Threads : \A p \in ToSet(Line(u)') : Made(p.data) /\ Rising(p.data)
    BY <1>0, <1>29, SameCounts
  <2>2. Made(<< >>) /\ Rising(<< >>)
    BY DEF Made, Rising
  <2>3. \A o \in Pos' : Made(inst'[o].edits) /\ Rising(inst'[o].edits)
    BY <2>2, <1>19, InstanceIs
  <2>4. \A id \in 1 .. MaxId : Made(records'[id])
    BY <1>0, <1>10, <1>13, SameCounts
  <2> QED BY <2>1, <2>3, <2>4, <1>0, <1>18, SameCounts DEF Counted, Rising
<1>31. Alone'
  BY <1>0, <1>18 DEF SessInv, Alone
<1>32. InOrder'
  <2>1. ASSUME NEW id \in (1 .. MaxId) \ overlap
        PROVE  /\ Rising(records'[id])
               /\ \A m \in Carriers : m.id = id => Under(records'[id], m.edits)
               /\ \A o \in staging : inst'[o].id = id => /\ Under(records'[id], inst'[o].edits)
                                                         /\ \A m \in Carriers : m.id = id => Under(m.edits, inst'[o].edits)
    <3>1. CASE id = q.id
      BY <3>1, <1>8, <1>10, <1>13, <1>23
    <3>2. CASE id # q.id
      BY <3>2, <1>13, <1>23 DEF SessInv, InOrder
    <3> QED BY <3>1, <3>2
  <2> QED BY <2>1, <1>0, <1>18 DEF InOrder
<1>33. Covered'
  <2>1. \A e : (IsStaged(e) => IsStaged(e)') /\ (IsSent(e) => IsSent(e)')
    BY <1>0, <1>18, <1>23 DEF IsStaged, IsSent
  <2>2. ASSUME NEW e, IsStored(e) PROVE IsStored(e)'
    <3>1. PICK id \in 1 .. MaxId : e \in ToSet(records[id])
      BY <2>2 DEF IsStored
    <3>2. id # q.id
      BY <3>1, <1>8, ElementsOfEmpty
    <3> QED BY <3>1, <3>2, <1>13 DEF IsStored
  <2>3. ASSUME NEW e, IsQueued(e) PROVE IsQueued(e)' \/ IsStored(e)'
    <3>1. PICK u \in Threads : \E p \in ToSet(Line(u)) : e \in ToSet(IF p.of = 0 THEN p.data ELSE inst[p.of].edits)
      BY <2>3 DEF IsQueued
    <3>2. PICK p \in ToSet(Line(u)) : e \in ToSet(IF p.of = 0 THEN p.data ELSE inst[p.of].edits)
      BY <3>1
    <3>3. ASSUME e \in ToSet(x) PROVE IsStored(e)'
      BY <3>3, <1>8, <1>13 DEF IsStored
    <3>4. CASE p = q
      BY <3>2, <3>3, <3>4, <1>6
    <3>5. CASE p # q /\ p.of # 0 /\ p.of = q.of
      BY <3>2, <3>3, <3>5, <1>6
    <3>6. CASE p # q /\ (p.of = 0 \/ p.of # q.of)
      <4>1. p \in ToSet(Line(u)')
        BY <3>2, <3>6, <1>29
      <4>2. p.of # 0 => inst'[p.of].edits = inst[p.of].edits
        BY <3>6, <1>19, LineIs
      <4>3. e \in ToSet(IF p.of = 0 THEN p.data ELSE inst'[p.of].edits)
        BY <3>2, <4>2
      <4> QED BY <4>1, <4>3 DEF IsQueued
    <3> QED BY <3>4, <3>5, <3>6
  <2> QED BY <2>1, <2>2, <2>3, <1>0 DEF SessInv, Covered, Somewhere
<1> QED BY <1>20, <1>24, <1>25, <1>26, <1>27, <1>28, <1>30, <1>31, <1>32, <1>33 DEF SessInv

\* A step that leaves the objects of the session alone.
LEMMA SameObjects == ASSUME SessInv, UNCHANGED <<inst, staging, held, accepted>>, lastid' \in Nat, lastid <= lastid'
                     PROVE  InstTypes' /\ Copies' /\ Pos' = Pos /\ \A o \in Pos : Made(inst[o].edits)' /\ Rising(inst[o].edits)
<1>1. InstTypes' /\ Pos' = Pos
  BY DEF SessInv, SessTypes, InstTypes, Pos
<1>2. \A o \in Pos : inst[o].id \in Nat /\ Made(inst[o].edits)' /\ Rising(inst[o].edits)
  BY InstanceIs, SameCounts
<1>3. lastid \in Nat
  BY DEF SessInv, SessTypes, StoreTypes
<1> QED BY <1>1, <1>2, <1>3 DEF SessInv, Copies

\* When the queue is empty, the insert ends, and the updates of the save are sent.
LEMMA EndInsertStep == ASSUME SessInv, NEW t \in Threads, Sess!EndInsert(t) PROVE SessInv'
<1> USE SessionNumbers
<1>0. /\ UNCHANGED <<lite, committed, inst, staging, held, records, lastid, accepted, told, slipped, overlap>>
      /\ job[t].pc \in {"insert", "store"} /\ job[t].queue = << >>
      /\ mode' = (IF mode = t THEN "off" ELSE mode) /\ lastid \in Nat
  BY DEF Sess!EndInsert, Sess!hist, SessInv, SessTypes, StoreTypes
<1>1. PICK j : j = job[t]
  OBVIOUS
<1>2. /\ IsSave(j) /\ j.pc \in {"insert", "store"} /\ Pc(t) = j.pc /\ Sent(t) = j.sent /\ Line(t) = << >> /\ Born(t) = j.born
      /\ Given(t) = j.ids /\ Waits(t) = {} /\ j.sent \subseteq Messages /\ j.queue = << >>
  <2>1. Saving(t)
    BY <1>0 DEF Saving, Pc
  <2>2. /\ IsSave(j) /\ j.pc \in {"insert", "store"} /\ Pc(t) = j.pc /\ Sent(t) = j.sent /\ Line(t) = << >> /\ Born(t) = j.born
        /\ Given(t) = j.ids /\ j.sent \subseteq Messages /\ j.queue = << >>
    BY <2>1, <1>0, <1>1, SaveIs
  <2> QED BY <2>2, ElementsOfEmpty DEF Waits
<1>3. PICK k : k = [j EXCEPT !.pc = "update", !.sent = {}]
  OBVIOUS
<1>4. job' = [job EXCEPT ![t] = k] /\ ops' = ops \cup Sent(t)
  <2>1. job' = [job EXCEPT ![t].pc = "update", ![t].sent = {}]
    BY DEF Sess!EndInsert
  <2> QED BY <2>1, <1>1, <1>2, <1>3 DEF Sess!EndInsert
<1>5. IsSave(k) /\ k.pc = "update" /\ k.sent = {} /\ k.queue = << >> /\ k.born = j.born /\ k.ids = j.ids
  BY <1>2, <1>3 DEF IsSave
<1>6. /\ JobTypes' /\ (\A u \in Threads \ {t} : SameJob(u)) /\ Pc(t)' = "update"
      /\ Sent(t)' = {} /\ Line(t)' = << >> /\ Born(t)' = Born(t) /\ Given(t)' = Given(t) /\ Waits(t)' = {}
  BY <1>2, <1>4, <1>5, OneJob
<1>7. \A u \in Threads : /\ Line(u)' = Line(u) /\ Born(u)' = Born(u) /\ Given(u)' = Given(u) /\ Waits(u)' = Waits(u)
                         /\ (u # t => Pc(u)' = Pc(u) /\ Sent(u)' = Sent(u))
  BY <1>2, <1>6 DEF SameJob
<1>8. Carriers' = Carriers
  <2>1. Carriers' \subseteq Carriers
    BY <1>4, <1>6, <1>7 DEF Carriers
  <2>2. Carriers \subseteq Carriers'
    <3>1. ASSUME NEW m \in Carriers PROVE m \in Carriers'
      <4>1. CASE m \in ops \cup Sent(t)
        BY <4>1, <1>4 DEF Carriers
      <4>2. ASSUME NEW u \in Threads, u # t, m \in Sent(u) PROVE m \in Carriers'
        BY <4>2, <1>7 DEF Carriers
      <4> QED BY <4>1, <4>2 DEF Carriers
    <3> QED BY <3>1
  <2> QED BY <2>1, <2>2
<1>9. \A m \in Sent(t) : m.op = "upd" /\ m.by = t
  BY DEF SessInv, Stages
<1>10. InstTypes' /\ Copies' /\ Pos' = Pos /\ \A o \in Pos : Made(inst[o].edits)' /\ Rising(inst[o].edits)
  BY <1>0, SameObjects
<1>11. SessTypes'
  <2>1. StoreTypes'
    BY <1>0, <1>2, <1>4, <1>9 DEF SessInv, SessTypes, StoreTypes, Messages
  <2> QED BY <2>1, <1>6, <1>10 DEF SessTypes
<1>12. Newborns' /\ Numbered'
  BY <1>0, <1>7, <1>10 DEF SessInv, Newborns, Numbered
<1>13. Stages'
  <2>1. DOMAIN Given(t) = DOMAIN Born(t)
    BY <1>2, ElementsOfEmpty DEF SessInv, Stages
  <2>2. ASSUME NEW u \in Threads
        PROVE  /\ Pc(u)' = "insert" => /\ DOMAIN Line(u)' = DOMAIN Born(u)' /\ Given(u)' = << >>
                                       /\ \A i \in DOMAIN Line(u)' : Line(u)'[i].of = 0
               /\ \A m \in Sent(u)' : m.op = "upd" /\ m.by = u
               /\ Pc(u)' = "update" => Line(u)' = << >> /\ Sent(u)' = {}
               /\ Pc(u)' \in {"store", "update"} => DOMAIN Given(u)' = DOMAIN Born(u)'
    <3>1. CASE u = t
      BY <3>1, <2>1, <1>6
    <3>2. CASE u # t
      BY <3>2, <1>7 DEF SessInv, Stages
    <3> QED BY <3>1, <3>2
  <2>3. mode' \in {"off", "dead"} \cup Threads /\ (~lite => mode' = "off") /\ (mode' \in Threads => mode' = mode /\ mode # t)
    BY <1>0 DEF SessInv, Stages
  <2>4. ASSUME NEW w \in Threads, w = mode' PROVE Pc(w)' = "store"
    BY <2>3, <2>4, <1>7 DEF SessInv, Stages
  <2>5. mode' \in Threads => Pc(mode)' = "store"
    BY <2>4 DEF Pc
  <2>6. \A m \in ops' : m.op = "upd" /\ m.by \in Threads => Pc(m.by)' = "update"
    <3>1. ASSUME NEW m \in ops, m.op = "upd", m.by \in Threads PROVE Pc(m.by)' = "update"
      <4>1. Pc(m.by) = "update" /\ m.by # t
        BY <3>1, <1>2 DEF SessInv, Stages
      <4> QED BY <4>1, <3>1, <1>6 DEF SameJob
    <3>2. ASSUME NEW m \in Sent(t) PROVE Pc(m.by)' = "update"
      BY <1>9, <1>6
    <3> QED BY <3>1, <3>2, <1>4
  <2> QED BY <2>2, <2>3, <2>5, <2>6, <1>0 DEF Stages
<1>14. Unborn'
  <2>1. \A u \in Threads : Pc(u)' = "store" => Pc(u) = "store"
    BY <1>6, <1>7
  <2> QED BY <2>1, <1>0, <1>7, <1>8, <1>10 DEF SessInv, Unborn
<1>15. Counted'
  BY <1>0, <1>7, <1>8, <1>10, SameCounts DEF Counted, Rising
<1>16. Alone'
  <2>1. /\ \A m, n \in ops : m.id = n.id /\ m.id \notin overlap => m = n
        /\ \A u \in Threads : \A m, n \in Sent(u) : m.id = n.id /\ m.id \notin overlap => m = n
        /\ \A u \in Threads : \A v \in Threads \ {u} : \A m \in Sent(u), n \in Sent(v) : m.id = n.id => m.id \in overlap
        /\ \A u \in Threads : \A m \in Sent(u), n \in ops : m.id = n.id => m.id \in overlap
    BY DEF SessInv, Alone
  <2>2. \A m, n \in ops' : m.id = n.id /\ m.id \notin overlap => m = n
    BY <2>1, <1>4
  <2>3. \A u \in Threads : Sent(u)' = IF u = t THEN {} ELSE Sent(u)
    BY <1>6, <1>7
  <2>4. \A u \in Threads : \A m \in Sent(u)', n \in ops' : m.id = n.id => m.id \in overlap
    BY <2>1, <2>3, <1>4
  <2> QED BY <2>1, <2>2, <2>3, <2>4, <1>0 DEF Alone
<1>17. InOrder'
  BY <1>0, <1>8 DEF SessInv, InOrder
<1>18. Covered'
  <2>1. \A e : /\ (IsStaged(e) => IsStaged(e)') /\ (IsSent(e) => IsSent(e)') /\ (IsStored(e) => IsStored(e)')
               /\ (IsQueued(e) => IsQueued(e)')
    BY <1>0, <1>7, <1>8 DEF IsStaged, IsSent, IsStored, IsQueued
  <2> QED BY <2>1, <1>0 DEF SessInv, Covered, Somewhere
<1> QED BY <1>10, <1>11, <1>12, <1>13, <1>14, <1>15, <1>16, <1>17, <1>18 DEF SessInv

\* A block performs an operation.
LEMMA PerformStep == ASSUME SessInv, NEW m \in ops, Sess!Perform(m) PROVE SessInv'
<1> USE SessionNumbers
<1>0. /\ UNCHANGED <<lite, committed, inst, staging, held, job, mode, lastid, accepted, told, overlap>>
      /\ ops' = ops \ {m} /\ lastid \in Nat /\ slipped \subseteq slipped'
  BY DEF Sess!Perform, SessInv, SessTypes, StoreTypes
<1>1. \A u : SameJob(u)
  BY <1>0, SameJobs
<1>2. Carriers' \subseteq Carriers /\ Carriers \subseteq Carriers' \cup {m}
  BY <1>0, <1>1 DEF Carriers, SameJob
<1>3. m \in Carriers /\ m.id \in 1 .. MaxId /\ m.edits \in Seq(Nat) /\ Made(m.edits) /\ Rising(m.edits)
  BY <1>0, CarriersAre, SameCounts DEF Carriers
<1>4. PICK r : r = records[m.id]
  OBVIOUS
<1>5. r \in Seq(Nat) /\ Made(r)
  BY <1>0, <1>3, <1>4, SameCounts
<1>6. PICK x : x = IF m.op = "del" \/ r = << >> THEN << >> ELSE r \o m.edits
  OBVIOUS
<1>7. records' = [records EXCEPT ![m.id] = x] /\ records \in [1 .. MaxId -> Seq(Nat)]
  BY <1>4, <1>6 DEF Sess!Perform, SessInv, SessTypes, StoreTypes
<1>8. /\ x \in Seq(Nat) /\ Made(x)
      /\ (m.id \notin overlap => Rising(x) /\ Under(r, m.edits))
      /\ \A s \in Seq(Nat) : Under(r, s) /\ Under(m.edits, s) => Under(x, s)
      /\ (\A e : e \in ToSet(r) \/ e \in ToSet(m.edits) => e \in ToSet(x) \/ x = << >>)
  <2>1. m.id \notin overlap => Rising(r) /\ Under(r, m.edits)
    BY <1>3, <1>4 DEF SessInv, InOrder
  <2>2. CASE x = << >>
    BY <2>1, <2>2 DEF Made, Rising, Under
  <2>3. CASE x = r \o m.edits
    <3>1. /\ x \in Seq(Nat) /\ DOMAIN x = 1 .. (Len(r) + Len(m.edits))
          /\ \A i \in DOMAIN r : i \in DOMAIN x /\ x[i] = r[i]
          /\ \A i \in DOMAIN m.edits : Len(r) + i \in DOMAIN x /\ x[Len(r) + i] = m.edits[i]
          /\ \A i \in DOMAIN x : i \in DOMAIN r \/ (i - Len(r) \in DOMAIN m.edits /\ x[i] = m.edits[i - Len(r)])
          /\ ToSet(x) = ToSet(r) \cup ToSet(m.edits)
      <4>1. PICK s \in Seq(Nat) : s = m.edits
        BY <1>3
      <4>2. x = r \o s
        BY <2>3, <4>1
      <4>3. /\ r \o s \in Seq(Nat) /\ DOMAIN (r \o s) = 1 .. (Len(r) + Len(s))
            /\ \A i \in DOMAIN r : i \in DOMAIN (r \o s) /\ (r \o s)[i] = r[i]
            /\ \A i \in DOMAIN s : Len(r) + i \in DOMAIN (r \o s) /\ (r \o s)[Len(r) + i] = s[i]
            /\ \A i \in DOMAIN (r \o s) : i \in DOMAIN r \/ (i - Len(r) \in DOMAIN s /\ (r \o s)[i] = s[i - Len(r)])
            /\ ToSet(r \o s) = ToSet(r) \cup ToSet(s)
        BY <1>5, Joined
      <4> QED BY <4>1, <4>2, <4>3
    <3>2. Made(x)
      BY <3>1, <1>3, <1>5 DEF Made
    <3>3. \A s \in Seq(Nat) : Under(r, s) /\ Under(m.edits, s) => Under(x, s)
      <4>1. ASSUME NEW s \in Seq(Nat), Under(r, s), Under(m.edits, s), NEW i \in DOMAIN x, NEW i2 \in DOMAIN s
            PROVE  x[i] < s[i2]
        BY <4>1, <3>1 DEF Under
      <4> QED BY <4>1 DEF Under
    <3>4. ASSUME Rising(r), Under(r, m.edits) PROVE Rising(x)
      <4>1. ASSUME NEW i \in DOMAIN x, NEW i2 \in DOMAIN x, i < i2 PROVE x[i] < x[i2]
        <5>1. DOMAIN r = 1 .. Len(r) /\ Len(r) \in Nat /\ DOMAIN m.edits = 1 .. Len(m.edits) /\ Len(m.edits) \in Nat /\ i \in Nat /\ i2 \in Nat
          BY <1>3, <1>5, <3>1
        <5>2. CASE i2 \in DOMAIN r
          <6>1. i \in DOMAIN r
            BY <5>1, <5>2, <4>1, <3>1
          <6> QED BY <6>1, <5>2, <4>1, <3>1, <3>4 DEF Rising
        <5>3. CASE i2 \notin DOMAIN r /\ i \in DOMAIN r
          BY <5>3, <3>1, <3>4 DEF Under
        <5>4. CASE i2 \notin DOMAIN r /\ i \notin DOMAIN r
          <6>1. i - Len(r) \in DOMAIN m.edits /\ x[i] = m.edits[i - Len(r)] /\ i2 - Len(r) \in DOMAIN m.edits /\ x[i2] = m.edits[i2 - Len(r)]
            BY <5>4, <3>1
          <6>2. i - Len(r) < i2 - Len(r)
            BY <5>1, <4>1
          <6> QED BY <6>1, <6>2, <1>3 DEF Rising
        <5> QED BY <5>2, <5>3, <5>4
      <4> QED BY <4>1 DEF Rising
    <3> QED BY <2>1, <3>1, <3>2, <3>3, <3>4
  <2> QED BY <2>2, <2>3, <1>6
<1>9. records' \in [1 .. MaxId -> Seq(Nat)] /\ records'[m.id] = x /\ \A id \in 1 .. MaxId : id # m.id => records'[id] = records[id]
  BY <1>3, <1>7, <1>8
<1>10. InstTypes' /\ Copies' /\ Pos' = Pos /\ \A o \in Pos : Made(inst[o].edits)' /\ Rising(inst[o].edits)
  BY <1>0, SameObjects
<1>11. SessTypes'
  <2>1. JobTypes'
    BY <1>0 DEF SessInv, SessTypes, JobTypes, Pc
  <2>2. StoreTypes'
    BY <1>0, <1>9 DEF SessInv, SessTypes, StoreTypes
  <2> QED BY <2>1, <2>2, <1>10 DEF SessTypes
<1>12. Newborns' /\ Numbered' /\ Stages'
  <2>1. Newborns' /\ Numbered'
    BY <1>0, <1>1, <1>10 DEF SessInv, Newborns, Numbered, SameJob
  <2>2. Stages'
    BY <1>0, <1>1 DEF SessInv, Stages, SameJob
  <2> QED BY <2>1, <2>2
<1>13. Unborn'
  <2>1. m.id <= lastid
    BY <1>3 DEF SessInv, Unborn
  <2>2. \A id \in 1 .. MaxId : id > lastid => id # m.id
    BY <2>1, <1>0
  <2>3. \A u \in Threads : \A p \in Waits(u) : p.id # m.id /\ p.id \in 1 .. MaxId
    BY <1>3 DEF SessInv, Unborn, SessTypes, StoreTypes
  <2>4. \A u : Waits(u)' = Waits(u) /\ Line(u)' = Line(u) /\ Pc(u)' = Pc(u)
    BY <1>1 DEF SameJob
  <2>5. \A id \in 1 .. MaxId : id > lastid' => records'[id] = << >>
    BY <2>2, <1>0, <1>9 DEF SessInv, Unborn
  <2>6. ASSUME NEW u \in Threads, NEW q \in Waits(u)
        PROVE  /\ q.id \in 1 .. lastid' /\ records'[q.id] = << >>
               /\ q.of # 0 => q.of \in Pos' /\ inst'[q.of].inblock
               /\ \A o \in staging' : inst'[o].id # q.id
               /\ \A n \in Carriers' : n.id # q.id
               /\ \A v \in Threads \ {u} : \A p \in Waits(v) : p.id # q.id
    BY <2>3, <1>0, <1>2, <1>9, <1>10 DEF SessInv, Unborn, Pos
  <2>7. \A n \in Carriers' : n.id <= lastid'
    BY <1>0, <1>2 DEF SessInv, Unborn
  <2>8. \A u \in Threads : Pc(u)' = "store" => \A i, j \in DOMAIN Line(u)' : Line(u)'[i].id = Line(u)'[j].id => i = j
    BY <2>4 DEF SessInv, Unborn
  <2> QED BY <2>4, <2>5, <2>6, <2>7, <2>8 DEF Unborn
<1>14. Counted'
  <2>1. \A id \in 1 .. MaxId : Made(records[id])'
    BY <1>0, <1>8, <1>9, SameCounts
  <2>2. \A u : Line(u)' = Line(u)
    BY <1>1 DEF SameJob
  <2> QED BY <2>1, <2>2, <1>0, <1>2, <1>10, SameCounts DEF Counted, Rising
<1>15. Alone'
  BY <1>0, <1>1 DEF SessInv, Alone, SameJob
<1>16. InOrder'
  <2>1. ASSUME NEW id \in (1 .. MaxId) \ overlap
        PROVE  /\ Rising(records'[id])
               /\ \A n \in Carriers' : n.id = id => Under(records'[id], n.edits)
               /\ \A o \in staging : inst[o].id = id => /\ Under(records'[id], inst[o].edits)
                                                        /\ \A n \in Carriers' : n.id = id => Under(n.edits, inst[o].edits)
    <3>1. CASE id = m.id
      <4>1. ASSUME NEW n \in Carriers', n.id = id PROVE FALSE
        <5>1. CASE n \in ops'
          BY <5>1, <4>1, <3>1, <1>0 DEF SessInv, Alone
        <5>2. CASE n \notin ops'
          <6>1. PICK u \in Threads : n \in Sent(u)'
            BY <5>2, <4>1 DEF Carriers
          <6>2. n \in Sent(u)
            BY <6>1, <1>1 DEF SameJob
          <6> QED BY <6>2, <4>1, <3>1 DEF SessInv, Alone
        <5> QED BY <5>1, <5>2
      <4>2. ASSUME NEW o \in staging, inst[o].id = id PROVE Under(x, inst[o].edits)
        <5>1. Under(r, inst[o].edits) /\ Under(m.edits, inst[o].edits)
          BY <4>2, <3>1, <1>3, <1>4 DEF SessInv, InOrder
        <5>2. inst[o].edits \in Seq(Nat)
          BY InstanceIs DEF SessInv, SessTypes, InstTypes
        <5> QED BY <5>1, <5>2, <1>8
      <4> QED BY <4>1, <4>2, <3>1, <1>8, <1>9
    <3>2. CASE id # m.id
      BY <3>2, <1>2, <1>9 DEF SessInv, InOrder
    <3> QED BY <3>1, <3>2
  <2> QED BY <2>1, <1>0 DEF InOrder
<1>17. Covered'
  <2>1. \A e : (IsStaged(e) => IsStaged(e)') /\ (IsQueued(e) => IsQueued(e)')
    BY <1>0, <1>1 DEF IsStaged, IsQueued, SameJob
  <2>2. ASSUME NEW e, e \in ToSet(x) PROVE IsStored(e)'
    BY <2>2, <1>3, <1>9 DEF IsStored
  <2>3. ASSUME NEW e \in 1 .. accepted, e \in ToSet(r) \/ e \in ToSet(m.edits) PROVE IsStored(e)' \/ e \in slipped'
    <3>1. e # 0
      BY <1>0 DEF SessInv, SessTypes, StoreTypes
    <3>2. m.op = "del" => m.edits = << >>
      BY DEF SessInv, SessTypes, StoreTypes
    <3>3. CASE m.op = "del"
      <4>1. slipped' = slipped \cup (ToSet(r) \ {0})
        BY <3>3, <1>4 DEF Sess!Perform, ToSet
      <4> QED BY <4>1, <3>1, <3>2, <3>3, <2>3, ElementsOfEmpty
    <3>4. CASE m.op # "del" /\ r = << >>
      <4>1. slipped' = slipped \cup ToSet(m.edits)
        BY <3>4, <1>4 DEF Sess!Perform, ToSet
      <4> QED BY <4>1, <3>4, <2>3, ElementsOfEmpty
    <3>5. CASE m.op # "del" /\ r # << >>
      <4>1. ToSet(x) = ToSet(r) \cup ToSet(m.edits)
        BY <3>5, <1>3, <1>5, <1>6, Joined
      <4> QED BY <4>1, <2>2, <2>3
    <3> QED BY <3>3, <3>4, <3>5
  <2>4. ASSUME NEW e \in 1 .. accepted, IsStored(e) PROVE IsStored(e)' \/ e \in slipped'
    <3>1. PICK id \in 1 .. MaxId : e \in ToSet(records[id])
      BY <2>4 DEF IsStored
    <3>2. CASE id = m.id
      BY <3>1, <3>2, <2>3, <1>4
    <3>3. CASE id # m.id
      BY <3>1, <3>3, <1>9 DEF IsStored
    <3> QED BY <3>2, <3>3
  <2>5. ASSUME NEW e \in 1 .. accepted, IsSent(e) PROVE IsSent(e)' \/ IsStored(e)' \/ e \in slipped'
    <3>1. PICK n \in Carriers : e \in ToSet(n.edits)
      BY <2>5 DEF IsSent
    <3>2. CASE n = m
      BY <3>1, <3>2, <2>3
    <3>3. CASE n # m
      BY <3>1, <3>3, <1>2 DEF IsSent
    <3> QED BY <3>2, <3>3
  <2> QED BY <2>1, <2>4, <2>5, <1>0 DEF SessInv, Covered, Somewhere
<1> QED BY <1>10, <1>11, <1>12, <1>13, <1>14, <1>15, <1>16, <1>17 DEF SessInv

\* A save that fails leaves the rest of its operations on their way, for nobody, and its other edits are lost with notice.
LEMMA GivesUp ==
    ASSUME SessInv, NEW w \in Threads \cup {"nobody"}, NEW O \in SUBSET ops,
           UNCHANGED <<inst, staging, held, lite, records, accepted, slipped, overlap>>,
           ops' = {[m EXCEPT !.by = IF @ = w THEN "nobody" ELSE @] : m \in O},
           job' = IF w \in Threads THEN [job EXCEPT ![w] = Sess!Idle] ELSE job,
           lastid' \in Nat, lastid <= lastid', lastid' <= MaxId,
           mode' = mode \/ (lite /\ mode' = "dead"), mode' # w,
           told \subseteq told',
           \A m \in ops \ O : ToSet(m.edits) \subseteq told',
           \A e : w \in Threads /\ (\/ \E m \in Sent(w) : e \in ToSet(m.edits)
                                    \/ \E q \in ToSet(Line(w)) : e \in ToSet(IF q.of = 0 THEN q.data ELSE inst[q.of].edits)) => e \in told'
    PROVE  SessInv'
<1> USE SessionNumbers
<1>1. PICK k : k = Sess!Idle
  OBVIOUS
<1>2. k.pc = "idle"
  BY <1>1 DEF Sess!Idle
<1>3. /\ JobTypes'
      /\ \A u \in Threads : u # w => SameJob(u)
      /\ w \in Threads => /\ Sent(w)' = {} /\ Line(w)' = << >> /\ Born(w)' = << >> /\ Given(w)' = << >> /\ Waits(w)' = {}
                          /\ Pc(w)' = "idle"
  <2>1. CASE w \in Threads
    BY <2>1, <1>1, <1>2, OneJob
  <2>2. CASE w \notin Threads
    BY <2>2, SameJobs DEF SessInv, SessTypes, JobTypes, Pc
  <2> QED BY <2>1, <2>2
<1>4. ops \subseteq Messages /\ Carriers \subseteq Messages
  BY CarriersAre DEF Carriers
<1>5. \A m \in ops : LET n == [m EXCEPT !.by = IF @ = w THEN "nobody" ELSE @]
                     IN /\ n \in Messages /\ n.id = m.id /\ n.op = m.op /\ n.edits = m.edits
                        /\ n.by # w \/ n.by \notin Threads
                        /\ n.by \in Threads => n.by = m.by
  BY <1>4 DEF Messages
<1>6. /\ ops' \subseteq Messages
      /\ \A n \in ops' : \E m \in ops : /\ n.id = m.id /\ n.op = m.op /\ n.edits = m.edits
                                        /\ n.by \in Threads => n.by = m.by /\ n.by # w
      /\ \A m \in O : \E n \in ops' : n.edits = m.edits
  <2>1. ASSUME NEW n \in ops'
        PROVE  /\ n \in Messages
               /\ \E m \in ops : /\ n.id = m.id /\ n.op = m.op /\ n.edits = m.edits
                                 /\ n.by \in Threads => n.by = m.by /\ n.by # w
    <3>1. PICK m \in O : n = [m EXCEPT !.by = IF @ = w THEN "nobody" ELSE @]
      BY <2>1
    <3> QED BY <3>1, <1>5
  <2>2. ASSUME NEW m \in O PROVE \E n \in ops' : n.edits = m.edits
    BY <2>2, <1>5
  <2> QED BY <2>1, <2>2
<1>7. \A m, n \in ops' : m.id = n.id /\ m.id \notin overlap => m = n
  <2>1. ASSUME NEW m \in ops', NEW n \in ops', m.id = n.id, m.id \notin overlap PROVE m = n
    <3>1. PICK m1 \in O : m = [m1 EXCEPT !.by = IF @ = w THEN "nobody" ELSE @]
      BY <2>1
    <3>2. PICK n1 \in O : n = [n1 EXCEPT !.by = IF @ = w THEN "nobody" ELSE @]
      BY <2>1
    <3>3. m1.id = m.id /\ n1.id = n.id
      BY <3>1, <3>2, <1>5
    <3>4. m1 = n1
      BY <2>1, <3>3 DEF SessInv, Alone
    <3> QED BY <3>1, <3>2, <3>4
  <2> QED BY <2>1
<1>8. \A u \in Threads : /\ Sent(u)' = (IF u = w THEN {} ELSE Sent(u)) /\ Waits(u)' \subseteq Waits(u)
                         /\ ToSet(Line(u)') \subseteq ToSet(Line(u))
                         /\ Pc(u)' # Pc(u) => u = w /\ Pc(u)' = "idle"
  BY <1>3, ElementsOfEmpty DEF SameJob
<1>9. \A n \in Carriers' : \E m \in Carriers : n.id = m.id /\ n.edits = m.edits
  <2>1. ASSUME NEW n \in ops' PROVE \E m \in Carriers : n.id = m.id /\ n.edits = m.edits
    BY <1>6 DEF Carriers
  <2>2. ASSUME NEW u \in Threads, NEW n \in Sent(u)' PROVE n \in Carriers
    BY <2>2, <1>8 DEF Carriers
  <2> QED BY <2>1, <2>2 DEF Carriers
<1>10. InstTypes' /\ Copies' /\ Pos' = Pos /\ \A o \in Pos : Made(inst[o].edits)' /\ Rising(inst[o].edits)
  BY SameObjects
<1>11. SessTypes'
  <2>1. \A n \in ops' : n.op = "del" => n.edits = << >>
    <3>1. \A m \in ops : m.op = "del" => m.edits = << >>
      BY DEF SessInv, SessTypes, StoreTypes
    <3> QED BY <3>1, <1>6
  <2>2. StoreTypes'
    BY <2>1, <1>6 DEF SessInv, SessTypes, StoreTypes, Messages
  <2> QED BY <2>2, <1>3, <1>10 DEF SessTypes
<1>12. Newborns'
  <2>1. \A u \in Threads : Born(u)' = Born(u) \/ Born(u)' = << >>
    BY <1>3 DEF SameJob
  <2>2. DOMAIN << >> = {}
    OBVIOUS
  <2> QED BY <2>1, <2>2, <1>10 DEF SessInv, Newborns
<1>13. Numbered'
  <2>1. \A u \in Threads : Given(u)' = Given(u) \/ Given(u)' = << >>
    BY <1>3 DEF SameJob
  <2>2. DOMAIN << >> = {}
    OBVIOUS
  <2>3. \A u \in Threads : \A i \in DOMAIN Given(u) : Given(u)[i] \in 1 .. lastid'
    <3>1. lastid \in Nat
      BY DEF SessInv, SessTypes, StoreTypes
    <3> QED BY <3>1 DEF SessInv, Numbered
  <2> QED BY <2>1, <2>2, <2>3, <1>8 DEF SessInv, Numbered
<1>14. Stages'
  <2>1. ASSUME NEW u \in Threads
        PROVE  /\ Pc(u)' = "insert" => /\ DOMAIN Line(u)' = DOMAIN Born(u)' /\ Given(u)' = << >>
                                       /\ \A i \in DOMAIN Line(u)' : Line(u)'[i].of = 0
               /\ \A m \in Sent(u)' : m.op = "upd" /\ m.by = u
               /\ Pc(u)' = "update" => Line(u)' = << >> /\ Sent(u)' = {}
               /\ Pc(u)' \in {"store", "update"} => DOMAIN Given(u)' = DOMAIN Born(u)'
    <3>1. CASE u = w
      BY <3>1, <1>3
    <3>2. CASE u # w
      BY <3>2, <1>3 DEF SameJob, SessInv, Stages
    <3> QED BY <3>1, <3>2
  <2>2. mode' \in {"off", "dead"} \cup Threads /\ (~lite => mode' = "off") /\ (mode' \in Threads => mode' = mode)
    BY DEF SessInv, Stages
  <2>3. ASSUME NEW v \in Threads, v = mode' PROVE Pc(v)' = "store"
    BY <2>2, <2>3, <1>3 DEF SessInv, Stages, SameJob
  <2>4. mode' \in Threads => Pc(mode)' = "store"
    BY <2>3 DEF Pc
  <2>5. ASSUME NEW n \in ops', n.op = "upd", n.by \in Threads PROVE Pc(n.by)' = "update"
    <3>1. PICK m \in ops : n.op = m.op /\ n.by = m.by /\ n.by # w
      BY <2>5, <1>6
    <3>2. Pc(n.by) = "update"
      BY <2>5, <3>1 DEF SessInv, Stages
    <3> QED BY <2>5, <3>1, <3>2, <1>3 DEF SameJob
  <2> QED BY <2>1, <2>2, <2>4, <2>5 DEF Stages
<1>15. Unborn'
  <2>1. lastid \in Nat
    BY DEF SessInv, SessTypes, StoreTypes
  <2>2. \A id \in 1 .. MaxId : id > lastid' => records'[id] = << >>
    BY <2>1 DEF SessInv, Unborn
  <2>3. \A m \in Carriers : m.id \in Nat /\ m.id <= lastid
    BY CarriersAre DEF SessInv, Unborn
  <2>4. \A n \in Carriers' : n.id <= lastid'
    BY <2>1, <2>3, <1>9
  <2>5. ASSUME NEW u \in Threads, NEW p \in Waits(u)'
        PROVE  /\ p.id \in 1 .. lastid' /\ records'[p.id] = << >>
               /\ p.of # 0 => p.of \in Pos' /\ inst'[p.of].inblock
               /\ \A o \in staging' : inst'[o].id # p.id
               /\ \A m \in Carriers' : m.id # p.id
               /\ \A v \in Threads \ {u} : \A p1 \in Waits(v)' : p1.id # p.id
    <3>1. p \in Waits(u)
      BY <2>5, <1>8
    <3>2. /\ p.id \in 1 .. lastid /\ records[p.id] = << >> /\ (p.of # 0 => p.of \in Pos /\ inst[p.of].inblock)
          /\ (\A o \in staging : inst[o].id # p.id) /\ (\A m \in Carriers : m.id # p.id)
          /\ \A v \in Threads \ {u} : \A p1 \in Waits(v) : p1.id # p.id
      BY <3>1 DEF SessInv, Unborn
    <3>3. p.id \in 1 .. lastid'
      BY <2>1, <3>2
    <3>4. \A m \in Carriers' : m.id # p.id
      BY <3>2, <1>9
    <3> QED BY <3>2, <3>3, <3>4, <1>8, <1>10
  <2>6. \A u \in Threads : Pc(u)' = "store" => Pc(u) = "store" /\ Line(u)' = Line(u)
    BY <1>3 DEF SameJob
  <2> QED BY <2>2, <2>4, <2>5, <2>6 DEF SessInv, Unborn
<1>16. Counted'
  <2>1. \A n \in Carriers' : Made(n.edits) /\ Rising(n.edits)
    BY <1>9, SameCounts
  <2>2. \A u \in Threads : \A q \in ToSet(Line(u)') : Made(q.data) /\ Rising(q.data)
    BY <1>8, SameCounts
  <2> QED BY <2>1, <2>2, <1>10, SameCounts DEF Counted, Rising
<1>17. Alone'
  <2>1. \A u \in Threads : \A m \in Sent(u)', n \in ops' : m.id = n.id => m.id \in overlap
    BY <1>6, <1>8 DEF SessInv, Alone
  <2> QED BY <2>1, <1>7, <1>8 DEF SessInv, Alone
<1>18. InOrder'
  BY <1>9 DEF SessInv, InOrder
<1>19. Covered'
  <2>1. \A e : (IsStaged(e) => IsStaged(e)') /\ (IsStored(e) => IsStored(e)')
    BY DEF IsStaged, IsStored
  <2>2. ASSUME NEW e, IsSent(e) PROVE IsSent(e)' \/ e \in told'
    <3>1. PICK m \in Carriers : e \in ToSet(m.edits)
      BY <2>2 DEF IsSent
    <3>2. CASE m \in O
      <4>1. PICK n \in ops' : n.edits = m.edits
        BY <3>2, <1>6
      <4> QED BY <3>1, <4>1 DEF IsSent, Carriers
    <3>3. CASE m \in ops \ O
      BY <3>1, <3>3
    <3>4. ASSUME NEW u \in Threads, m \in Sent(u) PROVE IsSent(e)' \/ e \in told'
      <4>1. CASE u = w
        BY <3>1, <3>4, <4>1
      <4>2. CASE u # w
        BY <3>1, <3>4, <4>2, <1>8 DEF IsSent, Carriers
      <4> QED BY <4>1, <4>2
    <3> QED BY <3>2, <3>3, <3>4 DEF Carriers
  <2>3. ASSUME NEW e, IsQueued(e) PROVE IsQueued(e)' \/ e \in told'
    <3>1. PICK u \in Threads : \E p \in ToSet(Line(u)) : e \in ToSet(IF p.of = 0 THEN p.data ELSE inst[p.of].edits)
      BY <2>3 DEF IsQueued
    <3>2. CASE u = w
      BY <3>1, <3>2
    <3>3. CASE u # w
      BY <3>1, <3>3, <1>3 DEF IsQueued, SameJob
    <3> QED BY <3>2, <3>3
  <2> QED BY <2>1, <2>2, <2>3 DEF SessInv, Covered, Somewhere
<1> QED BY <1>10, <1>11, <1>12, <1>13, <1>14, <1>15, <1>16, <1>17, <1>18, <1>19 DEF SessInv

\* An insert that is refused, or whose next object does not validate.
LEMMA LostIs == ASSUME SessInv, NEW t \in Threads, Saving(t), NEW e,
                       \/ \E m \in Sent(t) : e \in ToSet(m.edits)
                       \/ \E q \in ToSet(Line(t)) : e \in ToSet(IF q.of = 0 THEN q.data ELSE inst[q.of].edits)
                PROVE  e \in Sess!QueuedEdits(t) \cup Sess!SentEdits(t)
<1>1. Sent(t) = job[t].sent /\ Line(t) = job[t].queue
  BY SaveIs
<1>2. ASSUME NEW m \in Sent(t), e \in ToSet(m.edits) PROVE e \in Sess!SentEdits(t)
  BY <1>1, <1>2 DEF Sess!SentEdits, ToSet
<1>3. ASSUME NEW q \in ToSet(Line(t)), e \in ToSet(IF q.of = 0 THEN q.data ELSE inst[q.of].edits) PROVE e \in Sess!QueuedEdits(t)
  <2>1. CASE q.of = 0
    <3>1. e \in (IF q.of = 0 THEN Sess!ToSet(q.data) ELSE Sess!ToSet(inst[q.of].edits))
      BY <1>3, <2>1 DEF ToSet
    <3> QED BY <3>1, <1>1 DEF Sess!QueuedEdits, ToSet
  <2>2. CASE q.of # 0
    <3>1. e \in (IF q.of = 0 THEN Sess!ToSet(q.data) ELSE Sess!ToSet(inst[q.of].edits))
      BY <1>3, <2>2 DEF ToSet
    <3> QED BY <3>1, <1>1 DEF Sess!QueuedEdits, ToSet
  <2> QED BY <2>1, <2>2
<1> QED BY <1>2, <1>3
\* A save that fails gives up all that was on its way, with notice.
LEMMA AbortStep ==
    ASSUME SessInv, NEW t \in Threads, Pc(t) \in {"insert", "store"},
           UNCHANGED <<inst, staging, held, lite, records, accepted, slipped, overlap>>,
           Sess!Abort(t, Sess!QueuedEdits(t) \cup Sess!SentEdits(t)),
           lastid' \in Nat, lastid <= lastid', lastid' <= MaxId,
           mode' = mode \/ (lite /\ mode' = "dead"), mode' # t
    PROVE  SessInv'
<1> USE SessionNumbers
<1>1. Saving(t)
  BY DEF Saving
<1>2. /\ ops' = {[m EXCEPT !.by = IF @ = t THEN "nobody" ELSE @] : m \in ops}
      /\ job' = [job EXCEPT ![t] = Sess!Idle]
      /\ told \subseteq told' /\ Sess!QueuedEdits(t) \cup Sess!SentEdits(t) \subseteq told'
  BY DEF Sess!Abort
<1>3. \A e : (\/ \E m \in Sent(t) : e \in ToSet(m.edits)
              \/ \E q \in ToSet(Line(t)) : e \in ToSet(IF q.of = 0 THEN q.data ELSE inst[q.of].edits)) => e \in told'
  BY <1>1, <1>2, LostIs
<1> QED BY <1>2, <1>3, GivesUp
\* So does an insert into a block that is in insert mode already.
LEMMA RefusedStep == ASSUME SessInv, NEW t \in Threads, Sess!BeginInsert(t), lite /\ mode # "off" PROVE SessInv'
<1> USE SessionNumbers
<1>1. /\ UNCHANGED <<inst, staging, held, lite, records, accepted, slipped, overlap, mode>>
      /\ Sess!Abort(t, Sess!QueuedEdits(t) \cup Sess!SentEdits(t))
      /\ Pc(t) = "insert" /\ lastid' = lastid + Len(job[t].queue) /\ lastid' <= MaxId
  BY DEF Sess!BeginInsert, Pc
<1>2. lastid \in Nat /\ job[t].queue \in Seq(Entries)
  BY <1>1, SaveIs DEF Saving, SessInv, SessTypes, StoreTypes
<1>3. lastid' \in Nat /\ lastid <= lastid'
  <2>1. Len(job[t].queue) \in Nat
    BY <1>2
  <2> QED BY <2>1, <1>1, <1>2
<1>4. mode # t
  BY <1>1 DEF SessInv, Stages
<1> QED BY <1>1, <1>3, <1>4, AbortStep
\* So does an object that does not validate.
LEMMA InvalidStep == ASSUME SessInv, NEW t \in Threads, Sess!Invalid(t) PROVE SessInv'
<1> USE SessionNumbers
<1>1. /\ UNCHANGED <<inst, staging, held, lite, records, accepted, slipped, overlap, lastid>>
      /\ Sess!Abort(t, Sess!QueuedEdits(t) \cup Sess!SentEdits(t))
      /\ Pc(t) = "store" /\ mode' = IF lite THEN "dead" ELSE mode
  BY DEF Sess!Invalid, Pc
<1>2. lastid \in Nat /\ lastid <= lastid /\ lastid <= MaxId
  BY DEF SessInv, SessTypes, StoreTypes
<1>3. (mode' = mode \/ (lite /\ mode' = "dead")) /\ mode' # t
  BY <1>1 DEF SessInv, Stages
<1> QED BY <1>1, <1>2, <1>3, AbortStep

\* An update that is refused ends the save that waits for it.
LEMMA RejectStep == ASSUME SessInv, NEW m \in ops, Sess!Reject(m) PROVE SessInv'
<1> USE SessionNumbers
<1>1. PICK w : w = m.by
  OBVIOUS
<1>2. PICK O : O = ops \ {m}
  OBVIOUS
<1>3. /\ UNCHANGED <<inst, staging, held, lite, records, accepted, slipped, overlap, lastid, mode>>
      /\ m.op = "upd" /\ told' = told \cup ToSet(m.edits)
  BY DEF Sess!Reject, ToSet
<1>4. ops \subseteq Messages /\ w \in Threads \cup {"nobody"}
  BY <1>1 DEF SessInv, SessTypes, StoreTypes, Messages
<1>5. ops' = {[n EXCEPT !.by = IF @ = w THEN "nobody" ELSE @] : n \in O}
  <2>1. CASE w = "nobody"
    <3>1. ops' = O
      BY <2>1, <1>1, <1>2 DEF Sess!Reject
    <3>2. \A n \in Messages : [n EXCEPT !.by = IF @ = "nobody" THEN "nobody" ELSE @] = n
      BY DEF Messages
    <3> QED BY <2>1, <3>1, <3>2, <1>2, <1>4
  <2>2. CASE w # "nobody"
    BY <2>2, <1>1, <1>2 DEF Sess!Reject
  <2> QED BY <2>1, <2>2
<1>6. job' = IF w \in Threads THEN [job EXCEPT ![w] = Sess!Idle] ELSE job
  BY <1>1, <1>4 DEF Sess!Reject
<1>7. w \in Threads => Pc(w) = "update" /\ Sent(w) = {} /\ Line(w) = << >>
  BY <1>1, <1>3 DEF SessInv, Stages
<1>8. mode # w
  BY <1>4, <1>7 DEF SessInv, Stages
<1>9. lastid \in Nat /\ lastid <= lastid /\ lastid <= MaxId
  BY DEF SessInv, SessTypes, StoreTypes
<1>10. \A n \in ops \ O : ToSet(n.edits) \subseteq told'
  BY <1>2, <1>3
<1>11. \A e : w \in Threads /\ (\/ \E n \in Sent(w) : e \in ToSet(n.edits)
                                \/ \E q \in ToSet(Line(w)) : e \in ToSet(IF q.of = 0 THEN q.data ELSE inst[q.of].edits)) => e \in told'
  BY <1>7, ElementsOfEmpty
<1>12. O \in SUBSET ops /\ mode' # w /\ told \subseteq told'
  BY <1>2, <1>3, <1>8
<1> QED BY <1>3, <1>4, <1>5, <1>6, <1>9, <1>10, <1>11, <1>12, GivesUp

\* A flow has the job it was given.
LEMMA NewJob == ASSUME SessInv, NEW t \in Threads, NEW k, job' = [job EXCEPT ![t] = k]
                PROVE  job'[t] = k /\ Pc(t)' = k.pc
  BY DEF SessInv, SessTypes, JobTypes, Pc

\* A save that is done leaves its newborns as copies of their objects: staged, or obsolete.
LEMMA Ends ==
    ASSUME SessInv, NEW t \in Threads, Pc(t)' \in {"idle", "again"}, job' = [job EXCEPT ![t] = job'[t]],
           UNCHANGED <<lite, ops, mode, records, lastid, accepted, told, slipped, overlap>>,
           Line(t) = << >>, Sent(t) = {}, mode # t, \A m \in ops : m.op = "upd" => m.by # t, DOMAIN Given(t) = DOMAIN Born(t),
           InstTypes', Pos' = Pos, staging \subseteq staging', \A o \in staging' \ staging : \E i \in DOMAIN Born(t) : Born(t)[i] = o,
           \A o \in Pos : (\A i \in DOMAIN Born(t) : Born(t)[i] # o) => inst'[o] = inst[o],
           \A i \in DOMAIN Born(t) :
              /\ inst'[Born(t)[i]].id = Given(t)[i] /\ inst'[Born(t)[i]].edits = << >> /\ ~inst'[Born(t)[i]].inblock
              /\ Born(t)[i] \notin staging' => inst'[Born(t)[i]].obsolete
              /\ Born(t)[i] \in staging' => \A p \in staging : inst[p].id # Given(t)[i]
    PROVE  SessInv'
<1> USE SessionNumbers
<1>1. lastid \in Nat /\ lastid <= MaxId /\ staging \subseteq Pos
  BY DEF SessInv, SessTypes, StoreTypes, InstTypes
<1>2. /\ JobTypes' /\ (\A u \in Threads \ {t} : SameJob(u))
      /\ Sent(t)' = {} /\ Line(t)' = << >> /\ Born(t)' = << >> /\ Given(t)' = << >> /\ Waits(t)' = {}
  <2>1. PICK k : k = job'[t]
    OBVIOUS
  <2>2. k.pc \in {"idle", "again"} /\ job' = [job EXCEPT ![t] = k]
    BY <2>1 DEF Pc
  <2> QED BY <2>2, OneJob
<1>3. \A u \in Threads : /\ Sent(u)' = Sent(u) /\ Line(u)' = Line(u) /\ Waits(u)' \subseteq Waits(u)
                         /\ u # t => Pc(u)' = Pc(u) /\ Born(u)' = Born(u) /\ Given(u)' = Given(u) /\ Waits(u)' = Waits(u)
  BY <1>2 DEF SameJob
<1>4. Carriers' = Carriers
  BY <1>3, SameCarriers
<1>5. /\ \A i \in DOMAIN Born(t) : Born(t)[i] \in Pos \ staging /\ inst[Born(t)[i]].id = 0 /\ ~inst[Born(t)[i]].inblock
      /\ \A i, i2 \in DOMAIN Born(t) : Born(t)[i] = Born(t)[i2] => i = i2
      /\ \A u \in Threads \ {t} : \A i \in DOMAIN Born(u), i2 \in DOMAIN Born(t) : Born(u)[i] # Born(t)[i2]
  BY DEF SessInv, Newborns
<1>6. /\ \A i \in DOMAIN Born(t) : Given(t)[i] \in 1 .. lastid
      /\ \A i, i2 \in DOMAIN Born(t) : Given(t)[i] = Given(t)[i2] => i = i2
      /\ \A u \in Threads \ {t} : \A i \in DOMAIN Born(t) : \A q \in Waits(u) : q.id # Given(t)[i]
  BY DEF SessInv, Numbered
<1>7. \A o \in staging : inst'[o] = inst[o]
  BY <1>1, <1>5
<1>8. \A o \in staging' \ staging : \E i \in DOMAIN Born(t) : /\ Born(t)[i] = o /\ inst'[o].id = Given(t)[i] /\ inst'[o].edits = << >>
                                                             /\ ~inst'[o].inblock
                                                             /\ \A p \in staging : inst[p].id # inst'[o].id
  OBVIOUS
<1>9. \A o \in Pos : \/ inst'[o] = inst[o] /\ (o \in staging' => o \in staging)
                     \/ \E i \in DOMAIN Born(t) : Born(t)[i] = o
  OBVIOUS
<1>10. \A o \in Pos : inst[o].inblock => inst'[o] = inst[o]
  BY <1>5, <1>9
<1>11. SessTypes'
  <2>1. StoreTypes'
    BY DEF SessInv, SessTypes, StoreTypes, Messages
  <2> QED BY <2>1, <1>2 DEF SessTypes
<1>12. Copies'
  <2>1. Copies
    BY DEF SessInv
  <2>2. \A o \in staging' : ~inst'[o].inblock
    BY <2>1, <1>7, <1>8 DEF Copies
  <2>3. \A o \in Pos' \ staging' : inst'[o].id # 0 /\ ~inst'[o].inblock => inst'[o].obsolete
    BY <2>1, <1>9 DEF Copies
  <2>4. ASSUME NEW o \in staging', NEW p \in staging', inst'[o].id # 0, inst'[o].id = inst'[p].id PROVE o = p
    <3>1. CASE o \in staging /\ p \in staging
      BY <2>1, <2>4, <3>1, <1>7 DEF Copies
    <3>2. CASE o \in staging /\ p \notin staging
      BY <2>4, <3>2, <1>7, <1>8
    <3>3. CASE o \notin staging /\ p \in staging
      BY <2>4, <3>3, <1>7, <1>8
    <3>4. CASE o \notin staging /\ p \notin staging
      BY <2>4, <3>4, <1>6, <1>8
    <3> QED BY <3>1, <3>2, <3>3, <3>4
  <2>5. \A o \in Pos' : inst'[o].id <= lastid' /\ (inst'[o].inblock => inst'[o].id # 0)
    <3>1. \A i \in DOMAIN Born(t) : Given(t)[i] <= lastid /\ Given(t)[i] # 0
      BY <1>1, <1>6
    <3> QED BY <2>1, <3>1, <1>9 DEF Copies
  <2> QED BY <2>2, <2>3, <2>4, <2>5 DEF Copies
<1>13. Newborns'
  <2>1. DOMAIN << >> = {}
    OBVIOUS
  <2>2. ASSUME NEW u \in Threads, u # t, NEW i \in DOMAIN Born(u)
        PROVE  Born(u)[i] \in Pos' \ staging' /\ inst'[Born(u)[i]].id = 0 /\ ~inst'[Born(u)[i]].inblock
    <3>1. Born(u)[i] \in Pos \ staging /\ inst[Born(u)[i]].id = 0 /\ ~inst[Born(u)[i]].inblock
      BY <2>2 DEF SessInv, Newborns
    <3>2. \A i2 \in DOMAIN Born(t) : Born(t)[i2] # Born(u)[i]
      BY <2>2, <1>5
    <3> QED BY <3>1, <3>2, <1>9
  <2>3. \A u \in Threads : Born(u)' = IF u = t THEN << >> ELSE Born(u)
    BY <1>2, <1>3
  <2> QED BY <2>1, <2>2, <2>3 DEF SessInv, Newborns
<1>14. Numbered'
  <2>1. DOMAIN << >> = {}
    OBVIOUS
  <2>2. \A u \in Threads : Given(u)' = IF u = t THEN << >> ELSE Given(u)
    BY <1>2, <1>3
  <2> QED BY <2>1, <2>2, <1>3 DEF SessInv, Numbered
<1>15. Stages'
  <2>1. ASSUME NEW u \in Threads
        PROVE  /\ Pc(u)' = "insert" => /\ DOMAIN Line(u)' = DOMAIN Born(u)' /\ Given(u)' = << >>
                                       /\ \A i \in DOMAIN Line(u)' : Line(u)'[i].of = 0
               /\ \A m \in Sent(u)' : m.op = "upd" /\ m.by = u
               /\ Pc(u)' = "update" => Line(u)' = << >> /\ Sent(u)' = {}
               /\ Pc(u)' \in {"store", "update"} => DOMAIN Given(u)' = DOMAIN Born(u)'
    <3>1. CASE u = t
      BY <3>1, <1>2
    <3>2. CASE u # t
      BY <3>2, <1>3 DEF SessInv, Stages
    <3> QED BY <3>1, <3>2
  <2>2. ASSUME NEW v \in Threads, v = mode PROVE Pc(v)' = "store"
    BY <2>2, <1>3 DEF SessInv, Stages
  <2>3. mode \in Threads => Pc(mode)' = "store"
    BY <2>2 DEF Pc
  <2>4. \A n \in ops : n.op = "upd" /\ n.by \in Threads => Pc(n.by)' = "update"
    BY <1>3 DEF SessInv, Stages
  <2> QED BY <2>1, <2>3, <2>4 DEF SessInv, Stages
<1>16. Unborn'
  <2>1. ASSUME NEW u \in Threads, NEW p \in Waits(u)'
        PROVE  /\ p.id \in 1 .. lastid' /\ records'[p.id] = << >>
               /\ p.of # 0 => p.of \in Pos' /\ inst'[p.of].inblock
               /\ \A o \in staging' : inst'[o].id # p.id
               /\ \A m \in Carriers' : m.id # p.id
               /\ \A v \in Threads \ {u} : \A p1 \in Waits(v)' : p1.id # p.id
    <3>1. p \in Waits(u) /\ u # t
      BY <2>1, <1>2, <1>3
    <3>2. /\ p.id \in 1 .. lastid /\ records[p.id] = << >> /\ (p.of # 0 => p.of \in Pos /\ inst[p.of].inblock)
          /\ (\A o \in staging : inst[o].id # p.id) /\ (\A m \in Carriers : m.id # p.id)
          /\ \A v \in Threads \ {u} : \A p1 \in Waits(v) : p1.id # p.id
      BY <3>1 DEF SessInv, Unborn
    <3>3. \A o \in staging' : inst'[o].id # p.id
      BY <3>1, <3>2, <1>6, <1>7, <1>8
    <3>4. \A v \in Threads \ {u} : \A p1 \in Waits(v)' : p1.id # p.id
      BY <3>2, <1>3
    <3>5. p.of # 0 => p.of \in Pos' /\ inst'[p.of].inblock
      BY <3>2, <1>10
    <3> QED BY <3>2, <3>3, <3>4, <3>5, <1>4
  <2>2. \A u \in Threads : Pc(u)' = "store" => Pc(u) = "store" /\ Line(u)' = Line(u)
    BY <1>2, <1>3
  <2> QED BY <2>1, <2>2, <1>4 DEF SessInv, Unborn
<1>17. Counted'
  <2>1. Made(<< >>) /\ Rising(<< >>)
    BY DEF Made, Rising
  <2>2. \A o \in Pos' : Made(inst'[o].edits) /\ Rising(inst'[o].edits)
    BY <2>1, <1>9, InstanceIs
  <2> QED BY <2>2, <1>3, <1>4, SameCounts DEF Counted, Rising
<1>18. Alone'
  BY <1>3 DEF SessInv, Alone
<1>19. InOrder'
  <2>1. \A s : Under(s, << >>)
    BY DEF Under
  <2>2. \A o \in staging' : (o \in staging /\ inst'[o] = inst[o]) \/ inst'[o].edits = << >>
    BY <1>7, <1>8
  <2> QED BY <2>1, <2>2, <1>4 DEF SessInv, InOrder
<1>20. Covered'
  <2>1. \A e : (IsStaged(e) => IsStaged(e)') /\ (IsStored(e) => IsStored(e)') /\ (IsSent(e) => IsSent(e)')
    BY <1>4, <1>7 DEF IsStaged, IsStored, IsSent
  <2>2. ASSUME NEW e, IsQueued(e) PROVE IsQueued(e)'
    <3>1. PICK u \in Threads : \E p \in ToSet(Line(u)) : e \in ToSet(IF p.of = 0 THEN p.data ELSE inst[p.of].edits)
      BY <2>2 DEF IsQueued
    <3>2. PICK p \in ToSet(Line(u)) : e \in ToSet(IF p.of = 0 THEN p.data ELSE inst[p.of].edits)
      BY <3>1
    <3>3. p.of # 0 => inst'[p.of] = inst[p.of]
      BY <3>2, <1>10, LineIs
    <3>4. e \in ToSet(IF p.of = 0 THEN p.data ELSE inst'[p.of].edits)
      BY <3>2, <3>3
    <3> QED BY <3>2, <3>4, <1>3 DEF IsQueued
  <2> QED BY <2>1, <2>2 DEF SessInv, Covered, Somewhere
<1> QED BY <1>11, <1>12, <1>13, <1>14, <1>15, <1>16, <1>17, <1>18, <1>19, <1>20 DEF SessInv

\* A save that returns.
LEMMA ReturnStep == ASSUME SessInv, NEW t \in Threads, Sess!Return(t) PROVE SessInv'
<1> USE SessionNumbers
<1>0. /\ UNCHANGED <<lite, committed, held, ops, mode, records, lastid, accepted, told, slipped, overlap>>
      /\ Pc(t) = "update" /\ \A m \in ops : m.by # t
  BY DEF Sess!Return, Sess!hist, Pc
<1>1. /\ Born(t) = job[t].born /\ Given(t) = job[t].ids /\ DOMAIN Given(t) = DOMAIN Born(t) /\ Line(t) = << >> /\ Sent(t) = {}
      /\ Given(t) \in Seq(Nat) /\ mode # t
  <2>1. Saving(t)
    BY <1>0 DEF Saving
  <2> QED BY <2>1, <1>0, SaveIs DEF SessInv, Stages
<1>2. PICK b : b = Born(t)
  OBVIOUS
<1>3. PICK g : g = Given(t)
  OBVIOUS
<1>4. PICK A : A = Sess!Adopted(t)
  OBVIOUS
<1>5. \A i \in A : i \in DOMAIN b /\ \A p \in staging : inst[p].id # g[i]
  <2>1. b = job[t].born /\ g = job[t].ids
    BY <1>1, <1>2, <1>3
  <2> QED BY <2>1, <1>4 DEF Sess!Adopted, Sess!Staged
<1>6. /\ \A i \in DOMAIN b : b[i] \in Pos \ staging /\ inst[b[i]].id = 0 /\ ~inst[b[i]].inblock
      /\ \A i, i2 \in DOMAIN b : b[i] = b[i2] => i = i2
  BY <1>2 DEF SessInv, Newborns
<1>7. staging' = staging \cup {b[i] : i \in A}
  BY <1>1, <1>2, <1>4 DEF Sess!Return
<1>8. inst' = Sess!Settled(t) /\ b = job[t].born /\ g = job[t].ids
  <2>1. inst' = Sess!Settled(t)
    BY DEF Sess!Return
  <2> QED BY <2>1, <1>1, <1>2, <1>3
<1>9. \A o \in Pos : (\A i \in DOMAIN b : b[i] # o) => inst'[o] = inst[o]
  BY <1>8 DEF Pos, Sess!Settled
<1>10. ASSUME NEW i \in DOMAIN b
       PROVE  /\ inst'[b[i]] \in Instances
              /\ inst'[b[i]].id = g[i] /\ inst'[b[i]].edits = << >> /\ ~inst'[b[i]].inblock
              /\ inst'[b[i]].obsolete = (i \notin A)
  <2>1. PICK o : o = b[i]
    OBVIOUS
  <2>2. o \in Pos /\ inst[o] \in Instances /\ ~inst[o].inblock
    BY <2>1, <1>6, InstanceIs
  <2>3. (CHOOSE i2 \in DOMAIN job[t].born : job[t].born[i2] = o) = i
    <3>1. i \in DOMAIN job[t].born /\ job[t].born[i] = o /\ \A i2 \in DOMAIN job[t].born : job[t].born[i2] = o => i2 = i
      <4>1. i \in DOMAIN b /\ b[i] = o /\ \A i2 \in DOMAIN b : b[i2] = o => i2 = i
        BY <2>1, <1>6
      <4>2. b = job[t].born
        BY <1>8
      <4> QED BY <4>1, <4>2, Zenon
    <3> QED BY <3>1, Zenon
  <2>4. inst'[o] = [inst[o] EXCEPT !.id = g[i], !.edits = << >>, !.obsolete = i \notin A]
    BY <2>1, <2>2, <2>3, <1>4, <1>8 DEF Pos, Sess!Settled
  <2>5. g[i] \in Nat /\ << >> \in Seq(Nat)
    BY <1>1, <1>2, <1>3
  <2>6. PICK r \in Instances, x \in BOOLEAN : r = inst[o] /\ x = (i \notin A)
    BY <2>2
  <2>7. inst'[o] = [id |-> g[i], edits |-> << >>, inblock |-> r.inblock, deleted |-> r.deleted, obsolete |-> x]
    BY <2>4, <2>6 DEF Instances
  <2>8. inst'[o] \in Instances
    BY <2>5, <2>6, <2>7 DEF Instances
  <2> QED BY <2>1, <2>2, <2>6, <2>7, <2>8
<1>11. InstTypes' /\ Pos' = Pos
  <2>1. InstTypes /\ inst \in Seq(Instances) /\ Pos = 1 .. Len(inst) /\ Len(inst) \in Nat
    BY DEF SessInv, SessTypes, InstTypes, Pos
  <2>2. ASSUME NEW o \in Pos PROVE inst'[o] \in Instances
    <3>1. CASE \A i \in DOMAIN b : b[i] # o
      BY <3>1, <1>9, InstanceIs
    <3>2. CASE \E i \in DOMAIN b : b[i] = o
      BY <3>2, <1>10
    <3> QED BY <3>1, <3>2
  <2>3. inst' = [o \in 1 .. Len(inst) |-> inst'[o]]
    BY <2>1, <1>8 DEF Pos, Sess!Settled
  <2>4. inst' \in Seq(Instances) /\ DOMAIN inst' = Pos
    BY <2>1, <2>2, <2>3
  <2>5. staging' \subseteq Pos
    BY <2>1, <1>5, <1>6, <1>7 DEF InstTypes
  <2> QED BY <2>1, <2>4, <2>5, <1>0 DEF InstTypes, Pos
<1>12. PICK k : k = IF job[t].all THEN [pc |-> "again", discard |-> job[t].discard, before |-> job[t].before] ELSE Sess!Idle
  OBVIOUS
<1>13. Pc(t)' \in {"idle", "again"} /\ job' = [job EXCEPT ![t] = job'[t]]
  <2>1. job' = [job EXCEPT ![t] = k]
    BY <1>12 DEF Sess!Return
  <2>2. k.pc \in {"idle", "again"}
    BY <1>12 DEF Sess!Idle
  <2> QED BY <2>1, <2>2, NewJob
<1>14. \A i \in DOMAIN b : b[i] \in staging' => i \in A
  BY <1>5, <1>6, <1>7
<1>15. \A i \in DOMAIN Born(t) :
         /\ inst'[Born(t)[i]].id = Given(t)[i] /\ inst'[Born(t)[i]].edits = << >> /\ ~inst'[Born(t)[i]].inblock
         /\ Born(t)[i] \notin staging' => inst'[Born(t)[i]].obsolete
         /\ Born(t)[i] \in staging' => \A p \in staging : inst[p].id # Given(t)[i]
  BY <1>2, <1>3, <1>5, <1>7, <1>10, <1>14
<1>16. staging \subseteq staging' /\ \A o \in staging' \ staging : \E i \in DOMAIN Born(t) : Born(t)[i] = o
  BY <1>2, <1>5, <1>7
<1>17. \A o \in Pos : (\A i \in DOMAIN Born(t) : Born(t)[i] # o) => inst'[o] = inst[o]
  BY <1>2, <1>9
<1>18. UNCHANGED <<lite, ops, mode, records, lastid, accepted, told, slipped, overlap>> /\ \A m \in ops : m.op = "upd" => m.by # t
  BY <1>0
<1>19. Line(t) = << >> /\ Sent(t) = {} /\ mode # t /\ DOMAIN Given(t) = DOMAIN Born(t)
  BY <1>1
<1> QED BY <1>11, <1>13, <1>15, <1>16, <1>17, <1>18, <1>19, Ends

\* A save_all() that finds nothing more to be saved.
LEMMA AgainEnds == ASSUME SessInv, NEW t \in Threads, Pc(t) = "again", job' = [job EXCEPT ![t] = Sess!Idle],
                          UNCHANGED <<lite, inst, staging, held, ops, mode, records, lastid, accepted, told, slipped, overlap>>
                   PROVE  SessInv'
<1> USE SessionNumbers
<1>1. Line(t) = << >> /\ Sent(t) = {} /\ Born(t) = << >> /\ Given(t) = << >>
  BY Resting DEF Saving
<1>2. InstTypes' /\ Pos' = Pos
  BY DEF SessInv, SessTypes, InstTypes, Pos
<1>3. mode # t /\ \A m \in ops : m.op = "upd" => m.by # t
  BY DEF SessInv, Stages
<1>4. PICK k : k = Sess!Idle
  OBVIOUS
<1>5. Pc(t)' \in {"idle", "again"} /\ job' = [job EXCEPT ![t] = job'[t]]
  <2>1. job' = [job EXCEPT ![t] = k] /\ k.pc = "idle"
    BY <1>4 DEF Sess!Idle
  <2> QED BY <2>1, NewJob
<1>6. /\ DOMAIN Given(t) = DOMAIN Born(t) /\ staging \subseteq staging'
      /\ \A o \in staging' \ staging : \E i \in DOMAIN Born(t) : Born(t)[i] = o
      /\ \A o \in Pos : (\A i \in DOMAIN Born(t) : Born(t)[i] # o) => inst'[o] = inst[o]
  BY <1>1
<1>7. \A i \in DOMAIN Born(t) :
         /\ inst'[Born(t)[i]].id = Given(t)[i] /\ inst'[Born(t)[i]].edits = << >> /\ ~inst'[Born(t)[i]].inblock
         /\ Born(t)[i] \notin staging' => inst'[Born(t)[i]].obsolete
         /\ Born(t)[i] \in staging' => \A p \in staging : inst[p].id # Given(t)[i]
  <2>1. DOMAIN Born(t) = {}
    BY <1>1
  <2> QED BY <2>1
<1> QED BY <1>1, <1>2, <1>3, <1>5, <1>6, <1>7, Ends

\* The instance counts elements as FiniteSets does.
LEMMA SameCardinality == ASSUME NEW S PROVE Sess!Cardinality(S) = Cardinality(S)
  BY DEF Sess!Cardinality, Cardinality

\* What a save takes from the staging area: new copies are inserted, changed ones updated, and deleted ones deleted.
LEMMA SubmitStep ==
    ASSUME SessInv, NEW t \in Threads, Pc(t) \in {"idle", "again"}, NEW os \in SUBSET staging, NEW discard, NEW all,
           NEW before, Sess!Submit(t, os, discard, all, before),
           UNCHANGED <<lite, held, mode, records, lastid, accepted, slipped>>
    PROVE  SessInv'
<1> USE SessionNumbers
<1>1. PICK N : N = {o \in os : Sess!Newborn(o) /\ ~inst[o].deleted}
  OBVIOUS
<1>2. PICK D : D = {o \in os : ~Sess!Newborn(o) /\ inst[o].deleted}
  OBVIOUS
<1>3. PICK E : E = {o \in os : ~Sess!Newborn(o) /\ ~inst[o].deleted /\ inst[o].edits # << >>}
  OBVIOUS
<1>4. PICK V : V = {o \in os : Sess!Newborn(o) /\ inst[o].deleted}
  OBVIOUS
<1>5. PICK upd : upd = {[op |-> "upd", id |-> inst[o].id, edits |-> inst[o].edits, by |-> t] : o \in E}
  OBVIOUS
<1>6. PICK dels : dels = {[op |-> "del", id |-> inst[o].id, edits |-> << >>, by |-> t] : o \in D}
  OBVIOUS
<1>7. PICK All : All = IF discard THEN os ELSE {}
  OBVIOUS
<1>8. PICK b : /\ b \in [1 .. Cardinality(N) -> N] /\ ToSet(b) = N /\ (\A i, j \in DOMAIN b : i < j => b[i] < b[j])
               /\ inst' = Sess!Cleared(discard, E, N, V \cup D \cup All)
               /\ staging' = staging \ (N \cup V \cup D \cup All)
               /\ told' = told \cup Sess!EditsOf(V \cup D)
               /\ ops' = ops \cup dels
               /\ job' = [job EXCEPT ![t] = [pc |-> "insert", discard |-> discard, all |-> all, before |-> before, sent |-> upd,
                                             queue |-> [i \in DOMAIN b |-> [id |-> 0, of |-> 0, data |-> inst[b[i]].edits]],
                                             born |-> b, ids |-> << >>]]
               /\ overlap' = overlap \cup {inst[o].id : o \in {p \in E \cup D : inst[p].id \in Sess!Sending}}
  <2>1. \E b \in [1 .. Sess!Cardinality({o \in os : Sess!Newborn(o) /\ ~inst[o].deleted}) -> {o \in os : Sess!Newborn(o) /\ ~inst[o].deleted}] :
             /\ Sess!ToSet(b) = {o \in os : Sess!Newborn(o) /\ ~inst[o].deleted} /\ (\A i, j \in DOMAIN b : i < j => b[i] < b[j])
             /\ inst' = Sess!Cleared(discard, {o \in os : ~Sess!Newborn(o) /\ ~inst[o].deleted /\ inst[o].edits # << >>}, {o \in os : Sess!Newborn(o) /\ ~inst[o].deleted}, {o \in os : Sess!Newborn(o) /\ inst[o].deleted} \cup {o \in os : ~Sess!Newborn(o) /\ inst[o].deleted} \cup IF discard THEN os ELSE {})
             /\ staging' = staging \ ({o \in os : Sess!Newborn(o) /\ ~inst[o].deleted} \cup {o \in os : Sess!Newborn(o) /\ inst[o].deleted} \cup {o \in os : ~Sess!Newborn(o) /\ inst[o].deleted} \cup IF discard THEN os ELSE {})
             /\ told' = told \cup Sess!EditsOf({o \in os : Sess!Newborn(o) /\ inst[o].deleted} \cup {o \in os : ~Sess!Newborn(o) /\ inst[o].deleted})
             /\ ops' = ops \cup {[op |-> "del", id |-> inst[o].id, edits |-> << >>, by |-> t] : o \in {o \in os : ~Sess!Newborn(o) /\ inst[o].deleted}}
             /\ job' = [job EXCEPT ![t] = [pc |-> "insert", discard |-> discard, all |-> all, before |-> before,
                          sent |-> {[op |-> "upd", id |-> inst[o].id, edits |-> inst[o].edits, by |-> t] : o \in {o \in os : ~Sess!Newborn(o) /\ ~inst[o].deleted /\ inst[o].edits # << >>}},
                          queue |-> [i \in DOMAIN b |-> [id |-> 0, of |-> 0, data |-> inst[b[i]].edits]],
                          born |-> b, ids |-> << >>]]
             /\ overlap' = overlap \cup {inst[o].id : o \in {p \in {o \in os : ~Sess!Newborn(o) /\ ~inst[o].deleted /\ inst[o].edits # << >>} \cup {o \in os : ~Sess!Newborn(o) /\ inst[o].deleted} : inst[p].id \in Sess!Sending}}
    BY Zenon DEF Sess!Submit
  <2> QED BY <2>1, <1>1, <1>2, <1>3, <1>4, <1>5, <1>6, <1>7, SameCardinality DEF ToSet
<1>9. \A o \in staging : o \in Pos /\ o \in Nat
  BY InstanceIs DEF SessInv, SessTypes, InstTypes
<1> USE DEF Sess!Newborn
<1>10. N \cup D \cup E \cup V \subseteq os /\ os \subseteq Pos /\ All \subseteq os
  BY <1>1, <1>2, <1>3, <1>4, <1>7, <1>9
<1>11. PICK n : n = Cardinality(N)
  OBVIOUS
<1>12. DOMAIN b = 1 .. n /\ n \in Nat /\ b \in Seq(Nat) /\ (\A i \in DOMAIN b : b[i] \in N) /\ \A i, j \in DOMAIN b : b[i] = b[j] => i = j
  <2>1. DOMAIN b = 1 .. n
    BY <1>8, <1>11
  <2>2. n \in Nat
    <3>1. inst \in Seq(Instances) /\ N \subseteq 1 .. Len(inst) /\ Len(inst) \in Nat
      BY <1>10 DEF SessInv, SessTypes, InstTypes, Pos
    <3>2. IsFiniteSet(1 .. Len(inst))
      BY <3>1, FS_Interval
    <3>3. IsFiniteSet(N)
      BY <3>1, <3>2, FS_Subset
    <3> QED BY <3>3, FS_CardinalityType, <1>11
  <2>3. \A i \in 1 .. n : b[i] \in N /\ b[i] \in Nat
    BY <1>8, <1>9, <1>10, <1>11
  <2>4. b \in Seq(Nat)
    <3>1. b = [i \in 1 .. n |-> b[i]]
      BY <1>8, <1>11
    <3> QED BY <2>2, <2>3, <3>1
  <2>5. \A i, j \in DOMAIN b : b[i] = b[j] => i = j
    <3>1. ASSUME NEW i \in DOMAIN b, NEW j \in DOMAIN b, b[i] = b[j] PROVE i = j
      <4>1. i \in Nat /\ j \in Nat /\ b[i] \in Nat
        BY <2>1, <2>2, <2>3
      <4>2. ~(i < j) /\ ~(j < i)
        BY <1>8, <3>1, <4>1
      <4> QED BY <4>1, <4>2
    <3> QED BY <3>1
  <2> QED BY <2>1, <2>2, <2>3, <2>4, <2>5
<1>13. PICK s : s = [i \in DOMAIN b |-> [id |-> 0, of |-> 0, data |-> inst[b[i]].edits]]
  OBVIOUS
<1>14. \A o \in Pos : /\ inst[o] \in Instances /\ inst[o].edits \in Seq(Nat) /\ inst[o].id \in Nat
                      /\ Made(inst[o].edits) /\ Rising(inst[o].edits)
  BY InstanceIs
<1>15. /\ s \in Seq(Entries) /\ DOMAIN s = DOMAIN b
       /\ \A i \in DOMAIN b : s[i].of = 0 /\ s[i].data = inst[b[i]].edits
  <2>1. \A i \in DOMAIN b : /\ s[i] = [id |-> 0, of |-> 0, data |-> inst[b[i]].edits] /\ inst[b[i]].edits \in Seq(Nat)
    BY <1>10, <1>12, <1>13, <1>14
  <2>2. ASSUME NEW i \in DOMAIN b PROVE s[i] \in Entries /\ s[i].of = 0 /\ s[i].data = inst[b[i]].edits
    <3>1. PICK x \in Seq(Nat) : x = inst[b[i]].edits
      BY <2>1
    <3>2. s[i] = [id |-> 0, of |-> 0, data |-> x]
      BY <2>1, <3>1
    <3> QED BY <3>1, <3>2 DEF Entries
  <2>3. s = [i \in 1 .. n |-> s[i]] /\ n \in Nat /\ DOMAIN b = 1 .. n
    BY <1>12, <1>13
  <2>4. s \in Seq(Entries)
    BY <2>2, <2>3
  <2> QED BY <2>2, <2>4, <1>13
<1>16. upd \subseteq Messages /\ dels \subseteq Messages
  <2>1. \A o \in E \cup D : inst[o].id \in 1 .. MaxId /\ inst[o].edits \in Seq(Nat) /\ inst[o].id <= lastid
    <3>1. \A o \in E \cup D : o \in Pos /\ inst[o].id # 0
      BY <1>2, <1>3, <1>10
    <3>2. lastid \in Nat /\ lastid <= MaxId
      BY DEF SessInv, SessTypes, StoreTypes
    <3> QED BY <3>1, <3>2, <1>14 DEF SessInv, Copies
  <2>2. ASSUME NEW o \in E PROVE [op |-> "upd", id |-> inst[o].id, edits |-> inst[o].edits, by |-> t] \in Messages
    BY <2>1 DEF Messages
  <2>3. ASSUME NEW o \in D PROVE [op |-> "del", id |-> inst[o].id, edits |-> << >>, by |-> t] \in Messages
    <3>1. << >> \in Seq(Nat)
      OBVIOUS
    <3> QED BY <3>1, <2>1 DEF Messages
  <2> QED BY <2>2, <2>3, <1>5, <1>6
<1>17. PICK k : k = [pc |-> "insert", discard |-> discard, all |-> all, before |-> before, sent |-> upd, queue |-> s,
                     born |-> b, ids |-> << >>]
  OBVIOUS
<1>18. IsSave(k) /\ k.pc = "insert" /\ k.sent = upd /\ k.queue = s /\ k.born = b /\ k.ids = << >> /\ job' = [job EXCEPT ![t] = k]
  <2>1. << >> \in Seq(Nat)
    OBVIOUS
  <2>2. IsSave(k) /\ k.pc = "insert" /\ k.sent = upd /\ k.queue = s /\ k.born = b /\ k.ids = << >>
    BY <2>1, <1>12, <1>15, <1>16, <1>17 DEF IsSave
  <2> QED BY <2>2, <1>8, <1>13, <1>17
<1>19. /\ JobTypes' /\ (\A u \in Threads \ {t} : SameJob(u)) /\ Pc(t)' = "insert"
       /\ Sent(t)' = upd /\ Line(t)' = s /\ Born(t)' = b /\ Given(t)' = << >> /\ Waits(t)' = {}
  BY <1>18, OneJob
<1>20. Sent(t) = {} /\ Line(t) = << >> /\ Born(t) = << >> /\ Given(t) = << >> /\ Waits(t) = {}
  BY Resting DEF Saving
<1>21. /\ \A u \in Threads : Given(u)' = Given(u) /\ Waits(u)' = Waits(u)
       /\ \A u \in Threads : u # t => Sent(u)' = Sent(u) /\ Line(u)' = Line(u) /\ Born(u)' = Born(u) /\ Pc(u)' = Pc(u)
  BY <1>19, <1>20 DEF SameJob
<1>22. Carriers' = Carriers \cup upd \cup dels
  <2>1. Carriers' \subseteq Carriers \cup upd \cup dels
    BY <1>8, <1>19, <1>21 DEF Carriers
  <2>2. ASSUME NEW m \in Carriers PROVE m \in Carriers'
    BY <1>8, <1>20, <1>21 DEF Carriers
  <2>3. upd \cup dels \subseteq Carriers'
    BY <1>8, <1>19 DEF Carriers
  <2> QED BY <2>1, <2>2, <2>3
<1>23. \A m \in Carriers : m.id \in Sess!Sending
  <2>1. ASSUME NEW u \in Threads, NEW m \in Sent(u) PROVE m.id \in Sess!Sending
    <3>1. Saving(u) /\ Sent(u) = job[u].sent /\ Pc(u) \in {"insert", "store"}
      BY <2>1, Resting, SaveIs DEF SessInv, Stages
    <3> QED BY <2>1, <3>1 DEF Sess!Sending, Pc
  <2>2. \A m \in ops : m.id \in Sess!Sending
    BY DEF Sess!Sending
  <2> QED BY <2>1, <2>2 DEF Carriers
<1>24. \A m \in upd : \E o \in E : /\ m.id = inst[o].id /\ m.edits = inst[o].edits /\ m.op = "upd" /\ m.by = t
                                   /\ o \in os /\ o \in staging /\ inst[o].id # 0
                                   /\ m = [op |-> "upd", id |-> inst[o].id, edits |-> inst[o].edits, by |-> t]
  BY <1>3, <1>5
<1>25. \A m \in dels : \E o \in D : /\ m.id = inst[o].id /\ m.edits = << >> /\ m.op = "del" /\ o \in os /\ o \in staging /\ inst[o].id # 0
                                    /\ m = [op |-> "del", id |-> inst[o].id, edits |-> << >>, by |-> t]
  BY <1>2, <1>6
<1>26. overlap \subseteq overlap' /\ \A m \in upd \cup dels : \A c \in Carriers : c.id = m.id => m.id \in overlap'
  BY <1>8, <1>23, <1>24, <1>25
<1>27. Copies
  BY DEF SessInv
<1>28. \A o, p \in staging : inst[o].id # 0 /\ inst[o].id = inst[p].id => o = p
  BY <1>27 DEF Copies
<1>29. \A o \in Pos : /\ inst'[o] \in Instances /\ inst'[o].id = inst[o].id /\ inst'[o].inblock = inst[o].inblock
                      /\ (inst'[o].edits = inst[o].edits \/ inst'[o].edits = << >>)
                      /\ o \notin os => inst'[o] = inst[o]
                      /\ o \in os => inst'[o].edits = << >> \/ (o \notin N \cup E /\ o \notin V \cup D \cup All)
                      /\ o \in D \cup All => inst'[o].obsolete
                      /\ inst[o].obsolete => inst'[o].obsolete
  <2>1. ASSUME NEW o \in Pos
        PROVE  /\ inst'[o] \in Instances /\ inst'[o].id = inst[o].id /\ inst'[o].inblock = inst[o].inblock
               /\ (inst'[o].edits = inst[o].edits \/ inst'[o].edits = << >>)
               /\ o \notin os => inst'[o] = inst[o]
               /\ o \in os => inst'[o].edits = << >> \/ (o \notin N \cup E /\ o \notin V \cup D \cup All)
               /\ o \in D \cup All => inst'[o].obsolete
               /\ inst[o].obsolete => inst'[o].obsolete
    <3>1. inst[o] \in Instances /\ << >> \in Seq(Nat)
      BY <1>14
    <3>2. inst'[o] = IF o \in (V \cup D \cup All) \cup (IF discard THEN E \cup N ELSE {})
                     THEN [inst[o] EXCEPT !.obsolete = TRUE, !.edits = << >>]
                     ELSE IF o \in E \cup N THEN [inst[o] EXCEPT !.edits = << >>] ELSE inst[o]
      BY <1>8 DEF Sess!Cleared, Pos
    <3>3. CASE o \in (V \cup D \cup All) \cup (IF discard THEN E \cup N ELSE {})
      <4>1. inst'[o] = [inst[o] EXCEPT !.obsolete = TRUE, !.edits = << >>]
        BY <3>2, <3>3
      <4>2. o \in os
        BY <3>3, <1>10
      <4> QED BY <3>1, <4>1, <4>2 DEF Instances
    <3>4. CASE /\ o \notin (V \cup D \cup All) \cup (IF discard THEN E \cup N ELSE {})
               /\ o \in E \cup N
      <4>1. inst'[o] = [inst[o] EXCEPT !.edits = << >>]
        BY <3>2, <3>4
      <4>2. o \in os /\ o \notin D \cup All
        BY <3>4, <1>10
      <4> QED BY <3>1, <4>1, <4>2 DEF Instances
    <3>5. CASE /\ o \notin (V \cup D \cup All) \cup (IF discard THEN E \cup N ELSE {})
               /\ o \notin E \cup N
      BY <3>1, <3>2, <3>5
    <3> QED BY <3>3, <3>4, <3>5
  <2> QED BY <2>1
<1>30. \A o \in os : o \in N \cup E \cup V \cup D \/ inst[o].edits = << >>
  BY <1>1, <1>2, <1>3, <1>4
<1>31. \A o \in staging' : /\ o \in staging /\ o \notin N /\ (o \notin os \/ inst'[o].edits = << >>)
  BY <1>8, <1>9, <1>29, <1>30
<1>32. InstTypes' /\ Pos' = Pos
  <2>1. InstTypes /\ inst \in Seq(Instances) /\ Pos = 1 .. Len(inst) /\ Len(inst) \in Nat
    BY DEF SessInv, SessTypes, InstTypes, Pos
  <2>2. inst' = [o \in 1 .. Len(inst) |-> inst'[o]]
    BY <2>1, <1>8 DEF Pos, Sess!Cleared
  <2>3. inst' \in Seq(Instances) /\ DOMAIN inst' = Pos
    BY <2>1, <2>2, <1>29
  <2>4. staging' \subseteq Pos
    BY <1>9, <1>31
  <2> QED BY <2>1, <2>3, <2>4 DEF InstTypes, Pos
<1>33. SessTypes'
  <2>1. \A m \in ops' : m.op = "del" => m.edits = << >>
    <3>1. \A m \in ops : m.op = "del" => m.edits = << >>
      BY DEF SessInv, SessTypes, StoreTypes
    <3> QED BY <3>1, <1>8, <1>25
  <2>2. ops' \subseteq Messages
    BY <1>8, <1>16 DEF SessInv, SessTypes, StoreTypes
  <2>3. StoreTypes'
    BY <2>1, <2>2 DEF SessInv, SessTypes, StoreTypes, Messages
  <2> QED BY <2>3, <1>19, <1>32 DEF SessTypes
<1>34. Copies'
  <2>1. \A o \in Pos \ staging' : o \in staging => inst[o].id = 0 \/ o \in D \cup All
    BY <1>1, <1>4, <1>8
  <2>2. \A o \in Pos' \ staging' : inst'[o].id # 0 /\ ~inst'[o].inblock => inst'[o].obsolete
    BY <2>1, <1>27, <1>29, <1>32 DEF Copies
  <2>3. \A o \in staging' : ~inst'[o].inblock
    BY <1>9, <1>27, <1>29, <1>31 DEF Copies
  <2>4. \A o, p \in staging' : inst'[o].id # 0 /\ inst'[o].id = inst'[p].id => o = p
    BY <1>9, <1>28, <1>29, <1>31
  <2>5. \A o \in Pos' : inst'[o].id <= lastid' /\ (inst'[o].inblock => inst'[o].id # 0)
    BY <1>27, <1>29, <1>32 DEF Copies
  <2> QED BY <2>2, <2>3, <2>4, <2>5 DEF Copies
<1>35. \A i \in DOMAIN b : b[i] \in Pos \ staging' /\ b[i] \in staging /\ inst[b[i]].id = 0 /\ ~inst[b[i]].inblock
  <2>1. \A o \in N : o \in Pos \ staging' /\ o \in staging /\ inst[o].id = 0 /\ ~inst[o].inblock
    BY <1>1, <1>8, <1>9, <1>27 DEF Copies
  <2> QED BY <2>1, <1>12
<1>36. Newborns'
  <2>1. \A u \in Threads : u # t => /\ \A i \in DOMAIN Born(u) : /\ Born(u)[i] \in Pos \ staging
                                                                 /\ inst[Born(u)[i]].id = 0 /\ ~inst[Born(u)[i]].inblock
                                    /\ \A i, j \in DOMAIN Born(u) : Born(u)[i] = Born(u)[j] => i = j
                                    /\ \A v \in Threads \ {u} : \A i \in DOMAIN Born(u), j \in DOMAIN Born(v) : Born(u)[i] # Born(v)[j]
    BY DEF SessInv, Newborns
  <2>2. \A u \in Threads : u # t => \A i \in DOMAIN Born(u) : /\ Born(u)[i] \in Pos' \ staging'
                                                              /\ inst'[Born(u)[i]].id = 0 /\ ~inst'[Born(u)[i]].inblock
    BY <2>1, <1>29, <1>31, <1>32
  <2>3. \A i \in DOMAIN b : b[i] \in Pos' \ staging' /\ inst'[b[i]].id = 0 /\ ~inst'[b[i]].inblock
    BY <1>29, <1>32, <1>35
  <2>4. \A u \in Threads : u # t => \A i \in DOMAIN Born(u), j \in DOMAIN b : Born(u)[i] # b[j]
    BY <2>1, <1>35
  <2>5. \A u \in Threads : Born(u)' = IF u = t THEN b ELSE Born(u)
    BY <1>19, <1>21
  <2>6. \A u \in Threads : \A i \in DOMAIN Born(u)' : /\ Born(u)'[i] \in Pos' \ staging'
                                                      /\ inst'[Born(u)'[i]].id = 0 /\ ~inst'[Born(u)'[i]].inblock
    BY <2>2, <2>3, <2>5
  <2>7. \A u \in Threads : \A i, j \in DOMAIN Born(u)' : Born(u)'[i] = Born(u)'[j] => i = j
    BY <2>1, <2>5, <1>12
  <2>8. ASSUME NEW u \in Threads, NEW v \in Threads \ {u}
        PROVE  \A i \in DOMAIN Born(u)', j \in DOMAIN Born(v)' : Born(u)'[i] # Born(v)'[j]
    BY <2>1, <2>4, <2>5
  <2> QED BY <2>6, <2>7, <2>8 DEF Newborns
<1>37. Stages'
  <2>1. ASSUME NEW u \in Threads
        PROVE  /\ Pc(u)' = "insert" => /\ DOMAIN Line(u)' = DOMAIN Born(u)' /\ Given(u)' = << >>
                                       /\ \A i \in DOMAIN Line(u)' : Line(u)'[i].of = 0
               /\ \A m \in Sent(u)' : m.op = "upd" /\ m.by = u
               /\ Pc(u)' = "update" => Line(u)' = << >> /\ Sent(u)' = {}
               /\ Pc(u)' \in {"store", "update"} => DOMAIN Given(u)' = DOMAIN Born(u)'
    <3>1. CASE u = t
      BY <3>1, <1>15, <1>19, <1>24
    <3>2. CASE u # t
      BY <3>2, <1>21 DEF SessInv, Stages
    <3> QED BY <3>1, <3>2
  <2>2. ASSUME NEW v \in Threads, v = mode PROVE Pc(v)' = "store"
    BY <2>2, <1>21 DEF SessInv, Stages
  <2>3. mode' \in Threads => Pc(mode)' = "store"
    BY <2>2 DEF Pc
  <2>4. ASSUME NEW m \in ops', m.op = "upd", m.by \in Threads PROVE Pc(m.by)' = "update"
    <3>1. m \in ops
      BY <2>4, <1>8, <1>25
    <3>2. Pc(m.by) = "update" /\ m.by # t
      BY <2>4, <3>1 DEF SessInv, Stages
    <3> QED BY <2>4, <3>2, <1>21
  <2> QED BY <2>1, <2>3, <2>4 DEF SessInv, Stages
<1>38. Numbered'
  BY <1>21 DEF SessInv, Numbered
<1>39. Unborn'
  <2>1. \A m \in upd \cup dels : \E o \in staging : m.id = inst[o].id
    BY <1>24, <1>25
  <2>2. \A m \in Carriers' : m.id <= lastid'
    BY <2>1, <1>9, <1>22, <1>27 DEF SessInv, Unborn, Copies
  <2>3. ASSUME NEW u \in Threads, NEW p \in Waits(u)'
        PROVE  /\ p.id \in 1 .. lastid' /\ records'[p.id] = << >>
               /\ p.of # 0 => p.of \in Pos' /\ inst'[p.of].inblock
               /\ \A o \in staging' : inst'[o].id # p.id
               /\ \A m \in Carriers' : m.id # p.id
               /\ \A v \in Threads \ {u} : \A p1 \in Waits(v)' : p1.id # p.id
    <3>1. p \in Waits(u)
      BY <2>3, <1>21
    <3>2. /\ p.id \in 1 .. lastid /\ records[p.id] = << >> /\ (p.of # 0 => p.of \in Pos /\ inst[p.of].inblock)
          /\ (\A o \in staging : inst[o].id # p.id) /\ (\A m \in Carriers : m.id # p.id)
          /\ \A v \in Threads \ {u} : \A p1 \in Waits(v) : p1.id # p.id
      BY <3>1 DEF SessInv, Unborn
    <3>3. \A o \in staging' : inst'[o].id # p.id
      BY <3>2, <1>9, <1>29, <1>31
    <3>4. \A m \in Carriers' : m.id # p.id
      BY <3>2, <2>1, <1>22
    <3> QED BY <3>2, <3>3, <3>4, <1>21, <1>29, <1>32
  <2>4. \A u \in Threads : Pc(u)' = "store" => Pc(u) = "store" /\ Line(u)' = Line(u)
    BY <1>19, <1>21
  <2> QED BY <2>2, <2>3, <2>4 DEF SessInv, Unborn
<1>40. Counted'
  <2>1. Made(<< >>) /\ Rising(<< >>)
    BY DEF Made, Rising
  <2>2. \A m \in upd \cup dels : Made(m.edits) /\ Rising(m.edits)
    BY <2>1, <1>9, <1>14, <1>24, <1>25
  <2>3. \A q \in ToSet(s) : Made(q.data) /\ Rising(q.data)
    <3>1. \A q \in ToSet(s) : \E i \in DOMAIN s : s[i] = q
      BY <1>15, ElementsOf
    <3> QED BY <3>1, <1>14, <1>15, <1>35
  <2>4. \A o \in Pos' : Made(inst'[o].edits) /\ Rising(inst'[o].edits)
    BY <2>1, <1>14, <1>29, <1>32
  <2>5. \A m \in Carriers' : Made(m.edits) /\ Rising(m.edits)
    BY <2>2, <1>22, SameCounts
  <2>6. \A u \in Threads : \A q \in ToSet(Line(u)') : Made(q.data) /\ Rising(q.data)
    BY <2>3, <1>19, <1>21, SameCounts
  <2> QED BY <2>4, <2>5, <2>6, SameCounts DEF Counted, Rising
<1>41. \A m, c \in upd \cup dels : m.id = c.id => m = c
  <2>1. \A o \in E : o \notin D
    BY <1>2, <1>3
  <2>2. ASSUME NEW m \in upd, NEW c \in upd, m.id = c.id PROVE m = c
    BY <2>2, <1>24, <1>28
  <2>3. ASSUME NEW m \in dels, NEW c \in dels, m.id = c.id PROVE m = c
    BY <2>3, <1>25, <1>28
  <2>4. ASSUME NEW m \in upd, NEW c \in dels, m.id = c.id PROVE FALSE
    BY <2>1, <2>4, <1>24, <1>25, <1>28
  <2> QED BY <2>2, <2>3, <2>4
<1>42. Alone'
  <2>1. /\ \A m, c \in ops : m.id = c.id /\ m.id \notin overlap' => m = c
        /\ \A u \in Threads : \A m, c \in Sent(u) : m.id = c.id /\ m.id \notin overlap' => m = c
        /\ \A u \in Threads : \A v \in Threads \ {u} : \A m \in Sent(u), c \in Sent(v) : m.id = c.id => m.id \in overlap'
        /\ \A u \in Threads : \A m \in Sent(u), c \in ops : m.id = c.id => m.id \in overlap'
    BY <1>26 DEF SessInv, Alone
  <2>2. (\A m \in ops : m \in Carriers) /\ \A u \in Threads : \A m \in Sent(u) : m \in Carriers
    BY DEF Carriers
  <2>3. \A u \in Threads : Sent(u)' = IF u = t THEN upd ELSE Sent(u)
    BY <1>19, <1>21
  <2>4. \A m, c \in ops' : m.id = c.id /\ m.id \notin overlap' => m = c
    BY <2>1, <2>2, <1>8, <1>26, <1>41
  <2>5. \A u \in Threads : \A m, c \in Sent(u)' : m.id = c.id /\ m.id \notin overlap' => m = c
    BY <2>1, <2>3, <1>41
  <2>6. \A u \in Threads : \A v \in Threads \ {u} : \A m \in Sent(u)', c \in Sent(v)' : m.id = c.id => m.id \in overlap'
    BY <2>1, <2>2, <2>3, <1>26
  <2>7. \A u \in Threads : \A m \in Sent(u)', c \in ops' : m.id = c.id => m.id \in overlap'
    <3>1. \A m \in upd, c \in dels : m.id # c.id
      <4>1. \A m \in upd, c \in dels : m.op # c.op
        BY <1>24, <1>25
      <4> QED BY <4>1, <1>41
    <3>2. \A c \in ops' : c \in ops \/ c \in dels
      BY <1>8
    <3> QED BY <3>1, <3>2, <2>1, <2>2, <2>3, <1>26
  <2> QED BY <2>4, <2>5, <2>6, <2>7 DEF Alone
<1>43. InOrder'
  <2>1. \A q : Under(q, << >>)
    BY DEF Under
  <2>2. ASSUME NEW id \in (1 .. MaxId) \ overlap'
        PROVE  /\ Rising(records[id])
               /\ \A m \in Carriers' : m.id = id => Under(records[id], m.edits)
               /\ \A o \in staging' : inst'[o].id = id => /\ Under(records[id], inst'[o].edits)
                                                          /\ \A m \in Carriers' : m.id = id => Under(m.edits, inst'[o].edits)
    <3>1. id \in (1 .. MaxId) \ overlap
      BY <2>2, <1>26
    <3>2. /\ Rising(records[id])
          /\ \A m \in Carriers : m.id = id => Under(records[id], m.edits)
          /\ \A o \in staging : inst[o].id = id => /\ Under(records[id], inst[o].edits)
                                                   /\ \A m \in Carriers : m.id = id => Under(m.edits, inst[o].edits)
      BY <3>1 DEF SessInv, InOrder
    <3>3. \A m \in upd \cup dels : m.id = id => Under(records[id], m.edits)
      BY <2>1, <3>2, <1>24, <1>25
    <3>4. ASSUME NEW o \in staging', inst'[o].id = id
          PROVE  /\ Under(records[id], inst'[o].edits)
                 /\ \A m \in Carriers' : m.id = id => Under(m.edits, inst'[o].edits)
      <4>1. CASE inst'[o].edits = << >>
        BY <2>1, <4>1
      <4>2. CASE o \notin os
        <5>1. o \in staging /\ inst'[o] = inst[o] /\ inst[o].id = id
          BY <3>4, <4>2, <1>9, <1>29, <1>31
        <5>2. \A m \in upd \cup dels : m.id # id
          BY <5>1, <4>2, <1>24, <1>25, <1>28
        <5> QED BY <5>1, <5>2, <3>2, <1>22
      <4> QED BY <4>1, <4>2, <1>31
    <3> QED BY <3>2, <3>3, <3>4, <1>22
  <2> QED BY <2>2 DEF InOrder
<1>44. Covered'
  <2>1. ASSUME NEW e, IsStaged(e) PROVE Somewhere(e)'
    <3>1. PICK o \in staging : e \in ToSet(inst[o].edits)
      BY <2>1 DEF IsStaged
    <3>2. CASE o \notin os
      <4>1. o \in staging' /\ inst'[o] = inst[o]
        BY <3>2, <1>8, <1>9, <1>10, <1>29
      <4> QED BY <3>1, <4>1 DEF Somewhere, IsStaged
    <3>3. CASE o \in V \cup D
      <4>1. e \in Sess!EditsOf(V \cup D)
        BY <3>1, <3>3 DEF Sess!EditsOf, ToSet
      <4> QED BY <4>1, <1>8 DEF Somewhere
    <3>4. CASE o \in E
      <4>1. PICK m : m = [op |-> "upd", id |-> inst[o].id, edits |-> inst[o].edits, by |-> t]
        OBVIOUS
      <4>2. m \in upd /\ m.edits = inst[o].edits
        BY <3>4, <4>1, <1>5
      <4>3. IsSent(e)'
        BY <3>1, <4>2, <1>22 DEF IsSent
      <4> QED BY <4>3 DEF Somewhere
    <3>5. CASE o \in N
      <4>1. PICK i \in DOMAIN b : b[i] = o
        BY <3>5, <1>8, <1>12, ElementsOf
      <4>2. s[i].of = 0 /\ s[i].data = inst[o].edits /\ s[i] \in ToSet(s)
        BY <4>1, <1>15, ElementsOf
      <4>3. PICK q \in ToSet(Line(t)') : q.of = 0 /\ q.data = inst[o].edits
        BY <4>2, <1>19
      <4>4. e \in ToSet(IF q.of = 0 THEN q.data ELSE inst'[q.of].edits)
        BY <3>1, <4>3
      <4>5. IsQueued(e)'
        BY <4>3, <4>4 DEF IsQueued
      <4> QED BY <4>5 DEF Somewhere
    <3>6. CASE inst[o].edits = << >>
      BY <3>1, <3>6, ElementsOfEmpty
    <3> QED BY <3>2, <3>3, <3>4, <3>5, <3>6, <1>30
  <2>2. ASSUME NEW e, IsQueued(e) PROVE IsQueued(e)'
    <3>1. PICK u \in Threads : \E p \in ToSet(Line(u)) : e \in ToSet(IF p.of = 0 THEN p.data ELSE inst[p.of].edits)
      BY <2>2 DEF IsQueued
    <3>2. PICK p \in ToSet(Line(u)) : e \in ToSet(IF p.of = 0 THEN p.data ELSE inst[p.of].edits)
      BY <3>1
    <3>3. u # t
      BY <3>2, <1>20, ElementsOfEmpty
    <3>4. p.of # 0 => p.of \in Pos /\ inst[p.of].inblock
      BY <3>2, LineIs
    <3>5. p.of # 0 => inst'[p.of] = inst[p.of]
      BY <3>4, <1>27, <1>29 DEF Copies
    <3>6. e \in ToSet(IF p.of = 0 THEN p.data ELSE inst'[p.of].edits)
      BY <3>2, <3>5
    <3> QED BY <3>2, <3>3, <3>6, <1>21 DEF IsQueued
  <2>3. \A e : (IsStored(e) => IsStored(e)') /\ (IsSent(e) => IsSent(e)')
    BY <1>22 DEF IsStored, IsSent
  <2>4. told \subseteq told'
    BY <1>8
  <2> QED BY <2>1, <2>2, <2>3, <2>4 DEF SessInv, Covered, Somewhere
<1> QED BY <1>33, <1>34, <1>36, <1>37, <1>38, <1>39, <1>40, <1>42, <1>43, <1>44 DEF SessInv


\* What is staged can be saved, one object or all of them, and a save_all() looks again.
LEMMA SavesStep == ASSUME SessInv, NEW t \in Threads,
                          Sess!SaveOne(t) \/ (\E discard \in BOOLEAN : Sess!SaveAll(t, discard)) \/ Sess!Again(t)
                   PROVE  SessInv'
<1>1. job[t] = Sess!Idle => Pc(t) = "idle"
  BY DEF Pc, Sess!Idle
<1>2. Sess!Pending \in SUBSET staging /\ staging \in SUBSET staging
  BY DEF Sess!Pending
<1>3. CASE Sess!SaveOne(t)
  <2>1. {held[t]} \in SUBSET staging /\ Sess!Submit(t, {held[t]}, FALSE, FALSE, {})
    BY <1>3 DEF Sess!SaveOne
  <2>2. Pc(t) \in {"idle", "again"} /\ UNCHANGED <<lite, held, mode, records, lastid, accepted, slipped>>
    BY <1>1, <1>3 DEF Sess!SaveOne
  <2> QED BY <2>1, <2>2, SubmitStep
<1>4. ASSUME NEW discard \in BOOLEAN, Sess!SaveAll(t, discard) PROVE SessInv'
  <2>1. PICK os : os = IF discard THEN staging ELSE Sess!Pending
    OBVIOUS
  <2>2. PICK before : before = Sess!EditsOf({o \in staging : ~inst[o].deleted})
    OBVIOUS
  <2>3. os \in SUBSET staging /\ Sess!Submit(t, os, discard, TRUE, before)
    BY <1>2, <1>4, <2>1, <2>2 DEF Sess!SaveAll
  <2>4. Pc(t) \in {"idle", "again"} /\ UNCHANGED <<lite, held, mode, records, lastid, accepted, slipped>>
    BY <1>1, <1>4 DEF Sess!SaveAll
  <2> QED BY <2>3, <2>4, SubmitStep
<1>5. CASE Sess!Again(t)
  <2>1. PICK os : os = IF job[t].discard THEN staging ELSE Sess!Pending
    OBVIOUS
  <2>2. PICK discard, before : discard = job[t].discard /\ before = job[t].before
    OBVIOUS
  <2>3. Pc(t) = "again" /\ UNCHANGED <<lite, held, mode, records, lastid, accepted, slipped>>
    BY <1>5 DEF Sess!Again, Pc
  <2>4. CASE os = {}
    <3>1. job' = [job EXCEPT ![t] = Sess!Idle] /\ UNCHANGED <<inst, staging, ops, told, overlap>>
      BY <1>5, <2>1, <2>4 DEF Sess!Again
    <3> QED BY <2>3, <3>1, AgainEnds
  <2>5. CASE os # {}
    <3>1. os \in SUBSET staging /\ Sess!Submit(t, os, discard, TRUE, before)
      BY <1>2, <1>5, <2>1, <2>2, <2>5 DEF Sess!Again
    <3> QED BY <2>3, <3>1, SubmitStep
  <2> QED BY <2>4, <2>5
<1> QED BY <1>3, <1>4, <1>5

\* A commit keeps all that is accounted for.
LEMMA SessionCommits == ASSUME SessInv, NEW t \in Threads, Sess!Commit(t) PROVE SessInv'
  BY SessStutter DEF Sess!Commit, Sess!hist

\* The staging area, the saves and the records keep their shape, and edits stay accounted for.
LEMMA SessStep == ASSUME SessInv, [Sess!Next]_(Sess!vars) PROVE SessInv'
<1>1. CASE UNCHANGED Sess!vars
  BY <1>1, SessStutter DEF Sess!vars
<1>2. ASSUME NEW t \in Threads,
             \/ \E id \in 1 .. MaxId : records[id] # << >> /\ Sess!GetMutable(t, id)
             \/ Sess!CreateStaged(t) \/ Sess!CreateInBlock(t) \/ Sess!Edit(t) \/ Sess!Delete(t) \/ Sess!Revert(t)
      PROVE  SessInv'
  BY <1>2, GetMutableStep, CreateStagedStep, CreateInBlockStep, EditStep, DeleteStep, RevertStep
<1>3. ASSUME NEW t \in Threads,
             \/ Sess!SaveOne(t) \/ (\E discard \in BOOLEAN : Sess!SaveAll(t, discard)) \/ Sess!Commit(t)
             \/ Sess!Invalid(t) \/ Sess!Steps(t)
      PROVE  SessInv'
  <2>1. ASSUME Sess!BeginInsert(t) PROVE SessInv'
    <3>1. CASE lite /\ mode # "off"
      BY <2>1, <3>1, RefusedStep
    <3>2. CASE ~(lite /\ mode # "off")
      BY <2>1, <3>2, BeginInsertStep
    <3> QED BY <3>1, <3>2
  <2>2. ASSUME Sess!Steps(t) PROVE SessInv'
    BY <2>1, <2>2, StoreNextStep, EndInsertStep, ReturnStep, SavesStep DEF Sess!Steps
  <2> QED BY <1>3, <2>2, SavesStep, SessionCommits, InvalidStep
<1>4. ASSUME NEW m \in ops, Sess!Perform(m) \/ Sess!Reject(m) PROVE SessInv'
  BY <1>4, PerformStep, RejectStep
<1> QED BY <1>1, <1>2, <1>3, <1>4 DEF Sess!Next


\* One place of each edit is named by EditsAccounted.
LEMMA WhereEditsAre == ASSUME SessInv, NEW e \in 1 .. accepted
                       PROVE  e \in Sess!StagedEdits \cup Sess!OnTheWay \cup Sess!InRecords \cup told \cup slipped
<1> USE DEF ToSet
<1>1. Somewhere(e)
  BY DEF SessInv, Covered
<1>2. ASSUME NEW t \in Threads, NEW x, x \in Sess!SentEdits(t) \cup Sess!QueuedEdits(t), Saving(t) PROVE x \in Sess!OnTheWay
  <2>1. t \in {u \in Threads : job[u].pc \in {"insert", "store", "update"}}
    BY <1>2 DEF Saving, Pc
  <2>2. x \in UNION {Sess!SentEdits(u) \cup Sess!QueuedEdits(u) : u \in {u \in Threads : job[u].pc \in {"insert", "store", "update"}}}
    BY <1>2, <2>1
  <2> QED BY <2>2 DEF Sess!OnTheWay
<1>3. CASE IsStaged(e)
  BY <1>3 DEF IsStaged, Sess!StagedEdits, Sess!EditsOf
<1>4. CASE IsSent(e)
  <2>1. PICK m \in Carriers : e \in ToSet(m.edits)
    BY <1>4 DEF IsSent
  <2>2. CASE m \in ops
    BY <2>1, <2>2 DEF Sess!OnTheWay
  <2>3. CASE \E t \in Threads : m \in Sent(t)
    <3>1. PICK t \in Threads : m \in Sent(t)
      BY <2>3
    <3>2. Saving(t) /\ m \in job[t].sent
      BY <3>1 DEF Sent
    <3>3. e \in Sess!SentEdits(t)
      BY <2>1, <3>2 DEF Sess!SentEdits
    <3> QED BY <1>2, <3>2, <3>3
  <2> QED BY <2>1, <2>2, <2>3 DEF Carriers
<1>5. CASE IsQueued(e)
  <2>1. PICK t \in Threads : \E q \in ToSet(Line(t)) : e \in ToSet(IF q.of = 0 THEN q.data ELSE inst[q.of].edits)
    BY <1>5 DEF IsQueued
  <2>2. PICK q \in ToSet(Line(t)) : e \in ToSet(IF q.of = 0 THEN q.data ELSE inst[q.of].edits)
    BY <2>1
  <2>3. Saving(t)
    BY LineIs DEF Saving
  <2>4. Line(t) = job[t].queue
    BY <2>3 DEF Line
  <2>5. e \in IF q.of = 0 THEN Sess!ToSet(q.data) ELSE Sess!ToSet(inst[q.of].edits)
    BY <2>2
  <2>6. e \in Sess!QueuedEdits(t)
    BY <2>2, <2>4, <2>5 DEF Sess!QueuedEdits
  <2> QED BY <1>2, <2>3, <2>6
<1>6. CASE IsStored(e)
  <2>1. PICK id \in 1 .. MaxId : e \in ToSet(records[id])
    BY <1>6 DEF IsStored
  <2>2. e # 0
    BY DEF SessInv, SessTypes, StoreTypes
  <2>3. e \in UNION {Sess!ToSet(records[i]) : i \in 1 .. MaxId}
    BY <2>1
  <2> QED BY <2>2, <2>3 DEF Sess!InRecords
<1> QED BY <1>1, <1>3, <1>4, <1>5, <1>6 DEF Somewhere

\* Edits are accounted for, and copies do not diverge.
LEMMA SessSound == ASSUME SessInv PROVE EditsAccounted
<1>1. Sess!OneLiveInstance
  <2>1. ASSUME NEW o \in DOMAIN inst, NEW p \in DOMAIN inst, o \in staging, o # p, inst[o].id # 0, inst[p].id = inst[o].id, ~inst[p].inblock
        PROVE  inst[p].obsolete
    BY <2>1 DEF SessInv, Copies, Pos
  <2> QED BY <2>1 DEF Sess!OneLiveInstance, Sess!Newborn
<1>2. Sess!OrderKept
  BY DEF SessInv, InOrder, Rising, Sess!OrderKept
<1>3. \A e \in 1 .. accepted : e \in Sess!StagedEdits \cup Sess!OnTheWay \cup Sess!InRecords \cup told \cup slipped
  BY WhereEditsAre
<1> QED BY <1>1, <1>2, <1>3 DEF EditsAccounted, Sess!EditsAccounted

(* Whatever flows stage, edit, save, revert and delete at a time in a session, only one live copy of an object is edited, a record
   gets its edits once each and in the order in which they were made, and none vanishes without notice (EditsAccounted of
   Session). *)
THEOREM Accounted == Sess!Spec => []EditsAccounted
<1>1. Sess!Init => SessInv
  BY SessInit
<1>2. SessInv /\ [Sess!Next]_(Sess!vars) => SessInv'
  BY SessStep
<1>3. SessInv => EditsAccounted
  BY SessSound
<1> QED BY <1>1, <1>2, <1>3, PTL DEF Sess!Spec
=============================================================================
