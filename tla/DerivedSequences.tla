-------------------------- MODULE DerivedSequences --------------------------
(* Creation and removal of operators, that is, indexes and aggregations, with the sequences that implement them in a stack of
   rings (schemat/db/db.js: create_index, create_aggregation, _create_derived, remove_operator, Ring.create_derived, the
   getters of sequences and operators; schemat/db/sequence.js: create_derived, _deploy, __delete__, edit.rmv_derived). The
   main sequence of a ring has an array `derived` of the sequences that its changes are sent to. A sequence is added to it
   by an edit that sets the whole array, staged until the session is committed, and taken from it by one that edits what is
   there. A sequence is known by its operator and ring. *)
EXTENDS Naturals, Sequences, Functions

CONSTANTS NRings,       \* rings are 1 .. NRings, from bottom to top
          Names,
          ReadOnly,     \* sets of rings that may be read-only
          Callers,      \* asynchronous flows that create and remove operators, in one process
          MaxOperators, MaxEvents       \* bounds: operators created; removals, failures, late calls and restarts

SequencesAssumption == NRings \in Nat \ {0} /\ MaxOperators \in Nat /\ MaxEvents \in Nat

VARIABLES readonly,     \* rings that are read-only
          operators,    \* [1 .. n -> [name, ring]]: all operators ever created
          live,         \* those that have a record
          sequences,    \* records of derived sequences, as pairs <<ring, operator>>
          derived,      \* derived[r]: operators of the sequences in the array of the main sequence of ring r
          fed,          \* sequences that have a monitor in the source block
          asked,        \* sequences for which $master.backfill of the source block was called, and not answered yet
          view,         \* `derived` as the process has loaded it
          staged,       \* staged[c]: arrays to be set when the session is committed, [subset of rings -> set of operators]
          job,          \* [pc, op, ring, seen, seq] of each caller
          events,
          complete, gone,       \* history: operators whose creation, or removal, has ended well
          unfed,                \* history: sequences for which that call was lost, and no monitor made since
          stale, missed         \* history: rings where an array was set that missed a change, or whose blocks were started
                                \* before the array was set; operators whose sequences remove_operator() did not see
                                \* or failed to delete
dseqvars == <<readonly, operators, live, sequences, derived, fed, asked, view, staged, job, events, complete, gone,
              unfed, stale, missed>>

Rings == 1 .. NRings
Idle == [pc |-> "idle", op |-> 0, ring |-> 1, seen |-> {}, seq |-> 0]
\* Ring.operators of the top ring, and Ring.sequences by name
Known == UNION Range(view)
Named(name, S) == {o \in S : operators[o].name = name}

Init == /\ readonly \in ReadOnly
        /\ operators = << >> /\ live = {} /\ sequences = {} /\ fed = {} /\ asked = {} /\ unfed = {}
        /\ derived = [r \in Rings |-> {}] /\ view = derived
        /\ staged = [c \in Callers |-> << >>] /\ job = [c \in Callers |-> Idle]
        /\ events = 0 /\ complete = {} /\ gone = {} /\ stale = {} /\ missed = {}

Become(c, j) == job' = [job EXCEPT ![c] = j]
history == <<complete, gone, unfed, stale, missed>>

----------------------------------------------------------------------------
\* _create_derived() looks for the name among the operators that the process knows, and saves the operator in the ring.
NewOperator(c, name, r) ==
    /\ job[c] = Idle /\ Len(operators) < MaxOperators
    /\ Named(name, Known) = {} /\ r \notin readonly
    /\ operators' = Append(operators, [name |-> name, ring |-> r]) /\ live' = live \cup {Len(operators')}
    /\ Become(c, [Idle EXCEPT !.pc = "derive", !.op = Len(operators'), !.ring = r])
    /\ UNCHANGED <<readonly, sequences, derived, fed, asked, view, staged, events, history>>

\* Ring.create_derived(): the sequence is saved at once; `derived` is read from the main sequence as it is loaded now.
CreateDerived(c) ==
    LET j == job[c]
    IN /\ j.pc = "derive" /\ j.ring \notin readonly
       /\ sequences' = sequences \cup {<<j.ring, j.op>>}
       /\ Become(c, [j EXCEPT !.pc = "deploy", !.seen = view[j.ring]])
       /\ UNCHANGED <<readonly, operators, live, derived, fed, asked, view, staged, events, history>>

\* _deploy(): an agent for the block; the source blocks are asked to make a monitor and to backfill, which nobody awaits. They
\* do at once, or, as one of the events that are bounded, later or not at all. Then on to the next ring.
Deploy(c) ==
    LET j == job[c]
    IN /\ j.pc = "deploy"
       /\ \/ fed' = fed \cup {<<j.ring, j.op>>} /\ UNCHANGED <<asked, events>>
          \/ /\ asked' = asked \cup {<<j.ring, j.op>>} /\ UNCHANGED fed
             /\ events < MaxEvents /\ events' = events + 1
       /\ staged' = [staged EXCEPT ![c] = [r \in DOMAIN @ \cup {j.ring} |-> IF r = j.ring THEN j.seen \cup {j.op} ELSE @[r]]]
       /\ Become(c, IF j.ring < NRings THEN [j EXCEPT !.pc = "derive", !.ring = @ + 1] ELSE [j EXCEPT !.pc = "commit"])
       /\ UNCHANGED <<readonly, operators, live, sequences, derived, view, history>>

\* $master.backfill() of the source block comes later, or gets lost or is rejected.
Backfill(s) == /\ fed' = fed \cup {s} /\ asked' = asked \ {s}
               /\ UNCHANGED <<readonly, operators, live, sequences, derived, view, staged, job, events, history>>
LoseBackfill(s) == /\ asked' = asked \ {s} /\ unfed' = unfed \cup {s}
                   /\ UNCHANGED <<readonly, operators, live, sequences, derived, fed, view, staged, job, events, complete, gone, stale, missed>>

\* The session is committed; after a failure it may be, or not.
Commit(c) ==
    /\ job[c].pc \in {"commit", "failed"} /\ staged[c] # << >>
    /\ derived' = [r \in Rings |-> IF r \in DOMAIN staged[c] THEN staged[c][r] ELSE derived[r]]
    /\ stale' = stale \cup {r \in DOMAIN staged[c] : staged[c][r] # derived[r] \cup {job[c].op}}
    /\ complete' = IF job[c].pc = "commit" THEN complete \cup {job[c].op} ELSE complete
    /\ staged' = [staged EXCEPT ![c] = << >>] /\ Become(c, Idle)
    /\ UNCHANGED <<readonly, operators, live, sequences, fed, asked, view, events, gone, unfed, missed>>
GiveUp(c) == /\ job[c].pc = "failed"
             /\ staged' = [staged EXCEPT ![c] = << >>] /\ Become(c, Idle)
             /\ UNCHANGED <<readonly, operators, live, sequences, derived, fed, asked, view, events, history>>

\* A ring above is read-only, or a call of the cluster or the database fails; what was done stays.
Fail(c) == LET j == job[c]
           IN /\ \/ j.pc = "derive" /\ j.ring \in readonly /\ UNCHANGED events
                 \/ j.pc \in {"deploy", "detach", "drop"} /\ events < MaxEvents /\ events' = events + 1
              /\ Become(c, [j EXCEPT !.pc = "failed"])
              /\ missed' = IF j.pc \in {"detach", "drop"} THEN missed \cup {j.op} ELSE missed
              /\ UNCHANGED <<readonly, operators, live, sequences, derived, fed, asked, view, staged, complete, gone, unfed, stale>>

----------------------------------------------------------------------------
\* remove_operator(): from the top ring down, a sequence with the operator's name among those the process has loaded
Remove(c, o) == /\ job[c] = Idle /\ o \in live /\ events < MaxEvents /\ events' = events + 1
                /\ Become(c, [Idle EXCEPT !.pc = "find", !.op = o, !.ring = NRings])
                /\ UNCHANGED <<readonly, operators, live, sequences, derived, fed, asked, view, staged, history>>
Below(j) == IF j.ring > 1 THEN [j EXCEPT !.pc = "find", !.ring = @ - 1] ELSE [j EXCEPT !.pc = "end"]
Find(c) ==
    LET j == job[c]
        found == Named(operators[j.op].name, view[j.ring])
    IN /\ j.pc = "find"
       /\ \/ \E s \in found : Become(c, [j EXCEPT !.pc = "detach", !.seq = s])
          \/ found = {} /\ Become(c, Below(j))
       /\ missed' = IF j.op \in found \/ (j.op \in complete /\ <<j.ring, j.op>> \notin sequences) THEN missed ELSE missed \cup {j.op}
       /\ UNCHANGED <<readonly, operators, live, sequences, derived, fed, asked, view, staged, events, complete, gone, unfed, stale>>

\* __delete__() of the sequence: edit.rmv_derived() of the source, and remove_monitor(); then the record is deleted.
RmvDerived_Monitor(r, s) == derived                         \* mutant: only the monitor is removed
RmvDerived(r, s) == [derived EXCEPT ![r] = @ \ {s}]
RemoveMonitor(r, s) == fed \ {<<r, s>>}
Detach(c) == LET j == job[c]
             IN /\ j.pc = "detach"
                /\ IF <<j.ring, j.seq>> \in sequences
                   THEN derived' = RmvDerived(j.ring, j.seq) /\ fed' = RemoveMonitor(j.ring, j.seq)
                   ELSE UNCHANGED <<derived, fed>>
                /\ Become(c, [j EXCEPT !.pc = "drop"])
                /\ UNCHANGED <<readonly, operators, live, sequences, asked, view, staged, events, history>>
Drop(c) == LET j == job[c]
           IN /\ j.pc = "drop"
              /\ sequences' = sequences \ {<<j.ring, j.seq>>}
              /\ Become(c, Below(j))
              /\ UNCHANGED <<readonly, operators, live, derived, fed, asked, view, staged, events, history>>
DeleteOperator(c) == /\ job[c].pc = "end"
                     /\ live' = live \ {job[c].op} /\ gone' = gone \cup {job[c].op} /\ Become(c, Idle)
                     /\ UNCHANGED <<readonly, operators, sequences, derived, fed, asked, view, staged, events, complete, unfed, stale, missed>>

----------------------------------------------------------------------------
\* The main sequences are loaded again; the agents of a source block are started again and make monitors for `derived`.
Refresh == /\ view # derived /\ view' = derived
           /\ UNCHANGED <<readonly, operators, live, sequences, derived, fed, asked, staged, job, events, history>>
Restart(r) == /\ events < MaxEvents /\ events' = events + 1
              /\ fed' = {s \in fed : s[1] # r} \cup {r} \X derived[r] /\ fed' # fed
              /\ stale' = IF \E s \in fed \ fed' : s[1] = r THEN stale \cup {r} ELSE stale
              /\ unfed' = unfed \ fed'
              /\ UNCHANGED <<readonly, operators, live, sequences, derived, asked, view, staged, job, complete, gone, missed>>

Next == \/ \E c \in Callers : \/ CreateDerived(c) \/ Deploy(c) \/ Commit(c) \/ GiveUp(c) \/ Fail(c)
                              \/ Find(c) \/ Detach(c) \/ Drop(c) \/ DeleteOperator(c)
                              \/ \E name \in Names, r \in Rings : NewOperator(c, name, r)
                              \/ \E o \in live : Remove(c, o)
        \/ \E s \in asked : Backfill(s) \/ LoseBackfill(s)
        \/ Refresh \/ \E r \in Rings : Restart(r)
Spec == Init /\ [][Next]_dseqvars

----------------------------------------------------------------------------
Namesakes(o) == {p \in DOMAIN operators \ {o} : operators[p].name = operators[o].name}
Removed == {o \in DOMAIN operators : o \in gone \/ \E c \in Callers : job[c].op = o /\ job[c].pc \in {"find", "detach", "drop", "end"}}

\* Each sequence in the array of a main sequence, which is loaded together with them, has a record (Sequence.__load__()).
ArraysLoad == \A r \in Rings \ stale : \A o \in derived[r] : <<r, o>> \in sequences

\* Sequences that get the changes, or will if the call of $master.backfill that nobody awaits is not lost.
Requested == fed \cup asked \cup unfed

(* An operator whose creation has ended well has its sequence in its own ring and all above, and gets the changes, once the source
   has been called if the call is not lost, until it is removed, whatever else was created and removed at the same time
   (create_index()). *)
OperatorsAreServed ==
    \A o \in complete \ (Removed \cup missed) : \A r \in (operators[o].ring .. NRings) \ stale :
        Namesakes(o) = {} => o \in derived[r] /\ <<r, o>> \in Requested

(* Nothing is left of an operator that was removed, unless that failed, the process had not yet loaded the array with its
   sequence, or there was another one of its name (remove_operator()). *)
NothingIsLeft == \A o \in (gone \cap complete) \ missed : Namesakes(o) = {} => \A r \in Rings : <<r, o>> \notin sequences

SequencesAgree == ArraysLoad /\ OperatorsAreServed /\ NothingIsLeft
=============================================================================
