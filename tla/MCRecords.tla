----------------------------- MODULE MCRecords -----------------------------
(* Instances of the modules about the records of objects and what happens to them, side by side, for any constants: the
   invariants that RecordProofs is about. MCObjects gives the constants values and adds other modules; `part` picks one. *)
EXTENDS Integers, Sequences

CONSTANTS Missing, NRings,
          Threads, Old, MaxId, MaxObjs, MaxEdits,                             \* Session
          NGiven, MaxCopy, Databases, Unwritable, Lists, MaxTouches,           \* Reinsertion
          OpNames, ReadOnly, MaxOperators, MaxEvents                            \* DerivedSequences

VARIABLES part,
          lite, committed, inst, staging, held, job, ops, mode, records, lastid, accepted, told, slipped, overlap,
          fixed, rings, todo, to, pc, taken, new, at, write, doomed, moved, changes, wanted, caught, late,
          older, outdated,
          locked, operators, live, sequences, derived, fed, asked, view, staged, work, events, complete, gone,
          unfed, stale, missed

sessionvars == <<lite, committed, inst, staging, held, job, ops, mode, records, lastid, accepted, told, slipped, overlap>>
reinsertvars == <<fixed, rings, todo, to, pc, taken, new, at, write, doomed, moved, changes, wanted, caught, late,
                 older, outdated>>
sequencevars == <<locked, operators, live, sequences, derived, fed, asked, view, staged, work, events, complete, gone, unfed,
                  stale, missed>>
recordvars == <<reinsertvars, sequencevars>>

Sess == INSTANCE Session
Move == INSTANCE Reinsertion WITH
           Given <- NGiven, MaxId <- MaxCopy, ReadOnly <- Unwritable, None <- Missing, MaxEdits <- MaxTouches,
           readonly <- fixed, copy <- taken, data <- write, edits <- changes, accepted <- wanted
Seqs == INSTANCE DerivedSequences WITH Names <- OpNames, Callers <- Threads, readonly <- locked, job <- work

ASSUME RecordsAssumption == Sess!SessionAssumption /\ Move!ReinsertionAssumption /\ Seqs!SequencesAssumption

----------------------------------------------------------------------------
\* Accepted edits do not vanish (Session).
EditsAccounted == part = "session" => Sess!EditsAccounted
\* After a save the edits are saved (Session).
SaveMeansSaved == Sess!SaveMeansSaved
\* Moving objects keeps edits and leaves no old references (Reinsertion).
MovesAreSound == part = "reinsertion" => Move!MovesAreSound
\* Operators have their sequences, and removed ones have none (DerivedSequences).
SequencesAgree == part = "sequences" => Seqs!SequencesAgree
=============================================================================
