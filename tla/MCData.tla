------------------------------- MODULE MCData -------------------------------
(* Instances of the modules about data at rest, side by side: `part` picks one of them, and the variables of the others
   keep one value, in which none of their fair steps is enabled. *)
EXTENDS Integers, Sequences

CONSTANTS None, NoLimit, NullField, Full,
          StoreKeys, StoreValues, MaxOpens, MaxWrites,      \* BlockStore
          MaxOffset,                                        \* MergedScan
          NKeys, Limit, MaxRestarts, MaxLosses, MaxRebuilds,    \* BackfillProgress
          Objects, Groups, MaxChanges,                      \* Aggregates
          Missing, MaxLength, MaxEdits,                     \* Catalog
          Base, MaxBytes,                                   \* SortableKeys
          MaxObjects, LinkEnds, MaxCalls, MaxErrors,        \* ObjectLoading
          Versioned, Deps, Settings, Processes, Home, MaxUpdates    \* Revisions

VARIABLES part,
          file, stores, running, answered, early, opens, writes,
          content, served, offset, limit, streams, relation, out, phase,
          request, listed, progress, backup, edits, ranges, filled, loaded, sent, saved, lost, outdated, used,
          source, acc, ops, reading, changes,
          cats, broken, made, turns,
          types, key,
          links, corrupt, cached, stage, awaits, hurt, calls, errors,
          set, record, revisions, copies, scanned, update, updates, kept, blind, overwritten

storevars == <<file, stores, running, answered, early, opens, writes>>
scanvars == <<content, served, offset, limit, streams, relation, out, phase>>
backfillvars == <<request, listed, progress, backup, edits, ranges, filled, loaded, sent, saved, lost, outdated, used>>
aggvars == <<source, acc, ops, reading, changes>>
catvars == <<cats, broken, made, turns>>
keyvars == <<types, key>>
loadvars == <<links, corrupt, cached, stage, awaits, hurt, calls, errors>>
revisionvars == <<set, record, revisions, copies, scanned, update, updates, kept, blind, overwritten>>
vars == <<part, storevars, scanvars, backfillvars, aggvars, catvars, keyvars, loadvars, revisionvars>>

Store == INSTANCE BlockStore WITH Keys <- StoreKeys, Values <- StoreValues
\* Three rings over three keys.
Scan == INSTANCE MergedScan WITH Keys <- 1 .. 3, Rings <- 1 .. 3
Fill == INSTANCE BackfillProgress WITH offset <- progress, file <- backup
Agg == INSTANCE Aggregates WITH Amounts <- {0, 1}, sent <- ops
\* Two keys, one of them the string of an array index.
Cat == INSTANCE Catalog WITH Keys <- {"k", "7"}, Numeric <- {"7"}, Null <- Missing, Values <- {1, 2}, edits <- turns
Sort == INSTANCE SortableKeys WITH Null <- NullField

WebObjects == 1 .. MaxObjects
\* Objects with a prototype and another link of any kind between them, or three links in a circle, or one of an object to
\* itself. The prototype and its object are two of LinkEnds; as objects can be renamed, {1, 2} loses nothing.
Link == [of : WebObjects, kind : {"proto", "category", "autoload"}, to : WebObjects]
Between == {l \in Link : l.of # l.to}
SomeLinks == {{l, m} : l \in {k \in Between : k.kind = "proto" /\ {k.of, k.to} \subseteq LinkEnds}, m \in Between}
             \cup {{l} : l \in Link \ Between}
             \cup {s \in {{l, m, n} : l, m, n \in {k \in Between : k.kind = "autoload"}} :
                       \A o \in WebObjects : \E l, m \in s : l.of = o /\ m.to = o}
Load == INSTANCE ObjectLoading WITH Objects <- WebObjects, Links <- SomeLinks

\* An object and its prototype, with versions, revisions and seals of both, of the prototype, or of none
MCDeps == <<<< >>, <<1>>>>
MCSettings == {[numbered |-> 1 .. 2, archived |-> a, sealing |-> s] : a, s \in {{}, {1}, {1, 2}}}
              \cup {[numbered |-> {}, archived |-> {1}, sealing |-> {}]}
Vers == INSTANCE Revisions WITH Objects <- Versioned, NoSeal <- None, job <- update, saved <- kept, outdated <- overwritten

\* Keys of one or two fields of four types, over all values that can be written, and bounds of one field or none
FieldTypes == {[signed |-> FALSE, length |-> 0], [signed |-> FALSE, length |-> 1],
               [signed |-> TRUE, length |-> 1], [signed |-> TRUE, length |-> 2]}
ValuesOf(t) == IF t.length = 0 THEN 0 .. 20
               ELSE IF t.signed THEN -Sort!Shift(t.length) .. Sort!Shift(t.length) - 1 ELSE 0 .. Base ^ t.length - 1
KeysOf(ts) == {<< >>} \cup {<<v>> : v \in ValuesOf(ts[1])}
              \cup (IF Len(ts) = 1 THEN {} ELSE {<<v, w>> : v \in ValuesOf(ts[1]), w \in ValuesOf(ts[2])})

ASSUME DataAssumption == /\ Store!StoreAssumption /\ Scan!ScanAssumption /\ Fill!BackfillProgressAssumption
                         /\ Agg!AggregatesAssumption /\ Cat!CatalogAssumption /\ Sort!KeysAssumption
                         /\ Load!LoadingAssumption /\ Vers!RevisionsAssumption

FillAtRest == /\ request = FALSE /\ listed = TRUE /\ progress = Fill!Null /\ backup = Fill!NoFile /\ edits = {} /\ ranges = << >>
              /\ filled = TRUE /\ loaded = TRUE /\ sent = Fill!Keys /\ saved = {} /\ lost = FALSE /\ outdated = FALSE
              /\ used = [restarts |-> 0, losses |-> 0, rebuilds |-> 0]

Init == /\ part \in {"store", "scan", "backfill", "aggregates", "catalog", "keys", "loading", "revisions"}
        /\ Store!Init /\ Agg!Init /\ Cat!Init
        /\ Scan!Init /\ (part # "scan" => content = <<{}, {}, {}>> /\ served = {1, 2, 3} /\ offset = 0 /\ limit = NoLimit)
        /\ IF part = "backfill" THEN Fill!Init ELSE FillAtRest
        /\ IF part = "keys" THEN /\ types \in {<<s>> : s \in FieldTypes} \cup {<<s, t>> : s, t \in FieldTypes}
                                 /\ key \in KeysOf(types)
           ELSE types = << >> /\ key = << >>
        /\ Load!Init /\ (part # "loading" => links = {[of |-> 1, kind |-> "proto", to |-> 1]} /\ corrupt = {})
        /\ Vers!Init /\ (part # "revisions" => set.numbered = {})

Next == \/ part = "store" /\ Store!Next
           /\ UNCHANGED <<part, scanvars, backfillvars, aggvars, catvars, keyvars, loadvars, revisionvars>>
        \/ part = "scan" /\ Scan!Next
           /\ UNCHANGED <<part, storevars, backfillvars, aggvars, catvars, keyvars, loadvars, revisionvars>>
        \/ part = "backfill" /\ Fill!Next
           /\ UNCHANGED <<part, storevars, scanvars, aggvars, catvars, keyvars, loadvars, revisionvars>>
        \/ part = "aggregates" /\ Agg!Next
           /\ UNCHANGED <<part, storevars, scanvars, backfillvars, catvars, keyvars, loadvars, revisionvars>>
        \/ part = "catalog" /\ Cat!Next
           /\ UNCHANGED <<part, storevars, scanvars, backfillvars, aggvars, keyvars, loadvars, revisionvars>>
        \/ part = "loading" /\ Load!Next
           /\ UNCHANGED <<part, storevars, scanvars, backfillvars, aggvars, catvars, keyvars, revisionvars>>
        \/ part = "revisions" /\ Vers!Next
           /\ UNCHANGED <<part, storevars, scanvars, backfillvars, aggvars, catvars, keyvars, loadvars>>
Spec == Init /\ [][Next]_vars /\ Store!Fairness /\ Fill!Fairness /\ Load!Fairness

----------------------------------------------------------------------------
\* A store holds what was answered (BlockStore).
NothingLost == Store!NothingLost
\* Changes are saved (BlockStore).
ChangesAreSaved == Store!ChangesAreSaved

\* A scan of a store hands out its records in order (BlockStore), and so does one of all rings, once each, with some
\* exceptions (MergedScan).
ScanIsSlice == (part = "store" => Store!ScanIsRange) /\ (part = "scan" => Scan!ScanIsSlice)
\* The comment of merge_streams() that among equal elements only the first is returned (MergedScan).
EqualEntriesOnce == part = "scan" => Scan!EqualEntriesOnce

\* A filled sequence was sent all records (BackfillProgress).
FilledIsComplete == Fill!FilledIsComplete
\* Backfills end (BackfillProgress).
FillsUnlessDisturbed == Fill!FillsUnlessDisturbed

\* Accumulators follow the objects of their group (Aggregates).
AggregateFollows == part = "aggregates" => Agg!AggregateFollows

\* The index of a catalog agrees with its entries, and a catalog is read back as it was (Catalog).
CatalogsAreSound == Cat!IndexAgrees /\ (part = "catalog" => Cat!RestoredAsStored)

\* The bytes of keys sort like the keys, which can be read back (SortableKeys).
KeysSort == part = "keys" => Sort!KeySortsAmong(types, key, KeysOf(types))

\* Active objects are complete (ObjectLoading).
ActiveIsComplete == part = "loading" => Load!ActiveIsComplete
\* Loads end unless the links lead to a circle (ObjectLoading).
LoadsEndUnlessCircular == Load!LoadsEndUnlessCircular

\* Versions come back, and checks of versions hold (Revisions).
VersionsAreSound == part = "revisions" => Vers!VersionsAreSound
=============================================================================
