----------------------------- MODULE MergedScan -----------------------------
(* Scan of an index over all rings of a database: every ring has a sequence of its own for the index, and their records
   are merged by key. An object that was brought up to a higher ring has a record in both rings, usually with the same
   key; it should be listed once. The records of a ring are read in one go when the merge asks for the first one. *)
EXTENDS Integers, SequencesExt, FiniteSetsExt

CONSTANTS Keys,         \* binary keys of index records, as numbers in their order
          Rings,        \* 1 .. n, from the bottom of the stack to its top
          NoLimit,
          MaxOffset     \* bound

ScanAssumption == Keys \subseteq Nat /\ IsFiniteSet(Rings) /\ Rings = 1 .. Cardinality(Rings)

VARIABLES content,      \* [Rings -> sets of Keys]
          served,       \* rings that have the sequence, filled
          offset, limit,
          streams,      \* what is left of the rings that have not ended; the first records are the heads
          relation,     \* of the last record yielded and the lowest head, by the last round; 1: not compared yet
          out,          \* records yielded by the merge
          phase         \* "open", "merge", "done" or "failed"
scanvars == <<content, served, offset, limit, streams, relation, out, phase>>

\* A limit is also passed to the rings.
Stream(r) == LET keys == SetToSortSeq(content[r], <)
             IN [i \in 1 .. IF limit = NoLimit THEN Len(keys) ELSE Min({limit, Len(keys)}) |-> [key |-> keys[i], ring |-> r]]
Started(ss) == SelectSeq(ss, LAMBDA s : s # << >>)

Init == /\ content \in [Rings -> SUBSET Keys]
        /\ served \in {Rings} \cup {Rings \ {r} : r \in Rings}
        /\ offset \in 0 .. MaxOffset
        /\ limit \in {NoLimit} \cup 1 .. MaxOffset + 1
        /\ streams = << >> /\ relation = 1 /\ out = << >> /\ phase = "open"

\* The first records of all rings are awaited together; a ring without the sequence, or with one that is not filled, fails.
Open == /\ phase = "open"
        /\ phase' = IF served = Rings THEN "merge" ELSE "failed"
        /\ streams' = IF served = Rings THEN Started([r \in Rings |-> Stream(r)]) ELSE << >>
        /\ UNCHANGED <<content, served, offset, limit, relation, out>>

\* The lowest head, of the first stream if there are several, is yielded unless it repeats the record before.
Lowest == Min({i \in DOMAIN streams : \A j \in DOMAIN streams : streams[i][1].key <= streams[j][1].key})
Repeats_Never(record) == FALSE                                      \* mutant: records of other rings are not recognised
Repeats(record) == out # << >> /\ Last(out).key = record.key
Round == /\ phase = "merge"
         /\ Len(streams) > 1 \/ (Len(streams) = 1 /\ relation = 0)
         /\ LET record == streams[Lowest][1]
            IN /\ relation' = IF out = << >> THEN relation ELSE IF Last(out).key = record.key THEN 0 ELSE -1
               /\ out' = IF Repeats(record) THEN out ELSE Append(out, record)
         /\ streams' = Started([streams EXCEPT ![Lowest] = Tail(@)])
         /\ UNCHANGED <<content, served, offset, limit, phase>>

\* The only stream left is passed on as it is.
Forward == /\ phase = "merge"
           /\ Len(streams) <= 1 /\ ~(Len(streams) = 1 /\ relation = 0)
           /\ out' = out \o FlattenSeq(streams)
           /\ streams' = << >> /\ phase' = "done"
           /\ UNCHANGED <<content, served, offset, limit, relation>>

Next == Open \/ Round \/ Forward
Spec == Init /\ [][Next]_scanvars

\* What scan() hands out of the merged records
Scanned == SubSeq(out, offset + 1, IF limit = NoLimit THEN Len(out) ELSE Min({offset + limit, Len(out)}))

----------------------------------------------------------------------------
KeysOf(records) == [i \in DOMAIN records |-> records[i].key]
Union == SetToSortSeq(UNION {content[r] : r \in Rings}, <)
Holders(k) == {r \in Rings : k \in content[r]}

\* A key that ends all streams but one: two rings hold it, it is the last one of the lower ring, and all others ended before
Ends(r, k) == \A i \in DOMAIN Stream(r) : Stream(r)[i].key < k
TailTwice(k) == \E a, b \in Rings :
    /\ a < b
    /\ \E i \in DOMAIN Stream(b) : Stream(b)[i].key = k
    /\ Stream(a) # << >> /\ Last(Stream(a)).key = k
    /\ \A r \in Rings \ {a, b} : Ends(r, k)

\* The scan of an index hands out the records of all rings in the order of their keys, each key once, as stored in the
\* lowest ring (!) that has it, from an offset up to a limit; unless there are an offset and a limit at once, which cuts
\* the streams too early, or two rings end with the same key, see TailTwice.
ScanIsSlice ==
    phase = "done" /\ (offset = 0 \/ limit = NoLimit) /\ (\A k \in Keys : ~TailTwice(k)) =>
        /\ KeysOf(Scanned) = SubSeq(Union, offset + 1, IF limit = NoLimit THEN Len(Union) ELSE Min({limit, Len(Union)}))
        /\ \A i \in DOMAIN Scanned : Scanned[i].ring = Min(Holders(Scanned[i].key))

\* "If equal entries occur in different streams, only the youngest one is included in the output" (utils.js 625).
EqualEntriesOnce == \A i, j \in DOMAIN out : out[i].key = out[j].key => i = j
=============================================================================
