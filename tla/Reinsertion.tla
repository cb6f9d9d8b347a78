----------------------------- MODULE Reinsertion -----------------------------
(* Moving objects to other ids or rings (schemat/db/db.js: act.admin_reinsert, _update_references; schemat/common/catalog.js:
   Struct.transform) and the deletion of what an object strongly refers to (schemat/db/block.js: $master.delete,
   _cascade_delete), while clients edit the same objects. A copy is inserted, then all records of all rings are scanned and
   those with references to the old id are overwritten, then the old record is deleted. There are no locks and no rollback. *)
EXTENDS Naturals, FiniteSetsExt, SequencesExt

CONSTANTS NRings,       \* rings are 1 .. NRings, from bottom to top
          Given,        \* ids of the objects there are at first, 1 .. Given; and of those inserted, Given + 1 .. MaxId
          MaxId,
          Databases,    \* contents of the rings: [1 .. NRings -> [subset of ids -> record]]
          ReadOnly,     \* sets of rings that are read-only
          Lists,        \* lists of ids to move
          None,
          MaxEdits      \* bound

\* Records at first: nobody has edited them.
Records == [edits : {{}}, refs : SUBSET ({"weak", "strong", "like"} \X Nat), nulls : BOOLEAN]
ReinsertionAssumption == /\ NRings \in Nat \ {0} /\ Given \in Nat /\ MaxId \in Nat /\ Given <= MaxId /\ MaxEdits \in Nat
                         /\ \A list \in Lists : list \in Seq(1 .. Given)
                         /\ \A db \in Databases : /\ DOMAIN db = 1 .. NRings
                                                  /\ \A r \in 1 .. NRings : /\ DOMAIN db[r] \subseteq 1 .. Given
                                                                           /\ \A id \in DOMAIN db[r] : db[r][id] \in Records

VARIABLES readonly,
          rings,        \* rings[r][id]: record [edits, refs, nulls]; refs are pairs <<kind, id>>, kind is "weak", "strong" or "like",
                        \* this one for a value that is no web object but has the same `id`; nulls: is there a null among the values
          todo, to,     \* arguments: list of ids, and [ring, id], where id 0 asks for a new one
          pc, copy, new,
          at, data,     \* place <<ring, id>> of the record that is being scanned, and the data that goes there
          doomed,       \* objects to be deleted as their last strong reference was, when the session is committed
          moved,        \* [old ids -> new ids]
          older,        \* records that the objects of the list had before, which may still be cached somewhere
          edits, accepted, caught, late,   \* history: edits of each object; objects edited or deleted while their data was
                                           \* on its way; objects edited after a scan began, and copied from a read-only
                                           \* ring or a cached instance after the first scan
          outdated                         \* and objects copied from an older instance, or edited before the copy was inserted
reinsvars == <<readonly, rings, todo, to, pc, copy, new, at, data, doomed, moved, older, edits, accepted, caught, late, outdated>>

Rings == 1 .. NRings
Ids == 1 .. MaxId
Has(r, id) == id \in DOMAIN rings[r]
Holders(id) == {r \in Rings : Has(r, id)}
Top(id) == Max(Holders(id))
Put(r, id, rec) == [rings EXCEPT ![r] = [i \in DOMAIN @ \cup {id} |-> IF i = id THEN rec ELSE @[i]]]
Without(r, id) == [rings EXCEPT ![r] = [i \in DOMAIN @ \ {id} |-> @[i]]]

\* Struct.transform() puts a reference to the new object in place of any value whose `id` is the old one, and drops nulls.
Renamed(ref, old, by) == IF ref[2] = old THEN <<IF ref[1] = "strong" THEN "strong" ELSE "weak", by>> ELSE ref
Transform(rec, old, by) == [edits |-> rec.edits, refs |-> {Renamed(ref, old, by) : ref \in rec.refs}, nulls |-> FALSE]

Init == /\ readonly \in ReadOnly /\ rings \in Databases /\ todo \in Lists
        /\ to \in Rings \X (0 .. Given) /\ (Len(todo) > 1 => to[2] = 0)
        /\ to[2] \in {0} \cup {i \in Ids : i \in ToSet(todo) \/ Holders(i) = {}}
        /\ pc = "load" /\ copy = None /\ new = 0 /\ at = <<1, 1>> /\ data = None /\ doomed = {} /\ moved = << >>
        /\ edits = 0 /\ accepted = [id \in Ids |-> {}] /\ caught = {} /\ late = {}
        /\ older = [id \in Ids |-> {}] /\ outdated = {}
history == <<edits, accepted, caught, late>>
arguments == <<readonly, to>>

----------------------------------------------------------------------------
\* One object after another: the first of the list is loaded, unless there is none. The process may have an instance of it in its
\* cache that was loaded before the record was changed: then that one is taken.
OldId == Head(todo)
Current(id) == rings[Top(id)][id]
Waiting == {todo[i] : i \in {i \in DOMAIN todo : pc = "load" \/ i > 1}}
Replaced(id) == older' = IF id \in Waiting THEN [older EXCEPT ![id] = @ \cup {Current(id)}] ELSE older
Load == /\ pc = "load" /\ todo # << >>
        /\ IF Holders(OldId) = {} THEN todo' = Tail(todo) /\ UNCHANGED <<pc, copy, outdated>>
           ELSE /\ \E rec \in older[OldId] \cup {Current(OldId)} :
                      /\ copy' = rec
                      /\ outdated' = IF rec = Current(OldId) THEN outdated ELSE outdated \cup {OldId}
                /\ pc' = "insert" /\ UNCHANGED todo
        /\ older' = [older EXCEPT ![OldId] = {}]
        /\ UNCHANGED <<arguments, rings, new, at, data, doomed, moved, history>>
Fail == pc' = "failed" /\ UNCHANGED <<arguments, rings, todo, copy, new, at, data, doomed, moved, older, history, outdated>>

\* The new object is to have the edits that were accepted for the old one, but those of a record in a lower ring if the list
\* names the object a second time. ring.insert() of the copy, whose references to provisional ids are looked for in the same way, $master.insert(). Ids are
\* bounded by MaxId, so that nothing is inserted when none is free.
Free == {i \in Given + 1 .. MaxId : Holders(i) = {}}
Fresh == Min(Free)
Target == IF to[2] # 0 THEN to[2] ELSE Fresh
Refused == to[1] \in readonly \/ Has(to[1], Target)
Insert == /\ pc = "insert" /\ ~Refused /\ (to[2] # 0 \/ Free # {})
          /\ rings' = Put(to[1], Target, Transform(copy, 0, 0))
          /\ new' = Target /\ at' = <<1, 1>>
          /\ accepted' = [accepted EXCEPT ![Target] = @ \cup IF \E m \in ToSet(moved) : m[1] = OldId THEN copy.edits
                                                            ELSE accepted[OldId]]
          /\ outdated' = IF OldId \in caught \cup outdated THEN outdated \cup {Target} ELSE outdated
          /\ pc' = IF Target = OldId THEN "delete" ELSE "scan"
          /\ late' = IF OldId \in late \/ (moved # << >> /\ (OldId \in outdated \/ Top(OldId) \in readonly))
                      THEN late \cup {Target} ELSE late
          /\ UNCHANGED <<arguments, todo, copy, data, doomed, moved, older, edits, caught>>
InsertRefused == pc = "insert" /\ Refused /\ Fail

\* _update_references(): each record of each ring, from the bottom
After(p) == IF p[2] < MaxId THEN <<p[1], p[2] + 1>> ELSE <<p[1] + 1, 1>>
Here == rings[at[1]][at[2]]
Changes == Has(at[1], at[2]) /\ Transform(Here, OldId, new) # Here
Scan == /\ pc = "scan" /\ at[1] <= NRings
        /\ IF Changes /\ at[1] \notin readonly THEN data' = Transform(Here, OldId, new) /\ pc' = "write" /\ UNCHANGED at
           ELSE at' = After(at) /\ UNCHANGED <<pc, data>>
        /\ UNCHANGED <<arguments, rings, todo, copy, new, doomed, moved, older, history, outdated>>
Scanned_Bottom == at[1] > 1                  \* mutant: only the bottom ring
Scanned == at[1] > NRings
ScanEnds == /\ pc = "scan" /\ Scanned /\ pc' = "delete"
            /\ UNCHANGED <<arguments, rings, todo, copy, new, at, data, doomed, moved, older, history, outdated>>
\* edit.overwrite() in the same ring, where nobody has deleted the record
Write == /\ pc = "write"
         /\ rings' = Put(at[1], at[2], data) /\ at' = After(at) /\ pc' = "scan"
         /\ Replaced(at[2])
         /\ UNCHANGED <<arguments, todo, copy, new, data, doomed, moved, history, outdated>>

\* $master.delete() of the topmost record, with all that it strongly refers to
Strong(rec) == {ref[2] : ref \in {x \in rec.refs : x[1] = "strong"}}
Deleted(id) == IF Holders(id) = {} THEN UNCHANGED <<rings, doomed>>
               ELSE rings' = Without(Top(id), id) /\ doomed' = (doomed \ {id}) \cup Strong(rings[Top(id)][id])
Fixed(id) == Holders(id) # {} /\ Top(id) \in readonly
Delete == /\ pc = "delete" /\ ~Fixed(OldId) /\ Deleted(OldId)
          /\ moved' = Append(moved, <<OldId, new>>) /\ todo' = Tail(todo) /\ pc' = "load"
          /\ UNCHANGED <<arguments, copy, new, at, data, older, history, outdated>>
DeleteRefused == pc = "delete" /\ Fixed(OldId) /\ Fail

\* The deletions staged in the session are done at the end, and lead to others.
Cascade(id) == /\ pc = "load" /\ todo = << >> /\ id \in doomed /\ ~Fixed(id)
               /\ IF Holders(id) = {} THEN doomed' = doomed \ {id} /\ UNCHANGED rings ELSE Deleted(id)
               /\ caught' = caught \cup {id}
               /\ UNCHANGED <<arguments, todo, pc, copy, new, at, data, moved, older, edits, accepted, late, outdated>>
CascadeRefused == pc = "load" /\ todo = << >> /\ (\E id \in doomed : Fixed(id)) /\ Fail

\* A client edits an object, and may add a reference; above the record's ring if this one is read-only.
Writable(id) == {r \in Top(id) .. NRings : r \notin readonly}
OnItsWay(id) == (pc = "write" /\ id = at[2]) \/ (pc \in {"insert", "scan", "write", "delete"} /\ id \in {OldId, new})
Edit(id, ref) ==
    /\ edits < MaxEdits /\ Holders(id) # {} /\ Writable(id) # {}
    /\ LET rec == rings[Top(id)][id]
       IN rings' = Put(Min(Writable(id)), id, [rec EXCEPT !.edits = @ \cup {edits + 1}, !.refs = @ \cup ref])
    /\ Replaced(id)
    /\ edits' = edits + 1
    /\ accepted' = [accepted EXCEPT ![id] = @ \cup {edits + 1}]
    /\ caught' = IF OnItsWay(id) THEN caught \cup {id} ELSE caught
    /\ late' = IF pc \in {"scan", "write", "delete"} \/ moved # << >> THEN late \cup {id} ELSE late
    /\ UNCHANGED <<arguments, todo, pc, copy, new, at, data, doomed, moved, outdated>>

Next == \/ Load \/ Insert \/ InsertRefused \/ Scan \/ ScanEnds \/ Write \/ Delete \/ DeleteRefused \/ CascadeRefused
        \/ \E id \in Ids : Cascade(id) \/ \E ref \in {{}, {<<"weak", 1>>}} : Edit(id, ref)
Spec == Init /\ [][Next]_reinsvars

----------------------------------------------------------------------------
Done == pc = "load" /\ todo = << >> /\ doomed = {}
Moves == {m \in ToSet(moved) : m[1] # m[2]}

\* Nothing that can be written refers to an id that is no more, except for what was edited meanwhile, and for a copy
\* made of an older instance after another object was moved (_update_references()).
NoReferenceLeft == Done => \A r \in Rings \ readonly : \A id \in DOMAIN rings[r] \ late : \A m \in Moves :
                              \A ref \in rings[r][id].refs : ref[2] # m[1]

(* An edit is in the record of its object, or of the one that took its place, unless data of the object was on its way when the
   edit came, or the object was copied from an older instance, from the cache of the process. Records in lower rings of what was deleted from a higher one are left out, and a record between the two rings
   of an object that was put into a lower one. *)
Between(id) == <<id, id>> \in ToSet(moved) /\ Top(id) > to[1]
EditsKept == Done => \A id \in Ids \ (caught \cup outdated \cup {m[1] : m \in Moves}) :
                        Holders(id) # {} /\ ~Between(id) => accepted[id] \subseteq rings[Top(id)][id].edits

\* What was moved is in its new place, unless something that was deleted strongly referred to it.
MovedIsThere == Done => \A m \in ToSet(moved) : m[2] \in caught \/ Holders(m[2]) # {}

MovesAreSound == NoReferenceLeft /\ EditsKept /\ MovedIsThere
=============================================================================
