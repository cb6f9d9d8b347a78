------------------------------ MODULE Session ------------------------------
(* A session: the objects mutated in it and not saved yet (`_staging`), and the way their edits take to the database.
   Several asynchronous flows ("threads") share one session: all that runs outside a transaction in a process shares
   its lite session, and the calls of one request share a transaction. A record is the sequence of the edits applied to
   it, and an edit is the number of its acceptance, so that the order and the loss of edits can be read off a record;
   the content a newborn is made with counts as its first edit. An instance is one mutable copy of an object. *)
EXTENDS Integers, SequencesExt, FiniteSetsExt

CONSTANTS Threads,      \* asynchronous flows that use the session
          Old,          \* ids of the records that exist at the start, 1 .. Old
          MaxId,        \* bound: the largest id that is assigned
          MaxObjs,      \* bound: mutable instances ever created
          MaxEdits      \* bound: edits ever accepted

SessionAssumption == /\ Old \in Nat /\ MaxId \in Nat /\ Old <= MaxId
                            /\ MaxObjs \in Nat /\ MaxEdits \in Nat
                            /\ Threads \cap {"off", "dead", "nobody"} = {}

VARIABLES lite,         \* is this the lite session, shared with the data block of the process
          committed,    \* the transaction was committed
          inst,         \* the instances: id, provisional id, unsaved edits, DELETED status, obsolete flag
          staging,      \* positions in inst of the staged instances
          held,         \* the instance each thread works with, 0 if none
          job,          \* the save each thread is executing
          ops,          \* updates and deletions on their way to the data blocks
          mode,         \* insert mode of the block's session: "off", the thread whose insert runs, or "dead"
          records,      \* the database: edits of each record, << >> when there is none
          lastid,       \* the last id assigned by the block
          accepted,     \* number of edits accepted
          told,         \* edits dropped with notice: a save that failed, a revert, a deletion
          slipped,      \* edits accepted but never to be saved
          overlap       \* ids on which two saves were on their way at a time
vars == <<lite, committed, inst, staging, held, job, ops, mode, records, lastid, accepted, told, slipped, overlap>>
hist == <<accepted, told, slipped, overlap>>

Idle == [pc |-> "idle"]
Staged(id)    == {o \in staging : inst[o].id = id}
Newborn(o)    == inst[o].id = 0
EditsOf(os)   == UNION {ToSet(inst[o].edits) : o \in os}
Drop(os)      == [o \in DOMAIN inst |-> IF o \in os THEN [inst[o] EXCEPT !.obsolete = TRUE] ELSE inst[o]]
Instance(id, edits, inblock) == [id |-> id, edits |-> edits, inblock |-> inblock, deleted |-> FALSE, obsolete |-> FALSE]

\* _pending(): staged objects that have anything to be saved
Pending_Edited == {o \in staging : ~Newborn(o) /\ (inst[o].deleted \/ inst[o].edits # << >>)}
Pending == {o \in staging : \/ Newborn(o) /\ ~inst[o].deleted
                            \/ ~Newborn(o) /\ (inst[o].deleted \/ inst[o].edits # << >>)}

Init == /\ lite \in BOOLEAN /\ committed = FALSE
        /\ inst = << >> /\ staging = {} /\ held = [t \in Threads |-> 0] /\ job = [t \in Threads |-> Idle]
        /\ ops = {} /\ mode = "off" /\ lastid = Old
        /\ records = [id \in 1 .. MaxId |-> IF id <= Old THEN <<0>> ELSE << >>]
        /\ accepted = 0 /\ told = {} /\ slipped = {} /\ overlap = {}

----------------------------------------------------------------------------
(* Staging. *)

\* get_mutable(): a staged copy with unsaved edits is shared; one without is replaced by a new clone, and becomes obsolete
Replaces_Any(o) == TRUE
Replaces(o) == inst[o].edits = << >>
GetMutable(t, id) ==
    /\ job[t] = Idle
    /\ \/ \E o \in Staged(id) : ~Replaces(o) /\ held' = [held EXCEPT ![t] = o] /\ UNCHANGED <<inst, staging>>
       \/ /\ \A o \in Staged(id) : Replaces(o)
          /\ ~committed /\ Len(inst) < MaxObjs
          /\ inst' = Append(Drop(Staged(id)), Instance(id, << >>, FALSE))
          /\ staging' = (staging \ Staged(id)) \cup {Len(inst) + 1}
          /\ held' = [held EXCEPT ![t] = Len(inst) + 1]
    /\ UNCHANGED <<lite, committed, job, ops, mode, records, lastid, hist>>

\* a newborn is staged under a provisional id; in insert mode it goes to the block, which gives it an id at once
CreateStaged(t) ==
    /\ job[t] = Idle /\ ~committed /\ Len(inst) < MaxObjs /\ accepted < MaxEdits
    /\ ~(lite /\ mode # "off")
    /\ inst' = Append(inst, Instance(0, <<accepted + 1>>, FALSE))
    /\ staging' = staging \cup {Len(inst) + 1}
    /\ held' = [held EXCEPT ![t] = Len(inst) + 1]
    /\ accepted' = accepted + 1
    /\ UNCHANGED <<lite, committed, job, ops, mode, records, lastid, told, slipped, overlap>>

\* on_newborn_created(); the callback of an insert that failed is still there, and nobody reads the list it fills
CreateInBlock(t) ==
    /\ job[t] = Idle /\ ~committed /\ Len(inst) < MaxObjs /\ accepted < MaxEdits
    /\ lite /\ mode # "off" /\ lastid < MaxId
    /\ lastid' = lastid + 1
    /\ inst' = Append(inst, Instance(lastid + 1, <<accepted + 1>>, TRUE))
    /\ held' = [held EXCEPT ![t] = Len(inst) + 1]
    /\ accepted' = accepted + 1
    /\ job' = IF mode = "dead" THEN job
              ELSE [job EXCEPT ![mode].queue = Append(@, [id |-> lastid + 1, of |-> Len(inst) + 1, data |-> << >>])]
    /\ slipped' = IF mode = "dead" THEN slipped \cup {accepted + 1} ELSE slipped
    /\ UNCHANGED <<lite, committed, staging, ops, mode, records, told, overlap>>

\* is the instance waiting in the queue of a running insert, to be serialised when its turn comes
Queued(o) == \E t \in Threads : job[t].pc = "store" /\ \E i \in DOMAIN job[t].queue : job[t].queue[i].of = o

\* _make_edit(): refused on an obsolete or deleted instance; one that is neither staged nor queued takes it to nowhere
Edit(t) ==
    /\ job[t] = Idle /\ held[t] # 0 /\ accepted < MaxEdits
    /\ ~inst[held[t]].obsolete /\ ~inst[held[t]].deleted
    /\ accepted' = accepted + 1
    /\ IF held[t] \in staging \/ Queued(held[t])
       THEN /\ inst' = [inst EXCEPT ![held[t]].edits = Append(@, accepted + 1)]
            /\ UNCHANGED slipped
       ELSE /\ slipped' = slipped \cup {accepted + 1}
            /\ UNCHANGED inst
    /\ UNCHANGED <<lite, committed, staging, held, job, ops, mode, records, lastid, told, overlap>>

\* delete_self()
Delete(t) ==
    /\ job[t] = Idle /\ held[t] \in staging /\ ~inst[held[t]].deleted
    /\ inst' = [inst EXCEPT ![held[t]].deleted = TRUE]
    /\ UNCHANGED <<lite, committed, staging, held, job, ops, mode, records, lastid, hist>>

Revert(t) ==
    /\ job[t] = Idle /\ staging # {}
    /\ inst' = Drop(staging) /\ staging' = {} /\ told' = told \cup EditsOf(staging)
    /\ UNCHANGED <<lite, committed, held, job, ops, mode, records, lastid, accepted, slipped, overlap>>

----------------------------------------------------------------------------
(* save(): unwrap the objects into plain data, mark or clear them, and only then send the data to the database. *)

Cleared_Never(discard, edited, newborn, gone) ==
    [o \in DOMAIN inst |-> IF o \in gone THEN [inst[o] EXCEPT !.obsolete = TRUE] ELSE inst[o]]
Cleared(discard, edited, newborn, gone) ==      \* the instances after unwrapping
    [o \in DOMAIN inst |->
        IF o \in gone \cup (IF discard THEN edited \cup newborn ELSE {}) THEN [inst[o] EXCEPT !.obsolete = TRUE, !.edits = << >>]
        ELSE IF o \in edited \cup newborn THEN [inst[o] EXCEPT !.edits = << >>] ELSE inst[o]]

Sending == {m.id : m \in ops \cup UNION {job[t].sent : t \in {u \in Threads : job[u].pc \in {"insert", "store"}}}}

\* what is saved of the objects `os` by thread t; `all` is the loop of save_all(), `before` the edits its caller had made
Submit(t, os, discard, all, before) ==
    LET void    == {o \in os : Newborn(o) /\ inst[o].deleted}
        newborn == {o \in os : Newborn(o) /\ ~inst[o].deleted}
        deleted == {o \in os : ~Newborn(o) /\ inst[o].deleted}
        edited  == {o \in os : ~Newborn(o) /\ ~inst[o].deleted /\ inst[o].edits # << >>}
        sent    == {[op |-> "upd", id |-> inst[o].id, edits |-> inst[o].edits, by |-> t] : o \in edited}
    IN \E born \in [1 .. Cardinality(newborn) -> newborn] :         \* in the order of their creation
       /\ ToSet(born) = newborn /\ \A i, j \in DOMAIN born : i < j => born[i] < born[j]
       /\ inst' = Cleared(discard, edited, newborn, void \cup deleted \cup IF discard THEN os ELSE {})
       /\ staging' = staging \ (newborn \cup void \cup deleted \cup IF discard THEN os ELSE {})
       /\ told' = told \cup EditsOf(void \cup deleted)
       /\ ops' = ops \cup {[op |-> "del", id |-> inst[o].id, edits |-> << >>, by |-> t] : o \in deleted}
       /\ job' = [job EXCEPT ![t] = [pc |-> "insert", discard |-> discard, all |-> all, before |-> before, sent |-> sent,
                                     queue |-> [i \in DOMAIN born |-> [id |-> 0, of |-> 0, data |-> inst[born[i]].edits]],
                                     born |-> born, ids |-> << >>]]
       /\ overlap' = overlap \cup {inst[o].id : o \in {p \in edited \cup deleted : inst[p].id \in Sending}}

\* obj.save() of one staged object; of one that is not staged it throws
SaveOne(t) ==
    /\ job[t] = Idle /\ held[t] \in staging
    /\ Submit(t, {held[t]}, FALSE, FALSE, {})
    /\ UNCHANGED <<lite, committed, held, mode, records, lastid, accepted, slipped>>

\* save_all(), and flush() which discards every staged object
SaveAll(t, discard) ==
    /\ job[t] = Idle
    /\ LET os == IF discard THEN staging ELSE Pending
       IN os # {} /\ Submit(t, os, discard, TRUE, EditsOf({o \in staging : ~inst[o].deleted}))
    /\ UNCHANGED <<lite, committed, held, mode, records, lastid, accepted, slipped>>

\* commit() of a transaction: what it had flushed is saved, and nothing may be staged any more
Commit(t) ==
    /\ ~lite /\ ~committed /\ job[t] = Idle /\ staging = {}
    /\ committed' = TRUE
    /\ UNCHANGED <<lite, inst, staging, held, job, ops, mode, records, lastid, hist>>

\* execute() fails: the rest of its operations go on, nobody waits for them, and no edit is put back
Abort(t, lost) ==
    /\ ops' = {[m EXCEPT !.by = IF @ = t THEN "nobody" ELSE @] : m \in ops}
    /\ job' = [job EXCEPT ![t] = Idle]
    /\ told' = told \cup lost

QueuedEdits(t) == UNION {IF q.of = 0 THEN ToSet(q.data) ELSE ToSet(inst[q.of].edits) : q \in ToSet(job[t].queue)}
SentEdits(t)   == UNION {ToSet(m.edits) : m \in job[t].sent}

\* the block gives ids to all newborns and puts its session in insert mode; a lite one must not be in that mode already
BeginInsert(t) ==
    /\ job[t].pc = "insert" /\ job[t].queue # << >>
    /\ lastid + Len(job[t].queue) <= MaxId
    /\ lastid' = lastid + Len(job[t].queue)
    /\ IF lite /\ mode # "off"
       THEN Abort(t, QueuedEdits(t) \cup SentEdits(t)) /\ UNCHANGED mode
       ELSE /\ job' = [job EXCEPT ![t].pc = "store",
                                  ![t].queue = [i \in DOMAIN @ |-> [@[i] EXCEPT !.id = lastid + i]],
                                  ![t].ids = [i \in DOMAIN job[t].queue |-> lastid + i]]
            /\ mode' = IF lite THEN t ELSE mode
            /\ UNCHANGED <<ops, told>>
    /\ UNCHANGED <<lite, committed, inst, staging, held, records, accepted, slipped, overlap>>

\* the objects of an insert are validated and stored one by one
StoreNext(t) ==
    /\ job[t].pc = "store" /\ job[t].queue # << >>
    /\ LET q == Head(job[t].queue)
       IN /\ records' = [records EXCEPT ![q.id] = IF q.of = 0 THEN q.data ELSE inst[q.of].edits]
          /\ inst' = IF q.of = 0 THEN inst ELSE [inst EXCEPT ![q.of].edits = << >>]
    /\ job' = [job EXCEPT ![t].queue = Tail(@)]
    /\ UNCHANGED <<lite, committed, staging, held, ops, mode, lastid, hist>>

\* one that does not validate ends the insert with the earlier ones stored, and insert mode is never left
Invalid(t) ==
    /\ job[t].pc = "store" /\ job[t].queue # << >>
    /\ Abort(t, QueuedEdits(t) \cup SentEdits(t))
    /\ mode' = IF lite THEN "dead" ELSE mode
    /\ UNCHANGED <<lite, committed, inst, staging, held, records, lastid, accepted, slipped, overlap>>

\* after the inserts, all the updates are sent at once
EndInsert(t) ==
    /\ job[t].pc \in {"insert", "store"} /\ job[t].queue = << >>
    /\ mode' = IF mode = t THEN "off" ELSE mode
    /\ ops' = ops \cup job[t].sent
    /\ job' = [job EXCEPT ![t].pc = "update", ![t].sent = {}]
    /\ UNCHANGED <<lite, committed, inst, staging, held, records, lastid, hist>>

\* a block applies the edits to the record, or deletes it; of an id it does not have it says nothing
Perform(m) ==
    /\ m \in ops /\ ops' = ops \ {m}
    /\ records' = [records EXCEPT ![m.id] = IF m.op = "del" \/ @ = << >> THEN << >> ELSE @ \o m.edits]
    /\ slipped' = IF m.op = "del" THEN slipped \cup (ToSet(records[m.id]) \ {0})
                  ELSE IF records[m.id] = << >> THEN slipped \cup ToSet(m.edits) ELSE slipped
    /\ UNCHANGED <<lite, committed, inst, staging, held, job, mode, lastid, accepted, told, overlap>>

\* the edited object does not validate, or the block cannot be reached
Reject(m) ==
    /\ m \in ops /\ m.op = "upd"
    /\ IF m.by = "nobody"
       THEN ops' = ops \ {m} /\ told' = told \cup ToSet(m.edits) /\ UNCHANGED job
       ELSE /\ ops' = {[n EXCEPT !.by = IF @ = m.by THEN "nobody" ELSE @] : n \in ops \ {m}}
            /\ job' = [job EXCEPT ![m.by] = Idle]
            /\ told' = told \cup ToSet(m.edits)
    /\ UNCHANGED <<lite, committed, inst, staging, held, mode, records, lastid, accepted, slipped, overlap>>

Adopted(t) == {i \in DOMAIN job[t].born : ~job[t].discard /\ ~inst[job[t].born[i]].obsolete /\ Staged(job[t].ids[i]) = {}}
Settled(t) ==
    [o \in DOMAIN inst |->
        IF \E i \in DOMAIN job[t].born : job[t].born[i] = o
        THEN LET i == CHOOSE i \in DOMAIN job[t].born : job[t].born[i] = o
             IN [inst[o] EXCEPT !.id = job[t].ids[i], !.edits = << >>, !.obsolete = i \notin Adopted(t)]
        ELSE inst[o]]

\* the save returns; save_all() looks again for what was staged or edited in the meantime
Return(t) ==
    /\ job[t].pc = "update" /\ \A m \in ops : m.by # t
    /\ inst' = Settled(t)
    /\ staging' = staging \cup {job[t].born[i] : i \in Adopted(t)}
    /\ job' = [job EXCEPT ![t] = IF job[t].all THEN [pc |-> "again", discard |-> job[t].discard, before |-> job[t].before] ELSE Idle]
    /\ UNCHANGED <<lite, committed, held, ops, mode, records, lastid, hist>>

Again(t) ==
    /\ job[t].pc = "again"
    /\ LET os == IF job[t].discard THEN staging ELSE Pending
       IN IF os = {} THEN job' = [job EXCEPT ![t] = Idle] /\ UNCHANGED <<inst, staging, ops, told, overlap>>
          ELSE Submit(t, os, job[t].discard, TRUE, job[t].before)
    /\ UNCHANGED <<lite, committed, held, mode, records, lastid, accepted, slipped>>

Steps(t) == BeginInsert(t) \/ StoreNext(t) \/ EndInsert(t) \/ Return(t) \/ Again(t)
Next == \/ \E t \in Threads : \/ \E id \in 1 .. MaxId : records[id] # << >> /\ GetMutable(t, id)
                              \/ CreateStaged(t) \/ CreateInBlock(t) \/ Edit(t) \/ Delete(t) \/ Revert(t)
                              \/ SaveOne(t) \/ (\E discard \in BOOLEAN : SaveAll(t, discard)) \/ Commit(t)
                              \/ Invalid(t) \/ Steps(t)
        \/ \E m \in ops : Perform(m) \/ Reject(m)

Spec == Init /\ [][Next]_vars

----------------------------------------------------------------------------
InRecords == (UNION {ToSet(records[id]) : id \in 1 .. MaxId}) \ {0}
OnTheWay  == (UNION {ToSet(m.edits) : m \in ops})
                \cup UNION {SentEdits(t) \cup QueuedEdits(t) : t \in {u \in Threads : job[u].pc \in {"insert", "store", "update"}}}
StagedEdits == EditsOf(staging)

\* The state consists of instances, jobs and records of the expected shape.
TypeOK == /\ lite \in BOOLEAN /\ committed \in BOOLEAN /\ staging \subseteq DOMAIN inst
          /\ mode \in {"off", "dead"} \cup Threads /\ \A t \in Threads : held[t] \in 0 .. Len(inst)

\* While an object is staged, all other mutable copies of it are obsolete, so no two threads edit diverging copies
\* (session.js 55-58). The copies made in insert mode are exempt: the list by which they would become obsolete is empty.
OneLiveInstance ==
    \A o, p \in DOMAIN inst : (o \in staging /\ o # p /\ ~Newborn(o) /\ inst[p].id = inst[o].id /\ ~inst[p].inblock) => inst[p].obsolete

\* The edits of a record are applied once each and in the order in which they were made, whatever threads made and saved
\* them and however often saves were repeated, unless two saves with edits of this record were on their way at a time.
OrderKept == \A id \in 1 .. MaxId \ overlap :
                \A i, j \in DOMAIN records[id] : i < j => records[id][i] < records[id][j]

\* An accepted edit is never lost without notice: it is staged, on its way, stored, dropped with an error or by a revert,
\* or it was made where the code sends it to nowhere: to a newborn that is being inserted, or to a deleted record. Nor is one
\* made to a copy that another copy has superseded.
EditsAccounted ==
    /\ OneLiveInstance /\ OrderKept
    /\ \A e \in 1 .. accepted : e \in StagedEdits \cup OnTheWay \cup InRecords \cup told \cup slipped

\* When a save returns with no error, each edit that was to be saved is stored, unless it was dropped or it went to nowhere
\* or another save has it on its way: a concurrent save_all() finds nothing pending and returns before the first one ends.
SaveMeansSaved ==
    [][\A t \in Threads : (job[t].pc = "again" /\ job'[t] = Idle) =>
          job[t].before \subseteq InRecords \cup told \cup slipped \cup OnTheWay]_vars
=============================================================================
