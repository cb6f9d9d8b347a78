---------------------------- MODULE ChangeCapture ----------------------------
(***************************************************************************)
(* One block of a data sequence and one sequence derived from it, an index *)
(* (schemat/db/block.js: Block, DataBlock, Monitor, OP).                   *)
(*                                                                         *)
(* A write of a record ($master.insert, update, delete) reads the record   *)
(* under the row lock, derives the operations on the index through the     *)
(* Monitor of the index, and queues for the block-wide lock, under which   *)
(* the record is stored and the index operations are sent, not awaited, to *)
(* the block of the index.  The background task of the block fills a new   *)
(* index: under the block-wide lock it scans a batch of records, moving    *)
(* backfill_offset past each of them, saves the offset to a file and sends *)
(* the operations of the batch.  Changes above the offset, in the "pending *)
(* zone", are not captured: the scan is to pick them up later.  A round    *)
(* that throws drops its operations but keeps the offset it has reached in *)
(* memory, and the next round goes on from there.  An operation that gets  *)
(* lost on its way is not sent again.                                      *)
(*                                                                         *)
(* A record is abstracted to the set of values of its indexed field, an    *)
(* index entry is a pair <<feature, key>>.  Both locks are lines of        *)
(* FifoLock, which Mutexes implements.  The store is taken as durable and  *)
(* ids as given out uniquely: other modules are about those.               *)
(***************************************************************************)
EXTENDS Naturals, Sequences, SequencesExt, FiniteSetsExt

CONSTANTS Writers,      \* overlapping calls of $master.insert/update/delete
          NKeys,        \* the keys of the block are 1..NKeys, in byte order
          Features,     \* values of the indexed field
          Limit,        \* batch size of Monitor.backfill(): 100 in the code
          Backfill,     \* TRUE: the index is new, FALSE: it is filled
          MaxWrites,    \* bound: write calls in a behavior
          MaxFaults     \* bound: failing replications to a $replica, failing
                        \* rounds of the background task, crashes of the process
                        \* that runs the block, operations that get lost or are
                        \* executed ahead of earlier ones

ASSUME ChangeCaptureAssumption ==
    /\ NKeys \in Nat /\ Limit \in Nat \ {0} /\ Backfill \in BOOLEAN
    /\ MaxWrites \in Nat /\ MaxFaults \in Nat
    /\ IsFiniteSet(Features) /\ "background" \notin Writers

Keys == 1..NKeys
Zero == 0               \* Binary.zero, lower than every key
Done == NKeys + 1       \* a backfill_offset of null: nothing left to backfill

VARIABLES store,    \* store[k]: record under key k of the block
          index,    \* entries <<feature, key>> of the derived block
          net,      \* operations sent to the derived block, not executed yet
          rows,     \* rows[k]: line of the callers of lock_row(k)
          all,      \* line of the callers of lock_all()
          call,     \* call[w]: a write call and its local variables
          offset,   \* Monitor.backfill_offset
          file,     \* offset in the backfill file; Zero if there is no file
          batch,    \* the background task and its local variables
          used,     \* used[x]: how much of bound x is used up
          missed    \* history: keys with a change the index will not receive

vars == <<store, index, net, rows, all, call, offset, file, batch, used, missed>>

Background == "background"
Row == INSTANCE FifoLock WITH Procs <- Writers, line <- rows
All == INSTANCE FifoLock WITH Keys <- {"all"}, Procs <- Writers \union {Background},
                              line <- all

-----------------------------------------------------------------------------
\* Records and the edits that turn the previous record into the next one.
Absent == [exists |-> FALSE, features |-> {}]
Record(fs) == [exists |-> TRUE, features |-> fs]
Records == {Record(fs) : fs \in SUBSET Features}

Edits == [kind : {"insert"}, fs : SUBSET Features]
             \union [kind : {"add", "remove"}, fs : {{f} : f \in Features}]
             \union [kind : {"delete"}, fs : {{}}]

Apply(edit, prev) == CASE edit.kind = "insert" -> Record(edit.fs)
                       [] edit.kind = "add" -> Record(prev.features \union edit.fs)
                       [] edit.kind = "remove" -> Record(prev.features \ edit.fs)
                       [] edit.kind = "delete" -> Absent

\* An operation on the index.  Only the background task awaits the answers to its own.
Op(name, f, k, awaited) == [op |-> name, feature |-> f, key |-> k, awaited |-> awaited]
Ops == [op : {"put", "del"}, feature : Features, key : Keys, awaited : BOOLEAN]

\* The operations ops when nobody awaits their answers any more.
Unawaited(ops) == [i \in DOMAIN ops |-> [ops[i] EXCEPT !.awaited = FALSE]]

\* DerivedOperator.derive_ops() of an index: delete the entries that only prev
\* has, put those that only next has; entries of both are pruned.
DeriveOps(k, prev, next, awaited) ==
    LET dels == SetToSeq({Op("del", f, k, awaited) : f \in prev.features \ next.features})
        puts == SetToSeq({Op("put", f, k, awaited) : f \in next.features \ prev.features})
    IN dels \o puts

\* op_put() and op_del() on the store of the derived block.
Execute(entries, o) == IF o.op = "put" THEN entries \union {<<o.feature, o.key>>}
                                       ELSE entries \ {<<o.feature, o.key>>}

\* Mutant of InPendingZone: the key that was scanned last counts as pending.
InPendingZone_Inclusive(k) == offset # Done /\ offset <= k

\* Monitor._in_pending_zone(): not scanned yet, changes are not captured.
InPendingZone(k) == offset # Done /\ offset < k

-----------------------------------------------------------------------------
Idle == [pc |-> "idle"]
Call(pc, k, edit, prev, ops) == [pc |-> pc, key |-> k, edit |-> edit, prev |-> prev, ops |-> ops]

\* The background task between two rounds: prev is prev_offset of backfill(), the
\* offset that the next round begins with.
NoBatch(prev) == [pc |-> "idle", count |-> 0, ops |-> <<>>, prev |-> prev]

TypeOK ==
    /\ store \in [Keys -> Records \union {Absent}]
    /\ index \subseteq Features \X Keys
    /\ net \in Seq(Ops)
    /\ rows \in [Keys -> Seq(Writers)]
    /\ all \in [{"all"} -> Seq(Writers \union {Background})]
    /\ call \in [Writers -> {Idle} \union
                    [pc : {"row", "derive", "all", "stored", "exit"}, key : Keys, edit : Edits,
                     prev : Records \union {Absent}, ops : Seq(Ops)]]
    /\ offset \in Zero..Done
    /\ file \in Zero..Done
    /\ batch \in [pc : {"idle", "lock", "scan", "sent"}, count : 0..Limit, ops : Seq(Ops),
                  prev : Zero..Done]
    /\ missed \subseteq Keys

\* The data sequence may hold records already; a filled index agrees with it.
Init == /\ store \in [Keys -> Records \union {Absent}]
        /\ offset = IF Backfill THEN Zero ELSE Done
        /\ file = offset
        /\ index = IF Backfill THEN {} ELSE {e \in Features \X Keys : e[1] \in store[e[2]].features}
        /\ net = <<>>
        /\ rows = [k \in Keys |-> <<>>]
        /\ all = [l \in {"all"} |-> <<>>]
        /\ call = [w \in Writers |-> Idle]
        /\ batch = NoBatch(offset)
        /\ used = [writes |-> 0, faults |-> 0]
        /\ missed = {}

-----------------------------------------------------------------------------
\* Write calls.

\* $master.insert() up to _save(): the id was assigned and is nobody else's; no
\* row lock is taken.
Insert(w, k, edit) ==
    /\ call[w] = Idle /\ used.writes < MaxWrites
    /\ edit.kind = "insert"
    /\ ~store[k].exists
    /\ \A v \in Writers : call[v] # Idle => ~(call[v].key = k /\ call[v].edit.kind = "insert")
    /\ call' = [call EXCEPT ![w] = Call("derive", k, edit, Absent, <<>>)]
    /\ used' = [used EXCEPT !.writes = @ + 1]
    /\ UNCHANGED <<store, index, net, rows, all, offset, file, batch, missed>>

\* $master.update() and $master.delete() ask for the row.
AskRow(w, k, edit) ==
    /\ call[w] = Idle /\ used.writes < MaxWrites
    /\ edit.kind # "insert"
    /\ Row!Join(w, k)
    /\ call' = [call EXCEPT ![w] = Call("row", k, edit, Absent, <<>>)]
    /\ used' = [used EXCEPT !.writes = @ + 1]
    /\ UNCHANGED <<store, index, net, all, offset, file, batch, missed>>

\* Mutants of the two actions below: the row lock is kept on the early return;
\* the record is read before the lock is there.
ReadNothing_KeepsRow(w) ==
    /\ call[w].pc = "row"
    /\ Row!Holds(w, call[w].key)
    /\ ~store[call[w].key].exists
    /\ call' = [call EXCEPT ![w] = Idle]
    /\ UNCHANGED <<store, index, net, rows, all, offset, file, batch, used, missed>>

Read_Unlocked(w) ==
    /\ call[w].pc = "row"
    /\ store[call[w].key].exists
    /\ call' = [call EXCEPT ![w].pc = "derive", ![w].prev = store[call[w].key]]
    /\ UNCHANGED <<store, index, net, rows, all, offset, file, batch, used, missed>>

\* Under the row lock: no such record, and no lower ring to look into.
ReadNothing(w) ==
    /\ call[w].pc = "row"
    /\ ~store[call[w].key].exists
    /\ Row!Leave(w, call[w].key)
    /\ call' = [call EXCEPT ![w] = Idle]
    /\ UNCHANGED <<store, index, net, all, offset, file, batch, used, missed>>

\* Under the row lock: the record is read, the edits are applied to a copy.
Read(w) ==
    LET c == call[w] IN
    /\ c.pc = "row"
    /\ Row!Holds(w, c.key)
    /\ store[c.key].exists
    /\ call' = [call EXCEPT ![w] = Call("derive", c.key, c.edit, store[c.key], c.ops)]
    /\ UNCHANGED <<store, index, net, rows, all, offset, file, batch, used, missed>>

\* _save(), and its like in delete(): derive the operations on the index, then
\* queue for the block-wide lock in submit_ops(); there is no await between.
Derive(w) ==
    LET c == call[w] IN
    /\ c.pc = "derive"
    /\ call' = [call EXCEPT ![w] = Call("all", c.key, c.edit, c.prev,
                                        IF InPendingZone(c.key) THEN <<>>
                                        ELSE DeriveOps(c.key, c.prev, Apply(c.edit, c.prev), FALSE))]
    /\ All!Join(w, "all")
    /\ UNCHANGED <<store, index, net, rows, offset, file, batch, used, missed>>

\* submit_ops(): the record is stored, its replication to $replica awaited.
Store(w) ==
    LET c == call[w]
        next == Apply(c.edit, c.prev) IN
    /\ c.pc = "all"
    /\ All!Holds(w, "all")
    /\ store' = [store EXCEPT ![c.key] = next]
    /\ call' = [call EXCEPT ![w].pc = "stored"]
    /\ UNCHANGED <<index, net, rows, all, offset, file, batch, used, missed>>

\* After submit_ops() an insert is over, the others have the row to give back.
AfterSubmit(w) == IF call[w].edit.kind = "insert" THEN Idle ELSE [call[w] EXCEPT !.pc = "exit"]

\* submit_ops(): the derived operations are sent and the block-wide lock left.
Send(w) ==
    /\ call[w].pc = "stored"
    /\ net' = net \o call[w].ops
    /\ All!Leave(w, "all")
    /\ call' = [call EXCEPT ![w] = AfterSubmit(w)]
    /\ UNCHANGED <<store, index, rows, offset, file, batch, used, missed>>

\* One more of the faults that MaxFaults bounds.
Fault == used.faults < MaxFaults /\ used' = [used EXCEPT !.faults = @ + 1]

\* The broadcast $$replica.replicate() rejects: submit_ops() throws before it
\* sends the derived operations, the record stays in the store.
FailReplication(w) ==
    /\ call[w].pc = "stored"
    /\ Fault
    /\ All!Leave(w, "all")
    /\ call' = [call EXCEPT ![w] = AfterSubmit(w)]
    /\ missed' = IF call[w].ops # <<>> THEN missed \union {call[w].key} ELSE missed
    /\ UNCHANGED <<store, index, net, rows, offset, file, batch>>

\* The end of run_exclusive() of lock_row().
Exit(w) ==
    /\ call[w].pc = "exit"
    /\ Row!Leave(w, call[w].key)
    /\ call' = [call EXCEPT ![w] = Idle]
    /\ UNCHANGED <<store, index, net, all, offset, file, batch, used, missed>>

-----------------------------------------------------------------------------
\* $agent.background() and Monitor.backfill().

\* A round that finds nothing to backfill only takes and leaves the lock.
StartRound ==
    /\ batch.pc = "idle" /\ offset # Done
    /\ All!Join(Background, "all")
    /\ batch' = [batch EXCEPT !.pc = "lock"]
    /\ UNCHANGED <<store, index, net, rows, call, offset, file, used, missed>>

\* Keys that the offset passes on its way to k although a write call derived
\* nothing for them, as they were pending, and waits to store its change.
Overrun(k) == {n \in offset+1..k : \E w \in Writers : call[w].pc = "all" /\ call[w].key = n}

Scanning == batch.pc \in {"lock", "scan"} /\ All!Holds(Background, "all")
Ahead == {k \in Keys : k > offset /\ store[k].exists}

\* The next record of the scan: the offset moves past it.
ScanRecord ==
    /\ Scanning /\ batch.count < Limit /\ Ahead # {}
    /\ LET k == Min(Ahead) IN
          /\ offset' = k
          /\ missed' = missed \union Overrun(k)
          /\ batch' = [batch EXCEPT !.pc = "scan", !.count = @ + 1,
                                    !.ops = @ \o DeriveOps(k, Absent, store[k], TRUE)]
    /\ UNCHANGED <<store, index, net, rows, all, call, file, used>>

\* The batch is complete: all records were scanned, or as many as the limit.
Complete == batch.count = Limit \/ Ahead = {}
OffsetAfter == IF batch.count < Limit THEN Done ELSE offset

\* The offset is saved, then the operations of the batch are sent.
Commit ==
    /\ Scanning /\ Complete
    /\ offset' = OffsetAfter
    /\ file' = offset'
    /\ net' = net \o batch.ops
    /\ batch' = [NoBatch(offset') EXCEPT !.pc = "sent"]
    /\ missed' = missed \union Overrun(offset')
    /\ UNCHANGED <<store, index, rows, all, call, used>>

\* All operations of the batch are answered, the block-wide lock is left.
EndRound ==
    /\ batch.pc = "sent"
    /\ \A i \in DOMAIN net : ~net[i].awaited
    /\ All!Leave(Background, "all")
    /\ batch' = NoBatch(offset)
    /\ UNCHANGED <<store, index, net, rows, call, offset, file, used, missed>>

\* The round throws before it has sent anything: its operations are dropped and
\* the lock is left, but backfill_offset stays where it is.  The file is not
\* written.  The task is scheduled again and goes on from there (Recurrent).
DropBatch ==
    /\ Fault
    /\ All!Leave(Background, "all")
    /\ batch' = NoBatch(offset')
    /\ missed' = missed \union Overrun(offset') \union
                     {k \in Keys : /\ batch.prev < k /\ k <= offset'
                                   /\ store[k].features # {}}
    /\ UNCHANGED <<store, index, net, rows, call, file>>

\* The record cannot be decoded, or nothing be derived from it: decode_object()
\* and derive_ops() come after the offset was moved.
FailScan == /\ Scanning /\ batch.count < Limit /\ Ahead # {}
            /\ offset' = Min(Ahead)
            /\ DropBatch

\* The file cannot be written.
FailCommit == /\ Scanning /\ Complete
              /\ offset' = OffsetAfter
              /\ DropBatch

\* An answer does not come: Promise.all() rejects although other operations of
\* the batch may still be on their way, and the lock is left.
RejectRound ==
    /\ batch.pc = "sent"
    /\ Fault
    /\ net' = Unawaited(net)
    /\ All!Leave(Background, "all")
    /\ batch' = NoBatch(offset)
    /\ UNCHANGED <<store, index, rows, call, offset, file, missed>>

-----------------------------------------------------------------------------
\* $master.derived_op() of the derived block.
ExecuteFirst ==
    /\ net # <<>>
    /\ index' = Execute(index, Head(net))
    /\ net' = Tail(net)
    /\ UNCHANGED <<store, rows, all, call, offset, file, batch, used, missed>>

\* The operations are separate calls that nothing keeps in order.
ExecuteLater(i) ==
    LET o == net[i]
        overtaken == {j \in 1..(i-1) : net[j].key = o.key /\ net[j].feature = o.feature} IN
    /\ i > 1
    /\ Fault
    /\ index' = Execute(index, o)
    /\ net' = RemoveAt(net, i)
    /\ missed' = IF overtaken # {} THEN missed \union {o.key} ELSE missed
    /\ UNCHANGED <<store, rows, all, call, offset, file, batch>>

\* An operation gets lost: the derived block or the connection to it is down.  A
\* write call does not learn of it, as it does not await the operations it sends.
LoseOp(i) ==
    /\ ~net[i].awaited
    /\ Fault
    /\ net' = RemoveAt(net, i)
    /\ missed' = missed \union {net[i].key}
    /\ UNCHANGED <<store, index, rows, all, call, offset, file, batch>>

\* One of the batch gets lost: the round rejects.
LoseAwaited(i) ==
    /\ batch.pc = "sent" /\ net[i].awaited
    /\ Fault
    /\ net' = Unawaited(RemoveAt(net, i))
    /\ missed' = missed \union {net[i].key}
    /\ All!Leave(Background, "all")
    /\ batch' = NoBatch(offset)
    /\ UNCHANGED <<store, index, rows, call, offset, file>>

\* The process of the block dies and starts again: calls, locks and operations
\* not received yet are gone, Monitor reads its offset from the file.  What was
\* captured beyond that offset, after a round that failed, is pending again.
Crash ==
    /\ Fault
    /\ \E n \in 0..Len(net) :
          /\ net' = Unawaited(SubSeq(net, 1, n))
          /\ missed' = missed
                \union {k \in Keys : file < k /\ k <= batch.prev}
                \union {net[i].key : i \in n+1..Len(net)}
                \union {call[w].key : w \in {v \in Writers : /\ call[v].pc = "stored"
                                                             /\ call[v].ops # <<>>}}
    /\ rows' = [k \in Keys |-> <<>>]
    /\ all' = [l \in {"all"} |-> <<>>]
    /\ call' = [w \in Writers |-> Idle]
    /\ batch' = NoBatch(file)
    /\ offset' = file
    /\ UNCHANGED <<store, index, file>>

-----------------------------------------------------------------------------
WriteStep(w) == \/ ReadNothing(w) \/ Read(w) \/ Derive(w) \/ Store(w)
                \/ Send(w) \/ FailReplication(w) \/ Exit(w)
BackgroundStep == StartRound \/ ScanRecord \/ Commit \/ EndRound

Next == \/ \E w \in Writers :
              \/ \E k \in Keys, edit \in Edits : Insert(w, k, edit) \/ AskRow(w, k, edit)
              \/ WriteStep(w)
        \/ BackgroundStep
        \/ ExecuteFirst
        \/ FailScan \/ FailCommit \/ RejectRound
        \/ \E i \in DOMAIN net : ExecuteLater(i) \/ LoseOp(i) \/ LoseAwaited(i)
        \/ Crash

Spec == Init /\ [][Next]_vars

\* Started calls proceed, the frame calls background() again and again, and the
\* derived block executes what it receives.
FairSpec == /\ Spec
            /\ \A w \in Writers : WF_vars(WriteStep(w))
            /\ WF_vars(BackgroundStep)
            /\ WF_vars(ExecuteFirst)

-----------------------------------------------------------------------------
\* An update or delete stores what it computed from the record that is still in
\* the store, and an insert hits an empty slot: between reading under the row
\* lock and storing under the block-wide lock no other write comes in.
ReadStaysCurrent ==
    \A w \in Writers : call[w].pc \in {"derive", "all"} => store[call[w].key] = call[w].prev

\* Operations of changes that are in the store already or were scanned, not sent
\* yet: only the holder of the block-wide lock can have some.
Unsent == CASE All!Holds(Background, "all") -> batch.ops
            [] \E w \in Writers : All!Holds(w, "all") /\ call[w].pc = "stored" ->
                  call[Head(all["all"])].ops
            [] OTHER -> <<>>

\* What the operations ops, executed in order, do to the entry of feature f and
\* key k: none is about it, or the last one that is puts it there.
About(o, f, k) == o.feature = f /\ o.key = k
Silent(ops, f, k) == \A i \in DOMAIN ops : ~About(ops[i], f, k)
Puts(ops, f, k) == \E i \in DOMAIN ops : /\ About(ops[i], f, k) /\ ops[i].op = "put"
                                         /\ \A j \in DOMAIN ops : j > i => ~About(ops[j], f, k)

\* The entry is there after ops are executed on entries.
EndsIn(entries, ops, f, k) == Puts(ops, f, k) \/ (<<f, k>> \in entries /\ Silent(ops, f, k))

\* The features of key k in the index once everything derived is executed.
Settled(k) == {f \in Features : EndsIn(index, net \o Unsent, f, k)}

Expected(k) == IF offset < k THEN {} ELSE store[k].features

\* The index will hold exactly the entries of the records up to the offset.
\* Stated by the comments of Monitor; false if a change may be missed.
IndexFollowsStore == \A k \in Keys : Settled(k) = Expected(k)

\* The only changes the index loses are those the history names: of a key that
\* the scan passed between deriving and storing the change, stored by a call
\* whose replication failed, scanned by a round that threw, lost on their way or
\* by a crash, captured beyond the offset that a crash brings back, or overtaken.
IndexFollowsStoreUnlessMissed == \A k \in Keys \ missed : Settled(k) = Expected(k)

\* Neither the writers nor the background task keep each other out for ever: the
\* two locks are always taken in the same order.  Once no more calls are made (they
\* are bounded here), all have ended and a new index is filled, whatever failed.
WorkEnds == <>[](offset = Done /\ \A w \in Writers : call[w] = Idle)
=============================================================================
