# Verification of Schemat

TLA+ models of Schemat, the TLC configurations that check them, and TLAPS proofs.
All paths are relative to `src/schemat/`.

Schemat is a distributed store of *web objects*, and the application server on top
of it. Objects live in a stack of *rings*; every ring has a data sequence, made of
blocks, and sequences derived from it (indexes, aggregations). A block is an
*agent*: a frame on some node runs its `$master` and `$replica` methods, other
processes call them by RPC, and JavaScript interleaves the calls at every `await`.
A process keeps instances of objects in a registry, tracks their edits in
sessions, and serves requests in the contexts of applications. Crashes of single
processes, messages that are not awaited, tables and records that are out of date,
and the rules by which contents are inherited, checked, encoded and addressed are
what the models are about.

## 1. Inventory

| Component | State | Operations | What is hard | What makes it correct | Modules |
|---|---|---|---|---|---|
| Mutex, Mutexes (`common/structs.js` 10-69) | map of entries, `locked`, `queue` | acquire, release, run_exclusive | a resolved promise runs later; early and repeated release | exclusion, no lost wakeup, first come first served | FifoLock, Mutexes |
| Shards, ring zones (`structs.js` 445-501, `db/db.js` 81-159) | limits and shard of each ring | validate_zones, valid_insert_id, fix_upwards | missing limits, touching bounds | no id belongs to two rings | IdAssignment |
| Id assignment (`db/block.js` 500-722) | store, `autoincrement`, `reserved` | insert, _assign_id*, upsave, delete, __start__ | ids assigned long before they are saved; failures, restarts | no id is given out twice | IdAssignment |
| Reads and writes through rings (`db/block.js` 543-822, `db/data_request.js`) | records, row locks, rings of a DataRequest | select, update, upsave, delete | locks of several processes held across RPC, crashes | behaves as one object; calls end | ObjectStore, RingStack |
| Change capture (`db/block.js` 14-157, 390-452; `db/operator.js`) | records, index, `backfill_offset`, file, two locks | writes, submit_ops, background, backfill | the scan runs among writes; operations not awaited | the index follows the store | ChangeCapture |
| Progress of a backfill (`db/sequence.js`, `db/block.js` 64-141) | offset, file, `filled`, ranges | backfill, commit_backfill, rebuild | one fact in four places, reports in any order | `filled` implies complete | BackfillProgress |
| Aggregations (`db/operator.js` 305-379) | accumulators | inc, dec | increments are not idempotent | sums equal the source | Aggregates |
| Derived sequences (`db/sequence.js`, `db/db.js` 400-475) | `derived`, operators, monitors | create_index, create_aggregation, remove_operator | several records and agents changed in turn | operators are served, nothing is left | DerivedSequences |
| Scans over rings (`db/db.js`, `common/utils.js` 620-683) | streams of records | scan, merge | copies and tombstones | each object once, in order | MergedScan |
| Moving objects (`db/db.js` 483-556) | records of all rings | admin_reinsert, _update_references | no locks, edits meanwhile | references follow, edits stay | Reinsertion |
| Stores (`db/store.js`) | records in memory and on disk | put, del, erase, flush | delayed flush, crash | acknowledged writes survive | BlockStore |
| Mailbox, RPC (`server/node.js`) | pending requests, tables of places | rpc, send, respond, forward, execute | lost answers, agents that move | each request settled once, where it may | RpcPath, NodeRouting |
| TCP channel (`server/tcp.js`) | pending messages, watermarks, buffers | send, resend, receive, answer | loss, repetition, chunks | executed once, whole messages | TcpChannel, Framing |
| Frames (`server/frame.js`, `server/agent.js`) | agent, calls, starting, stopping, paused, locked | start, exec, pause, restart, stop, lock | calls racing a restart or stop | exclusive calls alone, no call hangs | Frame |
| Cluster (`server/cluster.js`, `control.js`, `atlas.js`), kernel | placements, counters, copies of the atlas | deploy, remove, adjust_replicas, broadcast | concurrent deployments, failures midway | one master per agent, tables agree | Placement, NodeRouting |
| Session (`core/session.js`, `db/db.js` 304-355) | staged objects and edits, captured records | stage, save, commit, capture, actions | edits added while saving, nested and parallel calls | no edit lost or applied twice, records come back | Session, Actions |
| Registry, loading (`core/registry.js`, `core/schemat.js`, `core/object.js`) | instances, recent records | get, load, reload, register_changes | loads racing changes, cyclic links | latest version in the end, complete instances | ObjectCache, ObjectLoading |
| Contexts (`core/schemat_srv.js` 50-310) | one context per application | app_context, from_config | calls meet a context that boots | callbacks run in their context | Contexts |
| Inheritance (`core/object.js` 650-720, `core/inter.js`) | own values, cache | get, set, delete | diamonds, shortcuts, caches | derived from all sources | Inheritance |
| Types (`types/type.js`, `types/catalog_type.js`) | schema | validate | normalisation in place | what is accepted stays so | Validation |
| Revisions (`core/object.js` 1108-1160, `core/revision.js`) | `__ver`, `__prev`, `__seal` | update, get_version, assert_version | several records per update | versions read back | Revisions |
| Catalogs (`common/catalog.js`) | entries, index | set, insert, move, rename, clone | paths through mixed collections | index agrees, copies are independent | Catalog, StructPaths |
| Codecs (`common/jsonx.js`, `common/binary.js`) | none | encode, decode, write, read | reserved keys, shared nodes, order of bytes | round trip, order kept | JsonCodec, SortableKeys |
| Text difference (`structs.js` 346-440) | none | compute, apply | shifted positions | plan leads to the new text | SpotDiff |
| Routes (`web/routes.js`, `core/app.js`) | exact and dynamic routes | scan, match | groups, parameters, order | a request finds its file | Routing |
| Pages, browser, files, command line, installation | | | | | not modelled |

The components interact as follows. A session passes staged changes to the
database, which addresses the top ring; a ring calls the agent of a block; the
request is routed to the frame of the block, over mailboxes and the TCP channel,
and the frame runs the call. The block takes row locks and its block-wide lock
(both from `structs.js`), forwards to blocks of lower rings, validates and stores
the record, and sends operations to the blocks of derived sequences. The changed
record goes back with the answer and is registered and captured on the way. The
frame also calls `background()` of the block, which runs the backfill rounds of its
monitors; they report to the record of the derived sequence, by an edit like any
other. The list of what can go wrong, line by line, is `hazards` in PROJECT.json,
with the properties that cover each.

## 2. Modules

A step is what the code does between two awaits; where two awaits have nothing
observable between them they are one step. Definitions keep the names of the code;
`map` in PROJECT.json leads from each to its lines.

### Storage

**Mutexes** implements **FifoLock**, which the storage modules use as their lock.
`present`, `locked` and `queue` are `Mutexes._map` and the fields of its entries. A
call is "granted" from the moment its promise is resolved until it is resumed
(`Enter`). `Release` is the closure of lines 52-60, called early (`ReleaseEarly`) or
by `finally` (`Finish`). The test of line 55 is kept as it stands although it never
succeeds, so entries are never removed.

**IdAssignment.** A ring is a record of its limits and its shard, a residue class;
0 stands for a limit that is missing, as the code treats both alike. `ValidateZones`
has one conjunct per check. The steps of an insert are: assign ids one after the
other (`Assign`; more of them come from `__setup__`), then save the objects one by
one (`Save`), or fail in between (`Throw`). In `Restart` the calls have ended, as
`Frame.stop` awaits them.

**RingStack** implements **ObjectStore**, which sees the records as a pile of copies.
`call[c].ring` is the block that works on the call; the rings above it up to `top`
are those whose row the call holds. `WriteBelow` is `_move_down`, `MoveUp` and `Upsave`
are the way up. `Crash(r)` frees the locks of one block; calls that are in this block
fail, calls that wait for an answer go on below and return upwards later.

**ChangeCapture.** `rows` and `all` are the two locks of the block. The pc of a write
follows `$master.update`: wait for the row, read, derive and queue for the block-wide
lock (one step, as in `_save` nothing is awaited between), store, send, leave the row.
`ScanRecord`, `Commit`, `EndRound` are a round of `Monitor.backfill`; `FailScan`, `FailCommit`
and `RejectRound` are one that throws: its operations are dropped, but `backfill_offset` stays where it
was moved to. `net` has the operations on their way. A write does not await its own (`LoseOp`),
a round rejects when one of its own is lost (`LoseAwaited`), and what is still on its way is
awaited no more (`Unawaited`). `missed` is history: keys with a change that was dropped in one of the
ways named at `IndexFollowsStoreUnlessMissed`; no guard reads it.

**BackfillProgress** has the monitor, the file, the edits on their way, the record of
the sequence and the copy of it in the source's process. `request` is the call of `$master.backfill`
that `_deploy()` sends and does not await; `listed` says that the source's process knows of the
sequence by `derived`, which is saved after `_deploy()`: only then a restarted block makes its
monitor again (`Restart`; otherwise `RestartUnlisted`). **Aggregates** has the
operations of a sum and a count on their way to the block. **DerivedSequences** has
the operators, the sequences of all rings, their arrays `derived` and the monitors of
blocks (`fed`); a call creates or removes in steps, and may fail or meet a restart. The request for a
monitor arrives at once, later (`asked`, `Backfill`) or never (`LoseBackfill`).

**MergedScan** merges streams of several rings with offset and limit. **BlockStore** has
memory, file, timer and several openings of one store. **Reinsertion** is a copy, a scan
with overwrites, and a deletion, among edits. The copy is of the object's record, or of any that it had
before (`older`), since `get_loaded()` may return an instance that was cached before an edit.
**Revisions** adds version numbers, old records and seals to updates of an object and its prototype.

### Processes

**TcpChannel** has the requests and answers on their way, the sender's pending requests
and the receiver's watermark; **RpcPath** composes it with the mailboxes of a worker and
two masters. **Framing** cuts and joins its messages. **NodeRouting** takes a request
from the process of its caller to the frame, by the tables that each process knows,
while frames start and stop. **Frame** is one frame with its calls, `background()`, and
requests to restart or stop. When `__start__()` throws the frame is `broken`: it stays registered, and
nothing resolves `.starting` any more. **Placement** has the controllers of the leader, the tables
of all nodes, their frames, crashes and restores. A master that is told to stop an agent goes from worker
to worker; where the kernel still has a frame whose start failed (`Broken`) it never comes
back (a `job` of kind "hung").

**Session** has the instances, their staging and the steps of `save()`, with the database
as the place where records are changed; **Actions** has the calls made by calls, their
sessions, and the records that go back. **ObjectCache** is one object in the registry of
one process: all that happens between two awaits is one function of the state of the
cache. Versions are registered in the order in which answers come, so that an older one may be
the last: `latest` is the last one, `newest` the newest. **ObjectLoading** is about several objects with links, in one process.
**Contexts** is about the contexts of several databases in one process.

### Values

**Inheritance, Validation, Catalog, StructPaths, JsonCodec, SortableKeys, SpotDiff,
Routing** are functions of their input; each module has the input as its initial states
and one step or a few that apply them, and a property that compares the result with a
definition of its own (`Given`, `Expected`, `Unfold`, `Answering`, ...). Strings are model
values, or sequences where their parts matter. In **Validation** a number without bounds may be infinite, and
`Stored` is what comes back of a value from the database: null for NaN and the infinities, 1970
(`Epoch` in **JsonCodec**) for an invalid date. In **StructPaths** a catalog whose rename dropped position 0
from its index (`DropsFirst`) is marked as `lost`; what further edits make of it is left to Catalog.

## 3. Runs

Several modules share a run where they are independent: a composition has the variables
of all of them and a variable `part`; the initial state picks one module, and the variables
of the others keep one value. Names of properties are those of the modules, where a
comment states each.

| Run | Instance | Shows |
|---|---|---|
| block (MCBlock) | Mutexes with 2 keys, 4 calls; IdAssignment with stacks of up to 2 rings, ids up to 4, 2 insert calls of up to 2 objects, one restart, side by side | exclusion, no lost wakeup, FifoLock implemented, no deadlock, every waiter gets in; no id is given twice |
| rings | 3 rings, each read-only or not, 2 calls of any kind, 2 crashes | ObjectStore implemented; calls end unless an upsave waits |
| capture | 2 keys, 1 feature, batches of 1, 2 writes, any two faults: failed replication, throwing round, lost or overtaken operation, crash | reads stay current under the lock; index follows store unless missed; writes and backfill end |
| data (MCData) | BlockStore, MergedScan, BackfillProgress, Aggregates, Catalog, SortableKeys, ObjectLoading, Revisions side by side | stores lose nothing, scans of stores and of merged rings are slices, filled is complete and reached, accumulators follow, catalogs and keys are sound, active objects are complete and loads end, old versions come back |
| server (MCServer) | one frame with 2 calls, a background call and a restart; placement of one agent on 2 nodes of 2 workers, 3 operations, a crash and a failure | calls are apart and end; one master per agent; tables agree; operations end |
| rpc | 3 requests, numbers below 2, one resend, one close, one refused connection, one error | each answered once, executed again only for the reasons named; calls end unless cut |
| session (MCObjects) | Session, Inheritance, Validation, JsonCodec, Framing, SpotDiff, Routing, Contexts, StructPaths, Reinsertion, DerivedSequences side by side | see the comments of the ten properties |
| process (MCProcess) | ObjectCache, NodeRouting, Actions side by side | the version registered last is served, and the last one in the end; requests run where they may; changed records come back |

Runs that refute what a comment of the code says (`findings` in PROJECT.json):

| Run | Property | Behaviour found |
|---|---|---|
| capture_race | IndexFollowsStore | a write derives nothing since its key is pending, the scan passes the key with the old record, the write stores |
| scan_twice | EqualEntriesOnce | the last record of one stream equals the first of the only one that remains |
| rpc_hangs | EveryCallEnds | a request whose connection is cut is neither answered nor timed out |
| lost_request | MissingAgentIsReported | `kernel.booting` stays a promise after the boot, and a request for an agent that is not there awaits it again and again |

**Bounds.** Two writers on one key are needed for a lost update or a stale derivation, a
second key for the order of the scan; four calls on a mutex give a queue of three, so
that first, middle and last differ. Three rings give a read-only ring between writable
ones. Two rings show every pairwise conflict of zones, as `validate_zones` compares pairs;
four ids contain an exclusive, a forbidden and two residue classes of the sharded zone.
Five keys suffice for filled ranges apart, touching and enclosing. Two threads of a
session and two edits give an edit during a save, of the same object or the other one.
Two nodes with a master and two workers each are all relations a caller can have to a
frame: same process, same node, other node, by way of both masters. Three calls are a
call, one made by it, and either one made by that or one beside it; what more calls may do is
left to the proof (`Known` in section 4). Texts of up to five
letters with patches of two contain overlapping tips and patches at both ends. Trees of
three nodes have every kind of collection in every other. Two faults of change capture give a round that
throws and a crash after it, which takes the offset back below what was captured; the proof has any number.
`MaxEvents` of DerivedSequences counts requests that arrive late or never with removals, failures and restarts. All bounds (`Max...`, `Slots`,
`Limit`, `NKeys`, `Base`, `OVERFLOW`) occur in guards or in the ranges of quantifiers only;
`OVERFLOW` is 2 so that numbers start anew within a run.

What is left out by a choice of the constants is named here: in `block` all rings have the
same `min_id_sharded`, as in the data that comes with the repository, so that no id is among
the `UncheckedIds`; the proof has any limits.

**Deadlock.** The check is on for `block`, where only inserts may stop. The other models have bounds on the number
of calls and stop when these are used up.

**Fairness.** Weak fairness of steps that the event loop takes by itself: resumed promises,
calls in progress, `background()`, which the frame repeats for ever, timers, execution of
operations that were received, loads and their answers, the saving of an edit. There is
none for new calls, failures, crashes, restarts, losses or, in placements, operations of the
administrator. A remote call that somebody awaits is taken to be answered or rejected in the end: `WorkEnds`,
`OperationsEnd` and `EventuallyFresh` rest on it, and where a connection is cut it does not hold, by the
finding `rpc_hangs`. The properties about ends and losses excuse what the code is known not to do, and so
do not catch it anew: `CallsEndUnlessUpsaveWaits` the upsave that waits for its own row, `FrameIsOrderly` and
`CallsAndStopsEnd` a `lock()` that takes the wrong call for its own and a start that failed, `OperationsEnd` a
master that stops such a frame, `EditsAccounted` and `SaveMeansSaved` edits of a save that failed and of deleted
records. That functions under a lock end is an assumption of `EveryWaiterEnters`; the
modules that use the locks show when it holds (`WorkEnds`, `CallsEndUnlessUpsaveWaits`).
`EventuallyFresh` has the ttl and the purge of the registry as fair steps, and no evictions
beyond them. MCObjects has no fairness: `SaveMeansSaved` is about single steps.

## 4. Proofs

`BlockProofs` proves, for all sets `Keys` and `Procs`, finite or not, and with no
assumption on constants:

- `Invariance`: `Spec => []Inv`, `Inv` being TypeOK, MutualExclusion and NoLostWakeup
  together;
- `TypeCorrectness`, `Exclusion`, `Wakeups`: the three conjuncts, and `Safety`, which
  states the property `LockSafety` of the run;
- `Refinement`: `ImplementsFifoLock`. The line of a key is the owner of its mutex before the queue.

The run's specification has the ids beside the locks, `LocksOfBlock` takes one from the other.

`BlockProofs` proves `GivenOnce`, too: `BlockSpec => []IdsAreSound`, for stacks of any rings, any
shard of the block, any modes and any number of calls, under `IdsAssumption`: limits are numbers,
shards residue classes, and a block's shard has one offset in common with each ring's. The
last is what `intersection()` asserts, and holds as the bases are powers of 2 and of 3. The lemmas say
what each operator returns: `FixUpwardsIs` that it is the next number of the shard, `IntersectionIs`
and `ShardsApart` which numbers are in two shards, `IncrementalIs` that the incremental algorithm
gives the next slot of the block above autoincrement, `VisitedIs` that the compact one visits its
slots; `ZonesApart` that two rings of a stack share no id if the upper one passed
`validate_zones()`. The invariant says what autoincrement is worth: all that is stored or held is not
above it, unless it was fixed or came from a lower ring (`StoreBelow`, `GivenFit`), so the next
slot is free; and what is held in a compact ring is reserved, unless a caller asked for the
other mode, so the first slot that is neither reserved nor stored is free as well. A restart
may set autoincrement back, but only when no call holds an id.

The proof found two kinds of ids that the property had to name, and that TLC had not met. An
id given in another mode than the ring's (`strayed`) is not in `reserved`, so that an overlapping call may
be given it again: `admin_reinsert` asks for the compact mode whatever the ring has. And
the sharded zone of an upper ring may start below the exclusive zone of a lower one
(`UncheckedIds`). TLC shows each without the condition.

None of the conjuncts is inductive alone. That two calls never own a mutex needs that a
call is granted only from the queue, that queued calls are "waiting" (QueuesHoldWaiters)
and so own nothing; that the queue hands over once needs QueuedOnce; that a free mutex may
be taken needs that an owner keeps it locked. There is a lemma for each kind of step
(`AcquireFreeInv`, `AcquireBusyInv`, `ReleaseInv`, `MoveOnInv`), and two about the elements
of `Append` and `Tail`. `ReleaseInv` is used for both the early and the final release.

It also proves `Refinement`: `Spec => ImplementsFifoLock`, again for any sets.
From Inv, the owner of a mutex is unique and so the refinement mapping (the owner, then the
queue) is a function of who owns and of the queue (`LineOfOwner`, `SameLine`). An acquisition
maps to Join (`AcquireFreeJoins`, `AcquireBusyJoins`; `IdleNotInLine` gives its guard), a
release to Leave (`ReleaseLeaves`: the next in the queue becomes the owner in the same step),
the resumption of a caller and the end of a call released early to stuttering.

`ChangeCaptureProofs` proves `NoLostUpdate`: `Spec => []ReadStaysCurrent`, for any number of
writers, keys and features and any bounds; the assumption on the constants is not used. The
inductive invariant adds to ReadStaysCurrent:

- `RowKept`: an update or delete that has read is at the head of its row's line;
- `InsertsApart`: two inserts that go on have different ids;
- `PrevFitsEdit`: an insert has found nothing, an update or delete a record;
- `WellFormed`: lines are sequences, calls are records, one shape of "no record".

From these no two calls rely on one record (`OneRelies`), the one fact that `StoreInv` needs.
The block-wide lock plays no part in it: the row lock and the uniqueness of ids are enough.
That ids are unique is a guard of `Insert`, which is the property of IdAssignment; where that
one fails (fixed ids), so may this.

It also proves `IndexFollows`: `Spec => []IndexFollowsStoreUnlessMissed`, and
`TypesAreKept`: `Spec => []TypeOK`, for any writers, keys, features, batch size and bounds.
Of `ChangeCaptureAssumption` it needs that the set of features is finite (operations are
sequences, an index entry is one of finitely many) and that the background task is not one of
the writers (the two are different callers in the line for the lock). The property says what
the index *will* have, and the store may be ahead of it by all that is derived and not sent,
sent and not executed, or not scanned yet. What `missed` names are keys with a change that the scan
passed before it was stored (`Overrun`), that a failed replication or a throwing round did not send,
that was lost or overtaken on its way, or that a crash dropped or took back. It is not inductive; the invariant adds, in this
order, as each part is kept by means of the ones before it:

- the invariant of `NoLostUpdate`, by which the record a call derived from is the one
  it replaces;
- `Locked`: from storing a record to sending its operations, and from a batch to its commit, a
  caller holds the block-wide lock; so the operations not sent yet are those of one caller, and
  the scan does not pass a key in between (`UnsentIs`);
- `OffsetSaved`: the offset is not below the one that the round began with, nor that below the one in
  the file; they differ only inside of a batch, or after a round that threw;
- `Captured`: nothing above the offset that the round began with is in the index or on its way, which
  is what makes a crash harmless if no round has failed: the scan starts again at the file's offset. If
  one has, the keys between the two are named, as changes of them were captured;
- `DerivedInTime`: when a call stores, the offset is on the same side of its key as when it
  derived, or the key is named as missed.

For each entry the last operation on it decides (`EndsIn`): `Concatenation`, `ExecuteHead`,
`ExecuteInside` and `OpsOfFeatures` say how that is kept when operations are sent, executed in
order, executed ahead of others, lost (`Removed`), or derived for a set of features. With them `FollowsStays` has
one step per action. TLC checked this invariant before the proof, with two and three keys.

`RingStackRefinement` proves `Refinement`: `Spec => ImplementsObjectStore`, for any number of
rings, calls and crashes, if calls enter the top ring (`Entered = {NRings}`, as in the run and as
the code does unless the caller names a ring). A call that enters below changes a copy that is
not the visible one, which ObjectStore has no step for. The refinement mapping takes the
copies of the store from the top down (`Piles`, a recursive function; `PilesGrow` shows that its
definition has a solution, `VisibleTop` that its head is the topmost copy). The step of the
abstract store at which a call takes effect is that at which it saves, answers or fails: an update
where it saves or upsaves, a select anywhere between its start and its end. The invariant:

- `Above`: a copy above a call is one that was brought up from a read-only ring that the call has
  still before it, so the copy a call finds in a writable ring is the topmost one;
- `Held`: what a call has read is still in its ring when it saves, as it is in the row's lock or
  the ring is read-only; crashes free a row only with the calls inside of the block;
- `Current`: the topmost copy at or below a select is one of those the object has been since the
  select started (`seen`).

`RpcPathProofs` proves `AnsweredOnce`: `Spec => []EachAnsweredOnce`, for any number of requests,
connections, resends, errors and closes, until the numbers of messages start anew after
`OVERFLOW`. A number is kept on the wire, with the sender, with the execution and in the answer;
`Numbers` says that wherever it is kept it stands for the same request, and `SentOnce` that no
request gets a second one. That a request is ignored only if it was received or cut off needs that
the first copy of each number on the wire precedes all larger numbers (`Delivery`): a resend
repeats messages in the order of their numbers behind copies of the same, and the watermark does
not pass what was not received. That what ended is not executed over the same connection again,
unless the watermark was set back, needs `Connections`: an execution knows the connection it came
over, and nothing is left of it on the wire when another one opens. The watermark moves when a request
ends, so a copy that comes while the first one is executed is executed, too. `Repeats` says that what was
executed and may arrive once more is still being executed, or ended over the same connection and so is not
above the watermark, or ended with an error or was cut off, unless the watermark was set back; so each second execution has one of these reasons (`RepeatsExplained`). `NumberedInOrder` and
`TransmitSpec` give what the numbering of a whole queue amounts to when it does not overflow.

`DataProofs` proves four invariants of parts of MCData, whose constants are those of the
parts: any number of keys, stores, objects, writes, updates, losses, restarts and errors.

- `Filled`: `Spec => []FilledIsComplete`. The ranges recorded in a sequence are one interval from
  end to end only if the edits of a backfill covered everything, but edits overtake each other
  and get lost, and `_add_range` merges what overlaps or touches. `AddedRange` is the lemma about
  it: ranges that are sorted and apart stay so, and cover no more than they did with the new one.
  With that the invariant `EditsApart` is kept: the ranges and the edits on their way never
  overlap, and what they cover was reached and sent. So no edit is left once the sequence is
  filled, which a rebuild relies on: a late edit would be one of a backfill that was erased.
  `BackupAgrees` says that the monitor is never below the file, however rounds fail, so that a restart
  resumes where all was sent; what a failed round has left out is in no edit, and no restart before the end
  comes to mark the sequence as filled.
- `Kept`: `Spec => []NothingLost`. Unless a store was left with a timer, only the last store of
  the process has timers, what it holds is what was answered when it has one or is in use, and
  a pending flush has a timer (`StoreFollows`). `early` is what all of it rests on.
- `Complete`: `Spec => []ActiveIsComplete`. What an object in a phase of its load needs of the
  phases begun is active, awaited, or known to have failed (`PhasesOf`), and only an object in one
  of these phases awaits or has been told of a failure (`OnlyLoadingWait`). An active object is
  in none of them, so that nothing but active objects is left. It holds of circles, too, in the
  model, where an object in a circle never gets active.
- `ReadBack`: `Spec => []VersionsAreSound`, for any prototypes, also in circles, any settings of
  numbers, revisions and seals, and any processes (`RevisionsAssumption`: the block's process is one
  of them, objects with a setting are objects). What was written of an object that was not
  overwritten with old data is a sequence by version (`Told`), and whatever a process or a scan has
  of it is one of them (`Account`). The revision that a record points to is the record of the version
  before (`Trail`), also for an update that is not written yet: the row is locked, so nothing
  else replaces what it made a revision of. Revisions point to earlier ones (`Backward`), which is
  why `get_version()` ends: `BackExists` shows that its recursive definition has a solution, and
  `ReadsBack` that it leads to each version. `UpdateChecked` needs only that two records of one
  version are the same.

`ServerProofs` proves `Orderly`: `Spec => []FrameIsOrderly`, for any calls, restarts and bounds. All
that makes somebody wait in a frame looks at `calls`, so the invariant says that a call that runs
is there (`RunningInside`), and who may still run when the waiting is over: while a restart works
the frame is paused, and in its second half, or when `stop()` has waited, only late calls run
(`RestartAlone`, `StopWaits`). `stop()` does not look at `calls` again after it started to wait;
that it need not rests on `stopping`, which holds new calls back, and on a call leaving what is
awaited when it leaves `calls` (`Settled`). `Blamed` follows errors from where they arise, a failure
or a lock, to those that await. There is a lemma for each way a call may change its place
(`CallWaits`, `CallBegins`, `LockGoesOn`, `CallLeaves`), and for restarts and stops likewise.

`ProcessProofs` proves an invariant of each part of MCProcess:

- `Served`: `Spec => []ServedIsLatest`, for any number of slots, versions, failures and reloads.
  Each instance that starts has the record that is registered, or another one was registered
  while it started (`Sound`); an answer that has come has a record (`Answered`). `latest` is the one registered
  last, which is the newest the process has heard of unless an answer came late, so the second half of the
  property, on `newest`, follows (`NewestStep`). There is a lemma
  for each of the functions of ObjectCache (`GetObjectIsRight`, `LoadIsRight`, `ReloadIsRight`,
  `CollectIsRight`, `RegisterIsSound`). `RoomForTwo` is why `Room` is two slots.
- `Known`: `Spec => []RecordsAreKnown`, for any number of calls, servers, objects and edits. The
  calls of transactions that have a record of one object to send (`Holds`) are a chain while one
  call at a time changes it. In the chain each has a record as new as those of its callers
  (`Ordered`), one has what is stored, and the others wait for it (`Newest`). A caller takes the
  record over (`Taken`) and a change puts a new end to the chain (`Fresh`); every other step
  leaves the calls that have one what they had (`Kept`). Lite sessions have the records of the
  last call that came back (`LiteSends`), which are no others than the newest unless they were
  answered late (`LiteNewest`). The sessions of transactions belong to one call each (`Alone`), and
  the callers of a call in a lite session are in lite sessions (`LiteAbove`).

  The proof found what three calls do not show. With five, a process takes an older record though
  no calls cross: the one that had the newest sent it to a caller that had failed, or to a nested
  action, whose records go nowhere, and the caller of that one sends what it had before. The
  history `dropped` names these objects, and TLC shows the property violated without it. With
  four calls a lite session was reset for one call and used by another; `disturbed` is all calls
  of the session now.

- `Arrives`: `Spec => []RequestsFindTheirAgent`, for any nodes, workers, frames, requests and sets of
  booting processes, under `RoutingAssumption`: workers are numbered from 1, only a node's own
  agents have its id and the role `$worker`, a broadcast names no process. `InPlace` says where a
  copy of the request may be after each step, by the options of the request alone; it holds
  whatever starts or stops. As long as nothing does, the tables of node and cluster have the
  frames that run or will run (`Tables`; `LocalAre`, `GlobalAre`), so that a copy is on its way to
  one that fits if there is one (`OnItsWay`). The copies of a broadcast are an enumeration of
  the records found, and the k-th heads for the k-th frame (`Spread`): as no node has two frames
  that fit, `_find_worker` finds the process of that one (`OnlyOne`). There is one lemma for each
  handler (`CallLands`, `FrwdLands`, `SendLands`, …, and `…Spreads` for broadcasts).

  The proof found that the property had a case too many: a broadcast to a node's workers, in a
  cluster whose nodes have a single one, does not run in the caller's own worker, as no table has
  the workers' agents. With two workers the exception for two frames on a node hides it.

`RecordProofs` is about MCRecords, which has Session, Reinsertion and DerivedSequences side by side for
any constants (MCObjects, which the run checks, extends it and has modules with recursive operators). It
proves `Agree`: `Spec => []SequencesAgree` of DerivedSequences, for any number of rings, names,
flows, operators and events. Its parts need each other:

- that an operator is served needs `StagedExist`: in every ring in which the flow has staged an array there is
  the sequence, for which the source was asked for a monitor (`Requested`: it has one, or will when the request
  arrives, or the request was lost), and the array has the operator, so that the commit makes all of it
  true in all rings from its own to the top one (`Spans`), except where the array that is set has missed a
  change, or a restart has lost a monitor: these rings are `stale`;
- that nobody removes it meanwhile needs `CreatedOnce`: until the commit the operator is in no array,
  loaded or read, and no other flow has it. A failed session that is given up may leave sequences, but no
  array;
- that nothing is left of a removed operator needs `RemovedSoFar`: in the rings that the removal has
  passed there is no sequence of it, and none can come back, as nobody creates it any more
  (`NotCreating`). What is removed is found by its name (`SameName`), so the claim is about names given once;
- that arrays load needs `Detached`: a record is deleted only after its array was changed, or the
  ring is stale.

There is a lemma per action (`CommitStep`, `FindStep`, `DetachStep`, `RestartStep`, …). TLC checked the
invariant before the proof.

It also proves `Moved`: `Spec => []MovesAreSound` of Reinsertion, for any number of rings, objects,
databases, lists and edits. The property is about moves that are done, so all of it is in `MoveInv`:

- no record refers to an object moved before, and none that the scan has passed to the one that is
  moved now (`Unreferenced`), except for those edited or copied late. It needs the same of the data that a
  scan has transformed and not yet written (`Carried`), and that the order of the scan has no gaps (`AfterIs`);
- edits are in the record that counts (`Kept`), except for objects edited while their data was on its way
  (`caught`) or copied from an older instance (`outdated`). A copy comes to an id that has no record and no edits
  (`Targets`, `Unused`) and has the edits of its object, unless data was on its way when they came. If the
  object keeps its id and changes its ring, two records have the edits until one is deleted: `Replaced`
  says so of the copy and of the greatest of the others, either of which may be the one that counts afterwards;
- what was moved is there (`There`), as ids of copies are not ids of the objects that are moved.

The proof found that the property said too much: an object that is put into a lower ring
under its own id, with a record in a ring between, is shown as that older record says afterwards, since the
deletion takes the topmost record only. The run has two rings, where there is none between; with three TLC shows it. The
property leaves this case out now (`Between`), which section 5 lists.

And it proves `Accounted`: `Spec => []EditsAccounted` of Session, for any threads, records, copies and edits
(`SessInv`). That each edit is somewhere (`Covered`) is kept step by step: an edit leaves a place for the
next one, or for `told` or `slipped`. The hard part is the order of the edits of a record:

- what is on its way to a record was made after what it has, and what is staged after both (`InOrder`), as edits
  are numbered as they are made (`Counted`);
- one operation for an object is on its way at a time, unless two saves overlap in it (`Alone`); an update belongs
  to the flow that waits for it, which sends no other before (`Stages`), but when a flow gave up its updates may
  still come, which is an overlap with the next save;
- a newborn has no record, no operation and no other copy before its turn in the queue (`Unborn`), which needs that
  a newborn is taken by one save (`Newborns`) and an id given once (`Numbered`);
- the only copies that are not obsolete are staged, newborn, or made in insert mode (`Copies`).

Only model-checked: liveness (out of the prover's reach, as is ENABLED), what recursive
functions compute for every input (induction over data is out of reach too; `PilesGrow` and
`NumberedInOrder` do by a least counterexample what can be done for functions on numbers), and
the other properties: those of the modules with recursive operators, and `ScanIsSlice`, `AggregateFollows`,
`CatalogsAreSound`, `KeysSort` and `PlacementsAgree`. Worth proving next: `PlacementsAgree`, and
`AggregateFollows`, which needs a theory of sums over finite sets.

## 5. What the models show of the code

Beside the findings, properties name the cases in which the code does less than one
might expect. They are conditions in the properties, and are listed with their modules:

- **IdAssignment**: a fixed id of a caller may be one that another insert has assigned and
  not saved, as may one given in another mode than the ring's. A `min_id_sharded` below the exclusive zone of
  a lower ring passes the checks.
- **RingStack**: an update that goes down from a writable ring and meets a read-only one
  comes up again for the row it still holds, and waits for ever.
- **ChangeCapture**: a crash between the file and the operations of a batch, a failing
  replication, lost and overtaken operations leave the index behind, as does a round that throws on a record
  (block.js:115): the next one goes on behind it, and a crash after that takes the offset back below
  keys whose changes were captured. **BackfillProgress**: after `rebuild()` the file of the previous backfill may
  say that nothing is left to be scanned; a sequence is never marked as filled after a round that threw, a lost
  request for its monitor, or a restart of the source block before `derived` was saved.
- **DerivedSequences**: names are checked before, and `derived` is set as a whole from a loaded
  instance, so two creations may lose one; a removal goes down to the bottom ring
  (`ring === __ring` in object.js:537 compares an instance with a number); a failure midway
  leaves sequences that a second try does not find; a block restarted before `derived` is
  committed has no monitor, nor has one that the request of `_deploy()` did not reach.
- **Reinsertion**: references in read-only rings stay, edits of a record between its scan and its
  overwriting are lost, as are those of an object that was cached before them and is copied from the cache;
  deleting the old record deletes what it strongly refers to, and the
  same id given anew is deleted with the old one. An object put into a lower ring under its own id is
  hidden by an older record of it in a ring between the two. `Struct.transform(null)` is undefined, so
  that properties that are null are dropped.
- **Revisions**: an overwrite makes a second record of the same version; a failing update leaves
  its revision behind; a sealed object does not load when a dependency keeps no revisions.
- **TcpChannel**: a repeated request may be executed again when the watermark went back, or while its first
  copy is executed: the watermark is moved when a request ends.
  **RpcPath**: a request that was cut is never answered. **NodeRouting**: options `node` and
  `worker` are not looked at when the agent runs in the process of the caller; a broadcast
  sends a copy per record of a frame, and records of several frames on a node hide each other.
- **Frame**: `exec()` registers a call some awaits after it found the frame free, so calls that
  come late may overlap; `lock()` takes the last call for the current one. A frame whose `__start__()` throws stays
  registered, and its calls and its `stop()` wait for ever; **Placement**: so does a master that stops its agent.
- **Session**: the edits of a save that fails are gone. **ObjectCache**: an answer that was given before a write
  and comes after it takes the place of the newer version in the cache. **Actions**: a nested action on the
  server takes over the transaction id, and its session is neither committed nor are its
  records handed on; the session of calls without a transaction is reset at every capture,
  so that parallel calls answer with each other's records, or with old ones. What a failed call or
  a nested action had is not sent on, so that an older record of its caller may win.
- **Inheritance**: with diamonds of prototypes an ancestor may be younger than its descendant;
  **Validation**: a length is checked before the trim, NaN and the infinities become null and invalid dates 1970, and
  maps lose entries whose keys differ in blanks; **JsonCodec**: an invalid date comes back as 1970, a plain object that occurs twice is refused as a cycle,
  and keys of maps that look like those of the encoding are misread; **SpotDiff**: overlapping tips
  and a last patch beyond the end give wrong plans; **StructPaths**: the first entry of a catalog is not found
  under its new key when it is renamed, as `filter(Number)` drops position 0 from the index; a move inside of a nested
  catalog looks its key up in the outermost one, a second value for the key of a plain object
  takes the place of the first, and copies share plain objects; **Routing**: within groups a
  parameter may win over a literal, and of equal routes the last exact and the first dynamic one
  count; **Contexts**: calls run in a context that is still booting or failed to boot.

## 6. Not modelled

Pages, widgets and rendering, the browser client, standard containers and files, command
line, installation: input and output. Contents of records beyond what a property tells apart.
RocksDB and MySQL stores hand every call to their libraries. Collation of strings in keys and
percent encoding are functions of the platform. `Block.erase` and `_sync_stores` while calls
run, and several blocks of one sequence (the code always creates one). Boot rings without
`shard3`. Custom operators, types and messages of applications. Import of modules.

To repeat a run: `tlc -config MCBlock.cfg MCBlock.tla`, and likewise for the others; a
proof: `tlapm BlockProofs.tla`, and `ChangeCaptureProofs`, `RingStackRefinement`,
`RpcPathProofs`, `DataProofs`, `ServerProofs`, `ProcessProofs`, `RecordProofs`. The runs
rings, rpc and capture check the module itself, with the constants in the configuration.
