------------------------------- MODULE Mutexes -------------------------------
(***************************************************************************)
(* Mutex and Mutexes of schemat/common/structs.js: a map of asynchronous   *)
(* mutexes, one per key, created on first use.  A Block keeps one Mutexes  *)
(* for its rows (lock_row) and one Mutex for all its writes (lock_all); a  *)
(* Mutex is the case of a single key.                                      *)
(*                                                                         *)
(* The code runs on one JavaScript thread, so what happens between two     *)
(* awaits is one step.  A promise that was resolved has not run yet: the   *)
(* caller continues in a later microtask, which is the step Enter.         *)
(***************************************************************************)
EXTENDS Naturals, Sequences

CONSTANTS Keys,    \* keys of the map
          Procs    \* calls of Mutexes.run_exclusive() that may overlap

VARIABLES present, \* keys that have an entry in Mutexes._map
          locked,  \* locked[k]: Mutex.locked of the entry
          queue,   \* queue[k]: Mutex.queue, the callers whose promise is pending
          pc,      \* where each call is
          key      \* key[p]: the key that call p asked for

vars == <<present, locked, queue, pc, key>>

\* "waiting": awaits the promise in the queue; "granted": acquired, not resumed;
\* "inside": fn() runs, `released` is false; "outside": fn() runs after it
\* called its release argument, `released` is true.
PC == {"idle", "waiting", "granted", "inside", "outside"}

TypeOK == /\ present \in SUBSET Keys
          /\ locked \in [Keys -> BOOLEAN]
          /\ queue \in [Keys -> Seq(Procs)]
          /\ pc \in [Procs -> PC]
          /\ key \in [Procs -> Keys]
          /\ \A k \in Keys : locked[k] \/ queue[k] # <<>> => k \in present

Init == /\ present = {}
        /\ locked = [k \in Keys |-> FALSE]
        /\ queue = [k \in Keys |-> <<>>]
        /\ pc = [p \in Procs |-> "idle"]
        /\ key \in [Procs -> Keys]

-----------------------------------------------------------------------------
\* Mutexes.acquire(key) on a mutex that is free, or not in the map yet.
AcquireFree(p, k) ==
    /\ pc[p] = "idle"
    /\ ~locked[k]
    /\ present' = present \union {k}
    /\ locked' = [locked EXCEPT ![k] = TRUE]
    /\ pc' = [pc EXCEPT ![p] = "granted"]
    /\ key' = [key EXCEPT ![p] = k]
    /\ UNCHANGED queue

\* Mutexes.acquire(key) on a locked mutex: the promise goes to the queue.
AcquireBusy(p, k) ==
    /\ pc[p] = "idle"
    /\ locked[k]
    /\ queue' = [queue EXCEPT ![k] = Append(@, p)]
    /\ pc' = [pc EXCEPT ![p] = "waiting"]
    /\ key' = [key EXCEPT ![p] = k]
    /\ UNCHANGED <<present, locked>>

\* The awaited acquire() returns and fn(release) starts.
Enter(p) ==
    /\ pc[p] = "granted"
    /\ pc' = [pc EXCEPT ![p] = "inside"]
    /\ UNCHANGED <<present, locked, queue, key>>

\* Mutants of Release: the mutex is freed although it was handed over; nobody is
\* woken up; the last caller is.
Release_FreeAnyway(p, next) ==
    LET k == key[p] IN
    /\ locked' = [locked EXCEPT ![k] = FALSE]
    /\ IF queue[k] # <<>>
       THEN /\ queue' = [queue EXCEPT ![k] = Tail(@)]
            /\ pc' = [pc EXCEPT ![Head(queue[k])] = "granted", ![p] = next]
       ELSE /\ pc' = [pc EXCEPT ![p] = next]
            /\ UNCHANGED queue
    /\ UNCHANGED <<present, key>>

Release_NoWakeup(p, next) ==
    /\ locked' = [locked EXCEPT ![key[p]] = FALSE]
    /\ pc' = [pc EXCEPT ![p] = next]
    /\ UNCHANGED <<present, queue, key>>

Release_LastFirst(p, next) ==
    LET k == key[p]
        n == Len(queue[k]) IN
    /\ IF n > 0
       THEN /\ queue' = [queue EXCEPT ![k] = SubSeq(@, 1, n - 1)]
            /\ pc' = [pc EXCEPT ![queue[k][n]] = "granted", ![p] = next]
            /\ UNCHANGED locked
       ELSE /\ locked' = [locked EXCEPT ![k] = FALSE]
            /\ pc' = [pc EXCEPT ![p] = next]
            /\ UNCHANGED queue
    /\ UNCHANGED <<present, key>>

(***************************************************************************)
(* The release() closure for call p, which continues at `next`: the entry  *)
(* leaves the map if the mutex is not locked (never the case before        *)
(* mutex.release()), then the first waiting promise is resolved, the mutex *)
(* staying locked for it, or the mutex becomes free.                       *)
(***************************************************************************)
Release(p, next) ==
    LET k == key[p] IN
    /\ present' = IF locked[k] THEN present ELSE present \ {k}
    /\ IF queue[k] # <<>>
       THEN /\ queue' = [queue EXCEPT ![k] = Tail(@)]
            /\ pc' = [pc EXCEPT ![Head(queue[k])] = "granted", ![p] = next]
            /\ UNCHANGED locked
       ELSE /\ locked' = [locked EXCEPT ![k] = FALSE]
            /\ pc' = [pc EXCEPT ![p] = next]
            /\ UNCHANGED queue
    /\ UNCHANGED key

\* fn() calls its argument and goes on outside the lock.
ReleaseEarly(p) == pc[p] = "inside" /\ Release(p, "outside")

\* Mutant of Finish: no `finally`, the caller that throws keeps the mutex.
Finish_Throws(p) ==
    /\ pc[p] = "inside"
    /\ pc' = [pc EXCEPT ![p] = "idle"]
    /\ UNCHANGED <<present, locked, queue, key>>

\* fn() returned or threw: `finally` calls release() the first time.
Finish(p) == pc[p] = "inside" /\ Release(p, "idle")

\* fn() returned or threw after an early release: release() does nothing more.
FinishReleased(p) ==
    /\ pc[p] = "outside"
    /\ pc' = [pc EXCEPT ![p] = "idle"]
    /\ UNCHANGED <<present, locked, queue, key>>

Step(p) == Enter(p) \/ ReleaseEarly(p) \/ Finish(p) \/ FinishReleased(p)

Next == \E p \in Procs : \/ \E k \in Keys : AcquireFree(p, k) \/ AcquireBusy(p, k)
                         \/ Step(p)

Spec == Init /\ [][Next]_vars

\* A resolved promise is resumed and the functions run under the lock end.
Fairness == \A p \in Procs : WF_vars(Enter(p)) /\ WF_vars(Finish(p))
FairSpec == Spec /\ Fairness

-----------------------------------------------------------------------------
Owner(p) == pc[p] \in {"granted", "inside"}
OwnerOf(p, k) == Owner(p) /\ key[p] = k

\* At most one call is past acquire() and before release() on a key, and then
\* the mutex is locked: what lock_row() and lock_all() of a block rely on.
MutualExclusion ==
    /\ \A p, q \in Procs : Owner(p) /\ Owner(q) /\ key[p] = key[q] => p = q
    /\ \A p \in Procs : Owner(p) => locked[key[p]]

Queued(p, k) == \E i \in DOMAIN queue[k] : queue[k][i] = p

QueuesHoldWaiters ==
    \A k \in Keys, p \in Procs : Queued(p, k) <=> (pc[p] = "waiting" /\ key[p] = k)
QueuedOnce == \A k \in Keys : \A i, j \in DOMAIN queue[k] : queue[k][i] = queue[k][j] => i = j
LockedHasOwner == \A k \in Keys : locked[k] => \E p \in Procs : OwnerOf(p, k)
QueueOnlyBehindOwner == \A k \in Keys : queue[k] # <<>> => locked[k]

\* No wakeup is lost: every waiting call stands in the queue of its key, once,
\* nobody else does, and as long as a queue is not empty some call owns the
\* mutex and will hand it over.
NoLostWakeup == QueuesHoldWaiters /\ QueuedOnce /\ LockedHasOwner /\ QueueOnlyBehindOwner

\* What the rest of a block takes for granted of its locks: they exclude, and no
\* caller is forgotten behind one that is free or that nobody will release.
LockSafety == MutualExclusion /\ NoLostWakeup

\* The lines of FifoLock: the owner of the mutex, then its queue.
line == [k \in Keys |->
            IF \E p \in Procs : OwnerOf(p, k)
            THEN <<CHOOSE p \in Procs : OwnerOf(p, k)>> \o queue[k]
            ELSE <<>>]

Fifo == INSTANCE FifoLock

\* The map of mutexes is a first-come first-served lock per key: a call never
\* overtakes another one and the lock passes only when its owner leaves.
ImplementsFifoLock == Fifo!Spec

\* A caller that waits for a key gets it, if those that hold it finish.
EveryWaiterEnters == \A p \in Procs : pc[p] = "waiting" ~> pc[p] = "inside"
=============================================================================
