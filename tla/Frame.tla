------------------------------- MODULE Frame -------------------------------
(***************************************************************************)
(* A frame: an agent running in a process, and the calls made to it        *)
(* (schemat/server/frame.js: Frame, Recurrent).                            *)
(*                                                                         *)
(* exec() lets a call in when the agent is started, nobody is inside of an *)
(* agent that is not concurrent, no call has taken the exclusive lock and  *)
(* the frame is not paused; a call is inside from the moment its promise   *)
(* is in `calls` until it is settled.  Two recurrent tasks work on the     *)
(* frame: restart() reloads the agent and closes and opens its state while *)
(* the frame is paused; background() is a call that may first wait until   *)
(* the agent is idle.  stop() waits for the calls inside and closes the    *)
(* state.                                                                  *)
(*                                                                         *)
(* All these wait by Promise.all() on the jobs that are inside at that     *)
(* moment, which ends when all are fulfilled or the first one is rejected. *)
(***************************************************************************)
EXTENDS Naturals, Sequences, SequencesExt, FiniteSets

CONSTANTS Calls,        \* calls of exec(), each made at most once
          Background,   \* those of them that background() makes
          Restarts,     \* rounds of the recurrent task restart()
          MaxLate,      \* bound: calls that find their database context unloaded
          MaxLocks,     \* bound: calls that ask for lock()
          MaxFailures   \* bound: calls, restarts and starts that fail

Jobs == Calls \union Restarts

FrameAssumption ==
    /\ Background \subseteq Calls /\ Calls \intersect Restarts = {}
    /\ {"restart", "stop", "error"} \intersect Jobs = {}
    /\ {MaxLate, MaxLocks, MaxFailures} \subseteq Nat

VARIABLES concurrent,  \* the property of the agent, never changed
          starting,    \* .starting holds a promise
          broken,      \* __start__() threw: nothing resolves .starting any more
          stopping, paused, locked,
          calls,       \* .calls: the jobs inside
          pc,          \* pc[c]: where call c is
          on,          \* on[w]: jobs that w awaits by Promise.all()
          task,        \* where restart() is
          round,       \* the rounds of restart() so far, the last one running
          stop,        \* where stop() is
          open,        \* the state is open: after __start__(), before __stop__()
          locks,       \* calls that asked for the exclusive lock
          late,        \* history: calls that awaited their context
          failures     \* number of failures

flags == <<concurrent, starting, stopping, paused, locked>>
vars == <<flags, broken, calls, pc, on, task, round, stop, open, locks, late, failures>>

TypeOK == /\ {concurrent, starting, broken, stopping, paused, locked, open} \subseteq BOOLEAN
          /\ calls \in Seq(Jobs)
          /\ pc \in [Calls -> {"idle", "low", "starting", "queue", "paused", "context",
                               "lock", "run", "ended"}]
          /\ on \in [Calls \union {"restart", "stop"} -> SUBSET (Jobs \union {"error"})]
          /\ task \in {"idle", "reload", "pausing", "closing", "opening"}
          /\ round \in Seq(Restarts)
          /\ stop \in {"no", "starting", "waiting", "closing", "stopped", "failed"}
          /\ locks \subseteq Calls /\ late \subseteq Calls
          /\ failures \in 0..MaxFailures

Init == /\ concurrent \in BOOLEAN
        /\ starting = TRUE /\ broken = FALSE
        /\ stopping = FALSE /\ paused = FALSE /\ locked = FALSE
        /\ calls = <<>>
        /\ pc = [c \in Calls |-> "idle"]
        /\ on = [w \in Calls \union {"restart", "stop"} |-> {}]
        /\ task = "idle" /\ round = <<>>
        /\ stop = "no" /\ open = FALSE
        /\ locks = {} /\ late = {} /\ failures = 0

Inside == ToSet(calls)

\* Mutant of Settle: the job stays in `calls`.
Settle_Stays(j, result) ==
    /\ UNCHANGED calls
    /\ on' = [w \in DOMAIN on |-> on[w] \ {j}]

\* The promise of job j is settled, and it leaves `calls`: a Promise.all() that
\* has j awaits the others, or is rejected.
Settle(j, result) ==
    /\ \E i \in DOMAIN calls : calls[i] = j /\ calls' = RemoveAt(calls, i)
    /\ on' = [w \in DOMAIN on |-> IF j \notin on[w] THEN on[w]
                                 ELSE IF result = "ok" THEN on[w] \ {j} ELSE {"error"}]

Fulfilled(w) == on[w] = {}
Rejected(w) == on[w] = {"error"}

CanFail == failures < MaxFailures

-----------------------------------------------------------------------------
\* start(): __start__() is done.
Started == /\ starting /\ ~broken
           /\ starting' = FALSE /\ open' = TRUE
           /\ UNCHANGED <<concurrent, broken, stopping, paused, locked, calls, pc, on, task,
                          round, stop, locks, late, failures>>

\* It throws, or the reload before it: the frame, registered already, is left
\* starting, and whoever awaits .starting waits forever.
StartFails == /\ starting /\ ~broken /\ CanFail
              /\ broken' = TRUE
              /\ failures' = failures + 1
              /\ UNCHANGED <<flags, calls, pc, on, task, round, stop, open, locks, late>>

-----------------------------------------------------------------------------
\* exec()

\* A call stands at the head of the loop of exec(): it is new, or what it waited
\* for is over.
AtCheck(c) == \/ pc[c] = "idle" /\ ~starting
              \/ pc[c] = "low" /\ Fulfilled(c) /\ calls = <<>> /\ ~stopping
              \/ pc[c] = "starting" /\ ~starting
              \/ pc[c] = "queue" /\ Fulfilled(c)
              \/ pc[c] = "paused" /\ ~paused

MustQueue == (locked \/ ~concurrent) /\ calls # <<>>
\* Mutant of FreeToGo: after waiting in the queue nothing is looked at again.
FreeToGo_Once(c) == AtCheck(c) /\ (pc[c] = "queue" \/ (~MustQueue /\ ~paused))

FreeToGo(c) == AtCheck(c) /\ ~MustQueue /\ ~paused

GoTo(c, where) == pc' = [pc EXCEPT ![c] = where]

AwaitStart(c) == /\ pc[c] = "idle" /\ starting /\ c \notin Background
                 /\ GoTo(c, "starting")
                 /\ UNCHANGED <<flags, broken, calls, on, task, round, stop, open, locks,
                                late, failures>>

\* background() of low priority waits until nobody is inside; it gives up when
\* the frame is stopping.
LowPriority(c) == /\ c \in Background
                  /\ (pc[c] = "idle" /\ ~starting) \/ (pc[c] = "low" /\ Fulfilled(c))
                  /\ IF stopping THEN GoTo(c, "ended") /\ UNCHANGED on
                     ELSE /\ calls # <<>>
                          /\ GoTo(c, "low")
                          /\ on' = [on EXCEPT ![c] = Inside]
                  /\ UNCHANGED <<flags, broken, calls, task, round, stop, open, locks, late,
                                 failures>>

Queue(c) == /\ AtCheck(c) /\ MustQueue
            /\ GoTo(c, "queue")
            /\ on' = [on EXCEPT ![c] = Inside]
            /\ UNCHANGED <<flags, broken, calls, task, round, stop, open, locks, late, failures>>

\* A job that the call waited for is rejected, and so is the call itself.
Spoiled(c) == /\ pc[c] \in {"queue", "low"} /\ Rejected(c)
              /\ GoTo(c, "ended")
              /\ on' = [on EXCEPT ![c] = {}]
              /\ UNCHANGED <<flags, broken, calls, task, round, stop, open, locks, late,
                             failures>>

Hold(c) == /\ AtCheck(c) /\ ~MustQueue /\ paused
           /\ GoTo(c, "paused")
           /\ UNCHANGED <<flags, broken, calls, on, task, round, stop, open, locks, late,
                          failures>>

\* StoppingNow is thrown.
Refuse(c) == /\ FreeToGo(c) /\ stopping
             /\ GoTo(c, "ended")
             /\ UNCHANGED <<flags, broken, calls, on, task, round, stop, open, locks, late,
                            failures>>

\* app_context() awaits the database of the context before it makes the call.
AwaitContext(c) == /\ FreeToGo(c) /\ ~stopping
                   /\ Cardinality(late) < MaxLate
                   /\ GoTo(c, "context")
                   /\ late' = late \union {c}
                   /\ UNCHANGED <<flags, broken, calls, on, task, round, stop, open, locks,
                                  failures>>

AtStart(c) == (FreeToGo(c) /\ ~stopping) \/ pc[c] = "context"

\* The method is called and its promise tracked; _frame_context() throws if some
\* call has the exclusive lock.
Begin(c) == /\ AtStart(c)
            /\ IF locked THEN GoTo(c, "ended") /\ UNCHANGED calls
               ELSE GoTo(c, "run") /\ calls' = Append(calls, c)
            /\ UNCHANGED <<flags, broken, on, task, round, stop, open, locks, late, failures>>

\* The method starts with lock().  It runs up to its first await before its own
\* promise is tracked, and takes the last job for itself.
BeginLock(c) ==
    /\ AtStart(c) /\ ~locked
    /\ Cardinality(locks) < MaxLocks
    /\ locked' = TRUE
    /\ locks' = locks \union {c}
    /\ calls' = Append(calls, c)
    /\ IF Len(calls) > 1 THEN GoTo(c, "lock") /\ on' = [on EXCEPT ![c] = ToSet(Front(calls))]
       ELSE GoTo(c, "run") /\ UNCHANGED on
    /\ UNCHANGED <<concurrent, broken, starting, stopping, paused, task, round, stop, open,
                   late, failures>>

\* lock(): those awaited are done; wait again unless nobody else is inside.
LockNext(c) ==
    /\ pc[c] = "lock" /\ Fulfilled(c)
    /\ IF Len(calls) > 1 THEN on' = [on EXCEPT ![c] = ToSet(Front(calls))] /\ UNCHANGED pc
       ELSE GoTo(c, "run") /\ UNCHANGED on
    /\ UNCHANGED <<flags, broken, calls, task, round, stop, open, locks, late, failures>>

\* lock() is rejected with one of the jobs it awaits, and leaves `locked` set.
LockFails(c) == /\ pc[c] = "lock" /\ Rejected(c)
                /\ GoTo(c, "ended")
                /\ Settle(c, "error")
                /\ UNCHANGED <<flags, broken, task, round, stop, open, locks, late, failures>>

Unlock(c) == locked' = (locked /\ c \notin locks)

\* The method returns.  exec() saves what it left in its session after that, when
\* the call is not in `calls` any more.
Return(c) == /\ pc[c] = "run"
             /\ GoTo(c, "ended")
             /\ Settle(c, "ok")
             /\ Unlock(c)
             /\ UNCHANGED <<concurrent, broken, starting, stopping, paused, task, round, stop, open,
                            locks, late, failures>>

Throw(c) == /\ pc[c] = "run" /\ CanFail
            /\ GoTo(c, "ended")
            /\ Settle(c, "error")
            /\ Unlock(c)
            /\ failures' = failures + 1
            /\ UNCHANGED <<concurrent, broken, starting, stopping, paused, task, round, stop, open,
                           locks, late>>

-----------------------------------------------------------------------------
\* restart(), scheduled again and again until stop() clears the timer

Reload(r) == /\ task = "idle" /\ ~starting
             /\ ~stopping
             /\ r \notin ToSet(round)
             /\ task' = "reload"
             /\ round' = Append(round, r)
             /\ UNCHANGED <<flags, broken, calls, pc, on, stop, open, locks, late, failures>>

ReloadFails == /\ task = "reload" /\ CanFail
               /\ task' = "idle"
               /\ failures' = failures + 1
               /\ UNCHANGED <<flags, broken, calls, pc, on, round, stop, open, locks, late>>

\* pause(): waits for the end of a pause before, then sets its own.
Pause == /\ task = "reload" /\ ~paused
         /\ paused' = TRUE
         /\ on' = [on EXCEPT !["restart"] = Inside]
         /\ task' = "pausing"
         /\ UNCHANGED <<concurrent, broken, starting, stopping, locked, calls, pc, round, stop,
                        open, locks, late, failures>>

PauseAgain == /\ task = "pausing" /\ Fulfilled("restart") /\ calls # <<>>
              /\ on' = [on EXCEPT !["restart"] = Inside]
              /\ UNCHANGED <<flags, broken, calls, pc, task, round, stop, open, locks, late,
                             failures>>

\* pause() is rejected with a call it awaits: restart() ends without resume().
PauseFails == /\ task = "pausing" /\ Rejected("restart")
              /\ task' = "idle"
              /\ UNCHANGED <<flags, broken, calls, pc, on, round, stop, open, locks, late,
                             failures>>

Resume == paused' = FALSE /\ task' = "idle"

\* Mutant of Close: the early return leaves the frame paused.
Close_StaysPaused ==
    /\ task = "pausing" /\ Fulfilled("restart") /\ calls = <<>>
    /\ IF stopping \/ locked THEN task' = "idle" /\ UNCHANGED <<calls, paused>>
       ELSE /\ task' = "closing"
            /\ calls' = <<Last(round)>>
            /\ UNCHANGED paused
    /\ UNCHANGED <<concurrent, broken, starting, stopping, locked, pc, on, round, stop, open, locks,
                   late, failures>>

\* Nobody is inside: __stop__() of the previous instance starts, as a tracked
\* job.  Not done if the frame is stopping or a lock was left behind.
Close == /\ task = "pausing" /\ Fulfilled("restart") /\ calls = <<>>
         /\ IF stopping \/ locked THEN Resume /\ UNCHANGED calls
            ELSE /\ task' = "closing"
                 /\ calls' = <<Last(round)>>
                 /\ UNCHANGED paused
         /\ UNCHANGED <<concurrent, broken, starting, stopping, locked, pc, on, round, stop,
                        open, locks, late, failures>>

Closed == /\ task = "closing"
          /\ open' = FALSE
          /\ task' = "opening"
          /\ UNCHANGED <<flags, broken, calls, pc, on, round, stop, locks, late, failures>>

\* __start__() of the new instance is done, the frame is resumed.
Opened == /\ task = "opening"
          /\ open' = TRUE
          /\ Settle(Last(round), "ok")
          /\ Resume
          /\ UNCHANGED <<concurrent, broken, starting, stopping, locked, pc, round, stop, locks,
                         late, failures>>

\* An error in either: the previous instance stays, whatever became of its state.
RestartFails == /\ task \in {"closing", "opening"} /\ CanFail
                /\ failures' = failures + 1
                /\ Settle(Last(round), "error")
                /\ Resume
                /\ UNCHANGED <<concurrent, broken, starting, stopping, locked, pc, round, stop, open,
                               locks, late>>

-----------------------------------------------------------------------------
\* stop()

\* The calls inside are awaited, once.
AwaitCalls == /\ on' = [on EXCEPT !["stop"] = Inside]
              /\ stop' = IF calls = <<>> THEN "closing" ELSE "waiting"

Stop == /\ stop = "no"
        /\ stopping' = TRUE
        /\ IF starting THEN stop' = "starting" /\ UNCHANGED on ELSE AwaitCalls
        /\ UNCHANGED <<concurrent, broken, starting, paused, locked, calls, pc, task, round,
                       open, locks, late, failures>>

StopStarted == /\ stop = "starting" /\ ~starting
               /\ AwaitCalls
               /\ UNCHANGED <<flags, broken, calls, pc, task, round, open, locks, late, failures>>

StopWaited == /\ stop = "waiting" /\ Fulfilled("stop")
              /\ stop' = "closing"
              /\ UNCHANGED <<flags, broken, calls, pc, on, task, round, open, locks, late,
                             failures>>

\* stop() is rejected with a call it awaits, or finds a lock left behind:
\* __stop__() is not called.
StopFails == /\ \/ stop = "waiting" /\ Rejected("stop")
                \/ stop = "closing" /\ locked
             /\ stop' = "failed"
             /\ UNCHANGED <<flags, broken, calls, pc, on, task, round, open, locks, late,
                            failures>>

Stopped == /\ stop = "closing" /\ ~locked
           /\ stop' = "stopped"
           /\ open' = FALSE
           /\ UNCHANGED <<flags, broken, calls, pc, on, task, round, locks, late, failures>>

-----------------------------------------------------------------------------
CallStep(c) ==
    \/ AwaitStart(c) \/ LowPriority(c) \/ Queue(c) \/ Spoiled(c) \/ Hold(c) \/ Refuse(c)
    \/ AwaitContext(c) \/ Begin(c) \/ BeginLock(c) \/ LockNext(c) \/ LockFails(c)
    \/ Return(c) \/ Throw(c)

TaskStep == ReloadFails \/ Pause \/ PauseAgain \/ PauseFails \/ Close \/ Closed \/ Opened
            \/ RestartFails
StopStep == StopStarted \/ StopWaited \/ StopFails \/ Stopped

Next == \/ Started \/ StartFails
        \/ \E c \in Calls : CallStep(c)
        \/ \E r \in Restarts : Reload(r)
        \/ TaskStep
        \/ Stop \/ StopStep

Spec == Init /\ [][Next]_vars

\* What was started proceeds, and __start__() ends or fails.
Progress == /\ WF_vars(Started)
            /\ \A c \in Calls : WF_vars(pc[c] # "idle" /\ CallStep(c))
            /\ WF_vars(TaskStep)
            /\ WF_vars(StopStep)

FairSpec == Spec /\ Progress

-----------------------------------------------------------------------------
Running(c) == pc[c] \in {"run", "lock"}

\* While the state is closed, between the two halves of a restart or after the
\* frame was stopped, no call is inside but one that awaited its context since
\* it was let in: exec() does not look again (frame.js:257-290).
NoCallWhenClosed ==
    task = "opening" \/ stop = "stopped" => \A c \in Calls : Running(c) => c \in late

\* Calls of an agent that is not concurrent do not overlap with each other nor
\* with a restart, unless one of them awaited its context; and no call is inside
\* a closed frame.
ExclusiveUnlessLate ==
    /\ NoCallWhenClosed
    /\ ~concurrent => \A j, k \in Inside : j = k \/ {j, k} \intersect late # {}

\* Nothing will resolve .starting, or set `paused` or `locked` back: __start__()
\* threw, or restart() ended in pause(), or lock() was rejected, or it awaits its
\* own call.
Stuck == \/ broken
         \/ paused /\ task \in {"idle", "reload"}
         \/ locked /\ \A c \in locks : pc[c] = "ended"
         \/ \E c \in Calls : pc[c] = "lock" /\ c \in on[c]

\* Every call is answered, and a frame told to stop stops, unless .starting,
\* `paused` or `locked` is stuck (frame.js:113-114, 176, 258).
CallsAndStopsEnd ==
    /\ \A c \in Calls : pc[c] # "idle" ~> (pc[c] = "ended" \/ Stuck)
    /\ stopping ~> (stop \in {"stopped", "failed"} \/ Stuck)

\* A frame gets stuck only after a call, a start or a restart has failed, or by lock().
StuckOnlyByFailure == Stuck => failures > 0 \/ locks # {}
=============================================================================
