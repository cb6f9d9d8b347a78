----------------------------- MODULE ServerProofs -----------------------------
(***************************************************************************)
(* Proof that frames are orderly (FrameIsOrderly of MCServer), for any     *)
(* number of calls, restarts and failures.                                 *)
(*                                                                         *)
(* The invariant says where a call is that runs.  It is in `calls`, which  *)
(* is all that restart(), stop(), lock() and the queue of exec() look at;  *)
(* and while a restart works or after stop() has waited, only calls run    *)
(* that awaited their database context since they were let in, because     *)
(* `paused` and `stopping` hold the others back.  What the waiting side    *)
(* knows is not that all others have ended, but that those it has in `on`  *)
(* are all that may still run (StopWaits): a call that ends leaves both.   *)
(* Frames get stuck by an error only, and each error comes from a failure  *)
(* or from a lock (Blamed).                                                *)
(*                                                                         *)
(* The placement part of MCServer leaves the frame alone.                  *)
(***************************************************************************)
EXTENDS MCServer, SequenceTheorems, TLAPS

\* The jobs inside, and what a frame may get stuck by.
Inside == F!Inside
Failed == failures > 0 \/ locks # {}

\* The types of the state of a frame.
FrameTypes == /\ calls \in Seq(F!Jobs)
              /\ pc \in [Calls -> {"idle", "low", "starting", "queue", "paused", "context", "lock", "run", "ended"}]
              /\ on \in [Calls \union {"restart", "stop"} -> SUBSET (F!Jobs \union {"error"})]
              /\ round \in Seq(Restarts) /\ (task # "idle" => round # <<>>)
              /\ late \subseteq Calls /\ locks \subseteq Calls
              /\ failures \in Nat

\* A call that runs is in `calls`, and one that awaited its context is known to be late.
RunningInside == \A c \in Calls : /\ F!Running(c) => c \in Inside
                                  /\ pc[c] = "context" => c \in late

\* A frame is paused as long as a restart works on it, and only late calls run in a frame
\* that is closed by one.
RestartAlone == /\ task \in {"pausing", "closing", "opening"} => paused
                /\ task \in {"closing", "opening"} => \A c \in Calls : F!Running(c) => c \in late

\* No call begins in a frame that stops; stop() awaits those that run, but for late ones.
StopWaits == /\ stop # "no" => stopping
             /\ stop = "waiting" => F!Rejected("stop") \/ \A c \in Calls : F!Running(c) => c \in late \union on["stop"]
             /\ stop \in {"closing", "stopped"} => \A c \in Calls : F!Running(c) => c \in late

\* Of two that are inside of an agent that is not concurrent one is late.
OneAtATime == ~concurrent => \A j, k \in Inside : j = k \/ {j, k} \intersect late # {}

\* Locks are held by calls that asked for them, errors come from failures or locks, and so
\* do a start that never ends and a pause that nothing ends.
Blamed == /\ \A w \in Calls \union {"restart", "stop"} : "error" \in on[w] => Failed
          /\ \A c \in Calls : pc[c] = "lock" => Failed
          /\ locked => Failed
          /\ broken => Failed
          /\ paused /\ task \in {"idle", "reload"} => Failed

\* The inductive invariant of a frame.
FrameInv == FrameTypes /\ RunningInside /\ RestartAlone /\ StopWaits /\ OneAtATime /\ Blamed

\* No job has the name of a waiting side, nor of an error.
LEMMA FrameNames ==
    /\ Calls \intersect Restarts = {} /\ F!Jobs = Calls \union Restarts
    /\ \A j \in F!Jobs : j \notin {"restart", "stop", "error"}
BY ServerAssumption DEF F!FrameAssumption, F!Jobs

\* The invariant is as strong as what the run checks.
LEMMA FrameMeans ==
    ASSUME FrameInv
    PROVE  FrameIsOrderly
<1>1. F!ExclusiveUnlessLate
  BY DEF FrameInv, RestartAlone, StopWaits, OneAtATime, Inside, F!ExclusiveUnlessLate, F!NoCallWhenClosed
<1>2. F!StuckOnlyByFailure
  <2>1. ASSUME locked, \A c \in locks : pc[c] = "ended" PROVE Failed
    BY <2>1 DEF FrameInv, Blamed
  <2>2. ASSUME NEW c \in Calls, pc[c] = "lock" PROVE Failed
    BY <2>2 DEF FrameInv, Blamed
  <2> QED BY <2>1, <2>2 DEF FrameInv, Blamed, F!StuckOnlyByFailure, F!Stuck, Failed
<1> QED BY <1>1, <1>2 DEF FrameIsOrderly

\* A frame starts in the invariant, the one at rest too.
LEMMA InitFrame ==
    ASSUME F!Init \/ FrameAtRest
    PROVE  FrameInv
<1>1. /\ calls = <<>> /\ pc = [c \in Calls |-> "idle"]
      /\ on = [w \in Calls \union {"restart", "stop"} |-> {}]
      /\ broken = FALSE /\ paused = FALSE /\ locked = FALSE /\ task = "idle" /\ round = <<>> /\ stop = "no"
      /\ locks = {} /\ late = {} /\ failures = 0
  BY DEF F!Init, FrameAtRest
<1>2. FrameTypes
  <2>1. <<>> \in Seq(F!Jobs) /\ <<>> \in Seq(Restarts)
    OBVIOUS
  <2> QED BY <1>1, <2>1 DEF FrameTypes
<1>3. RunningInside /\ RestartAlone /\ StopWaits /\ Blamed
  BY <1>1 DEF RunningInside, RestartAlone, StopWaits, Blamed, F!Running
<1>4. OneAtATime
  <2>1. Inside = {}
    BY <1>1 DEF Inside, F!Inside, F!ToSet
  <2> QED BY <2>1 DEF OneAtATime
<1> QED BY <1>2, <1>3, <1>4 DEF FrameInv

-----------------------------------------------------------------------------
\* Who is inside after a job was added or taken out.
LEMMA JobAdded ==
    ASSUME FrameInv, NEW j \in F!Jobs, calls' = Append(calls, j)
    PROVE  calls' \in Seq(F!Jobs) /\ Inside' = Inside \union {j}
<1>1. calls \in Seq(F!Jobs) /\ Len(calls) \in Nat
  BY DEF FrameInv, FrameTypes
<1>2. /\ calls' \in Seq(F!Jobs) /\ DOMAIN calls = 1..Len(calls) /\ DOMAIN calls' = 1..Len(calls) + 1
      /\ \A i \in 1..Len(calls) : calls'[i] = calls[i]
      /\ calls'[Len(calls) + 1] = j
  BY <1>1
<1>3. ASSUME NEW x PROVE x \in Inside' <=> x \in Inside \union {j}
  <2>1. \A i \in 1..Len(calls) + 1 : i \in 1..Len(calls) \/ i = Len(calls) + 1
    BY <1>1
  <2>2. Len(calls) + 1 \in 1..Len(calls) + 1 /\ \A i \in 1..Len(calls) : i \in 1..Len(calls) + 1
    BY <1>1
  <2> QED BY <1>2, <2>1, <2>2 DEF Inside, F!Inside, F!ToSet
<1> QED BY <1>2, <1>3

\* RemoveAt() takes out one job and keeps all others.
LEMMA JobRemoved ==
    ASSUME NEW S, NEW s \in Seq(S), NEW i \in DOMAIN s
    PROVE  /\ F!RemoveAt(s, i) \in Seq(S)
           /\ F!ToSet(F!RemoveAt(s, i)) \subseteq F!ToSet(s)
           /\ F!ToSet(s) \subseteq F!ToSet(F!RemoveAt(s, i)) \union {s[i]}
<1>1. i \in 1..Len(s) /\ Len(s) \in Nat
  OBVIOUS
<1>2. PICK front, back : front = SubSeq(s, 1, i - 1) /\ back = SubSeq(s, i + 1, Len(s))
  OBVIOUS
<1>3. /\ front \in Seq(S) /\ Len(front) = i - 1
      /\ \A n \in 1..i - 1 : front[n] = s[n]
  BY <1>1, <1>2
<1>4. /\ back \in Seq(S) /\ Len(back) = Len(s) - i
      /\ \A n \in 1..Len(s) - i : back[n] = s[i + n]
  BY <1>1, <1>2
<1>5. PICK rest : rest = front \o back
  OBVIOUS
<1>6. /\ rest \in Seq(S) /\ Len(rest) = Len(s) - 1
      /\ \A n \in 1..Len(s) - 1 : rest[n] = IF n <= i - 1 THEN front[n] ELSE back[n - (i - 1)]
  BY SMTT(60), <1>1, <1>3, <1>4, <1>5, ConcatProperties
<1>7. \A n \in 1..Len(s) - 1 : rest[n] = IF n < i THEN s[n] ELSE s[n + 1]
  <2> SUFFICES ASSUME NEW n \in 1..Len(s) - 1 PROVE rest[n] = IF n < i THEN s[n] ELSE s[n + 1]
    OBVIOUS
  <2>1. CASE n < i
    <3>1. n <= i - 1 /\ n \in 1..i - 1
      BY <1>1, <2>1
    <3> QED BY <1>3, <1>6, <2>1, <3>1
  <2>2. CASE ~(n < i)
    <3>1. n - (i - 1) \in 1..Len(s) - i /\ i + (n - (i - 1)) = n + 1
      BY <1>1, <2>2
    <3>2. back[n - (i - 1)] = s[n + 1]
      BY <1>4, <3>1
    <3>3. ~(n <= i - 1)
      BY <1>1, <2>2
    <3> QED BY <1>6, <2>2, <3>2, <3>3
  <2> QED BY <2>1, <2>2
<1>8. ASSUME NEW n \in 1..Len(rest) PROVE rest[n] \in F!ToSet(s)
  <2>1. n \in DOMAIN s /\ (n >= i => n + 1 \in DOMAIN s)
    BY <1>1, <1>6
  <2> QED BY <1>1, <1>6, <1>7, <2>1 DEF F!ToSet
<1>9. ASSUME NEW m \in 1..Len(s), m # i PROVE \E n \in 1..Len(rest) : rest[n] = s[m]
  <2>1. CASE m < i
    <3>1. m \in 1..Len(rest) /\ rest[m] = s[m]
      BY <1>1, <1>6, <1>7, <2>1
    <3> QED BY <3>1
  <2>2. CASE m > i
    <3>1. m - 1 \in 1..Len(s) - 1 /\ ~(m - 1 < i) /\ (m - 1) + 1 = m
      BY <1>1, <2>2
    <3>2. m - 1 \in 1..Len(rest) /\ rest[m - 1] = s[m]
      BY <1>6, <1>7, <3>1
    <3> QED BY <3>2
  <2> QED BY <1>1, <1>9, <2>1, <2>2
<1>10. DOMAIN rest = 1..Len(rest) /\ DOMAIN s = 1..Len(s) /\ rest = F!RemoveAt(s, i)
  BY <1>2, <1>5, <1>6 DEF F!RemoveAt
<1>11. F!ToSet(rest) \subseteq F!ToSet(s)
  BY <1>8, <1>10 DEF F!ToSet
<1>12. F!ToSet(s) \subseteq F!ToSet(rest) \union {s[i]}
  <2> SUFFICES ASSUME NEW m \in 1..Len(s) PROVE s[m] \in F!ToSet(rest) \union {s[i]}
    BY <1>10 DEF F!ToSet
  <2> QED BY <1>9, <1>10 DEF F!ToSet
<1> QED BY <1>6, <1>10, <1>11, <1>12

\* A job that is settled leaves, alone, and is taken off what is awaited, or spoils it.
LEMMA Settled ==
    ASSUME FrameInv, NEW j \in F!Jobs, NEW result, F!Settle(j, result)
    PROVE  /\ calls' \in Seq(F!Jobs) /\ Inside' \subseteq Inside /\ Inside \subseteq Inside' \union {j}
           /\ on' \in [Calls \union {"restart", "stop"} -> SUBSET (F!Jobs \union {"error"})]
           /\ \A w \in Calls \union {"restart", "stop"} :
                  \/ on'[w] = on[w]
                  \/ result = "ok" /\ on'[w] = on[w] \ {j}
                  \/ result # "ok" /\ on'[w] = {"error"}
<1>1. calls \in Seq(F!Jobs) /\ on \in [Calls \union {"restart", "stop"} -> SUBSET (F!Jobs \union {"error"})]
  BY DEF FrameInv, FrameTypes
<1>2. PICK i \in DOMAIN calls : calls[i] = j /\ calls' = F!RemoveAt(calls, i)
  BY DEF F!Settle
<1>3. /\ calls' \in Seq(F!Jobs)
      /\ F!ToSet(calls') \subseteq F!ToSet(calls) /\ F!ToSet(calls) \subseteq F!ToSet(calls') \union {j}
  BY <1>1, <1>2, JobRemoved
<1>4. Inside' \subseteq Inside /\ Inside \subseteq Inside' \union {j}
  BY <1>3 DEF Inside, F!Inside, F!ToSet
<1>5. on' = [w \in Calls \union {"restart", "stop"} |->
                 IF j \notin on[w] THEN on[w] ELSE IF result = "ok" THEN on[w] \ {j} ELSE {"error"}]
  BY <1>1 DEF F!Settle
<1>6. on' \in [Calls \union {"restart", "stop"} -> SUBSET (F!Jobs \union {"error"})]
  BY <1>1, <1>5
<1> QED BY <1>3, <1>4, <1>5, <1>6

-----------------------------------------------------------------------------
\* The steps of a call that is not let in, or waits once more.
LEMMA CallWaits ==
    ASSUME FrameInv, NEW c \in Calls,
           NEW where \in {"low", "starting", "queue", "paused", "context", "ended"},
           pc' = [pc EXCEPT ![c] = where],
           late' \in {late, late \union {c}}, where = "context" => c \in late',
           \/ on' = on
           \/ on' = [on EXCEPT ![c] = Inside]
           \/ on' = [on EXCEPT ![c] = {}],
           UNCHANGED <<concurrent, broken, stopping, paused, locked, calls, task, round, stop, locks, failures>>
    PROVE  FrameInv'
<1>1. FrameTypes /\ RunningInside /\ RestartAlone /\ StopWaits /\ OneAtATime /\ Blamed
  BY DEF FrameInv
<1>2. Inside' = Inside /\ Failed' = Failed /\ Inside \subseteq F!Jobs
  BY <1>1 DEF Inside, F!Inside, F!ToSet, Failed, FrameTypes
<1>3. late \subseteq late' /\ late' \subseteq Calls
  BY <1>1 DEF FrameTypes
<1>4. ASSUME NEW d \in Calls
      PROVE  (F!Running(d))' => F!Running(d)
  BY <1>1 DEF FrameTypes, F!Running
<1>5. /\ c \notin {"stop", "restart", "error"} /\ "error" \notin F!Jobs
  BY FrameNames
<1>6. /\ on' \in [Calls \union {"restart", "stop"} -> SUBSET (F!Jobs \union {"error"})]
      /\ on'["stop"] = on["stop"]
      /\ \A w \in Calls \union {"restart", "stop"} : "error" \in on'[w] => "error" \in on[w]
  BY <1>1, <1>2, <1>5 DEF FrameTypes
<1>7. FrameTypes'
  BY <1>1, <1>3, <1>6 DEF FrameTypes, F!Jobs
<1>8. RunningInside'
  <2>1. ASSUME NEW d \in Calls, pc'[d] = "context" PROVE d \in late'
    BY <1>1, <1>3, <2>1 DEF FrameTypes, RunningInside
  <2> QED BY <1>1, <1>2, <1>4, <2>1 DEF RunningInside
<1>9. RestartAlone'
  BY <1>1, <1>3, <1>4 DEF RestartAlone
<1>10. StopWaits'
  BY <1>1, <1>3, <1>4, <1>6 DEF StopWaits, F!Rejected
<1>11. OneAtATime'
  BY <1>1, <1>2, <1>3 DEF OneAtATime
<1>12. Blamed'
  <2>1. ASSUME NEW d \in Calls, pc'[d] = "lock" PROVE pc[d] = "lock"
    BY <1>1, <2>1 DEF FrameTypes
  <2> QED BY <1>1, <1>2, <1>6, <2>1 DEF Blamed
<1> QED BY <1>7, <1>8, <1>9, <1>10, <1>11, <1>12 DEF FrameInv

\* The steps in which a call is let in.
LEMMA CallBegins ==
    ASSUME FrameInv, NEW c \in Calls, F!AtStart(c), calls' = Append(calls, c),
           NEW where \in {"run", "lock"}, pc' = [pc EXCEPT ![c] = where], where = "lock" => Failed',
           NEW W \in SUBSET F!Jobs, on' = on \/ on' = [on EXCEPT ![c] = W],
           locks' \in {locks, locks \union {c}}, locked' => Failed',
           UNCHANGED <<concurrent, broken, stopping, paused, task, round, stop, late, failures>>
    PROVE  FrameInv'
<1>1. FrameTypes /\ RunningInside /\ RestartAlone /\ StopWaits /\ OneAtATime /\ Blamed
  BY DEF FrameInv
<1>2. c \in F!Jobs /\ c \notin {"stop", "restart", "error"} /\ "error" \notin F!Jobs
  BY FrameNames
<1>3. calls' \in Seq(F!Jobs) /\ Inside' = Inside \union {c}
  BY <1>2, JobAdded
<1>4. Failed => Failed'
  BY <1>1 DEF Failed, FrameTypes
<1>5. \/ c \in late
      \/ ~paused /\ ~stopping /\ (concurrent \/ Inside = {})
  <2>1. CASE pc[c] = "context"
    BY <1>1, <2>1 DEF RunningInside
  <2>2. CASE F!FreeToGo(c) /\ ~stopping
    <3>1. concurrent \/ calls = <<>>
      BY <2>2 DEF F!FreeToGo, F!MustQueue
    <3>2. calls = <<>> => Inside = {}
      BY DEF Inside, F!Inside, F!ToSet
    <3> QED BY <2>2, <3>1, <3>2 DEF F!FreeToGo
  <2> QED BY <2>1, <2>2 DEF F!AtStart
<1>6. \A d \in Calls : /\ (F!Running(d))' => d = c \/ F!Running(d)
                       /\ pc'[d] \in {"context", "lock"} => (d = c /\ pc'[d] = where) \/ pc'[d] = pc[d]
  BY <1>1 DEF FrameTypes, F!Running
<1>7. /\ on' \in [Calls \union {"restart", "stop"} -> SUBSET (F!Jobs \union {"error"})]
      /\ on'["stop"] = on["stop"]
      /\ \A w \in Calls \union {"restart", "stop"} : "error" \in on'[w] => "error" \in on[w]
  BY <1>1, <1>2 DEF FrameTypes
<1>8. FrameTypes'
  BY <1>1, <1>3, <1>7 DEF FrameTypes, F!Jobs
<1>9. RunningInside'
  BY <1>1, <1>3, <1>6 DEF RunningInside
<1>10. RestartAlone'
  BY <1>1, <1>5, <1>6 DEF RestartAlone
<1>11. StopWaits'
  BY <1>1, <1>5, <1>6, <1>7 DEF StopWaits, F!Rejected
<1>12. OneAtATime'
  BY <1>1, <1>3, <1>5 DEF OneAtATime
<1>13. Blamed'
  BY <1>1, <1>4, <1>6, <1>7 DEF Blamed
<1> QED BY <1>8, <1>9, <1>10, <1>11, <1>12, <1>13 DEF FrameInv

\* The steps in which a call that runs comes to its end.
LEMMA CallLeaves ==
    ASSUME FrameInv, NEW c \in Calls, NEW result, F!Settle(c, result), pc' = [pc EXCEPT ![c] = "ended"],
           locked' => locked, failures' \in Nat, failures' >= failures, result # "ok" => Failed',
           UNCHANGED <<concurrent, broken, stopping, paused, task, round, stop, locks, late>>
    PROVE  FrameInv'
<1>1. FrameTypes /\ RunningInside /\ RestartAlone /\ StopWaits /\ OneAtATime /\ Blamed
  BY DEF FrameInv
<1>2. c \in F!Jobs /\ "error" \notin F!Jobs
  BY FrameNames
<1>3. /\ calls' \in Seq(F!Jobs) /\ Inside' \subseteq Inside /\ Inside \subseteq Inside' \union {c}
      /\ on' \in [Calls \union {"restart", "stop"} -> SUBSET (F!Jobs \union {"error"})]
      /\ \A w \in Calls \union {"restart", "stop"} :
             \/ on'[w] = on[w]
             \/ result = "ok" /\ on'[w] = on[w] \ {c}
             \/ result # "ok" /\ on'[w] = {"error"}
  BY <1>2, Settled
<1>4. Failed => Failed'
  BY <1>1 DEF Failed, FrameTypes
<1>5. \A d \in Calls : /\ (F!Running(d))' => d # c /\ F!Running(d)
                       /\ pc'[d] \in {"context", "lock"} => pc'[d] = pc[d]
  BY <1>1 DEF FrameTypes, F!Running
<1>6. FrameTypes'
  BY <1>1, <1>3 DEF FrameTypes, F!Jobs
<1>7. RunningInside'
  BY <1>1, <1>3, <1>5 DEF RunningInside
<1>8. RestartAlone'
  BY <1>1, <1>5 DEF RestartAlone
<1>9. StopWaits'
  <2>1. ASSUME stop = "waiting", ~F!Rejected("stop")'
        PROVE  \A d \in Calls : (F!Running(d))' => d \in late \union on'["stop"]
    <3>1. CASE F!Rejected("stop")
      BY <1>2, <1>3, <2>1, <3>1 DEF F!Rejected
    <3>2. CASE \A d \in Calls : F!Running(d) => d \in late \union on["stop"]
      BY <1>3, <1>5, <2>1, <3>2 DEF F!Rejected
    <3> QED BY <1>1, <2>1, <3>1, <3>2 DEF StopWaits
  <2> QED BY <1>1, <1>5, <2>1 DEF StopWaits
<1>10. OneAtATime'
  BY <1>1, <1>3 DEF OneAtATime
<1>11. Blamed'
  BY <1>1, <1>3, <1>4, <1>5 DEF Blamed
<1> QED BY <1>6, <1>7, <1>8, <1>9, <1>10, <1>11 DEF FrameInv

\* All that lock() awaits are jobs.
LEMMA FrontInside ==
    ASSUME FrameInv
    PROVE  F!ToSet(F!Front(calls)) \in SUBSET F!Jobs
<1>1. calls \in Seq(F!Jobs) /\ Len(calls) \in Nat
  BY DEF FrameInv, FrameTypes
<1>2. CASE Len(calls) = 0
  <2>1. Len(F!Front(calls)) = 0
    BY <1>1, <1>2 DEF F!Front
  <2>2. F!Front(calls) \in Seq(F!Jobs)
    BY <1>1, <1>2 DEF F!Front
  <2> QED BY <2>1, <2>2 DEF F!ToSet
<1>3. CASE Len(calls) # 0
  <2>1. F!Front(calls) \in Seq(F!Jobs)
    BY <1>1, <1>3 DEF F!Front
  <2> QED BY <2>1 DEF F!ToSet
<1> QED BY <1>2, <1>3

\* lock() waits once more, or has the frame for itself.
LEMMA LockGoesOn ==
    ASSUME FrameInv, NEW c \in Calls, F!LockNext(c)
    PROVE  FrameInv'
<1>1. FrameTypes /\ RunningInside /\ RestartAlone /\ StopWaits /\ OneAtATime /\ Blamed
  BY DEF FrameInv
<1>2. c \in F!Jobs /\ c \notin {"stop", "restart", "error"} /\ "error" \notin F!Jobs
  BY FrameNames
<1>3. /\ pc[c] = "lock"
      /\ \/ pc' = pc /\ on' = [on EXCEPT ![c] = F!ToSet(F!Front(calls))]
         \/ pc' = [pc EXCEPT ![c] = "run"] /\ on' = on
      /\ UNCHANGED <<concurrent, broken, stopping, paused, locked, calls, task, round, stop, locks, late, failures>>
  BY DEF F!LockNext, F!GoTo, F!flags
<1>4. Inside' = Inside /\ Failed' = Failed
  BY <1>3 DEF Inside, F!Inside, F!ToSet, Failed
<1>5. \A d \in Calls : /\ (F!Running(d))' => F!Running(d)
                       /\ pc'[d] \in {"context", "lock"} => pc'[d] = pc[d]
  BY <1>1, <1>3 DEF FrameTypes, F!Running
<1>6. /\ on' \in [Calls \union {"restart", "stop"} -> SUBSET (F!Jobs \union {"error"})]
      /\ on'["stop"] = on["stop"]
      /\ \A w \in Calls \union {"restart", "stop"} : "error" \in on'[w] => "error" \in on[w]
  BY <1>1, <1>2, <1>3, FrontInside DEF FrameTypes
<1>7. FrameTypes'
  BY <1>1, <1>3, <1>6 DEF FrameTypes, F!Jobs
<1>8. RunningInside'
  BY <1>1, <1>3, <1>4, <1>5 DEF RunningInside
<1>9. RestartAlone'
  BY <1>1, <1>3, <1>5 DEF RestartAlone
<1>10. StopWaits'
  BY <1>1, <1>3, <1>5, <1>6 DEF StopWaits, F!Rejected
<1>11. OneAtATime'
  BY <1>1, <1>3, <1>4 DEF OneAtATime
<1>12. Blamed'
  BY <1>1, <1>3, <1>4, <1>5, <1>6 DEF Blamed
<1> QED BY <1>7, <1>8, <1>9, <1>10, <1>11, <1>12 DEF FrameInv

\* Each step of exec(), lock() and unlock() keeps the invariant.
LEMMA CallStepFrame ==
    ASSUME FrameInv, NEW c \in Calls, F!CallStep(c)
    PROVE  FrameInv'
<1>1. FrameTypes /\ Blamed
  BY DEF FrameInv
<1>2. CASE F!AwaitStart(c)
  BY <1>2, CallWaits DEF F!AwaitStart, F!GoTo, F!flags
<1>3. CASE F!LowPriority(c)
  BY <1>3, CallWaits DEF F!LowPriority, F!GoTo, F!flags, Inside
<1>4. CASE F!Queue(c)
  BY <1>4, CallWaits DEF F!Queue, F!GoTo, F!flags, Inside
<1>5. CASE F!Spoiled(c)
  BY <1>5, CallWaits DEF F!Spoiled, F!GoTo, F!flags
<1>6. CASE F!Hold(c)
  BY <1>6, CallWaits DEF F!Hold, F!GoTo, F!flags
<1>7. CASE F!Refuse(c)
  BY <1>7, CallWaits DEF F!Refuse, F!GoTo, F!flags
<1>8. CASE F!AwaitContext(c)
  BY <1>8, CallWaits DEF F!AwaitContext, F!GoTo, F!flags
<1>9. CASE F!Begin(c)
  <2>1. CASE locked
    BY <1>9, <2>1, CallWaits DEF F!Begin, F!GoTo, F!flags
  <2>2. CASE ~locked
    <3>1. F!AtStart(c) /\ calls' = Append(calls, c) /\ pc' = [pc EXCEPT ![c] = "run"] /\ ~locked'
      BY <1>9, <2>2 DEF F!Begin, F!GoTo, F!flags
    <3>2. {} \in SUBSET F!Jobs
      OBVIOUS
    <3> QED BY <1>9, <3>1, <3>2, CallBegins DEF F!Begin, F!flags
  <2> QED BY <2>1, <2>2
<1>10. CASE F!BeginLock(c)
  <2>1. F!AtStart(c) /\ calls' = Append(calls, c) /\ locks' = locks \union {c}
    BY <1>10 DEF F!BeginLock
  <2>2. Failed'
    BY <2>1 DEF Failed
  <2>3. F!ToSet(F!Front(calls)) \in SUBSET F!Jobs
    BY FrontInside
  <2>4. PICK W \in SUBSET F!Jobs : W = F!ToSet(F!Front(calls))
    BY <2>3
  <2>5. \E where \in {"run", "lock"} : pc' = [pc EXCEPT ![c] = where] /\ (on' = on \/ on' = [on EXCEPT ![c] = W])
    BY <1>10, <2>4 DEF F!BeginLock, F!GoTo
  <2> QED BY <1>10, <2>1, <2>2, <2>5, CallBegins DEF F!BeginLock
<1>11. CASE F!LockNext(c)
  BY <1>11, LockGoesOn
<1>12. CASE F!LockFails(c)
  <2>1. Failed'
    BY <1>1, <1>12 DEF F!LockFails, Blamed, Failed
  <2>2. failures' = failures /\ failures \in Nat /\ failures >= failures
    BY <1>1, <1>12 DEF F!LockFails, FrameTypes
  <2> QED BY <1>12, <2>1, <2>2, CallLeaves DEF F!LockFails, F!GoTo, F!flags
<1>13. CASE F!Return(c)
  <2>1. failures' = failures /\ failures \in Nat /\ failures >= failures
    BY <1>1, <1>13 DEF F!Return, FrameTypes
  <2> QED BY <1>13, <2>1, CallLeaves DEF F!Return, F!GoTo, F!Unlock
<1>14. CASE F!Throw(c)
  <2>1. failures' \in Nat /\ failures' >= failures /\ Failed'
    BY <1>1, <1>14 DEF F!Throw, FrameTypes, Failed
  <2> QED BY <1>14, <2>1, CallLeaves DEF F!Throw, F!GoTo, F!Unlock
<1> QED BY <1>2, <1>3, <1>4, <1>5, <1>6, <1>7, <1>8, <1>9, <1>10, <1>11, <1>12, <1>13, <1>14 DEF F!CallStep

-----------------------------------------------------------------------------
\* The steps of start(), restart() and stop().
LEMMA StartedFrame ==
    ASSUME FrameInv, F!Started
    PROVE  FrameInv'
<1>1. UNCHANGED <<concurrent, broken, stopping, paused, locked, calls, pc, on, task, round, stop, locks, late, failures>>
  BY DEF F!Started
<1>2. Inside' = Inside /\ Failed' = Failed /\ (F!Rejected("stop"))' = F!Rejected("stop")
      /\ \A c \in Calls : (F!Running(c))' = F!Running(c)
  BY <1>1 DEF Inside, F!Inside, F!ToSet, Failed, F!Rejected, F!Running
<1> QED BY <1>1, <1>2 DEF FrameInv, FrameTypes, RunningInside, RestartAlone, StopWaits, OneAtATime, Blamed, F!Jobs

\* A start that fails is blamed on a failure.
LEMMA StartFailsFrame ==
    ASSUME FrameInv, F!StartFails
    PROVE  FrameInv'
<1>1. /\ UNCHANGED <<concurrent, stopping, paused, locked, calls, pc, on, task, round, stop, locks, late>>
      /\ failures' = failures + 1
  BY DEF F!StartFails, F!flags
<1>2. failures \in Nat
  BY DEF FrameInv, FrameTypes
<1>3. Inside' = Inside /\ Failed' /\ failures' \in Nat /\ (F!Rejected("stop"))' = F!Rejected("stop")
      /\ \A c \in Calls : (F!Running(c))' = F!Running(c)
  BY <1>1, <1>2 DEF Inside, F!Inside, F!ToSet, Failed, F!Rejected, F!Running
<1> QED BY <1>1, <1>3 DEF FrameInv, FrameTypes, RunningInside, RestartAlone, StopWaits, OneAtATime, Blamed, F!Jobs

\* The steps of restart() that let no job in or out.
LEMMA TaskWaits ==
    ASSUME FrameInv, UNCHANGED <<concurrent, broken, stopping, locked, calls, pc, stop, locks, late>>,
           on' \in {on, [on EXCEPT !["restart"] = Inside]},
           task' \in {"idle", "reload", "pausing", "opening"}, round' \in Seq(Restarts), task' # "idle" => round' # <<>>,
           task' \in {"pausing", "opening"} => paused',
           task' = "opening" => task = "closing",
           paused' /\ task' \in {"idle", "reload"} => Failed',
           failures' \in Nat, failures' >= failures
    PROVE  FrameInv'
<1>1. FrameTypes /\ RunningInside /\ RestartAlone /\ StopWaits /\ OneAtATime /\ Blamed
  BY DEF FrameInv
<1>2. /\ Inside' = Inside /\ Inside \subseteq F!Jobs /\ (Failed => Failed')
      /\ \A c \in Calls : (F!Running(c))' = F!Running(c)
  BY <1>1 DEF Inside, F!Inside, F!ToSet, Failed, F!Running, FrameTypes
<1>3. "error" \notin F!Jobs
  BY FrameNames
<1>4. /\ on' \in [Calls \union {"restart", "stop"} -> SUBSET (F!Jobs \union {"error"})]
      /\ on'["stop"] = on["stop"]
      /\ \A w \in Calls \union {"restart", "stop"} : "error" \in on'[w] => "error" \in on[w]
  BY <1>1, <1>2, <1>3 DEF FrameTypes
<1>5. FrameTypes'
  BY <1>1, <1>4 DEF FrameTypes, F!Jobs
<1>6. RunningInside' /\ RestartAlone'
  BY <1>1, <1>2 DEF RunningInside, RestartAlone
<1>7. StopWaits'
  BY <1>1, <1>2, <1>4 DEF StopWaits, F!Rejected
<1>8. OneAtATime' /\ Blamed'
  BY <1>1, <1>2, <1>4 DEF OneAtATime, Blamed
<1> QED BY <1>5, <1>6, <1>7, <1>8 DEF FrameInv

\* restart() comes to its end, with the frame resumed, and its job is settled.
LEMMA TaskLeaves ==
    ASSUME FrameInv, NEW r \in Restarts, NEW result, F!Settle(r, result), F!Resume,
           failures' \in Nat, failures' >= failures, result # "ok" => Failed',
           UNCHANGED <<concurrent, broken, stopping, locked, pc, round, stop, locks, late>>
    PROVE  FrameInv'
<1>1. FrameTypes /\ RunningInside /\ RestartAlone /\ StopWaits /\ OneAtATime /\ Blamed
  BY DEF FrameInv
<1>2. r \in F!Jobs /\ r \notin Calls /\ "error" \notin F!Jobs
  BY FrameNames
<1>3. /\ calls' \in Seq(F!Jobs) /\ Inside' \subseteq Inside /\ Inside \subseteq Inside' \union {r}
      /\ on' \in [Calls \union {"restart", "stop"} -> SUBSET (F!Jobs \union {"error"})]
      /\ \A w \in Calls \union {"restart", "stop"} :
             \/ on'[w] = on[w]
             \/ result = "ok" /\ on'[w] = on[w] \ {r}
             \/ result # "ok" /\ on'[w] = {"error"}
  BY <1>2, Settled
<1>4. (Failed => Failed') /\ \A c \in Calls : (F!Running(c))' = F!Running(c)
  BY <1>1 DEF Failed, FrameTypes, F!Running
<1>5. task' = "idle" /\ ~paused'
  BY DEF F!Resume
<1>6. FrameTypes'
  BY <1>1, <1>3, <1>5 DEF FrameTypes, F!Jobs
<1>7. RunningInside' /\ RestartAlone'
  BY <1>1, <1>2, <1>3, <1>4, <1>5 DEF RunningInside, RestartAlone
<1>8. StopWaits'
  <2>1. ASSUME stop = "waiting", ~F!Rejected("stop")'
        PROVE  \A d \in Calls : F!Running(d) => d \in late \union on'["stop"]
    <3>1. CASE F!Rejected("stop")
      BY <1>2, <1>3, <2>1, <3>1 DEF F!Rejected
    <3>2. CASE \A d \in Calls : F!Running(d) => d \in late \union on["stop"]
      BY <1>2, <1>3, <2>1, <3>2 DEF F!Rejected
    <3> QED BY <1>1, <2>1, <3>1, <3>2 DEF StopWaits
  <2> QED BY <1>1, <1>4, <2>1 DEF StopWaits
<1>9. OneAtATime'
  BY <1>1, <1>3 DEF OneAtATime
<1>10. Blamed'
  BY <1>1, <1>3, <1>4, <1>5 DEF Blamed
<1> QED BY <1>6, <1>7, <1>8, <1>9, <1>10 DEF FrameInv

\* The job of restart() is known as long as it works.
LEMMA LastRound ==
    ASSUME FrameInv, task # "idle"
    PROVE  F!Last(round) \in Restarts
<1>1. round \in Seq(Restarts) /\ round # <<>>
  BY DEF FrameInv, FrameTypes
<1>2. Len(round) \in 1..Len(round)
  BY <1>1
<1> QED BY <1>1, <1>2 DEF F!Last

\* Nobody is inside: restart() starts with the job of its own, or gives up.
LEMMA CloseFrame ==
    ASSUME FrameInv, F!Close
    PROVE  FrameInv'
<1>1. FrameTypes /\ RunningInside /\ RestartAlone /\ StopWaits /\ OneAtATime /\ Blamed
  BY DEF FrameInv
<1>2. /\ task = "pausing" /\ calls = <<>>
      /\ UNCHANGED <<concurrent, broken, stopping, locked, pc, on, round, stop, locks, late, failures>>
      /\ \/ calls' = calls /\ task' = "idle" /\ paused' = FALSE
         \/ calls' = <<F!Last(round)>> /\ task' = "closing" /\ paused' = paused
  BY DEF F!Close, F!Resume
<1>3. F!Last(round) \in F!Jobs
  BY <1>2, LastRound, FrameNames
<1>4. Inside = {} /\ \A c \in Calls : ~F!Running(c)
  <2>1. Inside = {}
    BY <1>2 DEF Inside, F!Inside, F!ToSet
  <2> QED BY <1>1, <2>1 DEF RunningInside
<1>5. Failed' = Failed /\ \A c \in Calls : ~(F!Running(c))'
  BY <1>2, <1>4 DEF Failed, F!Running
<1>6. calls' \in Seq(F!Jobs) /\ \A j, k \in Inside' : j = k
  <2>1. CASE calls' = calls
    BY <1>1, <1>4, <2>1 DEF FrameTypes, Inside, F!Inside, F!ToSet
  <2>2. CASE calls' = <<F!Last(round)>>
    <3>1. <<F!Last(round)>> \in Seq(F!Jobs) /\ DOMAIN <<F!Last(round)>> = 1..1
      BY <1>3
    <3>2. \A i \in 1..1 : <<F!Last(round)>>[i] = F!Last(round)
      OBVIOUS
    <3> QED BY <2>2, <3>1, <3>2 DEF Inside, F!Inside, F!ToSet
  <2> QED BY <1>2, <2>1, <2>2
<1>7. FrameTypes'
  BY <1>1, <1>2, <1>6 DEF FrameTypes, F!Jobs
<1>8. RunningInside' /\ RestartAlone'
  BY <1>1, <1>2, <1>5 DEF RunningInside, RestartAlone
<1>9. StopWaits' /\ OneAtATime'
  BY <1>1, <1>2, <1>5, <1>6 DEF StopWaits, OneAtATime, F!Rejected
<1>10. Blamed'
  BY <1>1, <1>2, <1>5 DEF Blamed
<1> QED BY <1>7, <1>8, <1>9, <1>10 DEF FrameInv

\* Each step of restart() keeps the invariant.
LEMMA TaskStepFrame ==
    ASSUME FrameInv, F!TaskStep \/ \E r \in Restarts : F!Reload(r)
    PROVE  FrameInv'
<1>1. FrameTypes /\ RestartAlone /\ Blamed
  BY DEF FrameInv
<1>2. /\ round \in Seq(Restarts) /\ (task # "idle" => round # <<>>)
      /\ failures \in Nat /\ failures >= failures /\ failures + 1 \in Nat /\ failures + 1 >= failures
  BY <1>1 DEF FrameTypes
<1>3. CASE F!ReloadFails
  <2>1. failures' = failures + 1 /\ Failed'
    BY <1>2, <1>3 DEF F!ReloadFails, Failed
  <2> QED BY <1>2, <1>3, <2>1, TaskWaits DEF F!ReloadFails, F!flags
<1>4. CASE F!Pause
  BY <1>2, <1>4, TaskWaits DEF F!Pause, F!flags, Inside
<1>5. CASE F!PauseAgain
  BY <1>1, <1>2, <1>5, TaskWaits DEF F!PauseAgain, F!flags, Inside, RestartAlone
<1>6. CASE F!PauseFails
  <2>1. Failed'
    <3>1. Failed
      BY <1>1, <1>6 DEF F!PauseFails, F!Rejected, Blamed
    <3> QED BY <1>6, <3>1 DEF F!PauseFails, Failed
  <2> QED BY <1>2, <1>6, <2>1, TaskWaits DEF F!PauseFails, F!flags
<1>7. CASE F!Close
  BY <1>7, CloseFrame
<1>8. CASE F!Closed
  BY <1>1, <1>2, <1>8, TaskWaits DEF F!Closed, F!flags, RestartAlone
<1>9. CASE F!Opened
  <2>1. F!Last(round) \in Restarts
    BY <1>9, LastRound DEF F!Opened
  <2> QED BY <1>2, <1>9, <2>1, TaskLeaves DEF F!Opened
<1>10. CASE F!RestartFails
  <2>1. F!Last(round) \in Restarts
    BY <1>10, LastRound DEF F!RestartFails
  <2>2. failures' = failures + 1 /\ Failed'
    BY <1>2, <1>10 DEF F!RestartFails, Failed
  <2> QED BY <1>2, <1>10, <2>1, <2>2, TaskLeaves DEF F!RestartFails
<1>11. ASSUME NEW r \in Restarts, F!Reload(r)
       PROVE  FrameInv'
  <2>1. round' \in Seq(Restarts) /\ round' # <<>>
    BY <1>2, <1>11 DEF F!Reload
  <2>2. paused => Failed
    BY <1>1, <1>11 DEF F!Reload, Blamed
  <2>3. paused' => Failed'
    BY <1>11, <2>2 DEF F!Reload, F!flags, Failed
  <2> QED BY <1>2, <1>11, <2>1, <2>3, TaskWaits DEF F!Reload, F!flags
<1> QED BY <1>3, <1>4, <1>5, <1>6, <1>7, <1>8, <1>9, <1>10, <1>11 DEF F!TaskStep

\* stop() awaits all that run, and goes on when no more than late calls run.
LEMMA StopStepFrame ==
    ASSUME FrameInv, F!Stop \/ F!StopStep
    PROVE  FrameInv'
<1>1. FrameTypes /\ RunningInside /\ RestartAlone /\ StopWaits /\ OneAtATime /\ Blamed
  BY DEF FrameInv
<1>2. /\ UNCHANGED <<concurrent, broken, paused, locked, calls, pc, task, round, locks, late, failures>>
      /\ on' = on \/ on' = [on EXCEPT !["stop"] = Inside]
  BY DEF F!Stop, F!StopStep, F!StopStarted, F!StopWaited, F!StopFails, F!Stopped, F!AwaitCalls, F!flags, Inside
<1>3. /\ Inside' = Inside /\ Inside \subseteq F!Jobs /\ Failed' = Failed
      /\ \A c \in Calls : (F!Running(c))' = F!Running(c)
  BY <1>1, <1>2 DEF Inside, F!Inside, F!ToSet, Failed, F!Running, FrameTypes
<1>4. "error" \notin F!Jobs
  BY FrameNames
<1>5. /\ on' \in [Calls \union {"restart", "stop"} -> SUBSET (F!Jobs \union {"error"})]
      /\ \A w \in Calls \union {"restart", "stop"} : "error" \in on'[w] => "error" \in on[w]
  BY <1>1, <1>2, <1>3, <1>4 DEF FrameTypes
<1>6. FrameTypes'
  BY <1>1, <1>2, <1>5 DEF FrameTypes, F!Jobs
<1>7. RunningInside' /\ RestartAlone' /\ OneAtATime'
  BY <1>1, <1>2, <1>3 DEF RunningInside, RestartAlone, OneAtATime
<1>8. Blamed'
  BY <1>1, <1>2, <1>3, <1>5 DEF Blamed
<1>9. StopWaits'
  <2>1. ASSUME F!AwaitCalls, stopping' PROVE StopWaits'
    <3>1. on'["stop"] = Inside /\ stop' = IF calls = <<>> THEN "closing" ELSE "waiting"
      BY <1>1, <2>1 DEF F!AwaitCalls, FrameTypes, Inside
    <3>2. \A c \in Calls : F!Running(c) => c \in Inside
      BY <1>1 DEF RunningInside
    <3>3. calls = <<>> => Inside = {}
      BY DEF Inside, F!Inside, F!ToSet
    <3> QED BY <1>2, <1>3, <2>1, <3>1, <3>2, <3>3 DEF StopWaits
  <2>2. CASE F!Stop
    <3>1. CASE starting
      BY <1>2, <2>2, <3>1 DEF F!Stop, StopWaits
    <3>2. CASE ~starting
      BY <2>1, <2>2, <3>2 DEF F!Stop
    <3> QED BY <3>1, <3>2
  <2>3. CASE F!StopStarted
    <3>1. F!AwaitCalls /\ stopping'
      BY <1>1, <2>3 DEF F!StopStarted, F!flags, StopWaits
    <3> QED BY <2>1, <3>1
  <2>4. CASE F!StopWaited
    <3>1. stop = "waiting" /\ on["stop"] = {} /\ stopping' = stopping
      BY <2>4 DEF F!StopWaited, F!Fulfilled, F!flags
    <3>2. \A c \in Calls : F!Running(c) => c \in late
      BY <1>1, <3>1 DEF StopWaits, F!Rejected
    <3> QED BY <1>1, <1>2, <1>3, <2>4, <3>1, <3>2 DEF F!StopWaited, StopWaits
  <2>5. CASE F!StopFails
    BY <1>1, <1>2, <2>5 DEF F!StopFails, F!flags, StopWaits
  <2>6. CASE F!Stopped
    BY <1>1, <1>2, <1>3, <2>6 DEF F!Stopped, F!flags, StopWaits
  <2> QED BY <2>2, <2>3, <2>4, <2>5, <2>6 DEF F!StopStep
<1> QED BY <1>6, <1>7, <1>8, <1>9 DEF FrameInv

\* So does a step that leaves the frame alone.
LEMMA RestFrame ==
    ASSUME FrameInv, UNCHANGED framevars
    PROVE  FrameInv'
<1>1. UNCHANGED <<concurrent, broken, stopping, paused, locked, calls, pc, on, task, round, stop, locks, late, failures>>
  BY DEF framevars
<1>2. Inside' = Inside /\ Failed' = Failed /\ (F!Rejected("stop"))' = F!Rejected("stop")
      /\ \A c \in Calls : (F!Running(c))' = F!Running(c)
  BY <1>1 DEF Inside, F!Inside, F!ToSet, Failed, F!Rejected, F!Running
<1> QED BY <1>1, <1>2 DEF FrameInv, FrameTypes, RunningInside, RestartAlone, StopWaits, OneAtATime, Blamed, F!Jobs

\* Calls of an agent that is not concurrent do not overlap but with late ones, none but late
\* ones runs in a closed frame, and a frame gets stuck only after a failure or by its lock.
THEOREM Orderly == Spec => []FrameIsOrderly
<1>1. Init => FrameInv
  BY InitFrame DEF Init
<1>2. FrameInv /\ [Next]_<<part, framevars, placementvars>> => FrameInv'
  <2> SUFFICES ASSUME FrameInv, [Next]_<<part, framevars, placementvars>>
               PROVE  FrameInv'
    OBVIOUS
  <2>1. CASE F!Next
    BY <2>1, StartedFrame, StartFailsFrame, CallStepFrame, TaskStepFrame, StopStepFrame DEF F!Next
  <2>2. CASE UNCHANGED framevars
    BY <2>2, RestFrame
  <2> QED BY <2>1, <2>2 DEF Next
<1> QED BY <1>1, <1>2, FrameMeans, PTL DEF Spec
=============================================================================
