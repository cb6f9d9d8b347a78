------------------------------ MODULE MCServer ------------------------------
(* Instances of Frame and Placement. The two share no state here and are checked side by side: `part` picks one of them,
   and the variables of the other one keep one initial value. *)
EXTENDS Naturals

CONSTANTS Calls, Background, Restarts, MaxLate, MaxLocks, MaxFrameFailures,
          Nodes, Workers, Leader, Agents, Resident, NumReplicas, MaxOps, MaxFailures, MaxCrashes

VARIABLES part,
          concurrent, starting, broken, stopping, paused, locked, calls, pc, on, task, round, stop, open, locks, late, failures,
          atlas, load, op, threads, requests, job, frames, local, saved, view, known, up, fid, ops, faults, crashes,
          failed, orphans, deployed
framevars == <<concurrent, starting, broken, stopping, paused, locked, calls, pc, on, task, round, stop, open, locks, late, failures>>
placementvars == <<atlas, load, op, threads, requests, job, frames, local, saved, view, known, up, fid, ops, faults, crashes,
                   failed, orphans, deployed>>

F == INSTANCE Frame WITH MaxFailures <- MaxFrameFailures
P == INSTANCE Placement WITH calls <- requests, failures <- faults

ASSUME ServerAssumption == F!FrameAssumption /\ P!PlacementAssumption

\* The part that is not picked is in a state in which none of its fair steps is enabled.
FrameAtRest == /\ concurrent = TRUE /\ open = TRUE
               /\ starting = FALSE /\ broken = FALSE /\ stopping = FALSE /\ paused = FALSE /\ locked = FALSE
               /\ calls = << >> /\ pc = [c \in Calls |-> "idle"] /\ on = [w \in Calls \cup {"restart", "stop"} |-> {}]
               /\ task = "idle" /\ round = << >> /\ stop = "no" /\ locks = {} /\ late = {} /\ failures = 0
Init == \/ part = "frame" /\ F!Init /\ P!Init /\ \A n \in Nodes : load[n] = 1
        \/ part = "placement" /\ P!Init /\ FrameAtRest
Next == \/ part = "frame" /\ F!Next /\ UNCHANGED <<part, placementvars>>
        \/ part = "placement" /\ P!Next /\ UNCHANGED <<part, framevars>>
Spec == Init /\ [][Next]_<<part, framevars, placementvars>> /\ F!Progress /\ P!Fairness

----------------------------------------------------------------------------
\* Calls of an agent that is not concurrent do not overlap, none runs in a closed frame, and a frame gets stuck only after a
\* failure or by its lock (Frame).
FrameIsOrderly == F!ExclusiveUnlessLate /\ F!StuckOnlyByFailure
\* Calls are answered and frames stop, unless the frame is stuck (Frame).
CallsAndStopsEnd == F!CallsAndStopsEnd

\* No agent gets a second master, and when all is quiet the tables of the cluster agree (Placement).
PlacementsAgree == P!OneMaster /\ P!TablesAgree
\* The leader's operations come to an end (Placement).
OperationsEnd == P!OperationsEnd
=============================================================================
