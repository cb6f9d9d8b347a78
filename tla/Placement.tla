----------------------------- MODULE Placement -----------------------------
(***************************************************************************)
(* Deployment of agents in the cluster: the leader (schemat/server/        *)
(* cluster.js, control.js), the master and worker processes of the nodes   *)
(* (schemat/server/node.js, kernel.js) and the routing tables they keep    *)
(* (schemat/server/atlas.js).                                              *)
(*                                                                         *)
(* The leader executes one operation at a time.  For each deployment it    *)
(* calls the master of a node, which starts a frame in a worker process,   *)
(* enters it in its local atlas and saves the list in the database; then   *)
(* the leader enters it in the atlas of the cluster and sends this to all  *)
(* nodes, which route requests by it.  An atlas as received knows only of  *)
(* nodes that have frames.  Calls to a node that is down fail or are left  *)
(* unanswered; at boot it starts the frames of the list that was saved.    *)
(* The leader and the masters are agents without `concurrent`, so each     *)
(* executes its calls one after another (see Frame).                       *)
(***************************************************************************)
EXTENDS Naturals, Integers, Sequences, SequencesExt, FiniteSets

CONSTANTS Nodes, Workers, Leader,   \* Leader: the node where the leader runs
          Agents,                   \* agents that are deployed and removed
          Resident,                 \* an agent that runs on some nodes from the start
          NumReplicas,              \* replicas that sequences ask for
          MaxOps, MaxFailures, MaxCrashes   \* bounds

PlacementAssumption == /\ Leader \in Nodes /\ Workers \subseteq Nat \ {0}
                       /\ Resident \notin Agents
                       /\ NumReplicas \subseteq 0..Cardinality(Nodes) - 1

Roles == {"$master", "$replica"}

VARIABLES atlas,    \* atlas of the leader: frames [fid, node, worker, agent, role]
          load,     \* num_frames of each node, for the leader
          op,       \* the operation that the leader executes
          threads,  \* calls of _start_agent() and _stop_agent() not finished
          calls,    \* calls[n]: requests waiting for the master of n
          job,      \* job[n]: the request that the master of n executes
          frames,   \* frames[n]: frames registered in the kernels of the workers of n
          local,    \* local[n]: the local atlas
          saved,    \* saved[n]: the agents of n in the database
          view,     \* view[n]: the atlas of the cluster as n knows it
          known,    \* known[n]: nodes that n can send requests to
          up, fid,
          ops, failures, crashes,
          failed,   \* history: some operation failed
          orphans,  \* history: agents with a start that failed or was forgotten
          deployed  \* history: agents whose last deployment succeeded

leader == <<atlas, load, op, threads>>
node == <<job, frames, local, saved, view, known>>
vars == <<leader, node, calls, up, fid, ops, failures, crashes, failed, orphans, deployed>>

Idle == [kind |-> "none"]
At(set, n) == {f \in set : f.node = n}
Of(set, a) == {f \in set : f.agent = a}
InRole(set, role) == {f \in set : f.role = role}
Stored == UNION {saved[n] : n \in Nodes}

\* The resident agent runs on the leader's node, and perhaps on the others.
Init == \E busy \in SUBSET Nodes :
            /\ Leader \in busy
            /\ LET w == CHOOSE x \in Workers : \A y \in Workers : x <= y
                   here(n) == IF n \in busy
                              THEN {[fid |-> 0, node |-> n, worker |-> w, agent |-> Resident,
                                     role |-> "$agent"]}
                              ELSE {}
                   all == UNION {here(n) : n \in Nodes}
               IN  /\ atlas = all
                   /\ load = [n \in Nodes |-> Cardinality(here(n))]
                   /\ frames = [n \in Nodes |-> here(n)]
                   /\ local = frames /\ saved = frames
                   /\ view = [n \in Nodes |-> all]
            /\ known = [n \in Nodes |-> Nodes]
            /\ op = Idle /\ threads = {}
            /\ calls = [n \in Nodes |-> <<>>]
            /\ job = [n \in Nodes |-> Idle]
            /\ up = [n \in Nodes |-> TRUE]
            /\ fid = 1 /\ ops = 0 /\ failures = 0 /\ crashes = 0
            /\ failed = FALSE /\ orphans = {} /\ deployed = {}

-----------------------------------------------------------------------------
\* The leader

Reachable(n) == n = Leader \/ n \in known[Leader]

Begin(operation) == /\ up[Leader] /\ op = Idle /\ ops < MaxOps
                    /\ ops' = ops + 1
                    /\ op' = operation

\* Mutant of NotDeployed: only the role of the leader is looked for among idle nodes.
NotDeployed_OnLeaderNode(a) == Of(At(atlas, Leader), a) = {}

\* _check_not_deployed(), for both roles.
NotDeployed(a) == Of(atlas, a) = {}

Deploy(a) ==
    /\ NotDeployed(a)
    /\ \E k \in NumReplicas :
          Begin([kind |-> "start", agent |-> a, skip |-> {}, new |-> TRUE,
                 roles |-> <<"$master">> \o [i \in 1..k |-> "$replica"]])
    /\ deployed' = deployed \ {a}
    /\ UNCHANGED <<atlas, load, threads, node, calls, up, fid, failures, crashes, failed, orphans>>

\* adjust_replicas(), when there are too few.
AddReplicas(a) ==
    \E k \in NumReplicas :
        LET missing == k - Cardinality(InRole(Of(atlas, a), "$replica"))
        IN  /\ missing > 0 /\ InRole(Of(atlas, a), "$master") # {}
            /\ Begin([kind |-> "start", agent |-> a, new |-> FALSE,
                      skip |-> {f.node : f \in Of(atlas, a)},
                      roles |-> [i \in 1..missing |-> "$replica"]])
            /\ UNCHANGED <<atlas, load, threads, node, calls, up, fid, failures, crashes, failed,
                           orphans, deployed>>

\* adjust_replicas(), when there are too many.
DropReplicas(a) ==
    \E k \in NumReplicas :
        LET surplus == Cardinality(InRole(Of(atlas, a), "$replica")) - k
        IN  /\ surplus > 0
            /\ Begin([kind |-> "drop", agent |-> a, count |-> surplus])
            /\ UNCHANGED <<atlas, load, threads, node, calls, up, fid, failures, crashes, failed,
                           orphans, deployed>>

Message(kind, n, a, role) == [kind |-> kind, node |-> n, agent |-> a, role |-> role]
Calling(n, a) == [node |-> n, agent |-> a, left |-> {n}, casting |-> FALSE]

\* What is sent to a node that is down is lost.
Sent(requests) ==
    calls' = [n \in Nodes |-> IF n \in DOMAIN requests /\ up[n] THEN Append(calls[n], requests[n])
                              ELSE calls[n]]

\* _least_busy_node(): one of the least busy nodes outside of skip.
LeastBusy(skip) == {n \in Nodes \ skip : \A m \in Nodes \ skip : load[n] <= load[m]}

StartNext ==
    /\ up[Leader] /\ op.kind = "start" /\ threads = {} /\ op.roles # <<>>
    /\ \E n \in LeastBusy(op.skip) :
          /\ Reachable(n)
          /\ Sent([m \in {n} |-> Message("start", m, op.agent, Head(op.roles))])
          /\ threads' = {Calling(n, op.agent)}
          /\ op' = [op EXCEPT !.roles = Tail(@), !.skip = @ \union {n}]
    /\ UNCHANGED <<atlas, load, node, up, fid, ops, failures, crashes, failed, orphans, deployed>>

\* There are no more nodes, or the node is not found in the routing table.
StartNextFails ==
    /\ up[Leader] /\ op.kind = "start" /\ threads = {} /\ op.roles # <<>>
    /\ \A n \in LeastBusy(op.skip) : ~Reachable(n)
    /\ op' = Idle /\ failed' = TRUE
    /\ UNCHANGED <<atlas, load, threads, node, calls, up, fid, ops, failures, crashes, orphans,
                   deployed>>

\* Mutant of DropNext: it waits until a replica is found.
DropNext_Insists ==
    /\ up[Leader] /\ op.kind = "drop" /\ threads = {} /\ op.count > 0
    /\ \E f \in InRole(Of(atlas, op.agent), "$replica") :
          /\ Reachable(f.node)
          /\ Sent([m \in {f.node} |-> Message("stop", m, op.agent, "$replica")])
          /\ threads' = {Calling(f.node, op.agent)}
    /\ op' = [op EXCEPT !.count = @ - 1]
    /\ UNCHANGED <<atlas, load, node, up, fid, ops, failures, crashes, failed, orphans, deployed>>

DropNext ==
    /\ up[Leader] /\ op.kind = "drop" /\ threads = {} /\ op.count > 0
    /\ LET replicas == InRole(Of(atlas, op.agent), "$replica")
       IN  \/ replicas = {} /\ UNCHANGED <<calls, threads>>
           \/ \E f \in replicas :
                 /\ Reachable(f.node)
                 /\ Sent([m \in {f.node} |-> Message("stop", m, op.agent, "$replica")])
                 /\ threads' = {Calling(f.node, op.agent)}
    /\ op' = [op EXCEPT !.count = @ - 1]
    /\ UNCHANGED <<atlas, load, node, up, fid, ops, failures, crashes, failed, orphans, deployed>>

\* remove_agent(): all deployments at once.
RemoveAgent(a) ==
    LET nodes == {f.node : f \in Of(atlas, a)}
    IN  /\ nodes # {} /\ \A n \in nodes : Reachable(n)
        /\ threads = {}
        /\ Begin([kind |-> "remove", agent |-> a])
        /\ threads' = {Calling(n, a) : n \in nodes}
        /\ Sent([n \in nodes |-> Message("stop", n, a, "any")])
        /\ deployed' = deployed \ {a}
        /\ UNCHANGED <<atlas, load, node, up, fid, failures, crashes, failed, orphans>>

Finished == \/ op.kind = "start" /\ op.roles = <<>>
            \/ op.kind = "drop" /\ op.count = 0
            \/ op.kind = "remove"

Finish == /\ up[Leader] /\ Finished /\ threads = {}
          /\ op' = Idle
          /\ deployed' = IF op.kind = "start" /\ op.new THEN deployed \union {op.agent}
                         ELSE deployed
          /\ UNCHANGED <<atlas, load, threads, node, calls, up, fid, ops, failures, crashes, failed,
                         orphans>>

\* Mutant of Broadcast: only the nodes that have a frame of the agent are told.
Broadcast_Concerned(t, frames1) ==
    LET told == {n \in Nodes : Of(At(frames1, n), t.agent) # {}}
    IN  /\ Sent([n \in told |-> [kind |-> "update", node |-> t.node, atlas |-> frames1]])
        /\ threads' = (threads \ {t}) \union
                          IF told = {} THEN {} ELSE {[t EXCEPT !.left = told, !.casting = TRUE]}
        /\ UNCHANGED <<op, failed>>

\* _broadcast_placements() by thread t, with a new atlas.  If some node is not
\* found, the thread and the operation fail, and the others are told all the same.
Broadcast(t, frames1) ==
    LET told == {n \in Nodes : Reachable(n)}
    IN  /\ Sent([n \in told |-> [kind |-> "update", node |-> t.node, atlas |-> frames1]])
        /\ IF told = Nodes
           THEN /\ threads' = (threads \ {t}) \union {[t EXCEPT !.left = Nodes, !.casting = TRUE]}
                /\ UNCHANGED <<op, failed>>
           ELSE threads' = threads \ {t} /\ op' = Idle /\ failed' = TRUE

\* A call to node n fails.
ThreadFails(n) == /\ threads' = {t \in threads : t.node # n \/ t.casting}
                  /\ op' = Idle /\ failed' = TRUE

\* The connection to a node that is down is refused.
Refused(n) ==
    /\ up[Leader] /\ ~up[n]
    /\ LET lost == {t \in threads : IF t.casting THEN n \in t.left ELSE t.node = n}
       IN  lost # {} /\ threads' = threads \ lost
    /\ op' = Idle /\ failed' = TRUE
    /\ UNCHANGED <<atlas, load, node, calls, up, fid, ops, failures, crashes, orphans, deployed>>

-----------------------------------------------------------------------------
\* The nodes

NextCall(n) == Head(calls[n])
Free(n, kind) == up[n] /\ job[n] = Idle /\ calls[n] # <<>> /\ NextCall(n).kind = kind
Pop(n) == [calls EXCEPT ![n] = Tail(@)]

\* The thread of the leader that waits for the answer of n, if it was not restarted.
Waiting(n) == {t \in threads : t.node = n /\ ~t.casting}

\* rank_places(): the least busy of the workers that have a frame.
Ranked(n) == LET count(w) == Cardinality({f \in local[n] : f.worker = w})
                 used == {f.worker : f \in local[n]}
             IN  {w \in used : \A v \in used : count(w) <= count(v)}

\* $master.start_agent(): without a worker nothing is started.
TakeStart(n) ==
    /\ Free(n, "start")
    /\ calls' = Pop(n)
    /\ IF Ranked(n) = {}
       THEN job' = [job EXCEPT ![n] = [kind |-> "save", new |-> {}, gone |-> {},
                                       agent |-> NextCall(n).agent]]
       ELSE \E w \in Ranked(n) :
               job' = [job EXCEPT ![n] = [kind |-> "worker", worker |-> w, agent |-> NextCall(n).agent,
                                          role |-> NextCall(n).role]]
    /\ UNCHANGED <<leader, frames, local, saved, view, known, up, fid, ops, failures, crashes,
                   failed, orphans, deployed>>

Registered(n, j) == \E f \in frames[n] : /\ f.worker = j.worker
                                         /\ f.agent = j.agent /\ f.role = j.role

\* $worker._start_agent() and kernel.start_agent(), and what the master does then.
StartFrame(n) ==
    /\ up[n] /\ job[n].kind = "worker" /\ ~Registered(n, job[n])
    /\ LET f == [fid |-> fid, node |-> n, worker |-> job[n].worker, agent |-> job[n].agent,
                 role |-> job[n].role]
       IN  /\ frames' = [frames EXCEPT ![n] = @ \union {f}]
           /\ local' = [local EXCEPT ![n] = @ \union {f}]
           /\ job' = [job EXCEPT ![n] = [kind |-> "save", new |-> {f}, gone |-> {},
                                         agent |-> f.agent]]
    /\ fid' = fid + 1
    /\ UNCHANGED <<leader, saved, view, known, calls, up, ops, failures, crashes, failed,
                   orphans, deployed>>

\* The start of the frame fails, because one is registered or by an error in
\* __start__(), which leaves the frame registered.
StartFrameFails(n) ==
    /\ up[n] /\ job[n].kind = "worker"
    /\ LET f == [fid |-> fid, node |-> n, worker |-> job[n].worker, agent |-> job[n].agent,
                 role |-> job[n].role]
       IN  \/ Registered(n, job[n]) /\ UNCHANGED <<frames, fid, failures>>
           \/ /\ ~Registered(n, job[n]) /\ failures < MaxFailures
              /\ frames' = [frames EXCEPT ![n] = @ \union {f}]
              /\ fid' = fid + 1 /\ failures' = failures + 1
    /\ job' = [job EXCEPT ![n] = Idle]
    /\ orphans' = orphans \union {job[n].agent}
    /\ IF Waiting(n) # {} THEN ThreadFails(n) ELSE UNCHANGED <<threads, op, failed>>
    /\ UNCHANGED <<atlas, load, local, saved, view, known, calls, up, ops, crashes, deployed>>

Matching(set, request) == {f \in Of(set, request.agent) : request.role \in {f.role, "any"}}

InWorkers(set, workers) == {f \in set : f.worker \in workers}

\* Frames that a failed start left registered in a worker; their stop() never ends.
Broken(n) == frames[n] \ local[n]

\* $master.stop_agent(): each worker that runs a matching frame by the local atlas
\* stops and unregisters all that match.  They are removed from all tables of the
\* node, worker by worker, until one of them has a broken frame to stop.
TakeStop(n) ==
    /\ Free(n, "stop")
    /\ LET request == NextCall(n)
           workers == {f.worker : f \in Matching(local[n], request)}
           blocked == {f.worker : f \in InWorkers(Matching(Broken(n), request), workers)}
       IN  \E done \in SUBSET (workers \ blocked), hung \in SUBSET blocked :
              LET gone == InWorkers(Matching(local[n], request), done)
              IN  /\ IF blocked = {} THEN done = workers ELSE Cardinality(hung) = 1
                  /\ frames' = [frames EXCEPT ![n] =
                                   @ \ InWorkers(Matching(@, request), done \union hung)]
                  /\ local' = [local EXCEPT ![n] = @ \ gone]
                  /\ view' = [view EXCEPT ![n] = @ \ gone]
                  /\ job' = [job EXCEPT ![n] =
                                [kind |-> IF hung # {} THEN "hung"
                                          ELSE IF gone = {} THEN "answer" ELSE "save",
                                 new |-> {}, gone |-> gone, agent |-> request.agent]]
    /\ calls' = Pop(n)
    /\ UNCHANGED <<leader, saved, known, up, fid, ops, failures, crashes, failed, orphans,
                   deployed>>

\* The list of agents is saved.
Save(n) ==
    /\ up[n] /\ job[n].kind = "save"
    /\ saved' = [saved EXCEPT ![n] = local[n]]
    /\ job' = [job EXCEPT ![n].kind = "answer"]
    /\ UNCHANGED <<leader, frames, local, view, known, calls, up, fid, ops, failures, crashes,
                   failed, orphans, deployed>>

\* The database refuses: neither the list nor the leader knows of the change.
SaveFails(n) ==
    /\ up[n] /\ job[n].kind = "save" /\ failures < MaxFailures
    /\ failures' = failures + 1
    /\ job' = [job EXCEPT ![n] = Idle]
    /\ orphans' = orphans \union {job[n].agent}
    /\ IF Waiting(n) # {} THEN ThreadFails(n) ELSE UNCHANGED <<threads, op, failed>>
    /\ UNCHANGED <<atlas, load, frames, local, saved, view, known, calls, up, fid, ops, crashes,
                   deployed>>

\* The leader receives the answer and updates its tables.
Answer(n) ==
    /\ up[n] /\ job[n].kind = "answer"
    /\ job' = [job EXCEPT ![n] = Idle]
    /\ LET j == job[n]
           frames1 == (atlas \union j.new) \ j.gone
       IN  IF Waiting(n) = {} THEN UNCHANGED <<leader, calls, failed>>
           ELSE /\ atlas' = frames1
                /\ load' = [load EXCEPT ![n] = @ + Cardinality(j.new) - Cardinality(j.gone)]
                /\ \E t \in Waiting(n) : Broadcast(t, frames1)
    /\ UNCHANGED <<frames, local, saved, view, known, up, fid, ops, failures, crashes, orphans,
                   deployed>>

\* $master.update_atlas(): nodes without frames are not in it.
Update(n) ==
    /\ Free(n, "update")
    /\ calls' = Pop(n)
    /\ view' = [view EXCEPT ![n] = NextCall(n).atlas]
    /\ known' = [known EXCEPT ![n] = {f.node : f \in NextCall(n).atlas}]
    /\ LET mine == {t \in threads : t.casting /\ t.node = NextCall(n).node}
       IN  threads' = (threads \ mine) \union
                          {[t EXCEPT !.left = @ \ {n}] : t \in {u \in mine : u.left # {n}}}
    /\ UNCHANGED <<atlas, load, op, job, frames, local, saved, up, fid, ops, failures, crashes,
                   failed, orphans, deployed>>

\* The processes of a node end; the leader's with it.  A change that was saved and
\* not answered is forgotten.
Crash(n) ==
    /\ up[n] /\ crashes < MaxCrashes
    /\ crashes' = crashes + 1
    /\ up' = [up EXCEPT ![n] = FALSE]
    /\ frames' = [frames EXCEPT ![n] = {}]
    /\ calls' = [calls EXCEPT ![n] = <<>>]
    /\ job' = [job EXCEPT ![n] = Idle]
    /\ IF n = Leader THEN op' = Idle /\ threads' = {} ELSE UNCHANGED <<op, threads>>
    /\ orphans' = orphans \union {t.agent : t \in IF n = Leader THEN threads ELSE {}}
                          \union IF job[n].kind = "answer" THEN {job[n].agent} ELSE {}
    /\ UNCHANGED <<atlas, load, local, saved, view, known, fid, ops, failures, failed, deployed>>

\* The node starts from the database.
Boot(n) ==
    /\ ~up[n]
    /\ up' = [up EXCEPT ![n] = TRUE]
    /\ frames' = [frames EXCEPT ![n] = saved[n]]
    /\ local' = [local EXCEPT ![n] = saved[n]]
    /\ view' = [view EXCEPT ![n] = Stored]
    /\ known' = [known EXCEPT ![n] = Nodes]
    /\ IF n = Leader THEN atlas' = Stored /\ load' = [m \in Nodes |-> Cardinality(saved[m])]
       ELSE UNCHANGED <<atlas, load>>
    /\ UNCHANGED <<op, threads, calls, job, saved, fid, ops, failures, crashes, failed, orphans,
                   deployed>>

-----------------------------------------------------------------------------
LeaderStep == StartNext \/ StartNextFails \/ DropNext \/ Finish
NodeStep(n) == \/ TakeStart(n) \/ StartFrame(n) \/ StartFrameFails(n) \/ TakeStop(n)
               \/ Save(n) \/ SaveFails(n) \/ Answer(n) \/ Update(n)

Next == \/ \E a \in Agents : Deploy(a) \/ AddReplicas(a) \/ DropReplicas(a) \/ RemoveAgent(a)
        \/ LeaderStep
        \/ \E n \in Nodes : NodeStep(n) \/ Refused(n) \/ Crash(n) \/ Boot(n)

\* What was begun is continued, in the leader and in the nodes.
Fairness == WF_vars(LeaderStep) /\ \A n \in Nodes : WF_vars(NodeStep(n))
Spec == Init /\ [][Next]_vars /\ Fairness

-----------------------------------------------------------------------------
AllFrames == UNION {frames[n] : n \in Nodes}

TypeOK == /\ \A f \in atlas \union AllFrames \union Stored :
                 f.node \in Nodes /\ f.worker \in Workers
          /\ load \in [Nodes -> Nat]
          /\ op.kind \in {"none", "start", "drop", "remove"}
          /\ \A t \in threads : t.left \subseteq Nodes
          /\ known \in [Nodes -> SUBSET Nodes]
          /\ orphans \union deployed \subseteq Agents

\* An agent has one master in the cluster, unless a start of it failed half way or
\* was forgotten when the leader crashed (control.js:24-40, node.js:560-600).
OneMaster == \A a \in Agents \ orphans : Cardinality(InRole(Of(AllFrames, a), "$master")) <= 1

\* When the leader is idle and nothing went wrong, all tables agree: what runs,
\* what the leader counts, what is saved, and what every node routes by.
TablesAgree ==
    op = Idle /\ threads = {} /\ ~failed /\ crashes = 0
        => /\ atlas = AllFrames /\ Stored = AllFrames
           /\ \A n \in Nodes : /\ load[n] = Cardinality(frames[n])
                               /\ view[n] = atlas /\ local[n] = frames[n]

\* Every operation of the leader ends unless a node went down meanwhile, or a master
\* waits for the end of a frame whose start failed (kernel.js:223-233, frame.js:176).
OperationsEnd == op # Idle ~> (op = Idle \/ crashes > 0 \/ \E n \in Nodes : job[n].kind = "hung")

\* An agent that was deployed without an error runs.  False: nothing is started on
\* a node that has no frames yet.
DeployedRuns == crashes = 0 => \A a \in deployed : InRole(Of(AllFrames, a), "$master") # {}
=============================================================================
