----------------------------- MODULE NodeRouting -----------------------------
(* The way of a request to a frame of an agent: from the process of the caller up to the master of its node, over to the master
   of another node, and down to a process (schemat/server/node.js, atlas.js, kernel.js). Frames are started and stopped while
   the request is on its way, and the tables that lead it learn of it later. Mailboxes and connections lose nothing (RpcPath
   shows what they do lose). *)
EXTENDS Naturals, FiniteSets, SequencesExt

CONSTANTS Nodes, Workers,       \* worker processes of each node; 0 is its master process
          Deployments,          \* sets of ordinary frames [id, role, node, worker] that run at first
          Places,               \* ordinary frames that may be started
          Calls,                \* [id, role, node, worker, scope, private, broadcast, from]
          Booting,              \* sets of processes that are starting their frames
          None, MaxChanges      \* bound

VARIABLES frames,               \* frames in the kernels of all processes
          local, global,        \* ordinary frames in each node's table of its own processes, and of the whole cluster
          known,                \* known[n]: nodes that the table of the cluster at n has special records of
          booting, spinning,    \* processes that start; processes that look for a frame for ever
          req, copies,          \* the request and its copies [at: process, step, frame]
          changes
routingvars == <<frames, local, global, known, booting, spinning, req, copies, changes>>

Master(n) == <<n, 0>>
Processes == Nodes \X ({0} \cup Workers)
\* A process also runs the agent of its node.
Root(p) == [id |-> p[1], role |-> IF p[2] = 0 THEN "$master" ELSE "$worker", node |-> p[1], worker |-> p[2]]

\* Workers are numbered from 1. Only a node's own agents have its id and the role $worker; those that are saved or started run
\* in some process. A broadcast (`$$role` of an agent) names no process.
RoutingAssumption ==
    /\ IsFiniteSet(Nodes) /\ 1 \in Workers /\ 0 \notin Workers
    /\ \A placed \in Deployments : IsFiniteSet(placed)
    /\ \A f \in Places \cup (UNION Deployments) : f.id \notin Nodes /\ f.role # "$worker" /\ <<f.node, f.worker>> \in Processes
    /\ \A call \in Calls : /\ call.from \in Processes /\ call.node \in Nodes \cup {None}
                           /\ call.broadcast => call.node = None /\ call.worker = None
    /\ None \notin Nodes /\ Booting \subseteq SUBSET Processes /\ MaxChanges \in Nat

At(set, p) == {f \in set : <<f.node, f.worker>> = p}
Fits(f) == f.id = req.id /\ req.role \in {"any", f.role}
Found(set) == {f \in set : Fits(f)}

\* The tables hold the ordinary frames, and special records of the agents of nodes.
LocalRecords_Ordinary(n) == local[n]                        \* mutant
LocalRecords(n) == local[n] \cup {Root(Master(n))}
\* The place of a node's $worker in the table of the cluster is the node.
GlobalRecords(n) == global[n] \cup {Root(p) : p \in known[n] \X {0, 1}}

Init == /\ req \in Calls /\ changes = 0 /\ spinning = {}
        /\ copies = [i \in {1} |-> [at |-> req.from, step |-> "call", frame |-> None]]
        /\ booting \in Booting
        /\ \E placed \in Deployments :
              /\ frames = {f \in placed : <<f.node, f.worker>> \notin booting} \cup {Root(p) : p \in Processes \ booting}
              /\ local = [n \in Nodes |-> {f \in placed : f.node = n}]
              /\ global = [n \in Nodes |-> placed]
              /\ known = [n \in Nodes |-> Nodes]
        /\ req.from \notin booting

----------------------------------------------------------------------------
Awake(p) == p \notin spinning
Step(i, p, step) == copies' = [copies EXCEPT ![i].at = p, ![i].step = step]
Waits(i, step) == copies[i].step = step /\ Awake(copies[i].at)
Unmoved == UNCHANGED <<frames, local, global, known, booting, req, changes>>

\* The proxy of an agent calls a frame of its own process at once, whatever the options; else rpc() makes a request.
Here(p) == IF req.broadcast THEN {} ELSE Found(At(frames, p))
Call(i) == Waits(i, "call") /\ LET p == copies[i].at IN Step(i, p, IF Here(p) # {} THEN "exec" ELSE "frwd")
           /\ UNCHANGED spinning /\ Unmoved
Scope == IF req.private /\ req.scope # "process" THEN "node" ELSE req.scope
Frwd(i) == /\ Waits(i, "frwd")
           /\ LET p == copies[i].at
              IN IF Scope = "process" \/ (Scope = "node" /\ req.worker = p[2]) \/ Here(p) # {}
                 THEN Step(i, p, "exec") ELSE Step(i, Master(p[1]), "send")
           /\ UNCHANGED spinning /\ Unmoved

\* _find_worker() prefers frames of the master process, _find_node() this node.
FindWorker(n) == LET found == Found(LocalRecords(n))  first == {f \in found : f.worker = 0}
                 IN {f.worker : f \in IF first # {} THEN first ELSE found}
FindNode(n) == LET found == {f.node : f \in Found(GlobalRecords(n))}
               IN IF req.worker # None \/ FindWorker(n) # {} \/ n \in found THEN {n} ELSE found
Towards(n, m) == [at |-> Master(m), step |-> IF m = n THEN "recv" ELSE "tcp", frame |-> None]
Send(i) == /\ Waits(i, "send") /\ ~req.broadcast
           /\ LET n == copies[i].at[1]
                  targets == IF req.node # None THEN {req.node} ELSE FindNode(n)
              IN \/ targets = {} /\ Step(i, Master(n), "not found")
                 \/ \E m \in targets : copies' = [copies EXCEPT ![i] = Towards(n, m)]
           /\ UNCHANGED spinning /\ Unmoved
\* rpc_bcst(): a copy for each record that fits.
Broadcast(i) == /\ Waits(i, "send") /\ req.broadcast
                /\ LET n == copies[i].at[1]  found == Found(GlobalRecords(n))
                   IN copies' = [k \in 1 .. Cardinality(found) |-> Towards(n, SetToSeq(found)[k].node)]
                /\ UNCHANGED spinning /\ Unmoved
TcpRecv(i) == /\ Waits(i, "tcp") /\ copies[i].at \notin booting
              /\ Step(i, copies[i].at, IF req.private THEN "not allowed" ELSE "recv")
              /\ UNCHANGED spinning /\ Unmoved
Recv(i) == /\ Waits(i, "recv")
           /\ LET n == copies[i].at[1]
                  targets == IF req.worker # None THEN {req.worker} ELSE FindWorker(n)
              IN \/ targets = {} /\ Step(i, Master(n), "not found")
                 \/ \E w \in targets : Step(i, <<n, w>>, IF w \in {0} \cup Workers THEN "exec" ELSE "no worker")
           /\ UNCHANGED spinning /\ Unmoved

\* rpc_exec() waits for the frame while the process boots. The promise that it awaits is there for ever, so that afterwards
\* it asks again and again, and lets no other work of the process go on.
Exec(i) == /\ Waits(i, "exec")
           /\ LET p == copies[i].at  found == Found(At(frames, p))
              IN \/ \E f \in found : copies' = [copies EXCEPT ![i].step = "ran", ![i].frame = f] /\ UNCHANGED spinning
                 \/ found = {} /\ p \notin booting /\ Step(i, p, "lost") /\ spinning' = spinning \cup {p}
           /\ Unmoved

----------------------------------------------------------------------------
\* A process starts its node's agent first and then the frames that were saved.
Due(p) == At(local[p[1]], p) \ frames
BootStep(p) == /\ p \in booting /\ Awake(p)
               /\ \/ Root(p) \notin frames /\ frames' = frames \cup {Root(p)} /\ UNCHANGED booting
                  \/ Root(p) \in frames /\ \E f \in Due(p) : frames' = frames \cup {f} /\ UNCHANGED booting
                  \/ Root(p) \in frames /\ Due(p) = {} /\ booting' = booting \ {p} /\ UNCHANGED frames
               /\ UNCHANGED <<local, global, known, spinning, req, copies, changes>>

Actual(n) == {f \in frames : f.node = n} \ {Root(p) : p \in Processes}
Changes == changes < MaxChanges /\ changes' = changes + 1
Start(f) == /\ Changes /\ Awake(<<f.node, f.worker>>) /\ <<f.node, f.worker>> \notin booting /\ f \notin frames
            /\ frames' = frames \cup {f} /\ UNCHANGED <<local, global, known, booting, spinning, req, copies>>
Stop(f) == /\ Changes /\ Awake(<<f.node, f.worker>>) /\ <<f.node, f.worker>> \notin booting /\ f \in frames
           /\ frames' = frames \ {f} /\ UNCHANGED <<local, global, known, booting, spinning, req, copies>>
\* The master learns what its workers did, and the cluster what the masters know. The table that is sent has special records
\* of those nodes only that have ordinary frames. The tables of a node that is booting are those that were saved.
Quiet(n) == \A p \in {n} \X ({0} \cup Workers) : Awake(p) /\ p \notin booting
LearnLocal(n) == /\ Quiet(n) /\ local[n] # Actual(n)
                 /\ local' = [local EXCEPT ![n] = Actual(n)]
                 /\ global' = [global EXCEPT ![n] = @ \ (local[n] \ Actual(n))]
                 /\ UNCHANGED <<frames, known, booting, spinning, req, copies, changes>>
LearnGlobal(n) == /\ Awake(Master(n)) /\ changes > 0
                  /\ LET all == UNION {local[m] : m \in Nodes}
                     IN /\ global[n] # all
                        /\ global' = [global EXCEPT ![n] = all] /\ known' = [known EXCEPT ![n] = {f.node : f \in all}]
                  /\ UNCHANGED <<frames, local, booting, spinning, req, copies, changes>>

Next == \/ \E i \in DOMAIN copies : Call(i) \/ Frwd(i) \/ Send(i) \/ Broadcast(i) \/ TcpRecv(i) \/ Recv(i) \/ Exec(i)
        \/ \E p \in booting : BootStep(p)
        \/ \E f \in Places : Start(f) \/ Stop(f)
        \/ \E n \in Nodes : LearnLocal(n) \/ LearnGlobal(n)

----------------------------------------------------------------------------
Done == \A i \in DOMAIN copies : copies[i].step \notin {"call", "frwd", "send", "tcp", "recv", "exec"}
Ran == {i \in DOMAIN copies : copies[i].step = "ran"}
Homebound == Scope = "process" \/ (Scope = "node" /\ req.worker = req.from[2])

\* Where the request may be executed: by any frame that fits, within the limits of its options. A worker without a node is one
\* of the caller's node; and the workers' own agents are in no table, so that their process has to be given.
Targets(set) ==
    LET here(f) == <<f.node, f.worker>> = req.from /\ (req.broadcast => Homebound)
        meant(f) == /\ req.node \in {None, f.node} /\ req.worker \in {None, f.worker}
                    /\ req.private \/ (req.worker # None /\ req.node = None) => f.node = req.from[1]
                    /\ req.worker = None => f.role # "$worker"
    IN {f \in Found(set) : here(f) \/ (~Homebound /\ meant(f))}

\* A request is executed only where its options let it, or in the process of the caller; as long as nothing is started or
\* stopped it is executed if there is such a place, be its process still booting, and is refused or lost only if there is none.
\* A broadcast reaches all frames, if no two that fit are on one node. (Node.rpc, _find_node, _find_worker; Atlas)
All == frames \cup (UNION {Due(p) : p \in booting}) \cup {Root(p) : p \in booting}
RequestsFindTheirAgent ==
    /\ \A i \in Ran : copies[i].frame \in Targets({copies[i].frame})
    /\ Done /\ changes = 0 /\ ~req.broadcast => (Ran # {} <=> Targets(All) # {})
    /\ Done /\ changes = 0 /\ req.broadcast /\ ~req.private =>
          \/ {copies[i].frame : i \in Ran} = Targets(All) /\ Cardinality(Ran) = Cardinality(Targets(All))
          \/ \E f, g \in Found(All) : f # g /\ f.node = g.node

\* A request for an agent that the process does not run is answered with an error: the process goes on. (Node.rpc_exec)
MissingAgentIsReported == spinning = {}
=============================================================================
