----------------------------- MODULE MCProcess -----------------------------
(* What a process serves, how a request gets to it, and which records come back: instances of ObjectCache, NodeRouting and
   Actions side by side. `part` picks one of them, and the variables of the others keep one initial value. *)
EXTENDS Naturals, Sequences

CONSTANTS MaxVersion, Slots, MaxFailures, MaxReloads,       \* ObjectCache
          n1, n2, None, Nodes, Workers, Deployments, Places, Requests, Booting, MaxChanges,     \* NodeRouting
          Objects, NServers, MaxCalls, MaxEdits             \* Actions

VARIABLES part,
          essential, db, c, notes, latest, newest, evictions, failures, reloads,
          frames, local, global, known, booting, spinning, req, copies, changes,
          stored, heard, sessions, calls, edits, crossed, outdated, dropped, disturbed, aged
cachevars == <<essential, db, c, notes, latest, newest, evictions, failures, reloads>>
routingvars == <<frames, local, global, known, booting, spinning, req, copies, changes>>
actionvars == <<stored, heard, sessions, calls, edits, crossed, outdated, dropped, disturbed, aged>>

\* One agent in two roles; requests for it and for the nodes' own agents, with most options
Frame(r, n, w) == [id |-> "a", role |-> r, node |-> n, worker |-> w]
x11 == Frame("x", n1, 1)
x12 == Frame("x", n1, 2)
x21 == Frame("x", n2, 1)
y11 == Frame("y", n1, 1)
MCPlaces == {x11, x12, x21, y11}
MCDeployments == {{}, {x11}, {x12}, {x21}, {x11, x12}, {x11, x21}, {x12, y11}, {x21, y11}}
Own == {n2} \X {"any", "$master", "$worker"} \cup {<<n1, "$worker">>}
Request(t, n, w, scope, private, broadcast, p) ==
    [id |-> t[1], role |-> t[2], node |-> n, worker |-> w, scope |-> scope, private |-> private, broadcast |-> broadcast, from |-> p]
RequestsOf(p) ==
    {Request(<<"a", r>>, n, w, "none", private, FALSE, p) : r \in {"any", "x"}, n \in {n2, None}, w \in {None, 1}, private \in BOOLEAN}
    \cup {Request(<<"a", "x">>, n, w, scope, FALSE, FALSE, p) : n \in {n2, None}, w \in {None, 1}, scope \in {"node", "process"}}
    \cup {Request(t, n, w, "none", FALSE, FALSE, p) : t \in Own, n \in {n2, None}, w \in {None, 0, 1}}
    \cup {Request(<<n2, "$worker">>, n2, w, "none", private, FALSE, p) : w \in {1, 3}, private \in BOOLEAN}
    \cup {Request(t, None, None, "none", private, TRUE, p) : t \in Own \cup {<<"a", "any">>, <<"a", "x">>}, private \in BOOLEAN}
MCBooting == {{}, {<<n1, 1>>}, {<<n2, 1>>}}
MCRequests == UNION {RequestsOf(p) : p \in {<<n1, 0>>, <<n1, 1>>}}

C == INSTANCE ObjectCache
R == INSTANCE NodeRouting WITH Calls <- Requests
A == INSTANCE Actions WITH db <- stored, known <- heard

ASSUME ProcessAssumption == C!CacheAssumption /\ R!RoutingAssumption /\ A!ActionsAssumption

Init == /\ part \in {"cache", "routing", "actions"}
        /\ C!Init /\ (part # "cache" => ~essential)
        /\ IF part = "routing" THEN R!Init
           ELSE /\ frames = {} /\ local = << >> /\ global = << >> /\ known = << >> /\ booting = {} /\ spinning = {} /\ req = None
                /\ copies = << >> /\ changes = 0
        /\ A!Init
Next == \/ part = "cache" /\ C!Next /\ UNCHANGED <<part, routingvars, actionvars>>
        \/ part = "routing" /\ R!Next /\ UNCHANGED <<part, cachevars, actionvars>>
        \/ part = "actions" /\ A!Next /\ UNCHANGED <<part, cachevars, routingvars>>
Spec == Init /\ [][Next]_<<part, cachevars, routingvars, actionvars>> /\ C!Fairness

----------------------------------------------------------------------------
\* A process serves the content it registered last (ObjectCache).
ServedIsLatest == C!ServedIsLatest
\* In the end a process serves the last version (ObjectCache).
EventuallyFresh == C!EventuallyFresh
\* Requests are executed where they may be, if anywhere (NodeRouting).
RequestsFindTheirAgent == part = "routing" => R!RequestsFindTheirAgent
\* A process without the agent reports it and goes on (NodeRouting).
MissingAgentIsReported == R!MissingAgentIsReported
\* Changed records come back to the caller, and take older ones' place (Actions).
RecordsAreKnown == A!RecordsAreKnown
=============================================================================
