------------------------------- MODULE Actions -------------------------------
(* Actions and the way changed records take back to their caller (schemat/core/session.js: ServerSession, LiteSession;
   schemat/core/schemat_srv.js: execute_action, new_session; schemat/server/node.js: RPC_Request, RPC_Response;
   schemat/server/frame.js: Frame.exec; schemat/core/object.js: act). A client asks for an action of an object, which runs in a
   session of its own; actions call others, agents, and the data block. A session captures the records that are changed, and
   they are sent back with the answer of a call, to be the newest ones known to the process of the caller. Outside of actions
   all calls in a process share its lite session. Content is a version number, calls may go on in parallel. *)
EXTENDS Naturals, Sequences

CONSTANTS Objects,
          NServers,     \* processes are 1 .. NServers, and Client
          MaxCalls, MaxEdits

VARIABLES db,           \* [Objects -> version]
          known,        \* known[p][o]: version of the record that process p has registered, 0 for none
          sessions,     \* [lite, owner, staged, snap], those numbered 1 .. NServers are the lite ones
          calls,        \* [kind, at, sess, by, of, pc, snap, wrote], where `by` is the caller, 0 for none; and the history
                        \* `above`: the call itself, its caller, the caller's one, and so on
          edits,
          crossed,      \* history: objects that were changed while another call had a record of them to send
          outdated,     \* history: objects of which a lite session sent a record of former calls that was not the newest
          dropped,      \* history: objects of which a record was dropped with a call that failed, or with a nested action
          disturbed,    \* history: calls whose lite session captured records of other calls after their own
          aged          \* history: objects of which a process replaced a record by an older one
actionvars == <<db, known, sessions, calls, edits, crossed, outdated, dropped, disturbed, aged>>

ActionsAssumption == NServers \in Nat \ {0} /\ MaxCalls \in Nat /\ MaxEdits \in Nat

Client == 0
Servers == 1 .. NServers
Home == 1               \* the process of the data block
Nothing == [o \in Objects |-> 0]
Put(recs, new) == [o \in Objects |-> IF new[o] # 0 THEN new[o] ELSE recs[o]]
Greater(recs, new) == [o \in Objects |-> IF new[o] > recs[o] THEN new[o] ELSE recs[o]]

Session(owner) == [lite |-> FALSE, owner |-> owner, staged |-> {}, snap |-> Nothing]
LiteSession == [lite |-> TRUE, owner |-> FALSE, staged |-> {}, snap |-> Nothing]

Init == /\ db = [o \in Objects |-> 1]
        /\ known = [p \in {Client} \cup Servers |-> Nothing]
        /\ sessions = [p \in Servers |-> LiteSession]
        /\ calls = << >> /\ edits = 0 /\ crossed = {} /\ outdated = {} /\ dropped = {} /\ disturbed = {} /\ aged = {}
history == <<crossed, outdated, dropped, disturbed, aged>>

SessionOf(c) == sessions[calls[c].sess]
Alive(c) == calls[c].pc # "done"
Open(c) == calls[c].pc \in {"run", "stored"}
Children(c) == {d \in DOMAIN calls : calls[d].by = c /\ Alive(d)}
\* The calls that wait for call c, or for one that waits for it: none beyond one that has failed.
Callers(c) == {d \in calls[c].above : \A e \in calls[c].above : d \in calls[e].above => Alive(e)}
Now(c, pc) == [calls EXCEPT ![c].pc = pc]

----------------------------------------------------------------------------
\* A call in a new session, that assigns a transaction id if it owns it; or in the lite session of its process
Add(kind, by, p, of, s) ==
    /\ Len(calls) < MaxCalls
    /\ sessions' = IF s.lite THEN sessions ELSE Append(sessions, s)
    /\ calls' = Append(calls, [kind |-> kind, at |-> p, sess |-> IF s.lite THEN p ELSE Len(sessions) + 1, by |-> by, of |-> of,
                               pc |-> "run", snap |-> Nothing, wrote |-> Nothing,
                               above |-> {Len(calls) + 1} \cup (IF by = 0 THEN {} ELSE calls[by].above)])

\* The client's obj.act.X(), or a job of the server that runs in no transaction
Act(p) == Add("action", 0, p, {}, Session(TRUE)) /\ UNCHANGED <<db, known, edits, history>>
Background(p) == Add("background", 0, p, {}, LiteSession) /\ UNCHANGED <<db, known, edits, history>>

Running(c) == calls[c].pc = "run" /\ calls[c].kind # "update"
\* execute_action() on the server: the transaction id is that of the caller, if any.
ActHere(c) == /\ Running(c)
              /\ Add("action", c, calls[c].at, {}, Session(SessionOf(c).lite))
              /\ UNCHANGED <<db, known, edits, history>>
\* RPC_Request.create(), Frame.exec(): the request has the transaction id; without one there is no new session.
Tx(c) == IF SessionOf(c).lite THEN LiteSession ELSE Session(FALSE)
Rpc(c, p) == Running(c) /\ Add("rpc", c, p, {}, Tx(c)) /\ UNCHANGED <<db, known, edits, history>>

Edit(c, o) == /\ Running(c) /\ edits < MaxEdits /\ edits' = edits + 1
              /\ sessions' = [sessions EXCEPT ![calls[c].sess].staged = @ \cup {o}]
              /\ UNCHANGED <<db, known, calls, history>>

\* save(): an update by the data block; a lite session also saves what other calls have staged.
Save(c, o) == /\ calls[c].pc \in {"run", "stored"} /\ o \in SessionOf(c).staged
              /\ LET before == [sessions EXCEPT ![calls[c].sess].staged = @ \ {o}]
                     s == Tx(c)
                 IN /\ Len(calls) < MaxCalls
                    /\ sessions' = IF s.lite THEN before ELSE Append(before, s)
                    /\ calls' = Append(calls, [kind |-> "update", at |-> Home, sess |-> IF s.lite THEN Home ELSE Len(sessions) + 1,
                                               by |-> c, of |-> {o}, pc |-> "run", snap |-> Nothing, wrote |-> Nothing,
                                               above |-> {Len(calls) + 1} \cup calls[c].above])
              /\ UNCHANGED <<db, known, edits, history>>

----------------------------------------------------------------------------
\* register_changes(): the records are the newest ones for the process, and are captured by the session.
Captured(s, recs) == IF s.lite THEN [s EXCEPT !.snap = recs] ELSE [s EXCEPT !.snap = Put(@, recs)]
Register(c, p, recs) ==
    /\ known' = [known EXCEPT ![p] = Put(@, recs)]
    /\ aged' = aged \cup {o \in Objects : known'[p][o] < known[p][o]}
    /\ IF c = 0 THEN UNCHANGED <<sessions, disturbed>>
       ELSE /\ sessions' = [sessions EXCEPT ![calls[c].sess] = Captured(@, recs)]
            /\ disturbed' = IF SessionOf(c).lite
                            THEN (disturbed \cup {d \in DOMAIN calls : Open(d) /\ calls[d].sess = calls[c].sess}) \ {c}
                            ELSE disturbed

\* The block stores the new record and registers it (DataBlock._save()).
ToSend(c) == {o \in Objects : calls[c].wrote[o] # 0 \/ calls[c].snap[o] # 0 \/ (calls[c].kind = "update" /\ o \in calls[c].of)}
Store(u) == /\ calls[u].kind = "update" /\ calls[u].pc = "run"
            /\ \E o \in calls[u].of :
                  LET rec == [Nothing EXCEPT ![o] = db[o] + 1]
                  IN /\ db' = [db EXCEPT ![o] = @ + 1]
                     /\ Register(u, Home, rec)
                     /\ calls' = [calls EXCEPT ![u].pc = "stored", ![u].wrote = rec]
                     /\ crossed' = IF \E d \in DOMAIN calls \ Callers(u) : Alive(d) /\ o \in ToSend(d) THEN crossed \cup {o} ELSE crossed
            /\ UNCHANGED <<edits, outdated, dropped>>

\* A call is done when those it awaits are, and what is staged is saved: an agent's in Frame.exec(), a transaction in commit().
\* A session that neither owns its transaction nor belongs to an agent's call is left as it is.
Ended(c) == Children(c) = {} /\ calls[c].pc = IF calls[c].kind = "update" THEN "stored" ELSE "run"
Nested(c) == calls[c].kind = "action" /\ calls[c].by # 0
Answer(c) == /\ Ended(c) /\ ~Nested(c) /\ calls[c].kind # "background" /\ SessionOf(c).staged = {}
             /\ calls' = [calls EXCEPT ![c].pc = "answered", ![c].snap = SessionOf(c).snap]
             /\ outdated' = outdated \cup {o \in Objects : SessionOf(c).lite /\ SessionOf(c).snap[o] \in 1 .. db[o] - 1}
             /\ UNCHANGED <<db, known, sessions, edits, crossed, dropped, disturbed, aged>>
Return(c) == /\ Ended(c) /\ (Nested(c) \/ calls[c].kind = "background")
             /\ SessionOf(c).owner => SessionOf(c).staged = {}
             /\ calls' = Now(c, "done")
             /\ dropped' = IF SessionOf(c).owner THEN dropped ELSE dropped \cup {o \in Objects : Nested(c) /\ calls[c].wrote[o] # 0}
             /\ UNCHANGED <<db, known, sessions, edits, crossed, outdated, disturbed, aged>>

\* RPC_Response.parse(), or the client's side of act.X(): there is a session at the client, too, that is not modelled.
ReceiveRecords_Unheard(by, p, snap) == known' = [known EXCEPT ![p] = Put(@, snap)] /\ UNCHANGED <<sessions, disturbed, aged>>
ReceiveRecords(by, p, snap) == Register(by, p, snap)
Receive(c) ==
    LET by == calls[c].by
        p == IF by = 0 THEN Client ELSE calls[by].at
        wrote == IF c \in disturbed THEN Nothing ELSE calls[c].wrote
    IN /\ calls[c].pc = "answered"
       /\ IF calls[c].snap = Nothing THEN UNCHANGED <<known, sessions, disturbed, aged>> ELSE ReceiveRecords(by, p, calls[c].snap)
       /\ calls' = IF by = 0 \/ calls[c].snap = Nothing THEN Now(c, "done")
                   ELSE [Now(c, "done") EXCEPT ![by].wrote = IF SessionOf(by).lite THEN wrote ELSE Greater(@, wrote)]
       /\ UNCHANGED <<db, edits, crossed, outdated, dropped>>

\* An exception: the answer has no records, and those that the calls it waits for will send are not sent on.
Fail(c) == /\ calls[c].pc = "run" /\ calls' = Now(c, "done")
           /\ dropped' = dropped \cup {o \in Objects : \E d \in DOMAIN calls : Alive(d) /\ c \in Callers(d) /\ calls[d].wrote[o] # 0}
           /\ UNCHANGED <<db, known, sessions, edits, crossed, outdated, disturbed, aged>>

Next == \/ \E p \in Servers : Act(p) \/ Background(p)
        \/ \E c \in DOMAIN calls : \/ ActHere(c) \/ Store(c) \/ Answer(c) \/ Return(c) \/ Receive(c) \/ Fail(c)
                                   \/ \E p \in Servers : Rpc(c, p)
                                   \/ \E o \in Objects : Edit(c, o) \/ Save(c, o)

----------------------------------------------------------------------------
\* The records that were changed for a call, by it and the calls it made, come back with its answer, unless its lite session
\* was reset for another call since.
RecordsComeBack == \A c \in DOMAIN calls, o \in Objects :
    calls[c].pc = "answered" /\ c \notin disturbed /\ o \notin crossed => calls[c].snap[o] >= calls[c].wrote[o]
\* A process replaces a record by an older one only if calls crossed, or a lite session sent what it had kept from former calls,
\* or the newer one was not sent on by a call that failed or by a nested action.
NoOlderRecord == aged \subseteq crossed \cup outdated \cup dropped
RecordsAreKnown == RecordsComeBack /\ NoOlderRecord
=============================================================================
