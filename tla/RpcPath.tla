------------------------------ MODULE RpcPath ------------------------------
(***************************************************************************)
(* The way of an RPC request from a worker process to an agent on another  *)
(* node, and back (schemat/server/node.js: Mailbox, rpc_frwd, rpc_send,    *)
(* rpc_recv, rpc_exec).                                                    *)
(*                                                                         *)
(* The worker sends the request to its master process through a Mailbox,   *)
(* the master sends it over TcpChannel and answers the worker with what    *)
(* comes back.  The mailboxes deliver in order and lose nothing.  The      *)
(* entry of a request in the mailbox has no timestamp, so the check for    *)
(* timeouts passes over it.  What the receiving node does, down to exec()  *)
(* in the frame of the agent, is the execution of TcpChannel.              *)
(***************************************************************************)
EXTENDS TcpChannel

VARIABLES call,     \* call[r]: the caller's promise in the mailbox of the worker
          up,       \* requests on their way to the master
          down      \* answers on their way to the worker

vars == <<channel, call, up, down>>

TypeOK == /\ ChannelTypeOK
          /\ call \in [Requests -> {"none", "pending", "resolved", "rejected"}]
          /\ up \in Seq(Requests)
          /\ down \in Seq([req : Requests, ok : BOOLEAN])

Init == /\ ChannelInit
        /\ call = [r \in Requests |-> "none"]
        /\ up = <<>> /\ down = <<>>

\* Mailbox.send() in the worker, through rpc() and rpc_frwd().
Call(r) == /\ call[r] = "none"
           /\ call' = [call EXCEPT ![r] = "pending"]
           /\ up' = Append(up, r)
           /\ UNCHANGED <<channel, down>>

\* The master handles the request: rpc_send() finds another node, tcp_send().
Forward == /\ up # <<>>
           /\ Send(Head(up)) \/ SendLater(Head(up))
           /\ up' = Tail(up)
           /\ UNCHANGED <<call, down>>

Answer(reqs, ok) == down' = down \o [i \in 1..Len(reqs) |-> [req |-> reqs[i], ok |-> ok]]

\* The promise of the connection was rejected before.
ForwardFails == /\ up # <<>> /\ socket = "rejected"
                /\ up' = Tail(up)
                /\ Answer(<<Head(up)>>, FALSE)
                /\ UNCHANGED <<channel, call>>

ConnectionFails == /\ Refused
                   /\ Answer(waiting, FALSE)
                   /\ UNCHANGED <<call, up>>

\* The answer from the other node is passed on to the worker.
Answered == \E r \in Requests : /\ Response(r)
                                /\ Answer(<<r>>, Head(back).ok)
                                /\ UNCHANGED <<call, up>>

\* Mailbox._handle_response() in the worker.
Settled == /\ down # <<>>
           /\ call' = [call EXCEPT ![Head(down).req] = IF Head(down).ok THEN "resolved"
                                                       ELSE "rejected"]
           /\ down' = Tail(down)
           /\ UNCHANGED <<channel, up>>

Local == UNCHANGED <<call, up, down>>

Next == \/ \E r \in Requests : Call(r)
        \/ Forward \/ ForwardFails \/ ConnectionFails \/ Answered \/ Settled
        \/ /\ Local
           /\ \/ Connected \/ Deliver
              \/ \E id \in 1..OVERFLOW : Resend(id)
              \/ \E x \in running : Finish(x) \/ Fail(x)
              \/ \E restarted \in BOOLEAN : Close(restarted)

\* Messages are delivered, connections come to an end of their attempts, and
\* executions end.
Fairness ==
    /\ WF_vars(Forward \/ ForwardFails) /\ WF_vars(Answered) /\ WF_vars(Settled)
    /\ WF_vars((Local /\ Connected) \/ ConnectionFails)
    /\ WF_vars(Local /\ Deliver)
    /\ \A id \in 1..OVERFLOW, r \in Requests :
          WF_vars(Local /\ \E x \in running : x.id = id /\ x.req = r /\ (Finish(x) \/ Fail(x)))

Spec == Init /\ [][Next]_vars /\ Fairness

-----------------------------------------------------------------------------
Ended(r) == call[r] \in {"resolved", "rejected"}

\* Every call ends: what the docstring of Mailbox promises (node.js:16-19).  False:
\* a request that was pending on a closed connection may never be answered.
EveryCallEnds == \A r \in Requests : call[r] = "pending" ~> Ended(r)

\* Every call ends unless the connection was closed on it or numbers start anew.
CallsEndUnlessCut ==
    \A r \in Requests : call[r] = "pending" ~> (Ended(r) \/ r \in cut \/ wrapped)
=============================================================================
