----------------------------- MODULE TcpChannel -----------------------------
(***************************************************************************)
(* Requests sent over TCP from the master process of one node to that of   *)
(* another (schemat/server/tcp.js: TCP_Sender, TCP_Receiver).              *)
(*                                                                         *)
(* The sender connects when there is something to send, greets with        *)
(* message 0, numbers its requests and keeps them as pending until they    *)
(* are answered; every request that is pending for long enough is sent     *)
(* again at each tick of a timer, over the connection there is.  The       *)
(* receiver executes requests concurrently; the watermark is the number of *)
(* the request that ended last, and requests at or below it are ignored.   *)
(*                                                                         *)
(* A connection delivers in order.  When it is closed, what is on the wire *)
(* is lost; the receiver may also be restarted.                            *)
(***************************************************************************)
EXTENDS Naturals, Sequences, SequencesExt, FiniteSets

CONSTANTS Requests,
          OVERFLOW,     \* the largest message number
          MaxResends, MaxCloses, MaxRefused, MaxErrors    \* bounds

ASSUME ChannelAssumption == /\ OVERFLOW \in Nat \ {0}
                            /\ {MaxResends, MaxCloses, MaxRefused, MaxErrors} \subseteq Nat

VARIABLES socket,       \* sockets.get(address)
          waiting,      \* requests that await the connection
          message_id,   \* number sent last
          pending,      \* pending: number -> request
          wire,         \* numbers and requests on their way
          back,         \* answers on their way
          greeted,      \* the receiver knows who sends on this connection
          watermark,    \* of the sender; 0 if there is none
          running,      \* requests being executed: [id, req, over, copy]
          connection,   \* serial number of the connection
          bounds,       \* counts of resends, closed connections and errors
          started,      \* history: number of executions of each request
          ignored,      \* history: requests that were ignored
          cut,          \* history: requests pending when a connection was closed
          done,         \* history: requests that ended without error, with their connection
          redone,       \* history: those of them executed again over the same connection
          overlapped,   \* history: requests with a copy received while one was executed
          erred,        \* history: requests that ended with an error
          lowered,      \* history: the watermark was set to a lower number
          wrapped       \* history: message numbers started anew

history == <<started, ignored, cut, done, redone, overlapped, erred, lowered, wrapped>>
channel == <<socket, waiting, message_id, pending, wire, back, greeted, watermark, running,
             connection, bounds, history>>

ChannelTypeOK ==
    /\ socket \in {"none", "connecting", "open", "rejected"}
    /\ message_id \in 0..OVERFLOW /\ watermark \in 0..OVERFLOW
    /\ DOMAIN pending \subseteq 1..OVERFLOW
    /\ \A id \in DOMAIN pending : pending[id] \in Requests
    /\ \A m \in ToSet(wire) \union ToSet(back) \union running : m.id \in 0..OVERFLOW
    /\ {greeted, lowered, wrapped} \subseteq BOOLEAN
    /\ started \in [Requests -> Nat]
    /\ ignored \union cut \union redone \union overlapped \union erred \subseteq Requests
    /\ ToSet(waiting) \subseteq Requests

ChannelInit ==
    /\ socket = "none" /\ waiting = <<>>
    /\ message_id = 0 /\ pending = <<>>
    /\ wire = <<>> /\ back = <<>>
    /\ greeted = FALSE /\ watermark = 0
    /\ running = {} /\ connection = 0
    /\ bounds = [resends |-> 0, closes |-> 0, refused |-> 0, errors |-> 0]
    /\ started = [r \in Requests |-> 0]
    /\ ignored = {} /\ cut = {} /\ done = {} /\ redone = {}
    /\ overlapped = {} /\ erred = {}
    /\ lowered = FALSE /\ wrapped = FALSE

Count(what, max) == bounds[what] < max /\ bounds' = [bounds EXCEPT ![what] = @ + 1]

Outstanding == {pending[id] : id \in DOMAIN pending}

-----------------------------------------------------------------------------
\* TCP_Sender

NextId(id) == IF id >= OVERFLOW THEN 1 ELSE id + 1

\* Mutant of Numbered: numbers start from 1 on every connection.
Numbered_PerConnection(reqs) == [i \in 1..Len(reqs) |-> [id |-> i, req |-> reqs[i]]]

\* The numbers of requests that are sent one after the other.
Numbered(reqs) ==
    LET ids[i \in 0..Len(reqs)] == IF i = 0 THEN message_id ELSE NextId(ids[i - 1])
    IN  [i \in 1..Len(reqs) |-> [id |-> ids[i], req |-> reqs[i]]]

\* Number, register and write requests behind what is on the wire.
Transmit(reqs, before) ==
    LET messages == Numbered(reqs)
        sent == {messages[i].id : i \in 1..Len(reqs)}
    IN  /\ message_id' = IF reqs = <<>> THEN message_id ELSE Last(messages).id
        /\ pending' = [id \in DOMAIN pending \union sent |->
                         IF id \in sent THEN (CHOOSE m \in ToSet(messages) : m.id = id).req
                         ELSE pending[id]]
        /\ wire' = before \o messages
        /\ wrapped' = (wrapped \/ message_id + Len(reqs) > OVERFLOW)

\* send(), when there is a connection.
Send(r) == /\ socket = "open"
           /\ Transmit(<<r>>, wire)
           /\ UNCHANGED <<socket, waiting, back, greeted, watermark, running, connection,
                          bounds, started, ignored, cut, done, redone, overlapped, erred, lowered>>

\* send(), which connects, or awaits the connection.
SendLater(r) == /\ socket \in {"none", "connecting"}
                /\ socket' = "connecting"
                /\ waiting' = Append(waiting, r)
                /\ UNCHANGED <<message_id, pending, wire, back, greeted, watermark, running,
                               connection, bounds, history>>

Handshake == [id |-> 0]

\* _connect() succeeds: the handshake, then those that wait.
Connected == /\ socket = "connecting"
             /\ socket' = "open"
             /\ connection' = connection + 1
             /\ Transmit(waiting, <<Handshake>>)
             /\ waiting' = <<>>
             /\ UNCHANGED <<back, greeted, watermark, running, bounds, started, ignored, cut,
                            done, redone, overlapped, erred, lowered>>

\* _tcp_connect() gives up; the rejected promise stays in `sockets`.  Those that
\* wait are rejected.
Refused == /\ socket = "connecting"
           /\ Count("refused", MaxRefused)
           /\ socket' = "rejected"
           /\ waiting' = <<>>
           /\ UNCHANGED <<message_id, pending, wire, back, greeted, watermark, running,
                          connection, history>>

\* _resend_pending(), for one request that is pending for long enough.
Resend(id) == /\ id \in DOMAIN pending /\ socket = "open"
              /\ Count("resends", MaxResends)
              /\ wire' = Append(wire, [id |-> id, req |-> pending[id]])
              /\ UNCHANGED <<socket, waiting, message_id, pending, back, greeted, watermark,
                             running, connection, history>>

\* _tcp_handle_response(): r is the request that is answered by it.
Response(r) ==
    LET id == Head(back).id
    IN  /\ back # <<>> /\ id \in DOMAIN pending /\ r = pending[id]
        /\ pending' = [i \in DOMAIN pending \ {id} |-> pending[i]]
        /\ back' = Tail(back)
        /\ UNCHANGED <<socket, waiting, message_id, wire, greeted, watermark, running,
                       connection, bounds, history>>

\* An answer to a request that was answered before.
UnknownResponse == /\ back # <<>> /\ Head(back).id \notin DOMAIN pending
                   /\ back' = Tail(back)
                   /\ UNCHANGED <<socket, waiting, message_id, pending, wire, greeted, watermark,
                                  running, connection, bounds, history>>

-----------------------------------------------------------------------------
\* TCP_Receiver

\* _handshake_request()
Greet == /\ wire # <<>> /\ Head(wire).id = 0
         /\ greeted' = TRUE
         /\ watermark' = 0
         /\ wire' = Tail(wire)
         /\ UNCHANGED <<socket, waiting, message_id, pending, back, running, connection, bounds,
                        history>>

Arriving == wire # <<>> /\ Head(wire).id # 0

\* Mutant of Fresh: off by one.
Fresh_Inclusive(id) == id >= watermark

\* Numbers at or below the watermark were received before.
Fresh(id) == id > watermark

\* _tcp_handle_request() starts to execute the request.
Execute == /\ Arriving /\ greeted
           /\ LET m == Head(wire)
              IN  /\ Fresh(m.id)
                  /\ running' = running \union {[id |-> m.id, req |-> m.req, over |-> connection,
                                                 copy |-> started[m.req]]}
                  /\ started' = [started EXCEPT ![m.req] = @ + 1]
                  /\ redone' = IF [req |-> m.req, over |-> connection] \in done
                               THEN redone \union {m.req} ELSE redone
                  /\ overlapped' = IF \E x \in running : x.req = m.req /\ x.over = connection
                                   THEN overlapped \union {m.req} ELSE overlapped
           /\ wire' = Tail(wire)
           /\ UNCHANGED <<socket, waiting, message_id, pending, back, greeted, watermark,
                          connection, bounds, ignored, cut, done, erred, lowered, wrapped>>

\* It is taken for one that was received before; nothing is answered.
Ignore == /\ Arriving /\ greeted /\ ~Fresh(Head(wire).id)
          /\ ignored' = ignored \union {Head(wire).req}
          /\ wire' = Tail(wire)
          /\ UNCHANGED <<socket, waiting, message_id, pending, back, greeted, watermark, running,
                         connection, bounds, started, cut, done, redone, overlapped, erred, lowered, wrapped>>

\* Mutant of Reply: errors are not answered.
Reply_ResultsOnly(x, ok) == back' = IF x.over = connection /\ socket = "open" /\ ok
                                    THEN Append(back, [id |-> x.id, req |-> x.req, ok |-> ok])
                                    ELSE back

\* The answer is written to the connection of the request, if it is still open.
Reply(x, ok) == back' = IF x.over = connection /\ socket = "open"
                        THEN Append(back, [id |-> x.id, req |-> x.req, ok |-> ok]) ELSE back

Finish(x) == /\ x \in running
             /\ running' = running \ {x}
             /\ watermark' = x.id
             /\ lowered' = (lowered \/ x.id < watermark)
             /\ done' = done \union {[req |-> x.req, over |-> x.over]}
             /\ Reply(x, TRUE)
             /\ UNCHANGED <<socket, waiting, message_id, pending, wire, greeted, connection,
                            bounds, started, ignored, cut, redone, overlapped, erred, wrapped>>

\* An error is answered, too, but leaves the watermark.
Fail(x) == /\ x \in running
           /\ Count("errors", MaxErrors)
           /\ running' = running \ {x}
           /\ erred' = erred \union {x.req}
           /\ Reply(x, FALSE)
           /\ UNCHANGED <<socket, waiting, message_id, pending, wire, greeted, watermark,
                          connection, started, ignored, cut, done, redone, overlapped,
                          lowered, wrapped>>

-----------------------------------------------------------------------------
\* The connection is closed; with it, the receiver may have been restarted.
Close(restarted) == /\ socket = "open"
                    /\ Count("closes", MaxCloses)
                    /\ socket' = "none"
                    /\ wire' = <<>> /\ back' = <<>>
                    /\ greeted' = FALSE
                    /\ cut' = cut \union Outstanding
                    /\ IF restarted THEN running' = {} /\ watermark' = 0
                       ELSE UNCHANGED <<running, watermark>>
                    /\ UNCHANGED <<waiting, message_id, pending, connection, started, ignored,
                                   done, redone, overlapped, erred, lowered, wrapped>>

Deliver == Greet \/ Execute \/ Ignore \/ UnknownResponse
-----------------------------------------------------------------------------
\* Two requests in progress have different numbers, and every answer is for the
\* request it is taken for, until the numbers start anew (tcp.js:202-208).
AnswersMatch ==
    ~wrapped => \A i \in 1..Len(back) : back[i].id \in DOMAIN pending
                                            => pending[back[i].id] = back[i].req

\* A request is ignored only if it was received before, unless the connection was
\* closed on it: it may then come after requests with higher numbers.
IgnoredWasReceived == \A r \in ignored : started[r] > 0 \/ r \in cut \/ wrapped

\* A request that was ignored had been received, and one that ended without error
\* is not executed again over the same connection, unless requests end in another
\* order than they were sent: the watermark is then set back (tcp.js:291-305).
RedoneOnlyIfLowered == IgnoredWasReceived /\ (redone = {} \/ lowered \/ wrapped)

\* A request is executed more than once only if another copy of it was executed
\* when this one arrived, if it ended with an error, if it was sent again over a new
\* connection, or if the watermark was set back: the watermark is moved when a
\* request ends, not when it is received (tcp.js:170-188, 281-301).
RepeatsExplained ==
    \A r \in Requests :
        started[r] > 1 => r \in overlapped \union erred \union cut \/ lowered \/ wrapped

\* Each request is executed once and gets its own answer, but for the cases above.
EachAnsweredOnce == AnswersMatch /\ RedoneOnlyIfLowered /\ RepeatsExplained
=============================================================================
