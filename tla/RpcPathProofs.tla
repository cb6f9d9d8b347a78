---------------------------- MODULE RpcPathProofs ----------------------------
(***************************************************************************)
(* A request over a channel between two processes (tcp.js:107-345) gets    *)
(* the answer that was given to it, is ignored only if it was received or  *)
(* cut off, and is executed again only if a copy of it was being executed, *)
(* or failed or was cut off, or once the watermark was set back: for any   *)
(* number of requests, connections, resends, errors and closes.            *)
(*                                                                         *)
(* A number is kept in four places: on the wire, with the sender, with the *)
(* execution and in the answer.  Wherever it is kept it means the same     *)
(* request (Numbers), which rests on a request being sent once (SentOnce). *)
(* A number above the watermark is not skipped before it arrives           *)
(* (Delivery): a larger one ahead of it on the wire is behind a copy of    *)
(* it.  An execution belongs to a connection (Connections), so that what   *)
(* ended over this one is at or below the watermark (Repetition); so what  *)
(* was executed and may arrive again runs still, unless it failed or was   *)
(* cut off (Repeats).  All of it holds until the sender's numbers start    *)
(* anew.                                                                   *)
(***************************************************************************)
EXTENDS RpcPath, SequenceTheorems, WellFoundedInduction, TLAPS

\* Messages on the wire: the handshake, or a numbered request.
Messages == [id : {0}] \union [id : Nat \ {0}, req : Requests]
Responses == [id : Nat \ {0}, req : Requests, ok : BOOLEAN]

\* The types of the state while the numbers go on.
WellFormed ==
    /\ socket \in {"none", "connecting", "open", "rejected"}
    /\ {greeted, lowered} \subseteq BOOLEAN
    /\ message_id \in Nat /\ watermark \in Nat /\ connection \in Nat
    /\ message_id <= OVERFLOW
    /\ up \in Seq(Requests) /\ waiting \in Seq(Requests)
    /\ wire \in Seq(Messages)
    /\ back \in Seq(Responses)
    /\ DOMAIN pending \subseteq Nat \ {0}
    /\ \A id \in DOMAIN pending : pending[id] \in Requests
    /\ running \subseteq [id : Nat \ {0}, req : Requests, over : Nat, copy : Nat]
    /\ started \in [Requests -> Nat] /\ ignored \subseteq Requests
    /\ done \subseteq [req : Requests, over : Nat]
    /\ call \in [Requests -> {"none", "pending", "resolved", "rejected"}]

\* The numbers of requests, wherever one of them is kept.
OnWire == {<<wire[k].id, wire[k].req>> : k \in {l \in 1..Len(wire) : wire[l].id # 0}}
Known == {<<id, pending[id]>> : id \in DOMAIN pending}
Executed == {<<x.id, x.req>> : x \in running}
OnWayBack == {<<back[k].id, back[k].req>> : k \in 1..Len(back)}
Tokens == OnWire \union Known \union Executed \union OnWayBack

\* Those that may lead to an execution, now or after they are sent again.
Unsettled == OnWire \union Known

\* Requests that are to be sent.
Ready(r) == (\E k \in 1..Len(up) : up[k] = r) \/ (\E k \in 1..Len(waiting) : waiting[k] = r)

\* A number stands for one request, a request has one number, and neither is
\* given again: later numbers are larger, requests to be sent have none.
Numbers ==
    /\ watermark <= message_id
    /\ \A t \in Tokens : t[1] <= message_id /\ call[t[2]] # "none" /\ ~Ready(t[2])
    /\ \A t, u \in Tokens : t[1] = u[1] <=> t[2] = u[2]

\* A request is queued in one place, once, and not after it was executed.
SentOnce ==
    /\ \A k, l \in 1..Len(up) : up[k] = up[l] => k = l
    /\ \A k, l \in 1..Len(waiting) : waiting[k] = waiting[l] => k = l
    /\ \A k \in 1..Len(up), l \in 1..Len(waiting) : up[k] # waiting[l]
    /\ \A r \in Requests : Ready(r) => call[r] # "none" /\ \A d \in done : d.req # r
    /\ \A d \in done : call[d.req] # "none"

\* The request was received, or its connection was closed.
Excused(r) == started[r] > 0 \/ r \in cut

\* What waits for an answer is on the wire or was received.  What is on the wire
\* and was never received is above the watermark and above all that is executed,
\* and precedes every larger number, in its first copy.
Delivery ==
    /\ \A id \in DOMAIN pending : Excused(pending[id]) \/ \E k \in 1..Len(wire) : wire[k].id = id
    /\ \A x \in running : started[x.req] > 0
    /\ \A k \in 1..Len(wire) :
          wire[k].id # 0 /\ ~Excused(wire[k].req) =>
              /\ wire[k].id > watermark
              /\ \A x \in running : x.id < wire[k].id
              /\ \A l \in 1..k-1 : wire[l].id > wire[k].id =>
                                      \E p \in 1..l-1 : wire[p].id = wire[k].id
    /\ \A r \in ignored : Excused(r)

\* What is on the wire or in execution belongs to the open connection, and only
\* the greeted server has executed anything over it.
Connections ==
    /\ greeted => socket = "open"
    /\ wire # <<>> => socket = "open"
    /\ \A k \in 1..Len(wire) : wire[k].id = 0 => k = 1 /\ ~greeted
    /\ \A x \in running \union done : /\ x.over <= connection
                                      /\ socket = "open" /\ ~greeted => x.over # connection

\* Nothing that ended over this connection is above the watermark.
Repetition ==
    ~lowered =>
        /\ redone = {}
        /\ greeted => \A d \in done, t \in Tokens :
                          d.over = connection /\ t[2] = d.req => t[1] <= watermark

\* A request was executed before it may be again, over this connection, unless a
\* reason to repeat it is on record; and then the watermark is still to come.
Explained(r) == r \in overlapped \union erred \union cut
Repeats ==
    /\ \A r \in Requests : call[r] = "none" \/ Ready(r) => started[r] = 0
    /\ socket # "open" => \A id \in DOMAIN pending : pending[id] \in cut
    /\ ~lowered =>
          /\ \A t \in Unsettled : \/ started[t[2]] = 0 \/ Explained(t[2])
                                  \/ \E x \in running \union done : x.req = t[2] /\ x.over = connection
          /\ \A r \in Requests : started[r] > 1 => Explained(r)

Sound == WellFormed /\ Numbers /\ SentOnce /\ Delivery /\ Connections /\ Repetition
Inv == wrapped \in BOOLEAN /\ (~wrapped => Sound)
FullInv == Inv /\ (~wrapped => Repeats)
-----------------------------------------------------------------------------
\* A nonempty set of natural numbers has a least element.
LEMMA LeastElement ==
    ASSUME NEW S, S \subseteq Nat, S # {}
    PROVE  \E x \in S : \A y \in S : x <= y
<1>1. PICK x \in S : \A y \in S : ~(<<y, x>> \in OpToRel(<, Nat))
  BY WFMin, NatLessThanWellFounded
<1>2. \A y \in S : ~(y < x)
  BY <1>1 DEF OpToRel
<1> QED BY <1>2

\* Requests that fit below the largest number get consecutive ones.
LEMMA NumberedInOrder ==
    ASSUME NEW reqs \in Seq(Requests), message_id \in Nat, OVERFLOW \in Nat,
           message_id + Len(reqs) <= OVERFLOW
    PROVE  Numbered(reqs) = [i \in 1..Len(reqs) |-> [id |-> message_id + i, req |-> reqs[i]]]
<1> DEFINE n == Len(reqs)
           Follows(f) == f = [i \in 0..n |-> IF i = 0 THEN message_id ELSE NextId(f[i - 1])]
           ids == CHOOSE f : Follows(f)
           straight == [i \in 0..n |-> message_id + i]
<1>1. n \in Nat
  OBVIOUS
<1>2. Follows(straight)
  BY <1>1 DEF NextId
<1>3. Follows(ids)
  BY <1>2
<1>4. \A i \in 0..n : ids[i] = message_id + i
  <2> DEFINE S == {i \in 0..n : ids[i] # message_id + i}
  <2>1. SUFFICES ASSUME S # {} PROVE FALSE
    OBVIOUS
  <2>0. S \subseteq Nat
    BY <1>1
  <2>2. PICK m \in S : \A j \in S : m <= j
    BY <2>0, <2>1, LeastElement
  <2>3. ids[m] = IF m = 0 THEN message_id ELSE NextId(ids[m - 1])
    BY <1>3
  <2>4. m # 0
    BY <2>3, <2>2
  <2>5. m - 1 \in 0..n /\ ids[m - 1] = message_id + (m - 1)
    BY <2>2, <2>4, <1>1
  <2> QED BY <2>2, <2>3, <2>4, <2>5, <1>1 DEF NextId
<1>5. Numbered(reqs) = [i \in 1..n |-> [id |-> ids[i], req |-> reqs[i]]]
  BY DEF Numbered
<1> QED BY <1>4, <1>5, <1>1

New(reqs) == [i \in 1..Len(reqs) |-> [id |-> message_id + i, req |-> reqs[i]]]

\* What is sent is numbered from message_id on, unless numbers start anew.
LEMMA TransmitSpec ==
    ASSUME Inv, ~wrapped', NEW reqs \in Seq(Requests), NEW before, Transmit(reqs, before)
    PROVE  /\ ~wrapped
           /\ message_id' = message_id + Len(reqs) /\ message_id' \in Nat /\ message_id' <= OVERFLOW
           /\ wire' = before \o New(reqs)
           /\ DOMAIN pending' = DOMAIN pending \union (message_id + 1 .. message_id')
           /\ \A id \in DOMAIN pending' :
                 pending'[id] = IF id > message_id THEN reqs[id - message_id] ELSE pending[id]
<1> DEFINE n == Len(reqs)
           messages == New(reqs)
           sent == {messages[i].id : i \in 1..n}
<1>1. /\ ~wrapped /\ message_id + n <= OVERFLOW /\ message_id \in Nat /\ OVERFLOW \in Nat /\ n \in Nat
      /\ \A id \in DOMAIN pending : id <= message_id
  <2>1. wrapped' = (wrapped \/ message_id + n > OVERFLOW)
    BY DEF Transmit
  <2>2. ~wrapped /\ ~(message_id + n > OVERFLOW) /\ WellFormed /\ Numbers
    BY <2>1 DEF Inv, Sound
  <2>3. \A id \in DOMAIN pending : <<id, pending[id]>> \in Tokens
    BY DEF Tokens, Known
  <2>4. \A id \in DOMAIN pending : id <= message_id
    BY <2>2, <2>3 DEF Numbers
  <2> QED BY <2>2, <2>4, ChannelAssumption DEF WellFormed
<1>2. Numbered(reqs) = messages
  BY <1>1, NumberedInOrder DEF New
<1>3. /\ message_id' = IF reqs = <<>> THEN message_id ELSE Last(messages).id
      /\ wire' = before \o messages
      /\ pending' = [id \in DOMAIN pending \union sent |->
                       IF id \in sent THEN (CHOOSE m \in ToSet(messages) : m.id = id).req
                       ELSE pending[id]]
  BY <1>2 DEF Transmit
<1>4. /\ messages = [i \in 1..n |-> [id |-> message_id + i, req |-> reqs[i]]]
      /\ Len(messages) = n
      /\ \A i \in 1..n : messages[i].id = message_id + i /\ messages[i].req = reqs[i]
  BY <1>1 DEF New
<1>5. message_id' = message_id + n
  BY <1>1, <1>3, <1>4 DEF Last
<1>6. sent = message_id + 1 .. message_id + n
  <2>1. ASSUME NEW id \in message_id + 1 .. message_id + n PROVE id \in sent
    <3>1. id - message_id \in 1..n /\ messages[id - message_id].id = id
      BY <1>1, <1>4
    <3> QED BY <3>1
  <2>2. ASSUME NEW id \in sent PROVE id \in message_id + 1 .. message_id + n
    <3>1. PICK i \in 1..n : id = messages[i].id
      OBVIOUS
    <3> QED BY <3>1, <1>1, <1>4
  <2> QED BY <2>1, <2>2
<1>7. ASSUME NEW id \in sent
      PROVE  (CHOOSE m \in ToSet(messages) : m.id = id).req = reqs[id - message_id]
  <2>1. PICK i \in 1..n : id = messages[i].id /\ id = message_id + i
    BY <1>4
  <2>2. \A m \in ToSet(messages) : m.id = id => m = messages[i]
    BY <2>1, <1>4, <1>1 DEF ToSet
  <2>3. messages[i] \in ToSet(messages)
    BY <2>1, <1>4 DEF ToSet
  <2>4. (CHOOSE m \in ToSet(messages) : m.id = id) = messages[i]
    BY <2>1, <2>2, <2>3
  <2>5. id - message_id = i /\ messages[i].req = reqs[i]
    BY <2>1, <1>4, <1>1
  <2> QED BY <2>4, <2>5
<1> HIDE DEF n, messages, sent
<1>8. \A id \in sent : id > message_id
  BY <1>1, <1>6
<1>9. ASSUME NEW id \in DOMAIN pending \union sent
      PROVE  pending'[id] = IF id > message_id THEN reqs[id - message_id] ELSE pending[id]
  <2>1. CASE id \in sent
    BY <2>1, <1>3, <1>7, <1>8
  <2>2. CASE id \notin sent
    <3>1. pending'[id] = pending[id] /\ id <= message_id /\ id \in Nat
      BY <2>2, <1>1, <1>3 DEF Inv, Sound, WellFormed
    <3> QED BY <3>1, <1>1
  <2> QED BY <2>1, <2>2
<1>10. DOMAIN pending' = DOMAIN pending \union (message_id + 1 .. message_id')
  BY <1>3, <1>5, <1>6
<1>11. \A id \in DOMAIN pending' :
          pending'[id] = IF id > message_id THEN reqs[id - message_id] ELSE pending[id]
  BY <1>3, <1>9
<1>12. message_id' \in Nat /\ message_id' <= OVERFLOW
  BY <1>1, <1>5
<1>13. message_id' = message_id + Len(reqs) /\ wire' = before \o New(reqs)
  BY <1>3, <1>5 DEF n, messages
<1> QED BY <1>1, <1>10, <1>11, <1>12, <1>13

-----------------------------------------------------------------------------
\* What is left of a sequence without its first element.
LEMMA TailElements ==
    ASSUME NEW S, NEW s \in Seq(S), s # <<>>
    PROVE  /\ Tail(s) \in Seq(S) /\ Len(s) \in Nat \ {0} /\ Len(Tail(s)) = Len(s) - 1
           /\ Head(s) = s[1] /\ Head(s) \in S
           /\ \A k \in 1..Len(Tail(s)) : Tail(s)[k] = s[k + 1] /\ k + 1 \in 1..Len(s)
  OBVIOUS

\* A sequence with one more element.
LEMMA AppendElements ==
    ASSUME NEW S, NEW s \in Seq(S), NEW e \in S
    PROVE  /\ Append(s, e) \in Seq(S) /\ Len(s) \in Nat /\ Len(Append(s, e)) = Len(s) + 1
           /\ Append(s, e)[Len(s) + 1] = e
           /\ \A k \in 1..Len(s) : Append(s, e)[k] = s[k]
  OBVIOUS

\* The parts of Tokens.
LEMMA TokenOf ==
    /\ \A k \in 1..Len(wire) : wire[k].id # 0 => <<wire[k].id, wire[k].req>> \in Tokens
    /\ \A id \in DOMAIN pending : <<id, pending[id]>> \in Tokens
    /\ \A x \in running : <<x.id, x.req>> \in Tokens
    /\ \A k \in 1..Len(back) : <<back[k].id, back[k].req>> \in Tokens
  BY DEF Tokens, OnWire, Known, Executed, OnWayBack

\* No number is given, no request gets ready that was not.
LEMMA NumbersKept ==
    ASSUME Sound, Tokens' \subseteq Tokens, message_id' = message_id,
           watermark' \in Nat, watermark' <= message_id,
           \A r \in Requests : call[r] # "none" => call'[r] # "none",
           \A r \in Requests : Ready(r)' => Ready(r),
           \A t \in Tokens : t[2] \in Requests
    PROVE  Numbers'
  BY DEF Sound, Numbers

\* Tokens are numbers and requests.
LEMMA TokenTypes ==
    ASSUME Sound, NEW t \in Tokens
    PROVE  t[1] \in Nat \ {0} /\ t[2] \in Requests
<1>1. CASE t \in OnWire
  <2>1. PICK k \in 1..Len(wire) : wire[k].id # 0 /\ t = <<wire[k].id, wire[k].req>>
    BY <1>1 DEF OnWire
  <2>2. wire[k] \in Messages
    BY <2>1 DEF Sound, WellFormed
  <2> QED BY <2>1, <2>2 DEF Messages
<1>2. CASE t \in Known
  BY <1>2 DEF Known, Sound, WellFormed
<1>3. CASE t \in Executed
  BY <1>3 DEF Executed, Sound, WellFormed
<1>4. CASE t \in OnWayBack
  <2>1. PICK k \in 1..Len(back) : t = <<back[k].id, back[k].req>>
    BY <1>4 DEF OnWayBack
  <2>2. back[k] \in Responses
    BY <2>1 DEF Sound, WellFormed
  <2> QED BY <2>1, <2>2 DEF Responses
<1> QED BY <1>1, <1>2, <1>3, <1>4 DEF Tokens

\* The wire stays as it is, and the watermark, or it is set by a request that ends.
LEMMA DeliveryKept ==
    ASSUME Sound, UNCHANGED <<wire, started, cut, ignored>>, running' \subseteq running,
           DOMAIN pending' \subseteq DOMAIN pending,
           \A id \in DOMAIN pending' : pending'[id] = pending[id],
           watermark' = watermark \/ \E x \in running : watermark' = x.id
    PROVE  Delivery'
  BY DEF Sound, Delivery, Excused

\* A request is called: it was not before.
LEMMA CallKeeps ==
    ASSUME Sound, NEW r \in Requests, Call(r)
    PROVE  Sound'
<1>1. /\ call[r] = "none" /\ call' = [call EXCEPT ![r] = "pending"]
      /\ up \in Seq(Requests) /\ up' = Append(up, r)
      /\ UNCHANGED channel
  BY DEF Call, Sound, WellFormed
<1>2. /\ up' \in Seq(Requests) /\ Len(up) \in Nat /\ Len(up') = Len(up) + 1 /\ up'[Len(up) + 1] = r
      /\ \A k \in 1..Len(up) : up'[k] = up[k]
  BY <1>1, AppendElements
<1>3. call' \in [Requests -> {"none", "pending", "resolved", "rejected"}]
      /\ call'[r] = "pending" /\ \A q \in Requests : q # r => call'[q] = call[q]
  BY <1>1 DEF Sound, WellFormed
<1>4. \A q \in Requests : Ready(q)' <=> Ready(q) \/ q = r
  <2> SUFFICES ASSUME NEW q \in Requests PROVE Ready(q)' <=> Ready(q) \/ q = r
    OBVIOUS
  <2>1. (\E k \in 1..Len(up') : up'[k] = q) <=> (\E k \in 1..Len(up) : up[k] = q) \/ q = r
    BY <1>2
  <2> QED BY <2>1, <1>1 DEF Ready, channel
<1>5. WellFormed'
  BY <1>1, <1>2, <1>3 DEF Sound, WellFormed, channel, history
<1>6. Tokens' = Tokens
  BY <1>1 DEF Tokens, OnWire, Known, Executed, OnWayBack, channel
<1>7. Numbers'
  BY <1>1, <1>3, <1>4, <1>6, TokenTypes DEF Sound, Numbers, channel
<1>8. SentOnce'
  <2>1. ~Ready(r)
    BY <1>1 DEF Sound, SentOnce
  <2>2. \A k \in 1..Len(up) : up[k] # r
    BY <2>1 DEF Ready
  <2>3. \A k \in 1..Len(waiting) : waiting[k] # r
    BY <2>1 DEF Ready
  <2>4. \A k, l \in 1..Len(up') : up'[k] = up'[l] => k = l
    BY <1>2, <2>2 DEF Sound, SentOnce
  <2>5. \A k \in 1..Len(up'), l \in 1..Len(waiting') : up'[k] # waiting'[l]
    BY <1>1, <1>2, <2>3 DEF Sound, SentOnce, channel
  <2>6. \A d \in done : d.req \in Requests /\ d.req # r
    BY <1>1 DEF Sound, SentOnce, WellFormed
  <2>7. \A q \in Requests : Ready(q)' => call'[q] # "none" /\ \A d \in done' : d.req # q
    BY <1>1, <1>3, <1>4, <2>6 DEF Sound, SentOnce, channel, history
  <2>8. \A d \in done' : call'[d.req] # "none"
    BY <1>1, <1>3, <2>6 DEF Sound, SentOnce, channel, history
  <2>9. waiting' = waiting
    BY <1>1 DEF channel
  <2> QED BY <2>4, <2>5, <2>7, <2>8, <2>9 DEF Sound, SentOnce
<1>9. Delivery'
  BY <1>1, DeliveryKept DEF channel, history
<1>10. Connections' /\ Repetition'
  BY <1>1, <1>6 DEF Sound, Connections, Repetition, channel, history
<1> QED BY <1>5, <1>7, <1>8, <1>9, <1>10 DEF Sound

-----------------------------------------------------------------------------
\* The wire after requests were written behind `before`.
LEMMA WireAfter ==
    ASSUME NEW before \in Seq(Messages), NEW reqs \in Seq(Requests), message_id \in Nat,
           wire' = before \o New(reqs)
    PROVE  /\ wire' \in Seq(Messages)
           /\ Len(before) \in Nat /\ Len(reqs) \in Nat /\ Len(wire') = Len(before) + Len(reqs)
           /\ \A k \in 1..Len(before) : wire'[k] = before[k]
           /\ \A i \in 1..Len(reqs) : /\ wire'[Len(before) + i].id = message_id + i
                                      /\ wire'[Len(before) + i].req = reqs[i]
           /\ \A k \in 1..Len(wire') : k \in 1..Len(before) \/ \E i \in 1..Len(reqs) : k = Len(before) + i
<1>1. Len(reqs) \in Nat /\ Len(before) \in Nat
  OBVIOUS
<1>2. ASSUME NEW i \in 1..Len(reqs) PROVE [id |-> message_id + i, req |-> reqs[i]] \in Messages
  <2>1. reqs[i] \in Requests /\ message_id + i \in Nat \ {0}
    BY <1>1
  <2> QED BY <2>1 DEF Messages
<1>3. /\ New(reqs) \in Seq(Messages) /\ Len(New(reqs)) = Len(reqs)
      /\ \A i \in 1..Len(reqs) : New(reqs)[i].id = message_id + i /\ New(reqs)[i].req = reqs[i]
  BY <1>1, <1>2 DEF New
<1>4. /\ wire' \in Seq(Messages) /\ Len(wire') = Len(before) + Len(reqs)
      /\ \A k \in 1..Len(before) : wire'[k] = before[k]
      /\ \A k \in Len(before) + 1 .. Len(before) + Len(reqs) : wire'[k] = New(reqs)[k - Len(before)]
  <2> DEFINE more == New(reqs)
  <2>1. more \in Seq(Messages) /\ Len(more) = Len(reqs) /\ wire' = before \o more
    BY <1>3
  <2> HIDE DEF more
  <2>2. /\ wire' \in Seq(Messages) /\ Len(wire') = Len(before) + Len(more)
        /\ \A k \in 1..Len(before) : wire'[k] = before[k]
        /\ \A k \in Len(before) + 1 .. Len(before) + Len(more) : wire'[k] = more[k - Len(before)]
    <3>1. /\ before \o more \in Seq(Messages) /\ Len(before \o more) = Len(before) + Len(more)
          /\ \A i \in 1 .. Len(before) + Len(more) :
                (before \o more)[i] = IF i <= Len(before) THEN before[i] ELSE more[i - Len(before)]
      BY <2>1, ConcatProperties
    <3>2. Len(more) \in Nat
      BY <2>1, <1>1
    <3> QED BY <1>1, <2>1, <3>1, <3>2
  <2> QED BY <2>1, <2>2 DEF more
<1>5. \A i \in 1..Len(reqs) : wire'[Len(before) + i] = New(reqs)[i]
  <2> SUFFICES ASSUME NEW i \in 1..Len(reqs) PROVE wire'[Len(before) + i] = New(reqs)[i]
    OBVIOUS
  <2>1. /\ Len(before) + i \in Len(before) + 1 .. Len(before) + Len(reqs)
        /\ (Len(before) + i) - Len(before) = i
    BY <1>1
  <2> QED BY <1>4, <2>1
<1>6. \A k \in 1..Len(wire') : k \in 1..Len(before) \/ \E i \in 1..Len(reqs) : k = Len(before) + i
  <2> SUFFICES ASSUME NEW k \in 1..Len(wire'), k \notin 1..Len(before)
               PROVE  \E i \in 1..Len(reqs) : k = Len(before) + i
    OBVIOUS
  <2>1. k - Len(before) \in 1..Len(reqs) /\ k = Len(before) + (k - Len(before))
    BY <1>1, <1>4
  <2> QED BY <2>1
<1> QED BY <1>1, <1>3, <1>4, <1>5, <1>6

\* Requests are written, behind what is on the wire or as the first ones of a connection.
Transmitted(reqs, before) ==
    /\ reqs \in Seq(Requests) /\ Transmit(reqs, before) /\ ~wrapped'
    /\ before = wire \/ (wire = <<>> /\ before = <<Handshake>>)
    /\ UNCHANGED <<back, running, watermark, call, started, ignored, cut, done, redone, lowered, greeted>>
    /\ \A i \in 1..Len(reqs) : Ready(reqs[i])
    /\ \A i, j \in 1..Len(reqs) : reqs[i] = reqs[j] => i = j
    /\ \A r \in Requests : Ready(r)' => Ready(r) /\ \A i \in 1..Len(reqs) : r # reqs[i]

\* Requests that are transmitted join the end of the wire.
LEMMA TransmittedWire ==
    ASSUME Inv, NEW reqs, NEW before, Transmitted(reqs, before)
    PROVE  /\ Sound /\ before \in Seq(Messages) /\ message_id \in Nat
           /\ wire' = before \o New(reqs)
<1>1. ~wrapped /\ Sound /\ wire' = before \o New(reqs)
  BY TransmitSpec DEF Transmitted, Inv
<1>2. wire \in Seq(Messages) /\ message_id \in Nat
  BY <1>1 DEF Sound, WellFormed
<1>3. Handshake \in Messages
  BY DEF Handshake, Messages
<1>4. <<Handshake>> \in Seq(Messages)
  BY <1>3
<1> QED BY <1>1, <1>2, <1>4 DEF Transmitted

\* They get the next numbers; no other number comes up.
LEMMA TransmittedUnsettled ==
    ASSUME Inv, NEW reqs, NEW before, Transmitted(reqs, before), NEW t \in Unsettled'
    PROVE  t \in Unsettled \/ \E i \in 1..Len(reqs) : t = <<message_id + i, reqs[i]>>
<1>1. reqs \in Seq(Requests) /\ Transmit(reqs, before) /\ ~wrapped' /\ running' = running /\ back' = back
  BY DEF Transmitted
<1>2. /\ \A i \in 1..Len(reqs) : /\ wire'[Len(before) + i].id = message_id + i
                                 /\ wire'[Len(before) + i].req = reqs[i]
      /\ \A k \in 1..Len(wire') : k \in 1..Len(before) \/ \E i \in 1..Len(reqs) : k = Len(before) + i
  <2>1. before \in Seq(Messages) /\ message_id \in Nat /\ wire' = before \o New(reqs)
    BY TransmittedWire
  <2> HIDE DEF New
  <2> QED BY <2>1, <1>1, WireAfter
<1>3. CASE t \in OnWire'
  <2>1. PICK k \in 1..Len(wire') : wire'[k].id # 0 /\ t = <<wire'[k].id, wire'[k].req>>
    BY <1>3 DEF OnWire
  <2>2. CASE k \in 1..Len(before)
    <3>1. wire'[k] = before[k]
      BY <2>2, <1>1, TransmittedWire, WireAfter
    <3>2. CASE before = wire
      BY <2>1, <2>2, <3>1, <3>2 DEF Unsettled, OnWire
    <3>3. CASE before = <<Handshake>>
      BY <2>1, <2>2, <3>1, <3>3 DEF Handshake
    <3> QED BY <3>2, <3>3 DEF Transmitted
  <2>3. CASE \E i \in 1..Len(reqs) : k = Len(before) + i
    <3>1. PICK i \in 1..Len(reqs) : k = Len(before) + i
      BY <2>3
    <3>2. /\ wire'[Len(before) + i].id = message_id + i
          /\ wire'[Len(before) + i].req = reqs[i]
      BY <1>2
    <3> QED BY <2>1, <3>1, <3>2
  <2>4. k \in 1..Len(before) \/ \E i \in 1..Len(reqs) : k = Len(before) + i
    BY <1>2
  <2> QED BY <2>2, <2>3, <2>4
<1>4. CASE t \in Known'
  <2>1. PICK id \in DOMAIN pending' : t = <<id, pending'[id]>>
    BY <1>4 DEF Known
  <2>2. CASE id \in DOMAIN pending
    <3>1. id <= message_id /\ id \in Nat
      BY <2>2, TransmittedWire, TokenOf DEF Sound, Numbers, WellFormed
    <3>2. pending'[id] = pending[id]
      BY <3>1, <1>1, <2>1, TransmitSpec, TransmittedWire
    <3> QED BY <2>1, <2>2, <3>2 DEF Unsettled, Known
  <2>3. CASE id \in message_id + 1 .. message_id'
    <3>1. id - message_id \in 1..Len(reqs) /\ id = message_id + (id - message_id) /\ id > message_id
      BY <2>3, <1>1, TransmitSpec, TransmittedWire
    <3>2. pending'[id] = reqs[id - message_id]
      BY <3>1, <1>1, <2>1, TransmitSpec
    <3> QED BY <2>1, <3>1, <3>2
  <2> QED BY <2>1, <2>2, <2>3, <1>1, TransmitSpec
<1> QED BY <1>3, <1>4 DEF Unsettled

\* The same of all that is known of numbers.
LEMMA TransmittedTokens ==
    ASSUME Inv, NEW reqs, NEW before, Transmitted(reqs, before), NEW t \in Tokens'
    PROVE  t \in Tokens \/ \E i \in 1..Len(reqs) : t = <<message_id + i, reqs[i]>>
<1>1. running' = running /\ back' = back
  BY DEF Transmitted
<1>2. CASE t \in Unsettled'
  BY <1>2, TransmittedUnsettled DEF Unsettled, Tokens
<1>3. CASE t \in Executed' \/ t \in OnWayBack'
  BY <1>1, <1>3 DEF Executed, OnWayBack, Tokens
<1> QED BY <1>2, <1>3 DEF Unsettled, Tokens

\* A transmission keeps what the numbers mean.
LEMMA TransmittedNumbers ==
    ASSUME Inv, NEW reqs, NEW before, Transmitted(reqs, before)
    PROVE  Numbers'
<1>1. Sound /\ message_id \in Nat /\ reqs \in Seq(Requests) /\ Len(reqs) \in Nat
  BY TransmittedWire DEF Transmitted
<1>2. message_id' = message_id + Len(reqs) /\ watermark' = watermark /\ call' = call /\ watermark \in Nat
  BY <1>1, TransmitSpec DEF Transmitted, Sound, WellFormed
<1>3. ASSUME NEW t \in Tokens
      PROVE  /\ t[1] \in Nat /\ t[1] <= message_id /\ t[2] \in Requests
             /\ call[t[2]] # "none" /\ ~Ready(t[2])
  BY <1>1, <1>3, TokenTypes DEF Sound, Numbers
<1>4. ASSUME NEW i \in 1..Len(reqs)
      PROVE  Ready(reqs[i]) /\ reqs[i] \in Requests /\ call[reqs[i]] # "none" /\ ~Ready(reqs[i])'
  BY <1>1, <1>4 DEF Transmitted, Sound, SentOnce
<1>5. ASSUME NEW t \in Tokens'
      PROVE  t[1] <= message_id' /\ call'[t[2]] # "none" /\ ~Ready(t[2])'
  <2>1. CASE t \in Tokens
    BY <2>1, <1>1, <1>2, <1>3 DEF Transmitted
  <2>2. CASE \E i \in 1..Len(reqs) : t = <<message_id + i, reqs[i]>>
    BY <2>2, <1>1, <1>2, <1>4
  <2> QED BY <2>1, <2>2, TransmittedTokens
<1>6. ASSUME NEW t \in Tokens', NEW u \in Tokens'
      PROVE  t[1] = u[1] <=> t[2] = u[2]
  <2>1. CASE t \in Tokens /\ u \in Tokens
    BY <2>1, <1>1 DEF Sound, Numbers
  <2>2. CASE t \in Tokens /\ \E i \in 1..Len(reqs) : u = <<message_id + i, reqs[i]>>
    BY <2>2, <1>1, <1>3, <1>4
  <2>3. CASE u \in Tokens /\ \E i \in 1..Len(reqs) : t = <<message_id + i, reqs[i]>>
    BY <2>3, <1>1, <1>3, <1>4
  <2>4. CASE /\ \E i \in 1..Len(reqs) : t = <<message_id + i, reqs[i]>>
             /\ \E i \in 1..Len(reqs) : u = <<message_id + i, reqs[i]>>
    BY <2>4, <1>1 DEF Transmitted
  <2> QED BY <2>1, <2>2, <2>3, <2>4, TransmittedTokens
<1>7. watermark' <= message_id'
  BY <1>1, <1>2 DEF Sound, Numbers
<1> QED BY <1>5, <1>6, <1>7 DEF Numbers

\* Its numbers are larger than all others, so nothing overtakes.
LEMMA TransmittedDelivery ==
    ASSUME Inv, NEW reqs, NEW before, Transmitted(reqs, before)
    PROVE  Delivery'
<1> DEFINE b == Len(before)
           n == Len(reqs)
<1>1. /\ Sound /\ message_id \in Nat /\ before \in Seq(Messages) /\ reqs \in Seq(Requests)
      /\ b \in Nat /\ n \in Nat /\ wire \in Seq(Messages) /\ Len(wire) \in Nat
      /\ UNCHANGED <<running, watermark, started, ignored, cut>>
      /\ before = wire \/ (wire = <<>> /\ before = <<Handshake>>)
  BY TransmittedWire DEF Transmitted, Sound, WellFormed
<1>2. /\ wire' \in Seq(Messages) /\ Len(wire') = b + n
      /\ \A k \in 1..b : wire'[k] = before[k]
      /\ \A i \in 1..n : wire'[b + i].id = message_id + i /\ wire'[b + i].req = reqs[i]
      /\ \A k \in 1..Len(wire') : k \in 1..b \/ \E i \in 1..n : k = b + i
  <2>1. wire' = before \o New(reqs)
    BY TransmittedWire
  <2> HIDE DEF New
  <2> QED BY <2>1, <1>1, WireAfter
<1>3. /\ message_id' = message_id + n
      /\ DOMAIN pending' = DOMAIN pending \union (message_id + 1 .. message_id')
      /\ \A id \in DOMAIN pending' :
            pending'[id] = IF id > message_id THEN reqs[id - message_id] ELSE pending[id]
  BY <1>1, TransmitSpec DEF Transmitted
<1>4. /\ watermark \in Nat /\ watermark <= message_id
      /\ \A x \in running : x.id \in Nat /\ x.id <= message_id
      /\ \A id \in DOMAIN pending : id \in Nat /\ id <= message_id
      /\ \A k \in 1..b : before[k].id \in Nat /\ before[k].id <= message_id
  <2>1. \A x \in running : x.id \in Nat /\ x.id <= message_id
    BY <1>1, TokenOf DEF Sound, Numbers, WellFormed
  <2>2. \A id \in DOMAIN pending : id \in Nat /\ id <= message_id
    BY <1>1, TokenOf DEF Sound, Numbers, WellFormed
  <2>3. ASSUME NEW k \in 1..b PROVE before[k].id \in Nat /\ before[k].id <= message_id
    <3>1. before[k].id \in Nat
      BY <1>1 DEF Messages
    <3>2. CASE before[k].id = 0
      BY <3>2, <1>1
    <3>3. CASE before[k].id # 0
      <4>1. before = wire
        BY <3>3, <1>1 DEF Handshake
      <4> QED BY <4>1, <3>1, <3>3, <1>1, TokenOf DEF Sound, Numbers
    <3> QED BY <3>1, <3>2, <3>3
  <2> QED BY <1>1, <2>1, <2>2, <2>3 DEF Sound, WellFormed, Numbers
<1>5. \A r : Excused(r)' <=> Excused(r)
  BY <1>1 DEF Excused
<1>6. ASSUME NEW id \in DOMAIN pending'
      PROVE  Excused(pending'[id]) \/ \E k \in 1..Len(wire') : wire'[k].id = id
  <2>1. CASE id \in DOMAIN pending
    <3>1. pending'[id] = pending[id]
      BY <2>1, <1>1, <1>3, <1>4
    <3>2. CASE Excused(pending[id])
      BY <3>1, <3>2
    <3>3. CASE \E k \in 1..Len(wire) : wire[k].id = id
      <4>1. PICK k \in 1..Len(wire) : wire[k].id = id
        BY <3>3
      <4>2. before = wire
        BY <4>1, <1>1
      <4>3. k \in 1..Len(wire') /\ wire'[k].id = id
        BY <4>1, <4>2, <1>1, <1>2
      <4> QED BY <4>3
    <3> QED BY <2>1, <3>2, <3>3, <1>1 DEF Sound, Delivery
  <2>2. CASE id \in message_id + 1 .. message_id'
    <3>1. id - message_id \in 1..n /\ message_id + (id - message_id) = id
      BY <2>2, <1>1, <1>3
    <3>2. b + (id - message_id) \in 1..Len(wire') /\ wire'[b + (id - message_id)].id = id
      BY <3>1, <1>1, <1>2
    <3> QED BY <3>2
  <2> QED BY <2>1, <2>2, <1>3
<1>7. ASSUME NEW k \in 1..Len(wire'), wire'[k].id # 0, ~Excused(wire'[k].req)
      PROVE  /\ wire'[k].id > watermark
             /\ \A x \in running : x.id < wire'[k].id
             /\ \A l \in 1..k-1 : wire'[l].id > wire'[k].id =>
                                     \E p \in 1..l-1 : wire'[p].id = wire'[k].id
  <2>1. CASE k \in 1..b
    <3>1. before = wire /\ wire'[k] = wire[k] /\ k \in 1..Len(wire)
      BY <2>1, <1>1, <1>2, <1>7 DEF Handshake
    <3>2. \A l \in 1..k-1 : wire'[l] = wire[l]
      BY <3>1, <1>1, <1>2
    <3>3. /\ wire[k].id > watermark /\ \A x \in running : x.id < wire[k].id
          /\ \A l \in 1..k-1 : wire[l].id > wire[k].id => \E p \in 1..l-1 : wire[p].id = wire[k].id
      BY <3>1, <1>1, <1>7 DEF Sound, Delivery
    <3>4. \A l \in 1..k-1 : \A p \in 1..l-1 : p \in 1..k-1
      BY <3>1, <1>1
    <3> QED BY <3>1, <3>2, <3>3, <3>4
  <2>2. ASSUME NEW i \in 1..n, k = b + i
        PROVE  /\ wire'[k].id > watermark
               /\ \A x \in running : x.id < wire'[k].id
               /\ \A l \in 1..k-1 : ~(wire'[l].id > wire'[k].id)
    <3>1. wire'[k].id = message_id + i
      BY <2>2, <1>2
    <3>2. ASSUME NEW l \in 1..k-1 PROVE ~(wire'[l].id > wire'[k].id)
      <4>1. CASE l \in 1..b
        <5>1. wire'[l].id \in Nat /\ wire'[l].id <= message_id
          BY <4>1, <1>2, <1>4
        <5>2. i \in Nat /\ i > 0
          BY <1>1
        <5> QED BY <5>1, <5>2, <3>1, <1>1
      <4>2. CASE l \notin 1..b
        <5>1. l - b \in 1..n /\ l = b + (l - b) /\ l - b < i
          BY <4>2, <2>2, <1>1
        <5>2. wire'[l].id = message_id + (l - b)
          BY <5>1, <1>2
        <5> QED BY <5>1, <5>2, <3>1, <1>1
      <4> QED BY <4>1, <4>2
    <3> QED BY <3>1, <3>2, <1>1, <1>4
  <2> QED BY <2>1, <2>2, <1>2
<1> HIDE DEF b, n
<1>8. (\A x \in running : started[x.req] > 0) /\ (\A r \in ignored : Excused(r))
  BY <1>1 DEF Sound, Delivery
<1> QED BY <1>1, <1>5, <1>6, <1>7, <1>8 DEF Delivery

\* What is transmitted has not ended.
LEMMA TransmittedRepetition ==
    ASSUME Inv, NEW reqs, NEW before, Transmitted(reqs, before), connection' = connection \/ ~greeted
    PROVE  Repetition'
<1>1. /\ Sound /\ message_id \in Nat /\ reqs \in Seq(Requests)
      /\ UNCHANGED <<watermark, done, redone, lowered, greeted>>
      /\ \A i \in 1..Len(reqs) : Ready(reqs[i]) /\ reqs[i] \in Requests
  BY TransmittedWire DEF Transmitted
<1>2. ASSUME ~lowered, greeted, NEW d \in done, NEW t \in Tokens', d.over = connection, t[2] = d.req
      PROVE  t[1] <= watermark
  <2>1. CASE t \in Tokens
    BY <2>1, <1>1, <1>2 DEF Sound, Repetition
  <2>2. CASE \E i \in 1..Len(reqs) : t = <<message_id + i, reqs[i]>>
    BY <2>2, <1>1, <1>2 DEF Sound, SentOnce
  <2> QED BY <2>1, <2>2, TransmittedTokens
<1> QED BY <1>1, <1>2 DEF Sound, Repetition

-----------------------------------------------------------------------------
\* The request that send() writes was ready, and is not any more.
LEMMA SentTransmitted ==
    ASSUME Inv, ~wrapped', up # <<>>, Send(Head(up)), up' = Tail(up), UNCHANGED <<call, down>>
    PROVE  Transmitted(<<Head(up)>>, wire)
<1> DEFINE r == Head(up)
<1>1. ~wrapped /\ Sound
  BY DEF Inv, Send, Transmit
<1>2. /\ socket = "open" /\ Transmit(<<r>>, wire)
      /\ UNCHANGED <<socket, waiting, back, greeted, watermark, running, connection, bounds, started,
                     ignored, cut, done, redone, lowered, call>>
  BY DEF Send
<1>3. /\ up \in Seq(Requests) /\ up' \in Seq(Requests) /\ r = up[1] /\ r \in Requests
      /\ Len(up) \in Nat \ {0} /\ Len(up') = Len(up) - 1
      /\ \A k \in 1..Len(up') : up'[k] = up[k + 1] /\ k + 1 \in 1..Len(up)
  <2>1. up \in Seq(Requests)
    BY <1>1 DEF Sound, WellFormed
  <2> QED BY <2>1, TailElements
<1>4. /\ Ready(r)
      /\ \A q \in Requests : Ready(q)' => Ready(q) /\ q # r
  <2>1. Ready(r)
    BY <1>3 DEF Ready
  <2>2. \A k \in 1..Len(up') : up'[k] # r
    BY <1>1, <1>3 DEF Sound, SentOnce
  <2>3. \A k \in 1..Len(waiting) : waiting[k] # r
    BY <1>1, <1>3 DEF Sound, SentOnce
  <2> QED BY <2>1, <2>2, <2>3, <1>2, <1>3 DEF Ready
<1>5. Transmitted(<<r>>, wire)
  <2>1. <<r>> \in Seq(Requests) /\ Len(<<r>>) = 1 /\ <<r>>[1] = r
    BY <1>3
  <2> QED BY <2>1, <1>2, <1>3, <1>4 DEF Transmitted
<1> QED BY <1>5

\* send() writes a request.
LEMMA SendKeeps ==
    ASSUME Inv, ~wrapped', up # <<>>, Send(Head(up)), up' = Tail(up), UNCHANGED <<call, down>>
    PROVE  Sound'
<1> DEFINE r == Head(up)
<1>1. ~wrapped /\ Sound
  BY DEF Inv, Send, Transmit
<1>2. /\ socket = "open" /\ Transmit(<<r>>, wire)
      /\ UNCHANGED <<socket, waiting, back, greeted, watermark, running, connection, bounds, started,
                     ignored, cut, done, redone, lowered, call>>
  BY DEF Send
<1>3. /\ up \in Seq(Requests) /\ up' \in Seq(Requests) /\ r = up[1] /\ r \in Requests
      /\ Len(up) \in Nat \ {0} /\ Len(up') = Len(up) - 1
      /\ \A k \in 1..Len(up') : up'[k] = up[k + 1] /\ k + 1 \in 1..Len(up)
  <2>1. up \in Seq(Requests)
    BY <1>1 DEF Sound, WellFormed
  <2> QED BY <2>1, TailElements
<1>4. /\ Ready(r)
      /\ \A q \in Requests : Ready(q)' => Ready(q) /\ q # r
  <2>1. Ready(r)
    BY <1>3 DEF Ready
  <2>2. \A k \in 1..Len(up') : up'[k] # r
    BY <1>1, <1>3 DEF Sound, SentOnce
  <2>3. \A k \in 1..Len(waiting) : waiting[k] # r
    BY <1>1, <1>3 DEF Sound, SentOnce
  <2> QED BY <2>1, <2>2, <2>3, <1>2, <1>3 DEF Ready
<1>5. Transmitted(<<r>>, wire)
  BY SentTransmitted
<1>6. WellFormed'
  <2>1. wire' \in Seq(Messages)
    <3>1. <<r>> \in Seq(Requests) /\ message_id \in Nat /\ wire \in Seq(Messages) /\ wire' = wire \o New(<<r>>)
      <4>1. message_id \in Nat /\ wire \in Seq(Messages) /\ wire' = wire \o New(<<r>>)
        BY <1>5, TransmittedWire, Zenon
      <4> QED BY <4>1, <1>3
    <3> HIDE DEF New
    <3> QED BY <3>1, WireAfter
  <2>2. /\ message_id' \in Nat /\ message_id' <= OVERFLOW
        /\ DOMAIN pending' \subseteq Nat \ {0}
        /\ \A id \in DOMAIN pending' : pending'[id] \in Requests
    <3>1. <<r>> \in Seq(Requests) /\ Len(<<r>>) = 1 /\ <<r>>[1] = r
      BY <1>3
    <3>2. /\ message_id \in Nat /\ message_id' = message_id + 1 /\ message_id' <= OVERFLOW
          /\ DOMAIN pending' = DOMAIN pending \union (message_id + 1 .. message_id')
          /\ \A id \in DOMAIN pending' :
                pending'[id] = IF id > message_id THEN <<r>>[id - message_id] ELSE pending[id]
      BY <3>1, <1>2, <1>5, TransmitSpec, TransmittedWire
    <3>3. \A id \in DOMAIN pending : id \in Nat \ {0} /\ pending[id] \in Requests /\ id <= message_id
      BY <1>1, TokenOf DEF Sound, WellFormed, Numbers
    <3>4. \A id \in message_id + 1 .. message_id' : id > message_id /\ id - message_id = 1 /\ id \in Nat \ {0}
      BY <3>2
    <3> QED BY <3>1, <3>2, <3>3, <3>4, <1>3
  <2> QED BY <2>1, <2>2, <1>1, <1>2, <1>3 DEF Sound, WellFormed
<1>7. SentOnce'
  <2>1. \A k, l \in 1..Len(up') : up'[k] = up'[l] => k = l
    BY <1>1, <1>3 DEF Sound, SentOnce
  <2>2. \A k \in 1..Len(up'), l \in 1..Len(waiting') : up'[k] # waiting'[l]
    BY <1>1, <1>2, <1>3 DEF Sound, SentOnce
  <2> QED BY <2>1, <2>2, <1>1, <1>2, <1>4 DEF Sound, SentOnce
<1>8. Connections'
  <2>1. \A k \in 1..Len(wire') : wire'[k].id = 0 => k \in 1..Len(wire) /\ wire'[k] = wire[k]
    <3>1. <<r>> \in Seq(Requests) /\ message_id \in Nat /\ wire \in Seq(Messages) /\ wire' = wire \o New(<<r>>)
      <4>1. message_id \in Nat /\ wire \in Seq(Messages) /\ wire' = wire \o New(<<r>>)
        BY <1>5, TransmittedWire, Zenon
      <4> QED BY <4>1, <1>3
    <3> HIDE DEF New
    <3>2. /\ \A k \in 1..Len(wire) : wire'[k] = wire[k]
          /\ \A i \in 1..Len(<<r>>) : wire'[Len(wire) + i].id = message_id + i
          /\ \A k \in 1..Len(wire') : k \in 1..Len(wire) \/ \E i \in 1..Len(<<r>>) : k = Len(wire) + i
      BY <3>1, WireAfter
    <3>3. \A i \in 1..Len(<<r>>) : message_id + i # 0
      BY <3>1
    <3> QED BY <3>2, <3>3
  <2> QED BY <2>1, <1>1, <1>2 DEF Sound, Connections
<1>9. Numbers' /\ Delivery' /\ Repetition'
  BY <1>2, <1>5, TransmittedNumbers, TransmittedDelivery, TransmittedRepetition
<1> QED BY <1>6, <1>7, <1>8, <1>9 DEF Sound

-----------------------------------------------------------------------------
\* Nothing is sent, received or executed; calls go on, and answers are taken.
LEMMA NothingSent ==
    ASSUME Sound,
           UNCHANGED <<message_id, wire, greeted, watermark, running, connection, started, ignored, cut,
                       done, redone, lowered>>,
           socket' = socket \/ (socket # "open" /\ socket' # "open"),
           back' = back \/ (back # <<>> /\ back' = Tail(back)),
           DOMAIN pending' \subseteq DOMAIN pending,
           \A id \in DOMAIN pending' : pending'[id] = pending[id],
           \A r \in Requests : call[r] # "none" => call'[r] # "none",
           \A r \in Requests : Ready(r)' => Ready(r),
           WellFormed'
    PROVE  Numbers' /\ Delivery' /\ Connections' /\ Repetition'
<1>1. Tokens' \subseteq Tokens
  <2>1. Known' \subseteq Known
    BY DEF Known
  <2>2. OnWayBack' \subseteq OnWayBack
    <3>1. CASE back' = back
      BY <3>1 DEF OnWayBack
    <3>2. CASE back # <<>> /\ back' = Tail(back)
      <4>1. \A k \in 1..Len(back') : back'[k] = back[k + 1] /\ k + 1 \in 1..Len(back)
        <5>1. back \in Seq(Responses)
          BY DEF Sound, WellFormed
        <5> QED BY <3>2, <5>1, TailElements
      <4> QED BY <4>1 DEF OnWayBack
    <3> QED BY <3>1, <3>2
  <2>3. OnWire' = OnWire /\ Executed' = Executed
    BY DEF OnWire, Executed
  <2> QED BY <2>1, <2>2, <2>3 DEF Tokens
<1>2. Numbers'
  <2>1. watermark' \in Nat /\ watermark' <= message_id
    BY DEF Sound, WellFormed, Numbers
  <2> QED BY <1>1, <2>1, NumbersKept, TokenTypes
<1>3. Delivery'
  BY DeliveryKept
<1>4. Connections'
  BY DEF Sound, Connections
<1>5. Repetition'
  BY <1>1 DEF Sound, Repetition
<1> QED BY <1>2, <1>3, <1>4, <1>5

\* The first request of the master's mailbox is taken.
LEMMA TakeUp ==
    ASSUME Sound, up # <<>>, up' = Tail(up)
    PROVE  /\ up' \in Seq(Requests) /\ Head(up) \in Requests /\ Ready(Head(up))
           /\ \A k \in 1..Len(up') : \E l \in 1..Len(up) : up'[k] = up[l]
           /\ \A k \in 1..Len(up') : up'[k] # Head(up)
           /\ \A k \in 1..Len(waiting) : waiting[k] # Head(up)
           /\ \A k, l \in 1..Len(up') : up'[k] = up'[l] => k = l
<1>1. up \in Seq(Requests) /\ \A k, l \in 1..Len(up) : up[k] = up[l] => k = l
  BY DEF Sound, WellFormed, SentOnce
<1>2. /\ up' \in Seq(Requests) /\ Head(up) = up[1] /\ Head(up) \in Requests
      /\ Len(up) \in Nat \ {0} /\ Len(up') = Len(up) - 1
      /\ \A k \in 1..Len(up') : up'[k] = up[k + 1] /\ k + 1 \in 1..Len(up)
  BY <1>1, TailElements
<1>3. 1 \in 1..Len(up)
  BY <1>2
<1>4. \A k \in 1..Len(up') : up'[k] # Head(up)
  BY <1>1, <1>2, <1>3
<1>5. \A k \in 1..Len(waiting) : waiting[k] # Head(up)
  BY <1>2, <1>3 DEF Sound, SentOnce
<1>6. \A k, l \in 1..Len(up') : up'[k] = up'[l] => k = l
  BY <1>1, <1>2
<1> QED BY <1>2, <1>3, <1>4, <1>5, <1>6 DEF Ready

\* send() awaits the connection.
LEMMA SendLaterKeeps ==
    ASSUME Sound, up # <<>>, SendLater(Head(up)), up' = Tail(up), UNCHANGED <<call, down>>
    PROVE  Sound'
<1> DEFINE r == Head(up)
<1>1. /\ socket \in {"none", "connecting"} /\ socket' = "connecting"
      /\ waiting' = Append(waiting, r)
      /\ UNCHANGED <<message_id, pending, wire, back, greeted, watermark, running, connection, bounds, call>>
      /\ UNCHANGED <<started, ignored, cut, done, redone, lowered>>
  BY DEF SendLater, history
<1>2. /\ up' \in Seq(Requests) /\ r \in Requests /\ Ready(r)
      /\ \A k \in 1..Len(up') : \E l \in 1..Len(up) : up'[k] = up[l]
      /\ \A k \in 1..Len(up') : up'[k] # r
      /\ \A k \in 1..Len(waiting) : waiting[k] # r
      /\ \A k, l \in 1..Len(up') : up'[k] = up'[l] => k = l
  BY TakeUp
<1>3. /\ waiting' \in Seq(Requests) /\ Len(waiting) \in Nat /\ Len(waiting') = Len(waiting) + 1
      /\ waiting'[Len(waiting) + 1] = r
      /\ \A k \in 1..Len(waiting) : waiting'[k] = waiting[k]
  <2>1. waiting \in Seq(Requests)
    BY DEF Sound, WellFormed
  <2> HIDE DEF r
  <2> QED BY <1>1, <1>2, <2>1, AppendElements
<1> HIDE DEF r
<1>4. \A q \in Requests : Ready(q)' => Ready(q)
  <2> SUFFICES ASSUME NEW q \in Requests, Ready(q)' PROVE Ready(q)
    OBVIOUS
  <2>1. CASE \E k \in 1..Len(up') : up'[k] = q
    BY <2>1, <1>2 DEF Ready
  <2>2. CASE \E k \in 1..Len(waiting') : waiting'[k] = q
    <3>1. PICK k \in 1..Len(waiting') : waiting'[k] = q
      BY <2>2
    <3>2. k \in 1..Len(waiting) \/ k = Len(waiting) + 1
      BY <1>3
    <3> QED BY <3>1, <3>2, <1>2, <1>3 DEF Ready
  <2> QED BY <2>1, <2>2 DEF Ready
<1>5. WellFormed'
  BY <1>1, <1>2, <1>3 DEF Sound, WellFormed
<1>6. SentOnce'
  <2>1. \A k, l \in 1..Len(waiting') : waiting'[k] = waiting'[l] => k = l
    BY <1>2, <1>3 DEF Sound, SentOnce
  <2>2. \A k \in 1..Len(up'), l \in 1..Len(waiting') : up'[k] # waiting'[l]
    <3>1. ASSUME NEW k \in 1..Len(up'), NEW l \in 1..Len(waiting') PROVE up'[k] # waiting'[l]
      <4>1. l \in 1..Len(waiting) \/ l = Len(waiting) + 1
        BY <1>3
      <4>2. PICK m \in 1..Len(up) : up'[k] = up[m]
        BY <1>2
      <4>3. CASE l \in 1..Len(waiting)
        <5>1. up[m] # waiting[l]
          BY <4>3 DEF Sound, SentOnce
        <5>2. waiting'[l] = waiting[l]
          BY <4>3, <1>3
        <5> QED BY <4>2, <5>1, <5>2
      <4>4. CASE l = Len(waiting) + 1
        <5>1. waiting'[l] = r
          BY <4>4, <1>3
        <5> QED BY <5>1, <1>2
      <4> QED BY <4>1, <4>3, <4>4
    <3> QED BY <3>1
  <2> QED BY <2>1, <2>2, <1>1, <1>2, <1>4 DEF Sound, SentOnce
<1>7. Numbers' /\ Delivery' /\ Connections' /\ Repetition'
  BY <1>1, <1>4, <1>5, NothingSent
<1> QED BY <1>5, <1>6, <1>7 DEF Sound

\* The promise of the connection was rejected.
LEMMA ForwardFailsKeeps ==
    ASSUME Sound, ForwardFails
    PROVE  Sound'
<1>1. /\ up # <<>> /\ up' = Tail(up) /\ call' = call
      /\ UNCHANGED <<socket, waiting, message_id, pending, wire, back, greeted, watermark, running, connection>>
      /\ UNCHANGED <<started, ignored, cut, done, redone, lowered>>
  BY DEF ForwardFails, channel, history
<1>2. /\ up' \in Seq(Requests)
      /\ \A k \in 1..Len(up') : \E l \in 1..Len(up) : up'[k] = up[l]
      /\ \A k, l \in 1..Len(up') : up'[k] = up'[l] => k = l
  BY <1>1, TakeUp
<1>3. \A q \in Requests : Ready(q)' => Ready(q)
  BY <1>1, <1>2 DEF Ready
<1>4. WellFormed'
  BY <1>1, <1>2 DEF Sound, WellFormed
<1>5. SentOnce'
  BY <1>1, <1>2, <1>3 DEF Sound, SentOnce
<1>6. Numbers' /\ Delivery' /\ Connections' /\ Repetition'
  BY <1>1, <1>3, <1>4, NothingSent
<1> QED BY <1>4, <1>5, <1>6 DEF Sound

\* Those that wait for a connection are rejected.
LEMMA ConnectionFailsKeeps ==
    ASSUME Sound, ConnectionFails
    PROVE  Sound'
<1>1. /\ socket = "connecting" /\ socket' = "rejected" /\ waiting' = <<>>
      /\ UNCHANGED <<up, call, message_id, pending, wire, back, greeted, watermark, running, connection>>
      /\ UNCHANGED <<started, ignored, cut, done, redone, lowered>>
  BY DEF ConnectionFails, Refused, history
<1>2. Len(waiting') = 0 /\ waiting' \in Seq(Requests)
  BY <1>1
<1>3. \A q \in Requests : Ready(q)' => Ready(q)
  BY <1>1, <1>2 DEF Ready
<1>4. WellFormed'
  BY <1>1, <1>2 DEF Sound, WellFormed
<1>5. SentOnce'
  BY <1>1, <1>2, <1>3 DEF Sound, SentOnce
<1>6. Numbers' /\ Delivery' /\ Connections' /\ Repetition'
  BY <1>1, <1>3, <1>4, NothingSent
<1> QED BY <1>4, <1>5, <1>6 DEF Sound

\* An answer is taken off the way back, for a request or for none.
LEMMA ResponseKeeps ==
    ASSUME Sound, (\E r \in Requests : Response(r)) \/ UnknownResponse, UNCHANGED <<call, up>>
    PROVE  Sound'
<1>1. /\ back # <<>> /\ back' = Tail(back)
      /\ DOMAIN pending' \subseteq DOMAIN pending
      /\ \A id \in DOMAIN pending' : pending'[id] = pending[id]
      /\ UNCHANGED <<socket, waiting, message_id, wire, greeted, watermark, running, connection>>
      /\ UNCHANGED <<started, ignored, cut, done, redone, lowered>>
  BY DEF Response, UnknownResponse, history
<1>2. back' \in Seq(Responses)
  BY <1>1, TailElements DEF Sound, WellFormed
<1>3. \A q \in Requests : Ready(q)' <=> Ready(q)
  BY <1>1 DEF Ready
<1>4. WellFormed'
  BY <1>1, <1>2 DEF Sound, WellFormed
<1>5. SentOnce'
  BY <1>1, <1>3 DEF Sound, SentOnce
<1>6. Numbers' /\ Delivery' /\ Connections' /\ Repetition'
  BY <1>1, <1>3, <1>4, NothingSent
<1> QED BY <1>4, <1>5, <1>6 DEF Sound

\* The worker's promise is settled.
LEMMA SettledKeeps ==
    ASSUME Sound, Settled
    PROVE  Sound'
<1>1. /\ UNCHANGED <<up, socket, waiting, message_id, pending, wire, back, greeted, watermark, running, connection>>
      /\ UNCHANGED <<started, ignored, cut, done, redone, lowered>>
  BY DEF Settled, channel, history
<1>2. PICK q, a : a \in {"resolved", "rejected"} /\ call' = [call EXCEPT ![q] = a]
  BY DEF Settled
<1>3. /\ call' \in [Requests -> {"none", "pending", "resolved", "rejected"}]
      /\ \A r \in Requests : call[r] # "none" => call'[r] # "none"
  BY <1>2 DEF Sound, WellFormed
<1>4. \A r \in Requests : Ready(r)' <=> Ready(r)
  BY <1>1 DEF Ready
<1>5. WellFormed'
  BY <1>1, <1>3 DEF Sound, WellFormed
<1>6. SentOnce'
  <2>1. \A d \in done : d.req \in Requests
    BY DEF Sound, WellFormed
  <2> QED BY <1>1, <1>3, <1>4, <2>1 DEF Sound, SentOnce
<1>7. Numbers' /\ Delivery' /\ Connections' /\ Repetition'
  BY <1>1, <1>3, <1>4, <1>5, NothingSent
<1> QED BY <1>5, <1>6, <1>7 DEF Sound

\* The requests that waited for a connection were ready, and are not any more.
LEMMA ConnectedTransmitted ==
    ASSUME Inv, ~wrapped', Connected, Local
    PROVE  Transmitted(waiting, <<Handshake>>) /\ wire = <<>>
<1>1. ~wrapped /\ Sound
  BY DEF Inv, Connected, Transmit
<1>2. /\ socket = "connecting" /\ socket' = "open" /\ connection' = connection + 1
      /\ Transmit(waiting, <<Handshake>>) /\ waiting' = <<>>
      /\ UNCHANGED <<up, call, back, greeted, watermark, running, bounds, started, ignored, cut,
                     done, redone, lowered>>
  BY DEF Connected, Local
<1>3. /\ ~greeted /\ wire = <<>> /\ waiting \in Seq(Requests) /\ Len(waiting) \in Nat
      /\ Len(waiting') = 0 /\ waiting' \in Seq(Requests)
  BY <1>1, <1>2 DEF Sound, Connections, WellFormed
<1>4. /\ \A i \in 1..Len(waiting) : Ready(waiting[i])
      /\ \A i, j \in 1..Len(waiting) : waiting[i] = waiting[j] => i = j
      /\ \A r \in Requests : Ready(r)' => Ready(r) /\ \A i \in 1..Len(waiting) : r # waiting[i]
  <2>1. \A r \in Requests : Ready(r)' => \E k \in 1..Len(up) : up[k] = r
    BY <1>2, <1>3 DEF Ready
  <2> QED BY <2>1, <1>1 DEF Ready, Sound, SentOnce
<1>5. Transmitted(waiting, <<Handshake>>)
  BY <1>2, <1>3, <1>4 DEF Transmitted
<1> QED BY <1>3, <1>5

\* A connection is there: the handshake, and the requests that waited for it.
LEMMA ConnectedKeeps ==
    ASSUME Inv, ~wrapped', Connected, Local
    PROVE  Sound'
<1>1. ~wrapped /\ Sound
  BY DEF Inv, Connected, Transmit
<1>2. /\ socket = "connecting" /\ socket' = "open" /\ connection' = connection + 1
      /\ Transmit(waiting, <<Handshake>>) /\ waiting' = <<>>
      /\ UNCHANGED <<up, call, back, greeted, watermark, running, bounds, started, ignored, cut,
                     done, redone, lowered>>
  BY DEF Connected, Local
<1>3. /\ ~greeted /\ wire = <<>> /\ waiting \in Seq(Requests) /\ Len(waiting) \in Nat
      /\ Len(waiting') = 0 /\ waiting' \in Seq(Requests)
  BY <1>1, <1>2 DEF Sound, Connections, WellFormed
<1>4. /\ \A i \in 1..Len(waiting) : Ready(waiting[i])
      /\ \A i, j \in 1..Len(waiting) : waiting[i] = waiting[j] => i = j
      /\ \A r \in Requests : Ready(r)' => Ready(r) /\ \A i \in 1..Len(waiting) : r # waiting[i]
  <2>1. \A r \in Requests : Ready(r)' => \E k \in 1..Len(up) : up[k] = r
    BY <1>2, <1>3 DEF Ready
  <2> QED BY <2>1, <1>1 DEF Ready, Sound, SentOnce
<1>5. Transmitted(waiting, <<Handshake>>)
  BY ConnectedTransmitted
<1>6. /\ message_id \in Nat /\ <<Handshake>> \in Seq(Messages) /\ wire' = <<Handshake>> \o New(waiting)
  BY <1>5, TransmittedWire, Zenon
<1>7. /\ wire' \in Seq(Messages)
      /\ \A k \in 1..Len(wire') : k # 1 => wire'[k].id # 0
  <2> HIDE DEF New
  <2>1. /\ wire' \in Seq(Messages)
        /\ \A i \in 1..Len(waiting) : wire'[Len(<<Handshake>>) + i].id = message_id + i
        /\ \A k \in 1..Len(wire') : k \in 1..Len(<<Handshake>>)
                                    \/ \E i \in 1..Len(waiting) : k = Len(<<Handshake>>) + i
    BY <1>3, <1>6, WireAfter
  <2>2. Len(<<Handshake>>) = 1
    OBVIOUS
  <2>3. \A i \in 1..Len(waiting) : wire'[1 + i].id = message_id + i
    BY <2>1, <2>2
  <2>4. \A k \in 1..Len(wire') : k # 1 => \E i \in 1..Len(waiting) : k = 1 + i
    BY <2>1, <2>2
  <2>5. ASSUME NEW k \in 1..Len(wire'), k # 1 PROVE wire'[k].id # 0
    <3>1. PICK i \in 1..Len(waiting) : k = 1 + i
      BY <2>4, <2>5
    <3>2. wire'[k].id = message_id + i
      BY <2>3, <3>1
    <3>3. message_id + i # 0
      BY <3>1, <1>3, <1>6
    <3> QED BY <3>2, <3>3
  <2> QED BY <2>1, <2>5
<1>8. WellFormed'
  <2>1. /\ message_id' \in Nat /\ message_id' <= OVERFLOW
        /\ DOMAIN pending' \subseteq Nat \ {0}
        /\ \A id \in DOMAIN pending' : pending'[id] \in Requests
    <3>1. /\ message_id' = message_id + Len(waiting) /\ message_id' <= OVERFLOW
          /\ DOMAIN pending' = DOMAIN pending \union (message_id + 1 .. message_id')
          /\ \A id \in DOMAIN pending' :
                pending'[id] = IF id > message_id THEN waiting[id - message_id] ELSE pending[id]
      BY <1>2, <1>3, TransmitSpec
    <3>2. \A id \in DOMAIN pending : id \in Nat \ {0} /\ pending[id] \in Requests /\ id <= message_id
      BY <1>1, TokenOf DEF Sound, WellFormed, Numbers
    <3>3. \A id \in message_id + 1 .. message_id' : /\ id > message_id /\ id \in Nat \ {0}
                                                    /\ id - message_id \in 1..Len(waiting)
      BY <3>1, <1>3, <1>6
    <3>4. \A i \in 1..Len(waiting) : waiting[i] \in Requests
      BY <1>3
    <3>5. message_id' \in Nat
      BY <3>1, <1>3, <1>6
    <3>6. ASSUME NEW id \in DOMAIN pending' PROVE id \in Nat \ {0} /\ pending'[id] \in Requests
      <4>1. CASE id \in DOMAIN pending
        BY <4>1, <3>1, <3>2, <1>6
      <4>2. CASE id \in message_id + 1 .. message_id'
        BY <4>2, <3>1, <3>3, <3>4
      <4> QED BY <4>1, <4>2, <3>1
    <3> QED BY <3>1, <3>5, <3>6
  <2>2. connection' \in Nat
    BY <1>1, <1>2 DEF Sound, WellFormed
  <2> QED BY <2>1, <2>2, <1>1, <1>2, <1>3, <1>7 DEF Sound, WellFormed
<1>9. SentOnce'
  BY <1>1, <1>2, <1>3, <1>4 DEF Sound, SentOnce
<1>10. Connections'
  <2>1. \A x \in running \union done : x.over \in Nat /\ x.over <= connection
    BY <1>1 DEF Sound, Connections, WellFormed
  <2>2. \A x \in running \union done : x.over <= connection' /\ x.over # connection'
    BY <2>1, <1>1, <1>2 DEF Sound, WellFormed
  <2> QED BY <2>2, <1>2, <1>3, <1>7 DEF Connections
<1>11. Numbers' /\ Delivery' /\ Repetition'
  BY <1>3, <1>5, TransmittedNumbers, TransmittedDelivery, TransmittedRepetition
<1> QED BY <1>8, <1>9, <1>10, <1>11 DEF Sound

\* A request is sent again.
LEMMA ResendKeeps ==
    ASSUME Sound, NEW id, Resend(id), Local
    PROVE  Sound'
<1> DEFINE m == [id |-> id, req |-> pending[id]]
           n == Len(wire) + 1
<1>1. /\ id \in DOMAIN pending /\ socket = "open" /\ wire' = Append(wire, m)
      /\ UNCHANGED <<up, call, socket, waiting, message_id, pending, back, greeted, watermark, running, connection>>
      /\ UNCHANGED <<started, ignored, cut, done, redone, lowered>>
  BY DEF Resend, Local, history
<1>2. id \in Nat \ {0} /\ pending[id] \in Requests /\ wire \in Seq(Messages) /\ m \in Messages
  <2>1. id \in Nat \ {0} /\ pending[id] \in Requests /\ wire \in Seq(Messages)
    BY <1>1 DEF Sound, WellFormed
  <2> QED BY <2>1 DEF Messages
<1>3. m.id = id /\ m.req = pending[id]
  OBVIOUS
<1> HIDE DEF m
<1>4. /\ wire' \in Seq(Messages) /\ Len(wire) \in Nat /\ n \in Nat /\ Len(wire') = n
      /\ wire'[n] = m
      /\ \A k \in 1..Len(wire) : wire'[k] = wire[k]
      /\ \A k \in 1..Len(wire') : k \in 1..Len(wire) \/ k = n
  BY <1>1, <1>2, AppendElements
<1>5. Tokens' \subseteq Tokens
  <2>1. OnWire' \subseteq OnWire \union Known
    <3>1. ASSUME NEW k \in 1..Len(wire'), wire'[k].id # 0
          PROVE  <<wire'[k].id, wire'[k].req>> \in OnWire \union Known
      <4>1. CASE k \in 1..Len(wire)
        BY <4>1, <3>1, <1>4 DEF OnWire
      <4>2. CASE k = n
        BY <4>2, <1>1, <1>3, <1>4 DEF Known
      <4> QED BY <4>1, <4>2, <1>4
    <3> QED BY <3>1 DEF OnWire
  <2> QED BY <2>1, <1>1 DEF Tokens, Known, Executed, OnWayBack
<1>6. \A q \in Requests : Ready(q)' <=> Ready(q)
  BY <1>1 DEF Ready
<1>7. WellFormed'
  BY <1>1, <1>4 DEF Sound, WellFormed
<1>8. Numbers'
  <2>1. watermark' \in Nat /\ watermark' <= message_id
    BY <1>1 DEF Sound, WellFormed, Numbers
  <2> QED BY <2>1, <1>1, <1>5, <1>6, NumbersKept, TokenTypes
<1>9. SentOnce'
  BY <1>1, <1>6 DEF Sound, SentOnce
<1>10. Connections'
  BY <1>1, <1>2, <1>3, <1>4 DEF Sound, Connections
<1>11. Repetition'
  BY <1>1, <1>5 DEF Sound, Repetition
<1>12. Delivery'
  <2>1. \A q : Excused(q)' <=> Excused(q)
    BY <1>1 DEF Excused
  <2>2. ASSUME NEW i \in DOMAIN pending
        PROVE  Excused(pending[i]) \/ \E k \in 1..Len(wire') : wire'[k].id = i
    <3>1. Excused(pending[i]) \/ \E k \in 1..Len(wire) : wire[k].id = i
      BY DEF Sound, Delivery
    <3> QED BY <3>1, <1>4
  <2>3. ASSUME NEW k \in 1..Len(wire'), wire'[k].id # 0, ~Excused(wire'[k].req)
        PROVE  /\ wire'[k].id > watermark
               /\ \A x \in running : x.id < wire'[k].id
               /\ \A l \in 1..k-1 : wire'[l].id > wire'[k].id =>
                                       \E p \in 1..l-1 : wire'[p].id = wire'[k].id
    \* the first copy is on the wire, before this one
    <3>1. PICK f \in 1..Len(wire) : /\ wire[f].id = wire'[k].id /\ f <= k
                                    /\ ~Excused(wire[f].req)
      <4>1. CASE k \in 1..Len(wire)
        BY <4>1, <2>3, <1>4
      <4>2. CASE k = n
        <5>1. PICK f \in 1..Len(wire) : wire[f].id = id
          BY <4>2, <2>3, <1>1, <1>3, <1>4 DEF Sound, Delivery
        <5>2. wire[f].req = pending[id]
          BY <5>1, <1>1, <1>2, TokenOf DEF Sound, Numbers
        <5> QED BY <5>1, <5>2, <4>2, <2>3, <1>3, <1>4
      <4> QED BY <4>1, <4>2, <1>4
    <3>2. /\ wire[f].id > watermark /\ \A x \in running : x.id < wire[f].id
          /\ \A l \in 1..f-1 : wire[l].id > wire[f].id => \E p \in 1..l-1 : wire[p].id = wire[f].id
      BY <3>1, <2>3 DEF Sound, Delivery
    <3>3. ASSUME NEW l \in 1..k-1, wire'[l].id > wire'[k].id
          PROVE  \E p \in 1..l-1 : wire'[p].id = wire'[k].id
      <4>1. l \in 1..Len(wire) /\ wire'[l] = wire[l]
        BY <1>4
      <4>2. CASE l < f
        <5>1. PICK p \in 1..l-1 : wire[p].id = wire[f].id
          BY <4>1, <4>2, <3>1, <3>2, <3>3
        <5>2. p \in 1..Len(wire)
          BY <4>1, <1>4
        <5> QED BY <5>1, <5>2, <3>1, <1>4
      <4>3. CASE f < l
        <5>1. f \in 1..l-1
          BY <4>3, <4>1, <1>4
        <5> QED BY <5>1, <3>1, <1>4
      <4>4. CASE l = f
        <5>1. wire[f].id \in Nat
          BY <3>1, <1>2 DEF Messages
        <5> QED BY <4>1, <4>4, <3>1, <3>3, <5>1
      <4> QED BY <4>1, <4>2, <4>3, <4>4, <1>4
    <3> QED BY <3>1, <3>2, <3>3
  <2> QED BY <2>1, <2>2, <2>3, <1>1 DEF Sound, Delivery
<1> QED BY <1>7, <1>8, <1>9, <1>10, <1>11, <1>12 DEF Sound

-----------------------------------------------------------------------------
\* The first message is taken off the wire.
LEMMA TakenWire ==
    ASSUME Sound, wire # <<>>, wire' = Tail(wire)
    PROVE  /\ wire' \in Seq(Messages) /\ Len(wire) \in Nat \ {0} /\ Len(wire') = Len(wire) - 1
           /\ Head(wire) = wire[1] /\ wire[1] \in Messages /\ 1 \in 1..Len(wire)
           /\ \A k \in 1..Len(wire') : wire'[k] = wire[k + 1] /\ k + 1 \in 1..Len(wire)
           /\ OnWire' \subseteq OnWire
<1>1. /\ wire' \in Seq(Messages) /\ Len(wire) \in Nat \ {0} /\ Len(wire') = Len(wire) - 1
      /\ Head(wire) = wire[1] /\ Head(wire) \in Messages
      /\ \A k \in 1..Len(wire') : wire'[k] = wire[k + 1] /\ k + 1 \in 1..Len(wire)
  <2>1. wire \in Seq(Messages)
    BY DEF Sound, WellFormed
  <2> QED BY <2>1, TailElements
<1>2. OnWire' \subseteq OnWire
  BY <1>1 DEF OnWire
<1> QED BY <1>1, <1>2

\* What was taken off the wire is excused, or was no request.
LEMMA TakenDelivery ==
    ASSUME Sound, wire # <<>>, wire' = Tail(wire), UNCHANGED <<pending, cut>>,
           \A r \in Requests : started[r] > 0 => started'[r] > 0,
           watermark' \in Nat, watermark' <= watermark,
           Head(wire).id # 0 => started'[Head(wire).req] > 0 \/ Head(wire).req \in cut,
           \A x \in running' : \/ x \in running
                               \/ /\ x.id = Head(wire).id /\ x.req = Head(wire).req
                                  /\ x.id # 0 /\ started'[x.req] > 0,
           \A r \in ignored' : r \in ignored \/ Excused(r)'
    PROVE  Delivery'
<1>1. /\ wire' \in Seq(Messages) /\ Len(wire) \in Nat \ {0} /\ Len(wire') = Len(wire) - 1
      /\ Head(wire) = wire[1] /\ wire[1] \in Messages /\ 1 \in 1..Len(wire)
      /\ \A k \in 1..Len(wire') : wire'[k] = wire[k + 1] /\ k + 1 \in 1..Len(wire)
  BY TakenWire
<1>2. \A r \in Requests : Excused(r) => Excused(r)'
  BY DEF Excused
<1>3. \A k \in 1..Len(wire) : wire[k].id \in Nat /\ (wire[k].id # 0 => wire[k].req \in Requests)
  BY DEF Sound, WellFormed, Messages
<1>4. \A k \in 1..Len(wire) : wire[k].id # 0 /\ wire[k].id = wire[1].id =>
                                    started'[wire[k].req] > 0 \/ wire[k].req \in cut
  <2> SUFFICES ASSUME NEW k \in 1..Len(wire), wire[k].id # 0, wire[k].id = wire[1].id
               PROVE  started'[wire[k].req] > 0 \/ wire[k].req \in cut
    OBVIOUS
  <2> DEFINE t == <<wire[k].id, wire[k].req>>
             u == <<wire[1].id, wire[1].req>>
  <2>1. t \in Tokens /\ u \in Tokens /\ t[1] = u[1]
    BY <1>1, TokenOf
  <2>2. t[2] = u[2]
    BY <2>1 DEF Sound, Numbers
  <2>3. wire[k].req = Head(wire).req /\ Head(wire).id # 0
    BY <2>2, <1>1
  <2> QED BY <2>3
<1>5. ASSUME NEW id \in DOMAIN pending'
      PROVE  Excused(pending[id])' \/ \E k \in 1..Len(wire') : wire'[k].id = id
  <2>1. id \in Nat \ {0} /\ id \in DOMAIN pending /\ pending'[id] = pending[id] /\ pending[id] \in Requests
    BY DEF Sound, WellFormed
  <2>2. CASE Excused(pending[id])
    BY <2>1, <2>2, <1>2 DEF Excused
  <2>3. CASE \E k \in 1..Len(wire) : wire[k].id = id
    <3>1. PICK k \in 1..Len(wire) : wire[k].id = id
      BY <2>3
    <3>2. CASE k = 1
      <4>1. wire[1].req = pending[id]
        BY <3>1, <3>2, <2>1, <1>1, TokenOf DEF Sound, Numbers
      <4> QED BY <4>1, <3>1, <3>2, <2>1, <1>1 DEF Excused
    <3>3. CASE k # 1
      <4>1. k - 1 \in 1..Len(wire') /\ wire'[k - 1] = wire[(k - 1) + 1] /\ (k - 1) + 1 = k
        BY <3>3, <1>1
      <4> QED BY <4>1, <3>1
    <3> QED BY <3>2, <3>3
  <2> QED BY <2>1, <2>2, <2>3 DEF Sound, Delivery
<1>6. \A x \in running' : started'[x.req] > 0
  BY DEF Sound, Delivery, WellFormed
<1>7. ASSUME NEW k \in 1..Len(wire'), wire'[k].id # 0,
             ~(started'[wire'[k].req] > 0 \/ wire'[k].req \in cut)
      PROVE  /\ wire'[k].id > watermark'
             /\ \A x \in running' : x.id < wire'[k].id
             /\ \A l \in 1..k-1 : wire'[l].id > wire'[k].id =>
                                     \E p \in 1..l-1 : wire'[p].id = wire'[k].id
  <2> DEFINE m == wire[k + 1]
  <2>1. wire'[k] = m /\ k + 1 \in 1..Len(wire) /\ m.id \in Nat /\ m.id # 0 /\ ~Excused(m.req) /\ k \in Nat
    BY <1>1, <1>2, <1>3, <1>7 DEF Excused
  <2>2. m.id # wire[1].id
    BY <2>1, <1>4, <1>7 DEF Excused
  <2>3. /\ m.id > watermark
        /\ \A x \in running : x.id < m.id
        /\ \A l \in 1..k : wire[l].id > m.id => \E p \in 1..l-1 : wire[p].id = m.id
    <3>1. (k + 1) - 1 = k
      BY <2>1
    <3> QED BY <2>1, <3>1 DEF Sound, Delivery
  <2>4. wire[1].id < m.id
    <3>1. ~(wire[1].id > m.id)
      <4>1. 1 \in 1..k /\ 1..1-1 = {}
        BY <2>1
      <4> QED BY <4>1, <2>3
    <3> QED BY <3>1, <2>1, <2>2, <1>1, <1>3
  <2>5. ASSUME NEW l \in 1..k-1, wire'[l].id > m.id
        PROVE  \E p \in 1..l-1 : wire'[p].id = m.id
    <3>1. l + 1 \in 1..k /\ l \in 1..Len(wire') /\ wire'[l] = wire[l + 1] /\ l \in Nat
      BY <1>1
    <3>2. PICK p \in 1..(l+1)-1 : wire[p].id = m.id
      BY <3>1, <2>3, <2>5
    <3>3. p # 1
      BY <3>2, <2>2
    <3>4. p - 1 \in 1..l-1 /\ p - 1 \in 1..Len(wire') /\ (p - 1) + 1 = p
      BY <3>1, <3>2, <3>3, <1>1
    <3>5. wire'[p - 1] = wire[p]
      BY <3>4, <1>1
    <3> QED BY <3>2, <3>4, <3>5
  <2>6. m.id > watermark'
    BY <2>1, <2>3 DEF Sound, WellFormed
  <2>7. \A x \in running' : x.id < m.id
    BY <2>3, <2>4, <1>1
  <2> HIDE DEF m
  <2> QED BY <2>1, <2>5, <2>6, <2>7
<1>8. \A r \in ignored' : Excused(r)'
  BY <1>2 DEF Sound, Delivery, WellFormed
<1>9. \A r : Excused(r)' <=> started'[r] > 0 \/ r \in cut'
  BY DEF Excused
<1> QED BY <1>5, <1>6, <1>7, <1>8, <1>9 DEF Delivery

\* The handshake: the sender is known, its watermark starts anew.
LEMMA GreetKeeps ==
    ASSUME Sound, Greet, Local
    PROVE  Sound'
<1>1. /\ wire # <<>> /\ Head(wire).id = 0 /\ greeted' = TRUE /\ watermark' = 0 /\ wire' = Tail(wire)
      /\ UNCHANGED <<up, call, socket, waiting, message_id, pending, back, running, connection>>
      /\ UNCHANGED <<started, ignored, cut, done, redone, lowered>>
  BY DEF Greet, Local, history
<1>2. /\ wire' \in Seq(Messages) /\ Len(wire) \in Nat \ {0} /\ Head(wire) = wire[1] /\ 1 \in 1..Len(wire)
      /\ \A k \in 1..Len(wire') : wire'[k] = wire[k + 1] /\ k + 1 \in 1..Len(wire)
      /\ OnWire' \subseteq OnWire
  BY <1>1, TakenWire
<1>3. Tokens' \subseteq Tokens
  BY <1>1, <1>2 DEF Tokens, Known, Executed, OnWayBack
<1>4. \A q \in Requests : Ready(q)' => Ready(q)
  BY <1>1 DEF Ready
<1>5. WellFormed'
  BY <1>1, <1>2 DEF Sound, WellFormed
<1>6. Numbers'
  <2>1. watermark' \in Nat /\ watermark' <= message_id
    BY <1>1 DEF Sound, WellFormed
  <2> QED BY <2>1, <1>1, <1>3, <1>4, NumbersKept, TokenTypes
<1>7. SentOnce'
  BY <1>1, <1>4 DEF Sound, SentOnce
<1>8. ~greeted /\ socket = "open"
  BY <1>1, <1>2 DEF Sound, Connections
<1>9. Connections'
  <2>1. ASSUME NEW k \in 1..Len(wire') PROVE wire'[k].id # 0
    <3>1. k + 1 # 1
      OBVIOUS
    <3> QED BY <3>1, <1>2 DEF Sound, Connections
  <2> QED BY <2>1, <1>1, <1>8 DEF Sound, Connections
<1>10. Delivery'
  <2>1. watermark' \in Nat /\ watermark' <= watermark
    BY <1>1 DEF Sound, WellFormed
  <2> QED BY <2>1, <1>1, TakenDelivery
<1>11. Repetition'
  BY <1>1, <1>8 DEF Sound, Connections, Repetition
<1> QED BY <1>5, <1>6, <1>7, <1>9, <1>10, <1>11 DEF Sound

\* A fresh request starts to be executed.
LEMMA ExecuteKeeps ==
    ASSUME Sound, Execute, Local
    PROVE  Sound'
<1> DEFINE m == Head(wire)
           x == [id |-> m.id, req |-> m.req, over |-> connection, copy |-> started[m.req]]
<1>1. /\ wire # <<>> /\ m.id # 0 /\ greeted /\ m.id > watermark /\ wire' = Tail(wire)
      /\ running' = running \union {x}
      /\ started' = [started EXCEPT ![m.req] = @ + 1]
      /\ redone' = IF [req |-> m.req, over |-> connection] \in done THEN redone \union {m.req} ELSE redone
      /\ UNCHANGED <<up, call, socket, waiting, message_id, pending, back, greeted, watermark, connection>>
      /\ UNCHANGED <<ignored, cut, done, lowered>>
  BY DEF Execute, Arriving, Fresh, Local
<1>2. /\ wire' \in Seq(Messages) /\ Len(wire) \in Nat \ {0} /\ m = wire[1] /\ 1 \in 1..Len(wire)
      /\ \A k \in 1..Len(wire') : wire'[k] = wire[k + 1] /\ k + 1 \in 1..Len(wire)
      /\ OnWire' \subseteq OnWire /\ m \in Messages
  BY <1>1, TakenWire
<1>3. m.id \in Nat \ {0} /\ m.req \in Requests
  BY <1>1, <1>2 DEF Messages
<1>4. <<m.id, m.req>> \in Tokens
  BY <1>1, <1>2, TokenOf
<1>5. /\ x.id = m.id /\ x.req = m.req /\ x.over = connection
      /\ x \in [id : Nat \ {0}, req : Requests, over : Nat, copy : Nat]
  BY <1>3 DEF Sound, WellFormed
<1> HIDE DEF m, x
<1>6. Tokens' \subseteq Tokens
  <2>1. Executed' \subseteq Executed \union {<<m.id, m.req>>}
    BY <1>1, <1>5 DEF Executed
  <2>2. Executed \subseteq Tokens /\ OnWire \subseteq Tokens
    BY DEF Tokens
  <2> QED BY <2>1, <2>2, <1>1, <1>2, <1>4 DEF Tokens, Known, OnWayBack
<1>7. \A q \in Requests : Ready(q)' => Ready(q)
  BY <1>1 DEF Ready
<1>8. /\ started' \in [Requests -> Nat] /\ started'[m.req] > 0
      /\ \A q \in Requests : started[q] > 0 => started'[q] > 0
  <2>1. started \in [Requests -> Nat]
    BY DEF Sound, WellFormed
  <2> QED BY <2>1, <1>1, <1>3
<1>9. WellFormed'
  BY <1>1, <1>2, <1>5, <1>8 DEF Sound, WellFormed
<1>10. Numbers'
  <2>1. watermark' \in Nat /\ watermark' <= message_id
    BY <1>1 DEF Sound, WellFormed, Numbers
  <2> QED BY <2>1, <1>1, <1>6, <1>7, NumbersKept, TokenTypes
<1>11. SentOnce'
  BY <1>1, <1>7 DEF Sound, SentOnce
<1>12. Connections'
  <2>1. ASSUME NEW k \in 1..Len(wire') PROVE wire'[k].id # 0
    <3>1. k + 1 # 1
      OBVIOUS
    <3> QED BY <3>1, <1>2 DEF Sound, Connections
  <2>2. x.over <= connection
    BY <1>5 DEF Sound, WellFormed
  <2> QED BY <2>1, <2>2, <1>1 DEF Sound, Connections
<1>13. Delivery'
  <2>1. watermark' \in Nat /\ watermark' <= watermark
    BY <1>1 DEF Sound, WellFormed
  <2>2. Head(wire).id # 0 => started'[Head(wire).req] > 0 \/ Head(wire).req \in cut
    BY <1>8 DEF m
  <2>3. \A y \in running' : \/ y \in running
                            \/ /\ y.id = Head(wire).id /\ y.req = Head(wire).req
                               /\ y.id # 0 /\ started'[y.req] > 0
    BY <1>1, <1>5, <1>8 DEF m
  <2> QED BY <2>1, <2>2, <2>3, <1>1, <1>8, TakenDelivery
<1>14. Repetition'
  <2> SUFFICES ASSUME ~lowered
               PROVE  /\ redone' = {}
                      /\ \A d \in done, t \in Tokens : d.over = connection /\ t[2] = d.req => t[1] <= watermark
    BY <1>1, <1>6 DEF Repetition
  <2>1. /\ redone = {}
        /\ \A d \in done, t \in Tokens : d.over = connection /\ t[2] = d.req => t[1] <= watermark
    BY <1>1 DEF Sound, Repetition
  <2>2. [req |-> m.req, over |-> connection] \notin done
    <3> DEFINE d == [req |-> m.req, over |-> connection]
               t == <<m.id, m.req>>
    <3>1. t[1] = m.id /\ t[2] = d.req /\ d.over = connection
      OBVIOUS
    <3>2. ~(m.id <= watermark)
      BY <1>1, <1>3 DEF Sound, WellFormed
    <3> QED BY <3>1, <3>2, <2>1, <1>4
  <2> QED BY <2>1, <2>2, <1>1
<1> QED BY <1>9, <1>10, <1>11, <1>12, <1>13, <1>14 DEF Sound

\* A request at or below the watermark is ignored; it was received before.
LEMMA IgnoreKeeps ==
    ASSUME Sound, Ignore, Local
    PROVE  Sound'
<1> DEFINE m == Head(wire)
<1>1. /\ wire # <<>> /\ m.id # 0 /\ greeted /\ ~(m.id > watermark) /\ wire' = Tail(wire)
      /\ ignored' = ignored \union {m.req}
      /\ UNCHANGED <<up, call, socket, waiting, message_id, pending, back, greeted, watermark, running, connection>>
      /\ UNCHANGED <<started, cut, done, redone, lowered>>
  BY DEF Ignore, Arriving, Fresh, Local
<1>2. /\ wire' \in Seq(Messages) /\ Len(wire) \in Nat \ {0} /\ m = wire[1] /\ 1 \in 1..Len(wire)
      /\ \A k \in 1..Len(wire') : wire'[k] = wire[k + 1] /\ k + 1 \in 1..Len(wire)
      /\ OnWire' \subseteq OnWire
  BY <1>1, TakenWire
<1> HIDE DEF m
<1>3. Excused(m.req) /\ m.req \in Requests
  <2>1. wire[1] \in Messages
    BY <1>1, TakenWire
  <2> QED BY <2>1, <1>1, <1>2 DEF Sound, Delivery, Messages
<1>4. Tokens' \subseteq Tokens
  BY <1>1, <1>2 DEF Tokens, Known, Executed, OnWayBack
<1>5. \A q \in Requests : Ready(q)' => Ready(q)
  BY <1>1 DEF Ready
<1>6. WellFormed'
  BY <1>1, <1>2, <1>3 DEF Sound, WellFormed
<1>7. Numbers'
  <2>1. watermark' \in Nat /\ watermark' <= message_id
    BY <1>1 DEF Sound, WellFormed, Numbers
  <2> QED BY <2>1, <1>1, <1>4, <1>5, NumbersKept, TokenTypes
<1>8. SentOnce'
  BY <1>1, <1>5 DEF Sound, SentOnce
<1>9. Connections'
  <2>1. ASSUME NEW k \in 1..Len(wire') PROVE wire'[k].id # 0
    <3>1. k + 1 # 1
      OBVIOUS
    <3> QED BY <3>1, <1>2 DEF Sound, Connections
  <2> QED BY <2>1, <1>1 DEF Sound, Connections
<1>10. Delivery'
  <2>1. watermark' \in Nat /\ watermark' <= watermark
    BY <1>1 DEF Sound, WellFormed
  <2>2. started'[Head(wire).req] > 0 \/ Head(wire).req \in cut
    BY <1>1, <1>3 DEF Excused, m
  <2>3. \A r \in ignored' : r \in ignored \/ Excused(r)'
    BY <1>1, <1>3 DEF Excused
  <2> QED BY <2>1, <2>2, <2>3, <1>1, TakenDelivery
<1>11. Repetition'
  BY <1>1, <1>4 DEF Sound, Repetition
<1> QED BY <1>6, <1>7, <1>8, <1>9, <1>10, <1>11 DEF Sound

-----------------------------------------------------------------------------
\* An answer is written for a request that was executed, or is not.
LEMMA ReplyTokens ==
    ASSUME Sound, NEW x \in running, NEW ok \in BOOLEAN, Reply(x, ok),
           running' \subseteq running, UNCHANGED <<wire, pending>>
    PROVE  /\ back' \in Seq(Responses)
           /\ Tokens' \subseteq Tokens
<1> DEFINE e == [id |-> x.id, req |-> x.req, ok |-> ok]
<1>1. e \in Responses /\ back \in Seq(Responses) /\ e.id = x.id /\ e.req = x.req
  BY DEF Sound, WellFormed, Responses
<1>2. back' = back \/ back' = Append(back, e)
  BY DEF Reply
<1>3. CASE back' = back
  BY <1>1, <1>3 DEF Tokens, OnWire, Known, Executed, OnWayBack
<1>4. CASE back' = Append(back, e)
  <2> HIDE DEF e
  <2>1. /\ back' \in Seq(Responses) /\ Len(back) \in Nat /\ Len(back') = Len(back) + 1
        /\ back'[Len(back) + 1] = e
        /\ \A k \in 1..Len(back) : back'[k] = back[k]
    BY <1>1, <1>4, AppendElements
  <2>2. OnWayBack' \subseteq OnWayBack \union Executed
    <3>1. ASSUME NEW k \in 1..Len(back') PROVE <<back'[k].id, back'[k].req>> \in OnWayBack \union Executed
      <4>1. CASE k \in 1..Len(back)
        BY <4>1, <2>1 DEF OnWayBack
      <4>2. CASE k = Len(back) + 1
        BY <4>2, <1>1, <2>1 DEF Executed
      <4> QED BY <4>1, <4>2, <2>1
    <3> QED BY <3>1 DEF OnWayBack
  <2> QED BY <2>1, <2>2 DEF Tokens, OnWire, Known, Executed
<1> QED BY <1>2, <1>3, <1>4

\* A request ends without error: it sets the watermark.
LEMMA FinishKeeps ==
    ASSUME Sound, NEW x, Finish(x), Local
    PROVE  Sound'
<1> DEFINE e == [req |-> x.req, over |-> x.over]
<1>1. /\ x \in running /\ running' = running \ {x} /\ watermark' = x.id
      /\ lowered' = (lowered \/ x.id < watermark)
      /\ done' = done \union {e}
      /\ Reply(x, TRUE)
      /\ UNCHANGED <<up, call, socket, waiting, message_id, pending, wire, greeted, connection>>
      /\ UNCHANGED <<started, ignored, cut, redone>>
  BY DEF Finish, Local
<1>2. /\ x.id \in Nat /\ x.req \in Requests /\ x.over \in Nat
      /\ e \in [req : Requests, over : Nat] /\ e.req = x.req /\ e.over = x.over
  BY <1>1 DEF Sound, WellFormed
<1>3. back' \in Seq(Responses) /\ Tokens' \subseteq Tokens
  BY <1>1, ReplyTokens
<1>4. <<x.id, x.req>> \in Tokens
  BY <1>1, TokenOf
<1> HIDE DEF e
<1>5. x.id <= message_id /\ call[x.req] # "none" /\ ~Ready(x.req)
  <2> DEFINE t == <<x.id, x.req>>
  <2>1. t[1] <= message_id /\ call[t[2]] # "none" /\ ~Ready(t[2])
    BY <1>4 DEF Sound, Numbers
  <2> QED BY <2>1
<1>6. \A q \in Requests : Ready(q)' <=> Ready(q)
  BY <1>1 DEF Ready
<1>7. WellFormed'
  BY <1>1, <1>2, <1>3 DEF Sound, WellFormed
<1>8. Numbers'
  BY <1>1, <1>2, <1>3, <1>5, <1>6, NumbersKept, TokenTypes
<1>9. SentOnce'
  BY <1>1, <1>2, <1>5, <1>6 DEF Sound, SentOnce
<1>10. Delivery'
  BY <1>1, DeliveryKept
<1>11. Connections'
  BY <1>1, <1>2 DEF Sound, Connections
<1>12. Repetition'
  <2> SUFFICES ASSUME ~lowered'
               PROVE  /\ redone' = {}
                      /\ greeted' => \A d \in done', t \in Tokens :
                                        d.over = connection /\ t[2] = d.req => t[1] <= watermark'
    BY <1>1, <1>3 DEF Repetition
  <2>1. ~lowered /\ watermark \in Nat /\ watermark <= x.id
    <3>1. ~lowered /\ ~(x.id < watermark)
      BY <1>1, Zenon
    <3>2. watermark \in Nat
      BY DEF Sound, WellFormed
    <3> QED BY <3>1, <3>2, <1>2
  <2>2. ASSUME greeted, NEW d \in done', NEW t \in Tokens, d.over = connection, t[2] = d.req
        PROVE  t[1] <= x.id
    <3>1. t[1] \in Nat
      BY TokenTypes
    <3>2. CASE d \in done
      <4>1. t[1] <= watermark
        BY <2>1, <2>2, <3>2 DEF Sound, Repetition
      <4> QED BY <4>1, <3>1, <2>1, <1>2
    <3>3. CASE d = e
      <4> DEFINE u == <<x.id, x.req>>
      <4>1. t[2] = u[2] /\ u \in Tokens
        BY <2>2, <3>3, <1>2, <1>4
      <4>2. t[1] = u[1]
        BY <4>1 DEF Sound, Numbers
      <4> QED BY <4>2, <1>2
    <3> QED BY <3>2, <3>3, <1>1
  <2> QED BY <2>1, <2>2, <1>1 DEF Sound, Repetition
<1> QED BY <1>7, <1>8, <1>9, <1>10, <1>11, <1>12 DEF Sound

\* A request ends with an error.
LEMMA FailKeeps ==
    ASSUME Sound, NEW x, Fail(x), Local
    PROVE  Sound'
<1>1. /\ x \in running /\ running' = running \ {x}
      /\ Reply(x, FALSE)
      /\ UNCHANGED <<up, call, socket, waiting, message_id, pending, wire, greeted, watermark, connection>>
      /\ UNCHANGED <<started, ignored, cut, done, redone, lowered>>
  BY DEF Fail, Local, history
<1>2. back' \in Seq(Responses) /\ Tokens' \subseteq Tokens
  BY <1>1, ReplyTokens
<1>3. \A q \in Requests : Ready(q)' <=> Ready(q)
  BY <1>1 DEF Ready
<1>4. WellFormed'
  BY <1>1, <1>2 DEF Sound, WellFormed
<1>5. Numbers'
  <2>1. watermark' \in Nat /\ watermark' <= message_id
    BY <1>1 DEF Sound, WellFormed, Numbers
  <2> QED BY <2>1, <1>1, <1>2, <1>3, NumbersKept, TokenTypes
<1>6. SentOnce'
  BY <1>1, <1>3 DEF Sound, SentOnce
<1>7. Delivery'
  BY <1>1, DeliveryKept
<1>8. Connections' /\ Repetition'
  BY <1>1, <1>2 DEF Sound, Connections, Repetition
<1> QED BY <1>4, <1>5, <1>6, <1>7, <1>8 DEF Sound

\* The connection is closed on the requests that are pending.
LEMMA CloseKeeps ==
    ASSUME Sound, NEW restarted, Close(restarted), Local
    PROVE  Sound'
<1>1. /\ socket' = "none" /\ wire' = <<>> /\ back' = <<>> /\ greeted' = FALSE
      /\ cut' = cut \union Outstanding
      /\ running' \subseteq running /\ watermark' \in {0, watermark}
      /\ UNCHANGED <<up, call, waiting, message_id, pending, connection>>
      /\ UNCHANGED <<started, ignored, done, redone, lowered>>
  BY DEF Close, Local
<1>2. /\ wire' \in Seq(Messages) /\ back' \in Seq(Responses)
      /\ 1..Len(wire') = {} /\ 1..Len(back') = {}
  BY <1>1
<1>3. Tokens' \subseteq Tokens
  BY <1>1, <1>2 DEF Tokens, OnWire, Known, Executed, OnWayBack
<1>4. \A q \in Requests : Ready(q)' <=> Ready(q)
  BY <1>1 DEF Ready
<1>5. watermark' \in Nat /\ watermark' <= message_id
  BY <1>1 DEF Sound, WellFormed, Numbers
<1>6. WellFormed'
  BY <1>1, <1>2, <1>5 DEF Sound, WellFormed
<1>7. Numbers'
  BY <1>1, <1>3, <1>4, <1>5, NumbersKept, TokenTypes
<1>8. SentOnce'
  BY <1>1, <1>4 DEF Sound, SentOnce
<1>9. Delivery'
  <2>1. \A id \in DOMAIN pending' : pending'[id] \in cut'
    BY <1>1 DEF Outstanding
  <2>2. \A r \in ignored' : started'[r] > 0 \/ r \in cut'
    BY <1>1 DEF Sound, Delivery, Excused
  <2> QED BY <2>1, <2>2, <1>1, <1>2 DEF Sound, Delivery, Excused
<1>10. Connections' /\ Repetition'
  BY <1>1, <1>2 DEF Sound, Connections, Repetition
<1> QED BY <1>6, <1>7, <1>8, <1>9, <1>10 DEF Sound

-----------------------------------------------------------------------------
\* The invariant holds at the start: no number is given, nothing is on its way.
LEMMA InitInv == Init => Inv
<1> SUFFICES ASSUME Init PROVE Inv
  OBVIOUS
<1>1. /\ socket = "none" /\ waiting = <<>> /\ message_id = 0 /\ pending = <<>> /\ wire = <<>> /\ back = <<>>
      /\ greeted = FALSE /\ watermark = 0 /\ running = {} /\ connection = 0
      /\ started = [r \in Requests |-> 0]
      /\ ignored = {} /\ cut = {} /\ done = {} /\ redone = {} /\ lowered = FALSE /\ wrapped = FALSE
      /\ call = [r \in Requests |-> "none"] /\ up = <<>>
  BY DEF Init, ChannelInit
<1>2. /\ 1..Len(wire) = {} /\ 1..Len(back) = {} /\ 1..Len(up) = {} /\ 1..Len(waiting) = {}
      /\ DOMAIN pending = {}
  BY <1>1
<1>3. Tokens = {}
  BY <1>1, <1>2 DEF Tokens, OnWire, Known, Executed, OnWayBack
<1>4. \A r \in Requests : ~Ready(r)
  BY <1>2 DEF Ready
<1>5. WellFormed
  <2>1. up \in Seq(Requests) /\ waiting \in Seq(Requests) /\ wire \in Seq(Messages) /\ back \in Seq(Responses)
    BY <1>1
  <2>2. {greeted, lowered} \subseteq BOOLEAN /\ socket \in {"none", "connecting", "open", "rejected"}
    BY <1>1
  <2>3. message_id \in Nat /\ watermark \in Nat /\ connection \in Nat /\ message_id <= OVERFLOW
    BY <1>1, ChannelAssumption
  <2>4. /\ running \subseteq [id : Nat \ {0}, req : Requests, over : Nat, copy : Nat]
        /\ started \in [Requests -> Nat] /\ ignored \subseteq Requests
        /\ done \subseteq [req : Requests, over : Nat]
        /\ call \in [Requests -> {"none", "pending", "resolved", "rejected"}]
    BY <1>1
  <2>5. DOMAIN pending \subseteq Nat \ {0} /\ \A id \in DOMAIN pending : pending[id] \in Requests
    BY <1>2
  <2> QED BY <2>1, <2>2, <2>3, <2>4, <2>5 DEF WellFormed
<1>6. Numbers /\ SentOnce
  BY <1>1, <1>2, <1>3, <1>4 DEF Numbers, SentOnce
<1>7. Delivery
  BY <1>1, <1>2 DEF Delivery
<1>8. Connections
  BY <1>1, <1>2 DEF Connections
<1>9. Repetition
  BY <1>1 DEF Repetition
<1> QED BY <1>1, <1>5, <1>6, <1>7, <1>8, <1>9 DEF Inv, Sound

\* No step breaks the invariant.
LEMMA NextInv == Inv /\ [Next]_vars => Inv'
<1> SUFFICES ASSUME Inv, [Next]_vars PROVE Inv'
  OBVIOUS
<1>1. wrapped' \in BOOLEAN /\ (wrapped => wrapped')
  BY DEF Inv, Next, vars, channel, history, Call, Forward, ForwardFails, ConnectionFails, Refused, Answered,
         Settled, Connected, Deliver, Resend, Finish, Fail, Close, Send, SendLater, Transmit, Response,
         Greet, Execute, Ignore, UnknownResponse
<1> SUFFICES ASSUME ~wrapped' PROVE Sound'
  BY <1>1 DEF Inv
<1>2. Sound
  BY <1>1 DEF Inv
<1>3. CASE \E r \in Requests : Call(r)
  BY <1>2, <1>3, CallKeeps
<1>4. CASE Forward
  <2>1. up # <<>> /\ up' = Tail(up) /\ UNCHANGED <<call, down>>
    BY <1>4 DEF Forward
  <2>2. CASE Send(Head(up))
    BY <2>1, <2>2, SendKeeps
  <2>3. CASE SendLater(Head(up))
    BY <1>2, <2>1, <2>3, SendLaterKeeps
  <2> QED BY <1>4, <2>2, <2>3 DEF Forward
<1>5. CASE ForwardFails
  BY <1>2, <1>5, ForwardFailsKeeps
<1>6. CASE ConnectionFails
  BY <1>2, <1>6, ConnectionFailsKeeps
<1>7. CASE Answered
  BY <1>2, <1>7, ResponseKeeps DEF Answered
<1>8. CASE Settled
  BY <1>2, <1>8, SettledKeeps
<1>9. CASE Local /\ Connected
  BY <1>9, ConnectedKeeps
<1>10. CASE Local /\ Deliver
  <2>1. CASE Greet
    BY <1>2, <1>10, <2>1, GreetKeeps
  <2>2. CASE Execute
    BY <1>2, <1>10, <2>2, ExecuteKeeps
  <2>3. CASE Ignore
    BY <1>2, <1>10, <2>3, IgnoreKeeps
  <2>4. CASE UnknownResponse
    BY <1>2, <1>10, <2>4, ResponseKeeps DEF Local
  <2> QED BY <1>10, <2>1, <2>2, <2>3, <2>4 DEF Deliver
<1>11. CASE Local /\ \E id \in 1..OVERFLOW : Resend(id)
  BY <1>2, <1>11, ResendKeeps
<1>12. CASE Local /\ \E x \in running : Finish(x) \/ Fail(x)
  BY <1>2, <1>12, FinishKeeps, FailKeeps
<1>13. CASE Local /\ \E restarted \in BOOLEAN : Close(restarted)
  BY <1>2, <1>13, CloseKeeps
<1>14. CASE UNCHANGED vars
  <2>1. UNCHANGED <<up, call, socket, waiting, message_id, pending, wire, back, greeted, watermark, running, connection>>
    BY <1>14 DEF vars, channel
  <2>2. UNCHANGED <<started, ignored, cut, done, redone, lowered>>
    BY <1>14 DEF vars, channel, history
  <2>3. WellFormed'
    BY <1>2, <2>1, <2>2 DEF Sound, WellFormed
  <2>4. \A q : Ready(q)' <=> Ready(q)
    BY <2>1 DEF Ready
  <2>5. SentOnce'
    BY <1>2, <2>1, <2>2, <2>4 DEF Sound, SentOnce
  <2>6. Numbers' /\ Delivery' /\ Connections' /\ Repetition'
    BY <1>2, <2>1, <2>2, <2>3, <2>4, NothingSent
  <2> QED BY <2>3, <2>5, <2>6 DEF Sound
<1> QED BY <1>3, <1>4, <1>5, <1>6, <1>7, <1>8, <1>9, <1>10, <1>11, <1>12, <1>13, <1>14 DEF Next

-----------------------------------------------------------------------------
\* Nothing is executed or ends, and no request becomes unsettled.
LEMMA RepeatsLeft ==
    ASSUME Repeats, Unsettled' \subseteq Unsettled,
           UNCHANGED <<started, running, done, connection, overlapped, erred, cut, lowered>>,
           \A r \in Requests : call'[r] = "none" \/ Ready(r)' => call[r] = "none" \/ Ready(r),
           socket' # "open" => socket # "open" /\ pending' = pending
    PROVE  Repeats'
  BY DEF Repeats, Explained

\* Requests that are written were never executed; over a new connection, those
\* pending from before were cut off.
LEMMA RepeatsTransmitted ==
    ASSUME Inv, Repeats, NEW reqs, NEW before, Transmitted(reqs, before), UNCHANGED <<overlapped, erred>>,
           socket' = "open", connection' = connection \/ (socket # "open" /\ wire = <<>>)
    PROVE  Repeats'
<1>1. /\ UNCHANGED <<running, call, started, cut, done, lowered>>
      /\ reqs \in Seq(Requests) /\ \A i \in 1..Len(reqs) : reqs[i] \in Requests /\ Ready(reqs[i])
      /\ \A r \in Requests : Ready(r)' => Ready(r)
  BY DEF Transmitted
<1>2. ASSUME NEW t \in Unsettled', ~lowered
      PROVE  \/ started[t[2]] = 0 \/ Explained(t[2])
             \/ \E x \in running \union done : x.req = t[2] /\ x.over = connection'
  <2>1. CASE \E i \in 1..Len(reqs) : t = <<message_id + i, reqs[i]>>
    BY <1>1, <2>1 DEF Repeats
  <2>2. CASE t \in Unsettled
    <3>1. CASE connection' = connection
      BY <1>2, <2>2, <3>1 DEF Repeats
    <3>2. CASE socket # "open" /\ wire = <<>>
      <4>1. OnWire = {}
        BY <3>2 DEF OnWire
      <4>2. PICK id \in DOMAIN pending : t = <<id, pending[id]>>
        BY <2>2, <4>1 DEF Unsettled, Known
      <4> QED BY <3>2, <4>2 DEF Repeats, Explained
    <3> QED BY <3>1, <3>2
  <2> QED BY <2>1, <2>2, TransmittedUnsettled
<1>3. \A r : Explained(r)' <=> Explained(r)
  BY <1>1 DEF Explained
<1> QED BY <1>1, <1>2, <1>3 DEF Repeats

\* A request that was executed before, over this connection, is executed now: the
\* other copy has not ended, or it would be at the watermark.
LEMMA RepeatsExecute ==
    ASSUME Sound, Repeats, Execute, Local
    PROVE  Repeats'
<1> DEFINE m == Head(wire)
           x == [id |-> m.id, req |-> m.req, over |-> connection, copy |-> started[m.req]]
<1>1. /\ wire # <<>> /\ m.id # 0 /\ greeted /\ m.id > watermark /\ wire' = Tail(wire)
      /\ running' = running \union {x}
      /\ started' = [started EXCEPT ![m.req] = @ + 1]
      /\ overlapped' = IF \E y \in running : y.req = m.req /\ y.over = connection
                       THEN overlapped \union {m.req} ELSE overlapped
      /\ UNCHANGED <<up, call, socket, waiting, pending, connection>>
      /\ UNCHANGED <<cut, done, erred, lowered>>
  BY DEF Execute, Arriving, Fresh, Local
<1>2. m = wire[1] /\ 1 \in 1..Len(wire) /\ OnWire' \subseteq OnWire /\ m \in Messages
  BY <1>1, TakenWire
<1>3. m.id \in Nat \ {0} /\ m.req \in Requests /\ <<m.id, m.req>> \in Unsettled /\ <<m.id, m.req>> \in Tokens
  BY <1>1, <1>2, TokenOf DEF Messages, Unsettled, OnWire
<1>4. x.req = m.req /\ x.over = connection
  OBVIOUS
<1> HIDE DEF m, x
<1>5. Unsettled' \subseteq Unsettled /\ \A r \in Requests : Ready(r)' <=> Ready(r)
  BY <1>1, <1>2 DEF Unsettled, Known, Ready
<1>6. /\ started \in [Requests -> Nat] /\ started'[m.req] = started[m.req] + 1
      /\ \A r \in Requests : r # m.req => started'[r] = started[r]
  BY <1>1, <1>3 DEF Sound, WellFormed
<1>7. \A r : Explained(r) => Explained(r)'
  BY <1>1 DEF Explained
<1>8. ~Ready(m.req) /\ call[m.req] # "none"
  <2> DEFINE t == <<m.id, m.req>>
  <2>1. t[2] = m.req /\ t \in Tokens
    BY <1>3
  <2> QED BY <2>1 DEF Sound, Numbers
<1>9. ASSUME ~lowered, NEW r \in Requests, r = m.req, started[r] > 0 PROVE Explained(r)'
  <2> DEFINE t == <<m.id, m.req>>
  <2>0. t[1] = m.id /\ t[2] = m.req /\ t \in Unsettled /\ t \in Tokens
    BY <1>3
  <2> HIDE DEF t
  <2>1. Explained(r) \/ \E y \in running \union done : y.req = m.req /\ y.over = connection
    BY <1>3, <1>6, <1>9, <2>0 DEF Repeats
  <2>2. ASSUME NEW d \in done, d.req = m.req, d.over = connection PROVE FALSE
    <3>1. t[1] <= watermark
      BY <1>1, <1>9, <2>0, <2>2 DEF Sound, Repetition
    <3>2. ~(m.id <= watermark)
      BY <1>1, <1>3 DEF Sound, WellFormed
    <3> QED BY <2>0, <3>1, <3>2
  <2>3. CASE \E y \in running : y.req = m.req /\ y.over = connection
    <3>1. r \in overlapped'
      BY <1>1, <1>9, <2>3
    <3> QED BY <3>1 DEF Explained
  <2> QED BY <1>7, <2>1, <2>2, <2>3
<1>10. ASSUME ~lowered, NEW t \in Unsettled'
       PROVE  \/ started'[t[2]] = 0 \/ Explained(t[2])'
              \/ \E y \in running' \union done' : y.req = t[2] /\ y.over = connection'
  <2>1. CASE t[2] = m.req
    BY <1>1, <1>4, <2>1
  <2>2. CASE t[2] # m.req
    <3>1. started'[t[2]] = started[t[2]]
      BY <1>1, <2>2 DEF Sound, WellFormed
    <3> QED BY <1>1, <1>5, <1>7, <1>10, <3>1 DEF Repeats
  <2> QED BY <2>1, <2>2
<1>11. ASSUME ~lowered, NEW r \in Requests, started'[r] > 1 PROVE Explained(r)'
  <2>1. CASE r = m.req
    <3>1. started[r] > 0
      BY <1>3, <1>6, <1>11, <2>1
    <3> QED BY <3>1, <1>9, <1>11, <2>1
  <2>2. CASE r # m.req
    BY <1>6, <1>7, <1>11, <2>2 DEF Repeats
  <2> QED BY <2>1, <2>2
<1>12. \A r \in Requests : call'[r] = "none" \/ Ready(r)' => started'[r] = 0
  BY <1>1, <1>5, <1>6, <1>8 DEF Repeats
<1> QED BY <1>1, <1>10, <1>11, <1>12 DEF Repeats

\* A request that ends has ended over its connection, or is excused by an error.
LEMMA RepeatsEnd ==
    ASSUME Sound, Repeats, NEW x \in running, Finish(x) \/ Fail(x), Local
    PROVE  Repeats'
<1>1. /\ running' = running \ {x}
      /\ UNCHANGED <<up, call, socket, waiting, pending, wire, connection, started, cut, overlapped>>
      /\ lowered => lowered'
      /\ erred \subseteq erred' /\ done \subseteq done'
      /\ x.req \in erred' \/ [req |-> x.req, over |-> x.over] \in done'
  <2>1. CASE Finish(x)
    <3>1. /\ running' = running \ {x} /\ done' = done \union {[req |-> x.req, over |-> x.over]}
          /\ UNCHANGED <<up, call, socket, waiting, pending, wire, connection, started, cut, overlapped>>
          /\ erred' = erred
      BY <2>1 DEF Finish, Local
    <3>2. lowered => lowered'
      BY <2>1, Zenon DEF Finish
    <3> QED BY <3>1, <3>2
  <2>2. CASE Fail(x)
    <3>1. /\ running' = running \ {x} /\ erred' = erred \union {x.req} /\ done' = done
          /\ UNCHANGED <<up, call, socket, waiting, pending, wire, connection, started, cut, overlapped>>
      BY <2>2 DEF Fail, Local
    <3>2. lowered' = lowered
      BY <2>2 DEF Fail
    <3> QED BY <3>1, <3>2
  <2> QED BY <2>1, <2>2
<1>2. Unsettled' = Unsettled /\ \A r \in Requests : Ready(r)' <=> Ready(r)
  BY <1>1 DEF Unsettled, OnWire, Known, Ready
<1>3. \A r : Explained(r) => Explained(r)'
  BY <1>1 DEF Explained
<1>4. ASSUME NEW t \in Unsettled, NEW y \in running \union done, y.req = t[2], y.over = connection
      PROVE  Explained(t[2])' \/ \E z \in running' \union done' : z.req = t[2] /\ z.over = connection
  <2>1. CASE y = x
    <3>1. CASE x.req \in erred'
      BY <1>4, <2>1, <3>1 DEF Explained
    <3>2. CASE [req |-> x.req, over |-> x.over] \in done'
      BY <1>4, <2>1, <3>2
    <3> QED BY <1>1, <3>1, <3>2
  <2>2. CASE y # x
    BY <1>1, <1>4, <2>2
  <2> QED BY <2>1, <2>2
<1>5. ASSUME ~lowered', NEW t \in Unsettled
      PROVE  \/ started[t[2]] = 0 \/ Explained(t[2])'
             \/ \E z \in running' \union done' : z.req = t[2] /\ z.over = connection
  <2>1. ~lowered
    BY <1>1, <1>5
  <2>2. \/ started[t[2]] = 0 \/ Explained(t[2])
        \/ \E y \in running \union done : y.req = t[2] /\ y.over = connection
    BY <2>1 DEF Repeats
  <2> QED BY <1>3, <1>4, <2>2
<1> QED BY <1>1, <1>2, <1>3, <1>5 DEF Repeats

\* What is pending is cut off by a close, and nothing else is unsettled.
LEMMA RepeatsClose ==
    ASSUME Sound, Repeats, NEW restarted, Close(restarted), Local
    PROVE  Repeats'
<1>1. /\ wire' = <<>> /\ cut' = cut \union Outstanding
      /\ UNCHANGED <<up, call, waiting, pending, started, lowered, overlapped, erred>>
  BY DEF Close, Local
<1>2. OnWire' = {} /\ \A r \in Requests : Ready(r)' <=> Ready(r)
  BY <1>1 DEF OnWire, Ready
<1>3. \A id \in DOMAIN pending' : pending'[id] \in cut'
  BY <1>1 DEF Outstanding
<1>4. \A t \in Unsettled' : t[2] \in cut'
  BY <1>2, <1>3 DEF Unsettled, Known
<1> QED BY <1>1, <1>2, <1>3, <1>4 DEF Repeats, Explained

\* No step breaks this part.
LEMMA NextRepeats ==
    ASSUME FullInv, [Next]_vars, Inv', ~wrapped'
    PROVE  Repeats'
<1>0. ~wrapped
  BY DEF Inv, FullInv, Next, vars, channel, history, Call, Forward, ForwardFails, ConnectionFails, Refused, Answered,
         Settled, Connected, Deliver, Resend, Finish, Fail, Close, Send, SendLater, Transmit, Response,
         Greet, Execute, Ignore, UnknownResponse
<1>1. Inv /\ Sound /\ Repeats
  BY <1>0 DEF Inv, FullInv
<1>2. CASE \E r \in Requests : Call(r)
  <2>1. PICK r \in Requests : Call(r)
    BY <1>2
  <2>2. /\ call[r] = "none" /\ call' = [call EXCEPT ![r] = "pending"]
        /\ up \in Seq(Requests) /\ up' = Append(up, r)
        /\ UNCHANGED <<socket, waiting, pending, wire, started, running, done, connection, overlapped, erred, cut, lowered>>
    BY <1>1, <2>1 DEF Call, Sound, WellFormed, channel, history
  <2>3. \A q \in Requests : Ready(q)' => Ready(q) \/ q = r
    <3>1. /\ Len(up) \in Nat /\ Len(up') = Len(up) + 1 /\ up'[Len(up) + 1] = r
          /\ \A k \in 1..Len(up) : up'[k] = up[k]
      BY <2>2, AppendElements
    <3>2. \A q \in Requests : (\E k \in 1..Len(up') : up'[k] = q) => (\E k \in 1..Len(up) : up[k] = q) \/ q = r
      BY <3>1
    <3> QED BY <2>2, <3>2 DEF Ready
  <2>4. \A q \in Requests : call'[q] = "none" => call[q] = "none"
    BY <1>1, <2>2 DEF Sound, WellFormed
  <2>5. Unsettled' \subseteq Unsettled
    BY <2>2 DEF Unsettled, OnWire, Known
  <2> QED BY <1>1, <2>2, <2>3, <2>4, <2>5, RepeatsLeft
<1>3. CASE Forward
  <2>1. up # <<>> /\ up' = Tail(up) /\ UNCHANGED <<call, down>>
    BY <1>3 DEF Forward
  <2>2. CASE Send(Head(up))
    <3>1. Transmitted(<<Head(up)>>, wire)
      BY <1>1, <2>1, <2>2, SentTransmitted
    <3> QED BY <1>1, <2>2, <3>1, RepeatsTransmitted DEF Send
  <2>3. CASE SendLater(Head(up))
    <3>1. /\ socket # "open" /\ waiting' = Append(waiting, Head(up))
          /\ UNCHANGED <<call, pending, wire, started, running, done, connection, overlapped, erred, cut, lowered>>
      BY <2>1, <2>3 DEF SendLater, history
    <3>2. \A q \in Requests : Ready(q)' => Ready(q)
      <4>1. Ready(Head(up)) /\ \A k \in 1..Len(up') : \E l \in 1..Len(up) : up'[k] = up[l]
        BY <1>1, <2>1, TakeUp
      <4>2. /\ waiting \in Seq(Requests) /\ Head(up) \in Requests
        BY <1>1, <2>1, TakeUp DEF Sound, WellFormed
      <4>3. \A k \in 1..Len(waiting') : waiting'[k] = Head(up) \/ \E l \in 1..Len(waiting) : waiting'[k] = waiting[l]
        BY <3>1, <4>2, AppendElements
      <4> QED BY <4>1, <4>3 DEF Ready
    <3>3. Unsettled' \subseteq Unsettled
      BY <3>1 DEF Unsettled, OnWire, Known
    <3> QED BY <1>1, <3>1, <3>2, <3>3, RepeatsLeft
  <2> QED BY <1>3, <2>2, <2>3 DEF Forward
<1>4. CASE ForwardFails
  <2>1. /\ up # <<>> /\ up' = Tail(up)
        /\ UNCHANGED <<call, socket, waiting, pending, wire, started, running, done, connection, overlapped, erred, cut, lowered>>
    BY <1>4 DEF ForwardFails, channel, history
  <2>2. \A q \in Requests : Ready(q)' => Ready(q)
    BY <1>1, <2>1, TakeUp DEF Ready
  <2>3. Unsettled' \subseteq Unsettled
    BY <2>1 DEF Unsettled, OnWire, Known
  <2> QED BY <1>1, <2>1, <2>2, <2>3, RepeatsLeft
<1>5. CASE ConnectionFails
  <2>1. /\ socket = "connecting" /\ waiting' = <<>>
        /\ UNCHANGED <<up, call, pending, wire, started, running, done, connection, overlapped, erred, cut, lowered>>
    BY <1>5 DEF ConnectionFails, Refused, history
  <2>2. \A q \in Requests : Ready(q)' => Ready(q)
    BY <2>1 DEF Ready
  <2>3. Unsettled' \subseteq Unsettled
    BY <2>1 DEF Unsettled, OnWire, Known
  <2> QED BY <1>1, <2>1, <2>2, <2>3, RepeatsLeft
<1>6. CASE Answered \/ (Local /\ UnknownResponse)
  <2>1. /\ DOMAIN pending' \subseteq DOMAIN pending /\ \A id \in DOMAIN pending' : pending'[id] = pending[id]
        /\ back # <<>>
        /\ UNCHANGED <<up, waiting, socket, wire, call, started, running, done, connection, overlapped, erred, cut, lowered>>
    BY <1>6 DEF Answered, Local, Response, UnknownResponse, history
  <2>2. \A q \in Requests : Ready(q)' => Ready(q)
    BY <2>1 DEF Ready
  <2>3. Unsettled' \subseteq Unsettled
    BY <2>1 DEF Unsettled, OnWire, Known
  <2>4. socket' # "open" => \A id \in DOMAIN pending' : pending'[id] \in cut'
    BY <1>1, <2>1 DEF Repeats
  <2> QED BY <1>1, <2>1, <2>2, <2>3, <2>4 DEF Repeats, Explained
<1>7. CASE Settled
  <2>1. /\ UNCHANGED <<up, waiting, pending, socket, wire, started, running, done, connection, overlapped, erred, cut, lowered>>
        /\ \E q, a : a \in {"resolved", "rejected"} /\ call' = [call EXCEPT ![q] = a]
    BY <1>7 DEF Settled, channel, history
  <2>2. \A q \in Requests : (Ready(q)' => Ready(q)) /\ (call'[q] = "none" => call[q] = "none")
    BY <1>1, <2>1 DEF Ready, Sound, WellFormed
  <2>3. Unsettled' \subseteq Unsettled
    BY <2>1 DEF Unsettled, OnWire, Known
  <2> QED BY <1>1, <2>1, <2>2, <2>3, RepeatsLeft
<1>8. CASE Local /\ Connected
  <2>1. Transmitted(waiting, <<Handshake>>) /\ wire = <<>>
    BY <1>1, <1>8, ConnectedTransmitted
  <2>2. socket # "open" /\ socket' = "open" /\ UNCHANGED <<overlapped, erred>>
    BY <1>8 DEF Connected
  <2> QED BY <1>1, <2>1, <2>2, RepeatsTransmitted
<1>9. CASE Local /\ (Greet \/ Ignore)
  <2>1. /\ wire # <<>> /\ wire' = Tail(wire)
        /\ UNCHANGED <<up, call, waiting, pending, socket, started, running, done, connection, overlapped, erred, cut, lowered>>
    BY <1>9 DEF Greet, Ignore, Arriving, Local, history
  <2>2. \A q \in Requests : Ready(q)' => Ready(q)
    BY <2>1 DEF Ready
  <2>3. Unsettled' \subseteq Unsettled
    BY <1>1, <2>1, TakenWire DEF Unsettled, Known
  <2> QED BY <1>1, <2>1, <2>2, <2>3, RepeatsLeft
<1>10. CASE Local /\ Execute
  BY <1>1, <1>10, RepeatsExecute
<1>11. CASE Local /\ \E id \in 1..OVERFLOW : Resend(id)
  <2>1. PICK id : Resend(id)
    BY <1>11
  <2> DEFINE m == [id |-> id, req |-> pending[id]]
  <2>2. /\ id \in DOMAIN pending /\ wire' = Append(wire, m) /\ wire \in Seq(Messages) /\ m \in Messages
        /\ UNCHANGED <<up, call, waiting, pending, socket, started, running, done, connection, overlapped, erred, cut, lowered>>
    BY <1>1, <1>11, <2>1 DEF Resend, Local, history, Sound, WellFormed, Messages
  <2>3. m.id = id /\ m.req = pending[id] /\ <<id, pending[id]>> \in Known
    BY <2>2 DEF Known
  <2> HIDE DEF m
  <2>4. /\ Len(wire) \in Nat /\ Len(wire') = Len(wire) + 1 /\ wire'[Len(wire) + 1] = m
        /\ \A k \in 1..Len(wire) : wire'[k] = wire[k]
    BY <2>2, AppendElements
  <2>5. OnWire' \subseteq OnWire \union Known
    <3>1. ASSUME NEW k \in 1..Len(wire'), wire'[k].id # 0
          PROVE  <<wire'[k].id, wire'[k].req>> \in OnWire \union Known
      <4>1. CASE k \in 1..Len(wire)
        BY <4>1, <3>1, <2>4 DEF OnWire
      <4>2. CASE k = Len(wire) + 1
        BY <4>2, <2>3, <2>4
      <4> QED BY <4>1, <4>2, <2>4
    <3> QED BY <3>1 DEF OnWire
  <2>6. Unsettled' \subseteq Unsettled /\ \A q \in Requests : Ready(q)' => Ready(q)
    BY <2>2, <2>5 DEF Unsettled, Known, Ready
  <2> QED BY <1>1, <2>2, <2>6, RepeatsLeft
<1>12. CASE Local /\ \E x \in running : Finish(x) \/ Fail(x)
  BY <1>1, <1>12, RepeatsEnd
<1>13. CASE Local /\ \E restarted \in BOOLEAN : Close(restarted)
  BY <1>1, <1>13, RepeatsClose
<1>14. CASE UNCHANGED vars
  <2>1. UNCHANGED <<up, call, waiting, pending, socket, wire, started, running, done, connection, overlapped, erred, cut, lowered>>
    BY <1>14 DEF vars, channel, history
  <2>2. Unsettled' \subseteq Unsettled /\ \A q \in Requests : Ready(q)' => Ready(q)
    BY <2>1 DEF Unsettled, OnWire, Known, Ready
  <2> QED BY <1>1, <2>1, <2>2, RepeatsLeft
<1> QED BY <1>2, <1>3, <1>4, <1>5, <1>6, <1>7, <1>8, <1>9, <1>10, <1>11, <1>12, <1>13, <1>14 DEF Next, Deliver

\* What the invariant says of answers, and of requests that are ignored or repeated.
LEMMA InvImplies == FullInv => EachAnsweredOnce
<1> SUFFICES ASSUME FullInv PROVE AnswersMatch /\ RedoneOnlyIfLowered /\ RepeatsExplained
  BY DEF EachAnsweredOnce
<1>1. CASE wrapped
  BY <1>1 DEF AnswersMatch, RedoneOnlyIfLowered, IgnoredWasReceived, RepeatsExplained
<1>2. CASE ~wrapped
  <2>1. Sound /\ Repeats
    BY <1>2 DEF FullInv, Inv
  <2>2. ASSUME NEW i \in 1..Len(back), back[i].id \in DOMAIN pending
        PROVE  pending[back[i].id] = back[i].req
    <3> DEFINE t == <<back[i].id, back[i].req>>
               u == <<back[i].id, pending[back[i].id]>>
    <3>1. t \in Tokens /\ u \in Tokens /\ t[1] = u[1]
      BY <2>2, TokenOf
    <3>2. t[2] = u[2]
      BY <2>1, <3>1 DEF Sound, Numbers
    <3> QED BY <3>2
  <2>3. IgnoredWasReceived
    BY <2>1 DEF IgnoredWasReceived, Sound, Delivery, Excused
  <2>4. redone = {} \/ lowered
    BY <2>1 DEF Sound, Repetition
  <2>5. RepeatsExplained
    BY <2>1 DEF RepeatsExplained, Repeats, Explained
  <2> QED BY <2>2, <2>3, <2>4, <2>5 DEF AnswersMatch, RedoneOnlyIfLowered
<1> QED BY <1>1, <1>2 DEF FullInv, Inv

\* The whole invariant holds at the start.
LEMMA InitFull == Init => FullInv
<1> SUFFICES ASSUME Init PROVE Repeats
  BY InitInv DEF FullInv
<1>1. /\ started = [r \in Requests |-> 0] /\ pending = <<>> /\ wire = <<>>
  BY DEF Init, ChannelInit
<1>2. Unsettled = {} /\ DOMAIN pending = {}
  BY <1>1 DEF Unsettled, OnWire, Known
<1> QED BY <1>1, <1>2 DEF Repeats

\* Until the numbers start anew, an answer is taken for the request it was given
\* to; a request is ignored only if it was received or cut off by a close; one that
\* ended is executed again over the same connection only if the watermark was set
\* back; and any request is executed again only then, or if it was received while
\* another copy was executed, ended with an error, or was cut off (tcp.js:170-301).
THEOREM AnsweredOnce == Spec => []EachAnsweredOnce
<1>1. FullInv /\ [Next]_vars => FullInv'
  BY NextInv, NextRepeats DEF FullInv
<1> QED BY InitFull, <1>1, InvImplies, PTL DEF Spec
=============================================================================
