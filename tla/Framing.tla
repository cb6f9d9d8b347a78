------------------------------ MODULE Framing ------------------------------
(* Messages in a stream of bytes that arrives in chunks of any size: requests with a header of number, length and flag
   (BinaryParser), answers as lines (ChunkParser). A field of the header stands for its bytes, a letter for those of a character. *)
EXTENDS Integers, Sequences, SequencesExt

CONSTANTS Requests,     \* sequences of requests [id, json, content]
          Answers,      \* sequences of lines
          Newline       \* a letter that occurs in no content

VARIABLES format, sent,         \* what the sender wrote
          flying,               \* bytes on their way
          buffer, expected, current,    \* of the parser: bytes not yet used, length and number of the message being read
          received
framevars == <<format, sent, flying, buffer, expected, current, received>>

\* create_message(): `undefined` is an empty JSON text
Message(m) == <<m.id, Len(m.content), m.json>> \o m.content
Header == 3
Line(s) == Append(s, Newline)

----------------------------------------------------------------------------
\* One turn of the loop of BinaryParser.feed() after another; a length of 0 means that the header was not read yet.
Complete(p) == Len(p.buffer) >= Header + p.expected
ReadHeader(p) == IF p.expected = 0 THEN [p EXCEPT !.current = p.buffer[1], !.expected = p.buffer[2]] ELSE p
Content(p) == SubSeq(p.buffer, Header + 1, Header + p.expected)
TakeMessage_KeepsLength(p) ==                       \* mutant: the length of a message is not reset after it
    [p EXCEPT !.buffer = SubSeq(@, Header + p.expected + 1, Len(@)),
              !.out = Append(@, [id |-> p.current, json |-> p.buffer[3], content |-> Content(p)])]
TakeMessage(p) == [buffer |-> SubSeq(p.buffer, Header + p.expected + 1, Len(p.buffer)), expected |-> 0, current |-> 0,
                   out |-> Append(p.out, [id |-> p.current, json |-> p.buffer[3], content |-> Content(p)])]
RECURSIVE ReadOn(_)
ReadOn(p) == IF Len(p.buffer) < Header THEN p
             ELSE LET q == ReadHeader(p) IN IF Complete(q) THEN ReadOn(TakeMessage(q)) ELSE q

\* ChunkParser.feed(): all complete lines but empty ones; the rest stays in the buffer.
Breaks(s) == {i \in DOMAIN s : s[i] = Newline}
RECURSIVE Split(_)
Split(p) == IF Breaks(p.buffer) = {} THEN p
            ELSE LET end == CHOOSE i \in Breaks(p.buffer) : \A j \in Breaks(p.buffer) : i <= j
                     line == SubSeq(p.buffer, 1, end - 1)
                 IN Split([p EXCEPT !.buffer = SubSeq(@, end + 1, Len(@)), !.out = IF line = << >> THEN @ ELSE Append(@, line)])

\* A chunk of the first n bytes arrives.
Feed == \E n \in 1 .. Len(flying) :
           LET p == [buffer |-> buffer \o SubSeq(flying, 1, n), expected |-> expected, current |-> current, out |-> received]
               q == IF format = "binary" THEN ReadOn(p) ELSE Split(p)
           IN /\ buffer' = q.buffer /\ expected' = q.expected /\ current' = q.current /\ received' = q.out
              /\ flying' = SubSeq(flying, n + 1, Len(flying))
              /\ UNCHANGED <<format, sent>>

Init == /\ \/ format = "binary" /\ sent \in Requests /\ flying = FlattenSeq([i \in DOMAIN sent |-> Message(sent[i])])
           \/ format = "lines" /\ sent \in Answers /\ flying = FlattenSeq([i \in DOMAIN sent |-> Line(sent[i])])
        /\ buffer = << >> /\ expected = 0 /\ current = 0 /\ received = << >>
Next == Feed

----------------------------------------------------------------------------
\* However the stream is cut, the messages arrive as they were sent and in order, none before its last byte and none later than
\* that. (BinaryParser.feed, ChunkParser.feed)
Sizes(s) == [i \in DOMAIN s |-> Len(IF format = "binary" THEN Message(s[i]) ELSE Line(s[i]))]
Total(s) == FoldFunction(+, 0, Sizes(s))
WholeMessagesArrive == LET arrived == Total(sent) - Len(flying)
                           whole == CHOOSE n \in 0 .. Len(sent) : /\ Total(SubSeq(sent, 1, n)) <= arrived
                                                                  /\ n < Len(sent) => Total(SubSeq(sent, 1, n + 1)) > arrived
                       IN received = SubSeq(sent, 1, whole)
=============================================================================
