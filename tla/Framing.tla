------------------------------ MODULE Framing -------------------------------
(***************************************************************************)
(* riak::message: how messages are put into bytes (wire_package), how the  *)
(* buffering handler of a request gets them back from what the transport   *)
(* reads, in pieces of any size, and how a handler takes one apart.        *)
(*                                                                         *)
(* A message is four bytes with the length of the rest, the first of them  *)
(* the most significant, one byte with the code, and the body.             *)
(***************************************************************************)
EXTENDS Naturals, Sequences

CONSTANTS
    Rests,          \* what may follow the length in a message of the server
    MaxMessages,    \* bound: messages of one reply
    MaxPiece        \* bound: the size of the pieces the transport reads

Bytes == 0..255

\* Lengths are 32 bits wide.
ASSUME FramingAssumption ==
    /\ Rests \subseteq Seq(Bytes)
    /\ \A rest \in Rests : Len(rest) \div 16777216 \in Bytes
    /\ MaxMessages \in Nat
    /\ MaxPiece \in Nat \ {0}

VARIABLES
    messages,   \* history: the messages of the server, and where in sent each starts
    sent,       \* the bytes the server has sent
    read,       \* how many of them the transport has read
    buffer,     \* the buffer of the handler
    handed,     \* history: the messages consume_complete_message was given
    satisfied   \* it has returned true or was given an error: the request is over

vars == <<messages, sent, read, buffer, handed, satisfied>>

-----------------------------------------------------------------------------
SizeOfLength == 4
SizeOfHeader == SizeOfLength + 1

\* A bug to be found: the length is not cut into bytes.
UncutBigendian(n) == <<0, 0, 0, n>>

\* htonl and ntohl.
Bigendian(n) ==
    <<n \div 16777216, (n \div 65536) % 256, (n \div 256) % 256, n % 256>>
Decoded(b) == b[1] * 16777216 + b[2] * 65536 + b[3] * 256 + b[4]

\* wire_package::to_string, for a code and a body.
Wire(rest) == Bigendian(Len(rest)) \o rest

\* Bugs to be found: the length is taken to count itself, and a message is not
\* complete before the next one begins.
LengthOfAll(b) ==
    IF Len(b) >= SizeOfLength /\ Len(b) >= Decoded(b) THEN Decoded(b) ELSE 0
LengthBeforeNext(b) ==
    IF Len(b) >= SizeOfLength /\ Len(b) - SizeOfLength > Decoded(b)
    THEN SizeOfLength + Decoded(b)
    ELSE 0

\* How many bytes of b are a complete message, 0 while there is none.
NextPartialResponse(b) ==
    IF Len(b) >= SizeOfLength /\ Len(b) - SizeOfLength >= Decoded(b)
    THEN SizeOfLength + Decoded(b)
    ELSE 0

\* A bug to be found: the length is compared with all that was received.
CodeOfWholeLength(m) ==
    IF Len(m) > SizeOfLength /\ Decoded(m) = Len(m) THEN {m[SizeOfHeader]} ELSE {}

\* extract_code_if_valid: the codes it may find in m.  It reads the byte after the
\* length even if there is none, and then the code is whatever was in memory.
ExtractCodeIfValid(m) ==
    IF Len(m) >= SizeOfLength /\ Decoded(m) = Len(m) - SizeOfLength
    THEN IF Len(m) > SizeOfLength THEN {m[SizeOfHeader]} ELSE Bytes
    ELSE {}

\* retrieve_body_with_code: what it may do with m.  Protocol buffers accept the
\* payload or not, but substr throws when m is shorter than a header.
RetrieveBodyWithCode(expected, m) ==
    IF Len(m) < SizeOfHeader
    THEN {"false"} \cup (IF expected \in ExtractCodeIfValid(m) THEN {"throws"} ELSE {})
    ELSE IF ExtractCodeIfValid(m) = {expected} THEN {"parses", "false"} ELSE {"false"}

\* verify_code: what it may return.
VerifyCode(expected, m) ==
    IF ExtractCodeIfValid(m) = {} THEN {FALSE}
    ELSE {expected = code : code \in ExtractCodeIfValid(m)}

-----------------------------------------------------------------------------
TypeOK ==
    /\ messages \in Seq([rest : Rests, start : Nat])
    /\ sent \in Seq(Bytes)
    /\ read \in 0..Len(sent)
    /\ buffer \in Seq(Bytes)
    /\ handed \in Seq(Seq(Bytes))
    /\ satisfied \in BOOLEAN

Init ==
    /\ messages = <<>>
    /\ sent = <<>>
    /\ read = 0
    /\ buffer = <<>>
    /\ handed = <<>>
    /\ satisfied = FALSE

\* The server sends one more message.
Sends(rest) ==
    /\ ~satisfied
    /\ Len(messages) < MaxMessages
    /\ messages' = Append(messages, [rest |-> rest, start |-> Len(sent)])
    /\ sent' = sent \o Wire(rest)
    /\ UNCHANGED <<read, buffer, handed, satisfied>>

\* handle_streaming_requests, with the next n bytes.  One message at most is consumed,
\* and the consumer says whether it wants more.
Receive(n) ==
    /\ ~satisfied
    /\ read + n <= Len(sent)
    /\ read' = read + n
    /\ LET b    == buffer \o SubSeq(sent, read + 1, read + n)
           next == NextPartialResponse(b)
       IN  IF next # 0
           THEN /\ handed' = Append(handed, SubSeq(b, 1, next))
                /\ buffer' = SubSeq(b, next + 1, Len(b))
                /\ satisfied' \in BOOLEAN
           ELSE /\ buffer' = b
                /\ UNCHANGED <<handed, satisfied>>
    /\ UNCHANGED <<messages, sent>>

\* With an error, which ends the request.
ReceiveError ==
    /\ ~satisfied
    /\ satisfied' = TRUE
    /\ UNCHANGED <<messages, sent, read, buffer, handed>>

Next ==
    \/ \E rest \in Rests : Sends(rest)
    \/ \E n \in 1..MaxPiece : Receive(n)
    \/ ReceiveError

Spec == Init /\ [][Next]_vars

-----------------------------------------------------------------------------
\* What was handed over are the messages of the server, whole and in order, however
\* the network cut them up (handle_streaming_requests).
MessagesIntact ==
    /\ Len(handed) <= Len(messages)
    /\ \A i \in DOMAIN handed : handed[i] = Wire(messages[i].rest)

\* Taking a message apart finds the code the server gave it and no other
\* (extract_code_if_valid), whatever its length and its body.
CodesRecovered ==
    \A i \in DOMAIN handed : \A code \in Bytes :
        messages[i].rest # <<>> =>
            /\ "parses" \in RetrieveBodyWithCode(code, handed[i])
                  <=> code = messages[i].rest[1]
            /\ VerifyCode(code, handed[i]) = {code = messages[i].rest[1]}

\* A reply of one message never waits for more data: by the time all that the server
\* has sent has been read, a message has been handed over (handle_streaming_requests).
\* A second one in the same piece does wait, see the README.
FirstNotHeldBack ==
    read = Len(sent) /\ ~satisfied /\ messages # <<>> => handed # <<>>
=============================================================================
