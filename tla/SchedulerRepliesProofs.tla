----------------------- MODULE SchedulerRepliesProofs -----------------------
(***************************************************************************)
(* Whose reply a handler is called with, for every set of requests and     *)
(* threads, every way of giving requests up and every number of failures.  *)
(*                                                                         *)
(* The argument follows a reply from the node to the handler.  What is     *)
(* still to come of it was asked for by a request that has the connection, *)
(* or was deprived of it (Stray); the segments of one reply end with its   *)
(* last one (Stream); and who is called with another's segment came after  *)
(* the other, which never hears the end of its reply (Foreign, Complete).  *)
(***************************************************************************)
EXTENDS SchedulerDutyProofs

-----------------------------------------------------------------------------
(***************************************************************************)
(* A reply on its way from the node.                                       *)
(***************************************************************************)
Arrived(s, q) == \E i \in DOMAIN s.inbox : s.inbox[i].of = q
Owed(s, q) == \E i \in DOMAIN s.serving : s.serving[i].req = q
Coming(s, q) == Arrived(s, q) \/ Owed(s, q)

\* The node owes each reply once, the last segment of one is behind all others of it,
\* and only completed reads bring a segment.
Stream(s) ==
    /\ \A i, j \in DOMAIN s.serving : i # j => s.serving[i].req # s.serving[j].req
    /\ \A i, j \in DOMAIN s.inbox :
          i < j /\ s.inbox[i].last => s.inbox[j].of # s.inbox[i].of
    /\ \A i \in DOMAIN s.inbox : s.inbox[i].last => ~Owed(s, s.inbox[i].of)
    /\ \A q \in Requests : Coming(s, q) => Has(s.log, q)
    /\ \A i \in DOMAIN s.ready : s.ready[i].error # "success" =>
          s.ready[i].segment = NoSegment

\* A completion that brings nothing to read.
Bare(c) == c.segment = NoSegment /\ (c.call = "on_read" => c.error # "success")

(***************************************************************************)
(* What the calls of the transport make of the socket s: those that start  *)
(* no request, but may go on with x, and the one that starts x.            *)
(***************************************************************************)
Quiet(s, t, x) ==
    /\ t \in IoTypes
    /\ t.log = s.log
    /\ \A q : Has(t.writes, q) => Has(s.writes, q)
    /\ \A q : Coming(t, q) => Coming(s, q)
    /\ Stream(s) => Stream(t)
    /\ \A c : Has(t.ready, c) => Has(s.ready, c) \/ Bare(c)
    /\ \A q \in Requests : Outstanding(t, q) => Outstanding(s, q) \/ q = x

Starts(s, t, x) ==
    /\ t \in IoTypes
    /\ t.inbox = s.inbox
    /\ \/ t.log = s.log /\ t.serving = s.serving
       \/ /\ t.log = Append(s.log, x)
          /\ t.serving = Append(s.serving, [req |-> x, left |-> ReplyParts])
    /\ \A q : Has(t.writes, q) => Has(s.writes, q) \/ q = x
    /\ \A c : Has(t.ready, c) => Has(s.ready, c) \/ Bare(c)
    /\ \A q \in Requests : Outstanding(t, q) => Outstanding(s, q) \/ q = x

LEMMA OutstandingElements ==
    ASSUME NEW s \in IoTypes, NEW q
    PROVE  Outstanding(s, q) <=>
              \/ Has(s.reads, q)
              \/ Has(s.writes, q)
              \/ \E c \in Completions : Has(s.ready, c) /\ c.req = q /\ c.call # "dequeue"
<1>1. s.ready \in Seq(Completions)
  BY IoFields
<1>2. \A i \in DOMAIN s.ready : s.ready[i] \in Completions
  BY <1>1
<1> QED
  BY <1>2 DEF Outstanding, Has

\* All of Quiet but what is on its way, from what happens to each sequence.
LEMMA CallElements ==
    ASSUME NEW s \in IoTypes, NEW t \in IoTypes, NEW x,
           \A q : Has(t.writes, q) => Has(s.writes, q),
           \A q : Has(t.reads, q) => Has(s.reads, q) \/ q = x,
           \A c \in Completions : Has(t.ready, c) =>
               \/ Has(s.ready, c)
               \/ Bare(c) /\ (c.call # "dequeue" => c.req = x \/ Outstanding(s, c.req))
    PROVE  /\ \A c : Has(t.ready, c) => Has(s.ready, c) \/ Bare(c)
           /\ \A q \in Requests : Outstanding(t, q) => Outstanding(s, q) \/ q = x
<1>1. t.ready \in Seq(Completions)
  BY IoFields
<1>2. \A c : Has(t.ready, c) => c \in Completions
  BY <1>1 DEF Has
<1>4. ASSUME NEW q \in Requests, Outstanding(t, q)
      PROVE  Outstanding(s, q) \/ q = x
  <2>1. CASE Has(t.reads, q)
    BY <2>1, OutstandingElements
  <2>2. CASE Has(t.writes, q)
    BY <2>2, OutstandingElements
  <2>3. ASSUME NEW c \in Completions, Has(t.ready, c), c.req = q, c.call # "dequeue"
        PROVE  Outstanding(s, q) \/ q = x
    BY <2>3, OutstandingElements
  <2> QED
    BY <1>4, <2>1, <2>2, <2>3, OutstandingElements
<1>5. \A c : Has(t.ready, c) => Has(s.ready, c) \/ Bare(c)
  BY <1>2
<1> QED
  BY <1>4, <1>5

\* Whole queues of the connection may be lost, but nothing is added to them.
LEMMA QuietElements ==
    ASSUME NEW s \in IoTypes, NEW t \in IoTypes, NEW x,
           t.log = s.log,
           t.inbox \in {s.inbox, <<>>},
           t.serving \in {s.serving, <<>>},
           \A q : Has(t.writes, q) => Has(s.writes, q),
           \A q : Has(t.reads, q) => Has(s.reads, q) \/ q = x,
           \A c \in Completions : Has(t.ready, c) =>
               \/ Has(s.ready, c)
               \/ Bare(c) /\ (c.call # "dequeue" => c.req = x \/ Outstanding(s, c.req))
    PROVE  Quiet(s, t, x)
<1>1. /\ \A c : Has(t.ready, c) => Has(s.ready, c) \/ Bare(c)
      /\ \A q \in Requests : Outstanding(t, q) => Outstanding(s, q) \/ q = x
  BY CallElements
<1>2. \A q : (Arrived(t, q) => Arrived(s, q)) /\ (Owed(t, q) => Owed(s, q))
  BY DEF Arrived, Owed
<1>3. ASSUME Stream(s)
      PROVE  Stream(t)
  <2>1. \A i, j \in DOMAIN t.serving : i # j => t.serving[i].req # t.serving[j].req
    BY <1>3 DEF Stream
  <2>2. \A i, j \in DOMAIN t.inbox :
           i < j /\ t.inbox[i].last => t.inbox[j].of # t.inbox[i].of
    BY <1>3 DEF Stream
  <2>3. \A i \in DOMAIN t.inbox : t.inbox[i].last => ~Owed(t, t.inbox[i].of)
    BY <1>2, <1>3 DEF Stream
  <2>4. \A q \in Requests : Coming(t, q) => Has(t.log, q)
    BY <1>2, <1>3 DEF Stream, Coming
  <2>5. ASSUME NEW i \in DOMAIN t.ready, t.ready[i].error # "success"
        PROVE  t.ready[i].segment = NoSegment
    <3>1. Has(s.ready, t.ready[i]) \/ Bare(t.ready[i])
      BY <1>1 DEF Has
    <3> QED
      BY <1>3, <2>5, <3>1 DEF Has, Stream, Bare
  <2> QED
    BY <2>1, <2>2, <2>3, <2>4, <2>5 DEF Stream
<1> QED
  BY <1>1, <1>2, <1>3 DEF Quiet, Coming

LEMMA QuietTransitive ==
    ASSUME NEW s, NEW t, NEW u, NEW x, Quiet(s, t, x), Quiet(t, u, x)
    PROVE  Quiet(s, u, x)
BY DEF Quiet

LEMMA QuietStays ==
    ASSUME NEW s \in IoTypes, NEW x
    PROVE  Quiet(s, s, x)
BY DEF Quiet

LEMMA QueuedQuiet ==
    ASSUME NEW s \in IoTypes, NEW c \in Completions, NEW x,
           Bare(c), c.call # "dequeue" => c.req = x
    PROVE  Quiet(s, Queued(s, c), x)
<1>1. PICK t : t = Queued(s, c)
  OBVIOUS
<1>2. t \in IoTypes
  BY <1>1, QueuedType
<1>3. /\ t.log = s.log /\ t.inbox = s.inbox /\ t.serving = s.serving
      /\ t.writes = s.writes /\ t.reads = s.reads /\ t.ready = Append(s.ready, c)
  BY <1>1 DEF Queued, IoTypes
<1>4. s.ready \in Seq(Completions)
  BY IoFields
<1>5. \A d : Has(t.ready, d) => Has(s.ready, d) \/ d = c
  BY <1>3, <1>4, HasAppend
<1>6. \A d \in Completions : Has(t.ready, d) =>
               \/ Has(s.ready, d)
               \/ Bare(d) /\ (d.call # "dequeue" => d.req = x \/ Outstanding(s, d.req))
  BY <1>5
<1> QED
  BY <1>1, <1>2, <1>3, <1>6, QuietElements

LEMMA TakenQuiet ==
    ASSUME NEW s \in IoTypes, NEW i \in DOMAIN s.ready, NEW x
    PROVE  Quiet(s, Taken(s, i), x)
<1>1. PICK t : t = Taken(s, i)
  OBVIOUS
<1>2. t \in IoTypes
  BY <1>1, TakenType
<1>3. /\ t.log = s.log /\ t.inbox = s.inbox /\ t.serving = s.serving
      /\ t.writes = s.writes /\ t.reads = s.reads /\ t.ready = RemoveAt(s.ready, i)
  BY <1>1 DEF Taken, IoTypes
<1>4. s.ready \in Seq(Completions)
  BY IoFields
<1>5. \A c \in Completions : Has(t.ready, c) => Has(s.ready, c)
  BY <1>3, <1>4, HasRemoved
<1> QED
  BY <1>1, <1>2, <1>3, <1>5, QuietElements
LEMMA AsyncReadQuiet ==
    ASSUME NEW s \in IoTypes, NEW r \in Requests
    PROVE  Quiet(s, AsyncRead(s, r), r)
<1>1. PICK c : c = Completion("on_read", r, "failed", NoSegment)
  OBVIOUS
<1>2. c \in Completions /\ c.req = r /\ Bare(c)
  BY <1>1, CompletionType DEF Errors, Completion, Bare
<1>3. Quiet(s, Queued(s, c), r)
  BY <1>2, QueuedQuiet
<1>4. PICK t : t = [s EXCEPT !.reads = Append(@, r)]
  OBVIOUS
<1>5. s.reads \in Seq(Requests) /\ Append(s.reads, r) \in Seq(Requests)
  BY IoFields
<1>6. t \in IoTypes
  BY <1>4, <1>5, NewOperations
<1>7. /\ t.log = s.log /\ t.inbox = s.inbox /\ t.serving = s.serving
      /\ t.writes = s.writes /\ t.ready = s.ready /\ t.reads = Append(s.reads, r)
  BY <1>4 DEF IoTypes
<1>8. \A q : Has(t.reads, q) => Has(s.reads, q) \/ q = r
  BY <1>5, <1>7, HasAppend
<1>9. Quiet(s, t, r)
  BY <1>6, <1>7, <1>8, QuietElements
<1> QED
  BY <1>1, <1>3, <1>4, <1>9 DEF AsyncRead

LEMMA CancelledQuiet ==
    ASSUME NEW s \in IoTypes, NEW x
    PROVE  Quiet(s, Cancelled(s), x)
<1> DEFINE aborted(call, q) ==
            [i \in 1..Len(q) |-> Completion(call, q[i], "aborted", NoSegment)]
<1>1. s.reads \in Seq(Requests) /\ s.writes \in Seq(Requests) /\ s.ready \in Seq(Completions)
  BY IoFields
<1>2. ASSUME NEW call \in {"on_read", "on_write"}, NEW q \in Seq(Requests)
      PROVE  /\ aborted(call, q) \in Seq(Completions)
             /\ \A c : Has(aborted(call, q), c) => Bare(c) /\ Has(q, c.req)
  <2>1. \A i \in 1..Len(q) :
           Completion(call, q[i], "aborted", NoSegment) \in Completions
    BY CompletionType DEF Errors
  <2>2. aborted(call, q) \in Seq(Completions)
    BY <2>1
  <2>3. DOMAIN q = 1..Len(q) /\ DOMAIN aborted(call, q) = 1..Len(q)
    BY LenProperties
  <2>4. ASSUME NEW i \in 1..Len(q)
        PROVE  Bare(aborted(call, q)[i]) /\ aborted(call, q)[i].req = q[i]
    BY DEF Bare, Completion
  <2> QED
    BY <2>2, <2>3, <2>4 DEF Has
<1>3. PICK a, b : a = aborted("on_read", s.reads) /\ b = aborted("on_write", s.writes)
  OBVIOUS
<1>4. /\ a \in Seq(Completions) /\ b \in Seq(Completions)
      /\ \A c : Has(a, c) => Bare(c) /\ Has(s.reads, c.req)
      /\ \A c : Has(b, c) => Bare(c) /\ Has(s.writes, c.req)
  BY <1>1, <1>2, <1>3
<1>5. PICK t : t = Cancelled(s)
  OBVIOUS
<1>6. t \in IoTypes
  BY <1>5, CancelledType
<1>7. /\ t.log = s.log /\ t.inbox = s.inbox /\ t.serving = s.serving
      /\ t.reads = <<>> /\ t.writes = <<>> /\ t.ready = (s.ready \o a) \o b
  BY <1>3, <1>5 DEF Cancelled, IoTypes
<1> HIDE DEF aborted
<1>8. s.ready \o a \in Seq(Completions)
  BY <1>1, <1>4
<1>9. \A c : Has(t.ready, c) => Has(s.ready, c) \/ Has(a, c) \/ Has(b, c)
  <2>1. \A c : Has(s.ready \o a, c) => Has(s.ready, c) \/ Has(a, c)
    BY <1>1, <1>4, HasConcat
  <2>2. \A c : Has((s.ready \o a) \o b, c) => Has(s.ready \o a, c) \/ Has(b, c)
    BY <1>4, <1>8, HasConcat
  <2> QED
    BY <1>7, <2>1, <2>2
<1>10. ASSUME NEW c \in Completions, Has(a, c) \/ Has(b, c)
       PROVE  Bare(c) /\ Outstanding(s, c.req)
  BY <1>4, <1>10, OutstandingElements
<1>11. \A q : ~Has(t.reads, q) /\ ~Has(t.writes, q)
  BY <1>7 DEF Has
<1>12. \A c \in Completions : Has(t.ready, c) =>
               \/ Has(s.ready, c)
               \/ Bare(c) /\ (c.call # "dequeue" => c.req = x \/ Outstanding(s, c.req))
  BY <1>9, <1>10
<1> QED
  BY <1>5, <1>6, <1>7, <1>11, <1>12, QuietElements

LEMMA ClosedQuiet ==
    ASSUME NEW s \in IoTypes, NEW x
    PROVE  Quiet(s, Closed(s), x) /\ Quiet(s, Connected(Closed(s)), x)
<1>1. PICK t : t = Cancelled(s)
  OBVIOUS
<1>2. t \in IoTypes /\ Quiet(s, t, x)
  BY <1>1, CancelledType, CancelledQuiet
<1>3. PICK u : u = Closed(s)
  OBVIOUS
<1>4. u \in IoTypes /\ Connected(u) \in IoTypes
  BY <1>3, ClosedType
<1>5. /\ u.log = t.log /\ u.inbox = <<>> /\ u.serving = <<>>
      /\ u.writes = t.writes /\ u.reads = t.reads /\ u.ready = t.ready
  BY <1>1, <1>2, <1>3 DEF Closed, IoTypes
<1>6. Quiet(t, u, x)
  BY <1>2, <1>4, <1>5, QuietElements
<1>7. PICK v : v = Connected(u)
  OBVIOUS
<1>8. /\ v.log = u.log /\ v.inbox = u.inbox /\ v.serving = u.serving
      /\ v.writes = u.writes /\ v.reads = u.reads /\ v.ready = u.ready
  BY <1>4, <1>7 DEF Connected, IoTypes
<1>9. Quiet(u, v, x)
  BY <1>4, <1>7, <1>8, QuietElements
<1> QED
  BY <1>2, <1>3, <1>6, <1>7, <1>9, QuietTransitive

\* As QuietElements, for the start of x.
LEMMA StartsElements ==
    ASSUME NEW s \in IoTypes, NEW t \in IoTypes, NEW x \in Requests, NEW c \in Completions,
           t.reads = s.reads, c.req = x, Bare(c),
           t.ready \in {s.ready, Append(s.ready, c)},
           t.writes \in {s.writes, Append(s.writes, x)}
    PROVE  /\ \A q : Has(t.writes, q) => Has(s.writes, q) \/ q = x
           /\ \A d : Has(t.ready, d) => Has(s.ready, d) \/ Bare(d)
           /\ \A q \in Requests : Outstanding(t, q) => Outstanding(s, q) \/ q = x
<1>1. s.ready \in Seq(Completions) /\ s.writes \in Seq(Requests)
  BY IoFields
<1>2. \A d : Has(t.ready, d) => Has(s.ready, d) \/ d = c
  <2>1. \A d : Has(Append(s.ready, c), d) => Has(s.ready, d) \/ d = c
    BY <1>1, HasAppend
  <2> QED
    BY <2>1
<1>3. \A q : Has(t.writes, q) => Has(s.writes, q) \/ q = x
  <2>1. \A q : Has(Append(s.writes, x), q) => Has(s.writes, q) \/ q = x
    BY <1>1, HasAppend
  <2> QED
    BY <2>1
<1>4. ASSUME NEW q \in Requests, Outstanding(t, q)
      PROVE  Outstanding(s, q) \/ q = x
  <2>1. CASE Has(t.reads, q)
    BY <2>1, OutstandingElements
  <2>2. CASE Has(t.writes, q)
    BY <1>3, <2>2, OutstandingElements
  <2>3. ASSUME NEW d \in Completions, Has(t.ready, d), d.req = q, d.call # "dequeue"
        PROVE  Outstanding(s, q) \/ q = x
    BY <1>2, <2>3, OutstandingElements
  <2> QED
    BY <1>4, <2>1, <2>2, <2>3, OutstandingElements
<1> QED
  BY <1>2, <1>3, <1>4

LEMMA TransmittedStarts ==
    ASSUME NEW s \in IoTypes, NEW x \in Requests
    PROVE  Starts(s, Transmitted(s, x), x)
<1>1. PICK c : c = Completion("on_write", x, "success", NoSegment)
  OBVIOUS
<1>2. c \in Completions /\ c.req = x /\ Bare(c)
  BY <1>1, CompletionType DEF Errors, Completion, Bare
<1>3. PICK t : t = Transmitted(s, x)
  OBVIOUS
<1>4. t \in IoTypes
  BY <1>3, TransmittedType
<1>5. /\ t.log = Append(s.log, x) /\ t.inbox = s.inbox
      /\ t.serving = Append(s.serving, [req |-> x, left |-> ReplyParts])
      /\ t.writes = s.writes /\ t.reads = s.reads /\ t.ready = Append(s.ready, c)
  BY <1>1, <1>3 DEF Transmitted, IoTypes
<1> QED
  BY <1>2, <1>3, <1>4, <1>5, StartsElements DEF Starts

LEMMA AsyncWriteStarts ==
    ASSUME NEW s \in IoTypes, NEW x \in Requests
    PROVE  Starts(s, AsyncWrite(s, x), x)
<1>1. PICK t : t = AsyncWrite(s, x)
  OBVIOUS
<1>2. t \in IoTypes
  BY <1>1, AsyncWriteType
<1>3. CASE ~s.open
  <2>1. PICK c : c = Completion("on_write", x, "failed", NoSegment)
    OBVIOUS
  <2>2. c \in Completions /\ c.req = x /\ Bare(c)
    BY <2>1, CompletionType DEF Errors, Completion, Bare
  <2>3. t = Queued(s, c)
    BY <1>1, <1>3, <2>1 DEF AsyncWrite
  <2>4. /\ t.log = s.log /\ t.inbox = s.inbox /\ t.serving = s.serving
        /\ t.writes = s.writes /\ t.reads = s.reads /\ t.ready = Append(s.ready, c)
    BY <2>3 DEF Queued, IoTypes
  <2> QED
    BY <1>1, <1>2, <2>2, <2>4, StartsElements DEF Starts
<1>4. CASE s.open /\ s.up /\ EagerWrites /\ s.writes = <<>>
  BY <1>1, <1>4, TransmittedStarts DEF AsyncWrite
<1>5. CASE s.open /\ ~(s.up /\ EagerWrites /\ s.writes = <<>>)
  <2>1. t = [s EXCEPT !.writes = Append(@, x)]
    BY <1>1, <1>5 DEF AsyncWrite
  <2>2. /\ t.log = s.log /\ t.inbox = s.inbox /\ t.serving = s.serving
        /\ t.writes = Append(s.writes, x) /\ t.reads = s.reads /\ t.ready = s.ready
    BY <2>1 DEF IoTypes
  <2>3. PICK c \in Completions : c.req = x /\ Bare(c)
    <3>1. PICK c : c = Completion("on_write", x, "failed", NoSegment)
      OBVIOUS
    <3> QED
      BY <3>1, CompletionType DEF Errors, Completion, Bare
  <2> QED
    BY <1>1, <1>2, <2>2, <2>3, StartsElements DEF Starts
<1> QED
  BY <1>3, <1>4, <1>5
\* What starts x adds its reply at the end of what is on its way.
LEMMA StartsStream ==
    ASSUME NEW s \in IoTypes, NEW t, NEW x \in Requests,
           Starts(s, t, x), Stream(s), ~Has(s.log, x)
    PROVE  /\ Stream(t)
           /\ \A q : Coming(t, q) => Coming(s, q) \/ q = x
           /\ \A q : Has(s.log, q) => Has(t.log, q)
           /\ \A q : Has(t.log, q) => Has(s.log, q) \/ q = x
<1>1. /\ s.serving \in Seq([req : Requests, left : 1..ReplyParts])
      /\ s.log \in Seq(Requests)
  BY IoFields DEF Serving
<1>2. ASSUME NEW c \in DOMAIN t.ready, t.ready[c].error # "success"
      PROVE  t.ready[c].segment = NoSegment
  <2>1. Has(s.ready, t.ready[c]) \/ Bare(t.ready[c])
    BY DEF Has, Starts
  <2> QED
    BY <1>2, <2>1 DEF Has, Stream, Bare
<1>3. CASE t.log = s.log /\ t.serving = s.serving
  BY <1>2, <1>3 DEF Starts, Stream, Coming, Arrived, Owed
<1>4. CASE /\ t.log = Append(s.log, x)
           /\ t.serving = Append(s.serving, [req |-> x, left |-> ReplyParts])
  <2>1. [req |-> x, left |-> ReplyParts] \in [req : Requests, left : 1..ReplyParts]
    BY SocketAssumption
  <2>2. PICK v : v = Append(s.serving, [req |-> x, left |-> ReplyParts])
    OBVIOUS
  <2>3. /\ Len(s.serving) \in Nat /\ DOMAIN s.serving = 1..Len(s.serving)
        /\ DOMAIN v = 1..(Len(s.serving) + 1)
        /\ \A i \in 1..Len(s.serving) : v[i] = s.serving[i]
        /\ v[Len(s.serving) + 1].req = x
    BY <1>1, <2>1, <2>2, AppendProperties, LenProperties
  <2>4. \A i \in DOMAIN v : (i \in DOMAIN s.serving /\ v[i] = s.serving[i]) \/ i = Len(s.serving) + 1
    BY <2>3
  <2>5. \A q : Owed(t, q) => Owed(s, q) \/ q = x
    BY <1>4, <2>2, <2>3, <2>4 DEF Owed
  <2>6. /\ \A q : Has(t.log, q) <=> Has(s.log, q) \/ q = x
    BY <1>1, <1>4, HasAppend
  <2>7. t.inbox = s.inbox
    BY DEF Starts
  <2>8. ~Coming(s, x)
    BY DEF Stream
  <2>9. \A i, j \in DOMAIN v : i # j => v[i].req # v[j].req
    BY <2>3, <2>4, <2>8 DEF Stream, Coming, Owed
  <2>10. \A i \in DOMAIN t.inbox : t.inbox[i].last => ~Owed(t, t.inbox[i].of)
    BY <2>5, <2>7, <2>8 DEF Stream, Coming, Arrived
  <2>11. \A q : Coming(t, q) => Coming(s, q) \/ q = x
    BY <2>5, <2>7 DEF Coming, Arrived
  <2>12. Stream(t)
    BY <1>2, <1>4, <2>2, <2>6, <2>7, <2>9, <2>10, <2>11 DEF Stream
  <2> QED
    BY <2>6, <2>11, <2>12
<1> QED
  BY <1>3, <1>4 DEF Starts

-----------------------------------------------------------------------------
(***************************************************************************)
(* Who has been started: x has been accepted, before all that are in the   *)
(* queue and not after the active request.  So it is for every request     *)
(* that the node has received or the socket has an operation of.           *)
(***************************************************************************)
Started(a, queue, act, x) ==
    /\ a[x] > 0
    /\ \A i \in DOMAIN queue : a[x] < a[queue[i]]
    /\ act \notin {None, x} => a[x] < a[act]

Operations(s, queue, act, a) ==
    /\ act # None => Started(a, queue, act, act)
    /\ \A x \in Requests :
          Has(s.log, x) \/ Outstanding(s, x) => Started(a, queue, act, x)

\* Losing operations, requests of the queue, or the active request.
LEMMA OperationsQuiet ==
    ASSUME NEW s, NEW t, NEW act \in Requests \cup {None}, NEW new \in {act, None},
           NEW p, NEW q, NEW a, Operations(s, p, act, a), Quiet(s, t, act),
           \A y : Has(q, y) => Has(p, y)
    PROVE  Operations(t, q, new, a)
<1>1. ASSUME NEW x, Started(a, p, act, x)
      PROVE  Started(a, q, new, x)
  BY <1>1 DEF Started, Has
<1>2. ASSUME NEW x \in Requests, Has(t.log, x) \/ Outstanding(t, x)
      PROVE  Started(a, q, new, x)
  <2>1. Has(s.log, x) \/ Outstanding(s, x) \/ x = act
    BY <1>2 DEF Quiet
  <2>2. Started(a, p, act, x)
    BY <2>1, SocketAssumption DEF Operations
  <2> QED
    BY <1>1, <2>2
<1>3. ASSUME new # None
      PROVE  Started(a, q, new, new)
  BY <1>1, <1>3 DEF Operations
<1> QED
  BY <1>2, <1>3 DEF Operations

\* A request arrives.
LEMMA OperationsArrive ==
    ASSUME NEW s, NEW p \in Seq(Requests), NEW act \in Requests \cup {None},
           NEW a \in Arrivals, NEW n \in Nat, NEW r \in Requests, a[r] = 0,
           \A x \in Requests : a[x] <= n,
           Operations(s, p, act, a)
    PROVE  Operations(s, Append(p, r), act, [a EXCEPT ![r] = n + 1])
<1>1. PICK b : b = [a EXCEPT ![r] = n + 1]
  OBVIOUS
<1>2. /\ b[r] = n + 1
      /\ \A x \in Requests : a[x] > 0 => b[x] = a[x] /\ b[x] < n + 1
  BY <1>1 DEF Arrivals
<1>3. PICK q : q = Append(p, r)
  OBVIOUS
<1>4. /\ q \in Seq(Requests)
      /\ \A i \in DOMAIN q : (i \in DOMAIN p /\ q[i] = p[i]) \/ q[i] = r
  <2>1. /\ Len(p) \in Nat /\ DOMAIN p = 1..Len(p)
        /\ q \in Seq(Requests) /\ DOMAIN q = 1..(Len(p) + 1)
        /\ \A i \in 1..Len(p) : q[i] = p[i]
        /\ q[Len(p) + 1] = r
    BY <1>3, AppendProperties, LenProperties
  <2> QED
    BY <2>1
<1>5. ASSUME NEW x \in Requests, Started(a, p, act, x)
      PROVE  Started(b, q, act, x)
  <2>1. b[x] = a[x] /\ b[x] > 0 /\ b[x] < n + 1 /\ a[x] \in Nat
    BY <1>2, <1>5 DEF Started, Arrivals
  <2>2. ASSUME NEW i \in DOMAIN p
        PROVE  b[x] < b[p[i]]
    <3>1. p[i] \in Requests /\ a[p[i]] \in Nat /\ a[x] < a[p[i]]
      BY <1>5 DEF Started, Arrivals
    <3> QED
      BY <1>2, <2>1, <3>1
  <2>3. \A i \in DOMAIN q : b[x] < b[q[i]]
    BY <1>2, <1>4, <2>1, <2>2
  <2>4. ASSUME act \notin {None, x}
        PROVE  b[x] < b[act]
    <3>1. act \in Requests /\ a[act] \in Nat /\ a[x] < a[act]
      BY <1>5, <2>4 DEF Started, Arrivals
    <3> QED
      BY <1>2, <2>1, <3>1
  <2> QED
    BY <2>1, <2>3, <2>4 DEF Started
<1>6. ASSUME act # None
      PROVE  Started(b, q, act, act)
  BY <1>5, <1>6 DEF Operations
<1> QED
  BY <1>1, <1>3, <1>5, <1>6 DEF Operations

\* The oldest pending request has neither been received nor is it under way.
LEMMA Fresh ==
    ASSUME NEW s, NEW p \in Seq(Requests), NEW act, NEW a \in Arrivals,
           Operations(s, p, act, a), NEW i \in DOMAIN p
    PROVE  ~Has(s.log, p[i]) /\ ~Outstanding(s, p[i]) /\ (act # None => p[i] # act)
<1>1. p[i] \in Requests /\ a[p[i]] \in Nat
  BY DEF Arrivals
<1>2. ASSUME NEW act1, Started(a, p, act1, p[i]) PROVE FALSE
  BY <1>1, <1>2 DEF Started
<1> QED
  BY <1>1, <1>2 DEF Operations

LEMMA OperationsStart ==
    ASSUME NEW s \in IoTypes, NEW t, NEW p \in Seq(Requests), p # <<>>,
           NEW act, NEW a \in Arrivals,
           Numbered(a, p), Increasing(a, p),
           Operations(s, p, act, a), Starts(s, t, Head(p))
    PROVE  Operations(t, Tail(p), Head(p), a)
<1>1. /\ Head(p) \in Requests /\ 1 \in DOMAIN p /\ Head(p) = p[1]
      /\ a[Head(p)] > 0
      /\ \A i \in DOMAIN Tail(p) : a[Head(p)] < a[Tail(p)[i]]
      /\ Tail(p) \in Seq(Requests)
  BY HeadTailProperties, LenProperties, EmptySeq, TailOrder DEF Numbered
<1>2. \A y : Has(Tail(p), y) => Has(p, y)
  BY HasTail
<1>3. Started(a, Tail(p), Head(p), Head(p))
  BY <1>1 DEF Started
<1>4. ASSUME NEW x \in Requests, Started(a, p, act, x)
      PROVE  Started(a, Tail(p), Head(p), x)
  BY <1>1, <1>2, <1>4 DEF Started, Has
<1>5. ASSUME NEW x \in Requests, Has(t.log, x) \/ Outstanding(t, x)
      PROVE  Has(s.log, x) \/ Outstanding(s, x) \/ x = Head(p)
  <2>1. s.log \in Seq(Requests)
    BY IoFields
  <2>2. Has(Append(s.log, Head(p)), x) => Has(s.log, x) \/ x = Head(p)
    BY <1>1, <2>1, HasAppend
  <2> QED
    BY <1>5, <2>2 DEF Starts
<1> QED
  BY <1>3, <1>4, <1>5 DEF Operations
-----------------------------------------------------------------------------
(***************************************************************************)
(* Whose reply reaches whom: the handler of r is called, or is going to be *)
(* called, with a segment of the reply to q.                               *)
(***************************************************************************)
Tells(h, f, r, how, q) ==
    \/ Has(h[r], [how |-> how, of |-> q])
    \/ \E t \in Threads : f[t] = Calling(r, [how |-> how, of |-> q])

Comes(s, act, r, how, q) ==
    /\ r = act
    /\ \E c \in Completions :
          /\ Has(s.ready, c)
          /\ c.call = "on_read" /\ c.req = r /\ c.error = "success"
          /\ NewsOf(c) = [how |-> how, of |-> q]

Hears(r, how, q) == Tells(heard, frame, r, how, q) \/ Comes(io, active, r, how, q)

Lost == {q \in Requests : Deprived(q)}

\* What is on its way to the node or back of a request that is not active was asked
\* for by one that is deprived of the connection.
Stray ==
    \A q \in Requests :
        q # active /\ (Coming(io, q) \/ Has(io.writes, q)) => q \in Lost

Foreign ==
    \A r, q \in Requests : \A how \in Tidings :
        r # q =>
          /\ Hears(r, how, q) =>
                /\ arrival[q] < arrival[r]
                /\ q \in Lost
                /\ ~Hears(q, "complete", q)
                /\ Has(io.log, q)
          /\ Tells(heard, frame, r, how, q) => q # active

\* Nothing more comes of a reply whose end was read.
Complete ==
    \A q \in Requests :
        Hears(q, "complete", q) => Has(io.log, q) /\ ~Coming(io, q)

Replies ==
    /\ Operations(io, pending, active, arrival)
    /\ Stream(io)
    /\ Stray
    /\ Foreign
    /\ Complete

-----------------------------------------------------------------------------
(***************************************************************************)
(* What the threads do: nobody gets the connection back, and nobody is     *)
(* called with anything but what was read for the active request, or with  *)
(* a part of a reply in place of its end, which the handler's buffer kept. *)
(***************************************************************************)
NothingNew ==
    \A r, q \in Requests : \A how \in Tidings :
        Tells(heard', frame', r, how, q) =>
            \/ Hears(r, how, q)
            \/ how = "partial" /\ Tells(heard, frame, r, "complete", q)

LEMMA StaysLost ==
    ASSUME TypeOK, displaced \subseteq displaced', failures' \in {failures, failures + 1}
    PROVE  Lost \subseteq Lost'
BY DEF TypeOK, Lost, Deprived

LEMMA FrameSame ==
    ASSUME TypeOK, UNCHANGED <<frame, heard>>, displaced \subseteq displaced',
           failures' \in {failures, failures + 1}
    PROVE  Lost \subseteq Lost' /\ NothingNew
<1>1. NothingNew
  BY DEF NothingNew, Hears
<1> QED
  BY <1>1, StaysLost

LEMMA FrameChanges ==
    ASSUME TypeOK, NEW t, NEW f, frame' = [frame EXCEPT ![t] = f], UNCHANGED heard,
           displaced \subseteq displaced', failures' \in {failures, failures + 1},
           \A r, q \in Requests : \A how \in Tidings :
               f = Calling(r, [how |-> how, of |-> q]) => Hears(r, how, q)
    PROVE  Lost \subseteq Lost' /\ NothingNew
<1>1. ASSUME NEW u \in Threads
      PROVE  frame'[u] = IF u = t THEN f ELSE frame[u]
  BY DEF TypeOK
<1>2. ASSUME NEW r \in Requests, NEW q \in Requests, NEW how \in Tidings,
             Tells(heard', frame', r, how, q)
      PROVE  Hears(r, how, q)
  <2>1. CASE Has(heard'[r], [how |-> how, of |-> q])
    BY <2>1 DEF Hears, Tells
  <2>2. ASSUME NEW u \in Threads, frame'[u] = Calling(r, [how |-> how, of |-> q])
        PROVE  Hears(r, how, q)
    BY <1>1, <2>2 DEF Hears, Tells
  <2> QED
    BY <1>2, <2>1, <2>2 DEF Tells
<1> QED
  BY <1>2, StaysLost DEF NothingNew

LEMMA EntersHandler ==
    ASSUME TypeOK, NEW t \in Threads, EnterHandler(t)
    PROVE  Lost \subseteq Lost' /\ NothingNew
<1>1. PICK x, news, f : EntersAs(t, x, news, f)
  BY EnterHandlerAs DEF TypeOK
<1>2. frame[t] \in Frames /\ frame[t].at = "calling"
  BY DEF TypeOK, EnterHandler
<1>3. /\ x \in Requests /\ news \in News
      /\ news.how = frame[t].how \/ (frame[t].how = "complete" /\ news.how = "partial")
  BY <1>1 DEF EntersAs
<1>4. frame[t] = Calling(x, [how |-> frame[t].how, of |-> news.of])
  BY <1>1, <1>2 DEF EntersAs, Frames, Calling, Idle
<1>5. \A u \in Threads : frame'[u] = IF u = t THEN f ELSE frame[u]
  BY <1>1 DEF EntersAs, TypeOK
<1>6. ASSUME NEW r \in Requests
      PROVE  heard'[r] = IF r = x THEN Append(heard[r], news) ELSE heard[r]
  BY <1>1 DEF TypeOK, EntersAs
<1>8. Lost \subseteq Lost'
  BY StaysLost DEF EnterHandler, history
<1>9. ASSUME NEW r \in Requests, NEW q \in Requests, NEW how \in Tidings,
             Tells(heard', frame', r, how, q)
      PROVE  \/ Hears(r, how, q)
             \/ how = "partial" /\ Tells(heard, frame, r, "complete", q)
  <2>1. PICK n : n = [how |-> how, of |-> q]
    OBVIOUS
  <2>2. CASE Has(heard'[r], n)
    <3>1. heard[r] \in Seq(News)
      BY DEF TypeOK
    <3>2. Has(Append(heard[r], news), n) => Has(heard[r], n) \/ n = news
      BY <1>3, <3>1, HasAppend
    <3>3. CASE Has(heard[r], n)
      BY <2>1, <3>3 DEF Hears, Tells
    <3>4. CASE r = x /\ n = news
      <4>1. news.how = how /\ news.of = q
        BY <2>1, <3>4
      <4>2. frame[t] = Calling(r, [how |-> frame[t].how, of |-> q])
        BY <1>4, <3>4, <4>1
      <4>3. Tells(heard, frame, r, frame[t].how, q)
        BY <4>2 DEF Tells
      <4> QED
        BY <1>3, <4>1, <4>3 DEF Hears
    <3> QED
      BY <1>6, <2>2, <3>2, <3>3, <3>4
  <2>3. ASSUME NEW u \in Threads, frame'[u] = Calling(r, n)
        PROVE  Hears(r, how, q)
    <3>1. frame'[u].at # "handler"
      BY <2>3 DEF Calling
    <3>2. frame[u] = Calling(r, n)
      BY <1>1, <1>5, <2>3, <3>1 DEF EntersAs
    <3> QED
      BY <2>1, <3>2 DEF Hears, Tells
  <2> QED
    BY <1>9, <2>1, <2>2, <2>3 DEF Tells
<1> QED
  BY <1>8, <1>9 DEF NothingNew
\* What a completion of the active request makes its handler be called with.
LEMMA CompletionTells ==
    ASSUME TypeOK, Stream(io), NEW w \in Workers, NEW i \in DOMAIN io.ready,
           OnWrite(w, i) \/ OnRead(w, i)
    PROVE  Lost \subseteq Lost' /\ NothingNew
<1> DEFINE c == io.ready[i]
<1>1. c \in Completions /\ Has(io.ready, c)
  BY IoFields DEF TypeOK, Has
<1>2. /\ UNCHANGED <<heard, displaced>>
      /\ failures' \in {failures, failures + 1}
  BY DEF OnWrite, OnRead, history, CanRun, Superseded, HandleSocketError, Reconnects,
         ReconnectThrows
<1>3. CASE UNCHANGED frame
  BY <1>2, <1>3, FrameSame
<1>4. CASE /\ frame' = [frame EXCEPT ![w] = Calling(c.req, NewsOf(c))]
           /\ c.error = "failed" \/ (c.error = "success" /\ c.call = "on_read" /\ c.req = active)
  <2>1. PICK f, news : f = Calling(c.req, NewsOf(c)) /\ news = NewsOf(c)
    OBVIOUS
  <2>2. ASSUME NEW r \in Requests, NEW q \in Requests, NEW how \in Tidings,
               f = Calling(r, [how |-> how, of |-> q])
        PROVE  Hears(r, how, q)
    <3>1. news \in News
      BY <1>1, <2>1, NewsType
    <3>2. r = c.req /\ news = [how |-> how, of |-> q]
      BY <2>1, <2>2, <3>1 DEF Calling, News
    <3>3. CASE c.error = "failed"
      <4>1. c.segment = NoSegment
        BY <3>3 DEF Stream
      <4>2. q = None
        BY <2>1, <3>2, <4>1 DEF NewsOf, NoSegment
      <4> QED
        BY <4>2, SocketAssumption
    <3>4. CASE c.error = "success" /\ c.call = "on_read" /\ c.req = active
      BY <1>1, <2>1, <3>2, <3>4 DEF Hears, Comes
    <3> QED
      BY <1>4, <3>3, <3>4
  <2>3. frame' = [frame EXCEPT ![w] = f]
    BY <1>4, <2>1
  <2> QED
    BY <1>2, <2>2, <2>3, FrameChanges
<1> QED
  BY <1>3, <1>4 DEF OnWrite, OnRead, Superseded, HandleSocketError

LEMMA UserTells ==
    ASSUME TypeOK, NEW t \in Threads, UserStep(t)
    PROVE  Lost \subseteq Lost' /\ NothingNew
<1>1. frame[t] \in Frames
  BY DEF TypeOK
<1>2. ASSUME NEW f, f.at # "calling"
      PROVE  \A r, q \in Requests : \A how \in Tidings :
                f = Calling(r, [how |-> how, of |-> q]) => Hears(r, how, q)
  BY <1>2 DEF Calling
<1>3. Idle.at # "calling"
  BY DEF Idle
<1>4. CASE EnterHandler(t)
  BY <1>4, EntersHandler
<1>5. CASE HandlerReturns(t)
  <2>1. PICK f : f = Idle /\ frame' = [frame EXCEPT ![t] = f]
    BY <1>5 DEF HandlerReturns
  <2>2. UNCHANGED <<heard, displaced, failures>>
    BY <1>5 DEF HandlerReturns, history
  <2> QED
    BY <1>2, <1>3, <2>1, <2>2, FrameChanges
<1>6. CASE HandlerTerminates(t)
  <2>1. PICK f : f.at # "calling" /\ frame' = [frame EXCEPT ![t] = f]
    <3>1. PICK f : /\ f = Exercising(frame[t].req,
                                IF frame[t].how = "complete" THEN "clean" ELSE "dirty")
                   /\ frame' = [frame EXCEPT ![t] = f]
      BY <1>6 DEF HandlerTerminates, TypeOK
    <3>2. f.at # "calling"
      BY <3>1 DEF Exercising
    <3> QED
      BY <3>1, <3>2
  <2>2. UNCHANGED <<heard, displaced, failures>>
    BY <1>6 DEF HandlerTerminates, history
  <2> QED
    BY <1>2, <2>1, <2>2, FrameChanges
<1>7. ASSUME NEW at \in {"advance", "cancel"}, frame[t].at # "idle",
             frame' = [frame EXCEPT ![t].at = at],
             UNCHANGED <<heard, failures>>, displaced \subseteq displaced'
      PROVE  Lost \subseteq Lost' /\ NothingNew
  <2>1. PICK f : f = [frame[t] EXCEPT !.at = at]
    OBVIOUS
  <2>2. f.at = at /\ f.req = frame[t].req
    BY <1>1, <2>1 DEF Frames, Idle
  <2>3. frame' = [frame EXCEPT ![t] = f]
    BY <1>7, <2>1
  <2>4. f.at # "calling"
    BY <2>2
  <2> QED
    BY <1>2, <1>7, <2>3, <2>4, FrameChanges
<1>8. CASE ExerciseActive(t)
  <2>1. frame[t].at # "idle"
    BY <1>8 DEF ExerciseActive, ReadsPool
  <2>2. PICK at \in {"advance", "cancel"} : frame' = [frame EXCEPT ![t].at = at]
    BY <1>8 DEF ExerciseActive
  <2>3. UNCHANGED <<heard, displaced, failures>>
    BY <1>8 DEF ExerciseActive, history
  <2> QED
    BY <1>7, <2>1, <2>2, <2>3
<1>9. CASE ExerciseAdvances(t)
  <2>1. frame[t].at # "idle"
    BY <1>9 DEF ExerciseAdvances
  <2>2. frame' = [frame EXCEPT ![t].at = "cancel"]
    BY <1>9 DEF ExerciseAdvances
  <2>3. UNCHANGED <<heard, failures>> /\ displaced \subseteq displaced'
    BY <1>9 DEF ExerciseAdvances
  <2> QED
    BY <1>7, <2>1, <2>2, <2>3
<1>10. CASE ExerciseQueued(t) \/ (ExerciseCancels(t) /\ io.open)
  <2>1. PICK f : f = Idle /\ frame' = [frame EXCEPT ![t] = f]
    BY <1>10 DEF ExerciseQueued, ExerciseCancels
  <2>2. UNCHANGED <<heard, displaced, failures>>
    BY <1>10 DEF ExerciseQueued, ExerciseCancels, history
  <2> QED
    BY <1>2, <1>3, <2>1, <2>2, FrameChanges
<1>11. CASE ExerciseFaults(t) \/ (ExerciseCancels(t) /\ ~io.open)
  BY <1>11, FrameSame DEF ExerciseFaults, ExerciseCancels, history
<1> QED
  BY <1>4, <1>5, <1>6, <1>8, <1>9, <1>10, <1>11 DEF UserStep

LEMMA StepTells ==
    ASSUME TypeOK, Stream(io), [Next]_vars
    PROVE  Lost \subseteq Lost' /\ NothingNew
<1>1. CASE UNCHANGED <<frame, heard, displaced, failures>>
  BY <1>1, FrameSame
<1>2. ASSUME NEW w \in Workers, RunsHandler(w)
      PROVE  Lost \subseteq Lost' /\ NothingNew
  BY <1>1, <1>2, CompletionTells
     DEF RunsHandler, DequeueThreadSafely, RunsOnFreedPool, history
<1>3. ASSUME NEW t \in Threads, UserStep(t)
      PROVE  Lost \subseteq Lost' /\ NothingNew
  BY <1>3, UserTells
<1>4. ASSUME NEW t \in Threads, NEW r \in Requests, Abandon(t, r)
      PROVE  Lost \subseteq Lost' /\ NothingNew
  <2>1. PICK how : frame' = [frame EXCEPT ![t] = Exercising(r, how)]
    BY <1>4 DEF Abandon
  <2>2. PICK f : f = Exercising(r, how) /\ frame' = [frame EXCEPT ![t] = f]
    BY <2>1
  <2>3. UNCHANGED <<heard, displaced, failures>>
    BY <1>4 DEF Abandon, history
  <2>4. \A x, q \in Requests : \A h \in Tidings : f # Calling(x, [how |-> h, of |-> q])
    BY <2>2 DEF Exercising, Calling
  <2> QED
    BY <2>2, <2>3, <2>4, FrameChanges
<1>5. CASE TellPending
  <2>1. PICK f : f = Calling(Head(untold), Reset) /\ frame' = [frame EXCEPT ![Destroyer] = f]
    BY <1>5 DEF TellPending
  <2>2. UNCHANGED <<heard, displaced, failures>>
    BY <1>5 DEF TellPending, history
  <2>3. f.of = None
    BY <2>1 DEF Calling, Reset
  <2>4. \A x, q \in Requests : \A h \in Tidings : f # Calling(x, [how |-> h, of |-> q])
    BY <2>3, SocketAssumption DEF Calling
  <2> QED
    BY <2>1, <2>2, <2>4, FrameChanges
<1>6. CASE \/ Outside(WriteCompletes) \/ Outside(WriteGoesNowhere)
           \/ Outside(ReadCompletes) \/ Outside(ReadFails)
           \/ Outside(NodeReplies) \/ Outside(PeerResets)
  BY <1>1, <1>6 DEF Outside, Rest, history
<1>7. ASSUME NEW t \in Threads, NEW r \in Requests, Deliver(t, r)
      PROVE  Lost \subseteq Lost' /\ NothingNew
  BY <1>1, <1>7 DEF Deliver
<1>8. CASE Destroy \/ AwaitDequeued \/ Drained \/ WakesSpuriously
  BY <1>1, <1>8 DEF Destroy, AwaitDequeued, Drained, WakesSpuriously, history
<1>9. CASE UNCHANGED vars
  BY <1>1, <1>9 DEF vars, history
<1> QED
  BY <1>2, <1>3, <1>4, <1>5, <1>6, <1>7, <1>8, <1>9 DEF Next, Application, DestructorStep
-----------------------------------------------------------------------------
(***************************************************************************)
(* What the steps leave of Foreign and Complete, when no segment is read.  *)
(***************************************************************************)
ArrivalsStay == \A x \in Requests : arrival[x] > 0 => arrival'[x] = arrival[x]

LEMMA NothingRead ==
    ASSUME Replies, NothingNew, Lost \subseteq Lost', ArrivalsStay, TypeOK,
           \A r, q \in Requests : \A how \in Tidings :
               Comes(io', active', r, how, q) => Comes(io, active, r, how, q),
           \A x \in Requests : Has(io.log, x) => Has(io'.log, x),
           \A x \in Requests : Has(io.log, x) /\ Coming(io', x) => Coming(io, x),
           active' \in {active, None} \/ ~Has(io.log, active')
    PROVE  Foreign' /\ Complete'
<1>1. \A r, q \in Requests : \A how \in Tidings :
          Hears(r, how, q)' =>
              \/ Hears(r, how, q)
              \/ how = "partial" /\ Tells(heard, frame, r, "complete", q)
  BY DEF Hears, NothingNew
<1>2. \A x \in Requests : Has(io.log, x) => arrival[x] > 0
  BY DEF Replies, Operations, Started
<1>3. "complete" \in Tidings
  BY DEF Tidings
<1>4. ASSUME NEW r \in Requests, NEW q \in Requests, NEW how \in Tidings,
             r # q, Hears(r, how, q)'
      PROVE  /\ arrival'[q] < arrival'[r]
             /\ q \in Lost'
             /\ ~Hears(q, "complete", q)'
             /\ Has(io'.log, q)
             /\ Tells(heard', frame', r, how, q) => q # active'
  <2>0. PICK as \in Tidings :
            /\ Hears(r, as, q)
            /\ Tells(heard', frame', r, how, q) =>
                  Tells(heard, frame, r, as, q) \/ Comes(io, active, r, as, q)
    BY <1>1, <1>3, <1>4 DEF Hears
  <2>1. /\ arrival[q] < arrival[r] /\ q \in Lost /\ ~Hears(q, "complete", q)
        /\ Has(io.log, q)
    BY <1>4, <2>0 DEF Replies, Foreign
  <2>2. arrival[q] > 0 /\ arrival[r] \in Nat /\ arrival[q] \in Nat
    BY <1>2, <2>1 DEF TypeOK
  <2>3. arrival'[q] < arrival'[r]
    BY <2>1, <2>2 DEF ArrivalsStay
  <2>4. ~Hears(q, "complete", q)'
    BY <1>1, <1>3, <2>1
  <2>5. q # active
    BY <1>4, <2>0 DEF Replies, Foreign, Hears, Comes
  <2>6. q # active'
    BY <2>1, <2>5, SocketAssumption
  <2> QED
    BY <2>1, <2>3, <2>4, <2>6
<1>5. Foreign'
  BY <1>4 DEF Foreign, Hears
<1>6. Complete'
  BY <1>1, <1>3 DEF Complete, Replies
<1> QED
  BY <1>5, <1>6

\* A handler of the active request to be run with a segment was there before.
LEMMA SegmentsStay ==
    ASSUME NEW s \in IoTypes, NEW t, NEW act, NEW new,
           \A c : Has(t.ready, c) => Has(s.ready, c) \/ Bare(c),
           new \in {act, None} \/ ~Outstanding(s, new)
    PROVE  \A r, q \in Requests : \A how \in Tidings :
               Comes(t, new, r, how, q) => Comes(s, act, r, how, q)
<1> SUFFICES ASSUME NEW r \in Requests, NEW q \in Requests, NEW how \in Tidings,
                    Comes(t, new, r, how, q)
             PROVE  Comes(s, act, r, how, q)
  OBVIOUS
<1>1. PICK c \in Completions : /\ Has(t.ready, c)
                               /\ c.call = "on_read" /\ c.req = r /\ c.error = "success"
                               /\ NewsOf(c) = [how |-> how, of |-> q]
  BY DEF Comes
<1>2. Has(s.ready, c)
  BY <1>1 DEF Bare
<1>3. Outstanding(s, r)
  BY <1>1, <1>2, OutstandingElements
<1>4. r = act
  BY <1>3, SocketAssumption DEF Comes
<1> QED
  BY <1>1, <1>2, <1>4 DEF Comes

(***************************************************************************)
(* A step of the transport: it leaves the socket as s, and the connection  *)
(* with who had it; or it takes the connection from it, and may give it to *)
(* the next request.                                                       *)
(***************************************************************************)
Releases(s) ==
    \/ active \in Lost' \cup {None}
    \/ \A q : ~Coming(s, q) /\ ~Has(s.writes, q)

LEMMA ConnectionStays ==
    ASSUME TypeOK, Replies, NothingNew, Lost \subseteq Lost', ArrivalsStay,
           Quiet(io, io', active),
           \/ active' = active
           \/ active' = None /\ Releases(io'),
           Operations(io', pending', active', arrival')
    PROVE  Replies'
<1>1. io \in IoTypes
  BY DEF TypeOK
<1>2. Stream(io')
  BY DEF Quiet, Replies
<1>3. Stray'
  <2> SUFFICES ASSUME NEW q \in Requests, q # active',
                      Coming(io', q) \/ Has(io'.writes, q)
               PROVE  q \in Lost'
    BY DEF Stray
  <2>1. Coming(io, q) \/ Has(io.writes, q)
    BY DEF Quiet
  <2>2. CASE q # active
    BY <2>1, <2>2 DEF Replies, Stray
  <2>3. CASE q = active
    BY <2>3, SocketAssumption DEF Releases
  <2> QED
    BY <2>2, <2>3
<1>4. \A r, q \in Requests : \A how \in Tidings :
         Comes(io', active', r, how, q) => Comes(io, active, r, how, q)
  BY <1>1, SegmentsStay DEF Quiet
<1>5. Foreign' /\ Complete'
  BY <1>4, NothingRead DEF Quiet
<1> QED
  BY <1>2, <1>3, <1>5 DEF Replies

LEMMA ConnectionPasses ==
    ASSUME TypeOK, Replies, NothingNew, Lost \subseteq Lost', ArrivalsStay,
           arrival' \in Arrivals,
           NEW s \in IoTypes, NEW q \in Seq(Requests),
           Quiet(io, s, active), Releases(s), RunNextRequest(q, s),
           Numbered(arrival', q), Increasing(arrival', q),
           Operations(s, q, active, arrival')
    PROVE  Replies'
<1>1. io \in IoTypes /\ active \in Requests \cup {None}
  BY DEF TypeOK
<1>2. CASE q = <<>>
  <2>1. active' = None /\ pending' = q /\ io' = s
    BY <1>2 DEF RunNextRequest
  <2>2. Operations(io', pending', active', arrival')
    <3>1. Quiet(s, s, active)
      BY QuietStays
    <3> QED
      BY <1>1, <2>1, <3>1, OperationsQuiet
  <2> QED
    BY <2>1, <2>2, ConnectionStays
<1>3. CASE q # <<>>
  <2>1. active' = Head(q) /\ pending' = Tail(q) /\ io' = AsyncWrite(s, Head(q))
    BY <1>3 DEF RunNextRequest
  <2>2. active' \in Requests /\ 1 \in DOMAIN q /\ active' = q[1]
    BY <1>3, <2>1, HeadTailProperties, LenProperties, EmptySeq
  <2>3. Starts(s, io', active')
    BY <2>1, <2>2, AsyncWriteStarts
  <2>4. /\ ~Has(s.log, active') /\ ~Outstanding(s, active')
        /\ active # None => active' # active
    BY <2>2, Fresh
  <2>5. Operations(io', pending', active', arrival')
    BY <1>3, <2>1, <2>3, OperationsStart
  <2>6. Stream(s)
    BY DEF Quiet, Replies
  <2>7. /\ Stream(io')
        /\ \A x : Coming(io', x) => Coming(s, x) \/ x = active'
        /\ \A x : Has(s.log, x) => Has(io'.log, x)
    BY <2>2, <2>3, <2>4, <2>6, StartsStream
  <2>8. Stray'
    <3> SUFFICES ASSUME NEW x \in Requests, x # active',
                        Coming(io', x) \/ Has(io'.writes, x)
                 PROVE  x \in Lost'
      BY DEF Stray
    <3>1. Coming(s, x) \/ Has(s.writes, x)
      BY <2>3, <2>7 DEF Starts
    <3>2. CASE x # active
      BY <3>1, <3>2 DEF Replies, Stray, Quiet
    <3>3. CASE x = active
      BY <3>1, <3>3, SocketAssumption DEF Releases
    <3> QED
      BY <3>2, <3>3
  <2>9. \A r, x \in Requests : \A how \in Tidings :
           Comes(io', active', r, how, x) => Comes(io, active, r, how, x)
    <3>1. \A r, x \in Requests : \A how \in Tidings :
             Comes(io', active', r, how, x) => Comes(s, active, r, how, x)
      BY <2>3, <2>4, SegmentsStay DEF Starts
    <3>2. \A r, x \in Requests : \A how \in Tidings :
             Comes(s, active, r, how, x) => Comes(io, active, r, how, x)
      BY <1>1, SegmentsStay DEF Quiet
    <3> QED
      BY <3>1, <3>2
  <2>10. s.log = io.log /\ \A x : Coming(s, x) => Coming(io, x)
    BY DEF Quiet
  <2>11. Foreign' /\ Complete'
    BY <2>4, <2>7, <2>9, <2>10, NothingRead
  <2> QED
    BY <2>5, <2>7, <2>8, <2>11 DEF Replies
<1> QED
  BY <1>2, <1>3
-----------------------------------------------------------------------------
(***************************************************************************)
(* The network and the node.                                               *)
(***************************************************************************)
LEMMA NodeRepliesQuiet ==
    ASSUME io \in IoTypes, io' \in IoTypes, NodeReplies, Stream(io), NEW x
    PROVE  Quiet(io, io', x)
<1>0. PICK S : S = [req : Requests, left : 1..ReplyParts]
  OBVIOUS
<1>1. io.serving \in Seq(S) /\ io'.serving \in Seq(S) /\ io.inbox \in Seq(Segments)
  BY <1>0, IoFields DEF Serving
<1>2. PICK first, rest : first = Head(io.serving) /\ rest = Tail(io.serving)
  OBVIOUS
<1>3. PICK g : g = [of |-> first.req, last |-> first.left = 1]
  OBVIOUS
<1>4. /\ Len(io.serving) \in Nat \ {0} /\ DOMAIN io.serving = 1..Len(io.serving)
      /\ first = io.serving[1]
      /\ first \in S
      /\ rest \in Seq(S)
      /\ Len(rest) = Len(io.serving) - 1
      /\ DOMAIN rest = 1..(Len(io.serving) - 1)
      /\ \A i \in 1..(Len(io.serving) - 1) : rest[i] = io.serving[i + 1]
  <2>1. io.serving # <<>>
    BY DEF NodeReplies
  <2> QED
    BY <1>1, <1>2, <2>1, HeadTailProperties, LenProperties, EmptySeq
<1>5. g \in Segments
  BY <1>0, <1>3, <1>4 DEF Segments
<1>6. /\ io'.log = io.log /\ io'.reads = io.reads /\ io'.writes = io.writes
      /\ io'.ready = io.ready /\ io'.inbox = Append(io.inbox, g)
      /\ io'.serving = IF first.left = 1
                       THEN rest
                       ELSE <<[first EXCEPT !.left = @ - 1]>> \o rest
  BY <1>2, <1>3 DEF NodeReplies, IoTypes
<1>7. /\ Len(io.inbox) \in Nat /\ DOMAIN io.inbox = 1..Len(io.inbox)
      /\ DOMAIN io'.inbox = 1..(Len(io.inbox) + 1)
      /\ \A i \in 1..Len(io.inbox) : io'.inbox[i] = io.inbox[i]
      /\ io'.inbox[Len(io.inbox) + 1] = g
  BY <1>1, <1>5, <1>6, AppendProperties, LenProperties
<1>8. g.of = first.req /\ (g.last <=> first.left = 1) /\ Owed(io, first.req)
  <2>1. g.of = first.req /\ (g.last <=> first.left = 1)
    BY <1>3
  <2>2. 1 \in DOMAIN io.serving
    BY <1>4
  <2> QED
    BY <1>4, <2>1, <2>2 DEF Owed
<1> DEFINE d == IF g.last THEN 1 ELSE 0
<1>9. \A i \in DOMAIN io'.serving :
         i + d \in DOMAIN io.serving /\ io'.serving[i].req = io.serving[i + d].req
  <2>1. CASE first.left = 1
    <3>1. io'.serving = rest /\ d = 1
      BY <1>6, <1>8, <2>1
    <3>2. \A i \in 1..(Len(io.serving) - 1) : i + 1 \in 1..Len(io.serving)
      BY <1>4
    <3> HIDE DEF d
    <3> QED
      BY <1>4, <3>1, <3>2
  <2>2. CASE first.left # 1
    <3>1. PICK e : e = [first EXCEPT !.left = @ - 1]
      OBVIOUS
    <3>2. e.req = first.req /\ e \in S
      <4>1. first \in [req : Requests, left : 1..ReplyParts]
        BY <1>0, <1>4
      <4>2. first.left - 1 \in 1..ReplyParts
        BY <2>2, <4>1, SocketAssumption
      <4>3. PICK n : n = first.left - 1
        OBVIOUS
      <4>4. e = [first EXCEPT !.left = n] /\ n \in 1..ReplyParts
        BY <3>1, <4>2, <4>3
      <4> QED
        BY <1>0, <4>1, <4>4
    <3>3. PICK v : v = io'.serving
      OBVIOUS
    <3>4. v = <<e>> \o rest /\ d = 0
      BY <1>6, <1>8, <2>2, <3>1, <3>3
    <3> HIDE DEF d
    <3>5. /\ DOMAIN v = 1..Len(io.serving)
          /\ v[1] = e
          /\ \A i \in 2..Len(io.serving) : v[i] = io.serving[i]
      BY <1>4, <3>2, <3>4
    <3>6. \A i \in DOMAIN v : v[i].req = io.serving[i].req
      BY <1>4, <3>2, <3>5
    <3>7. \A i \in DOMAIN v : i + d = i
      BY <1>4, <3>4, <3>5
    <3> QED
      BY <1>4, <3>3, <3>5, <3>6, <3>7
  <2> QED
    BY <2>1, <2>2
<1>10. /\ \A q : Owed(io', q) => Owed(io, q)
       /\ g.last => ~Owed(io', g.of)
  <2>1. \A q : Owed(io', q) => Owed(io, q)
    BY <1>9 DEF Owed
  <2>2. ASSUME g.last, NEW i \in DOMAIN io'.serving
        PROVE  io'.serving[i].req # g.of
    <3>1. i + 1 \in DOMAIN io.serving /\ io'.serving[i].req = io.serving[i + 1].req
      BY <1>9, <2>2
    <3>2. i \in Nat \ {0}
      BY <1>1, LenProperties
    <3>3. 1 \in DOMAIN io.serving /\ i + 1 # 1
      BY <1>4, <3>2
    <3> QED
      BY <1>4, <1>8, <3>1, <3>3 DEF Stream
  <2> QED
    BY <2>1, <2>2 DEF Owed
<1>11. \A q : Coming(io', q) => Coming(io, q)
  BY <1>7, <1>8, <1>10 DEF Coming, Arrived
<1>12. Stream(io')
  <2>1. \A i, j \in DOMAIN io'.serving : i # j => io'.serving[i].req # io'.serving[j].req
    <3>1. \A i \in DOMAIN io'.serving : i \in Nat
      BY <1>1, LenProperties
    <3>2. \A i, j \in DOMAIN io'.serving : i # j => i + d # j + d
      BY <3>1
    <3> QED
      BY <1>9, <3>2 DEF Stream
  <2>2. \A i, j \in DOMAIN io'.inbox :
           i < j /\ io'.inbox[i].last => io'.inbox[j].of # io'.inbox[i].of
    <3> SUFFICES ASSUME NEW i \in DOMAIN io'.inbox, NEW j \in DOMAIN io'.inbox,
                        i < j, io'.inbox[i].last
                 PROVE  io'.inbox[j].of # io'.inbox[i].of
      OBVIOUS
    <3>1. i \in DOMAIN io.inbox /\ io'.inbox[i] = io.inbox[i]
      BY <1>7
    <3>2. CASE j \in DOMAIN io.inbox
      BY <1>7, <3>1, <3>2 DEF Stream
    <3>3. CASE j = Len(io.inbox) + 1
      BY <1>7, <1>8, <3>1, <3>3 DEF Stream
    <3> QED
      BY <1>7, <3>2, <3>3
  <2>3. \A i \in DOMAIN io'.inbox : io'.inbox[i].last => ~Owed(io', io'.inbox[i].of)
    <3> SUFFICES ASSUME NEW i \in DOMAIN io'.inbox, io'.inbox[i].last
                 PROVE  ~Owed(io', io'.inbox[i].of)
      OBVIOUS
    <3>1. CASE i \in DOMAIN io.inbox
      BY <1>7, <1>10, <3>1 DEF Stream
    <3>2. CASE i = Len(io.inbox) + 1
      BY <1>7, <1>10, <3>2
    <3> QED
      BY <1>7, <3>1, <3>2
  <2> QED
    BY <1>6, <1>11, <2>1, <2>2, <2>3 DEF Stream
<1> QED
  BY <1>6, <1>11, <1>12 DEF Quiet, Outstanding

LEMMA NetworkQuiet ==
    ASSUME io \in IoTypes, io' \in IoTypes, NEW x,
           WriteGoesNowhere \/ ReadFails \/ PeerResets
    PROVE  Quiet(io, io', x)
<1>1. io.writes \in Seq(Requests) /\ io.reads \in Seq(Requests) /\ io.ready \in Seq(Completions)
  BY IoFields
<1>2. ASSUME NEW call \in {"on_write", "on_read"}, NEW error \in Errors, NEW q \in Requests
      PROVE  /\ Completion(call, q, error, NoSegment) \in Completions
             /\ Completion(call, q, error, NoSegment).req = q
             /\ call = "on_write" \/ error # "success" =>
                    Bare(Completion(call, q, error, NoSegment))
  BY <1>2, CompletionType DEF Completion, Bare
<1>3. CASE WriteGoesNowhere
  <2>1. PICK error \in {"success", "failed"} :
           io' = Queued([io EXCEPT !.writes = Tail(@)],
                        Completion("on_write", Head(io.writes), error, NoSegment))
    BY <1>3 DEF WriteGoesNowhere
  <2>2. PICK c : c = Completion("on_write", Head(io.writes), error, NoSegment)
    OBVIOUS
  <2>3. /\ Head(io.writes) \in Requests /\ Has(io.writes, Head(io.writes))
        /\ \A q : Has(Tail(io.writes), q) => Has(io.writes, q)
    BY <1>1, <1>3, HasTail DEF WriteGoesNowhere
  <2>4. c \in Completions /\ c.req = Head(io.writes) /\ Bare(c)
    BY <1>2, <2>2, <2>3 DEF Errors
  <2>5. /\ io'.log = io.log /\ io'.inbox = io.inbox /\ io'.serving = io.serving
        /\ io'.writes = Tail(io.writes) /\ io'.reads = io.reads
        /\ io'.ready = Append(io.ready, c)
    BY <2>1, <2>2 DEF Queued, IoTypes
  <2>6. \A e : Has(io'.ready, e) => Has(io.ready, e) \/ e = c
    <3>1. \A e : Has(Append(io.ready, c), e) => Has(io.ready, e) \/ e = c
      BY <1>1, <2>4, HasAppend
    <3> QED
      BY <2>5, <3>1
  <2>7. Outstanding(io, c.req)
    BY <2>3, <2>4, OutstandingElements
  <2> QED
    BY <2>3, <2>4, <2>5, <2>6, <2>7, QuietElements
<1>4. CASE ReadFails
  <2>1. io' = Queued([io EXCEPT !.reads = Tail(@)],
                     Completion("on_read", Head(io.reads), "failed", NoSegment))
    BY <1>4 DEF ReadFails
  <2>2. PICK c : c = Completion("on_read", Head(io.reads), "failed", NoSegment)
    OBVIOUS
  <2>3. /\ Head(io.reads) \in Requests /\ Has(io.reads, Head(io.reads))
        /\ \A q : Has(Tail(io.reads), q) => Has(io.reads, q)
    BY <1>1, <1>4, HasTail DEF ReadFails
  <2>4. c \in Completions /\ c.req = Head(io.reads) /\ Bare(c)
    BY <1>2, <2>2, <2>3 DEF Errors
  <2>5. /\ io'.log = io.log /\ io'.inbox = io.inbox /\ io'.serving = io.serving
        /\ io'.writes = io.writes /\ io'.reads = Tail(io.reads)
        /\ io'.ready = Append(io.ready, c)
    BY <2>1, <2>2 DEF Queued, IoTypes
  <2>6. \A e : Has(io'.ready, e) => Has(io.ready, e) \/ e = c
    <3>1. \A e : Has(Append(io.ready, c), e) => Has(io.ready, e) \/ e = c
      BY <1>1, <2>4, HasAppend
    <3> QED
      BY <2>5, <3>1
  <2>7. Outstanding(io, c.req)
    BY <2>3, <2>4, OutstandingElements
  <2> QED
    BY <2>3, <2>4, <2>5, <2>6, <2>7, QuietElements
<1>5. CASE PeerResets
  <2>1. /\ io'.log = io.log /\ io'.inbox = io.inbox /\ io'.serving = <<>>
        /\ io'.writes = io.writes /\ io'.reads = io.reads /\ io'.ready = io.ready
    BY <1>5 DEF PeerResets, IoTypes
  <2> QED
    BY <2>1, QuietElements
<1> QED
  BY <1>3, <1>4, <1>5
\* The node receives the oldest write.
LEMMA WriteCompletesReplies ==
    ASSUME TypeOK, OrderKept, Replies, NothingNew, Lost \subseteq Lost',
           WriteCompletes, UNCHANGED <<pending, active, arrival>>
    PROVE  Replies'
<1>1. io \in IoTypes /\ io.writes \in Seq(Requests) /\ io.log \in Seq(Requests)
  BY IoFields DEF TypeOK
<1>2. PICK x : x = Head(io.writes)
  OBVIOUS
<1>3. /\ io.writes # <<>>
      /\ x \in Requests /\ 1 \in DOMAIN io.writes /\ x = io.writes[1]
      /\ Has(io.writes, x)
      /\ Tail(io.writes) \in Seq(Requests)
      /\ \A q : Has(Tail(io.writes), q) => Has(io.writes, q)
  BY <1>1, <1>2, HasTail, HeadTailProperties, LenProperties, EmptySeq DEF WriteCompletes
<1>4. PICK s : s = [io EXCEPT !.writes = Tail(@)]
  OBVIOUS
<1>5. /\ s \in IoTypes
      /\ s.log = io.log /\ s.inbox = io.inbox /\ s.serving = io.serving
      /\ s.writes = Tail(io.writes) /\ s.reads = io.reads /\ s.ready = io.ready
  BY <1>1, <1>3, <1>4 DEF IoTypes
<1>6. Quiet(io, s, active)
  BY <1>1, <1>3, <1>5, QuietElements
<1>7. Starts(s, io', x)
  BY <1>2, <1>3, <1>4, <1>5, TransmittedStarts DEF WriteCompletes
<1>8. ~Has(io.log, x)
  <2>1. Before(arrival, io.log, io.writes) /\ arrival[x] \in Nat
    BY <1>3 DEF OrderKept, InOrder, TypeOK
  <2> QED
    BY <1>3, <2>1 DEF Before, Has
<1>9. /\ Stream(io')
      /\ \A q : Coming(io', q) => Coming(io, q) \/ q = x
      /\ \A q : Has(io.log, q) => Has(io'.log, q)
      /\ \A q : Has(io'.log, q) => Has(io.log, q) \/ q = x
  <2>1. Stream(s) /\ s.log = io.log /\ \A q : Coming(s, q) => Coming(io, q)
    BY <1>6 DEF Quiet, Replies
  <2>2. s \in IoTypes /\ x \in Requests /\ ~Has(s.log, x)
    BY <1>3, <1>5, <1>8
  <2>3. /\ Stream(io')
        /\ \A q : Coming(io', q) => Coming(s, q) \/ q = x
        /\ \A q : Has(s.log, q) => Has(io'.log, q)
        /\ \A q : Has(io'.log, q) => Has(s.log, q) \/ q = x
    BY <1>7, <2>1, <2>2, StartsStream
  <2> QED
    BY <2>1, <2>3
<1>10. \A q \in Requests : Outstanding(io', q) => Outstanding(io, q)
  <2>1. Outstanding(io, x)
    BY <1>1, <1>3, OutstandingElements
  <2>2. \A q \in Requests : Outstanding(s, q) => Outstanding(io, q)
    BY <1>1, <1>3, <1>5 DEF Outstanding, Has
  <2> QED
    BY <1>7, <2>1, <2>2 DEF Starts
<1>11. Operations(io', pending', active', arrival')
  <2>1. Outstanding(io, x)
    BY <1>1, <1>3, OutstandingElements
  <2> QED
    BY <1>3, <1>9, <1>10, <2>1 DEF Replies, Operations
<1>12. \A q : Has(io'.writes, q) => Has(io.writes, q)
  BY <1>3, <1>5, <1>7 DEF Starts
<1>13. Stray'
  <2> SUFFICES ASSUME NEW q \in Requests, q # active, Coming(io', q) \/ Has(io'.writes, q)
               PROVE  q \in Lost'
    BY DEF Stray
  <2>1. Coming(io, q) \/ Has(io.writes, q)
    BY <1>3, <1>9, <1>12
  <2> QED
    BY <2>1 DEF Replies, Stray
<1>14. \A r, q \in Requests : \A how \in Tidings :
          Comes(io', active', r, how, q) => Comes(io, active, r, how, q)
  <2>1. \A c : Has(io'.ready, c) => Has(io.ready, c) \/ Bare(c)
    BY <1>5, <1>7 DEF Starts
  <2> QED
    BY <1>1, <2>1, SegmentsStay
<1>15. ArrivalsStay
  BY DEF ArrivalsStay
<1>16. Foreign' /\ Complete'
  BY <1>8, <1>9, <1>14, <1>15, NothingRead
<1> QED
  BY <1>9, <1>11, <1>13, <1>16 DEF Replies

\* A segment is read, for the oldest read.
LEMMA ReadCompletesReplies ==
    ASSUME TypeOK, Replies, NothingNew, Lost \subseteq Lost',
           ReadCompletes, UNCHANGED <<pending, active, arrival, frame, heard>>
    PROVE  Replies'
<1>1. /\ io \in IoTypes /\ io.reads \in Seq(Requests) /\ io.ready \in Seq(Completions)
      /\ io.inbox \in Seq(Segments)
  BY IoFields DEF TypeOK
<1>2. PICK x, g, c : /\ x = Head(io.reads) /\ g = Head(io.inbox)
                     /\ c = Completion("on_read", x, "success", g)
  OBVIOUS
<1>3. /\ x \in Requests /\ Has(io.reads, x)
      /\ Tail(io.reads) \in Seq(Requests)
      /\ \A q : Has(Tail(io.reads), q) => Has(io.reads, q)
  BY <1>1, <1>2, HasTail DEF ReadCompletes
<1>4. /\ Len(io.inbox) \in Nat \ {0} /\ DOMAIN io.inbox = 1..Len(io.inbox)
      /\ g \in Segments /\ g = io.inbox[1]
      /\ Tail(io.inbox) \in Seq(Segments)
      /\ DOMAIN Tail(io.inbox) = 1..(Len(io.inbox) - 1)
      /\ \A i \in 1..(Len(io.inbox) - 1) : Tail(io.inbox)[i] = io.inbox[i + 1]
  <2>1. io.inbox # <<>>
    BY DEF ReadCompletes
  <2> QED
    BY <1>1, <1>2, <2>1, HeadTailProperties, LenProperties, EmptySeq
<1>5. /\ c \in Completions /\ c.call = "on_read" /\ c.req = x /\ c.error = "success"
      /\ c.segment = g
  BY <1>2, <1>3, <1>4, CompletionType DEF Errors, Completion
<1>6. PICK s : s = [io EXCEPT !.reads = Tail(@), !.inbox = Tail(@)]
  OBVIOUS
<1>7. /\ io'.log = io.log /\ io'.inbox = Tail(io.inbox) /\ io'.serving = io.serving
      /\ io'.writes = io.writes /\ io'.reads = Tail(io.reads)
      /\ io'.ready = Append(io.ready, c)
  BY <1>1, <1>2 DEF ReadCompletes, Queued, IoTypes
<1>8. io' \in IoTypes
  <2>1. Append(io.ready, c) \in Seq(Completions)
    BY <1>1, <1>5
  <2> QED
    BY <1>1, <1>2, <1>3, <1>4, <2>1 DEF ReadCompletes, Queued, IoTypes
<1>9. \A e : Has(io'.ready, e) => Has(io.ready, e) \/ e = c
  <2>1. \A e : Has(Append(io.ready, c), e) => Has(io.ready, e) \/ e = c
    BY <1>1, <1>5, HasAppend
  <2> QED
    BY <1>7, <2>1
<1>10. /\ \A q : Arrived(io', q) => Arrived(io, q)
       /\ \A q : Owed(io', q) <=> Owed(io, q)
       /\ Arrived(io, g.of)
  <2>1. \A i \in DOMAIN io'.inbox :
           i + 1 \in DOMAIN io.inbox /\ io'.inbox[i] = io.inbox[i + 1]
    BY <1>4, <1>7
  <2>2. 1 \in DOMAIN io.inbox
    BY <1>4
  <2> QED
    BY <1>4, <1>7, <2>1, <2>2 DEF Arrived, Owed
<1>11. g.of \in Requests /\ (g.last => ~Coming(io', g.of))
  <2>1. g.of \in Requests
    BY <1>4 DEF Segments
  <2>2. g.last => ~Owed(io', g.of)
    BY <1>4, <1>10 DEF Replies, Stream
  <2>3. ASSUME g.last, NEW i \in DOMAIN io'.inbox
        PROVE  io'.inbox[i].of # g.of
    <3>1. /\ i + 1 \in DOMAIN io.inbox /\ io'.inbox[i] = io.inbox[i + 1]
          /\ 1 \in DOMAIN io.inbox /\ 1 < i + 1
      BY <1>4, <1>7
    <3> QED
      BY <1>4, <2>3, <3>1 DEF Replies, Stream
  <2> QED
    BY <2>1, <2>2, <2>3 DEF Coming, Arrived
<1>12. Stream(io')
  <2>1. /\ \A i, j \in DOMAIN io'.serving : i # j => io'.serving[i].req # io'.serving[j].req
        /\ \A q \in Requests : Coming(io', q) => Has(io'.log, q)
    BY <1>7, <1>10 DEF Replies, Stream, Coming
  <2>2. \A i \in DOMAIN io'.inbox :
           i + 1 \in DOMAIN io.inbox /\ io'.inbox[i] = io.inbox[i + 1] /\ i \in Nat
    BY <1>4, <1>7
  <2>3. \A i, j \in DOMAIN io'.inbox : i < j => i + 1 < j + 1
    BY <2>2
  <2>4. /\ \A i, j \in DOMAIN io'.inbox :
              i < j /\ io'.inbox[i].last => io'.inbox[j].of # io'.inbox[i].of
        /\ \A i \in DOMAIN io'.inbox : io'.inbox[i].last => ~Owed(io', io'.inbox[i].of)
    BY <1>10, <2>2, <2>3 DEF Replies, Stream
  <2>5. ASSUME NEW i \in DOMAIN io'.ready, io'.ready[i].error # "success"
        PROVE  io'.ready[i].segment = NoSegment
    <3>1. Has(io.ready, io'.ready[i])
      BY <1>5, <1>9, <2>5 DEF Has
    <3> QED
      BY <2>5, <3>1 DEF Replies, Stream, Has
  <2> QED
    BY <2>1, <2>4, <2>5 DEF Stream
<1>13. \A q \in Requests : Outstanding(io', q) => Outstanding(io, q)
  <2>1. Outstanding(io, x)
    BY <1>1, <1>3, OutstandingElements
  <2> SUFFICES ASSUME NEW q \in Requests, Outstanding(io', q)
               PROVE  Outstanding(io, q)
    OBVIOUS
  <2>2. CASE Has(io'.reads, q)
    BY <1>1, <1>3, <1>7, <2>2, OutstandingElements
  <2>3. CASE Has(io'.writes, q)
    BY <1>1, <1>7, <2>3, OutstandingElements
  <2>4. ASSUME NEW e \in Completions, Has(io'.ready, e), e.req = q, e.call # "dequeue"
        PROVE  Outstanding(io, q)
    BY <1>1, <1>5, <1>9, <2>1, <2>4, OutstandingElements
  <2> QED
    BY <1>8, <2>2, <2>3, <2>4, OutstandingElements
<1>14. Operations(io', pending', active', arrival')
  BY <1>7, <1>13 DEF Replies, Operations
<1>15. Stray'
  BY <1>7, <1>10 DEF Replies, Stray, Coming
<1>16. ASSUME NEW r \in Requests, NEW q \in Requests, NEW how \in Tidings,
              Hears(r, how, q)', ~Hears(r, how, q)
       PROVE  /\ r = active /\ q = g.of /\ (how = "complete" => g.last)
              /\ ~Tells(heard', frame', r, how, q)
  <2>1. ~Tells(heard', frame', r, how, q)
    BY <1>16 DEF Hears
  <2>2. PICK e \in Completions :
           /\ Has(io'.ready, e) /\ r = active
           /\ e.call = "on_read" /\ e.req = r /\ e.error = "success"
           /\ NewsOf(e) = [how |-> how, of |-> q]
    BY <1>16, <2>1 DEF Hears, Comes
  <2>3. e = c
    BY <1>9, <1>16, <2>2 DEF Hears, Comes
  <2>4. /\ how = CASE c.error # "success" -> "failed"
                   [] c.error = "success" /\ c.segment.last  -> "complete"
                   [] c.error = "success" /\ ~c.segment.last -> "partial"
        /\ q = c.segment.of
    BY <2>2, <2>3 DEF NewsOf
  <2> QED
    BY <1>5, <2>1, <2>2, <2>4
<1>17. "complete" \in Tidings
  BY DEF Tidings
<1>18. ASSUME NEW r \in Requests, NEW q \in Requests, NEW how \in Tidings,
              r # q, Hears(r, how, q)'
       PROVE  /\ arrival'[q] < arrival'[r]
              /\ q \in Lost'
              /\ ~Hears(q, "complete", q)'
              /\ Has(io'.log, q)
              /\ Tells(heard', frame', r, how, q) => q # active'
  <2>1. CASE Hears(r, how, q)
    <3>1. /\ arrival[q] < arrival[r] /\ q \in Lost /\ ~Hears(q, "complete", q)
          /\ Has(io.log, q)
          /\ Tells(heard, frame, r, how, q) => q # active
      BY <1>18, <2>1 DEF Replies, Foreign
    <3>2. q # active
      BY <1>18, <2>1, <3>1 DEF Hears, Comes
    <3>3. ~Hears(q, "complete", q)'
      BY <1>16, <1>17, <3>1, <3>2
    <3> QED
      BY <1>7, <3>1, <3>2, <3>3
  <2>2. CASE ~Hears(r, how, q)
    <3>1. r = active /\ q = g.of /\ ~Tells(heard', frame', r, how, q)
      BY <1>16, <1>18, <2>2
    <3>2. q \in Lost
      BY <1>10, <1>18, <3>1 DEF Replies, Stray, Coming
    <3>3. Has(io.log, q)
      BY <1>10, <3>1 DEF Replies, Stream, Coming
    <3>4. arrival[q] < arrival[r]
      BY <1>18, <3>1, <3>3, SocketAssumption DEF Replies, Operations, Started
    <3>5. ~Hears(q, "complete", q)
      BY <1>10, <3>1 DEF Replies, Complete, Coming
    <3>6. ~Hears(q, "complete", q)'
      BY <1>16, <1>17, <1>18, <3>1, <3>5
    <3> QED
      BY <1>7, <3>1, <3>2, <3>3, <3>4, <3>6
  <2> QED
    BY <2>1, <2>2
<1>19. Foreign'
  BY <1>18 DEF Foreign, Hears
<1>20. ASSUME NEW q \in Requests, Hears(q, "complete", q)'
       PROVE  Has(io'.log, q) /\ ~Coming(io', q)
  <2>1. CASE Hears(q, "complete", q)
    BY <1>7, <1>10, <2>1 DEF Replies, Complete, Coming
  <2>2. CASE ~Hears(q, "complete", q)
    <3>1. q = g.of /\ g.last
      BY <1>16, <1>17, <1>20, <2>2
    <3> QED
      BY <1>7, <1>10, <1>11, <3>1 DEF Replies, Stream, Coming
  <2> QED
    BY <2>1, <2>2
<1>21. Complete'
  BY <1>20 DEF Complete
<1> QED
  BY <1>12, <1>14, <1>15, <1>19, <1>21 DEF Replies
-----------------------------------------------------------------------------
(***************************************************************************)
(* The steps of the transport and of its users.                            *)
(***************************************************************************)
LEMMA QuietReplies ==
    ASSUME TypeOK, Replies, NothingNew, Lost \subseteq Lost', UNCHANGED arrival,
           Quiet(io, io', active),
           \/ active' = active
           \/ active' = None /\ Releases(io'),
           \A y : Has(pending', y) => Has(pending, y)
    PROVE  Replies'
<1>1. active \in Requests \cup {None} /\ active' \in {active, None}
  BY DEF TypeOK
<1>2. Operations(io, pending, active, arrival)
  BY DEF Replies
<1>3. Operations(io', pending', active', arrival)
  BY <1>1, <1>2, OperationsQuiet
<1> QED
  BY <1>3, ConnectionStays DEF ArrivalsStay

\* As long as nobody touches the connection.
LEMMA IdleReplies ==
    ASSUME TypeOK, Replies, NothingNew, Lost \subseteq Lost', UNCHANGED <<io, active, arrival>>,
           \A y : Has(pending', y) => Has(pending, y)
    PROVE  Replies'
<1>1. io \in IoTypes
  BY DEF TypeOK
<1>2. Quiet(io, io', active)
  BY <1>1, QuietStays
<1> QED
  BY <1>2, QuietReplies

LEMMA ClosedEmpty ==
    ASSUME NEW s \in IoTypes
    PROVE  \A q : /\ ~Coming(Connected(Closed(s)), q)
                  /\ ~Has(Connected(Closed(s)).writes, q)
<1>1. PICK t : t = Cancelled(s)
  OBVIOUS
<1>2. t \in IoTypes /\ t.writes = <<>>
  BY <1>1, CancelledType, CallsKeepOrder
<1>3. PICK u : u = Closed(s)
  OBVIOUS
<1>4. u \in IoTypes /\ u.inbox = <<>> /\ u.serving = <<>> /\ u.writes = <<>>
  BY <1>1, <1>2, <1>3, ClosedType DEF Closed, IoTypes
<1>5. /\ Connected(u).inbox = <<>> /\ Connected(u).serving = <<>>
      /\ Connected(u).writes = <<>>
  BY <1>4 DEF Connected, IoTypes
<1> QED
  BY <1>3, <1>5 DEF Coming, Arrived, Owed, Has

LEMMA SocketErrorReplies ==
    ASSUME TypeOK, OrderKept, Replies, NothingNew, Lost \subseteq Lost', UNCHANGED arrival,
           NEW w, NEW c, NEW s \in IoTypes, Quiet(io, s, active),
           HandleSocketError(w, c, s)
    PROVE  Replies'
<1>1. PICK u : u = Connected(Closed(s))
  OBVIOUS
<1>2. /\ u \in IoTypes
      /\ Quiet(s, u, active) /\ Quiet(s, Closed(s), active)
      /\ \A q : ~Coming(u, q) /\ ~Has(u.writes, q)
  BY <1>1, ClosedType, ClosedQuiet, ClosedEmpty
<1>3. Quiet(io, u, active) /\ Quiet(io, Closed(s), active)
  BY <1>2, QuietTransitive
<1>4. Releases(u)
  BY <1>2 DEF Releases
<1>5. /\ active \in Requests \cup {None} /\ pending \in Seq(Requests) /\ arrival \in Arrivals
      /\ Numbered(arrival, pending) /\ Increasing(arrival, pending)
  BY DEF TypeOK, Arrivals, OrderKept, InOrder
<1>6. CASE Reconnects(s) /\ ~shutting_down
  <2>1. RunNextRequest(pending, u)
    BY <1>1, <1>6 DEF Reconnects
  <2>2. Operations(u, pending, active, arrival)
    <3>1. Operations(io, pending, active, arrival)
      BY DEF Replies
    <3> QED
      BY <1>3, <1>5, <3>1, OperationsQuiet
  <2>3. ArrivalsStay
    BY DEF ArrivalsStay
  <2>4. /\ arrival' \in Arrivals /\ Numbered(arrival', pending)
        /\ Increasing(arrival', pending) /\ Operations(u, pending, active, arrival')
    BY <1>5, <2>2
  <2> QED
    BY <1>2, <1>3, <1>4, <1>5, <2>1, <2>3, <2>4, ConnectionPasses
<1>7. CASE Reconnects(s) /\ shutting_down
  <2>1. active' = None /\ io' = u /\ pending' = pending
    BY <1>1, <1>7 DEF Reconnects
  <2> QED
    BY <1>3, <1>4, <2>1, QuietReplies
<1>8. CASE ReconnectThrows(s)
  <2>1. active' = None /\ io' \in {s, Closed(s)} /\ pending' = pending
    BY <1>8 DEF ReconnectThrows
  <2>2. failures' > 0
    BY <1>8 DEF ReconnectThrows, TypeOK
  <2>3. Releases(io')
    BY <1>5, <2>2 DEF Releases, Lost, Deprived
  <2> QED
    BY <1>3, <2>1, <2>3, QuietReplies
<1>9. CASE io' = s /\ UNCHANGED <<pending, active>>
  BY <1>9, QuietReplies
<1> QED
  BY <1>6, <1>7, <1>8, <1>9 DEF HandleSocketError

LEMMA HandlersReplies ==
    ASSUME TypeOK, OrderKept, Replies, NothingNew, Lost \subseteq Lost',
           NEW w \in Workers, RunsHandler(w)
    PROVE  Replies'
<1>1. io \in IoTypes /\ pending \in Seq(Requests)
  BY DEF TypeOK
<1>2. UNCHANGED arrival
  BY DEF RunsHandler, OnWrite, OnRead, DequeueThreadSafely, RunsOnFreedPool, history
<1>3. ASSUME NEW i \in DOMAIN io.ready
      PROVE  Taken(io, i) \in IoTypes /\ Quiet(io, Taken(io, i), active)
  BY <1>1, TakenType, TakenQuiet
<1>4. ASSUME NEW i \in DOMAIN io.ready, OnWrite(w, i) \/ OnRead(w, i)
      PROVE  Replies'
  <2>1. PICK c, s : c = io.ready[i] /\ s = Taken(io, i)
    OBVIOUS
  <2>2. s \in IoTypes /\ Quiet(io, s, active) /\ c.req \in Requests
    BY <1>1, <1>3, <2>1, TakenType DEF Completions
  <2>3. CASE io' = s /\ UNCHANGED <<pending, active>>
    BY <1>2, <2>2, <2>3, QuietReplies
  <2>4. CASE c.req = active /\ io' = AsyncRead(s, c.req) /\ UNCHANGED <<pending, active>>
    <3>1. Quiet(s, io', active)
      BY <2>2, <2>4, AsyncReadQuiet
    <3>2. Quiet(io, io', active)
      BY <2>2, <3>1, QuietTransitive
    <3> QED
      BY <1>2, <2>4, <3>2, QuietReplies
  <2>5. CASE HandleSocketError(w, c, s)
    BY <1>2, <2>2, <2>5, SocketErrorReplies
  <2> QED
    BY <1>4, <2>1, <2>3, <2>4, <2>5 DEF OnWrite, OnRead, Superseded
<1>5. ASSUME NEW i \in DOMAIN io.ready, DequeueThreadSafely(w, i)
      PROVE  Replies'
  <2>1. \/ pending' = pending
        \/ \E j \in DOMAIN pending : pending' = RemoveAt(pending, j)
    BY <1>5 DEF DequeueThreadSafely
  <2>2. \A y : Has(pending', y) => Has(pending, y)
    BY <1>1, <2>1, HasRemoved
  <2>3. Quiet(io, io', active) /\ active' = active
    BY <1>3, <1>5 DEF DequeueThreadSafely
  <2> QED
    BY <1>2, <2>2, <2>3, QuietReplies
<1>6. CASE RunsOnFreedPool(w)
  BY <1>2, <1>6, IdleReplies DEF RunsOnFreedPool
<1> QED
  BY <1>4, <1>5, <1>6 DEF RunsHandler

LEMMA UserReplies ==
    ASSUME TypeOK, OrderKept, Replies, NothingNew, Lost \subseteq Lost',
           NEW t \in Threads, UserStep(t)
    PROVE  Replies'
<1>1. io \in IoTypes /\ frame[t] \in Frames /\ active \in Requests \cup {None}
  BY DEF TypeOK
<1>2. UNCHANGED arrival
  BY DEF UserStep, EnterHandler, HandlerReturns, HandlerTerminates, ExerciseActive,
         ExerciseQueued, ExerciseFaults, ExerciseAdvances, ExerciseCancels, history
<1>3. CASE UNCHANGED <<io, pending, active>>
  BY <1>2, <1>3, IdleReplies
<1>4. CASE ExerciseQueued(t)
  <2>1. PICK c : /\ c = Completion("dequeue", frame[t].req, "success", NoSegment)
                 /\ io' = Queued(io, c)
    BY <1>4 DEF ExerciseQueued
  <2>2. frame[t].req \in Requests
    BY <1>1, <1>4, ExerciseFrame DEF ExerciseQueued, ReadsPool
  <2>3. c \in Completions /\ c.call = "dequeue" /\ Bare(c)
    BY <2>1, <2>2, CompletionType DEF Errors, Completion, Bare
  <2>4. Quiet(io, io', active)
    BY <1>1, <2>1, <2>3, QueuedQuiet
  <2> QED
    BY <1>2, <1>4, <2>4, QuietReplies DEF ExerciseQueued
<1>5. CASE ExerciseCancels(t) /\ io' = Cancelled(io)
  <2>1. Quiet(io, io', active)
    BY <1>1, <1>5, CancelledQuiet
  <2> QED
    BY <1>2, <1>5, <2>1, QuietReplies DEF ExerciseCancels
<1>6. CASE ExerciseAdvances(t) /\ ~shutting_down
  <2>1. RunNextRequest(pending, io) /\ displaced' = displaced \cup ({active} \ {None})
    BY <1>6 DEF ExerciseAdvances
  <2>3. Releases(io)
    BY <1>1, <2>1 DEF Releases, Lost, Deprived
  <2>4. Quiet(io, io, active)
    BY <1>1, QuietStays
  <2>5. /\ pending \in Seq(Requests) /\ arrival' \in Arrivals
        /\ Numbered(arrival', pending) /\ Increasing(arrival', pending)
        /\ Operations(io, pending, active, arrival')
    BY <1>2 DEF TypeOK, Arrivals, OrderKept, InOrder, Replies
  <2>6. ArrivalsStay
    BY <1>2 DEF ArrivalsStay
  <2> QED
    BY <1>1, <2>1, <2>3, <2>4, <2>5, <2>6, ConnectionPasses
<1>7. CASE ExerciseAdvances(t) /\ shutting_down
  BY <1>3, <1>7 DEF ExerciseAdvances
<1>8. CASE \/ EnterHandler(t) \/ HandlerReturns(t) \/ HandlerTerminates(t)
           \/ ExerciseActive(t) \/ ExerciseFaults(t)
           \/ (ExerciseCancels(t) /\ UNCHANGED io)
  BY <1>3, <1>8 DEF EnterHandler, HandlerReturns, HandlerTerminates, ExerciseActive,
                    ExerciseFaults, ExerciseCancels
<1> QED
  BY <1>4, <1>5, <1>6, <1>7, <1>8 DEF UserStep, ExerciseCancels

LEMMA DeliverReplies ==
    ASSUME TypeOK, OrderKept, Replies, NothingNew, Lost \subseteq Lost',
           NEW t \in Threads, NEW r \in Requests, Deliver(t, r)
    PROVE  Replies'
<1>1. PICK b, q : b = [arrival EXCEPT ![r] = arrivals + 1] /\ q = Append(pending, r)
  OBVIOUS
<1>2. /\ io \in IoTypes /\ arrival \in Arrivals /\ b \in Arrivals
      /\ io.log \in Seq(Requests) /\ io.writes \in Seq(Requests)
      /\ pending \in Seq(Requests) /\ q \in Seq(Requests)
      /\ active \in Requests \cup {None}
      /\ arrivals \in Nat /\ arrival[r] = 0 /\ arrival' = b
  BY <1>1, IoFields DEF TypeOK, Arrivals, Deliver
<1>3. InOrder(io.log, io.writes, q, b, arrivals + 1)
  BY <1>1, <1>2, OrderArrive DEF OrderKept
<1>4. Operations(io, q, active, b)
  <2>1. \A x \in Requests : arrival[x] <= arrivals
    BY DEF OrderKept, InOrder
  <2>2. Operations(io, pending, active, arrival)
    BY DEF Replies
  <2> QED
    BY <1>1, <1>2, <2>1, <2>2, OperationsArrive
<1>5. ArrivalsStay
  BY <1>1, <1>2 DEF ArrivalsStay, Arrivals
<1>6. Quiet(io, io, active)
  BY <1>2, QuietStays
<1>7. CASE active = None
  <2>1. RunNextRequest(q, io)
    BY <1>1, <1>7 DEF Deliver, Admit
  <2>2. Releases(io)
    BY <1>7 DEF Releases
  <2>3. Numbered(arrival', q) /\ Increasing(arrival', q) /\ Operations(io, q, active, arrival')
    BY <1>2, <1>3, <1>4 DEF InOrder
  <2> QED
    BY <1>2, <1>5, <1>6, <2>1, <2>2, <2>3, ConnectionPasses
<1>8. CASE active # None
  <2>1. pending' = q /\ active' = active /\ io' = io
    BY <1>1, <1>8 DEF Deliver, Admit
  <2>2. Operations(io', pending', active', arrival') /\ Quiet(io, io', active)
    BY <1>2, <1>4, <1>6, <2>1
  <2> QED
    BY <1>5, <2>1, <2>2, ConnectionStays
<1> QED
  BY <1>7, <1>8

LEMMA DestructionReplies ==
    ASSUME TypeOK, Replies, NothingNew, Lost \subseteq Lost',
           Destroy \/ DestructorStep \/ WakesSpuriously
    PROVE  Replies'
<1>1. io \in IoTypes
  BY DEF TypeOK
<1>2. UNCHANGED <<pending, active, arrival>>
  BY DEF Destroy, DestructorStep, TellPending, AwaitDequeued, Drained, WakesSpuriously, history
<1>3. io' \in {io, Cancelled(io), Closed(io), Closed(Cancelled(io))}
  BY DEF Destroy, DestructorStep, TellPending, AwaitDequeued, Drained, WakesSpuriously,
         CloseForGood
<1>4. /\ Quiet(io, io, active) /\ Quiet(io, Closed(io), active)
      /\ Quiet(io, Cancelled(io), active) /\ Cancelled(io) \in IoTypes
  BY <1>1, QuietStays, ClosedQuiet, CancelledQuiet, CancelledType
<1>5. Quiet(io, Closed(Cancelled(io)), active)
  <2>1. PICK s : s = Cancelled(io)
    OBVIOUS
  <2>2. Quiet(s, Closed(s), active)
    BY <1>4, <2>1, ClosedQuiet
  <2> QED
    BY <1>4, <2>1, <2>2, QuietTransitive
<1>6. Quiet(io, io', active)
  BY <1>3, <1>4, <1>5
<1> QED
  BY <1>2, <1>6, QuietReplies

LEMMA RepliesStep ==
    ASSUME TypeOK, TypeOK', OrderKept, Replies, [Next]_vars
    PROVE  Replies'
<1>1. Lost \subseteq Lost' /\ NothingNew
  BY StepTells DEF Replies
<1>2. io \in IoTypes /\ io' \in IoTypes
  BY DEF TypeOK
<1>3. CASE Outside(WriteCompletes)
  BY <1>1, <1>3, WriteCompletesReplies DEF Outside, Rest, history
<1>4. CASE Outside(ReadCompletes)
  BY <1>1, <1>4, ReadCompletesReplies DEF Outside, Rest, history
<1>5. CASE \/ Outside(WriteGoesNowhere) \/ Outside(ReadFails)
           \/ Outside(NodeReplies) \/ Outside(PeerResets)
  <2>1. Stream(io)
    BY DEF Replies
  <2>2. Quiet(io, io', active) /\ UNCHANGED <<pending, active, arrival>>
    BY <1>2, <1>5, <2>1, NetworkQuiet, NodeRepliesQuiet DEF Outside, Rest, history
  <2> QED
    BY <1>1, <2>2, QuietReplies
<1>6. ASSUME NEW w \in Workers, RunsHandler(w) PROVE Replies'
  BY <1>1, <1>6, HandlersReplies
<1>7. ASSUME NEW t \in Threads, UserStep(t) PROVE Replies'
  BY <1>1, <1>7, UserReplies
<1>8. ASSUME NEW t \in Threads, NEW r \in Requests, Deliver(t, r) PROVE Replies'
  BY <1>1, <1>8, DeliverReplies
<1>9. ASSUME NEW t \in Threads, NEW r \in Requests, Abandon(t, r) PROVE Replies'
  BY <1>1, <1>9, IdleReplies DEF Abandon, history
<1>10. CASE Destroy \/ DestructorStep \/ WakesSpuriously
  BY <1>1, <1>10, DestructionReplies
<1>11. CASE UNCHANGED vars
  BY <1>1, <1>11, IdleReplies DEF vars, history
<1> QED
  BY <1>3, <1>4, <1>5, <1>6, <1>7, <1>8, <1>9, <1>10, <1>11 DEF Next, Application

-----------------------------------------------------------------------------
LEMMA RepliesInit ==
    ASSUME Init
    PROVE  Replies
<1>1. /\ io.log = <<>> /\ io.inbox = <<>> /\ io.serving = <<>> /\ io.reads = <<>>
      /\ io.writes = <<>> /\ io.ready = <<>>
      /\ active = None
  BY DEF Init, IoInit
<1>2. \A q : ~Has(io.log, q) /\ ~Has(io.writes, q) /\ ~Coming(io, q) /\ ~Outstanding(io, q)
  BY <1>1 DEF Has, Coming, Arrived, Owed, Outstanding
<1>3. Operations(io, pending, active, arrival) /\ Stream(io) /\ Stray
  BY <1>1, <1>2 DEF Operations, Stream, Stray
<1>4. \A r, q \in Requests : \A how \in Tidings : ~Hears(r, how, q)
  <2>1. ASSUME NEW r \in Requests, NEW n PROVE ~Has(heard[r], n)
    BY DEF Init, Has
  <2>2. ASSUME NEW t \in Threads, NEW r, NEW n PROVE frame[t] # Calling(r, n)
    BY DEF Init, Calling, Idle
  <2>3. \A c : ~Has(io.ready, c)
    BY <1>1 DEF Has
  <2> QED
    BY <2>1, <2>2, <2>3 DEF Hears, Tells, Comes
<1>5. "complete" \in Tidings
  BY DEF Tidings
<1> QED
  BY <1>3, <1>4, <1>5 DEF Replies, Foreign, Complete, Hears

LEMMA RepliesSuffice ==
    ASSUME TypeOK, Replies
    PROVE  LateReplyIsOfUnfinished
<1> SUFFICES ASSUME NEW r \in Requests, NEW i \in DOMAIN heard[r], NEW q,
                    q = heard[r][i].of, q \notin {r, None}
             PROVE  /\ arrival[q] < arrival[r]
                    /\ Deprived(q)
                    /\ \A j \in DOMAIN heard[q] :
                          heard[q][j] # [how |-> "complete", of |-> q]
  BY DEF LateReplyIsOfUnfinished
<1>1. heard[r][i] \in News
  BY DEF TypeOK
<1>2. PICK how \in Tidings : heard[r][i] = [how |-> how, of |-> q]
  BY <1>1 DEF News
<1>3. q \in Requests
  BY <1>1 DEF News
<1>4. Hears(r, how, q)
  BY <1>2 DEF Hears, Tells, Has
<1>5. arrival[q] < arrival[r] /\ q \in Lost /\ ~Hears(q, "complete", q)
  BY <1>3, <1>4 DEF Replies, Foreign
<1> QED
  BY <1>5 DEF Lost, Hears, Tells, Has

\* A handler hears another request's reply only if that one came earlier, and lost the
\* connection before it had heard all of its reply: a clean exercise took it from it, or
\* it could not be replaced (scheduler.cxx:226 and :173).
THEOREM LateRepliesAreOfUnfinished == Spec => []LateReplyIsOfUnfinished
<1>1. Init => Replies
  BY RepliesInit
<1>2. TypeOK /\ TypeOK' /\ OrderKept /\ Replies /\ [Next]_vars => Replies'
  BY RepliesStep
<1>3. TypeOK /\ Replies => LateReplyIsOfUnfinished
  BY RepliesSuffice
<1> QED
  BY <1>1, <1>2, <1>3, TypeCorrect, OrderMaintained, PTL DEF Spec

-----------------------------------------------------------------------------
(***************************************************************************)
(* A request has at most one operation at a time: asio is never asked to   *)
(* read for a request that is being written, or whose handler is queued.   *)
(***************************************************************************)
Distinct(q) == \A i, j \in DOMAIN q : i # j => q[i] # q[j]

\* No two of the completions p, or one of p and one of q, are of the same request.
Once(p) ==
    \A i, j \in DOMAIN p :
        i # j /\ Operation(p[i]) /\ Operation(p[j]) => p[i].req # p[j].req

Apart(p, q) ==
    \A c, d : Has(p, c) /\ Has(q, d) /\ Operation(c) /\ Operation(d) => c.req # d.req

Sole(s) ==
    /\ Distinct(s.reads) /\ Distinct(s.writes) /\ Once(s.ready)
    /\ \A q : ~(Has(s.reads, q) /\ Has(s.writes, q))
    /\ \A c : Has(s.ready, c) /\ Operation(c) =>
                 ~Has(s.reads, c.req) /\ ~Has(s.writes, c.req)

LEMMA DistinctAppend ==
    ASSUME NEW S, NEW q \in Seq(S), NEW x \in S, Distinct(q), ~Has(q, x)
    PROVE  Distinct(Append(q, x))
<1>1. PICK p : p = Append(q, x)
  OBVIOUS
<1>2. /\ Len(q) \in Nat /\ DOMAIN q = 1..Len(q) /\ DOMAIN p = 1..(Len(q) + 1)
      /\ \A i \in 1..Len(q) : p[i] = q[i]
      /\ p[Len(q) + 1] = x
  BY <1>1, AppendProperties, LenProperties
<1>3. \A i \in DOMAIN p : i \in DOMAIN q \/ i = Len(q) + 1
  BY <1>2
<1>4. \A i \in DOMAIN q : q[i] # x
  BY DEF Has
<1> QED
  BY <1>1, <1>2, <1>3, <1>4 DEF Distinct

LEMMA DistinctTail ==
    ASSUME NEW S, NEW q \in Seq(S), q # <<>>, Distinct(q)
    PROVE  Distinct(Tail(q)) /\ ~Has(Tail(q), Head(q))
<1>1. PICK p : p = Tail(q)
  OBVIOUS
<1>2. /\ Len(q) \in Nat \ {0} /\ DOMAIN q = 1..Len(q) /\ DOMAIN p = 1..(Len(q) - 1)
      /\ \A i \in 1..(Len(q) - 1) : p[i] = q[i + 1]
      /\ Head(q) = q[1]
  BY <1>1, HeadTailProperties, LenProperties, EmptySeq
<1>3. \A i \in DOMAIN p : i + 1 \in DOMAIN q /\ i + 1 # 1 /\ p[i] = q[i + 1]
  BY <1>2
<1>4. \A i, j \in DOMAIN p : i # j => i + 1 # j + 1
  BY <1>2
<1>5. 1 \in DOMAIN q
  BY <1>2
<1> QED
  BY <1>1, <1>2, <1>3, <1>4, <1>5 DEF Distinct, Has

LEMMA OnceAppend ==
    ASSUME NEW q \in Seq(Completions), NEW c \in Completions, Once(q),
           \A d : Has(q, d) /\ Operation(d) /\ Operation(c) => d.req # c.req
    PROVE  Once(Append(q, c))
<1>1. PICK p : p = Append(q, c)
  OBVIOUS
<1>2. /\ Len(q) \in Nat /\ DOMAIN q = 1..Len(q) /\ DOMAIN p = 1..(Len(q) + 1)
      /\ \A i \in 1..Len(q) : p[i] = q[i]
      /\ p[Len(q) + 1] = c
  BY <1>1, AppendProperties, LenProperties
<1>3. \A i \in DOMAIN p : i \in DOMAIN q \/ i = Len(q) + 1
  BY <1>2
<1>4. \A i \in DOMAIN q : Operation(q[i]) /\ Operation(c) => q[i].req # c.req
  BY DEF Has
<1> QED
  BY <1>1, <1>2, <1>3, <1>4 DEF Once

LEMMA OnceRemoved ==
    ASSUME NEW q \in Seq(Completions), NEW k \in DOMAIN q, Once(q)
    PROVE  /\ Once(RemoveAt(q, k))
           /\ \A c : /\ Has(RemoveAt(q, k), c) /\ Operation(c) /\ Operation(q[k])
                     => c.req # q[k].req
<1>1. PICK p : p = RemoveAt(q, k)
  OBVIOUS
<1>2. /\ Len(q) \in Nat /\ DOMAIN q = 1..Len(q) /\ DOMAIN p = 1..(Len(q) - 1)
      /\ k \in 1..Len(q)
      /\ \A j \in 1..(Len(q) - 1) : p[j] = IF j < k THEN q[j] ELSE q[j + 1]
  BY <1>1, RemoveAtProperties, LenProperties
<1> DEFINE from(j) == IF j < k THEN j ELSE j + 1
<1>3. /\ \A j \in DOMAIN p : from(j) \in DOMAIN q /\ from(j) # k /\ p[j] = q[from(j)]
      /\ \A i, j \in DOMAIN p : i # j => from(i) # from(j)
  BY <1>2
<1> HIDE DEF from
<1> QED
  BY <1>1, <1>3 DEF Once, Has

LEMMA OnceConcat ==
    ASSUME NEW p \in Seq(Completions), NEW q \in Seq(Completions),
           Once(p), Once(q), Apart(p, q)
    PROVE  Once(p \o q)
<1>1. PICK r : r = p \o q
  OBVIOUS
<1>2. /\ Len(p) \in Nat /\ DOMAIN p = 1..Len(p)
      /\ Len(q) \in Nat /\ DOMAIN q = 1..Len(q)
      /\ DOMAIN r = 1..(Len(p) + Len(q))
      /\ \A i \in 1..(Len(p) + Len(q)) :
            r[i] = IF i <= Len(p) THEN p[i] ELSE q[i - Len(p)]
  BY <1>1, ConcatProperties, LenProperties
<1>3. \A i \in DOMAIN r :
         \/ i \in DOMAIN p /\ r[i] = p[i]
         \/ i - Len(p) \in DOMAIN q /\ r[i] = q[i - Len(p)]
  BY <1>2
<1>4. \A i, j \in DOMAIN r : i # j => i - Len(p) # j - Len(p)
  BY <1>2
<1>5. \A i \in DOMAIN p, j \in DOMAIN q :
         Operation(p[i]) /\ Operation(q[j]) => p[i].req # q[j].req
  BY DEF Apart, Has
<1> QED
  BY <1>1, <1>3, <1>4, <1>5 DEF Once
\* One operation of a request that had none, or a removal that is posted.
LEMMA SoleAdds ==
    ASSUME NEW s \in IoTypes, NEW t, NEW x \in Requests, Sole(s), ~Outstanding(s, x),
           \/ /\ t.reads = Append(s.reads, x) /\ t.writes = s.writes /\ t.ready = s.ready
           \/ /\ t.reads = s.reads /\ t.writes = Append(s.writes, x) /\ t.ready = s.ready
    PROVE  Sole(t)
<1>1. s.reads \in Seq(Requests) /\ s.writes \in Seq(Requests) /\ s.ready \in Seq(Completions)
  BY IoFields
<1>2. /\ ~Has(s.reads, x) /\ ~Has(s.writes, x)
      /\ \A c : Has(s.ready, c) /\ Operation(c) => c.req # x
  BY <1>1 DEF Outstanding, Has, Operation
<1>3. CASE t.reads = Append(s.reads, x) /\ t.writes = s.writes /\ t.ready = s.ready
  <2>1. Distinct(Append(s.reads, x))
    BY <1>1, <1>2, DistinctAppend DEF Sole
  <2>2. \A q : Has(Append(s.reads, x), q) => Has(s.reads, q) \/ q = x
    BY <1>1, HasAppend
  <2> QED
    BY <1>2, <1>3, <2>1, <2>2 DEF Sole
<1>4. CASE t.reads = s.reads /\ t.writes = Append(s.writes, x) /\ t.ready = s.ready
  <2>1. Distinct(Append(s.writes, x))
    BY <1>1, <1>2, DistinctAppend DEF Sole
  <2>2. \A q : Has(Append(s.writes, x), q) => Has(s.writes, q) \/ q = x
    BY <1>1, HasAppend
  <2> QED
    BY <1>2, <1>4, <2>1, <2>2 DEF Sole
<1> QED
  BY <1>3, <1>4

LEMMA SoleQueues ==
    ASSUME NEW s \in IoTypes, NEW t, NEW c \in Completions, Sole(s),
           Operation(c) => ~Outstanding(s, c.req),
           t.reads = s.reads, t.writes = s.writes, t.ready = Append(s.ready, c)
    PROVE  Sole(t)
<1>1. s.ready \in Seq(Completions)
  BY IoFields
<1>2. Operation(c) => /\ ~Has(s.reads, c.req) /\ ~Has(s.writes, c.req)
                      /\ \A d : Has(s.ready, d) /\ Operation(d) => d.req # c.req
  BY DEF Outstanding, Has, Operation
<1>3. Once(Append(s.ready, c))
  BY <1>1, <1>2, OnceAppend DEF Sole
<1>4. \A d : Has(Append(s.ready, c), d) => Has(s.ready, d) \/ d = c
  BY <1>1, HasAppend
<1>5. Once(t.ready) /\ \A d : Has(t.ready, d) => Has(s.ready, d) \/ d = c
  BY <1>3, <1>4
<1>6. \A d : Has(t.ready, d) /\ Operation(d) => ~Has(t.reads, d.req) /\ ~Has(t.writes, d.req)
  BY <1>2, <1>5 DEF Sole
<1>7. /\ Distinct(t.reads) /\ Distinct(t.writes)
      /\ \A q : ~(Has(t.reads, q) /\ Has(t.writes, q))
  BY DEF Sole
<1> QED
  BY <1>5, <1>6, <1>7 DEF Sole

\* The oldest read or write is over.
LEMMA SoleEnds ==
    ASSUME NEW s \in IoTypes, NEW t, NEW x, Sole(s),
           \/ /\ s.reads # <<>> /\ x = Head(s.reads)
              /\ t.reads = Tail(s.reads) /\ t.writes = s.writes /\ t.ready = s.ready
           \/ /\ s.writes # <<>> /\ x = Head(s.writes)
              /\ t.reads = s.reads /\ t.writes = Tail(s.writes) /\ t.ready = s.ready
    PROVE  /\ Sole(t) /\ x \in Requests /\ ~Outstanding(t, x) /\ Outstanding(s, x)
           /\ \A q : Outstanding(t, q) => Outstanding(s, q)
<1>1. s.reads \in Seq(Requests) /\ s.writes \in Seq(Requests) /\ s.ready \in Seq(Completions)
  BY IoFields
<1>2. CASE /\ s.reads # <<>> /\ x = Head(s.reads)
           /\ t.reads = Tail(s.reads) /\ t.writes = s.writes /\ t.ready = s.ready
  <2>1. Distinct(Tail(s.reads)) /\ ~Has(Tail(s.reads), x)
    BY <1>1, <1>2, DistinctTail DEF Sole
  <2>2. /\ \A q : Has(Tail(s.reads), q) => Has(s.reads, q)
        /\ Has(s.reads, x) /\ x \in Requests
    BY <1>1, <1>2, HasTail
  <2>3. Sole(t)
    BY <1>2, <2>1, <2>2 DEF Sole
  <2>4. ~Outstanding(t, x)
    <3>1. ~Has(t.reads, x) /\ ~Has(t.writes, x)
      BY <1>2, <2>1, <2>2 DEF Sole
    <3>2. \A c : Has(t.ready, c) /\ Operation(c) => c.req # x
      BY <1>2, <2>2 DEF Sole
    <3> QED
      BY <3>1, <3>2 DEF Outstanding, Has, Operation
  <2> QED
    BY <1>2, <2>2, <2>3, <2>4 DEF Outstanding, Has
<1>3. CASE /\ s.writes # <<>> /\ x = Head(s.writes)
           /\ t.reads = s.reads /\ t.writes = Tail(s.writes) /\ t.ready = s.ready
  <2>1. Distinct(Tail(s.writes)) /\ ~Has(Tail(s.writes), x)
    BY <1>1, <1>3, DistinctTail DEF Sole
  <2>2. /\ \A q : Has(Tail(s.writes), q) => Has(s.writes, q)
        /\ Has(s.writes, x) /\ x \in Requests
    BY <1>1, <1>3, HasTail
  <2>3. Sole(t)
    BY <1>3, <2>1, <2>2 DEF Sole
  <2>4. ~Outstanding(t, x)
    <3>1. ~Has(t.reads, x) /\ ~Has(t.writes, x)
      BY <1>3, <2>1, <2>2 DEF Sole
    <3>2. \A c : Has(t.ready, c) /\ Operation(c) => c.req # x
      BY <1>3, <2>2 DEF Sole
    <3> QED
      BY <3>1, <3>2 DEF Outstanding, Has, Operation
  <2> QED
    BY <1>3, <2>2, <2>3, <2>4 DEF Outstanding, Has
<1> QED
  BY <1>2, <1>3

LEMMA SoleTaken ==
    ASSUME NEW s \in IoTypes, NEW i \in DOMAIN s.ready, Sole(s)
    PROVE  /\ Sole(Taken(s, i))
           /\ Operation(s.ready[i]) => ~Outstanding(Taken(s, i), s.ready[i].req)
<1>1. PICK t : t = Taken(s, i)
  OBVIOUS
<1>2. t.writes = s.writes /\ t.reads = s.reads /\ t.ready = RemoveAt(s.ready, i)
  BY <1>1 DEF Taken, IoTypes
<1>3. s.ready \in Seq(Completions)
  BY IoFields
<1>4. /\ Once(t.ready)
      /\ \A c : Has(t.ready, c) /\ Operation(c) /\ Operation(s.ready[i])
                => c.req # s.ready[i].req
  BY <1>2, <1>3, OnceRemoved DEF Sole
<1>5. \A c : Has(t.ready, c) => Has(s.ready, c)
  BY <1>2, <1>3, HasRemoved
<1>6. Sole(t)
  BY <1>2, <1>4, <1>5 DEF Sole
<1>7. Operation(s.ready[i]) =>
         ~Has(s.reads, s.ready[i].req) /\ ~Has(s.writes, s.ready[i].req)
  BY DEF Sole, Has
<1>8. Operation(s.ready[i]) => ~Outstanding(t, s.ready[i].req)
  BY <1>2, <1>4, <1>7 DEF Outstanding, Has, Operation
<1> QED
  BY <1>1, <1>6, <1>8

LEMMA SoleCancelled ==
    ASSUME NEW s \in IoTypes, Sole(s)
    PROVE  Sole(Cancelled(s))
<1> DEFINE aborted(call, q) ==
            [i \in 1..Len(q) |-> Completion(call, q[i], "aborted", NoSegment)]
<1>1. s.reads \in Seq(Requests) /\ s.writes \in Seq(Requests) /\ s.ready \in Seq(Completions)
  BY IoFields
<1>2. ASSUME NEW call \in {"on_read", "on_write"}, NEW q \in Seq(Requests), Distinct(q)
      PROVE  /\ aborted(call, q) \in Seq(Completions)
             /\ \A c : Has(aborted(call, q), c) => Has(q, c.req)
             /\ Once(aborted(call, q))
  <2>1. \A i \in 1..Len(q) :
           Completion(call, q[i], "aborted", NoSegment) \in Completions
    BY CompletionType DEF Errors
  <2>2. aborted(call, q) \in Seq(Completions)
    BY <2>1
  <2>3. DOMAIN q = 1..Len(q) /\ DOMAIN aborted(call, q) = 1..Len(q)
    BY LenProperties
  <2>4. ASSUME NEW i \in 1..Len(q)
        PROVE  aborted(call, q)[i].req = q[i]
    BY DEF Completion
  <2> HIDE DEF aborted
  <2> QED
    BY <1>2, <2>2, <2>3, <2>4 DEF Has, Once, Distinct
<1>3. PICK a, b : a = aborted("on_read", s.reads) /\ b = aborted("on_write", s.writes)
  OBVIOUS
<1>4. /\ a \in Seq(Completions) /\ Once(a) /\ \A c : Has(a, c) => Has(s.reads, c.req)
      /\ b \in Seq(Completions) /\ Once(b) /\ \A c : Has(b, c) => Has(s.writes, c.req)
  BY <1>1, <1>2, <1>3 DEF Sole
<1>5. PICK t : t = Cancelled(s)
  OBVIOUS
<1>6. t.reads = <<>> /\ t.writes = <<>> /\ t.ready = (s.ready \o a) \o b
  BY <1>3, <1>5 DEF Cancelled, IoTypes
<1>7. PICK r : r = s.ready \o a
  OBVIOUS
<1>8. r \in Seq(Completions) /\ \A c : Has(r, c) => Has(s.ready, c) \/ Has(a, c)
  BY <1>1, <1>4, <1>7, HasConcat
<1>9. Apart(s.ready, a) /\ Apart(r, b)
  BY <1>4, <1>8 DEF Apart, Sole
<1>10. Once(r)
  BY <1>1, <1>4, <1>7, <1>9, OnceConcat DEF Sole
<1>11. Once(r \o b)
  BY <1>4, <1>8, <1>9, <1>10, OnceConcat
<1> QED
  BY <1>5, <1>6, <1>7, <1>11 DEF Sole, Distinct, Has
\* Sole and Outstanding speak of three fields only.
LEMMA SoleFields ==
    ASSUME NEW s, NEW t, t.reads = s.reads, t.writes = s.writes, t.ready = s.ready
    PROVE  /\ Sole(t) <=> Sole(s)
           /\ \A q : Outstanding(t, q) <=> Outstanding(s, q)
BY DEF Sole, Outstanding

LEMMA SoleClosed ==
    ASSUME NEW s \in IoTypes, Sole(s)
    PROVE  Sole(Closed(s)) /\ Sole(Connected(Closed(s)))
<1>1. PICK t : t = Cancelled(s)
  OBVIOUS
<1>2. t \in IoTypes /\ Sole(t)
  BY <1>1, CancelledType, SoleCancelled
<1>3. PICK u : u = Closed(s)
  OBVIOUS
<1>4. u \in IoTypes /\ u.reads = t.reads /\ u.writes = t.writes /\ u.ready = t.ready
  BY <1>1, <1>2, <1>3, ClosedType DEF Closed, IoTypes
<1>5. PICK v : v = Connected(u)
  OBVIOUS
<1>6. v.reads = u.reads /\ v.writes = u.writes /\ v.ready = u.ready
  BY <1>4, <1>5 DEF Connected, IoTypes
<1>7. Sole(u)
  BY <1>2, <1>4, SoleFields
<1>8. Sole(v)
  BY <1>6, <1>7, SoleFields
<1> QED
  BY <1>3, <1>5, <1>7, <1>8

LEMMA AsyncReadSole ==
    ASSUME NEW s \in IoTypes, NEW x \in Requests, Sole(s), ~Outstanding(s, x)
    PROVE  Sole(AsyncRead(s, x))
<1>1. PICK c : c = Completion("on_read", x, "failed", NoSegment)
  OBVIOUS
<1>2. c \in Completions /\ c.req = x
  BY <1>1, CompletionType DEF Errors, Completion
<1>3. PICK t : t = Queued(s, c)
  OBVIOUS
<1>4. t.reads = s.reads /\ t.writes = s.writes /\ t.ready = Append(s.ready, c)
  BY <1>3 DEF Queued, IoTypes
<1>5. Sole(t)
  BY <1>2, <1>4, SoleQueues
<1>6. PICK u : u = [s EXCEPT !.reads = Append(@, x)]
  OBVIOUS
<1>7. u.reads = Append(s.reads, x) /\ u.writes = s.writes /\ u.ready = s.ready
  BY <1>6 DEF IoTypes
<1>8. Sole(u)
  BY <1>7, SoleAdds
<1> QED
  BY <1>1, <1>3, <1>5, <1>6, <1>8 DEF AsyncRead

LEMMA TransmittedSole ==
    ASSUME NEW s \in IoTypes, NEW x \in Requests, Sole(s), ~Outstanding(s, x)
    PROVE  Sole(Transmitted(s, x))
<1>1. PICK c : c = Completion("on_write", x, "success", NoSegment)
  OBVIOUS
<1>2. c \in Completions /\ c.req = x
  BY <1>1, CompletionType DEF Errors, Completion
<1>3. PICK t : t = Transmitted(s, x)
  OBVIOUS
<1>4. t.reads = s.reads /\ t.writes = s.writes /\ t.ready = Append(s.ready, c)
  BY <1>1, <1>3 DEF Transmitted, IoTypes
<1>5. Sole(t)
  BY <1>2, <1>4, SoleQueues
<1> QED
  BY <1>3, <1>5

LEMMA AsyncWriteSole ==
    ASSUME NEW s \in IoTypes, NEW x \in Requests, Sole(s), ~Outstanding(s, x)
    PROVE  Sole(AsyncWrite(s, x))
<1>1. PICK c : c = Completion("on_write", x, "failed", NoSegment)
  OBVIOUS
<1>2. c \in Completions /\ c.req = x
  BY <1>1, CompletionType DEF Errors, Completion
<1>3. PICK t : t = Queued(s, c)
  OBVIOUS
<1>4. t.reads = s.reads /\ t.writes = s.writes /\ t.ready = Append(s.ready, c)
  BY <1>3 DEF Queued, IoTypes
<1>5. Sole(t)
  BY <1>2, <1>4, SoleQueues
<1>6. PICK u : u = [s EXCEPT !.writes = Append(@, x)]
  OBVIOUS
<1>7. u.reads = s.reads /\ u.writes = Append(s.writes, x) /\ u.ready = s.ready
  BY <1>6 DEF IoTypes
<1>8. Sole(u)
  BY <1>7, SoleAdds
<1>9. Sole(Transmitted(s, x))
  BY TransmittedSole
<1> QED
  BY <1>1, <1>3, <1>5, <1>6, <1>8, <1>9 DEF AsyncWrite

LEMMA RunNextRequestSole ==
    ASSUME NEW s \in IoTypes, NEW q \in Seq(Requests), NEW act, NEW a \in Arrivals,
           Sole(s), Operations(s, q, act, a), RunNextRequest(q, s)
    PROVE  Sole(io')
<1>1. CASE q = <<>>
  BY <1>1 DEF RunNextRequest
<1>2. CASE q # <<>>
  <2>1. PICK x : x = Head(q)
    OBVIOUS
  <2>2. x \in Requests /\ 1 \in DOMAIN q /\ x = q[1]
    BY <1>2, <2>1, HeadTailProperties, LenProperties, EmptySeq
  <2>3. ~Outstanding(s, x)
    BY <2>2, Fresh
  <2>4. io' = AsyncWrite(s, x)
    BY <1>2, <2>1 DEF RunNextRequest
  <2> QED
    BY <2>2, <2>3, <2>4, AsyncWriteSole
<1> QED
  BY <1>1, <1>2

\* An operation of a request ends with one handler of it to run.
LEMMA EndsSole ==
    ASSUME NEW s \in IoTypes, NEW t, NEW u, NEW x, NEW c \in Completions, Sole(s),
           \/ /\ s.reads # <<>> /\ x = Head(s.reads)
              /\ t.reads = Tail(s.reads) /\ t.writes = s.writes /\ t.ready = s.ready
           \/ /\ s.writes # <<>> /\ x = Head(s.writes)
              /\ t.reads = s.reads /\ t.writes = Tail(s.writes) /\ t.ready = s.ready,
           t \in IoTypes, c.req = x,
           u.reads = t.reads, u.writes = t.writes, u.ready = Append(t.ready, c)
    PROVE  /\ Sole(u)
           /\ \A q : Outstanding(u, q) => Outstanding(s, q)
<1>1. /\ Sole(t) /\ ~Outstanding(t, x) /\ Outstanding(s, x)
      /\ \A q : Outstanding(t, q) => Outstanding(s, q)
  BY SoleEnds
<1>2. Sole(u)
  BY <1>1, SoleQueues
<1>3. t.ready \in Seq(Completions)
  BY IoFields
<1>4. \A d : Has(u.ready, d) => Has(t.ready, d) \/ d = c
  BY <1>3, HasAppend
<1>5. ASSUME NEW q, Outstanding(u, q) PROVE Outstanding(t, q) \/ q = x
  <2>1. CASE Has(u.reads, q) \/ Has(u.writes, q)
    BY <2>1 DEF Outstanding, Has
  <2>2. ASSUME NEW d, Has(u.ready, d), d.req = q, d.call # "dequeue"
        PROVE  Outstanding(t, q) \/ q = x
    BY <1>4, <2>2 DEF Outstanding, Has
  <2> QED
    BY <1>5, <2>1, <2>2 DEF Outstanding, Has
<1> QED
  BY <1>1, <1>2, <1>5
LEMMA NetworkSole ==
    ASSUME io \in IoTypes, Sole(io),
           \/ WriteCompletes \/ WriteGoesNowhere \/ ReadCompletes
           \/ ReadFails \/ NodeReplies \/ PeerResets
    PROVE  /\ Sole(io')
           /\ \A q : Outstanding(io', q) => Outstanding(io, q)
<1>1. PICK s : s = io
  OBVIOUS
<1>2. /\ s \in IoTypes /\ Sole(s) /\ s.ready \in Seq(Completions)
      /\ s.reads \in Seq(Requests) /\ s.writes \in Seq(Requests)
  BY <1>1, IoFields
<1>3. CASE NodeReplies \/ PeerResets
  <2>1. io'.reads = io.reads /\ io'.writes = io.writes /\ io'.ready = io.ready
    BY <1>3 DEF NodeReplies, PeerResets, IoTypes
  <2> QED
    BY <2>1, SoleFields
<1>4. CASE WriteCompletes \/ WriteGoesNowhere
  <2>1. PICK t, x : t = [s EXCEPT !.writes = Tail(@)] /\ x = Head(s.writes)
    OBVIOUS
  <2>2. s.writes # <<>> /\ x \in Requests /\ Tail(s.writes) \in Seq(Requests)
    BY <1>1, <1>2, <1>4, <2>1, HasTail DEF WriteCompletes, WriteGoesNowhere
  <2>3. t \in IoTypes
    BY <1>2, <2>1, <2>2, NewOperations
  <2>4. t.reads = s.reads /\ t.writes = Tail(s.writes) /\ t.ready = s.ready
    BY <1>2, <2>1 DEF IoTypes
  <2>5. PICK c \in Completions : c.req = x /\ io'.ready = Append(t.ready, c)
    <3>1. \A error \in Errors : Completion("on_write", x, error, NoSegment) \in Completions
      BY <2>2, CompletionType
    <3>2. \E error \in Errors :
             io'.ready = Append(t.ready, Completion("on_write", x, error, NoSegment))
      BY <1>1, <1>4, <2>1, <2>3 DEF WriteCompletes, WriteGoesNowhere, Transmitted, Queued,
                                    Errors, IoTypes
    <3> QED
      BY <3>1, <3>2 DEF Completion
  <2>6. io'.reads = t.reads /\ io'.writes = t.writes
    BY <1>1, <1>4, <2>1, <2>3 DEF WriteCompletes, WriteGoesNowhere, Transmitted, Queued, IoTypes
  <2>7. PICK u : u = io'
    OBVIOUS
  <2>8. /\ s.writes # <<>> /\ x = Head(s.writes)
        /\ t.writes = Tail(s.writes) /\ t.reads = s.reads /\ t.ready = s.ready
        /\ u.reads = t.reads /\ u.writes = t.writes /\ u.ready = Append(t.ready, c)
    BY <2>1, <2>2, <2>4, <2>5, <2>6, <2>7
  <2>9. Sole(u) /\ \A q : Outstanding(u, q) => Outstanding(s, q)
    BY <1>2, <2>3, <2>5, <2>8, EndsSole
  <2> QED
    BY <1>1, <2>7, <2>9
<1>5. CASE ReadCompletes \/ ReadFails
  <2>1. PICK t, x : t = [s EXCEPT !.reads = Tail(@)] /\ x = Head(s.reads)
    OBVIOUS
  <2>2. s.reads # <<>> /\ x \in Requests /\ Tail(s.reads) \in Seq(Requests)
    BY <1>1, <1>2, <1>5, <2>1, HasTail DEF ReadCompletes, ReadFails
  <2>3. t \in IoTypes
    BY <1>2, <2>1, <2>2, NewOperations
  <2>4. t.reads = Tail(s.reads) /\ t.writes = s.writes /\ t.ready = s.ready
    BY <1>2, <2>1 DEF IoTypes
  <2>5. PICK c \in Completions : c.req = x /\ io'.ready = Append(t.ready, c)
    <3>1. CASE ReadCompletes
      <4>1. PICK c : c = Completion("on_read", x, "success", Head(s.inbox))
        OBVIOUS
      <4>2. Head(s.inbox) \in Segments
        BY <1>1, <1>2, <3>1, IoFields, HeadTailProperties DEF ReadCompletes
      <4>3. c \in Completions /\ c.req = x
        BY <2>2, <4>1, <4>2, CompletionType DEF Errors, Completion
      <4>4. io'.ready = Append(t.ready, c)
        BY <1>1, <1>2, <2>1, <2>4, <3>1, <4>1 DEF ReadCompletes, Queued, IoTypes
      <4> QED
        BY <4>3, <4>4
    <3>2. CASE ReadFails
      <4>1. PICK c : c = Completion("on_read", x, "failed", NoSegment)
        OBVIOUS
      <4>2. c \in Completions /\ c.req = x
        BY <2>2, <4>1, CompletionType DEF Errors, Completion
      <4>3. io'.ready = Append(t.ready, c)
        BY <1>1, <1>2, <2>1, <2>4, <3>2, <4>1 DEF ReadFails, Queued, IoTypes
      <4> QED
        BY <4>2, <4>3
    <3> QED
      BY <1>5, <3>1, <3>2
  <2>6. io'.reads = t.reads /\ io'.writes = t.writes
    BY <1>1, <1>2, <1>5, <2>1, <2>4 DEF ReadCompletes, ReadFails, Queued, IoTypes
  <2>7. PICK u : u = io'
    OBVIOUS
  <2>8. /\ s.reads # <<>> /\ x = Head(s.reads)
        /\ t.reads = Tail(s.reads) /\ t.writes = s.writes /\ t.ready = s.ready
        /\ u.reads = t.reads /\ u.writes = t.writes /\ u.ready = Append(t.ready, c)
    BY <2>1, <2>2, <2>4, <2>5, <2>6, <2>7
  <2>9. Sole(u) /\ \A q : Outstanding(u, q) => Outstanding(s, q)
    BY <1>2, <2>3, <2>5, <2>8, EndsSole
  <2> QED
    BY <1>1, <2>7, <2>9
<1> QED
  BY <1>3, <1>4, <1>5

LEMMA SocketErrorSole ==
    ASSUME TypeOK, NEW w, NEW c, NEW s \in IoTypes, Sole(s),
           Operations(s, pending, active, arrival), HandleSocketError(w, c, s)
    PROVE  Sole(io')
<1>1. PICK u : u = Connected(Closed(s))
  OBVIOUS
<1>2. u \in IoTypes /\ Sole(u) /\ Sole(Closed(s))
  BY <1>1, ClosedType, SoleClosed
<1>3. CASE Reconnects(s) /\ ~shutting_down
  <2>1. RunNextRequest(pending, u)
    BY <1>1, <1>3 DEF Reconnects
  <2>2. Quiet(s, u, active)
    BY <1>1, ClosedQuiet
  <2>3. pending \in Seq(Requests) /\ active \in Requests \cup {None} /\ arrival \in Arrivals
    BY DEF TypeOK, Arrivals
  <2>4. Operations(u, pending, active, arrival)
    BY <2>2, <2>3, OperationsQuiet
  <2> QED
    BY <1>2, <2>1, <2>3, <2>4, RunNextRequestSole
<1>4. CASE Reconnects(s) /\ shutting_down
  BY <1>1, <1>2, <1>4 DEF Reconnects
<1>5. CASE ReconnectThrows(s)
  BY <1>2, <1>5 DEF ReconnectThrows
<1> QED
  BY <1>3, <1>4, <1>5 DEF HandleSocketError
LEMMA HandlersSole ==
    ASSUME TypeOK, Replies, Sole(io), NEW w \in Workers, RunsHandler(w)
    PROVE  Sole(io')
<1>1. io \in IoTypes /\ io.ready \in Seq(Completions) /\ active \in Requests \cup {None}
  BY IoFields DEF TypeOK
<1>2. ASSUME NEW i \in DOMAIN io.ready, OnWrite(w, i) \/ OnRead(w, i)
      PROVE  Sole(io')
  <2>1. PICK c, s : c = io.ready[i] /\ s = Taken(io, i)
    OBVIOUS
  <2>2. /\ s \in IoTypes /\ Quiet(io, s, active) /\ c \in Completions
        /\ Sole(s) /\ (Operation(c) => ~Outstanding(s, c.req))
    BY <1>1, <2>1, TakenType, TakenQuiet, SoleTaken
  <2>3. CASE io' = s
    BY <2>2, <2>3
  <2>4. CASE io' = AsyncRead(s, c.req)
    <3>1. Operation(c) /\ c.req \in Requests
      BY <1>2, <2>1, <2>2 DEF OnWrite, OnRead, Operation, Completions
    <3> QED
      BY <2>2, <2>4, <3>1, AsyncReadSole
  <2>5. CASE HandleSocketError(w, c, s)
    <3>1. Operations(io, pending, active, arrival) /\ \A y : Has(pending, y) => Has(pending, y)
      BY DEF Replies
    <3>2. Operations(s, pending, active, arrival)
      BY <1>1, <2>2, <3>1, OperationsQuiet
    <3> QED
      BY <2>2, <2>5, <3>2, SocketErrorSole
  <2> QED
    BY <1>2, <2>1, <2>3, <2>4, <2>5 DEF OnWrite, OnRead, Superseded
<1>3. ASSUME NEW i \in DOMAIN io.ready, DequeueThreadSafely(w, i)
      PROVE  Sole(io')
  BY <1>1, <1>3, SoleTaken DEF DequeueThreadSafely
<1>4. CASE RunsOnFreedPool(w)
  BY <1>4 DEF RunsOnFreedPool
<1> QED
  BY <1>2, <1>3, <1>4 DEF RunsHandler

LEMMA UserSole ==
    ASSUME TypeOK, Replies, Sole(io), NEW t \in Threads, UserStep(t)
    PROVE  Sole(io')
<1>1. io \in IoTypes /\ frame[t] \in Frames
  BY DEF TypeOK
<1>2. CASE UNCHANGED io
  BY <1>2
<1>3. CASE ExerciseQueued(t)
  <2>1. PICK c, u : /\ c = Completion("dequeue", frame[t].req, "success", NoSegment)
                    /\ u = Queued(io, c)
    OBVIOUS
  <2>2. frame[t].req \in Requests
    BY <1>1, <1>3, ExerciseFrame DEF ExerciseQueued, ReadsPool
  <2>3. c \in Completions /\ ~Operation(c)
    BY <2>1, <2>2, CompletionType DEF Errors, Completion, Operation
  <2>4. u.reads = io.reads /\ u.writes = io.writes /\ u.ready = Append(io.ready, c)
    BY <1>1, <2>1 DEF Queued, IoTypes
  <2>5. Sole(u)
    BY <1>1, <2>3, <2>4, SoleQueues
  <2> QED
    BY <1>3, <2>1, <2>5 DEF ExerciseQueued
<1>4. CASE ExerciseCancels(t) /\ io' = Cancelled(io)
  BY <1>1, <1>4, SoleCancelled
<1>5. CASE ExerciseAdvances(t) /\ ~shutting_down
  <2>1. RunNextRequest(pending, io) /\ pending \in Seq(Requests) /\ arrival \in Arrivals
        /\ Operations(io, pending, active, arrival)
    BY <1>5 DEF ExerciseAdvances, TypeOK, Arrivals, Replies
  <2> QED
    BY <1>1, <2>1, RunNextRequestSole
<1> QED
  BY <1>2, <1>3, <1>4, <1>5 DEF UserStep, EnterHandler, HandlerReturns, HandlerTerminates,
       ExerciseActive, ExerciseFaults, ExerciseAdvances, ExerciseCancels

LEMMA DeliverSole ==
    ASSUME TypeOK, OrderKept, Replies, Sole(io),
           NEW t \in Threads, NEW r \in Requests, Deliver(t, r)
    PROVE  Sole(io')
<1>1. CASE active = None
  <2>1. PICK b, q : b = [arrival EXCEPT ![r] = arrivals + 1] /\ q = Append(pending, r)
    OBVIOUS
  <2>2. /\ io \in IoTypes /\ arrival \in Arrivals /\ b \in Arrivals
        /\ pending \in Seq(Requests) /\ q \in Seq(Requests)
        /\ active \in Requests \cup {None}
        /\ arrivals \in Nat /\ arrival[r] = 0
    BY <2>1 DEF TypeOK, Arrivals, Deliver
  <2>3. \A x \in Requests : arrival[x] <= arrivals
    BY DEF OrderKept, InOrder
  <2>4. Operations(io, pending, active, arrival)
    BY DEF Replies
  <2>5. Operations(io, q, active, b)
    BY <2>1, <2>2, <2>3, <2>4, OperationsArrive
  <2>6. RunNextRequest(q, io)
    BY <1>1, <2>1 DEF Deliver, Admit
  <2> QED
    BY <2>2, <2>5, <2>6, RunNextRequestSole
<1>2. CASE active # None
  BY <1>2 DEF Deliver, Admit
<1> QED
  BY <1>1, <1>2

LEMMA SoleStep ==
    ASSUME TypeOK, OrderKept, Replies, Sole(io), [Next]_vars
    PROVE  Sole(io')
<1>1. io \in IoTypes
  BY DEF TypeOK
<1>2. CASE \/ Outside(WriteCompletes) \/ Outside(WriteGoesNowhere) \/ Outside(ReadCompletes)
           \/ Outside(ReadFails) \/ Outside(NodeReplies) \/ Outside(PeerResets)
  BY <1>1, <1>2, NetworkSole DEF Outside
<1>3. ASSUME NEW w \in Workers, RunsHandler(w) PROVE Sole(io')
  BY <1>3, HandlersSole
<1>4. ASSUME NEW t \in Threads, UserStep(t) PROVE Sole(io')
  BY <1>4, UserSole
<1>5. ASSUME NEW t \in Threads, NEW r \in Requests, Deliver(t, r) PROVE Sole(io')
  BY <1>5, DeliverSole
<1>6. CASE UNCHANGED io
  BY <1>6
<1>7. CASE DestructorStep \/ WakesSpuriously
  <2>1. io' \in {io, Cancelled(io), Closed(io), Closed(Cancelled(io))}
    BY <1>7 DEF DestructorStep, TellPending, AwaitDequeued, Drained, WakesSpuriously,
                CloseForGood
  <2>2. Sole(Closed(io)) /\ Sole(Cancelled(io)) /\ Cancelled(io) \in IoTypes
    BY <1>1, SoleClosed, SoleCancelled, CancelledType
  <2>3. Sole(Closed(Cancelled(io)))
    BY <2>2, SoleClosed
  <2> QED
    BY <2>1, <2>2, <2>3
<1> QED
  BY <1>2, <1>3, <1>4, <1>5, <1>6, <1>7 DEF Next, Application, Abandon, Destroy, vars

LEMMA RepliesAlways == Spec => [](TypeOK /\ OrderKept /\ Replies /\ Sole(io))
<1>1. Init => Sole(io)
  BY DEF Init, IoInit, Sole, Distinct, Once, Has
<1>2. TypeOK /\ OrderKept /\ Replies /\ Sole(io) /\ [Next]_vars => Sole(io)'
  BY SoleStep
<1>3. Init => Replies
  BY RepliesInit
<1>4. TypeOK /\ TypeOK' /\ OrderKept /\ Replies /\ [Next]_vars => Replies'
  BY RepliesStep
<1> QED
  BY <1>1, <1>2, <1>3, <1>4, TypeCorrect, OrderMaintained, PTL DEF Spec

\* A request never has two operations under way, nor an operation and a handler to run:
\* each read or write is started when the one before has been handled.
THEOREM OneOperationEach == Spec => []Sole(io)
BY RepliesAlways, PTL

-----------------------------------------------------------------------------
(***************************************************************************)
(* One worker, callers that only deliver, and reconnections that do not    *)
(* throw.  The worker is in one handler or one exercise at a time, so that *)
(* the request it is about is still the active one where the code assumes  *)
(* so.                                                                     *)
(***************************************************************************)
Ended(h, q) == Has(h[q], [how |-> "complete", of |-> q])

\* Nobody but w is in a handler or an exercise, and no removal is posted.
Undisturbed(w) ==
    /\ dtor = "alive" /\ ~shutting_down
    /\ failures = 0 /\ \A q \in displaced : Ended(heard, q)
    /\ io.open
    /\ \A t \in Threads : t # w => frame[t] = Idle
    /\ \A c : Has(io.ready, c) => Operation(c)

(***************************************************************************)
(* Where the worker can be: before the request is terminated it is the     *)
(* active one; it is terminated cleanly after the end of its reply, and    *)
(* with a dirty connection when nothing of it is under way any more.       *)
(***************************************************************************)
Placed(f, act, ex, h, s) ==
    /\ f.at \in {"calling", "handler"} => f.how \in {"partial", "complete", "failed"}
    /\ f.at \in {"check", "cancel"} => f.how \in {"clean", "dirty"}
    /\ f.at = "advance" => f.how = "clean"
    /\ f.at \in {"calling", "handler", "check", "advance"} \/ f.how = "dirty" =>
          f.req = act /\ f.req \notin ex
    /\ f.at = "cancel" /\ f.how = "clean" => f.req # act
    /\ f.at = "calling" /\ f.how = "complete" => f.of = f.req
    /\ (f.at = "handler" /\ f.how = "complete") \/ f.how = "clean" => Ended(h, f.req)
    /\ f.how \in {"failed", "dirty"} => ~Outstanding(s, act)

\* A terminated request has heard the end of its reply, or still is the active one.
Past(ex, a, queue, act, h, s) ==
    \A q \in ex :
        /\ a[q] > 0 /\ ~Has(queue, q)
        /\ q # act => Ended(h, q)
        /\ q = act => ~Outstanding(s, q)

Serial(w) ==
    /\ Undisturbed(w)
    /\ Placed(frame[w], active, exercised, heard, io)
    /\ Past(exercised, arrival, pending, active, heard, io)

LEMMA IdlePlaced ==
    \A act, ex, h, s : Placed(Idle, act, ex, h, s)
BY DEF Placed, Idle

\* Whoever has heard the end of its reply was started.
LEMMA EndedStarted ==
    ASSUME TypeOK, Replies, NEW q \in Requests, Ended(heard, q)
    PROVE  arrival[q] > 0 /\ ~Has(pending, q)
<1>1. "complete" \in Tidings
  BY DEF Tidings
<1>2. Has(io.log, q)
  BY <1>1 DEF Replies, Complete, Hears, Tells, Ended
<1>3. Started(arrival, pending, active, q)
  BY <1>2 DEF Replies, Operations
<1>4. arrival[q] \in Nat
  BY DEF TypeOK
<1> QED
  BY <1>3, <1>4 DEF Started, Has

LEMMA ActiveStarted ==
    ASSUME TypeOK, Replies, active # None
    PROVE  active \in Requests /\ arrival[active] > 0 /\ ~Has(pending, active)
<1>1. PICK x : x = active
  OBVIOUS
<1>2. x \in Requests /\ Started(arrival, pending, x, x) /\ arrival[x] \in Nat
  BY <1>1 DEF TypeOK, Replies, Operations
<1> QED
  BY <1>1, <1>2 DEF Started, Has

\* No thread but w can be in a handler, an exercise or a call.
LEMMA OnlyWorker ==
    ASSUME NEW w, Serial(w), NEW t \in Threads, frame[t].at # "idle"
    PROVE  t = w
BY DEF Serial, Undisturbed, Idle

\* Nobody is called with the reply of another request: it would be lost, and
\* whoever lost the connection has heard the end of its reply.
LEMMA OwnReplies ==
    ASSUME TypeOK, Replies, NEW w, Serial(w),
           NEW r \in Requests, NEW q \in Requests, NEW how \in Tidings, Hears(r, how, q)
    PROVE  r = q
<1> SUFFICES ASSUME r # q PROVE FALSE
  OBVIOUS
<1>1. /\ q \in Lost /\ ~Hears(q, "complete", q)
      /\ Tells(heard, frame, r, how, q) => q # active
  BY DEF Replies, Foreign
<1>2. ~Ended(heard, q)
  BY <1>1 DEF Hears, Tells, Ended
<1>3. q \notin displaced /\ ~(failures > 0)
  BY <1>2 DEF Serial, Undisturbed
<1> QED
  BY <1>1, <1>3 DEF Lost, Deprived

\* The next request is not one of the terminated ones.
LEMMA NextPast ==
    ASSUME NEW s, NEW q \in Seq(Requests), NEW ex \in SUBSET Requests, NEW a, NEW act, NEW h,
           Past(ex, a, q, act, h, s), act \notin ex, RunNextRequest(q, s)
    PROVE  /\ Past(ex, a, pending', active', h, io')
           /\ active' \notin ex
           /\ active' = None \/ Has(q, active')
<1>1. None \notin ex
  BY SocketAssumption
<1>2. \A x \in ex : a[x] > 0 /\ ~Has(q, x) /\ Ended(h, x)
  BY DEF Past
<1>3. CASE q = <<>>
  <2>1. active' = None /\ pending' = q
    BY <1>3 DEF RunNextRequest
  <2> QED
    BY <1>1, <1>2, <2>1 DEF Past
<1>4. CASE q # <<>>
  <2>1. active' = Head(q) /\ pending' = Tail(q)
    BY <1>4 DEF RunNextRequest
  <2>2. Has(q, Head(q)) /\ \A y : Has(Tail(q), y) => Has(q, y)
    BY <1>4, HasTail
  <2>3. Has(q, active') /\ \A y : Has(pending', y) => Has(q, y)
    BY <2>1, <2>2
  <2> QED
    BY <1>2, <2>3 DEF Past
<1> QED
  BY <1>3, <1>4

\* Nothing is added to a request that is at rest.
LEMMA StaysPlaced ==
    ASSUME NEW f, NEW act, NEW ex, NEW h, NEW s, NEW t, Placed(f, act, ex, h, s),
           Outstanding(t, act) => Outstanding(s, act)
    PROVE  Placed(f, act, ex, h, t)
BY DEF Placed

LEMMA StaysPast ==
    ASSUME NEW ex, NEW a, NEW p, NEW q, NEW act, NEW h, NEW s, NEW t,
           Past(ex, a, p, act, h, s),
           \A y : Has(q, y) => Has(p, y),
           \A x \in ex : Outstanding(t, x) => Outstanding(s, x)
    PROVE  Past(ex, a, q, act, h, t)
BY DEF Past

LEMMA NetworkSerial ==
    ASSUME TypeOK, Sole(io), NEW w, Serial(w),
           \/ WriteCompletes \/ WriteGoesNowhere \/ ReadCompletes
           \/ ReadFails \/ NodeReplies \/ PeerResets,
           UNCHANGED Rest
    PROVE  Serial(w)'
<1>1. io \in IoTypes
  BY DEF TypeOK
<1>2. \A q : Outstanding(io', q) => Outstanding(io, q)
  BY <1>1, NetworkSole
<1>3. Goes(io, io')
  BY <1>1, NetworkGoes
<1>4. Undisturbed(w)'
  BY <1>3 DEF Serial, Undisturbed, Goes, Lives, Works, Rest, history
<1>5. Placed(frame[w], active, exercised, heard, io')
  BY <1>2, StaysPlaced DEF Serial
<1>6. Past(exercised, arrival, pending, active, heard, io')
  BY <1>2, StaysPast DEF Serial
<1> QED
  BY <1>4, <1>5, <1>6 DEF Serial, Rest, history

\* A worker that starts a handler had nothing to do: whatever is queued of the active
\* request, that one is not terminated.
LEMMA SocketErrorSerial ==
    ASSUME TypeOK, TypeOK', NEW w, w \in Threads, Serial(w), frame[w] = Idle,
           MaxConnectFailures = 0,
           NEW c \in Completions, NEW s \in IoTypes, c.req = active, s.open,
           \A d : Has(s.ready, d) => Operation(d),
           ~Outstanding(s, active), active \notin exercised,
           HandleSocketError(w, c, s),
           UNCHANGED <<shutting_down, exercised, dtor, heard, arrival, displaced>>
    PROVE  Serial(w)'
<1>1. failures' = 0
  BY SchedulerAssumption DEF TypeOK
<1>2. PICK u : u = Connected(Closed(s))
  OBVIOUS
<1>3. u \in IoTypes /\ u.open /\ Goes(s, u)
  BY <1>2, ClosedType, ReconnectedGoes
<1>4. Past(exercised, arrival, pending, active, heard, io) /\ exercised \in SUBSET Requests
      /\ pending \in Seq(Requests)
  BY DEF Serial, TypeOK
<1>5. CASE Reconnects(s) /\ UNCHANGED frame
  <2>1. RunNextRequest(pending, u)
    BY <1>2, <1>5 DEF Reconnects, Serial, Undisturbed
  <2>2. Past(exercised, arrival, pending, active, heard, u)
    BY <1>4 DEF Past
  <2>3. Past(exercised, arrival, pending', active', heard, io')
    BY <1>4, <2>1, <2>2, NextPast
  <2>4. Goes(s, io') /\ Goes(u, io')
    BY <1>3, <1>4, <2>1, RunNextRequestGoes, GoesTransitive
  <2>5. Undisturbed(w)'
    BY <1>1, <1>3, <1>5, <2>4 DEF Serial, Undisturbed, Goes, Lives, Works
  <2>6. Placed(Idle, active', exercised, heard, io')
    BY IdlePlaced
  <2> QED
    BY <1>5, <2>3, <2>5, <2>6 DEF Serial
<1>6. CASE ReconnectThrows(s)
  BY <1>1, <1>6 DEF ReconnectThrows, Serial, Undisturbed
<1>7. CASE /\ frame' = [frame EXCEPT ![w] = Calling(c.req, NewsOf(c))]
           /\ c.error = "failed"
           /\ io' = s /\ UNCHANGED <<pending, active, failures>>
  <2>1. PICK f : f = Calling(active, NewsOf(c))
    OBVIOUS
  <2>2. f.at = "calling" /\ f.how = "failed" /\ f.req = active
    BY <1>7, <2>1 DEF Calling, NewsOf
  <2>3. Placed(f, active, exercised, heard, s)
    BY <2>2 DEF Placed
  <2>4. frame'[w] = f /\ \A t \in Threads : t # w => frame'[t] = frame[t]
    BY <1>7, <2>1 DEF TypeOK
  <2>5. Undisturbed(w)'
    BY <1>1, <1>7, <2>4 DEF Serial, Undisturbed
  <2>6. Past(exercised, arrival, pending, active, heard, s)
    BY <1>4 DEF Past
  <2> QED
    BY <1>7, <2>3, <2>4, <2>5, <2>6 DEF Serial
<1> QED
  BY <1>5, <1>6, <1>7 DEF HandleSocketError
LEMMA HandlersSerial ==
    ASSUME TypeOK, TypeOK', Replies, Sole(io), NEW w, w \in Workers, Serial(w),
           MaxConnectFailures = 0, RunsHandler(w)
    PROVE  Serial(w)' /\ fault' = fault
<1>1. io \in IoTypes /\ io.ready \in Seq(Completions) /\ w \in Threads
  BY IoFields DEF TypeOK, Threads
<1>2. ASSUME NEW i \in DOMAIN io.ready
      PROVE  ~DequeueThreadSafely(w, i)
  BY DEF DequeueThreadSafely, Serial, Undisturbed, Has, Operation
<1>3. ASSUME NEW i \in DOMAIN io.ready, OnWrite(w, i) \/ OnRead(w, i)
      PROVE  Serial(w)' /\ fault' = fault
  <2>1. /\ frame[w] = Idle
        /\ UNCHANGED <<shutting_down, exercised, dtor, heard, arrival, displaced, fault>>
    BY <1>3 DEF OnWrite, OnRead, CanRun, AtRest, history
  <2>2. PICK c, s : c = io.ready[i] /\ s = Taken(io, i)
    OBVIOUS
  <2>3. /\ s \in IoTypes /\ Goes(io, s) /\ c \in Completions /\ Operation(c)
        /\ ~Outstanding(s, c.req) /\ Outstanding(io, c.req)
    <3>1. Operation(c)
      BY <1>3, <2>2 DEF OnWrite, OnRead, Operation
    <3>2. Outstanding(io, c.req)
      BY <2>2, <3>1 DEF Outstanding, Operation
    <3> QED
      BY <1>1, <2>2, <3>1, <3>2, TakenType, TakenGoes, SoleTaken
  <2>4. s.open /\ \A d : Has(s.ready, d) => Operation(d)
    BY <2>3 DEF Serial, Undisturbed, Goes, Lives, Works
  <2>5. \A x \in Requests : Outstanding(s, x) => Outstanding(io, x)
    BY <1>1, <2>2, TakenQuiet, SocketAssumption DEF Quiet
  <2>6. /\ exercised \subseteq Requests
        /\ Past(exercised, arrival, pending, active, heard, io)
        /\ Placed(Idle, active, exercised, heard, io')
    BY IdlePlaced DEF TypeOK, Serial
  <2>7. CASE c.req # active /\ io' = s /\ UNCHANGED <<pending, active, frame, failures>>
    <3>1. Undisturbed(w)'
      BY <2>1, <2>4, <2>7 DEF Serial, Undisturbed
    <3>2. Past(exercised, arrival, pending, active, heard, s)
      BY <2>5, <2>6, StaysPast
    <3> QED
      BY <2>1, <2>6, <2>7, <3>1, <3>2 DEF Serial
  <2>8. ASSUME c.req = active
        PROVE  active \in Requests /\ active \notin exercised
    BY <2>3, <2>6, <2>8 DEF Completions, Past
  <2>9. CASE /\ c.req = active /\ io' = AsyncRead(s, c.req)
             /\ UNCHANGED <<pending, active, failures>>
             /\ \/ UNCHANGED frame
                \/ /\ c.call = "on_read" /\ c.error = "success"
                   /\ frame' = [frame EXCEPT ![w] = Calling(c.req, NewsOf(c))]
    <3>1. Goes(s, io')
      BY <2>3, <2>4, <2>8, <2>9, AsyncReadGoes
    <3>2. Past(exercised, arrival, pending, active, heard, io')
      BY <2>6, <2>8, <2>9 DEF Past
    <3>3. CASE UNCHANGED frame
      <4>1. Undisturbed(w)'
        BY <2>1, <2>4, <2>9, <3>1, <3>3 DEF Serial, Undisturbed, Goes, Lives, Works
      <4> QED
        BY <2>1, <2>6, <2>9, <3>2, <3>3, <4>1 DEF Serial
    <3>4. CASE /\ c.call = "on_read" /\ c.error = "success"
               /\ frame' = [frame EXCEPT ![w] = Calling(c.req, NewsOf(c))]
      <4>1. PICK f : f = Calling(active, NewsOf(c))
        OBVIOUS
      <4>2. /\ f.at = "calling" /\ f.req = active /\ f.how \in {"partial", "complete"}
            /\ NewsOf(c) = [how |-> f.how, of |-> f.of]
        BY <3>4, <4>1 DEF Calling, NewsOf
      <4>3. f.how = "complete" => f.of = f.req
        <5>1. ASSUME f.how = "complete"
              PROVE  f.of \in Requests
          BY <3>4, <2>3, <4>1, <5>1 DEF Calling, NewsOf, Completions, NoSegment, Segments
        <5>2. Has(io.ready, c)
          BY <2>2 DEF Has
        <5>3. Comes(io, active, active, f.how, f.of)
          BY <2>3, <2>9, <3>4, <4>2, <5>2 DEF Comes
        <5>4. f.how \in Tidings
          BY <4>2 DEF Tidings
        <5> QED
          BY <2>8, <2>9, <4>2, <5>1, <5>3, <5>4, OwnReplies DEF Hears
      <4>4. Placed(f, active, exercised, heard, io')
        BY <2>8, <2>9, <4>2, <4>3 DEF Placed
      <4>5. frame'[w] = f /\ \A t \in Threads : t # w => frame'[t] = frame[t]
        BY <1>1, <2>9, <3>4, <4>1 DEF TypeOK
      <4>6. Undisturbed(w)'
        BY <2>1, <2>4, <2>9, <3>1, <4>5 DEF Serial, Undisturbed, Goes, Lives, Works
      <4> QED
        BY <2>1, <2>9, <3>2, <4>4, <4>5, <4>6 DEF Serial
    <3> QED
      BY <2>9, <3>3, <3>4
  <2>10. CASE c.req = active /\ HandleSocketError(w, c, s)
    BY <1>1, <2>1, <2>3, <2>4, <2>8, <2>10, SocketErrorSerial
  <2>11. \/ c.req # active /\ io' = s /\ UNCHANGED <<pending, active, frame, failures>>
         \/ /\ c.req = active /\ io' = AsyncRead(s, c.req)
            /\ UNCHANGED <<pending, active, failures>>
            /\ \/ UNCHANGED frame
               \/ /\ c.call = "on_read" /\ c.error = "success"
                  /\ frame' = [frame EXCEPT ![w] = Calling(c.req, NewsOf(c))]
         \/ c.req = active /\ HandleSocketError(w, c, s)
    BY <1>3, <2>2 DEF OnWrite, OnRead, Superseded
  <2> QED
    BY <2>1, <2>7, <2>9, <2>10, <2>11
<1> QED
  BY <1>2, <1>3 DEF RunsHandler, RunsOnFreedPool, Serial, Undisturbed
\* The user's handler: what it does depends on what it was called with.
LEMMA HandlerSerial ==
    ASSUME TypeOK, NEW w, w \in Threads, Serial(w),
           EnterHandler(w) \/ HandlerReturns(w) \/ HandlerTerminates(w)
    PROVE  Serial(w)' /\ fault' = fault
<1>1. PICK e : e = frame[w]
  OBVIOUS
<1>2. /\ e \in Frames /\ Placed(e, active, exercised, heard, io)
      /\ frame \in [Threads -> Frames]
  BY <1>1 DEF TypeOK, Serial
<1>3. UNCHANGED <<io, pending, active, shutting_down, exercised, dtor, displaced, failures,
                  arrival, fault>>
  BY DEF EnterHandler, HandlerReturns, HandlerTerminates, history
<1>4. ASSUME NEW f, frame' = [frame EXCEPT ![w] = f],
             Placed(f, active, exercised, heard', io),
             \A q \in Requests : Ended(heard, q) => Ended(heard', q)
      PROVE  Serial(w)'
  <2>1. frame'[w] = f /\ \A t \in Threads : t # w => frame'[t] = frame[t]
    BY <1>2, <1>4
  <2>2. exercised \subseteq Requests /\ displaced \subseteq Requests
    BY DEF TypeOK
  <2>3. Undisturbed(w)'
    BY <1>3, <1>4, <2>1, <2>2 DEF Serial, Undisturbed
  <2>4. Past(exercised, arrival, pending, active, heard', io)
    BY <1>4, <2>2 DEF Serial, Past
  <2> QED
    BY <1>3, <1>4, <2>1, <2>3, <2>4 DEF Serial
<1>5. CASE EnterHandler(w)
  <2>1. PICK q, n, f : EntersAs(w, q, n, f)
    BY <1>1, <1>2, <1>5, EnterHandlerAs
  <2>2. e.at = "calling" /\ q \in Requests /\ n \in News
    BY <1>1, <1>5, <2>1 DEF EnterHandler, EntersAs
  <2>3. /\ f.at = "handler" /\ f.req = e.req /\ f.of = e.of
        /\ f.how = e.how \/ (e.how = "complete" /\ f.how = "partial")
        /\ q = e.req /\ n.how = f.how /\ n.of = f.of
    BY <1>1, <2>1 DEF EntersAs
  <2>4. frame' = [frame EXCEPT ![w] = f] /\ heard' = [heard EXCEPT ![q] = Append(@, n)]
    BY <2>1 DEF EntersAs
  <2>5. heard \in [Requests -> Seq(News)]
    BY DEF TypeOK
  <2>6. \A m : Has(Append(heard[q], n), m) <=> Has(heard[q], m) \/ m = n
    BY <2>2, <2>5, HasAppend
  <2>7. /\ heard'[q] = Append(heard[q], n)
        /\ \A x \in Requests : x # q => heard'[x] = heard[x]
    BY <2>2, <2>4, <2>5
  <2>8. \A x \in Requests : \A m : Has(heard[x], m) => Has(heard'[x], m)
    BY <2>6, <2>7
  <2>9. Has(heard'[q], n)
    BY <2>6, <2>7
  <2>10. f.how = "complete" => Ended(heard', f.req)
    <3>1. ASSUME f.how = "complete"
          PROVE  n = [how |-> "complete", of |-> q]
      <4>1. n.how = "complete" /\ n.of = q
        BY <1>2, <2>2, <2>3, <3>1 DEF Placed
      <4> QED
        BY <2>2, <4>1 DEF News
    <3> QED
      BY <2>3, <2>9, <3>1 DEF Ended
  <2>11. \A x \in Requests : Ended(heard, x) => Ended(heard', x)
    BY <2>8 DEF Ended
  <2>12. Placed(f, active, exercised, heard', io)
    BY <1>2, <2>2, <2>3, <2>10 DEF Placed
  <2> QED
    BY <1>3, <1>4, <2>4, <2>11, <2>12
<1>6. CASE HandlerReturns(w)
  <2>1. frame' = [frame EXCEPT ![w] = Idle] /\ heard' = heard
    BY <1>6 DEF HandlerReturns
  <2>2. Placed(Idle, active, exercised, heard', io)
    BY IdlePlaced
  <2> QED
    BY <1>3, <1>4, <2>1, <2>2
<1>7. CASE HandlerTerminates(w)
  <2>1. PICK f : f = Exercising(e.req, IF e.how = "complete" THEN "clean" ELSE "dirty")
    OBVIOUS
  <2>2. /\ e.at = "handler" /\ e.how # "partial" /\ heard' = heard
        /\ frame' = [frame EXCEPT ![w] = f]
    BY <1>1, <1>2, <1>7, <2>1 DEF HandlerTerminates
  <2>3. /\ f.at = "check" /\ f.req = e.req
        /\ f.how = IF e.how = "complete" THEN "clean" ELSE "dirty"
    BY <2>1 DEF Exercising
  <2>4. Placed(f, active, exercised, heard', io)
    BY <1>2, <2>2, <2>3 DEF Placed
  <2> QED
    BY <1>3, <1>4, <2>2, <2>4
<1> QED
  BY <1>5, <1>6, <1>7

LEMMA ExerciseSerial ==
    ASSUME TypeOK, TypeOK', Replies, NEW w, w \in Threads, Serial(w),
           \/ ExerciseActive(w) \/ ExerciseQueued(w) \/ ExerciseFaults(w)
           \/ ExerciseAdvances(w) \/ ExerciseCancels(w)
    PROVE  Serial(w)' /\ fault' = fault
<1>1. PICK e : e = frame[w]
  OBVIOUS
<1>2. /\ e \in Frames /\ Placed(e, active, exercised, heard, io)
      /\ frame \in [Threads -> Frames] /\ io \in IoTypes
      /\ exercised \in SUBSET Requests /\ pending \in Seq(Requests)
      /\ Past(exercised, arrival, pending, active, heard, io)
      /\ io.open
  BY <1>1 DEF TypeOK, Serial, Undisturbed
<1>3. ~ExerciseQueued(w) /\ ~ExerciseFaults(w)
  <2>1. e.at = "check" => e.req = active /\ e.how # "drop" /\ e.req # None
    BY <1>2, ExerciseFrame, SocketAssumption DEF Placed
  <2> QED
    BY <1>1, <2>1 DEF ExerciseQueued, ExerciseFaults, ReadsPool, Serial, Undisturbed
<1>4. ASSUME NEW f, frame' = [frame EXCEPT ![w] = f]
      PROVE  frame'[w] = f /\ \A t \in Threads : t # w => frame'[t] = frame[t]
  BY <1>2, <1>4
<1>5. CASE ExerciseActive(w)
  <2>1. PICK f : f = [e EXCEPT !.at = IF e.how = "dirty" THEN "cancel" ELSE "advance"]
    OBVIOUS
  <2>2. frame' = [frame EXCEPT ![w] = f] /\ e.at = "check"
    BY <1>1, <1>2, <1>5, <2>1 DEF ExerciseActive, ReadsPool
  <2>3. /\ f.at = IF e.how = "dirty" THEN "cancel" ELSE "advance"
        /\ f.req = e.req /\ f.how = e.how /\ f.of = e.of
    BY <1>2, <2>1, <2>2 DEF Frames, Idle
  <2>4. Placed(f, active, exercised, heard, io)
    BY <1>2, <2>2, <2>3 DEF Placed
  <2>5. UNCHANGED <<io, pending, active, shutting_down, exercised, dtor, heard, displaced,
                    failures, arrival, fault>>
    BY <1>5 DEF ExerciseActive, history
  <2>6. Undisturbed(w)'
    BY <1>4, <2>2, <2>5 DEF Serial, Undisturbed
  <2> QED
    BY <1>2, <1>4, <2>2, <2>4, <2>5, <2>6 DEF Serial
<1>6. CASE ExerciseAdvances(w)
  <2>1. PICK f : f = [e EXCEPT !.at = "cancel"]
    OBVIOUS
  <2>2. /\ frame' = [frame EXCEPT ![w] = f] /\ e.at = "advance"
        /\ RunNextRequest(pending, io)
        /\ displaced' = displaced \cup ({active} \ {None})
    BY <1>1, <1>2, <1>6, <2>1 DEF ExerciseAdvances, Serial, Undisturbed
  <2>3. f.at = "cancel" /\ f.req = e.req /\ f.how = e.how /\ e.how = "clean"
    BY <1>2, <2>1, <2>2 DEF Frames, Idle, Placed
  <2>4. e.req = active /\ e.req \notin exercised /\ Ended(heard, e.req) /\ e.req # None
    BY <1>2, <2>2, <2>3, ExerciseFrame, SocketAssumption DEF Placed
  <2>5. /\ Past(exercised, arrival, pending', active', heard, io')
        /\ active' = None \/ Has(pending, active')
    BY <1>2, <2>2, <2>4, NextPast
  <2>6. active' # e.req
    BY <2>4, <2>5, ActiveStarted
  <2>7. Placed(f, active', exercised, heard, io')
    BY <2>3, <2>4, <2>6 DEF Placed
  <2>8. UNCHANGED <<shutting_down, exercised, dtor, heard, failures, arrival, fault>>
    BY <1>6 DEF ExerciseAdvances
  <2>9. Goes(io, io')
    BY <1>2, <2>2, RunNextRequestGoes
  <2>10. Undisturbed(w)'
    BY <1>4, <2>2, <2>4, <2>8, <2>9 DEF Serial, Undisturbed, Goes, Lives, Works
  <2> QED
    BY <1>4, <2>2, <2>5, <2>7, <2>8, <2>10 DEF Serial
<1>7. CASE ExerciseCancels(w)
  <2>1. /\ e.at = "cancel" /\ io' = Cancelled(io)
        /\ exercised' = exercised \cup {e.req}
        /\ frame' = [frame EXCEPT ![w] = Idle]
        /\ UNCHANGED <<pending, active, shutting_down, dtor, heard, displaced, failures,
                       arrival, fault>>
    BY <1>1, <1>2, <1>7 DEF ExerciseCancels, history
  <2>2. e.req \in Requests /\ e.req # None
    BY <1>2, <2>1, ExerciseFrame, SocketAssumption
  <2>3. Goes(io, io') /\ io'.open
    BY <1>2, <2>1, CancelledGoes
  <2>4. Undisturbed(w)'
    BY <1>4, <2>1, <2>3 DEF Serial, Undisturbed, Goes, Lives, Works
  <2>5. \A q \in Requests : Outstanding(io', q) => Outstanding(io, q)
    BY <1>2, <2>1, CancelledQuiet, SocketAssumption DEF Quiet
  <2>6. /\ arrival[e.req] > 0 /\ ~Has(pending, e.req)
        /\ e.req # active => Ended(heard, e.req)
        /\ e.req = active => ~Outstanding(io, e.req)
    <3>1. CASE e.how = "clean"
      BY <1>2, <2>1, <2>2, <3>1, EndedStarted DEF Placed
    <3>2. CASE e.how = "dirty"
      BY <1>2, <2>1, <2>2, <3>2, ActiveStarted DEF Placed
    <3> QED
      BY <1>2, <2>1, <3>1, <3>2 DEF Placed
  <2>7. Past(exercised', arrival, pending, active, heard, io')
    BY <1>2, <2>1, <2>2, <2>5, <2>6 DEF Past
  <2>8. Placed(Idle, active, exercised', heard, io')
    BY IdlePlaced
  <2> QED
    BY <1>4, <2>1, <2>4, <2>7, <2>8 DEF Serial
<1> QED
  BY <1>3, <1>5, <1>6, <1>7
\* A request that is new is not terminated, and a worker that is still in a clean
\* exercise is there for a request that was started.
LEMMA DeliverSerial ==
    ASSUME TypeOK, Replies, NEW w, w \in Threads, Serial(w),
           NEW t \in Threads, NEW r \in Requests, Deliver(t, r)
    PROVE  Serial(w)' /\ fault' = fault
<1>1. PICK b, q, f : /\ b = [arrival EXCEPT ![r] = arrivals + 1]
                     /\ q = Append(pending, r) /\ f = frame[w]
  OBVIOUS
<1>2. /\ io \in IoTypes /\ arrival \in [Requests -> Nat] /\ arrivals \in Nat
      /\ pending \in Seq(Requests) /\ q \in Seq(Requests)
      /\ exercised \in SUBSET Requests
      /\ arrival[r] = 0 /\ arrival' = b /\ io.open
      /\ f \in Frames /\ Placed(f, active, exercised, heard, io)
      /\ Past(exercised, arrival, pending, active, heard, io)
      /\ UNCHANGED <<shutting_down, exercised, frame, dtor, heard, displaced, failures, fault>>
  BY <1>1 DEF TypeOK, Deliver, Serial, Undisturbed
<1>3. \A x : Has(q, x) <=> Has(pending, x) \/ x = r
  <2>1. \A x : Has(Append(pending, r), x) <=> Has(pending, x) \/ x = r
    BY <1>2, HasAppend
  <2> QED
    BY <1>1, <2>1
<1>4. \A x \in Requests : arrival[x] > 0 => b[x] = arrival[x] /\ x # r
  BY <1>1, <1>2
<1>5. Past(exercised, b, q, active, heard, io)
  <2> SUFFICES ASSUME NEW x \in exercised
               PROVE  /\ b[x] > 0 /\ ~Has(q, x)
                      /\ x # active => Ended(heard, x)
                      /\ x = active => ~Outstanding(io, x)
    BY DEF Past
  <2>1. /\ x \in Requests /\ arrival[x] > 0 /\ ~Has(pending, x)
        /\ x # active => Ended(heard, x)
        /\ x = active => ~Outstanding(io, x)
    BY <1>2 DEF Past
  <2> QED
    BY <1>3, <1>4, <2>1
<1>6. CASE active = None
  <2>1. RunNextRequest(q, io)
    BY <1>1, <1>6 DEF Deliver, Admit
  <2>2. active \notin exercised
    BY <1>2, <1>6, SocketAssumption
  <2>3. /\ Past(exercised, b, pending', active', heard, io')
        /\ active' = None \/ Has(q, active')
    BY <1>2, <1>5, <2>1, <2>2, NextPast
  <2>4. Goes(io, io')
    BY <1>2, <2>1, RunNextRequestGoes
  <2>5. Undisturbed(w)'
    BY <1>2, <2>4 DEF Serial, Undisturbed, Goes, Lives, Works
  <2>6. f = Idle \/ f.req \in Requests
    BY <1>2 DEF Frames
  <2>7. f = Idle \/ (f.at = "cancel" /\ f.how = "clean" /\ Ended(heard, f.req))
    <3>1. f # Idle => f.req # active
      BY <1>6, <2>6, SocketAssumption
    <3>2. f = Idle \/ f.at \in {"calling", "handler", "check", "advance", "cancel"}
      BY <1>2 DEF Frames
    <3> QED
      BY <1>2, <3>1, <3>2 DEF Placed
  <2>8. f # Idle => f.req # active'
    <3>1. f # Idle => arrival[f.req] > 0 /\ ~Has(pending, f.req)
      BY <2>6, <2>7, EndedStarted
    <3> QED
      BY <1>3, <1>4, <2>3, <2>6, <3>1, SocketAssumption
  <2>9. Placed(f, active', exercised, heard, io')
    BY <2>7, <2>8, IdlePlaced DEF Placed
  <2> QED
    BY <1>1, <1>2, <2>3, <2>5, <2>9 DEF Serial
<1>7. CASE active # None
  <2>1. pending' = q /\ active' = active /\ io' = io
    BY <1>1, <1>7 DEF Deliver, Admit
  <2>2. Undisturbed(w)'
    BY <1>2, <2>1 DEF Serial, Undisturbed
  <2> QED
    BY <1>1, <1>2, <1>5, <2>1, <2>2 DEF Serial
<1> QED
  BY <1>6, <1>7

\* The steps of Next while no user gives up and nobody destroys the transport.
Patient ==
    \/ Outside(WriteCompletes)
    \/ Outside(WriteGoesNowhere)
    \/ Outside(ReadCompletes)
    \/ Outside(ReadFails)
    \/ Outside(NodeReplies)
    \/ Outside(PeerResets)
    \/ \E w \in Workers : RunsHandler(w)
    \/ \E t \in Threads : UserStep(t)
    \/ \E t \in Threads, r \in Requests : Deliver(t, r)
    \/ DestructorStep
    \/ WakesSpuriously

LEMMA NobodyGivesUp ==
    ASSUME Abandons = {}, Destroyer = None, Next
    PROVE  Patient
BY DEF Next, Patient, Application, Abandon, Destroy

LEMMA SerialStep ==
    ASSUME NEW w, Workers = {w}, MaxConnectFailures = 0,
           TypeOK, TypeOK', Replies, Sole(io), Serial(w), [Patient]_vars
    PROVE  Serial(w)' /\ fault' = fault
<1>1. w \in Threads /\ w \in Workers /\ dtor = "alive"
  BY DEF Threads, Serial, Undisturbed
<1>2. CASE \/ Outside(WriteCompletes) \/ Outside(WriteGoesNowhere) \/ Outside(ReadCompletes)
           \/ Outside(ReadFails) \/ Outside(NodeReplies) \/ Outside(PeerResets)
  BY <1>2, NetworkSerial DEF Outside, Rest
<1>3. ASSUME NEW v \in Workers, RunsHandler(v) PROVE Serial(w)' /\ fault' = fault
  BY <1>1, <1>3, HandlersSerial
<1>4. ASSUME NEW t \in Threads, UserStep(t) PROVE Serial(w)' /\ fault' = fault
  <2>1. frame[t].at # "idle"
    BY <1>1, <1>4 DEF UserStep, EnterHandler, HandlerReturns, HandlerTerminates, ExerciseActive,
       ExerciseQueued, ExerciseFaults, ExerciseAdvances, ExerciseCancels, ReadsPool
  <2>2. t = w
    BY <2>1, OnlyWorker
  <2> QED
    BY <1>1, <1>4, <2>2, HandlerSerial, ExerciseSerial DEF UserStep
<1>5. ASSUME NEW t \in Threads, NEW r \in Requests, Deliver(t, r)
      PROVE  Serial(w)' /\ fault' = fault
  BY <1>1, <1>5, DeliverSerial
<1>6. ~DestructorStep /\ ~WakesSpuriously
  BY <1>1 DEF DestructorStep, TellPending, AwaitDequeued, Drained, WakesSpuriously
<1>7. CASE UNCHANGED vars
  BY <1>7 DEF vars, history, Serial, Undisturbed
<1> QED
  BY <1>2, <1>3, <1>4, <1>5, <1>6, <1>7 DEF Patient

LEMMA SerialInit ==
    ASSUME NEW w \in Threads, Init
    PROVE  Serial(w)
<1>1. /\ io.open /\ io.ready = <<>> /\ exercised = {}
      /\ frame = [t \in Threads |-> Idle]
  BY DEF Init, IoInit
<1>2. Undisturbed(w)
  BY <1>1 DEF Init, Undisturbed, Has
<1>3. Past(exercised, arrival, pending, active, heard, io)
  BY <1>1 DEF Past
<1> QED
  BY <1>1, <1>2, <1>3, IdlePlaced DEF Serial

LEMMA OwnRepliesOnly ==
    ASSUME TypeOK, Replies, NEW w, Serial(w)
    PROVE  NoForeignReply
<1> SUFFICES ASSUME NEW r \in Requests, NEW i \in DOMAIN heard[r]
             PROVE  heard[r][i].of \in {r, None}
  BY DEF NoForeignReply
<1>1. heard[r][i] \in News
  BY DEF TypeOK
<1>2. PICK how \in Tidings, q \in Requests \cup {None} : heard[r][i] = [how |-> how, of |-> q]
  BY <1>1 DEF News
<1>3. Hears(r, how, q)
  BY <1>2 DEF Hears, Tells, Has
<1>4. q \in Requests => q = r
  BY <1>3, OwnReplies
<1> QED
  BY <1>2, <1>4

\* Everything that holds with one worker, from the invariants of any number of them.
LEMMA OneWorker ==
    ASSUME NEW w, Workers = {w}, Abandons = {}, Destroyer = None, MaxConnectFailures = 0
    PROVE  Spec => [](TypeOK /\ Replies /\ Serial(w) /\ fault = "none")
<1>1. Init => Serial(w) /\ fault = "none"
  <2>1. w \in Threads
    BY DEF Threads
  <2> QED
    BY <2>1, SerialInit DEF Init
<1>2. TypeOK /\ TypeOK' /\ Replies /\ Sole(io) /\ Serial(w) /\ fault = "none" /\ [Next]_vars
      => Serial(w)' /\ fault' = "none"
  BY SerialStep, NobodyGivesUp
<1> DEFINE Safe == fault = "none"
<1>3. Init => Serial(w) /\ Safe
  BY <1>1
<1>4. TypeOK /\ TypeOK' /\ Replies /\ Sole(io) /\ Serial(w) /\ Safe /\ [Next]_vars
      => Serial(w)' /\ Safe'
  BY <1>2
<1>5. TypeOK /\ Replies /\ Serial(w) /\ Safe => TypeOK /\ Replies /\ Serial(w) /\ fault = "none"
  OBVIOUS
<1> QED
  BY <1>3, <1>4, <1>5, RepliesAlways, PTL DEF Spec

\* With one worker no handler is called with a segment of another request's reply, however
\* often the peer drops the connection: the code relies on it (scheduler.cxx:167).
THEOREM OneWorkerHearsItsOwn ==
    ASSUME NEW w, Workers = {w}, Abandons = {}, Destroyer = None, MaxConnectFailures = 0
    PROVE  Spec => []NoForeignReply
<1>1. TypeOK /\ Replies /\ Serial(w) => NoForeignReply
  BY OwnRepliesOnly
<1> QED
  BY <1>1, OneWorker, PTL

\* With one worker no callback is made for a request whose option has been exercised
\* (transport.hxx:13): what was queued for it is of a request that is not active any more.
THEOREM OneWorkerKeepsSilent ==
    ASSUME NEW w, Workers = {w}, Abandons = {}, Destroyer = None, MaxConnectFailures = 0
    PROVE  Spec => TerminatedIsSilent
<1>1. ASSUME TypeOK, Serial(w), [Next]_vars, NEW r \in Requests, heard'[r] # heard[r]
      PROVE  r \notin exercised
  <2>1. PICK t \in Threads : EnterHandler(t)
    BY <1>1 DEF Next, vars, Outside, Rest, RunsHandler, OnWrite, OnRead,
       DequeueThreadSafely, RunsOnFreedPool, UserStep,
       HandlerReturns, HandlerTerminates, ExerciseActive, ExerciseQueued,
       ExerciseFaults, ExerciseAdvances, ExerciseCancels, Application, Deliver, Abandon,
       Destroy, DestructorStep, TellPending, AwaitDequeued, Drained, WakesSpuriously
  <2>2. t = w /\ frame[t].at = "calling"
    BY <1>1, <2>1, OnlyWorker DEF EnterHandler
  <2>3. frame[t].req = r
    <3>1. PICK n : heard' = [heard EXCEPT ![frame[t].req] = Append(@, n)]
      BY <2>1 DEF EnterHandler
    <3> QED
      BY <1>1, <3>1 DEF TypeOK
  <2> QED
    BY <1>1, <2>2, <2>3 DEF Serial, Placed
<1>2. TypeOK /\ Serial(w) /\ [Next]_vars
      => [\A r \in Requests : heard'[r] # heard[r] => r \notin exercised]_vars
  BY <1>1
<1> QED
  BY <1>2, OneWorker, PTL DEF Spec, TerminatedIsSilent

\* With one worker nothing undefined happens and nothing is thrown: whoever exercises its
\* option is the active request, and the socket is open.
THEOREM OneWorkerIsSafe ==
    ASSUME NEW w, Workers = {w}, Abandons = {}, Destroyer = None, MaxConnectFailures = 0
    PROVE  Spec => []NoFault
<1>1. TypeOK /\ Replies /\ Serial(w) /\ fault = "none" => NoFault
  BY DEF NoFault
<1> QED
  BY <1>1, OneWorker, PTL
=============================================================================
