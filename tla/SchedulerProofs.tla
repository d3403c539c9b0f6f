-------------------------- MODULE SchedulerProofs ---------------------------
(***************************************************************************)
(* Theorems about Scheduler for every set of requests and threads, every   *)
(* way of giving requests up and every number of failures: its variables   *)
(* have their types, the node is served in the order of arrival, and the   *)
(* scheduler implements RequestQueue.  First the lemmas about its socket:  *)
(* its operators keep its type, and say what the node has been sent.       *)
(***************************************************************************)
EXTENDS Scheduler, SequenceTheorems, TLAPS

-----------------------------------------------------------------------------
(***************************************************************************)
(* What removing one element of a sequence does.                           *)
(***************************************************************************)
LEMMA RemoveAtProperties ==
    ASSUME NEW S, NEW q \in Seq(S), NEW i \in 1..Len(q)
    PROVE  /\ RemoveAt(q, i) \in Seq(S)
           /\ Len(RemoveAt(q, i)) = Len(q) - 1
           /\ \A j \in 1..(Len(q) - 1) :
                RemoveAt(q, i)[j] = IF j < i THEN q[j] ELSE q[j + 1]
<1>1. /\ SubSeq(q, 1, i - 1) \in Seq(S)
      /\ Len(SubSeq(q, 1, i - 1)) = i - 1
      /\ \A j \in 1..(i - 1) : SubSeq(q, 1, i - 1)[j] = q[j]
  BY SMT
<1>2. /\ SubSeq(q, i + 1, Len(q)) \in Seq(S)
      /\ Len(SubSeq(q, i + 1, Len(q))) = Len(q) - i
      /\ \A j \in 1..(Len(q) - i) : SubSeq(q, i + 1, Len(q))[j] = q[i + j]
  BY SMT
<1>3. ASSUME NEW a \in Seq(S), NEW b \in Seq(S),
             Len(a) = i - 1, \A j \in 1..(i - 1) : a[j] = q[j],
             Len(b) = Len(q) - i, \A j \in 1..(Len(q) - i) : b[j] = q[i + j]
      PROVE  /\ a \o b \in Seq(S)
             /\ Len(a \o b) = Len(q) - 1
             /\ \A j \in 1..(Len(q) - 1) :
                  (a \o b)[j] = IF j < i THEN q[j] ELSE q[j + 1]
  <2>1. /\ a \o b \in Seq(S)
        /\ Len(a \o b) = Len(a) + Len(b)
        /\ \A j \in 1..(Len(a) + Len(b)) :
             (a \o b)[j] = IF j <= Len(a) THEN a[j] ELSE b[j - Len(a)]
    BY ConcatProperties
  <2>2. Len(a \o b) = Len(q) - 1
    BY <1>3, <2>1
  <2>3. ASSUME NEW j \in 1..(Len(q) - 1)
        PROVE  (a \o b)[j] = IF j < i THEN q[j] ELSE q[j + 1]
    <3>1. CASE j < i
      BY <1>3, <2>1, <3>1
    <3>2. CASE j >= i
      <4>1. (a \o b)[j] = b[j - (i - 1)] /\ j - (i - 1) \in 1..(Len(q) - i)
        BY <1>3, <2>1, <3>2
      <4>2. b[j - (i - 1)] = q[i + (j - (i - 1))] /\ i + (j - (i - 1)) = j + 1
        BY <1>3, <4>1
      <4> QED
        BY <3>2, <4>1, <4>2
    <3>3. j < i \/ j >= i
      <4>1. Len(q) \in Nat
        BY LenProperties
      <4> QED
        BY <4>1
    <3> QED
      BY <3>1, <3>2, <3>3
  <2> QED
    BY <2>1, <2>2, <2>3
<1> QED
  BY <1>1, <1>2, <1>3 DEF RemoveAt


Serving == Seq([req : Requests, left : 1..ReplyParts])

\* The fields of the record, and the replacement of the ones that change together.
LEMMA IoFields ==
    ASSUME NEW s \in IoTypes
    PROVE  /\ s.open \in BOOLEAN
           /\ s.up \in BOOLEAN
           /\ s.reads \in Seq(Requests)
           /\ s.writes \in Seq(Requests)
           /\ s.ready \in Seq(Completions)
           /\ s.inbox \in Seq(Segments)
           /\ s.serving \in Serving
           /\ s.log \in Seq(Requests)
           /\ s.resets \in 0..MaxResets
BY DEF IoTypes, Serving

LEMMA NewReady ==
    ASSUME NEW s \in IoTypes, NEW c \in Seq(Completions)
    PROVE  [s EXCEPT !.ready = c] \in IoTypes
BY DEF IoTypes

LEMMA NewOperations ==
    ASSUME NEW s \in IoTypes, NEW q \in Seq(Requests)
    PROVE  /\ [s EXCEPT !.reads = q] \in IoTypes
           /\ [s EXCEPT !.writes = q] \in IoTypes
BY DEF IoTypes

LEMMA NewCancelled ==
    ASSUME NEW s \in IoTypes, NEW q \in Seq(Requests), NEW p \in Seq(Requests),
           NEW c \in Seq(Completions)
    PROVE  [s EXCEPT !.reads = q, !.writes = p, !.ready = c] \in IoTypes
BY DEF IoTypes

LEMMA NewTransmitted ==
    ASSUME NEW s \in IoTypes, NEW v \in Serving, NEW q \in Seq(Requests),
           NEW c \in Seq(Completions)
    PROVE  [s EXCEPT !.serving = v, !.log = q, !.ready = c] \in IoTypes
BY DEF IoTypes, Serving

LEMMA NewConnection ==
    ASSUME NEW s \in IoTypes, NEW b \in BOOLEAN, NEW m \in Seq(Segments), NEW v \in Serving
    PROVE  /\ [s EXCEPT !.open = b, !.up = b] \in IoTypes
           /\ [s EXCEPT !.open = b, !.up = b, !.inbox = m, !.serving = v] \in IoTypes
BY DEF IoTypes, Serving

LEMMA CompletionType ==
    ASSUME NEW call \in {"on_write", "on_read", "dequeue"}, NEW r \in Requests,
           NEW error \in Errors, NEW segment \in Segments \cup {NoSegment}
    PROVE  Completion(call, r, error, segment) \in Completions
BY DEF Completion, Completions

LEMMA QueuedType ==
    ASSUME NEW s \in IoTypes, NEW c \in Completions
    PROVE  Queued(s, c) \in IoTypes
<1>1. Append(s.ready, c) \in Seq(Completions)
  BY IoFields
<1> QED
  BY <1>1, NewReady DEF Queued

LEMMA TransmittedType ==
    ASSUME NEW s \in IoTypes, NEW r \in Requests
    PROVE  Transmitted(s, r) \in IoTypes
<1>1. Append(s.log, r) \in Seq(Requests)
  BY IoFields
<1>2. Append(s.serving, [req |-> r, left |-> ReplyParts]) \in Serving
  <2>1. [req |-> r, left |-> ReplyParts] \in [req : Requests, left : 1..ReplyParts]
    BY SocketAssumption
  <2> QED
    BY <2>1, IoFields, AppendProperties DEF Serving
<1>3. Append(s.ready, Completion("on_write", r, "success", NoSegment)) \in Seq(Completions)
  BY IoFields, CompletionType, AppendProperties DEF Errors
<1> QED
  BY <1>1, <1>2, <1>3, NewTransmitted DEF Transmitted

LEMMA AsyncWriteType ==
    ASSUME NEW s \in IoTypes, NEW r \in Requests
    PROVE  AsyncWrite(s, r) \in IoTypes
<1>1. [s EXCEPT !.writes = Append(@, r)] \in IoTypes
  <2>1. Append(s.writes, r) \in Seq(Requests)
    BY IoFields
  <2> QED
    BY <2>1, NewOperations
<1>2. Queued(s, Completion("on_write", r, "failed", NoSegment)) \in IoTypes
  BY QueuedType, CompletionType DEF Errors
<1> QED
  BY <1>1, <1>2, TransmittedType DEF AsyncWrite

LEMMA AsyncReadType ==
    ASSUME NEW s \in IoTypes, NEW r \in Requests
    PROVE  AsyncRead(s, r) \in IoTypes
<1>1. [s EXCEPT !.reads = Append(@, r)] \in IoTypes
  <2>1. Append(s.reads, r) \in Seq(Requests)
    BY IoFields
  <2> QED
    BY <2>1, NewOperations
<1>2. Queued(s, Completion("on_read", r, "failed", NoSegment)) \in IoTypes
  BY QueuedType, CompletionType DEF Errors
<1> QED
  BY <1>1, <1>2 DEF AsyncRead

LEMMA CancelledType ==
    ASSUME NEW s \in IoTypes
    PROVE  Cancelled(s) \in IoTypes
<1> DEFINE aborted(call, q) ==
            [i \in 1..Len(q) |-> Completion(call, q[i], "aborted", NoSegment)]
<1>1. ASSUME NEW call \in {"on_read", "on_write"}, NEW q \in Seq(Requests)
      PROVE  aborted(call, q) \in Seq(Completions)
  <2>1. \A i \in 1..Len(q) :
           Completion(call, q[i], "aborted", NoSegment) \in Completions
    BY CompletionType DEF Errors
  <2> QED
    BY <2>1
<1>2. aborted("on_read", s.reads) \in Seq(Completions)
  BY <1>1, IoFields
<1>3. aborted("on_write", s.writes) \in Seq(Completions)
  BY <1>1, IoFields
<1> HIDE DEF aborted
<1>4. s.ready \o aborted("on_read", s.reads) \o aborted("on_write", s.writes)
         \in Seq(Completions)
  BY <1>2, <1>3, IoFields, ConcatProperties
<1>5. <<>> \in Seq(Requests)
  OBVIOUS
<1> QED
  BY <1>4, <1>5, NewCancelled DEF Cancelled, aborted

LEMMA ClosedType ==
    ASSUME NEW s \in IoTypes
    PROVE  /\ Closed(s) \in IoTypes
           /\ Connected(Closed(s)) \in IoTypes
<1>1. <<>> \in Seq(Segments) /\ <<>> \in Serving
  BY DEF Serving
<1>2. Closed(s) \in IoTypes
  BY <1>1, CancelledType, NewConnection DEF Closed
<1>3. ASSUME NEW t \in IoTypes PROVE Connected(t) \in IoTypes
  BY DEF Connected, IoTypes
<1> QED
  BY <1>2, <1>3

LEMMA TakenType ==
    ASSUME NEW s \in IoTypes, NEW i \in DOMAIN s.ready
    PROVE  /\ s.ready[i] \in Completions
           /\ Taken(s, i) \in IoTypes
<1>1. s.ready \in Seq(Completions) /\ i \in 1..Len(s.ready)
  BY IoFields
<1>2. RemoveAt(s.ready, i) \in Seq(Completions)
  BY <1>1, RemoveAtProperties
<1> QED
  BY <1>1, <1>2, NewReady DEF Taken

-----------------------------------------------------------------------------
(***************************************************************************)
(* The elements of a sequence.                                             *)
(***************************************************************************)
Has(q, x) == \E i \in DOMAIN q : q[i] = x

LEMMA HasAppend ==
    ASSUME NEW S, NEW q \in Seq(S), NEW x \in S
    PROVE  \A y : Has(Append(q, x), y) <=> Has(q, y) \/ y = x
<1>1. /\ Append(q, x) \in Seq(S) /\ Len(Append(q, x)) = Len(q) + 1
      /\ \A i \in 1..Len(q) : Append(q, x)[i] = q[i]
      /\ Append(q, x)[Len(q) + 1] = x
      /\ Len(q) \in Nat
  BY AppendProperties, LenProperties
<1>2. DOMAIN q = 1..Len(q) /\ DOMAIN Append(q, x) = 1..(Len(q) + 1)
  BY <1>1, LenProperties
<1>3. DOMAIN Append(q, x) = DOMAIN q \cup {Len(q) + 1}
  BY <1>1, <1>2
<1> QED
  BY <1>1, <1>2, <1>3 DEF Has

LEMMA HasTail ==
    ASSUME NEW S, NEW q \in Seq(S), q # <<>>
    PROVE  /\ Head(q) \in S /\ Tail(q) \in Seq(S)
           /\ Has(q, Head(q))
           /\ \A y : Has(Tail(q), y) => Has(q, y)
<1>1. /\ Head(q) = q[1] /\ Head(q) \in S
      /\ Tail(q) \in Seq(S) /\ Len(Tail(q)) = Len(q) - 1
      /\ \A i \in 1..Len(Tail(q)) : Tail(q)[i] = q[i + 1]
  BY HeadTailProperties
<1>2. Len(q) \in Nat /\ DOMAIN q = 1..Len(q) /\ DOMAIN Tail(q) = 1..(Len(q) - 1)
  BY <1>1, LenProperties
<1>3. 1 \in DOMAIN q
  BY <1>2, EmptySeq
<1>4. \A i \in DOMAIN Tail(q) : i + 1 \in DOMAIN q /\ Tail(q)[i] = q[i + 1]
  BY <1>1, <1>2
<1> QED
  BY <1>1, <1>3, <1>4 DEF Has

LEMMA HasRemoved ==
    ASSUME NEW S, NEW q \in Seq(S), NEW k \in DOMAIN q
    PROVE  \A y : Has(RemoveAt(q, k), y) => Has(q, y)
<1>1. Len(q) \in Nat /\ DOMAIN q = 1..Len(q) /\ k \in 1..Len(q)
  BY LenProperties
<1>2. /\ RemoveAt(q, k) \in Seq(S)
      /\ Len(RemoveAt(q, k)) = Len(q) - 1
      /\ \A j \in 1..(Len(q) - 1) : RemoveAt(q, k)[j] = IF j < k THEN q[j] ELSE q[j + 1]
  BY <1>1, RemoveAtProperties
<1>3. DOMAIN RemoveAt(q, k) = 1..(Len(q) - 1)
  BY <1>2, LenProperties
<1>4. ASSUME NEW j \in DOMAIN RemoveAt(q, k)
      PROVE  \E i \in DOMAIN q : RemoveAt(q, k)[j] = q[i]
  <2>1. j \in DOMAIN q /\ j + 1 \in DOMAIN q
    BY <1>1, <1>3
  <2>2. RemoveAt(q, k)[j] \in {q[j], q[j + 1]}
    BY <1>2, <1>3
  <2> QED
    BY <2>1, <2>2
<1> QED
  BY <1>4 DEF Has

LEMMA HasConcat ==
    ASSUME NEW S, NEW p \in Seq(S), NEW q \in Seq(S)
    PROVE  \A y : Has(p \o q, y) => Has(p, y) \/ Has(q, y)
<1>1. /\ p \o q \in Seq(S) /\ Len(p \o q) = Len(p) + Len(q)
      /\ \A i \in 1..(Len(p) + Len(q)) :
            (p \o q)[i] = IF i <= Len(p) THEN p[i] ELSE q[i - Len(p)]
  BY ConcatProperties
<1>2. /\ Len(p) \in Nat /\ DOMAIN p = 1..Len(p)
      /\ Len(q) \in Nat /\ DOMAIN q = 1..Len(q)
  BY LenProperties
<1>3. DOMAIN (p \o q) = 1..(Len(p) + Len(q))
  BY <1>1, LenProperties
<1>4. ASSUME NEW i \in DOMAIN (p \o q)
      PROVE  Has(p, (p \o q)[i]) \/ Has(q, (p \o q)[i])
  <2>1. CASE i <= Len(p)
    BY <1>1, <1>2, <1>3, <2>1 DEF Has
  <2>2. CASE ~(i <= Len(p))
    <3>1. i - Len(p) \in DOMAIN q /\ (p \o q)[i] = q[i - Len(p)]
      BY <1>1, <1>2, <1>3, <2>2
    <3> QED
      BY <3>1 DEF Has
  <2> QED
    BY <2>1, <2>2
<1> QED
  BY <1>4 DEF Has

-----------------------------------------------------------------------------
LEMMA CallingType ==
    ASSUME NEW r \in Requests, NEW news \in News
    PROVE  Calling(r, news) \in Frames
BY DEF Calling, News, Frames

LEMMA NewsType ==
    ASSUME NEW c \in Completions
    PROVE  NewsOf(c) \in News
BY DEF NewsOf, News, Tidings, Completions, Segments, NoSegment, Errors

LEMMA ExercisingType ==
    ASSUME NEW r \in Requests, NEW how \in {"clean", "dirty", "drop"}
    PROVE  Exercising(r, how) \in Frames
BY DEF Exercising, Frames

\* The frames that have a request, and what a step makes of them.
LEMMA HandlerFrame ==
    ASSUME NEW f \in Frames, f.at \in {"calling", "handler"}
    PROVE  /\ f.req \in Requests
           /\ [how |-> f.how, of |-> f.of] \in News
<1>1. f \in [ at : {"calling", "handler"}, req : Requests, how : Tidings,
              of : Requests \cup {None} ]
  BY DEF Frames, Idle
<1> QED
  BY <1>1 DEF Frames, News

LEMMA ExerciseFrame ==
    ASSUME NEW f \in Frames, f.at \in {"check", "advance", "cancel"},
           NEW at \in {"advance", "cancel"}
    PROVE  /\ f.req \in Requests
           /\ [f EXCEPT !.at = at] \in Frames
<1>1. f \in [ at : {"check", "advance", "cancel"}, req : Requests,
              how : {"clean", "dirty", "drop"}, of : {None} ]
  BY DEF Frames, Idle
<1> QED
  BY <1>1 DEF Frames

LEMMA IdleFrame == Idle \in Frames
BY DEF Frames

LEMMA FrameUpdate ==
    ASSUME NEW t, NEW f \in Frames, frame \in [Threads -> Frames]
    PROVE  [frame EXCEPT ![t] = f] \in [Threads -> Frames]
OBVIOUS

LEMMA RunNextRequestType ==
    ASSUME NEW s \in IoTypes, NEW q \in Seq(Requests), RunNextRequest(q, s)
    PROVE  /\ io' \in IoTypes
           /\ pending' \in Seq(Requests)
           /\ active' \in Requests \cup {None}
BY AsyncWriteType DEF RunNextRequest

-----------------------------------------------------------------------------
(***************************************************************************)
(* Type correctness, one lemma for the environment, one for each part of   *)
(* the transport.                                                          *)
(***************************************************************************)
LEMMA EnvironmentType ==
    ASSUME io \in IoTypes,
           \/ WriteCompletes \/ WriteGoesNowhere \/ ReadCompletes
           \/ ReadFails \/ NodeReplies \/ PeerResets
    PROVE  io' \in IoTypes
<1>1. CASE WriteCompletes
  <2>1. Head(io.writes) \in Requests /\ Tail(io.writes) \in Seq(Requests)
    BY <1>1, IoFields DEF WriteCompletes
  <2>2. [io EXCEPT !.writes = Tail(@)] \in IoTypes
    BY <2>1, NewOperations
  <2> QED
    BY <1>1, <2>1, <2>2, TransmittedType DEF WriteCompletes
<1>2. CASE WriteGoesNowhere
  <2>1. Head(io.writes) \in Requests /\ Tail(io.writes) \in Seq(Requests)
    BY <1>2, IoFields DEF WriteGoesNowhere
  <2>2. [io EXCEPT !.writes = Tail(@)] \in IoTypes
    BY <2>1, NewOperations
  <2>3. \A error \in {"success", "failed"} :
           Completion("on_write", Head(io.writes), error, NoSegment) \in Completions
    BY <2>1, CompletionType DEF Errors
  <2> QED
    BY <1>2, <2>2, <2>3, QueuedType DEF WriteGoesNowhere
<1>3. CASE ReadCompletes
  <2>1. /\ Head(io.reads) \in Requests /\ Tail(io.reads) \in Seq(Requests)
        /\ Head(io.inbox) \in Segments /\ Tail(io.inbox) \in Seq(Segments)
    BY <1>3, IoFields DEF ReadCompletes
  <2>2. ASSUME NEW q \in Seq(Requests), NEW m \in Seq(Segments)
        PROVE  [io EXCEPT !.reads = q, !.inbox = m] \in IoTypes
    BY DEF IoTypes
  <2>3. Completion("on_read", Head(io.reads), "success", Head(io.inbox)) \in Completions
    BY <2>1, CompletionType DEF Errors
  <2> QED
    BY <1>3, <2>1, <2>2, <2>3, QueuedType DEF ReadCompletes
<1>4. CASE ReadFails
  <2>1. Head(io.reads) \in Requests /\ Tail(io.reads) \in Seq(Requests)
    BY <1>4, IoFields DEF ReadFails
  <2>2. [io EXCEPT !.reads = Tail(@)] \in IoTypes
    BY <2>1, NewOperations
  <2>3. Completion("on_read", Head(io.reads), "failed", NoSegment) \in Completions
    BY <2>1, CompletionType DEF Errors
  <2> QED
    BY <1>4, <2>2, <2>3, QueuedType DEF ReadFails
<1>5. CASE NodeReplies
  <2> DEFINE Entry == [req : Requests, left : 1..ReplyParts]
             first == Head(io.serving)
             rest == Tail(io.serving)
  <2>1. first \in Entry /\ rest \in Seq(Entry)
    BY <1>5, IoFields, HeadTailProperties DEF NodeReplies, Serving
  <2>2. Append(io.inbox, [of |-> first.req, last |-> first.left = 1]) \in Seq(Segments)
    <3>1. [of |-> first.req, last |-> first.left = 1] \in Segments
      BY <2>1 DEF Segments
    <3> QED
      BY <3>1, IoFields, AppendProperties
  <2>3. ASSUME first.left # 1
        PROVE  <<[first EXCEPT !.left = @ - 1]>> \o rest \in Seq(Entry)
    <3>1. [first EXCEPT !.left = @ - 1] \in Entry
      BY <2>1, <2>3, SocketAssumption
    <3>2. <<[first EXCEPT !.left = @ - 1]>> \in Seq(Entry)
      BY <3>1
    <3> QED
      BY <2>1, <3>2, ConcatProperties
  <2>4. (IF first.left = 1 THEN rest
         ELSE <<[first EXCEPT !.left = @ - 1]>> \o rest) \in Serving
    BY <2>1, <2>3 DEF Serving
  <2>5. ASSUME NEW m \in Seq(Segments), NEW v \in Serving
        PROVE  [io EXCEPT !.inbox = m, !.serving = v] \in IoTypes
    BY DEF IoTypes, Serving
  <2> QED
    BY <1>5, <2>2, <2>4, <2>5 DEF NodeReplies
<1>6. CASE PeerResets
  <2>1. io.resets + 1 \in 0..MaxResets
    BY <1>6, IoFields, SocketAssumption DEF PeerResets
  <2>2. <<>> \in Serving
    BY DEF Serving
  <2>3. ASSUME NEW n \in 0..MaxResets, NEW v \in Serving
        PROVE  [io EXCEPT !.up = FALSE, !.serving = v, !.resets = n] \in IoTypes
    BY DEF IoTypes, Serving
  <2> QED
    BY <1>6, <2>1, <2>2, <2>3 DEF PeerResets
<1> QED
  BY <1>1, <1>2, <1>3, <1>4, <1>5, <1>6

\* The types of all but the frames of threads and the fault, which a module that
\* gives the transport another user has more of.
PoolTypeOK ==
    /\ io \in IoTypes
    /\ pending \in Seq(Requests)
    /\ active \in Requests \cup {None}
    /\ shutting_down \in BOOLEAN
    /\ exercised \subseteq Requests
    /\ dtor \in Destructor
    /\ untold \in Seq(Requests)
    /\ heard \in [Requests -> Seq(News)]
    /\ arrivals \in Nat
    /\ arrival \in [Requests -> Nat]
    /\ displaced \subseteq Requests
    /\ failures \in 0..MaxConnectFailures

\* What a step of thread t makes of them.
Moves(t) ==
    /\ UNCHANGED frame \/ \E f \in Frames : frame' = [frame EXCEPT ![t] = f]
    /\ UNCHANGED fault \/ fault' \in Faults

LEMMA MovesType ==
    ASSUME TypeOK, PoolTypeOK', NEW t, Moves(t)
    PROVE  TypeOK'
<1>1. frame' \in [Threads -> Frames]
  BY FrameUpdate DEF TypeOK, Moves
<1> QED
  BY <1>1 DEF TypeOK, PoolTypeOK, Moves

LEMMA DeliverType ==
    ASSUME PoolTypeOK, NEW t \in Threads, NEW r \in Requests, Deliver(t, r)
    PROVE  PoolTypeOK' /\ Moves(t)
<1>1. Append(pending, r) \in Seq(Requests)
  BY DEF PoolTypeOK
<1>2. /\ io' \in IoTypes
      /\ pending' \in Seq(Requests)
      /\ active' \in Requests \cup {None}
  BY <1>1, RunNextRequestType DEF Deliver, Admit, PoolTypeOK
<1> QED
  BY <1>2 DEF Deliver, PoolTypeOK, Moves

LEMMA SocketErrorType ==
    ASSUME PoolTypeOK, NEW w \in Workers, NEW c \in Completions, NEW s \in IoTypes,
           HandleSocketError(w, c, s)
    PROVE  /\ io' \in IoTypes
           /\ pending' \in Seq(Requests)
           /\ active' \in Requests \cup {None}
           /\ failures' \in 0..MaxConnectFailures
           /\ UNCHANGED frame \/ \E f \in Frames : frame' = [frame EXCEPT ![w] = f]
<1>1. CASE Reconnects(s) /\ UNCHANGED frame
  BY <1>1, ClosedType, RunNextRequestType DEF Reconnects, PoolTypeOK
<1>2. CASE ReconnectThrows(s) /\ UNCHANGED frame
  BY <1>2, ClosedType, SchedulerAssumption DEF ReconnectThrows, PoolTypeOK
<1>3. CASE /\ frame' = [frame EXCEPT ![w] = Calling(c.req, NewsOf(c))]
           /\ io' = s
           /\ UNCHANGED <<pending, active, failures>>
  <2>1. Calling(c.req, NewsOf(c)) \in Frames
    BY NewsType, CallingType DEF Completions
  <2> QED
    BY <1>3, <2>1 DEF PoolTypeOK
<1> QED
  BY <1>1, <1>2, <1>3 DEF HandleSocketError

LEMMA HandlersType ==
    ASSUME PoolTypeOK, NEW w \in Workers, RunsHandler(w)
    PROVE  PoolTypeOK' /\ Moves(w)
<1> USE DEF PoolTypeOK
<1>1. ASSUME NEW i \in DOMAIN io.ready, OnWrite(w, i)
      PROVE  PoolTypeOK' /\ Moves(w)
  <2> DEFINE c == io.ready[i]
             s == Taken(io, i)
  <2>1. c \in Completions /\ s \in IoTypes
    BY TakenType
  <2>2. c.req \in Requests
    BY <2>1 DEF Completions
  <2>3. AsyncRead(s, c.req) \in IoTypes
    BY <2>1, <2>2, AsyncReadType
  <2>4. /\ io' \in IoTypes
        /\ pending' \in Seq(Requests)
        /\ active' \in Requests \cup {None}
        /\ failures' \in 0..MaxConnectFailures
        /\ UNCHANGED frame \/ \E f \in Frames : frame' = [frame EXCEPT ![w] = f]
    <3>1. CASE Superseded(i)
      BY <2>1, <3>1 DEF Superseded
    <3>2. CASE io' = AsyncRead(s, c.req) /\ UNCHANGED <<pending, active, frame, failures>>
      BY <2>3, <3>2
    <3>3. CASE HandleSocketError(w, c, s)
      BY <2>1, <3>3, SocketErrorType
    <3> QED
      BY <1>1, <3>1, <3>2, <3>3 DEF OnWrite
  <2> QED
    BY <1>1, <2>4 DEF OnWrite, Moves, history
<1>2. ASSUME NEW i \in DOMAIN io.ready, OnRead(w, i)
      PROVE  PoolTypeOK' /\ Moves(w)
  <2> DEFINE c == io.ready[i]
             s == Taken(io, i)
  <2>1. c \in Completions /\ s \in IoTypes
    BY TakenType
  <2>2. c.req \in Requests
    BY <2>1 DEF Completions
  <2>3. AsyncRead(s, c.req) \in IoTypes /\ Calling(c.req, NewsOf(c)) \in Frames
    BY <2>1, <2>2, AsyncReadType, NewsType, CallingType
  <2>4. /\ io' \in IoTypes
        /\ pending' \in Seq(Requests)
        /\ active' \in Requests \cup {None}
        /\ failures' \in 0..MaxConnectFailures
        /\ UNCHANGED frame \/ \E f \in Frames : frame' = [frame EXCEPT ![w] = f]
    <3>1. CASE Superseded(i)
      BY <2>1, <3>1 DEF Superseded
    <3>2. CASE /\ io' = AsyncRead(s, c.req)
               /\ frame' = [frame EXCEPT ![w] = Calling(c.req, NewsOf(c))]
               /\ UNCHANGED <<pending, active, failures>>
      BY <2>3, <3>2
    <3>3. CASE HandleSocketError(w, c, s)
      BY <2>1, <3>3, SocketErrorType
    <3> QED
      BY <1>2, <3>1, <3>2, <3>3 DEF OnRead
  <2> QED
    BY <1>2, <2>4 DEF OnRead, Moves, history
<1>3. ASSUME NEW i \in DOMAIN io.ready, DequeueThreadSafely(w, i)
      PROVE  PoolTypeOK' /\ Moves(w)
  <2>1. io' \in IoTypes
    BY <1>3, TakenType DEF DequeueThreadSafely
  <2>2. \A j \in DOMAIN pending : RemoveAt(pending, j) \in Seq(Requests)
    BY RemoveAtProperties, LenProperties
  <2>3. pending' \in Seq(Requests) /\ Moves(w)
    BY <1>3, <2>2 DEF DequeueThreadSafely, Faults, Moves
  <2> QED
    BY <1>3, <2>1, <2>3 DEF DequeueThreadSafely, history
<1>4. CASE RunsOnFreedPool(w)
  BY <1>4 DEF RunsOnFreedPool, Faults, Moves, history
<1> QED
  BY <1>1, <1>2, <1>3, <1>4 DEF RunsHandler

\* The buffering handler keeps back the end of a reply, and alters nothing else.
LEMMA ReadAsEither ==
    ASSUME NEW r, NEW news
    PROVE  \/ ReadAs(r, news) = news.how
           \/ news.how = "complete" /\ ReadAs(r, news) = "partial"
BY DEF ReadAs

\* Thread t enters the handler of q, in frame f; the handler takes what it is given for news.
EntersAs(t, q, news, f) ==
    /\ q \in Requests /\ q = frame[t].req
    /\ news \in News /\ news.of = frame[t].of
    /\ news.how = frame[t].how \/ (frame[t].how = "complete" /\ news.how = "partial")
    /\ f \in Frames /\ f.at = "handler"
    /\ f.req = q /\ f.how = news.how /\ f.of = news.of
    /\ heard' = [heard EXCEPT ![q] = Append(@, news)]
    /\ frame' = [frame EXCEPT ![t] = f]

LEMMA EnterHandlerAs ==
    ASSUME NEW t \in Threads, frame[t] \in Frames, EnterHandler(t)
    PROVE  \E q, news, f : EntersAs(t, q, news, f)
<1>1. PICK e, how : e = frame[t] /\ how = ReadAs(e.req, [how |-> e.how, of |-> e.of])
  OBVIOUS
<1>2. PICK q, news, f : /\ q = e.req /\ news = [how |-> how, of |-> e.of]
                        /\ f = [e EXCEPT !.at = "handler", !.how = how]
  OBVIOUS
<1>3. e \in [at : {"calling", "handler"}, req : Requests, how : Tidings,
             of : Requests \cup {None}]
  BY <1>1 DEF EnterHandler, Frames, Idle
<1>4. how = e.how \/ (e.how = "complete" /\ how = "partial")
  BY <1>1, ReadAsEither
<1>5. how \in Tidings
  BY <1>3, <1>4 DEF Tidings
<1>6. q \in Requests /\ news \in News /\ news.of = e.of /\ news.how = how
  BY <1>2, <1>3, <1>5 DEF News
<1>7. f \in Frames /\ f.at = "handler" /\ f.req = q /\ f.how = how /\ f.of = e.of
  BY <1>2, <1>3, <1>5 DEF Frames
<1>8. heard' = [heard EXCEPT ![q] = Append(@, news)]
  BY <1>1, <1>2 DEF EnterHandler
<1>9. frame' = [frame EXCEPT ![t] = f]
  BY <1>1, <1>2 DEF EnterHandler
<1>10. EntersAs(t, q, news, f)
  BY <1>1, <1>2, <1>4, <1>6, <1>7, <1>8, <1>9 DEF EntersAs
<1> QED
  BY <1>10

LEMMA UserStepType ==
    ASSUME PoolTypeOK, NEW t \in Threads, frame[t] \in Frames, UserStep(t)
    PROVE  PoolTypeOK' /\ Moves(t)
<1> USE DEF PoolTypeOK, Moves, history
<1>1. CASE EnterHandler(t)
  <2>1. PICK q, news, f : EntersAs(t, q, news, f)
    BY <1>1, EnterHandlerAs
  <2>2. Append(heard[q], news) \in Seq(News)
    BY <2>1, AppendProperties DEF EntersAs
  <2>3. heard' \in [Requests -> Seq(News)]
    BY <2>1, <2>2 DEF EntersAs
  <2> QED
    BY <1>1, <2>1, <2>3 DEF EnterHandler, EntersAs
<1>2. CASE HandlerReturns(t)
  BY <1>2, IdleFrame DEF HandlerReturns
<1>3. CASE HandlerTerminates(t)
  <2>1. frame[t].req \in Requests
    BY <1>3, HandlerFrame DEF HandlerTerminates
  <2>2. Exercising(frame[t].req, IF frame[t].how = "complete" THEN "clean" ELSE "dirty")
           \in Frames
    BY <2>1, ExercisingType
  <2>3. frame' = [frame EXCEPT ![t] = Exercising(frame[t].req,
                     IF frame[t].how = "complete" THEN "clean" ELSE "dirty")]
    BY <1>3 DEF HandlerTerminates
  <2>4. \E f \in Frames : frame' = [frame EXCEPT ![t] = f]
    BY <2>2, <2>3
  <2> QED
    BY <1>3, <2>4 DEF HandlerTerminates
<1>4. CASE ExerciseActive(t)
  <2> DEFINE at == IF frame[t].how = "dirty" THEN "cancel" ELSE "advance"
  <2>1. [frame[t] EXCEPT !.at = at] \in Frames
    <3>1. at \in {"advance", "cancel"}
      OBVIOUS
    <3> HIDE DEF at
    <3> QED
      BY <1>4, <3>1, ExerciseFrame DEF ExerciseActive, ReadsPool
  <2>2. frame' = [frame EXCEPT ![t] = [frame[t] EXCEPT !.at = at]]
    BY <1>4 DEF ExerciseActive
  <2>3. \E f \in Frames : frame' = [frame EXCEPT ![t] = f]
    BY <2>1, <2>2
  <2> QED
    BY <1>4, <2>3 DEF ExerciseActive
<1>5. CASE ExerciseQueued(t)
  <2>1. frame[t].req \in Requests
    BY <1>5, ExerciseFrame DEF ExerciseQueued, ReadsPool
  <2>2. Completion("dequeue", frame[t].req, "success", NoSegment) \in Completions
    BY <2>1, CompletionType DEF Errors
  <2>3. io' \in IoTypes
    BY <1>5, <2>2, QueuedType DEF ExerciseQueued
  <2>4. \E f \in Frames : frame' = [frame EXCEPT ![t] = f]
    BY <1>5, IdleFrame DEF ExerciseQueued
  <2> QED
    BY <1>5, <2>1, <2>3, <2>4 DEF ExerciseQueued
<1>6. CASE ExerciseFaults(t)
  BY <1>6 DEF ExerciseFaults, Faults
<1>7. CASE ExerciseAdvances(t)
  <2>1. [frame[t] EXCEPT !.at = "cancel"] \in Frames
    BY <1>7, ExerciseFrame DEF ExerciseAdvances
  <2>2. frame' = [frame EXCEPT ![t] = [frame[t] EXCEPT !.at = "cancel"]]
    BY <1>7 DEF ExerciseAdvances
  <2>3. \E f \in Frames : frame' = [frame EXCEPT ![t] = f]
    BY <2>1, <2>2
  <2>4. /\ io' \in IoTypes
        /\ pending' \in Seq(Requests)
        /\ active' \in Requests \cup {None}
    BY <1>7, RunNextRequestType DEF ExerciseAdvances
  <2> QED
    BY <1>7, <2>3, <2>4 DEF ExerciseAdvances
<1>8. CASE ExerciseCancels(t)
  <2>1. frame[t].req \in Requests
    BY <1>8, ExerciseFrame DEF ExerciseCancels
  <2>2. io' \in IoTypes
    BY <1>8, CancelledType DEF ExerciseCancels
  <2>3. UNCHANGED frame \/ \E f \in Frames : frame' = [frame EXCEPT ![t] = f]
    BY <1>8, IdleFrame DEF ExerciseCancels
  <2> QED
    BY <1>8, <2>1, <2>2, <2>3 DEF ExerciseCancels, Faults
<1> QED
  BY <1>1, <1>2, <1>3, <1>4, <1>5, <1>6, <1>7, <1>8 DEF UserStep

LEMMA AbandonType ==
    ASSUME PoolTypeOK, NEW t \in Threads, NEW r \in Requests, Abandon(t, r)
    PROVE  PoolTypeOK' /\ Moves(t)
<1>1. PICK how \in {"drop", "dirty"} : frame' = [frame EXCEPT ![t] = Exercising(r, how)]
  BY DEF Abandon
<1>2. Exercising(r, how) \in Frames
  BY ExercisingType
<1> QED
  BY <1>1, <1>2 DEF Abandon, PoolTypeOK, Moves, history

LEMMA CloseType ==
    ASSUME NEW s \in IoTypes, io \in IoTypes, dtor \in Destructor, CloseForGood(s)
    PROVE  io' \in IoTypes /\ dtor' \in Destructor
           /\ (UNCHANGED fault \/ fault' \in Faults)
BY ClosedType DEF CloseForGood, Destructor, Faults

LEMMA DestructionType ==
    ASSUME PoolTypeOK, Destroy \/ DestructorStep \/ WakesSpuriously
    PROVE  PoolTypeOK' /\ Moves(Destroyer)
<1> USE DEF PoolTypeOK, Moves, history
<1>1. CASE Destroy
  BY <1>1 DEF Destroy, Destructor
<1>2. CASE TellPending
  <2>1. Head(untold) \in Requests /\ Tail(untold) \in Seq(Requests)
    BY <1>2 DEF TellPending
  <2>2. Calling(Head(untold), Reset) \in Frames
    BY <2>1, CallingType DEF Reset, News, Tidings
  <2> QED
    BY <1>2, <2>1, <2>2 DEF TellPending
<1>3. CASE AwaitDequeued
  BY <1>3 DEF AwaitDequeued, Destructor
<1>4. CASE Drained
  <2>1. Cancelled(io) \in IoTypes
    BY CancelledType
  <2>2. /\ io' \in IoTypes /\ dtor' \in Destructor
        /\ UNCHANGED fault \/ fault' \in Faults
    BY <1>4, <2>1, CloseType DEF Drained, Destructor, Faults
  <2> QED
    BY <1>4, <2>2 DEF Drained
<1>5. CASE WakesSpuriously
  BY <1>5, CloseType DEF WakesSpuriously
<1> QED
  BY <1>1, <1>2, <1>3, <1>4, <1>5 DEF DestructorStep

LEMMA PoolInit == Init => PoolTypeOK
<1> SUFFICES ASSUME Init
             PROVE  PoolTypeOK
  OBVIOUS
<1>1. /\ <<>> \in Seq(Requests) /\ <<>> \in Seq(Completions) /\ <<>> \in Seq(News)
      /\ <<>> \in Seq(Segments) /\ <<>> \in Serving
  BY DEF Serving
<1>2. io \in IoTypes
  BY <1>1, SocketAssumption DEF Init, IoInit, IoTypes, Serving
<1>3. heard \in [Requests -> Seq(News)]
  BY <1>1 DEF Init
<1>4. /\ pending \in Seq(Requests) /\ untold \in Seq(Requests)
      /\ active \in Requests \cup {None}
      /\ shutting_down \in BOOLEAN
      /\ exercised \subseteq Requests
  BY <1>1 DEF Init
<1>5. arrivals \in Nat /\ arrival \in [Requests -> Nat] /\ displaced \subseteq Requests
  BY DEF Init
<1>6. failures \in 0..MaxConnectFailures
  BY SchedulerAssumption DEF Init
<1>7. dtor \in Destructor
  BY DEF Init, Destructor
<1> QED
  BY <1>2, <1>3, <1>4, <1>5, <1>6, <1>7 DEF PoolTypeOK

LEMMA OutsideType ==
    ASSUME PoolTypeOK,
           \/ Outside(WriteCompletes) \/ Outside(WriteGoesNowhere)
           \/ Outside(ReadCompletes) \/ Outside(ReadFails)
           \/ Outside(NodeReplies) \/ Outside(PeerResets)
    PROVE  PoolTypeOK' /\ UNCHANGED <<frame, fault>>
<1>1. io' \in IoTypes
  BY EnvironmentType DEF Outside, PoolTypeOK
<1>2. UNCHANGED Rest
  BY DEF Outside
<1> QED
  BY <1>1, <1>2 DEF Rest, PoolTypeOK, history

\* Every variable always has its type: the sequences hold requests, the active
\* request is one or null, and each thread is at a point of the code that exists.
THEOREM TypeCorrect == Spec => []TypeOK
<1>0. TypeOK => PoolTypeOK /\ \A t \in Threads : frame[t] \in Frames
  BY DEF TypeOK, PoolTypeOK
<1>1. Init => TypeOK
  <2>1. Init => frame \in [Threads -> Frames] /\ fault \in Faults
    BY IdleFrame DEF Init, Faults
  <2> QED
    BY <2>1, PoolInit DEF TypeOK, PoolTypeOK
<1>2. TypeOK /\ [Next]_vars => TypeOK'
  <2> SUFFICES ASSUME TypeOK, [Next]_vars
               PROVE  TypeOK'
    OBVIOUS
  <2>1. CASE \/ Outside(WriteCompletes) \/ Outside(WriteGoesNowhere)
             \/ Outside(ReadCompletes) \/ Outside(ReadFails)
             \/ Outside(NodeReplies) \/ Outside(PeerResets)
    BY <1>0, <2>1, OutsideType DEF TypeOK, PoolTypeOK
  <2>2. ASSUME NEW w \in Workers, RunsHandler(w) PROVE TypeOK'
    BY <1>0, <2>2, HandlersType, MovesType
  <2>3. ASSUME NEW t \in Threads, UserStep(t) PROVE TypeOK'
    BY <1>0, <2>3, UserStepType, MovesType
  <2>4. CASE Application
    BY <1>0, <2>4, DeliverType, AbandonType, DestructionType, MovesType DEF Application
  <2>5. CASE DestructorStep \/ WakesSpuriously
    BY <1>0, <2>5, DestructionType, MovesType
  <2>6. CASE UNCHANGED vars
    BY <2>6 DEF vars, history, TypeOK
  <2> QED
    BY <2>1, <2>2, <2>3, <2>4, <2>5, <2>6 DEF Next
<1> QED
  BY <1>1, <1>2, PTL DEF Spec

-----------------------------------------------------------------------------
(***************************************************************************)
(* The scheduler implements RequestQueue.  Its steps are steps of the      *)
(* queue as far as the queue can see them: the pending requests, the       *)
(* active one and the arrivals.                                            *)
(***************************************************************************)
QueueStep == Queue!Next \/ UNCHANGED Queue!vars

LEMMA RunNextIsQueueStep ==
    ASSUME NEW s, RunNextRequest(pending, s), UNCHANGED <<arrivals, arrival>>
    PROVE  QueueStep
<1>1. CASE pending # <<>>
  BY <1>1 DEF RunNextRequest, QueueStep, Queue!Next, Queue!Advance
<1>2. CASE pending = <<>> /\ active # None
  BY <1>2 DEF RunNextRequest, QueueStep, Queue!Next, Queue!Finish
<1>3. CASE pending = <<>> /\ active = None
  BY <1>3 DEF RunNextRequest, QueueStep, Queue!vars
<1> QED
  BY <1>1, <1>2, <1>3

LEMMA DeliverIsQueueStep ==
    ASSUME NEW t \in Threads, NEW r \in Requests, TypeOK, Deliver(t, r)
    PROVE  QueueStep
<1>1. Append(pending, r) # <<>>
  BY AppendProperties DEF TypeOK
<1>2. Queue!Accept(r)
  BY <1>1 DEF Deliver, Admit, RunNextRequest, Queue!Accept
<1> QED
  BY <1>2 DEF QueueStep, Queue!Next

LEMMA HandlersAreQueueSteps ==
    ASSUME TypeOK, NEW w \in Workers, RunsHandler(w)
    PROVE  QueueStep
<1>1. ASSUME NEW c, NEW s, c.req = active, active # None,
             HandleSocketError(w, c, s), UNCHANGED history
      PROVE  QueueStep
  <2>1. CASE Reconnects(s)
    <3>1. CASE shutting_down
      BY <1>1, <2>1, <3>1 DEF Reconnects, QueueStep, Queue!Next, Queue!Finish, history
    <3>2. CASE ~shutting_down
      BY <1>1, <2>1, <3>2, RunNextIsQueueStep DEF Reconnects, history
    <3> QED
      BY <3>1, <3>2
  <2>2. CASE ReconnectThrows(s)
    BY <1>1, <2>2 DEF ReconnectThrows, QueueStep, Queue!Next, Queue!Finish, history
  <2>3. CASE UNCHANGED <<pending, active>>
    BY <1>1, <2>3 DEF QueueStep, Queue!vars, history
  <2> QED
    BY <1>1, <2>1, <2>2, <2>3 DEF HandleSocketError
<1>2. ASSUME NEW i \in DOMAIN io.ready
      PROVE  io.ready[i].req # None
  <2>1. io.ready[i] \in Completions
    BY TakenType DEF TypeOK
  <2> QED
    BY <2>1, SocketAssumption DEF Completions
<1>3. CASE UNCHANGED <<pending, active, history>>
  BY <1>3 DEF QueueStep, Queue!vars, history
<1>4. ASSUME NEW i \in DOMAIN io.ready, OnWrite(w, i)
      PROVE  QueueStep
  BY <1>1, <1>2, <1>3, <1>4 DEF OnWrite, Superseded
<1>5. ASSUME NEW i \in DOMAIN io.ready, OnRead(w, i)
      PROVE  QueueStep
  BY <1>1, <1>2, <1>3, <1>5 DEF OnRead, Superseded
<1>6. ASSUME NEW i \in DOMAIN io.ready, DequeueThreadSafely(w, i)
      PROVE  QueueStep
  <2>1. CASE Waiting(io.ready[i].req)
    <3>1. PICK j \in DOMAIN pending : pending' = RemoveAt(pending, j)
      BY <1>6, <2>1 DEF DequeueThreadSafely
    <3>2. j \in 1..Len(pending)
      BY LenProperties DEF TypeOK
    <3>3. Queue!Withdraw(j)
      BY <1>6, <3>1 DEF DequeueThreadSafely, Queue!Withdraw, RemoveAt, Queue!RemoveAt, history
    <3> QED
      BY <3>2, <3>3 DEF QueueStep, Queue!Next
  <2>2. CASE ~Waiting(io.ready[i].req)
    BY <1>3, <1>6, <2>2 DEF DequeueThreadSafely
  <2> QED
    BY <2>1, <2>2
<1>7. CASE RunsOnFreedPool(w)
  BY <1>3, <1>7 DEF RunsOnFreedPool
<1> QED
  BY <1>4, <1>5, <1>6, <1>7 DEF RunsHandler

LEMMA UserStepsAreQueueSteps ==
    ASSUME NEW t \in Threads, UserStep(t)
    PROVE  QueueStep
<1>1. CASE UNCHANGED <<pending, active, arrivals, arrival>>
  BY <1>1 DEF QueueStep, Queue!vars
<1>2. CASE ExerciseAdvances(t)
  BY <1>1, <1>2, RunNextIsQueueStep DEF ExerciseAdvances
<1>3. CASE \/ EnterHandler(t) \/ HandlerReturns(t) \/ HandlerTerminates(t)
           \/ ExerciseActive(t) \/ ExerciseQueued(t) \/ ExerciseFaults(t)
           \/ ExerciseCancels(t)
  BY <1>1, <1>3 DEF EnterHandler, HandlerReturns, HandlerTerminates, ExerciseActive,
                    ExerciseQueued, ExerciseFaults, ExerciseCancels, history
<1> QED
  BY <1>2, <1>3 DEF UserStep

LEMMA NextIsQueueStep ==
    ASSUME TypeOK, [Next]_vars
    PROVE  QueueStep
<1>1. CASE UNCHANGED <<pending, active, history>>
  BY <1>1 DEF QueueStep, Queue!vars, history
<1>2. CASE \/ Outside(WriteCompletes) \/ Outside(WriteGoesNowhere)
           \/ Outside(ReadCompletes) \/ Outside(ReadFails)
           \/ Outside(NodeReplies) \/ Outside(PeerResets)
  BY <1>1, <1>2 DEF Outside, Rest
<1>3. ASSUME NEW w \in Workers, RunsHandler(w) PROVE QueueStep
  BY <1>3, HandlersAreQueueSteps
<1>4. ASSUME NEW t \in Threads, UserStep(t) PROVE QueueStep
  BY <1>4, UserStepsAreQueueSteps
<1>5. CASE Application
  <2>1. ASSUME NEW t \in Threads, NEW r \in Requests, Deliver(t, r) PROVE QueueStep
    BY <2>1, DeliverIsQueueStep
  <2>2. ASSUME NEW t \in Threads, NEW r \in Requests, Abandon(t, r) PROVE QueueStep
    BY <1>1, <2>2 DEF Abandon
  <2>3. CASE Destroy
    BY <1>1, <2>3 DEF Destroy
  <2> QED
    BY <1>5, <2>1, <2>2, <2>3 DEF Application
<1>6. CASE DestructorStep \/ WakesSpuriously
  BY <1>1, <1>6 DEF DestructorStep, TellPending, AwaitDequeued, Drained, WakesSpuriously
<1>7. CASE UNCHANGED vars
  BY <1>1, <1>7 DEF vars
<1> QED
  BY <1>2, <1>3, <1>4, <1>5, <1>6, <1>7 DEF Next

\* Whatever is given up, reset, reconnected or destroyed, the scheduler is a queue
\* that starts each request at most once, in the order of arrival.
THEOREM QueueImplemented == Spec => ImplementsQueue
<1>1. Init => Queue!Init
  BY DEF Init, Queue!Init
<1>2. TypeOK /\ [Next]_vars => [Queue!Next]_(Queue!vars)
  BY NextIsQueueStep DEF QueueStep
<1> QED
  BY <1>1, <1>2, TypeCorrect, PTL DEF Spec, Queue!Spec, ImplementsQueue

-----------------------------------------------------------------------------
(***************************************************************************)
(* The node is served in order.  First, what can happen to the three       *)
(* sequences a request passes through.                                     *)
(***************************************************************************)
Arrivals == [Requests -> Nat]

\* A sequence that selects elements of another, in their order, is as ordered.
LEMMA SelectionOrder ==
    ASSUME NEW p \in Seq(Requests), NEW q \in Seq(Requests), NEW a \in Arrivals, NEW f,
           \A i \in DOMAIN q : f[i] \in DOMAIN p /\ q[i] = p[f[i]],
           \A i, j \in DOMAIN q : i < j => f[i] < f[j]
    PROVE  /\ Numbered(a, p) => Numbered(a, q)
           /\ Increasing(a, p) => Increasing(a, q)
           /\ \A s \in Seq(Requests) : Before(a, s, p) => Before(a, s, q)
           /\ \A s \in Seq(Requests) : Before(a, p, s) => Before(a, q, s)
BY DEF Numbered, Increasing, Before

LEMMA TailOrder ==
    ASSUME NEW p \in Seq(Requests), p # <<>>, NEW a \in Arrivals
    PROVE  /\ Tail(p) \in Seq(Requests)
           /\ Numbered(a, p) => Numbered(a, Tail(p))
           /\ Increasing(a, p) => /\ Increasing(a, Tail(p))
                                  /\ \A i \in DOMAIN Tail(p) : a[Head(p)] < a[Tail(p)[i]]
           /\ \A s \in Seq(Requests) : Before(a, s, p) => Before(a, s, Tail(p))
           /\ \A s \in Seq(Requests) : Before(a, p, s) => Before(a, Tail(p), s)
<1> DEFINE q == Tail(p)
           f == [i \in 1..(Len(p) - 1) |-> i + 1]
<1>1. /\ Len(p) \in Nat \ {0} /\ DOMAIN p = 1..Len(p)
      /\ q \in Seq(Requests) /\ DOMAIN q = 1..(Len(p) - 1)
      /\ \A i \in 1..(Len(p) - 1) : q[i] = p[i + 1]
      /\ Head(p) = p[1]
  BY HeadTailProperties, LenProperties, EmptySeq
<1>2. /\ \A i \in DOMAIN q : f[i] \in DOMAIN p /\ q[i] = p[f[i]] /\ 1 < f[i]
      /\ \A i, j \in DOMAIN q : i < j => f[i] < f[j]
      /\ 1 \in DOMAIN p
  BY <1>1
<1> HIDE DEF q, f
<1>3. /\ Numbered(a, p) => Numbered(a, q)
      /\ Increasing(a, p) => Increasing(a, q)
      /\ \A s \in Seq(Requests) : Before(a, s, p) => Before(a, s, q)
      /\ \A s \in Seq(Requests) : Before(a, p, s) => Before(a, q, s)
  BY <1>1, <1>2, SelectionOrder
<1>4. Increasing(a, p) => \A i \in DOMAIN q : a[Head(p)] < a[q[i]]
  BY <1>1, <1>2 DEF Increasing
<1> QED
  BY <1>1, <1>3, <1>4 DEF q

LEMMA AppendOrder ==
    ASSUME NEW p \in Seq(Requests), NEW r \in Requests, NEW a \in Arrivals
    PROVE  /\ Append(p, r) \in Seq(Requests)
           /\ Numbered(a, p) /\ a[r] > 0 => Numbered(a, Append(p, r))
           /\ Increasing(a, p) /\ (\A i \in DOMAIN p : a[p[i]] < a[r])
                => Increasing(a, Append(p, r))
           /\ \A s \in Seq(Requests) :
                Before(a, s, p) /\ (\A i \in DOMAIN s : a[s[i]] < a[r])
                    => Before(a, s, Append(p, r))
           /\ \A s \in Seq(Requests) :
                Before(a, p, s) /\ (\A i \in DOMAIN s : a[r] < a[s[i]])
                    => Before(a, Append(p, r), s)
<1> DEFINE q == Append(p, r)
           last == Len(p) + 1
<1>1. /\ Len(p) \in Nat /\ DOMAIN p = 1..Len(p)
      /\ q \in Seq(Requests) /\ DOMAIN q = 1..last
      /\ \A i \in 1..Len(p) : q[i] = p[i]
      /\ q[last] = r
  BY AppendProperties, LenProperties
<1>2. /\ \A i \in DOMAIN q : i = last \/ i \in DOMAIN p
      /\ \A i \in DOMAIN p : q[i] = p[i]
      /\ \A i, j \in DOMAIN q : i < j => i \in DOMAIN p
  BY <1>1
<1>3. q[last] = r
  BY <1>1
<1> HIDE DEF q, last
<1>4. Numbered(a, p) /\ a[r] > 0 => Numbered(a, q)
  BY <1>2, <1>3 DEF Numbered
<1>5. Increasing(a, p) /\ (\A i \in DOMAIN p : a[p[i]] < a[r]) => Increasing(a, q)
  BY <1>2, <1>3 DEF Increasing
<1>6. \A s \in Seq(Requests) :
         Before(a, s, p) /\ (\A i \in DOMAIN s : a[s[i]] < a[r]) => Before(a, s, q)
  BY <1>2, <1>3 DEF Before
<1>7. \A s \in Seq(Requests) :
         Before(a, p, s) /\ (\A i \in DOMAIN s : a[r] < a[s[i]]) => Before(a, q, s)
  BY <1>2, <1>3 DEF Before
<1> QED
  BY <1>1, <1>4, <1>5, <1>6, <1>7 DEF q

\* A request arrives: it gets the highest number and goes to the end of the queue.
LEMMA OrderArrive ==
    ASSUME NEW l \in Seq(Requests), NEW w \in Seq(Requests), NEW p \in Seq(Requests),
           NEW a \in Arrivals, NEW n \in Nat, InOrder(l, w, p, a, n),
           NEW r \in Requests, a[r] = 0
    PROVE  InOrder(l, w, Append(p, r), [a EXCEPT ![r] = n + 1], n + 1)
<1> DEFINE b == [a EXCEPT ![r] = n + 1]
<1>1. /\ b \in Arrivals
      /\ b[r] = n + 1
      /\ \A x \in Requests : a[x] > 0 => b[x] = a[x] /\ b[x] < n + 1
      /\ \A x \in Requests : b[x] <= n + 1
  BY DEF InOrder, Arrivals
<1> HIDE DEF b
<1>2. ASSUME NEW s \in Seq(Requests), Numbered(a, s)
      PROVE  /\ \A i \in DOMAIN s : b[s[i]] = a[s[i]] /\ b[s[i]] < b[r]
             /\ Numbered(b, s)
             /\ Increasing(a, s) => Increasing(b, s)
  <2>1. \A i \in DOMAIN s : s[i] \in Requests /\ a[s[i]] > 0
    BY <1>2 DEF Numbered
  <2>2. \A i \in DOMAIN s : b[s[i]] = a[s[i]] /\ b[s[i]] < b[r]
    BY <1>1, <2>1
  <2> QED
    BY <2>1, <2>2 DEF Numbered, Increasing
<1>3. Numbered(a, l) /\ Numbered(a, w) /\ Numbered(a, p)
  BY DEF InOrder
<1>4. Before(b, l, w) /\ Before(b, l, p) /\ Before(b, w, p)
  BY <1>2, <1>3 DEF InOrder, Before
<1>5. /\ Numbered(b, l) /\ Numbered(b, w) /\ Numbered(b, p)
      /\ Increasing(b, l) /\ Increasing(b, w) /\ Increasing(b, p)
  BY <1>2, <1>3 DEF InOrder
<1>6. b[r] > 0
  BY <1>1
<1>7. /\ Numbered(b, Append(p, r)) /\ Increasing(b, Append(p, r))
      /\ Before(b, l, Append(p, r)) /\ Before(b, w, Append(p, r))
  BY <1>1, <1>2, <1>3, <1>4, <1>5, <1>6, AppendOrder
<1> QED
  BY <1>1, <1>4, <1>5, <1>7 DEF InOrder, b

\* The oldest pending request is handed to the socket.
LEMMA OrderStart ==
    ASSUME NEW l \in Seq(Requests), NEW w \in Seq(Requests), NEW p \in Seq(Requests),
           NEW a \in Arrivals, NEW n \in Nat, InOrder(l, w, p, a, n), p # <<>>
    PROVE  InOrder(l, Append(w, Head(p)), Tail(p), a, n)
<1>1. Head(p) \in Requests /\ 1 \in DOMAIN p /\ Head(p) = p[1]
  BY HeadTailProperties, LenProperties, EmptySeq
<1>2. /\ a[Head(p)] > 0
      /\ \A i \in DOMAIN w : a[w[i]] < a[Head(p)]
      /\ \A i \in DOMAIN l : a[l[i]] < a[Head(p)]
  BY <1>1 DEF InOrder, Numbered, Before
<1>3. /\ Tail(p) \in Seq(Requests)
      /\ Numbered(a, Tail(p)) /\ Increasing(a, Tail(p))
      /\ \A i \in DOMAIN Tail(p) : a[Head(p)] < a[Tail(p)[i]]
      /\ Before(a, l, Tail(p)) /\ Before(a, w, Tail(p))
  BY TailOrder DEF InOrder
<1>4. /\ Numbered(a, Append(w, Head(p))) /\ Increasing(a, Append(w, Head(p)))
      /\ Before(a, l, Append(w, Head(p)))
      /\ Before(a, Append(w, Head(p)), Tail(p))
  BY <1>1, <1>2, <1>3, AppendOrder DEF InOrder
<1> QED
  BY <1>3, <1>4 DEF InOrder

\* The oldest write reaches the node.
LEMMA OrderTransmit ==
    ASSUME NEW l \in Seq(Requests), NEW w \in Seq(Requests), NEW p \in Seq(Requests),
           NEW a \in Arrivals, NEW n \in Nat, InOrder(l, w, p, a, n), w # <<>>
    PROVE  InOrder(Append(l, Head(w)), Tail(w), p, a, n)
<1>1. Head(w) \in Requests /\ 1 \in DOMAIN w /\ Head(w) = w[1]
  BY HeadTailProperties, LenProperties, EmptySeq
<1>2. /\ a[Head(w)] > 0
      /\ \A i \in DOMAIN l : a[l[i]] < a[Head(w)]
      /\ \A i \in DOMAIN p : a[Head(w)] < a[p[i]]
  BY <1>1 DEF InOrder, Numbered, Before
<1>3. /\ Tail(w) \in Seq(Requests)
      /\ Numbered(a, Tail(w)) /\ Increasing(a, Tail(w))
      /\ \A i \in DOMAIN Tail(w) : a[Head(w)] < a[Tail(w)[i]]
      /\ Before(a, l, Tail(w)) /\ Before(a, Tail(w), p)
  BY TailOrder DEF InOrder
<1>4. /\ Numbered(a, Append(l, Head(w))) /\ Increasing(a, Append(l, Head(w)))
      /\ Before(a, Append(l, Head(w)), p)
      /\ Before(a, Append(l, Head(w)), Tail(w))
  BY <1>1, <1>2, <1>3, AppendOrder DEF InOrder
<1> QED
  BY <1>3, <1>4 DEF InOrder

\* A write is lost, or all of them are.
LEMMA OrderLoseWrites ==
    ASSUME NEW l \in Seq(Requests), NEW w \in Seq(Requests), NEW p \in Seq(Requests),
           NEW a \in Arrivals, NEW n \in Nat, InOrder(l, w, p, a, n)
    PROVE  /\ InOrder(l, <<>>, p, a, n)
           /\ w # <<>> => InOrder(l, Tail(w), p, a, n)
<1>1. InOrder(l, <<>>, p, a, n)
  BY DEF InOrder, Numbered, Increasing, Before
<1>2. ASSUME w # <<>>
      PROVE  InOrder(l, Tail(w), p, a, n)
  BY <1>2, TailOrder DEF InOrder
<1> QED
  BY <1>1, <1>2

\* A pending request is removed.
LEMMA OrderLeave ==
    ASSUME NEW l \in Seq(Requests), NEW w \in Seq(Requests), NEW p \in Seq(Requests),
           NEW a \in Arrivals, NEW n \in Nat, InOrder(l, w, p, a, n),
           NEW k \in DOMAIN p
    PROVE  InOrder(l, w, RemoveAt(p, k), a, n)
<1> DEFINE q == RemoveAt(p, k)
           f == [i \in 1..(Len(p) - 1) |-> IF i < k THEN i ELSE i + 1]
<1>1. Len(p) \in Nat /\ DOMAIN p = 1..Len(p) /\ k \in 1..Len(p)
  BY LenProperties
<1>2. /\ q \in Seq(Requests)
      /\ DOMAIN q = 1..(Len(p) - 1)
      /\ \A i \in 1..(Len(p) - 1) : q[i] = IF i < k THEN p[i] ELSE p[i + 1]
  BY <1>1, RemoveAtProperties, LenProperties
<1>3. /\ \A i \in DOMAIN q : f[i] \in DOMAIN p /\ q[i] = p[f[i]]
      /\ \A i, j \in DOMAIN q : i < j => f[i] < f[j]
  BY <1>1, <1>2
<1> HIDE DEF q, f
<1>4. Numbered(a, q) /\ Increasing(a, q) /\ Before(a, l, q) /\ Before(a, w, q)
  BY <1>2, <1>3, SelectionOrder DEF InOrder
<1> QED
  BY <1>4 DEF InOrder, q

-----------------------------------------------------------------------------
\* What the calls of the transport do to the log of the node and to the writes.
LEMMA CallsKeepOrder ==
    ASSUME NEW s \in IoTypes
    PROVE  /\ \A i : Taken(s, i).log = s.log /\ Taken(s, i).writes = s.writes
           /\ \A c : Queued(s, c).log = s.log /\ Queued(s, c).writes = s.writes
           /\ \A r : AsyncRead(s, r).log = s.log /\ AsyncRead(s, r).writes = s.writes
           /\ Cancelled(s).log = s.log /\ Cancelled(s).writes = <<>>
           /\ Closed(s).log = s.log /\ Closed(s).writes = <<>>
           /\ Connected(Closed(s)).log = s.log /\ Connected(Closed(s)).writes = <<>>
<1>1. /\ \A i : Taken(s, i).log = s.log /\ Taken(s, i).writes = s.writes
      /\ \A c : Queued(s, c).log = s.log /\ Queued(s, c).writes = s.writes
  BY DEF IoTypes, Taken, Queued
<1>2. \A r : AsyncRead(s, r).log = s.log /\ AsyncRead(s, r).writes = s.writes
  BY <1>1 DEF IoTypes, AsyncRead
<1>3. Cancelled(s) \in IoTypes /\ Cancelled(s).log = s.log /\ Cancelled(s).writes = <<>>
  BY CancelledType DEF IoTypes, Cancelled
<1>4. Closed(s) \in IoTypes /\ Closed(s).log = s.log /\ Closed(s).writes = <<>>
  BY <1>3, ClosedType DEF IoTypes, Closed
<1>5. Connected(Closed(s)).log = s.log /\ Connected(Closed(s)).writes = <<>>
  BY <1>4 DEF IoTypes, Connected
<1> QED
  BY <1>1, <1>2, <1>3, <1>4, <1>5

LEMMA TransmittedFields ==
    ASSUME NEW s \in IoTypes, NEW r
    PROVE  /\ Transmitted(s, r).log = Append(s.log, r)
           /\ Transmitted(s, r).writes = s.writes
BY DEF IoTypes, Transmitted

LEMMA RunNextRequestOrder ==
    ASSUME NEW s \in IoTypes, NEW q \in Seq(Requests), NEW a \in Arrivals, NEW n \in Nat,
           InOrder(s.log, s.writes, q, a, n), RunNextRequest(q, s)
    PROVE  InOrder(io'.log, io'.writes, pending', a, n)
<1>1. s.log \in Seq(Requests) /\ s.writes \in Seq(Requests)
  BY IoFields
<1>2. CASE q = <<>>
  BY <1>2 DEF RunNextRequest
<1>3. CASE q # <<>>
  <2> DEFINE r == Head(q)
             w == Append(s.writes, r)
  <2>1. r \in Requests /\ Tail(q) \in Seq(Requests)
    BY <1>3
  <2>2. w \in Seq(Requests) /\ InOrder(s.log, w, Tail(q), a, n)
    BY <1>1, <1>3, <2>1, OrderStart
  <2>3. io' = AsyncWrite(s, r) /\ pending' = Tail(q)
    BY <1>3 DEF RunNextRequest
  <2>4. CASE ~s.open
    <3>1. io'.log = s.log /\ io'.writes = s.writes
      BY <2>3, <2>4, CallsKeepOrder DEF AsyncWrite
    <3>2. InOrder(s.log, s.writes, Tail(q), a, n)
      BY <1>1, <1>3, TailOrder DEF InOrder
    <3> QED
      BY <2>3, <3>1, <3>2
  <2>5. CASE s.open /\ s.up /\ EagerWrites /\ s.writes = <<>>
    <3>1. io'.log = Append(s.log, r) /\ io'.writes = <<>>
      BY <2>3, <2>5, TransmittedFields DEF AsyncWrite
    <3>2. w # <<>> /\ Head(w) = r /\ Tail(w) = <<>>
      BY <2>1, <2>5
    <3>3. InOrder(Append(s.log, r), <<>>, Tail(q), a, n)
      BY <1>1, <2>1, <2>2, <3>2, OrderTransmit
    <3> QED
      BY <2>3, <3>1, <3>3
  <2>6. CASE s.open /\ ~(s.up /\ EagerWrites /\ s.writes = <<>>)
    <3>1. io' = [s EXCEPT !.writes = Append(@, r)]
      BY <2>3, <2>6 DEF AsyncWrite
    <3>2. io'.log = s.log /\ io'.writes = w
      BY <3>1 DEF IoTypes
    <3> QED
      BY <2>2, <2>3, <3>2
  <2> QED
    BY <2>4, <2>5, <2>6
<1> QED
  BY <1>2, <1>3

-----------------------------------------------------------------------------
(***************************************************************************)
(* OrderKept, one lemma for the environment and one for each part of the   *)
(* transport that moves a request.                                         *)
(***************************************************************************)
LEMMA EnvironmentOrder ==
    ASSUME TypeOK, OrderKept, UNCHANGED <<pending, history>>,
           \/ WriteCompletes \/ WriteGoesNowhere \/ ReadCompletes
           \/ ReadFails \/ NodeReplies \/ PeerResets
    PROVE  OrderKept'
<1> USE DEF TypeOK, OrderKept, history
<1>1. /\ io \in IoTypes /\ arrival \in Arrivals
      /\ io.log \in Seq(Requests) /\ io.writes \in Seq(Requests)
  BY IoFields DEF Arrivals
<1>2. ASSUME NEW s \in IoTypes, NEW q, s = [io EXCEPT !.writes = q]
      PROVE  s.log = io.log /\ s.writes = q
  BY <1>1, <1>2 DEF IoTypes
<1>3. CASE WriteCompletes
  <2> DEFINE s == [io EXCEPT !.writes = Tail(@)]
  <2>1. Tail(io.writes) \in Seq(Requests)
    BY <1>1, <1>3 DEF WriteCompletes
  <2>2. s \in IoTypes
    BY <1>1, <2>1, NewOperations
  <2>3. s.log = io.log /\ s.writes = Tail(io.writes)
    BY <1>2, <2>2
  <2>4. io' = Transmitted(s, Head(io.writes))
    BY <1>3 DEF WriteCompletes
  <2>5. io'.log = Append(io.log, Head(io.writes)) /\ io'.writes = Tail(io.writes)
    BY <2>2, <2>3, <2>4, TransmittedFields
  <2> QED
    BY <1>1, <1>3, <2>5, OrderTransmit DEF WriteCompletes
<1>4. CASE WriteGoesNowhere
  <2> DEFINE s == [io EXCEPT !.writes = Tail(@)]
  <2>1. Tail(io.writes) \in Seq(Requests)
    BY <1>1, <1>4 DEF WriteGoesNowhere
  <2>2. s \in IoTypes
    BY <1>1, <2>1, NewOperations
  <2>3. s.log = io.log /\ s.writes = Tail(io.writes)
    BY <1>2, <2>2
  <2>4. PICK c : io' = Queued(s, c)
    BY <1>4 DEF WriteGoesNowhere
  <2> HIDE DEF s
  <2>5. io'.log = io.log /\ io'.writes = Tail(io.writes)
    BY <2>2, <2>3, <2>4, CallsKeepOrder
  <2> QED
    BY <1>1, <1>4, <2>5, OrderLoseWrites DEF WriteGoesNowhere
<1>5. CASE ReadCompletes \/ ReadFails \/ NodeReplies \/ PeerResets
  <2>1. io'.log = io.log /\ io'.writes = io.writes
    BY <1>1, <1>5 DEF ReadCompletes, ReadFails, NodeReplies, PeerResets, Queued, IoTypes
  <2> QED
    BY <2>1
<1> QED
  BY <1>3, <1>4, <1>5

LEMMA DeliverOrder ==
    ASSUME TypeOK, OrderKept, NEW t \in Threads, NEW r \in Requests, Deliver(t, r)
    PROVE  OrderKept'
<1> DEFINE q == Append(pending, r)
           b == [arrival EXCEPT ![r] = arrivals + 1]
<1>1. /\ io \in IoTypes /\ arrival \in Arrivals /\ b \in Arrivals
      /\ io.log \in Seq(Requests) /\ io.writes \in Seq(Requests)
      /\ pending \in Seq(Requests) /\ q \in Seq(Requests)
      /\ arrivals \in Nat /\ arrivals + 1 \in Nat
  BY IoFields DEF TypeOK, Arrivals
<1>2. InOrder(io.log, io.writes, q, b, arrivals + 1)
  BY <1>1, OrderArrive DEF OrderKept, Deliver
<1>3. arrival' = b /\ arrivals' = arrivals + 1
  BY DEF Deliver
<1>4. CASE active = None
  BY <1>1, <1>2, <1>3, <1>4, RunNextRequestOrder DEF Deliver, Admit, OrderKept
<1>5. CASE active # None
  BY <1>2, <1>3, <1>5 DEF Deliver, Admit, OrderKept
<1> QED
  BY <1>4, <1>5

LEMMA HandlersOrder ==
    ASSUME TypeOK, OrderKept, NEW w \in Workers, RunsHandler(w)
    PROVE  OrderKept'
<1>1. /\ io \in IoTypes /\ arrival \in Arrivals
      /\ io.log \in Seq(Requests) /\ io.writes \in Seq(Requests)
      /\ pending \in Seq(Requests) /\ arrivals \in Nat
  BY IoFields DEF TypeOK, Arrivals
<1>2. ASSUME NEW s \in IoTypes, s.log = io.log, s.writes \in {io.writes, <<>>}
      PROVE  InOrder(s.log, s.writes, pending, arrival, arrivals)
  BY <1>1, <1>2, OrderLoseWrites DEF OrderKept
<1>3. ASSUME NEW i \in DOMAIN io.ready
      PROVE  /\ Taken(io, i) \in IoTypes
             /\ Taken(io, i).log = io.log
             /\ Taken(io, i).writes = io.writes
  BY <1>1, TakenType, CallsKeepOrder
<1>4. ASSUME UNCHANGED <<pending, history>>, io' \in IoTypes, io'.log = io.log,
             io'.writes \in {io.writes, <<>>}
      PROVE  OrderKept'
  BY <1>2, <1>4 DEF OrderKept, history
<1>5. ASSUME NEW c, NEW s \in IoTypes, s.log = io.log, s.writes = io.writes,
             UNCHANGED history, HandleSocketError(w, c, s)
      PROVE  OrderKept'
  <2>1. /\ Closed(s) \in IoTypes /\ Connected(Closed(s)) \in IoTypes
        /\ Closed(s).log = io.log /\ Closed(s).writes = <<>>
        /\ Connected(Closed(s)).log = io.log /\ Connected(Closed(s)).writes = <<>>
    BY <1>5, ClosedType, CallsKeepOrder
  <2>2. CASE Reconnects(s) /\ ~shutting_down
    <3>1. RunNextRequest(pending, Connected(Closed(s)))
      BY <2>2 DEF Reconnects
    <3>2. InOrder(Connected(Closed(s)).log, Connected(Closed(s)).writes, pending,
                  arrival, arrivals)
      BY <1>2, <2>1
    <3> QED
      BY <1>1, <1>5, <2>1, <3>1, <3>2, RunNextRequestOrder DEF OrderKept, history
  <2>3. CASE Reconnects(s) /\ shutting_down
    BY <1>4, <1>5, <2>1, <2>3 DEF Reconnects, history
  <2>4. CASE ReconnectThrows(s)
    BY <1>4, <1>5, <2>1, <2>4 DEF ReconnectThrows, history
  <2>5. CASE io' = s /\ UNCHANGED pending
    BY <1>4, <1>5, <2>5 DEF history
  <2> QED
    BY <1>5, <2>2, <2>3, <2>4, <2>5 DEF HandleSocketError
<1>6. ASSUME NEW i \in DOMAIN io.ready, OnWrite(w, i) \/ OnRead(w, i)
      PROVE  OrderKept'
  <2> DEFINE c == io.ready[i]
             s == Taken(io, i)
  <2>1. c.req \in Requests
    BY <1>1, TakenType DEF Completions
  <2>2. /\ AsyncRead(s, c.req) \in IoTypes
        /\ AsyncRead(s, c.req).log = io.log
        /\ AsyncRead(s, c.req).writes = io.writes
    BY <1>3, <2>1, AsyncReadType, CallsKeepOrder
  <2>3. UNCHANGED history
    BY <1>6 DEF OnWrite, OnRead
  <2>4. CASE io' \in {s, AsyncRead(s, c.req)} /\ UNCHANGED pending
    BY <1>3, <1>4, <2>2, <2>3, <2>4 DEF history
  <2>5. CASE HandleSocketError(w, c, s)
    BY <1>3, <1>5, <2>3, <2>5
  <2> QED
    BY <1>6, <2>4, <2>5 DEF OnWrite, OnRead, Superseded
<1>7. ASSUME NEW i \in DOMAIN io.ready, DequeueThreadSafely(w, i)
      PROVE  OrderKept'
  <2>1. io'.log = io.log /\ io'.writes = io.writes /\ UNCHANGED history
    BY <1>3, <1>7 DEF DequeueThreadSafely
  <2>2. CASE UNCHANGED pending
    BY <2>1, <2>2 DEF OrderKept, history
  <2>3. CASE \E j \in DOMAIN pending : pending' = RemoveAt(pending, j)
    BY <1>1, <2>1, <2>3, OrderLeave DEF OrderKept, history
  <2> QED
    BY <1>7, <2>2, <2>3 DEF DequeueThreadSafely
<1>8. CASE RunsOnFreedPool(w)
  BY <1>8 DEF RunsOnFreedPool, OrderKept, history
<1> QED
  BY <1>6, <1>7, <1>8 DEF RunsHandler

LEMMA UserStepOrder ==
    ASSUME TypeOK, OrderKept, NEW t \in Threads, UserStep(t)
    PROVE  OrderKept'
<1>1. /\ io \in IoTypes /\ arrival \in Arrivals
      /\ io.log \in Seq(Requests) /\ io.writes \in Seq(Requests)
      /\ pending \in Seq(Requests) /\ arrivals \in Nat
  BY IoFields DEF TypeOK, Arrivals
<1>2. CASE UNCHANGED <<io, pending, history>>
  BY <1>2 DEF OrderKept, history
<1>3. CASE ExerciseQueued(t)
  <2>1. io'.log = io.log /\ io'.writes = io.writes
    BY <1>1, <1>3, CallsKeepOrder DEF ExerciseQueued
  <2> QED
    BY <1>3, <2>1 DEF ExerciseQueued, OrderKept, history
<1>4. CASE ExerciseAdvances(t)
  BY <1>1, <1>2, <1>4, RunNextRequestOrder DEF ExerciseAdvances, OrderKept, history
<1>5. CASE ExerciseCancels(t) /\ io' = Cancelled(io)
  <2>1. io'.log = io.log /\ io'.writes = <<>>
    BY <1>1, <1>5, CallsKeepOrder
  <2> QED
    BY <1>1, <1>5, <2>1, OrderLoseWrites DEF ExerciseCancels, OrderKept, history
<1>6. CASE ExerciseCancels(t) /\ UNCHANGED io
  BY <1>2, <1>6 DEF ExerciseCancels
<1>7. CASE \/ EnterHandler(t) \/ HandlerReturns(t) \/ HandlerTerminates(t)
           \/ ExerciseActive(t) \/ ExerciseFaults(t)
  BY <1>2, <1>7 DEF EnterHandler, HandlerReturns, HandlerTerminates, ExerciseActive,
                    ExerciseFaults
<1> QED
  BY <1>3, <1>4, <1>5, <1>6, <1>7 DEF UserStep, ExerciseCancels

LEMMA DestructionOrder ==
    ASSUME TypeOK, OrderKept, Destroy \/ DestructorStep \/ WakesSpuriously
    PROVE  OrderKept'
<1>1. /\ io \in IoTypes /\ arrival \in Arrivals
      /\ io.log \in Seq(Requests) /\ io.writes \in Seq(Requests)
      /\ pending \in Seq(Requests) /\ arrivals \in Nat
  BY IoFields DEF TypeOK, Arrivals
<1>2. CASE UNCHANGED <<io, pending, history>>
  BY <1>2 DEF OrderKept, history
<1>3. CASE io'.log = io.log /\ io'.writes = <<>> /\ UNCHANGED <<pending, history>>
  BY <1>1, <1>3, OrderLoseWrites DEF OrderKept, history
<1>4. CASE Drained \/ WakesSpuriously
  <2>1. io' \in {io, Cancelled(io), Closed(io), Closed(Cancelled(io))}
    BY <1>4 DEF Drained, WakesSpuriously, CloseForGood
  <2>2. \/ UNCHANGED io
        \/ io'.log = io.log /\ io'.writes = <<>>
    BY <1>1, <2>1, CancelledType, CallsKeepOrder
  <2> QED
    BY <1>2, <1>3, <1>4, <2>2 DEF Drained, WakesSpuriously, history
<1>5. CASE Destroy \/ TellPending \/ AwaitDequeued
  BY <1>2, <1>5 DEF Destroy, TellPending, AwaitDequeued
<1> QED
  BY <1>4, <1>5 DEF DestructorStep

\* A request passes from the queue to the socket to the node without overtaking
\* another one, and never back.
THEOREM OrderMaintained == Spec => []OrderKept
<1>1. Init => OrderKept
  BY DEF Init, IoInit, OrderKept, InOrder, Numbered, Increasing, Before
<1>2. TypeOK /\ OrderKept /\ [Next]_vars => OrderKept'
  <2> SUFFICES ASSUME TypeOK, OrderKept, [Next]_vars
               PROVE  OrderKept'
    OBVIOUS
  <2>1. CASE \/ Outside(WriteCompletes) \/ Outside(WriteGoesNowhere)
             \/ Outside(ReadCompletes) \/ Outside(ReadFails)
             \/ Outside(NodeReplies) \/ Outside(PeerResets)
    BY <2>1, EnvironmentOrder DEF Outside, Rest, history
  <2>2. ASSUME NEW w \in Workers, RunsHandler(w) PROVE OrderKept'
    BY <2>2, HandlersOrder
  <2>3. ASSUME NEW t \in Threads, UserStep(t) PROVE OrderKept'
    BY <2>3, UserStepOrder
  <2>4. ASSUME NEW t \in Threads, NEW r \in Requests, Deliver(t, r) PROVE OrderKept'
    BY <2>4, DeliverOrder
  <2>5. ASSUME NEW t \in Threads, NEW r \in Requests, Abandon(t, r) PROVE OrderKept'
    BY <2>5 DEF Abandon, OrderKept, history
  <2>6. CASE Destroy \/ DestructorStep \/ WakesSpuriously
    BY <2>6, DestructionOrder
  <2>7. CASE UNCHANGED vars
    BY <2>7 DEF vars, OrderKept, history
  <2> QED
    BY <2>1, <2>2, <2>3, <2>4, <2>5, <2>6, <2>7 DEF Next, Application
<1> QED
  BY <1>1, <1>2, TypeCorrect, PTL DEF Spec

\* The node never receives a request twice, nor one that was delivered after
\* another before it.
THEOREM ServedInOrderAlways == Spec => []ServedInOrder
<1>1. OrderKept => ServedInOrder
  BY DEF OrderKept, InOrder, ServedInOrder
<1> QED
  BY <1>1, OrderMaintained, PTL

-----------------------------------------------------------------------------
(***************************************************************************)
(* What becomes of the active request.                                     *)
(***************************************************************************)
LEMMA RunNextRequestConserves ==
    ASSUME NEW s, NEW q \in Seq(Requests), RunNextRequest(q, s)
    PROVE  pending' # <<>> => active' # None
<1>1. q # <<>> => Head(q) # None
  BY SocketAssumption
<1> QED
  BY <1>1 DEF RunNextRequest

\* What WorkConserving says of a step.
Conserves ==
    pending' # <<>> /\ active' = None =>
        \/ failures' > failures
        \/ shutting_down'
        \/ pending # <<>> /\ active = None /\ arrivals' = arrivals

LEMMA SocketErrorConserves ==
    ASSUME TypeOK, NEW w, NEW c, NEW s, HandleSocketError(w, c, s),
           UNCHANGED <<shutting_down, arrivals>>
    PROVE  Conserves
<1>1. CASE Reconnects(s) /\ ~shutting_down
  BY <1>1, RunNextRequestConserves DEF Reconnects, TypeOK, Conserves
<1>2. CASE Reconnects(s) /\ shutting_down
  BY <1>2 DEF Conserves
<1>3. CASE ReconnectThrows(s)
  BY <1>3, SchedulerAssumption DEF ReconnectThrows, TypeOK, Conserves
<1>4. CASE UNCHANGED <<pending, active, failures>>
  BY <1>4 DEF Conserves
<1> QED
  BY <1>1, <1>2, <1>3, <1>4 DEF HandleSocketError

\* A step leaves the connection idle while requests wait only if its reconnection throws
\* or the transport is being destroyed; and what it left idle stays so no longer than
\* until the next request arrives (handle_socket_error, deliver).
THEOREM WorkConserved == Spec => WorkConserving
<1>1. TypeOK /\ [Next]_vars => [Conserves]_vars
  <2> SUFFICES ASSUME TypeOK, Next
               PROVE  Conserves
    OBVIOUS
  <2>1. CASE UNCHANGED <<pending, active, arrivals>>
    BY <2>1 DEF Conserves
  <2>2. CASE \/ Outside(WriteCompletes) \/ Outside(WriteGoesNowhere)
             \/ Outside(ReadCompletes) \/ Outside(ReadFails)
             \/ Outside(NodeReplies) \/ Outside(PeerResets)
    BY <2>1, <2>2 DEF Outside, Rest, history
  <2>3. ASSUME NEW w \in Workers, NEW i \in DOMAIN io.ready,
               OnWrite(w, i) \/ OnRead(w, i)
        PROVE  Conserves
    BY <2>1, <2>3, SocketErrorConserves DEF OnWrite, OnRead, Superseded, history
  <2>4. ASSUME NEW w \in Workers, NEW i \in DOMAIN io.ready, DequeueThreadSafely(w, i)
        PROVE  Conserves
    <3>1. pending = <<>> => ~Waiting(io.ready[i].req)
      BY DEF Waiting
    <3> QED
      BY <2>4, <3>1 DEF DequeueThreadSafely, Conserves, history
  <2>5. ASSUME NEW w \in Workers, RunsOnFreedPool(w) PROVE Conserves
    BY <2>1, <2>5 DEF RunsOnFreedPool, history
  <2>6. ASSUME NEW t \in Threads, UserStep(t) PROVE Conserves
    <3>1. CASE ExerciseAdvances(t) /\ ~shutting_down
      BY <3>1, RunNextRequestConserves DEF ExerciseAdvances, TypeOK, Conserves
    <3>2. CASE ExerciseAdvances(t) /\ shutting_down
      BY <3>2 DEF ExerciseAdvances, Conserves
    <3>3. CASE \/ EnterHandler(t) \/ HandlerReturns(t) \/ HandlerTerminates(t)
               \/ ExerciseActive(t) \/ ExerciseQueued(t) \/ ExerciseFaults(t)
               \/ ExerciseCancels(t)
      BY <2>1, <3>3 DEF EnterHandler, HandlerReturns, HandlerTerminates, ExerciseActive,
                        ExerciseQueued, ExerciseFaults, ExerciseCancels, history
    <3> QED
      BY <2>6, <3>1, <3>2, <3>3 DEF UserStep
  <2>7. ASSUME NEW t \in Threads, NEW r \in Requests, Deliver(t, r)
        PROVE  Conserves
    <3>1. Append(pending, r) \in Seq(Requests)
      BY DEF TypeOK
    <3> QED
      BY <2>7, <3>1, RunNextRequestConserves DEF Deliver, Admit, Conserves
  <2>8. ASSUME NEW t \in Threads, NEW r \in Requests, Abandon(t, r)
        PROVE  Conserves
    BY <2>1, <2>8 DEF Abandon, history
  <2>9. CASE Destroy \/ DestructorStep \/ WakesSpuriously
    BY <2>1, <2>9 DEF Destroy, DestructorStep, TellPending, AwaitDequeued, Drained,
                      WakesSpuriously, history
  <2> QED
    BY <2>2, <2>3, <2>4, <2>5, <2>6, <2>7, <2>8, <2>9 DEF Next, RunsHandler, Application
<1> QED
  BY <1>1, TypeCorrect, PTL DEF Spec, WorkConserving, Conserves

\* After shutting_down_ is set no request is started any more: neither a clean
\* termination nor a reconnection takes one from the queue.
THEOREM ShutdownIsFinal == Spec => NothingStartsInShutdown
<1>1. [Next]_vars => [shutting_down => active' \in {active, None}]_vars
  <2> SUFFICES ASSUME Next, shutting_down
               PROVE  active' \in {active, None}
    OBVIOUS
  <2>1. CASE UNCHANGED active
    BY <2>1
  <2>2. CASE \/ Outside(WriteCompletes) \/ Outside(WriteGoesNowhere)
             \/ Outside(ReadCompletes) \/ Outside(ReadFails)
             \/ Outside(NodeReplies) \/ Outside(PeerResets)
    BY <2>2 DEF Outside, Rest
  <2>3. ASSUME NEW w \in Workers, RunsHandler(w) PROVE active' \in {active, None}
    BY <2>3 DEF RunsHandler, OnWrite, OnRead, Superseded, HandleSocketError, Reconnects,
                ReconnectThrows, DequeueThreadSafely, RunsOnFreedPool
  <2>4. ASSUME NEW t \in Threads, UserStep(t) PROVE active' \in {active, None}
    BY <2>4 DEF UserStep, EnterHandler, HandlerReturns, HandlerTerminates,
                ExerciseActive, ExerciseQueued, ExerciseFaults, ExerciseAdvances,
                ExerciseCancels
  <2>5. CASE Application
    BY <2>5 DEF Application, Deliver, Abandon, Destroy
  <2>6. CASE DestructorStep \/ WakesSpuriously
    BY <2>6 DEF DestructorStep, TellPending, AwaitDequeued, Drained, WakesSpuriously
  <2> QED
    BY <2>2, <2>3, <2>4, <2>5, <2>6 DEF Next
<1> QED
  BY <1>1, PTL DEF Spec, NothingStartsInShutdown
=============================================================================
