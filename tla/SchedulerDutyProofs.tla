------------------------ MODULE SchedulerDutyProofs -------------------------
(***************************************************************************)
(* What the scheduler owes its requests, for every set of requests and     *)
(* threads and every number of failures: it does not lose track of the     *)
(* active request, and it tells the pending ones that it is destroyed.     *)
(***************************************************************************)
EXTENDS SchedulerProofs

-----------------------------------------------------------------------------
(***************************************************************************)
(* Operations of the socket s for r that have yet to be heard of, and that *)
(* no call of the transport or step of the network loses them.             *)
(***************************************************************************)
Outstanding(s, r) ==
    \/ \E i \in DOMAIN s.reads  : s.reads[i] = r
    \/ \E i \in DOMAIN s.writes : s.writes[i] = r
    \/ \E i \in DOMAIN s.ready  : s.ready[i].req = r /\ s.ready[i].call # "dequeue"

LEMMA OutstandingIsUnderWay ==
    \A r : UnderWay(r) <=> Outstanding(io, r)
BY DEF UnderWay, Outstanding

\* What is added at the end of a sequence, and what stays.
LEMMA AppendKeeps ==
    ASSUME NEW S, NEW q \in Seq(S), NEW x \in S
    PROVE  /\ DOMAIN q \subseteq DOMAIN Append(q, x)
           /\ \A i \in DOMAIN q : Append(q, x)[i] = q[i]
           /\ \E i \in DOMAIN Append(q, x) : Append(q, x)[i] = x
<1>1. /\ Append(q, x) \in Seq(S) /\ Len(Append(q, x)) = Len(q) + 1
      /\ \A i \in 1..Len(q) : Append(q, x)[i] = q[i]
      /\ Append(q, x)[Len(q) + 1] = x
      /\ Len(q) \in Nat
  BY AppendProperties, LenProperties
<1>2. DOMAIN q = 1..Len(q) /\ DOMAIN Append(q, x) = 1..(Len(q) + 1)
  BY <1>1, LenProperties
<1> QED
  BY <1>1, <1>2

\* r has every element of p.
Holds(p, r) == \A i \in DOMAIN p : \E k \in DOMAIN r : r[k] = p[i]

\* Both parts of a concatenation stay.
LEMMA ConcatKeeps ==
    ASSUME NEW p \in Seq(Completions), NEW q \in Seq(Completions), NEW r, r = p \o q
    PROVE  r \in Seq(Completions) /\ Holds(p, r) /\ Holds(q, r)
<1>1. /\ r \in Seq(Completions) /\ Len(r) = Len(p) + Len(q)
      /\ \A i \in 1..(Len(p) + Len(q)) :
            r[i] = IF i <= Len(p) THEN p[i] ELSE q[i - Len(p)]
  BY ConcatProperties
<1>2. /\ Len(p) \in Nat /\ DOMAIN p = 1..Len(p)
      /\ Len(q) \in Nat /\ DOMAIN q = 1..Len(q)
  BY LenProperties
<1>3. DOMAIN r = 1..(Len(p) + Len(q))
  BY <1>1, LenProperties
<1>4. ASSUME NEW i \in DOMAIN p
      PROVE  i \in DOMAIN r /\ r[i] = p[i]
  <2>1. i \in 1..(Len(p) + Len(q)) /\ i <= Len(p)
    BY <1>2
  <2> QED
    BY <1>1, <1>3, <2>1
<1>5. ASSUME NEW i \in DOMAIN q
      PROVE  Len(p) + i \in DOMAIN r /\ r[Len(p) + i] = q[i]
  <2>1. /\ Len(p) + i \in 1..(Len(p) + Len(q)) /\ ~(Len(p) + i <= Len(p))
        /\ (Len(p) + i) - Len(p) = i
    BY <1>2
  <2> QED
    BY <1>1, <1>3, <2>1
<1> QED
  BY <1>1, <1>4, <1>5 DEF Holds

\* A step to t leaves at least what s had.
Keeps(s, t) == \A r : Outstanding(s, r) => Outstanding(t, r)

LEMMA QueuedKeeps ==
    ASSUME NEW s \in IoTypes, NEW c \in Completions
    PROVE  /\ Keeps(s, Queued(s, c))
           /\ c.call # "dequeue" => Outstanding(Queued(s, c), c.req)
<1>1. PICK t : t = Queued(s, c)
  OBVIOUS
<1>2. s.ready \in Seq(Completions)
  BY IoFields
<1>3. /\ t.reads = s.reads /\ t.writes = s.writes /\ t.ready = Append(s.ready, c)
  BY <1>1 DEF Queued, IoTypes
<1>4. /\ DOMAIN s.ready \subseteq DOMAIN t.ready
      /\ \A i \in DOMAIN s.ready : t.ready[i] = s.ready[i]
      /\ \E i \in DOMAIN t.ready : t.ready[i] = c
  BY <1>2, <1>3, AppendKeeps
<1>5. Keeps(s, t) /\ (c.call # "dequeue" => Outstanding(t, c.req))
  BY <1>3, <1>4 DEF Keeps, Outstanding
<1> QED
  BY <1>1, <1>5

LEMMA TransmittedKeeps ==
    ASSUME NEW s \in IoTypes, NEW q \in Requests
    PROVE  Keeps(s, Transmitted(s, q)) /\ Outstanding(Transmitted(s, q), q)
<1>1. PICK c : c = Completion("on_write", q, "success", NoSegment)
  OBVIOUS
<1>2. c \in Completions /\ c.call = "on_write" /\ c.req = q
  BY <1>1, CompletionType DEF Errors, Completion
<1>3. PICK t : t = Transmitted(s, q)
  OBVIOUS
<1>4. t.reads = s.reads /\ t.writes = s.writes /\ t.ready = Append(s.ready, c)
  BY <1>1, <1>3 DEF Transmitted, IoTypes
<1>5. /\ DOMAIN s.ready \subseteq DOMAIN t.ready
      /\ \A i \in DOMAIN s.ready : t.ready[i] = s.ready[i]
      /\ \E i \in DOMAIN t.ready : t.ready[i] = c
  <2>1. s.ready \in Seq(Completions)
    BY IoFields
  <2> QED
    BY <1>2, <1>4, <2>1, AppendKeeps
<1>6. Keeps(s, t) /\ Outstanding(t, q)
  BY <1>2, <1>4, <1>5 DEF Keeps, Outstanding
<1> QED
  BY <1>3, <1>6

LEMMA AsyncWriteKeeps ==
    ASSUME NEW s \in IoTypes, NEW q \in Requests
    PROVE  Keeps(s, AsyncWrite(s, q)) /\ Outstanding(AsyncWrite(s, q), q)
<1>1. PICK c : c = Completion("on_write", q, "failed", NoSegment)
  OBVIOUS
<1>2. c \in Completions /\ c.call = "on_write" /\ c.req = q
  BY <1>1, CompletionType DEF Errors, Completion
<1>3. Keeps(s, Queued(s, c)) /\ Outstanding(Queued(s, c), q)
  BY <1>2, QueuedKeeps
<1>4. PICK t : t = [s EXCEPT !.writes = Append(@, q)]
  OBVIOUS
<1>5. t.reads = s.reads /\ t.ready = s.ready /\ t.writes = Append(s.writes, q)
  BY <1>4 DEF IoTypes
<1>6. /\ DOMAIN s.writes \subseteq DOMAIN t.writes
      /\ \A i \in DOMAIN s.writes : t.writes[i] = s.writes[i]
      /\ \E i \in DOMAIN t.writes : t.writes[i] = q
  <2>1. s.writes \in Seq(Requests)
    BY IoFields
  <2> QED
    BY <1>5, <2>1, AppendKeeps
<1>7. Keeps(s, t) /\ Outstanding(t, q)
  BY <1>5, <1>6 DEF Keeps, Outstanding
<1> QED
  BY <1>1, <1>3, <1>4, <1>7, TransmittedKeeps DEF AsyncWrite

LEMMA AsyncReadKeeps ==
    ASSUME NEW s \in IoTypes, NEW q \in Requests
    PROVE  Outstanding(AsyncRead(s, q), q)
<1>1. PICK c : c = Completion("on_read", q, "failed", NoSegment)
  OBVIOUS
<1>2. c \in Completions /\ c.call = "on_read" /\ c.req = q
  BY <1>1, CompletionType DEF Errors, Completion
<1>3. Outstanding(Queued(s, c), q)
  BY <1>2, QueuedKeeps
<1>4. PICK t : t = [s EXCEPT !.reads = Append(@, q)]
  OBVIOUS
<1>5. t.reads = Append(s.reads, q)
  BY <1>4 DEF IoTypes
<1>6. \E i \in DOMAIN t.reads : t.reads[i] = q
  BY <1>5, IoFields, AppendKeeps
<1>7. Outstanding(t, q)
  BY <1>6 DEF Outstanding
<1> QED
  BY <1>1, <1>3, <1>4, <1>7 DEF AsyncRead

\* What is cancelled is heard of as aborted.
LEMMA CancelledKeeps ==
    ASSUME NEW s \in IoTypes
    PROVE  Keeps(s, Cancelled(s))
<1>1. PICK a, b : /\ a = [i \in 1..Len(s.reads) |->
                             Completion("on_read", s.reads[i], "aborted", NoSegment)]
                  /\ b = [i \in 1..Len(s.writes) |->
                             Completion("on_write", s.writes[i], "aborted", NoSegment)]
  OBVIOUS
<1>2. s.reads \in Seq(Requests) /\ s.writes \in Seq(Requests) /\ s.ready \in Seq(Completions)
  BY IoFields
<1>3. /\ \A i \in 1..Len(s.reads) : a[i] \in Completions
      /\ \A i \in 1..Len(s.writes) : b[i] \in Completions
  <2>1. \A i \in 1..Len(s.reads) : s.reads[i] \in Requests
    BY <1>2
  <2>2. \A i \in 1..Len(s.writes) : s.writes[i] \in Requests
    BY <1>2
  <2> QED
    BY <1>1, <2>1, <2>2, CompletionType DEF Errors
<1>4. a \in Seq(Completions) /\ b \in Seq(Completions)
  <2>1. ASSUME NEW n \in Nat, NEW f, f = [i \in 1..n |-> f[i]], \A i \in 1..n : f[i] \in Completions
        PROVE  f \in Seq(Completions)
    BY <2>1
  <2>2. Len(s.reads) \in Nat /\ Len(s.writes) \in Nat
    BY <1>2, LenProperties
  <2>3. a = [i \in 1..Len(s.reads) |-> a[i]] /\ b = [i \in 1..Len(s.writes) |-> b[i]]
    BY <1>1
  <2> QED
    BY <1>3, <2>1, <2>2, <2>3
<1>5. PICK t : t = Cancelled(s)
  OBVIOUS
<1>0. PICK ab : ab = s.ready \o a
  OBVIOUS
<1>6. t.ready = ab \o b
  BY <1>0, <1>1, <1>5 DEF Cancelled, IoTypes
<1>7. ab \in Seq(Completions) /\ Holds(s.ready, ab) /\ Holds(a, ab)
  BY <1>0, <1>2, <1>4, ConcatKeeps
<1>8. Holds(ab, t.ready) /\ Holds(b, t.ready)
  BY <1>4, <1>6, <1>7, ConcatKeeps
<1>9. DOMAIN s.reads = 1..Len(s.reads) /\ DOMAIN s.writes = 1..Len(s.writes)
  BY <1>2, LenProperties
<1>10. /\ \A i \in DOMAIN s.reads :
             i \in DOMAIN a /\ a[i].req = s.reads[i] /\ a[i].call = "on_read"
       /\ \A i \in DOMAIN s.writes :
             i \in DOMAIN b /\ b[i].req = s.writes[i] /\ b[i].call = "on_write"
  BY <1>1, <1>9 DEF Completion
<1>11. Keeps(s, t)
  <2> SUFFICES ASSUME NEW r, Outstanding(s, r)
               PROVE  Outstanding(t, r)
    BY DEF Keeps
  <2>1. ASSUME NEW i \in DOMAIN s.reads, s.reads[i] = r
        PROVE  Outstanding(t, r)
    <3>1. \E k \in DOMAIN t.ready : t.ready[k] = a[i]
      BY <1>7, <1>8, <1>10 DEF Holds
    <3> QED
      BY <1>10, <2>1, <3>1 DEF Outstanding
  <2>2. ASSUME NEW i \in DOMAIN s.writes, s.writes[i] = r
        PROVE  Outstanding(t, r)
    <3>1. \E k \in DOMAIN t.ready : t.ready[k] = b[i]
      BY <1>8, <1>10 DEF Holds
    <3> QED
      BY <1>10, <2>2, <3>1 DEF Outstanding
  <2>3. ASSUME NEW i \in DOMAIN s.ready, s.ready[i].req = r, s.ready[i].call # "dequeue"
        PROVE  Outstanding(t, r)
    <3>1. \E k \in DOMAIN t.ready : t.ready[k] = s.ready[i]
      BY <1>7, <1>8 DEF Holds
    <3> QED
      BY <2>3, <3>1 DEF Outstanding
  <2> QED
    BY <2>1, <2>2, <2>3 DEF Outstanding
<1> QED
  BY <1>5, <1>11

\* The io_service takes handler i; all others stay.
LEMMA TakenKeeps ==
    ASSUME NEW s \in IoTypes, NEW i \in DOMAIN s.ready, NEW r,
           s.ready[i].req # r \/ s.ready[i].call = "dequeue", Outstanding(s, r)
    PROVE  Outstanding(Taken(s, i), r)
<1>1. PICK t : t = Taken(s, i)
  OBVIOUS
<1>2. t.reads = s.reads /\ t.writes = s.writes /\ t.ready = RemoveAt(s.ready, i)
  BY <1>1 DEF Taken, IoTypes
<1>3. s.ready \in Seq(Completions) /\ DOMAIN s.ready = 1..Len(s.ready) /\ Len(s.ready) \in Nat
  BY IoFields
<1>4. /\ t.ready \in Seq(Completions) /\ Len(t.ready) = Len(s.ready) - 1
      /\ \A j \in 1..(Len(s.ready) - 1) :
            t.ready[j] = IF j < i THEN s.ready[j] ELSE s.ready[j + 1]
  <2>1. i \in 1..Len(s.ready)
    BY <1>3
  <2> QED
    BY <1>2, <1>3, <2>1, RemoveAtProperties
<1>5. DOMAIN t.ready = 1..(Len(s.ready) - 1)
  BY <1>4
<1>6. ASSUME NEW j \in DOMAIN s.ready, j # i
      PROVE  \E k \in DOMAIN t.ready : t.ready[k] = s.ready[j]
  <2>1. CASE j < i
    <3>1. j \in 1..(Len(s.ready) - 1)
      BY <1>3, <2>1
    <3> QED
      BY <1>4, <1>5, <2>1, <3>1
  <2>2. CASE j > i
    <3>1. j - 1 \in 1..(Len(s.ready) - 1) /\ ~(j - 1 < i) /\ (j - 1) + 1 = j
      BY <1>3, <2>2
    <3>2. t.ready[j - 1] = s.ready[j]
      BY <1>4, <3>1
    <3> QED
      BY <1>5, <3>1, <3>2
  <2> QED
    BY <1>3, <1>6, <2>1, <2>2
<1>7. Outstanding(t, r)
  BY <1>2, <1>6 DEF Outstanding
<1> QED
  BY <1>1, <1>7
\* What is taken from the head of a sequence is all that it loses.
LEMMA TailKeeps ==
    ASSUME NEW q \in Seq(Requests), q # <<>>
    PROVE  \A i \in DOMAIN q :
              q[i] = Head(q) \/ \E k \in DOMAIN Tail(q) : Tail(q)[k] = q[i]
<1>1. /\ Head(q) = q[1]
      /\ Tail(q) \in Seq(Requests) /\ Len(Tail(q)) = Len(q) - 1
      /\ \A i \in 1..Len(Tail(q)) : Tail(q)[i] = q[i + 1]
  BY HeadTailProperties
<1>2. Len(q) \in Nat /\ DOMAIN q = 1..Len(q) /\ DOMAIN Tail(q) = 1..(Len(q) - 1)
  BY <1>1, LenProperties
<1>3. ASSUME NEW i \in DOMAIN q, i # 1
      PROVE  \E k \in DOMAIN Tail(q) : Tail(q)[k] = q[i]
  <2>1. i - 1 \in 1..(Len(q) - 1) /\ (i - 1) + 1 = i
    BY <1>2, <1>3
  <2>2. i - 1 \in DOMAIN Tail(q) /\ Tail(q)[i - 1] = q[i]
    BY <1>1, <1>2, <2>1
  <2> QED
    BY <2>2
<1> QED
  BY <1>1, <1>3

LEMMA ReadyKeeps ==
    ASSUME NEW s \in IoTypes, NEW c \in Completions
    PROVE  /\ DOMAIN s.ready \subseteq DOMAIN Append(s.ready, c)
           /\ \A i \in DOMAIN s.ready : Append(s.ready, c)[i] = s.ready[i]
           /\ \E i \in DOMAIN Append(s.ready, c) : Append(s.ready, c)[i] = c
<1>1. s.ready \in Seq(Completions)
  BY IoFields
<1> QED
  BY <1>1, AppendKeeps

\* An operation that completes queues its handler.
LEMMA CompletionKeeps ==
    ASSUME NEW s \in IoTypes, NEW t, NEW c \in Completions, c.call # "dequeue",
           t.ready = Append(s.ready, c),
           \/ /\ s.reads # <<>> /\ c.req = Head(s.reads)
              /\ t.reads = Tail(s.reads) /\ t.writes = s.writes
           \/ /\ s.writes # <<>> /\ c.req = Head(s.writes)
              /\ t.writes = Tail(s.writes) /\ t.reads = s.reads
    PROVE  Keeps(s, t)
<1>1. /\ s.reads \in Seq(Requests) /\ s.writes \in Seq(Requests)
      /\ s.ready \in Seq(Completions)
  BY IoFields
<1>2. /\ DOMAIN s.ready \subseteq DOMAIN t.ready
      /\ \A i \in DOMAIN s.ready : t.ready[i] = s.ready[i]
      /\ \E i \in DOMAIN t.ready : t.ready[i] = c
  <2>1. /\ DOMAIN s.ready \subseteq DOMAIN Append(s.ready, c)
        /\ \A i \in DOMAIN s.ready : Append(s.ready, c)[i] = s.ready[i]
        /\ \E i \in DOMAIN Append(s.ready, c) : Append(s.ready, c)[i] = c
    BY ReadyKeeps
  <2> QED
    BY <2>1
<1>3. Outstanding(t, c.req)
  BY <1>2 DEF Outstanding
<1>4. ASSUME NEW i \in DOMAIN s.reads
      PROVE  s.reads[i] = c.req \/ \E k \in DOMAIN t.reads : t.reads[k] = s.reads[i]
  <2>1. s.reads # <<>> =>
            s.reads[i] = Head(s.reads)
            \/ \E k \in DOMAIN Tail(s.reads) : Tail(s.reads)[k] = s.reads[i]
    BY <1>1, TailKeeps
  <2> QED
    BY <2>1
<1>5. ASSUME NEW i \in DOMAIN s.writes
      PROVE  s.writes[i] = c.req \/ \E k \in DOMAIN t.writes : t.writes[k] = s.writes[i]
  <2>1. s.writes # <<>> =>
            s.writes[i] = Head(s.writes)
            \/ \E k \in DOMAIN Tail(s.writes) : Tail(s.writes)[k] = s.writes[i]
    BY <1>1, TailKeeps
  <2> QED
    BY <2>1
<1> QED
  BY <1>2, <1>3, <1>4, <1>5 DEF Keeps, Outstanding

LEMMA EnvironmentKeeps ==
    ASSUME io \in IoTypes,
           \/ WriteCompletes \/ WriteGoesNowhere \/ ReadCompletes
           \/ ReadFails \/ NodeReplies \/ PeerResets
    PROVE  Keeps(io, io')
<1>1. CASE WriteCompletes
  <2>1. PICK c : c = Completion("on_write", Head(io.writes), "success", NoSegment)
    OBVIOUS
  <2>2. c \in Completions /\ c.call = "on_write" /\ c.req = Head(io.writes)
    <3>1. Head(io.writes) \in Requests
      BY <1>1, IoFields DEF WriteCompletes
    <3> QED
      BY <2>1, <3>1, CompletionType DEF Errors, Completion
  <2>3. /\ io'.writes = Tail(io.writes) /\ io'.reads = io.reads
        /\ io'.ready = Append(io.ready, c)
    BY <1>1, <2>1 DEF WriteCompletes, Transmitted, IoTypes
  <2> QED
    BY <1>1, <2>2, <2>3, CompletionKeeps DEF WriteCompletes
<1>2. CASE WriteGoesNowhere
  <2>1. PICK error \in {"success", "failed"} :
            io' = Queued([io EXCEPT !.writes = Tail(@)],
                         Completion("on_write", Head(io.writes), error, NoSegment))
    BY <1>2 DEF WriteGoesNowhere
  <2>2. PICK c : c = Completion("on_write", Head(io.writes), error, NoSegment)
    OBVIOUS
  <2>3. c \in Completions /\ c.call = "on_write" /\ c.req = Head(io.writes)
    <3>1. Head(io.writes) \in Requests
      BY <1>2, IoFields DEF WriteGoesNowhere
    <3> QED
      BY <2>2, <3>1, CompletionType DEF Errors, Completion
  <2>4. /\ io'.writes = Tail(io.writes) /\ io'.reads = io.reads
        /\ io'.ready = Append(io.ready, c)
    BY <2>1, <2>2 DEF Queued, IoTypes
  <2> QED
    BY <1>2, <2>3, <2>4, CompletionKeeps DEF WriteGoesNowhere
<1>3. CASE ReadCompletes
  <2>1. PICK c : c = Completion("on_read", Head(io.reads), "success", Head(io.inbox))
    OBVIOUS
  <2>2. c \in Completions /\ c.call = "on_read" /\ c.req = Head(io.reads)
    <3>1. Head(io.reads) \in Requests /\ Head(io.inbox) \in Segments
      BY <1>3, IoFields DEF ReadCompletes
    <3> QED
      BY <2>1, <3>1, CompletionType DEF Errors, Completion
  <2>3. /\ io'.reads = Tail(io.reads) /\ io'.writes = io.writes
        /\ io'.ready = Append(io.ready, c)
    BY <1>3, <2>1 DEF ReadCompletes, Queued, IoTypes
  <2> QED
    BY <1>3, <2>2, <2>3, CompletionKeeps DEF ReadCompletes
<1>4. CASE ReadFails
  <2>1. PICK c : c = Completion("on_read", Head(io.reads), "failed", NoSegment)
    OBVIOUS
  <2>2. c \in Completions /\ c.call = "on_read" /\ c.req = Head(io.reads)
    <3>1. Head(io.reads) \in Requests
      BY <1>4, IoFields DEF ReadFails
    <3> QED
      BY <2>1, <3>1, CompletionType DEF Errors, Completion
  <2>3. /\ io'.reads = Tail(io.reads) /\ io'.writes = io.writes
        /\ io'.ready = Append(io.ready, c)
    BY <1>4, <2>1 DEF ReadFails, Queued, IoTypes
  <2> QED
    BY <1>4, <2>2, <2>3, CompletionKeeps DEF ReadFails
<1>5. CASE NodeReplies \/ PeerResets
  <2>1. io'.reads = io.reads /\ io'.writes = io.writes /\ io'.ready = io.ready
    BY <1>5 DEF NodeReplies, PeerResets, IoTypes
  <2> QED
    BY <2>1 DEF Keeps, Outstanding
<1> QED
  BY <1>1, <1>2, <1>3, <1>4, <1>5

-----------------------------------------------------------------------------
(***************************************************************************)
(* The active request is attended to.                                      *)
(***************************************************************************)
Failing(t, r) == frame[t].req = r /\ frame[t].how = "failed"

\* A handler that was told of a failure has heard of it.
FailuresHeard ==
    \A t \in Threads :
        frame[t].at = "handler" =>
            \E i \in DOMAIN heard[frame[t].req] :
                heard[frame[t].req][i].how = frame[t].how

\* What a step leaves of what requests heard, or are about to hear.
HeardStays ==
    \A r \in Requests : \A h : Told(r, {h}) => Told(r, {h})'

FailingStays ==
    \A t \in Threads, r \in Requests :
        Failing(t, r) => Failing(t, r)' \/ Told(r, {"failed"})'

\* The steps of a thread that is not in a handler: it starts to call one, or
\* exercises an option.
LEMMA FrameBecomes ==
    ASSUME TypeOK, FailuresHeard, NEW t, NEW f, frame' = [frame EXCEPT ![t] = f],
           f.at # "handler", UNCHANGED heard,
           t \in Threads => frame[t].how # "failed" \/ frame[t].at = "handler"
    PROVE  FailuresHeard' /\ HeardStays /\ FailingStays
<1>1. HeardStays
  BY DEF HeardStays, Told
<1>2. ASSUME NEW u \in Threads
      PROVE  frame'[u] = IF u = t THEN f ELSE frame[u]
  BY DEF TypeOK
<1>3. FailuresHeard'
  BY <1>2 DEF FailuresHeard
<1>4. ASSUME NEW u \in Threads, NEW r \in Requests, Failing(u, r)
      PROVE  Failing(u, r)' \/ Told(r, {"failed"})'
  <2>1. CASE u # t
    BY <1>2, <1>4, <2>1 DEF Failing
  <2>2. CASE u = t
    BY <1>4, <2>2 DEF Failing, FailuresHeard, Told
  <2> QED
    BY <2>1, <2>2
<1> QED
  BY <1>1, <1>3, <1>4 DEF FailingStays
LEMMA FramesUnchanged ==
    ASSUME FailuresHeard, UNCHANGED <<frame, heard>>
    PROVE  FailuresHeard' /\ HeardStays /\ FailingStays
BY DEF FailuresHeard, HeardStays, FailingStays, Failing, Told

LEMMA EnterHandlerHears ==
    ASSUME TypeOK, FailuresHeard, NEW t \in Threads, EnterHandler(t)
    PROVE  FailuresHeard' /\ HeardStays /\ FailingStays
<1>1. PICK q, news, f : EntersAs(t, q, news, f)
  BY EnterHandlerAs DEF TypeOK
<1>2. q \in Requests /\ news \in News
  BY <1>1 DEF EntersAs
<1>3. ASSUME NEW r \in Requests
      PROVE  heard'[r] = IF r = q THEN Append(heard[r], news) ELSE heard[r]
  BY <1>1 DEF TypeOK, EntersAs
<1>4. ASSUME NEW u \in Threads
      PROVE  /\ frame'[u].req = frame[u].req
             /\ frame[u].how = "failed" => frame'[u].how = "failed"
             /\ u # t => frame'[u] = frame[u]
             /\ u = t => frame'[u].req = q /\ frame'[u].how = news.how
  BY <1>1 DEF TypeOK, EntersAs
<1>5. ASSUME NEW r \in Requests
      PROVE  /\ DOMAIN heard[r] \subseteq DOMAIN heard'[r]
             /\ \A i \in DOMAIN heard[r] : heard'[r][i] = heard[r][i]
             /\ r = q => \E i \in DOMAIN heard'[r] : heard'[r][i] = news
  <2>1. heard[r] \in Seq(News)
    BY DEF TypeOK
  <2>2. /\ DOMAIN heard[r] \subseteq DOMAIN Append(heard[r], news)
        /\ \A i \in DOMAIN heard[r] : Append(heard[r], news)[i] = heard[r][i]
        /\ \E i \in DOMAIN Append(heard[r], news) : Append(heard[r], news)[i] = news
    BY <1>2, <2>1, AppendKeeps
  <2> QED
    BY <1>3, <2>2
<1>6. HeardStays
  BY <1>5 DEF HeardStays, Told
<1>7. FailingStays
  BY <1>4 DEF FailingStays, Failing
<1>8. ASSUME NEW u \in Threads, frame'[u].at = "handler"
      PROVE  \E i \in DOMAIN heard'[frame'[u].req] :
                heard'[frame'[u].req][i].how = frame'[u].how
  <2>1. CASE u = t
    BY <1>1, <1>2, <1>4, <1>5, <2>1
  <2>2. CASE u # t
    <3>1. frame[u].at = "handler" /\ frame'[u] = frame[u]
      BY <1>4, <1>8, <2>2
    <3>2. frame[u].req \in Requests
      <4>1. frame[u] \in Frames
        BY DEF TypeOK
      <4> QED
        BY <3>1, <4>1, HandlerFrame
    <3>3. PICK i \in DOMAIN heard[frame[u].req] : heard[frame[u].req][i].how = frame[u].how
      BY <3>1 DEF FailuresHeard
    <3> QED
      BY <1>5, <3>1, <3>2, <3>3
  <2> QED
    BY <2>1, <2>2
<1> QED
  BY <1>6, <1>7, <1>8 DEF FailuresHeard

LEMMA FramesStep ==
    ASSUME TypeOK, FailuresHeard, [Next]_vars
    PROVE  FailuresHeard' /\ HeardStays /\ FailingStays
<1>1. CASE UNCHANGED <<frame, heard>>
  BY <1>1, FramesUnchanged
<1>2. ASSUME NEW w \in Workers, NEW r, NEW news, AtRest(w), UNCHANGED heard,
             frame' = [frame EXCEPT ![w] = Calling(r, news)]
      PROVE  FailuresHeard' /\ HeardStays /\ FailingStays
  <2>1. Calling(r, news).at # "handler" /\ frame[w].how # "failed"
    BY <1>2 DEF Calling, AtRest, Idle
  <2> QED
    BY <1>2, <2>1, FrameBecomes
<1>3. ASSUME NEW w \in Workers, RunsHandler(w)
      PROVE  FailuresHeard' /\ HeardStays /\ FailingStays
  <2>1. ASSUME NEW i \in DOMAIN io.ready, OnWrite(w, i)
        PROVE  FailuresHeard' /\ HeardStays /\ FailingStays
    <3>1. \/ UNCHANGED frame
          \/ frame' = [frame EXCEPT ![w] = Calling(io.ready[i].req, NewsOf(io.ready[i]))]
      BY <2>1 DEF OnWrite, Superseded, HandleSocketError
    <3> QED
      BY <1>1, <1>2, <2>1, <3>1 DEF OnWrite, CanRun
  <2>2. ASSUME NEW i \in DOMAIN io.ready, OnRead(w, i)
        PROVE  FailuresHeard' /\ HeardStays /\ FailingStays
    <3>1. \/ UNCHANGED frame
          \/ frame' = [frame EXCEPT ![w] = Calling(io.ready[i].req, NewsOf(io.ready[i]))]
      BY <2>2 DEF OnRead, Superseded, HandleSocketError
    <3> QED
      BY <1>1, <1>2, <2>2, <3>1 DEF OnRead, CanRun
  <2>3. ASSUME NEW i \in DOMAIN io.ready, DequeueThreadSafely(w, i)
        PROVE  FailuresHeard' /\ HeardStays /\ FailingStays
    BY <1>1, <2>3 DEF DequeueThreadSafely
  <2>4. CASE RunsOnFreedPool(w)
    BY <1>1, <2>4 DEF RunsOnFreedPool
  <2> QED
    BY <1>3, <2>1, <2>2, <2>3, <2>4 DEF RunsHandler
<1>4. ASSUME NEW t \in Threads, UserStep(t)
      PROVE  FailuresHeard' /\ HeardStays /\ FailingStays
  <2> DEFINE f == frame[t]
  <2>0. f \in Frames
    BY DEF TypeOK
  <2>1. CASE EnterHandler(t)
    BY <2>1, EnterHandlerHears
  <2>2. CASE HandlerReturns(t)
    <3>1. Idle.at # "handler" /\ frame[t].at = "handler"
      BY <2>2 DEF Idle, HandlerReturns
    <3> QED
      BY <2>2, <3>1, FrameBecomes DEF HandlerReturns
  <2>3. CASE HandlerTerminates(t)
    <3>1. PICK g : /\ g = Exercising(f.req, IF f.how = "complete" THEN "clean" ELSE "dirty")
                   /\ frame' = [frame EXCEPT ![t] = g]
      BY <2>3 DEF HandlerTerminates, TypeOK
    <3>2. g.at # "handler" /\ frame[t].at = "handler"
      BY <2>3, <3>1 DEF Exercising, HandlerTerminates
    <3> QED
      BY <2>3, <3>1, <3>2, FrameBecomes DEF HandlerTerminates
  <2>4. ASSUME f.at \in {"check", "advance", "cancel"}
        PROVE  f.how # "failed" /\ [f EXCEPT !.at = "advance"].at # "handler"
               /\ [f EXCEPT !.at = "cancel"].at # "handler"
    BY <2>0, <2>4 DEF Frames, Idle
  <2>5. CASE ExerciseActive(t)
    <3>1. PICK at \in {"advance", "cancel"} : frame' = [frame EXCEPT ![t] = [f EXCEPT !.at = at]]
      BY <2>5 DEF ExerciseActive
    <3> QED
      BY <2>4, <2>5, <3>1, FrameBecomes DEF ExerciseActive, ReadsPool
  <2>6. CASE ExerciseQueued(t) \/ (ExerciseCancels(t) /\ io.open)
    <3>1. Idle.at # "handler" /\ f.how # "failed"
      BY <2>4, <2>6 DEF Idle, ExerciseQueued, ExerciseCancels, ReadsPool
    <3> QED
      BY <2>6, <3>1, FrameBecomes DEF ExerciseQueued, ExerciseCancels
  <2>7. CASE ExerciseAdvances(t)
    <3>1. frame' = [frame EXCEPT ![t] = [f EXCEPT !.at = "cancel"]]
      BY <2>7 DEF ExerciseAdvances
    <3> QED
      BY <2>4, <2>7, <3>1, FrameBecomes DEF ExerciseAdvances
  <2>8. CASE ExerciseFaults(t) \/ (ExerciseCancels(t) /\ ~io.open)
    BY <1>1, <2>8 DEF ExerciseFaults, ExerciseCancels
  <2> QED
    BY <1>4, <2>1, <2>2, <2>3, <2>5, <2>6, <2>7, <2>8 DEF UserStep
<1>5. ASSUME NEW t \in Threads, NEW r \in Requests, Abandon(t, r)
      PROVE  FailuresHeard' /\ HeardStays /\ FailingStays
  <2>1. PICK how \in {"drop", "dirty"} : frame' = [frame EXCEPT ![t] = Exercising(r, how)]
    BY <1>5 DEF Abandon
  <2>2. Exercising(r, how).at # "handler" /\ frame[t].how # "failed"
    BY <1>5 DEF Exercising, Abandon, AtRest, Idle
  <2> QED
    BY <1>5, <2>1, <2>2, FrameBecomes DEF Abandon
<1>6. CASE TellPending
  <2>1. PICK f : f = Calling(Head(untold), Reset)
    OBVIOUS
  <2>2. f.at # "handler" /\ frame[Destroyer].how # "failed"
    BY <1>6, <2>1 DEF Calling, TellPending, Idle
  <2> QED
    BY <1>6, <2>1, <2>2, FrameBecomes DEF TellPending
<1>7. CASE \/ Outside(WriteCompletes) \/ Outside(WriteGoesNowhere)
           \/ Outside(ReadCompletes) \/ Outside(ReadFails)
           \/ Outside(NodeReplies) \/ Outside(PeerResets)
  BY <1>1, <1>7 DEF Outside, Rest
<1>8. ASSUME NEW t \in Threads, NEW r \in Requests, Deliver(t, r)
      PROVE  FailuresHeard' /\ HeardStays /\ FailingStays
  BY <1>1, <1>8 DEF Deliver
<1>9. CASE Destroy \/ AwaitDequeued \/ Drained \/ WakesSpuriously
  BY <1>1, <1>9 DEF Destroy, AwaitDequeued, Drained, WakesSpuriously
<1>10. CASE UNCHANGED vars
  BY <1>1, <1>10 DEF vars
<1> QED
  BY <1>3, <1>4, <1>5, <1>6, <1>7, <1>8, <1>9, <1>10 DEF Next, Application, DestructorStep
-----------------------------------------------------------------------------
(***************************************************************************)
(* A step leaves the active request its operations, or takes the active    *)
(* request away, or gives another one an operation, or is going to tell    *)
(* the active one that its connection failed.                              *)
(***************************************************************************)
Attends ==
    \/ active' = None
    \/ Outstanding(io, active)'
    \/ active' = active /\ (Outstanding(io, active) => Outstanding(io, active)')
    \/ active' = active /\ \E t \in Threads : Failing(t, active)'

LEMMA RunNextRequestAttends ==
    ASSUME NEW s \in IoTypes, NEW q \in Seq(Requests), RunNextRequest(q, s)
    PROVE  Attends
<1>1. CASE q = <<>>
  BY <1>1 DEF RunNextRequest, Attends
<1>2. CASE q # <<>>
  <2>1. Head(q) \in Requests
    BY <1>2
  <2>2. Outstanding(AsyncWrite(s, Head(q)), Head(q))
    BY <2>1, AsyncWriteKeeps
  <2>3. active' = Head(q) /\ io' = AsyncWrite(s, Head(q))
    BY <1>2 DEF RunNextRequest
  <2> QED
    BY <2>2, <2>3 DEF Attends
<1> QED
  BY <1>1, <1>2

LEMMA KeepsAttends ==
    ASSUME UNCHANGED active, Keeps(io, io')
    PROVE  Attends
BY DEF Attends, Keeps

LEMMA SocketErrorAttends ==
    ASSUME TypeOK, NEW w \in Workers, NEW c \in Completions, NEW s \in IoTypes,
           c.req = active, HandleSocketError(w, c, s)
    PROVE  Attends
<1>1. CASE Reconnects(s)
  <2>1. Connected(Closed(s)) \in IoTypes
    BY ClosedType
  <2> QED
    BY <1>1, <2>1, RunNextRequestAttends DEF Reconnects, Attends, TypeOK
<1>2. CASE ReconnectThrows(s)
  BY <1>2 DEF ReconnectThrows, Attends
<1>3. CASE /\ c.error = "failed"
           /\ frame' = [frame EXCEPT ![w] = Calling(c.req, NewsOf(c))]
           /\ UNCHANGED active
  <2>1. frame'[w] = Calling(c.req, NewsOf(c)) /\ w \in Threads
    BY <1>3 DEF TypeOK, Threads
  <2>2. frame'[w].req = active /\ frame'[w].how = "failed"
    BY <1>3, <2>1 DEF Calling, NewsOf
  <2> QED
    BY <1>3, <2>1, <2>2 DEF Attends, Failing
<1> QED
  BY <1>1, <1>2, <1>3 DEF HandleSocketError

LEMMA HandlersAttend ==
    ASSUME TypeOK, NEW w \in Workers, RunsHandler(w)
    PROVE  Attends
<1>1. ASSUME NEW i \in DOMAIN io.ready
      PROVE  /\ io.ready[i] \in Completions
             /\ Taken(io, i) \in IoTypes
             /\ io.ready[i].req \in Requests
             /\ \/ io.ready[i].req # active
                \/ io.ready[i].call = "dequeue"
                => (Outstanding(io, active) => Outstanding(Taken(io, i), active))
  BY TakenType, TakenKeeps DEF TypeOK, Completions
<1>2. ASSUME NEW i \in DOMAIN io.ready, Superseded(i)
      PROVE  Attends
  BY <1>1, <1>2 DEF Superseded, Attends
<1>3. ASSUME NEW i \in DOMAIN io.ready, io.ready[i].req = active, UNCHANGED active,
             io' = AsyncRead(Taken(io, i), io.ready[i].req)
      PROVE  Attends
  BY <1>1, <1>3, AsyncReadKeeps DEF Attends
<1>4. ASSUME NEW i \in DOMAIN io.ready, OnWrite(w, i) \/ OnRead(w, i)
      PROVE  Attends
  BY <1>1, <1>2, <1>3, <1>4, SocketErrorAttends DEF OnWrite, OnRead
<1>5. ASSUME NEW i \in DOMAIN io.ready, DequeueThreadSafely(w, i)
      PROVE  Attends
  BY <1>1, <1>5 DEF DequeueThreadSafely, Attends
<1>6. CASE RunsOnFreedPool(w)
  BY <1>6 DEF RunsOnFreedPool, Attends
<1> QED
  BY <1>4, <1>5, <1>6 DEF RunsHandler

LEMMA UserStepAttends ==
    ASSUME TypeOK, NEW t \in Threads, UserStep(t)
    PROVE  Attends
<1>1. CASE UNCHANGED <<io, active>>
  BY <1>1 DEF Attends
<1>2. CASE ExerciseQueued(t)
  <2>1. PICK c : c = Completion("dequeue", frame[t].req, "success", NoSegment)
    OBVIOUS
  <2>2. c \in Completions
    <3>1. frame[t] \in Frames /\ frame[t].at = "check"
      BY <1>2 DEF TypeOK, ExerciseQueued, ReadsPool
    <3>2. frame[t].req \in Requests
      BY <3>1, ExerciseFrame
    <3> QED
      BY <2>1, <3>2, CompletionType DEF Errors
  <2>3. io' = Queued(io, c) /\ UNCHANGED active
    BY <1>2, <2>1 DEF ExerciseQueued
  <2> QED
    BY <2>2, <2>3, QueuedKeeps, KeepsAttends DEF TypeOK
<1>3. CASE ExerciseAdvances(t)
  BY <1>1, <1>3, RunNextRequestAttends DEF ExerciseAdvances, TypeOK
<1>4. CASE ExerciseCancels(t)
  BY <1>1, <1>4, CancelledKeeps, KeepsAttends DEF ExerciseCancels, TypeOK
<1>5. CASE \/ EnterHandler(t) \/ HandlerReturns(t) \/ HandlerTerminates(t)
           \/ ExerciseActive(t) \/ ExerciseFaults(t)
  BY <1>1, <1>5 DEF EnterHandler, HandlerReturns, HandlerTerminates, ExerciseActive,
                    ExerciseFaults
<1> QED
  BY <1>2, <1>3, <1>4, <1>5 DEF UserStep

LEMMA DestructionAttends ==
    ASSUME TypeOK, DestructorStep \/ WakesSpuriously
    PROVE  Attends
<1>1. CASE UNCHANGED <<io, active>>
  BY <1>1 DEF Attends
<1>2. CASE active = None /\ UNCHANGED active
  BY <1>2 DEF Attends
<1>3. CASE UNCHANGED active /\ io' = Cancelled(io)
  BY <1>3, CancelledKeeps, KeepsAttends DEF TypeOK
<1> QED
  BY <1>1, <1>2, <1>3 DEF DestructorStep, TellPending, AwaitDequeued, Drained,
                          WakesSpuriously, CloseForGood

LEMMA StepAttends ==
    ASSUME TypeOK, [Next]_vars
    PROVE  Attends
<1>1. CASE UNCHANGED <<io, active>>
  BY <1>1 DEF Attends
<1>2. CASE \/ Outside(WriteCompletes) \/ Outside(WriteGoesNowhere)
           \/ Outside(ReadCompletes) \/ Outside(ReadFails)
           \/ Outside(NodeReplies) \/ Outside(PeerResets)
  <2>1. Keeps(io, io')
    BY <1>2, EnvironmentKeeps DEF Outside, TypeOK
  <2> QED
    BY <1>2, <2>1, KeepsAttends DEF Outside, Rest
<1>3. ASSUME NEW t \in Threads, NEW r \in Requests, Deliver(t, r)
      PROVE  Attends
  <2>1. Append(pending, r) \in Seq(Requests)
    BY DEF TypeOK
  <2> QED
    BY <1>1, <1>3, <2>1, RunNextRequestAttends DEF Deliver, Admit, TypeOK
<1>4. ASSUME NEW t \in Threads, NEW r \in Requests, Abandon(t, r)
      PROVE  Attends
  BY <1>1, <1>4 DEF Abandon
<1>5. CASE Destroy \/ UNCHANGED vars
  BY <1>1, <1>5 DEF Destroy, vars
<1> QED
  BY <1>2, <1>3, <1>4, <1>5, HandlersAttend, UserStepAttends, DestructionAttends
     DEF Next, Application

(***************************************************************************)
(* The active request has an operation under way, has been told that its   *)
(* connection failed, or is about to be (run_next_request, on_write,       *)
(* on_read, handle_socket_error): the scheduler does not lose track of it. *)
(***************************************************************************)
AttendedInv == FailuresHeard /\ ActiveIsAttended

LEMMA AttendedStep ==
    ASSUME TypeOK, AttendedInv, Attends, HeardStays, FailingStays
    PROVE  ActiveIsAttended'
<1> SUFFICES ASSUME active' # None
             PROVE  \/ Outstanding(io, active)'
                    \/ Told(active, {"failed"})'
                    \/ \E t \in Threads : Failing(t, active)'
  BY DEF ActiveIsAttended, UnderWay, Outstanding, Failing
<1>1. CASE active' = active
  <2>1. \/ Outstanding(io, active)
        \/ Told(active, {"failed"})
        \/ \E t \in Threads : Failing(t, active)
    BY <1>1 DEF AttendedInv, ActiveIsAttended, UnderWay, Outstanding, Failing
  <2>2. active \in Requests
    BY <1>1 DEF TypeOK
  <2>3. Told(active, {"failed"}) => Told(active, {"failed"})'
    BY <1>1, <2>2 DEF HeardStays, Told
  <2>4. ASSUME NEW t \in Threads, Failing(t, active)
        PROVE  Failing(t, active)' \/ Told(active, {"failed"})'
    BY <1>1, <2>2, <2>4 DEF FailingStays, Failing, Told
  <2> QED
    BY <1>1, <2>1, <2>3, <2>4 DEF Attends
<1>2. CASE active' # active
  BY <1>2 DEF Attends
<1> QED
  BY <1>1, <1>2

THEOREM ActiveAttendedAlways == Spec => []ActiveIsAttended
<1>1. Init => AttendedInv
  BY DEF Init, AttendedInv, FailuresHeard, ActiveIsAttended, Idle
<1>2. TypeOK /\ AttendedInv /\ [Next]_vars => AttendedInv'
  <2> SUFFICES ASSUME TypeOK, AttendedInv, [Next]_vars
               PROVE  AttendedInv'
    OBVIOUS
  <2>1. FailuresHeard' /\ HeardStays /\ FailingStays
    BY FramesStep DEF AttendedInv
  <2> QED
    BY <2>1, StepAttends, AttendedStep DEF AttendedInv
<1>3. AttendedInv => ActiveIsAttended
  BY DEF AttendedInv
<1> QED
  BY <1>1, <1>2, <1>3, TypeCorrect, PTL DEF Spec
-----------------------------------------------------------------------------
(***************************************************************************)
(* ~scheduler tells every pending request that it is destroyed before it   *)
(* waits.  Until then each of them is still on its list, or is the one it  *)
(* is calling, or has been told; and the queue only loses requests.        *)
(***************************************************************************)
Listed(r) == \E i \in DOMAIN untold : untold[i] = r

ToldOrListed(r) ==
    \/ Told(r, {"reset"})
    \/ Listed(r)
    \/ /\ frame[Destroyer].at = "calling"
       /\ frame[Destroyer].req = r
       /\ frame[Destroyer].how = "reset"

DestructionInv ==
    /\ dtor # "alive" => shutting_down /\ Destroyer \in Threads
    /\ dtor = "telling" => \A r \in Requests : Waiting(r) => ToldOrListed(r)
    /\ dtor \in {"draining", "waiting", "gone"} =>
          \A r \in Requests : Waiting(r) => Told(r, {"reset"})

NoneArrives == \A r \in Requests : Waiting(r)' => Waiting(r)

\* Of a queue that is being taken from, nothing new is waiting.
LEMMA RemovedWasWaiting ==
    ASSUME NEW i \in DOMAIN pending, pending \in Seq(Requests),
           pending' = RemoveAt(pending, i)
    PROVE  NoneArrives
<1>1. pending \in Seq(Requests) /\ i \in 1..Len(pending) /\ Len(pending) \in Nat
      /\ DOMAIN pending = 1..Len(pending)
  BY LenProperties
<1>2. /\ pending' \in Seq(Requests) /\ Len(pending') = Len(pending) - 1
      /\ \A j \in 1..(Len(pending) - 1) :
            pending'[j] = IF j < i THEN pending[j] ELSE pending[j + 1]
  BY <1>1, RemoveAtProperties
<1>3. ASSUME NEW j \in DOMAIN pending'
      PROVE  \E k \in DOMAIN pending : pending[k] = pending'[j]
  <2>1. j \in 1..(Len(pending) - 1)
    BY <1>2, LenProperties
  <2>2. j \in DOMAIN pending /\ j + 1 \in DOMAIN pending
    BY <1>1, <2>1
  <2> QED
    BY <1>2, <2>1, <2>2
<1> QED
  BY <1>3 DEF NoneArrives, Waiting

\* Once the transport is being destroyed, nobody enters the queue.
LEMMA ShutdownQueue ==
    ASSUME TypeOK, shutting_down, [Next]_vars
    PROVE  NoneArrives /\ shutting_down'
<1>1. CASE UNCHANGED <<pending, shutting_down>>
  BY <1>1 DEF NoneArrives, Waiting
<1>2. ASSUME NEW w \in Workers, RunsHandler(w)
      PROVE  NoneArrives /\ shutting_down'
  <2>1. ASSUME NEW i \in DOMAIN io.ready, OnWrite(w, i) \/ OnRead(w, i)
        PROVE  NoneArrives /\ shutting_down'
    BY <1>1, <2>1 DEF OnWrite, OnRead, Superseded, HandleSocketError, Reconnects, ReconnectThrows
  <2>2. ASSUME NEW i \in DOMAIN io.ready, DequeueThreadSafely(w, i)
        PROVE  NoneArrives /\ shutting_down'
    <3>1. CASE UNCHANGED pending
      BY <1>1, <2>2, <3>1 DEF DequeueThreadSafely
    <3>2. ASSUME NEW j \in DOMAIN pending, pending' = RemoveAt(pending, j)
          PROVE  NoneArrives
      BY <3>2, RemovedWasWaiting DEF TypeOK
    <3> QED
      BY <2>2, <3>1, <3>2 DEF DequeueThreadSafely
  <2>3. CASE RunsOnFreedPool(w)
    BY <1>1, <2>3 DEF RunsOnFreedPool
  <2> QED
    BY <1>2, <2>1, <2>2, <2>3 DEF RunsHandler
<1>3. ASSUME NEW t \in Threads, UserStep(t)
      PROVE  NoneArrives /\ shutting_down'
  BY <1>1, <1>3 DEF UserStep, EnterHandler, HandlerReturns, HandlerTerminates,
                    ExerciseActive, ExerciseQueued, ExerciseFaults, ExerciseAdvances,
                    ExerciseCancels
<1>4. ASSUME NEW t \in Threads, NEW r \in Requests, Deliver(t, r) \/ Abandon(t, r)
      PROVE  NoneArrives /\ shutting_down'
  BY <1>1, <1>4 DEF Deliver, Abandon
<1>5. CASE Destroy
  BY <1>1, <1>5 DEF Destroy, NoneArrives, Waiting
<1>6. CASE DestructorStep \/ WakesSpuriously
  BY <1>1, <1>6 DEF DestructorStep, TellPending, AwaitDequeued, Drained, WakesSpuriously
<1>7. CASE \/ Outside(WriteCompletes) \/ Outside(WriteGoesNowhere)
           \/ Outside(ReadCompletes) \/ Outside(ReadFails)
           \/ Outside(NodeReplies) \/ Outside(PeerResets)
  BY <1>1, <1>7 DEF Outside, Rest
<1>8. CASE UNCHANGED vars
  BY <1>1, <1>8 DEF vars
<1> QED
  BY <1>2, <1>3, <1>4, <1>5, <1>6, <1>7, <1>8 DEF Next, Application

\* The list loses its head, and the head only.
LEMMA ListedTail ==
    ASSUME NEW r \in Requests, untold \in Seq(Requests), untold # <<>>, Listed(r),
           untold' = Tail(untold)
    PROVE  r = Head(untold) \/ Listed(r)'
BY TailKeeps DEF Listed

\* A thread that calls a handler only goes on by entering it.
LEMMA CallingStep ==
    ASSUME TypeOK, NEW t \in Threads, frame[t].at = "calling", [Next]_vars, ~EnterHandler(t)
    PROVE  frame'[t] = frame[t]
<1> USE DEF TypeOK
<1>0. Idle.at = "idle"
  BY DEF Idle
<1>1. CASE UNCHANGED frame
  BY <1>1
<1>2. ASSUME NEW w \in Workers, RunsHandler(w)
      PROVE  frame'[t] = frame[t]
  <2>1. ASSUME NEW i \in DOMAIN io.ready, OnWrite(w, i) \/ OnRead(w, i)
        PROVE  frame'[t] = frame[t]
    <3>1. w # t
      BY <1>0, <2>1 DEF OnWrite, OnRead, CanRun, AtRest
    <3>2. \/ UNCHANGED frame
          \/ frame' = [frame EXCEPT ![w] = Calling(io.ready[i].req, NewsOf(io.ready[i]))]
      BY <2>1 DEF OnWrite, OnRead, Superseded, HandleSocketError
    <3> QED
      BY <3>1, <3>2
  <2> QED
    BY <1>2, <2>1 DEF RunsHandler, DequeueThreadSafely, RunsOnFreedPool
<1>3. ASSUME NEW u \in Threads, UserStep(u)
      PROVE  frame'[t] = frame[t]
  <2>1. CASE u = t
    BY <1>1, <1>3, <2>1 DEF UserStep, HandlerReturns, HandlerTerminates, ExerciseActive,
                            ExerciseQueued, ExerciseFaults, ExerciseAdvances,
                            ExerciseCancels, ReadsPool
  <2>2. CASE u # t
    BY <1>1, <1>3, <2>2 DEF UserStep, EnterHandler, HandlerReturns, HandlerTerminates,
                            ExerciseActive, ExerciseQueued, ExerciseFaults,
                            ExerciseAdvances, ExerciseCancels
  <2> QED
    BY <2>1, <2>2
<1>4. ASSUME NEW u \in Threads, NEW r \in Requests, Deliver(u, r) \/ Abandon(u, r)
      PROVE  frame'[t] = frame[t]
  <2>1. CASE Abandon(u, r)
    <3>1. u # t
      BY <1>0, <2>1 DEF Abandon, AtRest
    <3> QED
      BY <2>1, <3>1 DEF Abandon
  <2> QED
    BY <1>1, <1>4, <2>1 DEF Deliver
<1>5. CASE TellPending
  <2>1. Destroyer # t
    BY <1>0, <1>5 DEF TellPending
  <2> QED
    BY <1>5, <2>1 DEF TellPending
<1>6. CASE Destroy \/ AwaitDequeued \/ Drained \/ WakesSpuriously \/ UNCHANGED vars
  BY <1>6 DEF Destroy, AwaitDequeued, Drained, WakesSpuriously, vars
<1>7. CASE \/ Outside(WriteCompletes) \/ Outside(WriteGoesNowhere)
           \/ Outside(ReadCompletes) \/ Outside(ReadFails)
           \/ Outside(NodeReplies) \/ Outside(PeerResets)
  BY <1>7 DEF Outside, Rest
<1> QED
  BY <1>2, <1>3, <1>4, <1>5, <1>6, <1>7 DEF Next, Application, DestructorStep
LEMMA DestructorMoves ==
    ASSUME [Next]_vars
    PROVE  \/ Destroy \/ TellPending \/ AwaitDequeued
           \/ UNCHANGED <<dtor, untold>>
           \/ dtor \in {"draining", "waiting"} /\ dtor' \in {"draining", "waiting", "gone"}
<1>1. CASE UNCHANGED <<dtor, untold>>
  BY <1>1
<1>2. ASSUME NEW w \in Workers, RunsHandler(w)
      PROVE  UNCHANGED <<dtor, untold>>
  BY <1>2 DEF RunsHandler, OnWrite, OnRead, DequeueThreadSafely, RunsOnFreedPool
<1>3. ASSUME NEW t \in Threads, UserStep(t)
      PROVE  UNCHANGED <<dtor, untold>>
  BY <1>3 DEF UserStep, EnterHandler, HandlerReturns, HandlerTerminates, ExerciseActive,
              ExerciseQueued, ExerciseFaults, ExerciseAdvances, ExerciseCancels
<1>4. ASSUME NEW t \in Threads, NEW r \in Requests, Deliver(t, r) \/ Abandon(t, r)
      PROVE  UNCHANGED <<dtor, untold>>
  BY <1>4 DEF Deliver, Abandon
<1>5. CASE Drained \/ WakesSpuriously
  BY <1>5 DEF Drained, WakesSpuriously, CloseForGood
<1>6. CASE \/ Outside(WriteCompletes) \/ Outside(WriteGoesNowhere)
           \/ Outside(ReadCompletes) \/ Outside(ReadFails)
           \/ Outside(NodeReplies) \/ Outside(PeerResets) \/ UNCHANGED vars
  BY <1>6 DEF Outside, Rest, vars
<1> QED
  BY <1>2, <1>3, <1>4, <1>5, <1>6 DEF Next, Application, DestructorStep

\* Whom ~scheduler has told, or has yet to tell, stays told or listed while it
\* calls handlers.
LEMMA StaysToldOrListed ==
    ASSUME TypeOK, FailuresHeard, FailuresHeard', HeardStays, [Next]_vars,
           Destroyer \in Threads, UNCHANGED untold, NEW r \in Requests, ToldOrListed(r)
    PROVE  ToldOrListed(r)'
<1>1. CASE Told(r, {"reset"})
  BY <1>1 DEF HeardStays, ToldOrListed
<1>2. CASE Listed(r)
  BY <1>2 DEF Listed, ToldOrListed
<1>3. CASE /\ frame[Destroyer].at = "calling"
           /\ frame[Destroyer].req = r
           /\ frame[Destroyer].how = "reset"
  <2>1. CASE EnterHandler(Destroyer)
    <3>1. PICK q, news, f : EntersAs(Destroyer, q, news, f)
      BY <2>1, EnterHandlerAs DEF TypeOK
    <3>2. frame'[Destroyer] = f
      BY <3>1 DEF EntersAs, TypeOK
    <3>3. /\ frame'[Destroyer].at = "handler" /\ frame'[Destroyer].req = r
          /\ frame'[Destroyer].how = "reset"
      BY <1>3, <3>1, <3>2 DEF EntersAs
    <3> QED
      BY <3>3 DEF FailuresHeard, Told, ToldOrListed
  <2>2. CASE ~EnterHandler(Destroyer)
    BY <1>3, <2>2, CallingStep DEF ToldOrListed
  <2> QED
    BY <2>1, <2>2
<1> QED
  BY <1>1, <1>2, <1>3 DEF ToldOrListed

LEMMA DestructionStep ==
    ASSUME TypeOK, FailuresHeard, FailuresHeard', HeardStays, DestructionInv, [Next]_vars
    PROVE  DestructionInv'
<1>1. CASE Destroy
  <2>1. dtor' = "telling" /\ shutting_down' /\ Destroyer \in Threads
    BY <1>1, SchedulerAssumption DEF Destroy, Threads
  <2>2. ASSUME NEW r \in Requests, Waiting(r)'
        PROVE  ToldOrListed(r)'
    BY <1>1, <2>2 DEF Destroy, Waiting, Listed, ToldOrListed
  <2> QED
    BY <2>1, <2>2 DEF DestructionInv
<1>2. CASE TellPending
  <2>1. /\ dtor = "telling" /\ dtor' = "telling" /\ shutting_down'
        /\ Destroyer \in Threads
    BY <1>2 DEF TellPending, DestructionInv
  <2>2. ASSUME NEW r \in Requests, Waiting(r)'
        PROVE  ToldOrListed(r)'
    <3>1. ToldOrListed(r)
      BY <1>2, <2>1, <2>2 DEF TellPending, Waiting, DestructionInv
    <3>2. CASE Told(r, {"reset"})
      BY <3>2 DEF HeardStays, ToldOrListed
    <3>3. CASE Listed(r)
      <4>1. r = Head(untold) \/ Listed(r)'
        BY <1>2, <3>3, ListedTail DEF TellPending, TypeOK
      <4>2. frame'[Destroyer] = Calling(Head(untold), Reset)
        BY <1>2, <2>1 DEF TellPending, TypeOK
      <4>3. /\ frame'[Destroyer].at = "calling" /\ frame'[Destroyer].how = "reset"
            /\ frame'[Destroyer].req = Head(untold)
        BY <4>2 DEF Calling, Reset
      <4> QED
        BY <4>1, <4>3 DEF ToldOrListed
    <3>4. frame[Destroyer].at # "calling"
      BY <1>2 DEF TellPending, Idle
    <3> QED
      BY <3>1, <3>2, <3>3, <3>4 DEF ToldOrListed
  <2> QED
    BY <2>1, <2>2 DEF DestructionInv
<1>3. CASE AwaitDequeued
  <2>1. /\ dtor = "telling" /\ dtor' = "draining" /\ shutting_down'
        /\ Destroyer \in Threads
    BY <1>3 DEF AwaitDequeued, DestructionInv
  <2>2. ASSUME NEW r \in Requests, Waiting(r)'
        PROVE  Told(r, {"reset"})'
    <3>1. ToldOrListed(r)
      BY <1>3, <2>1, <2>2 DEF AwaitDequeued, Waiting, DestructionInv
    <3>2. frame[Destroyer].at # "calling" /\ ~Listed(r)
      BY <1>3 DEF AwaitDequeued, Idle, Listed
    <3> QED
      BY <3>1, <3>2 DEF ToldOrListed, HeardStays
  <2> QED
    BY <2>1, <2>2 DEF DestructionInv
<1>4. ASSUME dtor # "alive"
      PROVE  NoneArrives /\ shutting_down' /\ Destroyer \in Threads
  BY <1>4, ShutdownQueue DEF DestructionInv
<1>5. CASE UNCHANGED <<dtor, untold>>
  <2>1. ASSUME dtor = "telling", NEW r \in Requests, Waiting(r)'
        PROVE  ToldOrListed(r)'
    <3>1. ToldOrListed(r)
      BY <1>4, <2>1 DEF NoneArrives, DestructionInv
    <3> QED
      BY <1>4, <1>5, <2>1, <3>1, StaysToldOrListed
  <2>2. ASSUME dtor \in {"draining", "waiting", "gone"}, NEW r \in Requests, Waiting(r)'
        PROVE  Told(r, {"reset"})'
    BY <1>4, <2>2 DEF NoneArrives, HeardStays, DestructionInv
  <2> QED
    BY <1>4, <1>5, <2>1, <2>2 DEF DestructionInv
<1>6. CASE dtor \in {"draining", "waiting"} /\ dtor' \in {"draining", "waiting", "gone"}
  <2>1. ASSUME NEW r \in Requests, Waiting(r)'
        PROVE  Told(r, {"reset"})'
    BY <1>4, <1>6, <2>1 DEF NoneArrives, HeardStays, DestructionInv
  <2> QED
    BY <1>4, <1>6, <2>1 DEF DestructionInv
<1> QED
  BY <1>1, <1>2, <1>3, <1>5, <1>6, DestructorMoves

(***************************************************************************)
(* When ~scheduler has told its list and waits, every request still in the *)
(* queue has been told of the reset (scheduler.cxx:46-51): none enters the *)
(* queue in between, and none is skipped.                                  *)
(***************************************************************************)
THEOREM PendingToldAlways == Spec => []PendingWereTold
<1> DEFINE I == FailuresHeard /\ DestructionInv
<1>1. Init => I
  BY DEF Init, FailuresHeard, DestructionInv, Idle
<1>2. TypeOK /\ I /\ [Next]_vars => I'
  <2> SUFFICES ASSUME TypeOK, I, [Next]_vars
               PROVE  I'
    OBVIOUS
  <2>1. FailuresHeard' /\ HeardStays
    BY FramesStep
  <2> QED
    BY <2>1, DestructionStep
<1>3. TypeOK /\ I => PendingWereTold
  <2> SUFFICES ASSUME TypeOK, I, dtor \in {"draining", "waiting", "gone"},
                      NEW i \in DOMAIN pending
               PROVE  Told(pending[i], {"reset"})
    BY DEF PendingWereTold
  <2>1. pending[i] \in Requests /\ Waiting(pending[i])
    BY DEF TypeOK, Waiting
  <2> QED
    BY <2>1 DEF DestructionInv
<1> QED
  BY <1>1, <1>2, <1>3, TypeCorrect, PTL DEF Spec

-----------------------------------------------------------------------------
(***************************************************************************)
(* What the calls of the transport and the network make of the socket: it  *)
(* stays open, and no operation fails before the peer has dropped the      *)
(* connection (Lives); and what they queue are operations (Works).         *)
(***************************************************************************)
Operation(c) == c.call # "dequeue"

Works(s, t) == \A c : Has(t.ready, c) => Has(s.ready, c) \/ Operation(c)

Lives(s, t) ==
    /\ t.resets = 0 => s.resets = 0
    /\ s.open =>
          /\ t.open
          /\ s.up /\ t.resets = 0 =>
                t.up /\ \A c : Has(t.ready, c) => Has(s.ready, c) \/ c.error # "failed"

Goes(s, t) == Works(s, t) /\ Lives(s, t)

LEMMA GoesElements ==
    ASSUME NEW s \in IoTypes, NEW t, NEW c \in Completions, Operation(c),
           s.open /\ s.up => c.error # "failed",
           t.open = s.open, t.up = s.up, t.resets = s.resets, t.ready \in {s.ready, Append(s.ready, c)}
    PROVE  Goes(s, t)
<1>1. s.ready \in Seq(Completions)
  BY IoFields
<1>2. \A d : Has(Append(s.ready, c), d) => Has(s.ready, d) \/ d = c
  BY <1>1, HasAppend
<1>3. \A d : Has(t.ready, d) => Has(s.ready, d) \/ d = c
  BY <1>2
<1> QED
  BY <1>3 DEF Goes, Lives, Works

LEMMA TakenGoes ==
    ASSUME NEW s \in IoTypes, NEW i \in DOMAIN s.ready
    PROVE  Goes(s, Taken(s, i))
<1>1. PICK t : t = Taken(s, i)
  OBVIOUS
<1>2. t.open = s.open /\ t.up = s.up /\ t.resets = s.resets /\ t.ready = RemoveAt(s.ready, i)
  BY <1>1 DEF Taken, IoTypes
<1>3. s.ready \in Seq(Completions)
  BY IoFields
<1>4. \A c : Has(t.ready, c) => Has(s.ready, c)
  BY <1>2, <1>3, HasRemoved
<1> QED
  BY <1>1, <1>2, <1>4 DEF Goes, Lives, Works

LEMMA AsyncReadGoes ==
    ASSUME NEW s \in IoTypes, NEW x \in Requests
    PROVE  Goes(s, AsyncRead(s, x))
<1>1. PICK t : t = [s EXCEPT !.reads = Append(@, x)]
  OBVIOUS
<1>2. t.open = s.open /\ t.up = s.up /\ t.resets = s.resets /\ t.ready = s.ready
  BY <1>1 DEF IoTypes
<1>3. Goes(s, t)
  BY <1>2 DEF Goes, Lives, Works
<1>4. PICK c, u : c = Completion("on_read", x, "failed", NoSegment) /\ u = Queued(s, c)
  OBVIOUS
<1>5. c \in Completions /\ Operation(c)
  BY <1>4, CompletionType DEF Errors, Completion, Operation
<1>6. u.open = s.open /\ u.up = s.up /\ u.resets = s.resets /\ u.ready = Append(s.ready, c)
  BY <1>4 DEF Queued, IoTypes
<1>7. ~s.open => Goes(s, u)
  BY <1>5, <1>6, GoesElements
<1> QED
  BY <1>1, <1>3, <1>4, <1>7 DEF AsyncRead

LEMMA TransmittedGoes ==
    ASSUME NEW s \in IoTypes, NEW x \in Requests
    PROVE  Goes(s, Transmitted(s, x))
<1>1. PICK c : c = Completion("on_write", x, "success", NoSegment)
  OBVIOUS
<1>2. c \in Completions /\ Operation(c) /\ c.error = "success"
  BY <1>1, CompletionType DEF Errors, Completion, Operation
<1>3. PICK t : t = Transmitted(s, x)
  OBVIOUS
<1>4. t.open = s.open /\ t.up = s.up /\ t.resets = s.resets /\ t.ready = Append(s.ready, c)
  BY <1>1, <1>3 DEF Transmitted, IoTypes
<1>5. Goes(s, t)
  BY <1>2, <1>4, GoesElements
<1> QED
  BY <1>3, <1>5

LEMMA AsyncWriteGoes ==
    ASSUME NEW s \in IoTypes, NEW x \in Requests
    PROVE  Goes(s, AsyncWrite(s, x))
<1>1. PICK t : t = [s EXCEPT !.writes = Append(@, x)]
  OBVIOUS
<1>2. t.open = s.open /\ t.up = s.up /\ t.resets = s.resets /\ t.ready = s.ready
  BY <1>1 DEF IoTypes
<1>3. Goes(s, t)
  BY <1>2 DEF Goes, Lives, Works
<1>4. PICK c, u : c = Completion("on_write", x, "failed", NoSegment) /\ u = Queued(s, c)
  OBVIOUS
<1>5. c \in Completions /\ Operation(c)
  BY <1>4, CompletionType DEF Errors, Completion, Operation
<1>6. u.open = s.open /\ u.up = s.up /\ u.resets = s.resets /\ u.ready = Append(s.ready, c)
  BY <1>4 DEF Queued, IoTypes
<1>7. ~s.open => Goes(s, u)
  BY <1>5, <1>6, GoesElements
<1>8. Goes(s, Transmitted(s, x))
  BY TransmittedGoes
<1> QED
  BY <1>1, <1>3, <1>4, <1>7, <1>8 DEF AsyncWrite

LEMMA CancelledGoes ==
    ASSUME NEW s \in IoTypes
    PROVE  Goes(s, Cancelled(s)) /\ Cancelled(s).open = s.open
<1> DEFINE aborted(call, q) ==
            [i \in 1..Len(q) |-> Completion(call, q[i], "aborted", NoSegment)]
<1>1. s.reads \in Seq(Requests) /\ s.writes \in Seq(Requests) /\ s.ready \in Seq(Completions)
  BY IoFields
<1>2. ASSUME NEW call \in {"on_read", "on_write"}, NEW q \in Seq(Requests)
      PROVE  /\ aborted(call, q) \in Seq(Completions)
             /\ \A c : Has(aborted(call, q), c) => Operation(c) /\ c.error = "aborted"
  <2>1. \A i \in 1..Len(q) :
           Completion(call, q[i], "aborted", NoSegment) \in Completions
    BY CompletionType DEF Errors
  <2>2. aborted(call, q) \in Seq(Completions)
    BY <2>1
  <2>3. DOMAIN aborted(call, q) = 1..Len(q)
    OBVIOUS
  <2>4. ASSUME NEW i \in 1..Len(q)
        PROVE  Operation(aborted(call, q)[i]) /\ aborted(call, q)[i].error = "aborted"
    BY DEF Completion, Operation
  <2> HIDE DEF aborted
  <2> QED
    BY <2>2, <2>3, <2>4 DEF Has
<1>3. PICK a, b : a = aborted("on_read", s.reads) /\ b = aborted("on_write", s.writes)
  OBVIOUS
<1>4. /\ a \in Seq(Completions) /\ \A c : Has(a, c) => Operation(c) /\ c.error = "aborted"
      /\ b \in Seq(Completions) /\ \A c : Has(b, c) => Operation(c) /\ c.error = "aborted"
  BY <1>1, <1>2, <1>3
<1>5. PICK t : t = Cancelled(s)
  OBVIOUS
<1>6. t.open = s.open /\ t.up = s.up /\ t.resets = s.resets /\ t.ready = (s.ready \o a) \o b
  BY <1>3, <1>5 DEF Cancelled, IoTypes
<1>7. PICK r : r = s.ready \o a
  OBVIOUS
<1>8. r \in Seq(Completions) /\ \A c : Has(r, c) => Has(s.ready, c) \/ Has(a, c)
  BY <1>1, <1>4, <1>7, HasConcat
<1>9. \A c : Has(r \o b, c) => Has(r, c) \/ Has(b, c)
  BY <1>4, <1>8, HasConcat
<1>10. \A c : Has(t.ready, c) =>
          Has(s.ready, c) \/ (Operation(c) /\ c.error = "aborted")
  BY <1>4, <1>6, <1>7, <1>8, <1>9
<1> QED
  BY <1>5, <1>6, <1>10 DEF Goes, Lives, Works

LEMMA ReconnectedGoes ==
    ASSUME NEW s \in IoTypes
    PROVE  Goes(s, Connected(Closed(s))) /\ Connected(Closed(s)).open
<1>1. PICK t : t = Cancelled(s)
  OBVIOUS
<1>2. t \in IoTypes /\ Goes(s, t)
  BY <1>1, CancelledType, CancelledGoes
<1>3. PICK u : u = Closed(s)
  OBVIOUS
<1>4. u \in IoTypes /\ u.resets = t.resets /\ u.ready = t.ready
  BY <1>1, <1>2, <1>3, ClosedType DEF Closed, IoTypes
<1>5. PICK v : v = Connected(u)
  OBVIOUS
<1>6. v.open /\ v.up /\ v.resets = u.resets /\ v.ready = u.ready
  BY <1>4, <1>5 DEF Connected, IoTypes
<1>7. Goes(s, v)
  BY <1>2, <1>4, <1>6 DEF Goes, Lives, Works
<1> QED
  BY <1>3, <1>5, <1>6, <1>7

LEMMA GoesTransitive ==
    ASSUME NEW s, NEW t, NEW u, Goes(s, t), Goes(t, u)
    PROVE  Goes(s, u)
BY DEF Goes, Lives, Works

LEMMA RunNextRequestGoes ==
    ASSUME NEW s \in IoTypes, NEW q \in Seq(Requests), RunNextRequest(q, s)
    PROVE  Goes(s, io')
<1>1. CASE q = <<>>
  BY <1>1 DEF RunNextRequest, Goes, Lives, Works
<1>2. CASE q # <<>>
  BY <1>2, HeadTailProperties, AsyncWriteGoes DEF RunNextRequest
<1> QED
  BY <1>1, <1>2

LEMMA NetworkGoes ==
    ASSUME io \in IoTypes,
           \/ WriteCompletes \/ WriteGoesNowhere \/ ReadCompletes
           \/ ReadFails \/ NodeReplies \/ PeerResets
    PROVE  Goes(io, io')
<1>1. PICK s : s = io
  OBVIOUS
<1>2. /\ s \in IoTypes /\ s.ready \in Seq(Completions) /\ s.inbox \in Seq(Segments)
      /\ s.reads \in Seq(Requests) /\ s.writes \in Seq(Requests)
  BY <1>1, IoFields
<1>3. CASE NodeReplies
  <2>1. io'.open = s.open /\ io'.up = s.up /\ io'.resets = s.resets /\ io'.ready = s.ready
    BY <1>1, <1>2, <1>3 DEF NodeReplies, IoTypes
  <2> QED
    BY <1>1, <2>1 DEF Goes, Lives, Works
<1>4. CASE PeerResets
  <2>1. io'.open = s.open /\ io'.ready = s.ready
    BY <1>1, <1>2, <1>4 DEF PeerResets, IoTypes
  <2>2. io'.resets # 0
    <3>1. s.resets \in 0..MaxResets /\ io'.resets = s.resets + 1
      BY <1>1, <1>2, <1>4, IoFields DEF PeerResets, IoTypes
    <3> QED
      BY <3>1
  <2> QED
    BY <1>1, <2>1, <2>2 DEF Goes, Lives, Works
<1>5. ASSUME NEW c \in Completions, Operation(c), s.up => c.error # "failed",
             io'.open = s.open, io'.up = s.up, io'.resets = s.resets, io'.ready = Append(s.ready, c)
      PROVE  Goes(io, io')
  <2>1. PICK t : t = io'
    OBVIOUS
  <2>2. Goes(s, t)
    BY <1>2, <1>5, <2>1, GoesElements
  <2> QED
    BY <1>1, <2>1, <2>2
<1>6. CASE WriteCompletes \/ WriteGoesNowhere
  <2>1. PICK x : x = Head(s.writes)
    OBVIOUS
  <2>2. x \in Requests
    BY <1>1, <1>2, <1>6, <2>1, HasTail DEF WriteCompletes, WriteGoesNowhere
  <2>3. PICK error \in Errors :
           /\ io'.ready = Append(s.ready, Completion("on_write", x, error, NoSegment))
           /\ s.up => error # "failed"
    BY <1>1, <1>2, <1>6, <2>1 DEF WriteCompletes, WriteGoesNowhere, Transmitted, Queued,
                                  Errors, IoTypes
  <2>4. PICK c : c = Completion("on_write", x, error, NoSegment)
    OBVIOUS
  <2>5. c \in Completions /\ Operation(c) /\ c.error = error
    BY <2>2, <2>4, CompletionType DEF Completion, Operation
  <2>6. io'.open = s.open /\ io'.up = s.up /\ io'.resets = s.resets
    BY <1>1, <1>2, <1>6 DEF WriteCompletes, WriteGoesNowhere, Transmitted, Queued, IoTypes
  <2> QED
    BY <1>5, <2>3, <2>4, <2>5, <2>6
<1>7. CASE ReadCompletes \/ ReadFails
  <2>1. PICK x, g : x = Head(s.reads) /\ g = Head(s.inbox)
    OBVIOUS
  <2>2. x \in Requests /\ (ReadCompletes => g \in Segments)
    BY <1>1, <1>2, <1>7, <2>1, HasTail DEF ReadCompletes, ReadFails
  <2>3. PICK c : /\ c \in { Completion("on_read", x, "success", g),
                            Completion("on_read", x, "failed", NoSegment) }
                 /\ c = Completion("on_read", x, "success", g) => ReadCompletes
                 /\ c = Completion("on_read", x, "failed", NoSegment) => ~s.up
                 /\ io'.ready = Append(s.ready, c)
    BY <1>1, <1>2, <1>7, <2>1 DEF ReadCompletes, ReadFails, Queued, Completion, IoTypes
  <2>4. c \in Completions
    BY <2>2, <2>3, CompletionType DEF Errors
  <2>5. Operation(c) /\ (s.up => c.error # "failed")
    BY <2>3 DEF Completion, Operation
  <2>6. io'.open = s.open /\ io'.up = s.up /\ io'.resets = s.resets
    BY <1>1, <1>2, <1>7 DEF ReadCompletes, ReadFails, Queued, IoTypes
  <2> QED
    BY <1>5, <2>3, <2>4, <2>5, <2>6
<1> QED
  BY <1>3, <1>4, <1>6, <1>7

-----------------------------------------------------------------------------
(***************************************************************************)
(* As long as the peer has not dropped a connection and reconnecting has   *)
(* not thrown, no operation fails, so that nobody is told of a failure and *)
(* the active request always has an operation under way.                   *)
(***************************************************************************)
ClosedFor == dtor' = "gone" /\ (io'.resets = 0 => io.resets = 0)

LEMMA LivesStays ==
    \A s : Lives(s, s)
BY DEF Lives

LEMMA ClosedForGood ==
    ASSUME NEW s \in IoTypes, s.resets = io.resets, Lives(io, s), CloseForGood(s)
    PROVE  Lives(io, io') \/ ClosedFor
<1>1. Cancelled(s) \in IoTypes /\ Lives(s, Cancelled(s))
  BY CancelledType, CancelledGoes DEF Goes
<1>2. Closed(s).resets = s.resets
  <2>1. PICK t : t = Cancelled(s)
    OBVIOUS
  <2>2. t.resets = s.resets
    BY <2>1 DEF Cancelled, IoTypes
  <2>3. Closed(s).resets = t.resets
    BY <1>1, <2>1 DEF Closed, IoTypes
  <2> QED
    BY <2>2, <2>3
<1> QED
  BY <1>2, LivesStays DEF CloseForGood, ClosedFor

LEMMA SocketErrorLives ==
    ASSUME TypeOK, NEW w, NEW c, NEW s \in IoTypes, Lives(io, s), HandleSocketError(w, c, s)
    PROVE  Lives(io, io') \/ failures' > 0
<1>1. PICK u : u = Connected(Closed(s))
  OBVIOUS
<1>2. u \in IoTypes /\ Lives(s, u)
  BY <1>1, ClosedType, ReconnectedGoes DEF Goes
<1>3. pending \in Seq(Requests) /\ failures \in Nat
  BY SchedulerAssumption DEF TypeOK
<1>4. CASE Reconnects(s)
  <2>1. io' = u \/ RunNextRequest(pending, u)
    BY <1>1, <1>4 DEF Reconnects
  <2>2. Lives(u, io')
    BY <1>2, <1>3, <2>1, LivesStays, RunNextRequestGoes DEF Goes
  <2>3. Lives(s, io')
    BY <1>2, <2>2 DEF Lives
  <2> QED
    BY <2>3 DEF Lives
<1>5. CASE ReconnectThrows(s)
  BY <1>3, <1>5 DEF ReconnectThrows
<1> QED
  BY <1>4, <1>5 DEF HandleSocketError

LEMMA StepLives ==
    ASSUME TypeOK, [Next]_vars
    PROVE  Lives(io, io') \/ failures' > 0 \/ ClosedFor
<1>1. io \in IoTypes /\ pending \in Seq(Requests)
  BY DEF TypeOK
<1>2. CASE \/ Outside(WriteCompletes) \/ Outside(WriteGoesNowhere) \/ Outside(ReadCompletes)
           \/ Outside(ReadFails) \/ Outside(NodeReplies) \/ Outside(PeerResets)
  BY <1>1, <1>2, NetworkGoes DEF Outside, Goes
<1>3. ASSUME UNCHANGED io PROVE Lives(io, io')
  BY <1>3, LivesStays
<1>4. ASSUME NEW w \in Workers, NEW i \in DOMAIN io.ready, OnWrite(w, i) \/ OnRead(w, i)
      PROVE  Lives(io, io') \/ failures' > 0
  <2>1. PICK c, s : c = io.ready[i] /\ s = Taken(io, i)
    OBVIOUS
  <2>2. s \in IoTypes /\ Lives(io, s) /\ c.req \in Requests
    BY <1>1, <2>1, TakenType, TakenGoes DEF Goes, Completions
  <2>3. CASE io' = s
    BY <2>2, <2>3
  <2>4. CASE io' = AsyncRead(s, c.req)
    <3>1. Lives(s, io')
      BY <2>2, <2>4, AsyncReadGoes DEF Goes
    <3> QED
      BY <2>2, <3>1 DEF Lives
  <2>5. CASE HandleSocketError(w, c, s)
    BY <2>2, <2>5, SocketErrorLives
  <2> QED
    BY <1>4, <2>1, <2>3, <2>4, <2>5 DEF OnWrite, OnRead, Superseded
<1>5. ASSUME NEW w \in Workers, NEW i \in DOMAIN io.ready, DequeueThreadSafely(w, i)
      PROVE  Lives(io, io')
  BY <1>1, <1>5, TakenGoes DEF DequeueThreadSafely, Goes
<1>6. ASSUME NEW w \in Workers, RunsHandler(w)
      PROVE  Lives(io, io') \/ failures' > 0
  BY <1>3, <1>4, <1>5, <1>6 DEF RunsHandler, RunsOnFreedPool
<1>7. ASSUME NEW t \in Threads, UserStep(t)
      PROVE  Lives(io, io')
  <2>1. CASE ExerciseQueued(t)
    <3>1. PICK c, u : /\ c = Completion("dequeue", frame[t].req, "success", NoSegment)
                      /\ u = Queued(io, c)
      OBVIOUS
    <3>2. frame[t].req \in Requests
      BY <2>1, ExerciseFrame DEF ExerciseQueued, ReadsPool, TypeOK
    <3>3. c \in Completions /\ c.error = "success" /\ io.ready \in Seq(Completions)
      BY <1>1, <3>1, <3>2, CompletionType, IoFields DEF Errors, Completion
    <3>4. u.open = io.open /\ u.up = io.up /\ u.resets = io.resets /\ u.ready = Append(io.ready, c)
      BY <1>1, <3>1 DEF Queued, IoTypes
    <3>5. \A d : Has(Append(io.ready, c), d) => Has(io.ready, d) \/ d = c
      BY <3>3, HasAppend
    <3>6. Lives(io, u)
      BY <3>3, <3>4, <3>5 DEF Lives
    <3> QED
      BY <2>1, <3>1, <3>6 DEF ExerciseQueued
  <2>2. CASE ExerciseAdvances(t) /\ ~shutting_down
    BY <1>1, <2>2, RunNextRequestGoes DEF ExerciseAdvances, Goes
  <2>3. CASE ExerciseCancels(t) /\ io' = Cancelled(io)
    BY <1>1, <2>3, CancelledGoes DEF Goes
  <2> QED
    BY <1>3, <1>7, <2>1, <2>2, <2>3 DEF UserStep, EnterHandler, HandlerReturns,
       HandlerTerminates, ExerciseActive, ExerciseFaults, ExerciseAdvances, ExerciseCancels
<1>8. ASSUME NEW t \in Threads, NEW r \in Requests, Deliver(t, r)
      PROVE  Lives(io, io')
  <2>1. CASE active = None
    <3>1. Append(pending, r) \in Seq(Requests) /\ RunNextRequest(Append(pending, r), io)
      BY <1>1, <1>8, <2>1 DEF Deliver, Admit
    <3> QED
      BY <1>1, <3>1, RunNextRequestGoes DEF Goes
  <2> QED
    BY <1>3, <1>8, <2>1 DEF Deliver, Admit
<1>9. CASE DestructorStep \/ WakesSpuriously
  <2>1. PICK s : s = Cancelled(io)
    OBVIOUS
  <2>2. s \in IoTypes /\ Lives(io, s) /\ s.resets = io.resets
    BY <1>1, <2>1, CancelledType, CancelledGoes DEF Goes, Cancelled, IoTypes
  <2>3. CASE CloseForGood(s) \/ CloseForGood(io)
    BY <1>1, <2>2, <2>3, ClosedForGood, LivesStays
  <2> QED
    BY <1>3, <1>9, <2>1, <2>2, <2>3 DEF DestructorStep, TellPending, AwaitDequeued, Drained,
       WakesSpuriously
<1> QED
  BY <1>2, <1>3, <1>6, <1>7, <1>8, <1>9 DEF Next, Application, Abandon, Destroy, vars
Intact ==
    /\ dtor # "gone" =>
          io.open /\ io.up /\ \A c : Has(io.ready, c) => c.error # "failed"
    /\ \A t \in Threads : frame[t].how # "failed"
    /\ \A r \in Requests : ~Told(r, {"failed"})

InGoodOrder == failures = 0 /\ io.resets = 0 => Intact

\* Nobody is called with a failure that was not told to a handler of the scheduler.
LEMMA FrameIntact ==
    ASSUME TypeOK, Intact, NEW t, NEW f, frame' = [frame EXCEPT ![t] = f],
           f.how # "failed", UNCHANGED heard
    PROVE  /\ \A u \in Threads : frame'[u].how # "failed"
           /\ \A r \in Requests : ~Told(r, {"failed"})'
<1>1. \A u \in Threads : frame'[u] \in {f, frame[u]}
  BY DEF TypeOK
<1> QED
  BY <1>1 DEF Intact, Told

LEMMA EnterHandlerIntact ==
    ASSUME TypeOK, Intact, NEW t \in Threads, EnterHandler(t)
    PROVE  /\ \A u \in Threads : frame'[u].how # "failed"
           /\ \A r \in Requests : ~Told(r, {"failed"})'
<1>1. PICK q, n, f : EntersAs(t, q, n, f)
  BY EnterHandlerAs DEF TypeOK
<1>2. q \in Requests /\ n \in News /\ n.how # "failed"
  BY <1>1 DEF EntersAs, Intact
<1>3. f.how = n.how
  BY <1>1 DEF EntersAs
<1>4. frame' = [frame EXCEPT ![t] = f] /\ heard' = [heard EXCEPT ![q] = Append(@, n)]
  BY <1>1 DEF EntersAs
<1>5. \A u \in Threads : frame'[u] \in {f, frame[u]}
  BY <1>4 DEF TypeOK
<1>6. heard \in [Requests -> Seq(News)]
  BY DEF TypeOK
<1>7. \A m : Has(Append(heard[q], n), m) <=> Has(heard[q], m) \/ m = n
  BY <1>2, <1>6, HasAppend
<1>8. ASSUME NEW r \in Requests PROVE ~Told(r, {"failed"})'
  <2>1. \A m : Has(heard'[r], m) => Has(heard[r], m) \/ m = n
    BY <1>2, <1>4, <1>6, <1>7
  <2>2. \A m : Has(heard[r], m) => m.how # "failed"
    BY DEF Intact, Told, Has
  <2>3. n.how # "failed"
    BY <1>1, <1>2
  <2> QED
    BY <2>1, <2>2, <2>3 DEF Told, Has
<1> QED
  BY <1>2, <1>3, <1>5, <1>8 DEF Intact

LEMMA FramesIntact ==
    ASSUME TypeOK, Intact, [Next]_vars
    PROVE  /\ \A u \in Threads : frame'[u].how # "failed"
           /\ \A r \in Requests : ~Told(r, {"failed"})'
<1>1. CASE UNCHANGED <<frame, heard>>
  BY <1>1 DEF Intact, Told
<1>2. ASSUME NEW t, NEW f, frame' = [frame EXCEPT ![t] = f], f.how # "failed", UNCHANGED heard
      PROVE  /\ \A u \in Threads : frame'[u].how # "failed"
             /\ \A r \in Requests : ~Told(r, {"failed"})'
  BY <1>2, FrameIntact
<1>3. CASE \/ Outside(WriteCompletes) \/ Outside(WriteGoesNowhere) \/ Outside(ReadCompletes)
           \/ Outside(ReadFails) \/ Outside(NodeReplies) \/ Outside(PeerResets)
  BY <1>1, <1>3 DEF Outside, Rest
<1>4. ASSUME NEW w \in Workers, NEW i \in DOMAIN io.ready, OnWrite(w, i) \/ OnRead(w, i)
      PROVE  /\ \A u \in Threads : frame'[u].how # "failed"
             /\ \A r \in Requests : ~Told(r, {"failed"})'
  <2>1. PICK c : c = io.ready[i]
    OBVIOUS
  <2>2. c.error # "failed"
    BY <1>4, <2>1 DEF OnWrite, OnRead, CanRun, Intact, Has
  <2>3. UNCHANGED heard
    BY <1>4 DEF OnWrite, OnRead
  <2>4. \/ UNCHANGED frame
        \/ c.error = "success" /\ frame' = [frame EXCEPT ![w] = Calling(c.req, NewsOf(c))]
    BY <1>4, <2>1, <2>2 DEF OnWrite, OnRead, Superseded, HandleSocketError
  <2>5. c.error = "success" => Calling(c.req, NewsOf(c)).how # "failed"
    BY DEF Calling, NewsOf
  <2> QED
    BY <1>1, <1>2, <2>3, <2>4, <2>5
<1>5. ASSUME NEW w \in Workers, RunsHandler(w)
      PROVE  /\ \A u \in Threads : frame'[u].how # "failed"
             /\ \A r \in Requests : ~Told(r, {"failed"})'
  BY <1>1, <1>4, <1>5 DEF RunsHandler, DequeueThreadSafely, RunsOnFreedPool
<1>6. ASSUME NEW t \in Threads, UserStep(t)
      PROVE  /\ \A u \in Threads : frame'[u].how # "failed"
             /\ \A r \in Requests : ~Told(r, {"failed"})'
  <2>1. PICK e : e = frame[t]
    OBVIOUS
  <2>2. e \in Frames /\ e.how # "failed"
    BY <2>1 DEF TypeOK, Intact
  <2>3. CASE EnterHandler(t)
    BY <2>3, EnterHandlerIntact
  <2>4. CASE HandlerReturns(t) \/ ExerciseQueued(t) \/ ExerciseCancels(t) \/ ExerciseFaults(t)
    <3>1. Idle.how # "failed"
      BY DEF Idle
    <3>2. UNCHANGED heard /\ (UNCHANGED frame \/ frame' = [frame EXCEPT ![t] = Idle])
      BY <2>4 DEF HandlerReturns, ExerciseQueued, ExerciseCancels, ExerciseFaults
    <3> QED
      BY <1>1, <1>2, <3>1, <3>2
  <2>5. CASE HandlerTerminates(t)
    <3>1. PICK f : f = Exercising(e.req, IF e.how = "complete" THEN "clean" ELSE "dirty")
      OBVIOUS
    <3>2. f.how # "failed"
      BY <3>1 DEF Exercising
    <3>3. UNCHANGED heard /\ frame' = [frame EXCEPT ![t] = f]
      BY <2>1, <2>5, <3>1 DEF HandlerTerminates, TypeOK
    <3> QED
      BY <1>2, <3>2, <3>3
  <2>6. CASE ExerciseActive(t) \/ ExerciseAdvances(t)
    <3>1. PICK at : frame' = [frame EXCEPT ![t].at = at] /\ UNCHANGED heard
      BY <2>6 DEF ExerciseActive, ExerciseAdvances
    <3>2. PICK f : f = [e EXCEPT !.at = at]
      OBVIOUS
    <3>3. e.at # "idle"
      BY <2>1, <2>6 DEF ExerciseActive, ExerciseAdvances, ReadsPool
    <3>4. f.how = e.how
      BY <2>2, <3>2, <3>3 DEF Frames, Idle
    <3>5. frame' = [frame EXCEPT ![t] = f]
      BY <2>1, <3>1, <3>2
    <3> QED
      BY <1>2, <2>2, <3>1, <3>4, <3>5
  <2> QED
    BY <1>6, <2>3, <2>4, <2>5, <2>6 DEF UserStep
<1>7. ASSUME NEW t \in Threads, NEW r \in Requests, Abandon(t, r)
      PROVE  /\ \A u \in Threads : frame'[u].how # "failed"
             /\ \A x \in Requests : ~Told(x, {"failed"})'
  <2>1. PICK how \in {"drop", "dirty"} : frame' = [frame EXCEPT ![t] = Exercising(r, how)]
    BY <1>7 DEF Abandon
  <2>2. Exercising(r, how).how # "failed" /\ UNCHANGED heard
    BY <1>7 DEF Exercising, Abandon
  <2> QED
    BY <1>2, <2>1, <2>2
<1>8. CASE TellPending
  <2>1. frame' = [frame EXCEPT ![Destroyer] = Calling(Head(untold), Reset)] /\ UNCHANGED heard
    BY <1>8 DEF TellPending
  <2>2. Calling(Head(untold), Reset).how # "failed"
    BY DEF Calling, Reset
  <2> QED
    BY <1>2, <2>1, <2>2
<1> QED
  BY <1>1, <1>3, <1>5, <1>6, <1>7, <1>8 DEF Next, Application, Deliver, Destroy,
     DestructorStep, AwaitDequeued, Drained, WakesSpuriously, vars

LEMMA IntactStep ==
    ASSUME TypeOK, TypeOK', InGoodOrder, [Next]_vars
    PROVE  InGoodOrder'
<1> SUFFICES ASSUME failures' = 0, io'.resets = 0
             PROVE  Intact'
  BY DEF InGoodOrder
<1>1. failures = 0
  <2>1. failures' \in {failures, failures + 1}
    BY DEF Next, vars, Outside, Rest, RunsHandler, OnWrite, OnRead, Superseded, HandleSocketError,
       Reconnects, ReconnectThrows, DequeueThreadSafely, RunsOnFreedPool, UserStep,
       EnterHandler, HandlerReturns, HandlerTerminates, ExerciseActive, ExerciseQueued,
       ExerciseFaults, ExerciseAdvances, ExerciseCancels, Application, Deliver, Abandon,
       Destroy, DestructorStep, TellPending, AwaitDequeued, Drained, WakesSpuriously
  <2> QED
    BY <2>1, SchedulerAssumption DEF TypeOK
<1>2. Lives(io, io') \/ ClosedFor
  BY StepLives
<1>3. io.resets = 0
  BY <1>2 DEF Lives, ClosedFor
<1>4. Intact
  BY <1>1, <1>3 DEF InGoodOrder
<1>5. /\ \A u \in Threads : frame'[u].how # "failed"
      /\ \A r \in Requests : ~Told(r, {"failed"})'
  BY <1>4, FramesIntact
<1>6. dtor = "gone" => dtor' = "gone"
  BY DEF Next, vars, Outside, Rest, RunsHandler, OnWrite, OnRead,
       DequeueThreadSafely, RunsOnFreedPool, UserStep,
       EnterHandler, HandlerReturns, HandlerTerminates, ExerciseActive, ExerciseQueued,
       ExerciseFaults, ExerciseAdvances, ExerciseCancels, Application, Deliver, Abandon,
       Destroy, DestructorStep, TellPending, AwaitDequeued, Drained, WakesSpuriously
<1>7. ASSUME dtor' # "gone"
      PROVE  io'.open /\ io'.up /\ \A c : Has(io'.ready, c) => c.error # "failed"
  BY <1>2, <1>4, <1>6, <1>7 DEF Intact, Lives, ClosedFor
<1> QED
  BY <1>5, <1>7 DEF Intact

\* A terminated request does not keep the connection, as long as the peer has not dropped
\* one and no reconnection has thrown, for any number of workers and any way of giving up:
\* a completion is on its way that will take the connection from it.
THEOREM ReleasedOnSoundConnection == Spec => []ReleasedWhileSound
<1>1. Init => InGoodOrder
  <2> SUFFICES ASSUME Init PROVE Intact
    BY DEF InGoodOrder
  <2>1. io.open /\ io.up /\ io.ready = <<>>
    BY DEF Init, IoInit
  <2> QED
    BY <2>1 DEF Init, Intact, Idle, Told, Has
<1>2. TypeOK /\ TypeOK' /\ InGoodOrder /\ [Next]_vars => InGoodOrder'
  BY IntactStep
<1>3. TypeOK /\ InGoodOrder /\ ActiveIsAttended => ReleasedWhileSound
  BY DEF TypeOK, InGoodOrder, Intact, ActiveIsAttended, ReleasedWhileSound, ConnectionReleased
<1> QED
  BY <1>1, <1>2, <1>3, TypeCorrect, ActiveAttendedAlways, PTL DEF Spec
=============================================================================
