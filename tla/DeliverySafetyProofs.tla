------------------------ MODULE DeliverySafetyProofs ------------------------
(***************************************************************************)
(* Why a callback is called with the reply to another request, and why the *)
(* program dies: where one worker runs the io_service, nothing but a       *)
(* timeout or the end of the transport does either.                        *)
(***************************************************************************)
EXTENDS DeliveryProofs

-----------------------------------------------------------------------------
(***************************************************************************)
(* What is proved of the transport and its users in SchedulerRepliesProofs *)
(* is so proved of the transport under these requests.                     *)
(***************************************************************************)
Proved == INSTANCE SchedulerRepliesProofs WITH
    frame <- Seen,
    fault <- Broken,
    Abandons <- {"drop", "dirty"} \X {"active", "queued", "lost"}

LEMMA ProvedAssumptions == Proved!SocketAssumption /\ Proved!SchedulerAssumption
<1>1. Proved!SocketAssumption
  BY SocketAssumption DEF SocketAssumption, Proved!SocketAssumption
<1>2. \A S : IsFiniteSet(S) <=> Proved!IsFiniteSet(S)
  BY DEF IsFiniteSet, Proved!IsFiniteSet
<1>3. Proved!SchedulerAssumption
  BY SchedulerAssumption, <1>2 DEF SchedulerAssumption, Proved!SchedulerAssumption
<1> QED
  BY <1>1, <1>3

\* Both are the same specification.
LEMMA ProvedSteps ==
    /\ UNCHANGED Transport!vars => UNCHANGED Proved!vars
    /\ Transport!Init => Proved!Init
    /\ Transport!Next => Proved!Next
    /\ PatientStep => Proved!Patient \/ UNCHANGED Proved!vars
BY DEF Transport!vars, Proved!vars, Transport!Init, Proved!Init, Transport!IoInit,
       Proved!IoInit, Transport!Next, Proved!Next, PatientStep, Proved!Patient, Threads,
       Transport!Outside, Proved!Outside, Transport!WriteCompletes, Proved!WriteCompletes,
       Transport!WriteGoesNowhere, Proved!WriteGoesNowhere, Transport!ReadCompletes,
       Proved!ReadCompletes, Transport!ReadFails, Proved!ReadFails, Transport!NodeReplies,
       Proved!NodeReplies, Transport!PeerResets, Proved!PeerResets, Transport!Rest,
       Proved!Rest, Transport!history, Proved!history, Transport!Running, Proved!Running,
       Transport!RunsHandler, Proved!RunsHandler, Transport!OnWrite, Proved!OnWrite,
       Transport!OnRead, Proved!OnRead, Transport!DequeueThreadSafely,
       Proved!DequeueThreadSafely, Transport!RunsOnFreedPool, Proved!RunsOnFreedPool,
       Transport!CanRun, Proved!CanRun, Transport!AtRest, Proved!AtRest,
       Transport!PoolFree, Proved!PoolFree, Transport!Superseded, Proved!Superseded,
       Transport!HandleSocketError, Proved!HandleSocketError, Transport!Reconnects,
       Proved!Reconnects, Transport!ReconnectThrows, Proved!ReconnectThrows,
       Transport!RunNextRequest, Proved!RunNextRequest, Transport!AsyncWrite,
       Proved!AsyncWrite, Transport!AsyncRead, Proved!AsyncRead, Transport!Queued,
       Proved!Queued, Transport!Completion, Proved!Completion, Transport!NoSegment,
       Proved!NoSegment, Transport!Transmitted, Proved!Transmitted, Transport!Cancelled,
       Proved!Cancelled, Transport!Closed, Proved!Closed, Transport!Connected,
       Proved!Connected, Transport!ShutdownMayThrow, Proved!ShutdownMayThrow,
       Transport!Taken, Proved!Taken, Transport!Waiting, Proved!Waiting, Transport!NewsOf,
       Proved!NewsOf, Transport!Calling, Proved!Calling, Transport!Idle, Proved!Idle,
       Transport!Cardinality, Proved!Cardinality, Transport!RemoveAt, Proved!RemoveAt,
       Transport!UserStep, Proved!UserStep, Transport!EnterHandler, Proved!EnterHandler,
       Transport!ReadAs, Proved!ReadAs, Transport!Completes, Proved!Completes,
       Transport!Buffered, Proved!Buffered,
       Transport!HandlerReturns, Proved!HandlerReturns, Transport!HandlerTerminates,
       Proved!HandlerTerminates, Transport!OptionFree, Proved!OptionFree,
       Transport!Exercising, Proved!Exercising, Transport!ExerciseActive,
       Proved!ExerciseActive, Transport!ExerciseQueued, Proved!ExerciseQueued,
       Transport!ExerciseFaults, Proved!ExerciseFaults, Transport!ExerciseAdvances,
       Proved!ExerciseAdvances, Transport!ExerciseCancels, Proved!ExerciseCancels,
       Transport!ReadsPool, Proved!ReadsPool, Transport!Deliver, Proved!Deliver,
       Transport!Admit, Proved!Admit, Transport!DestructorStep, Proved!DestructorStep,
       Transport!TellPending, Proved!TellPending, Transport!AwaitDequeued,
       Proved!AwaitDequeued, Transport!Drained, Proved!Drained, Transport!WakesSpuriously,
       Proved!WakesSpuriously, Transport!CloseForGood, Proved!CloseForGood,
       Transport!Reset, Proved!Reset, Transport!Threads, Proved!Threads,
       Transport!Abandon, Proved!Abandon, Transport!Held, Proved!Held, Transport!Where,
       Proved!Where, Transport!Destroy, Proved!Destroy, Transport!Application,
       Proved!Application

LEMMA ProvedAlways ==
    DeliverySpec => [](Proved!TypeOK /\ Proved!Replies /\ Proved!Sole(io))
<1>1. Transport!Init => Proved!Init
  BY ProvedSteps
<1>2. [Transport!Next]_(Transport!vars) => [Proved!Next]_(Proved!vars)
  BY ProvedSteps
<1>3. Proved!Spec => [](Proved!TypeOK /\ Proved!OrderKept /\ Proved!Replies /\ Proved!Sole(io))
  BY ProvedAssumptions, Proved!RepliesAlways
<1> QED
  BY <1>1, <1>2, <1>3, SchedulerImplemented, PTL
     DEF ImplementsScheduler, Transport!Spec, Proved!Spec

-----------------------------------------------------------------------------
(***************************************************************************)
(* How far a request is, whatever the threads: its option is there from    *)
(* its assignment until it was exercised, only a timeout makes it give up, *)
(* and its callback hears only what its response handler was called with.  *)
(***************************************************************************)
TimedOut(r) == Past(r, {"timeout"})

AnswersHeard(r) ==
    \A i \in DOMAIN answers[r] :
        answers[r][i].of # None =>
            \E how \in Tidings : Has(heard[r], [how |-> how, of |-> answers[r][i].of])

RequestFate(r) ==
    /\ arrival[r] > 0 => wire[r].dispatch \in {"delivered", "assigned", "done"}
    /\ Assigned(r) => wire[r].option \/ r \in exercised
    /\ wire[r].succeeded => r \in exercised
    /\ wire[r].timed_out => TimedOut(r)
    /\ TimedOut(r) => Assigned(r)
    /\ AnswersHeard(r)

FrameFate(f) ==
    /\ f.at = "handler" /\ f.how \in Tidings => Has(heard[f.req], [how |-> f.how, of |-> f.of])
    /\ f.at \in {"calling", "handler"} /\ f.how = "complete" => f.of \in Requests
    /\ f.at \in {"check", "advance", "cancel"} =>
          /\ f.how = "clean" =>
                \E x \in Requests : Has(heard[f.req], [how |-> "complete", of |-> x])
          /\ f.how = "drop" => TimedOut(f.req)

OwnerFate(t, r) ==
    wire[r].owner = t =>
        /\ frame[t] = Idle => r \in exercised
        /\ frame[t].at = "handler" /\ frame[t].how = "expired" => TimedOut(r)

FateInv ==
    /\ \A r \in Requests : RequestFate(r)
    /\ \A t \in Threads : FrameFate(frame[t])
    /\ \A t \in Threads, r \in Requests : OwnerFate(t, r)

\* Nothing that was heard is forgotten.
HeardStays == \A q \in Requests : \A n : Has(heard[q], n) => Has(heard'[q], n)

Undecided(q) ==
    /\ Leaves(q)
    /\ wire'[q].succeeded = wire[q].succeeded
    /\ answers'[q] = answers[q]

LEMMA UndecidedFate ==
    ASSUME NEW q \in Requests, RequestFate(q), Undecided(q), HeardStays
    PROVE  RequestFate(q)' /\ (TimedOut(q) <=> TimedOut(q)')
<1>1. TimedOut(q) <=> TimedOut(q)'
  BY DEF Undecided, TimedOut, Past
<1>2. AnswersHeard(q)'
  BY DEF RequestFate, AnswersHeard, HeardStays, Undecided
<1>3. Assigned(q) <=> Assigned(q)'
  BY DEF Undecided, Leaves, Passes, Assigned
<1> QED
  BY <1>1, <1>2, <1>3 DEF RequestFate, Undecided, Leaves, Passes

LEMMA IdleFate == FrameFate(Idle)
BY DEF FrameFate, Idle

\* A step of t for r.
LEMMA FateKept ==
    ASSUME Types, UseInv, FateInv, NEW t \in Threads, NEW r \in Requests, NEW f,
           frame' = [frame EXCEPT ![t] = f], StaysWith(t, r),
           f = frame[t] \/ frame[t] = Idle \/ frame[t].req = r,
           \A q \in Requests : q # r => Undecided(q),
           HeardStays, TimedOut(r) => TimedOut(r)', r \in exercised => r \in exercised',
           RequestFate(r)', FrameFate(f)', OwnerFate(t, r)',
           wire'[r].owner \in {t, None} \/ wire'[r].owner = wire[r].owner
    PROVE  FateInv'
<1>0. t # None /\ \A u \in Threads : u # None
  BY SchedulerAssumption DEF Threads
<1>1. /\ \A u \in Threads : u # t => frame'[u] = frame[u]
      /\ frame'[t] = f
  BY DEF Types, DeliveryTypeOK
<1>2. \A q \in Requests : RequestFate(q)' /\ (TimedOut(q) => TimedOut(q)')
  BY UndecidedFate DEF FateInv
<1>3. ASSUME NEW u \in Threads, u # t
      PROVE  FrameFate(frame[u])'
  <2>1. FrameFate(frame[u]) /\ (frame[u].at # "idle" => frame[u].req \in Requests)
    BY FrameRequest DEF FateInv
  <2>2. frame'[u] = frame[u]
    BY <1>1, <1>3
  <2> QED
    BY <1>2, <2>1, <2>2 DEF FrameFate, HeardStays
<1>4. ASSUME NEW u \in Threads, u # t, NEW q \in Requests
      PROVE  OwnerFate(u, q)'
  <2>1. OwnerFate(u, q) /\ frame'[u] = frame[u]
    BY <1>1, <1>4 DEF FateInv
  <2>2. wire'[q].owner = u => wire[q].owner = u
    BY <1>0, <1>4 DEF Undecided, Leaves, Passes
  <2>3. q \in exercised => q \in exercised'
    BY DEF Undecided, Leaves
  <2> QED
    BY <1>2, <2>1, <2>2, <2>3 DEF OwnerFate
<1>5. ASSUME NEW q \in Requests, q # r
      PROVE  OwnerFate(t, q)'
  <2>1. OwnerFate(t, q) /\ UsedBy(t, q) /\ Undecided(q)
    BY <1>5 DEF FateInv, UseInv
  <2>2. wire'[q].owner = wire[q].owner /\ (q \in exercised <=> q \in exercised')
    BY <2>1 DEF Undecided, Leaves, Passes
  <2>3. CASE wire[q].owner = t /\ f # frame[t]
    <3>1. frame[t] = Idle
      BY <1>5, <2>1, <2>3 DEF UsedBy, Exercises, InHandler
    <3>2. frame'[t] = Idle
      BY <2>3, <3>1 DEF StaysWith, Free
    <3> QED
      BY <2>1, <2>2, <3>1, <3>2 DEF OwnerFate, Idle
  <2> QED
    BY <1>1, <1>2, <2>1, <2>2, <2>3 DEF OwnerFate
<1>6. FrameFate(frame[t])'
  BY <1>1
<1> QED
  BY <1>2, <1>3, <1>4, <1>5, <1>6 DEF FateInv

\* A step in which no thread moves.
LEMMA FateOfStill ==
    ASSUME Types, FateInv, UNCHANGED <<frame, exercised, heard, answers>>,
           \A q \in Requests : wire'[q].owner = wire[q].owner,
           \A q \in Requests : RequestFate(q)'
    PROVE  FateInv'
<1>1. \A q \in Requests : TimedOut(q)' <=> TimedOut(q)
  BY DEF TimedOut, Past
<1>2. ASSUME NEW t \in Threads
      PROVE  FrameFate(frame[t])'
  <2>1. FrameFate(frame[t]) /\ (frame[t].at # "idle" => frame[t].req \in Requests)
    BY FrameRequest DEF FateInv
  <2> QED
    BY <1>1, <2>1 DEF FrameFate
<1>3. ASSUME NEW t \in Threads, NEW r \in Requests
      PROVE  OwnerFate(t, r)'
  <2>1. OwnerFate(t, r)
    BY DEF FateInv
  <2> QED
    BY <1>1, <2>1 DEF OwnerFate
<1> QED
  BY <1>2, <1>3 DEF FateInv

\* The answer of a callback, which its handler heard.
LEMMA AnswerIsHeard ==
    ASSUME Types, NEW r \in Requests, NEW how \in {"partial", "complete", "failed", "timeout"},
           NEW of \in Requests \cup {None}, Answer(r, how, of), AnswersHeard(r),
           of # None => \E k \in Tidings : Has(heard[r], [how |-> k, of |-> of]),
           HeardStays
    PROVE  AnswersHeard(r)'
<1>1. PICK a : a = [how |-> how, of |-> of]
  OBVIOUS
<1>2. a \in Answers /\ a.of = of
  BY <1>1 DEF Answers
<1>3. answers[r] \in Seq(Answers) /\ answers'[r] = Append(answers[r], a)
  BY <1>1 DEF Types, DeliveryTypeOK, Answer
<1>4. \A i \in DOMAIN answers'[r] :
         answers'[r][i] = a \/ (i \in DOMAIN answers[r] /\ answers'[r][i] = answers[r][i])
  BY <1>2, <1>3, SeqAppended
<1> QED
  BY <1>2, <1>4 DEF AnswersHeard, HeardStays

\* A step of t in a handler of r, or at its end.
LEMMA FateOfHandler ==
    ASSUME Types, UseInv, FateInv, NEW t \in Threads, NEW r \in Requests, NEW f,
           frame' = [frame EXCEPT ![t] = f], StaysWith(t, r),
           f = frame[t] \/ frame[t] = Idle \/ frame[t].req = r,
           UNCHANGED <<exercised, heard, arrival>>,
           \A q \in Requests : q # r =>
              Passes(q) /\ wire'[q].succeeded = wire[q].succeeded /\ answers'[q] = answers[q],
           wire'[r].dispatch = wire[r].dispatch, wire'[r].succeeded = wire[r].succeeded,
           Assigned(r) => wire'[r].option \/ r \in exercised,
           TimedOut(r) \/ wire'[r].timed_out => TimedOut(r)',
           TimedOut(r)' => Assigned(r), AnswersHeard(r)',
           FrameFate(f)', OwnerFate(t, r)', wire'[r].owner \in {t, None}
    PROVE  FateInv'
<1>1. HeardStays
  BY DEF HeardStays
<1>2. \A q \in Requests : q # r => Undecided(q)
  BY DEF Undecided, Leaves
<1>3. RequestFate(r)'
  <2>1. RequestFate(r)
    BY DEF FateInv
  <2> QED
    BY <2>1 DEF RequestFate, Assigned
<1> QED
  BY <1>1, <1>2, <1>3, FateKept

LEMMA FateOfHandlers ==
    ASSUME Types, UseInv, FateInv, NEW t \in Threads, NEW r \in Requests, Handler(t, r)
    PROVE  FateInv'
<1>1. /\ RequestFate(r) /\ FrameFate(frame[t]) /\ OwnerFate(t, r)
      /\ wire[r] \in Wires /\ wire \in [Requests -> Wires]
      /\ frame \in [Threads -> DeliveryFrames] /\ t # None
  BY SchedulerAssumption DEF FateInv, Types, DeliveryTypeOK, Threads
<1>2. \A how : /\ Exercising(r, how).at = "check" /\ Exercising(r, how).req = r
               /\ Exercising(r, how).how = how
  BY DEF Exercising
<1>3. UNCHANGED <<exercised, heard, arrival>>
  BY DEF Handler, OnPartial, OnComplete, TerminatesClean, OnError, OnTimeout, DropsOption,
         OnTimeoutCancelled, Releases, Framed, Faulty, vars, history
<1>4. Idle.at = "idle"
  BY DEF Idle
<1>5. FrameFate(Idle)'
  BY DEF FrameFate, Idle
<1>6. HeardStays
  BY <1>3 DEF HeardStays
<1>7. Locks(t, r) =>
         /\ frame[t] # Idle /\ frame[t].at = "handler" /\ frame[t].req = r
         /\ wire[r].owner = None /\ Assigned(r)
         /\ frame[t].how \in Tidings => Has(heard[r], [how |-> frame[t].how, of |-> frame[t].of])
         /\ frame[t].of \in Requests \cup {None}
  <2> SUFFICES ASSUME Locks(t, r)
               PROVE  /\ frame[t] # Idle /\ frame[t].at = "handler" /\ frame[t].req = r
                      /\ wire[r].owner = None /\ Assigned(r)
                      /\ frame[t].how \in Tidings
                            => Has(heard[r], [how |-> frame[t].how, of |-> frame[t].of])
                      /\ frame[t].of \in Requests \cup {None}
    OBVIOUS
  <2>1. /\ frame[t] # Idle /\ frame[t].at = "handler" /\ frame[t].req = r
        /\ wire[r].owner = None /\ Assigned(r)
    BY LockedUse
  <2>2. frame[t].of \in Requests \cup {None}
    BY <1>1, <2>1, DeliveryFrameKinds
  <2> QED
    BY <1>1, <2>1, <2>2 DEF FrameFate
<1>8. \A q \in Requests : wire'[q] = wire[q] => Passes(q) /\ wire'[q].succeeded = wire[q].succeeded
  BY DEF Passes
<1>9. wire[r].owner = t /\ frame[t].at = "handler" => frame[t] # Idle /\ frame[t].req = r /\ Assigned(r)
  BY HoldingUse
<1>10. CASE OnPartial(t, r)
  <2>1. Locks(t, r) /\ frame[t].how = "partial" /\ Answer(r, "partial", frame[t].of)
    BY <1>10 DEF OnPartial
  <2>2. PICK f : f = Idle /\ frame' = [frame EXCEPT ![t] = f] /\ frame'[t] = f
    BY <1>1, <1>10 DEF OnPartial, Framed
  <2>3. /\ wire'[r].owner = None /\ wire'[r].option = wire[r].option
        /\ wire'[r].timed_out = wire[r].timed_out /\ wire'[r].dispatch = wire[r].dispatch
        /\ wire'[r].succeeded = wire[r].succeeded
        /\ \A q \in Requests : q # r => wire'[q] = wire[q]
    BY <1>1, <1>7, <1>10, <2>1 DEF OnPartial, Wires
  <2>4. AnswersHeard(r)'
    BY <1>1, <1>6, <1>7, <2>1, AnswerIsHeard DEF RequestFate, Tidings
  <2>5. /\ \A q \in Requests : q # r => answers'[q] = answers[q]
        /\ TimedOut(r)' <=> TimedOut(r)
    BY <1>7, <2>1, AnswerAdds DEF TimedOut
  <2>6. OwnerFate(t, r)' /\ StaysWith(t, r)
    BY <1>1, <2>2, <2>3 DEF OwnerFate, StaysWith
  <2>7. /\ Assigned(r) => wire'[r].option \/ r \in exercised
        /\ TimedOut(r) \/ wire'[r].timed_out => TimedOut(r)'
        /\ TimedOut(r)' => Assigned(r)
    BY <1>1, <2>3, <2>5 DEF RequestFate
  <2> QED
    BY <1>3, <1>5, <1>7, <1>8, <2>1, <2>2, <2>3, <2>4, <2>5, <2>6, <2>7, FateOfHandler
<1>11. CASE OnComplete(t, r)
  <2>1. /\ Locks(t, r) /\ frame[t].how = "complete" /\ Answer(r, "complete", frame[t].of)
        /\ UNCHANGED frame
    BY <1>11 DEF OnComplete, vars
  <2>2. PICK f : f = frame[t] /\ frame' = [frame EXCEPT ![t] = f] /\ frame'[t] = f
    BY <1>1, <2>1
  <2>3. PICK v : v = [wire EXCEPT ![r].armed = FALSE, ![r].owner = t]
    OBVIOUS
  <2>4. /\ v \in [Requests -> Wires] /\ wire' = Follow(v, t, r, "complete")
        /\ v[r].owner = t /\ v[r].option = wire[r].option /\ v[r].dispatch = wire[r].dispatch
        /\ v[r].timed_out = wire[r].timed_out /\ v[r].succeeded = wire[r].succeeded
        /\ \A q \in Requests : q # r => v[q] = wire[q]
    <3>1. v \in [Requests -> Wires]
      BY <1>1, <2>3, WireLockType
    <3> QED
      BY <1>1, <1>11, <2>3, <3>1 DEF OnComplete, Wires
  <2>5. /\ wire'[r].owner = t /\ wire'[r].option = wire[r].option
        /\ wire'[r].timed_out = wire[r].timed_out /\ wire'[r].succeeded = wire[r].succeeded
        /\ wire'[r].dispatch = wire[r].dispatch
        /\ \A q \in Requests : q # r => Passes(q) /\ wire'[q].succeeded = wire[q].succeeded
    <3>1. wire[r].dispatch # "new"
      BY <1>7, <2>1 DEF Assigned
    <3> QED
      BY <2>4, <3>1, FollowFields DEF Passes
  <2>6. AnswersHeard(r)'
    BY <1>1, <1>6, <1>7, <2>1, AnswerIsHeard DEF RequestFate, Tidings
  <2>7. /\ \A q \in Requests : q # r => answers'[q] = answers[q]
        /\ TimedOut(r)' <=> TimedOut(r)
    BY <1>7, <2>1, AnswerAdds DEF TimedOut
  <2>8. OwnerFate(t, r)' /\ StaysWith(t, r)
    BY <1>4, <1>7, <2>1, <2>2 DEF OwnerFate, StaysWith
  <2>9. FrameFate(f)'
    BY <1>1, <1>3, <1>7, <2>1, <2>2 DEF FrameFate
  <2>10. /\ Assigned(r) => wire'[r].option \/ r \in exercised
         /\ TimedOut(r) \/ wire'[r].timed_out => TimedOut(r)'
         /\ TimedOut(r)' => Assigned(r)
    BY <1>1, <2>5, <2>7 DEF RequestFate
  <2> QED
    BY <1>3, <1>7, <2>1, <2>2, <2>5, <2>6, <2>7, <2>8, <2>9, <2>10, FateOfHandler
<1>12. CASE OnTimeout(t, r)
  <2>1. /\ Locks(t, r) /\ frame[t].how = "expired" /\ Answer(r, "timeout", None)
        /\ UNCHANGED frame
    BY <1>12 DEF OnTimeout, vars
  <2>2. PICK f : f = frame[t] /\ frame' = [frame EXCEPT ![t] = f] /\ frame'[t] = f
    BY <1>1, <2>1
  <2>3. PICK v : v = [wire EXCEPT ![r].timed_out = TRUE, ![r].owner = t]
    OBVIOUS
  <2>4. /\ v \in [Requests -> Wires] /\ wire' = Follow(v, t, r, "timeout")
        /\ v[r].owner = t /\ v[r].option = wire[r].option /\ v[r].dispatch = wire[r].dispatch
        /\ v[r].succeeded = wire[r].succeeded
        /\ \A q \in Requests : q # r => v[q] = wire[q]
    <3>1. v \in [Requests -> Wires]
      BY <1>1, <2>3, WireLockType
    <3> QED
      BY <1>1, <1>12, <2>3, <3>1 DEF OnTimeout, Wires
  <2>5. /\ wire'[r].owner = t /\ wire'[r].option = wire[r].option
        /\ wire'[r].succeeded = wire[r].succeeded
        /\ wire'[r].dispatch = wire[r].dispatch
        /\ \A q \in Requests : q # r => Passes(q) /\ wire'[q].succeeded = wire[q].succeeded
    <3>1. wire[r].dispatch # "new"
      BY <1>7, <2>1 DEF Assigned
    <3> QED
      BY <2>4, <3>1, FollowFields DEF Passes
  <2>6. AnswersHeard(r)'
    BY <1>1, <1>6, <2>1, AnswerIsHeard DEF RequestFate
  <2>7. /\ \A q \in Requests : q # r => answers'[q] = answers[q]
        /\ TimedOut(r)'
    BY <2>1, AnswerAdds DEF TimedOut
  <2>8. OwnerFate(t, r)' /\ StaysWith(t, r)
    BY <1>7, <2>1, <2>2, <2>7 DEF OwnerFate, StaysWith
  <2>9. FrameFate(f)'
    BY <1>7, <2>1, <2>2 DEF FrameFate, Tidings
  <2>10. Assigned(r) => wire'[r].option \/ r \in exercised
    BY <1>1, <2>5 DEF RequestFate
  <2> QED
    BY <1>3, <1>7, <2>1, <2>2, <2>5, <2>6, <2>7, <2>8, <2>9, <2>10, FateOfHandler
<1>13. CASE TerminatesClean(t, r)
  <2>1. wire[r].owner = t /\ frame[t].at = "handler" /\ frame[t].how = "complete"
        /\ UNCHANGED <<wire, answers>>
    BY <1>13 DEF TerminatesClean
  <2>2. PICK f : /\ frame' = [frame EXCEPT ![t] = f] /\ frame'[t] = f
                 /\ f = frame[t] \/ f = Exercising(r, "clean")
    BY <1>1, <1>13 DEF TerminatesClean, Framed, Faulty
  <2>3. Has(heard[r], [how |-> "complete", of |-> frame[t].of]) /\ frame[t].of \in Requests
    BY <1>1, <1>9, <2>1 DEF FrameFate, Tidings
  <2>4. FrameFate(f)'
    BY <1>2, <1>3, <1>9, <2>1, <2>2, <2>3 DEF FrameFate
  <2>5. OwnerFate(t, r)' /\ StaysWith(t, r)
    BY <1>2, <1>4, <1>9, <2>1, <2>2 DEF OwnerFate, StaysWith
  <2>6. /\ AnswersHeard(r)' /\ (TimedOut(r)' <=> TimedOut(r))
        /\ Assigned(r) => wire[r].option \/ r \in exercised
        /\ wire[r].timed_out => TimedOut(r)
        /\ TimedOut(r) => Assigned(r)
    BY <1>1, <1>3, <2>1 DEF RequestFate, AnswersHeard, TimedOut, Past
  <2> QED
    BY <1>3, <1>8, <1>9, <2>1, <2>2, <2>4, <2>5, <2>6, FateOfHandler
<1>14. CASE OnError(t, r)
  <2>1. Locks(t, r) /\ answers' = answers /\ frame[t].how \in Tidings
    BY <1>14 DEF OnError, Tidings
  <2>2. PICK f : /\ frame' = [frame EXCEPT ![t] = f] /\ frame'[t] = f
                 /\ f = frame[t] \/ f = Exercising(r, "dirty")
    BY <1>1, <1>14 DEF OnError, Framed, Faulty
  <2>3. /\ wire'[r].owner = t /\ wire'[r].option = wire[r].option
        /\ wire'[r].timed_out = wire[r].timed_out /\ wire'[r].dispatch = wire[r].dispatch
        /\ wire'[r].succeeded = wire[r].succeeded
        /\ \A q \in Requests : q # r => wire'[q] = wire[q]
    BY <1>1, <1>14 DEF OnError, Wires
  <2>4. FrameFate(f)'
    BY <1>1, <1>2, <1>3, <1>7, <2>1, <2>2 DEF FrameFate
  <2>5. OwnerFate(t, r)' /\ StaysWith(t, r)
    BY <1>2, <1>4, <1>7, <2>1, <2>2 DEF OwnerFate, StaysWith, Tidings
  <2>6. /\ AnswersHeard(r)' /\ (TimedOut(r)' <=> TimedOut(r))
        /\ Assigned(r) => wire[r].option \/ r \in exercised
        /\ wire[r].timed_out => TimedOut(r)
        /\ TimedOut(r) => Assigned(r)
    BY <1>1, <1>3, <2>1 DEF RequestFate, AnswersHeard, TimedOut, Past
  <2> QED
    BY <1>3, <1>7, <1>8, <2>1, <2>2, <2>3, <2>4, <2>5, <2>6, FateOfHandler
<1>15. CASE DropsOption(t, r) /\ wire[r].option
  <2>1. /\ wire[r].owner = t /\ frame[t].at = "handler" /\ frame[t].how = "expired"
        /\ UNCHANGED <<wire, answers>>
    BY <1>15 DEF DropsOption
  <2>2. PICK f : /\ frame' = [frame EXCEPT ![t] = f] /\ frame'[t] = f
                 /\ f = Exercising(r, "drop")
    BY <1>1, <1>15 DEF DropsOption, Framed
  <2>3. /\ AnswersHeard(r)' /\ (TimedOut(r)' <=> TimedOut(r))
        /\ Assigned(r) => wire[r].option \/ r \in exercised
        /\ wire[r].timed_out => TimedOut(r)
        /\ TimedOut(r) => Assigned(r)
    BY <1>1, <1>3, <2>1 DEF RequestFate, AnswersHeard, TimedOut, Past
  <2>4. FrameFate(f)'
    BY <1>1, <1>2, <2>1, <2>2, <2>3 DEF FrameFate, OwnerFate
  <2>5. OwnerFate(t, r)' /\ StaysWith(t, r)
    BY <1>2, <1>4, <1>9, <2>1, <2>2 DEF OwnerFate, StaysWith
  <2> QED
    BY <1>3, <1>8, <1>9, <2>1, <2>2, <2>3, <2>4, <2>5, FateOfHandler
<1>16. CASE (DropsOption(t, r) /\ ~wire[r].option) \/ OnTimeoutCancelled(t, r)
  <2>1. /\ frame[t].at = "handler" /\ frame[t].req = r /\ answers' = answers
        /\ frame' = [frame EXCEPT ![t] = Idle]
    BY <1>7, <1>9, <1>16 DEF DropsOption, OnTimeoutCancelled, Framed
  <2>2. PICK f : f = Idle /\ frame' = [frame EXCEPT ![t] = f] /\ frame'[t] = f
    BY <1>1, <2>1
  <2>3. /\ wire'[r].owner = None /\ wire'[r].option = wire[r].option
        /\ wire'[r].timed_out => wire[r].timed_out
        /\ wire'[r].dispatch = wire[r].dispatch /\ wire'[r].succeeded = wire[r].succeeded
        /\ \A q \in Requests : q # r => wire'[q] = wire[q]
    <3>1. CASE DropsOption(t, r) /\ ~wire[r].option
      BY <1>1, <3>1 DEF DropsOption, Wires
    <3>2. CASE OnTimeoutCancelled(t, r)
      BY <1>1, <1>7, <3>2 DEF OnTimeoutCancelled, Wires
    <3> QED
      BY <1>16, <3>1, <3>2
  <2>4. /\ AnswersHeard(r)' /\ (TimedOut(r)' <=> TimedOut(r))
        /\ Assigned(r) => wire[r].option \/ r \in exercised
        /\ wire[r].timed_out => TimedOut(r)
        /\ TimedOut(r) => Assigned(r)
    BY <1>1, <1>3, <2>1 DEF RequestFate, AnswersHeard, TimedOut, Past
  <2>5. OwnerFate(t, r)' /\ StaysWith(t, r)
    BY <1>1, <2>2, <2>3 DEF OwnerFate, StaysWith
  <2> QED
    BY <1>3, <1>5, <1>8, <2>1, <2>2, <2>3, <2>4, <2>5, FateOfHandler
<1>17. CASE Releases(t, r)
  <2>1. frame[t] = Idle /\ wire[r].owner = t /\ answers' = answers
    BY <1>17 DEF Releases
  <2>2. PICK f : f = Idle /\ frame' = [frame EXCEPT ![t] = f] /\ frame'[t] = f
    BY <1>1, <1>17 DEF Releases, vars
  <2>3. /\ wire'[r].owner = None /\ wire'[r].timed_out = wire[r].timed_out
        /\ wire'[r].dispatch = wire[r].dispatch /\ wire'[r].succeeded = wire[r].succeeded
        /\ \A q \in Requests : q # r => wire'[q] = wire[q]
    BY <1>1, <1>17 DEF Releases, Wires
  <2>4. /\ AnswersHeard(r)' /\ (TimedOut(r)' <=> TimedOut(r))
        /\ wire[r].timed_out => TimedOut(r)
        /\ TimedOut(r) => Assigned(r)
    BY <1>1, <1>3, <2>1 DEF RequestFate, AnswersHeard, TimedOut, Past
  <2>5. OwnerFate(t, r)' /\ StaysWith(t, r) /\ r \in exercised
    BY <1>1, <2>1, <2>2, <2>3 DEF OwnerFate, StaysWith
  <2> QED
    BY <1>3, <1>5, <1>8, <2>1, <2>2, <2>3, <2>4, <2>5, FateOfHandler
<1> QED
  BY <1>10, <1>11, <1>12, <1>13, <1>14, <1>15, <1>16, <1>17 DEF Handler

LEMMA FateOfDispatch ==
    ASSUME Types, UseInv, FateInv, NEW t \in Threads, NEW r \in Requests,
           DispatchVia(t, r) \/ Dispatch(t, r)
    PROVE  FateInv'
<1>1. UNCHANGED <<frame, exercised, heard, answers>>
  BY DEF DispatchVia, Dispatch, Delivers, DeliverFails, AssignOption, ArmTimer, Deliver,
         Faulty, vars
<1>2. wire \in [Requests -> Wires] /\ wire[r] \in Wires
  BY DEF Types, DeliveryTypeOK
<1>3. /\ wire'[r].succeeded = wire[r].succeeded
      /\ wire[r].dispatch = "delivered" => wire'[r].option
  <2>1. CASE Delivers(t, r)
    BY <1>2, <2>1 DEF Delivers, Wires
  <2>2. CASE DeliverFails(t, r)
    <3>1. \/ UNCHANGED wire
          \/ wire' = [wire EXCEPT ![r].dispatch = "refused", ![r].by = None]
      BY <2>2 DEF DeliverFails, vars
    <3> QED
      BY <1>2, <2>2, <3>1 DEF DeliverFails, Wires
  <2>3. CASE AssignOption(t, r)
    BY <1>2, <2>3 DEF AssignOption, Wires
  <2>4. CASE ArmTimer(t, r)
    BY <1>2, <2>4 DEF ArmTimer, Wires
  <2>5. CASE DispatchVia(t, r)
    BY <1>2, <2>5 DEF DispatchVia, Wires
  <2> QED
    BY <2>1, <2>2, <2>3, <2>4, <2>5 DEF Dispatch
<1>4. \A q \in Requests : q # r => arrival'[q] = arrival[q]
  <2>1. CASE Delivers(t, r)
    BY <2>1 DEF Delivers, Deliver, Types, PoolTypeOK
  <2>2. CASE ~Delivers(t, r)
    BY <2>2 DEF DispatchVia, Dispatch, DeliverFails, AssignOption, ArmTimer, Faulty, vars, history
  <2> QED
    BY <2>1, <2>2
<1>5. arrival'[r] > 0 => arrival[r] > 0 \/ wire'[r].dispatch = "delivered"
  <2>1. CASE Delivers(t, r)
    BY <1>2, <2>1 DEF Delivers
  <2>2. CASE ~Delivers(t, r)
    BY <2>2 DEF DispatchVia, Dispatch, DeliverFails, AssignOption, ArmTimer, Faulty, vars, history
  <2> QED
    BY <2>1, <2>2
<1>6. \A q \in Requests : /\ TimedOut(q)' <=> TimedOut(q)
                          /\ AnswersHeard(q)' <=> AnswersHeard(q)
  BY <1>1 DEF TimedOut, Past, AnswersHeard
<1>7. ASSUME NEW q \in Requests, q # r
      PROVE  RequestFate(q)'
  <2>1. wire'[q] = wire[q] /\ RequestFate(q)
    BY <1>7, DispatchFields DEF FateInv
  <2> QED
    BY <1>1, <1>4, <1>6, <1>7, <2>1 DEF RequestFate, Assigned
<1>8. RequestFate(r)'
  <2>1. RequestFate(r)
    BY DEF FateInv
  <2>2. arrival'[r] > 0 => wire'[r].dispatch \in {"delivered", "assigned", "done"}
    BY <1>5, <2>1, DispatchFields DEF RequestFate
  <2>3. Assigned(r) => Assigned(r)' /\ wire'[r].option = wire[r].option
    BY DispatchFields DEF Assigned
  <2>4. Assigned(r)' /\ ~Assigned(r) => wire'[r].option
    BY <1>3, DispatchFields DEF Assigned
  <2>5. wire'[r].timed_out = wire[r].timed_out
    BY DispatchFields
  <2> QED
    BY <1>1, <1>3, <1>6, <2>1, <2>2, <2>3, <2>4, <2>5 DEF RequestFate
<1>9. \A q \in Requests : wire'[q].owner = wire[q].owner
  BY DispatchFields
<1> QED
  BY <1>1, <1>7, <1>8, <1>9, FateOfStill

LEMMA FateOfExpire ==
    ASSUME Types, FateInv, NEW r \in Requests, Expire(r)
    PROVE  FateInv'
<1>1. UNCHANGED <<frame, exercised, arrival, heard, answers>>
  BY DEF Expire, vars, history
<1>2. wire \in [Requests -> Wires] /\ wire[r] \in Wires
  BY DEF Types, DeliveryTypeOK
<1>3. \A q \in Requests :
         /\ wire'[q].owner = wire[q].owner /\ wire'[q].timed_out = wire[q].timed_out
         /\ wire'[q].option = wire[q].option /\ wire'[q].dispatch = wire[q].dispatch
         /\ wire'[q].succeeded = wire[q].succeeded
  BY <1>2 DEF Expire, Wires
<1>4. \A q \in Requests : /\ TimedOut(q)' <=> TimedOut(q)
                          /\ AnswersHeard(q)' <=> AnswersHeard(q)
  BY <1>1 DEF TimedOut, Past, AnswersHeard
<1>5. \A q \in Requests : RequestFate(q)'
  BY <1>1, <1>3, <1>4 DEF FateInv, RequestFate, Assigned
<1> QED
  BY <1>1, <1>3, <1>5, FateOfStill

LEMMA FateOfEntry ==
    ASSUME Types, UseInv, FateInv, NEW t \in Threads,
           EnterOnResponse(t) \/ (t \in Workers /\ EnterOnTimeout(t))
    PROVE  FateInv'
<1>0. /\ wire \in [Requests -> Wires] /\ frame \in [Threads -> DeliveryFrames]
      /\ due \in Seq(Due)
  BY DueTypes DEF Types, DeliveryTypeOK
<1>1. UNCHANGED <<exercised, arrival, wire, answers>>
  BY DEF EnterOnResponse, EnterOnTimeout, EnterHandler, Framed, Faulty, history
<1>2. \A q \in Requests : RequestFate(q) /\ Undecided(q)
  BY <1>1 DEF FateInv, Undecided, Leaves, Passes
<1>3. CASE UNCHANGED <<frame, heard>>
  <2>1. \A q \in Requests : RequestFate(q)'
    BY <1>2, <1>3, UndecidedFate DEF HeardStays
  <2> QED
    BY <1>1, <1>3, <2>1, FateOfStill
<1>4. CASE EnterOnResponse(t) /\ EnterHandler(t)
  <2>1. PICK r \in Requests : r = frame[t].req
    BY <1>4, FrameRequest DEF EnterHandler
  <2>2. PICK x, n, f : EntersAs(t, x, n, f)
    <3>1. frame[t] \in Frames
      BY <1>0, <1>4, DeliveryFrameKinds DEF EnterHandler
    <3> QED
      BY <1>4, <3>1, EnterHandlerAs
  <2>3. /\ frame' = [frame EXCEPT ![t] = f] /\ frame'[t] = f
        /\ frame[t].at = "calling" /\ frame[t] # Idle
    <3>1. frame[t].at = "calling"
      BY <1>4 DEF EnterHandler
    <3> QED
      BY <1>0, <2>2, <3>1 DEF EntersAs, Idle
  <2>4. /\ f.at = "handler" /\ f.req = r /\ f.how = n.how /\ f.of = n.of
        /\ f.how \in Tidings /\ f.of \in Requests \cup {None}
    BY <2>1, <2>2 DEF EntersAs, News
  <2>5. n = [how |-> f.how, of |-> f.of]
    BY <2>2, <2>4 DEF EntersAs, News
  <2>6. /\ n \in News /\ heard \in [Requests -> Seq(News)] /\ heard[r] \in Seq(News)
        /\ heard' = [heard EXCEPT ![r] = Append(heard[r], n)]
    BY <2>1, <2>2 DEF EntersAs, Types, PoolTypeOK
  <2>7. HeardStays /\ Has(heard'[r], n)
    <3>1. \A m : Has(heard'[r], m) <=> Has(heard[r], m) \/ m = n
      BY <2>6, HasAppend
    <3> QED
      BY <2>6, <3>1 DEF HeardStays
  <2>8. RequestFate(r)' /\ (TimedOut(r) => TimedOut(r)')
    BY <1>2, <2>7, UndecidedFate
  <2>9. FrameFate(f)'
    <3>1. FrameFate(frame[t])
      BY DEF FateInv
    <3>2. f.how = "complete" => frame[t].how = "complete" /\ f.of = frame[t].of
      BY <2>2, <2>4 DEF EntersAs
    <3>3. f.how = "complete" => f.of \in Requests
      BY <2>3, <3>1, <3>2 DEF FrameFate
    <3>4. Has(heard'[f.req], [how |-> f.how, of |-> f.of])
      BY <2>4, <2>5, <2>7
    <3> QED
      BY <2>4, <3>3, <3>4 DEF FrameFate
  <2>10. OwnerFate(t, r)' /\ StaysWith(t, r)
    BY <2>1, <2>3, <2>4 DEF OwnerFate, StaysWith, Tidings, Idle
  <2>11. wire'[r].owner = wire[r].owner
    BY <1>1
  <2> QED
    BY <1>1, <1>2, <2>1, <2>3, <2>4, <2>7, <2>8, <2>9, <2>10, <2>11, FateKept
<1>5. CASE t \in Workers /\ EnterOnTimeout(t) /\ ~UNCHANGED <<frame, heard>>
  <2>1. due # <<>> /\ frame[t] = Idle /\ Free(t) /\ heard' = heard
    BY <1>5 DEF EnterOnTimeout, AtRest, Framed, Faulty
  <2>2. PICK d : d = Head(due)
    OBVIOUS
  <2>3. d \in Due
    BY <1>0, <2>1, <2>2, HeadTailProperties, EmptySeq
  <2>4. PICK r \in Requests : r = d.req
    BY <2>3 DEF Due
  <2>5. PICK f : /\ frame' = [frame EXCEPT ![t] = f] /\ frame'[t] = f
                 /\ f = [at |-> "handler", req |-> r, how |-> d.how, of |-> None]
    BY <1>0, <1>5, <2>1, <2>2, <2>4 DEF EnterOnTimeout, Framed, Faulty
  <2>6. f.at = "handler" /\ f.req = r /\ f.how \in Endings /\ wire[r].owner # t
    BY <2>1, <2>3, <2>5 DEF Due, Free
  <2>7. HeardStays
    BY <2>1 DEF HeardStays
  <2>8. RequestFate(r)' /\ (TimedOut(r) => TimedOut(r)')
    BY <1>2, <2>7, UndecidedFate
  <2>9. FrameFate(f)'
    BY <2>6 DEF FrameFate, Endings, Tidings
  <2>10. OwnerFate(t, r)' /\ StaysWith(t, r)
    BY <1>1, <2>1, <2>5, <2>6 DEF OwnerFate, StaysWith
  <2>11. wire'[r].owner = wire[r].owner
    BY <1>1
  <2> QED
    BY <1>1, <1>2, <2>1, <2>5, <2>6, <2>7, <2>8, <2>9, <2>10, <2>11, FateKept
<1>6. EnterOnResponse(t) /\ ~EnterHandler(t) => UNCHANGED <<frame, heard>>
  BY DEF EnterOnResponse, Faulty
<1> QED
  BY <1>3, <1>4, <1>5, <1>6

LEMMA FateOfExercise ==
    ASSUME Types, UseInv, FateInv, NEW t \in Threads, Exercise(t)
    PROVE  FateInv'
<1>1. /\ frame[t].at \in {"check", "advance", "cancel"} /\ frame[t] # Idle
      /\ \/ ExerciseActive(t) \/ ExerciseQueued(t) \/ ExerciseFaults(t)
         \/ ExerciseAdvances(t) \/ ExerciseCancels(t)
  BY ExerciseFrames DEF Exercise, Idle
<1>2. PICK r \in Requests : r = frame[t].req
  BY <1>1, FrameRequest DEF Idle
<1>3. PICK f : /\ frame' = [frame EXCEPT ![t] = f] /\ frame'[t] = f
               /\ \/ f = Idle
                  \/ /\ f # Idle /\ f.at \in {"check", "advance", "cancel"}
                     /\ f.req = r /\ f.how = frame[t].how
  BY <1>1, <1>2, ExerciseFrames
<1>4. /\ RequestFate(r) /\ FrameFate(frame[t]) /\ OwnerFate(t, r)
      /\ wire[r].owner = t /\ Assigned(r)
      /\ wire \in [Requests -> Wires] /\ wire[r] \in Wires
  <2>1. ThreadUse(t) /\ UsedBy(t, r) /\ Exercises(t, r)
    BY <1>1, <1>2 DEF UseInv, Exercises
  <2> QED
    BY <1>1, <1>2, <2>1 DEF FateInv, UsedBy, ThreadUse, Types, DeliveryTypeOK
<1>5. StaysWith(t, r) /\ UNCHANGED <<arrival, heard>>
  BY <1>1, <1>2, <1>3
     DEF StaysWith, ExerciseActive, ExerciseQueued, ExerciseFaults, ExerciseAdvances,
         ExerciseCancels, history
<1>6. /\ exercised' = exercised \/ exercised' = exercised \cup {r}
      /\ frame'[t] = Idle => r \in exercised'
  <2>1. \/ exercised' = exercised
        \/ exercised' = exercised \cup {r}
    BY <1>1, <1>2 DEF ExerciseActive, ExerciseQueued, ExerciseFaults, ExerciseAdvances,
                      ExerciseCancels
  <2>2. CASE ExerciseQueued(t) \/ (ExerciseCancels(t) /\ io.open)
    BY <1>2, <2>2 DEF ExerciseQueued, ExerciseCancels
  <2>3. CASE ExerciseFaults(t) \/ (ExerciseCancels(t) /\ ~io.open)
    BY <1>1, <2>1, <2>3 DEF ExerciseFaults, ExerciseCancels
  <2>4. CASE ExerciseActive(t) \/ ExerciseAdvances(t)
    <3>1. \E at \in {"advance", "cancel"} : frame' = [frame EXCEPT ![t].at = at]
      BY <2>4 DEF ExerciseActive, ExerciseAdvances
    <3>2. frame[t] \in Frames /\ frame \in [Threads -> DeliveryFrames]
      BY <1>1, DeliveryFrameKinds DEF Types, DeliveryTypeOK
    <3>3. PICK at \in {"advance", "cancel"} : frame'[t] = [frame[t] EXCEPT !.at = at]
      BY <3>1, <3>2
    <3>4. frame'[t].at = at
      BY <1>1, <3>2, <3>3 DEF Frames, Idle
    <3> QED
      BY <2>1, <3>4 DEF Idle
  <2> QED
    BY <1>1, <2>1, <2>2, <2>3, <2>4
<1>7. Idle.at = "idle"
  BY DEF Idle
<1>8. HeardStays
  BY <1>5 DEF HeardStays
<1>9. /\ \A q \in Requests : q # r =>
            Passes(q) /\ wire'[q].succeeded = wire[q].succeeded /\ answers'[q] = answers[q]
      /\ wire'[r].dispatch = wire[r].dispatch
      /\ wire'[r].timed_out = wire[r].timed_out
      /\ AnswersHeard(r)' /\ (TimedOut(r)' <=> TimedOut(r))
      /\ \/ /\ wire'[r].option = wire[r].option /\ wire'[r].owner = t
            /\ wire'[r].succeeded = wire[r].succeeded
         \/ frame'[t] = Idle /\ wire'[r].owner = None
  <2>0. AnswersHeard(r)
    BY <1>4 DEF RequestFate
  <2>1. CASE UNCHANGED <<wire, answers>>
    <3>1. AnswersHeard(r)' /\ (TimedOut(r)' <=> TimedOut(r))
      BY <1>5, <2>0, <2>1 DEF AnswersHeard, TimedOut, Past
    <3> QED
      BY <1>4, <2>1, <3>1 DEF Passes
  <2>2. CASE wire' = Follow(wire, t, r, "failed") /\ Answer(r, "failed", None)
    <3>1. AnswersHeard(r)'
      BY <1>8, <2>0, <2>2, AnswerIsHeard
    <3>2. /\ \A q \in Requests : q # r => answers'[q] = answers[q]
          /\ TimedOut(r)' <=> TimedOut(r)
      BY <2>2, AnswerAdds DEF TimedOut
    <3>3. /\ \A q \in Requests : Passes(q) /\ wire'[q].succeeded = wire[q].succeeded
          /\ wire'[r].dispatch = wire[r].dispatch
          /\ wire'[r].timed_out = wire[r].timed_out
          /\ wire'[r].option = wire[r].option /\ wire'[r].owner = t
      BY <1>4, <2>2, FollowFields DEF Passes, Assigned
    <3> QED
      BY <3>1, <3>2, <3>3
  <2>3. CASE frame'[t] = Idle /\ Exercised(t, r, frame[t].how) /\ frame[t].how # "dirty"
    <3>1. PICK b : b = (wire[r].succeeded \/ frame[t].how = "clean")
      OBVIOUS
    <3>2. /\ wire' = [wire EXCEPT ![r].option = FALSE, ![r].owner = None, ![r].succeeded = b]
          /\ answers' = answers
      BY <2>3, <3>1 DEF Exercised
    <3>3. AnswersHeard(r)' /\ (TimedOut(r)' <=> TimedOut(r))
      BY <1>5, <2>0, <3>2 DEF AnswersHeard, TimedOut, Past
    <3> QED
      BY <1>4, <2>3, <3>2, <3>3 DEF Wires, Passes
  <2> QED
    BY <1>2, <2>1, <2>2, <2>3 DEF Exercise, Exercised
<1>10. RequestFate(r)'
  BY <1>4, <1>5, <1>6, <1>9 DEF RequestFate, Assigned
<1>11. FrameFate(f)'
  BY <1>1, <1>2, <1>3, <1>4, <1>5, <1>7, <1>9 DEF FrameFate
<1>12. OwnerFate(t, r)'
  BY <1>3, <1>6, <1>7 DEF OwnerFate
<1>13. \A q \in Requests : q # r => Undecided(q)
  BY <1>5, <1>6, <1>9 DEF Undecided, Leaves
<1> QED
  BY <1>2, <1>3, <1>5, <1>6, <1>8, <1>9, <1>10, <1>11, <1>12, <1>13, FateKept

\* A step of the transport alone: a thread that holds no request may come to call one.
LEMMA FateOfTransport ==
    ASSUME Types, Types', UseInv, FateInv,
           UNCHANGED <<wire, due, answers, exercised, arrival, heard>>,
           \/ UNCHANGED frame
           \/ \E t \in Threads : \E r, news :
                 /\ frame[t] = Idle /\ Free(t) /\ frame' = [frame EXCEPT ![t] = Calling(r, news)]
                 /\ news.how = "complete" => news.of \in Requests
    PROVE  FateInv'
<1>1. HeardStays /\ \A q \in Requests : RequestFate(q) /\ Undecided(q)
  BY DEF FateInv, Undecided, Leaves, Passes, HeardStays
<1>2. \A q \in Requests : RequestFate(q)' /\ (TimedOut(q) => TimedOut(q)')
  BY <1>1, UndecidedFate
<1>3. CASE UNCHANGED frame
  BY <1>2, <1>3, FateOfStill
<1>4. ASSUME NEW t \in Threads, NEW p, NEW news,
             frame[t] = Idle, Free(t), frame' = [frame EXCEPT ![t] = Calling(p, news)],
             news.how = "complete" => news.of \in Requests
      PROVE  FateInv'
  <2>1. PICK f : f = Calling(p, news) /\ frame' = [frame EXCEPT ![t] = f] /\ frame'[t] = f
    BY <1>4 DEF Types, DeliveryTypeOK
  <2>2. f.at = "calling" /\ f.req = p /\ f.how = news.how /\ f.of = news.of
    BY <2>1 DEF Calling
  <2>3. p \in Requests
    <3>1. frame'[t] \in DeliveryFrames
      BY DEF Types, DeliveryTypeOK
    <3> QED
      BY <2>1, <2>2, <3>1 DEF DeliveryFrames, Frames, Idle
  <2>4. PICK r \in Requests : r = p
    BY <2>3
  <2>5. wire[r].owner # t
    BY <1>4 DEF Free
  <2>6. FrameFate(f)'
    BY <1>4, <2>2 DEF FrameFate
  <2>7. OwnerFate(t, r)' /\ StaysWith(t, r)
    BY <1>4, <2>1, <2>2, <2>4, <2>5 DEF OwnerFate, StaysWith
  <2>8. wire'[r].owner = wire[r].owner
    OBVIOUS
  <2> QED
    BY <1>1, <1>2, <1>4, <2>1, <2>6, <2>7, <2>8, FateKept
<1> QED
  BY <1>3, <1>4

\* Of what the transport calls a handler with, the end of a reply is that of a request.
LEMMA RepliesAreOfRequests ==
    ASSUME Types, NEW w \in Workers, RunsHandler(w)
    PROVE  /\ UNCHANGED heard
           /\ \/ UNCHANGED frame
              \/ \E r, news : /\ frame' = [frame EXCEPT ![w] = Calling(r, news)]
                              /\ news.how = "complete" => news.of \in Requests
<1>1. ASSUME NEW i \in DOMAIN io.ready, OnWrite(w, i) \/ OnRead(w, i)
      PROVE  \/ UNCHANGED frame
             \/ \E r, news : /\ frame' = [frame EXCEPT ![w] = Calling(r, news)]
                             /\ news.how = "complete" => news.of \in Requests
  <2>1. PICK c : c = io.ready[i]
    OBVIOUS
  <2>2. c \in Completions
    BY <2>1, SeqElements DEF Types, PoolTypeOK, IoTypes
  <2>3. NewsOf(c).how = "complete" => NewsOf(c).of \in Requests
    <3>1. NewsOf(c).of = c.segment.of
      BY DEF NewsOf
    <3>2. NewsOf(c).how = "complete" => c.segment.last
      BY <2>2 DEF NewsOf, Completions, Errors, Segments, NoSegment
    <3> QED
      BY <2>2, <3>1, <3>2 DEF Completions, Segments, NoSegment
  <2>4. UNCHANGED frame \/ frame' = [frame EXCEPT ![w] = Calling(c.req, NewsOf(c))]
    BY <1>1, <2>1 DEF OnWrite, OnRead, Superseded, HandleSocketError
  <2> QED
    BY <2>3, <2>4
<1>2. UNCHANGED heard
  BY DEF RunsHandler, OnWrite, OnRead, DequeueThreadSafely, RunsOnFreedPool
<1> QED
  BY <1>1, <1>2 DEF RunsHandler, DequeueThreadSafely, RunsOnFreedPool

LEMMA FateStep ==
    ASSUME Types, Types', UseInv, FateInv, [DeliveryNext]_deliveryVars
    PROVE  FateInv'
<1>1. ASSUME NEW t \in Threads, Proceeds(t)
      PROVE  FateInv'
  BY <1>1, FateOfHandlers, FateOfDispatch, FateOfEntry, FateOfExercise DEF Proceeds
<1>2. ASSUME NEW t \in Callers, NEW r \in Requests, DispatchVia(t, r)
      PROVE  FateInv'
  BY <1>2, FateOfDispatch DEF Threads
<1>3. ASSUME NEW r \in Requests, Expire(r)
      PROVE  FateInv'
  BY <1>3, FateOfExpire
<1>4. ASSUME NEW w \in Workers, Works(w)
      PROVE  FateInv'
  <2>1. w \in Threads
    BY DEF Threads
  <2>2. CASE EnterOnTimeout(w)
    BY <2>1, <2>2, FateOfEntry
  <2>3. CASE Free(w) /\ Transports(RunsHandler(w))
    BY <2>1, <2>3, HandlersCall, RepliesAreOfRequests, FateOfTransport DEF Transports
  <2> QED
    BY <1>4, <2>2, <2>3 DEF Works
<1>5. CASE \/ Transports(Destroy /\ Free(Destroyer)) \/ Destructs
           \/ Transports(WakesSpuriously)
  <2>1. /\ UNCHANGED <<wire, due, answers, heard>> /\ (Destroy \/ DestructorStep \/ WakesSpuriously)
        /\ DestructorStep => Free(Destroyer)
    BY <1>5 DEF Transports, Destructs, Destroy, DestructorStep, TellPending, AwaitDequeued,
                Drained, WakesSpuriously
  <2>2. UNCHANGED <<exercised, arrival>>
    BY <2>1, DestructionCalls
  <2>3. CASE UNCHANGED frame
    BY <2>1, <2>2, <2>3, FateOfTransport
  <2>4. CASE ~UNCHANGED frame
    <3>1. Destroyer \in Threads
      <4>1. Destroyer \in Threads \/ (Destroyer = None /\ None \notin Threads)
        BY SchedulerAssumption DEF Threads
      <4> QED
        BY <2>1, <2>4, <4>1, NobodyDestroys
    <3>2. TellPending
      BY <2>1, <2>4 DEF Destroy, DestructorStep, AwaitDequeued, Drained, WakesSpuriously
    <3>3. /\ frame[Destroyer] = Idle /\ Free(Destroyer)
          /\ frame' = [frame EXCEPT ![Destroyer] = Calling(Head(untold), Reset)]
          /\ Reset.how # "complete"
      BY <2>1, <3>2 DEF TellPending, DestructorStep, Reset
    <3> QED
      BY <2>1, <2>2, <3>1, <3>3, FateOfTransport
  <2> QED
    BY <2>3, <2>4
<1>6. CASE \/ Transports(Outside(WriteCompletes)) \/ Transports(Outside(WriteGoesNowhere))
           \/ Transports(Outside(ReadCompletes)) \/ Transports(Outside(ReadFails))
           \/ Transports(Outside(NodeReplies)) \/ Transports(Outside(PeerResets))
  <2>1. UNCHANGED <<frame, wire, due, answers, heard, exercised, arrival>>
    BY <1>6 DEF Transports, Outside, Rest, history
  <2> QED
    BY <2>1, FateOfTransport
<1>7. CASE UNCHANGED deliveryVars
  <2>1. UNCHANGED <<frame, wire, due, answers, heard, exercised, arrival>>
    BY <1>7 DEF deliveryVars, vars, history
  <2> QED
    BY <2>1, FateOfTransport
<1> QED
  BY <1>1, <1>2, <1>3, <1>4, <1>5, <1>6, <1>7 DEF DeliveryNext

LEMMA FateInit ==
    ASSUME DeliveryInit
    PROVE  FateInv
<1>1. None \notin Threads
  BY SchedulerAssumption DEF Threads
<1>2. \A r \in Requests : RequestFate(r)
  BY DEF DeliveryInit, Init, RequestFate, Assigned, TimedOut, Past, AnswersHeard
<1>3. \A t \in Threads : FrameFate(frame[t])
  BY IdleFate DEF DeliveryInit, Init
<1>4. \A t \in Threads, r \in Requests : OwnerFate(t, r)
  BY <1>1 DEF DeliveryInit, OwnerFate
<1> QED
  BY <1>2, <1>3, <1>4 DEF FateInv

-----------------------------------------------------------------------------
\* A program that has died does nothing.
LEMMA Halted ==
    ASSUME ~Running, [DeliveryNext]_deliveryVars
    PROVE  UNCHANGED deliveryVars
<1>1. ASSUME NEW t \in Threads, Proceeds(t)
      PROVE  FALSE
  BY <1>1 DEF Proceeds, Handler, OnPartial, OnComplete, TerminatesClean, OnError, OnTimeout,
              DropsOption, OnTimeoutCancelled, Releases, Locks, Dispatch, Delivers, Deliver,
              DeliverFails, AssignOption, ArmTimer, EnterOnResponse, EnterHandler, Exercise,
              ExerciseActive, ExerciseQueued, ExerciseFaults, ExerciseAdvances, ExerciseCancels,
              ReadsPool
<1>2. \A w \in Workers : ~Works(w)
  BY DEF Works, Transports, RunsHandler, OnWrite, OnRead, DequeueThreadSafely, RunsOnFreedPool,
         CanRun, EnterOnTimeout
<1>3. ~Destroy /\ ~DestructorStep /\ ~WakesSpuriously
  BY DEF Destroy, DestructorStep, TellPending, AwaitDequeued, Drained, WakesSpuriously
<1>4. ASSUME NEW A, Outside(A)
      PROVE  FALSE
  BY <1>4 DEF Outside
<1> QED
  BY <1>1, <1>2, <1>3, <1>4 DEF DeliveryNext, DispatchVia, Expire, Transports, Destructs, Outside

\* What a step adds to the calls of the callbacks.
LEMMA AnswersGrow ==
    ASSUME Types, [DeliveryNext]_deliveryVars
    PROVE  \/ UNCHANGED answers
           \/ \E r \in Requests : \E how \in {"partial", "complete", "failed", "timeout"} :
                 \E of \in Requests \cup {None} : Answer(r, how, of)
<1>0. frame \in [Threads -> DeliveryFrames]
  BY DEF Types, DeliveryTypeOK
<1>1. ASSUME NEW t \in Threads, NEW r \in Requests, Handler(t, r) \/ Dispatch(t, r)
      PROVE  \/ UNCHANGED answers
             \/ \E how \in {"partial", "complete", "failed", "timeout"} :
                   \E of \in Requests \cup {None} : Answer(r, how, of)
  <2>1. CASE OnPartial(t, r) \/ OnComplete(t, r)
    <3>1. frame[t].of \in Requests \cup {None}
      BY <1>0, <2>1, DeliveryFrameKinds DEF OnPartial, OnComplete, Locks
    <3> QED
      BY <2>1, <3>1 DEF OnPartial, OnComplete
  <2>2. CASE OnTimeout(t, r)
    BY <2>2 DEF OnTimeout
  <2> QED
    BY <1>1, <2>1, <2>2
       DEF Handler, TerminatesClean, OnError, DropsOption, OnTimeoutCancelled, Releases,
           Dispatch, Delivers, DeliverFails, AssignOption, ArmTimer
<1>2. ASSUME NEW t \in Threads, Exercise(t)
      PROVE  UNCHANGED answers \/ \E r \in Requests : Answer(r, "failed", None)
  <2>1. frame[t].req \in Requests
    BY <1>2, ExerciseFrames, FrameRequest DEF Exercise
  <2> QED
    BY <1>2, <2>1 DEF Exercise, Exercised
<1>3. ASSUME NEW t \in Threads, EnterOnResponse(t) \/ EnterOnTimeout(t)
      PROVE  UNCHANGED answers
  BY <1>3 DEF EnterOnResponse, EnterOnTimeout
<1>4. ASSUME NEW t \in Threads, Proceeds(t)
      PROVE  \/ UNCHANGED answers
             \/ \E r \in Requests : \E how \in {"partial", "complete", "failed", "timeout"} :
                   \E of \in Requests \cup {None} : Answer(r, how, of)
  BY <1>1, <1>2, <1>3, <1>4 DEF Proceeds
<1>5. ASSUME NEW w \in Workers, Works(w)
      PROVE  UNCHANGED answers
  BY <1>5 DEF Works, Transports, EnterOnTimeout
<1>6. ASSUME NEW t \in Callers, NEW r \in Requests, DispatchVia(t, r)
      PROVE  UNCHANGED answers
  BY <1>6 DEF DispatchVia
<1>7. ASSUME NEW r \in Requests, Expire(r)
      PROVE  UNCHANGED answers
  BY <1>7 DEF Expire
<1>8. UNCHANGED deliveryVars => UNCHANGED answers
  BY DEF deliveryVars
<1> QED
  BY <1>4, <1>5, <1>6, <1>7, <1>8 DEF DeliveryNext, Destructs, Transports

LEMMA TimedOutStays ==
    ASSUME Types, [DeliveryNext]_deliveryVars, NEW r \in Requests, TimedOut(r)
    PROVE  TimedOut(r)'
<1>1. CASE UNCHANGED answers
  BY <1>1 DEF TimedOut, Past
<1>2. ASSUME NEW q \in Requests, NEW how \in {"partial", "complete", "failed", "timeout"},
             NEW of \in Requests \cup {None}, Answer(q, how, of)
      PROVE  TimedOut(r)'
  <2>1. CASE q = r
    BY <1>2, <2>1, AnswerAdds DEF TimedOut
  <2>2. CASE q # r
    <3>1. answers'[r] = answers[r]
      BY <1>2, <2>2, AnswerAdds
    <3> QED
      BY <3>1 DEF TimedOut, Past
  <2> QED
    BY <2>1, <2>2
<1> QED
  BY <1>1, <1>2, AnswersGrow

LEMMA ShutdownStays ==
    ASSUME shutting_down, [DeliveryNext]_deliveryVars
    PROVE  shutting_down'
<1>1. ASSUME NEW t \in Threads, Proceeds(t)
      PROVE  UNCHANGED shutting_down
  <2>1. ASSUME NEW r \in Requests, Handler(t, r) \/ Dispatch(t, r)
        PROVE  UNCHANGED shutting_down
    BY <2>1 DEF Handler, OnPartial, OnComplete, TerminatesClean, OnError, OnTimeout,
                DropsOption, OnTimeoutCancelled, Releases, Framed, Faulty, vars,
                Dispatch, Delivers, Deliver, DeliverFails, AssignOption, ArmTimer
  <2>2. EnterOnResponse(t) \/ Exercise(t) => UNCHANGED shutting_down
    BY DEF EnterOnResponse, EnterHandler, Faulty, Exercise, ExerciseActive, ExerciseQueued,
           ExerciseFaults, ExerciseAdvances, ExerciseCancels
  <2> QED
    BY <1>1, <2>1, <2>2 DEF Proceeds
<1>2. ASSUME NEW w \in Workers, Works(w)
      PROVE  UNCHANGED shutting_down
  BY <1>2 DEF Works, Transports, RunsHandler, OnWrite, OnRead, DequeueThreadSafely,
              RunsOnFreedPool, EnterOnTimeout, Framed, Faulty
<1>3. CASE \/ Transports(Destroy /\ Free(Destroyer)) \/ Destructs
           \/ Transports(WakesSpuriously)
  BY <1>3 DEF Transports, Destructs, Destroy, DestructorStep, TellPending, AwaitDequeued,
              Drained, WakesSpuriously
<1>4. CASE \/ Transports(Outside(WriteCompletes)) \/ Transports(Outside(WriteGoesNowhere))
           \/ Transports(Outside(ReadCompletes)) \/ Transports(Outside(ReadFails))
           \/ Transports(Outside(NodeReplies)) \/ Transports(Outside(PeerResets))
  BY <1>4 DEF Transports, Outside, Rest
<1>5. ASSUME NEW t \in Callers, NEW r \in Requests, DispatchVia(t, r)
      PROVE  UNCHANGED shutting_down
  BY <1>5 DEF DispatchVia, vars
<1>6. ASSUME NEW r \in Requests, Expire(r)
      PROVE  UNCHANGED shutting_down
  BY <1>6 DEF Expire, vars
<1>7. UNCHANGED deliveryVars => UNCHANGED shutting_down
  BY DEF deliveryVars, vars
<1> QED
  BY <1>1, <1>2, <1>3, <1>4, <1>5, <1>6, <1>7 DEF DeliveryNext

-----------------------------------------------------------------------------
(***************************************************************************)
(* As long as no request timed out and nobody destroys the transport, the  *)
(* one worker goes from request to request as SchedulerRepliesProofs shows *)
(* of callers that do not give up.                                         *)
(***************************************************************************)
Peaceful == ~shutting_down /\ \A r \in Requests : ~TimedOut(r)

PeaceInv(w) == Peaceful /\ Running => Proved!Serial(w)

LEMMA PeaceStep ==
    ASSUME NEW w, Workers = {w}, MaxConnectFailures = 0,
           Types, UseInv, FateInv, dtor # "alive" => Destroyer # None,
           Proved!TypeOK, Proved!TypeOK', Proved!Replies, Proved!Sole(io),
           PeaceInv(w), Running, [DeliveryNext]_deliveryVars, Peaceful'
    PROVE  Peaceful /\ Proved!Serial(w) /\ Proved!Serial(w)' /\ Broken' = Broken
<1>1. Peaceful
  BY TimedOutStays, ShutdownStays DEF Peaceful
<1>2. Proved!Serial(w)
  BY <1>1 DEF PeaceInv
<1>3. TransportStep
  BY StepIsTransports
<1>4. ~GivesUp
  <2> SUFFICES ASSUME NEW t \in Threads, NEW r \in Requests, DropsOption(t, r)
               PROVE  FALSE
    BY DEF GivesUp
  <2>1. OwnerFate(t, r)
    BY DEF FateInv
  <2> QED
    BY <1>1, <2>1 DEF DropsOption, OwnerFate, Peaceful
<1>5. ~Transport!Destroy
  BY DEF Transport!Destroy, Peaceful
<1>6. [Proved!Patient]_(Proved!vars)
  BY <1>3, <1>4, <1>5, ProvedSteps DEF TransportStep
<1> QED
  BY <1>1, <1>2, <1>6, ProvedAssumptions, Proved!SerialStep

\* A handler that the transport called is one of the active request, whose option is there.
LEMMA InPlace ==
    ASSUME NEW w, Proved!Serial(w), NEW t \in Threads,
           frame[t].at \in {"calling", "handler"}, frame[t].how \in Tidings
    PROVE  frame[t].req = active /\ frame[t].req \notin exercised
<1>1. Seen[t] = frame[t]
  BY SeenOf DEF Tidings, Endings
<1>2. Seen[t].at # "idle"
  BY <1>1
<1>3. t = w
  BY <1>2, ProvedAssumptions, Proved!OnlyWorker DEF Threads, Proved!Threads
<1> QED
  BY <1>1, <1>3 DEF Proved!Serial, Proved!Placed

Provoked ==
    \/ shutting_down
    \/ \E r \in Requests : TimedOut(r)
    \/ \E r \in Requests : wire[r].dispatch = "delivered"

\* In peace the only fault is that of a response which overtook the return of deliver.
LEMMA PeaceIsKept ==
    ASSUME NEW w, Workers = {w}, Types, UseInv, FateInv,
           Proved!TypeOK, Proved!Replies, Proved!Serial(w), Peaceful, Running,
           [DeliveryNext]_deliveryVars, Broken' = Broken
    PROVE  Running' \/ Provoked'
<1>0. /\ wire \in [Requests -> Wires] /\ frame \in [Threads -> DeliveryFrames]
      /\ \A r \in Requests : RequestFate(r) /\ RequestUse(r)
  BY DEF Types, DeliveryTypeOK, FateInv, UseInv
<1>1. fault' \in Faults => Running'
  BY BrokenOf DEF Running
<1>2. fault = "none" /\ "none" \in Faults
  BY DEF Running, Faults
<1>3. ASSUME NEW t \in Threads, NEW r \in Requests, Handler(t, r)
      PROVE  Running' \/ Provoked'
  <2>1. wire[r].owner = t /\ frame[t].at = "handler" => frame[t].req = r /\ Assigned(r)
    BY HoldingUse
  <2>2. Locks(t, r) => frame[t].at = "handler" /\ frame[t].req = r /\ Assigned(r)
    BY LockedUse
  <2>3. ASSUME frame[t].at = "handler", frame[t].req = r, Assigned(r), frame[t].how \in Tidings
        PROVE  wire[r].option
    BY <1>0, <2>3, InPlace DEF RequestFate
  <2>4. CASE TerminatesClean(t, r)
    <3>1. wire[r].option
      BY <2>1, <2>3, <2>4 DEF TerminatesClean, Tidings
    <3> QED
      BY <1>1, <1>2, <2>4, <3>1 DEF TerminatesClean, Framed
  <2>5. CASE OnError(t, r)
    <3>1. wire[r].option
      BY <2>2, <2>3, <2>5 DEF OnError, Tidings
    <3> QED
      BY <1>1, <1>2, <2>5, <3>1 DEF OnError, Framed
  <2> QED
    BY <1>1, <1>2, <1>3, <2>4, <2>5
       DEF Handler, OnPartial, OnComplete, OnTimeout, DropsOption, OnTimeoutCancelled,
           Releases, Framed, vars
<1>4. ASSUME NEW t \in Threads, NEW r \in Requests, Dispatch(t, r)
      PROVE  Running' \/ Provoked'
  <2>1. CASE DeliverFails(t, r)
    BY <2>1 DEF DeliverFails, Peaceful
  <2> QED
    BY <1>1, <1>2, <1>4, <2>1 DEF Dispatch, Delivers, Deliver, AssignOption, ArmTimer, vars
<1>5. ASSUME NEW t \in Threads, EnterOnResponse(t)
      PROVE  Running' \/ Provoked'
  <2>1. CASE EnterHandler(t)
    BY <1>1, <1>2, <2>1 DEF EnterHandler
  <2>2. CASE ~EnterHandler(t)
    <3>1. PICK r \in Requests : r = frame[t].req
      BY <1>5, FrameRequest DEF EnterOnResponse
    <3>2. /\ frame[t].at = "calling" /\ ~(~wire[r].succeeded /\ wire[r].option)
          /\ UNCHANGED wire
      BY <1>5, <2>2, <3>1 DEF EnterOnResponse
    <3>3. frame[t].how \in Tidings
      <4>1. frame[t] \in Frames
        BY <1>0, <3>2, DeliveryFrameKinds
      <4> QED
        BY <3>2, <4>1 DEF Frames, Idle
    <3>4. r = active /\ r \notin exercised
      BY <3>1, <3>2, <3>3, InPlace
    <3>5. arrival[r] > 0
      BY <3>4, SocketAssumption, ProvedAssumptions, Proved!ActiveStarted
    <3>6. wire[r].dispatch = "delivered"
      BY <1>0, <3>2, <3>4, <3>5 DEF RequestFate, Assigned
    <3> QED
      BY <3>2, <3>6 DEF Provoked
  <2> QED
    BY <2>1, <2>2
<1>6. ASSUME NEW t \in Threads, Exercise(t)
      PROVE  Running' \/ Provoked'
  BY <1>1, <1>2, <1>6
     DEF Exercise, ExerciseActive, ExerciseQueued, ExerciseFaults, ExerciseAdvances,
         ExerciseCancels, Faults
<1>7. ASSUME NEW t \in Threads, Proceeds(t)
      PROVE  Running' \/ Provoked'
  BY <1>3, <1>4, <1>5, <1>6, <1>7 DEF Proceeds
<1>8. ASSUME NEW v \in Workers, Works(v)
      PROVE  Running' \/ Provoked'
  <2>1. CASE Transports(RunsHandler(v))
    BY <1>1, <1>2, <2>1
       DEF Transports, RunsHandler, OnWrite, OnRead, DequeueThreadSafely, RunsOnFreedPool, Faults
  <2>2. CASE EnterOnTimeout(v)
    <3>1. Head(due) \in Due
      BY <2>2, DueTypes, HeadTailProperties, EmptySeq DEF EnterOnTimeout
    <3>2. ~wire[Head(due).req].timed_out
      BY <1>0, <3>1 DEF Due, RequestFate, Peaceful
    <3> QED
      BY <1>1, <1>2, <2>2, <3>2 DEF EnterOnTimeout, Framed
  <2> QED
    BY <1>8, <2>1, <2>2 DEF Works
<1>9. CASE \/ Transports(Destroy /\ Free(Destroyer)) \/ Destructs
           \/ Transports(WakesSpuriously)
  BY <1>1, <1>2, <1>9
     DEF Transports, Destructs, Destroy, DestructorStep, TellPending, AwaitDequeued,
         Drained, CloseForGood, WakesSpuriously, Faults
<1>10. CASE \/ Transports(Outside(WriteCompletes)) \/ Transports(Outside(WriteGoesNowhere))
            \/ Transports(Outside(ReadCompletes)) \/ Transports(Outside(ReadFails))
            \/ Transports(Outside(NodeReplies)) \/ Transports(Outside(PeerResets))
  BY <1>1, <1>2, <1>10 DEF Transports, Outside, Rest
<1>11. ASSUME NEW t \in Callers, NEW r \in Requests, DispatchVia(t, r)
       PROVE  Running' \/ Provoked'
  BY <1>1, <1>2, <1>11 DEF DispatchVia, vars
<1>12. ASSUME NEW r \in Requests, Expire(r)
       PROVE  Running' \/ Provoked'
  BY <1>1, <1>2, <1>12 DEF Expire, vars
<1>13. UNCHANGED deliveryVars => Running' \/ Provoked'
  BY <1>1, <1>2 DEF deliveryVars, vars
<1> QED
  BY <1>7, <1>8, <1>9, <1>10, <1>11, <1>12, <1>13 DEF DeliveryNext

LEMMA DeliveryAlways ==
    DeliverySpec =>
        [](/\ Types /\ UseInv /\ FateInv /\ (dtor # "alive" => Destroyer # None)
           /\ Proved!TypeOK /\ Proved!Replies /\ Proved!Sole(io))
<1>1. DeliveryInit => Types /\ UseInv /\ FateInv /\ (dtor # "alive" => Destroyer # None)
  BY TypesInit, UseInit, FateInit DEF DeliveryInit, Init
<1>2. /\ Types /\ UseInv /\ FateInv /\ (dtor # "alive" => Destroyer # None)
      /\ [DeliveryNext]_deliveryVars
      => Types' /\ UseInv' /\ FateInv' /\ (dtor # "alive" => Destroyer # None)'
  BY TypesStep, UseStep, FateStep, DestroyerStep
<1> QED
  BY <1>1, <1>2, ProvedAlways, PTL DEF DeliverySpec

LEMMA PeaceAlways ==
    ASSUME NEW w, Workers = {w}, MaxConnectFailures = 0
    PROVE  DeliverySpec => [](PeaceInv(w) /\ (Running \/ Provoked))
<1> DEFINE Inv == /\ Types /\ UseInv /\ FateInv /\ (dtor # "alive" => Destroyer # None)
                  /\ Proved!TypeOK /\ Proved!Replies /\ Proved!Sole(io)
           Safe == PeaceInv(w) /\ (Running \/ Provoked)
<1>1. DeliveryInit => Safe
  <2> SUFFICES ASSUME DeliveryInit PROVE Safe
    OBVIOUS
  <2>1. Seen = [t \in Transport!Threads |-> Transport!Idle] /\ Broken = "none"
    BY SharedNames, BrokenOf DEF DeliveryInit, Init, Seen, Running
  <2>2. Transport!IoInit
    BY DEF DeliveryInit, Init, IoInit, Transport!IoInit
  <2>3. Transport!Init
    BY <2>1, <2>2 DEF DeliveryInit, Init, Transport!Init
  <2>4. Proved!Serial(w)
    BY <2>3, ProvedSteps, ProvedAssumptions, Proved!SerialInit DEF Proved!Threads
  <2> QED
    BY <2>4 DEF PeaceInv, DeliveryInit, Init, Running
<1>2. Inv /\ Inv' /\ Safe /\ [DeliveryNext]_deliveryVars => Safe'
  <2> SUFFICES ASSUME Inv, Inv', Safe, [DeliveryNext]_deliveryVars PROVE Safe'
    OBVIOUS
  <2>1. CASE ~Running
    <3>1. UNCHANGED <<wire, answers, fault, shutting_down>>
      BY <2>1, Halted DEF deliveryVars, vars
    <3> QED
      BY <2>1, <3>1 DEF PeaceInv, Running, Provoked, TimedOut, Past
  <2>2. CASE Running /\ Peaceful'
    <3>1. Peaceful /\ Proved!Serial(w) /\ Proved!Serial(w)' /\ Broken' = Broken
      BY <2>2, PeaceStep
    <3>2. Running' \/ Provoked'
      BY <2>2, <3>1, PeaceIsKept
    <3> QED
      BY <3>1, <3>2 DEF PeaceInv
  <2>3. CASE ~Peaceful'
    BY <2>3 DEF PeaceInv, Peaceful, Provoked
  <2> QED
    BY <2>1, <2>2, <2>3
<1> QED
  BY <1>1, <1>2, DeliveryAlways, PTL DEF DeliverySpec

\* With one worker, and reconnections that do not throw, the program dies only once a
\* request has timed out, when the transport goes away, or because a response overtook the
\* return of deliver (request_with_timeout.cxx:34, :44): a reset by the peer is not enough.
THEOREM FaultsNeedProvocation ==
    ASSUME NEW w, Workers = {w}, MaxConnectFailures = 0
    PROVE  DeliverySpec => []FaultsAreProvoked
<1>1. Running \/ Provoked => FaultsAreProvoked
  BY DEF Provoked, FaultsAreProvoked, TimedOut, Past
<1> QED
  BY <1>1, PeaceAlways, PTL

-----------------------------------------------------------------------------
(***************************************************************************)
(* One worker, no two requests of the same bytes: who loses the connection *)
(* to a clean end either has heard the end of its own reply, or comes      *)
(* after a request that timed out.                                         *)
(***************************************************************************)
AdvanceInv(w) ==
    frame[w].at = "advance" => active = frame[w].req /\ frame[w].how # "dirty"

TimedBefore(q) == \E p \in Requests : arrival[p] <= arrival[q] /\ TimedOut(p)

DisplacedInv ==
    \A q \in displaced :
        arrival[q] > 0 /\ (Has(heard[q], [how |-> "complete", of |-> q]) \/ TimedBefore(q))

\* The one worker exercises an option of the active request.
LEMMA AdvanceStep ==
    ASSUME NEW w \in Threads, Workers = {w}, Destroyer = None,
           \A p, q \in Requests : Content[p] = Content[q] => p = q,
           Types, SoleInv(w), dtor = "alive", AdvanceInv(w), [DeliveryNext]_deliveryVars
    PROVE  /\ AdvanceInv(w)'
           /\ \/ displaced' = displaced
              \/ frame[w].at = "advance" /\ displaced' \subseteq displaced \cup {active}
<1>0. /\ frame \in [Threads -> DeliveryFrames] /\ active \in Requests \cup {None}
      /\ \A t \in Threads : t # w => frame[t] = Idle
      /\ Idle.at = "idle" /\ None \notin Requests
  BY SocketAssumption DEF Types, DeliveryTypeOK, PoolTypeOK, SoleInv, Idle
<1>1. ASSUME UNCHANGED <<active, displaced>>,
             \/ UNCHANGED frame
             \/ \E t \in Threads : \E f : frame' = [frame EXCEPT ![t] = f] /\ f.at # "advance"
      PROVE  AdvanceInv(w)' /\ displaced' = displaced
  <2>1. CASE UNCHANGED frame
    BY <1>1, <2>1 DEF AdvanceInv
  <2>2. ASSUME NEW t \in Threads, NEW f, frame' = [frame EXCEPT ![t] = f], f.at # "advance"
        PROVE  AdvanceInv(w)'
    BY <1>0, <1>1, <2>2 DEF AdvanceInv
  <2> QED
    BY <1>1, <2>1, <2>2
<1>2. ASSUME NEW t \in Threads, NEW r \in Requests, Handler(t, r)
      PROVE  AdvanceInv(w)' /\ displaced' = displaced
  <2>1. UNCHANGED <<active, displaced>>
    BY <1>2 DEF Handler, OnPartial, OnComplete, TerminatesClean, OnError, OnTimeout,
                DropsOption, OnTimeoutCancelled, Releases, Framed, Faulty, vars, history
  <2>2. \A how : Exercising(r, how).at # "advance"
    BY DEF Exercising
  <2>3. \/ UNCHANGED frame
        \/ \E f : frame' = [frame EXCEPT ![t] = f] /\ f.at # "advance"
    <3>1. \/ UNCHANGED frame \/ frame' = [frame EXCEPT ![t] = Idle]
          \/ \E how : frame' = [frame EXCEPT ![t] = Exercising(r, how)]
      BY <1>2 DEF Handler, OnPartial, OnComplete, TerminatesClean, OnError, OnTimeout,
                  DropsOption, OnTimeoutCancelled, Releases, Framed, Faulty, vars
    <3> QED
      BY <1>0, <2>2, <3>1
  <2> QED
    BY <1>1, <2>1, <2>3
<1>3. ASSUME NEW t \in Threads, NEW r \in Requests, DispatchVia(t, r) \/ Dispatch(t, r)
      PROVE  AdvanceInv(w)' /\ displaced' = displaced
  <2>1. CASE Delivers(t, r)
    <3>1. UNCHANGED <<frame, displaced>> /\ (active # None => UNCHANGED active)
      BY <2>1 DEF Delivers, Deliver, Admit
    <3>2. frame[w].at = "advance" => active # None
      BY <1>0, FrameRequest DEF AdvanceInv
    <3> QED
      BY <3>1, <3>2 DEF AdvanceInv
  <2>2. CASE ~Delivers(t, r)
    <3>1. UNCHANGED <<frame, active, displaced>>
      BY <1>3, <2>2 DEF DispatchVia, Dispatch, DeliverFails, AssignOption, ArmTimer, Faulty,
                        vars, history
    <3> QED
      BY <1>1, <3>1
  <2> QED
    BY <2>1, <2>2
<1>4. ASSUME NEW t \in Threads, EnterOnResponse(t)
      PROVE  AdvanceInv(w)' /\ displaced' = displaced
  <2>1. UNCHANGED <<active, displaced>>
    BY <1>4 DEF EnterOnResponse, EnterHandler, Faulty, history
  <2>2. PICK f : f = [frame[t] EXCEPT !.at = "handler"]
    OBVIOUS
  <2>3. UNCHANGED frame \/ frame' = [frame EXCEPT ![t] = f]
    BY <1>0, <1>4, <2>2 DEF EnterOnResponse, EnterHandler, Faulty
  <2>4. f.at # "advance"
    <3>1. frame[t] \in Frames
      BY <1>0, <1>4, DeliveryFrameKinds DEF EnterOnResponse
    <3> QED
      BY <1>4, <2>2, <3>1 DEF EnterOnResponse, Frames, Idle
  <2> QED
    BY <1>1, <2>1, <2>3, <2>4
<1>5. ASSUME NEW t \in Threads, Exercise(t)
      PROVE  /\ AdvanceInv(w)'
             /\ \/ displaced' = displaced
                \/ frame[w].at = "advance" /\ displaced' \subseteq displaced \cup {active}
  <2>1. /\ frame[t].at \in {"check", "advance", "cancel"}
        /\ \/ ExerciseActive(t) \/ ExerciseQueued(t) \/ ExerciseFaults(t)
           \/ ExerciseAdvances(t) \/ ExerciseCancels(t)
    BY <1>5, ExerciseFrames DEF Exercise
  <2>2. t = w /\ frame[w] \in Frames
    BY <1>0, <2>1, DeliveryFrameKinds
  <2>3. frame[w].req \in Requests
    BY <2>1, <2>2, FrameRequest
  <2>4. CASE ExerciseActive(t)
    <3>1. active = frame[w].req /\ UNCHANGED <<active, displaced>>
      BY <1>0, <2>2, <2>3, <2>4 DEF ExerciseActive, history
    <3>2. PICK at : /\ at = IF frame[w].how = "dirty" THEN "cancel" ELSE "advance"
                    /\ frame' = [frame EXCEPT ![w].at = at]
      BY <2>2, <2>4 DEF ExerciseActive
    <3>3. frame'[w] = [frame[w] EXCEPT !.at = at]
      BY <1>0, <3>2
    <3>4. /\ frame'[w].at = at /\ frame'[w].req = frame[w].req
          /\ frame'[w].how = frame[w].how
      BY <2>1, <2>2, <3>3 DEF Frames, Idle
    <3> QED
      BY <3>1, <3>2, <3>4 DEF AdvanceInv
  <2>5. CASE ExerciseAdvances(t)
    <3>1. frame' = [frame EXCEPT ![w].at = "cancel"]
      BY <2>2, <2>5 DEF ExerciseAdvances
    <3>2. frame'[w] = [frame[w] EXCEPT !.at = "cancel"]
      BY <1>0, <3>1
    <3>3. frame'[w].at = "cancel"
      BY <2>1, <2>2, <3>2 DEF Frames, Idle
    <3>4. displaced' \subseteq displaced \cup {active} /\ frame[w].at = "advance"
      BY <2>2, <2>5 DEF ExerciseAdvances
    <3> QED
      BY <3>3, <3>4 DEF AdvanceInv
  <2>6. CASE ExerciseQueued(t) \/ ExerciseFaults(t) \/ ExerciseCancels(t)
    <3>1. /\ UNCHANGED <<active, displaced>>
          /\ UNCHANGED frame \/ frame' = [frame EXCEPT ![t] = Idle]
      BY <2>6 DEF ExerciseQueued, ExerciseFaults, ExerciseCancels, history
    <3> QED
      BY <1>0, <1>1, <3>1
  <2> QED
    BY <2>1, <2>4, <2>5, <2>6
<1>6. ASSUME NEW v \in Workers, Works(v)
      PROVE  AdvanceInv(w)' /\ displaced' = displaced
  <2>1. CASE Transports(RunsHandler(v))
    <3>1. v = w /\ RunsHandler(v)
      BY <2>1 DEF Transports
    <3>2. UNCHANGED frame \/ \E r, news : frame' = [frame EXCEPT ![w] = Calling(r, news)]
      BY <3>1, HandlersCall
    <3>3. frame[w] = Idle /\ \A r, news : Calling(r, news).at # "advance"
      BY <3>1, HandlersCall DEF Calling
    <3>4. displaced' = displaced
      BY <3>1 DEF RunsHandler, OnWrite, OnRead, DequeueThreadSafely, RunsOnFreedPool, history
    <3>5. frame'[w].at # "advance"
      BY <1>0, <3>2, <3>3
    <3> QED
      BY <3>4, <3>5 DEF AdvanceInv
  <2>2. CASE EnterOnTimeout(v)
    <3>1. UNCHANGED <<active, displaced>>
      BY <2>2 DEF EnterOnTimeout, Framed, Faulty, history
    <3>2. PICK f : f = [at |-> "handler", req |-> Head(due).req,
                        how |-> Head(due).how, of |-> None]
      OBVIOUS
    <3>3. UNCHANGED frame \/ frame' = [frame EXCEPT ![v] = f]
      BY <2>2, <3>2 DEF EnterOnTimeout, Framed, Faulty
    <3>4. f.at # "advance" /\ v \in Threads
      BY <3>2
    <3> QED
      BY <1>1, <3>1, <3>3, <3>4
  <2> QED
    BY <1>6, <2>1, <2>2 DEF Works
<1>7. ~Destroy /\ ~DestructorStep /\ ~WakesSpuriously
  BY DEF Destroy, DestructorStep, TellPending, AwaitDequeued, Drained, WakesSpuriously
<1>8. CASE \/ Transports(Outside(WriteCompletes)) \/ Transports(Outside(WriteGoesNowhere))
           \/ Transports(Outside(ReadCompletes)) \/ Transports(Outside(ReadFails))
           \/ Transports(Outside(NodeReplies)) \/ Transports(Outside(PeerResets))
  BY <1>1, <1>8 DEF Transports, Outside, Rest, history
<1>9. ASSUME NEW r \in Requests, Expire(r)
      PROVE  AdvanceInv(w)' /\ displaced' = displaced
  BY <1>1, <1>9 DEF Expire, vars, history
<1>10. UNCHANGED deliveryVars => AdvanceInv(w)' /\ displaced' = displaced
  BY <1>1 DEF deliveryVars, vars, history
<1> QED
  BY <1>2, <1>3, <1>4, <1>5, <1>6, <1>7, <1>8, <1>9, <1>10
     DEF DeliveryNext, Proceeds, Transports, Destructs, Threads

\* What was heard is not forgotten, and who was delivered keeps its place.
LEMMA HistoryStays ==
    ASSUME Types, [DeliveryNext]_deliveryVars
    PROVE  /\ HeardStays
           /\ \A q \in Requests : arrival[q] > 0 => arrival'[q] = arrival[q]
<1>0. /\ heard \in [Requests -> Seq(News)] /\ arrival \in [Requests -> Nat]
      /\ frame \in [Threads -> DeliveryFrames]
  BY DEF Types, DeliveryTypeOK, PoolTypeOK
<1>1. ASSUME UNCHANGED <<heard, arrival>>
      PROVE  HeardStays /\ \A q \in Requests : arrival[q] > 0 => arrival'[q] = arrival[q]
  BY <1>1 DEF HeardStays
<1>2. ASSUME NEW t \in Threads, EnterOnResponse(t), EnterHandler(t)
      PROVE  HeardStays /\ UNCHANGED arrival
  <2>1. PICK r \in Requests : r = frame[t].req
    BY <1>2, FrameRequest DEF EnterHandler
  <2>2. frame[t] \in Frames
    BY <1>0, <1>2, DeliveryFrameKinds DEF EnterHandler
  <2>3. PICK x, n, f : EntersAs(t, x, n, f)
    BY <1>2, <2>2, EnterHandlerAs
  <2>4. n \in News
    BY <2>3 DEF EntersAs
  <2>5. heard' = [heard EXCEPT ![r] = Append(heard[r], n)] /\ heard[r] \in Seq(News)
    BY <1>0, <2>1, <2>3 DEF EntersAs
  <2>6. \A m : Has(heard'[r], m) <=> Has(heard[r], m) \/ m = n
    BY <1>0, <2>4, <2>5, HasAppend
  <2> QED
    BY <1>0, <1>2, <2>5, <2>6 DEF HeardStays, EnterHandler, history
<1>3. ASSUME NEW t \in Threads, NEW r \in Requests, Delivers(t, r)
      PROVE  UNCHANGED heard /\ \A q \in Requests : arrival[q] > 0 => arrival'[q] = arrival[q]
  BY <1>0, <1>3 DEF Delivers, Deliver
<1>4. ASSUME NEW t \in Threads, Proceeds(t)
      PROVE  HeardStays /\ \A q \in Requests : arrival[q] > 0 => arrival'[q] = arrival[q]
  <2>1. ASSUME NEW r \in Requests, Handler(t, r)
        PROVE  UNCHANGED <<heard, arrival>>
    BY <2>1 DEF Handler, OnPartial, OnComplete, TerminatesClean, OnError, OnTimeout,
                DropsOption, OnTimeoutCancelled, Releases, Framed, Faulty, vars, history
  <2>2. ASSUME NEW r \in Requests, Dispatch(t, r), ~Delivers(t, r)
        PROVE  UNCHANGED <<heard, arrival>>
    BY <2>2 DEF Dispatch, DeliverFails, AssignOption, ArmTimer, Faulty, vars, history
  <2>3. EnterOnResponse(t) /\ ~EnterHandler(t) => UNCHANGED <<heard, arrival>>
    BY DEF EnterOnResponse, Faulty, history
  <2>4. Exercise(t) => UNCHANGED <<heard, arrival>>
    BY DEF Exercise, ExerciseActive, ExerciseQueued, ExerciseFaults, ExerciseAdvances,
           ExerciseCancels, history
  <2> QED
    BY <1>1, <1>2, <1>3, <1>4, <2>1, <2>2, <2>3, <2>4 DEF Proceeds, HeardStays
<1>5. ASSUME NEW v \in Workers, Works(v)
      PROVE  UNCHANGED <<heard, arrival>>
  BY <1>5, HandlersCall, RepliesAreOfRequests
     DEF Works, Transports, EnterOnTimeout, Framed, Faulty, history
<1>6. Destroy \/ DestructorStep \/ WakesSpuriously => UNCHANGED <<heard, arrival>>
  BY DEF Destroy, DestructorStep, TellPending, AwaitDequeued, Drained, WakesSpuriously, history
<1>7. \A A : Outside(A) => UNCHANGED <<heard, arrival>>
  BY DEF Outside, Rest, history
<1>8. ASSUME NEW t \in Callers, NEW r \in Requests, DispatchVia(t, r)
      PROVE  UNCHANGED <<heard, arrival>>
  BY <1>8 DEF DispatchVia, vars, history
<1>9. ASSUME NEW r \in Requests, Expire(r)
      PROVE  UNCHANGED <<heard, arrival>>
  BY <1>9 DEF Expire, vars, history
<1>10. UNCHANGED deliveryVars => UNCHANGED <<heard, arrival>>
  BY DEF deliveryVars, vars, history
<1> QED
  BY <1>1, <1>4, <1>5, <1>6, <1>7, <1>8, <1>9, <1>10 DEF DeliveryNext, Transports, Destructs

LEMMA TimedBeforeStays ==
    ASSUME Types, UseInv, FateInv, [DeliveryNext]_deliveryVars,
           NEW q \in Requests, arrival[q] > 0, TimedBefore(q)
    PROVE  TimedBefore(q)'
<1>1. PICK p \in Requests : arrival[p] <= arrival[q] /\ TimedOut(p)
  BY DEF TimedBefore
<1>2. arrival[p] > 0
  BY <1>1 DEF FateInv, UseInv, RequestFate, RequestUse, Assigned
<1>3. arrival'[p] = arrival[p] /\ arrival'[q] = arrival[q]
  BY <1>2, HistoryStays
<1>4. TimedOut(p)'
  BY <1>1, TimedOutStays
<1> QED
  BY <1>1, <1>3, <1>4 DEF TimedBefore

\* Whose reply another request has heard.
LEMMA OthersReply ==
    ASSUME MaxConnectFailures = 0, Proved!TypeOK, Proved!Replies, DisplacedInv,
           NEW r \in Requests, NEW q \in Requests, q # r,
           NEW how \in Tidings, Has(heard[r], [how |-> how, of |-> q])
    PROVE  arrival[q] < arrival[r] /\ TimedBefore(q)
<1>1. \A h, x : Proved!Has(h, x) <=> Has(h, x)
  BY DEF Proved!Has, Has
<1>2. Proved!Hears(r, how, q) /\ how \in Proved!Tidings
  BY <1>1 DEF Proved!Hears, Proved!Tells, Proved!Tidings, Tidings
<1>3. arrival[q] < arrival[r] /\ q \in Proved!Lost /\ ~Proved!Hears(q, "complete", q)
  BY <1>2 DEF Proved!Replies, Proved!Foreign
<1>4. ~Has(heard[q], [how |-> "complete", of |-> q])
  BY <1>1, <1>3 DEF Proved!Hears, Proved!Tells
<1>5. q \in displaced
  BY <1>3 DEF Proved!Lost, Proved!Deprived, Proved!TypeOK
<1> QED
  BY <1>3, <1>4, <1>5 DEF DisplacedInv

LEMMA DisplacedStep ==
    ASSUME NEW w \in Threads, Workers = {w}, Destroyer = None, MaxConnectFailures = 0,
           \A p, q \in Requests : Content[p] = Content[q] => p = q,
           Types, UseInv, FateInv, Proved!TypeOK, Proved!Replies,
           SoleInv(w), dtor = "alive", AdvanceInv(w), DisplacedInv, [DeliveryNext]_deliveryVars
    PROVE  AdvanceInv(w)' /\ DisplacedInv'
<1>0. displaced \subseteq Requests /\ active \in Requests \cup {None}
      /\ arrival \in [Requests -> Nat]
  BY DEF Types, PoolTypeOK
<1>1. ASSUME NEW q \in Requests, arrival[q] > 0,
             Has(heard[q], [how |-> "complete", of |-> q]) \/ TimedBefore(q)
      PROVE  /\ arrival'[q] > 0
             /\ (Has(heard[q], [how |-> "complete", of |-> q]) \/ TimedBefore(q))'
  BY <1>1, HistoryStays, TimedBeforeStays DEF HeardStays
<1>2. AdvanceInv(w)'
  BY AdvanceStep
<1>3. CASE displaced' = displaced
  BY <1>0, <1>1, <1>2, <1>3 DEF DisplacedInv
<1>4. CASE /\ frame[w].at = "advance"
           /\ displaced' \subseteq displaced \cup {active}
  <2>1. PICK r \in Requests : r = frame[w].req
    BY <1>4, FrameRequest
  <2>2. active = r /\ frame[w].how \in {"clean", "drop"}
    <3>1. frame[w] \in Frames
      BY <1>4, DeliveryFrameKinds DEF Types, DeliveryTypeOK
    <3> QED
      BY <1>4, <2>1, <3>1 DEF AdvanceInv, Frames, Idle
  <2>3. arrival[r] > 0
    BY <2>1, <2>2, SocketAssumption, ProvedAssumptions, Proved!ActiveStarted
  <2>4. FrameFate(frame[w])
    BY DEF FateInv
  <2>5. CASE frame[w].how = "drop"
    <3>1. TimedBefore(r)
      BY <1>0, <1>4, <2>1, <2>4, <2>5 DEF FrameFate, TimedBefore
    <3> QED
      BY <1>0, <1>1, <1>2, <1>4, <2>2, <2>3, <3>1 DEF DisplacedInv
  <2>6. CASE frame[w].how = "clean"
    <3>1. PICK x \in Requests : Has(heard[r], [how |-> "complete", of |-> x])
      BY <1>4, <2>1, <2>4, <2>6 DEF FrameFate
    <3>2. x # r => arrival[x] < arrival[r] /\ TimedBefore(x)
      BY <3>1, OthersReply DEF Tidings
    <3>3. Has(heard[r], [how |-> "complete", of |-> r]) \/ TimedBefore(r)
      BY <1>0, <3>1, <3>2 DEF TimedBefore
    <3> QED
      BY <1>0, <1>1, <1>2, <1>4, <2>2, <2>3, <3>3 DEF DisplacedInv
  <2> QED
    BY <2>2, <2>5, <2>6
<1> QED
  BY <1>3, <1>4, AdvanceStep

LEMMA DisplacedAlways ==
    ASSUME NEW w, Workers = {w}, Destroyer = None, MaxConnectFailures = 0,
           \A p, q \in Requests : Content[p] = Content[q] => p = q
    PROVE  DeliverySpec => []DisplacedInv
<1> DEFINE Inv == /\ Types /\ UseInv /\ FateInv /\ (dtor # "alive" => Destroyer # None)
                  /\ Proved!TypeOK /\ Proved!Replies /\ Proved!Sole(io)
<1>0. w \in Threads
  BY DEF Threads
<1>1. DeliveryInit => AdvanceInv(w) /\ DisplacedInv
  BY <1>0 DEF DeliveryInit, Init, AdvanceInv, DisplacedInv, Idle
<1>2. Inv /\ SoleInv(w) /\ AdvanceInv(w) /\ DisplacedInv /\ [DeliveryNext]_deliveryVars
      => AdvanceInv(w)' /\ DisplacedInv'
  BY <1>0, DisplacedStep
<1>3. DeliverySpec => []SoleInv(w)
  BY SoleAlways
<1> QED
  BY <1>1, <1>2, <1>3, DeliveryAlways, PTL DEF DeliverySpec

\* With one worker, and reconnections that do not throw, a callback is given another
\* request's reply only after a timeout, and never one to a later request: only the
\* destruction of an option can take the connection from a reply that is still to come
\* (request_with_timeout.cxx:81).
THEOREM ForeignRepliesFollowTimeouts ==
    ASSUME NEW w, Workers = {w}, Destroyer = None, MaxConnectFailures = 0,
           \A p, q \in Requests : Content[p] = Content[q] => p = q
    PROVE  DeliverySpec => []ForeignReplyFollowsTimeout
<1>1. ASSUME Types, FateInv, Proved!TypeOK, Proved!Replies, DisplacedInv
      PROVE  ForeignReplyFollowsTimeout
  <2> SUFFICES ASSUME NEW r \in Requests, NEW i \in DOMAIN answers[r],
                      answers[r][i].of \notin {r, None}
               PROVE  /\ arrival[answers[r][i].of] < arrival[r]
                      /\ TimedBefore(answers[r][i].of)
    BY DEF ForeignReplyFollowsTimeout, TimedBefore, TimedOut, Past
  <2>1. PICK q : q = answers[r][i].of
    OBVIOUS
  <2>2. q \in Requests
    <3>1. answers[r][i] \in Answers
      BY <1>1, SeqElements DEF Types, DeliveryTypeOK
    <3> QED
      BY <2>1, <3>1 DEF Answers
  <2>3. PICK how \in Tidings : Has(heard[r], [how |-> how, of |-> q])
    BY <1>1, <2>1 DEF FateInv, RequestFate, AnswersHeard
  <2> QED
    BY <1>1, <2>1, <2>2, <2>3, OthersReply
<1>2. Types /\ FateInv /\ Proved!TypeOK /\ Proved!Replies /\ DisplacedInv
      => ForeignReplyFollowsTimeout
  BY <1>1
<1> QED
  BY <1>2, DeliveryAlways, DisplacedAlways, PTL
=============================================================================
