--------------------------- MODULE DeliveryProofs ---------------------------
(***************************************************************************)
(* Proofs about the composition of requests with their transport, for      *)
(* every set of requests and threads: its types; that it implements        *)
(* Scheduler, so that the requests are the user the transport's own model  *)
(* assumes; and that where one worker runs the io_service and the          *)
(* transport is not destroyed, the callback of a request hears what        *)
(* Exchange promises.                                                      *)
(***************************************************************************)
EXTENDS Delivery, SchedulerProofs, FiniteSetTheorems

\* The frames that Scheduler has as well, and what the handler of a timer adds.
LEMMA DeliveryFrameKinds ==
    ASSUME NEW f \in DeliveryFrames
    PROVE  /\ f.at # "handler" => f \in Frames
           /\ f.at = "handler" => f.req \in Requests /\ f.how \in Tidings \cup Endings
           /\ f.at = "handler" => f.of \in Requests \cup {None}
BY DEF DeliveryFrames, Frames, Idle

LEMMA FollowFields ==
    ASSUME NEW v \in [Requests -> Wires], NEW t \in Threads, NEW r \in Requests, NEW how,
           NEW u, u = Follow(v, t, r, how)
    PROVE  /\ u \in [Requests -> Wires]
           /\ \A q \in Requests :
                 /\ u[q].option = v[q].option
                 /\ u[q].armed = v[q].armed
                 /\ u[q].succeeded = v[q].succeeded
                 /\ u[q].timed_out = v[q].timed_out
                 /\ u[q].owner = v[q].owner
                 /\ \/ u[q].dispatch = v[q].dispatch
                    \/ v[q].dispatch = "new" /\ u[q].dispatch = "calling"
<1>1. CASE u = v
  BY <1>1
<1>2. CASE u # v
  <2>1. PICK p \in Requests :
            /\ v[p].dispatch = "new"
            /\ u = [v EXCEPT ![p].dispatch = "calling", ![p].by = t]
    BY <1>2, DeliveryAssumption DEF Follow
  <2>2. /\ \A q \in Requests : q # p => u[q] = v[q]
        /\ u[p] = [v[p] EXCEPT !.dispatch = "calling", !.by = t]
        /\ u = [q \in Requests |-> u[q]]
    BY <2>1
  <2>3. v[p] \in Wires
    OBVIOUS
  <2>4. /\ u[p] \in Wires /\ u[p].dispatch = "calling"
        /\ u[p].option = v[p].option /\ u[p].armed = v[p].armed
        /\ u[p].succeeded = v[p].succeeded /\ u[p].timed_out = v[p].timed_out
        /\ u[p].owner = v[p].owner
    BY <2>2, <2>3 DEF Wires
  <2> QED
    BY <2>1, <2>2, <2>4
<1> QED
  BY <1>1, <1>2

-----------------------------------------------------------------------------
(***************************************************************************)
(* Type correctness: the transport keeps its types under the steps of      *)
(* these requests too.                                                     *)
(***************************************************************************)
Types == PoolTypeOK /\ DeliveryTypeOK

LEMMA TransportTypes ==
    ASSUME Types, PoolTypeOK', NEW t, Moves(t),
           wire' \in [Requests -> Wires],
           due' \in Seq([req : Requests, how : Endings]),
           answers' \in [Requests -> Seq(Answers)]
    PROVE  Types'
<1>1. frame' \in [Threads -> DeliveryFrames]
  BY DEF Types, DeliveryTypeOK, Moves, DeliveryFrames
<1> QED
  BY <1>1 DEF Types, DeliveryTypeOK, Moves

LEMMA RequestTypes ==
    ASSUME Types, UNCHANGED <<io, pending, active, shutting_down, exercised, dtor, untold,
                              heard, history, failures>>,
           \/ UNCHANGED frame
           \/ \E t, f : f \in DeliveryFrames /\ frame' = [frame EXCEPT ![t] = f],
           \/ UNCHANGED fault
           \/ fault' \in {"use_after_free", "response_assertion", "timeout_assertion",
                          "empty_option", "network_down", "no_transport"},
           wire' \in [Requests -> Wires],
           due' \in Seq([req : Requests, how : Endings]),
           answers' \in [Requests -> Seq(Answers)]
    PROVE  Types'
<1>1. PoolTypeOK'
  BY DEF Types, PoolTypeOK, history
<1>2. frame' \in [Threads -> DeliveryFrames]
  BY DEF Types, DeliveryTypeOK
<1> QED
  BY <1>1, <1>2 DEF Types, DeliveryTypeOK, Faults

LEMMA UnarmedType ==
    ASSUME Types, NEW r \in Requests
    PROVE  Unarmed(r) \in Seq([req : Requests, how : Endings])
<1>1. [req |-> r, how |-> "aborted"] \in [req : Requests, how : Endings]
  BY DEF Endings
<1>2. PICK x : x = [req |-> r, how |-> "aborted"]
  OBVIOUS
<1>3. Append(due, x) \in Seq([req : Requests, how : Endings])
  <2>1. due \in Seq([req : Requests, how : Endings]) /\ x \in [req : Requests, how : Endings]
    BY <1>1, <1>2 DEF Types, DeliveryTypeOK
  <2> HIDE DEF Endings
  <2> QED
    BY <2>1, AppendProperties
<1> QED
  BY <1>2, <1>3 DEF Types, DeliveryTypeOK, Unarmed

LEMMA AnswerType ==
    ASSUME Types, NEW r \in Requests, NEW how \in {"partial", "complete", "failed", "timeout"},
           NEW of \in Requests \cup {None}, Answer(r, how, of)
    PROVE  answers' \in [Requests -> Seq(Answers)]
<1>1. [how |-> how, of |-> of] \in Answers
  BY DEF Answers
<1>2. Append(answers[r], [how |-> how, of |-> of]) \in Seq(Answers)
  BY <1>1 DEF Types, DeliveryTypeOK
<1> QED
  BY <1>2 DEF Answer, Types, DeliveryTypeOK

\* The changes the steps make to a wire.
LEMMA WireDispatchType ==
    ASSUME NEW v \in [Requests -> Wires], NEW r \in Requests, NEW t \in Threads \cup {None},
           NEW d \in {"new", "calling", "delivered", "assigned", "done", "refused"}
    PROVE  /\ [v EXCEPT ![r].dispatch = d] \in [Requests -> Wires]
           /\ [v EXCEPT ![r].dispatch = d, ![r].by = t] \in [Requests -> Wires]
<1>1. \A x \in Wires : [v EXCEPT ![r] = x] \in [Requests -> Wires]
  OBVIOUS
<1>2. PICK x \in Wires : x = v[r]
  OBVIOUS
<1>3. /\ [x EXCEPT !.dispatch = d] \in Wires
      /\ [x EXCEPT !.dispatch = d, !.by = t] \in Wires
  BY DEF Wires
<1> QED
  BY <1>1, <1>2, <1>3

LEMMA WireOptionType ==
    ASSUME NEW v \in [Requests -> Wires], NEW r \in Requests, NEW b \in BOOLEAN,
           NEW d \in {"new", "calling", "delivered", "assigned", "done", "refused"}
    PROVE  [v EXCEPT ![r].dispatch = d, ![r].option = b] \in [Requests -> Wires]
<1>1. \A x \in Wires : [v EXCEPT ![r] = x] \in [Requests -> Wires]
  OBVIOUS
<1>2. PICK x \in Wires : x = v[r]
  OBVIOUS
<1>3. [x EXCEPT !.dispatch = d, !.option = b] \in Wires
  BY DEF Wires
<1> QED
  BY <1>1, <1>2, <1>3

LEMMA WireTimerType ==
    ASSUME NEW v \in [Requests -> Wires], NEW r \in Requests, NEW t \in Threads \cup {None},
           NEW b \in BOOLEAN, NEW d \in {"new", "calling", "delivered", "assigned", "done", "refused"}
    PROVE  [v EXCEPT ![r].dispatch = d, ![r].by = t, ![r].armed = b] \in [Requests -> Wires]
<1>1. \A x \in Wires : [v EXCEPT ![r] = x] \in [Requests -> Wires]
  OBVIOUS
<1>2. PICK x \in Wires : x = v[r]
  OBVIOUS
<1>3. [x EXCEPT !.dispatch = d, !.by = t, !.armed = b] \in Wires
  BY DEF Wires
<1> QED
  BY <1>1, <1>2, <1>3

LEMMA WireFlagType ==
    ASSUME NEW v \in [Requests -> Wires], NEW r \in Requests, NEW b \in BOOLEAN
    PROVE  /\ [v EXCEPT ![r].armed = b] \in [Requests -> Wires]
           /\ [v EXCEPT ![r].timed_out = b] \in [Requests -> Wires]
<1>1. \A x \in Wires : [v EXCEPT ![r] = x] \in [Requests -> Wires]
  OBVIOUS
<1>2. PICK x \in Wires : x = v[r]
  OBVIOUS
<1>3. /\ [x EXCEPT !.armed = b] \in Wires
      /\ [x EXCEPT !.timed_out = b] \in Wires
  BY DEF Wires
<1> QED
  BY <1>1, <1>2, <1>3

LEMMA WireLockType ==
    ASSUME NEW v \in [Requests -> Wires], NEW r \in Requests, NEW b \in BOOLEAN,
           NEW o \in Threads \cup {None}
    PROVE  /\ [v EXCEPT ![r].armed = b, ![r].owner = o] \in [Requests -> Wires]
           /\ [v EXCEPT ![r].timed_out = b, ![r].owner = o] \in [Requests -> Wires]
           /\ [v EXCEPT ![r].option = FALSE, ![r].owner = o, ![r].succeeded = b] \in [Requests -> Wires]
<1>1. \A x \in Wires : [v EXCEPT ![r] = x] \in [Requests -> Wires]
  OBVIOUS
<1>2. PICK x \in Wires : x = v[r]
  OBVIOUS
<1>3. /\ [x EXCEPT !.armed = b, !.owner = o] \in Wires
      /\ [x EXCEPT !.timed_out = b, !.owner = o] \in Wires
      /\ [x EXCEPT !.option = FALSE, !.owner = o, !.succeeded = b] \in Wires
  BY DEF Wires
<1> QED
  BY <1>1, <1>2, <1>3

LEMMA WireOwnerType ==
    ASSUME NEW v \in [Requests -> Wires], NEW r \in Requests, NEW o \in Threads \cup {None}
    PROVE  /\ [v EXCEPT ![r].owner = o] \in [Requests -> Wires]
           /\ [v EXCEPT ![r].option = FALSE, ![r].owner = o] \in [Requests -> Wires]
<1>1. \A x \in Wires : [v EXCEPT ![r] = x] \in [Requests -> Wires]
  OBVIOUS
<1>2. PICK x \in Wires : x = v[r]
  OBVIOUS
<1>3. /\ [x EXCEPT !.owner = o] \in Wires
      /\ [x EXCEPT !.option = FALSE, !.owner = o] \in Wires
  BY DEF Wires
<1> QED
  BY <1>1, <1>2, <1>3

\* Every wire's field is as it should be after a callback, if it was before it.
LEMMA FollowType ==
    ASSUME NEW v \in [Requests -> Wires], NEW t \in Threads, NEW r \in Requests, NEW how
    PROVE  Follow(v, t, r, how) \in [Requests -> Wires]
BY FollowFields

\* The steps of dispatch_via.
LEMMA DispatchTypes ==
    ASSUME Types, NEW t \in Threads, NEW r \in Requests,
           DispatchVia(t, r) \/ Dispatch(t, r)
    PROVE  Types'
<1>0. /\ wire \in [Requests -> Wires] /\ t \in Threads \cup {None} /\ None \in Threads \cup {None}
      /\ due \in Seq([req : Requests, how : Endings])
      /\ answers \in [Requests -> Seq(Answers)]
  BY DEF Types, DeliveryTypeOK
<1>1. CASE DispatchVia(t, r)
  <2>1. wire' \in [Requests -> Wires]
    BY <1>0, <1>1, WireDispatchType DEF DispatchVia
  <2> QED
    BY <1>0, <1>1, <2>1, RequestTypes DEF DispatchVia, vars
<1>2. CASE Delivers(t, r)
  <2>1. wire' \in [Requests -> Wires]
    BY <1>0, <1>2, WireDispatchType DEF Delivers
  <2>2. PoolTypeOK' /\ Moves(t)
    BY <1>2, DeliverType DEF Types, Delivers
  <2> QED
    BY <1>0, <1>2, <2>1, <2>2, TransportTypes DEF Delivers
<1>3. CASE DeliverFails(t, r)
  <2>1. [wire EXCEPT ![r].dispatch = "refused", ![r].by = None] \in [Requests -> Wires]
    BY <1>0, WireDispatchType
  <2> QED
    BY <1>0, <1>3, <2>1, RequestTypes DEF DeliverFails, Faulty, vars
<1>4. CASE AssignOption(t, r)
  <2>1. wire' \in [Requests -> Wires]
    BY <1>0, <1>4, WireOptionType DEF AssignOption
  <2> QED
    BY <1>0, <1>4, <2>1, RequestTypes DEF AssignOption, vars
<1>5. CASE ArmTimer(t, r)
  <2>1. wire' \in [Requests -> Wires]
    BY <1>0, <1>5, WireTimerType DEF ArmTimer
  <2>2. due' \in Seq([req : Requests, how : Endings])
    BY <1>5, UnarmedType DEF ArmTimer
  <2> QED
    BY <1>0, <1>5, <2>1, <2>2, RequestTypes DEF ArmTimer, vars
<1> QED
  BY <1>1, <1>2, <1>3, <1>4, <1>5 DEF Dispatch

LEMMA ExpireTypes ==
    ASSUME Types, NEW r \in Requests, Expire(r)
    PROVE  Types'
<1>0. /\ wire \in [Requests -> Wires] /\ None \in Threads \cup {None}
      /\ due \in Seq([req : Requests, how : Endings])
      /\ answers \in [Requests -> Seq(Answers)]
  BY DEF Types, DeliveryTypeOK
<1>1. [wire EXCEPT ![r].armed = FALSE] \in [Requests -> Wires]
  BY <1>0, WireFlagType
<1>2. due' \in Seq([req : Requests, how : Endings])
  <2>1. PICK x : x = [req |-> r, how |-> "expired"]
    OBVIOUS
  <2>2. x \in [req : Requests, how : Endings]
    BY <2>1 DEF Endings
  <2>3. Append(due, x) \in Seq([req : Requests, how : Endings])
    <3> HIDE DEF Endings
    <3> QED
      BY <1>0, <2>2, AppendProperties
  <2> QED
    BY <2>1, <2>3 DEF Expire
<1> QED
  BY <1>0, <1>1, <1>2, RequestTypes DEF Expire, vars

\* The handlers of a request.
LEMMA HandlerTypes ==
    ASSUME Types, NEW t \in Threads, NEW r \in Requests, Handler(t, r)
    PROVE  Types'
<1>0. /\ wire \in [Requests -> Wires] /\ t \in Threads \cup {None} /\ None \in Threads \cup {None}
      /\ due \in Seq([req : Requests, how : Endings])
      /\ answers \in [Requests -> Seq(Answers)]
      /\ Unarmed(r) \in Seq([req : Requests, how : Endings])
  BY UnarmedType DEF Types, DeliveryTypeOK
<1>1. frame[t].at = "handler" => frame[t].of \in Requests \cup {None}
  BY DeliveryFrameKinds DEF Types, DeliveryTypeOK
<1>2. /\ Idle \in DeliveryFrames
      /\ \A how \in {"clean", "dirty", "drop"} : Exercising(r, how) \in DeliveryFrames
  BY IdleFrame, ExercisingType DEF DeliveryFrames
<1>3. CASE OnPartial(t, r)
  <2>1. answers' \in [Requests -> Seq(Answers)]
    BY <1>1, <1>3, AnswerType DEF OnPartial, Locks
  <2>2. wire' \in [Requests -> Wires]
    BY <1>0, <1>3, WireFlagType DEF OnPartial
  <2> QED
    BY <1>0, <1>2, <1>3, <2>1, <2>2, RequestTypes DEF OnPartial, Framed
<1>4. CASE OnComplete(t, r)
  <2>1. answers' \in [Requests -> Seq(Answers)]
    BY <1>1, <1>4, AnswerType DEF OnComplete, Locks
  <2>2. [wire EXCEPT ![r].armed = FALSE, ![r].owner = t] \in [Requests -> Wires]
    BY <1>0, WireLockType
  <2>3. wire' \in [Requests -> Wires]
    BY <1>4, <2>2, FollowType DEF OnComplete
  <2> QED
    BY <1>0, <1>4, <2>1, <2>3, RequestTypes DEF OnComplete, vars
<1>5. CASE TerminatesClean(t, r)
  <2>1. \/ /\ frame' = [frame EXCEPT ![t] = Exercising(r, "clean")]
           /\ UNCHANGED fault
        \/ UNCHANGED frame /\ fault' = "empty_option"
    BY <1>5 DEF TerminatesClean, Framed, Faulty
  <2> QED
    BY <1>0, <1>2, <1>5, <2>1, RequestTypes DEF TerminatesClean, Framed, Faulty
<1>6. CASE OnError(t, r)
  <2>1. wire' \in [Requests -> Wires]
    BY <1>0, <1>6, WireLockType DEF OnError
  <2> QED
    BY <1>0, <1>2, <1>6, <2>1, RequestTypes DEF OnError, Framed, Faulty
<1>7. CASE OnTimeout(t, r)
  <2>1. answers' \in [Requests -> Seq(Answers)]
    BY <1>7, AnswerType DEF OnTimeout
  <2>2. [wire EXCEPT ![r].timed_out = TRUE, ![r].owner = t] \in [Requests -> Wires]
    BY <1>0, WireLockType
  <2>3. wire' \in [Requests -> Wires]
    BY <1>7, <2>2, FollowType DEF OnTimeout
  <2> QED
    BY <1>0, <1>7, <2>1, <2>3, RequestTypes DEF OnTimeout, vars
<1>8. CASE DropsOption(t, r)
  <2>0. [wire EXCEPT ![r].owner = None] \in [Requests -> Wires]
    BY <1>0, WireOwnerType
  <2>1. wire' \in [Requests -> Wires]
    BY <1>0, <1>8, <2>0 DEF DropsOption
  <2> QED
    BY <1>0, <1>2, <1>8, <2>1, RequestTypes DEF DropsOption, Framed
<1>9. CASE OnTimeoutCancelled(t, r)
  <2>1. wire' \in [Requests -> Wires]
    BY <1>0, <1>9, WireFlagType DEF OnTimeoutCancelled
  <2> QED
    BY <1>0, <1>2, <1>9, <2>1, RequestTypes DEF OnTimeoutCancelled, Framed
<1>10. CASE Releases(t, r)
  <2>0. [wire EXCEPT ![r].option = FALSE, ![r].owner = None] \in [Requests -> Wires]
    BY <1>0, WireOwnerType
  <2>1. wire' \in [Requests -> Wires]
    BY <1>10, <2>0 DEF Releases
  <2> QED
    BY <1>0, <1>10, <2>1, RequestTypes DEF Releases, vars
<1> QED
  BY <1>3, <1>4, <1>5, <1>6, <1>7, <1>8, <1>9, <1>10 DEF Handler

LEMMA EntryTypes ==
    ASSUME Types, NEW t \in Threads, EnterOnResponse(t) \/ EnterOnTimeout(t)
    PROVE  Types'
<1>0. /\ wire \in [Requests -> Wires]
      /\ due \in Seq([req : Requests, how : Endings])
      /\ answers \in [Requests -> Seq(Answers)]
      /\ frame[t] \in DeliveryFrames
  BY DEF Types, DeliveryTypeOK
<1>1. CASE EnterOnResponse(t)
  <2>1. UNCHANGED <<wire, due, answers>>
    BY <1>1 DEF EnterOnResponse
  <2>2. CASE EnterHandler(t)
    <3>1. frame[t] \in Frames
      BY <1>0, <2>2, DeliveryFrameKinds DEF EnterHandler
    <3>2. PoolTypeOK' /\ Moves(t)
      BY <2>2, <3>1, UserStepType DEF Types, UserStep
    <3> QED
      BY <1>0, <2>1, <3>2, TransportTypes
  <2>3. CASE Faulty("response_assertion")
    BY <1>0, <2>1, <2>3, RequestTypes DEF Faulty
  <2> QED
    BY <1>1, <2>2, <2>3 DEF EnterOnResponse
<1>2. CASE EnterOnTimeout(t)
  <2>1. /\ Head(due) \in [req : Requests, how : Endings]
        /\ Tail(due) \in Seq([req : Requests, how : Endings])
    <3> HIDE DEF Endings
    <3> QED
      BY <1>0, <1>2, HeadTailProperties DEF EnterOnTimeout
  <2>2. PICK f : f = [at |-> "handler", req |-> Head(due).req, how |-> Head(due).how, of |-> None]
    OBVIOUS
  <2>3. f \in DeliveryFrames
    BY <2>1, <2>2 DEF DeliveryFrames
  <2>4. \/ Framed(t, f)
        \/ Faulty("timeout_assertion")
    BY <1>2, <2>2 DEF EnterOnTimeout
  <2>5. UNCHANGED <<wire, answers>> /\ due' = Tail(due)
    BY <1>2 DEF EnterOnTimeout
  <2> QED
    BY <1>0, <2>1, <2>3, <2>4, <2>5, RequestTypes DEF Framed, Faulty
<1> QED
  BY <1>1, <1>2

LEMMA ExerciseTypes ==
    ASSUME Types, NEW t \in Threads, Exercise(t)
    PROVE  Types'
<1>0. /\ wire \in [Requests -> Wires] /\ None \in Threads \cup {None}
      /\ due \in Seq([req : Requests, how : Endings])
      /\ answers \in [Requests -> Seq(Answers)]
      /\ frame[t] \in DeliveryFrames
  BY DEF Types, DeliveryTypeOK
<1>1. frame[t].at \in {"check", "advance", "cancel"}
  BY DEF Exercise, ExerciseActive, ExerciseQueued, ExerciseFaults, ExerciseAdvances,
         ExerciseCancels, ReadsPool
<1>2. frame[t] \in Frames /\ frame[t].req \in Requests
  BY <1>0, <1>1, DeliveryFrameKinds, ExerciseFrame
<1>3. PoolTypeOK' /\ Moves(t)
  BY <1>2, UserStepType DEF Types, Exercise, UserStep
<1>4. PICK r, how : r = frame[t].req /\ how = frame[t].how
  OBVIOUS
<1>5. answers' \in [Requests -> Seq(Answers)]
  <2>1. UNCHANGED answers \/ Answer(r, "failed", None)
    BY <1>4 DEF Exercise, Exercised
  <2> QED
    BY <1>0, <1>2, <1>4, <2>1, AnswerType
<1>6. wire' \in [Requests -> Wires]
  <2>0. PICK b : b = (wire[r].succeeded \/ how = "clean")
    OBVIOUS
  <2>1. b \in BOOLEAN /\ r \in Requests
    BY <1>2, <1>4, <2>0
  <2>2. [wire EXCEPT ![r].option = FALSE, ![r].owner = None, ![r].succeeded = b]
           \in [Requests -> Wires]
    BY <1>0, <2>1, WireLockType
  <2>3. Follow(wire, t, r, "failed") \in [Requests -> Wires]
    BY <1>0, <1>2, <1>4, FollowType
  <2>4. \/ UNCHANGED wire
        \/ wire' = Follow(wire, t, r, "failed")
        \/ wire' = [wire EXCEPT ![r].option = FALSE, ![r].owner = None, ![r].succeeded = b]
    BY <1>4, <2>0 DEF Exercise, Exercised
  <2> QED
    BY <1>0, <2>2, <2>3, <2>4
<1> QED
  BY <1>0, <1>3, <1>5, <1>6, TransportTypes DEF Exercise

LEMMA TypesInit ==
    ASSUME DeliveryInit
    PROVE  Types
<1>1. PoolTypeOK
  BY PoolInit DEF DeliveryInit
<1>2. frame \in [Threads -> DeliveryFrames] /\ fault \in Faults
  BY IdleFrame DEF DeliveryInit, Init, DeliveryFrames, Faults
<1>3. wire \in [Requests -> Wires] /\ answers \in [Requests -> Seq(Answers)]
  BY DEF DeliveryInit, Wires
<1>4. due \in Seq([req : Requests, how : Endings])
  BY DEF DeliveryInit
<1> QED
  BY <1>1, <1>2, <1>3, <1>4 DEF Types, DeliveryTypeOK

LEMMA TypesStep ==
    ASSUME Types, [DeliveryNext]_deliveryVars
    PROVE  Types'
<1>0. /\ wire \in [Requests -> Wires]
      /\ due \in Seq([req : Requests, how : Endings])
      /\ answers \in [Requests -> Seq(Answers)]
      /\ PoolTypeOK
  BY DEF Types, DeliveryTypeOK
<1>1. ASSUME NEW t \in Threads, Proceeds(t)
      PROVE  Types'
  BY <1>1, HandlerTypes, DispatchTypes, EntryTypes, ExerciseTypes DEF Proceeds
<1>2. ASSUME NEW t \in Callers, NEW r \in Requests, DispatchVia(t, r)
      PROVE  Types'
  BY <1>2, DispatchTypes DEF Threads
<1>3. ASSUME NEW r \in Requests, Expire(r)
      PROVE  Types'
  BY <1>3, ExpireTypes
<1>4. ASSUME NEW w \in Workers, Works(w)
      PROVE  Types'
  <2>1. CASE EnterOnTimeout(w)
    BY <2>1, EntryTypes DEF Threads
  <2>2. CASE Transports(RunsHandler(w))
    BY <1>0, <2>2, HandlersType, TransportTypes DEF Transports
  <2> QED
    BY <1>4, <2>1, <2>2 DEF Works
<1>5. CASE Transports(Destroy) \/ Transports(DestructorStep) \/ Transports(WakesSpuriously)
  BY <1>0, <1>5, DestructionType, TransportTypes DEF Transports
<1>6. CASE \/ Transports(Outside(WriteCompletes)) \/ Transports(Outside(WriteGoesNowhere))
           \/ Transports(Outside(ReadCompletes)) \/ Transports(Outside(ReadFails))
           \/ Transports(Outside(NodeReplies)) \/ Transports(Outside(PeerResets))
  <2>1. PoolTypeOK' /\ UNCHANGED <<frame, fault>>
    BY <1>0, <1>6, OutsideType DEF Transports
  <2> QED
    BY <1>6, <2>1 DEF Transports, Types, DeliveryTypeOK
<1>7. CASE UNCHANGED deliveryVars
  BY <1>7 DEF deliveryVars, vars, history, Types, PoolTypeOK, DeliveryTypeOK
<1>8. Transports(Destroy /\ Free(Destroyer)) => Transports(Destroy)
  BY DEF Transports
<1> QED
  BY <1>1, <1>2, <1>3, <1>4, <1>5, <1>6, <1>7, <1>8 DEF DeliveryNext, Destructs

\* Every variable of the composition always has its type.
THEOREM DeliveryTypeCorrect == DeliverySpec => []DeliveryTypeOK
<1>1. DeliveryInit => Types
  BY TypesInit
<1>2. Types /\ [DeliveryNext]_deliveryVars => Types'
  BY TypesStep
<1>3. Types => DeliveryTypeOK
  BY DEF Types
<1> QED
  BY <1>1, <1>2, <1>3, PTL DEF DeliverySpec

-----------------------------------------------------------------------------
(***************************************************************************)
(* With one worker only one thread is in a handler, and a request that has *)
(* ended lets no other answer pass: its option is gone, so that a response *)
(* fails the assertion of on_response; or it has timed out, so that a      *)
(* response is not passed on and another timeout fails that of on_timeout; *)
(* or the handler that ended it still has its mutex.                       *)
(***************************************************************************)
Ends == {"complete", "failed", "timeout"}

Past(r, hows) == \E i \in DOMAIN answers[r] : answers[r][i].how \in hows

Assigned(r) == wire[r].dispatch \in {"assigned", "done"}

Exercises(t, r) == frame[t].at \in {"check", "advance", "cancel"} /\ frame[t].req = r

DueAssigned == \A i \in DOMAIN due : Assigned(due[i].req)

PromiseInv(w, r) ==
    /\ wire[r].owner \in {None, w}
    /\ wire[r].owner = w => frame[w] = Idle \/ (frame[w].req = r /\ frame[w].at # "calling")
    /\ Exercises(w, r) => wire[r].owner = w
    /\ wire[r].option \/ wire[r].armed \/ answers[r] # <<>> => Assigned(r)
    /\ Past(r, {"timeout"}) => wire[r].timed_out
    /\ Past(r, Ends) /\ wire[r].owner = None => ~wire[r].option \/ wire[r].timed_out
    /\ frame[w].at = "handler" /\ frame[w].req = r /\ wire[r].owner = None =>
          /\ frame[w].how \in Tidings /\ Past(r, Ends) => wire[r].timed_out
          /\ frame[w].how \in Endings => ~wire[r].timed_out
    /\ Exercises(w, r) /\ frame[w].how = "dirty" /\ Past(r, Ends) => wire[r].timed_out

SoleInv(w) ==
    /\ \A t \in Threads : t # w => frame[t] = Idle
    /\ DueAssigned
    /\ frame[w].at \in {"handler", "check", "advance", "cancel"} => Assigned(frame[w].req)
    /\ \A r \in Requests : PromiseInv(w, r)

\* The variables of Exchange.
Sent == {r \in Requests : wire[r].dispatch \notin {"new", "calling", "refused"}}

Hows == [r \in Requests |-> [i \in DOMAIN answers[r] |-> answers[r][i].how]]

PromiseStep == Promise!Next \/ UNCHANGED Promise!vars

LEMMA SilentIsPromised ==
    ASSUME Sent' = Sent, Hows' = Hows
    PROVE  PromiseStep
BY DEF Sent, Hows, PromiseStep, Promise!vars

LEMMA SendIsPromised ==
    ASSUME NEW r \in Requests, r \notin Sent, Sent' = Sent \cup {r}, Hows' = Hows
    PROVE  PromiseStep
BY DEF Sent, Hows, PromiseStep, Promise!Next, Promise!Send

LEMMA PastIsHeard ==
    ASSUME NEW r \in Requests, NEW hows
    PROVE  Past(r, hows) <=> Promise!Heard(r, hows)
BY DEF Past, Promise!Heard

LEMMA AnswerKinds ==
    ASSUME NEW q \in Seq(Answers)
    PROVE  \A i \in 1..Len(q) : q[i].how \in {"partial", "complete", "failed", "timeout"}
<1>1. \A i \in 1..Len(q) : q[i] \in Answers
  BY ElementOfSeq
<1> QED
  BY <1>1 DEF Answers

\* A callback adds one to what its request has heard.
LEMMA AnswerAdds ==
    ASSUME Types, NEW r \in Requests, NEW how \in {"partial", "complete", "failed", "timeout"},
           NEW of \in Requests \cup {None}, Answer(r, how, of)
    PROVE  /\ \A q \in Requests : q # r => answers'[q] = answers[q]
           /\ answers'[r] # <<>>
           /\ \A hows : Past(r, hows)' <=> Past(r, hows) \/ how \in hows
           /\ Hows' = [Hows EXCEPT ![r] = Append(@, how)]
<1>1. PICK a : a = [how |-> how, of |-> of]
  OBVIOUS
<1>2. a \in Answers /\ a.how = how
  BY <1>1 DEF Answers
<1>3. answers \in [Requests -> Seq(Answers)] /\ answers[r] \in Seq(Answers)
  BY DEF Types, DeliveryTypeOK
<1>4. /\ answers' = [answers EXCEPT ![r] = Append(answers[r], a)]
      /\ answers'[r] = Append(answers[r], a)
  BY <1>1, <1>3 DEF Answer
<1>5. /\ Append(answers[r], a) \in Seq(Answers)
      /\ Len(Append(answers[r], a)) = Len(answers[r]) + 1
      /\ \A i \in 1..Len(answers[r]) : Append(answers[r], a)[i] = answers[r][i]
      /\ Append(answers[r], a)[Len(answers[r]) + 1] = a
  BY <1>2, <1>3, AppendProperties
<1>6. /\ Len(answers[r]) \in Nat /\ DOMAIN answers[r] = 1..Len(answers[r])
      /\ DOMAIN answers'[r] = 1..(Len(answers[r]) + 1)
  BY <1>3, <1>4, <1>5, LenProperties
<1>7. /\ \A i \in DOMAIN answers[r] : i \in DOMAIN answers'[r] /\ answers'[r][i] = answers[r][i]
      /\ Len(answers[r]) + 1 \in DOMAIN answers'[r] /\ answers'[r][Len(answers[r]) + 1] = a
      /\ \A i \in DOMAIN answers'[r] : i \in DOMAIN answers[r] \/ i = Len(answers[r]) + 1
  BY <1>4, <1>5, <1>6
<1>8. ASSUME NEW hows
      PROVE  Past(r, hows)' <=> Past(r, hows) \/ how \in hows
  BY <1>2, <1>7 DEF Past
<1>9. \A q \in Requests : q # r => answers'[q] = answers[q]
  BY <1>3, <1>4
<1>10. answers'[r] # <<>>
  BY <1>6, <1>7
<1>11. Hows' = [Hows EXCEPT ![r] = Append(@, how)]
  <2>1. /\ Hows \in [Requests -> Seq({"partial", "complete", "failed", "timeout"})]
        /\ Hows[r] \in Seq({"partial", "complete", "failed", "timeout"})
        /\ Len(Hows[r]) = Len(answers[r])
    <3>1. ASSUME NEW q \in Requests
          PROVE  /\ Hows[q] \in Seq({"partial", "complete", "failed", "timeout"})
                 /\ Len(Hows[q]) = Len(answers[q])
      <4>1. answers[q] \in Seq(Answers)
        BY <1>3
      <4>2. Len(answers[q]) \in Nat /\ DOMAIN answers[q] = 1..Len(answers[q])
        BY <4>1, LenProperties
      <4>3. \A i \in 1..Len(answers[q]) :
                answers[q][i].how \in {"partial", "complete", "failed", "timeout"}
        BY <4>1, AnswerKinds
      <4>4. Hows[q] = [i \in 1..Len(answers[q]) |-> answers[q][i].how]
        BY <4>2 DEF Hows
      <4>5. PICK h, n : h = Hows[q] /\ n = Len(answers[q])
        OBVIOUS
      <4>6. n \in Nat /\ h = [i \in 1..n |-> h[i]]
            /\ \A i \in 1..n : h[i] \in {"partial", "complete", "failed", "timeout"}
        BY <4>2, <4>3, <4>4, <4>5
      <4>7. h \in Seq({"partial", "complete", "failed", "timeout"}) /\ Len(h) = n
        BY <4>6
      <4> QED
        BY <4>5, <4>7
    <3> QED
      BY <3>1 DEF Hows
  <2>2. Append(Hows[r], how) = [i \in 1..(Len(answers[r]) + 1) |-> answers'[r][i].how]
    <3> DEFINE h == [i \in 1..(Len(answers[r]) + 1) |-> answers'[r][i].how]
    <3>1. Hows[r] = [i \in 1..Len(answers[r]) |-> answers[r][i].how]
      BY <1>6 DEF Hows
    <3>2. \A i \in 1..Len(answers[r]) : Append(Hows[r], how)[i] = answers[r][i].how
      BY <2>1, <3>1
    <3>3. Append(Hows[r], how)[Len(answers[r]) + 1] = how
      BY <2>1
    <3>4. DOMAIN Append(Hows[r], how) = 1..(Len(answers[r]) + 1)
      BY <2>1, <1>6
    <3>5. \A i \in 1..(Len(answers[r]) + 1) : Append(Hows[r], how)[i] = h[i]
      BY <1>2, <1>6, <1>7, <3>2, <3>3
    <3>6. Append(Hows[r], how) \in Seq({"partial", "complete", "failed", "timeout"})
      BY <2>1, AppendProperties
    <3>7. Append(Hows[r], how) =
             [i \in 1..(Len(answers[r]) + 1) |-> Append(Hows[r], how)[i]]
      BY <3>4, <3>6
    <3> QED
      BY <3>5, <3>7
  <2>3. Hows'[r] = Append(Hows[r], how)
    BY <1>6, <2>2 DEF Hows
  <2>4. \A q \in Requests : q # r => Hows'[q] = Hows[q]
    BY <1>9 DEF Hows
  <2> QED
    BY <2>1, <2>3, <2>4 DEF Hows
<1> QED
  BY <1>8, <1>9, <1>10, <1>11

LEMMA TellIsPromised ==
    ASSUME NEW r \in Requests, NEW how, r \in Sent, Sent' = Sent,
           Hows' = [Hows EXCEPT ![r] = Append(@, how)],
           \/ (how \in {"partial", "complete", "failed"} /\ ~Past(r, Ends))
           \/ (how = "timeout" /\ ~Past(r, {"timeout"}))
    PROVE  PromiseStep
<1>1. Promise!Tell(r, how)
  BY DEF Promise!Tell, Sent, Hows
<1>2. /\ Past(r, Ends) <=> Promise!Ended(r)
      /\ Past(r, {"timeout"}) <=> Promise!Heard(r, {"timeout"})
  BY PastIsHeard DEF Promise!Ended, Ends
<1>3. Promise!Part(r) \/ Promise!End(r) \/ Promise!TimeOut(r)
  BY <1>1, <1>2 DEF Promise!Part, Promise!End, Promise!TimeOut
<1> QED
  BY <1>3 DEF PromiseStep, Promise!Next
-----------------------------------------------------------------------------
(***************************************************************************)
(* Each step keeps SoleInv(w) and is a step of Exchange.                   *)
(***************************************************************************)
\* Sent grows only when dispatch_via has given the request to the transport.
LEMMA SentStays ==
    ASSUME Types, Types', UNCHANGED answers,
           \A q \in Requests :
              \/ wire'[q].dispatch = wire[q].dispatch
              \/ /\ wire[q].dispatch \in {"new", "calling", "refused"}
                 /\ wire'[q].dispatch \in {"new", "calling", "refused"}
              \/ /\ wire[q].dispatch \notin {"new", "calling", "refused"}
                 /\ wire'[q].dispatch \notin {"new", "calling", "refused"}
    PROVE  PromiseStep
<1>1. Sent' = Sent
  BY DEF Sent
<1>2. Hows' = Hows
  BY DEF Hows
<1> QED
  BY <1>1, <1>2, SilentIsPromised

\* A step of dispatch_via or of a timer, which is not in a handler.
LEMMA DispatchKeeps ==
    ASSUME NEW w, Types, Types', SoleInv(w), UNCHANGED <<frame, answers>>,
           \A q \in Requests :
              /\ wire'[q].owner = wire[q].owner
              /\ wire'[q].timed_out = wire[q].timed_out
              /\ Assigned(q) => Assigned(q)'
              /\ wire'[q].option \/ wire'[q].armed => Assigned(q)'
              /\ wire'[q].option => wire[q].option \/ ~Assigned(q),
           DueAssigned',
           frame[w].at \in {"handler", "check", "advance", "cancel"} => frame[w].req \in Requests
    PROVE  SoleInv(w)'
<1>1. ASSUME NEW r \in Requests
      PROVE  PromiseInv(w, r)'
  <2>1. PromiseInv(w, r)
    BY DEF SoleInv
  <2>2. \A hows : Past(r, hows)' <=> Past(r, hows)
    BY DEF Past
  <2>3. ~Assigned(r) => \A hows : ~Past(r, hows)
    BY <2>1 DEF PromiseInv, Past
  <2>4. Exercises(w, r)' <=> Exercises(w, r)
    BY DEF Exercises
  <2> QED
    BY <2>1, <2>2, <2>3, <2>4 DEF PromiseInv
<1> QED
  BY <1>1 DEF SoleInv

LEMMA SeqElements ==
    ASSUME NEW S, NEW q \in Seq(S)
    PROVE  \A i \in DOMAIN q : q[i] \in S
BY LenProperties, ElementOfSeq

LEMMA SeqAppended ==
    ASSUME NEW S, NEW q \in Seq(S), NEW x \in S
    PROVE  \A i \in DOMAIN Append(q, x) :
              \/ Append(q, x)[i] = x
              \/ (i \in DOMAIN q /\ Append(q, x)[i] = q[i])
<1>1. /\ Append(q, x) \in Seq(S)
      /\ Len(Append(q, x)) = Len(q) + 1
      /\ \A i \in 1..Len(q) : Append(q, x)[i] = q[i]
      /\ Append(q, x)[Len(q) + 1] = x
  BY AppendProperties
<1>2. /\ Len(q) \in Nat /\ DOMAIN q = 1..Len(q)
      /\ DOMAIN Append(q, x) = 1..(Len(q) + 1)
  BY <1>1, LenProperties
<1> QED
  BY <1>1, <1>2

Due == [req : Requests, how : Endings]

LEMMA DueTypes ==
    ASSUME Types
    PROVE  due \in Seq(Due) /\ \A i \in DOMAIN due : due[i].req \in Requests
<1>1. due \in Seq(Due)
  BY DEF Types, DeliveryTypeOK, Due
<1>2. \A i \in DOMAIN due : due[i] \in Due
  BY <1>1, SeqElements
<1> QED
  BY <1>1, <1>2 DEF Due

\* A handler of a timer that is queued for r is one more that is due.
LEMMA DueAdded ==
    ASSUME Types, DueAssigned, NEW r \in Requests, Assigned(r), NEW how \in Endings,
           due' = Append(due, [req |-> r, how |-> how])
    PROVE  \A i \in DOMAIN due' : Assigned(due'[i].req) /\ due'[i].req \in Requests
<1>1. PICK x : x = [req |-> r, how |-> how]
  OBVIOUS
<1>2. x \in Due /\ x.req = r
  BY <1>1 DEF Due
<1>3. \A i \in DOMAIN due' : due'[i] = x \/ (i \in DOMAIN due /\ due'[i] = due[i])
  BY <1>1, <1>2, DueTypes, SeqAppended
<1> QED
  BY <1>2, <1>3, DueTypes DEF DueAssigned

\* An ended wait is of a request that has its option.
LEMMA UnarmedDue ==
    ASSUME NEW w, Types, SoleInv(w), NEW r \in Requests, due' = Unarmed(r)
    PROVE  \A i \in DOMAIN due' : Assigned(due'[i].req) /\ due'[i].req \in Requests
<1>1. CASE ~wire[r].armed
  BY <1>1, DueTypes DEF Unarmed, SoleInv, DueAssigned
<1>2. CASE wire[r].armed
  <2>1. Assigned(r) /\ DueAssigned
    BY <1>2 DEF SoleInv, PromiseInv
  <2>2. due' = Append(due, [req |-> r, how |-> "aborted"])
    BY <1>2 DEF Unarmed
  <2> QED
    BY <2>1, <2>2, DueAdded DEF Endings
<1> QED
  BY <1>1, <1>2

LEMMA FrameRequest ==
    ASSUME Types, NEW t \in Threads, frame[t].at # "idle"
    PROVE  frame[t].req \in Requests
<1>1. frame[t] \in DeliveryFrames
  BY DEF Types, DeliveryTypeOK
<1> QED
  BY <1>1 DEF DeliveryFrames, Frames, Idle

\* The steps of dispatch_via change the fields of one wire, as follows.
LEMMA DispatchFields ==
    ASSUME Types, NEW t \in Threads, NEW r \in Requests,
           DispatchVia(t, r) \/ Dispatch(t, r)
    PROVE  /\ \A q \in Requests : q # r => wire'[q] = wire[q]
           /\ wire'[r].owner = wire[r].owner
           /\ wire'[r].timed_out = wire[r].timed_out
           /\ \/ /\ wire[r].dispatch \in {"new", "calling"}
                 /\ wire'[r].dispatch \in {"new", "calling", "refused"}
                 /\ wire'[r].option = wire[r].option /\ wire'[r].armed = wire[r].armed
              \/ /\ wire[r].dispatch = "calling" /\ wire'[r].dispatch = "delivered"
                 /\ wire'[r].option = wire[r].option /\ wire'[r].armed = wire[r].armed
              \/ /\ wire[r].dispatch = "delivered" /\ wire'[r].dispatch = "assigned"
              \/ /\ wire[r].dispatch = "assigned" /\ wire'[r].dispatch = "done"
                 /\ wire'[r].option = wire[r].option
<1>1. wire \in [Requests -> Wires] /\ wire[r] \in Wires
  BY DEF Types, DeliveryTypeOK
<1>2. CASE DispatchVia(t, r)
  BY <1>1, <1>2 DEF DispatchVia, Wires
<1>3. CASE Delivers(t, r)
  BY <1>1, <1>3 DEF Delivers, Wires
<1>4. CASE DeliverFails(t, r)
  <2>1. \/ UNCHANGED wire
        \/ wire' = [wire EXCEPT ![r].dispatch = "refused", ![r].by = None]
    BY <1>4 DEF DeliverFails, vars
  <2> QED
    BY <1>1, <1>4, <2>1 DEF DeliverFails, Wires
<1>5. CASE AssignOption(t, r)
  BY <1>1, <1>5 DEF AssignOption, Wires
<1>6. CASE ArmTimer(t, r)
  BY <1>1, <1>6 DEF ArmTimer, Wires
<1> QED
  BY <1>2, <1>3, <1>4, <1>5, <1>6 DEF Dispatch

LEMMA DispatchIsPromised ==
    ASSUME NEW w, Types, Types', SoleInv(w), NEW t \in Threads, w \in Threads, NEW r \in Requests,
           DispatchVia(t, r) \/ Dispatch(t, r)
    PROVE  SoleInv(w)' /\ PromiseStep
<1>1. UNCHANGED <<frame, answers>>
  BY DEF DispatchVia, Dispatch, Delivers, DeliverFails, AssignOption, ArmTimer, Deliver,
         Faulty, vars
<1>2. due' = due \/ due' = Unarmed(r)
  BY DEF DispatchVia, Dispatch, Delivers, DeliverFails, AssignOption, ArmTimer
<1>3. PromiseInv(w, r)
  BY DEF SoleInv
<1>4. \A q \in Requests :
         /\ wire'[q].owner = wire[q].owner
         /\ wire'[q].timed_out = wire[q].timed_out
         /\ Assigned(q) => Assigned(q)'
         /\ wire'[q].option \/ wire'[q].armed => Assigned(q)'
         /\ wire'[q].option => wire[q].option \/ ~Assigned(q)
  <2>1. ASSUME NEW q \in Requests, q # r
        PROVE  /\ wire'[q] = wire[q]
               /\ wire[q].option \/ wire[q].armed => Assigned(q)
    BY <2>1, DispatchFields DEF SoleInv, PromiseInv
  <2>2. /\ wire'[r].owner = wire[r].owner
        /\ wire'[r].timed_out = wire[r].timed_out
        /\ Assigned(r) => Assigned(r)'
        /\ wire'[r].option \/ wire'[r].armed => Assigned(r)'
        /\ wire'[r].option => wire[r].option \/ ~Assigned(r)
    BY <1>3, DispatchFields DEF PromiseInv, Assigned
  <2> QED
    BY <2>1, <2>2 DEF Assigned
<1>5. DueAssigned'
  <2>1. \A i \in DOMAIN due' : Assigned(due'[i].req) /\ due'[i].req \in Requests
    BY <1>2, UnarmedDue, DueTypes DEF SoleInv, DueAssigned
  <2> QED
    BY <1>4, <2>1 DEF Assigned, DueAssigned
<1>6. SoleInv(w)'
  BY <1>1, <1>4, <1>5, DispatchKeeps, FrameRequest
<1>7. CASE wire[r].dispatch = "calling" /\ wire'[r].dispatch = "delivered"
  <2>1. r \notin Sent /\ Sent' = Sent \cup {r}
    BY <1>7, DispatchFields DEF Sent
  <2>2. Hows' = Hows
    BY <1>1 DEF Hows
  <2> QED
    BY <1>6, <2>1, <2>2, SendIsPromised
<1>8. CASE ~(wire[r].dispatch = "calling" /\ wire'[r].dispatch = "delivered")
  <2>1. PromiseStep
    BY <1>1, <1>8, DispatchFields, SentStays
  <2> QED
    BY <1>6, <2>1
<1> QED
  BY <1>7, <1>8

LEMMA ExpireIsPromised ==
    ASSUME NEW w, Types, Types', SoleInv(w), w \in Threads, NEW r \in Requests, Expire(r)
    PROVE  SoleInv(w)' /\ PromiseStep
<1>1. UNCHANGED <<frame, answers>>
  BY DEF Expire, vars
<1>2. wire \in [Requests -> Wires] /\ wire[r] \in Wires
  BY DEF Types, DeliveryTypeOK
<1>3. /\ \A q \in Requests : q # r => wire'[q] = wire[q]
      /\ wire'[r].owner = wire[r].owner /\ wire'[r].timed_out = wire[r].timed_out
      /\ wire'[r].option = wire[r].option /\ wire'[r].dispatch = wire[r].dispatch
  BY <1>2 DEF Expire, Wires
<1>4. Assigned(r)
  BY DEF Expire, SoleInv, PromiseInv
<1>5. \A q \in Requests :
         /\ wire'[q].owner = wire[q].owner
         /\ wire'[q].timed_out = wire[q].timed_out
         /\ Assigned(q) => Assigned(q)'
         /\ wire'[q].option \/ wire'[q].armed => Assigned(q)'
         /\ wire'[q].option => wire[q].option \/ ~Assigned(q)
  <2>1. \A q \in Requests : wire[q].option \/ wire[q].armed => Assigned(q)
    BY DEF SoleInv, PromiseInv
  <2> QED
    BY <1>3, <1>4, <2>1 DEF Assigned
<1>6. DueAssigned'
  <2>1. \A i \in DOMAIN due' : Assigned(due'[i].req) /\ due'[i].req \in Requests
    BY <1>4, DueAdded DEF Expire, SoleInv, Endings
  <2> QED
    BY <1>5, <2>1 DEF DueAssigned
<1>7. SoleInv(w)'
  BY <1>1, <1>5, <1>6, DispatchKeeps, FrameRequest
<1> QED
  BY <1>1, <1>3, <1>7, SentStays
-----------------------------------------------------------------------------
\* What a handler of r changes of the other requests: one of them may be dispatched.
Passes(q) ==
    /\ wire'[q].option = wire[q].option
    /\ wire'[q].armed = wire[q].armed
    /\ wire'[q].timed_out = wire[q].timed_out
    /\ wire'[q].owner = wire[q].owner
    /\ \/ wire'[q].dispatch = wire[q].dispatch
       \/ wire[q].dispatch = "new" /\ wire'[q].dispatch = "calling"

\* w stays between handlers, or is in one of r and was in no other.
StaysWith(w, r) ==
    \/ frame'[w] = Idle
    \/ /\ frame'[w].req = r
       /\ (frame[w] # Idle /\ frame[w].req = r) \/ Free(w)

LEMMA PassesAssigned ==
    ASSUME NEW q, Passes(q)
    PROVE  /\ Assigned(q) <=> Assigned(q)'
           /\ wire[q].dispatch \in {"new", "calling", "refused"}
                 <=> wire'[q].dispatch \in {"new", "calling", "refused"}
BY DEF Passes, Assigned

LEMMA OthersPromise ==
    ASSUME NEW w \in Threads, SoleInv(w), NEW r \in Requests, NEW q \in Requests, q # r,
           StaysWith(w, r), Passes(q), answers'[q] = answers[q]
    PROVE  PromiseInv(w, q)'
<1>1. PromiseInv(w, q)
  BY DEF SoleInv
<1>2. Idle.at = "idle"
  BY DEF Idle
<1>3. /\ ~Exercises(w, q)'
      /\ ~(frame'[w].at = "handler" /\ frame'[w].req = q)
  BY <1>2 DEF StaysWith, Exercises
<1>4. wire[q].owner = w => frame'[w] = Idle
  BY <1>1 DEF PromiseInv, StaysWith, Free
<1>5. \A hows : Past(q, hows)' <=> Past(q, hows)
  BY DEF Past
<1>6. Assigned(q) <=> Assigned(q)'
  BY PassesAssigned
<1> QED
  BY <1>1, <1>3, <1>4, <1>5, <1>6 DEF PromiseInv, Passes

\* A step of w for r: only what it does to r itself has to be looked at.
LEMMA SoleKept ==
    ASSUME NEW w \in Threads, SoleInv(w), NEW r \in Requests, NEW f,
           Types, frame' = [frame EXCEPT ![w] = f], StaysWith(w, r),
           \A q \in Requests : q # r => Passes(q) /\ answers'[q] = answers[q],
           Assigned(r) <=> Assigned(r)',
           \A i \in DOMAIN due' : Assigned(due'[i].req) /\ due'[i].req \in Requests,
           PromiseInv(w, r)',
           frame'[w].at \in {"handler", "check", "advance", "cancel"} => Assigned(r)
    PROVE  SoleInv(w)'
<1>1. \A t \in Threads : t # w => frame'[t] = Idle
  BY DEF SoleInv, Types, DeliveryTypeOK
<1>2. \A q \in Requests : Assigned(q) <=> Assigned(q)'
  BY PassesAssigned
<1>3. DueAssigned'
  BY <1>2 DEF DueAssigned, Assigned
<1>4. frame'[w].at \in {"handler", "check", "advance", "cancel"} =>
          frame'[w].req = r /\ Assigned(r)'
  BY DEF StaysWith, Idle
<1>5. \A q \in Requests : PromiseInv(w, q)'
  BY OthersPromise
<1> QED
  BY <1>1, <1>3, <1>4, <1>5 DEF SoleInv, Assigned

LEMMA SoleHandler ==
    ASSUME NEW w \in Threads, SoleInv(w), NEW t \in Threads, frame[t] # Idle
    PROVE  t = w
BY DEF SoleInv
\* A handler that gets the mutex of its request.
LEMMA LockedRequest ==
    ASSUME NEW w \in Threads, Types, SoleInv(w), NEW r \in Requests, Locks(w, r)
    PROVE  /\ frame[w] # Idle /\ frame[w].req = r /\ frame[w].at = "handler"
           /\ frame[w].of \in Requests \cup {None}
           /\ wire[r] \in Wires /\ wire[r].owner = None
           /\ Assigned(r) /\ r \in Sent
           /\ frame[w].how \in Tidings /\ Past(r, Ends) => wire[r].timed_out
           /\ frame[w].how \in Endings => ~wire[r].timed_out
           /\ Past(r, {"timeout"}) => wire[r].timed_out
           /\ ~Exercises(w, r)
<1>1. frame[w].at = "handler" /\ frame[w].req = r /\ wire[r].owner = None
  BY DEF Locks
<1>2. frame[w] # Idle
  BY <1>1 DEF Idle
<1>3. frame[w].of \in Requests \cup {None} /\ wire[r] \in Wires
  BY <1>1, DeliveryFrameKinds DEF Types, DeliveryTypeOK
<1>4. Assigned(r) /\ PromiseInv(w, r)
  BY <1>1 DEF SoleInv
<1> QED
  BY <1>1, <1>2, <1>3, <1>4 DEF PromiseInv, Sent, Assigned, Exercises

\* Nothing but r changes its place.
LEMMA SentAlways ==
    ASSUME \A q \in Requests :
              wire[q].dispatch \in {"new", "calling", "refused"}
                 <=> wire'[q].dispatch \in {"new", "calling", "refused"}
    PROVE  Sent' = Sent
BY DEF Sent

LEMMA SameSent ==
    ASSUME NEW r \in Requests, \A q \in Requests : q # r => Passes(q),
           wire'[r].dispatch = wire[r].dispatch
    PROVE  Sent' = Sent /\ (Assigned(r) <=> Assigned(r)')
<1>1. Sent' = Sent
  BY SentAlways, PassesAssigned
<1> QED
  BY <1>1 DEF Assigned

LEMMA PartialIsPromised ==
    ASSUME NEW w \in Threads, Types, Types', SoleInv(w), NEW r \in Requests, OnPartial(w, r)
    PROVE  SoleInv(w)' /\ PromiseStep
<1>1. Locks(w, r) /\ frame[w].how = "partial" /\ ~wire[r].timed_out
  BY DEF OnPartial
<1>2. frame' = [frame EXCEPT ![w] = Idle] /\ frame'[w] = Idle
  BY DEF OnPartial, Framed, Types, DeliveryTypeOK
<1>3. /\ wire'[r].armed /\ wire'[r].option = wire[r].option /\ wire'[r].owner = wire[r].owner
      /\ wire'[r].timed_out = wire[r].timed_out /\ wire'[r].dispatch = wire[r].dispatch
      /\ \A q \in Requests : q # r => Passes(q)
  BY LockedRequest, <1>1 DEF OnPartial, Types, DeliveryTypeOK, Wires, Passes
<1>4. Sent' = Sent /\ (Assigned(r) <=> Assigned(r)')
  BY <1>3, SameSent
<1>5. ~Past(r, Ends)
  BY <1>1, LockedRequest DEF Tidings
<1>6. /\ \A q \in Requests : q # r => answers'[q] = answers[q]
      /\ \A hows : Past(r, hows)' <=> Past(r, hows) \/ "partial" \in hows
      /\ Hows' = [Hows EXCEPT ![r] = Append(@, "partial")]
  BY <1>1, LockedRequest, AnswerAdds DEF OnPartial
<1>7. /\ ~Past(r, Ends)' /\ ~Past(r, {"timeout"})'
  BY <1>1, <1>5, <1>6, LockedRequest DEF Ends
<1>8. PromiseInv(w, r)'
  BY <1>1, <1>2, <1>3, <1>4, <1>7, LockedRequest DEF PromiseInv, Exercises, Idle
<1>9. \A i \in DOMAIN due' : Assigned(due'[i].req) /\ due'[i].req \in Requests
  BY UnarmedDue DEF OnPartial
<1>10. SoleInv(w)'
  BY <1>1, <1>2, <1>3, <1>4, <1>6, <1>8, <1>9, SoleKept, LockedRequest DEF StaysWith
<1> QED
  BY <1>1, <1>4, <1>5, <1>6, <1>10, TellIsPromised, LockedRequest

LEMMA CompleteIsPromised ==
    ASSUME NEW w \in Threads, Types, Types', SoleInv(w), NEW r \in Requests, OnComplete(w, r)
    PROVE  SoleInv(w)' /\ PromiseStep
<1>1. Locks(w, r) /\ frame[w].how = "complete" /\ ~wire[r].timed_out
  BY DEF OnComplete
<1>2. PICK f : f = frame[w] /\ frame' = [frame EXCEPT ![w] = f] /\ frame'[w] = f
  BY DEF OnComplete, vars, Types, DeliveryTypeOK
<1>3. PICK v : v = [wire EXCEPT ![r].armed = FALSE, ![r].owner = w]
  OBVIOUS
<1>4. /\ v \in [Requests -> Wires]
      /\ v[r].armed = FALSE /\ v[r].option = wire[r].option /\ v[r].owner = w
      /\ v[r].timed_out = wire[r].timed_out /\ v[r].dispatch = wire[r].dispatch
      /\ \A q \in Requests : q # r => v[q] = wire[q]
  <2>1. v \in [Requests -> Wires]
    BY <1>3, WireLockType DEF Types, DeliveryTypeOK
  <2> QED
    BY LockedRequest, <1>1, <1>3, <2>1 DEF Types, DeliveryTypeOK, Wires
<1>5. wire' = Follow(v, w, r, "complete")
  BY <1>3 DEF OnComplete
<1>6. /\ ~wire'[r].armed /\ wire'[r].option = wire[r].option /\ wire'[r].owner = w
      /\ wire'[r].timed_out = wire[r].timed_out /\ wire'[r].dispatch = wire[r].dispatch
      /\ \A q \in Requests : q # r => Passes(q)
  BY <1>1, <1>4, <1>5, FollowFields, LockedRequest DEF Passes, Assigned
<1>7. Sent' = Sent /\ (Assigned(r) <=> Assigned(r)')
  BY <1>6, SameSent
<1>8. ~Past(r, Ends)
  BY <1>1, LockedRequest DEF Tidings
<1>9. /\ \A q \in Requests : q # r => answers'[q] = answers[q]
      /\ \A hows : Past(r, hows)' <=> Past(r, hows) \/ "complete" \in hows
      /\ Hows' = [Hows EXCEPT ![r] = Append(@, "complete")]
  BY <1>1, LockedRequest, AnswerAdds DEF OnComplete
<1>10. ~Past(r, {"timeout"})'
  BY <1>1, <1>9, LockedRequest
<1>11. w # None
  BY SchedulerAssumption DEF Threads
<1>12. PromiseInv(w, r)'
  BY <1>1, <1>2, <1>6, <1>7, <1>10, <1>11, LockedRequest DEF PromiseInv, Exercises
<1>13. \A i \in DOMAIN due' : Assigned(due'[i].req) /\ due'[i].req \in Requests
  BY UnarmedDue DEF OnComplete
<1>14. SoleInv(w)'
  <2>1. StaysWith(w, r)
    BY <1>1, <1>2, LockedRequest DEF StaysWith
  <2>2. Assigned(r)
    BY <1>1, LockedRequest
  <2> QED
    BY <1>2, <1>6, <1>7, <1>9, <1>12, <1>13, <2>1, <2>2, SoleKept
<1> QED
  BY <1>1, <1>7, <1>8, <1>9, <1>14, TellIsPromised, LockedRequest

LEMMA TimeoutIsPromised ==
    ASSUME NEW w \in Threads, Types, Types', SoleInv(w), NEW r \in Requests, OnTimeout(w, r)
    PROVE  SoleInv(w)' /\ PromiseStep
<1>1. Locks(w, r) /\ frame[w].how = "expired"
  BY DEF OnTimeout
<1>2. PICK f : f = frame[w] /\ frame' = [frame EXCEPT ![w] = f] /\ frame'[w] = f
  BY DEF OnTimeout, vars, Types, DeliveryTypeOK
<1>3. PICK v : v = [wire EXCEPT ![r].timed_out = TRUE, ![r].owner = w]
  OBVIOUS
<1>4. /\ v \in [Requests -> Wires]
      /\ v[r].armed = wire[r].armed /\ v[r].option = wire[r].option /\ v[r].owner = w
      /\ v[r].timed_out /\ v[r].dispatch = wire[r].dispatch
      /\ \A q \in Requests : q # r => v[q] = wire[q]
  <2>1. v \in [Requests -> Wires]
    BY <1>3, WireLockType DEF Types, DeliveryTypeOK
  <2> QED
    BY LockedRequest, <1>1, <1>3, <2>1 DEF Types, DeliveryTypeOK, Wires
<1>5. wire' = Follow(v, w, r, "timeout")
  BY <1>3 DEF OnTimeout
<1>6. /\ wire'[r].option = wire[r].option /\ wire'[r].owner = w
      /\ wire'[r].timed_out /\ wire'[r].dispatch = wire[r].dispatch
      /\ \A q \in Requests : q # r => Passes(q)
  BY <1>1, <1>4, <1>5, FollowFields, LockedRequest DEF Passes, Assigned
<1>7. Sent' = Sent /\ (Assigned(r) <=> Assigned(r)')
  BY <1>6, SameSent
<1>8. ~Past(r, {"timeout"})
  BY <1>1, LockedRequest DEF Endings
<1>9. /\ \A q \in Requests : q # r => answers'[q] = answers[q]
      /\ Hows' = [Hows EXCEPT ![r] = Append(@, "timeout")]
  BY <1>1, LockedRequest, AnswerAdds DEF OnTimeout
<1>10. w # None
  BY SchedulerAssumption DEF Threads
<1>11. PromiseInv(w, r)'
  BY <1>1, <1>2, <1>6, <1>7, <1>10, LockedRequest DEF PromiseInv, Exercises
<1>12. \A i \in DOMAIN due' : Assigned(due'[i].req) /\ due'[i].req \in Requests
  BY DueTypes DEF OnTimeout, SoleInv, DueAssigned
<1>13. SoleInv(w)'
  <2>1. StaysWith(w, r)
    BY <1>1, <1>2, LockedRequest DEF StaysWith
  <2>2. Assigned(r)
    BY <1>1, LockedRequest
  <2> QED
    BY <1>2, <1>6, <1>7, <1>9, <1>11, <1>12, <2>1, <2>2, SoleKept
<1> QED
  BY <1>1, <1>7, <1>8, <1>9, <1>13, TellIsPromised, LockedRequest
\* The steps of a handler that call nobody back.
LEMMA SilentHandler ==
    ASSUME NEW w \in Threads, Types, Types', SoleInv(w), NEW r \in Requests, NEW f,
           UNCHANGED answers, frame' = [frame EXCEPT ![w] = f], StaysWith(w, r),
           \A q \in Requests : q # r => wire'[q] = wire[q],
           wire'[r].dispatch = wire[r].dispatch,
           due' = due \/ due' = Unarmed(r),
           PromiseInv(w, r)',
           frame'[w].at \in {"handler", "check", "advance", "cancel"} => Assigned(r)
    PROVE  SoleInv(w)' /\ PromiseStep
<1>1. \A q \in Requests : q # r => Passes(q) /\ answers'[q] = answers[q]
  BY DEF Passes
<1>2. Sent' = Sent /\ (Assigned(r) <=> Assigned(r)')
  BY <1>1, SameSent
<1>3. Hows' = Hows
  BY DEF Hows
<1>4. \A i \in DOMAIN due' : Assigned(due'[i].req) /\ due'[i].req \in Requests
  BY UnarmedDue, DueTypes DEF SoleInv, DueAssigned
<1>5. SoleInv(w)'
  BY <1>1, <1>2, <1>4, SoleKept
<1> QED
  BY <1>2, <1>3, <1>5, SilentIsPromised

LEMMA SilentHandlersArePromised ==
    ASSUME NEW w \in Threads, Types, Types', SoleInv(w), NEW r \in Requests,
           \/ TerminatesClean(w, r)
           \/ OnError(w, r)
           \/ DropsOption(w, r)
           \/ OnTimeoutCancelled(w, r)
           \/ Releases(w, r)
    PROVE  SoleInv(w)' /\ PromiseStep
<1>1. /\ PromiseInv(w, r) /\ wire[r] \in Wires /\ wire \in [Requests -> Wires]
      /\ frame \in [Threads -> DeliveryFrames] /\ w # None
  BY SchedulerAssumption DEF SoleInv, Types, DeliveryTypeOK, Threads
<1>2. frame[w].at \in {"handler", "check", "advance", "cancel"} => Assigned(frame[w].req)
  BY DEF SoleInv
<1>3. \A how : /\ Exercising(r, how).at = "check" /\ Exercising(r, how).req = r
               /\ Exercising(r, how).how = how
  BY DEF Exercising
<1>4. Idle.at = "idle" /\ UNCHANGED answers
  BY DEF Idle, TerminatesClean, OnError, DropsOption, OnTimeoutCancelled, Releases
<1>5. \A hows : Past(r, hows)' <=> Past(r, hows)
  BY <1>4 DEF Past
<1>6. CASE TerminatesClean(w, r)
  <2>1. /\ wire[r].owner = w /\ frame[w].at = "handler" /\ frame[w] # Idle
        /\ UNCHANGED <<wire, due>>
    BY <1>4, <1>6 DEF TerminatesClean
  <2>2. frame[w].req = r /\ Assigned(r)
    BY <1>1, <1>2, <2>1 DEF PromiseInv
  <2>3. PICK f : /\ frame' = [frame EXCEPT ![w] = f] /\ frame'[w] = f
                 /\ f = frame[w] \/ f = Exercising(r, "clean")
    BY <1>1, <1>6 DEF TerminatesClean, Framed, Faulty
  <2>4. StaysWith(w, r)
    BY <1>3, <2>1, <2>2, <2>3 DEF StaysWith
  <2>5. PromiseInv(w, r)'
    BY <1>1, <1>3, <1>4, <1>5, <2>1, <2>2, <2>3 DEF PromiseInv, Exercises, Assigned
  <2> QED
    BY <1>4, <2>1, <2>2, <2>3, <2>4, <2>5, SilentHandler
<1>7. CASE OnError(w, r)
  <2>1. Locks(w, r) /\ frame[w].how \in Tidings /\ due' = Unarmed(r)
    BY <1>7 DEF OnError, Tidings
  <2>2. /\ ~wire'[r].armed /\ wire'[r].owner = w /\ wire'[r].option = wire[r].option
        /\ wire'[r].timed_out = wire[r].timed_out /\ wire'[r].dispatch = wire[r].dispatch
        /\ \A q \in Requests : q # r => wire'[q] = wire[q]
    BY <1>1, <1>7 DEF OnError, Wires
  <2>3. PICK f : /\ frame' = [frame EXCEPT ![w] = f] /\ frame'[w] = f
                 /\ f = frame[w] \/ f = Exercising(r, "dirty")
    BY <1>1, <1>7 DEF OnError, Framed, Faulty
  <2>4. StaysWith(w, r)
    BY <1>3, <2>1, <2>3, LockedRequest DEF StaysWith
  <2>5. PromiseInv(w, r)'
    BY <1>1, <1>3, <1>4, <1>5, <2>1, <2>2, <2>3, LockedRequest
       DEF PromiseInv, Exercises, Assigned
  <2>6. Assigned(r)
    BY <2>1, LockedRequest
  <2> QED
    BY <1>4, <2>1, <2>2, <2>3, <2>4, <2>5, <2>6, SilentHandler
<1>8. CASE DropsOption(w, r)
  <2>1. wire[r].owner = w /\ frame[w].at = "handler" /\ frame[w] # Idle /\ due' = due
    BY <1>4, <1>8 DEF DropsOption
  <2>2. frame[w].req = r /\ Assigned(r)
    BY <1>1, <1>2, <2>1 DEF PromiseInv
  <2>3. CASE wire[r].option
    <3>1. /\ wire' = wire /\ frame' = [frame EXCEPT ![w] = Exercising(r, "drop")]
          /\ frame'[w] = Exercising(r, "drop")
      BY <1>1, <1>8, <2>3 DEF DropsOption, Framed
    <3>2. StaysWith(w, r)
      BY <1>3, <2>1, <2>2, <3>1 DEF StaysWith
    <3>3. PromiseInv(w, r)'
      BY <1>1, <1>3, <1>5, <2>1, <2>2, <3>1, <1>4 DEF PromiseInv, Exercises, Assigned
    <3> QED
      BY <1>4, <2>1, <2>2, <3>1, <3>2, <3>3, SilentHandler
  <2>4. CASE ~wire[r].option
    <3>1. /\ wire'[r].owner = None /\ wire'[r].option = wire[r].option
          /\ wire'[r].timed_out = wire[r].timed_out /\ wire'[r].dispatch = wire[r].dispatch
          /\ wire'[r].armed = wire[r].armed
          /\ \A q \in Requests : q # r => wire'[q] = wire[q]
      BY <1>1, <1>8, <2>4 DEF DropsOption, Wires
    <3>2. frame' = [frame EXCEPT ![w] = Idle] /\ frame'[w] = Idle
      BY <1>1, <1>8, <2>4 DEF DropsOption, Framed
    <3>3. PromiseInv(w, r)'
      BY <1>1, <1>4, <1>5, <2>2, <2>4, <3>1, <3>2 DEF PromiseInv, Exercises, Assigned
    <3>4. StaysWith(w, r)
      BY <3>2 DEF StaysWith
    <3> QED
      BY <1>4, <2>1, <2>2, <3>1, <3>2, <3>3, <3>4, SilentHandler
  <2> QED
    BY <2>3, <2>4
<1>9. CASE OnTimeoutCancelled(w, r)
  <2>1. Locks(w, r) /\ frame[w].how \in Endings /\ due' = due
    BY <1>9 DEF OnTimeoutCancelled, Endings
  <2>2. /\ ~wire'[r].timed_out /\ wire'[r].owner = wire[r].owner
        /\ wire'[r].option = wire[r].option
        /\ wire'[r].armed = wire[r].armed /\ wire'[r].dispatch = wire[r].dispatch
        /\ \A q \in Requests : q # r => wire'[q] = wire[q]
    BY <1>1, <1>9 DEF OnTimeoutCancelled, Wires
  <2>3. frame' = [frame EXCEPT ![w] = Idle] /\ frame'[w] = Idle
    BY <1>1, <1>9 DEF OnTimeoutCancelled, Framed
  <2>4. ~wire[r].timed_out /\ Assigned(r)
    BY <2>1, LockedRequest
  <2>5. PromiseInv(w, r)'
    BY <1>1, <1>4, <1>5, <2>2, <2>3, <2>4 DEF PromiseInv, Exercises, Assigned
  <2>6. StaysWith(w, r)
    BY <2>3 DEF StaysWith
  <2> QED
    BY <1>4, <2>1, <2>2, <2>3, <2>4, <2>5, <2>6, SilentHandler
<1>10. CASE Releases(w, r)
  <2>1. frame[w] = Idle /\ due' = due
    BY <1>10 DEF Releases
  <2>2. /\ ~wire'[r].option /\ wire'[r].owner = None /\ wire'[r].armed = wire[r].armed
        /\ wire'[r].timed_out = wire[r].timed_out /\ wire'[r].dispatch = wire[r].dispatch
        /\ \A q \in Requests : q # r => wire'[q] = wire[q]
    BY <1>1, <1>10 DEF Releases, Wires
  <2>3. PICK f : f = Idle /\ frame' = [frame EXCEPT ![w] = f] /\ frame'[w] = f
    BY <1>1, <1>10 DEF Releases, vars
  <2>4. PromiseInv(w, r)'
    BY <1>1, <1>4, <1>5, <2>2, <2>3 DEF PromiseInv, Exercises, Assigned
  <2>5. StaysWith(w, r)
    BY <2>3 DEF StaysWith
  <2> QED
    BY <1>4, <2>1, <2>2, <2>3, <2>4, <2>5, SilentHandler
<1> QED
  BY <1>6, <1>7, <1>8, <1>9, <1>10

\* A handler of a request, on whichever thread.
LEMMA HandlerIsPromised ==
    ASSUME NEW w \in Threads, Types, Types', SoleInv(w), NEW t \in Threads, NEW r \in Requests,
           Handler(t, r)
    PROVE  SoleInv(w)' /\ PromiseStep
<1>1. t = w
  <2>1. frame[t].at = "handler" \/ wire[r].owner = t
    BY DEF Handler, OnPartial, OnComplete, TerminatesClean, OnError, OnTimeout, DropsOption,
           OnTimeoutCancelled, Releases, Locks
  <2>2. frame[t].at = "handler" => t = w
    BY SoleHandler DEF Idle
  <2>3. wire[r].owner = t => t = w
    BY SchedulerAssumption DEF SoleInv, PromiseInv, Threads
  <2> QED
    BY <2>1, <2>2, <2>3
<1> QED
  BY <1>1, PartialIsPromised, CompleteIsPromised, TimeoutIsPromised,
     SilentHandlersArePromised DEF Handler
\* on_response is entered past its assertion: its request still has its option.
LEMMA ResponseIsPromised ==
    ASSUME NEW w \in Threads, Types, Types', SoleInv(w), NEW t \in Threads, EnterOnResponse(t)
    PROVE  SoleInv(w)' /\ PromiseStep
<1>1. frame[t].at = "calling" /\ frame[t] # Idle
  BY DEF EnterOnResponse, Idle
<1>2. t = w
  BY <1>1, SoleHandler
<1>3. PICK r \in Requests : r = frame[w].req
  BY <1>1, <1>2, FrameRequest
<1>4. frame[w] \in Frames /\ frame \in [Threads -> DeliveryFrames]
  BY <1>1, <1>2, DeliveryFrameKinds DEF Types, DeliveryTypeOK
<1>5. PromiseInv(w, r) /\ wire[r].owner = None
  <2>1. PromiseInv(w, r)
    BY DEF SoleInv
  <2> QED
    BY <1>1, <1>2, <2>1 DEF PromiseInv
<1>6. UNCHANGED <<wire, due, answers>>
  BY DEF EnterOnResponse
<1>7. \A hows : Past(r, hows)' <=> Past(r, hows)
  BY <1>6 DEF Past
<1>8. CASE frame' = frame
  <2>1. PICK f : f = frame[w] /\ frame' = [frame EXCEPT ![w] = f] /\ frame'[w] = f
    BY <1>4, <1>8
  <2>2. StaysWith(w, r)
    BY <1>1, <1>2, <1>3, <2>1 DEF StaysWith
  <2>3. PromiseInv(w, r)'
    BY <1>5, <1>6, <1>7, <1>8 DEF PromiseInv, Exercises, Assigned
  <2> QED
    BY <1>1, <1>2, <1>6, <2>1, <2>2, <2>3, SilentHandler
<1>9. CASE EnterHandler(t) /\ wire[r].option
  <2>1. PICK q, news, f : EntersAs(w, q, news, f)
    BY <1>2, <1>4, <1>9, EnterHandlerAs
  <2>2. frame' = [frame EXCEPT ![w] = f] /\ frame'[w] = f
    BY <1>4, <2>1 DEF EntersAs
  <2>3. f.at = "handler" /\ f.req = r /\ f.how = news.how
    BY <1>3, <2>1 DEF EntersAs
  <2>4. news.how \in Tidings
    BY <2>1 DEF EntersAs, News
  <2>5. Assigned(r)
    BY <1>5, <1>9 DEF PromiseInv
  <2>6. StaysWith(w, r)
    BY <1>1, <1>2, <1>3, <2>2, <2>3 DEF StaysWith
  <2>7. f.how \notin Endings
    BY <2>3, <2>4 DEF Tidings, Endings
  <2>8. PromiseInv(w, r)'
    BY <1>5, <1>6, <1>7, <1>9, <2>2, <2>3, <2>7, SchedulerAssumption
       DEF PromiseInv, Exercises, Assigned, Threads
  <2> QED
    BY <1>6, <2>2, <2>5, <2>6, <2>8, SilentHandler
<1> QED
  BY <1>2, <1>3, <1>8, <1>9 DEF EnterOnResponse, Faulty

\* on_timeout is entered past its assertion: its request has not timed out.
LEMMA TimerIsPromised ==
    ASSUME NEW w \in Threads, Types, Types', SoleInv(w), EnterOnTimeout(w)
    PROVE  SoleInv(w)' /\ PromiseStep
<1>1. frame[w] = Idle /\ Free(w) /\ UNCHANGED <<wire, answers>> /\ due' = Tail(due)
  BY DEF EnterOnTimeout, AtRest
<1>2. \A i \in DOMAIN due' : Assigned(due'[i].req) /\ due'[i].req \in Requests
  <2>1. due \in Seq(Due) /\ due # <<>>
    BY DueTypes DEF EnterOnTimeout
  <2>2. /\ Len(due) \in Nat /\ DOMAIN due = 1..Len(due)
        /\ Tail(due) \in Seq(Due) /\ Len(Tail(due)) = Len(due) - 1
        /\ \A i \in 1..Len(Tail(due)) : Tail(due)[i] = due[i + 1]
    BY <2>1, LenProperties, HeadTailProperties
  <2>3. DOMAIN Tail(due) = 1..(Len(due) - 1)
    BY <2>2, LenProperties
  <2>4. \A i \in DOMAIN Tail(due) : i + 1 \in DOMAIN due /\ Tail(due)[i] = due[i + 1]
    BY <2>2, <2>3
  <2> QED
    BY <1>1, <2>4, DueTypes DEF SoleInv, DueAssigned
<1>3. PICK h : h = Head(due)
  OBVIOUS
<1>4. h.req \in Requests /\ h.how \in Endings /\ Assigned(h.req)
  <2>1. due \in Seq(Due) /\ due # <<>>
    BY DueTypes DEF EnterOnTimeout
  <2>2. h \in Due
    BY <1>3, <2>1, HeadTailProperties
  <2>3. h = due[1] /\ 1 \in DOMAIN due
    BY <1>3, <2>1, LenProperties, EmptySeq
  <2> QED
    BY <2>2, <2>3 DEF Due, SoleInv, DueAssigned
<1>5. PICK r \in Requests : r = h.req
  BY <1>4
<1>6. frame \in [Threads -> DeliveryFrames] /\ PromiseInv(w, r) /\ wire[r].owner = None
  <2>1. PromiseInv(w, r)
    BY DEF SoleInv
  <2> QED
    BY <1>1, <2>1 DEF PromiseInv, Free, Types, DeliveryTypeOK
<1>7. PICK f : /\ frame' = [frame EXCEPT ![w] = f] /\ frame'[w] = f
               /\ \/ f = Idle
                  \/ /\ f = [at |-> "handler", req |-> r, how |-> h.how, of |-> None]
                     /\ ~wire[r].timed_out
  BY <1>1, <1>3, <1>5, <1>6 DEF EnterOnTimeout, Framed, Faulty
<1>8. /\ f # Idle => f.at = "handler" /\ f.req = r /\ f.how \in Endings /\ ~wire[r].timed_out
      /\ f = Idle => f.at = "idle"
  BY <1>4, <1>7 DEF Idle
<1>9. \A hows : Past(r, hows)' <=> Past(r, hows)
  BY <1>1 DEF Past
<1>10. f # Idle => f.how \notin Tidings
  BY <1>8 DEF Endings, Tidings
<1>11. PromiseInv(w, r)'
  BY <1>1, <1>6, <1>7, <1>8, <1>9, <1>10, SchedulerAssumption
     DEF PromiseInv, Exercises, Assigned, Threads
<1>12. StaysWith(w, r)
  BY <1>1, <1>7, <1>8 DEF StaysWith
<1>13. SoleInv(w)'
  <2>1. \A q \in Requests : Passes(q) /\ answers'[q] = answers[q]
    BY <1>1 DEF Passes
  <2>2. Assigned(r) /\ Assigned(r)'
    BY <1>1, <1>4, <1>5 DEF Assigned
  <2> QED
    BY <1>2, <1>7, <1>11, <1>12, <2>1, <2>2, SoleKept
<1> QED
  BY <1>1, <1>13, SilentIsPromised DEF Sent, Hows
\* What the steps of exercise do to the frame of their thread.
LEMMA ExerciseFrames ==
    ASSUME Types, NEW t \in Threads,
           \/ ExerciseActive(t) \/ ExerciseQueued(t) \/ ExerciseFaults(t)
           \/ ExerciseAdvances(t) \/ ExerciseCancels(t)
    PROVE  /\ frame[t].at \in {"check", "advance", "cancel"}
           /\ \E f : /\ frame' = [frame EXCEPT ![t] = f] /\ frame'[t] = f
                     /\ \/ f = Idle
                        \/ /\ f # Idle /\ f.at \in {"check", "advance", "cancel"}
                           /\ f.req = frame[t].req /\ f.how = frame[t].how
<1>1. frame \in [Threads -> DeliveryFrames]
  BY DEF Types, DeliveryTypeOK
<1>2. frame[t].at \in {"check", "advance", "cancel"}
  BY DEF ExerciseActive, ExerciseQueued, ExerciseFaults, ExerciseAdvances, ExerciseCancels,
         ReadsPool
<1>3. frame[t] \in Frames
  BY <1>1, <1>2, DeliveryFrameKinds
<1>4. frame[t] # Idle
  BY <1>2 DEF Idle
<1>5. CASE frame' = [frame EXCEPT ![t] = Idle] \/ UNCHANGED frame
  BY <1>1, <1>2, <1>4, <1>5
<1>6. ASSUME NEW at \in {"advance", "cancel"}, frame' = [frame EXCEPT ![t].at = at]
      PROVE  \E f : /\ frame' = [frame EXCEPT ![t] = f] /\ frame'[t] = f
                    /\ f # Idle /\ f.at \in {"check", "advance", "cancel"}
                    /\ f.req = frame[t].req /\ f.how = frame[t].how
  <2>1. PICK f : f = [frame[t] EXCEPT !.at = at]
    OBVIOUS
  <2>2. frame' = [frame EXCEPT ![t] = f] /\ frame'[t] = f
    BY <1>1, <1>6, <2>1
  <2>3. f.at = at /\ f.req = frame[t].req /\ f.how = frame[t].how
    BY <1>2, <1>3, <2>1 DEF Frames, Idle
  <2>4. f # Idle
    BY <2>3 DEF Idle
  <2> QED
    BY <2>2, <2>3, <2>4
<1>7. \/ frame' = [frame EXCEPT ![t] = Idle] \/ UNCHANGED frame
      \/ \E at \in {"advance", "cancel"} : frame' = [frame EXCEPT ![t].at = at]
  BY DEF ExerciseActive, ExerciseQueued, ExerciseFaults, ExerciseAdvances, ExerciseCancels
<1> QED
  BY <1>2, <1>5, <1>6, <1>7

\* The option is exercised with the mutex of its request held; with an error its
\* callback is called then.
LEMMA ExerciseIsPromised ==
    ASSUME NEW w \in Threads, Types, Types', SoleInv(w), NEW t \in Threads, Exercise(t)
    PROVE  SoleInv(w)' /\ PromiseStep
<1>1. /\ frame[t].at \in {"check", "advance", "cancel"} /\ frame[t] # Idle
      /\ \/ ExerciseActive(t) \/ ExerciseQueued(t) \/ ExerciseFaults(t)
         \/ ExerciseAdvances(t) \/ ExerciseCancels(t)
  BY ExerciseFrames DEF Exercise, Idle
<1>2. t = w
  BY <1>1, SoleHandler
<1>3. PICK r \in Requests : r = frame[w].req
  BY <1>1, <1>2, FrameRequest DEF Idle
<1>4. PICK f : /\ frame' = [frame EXCEPT ![w] = f] /\ frame'[w] = f
               /\ \/ f = Idle
                  \/ /\ f # Idle /\ f.at \in {"check", "advance", "cancel"}
                     /\ f.req = r /\ f.how = frame[w].how
  BY <1>1, <1>2, <1>3, ExerciseFrames
<1>5. /\ PromiseInv(w, r) /\ Exercises(w, r) /\ wire[r].owner = w /\ Assigned(r)
      /\ wire \in [Requests -> Wires] /\ wire[r] \in Wires /\ w # None
  <2>1. PromiseInv(w, r) /\ Exercises(w, r)
    BY <1>1, <1>2, <1>3 DEF SoleInv, Exercises
  <2>2. wire[r].owner = w
    BY <2>1 DEF PromiseInv
  <2>3. Assigned(r)
    BY <1>1, <1>2, <1>3 DEF SoleInv
  <2> QED
    BY <2>1, <2>2, <2>3, SchedulerAssumption DEF Types, DeliveryTypeOK, Threads
<1>6. StaysWith(w, r)
  BY <1>1, <1>2, <1>3, <1>4 DEF StaysWith
<1>7. due' = due
  BY DEF Exercise
<1>8. CASE f # Idle
  <2>1. UNCHANGED <<wire, answers>>
    BY <1>2, <1>4, <1>8 DEF Exercise
  <2>2. \A hows : Past(r, hows)' <=> Past(r, hows)
    BY <2>1 DEF Past
  <2>3. PromiseInv(w, r)'
    BY <1>4, <1>5, <1>8, <2>1, <2>2 DEF PromiseInv, Exercises, Assigned
  <2> QED
    BY <1>4, <1>5, <1>6, <1>7, <2>1, <2>3, SilentHandler
<1>9. CASE f = Idle
  <2>1. PICK how : how = frame[w].how /\ Exercised(w, r, how)
    BY <1>2, <1>3, <1>4, <1>9 DEF Exercise
  <2>2. Idle.at = "idle" /\ frame'[w] = Idle
    BY <1>4, <1>9 DEF Idle
  <2>3. CASE how = "dirty" /\ wire[r].timed_out
    <3>1. UNCHANGED <<wire, answers>>
      BY <2>1, <2>3 DEF Exercised
    <3>2. \A hows : Past(r, hows)' <=> Past(r, hows)
      BY <3>1 DEF Past
    <3>3. PromiseInv(w, r)'
      BY <1>5, <2>2, <3>1, <3>2 DEF PromiseInv, Exercises, Assigned
    <3> QED
      BY <1>4, <1>5, <1>6, <1>7, <3>1, <3>3, SilentHandler
  <2>4. CASE how # "dirty"
    <3>1. /\ UNCHANGED answers
          /\ ~wire'[r].option /\ wire'[r].owner = None /\ wire'[r].armed = wire[r].armed
          /\ wire'[r].timed_out = wire[r].timed_out /\ wire'[r].dispatch = wire[r].dispatch
          /\ \A q \in Requests : q # r => wire'[q] = wire[q]
      <4>1. PICK b : b = (wire[r].succeeded \/ how = "clean")
        OBVIOUS
      <4>2. wire' = [wire EXCEPT ![r].option = FALSE, ![r].owner = None, ![r].succeeded = b]
        BY <2>1, <2>4, <4>1 DEF Exercised
      <4>3. UNCHANGED answers
        BY <2>1, <2>4 DEF Exercised
      <4> QED
        BY <1>5, <4>2, <4>3 DEF Wires
    <3>2. \A hows : Past(r, hows)' <=> Past(r, hows)
      BY <3>1 DEF Past
    <3>3. PromiseInv(w, r)'
      BY <1>5, <2>2, <3>1, <3>2 DEF PromiseInv, Exercises, Assigned
    <3> QED
      BY <1>4, <1>5, <1>6, <1>7, <3>1, <3>3, SilentHandler
  <2>5. CASE how = "dirty" /\ ~wire[r].timed_out
    <3>1. Answer(r, "failed", None) /\ wire' = Follow(wire, w, r, "failed")
      BY <2>1, <2>5 DEF Exercised
    <3>2. /\ wire'[r].option = wire[r].option /\ wire'[r].owner = w
          /\ wire'[r].armed = wire[r].armed
          /\ wire'[r].timed_out = wire[r].timed_out /\ wire'[r].dispatch = wire[r].dispatch
          /\ \A q \in Requests : q # r => Passes(q)
      BY <1>5, <3>1, FollowFields DEF Passes, Assigned
    <3>3. Sent' = Sent /\ (Assigned(r) <=> Assigned(r)') /\ r \in Sent
      BY <1>5, <3>2, SameSent DEF Sent, Assigned
    <3>4. ~Past(r, Ends)
      BY <1>5, <2>1, <2>5 DEF PromiseInv
    <3>5. /\ \A q \in Requests : q # r => answers'[q] = answers[q]
          /\ \A hows : Past(r, hows)' <=> Past(r, hows) \/ "failed" \in hows
          /\ Hows' = [Hows EXCEPT ![r] = Append(@, "failed")]
      BY <3>1, AnswerAdds
    <3>6. ~Past(r, {"timeout"})'
      BY <1>5, <2>5, <3>5 DEF PromiseInv
    <3>7. PromiseInv(w, r)'
      BY <1>5, <2>2, <3>2, <3>3, <3>6 DEF PromiseInv, Exercises
    <3>8. \A i \in DOMAIN due' : Assigned(due'[i].req) /\ due'[i].req \in Requests
      BY <1>7, DueTypes DEF SoleInv, DueAssigned
    <3>9. SoleInv(w)'
      BY <1>4, <1>5, <1>6, <3>2, <3>3, <3>5, <3>7, <3>8, SoleKept
    <3> QED
      BY <3>3, <3>4, <3>5, <3>9, TellIsPromised
  <2> QED
    BY <2>3, <2>4, <2>5
<1> QED
  BY <1>8, <1>9
\* A step that only the transport takes.
LEMMA SoleUnchanged ==
    ASSUME NEW w \in Threads, SoleInv(w), UNCHANGED <<frame, wire, due, answers>>
    PROVE  SoleInv(w)' /\ PromiseStep
<1>1. \A r \in Requests : PromiseInv(w, r)'
  <2>1. ASSUME NEW r \in Requests
        PROVE  PromiseInv(w, r)'
    <3>1. PromiseInv(w, r)
      BY DEF SoleInv
    <3> QED
      BY <3>1 DEF PromiseInv, Exercises, Assigned, Past
  <2> QED
    BY <2>1
<1>2. SoleInv(w)'
  BY <1>1 DEF SoleInv, DueAssigned, Assigned
<1> QED
  BY <1>2, SilentIsPromised DEF Sent, Hows

\* The worker takes a handler of the transport and may come to call a request's.
LEMMA HandlersArePromised ==
    ASSUME NEW w \in Threads, Types, Types', SoleInv(w), Free(w), RunsHandler(w),
           UNCHANGED <<wire, due, answers>>
    PROVE  SoleInv(w)' /\ PromiseStep
<1>1. frame[w] = Idle /\ frame \in [Threads -> DeliveryFrames]
  BY DEF RunsHandler, OnWrite, OnRead, DequeueThreadSafely, RunsOnFreedPool, CanRun, AtRest,
         Types, DeliveryTypeOK
<1>2. \/ UNCHANGED frame
      \/ \E r, news : frame' = [frame EXCEPT ![w] = Calling(r, news)]
  <2>1. ASSUME NEW i \in DOMAIN io.ready, OnWrite(w, i) \/ OnRead(w, i)
        PROVE  \/ UNCHANGED frame
               \/ \E r, news : frame' = [frame EXCEPT ![w] = Calling(r, news)]
    BY <2>1 DEF OnWrite, OnRead, Superseded, HandleSocketError
  <2> QED
    BY <2>1 DEF RunsHandler, DequeueThreadSafely, RunsOnFreedPool
<1>3. CASE UNCHANGED frame
  BY <1>3, SoleUnchanged
<1>4. ASSUME NEW p, NEW news, frame' = [frame EXCEPT ![w] = Calling(p, news)]
      PROVE  SoleInv(w)' /\ PromiseStep
  <2>1. PICK f : f = Calling(p, news) /\ frame' = [frame EXCEPT ![w] = f] /\ frame'[w] = f
    BY <1>1, <1>4
  <2>2. f.at = "calling" /\ f.req = p
    BY <2>1 DEF Calling
  <2>3. p \in Requests
    <3>1. frame'[w] \in DeliveryFrames
      BY DEF Types, DeliveryTypeOK
    <3> QED
      BY <2>1, <2>2, <3>1 DEF DeliveryFrames, Frames, Idle
  <2>4. PICK r \in Requests : r = p
    BY <2>3
  <2>5. StaysWith(w, r)
    BY <2>1, <2>2, <2>4 DEF StaysWith
  <2>6. PromiseInv(w, r) /\ wire[r].owner # w
    BY DEF SoleInv, Free
  <2>7. \A hows : Past(r, hows)' <=> Past(r, hows)
    BY DEF Past
  <2>8. PromiseInv(w, r)'
    BY <2>1, <2>2, <2>6, <2>7 DEF PromiseInv, Exercises, Assigned
  <2> QED
    BY <2>1, <2>2, <2>5, <2>8, SilentHandler
<1> QED
  BY <1>2, <1>3, <1>4

\* Without a destructor nothing else touches the threads.
LEMMA NobodyDestroys ==
    ASSUME Types, Destroyer = None, Destroy \/ DestructorStep \/ WakesSpuriously
    PROVE  UNCHANGED frame
<1>1. frame \in [Threads -> DeliveryFrames] /\ None \notin Threads
  BY SchedulerAssumption DEF Types, DeliveryTypeOK, Threads
<1>2. ASSUME TellPending
      PROVE  UNCHANGED frame
  BY <1>1, <1>2 DEF TellPending
<1> QED
  BY <1>2 DEF Destroy, DestructorStep, AwaitDequeued, Drained, WakesSpuriously

LEMMA SoleStep ==
    ASSUME NEW w, Workers = {w}, Destroyer = None, Types, Types', SoleInv(w),
           [DeliveryNext]_deliveryVars
    PROVE  SoleInv(w)' /\ PromiseStep
<1>0. w \in Threads
  BY DEF Threads
<1>1. ASSUME NEW t \in Threads, Proceeds(t)
      PROVE  SoleInv(w)' /\ PromiseStep
  BY <1>0, <1>1, HandlerIsPromised, DispatchIsPromised, ResponseIsPromised, ExerciseIsPromised
     DEF Proceeds
<1>2. ASSUME NEW t \in Callers, NEW r \in Requests, DispatchVia(t, r)
      PROVE  SoleInv(w)' /\ PromiseStep
  BY <1>0, <1>2, DispatchIsPromised DEF Threads
<1>3. ASSUME NEW r \in Requests, Expire(r)
      PROVE  SoleInv(w)' /\ PromiseStep
  BY <1>0, <1>3, ExpireIsPromised
<1>4. ASSUME NEW v \in Workers, Works(v)
      PROVE  SoleInv(w)' /\ PromiseStep
  <2>1. v = w
    BY <1>4
  <2>2. CASE EnterOnTimeout(w)
    BY <1>0, <2>2, TimerIsPromised
  <2>3. CASE Free(w) /\ Transports(RunsHandler(w))
    BY <1>0, <2>3, HandlersArePromised DEF Transports
  <2> QED
    BY <1>4, <2>1, <2>2, <2>3 DEF Works
<1>5. CASE \/ Transports(Destroy /\ Free(Destroyer)) \/ Destructs
           \/ Transports(WakesSpuriously)
  <2>1. UNCHANGED <<wire, due, answers>> /\ (Destroy \/ DestructorStep \/ WakesSpuriously)
    BY <1>5 DEF Transports, Destructs
  <2> QED
    BY <1>0, <2>1, NobodyDestroys, SoleUnchanged
<1>6. CASE \/ Transports(Outside(WriteCompletes)) \/ Transports(Outside(WriteGoesNowhere))
           \/ Transports(Outside(ReadCompletes)) \/ Transports(Outside(ReadFails))
           \/ Transports(Outside(NodeReplies)) \/ Transports(Outside(PeerResets))
  <2>1. UNCHANGED <<frame, wire, due, answers>>
    BY <1>6 DEF Transports, Outside, Rest
  <2> QED
    BY <1>0, <2>1, SoleUnchanged
<1>7. CASE UNCHANGED deliveryVars
  <2>1. UNCHANGED <<frame, wire, due, answers>>
    BY <1>7 DEF deliveryVars, vars
  <2> QED
    BY <1>0, <2>1, SoleUnchanged
<1> QED
  BY <1>1, <1>2, <1>3, <1>4, <1>5, <1>6, <1>7 DEF DeliveryNext

LEMMA SoleInit ==
    ASSUME NEW w \in Threads, DeliveryInit
    PROVE  SoleInv(w)
BY SchedulerAssumption
   DEF DeliveryInit, Init, SoleInv, PromiseInv, DueAssigned, Assigned, Exercises, Past,
       Idle, Threads

LEMMA SoleAlways ==
    ASSUME NEW w, Workers = {w}, Destroyer = None
    PROVE  DeliverySpec => []SoleInv(w)
<1>1. DeliveryInit => Types /\ SoleInv(w)
  BY TypesInit, SoleInit DEF Threads
<1>2. Types /\ SoleInv(w) /\ [DeliveryNext]_deliveryVars => Types' /\ SoleInv(w)'
  BY TypesStep, SoleStep
<1> QED
  BY <1>1, <1>2, PTL DEF DeliverySpec

\* Where one worker runs the io_service and nobody destroys the transport, the callback
\* of every request hears parts of a reply, then one end of it, and nothing more but
\* perhaps a timeout (request_with_timeout.cxx:34).
THEOREM ExchangeImplemented ==
    ASSUME NEW w, Workers = {w}, Destroyer = None
    PROVE  DeliverySpec => ImplementsExchange
<1>1. DeliveryInit => Types /\ SoleInv(w) /\ Promise!Init
  <2> SUFFICES ASSUME DeliveryInit
               PROVE  Types /\ SoleInv(w) /\ Promise!Init
    OBVIOUS
  <2>1. Types
    BY TypesInit
  <2>2. w \in Threads
    BY DEF Threads
  <2>3. SoleInv(w)
    BY <2>2, SoleInit
  <2>4. Promise!Init
    BY DEF DeliveryInit, Promise!Init
  <2> QED
    BY <2>1, <2>3, <2>4
<1>2. /\ Types /\ SoleInv(w) /\ [DeliveryNext]_deliveryVars
      => Types' /\ SoleInv(w)' /\ [Promise!Next]_(Promise!vars)
  BY TypesStep, SoleStep DEF PromiseStep
<1> QED
  BY <1>1, <1>2, PTL DEF DeliverySpec, ImplementsExchange, Promise!Spec

-----------------------------------------------------------------------------
(***************************************************************************)
(* How requests use their transport, whatever the threads: an option is    *)
(* exercised by the thread that holds its request's mutex, and by that     *)
(* thread only once before the option is gone.                             *)
(***************************************************************************)
InHandler(t, r) == frame[t].at = "handler" /\ frame[t].req = r

ThreadUse(t) ==
    /\ frame[t].how \in Endings => t \in Workers
    /\ frame[t].at \in {"handler", "check", "advance", "cancel"} => Assigned(frame[t].req)

RequestUse(r) ==
    /\ wire[r].option \/ wire[r].armed \/ wire[r].timed_out \/ r \in exercised => Assigned(r)
    /\ wire[r].dispatch \in {"delivered", "assigned", "done"} => arrival[r] > 0
    /\ wire[r].option /\ (wire[r].timed_out \/ r \in exercised) => wire[r].owner # None

UsedBy(t, r) ==
    /\ Exercises(t, r) => wire[r].owner = t
    /\ wire[r].owner = t =>
          \/ frame[t] = Idle
          \/ Exercises(t, r)
          \/ InHandler(t, r) /\ (wire[r].option => r \notin exercised)

UseInv ==
    /\ DueAssigned
    /\ \A t \in Threads : ThreadUse(t)
    /\ \A r \in Requests : RequestUse(r)
    /\ \A t \in Threads, r \in Requests : UsedBy(t, r)

\* What a step for r leaves alone about another request q.
Leaves(q) ==
    /\ Passes(q)
    /\ q \in exercised' <=> q \in exercised
    /\ arrival'[q] = arrival[q]

LEMMA LeavesUse ==
    ASSUME NEW q, RequestUse(q), Leaves(q)
    PROVE  RequestUse(q)' /\ (Assigned(q) <=> Assigned(q)')
BY DEF Leaves, Passes, RequestUse, Assigned

\* A step of t for r, in which no other thread holds r or comes to hold it.
LEMMA UseKept ==
    ASSUME Types, UseInv, NEW t \in Threads, NEW r \in Requests, NEW f,
           frame' = [frame EXCEPT ![t] = f], StaysWith(t, r),
           \A q \in Requests : q # r => Leaves(q),
           Assigned(r) => Assigned(r)',
           \A i \in DOMAIN due' : Assigned(due'[i].req) /\ due'[i].req \in Requests,
           ThreadUse(t)', RequestUse(r)', UsedBy(t, r)',
           \/ wire[r].owner \in {t, None} /\ wire'[r].owner \in {t, None}
           \/ /\ wire'[r].owner = wire[r].owner /\ wire'[r].option = wire[r].option
              /\ UNCHANGED exercised
    PROVE  UseInv'
<1>0. t # None /\ \A u \in Threads : u # None
  BY SchedulerAssumption DEF Threads
<1>1. /\ \A u \in Threads : u # t => frame'[u] = frame[u]
      /\ frame'[t] = f
  BY DEF Types, DeliveryTypeOK
<1>2. \A q \in Requests : Assigned(q) => Assigned(q)'
  BY LeavesUse DEF UseInv
<1>3. DueAssigned'
  BY <1>2 DEF DueAssigned, Assigned
<1>4. ASSUME NEW u \in Threads, u # t
      PROVE  ThreadUse(u)'
  <2>1. ThreadUse(u) /\ (frame[u].at # "idle" => frame[u].req \in Requests)
    BY FrameRequest DEF UseInv
  <2> QED
    BY <1>1, <1>2, <1>4, <2>1 DEF ThreadUse, Assigned
<1>5. \A q \in Requests : RequestUse(q)'
  BY LeavesUse DEF UseInv
<1>6. ASSUME NEW u \in Threads, u # t
      PROVE  UsedBy(u, r)'
  <2>1. UsedBy(u, r) /\ frame'[u] = frame[u]
    BY <1>1, <1>6 DEF UseInv
  <2> QED
    BY <1>0, <1>6, <2>1 DEF UsedBy, Exercises, InHandler
<1>7. ASSUME NEW u \in Threads, u # t, NEW q \in Requests, q # r
      PROVE  UsedBy(u, q)'
  <2>1. UsedBy(u, q) /\ frame'[u] = frame[u] /\ Leaves(q)
    BY <1>1, <1>7 DEF UseInv
  <2> QED
    BY <2>1 DEF UsedBy, Exercises, InHandler, Leaves, Passes
<1>8. ASSUME NEW q \in Requests, q # r
      PROVE  UsedBy(t, q)'
  <2>1. UsedBy(t, q) /\ wire'[q].owner = wire[q].owner
    BY <1>8 DEF UseInv, Leaves, Passes
  <2>2. Idle.at = "idle"
    BY DEF Idle
  <2>3. ~Exercises(t, q)' /\ (wire[q].owner = t => frame'[t] = Idle)
    BY <1>8, <2>1, <2>2 DEF StaysWith, Exercises, UsedBy, InHandler, Free
  <2> QED
    BY <2>1, <2>3 DEF UsedBy
<1> QED
  BY <1>3, <1>4, <1>5, <1>6, <1>7, <1>8 DEF UseInv

\* A step in which no thread moves.
LEMMA UseOfStill ==
    ASSUME UseInv, UNCHANGED <<frame, exercised>>,
           \A t \in Threads : frame[t].at \in {"handler", "check", "advance", "cancel"}
                                 => frame[t].req \in Requests,
           \A q \in Requests :
              /\ wire'[q].owner = wire[q].owner
              /\ wire'[q].timed_out = wire[q].timed_out
              /\ Assigned(q) => Assigned(q)'
              /\ wire'[q].option \/ wire'[q].armed => Assigned(q)'
              /\ wire'[q].option => wire[q].option \/ ~Assigned(q)
              /\ wire'[q].dispatch \in {"delivered", "assigned", "done"} => arrival'[q] > 0,
           DueAssigned'
    PROVE  UseInv'
<1>1. ASSUME NEW r \in Requests
      PROVE  RequestUse(r)'
  <2>1. RequestUse(r)
    BY DEF UseInv
  <2> QED
    BY <2>1 DEF RequestUse
<1>2. ASSUME NEW t \in Threads
      PROVE  ThreadUse(t)'
  BY <1>2 DEF UseInv, ThreadUse
<1>3. ASSUME NEW t \in Threads, NEW r \in Requests
      PROVE  UsedBy(t, r)'
  <2>1. UsedBy(t, r) /\ RequestUse(r)
    BY DEF UseInv
  <2> QED
    BY <2>1 DEF UsedBy, RequestUse, Exercises, InHandler
<1> QED
  BY <1>1, <1>2, <1>3 DEF UseInv

\* An ended wait is of a request that has its option.
LEMMA UnarmedUse ==
    ASSUME Types, UseInv, NEW r \in Requests, due' = Unarmed(r) \/ due' = due
    PROVE  \A i \in DOMAIN due' : Assigned(due'[i].req) /\ due'[i].req \in Requests
<1>1. CASE ~wire[r].armed \/ due' = due
  BY <1>1, DueTypes DEF Unarmed, UseInv, DueAssigned
<1>2. CASE wire[r].armed /\ due' = Unarmed(r)
  <2>1. Assigned(r) /\ DueAssigned
    BY <1>2 DEF UseInv, RequestUse
  <2>2. due' = Append(due, [req |-> r, how |-> "aborted"])
    BY <1>2 DEF Unarmed
  <2> QED
    BY <2>1, <2>2, DueAdded DEF Endings
<1> QED
  BY <1>1, <1>2

LEMMA UseOfDispatch ==
    ASSUME Types, UseInv, NEW t \in Threads, NEW r \in Requests,
           DispatchVia(t, r) \/ Dispatch(t, r)
    PROVE  UseInv'
<1>1. UNCHANGED <<frame, exercised>>
  BY DEF DispatchVia, Dispatch, Delivers, DeliverFails, AssignOption, ArmTimer, Deliver,
         Faulty, vars
<1>2. due' = due \/ due' = Unarmed(r)
  BY DEF DispatchVia, Dispatch, Delivers, DeliverFails, AssignOption, ArmTimer
<1>3. RequestUse(r)
  BY DEF UseInv
<1>4. \A q \in Requests : arrival[q] > 0 => arrival'[q] > 0
  <2>1. CASE Delivers(t, r)
    BY <2>1 DEF Delivers, Deliver, Types, PoolTypeOK
  <2>2. CASE ~Delivers(t, r)
    BY <2>2 DEF DispatchVia, Dispatch, DeliverFails, AssignOption, ArmTimer, Faulty, vars, history
  <2> QED
    BY <2>1, <2>2
<1>5. wire[r].dispatch = "calling" /\ wire'[r].dispatch = "delivered" => arrival'[r] > 0
  <2>1. CASE Delivers(t, r)
    BY <2>1 DEF Delivers, Deliver, Types, PoolTypeOK
  <2>2. CASE DeliverFails(t, r)
    BY <2>2 DEF DeliverFails, Types, DeliveryTypeOK, Wires, vars
  <2> QED
    BY <2>1, <2>2 DEF DispatchVia, Dispatch, AssignOption, ArmTimer
<1>6. \A q \in Requests :
         /\ wire'[q].owner = wire[q].owner
         /\ wire'[q].timed_out = wire[q].timed_out
         /\ Assigned(q) => Assigned(q)'
         /\ wire'[q].option \/ wire'[q].armed => Assigned(q)'
         /\ wire'[q].option => wire[q].option \/ ~Assigned(q)
         /\ wire'[q].dispatch \in {"delivered", "assigned", "done"} => arrival'[q] > 0
  <2>1. ASSUME NEW q \in Requests, q # r
        PROVE  wire'[q] = wire[q] /\ RequestUse(q)
    BY <2>1, DispatchFields DEF UseInv
  <2>2. /\ wire'[r].owner = wire[r].owner
        /\ wire'[r].timed_out = wire[r].timed_out
        /\ Assigned(r) => Assigned(r)'
        /\ wire'[r].option \/ wire'[r].armed => Assigned(r)'
        /\ wire'[r].option => wire[r].option \/ ~Assigned(r)
        /\ wire'[r].dispatch \in {"delivered", "assigned", "done"} => arrival'[r] > 0
    BY <1>3, <1>4, <1>5, DispatchFields DEF RequestUse, Assigned
  <2> QED
    BY <1>4, <2>1, <2>2 DEF RequestUse, Assigned
<1>7. DueAssigned'
  BY <1>2, <1>6, UnarmedUse DEF Assigned, DueAssigned
<1> QED
  BY <1>1, <1>6, <1>7, UseOfStill, FrameRequest

LEMMA UseOfExpire ==
    ASSUME Types, UseInv, NEW r \in Requests, Expire(r)
    PROVE  UseInv'
<1>1. UNCHANGED <<frame, exercised, arrival>>
  BY DEF Expire, vars, history
<1>2. wire \in [Requests -> Wires] /\ wire[r] \in Wires
  BY DEF Types, DeliveryTypeOK
<1>3. /\ \A q \in Requests : q # r => wire'[q] = wire[q]
      /\ wire'[r].owner = wire[r].owner /\ wire'[r].timed_out = wire[r].timed_out
      /\ wire'[r].option = wire[r].option /\ wire'[r].dispatch = wire[r].dispatch
  BY <1>2 DEF Expire, Wires
<1>4. \A q \in Requests : RequestUse(q)
  BY DEF UseInv
<1>5. Assigned(r)
  BY <1>4 DEF Expire, RequestUse
<1>6. \A q \in Requests :
         /\ wire'[q].owner = wire[q].owner
         /\ wire'[q].timed_out = wire[q].timed_out
         /\ Assigned(q) => Assigned(q)'
         /\ wire'[q].option \/ wire'[q].armed => Assigned(q)'
         /\ wire'[q].option => wire[q].option \/ ~Assigned(q)
         /\ wire'[q].dispatch \in {"delivered", "assigned", "done"} => arrival'[q] > 0
  BY <1>1, <1>3, <1>4, <1>5 DEF RequestUse, Assigned
<1>7. DueAssigned'
  <2>1. \A i \in DOMAIN due' : Assigned(due'[i].req) /\ due'[i].req \in Requests
    BY <1>5, DueAdded DEF Expire, UseInv, Endings
  <2> QED
    BY <1>6, <2>1 DEF DueAssigned
<1> QED
  BY <1>1, <1>6, <1>7, UseOfStill, FrameRequest

\* A handler of r that gets its mutex: nobody exercises the option, if it is still there.
LEMMA LockedUse ==
    ASSUME Types, UseInv, NEW t \in Threads, NEW r \in Requests, Locks(t, r)
    PROVE  /\ frame[t] # Idle /\ frame[t].at = "handler" /\ frame[t].req = r
           /\ wire[r].owner = None /\ Assigned(r)
           /\ frame[t].how \in Endings => t \in Workers
           /\ wire[r].option => ~wire[r].timed_out /\ r \notin exercised
           /\ RequestUse(r)
<1>1. frame[t].at = "handler" /\ frame[t].req = r /\ wire[r].owner = None
  BY DEF Locks
<1>2. ThreadUse(t) /\ RequestUse(r)
  BY DEF UseInv
<1> QED
  BY <1>1, <1>2 DEF ThreadUse, RequestUse, Idle

\* A thread that holds the mutex of r in a handler is in a handler of r.
LEMMA HoldingUse ==
    ASSUME Types, UseInv, NEW t \in Threads, NEW r \in Requests,
           wire[r].owner = t, frame[t].at = "handler"
    PROVE  /\ frame[t] # Idle /\ frame[t].req = r /\ Assigned(r)
           /\ frame[t].how \in Endings => t \in Workers
           /\ wire[r].option => r \notin exercised
           /\ RequestUse(r)
<1>1. UsedBy(t, r) /\ ThreadUse(t) /\ RequestUse(r)
  BY DEF UseInv
<1> QED
  BY <1>1 DEF UsedBy, ThreadUse, Exercises, InHandler, Idle

LEMMA UseOfHandler ==
    ASSUME Types, UseInv, NEW t \in Threads, NEW r \in Requests, NEW f,
           frame' = [frame EXCEPT ![t] = f], StaysWith(t, r),
           \A q \in Requests : q # r => Passes(q),
           UNCHANGED <<exercised, arrival>>, wire'[r].dispatch = wire[r].dispatch,
           due' = due \/ due' = Unarmed(r),
           ThreadUse(t)', RequestUse(r)', UsedBy(t, r)',
           wire[r].owner \in {t, None}, wire'[r].owner \in {t, None}
    PROVE  UseInv'
<1>1. \A q \in Requests : q # r => Leaves(q)
  BY DEF Leaves
<1>2. Assigned(r) => Assigned(r)'
  BY DEF Assigned
<1>3. \A i \in DOMAIN due' : Assigned(due'[i].req) /\ due'[i].req \in Requests
  BY UnarmedUse
<1> QED
  BY <1>1, <1>2, <1>3, UseKept

LEMMA UseOfHandlers ==
    ASSUME Types, UseInv, NEW t \in Threads, NEW r \in Requests, Handler(t, r)
    PROVE  UseInv'
<1>1. /\ RequestUse(r) /\ wire[r] \in Wires /\ wire \in [Requests -> Wires]
      /\ frame \in [Threads -> DeliveryFrames] /\ t # None
  BY SchedulerAssumption DEF UseInv, Types, DeliveryTypeOK, Threads
<1>2. \A how : /\ Exercising(r, how).at = "check" /\ Exercising(r, how).req = r
               /\ Exercising(r, how).how = how
  BY DEF Exercising
<1>3. Idle.at = "idle" /\ Idle.how \notin Endings /\ \A at : Exercising(r, at).at # "idle"
  BY DEF Idle, Endings, Exercising
<1>4. UNCHANGED <<exercised, arrival>>
  BY DEF Handler, OnPartial, OnComplete, TerminatesClean, OnError, OnTimeout, DropsOption,
         OnTimeoutCancelled, Releases, Framed, Faulty, vars, history
<1>5. CASE OnPartial(t, r)
  <2>1. Locks(t, r) /\ due' = Unarmed(r)
    BY <1>5 DEF OnPartial
  <2>2. frame' = [frame EXCEPT ![t] = Idle] /\ frame'[t] = Idle
    BY <1>1, <1>5 DEF OnPartial, Framed
  <2>3. /\ wire'[r].owner = None /\ wire'[r].option = wire[r].option
        /\ wire'[r].timed_out = wire[r].timed_out /\ wire'[r].dispatch = wire[r].dispatch
        /\ \A q \in Requests : q # r => wire'[q] = wire[q]
    BY <1>1, <1>5, <2>1, LockedUse DEF OnPartial, Wires
  <2>4. ThreadUse(t)' /\ RequestUse(r)' /\ UsedBy(t, r)' /\ StaysWith(t, r)
    BY <1>1, <1>3, <1>4, <2>1, <2>2, <2>3, LockedUse
       DEF ThreadUse, RequestUse, UsedBy, Assigned, Exercises, StaysWith
  <2>5. \A q \in Requests : q # r => Passes(q)
    BY <2>3 DEF Passes
  <2> QED
    BY <1>4, <2>1, <2>2, <2>3, <2>4, <2>5, LockedUse, UseOfHandler
<1>6. CASE OnComplete(t, r) \/ OnTimeout(t, r)
  <2>1. Locks(t, r) /\ (due' = Unarmed(r) \/ due' = due)
    BY <1>6 DEF OnComplete, OnTimeout
  <2>2. PICK f : f = frame[t] /\ frame' = [frame EXCEPT ![t] = f] /\ frame'[t] = f
    BY <1>1, <1>6 DEF OnComplete, OnTimeout, vars
  <2>3. \E v \in [Requests -> Wires] :
           /\ \E how : wire' = Follow(v, t, r, how)
           /\ v[r].owner = t /\ v[r].option = wire[r].option
           /\ v[r].dispatch = wire[r].dispatch
           /\ v[r].armed => wire[r].armed
           /\ \A q \in Requests : q # r => v[q] = wire[q]
    <3>1. CASE OnComplete(t, r)
      <4>1. PICK v : v = [wire EXCEPT ![r].armed = FALSE, ![r].owner = t]
        OBVIOUS
      <4>2. v \in [Requests -> Wires]
        BY <1>1, <4>1, WireLockType
      <4>3. /\ wire' = Follow(v, t, r, "complete")
            /\ v[r].owner = t /\ v[r].option = wire[r].option /\ v[r].dispatch = wire[r].dispatch
            /\ v[r].armed = FALSE /\ \A q \in Requests : q # r => v[q] = wire[q]
        BY <1>1, <3>1, <4>1 DEF OnComplete, Wires
      <4> QED
        BY <4>2, <4>3
    <3>2. CASE OnTimeout(t, r)
      <4>1. PICK v : v = [wire EXCEPT ![r].timed_out = TRUE, ![r].owner = t]
        OBVIOUS
      <4>2. v \in [Requests -> Wires]
        BY <1>1, <4>1, WireLockType
      <4>3. /\ wire' = Follow(v, t, r, "timeout")
            /\ v[r].owner = t /\ v[r].option = wire[r].option /\ v[r].dispatch = wire[r].dispatch
            /\ v[r].armed = wire[r].armed /\ \A q \in Requests : q # r => v[q] = wire[q]
        BY <1>1, <3>2, <4>1 DEF OnTimeout, Wires
      <4> QED
        BY <4>2, <4>3
    <3> QED
      BY <1>6, <3>1, <3>2
  <2>4. PICK v \in [Requests -> Wires] :
           /\ \E how : wire' = Follow(v, t, r, how)
           /\ v[r].owner = t /\ v[r].option = wire[r].option
           /\ v[r].dispatch = wire[r].dispatch
           /\ v[r].armed => wire[r].armed
           /\ \A q \in Requests : q # r => v[q] = wire[q]
    BY <2>3
  <2>5. /\ wire'[r].owner = t /\ wire'[r].option = wire[r].option
        /\ wire'[r].dispatch = wire[r].dispatch
        /\ \A q \in Requests : q # r => Passes(q)
    <3>1. wire[r].dispatch # "new"
      BY <2>1, LockedUse DEF Assigned
    <3>2. PICK how : wire' = Follow(v, t, r, how)
      BY <2>4
    <3> QED
      BY <2>4, <3>1, <3>2, FollowFields DEF Passes
  <2>6. ThreadUse(t)' /\ RequestUse(r)' /\ UsedBy(t, r)' /\ StaysWith(t, r)
    BY <1>1, <1>3, <1>4, <2>1, <2>2, <2>5, LockedUse
       DEF ThreadUse, RequestUse, UsedBy, Assigned, Exercises, InHandler, StaysWith
  <2> QED
    BY <1>4, <2>1, <2>2, <2>5, <2>6, LockedUse, UseOfHandler
<1>7. CASE TerminatesClean(t, r)
  <2>1. wire[r].owner = t /\ frame[t].at = "handler" /\ UNCHANGED <<wire, due>>
    BY <1>7 DEF TerminatesClean
  <2>2. PICK f : /\ frame' = [frame EXCEPT ![t] = f] /\ frame'[t] = f
                 /\ f = frame[t] \/ f = Exercising(r, "clean")
    BY <1>1, <1>7 DEF TerminatesClean, Framed, Faulty
  <2>3. ThreadUse(t)' /\ RequestUse(r)' /\ UsedBy(t, r)' /\ StaysWith(t, r)
    BY <1>1, <1>2, <1>3, <1>4, <2>1, <2>2, HoldingUse
       DEF ThreadUse, RequestUse, UsedBy, Assigned, Exercises, InHandler, StaysWith, Endings
  <2>4. \A q \in Requests : Passes(q)
    BY <2>1 DEF Passes
  <2> QED
    BY <1>4, <2>1, <2>2, <2>3, <2>4, UseOfHandler
<1>8. CASE OnError(t, r)
  <2>1. Locks(t, r) /\ due' = Unarmed(r) /\ frame[t].how \notin Endings
    BY <1>8 DEF OnError, Tidings, Endings
  <2>2. PICK f : /\ frame' = [frame EXCEPT ![t] = f] /\ frame'[t] = f
                 /\ f = frame[t] \/ f = Exercising(r, "dirty")
    BY <1>1, <1>8 DEF OnError, Framed, Faulty
  <2>3. /\ ~wire'[r].armed /\ wire'[r].owner = t /\ wire'[r].option = wire[r].option
        /\ wire'[r].timed_out = wire[r].timed_out /\ wire'[r].dispatch = wire[r].dispatch
        /\ \A q \in Requests : q # r => wire'[q] = wire[q]
    BY <1>1, <1>8 DEF OnError, Wires
  <2>4. ThreadUse(t)' /\ RequestUse(r)' /\ UsedBy(t, r)' /\ StaysWith(t, r)
    BY <1>1, <1>2, <1>3, <1>4, <2>1, <2>2, <2>3, LockedUse
       DEF ThreadUse, RequestUse, UsedBy, Assigned, Exercises, InHandler, StaysWith, Endings
  <2>5. \A q \in Requests : q # r => Passes(q)
    BY <2>3 DEF Passes
  <2> QED
    BY <1>4, <2>1, <2>2, <2>3, <2>4, <2>5, LockedUse, UseOfHandler
<1>9. CASE DropsOption(t, r) /\ wire[r].option
  <2>1. wire[r].owner = t /\ frame[t].at = "handler" /\ UNCHANGED <<wire, due>>
    BY <1>9 DEF DropsOption
  <2>2. PICK f : /\ frame' = [frame EXCEPT ![t] = f] /\ frame'[t] = f
                 /\ f = Exercising(r, "drop")
    BY <1>1, <1>9 DEF DropsOption, Framed
  <2>3. ThreadUse(t)' /\ RequestUse(r)' /\ UsedBy(t, r)' /\ StaysWith(t, r)
    BY <1>1, <1>2, <1>3, <1>4, <2>1, <2>2, HoldingUse
       DEF ThreadUse, RequestUse, UsedBy, Assigned, Exercises, StaysWith, Endings
  <2>4. \A q \in Requests : Passes(q)
    BY <2>1 DEF Passes
  <2> QED
    BY <1>4, <2>1, <2>2, <2>3, <2>4, UseOfHandler
<1>10. CASE DropsOption(t, r) /\ ~wire[r].option
  <2>1. wire[r].owner = t /\ frame[t].at = "handler" /\ due' = due
    BY <1>10 DEF DropsOption
  <2>2. frame' = [frame EXCEPT ![t] = Idle] /\ frame'[t] = Idle
    BY <1>1, <1>10 DEF DropsOption, Framed
  <2>3. /\ wire'[r].owner = None /\ ~wire'[r].option /\ wire'[r].armed = wire[r].armed
        /\ wire'[r].timed_out = wire[r].timed_out /\ wire'[r].dispatch = wire[r].dispatch
        /\ \A q \in Requests : q # r => wire'[q] = wire[q]
    BY <1>1, <1>10 DEF DropsOption, Wires
  <2>4. ThreadUse(t)' /\ RequestUse(r)' /\ UsedBy(t, r)' /\ StaysWith(t, r)
    BY <1>1, <1>3, <1>4, <2>1, <2>2, <2>3
       DEF ThreadUse, RequestUse, UsedBy, Assigned, Exercises, StaysWith
  <2>5. \A q \in Requests : q # r => Passes(q)
    BY <2>3 DEF Passes
  <2> QED
    BY <1>4, <2>1, <2>2, <2>3, <2>4, <2>5, UseOfHandler
<1>11. CASE OnTimeoutCancelled(t, r)
  <2>1. Locks(t, r) /\ due' = due
    BY <1>11 DEF OnTimeoutCancelled
  <2>2. frame' = [frame EXCEPT ![t] = Idle] /\ frame'[t] = Idle
    BY <1>1, <1>11 DEF OnTimeoutCancelled, Framed
  <2>3. /\ wire'[r].owner = None /\ wire'[r].option = wire[r].option
        /\ wire'[r].armed = wire[r].armed
        /\ ~wire'[r].timed_out /\ wire'[r].dispatch = wire[r].dispatch
        /\ \A q \in Requests : q # r => wire'[q] = wire[q]
    BY <1>1, <1>11, <2>1, LockedUse DEF OnTimeoutCancelled, Wires
  <2>4. ThreadUse(t)' /\ RequestUse(r)' /\ UsedBy(t, r)' /\ StaysWith(t, r)
    BY <1>1, <1>3, <1>4, <2>1, <2>2, <2>3, LockedUse
       DEF ThreadUse, RequestUse, UsedBy, Assigned, Exercises, StaysWith
  <2>5. \A q \in Requests : q # r => Passes(q)
    BY <2>3 DEF Passes
  <2> QED
    BY <1>4, <2>1, <2>2, <2>3, <2>4, <2>5, LockedUse, UseOfHandler
<1>12. CASE Releases(t, r)
  <2>1. frame[t] = Idle /\ wire[r].owner = t /\ due' = due
    BY <1>12 DEF Releases
  <2>2. PICK f : f = Idle /\ frame' = [frame EXCEPT ![t] = f] /\ frame'[t] = f
    BY <1>1, <1>12 DEF Releases, vars
  <2>3. /\ ~wire'[r].option /\ wire'[r].owner = None /\ wire'[r].armed = wire[r].armed
        /\ wire'[r].timed_out = wire[r].timed_out /\ wire'[r].dispatch = wire[r].dispatch
        /\ \A q \in Requests : q # r => wire'[q] = wire[q]
    BY <1>1, <1>12 DEF Releases, Wires
  <2>4. ThreadUse(t)' /\ RequestUse(r)' /\ UsedBy(t, r)' /\ StaysWith(t, r)
    BY <1>1, <1>3, <1>4, <2>1, <2>2, <2>3
       DEF ThreadUse, RequestUse, UsedBy, Assigned, Exercises, StaysWith
  <2>5. \A q \in Requests : q # r => Passes(q)
    BY <2>3 DEF Passes
  <2> QED
    BY <1>4, <2>1, <2>2, <2>3, <2>4, <2>5, UseOfHandler
<1> QED
  BY <1>5, <1>6, <1>7, <1>8, <1>9, <1>10, <1>11, <1>12 DEF Handler

LEMMA UseOfEntry ==
    ASSUME Types, UseInv, NEW t \in Threads,
           EnterOnResponse(t) \/ (t \in Workers /\ EnterOnTimeout(t))
    PROVE  UseInv'
<1>0. /\ wire \in [Requests -> Wires] /\ frame \in [Threads -> DeliveryFrames]
      /\ due \in Seq(Due)
  BY DueTypes DEF Types, DeliveryTypeOK
<1>1. UNCHANGED <<exercised, arrival, wire>>
  BY DEF EnterOnResponse, EnterOnTimeout, EnterHandler, Framed, Faulty, history
<1>2. CASE UNCHANGED <<frame, due>>
  <2>1. \A q \in Requests :
           /\ wire[q].option \/ wire[q].armed => Assigned(q)
           /\ wire[q].dispatch \in {"delivered", "assigned", "done"} => arrival[q] > 0
    BY DEF UseInv, RequestUse
  <2> QED
    BY <1>1, <1>2, <2>1, UseOfStill, FrameRequest DEF UseInv, DueAssigned, Assigned
<1>3. CASE EnterOnResponse(t) /\ EnterHandler(t)
  <2>1. PICK r \in Requests : r = frame[t].req
    BY <1>3, FrameRequest DEF EnterHandler
  <2>2. PICK x, news, f : EntersAs(t, x, news, f)
    <3>1. frame[t] \in Frames
      BY <1>0, <1>3, DeliveryFrameKinds DEF EnterHandler
    <3> QED
      BY <1>3, <3>1, EnterHandlerAs
  <2>3. /\ frame' = [frame EXCEPT ![t] = f] /\ frame'[t] = f
        /\ frame[t].at = "calling" /\ frame[t] # Idle /\ wire[r].option /\ due' = due
    <3>1. frame[t].at = "calling" /\ fault = "none" /\ fault' = fault /\ due' = due
      BY <1>3 DEF EnterOnResponse, EnterHandler, Running
    <3>2. wire[r].option
      BY <1>3, <2>1, <3>1 DEF EnterOnResponse, Faulty
    <3> QED
      BY <1>0, <2>2, <3>1, <3>2 DEF EntersAs, Idle
  <2>4. f.at = "handler" /\ f.req = r /\ f.how \notin Endings
    BY <2>1, <2>2 DEF EntersAs, News, Tidings, Endings
  <2>5. RequestUse(r) /\ UsedBy(t, r)
    BY DEF UseInv
  <2>6. ThreadUse(t)' /\ RequestUse(r)' /\ StaysWith(t, r)
    BY <1>1, <2>1, <2>3, <2>4, <2>5 DEF ThreadUse, RequestUse, Assigned, StaysWith
  <2>7. UsedBy(t, r)'
    BY <1>1, <2>3, <2>4, <2>5 DEF UsedBy, Exercises, InHandler
  <2>8. \A q \in Requests : Leaves(q)
    BY <1>1 DEF Leaves, Passes
  <2>9. \A i \in DOMAIN due' : Assigned(due'[i].req) /\ due'[i].req \in Requests
    BY <2>3, UnarmedUse
  <2>10. Assigned(r) => Assigned(r)'
    BY <1>1 DEF Assigned
  <2> QED
    BY <1>1, <2>3, <2>6, <2>7, <2>8, <2>9, <2>10, UseKept
<1>4. CASE t \in Workers /\ EnterOnTimeout(t)
  <2>1. due # <<>> /\ due' = Tail(due) /\ frame[t] = Idle /\ Free(t)
    BY <1>4 DEF EnterOnTimeout, AtRest
  <2>2. PICK d : d = Head(due)
    OBVIOUS
  <2>3. /\ d \in Due /\ Assigned(d.req)
        /\ \A i \in DOMAIN due' : Assigned(due'[i].req) /\ due'[i].req \in Requests
    <3>1. /\ Len(due) \in Nat /\ DOMAIN due = 1..Len(due) /\ Len(due) # 0
          /\ Head(due) = due[1] /\ Head(due) \in Due
      BY <1>0, <2>1, HeadTailProperties, LenProperties, EmptySeq
    <3>2. /\ Tail(due) \in Seq(Due) /\ Len(Tail(due)) = Len(due) - 1
          /\ \A i \in 1..Len(Tail(due)) : Tail(due)[i] = due[i + 1]
      BY <1>0, <2>1, HeadTailProperties
    <3>3. \A i \in DOMAIN due' : i + 1 \in DOMAIN due /\ due'[i] = due[i + 1]
      BY <2>1, <3>1, <3>2, LenProperties
    <3>4. \A i \in DOMAIN due : Assigned(due[i].req) /\ due[i].req \in Requests
      BY DueTypes DEF UseInv, DueAssigned
    <3>5. 1 \in DOMAIN due
      BY <3>1
    <3> QED
      BY <2>2, <3>1, <3>3, <3>4, <3>5
  <2>4. PICK r \in Requests : r = d.req
    BY <2>3 DEF Due
  <2>5. PICK f : /\ frame' = [frame EXCEPT ![t] = f] /\ frame'[t] = f
                 /\ \/ f = Idle
                    \/ f.at = "handler" /\ f.req = r /\ f.how = d.how
    BY <1>0, <1>4, <2>1, <2>2, <2>4 DEF EnterOnTimeout, Framed, Faulty
  <2>6. RequestUse(r) /\ UsedBy(t, r) /\ wire[r].owner # t
    BY <2>1 DEF UseInv, Free
  <2>7. ThreadUse(t)' /\ RequestUse(r)' /\ StaysWith(t, r) /\ UsedBy(t, r)'
    <3>1. ThreadUse(t)'
      BY <1>1, <1>4, <2>3, <2>4, <2>5 DEF ThreadUse, Assigned, Idle, Endings
    <3>2. RequestUse(r)' /\ StaysWith(t, r) /\ UsedBy(t, r)'
      BY <1>1, <2>1, <2>5, <2>6 DEF RequestUse, Assigned, StaysWith, UsedBy, Exercises, Idle
    <3> QED
      BY <3>1, <3>2
  <2>8. \A q \in Requests : Leaves(q)
    BY <1>1 DEF Leaves, Passes
  <2>9. Assigned(r) => Assigned(r)'
    BY <1>1 DEF Assigned
  <2> QED
    BY <1>1, <2>3, <2>5, <2>7, <2>8, <2>9, UseKept
<1> QED
  BY <1>2, <1>3, <1>4 DEF EnterOnResponse, Faulty

\* The option is exercised, and its request let go of, or told of the error.
LEMMA UseOfExercise ==
    ASSUME Types, UseInv, NEW t \in Threads, Exercise(t)
    PROVE  UseInv'
<1>1. /\ frame[t].at \in {"check", "advance", "cancel"} /\ frame[t] # Idle
      /\ \/ ExerciseActive(t) \/ ExerciseQueued(t) \/ ExerciseFaults(t)
         \/ ExerciseAdvances(t) \/ ExerciseCancels(t)
  BY ExerciseFrames DEF Exercise, Idle
<1>2. PICK r \in Requests : r = frame[t].req
  BY <1>1, FrameRequest DEF Idle
<1>3. PICK f : /\ frame' = [frame EXCEPT ![t] = f] /\ frame'[t] = f
               /\ \/ f = Idle
                  \/ /\ f # Idle /\ f.at \in {"check", "advance", "cancel"}
                     /\ f.req = r /\ f.how = frame[t].how
  BY <1>1, <1>2, ExerciseFrames
<1>4. /\ RequestUse(r) /\ Exercises(t, r) /\ wire[r].owner = t /\ Assigned(r)
      /\ wire \in [Requests -> Wires] /\ wire[r] \in Wires /\ t # None
      /\ frame[t].how \notin Endings
  <2>1. ThreadUse(t) /\ RequestUse(r) /\ UsedBy(t, r) /\ Exercises(t, r)
    BY <1>1, <1>2 DEF UseInv, Exercises
  <2>2. frame[t].how \notin Endings
    <3>1. frame[t] \in Frames
      BY <1>1, DeliveryFrameKinds DEF Types, DeliveryTypeOK
    <3> QED
      BY <1>1, <3>1 DEF Frames, Idle, Tidings, Endings
  <2> QED
    BY <1>1, <1>2, <2>1, <2>2, SchedulerAssumption
       DEF UsedBy, ThreadUse, Types, DeliveryTypeOK, Threads
<1>5. StaysWith(t, r) /\ due' = due
  BY <1>1, <1>2, <1>3 DEF StaysWith, Exercise
<1>6. /\ arrival' = arrival
      /\ \/ exercised' = exercised
         \/ frame'[t] = Idle /\ exercised' = exercised \cup {r}
  <2>1. \/ exercised' = exercised
        \/ frame' = [frame EXCEPT ![t] = Idle] /\ exercised' = exercised \cup {r}
    BY <1>1, <1>2 DEF ExerciseActive, ExerciseQueued, ExerciseFaults, ExerciseAdvances,
                      ExerciseCancels
  <2>2. arrival' = arrival
    BY <1>1 DEF ExerciseActive, ExerciseQueued, ExerciseFaults, ExerciseAdvances,
                ExerciseCancels, history
  <2> QED
    BY <2>1, <2>2 DEF Types, DeliveryTypeOK
<1>7. Idle.at = "idle" /\ Idle.how \notin Endings
  BY DEF Idle, Endings
<1>8. /\ \A q \in Requests : q # r => Passes(q)
      /\ wire'[r].dispatch = wire[r].dispatch
      /\ wire'[r].armed = wire[r].armed /\ wire'[r].timed_out = wire[r].timed_out
      /\ \/ wire'[r].option = wire[r].option /\ wire'[r].owner = t
         \/ frame'[t] = Idle /\ ~wire'[r].option /\ wire'[r].owner = None
  <2>1. CASE UNCHANGED wire
    BY <1>4, <2>1 DEF Passes
  <2>2. CASE wire' = Follow(wire, t, r, "failed")
    BY <1>4, <2>2, FollowFields DEF Passes, Assigned
  <2>3. CASE frame'[t] = Idle /\ Exercised(t, r, frame[t].how) /\ frame[t].how # "dirty"
    <3>1. PICK b : b = (wire[r].succeeded \/ frame[t].how = "clean")
      OBVIOUS
    <3>2. wire' = [wire EXCEPT ![r].option = FALSE, ![r].owner = None, ![r].succeeded = b]
      BY <2>3, <3>1 DEF Exercised
    <3> QED
      BY <1>4, <2>3, <3>2 DEF Wires, Passes
  <2> QED
    BY <1>2, <2>1, <2>2, <2>3 DEF Exercise, Exercised
<1>9. ThreadUse(t)'
  BY <1>3, <1>4, <1>7, <1>8 DEF ThreadUse, Assigned
<1>10. RequestUse(r)'
  BY <1>4, <1>6, <1>8 DEF RequestUse, Assigned
<1>11. UsedBy(t, r)'
  BY <1>3, <1>4, <1>7, <1>8 DEF UsedBy, Exercises
<1>12. /\ \A q \in Requests : q # r => Leaves(q)
       /\ Assigned(r) => Assigned(r)'
  BY <1>6, <1>8 DEF Leaves, Assigned
<1>13. \A i \in DOMAIN due' : Assigned(due'[i].req) /\ due'[i].req \in Requests
  BY <1>5, UnarmedUse
<1> QED
  BY <1>3, <1>4, <1>5, <1>8, <1>9, <1>10, <1>11, <1>12, <1>13, UseKept

\* A step of the transport alone: a thread that holds no request may come to call one.
LEMMA UseOfTransport ==
    ASSUME Types, Types', UseInv, UNCHANGED <<wire, due, exercised, arrival>>,
           \/ UNCHANGED frame
           \/ \E t \in Threads : \E r, news :
                 frame[t] = Idle /\ Free(t) /\ frame' = [frame EXCEPT ![t] = Calling(r, news)]
    PROVE  UseInv'
<1>1. \A q \in Requests : RequestUse(q)
  BY DEF UseInv
<1>2. CASE UNCHANGED frame
  <2>1. \A q \in Requests :
           /\ wire[q].option \/ wire[q].armed => Assigned(q)
           /\ wire[q].dispatch \in {"delivered", "assigned", "done"} => arrival[q] > 0
    BY <1>1 DEF RequestUse
  <2> QED
    BY <1>2, <2>1, UseOfStill, FrameRequest DEF UseInv, DueAssigned, Assigned
<1>3. ASSUME NEW t \in Threads, NEW p, NEW news,
             frame[t] = Idle, Free(t), frame' = [frame EXCEPT ![t] = Calling(p, news)]
      PROVE  UseInv'
  <2>1. PICK f : f = Calling(p, news) /\ frame' = [frame EXCEPT ![t] = f] /\ frame'[t] = f
    BY <1>3 DEF Types, DeliveryTypeOK
  <2>2. f.at = "calling" /\ f.req = p
    BY <2>1 DEF Calling
  <2>3. p \in Requests /\ f.how \notin Endings
    <3>1. frame'[t] \in DeliveryFrames
      BY DEF Types, DeliveryTypeOK
    <3> QED
      BY <2>1, <2>2, <3>1 DEF DeliveryFrames, Frames, Idle, Tidings, Endings
  <2>4. PICK r \in Requests : r = p
    BY <2>3
  <2>5. UsedBy(t, r) /\ wire[r].owner # t
    BY <1>3 DEF UseInv, Free
  <2>6. ThreadUse(t)' /\ RequestUse(r)' /\ UsedBy(t, r)' /\ StaysWith(t, r)
    BY <1>1, <1>3, <2>1, <2>2, <2>3, <2>4, <2>5
       DEF ThreadUse, RequestUse, UsedBy, Assigned, Exercises, StaysWith
  <2>7. \A q \in Requests : Leaves(q)
    BY DEF Leaves, Passes
  <2>8. \A i \in DOMAIN due' : Assigned(due'[i].req) /\ due'[i].req \in Requests
    BY UnarmedUse
  <2>9. Assigned(r) => Assigned(r)'
    BY DEF Assigned
  <2> QED
    BY <2>1, <2>6, <2>7, <2>8, <2>9, UseKept
<1> QED
  BY <1>2, <1>3

\* What the handlers of the transport and its destructor do to the threads.
LEMMA HandlersCall ==
    ASSUME NEW w \in Workers, RunsHandler(w)
    PROVE  /\ frame[w] = Idle /\ UNCHANGED <<exercised, arrival>>
           /\ \/ UNCHANGED frame
              \/ \E r, news : frame' = [frame EXCEPT ![w] = Calling(r, news)]
<1>1. ASSUME NEW i \in DOMAIN io.ready, OnWrite(w, i) \/ OnRead(w, i)
      PROVE  \/ UNCHANGED frame
             \/ \E r, news : frame' = [frame EXCEPT ![w] = Calling(r, news)]
  BY <1>1 DEF OnWrite, OnRead, Superseded, HandleSocketError
<1>2. frame[w] = Idle
  BY DEF RunsHandler, OnWrite, OnRead, DequeueThreadSafely, RunsOnFreedPool, CanRun, AtRest
<1>3. UNCHANGED <<exercised, arrival>>
  BY DEF RunsHandler, OnWrite, OnRead, DequeueThreadSafely, RunsOnFreedPool, history
<1> QED
  BY <1>1, <1>2, <1>3 DEF RunsHandler, DequeueThreadSafely, RunsOnFreedPool

LEMMA DestructionCalls ==
    ASSUME Types, Destroy \/ DestructorStep \/ WakesSpuriously
    PROVE  /\ UNCHANGED <<exercised, arrival>>
           /\ \/ UNCHANGED frame
              \/ /\ DestructorStep
                 /\ Destroyer \in Threads => frame[Destroyer] = Idle
                 /\ \E r, news : frame' = [frame EXCEPT ![Destroyer] = Calling(r, news)]
<1>1. UNCHANGED <<exercised, arrival>>
  BY DEF Destroy, DestructorStep, TellPending, AwaitDequeued, Drained, WakesSpuriously, history
<1>2. CASE TellPending
  BY <1>1, <1>2 DEF TellPending, DestructorStep
<1> QED
  BY <1>1, <1>2 DEF Destroy, DestructorStep, AwaitDequeued, Drained, WakesSpuriously

LEMMA UseStep ==
    ASSUME Types, Types', UseInv, [DeliveryNext]_deliveryVars
    PROVE  UseInv'
<1>1. ASSUME NEW t \in Threads, Proceeds(t)
      PROVE  UseInv'
  BY <1>1, UseOfHandlers, UseOfDispatch, UseOfEntry, UseOfExercise DEF Proceeds
<1>2. ASSUME NEW t \in Callers, NEW r \in Requests, DispatchVia(t, r)
      PROVE  UseInv'
  BY <1>2, UseOfDispatch DEF Threads
<1>3. ASSUME NEW r \in Requests, Expire(r)
      PROVE  UseInv'
  BY <1>3, UseOfExpire
<1>4. ASSUME NEW w \in Workers, Works(w)
      PROVE  UseInv'
  <2>1. w \in Threads
    BY DEF Threads
  <2>2. CASE EnterOnTimeout(w)
    BY <2>1, <2>2, UseOfEntry
  <2>3. CASE Free(w) /\ Transports(RunsHandler(w))
    BY <2>1, <2>3, HandlersCall, UseOfTransport DEF Transports
  <2> QED
    BY <1>4, <2>2, <2>3 DEF Works
<1>5. CASE \/ Transports(Destroy /\ Free(Destroyer)) \/ Destructs
           \/ Transports(WakesSpuriously)
  <2>1. /\ UNCHANGED <<wire, due, answers>> /\ (Destroy \/ DestructorStep \/ WakesSpuriously)
        /\ DestructorStep => Free(Destroyer)
    BY <1>5 DEF Transports, Destructs, Destroy, DestructorStep, TellPending, AwaitDequeued,
                Drained, WakesSpuriously
  <2>2. Destroyer \in Threads \/ UNCHANGED frame
    <3>1. Destroyer \in Threads \/ (Destroyer = None /\ None \notin Threads)
      BY SchedulerAssumption DEF Threads
    <3> QED
      BY <2>1, <3>1, NobodyDestroys
  <2> QED
    BY <2>1, <2>2, DestructionCalls, UseOfTransport
<1>6. CASE \/ Transports(Outside(WriteCompletes)) \/ Transports(Outside(WriteGoesNowhere))
           \/ Transports(Outside(ReadCompletes)) \/ Transports(Outside(ReadFails))
           \/ Transports(Outside(NodeReplies)) \/ Transports(Outside(PeerResets))
  <2>1. UNCHANGED <<frame, wire, due, exercised, arrival>>
    BY <1>6 DEF Transports, Outside, Rest, history
  <2> QED
    BY <2>1, UseOfTransport
<1>7. CASE UNCHANGED deliveryVars
  <2>1. UNCHANGED <<frame, wire, due, exercised, arrival>>
    BY <1>7 DEF deliveryVars, vars, history
  <2> QED
    BY <2>1, UseOfTransport
<1> QED
  BY <1>1, <1>2, <1>3, <1>4, <1>5, <1>6, <1>7 DEF DeliveryNext

LEMMA UseInit ==
    ASSUME DeliveryInit
    PROVE  UseInv
<1>1. None \notin Threads
  BY SchedulerAssumption DEF Threads
<1> QED
  BY <1>1 DEF DeliveryInit, Init, UseInv, DueAssigned, ThreadUse, RequestUse, UsedBy, Exercises,
              InHandler, Assigned, Idle, Endings

-----------------------------------------------------------------------------
(***************************************************************************)
(* What the transport sees of a step.                                      *)
(***************************************************************************)
LEMMA SeenOf ==
    ASSUME NEW t \in Threads
    PROVE  /\ frame[t].how \notin Endings => Seen[t] = frame[t]
           /\ frame[t].how \in Endings => Seen[t] = Idle
           /\ frame[t] = Idle => Seen[t] = Idle
BY DEF Seen

LEMMA SeenMoves ==
    ASSUME Types, NEW t \in Threads, NEW f, f.how \notin Endings,
           frame' = [frame EXCEPT ![t] = f]
    PROVE  Seen' = [Seen EXCEPT ![t] = f]
BY DEF Types, DeliveryTypeOK, Seen

LEMMA SeenStays ==
    ASSUME Types, NEW t \in Threads, NEW f, f = Idle \/ f.how \in Endings,
           frame[t] = Idle \/ frame[t].how \in Endings,
           frame' = [frame EXCEPT ![t] = f]
    PROVE  Seen' = Seen
BY DEF Types, DeliveryTypeOK, Seen

LEMMA BrokenOf ==
    /\ Running => Broken = "none" /\ Transport!Running
    /\ UNCHANGED fault => UNCHANGED Broken
    /\ fault' \in Faults => Broken' = fault'
    /\ Running /\ fault' \notin Faults => UNCHANGED Broken
BY DEF Running, Broken, Transport!Running, Faults

LEMMA SilentToTransport ==
    ASSUME UNCHANGED vars
    PROVE  UNCHANGED Transport!vars
BY DEF vars, history, Transport!vars, Transport!history, Seen, Broken

\* The constants of the transport and its calls of the socket are its own.
LEMMA SharedNames ==
    /\ Transport!Threads = Threads
    /\ Transport!Idle = Idle
    /\ Transport!Reset = Reset
    /\ Transport!NoSegment = NoSegment
    /\ \A r, news : Transport!Calling(r, news) = Calling(r, news)
    /\ \A r, how : Transport!Exercising(r, how) = Exercising(r, how)
    /\ \A c : Transport!NewsOf(c) = NewsOf(c)
    /\ \A r, news : Transport!ReadAs(r, news) = ReadAs(r, news)
    /\ \A call, r, error, segment :
          Transport!Completion(call, r, error, segment) = Completion(call, r, error, segment)
<1>1. \A c : Transport!NewsOf(c) = NewsOf(c)
  BY DEF Transport!NewsOf, NewsOf
<1>2. \A r, of : Transport!Completes(r, of) <=> Completes(r, of)
  <2>1. \A r : Transport!Buffered(r) = Buffered(r)
    BY DEF Transport!Buffered, Buffered
  <2>2. \A S : Transport!Cardinality(S) = Cardinality(S)
    BY DEF Transport!Cardinality, Cardinality
  <2> QED
    BY <2>1, <2>2 DEF Transport!Completes, Completes
<1>3. \A r, news : Transport!ReadAs(r, news) = ReadAs(r, news)
  BY <1>2 DEF Transport!ReadAs, ReadAs
<1> QED
  BY <1>1, <1>3 DEF Transport!Threads, Threads, Transport!Idle, Idle, Transport!Reset, Reset,
              Transport!NoSegment, NoSegment, Transport!Calling, Calling,
              Transport!Exercising, Exercising, Transport!Completion, Completion

LEMMA SharedCalls ==
    /\ \A s, c : Transport!Queued(s, c) = Queued(s, c)
    /\ \A s, r : Transport!Transmitted(s, r) = Transmitted(s, r)
    /\ \A s, r : Transport!AsyncWrite(s, r) = AsyncWrite(s, r)
    /\ \A s, r : Transport!AsyncRead(s, r) = AsyncRead(s, r)
    /\ \A s : Transport!Cancelled(s) = Cancelled(s)
    /\ \A s : Transport!Closed(s) = Closed(s)
    /\ \A s : Transport!Connected(s) = Connected(s)
    /\ \A s : Transport!ShutdownMayThrow(s) <=> ShutdownMayThrow(s)
    /\ \A q, i : Transport!RemoveAt(q, i) = RemoveAt(q, i)
    /\ \A s, i : Transport!Taken(s, i) = Taken(s, i)
<1>1. \A s, c : Transport!Queued(s, c) = Queued(s, c)
  BY DEF Transport!Queued, Queued
<1>2. \A s, r : Transport!Transmitted(s, r) = Transmitted(s, r)
  BY SharedNames DEF Transport!Transmitted, Transmitted
<1>3. \A s, r : Transport!AsyncWrite(s, r) = AsyncWrite(s, r)
  BY <1>1, <1>2, SharedNames DEF Transport!AsyncWrite, AsyncWrite
<1>4. \A s, r : Transport!AsyncRead(s, r) = AsyncRead(s, r)
  BY <1>1, SharedNames DEF Transport!AsyncRead, AsyncRead
<1>5. \A s : Transport!Cancelled(s) = Cancelled(s)
  BY SharedNames DEF Transport!Cancelled, Cancelled
<1>6. \A s : Transport!Closed(s) = Closed(s)
  BY <1>5 DEF Transport!Closed, Closed
<1>7. \A s : Transport!Connected(s) = Connected(s)
  BY DEF Transport!Connected, Connected
<1>8. \A s : Transport!ShutdownMayThrow(s) <=> ShutdownMayThrow(s)
  BY DEF Transport!ShutdownMayThrow, ShutdownMayThrow
<1>9. \A q, i : Transport!RemoveAt(q, i) = RemoveAt(q, i)
  BY DEF Transport!RemoveAt, RemoveAt
<1>10. \A s, i : Transport!Taken(s, i) = Taken(s, i)
  BY <1>9 DEF Transport!Taken, Taken
<1> QED
  BY <1>1, <1>2, <1>3, <1>4, <1>5, <1>6, <1>7, <1>8, <1>9, <1>10

LEMMA SharedRuns ==
    /\ \A q, s : Transport!RunNextRequest(q, s) <=> RunNextRequest(q, s)
    /\ \A r : Transport!Admit(r) <=> Admit(r)
    /\ \A s : Transport!Reconnects(s) <=> Reconnects(s)
    /\ \A s : Transport!ReconnectThrows(s) <=> ReconnectThrows(s)
<1>1. \A q, s : Transport!RunNextRequest(q, s) <=> RunNextRequest(q, s)
  BY SharedCalls DEF Transport!RunNextRequest, RunNextRequest
<1>2. \A r : Transport!Admit(r) <=> Admit(r)
  BY <1>1 DEF Transport!Admit, Admit
<1>3. \A s : Transport!Reconnects(s) <=> Reconnects(s)
  BY <1>1, SharedCalls DEF Transport!Reconnects, Reconnects
<1>4. \A s : Transport!ReconnectThrows(s) <=> ReconnectThrows(s)
  BY SharedCalls DEF Transport!ReconnectThrows, ReconnectThrows
<1> QED
  BY <1>1, <1>2, <1>3, <1>4

LEMMA SharedOutside ==
    /\ Outside(WriteCompletes) => Transport!Outside(Transport!WriteCompletes)
    /\ Outside(WriteGoesNowhere) => Transport!Outside(Transport!WriteGoesNowhere)
    /\ Outside(ReadCompletes) => Transport!Outside(Transport!ReadCompletes)
    /\ Outside(ReadFails) => Transport!Outside(Transport!ReadFails)
    /\ Outside(NodeReplies) => Transport!Outside(Transport!NodeReplies)
    /\ Outside(PeerResets) => Transport!Outside(Transport!PeerResets)
<1>1. UNCHANGED Rest => UNCHANGED Transport!Rest
  BY DEF Rest, history, Transport!Rest, Transport!history, Seen, Broken
<1>2. WriteCompletes => Transport!WriteCompletes
  BY SharedCalls DEF WriteCompletes, Transport!WriteCompletes
<1>3. WriteGoesNowhere => Transport!WriteGoesNowhere
  BY SharedCalls, SharedNames DEF WriteGoesNowhere, Transport!WriteGoesNowhere
<1>4. ReadCompletes => Transport!ReadCompletes
  BY SharedCalls, SharedNames DEF ReadCompletes, Transport!ReadCompletes
<1>5. ReadFails => Transport!ReadFails
  BY SharedCalls, SharedNames DEF ReadFails, Transport!ReadFails
<1>6. NodeReplies => Transport!NodeReplies
  BY DEF NodeReplies, Transport!NodeReplies
<1>7. PeerResets => Transport!PeerResets
  BY DEF PeerResets, Transport!PeerResets
<1> QED
  BY <1>1, <1>2, <1>3, <1>4, <1>5, <1>6, <1>7, BrokenOf DEF Outside, Transport!Outside

LEMMA SeenAtRest ==
    ASSUME NEW t \in Threads, AtRest(t)
    PROVE  Transport!AtRest(t)
BY SeenOf, SharedNames DEF AtRest, Transport!AtRest

LEMMA SeenOptionFree ==
    ASSUME NEW r, OptionFree(r)
    PROVE  Transport!OptionFree(r)
<1>1. ASSUME NEW t \in Threads, Seen[t].req = r
      PROVE  Seen[t].at \notin {"check", "advance", "cancel"}
  BY <1>1, SeenOf DEF OptionFree, Idle
<1> QED
  BY <1>1, SharedNames DEF Transport!OptionFree

LEMMA SharedCardinality ==
    \A S : Transport!Cardinality(S) = Cardinality(S)
BY DEF Transport!Cardinality, Cardinality

\* More workers rest for the transport than do.
LEMMA SeenCanRun ==
    ASSUME NEW w \in Workers, NEW i \in Nat, CanRun(w, i)
    PROVE  Transport!CanRun(w, i)
<1>1. \A v \in Workers : AtRest(v) => Transport!AtRest(v)
  BY SeenAtRest DEF Threads
<1>2. PICK A, B : A = {v \in Workers : AtRest(v)} /\ B = {v \in Workers : Transport!AtRest(v)}
  OBVIOUS
<1>3. A \subseteq B /\ B \subseteq Workers /\ IsFiniteSet(Workers)
  BY <1>1, <1>2, SchedulerAssumption
<1>4. IsFiniteSet(B) /\ IsFiniteSet(A)
  BY <1>3, FS_Subset
<1>5. Cardinality(A) <= Cardinality(B) /\ Cardinality(A) \in Nat /\ Cardinality(B) \in Nat
  BY <1>3, <1>4, FS_Subset, FS_CardinalityType
<1>6. i <= Cardinality({v \in Workers : Transport!AtRest(v)})
  BY <1>2, <1>5 DEF CanRun
<1>7. Running /\ AtRest(w) /\ dtor # "telling" /\ dtor # "gone"
  BY DEF CanRun, PoolFree
<1>8. Transport!Running /\ Transport!AtRest(w) /\ Transport!PoolFree
  BY <1>1, <1>7, BrokenOf DEF Transport!PoolFree
<1> QED
  BY <1>6, <1>7, <1>8, SharedCardinality DEF Transport!CanRun

\* A completion handler of the transport, on a worker that rests.
LEMMA HandlerIsTransports ==
    ASSUME Types, NEW w \in Workers, RunsHandler(w)
    PROVE  Transport!RunsHandler(w)
<1>1. w \in Threads /\ \A i \in DOMAIN io.ready : i \in Nat /\ io.ready[i] \in Completions
  <2>1. io.ready \in Seq(Completions)
    BY DEF Types, PoolTypeOK, IoTypes
  <2> QED
    BY <2>1, SeqElements, LenProperties DEF Threads
<1>2. \A r, news : /\ Calling(r, news).how = news.how
                   /\ news.how \notin Endings /\ frame' = [frame EXCEPT ![w] = Calling(r, news)]
                      => Seen' = [Seen EXCEPT ![w] = Transport!Calling(r, news)]
  BY <1>1, SeenMoves, SharedNames DEF Calling
<1>3. \A c : c.error \in Errors => NewsOf(c).how \notin Endings
  BY DEF NewsOf, Endings, Errors
<1>4. UNCHANGED frame => UNCHANGED Seen
  BY DEF Seen
<1>5. ASSUME NEW c \in Completions, NEW s, HandleSocketError(w, c, s)
      PROVE  Transport!HandleSocketError(w, c, s)
  <2>1. c.error \in Errors
    BY DEF Completions
  <2>2. Transport!NewsOf(c) = NewsOf(c)
    BY SharedNames
  <2>3. CASE c.error = "aborted" /\ (Reconnects(s) \/ ReconnectThrows(s)) /\ UNCHANGED frame
    BY <1>4, <2>3, SharedRuns DEF Transport!HandleSocketError
  <2>4. CASE /\ c.error = "failed"
             /\ frame' = [frame EXCEPT ![w] = Calling(c.req, NewsOf(c))]
             /\ io' = s
             /\ UNCHANGED <<pending, active, failures>>
    <3>1. Seen' = [Seen EXCEPT ![w] = Transport!Calling(c.req, Transport!NewsOf(c))]
      BY <1>2, <1>3, <2>1, <2>2, <2>4
    <3> QED
      BY <2>4, <3>1 DEF Transport!HandleSocketError
  <2> QED
    BY <1>5, <2>3, <2>4 DEF HandleSocketError
<1>6. ASSUME NEW i \in DOMAIN io.ready, OnWrite(w, i)
      PROVE  Transport!OnWrite(w, i)
  <2>1. PICK c \in Completions : c = io.ready[i]
    BY <1>1
  <2>2. PICK s : s = Taken(io, i) /\ s = Transport!Taken(io, i)
    BY SharedCalls
  <2>3. /\ CanRun(w, i) /\ c.call = "on_write"
        /\ \/ Superseded(i)
           \/ c.req = active /\ c.error = "success" /\ io' = AsyncRead(s, c.req)
              /\ UNCHANGED <<pending, active, frame, failures>>
           \/ c.req = active /\ HandleSocketError(w, c, s)
        /\ UNCHANGED <<shutting_down, exercised, dtor, untold, heard, history, fault>>
    BY <1>6, <2>1, <2>2 DEF OnWrite
  <2>4. Superseded(i) => Transport!Superseded(i)
    BY <1>4, <2>2 DEF Superseded, Transport!Superseded
  <2>5. Transport!CanRun(w, i)
    BY <1>1, <2>3, SeenCanRun
  <2> QED
    BY <1>4, <1>5, <2>1, <2>2, <2>3, <2>4, <2>5, SharedCalls, BrokenOf
       DEF Transport!OnWrite, history, Transport!history
<1>7. ASSUME NEW i \in DOMAIN io.ready, OnRead(w, i)
      PROVE  Transport!OnRead(w, i)
  <2>1. PICK c \in Completions : c = io.ready[i]
    BY <1>1
  <2>2. PICK s : s = Taken(io, i) /\ s = Transport!Taken(io, i)
    BY SharedCalls
  <2>3. /\ CanRun(w, i) /\ c.call = "on_read"
        /\ \/ Superseded(i)
           \/ c.req = active /\ c.error = "success" /\ io' = AsyncRead(s, c.req)
              /\ frame' = [frame EXCEPT ![w] = Calling(c.req, NewsOf(c))]
              /\ UNCHANGED <<pending, active, failures>>
           \/ c.req = active /\ HandleSocketError(w, c, s)
        /\ UNCHANGED <<shutting_down, exercised, dtor, untold, heard, history, fault>>
    BY <1>7, <2>1, <2>2 DEF OnRead
  <2>4. Superseded(i) => Transport!Superseded(i)
    BY <1>4, <2>2 DEF Superseded, Transport!Superseded
  <2>5. Transport!CanRun(w, i)
    BY <1>1, <2>3, SeenCanRun
  <2>6. frame' = [frame EXCEPT ![w] = Calling(c.req, NewsOf(c))]
           => Seen' = [Seen EXCEPT ![w] = Transport!Calling(c.req, Transport!NewsOf(c))]
    <3>1. c.error \in Errors
      BY DEF Completions
    <3> QED
      BY <1>2, <1>3, <3>1, SharedNames
  <2> QED
    BY <1>5, <2>1, <2>2, <2>3, <2>4, <2>5, <2>6, SharedCalls, BrokenOf
       DEF Transport!OnRead, history, Transport!history
<1>8. ASSUME NEW i \in DOMAIN io.ready, DequeueThreadSafely(w, i)
      PROVE  Transport!DequeueThreadSafely(w, i)
  <2>1. Transport!CanRun(w, i) /\ UNCHANGED Seen
    BY <1>1, <1>4, <1>8, SeenCanRun DEF DequeueThreadSafely
  <2>2. \A r : Transport!Waiting(r) <=> Waiting(r)
    BY DEF Waiting, Transport!Waiting
  <2>3. fault' = "bad_iterator" => Broken' = "bad_iterator"
    BY BrokenOf DEF Faults
  <2> QED
    BY <1>8, <2>1, <2>2, <2>3, SharedCalls, BrokenOf
       DEF DequeueThreadSafely, Transport!DequeueThreadSafely, history, Transport!history
<1>9. CASE RunsOnFreedPool(w)
  <2>1. Broken' = "use_after_free"
    BY <1>9, BrokenOf DEF RunsOnFreedPool, Faults
  <2>2. Transport!RunsOnFreedPool(w)
    BY <1>1, <1>4, <1>9, <2>1, BrokenOf, SeenAtRest
       DEF RunsOnFreedPool, Transport!RunsOnFreedPool, history, Transport!history
  <2> QED
    BY <2>2 DEF Transport!RunsHandler
<1> QED
  BY <1>6, <1>7, <1>8, <1>9 DEF RunsHandler, Transport!RunsHandler

LEMMA DestructionIsTransports ==
    ASSUME Types, Destroyer \in Threads \cup {None}
    PROVE  /\ Destroy => Transport!Destroy
           /\ DestructorStep /\ Destroyer # None => Transport!DestructorStep
           /\ WakesSpuriously => Transport!WakesSpuriously
<1>0. None \notin Threads
  BY SchedulerAssumption DEF Threads
<1>1. UNCHANGED frame => UNCHANGED Seen
  BY DEF Seen
<1>2. fault' = "destructor_threw" => Broken' = "destructor_threw"
  BY BrokenOf DEF Faults
<1>3. \A s : CloseForGood(s) => Transport!CloseForGood(s)
  BY <1>2, SharedCalls, BrokenOf DEF CloseForGood, Transport!CloseForGood
<1>4. ASSUME Destroy
      PROVE  Transport!Destroy
  <2>1. Destroyer \in Threads
    BY <1>4 DEF Destroy
  <2>2. Seen[Destroyer] = Transport!Idle
    BY <1>4, <2>1, SeenOf, SharedNames DEF Destroy
  <2> QED
    BY <1>1, <1>4, <2>2, BrokenOf DEF Destroy, Transport!Destroy, history, Transport!history
<1>5. ASSUME TellPending, Destroyer \in Threads
      PROVE  Transport!TellPending
  <2>1. Seen[Destroyer] = Transport!Idle
    BY <1>5, SeenOf, SharedNames DEF TellPending
  <2>2. PICK f : f = Calling(Head(untold), Reset) /\ f = Transport!Calling(Head(untold), Transport!Reset)
    BY SharedNames
  <2>3. f.how \notin Endings /\ frame' = [frame EXCEPT ![Destroyer] = f]
    BY <1>5, <2>2 DEF TellPending, Calling, Reset, Endings
  <2>4. Seen' = [Seen EXCEPT ![Destroyer] = f]
    BY <1>5, <2>3, SeenMoves
  <2> QED
    BY <1>5, <2>1, <2>2, <2>4, BrokenOf
       DEF TellPending, Transport!TellPending, history, Transport!history
<1>7. ASSUME AwaitDequeued, Destroyer \in Threads
      PROVE  Transport!AwaitDequeued
  BY <1>1, <1>7, SeenOf, SharedNames, BrokenOf
     DEF AwaitDequeued, Transport!AwaitDequeued, history, Transport!history
<1>8. ASSUME Drained
      PROVE  Transport!Drained
  BY <1>1, <1>2, <1>3, <1>8, SharedCalls, BrokenOf
     DEF Drained, Transport!Drained, history, Transport!history
<1>9. ASSUME WakesSpuriously
      PROVE  Transport!WakesSpuriously
  BY <1>1, <1>3, <1>9, BrokenOf
     DEF WakesSpuriously, Transport!WakesSpuriously, history, Transport!history
<1> QED
  BY <1>4, <1>5, <1>7, <1>8, <1>9 DEF DestructorStep, Transport!DestructorStep

\* A thread in on_response, or in the exercise of an option, is seen there.
LEMMA SeenFrame ==
    ASSUME Types, NEW t \in Threads,
           frame[t].at \in {"calling", "check", "advance", "cancel"}
    PROVE  Seen[t] = frame[t] /\ frame[t].how \notin Endings
<1>1. frame[t] \in Frames
  BY DeliveryFrameKinds DEF Types, DeliveryTypeOK
<1>2. frame[t].how \notin Endings
  BY <1>1 DEF Frames, Idle, Tidings, Endings
<1> QED
  BY <1>2, SeenOf

LEMMA SeenGoesOn ==
    ASSUME Types, NEW t \in Threads, NEW at, Seen[t] = frame[t], frame[t].how \notin Endings,
           frame[t] \in Frames, frame[t].at # "idle",
           frame' = [frame EXCEPT ![t].at = at]
    PROVE  Seen' = [Seen EXCEPT ![t].at = at]
<1>1. PICK f : f = [frame[t] EXCEPT !.at = at]
  OBVIOUS
<1>2. frame' = [frame EXCEPT ![t] = f] /\ f.how = frame[t].how
  BY <1>1 DEF Types, DeliveryTypeOK, Frames, Idle
<1>3. Seen' = [Seen EXCEPT ![t] = f]
  BY <1>2, SeenMoves
<1> QED
  BY <1>1, <1>3

LEMMA ExerciseIsTransports ==
    ASSUME Types, NEW t \in Threads,
           \/ ExerciseActive(t) \/ ExerciseQueued(t) \/ ExerciseFaults(t)
           \/ ExerciseAdvances(t) \/ ExerciseCancels(t)
    PROVE  Transport!UserStep(t)
<1>1. frame[t].at \in {"check", "advance", "cancel"}
  BY ExerciseFrames
<1>2. Seen[t] = frame[t] /\ frame[t].how \notin Endings /\ frame[t] \in Frames
  BY <1>1, SeenFrame, DeliveryFrameKinds DEF Types, DeliveryTypeOK
<1>3. UNCHANGED frame => UNCHANGED Seen
  BY DEF Seen
<1>4. \A at : frame' = [frame EXCEPT ![t].at = at] => Seen' = [Seen EXCEPT ![t].at = at]
  BY <1>1, <1>2, SeenGoesOn
<1>5. frame' = [frame EXCEPT ![t] = Idle] => Seen' = [Seen EXCEPT ![t] = Transport!Idle]
  BY SeenMoves, SharedNames DEF Idle, Endings
<1>6. ReadsPool(t) => Transport!ReadsPool(t)
  BY <1>2, BrokenOf DEF ReadsPool, Transport!ReadsPool
<1>7. CASE ExerciseActive(t)
  <2>1. Transport!ExerciseActive(t)
    BY <1>2, <1>4, <1>6, <1>7, BrokenOf
       DEF ExerciseActive, Transport!ExerciseActive, history, Transport!history
  <2> QED
    BY <2>1 DEF Transport!UserStep
<1>8. CASE ExerciseQueued(t)
  <2>1. Transport!ExerciseQueued(t)
    BY <1>2, <1>5, <1>6, <1>8, BrokenOf, SharedNames, SharedCalls
       DEF ExerciseQueued, Transport!ExerciseQueued, history, Transport!history
  <2> QED
    BY <2>1 DEF Transport!UserStep
<1>9. CASE ExerciseFaults(t)
  <2>1. fault' \in Faults /\ Broken' = fault'
    BY <1>9, BrokenOf DEF ExerciseFaults, Faults
  <2>2. Transport!ExerciseFaults(t)
    BY <1>2, <1>3, <1>6, <1>9, <2>1, BrokenOf
       DEF ExerciseFaults, Transport!ExerciseFaults, history, Transport!history
  <2> QED
    BY <2>2 DEF Transport!UserStep
<1>10. CASE ExerciseAdvances(t)
  <2>1. Transport!ExerciseAdvances(t)
    BY <1>2, <1>4, <1>10, BrokenOf, SharedRuns
       DEF ExerciseAdvances, Transport!ExerciseAdvances, PoolFree, Transport!PoolFree
  <2> QED
    BY <2>1 DEF Transport!UserStep
<1>11. CASE ExerciseCancels(t)
  <2>1. fault' = "cancel_threw" => Broken' = "cancel_threw"
    BY BrokenOf DEF Faults
  <2>2. Transport!ExerciseCancels(t)
    BY <1>2, <1>3, <1>5, <1>11, <2>1, BrokenOf, SharedCalls
       DEF ExerciseCancels, Transport!ExerciseCancels, history, Transport!history
  <2> QED
    BY <2>2 DEF Transport!UserStep
<1> QED
  BY <1>7, <1>8, <1>9, <1>10, <1>11

\* deliver, called by a thread that rests or from within a callback.
LEMMA DeliverIsTransports ==
    ASSUME UseInv, NEW t \in Threads, NEW r \in Requests, Deliver(t, r)
    PROVE  Transport!Deliver(t, r)
<1>1. UNCHANGED frame => UNCHANGED Seen
  BY DEF Seen
<1>2. Transport!AtRest(t) \/ Seen[t].at = "handler"
  <2>1. CASE AtRest(t)
    BY <2>1, SeenAtRest
  <2>2. CASE frame[t].at = "handler" /\ frame[t].how \notin Endings
    BY <2>2, SeenOf
  <2>3. CASE frame[t].how \in Endings
    <3>1. t \in Workers /\ t # Destroyer
      BY <2>3, SchedulerAssumption DEF UseInv, ThreadUse
    <3> QED
      BY <2>3, <3>1, SeenOf, SharedNames DEF Transport!AtRest
  <2> QED
    BY <2>1, <2>2, <2>3 DEF Deliver
<1> QED
  BY <1>1, <1>2, BrokenOf, SharedRuns
     DEF Deliver, Transport!Deliver, PoolFree, Transport!PoolFree

\* The rest of the handlers.
LEMMA TerminationIsTransports ==
    ASSUME Types, UseInv, NEW t \in Threads, NEW r \in Requests, Running,
           frame[t].at = "handler", frame[t].req = r, frame[t].how \in Tidings,
           frame[t].how # "partial", r \notin exercised, OptionFree(r),
           NEW how, how = (IF frame[t].how = "complete" THEN "clean" ELSE "dirty"),
           Framed(t, Exercising(r, how))
    PROVE  Transport!HandlerTerminates(t)
<1>1. frame[t].how \notin Endings
  BY DEF Tidings, Endings
<1>2. Seen[t] = frame[t]
  BY <1>1, SeenOf
<1>3. PICK f : f = Exercising(r, how) /\ f = Transport!Exercising(r, how) /\ f.how = how
  BY SharedNames DEF Exercising
<1>4. Seen' = [Seen EXCEPT ![t] = f]
  BY <1>3, SeenMoves DEF Framed, Endings
<1>5. Transport!OptionFree(r)
  BY SeenOptionFree
<1> QED
  BY <1>2, <1>3, <1>4, <1>5, BrokenOf
     DEF Framed, Transport!HandlerTerminates, history, Transport!history

LEMMA TimeoutIsTransports ==
    ASSUME Types, UseInv, NEW t \in Threads, NEW r \in Requests, DropsOption(t, r),
           wire[r].option
    PROVE  Transport!Abandon(t, r)
<1>1. /\ Running /\ wire[r].owner = t /\ frame[t].at = "handler" /\ frame[t].how \in Endings
      /\ OptionFree(r) /\ Framed(t, Exercising(r, "drop"))
  BY DEF DropsOption, Endings
<1>2. t \in Workers /\ t # Destroyer /\ r \notin exercised /\ Assigned(r) /\ RequestUse(r)
  BY <1>1, HoldingUse, SchedulerAssumption
<1>3. Transport!AtRest(t)
  BY <1>1, <1>2, SeenOf, SharedNames DEF Transport!AtRest
<1>4. Transport!Held(r)
  BY <1>2 DEF RequestUse, Assigned, Transport!Held
<1>5. PICK f : f = Exercising(r, "drop") /\ f = Transport!Exercising(r, "drop") /\ f.how = "drop"
  BY SharedNames DEF Exercising
<1>6. Seen' = [Seen EXCEPT ![t] = f]
  BY <1>1, <1>5, SeenMoves DEF Framed, Endings
<1>7. Transport!OptionFree(r) /\ Transport!Running
  BY <1>1, SeenOptionFree, BrokenOf
<1>8. <<"drop", Transport!Where(r)>> \in {"drop", "dirty"} \X {"active", "queued", "lost"}
  BY DEF Transport!Where
<1> QED
  BY <1>1, <1>3, <1>4, <1>5, <1>6, <1>7, <1>8, BrokenOf
     DEF Framed, Transport!Abandon, history, Transport!history

\* What the transport does while no user gives up and nobody destroys it.
PatientStep ==
    \/ Transport!Outside(Transport!WriteCompletes)
    \/ Transport!Outside(Transport!WriteGoesNowhere)
    \/ Transport!Outside(Transport!ReadCompletes)
    \/ Transport!Outside(Transport!ReadFails)
    \/ Transport!Outside(Transport!NodeReplies)
    \/ Transport!Outside(Transport!PeerResets)
    \/ \E w \in Workers : Transport!RunsHandler(w)
    \/ \E t \in Threads : Transport!UserStep(t)
    \/ \E t \in Threads, r \in Requests : Transport!Deliver(t, r)
    \/ Transport!DestructorStep
    \/ Transport!WakesSpuriously
    \/ UNCHANGED Transport!vars

\* A request gives up in the handler of its timer, and nowhere else.
GivesUp ==
    \E t \in Threads, r \in Requests : DropsOption(t, r) /\ Transport!Abandon(t, r)

TransportStep == PatientStep \/ GivesUp \/ Transport!Destroy

LEMMA TransportSteps ==
    ASSUME TransportStep
    PROVE  [Transport!Next]_(Transport!vars)
BY SharedNames DEF TransportStep, PatientStep, GivesUp, Transport!Next, Transport!Application

LEMMA FaultySilent ==
    ASSUME NEW what, Running, what \notin Faults, Faulty(what)
    PROVE  UNCHANGED Transport!vars
BY BrokenOf DEF Faulty, history, Transport!vars, Transport!history, Seen

LEMMA FramedSilent ==
    ASSUME Types, NEW t \in Threads, NEW f, f = Idle \/ f.how \in Endings,
           frame[t] = Idle \/ frame[t].how \in Endings, Framed(t, f)
    PROVE  UNCHANGED Transport!vars
BY SeenStays, BrokenOf DEF Framed, history, Transport!vars, Transport!history

LEMMA UserStepIsTransports ==
    ASSUME NEW t \in Threads, Transport!UserStep(t)
    PROVE  TransportStep
BY DEF TransportStep, PatientStep

LEMMA HandlersAreTransports ==
    ASSUME Types, UseInv, NEW t \in Threads, NEW r \in Requests, Handler(t, r)
    PROVE  TransportStep
<1>1. CASE OnPartial(t, r)
  <2>1. Running /\ frame[t].at = "handler" /\ frame[t].how = "partial" /\ Framed(t, Idle)
    BY <1>1 DEF OnPartial, Locks
  <2>2. Seen[t] = frame[t] /\ Seen' = [Seen EXCEPT ![t] = Transport!Idle]
    BY <2>1, SeenOf, SeenMoves, SharedNames DEF Framed, Idle, Endings
  <2>3. Transport!HandlerReturns(t)
    BY <2>1, <2>2, BrokenOf DEF Framed, Transport!HandlerReturns, history, Transport!history
  <2> QED
    BY <2>3, UserStepIsTransports DEF Transport!UserStep
<1>2. CASE OnComplete(t, r) \/ OnTimeout(t, r) \/ Releases(t, r)
  <2>1. UNCHANGED vars
    BY <1>2 DEF OnComplete, OnTimeout, Releases
  <2> QED
    BY <2>1, SilentToTransport DEF TransportStep, PatientStep
<1>3. CASE TerminatesClean(t, r) /\ wire[r].option
  <2>1. /\ Running /\ wire[r].owner = t /\ frame[t].at = "handler" /\ frame[t].how = "complete"
        /\ OptionFree(r) /\ Framed(t, Exercising(r, "clean"))
    BY <1>3 DEF TerminatesClean
  <2>2. frame[t].req = r /\ r \notin exercised
    BY <1>3, <2>1, HoldingUse
  <2>3. Transport!HandlerTerminates(t)
    BY <2>1, <2>2, TerminationIsTransports DEF Tidings
  <2> QED
    BY <2>3, UserStepIsTransports DEF Transport!UserStep
<1>4. CASE OnError(t, r) /\ wire[r].option
  <2>1. /\ Locks(t, r) /\ Running /\ OptionFree(r) /\ Framed(t, Exercising(r, "dirty"))
        /\ \/ frame[t].how \in {"failed", "reset"}
           \/ frame[t].how \in Tidings /\ wire[r].timed_out
    BY <1>4 DEF OnError, Locks
  <2>2. /\ frame[t].at = "handler" /\ frame[t].req = r /\ r \notin exercised
        /\ ~wire[r].timed_out
    BY <1>4, <2>1, LockedUse
  <2>3. Transport!HandlerTerminates(t)
    BY <2>1, <2>2, TerminationIsTransports DEF Tidings
  <2> QED
    BY <2>3, UserStepIsTransports DEF Transport!UserStep
<1>5. CASE (TerminatesClean(t, r) \/ OnError(t, r)) /\ ~wire[r].option
  <2>1. Running /\ Faulty("empty_option")
    BY <1>5 DEF TerminatesClean, OnError, Locks
  <2> QED
    BY <2>1, FaultySilent DEF TransportStep, PatientStep, Faults
<1>6. CASE DropsOption(t, r) /\ wire[r].option
  <2>1. Transport!Abandon(t, r)
    BY <1>6, TimeoutIsTransports
  <2> QED
    BY <1>6, <2>1 DEF TransportStep, GivesUp
<1>7. CASE DropsOption(t, r) /\ ~wire[r].option
  <2>1. frame[t].how \in Endings /\ Framed(t, Idle)
    BY <1>7 DEF DropsOption, Endings
  <2> QED
    BY <2>1, FramedSilent DEF TransportStep, PatientStep
<1>8. CASE OnTimeoutCancelled(t, r)
  <2>1. frame[t].how \in Endings /\ Framed(t, Idle)
    BY <1>8 DEF OnTimeoutCancelled, Endings
  <2> QED
    BY <2>1, FramedSilent DEF TransportStep, PatientStep
<1> QED
  BY <1>1, <1>2, <1>3, <1>4, <1>5, <1>6, <1>7, <1>8 DEF Handler

LEMMA DispatchIsTransports ==
    ASSUME Types, UseInv, NEW t \in Threads, NEW r \in Requests,
           DispatchVia(t, r) \/ Dispatch(t, r)
    PROVE  TransportStep
<1>1. CASE Delivers(t, r)
  <2>1. Transport!Deliver(t, r)
    BY <1>1, DeliverIsTransports DEF Delivers
  <2> QED
    BY <2>1 DEF TransportStep, PatientStep
<1>2. CASE DeliverFails(t, r)
  <2>1. \/ UNCHANGED vars
        \/ Running /\ \E what \in {"no_transport", "network_down"} : Faulty(what)
    BY <1>2 DEF DeliverFails
  <2> QED
    BY <2>1, SilentToTransport, FaultySilent DEF TransportStep, PatientStep, Faults
<1>3. CASE DispatchVia(t, r) \/ AssignOption(t, r) \/ ArmTimer(t, r)
  <2>1. UNCHANGED vars
    BY <1>3 DEF DispatchVia, AssignOption, ArmTimer
  <2> QED
    BY <2>1, SilentToTransport DEF TransportStep, PatientStep
<1> QED
  BY <1>1, <1>2, <1>3 DEF Dispatch

LEMMA EntryIsTransports ==
    ASSUME Types, NEW t \in Threads, EnterOnResponse(t) \/ EnterOnTimeout(t)
    PROVE  TransportStep
<1>1. CASE EnterOnResponse(t) /\ EnterHandler(t)
  <2>1. /\ frame[t].at = "calling" /\ Seen[t] = frame[t] /\ frame[t].how \notin Endings
        /\ frame[t] \in Frames
    BY <1>1, SeenFrame, DeliveryFrameKinds DEF EnterHandler, Types, DeliveryTypeOK
  <2>2. PICK r, how : /\ r = frame[t].req
                      /\ how = ReadAs(r, [how |-> frame[t].how, of |-> frame[t].of])
    OBVIOUS
  <2>3. /\ frame' = [frame EXCEPT ![t].at = "handler", ![t].how = how]
        /\ heard' = [heard EXCEPT ![r] = Append(@, [how |-> how, of |-> frame[t].of])]
        /\ UNCHANGED <<io, pending, active, shutting_down, exercised, dtor, untold,
                       history, failures, fault>>
        /\ Running
    BY <1>1, <2>2 DEF EnterHandler
  <2>4. Seen' = [Seen EXCEPT ![t].at = "handler", ![t].how = how]
    <3>1. PICK f : f = [frame[t] EXCEPT !.at = "handler", !.how = how]
      OBVIOUS
    <3>2. how \notin Endings
      BY <2>1, <2>2, ReadAsEither DEF Endings
    <3>3. frame' = [frame EXCEPT ![t] = f] /\ f.how \notin Endings
      BY <2>1, <2>3, <3>1, <3>2 DEF Frames, Idle
    <3>4. Seen' = [Seen EXCEPT ![t] = f]
      BY <3>3, SeenMoves
    <3> QED
      BY <2>1, <3>1, <3>4
  <2>5. how = Transport!ReadAs(r, [how |-> Seen[t].how, of |-> Seen[t].of])
    BY <2>1, <2>2, SharedNames
  <2>6. Transport!EnterHandler(t)
    BY <2>1, <2>2, <2>3, <2>4, <2>5, BrokenOf
       DEF Transport!EnterHandler, history, Transport!history
  <2> QED
    BY <2>6, UserStepIsTransports DEF Transport!UserStep
<1>2. CASE EnterOnTimeout(t)
  <2>1. Running /\ frame[t] = Idle
    BY <1>2 DEF EnterOnTimeout, AtRest
  <2>2. CASE Faulty("timeout_assertion")
    BY <2>1, <2>2, FaultySilent DEF TransportStep, PatientStep, Faults
  <2>3. CASE Framed(t, [at |-> "handler", req |-> Head(due).req, how |-> Head(due).how, of |-> None])
    <3>1. Head(due).how \in Endings
      <4>1. due \in Seq(Due) /\ due # <<>>
        BY <1>2, DueTypes DEF EnterOnTimeout
      <4>2. Head(due) \in Due
        <5> HIDE DEF Due
        <5> QED
          BY <4>1, HeadTailProperties
      <4> QED
        BY <4>2 DEF Due
    <3>2. PICK f : f = [at |-> "handler", req |-> Head(due).req, how |-> Head(due).how, of |-> None]
      OBVIOUS
    <3>3. Framed(t, f) /\ f.how \in Endings
      BY <2>3, <3>1, <3>2
    <3> QED
      BY <2>1, <3>3, FramedSilent DEF TransportStep, PatientStep
  <2> QED
    BY <1>2, <2>2, <2>3 DEF EnterOnTimeout
<1>3. CASE Running /\ Faulty("response_assertion")
  BY <1>3, FaultySilent DEF TransportStep, PatientStep, Faults
<1> QED
  BY <1>1, <1>2, <1>3 DEF EnterOnResponse

\* Only a transport that somebody destroys goes away.
LEMMA DestroyerStep ==
    ASSUME dtor # "alive" => Destroyer # None, [DeliveryNext]_deliveryVars
    PROVE  (dtor # "alive" => Destroyer # None)'
<1>1. ASSUME NEW t \in Threads, Proceeds(t)
      PROVE  UNCHANGED dtor
  <2>1. ASSUME NEW r \in Requests, Handler(t, r) \/ Dispatch(t, r)
        PROVE  UNCHANGED dtor
    BY <2>1 DEF Handler, OnPartial, OnComplete, TerminatesClean, OnError, OnTimeout,
                DropsOption, OnTimeoutCancelled, Releases, Framed, Faulty, vars,
                Dispatch, Delivers, Deliver, DeliverFails, AssignOption, ArmTimer
  <2>2. EnterOnResponse(t) \/ Exercise(t) => UNCHANGED dtor
    BY DEF EnterOnResponse, EnterHandler, Faulty, Exercise, ExerciseActive, ExerciseQueued,
           ExerciseFaults, ExerciseAdvances, ExerciseCancels
  <2> QED
    BY <1>1, <2>1, <2>2 DEF Proceeds
<1>2. ASSUME NEW w \in Workers, Works(w)
      PROVE  UNCHANGED dtor
  BY <1>2 DEF Works, Transports, RunsHandler, OnWrite, OnRead, DequeueThreadSafely,
              RunsOnFreedPool, EnterOnTimeout, Framed, Faulty
<1>3. CASE \/ Transports(Destroy /\ Free(Destroyer)) \/ Destructs
           \/ Transports(WakesSpuriously)
  BY <1>3 DEF Transports, Destructs, Destroy, DestructorStep, TellPending, AwaitDequeued,
              Drained, WakesSpuriously
<1>4. CASE \/ Transports(Outside(WriteCompletes)) \/ Transports(Outside(WriteGoesNowhere))
           \/ Transports(Outside(ReadCompletes)) \/ Transports(Outside(ReadFails))
           \/ Transports(Outside(NodeReplies)) \/ Transports(Outside(PeerResets))
  BY <1>4 DEF Transports, Outside, Rest
<1>5. ASSUME NEW t \in Callers, NEW r \in Requests, DispatchVia(t, r)
      PROVE  UNCHANGED dtor
  BY <1>5 DEF DispatchVia, vars
<1>6. ASSUME NEW r \in Requests, Expire(r)
      PROVE  UNCHANGED dtor
  BY <1>6 DEF Expire, vars
<1>7. UNCHANGED deliveryVars => UNCHANGED dtor
  BY DEF deliveryVars, vars
<1> QED
  BY <1>1, <1>2, <1>3, <1>4, <1>5, <1>6, <1>7 DEF DeliveryNext

LEMMA StepIsTransports ==
    ASSUME Types, UseInv, dtor # "alive" => Destroyer # None, [DeliveryNext]_deliveryVars
    PROVE  TransportStep
<1>1. ASSUME NEW t \in Threads, Proceeds(t)
      PROVE  TransportStep
  <2>1. Exercise(t) => Transport!UserStep(t)
    BY ExerciseIsTransports DEF Exercise
  <2> QED
    BY <1>1, <2>1, UserStepIsTransports, HandlersAreTransports, DispatchIsTransports,
       EntryIsTransports DEF Proceeds
<1>2. ASSUME NEW t \in Callers, NEW r \in Requests, DispatchVia(t, r)
      PROVE  TransportStep
  BY <1>2, DispatchIsTransports DEF Threads
<1>3. ASSUME NEW r \in Requests, Expire(r)
      PROVE  TransportStep
  BY <1>3, SilentToTransport DEF Expire, TransportStep, PatientStep
<1>4. ASSUME NEW w \in Workers, Works(w)
      PROVE  TransportStep
  <2>1. CASE EnterOnTimeout(w)
    BY <2>1, EntryIsTransports DEF Threads
  <2>2. CASE Transports(RunsHandler(w))
    BY <2>2, HandlerIsTransports DEF Transports, TransportStep, PatientStep
  <2> QED
    BY <1>4, <2>1, <2>2 DEF Works
<1>5. CASE \/ Transports(Destroy /\ Free(Destroyer)) \/ Destructs
           \/ Transports(WakesSpuriously)
  <2>1. Destroyer \in Threads \cup {None}
    BY SchedulerAssumption DEF Threads
  <2>2. Destroy \/ DestructorStep \/ WakesSpuriously
    BY <1>5 DEF Transports, Destructs
  <2>3. DestructorStep => Destroyer # None
    BY DEF DestructorStep, TellPending, AwaitDequeued, Drained
  <2>4. Transport!Destroy \/ Transport!DestructorStep \/ Transport!WakesSpuriously
    BY <2>1, <2>2, <2>3, DestructionIsTransports
  <2> QED
    BY <2>4 DEF TransportStep, PatientStep
<1>6. CASE \/ Transports(Outside(WriteCompletes)) \/ Transports(Outside(WriteGoesNowhere))
           \/ Transports(Outside(ReadCompletes)) \/ Transports(Outside(ReadFails))
           \/ Transports(Outside(NodeReplies)) \/ Transports(Outside(PeerResets))
  BY <1>6, SharedOutside DEF Transports, TransportStep, PatientStep
<1>7. CASE UNCHANGED deliveryVars
  BY <1>7, SilentToTransport DEF deliveryVars, TransportStep, PatientStep
<1> QED
  BY <1>1, <1>2, <1>3, <1>4, <1>5, <1>6, <1>7 DEF DeliveryNext

\* Whatever the threads, requests with timeouts use the scheduler as its model says a user
\* does: every behaviour of the two is one of the scheduler, so that what is proved of it
\* with every way of giving up holds here (request_with_timeout.cxx:34, transport.hxx:28).
THEOREM SchedulerImplemented == DeliverySpec => ImplementsScheduler
<1>1. DeliveryInit => Types /\ UseInv /\ (dtor # "alive" => Destroyer # None) /\ Transport!Init
  <2> SUFFICES ASSUME DeliveryInit
               PROVE  Types /\ UseInv /\ (dtor # "alive" => Destroyer # None) /\ Transport!Init
    OBVIOUS
  <2>1. Seen = [t \in Transport!Threads |-> Transport!Idle] /\ Broken = "none"
    BY SharedNames, BrokenOf DEF DeliveryInit, Init, Seen, Running
  <2>2. Transport!IoInit
    BY DEF DeliveryInit, Init, IoInit, Transport!IoInit
  <2> QED
    BY <2>1, <2>2, TypesInit, UseInit DEF DeliveryInit, Init, Transport!Init
<1>2. /\ Types /\ UseInv /\ (dtor # "alive" => Destroyer # None)
      /\ [DeliveryNext]_deliveryVars
      => /\ Types' /\ UseInv' /\ (dtor # "alive" => Destroyer # None)'
         /\ [Transport!Next]_(Transport!vars)
  BY TypesStep, UseStep, DestroyerStep, StepIsTransports, TransportSteps
<1> QED
  BY <1>1, <1>2, PTL DEF DeliverySpec, ImplementsScheduler, Transport!Spec
=============================================================================
