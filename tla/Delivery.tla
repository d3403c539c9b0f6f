------------------------------ MODULE Delivery ------------------------------
(***************************************************************************)
(* Requests with timeouts on the scheduler they are delivered to: the      *)
(* composition of request_with_timeout with scheduler, each in place of    *)
(* the partner the other's own model assumes.                              *)
(*                                                                         *)
(* Here both kinds of mutex are seen, because a thread waits for one with  *)
(* the other held: that of the scheduler, held from step to step only by   *)
(* ~scheduler (PoolFree), and that of each request, held while its         *)
(* handlers call back and exercise the option.  A callback may dispatch    *)
(* the next request before it returns, as the client does to put what it   *)
(* resolved.                                                               *)
(***************************************************************************)
EXTENDS Scheduler

CONSTANTS
    Follower,   \* Follower[r]: the request the callback of r dispatches, or None
    FollowOn    \* the answers upon which it does

ASSUME DeliveryAssumption ==
    /\ Follower \in [Requests -> Requests \cup {None}]
    /\ FollowOn \subseteq {"complete", "failed", "timeout"}

VARIABLES
    wire,       \* wire[r]: the request_with_timeout of r
    due,        \* handlers of the timers, queued on the io_service
    answers     \* history: answers[r], the calls of the callback of r

deliveryVars == <<vars, wire, due, answers>>

Wires ==
    [ dispatch  : {"new", "calling", "delivered", "assigned", "done", "refused"},
      by        : Threads \cup {None},      \* the thread that is dispatching it
      option    : BOOLEAN,                  \* terminate_request_ holds an option
      armed     : BOOLEAN,                  \* timeout_ is waiting
      succeeded : BOOLEAN,
      timed_out : BOOLEAN,
      owner     : Threads \cup {None} ]     \* who holds its mutex_

Endings == {"expired", "aborted"}

Answers == [how : {"partial", "complete", "failed", "timeout"}, of : Requests \cup {None}]

\* The frames of Scheduler, and those of on_timeout.
DeliveryFrames ==
    Frames \cup [at : {"handler"}, req : Requests, how : Endings, of : {None}]

DeliveryTypeOK ==
    /\ frame \in [Threads -> DeliveryFrames]
    /\ wire \in [Requests -> Wires]
    /\ due \in Seq([req : Requests, how : Endings])
    /\ answers \in [Requests -> Seq(Answers)]
    /\ fault \in Faults \cup {"response_assertion", "timeout_assertion",
                              "empty_option", "network_down", "no_transport"}

DeliveryInit ==
    /\ Init
    /\ wire = [r \in Requests |->
                  [dispatch |-> "new", by |-> None, option |-> FALSE, armed |-> FALSE,
                   succeeded |-> FALSE, timed_out |-> FALSE, owner |-> None]]
    /\ due = <<>>
    /\ answers = [r \in Requests |-> <<>>]

-----------------------------------------------------------------------------
Dispatching(t) == \E r \in Requests : wire[r].by = t

\* t is between the handlers of the io_service and the calls of the application.
Free(t) == ~Dispatching(t) /\ \A r \in Requests : wire[r].owner # t

Faulty(what) ==
    /\ fault' = what
    /\ UNCHANGED <<io, pending, active, shutting_down, exercised, frame, dtor,
                   untold, heard, history, failures>>

Framed(t, f) ==
    /\ frame' = [frame EXCEPT ![t] = f]
    /\ UNCHANGED <<io, pending, active, shutting_down, exercised, dtor, untold,
                   heard, history, failures, fault>>

\* A bug to be found: the handler of a wait that was ended is told something else.
UnarmedAsSuccess(r) ==
    IF wire[r].armed THEN Append(due, [req |-> r, how |-> "success"]) ELSE due

\* cancel and expires_from_now end a wait that is still pending.
Unarmed(r) ==
    IF wire[r].armed THEN Append(due, [req |-> r, how |-> "aborted"]) ELSE due

\* In the wires w, the callback of r, called on t, dispatches the follower of r.
Follow(w, t, r, how) ==
    IF how \in FollowOn /\ Follower[r] # None /\ w[Follower[r]].dispatch = "new"
    THEN [w EXCEPT ![Follower[r]].dispatch = "calling", ![Follower[r]].by = t]
    ELSE w

Answer(r, how, of) ==
    answers' = [answers EXCEPT ![r] = Append(@, [how |-> how, of |-> of])]

-----------------------------------------------------------------------------
(***************************************************************************)
(* dispatch_via, called by the application or by a callback.               *)
(***************************************************************************)
DispatchVia(t, r) ==
    /\ Running
    /\ AtRest(t) /\ Free(t)
    /\ dtor = "alive"
    /\ wire[r].dispatch = "new"
    /\ wire' = [wire EXCEPT ![r].dispatch = "calling", ![r].by = t]
    /\ UNCHANGED <<vars, due, answers>>

Delivers(t, r) ==
    /\ wire[r].by = t /\ wire[r].dispatch = "calling"
    /\ Deliver(t, r)
    /\ wire' = [wire EXCEPT ![r].dispatch = "delivered"]
    /\ UNCHANGED <<due, answers>>

\* deliver throws network_down: to the application, or out of a callback and of the
\* handler that made it, past the end of on_response.  Later there is no scheduler.
DeliverFails(t, r) ==
    /\ Running
    /\ wire[r].by = t /\ wire[r].dispatch = "calling"
    /\ PoolFree
    /\ shutting_down
    /\ IF dtor = "gone" THEN Faulty("no_transport") /\ UNCHANGED wire
       ELSE IF \E q \in Requests : wire[q].owner = t
       THEN Faulty("network_down") /\ UNCHANGED wire
       ELSE /\ wire' = [wire EXCEPT ![r].dispatch = "refused", ![r].by = None]
            /\ UNCHANGED vars
    /\ UNCHANGED <<due, answers>>

AssignOption(t, r) ==
    /\ Running
    /\ wire[r].by = t /\ wire[r].dispatch = "delivered"
    /\ wire' = [wire EXCEPT ![r].dispatch = "assigned", ![r].option = TRUE]
    /\ UNCHANGED <<vars, due, answers>>

\* A bug to be found: the timer is not started.
LeaveUntimed(t, r) ==
    /\ Running
    /\ wire[r].by = t /\ wire[r].dispatch = "assigned"
    /\ wire' = [wire EXCEPT ![r].dispatch = "done", ![r].by = None]
    /\ UNCHANGED <<vars, due, answers>>

ArmTimer(t, r) ==
    /\ Running
    /\ wire[r].by = t /\ wire[r].dispatch = "assigned"
    /\ wire' = [wire EXCEPT ![r].dispatch = "done", ![r].by = None, ![r].armed = TRUE]
    /\ due' = Unarmed(r)
    /\ UNCHANGED <<vars, answers>>

Expire(r) ==
    /\ Running
    /\ wire[r].armed
    /\ wire' = [wire EXCEPT ![r].armed = FALSE]
    /\ due' = Append(due, [req |-> r, how |-> "expired"])
    /\ UNCHANGED <<vars, answers>>

-----------------------------------------------------------------------------
(***************************************************************************)
(* on_response, on the thread the scheduler calls it on.                   *)
(***************************************************************************)
EnterOnResponse(t) ==
    /\ frame[t].at = "calling"
    /\ LET r == frame[t].req
       IN  IF ~wire[r].succeeded /\ wire[r].option
           THEN EnterHandler(t)
           ELSE Running /\ Faulty("response_assertion")
    /\ UNCHANGED <<wire, due, answers>>

\* t is in a handler of r, past its assertion, and gets r's mutex_.
Locks(t, r) ==
    /\ Running
    /\ frame[t].at = "handler"
    /\ frame[t].req = r
    /\ wire[r].owner = None

\* A bug to be found: the timer is stopped but not started again.
PartialUntimed(t, r) ==
    /\ Locks(t, r)
    /\ frame[t].how = "partial"
    /\ ~wire[r].timed_out
    /\ Answer(r, "partial", frame[t].of)
    /\ due' = Unarmed(r)
    /\ wire' = [wire EXCEPT ![r].armed = FALSE]
    /\ Framed(t, Idle)

\* A part of the reply: the timer starts again.
OnPartial(t, r) ==
    /\ Locks(t, r)
    /\ frame[t].how = "partial"
    /\ ~wire[r].timed_out
    /\ Answer(r, "partial", frame[t].of)
    /\ due' = Unarmed(r)
    /\ wire' = [wire EXCEPT ![r].armed = TRUE]
    /\ Framed(t, Idle)

\* The end of the reply: the callback, then (TerminatesClean) the option.  The parts it
\* completes are in the buffer: their threads had the mutex before.
OnComplete(t, r) ==
    /\ Locks(t, r)
    /\ frame[t].how = "complete"
    /\ \A u \in Threads :
          frame[u] # [at |-> "handler", req |-> r, how |-> "partial", of |-> frame[t].of]
    /\ ~wire[r].timed_out
    /\ Answer(r, "complete", frame[t].of)
    /\ due' = Unarmed(r)
    /\ wire' = Follow([wire EXCEPT ![r].armed = FALSE, ![r].owner = t], t, r, "complete")
    /\ UNCHANGED vars

TerminatesClean(t, r) ==
    /\ Running
    /\ wire[r].owner = t
    /\ frame[t].at = "handler" /\ frame[t].how = "complete"
    /\ ~Dispatching(t)
    /\ OptionFree(r)
    /\ IF wire[r].option
       THEN Framed(t, Exercising(r, "clean"))
       ELSE Faulty("empty_option")
    /\ UNCHANGED <<wire, due, answers>>

\* An error, or a response after the timeout: the option, then (Exercised) the callback.
OnError(t, r) ==
    /\ Locks(t, r)
    /\ \/ frame[t].how \in {"failed", "reset"}
       \/ frame[t].how \in Tidings /\ wire[r].timed_out
    /\ OptionFree(r)
    /\ due' = Unarmed(r)
    /\ wire' = [wire EXCEPT ![r].armed = FALSE, ![r].owner = t]
    /\ IF wire[r].option
       THEN Framed(t, Exercising(r, "dirty"))
       ELSE Faulty("empty_option")
    /\ UNCHANGED answers

-----------------------------------------------------------------------------
(***************************************************************************)
(* on_timeout.                                                             *)
(***************************************************************************)
EnterOnTimeout(w) ==
    /\ Running
    /\ AtRest(w) /\ Free(w)
    /\ due # <<>>
    /\ due' = Tail(due)
    /\ IF ~wire[Head(due).req].timed_out
       THEN Framed(w, [at |-> "handler", req |-> Head(due).req,
                       how |-> Head(due).how, of |-> None])
       ELSE Faulty("timeout_assertion")
    /\ UNCHANGED <<wire, answers>>

OnTimeout(t, r) ==
    /\ Locks(t, r)
    /\ frame[t].how = "expired"
    /\ Answer(r, "timeout", None)
    /\ wire' = Follow([wire EXCEPT ![r].timed_out = TRUE, ![r].owner = t], t, r, "timeout")
    /\ UNCHANGED <<vars, due>>

\* After the callback: the option, if still there, is destroyed.
DropsOption(t, r) ==
    /\ Running
    /\ wire[r].owner = t
    /\ frame[t].at = "handler" /\ frame[t].how = "expired"
    /\ ~Dispatching(t)
    /\ IF wire[r].option
       THEN OptionFree(r) /\ Framed(t, Exercising(r, "drop")) /\ UNCHANGED wire
       ELSE Framed(t, Idle) /\ wire' = [wire EXCEPT ![r].owner = None]
    /\ UNCHANGED <<due, answers>>

\* A bug to be found: the callback is told of a timeout although the wait was cancelled.
CancelledIsTold(t, r) ==
    /\ Locks(t, r)
    /\ frame[t].how = "aborted"
    /\ Answer(r, "timeout", None)
    /\ wire' = [wire EXCEPT ![r].timed_out = FALSE]
    /\ Framed(t, Idle)
    /\ UNCHANGED due

OnTimeoutCancelled(t, r) ==
    /\ Locks(t, r)
    /\ frame[t].how = "aborted"
    /\ wire' = [wire EXCEPT ![r].timed_out = FALSE]
    /\ Framed(t, Idle)
    /\ UNCHANGED <<due, answers>>

-----------------------------------------------------------------------------
\* A bug to be found: after a timeout the request keeps its option.
KeptAfterTimeout(t, r, how) ==
    IF how = "dirty"
    THEN IF wire[r].timed_out
         THEN UNCHANGED <<wire, answers>>
         ELSE /\ Answer(r, "failed", None)
              /\ wire' = Follow(wire, t, r, "failed")
    ELSE /\ wire' = [wire EXCEPT ![r].option = how = "drop", ![r].owner = None,
                                 ![r].succeeded = @ \/ how = "clean"]
         /\ UNCHANGED answers

\* The option has been exercised: with an error the callback is called now, otherwise
\* the handler lets go of the option and of the mutex.
Exercised(t, r, how) ==
    IF how = "dirty"
    THEN IF wire[r].timed_out
         THEN UNCHANGED <<wire, answers>>
         ELSE /\ Answer(r, "failed", None)
              /\ wire' = Follow(wire, t, r, "failed")
    ELSE /\ wire' = [wire EXCEPT ![r].option = FALSE, ![r].owner = None,
                                 ![r].succeeded = @ \/ how = "clean"]
         /\ UNCHANGED answers

Exercise(t) ==
    /\ ExerciseActive(t) \/ ExerciseQueued(t) \/ ExerciseFaults(t)
          \/ ExerciseAdvances(t) \/ ExerciseCancels(t)
    /\ IF frame'[t] = Idle
       THEN Exercised(t, frame[t].req, frame[t].how)
       ELSE UNCHANGED <<wire, answers>>
    /\ UNCHANGED due

\* The end of on_response after an error.
Releases(t, r) ==
    /\ Running
    /\ wire[r].owner = t
    /\ frame[t] = Idle
    /\ ~Dispatching(t)
    /\ wire' = [wire EXCEPT ![r].option = FALSE, ![r].owner = None]
    /\ UNCHANGED <<vars, due, answers>>

-----------------------------------------------------------------------------
Transports(A) == A /\ UNCHANGED <<wire, due, answers>>

Handler(t, r) ==
    \/ OnPartial(t, r)
    \/ OnComplete(t, r)
    \/ TerminatesClean(t, r)
    \/ OnError(t, r)
    \/ OnTimeout(t, r)
    \/ DropsOption(t, r)
    \/ OnTimeoutCancelled(t, r)
    \/ Releases(t, r)

Dispatch(t, r) ==
    Delivers(t, r) \/ DeliverFails(t, r) \/ AssignOption(t, r) \/ ArmTimer(t, r)

\* What thread t does once it has begun to do something.
Proceeds(t) ==
    \/ \E r \in Requests : Handler(t, r) \/ Dispatch(t, r)
    \/ EnterOnResponse(t)
    \/ Exercise(t)

\* Worker w takes a handler off the io_service.
Works(w) == (Free(w) /\ Transports(RunsHandler(w))) \/ EnterOnTimeout(w)

Destructs == Free(Destroyer) /\ Transports(DestructorStep)

DeliveryNext ==
    \/ \E t \in Callers, r \in Requests : DispatchVia(t, r)
    \/ \E t \in Threads : Proceeds(t)
    \/ \E w \in Workers : Works(w)
    \/ \E r \in Requests : Expire(r)
    \/ Transports(Destroy /\ Free(Destroyer))
    \/ Destructs
    \/ Transports(WakesSpuriously)
    \/ Transports(Outside(WriteCompletes))
    \/ Transports(Outside(WriteGoesNowhere))
    \/ Transports(Outside(ReadCompletes))
    \/ Transports(Outside(ReadFails))
    \/ Transports(Outside(NodeReplies))
    \/ Transports(Outside(PeerResets))

DeliverySpec == DeliveryInit /\ [][DeliveryNext]_deliveryVars

(***************************************************************************)
(* Threads proceed, workers run what is queued, time passes.  Nothing is   *)
(* asked of the network and of the node.                                   *)
(***************************************************************************)
FairDelivery ==
    /\ DeliverySpec
    /\ \A t \in Threads : WF_deliveryVars(Proceeds(t))
    /\ \A w \in Workers : WF_deliveryVars(Works(w))
    /\ WF_deliveryVars(\E r \in Requests : Expire(r))
    /\ WF_deliveryVars(Destructs)

-----------------------------------------------------------------------------
Ended(r) == \E i \in DOMAIN answers[r] : answers[r][i].how # "partial"

\* Every request the transport accepts is answered, whatever becomes of its connection,
\* its node and the transport (request_with_timeout.cxx:36), unless the program dies: as
\* it does when a callback dispatches while the transport shuts down (scheduler.cxx:82).
EveryRequestAnswered ==
    \A r \in Requests : wire[r].dispatch = "delivered" ~> Ended(r) \/ ~Running

\* Nobody waits for ever in deliver, which returns or throws, also from within a callback
\* (scheduler.cxx:109): the mutexes of requests and of the scheduler do not deadlock.
DeliverReturns ==
    []<>(~Running \/ \A r \in Requests : wire[r].dispatch # "calling")

\* A callback is given another request's reply only after a timeout: that of the request
\* it belongs to, or of one before that whose reply has shifted the others (the clean
\* end of request_with_timeout.cxx:81).  Never is it a reply to a later request.
ForeignReplyFollowsTimeout ==
    \A r \in Requests : \A i \in DOMAIN answers[r] :
        LET q == answers[r][i].of
        IN  q \notin {r, None} =>
                /\ arrival[q] < arrival[r]
                /\ \E p \in Requests :
                      /\ arrival[p] <= arrival[q]
                      /\ \E j \in DOMAIN answers[p] : answers[p][j].how = "timeout"

\* The program dies only when the server was silent for too long, when it is being taken
\* down, or because (request_with_timeout.cxx:34) a response overtook the return of deliver.
\* That the peer resets the connection is not enough.
FaultsAreProvoked ==
    ~Running =>
        \/ shutting_down
        \/ \E r \in Requests : \E i \in DOMAIN answers[r] : answers[r][i].how = "timeout"
        \/ \E r \in Requests : wire[r].dispatch = "delivered"

\* The transport sees neither the handlers of timers nor what ends a request.
Seen == [t \in Threads |-> IF frame[t].how \in Endings THEN Idle ELSE frame[t]]
Broken == IF fault \in Faults THEN fault ELSE "none"

\* To it these requests are a user as its own model assumes, whatever the threads: no
\* option is exercised twice or before it was returned, by two threads at once, or in the
\* wrong way for what was heard, although a timeout may race a response
\* (transport.hxx:13 and :23, request_with_timeout.cxx:73).
Transport == INSTANCE Scheduler WITH
    frame <- Seen,
    fault <- Broken,
    Abandons <- {"drop", "dirty"} \X {"active", "queued", "lost"}
ImplementsScheduler == Transport!Spec

\* Together they keep the promise the client relies on.
Promise == INSTANCE Exchange WITH
    sent <- {r \in Requests : wire[r].dispatch \notin {"new", "calling", "refused"}},
    answers <- [r \in Requests |-> [i \in DOMAIN answers[r] |-> answers[r][i].how]]
ImplementsExchange == Promise!Spec
=============================================================================
