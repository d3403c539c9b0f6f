------------------------- MODULE RequestWithTimeout -------------------------
(***************************************************************************)
(* riak::request_with_timeout: one request, the deadline_timer that limits *)
(* the radio silence of the server, and the response callback it answers.  *)
(*                                                                         *)
(* The transport is the scheduler as this class meets it: it calls         *)
(* on_response with parts of a reply, the end of it, or an error, any      *)
(* number of times.  The option ends that only for calls that have not     *)
(* begun; the scheduler fetches the handler, unlocks, and then calls it,   *)
(* so a call may still come after the option was exercised.                *)
(* Each handler evaluates its assertion before it takes the request's      *)
(* mutex_, and does the rest in one go with that mutex held.               *)
(***************************************************************************)
EXTENDS Naturals, Sequences

CONSTANTS
    Workers,        \* the threads that run the io_service
    Dispatcher,     \* the thread that calls dispatch_via, a worker or another
    MaxResponses    \* bound: how often the transport calls on_response

ASSUME RequestAssumption == MaxResponses \in Nat

VARIABLES
    dispatch,           \* how far dispatch_via has come
    terminate_request,  \* terminate_request_ holds an option
    terminated,         \* what the transport was told: "no", "clean", "dirty"
    armed,              \* timeout_ has a wait that has neither expired nor ended
    fired,              \* handlers of timeout_ queued on the io_service
    succeeded, timed_out,
    frame,              \* frame[w]: the handler worker w is in, and its argument
    responses,          \* how often the transport has called on_response
    answers,            \* history: the calls of response_callback_
    fault

vars == <<dispatch, terminate_request, terminated, armed, fired, succeeded,
          timed_out, frame, responses, answers, fault>>

Responses == {"partial", "complete", "failed"}
Endings == {"expired", "aborted"}
Answers == Responses \cup {"timeout"}

Idle == <<"idle", "none">>
Frames == {Idle} \cup ({"on_response"} \X Responses) \cup ({"on_timeout"} \X Endings)

TypeOK ==
    /\ dispatch \in {"new", "delivered", "assigned", "done"}
    /\ terminate_request \in BOOLEAN
    /\ terminated \in {"no", "clean", "dirty"}
    /\ armed \in BOOLEAN
    /\ fired \in Seq(Endings)
    /\ succeeded \in BOOLEAN
    /\ timed_out \in BOOLEAN
    /\ frame \in [Workers -> Frames]
    /\ responses \in 0..MaxResponses
    /\ answers \in Seq(Answers)
    /\ fault \in {"none", "response_assertion", "timeout_assertion", "empty_option"}

Init ==
    /\ dispatch = "new"
    /\ terminate_request = FALSE
    /\ terminated = "no"
    /\ armed = FALSE
    /\ fired = <<>>
    /\ succeeded = FALSE
    /\ timed_out = FALSE
    /\ frame = [w \in Workers |-> Idle]
    /\ responses = 0
    /\ answers = <<>>
    /\ fault = "none"

Running == fault = "none"

\* A worker that dispatches runs no handler before dispatch_via returns.
Available(w) ==
    /\ frame[w] = Idle
    /\ w = Dispatcher => dispatch \in {"new", "done"}

-----------------------------------------------------------------------------
(***************************************************************************)
(* dispatch_via.  It takes no lock: as soon as the request is delivered    *)
(* the transport may respond on another thread.                            *)
(***************************************************************************)
Deliver ==
    /\ Running
    /\ dispatch = "new"
    /\ dispatch' = "delivered"
    /\ UNCHANGED <<terminate_request, terminated, armed, fired, succeeded,
                   timed_out, frame, responses, answers, fault>>

\* Assigning the option.
AssignOption ==
    /\ Running
    /\ dispatch = "delivered"
    /\ dispatch' = "assigned"
    /\ terminate_request' = TRUE
    /\ UNCHANGED <<terminated, armed, fired, succeeded, timed_out, frame,
                   responses, answers, fault>>

\* A bug to be found: the handler of a wait that was ended is told something else.
UnarmedAsSuccess == IF armed THEN Append(fired, "success") ELSE fired

\* expires_from_now ends a wait that is still pending; async_wait begins one.
Unarmed == IF armed THEN Append(fired, "aborted") ELSE fired

ArmTimer ==
    /\ Running
    /\ dispatch = "assigned"
    /\ dispatch' = "done"
    /\ fired' = Unarmed
    /\ armed' = TRUE
    /\ UNCHANGED <<terminate_request, terminated, succeeded, timed_out, frame,
                   responses, answers, fault>>

\* The wait ends on its own, and its handler can no longer be cancelled.
Expire ==
    /\ Running
    /\ armed
    /\ armed' = FALSE
    /\ fired' = Append(fired, "expired")
    /\ UNCHANGED <<dispatch, terminate_request, terminated, succeeded, timed_out,
                   frame, responses, answers, fault>>

-----------------------------------------------------------------------------
\* The transport calls on_response, which asserts before it locks.
BeginResponse(w, what) ==
    /\ Running
    /\ Available(w)
    /\ dispatch # "new"
    /\ responses < MaxResponses
    /\ responses' = responses + 1
    /\ IF ~succeeded /\ terminate_request
       THEN /\ frame' = [frame EXCEPT ![w] = <<"on_response", what>>]
            /\ UNCHANGED fault
       ELSE /\ fault' = "response_assertion"
            /\ UNCHANGED frame
    /\ UNCHANGED <<dispatch, terminate_request, terminated, armed, fired,
                   succeeded, timed_out, answers>>

\* A bug to be found: the option is exercised and kept.
TerminateAndKeep(how) ==
    /\ terminated' = how
    /\ UNCHANGED <<terminate_request, fault>>

\* Exercising the option, then letting go of it.
Terminate(how) ==
    IF terminate_request
    THEN /\ terminated' = IF terminated = "no" THEN how ELSE terminated
         /\ terminate_request' = FALSE
         /\ UNCHANGED fault
    ELSE /\ fault' = "empty_option"
         /\ UNCHANGED <<terminated, terminate_request>>

\* A bug to be found: the timer is stopped but not started again.
PartialUntimed(w) ==
    /\ Running
    /\ frame[w] = <<"on_response", "partial">>
    /\ ~timed_out
    /\ answers' = Append(answers, "partial")
    /\ fired' = Unarmed
    /\ armed' = FALSE
    /\ frame' = [frame EXCEPT ![w] = Idle]
    /\ UNCHANGED <<dispatch, terminate_request, terminated, succeeded, timed_out,
                   responses, fault>>

\* The rest of on_response, for a part of the reply: the timer starts again.
OnPartial(w) ==
    /\ Running
    /\ frame[w] = <<"on_response", "partial">>
    /\ ~timed_out
    /\ answers' = Append(answers, "partial")
    /\ fired' = Unarmed
    /\ armed' = TRUE
    /\ frame' = [frame EXCEPT ![w] = Idle]
    /\ UNCHANGED <<dispatch, terminate_request, terminated, succeeded, timed_out,
                   responses, fault>>

\* For the end of the reply.
OnComplete(w) ==
    /\ Running
    /\ frame[w] = <<"on_response", "complete">>
    /\ ~timed_out
    /\ answers' = Append(answers, "complete")
    /\ fired' = Unarmed
    /\ armed' = FALSE
    /\ Terminate("clean")
    /\ succeeded' = terminate_request
    /\ frame' = [frame EXCEPT ![w] = Idle]
    /\ UNCHANGED <<dispatch, timed_out, responses>>

\* For an error, and for anything that comes after the timeout, which has
\* already been answered.
OnError(w) ==
    /\ Running
    /\ frame[w][1] = "on_response"
    /\ timed_out \/ frame[w][2] = "failed"
    /\ fired' = Unarmed
    /\ armed' = FALSE
    /\ Terminate("dirty")
    /\ answers' = IF timed_out \/ ~terminate_request
                  THEN answers ELSE Append(answers, "failed")
    /\ frame' = [frame EXCEPT ![w] = Idle]
    /\ UNCHANGED <<dispatch, succeeded, timed_out, responses>>

-----------------------------------------------------------------------------
\* The io_service calls on_timeout, which asserts before it locks.
BeginTimeout(w) ==
    /\ Running
    /\ Available(w)
    /\ fired # <<>>
    /\ fired' = Tail(fired)
    /\ IF ~timed_out
       THEN /\ frame' = [frame EXCEPT ![w] = <<"on_timeout", Head(fired)>>]
            /\ UNCHANGED fault
       ELSE /\ fault' = "timeout_assertion"
            /\ UNCHANGED frame
    /\ UNCHANGED <<dispatch, terminate_request, terminated, armed, succeeded,
                   timed_out, responses, answers>>

\* The rest of on_timeout.  It answers whether or not there was an answer, and
\* the option, if still there, terminates the request as it is destroyed.
OnTimeout(w) ==
    /\ Running
    /\ frame[w] = <<"on_timeout", "expired">>
    /\ timed_out' = TRUE
    /\ answers' = Append(answers, "timeout")
    /\ terminate_request' = FALSE
    /\ terminated' = IF terminate_request /\ terminated = "no" THEN "clean" ELSE terminated
    /\ frame' = [frame EXCEPT ![w] = Idle]
    /\ UNCHANGED <<dispatch, armed, fired, succeeded, responses, fault>>

\* A bug to be found: the end of a wait passes for its expiry.
CancelledAsExpired(w) ==
    /\ Running
    /\ frame[w] = <<"on_timeout", "aborted">>
    /\ timed_out' = TRUE
    /\ frame' = [frame EXCEPT ![w] = Idle]
    /\ UNCHANGED <<dispatch, terminate_request, terminated, armed, fired,
                   succeeded, responses, answers, fault>>

\* The wait was ended before it expired.
OnTimeoutCancelled(w) ==
    /\ Running
    /\ frame[w] = <<"on_timeout", "aborted">>
    /\ timed_out' = FALSE
    /\ frame' = [frame EXCEPT ![w] = Idle]
    /\ UNCHANGED <<dispatch, terminate_request, terminated, armed, fired,
                   succeeded, responses, answers, fault>>

-----------------------------------------------------------------------------
Dispatch == Deliver \/ AssignOption \/ ArmTimer

Responds(w) == \E what \in Responses : BeginResponse(w, what)

Handles(w) ==
    \/ OnPartial(w)
    \/ OnComplete(w)
    \/ OnError(w)
    \/ BeginTimeout(w)
    \/ OnTimeout(w)
    \/ OnTimeoutCancelled(w)

Next ==
    \/ Dispatch
    \/ Expire
    \/ \E w \in Workers : Responds(w) \/ Handles(w)

Spec == Init /\ [][Next]_vars

(***************************************************************************)
(* dispatch_via runs to its end once it has begun, time passes, and the    *)
(* workers run what is queued.  The server may be silent for ever.         *)
(***************************************************************************)
Fairness ==
    /\ WF_vars(AssignOption \/ ArmTimer)
    /\ WF_vars(Expire)
    /\ \A w \in Workers : WF_vars(Handles(w))

FairSpec == Spec /\ Fairness

-----------------------------------------------------------------------------
Final == {"complete", "failed", "timeout"}

Answered == \E i \in DOMAIN answers : answers[i] \in Final

\* However many threads are in on_response, the callback hears the end of the reply, or
\* an error of the transport, once: the first to end the request takes its option away.
ReplyEndsOnce ==
    Running =>
        \A i, j \in DOMAIN answers :
            answers[i] \in {"complete", "failed"} /\ answers[j] \in {"complete", "failed"}
                => i = j

\* Until it is answered, a dispatched request always has its timer running, or the
\* handler of an expiry to run or at work: no silence of the server can last.
SilenceIsTimed ==
    dispatch = "done" /\ ~Answered /\ Running =>
        \/ armed
        \/ \E i \in DOMAIN fired : fired[i] = "expired"
        \/ \E w \in Workers : frame[w] = <<"on_timeout", "expired">>

\* With its answer a request lets go of the connection.
ReleasedOnceAnswered ==
    Answered /\ Running => terminated # "no" /\ ~terminate_request

\* Every request that was dispatched is answered, or dies of an assertion.
EventuallyAnswered == dispatch = "delivered" ~> Answered \/ ~Running

\* A return of true indicates the end of the request (message.hxx:17), and so does an
\* error: the callback is not called again.
NothingAfterTheEnd ==
    \A i, j \in DOMAIN answers : i < j => answers[i] \notin Final

\* An assertion fails, or an option is missing, only in one of three races: a response
\* before dispatch_via has stored its option, a handler of the timer after another
\* that has timed out, and a response, the second of its kind or later than the
\* timeout, that was under way as the request was answered.
FaultsAreRaces ==
    /\ fault = "response_assertion" => dispatch = "delivered" \/ Answered
    /\ fault = "timeout_assertion" => \E i \in DOMAIN answers : answers[i] = "timeout"
    /\ fault = "empty_option" => Answered
=============================================================================
