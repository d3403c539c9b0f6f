----------------------------- MODULE Scheduler ------------------------------
(***************************************************************************)
(* riak::transport::single_serial_socket::scheduler, the transport that    *)
(* serves its requests one at a time over one socket, with the options to  *)
(* terminate a request that it hands out, and its destructor.              *)
(*                                                                         *)
(* Threads are workers, which run the handlers of the io_service, and      *)
(* callers, which belong to the application.  What runs with the pool's    *)
(* mutex_ held is one action; the steps of option_to_terminate_request::   *)
(* exercise, which reads the pool without that mutex, are one action each. *)
(* The user of the transport behaves as request_with_timeout does: once it *)
(* has heard a complete reply it terminates cleanly, once it has heard an  *)
(* error it terminates with a dirty connection, and it may give up at any  *)
(* time in the ways Abandons lists.                                        *)
(***************************************************************************)
EXTENDS AsioSocket, FiniteSets

CONSTANTS
    Content,            \* Content[r]: the bytes of request r
    Workers, Callers,   \* threads
    Destroyer,          \* the caller that destroys the transport, or None
    Abandons,           \* how and where a request may be given up
    MaxConnectFailures  \* bound: reconnections that throw

ASSUME SchedulerAssumption ==
    /\ DOMAIN Content = Requests
    /\ IsFiniteSet(Workers)
    /\ Workers \cap Callers = {}
    /\ None \notin Workers \cup Callers
    /\ Destroyer \in Callers \cup {None}
    /\ Abandons \subseteq {"drop", "dirty"} \X {"active", "queued", "lost"}
    /\ MaxConnectFailures \in Nat

Threads == Workers \cup Callers

VARIABLES
    pending,        \* pending_requests_
    active,         \* active_request_, None when null
    shutting_down,  \* shutting_down_
    exercised,      \* the requests whose option has exercised_ set
    frame,          \* frame[t]: where thread t is in the code
    dtor, untold,   \* where ~scheduler is, and whom it has yet to call
    heard,          \* heard[r]: what the handler of r was called with, and has in its buffer
    arrivals,       \* history: how many requests were accepted
    arrival,        \* history: arrival[r], when r was accepted, 0 if it was not
    displaced,      \* history: from whom a clean exercise took the connection
    failures,       \* how many reconnections have thrown
    fault           \* the undefined behaviour or exception that ended the run

history == <<arrivals, arrival, displaced>>
vars == <<io, pending, active, shutting_down, exercised, frame, dtor, untold,
          heard, history, failures, fault>>

-----------------------------------------------------------------------------
(***************************************************************************)
(* A handler is called with a part of a reply, with what completes one,    *)
(* with an error of the socket, or with network_reset.  of is history:     *)
(* whose reply it is, which the code cannot tell.                          *)
(***************************************************************************)
Tidings == {"partial", "complete", "failed", "reset"}
News == [how : Tidings, of : Requests \cup {None}]

\* A bug to be found: the error is passed on as it is.
NewsAsGiven(c) == [how |-> c.error, of |-> c.segment.of]

\* What on_read passes on: an error, or bytes, of which only the handler finds out
\* (ReadAs) whether they complete a message.
NewsOf(c) ==
    [ how |-> CASE c.error # "success" -> "failed"
                [] c.error = "success" /\ c.segment.last  -> "complete"
                [] c.error = "success" /\ ~c.segment.last -> "partial",
      of  |-> c.segment.of ]

Reset == [how |-> "reset", of |-> None]

Idle == [at |-> "idle", req |-> None, how |-> "none", of |-> None]

\* Idle, in a call of a response handler, or in the exercise of an option.
Frames ==
    {Idle}
    \cup [ at  : {"calling", "handler"}, req : Requests, how : Tidings,
           of  : Requests \cup {None} ]
    \cup [ at  : {"check", "advance", "cancel"}, req : Requests,
           how : {"clean", "dirty", "drop"}, of : {None} ]

Calling(r, news) == [at |-> "calling", req |-> r, how |-> news.how, of |-> news.of]
Exercising(r, how) == [at |-> "check", req |-> r, how |-> how, of |-> None]

Faults == {"none", "null_active_request", "bad_weak_ptr", "bad_iterator",
           "cancel_threw", "destructor_threw", "use_after_free"}

Destructor == {"alive", "telling", "draining", "waiting", "gone"}

TypeOK ==
    /\ io \in IoTypes
    /\ pending \in Seq(Requests)
    /\ active \in Requests \cup {None}
    /\ shutting_down \in BOOLEAN
    /\ exercised \subseteq Requests
    /\ frame \in [Threads -> Frames]
    /\ dtor \in Destructor
    /\ untold \in Seq(Requests)
    /\ heard \in [Requests -> Seq(News)]
    /\ arrivals \in Nat
    /\ arrival \in [Requests -> Nat]
    /\ displaced \subseteq Requests
    /\ failures \in 0..MaxConnectFailures
    /\ fault \in Faults

Init ==
    /\ IoInit
    /\ pending = <<>>
    /\ active = None
    /\ shutting_down = FALSE
    /\ exercised = {}
    /\ frame = [t \in Threads |-> Idle]
    /\ dtor = "alive"
    /\ untold = <<>>
    /\ heard = [r \in Requests |-> <<>>]
    /\ arrivals = 0
    /\ arrival = [r \in Requests |-> 0]
    /\ displaced = {}
    /\ failures = 0
    /\ fault = "none"

-----------------------------------------------------------------------------
\* A bug to be found: handlers are called with mutex_ held.
PoolHeldByHandlers == dtor # "telling" /\ \A t \in Threads : frame[t].at # "handler"

\* mutex_ is held from one step to the next only while ~scheduler calls handlers.
PoolFree == dtor # "telling"

\* Undefined behaviour, or an exception nobody catches, is the end of a run.
Running == fault = "none"

\* The destroying thread does nothing else before ~scheduler returns.
AtRest(t) ==
    /\ frame[t] = Idle
    /\ t = Destroyer => dtor \in {"alive", "gone"}

\* Nobody is in the exercise of r: its option's own mutex is free.
OptionFree(r) ==
    \A t \in Threads :
        frame[t].req = r => frame[t].at \notin {"check", "advance", "cancel"}

Waiting(r) == \E i \in DOMAIN pending : pending[i] = r

Where(r) ==
    IF active = r THEN "active" ELSE IF Waiting(r) THEN "queued" ELSE "lost"

\* The option was returned by deliver, and neither exercised nor destroyed.
Held(r) == arrival[r] > 0 /\ r \notin exercised

(***************************************************************************)
(* Bugs to be found in run_next_request: the newest request first, no      *)
(* pop_front, no reset of active_request_, and no async_write.             *)
(***************************************************************************)
RunNewestRequest(q, s) ==
    IF q # <<>>
    THEN active' = Last(q) /\ pending' = Front(q) /\ io' = AsyncWrite(s, Last(q))
    ELSE active' = None /\ pending' = q /\ io' = s

RunWithoutPop(q, s) ==
    IF q # <<>>
    THEN active' = Head(q) /\ pending' = q /\ io' = AsyncWrite(s, Head(q))
    ELSE active' = None /\ pending' = q /\ io' = s

RunWithoutReset(q, s) ==
    IF q # <<>>
    THEN active' = Head(q) /\ pending' = Tail(q) /\ io' = AsyncWrite(s, Head(q))
    ELSE active' = active /\ pending' = q /\ io' = s

RunWithoutWrite(q, s) ==
    IF q # <<>>
    THEN active' = Head(q) /\ pending' = Tail(q) /\ io' = s
    ELSE active' = None /\ pending' = q /\ io' = s

(***************************************************************************)
(* run_next_request, on the queue q and the socket s.                      *)
(***************************************************************************)
RunNextRequest(q, s) ==
    IF q # <<>>
    THEN /\ active' = Head(q)
         /\ pending' = Tail(q)
         /\ io' = AsyncWrite(s, Head(q))
    ELSE /\ active' = None
         /\ pending' = q
         /\ io' = s

-----------------------------------------------------------------------------
\* Bugs to be found in deliver: it runs the next request although one is active, or
\* never does.
AdmitAndRun(r) == RunNextRequest(Append(pending, r), io)
AdmitOnly(r) == pending' = Append(pending, r) /\ UNCHANGED <<active, io>>

\* A request that finds no other active runs at once.
Admit(r) ==
    IF active = None
    THEN RunNextRequest(Append(pending, r), io)
    ELSE /\ pending' = Append(pending, r)
         /\ UNCHANGED <<active, io>>

(***************************************************************************)
(* deliver, from an application thread or from within a handler.  During   *)
(* destruction it throws network_down and changes nothing.                 *)
(***************************************************************************)
Deliver(t, r) ==
    /\ Running
    /\ AtRest(t) \/ frame[t].at = "handler"
    /\ PoolFree
    /\ dtor # "gone"
    /\ ~shutting_down
    /\ arrival[r] = 0
    /\ Admit(r)
    /\ arrivals' = arrivals + 1
    /\ arrival' = [arrival EXCEPT ![r] = arrivals + 1]
    /\ UNCHANGED <<shutting_down, exercised, frame, dtor, untold, heard, displaced,
                   failures, fault>>

\* Bugs to be found: nobody runs after a reconnection, the request that was
\* terminated is queued again, and it does not matter that the transport is going away.
ReconnectsOnly(s) ==
    /\ active' = None
    /\ io' = Connected(Closed(s))
    /\ UNCHANGED <<pending, failures>>

ReconnectsAndRequeues(s) ==
    /\ RunNextRequest(Append(pending, active), Connected(Closed(s)))
    /\ UNCHANGED failures

ReconnectsInShutdown(s) ==
    /\ RunNextRequest(pending, Connected(Closed(s)))
    /\ UNCHANGED failures

(***************************************************************************)
(* handle_socket_error.  An aborted operation of the active request means  *)
(* that it was terminated dirty: the connection is replaced and the next   *)
(* request runs.  shutdown and connect_socket may throw, out of the worker *)
(* and past run_next_request.  Any other error is told to the handler.     *)
(***************************************************************************)
Reconnects(s) ==
    /\ IF shutting_down
       THEN /\ active' = None
            /\ io' = Connected(Closed(s))
            /\ UNCHANGED pending
       ELSE RunNextRequest(pending, Connected(Closed(s)))
    /\ UNCHANGED failures

ReconnectThrows(s) ==
    /\ failures < MaxConnectFailures
    /\ failures' = failures + 1
    /\ active' = None
    /\ \/ ShutdownMayThrow(s) /\ io' = s
       \/ io' = Closed(s)
    /\ UNCHANGED pending

HandleSocketError(w, c, s) ==
    \/ /\ c.error = "aborted"
       /\ Reconnects(s) \/ ReconnectThrows(s)
       /\ UNCHANGED frame
    \/ /\ c.error = "failed"
       /\ frame' = [frame EXCEPT ![w] = Calling(c.req, NewsOf(c))]
       /\ io' = s
       /\ UNCHANGED <<pending, active, failures>>

(***************************************************************************)
(* A worker runs the handlers of the io_service in the order they were     *)
(* queued; it can be ahead of as many as there are other idle workers to   *)
(* have taken those.  The transport's handlers use it through this, so     *)
(* after its destruction they touch freed memory.                          *)
(***************************************************************************)
CanRun(w, i) ==
    /\ Running
    /\ AtRest(w)
    /\ i <= Cardinality({v \in Workers : AtRest(v)})
    /\ PoolFree
    /\ dtor # "gone"

\* A handler of a request that is no longer active does nothing.
Superseded(i) ==
    /\ io.ready[i].req # active
    /\ io' = Taken(io, i)
    /\ UNCHANGED <<pending, active, frame, failures>>

OnWrite(w, i) ==
    /\ CanRun(w, i)
    /\ io.ready[i].call = "on_write"
    /\ LET c == io.ready[i]
           s == Taken(io, i)
       IN  \/ Superseded(i)
           \/ /\ c.req = active
              /\ c.error = "success"
              /\ io' = AsyncRead(s, c.req)
              /\ UNCHANGED <<pending, active, frame, failures>>
           \/ /\ c.req = active
              /\ HandleSocketError(w, c, s)
    /\ UNCHANGED <<shutting_down, exercised, dtor, untold, heard, history, fault>>

\* The next read is under way before the handler hears of this one.
OnRead(w, i) ==
    /\ CanRun(w, i)
    /\ io.ready[i].call = "on_read"
    /\ LET c == io.ready[i]
           s == Taken(io, i)
       IN  \/ Superseded(i)
           \/ /\ c.req = active
              /\ c.error = "success"
              /\ io' = AsyncRead(s, c.req)
              /\ frame' = [frame EXCEPT ![w] = Calling(c.req, NewsOf(c))]
              /\ UNCHANGED <<pending, active, failures>>
           \/ /\ c.req = active
              /\ HandleSocketError(w, c, s)
    /\ UNCHANGED <<shutting_down, exercised, dtor, untold, heard, history, fault>>

\* dequeue_thread_safely; erasing a request that left the list is undefined.
DequeueThreadSafely(w, i) ==
    /\ CanRun(w, i)
    /\ io.ready[i].call = "dequeue"
    /\ io' = Taken(io, i)
    /\ IF Waiting(io.ready[i].req)
       THEN /\ \E j \in DOMAIN pending :
                  /\ pending[j] = io.ready[i].req
                  /\ pending' = RemoveAt(pending, j)
            /\ UNCHANGED fault
       ELSE /\ fault' = "bad_iterator"
            /\ UNCHANGED pending
    /\ UNCHANGED <<active, shutting_down, exercised, frame, dtor, untold, heard,
                   history, failures>>

RunsOnFreedPool(w) ==
    /\ Running
    /\ AtRest(w)
    /\ dtor = "gone"
    /\ io.ready # <<>>
    /\ fault' = "use_after_free"
    /\ UNCHANGED <<io, pending, active, shutting_down, exercised, frame, dtor,
                   untold, heard, history, failures>>

-----------------------------------------------------------------------------
(***************************************************************************)
(* The user's response handler, called without the pool's mutex (except by *)
(* ~scheduler).                                                            *)
(***************************************************************************)
\* The parts of replies in the buffer of r's handler, as places in heard[r].
Buffered(r) ==
    { i \in DOMAIN heard[r] :
        /\ heard[r][i].how = "partial"
        /\ \A j \in DOMAIN heard[r] : j > i => heard[r][j].how # "complete" }

\* The last part of a reply completes it if all others, and nothing else, are there.
Completes(r, of) ==
    /\ Cardinality(Buffered(r)) = ReplyParts - 1
    /\ \A i \in Buffered(r) : heard[r][i].of = of

\* A bug to be found: the bytes that have come are taken for the whole.
ReadUnbuffered(r, news) == IF news.how = "partial" THEN "complete" ELSE news.how

\* The buffering handler, which waits for the rest of what it takes for a message:
\* of a reply whose beginning it missed it hears no end.
ReadAs(r, news) ==
    IF news.how = "complete" /\ ~Completes(r, news.of) THEN "partial" ELSE news.how

EnterHandler(t) ==
    /\ Running
    /\ frame[t].at = "calling"
    /\ LET r   == frame[t].req
           how == ReadAs(r, [how |-> frame[t].how, of |-> frame[t].of])
       IN  /\ frame' = [frame EXCEPT ![t].at = "handler", ![t].how = how]
           /\ heard' = [heard EXCEPT ![r] = Append(@, [how |-> how, of |-> frame[t].of])]
    /\ UNCHANGED <<io, pending, active, shutting_down, exercised, dtor, untold,
                   history, failures, fault>>

\* It waits for the rest of the reply, or has terminated the request before.
HandlerReturns(t) ==
    /\ Running
    /\ frame[t].at = "handler"
    /\ frame[t].how = "partial" \/ frame[t].req \in exercised
    /\ frame' = [frame EXCEPT ![t] = Idle]
    /\ UNCHANGED <<io, pending, active, shutting_down, exercised, dtor, untold,
                   heard, history, failures, fault>>

HandlerTerminates(t) ==
    /\ Running
    /\ frame[t].at = "handler"
    /\ frame[t].how # "partial"
    /\ frame[t].req \notin exercised
    /\ OptionFree(frame[t].req)
    /\ frame' = [frame EXCEPT ![t] =
                    Exercising(@.req, IF @.how = "complete" THEN "clean" ELSE "dirty")]
    /\ UNCHANGED <<io, pending, active, shutting_down, exercised, dtor, untold,
                   heard, history, failures, fault>>

\* The user gives up on r, outside its handler: it exercises the option with
\* a dirty connection, or just lets go of it (~option_to_terminate_request), even
\* while another thread is about to call its handler.
Abandon(t, r) ==
    /\ Running
    /\ AtRest(t)
    /\ Held(r)
    /\ OptionFree(r)
    /\ \E how \in {"drop", "dirty"} :
          /\ <<how, Where(r)>> \in Abandons
          /\ frame' = [frame EXCEPT ![t] = Exercising(r, how)]
    /\ UNCHANGED <<io, pending, active, shutting_down, exercised, dtor, untold,
                   heard, history, failures, fault>>

-----------------------------------------------------------------------------
(***************************************************************************)
(* option_to_terminate_request::exercise.  It reads the active request     *)
(* without the pool's mutex and compares the bytes of the requests.        *)
(***************************************************************************)
ReadsPool(t) == Running /\ frame[t].at = "check" /\ dtor # "gone"

\* The request has, or seems to have, the connection.
ExerciseActive(t) ==
    /\ ReadsPool(t)
    /\ active # None
    /\ Content[active] = Content[frame[t].req]
    /\ frame' = [frame EXCEPT ![t].at =
                    IF frame[t].how = "dirty" THEN "cancel" ELSE "advance"]
    /\ UNCHANGED <<io, pending, active, shutting_down, exercised, dtor, untold,
                   heard, history, failures, fault>>

\* A bug to be found: its removal is not posted.
ExerciseForgotten(t) ==
    /\ ReadsPool(t)
    /\ active # None
    /\ Content[active] # Content[frame[t].req]
    /\ frame[t].how # "drop"
    /\ exercised' = exercised \cup {frame[t].req}
    /\ frame' = [frame EXCEPT ![t] = Idle]
    /\ UNCHANGED <<io, pending, active, shutting_down, dtor, untold, heard, history,
                   failures, fault>>

\* It is somewhere else: its removal from the queue is posted.
ExerciseQueued(t) ==
    /\ ReadsPool(t)
    /\ active # None
    /\ Content[active] # Content[frame[t].req]
    /\ frame[t].how # "drop"
    /\ io' = Queued(io, Completion("dequeue", frame[t].req, "success", NoSegment))
    /\ exercised' = exercised \cup {frame[t].req}
    /\ frame' = [frame EXCEPT ![t] = Idle]
    /\ UNCHANGED <<pending, active, shutting_down, dtor, untold, heard, history,
                   failures, fault>>

\* No active request to compare with, no owner left for shared_from_this in a
\* destructor, or no pool.
ExerciseFaults(t) ==
    /\ Running
    /\ \/ /\ ReadsPool(t)
          /\ active = None
          /\ fault' = "null_active_request"
       \/ /\ ReadsPool(t)
          /\ active # None
          /\ Content[active] # Content[frame[t].req]
          /\ frame[t].how = "drop"
          /\ fault' = "bad_weak_ptr"
       \/ /\ dtor = "gone"
          /\ frame[t].at \in {"check", "advance", "cancel"}
          /\ fault' = "use_after_free"
    /\ UNCHANGED <<io, pending, active, shutting_down, exercised, frame, dtor,
                   untold, heard, history, failures>>

\* A clean end hands the connection to the next request at once, even if by now
\* another request has it than the one found by the comparison.
ExerciseAdvances(t) ==
    /\ Running
    /\ frame[t].at = "advance"
    /\ PoolFree
    /\ dtor # "gone"
    /\ IF shutting_down
       THEN UNCHANGED <<io, pending, active, displaced>>
       ELSE /\ RunNextRequest(pending, io)
            /\ displaced' = displaced \cup ({active} \ {None})
    /\ frame' = [frame EXCEPT ![t].at = "cancel"]
    /\ UNCHANGED <<shutting_down, exercised, dtor, untold, heard, arrivals, arrival,
                   failures, fault>>

\* Whatever the socket is doing by now is cancelled.
ExerciseCancels(t) ==
    /\ Running
    /\ frame[t].at = "cancel"
    /\ dtor # "gone"
    /\ IF io.open
       THEN /\ io' = Cancelled(io)
            /\ exercised' = exercised \cup {frame[t].req}
            /\ frame' = [frame EXCEPT ![t] = Idle]
            /\ UNCHANGED fault
       ELSE /\ fault' = "cancel_threw"
            /\ UNCHANGED <<io, exercised, frame>>
    /\ UNCHANGED <<pending, active, shutting_down, dtor, untold, heard, history,
                   failures>>

-----------------------------------------------------------------------------
(***************************************************************************)
(* ~scheduler.  It holds mutex_ while it tells the pending requests, and   *)
(* releases it only where it waits.                                        *)
(***************************************************************************)
Destroy ==
    /\ Running
    /\ dtor = "alive"
    /\ Destroyer # None
    /\ frame[Destroyer] = Idle
    /\ shutting_down' = TRUE
    /\ dtor' = "telling"
    /\ untold' = pending
    /\ UNCHANGED <<io, pending, active, exercised, frame, heard, history, failures, fault>>

TellPending ==
    /\ Running
    /\ dtor = "telling"
    /\ untold # <<>>
    /\ frame[Destroyer] = Idle
    /\ frame' = [frame EXCEPT ![Destroyer] = Calling(Head(untold), Reset)]
    /\ untold' = Tail(untold)
    /\ UNCHANGED <<io, pending, active, shutting_down, exercised, dtor, heard,
                   history, failures, fault>>

\* A bug to be found: it waits before all pending requests have been told.
AwaitDequeuedEarly ==
    /\ Running
    /\ dtor = "telling"
    /\ frame[Destroyer] = Idle
    /\ dtor' = "draining"
    /\ UNCHANGED <<io, pending, active, shutting_down, exercised, frame, untold,
                   heard, history, failures, fault>>

AwaitDequeued ==
    /\ Running
    /\ dtor = "telling"
    /\ untold = <<>>
    /\ frame[Destroyer] = Idle
    /\ dtor' = "draining"
    /\ UNCHANGED <<io, pending, active, shutting_down, exercised, frame, untold,
                   heard, history, failures, fault>>

\* shutdown and close, as the last thing the destructor does.
CloseForGood(s) ==
    \/ /\ dtor' = "gone"
       /\ io' = Closed(s)
       /\ UNCHANGED fault
    \/ /\ ShutdownMayThrow(s)
       /\ fault' = "destructor_threw"
       /\ UNCHANGED <<dtor, io>>

\* The queue is empty; the active request, if any, has to be waited for.
Drained ==
    /\ Running
    /\ dtor = "draining"
    /\ pending = <<>>
    /\ \/ io.open /\ active = None /\ CloseForGood(Cancelled(io))
       \/ /\ io.open
          /\ active # None
          /\ io' = Cancelled(io)
          /\ dtor' = "waiting"
          /\ UNCHANGED fault
       \/ /\ ~io.open
          /\ fault' = "destructor_threw"
          /\ UNCHANGED <<dtor, io>>
    /\ UNCHANGED <<pending, active, shutting_down, exercised, frame, untold, heard,
                   history, failures>>

\* No code notifies active_request_finished_: only a spurious wakeup ends this.
WakesSpuriously ==
    /\ Running
    /\ dtor = "waiting"
    /\ active = None
    /\ CloseForGood(io)
    /\ UNCHANGED <<pending, active, shutting_down, exercised, frame, untold, heard,
                   history, failures>>

-----------------------------------------------------------------------------
RunsHandler(w) ==
    \/ \E i \in DOMAIN io.ready :
          OnWrite(w, i) \/ OnRead(w, i) \/ DequeueThreadSafely(w, i)
    \/ RunsOnFreedPool(w)

UserStep(t) ==
    \/ EnterHandler(t)
    \/ HandlerReturns(t)
    \/ HandlerTerminates(t)
    \/ ExerciseActive(t)
    \/ ExerciseQueued(t)
    \/ ExerciseFaults(t)
    \/ ExerciseAdvances(t)
    \/ ExerciseCancels(t)

Application ==
    \/ \E t \in Threads, r \in Requests : Deliver(t, r) \/ Abandon(t, r)
    \/ Destroy

DestructorStep == TellPending \/ AwaitDequeued \/ Drained

Rest == <<pending, active, shutting_down, exercised, frame, dtor, untold, heard,
          history, failures, fault>>

\* A step of the socket or of the node, not of this code.
Outside(A) == Running /\ A /\ UNCHANGED Rest

Next ==
    \/ Outside(WriteCompletes)
    \/ Outside(WriteGoesNowhere)
    \/ Outside(ReadCompletes)
    \/ Outside(ReadFails)
    \/ Outside(NodeReplies)
    \/ Outside(PeerResets)
    \/ \E w \in Workers : RunsHandler(w)
    \/ \E t \in Threads : UserStep(t)
    \/ Application
    \/ DestructorStep
    \/ WakesSpuriously

Spec == Init /\ [][Next]_vars

(***************************************************************************)
(* The kernel completes what it can and the node answers; workers run the  *)
(* io_service, handlers return, and a thread goes on when mutex_ is free.  *)
(* Nobody has to deliver, to give up, to reset a connection or to wake up  *)
(* without being notified.                                                 *)
(***************************************************************************)
Fairness ==
    /\ WF_vars(Outside(WriteCompletes))
    /\ WF_vars(Outside(WriteGoesNowhere))
    /\ WF_vars(Outside(ReadCompletes))
    /\ WF_vars(Outside(ReadFails))
    /\ WF_vars(Outside(NodeReplies))
    /\ \A w \in Workers : WF_vars(RunsHandler(w))
    /\ \A t \in Threads : WF_vars(UserStep(t))
    /\ WF_vars(DestructorStep)

FairSpec == Spec /\ Fairness

-----------------------------------------------------------------------------
Increasing(a, q) ==
    \A i, j \in DOMAIN q : i < j => a[q[i]] < a[q[j]]

Before(a, p, q) ==
    \A i \in DOMAIN p, j \in DOMAIN q : a[p[i]] < a[q[j]]

Numbered(a, q) == \A i \in DOMAIN q : a[q[i]] > 0

\* The node never receives a request twice, nor one that was delivered after
\* another before it, whatever is given up, reset or reconnected (run_next_request).
ServedInOrder == Increasing(arrival, io.log)

(***************************************************************************)
(* Why it is so: what the node has received comes before what is being     *)
(* written to it, and that before what is pending.                         *)
(***************************************************************************)
InOrder(sent, writes, queue, a, n) ==
    /\ \A r \in Requests : a[r] <= n
    /\ Numbered(a, sent) /\ Numbered(a, writes) /\ Numbered(a, queue)
    /\ Increasing(a, sent) /\ Increasing(a, writes) /\ Increasing(a, queue)
    /\ Before(a, sent, writes)
    /\ Before(a, sent, queue)
    /\ Before(a, writes, queue)

\* A request passes from the queue to the socket to the node without overtaking
\* another one, and never back (deliver, run_next_request, dequeue_thread_safely).
OrderKept == InOrder(io.log, io.writes, pending, arrival, arrivals)

\* A step leaves the connection idle while requests wait only if its reconnection throws
\* or the transport is being destroyed; and what it left idle stays so no longer than
\* until the next request arrives (scheduler.cxx:174, :75).
WorkConserving ==
    [][ pending' # <<>> /\ active' = None =>
            \/ failures' > failures
            \/ shutting_down'
            \/ pending # <<>> /\ active = None /\ arrivals' = arrivals ]_vars

UnderWay(r) ==
    \/ \E i \in DOMAIN io.reads  : io.reads[i] = r
    \/ \E i \in DOMAIN io.writes : io.writes[i] = r
    \/ \E i \in DOMAIN io.ready  : io.ready[i].req = r /\ io.ready[i].call # "dequeue"

Told(r, hows) == \E i \in DOMAIN heard[r] : heard[r][i].how \in hows

\* The active request always has an operation under way, or has been told (or is
\* about to be) that the connection failed: the scheduler never loses track of it.
ActiveIsAttended ==
    active # None =>
        \/ UnderWay(active)
        \/ Told(active, {"failed"})
        \/ \E t \in Threads : frame[t].req = active /\ frame[t].how = "failed"

\* A terminated request does not keep the connection: if it is still active, a
\* completion is on its way that will take the connection from it (transport.hxx:32).
ConnectionReleased ==
    active # None /\ active \in exercised => UnderWay(active)

\* As long as no peer has dropped a connection and no reconnection has thrown, nobody
\* keeps it in that way (scheduler.cxx:190).
ReleasedWhileSound == failures = 0 /\ io.resets = 0 => ConnectionReleased

\* No handler is called with a segment of another request's reply (scheduler.cxx:167).
NoForeignReply ==
    \A r \in Requests : \A i \in DOMAIN heard[r] : heard[r][i].of \in {r, None}

\* r lost the connection to the next request while its reply could still come: to an
\* exercise, its own or another's, or because the connection could not be replaced.
Deprived(r) == r \in displaced \/ failures > 0

\* A handler hears another request's reply only if that one came earlier, and lost the
\* connection in one of those ways before it had heard all of its reply: never because
\* it was terminated dirty (scheduler.cxx:167).
LateReplyIsOfUnfinished ==
    \A r \in Requests : \A i \in DOMAIN heard[r] :
        LET q == heard[r][i].of
        IN  q \notin {r, None} =>
                /\ arrival[q] < arrival[r]
                /\ Deprived(q)
                /\ \A j \in DOMAIN heard[q] :
                        heard[q][j] # [how |-> "complete", of |-> q]

\* No callback is made for a request whose option has been exercised (transport.hxx:13).
TerminatedIsSilent ==
    [][\A r \in Requests : heard'[r] # heard[r] => r \notin exercised]_vars

\* Nothing undefined happens and nothing is thrown out of an option or destructor.
NoFault == fault = "none"

-----------------------------------------------------------------------------
\* Nothing moves any more, unless the application or the peer does something.
Standstill ==
    /\ io.ready = <<>> /\ io.writes = <<>> /\ io.inbox = <<>> /\ io.serving = <<>>
    /\ \A t \in Threads : frame[t] = Idle

\* The active request waits for a reply of which the read of one that ended cleanly
\* before it took all or a part (scheduler.cxx:228).
Starved ==
    /\ Standstill
    /\ active \in Requests \ exercised
    /\ \E i \in DOMAIN io.reads : io.reads[i] = active
    /\ \E q \in displaced : arrival[q] < arrival[active]

\* The connection failed, the request was terminated, and has it for ever
\* (scheduler.cxx:190).
Kept == active \in exercised /\ ~UnderWay(active) /\ io.resets > 0

\* The clean end of the request before r cancelled the write of r, which never reached
\* the node, and the abort was taken for a termination of r (scheduler.cxx:228).
CutShort(r) ==
    /\ Where(r) = "lost"
    /\ \A i \in DOMAIN io.log : io.log[i] # r
    /\ \E q \in displaced : arrival[q] < arrival[r]

\* Every accepted request is told how it ended, by a complete reply or an error of the
\* connection (transport.hxx:37), but for three ways in which the scheduler loses one.
AnsweredOrLost ==
    \A r \in Requests :
        arrival[r] > 0 ~> Told(r, {"complete", "failed", "reset"})
                             \/ CutShort(r) \/ Starved \/ Kept

\* Once ~scheduler waits for its queue, whoever is in it has been told.
PendingWereTold ==
    dtor \in {"draining", "waiting", "gone"} =>
        \A i \in DOMAIN pending : Told(pending[i], {"reset"})

\* After shutting_down_ is set no request is started any more.
NothingStartsInShutdown == [][shutting_down => active' \in {active, None}]_vars

\* It was told of the destruction and is still in the queue: exercise took it for the
\* active request, of the same bytes, and cancelled that (scheduler.cxx:222).
Stranded(r) ==
    /\ Waiting(r) /\ r \in exercised
    /\ ~\E i \in DOMAIN io.ready : io.ready[i].call = "dequeue" /\ io.ready[i].req = r
    /\ \E q \in Requests \ {r} : arrival[q] > 0 /\ Content[q] = Content[r]

\* ~scheduler gets its queue emptied and goes on to the active request, if there is one
\* to a wait that no code ends (scheduler.cxx:59), unless a request was taken for another
\* or shutdown throws because the peer has dropped the connection.
DestructorDrains ==
    dtor = "telling" ~> \/ dtor \in {"waiting", "gone"}
                        \/ fault = "destructor_threw"
                        \/ \E r \in Requests : Stranded(r)

\* Whatever happens to the connection, the scheduler is a queue that starts each
\* request at most once, in the order of arrival.
Queue == INSTANCE RequestQueue WITH waiting <- pending, current <- active
ImplementsQueue == Queue!Spec
=============================================================================
