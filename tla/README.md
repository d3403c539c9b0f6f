# Verification of riak-cpp

riak-cpp is an asynchronous C++ client for the Riak key-value store. These TLA+
modules model the parts of it that can go wrong in ways a unit test hardly reaches:
the transport that shares one socket between requests, the timeout around a request,
the two of them together with callbacks that dispatch again, the resolution of siblings
in the client, and the framing of messages. TLC checks them on small instances; TLAPS
proves the types and the main safety properties of each, and two of the three refinements,
for every value of the constants, and the third for any instance with one worker. Paths are
relative to the source tree, `scheduler.cxx` standing for
`riak/transports/single_serial_socket/scheduler.cxx`.

## The system

| Part | State | Operations | Modelled in |
|---|---|---|---|
| Scheduler of the single serial socket (`scheduler.{cxx,hxx}`) | `active_request_`, `pending_requests_`, `shutting_down_`, a mutex, the socket, two conditions | `deliver`, `on_write`, `on_read`, `handle_socket_error`, `run_next_request`, the option to terminate, the destructor | `Scheduler`, implementing `RequestQueue` |
| Socket, resolver, `io_service` (`asio_tcp_socket.hxx`, `asio_tcp_resolver.hxx`) | the descriptor, operations not completed, handlers queued | read, write, cancel, close, shutdown, connect, resolve | `AsioSocket` (external) |
| `request_with_timeout` | option, deadline timer, `succeeded_`, `timed_out_`, a mutex | `dispatch_via`, `on_response`, `on_timeout` | `RequestWithTimeout` alone; `Delivery` on the scheduler, implementing `Exchange` and `Scheduler` |
| `client` and its `request_runner` (`client.cxx`) | what is bound into handlers: resolved sibling, vector clock | `get_object`, `delete_object`, the `value_updater`, resolution | `Client` |
| `message` | the buffer of a handler | `to_string`, `handle_streaming_requests`, `extract_code_if_valid`, `retrieve_body_with_code` | `Framing` |
| Request contexts, access parameters, logs, error texts | parameters and labels | copying, logging | not modelled |

A call of the application makes a `request_runner`, which encodes a message, wraps its
handler in a buffering handler, and dispatches a `request_with_timeout`. That gives the
bytes and `on_response` to the transport and keeps the option to terminate it was handed.
The `io_service`, run by any number of threads, calls back: the scheduler's `on_write`
and `on_read`, which call `on_response`, which calls the buffering handler, which calls
the runner, which calls the application or sends another message; and `on_timeout`.
Shared state is the scheduler's, under its `mutex_`, and each request's, under its own.
Some of it is read without either: `exercise` reads `active_request_`, `dispatch_via`
takes no lock, and the assertions of `on_response` and `on_timeout` come before theirs.

What is hard: several threads in the handlers of one request; an option exercised from
inside a handler, on another thread, by its own destructor, or while its request is still
in the queue; a request's mutex held while the scheduler's is wanted, and the other way
round in `~scheduler`; aborts used as a signal that the connection is to be replaced; a
timer whose handler cannot be cancelled any more; replies that outlive their request; a
destructor that waits for handlers; puts that collide with other writers. `PROJECT.json`
lists the hazards by line.

What makes each part correct:

- Scheduler: requests are served once, in order; a connection is not left idle; a request
  hears its own reply only, is told how it ended, and hears nothing once terminated; the
  destructor tells everybody and ends.
- Request: silence is always timed; the callback hears one end; whatever the end, the
  connection is let go.
- Both together: every request given to the transport is answered, whatever becomes of it,
  the node and the transport; no thread waits for a mutex for ever; a handler of
  the client sees one exchange, and at worst a timeout after it.
- Client: an acknowledged update is not lost by a resolution or an update; a get returns
  what had been acknowledged; every call is answered.
- Framing: messages come out as they were put in, however they are cut up.

## Modules

- `AsioSocket` has the state of the socket, its `io_service` and the node in one record,
  with the calls of the transport as functions of that record and what the network does on
  its own as actions. An operation completes once, cancelling cannot reach one that has
  completed, the node answers in order. `EagerWrites` says whether a write ends as
  it starts (there is room in the send buffer) or can be cancelled half way. `log`
  is history, the requests the node has received.
- `RequestQueue` is what a serial transport promises: a queue whose oldest request becomes
  current, each at most once. A request may be withdrawn.
- `Scheduler` has one action for each critical section. `OnWrite`, `OnRead` and
  `DequeueThreadSafely` are the handlers, run in the order they were queued, except that
  a worker may be ahead of as many others as are idle. `frame[t]` is where a thread
  is between critical sections: about to call a handler that was chosen with the mutex
  held (`calling`), in it (`handler`), or in the three steps of `exercise` (`check`,
  `advance`, `cancel`). Its user is the one this library has:
  `HandlerTerminates` and `Abandon` do what `request_with_timeout` does. `on_read` hands bytes on
  without looking at them, and whether they complete a message is for the buffering handler to say
  (`ReadAs`, at `EnterHandler`): the last part of a reply does if the buffer has all the others and
  nothing else. If the beginning is missing, the bytes that are there pass for the beginning of
  a longer message, and no end is heard. With three parts or more the order of those before the last is
  not looked at; the runs have at most two. `Content` gives
  two requests equal bytes where that matters. The destructor goes through `telling`
  (with `mutex_` held: `PoolFree`), `draining`, `waiting`, `gone`. Undefined behaviour and
  exceptions nobody catches set `fault` and end the behaviour. `arrivals`, `arrival` and
  `displaced` are history: the order of arrival, and from whom a clean exercise, its own or
  another's, took the connection.
- `RequestWithTimeout` has two actions for each handler, the assertion outside
  the mutex and the rest inside, three for `dispatch_via`, and `Expire`. Its transport is
  any of which `transport.hxx` speaks: several `on_response` may be under way (`on_read`
  issues the next read before it calls the handler), and one may come after termination.
- `Exchange` is what the client relies on: parts of a reply, one end of it or one error,
  and perhaps one timeout that was already on its way.
- `Delivery` puts requests on the scheduler, each in place of the partner the other's
  own model assumes (`ImplementsScheduler`: the transport sees of them what `Scheduler` says of
  its users): it extends `Scheduler` and uses its actions but for the user's steps
  (`HandlerReturns`, `HandlerTerminates`, `Abandon`), for which it has those of
  `request_with_timeout.cxx`. `wire[r]` is the object of request r, `due` the handlers of the
  timers on the `io_service` (taken in their own order: between them and the socket's
  any worker may choose), `answers` what the callbacks were called with. `owner`
  is the thread that has a request's mutex, kept from step to step because the callback
  and `exercise` run with it held. Two threads with parts of one reply lock it in the order in which
  they entered the handler (a guard of `OnComplete`), which is the order of the bytes in the buffer. The callback of r may dispatch `Follower[r]` upon the
  answers in `FollowOn`, on the same thread and inside the same handler, as the client
  does with the put after a resolution.
- `Client` models one key. A value is the set of updates in it, a vector clock the number
  of the last write it covers; the store keeps every sibling a write does not cover.
  `StoreTakes` and `OthersPut` are the store and the other clients. `Receive` dispatches on
  where a call has come to the handler bound into the message it sent last. What a
  message hears is what `Exchange` allows: a reply or an error, then perhaps a timeout
  (`LateTimeout`), which answers the application again. A request may fail although the
  store takes its message, before or later. `ended`, `deleted` and `owed` are history.
- `Framing` is in bytes: the property is about lengths. The server sends when it likes
  (`Sends`), the transport reads pieces (`Receive`); `messages` says where in
  `sent` each begins. The 32-bit arithmetic is exact for the lengths in use.
- `MCScheduler`, `MCDelivery` and `MCFraming` give values to constants. `SchedulerProofs`,
  `SchedulerDutyProofs`, `SchedulerRepliesProofs`, `DeliveryProofs`, `DeliverySafetyProofs`,
  `RequestWithTimeoutProofs`, `ClientProofs` and `FramingProofs` hold the proofs.

Operators whose comment calls them a bug to be found are altered copies of the
operator next to them. No specification uses them; they are there to see that a
property is violated when the code is wrong in that way.

## Runs

Deadlock is not an error anywhere: a system whose requests are done stops. That nobody
waits for a mutex for ever is said by `DeliverReturns`, and that the queue of a transport
that is destroyed empties by `DestructorDrains`.

| Run | Instance | States | Shows |
|---|---|---|---|
| `scheduler_serial` | 4 requests, 1 worker, replies in 2 parts, writes that can be cancelled, 1 reset, nobody gives up | 40,278 | no undefined behaviour; each request hears its own reply and nothing after its end; a healthy connection passes on; who was accepted is answered, or lost in one of three ways |
| `scheduler_faults` | 3 requests, two of equal bytes, 1 worker, given up in every way, 1 reset, 1 failed reconnection | 2,605,382 | order of service; only a reconnection that throws leaves the connection idle while requests wait; the active request is always attended |
| `scheduler_workers` | 2 requests, 2 workers, all of the above and a destructor | 1,578,811 | implements `RequestQueue`; order kept from queue to node; a late reply is of an earlier request that lost the connection to a clean exercise or a failed reconnection before it had heard the end; pending requests are told of the destruction and none starts |
| `scheduler_destroy` | 3 requests, two of equal bytes, 2 workers, replies in 2 parts, writes that can be cancelled, 1 reset and a destructor | 288,890 | the destructor gets as far as the active request, unless it takes a pending request for the active one or `shutdown` throws |
| `delivery` | 2 requests, the second dispatched by the first's callback or by a caller, 1 worker, replies in 2 parts, timeouts, 1 reset | 137,859 | every request is answered; together they implement `Exchange`; a foreign reply needs a timeout before it; without timeout or destruction only a response overtaking `dispatch_via` kills the program, a reset does not |
| `delivery_destroy` | the same 2 requests with 2 workers and a destructor, writes that can be cancelled, replies in 1 part, timeouts | 156,378 | the mutexes do not deadlock: no `deliver` waits for ever, from callbacks neither; every request is answered although the transport is destroyed, unless the program dies; what the requests do to the transport is what `Scheduler` lets its users do |
| `request` | 3 workers and a dispatching thread, 4 responses | 30,871 | silence is timed, one end, released, answered; assertions fail only in known races |
| `client` | a get with update, a delete, 3 other writers, 8 writes, 1 failure | 159,236 | nothing acknowledged is lost or left unread; every call is answered |
| `framing` | up to 3 of 4 kinds of message, from empty to 257 bytes, pieces of 1 to 8 bytes | 32,410 | messages and codes survive any cutting |
| `late_reply` | 2 requests, one dropped while active | violated | a handler is called with the reply to the request before it |
| `kept_connection` | 2 requests, 1 reset | violated | after a socket error the connection is never let go |
| `answered_twice` | 1 worker | violated | a queued timeout follows a complete answer |

Bounds. Three requests are one active and two that can be reordered or be taken
for each other; two suffice for threads, where the question is one handler's race with another's
terminate. One reset and one failed reconnection suffice: each returns the scheduler to
a state it was in before, with fewer requests. In `Delivery` two requests are one on the
connection and one that follows it, from its callback or beside it; timeouts are not
bounded, except that each answers once. Four responses are two parts and two
racing ends. In `client` eight writes are as many as there can be (three others, an
update, and a resolution for each time those collide), so no write ever waits and the
bound takes nothing away; five are the shortest way to lose an update. A larger instance,
two gets with updates, a delete and two others, was checked once for the invariants
(about four million states), and `delivery_destroy` with a reset
as well (710,035). Replies have two parts in `scheduler_serial`, `scheduler_destroy` and
`delivery`, because one of them may be lost or overtaken. Eight bytes cut every short message everywhere, or take two at once. Several
divergences need abandonment or a second worker, so some properties have a run
without either: `scheduler_serial` says what holds when nothing is given up, and the other
runs check what holds whatever happens.

Fairness. In `Scheduler` the kernel completes what it can (weak fairness on each of its
steps), the node answers, workers run the `io_service`, a thread that can go on does.
`Destroy`, `Abandon`, `Deliver`, `PeerResets` and spurious wakeups need not happen.
`FairDelivery` asks less: threads proceed in what they have begun, workers take handlers,
time passes, and the destructor goes on. Of the network and the node it asks
nothing, because the timeout has to do without them, and a mutex need not be fair: a
weakly fair thread gets it once the others are done with it. For a request alone, time
passes and `dispatch_via` returns; the server may be silent for ever, so no response is
fair. In `client` the store takes messages and replies are handled; other writers
and the application need do nothing. Its other writers are finitely many, which ends
collisions: nothing in the code does, so two clients that resolve against each other may
go on for ever.

## Disagreements with the documentation

`PROJECT.json` lists the three with a run of their own. The models have further behaviours that
disagree with a comment or an assertion; each is reached as described.

- `on_read` unlocks before it calls a handler, so a request terminated on
  another thread may still be called, against `transport.hxx:13-15`
  (`TerminatedIsSilent` in `late_reply`'s instance with `DirtyWhenActive`).
- For the same reason two workers may bring two parts of a reply to `on_response` in the
  wrong order (`scheduler.cxx:107` issues the next read, `:112` unlocks). In `Scheduler`
  the last part that comes first completes nothing and the one after it no more, so that the
  request waits for its timer; `Framing` takes the bytes in the order of the stream.
- An option dropped while its request is pending throws `bad_weak_ptr` from a destructor
  (`fault`, with `DroppedWhenQueued`), against `transport.hxx:32-33`. A request that times
  out while it is queued does just that, as it does in `Delivery`.
- The active request is not told of the destruction of the transport, and nothing notifies
  `active_request_finished_` (`AnsweredOrLost` with a `Destroyer`), against `transport.hxx:37-41`.
- `exercise` compares requests by their bytes (`:222`). A pending request that `~scheduler` tells of the
  reset, of the same bytes as the active one, is therefore taken for that: it only cancels, and
  no `dequeue_thread_safely` is posted. The destructor waits for ever at `:53-54`, without a fault and
  with no timer that would end it (`Stranded`, which `DestructorDrains` excuses), against its comment
  at `:46`, "Report the shutdown to all clients", and two fetches of one key are all it takes.
- A callback that dispatches another request when it hears of an error blocks for ever if
  `~scheduler` is the caller, on the `mutex_` it holds while it tells the pending requests
  (`DeliverReturns` in `delivery_destroy`'s instance with three requests and `FollowOn =
  {"complete", "failed"}`); against `scheduler.cxx:109-110`, "The handler must be allowed to enqueue
  new requests recursively", which only `on_read` and `handle_socket_error` see to.
- A `deliver` that throws `network_down` inside a callback leaves `on_response` with the option
  not exercised, and then `io_service::run` (fault `network_down`).
- A clean end cancels the write of the next request if it has not completed. The abort is taken for a
  dirty termination of that request, which is skipped; its timeout has to
  answer it (`CutShort`, one of the ways `AnsweredOrLost` names).
- A timeout terminates with a clean connection, against `transport.hxx:17-18`. The reply that then
  comes, if it comes whole, is given to the next request, whose own reply goes to the one after it, and
  so on until the connection is replaced (`ForeignReplyFollowsTimeout` is what does hold).
- A reply may be lost, whole or in part, on a healthy connection with one worker. Between
  `run_next_request` (`scheduler.cxx:226`) and `cancel` (`:228`) of a clean exercise the read that
  `on_read` issued for the request that has just ended is still pending. If the reply to the next
  request, or its beginning, arrives by then, it completes that read, `on_read` finds that its request is
  not active and drops what it brought, and the handler of the next request, whose buffer
  lacks it, takes the rest for the beginning of a message and never completes (`message.cxx:58-70`):
  the next request waits until its timer ends it, against `transport.hxx:37`
  (`Starved` in `AnsweredOrLost`).
- After an error of the socket the request that is terminated keeps the connection
  (`kept_connection`), and whoever is delivered later waits with it (`Kept` in `AnsweredOrLost`).
- `exercise` compares its request with the active one before it locks the pool (`:222`, `:225`). With two
  workers the connection may have gone to another request in between, which
  `run_next_request` then displaces: its reply is heard by the one after it, and it is never told
  (`displaced`; it takes four requests, and a late `cancel` of an earlier exercise).
- `handle_socket_error` says that it kills the socket to avoid late replies (`:167-169`). If
  `shutdown` throws, the socket stays open with the old reply to be read on it, and since
  `active_request_` has been reset, the next request is written on it.
- `dispatch_via` may be overtaken by a response, which fails the assertion at
  `request_with_timeout.cxx:44`; two handlers of one timer fail the one at `:75`. `FaultsAreRaces`
  says these are the only causes, and `FaultsAreProvoked` that without timeout or
  shutdown the first is the only one.
- With three threads a cancelled wait's handler may reset `timed_out_` after another
  set it, and a response then answers after the timeout, against `request_with_timeout.cxx:64`.
  With two workers the promise of `Exchange` is therefore not kept: a second response may be past its
  assertion as the first ends the request, or an error that follows a reset overtakes a part of a
  reply, which then fails the assertion. `ExchangeImplemented` and
  `FaultsNeedProvocation` are for one worker; without a reset TLC finds `FaultsAreProvoked` kept by two
  workers in `delivery`'s instance.
- `retries_permitted` is set (`client.cxx:21`) and read nowhere, against
  `request_failure_parameters.hxx:27-28`.
- The updater of a get that found no content has no vector clock, even if the response has that of a
  tombstone, which `set_deletedvclock(true)` asks for (`client.cxx:201`, `:299`):
  the put that follows creates a sibling of the tombstone. `response_handlers.hxx:14-15` speaks of the clock
  "of a fetched object", so this contradicts no text. That the updater has none after siblings were resolved
  to null is intended, as `test/units/sibling_resolution.cxx:77-112` asserts. The model does both, and
  `NoLostUpdate` holds with them.
- A timeout already on its way as a call ends answers the application a second time
  (`LateTimeout`), after a get with a second updater.
- A `request_runner` has a reference to its client, and its handlers and updaters
  may outlive the client.
- The buffering handler consumes one message for each piece it is given, so that a second
  message in a piece waits for more data (`FirstNotHeldBack` is what does hold).
- A message of length zero passes for a complete one and has no code; `substr(5)` throws if
  what is found instead is the code expected (`RetrieveBodyWithCode`).

## Proofs

All proofs are for arbitrary constants, from the named assumptions of the modules only
(`SocketAssumption`, `SchedulerAssumption`, `RequestAssumption`, `DeliveryAssumption`,
`ClientAssumption`, `FramingAssumption`); TLC evaluates each in a run.

The transport:

- `TypeCorrect`: the types. Lemmas at the head of `SchedulerProofs` show that
  every call of the socket keeps its record's types. The lemmas about single steps need
  only `PoolTypeOK`, which leaves out the frames and `fault`: `Delivery` has more of both.
- `OrderMaintained`: `OrderKept` is inductive. That the node receives requests in order
  (`ServedInOrder`) is not, because what is pending and what is being written must come
  after what was received; `InOrder` says both, and that no number exceeds
  the count of arrivals, so a new request comes last. Each step moves a
  request along log, writes, queue, drops some, or appends a new one.
  `ServedInOrderAlways` follows.
- `QueueImplemented`: with `pending_requests_` for the queue and `active_request_` for the
  current request, every step is `Accept`, `Advance`, `Finish`, `Withdraw` or a
  stutter. It needs types, and nothing of the socket.
- `WorkConserved`: an action property, step by step from the types: `run_next_request` leaves
  the connection idle only with an empty queue, a reconnection that does not run it has thrown or finds the
  transport shutting down, and a request that arrives while the connection is idle starts it.
- `ShutdownIsFinal`: an action property, from the guards of the three places that start
  a request.
- `ActiveAttendedAlways`: an operation of the socket is `Outstanding` for a request until
  its handler is taken off the `io_service`. Every call of the socket keeps what is
  outstanding (cancelling turns a read into an aborted completion, it does not lose it),
  and what `run_next_request` starts is outstanding. What `on_write` and `on_read`
  take they replace by the next read, or by a frame that will tell the request of the
  failure; that such a frame becomes an entry in `heard` is the other invariant,
  `FailuresHeard`.
- `ReleasedOnSoundConnection`: `ReleasedWhileSound`, that is, `ConnectionReleased` as long as no peer has dropped a connection and
  no reconnection has thrown; after either it is false (`kept_connection`). Until then no
  operation of the socket fails (`Lives`: this follows through every call of the socket), so that
  nobody is told, or is going to be told, of a failure (`Intact`). That leaves only
  the first case of `ActiveIsAttended`: an operation is under way.
- `PendingToldAlways`: while `~scheduler` is telling, a request in the queue has been told, is
  being told or is in the rest of its list (`ToldOrListed`), and with `shutting_down_` nobody
  enters the queue. When it goes on, its list and its frame are empty.
- `LateRepliesAreOfUnfinished`: a handler hears another request's reply only if that request came
  earlier, never hears the end of its own, and was `Deprived` of the connection: a clean exercise,
  its own or another's, took it, or a reconnection threw. A dirty end alone never does it: the
  socket is replaced, and with it goes what was to be read. The
  invariant `Replies` follows a segment from the node to the handler. `Operations`: what the
  node has received and what the socket is doing is of requests that were started, the active one
  last. `Stream`: the node owes each reply once, and the last segment of one comes behind all
  others of it. A handler makes at worst a part of an end (`ReadAs`, `NothingNew`), so that what it
  hears in the end was on its way before. `Stray`: whatever is still to come of a reply, or to be written, is for the active
  request or for a deprived one, and that stays so, as nobody gets the connection back. `Foreign`
  and `Complete` say of what is queued, on its way in a frame, or heard what the property says of
  what is heard, and that whoever heard the end has nothing more to come. The step that needs
  all of them is the completion of a read: a segment of q is read for r, the active request.
- `OneOperationEach`: `Sole` is inductive: a request is never in two of the reads, the
  writes and the completions to be handled. Each operation is started when the handler of the one before
  runs, and a request is started once.
- `OneWorkerHearsItsOwn`, `OneWorkerKeepsSilent`, `OneWorkerIsSafe`: `NoForeignReply`,
  `TerminatedIsSilent` and `NoFault` for one worker, a user who does not give up (`Abandons = {}`), no
  destructor, and reconnections that do not throw; for any number of requests and callers, any bytes
  in them (equal ones too), replies in any number of parts, writes that can be cancelled, and however
  often a peer drops the connection. `scheduler_serial` is an instance. The
  invariant is `Serial`: with a single worker, whoever is between the call of its handler and the
  lock in its exercise is the active request (`Placed`), and a terminated request has heard the end
  of its reply, or still has the connection and no operation under way (`Past`, the case
  of `kept_connection`). By `Replies` a late reply would be of a request of neither kind. Each hypothesis is
  needed: with two workers a handler is called after the termination, and a request
  that is given up lets the next one hear its reply (`late_reply`).

The request alone:

- `RequestTypeCorrect`: the types.
- `AnsweredIsReleased`: from `RequestInvariant`. It adds that before `dispatch_via` has
  stored the option nothing else has happened to the request (no handler is past its
  assertion, no timer runs), and that afterwards the option is there or the transport was
  told. `ReleasedOnceAnswered` alone is not inductive: a response on a request whose
  option was lost would answer without releasing anything.
- `SilenceAlwaysTimed`: from the same invariant. The timer is stopped
  only by those who answer, arm it again, or leave the handler of its expiry queued.
- `OnlyRacesFault`: what an assertion or a handler may miss (`RaceInv`) is gone only for a
  reason the callback has heard: `succeeded_` and a missing option mean an answer,
  `timed_out_` a timeout.
- `OneEndHeard`: an end is passed on only with the option still there, and by the
  invariant a request that has one is unanswered.

Both together:

- `DeliveryTypeCorrect`: the types, for any threads and with a destructor.
- `ExchangeImplemented`: with one worker and no destructor, every step is a step of `Exchange` or a
  stutter. The invariant `SoleInv` says why one thread is enough of a lock: only the
  worker is in a handler; it holds at most the mutex of the request whose handler it is in; and
  a request that has ended lets no other answer pass, because its option is gone (a
  response fails the assertion of `on_response`), or it has timed out (a response
  is not passed on, another timeout fails the assertion of `on_timeout`), or the
  handler that ended it is still at work. Each step is shown to keep this
  for its own request, and `OthersPromise` that it leaves the others', of which one may
  be dispatched, alone.
- `SchedulerImplemented`: what is proved of `Scheduler` for all users holds of the transport
  under the requests of this library. The mapping (`Seen`, `Broken`) forgets where a thread is in the
  code of a request; a fault of a request becomes a user who does nothing more. Every step is then
  one of `Scheduler`, with `Abandons` for what a timeout does to an option, or a stutter,
  for any threads and with a destructor. The invariant `UseInv` says how the option is used: who
  works on a request has its mutex, the option is exercised once, by that
  thread, after the request was given to the transport, and inside a handler only by a worker. The
  proof found `Abandon` too strict: a request can be given up while another thread
  is about to call its handler. `Workers` is assumed finite because `CanRun` counts the idle ones.
  The invariants proved of `Scheduler` hold of the composition by it (`ProvedAlways`), and the
  next two theorems rest on them.
- `FaultsNeedProvocation`: `FaultsAreProvoked` for one worker and reconnections that do not throw,
  with or without a destructor. Until a request times out or the transport shuts down (`Peaceful`) nobody
  gives a request up, so that each step keeps the `Serial` of the transport (`PeaceInv`). Then the
  active request is the only one whose handler can be called, an option is exercised by it, and no
  assertion can fail but the one on an option that is not there yet. `FateInv` ties the requests to the
  transport: what a callback was told its handler was, and a request lost its option because it was
  exercised or timed out. The proof did not need a cause the property used to name, a reset by the peer,
  which is therefore no longer in it. Both hypotheses are needed: with two workers an
  error that follows a reset may overtake a part of a reply, and a reconnection that throws leaves the
  socket closed, whose `cancel` throws at the next exercise (TLC finds it with three requests).
- `ForeignRepliesFollowTimeouts`: `ForeignReplyFollowsTimeout` for one worker, no destructor, reconnections
  that do not throw, and requests of different bytes. By `LateRepliesAreOfUnfinished` the other request
  came earlier, was deprived of the connection by a clean exercise, and has not heard the end of its
  reply; `DisplacedInv` says that it then comes after a request that timed out, because the one worker exercises
  only for the active request (`AdvanceInv`), which has heard an end, its own or that of a still earlier
  one, or timed out. Requests of equal bytes are taken
  for each other, so that a later one that times out deprives an earlier one (TLC finds it with three
  requests). The other hypotheses are what the argument uses: one thread at a time in an exercise, and
  a dirty end that replaces the socket. Whether the invariant needs them is open: it is not
  proved without them, and on two requests TLC finds no violation with a destructor or a reconnection
  that throws.

The client:

- `ClientTypeCorrect`, `ClientInvariant`: `ClientInv` says that a vector clock never travels
  without a value that contains all it covers (`Covers`), for messages, replies and
  updaters, that what is acknowledged is in the store (`Present`), and that the message a
  call sent last is the one it waits for. `NoUpdateIsLost`, `PutsCover` and
  `GetsReadWhatWasTaken` follow. The properties alone are not inductive:
  the reply a call waits for must contain what the call is owed, and that of a put means
  that it is stored.

Framing:

- `FramingTypeCorrect`, `MessagesAreIntact`, `CodesAreRecovered`, `FirstIsNotHeldBack`: by
  `FramingInv`, that the bytes sent are the messages one after the other, and that
  the buffer begins where the last message that was handed over ended and goes as far as
  was read. The arithmetic (`Decoded` undoes `Bigendian`) is proved for all lengths of 32 bits.

Only model-checked: all liveness (fairness and `ENABLED` are beyond the prover), which is
`AnsweredOrLost`, `EveryRequestAnswered`, `EventuallyAnswered`, `CallsAnswered`, `DeliverReturns` and
`DestructorDrains`. Every invariant and every other action property of a run that passes is a theorem.

## Not modelled

Vendored Google Mock and Google Test, which are nearly all of the lines in the tree; build and
packaging files; generated protocol buffers (a body parses or does not); request ids and
logs; quorum parameters, which are passed to the store. The resolver is a reconnection
that works or throws, and the factory `delivery_provider` only binds `deliver`.
`read_buffer_`, one for all reads of a transport, is filled and emptied under `mutex_` and is no
variable. The life of a client is not bounded by anything: the model has one that lives for ever.
`retries_permitted` has no behaviour to model. The random generator shared by request
contexts is unsynchronised; it only labels log records.

## Plan

The plan of the project is done: `RequestQueue`, `AsioSocket`, `Scheduler`,
`RequestWithTimeout`, `Client`, `Framing`, then `Exchange` and `Delivery`, with their runs
and proofs. What could follow:

1. `Exchange` weakened to what two workers keep, and `ExchangeImplemented` for any number.
2. `Client` over several keys, if the library ever keeps state between calls.
