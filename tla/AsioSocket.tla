----------------------------- MODULE AsioSocket -----------------------------
(***************************************************************************)
(* The environment of the single serial socket transport: one TCP socket   *)
(* of boost::asio, the queue of completion handlers of its io_service, and *)
(* the Riak node at the other end.  None of it is code of this repository; *)
(* it is modelled from how scheduler.cxx and asio_tcp_socket.hxx use it.   *)
(*                                                                         *)
(* What the transport relies on, and no more:                              *)
(*   - every asynchronous operation completes exactly once, by queueing    *)
(*     its handler on the io_service: with success, with an error of the   *)
(*     connection, or "aborted" if it is cancelled or the socket closed;   *)
(*   - cancelling has no effect on an operation that already completed,    *)
(*     even when its handler has not run yet;                              *)
(*   - reads (and writes) of one socket complete in the order of issue;    *)
(*   - the node answers the requests of a connection in the order it       *)
(*     received them, each with ReplyParts segments.                       *)
(***************************************************************************)
EXTENDS Naturals, Sequences, SequencesExt

CONSTANTS
    Requests,       \* the requests ever given to the transport
    None,           \* a null pointer
    ReplyParts,     \* bound: segments of each reply
    EagerWrites,    \* TRUE: the send buffer has room, a write ends as it starts
    MaxResets       \* bound: how often the peer may drop a connection

ASSUME SocketAssumption ==
    /\ None \notin Requests
    /\ ReplyParts \in Nat \ {0}
    /\ EagerWrites \in BOOLEAN
    /\ MaxResets \in Nat

VARIABLE io         \* the socket, its peer and the io_service, as one record

(***************************************************************************)
(* A segment of a reply; last tells that the reply ends with it.           *)
(***************************************************************************)
Segments == [of : Requests, last : BOOLEAN]

NoSegment == [of |-> None, last |-> FALSE]

Errors == {"success", "aborted", "failed"}

(***************************************************************************)
(* A handler queued on the io_service: which one, for which request, and   *)
(* what it is told.                                                        *)
(***************************************************************************)
Completions ==
    [ call    : {"on_write", "on_read", "dequeue"},
      req     : Requests,
      error   : Errors,
      segment : Segments \cup {NoSegment} ]

Completion(call, r, error, segment) ==
    [call |-> call, req |-> r, error |-> error, segment |-> segment]

IoTypes ==
    [ open    : BOOLEAN,                \* the descriptor is open
      up      : BOOLEAN,                \* the peer still holds the connection
      reads   : Seq(Requests),          \* async_read_some not yet completed
      writes  : Seq(Requests),          \* async_write not yet completed
      ready   : Seq(Completions),       \* handlers the io_service has to run
      inbox   : Seq(Segments),          \* received, not yet read
      serving : Seq([req : Requests, left : 1..ReplyParts]),
      log     : Seq(Requests),          \* history: all the node ever received
      resets  : 0..MaxResets ]

IoInit ==
    io = [ open |-> TRUE, up |-> TRUE, reads |-> <<>>, writes |-> <<>>,
           ready |-> <<>>, inbox |-> <<>>, serving |-> <<>>, log |-> <<>>,
           resets |-> 0 ]

-----------------------------------------------------------------------------
(***************************************************************************)
(* Calls the transport makes, as functions of the socket's state s.        *)
(***************************************************************************)
Queued(s, c) == [s EXCEPT !.ready = Append(@, c)]

\* The node has received the whole of r and will answer it.
Transmitted(s, r) ==
    [s EXCEPT !.serving = Append(@, [req |-> r, left |-> ReplyParts]),
              !.log     = Append(@, r),
              !.ready   = Append(@, Completion("on_write", r, "success", NoSegment))]

\* asio::async_write tries the write at once, and waits when it cannot end it.
AsyncWrite(s, r) ==
    CASE ~s.open -> Queued(s, Completion("on_write", r, "failed", NoSegment))
      [] s.open /\ s.up /\ EagerWrites /\ s.writes = <<>> -> Transmitted(s, r)
      [] OTHER -> [s EXCEPT !.writes = Append(@, r)]

AsyncRead(s, r) ==
    IF s.open THEN [s EXCEPT !.reads = Append(@, r)]
              ELSE Queued(s, Completion("on_read", r, "failed", NoSegment))

\* cancel(): what has not completed yet completes as aborted, reads first.
Cancelled(s) ==
    [s EXCEPT
        !.reads  = <<>>,
        !.writes = <<>>,
        !.ready  = @ \o [i \in 1..Len(s.reads) |->
                            Completion("on_read", s.reads[i], "aborted", NoSegment)]
                     \o [i \in 1..Len(s.writes) |->
                            Completion("on_write", s.writes[i], "aborted", NoSegment)]]

\* close() also aborts; both ends forget what was in flight.
Closed(s) ==
    [Cancelled(s) EXCEPT !.open = FALSE, !.up = FALSE,
                         !.inbox = <<>>, !.serving = <<>>]

Connected(s) == [s EXCEPT !.open = TRUE, !.up = TRUE]

\* shutdown() may throw once the peer has dropped the connection.
ShutdownMayThrow(s) == ~s.up

\* The io_service takes handler i off its queue to run it.
Taken(s, i) == [s EXCEPT !.ready = RemoveAt(@, i)]

-----------------------------------------------------------------------------
(***************************************************************************)
(* What the network and the node do on their own.                          *)
(***************************************************************************)
WriteCompletes ==
    /\ io.writes # <<>>
    /\ io.up
    /\ io' = Transmitted([io EXCEPT !.writes = Tail(@)], Head(io.writes))

\* The peer is gone: the write is refused, or vanishes in a kernel buffer.
WriteGoesNowhere ==
    /\ io.writes # <<>>
    /\ ~io.up
    /\ \E error \in {"success", "failed"} :
          io' = Queued([io EXCEPT !.writes = Tail(@)],
                       Completion("on_write", Head(io.writes), error, NoSegment))

ReadCompletes ==
    /\ io.reads # <<>>
    /\ io.inbox # <<>>
    /\ io' = Queued([io EXCEPT !.reads = Tail(@), !.inbox = Tail(@)],
                    Completion("on_read", Head(io.reads), "success", Head(io.inbox)))

ReadFails ==
    /\ io.reads # <<>>
    /\ io.inbox = <<>>
    /\ ~io.up
    /\ io' = Queued([io EXCEPT !.reads = Tail(@)],
                    Completion("on_read", Head(io.reads), "failed", NoSegment))

\* The node sends the next segment of the reply it owes first.
NodeReplies ==
    /\ io.serving # <<>>
    /\ LET first == Head(io.serving)
           rest  == Tail(io.serving)
       IN  io' = [io EXCEPT
                    !.inbox   = Append(@, [of |-> first.req, last |-> first.left = 1]),
                    !.serving = IF first.left = 1
                                THEN rest
                                ELSE <<[first EXCEPT !.left = @ - 1]>> \o rest]

\* The peer drops the connection; what it has already sent can still be read.
PeerResets ==
    /\ io.open
    /\ io.up
    /\ io.resets < MaxResets
    /\ io' = [io EXCEPT !.up = FALSE, !.serving = <<>>, !.resets = @ + 1]
=============================================================================
