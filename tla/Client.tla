------------------------------- MODULE Client -------------------------------
(***************************************************************************)
(* riak::client and its request_runner: get_object with the resolution of  *)
(* siblings, the value_updater it answers with, and delete_object, for one *)
(* key of a store that is also written by others.                          *)
(*                                                                         *)
(* A call is one get_object or delete_object of the application; with the  *)
(* value_updater a get was answered with, the application puts what it was *)
(* given and an update of its own, once.  Each message is sent through a   *)
(* request_with_timeout of its own, which keeps the promise of Exchange:   *)
(* one end, a reply or an error, and perhaps a timeout after it.  An error *)
(* says nothing of what the store does with the message, or when.          *)
(*                                                                         *)
(* The store is external.  It numbers the writes it takes; a vector clock  *)
(* is the number of the last write it covers, and 0 is none.  A value is   *)
(* the set of the updates it contains, and {} is no content.               *)
(***************************************************************************)
EXTENDS Naturals, Sequences

CONSTANTS
    Calls, Deletes,     \* the calls, and which of them are delete_object
    Others,             \* the updates by other clients of the store
    None,               \* an empty value_updater
    Resolutions,        \* what the sibling_resolution may do: "merge", "null"
    MaxWrites,          \* bound: writes the store takes
    MaxFailures         \* bound: errors and wrong replies

ASSUME ClientAssumption ==
    /\ Deletes \subseteq Calls
    /\ Calls \cap Others = {}
    /\ None \notin 0..MaxWrites
    /\ Resolutions \subseteq {"merge", "null"}
    /\ MaxWrites \in Nat
    /\ MaxFailures \in Nat

VARIABLES
    at,         \* at[c]: how far call c has come
    tries,      \* tries[c]: how many messages it has sent
    cached,     \* cached[c]: cached_object, the value it resolved siblings to
    got,        \* got[c]: the calls of its get_response_handler
    done,       \* done[c]: the calls of its put_ or delete_response_handler
    known,      \* history: the updates acknowledged before c began
    sent,       \* messages the store has not taken
    replies,    \* replies nobody has received
    stored,     \* the siblings in the store
    clock,      \* how many writes the store has taken
    taken,      \* history: the updates whose writers know they are stored
    deleted,    \* history: the updates that were in the store as it was deleted
    ended,      \* history: ended[c], the kinds of messages of c that have ended
    failures

vars == <<at, tries, cached, got, done, known, sent, replies, stored, clock,
          taken, deleted, ended, failures>>

Updates == Calls \cup Others
Values == SUBSET Updates
Clocks == 0..MaxWrites
Siblings == [number : 1..MaxWrites, value : Values]

Points == {"new", "getting", "resolving", "answered", "putting", "deleting", "over"}

\* GET, the PUT of a resolved sibling (which wants the head returned), PUT, DELETE.
Kinds == {"get", "resolve", "put", "delete"}

Messages ==
    [call : Calls, no : Nat, op : Kinds,
     value : Values, vclock : Clocks]

Replies ==
    [call : Calls, no : Nat, parses : BOOLEAN, contents : SUBSET Siblings,
     vclock : Clocks]

\* How a call ends: well, or with one of the error codes.
Errors == {"none", "network", "unparseable_response", "missing_vector_clock",
           "inappropriate_response_content"}

\* An answer has the vclock its value_updater will use, 0 if that was given none.
\* History: owed, what it had to contain.
Answers ==
    [error : Errors, value : Values, updater : Clocks \cup {None}, owed : Values]

TypeOK ==
    /\ at \in [Calls -> Points]
    /\ tries \in [Calls -> Nat]
    /\ cached \in [Calls -> Values]
    /\ got \in [Calls -> Seq(Answers)]
    /\ done \in [Calls -> Seq(Errors)]
    /\ known \in [Calls -> Values]
    /\ sent \subseteq Messages
    /\ replies \subseteq Replies
    /\ stored \subseteq Siblings
    /\ clock \in Clocks
    /\ taken \subseteq Updates
    /\ deleted \subseteq Updates
    /\ ended \in [Calls -> SUBSET Kinds]
    /\ failures \in 0..MaxFailures

Init ==
    /\ at = [c \in Calls |-> "new"]
    /\ tries = [c \in Calls |-> 0]
    /\ cached = [c \in Calls |-> {}]
    /\ got = [c \in Calls |-> <<>>]
    /\ done = [c \in Calls |-> <<>>]
    /\ known = [c \in Calls |-> {}]
    /\ sent = {}
    /\ replies = {}
    /\ stored = {}
    /\ clock = 0
    /\ taken = {}
    /\ deleted = {}
    /\ ended = [c \in Calls |-> {}]
    /\ failures = 0

-----------------------------------------------------------------------------
(***************************************************************************)
(* Sending, and answering the application.                                 *)
(***************************************************************************)
Send(c, op, value, vclock) ==
    /\ tries' = [tries EXCEPT ![c] = @ + 1]
    /\ sent' = sent \cup {[call |-> c, no |-> tries[c] + 1, op |-> op,
                           value |-> value, vclock |-> vclock]}

Goes(c, point) == at' = [at EXCEPT ![c] = point]

\* respond_to_application, of a get.
Told(c, error, value, updater, owed) ==
    got' = [got EXCEPT ![c] = Append(@,
              [error |-> error, value |-> value, updater |-> updater, owed |-> owed])]

Answer(c, error, value, updater) ==
    /\ Goes(c, "answered")
    /\ Told(c, error, value, updater, known[c] \ deleted)
    /\ UNCHANGED <<tries, sent, cached>>

\* respond_to_application, of a put or a delete.
Conclude(c, error) ==
    /\ Goes(c, "over")
    /\ done' = [done EXCEPT ![c] = Append(@, error)]
    /\ taken' = IF error = "none" /\ c \notin Deletes THEN taken \cup {c} ELSE taken
    /\ UNCHANGED <<tries, sent, cached, got>>

GetObject(c) ==
    /\ at[c] = "new"
    /\ c \notin Deletes
    /\ Send(c, "get", {}, 0)
    /\ Goes(c, "getting")
    /\ known' = [known EXCEPT ![c] = taken]
    /\ UNCHANGED <<cached, got, done, replies, stored, clock, taken, deleted, ended, failures>>

DeleteObject(c) ==
    /\ at[c] = "new"
    /\ c \in Deletes
    /\ Send(c, "delete", {}, 0)
    /\ Goes(c, "deleting")
    /\ UNCHANGED <<cached, got, done, known, replies, stored, clock, taken, deleted,
                   ended, failures>>

\* The application calls a value_updater it was given: put_with_vclock.
Update(c) ==
    /\ at[c] = "answered"
    /\ \E i \in DOMAIN got[c] :
          /\ got[c][i].updater # None
          /\ Send(c, "put", got[c][i].value \cup {c}, got[c][i].updater)
    /\ Goes(c, "putting")
    /\ UNCHANGED <<cached, got, done, known, replies, stored, clock, taken, deleted,
                   ended, failures>>

-----------------------------------------------------------------------------
\* A bug to be found: a put that collided passes for one that did not.
NotEmpty(contents) == contents # {}

\* The content_size of a reply is 1, or more.
Single(contents) == \E s \in contents : contents = {s}
Several(contents) == \E s, t \in contents : s # t

\* Bugs to be found: the first sibling is returned for all of them, and a resolution
\* that yields nothing is not reported.
ReturnFirst(c, r) ==
    \E s \in r.contents : Answer(c, "none", s.value, r.vclock)
IgnoreNull(c, r) ==
    /\ Goes(c, "resolving")
    /\ UNCHANGED <<tries, sent, cached, got>>

(***************************************************************************)
(* resolve_siblings_and_put, and accept_get_response, on the reply r.  A   *)
(* resolution that yields nothing decides to discard what was stored.      *)
(***************************************************************************)
ResolveSiblingsAndPut(c, r) ==
    \/ /\ "merge" \in Resolutions
       /\ LET merged == UNION {s.value : s \in r.contents}
          IN  /\ cached' = [cached EXCEPT ![c] = merged]
              /\ Send(c, "resolve", merged, r.vclock)
       /\ Goes(c, "resolving")
       /\ UNCHANGED got
    \/ /\ "null" \in Resolutions
       /\ Told(c, "none", {}, 0, {})
       /\ Goes(c, "answered")
       /\ UNCHANGED <<tries, sent, cached>>

AcceptGetResponse(c, r) ==
    \/ /\ ~r.parses
       /\ Answer(c, "unparseable_response", {}, None)
    \/ /\ r.parses
       /\ Several(r.contents)
       /\ IF r.vclock # 0
          THEN ResolveSiblingsAndPut(c, r)
          ELSE Answer(c, "inappropriate_response_content", {}, None)
    \/ /\ r.parses
       /\ \E s \in r.contents :
             /\ r.contents = {s}
             /\ Answer(c, IF r.vclock # 0 THEN "none" ELSE "missing_vector_clock",
                       s.value, r.vclock)
    \/ /\ r.parses
       /\ r.contents = {}
       /\ Answer(c, "none", {}, 0)

\* return_successfully_resolved_sibling_or_retry.
AcceptResolutionResponse(c, r) ==
    \/ /\ ~r.parses
       /\ Answer(c, "unparseable_response", {}, 0)
    \/ /\ r.parses
       /\ Single(r.contents)
       /\ r.vclock # 0
       /\ Answer(c, "none", cached[c], r.vclock)
    \/ /\ r.parses
       /\ ~Single(r.contents) \/ r.vclock = 0
       /\ Send(c, "get", {}, 0)
       /\ Goes(c, "getting")
       /\ UNCHANGED <<cached, got>>

\* The kind of the message c waits for.
Kind(c) ==
    CASE at[c] = "getting"   -> "get"
      [] at[c] = "resolving" -> "resolve"
      [] at[c] = "putting"   -> "put"
      [] at[c] = "deleting"  -> "delete"

\* The handler of the message c sent last is called with its reply.
Receive(c, r) ==
    /\ r \in replies
    /\ r.call = c
    /\ r.no = tries[c]
    /\ replies' = replies \ {r}
    /\ \/ at[c] = "getting" /\ AcceptGetResponse(c, r) /\ UNCHANGED <<done, taken>>
       \/ at[c] = "resolving" /\ AcceptResolutionResponse(c, r) /\ UNCHANGED <<done, taken>>
       \/ /\ at[c] \in {"putting", "deleting"}
          /\ Conclude(c, IF r.parses THEN "none" ELSE "unparseable_response")
    /\ ended' = [ended EXCEPT ![c] = @ \cup {Kind(c)}]
    /\ UNCHANGED <<known, stored, clock, deleted, failures>>

\* It is called with an error: a timeout, or a failure of the connection.
Fail(c) ==
    /\ failures < MaxFailures
    /\ failures' = failures + 1
    /\ \/ /\ at[c] = "getting"
          /\ Answer(c, "network", {}, None)
          /\ UNCHANGED <<done, taken>>
       \/ /\ at[c] = "resolving"
          /\ Answer(c, "network", {}, 0)
          /\ UNCHANGED <<done, taken>>
       \/ /\ at[c] \in {"putting", "deleting"}
          /\ Conclude(c, "network")
    /\ ended' = [ended EXCEPT ![c] = @ \cup {Kind(c)}]
    /\ UNCHANGED <<known, replies, stored, clock, deleted>>

\* The handler of a message that has ended is called once more, with the timeout that
\* was on its way.
LateTimeout(c) ==
    /\ failures < MaxFailures
    /\ failures' = failures + 1
    /\ \/ /\ "get" \in ended[c]
          /\ Told(c, "network", {}, None, {})
          /\ UNCHANGED done
       \/ /\ "resolve" \in ended[c]
          /\ Told(c, "network", {}, 0, {})
          /\ UNCHANGED done
       \/ /\ ended[c] \cap {"put", "delete"} # {}
          /\ done' = [done EXCEPT ![c] = Append(@, "network")]
          /\ UNCHANGED got
    /\ UNCHANGED <<at, tries, cached, known, sent, replies, stored, clock, taken,
                   deleted, ended>>

-----------------------------------------------------------------------------
\* A bug to be found: the first write has the number that means no vclock.
WriteFromZero(value, vclock) ==
    {s \in stored : s.number > vclock} \cup {[number |-> clock, value |-> value]}

(***************************************************************************)
(* The store.  A write replaces the siblings its vclock covers and no      *)
(* others; a delete replaces all there are.                                *)
(***************************************************************************)
Write(value, vclock) ==
    {s \in stored : s.number > vclock} \cup {[number |-> clock + 1, value |-> value]}

\* What the store replies to q, unless something goes wrong on the way.
Reply(q, contents, vclock) ==
    LET reply == [call |-> q.call, no |-> q.no, parses |-> TRUE,
                  contents |-> contents, vclock |-> vclock]
    IN  \/ /\ replies' = replies \cup {reply}
           /\ UNCHANGED failures
        \/ /\ failures < MaxFailures
           /\ failures' = failures + 1
           /\ \/ replies' = replies \cup {[reply EXCEPT !.parses = FALSE]}
              \/ replies' = replies \cup {[reply EXCEPT !.vclock = 0]}

StoreTakes(q) ==
    /\ q \in sent
    /\ sent' = sent \ {q}
    /\ \/ /\ q.op = "get"
          /\ Reply(q, stored, clock)
          /\ UNCHANGED <<stored, clock, deleted>>
       \/ /\ q.op \in {"put", "resolve"}
          /\ clock < MaxWrites
          /\ stored' = Write(q.value, q.vclock)
          /\ clock' = clock + 1
          /\ Reply(q, IF q.op = "resolve" THEN stored' ELSE {}, clock')
          /\ UNCHANGED deleted
       \/ /\ q.op = "delete"
          /\ stored' = {}
          /\ deleted' = deleted \cup UNION {s.value : s \in stored}
          /\ Reply(q, {}, 0)
          /\ UNCHANGED clock
    /\ UNCHANGED <<at, tries, cached, got, done, known, taken, ended>>

\* Another client puts a value it derived from what it read, if anything.
OthersPut(u) ==
    /\ u \notin taken
    /\ clock < MaxWrites
    /\ \E vclock \in 0..clock :
          stored' = Write({u} \cup UNION {s.value : s \in {s \in stored : s.number <= vclock}},
                          vclock)
    /\ clock' = clock + 1
    /\ taken' = taken \cup {u}
    /\ UNCHANGED <<at, tries, cached, got, done, known, sent, replies, deleted, ended,
                   failures>>

-----------------------------------------------------------------------------
Handle(c) == \E r \in replies : Receive(c, r)

Store == \E q \in sent : StoreTakes(q)

Next ==
    \/ \E c \in Calls : GetObject(c) \/ DeleteObject(c) \/ Update(c)
                           \/ Handle(c) \/ Fail(c) \/ LateTimeout(c)
    \/ Store
    \/ \E u \in Others : OthersPut(u)

Spec == Init /\ [][Next]_vars

(***************************************************************************)
(* The store replies, and replies are handled.  Nobody has to call, to     *)
(* update, to write or to fail.                                            *)
(***************************************************************************)
FairSpec ==
    /\ Spec
    /\ WF_vars(Store)
    /\ \A c \in Calls : WF_vars(Handle(c))

-----------------------------------------------------------------------------
\* An update somebody was told is stored stays in the store until it is deleted, whoever
\* resolves siblings or overwrites values: every put has the vclock of what it contains,
\* or none (accept_get_response, return_successfully_resolved_sibling_or_retry).
NoLostUpdate ==
    \A u \in taken \ deleted : \E s \in stored : u \in s.value

\* A get that succeeds has, in its value, all that had been acknowledged when it was
\* called and not been deleted by its answer, even if it found siblings or had to resolve
\* more than once.  A resolution to nothing owes nothing.
ReadsWhatWasTaken ==
    \A c \in Calls : \A i \in DOMAIN got[c] :
        got[c][i].error \in {"none", "missing_vector_clock"} =>
            got[c][i].owed \subseteq got[c][i].value

\* Whatever an updater, or a message on its way, will replace in the store is
\* contained in the value it replaces it with: the vclock never covers a sibling
\* that was not returned to the application or resolved.
PutsCoverWhatTheyReplace ==
    /\ \A c \in Calls : \A i \in DOMAIN got[c] :
          \A s \in stored :
             got[c][i].updater # None /\ s.number <= got[c][i].updater
                => s.value \subseteq got[c][i].value
    /\ \A q \in sent : \A s \in stored :
          s.number <= q.vclock => s.value \subseteq q.value

\* A get is answered, however often its resolution collides with other writes, and
\* so are the update made with it and a delete.
CallsAnswered ==
    \A c \in Calls :
        /\ at[c] = "getting" ~> at[c] = "answered"
        /\ at[c] \in {"putting", "deleting"} ~> at[c] = "over"
=============================================================================
