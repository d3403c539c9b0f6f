---------------------------- MODULE ClientProofs ----------------------------
(***************************************************************************)
(* Theorems about Client for any number of calls, of other writers and of  *)
(* failures: its variables have their types, no update that was            *)
(* acknowledged is lost, and a get returns what had been acknowledged      *)
(* before it.                                                              *)
(***************************************************************************)
EXTENDS Client, SequenceTheorems, TLAPS

-----------------------------------------------------------------------------
LEMMA ValueTypes ==
    /\ {} \in Values
    /\ \A c \in Calls, v \in Values : v \cup {c} \in Values
    /\ \A contents \in SUBSET Siblings : UNION {s.value : s \in contents} \in Values
    /\ 0 \in Clocks
    /\ \A v \in Clocks : v \in Clocks \cup {None}
<1>1. \A c \in Calls, v \in Values : v \cup {c} \in Values
  BY DEF Values, Updates
<1>2. \A contents \in SUBSET Siblings : UNION {s.value : s \in contents} \in Values
  BY DEF Siblings, Values
<1>3. 0 \in Clocks
  BY ClientAssumption DEF Clocks
<1> QED
  BY <1>1, <1>2, <1>3 DEF Values

LEMMA SendType ==
    ASSUME TypeOK, NEW c \in Calls, NEW op \in Kinds, NEW value \in Values,
           NEW vclock \in Clocks, Send(c, op, value, vclock)
    PROVE  tries' \in [Calls -> Nat] /\ sent' \subseteq Messages
<1>1. tries \in [Calls -> Nat] /\ sent \subseteq Messages
  BY DEF TypeOK
<1>2. [call |-> c, no |-> tries[c] + 1, op |-> op, value |-> value, vclock |-> vclock]
         \in Messages
  BY <1>1 DEF Messages
<1> QED
  BY <1>1, <1>2 DEF Send

LEMMA ToldType ==
    ASSUME TypeOK, NEW c \in Calls, NEW error \in Errors, NEW value \in Values,
           NEW updater \in Clocks \cup {None}, NEW owed \in Values,
           Told(c, error, value, updater, owed)
    PROVE  got' \in [Calls -> Seq(Answers)]
<1>1. got \in [Calls -> Seq(Answers)]
  BY DEF TypeOK
<1>2. [error |-> error, value |-> value, updater |-> updater, owed |-> owed]
         \in Answers
  BY DEF Answers
<1>3. Append(got[c], [error |-> error, value |-> value, updater |-> updater, owed |-> owed]) \in Seq(Answers)
  BY <1>1, <1>2, AppendProperties
<1> QED
  BY <1>1, <1>3 DEF Told

LEMMA DoneType ==
    ASSUME TypeOK, NEW c \in Calls, NEW error \in Errors
    PROVE  [done EXCEPT ![c] = Append(@, error)] \in [Calls -> Seq(Errors)]
<1>1. done \in [Calls -> Seq(Errors)]
  BY DEF TypeOK
<1>2. Append(done[c], error) \in Seq(Errors)
  BY <1>1, AppendProperties
<1> QED
  BY <1>1, <1>2

\* What a handler of a reply may change.
HandlerType ==
    /\ at' \in [Calls -> Points]
    /\ tries' \in [Calls -> Nat]
    /\ cached' \in [Calls -> Values]
    /\ got' \in [Calls -> Seq(Answers)]
    /\ done' \in [Calls -> Seq(Errors)]
    /\ sent' \subseteq Messages
    /\ taken' \subseteq Updates

LEMMA AnswerType ==
    ASSUME TypeOK, NEW c \in Calls, NEW error \in Errors, NEW value \in Values,
           NEW updater \in Clocks \cup {None},
           Answer(c, error, value, updater), UNCHANGED <<done, taken>>
    PROVE  HandlerType
<1>1. known[c] \ deleted \in Values
  BY DEF TypeOK, Values
<1>2. got' \in [Calls -> Seq(Answers)]
  BY <1>1, ToldType DEF Answer
<1>3. at' \in [Calls -> Points]
  BY DEF Answer, Goes, TypeOK, Points
<1> QED
  BY <1>2, <1>3 DEF Answer, HandlerType, TypeOK

LEMMA ConcludeType ==
    ASSUME TypeOK, NEW c \in Calls, NEW error \in Errors, Conclude(c, error)
    PROVE  HandlerType
<1>1. done' \in [Calls -> Seq(Errors)]
  BY DoneType DEF Conclude
<1>2. at' \in [Calls -> Points]
  BY DEF Conclude, Goes, TypeOK, Points
<1>3. taken' \subseteq Updates
  BY DEF Conclude, TypeOK, Updates
<1> QED
  BY <1>1, <1>2, <1>3 DEF Conclude, HandlerType, TypeOK

LEMMA ReplyTypes ==
    ASSUME TypeOK, NEW r \in replies
    PROVE  /\ r.call \in Calls /\ r.no \in Nat /\ r.parses \in BOOLEAN
           /\ r.contents \in SUBSET Siblings /\ r.vclock \in Clocks
           /\ \A s \in r.contents : s.value \in Values /\ s.number \in 1..MaxWrites
<1>1. r \in Replies
  BY DEF TypeOK
<1> QED
  BY <1>1 DEF Replies, Siblings

LEMMA AcceptGetType ==
    ASSUME TypeOK, NEW c \in Calls, NEW r \in replies, AcceptGetResponse(c, r),
           UNCHANGED <<done, taken>>
    PROVE  HandlerType
<1>1. /\ r.contents \in SUBSET Siblings /\ r.vclock \in Clocks
      /\ \A s \in r.contents : s.value \in Values
  BY ReplyTypes
<1>2. {} \in Values /\ 0 \in Clocks /\ {0, None, r.vclock} \subseteq Clocks \cup {None}
  BY <1>1, ValueTypes
<1>3. {"none", "network", "unparseable_response", "missing_vector_clock",
       "inappropriate_response_content"} \subseteq Errors
  BY DEF Errors
<1>4. ASSUME ResolveSiblingsAndPut(c, r)
      PROVE  HandlerType
  <2>1. PICK merged : merged = UNION {s.value : s \in r.contents}
    OBVIOUS
  <2>2. merged \in Values
    BY <1>1, <2>1, ValueTypes
  <2>3. CASE /\ cached' = [cached EXCEPT ![c] = merged]
             /\ Send(c, "resolve", merged, r.vclock)
             /\ Goes(c, "resolving")
             /\ UNCHANGED got
    <3>1. tries' \in [Calls -> Nat] /\ sent' \subseteq Messages
      BY <1>1, <2>2, <2>3, SendType DEF Kinds
    <3>2. at' \in [Calls -> Points] /\ cached' \in [Calls -> Values]
      BY <2>2, <2>3 DEF Goes, Points, TypeOK
    <3> QED
      BY <2>3, <3>1, <3>2 DEF HandlerType, TypeOK
  <2>4. CASE /\ Told(c, "none", {}, 0, {})
             /\ Goes(c, "answered")
             /\ UNCHANGED <<tries, sent, cached>>
    <3>1. got' \in [Calls -> Seq(Answers)]
      BY <1>1, <1>2, <1>3, <2>4, ToldType
    <3>2. at' \in [Calls -> Points]
      BY <2>4 DEF Goes, Points, TypeOK
    <3> QED
      BY <2>4, <3>1, <3>2 DEF HandlerType, TypeOK
  <2> QED
    BY <1>4, <2>1, <2>3, <2>4 DEF ResolveSiblingsAndPut
<1>5. CASE Answer(c, "unparseable_response", {}, None)
  BY <1>2, <1>3, <1>5, AnswerType
<1>6. CASE Answer(c, "inappropriate_response_content", {}, None)
  BY <1>2, <1>3, <1>6, AnswerType
<1>7. ASSUME NEW s \in r.contents, NEW error \in Errors,
             Answer(c, error, s.value, r.vclock)
      PROVE  HandlerType
  BY <1>1, <1>2, <1>7, AnswerType
<1>8. CASE Answer(c, "none", {}, 0)
  BY <1>1, <1>2, <1>3, <1>8, AnswerType
<1> QED
  BY <1>3, <1>4, <1>5, <1>6, <1>7, <1>8 DEF AcceptGetResponse

LEMMA AcceptResolutionType ==
    ASSUME TypeOK, NEW c \in Calls, NEW r \in replies, AcceptResolutionResponse(c, r),
           UNCHANGED <<done, taken>>
    PROVE  HandlerType
<1>1. r.vclock \in Clocks /\ cached[c] \in Values
  BY ReplyTypes DEF TypeOK
<1>2. {} \in Values /\ 0 \in Clocks /\ {0, r.vclock} \subseteq Clocks \cup {None}
  BY <1>1, ValueTypes
<1>3. {"none", "unparseable_response"} \subseteq Errors
  BY DEF Errors
<1>4. CASE Answer(c, "unparseable_response", {}, 0)
  BY <1>2, <1>3, <1>4, AnswerType
<1>5. CASE Answer(c, "none", cached[c], r.vclock)
  BY <1>1, <1>2, <1>3, <1>5, AnswerType
<1>6. CASE /\ Send(c, "get", {}, 0)
           /\ Goes(c, "getting")
           /\ UNCHANGED <<cached, got>>
  <2>1. tries' \in [Calls -> Nat] /\ sent' \subseteq Messages
    BY <1>2, <1>6, SendType DEF Kinds
  <2>2. at' \in [Calls -> Points]
    BY <1>6 DEF Goes, Points, TypeOK
  <2> QED
    BY <1>6, <2>1, <2>2 DEF HandlerType, TypeOK
<1> QED
  BY <1>4, <1>5, <1>6 DEF AcceptResolutionResponse

LEMMA EndedType ==
    ASSUME TypeOK, NEW c \in Calls, at[c] \in {"getting", "resolving", "putting", "deleting"}
    PROVE  [ended EXCEPT ![c] = @ \cup {Kind(c)}] \in [Calls -> SUBSET Kinds]
<1>1. Kind(c) \in Kinds
  <2>1. CASE at[c] = "getting"
    BY <2>1 DEF Kind, Kinds
  <2>2. CASE at[c] = "resolving"
    BY <2>2 DEF Kind, Kinds
  <2>3. CASE at[c] = "putting"
    BY <2>3 DEF Kind, Kinds
  <2>4. CASE at[c] = "deleting"
    BY <2>4 DEF Kind, Kinds
  <2> QED
    BY <2>1, <2>2, <2>3, <2>4
<1> QED
  BY <1>1 DEF TypeOK

LEMMA ReceiveType ==
    ASSUME TypeOK, NEW c \in Calls, NEW r \in replies, Receive(c, r)
    PROVE  TypeOK'
<1>1. HandlerType
  <2>1. CASE AcceptGetResponse(c, r) /\ UNCHANGED <<done, taken>>
    BY <2>1, AcceptGetType
  <2>2. CASE AcceptResolutionResponse(c, r) /\ UNCHANGED <<done, taken>>
    BY <2>2, AcceptResolutionType
  <2>3. CASE Conclude(c, IF r.parses THEN "none" ELSE "unparseable_response")
    BY <2>3, ConcludeType DEF Errors
  <2> QED
    BY <2>1, <2>2, <2>3 DEF Receive
<1>2. ended' \in [Calls -> SUBSET Kinds]
  <2>1. at[c] \in {"getting", "resolving", "putting", "deleting"}
    BY DEF Receive
  <2> QED
    BY <2>1, EndedType DEF Receive
<1> QED
  BY <1>1, <1>2 DEF Receive, HandlerType, TypeOK

LEMMA FailType ==
    ASSUME TypeOK, NEW c \in Calls, Fail(c)
    PROVE  TypeOK'
<1>1. HandlerType
  <2>1. {} \in Values /\ 0 \in Clocks /\ {0, None} \subseteq Clocks \cup {None}
        /\ "network" \in Errors
    BY ValueTypes DEF Errors
  <2>2. CASE Answer(c, "network", {}, None) /\ UNCHANGED <<done, taken>>
    BY <2>1, <2>2, AnswerType
  <2>3. CASE Answer(c, "network", {}, 0) /\ UNCHANGED <<done, taken>>
    BY <2>1, <2>3, AnswerType
  <2>4. CASE Conclude(c, "network")
    BY <2>1, <2>4, ConcludeType
  <2> QED
    BY <2>2, <2>3, <2>4 DEF Fail
<1>2. ended' \in [Calls -> SUBSET Kinds]
  <2>1. at[c] \in {"getting", "resolving", "putting", "deleting"}
    BY DEF Fail
  <2> QED
    BY <2>1, EndedType DEF Fail
<1>3. failures' \in 0..MaxFailures
  BY ClientAssumption DEF Fail, TypeOK
<1> QED
  BY <1>1, <1>2, <1>3 DEF Fail, HandlerType, TypeOK

LEMMA LateTimeoutType ==
    ASSUME TypeOK, NEW c \in Calls, LateTimeout(c)
    PROVE  TypeOK'
<1>1. {} \in Values /\ 0 \in Clocks /\ {0, None} \subseteq Clocks \cup {None}
      /\ "network" \in Errors
  BY ValueTypes DEF Errors
<1>2. got' \in [Calls -> Seq(Answers)] /\ done' \in [Calls -> Seq(Errors)]
  <2>1. CASE Told(c, "network", {}, None, {}) /\ UNCHANGED done
    <3>1. got' \in [Calls -> Seq(Answers)]
      BY <1>1, <2>1, ToldType
    <3> QED
      BY <2>1, <3>1 DEF TypeOK
  <2>2. CASE Told(c, "network", {}, 0, {}) /\ UNCHANGED done
    <3>1. got' \in [Calls -> Seq(Answers)]
      BY <1>1, <2>2, ToldType
    <3> QED
      BY <2>2, <3>1 DEF TypeOK
  <2>3. CASE done' = [done EXCEPT ![c] = Append(@, "network")] /\ UNCHANGED got
    BY <1>1, <2>3, DoneType DEF TypeOK
  <2> QED
    BY <2>1, <2>2, <2>3 DEF LateTimeout
<1>3. failures' \in 0..MaxFailures
  BY ClientAssumption DEF LateTimeout, TypeOK
<1> QED
  BY <1>2, <1>3 DEF LateTimeout, TypeOK

LEMMA CallType ==
    ASSUME TypeOK, NEW c \in Calls, GetObject(c) \/ DeleteObject(c) \/ Update(c)
    PROVE  TypeOK'
<1>1. {} \in Values /\ 0 \in Clocks
  BY ValueTypes
<1>2. CASE GetObject(c)
  <2>1. tries' \in [Calls -> Nat] /\ sent' \subseteq Messages
    BY <1>1, <1>2, SendType DEF GetObject, Kinds
  <2>2. at' \in [Calls -> Points] /\ known' \in [Calls -> Values]
    BY <1>2 DEF GetObject, Goes, Points, TypeOK, Values
  <2> QED
    BY <1>2, <2>1, <2>2 DEF GetObject, TypeOK
<1>3. CASE DeleteObject(c)
  <2>1. tries' \in [Calls -> Nat] /\ sent' \subseteq Messages
    BY <1>1, <1>3, SendType DEF DeleteObject, Kinds
  <2>2. at' \in [Calls -> Points]
    BY <1>3 DEF DeleteObject, Goes, Points, TypeOK
  <2> QED
    BY <1>3, <2>1, <2>2 DEF DeleteObject, TypeOK
<1>4. CASE Update(c)
  <2>1. PICK i \in DOMAIN got[c] :
           /\ got[c][i].updater # None
           /\ Send(c, "put", got[c][i].value \cup {c}, got[c][i].updater)
    BY <1>4 DEF Update
  <2>2. got[c][i] \in Answers
    BY ElementOfSeq, LenProperties DEF TypeOK
  <2>3. got[c][i].value \cup {c} \in Values /\ got[c][i].updater \in Clocks
    BY <2>1, <2>2, ValueTypes DEF Answers
  <2>4. tries' \in [Calls -> Nat] /\ sent' \subseteq Messages
    BY <2>1, <2>3, SendType DEF Kinds
  <2>5. at' \in [Calls -> Points]
    BY <1>4 DEF Update, Goes, Points, TypeOK
  <2> QED
    BY <1>4, <2>4, <2>5 DEF Update, TypeOK
<1> QED
  BY <1>2, <1>3, <1>4

LEMMA WriteType ==
    ASSUME TypeOK, NEW value \in Values, NEW vclock \in Clocks, clock < MaxWrites
    PROVE  Write(value, vclock) \subseteq Siblings /\ clock + 1 \in Clocks
<1>1. clock \in Nat /\ clock + 1 \in 1..MaxWrites /\ clock + 1 \in Clocks
  BY ClientAssumption DEF TypeOK, Clocks
<1>2. [number |-> clock + 1, value |-> value] \in Siblings
  BY <1>1 DEF Siblings
<1> QED
  BY <1>1, <1>2 DEF Write, TypeOK

LEMMA ReplyType ==
    ASSUME TypeOK, NEW q \in sent, NEW contents \in SUBSET Siblings, NEW vclock \in Clocks,
           Reply(q, contents, vclock)
    PROVE  replies' \subseteq Replies /\ failures' \in 0..MaxFailures
<1>1. q \in Messages /\ replies \subseteq Replies /\ failures \in 0..MaxFailures /\ 0 \in Clocks
  BY ValueTypes DEF TypeOK
<1>2. PICK reply : reply = [call |-> q.call, no |-> q.no, parses |-> TRUE,
                            contents |-> contents, vclock |-> vclock]
  OBVIOUS
<1>3. {reply, [reply EXCEPT !.parses = FALSE], [reply EXCEPT !.vclock = 0]} \subseteq Replies
  <2>1. q.call \in Calls /\ q.no \in Nat
    BY <1>1 DEF Messages
  <2>2. reply \in Replies
    BY <1>2, <2>1 DEF Replies
  <2>3. [reply EXCEPT !.parses = FALSE] \in Replies
    BY <2>2 DEF Replies
  <2>4. [reply EXCEPT !.vclock = 0] \in Replies
    BY <1>1, <2>2 DEF Replies
  <2> QED
    BY <2>2, <2>3, <2>4
<1>4. \/ replies' = replies \cup {reply} /\ UNCHANGED failures
      \/ /\ failures < MaxFailures /\ failures' = failures + 1
         /\ \/ replies' = replies \cup {[reply EXCEPT !.parses = FALSE]}
            \/ replies' = replies \cup {[reply EXCEPT !.vclock = 0]}
  BY <1>2 DEF Reply
<1>5. failures' \in 0..MaxFailures
  BY <1>1, <1>4, ClientAssumption
<1> QED
  BY <1>1, <1>3, <1>4, <1>5

LEMMA StoreType ==
    ASSUME TypeOK, NEW q \in sent, StoreTakes(q)
    PROVE  TypeOK'
<1>1. /\ q \in Messages /\ q.value \in Values /\ q.vclock \in Clocks /\ 0 \in Clocks
      /\ stored \subseteq Siblings /\ clock \in Clocks /\ deleted \subseteq Updates
      /\ sent' \subseteq Messages
  BY ValueTypes DEF TypeOK, Messages, StoreTakes
<1>2. CASE Reply(q, stored, clock) /\ UNCHANGED <<stored, clock, deleted>>
  BY <1>1, <1>2, ReplyType DEF StoreTakes, TypeOK
<1>3. CASE /\ clock < MaxWrites
           /\ stored' = Write(q.value, q.vclock)
           /\ clock' = clock + 1
           /\ Reply(q, IF q.op = "resolve" THEN stored' ELSE {}, clock')
           /\ UNCHANGED deleted
  <2>1. stored' \subseteq Siblings /\ clock' \in Clocks
    BY <1>1, <1>3, WriteType
  <2>2. PICK contents : contents = IF q.op = "resolve" THEN stored' ELSE {}
    OBVIOUS
  <2>3. contents \in SUBSET Siblings /\ Reply(q, contents, clock')
    BY <1>3, <2>1, <2>2
  <2>4. replies' \subseteq Replies /\ failures' \in 0..MaxFailures
    BY <2>1, <2>3, ReplyType
  <2> QED
    BY <1>1, <1>3, <2>1, <2>4 DEF StoreTakes, TypeOK
<1>4. CASE /\ stored' = {}
           /\ deleted' = deleted \cup UNION {s.value : s \in stored}
           /\ Reply(q, {}, 0)
           /\ UNCHANGED clock
  <2>1. replies' \subseteq Replies /\ failures' \in 0..MaxFailures
    BY <1>1, <1>4, ReplyType
  <2>2. deleted' \subseteq Updates
    BY <1>1, <1>4 DEF Siblings, Values
  <2> QED
    BY <1>1, <1>4, <2>1, <2>2 DEF StoreTakes, TypeOK
<1> QED
  BY <1>2, <1>3, <1>4 DEF StoreTakes

LEMMA OthersType ==
    ASSUME TypeOK, NEW u \in Others, OthersPut(u)
    PROVE  TypeOK'
<1>1. PICK vclock \in 0..clock :
         stored' = Write({u} \cup UNION {s.value : s \in {s \in stored : s.number <= vclock}},
                         vclock)
  BY DEF OthersPut
<1>2. PICK value : value = {u} \cup UNION {s.value : s \in {s \in stored : s.number <= vclock}}
  OBVIOUS
<1>3. value \in Values
  BY <1>2 DEF TypeOK, Siblings, Values, Updates
<1>4. vclock \in Clocks /\ clock < MaxWrites
  <2>1. clock \in 0..MaxWrites /\ MaxWrites \in Nat
    BY ClientAssumption DEF TypeOK, Clocks
  <2>2. vclock \in Clocks
    BY <2>1 DEF Clocks
  <2> QED
    BY <2>2 DEF OthersPut
<1>5. stored' = Write(value, vclock) /\ clock' = clock + 1
  BY <1>1, <1>2 DEF OthersPut
<1>6. stored' \subseteq Siblings /\ clock' \in Clocks
  BY <1>3, <1>4, <1>5, WriteType
<1> QED
  BY <1>6 DEF OthersPut, TypeOK, Updates

\* Every variable always has its type.
THEOREM ClientTypeCorrect == Spec => []TypeOK
<1>1. Init => TypeOK
  <2> SUFFICES ASSUME Init
               PROVE  TypeOK
    OBVIOUS
  <2>1. /\ <<>> \in Seq(Answers) /\ <<>> \in Seq(Errors) /\ {} \in Values /\ 0 \in Clocks
        /\ 0 \in 0..MaxFailures /\ "new" \in Points
    BY ValueTypes, ClientAssumption DEF Points
  <2> QED
    BY <2>1 DEF Init, TypeOK
<1>2. TypeOK /\ [Next]_vars => TypeOK'
  <2> SUFFICES ASSUME TypeOK, [Next]_vars
               PROVE  TypeOK'
    OBVIOUS
  <2>1. CASE UNCHANGED vars
    BY <2>1 DEF vars, TypeOK
  <2>2. ASSUME NEW c \in Calls, GetObject(c) \/ DeleteObject(c) \/ Update(c)
        PROVE  TypeOK'
    BY <2>2, CallType
  <2>3. ASSUME NEW c \in Calls, Handle(c)
        PROVE  TypeOK'
    BY <2>3, ReceiveType DEF Handle
  <2>4. ASSUME NEW c \in Calls, Fail(c)
        PROVE  TypeOK'
    BY <2>4, FailType
  <2>5. ASSUME NEW c \in Calls, LateTimeout(c)
        PROVE  TypeOK'
    BY <2>5, LateTimeoutType
  <2>6. CASE Store
    BY <2>6, StoreType DEF Store
  <2>7. ASSUME NEW u \in Others, OthersPut(u)
        PROVE  TypeOK'
    BY <2>7, OthersType
  <2> QED
    BY <2>1, <2>2, <2>3, <2>4, <2>5, <2>6, <2>7 DEF Next
<1> QED
  BY <1>1, <1>2, PTL DEF Spec
-----------------------------------------------------------------------------
(***************************************************************************)
(* The invariant.  A vector clock never travels without a value that       *)
(* contains all it covers: not in a message, not in a reply, not in an     *)
(* updater.  An update stays Present by that.  The message a call waits    *)
(* for is the one it has sent last, and what it will be answered with is   *)
(* what the call needs.                                                    *)
(***************************************************************************)
Content(siblings) == UNION {s.value : s \in siblings}

\* Replacing what vclock covers by value loses nothing.
Covers(vclock, value) == \A s \in stored : s.number <= vclock => s.value \subseteq value

Present(u) == u \in deleted \/ \E s \in stored : u \in s.value

StoreInv ==
    /\ \A s \in stored : s.number \in 1..clock
    /\ \A u \in taken : Present(u)

MessageInv(q) ==
    /\ q.vclock \in 0..clock
    /\ Covers(q.vclock, q.value)
    /\ q.no <= tries[q.call]
    /\ q.no = tries[q.call] =>
        /\ at[q.call] = "getting" => q.op = "get"
        /\ at[q.call] = "resolving" => q.op = "resolve" /\ q.value = cached[q.call]
        /\ at[q.call] = "putting" => q.op = "put" /\ q.call \in q.value

ReplyInv(r) ==
    /\ r.vclock \in 0..clock
    /\ r.contents # {} => Covers(r.vclock, Content(r.contents))
    /\ r.no <= tries[r.call]
    /\ r.no = tries[r.call] =>
        /\ at[r.call] = "getting" => known[r.call] \subseteq deleted \cup Content(r.contents)
        /\ at[r.call] = "resolving" =>
              \A s : r.contents = {s} => s.value = cached[r.call]
        /\ at[r.call] = "putting" => Present(r.call)

AnswerInv(a) ==
    /\ a.updater # None => a.updater \in 0..clock /\ Covers(a.updater, a.value)
    /\ a.error \in {"none", "missing_vector_clock"} => a.owed \subseteq a.value

CallInv(c) ==
    /\ known[c] \subseteq taken
    /\ at[c] = "resolving" => known[c] \subseteq deleted \cup cached[c]
    /\ at[c] = "deleting" => c \in Deletes
    /\ \A i \in DOMAIN got[c] : AnswerInv(got[c][i])

ClientInv ==
    /\ StoreInv
    /\ \A q \in sent : MessageInv(q)
    /\ \A r \in replies : ReplyInv(r)
    /\ \A c \in Calls : CallInv(c)

-----------------------------------------------------------------------------
(***************************************************************************)
(* Steps of a call leave the store alone.                                  *)
(***************************************************************************)
StoreSame == stored' = stored /\ clock' = clock /\ deleted' = deleted

\* What a step of c may change of its progress: it sends a message, stops waiting, or
\* goes on as before.
Progress(c) ==
    /\ \A d \in Calls \ {c} :
          /\ at'[d] = at[d] /\ tries'[d] = tries[d] /\ cached'[d] = cached[d]
          /\ known'[d] = known[d] /\ got'[d] = got[d]
    /\ \/ tries'[c] = tries[c] + 1
       \/ tries'[c] = tries[c] /\ at'[c] \notin {"getting", "resolving", "putting"}
       \/ /\ tries'[c] = tries[c] /\ at'[c] = at[c]
          /\ cached'[c] = cached[c] /\ known'[c] = known[c]

LEMMA MessageTypes ==
    ASSUME TypeOK, NEW q \in sent
    PROVE  /\ q.call \in Calls /\ q.no \in Nat /\ q.value \in Values /\ q.vclock \in Clocks
           /\ tries[q.call] \in Nat
<1>1. q \in Messages /\ tries \in [Calls -> Nat]
  BY DEF TypeOK
<1> QED
  BY <1>1 DEF Messages

LEMMA CallStep ==
    ASSUME TypeOK, ClientInv, NEW c \in Calls, StoreSame, Progress(c),
           replies' \subseteq replies, taken \subseteq taken',
           \A u \in taken' : Present(u),
           CallInv(c)',
           \A q \in sent' : q \in sent \/ MessageInv(q)'
    PROVE  ClientInv'
<1>1. /\ \A v, value : Covers(v, value)' <=> Covers(v, value)
      /\ \A u : Present(u)' <=> Present(u)
  BY DEF StoreSame, Covers, Present
<1>2. StoreInv'
  BY <1>1 DEF ClientInv, StoreInv, StoreSame
<1>3. tries \in [Calls -> Nat]
  BY DEF TypeOK
<1>4. ASSUME NEW q \in sent'
      PROVE  MessageInv(q)'
  <2>1. CASE q \in sent
    <3>1. MessageInv(q) /\ q.call \in Calls /\ q.no \in Nat /\ tries[q.call] \in Nat
      BY <2>1, MessageTypes DEF ClientInv
    <3>2. q.vclock \in 0..clock' /\ Covers(q.vclock, q.value)'
      BY <1>1, <3>1 DEF MessageInv, StoreSame
    <3>3. CASE q.call # c
      BY <3>1, <3>2, <3>3 DEF MessageInv, Progress
    <3>4. CASE q.call = c
      BY <3>1, <3>2, <3>4 DEF MessageInv, Progress
    <3> QED
      BY <3>3, <3>4
  <2> QED
    BY <2>1
<1>5. ASSUME NEW r \in replies'
      PROVE  ReplyInv(r)'
  <2>1. /\ ReplyInv(r) /\ r.call \in Calls /\ r.no \in Nat /\ tries[r.call] \in Nat
    BY <1>3, ReplyTypes DEF ClientInv
  <2>2. /\ r.vclock \in 0..clock' /\ deleted' = deleted
        /\ r.contents # {} => Covers(r.vclock, Content(r.contents))'
        /\ Present(r.call) <=> Present(r.call)'
    BY <1>1, <2>1 DEF ReplyInv, StoreSame, Content
  <2>3. CASE r.call # c
    BY <2>1, <2>2, <2>3 DEF ReplyInv, Progress, Content
  <2>4. CASE r.call = c
    BY <2>1, <2>2, <2>4 DEF ReplyInv, Progress, Content
  <2> QED
    BY <2>3, <2>4
<1>6. ASSUME NEW d \in Calls
      PROVE  CallInv(d)'
  <2>1. CASE d # c
    <3>1. /\ CallInv(d) /\ at'[d] = at[d] /\ cached'[d] = cached[d]
          /\ known'[d] = known[d] /\ got'[d] = got[d] /\ deleted' = deleted /\ clock' = clock
      BY <2>1 DEF ClientInv, Progress, StoreSame
    <3>2. \A a : AnswerInv(a) => AnswerInv(a)'
      BY <1>1, <3>1 DEF AnswerInv
    <3> QED
      BY <3>1, <3>2 DEF CallInv
  <2> QED
    BY <2>1
<1> QED
  BY <1>2, <1>4, <1>5, <1>6 DEF ClientInv

LEMMA SendStep ==
    ASSUME TypeOK, NEW c \in Calls, NEW op, NEW value, NEW vclock \in 0..clock,
           Send(c, op, value, vclock), Covers(vclock, value), StoreSame,
           at'[c] = "getting" => op = "get",
           at'[c] = "resolving" => op = "resolve" /\ value = cached'[c],
           at'[c] = "putting" => op = "put" /\ c \in value
    PROVE  /\ \A q \in sent' : q \in sent \/ MessageInv(q)'
           /\ tries'[c] = tries[c] + 1
           /\ \A d \in Calls \ {c} : tries'[d] = tries[d]
<1>1. tries \in [Calls -> Nat]
  BY DEF TypeOK
<1>2. PICK m : m = [call |-> c, no |-> tries[c] + 1, op |-> op,
                    value |-> value, vclock |-> vclock]
  OBVIOUS
<1>3. /\ tries'[c] = tries[c] + 1 /\ tries[c] \in Nat
      /\ \A d \in Calls \ {c} : tries'[d] = tries[d]
      /\ sent' = sent \cup {m}
  BY <1>1, <1>2 DEF Send
<1>4. /\ m.call = c /\ m.no = tries[c] + 1 /\ m.op = op /\ m.value = value
      /\ m.vclock = vclock
  BY <1>2
<1>5. Covers(vclock, value)' /\ vclock \in 0..clock'
  BY DEF Covers, StoreSame
<1>6. MessageInv(m)'
  BY <1>3, <1>4, <1>5 DEF MessageInv
<1> QED
  BY <1>3, <1>6

LEMMA ToldStep ==
    ASSUME TypeOK, NEW c \in Calls, NEW error, NEW value, NEW updater, NEW owed,
           Told(c, error, value, updater, owed), CallInv(c), StoreSame,
           updater # None => updater \in 0..clock /\ Covers(updater, value),
           error \in {"none", "missing_vector_clock"} => owed \subseteq value
    PROVE  /\ (\A i \in DOMAIN got[c] : AnswerInv(got[c][i]))'
           /\ \A d \in Calls \ {c} : got'[d] = got[d]
<1>1. got \in [Calls -> Seq(Answers)]
  BY DEF TypeOK
<1>2. PICK a : a = [error |-> error, value |-> value, updater |-> updater, owed |-> owed]
  OBVIOUS
<1>3. got'[c] = Append(got[c], a) /\ \A d \in Calls \ {c} : got'[d] = got[d]
  BY <1>1, <1>2 DEF Told
<1>4. /\ Len(got[c]) \in Nat /\ DOMAIN got[c] = 1..Len(got[c])
      /\ DOMAIN got'[c] = 1..(Len(got[c]) + 1)
      /\ \A i \in 1..Len(got[c]) : got'[c][i] = got[c][i]
      /\ got'[c][Len(got[c]) + 1] = a
  <2>1. got[c] \in Seq(Answers)
    BY <1>1
  <2> QED
    BY <1>3, <2>1, AppendProperties, LenProperties
<1>5. \A x : AnswerInv(x) => AnswerInv(x)'
  BY DEF AnswerInv, Covers, StoreSame
<1>6. AnswerInv(a)
  BY <1>2 DEF AnswerInv
<1>7. ASSUME NEW i \in DOMAIN got'[c], NEW x, x = got'[c][i]
      PROVE  AnswerInv(x)'
  <2>1. CASE i \in 1..Len(got[c])
    BY <1>4, <1>5, <1>7, <2>1 DEF CallInv
  <2>2. CASE i = Len(got[c]) + 1
    BY <1>4, <1>5, <1>6, <1>7, <2>2
  <2> QED
    BY <1>4, <2>1, <2>2
<1>8. (\A i \in DOMAIN got[c] : AnswerInv(got[c][i]))'
  BY <1>7 DEF AnswerInv, Covers
<1> QED
  BY <1>3, <1>8

LEMMA AnswersKept ==
    ASSUME NEW c \in Calls, CallInv(c), got'[c] = got[c], StoreSame
    PROVE  (\A i \in DOMAIN got[c] : AnswerInv(got[c][i]))'
<1>1. \A x : AnswerInv(x) => AnswerInv(x)'
  BY DEF AnswerInv, Covers, StoreSame
<1> QED
  BY <1>1 DEF CallInv

LEMMA NothingCovered ==
    ASSUME TypeOK, StoreInv
    PROVE  clock \in Nat /\ 0 \in 0..clock /\ \A value : Covers(0, value)
<1>1. clock \in Nat
  BY ClientAssumption DEF TypeOK, Clocks
<1>2. \A s \in stored : ~(s.number <= 0)
  BY <1>1 DEF StoreInv
<1> QED
  BY <1>1, <1>2 DEF Covers

LEMMA BeginInv ==
    ASSUME TypeOK, ClientInv, NEW c \in Calls, GetObject(c) \/ DeleteObject(c) \/ Update(c)
    PROVE  ClientInv'
<1>1. /\ StoreSame /\ replies' = replies /\ taken' = taken /\ got' = got /\ cached' = cached
      /\ \A d \in Calls \ {c} : at'[d] = at[d] /\ known'[d] = known[d]
  BY DEF GetObject, DeleteObject, Update, Goes, StoreSame, TypeOK
<1>2. /\ CallInv(c) /\ StoreInv /\ \A u \in taken' : Present(u)
      /\ (\A i \in DOMAIN got[c] : AnswerInv(got[c][i]))'
  BY <1>1, AnswersKept DEF ClientInv, StoreInv
<1>3. clock \in Nat /\ 0 \in 0..clock /\ \A value : Covers(0, value)
  BY <1>2, NothingCovered
<1>4. CASE GetObject(c)
  <2>1. Send(c, "get", {}, 0) /\ at'[c] = "getting" /\ known'[c] = taken
    BY <1>4 DEF GetObject, Goes, TypeOK
  <2>2. /\ \A q \in sent' : q \in sent \/ MessageInv(q)'
        /\ tries'[c] = tries[c] + 1
        /\ \A d \in Calls \ {c} : tries'[d] = tries[d]
    BY <1>1, <1>3, <2>1, SendStep
  <2>3. Progress(c)
    BY <1>1, <2>2 DEF Progress
  <2>4. CallInv(c)'
    BY <1>1, <1>2, <2>1 DEF CallInv
  <2> QED
    BY <1>1, <1>2, <2>2, <2>3, <2>4, CallStep
<1>5. CASE DeleteObject(c)
  <2>1. Send(c, "delete", {}, 0) /\ at'[c] = "deleting" /\ known' = known /\ c \in Deletes
    BY <1>5 DEF DeleteObject, Goes, TypeOK
  <2>2. /\ \A q \in sent' : q \in sent \/ MessageInv(q)'
        /\ tries'[c] = tries[c] + 1
        /\ \A d \in Calls \ {c} : tries'[d] = tries[d]
    BY <1>1, <1>3, <2>1, SendStep
  <2>3. Progress(c)
    BY <1>1, <2>2 DEF Progress
  <2>4. CallInv(c)'
    BY <1>1, <1>2, <2>1 DEF CallInv
  <2> QED
    BY <1>1, <1>2, <2>2, <2>3, <2>4, CallStep
<1>6. CASE Update(c)
  <2>1. PICK i \in DOMAIN got[c] :
           /\ got[c][i].updater # None
           /\ Send(c, "put", got[c][i].value \cup {c}, got[c][i].updater)
    BY <1>6 DEF Update
  <2>2. PICK value, vclock : value = got[c][i].value \cup {c} /\ vclock = got[c][i].updater
    OBVIOUS
  <2>3. vclock \in 0..clock /\ Covers(vclock, value)
    BY <1>2, <2>1, <2>2 DEF CallInv, AnswerInv, Covers
  <2>4. Send(c, "put", value, vclock) /\ at'[c] = "putting" /\ known' = known /\ c \in value
    BY <1>6, <2>1, <2>2 DEF Update, Goes, TypeOK
  <2>5. /\ \A q \in sent' : q \in sent \/ MessageInv(q)'
        /\ tries'[c] = tries[c] + 1
        /\ \A d \in Calls \ {c} : tries'[d] = tries[d]
    BY <1>1, <2>3, <2>4, SendStep
  <2>6. Progress(c)
    BY <1>1, <2>5 DEF Progress
  <2>7. CallInv(c)'
    BY <1>1, <1>2, <2>4 DEF CallInv
  <2> QED
    BY <1>1, <1>2, <2>5, <2>6, <2>7, CallStep
<1> QED
  BY <1>4, <1>5, <1>6

\* The call is answered: with an error, or with what it needs.
LEMMA AnswerStep ==
    ASSUME TypeOK, ClientInv, NEW c \in Calls, NEW error, NEW value, NEW updater,
           Answer(c, error, value, updater), StoreSame, replies' \subseteq replies,
           known' = known, taken' = taken,
           updater # None => updater \in 0..clock /\ Covers(updater, value),
           error \in {"none", "missing_vector_clock"} => known[c] \ deleted \subseteq value
    PROVE  ClientInv'
<1>1. /\ CallInv(c) /\ StoreInv /\ \A u \in taken' : Present(u)
  BY DEF ClientInv, StoreInv
<1>2. /\ (\A i \in DOMAIN got[c] : AnswerInv(got[c][i]))'
      /\ \A d \in Calls \ {c} : got'[d] = got[d]
  BY <1>1, ToldStep DEF Answer
<1>3. /\ at'[c] = "answered" /\ sent' = sent
      /\ tries' = tries /\ cached' = cached
      /\ \A d \in Calls \ {c} : at'[d] = at[d]
  BY DEF Answer, Goes, TypeOK
<1>4. Progress(c)
  BY <1>2, <1>3 DEF Progress
<1>5. CallInv(c)'
  BY <1>1, <1>2, <1>3 DEF CallInv
<1> QED
  BY <1>1, <1>3, <1>4, <1>5, CallStep

\* A put or a delete is over.
LEMMA ConcludeStep ==
    ASSUME TypeOK, ClientInv, NEW c \in Calls, NEW error,
           Conclude(c, error), StoreSame, replies' \subseteq replies, known' = known,
           error = "none" /\ c \notin Deletes => Present(c)
    PROVE  ClientInv'
<1>1. /\ CallInv(c) /\ \A u \in taken : Present(u)
  BY DEF ClientInv, StoreInv
<1>2. taken \subseteq taken' /\ \A u \in taken' : Present(u)
  BY <1>1 DEF Conclude
<1>3. /\ at'[c] = "over" /\ sent' = sent /\ got' = got
      /\ tries' = tries /\ cached' = cached
      /\ \A d \in Calls \ {c} : at'[d] = at[d]
  BY DEF Conclude, Goes, TypeOK
<1>4. Progress(c)
  BY <1>3 DEF Progress
<1>5. CallInv(c)'
  BY <1>1, <1>2, <1>3, AnswersKept DEF CallInv
<1> QED
  BY <1>2, <1>3, <1>4, <1>5, CallStep

LEMMA AcceptGetInv ==
    ASSUME TypeOK, ClientInv, NEW c \in Calls, NEW r \in replies,
           r.call = c, r.no = tries[c], at[c] = "getting", AcceptGetResponse(c, r),
           StoreSame, replies' \subseteq replies, known' = known, taken' = taken
    PROVE  ClientInv'
<1>1. /\ r.vclock \in 0..clock
      /\ r.contents # {} => Covers(r.vclock, Content(r.contents))
      /\ known[c] \subseteq deleted \cup Content(r.contents)
      /\ CallInv(c) /\ StoreInv /\ \A u \in taken' : Present(u)
  BY DEF ClientInv, ReplyInv, StoreInv
<1>2. 0 \in 0..clock /\ \A value : Covers(0, value)
  BY <1>1, NothingCovered
<1>3. ASSUME NEW error, error \notin {"none", "missing_vector_clock"},
             Answer(c, error, {}, None)
      PROVE  ClientInv'
  BY <1>3, AnswerStep
<1>4. ASSUME ResolveSiblingsAndPut(c, r), Several(r.contents)
      PROVE  ClientInv'
  <2>1. PICK merged : merged = Content(r.contents)
    OBVIOUS
  <2>2. Covers(r.vclock, merged) /\ known[c] \subseteq deleted \cup merged
    BY <1>1, <1>4, <2>1 DEF Several
  <2>3. CASE /\ cached' = [cached EXCEPT ![c] = merged]
             /\ Send(c, "resolve", merged, r.vclock)
             /\ Goes(c, "resolving")
             /\ UNCHANGED got
    <3>1. /\ at'[c] = "resolving" /\ cached'[c] = merged
          /\ \A d \in Calls \ {c} : at'[d] = at[d] /\ cached'[d] = cached[d]
      BY <2>3 DEF Goes, TypeOK
    <3>2. /\ \A q \in sent' : q \in sent \/ MessageInv(q)'
          /\ tries'[c] = tries[c] + 1
          /\ \A d \in Calls \ {c} : tries'[d] = tries[d]
      BY <1>1, <2>2, <2>3, <3>1, SendStep
    <3>3. Progress(c)
      BY <2>3, <3>1, <3>2 DEF Progress
    <3>4. (\A i \in DOMAIN got[c] : AnswerInv(got[c][i]))'
      BY <1>1, <2>3, AnswersKept
    <3>5. CallInv(c)'
      BY <1>1, <2>2, <3>1, <3>4 DEF CallInv, StoreSame
    <3> QED
      BY <1>1, <3>2, <3>3, <3>5, CallStep
  <2>4. CASE /\ Told(c, "none", {}, 0, {})
             /\ Goes(c, "answered")
             /\ UNCHANGED <<tries, sent, cached>>
    <3>1. /\ (\A i \in DOMAIN got[c] : AnswerInv(got[c][i]))'
          /\ \A d \in Calls \ {c} : got'[d] = got[d]
      BY <1>1, <1>2, <2>4, ToldStep
    <3>2. at'[c] = "answered" /\ \A d \in Calls \ {c} : at'[d] = at[d]
      BY <2>4 DEF Goes, TypeOK
    <3>3. Progress(c)
      BY <2>4, <3>1, <3>2 DEF Progress
    <3>4. CallInv(c)'
      BY <1>1, <3>1, <3>2 DEF CallInv
    <3> QED
      BY <1>1, <2>4, <3>3, <3>4, CallStep
  <2> QED
    BY <1>4, <2>1, <2>3, <2>4 DEF ResolveSiblingsAndPut, Content
<1>5. ASSUME NEW s \in r.contents, r.contents = {s}, NEW error,
             Answer(c, error, s.value, r.vclock)
      PROVE  ClientInv'
  <2>1. Content(r.contents) = s.value
    BY <1>5 DEF Content
  <2> QED
    BY <1>1, <1>5, <2>1, AnswerStep
<1>6. CASE r.contents = {} /\ Answer(c, "none", {}, 0)
  <2>1. Content(r.contents) = {}
    BY <1>6 DEF Content
  <2> QED
    BY <1>1, <1>2, <1>6, <2>1, AnswerStep
<1> QED
  BY <1>3, <1>4, <1>5, <1>6 DEF AcceptGetResponse

LEMMA AcceptResolutionInv ==
    ASSUME TypeOK, ClientInv, NEW c \in Calls, NEW r \in replies,
           r.call = c, r.no = tries[c], at[c] = "resolving", AcceptResolutionResponse(c, r),
           StoreSame, replies' \subseteq replies, known' = known, taken' = taken
    PROVE  ClientInv'
<1>1. /\ r.vclock \in 0..clock
      /\ r.contents # {} => Covers(r.vclock, Content(r.contents))
      /\ \A s : r.contents = {s} => s.value = cached[c]
      /\ known[c] \subseteq deleted \cup cached[c]
      /\ CallInv(c) /\ StoreInv /\ \A u \in taken' : Present(u)
  BY DEF ClientInv, ReplyInv, StoreInv, CallInv
<1>2. 0 \in 0..clock /\ \A value : Covers(0, value)
  BY <1>1, NothingCovered
<1>3. CASE Answer(c, "unparseable_response", {}, 0)
  BY <1>2, <1>3, AnswerStep
<1>4. CASE Single(r.contents) /\ Answer(c, "none", cached[c], r.vclock)
  <2>1. PICK s \in r.contents : r.contents = {s}
    BY <1>4 DEF Single
  <2>2. Content(r.contents) = cached[c]
    BY <1>1, <2>1 DEF Content
  <2>3. Covers(r.vclock, cached[c])
    BY <1>1, <2>1, <2>2
  <2> QED
    BY <1>1, <1>4, <2>3, AnswerStep
<1>5. CASE /\ Send(c, "get", {}, 0)
           /\ Goes(c, "getting")
           /\ UNCHANGED <<cached, got>>
  <2>1. at'[c] = "getting" /\ \A d \in Calls \ {c} : at'[d] = at[d]
    BY <1>5 DEF Goes, TypeOK
  <2>2. /\ \A q \in sent' : q \in sent \/ MessageInv(q)'
        /\ tries'[c] = tries[c] + 1
        /\ \A d \in Calls \ {c} : tries'[d] = tries[d]
    BY <1>2, <1>5, <2>1, SendStep
  <2>3. Progress(c)
    BY <1>5, <2>1, <2>2 DEF Progress
  <2>4. (\A i \in DOMAIN got[c] : AnswerInv(got[c][i]))'
    BY <1>1, <1>5, AnswersKept
  <2>5. CallInv(c)'
    BY <1>1, <2>1, <2>4 DEF CallInv
  <2> QED
    BY <1>1, <2>2, <2>3, <2>5, CallStep
<1> QED
  BY <1>3, <1>4, <1>5 DEF AcceptResolutionResponse

LEMMA ReceiveInv ==
    ASSUME TypeOK, ClientInv, NEW c \in Calls, NEW r \in replies, Receive(c, r)
    PROVE  ClientInv'
<1>1. /\ r.call = c /\ r.no = tries[c]
      /\ StoreSame /\ replies' \subseteq replies /\ known' = known
  BY DEF Receive, StoreSame
<1>2. CASE at[c] = "getting" /\ AcceptGetResponse(c, r) /\ UNCHANGED <<done, taken>>
  BY <1>1, <1>2, AcceptGetInv
<1>3. CASE at[c] = "resolving" /\ AcceptResolutionResponse(c, r) /\ UNCHANGED <<done, taken>>
  BY <1>1, <1>3, AcceptResolutionInv
<1>4. CASE /\ at[c] \in {"putting", "deleting"}
           /\ Conclude(c, IF r.parses THEN "none" ELSE "unparseable_response")
  <2>1. c \notin Deletes => Present(c)
    BY <1>1, <1>4 DEF ClientInv, CallInv, ReplyInv
  <2> QED
    BY <1>1, <1>4, <2>1, ConcludeStep
<1> QED
  BY <1>2, <1>3, <1>4 DEF Receive

LEMMA FailInv ==
    ASSUME TypeOK, ClientInv, NEW c \in Calls, Fail(c)
    PROVE  ClientInv'
<1>1. StoreSame /\ replies' = replies /\ known' = known
  BY DEF Fail, StoreSame
<1>2. 0 \in 0..clock /\ \A value : Covers(0, value)
  BY NothingCovered DEF ClientInv
<1>3. CASE Answer(c, "network", {}, None) /\ UNCHANGED <<done, taken>>
  BY <1>1, <1>3, AnswerStep
<1>4. CASE Answer(c, "network", {}, 0) /\ UNCHANGED <<done, taken>>
  BY <1>1, <1>2, <1>4, AnswerStep
<1>5. CASE Conclude(c, "network")
  BY <1>1, <1>5, ConcludeStep
<1> QED
  BY <1>3, <1>4, <1>5 DEF Fail

LEMMA LateTimeoutInv ==
    ASSUME TypeOK, ClientInv, NEW c \in Calls, LateTimeout(c)
    PROVE  ClientInv'
<1>1. /\ StoreSame /\ UNCHANGED <<at, tries, cached, known, sent, replies, taken>>
      /\ CallInv(c) /\ StoreInv /\ \A u \in taken' : Present(u)
  BY DEF LateTimeout, StoreSame, ClientInv, StoreInv
<1>2. 0 \in 0..clock /\ \A value : Covers(0, value)
  BY NothingCovered DEF ClientInv
<1>3. /\ (\A i \in DOMAIN got[c] : AnswerInv(got[c][i]))'
      /\ \A d \in Calls \ {c} : got'[d] = got[d]
  <2>1. CASE Told(c, "network", {}, None, {})
    BY <1>1, <2>1, ToldStep
  <2>2. CASE Told(c, "network", {}, 0, {})
    BY <1>1, <1>2, <2>2, ToldStep
  <2>3. CASE UNCHANGED got
    BY <1>1, <2>3, AnswersKept
  <2> QED
    BY <2>1, <2>2, <2>3 DEF LateTimeout
<1>4. Progress(c)
  BY <1>1, <1>3 DEF Progress
<1>5. CallInv(c)'
  BY <1>1, <1>3 DEF CallInv, StoreSame
<1> QED
  BY <1>1, <1>4, <1>5, CallStep

-----------------------------------------------------------------------------
(***************************************************************************)
(* Steps of the store leave the calls alone.  What a vector clock covers   *)
(* only shrinks, and what is present stays so.                             *)
(***************************************************************************)
StoreGrows ==
    /\ clock \in 0..clock'
    /\ clock' \in Nat
    /\ \A s \in stored' : s.number \in 1..clock'
    /\ \A v \in 0..clock : \A value : Covers(v, value) => Covers(v, value)'
    /\ \A u : Present(u) => Present(u)'
    /\ deleted \subseteq deleted'

LEMMA StoreStep ==
    ASSUME TypeOK, ClientInv, StoreGrows, UNCHANGED <<at, tries, cached, got, known>>,
           sent' \subseteq sent, taken \subseteq taken', \A u \in taken' : Present(u)',
           \A r \in replies' : r \in replies \/ ReplyInv(r)'
    PROVE  ClientInv'
<1>1. StoreInv'
  BY DEF StoreInv, StoreGrows
<1>2. clock \in Nat /\ 0..clock \subseteq 0..clock'
  BY ClientAssumption DEF StoreGrows, TypeOK, Clocks
<1>3. \A v \in 0..clock : v \in 0..clock'
  BY <1>2
<1>4. ASSUME NEW q \in sent'
      PROVE  MessageInv(q)'
  <2>1. MessageInv(q)
    BY DEF ClientInv
  <2> QED
    BY <1>3, <2>1 DEF MessageInv, StoreGrows
<1>5. ASSUME NEW r \in replies'
      PROVE  ReplyInv(r)'
  <2>1. CASE r \in replies
    <3>1. ReplyInv(r)
      BY <2>1 DEF ClientInv
    <3>2. /\ r.vclock \in 0..clock'
          /\ r.contents # {} => Covers(r.vclock, Content(r.contents))'
          /\ Present(r.call) => Present(r.call)'
      BY <1>3, <3>1 DEF ReplyInv, StoreGrows, Content
    <3> QED
      BY <3>1, <3>2 DEF ReplyInv, StoreGrows, Content
  <2> QED
    BY <2>1
<1>6. ASSUME NEW c \in Calls
      PROVE  CallInv(c)'
  <2>1. CallInv(c)
    BY DEF ClientInv
  <2>2. \A a : AnswerInv(a) => AnswerInv(a)'
    BY <1>3 DEF AnswerInv, StoreGrows
  <2> QED
    BY <2>1, <2>2 DEF CallInv, StoreGrows
<1> QED
  BY <1>1, <1>4, <1>5, <1>6 DEF ClientInv

LEMMA WriteGrows ==
    ASSUME TypeOK, StoreInv, NEW value, NEW vclock \in 0..clock, Covers(vclock, value),
           stored' = Write(value, vclock), clock' = clock + 1, deleted' = deleted
    PROVE  StoreGrows /\ \A u \in value : Present(u)'
<1>1. clock \in Nat
  BY ClientAssumption DEF TypeOK, Clocks
<1>2. PICK new : new = [number |-> clock + 1, value |-> value]
  OBVIOUS
<1>3. stored' = {s \in stored : s.number > vclock} \cup {new}
  BY <1>2 DEF Write
<1>4. new.number = clock + 1 /\ new.value = value /\ new \in stored'
  BY <1>2, <1>3
<1>5. \A s \in stored' : s.number \in 1..clock'
  BY <1>1, <1>3, <1>4 DEF StoreInv
<1>6. ASSUME NEW v \in 0..clock, NEW w, Covers(v, w)
      PROVE  Covers(v, w)'
  <2>1. ~(new.number <= v)
    BY <1>1, <1>4
  <2> QED
    BY <1>3, <1>6, <2>1 DEF Covers
<1>7. \A u \in value : Present(u)'
  BY <1>4 DEF Present
<1>8. ASSUME NEW u, Present(u)
      PROVE  Present(u)'
  <2>1. CASE u \in deleted
    BY <2>1 DEF Present
  <2>2. ASSUME NEW s \in stored, u \in s.value
        PROVE  Present(u)'
    <3>1. CASE s.number <= vclock
      BY <1>7, <2>2, <3>1 DEF Covers
    <3>2. CASE s.number > vclock
      BY <1>3, <2>2, <3>2 DEF Present
    <3>3. s.number \in Int /\ vclock \in Int
      BY <1>1 DEF StoreInv
    <3> QED
      BY <3>1, <3>2, <3>3
  <2> QED
    BY <1>8, <2>1, <2>2 DEF Present
<1> QED
  BY <1>1, <1>5, <1>6, <1>7, <1>8 DEF StoreGrows

\* All outcomes of a Reply keep what the reply needs; one that lost its vclock covers
\* nothing.
LEMMA ReplyStep ==
    ASSUME TypeOK, StoreGrows, NEW q \in sent, MessageInv(q), NEW contents, NEW vclock,
           UNCHANGED <<at, tries, cached, known>>, Reply(q, contents, vclock),
           vclock \in 0..clock',
           contents # {} => Covers(vclock, Content(contents))',
           q.no = tries[q.call] =>
              /\ at[q.call] = "getting" =>
                    known[q.call] \subseteq deleted' \cup Content(contents)
              /\ at[q.call] = "resolving" =>
                    \A s : contents = {s} => s.value = cached[q.call]
              /\ at[q.call] = "putting" => Present(q.call)'
    PROVE  \A r \in replies' : r \in replies \/ ReplyInv(r)'
<1> SUFFICES ASSUME NEW r \in replies', r \notin replies
             PROVE  ReplyInv(r)'
  OBVIOUS
<1>1. PICK reply : reply = [call |-> q.call, no |-> q.no, parses |-> TRUE,
                            contents |-> contents, vclock |-> vclock]
  OBVIOUS
<1>2. /\ r \in {reply, [reply EXCEPT !.parses = FALSE], [reply EXCEPT !.vclock = 0]}
  BY <1>1 DEF Reply
<1>3. /\ r.call = q.call /\ r.no = q.no /\ r.contents = contents
      /\ r.vclock = vclock \/ r.vclock = 0
  BY <1>1, <1>2
<1>4. q.no <= tries[q.call]
  BY DEF MessageInv
<1>5. \A w : Covers(0, w)'
  BY DEF StoreGrows, Covers
<1>6. r.vclock \in 0..clock'
  BY <1>3 DEF StoreGrows
<1>7. r.contents # {} => Covers(r.vclock, Content(r.contents))'
  BY <1>3, <1>5 DEF Content, Covers
<1> QED
  BY <1>3, <1>4, <1>6, <1>7 DEF ReplyInv, Content, Present

LEMMA StoreInvStep ==
    ASSUME TypeOK, ClientInv, NEW q \in sent, StoreTakes(q)
    PROVE  ClientInv'
<1>1. /\ UNCHANGED <<at, tries, cached, got, known, taken>> /\ sent' \subseteq sent
      /\ MessageInv(q) /\ StoreInv /\ CallInv(q.call) /\ q.call \in Calls
      /\ \A u \in taken : Present(u)
  BY MessageTypes DEF StoreTakes, ClientInv, StoreInv
<1>2. clock \in Nat
  BY ClientAssumption DEF TypeOK, Clocks
<1>3. ASSUME StoreGrows, \A r \in replies' : r \in replies \/ ReplyInv(r)'
      PROVE  ClientInv'
  BY <1>1, <1>3, StoreStep DEF StoreGrows
<1>4. CASE q.op = "get" /\ Reply(q, stored, clock) /\ UNCHANGED <<stored, clock, deleted>>
  <2>1. StoreGrows
    BY <1>1, <1>2, <1>4 DEF StoreGrows, StoreInv, Covers, Present
  <2>2. clock \in 0..clock' /\ Covers(clock, Content(stored))'
    BY <1>2, <1>4 DEF Covers, Content
  <2>3. known[q.call] \subseteq deleted' \cup Content(stored)
    BY <1>1, <1>4 DEF CallInv, Present, Content
  <2>4. q.no = tries[q.call] => at[q.call] \notin {"resolving", "putting"}
    BY <1>1, <1>4 DEF MessageInv
  <2>5. \A r \in replies' : r \in replies \/ ReplyInv(r)'
    BY <1>1, <1>4, <2>1, <2>2, <2>3, <2>4, ReplyStep
  <2> QED
    BY <1>3, <2>1, <2>5
<1>5. CASE /\ q.op \in {"put", "resolve"}
           /\ stored' = Write(q.value, q.vclock)
           /\ clock' = clock + 1
           /\ Reply(q, IF q.op = "resolve" THEN stored' ELSE {}, clock')
           /\ UNCHANGED deleted
  <2>1. StoreGrows /\ \A u \in q.value : Present(u)'
    BY <1>1, <1>5, WriteGrows DEF MessageInv
  <2>2. PICK contents : contents = IF q.op = "resolve" THEN stored' ELSE {}
    OBVIOUS
  <2>3. PICK vclock : vclock = clock'
    OBVIOUS
  <2>4. /\ vclock \in 0..clock'
        /\ contents # {} => Covers(vclock, Content(contents))'
    BY <2>1, <2>2, <2>3 DEF StoreGrows, Covers, Content
  <2>5. [number |-> clock + 1, value |-> q.value] \in stored'
    BY <1>5 DEF Write
  <2>6. \A s : contents = {s} => s.value = q.value
    BY <2>2, <2>5
  <2>7. q.no = tries[q.call] =>
           /\ at[q.call] # "getting"
           /\ at[q.call] = "resolving" => q.value = cached[q.call]
           /\ at[q.call] = "putting" => q.call \in q.value
    BY <1>1, <1>5 DEF MessageInv
  <2>8. q.no = tries[q.call] =>
           /\ at[q.call] = "resolving" => \A s : contents = {s} => s.value = cached[q.call]
           /\ at[q.call] = "putting" => Present(q.call)'
    BY <2>1, <2>6, <2>7
  <2>9. Reply(q, contents, vclock)
    BY <1>5, <2>2, <2>3
  <2>10. \A r \in replies' : r \in replies \/ ReplyInv(r)'
    BY <1>1, <2>1, <2>4, <2>7, <2>8, <2>9, ReplyStep
  <2> QED
    BY <1>3, <2>1, <2>10
<1>6. CASE /\ q.op = "delete"
           /\ stored' = {}
           /\ deleted' = deleted \cup UNION {s.value : s \in stored}
           /\ Reply(q, {}, 0)
           /\ UNCHANGED clock
  <2>1. StoreGrows
    BY <1>2, <1>6 DEF StoreGrows, Covers, Present
  <2>2. q.no = tries[q.call] => at[q.call] \notin {"getting", "resolving", "putting"}
    BY <1>1, <1>6 DEF MessageInv
  <2>3. 0 \in 0..clock'
    BY <1>2, <1>6
  <2>4. \A r \in replies' : r \in replies \/ ReplyInv(r)'
    BY <1>1, <1>6, <2>1, <2>2, <2>3, ReplyStep
  <2> QED
    BY <1>3, <2>1, <2>4
<1> QED
  BY <1>4, <1>5, <1>6 DEF StoreTakes

LEMMA OthersInv ==
    ASSUME TypeOK, ClientInv, NEW u \in Others, OthersPut(u)
    PROVE  ClientInv'
<1>1. PICK vclock \in 0..clock :
         stored' = Write({u} \cup UNION {s.value : s \in {s \in stored : s.number <= vclock}},
                         vclock)
  BY DEF OthersPut
<1>2. PICK value : value = {u} \cup UNION {s.value : s \in {s \in stored : s.number <= vclock}}
  OBVIOUS
<1>3. /\ UNCHANGED <<at, tries, cached, got, known, sent, replies, deleted>>
      /\ clock' = clock + 1 /\ taken' = taken \cup {u} /\ stored' = Write(value, vclock)
      /\ StoreInv /\ \A v \in taken : Present(v)
  BY <1>1, <1>2 DEF OthersPut, ClientInv, StoreInv
<1>4. Covers(vclock, value) /\ u \in value
  BY <1>2 DEF Covers
<1>5. StoreGrows /\ Present(u)'
  BY <1>3, <1>4, WriteGrows
<1>6. \A v \in taken' : Present(v)'
  BY <1>3, <1>5 DEF StoreGrows
<1> QED
  BY <1>3, <1>5, <1>6, StoreStep

\* ClientInv holds always: of the calls, of other clients' writes, and of what the network
\* does to messages, no step separates a vector clock from what it covers.
THEOREM ClientInvariant == Spec => [](TypeOK /\ ClientInv)
<1>1. Init => ClientInv
  BY ClientAssumption, LenProperties, EmptySeq
     DEF Init, ClientInv, StoreInv, CallInv, Present
<1>2. TypeOK /\ ClientInv /\ [Next]_vars => ClientInv'
  <2> SUFFICES ASSUME TypeOK, ClientInv, [Next]_vars
               PROVE  ClientInv'
    OBVIOUS
  <2>1. CASE UNCHANGED vars
    BY <2>1 DEF vars, ClientInv, StoreInv, MessageInv, ReplyInv, AnswerInv, CallInv,
                Content, Covers, Present
  <2>2. ASSUME NEW c \in Calls, GetObject(c) \/ DeleteObject(c) \/ Update(c)
        PROVE  ClientInv'
    BY <2>2, BeginInv
  <2>3. ASSUME NEW c \in Calls, Handle(c)
        PROVE  ClientInv'
    BY <2>3, ReceiveInv DEF Handle
  <2>4. ASSUME NEW c \in Calls, Fail(c)
        PROVE  ClientInv'
    BY <2>4, FailInv
  <2>5. ASSUME NEW c \in Calls, LateTimeout(c)
        PROVE  ClientInv'
    BY <2>5, LateTimeoutInv
  <2>6. CASE Store
    BY <2>6, StoreInvStep DEF Store
  <2>7. ASSUME NEW u \in Others, OthersPut(u)
        PROVE  ClientInv'
    BY <2>7, OthersInv
  <2> QED
    BY <2>1, <2>2, <2>3, <2>4, <2>5, <2>6, <2>7 DEF Next
<1> QED
  BY <1>1, <1>2, ClientTypeCorrect, PTL DEF Spec

\* No acknowledged update is lost, for any number of calls, deletes, other writers and
\* failures.
THEOREM NoUpdateIsLost == Spec => []NoLostUpdate
<1>1. ClientInv => NoLostUpdate
  BY DEF ClientInv, StoreInv, Present, NoLostUpdate
<1> QED
  BY <1>1, ClientInvariant, PTL

\* A get that succeeds returns all that was acknowledged before it was called.
THEOREM GetsReadWhatWasTaken == Spec => []ReadsWhatWasTaken
<1>1. ClientInv => ReadsWhatWasTaken
  BY DEF ClientInv, CallInv, AnswerInv, ReadsWhatWasTaken
<1> QED
  BY <1>1, ClientInvariant, PTL

\* What an updater or a message will replace in the store is contained in what it puts.
THEOREM PutsCover == Spec => []PutsCoverWhatTheyReplace
<1>1. ClientInv => PutsCoverWhatTheyReplace
  BY DEF ClientInv, CallInv, MessageInv, AnswerInv, Covers, PutsCoverWhatTheyReplace
<1> QED
  BY <1>1, ClientInvariant, PTL
=============================================================================
