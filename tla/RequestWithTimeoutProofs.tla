---------------------- MODULE RequestWithTimeoutProofs ----------------------
(***************************************************************************)
(* Theorems about RequestWithTimeout for any set of workers, any           *)
(* dispatching thread and any number of responses: its variables have      *)
(* their types, an answered request has let go of the connection, and one  *)
(* that is not answered is timed.                                          *)
(***************************************************************************)
EXTENDS RequestWithTimeout, SequenceTheorems, TLAPS

-----------------------------------------------------------------------------
LEMMA FrameFields ==
    /\ Idle \in Frames
    /\ \A what \in Responses : <<"on_response", what>> \in Frames
    /\ \A ending \in Endings : <<"on_timeout", ending>> \in Frames
BY DEF Frames

LEMMA FrameUpdate ==
    ASSUME NEW w, NEW f \in Frames, frame \in [Workers -> Frames]
    PROVE  [frame EXCEPT ![w] = f] \in [Workers -> Frames]
OBVIOUS

LEMMA UnarmedType ==
    ASSUME fired \in Seq(Endings)
    PROVE  Unarmed \in Seq(Endings)
<1>1. Append(fired, "aborted") \in Seq(Endings)
  BY AppendProperties DEF Endings
<1> QED
  BY <1>1 DEF Unarmed

LEMMA AnswersType ==
    ASSUME answers \in Seq(Answers)
    PROVE  \A a \in Answers : Append(answers, a) \in Seq(Answers)
BY AppendProperties

-----------------------------------------------------------------------------
LEMMA NextType ==
    ASSUME TypeOK, [Next]_vars
    PROVE  TypeOK'
<1> USE DEF TypeOK
<1>1. CASE Dispatch
  BY <1>1, UnarmedType DEF Dispatch, Deliver, AssignOption, ArmTimer
<1>2. CASE Expire
  <2>1. Append(fired, "expired") \in Seq(Endings)
    BY AppendProperties DEF Endings
  <2> QED
    BY <1>2, <2>1 DEF Expire
<1>3. ASSUME NEW w \in Workers, NEW what \in Responses, BeginResponse(w, what)
      PROVE  TypeOK'
  <2>1. <<"on_response", what>> \in Frames
    BY FrameFields
  <2>2. frame' \in [Workers -> Frames]
    BY <1>3, <2>1, FrameUpdate DEF BeginResponse
  <2>3. responses' \in 0..MaxResponses
    BY <1>3, RequestAssumption DEF BeginResponse
  <2> QED
    BY <1>3, <2>2, <2>3 DEF BeginResponse
<1>4. ASSUME NEW w \in Workers, Handles(w)
      PROVE  TypeOK'
  <2>1. Unarmed \in Seq(Endings) /\ [frame EXCEPT ![w] = Idle] \in [Workers -> Frames]
    BY UnarmedType, FrameFields, FrameUpdate
  <2>2. \A a \in Answers : Append(answers, a) \in Seq(Answers)
    BY AnswersType
  <2>3. {"partial", "complete", "failed", "timeout"} \subseteq Answers
    BY DEF Answers, Responses
  <2>4. CASE OnPartial(w)
    BY <2>1, <2>2, <2>3, <2>4 DEF OnPartial
  <2>5. CASE OnComplete(w)
    BY <2>1, <2>2, <2>3, <2>5 DEF OnComplete, Terminate
  <2>6. CASE OnError(w)
    BY <2>1, <2>2, <2>3, <2>6 DEF OnError, Terminate
  <2>7. CASE BeginTimeout(w)
    <3>1. Head(fired) \in Endings /\ Tail(fired) \in Seq(Endings)
      BY <2>7, HeadTailProperties DEF BeginTimeout
    <3>2. <<"on_timeout", Head(fired)>> \in Frames
      BY <3>1, FrameFields
    <3>3. frame' \in [Workers -> Frames]
      BY <2>7, <3>2, FrameUpdate DEF BeginTimeout
    <3> QED
      BY <2>7, <3>1, <3>3 DEF BeginTimeout
  <2>8. CASE OnTimeout(w)
    BY <2>1, <2>2, <2>3, <2>8 DEF OnTimeout
  <2>9. CASE OnTimeoutCancelled(w)
    BY <2>1, <2>9 DEF OnTimeoutCancelled
  <2> QED
    BY <1>4, <2>4, <2>5, <2>6, <2>7, <2>8, <2>9 DEF Handles
<1>5. CASE UNCHANGED vars
  BY <1>5 DEF vars
<1> QED
  BY <1>1, <1>2, <1>3, <1>4, <1>5 DEF Next, Responds

\* Every variable always has its type.
THEOREM RequestTypeCorrect == Spec => []TypeOK
<1>1. Init => TypeOK
  <2> SUFFICES ASSUME Init
               PROVE  TypeOK
    OBVIOUS
  <2>1. <<>> \in Seq(Endings) /\ <<>> \in Seq(Answers)
    OBVIOUS
  <2>2. frame \in [Workers -> Frames]
    BY FrameFields DEF Init
  <2>3. fired \in Seq(Endings) /\ answers \in Seq(Answers)
    BY <2>1 DEF Init
  <2>4. responses \in 0..MaxResponses
    BY RequestAssumption DEF Init
  <2> QED
    BY <2>2, <2>3, <2>4 DEF Init, TypeOK
<1> QED
  BY <1>1, NextType, PTL DEF Spec

-----------------------------------------------------------------------------
(***************************************************************************)
(* The properties follow from two facts.  Before dispatch_via has assigned *)
(* the option nothing else can have happened; and after that the option    *)
(* was never let go of without the transport being told.  With these, a    *)
(* timeout counts as an answer, and an answer ends the request.            *)
(***************************************************************************)
Untouched ==
    /\ ~terminate_request
    /\ terminated = "no"
    /\ ~armed
    /\ fired = <<>>
    /\ frame = [w \in Workers |-> Idle]
    /\ answers = <<>>
    /\ ~timed_out

Inv ==
    Running =>
        /\ dispatch \in {"new", "delivered"} => Untouched
        /\ dispatch \in {"assigned", "done"} => terminate_request \/ terminated # "no"
        /\ timed_out => Answered
        /\ Answered => terminated # "no" /\ ~terminate_request

LEMMA AnsweredGrows ==
    ASSUME answers \in Seq(Answers), NEW a \in Answers, answers' = Append(answers, a)
    PROVE  Answered' <=> Answered \/ a \in Final
<1>1. /\ Len(answers) \in Nat /\ DOMAIN answers = 1..Len(answers)
      /\ DOMAIN answers' = 1..(Len(answers) + 1)
      /\ \A i \in 1..Len(answers) : answers'[i] = answers[i]
      /\ answers'[Len(answers) + 1] = a
  BY AppendProperties, LenProperties
<1> QED
  BY <1>1 DEF Answered

LEMMA NextInv ==
    ASSUME TypeOK, Inv, [Next]_vars
    PROVE  Inv'
<1> USE DEF Inv, TypeOK, Running
<1>1. CASE UNCHANGED answers
  <2>1. Answered' <=> Answered
    BY <1>1 DEF Answered
  <2>2. CASE Dispatch
    BY <1>1, <2>1, <2>2 DEF Dispatch, Deliver, AssignOption, ArmTimer, Untouched, Answered
  <2>3. CASE Expire
    BY <1>1, <2>1, <2>3 DEF Expire, Untouched
  <2>4. ASSUME NEW w \in Workers, Responds(w)
        PROVE  Inv'
    BY <1>1, <2>1, <2>4 DEF Responds, BeginResponse, Untouched
  <2>5. ASSUME NEW w \in Workers, Handles(w)
        PROVE  Inv'
    <3>1. CASE BeginTimeout(w)
      BY <1>1, <2>1, <3>1 DEF BeginTimeout, Untouched
    <3>2. CASE OnTimeoutCancelled(w)
      BY <1>1, <2>1, <3>2 DEF OnTimeoutCancelled, Untouched, Idle
    <3>3. CASE OnError(w)
      BY <1>1, <2>1, <3>3 DEF OnError, Terminate, Untouched, Idle
    <3>4. ASSUME NEW a \in Answers, answers' = Append(answers, a)
          PROVE  FALSE
      BY <1>1, <3>4, AppendProperties, LenProperties
    <3>5. {"partial", "complete", "timeout"} \subseteq Answers
      BY DEF Answers, Responses
    <3> QED
      BY <2>5, <3>1, <3>2, <3>3, <3>4, <3>5 DEF Handles, OnPartial, OnComplete, OnTimeout
  <2>6. CASE UNCHANGED vars
    BY <2>1, <2>6 DEF vars, Untouched
  <2> QED
    BY <2>2, <2>3, <2>4, <2>5, <2>6 DEF Next
<1>2. CASE answers' # answers
  <2>1. PICK w \in Workers : OnPartial(w) \/ OnComplete(w) \/ OnError(w) \/ OnTimeout(w)
    BY <1>2 DEF Next, Dispatch, Deliver, AssignOption, ArmTimer, Expire, Responds,
                BeginResponse, Handles, BeginTimeout, OnTimeoutCancelled, vars
  <2>2. dispatch \notin {"new", "delivered"}
    BY <2>1 DEF OnPartial, OnComplete, OnError, OnTimeout, Untouched, Idle
  <2>3. dispatch' = dispatch
    BY <2>1 DEF OnPartial, OnComplete, OnError, OnTimeout
  <2>4. {"partial", "complete", "failed", "timeout"} \subseteq Answers
    BY DEF Answers, Responses
  <2>5. CASE OnPartial(w)
    <3>1. Answered' <=> Answered
      BY <2>4, <2>5, AnsweredGrows DEF OnPartial, Final
    <3> QED
      BY <2>2, <2>3, <2>5, <3>1 DEF OnPartial
  <2>6. CASE OnComplete(w)
    BY <2>2, <2>3, <2>6 DEF OnComplete, Terminate
  <2>7. CASE OnError(w)
    <3>1. Answered'
      BY <1>2, <2>4, <2>7, AnsweredGrows DEF OnError, Final
    <3> QED
      BY <2>2, <2>3, <2>7, <3>1 DEF OnError, Terminate
  <2>8. CASE OnTimeout(w)
    <3>1. Answered'
      BY <2>4, <2>8, AnsweredGrows DEF OnTimeout, Final
    <3> QED
      BY <2>2, <2>3, <2>8, <3>1 DEF OnTimeout
  <2> QED
    BY <2>1, <2>5, <2>6, <2>7, <2>8
<1> QED
  BY <1>1, <1>2

\* The two facts above hold in every state of a request that no fault has ended.
THEOREM RequestInvariant == Spec => []Inv
<1>1. Init => Inv
  BY DEF Init, Inv, Untouched, Answered
<1> QED
  BY <1>1, NextInv, RequestTypeCorrect, PTL DEF Spec

\* With its answer, be it the timeout, a request has let go of the connection.
THEOREM AnsweredIsReleased == Spec => []ReleasedOnceAnswered
<1>1. Inv => ReleasedOnceAnswered
  BY DEF Inv, ReleasedOnceAnswered
<1> QED
  BY <1>1, RequestInvariant, PTL

-----------------------------------------------------------------------------
\* The handlers of a timer that are queued, by what they will be told.
Expired(q) == \E i \in DOMAIN q : q[i] = "expired"

LEMMA ExpiredGrows ==
    ASSUME NEW q \in Seq(Endings), NEW e \in Endings
    PROVE  Expired(Append(q, e)) <=> Expired(q) \/ e = "expired"
<1>1. /\ Len(q) \in Nat /\ DOMAIN q = 1..Len(q)
      /\ DOMAIN Append(q, e) = 1..(Len(q) + 1)
      /\ \A i \in 1..Len(q) : Append(q, e)[i] = q[i]
      /\ Append(q, e)[Len(q) + 1] = e
  BY AppendProperties, LenProperties
<1>2. Expired(q) => Expired(Append(q, e))
  BY <1>1 DEF Expired
<1>3. Expired(Append(q, e)) => Expired(q) \/ e = "expired"
  BY <1>1 DEF Expired
<1>4. e = "expired" => Expired(Append(q, e))
  BY <1>1 DEF Expired
<1> QED
  BY <1>2, <1>3, <1>4

LEMMA ExpiredShrinks ==
    ASSUME NEW q \in Seq(Endings), q # <<>>, Expired(q), Head(q) # "expired"
    PROVE  Expired(Tail(q))
<1>1. PICK i \in DOMAIN q : q[i] = "expired"
  BY DEF Expired
<1>2. /\ Len(q) \in Nat /\ DOMAIN q = 1..Len(q) /\ Head(q) = q[1]
      /\ DOMAIN Tail(q) = 1..(Len(q) - 1)
      /\ \A j \in 1..(Len(q) - 1) : Tail(q)[j] = q[j + 1]
  BY HeadTailProperties, LenProperties, EmptySeq
<1>3. i - 1 \in DOMAIN Tail(q) /\ Tail(q)[i - 1] = "expired"
  BY <1>1, <1>2
<1> QED
  BY <1>3 DEF Expired

LEMMA NextSilence ==
    ASSUME TypeOK, Inv, SilenceIsTimed, [Next]_vars
    PROVE  SilenceIsTimed'
<1> DEFINE Handling == \E w \in Workers : frame[w] = <<"on_timeout", "expired">>
<1>1. SUFFICES ASSUME dispatch' = "done", ~Answered', Running'
               PROVE  armed' \/ Expired(fired') \/ Handling'
  BY DEF SilenceIsTimed, Expired
<1>2. /\ fired \in Seq(Endings) /\ answers \in Seq(Answers)
      /\ frame \in [Workers -> Frames]
  BY DEF TypeOK
<1>3. ASSUME dispatch = "done", ~Answered, Running
      PROVE  armed \/ Expired(fired) \/ Handling
  BY <1>3 DEF SilenceIsTimed, Expired
<1>4. CASE Dispatch
  BY <1>1, <1>4 DEF Dispatch, Deliver, AssignOption, ArmTimer
<1>5. CASE Expire
  BY <1>2, <1>5, ExpiredGrows DEF Expire, Endings
<1>6. ASSUME NEW w \in Workers, Responds(w)
      PROVE  armed' \/ Expired(fired') \/ Handling'
  <2>1. PICK what : frame' = [frame EXCEPT ![w] = <<"on_response", what>>]
    BY <1>1, <1>6 DEF Responds, BeginResponse, Running
  <2>2. frame[w] = Idle /\ Running /\ UNCHANGED <<dispatch, answers, armed, fired>>
    BY <1>6 DEF Responds, BeginResponse, Available
  <2>3. Handling => Handling'
    BY <1>2, <2>1, <2>2 DEF Idle
  <2> QED
    BY <1>1, <1>3, <2>2, <2>3 DEF Answered
<1>7. ASSUME NEW w \in Workers, Handles(w)
      PROVE  armed' \/ Expired(fired') \/ Handling'
  <2>1. Running /\ dispatch = "done"
    BY <1>1, <1>7 DEF Handles, OnPartial, OnComplete, OnError, BeginTimeout, OnTimeout,
                      OnTimeoutCancelled
  <2>2. {"partial", "complete", "failed", "timeout"} \subseteq Answers
    BY DEF Answers, Responses
  <2>3. CASE OnPartial(w)
    BY <2>3 DEF OnPartial
  <2>4. CASE OnComplete(w)
    BY <1>1, <1>2, <2>2, <2>4, AnsweredGrows DEF OnComplete, Final
  <2>5. CASE OnError(w)
    <3>1. CASE timed_out
      BY <1>1, <2>1, <2>5, <3>1 DEF OnError, Inv, Answered
    <3>2. CASE ~timed_out /\ terminate_request
      BY <1>1, <1>2, <2>2, <2>5, <3>2, AnsweredGrows DEF OnError, Final
    <3>3. CASE ~terminate_request
      BY <1>1, <2>5, <3>3 DEF OnError, Terminate, Running
    <3> QED
      BY <3>1, <3>2, <3>3
  <2>6. CASE BeginTimeout(w)
    <3>1. /\ frame[w] = Idle /\ fired # <<>> /\ fired' = Tail(fired)
          /\ frame' = [frame EXCEPT ![w] = <<"on_timeout", Head(fired)>>]
          /\ UNCHANGED <<answers, armed>>
      BY <1>1, <2>6 DEF BeginTimeout, Available, Running
    <3>2. Handling => Handling'
      BY <1>2, <3>1 DEF Idle
    <3>3. CASE Head(fired) = "expired"
      BY <1>2, <3>1, <3>3
    <3>4. CASE Head(fired) # "expired"
      BY <1>1, <1>2, <1>3, <2>1, <3>1, <3>2, <3>4, ExpiredShrinks DEF Answered
    <3> QED
      BY <3>3, <3>4
  <2>7. CASE OnTimeout(w)
    BY <1>1, <1>2, <2>2, <2>7, AnsweredGrows DEF OnTimeout, Final
  <2>8. CASE OnTimeoutCancelled(w)
    <3>1. Handling => Handling'
      BY <1>2, <2>8 DEF OnTimeoutCancelled
    <3> QED
      BY <1>1, <1>3, <2>1, <2>8, <3>1 DEF OnTimeoutCancelled, Answered
  <2> QED
    BY <1>7, <2>3, <2>4, <2>5, <2>6, <2>7, <2>8 DEF Handles
<1>8. CASE UNCHANGED vars
  <2>1. UNCHANGED <<dispatch, answers, armed, fired, frame, fault>>
    BY <1>8 DEF vars
  <2> QED
    BY <1>1, <1>3, <2>1 DEF Answered, Running
<1> QED
  BY <1>4, <1>5, <1>6, <1>7, <1>8 DEF Next

\* Until it is answered, a dispatched request always has its timer running, or the
\* handler of an expiry to run or at work.
THEOREM SilenceAlwaysTimed == Spec => []SilenceIsTimed
<1>1. Init => SilenceIsTimed
  BY DEF Init, SilenceIsTimed
<1> QED
  BY <1>1, NextSilence, RequestInvariant, RequestTypeCorrect, PTL DEF Spec

-----------------------------------------------------------------------------
(***************************************************************************)
(* What goes wrong.  The three things an assertion or a handler may miss   *)
(* are gone only for a reason the callback has heard.                      *)
(***************************************************************************)
TimedOut == \E i \in DOMAIN answers : answers[i] = "timeout"

RaceInv ==
    /\ FaultsAreRaces
    /\ Running =>
        /\ succeeded => Answered
        /\ timed_out => TimedOut
        /\ dispatch \in {"assigned", "done"} /\ ~terminate_request => Answered

LEMMA AnswersGrow ==
    ASSUME TypeOK, NEW a \in Answers, answers' = Append(answers, a)
    PROVE  /\ Answered => Answered'
           /\ TimedOut => TimedOut'
           /\ a \in Final => Answered'
           /\ a = "timeout" => TimedOut'
<1>1. /\ Len(answers) \in Nat /\ DOMAIN answers = 1..Len(answers)
      /\ DOMAIN answers' = 1..(Len(answers) + 1)
      /\ \A i \in 1..Len(answers) : answers'[i] = answers[i]
      /\ answers'[Len(answers) + 1] = a
  BY AppendProperties, LenProperties DEF TypeOK
<1>2. Answered => Answered'
  BY <1>1 DEF Answered
<1>3. TimedOut => TimedOut'
  BY <1>1 DEF TimedOut
<1>4. Len(answers) + 1 \in DOMAIN answers'
  BY <1>1
<1>5. a \in Final => Answered'
  BY <1>1, <1>4 DEF Answered
<1>6. a = "timeout" => TimedOut'
  BY <1>1, <1>4 DEF TimedOut
<1> QED
  BY <1>2, <1>3, <1>5, <1>6

LEMMA NextRace ==
    ASSUME TypeOK, Inv, RaceInv, [Next]_vars
    PROVE  RaceInv'
<1> USE DEF RaceInv, Running
<1>1. CASE UNCHANGED vars
  BY <1>1 DEF vars, FaultsAreRaces, Answered, TimedOut
<1>2. CASE Running /\ UNCHANGED answers /\ Next
  <2>1. (Answered' <=> Answered) /\ (TimedOut' <=> TimedOut)
    BY <1>2 DEF Answered, TimedOut
  <2> DEFINE Known ==
        /\ fault' = "response_assertion" => dispatch' = "delivered" \/ Answered'
        /\ fault' = "timeout_assertion" => TimedOut'
        /\ fault' = "empty_option" => Answered'
  <2>2. SUFFICES /\ Known
                 /\ Running' =>
                      /\ succeeded' => Answered'
                      /\ timed_out' => TimedOut'
                      /\ dispatch' \in {"assigned", "done"} /\ ~terminate_request' => Answered'
    BY DEF FaultsAreRaces, TimedOut
  <2>3. CASE Dispatch
    BY <1>2, <2>1, <2>3 DEF Dispatch, Deliver, AssignOption, ArmTimer, Inv, Untouched
  <2>4. CASE Expire
    BY <1>2, <2>1, <2>4 DEF Expire
  <2>5. ASSUME NEW w \in Workers, Responds(w)
        PROVE  /\ Known
               /\ UNCHANGED <<succeeded, timed_out, dispatch, terminate_request>>
    <3>1. dispatch \in {"delivered", "assigned", "done"}
      BY <2>5 DEF Responds, BeginResponse, TypeOK
    <3> QED
      BY <1>2, <2>1, <2>5, <3>1 DEF Responds, BeginResponse
  <2>6. ASSUME NEW w \in Workers, BeginTimeout(w)
        PROVE  /\ Known
               /\ UNCHANGED <<succeeded, timed_out, dispatch, terminate_request>>
    BY <1>2, <2>1, <2>6 DEF BeginTimeout
  <2>7. ASSUME NEW w \in Workers, OnTimeoutCancelled(w)
        PROVE  /\ Known
               /\ ~timed_out'
               /\ UNCHANGED <<succeeded, dispatch, terminate_request>>
    BY <1>2, <2>1, <2>7 DEF OnTimeoutCancelled
  <2>8. ASSUME NEW w \in Workers, OnError(w)
        PROVE  /\ Answered
               /\ Known
               /\ UNCHANGED <<succeeded, timed_out, dispatch>>
    <3>1. dispatch \in {"assigned", "done"}
      BY <1>2, <2>8 DEF OnError, Inv, Untouched, Idle, TypeOK
    <3>2. answers # Append(answers, "failed")
      BY AppendProperties, LenProperties DEF TypeOK, Answers, Responses
    <3>3. timed_out \/ ~terminate_request
      BY <1>2, <2>8, <3>2 DEF OnError
    <3>4. Answered
      BY <1>2, <3>1, <3>3 DEF Inv
    <3> QED
      BY <1>2, <2>1, <2>8, <3>4 DEF OnError, Terminate
  <2>9. ASSUME NEW w \in Workers, Handles(w)
        PROVE  BeginTimeout(w) \/ OnTimeoutCancelled(w) \/ OnError(w)
    <3>1. \A a \in {"partial", "complete", "timeout"} : answers # Append(answers, a)
      BY AppendProperties, LenProperties DEF TypeOK, Answers, Responses
    <3> QED
      BY <1>2, <2>9, <3>1 DEF Handles, OnPartial, OnComplete, OnTimeout
  <2> QED
    BY <1>2, <2>1, <2>3, <2>4, <2>5, <2>6, <2>7, <2>8, <2>9 DEF Next
<1>3. CASE Running /\ answers' # answers /\ Next
  <2>1. PICK w \in Workers : OnPartial(w) \/ OnComplete(w) \/ OnError(w) \/ OnTimeout(w)
    BY <1>3 DEF Next, Dispatch, Deliver, AssignOption, ArmTimer, Expire, Responds,
                BeginResponse, Handles, BeginTimeout, OnTimeoutCancelled
  <2>2. {"partial", "complete", "failed", "timeout"} \subseteq Answers
    BY DEF Answers, Responses
  <2>3. CASE OnPartial(w)
    <3>1. (Answered => Answered') /\ (TimedOut => TimedOut')
      BY <2>2, <2>3, AnswersGrow DEF OnPartial
    <3> QED
      BY <1>3, <2>3, <3>1 DEF OnPartial, FaultsAreRaces
  <2>4. CASE OnComplete(w)
    <3>1. Answered' /\ (TimedOut => TimedOut')
      BY <2>2, <2>4, AnswersGrow DEF OnComplete, Final
    <3>2. fault' \in {"none", "empty_option"} /\ UNCHANGED timed_out
      BY <1>3, <2>4 DEF OnComplete, Terminate
    <3> QED
      BY <1>3, <3>1, <3>2 DEF FaultsAreRaces
  <2>5. CASE OnError(w)
    <3>1. Answered' /\ (TimedOut => TimedOut')
      BY <1>3, <2>2, <2>5, AnswersGrow DEF OnError, Final
    <3>2. fault' \in {"none", "empty_option"} /\ UNCHANGED timed_out
      BY <1>3, <2>5 DEF OnError, Terminate
    <3> QED
      BY <1>3, <3>1, <3>2 DEF FaultsAreRaces
  <2>6. CASE OnTimeout(w)
    <3>1. Answered' /\ TimedOut'
      BY <2>2, <2>6, AnswersGrow DEF OnTimeout, Final
    <3>2. fault' = "none"
      BY <1>3, <2>6 DEF OnTimeout
    <3> QED
      BY <3>1, <3>2 DEF FaultsAreRaces
  <2> QED
    BY <2>1, <2>3, <2>4, <2>5, <2>6
<1>4. Next => Running
  BY DEF Next, Dispatch, Deliver, AssignOption, ArmTimer, Expire, Responds, BeginResponse,
         Handles, OnPartial, OnComplete, OnError, BeginTimeout, OnTimeout, OnTimeoutCancelled
<1> QED
  BY <1>1, <1>2, <1>3, <1>4

\* No assertion fails, and no option is missing, but in the three races the property
\* names, whatever the number of threads and responses.
THEOREM OnlyRacesFault == Spec => []FaultsAreRaces
<1>1. Init => RaceInv
  BY DEF Init, RaceInv, FaultsAreRaces, Running
<1>2. RaceInv => FaultsAreRaces
  BY DEF RaceInv
<1> QED
  BY <1>1, <1>2, NextRace, RequestInvariant, RequestTypeCorrect, PTL DEF Spec

-----------------------------------------------------------------------------
Ends == {"complete", "failed"}

LEMMA NextEnd ==
    ASSUME TypeOK, Inv, ReplyEndsOnce, [Next]_vars
    PROVE  ReplyEndsOnce'
<1> USE DEF Running
<1>1. CASE UNCHANGED <<answers, fault>>
  BY <1>1 DEF ReplyEndsOnce
<1>2. ASSUME NEW a \in Answers, answers' = Append(answers, a), Running,
             a \in Ends => ~Answered \/ ~Running'
      PROVE  ReplyEndsOnce'
  <2>1. /\ Len(answers) \in Nat /\ DOMAIN answers = 1..Len(answers)
        /\ DOMAIN answers' = 1..(Len(answers) + 1)
        /\ \A i \in 1..Len(answers) : answers'[i] = answers[i]
        /\ answers'[Len(answers) + 1] = a
    BY <1>2, AppendProperties, LenProperties DEF TypeOK
  <2>2. SUFFICES ASSUME Running', NEW i \in DOMAIN answers', NEW j \in DOMAIN answers',
                        answers'[i] \in Ends, answers'[j] \in Ends
                 PROVE  i = j
    BY DEF ReplyEndsOnce, Ends
  <2>3. \A k \in DOMAIN answers : answers[k] \in Ends => Answered
    BY DEF Ends, Final, Answered
  <2>4. CASE a \in Ends
    BY <1>2, <2>1, <2>2, <2>3, <2>4
  <2>5. CASE a \notin Ends
    BY <1>2, <2>1, <2>2, <2>5 DEF ReplyEndsOnce, Ends
  <2> QED
    BY <2>4, <2>5
<1>3. ASSUME Next, answers' # answers
      PROVE  \E a \in Answers : /\ answers' = Append(answers, a) /\ Running
                                /\ a \in Ends => ~Answered \/ ~Running'
  <2>1. PICK w \in Workers : OnPartial(w) \/ OnComplete(w) \/ OnError(w) \/ OnTimeout(w)
    BY <1>3 DEF Next, Dispatch, Deliver, AssignOption, ArmTimer, Expire, Responds,
                BeginResponse, Handles, BeginTimeout, OnTimeoutCancelled
  <2>2. {"partial", "complete", "failed", "timeout"} \subseteq Answers
    BY DEF Answers, Responses
  <2>3. CASE OnPartial(w)
    BY <2>2, <2>3 DEF OnPartial, Ends
  <2>4. CASE OnComplete(w)
    <3>1. /\ Running /\ answers' = Append(answers, "complete")
          /\ ~terminate_request => ~Running'
      BY <2>4 DEF OnComplete, Terminate
    <3> QED
      BY <2>2, <3>1 DEF Inv
  <2>5. CASE OnError(w)
    <3>1. Running /\ terminate_request /\ answers' = Append(answers, "failed")
      BY <1>3, <2>5 DEF OnError
    <3> QED
      BY <2>2, <3>1 DEF Inv
  <2>6. CASE OnTimeout(w)
    BY <2>2, <2>6 DEF OnTimeout, Ends
  <2> QED
    BY <2>1, <2>3, <2>4, <2>5, <2>6
<1>4. CASE answers' = answers
  <2>1. Running' => Running
    BY DEF Next, Dispatch, Deliver, AssignOption, ArmTimer, Expire, Responds, BeginResponse,
           Handles, OnPartial, OnComplete, OnError, BeginTimeout, OnTimeout,
           OnTimeoutCancelled, vars
  <2> QED
    BY <1>4, <2>1 DEF ReplyEndsOnce
<1> QED
  BY <1>2, <1>3, <1>4 DEF vars

\* The callback hears the end of the reply, or an error of the transport, once.
THEOREM OneEndHeard == Spec => []ReplyEndsOnce
<1>1. Init => ReplyEndsOnce
  BY DEF Init, ReplyEndsOnce
<1> QED
  BY <1>1, NextEnd, RequestInvariant, RequestTypeCorrect, PTL DEF Spec
=============================================================================
