--------------------------- MODULE ExchangeProofs ---------------------------
(***************************************************************************)
(* An exchange implements a call, hands the caller's allowance to the      *)
(* provider and fails for no cause but three, whatever the codec, the calls*)
(* and the answers are, as long as what can be written and read is read as *)
(* it was written.  A time stamp keeps its instant to the minute, however  *)
(* often it is written.                                                    *)
(***************************************************************************)
EXTENDS Exchange, Stamps, TLAPS

\* What a client's own call is at each place it passes through.
OwnCall ==
  call # NoCall =>
    /\ client # "idle"
    /\ sent # NoText => Made(call) /\ sent = FrameText(call)
    /\ server = "serving" => given.method = call.method
    /\ request # NoCall => request = RequestOf(call.method, call.arguments)
    /\ answer # NoText =>
         /\ HeardIn(answer) \in {outcome, Failed}
         /\ outcome # Unserved

\* What came to an error the caller cannot be told.
Untold(came) == came[1] = "error" /\ ReadError(WriteError(came[2]))[1] # "ok"

\* A call that was served has come to something, and its caller hears of a
\* failure, or of nothing, only when that is an error it cannot be told.
OwnServed ==
  call # NoCall /\ server = "done" =>
    /\ outcome # Unserved
    /\ answer = NoText \/ HeardIn(answer) = Failed => Untold(outcome)

\* A request is made only once something was sent.
IInv ==
  /\ TypeOK
  /\ sent = NoText => request = NoCall
  /\ OwnCall
  /\ OwnServed
  /\ FailsForACause

-----------------------------------------------------------------------------

LEMMA InitInv == Init => IInv
<1> SUFFICES ASSUME Init PROVE IInv
  OBVIOUS
<1>1. TypeOK
  BY DEF Init, TypeOK
<1>2. OwnCall /\ OwnServed
  BY DEF Init, OwnCall, OwnServed
<1>3. FailsForACause
  BY CallsAssumption DEF Init, FailsForACause
<1> QED
  BY <1>1, <1>2, <1>3 DEF IInv, Init

\* A strange reply comes to nothing but a failure.
LEMMA StrangeFails ==
  ASSUME call \in Calls, NEW text \in StrangeReplies[call.method]
  PROVE  HeardIn(text) = Failed
<1>1. call.method \in Method
  BY CallsAssumption
<1> QED
  BY <1>1, StrangeAssumption DEF HeardIn

\* What the client makes of the reply to its own call.
LEMMA OwnReplyHeard ==
  ASSUME call \in Calls, NEW a \in Answers[call.method],
         NEW text,
         text = ReplyTo([service |-> Router, method |-> call.method],
                        Came(call.method, a),
                        Payload(call.method, Came(call.method, a))),
         text # NoText
  PROVE  /\ HeardIn(text) \in {Came(call.method, a), Failed}
         /\ Came(call.method, a) # Unserved
<1> DEFINE came    == Came(call.method, a)
           payload == Payload(call.method, came)
           replied == Replied([service |-> Router, method |-> call.method], came, payload)
           r       == ReadReply(text)[2]
           error   == ReadError(r.payload)
           value   == ReadResult(call.method, r.payload)
<1> HIDE DEF came, payload
<1>1. /\ text = WriteReply(replied)
      /\ ReadReply(text)[1] = "ok"
  BY DEF ReplyTo, came, payload
<1>2. r = replied /\ came # Unserved
  BY <1>1, RepliesAssumption DEF came, payload
<1>3. /\ came[1] = "value" => Value(ReadResult(call.method, payload)[2]) = came
      /\ came[1] # "value" =>
           \/ ReadError(WriteError(came[2]))[1] # "ok"
           \/ <<"error", ReadError(WriteError(came[2]))[2]>> = came
  BY RepliesAssumption DEF came, payload
<1>4. HeardIn(text) =
        IF ReadReply(text)[1] = "refused" THEN Failed
        ELSE IF r.version # 1 \/ r.service # Router \/ r.method # call.method
          THEN Failed
        ELSE IF ~ r.ok
          THEN IF error[1] = "ok" /\ error[2].code # "" THEN <<"error", error[2]>>
               ELSE Failed
        ELSE IF value[1] = "ok" /\ ValidResult(call.method, value[2])
          THEN Value(value[2]) ELSE Failed
  BY DEF HeardIn
<1> HIDE DEF r, replied, error, value
<1>5. r.ok = (came[1] = "value")
  BY <1>2 DEF replied, Replied
<1>6. CASE came[1] = "value"
  <2>1. r.payload = payload
    BY <1>2, <1>6 DEF replied, Replied
  <2>2. Value(value[2]) = came
    BY <2>1, <1>3, <1>6 DEF value
  <2> QED
    BY <2>2, <1>2, <1>4, <1>5, <1>6 DEF came
<1>7. CASE came[1] # "value"
  <2>1. r.payload = WriteError(came[2])
    BY <1>2, <1>7 DEF replied, Replied
  <2>2. error[1] = "ok" => <<"error", error[2]>> = came
    BY <2>1, <1>3, <1>7 DEF error
  <2> QED
    BY <2>2, <1>2, <1>4, <1>5, <1>7 DEF came
<1> QED
  BY <1>6, <1>7

\* What a call comes to at the service: a value that no client takes for a
\* broken one, or an error with a code.
Told(method, came) ==
  \/ came[1] = "value" /\ ValidResult(method, came[2])
  \/ came[1] = "error" /\ came[2].code # ""

LEMMA RefusalTold ==
  ASSUME NEW method, NEW word  PROVE Told(method, Refusal(word))
<1>1. /\ Refusal(word)[1] = "value"
      /\ Refusal(word)[2].value =
           [observation |-> NoObservation, offers |-> <<>>, outcome |-> word]
  BY DEF Refusal, Value
<1>2. ~ Carries(Refusal(word)[2].value)
  BY <1>1 DEF Carries
<1> QED
  BY <1>1, <1>2 DEF Told, ValidResult

LEMMA ErrorTold ==
  ASSUME NEW method, NEW code, NEW message, code # ""
  PROVE  Told(method, Error(code, message))
  BY DEF Told, Error

LEMMA ResultTold ==
  ASSUME NEW method \in Method, NEW out  PROVE Told(method, ResultOf(method, out))
<1>1. method \in {"Models", "Hosts", "Pick", "Offer"}
  BY MethodAssumption
<1>2. CASE method = "Models"
  BY <1>2 DEF ResultOf, Value, Told, ValidResult
<1>3. CASE method = "Hosts"
  <2>1. ResultOf(method, out)[1] = "value"
    BY <1>3 DEF ResultOf, Value
  <2> QED
    BY <1>3, <2>1 DEF Told, ValidResult
<1>4. CASE method = "Pick" /\ out.decision = Nil
  <2>1. ResultOf(method, out) = Error("internal", "provider returned no decision")
    BY <1>4 DEF ResultOf
  <2> QED
    BY <2>1, ErrorTold
<1>5. CASE method = "Pick" /\ out.decision # Nil
  <2>1. ResultOf(method, out)[1] = "value"
    BY <1>5 DEF ResultOf, Value
  <2> QED
    BY <1>5, <2>1 DEF Told, ValidResult
<1>6. CASE method = "Offer"
  <2>1. ResultOf(method, out) =
          Value([value |-> [observation |-> out.observation, offers |-> out.offers,
                            outcome |-> "offered"]])
    BY <1>6 DEF ResultOf
  <2>2. /\ ResultOf(method, out)[1] = "value"
        /\ ResultOf(method, out)[2].value.outcome = "offered"
    BY <2>1 DEF Value
  <2> QED
    BY <2>2 DEF Told, ValidResult
<1> QED
  BY <1>1, <1>2, <1>3, <1>4, <1>5, <1>6

LEMMA HandledTold ==
  ASSUME NEW method \in Method, NEW a \in Answers[method]
  PROVE  Told(method, Handled(method, a))
<1>1. CASE a.kind = "panic"
  <2>1. Handled(method, a) = Error("handler_error", "handler failed")
    BY <1>1 DEF Handled
  <2> QED
    BY <2>1, ErrorTold
<1>2. CASE a.kind = "refused"
  <2>1. Handled(method, a) = ReceiverError(method, a) /\ a.code # ""
    BY <1>2, RefusalsAssumption DEF Handled
  <2>2. \/ ReceiverError(method, a) = Refusal("not_permitted")
        \/ ReceiverError(method, a) = Refusal("unavailable")
        \/ ReceiverError(method, a) = Error(a.code, a.error)
    BY DEF ReceiverError
  <2> QED
    BY <2>1, <2>2, RefusalTold, ErrorTold
<1>3. CASE a.kind \notin {"panic", "refused"} /\ (a.error # "" \/ a.code # "")
  <2>1. \/ Handled(method, a) = providerOfferResponseError(a)
        \/ Handled(method, a) = providerResponseError(a)
    BY <1>3 DEF Handled
  <2>2. Told(method, providerOfferResponseError(a))
    BY RefusalTold DEF providerOfferResponseError
  <2>3. Told(method, providerResponseError(a))
    <3> DEFINE code == IF a.code = "" THEN "internal" ELSE a.code
    <3>1. code # "" /\ providerResponseError(a) = Error(code, a.error)
      BY DEF providerResponseError
    <3> HIDE DEF code
    <3> QED
      BY <3>1, ErrorTold
  <2> QED
    BY <2>1, <2>2, <2>3
<1>4. CASE a.kind \notin {"panic", "refused"} /\ ~ (a.error # "" \/ a.code # "")
  <2>1. Handled(method, a) = ResultOf(method, a.out)
    BY <1>4 DEF Handled
  <2> QED
    BY <2>1, ResultTold
<1> QED
  BY <1>1, <1>2, <1>3, <1>4

\* And a value is sent only when it can be read back.
LEMMA CameTold ==
  ASSUME NEW method \in Method, NEW a \in Answers[method]
  PROVE  /\ Told(method, Came(method, a))
         /\ Came(method, a)[1] = "value" =>
              ReadResult(method, Payload(method, Came(method, a)))[1] # "refused"
<1> DEFINE handled == Handled(method, a)
           back    == ReadResult(method, WriteResult(method, handled[2])[2])
<1>1. Told(method, handled)
  BY HandledTold
<1> HIDE DEF handled
<1>2. \/ Came(method, a) = Error("invalid_result", "")
      \/ /\ Came(method, a) = handled
         /\ handled[1] = "value" => back[1] # "refused"
  BY DEF Came, Invoked, handled
<1>3. CASE Came(method, a) = Error("invalid_result", "")
  <2>1. Error("invalid_result", "")[1] # "value"
    BY DEF Error
  <2> QED
    BY <1>3, <2>1, ErrorTold
<1>4. CASE /\ Came(method, a) = handled
           /\ handled[1] = "value" => back[1] # "refused"
  BY <1>1, <1>4 DEF Payload
<1> QED
  BY <1>2, <1>3, <1>4

\* A call's own reply is missing, or a failure to its caller, only when it
\* came to an error that cannot be told.
LEMMA OwnReplyTold ==
  ASSUME call \in Calls, NEW a \in Answers[call.method],
         NEW text,
         text = ReplyTo([service |-> Router, method |-> call.method],
                        Came(call.method, a),
                        Payload(call.method, Came(call.method, a))),
         text = NoText \/ HeardIn(text) = Failed
  PROVE  Untold(Came(call.method, a))
<1> DEFINE came    == Came(call.method, a)
           payload == Payload(call.method, came)
           replied == Replied([service |-> Router, method |-> call.method], came, payload)
           r       == ReadReply(text)[2]
           error   == ReadError(r.payload)
           value   == ReadResult(call.method, r.payload)
<1> HIDE DEF came, payload
<1>1. call.method \in Method
  BY CallsAssumption
<1>2. /\ Told(call.method, came)
      /\ came[1] = "value" => ReadResult(call.method, payload)[1] # "refused"
  BY <1>1, CameTold DEF came, payload
<1>3. text = IF ReadReply(WriteReply(replied))[1] = "ok" THEN WriteReply(replied)
             ELSE NoText
  BY DEF ReplyTo, came, payload
<1>4. /\ came # Failed /\ WriteReply(replied) # NoText
      /\ ReadReply(WriteReply(replied))[1] = "ok" =>
           ReadReply(WriteReply(replied))[2] = replied
      /\ came[1] = "value" =>
           /\ ReadResult(call.method, payload)[1] \in {"ok", "refused"}
           /\ Value(ReadResult(call.method, payload)[2]) = came
           /\ ReadReply(WriteReply(replied))[1] = "ok"
      /\ came[1] # "value" =>
           \/ ReadError(WriteError(came[2]))[1] # "ok"
           \/ /\ <<"error", ReadError(WriteError(came[2]))[2]>> = came
              /\ ReadReply(WriteReply(replied))[1] = "ok"
  BY RepliesAssumption DEF came, payload
<1>5. HeardIn(text) =
        IF ReadReply(text)[1] = "refused" THEN Failed
        ELSE IF r.version # 1 \/ r.service # Router \/ r.method # call.method
          THEN Failed
        ELSE IF ~ r.ok
          THEN IF error[1] = "ok" /\ error[2].code # "" THEN <<"error", error[2]>>
               ELSE Failed
        ELSE IF value[1] = "ok" /\ ValidResult(call.method, value[2])
          THEN Value(value[2]) ELSE Failed
  BY DEF HeardIn
<1> HIDE DEF r, error, value
<1>6. ASSUME ReadReply(WriteReply(replied))[1] = "ok"
      PROVE  /\ HeardIn(text) = Failed /\ ReadReply(text)[1] = "ok"
             /\ r.version = 1 /\ r.service = Router /\ r.method = call.method
             /\ r.ok = (came[1] = "value")
             /\ r.payload = IF came[1] = "value" THEN payload ELSE WriteError(came[2])
  <2> HIDE DEF replied
  <2>1. text = WriteReply(replied) /\ HeardIn(text) = Failed
    BY <1>3, <1>4, <1>6
  <2>2. r = replied
    BY <1>4, <1>6, <2>1 DEF r
  <2> QED
    BY <1>6, <2>1, <2>2 DEF replied, Replied
<1>7. ~ (came[1] = "value")
  <2> SUFFICES ASSUME came[1] = "value" PROVE FALSE
    OBVIOUS
  <2>1. ValidResult(call.method, came[2])
    BY <1>2 DEF Told
  <2> HIDE DEF replied
  <2>2. /\ value[1] = "ok" /\ Value(value[2]) = came
    BY <1>2, <1>4, <1>6 DEF value
  <2>3. value[2] = came[2]
    BY <2>2 DEF Value
  <2> QED
    BY <1>4, <1>5, <1>6, <2>1, <2>2, <2>3
<1>8. came[1] = "error" /\ came[2].code # ""
  BY <1>2, <1>7 DEF Told
<1>9. ReadError(WriteError(came[2]))[1] # "ok"
  <2> SUFFICES ASSUME ReadError(WriteError(came[2]))[1] = "ok" PROVE FALSE
    OBVIOUS
  <2> HIDE DEF replied
  <2>1. /\ <<"error", ReadError(WriteError(came[2]))[2]>> = came
        /\ ReadReply(WriteReply(replied))[1] = "ok"
    BY <1>4, <1>7
  <2>2. error[1] = "ok" /\ <<"error", error[2]>> = came
    BY <1>6, <1>7, <2>1 DEF error
  <2>3. error[2] = came[2]
    BY <2>2
  <2> QED
    BY <1>4, <1>5, <1>6, <1>7, <1>8, <2>1, <2>2, <2>3
<1> QED
  BY <1>8, <1>9 DEF Untold, came

\* The frame of a client's own call is read, and its arguments are.
LEMMA OwnFrameRead ==
  ASSUME call \in Calls, Made(call)
  PROVE  /\ ReadFrame(FrameText(call))[1] = "ok"
         /\ ReadFrame(FrameText(call))[2] = FrameOf(call, Arguments(call))
         /\ ReadArguments(call.method, Arguments(call))[1] = "ok"
         /\ ReadArguments(call.method, Arguments(call))[2] = call.arguments
         /\ call.method \in Method
  BY CallsAssumption

-----------------------------------------------------------------------------
(* The invariant is kept: one lemma per action that touches a call. Before *)
(* it a frame's own call is at the place the action takes it from.         *)

LEMMA AskInv ==
  ASSUME IInv, NEW c \in Calls, Ask(c)  PROVE  IInv'
<1>1. c # NoCall /\ server = "idle"
  BY CallsAssumption DEF IInv, TypeOK, Ask
<1>2. TypeOK'
  BY <1>1, CallsAssumption DEF IInv, TypeOK, Ask
<1>3. /\ answer' = NoText
      /\ request' = NoCall
      /\ server' = "idle"
  BY <1>1 DEF IInv, TypeOK, Ask
<1>4. OwnCall' /\ OwnServed'
  BY <1>1, <1>3 DEF OwnCall, OwnServed, Ask
<1>5. FailsForACause'
  <2>1. Made(c) => heard' = Unheard
    BY DEF IInv, TypeOK, Ask
  <2> QED
    BY <2>1, CallsAssumption DEF FailsForACause, Ask
<1> QED
  BY <1>2, <1>3, <1>4, <1>5 DEF IInv

LEMMA StrangerInv == ASSUME IInv, StrangerSends  PROVE  IInv'
<1>1. call' = NoCall /\ server = "idle" /\ heard' = Unheard
  BY DEF IInv, TypeOK, StrangerSends
<1>2. TypeOK'
  BY <1>1, CallsAssumption DEF IInv, TypeOK, StrangerSends
<1>3. FailsForACause'
  BY <1>1, CallsAssumption DEF FailsForACause
<1> QED
  BY <1>1, <1>2, <1>3 DEF IInv, OwnCall, OwnServed, StrangerSends

LEMMA DiscardInv == ASSUME IInv, Discard  PROVE  IInv'
<1>1. TypeOK'
  BY DEF IInv, TypeOK, Discard
<1>2. answer' = answer /\ HeardIn(answer)' = HeardIn(answer)
  BY DEF Discard, HeardIn
<1>3. call = NoCall
  <2> SUFFICES ASSUME call # NoCall PROVE FALSE
    OBVIOUS
  <2>1. call \in Calls /\ sent = FrameText(call) /\ Made(call)
    BY DEF IInv, TypeOK, OwnCall, Discard
  <2>2. ReadFrame(sent)[1] = "ok" /\ ReadFrame(sent)[2].version = 1
    BY <2>1, OwnFrameRead DEF FrameOf
  <2> QED
    BY <2>2 DEF Discard
<1>4. FailsForACause'
  BY DEF IInv, FailsForACause, Discard
<1> QED
  BY <1>1, <1>2, <1>3, <1>4 DEF IInv, OwnCall, OwnServed, Discard

\* The caller's own frame is neither described nor refused.
LEMMA OwnCallInvoked ==
  ASSUME IInv, Receive, call # NoCall
  PROVE  /\ server' = "serving"
         /\ given' = [method |-> call.method, arguments |-> call.arguments]
         /\ request' = RequestOf(call.method, call.arguments)
         /\ UNCHANGED <<outcome, answer>>
<1> DEFINE frame == ReadFrame(sent)[2]
<1>1. call \in Calls /\ sent = FrameText(call) /\ Made(call)
  BY DEF IInv, TypeOK, OwnCall, Receive
<1>2. /\ frame = FrameOf(call, Arguments(call))
      /\ ReadArguments(call.method, Arguments(call))[1] = "ok"
      /\ ReadArguments(call.method, Arguments(call))[2] = call.arguments
      /\ call.method \in Method
  BY <1>1, OwnFrameRead
<1>3. /\ frame.service = Router /\ frame.method = call.method
      /\ frame.arguments = Arguments(call)
  BY <1>2 DEF FrameOf
<1>4. Router # EndpointContract
  BY DEF Router, EndpointContract
<1>5. Describe(frame) \/ Refuse(frame) \/ Invoke(frame)
  BY DEF Receive
<1>6. ~ Describe(frame)
  BY <1>3, <1>4 DEF Describe
<1>7. ~ Refuse(frame)
  BY <1>2, <1>3, <1>4 DEF Refuse
<1>8. Invoke(frame)
  BY <1>5, <1>6, <1>7
<1> QED
  BY <1>2, <1>3, <1>8 DEF Invoke

LEMMA ReceiveInv == ASSUME IInv, Receive  PROVE  IInv'
<1> DEFINE frame == ReadFrame(sent)[2]
<1>1. UNCHANGED <<client, call, sent, heard, broke>> /\ sent # NoText /\ server = "idle"
  BY DEF Receive
<1>2. \/ server' = "done"
      \/ server' = "serving" /\ UNCHANGED <<outcome, answer>>
  <2> HIDE DEF frame
  <2>1. Describe(frame) \/ Refuse(frame) \/ Invoke(frame)
    BY DEF Receive, frame
  <2> QED
    BY <2>1 DEF Describe, Refuse, Invoke, Conclude
<1>3. TypeOK'
  BY <1>1, <1>2 DEF IInv, TypeOK
<1>4. OwnCall'
  <2> SUFFICES ASSUME call # NoCall PROVE OwnCall'
    BY <1>1 DEF OwnCall
  <2>1. /\ server' = "serving"
        /\ given' = [method |-> call.method, arguments |-> call.arguments]
        /\ request' = RequestOf(call.method, call.arguments)
        /\ UNCHANGED <<outcome, answer>>
    BY OwnCallInvoked
  <2>2. answer' = NoText
    BY <1>1, <2>1 DEF IInv, TypeOK
  <2> QED
    BY <1>1, <2>1, <2>2 DEF IInv, OwnCall
<1>5. OwnServed'
  BY <1>1, OwnCallInvoked DEF OwnServed
<1>6. FailsForACause'
  BY <1>1 DEF IInv, TypeOK, FailsForACause
<1> QED
  BY <1>1, <1>3, <1>4, <1>5, <1>6 DEF IInv

LEMMA ServeInv ==
  ASSUME IInv, NEW a \in Answers[given.method], Serve(a)  PROVE  IInv'
<1>1. /\ UNCHANGED <<client, call, sent, given, request, heard, broke>>
      /\ server = "serving" /\ server' = "done"
      /\ outcome' = Came(given.method, a)
      /\ answer' = ReplyTo([service |-> Router, method |-> given.method],
                           Came(given.method, a),
                           Payload(given.method, Came(given.method, a)))
  BY DEF Serve, Conclude
<1>2. TypeOK'
  BY <1>1 DEF IInv, TypeOK
<1>3. OwnCall' /\ OwnServed'
  <2> SUFFICES ASSUME call # NoCall PROVE OwnCall' /\ OwnServed'
    BY <1>1 DEF OwnCall, OwnServed
  <2>1. call \in Calls /\ given.method = call.method
    BY <1>1 DEF IInv, TypeOK, OwnCall
  <2>2. answer' # NoText => /\ HeardIn(answer') \in {outcome', Failed}
                            /\ outcome' # Unserved
    BY <1>1, <2>1, OwnReplyHeard
  <2>3. HeardIn(answer)' = HeardIn(answer')
    BY <1>1 DEF HeardIn
  <2>4. outcome' # Unserved
    BY <1>1, <2>1, RepliesAssumption
  <2>5. answer' = NoText \/ HeardIn(answer') = Failed => Untold(outcome')
    BY <1>1, <2>1, OwnReplyTold
  <2>6. OwnServed'
    BY <1>1, <2>3, <2>4, <2>5 DEF OwnServed, Untold
  <2> QED
    BY <1>1, <2>2, <2>3, <2>6 DEF IInv, OwnCall
<1>4. FailsForACause'
  BY <1>1 DEF IInv, TypeOK, FailsForACause
<1> QED
  BY <1>1, <1>2, <1>3, <1>4 DEF IInv

\* A client that returns a failure has a cause to.
LEMMA ReturnCaused ==
  ASSUME IInv, Hear \/ HearNothing \/ GiveUp \/ Misdeliver
  PROVE  \E h : /\ Return(h) /\ broke' \in BOOLEAN
                /\ h = Failed => broke' \/ (outcome # Unserved /\ Untold(outcome))
<1>1. CASE GiveUp
  BY <1>1 DEF GiveUp
<1>2. CASE Misdeliver
  BY <1>2 DEF Misdeliver
<1>3. CASE Hear \/ HearNothing
  <2>1. call # NoCall /\ broke' \in BOOLEAN
    BY <1>3, CallsAssumption DEF IInv, TypeOK, Hear, HearNothing, Return
  <2>2. server = "done"
    BY <1>3 DEF IInv, TypeOK, Hear, HearNothing
  <2>3. /\ outcome # Unserved
        /\ answer = NoText \/ HeardIn(answer) = Failed => Untold(outcome)
    BY <2>1, <2>2 DEF IInv, OwnServed
  <2> QED
    BY <1>3, <2>1, <2>3 DEF Hear, HearNothing
<1> QED
  BY <1>1, <1>2, <1>3

LEMMA ReturnInv ==
  ASSUME IInv, NEW h, Return(h), broke' \in BOOLEAN,
         h = Failed => broke' \/ (outcome # Unserved /\ Untold(outcome))
  PROVE  IInv'
<1>1. TypeOK'
  BY DEF IInv, TypeOK, Return
<1>2. HeardIn(answer)' = HeardIn(answer)
  BY DEF Return, HeardIn
<1>3. OwnServed'
  BY <1>2 DEF IInv, OwnServed, Untold, Return
<1>4. FailsForACause'
  BY DEF FailsForACause, Untold, Return
<1> QED
  BY <1>1, <1>2, <1>3, <1>4 DEF IInv, OwnCall, Return

LEMMA StutterInv == ASSUME IInv, UNCHANGED vars  PROVE  IInv'
<1>1. HeardIn(answer)' = HeardIn(answer)
  BY DEF vars, HeardIn
<1> QED
  BY <1>1 DEF IInv, TypeOK, OwnCall, OwnServed, Untold, FailsForACause, vars

LEMMA NextInv == IInv /\ [Next]_vars => IInv'
<1> SUFFICES ASSUME IInv, [Next]_vars PROVE IInv'
  OBVIOUS
<1>1. ASSUME NEW c \in Calls, Ask(c) PROVE IInv'
  BY <1>1, AskInv
<1>2. CASE StrangerSends
  BY <1>2, StrangerInv
<1>3. CASE Discard
  BY <1>3, DiscardInv
<1>4. CASE Receive
  BY <1>4, ReceiveInv
<1>5. ASSUME NEW a \in Answers[given.method], Serve(a) PROVE IInv'
  BY <1>5, ServeInv
<1>6. CASE Hear \/ HearNothing \/ GiveUp \/ Misdeliver
  BY <1>6, ReturnCaused, ReturnInv
<1>7. CASE UNCHANGED vars
  BY <1>7, StutterInv
<1> QED
  BY <1>1, <1>2, <1>3, <1>4, <1>5, <1>6, <1>7 DEF Next

LEMMA Inv == Spec => []IInv
  BY InitInv, NextInv, PTL DEF Spec

-----------------------------------------------------------------------------

\* Who waits, what was sent, served and answered go together in every
\* exchange (rec.go ExchangeFrame and the generated client).
THEOREM TypeCorrect == Spec => []TypeOK
<1>1. IInv => TypeOK
  BY DEF IInv
<1> QED
  BY <1>1, Inv, PTL

\* A pick's allowance reaches the provider as its caller gave it: absent is
\* absent and empty is empty (service.go fromWirePickRequest).
THEOREM AllowanceKept == Spec => []AllowanceArrives
<1>1. IInv => AllowanceArrives
  BY DEF IInv, OwnCall, AllowanceArrives, RequestOf, fromWirePickRequest
<1> QED
  BY <1>1, Inv, PTL

\* A call fails for a cause: a client that tells its caller of a failure was
\* let down by the transport, could not make its call, or was answered with an
\* error that cannot be read (rec.go serviceReply, WriteReply and
\* service.go providerOfferResponseError).
THEOREM FailuresHaveCauses == Spec => []FailsForACause
<1>1. IInv => FailsForACause
  BY DEF IInv
<1> QED
  BY <1>1, Inv, PTL

-----------------------------------------------------------------------------
(* The refinement: every step of an exchange is a step of the call it       *)
(* promises, or none.                                                      *)

LEMMA RefinesInit == Init => Promised!Init
  BY DEF Init, Promised!Init

LEMMA RefinesAsk ==
  ASSUME IInv, NEW c \in Calls, Ask(c)
  PROVE  Promised!Ask \/ Promised!AskInVain
<1>1. call = NoCall /\ outcome = Unserved /\ outcome' = outcome
  BY DEF IInv, TypeOK, Ask
<1>2. c # NoCall /\ call' = c
  BY CallsAssumption DEF Ask
<1> QED
  BY <1>1, <1>2 DEF Ask, Promised!Ask, Promised!AskInVain

LEMMA RefinesServe ==
  ASSUME IInv, NEW a \in Answers[given.method], Serve(a)
  PROVE  Promised!Serve \/ UNCHANGED Promised!vars
<1>1. CASE call = NoCall
  BY <1>1 DEF Serve, Promised!vars
<1>2. CASE call # NoCall
  <2>1. given.method = call.method /\ outcome = Unserved
    BY <1>2 DEF IInv, TypeOK, OwnCall, Serve
  <2>2. outcome' \in OutcomesOf(call)
    BY <2>1 DEF Serve, Conclude, OutcomesOf
  <2> QED
    BY <1>2, <2>1, <2>2 DEF Serve, Promised!Serve
<1> QED
  BY <1>1, <1>2

LEMMA RefinesReturn ==
  ASSUME IInv, Hear \/ HearNothing \/ GiveUp \/ Misdeliver
  PROVE  Promised!Hear \/ Promised!Fail
<1>1. PICK h : Return(h) /\ \/ h = Failed
                            \/ answer # NoText /\ h = HeardIn(answer)
  <2>1. CASE Misdeliver
    <3>1. call \in Calls
      BY <2>1 DEF IInv, TypeOK, Misdeliver
    <3> QED
      BY <2>1, <3>1, StrangeFails DEF Misdeliver
  <2>2. CASE Hear \/ HearNothing \/ GiveUp
    BY <2>2 DEF Hear, HearNothing, GiveUp
  <2> QED
    BY <2>1, <2>2
<1>2. call # NoCall /\ heard = Unheard
  BY <1>1, CallsAssumption DEF IInv, TypeOK, Return
<1>3. answer # NoText => HeardIn(answer) \in {outcome, Failed} /\ outcome # Unserved
  BY <1>2 DEF IInv, OwnCall
<1> QED
  BY <1>1, <1>2, <1>3 DEF Return, Promised!Hear, Promised!Fail

LEMMA RefinesNext ==
  IInv /\ [Next]_vars => [Promised!Next]_Promised!vars
<1> SUFFICES ASSUME IInv, [Next]_vars PROVE [Promised!Next]_Promised!vars
  OBVIOUS
<1>1. ASSUME NEW c \in Calls, Ask(c) PROVE Promised!Next
  BY <1>1, RefinesAsk DEF Promised!Next
<1>2. CASE StrangerSends
  <2>1. call = NoCall
    BY <1>2 DEF IInv, TypeOK, StrangerSends
  <2> QED
    BY <1>2, <2>1 DEF StrangerSends, Promised!vars
<1>3. CASE Discard
  BY <1>3 DEF Discard, Promised!vars
<1>4. CASE Receive
  <2>1. UNCHANGED <<call, heard>>
    BY <1>4 DEF Receive
  <2>2. call # NoCall => outcome' = outcome
    BY <1>4, OwnCallInvoked
  <2> QED
    BY <2>1, <2>2 DEF Promised!vars
<1>5. ASSUME NEW a \in Answers[given.method], Serve(a)
      PROVE  [Promised!Next]_Promised!vars
  BY <1>5, RefinesServe DEF Promised!Next
<1>6. CASE Hear \/ HearNothing \/ GiveUp \/ Misdeliver
  BY <1>6, RefinesReturn DEF Promised!Next
<1>7. CASE UNCHANGED vars
  BY <1>7 DEF vars, Promised!vars
<1> QED
  BY <1>1, <1>2, <1>3, <1>4, <1>5, <1>6, <1>7 DEF Next

\* An exchange implements a call: what a client hears is what its own call
\* came to at the handler, heard once, or that it failed (rec.go
\* serviceResponse, serviceReply and ExchangeFrame).
THEOREM Implements == Spec => CallKept
<1>1. Spec => Promised!Spec
  BY RefinesInit, RefinesNext, Inv, PTL DEF Spec, Promised!Spec
<1> QED
  BY <1>1 DEF CallKept

-----------------------------------------------------------------------------
(* A time stamp keeps its instant, to the minute: the calendar, one writer,*)
(* and however many.                                                       *)

Stamp == [y : Int, m : Int, d : Int, at : Int, ahead : Int]

\* A moment of a day, by its date in UTC.
Written(y, m, d, min) ==
  IF FourDigits(y)
  THEN [y |-> y, m |-> m, d |-> d, at |-> min % 1440, ahead |-> 0]
  ELSE NoStamp

\* What one writer makes of a time stamp.
WellWritten(n, s) ==
  IF IsMoment(s)
  THEN /\ n \in Stamp /\ n # NoStamp /\ Instant(n) = Instant(s)
       /\ IsDate(n) /\ Minute(n.at) /\ n.ahead = 0
  ELSE n = NoStamp

\* What was written once is well written of what was told; before that it is
\* what was told.
StampInv ==
  /\ told \in Stamp \cup {NoStamp} /\ passed \in BOOLEAN
  /\ passed => told \in Stamp /\ WellWritten(stamp, told)
  /\ ~ passed => stamp = told

\* The leap days of a year, by what the counts of them before it are.
LEMMA LeapDays ==
  ASSUME NEW y \in Int
  PROVE  /\ (y \div 4) - ((y - 1) \div 4) = IF y % 4 = 0 THEN 1 ELSE 0
         /\ (y \div 100) - ((y - 1) \div 100) = IF y % 100 = 0 THEN 1 ELSE 0
         /\ (y \div 400) - ((y - 1) \div 400) = IF y % 400 = 0 THEN 1 ELSE 0
         /\ y % 400 = 0 => y % 100 = 0
         /\ y % 100 = 0 => y % 4 = 0
OBVIOUS

\* The next month begins as many days later as this one has.
LEMMA MonthsFollow ==
  ASSUME NEW y \in Int, NEW m \in Int, Month(m)
  PROVE  /\ NextMonth(y, m) = DayOf(y, m, 1) + timestampDays(y, m)
         /\ DayOf(y, m, 1) \in Int /\ NextMonth(y, m) \in Int
         /\ timestampDays(y, m) \in Int /\ timestampDays(y, m) >= 28
<1>1. CASE m = 2
  <2>1. timestampDays(y, 2) = IF y % 4 = 0 /\ (y % 100 # 0 \/ y % 400 = 0) THEN 29 ELSE 28
    BY DEF timestampDays
  <2>2. DayOf(y, 3, 1) - DayOf(y, 2, 1) = 28 + ((y \div 4) - ((y - 1) \div 4))
          - ((y \div 100) - ((y - 1) \div 100)) + ((y \div 400) - ((y - 1) \div 400))
    BY DEF DayOf
  <2>3. DayOf(y, 3, 1) = DayOf(y, 2, 1) + timestampDays(y, 2)
    BY <2>1, <2>2, LeapDays DEF DayOf
  <2> QED
    BY <1>1, <2>1, <2>3 DEF NextMonth, DayOf
<1>2. CASE m = 12
  BY <1>2 DEF NextMonth, DayOf, timestampDays
<1>3. CASE m \in {1, 3, 4, 5, 6, 7, 8, 9, 10, 11}
  <2>1. m \in 1..12 /\ m # 2 /\ m # 12
    BY <1>3
  <2>2. timestampDays(y, m) = IF m \in {4, 6, 9, 11} THEN 30 ELSE 31
    BY <2>1 DEF timestampDays
  <2>3. NextMonth(y, m) = DayOf(y, m + 1, 1)
    BY <2>1 DEF NextMonth
  <2>4. DayOf(y, m + 1, 1) - DayOf(y, m, 1) = IF m \in {4, 6, 9, 11} THEN 30 ELSE 31
    BY <2>1 DEF DayOf
  <2>5. DayOf(y, m, 1) \in Int /\ DayOf(y, m + 1, 1) \in Int
    BY <2>1 DEF DayOf
  <2> QED
    BY <2>2, <2>3, <2>4, <2>5
<1> QED
  BY <1>1, <1>2, <1>3 DEF Month

\* The days of a month, and the months of a year, follow each other.
LEMMA DaysFollow ==
  ASSUME NEW y \in Int, NEW m \in Int, Month(m), NEW d \in Int
  PROVE  DayOf(y, m, d) = DayOf(y, m, 1) + d - 1 /\ DayOf(y, m, d) \in Int
BY DEF DayOf, Month

LEMMA YearsFollow ==
  ASSUME NEW y \in Int
  PROVE  /\ DayOf(y, 1, 1) \in Int
         /\ DayOf(y, 12, 31) = DayOf(y + 1, 1, 1) - 1
         /\ \A m \in Int : Month(m) => /\ DayOf(y, 1, 1) <= DayOf(y, m, 1)
                                       /\ NextMonth(y, m) <= DayOf(y + 1, 1, 1)
BY DEF DayOf, NextMonth, Month

LEMMA YearsGrow ==
  ASSUME NEW y \in Int, NEW z \in Int, y <= z
  PROVE  DayOf(y, 1, 1) <= DayOf(z, 1, 1)
BY DEF DayOf

\* A date is one by the calendar as by the days of its month.
LEMMA DatesAre ==
  ASSUME NEW y \in Int, NEW m \in Int, Month(m), NEW d \in Int
  PROVE  d >= 1 /\ DayOf(y, m, d) < NextMonth(y, m) <=> d \in 1..timestampDays(y, m)
<1>1. NextMonth(y, m) = DayOf(y, m, 1) + timestampDays(y, m)
  BY MonthsFollow
<1>2. DayOf(y, m, 1) \in Int
  BY MonthsFollow
<1>3. timestampDays(y, m) \in Int
  BY MonthsFollow
<1>4. DayOf(y, m, d) = DayOf(y, m, 1) + d - 1
  BY DaysFollow
<1> QED
  BY <1>1, <1>2, <1>3, <1>4

\* A date is of the years of four digits if its day is.
LEMMA InYears ==
  ASSUME NEW y \in Int, NEW m \in Int, Month(m), NEW d \in Int, d \in 1..timestampDays(y, m)
  PROVE  FourDigits(y) <=> DayOf(y, m, d) \in DayOf(0, 1, 1)..DayOf(9999, 12, 31)
<1>1. /\ DayOf(y, 1, 1) <= DayOf(y, m, d) /\ DayOf(y, m, d) < DayOf(y + 1, 1, 1)
      /\ DayOf(y, 1, 1) \in Int /\ DayOf(y, m, d) \in Int /\ DayOf(y + 1, 1, 1) \in Int
  <2>1. timestampDays(y, m) \in Int
    BY MonthsFollow
  <2>2. DayOf(y, m, d) = DayOf(y, m, 1) + d - 1
    BY DaysFollow
  <2>3. DayOf(y, m, 1) \in Int /\ NextMonth(y, m) \in Int
    BY MonthsFollow
  <2>4. DayOf(y, m, d) < NextMonth(y, m)
    BY DatesAre
  <2>5. /\ DayOf(y, 1, 1) <= DayOf(y, m, 1) /\ NextMonth(y, m) <= DayOf(y + 1, 1, 1)
        /\ DayOf(y, 1, 1) \in Int
    BY YearsFollow
  <2>6. DayOf(y + 1, 1, 1) \in Int
    BY YearsFollow
  <2>7. d >= 1
    BY <2>1
  <2> QED
    BY <2>1, <2>2, <2>3, <2>4, <2>5, <2>6, <2>7
<1>2. /\ DayOf(9999, 12, 31) = DayOf(10000, 1, 1) - 1
      /\ DayOf(0, 1, 1) \in Int /\ DayOf(10000, 1, 1) \in Int
  BY DEF DayOf
<1>3. y < 0 => DayOf(y + 1, 1, 1) <= DayOf(0, 1, 1)
  BY YearsGrow
<1>4. y >= 0 => DayOf(0, 1, 1) <= DayOf(y, 1, 1)
  BY YearsGrow
<1>5. y > 9999 => DayOf(10000, 1, 1) <= DayOf(y, 1, 1)
  BY YearsGrow
<1>6. y <= 9999 => DayOf(y + 1, 1, 1) <= DayOf(10000, 1, 1)
  BY YearsGrow
<1> QED
  <2>1. FourDigits(y) <=> ~ (y < 0) /\ ~ (y > 9999)
    BY DEF FourDigits
  <2> QED
    BY <1>1, <1>2, <1>3, <1>4, <1>5, <1>6, <2>1

\* The offset carried over the day, the month and the year makes the date of
\* the same day.
LEMMA Carried ==
  ASSUME NEW s, NEW y \in Int, NEW m \in Int, NEW d \in Int, NEW min \in Int,
         s.y = y, s.m = m, s.d = d, s.at - s.ahead = min,
         Minute(s.at), Offset(s.ahead), -1439 <= min, min <= 2878,
         Month(m), d \in 1..timestampDays(y, m)
  PROVE  \E year, month, day \in Int :
           /\ Month(month) /\ day \in 1..timestampDays(year, month)
           /\ DayOf(year, month, day) = DayOf(y, m, d) + (min \div 1440)
           /\ normalizedTimestamp(s) = Written(year, month, day, min)
<1>1. timestampDays(y, m) \in Int /\ timestampDays(y, m) >= 28
  <2>1. timestampDays(y, m) \in Int
    BY MonthsFollow
  <2>2. timestampDays(y, m) >= 28
    BY MonthsFollow
  <2> QED
    BY <2>1, <2>2
<1> DEFINE there == d + (min \div 1440)
<1>2. there = IF min < 0 THEN d - 1 ELSE IF min >= 1440 THEN d + 1 ELSE d
  OBVIOUS
<1>3. there \in Int /\ (min \div 1440) \in Int
  OBVIOUS
<1>4. DayOf(y, m, d) = DayOf(y, m, 1) + d - 1 /\ DayOf(y, m, 1) \in Int
  BY DaysFollow
<1>5. DayOf(y, m, d) + (min \div 1440) = DayOf(y, m, 1) + there - 1
  BY <1>3, <1>4
<1> HIDE DEF there
<1>6. there \in 0..(timestampDays(y, m) + 1)
  BY <1>1, <1>2, <1>3
<1> DEFINE at   == s.at - s.ahead
           day  == IF at < 0 THEN s.d - 1 ELSE IF at >= 1440 THEN s.d + 1 ELSE s.d
           back == IF day > 0 THEN <<s.y, s.m>>
                   ELSE IF s.m = 1 THEN <<s.y - 1, 12>> ELSE <<s.y, s.m - 1>>
           days == IF day > 0 THEN day ELSE timestampDays(back[1], back[2])
           over == days > timestampDays(back[1], back[2])
           next == IF ~ over THEN back
                   ELSE IF back[2] = 12 THEN <<back[1] + 1, 1>> ELSE <<back[1], back[2] + 1>>
           odd  == \/ ~ Month(s.m) \/ s.d \notin 1..timestampDays(s.y, s.m)
                   \/ ~ Minute(s.at) \/ ~ Offset(s.ahead)
           far  == ~ FourDigits(next[1])
           made == [y |-> next[1], m |-> next[2], d |-> IF over THEN 1 ELSE days,
                    at |-> at % 1440, ahead |-> 0]
<1>7. normalizedTimestamp(s) = IF odd \/ far THEN NoStamp ELSE made
  BY DEF normalizedTimestamp
<1>8. at = min /\ day = there
  BY <1>2
<1> HIDE DEF at, day
<1>9. back = IF there > 0 THEN <<y, m>> ELSE IF m = 1 THEN <<y - 1, 12>> ELSE <<y, m - 1>>
  BY <1>8
<1> HIDE DEF back
<1> HIDE DEF days, over, next
<1>10. ~ odd
  OBVIOUS
<1> HIDE DEF odd, far, made
<1>11. normalizedTimestamp(s) = IF far THEN NoStamp ELSE made
  BY <1>7, <1>10
<1>12. CASE there \in 1..timestampDays(y, m)
  <2>1. DayOf(y, m, there) = DayOf(y, m, 1) + there - 1
    BY <1>3, DaysFollow
  <2>2. normalizedTimestamp(s) = Written(y, m, there, min)
    <3>1. there > 0 /\ ~ (there > timestampDays(y, m))
      BY <1>1, <1>3, <1>12
    <3>2. back = <<y, m>>
      BY <1>9, <3>1
    <3>3. days = there /\ ~ over
      BY <1>8, <3>1, <3>2 DEF days, over
    <3>4. next = <<y, m>>
      BY <3>2, <3>3 DEF next
    <3>5. made = [y |-> y, m |-> m, d |-> there, at |-> min % 1440, ahead |-> 0]
      BY <1>8, <3>3, <3>4 DEF made
    <3>6. far <=> ~ FourDigits(y)
      BY <3>4 DEF far
    <3> HIDE DEF made, far
    <3> QED
      BY <1>11, <3>5, <3>6 DEF Written
  <2> QED
    BY <1>3, <1>5, <1>12, <2>1, <2>2
<1>13. CASE there = 0
  <2> DEFINE year  == IF m = 1 THEN y - 1 ELSE y
             month == IF m = 1 THEN 12 ELSE m - 1
             last  == timestampDays(year, month)
  <2>1. year \in Int /\ month \in Int /\ Month(month)
    BY DEF Month
  <2>2. NextMonth(year, month) = DayOf(y, m, 1)
    BY DEF NextMonth, Month
  <2>3. NextMonth(year, month) = DayOf(year, month, 1) + last
    <3> HIDE DEF year, month
    <3> QED
      BY <2>1, MonthsFollow
  <2>4. last \in Int
    <3> HIDE DEF year, month
    <3> QED
      BY <2>1, MonthsFollow
  <2>5. last >= 28
    <3> HIDE DEF year, month
    <3> QED
      BY <2>1, MonthsFollow
  <2>6. DayOf(year, month, 1) \in Int
    <3> HIDE DEF year, month
    <3> QED
      BY <2>1, MonthsFollow
  <2>7. DayOf(year, month, last) = DayOf(year, month, 1) + last - 1
    <3> HIDE DEF year, month, last
    <3> QED
      BY <2>1, <2>4, <2>6, DaysFollow
  <2>8. DayOf(year, month, last) = DayOf(y, m, 1) - 1
    <3> HIDE DEF year, month, last
    <3> QED
      <4>1. DayOf(year, month, 1) + last = DayOf(y, m, 1)
        BY <2>2, <2>3
      <4>2. DayOf(year, month, 1) + last - 1 = DayOf(y, m, 1) - 1
        BY <1>4, <2>4, <2>6, <4>1
      <4> QED
        BY <2>7, <4>2
  <2>9. normalizedTimestamp(s) = Written(year, month, last, min)
    <3>1. ~ (there > 0) /\ ~ (last > last)
      <4> HIDE DEF last
      <4> QED
        BY <1>13, <2>4
    <3>2. back = <<year, month>>
      BY <1>9, <3>1
    <3>3. days = last /\ ~ over
      <4> HIDE DEF year, month
      <4> QED
        BY <1>8, <3>1, <3>2 DEF days, over
    <3>4. next = <<year, month>>
      BY <3>2, <3>3 DEF next
    <3> HIDE DEF year, month, last
    <3> QED
      BY <1>8, <1>11, <3>3, <3>4 DEF Written, far, made
  <2>10. last \in 1..timestampDays(year, month)
    BY <2>4, <2>5
  <2> HIDE DEF year, month, last
  <2> QED
    BY <1>5, <1>13, <1>4, <2>1, <2>4, <2>8, <2>9, <2>10
<1>14. CASE there = timestampDays(y, m) + 1
  <2> DEFINE year  == IF m = 12 THEN y + 1 ELSE y
             month == IF m = 12 THEN 1 ELSE m + 1
  <2>1. year \in Int /\ month \in Int /\ Month(month)
    BY DEF Month
  <2>2. DayOf(year, month, 1) = NextMonth(y, m)
    BY DEF NextMonth, Month
  <2>3. NextMonth(y, m) = DayOf(y, m, 1) + timestampDays(y, m)
    BY MonthsFollow
  <2>4. timestampDays(year, month) \in Int
    <3> HIDE DEF year, month
    <3> QED
      BY <2>1, MonthsFollow
  <2>5. timestampDays(year, month) >= 28
    <3> HIDE DEF year, month
    <3> QED
      BY <2>1, MonthsFollow
  <2>6. normalizedTimestamp(s) = Written(year, month, 1, min)
    <3>1. there > 0 /\ there > timestampDays(y, m)
      BY <1>1, <1>14
    <3>2. back = <<y, m>>
      BY <1>9, <3>1
    <3>3. days = there /\ over
      BY <1>8, <3>1, <3>2 DEF days, over
    <3>4. next = <<year, month>>
      BY <3>2, <3>3 DEF next
    <3> HIDE DEF year, month
    <3> QED
      BY <1>8, <1>11, <3>3, <3>4 DEF Written, far, made
  <2>7. 1 \in 1..timestampDays(year, month)
    BY <2>4, <2>5
  <2>8. DayOf(year, month, 1) = DayOf(y, m, 1) + there - 1
    BY <1>1, <1>4, <1>14, <2>2, <2>3
  <2> HIDE DEF year, month
  <2> QED
    BY <1>5, <2>1, <2>6, <2>7, <2>8
<1> QED
  BY <1>1, <1>6, <1>3, <1>12, <1>13, <1>14

\* No time stamp is not a time stamp, and the edges of minutes and offsets.
LEMMA NoStampIsNone == NoStamp \notin Stamp
<1>1. \A s \in Stamp : "y" \in DOMAIN s
  BY DEF Stamp
<1>2. "y" \notin DOMAIN NoStamp
  BY DEF NoStamp
<1> QED
  BY <1>1, <1>2

LEMMA Within ==
  ASSUME NEW x \in Int
  PROVE  /\ Minute(x) <=> 0 <= x /\ x <= 1439
         /\ Offset(x) <=> -1439 <= x /\ x <= 1439
BY DEF Minute, Offset

\* What is no date, minute or offset is refused.
LEMMA NotSpelt ==
  ASSUME NEW s,
         ~ (Month(s.m) /\ s.d \in 1..timestampDays(s.y, s.m) /\ Minute(s.at) /\ Offset(s.ahead))
  PROVE  normalizedTimestamp(s) = NoStamp
<1> DEFINE at   == s.at - s.ahead
           day  == IF at < 0 THEN s.d - 1 ELSE IF at >= 1440 THEN s.d + 1 ELSE s.d
           back == IF day > 0 THEN <<s.y, s.m>>
                   ELSE IF s.m = 1 THEN <<s.y - 1, 12>> ELSE <<s.y, s.m - 1>>
           days == IF day > 0 THEN day ELSE timestampDays(back[1], back[2])
           over == days > timestampDays(back[1], back[2])
           next == IF ~ over THEN back
                   ELSE IF back[2] = 12 THEN <<back[1] + 1, 1>> ELSE <<back[1], back[2] + 1>>
           far  == ~ FourDigits(next[1])
           made == [y |-> next[1], m |-> next[2], d |-> IF over THEN 1 ELSE days,
                    at |-> at % 1440, ahead |-> 0]
<1>1. normalizedTimestamp(s) =
        IF \/ ~ Month(s.m) \/ s.d \notin 1..timestampDays(s.y, s.m)
           \/ ~ Minute(s.at) \/ ~ Offset(s.ahead) \/ far
        THEN NoStamp ELSE made
  BY DEF normalizedTimestamp
<1> HIDE DEF far, made
<1> QED
  BY <1>1

\* A writer keeps the moment, or refuses what is none.
LEMMA WritesWell ==
  ASSUME NEW s \in Stamp
  PROVE  WellWritten(normalizedTimestamp(s), s)
<1> DEFINE n   == normalizedTimestamp(s)
           min == s.at - s.ahead
<1>1. s.y \in Int /\ s.m \in Int /\ s.d \in Int /\ s.at \in Int /\ s.ahead \in Int
  BY DEF Stamp
<1>2. IsMoment(s) <=> /\ IsDate(s) /\ Minute(s.at) /\ Offset(s.ahead)
                       /\ Days0(s) \in DayOf(0, 1, 1)..DayOf(9999, 12, 31)
  BY DEF IsMoment
<1>3. CASE ~ (Month(s.m) /\ Minute(s.at) /\ Offset(s.ahead))
  <2>1. n = NoStamp
    BY <1>3, NotSpelt
  <2>2. ~ IsMoment(s)
    BY <1>3, <1>2 DEF IsDate, Month
  <2> QED
    BY <2>2, <2>1 DEF WellWritten
<1>4. CASE Month(s.m) /\ Minute(s.at) /\ Offset(s.ahead)
  <2>1. IsDate(s) <=> s.d \in 1..timestampDays(s.y, s.m)
    <3>1. s.d >= 1 /\ DayOf(s.y, s.m, s.d) < NextMonth(s.y, s.m)
            <=> s.d \in 1..timestampDays(s.y, s.m)
      BY <1>1, <1>4, DatesAre
    <3> QED
      BY <1>4, <3>1 DEF IsDate, Month
  <2>2. CASE s.d \notin 1..timestampDays(s.y, s.m)
    <3>1. n = NoStamp
      BY <2>2, NotSpelt
    <3> QED
      BY <1>2, <2>1, <2>2, <3>1 DEF WellWritten
  <2>3. CASE s.d \in 1..timestampDays(s.y, s.m)
    <3>1. min \in Int /\ -1439 <= min /\ min <= 2878
      <4>1. 0 <= s.at /\ s.at <= 1439 /\ -1439 <= s.ahead /\ s.ahead <= 1439
        BY <1>1, <1>4, Within
      <4> QED
        BY <1>1, <4>1
    <3> HIDE DEF min, n
    <3>2. PICK year \in Int, month \in Int, day \in Int :
            /\ Month(month) /\ day \in 1..timestampDays(year, month)
            /\ DayOf(year, month, day) = DayOf(s.y, s.m, s.d) + (min \div 1440)
            /\ n = Written(year, month, day, min)
      <4>1. \A y, m, d, mm \in Int :
              s.y = y /\ s.m = m /\ s.d = d /\ s.at - s.ahead = mm /\ Month(m)
              /\ -1439 <= mm /\ mm <= 2878 /\ d \in 1..timestampDays(y, m) =>
                \E year, month, day \in Int :
                  /\ Month(month) /\ day \in 1..timestampDays(year, month)
                  /\ DayOf(year, month, day) = DayOf(y, m, d) + (mm \div 1440)
                  /\ normalizedTimestamp(s) = Written(year, month, day, mm)
        BY <1>4, Carried
      <4>2. s.at - s.ahead = min
        BY DEF min
      <4> QED
        BY <1>1, <1>4, <2>3, <3>1, <4>1, <4>2 DEF n
    <3>3. Days0(s) = DayOf(year, month, day)
      <4>1. Days0(s) = DayOf(s.y, s.m, s.d) + (min \div 1440)
        BY DEF Days0, min
      <4> QED
        BY <3>2, <4>1
    <3>4. FourDigits(year) <=> Days0(s) \in DayOf(0, 1, 1)..DayOf(9999, 12, 31)
      BY <3>2, <3>3, InYears
    <3>5. IsMoment(s) <=> FourDigits(year)
      BY <1>4, <1>2, <2>1, <2>3, <3>4
    <3>6. CASE ~ FourDigits(year)
      <4>1. n = NoStamp
        BY <3>2, <3>6 DEF Written
      <4> QED
        BY <3>5, <3>6, <4>1 DEF WellWritten, n
    <3>7. CASE FourDigits(year)
      <4>1. n = [y |-> year, m |-> month, d |-> day, at |-> min % 1440, ahead |-> 0]
        BY <3>2, <3>7 DEF Written
      <4>2. min % 1440 \in 0..1439 /\ min % 1440 \in Int
        BY <3>1
      <4>3. n \in Stamp
        BY <3>2, <4>1, <4>2 DEF Stamp
      <4>4. /\ n.y = year /\ n.m = month /\ n.d = day /\ n.at = min % 1440 /\ n.ahead = 0
        BY <4>1
      <4>5. IsDate(n)
        <5>1. day >= 1 /\ DayOf(year, month, day) < NextMonth(year, month)
          BY <3>2, DatesAre
        <5> QED
          BY <3>2, <4>4, <5>1 DEF IsDate, Month
      <4>6. (n.at - n.ahead) \div 1440 = 0 /\ (n.at - n.ahead) % 1440 = min % 1440
        BY <4>2, <4>4
      <4>7. Days0(n) = Days0(s)
        <5>1. DayOf(year, month, day) \in Int
          BY <3>2, DaysFollow
        <5> QED
          BY <3>3, <4>4, <4>6, <5>1 DEF Days0
      <4>8. Instant(n) = Instant(s)
        BY <4>6, <4>7 DEF Instant, min
      <4>9. Minute(n.at) /\ n.ahead = 0
        BY <4>2, <4>4 DEF Minute
      <4>10. WellWritten(n, s)
        BY <3>5, <3>7, <4>3, <4>5, <4>8, <4>9, NoStampIsNone DEF WellWritten
      <4> QED
        BY <4>10 DEF n
    <3> QED
      BY <3>6, <3>7
  <2> QED
    BY <2>2, <2>3
<1> QED
  BY <1>3, <1>4

LEMMA StampInvInit == StampInit => StampInv
<1>1. Spelt \subseteq Stamp
  <2>1. Years \subseteq Int
    BY StampsAssumption
  <2>2. Months \subseteq Int /\ Days \subseteq Int /\ Minutes \subseteq Int /\ Offsets \subseteq Int
    BY StampsAssumption
  <2> QED
    BY <2>1, <2>2 DEF Spelt, Stamp
<1> QED
  BY <1>1 DEF StampInit, StampInv

LEMMA StampInvStep == StampInv /\ [Write]_stampVars => StampInv'
<1> SUFFICES ASSUME StampInv, [Write]_stampVars PROVE StampInv'
  OBVIOUS
<1>1. CASE UNCHANGED stampVars
  BY <1>1 DEF stampVars, StampInv
<1>2. CASE Write
  <2>1. stamp \in Stamp /\ told \in Stamp
    BY <1>2 DEF Write, StampInv, WellWritten
  <2>2. WellWritten(stamp', stamp)
    BY <1>2, <2>1, WritesWell DEF Write
  <2>3. passed' /\ told' = told
    BY <1>2 DEF Write
  <2>4. CASE ~ passed
    BY <2>1, <2>2, <2>3, <2>4 DEF StampInv
  <2>5. CASE passed
    <3>1. IsMoment(told) /\ Instant(stamp) = Instant(told)
          /\ IsDate(stamp) /\ Minute(stamp.at) /\ stamp.ahead = 0
      BY <1>2, <2>5 DEF Write, StampInv, WellWritten
    <3>2. Days0(stamp) = Days0(told)
      BY <3>1 DEF Instant
    <3>3. IsMoment(stamp)
      <4>1. Offset(stamp.ahead)
        BY <3>1 DEF Offset
      <4> QED
        BY <3>1, <3>2, <4>1 DEF IsMoment
    <3>4. WellWritten(stamp', told)
      BY <2>2, <3>1, <3>3 DEF WellWritten
    <3> QED
      BY <2>1, <2>3, <3>4 DEF StampInv
  <2> QED
    BY <2>4, <2>5
<1> QED
  BY <1>1, <1>2

\* However often and whoever writes it, a time stamp keeps the minute it tells
\* or is refused at once, for every year, date, minute and offset.
THEOREM StampsKeepInstants == StampSpec => []StampKeepsInstant
<1>1. StampInv => StampKeepsInstant
  BY DEF StampInv, WellWritten, StampKeepsInstant
<1> QED
  BY StampInvInit, StampInvStep, <1>1, PTL DEF StampSpec
=============================================================================
