------------------------------ MODULE Exchange ------------------------------
(***************************************************************************)
(* One call of router@1 from end to end: the generated client writes it as *)
(* a frame, the dispatcher reads the frame and calls the service's         *)
(* handler, and the reply makes its way back.  Instead of a client of this *)
(* package a stranger may send any text at all.                            *)
(*                                                                         *)
(* The transport is external.  It may lose either text, give up waiting    *)
(* while the service goes on, or hand back a text that is no reply to this *)
(* call.  What the provider answers is chosen when the handler asks it.    *)
(* The codec is a parameter: readers give <<"ok", value>> or <<"refused",  *)
(* word>>, writers that can panic the same.                                *)
(***************************************************************************)
CONSTANTS
  Method,          \* the methods of the service
  Calls,           \* the calls a client is asked to make
  Answers,         \* Method -> what receiver.answer may come to
  StrangeFrames,   \* texts no client of this package writes
  StrangeReplies,  \* Method -> texts that are no reply to a call of it
  Description,     \* the payload Describe answers with
  IsEmpty(_),      \* the arguments are {}
  WriteArguments(_, _), ReadArguments(_, _), WriteResult(_, _), ReadResult(_, _),
  WriteFrame(_), ReadFrame(_), WriteReply(_), ReadReply(_),
  WriteError(_), ReadError(_),
  Nil, NoCall, NoText, Unserved, Unheard, Failed

VARIABLES
  client,    \* the caller: "idle", "waiting" for a reply, "done"
  call,      \* the call it makes
  sent,      \* the request text, once the transport has it
  server,    \* the dispatcher: "idle", "serving" in the handler, "done"
  given,     \* what the handler was called with, and the frame's names
  request,   \* what the provider is asked
  outcome,   \* what the call came to at the service
  answer,    \* the reply text
  heard,     \* what the client returned to its caller
  broke      \* the transport failed this call

vars == <<client, call, sent, server, given, request, outcome, answer, heard, broke>>

Router           == "abstraction.router/router@1"
EndpointContract == "abstraction.facade/endpoint@1"

Value(v)             == <<"value", v>>
Error(code, message) == <<"error", [code |-> code, message |-> message]>>

Init ==
  /\ client = "idle" /\ call = NoCall /\ sent = NoText
  /\ server = "idle" /\ given = NoCall /\ request = NoCall /\ outcome = Unserved
  /\ answer = NoText /\ heard = Unheard /\ broke = FALSE

-----------------------------------------------------------------------------
(* The client *)

FrameOf(c, arguments) == [version |-> 1, service |-> Router, method |-> c.method,
                          arguments |-> arguments]

Arguments(c) == WriteArguments(c.method, c.arguments)[2]
FrameText(c) == WriteFrame(FrameOf(c, Arguments(c)))

Made(c) == /\ WriteArguments(c.method, c.arguments)[1] = "ok"
           /\ ReadFrame(FrameText(c))[1] = "ok"

\* A client that cannot write its call, or not as a frame it could read
\* itself, sends nothing.
Ask(c) ==
  /\ client = "idle" /\ sent = NoText
  /\ call' = c
  /\ \/ /\ Made(c)
        /\ client' = "waiting" /\ sent' = FrameText(c)
        /\ UNCHANGED heard
     \/ /\ ~ Made(c)
        /\ client' = "done" /\ heard' = Failed
        /\ UNCHANGED sent
  /\ UNCHANGED <<server, given, request, outcome, answer, broke>>

\* A refused offer carries nothing but its outcome.
NoObservation == [caller |-> [user_description |-> "", path_description |-> ""],
                  took_ms |-> 0, cache_age_ms |-> 0]

Carries(snapshot) == snapshot.offers # <<>> \/ snapshot.observation # NoObservation

ValidResult(method, v) ==
  method = "Offer" /\ v.value.outcome # "offered" => ~ Carries(v.value)

\* Mutant: the reply's names are not compared with the call's.
HeardAnyIn(text) ==
  LET reply == ReadReply(text)
      r     == reply[2]
      error == ReadError(r.payload)
      value == ReadResult(call.method, r.payload)
  IN IF reply[1] = "refused" THEN Failed
     ELSE IF r.version # 1 THEN Failed
     ELSE IF ~ r.ok
       THEN IF error[1] = "ok" /\ error[2].code # "" THEN <<"error", error[2]>>
            ELSE Failed
     ELSE IF value[1] = "ok" /\ ValidResult(call.method, value[2]) THEN Value(value[2])
     ELSE Failed

\* What the client makes of a reply: only one of this version that names the
\* call's own service and method is looked into.
HeardIn(text) ==
  LET reply == ReadReply(text)
      r     == reply[2]
      error == ReadError(r.payload)
      value == ReadResult(call.method, r.payload)
  IN IF reply[1] = "refused" THEN Failed
     ELSE IF r.version # 1 \/ r.service # Router \/ r.method # call.method THEN Failed
     ELSE IF ~ r.ok
       THEN IF error[1] = "ok" /\ error[2].code # "" THEN <<"error", error[2]>>
            ELSE Failed
     ELSE IF value[1] = "ok" /\ ValidResult(call.method, value[2]) THEN Value(value[2])
     ELSE Failed

\* Mutant: a client that has answered its caller goes on waiting.
ReturnAgain(h) ==
  /\ client = "waiting"
  /\ client' = "waiting"
  /\ heard' = h
  /\ UNCHANGED <<call, sent, server, given, request, outcome, answer>>

Return(h) ==
  /\ client = "waiting"
  /\ client' = "done"
  /\ heard' = h
  /\ UNCHANGED <<call, sent, server, given, request, outcome, answer>>

Hear == answer # NoText /\ Return(HeardIn(answer)) /\ UNCHANGED broke

\* The dispatcher gave the transport an error and no reply.
HearNothing == server = "done" /\ answer = NoText /\ Return(Failed) /\ UNCHANGED broke

\* The transport's errors and deadlines, wherever the service stands.
GiveUp == Return(Failed) /\ broke' = TRUE

Misdeliver ==
  /\ client = "waiting"
  /\ \E text \in StrangeReplies[call.method] : Return(HeardIn(text))
  /\ broke' = TRUE

-----------------------------------------------------------------------------
(* The dispatcher *)

StrangerSends ==
  /\ client = "idle" /\ sent = NoText
  /\ sent' \in StrangeFrames
  /\ client' = "done"
  /\ UNCHANGED <<call, server, given, request, outcome, answer, heard, broke>>

Replied(frame, came, payload) ==
  [version |-> 1, service |-> frame.service, method |-> frame.method,
   ok |-> came[1] = "value",
   payload |-> IF came[1] = "value" THEN payload ELSE WriteError(came[2])]

\* The reply to a frame.  One that could not be read back is not sent.
ReplyTo(frame, came, payload) ==
  LET text == WriteReply(Replied(frame, came, payload))
  IN IF ReadReply(text)[1] = "ok" THEN text ELSE NoText

Conclude(frame, came, payload) ==
  /\ server' = "done"
  /\ outcome' = came
  /\ answer' = ReplyTo(frame, came, payload)

\* A frame that cannot be read, or of another version, has no reply.
Discard ==
  /\ server = "idle" /\ sent # NoText
  /\ ReadFrame(sent)[1] = "ok" => ReadFrame(sent)[2].version # 1
  /\ server' = "done"
  /\ UNCHANGED <<client, call, sent, given, request, outcome, answer, heard, broke>>

Describe(frame) ==
  /\ frame.version = 1 /\ frame.service = EndpointContract
  /\ Conclude(frame,
       IF frame.method # "Describe" THEN Error("unknown_method", "")
       ELSE IF ~ IsEmpty(frame.arguments) THEN Error("unknown_field", "")
       ELSE Value(Description), Description)
  /\ UNCHANGED <<given, request>>

Refuse(frame) ==
  /\ frame.version = 1 /\ frame.service # EndpointContract
  /\ \/ /\ frame.service # Router
        /\ Conclude(frame, Error("unknown_service", ""), Nil)
     \/ /\ frame.service = Router /\ frame.method \notin Method
        /\ Conclude(frame, Error("unknown_method", ""), Nil)
     \/ /\ frame.service = Router /\ frame.method \in Method
        /\ ReadArguments(frame.method, frame.arguments)[1] = "refused"
        /\ Conclude(frame,
             Error(ReadArguments(frame.method, frame.arguments)[2], ""), Nil)
  /\ UNCHANGED <<given, request>>

\* What the handler asks the provider.
\* Mutant: an allowance of no server is taken for none.
fromWirePickRequestOpen(p) ==
  [op |-> "route", model |-> p.model, fresh |-> p.fresh, profile |-> p.profile,
   hosts |-> IF p.allowed = Nil THEN Nil
             ELSE IF p.allowed.hosts = <<>> THEN Nil ELSE p.allowed.hosts]

fromWirePickRequest(p) ==
  [op |-> "route", model |-> p.model, fresh |-> p.fresh, profile |-> p.profile,
   hosts |-> IF p.allowed = Nil THEN Nil ELSE p.allowed.hosts]

fromWireOfferRequest(o) ==
  [op |-> "offer", profile |-> o.profile, placement |-> o.placement,
   reserve |-> o.reserve, fresh |-> o.fresh]

RequestOf(method, v) ==
  CASE method = "Models" -> [op |-> "models", fresh |-> v.fresh]
    [] method = "Hosts"  -> [op |-> "residency", fresh |-> v.fresh]
    [] method = "Pick"   -> fromWirePickRequest(v.request)
    [] method = "Offer"  -> fromWireOfferRequest(v.request)

Invoke(frame) ==
  LET v == ReadArguments(frame.method, frame.arguments)
  IN /\ frame.version = 1 /\ frame.service = Router /\ frame.method \in Method
     /\ v[1] = "ok"
     /\ given' = [method |-> frame.method, arguments |-> v[2]]
     /\ request' = RequestOf(frame.method, v[2])
     /\ server' = "serving"
     /\ UNCHANGED <<outcome, answer>>

Receive ==
  /\ server = "idle" /\ sent # NoText
  /\ ReadFrame(sent)[1] = "ok"
  /\ LET frame == ReadFrame(sent)[2]
     IN Describe(frame) \/ Refuse(frame) \/ Invoke(frame)
  /\ UNCHANGED <<client, call, sent, heard, broke>>

-----------------------------------------------------------------------------
(* The handler.  An answer is a refusal of the receiver's own (binding or   *)
(* rights), the provider's response, or a panic of either.                  *)

\* Mutant: a refused offer tells how long its refusal took.
RefusalObserving(outcomeWord) ==
  Value([value |-> [observation |-> [NoObservation EXCEPT !.took_ms = 1],
                    offers |-> <<>>, outcome |-> outcomeWord]])

Refusal(outcomeWord) ==
  Value([value |-> [observation |-> NoObservation, offers |-> <<>>,
                    outcome |-> outcomeWord]])

providerOfferResponseError(a) ==
  Refusal(CASE a.code = "invalid_request" -> "invalid"
            [] a.code = "forbidden"       -> "forbidden"
            [] a.code = "not_permitted"   -> "not_permitted"
            [] OTHER -> "unavailable")

providerResponseError(a) == Error(IF a.code = "" THEN "internal" ELSE a.code, a.error)

\* Offer tells a policy's refusal as its outcome, the other methods as a code.
ReceiverError(method, a) ==
  CASE method = "Offer" /\ a.code = "forbidden"   -> Refusal("not_permitted")
    [] method = "Offer" /\ a.code = "unavailable" -> Refusal("unavailable")
    [] OTHER -> Error(a.code, a.error)

toWireHostState(h) ==
  [h EXCEPT !.availability_cause = IF @ = "" THEN Nil ELSE @]

toWireDecision(d) ==
  [d EXCEPT !.authorised = IF @ = Nil THEN Nil ELSE [hosts |-> @]]

ResultOf(method, out) ==
  CASE method = "Models" -> Value([value |-> out])
    [] method = "Hosts"  -> Value([value |-> [out EXCEPT !.hosts =
                              [i \in DOMAIN @ |-> toWireHostState(@[i])]]])
    [] method = "Pick"   ->
         IF out.decision = Nil THEN Error("internal", "provider returned no decision")
         ELSE Value([value |-> [out EXCEPT !.decision = toWireDecision(@)]])
    [] method = "Offer"  -> Value([value |-> [observation |-> out.observation,
                              offers |-> out.offers, outcome |-> "offered"]])

Handled(method, a) ==
  IF a.kind = "panic" THEN Error("handler_error", "handler failed")
  ELSE IF a.kind = "refused" THEN ReceiverError(method, a)
  ELSE IF a.error # "" \/ a.code # ""
    THEN IF method = "Offer" THEN providerOfferResponseError(a)
         ELSE providerResponseError(a)
  ELSE ResultOf(method, a.out)

\* A result is sent only if it can be written and read back.
Invoked(method, came) ==
  LET payload == WriteResult(method, came[2])
  IN IF /\ came[1] = "value"
        /\ payload[1] = "refused" \/ ReadResult(method, payload[2])[1] = "refused"
     THEN Error("invalid_result", "")
     ELSE came

Payload(method, came) == IF came[1] = "value" THEN WriteResult(method, came[2])[2] ELSE Nil

Came(method, a) == Invoked(method, Handled(method, a))

Serve(a) ==
  /\ server = "serving"
  /\ Conclude([service |-> Router, method |-> given.method], Came(given.method, a),
              Payload(given.method, Came(given.method, a)))
  /\ UNCHANGED <<client, call, sent, given, request, heard, broke>>

-----------------------------------------------------------------------------

Next ==
  \/ \E c \in Calls : Ask(c)
  \/ StrangerSends \/ Discard \/ Receive
  \/ server = "serving" /\ \E a \in Answers[given.method] : Serve(a)
  \/ Hear \/ HearNothing \/ GiveUp \/ Misdeliver

Spec == Init /\ [][Next]_vars

-----------------------------------------------------------------------------
(* What is assumed of the codec and of the transport.                      *)

\* A call that can be made is read as the call it is.
ASSUME CallsAssumption ==
  /\ NoCall \notin Calls /\ NoText \notin StrangeFrames /\ Unheard # Failed
  /\ \A c \in Calls :
       /\ c.method \in Method
       /\ FrameText(c) # NoText
       /\ Made(c) =>
            /\ ReadFrame(FrameText(c)) = <<"ok", FrameOf(c, Arguments(c))>>
            /\ ReadArguments(c.method, Arguments(c)) = <<"ok", c.arguments>>

\* Readers tell what they read or refuse it.  A reply that can be read is read
\* as the reply it is, and what it carries as what the call came to; and a
\* reply that carries a result, or an error that can be read, can be read.
ASSUME RepliesAssumption ==
  \A c \in Calls : \A a \in Answers[c.method] :
    LET came    == Came(c.method, a)
        replied == Replied([service |-> Router, method |-> c.method], came,
                           Payload(c.method, came))
    IN /\ came \notin {Unserved, Failed} /\ WriteReply(replied) # NoText
       /\ ReadReply(WriteReply(replied))[1] = "ok" =>
            ReadReply(WriteReply(replied))[2] = replied
       /\ came[1] = "value" =>
            /\ ReadResult(c.method, Payload(c.method, came))[1] \in {"ok", "refused"}
            /\ Value(ReadResult(c.method, Payload(c.method, came))[2]) = came
            /\ ReadReply(WriteReply(replied))[1] = "ok"
       /\ came[1] # "value" =>
            \/ ReadError(WriteError(came[2]))[1] # "ok"
            \/ /\ <<"error", ReadError(WriteError(came[2]))[2]>> = came
               /\ ReadReply(WriteReply(replied))[1] = "ok"

\* The service has four methods, and its receiver refuses with a code:
\* service.go's checks of the caller and of its rights each give one.
ASSUME MethodAssumption == Method \subseteq {"Models", "Hosts", "Pick", "Offer"}

ASSUME RefusalsAssumption ==
  \A m \in Method : \A a \in Answers[m] : a.kind = "refused" => a.code # ""

\* The transport hands no call the reply of another call of the same method: a
\* reply names its service and method and no call, and rec.go leaves correlation
\* to the transport (FrameExchanger).
ASSUME StrangeAssumption ==
  \A m \in Method : \A text \in StrangeReplies[m] :
    \/ ReadReply(text)[1] = "refused"
    \/ ReadReply(text)[2].version # 1
    \/ ReadReply(text)[2].service # Router
    \/ ReadReply(text)[2].method # m

-----------------------------------------------------------------------------
(* Properties *)

\* Who waits, what was sent, served and answered go together.
TypeOK ==
  /\ client \in {"idle", "waiting", "done"} /\ server \in {"idle", "serving", "done"}
  /\ broke \in BOOLEAN
  /\ call \in Calls \cup {NoCall}
  /\ client = "idle" => call = NoCall /\ sent = NoText /\ server = "idle"
  /\ client = "waiting" => call \in Calls /\ sent # NoText
  /\ client # "done" => heard = Unheard /\ broke = FALSE
  /\ server # "idle" => sent # NoText
  /\ server # "done" => outcome = Unserved /\ answer = NoText

\* A pick reaches the provider with its caller's allowance: none is none, and
\* an allowance of no server stays one (service.go and rec.go each tell an
\* absent allowance from an empty one in a way of their own).
AllowanceArrives ==
  call # NoCall /\ request # NoCall /\ call.method = "Pick" =>
    request.hosts = LET allowed == call.arguments.request.allowed
                    IN IF allowed = Nil THEN Nil ELSE allowed.hosts

\* The handler is called only with what a client of this package could have
\* sent, whatever text came: no word of no vocabulary, no number too wide and
\* nothing left out gets past the reader.
OnlyWritableServed ==
  given # NoCall =>
    LET w == WriteArguments(given.method, given.arguments)
    IN w[1] = "ok" /\ ReadArguments(given.method, w[2]) = <<"ok", given.arguments>>

\* A call fails for a cause: the transport broke it, the client could not make
\* it, or it came to an error that cannot be read.  Nothing else the service
\* does to a call is told as a failure of transport: no result is lost on its
\* way back, no refusal lacks a code, and no refused offer carries what
\* client/client.go's validateOfferSnapshot takes for a broken reply.
FailsForACause ==
  heard = Failed =>
    \/ broke
    \/ ~ Made(call)
    \/ /\ outcome # Unserved /\ outcome[1] = "error"
       /\ ReadError(WriteError(outcome[2]))[1] # "ok"

(* What a call promises.  A stranger's frame is no call of a client's.      *)

OutcomesOf(c) == {Came(c.method, a) : a \in Answers[c.method]}

Promised == INSTANCE Call WITH
  Calls <- Calls, Outcome <- OutcomesOf, asked <- call,
  served <- IF call = NoCall THEN Unserved ELSE outcome

\* An exchange implements a call: what a client hears is what its own call
\* came to at the handler, heard once, or that the call failed.
CallKept == Promised!Spec
=============================================================================
