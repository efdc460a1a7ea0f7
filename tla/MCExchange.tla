----------------------------- MODULE MCExchange -----------------------------
(***************************************************************************)
(* One exchange with the generated codec in the place of its parameters,   *)
(* and, apart from the exchange, samples of messages written and read back *)
(* and time stamps passed on.  A behaviour runs an exchange, has a sample  *)
(* or passes a time stamp.                                                 *)
(***************************************************************************)
EXTENDS Sequences, TLC, Exchange, Stamps

CONSTANTS
  bad,
  Int32Max, Int64Max, DepthLimit

VARIABLE sample

M == INSTANCE Messages WITH BadText <- {bad}

ASSUME CodecAssumption ==
  /\ {Int32Max, Int64Max, DepthLimit} \subseteq Nat
  /\ Int32Max < Int64Max

MCOffsets == {-1439, -60, 0, 60, 1439, 1440}   \* in minutes, the last is none

NoSample == [kind |-> "none"]

MCWriteArguments(method, v) == M!encArguments(method, v)
MCReadArguments(method, t)  == M!decodeArguments(method, t)
MCWriteResult(method, v)    == M!encResult(method, v)
MCReadResult(method, t)     == M!decodeResult(method, t)
MCWriteFrame(v)   == M!encFrame(v)
MCReadFrame(text) == M!decodeFrame(text)
MCWriteReply(v)   == M!encReply(v)
MCReadReply(text) == M!decodeReply(text)
MCWriteError(v)   == M!encError(v)
MCReadError(t)    == M!decodeError(t)
MCIsEmpty(t)      == t = M!Object(<<>>)

-----------------------------------------------------------------------------
(* Calls *)

Allow(hosts) == [hosts |-> hosts]

Pick(model, allowed, profile) ==
  [request |-> [model |-> model, fresh |-> FALSE, allowed |-> allowed,
                profile |-> profile]]

Offer(profile, placement, reserve) ==
  [request |-> [profile |-> profile, placement |-> placement, reserve |-> reserve,
                fresh |-> TRUE]]

C(method, arguments) == [method |-> method, arguments |-> arguments]

CleanCalls ==
  {C("Models", [fresh |-> f]) : f \in BOOLEAN} \cup {C("Hosts", [fresh |-> FALSE])}
  \cup {C("Pick", Pick("m", a, p)) : a \in {Nil, Allow(<<>>), Allow(<<"s", "t">>)},
                                     p \in {"", "chat"}}
  \cup {C("Offer", Offer("chat", p, Int64Max)) : p \in {"local", "any"}}

SpoiltCalls ==
  {C("Pick", Pick(bad, Nil, "")), C("Pick", Pick("m", Allow(<<"s", bad>>), "")),
   C("Offer", Offer("chat", "elsewhere", 0)), C("Offer", Offer(bad, "any", 0))}

MCCalls == CleanCalls \cup SpoiltCalls

-----------------------------------------------------------------------------
(* What providers have *)

Observed == [NoObservation EXCEPT !.took_ms = 3, !.caller.user_description = "u"]

Noon == [y |-> 2024, m |-> 2, d |-> 29, at |-> 720, ahead |-> 0]
Late == [Noon EXCEPT !.y = 10000]   \* a time the wire's form cannot tell

Alias(name, hosted, profiles, length) ==
  [host |-> "s", name |-> name, resident |-> ~ hosted, servable |-> TRUE,
   hosted |-> hosted, profiles |-> profiles, held_in |-> profiles,
   context_length |-> length, effective_context_length |-> length]

Family(name, source, aliases, components) ==
  [family |-> name, names |-> aliases, held_in |-> <<>>, family_source |-> source,
   components |-> components]

Models(families) == [observation |-> Observed, models |-> families]

CleanModels ==
  {Models(<<>>)} \cup
  {Models(<< Family("f", source, <<Alias("m", TRUE, p, l), Alias("n", FALSE, p, l)>>,
                    << [store |-> "b", role |-> "vae", name |-> source] >>) >>) :
     source \in {"", "h"}, p \in {<<>>, <<"chat", "embed">>}, l \in {0, Int64Max}}

SpoiltModels == {Models(<<Family("f", "", <<Alias(bad, FALSE, <<>>, 0)>>, <<>>)>>)}

State(cause, words) ==
  [host |-> "s", base |-> "b", up |-> cause = "", why |-> words, installed |-> 1,
   resident |-> <<"m">>, servable |-> TRUE, hosted |-> words # "", wire |-> words,
   credential |-> words, declared_by |-> words, profiles |-> <<>>,
   domain |-> words, availability_cause |-> cause]

Hosts(states, stamps) ==
  [observation |-> Observed, hosts |-> states, doubled |-> <<"m">>,
   asked |-> [i \in DOMAIN stamps |->
     [at |-> stamps[i], caller |-> "c", user |-> "u", model |-> "m", family |-> "f",
      verdict |-> "local", host |-> "s"]]]

CleanHosts == {Hosts(<<>>, <<>>), Hosts(<<State("", "w"), State("timeout", "")>>, <<Noon>>)}
SpoiltHosts == {Hosts(<<State("", bad)>>, <<>>), Hosts(<<>>, <<Noon, Late>>)}

Route(authorised, why) ==
  [observation |-> Observed,
   decision |-> [asked |-> "m", family |-> "f", verdict |-> "local", host |-> "s",
                 model |-> "m", endpoint |-> "e", installed_on |-> <<"s">>,
                 authorised |-> authorised, withheld |-> <<>>, loads |-> 1,
                 why |-> why]]

CleanRoutes  == {Route(a, "w") : a \in {Nil, <<>>, <<"s">>}}
SpoiltRoutes == {Route(Nil, bad), Route(<<bad>>, "w")}

Snapshot(unknown) ==
  [observation |-> Observed,
   offers |-> << [family |-> "f", names |-> <<"m">>, servers |-> <<"s">>,
                  context |-> 8, context_source |-> "maximum", input |-> 4,
                  unknown |-> unknown] >>]

CleanSnapshots  == {Snapshot(<<>>), Snapshot(<<"n">>)}
SpoiltSnapshots == {Snapshot(<<bad>>)}

Clean == [m \in Method |-> CASE m = "Models" -> CleanModels [] m = "Hosts" -> CleanHosts
                             [] m = "Pick" -> CleanRoutes [] m = "Offer" -> CleanSnapshots]
Spoilt == [m \in Method |-> CASE m = "Models" -> SpoiltModels [] m = "Hosts" -> SpoiltHosts
                             [] m = "Pick" -> SpoiltRoutes [] m = "Offer" -> SpoiltSnapshots]

Answered(kind, code, error) == [kind |-> kind, code |-> code, error |-> error]

\* The receiver's own refusals, the provider's, and what it answers.
NoAnswers ==
  {Answered("refused", "caller_refused", "caller is not bound"),
   Answered("refused", "forbidden", "e"), Answered("refused", "unavailable", "e"),
   Answered("answered", "unavailable", "e"), Answered("answered", "invalid_request", "e"),
   Answered("answered", "forbidden", "e"), Answered("answered", "not_permitted", "e"),
   Answered("answered", "", "e"), Answered("answered", "", bad),
   Answered("answered", bad, ""), [kind |-> "panic"]}

\* Models whose parts are all named; the others are only sampled.
Named == [Clean EXCEPT !["Models"] = {v \in @ : \A i \in DOMAIN v.models :
                                        v.models[i].family_source # ""}]

MCAnswers == [m \in Method |-> NoAnswers
  \cup {Answered("answered", "", "") @@ [out |-> out] : out \in Named[m] \cup Spoilt[m]}
  \cup IF m = "Pick" THEN {Answered("answered", "", "")
                           @@ [out |-> [observation |-> Observed, decision |-> Nil]]}
       ELSE {}]

\* The errors that cannot be read are those with a text that is none.
ASSUME ErrorsAssumption ==
  \A c \in MCCalls : \A a \in MCAnswers[c.method] :
    LET came == Came(c.method, a)
    IN came[1] = "error" =>
         (ReadError(WriteError(came[2]))[1] = "ok" <=>
            bad \notin {came[2].code, came[2].message})

-----------------------------------------------------------------------------
(* Texts no client of this package sends, or no dispatcher answers this    *)
(* call with.                                                              *)

Whole(members)      == [value |-> M!Object(members), trailing |-> FALSE]
Trailing(members)   == [value |-> M!Object(members), trailing |-> TRUE]

RECURSIVE Nested(_)
Nested(n) == IF n = 0 THEN M!Bool(TRUE) ELSE M!Array(<<Nested(n - 1)>>)

FrameMembers(version, service, method, arguments) ==
  << <<"version", M!Number(version)>>, <<"service", M!Text(service)>>,
     <<"method", M!Text(method)>>, <<"arguments", arguments>> >>

Fresh  == M!Object(<< <<"fresh", M!Bool(TRUE)>> >>)
Nothing == M!Object(<<>>)

Request(members) == M!Object(<< <<"request", M!Object(members)>> >>)
OfferMembers(placement, reserve) ==
  << <<"profile", M!Text("chat")>>, <<"placement", placement>>,
     <<"reserve", reserve>>, <<"fresh", M!Bool(TRUE)>> >>

\* The last two fields of a frame in the other order, a frame with the same
\* field twice, one short of a field, one with a field too many.
Turned(ms) == <<ms[1], ms[2], ms[4], ms[3]>>

GoodFrame == FrameMembers(1, Router, "Models", Fresh)

MCStrangeFrames ==
  {Whole(GoodFrame), Whole(Turned(GoodFrame)), Trailing(GoodFrame),
   Whole(GoodFrame \o GoodFrame), Whole(SubSeq(GoodFrame, 1, 3)),
   Whole(Append(GoodFrame, <<"deadline", M!Number(1)>>)),
   Whole(Append(GoodFrame, <<bad, M!Number(1)>>)),
   [value |-> M!Junk, trailing |-> FALSE], [value |-> M!Array(<<>>), trailing |-> FALSE],
   Whole(<< <<"version", M!Odd>> >>),
   Whole(FrameMembers(2, Router, "Models", Fresh)),
   Whole(FrameMembers(Int32Max + 1, Router, "Models", Fresh)),
   Whole(FrameMembers(1, "elsewhere", "Models", Fresh)),
   Whole(FrameMembers(1, Router, "Load", Fresh)),
   Whole(FrameMembers(1, EndpointContract, "Describe", Nothing)),
   Whole(FrameMembers(1, EndpointContract, "Describe", Fresh)),
   Whole(FrameMembers(1, EndpointContract, "Models", Nothing)),
   Whole(FrameMembers(1, Router, "Hosts", Nested(DepthLimit - 1))),
   Whole(FrameMembers(1, Router, "Hosts", Nested(DepthLimit)))}
  \cup {Whole(FrameMembers(1, Router, "Hosts", t)) :
          t \in {Nothing, M!Null, Fresh,
                 M!Object(<< <<"fresh", M!Number(1)>> >>),
                 M!Object(<< <<"fresh", M!Bool(TRUE)>>, <<"later", M!Null>> >>),
                 M!Object(<< <<"fresh", M!Junk>> >>),
                 M!Object(<< <<"fresh", M!Bool(TRUE)>>, <<"fresh", M!Bool(TRUE)>> >>)}}
  \cup {Whole(FrameMembers(1, Router, "Offer", Request(OfferMembers(p, r)))) :
          p \in {M!Text("any"), M!Text("elsewhere"), M!Null},
          r \in {M!Number(0), M!Number(Int64Max), M!Number(Int64Max + 1), M!Odd}}
  \cup {Whole(FrameMembers(1, Router, "Pick", Request(
          << <<"model", M!Text("m")>>, <<"fresh", M!Bool(FALSE)>>, <<"allowed", a>> >>))) :
          a \in {M!Null, Nothing, M!Object(<< <<"hosts", M!Array(<<M!Text("s")>>)>> >>),
                 M!Object(<< <<"hosts", M!Array(<<M!Odd>>)>> >>),
                 M!Object(<< <<"hosts", M!Array(<<>>)>>, <<"later", M!Null>> >>)}}

Another(method) == IF method = "Models" THEN "Hosts" ELSE "Models"

ReplyMembers(version, service, method, payload) ==
  << <<"version", M!Number(version)>>, <<"service", M!Text(service)>>,
     <<"method", M!Text(method)>>, <<"ok", M!Bool(TRUE)>>, <<"payload", payload>> >>

MCStrangeReplies == [m \in Method |->
  LET payload == M!encResult(m, Handled(m, Answered("answered", "", "")
                    @@ [out |-> CHOOSE out \in Clean[m] : TRUE])[2])[2]
      members(v, s, n) == ReplyMembers(v, s, n, payload)
  IN {Whole(members(2, Router, m)), Whole(members(1, "elsewhere", m)),
      Whole(members(1, Router, Another(m))), Trailing(members(1, Router, m)),
      Whole(SubSeq(members(1, Router, m), 1, 4)),
      [value |-> M!Null, trailing |-> FALSE]}]

MCDescription == M!Object(<< <<"name", M!Text("router")>> >>)

-----------------------------------------------------------------------------
(* Samples *)

Samples ==
  {NoSample}
  \cup {[kind |-> "call", call |-> c] : c \in MCCalls}
  \cup {[kind |-> "answer", method |-> m, out |-> out] :
          m \in Method, out \in UNION {Clean[n] \cup Spoilt[n] : n \in Method}}

MCInit ==
  /\ Init
  /\ \/ sample \in Samples /\ told = NoStamp
     \/ sample = NoSample /\ told \in Spelt
  /\ sample.kind = "answer" => sample.out \in Clean[sample.method] \cup Spoilt[sample.method]
  /\ StampInit

MCNext ==
  /\ UNCHANGED sample
  /\ \/ sample = NoSample /\ told = NoStamp /\ Next /\ UNCHANGED stampVars
     \/ Write /\ UNCHANGED vars

MCSpec == MCInit /\ [][MCNext]_<<vars, sample, stampVars>>

-----------------------------------------------------------------------------
(* What a later version of this contract may write *)

\* A member of a name this version has not, there twice, with the value t.
Later(t) == << <<"later", M!Array(<<M!Null, M!Odd>>)>>, <<"later", t>> >>

\* A text with such members in every record, but not in those under "but".
RECURSIVE Grown(_, _, _)
Grown(t, extra, but) ==
  CASE t[1] = "array"  -> M!Array([i \in DOMAIN t[2] |-> Grown(t[2][i], extra, but)])
    [] t[1] = "object" ->
         M!Object([i \in DOMAIN t[2] |->
                    <<t[2][i][1], IF t[2][i][1] \in but THEN t[2][i][2]
                                  ELSE Grown(t[2][i][2], extra, but)>>] \o extra)
    [] OTHER -> t

\* The value of a result is grown, and not the record that holds it.
GrownResult(t, extra, but) ==
  M!Object(<< <<"value", Grown(t[2][1][2], extra, but)>> >>)

-----------------------------------------------------------------------------
(* Properties of the codec and of the exchange with it *)

\* Whatever is written is read back as it was, and what could not be read
\* back is not written or refused by the reader: the writers and the readers
\* of rec.go are generated apart, each with its own idea of what is optional.
\* A call can be made unless it has a text that is none or a word that is none.
\* A result of a later version is read as this version's, without its members
\* more, if they can be read at all; a call, a result's own record and an
\* allowance may have none (unknown_fields of router.thrift).
RoundTrip ==
  /\ sample.kind = "call" =>
       LET c == sample.call
           w == M!encArguments(c.method, c.arguments)
           r == M!decodeArguments(c.method, w[2])
           grown == M!decodeArguments(c.method, Grown(w[2], Later(M!Null), {}))
       IN IF c \in CleanCalls
          THEN w[1] = "ok" /\ r = M!Ok(c.arguments) /\ Made(c)
               /\ grown = M!Refused("unknown_field")
          ELSE (w[1] = "refused" \/ r[1] = "refused") /\ ~ Made(c)
  /\ sample.kind = "answer" =>
       LET v == ResultOf(sample.method, sample.out)[2]
           w == M!encResult(sample.method, v)
           r == M!decodeResult(sample.method, w[2])
           R(t, but) == M!decodeResult(sample.method, GrownResult(w[2], Later(t), but))
           allowing == sample.method = "Pick" /\ sample.out.decision.authorised # Nil
       IN IF sample.out \in Clean[sample.method]
          THEN /\ w[1] = "ok" /\ r = M!Ok(v)
               /\ R(M!Null, {"authorised"}) = M!Ok(v)
               /\ R(M!Text(bad), {"authorised"}) = M!Refused("bad_string")
               /\ R(M!Null, {}) = IF allowing THEN M!Refused("unknown_field") ELSE M!Ok(v)
               /\ M!decodeResult(sample.method, Grown(w[2], Later(M!Null), {"value"}))
                    = M!Refused("unknown_field")
          ELSE w[1] = "refused" \/ r[1] = "refused"
=============================================================================
