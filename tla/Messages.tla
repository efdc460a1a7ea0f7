------------------------------ MODULE Messages ------------------------------
(***************************************************************************)
(* Every struct of router.thrift, as its generated writer writes it and as *)
(* its generated reader reads it, and the envelopes of a call.  A record's *)
(* fields have the names they have on the wire.  A list that is nil and    *)
(* one that is empty are written alike and read back empty, so both are    *)
(* the empty sequence.                                                     *)
(***************************************************************************)
EXTENDS Codec

Placement    == {"local", "hosted", "any"}
OfferOutcome == {"offered", "invalid", "unavailable", "forbidden", "not_permitted"}

-----------------------------------------------------------------------------
(* What is written.  A writer that meets a word outside a closed           *)
(* vocabulary, or a time that is none, panics with a refusal.              *)

Panic(word) == <<"panic", word>>

Put(key, t) == << <<key, t>> >>
PutIf(condition, key, t) == IF condition THEN Put(key, t) ELSE <<>>

EncTexts(ws)      == Array([i \in DOMAIN ws |-> Text(ws[i])])
EncList(vs, E(_)) == Array([i \in DOMAIN vs |-> E(vs[i])])
EncWord(w, words) == IF w \in words THEN Text(w) ELSE Panic("bad_enum")

writeTimestamp(s) ==
  IF wideTimestamp(s) THEN Time(normalizedTimestamp(s)) ELSE Panic("bad_timestamp")

encHostAllowance(v) == Object(Put("hosts", EncTexts(v.hosts)))

encPickRequest(v) == Object(
  Put("model", Text(v.model)) \o Put("fresh", Bool(v.fresh))
  \o PutIf(v.allowed # Nil, "allowed", encHostAllowance(v.allowed))
  \o PutIf(v.profile # "", "profile", Text(v.profile)))

encCaller(v) == Object(Put("user_description", Text(v.user_description))
                       \o Put("path_description", Text(v.path_description)))

encObservation(v) == Object(
  Put("caller", encCaller(v.caller)) \o Put("took_ms", Number(v.took_ms))
  \o Put("cache_age_ms", Number(v.cache_age_ms)))

encAlias(v) == Object(
  Put("host", Text(v.host)) \o Put("name", Text(v.name))
  \o Put("resident", Bool(v.resident)) \o Put("servable", Bool(v.servable))
  \o PutIf(v.hosted, "hosted", Bool(v.hosted))
  \o PutIf(v.profiles # <<>>, "profiles", EncTexts(v.profiles))
  \o PutIf(v.held_in # <<>>, "held_in", EncTexts(v.held_in))
  \o PutIf(v.context_length # 0, "context_length", Number(v.context_length))
  \o PutIf(v.effective_context_length # 0,
           "effective_context_length", Number(v.effective_context_length)))

encComponent(v) == Object(
  Put("store", Text(v.store)) \o Put("role", Text(v.role))
  \o PutIf(v.name # "", "name", Text(v.name)))

encFamily(v) == Object(
  Put("family", Text(v.family)) \o Put("names", EncList(v.names, encAlias))
  \o PutIf(v.held_in # <<>>, "held_in", EncTexts(v.held_in))
  \o PutIf(v.family_source # "", "family_source", Text(v.family_source))
  \o PutIf(v.components # <<>>, "components", EncList(v.components, encComponent)))

encModelsSnapshot(v) == Object(
  Put("observation", encObservation(v.observation))
  \o Put("models", EncList(v.models, encFamily)))

encHostState(v) == Object(
  Put("host", Text(v.host)) \o Put("base", Text(v.base)) \o Put("up", Bool(v.up))
  \o Put("why", Text(v.why)) \o Put("installed", Number(v.installed))
  \o Put("resident", EncTexts(v.resident)) \o Put("servable", Bool(v.servable))
  \o PutIf(v.hosted, "hosted", Bool(v.hosted))
  \o PutIf(v.wire # "", "wire", Text(v.wire))
  \o PutIf(v.credential # "", "credential", Text(v.credential))
  \o PutIf(v.declared_by # "", "declared_by", Text(v.declared_by))
  \o PutIf(v.profiles # <<>>, "profiles", EncTexts(v.profiles))
  \o PutIf(v.domain # "", "domain", Text(v.domain))
  \o PutIf(v.availability_cause # Nil,
           "availability_cause", Text(v.availability_cause)))

encAsk(v) == Object(
  Put("at", writeTimestamp(v.at)) \o Put("caller", Text(v.caller))
  \o Put("user", Text(v.user)) \o Put("model", Text(v.model))
  \o Put("family", Text(v.family)) \o Put("verdict", Text(v.verdict))
  \o Put("host", Text(v.host)))

encHostsSnapshot(v) == Object(
  Put("observation", encObservation(v.observation))
  \o Put("hosts", EncList(v.hosts, encHostState))
  \o Put("doubled", EncTexts(v.doubled)) \o Put("asked", EncList(v.asked, encAsk)))

encDecision(v) == Object(
  Put("asked", Text(v.asked)) \o Put("family", Text(v.family))
  \o Put("verdict", Text(v.verdict)) \o Put("host", Text(v.host))
  \o Put("model", Text(v.model)) \o Put("endpoint", Text(v.endpoint))
  \o Put("installed_on", EncTexts(v.installed_on))
  \o PutIf(v.authorised # Nil, "authorised", encHostAllowance(v.authorised))
  \o Put("withheld", EncTexts(v.withheld)) \o Put("loads", Number(v.loads))
  \o Put("why", Text(v.why)))

encPickResult(v) == Object(Put("observation", encObservation(v.observation))
                           \o Put("decision", encDecision(v.decision)))

encOfferRequest(v) == Object(
  Put("profile", Text(v.profile)) \o Put("placement", EncWord(v.placement, Placement))
  \o Put("reserve", Number(v.reserve)) \o Put("fresh", Bool(v.fresh)))

encOffer(v) == Object(
  Put("family", Text(v.family)) \o Put("names", EncTexts(v.names))
  \o Put("servers", EncTexts(v.servers)) \o Put("context", Number(v.context))
  \o Put("context_source", Text(v.context_source)) \o Put("input", Number(v.input))
  \o PutIf(v.unknown # <<>>, "unknown", EncTexts(v.unknown)))

encOfferSnapshot(v) == Object(
  Put("observation", encObservation(v.observation))
  \o Put("offers", EncList(v.offers, encOffer))
  \o Put("outcome", EncWord(v.outcome, OfferOutcome)))

encModelsArguments(v) == Object(Put("fresh", Bool(v.fresh)))
encHostsArguments(v)  == Object(Put("fresh", Bool(v.fresh)))
encPickArguments(v)   == Object(Put("request", encPickRequest(v.request)))
encOfferArguments(v)  == Object(Put("request", encOfferRequest(v.request)))

encModelsResult(v) == Object(Put("value", encModelsSnapshot(v.value)))
encHostsResult(v)  == Object(Put("value", encHostsSnapshot(v.value)))
encOfferResult(v)  == Object(Put("value", encOfferSnapshot(v.value)))
encPickResultOf(v) == Object(Put("value", encPickResult(v.value)))

encServiceFrame(v) == Object(
  Put("version", Number(v.version)) \o Put("service", Text(v.service))
  \o Put("method", Text(v.method)) \o Put("arguments", v.arguments))

encServiceReply(v) == Object(
  Put("version", Number(v.version)) \o Put("service", Text(v.service))
  \o Put("method", Text(v.method)) \o Put("ok", Bool(v.ok))
  \o Put("payload", v.payload))

encServiceError(v) == Object(Put("code", Text(v.code)) \o Put("message", Text(v.message)))

-----------------------------------------------------------------------------
(* What is read.  What a service tells may grow members its client does    *)
(* not know; requests, envelopes and an allowance may not.                 *)

HostAllowance == Refuse(<< Needs("hosts", Texts) >>)

PickRequest == Refuse(<< Needs("model", AText), Needs("fresh", ABool),
                         May("allowed", A(HostAllowance)), May("profile", AText) >>)

Caller == Grant(<< Needs("user_description", AText), Needs("path_description", AText) >>)

Observation == Grant(<< Needs("caller", A(Caller)), Needs("took_ms", AnInt64),
                        Needs("cache_age_ms", AnInt64) >>)

Alias == Grant(<< Needs("host", AText), Needs("name", AText), Needs("resident", ABool),
                  Needs("servable", ABool), May("hosted", ABool), May("profiles", Texts),
                  May("held_in", Texts), May("context_length", AnInt64),
                  May("effective_context_length", AnInt64) >>)

Component == Grant(<< Needs("store", AText), Needs("role", AText), May("name", AText) >>)

Family == Grant(<< Needs("family", AText), Needs("names", ListOf(Alias)),
                   May("held_in", Texts), May("family_source", AText),
                   May("components", ListOf(Component)) >>)

ModelsSnapshot == Grant(<< Needs("observation", A(Observation)),
                           Needs("models", ListOf(Family)) >>)

HostState == Grant(<< Needs("host", AText), Needs("base", AText), Needs("up", ABool),
                      Needs("why", AText), Needs("installed", AnInt64),
                      Needs("resident", Texts), Needs("servable", ABool),
                      May("hosted", ABool), May("wire", AText), May("credential", AText),
                      May("declared_by", AText), May("profiles", Texts),
                      May("domain", AText), May("availability_cause", AWord) >>)

Ask == Grant(<< Needs("at", ATime), Needs("caller", AText), Needs("user", AText),
                Needs("model", AText), Needs("family", AText), Needs("verdict", AText),
                Needs("host", AText) >>)

HostsSnapshot == Grant(<< Needs("observation", A(Observation)),
                          Needs("hosts", ListOf(HostState)), Needs("doubled", Texts),
                          Needs("asked", ListOf(Ask)) >>)

Decision == Grant(<< Needs("asked", AText), Needs("family", AText), Needs("verdict", AText),
                     Needs("host", AText), Needs("model", AText), Needs("endpoint", AText),
                     Needs("installed_on", Texts), May("authorised", A(HostAllowance)),
                     Needs("withheld", Texts), Needs("loads", AnInt64), Needs("why", AText) >>)

PickResult == Grant(<< Needs("observation", A(Observation)), Needs("decision", A(Decision)) >>)

\* Mutant: a placement is read as any word.
OfferRequestOpen == Refuse(<< Needs("profile", AText), Needs("placement", AText),
                              Needs("reserve", AnInt64), Needs("fresh", ABool) >>)

OfferRequest == Refuse(<< Needs("profile", AText), Needs("placement", OneOf(Placement)),
                          Needs("reserve", AnInt64), Needs("fresh", ABool) >>)

Offer == Grant(<< Needs("family", AText), Needs("names", Texts), Needs("servers", Texts),
                  Needs("context", AnInt64), Needs("context_source", AText),
                  Needs("input", AnInt64), May("unknown", Texts) >>)

OfferSnapshot == Grant(<< Needs("observation", A(Observation)), Needs("offers", ListOf(Offer)),
                          Needs("outcome", OneOf(OfferOutcome)) >>)

ModelsArguments == Refuse(<< Needs("fresh", ABool) >>)
HostsArguments  == Refuse(<< Needs("fresh", ABool) >>)
PickArguments   == Refuse(<< Needs("request", A(PickRequest)) >>)
OfferArguments  == Refuse(<< Needs("request", A(OfferRequest)) >>)

ModelsResult == Refuse(<< Needs("value", A(ModelsSnapshot)) >>)
HostsResult  == Refuse(<< Needs("value", A(HostsSnapshot)) >>)
PickResultOf == Refuse(<< Needs("value", A(PickResult)) >>)
OfferResult  == Refuse(<< Needs("value", A(OfferSnapshot)) >>)

ServiceFrame == Refuse(<< Needs("version", AnInt32), Needs("service", AText),
                          Needs("method", AText), Needs("arguments", AnyValue) >>)

ServiceReply == Refuse(<< Needs("version", AnInt32), Needs("service", AText),
                          Needs("method", AText), Needs("ok", ABool),
                          Needs("payload", AnyValue) >>)

ServiceError == Refuse(<< Needs("code", AText), Needs("message", AText) >>)

-----------------------------------------------------------------------------
(* Messages whole.  Written, a message has nothing after it.               *)

Whole(t) == [value |-> t, trailing |-> FALSE]

RECURSIVE PanicsIn(_)
PanicsIn(t) ==
  CASE t[1] = "panic"  -> {t[2]}
    [] t[1] = "array"  -> UNION {PanicsIn(t[2][i]) : i \in DOMAIN t[2]}
    [] t[1] = "object" -> UNION {PanicsIn(t[2][i][2]) : i \in DOMAIN t[2]}
    [] OTHER -> {}

Written(t) == IF PanicsIn(t) = {} THEN Ok(t)
              ELSE Refused(CHOOSE w \in PanicsIn(t) : TRUE)

encArguments(method, v) == Written(
  CASE method = "Models" -> encModelsArguments(v)
    [] method = "Hosts"  -> encHostsArguments(v)
    [] method = "Pick"   -> encPickArguments(v)
    [] method = "Offer"  -> encOfferArguments(v))

decodeArguments(method, t) == read(A(
  CASE method = "Models" -> ModelsArguments
    [] method = "Hosts"  -> HostsArguments
    [] method = "Pick"   -> PickArguments
    [] method = "Offer"  -> OfferArguments), t, 1)

encResult(method, v) == Written(
  CASE method = "Models" -> encModelsResult(v)
    [] method = "Hosts"  -> encHostsResult(v)
    [] method = "Pick"   -> encPickResultOf(v)
    [] method = "Offer"  -> encOfferResult(v))

decodeResult(method, t) == read(A(
  CASE method = "Models" -> ModelsResult
    [] method = "Hosts"  -> HostsResult
    [] method = "Pick"   -> PickResultOf
    [] method = "Offer"  -> OfferResult), t, 1)

encFrame(v)       == Whole(encServiceFrame(v))
decodeFrame(text) == readAll(A(ServiceFrame), text, 0)
encReply(v)       == Whole(encServiceReply(v))
decodeReply(text) == readAll(A(ServiceReply), text, 0)
encError(v)       == encServiceError(v)
decodeError(t)    == read(A(ServiceError), t, 1)
=============================================================================
