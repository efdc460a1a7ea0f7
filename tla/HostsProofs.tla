----------------------------- MODULE HostsProofs -----------------------------
(***************************************************************************)
(* What a read of a hosted server, an unload, a declaration and an answer  *)
(* keep, for every server, credential, declaration and question; and, with *)
(* what ReadersProofs shows of the other reads, what they keep together.   *)
(* Each has an invariant of its own, which its steps keep and the others'  *)
(* leave alone.                                                            *)
(***************************************************************************)
EXTENDS ReadersProofs

-----------------------------------------------------------------------------
(* A hosted server *)

\* All that was sent went without a credential, or all of it is one request
\* with one, to the host the credential was applied for.
SentHome ==
  \/ \A r \in sent : "credential" \notin r.headers
  \/ /\ Hosted!NeedsCredential
     /\ \E hs : sent = {[to |-> provider.target, headers |-> hs]}

Blamed ==
  /\ why = <<>> <=> cause = ""
  /\ why # <<>> =>
       /\ cause \in Hosted!Causes /\ ids = <<>>
       /\ why[1] = "credential" <=> cause = "credential" /\ sent = {}
       /\ why[1] = "unsupported_wire" <=> cause = "configuration"
       /\ why[1] = "address" => cause = "unknown" /\ ~ Hosted!Addressed
       /\ why[1] \in {"credential", "unsupported_wire", "address"} <=> sent = {}

HostedInv ==
  /\ hostedAt \in {"idle", "applying", "listing", "asked", "done"}
  /\ headers \subseteq {"credential"}
  /\ hostedAt # "done" => why = <<>> /\ cause = "" /\ ids = <<>>
  /\ hostedAt \in {"idle", "applying", "listing"} => sent = {}
  /\ hostedAt \in {"idle", "applying", "done"} => headers = {}
  /\ headers # {} => Hosted!NeedsCredential
  /\ hostedAt = "asked" => sent # {} /\ (headers # {} => ~ Hosted!redirectFollowed(Hosted!Sent))
  /\ hostedAt = "asked" /\ headers = {} => \A r \in sent : "credential" \notin r.headers
  /\ SentHome
  /\ hostedAt = "done" => Blamed

\* Nothing is sent before a read begins.
LEMMA HostedInit == Hosted!Init => HostedInv
BY DEF Hosted!Init, HostedInv, SentHome

\* A read ends listed, with nothing to blame.
LEMMA HostedListed ==
  ASSUME HostedInv, hostedAt \in {"listing", "asked"}, NEW xs,
         Hosted!Listed(xs), sent' = sent, provider' = provider
  PROVE  HostedInv'
<1>1. SentHome'
  BY DEF HostedInv, SentHome, Hosted!NeedsCredential
<1>2. Blamed'
  BY DEF HostedInv, Blamed, Hosted!Listed
<1>3. QED
  BY <1>1, <1>2 DEF HostedInv, Hosted!Listed

\* A read of a provider that was asked ends down, blamed on something else than
\* this runtime's configuration or its credential.
LEMMA HostedDown ==
  ASSUME HostedInv, hostedAt = "asked", NEW reason, NEW c,
         reason # <<>>, reason[1] \notin {"credential", "unsupported_wire", "address"},
         c \in Hosted!Causes \ {"configuration"},
         Hosted!Down(reason, c), sent' = sent, provider' = provider
  PROVE  HostedInv'
<1>1. SentHome'
  BY DEF HostedInv, SentHome, Hosted!NeedsCredential
<1>2. Blamed'
  BY DEF HostedInv, Blamed, Hosted!Down, Hosted!Causes
<1>3. QED
  BY <1>1, <1>2 DEF HostedInv, Hosted!Down

\* A read begins by applying a credential, or without one if its provider is
\* local to the machine and needs none.
LEMMA HostedBegin ==
  ASSUME HostedInv, NEW p \in Providers, Hosted!Begin(p)
  PROVE  HostedInv'
<1>1. sent' = {} /\ sent = {} /\ headers' = {} /\ ids' = <<>>
  BY DEF HostedInv, Hosted!Begin, Hosted!Down
<1>2. SentHome'
  BY <1>1 DEF SentHome
<1>3. ASSUME hostedAt' = "done" PROVE Blamed'
  <2>1. why' = <<"unsupported_wire", p.wire>> /\ cause' = "configuration"
    BY <1>3 DEF Hosted!Begin, Hosted!Down
  <2>2. why' # <<>> /\ why'[1] = "unsupported_wire"
    BY <2>1
  <2>3. QED
    BY <1>1, <2>1, <2>2 DEF Blamed, Hosted!Causes
<1>4. QED
  BY <1>1, <1>2, <1>3 DEF HostedInv, Hosted!Begin, Hosted!Down

\* A credential that applies goes into the request; one that does not ends the
\* read before anything is sent.
LEMMA HostedApply ==
  ASSUME HostedInv, Hosted!Apply
  PROVE  HostedInv'
<1>1. sent' = {} /\ sent = {} /\ ids' = <<>> /\ provider' = provider
  BY DEF HostedInv, Hosted!Apply, Hosted!Down
<1>2. SentHome'
  BY <1>1 DEF SentHome
<1>3. ASSUME hostedAt' = "done" PROVE Blamed'
  <2>1. /\ why' = Hosted!CredentialReason(provider.credential, applier)
        /\ cause' = "credential"
    BY <1>3 DEF Hosted!Apply, Hosted!Down
  <2>2. why' # <<>> /\ why'[1] = "credential"
    BY <2>1 DEF Hosted!CredentialReason
  <2>3. QED
    BY <1>1, <2>1, <2>2 DEF Blamed, Hosted!Causes
<1>4. headers' # {} => Hosted!NeedsCredential'
  BY <1>1 DEF HostedInv, Hosted!Apply, Hosted!Down, Hosted!NeedsCredential
<1>5. QED
  BY <1>1, <1>2, <1>3, <1>4 DEF HostedInv, Hosted!Apply, Hosted!Down

\* The request goes to the provider's own host, and to none that has no address.
LEMMA HostedRequest ==
  ASSUME HostedInv, Hosted!Request
  PROVE  HostedInv'
<1>1. CASE Hosted!Addressed
  <2>1. /\ sent' = {[to |-> provider.target, headers |-> Hosted!Sent]}
        /\ UNCHANGED <<provider, headers, ids, why, cause>>
        /\ hostedAt = "listing" /\ hostedAt' = "asked"
    BY <1>1 DEF Hosted!Request
  <2>2. headers = {} => "credential" \notin Hosted!Sent
    BY DEF Hosted!Sent
  <2>3. headers # {} => Hosted!NeedsCredential /\ Hosted!Sent # {}
    BY DEF HostedInv, Hosted!Sent
  <2>4. UNCHANGED Hosted!Sent /\ UNCHANGED Hosted!NeedsCredential
    BY <2>1 DEF Hosted!Sent, Hosted!NeedsCredential
  <2>5. SentHome'
    BY <2>1, <2>2, <2>3, <2>4 DEF SentHome
  <2>6. headers' # {} => ~ Hosted!redirectFollowed(Hosted!Sent)'
    BY <2>1, <2>3, <2>4 DEF Hosted!redirectFollowed
  <2>7. headers' = {} => \A r \in sent' : "credential" \notin r.headers
    BY <2>1, <2>2
  <2>8. headers' # {} => Hosted!NeedsCredential'
    BY <2>1, <2>3 DEF Hosted!NeedsCredential
  <2>9. sent' # {}
    BY <2>1
  <2>10. QED
    BY <2>1, <2>5, <2>6, <2>7, <2>8, <2>9 DEF HostedInv
<1>2. CASE ~ Hosted!Addressed
  <2>1. /\ why' = <<"address", provider.target>> /\ cause' = "unknown"
        /\ headers' = {} /\ hostedAt' = "done"
        /\ hostedAt = "listing" /\ UNCHANGED <<provider, sent, ids>>
    BY <1>2 DEF Hosted!Request, Hosted!Down, Hosted!causeOf
  <2>2. sent' = {} /\ ids' = <<>>
    BY <2>1 DEF HostedInv
  <2>3. why' # <<>> /\ why'[1] = "address"
    BY <2>1
  <2>4. ~ Hosted!Addressed'
    BY <1>2, <2>1 DEF Hosted!Addressed
  <2>5. Blamed'
    BY <2>1, <2>2, <2>3, <2>4 DEF Blamed, Hosted!Causes
  <2>6. SentHome'
    BY <2>2 DEF SentHome
  <2>7. QED
    BY <2>1, <2>2, <2>5, <2>6 DEF HostedInv
<1>3. QED
  BY <1>1, <1>2

\* A redirect is followed only by a request that carries no credential.
LEMMA HostedRedirected ==
  ASSUME HostedInv, Hosted!Redirected
  PROVE  HostedInv'
<1>1. CASE Hosted!redirectFollowed(Hosted!Sent)
  <2>1. PICK to \in {provider.target, Elsewhere} :
          sent' = sent \cup {[to |-> to, headers |-> Hosted!Sent]}
    BY <1>1 DEF Hosted!Redirected
  <2>2. /\ headers = {} /\ Hosted!Sent = {}
        /\ UNCHANGED <<provider, headers, hostedAt, ids, why, cause>> /\ hostedAt = "asked"
    BY <1>1 DEF HostedInv, Hosted!Redirected, Hosted!redirectFollowed
  <2>3. [to |-> to, headers |-> Hosted!Sent].headers = {}
    BY <2>2
  <2>4. \A r \in sent : "credential" \notin r.headers
    BY <2>2 DEF HostedInv
  <2>5. \A r \in sent' : "credential" \notin r.headers
    BY <2>1, <2>3, <2>4
  <2>6. QED
    BY <2>1, <2>2, <2>5 DEF HostedInv, SentHome
<1>2. CASE ~ Hosted!redirectFollowed(Hosted!Sent)
  <2>1. Hosted!Down(Hosted!Unreachable, "unknown") /\ hostedAt = "asked"
        /\ sent' = sent /\ provider' = provider
    BY <1>2 DEF Hosted!Redirected, Hosted!causeOf
  <2>2. Hosted!Unreachable # <<>>
        /\ Hosted!Unreachable[1] \notin {"credential", "unsupported_wire", "address"}
    BY DEF Hosted!Unreachable
  <2>3. QED
    BY <2>1, <2>2, HostedDown DEF Hosted!Causes
<1>3. QED
  BY <1>1, <1>2

\* A request that fails, or is answered by an error, ends the read down.
LEMMA HostedFail ==
  ASSUME HostedInv, NEW error \in {"network", "deadline", "cancelled"}, Hosted!Fail(error)
  PROVE  HostedInv'
<1>1. hostedAt = "asked" /\ sent' = sent /\ provider' = provider
  BY DEF Hosted!Fail
<1>2. PICK reason, c : /\ Hosted!Down(reason, c) /\ reason # <<>>
                       /\ reason[1] \in {"remote", "listing"}
                       /\ c \in {"unknown", "transport_unavailable"}
  BY DEF Hosted!Fail, Hosted!Unreachable, Hosted!causeOf
<1>3. QED
  BY <1>1, <1>2, HostedDown DEF Hosted!Causes

\* An answer that lists ends the read listed; any other ends it down.
LEMMA HostedAnswer ==
  ASSUME HostedInv, Hosted!Answer
  PROVE  HostedInv'
<1>1. hostedAt = "asked" /\ sent' = sent /\ provider' = provider
  BY DEF Hosted!Answer
<1>2. CASE \E xs : Hosted!Listed(xs)
  BY <1>1, <1>2, HostedListed
<1>3. CASE \E reason, c : /\ Hosted!Down(reason, c) /\ reason # <<>>
                         /\ reason[1] = "listing"
                         /\ c \in Hosted!Causes \ {"configuration"}
  BY <1>1, <1>3, HostedDown
<1>4. CASE \E status \in {400, 401, 403, 404, 422, 500, 502, 503, 504} :
             Hosted!Down(<<"listing", provider.target, status>>, Hosted!statusCause(status))
  <2>1. \A status : Hosted!statusCause(status) \in Hosted!Causes \ {"configuration"}
    BY DEF Hosted!statusCause, Hosted!Causes
  <2>2. QED
    BY <1>3, <1>4, <2>1
<1>5. CASE Hosted!Down(<<"listing", provider.target, "unreadable">>, "malformed")
  <2>1. "malformed" \in Hosted!Causes \ {"configuration"}
    BY DEF Hosted!Causes
  <2>2. QED
    BY <1>3, <1>5, <2>1
<1>6. CASE \E list \in Ids : Hosted!Listed(Hosted!Named(list))
  BY <1>6, <1>2
<1>7. QED
  BY <1>4, <1>5, <1>6 DEF Hosted!Answer

\* Each step of a read keeps its invariant.
LEMMA HostedStep ==
  ASSUME HostedInv, Hosted!Next
  PROVE  HostedInv'
<1>1. CASE Hosted!UseCredentials
  BY <1>1 DEF HostedInv, SentHome, Blamed, Hosted!UseCredentials, Hosted!NeedsCredential,
              Hosted!Addressed,
              Hosted!Sent, Hosted!redirectFollowed
<1>2. CASE \E p \in Providers : Hosted!Begin(p)
  BY <1>2, HostedBegin
<1>3. CASE Hosted!Apply
  BY <1>3, HostedApply
<1>4. CASE Hosted!ListKnown
  BY <1>4, HostedListed DEF Hosted!ListKnown
<1>5. CASE Hosted!Request
  BY <1>5, HostedRequest
<1>6. CASE Hosted!Redirected
  BY <1>6, HostedRedirected
<1>7. CASE \E error \in {"network", "deadline", "cancelled"} : Hosted!Fail(error)
  BY <1>7, HostedFail
<1>8. CASE Hosted!Answer
  BY <1>8, HostedAnswer
<1>9. QED
  BY <1>1, <1>2, <1>3, <1>4, <1>5, <1>6, <1>7, <1>8 DEF Hosted!Next

\* A read's invariant implies what is promised of the read.
LEMMA HostedKeeps == HostedInv => CredentialStaysHome /\ DownSaysWhy
<1> SUFFICES ASSUME HostedInv PROVE CredentialStaysHome /\ DownSaysWhy
  OBVIOUS
<1>1. DownSaysWhy
  BY DEF DownSaysWhy, Hosted!DownSaysWhy, HostedInv, Blamed
<1>2. CredentialStaysHome
  <2>1. CASE \A r \in sent : "credential" \notin r.headers
    <3>1. {r \in sent : "credential" \in r.headers} = {}
      BY <2>1
    <3>2. QED
      BY <3>1 DEF CredentialStaysHome, Hosted!CredentialStaysHome
  <2>2. CASE \E hs : sent = {[to |-> provider.target, headers |-> hs]}
             /\ Hosted!NeedsCredential
    <3>1. PICK hs : sent = {[to |-> provider.target, headers |-> hs]}
      BY <2>2
    <3>2. (\A r \in sent : r.to = provider.target) /\ \A q, r \in sent : q = r
      BY <3>1
    <3>3. QED
      BY <2>2, <3>2 DEF CredentialStaysHome, Hosted!CredentialStaysHome
  <2>3. QED
    BY <2>1, <2>2 DEF HostedInv, SentHome
<1>3. QED
  BY <1>1, <1>2

\* A reader's variables keep their types.
LEMMA HostedTypes ==
  ASSUME HostedInv, Hosted!TypeOK, Hosted!Next
  PROVE  Hosted!TypeOK'
<1>1. HostedInv'
  BY HostedStep
<1>2. /\ applier' \in {None, "applies"} \cup Outcomes
      /\ provider' \in Providers \cup {None}
  BY DEF Hosted!TypeOK, Hosted!Next, Hosted!UseCredentials, Hosted!Begin, Hosted!Apply,
         Hosted!ListKnown, Hosted!Request, Hosted!Redirected, Hosted!Fail, Hosted!Answer
<1>3. cause' \in Hosted!Causes \cup {""}
  BY <1>1 DEF HostedInv, Blamed
<1>4. QED
  BY <1>1, <1>2, <1>3 DEF HostedInv, Hosted!TypeOK

-----------------------------------------------------------------------------
(* An unload *)

NamesOf(i) == {i.id, i.instance_id, i.identifier, i.key} \ {""}

\* What was asked for and then what is still to be asked for are the names of
\* what the holder lists, in that order.
Asking ==
  /\ asked \in Seq(STRING) /\ queue \in Seq(STRING)
  /\ Len(asked) + Len(queue) = Len(holder.held)
  /\ \A k \in 1..Len(asked) : asked[k] \in NamesOf(holder.held[k])
  /\ \A k \in 1..Len(queue) : queue[k] \in NamesOf(holder.held[Len(asked) + k])

UnloadInv ==
  /\ unloadAt \in {"idle", "listing", "asking", "done"}
  /\ unloadAt # "idle" => holder \in Holders
  /\ unloadAt # "done" => outcome = None
  /\ unloadAt \in {"idle", "listing"} => asked = <<>> /\ failures = {}
  /\ unloadAt = "listing" => holder.kind \in Unload!Each
  /\ unloadAt = "asking" /\ holder.kind \in Unload!Each => Asking
  /\ outcome = "released" => failures = {}
  /\ outcome = "failed" /\ failures = {} => holder.kind \in Unload!Each /\ asked = <<>>
  /\ unloadAt = "done" /\ holder.kind \in Unload!Each
       /\ (outcome = "released" \/ failures # {}) => Asking /\ queue = <<>>

\* An unload has asked nothing before it begins.
LEMMA UnloadInit == Unload!Init => UnloadInv
BY UnloadAssumption DEF Unload!Init, UnloadInv

\* A server's list names each thing it lists by a name of its own.
LEMMA ListedNames ==
  ASSUME NEW h \in Holders, h.kind \in Unload!Each
  PROVE  /\ Unload!Listed(h) \in Seq(STRING)
         /\ Len(Unload!Listed(h)) = Len(h.held)
         /\ \A k \in 1..Len(h.held) : Unload!Listed(h)[k] \in NamesOf(h.held[k])
<1> DEFINE Item == [id : STRING, instance_id : STRING, identifier : STRING,
                    key : STRING \ {""}]
<1>1. h.held \in Seq(Item)
  BY UnloadAssumption
<1>2. \A i \in Item : Unload!instance(i) \in NamesOf(i) /\ i.key \in NamesOf(i)
  BY DEF Unload!instance, NamesOf
<1>3. \A i \in Item : NamesOf(i) \subseteq STRING
  BY DEF NamesOf
<1> HIDE DEF Item
<1>4. DOMAIN h.held = 1..Len(h.held) /\ Len(h.held) \in Nat
      /\ \A k \in 1..Len(h.held) : h.held[k] \in Item
  BY <1>1
<1>5. /\ DOMAIN Unload!Listed(h) = 1..Len(h.held)
      /\ \A k \in 1..Len(h.held) : Unload!Listed(h)[k] \in NamesOf(h.held[k])
  BY <1>2, <1>4 DEF Unload!Listed
<1>6. Unload!Listed(h) = [k \in 1..Len(h.held) |-> Unload!Listed(h)[k]]
  BY <1>4 DEF Unload!Listed
<1>7. \A k \in 1..Len(h.held) : Unload!Listed(h)[k] \in STRING
  BY <1>3, <1>4, <1>5
<1>8. Unload!Listed(h) \in [1..Len(h.held) -> STRING]
  BY <1>6, <1>7
<1>9. QED
  BY <1>4, <1>5, <1>8

\* What is listed stays divided between the asked and the queue.
LEMMA UnloadStep ==
  ASSUME UnloadInv, Unload!Next
  PROVE  UnloadInv'
<1> None \notin {"released", "failed", "no_unload"}
  BY UnloadAssumption
<1>1. CASE \E h \in Holders : Unload!Unload(h)
  BY <1>1 DEF UnloadInv, Unload!Unload, Unload!Ends, Unload!Whole, Unload!Each
<1>2. CASE Unload!List
  <2>1. CASE queue' = Unload!Listed(holder) /\ unloadAt' = "asking" /\ UNCHANGED outcome
    <3>1. /\ holder' = holder /\ holder \in Holders /\ holder.kind \in Unload!Each
          /\ asked' = <<>> /\ failures' = {} /\ outcome' = None
      BY <1>2, <2>1 DEF UnloadInv, Unload!List
    <3>2. Asking'
      BY <2>1, <3>1, ListedNames DEF Asking
    <3>3. QED
      BY <2>1, <3>1, <3>2 DEF UnloadInv
  <2>2. CASE Unload!Ends("failed") /\ UNCHANGED queue
    BY <1>2, <2>2 DEF UnloadInv, Unload!List, Unload!Ends
  <2>3. QED
    BY <1>2, <2>1, <2>2 DEF Unload!List
<1>3. CASE Unload!Ask
  <2>1. /\ unloadAt = "asking" /\ unloadAt' = "asking" /\ queue # <<>>
        /\ asked' = Append(asked, Head(queue)) /\ queue' = Tail(queue)
        /\ UNCHANGED <<holder, outcome>> /\ outcome = None
    BY <1>3 DEF UnloadInv, Unload!Ask
  <2>2. ASSUME holder.kind \in Unload!Each PROVE Asking'
    <3>1. Asking
      BY <2>1, <2>2 DEF UnloadInv
    <3>2. /\ asked \in Seq(STRING) /\ queue \in Seq(STRING)
          /\ Len(asked) \in Nat /\ Len(queue) \in Nat \ {0}
      BY <2>1, <3>1 DEF Asking
    <3>3. /\ queue' \in Seq(STRING) /\ Len(queue') = Len(queue) - 1
          /\ Head(queue) \in STRING /\ Head(queue) = queue[1]
          /\ \A k \in 1..Len(queue') : queue'[k] = queue[k + 1]
      BY <2>1, <3>2, HeadTailProperties
    <3>4. /\ asked' \in Seq(STRING) /\ Len(asked') = Len(asked) + 1
          /\ \A k \in 1..Len(asked) : asked'[k] = asked[k]
          /\ asked'[Len(asked) + 1] = queue[1]
      BY <2>1, <3>2, <3>3, AppendProperties
    <3>5. \A k \in 1..Len(asked') : asked'[k] \in NamesOf(holder.held[k])
      <4>1. ASSUME NEW k \in 1..Len(asked) PROVE asked'[k] \in NamesOf(holder.held[k])
        BY <3>1, <3>4, <4>1 DEF Asking
      <4>2. asked'[Len(asked) + 1] \in NamesOf(holder.held[Len(asked) + 1])
        BY <3>1, <3>2, <3>4 DEF Asking
      <4>3. QED
        BY <3>2, <3>4, <4>1, <4>2
    <3>6. ASSUME NEW k \in 1..Len(queue')
          PROVE  queue'[k] \in NamesOf(holder.held[Len(asked') + k])
      <4>1. queue'[k] = queue[k + 1] /\ k + 1 \in 1..Len(queue)
        BY <3>2, <3>3
      <4>2. Len(asked') + k = Len(asked) + (k + 1)
        BY <3>2, <3>3, <3>4
      <4>3. QED
        BY <3>1, <4>1, <4>2 DEF Asking
    <3>7. Len(asked') + Len(queue') = Len(holder.held)
      <4>1. (Len(asked) + 1) + (Len(queue) - 1) = Len(asked) + Len(queue)
        BY <3>2
      <4>2. QED
        BY <3>1, <3>3, <3>4, <4>1 DEF Asking
    <3>8. holder' = holder
      BY <2>1
    <3>9. QED
      BY <3>3, <3>4, <3>5, <3>6, <3>7, <3>8 DEF Asking
  <2>3. QED
    BY <2>1, <2>2 DEF UnloadInv
<1>4. CASE Unload!Conclude
  BY <1>4 DEF UnloadInv, Unload!Conclude, Unload!Ends, Asking
<1>5. QED
  BY <1>1, <1>2, <1>3, <1>4 DEF Unload!Next

\* What an unload's invariant says is what is promised of it.
LEMMA UnloadKeeps == UnloadInv => UnloadAsksAll
<1> SUFFICES ASSUME UnloadInv PROVE UnloadAsksAll
  OBVIOUS
<1>1. Asking /\ queue = <<>> =>
        Len(asked) = Len(holder.held)
        /\ \A k \in DOMAIN asked :
             LET i == holder.held[k]
             IN asked[k] \in {i.id, i.instance_id, i.identifier, i.key} \ {""}
  <2>1. SUFFICES ASSUME Asking, queue = <<>>
                 PROVE  /\ Len(asked) = Len(holder.held)
                        /\ \A k \in DOMAIN asked : asked[k] \in NamesOf(holder.held[k])
    BY DEF NamesOf
  <2>2. Len(queue) = 0 /\ Len(asked) \in Nat /\ DOMAIN asked = 1..Len(asked)
    BY <2>1, EmptySeq, LenProperties DEF Asking
  <2>3. QED
    BY <2>1, <2>2 DEF Asking
<1>2. QED
  BY <1>1 DEF UnloadInv, UnloadAsksAll, Unload!UnloadAsksAll

\* An element makes a sequence of one.
LEMMA OneElement ==
  ASSUME NEW S, NEW x \in S
  PROVE  <<x>> \in Seq(S)
OBVIOUS

\* What was asked for, and is still to be asked for, are words.
UnloadTyped ==
  Unload!TypeOK /\ asked \in Seq(STRING \cup {"all"}) /\ queue \in Seq(STRING \cup {"all"})

\* What the failures count was asked for.
LEMMA UnloadTypes ==
  ASSUME UnloadInv, UnloadTyped, Unload!Next
  PROVE  UnloadTyped'
<1> None \notin {"released", "failed", "no_unload"}
  BY UnloadAssumption
<1>1. CASE \E h \in Holders : Unload!Unload(h)
  <2>1. <<"all">> \in Seq(STRING \cup {"all"}) /\ <<>> \in Seq(STRING \cup {"all"})
    BY OneElement
  <2>2. QED
    BY <1>1, <2>1 DEF UnloadTyped, Unload!TypeOK, Unload!Unload, Unload!Ends
<1>2. CASE Unload!List
  <2>1. holder \in Holders /\ holder.kind \in Unload!Each
    BY <1>2 DEF UnloadInv, Unload!List
  <2>2. Unload!Listed(holder) \in Seq(STRING \cup {"all"})
    BY <2>1, ListedNames
  <2>3. QED
    BY <1>2, <2>2 DEF UnloadTyped, Unload!TypeOK, Unload!List, Unload!Ends
<1>3. CASE Unload!Ask
  <2>1. /\ asked' = Append(asked, Head(queue)) /\ queue' = Tail(queue) /\ queue # <<>>
        /\ failures' \in {failures, failures \cup {Len(asked) + 1}}
        /\ UNCHANGED <<holder, unloadAt, outcome>>
    BY <1>3 DEF Unload!Ask
  <2>2. asked \in Seq(STRING \cup {"all"}) /\ queue \in Seq(STRING \cup {"all"})
    BY DEF UnloadTyped
  <2>3. Head(queue) \in STRING \cup {"all"} /\ queue' \in Seq(STRING \cup {"all"})
    BY <2>1, <2>2, HeadTailProperties
  <2>4. /\ asked' \in Seq(STRING \cup {"all"}) /\ DOMAIN asked = 1..Len(asked) /\ Len(asked) \in Nat
        /\ DOMAIN asked' = 1..(Len(asked) + 1)
    BY <2>1, <2>2, <2>3, AppendProperties
  <2>5. failures' \subseteq DOMAIN asked'
    <3>1. failures \subseteq 1..Len(asked)
      BY <2>4 DEF UnloadTyped, Unload!TypeOK
    <3>2. \A k \in 1..Len(asked) : k \in 1..(Len(asked) + 1)
      BY <2>4
    <3>3. Len(asked) + 1 \in 1..(Len(asked) + 1)
      BY <2>4
    <3>4. QED
      BY <2>1, <2>4, <3>1, <3>2, <3>3
  <2>6. QED
    BY <2>1, <2>3, <2>4, <2>5 DEF UnloadTyped, Unload!TypeOK
<1>4. CASE Unload!Conclude
  BY <1>4 DEF UnloadTyped, Unload!TypeOK, Unload!Conclude, Unload!Ends
<1>5. QED
  BY <1>1, <1>2, <1>3, <1>4 DEF Unload!Next

-----------------------------------------------------------------------------
(* A declaration *)

DeclaredInv ==
  /\ declaration # None =>
       /\ declaration \in Declarations
       /\ scoped = Declared!declaredProfiles(declaration,
                                             Declared!DeclaredModels(declaration).names)
  /\ declaration = None => scoped = <<>>

\* No declaration is read at first.
LEMMA DeclaredInit == Declared!Init => DeclaredInv
BY DEF Declared!Init, DeclaredInv

\* Reading a declaration scopes its models to its profiles.
LEMMA DeclaredStep ==
  ASSUME DeclaredInv, Declared!Next
  PROVE  DeclaredInv'
<1>1. CASE \E e \in Environments : Declared!DeclareHosts(e)
  BY <1>1 DEF DeclaredInv, Declared!DeclareHosts
<1>2. CASE \E d \in Declarations : Declared!NewNative(d)
  BY <1>2, DeclaredAssumption DEF DeclaredInv, Declared!NewNative
<1>3. QED
  BY <1>1, <1>2 DEF Declared!Next

Words == Seq(STRING) \ {<<>>}

Profiles(d) == {d.profiles[i] : i \in DOMAIN d.profiles}

ScopedIn(d, e) == Len(e) > 1 /\ Tail(e) # <<"">> /\ e[1] \in Profiles(d)

\* The entry names the model for the profile.
NamesFor(d, e, p, m) == IF ScopedIn(d, e) THEN e[1] = p /\ Tail(e) = m ELSE e = m

\* A nonempty sequence is its head before its tail.
LEMMA Consed ==
  ASSUME NEW e \in Words, NEW p \in STRING, NEW m \in Seq(STRING)
  PROVE  e = <<p>> \o m <=> e[1] = p /\ Tail(e) = m
<1>1. /\ e \in Seq(STRING) /\ e # <<>> /\ Len(e) \in Nat \ {0}
      /\ <<p>> \in Seq(STRING) /\ Len(<<p>>) = 1 /\ <<p>>[1] = p /\ Len(m) \in Nat
  <2>1. e \in Seq(STRING) /\ e # <<>>
    BY DEF Words
  <2>2. Len(e) \in Nat \ {0}
    BY <2>1, EmptySeq
  <2>3. <<p>> \in Seq(STRING) /\ Len(<<p>>) = 1 /\ <<p>>[1] = p
    <3>1. <<p>> \in Seq(STRING)
      BY OneElement
    <3>2. Len(<<p>>) = 1
      OBVIOUS
    <3>3. <<p>>[1] = p
      OBVIOUS
    <3>4. QED
      BY <3>1, <3>2, <3>3
  <2>4. Len(m) \in Nat
    BY LenProperties
  <2>5. QED
    BY <2>1, <2>2, <2>3, <2>4
<1>2. /\ Tail(e) \in Seq(STRING) /\ Len(Tail(e)) = Len(e) - 1
      /\ \A i \in 1..Len(Tail(e)) : Tail(e)[i] = e[i + 1]
  BY <1>1, HeadTailProperties
<1>3. /\ <<p>> \o m \in Seq(STRING) /\ Len(<<p>> \o m) = 1 + Len(m)
      /\ \A i \in 1..(1 + Len(m)) :
           (<<p>> \o m)[i] = IF i <= 1 THEN <<p>>[i] ELSE m[i - 1]
  BY <1>1, ConcatProperties
<1>4. ASSUME e = <<p>> \o m PROVE e[1] = p /\ Tail(e) = m
  <2>1. e[1] = p
    BY <1>1, <1>3, <1>4
  <2>2. Len(Tail(e)) = Len(m)
    BY <1>1, <1>2, <1>3, <1>4
  <2>3. ASSUME NEW i \in 1..Len(Tail(e)) PROVE Tail(e)[i] = m[i]
    <3>1. i + 1 \in 1..(1 + Len(m)) /\ ~ (i + 1 <= 1) /\ (i + 1) - 1 = i
      BY <1>1, <2>2
    <3>2. QED
      BY <1>2, <1>3, <1>4, <3>1
  <2>4. QED
    BY <1>2, <2>1, <2>2, <2>3, SeqEqual
<1>5. ASSUME e[1] = p, Tail(e) = m PROVE e = <<p>> \o m
  <2>1. Len(e) = Len(<<p>> \o m)
    <3>1. Len(m) = Len(e) - 1
      BY <1>2, <1>5
    <3>2. QED
      BY <1>1, <1>3, <3>1
  <2>2. ASSUME NEW i \in 1..Len(e) PROVE e[i] = (<<p>> \o m)[i]
    <3>1. CASE i = 1
      <4>1. 1 \in 1..(1 + Len(m))
        BY <1>1
      <4>2. (<<p>> \o m)[1] = p
        BY <1>1, <1>3, <4>1
      <4>3. QED
        BY <1>5, <3>1, <4>2
    <3>2. CASE i # 1
      <4>1. i - 1 \in 1..Len(Tail(e)) /\ (i - 1) + 1 = i /\ i \in 1..(1 + Len(m))
            /\ ~ (i <= 1)
        BY <1>1, <1>2, <1>3, <2>1, <3>2
      <4>2. QED
        BY <1>2, <1>3, <1>5, <4>1
    <3>3. QED
      BY <3>1, <3>2
  <2>3. QED
    BY <1>1, <1>3, <2>1, <2>2, SeqEqual
<1>6. QED
  BY <1>4, <1>5

\* What DeclaredEntry makes of an entry, and that its profile is one of the
\* declaration's or none.
LEMMA EntryRead ==
  ASSUME NEW d \in Declarations, NEW e \in Words
  PROVE  /\ Declared!DeclaredEntry(e, d.profiles) =
              IF ScopedIn(d, e) THEN [model |-> Tail(e), profile |-> e[1]]
              ELSE [model |-> e, profile |-> None]
         /\ ScopedIn(d, e) => e[1] # None
<1>1. d.profiles \in Seq(STRING) /\ None \notin Profiles(d)
  BY DeclaredAssumption DEF Profiles
<1>2. Head(e) = e[1] /\ DOMAIN d.profiles = 1..Len(d.profiles)
  BY <1>1 DEF Words
<1>3. Declared!Contains(d.profiles, Head(e)) <=> e[1] \in Profiles(d)
  BY <1>2 DEF Declared!Contains, Profiles
<1>4. QED
  BY <1>1, <1>2, <1>3 DEF Declared!DeclaredEntry, ScopedIn

\* The models a declaration lists, and those it lists for one profile, are read
\* from its entries one by one.
LEMMA ModelsRead ==
  ASSUME NEW d \in Declarations
  PROVE  /\ \A p \in Profiles(d) : \A m :
              m \in Declared!DeclaredModels(d).byProfile[p] <=>
                \E i \in DOMAIN d.entries : NamesFor(d, d.entries[i], p, m)
         /\ \A m : m \in Declared!DeclaredModels(d).names <=>
              \E i \in DOMAIN d.entries :
                m = IF ScopedIn(d, d.entries[i]) THEN Tail(d.entries[i]) ELSE d.entries[i]
<1> DEFINE meant(i) == Declared!DeclaredEntry(d.entries[i], d.profiles)
<1>1. \A i \in DOMAIN d.entries : d.entries[i] \in Words
  <2>1. d.entries \in Seq(Words)
    BY DeclaredAssumption DEF Words
  <2>2. QED
    BY <2>1, ElementOfSeq, LenProperties
<1>2. \A i \in DOMAIN d.entries :
        /\ meant(i) = IF ScopedIn(d, d.entries[i])
                     THEN [model |-> Tail(d.entries[i]), profile |-> d.entries[i][1]]
                     ELSE [model |-> d.entries[i], profile |-> None]
        /\ ScopedIn(d, d.entries[i]) => d.entries[i][1] # None
  BY <1>1, EntryRead
<1>3. Declared!DeclaredModels(d) =
        [names |-> {meant(i).model : i \in DOMAIN d.entries},
         byProfile |-> [p \in Profiles(d) |->
           {meant(i).model : i \in {j \in DOMAIN d.entries : meant(j).profile \in {p, None}}}]]
  BY DEF Declared!DeclaredModels, Declared!ToSet, Profiles
<1> HIDE DEF meant
<1>4. \A i \in DOMAIN d.entries :
        /\ meant(i).model = IF ScopedIn(d, d.entries[i]) THEN Tail(d.entries[i])
                           ELSE d.entries[i]
        /\ meant(i).profile = IF ScopedIn(d, d.entries[i]) THEN d.entries[i][1] ELSE None
  <2> SUFFICES ASSUME NEW i \in DOMAIN d.entries
               PROVE  /\ meant(i).model = IF ScopedIn(d, d.entries[i])
                                        THEN Tail(d.entries[i]) ELSE d.entries[i]
                      /\ meant(i).profile = IF ScopedIn(d, d.entries[i])
                                          THEN d.entries[i][1] ELSE None
    OBVIOUS
  <2>1. CASE ScopedIn(d, d.entries[i])
    <3>1. meant(i) = [model |-> Tail(d.entries[i]), profile |-> d.entries[i][1]]
      BY <1>2, <2>1
    <3>2. QED
      BY <2>1, <3>1
  <2>2. CASE ~ ScopedIn(d, d.entries[i])
    <3>1. meant(i) = [model |-> d.entries[i], profile |-> None]
      BY <1>2, <2>2
    <3>2. QED
      BY <2>2, <3>1
  <2>3. QED
    BY <2>1, <2>2
<1>5. \A m : m \in {meant(i).model : i \in DOMAIN d.entries} <=>
        \E i \in DOMAIN d.entries :
          m = IF ScopedIn(d, d.entries[i]) THEN Tail(d.entries[i]) ELSE d.entries[i]
  BY <1>4
<1>6. ASSUME NEW p \in Profiles(d), NEW m
      PROVE  m \in Declared!DeclaredModels(d).byProfile[p] <=>
               \E i \in DOMAIN d.entries : NamesFor(d, d.entries[i], p, m)
  <2>1. m \in Declared!DeclaredModels(d).byProfile[p] <=>
          \E i \in DOMAIN d.entries : meant(i).profile \in {p, None} /\ meant(i).model = m
    BY <1>3
  <2>2. \A i \in DOMAIN d.entries :
          (meant(i).profile \in {p, None} /\ meant(i).model = m) <=>
          NamesFor(d, d.entries[i], p, m)
    <3> SUFFICES ASSUME NEW i \in DOMAIN d.entries
                 PROVE  (meant(i).profile \in {p, None} /\ meant(i).model = m) <=>
                        NamesFor(d, d.entries[i], p, m)
      OBVIOUS
    <3>1. CASE ScopedIn(d, d.entries[i])
      BY <1>2, <1>4, <3>1 DEF NamesFor
    <3>2. CASE ~ ScopedIn(d, d.entries[i])
      BY <1>4, <3>2 DEF NamesFor
    <3>3. QED
      BY <3>1, <3>2
  <2>3. QED
    BY <2>1, <2>2
<1>7. Declared!DeclaredModels(d).names = {meant(i).model : i \in DOMAIN d.entries}
  BY <1>3
<1>8. QED
  BY <1>5, <1>6, <1>7

\* What the invariant says of a declaration is what it promises.
LEMMA DeclaredKeeps == DeclaredInv => ScopedAsDeclared
<1> SUFFICES ASSUME DeclaredInv, declaration # None PROVE ScopedAsDeclared
  BY DEF ScopedAsDeclared, Declared!ScopedAsDeclared
<1> DEFINE d == declaration
           Names == Declared!DeclaredModels(d).names
           Is(e, p, m) == IF Len(e) > 1 /\ Tail(e) # <<"">> /\ e[1] \in Declared!ToSet(d.profiles)
                          THEN e = <<p>> \o m ELSE e = m
<1>1. d \in Declarations
  BY DEF DeclaredInv
<1>2. /\ \A i \in DOMAIN d.entries : d.entries[i] \in Words
      /\ Profiles(d) \subseteq STRING /\ Profiles(d) # {}
      /\ Declared!ToSet(d.profiles) = Profiles(d)
      /\ Declared!ToSet(d.entries) = {d.entries[i] : i \in DOMAIN d.entries}
  <2>1. d.entries \in Seq(Words)
    BY <1>1, DeclaredAssumption DEF Words
  <2>2. d.profiles \in Seq(STRING) /\ d.profiles # <<>>
    BY <1>1, DeclaredAssumption
  <2>3. \A i \in DOMAIN d.entries : d.entries[i] \in Words
    BY <2>1, ElementOfSeq, LenProperties
  <2>4. Len(d.profiles) \in Nat \ {0} /\ DOMAIN d.profiles = 1..Len(d.profiles)
    BY <2>2, EmptySeq, LenProperties
  <2>5. Profiles(d) \subseteq STRING
    BY <2>2, <2>4, ElementOfSeq DEF Profiles
  <2>6. d.profiles[1] \in Profiles(d)
    BY <2>4 DEF Profiles
  <2>7. QED
    BY <2>3, <2>5, <2>6 DEF Declared!ToSet, Profiles
<1>3. Names \subseteq Seq(STRING)
  <2> SUFFICES ASSUME NEW m \in Names PROVE m \in Seq(STRING)
    OBVIOUS
  <2>1. PICK i \in DOMAIN d.entries :
          m = IF ScopedIn(d, d.entries[i]) THEN Tail(d.entries[i]) ELSE d.entries[i]
    BY <1>1, ModelsRead
  <2>2. d.entries[i] \in Seq(STRING) /\ d.entries[i] # <<>>
    BY <1>2 DEF Words
  <2>3. QED
    BY <2>1, <2>2, HeadTailProperties
<1>4. \A e \in Words, p \in STRING, m \in Seq(STRING) :
        Is(e, p, m) <=> NamesFor(d, e, p, m)
  BY <1>2, Consed DEF NamesFor, ScopedIn
<1>5. /\ DOMAIN scoped = Names
      /\ \A m \in Names : scoped[m] =
           {p \in Profiles(d) : m \in Declared!DeclaredModels(d).byProfile[p]}
  BY <1>2 DEF DeclaredInv, Declared!declaredProfiles
<1> HIDE DEF Names, Is
<1>6. ASSUME NEW m \in DOMAIN scoped, NEW p \in Declared!ToSet(d.profiles)
      PROVE  /\ p \in scoped[m] <=> \E e \in Declared!ToSet(d.entries) : Is(e, p, m)
             /\ p \in scoped[m] <=> Declared!ServesModel(d, p, m)
  <2>1. m \in Seq(STRING) /\ p \in Profiles(d) /\ p \in STRING
    BY <1>2, <1>3, <1>5
  <2>2. p \in scoped[m] <=> m \in Declared!DeclaredModels(d).byProfile[p]
    BY <1>5, <2>1
  <2>3. p \in scoped[m] <=> \E i \in DOMAIN d.entries : NamesFor(d, d.entries[i], p, m)
    BY <1>1, <2>1, <2>2, ModelsRead
  <2>4. p \in scoped[m] <=> \E e \in Declared!ToSet(d.entries) : Is(e, p, m)
    BY <1>2, <1>4, <2>1, <2>3
  <2>5. Declared!Contains(d.profiles, p)
    BY <2>1, <1>1, DeclaredAssumption, LenProperties DEF Declared!Contains, Profiles
  <2>6. QED
    BY <2>2, <2>4, <2>5 DEF Declared!ServesModel
<1>7. ASSUME NEW e \in Declared!ToSet(d.entries)
      PROVE  \E m \in DOMAIN scoped : \E p \in Declared!ToSet(d.profiles) : Is(e, p, m)
  <2>1. PICK i \in DOMAIN d.entries : e = d.entries[i]
    BY <1>2
  <2>2. CASE ScopedIn(d, e)
    <3>1. Tail(e) \in Names
      BY <1>1, <2>1, <2>2, ModelsRead DEF Names
    <3>2. NamesFor(d, e, e[1], Tail(e)) /\ e[1] \in Profiles(d)
      BY <2>2 DEF NamesFor, ScopedIn
    <3>3. e \in Words /\ e[1] \in STRING /\ Tail(e) \in Seq(STRING)
      BY <1>2, <1>3, <2>1, <3>1, <3>2
    <3>4. Is(e, e[1], Tail(e))
      BY <1>4, <3>2, <3>3
    <3>5. QED
      BY <1>2, <1>5, <3>1, <3>2, <3>4
  <2>3. CASE ~ ScopedIn(d, e)
    <3>1. e \in Names
      BY <1>1, <2>1, <2>3, ModelsRead DEF Names
    <3>2. PICK p \in Profiles(d) : TRUE
      BY <1>2
    <3>3. NamesFor(d, e, p, e)
      BY <2>3 DEF NamesFor
    <3>4. e \in Words /\ p \in STRING
      BY <1>2, <1>3, <2>1, <3>2
    <3>5. Is(e, p, e)
      BY <1>3, <1>4, <3>1, <3>3, <3>4
    <3>6. QED
      BY <1>2, <1>5, <3>1, <3>2, <3>5
  <2>4. QED
    BY <2>2, <2>3
<1>8. QED
  BY <1>6, <1>7 DEF ScopedAsDeclared, Declared!ScopedAsDeclared, Is

-----------------------------------------------------------------------------
(* Answers *)

\* What a snapshot tells of who holds the card is what its source said.
Honest(v) ==
  /\ v.found = {} \/ v.found \in Found
  /\ v.read => /\ v.why = "" <=> v.source # None /\ ~ v.source.fails
               /\ v.rows = IF v.why = "" THEN v.source.rows ELSE <<>>

\* An audit of the newest of n decisions leaves none out.
Newest(entries, n) ==
  /\ entries \in Seq(Nat)
  /\ Len(entries) = IF n < MaxAsked THEN n ELSE MaxAsked
  /\ \A i \in 1..Len(entries) : entries[i] = n + 1 - i

RouterInv ==
  /\ wired \in Sources \cup {None}
  /\ decided \in Nat /\ Newest(audit, decided)
  /\ Honest(snap)
  /\ DOMAIN surveys = Answers!Surveyor
  /\ \A s \in Answers!Surveyor :
       surveys[s] # None => surveys[s].found \in Found /\ Honest(surveys[s].held)

\* The answer to a residency question, once it is there.
Told ==
  reply.kind = "residency" =>
    /\ reply.rows = view.rows /\ reply.why = view.why
    /\ reply.doubled = Answers!doubled(view.found)
    /\ \E n \in Nat : before <= n /\ Newest(reply.asked, n)

AskingInv ==
  /\ before \in Nat /\ before <= decided
  /\ Honest(view)
  /\ answersAt \in {"framed", "bound"} => channel = "line"
  /\ answersAt # "idle" => channel = "line" \/ (channel = "window" /\ request.placement = "")
  /\ surveys["own"] # None => answersAt = "surveying"
  /\ answersAt \in {"surveying", "latest", "audit", "deciding"} => Answers!Refused = ""
  /\ answersAt = "deciding" => request.op = "route"
  /\ reply.kind # "none" => answersAt = "done"
  /\ reply.kind \in {"decided", "offer"} => channel = "line"
  /\ Told

AnswersInv == RouterInv /\ AskingInv

\* Nothing is answered, recorded or surveyed at first.
LEMMA AnswersInit == Answers!Init => AnswersInv
<1> SUFFICES ASSUME Answers!Init PROVE AnswersInv
  OBVIOUS
<1>1. Honest(snap) /\ Honest(view)
  BY DEF Answers!Init, Answers!Unsurveyed, Honest
<1>2. Newest(audit, 0)
  <2>1. MaxAsked \in Nat \ {0}
    BY AnswersAssumption
  <2>2. QED
    BY <2>1 DEF Answers!Init, Newest
<1>3. reply.kind = "none"
  BY DEF Answers!Init
<1>4. RouterInv
  BY <1>1, <1>2 DEF Answers!Init, RouterInv, Answers!Surveyor
<1>5. AskingInv
  BY <1>1, <1>3 DEF Answers!Init, AskingInv, Told, Answers!Surveyor
<1>6. QED
  BY <1>4, <1>5 DEF AnswersInv

\* What a step leaves alone stays as it was.
LEMMA RouterSame ==
  ASSUME RouterInv, UNCHANGED <<surveys, snap, audit, decided>>,
         wired' \in Sources \cup {None}
  PROVE  RouterInv'
<1>1. Newest(audit, decided)' /\ Honest(snap)'
  BY DEF RouterInv, Newest, Honest
<1>2. \A s \in Answers!Surveyor :
        surveys'[s] # None => surveys'[s].found \in Found /\ Honest(surveys'[s].held)
  BY DEF RouterInv
<1>3. decided' \in Nat /\ DOMAIN surveys' = Answers!Surveyor
  BY DEF RouterInv
<1>4. QED
  BY <1>1, <1>2, <1>3 DEF RouterInv

\* A residency answer stays true of the view it was made from.
LEMMA ToldSame ==
  ASSUME Told, UNCHANGED <<before, view, reply>>
  PROVE  Told'
<1>1. Answers!doubled(view.found)' = Answers!doubled(view.found)
  BY DEF Answers!doubled
<1>2. ASSUME reply'.kind = "residency"
      PROVE  \E n \in Nat : before' <= n /\ Newest(reply'.asked, n)
  BY <1>2 DEF Told
<1>3. QED
  BY <1>1, <1>2 DEF Told

\* A question stands where it stood while others survey and decide.
LEMMA AskingSame ==
  ASSUME AskingInv, UNCHANGED <<channel, answersAt, request, before, view, reply>>,
         decided \in Nat, decided' \in Nat, decided <= decided',
         surveys'["own"] # None => surveys["own"] # None
  PROVE  AskingInv'
<1>1. Told' /\ Honest(view)'
  BY ToldSame DEF AskingInv, Honest
<1>2. Answers!Refused' = Answers!Refused
  BY DEF Answers!Refused
<1>3. before' \in Nat /\ before' <= decided'
  <2>1. before \in Nat /\ before <= decided
    BY DEF AskingInv
  <2>2. QED
    BY <2>1
<1>4. QED
  BY <1>1, <1>2, <1>3 DEF AskingInv

\* A decision recorded goes before those the audit keeps.
LEMMA RecordedNewest ==
  ASSUME RouterInv
  PROVE  Newest(Answers!Recorded(audit), decided + 1)
<1> DEFINE all == <<decided + 1>> \o audit
           n   == IF Len(audit) < MaxAsked THEN Len(audit) + 1 ELSE MaxAsked
<1>1. /\ decided \in Nat /\ audit \in Seq(Nat) /\ MaxAsked \in Nat \ {0}
      /\ Len(audit) = IF decided < MaxAsked THEN decided ELSE MaxAsked
      /\ \A i \in 1..Len(audit) : audit[i] = decided + 1 - i
  BY AnswersAssumption DEF RouterInv, Newest
<1>2. Len(audit) \in Nat
  BY <1>1, LenProperties
<1>3. <<decided + 1>> \in Seq(Nat) /\ Len(<<decided + 1>>) = 1
      /\ <<decided + 1>>[1] = decided + 1
  BY <1>1
<1>4. /\ all \in Seq(Nat) /\ Len(all) = Len(audit) + 1
      /\ \A i \in 1..(Len(audit) + 1) : all[i] = IF i <= 1 THEN <<decided + 1>>[i] ELSE audit[i - 1]
  BY <1>1, <1>2, <1>3, ConcatProperties
<1>5. ASSUME NEW i \in 1..(Len(audit) + 1) PROVE all[i] = decided + 2 - i /\ all[i] \in Nat
  <2>1. CASE i = 1
    BY <1>1, <1>2, <1>3, <1>4, <2>1
  <2>2. CASE i # 1
    <3>1. i - 1 \in 1..Len(audit) /\ ~ (i <= 1)
      BY <1>2, <2>2
    <3>2. all[i] = decided + 1 - (i - 1) /\ i - 1 <= decided
      BY <1>1, <1>2, <1>4, <3>1
    <3>3. QED
      BY <1>1, <3>2, <3>1
  <2>3. QED
    BY <2>1, <2>2
<1>6. n \in 1..(Len(audit) + 1)
  BY <1>1, <1>2
<1> HIDE DEF all, n
<1>7. /\ SubSeq(all, 1, n) \in Seq(Nat) /\ Len(SubSeq(all, 1, n)) = n
      /\ \A i \in 1..n : SubSeq(all, 1, n)[i] = all[i]
  <2>1. \A i \in 1..n : all[i] \in Nat
    BY <1>2, <1>5, <1>6
  <2>2. 1 \in Int /\ n \in Int /\ 1 <= n
    BY <1>2, <1>6
  <2>3. QED
    BY <2>1, <2>2, SubSeqProperties
<1>8. n = IF decided + 1 < MaxAsked THEN decided + 1 ELSE MaxAsked
  BY <1>1, <1>2 DEF n
<1>9. \A i \in 1..n : SubSeq(all, 1, n)[i] = (decided + 1) + 1 - i
  BY <1>1, <1>2, <1>5, <1>6, <1>7
<1>10. Newest(SubSeq(all, 1, n), decided + 1)
  BY <1>7, <1>8, <1>9 DEF Newest
<1>11. QED
  BY <1>10 DEF Answers!Recorded, all, n

\* A decision recorded changes the audit alone.
LEMMA RouterRecords ==
  ASSUME RouterInv, UNCHANGED <<wired, surveys, snap>>, decided' = decided + 1,
         Newest(audit', decided')
  PROVE  RouterInv'
<1>1. Newest(audit, decided)' /\ Honest(snap)'
  BY DEF RouterInv, Honest
<1>2. \A s \in Answers!Surveyor :
        surveys'[s] # None => surveys'[s].found \in Found /\ Honest(surveys'[s].held)
  BY DEF RouterInv
<1>3. decided' \in Nat /\ DOMAIN surveys' = Answers!Surveyor /\ wired' \in Sources \cup {None}
  BY DEF RouterInv
<1>4. QED
  BY <1>1, <1>2, <1>3 DEF RouterInv

\* A survey begun knows of no holder yet.
LEMMA SurveysBegun ==
  ASSUME RouterInv, UNCHANGED <<wired, snap, audit, decided>>,
         NEW s \in Answers!Surveyor, NEW found \in Found,
         surveys' = [surveys EXCEPT ![s] = [found |-> found, held |-> Answers!Unsurveyed]]
  PROVE  RouterInv'
<1>1. Newest(audit, decided)' /\ Honest(snap)'
  BY DEF RouterInv, Newest, Honest
<1>2. Honest(Answers!Unsurveyed)
  BY DEF Honest, Answers!Unsurveyed
<1>3. ASSUME NEW t \in Answers!Surveyor, surveys'[t] # None
      PROVE  surveys'[t].found \in Found /\ Honest(surveys'[t].held)
  <2>1. CASE t = s
    BY <1>2, <2>1 DEF RouterInv
  <2>2. CASE t # s
    BY <1>3, <2>2 DEF RouterInv
  <2>3. QED
    BY <2>1, <2>2
<1>4. DOMAIN surveys' = Answers!Surveyor /\ decided' \in Nat /\ wired' \in Sources \cup {None}
  BY DEF RouterInv
<1>5. QED
  BY <1>1, <1>3, <1>4 DEF RouterInv

\* What surveys and other callers do keeps both halves.
LEMMA RouterStep ==
  ASSUME AnswersInv,
         \/ Answers!SetResidency \/ Answers!PollSurveys \/ Answers!OthersDecide
         \/ \E s \in Answers!Surveyor : Answers!ReadHolders(s) \/ Answers!Publish(s)
  PROVE  AnswersInv'
<1> USE DEF AnswersInv
<1>1. CASE Answers!SetResidency
  <2>1. /\ UNCHANGED <<surveys, snap, audit, decided>> /\ wired' \in Sources \cup {None}
        /\ UNCHANGED <<channel, answersAt, request, before, view, reply>>
    BY <1>1 DEF Answers!SetResidency, Answers!Asking
  <2>2. decided \in Nat
    BY DEF RouterInv
  <2>3. RouterInv' /\ AskingInv'
    BY <2>1, <2>2, RouterSame, AskingSame
  <2>4. QED
    BY <2>3
<1>2. CASE Answers!PollSurveys
  <2>1. PICK found \in Found :
          surveys' = [surveys EXCEPT !["poll"] = [found |-> found, held |-> Answers!Unsurveyed]]
    BY <1>2 DEF Answers!PollSurveys, Answers!BeginSurvey
  <2>2. UNCHANGED <<wired, snap, audit, decided, channel, answersAt, request, before, view, reply>>
    BY <1>2 DEF Answers!PollSurveys, Answers!BeginSurvey, Answers!Asking
  <2>3. RouterInv'
    <3>1. "poll" \in Answers!Surveyor
      BY DEF Answers!Surveyor
    <3>2. QED
      BY <2>1, <2>2, <3>1, SurveysBegun
  <2>4. surveys'["own"] = surveys["own"] /\ decided \in Nat
    BY <2>1 DEF RouterInv, Answers!Surveyor
  <2>5. AskingInv'
    BY <2>2, <2>4, AskingSame
  <2>6. QED
    BY <2>3, <2>5
<1>3. CASE Answers!OthersDecide
  <2>1. /\ decided' = decided + 1 /\ audit' = Answers!Recorded(audit)
        /\ UNCHANGED <<wired, surveys, snap, channel, answersAt, request, before, view, reply>>
    BY <1>3 DEF Answers!OthersDecide, Answers!record, Answers!Asking
  <2>2. Newest(audit', decided')
    BY <2>1, RecordedNewest
  <2>3. RouterInv'
    BY <2>1, <2>2, RouterRecords
  <2>4. decided \in Nat /\ decided' \in Nat /\ decided <= decided'
    BY <2>1 DEF RouterInv
  <2>5. AskingInv'
    BY <2>1, <2>4, AskingSame
  <2>6. QED
    BY <2>3, <2>5
<1>4. ASSUME NEW s \in Answers!Surveyor, Answers!ReadHolders(s)
      PROVE  AnswersInv'
  <2> DEFINE h == [found |-> surveys[s].found, rows |-> Answers!readHolders(wired).rows,
                   why |-> Answers!readHolders(wired).why, source |-> wired, read |-> TRUE]
  <2>1. /\ surveys[s] # None /\ surveys' = [surveys EXCEPT ![s].held = h]
        /\ UNCHANGED <<wired, snap, audit, decided, channel, answersAt, request, before, view,
                       reply>>
    BY <1>4 DEF Answers!ReadHolders, Answers!Asking
  <2>2. Honest(h)
    <3>1. h.found \in Found /\ h.source = wired /\ wired \in Sources \cup {None}
      BY <2>1 DEF RouterInv
    <3>2. CASE wired = None
      BY <3>1, <3>2 DEF Honest, Answers!readHolders
    <3>3. CASE wired # None /\ wired.fails
      BY <3>1, <3>3 DEF Honest, Answers!readHolders
    <3>4. CASE wired # None /\ ~ wired.fails
      BY <3>1, <3>4 DEF Honest, Answers!readHolders
    <3>5. QED
      BY <3>2, <3>3, <3>4
  <2> HIDE DEF h
  <2>3. RouterInv'
    <3>1. \A t \in Answers!Surveyor \ {s} : surveys'[t] = surveys[t]
      BY <2>1 DEF RouterInv
    <3>2. surveys'[s].found = surveys[s].found /\ surveys'[s].held = h
      BY <2>1 DEF RouterInv
    <3>3. \A t \in Answers!Surveyor :
            surveys'[t] # None => surveys'[t].found \in Found /\ Honest(surveys'[t].held)
      BY <2>1, <2>2, <3>1, <3>2 DEF RouterInv
    <3>4. Newest(audit, decided)' /\ Honest(snap)'
      BY <2>1 DEF RouterInv, Newest, Honest
    <3>5. /\ DOMAIN surveys' = Answers!Surveyor /\ decided' \in Nat
          /\ wired' \in Sources \cup {None}
      BY <2>1 DEF RouterInv
    <3>6. QED
      BY <3>3, <3>4, <3>5 DEF RouterInv
  <2>4. /\ surveys'["own"] # None => surveys["own"] # None
        /\ decided \in Nat /\ decided' = decided
    BY <2>1 DEF RouterInv, Answers!Surveyor
  <2>5. AskingInv'
    BY <2>1, <2>4, AskingSame
  <2>6. QED
    BY <2>3, <2>5
<1>5. ASSUME NEW s \in Answers!Surveyor, Answers!Publish(s)
      PROVE  AnswersInv'
  <2>1. /\ surveys[s] # None /\ surveys' = [surveys EXCEPT ![s] = None]
        /\ snap' = surveys[s].held
        /\ answersAt' = IF s = "own" THEN "latest" ELSE answersAt
        /\ UNCHANGED <<wired, audit, decided, channel, request, before, view, reply>>
    BY <1>5 DEF Answers!Publish
  <2>2. Honest(snap')
    BY <2>1 DEF RouterInv
  <2>3. RouterInv'
    <3>1. \A t \in Answers!Surveyor \ {s} : surveys'[t] = surveys[t]
      BY <2>1 DEF RouterInv
    <3>2. surveys'[s] = None
      BY <2>1 DEF RouterInv
    <3>3. \A t \in Answers!Surveyor :
            surveys'[t] # None => surveys'[t].found \in Found /\ Honest(surveys'[t].held)
      BY <3>1, <3>2 DEF RouterInv
    <3>4. Newest(audit, decided)' /\ Honest(snap)'
      BY <2>1, <2>2 DEF RouterInv, Newest, Honest
    <3>5. /\ DOMAIN surveys' = Answers!Surveyor /\ decided' \in Nat
          /\ wired' \in Sources \cup {None}
      BY <2>1 DEF RouterInv
    <3>6. QED
      BY <3>3, <3>4, <3>5 DEF RouterInv
  <2>4. s = "own" => answersAt = "surveying" /\ reply.kind = "none"
    BY <2>1 DEF AskingInv
  <2>5. surveys'["own"] # None => surveys["own"] # None /\ s # "own"
    BY <2>1 DEF RouterInv, Answers!Surveyor
  <2>6. Told' /\ Honest(view)'
    BY <2>1, ToldSame DEF AskingInv, Honest
  <2>7. Answers!Refused' = Answers!Refused
    BY <2>1 DEF Answers!Refused
  <2>8. AskingInv'
    BY <2>1, <2>4, <2>5, <2>6, <2>7 DEF AskingInv
  <2>9. QED
    BY <2>3, <2>8
<1>6. QED
  BY <1>1, <1>2, <1>3, <1>4, <1>5

\* The question's own steps up to its answer.
LEMMA AskingStep ==
  ASSUME AnswersInv,
         \/ Answers!Accept \/ Answers!Bind \/ Answers!Unmarshal \/ Answers!Open
         \/ Answers!Refuse \/ Answers!Begin
  PROVE  AnswersInv'
<1> USE DEF AnswersInv
<1>1. CASE Answers!Accept \/ Answers!Bind \/ Answers!Unmarshal \/ Answers!Open \/ Answers!Refuse
  <2>1. UNCHANGED <<wired, surveys, snap, audit, decided, view>>
    BY <1>1 DEF Answers!Accept, Answers!Bind, Answers!Unmarshal, Answers!Open, Answers!Refuse,
                Answers!Router
  <2>2. RouterInv' /\ decided \in Nat
    BY <2>1, RouterSame DEF RouterInv
  <2>3. /\ answersAt \in {"idle", "framed", "bound", "asked"}
        /\ answersAt' \in {"framed", "closed", "bound", "asked", "done"}
    BY <1>1 DEF Answers!Accept, Answers!Bind, Answers!Unmarshal, Answers!Open, Answers!Refuse,
                Answers!Replies
  <2>4. reply' = reply \/ (answersAt' = "done" /\ reply'.kind = "refused")
    <3>1. CASE Answers!Accept \/ Answers!Open
      BY <3>1 DEF Answers!Accept, Answers!Open
    <3>2. CASE Answers!Bind
      BY <3>2 DEF Answers!Bind, Answers!Replies, Answers!Refusal
    <3>3. CASE Answers!Unmarshal
      BY <3>3 DEF Answers!Unmarshal, Answers!Replies, Answers!Refusal
    <3>4. CASE Answers!Refuse
      BY <3>4 DEF Answers!Refuse, Answers!Replies, Answers!Refusal
    <3>5. QED
      BY <1>1, <3>1, <3>2, <3>3, <3>4
  <2>5. before' \in Nat /\ before' <= decided'
    <3>1. before' = before \/ before' = decided
      BY <1>1 DEF Answers!Accept, Answers!Bind, Answers!Unmarshal, Answers!Open, Answers!Refuse
    <3>2. before \in Nat /\ before <= decided
      BY DEF AskingInv
    <3>3. QED
      BY <2>1, <2>2, <3>1, <3>2
  <2>6. /\ channel' = "line" \/ (channel' = "window" /\ request'.placement = "")
        /\ answersAt' \in {"framed", "bound"} => channel' = "line"
    <3>1. CASE Answers!Accept
      BY <3>1 DEF Answers!Accept
    <3>2. CASE Answers!Bind
      <4>1. answersAt = "framed" /\ channel' = channel
        BY <3>2 DEF Answers!Bind
      <4>2. QED
        BY <4>1 DEF AskingInv
    <3>3. CASE Answers!Unmarshal
      <4>1. answersAt = "bound" /\ answersAt' \in {"asked", "done"} /\ channel' = channel
        BY <3>3 DEF Answers!Unmarshal, Answers!Replies
      <4>2. QED
        BY <4>1 DEF AskingInv
    <3>4. CASE Answers!Open
      <4>1. channel' = "window" /\ answersAt' = "asked"
        BY <3>4 DEF Answers!Open
      <4>2. request'.placement = ""
        <5>1. PICK r \in Requests :
                request' = [op |-> r.op, fresh |-> r.fresh, placement |-> "", reserve |-> 0]
          BY <3>4 DEF Answers!Open
        <5>2. QED
          BY <5>1
      <4>3. QED
        BY <4>1, <4>2
    <3>5. CASE Answers!Refuse
      <4>1. answersAt = "asked" /\ answersAt' = "done" /\ UNCHANGED <<channel, request>>
        BY <3>5 DEF Answers!Refuse, Answers!Replies
      <4>2. QED
        BY <4>1 DEF AskingInv
    <3>6. QED
      BY <1>1, <3>1, <3>2, <3>3, <3>4, <3>5
  <2>7. reply.kind = "none" /\ surveys["own"] = None
    BY <2>3 DEF AskingInv
  <2>8. reply'.kind = "none" \/ (answersAt' = "done" /\ reply'.kind = "refused")
    BY <2>4, <2>7
  <2>9. Told' /\ Honest(view)'
    BY <2>1, <2>8 DEF Told, AskingInv, Honest
  <2>10. AskingInv'
    <3>1. /\ answersAt' \notin {"surveying", "latest", "audit", "deciding"}
          /\ answersAt' # "deciding"
      BY <2>3
    <3>2. surveys'["own"] = None
      BY <2>1, <2>7
    <3>3. /\ reply'.kind # "none" => answersAt' = "done"
          /\ reply'.kind \notin {"decided", "offer"}
      BY <2>8
    <3>4. QED
      BY <2>5, <2>6, <2>9, <3>1, <3>2, <3>3 DEF AskingInv
  <2>11. QED
    BY <2>2, <2>10
<1>2. CASE Answers!Begin
  <2>1. /\ answersAt = "asked" /\ answersAt' \in {"surveying", "latest"}
        /\ Answers!Refused = ""
        /\ UNCHANGED <<wired, snap, audit, decided, channel, request, before, view, reply>>
        /\ reply.kind = "none" /\ surveys["own"] = None /\ decided \in Nat
    BY <1>2 DEF Answers!Begin, Answers!BeginSurvey, AskingInv, RouterInv
  <2>2. \/ surveys' = surveys
        \/ /\ answersAt' = "surveying"
           /\ \E found \in Found :
                surveys' = [surveys EXCEPT !["own"] =
                              [found |-> found, held |-> Answers!Unsurveyed]]
    BY <1>2 DEF Answers!Begin, Answers!BeginSurvey
  <2>3. wired' \in Sources \cup {None} /\ "own" \in Answers!Surveyor
    BY <2>1 DEF RouterInv, Answers!Surveyor
  <2>4. RouterInv'
    <3>1. CASE surveys' = surveys
      BY <2>1, <2>3, <3>1, RouterSame
    <3>2. ASSUME NEW found \in Found,
                 surveys' = [surveys EXCEPT !["own"] = [found |-> found, held |-> Answers!Unsurveyed]]
          PROVE  RouterInv'
      BY <2>1, <2>3, <3>2, SurveysBegun
    <3>3. QED
      BY <2>2, <3>1, <3>2
  <2>5. Answers!Refused' = ""
    BY <2>1 DEF Answers!Refused
  <2>6. Told' /\ Honest(view)'
    BY <2>1, ToldSame DEF AskingInv, Honest
  <2>7. surveys'["own"] # None => answersAt' = "surveying"
    BY <2>1, <2>2
  <2>8. AskingInv'
    BY <2>1, <2>5, <2>6, <2>7 DEF AskingInv
  <2>9. QED
    BY <2>4, <2>8
<1>3. QED
  BY <1>1, <1>2

\* The steps an answer ends with.
LEMMA AnsweringStep ==
  ASSUME AnswersInv, Answers!Latest \/ Answers!Residency \/ Answers!Route
  PROVE  AnswersInv'
<1> USE DEF AnswersInv
<1>1. surveys["own"] = None /\ reply.kind = "none" /\ Answers!Refused = ""
  BY DEF AskingInv, Answers!Latest, Answers!Residency, Answers!Route
<1>2. request.op = "offer" \/ request.op = "route" => channel = "line"
  BY <1>1 DEF AskingInv, Answers!Refused, Answers!Latest, Answers!Residency, Answers!Route
<1>3. request.op \in {"models", "residency", "route", "offer"}
  BY <1>1 DEF Answers!Refused
<1>4. CASE Answers!Latest
  <2>1. /\ UNCHANGED <<wired, surveys, snap, audit, decided, channel, request, before>>
        /\ view' = snap
    BY <1>4 DEF Answers!Latest, Answers!Router
  <2>2. RouterInv' /\ Honest(view)'
    BY <2>1, RouterSame DEF RouterInv, Honest
  <2>3. \/ /\ reply' = reply /\ answersAt' = "audit"
        \/ /\ reply' = reply /\ answersAt' = "deciding" /\ request.op = "route"
        \/ /\ answersAt' = "done" /\ reply'.kind = request.op
           /\ request.op \in {"models", "offer"}
    BY <1>3, <1>4 DEF Answers!Latest, Answers!Replies
  <2>4. Answers!Refused' = ""
    BY <1>1, <2>1 DEF Answers!Refused
  <2>5. reply'.kind \in {"decided", "offer"} => channel' = "line"
    BY <1>1, <1>2, <2>1, <2>3
  <2>6. Told'
    BY <1>1, <2>3 DEF Told
  <2>7. answersAt # "idle"
    BY <1>4 DEF Answers!Latest
  <2>8. AskingInv'
    BY <1>1, <2>1, <2>2, <2>3, <2>4, <2>5, <2>6, <2>7 DEF AskingInv
  <2>9. QED
    BY <2>2, <2>8
<1>5. CASE Answers!Residency
  <2>1. /\ UNCHANGED <<wired, surveys, snap, audit, decided, channel, request, before, view>>
        /\ answersAt' = "done"
        /\ reply' = [kind |-> "residency", rows |-> view.rows, why |-> view.why,
                     doubled |-> Answers!doubled(view.found), asked |-> audit]
    BY <1>5 DEF Answers!Residency, Answers!Router, Answers!Replies
  <2>2. RouterInv'
    BY <2>1, RouterSame DEF RouterInv
  <2>3. Told'
    <3>1. decided \in Nat /\ before <= decided /\ Newest(audit, decided)
      BY DEF RouterInv, AskingInv
    <3>2. Answers!doubled(view.found)' = Answers!doubled(view.found)
      BY <2>1 DEF Answers!doubled
    <3>3. reply'.asked = audit /\ before' <= decided
      BY <2>1, <3>1
    <3>4. \E n \in Nat : before' <= n /\ Newest(reply'.asked, n)
      BY <3>1, <3>3
    <3>5. QED
      BY <2>1, <3>2, <3>4 DEF Told
  <2>4. Honest(view)'
    BY <2>1 DEF AskingInv, Honest
  <2>5. answersAt # "idle" /\ answersAt \notin {"framed", "bound"}
    BY <1>5 DEF Answers!Residency
  <2>6. AskingInv'
    BY <1>1, <2>1, <2>3, <2>4, <2>5 DEF AskingInv
  <2>7. QED
    BY <2>2, <2>6
<1>6. CASE Answers!Route
  <2>1. /\ decided' = decided + 1 /\ audit' = Answers!Recorded(audit)
        /\ UNCHANGED <<wired, surveys, snap, channel, request, before, view>>
        /\ answersAt = "deciding" /\ answersAt' = "done" /\ reply'.kind = "decided"
    BY <1>6 DEF Answers!Route, Answers!record, Answers!Replies
  <2>2. Newest(audit', decided')
    BY <2>1, RecordedNewest
  <2>3. RouterInv'
    BY <2>1, <2>2, RouterRecords
  <2>4. channel = "line"
    BY <1>2, <2>1 DEF AskingInv
  <2>5. Told' /\ Honest(view)'
    BY <2>1 DEF Told, AskingInv, Honest
  <2>6. before' \in Nat /\ before' <= decided'
    <3>1. decided \in Nat /\ before \in Nat /\ before <= decided
      BY DEF RouterInv, AskingInv
    <3>2. QED
      BY <2>1, <3>1
  <2>7. AskingInv'
    BY <1>1, <2>1, <2>4, <2>5, <2>6 DEF AskingInv
  <2>8. QED
    BY <2>3, <2>7
<1>7. QED
  BY <1>4, <1>5, <1>6

\* Each step keeps both halves.
LEMMA AnswersStep ==
  ASSUME AnswersInv, Answers!Next
  PROVE  AnswersInv'
BY RouterStep, AskingStep, AnsweringStep DEF Answers!Next

HostsWith(found, f) == {a.host : a \in {b \in found : b.family = f /\ b.resident}}

\* A family is doubled exactly when two hosts have it.
LEMMA DoubledPairs ==
  ASSUME NEW found, IsFiniteSet(found), NEW f
  PROVE  f \in {a.family : a \in found} =>
           (f \in Answers!doubled(found) <=>
              \E a, b \in found : /\ a.family = f /\ b.family = f
                                  /\ a.resident /\ b.resident /\ a.host # b.host)
<1> DEFINE loaded == {b \in found : b.family = f /\ b.resident}
           On == {a.host : a \in loaded}
<1>1. IsFiniteSet(loaded)
  BY FS_Subset
<1>2. [a \in loaded |-> a.host] \in Surjection(loaded, On)
  BY DEF Surjection
<1>3. IsFiniteSet(On)
  BY <1>1, <1>2, FS_Surjection
<1>4. Cardinality(On) \in Nat
  BY <1>3, FS_CardinalityType
<1>5. Cardinality(On) > 1 <=> \E x, y \in On : x # y
  <2>1. Cardinality(On) = 0 <=> On = {}
    BY <1>3, FS_EmptySet
  <2>2. Cardinality(On) = 1 <=> \E x : On = {x}
    BY <1>3, FS_Singleton
  <2> HIDE DEF On
  <2>3. (\E x, y \in On : x # y) <=> On # {} /\ ~ (\E x : On = {x})
    OBVIOUS
  <2>4. QED
    BY <1>4, <2>1, <2>2, <2>3
<1>6. f \in {a.family : a \in found} =>
        (f \in Answers!doubled(found) <=> Cardinality(On) > 1)
  <2>1. Answers!doubled(found) =
          {g \in {a.family : a \in found} : Cardinality(HostsWith(found, g)) > 1}
    <3>1. \A S : Answers!Cardinality(S) = Cardinality(S)
      BY DEF Cardinality, Answers!Cardinality
    <3>2. QED
      BY <3>1 DEF Answers!doubled, HostsWith
  <2>2. On = HostsWith(found, f)
    BY DEF HostsWith
  <2> HIDE DEF On
  <2>3. QED
    BY <2>1, <2>2
<1>7. (\E x, y \in On : x # y) <=>
        \E a, b \in found : /\ a.family = f /\ b.family = f
                            /\ a.resident /\ b.resident /\ a.host # b.host
  OBVIOUS
<1>8. QED
  BY <1>5, <1>6, <1>7

\* What was told of an honest view and the newest decisions is whole.
LEMMA AnswersKeeps == AnswersInv => AnswersWhole
<1> SUFFICES ASSUME AnswersInv PROVE AnswersWhole
  OBVIOUS
<1>1. reply.kind \in {"decided", "offer"} => channel = "line"
  BY DEF AnswersInv, AskingInv
<1>2. ASSUME reply.kind = "residency"
      PROVE  /\ view.read =>
                  /\ reply.why = "" <=> view.source # None /\ ~ view.source.fails
                  /\ reply.rows = IF reply.why = "" THEN view.source.rows ELSE <<>>
             /\ \A f \in {a.family : a \in view.found} :
                  f \in reply.doubled <=> \E a, b \in view.found :
                    /\ a.family = f /\ b.family = f /\ a.resident /\ b.resident
                    /\ a.host # b.host
             /\ before > 0 => reply.asked # <<>> /\ reply.asked[1] >= before
             /\ \A i \in DOMAIN reply.asked : reply.asked[i] = reply.asked[1] + 1 - i
             /\ reply.asked # <<>> => \/ Len(reply.asked) = MaxAsked
                                      \/ reply.asked[Len(reply.asked)] = 1
  <2>1. /\ reply.rows = view.rows /\ reply.why = view.why
        /\ reply.doubled = Answers!doubled(view.found) /\ Honest(view)
        /\ \E n \in Nat : before <= n /\ Newest(reply.asked, n)
    BY <1>2 DEF AnswersInv, AskingInv, Told
  <2>2. view.read =>
          /\ reply.why = "" <=> view.source # None /\ ~ view.source.fails
          /\ reply.rows = IF reply.why = "" THEN view.source.rows ELSE <<>>
    BY <2>1 DEF Honest
  <2>3. IsFiniteSet(view.found)
    BY <2>1, AnswersAssumption, FS_EmptySet DEF Honest
  <2>4. \A f \in {a.family : a \in view.found} :
          f \in reply.doubled <=> \E a, b \in view.found :
            /\ a.family = f /\ b.family = f /\ a.resident /\ b.resident
            /\ a.host # b.host
    BY <2>1, <2>3, DoubledPairs
  <2>5. PICK n \in Nat : before <= n /\ Newest(reply.asked, n)
    BY <2>1
  <2>6. /\ Len(reply.asked) \in Nat /\ DOMAIN reply.asked = 1..Len(reply.asked)
        /\ reply.asked = <<>> <=> Len(reply.asked) = 0
        /\ Len(reply.asked) = IF n < MaxAsked THEN n ELSE MaxAsked
        /\ \A i \in 1..Len(reply.asked) : reply.asked[i] = n + 1 - i
    BY <2>5, EmptySeq, LenProperties DEF Newest
  <2>7. before \in Nat /\ MaxAsked \in Nat \ {0}
    BY AnswersAssumption DEF AnswersInv, AskingInv
  <2>8. before > 0 => reply.asked # <<>> /\ reply.asked[1] >= before
    <3>1. n \in Nat /\ before <= n
      BY <2>5
    <3>2. before > 0 => Len(reply.asked) \in Nat \ {0}
      BY <2>6, <2>7, <3>1
    <3>3. before > 0 => reply.asked[1] = n
      BY <2>6, <3>1, <3>2
    <3>4. QED
      BY <2>6, <2>7, <3>1, <3>2, <3>3
  <2>9. \A i \in DOMAIN reply.asked : reply.asked[i] = reply.asked[1] + 1 - i
    BY <2>5, <2>6
  <2>10. reply.asked # <<>> => \/ Len(reply.asked) = MaxAsked
                               \/ reply.asked[Len(reply.asked)] = 1
    BY <2>5, <2>6, <2>7
  <2>11. QED
    BY <2>2, <2>4, <2>8, <2>9, <2>10
<1>3. QED
  BY <1>1, <1>2 DEF AnswersWhole, Answers!AnswersWhole

\* What a survey may have in hand.
Held ==
  [found : Found \cup {{}}, rows : {s.rows : s \in Sources} \cup {<<>>},
   why : {"", "no source", "source failed"}, source : Sources \cup {None}, read : BOOLEAN]

InHand == [found : Found, held : Held]

AnswersTyped == Answers!TypeOK /\ \A s \in Answers!Surveyor : surveys[s] \in InHand \cup {None}

\* A survey that is in hand stays one until it is published.
LEMMA SurveysTyped ==
  ASSUME AnswersInv, AnswersTyped, Answers!Next
  PROVE  /\ \A s \in Answers!Surveyor : surveys'[s] \in InHand \cup {None}
         /\ \/ UNCHANGED answersAt /\ (surveys'["own"] = None <=> surveys["own"] = None)
            \/ answersAt = "asked" /\ answersAt' = "surveying" /\ surveys'["own"] # None
            \/ surveys["own"] # None /\ answersAt' = "latest" /\ surveys'["own"] = None
            \/ /\ answersAt' # "surveying" /\ answersAt # "surveying" 
               /\ surveys'["own"] = surveys["own"]
<1> None \notin InHand
  BY AnswersAssumption DEF InHand, Held
<1> DOMAIN surveys = Answers!Surveyor /\ Answers!Surveyor = {"poll", "own"}
  BY DEF AnswersInv, RouterInv, Answers!Surveyor
<1>1. ASSUME NEW s \in Answers!Surveyor, NEW found \in Found, Answers!BeginSurvey(s, found)
      PROVE  /\ surveys'[s] \in InHand
             /\ \A t \in Answers!Surveyor \ {s} : surveys'[t] = surveys[t]
  <2>1. Answers!Unsurveyed \in Held
    <3>1. /\ {} \in Found \cup {{}} /\ <<>> \in {x.rows : x \in Sources} \cup {<<>>}
          /\ "" \in {"", "no source", "source failed"} /\ None \in Sources \cup {None} /\ FALSE \in BOOLEAN
      OBVIOUS
    <3>2. QED
      BY <3>1 DEF Answers!Unsurveyed, Held
  <2>2. surveys' = [surveys EXCEPT ![s] = [found |-> found, held |-> Answers!Unsurveyed]]
    BY <1>1 DEF Answers!BeginSurvey
  <2>3. QED
    BY <2>1, <2>2 DEF InHand
<1>2. ASSUME NEW s \in Answers!Surveyor, Answers!ReadHolders(s)
      PROVE  /\ surveys'[s] \in InHand /\ surveys[s] # None /\ UNCHANGED answersAt
             /\ \A t \in Answers!Surveyor \ {s} : surveys'[t] = surveys[t]
  <2> DEFINE held == [found |-> surveys[s].found, rows |-> Answers!readHolders(wired).rows,
                      why |-> Answers!readHolders(wired).why, source |-> wired, read |-> TRUE]
  <2>1. /\ surveys[s] # None /\ surveys' = [surveys EXCEPT ![s].held = held]
        /\ UNCHANGED answersAt
    BY <1>2 DEF Answers!ReadHolders, Answers!Asking
  <2>2. wired \in Sources \cup {None} /\ None \notin Sources
    BY AnswersAssumption DEF AnswersTyped, Answers!TypeOK
  <2>3. /\ Answers!readHolders(wired).rows \in {x.rows : x \in Sources} \cup {<<>>}
        /\ Answers!readHolders(wired).why \in {"", "no source", "source failed"}
    <3>1. CASE wired = None
      BY <3>1 DEF Answers!readHolders
    <3>2. CASE wired \in Sources /\ wired # None /\ wired.fails
      BY <3>2 DEF Answers!readHolders
    <3>3. CASE wired \in Sources /\ wired # None /\ ~ wired.fails
      BY <3>3 DEF Answers!readHolders
    <3>4. QED
      BY <2>2, <3>1, <3>2, <3>3
  <2>4. surveys[s] \in InHand
    BY <2>1 DEF AnswersTyped
  <2>5. held \in Held
    BY <2>2, <2>3, <2>4 DEF Held, InHand
  <2> HIDE DEF held
  <2>6. [surveys[s] EXCEPT !.held = held] \in InHand
    BY <2>4, <2>5 DEF InHand
  <2>7. /\ surveys'[s] = [surveys[s] EXCEPT !.held = held]
        /\ \A t \in Answers!Surveyor \ {s} : surveys'[t] = surveys[t]
    BY <2>1
  <2>8. QED
    BY <2>1, <2>6, <2>7
<1>3. ASSUME NEW s \in Answers!Surveyor, Answers!Publish(s)
      PROVE  /\ surveys'[s] = None /\ surveys[s] # None
             /\ answersAt' = IF s = "own" THEN "latest" ELSE answersAt
             /\ \A t \in Answers!Surveyor \ {s} : surveys'[t] = surveys[t]
  BY <1>3 DEF Answers!Publish
<1>4. CASE \E s \in Answers!Surveyor : Answers!ReadHolders(s) \/ Answers!Publish(s)
  BY <1>2, <1>3, <1>4 DEF AnswersTyped
<1>5. CASE Answers!PollSurveys
  <2>1. PICK found \in Found : Answers!BeginSurvey("poll", found)
    BY <1>5 DEF Answers!PollSurveys
  <2>2. UNCHANGED answersAt
    BY <1>5 DEF Answers!PollSurveys, Answers!Asking
  <2>3. QED
    BY <1>1, <2>1, <2>2 DEF AnswersTyped
<1>6. CASE Answers!Begin
  <2>1. CASE answersAt' = "surveying" /\ \E found \in Found : Answers!BeginSurvey("own", found)
    BY <1>1, <1>6, <2>1 DEF AnswersTyped, Answers!Begin
  <2>2. CASE answersAt' = "latest" /\ UNCHANGED surveys
    BY <1>6, <2>2 DEF AnswersTyped, Answers!Begin
  <2>3. QED
    BY <1>6, <2>1, <2>2 DEF Answers!Begin
<1>7. CASE Answers!SetResidency \/ Answers!OthersDecide
  BY <1>7 DEF AnswersTyped, Answers!SetResidency, Answers!OthersDecide, Answers!record, Answers!Asking
<1>8. CASE \/ Answers!Accept \/ Answers!Bind \/ Answers!Unmarshal \/ Answers!Open \/ Answers!Refuse
           \/ Answers!Latest \/ Answers!Residency \/ Answers!Route
  <2>1. UNCHANGED surveys /\ answersAt' # "surveying" /\ answersAt # "surveying"
    BY <1>8 DEF Answers!Accept, Answers!Bind, Answers!Unmarshal, Answers!Open, Answers!Refuse,
                Answers!Latest, Answers!Residency, Answers!Route, Answers!record, Answers!Replies,
                Answers!Router
  <2>2. QED
    BY <2>1 DEF AnswersTyped
<1>9. QED
  BY <1>4, <1>5, <1>6, <1>7, <1>8 DEF Answers!Next

\* A question stands where its answer and its survey say it does.
LEMMA AnswersTypes ==
  ASSUME AnswersInv, AnswersTyped, Answers!Next
  PROVE  AnswersTyped'
<1>1. AnswersInv'
  BY AnswersStep
<1>2. wired' \in Sources \cup {None} /\ Len(audit') <= MaxAsked
  <2>1. Len(audit') = (IF decided' < MaxAsked THEN decided' ELSE MaxAsked) /\ decided' \in Nat
    BY <1>1 DEF AnswersInv, RouterInv, Newest
  <2>2. MaxAsked \in Nat
    BY AnswersAssumption
  <2>3. wired' \in Sources \cup {None}
    BY <1>1 DEF AnswersInv, RouterInv
  <2>4. QED
    BY <2>1, <2>2, <2>3
<1>3. polls' \in 0..MaxPolls
  <2>1. polls \in 0..MaxPolls /\ MaxPolls \in Nat
    BY AnswersAssumption DEF AnswersTyped, Answers!TypeOK
  <2>2. (polls' = polls + 1 /\ polls < MaxPolls) \/ polls' = polls
    BY DEF Answers!Next, Answers!SetResidency, Answers!PollSurveys, Answers!OthersDecide,
           Answers!record, Answers!ReadHolders, Answers!Publish, Answers!Accept, Answers!Bind,
           Answers!Unmarshal, Answers!Open, Answers!Refuse, Answers!Begin, Answers!Latest,
           Answers!Residency, Answers!Route, Answers!Router
  <2>3. QED
    BY <2>1, <2>2
<1>4. /\ answersAt' \in {"idle", "framed", "closed", "bound", "asked", "surveying", "latest",
                         "audit", "deciding", "done"}
      /\ answersAt' = "done" => reply'.kind # "none"
  <2>1. CASE UNCHANGED <<answersAt, reply>>
    BY <2>1 DEF AnswersTyped, Answers!TypeOK
  <2>2. CASE \E s \in Answers!Surveyor : Answers!Publish(s)
    <3>1. reply' = reply /\ answersAt' \in {"latest", answersAt}
      BY <2>2 DEF Answers!Publish
    <3>2. QED
      BY <3>1 DEF AnswersTyped, Answers!TypeOK
  <2>3. CASE \/ Answers!Accept \/ Answers!Bind \/ Answers!Unmarshal \/ Answers!Open
             \/ Answers!Refuse \/ Answers!Begin
    <3>1. \A code : Answers!Refusal(code).kind # "none"
      BY DEF Answers!Refusal
    <3>2. \/ answersAt' \in {"framed", "closed", "bound", "asked", "surveying", "latest"}
          \/ \E code : Answers!Replies(Answers!Refusal(code))
      BY <2>3 DEF Answers!Accept, Answers!Bind, Answers!Unmarshal, Answers!Open, Answers!Refuse,
                  Answers!Begin
    <3>3. QED
      BY <3>1, <3>2 DEF Answers!Replies
  <2>4. CASE Answers!Latest
    <3>1. \/ answersAt' \in {"audit", "deciding"}
          \/ answersAt' = "done" /\ reply'.kind = request.op
      BY <2>4 DEF Answers!Latest, Answers!Replies
    <3>2. request.op \in {"models", "residency", "route", "offer"}
      BY <2>4 DEF AnswersInv, AskingInv, Answers!Latest, Answers!Refused
    <3>3. QED
      BY <3>1, <3>2
  <2>5. CASE Answers!Residency \/ Answers!Route
    BY <2>5 DEF Answers!Residency, Answers!Route, Answers!Replies
  <2>6. CASE \/ Answers!SetResidency \/ Answers!PollSurveys \/ Answers!OthersDecide
             \/ \E s \in Answers!Surveyor : Answers!ReadHolders(s)
    BY <2>1, <2>6 DEF Answers!SetResidency, Answers!PollSurveys, Answers!OthersDecide,
                      Answers!ReadHolders, Answers!Asking
  <2>7. QED
    BY <2>2, <2>3, <2>4, <2>5, <2>6 DEF Answers!Next
<1>5. answersAt' \in {"surveying"} <=> surveys'["own"] # None
  BY SurveysTyped DEF AnswersTyped, Answers!TypeOK
<1>6. reply'.kind # "none" => answersAt' = "done"
  BY <1>1 DEF AnswersInv, AskingInv
<1>7. \A s \in Answers!Surveyor : surveys'[s] \in InHand \cup {None}
  BY SurveysTyped
<1>8. QED
  BY <1>2, <1>3, <1>4, <1>5, <1>6, <1>7 DEF AnswersTyped, Answers!TypeOK

-----------------------------------------------------------------------------
(* The readers together *)

IInv ==
  /\ RemoteInv /\ LemonadeInv /\ AdaptersInv
  /\ HostedInv /\ Hosted!TypeOK
  /\ UnloadInv /\ UnloadTyped
  /\ EnvironmentInv /\ DeclaredInv
  /\ AnswersInv /\ AnswersTyped

AllVars == <<part, RemoteVars, HostedVars, LemonadeVars, AdaptersVars, UnloadVars,
             DeclaredVars, AnswersVars>>

\* A reader's invariant looks at its own variables.
LEMMA Others ==
  /\ HostedInv /\ Hosted!TypeOK /\ UNCHANGED HostedVars => HostedInv' /\ Hosted!TypeOK'
  /\ UnloadInv /\ UnloadTyped /\ UNCHANGED UnloadVars => UnloadInv' /\ UnloadTyped'
  /\ EnvironmentInv /\ DeclaredInv /\ UNCHANGED DeclaredVars => EnvironmentInv' /\ DeclaredInv'
  /\ AnswersInv /\ AnswersTyped /\ UNCHANGED AnswersVars => AnswersInv' /\ AnswersTyped'
<1>1. HostedInv /\ Hosted!TypeOK /\ UNCHANGED HostedVars => HostedInv' /\ Hosted!TypeOK'
  BY DEF HostedInv, HostedVars, SentHome, Blamed, Hosted!Addressed, Hosted!NeedsCredential, Hosted!Sent,
         Hosted!redirectFollowed, Hosted!TypeOK
<1>2. UnloadInv /\ UnloadTyped /\ UNCHANGED UnloadVars => UnloadInv' /\ UnloadTyped'
  BY DEF UnloadInv, UnloadVars, Asking, UnloadTyped, Unload!TypeOK
<1>3. EnvironmentInv /\ DeclaredInv /\ UNCHANGED DeclaredVars => EnvironmentInv' /\ DeclaredInv'
  <2>1. UNCHANGED DeclaredVars => UNCHANGED <<environment, hosts, reasons, declaration, scoped>>
    BY DEF DeclaredVars
  <2>2. QED
    BY <2>1, EnvironmentSame DEF DeclaredInv
<1>4. AnswersInv /\ AnswersTyped /\ UNCHANGED AnswersVars => AnswersInv' /\ AnswersTyped'
  <2> SUFFICES ASSUME AnswersInv, AnswersTyped, UNCHANGED AnswersVars
               PROVE  AnswersInv' /\ AnswersTyped'
    OBVIOUS
  <2>1. UNCHANGED <<wired, surveys, polls, snap, audit, decided, channel, answersAt, request,
                    before, view, reply>>
    BY DEF AnswersVars
  <2>2. decided \in Nat /\ wired \in Sources \cup {None}
    BY DEF AnswersInv, RouterInv
  <2>3. RouterInv' /\ AskingInv'
    BY <2>1, <2>2, RouterSame, AskingSame DEF AnswersInv
  <2>4. AnswersTyped'
    BY <2>1 DEF AnswersTyped, Answers!TypeOK
  <2>5. QED
    BY <2>3, <2>4 DEF AnswersInv
<1>5. QED
  BY <1>1, <1>2, <1>3, <1>4

\* Nothing is read, asked or declared at first.
LEMMA ReadersInit == Init => IInv
<1> SUFFICES ASSUME Init PROVE IInv
  OBVIOUS
<1>1. RemoteInv /\ LemonadeInv /\ AdaptersInv
  BY RemoteInit, LemonadeInit, AdaptersInit DEF Init
<1>2. HostedInv /\ UnloadInv /\ EnvironmentInv /\ DeclaredInv /\ AnswersInv
  BY HostedInit, UnloadInit, EnvironmentInit, DeclaredInit, AnswersInit DEF Init
<1>3. Hosted!TypeOK
  BY DEF Init, Hosted!Init, Hosted!TypeOK
<1>4. UnloadTyped
  BY DEF Init, Unload!Init, UnloadTyped, Unload!TypeOK
<1>5. AnswersTyped
  <2>1. MaxAsked \in Nat /\ MaxPolls \in Nat /\ Len(<<>>) = 0
    BY AnswersAssumption
  <2>2. "own" \in Answers!Surveyor
    BY DEF Answers!Surveyor
  <2>3. QED
    BY <2>1, <2>2 DEF Init, Answers!Init, AnswersTyped, Answers!TypeOK
<1>6. QED
  BY <1>1, <1>2, <1>3, <1>4, <1>5 DEF IInv

\* A step of one reader keeps its invariant, and leaves the others' alone.
LEMMA ReadersStep == IInv /\ [Next]_AllVars => IInv'
<1> SUFFICES ASSUME IInv, [Next]_AllVars PROVE IInv'
  OBVIOUS
<1>1. /\ RemoteInv /\ LemonadeInv /\ AdaptersInv
      /\ HostedInv /\ Hosted!TypeOK
      /\ UnloadInv /\ UnloadTyped
      /\ EnvironmentInv /\ DeclaredInv
      /\ AnswersInv /\ AnswersTyped
  BY DEF IInv
<1>2. RemoteInv'
  <2>1. Remote!Next \/ UNCHANGED RemoteVars
    BY DEF Next, AllVars
  <2>2. QED
    BY <1>1, <2>1, RemoteStep, RemoteSame
<1>3. LemonadeInv'
  <2>1. Lemonade!Next \/ UNCHANGED LemonadeVars
    BY DEF Next, AllVars
  <2>2. QED
    BY <1>1, <2>1, LemonadeStep, LemonadeSame
<1>4. AdaptersInv'
  <2>1. Adapters!Next \/ UNCHANGED AdaptersVars
    BY DEF Next, AllVars
  <2>2. QED
    BY <1>1, <2>1, AdaptersStep, AdaptersSame
<1>5. HostedInv' /\ Hosted!TypeOK'
  <2>1. Hosted!Next \/ UNCHANGED HostedVars
    BY DEF Next, AllVars
  <2>2. QED
    BY <1>1, <2>1, HostedStep, HostedTypes, Others
<1>6. UnloadInv' /\ UnloadTyped'
  <2>1. Unload!Next \/ UNCHANGED UnloadVars
    BY DEF Next, AllVars
  <2>2. QED
    BY <1>1, <2>1, UnloadStep, UnloadTypes, Others
<1>7. EnvironmentInv' /\ DeclaredInv'
  <2>1. Declared!Next \/ UNCHANGED DeclaredVars
    BY DEF Next, AllVars
  <2>2. QED
    BY <1>1, <2>1, EnvironmentStep, DeclaredStep, Others
<1>8. AnswersInv' /\ AnswersTyped'
  <2>1. Answers!Next \/ UNCHANGED AnswersVars
    BY DEF Next, AllVars
  <2>2. QED
    BY <1>1, <2>1, AnswersStep, AnswersTypes, Others
<1>9. QED
  BY <1>2, <1>3, <1>4, <1>5, <1>6, <1>7, <1>8 DEF IInv

\* The invariant of the readers holds throughout (remote.go, hosts.go,
\* profiles.go, hosted.go, unload.go, declared.go, native.go, service.go).
THEOREM ReadersInvariant == Spec => []IInv
BY ReadersInit, ReadersStep, PTL DEF Spec, AllVars

\* Every reader keeps its types and the bounds of its work (remote.go,
\* hosted.go, hosts.go, unload.go, declared.go, router.go record).
THEOREM TypesKept == Spec => []TypeOK
<1>1. IInv => Declared!TypeOK
  <2> SUFFICES ASSUME IInv PROVE Declared!TypeOK
    OBVIOUS
  <2>1. EnvironmentInv /\ (declaration = None => scoped = <<>>)
    BY DEF IInv, DeclaredInv
  <2>2. Declared!ToSet(Declared!Products) = {Declared!Products[l] : l \in 1..4}
    BY ProductsDiffer DEF Declared!ToSet
  <2>3. ASSUME environment # None
        PROVE  /\ \A i \in DOMAIN hosts : hosts[i].product \in Declared!ToSet(Declared!Products)
               /\ reasons \subseteq Declared!ToSet(Declared!Products)
    <3>1. \A i \in DOMAIN hosts : \E l \in 1..4 : hosts[i].product = Declared!Products[l]
      BY <2>1, <2>3, HostsRows
    <3>2. \A p \in reasons : \E l \in 1..4 : p = Declared!Products[l]
      BY <2>1, <2>3 DEF EnvironmentInv
    <3>3. QED
      BY <2>2, <3>1, <3>2
  <2>4. environment = None => hosts = <<>> /\ reasons = {}
    BY <2>1 DEF EnvironmentInv
  <2>5. QED
    BY <2>1, <2>3, <2>4 DEF Declared!TypeOK
<1>2. IInv => TypeOK
  BY <1>1 DEF IInv, TypeOK, RemoteInv, LemonadeInv, AdaptersInv, UnloadTyped, AnswersTyped
<1>3. QED
  BY <1>2, ReadersInvariant, PTL

\* Surveys that share one link to a runtime each read what one listing had
\* (remote.go List, ReadContexts, ReadProfiles).
THEOREM OneListingIsRead == Spec => []OneListingRead
<1>1. IInv => OneListingRead
  BY DEF IInv, RemoteInv, OneListingRead
<1>2. QED
  BY <1>1, ReadersInvariant, PTL

\* What is read of a Lemonade server is its models' (hosts.go
\* lemonadeModelContexts, lemonadeModelOptions).
THEOREM LemonadeIsReadTrue == Spec => []LemonadeReadTrue
<1>1. IInv => LemonadeReadTrue
  BY LemonadeKeeps DEF IInv
<1>2. QED
  BY <1>1, ReadersInvariant, PTL

\* What is read of a server that changes meanwhile was so at some moment of the
\* read (hosts.go LMStudio, ComfyUI, profiles.go ollamaModelMetadata).
THEOREM AdaptersAreReadTrue == Spec => []AdaptersReadTrue
<1>1. IInv => AdaptersReadTrue
  BY AdaptersKeeps DEF IInv
<1>2. QED
  BY <1>1, ReadersInvariant, PTL

\* A product is a host only by a sound record of its own, in its turn
\* (declared.go Probe, Declared).
THEOREM DeclaredByRecords == Spec => []DeclaredFromItsRecord
<1>1. IInv => DeclaredFromItsRecord
  BY EnvironmentKeeps DEF IInv
<1>2. QED
  BY <1>1, ReadersInvariant, PTL

\* A provider's credential leaves for that provider's host alone (hosted.go
\* hostedRequestClient).
THEOREM CredentialsStayHome == Spec => []CredentialStaysHome
<1>1. IInv => CredentialStaysHome
  BY HostedKeeps DEF IInv
<1>2. QED
  BY <1>1, ReadersInvariant, PTL

\* A hosted server that is down is blamed on what failed it: on this runtime's
\* configuration or its credential only if nothing was sent, and on no cause
\* known if its base gives no address to send to (hosted.go readHosted,
\* listIDs, availability.go causeOf).
THEOREM DownIsBlamed == Spec => []DownSaysWhy
<1>1. IInv => DownSaysWhy
  BY HostedKeeps DEF IInv
<1>2. QED
  BY <1>1, ReadersInvariant, PTL

\* An unload asks for all that is listed, whatever fails (unload.go
\* unloadLMStudio, unloadOllama).
THEOREM UnloadsAskAll == Spec => []UnloadAsksAll
<1>1. IInv => UnloadAsksAll
  BY UnloadKeeps DEF IInv
<1>2. QED
  BY <1>1, ReadersInvariant, PTL

\* A declared server lists a model for the profiles it is asked to serve it
\* for (native.go DeclaredEntry, DeclaredModels, ServesModel).
THEOREM DeclarationsScope == Spec => []ScopedAsDeclared
<1>1. IInv => ScopedAsDeclared
  BY DeclaredKeeps DEF IInv
<1>2. QED
  BY <1>1, ReadersInvariant, PTL

\* A residency answer is put together whole (service.go Answer, residency.go,
\* window.go).
THEOREM AnswersAreWhole == Spec => []AnswersWhole
<1>1. IInv => AnswersWhole
  BY AnswersKeeps DEF IInv
<1>2. QED
  BY <1>1, ReadersInvariant, PTL
=============================================================================
