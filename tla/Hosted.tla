------------------------------- MODULE Hosted -------------------------------
(***************************************************************************)
(* One read of a hosted server's listing: its credential is applied for    *)
(* this request alone, the request is sent, and whatever comes of it the   *)
(* server is listed up, or down with a reason and a cause.  The applier    *)
(* may be given to the router, or replaced, at any time.                   *)
(*                                                                         *)
(* Nothing looks at a provider's base before it is asked: a base may be a  *)
(* text that no URL is spelt as, and then has no target.                   *)
(***************************************************************************)
EXTENDS Integers, Sequences

CONSTANTS
  Providers,   \* hosted servers: [wire, parses, target, credential]
  Outcomes,    \* words an applier refuses with
  Elsewhere,   \* a host that is no provider's target
  Ids,         \* listings a provider may answer with
  None         \* no provider, credential or applier

Wires == {"openai-compatible", "openai-realtime", "anthropic-messages",
          "deepgram-prerecorded", "elevenlabs-stream", "stability-v2beta",
          "fal-queue", "replicate-predictions", "oa-remote@1"}

\* Wires whose listing is known without asking.
Known == {"deepgram-prerecorded", "stability-v2beta", "fal-queue",
          "replicate-predictions"}

VARIABLES
  applier,    \* Router.apply: None, "applies", or the outcome it refuses with
  provider,   \* the server being read
  at,         \* where the read stands
  headers,    \* the request's headers: "credential" and "version"
  sent,       \* what was sent where
  installed,  \* what was listed
  why,        \* why the server is down, <<>> when it is not
  cause       \* AvailabilityCause, "" when there is none

vars == <<applier, provider, at, headers, sent, installed, why, cause>>

Init ==
  /\ applier = None /\ provider = None
  /\ at = "idle"
  /\ headers = {} /\ sent = {}
  /\ installed = <<>> /\ why = <<>> /\ cause = ""

UseCredentials ==
  /\ applier' \in ({None, "applies"} \cup Outcomes) \ {applier}
  /\ UNCHANGED <<provider, at, headers, sent, installed, why, cause>>

-----------------------------------------------------------------------------
(* Causes *)

statusCause(status) ==
  CASE status = 401 -> "credential"
    [] status = 403 -> "rights"
    [] status \in {400, 422} -> "malformed"
    [] status \in {502, 503, 504} -> "transport_unavailable"
    [] OTHER -> "unknown"

\* An error is a word: one the transport gives, or "refused" by an applier.
\* A redirect that was not followed, an address that cannot be parsed and a
\* text made of an error are neither.
causeOf(error) ==
  CASE error = "refused" -> "credential"
    [] error \in {"network", "deadline"} -> "transport_unavailable"
    [] OTHER -> "unknown"

\* Mutant: a credential's refusal passes for a provider that cannot be reached.
CredentialReasonLost(name, error) == <<"listing", name, "unreachable">>

CredentialReason(name, error) ==
  <<"credential", IF error \in Outcomes THEN error ELSE "unavailable", name>>

Down(reason, c) ==
  /\ at' = "done"
  /\ why' = reason /\ cause' = c
  /\ headers' = {}
  /\ UNCHANGED installed

-----------------------------------------------------------------------------
(* readHosted *)

\* The listing of a wire this package does not know is missing.
Begin(p) ==
  /\ at = "idle"
  /\ provider' = p
  /\ \/ /\ p.wire \notin Wires
        /\ Down(<<"unsupported_wire", p.wire>>, "configuration")
     \/ /\ p.wire \in Wires
        /\ at' = "applying"
        /\ UNCHANGED <<headers, installed, why, cause>>
  /\ UNCHANGED <<applier, sent>>

NeedsCredential == provider.credential # None /\ provider.wire # "oa-remote@1"

\* A remote runtime applies its own credential; none is applied here.
Apply ==
  /\ at = "applying"
  /\ \/ /\ ~ NeedsCredential
        /\ at' = "listing" /\ UNCHANGED <<headers, installed, why, cause>>
     \/ /\ NeedsCredential /\ applier = "applies"
        /\ at' = "listing" /\ headers' = {"credential"}
        /\ UNCHANGED <<installed, why, cause>>
     \/ /\ NeedsCredential /\ applier # "applies"
        /\ Down(CredentialReason(provider.credential, applier), "credential")
  /\ UNCHANGED <<applier, provider, sent>>

\* The anthropic wire sends a header of its own besides.
Sent == headers \cup IF provider.wire = "anthropic-messages" THEN {"version"} ELSE {}

Listed(list) ==
  /\ at' = "done" /\ installed' = list /\ headers' = {}
  /\ UNCHANGED <<why, cause>>

\* A wire's own list of models.
ListKnown ==
  /\ at = "listing" /\ provider.wire \in Known
  /\ \E list \in Ids : Listed(list)
  /\ UNCHANGED <<applier, provider, sent>>

\* A request needs an address.  That of a base that is no URL is found unusable
\* only here, its credential applied; a remote runtime is reached otherwise.
Addressed == provider.parses \/ provider.wire = "oa-remote@1"

Request ==
  /\ at = "listing" /\ provider.wire \notin Known
  /\ \/ /\ Addressed
        /\ sent' = {[to |-> provider.target, headers |-> Sent]}
        /\ at' = "asked"
        /\ UNCHANGED <<headers, installed, why, cause>>
     \/ /\ ~ Addressed
        /\ Down(<<"address", provider.target>>, causeOf("address"))
        /\ UNCHANGED sent
  /\ UNCHANGED <<applier, provider>>

\* Mutant: a redirect is refused only for the credential of its own header.
redirectFollowedWith(hs) == "version" \notin hs

\* A client that carries headers refuses every redirect.
redirectFollowed(hs) == hs = {}

Unreachable == <<"listing", provider.target, "unreachable">>

Redirected ==
  /\ at = "asked" /\ provider.wire # "oa-remote@1"
  /\ \/ /\ redirectFollowed(Sent)
        /\ \E to \in {provider.target, Elsewhere} :
             sent' = sent \cup {[to |-> to, headers |-> Sent]}
        /\ UNCHANGED <<at, headers, installed, why, cause>>
     \/ /\ ~ redirectFollowed(Sent)
        /\ Down(Unreachable, causeOf("redirect"))
        /\ UNCHANGED sent
  /\ UNCHANGED <<applier, provider>>

\* No answer.  What the remote transport says becomes a text, cause and all.
Fail(error) ==
  /\ at = "asked"
  /\ IF provider.wire = "oa-remote@1"
     THEN Down(<<"remote", provider.target, error>>, causeOf("text"))
     ELSE Down(Unreachable, causeOf(error))
  /\ UNCHANGED <<applier, provider, sent>>

Named(list) == SelectSeq(list, LAMBDA id : id # "")

Answer ==
  /\ at = "asked"
  /\ \/ \E list \in Ids : Listed(Named(list))
     \/ /\ provider.wire # "oa-remote@1"
        /\ \/ \E status \in {400, 401, 403, 404, 422, 500, 502, 503, 504} :
                Down(<<"listing", provider.target, status>>, statusCause(status))
           \/ Down(<<"listing", provider.target, "unreadable">>, "malformed")
  /\ UNCHANGED <<applier, provider, sent>>

Next ==
  \/ UseCredentials
  \/ \E p \in Providers : Begin(p)
  \/ Apply \/ ListKnown \/ Request
  \/ Redirected
  \/ \E error \in {"network", "deadline", "cancelled"} : Fail(error)
  \/ Answer

-----------------------------------------------------------------------------

Causes == {"configuration", "credential", "rights", "malformed",
           "transport_unavailable", "unknown"}

TypeOK ==
  /\ applier \in {None, "applies"} \cup Outcomes
  /\ provider \in Providers \cup {None}
  /\ at \in {"idle", "applying", "listing", "asked", "done"}
  /\ headers \subseteq {"credential"}
  /\ at = "done" => headers = {}
  /\ cause \in Causes \cup {""}

\* A credential leaves in one request only, for the host it was applied to:
\* no redirect takes it elsewhere, or there a second time, and a remote
\* runtime is sent none (hosted.go hostedRequestClient).
CredentialStaysHome ==
  LET carrying == {r \in sent : "credential" \in r.headers}
  IN /\ \A r \in carrying : r.to = provider.target /\ NeedsCredential
     /\ carrying # {} => \A q, r \in sent : q = r

\* A server is listed down with a reason and a cause, and the cause tells who
\* can mend it: nothing was sent exactly if the reason is this runtime's own, a
\* provider that was asked is never blamed on this runtime's configuration or
\* on a credential it could not apply, and one without an address is blamed on
\* neither but on a cause unknown (ROUTE-S3, hosted.go listIDs, availability.go).
DownSaysWhy ==
  at = "done" =>
    /\ why = <<>> <=> cause = ""
    /\ why # <<>> =>
         /\ cause \in Causes /\ installed = <<>>
         /\ why[1] = "credential" <=> cause = "credential" /\ sent = {}
         /\ why[1] = "unsupported_wire" <=> cause = "configuration"
         /\ why[1] = "address" => cause = "unknown" /\ ~ Addressed
         /\ why[1] \in {"credential", "unsupported_wire", "address"} <=> sent = {}
=============================================================================
