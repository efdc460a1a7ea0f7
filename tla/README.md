# A verification of abstraction-router

TLA+ models of the Go router (`src/go`), the configurations that model-check
them with TLC, and theorems about them that TLAPS checks. The router answers
which model server on this machine, or authorised elsewhere, serves a model
name. It performs no call and loads no model: what can be wrong in it is an
answer, so most of what follows relates an answer to the state it was given
from.

To check a run: `tlc -config <run>.cfg <module>` with the modules named in
[the runs](#the-runs). To check the proofs of a module: `tlapm <module>.tla`.

## The system

| component | state | operations | modelled in |
| --- | --- | --- | --- |
| Surveys and snapshot, `router.go` | `hosts`, `held`, `snap` | `SetHosts`, `SetHeld`, `SurveyContext`, `Poll`, `latest` | `Inventory`, `Router` |
| Routing decision, `router.go` | none of its own: a snapshot and up to three copies of `hosts` | `Route`, `RouteContext`, `routeSnapshot` | `Decision`, `Router`; what it promises: `Picks` |
| Routing audit, `router.go`, `service.go` | `asked`, fifty entries | `record`, the route arm of `Answer` | `Router`, `RouterAudit` |
| Storage inventory, `held.go` | the maps of `provenance` | `index`, `declare`, `declareName`, `foldComponent`, `compose` | `Catalogue` |
| Offers, `offer.go` | one fold per family | the offer arm of `Answer`, `OfferContext` | `Offer` |
| Framed service, `service/service.go` | policy, `serving`, the host's context, workers | `EnablePolicy`, `Serve`, `Close`, one worker per connection | `ServiceHost` |
| Remote runtimes, `remote.go` | `remoteLink`: contexts and profiles of the last listing | `listing`, `modelProfiles`, `modelContexts`, `remoteHosts`, `remoteOffer` | `Remote`, `ModelContext`, `Offer` (its offers) |
| Host adapters, `hosts.go`, `profiles.go` | none between reads | list, resident, profiles and contexts of one server | `Lemonade`, `Adapters`, `Inventory` (as observations) |
| Hosted servers, `hosted.go`, `availability.go` | the applier | `UseCredentials`, a listing under a credential, its failure's cause | `Hosted` |
| Declared hosts, `declared.go`, `native.go` | none | one probe per product, `DeclaredEntry`, `ScopeModels` | `Declared` |
| Residency and questions, `residency.go`, `service.go`, `window.go` | the holders' source | `SetResidency`, `Answer` and the line and window before it | `Answers` |
| Unload, `unload.go` | none | one unload call per loaded instance | `Unload` |
| Wire contract, `abstraction/router/rec.go`, `client/`, `service/` | one call's texts | write, read, dispatch, convert, hear | `Dates`, `Stamps`, `Codec`, `Messages`, `Exchange`, `Call` |
| Commands, build tools | none kept | parse flags, print | not modelled |

How they meet. A caller's connection is admitted by the framed service, which
binds and rechecks it, asks its policy and calls `Router.Answer`. A route
request runs `Route`, which reads the published snapshot, surveying first when
it is asked to be fresh, and then the configured hosts, and is recorded in the
audit. An offer reads the same snapshot and hosts and asks the remote runtimes
for their own. A survey copies the hosts, reads them in parallel, copies the
storage inventory, indexes it and composes the families, and replaces the
snapshot. `Poll` does the same on a clock, and products replace hosts and
inventory at any time with `SetHosts` and `SetHeld`. All of it shares one
`Router`, whose fields have a lock each; no lock spans two of them.

Around that core, a survey's goroutine reads its server through an adapter of
several fetches, a hosted listing with a credential applied for it alone, or
another runtime's router; the hosts themselves come from what each product's own
record on the machine declares. A client's call is written by the generated
codec, dispatched by its method, converted to a provider request, and its result
read back before it is sent. Lines and the window ask the same `Answer` without
the framed service.

What is hard there, and what makes each part correct:

- **Surveys.** Several run at once and publish in any order, each from its own
  copy of the hosts; a read may fail halfway. The published snapshot must prefer
  a build a server already holds, list only servers that were up, and follow the
  configuration once it stays.
- **Decisions.** One decision copies the hosts up to three times while `SetHosts`
  replaces them, and joins them by name to a snapshot of other hosts. Its answer
  must still be what ROUTE-E1 asks for, name a model that server serves for that
  profile, and respect an allowance, the empty one included.
- **Audit.** Deciding and recording are separate steps of concurrent callers.
  None may be lost, or displaced before fifty newer ones.
- **Storage inventory.** Names, shortened names, digests and components reach
  families in the order objects happen to come. What they mean must not depend on
  that order, and a name two stores describe differently must mean nothing.
- **Offers.** Aliases and remote offers are folded one by one. A remote must be
  counted once, by its offer or its listing; the context must be the smallest
  bound under its own source, and unknown as soon as one alias has no window.
- **Readers.** Every fetch may fail, the server may change between two, workers
  finish in any order, two surveys share a remote's link. What is read must have
  been so, what was not read must be unknown, a credential must reach its provider
  only, and a server that is down must say why.
- **Calls.** A reply may be lost, late or another's; a request may come from any
  writer. A caller must hear what its own call came to, or that it failed, and the
  handler must be given only what could have been written.
- **Residency answers.** They join a snapshot, a source's rows and the audit, read
  at different moments.
- **Framed service.** A policy may be set, the host served, closed or its context
  ended, in any order and by any goroutine. No call may escape the policy, a
  refusal must say why, and a stopped host must stop.

`PROJECT.json` lists each hazard at the line where it bites, with the properties
aimed at it, and every component left out with the reason.

## The modules

`Inventory` — pure operators. `ReadOf` is what one host's goroutine in
`SurveyContext` makes of what a server answers: its listing, its residency route
and its metadata each may fail. `Fold` is the loop after them: an alias per
server and name, `PickOf` the host's own choice of name per family, and an alias
without a server for a held model nothing serves.

`Decision` — pure operators, `routeSnapshot` and the functions it calls. The
three walks of `candidates` (holding, loading, hosted) become `Tier` and
`Before`; each operator takes the list of hosts as a parameter, because the code
reads `r.Hosts()` anew at each place.

`Router` — the shared state and every goroutine on it. `hosts`, `held`, `snap`
and `asked` are the fields; `pc`, `survey`, `view`, `req`, `decision` what a
goroutine has in its local variables; `lists` the copies of the hosts one decision
took. `AskFresh`, `ReadHost`, `Compose`, `Publish`, `ReadLatest` are a fresh
request's way to a snapshot, `AskCached` any other's; `RefuseName`,
`CheckProfile` (`anyServes`), `Rank` (`candidates` and `pickServing`), `Explain`
(the wording loop) are `routeSnapshot` cut where it reads `r.Hosts()`; `Record`
and `Return` are the route arm of `Answer`. `Cancel` is a `RouteContext` whose
context ends. `PollTick` and `PollStop` are `Poll`. `SetHosts` and `SetHeld` may
come at every step.

`RouterProperties` states what `Router` promises. `MeetsContract` is ROUTE-E1
with ROUTE-D2, D4 and D9 over sets of hosts, without the code's walk.
`Picks` is the abstract specification: a router of one step per decision. A snapshot
is published whole, a request is decided in one step (`Decide`) from one snapshot and
the configuration that stands at that step, and recorded once before it is returned.
`PicksKept` says that `Router` implements it: `reading` and `composed` are "asked",
`latest` is "surveyed", the three labels of `routeSnapshot` are "looked" (a look that
decides nothing yet is `Glance`), and a read, a fold before it is published, `SetHeld`
and `Poll`'s clock are stutters. The contract is a parameter of `Picks`; what a refusal that a
`SetHosts` overlaps may say instead (finding 3) is its `Conceded`, which `PicksKept`
needs: without it the run fails.
`RouterAudit` and `RouterFresh` add history variables no guard reads: how many
records followed a caller's own, and which surveys began before which.

`Catalogue` — `index` one name per step, its two loops and all its maps, and
`compose` over one server listing. `CatalogueProperties` states what the maps
mean over the set of names read so far. `CatalogueTyped` proves that what a survey
takes from it, `HeldOf`, is a value of `Inventory!Held`: that theorem is where the
two halves of a survey join.

`Offer` — one offer from request to answer: `Refuse` and `Start` are `Answer`'s
checks and the first lines of `OfferContext`, `AskRemote`, `FoldOffer` and
`FoldAlias` its two loops, one element per step in any order, `Conclude` the last
loop.

`ServiceHost` — `service.Host`. The lifecycle lock makes `EnablePolicy` and the
head of `Serve` atomic; `CloseContext` and `CloseListener` are the two halves of
`Close`'s once, run by whoever came first; `TellStopped` and `ServeReturns` are
`Serve`'s defers; `Receive`, `Recheck`, `Authorize`, `Ruled`, `Answer` and `Reply`
a worker's call, with `Overdue` its ten seconds.

`Codec` — the reader and the parts of the writer every message shares. A JSON text
is a tree, and a record's reader is given by its schema: its fields in any order,
each once, none missing, refusals in the order they are met, and what a member it
does not know comes to. `Refuse` is a record whose reader refuses one (the requests,
arguments, allowances, envelopes and the wrapper of a result); `Grant` one that
`router.thrift` marks `unknown_fields="grant"`, whose reader walks the member and
drops it (everything a result carries). Time stamps are dates (`Dates`), which a
reader checks and keeps as they were spelt and a writer normalises; `Stamps` is one
on its way through any number of writers, to the minute. `Messages` gives every
struct of `router.thrift` twice, as its writer (`enc...`, what is left out) and as
its reader (what may be left out), as the generated code does.

`Exchange` — one call: `Ask` (the client writes it and could read it back),
`Receive` with `Describe`, `Refuse` and `Invoke` (the dispatcher's switch),
`Serve` (the handler, its conversions, the result written and read back),
`Hear` and `HeardIn` (the client). The transport is external: `GiveUp`,
`Misdeliver`, `StrangerSends`. `Call` is the abstract specification it implements:
served at most once, and heard as what the serving came to or as a failure.

`Remote` — surveys of one remote runtime with the link they share, each of a
survey's reads its own step, while the remote changes. `Hosted` — one hosted
listing from credential to cause. `Lemonade` — names, health, and the options
fetched by workers. `Adapters` — the other local servers, which may change once
during a read. `Unload` — a whole unload. `Declared` — the probes, and the models
of a declaration. `Answers` — a question on a line or in the window, from its
first byte to its reply, beside surveys, `SetResidency` and other deciders.
`ModelContext` has the context arithmetic they share, and `Walk` the loop over what a
server listed.

`Hosts` composes these seven. They share nothing but the survey that starts them
and the snapshot it leaves, so `part` lets one run in a behaviour: their
interleavings would multiply states and show nothing.

`MC*` modules hold the instances; `*Proofs` modules the theorems. A definition
marked *Mutant* is a plausible bug in the definition beneath it; no specification
uses one, and the property it is there for fails once it is put in place.

## The runs

| run | module | distinct states | shows |
| --- | --- | --- | --- |
| `router_race` | `MCRouterAudit` | 625,702 | two callers, `SetHosts` at every step: answers stay right, the audit loses nothing |
| `router_decide` | `MCRouter` | 116,850 | one caller over many inventories and requests: which server and build is named |
| `router_live` | `MCRouter` | 60,336 | a caller and `Poll` under every `SetHosts`: each decision is one step of `Picks`; every caller is answered; a configuration that stays reaches the snapshot |
| `catalogue` | `MCCatalogue` | 14,864 | every inventory of up to three objects: what names, stores and components come to |
| `offer` | `MCOffer` | 141,210 | every snapshot of up to three aliases, every remote answer, every order |
| `service_host` | `MCServiceHost` | 214,488 | policy, closing, deadlines and two servers: who is asked, what is told, that it stops |
| `exchange` | `MCExchange` | 13,026 | every kind of call, answer and strange text: what is written is read back, and heard by its own caller |
| `hosts` | `MCHosts` | 198,189 | each reader against a server that changes or fails, unloads, declarations, residency answers |
| `fresh_race` | `MCRouterFresh` | | finding 2 |
| `mixed_config` | `MCRouter` | | finding 3 |
| `allowance_order` | `MCRouter` | | finding 1 |
| `tail_match` | `MCCatalogue` | | finding 4 |

### Bounds

- `router_race`: configurations `<<a, h>>` and `<<b>>` (two local servers, one
  hosted) that share no host, so each copy of the hosts a decision mixes shows;
  two callers, since the audit is the only thing callers share besides a snapshot
  any survey may replace; one audited request with an allowance and one fresh,
  cancellable request. `MaxAsked`, fifty in the code, is 2: the cut happens when a
  third decision is recorded. Callers are symmetric.
- `router_decide`: three configurations, of which one gives a hosted server the
  name of a local one and one has nothing routable; two storage inventories; up to
  four observations a server (down, residency route failing, builds in either
  order, profiles of its own); seventeen requests over names that parse and that
  do not, two profiles, and absent, empty and two-server allowances. One caller:
  these properties are about one decision's data.
- `router_live`: one caller and one poller, so that a survey the caller did not ask
  for publishes under its decision; the two configurations and the requests of
  `router_race` and an audited fresh one, so that some can give up and some cannot; one
  server that is down in some surveys; an audit of one entry.
- `catalogue`: ten kinds of object chosen so that any two can collide, on a name, a
  shortened name, a digest or a base; three of them are enough for "contested, then
  repeated", the longest pattern a map cell goes through.
- `offer`: an alias of each kind of bound on each kind of server, one that is not
  servable, a tie between a remote's bound and a local one, a remote whose name a
  later configuration gives to a local server; remotes answer any two of five
  offers, fail, or do not know the method.
- `service_host`: two goroutines calling `Serve`, so one is refused or closes under
  the other; one call of each right and each way of being refused.

- `exchange`: one call at a time, since a call's frames share nothing with
  another's; integers of the codec stop at 3 and 9 in place of 2^31-1 and 2^63-1, so
  that both widths have a value on and past their edge; nesting stops at 8, two more
  than the deepest message; texts that are not UTF-8 are one value. Calls, answers,
  frames and replies are chosen so that each reader refuses each of its fields in
  each of its ways once. `RoundTrip` also reads the written results as a later
  version may send them, with members of granting records that are new, repeated or
  broken, and calls that have grown likewise, which are refused. Time stamps take
  every pair of the edges of years, months, days, minutes and offsets.
- `hosts`: two surveys of a remote that changes twice, over listings that report a
  name twice, drop it and change it; every kind of wire with and without a
  credential, and with a base that is no URL; Lemonade listings of two or three
  models that may share a checkpoint or use another's id, with two workers (four in
  the code) for up to three options; each other server in two states; unloads of
  none, two and three instances; every record of two products at a time, since
  probes read none but their own, an LM Studio interface that is a name and none
  among them; declarations of up to three entries; two recorded decisions in the
  audit, three decisions and two surveys beside one question.

Two assumptions are on the configurations: hosts of one list have distinct names
(`byName` and the snapshot's maps are keyed by name, and the code rejects nothing)
and a read always ends (every one has a deadline). Integers are the specification's:
contexts and reserves are `int64` and nothing multiplies or sums them; `input` is a
difference of non-negative ones.

### Deadlock and fairness

`catalogue`, `offer`, `service_host`, `exchange` and `hosts` end by design (a fold, a
stopped host, one call, one read), so their configurations do not report a final
state. The router never ends and is checked for deadlock.

`Router!Fairness`: a goroutine in the middle of a survey or a decision goes on, and
`Poll`'s ticker fires. `ServiceHost!Fairness`: goroutines go on, `Accept` returns
an error once the listener is closed, and a worker's calls end by their deadline.
Nothing forces a caller to call, hosts to change, a context to end, `Close` or
`Poll`'s stop. `Exchange` states none: nothing obliges a transport to deliver, and
what `Call` promises is safety. `SnapshotFollowsHosts` is therefore conditional on a poller that is
not stopped and a configuration that stays, and `ServeEnds` on a host that is closed
or whose context ends.

## What is proved

TLAPS proves, for every value of the constants under the named assumptions:

- **`RouterProofs`**: `TypeOK`, `AnswerMeetsContract`, `UndisturbedMeetsContract`,
  `NamedModelIsServed`, `SnapshotPicksHeldBuild`. None is inductive: a decision is
  right because of what its earlier steps saw. `IInv` adds that a survey in hand
  reads one configuration's hosts honestly (a host that is down has nothing),
  that a composed fold already prefers held builds, and, per caller and label, that
  the request and snapshot it decides from stay in hand and that the copies of the
  hosts taken so far had no candidate when it comes to `Explain`. The lemmas before
  it are about one read and one ranking: what `Tier` says of `Able` and `Holders`,
  and that the first permitted position is the contract's host. One part proves
  `AuditKeepsAnswered` of `RouterAudit`, from the invariant that a caller's own
  record is at position `newer + 1`. The last proves `ImplementsPicks`: every
  behaviour of `Router` is one of `Picks` under the mapping above. For it the
  invariant says where each read in hand comes from (an observation of that host
  of that list), so that a fold to be published is one configuration's with one
  inventory (`Surveyed`), and `RankDecides` that what `Rank` answers is right of the
  very list it took, which is the one that stands.
- **`CatalogueProofs`**: types, `ContestedNamesNothing`, `HeldInNamesOneObject`,
  `HeldModelsReported`, `ComponentsFold`. Each map is characterised by the set of
  names read so far (`DeclaredInv`, `OwnerInv`, `DigestInv`, ...), so the proof of
  a step only says which pair the step adds.
- **`OfferProofs`**: `TypeOK`, `CountsEachOnce`, `ConservativeContext`. `Folded`
  says what a fold is of two sets, the aliases and the remote offers folded so far;
  a step adds one member to one set, so no order matters, and at the end the sets
  are the contract's.
- **`ServiceProofs`**: `TypeOK`, `PolicyDecides`, `StopsInOrder`,
  `RefusalsToldApart`. `HostInv` says the policy was settled before the first
  admission and a `Serve` past its loop has closed the host; `CallInv` what each
  call can have been told at each label.
- **`ExchangeProofs`**: `TypeOK`, `AllowanceArrives`, `FailsForACause`, and
  `Implements`: every behaviour of `Exchange` is one of `Call` with `asked <- call` and `served <-
  outcome`, a stranger's frame mapping to a stutter. The codec is a parameter there,
  assumed to read a call and a reply as what was written when it reads it at all
  (`CallsAssumption`, `RepliesAssumption`), which `exchange` checks of `Messages`. The
  invariant ties the text in hand to the call, and the reply to the outcome.
  `FailsForACause` rests on what a call can come to (`CameTold`): a value the
  client's checks let through, or an error with a code, whatever the receiver and the
  provider answer. So a reply that is missing, or that its caller takes for a failure,
  is of an error that cannot be read (`OwnReplyTold`), and `OwnServed` keeps that from
  the serving to the hearing. It assumes besides that a reply that carries a result,
  or a readable error, can be read itself, that the receiver's refusals have codes
  and that the methods are the service's four.
  It also proves `StampKeepsInstant` of `Stamps`, which is about minutes, for every integer a year, month,
  day, minute or offset may be: `MonthsFollow` and `InYears` tie the code's days of a
  month and its years of four digits to a count of days from a fixed one, `Carried`
  goes through the day that stays, falls back into the last month or over into the
  next, and `StampInv` says a stamp written once is well written of what was told.
  The count (`DayOf`) knows no month's length and no leap year but by its divisions,
  so nothing of `timestampDays` is in the property.
- **`Walk`**: a loop over a sequence, as the readers make one over what a server
  lists, is a function on `0..Len(s)` whose body is the parameter `Step`. `Turns`
  proves that this function exists and makes the next value of the last, whatever
  the body; `Throughout`, from the well-foundedness of `<` on the naturals, that
  what holds before the loop and is kept by each turn holds throughout. Both are
  first-order, `Kept` being the set of turns a fact holds after, so that every loop
  is proved by naming that set.
- **`ReadersProofs`** and **`HostsProofs`**: every property of `Hosts`, `TypeOK`
  included. `IInv` has one part per reader, and a step of one reader leaves the
  others' parts alone (`Others`).
  - *Remote* (`OneListingRead`): what a survey read, it read of `link.of`, and the
    link's maps are the loops over that one listing. `Tighten`'s loop keeps that a
    name's context is an observation of an alias seen so far and that no bound seen
    so far is smaller; `Gather`'s that its profiles are the union so far.
  - *Lemonade* (`LemonadeReadTrue`): by label, what the two listings and the health
    in hand are, that a job or an answer is of a listed model that is not loaded,
    and that every note so far is a truth of the server. The assumption is that one
    id and one checkpoint name one model each.
  - *Adapters* (`AdaptersReadTrue`): every server in `seen` is of one kind, and what
    was read is tied to the member of `seen` it was read from.
  - *Hosted*: what has been sent by each label of a listing, and what stopped it
    where nothing has. *Unload*: which
    instances are asked and still queued.
  - *Declared* (`DeclaredFromItsRecord`, `ScopedAsDeclared`): what one probe makes of
    each shape of its record, and that the loop over the four probes keeps hosts in
    the products' order; what one declaration's entries say of a model.
  - *Answers*: that a survey in hand and the snapshot each hold one source's rows,
    and that the audit is the newest decisions in a row.

The assumptions are the `ASSUME`s of the modules, all evaluated by the runs: the
types of the constants, and distinct host names within a configuration.

Only model-checked: the liveness properties, which need fairness and `ENABLED`;
what the violated properties show; and `RoundTrip` and `OnlyWritableServed`, about a
codec that recurses over texts: `Codec` and `Messages` declare recursive operators, of
which the provers see nothing.

## Findings

1. **The allowance's order is not read** (`allowance_order`, `router.go:502`).
   README.md and ROUTE-D2 say the caller's order is its preference and is kept;
   `candidates` walks the router's own order of hosts and `permits` tests membership.
2. **A fresh request may be answered from an older survey** (`fresh_race`,
   `router.go:298`). A survey publishes over whatever stands; a slower one, begun
   earlier, can publish between a fresh request's survey and its read-back.
3. **One decision can mix two configurations** (`mixed_config`, `router.go:458`).
   With a `SetHosts` between two of its copies of the hosts a refusal answers a word
   that is right for neither. Answers that name a server do not mix
   (`AnswersMeetContract`).
4. **Names are matched by their tails** (`tail_match`, `held.go:126`), which ROUTE-N2
   forbids.

Met on the way and not findings of a run:

- `declaredByDigest` (`held.go:207`) is written and never read: an unnamed object is
  joined by the names of its digest (`held.go:230`), not by the descriptor its
  comment at `held.go:79` speaks of.
- When two surveys of a remote overlap, a name in a survey's own listing and not in
  the one stored after it is judged by every declared profile (`remote.go:113`).
- A provider whose base is no URL is listed down with the parse error's own text and
  the cause `unknown`, although nothing was sent (`hosted.go:155`, `186`): nothing
  checks a base before the listing, and `availability.go` knows the error for no
  configuration's.
- A checkpoint that a loaded Lemonade model shares with one that is not may be given
  the other's planned context (`hosts.go:402`).
- A remote whose listing fails is down for the cause `unknown`: its error is made a
  text at `remote.go:76`. An LM Studio whose profile listing fails has its embedding
  models judged by the server's profiles.
- An entry of Lemonade's `all_models_loaded` with `loaded` false is not resident but
  counts as loaded for its context.
- A ComfyUI server with no model folders is up with nothing installed: its listing
  asks each folder it was told of, and there is none to fail.
- LM Studio may list a name twice; the profiles and the length kept are those of the
  last entry that has any (`hosts.go:509`).
- A remote alias with a negative maximum, listed first for its name, hides the limits
  of the name's later aliases (`remote.go:162`: a prior bound that is neither 0 nor
  larger stays). No length a router reports is negative, and nothing checks it here.
- Foundry's record of `[::1]` is reached at `127.0.0.1`.
- Before the first survey a residency answer has neither holders nor a reason for it,
  where `residency.go:19` says a zero is never invented; `AnswersWhole` is about
  answers from a survey.

The models use the names the code carries today (`not-here`, `unauthorised`,
`abstraction.router/route`, ...); CONTRACT.md's prose-to-wire table relates them to
the decided ones.

## Not modelled

- Letter case. Names are compared exactly; `aliasFamily` folds case where
  `byFamily` does not, which the hazards list.
- Seconds and fractions of a time stamp. The writer refuses seconds past 59 and cuts
  a fraction of up to nine digits to six (`rec.go:2232`, `2296`), so a stamp given to
  the nanosecond is not kept to it.
- A reply of the same method that belongs to another call. A reply names no call, and
  `rec.go` leaves correlation to the transport (`StrangeAssumption`).
- Ages and time stamps inside the router, context lengths inside `Router`'s snapshot
  (they are in `Offer` and the readers), roles of components, wording.
- An offer's own context, which `Answer` never ends.
- The bytes of JSON, URLs, files and flags: `Codec` reads trees, the readers model
  values. Malformed Lemonade listings that give one id two different entries.
- Transports: the framing below `Exchange` and its retries (it has none), the
  deadline and size limits of the line listener, `WriteFrame`'s mode check and the
  schema text `DescribeService` returns (`Describe` answers with a constant).
- The Rust, Python, C++ and JavaScript codecs, which are generated from the schema
  the Go one is; commands, process wiring and build tools, which keep no state.

## Plan

Done: the router with its decisions and audit, the storage inventory, the framed
service, the offers, the readers of every kind of server, the residency answer, the
wire contract of a call.

Next, in order of what it would show:

1. Letter case as a second name space in `Inventory` (`router.go:230`).
2. The provider's duration in `ServiceHost`, so that a call past its deadline can be
   told from one in time (`service/service.go:199`).
3. Proofs: `Before` as a strict order whose walk is the code's three.
