------------------------------ MODULE Declared ------------------------------
(***************************************************************************)
(* The servers whose own record on this machine says where they listen,    *)
(* and the models a declaration names per profile.                         *)
(*                                                                         *)
(* A record is given by what the probe tells apart in it: it is Absent,    *)
(* Unreadable or Malformed, or is the fields it is parsed into.  A host is *)
(* a word, of which Addresses are IP addresses, AnyAddress the unspecified *)
(* ones, and NoHost the words that name none; any other is a host's name.  *)
(* A port that is no number is 0.                                          *)
(***************************************************************************)
EXTENDS Integers, Sequences, FiniteSets, SequencesExt

CONSTANTS
  Environments,  \* [ollama, lmstudio, desktop, plugin, foundry]
  Declarations,  \* [entries, profiles] of a provider's declaration
  Addresses,     \* texts that are an IP address
  AnyAddress,    \* address families -> the unspecified address of each
  NoHost,        \* texts that are no host's name
  Absent, Unreadable, Malformed,
  None           \* a field not given

Loopback == "127.0.0.1"

VARIABLES
  environment,  \* what the probes were given
  hosts,        \* Declared's hosts, in preference order
  reasons,      \* the products whose record was not used, as logged
  declaration,  \* a declaration read
  scoped        \* and the profiles of each model, by declaredProfiles

vars == <<environment, hosts, reasons, declaration, scoped>>

Init ==
  /\ environment = None /\ hosts = <<>> /\ reasons = {}
  /\ declaration = None /\ scoped = <<>>

\* Neither depends on the other: a behaviour reads one environment or one
\* declaration.
Idle == environment = None /\ declaration = None

-----------------------------------------------------------------------------
(* Probes.  A probe declares an address, nothing, or nothing for a reason. *)

Base(scheme, host, port) == <<"base", [scheme |-> scheme, host |-> host, port |-> port]>>
Nothing == <<"nothing", None>>
Unused  == <<"reason", None>>

Port(n) == n \in 1..65535

\* An unspecified address is reached at the loopback of its family.
Connectable(host) ==
  CASE host = AnyAddress.four -> Loopback
    [] host = AnyAddress.six  -> "::1"
    [] host = None -> Loopback
    [] OTHER -> host

DefaultPort(scheme) ==
  CASE scheme = None -> 11434 [] scheme = "http" -> 80 [] scheme = "https" -> 443

ollamaHost(raw) ==
  IF \/ raw.scheme \notin {None, "http", "https"}
     \/ raw.host \in NoHost
     \/ ~ (raw.port = None \/ Port(raw.port))
  THEN Unused
  ELSE Base(IF raw.scheme = None THEN "http" ELSE raw.scheme, Connectable(raw.host),
            IF raw.port = None THEN DefaultPort(raw.scheme) ELSE raw.port)

ProbeOllama(record) == IF record = Absent THEN Nothing ELSE ollamaHost(record)

\* LM Studio's interface, where it is given as one address; a name is not.
Interface(host) ==
  IF host \in Addresses \ {AnyAddress.four, AnyAddress.six} THEN host ELSE Loopback

\* Mutant: a configuration that cannot be used makes way for the next one.
ProbeLMStudioAny(records) ==
  LET usable == {i \in DOMAIN records : records[i] \notin {Absent, Unreadable, Malformed}
                                        /\ Port(records[i].port)}
      r == records[CHOOSE i \in usable : \A j \in usable : i <= j]
  IN IF usable = {} THEN Nothing
     ELSE Base("http", Interface(r.host), r.port)

\* The first configuration there is decides, newest layout first.
ProbeLMStudio(records) ==
  LET present == {i \in DOMAIN records : records[i] # Absent}
      r == records[CHOOSE i \in present : \A j \in present : i <= j]
  IN CASE present = {} -> Nothing
       [] present # {} /\ r \in {Unreadable, Malformed} -> Unused
       [] present # {} /\ r \notin {Unreadable, Malformed} ->
            IF ~ Port(r.port) THEN Unused
            ELSE Base("http", Interface(r.host), r.port)

\* Docker Desktop's switches decide where it is installed, the plugin elsewhere.
ProbeDockerModelRunner(settings, plugin) ==
  CASE settings \in {Unreadable, Malformed} -> Unused
    [] settings = Absent -> IF plugin THEN Base("http", Loopback, 12434) ELSE Nothing
    [] OTHER -> IF settings.ai = FALSE \/ settings.tcp # TRUE THEN Nothing
                ELSE Base("http", Loopback, 12434)

\* Whichever loopback address the status names, the server is reached at one.
ProbeFoundryLocal(status) ==
  CASE status = Absent -> Nothing
    [] status = Malformed -> Unused
    [] OTHER -> IF Port(status.port) THEN Base(status.scheme, Loopback, status.port)
                ELSE Unused

Probes(e) ==
  << <<"lmstudio", ProbeLMStudio(e.lmstudio)>>, <<"ollama", ProbeOllama(e.ollama)>>,
     <<"docker-model-runner", ProbeDockerModelRunner(e.desktop, e.plugin)>>,
     <<"foundry-local", ProbeFoundryLocal(e.foundry)>> >>

\* Only an address a record gave becomes a host, in the order of the probes.
Declare(hs, probe) ==
  IF probe[2][1] = "base" THEN Append(hs, [product |-> probe[1], base |-> probe[2][2]])
  ELSE hs

Declaring == INSTANCE Walk WITH Step <- Declare

DeclareHosts(e) ==
  /\ environment' = e
  /\ hosts' = Declaring!Over(Probes(e), <<>>)
  /\ reasons' = {p[1] : p \in {q \in ToSet(Probes(e)) : q[2][1] = "reason"}}
  /\ UNCHANGED <<declaration, scoped>>

-----------------------------------------------------------------------------
(* Models per profile.  An entry is the words between its colons.          *)

\* Mutant: any prefix of an entry is taken for a profile.
DeclaredEntryAny(entry, profiles) ==
  IF Len(entry) > 1 THEN [model |-> Tail(entry), profile |-> Head(entry)]
  ELSE [model |-> entry, profile |-> None]

DeclaredEntry(entry, profiles) ==
  IF Len(entry) > 1 /\ Tail(entry) # <<"">> /\ Contains(profiles, Head(entry))
  THEN [model |-> Tail(entry), profile |-> Head(entry)]
  ELSE [model |-> entry, profile |-> None]

DeclaredModels(d) ==
  LET read(i) == DeclaredEntry(d.entries[i], d.profiles)
  IN [names |-> {read(i).model : i \in DOMAIN d.entries},
      byProfile |-> [p \in ToSet(d.profiles) |->
        {read(i).model : i \in {j \in DOMAIN d.entries : read(j).profile \in {p, None}}}]]

ServesModel(d, profile, model) ==
  Contains(d.profiles, profile) /\ model \in DeclaredModels(d).byProfile[profile]

declaredProfiles(d, names) ==
  [n \in names |-> {p \in ToSet(d.profiles) : n \in DeclaredModels(d).byProfile[p]}]

\* A native server's models are those of its declaration, which names at least
\* one and none by an empty name; what is resident is unreported, so its
\* profiles are read of what is installed.
NewNative(d) ==
  /\ d.entries # <<>> /\ ~ Contains(d.entries, <<"">>)
  /\ declaration' = d
  /\ scoped' = declaredProfiles(d, DeclaredModels(d).names)
  /\ UNCHANGED <<environment, hosts, reasons>>

Next == /\ Idle
        /\ \/ \E e \in Environments : DeclareHosts(e)
           \/ \E d \in Declarations : NewNative(d)

-----------------------------------------------------------------------------

Products == <<"lmstudio", "ollama", "docker-model-runner", "foundry-local">>

TypeOK ==
  /\ environment = None => hosts = <<>> /\ reasons = {}
  /\ declaration = None => scoped = <<>>
  /\ \A i \in DOMAIN hosts : hosts[i].product \in ToSet(Products)
  /\ reasons \subseteq ToSet(Products)

\* A server is declared in its turn, at an address that can be connected to
\* (LM Studio at an IP address, whatever its interface is called), and only by a record of its own that is sound: a product of a broken record
\* has its reason logged and is no host, though an older record of it may be
\* sound (declared.go Probe, Declared).
DeclaredFromItsRecord ==
  environment # None =>
    LET e      == environment
        named  == {hosts[i].product : i \in DOMAIN hosts}
        broken == {Unreadable, Malformed}
        there  == {i \in DOMAIN e.lmstudio : e.lmstudio[i] # Absent}
    IN /\ \A i, j \in DOMAIN hosts : i < j =>
            \E k, l \in DOMAIN Products : k < l /\ hosts[i].product = Products[k]
                                          /\ hosts[j].product = Products[l]
       /\ \A i \in DOMAIN hosts :
            /\ Port(hosts[i].base.port)
            /\ hosts[i].base.host \notin NoHost \cup {None, AnyAddress.four, AnyAddress.six}
            /\ hosts[i].product = "lmstudio" => hosts[i].base.host \in Addresses
       /\ named \cap reasons = {}
       /\ (\E i \in there : e.lmstudio[i] \in broken /\ \A j \in there : i <= j)
            => "lmstudio" \in reasons
       /\ e.desktop \in broken => "docker-model-runner" \in reasons
       /\ "docker-model-runner" \in named =>
            IF e.desktop = Absent THEN e.plugin ELSE e.desktop.tcp = TRUE
       /\ there = {} => "lmstudio" \notin named \cup reasons
       /\ e.ollama = Absent => "ollama" \notin named \cup reasons
       /\ e.foundry = Absent => "foundry-local" \notin named \cup reasons

\* A model serves exactly the profiles its declaration names it for, alone or
\* with all others, and a colon in a model's name names no profile: what is
\* listed of a native server is what it is asked to serve (ROUTE-D9, native.go).
ScopedAsDeclared ==
  declaration # None =>
    LET d == declaration
        Scoped(e) == Len(e) > 1 /\ Tail(e) # <<"">> /\ e[1] \in ToSet(d.profiles)
        Is(e, p, m) == IF Scoped(e) THEN e = <<p>> \o m ELSE e = m
    IN /\ \A m \in DOMAIN scoped : \A p \in ToSet(d.profiles) :
            /\ p \in scoped[m] <=> \E e \in ToSet(d.entries) : Is(e, p, m)
            /\ p \in scoped[m] <=> ServesModel(d, p, m)
       /\ \A e \in ToSet(d.entries) : \E m \in DOMAIN scoped : \E p \in ToSet(d.profiles) :
            Is(e, p, m)
=============================================================================
