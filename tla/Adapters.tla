------------------------------ MODULE Adapters ------------------------------
(***************************************************************************)
(* One survey's read of a local server other than Lemonade.  Each adapter  *)
(* asks its server's own API several times: for what is installed, what is *)
(* resident, and what the models can do.  A fetch may fail, and the server *)
(* may load, unload or replace a model between two of them.  The order of   *)
(* names is left out.                                                      *)
(***************************************************************************)
EXTENDS Integers, Sequences, FiniteSets, SequencesExt

CONSTANTS
  Servers,    \* what a server may hold
  Kinds,      \* lmStudioProfiles: a model's type -> the profiles it serves
  Abilities,  \* ollamaProfiles: a capability -> a profile
  Threshold,  \* instrument.Threshold, the bytes that count as a hold
  None        \* of no answer: a fetch that failed

\* A server is [kind, models, devices]; a model [name, type, loaded, max, able],
\* where able is what it says it is capable of, or None; a model of a graph
\* runtime has its folder for a type.  A device is [total, free].

VARIABLES
  server,     \* what the server holds now
  seen,       \* what it held since the read began
  at,         \* where the read stands
  installed, resident, profiles, contexts,   \* what the survey made of it
  left        \* folders or names still to be asked for

vars == <<server, seen, at, installed, resident, profiles, contexts, left>>

Nowhere == [kind |-> "none", models |-> <<>>, devices |-> <<>>]

Init ==
  /\ server = Nowhere /\ seen = {}
  /\ at = "idle"
  /\ installed = {} /\ resident = {} /\ profiles = <<>> /\ contexts = <<>>
  /\ left = {}

Begin ==
  /\ at = "idle"
  /\ server' \in Servers
  /\ seen' = {server'}
  /\ at' = "installed"
  /\ UNCHANGED <<installed, resident, profiles, contexts, left>>

Change ==
  /\ at \notin {"idle", "up", "down"} /\ Cardinality(seen) = 1
  /\ server' \in {s \in Servers \ seen : s.kind = server.kind}
  /\ seen' = seen \cup {server'}
  /\ UNCHANGED <<at, installed, resident, profiles, contexts, left>>

-----------------------------------------------------------------------------
(* What each API lists *)

NamesIn(ms, Chosen(_)) == {m.name : m \in {k \in ToSet(ms) : Chosen(k)}}

\* LM Studio lists models of types no profile is known for.
Inventory(s) ==
  NamesIn(s.models, LAMBDA m : s.kind = "lmstudio" => m.type \in DOMAIN Kinds)

Running(s) == NamesIn(s.models, LAMBDA m : m.loaded)

\* A server of one model that answers to a name of its own, always loaded.
Itself(s) == {s.kind}

Fixed == {"whispercpp", "piper", "swarmui"}

\* ComfyUI tells what its devices hold, not what for.
Used(d) == IF d.total > d.free THEN d.total - d.free ELSE 0
Hold(s) == FoldLeft(LAMBDA sum, d : sum + Used(d), 0, s.devices)

comfyResident(s) == IF Hold(s) < Threshold THEN {} ELSE {<<"loaded", Hold(s)>>}

ResidentOn(s) ==
  CASE s.kind \in Fixed    -> Itself(s)
    [] s.kind = "openai"   -> {}
    [] s.kind = "comfyui"  -> comfyResident(s)
    [] OTHER -> Running(s)

Named(s, name) == {m \in ToSet(s.models) : m.name = name}

\* Of the entries of a name that count, the last one listed is kept.
LastListed(ms, name, Counts(_)) ==
  ms[Max({i \in DOMAIN ms : ms[i].name = name /\ Counts(ms[i])})]

-----------------------------------------------------------------------------
(* The read *)

ReadInstalled ==
  /\ at = "installed"
  /\ \/ /\ server.kind \in Fixed
        /\ installed' = Itself(server) /\ at' = "resident" /\ UNCHANGED left
     \/ /\ server.kind = "comfyui"
        /\ left' = {m.type : m \in ToSet(server.models)}
        /\ at' = IF left' = {} THEN "resident" ELSE "folders"
        /\ UNCHANGED installed
     \/ /\ server.kind \notin Fixed \cup {"comfyui"}
        /\ installed' = Inventory(server) /\ at' = "resident" /\ UNCHANGED left
     \/ server.kind \notin Fixed /\ at' = "down" /\ UNCHANGED <<installed, left>>
  /\ UNCHANGED <<server, seen, resident, profiles, contexts>>

\* One goroutine per folder, in any order; one that fails lists nothing.
ReadFolder ==
  /\ at = "folders"
  /\ \E f \in left :
       /\ left' = left \ {f}
       /\ \/ installed' = installed \cup
               NamesIn(server.models, LAMBDA m : m.type = f)
          \/ UNCHANGED installed
  /\ at' = IF left' = {} THEN "resident" ELSE "folders"
  /\ UNCHANGED <<server, seen, resident, profiles, contexts>>

ReadResident ==
  /\ at = "resident"
  /\ \/ /\ resident' = ResidentOn(server)
        /\ at' = CASE server.kind = "lmstudio" -> "profiles"
                   [] server.kind = "ollama"   -> "metadata"
                   [] OTHER -> "up"
        /\ left' = IF server.kind = "ollama"
                   THEN installed \cup ResidentOn(server) ELSE {}
     \/ /\ server.kind \notin Fixed \cup {"openai"}
        /\ at' = "up" /\ UNCHANGED <<resident, left>>
  /\ UNCHANGED <<server, seen, installed, profiles, contexts>>

Wanted == installed \cup resident

\* LM Studio's own listing, asked once for the profiles and once again for
\* the contexts.
ReadProfiles ==
  /\ at = "profiles"
  /\ \/ LET Known(m) == m.type \in DOMAIN Kinds
        IN profiles' = [n \in Wanted \cap NamesIn(server.models, Known) |->
                          Kinds[LastListed(server.models, n, Known).type]]
     \/ UNCHANGED profiles
  /\ at' = "contexts"
  /\ UNCHANGED <<server, seen, installed, resident, contexts, left>>

ReadContexts ==
  /\ at = "contexts"
  /\ \/ LET Known(m) == m.max > 0
        IN contexts' = [n \in Wanted \cap NamesIn(server.models, Known) |->
                          LastListed(server.models, n, Known).max]
     \/ UNCHANGED contexts
  /\ at' = "up"
  /\ UNCHANGED <<server, seen, installed, resident, profiles, left>>

With(f, n, v) == [x \in DOMAIN f \cup {n} |-> IF x = n THEN v ELSE f[x]]

ollamaProfiles(able) == {Abilities[c] : c \in able \cap DOMAIN Abilities}

\* Mutant: a model that does not say what it is capable of is capable of nothing.
toldMute(m) == TRUE

told(m) == m.able # None

\* Ollama is asked to show each name, which tells both at once.
Show ==
  /\ at = "metadata"
  /\ \/ \E n \in left :
          /\ left' = left \ {n}
          /\ \/ \E m \in Named(server, n) :
                  /\ told(m)
                  /\ profiles' = With(profiles, n,
                       IF m.able = None THEN {} ELSE ollamaProfiles(m.able))
                  /\ contexts' = IF m.max > 0 THEN With(contexts, n, m.max) ELSE contexts
             \/ UNCHANGED <<profiles, contexts>>
          /\ UNCHANGED at
     \/ left = {} /\ at' = "up" /\ UNCHANGED <<left, profiles, contexts>>
  /\ UNCHANGED <<server, seen, installed, resident>>

Next == \/ Begin \/ Change \/ ReadInstalled \/ ReadFolder \/ ReadResident
        \/ ReadProfiles \/ ReadContexts \/ Show

-----------------------------------------------------------------------------

TypeOK ==
  /\ at \in {"idle", "installed", "folders", "resident", "profiles", "contexts",
             "metadata", "up", "down"}
  /\ server \in Servers \cup {Nowhere} /\ seen \subseteq Servers
  /\ at \in {"idle", "installed", "down"} => installed = {} /\ resident = {}
  /\ at \in {"up", "down"} => left = {}

\* What a model serves, by what it is: unknown when the server does not say.
Serves(s, m) ==
  IF s.kind = "lmstudio"
  THEN IF m.type \in DOMAIN Kinds THEN Kinds[m.type] ELSE None
  ELSE IF m.able = None THEN None
       ELSE {p \in {Abilities[c] : c \in DOMAIN Abilities} :
               \E c \in m.able : c \in DOMAIN Abilities /\ Abilities[c] = p}

\* However the server changes between two fetches, and whichever fails, all
\* that is read of it was so at some moment of the read: what is installed and
\* what is resident is what it had at once, and a profile or a length is that
\* of a model of the name.  What was not read is unknown, never empty (hosts.go
\* LMStudio and ComfyUI, profiles.go ollamaModelMetadata).
AdaptersReadTrue ==
  /\ \A n \in DOMAIN profiles : \E s \in seen : \E m \in Named(s, n) :
       Serves(s, m) = profiles[n] /\ profiles[n] # None
  /\ \A n \in DOMAIN contexts : \E s \in seen : \E m \in Named(s, n) :
       m.max = contexts[n]
  /\ at \in {"resident", "profiles", "contexts", "metadata", "up"} =>
       IF server.kind = "comfyui"
       THEN \A n \in installed : \E s \in seen : Named(s, n) # {}
       ELSE \E s \in seen : installed = IF s.kind \in Fixed THEN {s.kind} ELSE Inventory(s)
  /\ resident # {} => \E s \in seen : resident = ResidentOn(s)
=============================================================================
