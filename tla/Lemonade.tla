------------------------------ MODULE Lemonade ------------------------------
(***************************************************************************)
(* One survey's read of a Lemonade server: its listing for the names, its  *)
(* health for what is resident, then both again and the options of what is *)
(* not loaded for the contexts.  Every fetch may fail.  Options are        *)
(* fetched by a few workers at once and applied in the listing's order.    *)
(* The order of the names read is left out.                                *)
(***************************************************************************)
EXTENDS ModelContext, Sequences, FiniteSets, SequencesExt

CONSTANTS
  Listings,   \* what the server may list, sequences of models
  Healths,    \* what its health may report
  Workers,    \* lemonadeOptionsConcurrency, 4 in the code
  None        \* no checkpoint; no health to go by

\* A model is [id, checkpoint, cloud, downloaded, max, length, planned]: the
\* context a cloud model is listed with and the one its options resolve to.
\* A health is [all |-> name -> [loaded, size], main |-> a name or None].

VARIABLES
  listed,     \* what the server lists
  health,     \* and reports of its health
  at,         \* where the read stands
  installed, resident,   \* what the survey made of the first two fetches
  models, known,         \* what the contexts' own two fetches found
  jobs, busy, resolved,  \* options to fetch, being fetched, and fetched
  contexts    \* the contexts read

vars == <<listed, health, at, installed, resident, models, known, jobs, busy,
          resolved, contexts>>

Server == <<listed, health>>
Names  == <<installed, resident>>
Work   == <<models, known, jobs, busy, resolved, contexts>>

Init ==
  /\ listed = <<>> /\ health = [all |-> <<>>, main |-> None]
  /\ at = "idle"
  /\ installed = {} /\ resident = {}
  /\ models = <<>> /\ known = None
  /\ jobs = <<>> /\ busy = {} /\ resolved = <<>>
  /\ contexts = <<>>

\* A server in a state it keeps while it is read.
Begin ==
  /\ at = "idle"
  /\ listed' \in Listings /\ health' \in Healths
  /\ at' = "installed"
  /\ UNCHANGED <<Names, Work>>

-----------------------------------------------------------------------------
(* Names *)

NamesOf(m) == {m.id, m.checkpoint} \ {None}

ReadInstalled ==
  /\ at = "installed"
  /\ \/ /\ installed' = UNION {NamesOf(m) : m \in {k \in ToSet(listed) : k.downloaded}}
        /\ at' = "resident"
     \/ at' = "down" /\ UNCHANGED installed
  /\ UNCHANGED <<Server, resident, Work>>

\* Without residency nothing is read of the contexts either.
ReadResident ==
  /\ at = "resident"
  /\ \/ /\ resident' = {n \in DOMAIN health.all : health.all[n].loaded}
                        \cup ({health.main} \ {None})
        /\ at' = "models"
     \/ at' = "up" /\ UNCHANGED resident
  /\ UNCHANGED <<Server, installed, Work>>

Wanted == installed \cup resident

-----------------------------------------------------------------------------
(* Contexts *)

ReadModels ==
  /\ at = "models"
  /\ \/ models' = listed /\ at' = "health"
     \/ at' = "up" /\ UNCHANGED models
  /\ UNCHANGED <<Server, Names, known, jobs, busy, resolved, contexts>>

\* The size a loaded name has, by the health in hand, and whether it has one.
Loaded(h, name) == h # None /\ name \in DOMAIN h.all
SizeOf(h, name) == IF h.all[name].size > 0 THEN h.all[name].size ELSE 0

\* Mutant: a model is found loaded by its id alone.
LoadedAsId(h, m) == m.id

LoadedAs(h, m) == IF Loaded(h, m.id) THEN m.id ELSE m.checkpoint

With(f, names, v) == [n \in DOMAIN f \cup names |-> IF n \in names THEN v ELSE f[n]]

\* What listing and health say of one model.
fromListing(m, h) ==
  modelContext(m.max,
    IF m.cloud THEN validEffective(m.length, m.max)
    ELSE IF Loaded(h, LoadedAs(h, m)) THEN validEffective(SizeOf(h, LoadedAs(h, m)), m.max)
    ELSE 0)

\* What is found of one model is noted under each name it is wanted by.
Finding(names, value) == [names |-> names, value |-> value]

Note(f, finding) == With(f, Wanted \cap finding.names, finding.value)

Noting == INSTANCE Walk WITH Step <- Note

\* Only what is downloaded counts.
Listed(h) == [i \in DOMAIN models |->
  Finding(IF models[i].downloaded THEN NamesOf(models[i]) ELSE {}, fromListing(models[i], h))]

FoldListing(h) ==
  LET f      == Noting!Over(Listed(h), <<>>)
      others == IF h = None THEN {} ELSE (Wanted \cap DOMAIN h.all) \ DOMAIN f
  IN [n \in DOMAIN f \cup others |->
        IF n \in DOMAIN f THEN f[n] ELSE modelContext(0, SizeOf(h, n))]

\* Options are asked, once, of each listed id that is neither a cloud's nor
\* loaded.
Unplanned(m, h) ==
  /\ m.downloaded /\ ~ m.cloud
  /\ ~ Loaded(h, LoadedAs(h, m))
  /\ Wanted \cap NamesOf(m) # {}

Plan(planned, m) ==
  IF m # None /\ \A i \in DOMAIN planned : planned[i].id # m.id
  THEN Append(planned, m) ELSE planned

Planning == INSTANCE Walk WITH Step <- Plan

Candidates(h) ==
  [i \in DOMAIN models |-> IF Unplanned(models[i], h) THEN models[i] ELSE None]

OptionsOf(h) == Planning!Over(Candidates(h), <<>>)

\* A health that cannot be read leaves no loaded set to plan by; a survey
\* whose time is over by then keeps nothing.
ReadHealth ==
  /\ at = "health"
  /\ \/ \E h \in {health, None} :
          /\ known' = h
          /\ contexts' = FoldListing(h)
          /\ jobs' = IF h = None THEN <<>> ELSE OptionsOf(h)
          /\ at' = IF h = None \/ OptionsOf(h) = <<>> THEN "up" ELSE "options"
     \/ at' = "up" /\ UNCHANGED <<known, jobs, contexts>>
  /\ UNCHANGED <<Server, Names, models, busy, resolved>>

\* Mutant: every option is fetched at once.
TakeAnyJob ==
  /\ at = "options" /\ jobs # <<>>
  /\ busy' = busy \cup {Head(jobs)}
  /\ jobs' = Tail(jobs)
  /\ UNCHANGED <<Server, at, Names, models, known, resolved, contexts>>

TakeJob ==
  /\ at = "options" /\ jobs # <<>> /\ Cardinality(busy) < Workers
  /\ busy' = busy \cup {Head(jobs)}
  /\ jobs' = Tail(jobs)
  /\ UNCHANGED <<Server, at, Names, models, known, resolved, contexts>>

\* Options that cannot be fetched leave what the listing said.
FinishJob ==
  /\ at = "options"
  /\ \E m \in busy :
       /\ busy' = busy \ {m}
       /\ \/ resolved' = With(resolved, {m.id}, modelContext(m.max, validEffective(m.planned, m.max)))
          \/ UNCHANGED resolved
  /\ UNCHANGED <<Server, at, Names, models, known, jobs, contexts>>

Resolved(m) == ~ m.cloud /\ m.id \in DOMAIN resolved

Answered == [i \in DOMAIN models |->
  IF Resolved(models[i]) THEN Finding(NamesOf(models[i]), resolved[models[i].id])
  ELSE Finding({}, None)]

ApplyOptions ==
  /\ at = "options" /\ jobs = <<>> /\ busy = {}
  /\ contexts' = Noting!Over(Answered, contexts)
  /\ at' = "up"
  /\ UNCHANGED <<Server, Names, models, known, jobs, busy, resolved>>

Next == \/ Begin \/ ReadInstalled \/ ReadResident \/ ReadModels \/ ReadHealth
        \/ TakeJob \/ FinishJob \/ ApplyOptions

-----------------------------------------------------------------------------

TypeOK ==
  /\ at \in {"idle", "installed", "resident", "models", "health", "options", "up", "down"}
  /\ Cardinality(busy) <= Workers
  /\ at # "options" => jobs = <<>> /\ busy = {}
  /\ DOMAIN contexts \subseteq Wanted

\* A model's effective context, by what the server has: the size it is loaded
\* with, under either name, or else the size it would be loaded with.
Truth(m) ==
  LET size == IF m.cloud THEN m.length
              ELSE IF m.id \in DOMAIN health.all THEN health.all[m.id].size
              ELSE IF m.checkpoint \in DOMAIN health.all
                THEN health.all[m.checkpoint].size
              ELSE m.planned
  IN IF size > 0 /\ (m.max <= 0 \/ size <= m.max) THEN size ELSE 0

Models(name) == {m \in ToSet(listed) : m.downloaded /\ name \in NamesOf(m)}

\* Of a server that stays as it is, whatever fetch fails and in whatever order
\* the options arrive, a name's context is unknown or that of a model of the
\* name: one that is loaded is never given the context of its next load.  A
\* checkpoint that a loaded model shares with another may be given either's.  If
\* the health was read no name is left out (hosts.go lemonadeModelContexts).
LemonadeReadTrue ==
  at = "up" =>
    /\ \A n \in DOMAIN contexts :
         LET c == contexts[n]
         IN IF Models(n) = {} THEN c = modelContext(0, SizeOf(health, n))
            ELSE \E m \in Models(n) : c.maximum = m.max /\ c.effective \in {0, Truth(m)}
    /\ known # None =>
         DOMAIN contexts = {n \in Wanted : Models(n) # {} \/ n \in DOMAIN health.all}
=============================================================================
