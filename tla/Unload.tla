------------------------------- MODULE Unload -------------------------------
(***************************************************************************)
(* A server asked to let go of all it holds, by its own API: one call for  *)
(* all of it, or a listing of what is held and then a call for each.       *)
(***************************************************************************)
EXTENDS Sequences, FiniteSets, SequencesExt

CONSTANTS
  Holders,   \* a server: [kind, held], held a sequence of what it lists
  None       \* no server, no outcome

\* What LM Studio lists has one of three identifiers, or only its model's key.

VARIABLES
  holder,    \* the server asked
  at,        \* where the unload stands
  queue,     \* what is still to be asked for
  asked,     \* what was asked for, in order; "all" asks for everything
  failures,  \* what of it failed
  outcome    \* None, "released", "no_unload" or "failed"

vars == <<holder, at, queue, asked, failures, outcome>>

Init ==
  /\ holder = None /\ at = "idle"
  /\ queue = <<>> /\ asked = <<>> /\ failures = {}
  /\ outcome = None

Ends(word) == at' = "done" /\ outcome' = word

Whole == {"lemonade", "comfyui"}
Each  == {"lmstudio", "ollama"}

Unload(h) ==
  /\ at = "idle"
  /\ holder' = h
  /\ \/ /\ h.kind \in Whole
        /\ queue' = <<"all">> /\ at' = "asking" /\ UNCHANGED outcome
     \/ /\ h.kind \in Each
        /\ at' = "listing" /\ UNCHANGED <<queue, outcome>>
     \/ /\ h.kind \notin Whole \cup Each
        /\ Ends("no_unload") /\ UNCHANGED queue
  /\ UNCHANGED <<asked, failures>>

\* lmStudioInstances: the first identifier there is, or else the model's key.
instance(i) ==
  IF i.id # "" THEN i.id
  ELSE IF i.instance_id # "" THEN i.instance_id
  ELSE IF i.identifier # "" THEN i.identifier
  ELSE i.key

Listed(h) ==
  IF h.kind = "lmstudio" THEN [k \in DOMAIN h.held |-> instance(h.held[k])]
  ELSE [k \in DOMAIN h.held |-> h.held[k].key]

List ==
  /\ at = "listing"
  /\ \/ queue' = Listed(holder) /\ at' = "asking" /\ UNCHANGED outcome
     \/ Ends("failed") /\ UNCHANGED queue
  /\ UNCHANGED <<holder, asked, failures>>

\* Mutant: the first failure ends the unload.
AskFirst ==
  /\ at = "asking" /\ queue # <<>>
  /\ asked' = Append(asked, Head(queue))
  /\ \/ failures' = failures /\ queue' = Tail(queue)
     \/ failures' = failures \cup {Len(asked) + 1} /\ queue' = <<>>
  /\ UNCHANGED <<holder, at, outcome>>

\* A failure is kept, and the next one asked.
Ask ==
  /\ at = "asking" /\ queue # <<>>
  /\ asked' = Append(asked, Head(queue))
  /\ queue' = Tail(queue)
  /\ failures' \in {failures, failures \cup {Len(asked) + 1}}
  /\ UNCHANGED <<holder, at, outcome>>

Conclude ==
  /\ at = "asking" /\ queue = <<>>
  /\ Ends(IF failures = {} THEN "released" ELSE "failed")
  /\ UNCHANGED <<holder, queue, asked, failures>>

Next == (\E h \in Holders : Unload(h)) \/ List \/ Ask \/ Conclude

-----------------------------------------------------------------------------

TypeOK ==
  /\ holder \in Holders \cup {None}
  /\ at \in {"idle", "listing", "asking", "done"}
  /\ outcome \in {None, "released", "no_unload", "failed"}
  /\ failures \subseteq DOMAIN asked
  /\ (at = "done") = (outcome # None)

\* Every instance a server lists is asked to go, each once and by a name the
\* server knows it by, whichever of them fail, and the unload says it released
\* them only if none failed (unload.go unloadLMStudio, unloadOllama).
UnloadAsksAll ==
  /\ outcome = "released" => failures = {}
  /\ outcome = "failed" /\ failures = {} => holder.kind \in Each /\ asked = <<>>
  /\ at = "done" /\ holder.kind \in Each /\ (outcome = "released" \/ failures # {}) =>
       /\ Len(asked) = Len(holder.held)
       /\ \A k \in DOMAIN asked :
            LET i == holder.held[k]
            IN asked[k] \in {i.id, i.instance_id, i.identifier, i.key} \ {""}
=============================================================================
