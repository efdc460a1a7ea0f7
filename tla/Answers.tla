------------------------------ MODULE Answers ------------------------------
(***************************************************************************)
(* One question put to Router.Answer, over the line-framed service or the  *)
(* read-only window, while surveys read and publish, the residency source  *)
(* is replaced and other callers' decisions are recorded.  An answer reads *)
(* the snapshot and, for residency, the audit after it.                    *)
(***************************************************************************)
EXTENDS Naturals, Sequences, FiniteSets

CONSTANTS
  Sources,     \* what may be wired: [fails, rows]
  Found,       \* aliases a survey may find, sets of [family, host, name, resident]
  Requests,    \* [op, fresh, placement, reserve]
  MaxAsked,    \* the decisions the audit keeps, 50 in the code
  MaxDecided,  \* how many are recorded
  MaxPolls,    \* how many surveys Poll makes
  None         \* no source, no survey

Surveyor == {"poll", "own"}   \* Poll, and a fresh question's own survey

VARIABLES
  wired,     \* Router.residency
  surveys,   \* the survey each has in hand
  polls,     \* surveys made by Poll
  snap,      \* the published snapshot
  audit,     \* Router.asked, newest first: a decision is its number
  decided,   \* decisions recorded
  channel,   \* where the question came by: "line" or "window"
  at,        \* where it stands
  request,   \* the question
  before,    \* decisions recorded when it was asked
  view,      \* the snapshot it is answered from
  reply      \* the answer

vars == <<wired, surveys, polls, snap, audit, decided, channel, at, request, before,
          view, reply>>

Router == <<wired, surveys, polls, snap, audit, decided>>
Asking == <<channel, at, request, before, view, reply>>

\* Of the snapshot no survey has published yet nothing was read.  A snapshot
\* remembers the source it was read from, which the code does not.
Unsurveyed == [found |-> {}, rows |-> <<>>, why |-> "", source |-> None, read |-> FALSE]

Init ==
  /\ wired = None /\ surveys = [s \in Surveyor |-> None] /\ polls = 0
  /\ snap = Unsurveyed
  /\ audit = <<>> /\ decided = 0
  /\ channel = None /\ at = "idle" /\ request = None /\ before = 0
  /\ view = Unsurveyed /\ reply = [kind |-> "none"]

-----------------------------------------------------------------------------
(* The router *)

SetResidency ==
  /\ wired' \in (Sources \cup {None}) \ {wired}
  /\ UNCHANGED <<surveys, polls, snap, audit, decided, Asking>>

\* Mutant: a source that fails leaves no reason.
readHoldersMute(source) ==
  CASE source = None -> [rows |-> <<>>, why |-> "no source"]
    [] source # None /\ source.fails -> [rows |-> <<>>, why |-> ""]
    [] source # None /\ ~ source.fails -> [rows |-> source.rows, why |-> ""]

readHolders(source) ==
  CASE source = None -> [rows |-> <<>>, why |-> "no source"]
    [] source # None /\ source.fails -> [rows |-> <<>>, why |-> "source failed"]
    [] source # None /\ ~ source.fails -> [rows |-> source.rows, why |-> ""]

\* The hosts are read long before the holders.
BeginSurvey(s, found) ==
  /\ surveys[s] = None
  /\ surveys' = [surveys EXCEPT ![s] = [found |-> found, held |-> Unsurveyed]]
  /\ UNCHANGED <<wired, snap, audit, decided>>

PollSurveys ==
  /\ polls < MaxPolls
  /\ polls' = polls + 1
  /\ \E found \in Found : BeginSurvey("poll", found)
  /\ UNCHANGED Asking

ReadHolders(s) ==
  /\ surveys[s] # None /\ ~ surveys[s].held.read
  /\ surveys' = [surveys EXCEPT ![s].held =
       [found |-> surveys[s].found, rows |-> readHolders(wired).rows,
        why |-> readHolders(wired).why, source |-> wired, read |-> TRUE]]
  /\ UNCHANGED <<wired, polls, snap, audit, decided, Asking>>

Publish(s) ==
  /\ surveys[s] # None /\ surveys[s].held.read
  /\ snap' = surveys[s].held
  /\ surveys' = [surveys EXCEPT ![s] = None]
  /\ at' = IF s = "own" THEN "latest" ELSE at
  /\ UNCHANGED <<wired, polls, audit, decided, channel, request, before, view, reply>>

Recorded(asked) == SubSeq(<<decided + 1>> \o asked, 1,
                          IF Len(asked) < MaxAsked THEN Len(asked) + 1 ELSE MaxAsked)

record ==
  /\ decided' = decided + 1
  /\ audit' = Recorded(audit)
  /\ UNCHANGED <<wired, surveys, polls, snap>>

OthersDecide ==
  /\ decided < MaxDecided
  /\ record
  /\ UNCHANGED Asking

-----------------------------------------------------------------------------
(* A question on the line: one line is read before its caller can be known. *)

Replies(answer) == at' = "done" /\ reply' = answer

Refusal(code) == [kind |-> "refused", code |-> code]

\* A connection that closes, or a line over maxFrame, has no reply.
Accept ==
  /\ at = "idle"
  /\ channel' = "line"
  /\ at' \in {"framed", "closed"}
  /\ UNCHANGED <<Router, request, before, view, reply>>

\* Bind and Check.
Bind ==
  /\ at = "framed"
  /\ \/ at' = "bound" /\ UNCHANGED reply
     \/ Replies(Refusal("caller_refused"))
  /\ UNCHANGED <<Router, channel, request, before, view>>

Unmarshal ==
  /\ at = "bound"
  /\ \/ \E r \in Requests :
          /\ request' = r /\ before' = decided
          /\ at' = "asked" /\ UNCHANGED reply
     \/ Replies(Refusal("invalid_request")) /\ UNCHANGED <<request, before>>
  /\ UNCHANGED <<Router, channel, view>>

\* The window takes a word from the path, and knows no placement.
Open ==
  /\ at = "idle"
  /\ channel' = "window"
  /\ \E r \in Requests :
       request' = [op |-> r.op, fresh |-> r.fresh, placement |-> "", reserve |-> 0]
  /\ before' = decided
  /\ at' = "asked"
  /\ UNCHANGED <<Router, view, reply>>

-----------------------------------------------------------------------------
(* Answer *)

Refused ==
  CASE request.op \in {"models", "residency"} -> ""
    [] request.op = "route" -> IF channel = "window" THEN "caller_refused" ELSE ""
    [] request.op = "offer" ->
         IF request.placement \notin {"local", "hosted", "any"} \/ request.reserve < 0
         THEN "invalid_request" ELSE ""
    [] OTHER -> "unknown_operation"

Refuse ==
  /\ at = "asked" /\ Refused # ""
  /\ Replies(Refusal(Refused))
  /\ UNCHANGED <<Router, channel, request, before, view>>

\* latest, whose fresh survey is this question's own.
Begin ==
  /\ at = "asked" /\ Refused = ""
  /\ \/ /\ request.fresh
        /\ at' = "surveying"
        /\ \E found \in Found : BeginSurvey("own", found)
     \/ /\ ~ request.fresh
        /\ at' = "latest"
        /\ UNCHANGED <<wired, surveys, snap, audit, decided>>
  /\ UNCHANGED <<polls, channel, request, before, view, reply>>

\* Models and offers are answered from the snapshot alone.
Latest ==
  /\ at = "latest"
  /\ view' = snap
  /\ CASE request.op = "residency" -> at' = "audit" /\ UNCHANGED reply
       [] request.op = "route" -> at' = "deciding" /\ UNCHANGED reply
       [] OTHER -> Replies([kind |-> request.op])
  /\ UNCHANGED <<Router, channel, request, before>>

\* The families more than one host has loaded.
doubled(found) ==
  LET On(f) == {a.host : a \in {b \in found : b.family = f /\ b.resident}}
  IN {f \in {a.family : a \in found} : Cardinality(On(f)) > 1}

Residency ==
  /\ at = "audit"
  /\ Replies([kind |-> "residency", rows |-> view.rows, why |-> view.why,
              doubled |-> doubled(view.found), asked |-> audit])
  /\ UNCHANGED <<Router, channel, request, before, view>>

Route ==
  /\ at = "deciding"
  /\ record
  /\ Replies([kind |-> "decided", as |-> decided + 1])
  /\ UNCHANGED <<channel, request, before, view>>

-----------------------------------------------------------------------------

Next ==
  \/ SetResidency \/ PollSurveys \/ OthersDecide
  \/ \E s \in Surveyor : ReadHolders(s) \/ Publish(s)
  \/ Accept \/ Bind \/ Unmarshal \/ Open
  \/ Refuse \/ Begin \/ Latest \/ Residency \/ Route

-----------------------------------------------------------------------------

TypeOK ==
  /\ wired \in Sources \cup {None}
  /\ polls \in 0..MaxPolls
  /\ Len(audit) <= MaxAsked
  /\ at \in {"idle", "framed", "closed", "bound", "asked", "surveying", "latest",
             "audit", "deciding", "done"}
  /\ at \in {"surveying"} <=> surveys["own"] # None
  /\ at = "done" <=> reply.kind # "none"

\* A residency answer is whole although it is put together from a snapshot and
\* an audit read at two moments, and a source replaced at any: who holds the
\* card is what one source said, and nobody only if it said so, once there was
\* a survey; a family is doubled if two hosts have it; and every decision that
\* was recorded before the question is in the audit it is answered with, with
\* none left out between two of them.  Which server a route named is told on the
\* line only, to a bound caller (service.go Answer, residency.go, window.go).
AnswersWhole ==
  /\ reply.kind = "residency" =>
       /\ view.read =>
            /\ reply.why = "" <=> view.source # None /\ ~ view.source.fails
            /\ reply.rows = IF reply.why = "" THEN view.source.rows ELSE <<>>
       /\ \A f \in {a.family : a \in view.found} :
            f \in reply.doubled <=> \E a, b \in view.found :
              /\ a.family = f /\ b.family = f /\ a.resident /\ b.resident
              /\ a.host # b.host
       /\ before > 0 => reply.asked # <<>> /\ reply.asked[1] >= before
       /\ \A i \in DOMAIN reply.asked : reply.asked[i] = reply.asked[1] + 1 - i
       /\ reply.asked # <<>> => \/ Len(reply.asked) = MaxAsked
                                \/ reply.asked[Len(reply.asked)] = 1
  /\ reply.kind \in {"decided", "offer"} => channel = "line"
=============================================================================
