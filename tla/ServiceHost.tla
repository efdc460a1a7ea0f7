---------------------------- MODULE ServiceHost ----------------------------
(***************************************************************************)
(* The framed service: one service.Host, whoever configures, serves and    *)
(* closes it, and one worker goroutine for each connection it admits, each *)
(* answering one call.                                                     *)
(*                                                                         *)
(* The lifecycle lock makes EnablePolicy, and what Serve does before its   *)
(* first Accept, one step each.  Close runs once: it ends the host's       *)
(* context, then closes the listener, and whoever calls it in between      *)
(* waits.  The listener, the framing, the binding of a caller, the policy  *)
(* and the provider are external: what they say is chosen at the step that *)
(* asks them.                                                              *)
(***************************************************************************)
CONSTANTS
  Server,    \* the goroutines that call Serve, each with a context of its own
  Call,      \* the connections
  OpOf       \* Call -> the operation its frame asks for

Op == {"models", "hosts", "pick", "offer"}

ASSUME ServiceAssumption == OpOf \in [Call -> Op]

VARIABLES
  policy,     \* Host.policy is set
  serving,    \* Host.serving
  closing,    \* Close: "open", the context "ended", the listener "closed"
  stopped,    \* OnStopped was called
  pc,         \* where each goroutine stands in Serve
  taken,      \* the policy the serving Serve read
  gone,       \* the servers whose own context has ended
  at,         \* where each call's worker stands
  overdue,    \* the calls whose deadline has passed
  ruling,     \* what the policy said, and of which action
  reply       \* what each call is to be told

hostVars == <<policy, serving, closing, stopped>>
serveVars == <<pc, taken, gone>>
callVars == <<at, overdue, ruling, reply>>
vars == <<hostVars, serveVars, callVars>>

Said   == {"permits", "refuses", "fails"}
Action == {"inventory.read", "route"}
Unasked == <<"unasked", "unasked">>

\* What a caller is told: a value, a typed outcome of an offer, or a code.
Values   == {"answered", "offered"}
Outcomes == {"invalid", "unavailable offer", "not permitted"}
Codes    == {"caller_refused", "forbidden", "unavailable"}
Untold   == "untold"

Running == {"receive", "recheck", "authorize", "policy", "answer", "reply"}

Workers == {c \in Call : at[c] \in Running}

Init ==
  /\ policy = FALSE /\ serving = FALSE
  /\ closing = "open" /\ stopped = FALSE
  /\ pc = [s \in Server |-> "idle"]
  /\ taken = FALSE
  /\ gone = {}
  /\ at = [c \in Call |-> "waiting"]
  /\ overdue = {}
  /\ ruling = [c \in Call |-> Unasked]
  /\ reply = [c \in Call |-> Untold]

\* A call's context ends with the host's or at its own deadline.
CallEnded(c) == closing # "open" \/ c \in overdue

-----------------------------------------------------------------------------
(* Configuration *)

\* Mutant: a policy may be set while the host serves.
MayEnableServing == closing = "open"

MayEnable == ~ serving /\ closing = "open"

EnablePolicy ==
  /\ MayEnable
  /\ policy' = TRUE
  /\ UNCHANGED <<serving, closing, stopped, serveVars, callVars>>

-----------------------------------------------------------------------------
(* Close: called by the program, by a serving context that ends, and by a  *)
(* Serve that leaves its loop.  The first call of them is the one that runs.*)

CloseContext ==
  /\ closing = "open"
  /\ closing' = "ended"
  /\ UNCHANGED <<policy, serving, stopped, serveVars, callVars>>

CloseListener ==
  /\ closing = "ended"
  /\ closing' = "closed"
  /\ UNCHANGED <<policy, serving, stopped, serveVars, callVars>>

\* Mutant: the function registered on the context is lost with the first frame.
WatchedIdle == {"leave", "drain"}

\* Serve watches its context from before its first Accept until it returns.
Watched == {"accept", "leave", "drain"}

CloseAfter(s) == s \in gone /\ pc[s] \in Watched /\ CloseContext

CloseLeaving(s) == pc[s] = "leave" /\ CloseContext

\* The context given to a Serve ends.
EndContext(s) ==
  /\ s \notin gone
  /\ gone' = gone \cup {s}
  /\ UNCHANGED <<hostVars, pc, taken, callVars>>

-----------------------------------------------------------------------------
(* Serve *)

GoTo(s, label) == pc' = [pc EXCEPT ![s] = label]

\* The first Serve of a host takes it, and the policy with it; a later one is
\* refused.
Serve(s) ==
  /\ pc[s] = "idle"
  /\ IF serving
     THEN GoTo(s, "refused") /\ UNCHANGED <<serving, taken>>
     ELSE GoTo(s, "accept") /\ serving' = TRUE /\ taken' = policy
  /\ UNCHANGED <<policy, closing, stopped, gone, callVars>>

\* A connection is admitted until the listener closes, so also after the
\* context has ended.
Accept(s) ==
  /\ pc[s] = "accept"
  /\ closing # "closed"
  /\ \E c \in Call : at[c] = "waiting" /\ at' = [at EXCEPT ![c] = "receive"]
  /\ UNCHANGED <<hostVars, serveVars, overdue, ruling, reply>>

\* Accept fails: the listener has closed, or for a reason of its own.
AcceptFails(s) ==
  /\ pc[s] = "accept"
  /\ GoTo(s, "leave")
  /\ UNCHANGED <<hostVars, taken, gone, callVars>>

\* Mutant: a Close that another goroutine runs is not waited for.
StopsEarly == closing # "open"

StopsAfterClose == closing = "closed"

\* The deferred Close has returned; OnStopped is called before the workers end.
TellStopped(s) ==
  /\ pc[s] = "leave"
  /\ StopsAfterClose
  /\ stopped' = TRUE
  /\ GoTo(s, "drain")
  /\ UNCHANGED <<policy, serving, closing, taken, gone, callVars>>

\* workers.Wait, and Serve returns.
ServeReturns(s) ==
  /\ pc[s] = "drain"
  /\ Workers = {}
  /\ GoTo(s, "returned")
  /\ UNCHANGED <<hostVars, taken, gone, callVars>>

-----------------------------------------------------------------------------
(* One worker *)

Step(c, label) == at' = [at EXCEPT ![c] = label]

Tell(c, word) == Step(c, "reply") /\ reply' = [reply EXCEPT ![c] = word]

\* The worker's ten seconds run out.
Overdue(c) ==
  /\ c \in Workers \ overdue
  /\ overdue' = overdue \cup {c}
  /\ UNCHANGED <<hostVars, serveVars, at, ruling, reply>>

\* The frame of a bound caller is read, or the worker ends without one.
Receive(c) ==
  /\ at[c] = "receive"
  /\ Step(c, "recheck") \/ Step(c, "done")
  /\ UNCHANGED <<hostVars, serveVars, overdue, ruling, reply>>

\* The binding is rechecked before anything is authorised.
Recheck(c) ==
  /\ at[c] = "recheck"
  /\ \/ Tell(c, "caller_refused")
     \/ Step(c, "authorize") /\ UNCHANGED reply
  /\ UNCHANGED <<hostVars, serveVars, overdue, ruling>>

\* A policy is asked about a peer rechecked once more; without one the bound
\* caller has access.
Authorize(c) ==
  /\ at[c] = "authorize"
  /\ \/ taken /\ Tell(c, "caller_refused")
     \/ Step(c, IF taken THEN "policy" ELSE "answer") /\ UNCHANGED reply
  /\ UNCHANGED <<hostVars, serveVars, overdue, ruling>>

ActionOf(op) == IF op = "pick" THEN "route" ELSE "inventory.read"

\* Mutant: a policy that could not decide refuses.
RefusalUntold(c, said) == IF CallEnded(c) THEN "unavailable" ELSE "forbidden"

RefusalOf(c, said) ==
  IF CallEnded(c) \/ said = "fails" THEN "unavailable" ELSE "forbidden"

\* Mutant: a policy's refusal is worded as the receiving boundary's.
WordedAtBoundary(op, code) ==
  IF op # "offer" THEN code
  ELSE IF code = "forbidden" THEN "forbidden offer" ELSE "unavailable offer"

\* An offer carries its refusal as an outcome, every other operation as a code.
Worded(op, code) ==
  IF op # "offer" THEN code
  ELSE IF code = "forbidden" THEN "not permitted" ELSE "unavailable offer"

\* The policy has ruled, and the call's context is read after it.
Ruled(c) ==
  /\ at[c] = "policy"
  /\ \E said \in Said :
       /\ ruling' = [ruling EXCEPT ![c] = <<ActionOf(OpOf[c]), said>>]
       /\ IF said = "permits" /\ ~ CallEnded(c)
          THEN Step(c, "answer") /\ UNCHANGED reply
          ELSE Tell(c, Worded(OpOf[c], RefusalOf(c, said)))
  /\ UNCHANGED <<hostVars, serveVars, overdue>>

\* The provider answers, and the call's context does not reach it; an offer
\* may be of a request it cannot mean.
Answer(c) ==
  /\ at[c] = "answer"
  /\ IF OpOf[c] = "offer" THEN Tell(c, "offered") \/ Tell(c, "invalid")
                          ELSE Tell(c, "answered")
  /\ UNCHANGED <<hostVars, serveVars, overdue, ruling>>

\* The reply is sent, or the peer has left; the worker ends.
Reply(c) ==
  /\ at[c] = "reply"
  /\ Step(c, "done")
  /\ UNCHANGED <<hostVars, serveVars, overdue, ruling, reply>>

-----------------------------------------------------------------------------

WorkerStep(c) ==
  Receive(c) \/ Recheck(c) \/ Authorize(c) \/ Ruled(c) \/ Answer(c) \/ Reply(c)

Next ==
  \/ EnablePolicy
  \/ CloseContext
  \/ CloseListener
  \/ \E s \in Server : \/ EndContext(s) \/ CloseAfter(s) \/ CloseLeaving(s)
                       \/ Serve(s) \/ Accept(s) \/ AcceptFails(s)
                       \/ TellStopped(s) \/ ServeReturns(s)
  \/ \E c \in Call : Overdue(c) \/ WorkerStep(c)

\* Goroutines run.  Accept returns an error once the listener is closed, and
\* every call a worker makes ends by its deadline; nothing forces a call, a
\* Close, a context to end or a Serve to be called.
Fairness ==
  /\ WF_vars(CloseListener)
  /\ \A s \in Server :
       /\ WF_vars(CloseAfter(s) \/ CloseLeaving(s))
       /\ WF_vars(closing = "closed" /\ AcceptFails(s))
       /\ WF_vars(TellStopped(s) \/ ServeReturns(s))
  /\ \A c \in Call : WF_vars(WorkerStep(c))

Spec == Init /\ [][Next]_vars

FairSpec == Spec /\ Fairness

-----------------------------------------------------------------------------
(* Properties *)

\* Every variable has its type.
TypeOK ==
  /\ policy \in BOOLEAN /\ serving \in BOOLEAN /\ stopped \in BOOLEAN
  /\ taken \in BOOLEAN
  /\ closing \in {"open", "ended", "closed"}
  /\ pc \in [Server -> {"idle", "refused", "accept", "leave", "drain", "returned"}]
  /\ gone \subseteq Server
  /\ at \in [Call -> Running \cup {"waiting", "done"}]
  /\ overdue \subseteq Call
  /\ ruling \in [Call -> (Action \X Said) \cup {Unasked}]
  /\ reply \in [Call -> Values \cup Outcomes \cup Codes \cup {Untold}]

\* Configured policies decide every operation (CONTRACT.md ROUTE-A2): whenever
\* the host has a policy, each call the provider was asked for had been
\* permitted, for the action of its operation, before the provider was asked,
\* however EnablePolicy, Serve and the calls were ordered.
PolicyDecides ==
  policy => \A c \in Call :
    at[c] = "answer" \/ reply[c] \in Values \cup {"invalid"}
      => ruling[c] = <<IF OpOf[c] = "pick" THEN "route" ELSE "inventory.read",
                       "permits">>

\* "OnStopped is called when admission stops" (service.go:29): from then on the
\* listener is closed, and a Serve returns only after every call it admitted has
\* been answered and OnStopped was told, whoever closed the host.
StopsInOrder ==
  /\ stopped => closing = "closed"
  /\ \A s \in Server : pc[s] = "returned" => stopped /\ Workers = {}

\* CONTRACT.md ROUTE-E2 and ROUTE-E3: "forbidden" and "not permitted" say that
\* the policy refused, "unavailable" that it could not decide or that the call
\* ended first, and an offer's refusal is an outcome except for a caller that
\* cannot be bound.
RefusalsToldApart ==
  \A c \in Call :
    /\ reply[c] \in {"forbidden", "not permitted"} => ruling[c][2] = "refuses"
    /\ reply[c] \in {"unavailable", "unavailable offer"} =>
         ruling[c][2] = "fails" \/ CallEnded(c)
    /\ OpOf[c] = "offer" =>
         reply[c] \in Outcomes \cup {"offered", "caller_refused", Untold}
    /\ OpOf[c] # "offer" => reply[c] \in Codes \cup {"answered", Untold}

\* A host that is closed, or whose context ends, while it is served ends that
\* Serve: its loop leaves, its workers finish and it returns.
ServeEnds ==
  \A s \in Server :
    pc[s] = "accept" /\ (closing # "open" \/ s \in gone) ~> pc[s] = "returned"
=============================================================================
