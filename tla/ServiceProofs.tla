--------------------------- MODULE ServiceProofs ---------------------------
(***************************************************************************)
(* The safety properties of the framed service, for any number of Serve    *)
(* goroutines and calls.                                                   *)
(*                                                                         *)
(* HostInv ties the policy a Serve read to the host's, and the order of    *)
(* Close, OnStopped and the return; CallInv says what each call may have   *)
(* been told at each label of its worker.                                  *)
(***************************************************************************)
EXTENDS ServiceHost, TLAPS

\* The policy is settled before the first connection is admitted, and a Serve
\* past its loop has closed the host.
HostInv ==
  /\ serving => taken = policy
  /\ ~ serving => \A c \in Call : at[c] = "waiting"
  /\ \A s \in Server : pc[s] \in {"accept", "leave", "drain", "returned"} => serving
  /\ stopped => closing = "closed"
  /\ \A s \in Server : pc[s] \in {"drain", "returned"} => stopped
  /\ \A s \in Server : pc[s] = "returned" => Workers = {}

\* Nothing is told before the worker reaches its reply, and what is told is
\* what the policy's ruling and the operation allow.
CallInv(c) ==
  /\ at[c] \notin {"reply", "done"} => reply[c] = Untold
  /\ at[c] = "policy" => taken
  /\ taken /\ (at[c] = "answer" \/ reply[c] \in Values \cup {"invalid"})
       => ruling[c] = <<ActionOf(OpOf[c]), "permits">>
  /\ reply[c] \in {"forbidden", "not permitted"} => ruling[c][2] = "refuses"
  /\ reply[c] \in {"unavailable", "unavailable offer"} =>
       ruling[c][2] = "fails" \/ CallEnded(c)
  /\ OpOf[c] = "offer" =>
       reply[c] \in Outcomes \cup {"offered", "caller_refused", Untold}
  /\ OpOf[c] # "offer" => reply[c] \in Codes \cup {"answered", Untold}

IInv == TypeOK /\ HostInv /\ \A c \in Call : CallInv(c)

-----------------------------------------------------------------------------
(* What a refusal may be *)

\* The policy's refusal, worded for its operation, is one of four.
LEMMA RefusalWords ==
  ASSUME NEW c \in Call, NEW said \in Said
  PROVE  /\ Worded(OpOf[c], RefusalOf(c, said)) \in
              IF OpOf[c] = "offer" THEN {"not permitted", "unavailable offer"}
                                   ELSE {"forbidden", "unavailable"}
         /\ Worded(OpOf[c], RefusalOf(c, said)) \in {"forbidden", "not permitted"}
              => said # "fails" /\ ~ CallEnded(c)
         /\ Worded(OpOf[c], RefusalOf(c, said)) \in {"unavailable", "unavailable offer"}
              => said = "fails" \/ CallEnded(c)
<1>1. RefusalOf(c, said) \in {"forbidden", "unavailable"}
  BY DEF RefusalOf
<1>2. RefusalOf(c, said) = "forbidden" => said # "fails" /\ ~ CallEnded(c)
  BY DEF RefusalOf
<1>3. RefusalOf(c, said) = "unavailable" => said = "fails" \/ CallEnded(c)
  BY DEF RefusalOf
<1> QED BY <1>1, <1>2, <1>3 DEF Worded

-----------------------------------------------------------------------------
(* The initial state *)

LEMMA InitInv == Init => IInv
<1> SUFFICES ASSUME Init PROVE IInv
  OBVIOUS
<1>1. TypeOK
  BY DEF Init, TypeOK
<1>2. HostInv
  BY DEF Init, HostInv
<1>3. ASSUME NEW c \in Call PROVE CallInv(c)
  BY DEF Init, CallInv, Untold, Values
<1> QED BY <1>1, <1>2, <1>3 DEF IInv

-----------------------------------------------------------------------------
(* Every step keeps it *)

\* A step that leaves the calls alone, and can end contexts but not revive
\* them, keeps what is known of each call when it keeps the policy taken.
LEMMA CallsLeftAlone ==
  ASSUME IInv, UNCHANGED <<at, ruling, reply>>,
         taken' = taken \/ \A c \in Call : at[c] = "waiting",
         closing = "open" \/ closing' # "open",
         overdue \subseteq overdue'
  PROVE  \A c \in Call : CallInv(c)'
<1> SUFFICES ASSUME NEW c \in Call PROVE CallInv(c)'
  OBVIOUS
<1>1. CallInv(c)
  BY DEF IInv
<1>2. CallEnded(c) => CallEnded(c)'
  BY DEF CallEnded
<1>3. CASE taken' = taken
  BY <1>1, <1>2, <1>3 DEF CallInv
<1>4. CASE \A d \in Call : at[d] = "waiting"
  <2>1. reply[c] = Untold /\ at[c] = "waiting"
    BY <1>1, <1>4 DEF CallInv
  <2> QED BY <2>1, <1>1, <1>2 DEF CallInv, Untold, Values
<1> QED BY <1>3, <1>4

\* Configuration, Close and the loop of Serve.
LEMMA HostStep ==
  ASSUME IInv,
         \/ EnablePolicy \/ CloseContext \/ CloseListener
         \/ \E s \in Server : \/ EndContext(s) \/ CloseAfter(s) \/ CloseLeaving(s)
                              \/ Serve(s) \/ AcceptFails(s)
                              \/ TellStopped(s) \/ ServeReturns(s)
  PROVE  IInv'
<1> USE DEF IInv
<1>1. CASE EnablePolicy
  <2>1. TypeOK' BY <1>1 DEF EnablePolicy, TypeOK, serveVars, callVars
  <2>2. HostInv'
    BY <1>1 DEF EnablePolicy, MayEnable, HostInv, Workers, serveVars, callVars
  <2>3. \A c \in Call : CallInv(c)'
    BY <1>1, CallsLeftAlone DEF EnablePolicy, serveVars, callVars
  <2> QED BY <2>1, <2>2, <2>3
<1>2. ASSUME CloseContext PROVE IInv'
  <2>1. TypeOK' BY <1>2 DEF CloseContext, TypeOK, serveVars, callVars
  <2>2. HostInv'
    BY <1>2 DEF CloseContext, HostInv, Workers, serveVars, callVars
  <2>3. \A c \in Call : CallInv(c)'
    BY <1>2, CallsLeftAlone DEF CloseContext, serveVars, callVars
  <2> QED BY <2>1, <2>2, <2>3
<1>3. CASE CloseListener
  <2>1. TypeOK' BY <1>3 DEF CloseListener, TypeOK, serveVars, callVars
  <2>2. HostInv'
    BY <1>3 DEF CloseListener, HostInv, Workers, serveVars, callVars
  <2>3. \A c \in Call : CallInv(c)'
    BY <1>3, CallsLeftAlone DEF CloseListener, serveVars, callVars
  <2> QED BY <2>1, <2>2, <2>3
<1>4. ASSUME NEW s \in Server, EndContext(s) PROVE IInv'
  <2>1. TypeOK' BY <1>4 DEF EndContext, TypeOK, hostVars, callVars
  <2>2. HostInv' BY <1>4 DEF EndContext, HostInv, Workers, hostVars, callVars
  <2>3. \A c \in Call : CallInv(c)'
    BY <1>4, CallsLeftAlone DEF EndContext, hostVars, callVars
  <2> QED BY <2>1, <2>2, <2>3
<1>5. ASSUME NEW s \in Server, Serve(s) PROVE IInv'
  <2>1. TypeOK' BY <1>5 DEF Serve, GoTo, TypeOK, callVars
  <2>2. HostInv' BY <1>5 DEF Serve, GoTo, TypeOK, HostInv, Workers, callVars
  <2>3. taken' = taken \/ \A c \in Call : at[c] = "waiting"
    BY <1>5 DEF Serve, HostInv
  <2>4. \A c \in Call : CallInv(c)'
    BY <1>5, <2>3, CallsLeftAlone DEF Serve, callVars
  <2> QED BY <2>1, <2>2, <2>4
<1>6. ASSUME NEW s \in Server, AcceptFails(s) PROVE IInv'
  <2>1. TypeOK' BY <1>6 DEF AcceptFails, GoTo, TypeOK, hostVars, callVars
  <2>2. HostInv'
    BY <1>6 DEF AcceptFails, GoTo, TypeOK, HostInv, Workers, hostVars, callVars
  <2>3. \A c \in Call : CallInv(c)'
    BY <1>6, CallsLeftAlone DEF AcceptFails, hostVars, callVars
  <2> QED BY <2>1, <2>2, <2>3
<1>7. ASSUME NEW s \in Server, TellStopped(s) PROVE IInv'
  <2>1. TypeOK' BY <1>7 DEF TellStopped, GoTo, TypeOK, callVars
  <2>2. HostInv'
    BY <1>7 DEF TellStopped, StopsAfterClose, GoTo, TypeOK, HostInv, Workers, callVars
  <2>3. \A c \in Call : CallInv(c)'
    BY <1>7, CallsLeftAlone DEF TellStopped, callVars
  <2> QED BY <2>1, <2>2, <2>3
<1>8. ASSUME NEW s \in Server, ServeReturns(s) PROVE IInv'
  <2>1. TypeOK' BY <1>8 DEF ServeReturns, GoTo, TypeOK, hostVars, callVars
  <2>2. HostInv'
    BY <1>8 DEF ServeReturns, GoTo, TypeOK, HostInv, Workers, hostVars, callVars
  <2>3. \A c \in Call : CallInv(c)'
    BY <1>8, CallsLeftAlone DEF ServeReturns, hostVars, callVars
  <2> QED BY <2>1, <2>2, <2>3
<1> QED
  BY <1>1, <1>2, <1>3, <1>4, <1>5, <1>6, <1>7, <1>8 DEF CloseAfter, CloseLeaving

\* What a step of one call does to the others: nothing.
LEMMA OthersAlone ==
  ASSUME IInv, UNCHANGED <<hostVars, taken>>, NEW c \in Call,
         \A d \in Call \ {c} : /\ at'[d] = at[d] /\ ruling'[d] = ruling[d]
                               /\ reply'[d] = reply[d],
         overdue' = overdue
  PROVE  \A d \in Call \ {c} : CallInv(d)'
BY DEF IInv, CallInv, CallEnded, hostVars

\* A worker that ends, or moves between two labels at which it runs, leaves
\* the order of Close and return alone.
LEMMA WorkersShrink ==
  ASSUME IInv, UNCHANGED <<hostVars, serveVars>>, NEW c \in Workers,
         NEW l \in Running \cup {"done"}, Step(c, l)
  PROVE  HostInv' /\ at' \in [Call -> Running \cup {"waiting", "done"}]
<1>1. c \in Call /\ at[c] \in Running
  BY DEF Workers
<1>2. at' \in [Call -> Running \cup {"waiting", "done"}]
  BY DEF IInv, TypeOK, Step
<1>3. Workers' \subseteq Workers
  BY <1>1 DEF Workers, Step, IInv, TypeOK, Running
<1>4. serving
  BY <1>1 DEF IInv, HostInv, Running
<1>5. \A s \in Server : pc[s] # "returned"
  BY DEF IInv, HostInv
<1> QED BY <1>2, <1>3, <1>4, <1>5 DEF IInv, HostInv, hostVars, serveVars

\* Admission, only while the listener is open and so before any Serve returns.
LEMMA AcceptStep ==
  ASSUME IInv, NEW s \in Server, Accept(s)
  PROVE  IInv'
<1>1. PICK c \in Call : at[c] = "waiting" /\ at' = [at EXCEPT ![c] = "receive"]
  BY DEF Accept
<1> USE <1>1 DEF IInv, Accept, hostVars, serveVars
<1>2. TypeOK' BY DEF TypeOK, Running
<1>3. HostInv' BY DEF TypeOK, HostInv
<1>4. \A d \in Call \ {c} : CallInv(d)'
  BY OthersAlone DEF TypeOK
<1>5. CallInv(c)' BY DEF TypeOK, CallInv, CallEnded
<1> QED BY <1>2, <1>3, <1>4, <1>5

\* A deadline only ends a call's context.
LEMMA OverdueStep ==
  ASSUME IInv, NEW c \in Call, Overdue(c)
  PROVE  IInv'
<1>1. TypeOK' BY DEF IInv, Overdue, TypeOK, hostVars, serveVars
<1>2. HostInv' BY DEF IInv, Overdue, HostInv, Workers, hostVars, serveVars
<1>3. \A d \in Call : CallInv(d)'
  BY CallsLeftAlone DEF Overdue, hostVars, serveVars
<1> QED BY <1>1, <1>2, <1>3 DEF IInv

\* The steps of one worker.
LEMMA WorkerKeeps ==
  ASSUME IInv, NEW c \in Call, WorkerStep(c)
  PROVE  IInv'
<1> USE DEF IInv
<1>0. TypeOK /\ HostInv /\ CallInv(c)
  OBVIOUS
<1>1. UNCHANGED <<hostVars, serveVars, overdue>>
  BY DEF WorkerStep, Receive, Recheck, Authorize, Ruled, Answer, Reply
<1>2. c \in Workers
  BY DEF WorkerStep, Receive, Recheck, Authorize, Ruled, Answer, Reply, Workers,
         Running
<1>3. \E l \in Running \cup {"done"} : Step(c, l)
  BY DEF WorkerStep, Receive, Recheck, Authorize, Ruled, Answer, Reply, Tell,
         Running
<1>4. HostInv' /\ at' \in [Call -> Running \cup {"waiting", "done"}]
  BY <1>1, <1>2, <1>3, WorkersShrink
<1>5. \A d \in Call \ {c} : at'[d] = at[d]
  BY <1>0, <1>3 DEF Step, TypeOK
<1>6. CallEnded(c)' = CallEnded(c)
  BY <1>1 DEF CallEnded, hostVars
<1>7. CASE Receive(c) \/ Reply(c)
  <2>1. UNCHANGED <<ruling, reply>>
    BY <1>7 DEF Receive, Reply
  <2>2. at'[c] \in {"recheck", "done"} /\ at[c] \in {"receive", "reply"}
    BY <1>0, <1>7 DEF Receive, Reply, Step, TypeOK
  <2>3. at[c] = "receive" => at'[c] = "recheck" \/ reply[c] = Untold
    BY <1>0 DEF CallInv
  <2>4. CallInv(c)'
    BY <1>0, <1>1, <1>6, <1>7, <2>1, <2>2 DEF CallInv, Receive, Reply, serveVars, Step, TypeOK
  <2>5. TypeOK'
    BY <1>0, <1>1, <1>4, <2>1 DEF TypeOK, hostVars, serveVars
  <2> QED BY <1>1, <1>4, <1>5, <2>1, <2>4, <2>5, OthersAlone DEF hostVars, serveVars
<1>8. CASE Recheck(c) \/ Authorize(c)
  <2>1. ruling' = ruling /\ reply[c] = Untold
    BY <1>0, <1>8 DEF Recheck, Authorize, CallInv
  <2>2. \/ at'[c] = "reply" /\ reply' = [reply EXCEPT ![c] = "caller_refused"]
        \/ at'[c] = "authorize" /\ reply' = reply
        \/ at'[c] = "policy" /\ taken /\ reply' = reply
        \/ at'[c] = "answer" /\ ~ taken /\ reply' = reply
    BY <1>0, <1>8 DEF Recheck, Authorize, Tell, Step, TypeOK
  <2>3. reply' \in [Call -> Values \cup Outcomes \cup Codes \cup {Untold}]
    BY <1>0, <2>2 DEF TypeOK, Codes
  <2>4. \A d \in Call \ {c} : reply'[d] = reply[d]
    BY <1>0, <2>2 DEF TypeOK
  <2>5. reply'[c] \in {Untold, "caller_refused"}
        /\ (at'[c] # "reply" => reply'[c] = Untold)
    BY <1>0, <2>1, <2>2 DEF TypeOK
  <2>6. CallInv(c)'
    BY <1>0, <1>1, <2>1, <2>2, <2>5
    DEF CallInv, Untold, Values, Outcomes, Codes, serveVars
  <2>7. TypeOK'
    BY <1>0, <1>1, <1>4, <2>1, <2>3 DEF TypeOK, hostVars, serveVars
  <2> QED BY <1>1, <1>4, <1>5, <2>1, <2>4, <2>6, <2>7, OthersAlone DEF hostVars, serveVars
<1>9. CASE Ruled(c)
  <2>1. PICK said \in Said :
          /\ ruling' = [ruling EXCEPT ![c] = <<ActionOf(OpOf[c]), said>>]
          /\ IF said = "permits" /\ ~ CallEnded(c)
             THEN Step(c, "answer") /\ UNCHANGED reply
             ELSE Tell(c, Worded(OpOf[c], RefusalOf(c, said)))
    BY <1>9 DEF Ruled
  <2>2. reply[c] = Untold /\ at[c] = "policy"
    BY <1>0, <1>9 DEF Ruled, CallInv
  <2>3. /\ ruling' \in [Call -> (Action \X Said) \cup {Unasked}]
        /\ ruling'[c] = <<ActionOf(OpOf[c]), said>>
        /\ \A d \in Call \ {c} : ruling'[d] = ruling[d]
    BY <1>0, <2>1 DEF TypeOK, Action, ActionOf
  <2>4. CASE said = "permits" /\ ~ CallEnded(c)
    <3>1. at'[c] = "answer" /\ reply' = reply
      BY <1>0, <2>1, <2>4 DEF Step, TypeOK
    <3>2. CallInv(c)'
      BY <1>0, <1>1, <2>2, <2>3, <2>4, <3>1
      DEF CallInv, Untold, Values, Outcomes, Codes, serveVars
    <3>3. TypeOK'
      BY <1>0, <1>1, <1>4, <2>3, <3>1 DEF TypeOK, hostVars, serveVars
    <3> QED BY <1>1, <1>4, <1>5, <2>3, <3>1, <3>2, <3>3, OthersAlone
            DEF hostVars, serveVars
  <2>5. CASE ~ (said = "permits" /\ ~ CallEnded(c))
    <3> DEFINE w == Worded(OpOf[c], RefusalOf(c, said))
    <3>1. at'[c] = "reply" /\ reply' = [reply EXCEPT ![c] = w]
      BY <1>0, <2>1, <2>5 DEF Tell, Step, TypeOK
    <3>2. /\ w \in IF OpOf[c] = "offer" THEN {"not permitted", "unavailable offer"}
                                        ELSE {"forbidden", "unavailable"}
          /\ w \in {"forbidden", "not permitted"} => said # "fails" /\ ~ CallEnded(c)
          /\ w \in {"unavailable", "unavailable offer"} =>
               said = "fails" \/ CallEnded(c)
      BY RefusalWords
    <3> HIDE DEF w
    <3>3. /\ reply' \in [Call -> Values \cup Outcomes \cup Codes \cup {Untold}]
          /\ reply'[c] = w
          /\ \A d \in Call \ {c} : reply'[d] = reply[d]
      BY <1>0, <3>1, <3>2 DEF TypeOK, Outcomes, Codes
    <3>4. w \in {"forbidden", "not permitted"} => said = "refuses"
      BY <2>5, <3>2 DEF Said
    <3>5. CallInv(c)'
      <4>1. at'[c] = "reply" /\ reply'[c] = w
        BY <3>1, <3>3
      <4>2. ruling'[c][2] = said
        BY <2>3
      <4>3. w \in {"not permitted", "unavailable offer", "forbidden", "unavailable"}
        BY <3>2
      <4>4. w \notin Values \cup {"invalid"}
        BY <4>3 DEF Values
      <4>5. w \in {"unavailable", "unavailable offer"} =>
              said = "fails" \/ CallEnded(c)'
        BY <1>6, <3>2
      <4>6. OpOf[c] = "offer" => w \in Outcomes
        BY <3>2 DEF Outcomes
      <4>7. OpOf[c] # "offer" => w \in Codes
        BY <3>2 DEF Codes
      <4> QED BY <3>4, <4>1, <4>2, <4>4, <4>5, <4>6, <4>7 DEF CallInv
    <3>6. TypeOK'
      BY <1>0, <1>1, <1>4, <2>3, <3>3 DEF TypeOK, hostVars, serveVars
    <3> QED BY <1>1, <1>4, <1>5, <2>3, <3>3, <3>5, <3>6, OthersAlone
            DEF hostVars, serveVars
  <2> QED BY <2>4, <2>5
<1>10. CASE Answer(c)
  <2>1. PICK w \in {"offered", "invalid", "answered"} :
          /\ Tell(c, w)
          /\ w = "answered" <=> OpOf[c] # "offer"
    BY <1>10 DEF Answer
  <2>2. at[c] = "answer" /\ ruling' = ruling
    BY <1>10 DEF Answer
  <2>3. at'[c] = "reply" /\ reply' = [reply EXCEPT ![c] = w]
    BY <1>0, <2>1 DEF Tell, Step, TypeOK
  <2>4. /\ reply' \in [Call -> Values \cup Outcomes \cup Codes \cup {Untold}]
        /\ reply'[c] = w
        /\ \A d \in Call \ {c} : reply'[d] = reply[d]
    BY <1>0, <2>3 DEF TypeOK, Values, Outcomes
  <2>5. CallInv(c)'
    <3>1. w = "answered" \/ w \in {"offered", "invalid"}
      BY <2>1
    <3>2. taken => ruling[c] = <<ActionOf(OpOf[c]), "permits">>
      BY <1>0, <2>2 DEF CallInv
    <3> QED BY <1>1, <2>1, <2>2, <2>3, <2>4, <3>1, <3>2
            DEF CallInv, Untold, Values, Outcomes, Codes, serveVars
  <2>6. TypeOK'
    BY <1>0, <1>1, <1>4, <2>2, <2>4 DEF TypeOK, hostVars, serveVars
  <2> QED BY <1>1, <1>4, <1>5, <2>2, <2>4, <2>5, <2>6, OthersAlone
          DEF hostVars, serveVars
<1> QED BY <1>7, <1>8, <1>9, <1>10 DEF WorkerStep

LEMMA NextInv == IInv /\ [Next]_vars => IInv'
<1> SUFFICES ASSUME IInv, [Next]_vars PROVE IInv'
  OBVIOUS
<1>1. CASE UNCHANGED vars
  <2>1. TypeOK' /\ HostInv'
    BY <1>1 DEF IInv, TypeOK, HostInv, Workers, vars, hostVars, serveVars, callVars
  <2>2. \A c \in Call : CallInv(c)'
    BY <1>1, CallsLeftAlone DEF vars, hostVars, serveVars, callVars
  <2> QED BY <2>1, <2>2 DEF IInv
<1>2. ASSUME NEW s \in Server, Accept(s) PROVE IInv'
  BY <1>2, AcceptStep
<1>3. ASSUME NEW c \in Call, Overdue(c) \/ WorkerStep(c) PROVE IInv'
  BY <1>3, OverdueStep, WorkerKeeps
<1> QED BY <1>1, <1>2, <1>3, HostStep DEF Next

-----------------------------------------------------------------------------
(* The theorems *)

\* The inductive invariant of the framed service.
THEOREM HostInvariant == Spec => []IInv
BY InitInv, NextInv, PTL DEF Spec

\* Every variable of the service keeps its type.
THEOREM HostTyped == Spec => []TypeOK
<1>1. IInv => TypeOK
  BY DEF IInv
<1> QED BY <1>1, HostInvariant, PTL

\* A host with a policy asks its provider nothing the policy did not permit.
THEOREM PolicyAlwaysDecides == Spec => []PolicyDecides
<1>1. IInv => PolicyDecides
  <2> SUFFICES ASSUME IInv, policy, NEW c \in Call,
                      at[c] = "answer" \/ reply[c] \in Values \cup {"invalid"}
               PROVE  ruling[c] = <<ActionOf(OpOf[c]), "permits">>
    BY DEF PolicyDecides, ActionOf
  <2>1. CallInv(c)
    BY DEF IInv
  <2>2. at[c] # "waiting"
    BY <2>1 DEF CallInv, Untold, Values
  <2>3. taken
    BY <2>2 DEF IInv, HostInv
  <2> QED BY <2>1, <2>3 DEF CallInv
<1> QED BY <1>1, HostInvariant, PTL

\* The host is closed before it says so, and Serve returns after its workers.
THEOREM HostStopsInOrder == Spec => []StopsInOrder
<1>1. IInv => StopsInOrder
  BY DEF IInv, HostInv, StopsInOrder
<1> QED BY <1>1, HostInvariant, PTL

\* A refusal, a failed decision and an ended call are never taken for another.
THEOREM RefusalsAreToldApart == Spec => []RefusalsToldApart
<1>1. IInv => RefusalsToldApart
  BY DEF IInv, CallInv, RefusalsToldApart
<1> QED BY <1>1, HostInvariant, PTL
=============================================================================
