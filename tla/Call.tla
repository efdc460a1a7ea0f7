-------------------------------- MODULE Call --------------------------------
(***************************************************************************)
(* What router@1 promises whoever makes one call: the service serves it at *)
(* most once, and what the caller hears is what that serving came to, or   *)
(* that the call failed.  A caller that heard of a failure cannot tell     *)
(* whether it was served, and it may be served after that.                 *)
(***************************************************************************)
CONSTANTS
  Calls,        \* the calls that can be made
  Outcome(_),   \* call -> what serving it may come to
  NoCall, Unserved, Unheard, Failed

VARIABLES
  asked,    \* the call made
  served,   \* what serving it came to
  heard     \* what the caller heard

vars == <<asked, served, heard>>

Init == asked = NoCall /\ served = Unserved /\ heard = Unheard

Ask ==
  /\ asked = NoCall
  /\ asked' \in Calls
  /\ UNCHANGED <<served, heard>>

\* A caller may find at once that its call cannot be made.
AskInVain ==
  /\ asked = NoCall
  /\ asked' \in Calls
  /\ heard' = Failed
  /\ UNCHANGED served

Serve ==
  /\ asked # NoCall
  /\ served = Unserved
  /\ served' \in Outcome(asked)
  /\ UNCHANGED <<asked, heard>>

Hear ==
  /\ served # Unserved
  /\ heard = Unheard
  /\ heard' = served
  /\ UNCHANGED <<asked, served>>

Fail ==
  /\ asked # NoCall
  /\ heard = Unheard
  /\ heard' = Failed
  /\ UNCHANGED <<asked, served>>

Next == Ask \/ AskInVain \/ Serve \/ Hear \/ Fail

Spec == Init /\ [][Next]_vars
=============================================================================
