---------------------------- MODULE ModelContext ----------------------------
(***************************************************************************)
(* What a server reports of a model's window: the most the model can take  *)
(* and what the server will use.  0 is a length not known.                 *)
(***************************************************************************)
EXTENDS Integers

modelContext(maximum, effective) == [maximum |-> maximum, effective |-> effective]

\* An effective length counts when it is positive and within a known maximum.
validEffective(effective, maximum) ==
  IF effective <= 0 \/ (maximum > 0 /\ effective > maximum) THEN 0 ELSE effective

bound(c) ==
  IF validEffective(c.effective, c.maximum) > 0
  THEN validEffective(c.effective, c.maximum) ELSE c.maximum

\* Mutant: an unknown bound is smaller than any.
smallerBoundOrNone(c, prior) == bound(c) < bound(prior)

smallerBound(c, prior) ==
  bound(c) > 0 /\ (bound(prior) = 0 \/ bound(c) < bound(prior))
=============================================================================
