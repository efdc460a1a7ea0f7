-------------------------------- MODULE Walk --------------------------------
(***************************************************************************)
(* A loop over a sequence, first element to last, as the readers' loops    *)
(* over what a server listed.  Step is its body: what was made so far, and *)
(* the element, to what is made of both.                                   *)
(***************************************************************************)
EXTENDS Integers, Sequences, TLAPS, WellFoundedInduction

CONSTANT Step(_, _)

\* What is made of the first i elements, for each i.
Made(s, base) ==
  LET f[i \in 0..Len(s)] == IF i = 0 THEN base ELSE Step(f[i - 1], s[i])
  IN f

Over(s, base) == Made(s, base)[Len(s)]

-----------------------------------------------------------------------------

\* What holds before the loop and is kept by each turn of it holds throughout:
\* Kept is the set of the turns it holds after.
THEOREM Throughout ==
  ASSUME NEW n \in Nat, NEW Kept, 0 \in Kept,
         \A i \in 1..n : i - 1 \in Kept => i \in Kept
  PROVE  \A i \in 0..n : i \in Kept
<1> DEFINE Broken == {i \in 0..n : i \notin Kept}
<1> SUFFICES ASSUME Broken # {} PROVE FALSE
  OBVIOUS
<1> HIDE DEF Broken
<1>1. IsWellFoundedOn(OpToRel(<, Nat), Nat)
  BY NatLessThanWellFounded
<1>2. Broken \subseteq Nat
  BY DEF Broken
<1>3. PICK m \in Broken : \A k \in Broken : ~ (<<k, m>> \in OpToRel(<, Nat))
  BY <1>1, <1>2, WFMin
<1>4. \A k \in Broken : ~ (k < m)
  BY <1>2, <1>3 DEF OpToRel
<1>5. m \in 0..n /\ m \notin Kept
  BY DEF Broken
<1>6. m \in 1..n
  BY <1>5
<1>7. m - 1 \notin Broken
  BY <1>4, <1>6
<1>8. QED
  BY <1>5, <1>6, <1>7 DEF Broken

\* A loop makes what its turns make, one of the other.
THEOREM Turns ==
  ASSUME NEW s, NEW base, Len(s) \in Nat
  PROVE  Made(s, base) = [i \in 0..Len(s) |->
           IF i = 0 THEN base ELSE Step(Made(s, base)[i - 1], s[i])]
<1> DEFINE Fits(g, n) == g = [i \in 0..n |-> IF i = 0 THEN base ELSE Step(g[i - 1], s[i])]
           Reached    == {n \in 0..Len(s) : \E g : Fits(g, n)}
<1>1. 0 \in Reached
  <2>1. Fits([i \in 0..0 |-> base], 0)
    OBVIOUS
  <2> HIDE DEF Fits
  <2>2. QED
    BY <2>1
<1>2. ASSUME NEW n \in 1..Len(s), n - 1 \in Reached
      PROVE  n \in Reached
  <2>1. PICK g : Fits(g, n - 1)
    BY <1>2
  <2> DEFINE longer == [i \in 0..n |-> IF i = n THEN Step(g[n - 1], s[n]) ELSE g[i]]
  <2>2. Fits(longer, n)
    BY <2>1
  <2> HIDE DEF Fits, longer
  <2>3. QED
    BY <2>2
<1>3. \E g : Fits(g, Len(s))
  <2> HIDE DEF Reached
  <2>1. \A i \in 0..Len(s) : i \in Reached
    BY <1>1, <1>2, Throughout
  <2>2. Len(s) \in Reached
    BY <2>1
  <2> HIDE DEF Fits
  <2>3. QED
    BY <2>2 DEF Reached
<1>4. QED
  BY <1>3 DEF Made
=============================================================================
