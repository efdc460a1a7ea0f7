---------------------------- MODULE OfferProofs ----------------------------
(***************************************************************************)
(* The offer contract, for any hosts, snapshot, request and remotes.       *)
(*                                                                         *)
(* Folded characterises one family's fold by the sets of aliases and of    *)
(* remote offers folded so far, without saying in which order they came;   *)
(* each step adds one member to one of the sets, and at the end the sets   *)
(* are the contract's.                                                     *)
(***************************************************************************)
EXTENDS Offer, TLAPS

-----------------------------------------------------------------------------
(* One bound at a time *)

\* f holds the tightest of the bounds B.
Tightest(f, B) ==
  /\ f.source = "none" <=> B = {}
  /\ B # {} => /\ <<f.bound, f.source>> \in B
               /\ \A b \in B : AsTight(<<f.bound, f.source>>, b)

LEMMA RankIsInt == \A s : SourceRank(s) \in 0..2
BY DEF SourceRank

\* Counting one more bound keeps the tightest and touches nothing else.
LEMMA CountKeepsTightest ==
  ASSUME NEW f \in Fold, NEW B \in SUBSET (Nat \X Source), Tightest(f, B),
         NEW bound \in Nat, NEW source \in Source
  PROVE  /\ Count(f, bound, source) \in Fold
         /\ Tightest(Count(f, bound, source), B \cup {<<bound, source>>})
         /\ Count(f, bound, source).open = f.open
         /\ Count(f, bound, source).names = f.names
         /\ Count(f, bound, source).servers = f.servers
         /\ Count(f, bound, source).unknown = f.unknown
         /\ Count(f, bound, source).windowUnknown = f.windowUnknown
<1> DEFINE g == Count(f, bound, source)
           new == <<bound, source>>
<1>1. /\ g \in Fold
      /\ g.open = f.open /\ g.names = f.names /\ g.servers = f.servers
      /\ g.unknown = f.unknown /\ g.windowUnknown = f.windowUnknown
  BY DEF Count, Fold
<1>2. "none" \notin Source
  BY DEF Source
<1>3. /\ Tighter(f, bound, source) => g.bound = bound /\ g.source = source
      /\ ~ Tighter(f, bound, source) => g.bound = f.bound /\ g.source = f.source
  BY DEF Count, Fold
<1> HIDE DEF g
<1>4. new[1] = bound /\ new[2] = source
  OBVIOUS
<1>5. SourceRank(source) \in Int /\ \A s : SourceRank(s) \in Int
  BY RankIsInt
<1>6. AsTight(new, new)
  BY <1>4, <1>5 DEF AsTight
<1>7. Tightest(g, B \cup {new})
  <2>1. CASE f.source = "none"
    <3>1. B = {} /\ Tighter(f, bound, source)
      BY <2>1 DEF Tightest, Tighter
    <3> QED BY <1>2, <1>3, <1>6, <3>1 DEF Tightest
  <2>2. CASE f.source # "none"
    <3> DEFINE old == <<f.bound, f.source>>
    <3>1. /\ B # {} /\ old \in B /\ \A b \in B : AsTight(old, b)
          /\ f.bound \in Nat /\ f.source \in Source
      BY <2>2 DEF Tightest, Fold
    <3>2. old[1] = f.bound /\ old[2] = f.source
      OBVIOUS
    <3>3. CASE Tighter(f, bound, source)
      <4>1. \/ bound < f.bound
            \/ bound = f.bound /\ SourceRank(source) < SourceRank(f.source)
        BY <2>2, <3>3 DEF Tighter
      <4>2. ASSUME NEW b \in B PROVE AsTight(new, b)
        <5>1. b[1] \in Nat
          OBVIOUS
        <5>2. \/ f.bound < b[1]
              \/ f.bound = b[1] /\ SourceRank(f.source) <= SourceRank(b[2])
          BY <3>1, <3>2 DEF AsTight
        <5> QED BY <1>4, <1>5, <3>1, <4>1, <5>1, <5>2 DEF AsTight
      <4>3. g.bound = bound /\ g.source = source
        BY <1>3, <3>3
      <4> QED BY <1>2, <1>6, <4>2, <4>3 DEF Tightest
    <3>4. CASE ~ Tighter(f, bound, source)
      <4>1. \/ f.bound < bound
            \/ f.bound = bound /\ SourceRank(f.source) <= SourceRank(source)
        BY <1>5, <3>1, <3>4 DEF Tighter
      <4>2. AsTight(old, new)
        BY <1>4, <3>2, <4>1 DEF AsTight
      <4>3. g.bound = f.bound /\ g.source = f.source
        BY <1>3, <3>4
      <4> QED BY <1>2, <3>1, <4>2, <4>3 DEF Tightest
    <3> QED BY <3>3, <3>4
  <2> QED BY <2>1, <2>2
<1> QED BY <1>1, <1>7 DEF g

-----------------------------------------------------------------------------
(* One family's fold, from what was folded into it *)

NoWindow(ah) == ah[2] \in AtLoad /\ ~ HasEffective(ah[1])

\* The bounds counted of the aliases A and the remote offers O.
BoundsOf(A, O) ==
  {BoundOf(ah[1]) : ah \in {x \in A : Windowed /\ ~ NoWindow(x)}} \cup
  {<<ho[2].context, ho[2].source>> : ho \in {x \in O : x[2].source \in Source}}

\* f is the fold of A and O.
Folded(f, A, O) ==
  /\ f \in Fold
  /\ f.open <=> A \cup O # {}
  /\ \A x \in Name : x \in f.names <=>
       \/ \E ah \in A : x = ah[1].name
       \/ \E ho \in O : x \in ho[2].names
  /\ \A p \in ServerName \X (Domain \cup {Itself}) : p \in f.servers <=>
       \/ \E ah \in A : p = <<NameOf[ah[2]], Itself>>
       \/ \E ho \in O : p[1] = NameOf[ho[1]] /\ p[2] \in ho[2].servers
  /\ f.windowUnknown <=>
       \/ Windowed /\ \E ah \in A : NoWindow(ah)
       \/ \E ho \in O : ho[2].source = "unknown"
  /\ Windowed => \A ah \in A : NoWindow(ah) =>
       <<NameOf[ah[2]], ah[1].name>> \in f.unknown
  /\ Tightest(f, BoundsOf(A, O))

LEMMA ProfileDefault ==
  ASSUME request \in Requests
  PROVE  Fallback \in Nat /\ request.profile \in Profile /\ request.reserve \in Int
BY OfferAssumption DEF Request, Fallback

\* The bound the code takes of an alias is the contract's.
LEMMA AliasBoundIs ==
  ASSUME request \in Requests, NEW a \in Alias, NEW h \in Host, Windowed
  PROVE  LET b == AliasBound(a, h, Fallback)
         IN /\ b.source = "unknown" <=> NoWindow(<<a, h>>)
            /\ ~ NoWindow(<<a, h>>) =>
                 /\ <<b.bound, b.source>> = BoundOf(a)
                 /\ b.bound \in Nat /\ b.source \in Source
<1>1. a.effective \in Nat /\ a.maximum \in Nat
  BY DEF Alias
<1>2. /\ HasEffective(a) <=> ValidEffective(a.effective, a.maximum) > 0
      /\ HasEffective(a) => ValidEffective(a.effective, a.maximum) = a.effective
      /\ ValidEffective(a.effective, a.maximum) \in Nat
  BY <1>1 DEF HasEffective, ValidEffective
<1>3. NoWindow(<<a, h>>) <=> h \in AtLoad /\ ~ HasEffective(a)
  BY DEF NoWindow
<1>4. Fallback \in Nat /\ DefaultContext[request.profile] = Fallback
  BY ProfileDefault DEF Fallback
<1> DEFINE e == ValidEffective(a.effective, a.maximum)
<1>5. CASE e > 0
  <2>1. AliasBound(a, h, Fallback) = [bound |-> e, source |-> "effective"]
    BY <1>5, <1>2 DEF AliasBound
  <2> HIDE DEF e
  <2> QED BY <1>1, <1>2, <1>3, <1>5, <2>1 DEF BoundOf, Source, e
<1>6. CASE e = 0 /\ h \in AtLoad
  <2>1. AliasBound(a, h, Fallback) = [bound |-> 0, source |-> "unknown"]
    BY <1>6 DEF AliasBound
  <2> QED BY <1>2, <1>3, <1>6, <2>1
<1>7. CASE e = 0 /\ h \notin AtLoad /\ a.maximum > 0
  <2>1. AliasBound(a, h, Fallback) = [bound |-> a.maximum, source |-> "maximum"]
    BY <1>7 DEF AliasBound
  <2> QED BY <1>1, <1>2, <1>3, <1>7, <2>1 DEF BoundOf, Source
<1>8. CASE e = 0 /\ h \notin AtLoad /\ ~ a.maximum > 0
  <2>1. AliasBound(a, h, Fallback) = [bound |-> Fallback, source |-> "default"]
    BY <1>8 DEF AliasBound
  <2> QED BY <1>2, <1>3, <1>4, <1>8, <2>1 DEF BoundOf, Source
<1> QED BY <1>1, <1>2, <1>5, <1>6, <1>7, <1>8

LEMMA BoundsTyped ==
  ASSUME request \in Requests, NEW A \in SUBSET (Alias \X Host),
         NEW O \in SUBSET (Host \X RemoteOffer)
  PROVE  BoundsOf(A, O) \in SUBSET (Nat \X Source)
<1>1. ASSUME NEW ah \in A PROVE BoundOf(ah[1]) \in Nat \X Source
  <2>1. ah[1] \in Alias
    OBVIOUS
  <2>2. ah[1].effective \in Nat /\ ah[1].maximum \in Nat
    BY <2>1 DEF Alias
  <2> QED BY <2>2, ProfileDefault DEF BoundOf, Source, Fallback
<1>2. ASSUME NEW ho \in O, ho[2].source \in Source
      PROVE  <<ho[2].context, ho[2].source>> \in Nat \X Source
  <2>1. ho[2] \in RemoteOffer
    OBVIOUS
  <2> QED BY <1>2, <2>1 DEF RemoteOffer
<1> QED BY <1>1, <1>2 DEF BoundsOf

\* What a fold may be extended with.
Extras(names, servers, unknown) ==
  /\ names \in SUBSET Name
  /\ servers \in SUBSET (ServerName \X (Domain \cup {Itself}))
  /\ unknown \in SUBSET (ServerName \X Name)

\* What Extend changes of a fold, and what it leaves.
Extended(g, f, names, servers, unknown) ==
  /\ g \in Fold
  /\ g.open = TRUE
  /\ g.names = f.names \cup names
  /\ g.servers = f.servers \cup servers
  /\ g.unknown = f.unknown \cup unknown
  /\ g.windowUnknown = f.windowUnknown
  /\ g.bound = f.bound /\ g.source = f.source

LEMMA ExtendIs ==
  ASSUME NEW f \in Fold, NEW names, NEW servers, NEW unknown,
         Extras(names, servers, unknown)
  PROVE  Extended(Extend(f, names, servers, unknown), f, names, servers, unknown)
<1> DEFINE g == Extend(f, names, servers, unknown)
<1>0. g = Extend(f, names, servers, unknown)
  OBVIOUS
<1> HIDE DEF g
<1>1. /\ f.names \cup names \in SUBSET Name
      /\ f.servers \cup servers \in SUBSET (ServerName \X (Domain \cup {Itself}))
      /\ f.unknown \cup unknown \in SUBSET (ServerName \X Name)
  BY DEF Fold, Extras
<1>2. /\ g.open = TRUE
      /\ g.names = f.names \cup names
      /\ g.servers = f.servers \cup servers
      /\ g.unknown = f.unknown \cup unknown
      /\ g.windowUnknown = f.windowUnknown
      /\ g.bound = f.bound /\ g.source = f.source
  BY <1>0 DEF Extend, Fold
<1>3. g = [open |-> g.open, names |-> g.names, servers |-> g.servers,
           unknown |-> g.unknown, windowUnknown |-> g.windowUnknown,
           bound |-> g.bound, source |-> g.source]
  BY <1>0 DEF Extend, Fold
<1>4. f.windowUnknown \in BOOLEAN /\ f.bound \in Nat /\ f.source \in Source \cup {"none"}
  BY DEF Fold
<1>5. g \in Fold
  BY <1>1, <1>2, <1>3, <1>4 DEF Fold
<1> QED BY <1>2, <1>5 DEF Extended, g

\* What LoseWindow changes.
LEMMA LoseWindowIs ==
  ASSUME NEW f \in Fold, NEW g, g = LoseWindow(f)
  PROVE  /\ g \in Fold /\ g.windowUnknown = TRUE
         /\ g.open = f.open /\ g.names = f.names /\ g.servers = f.servers
         /\ g.unknown = f.unknown /\ g.bound = f.bound /\ g.source = f.source
BY DEF LoseWindow, Fold

\* Folding in a remote's offer.
LEMMA FoldsOffer ==
  ASSUME request \in Requests, NEW A \in SUBSET (Alias \X Host),
         NEW O \in SUBSET (Host \X RemoteOffer), NEW f, Folded(f, A, O),
         NEW h \in Host, NEW o \in RemoteOffer
  PROVE  Folded(WithOffer(f, h, o), A, O \cup {<<h, o>>})
<1> DEFINE g == Extend(f, o.names, {NameOf[h]} \X o.servers,
                       {NameOf[h]} \X o.unknown)
           w == WithOffer(f, h, o)
           ho1 == <<h, o>>
           P == O \cup {ho1}
<1>1. /\ o.names \in SUBSET Name /\ o.servers \subseteq Domain
      /\ o.unknown \subseteq Name /\ o.context \in Nat
      /\ NameOf[h] \in ServerName
  BY OfferAssumption DEF RemoteOffer
<1>2. f \in Fold
  BY DEF Folded
<1>3. /\ g \in Fold /\ g.open = TRUE
      /\ g.names = f.names \cup o.names
      /\ g.servers = f.servers \cup ({NameOf[h]} \X o.servers)
      /\ g.unknown = f.unknown \cup ({NameOf[h]} \X o.unknown)
      /\ g.windowUnknown = f.windowUnknown
      /\ g.bound = f.bound /\ g.source = f.source
  <2>1. /\ {NameOf[h]} \X o.servers \in SUBSET (ServerName \X (Domain \cup {Itself}))
        /\ {NameOf[h]} \X o.unknown \in SUBSET (ServerName \X Name)
    BY <1>1
  <2> DEFINE N == o.names
             S == {NameOf[h]} \X o.servers
             U == {NameOf[h]} \X o.unknown
  <2>2. g = Extend(f, N, S, U)
    OBVIOUS
  <2>3. Extras(N, S, U)
    BY <1>1, <2>1 DEF Extras
  <2> HIDE DEF g, N, S, U
  <2>4. Extended(g, f, N, S, U)
    BY <1>2, <2>2, <2>3, ExtendIs
  <2> QED BY <2>4 DEF Extended, N, S, U
<1>5. BoundsOf(A, O) \in SUBSET (Nat \X Source)
  BY BoundsTyped
<1>6. Tightest(g, BoundsOf(A, O))
  BY <1>3 DEF Folded, Tightest
<1>7. /\ o.source \in Source => w = Count(g, o.context, o.source)
      /\ o.source = "unknown" => w = LoseWindow(g)
      /\ o.source = "none" => w = g
      /\ o.source \in Source \cup {"unknown", "none"}
  BY DEF WithOffer, RemoteOffer, Source
<1> HIDE DEF g, w
<1>8. ho1[1] = h /\ ho1[2] = o /\ \A ho : ho \in P <=> ho \in O \/ ho = ho1
  OBVIOUS
<1> HIDE DEF P, ho1
<1>9. BoundsOf(A, P) = IF o.source \in Source
                       THEN BoundsOf(A, O) \cup {<<o.context, o.source>>}
                       ELSE BoundsOf(A, O)
  <2> DEFINE Bnd(Q) == {<<ho[2].context, ho[2].source>> :
                          ho \in {x \in Q : x[2].source \in Source}}
  <2>1. Bnd(P) = IF o.source \in Source
                 THEN Bnd(O) \cup {<<o.context, o.source>>} ELSE Bnd(O)
    <3>1. CASE o.source \in Source
      <4>1. {x \in P : x[2].source \in Source} =
              {x \in O : x[2].source \in Source} \cup {ho1}
        BY <1>8, <3>1
      <4> QED BY <1>8, <3>1, <4>1
    <3>2. CASE o.source \notin Source
      <4>1. {x \in P : x[2].source \in Source} = {x \in O : x[2].source \in Source}
        BY <1>8, <3>2
      <4> QED BY <3>2, <4>1
    <3> QED BY <3>1, <3>2
  <2>2. \A Q : BoundsOf(A, Q) =
          {BoundOf(ah[1]) : ah \in {x \in A : Windowed /\ ~ NoWindow(x)}} \cup Bnd(Q)
    BY DEF BoundsOf
  <2> HIDE DEF Bnd
  <2> QED BY <2>1, <2>2
<1>10. /\ w \in Fold /\ Tightest(w, BoundsOf(A, P))
       /\ w.open = g.open /\ w.names = g.names /\ w.servers = g.servers
       /\ w.unknown = g.unknown
       /\ w.windowUnknown = IF o.source = "unknown" THEN TRUE ELSE g.windowUnknown
  <2>0. "unknown" \notin Source /\ "none" \notin Source
    BY DEF Source
  <2>1. CASE o.source \in Source
    <3>1. w = Count(g, o.context, o.source)
          /\ BoundsOf(A, P) = BoundsOf(A, O) \cup {<<o.context, o.source>>}
      BY <1>7, <1>9, <2>1
    <3> DEFINE bound == o.context
               source == o.source
               C == BoundsOf(A, O)
    <3>2. /\ w = Count(g, bound, source) /\ BoundsOf(A, P) = C \cup {<<bound, source>>}
          /\ bound \in Nat /\ source \in Source
          /\ g \in Fold /\ C \in SUBSET (Nat \X Source) /\ Tightest(g, C)
      BY <1>1, <1>3, <1>5, <1>6, <2>1, <3>1
    <3>3. o.source # "unknown"
      BY <2>0, <2>1
    <3> HIDE DEF bound, source, C
    <3> QED BY <3>2, <3>3, CountKeepsTightest
  <2>2. CASE o.source = "unknown"
    <3>1. w = LoseWindow(g) /\ BoundsOf(A, P) = BoundsOf(A, O)
      BY <1>7, <1>9, <2>0, <2>2
    <3>2. /\ w \in Fold /\ w.windowUnknown = TRUE
          /\ w.open = g.open /\ w.names = g.names /\ w.servers = g.servers
          /\ w.unknown = g.unknown /\ w.bound = g.bound /\ w.source = g.source
      BY <1>3, <3>1, LoseWindowIs
    <3> QED BY <1>6, <2>2, <3>1, <3>2 DEF Tightest
  <2>3. CASE o.source = "none"
    BY <1>3, <1>6, <1>7, <1>9, <2>0, <2>3
  <2> QED BY <1>7, <2>1, <2>2, <2>3
<1>11. ASSUME NEW x \in Name
       PROVE  x \in w.names <=> \/ \E ah \in A : x = ah[1].name
                                \/ \E ho \in P : x \in ho[2].names
  <2>1. (\E ho \in P : x \in ho[2].names) <=>
          (\E ho \in O : x \in ho[2].names) \/ x \in o.names
    BY <1>8
  <2>2. x \in f.names <=> \/ \E ah \in A : x = ah[1].name
                          \/ \E ho \in O : x \in ho[2].names
    BY DEF Folded
  <2> QED BY <1>3, <1>10, <2>1, <2>2
<1>12. ASSUME NEW p \in ServerName \X (Domain \cup {Itself})
       PROVE  p \in w.servers <=>
                \/ \E ah \in A : p = <<NameOf[ah[2]], Itself>>
                \/ \E ho \in P : p[1] = NameOf[ho[1]] /\ p[2] \in ho[2].servers
  <2>1. (\E ho \in P : p[1] = NameOf[ho[1]] /\ p[2] \in ho[2].servers) <=>
          \/ \E ho \in O : p[1] = NameOf[ho[1]] /\ p[2] \in ho[2].servers
          \/ p[1] = NameOf[h] /\ p[2] \in o.servers
    BY <1>8
  <2>2. p \in f.servers <=>
          \/ \E ah \in A : p = <<NameOf[ah[2]], Itself>>
          \/ \E ho \in O : p[1] = NameOf[ho[1]] /\ p[2] \in ho[2].servers
    BY DEF Folded
  <2>3. p = <<p[1], p[2]>>
    OBVIOUS
  <2>4. p \in {NameOf[h]} \X o.servers <=> p[1] = NameOf[h] /\ p[2] \in o.servers
    BY <2>3
  <2> QED BY <1>3, <1>10, <2>1, <2>2, <2>4
<1>13. w.windowUnknown <=>
         \/ Windowed /\ \E ah \in A : NoWindow(ah)
         \/ \E ho \in P : ho[2].source = "unknown"
  <2>1. (\E ho \in P : ho[2].source = "unknown") <=>
          (\E ho \in O : ho[2].source = "unknown") \/ o.source = "unknown"
    BY <1>8
  <2>2. f.windowUnknown <=> \/ Windowed /\ \E ah \in A : NoWindow(ah)
                            \/ \E ho \in O : ho[2].source = "unknown"
    BY DEF Folded
  <2> QED BY <1>3, <1>10, <2>1, <2>2
<1>14. Windowed => \A ah \in A : NoWindow(ah) =>
         <<NameOf[ah[2]], ah[1].name>> \in w.unknown
  BY <1>3, <1>10 DEF Folded
<1>15. w.open <=> A \cup P # {}
  BY <1>3, <1>8, <1>10
<1> QED BY <1>10, <1>11, <1>12, <1>13, <1>14, <1>15 DEF Folded, w, P, ho1

\* Folding in an alias.
LEMMA FoldsAlias ==
  ASSUME request \in Requests, NEW A \in SUBSET (Alias \X Host),
         NEW O \in SUBSET (Host \X RemoteOffer), NEW f, Folded(f, A, O),
         NEW h \in Host, NEW a \in Alias
  PROVE  Folded(WithAlias(f, a, h), A \cup {<<a, h>>}, O)
<1> DEFINE b == AliasBound(a, h, Fallback)
           ah1 == <<a, h>>
           S == {<<NameOf[h], Itself>>}
           U == {<<NameOf[h], a.name>>}
           N == {a.name}
           none == {}
           g == Extend(f, N, S, none)
           u == Extend(g, none, none, U)
           w == WithAlias(f, a, h)
           B == A \cup {ah1}
<1>1. a.name \in Name /\ NameOf[h] \in ServerName
  BY OfferAssumption DEF Alias
<1>2. f \in Fold
  BY DEF Folded
<1>3. w = IF ~ Windowed THEN g
          ELSE IF b.source = "unknown" THEN LoseWindow(u)
          ELSE Count(g, b.bound, b.source)
  BY DEF WithAlias
<1>4. Windowed => /\ b.source = "unknown" <=> NoWindow(ah1)
                  /\ ~ NoWindow(ah1) =>
                       /\ <<b.bound, b.source>> = BoundOf(a)
                       /\ b.bound \in Nat /\ b.source \in Source
  BY AliasBoundIs
<1>5. Extras(N, S, none) /\ Extras(none, none, U) /\ \A T : T \cup none = T
  BY <1>1 DEF Extras
<1> HIDE DEF b, N, S, U, none, w
<1>6. /\ g \in Fold /\ g.open = TRUE
      /\ g.names = f.names \cup N /\ g.servers = f.servers \cup S
      /\ g.unknown = f.unknown /\ g.windowUnknown = f.windowUnknown
      /\ g.bound = f.bound /\ g.source = f.source
  <2>1. g = Extend(f, N, S, none)
    OBVIOUS
  <2> HIDE DEF g
  <2>2. Extended(g, f, N, S, none)
    BY <1>2, <1>5, <2>1, ExtendIs
  <2> QED BY <1>5, <2>2 DEF Extended
<1> HIDE DEF g
<1>7. LET v == LoseWindow(u)
      IN /\ v \in Fold /\ v.open = TRUE
         /\ v.names = g.names /\ v.servers = g.servers
         /\ v.unknown = g.unknown \cup U /\ v.windowUnknown = TRUE
         /\ v.bound = g.bound /\ v.source = g.source
  <2>1. u = Extend(g, none, none, U)
    OBVIOUS
  <2> DEFINE v == LoseWindow(u)
  <2>2. v = LoseWindow(u)
    OBVIOUS
  <2> HIDE DEF u, v
  <2>5. Extended(u, g, none, none, U)
    BY <1>5, <1>6, <2>1, ExtendIs
  <2>3. /\ u \in Fold /\ u.open = TRUE
        /\ u.names = g.names /\ u.servers = g.servers
        /\ u.unknown = g.unknown \cup U
        /\ u.bound = g.bound /\ u.source = g.source
    BY <1>5, <2>5 DEF Extended
  <2>4. /\ v \in Fold /\ v.open = TRUE
        /\ v.names = g.names /\ v.servers = g.servers
        /\ v.unknown = g.unknown \cup U /\ v.windowUnknown = TRUE
        /\ v.bound = g.bound /\ v.source = g.source
    BY <2>2, <2>3, LoseWindowIs
  <2> QED BY <2>4 DEF v
<1> HIDE DEF u
<1>8. BoundsOf(A, O) \in SUBSET (Nat \X Source) /\ Tightest(g, BoundsOf(A, O))
  BY <1>6, BoundsTyped DEF Folded, Tightest
<1>9. ah1[1] = a /\ ah1[2] = h /\ \A ah : ah \in B <=> ah \in A \/ ah = ah1
  OBVIOUS
<1> HIDE DEF B, ah1
<1>10. BoundsOf(B, O) = IF Windowed /\ ~ NoWindow(ah1)
                        THEN BoundsOf(A, O) \cup {BoundOf(a)} ELSE BoundsOf(A, O)
  <2> DEFINE Bnd(C) == {BoundOf(ah[1]) : ah \in {x \in C : Windowed /\ ~ NoWindow(x)}}
  <2>1. Bnd(B) = IF Windowed /\ ~ NoWindow(ah1)
                 THEN Bnd(A) \cup {BoundOf(a)} ELSE Bnd(A)
    <3>1. CASE Windowed /\ ~ NoWindow(ah1)
      <4>1. {x \in B : Windowed /\ ~ NoWindow(x)} =
              {x \in A : Windowed /\ ~ NoWindow(x)} \cup {ah1}
        BY <1>9, <3>1
      <4> QED BY <1>9, <3>1, <4>1
    <3>2. CASE ~ (Windowed /\ ~ NoWindow(ah1))
      <4>1. {x \in B : Windowed /\ ~ NoWindow(x)} =
              {x \in A : Windowed /\ ~ NoWindow(x)}
        BY <1>9, <3>2
      <4> QED BY <3>2, <4>1
    <3> QED BY <3>1, <3>2
  <2>2. \A C : BoundsOf(C, O) = Bnd(C) \cup
          {<<ho[2].context, ho[2].source>> : ho \in {x \in O : x[2].source \in Source}}
    BY DEF BoundsOf
  <2> HIDE DEF Bnd
  <2> QED BY <2>1, <2>2
<1>11. /\ w \in Fold /\ Tightest(w, BoundsOf(B, O)) /\ w.open = TRUE
       /\ w.names = g.names /\ w.servers = g.servers
       /\ w.windowUnknown = IF Windowed /\ NoWindow(ah1) THEN TRUE
                            ELSE g.windowUnknown
       /\ w.unknown = IF Windowed /\ NoWindow(ah1) THEN g.unknown \cup U
                      ELSE g.unknown
  <2>1. CASE ~ Windowed
    BY <1>3, <1>6, <1>8, <1>10, <2>1
  <2>2. CASE Windowed /\ NoWindow(ah1)
    <3> DEFINE v == LoseWindow(u)
    <3>1. w = v /\ BoundsOf(B, O) = BoundsOf(A, O)
      BY <1>3, <1>4, <1>10, <2>2
    <3>2. /\ v \in Fold /\ v.open = TRUE
          /\ v.names = g.names /\ v.servers = g.servers
          /\ v.unknown = g.unknown \cup U /\ v.windowUnknown = TRUE
          /\ v.bound = g.bound /\ v.source = g.source
      BY <1>7
    <3> HIDE DEF v
    <3> QED BY <1>8, <2>2, <3>1, <3>2 DEF Tightest
  <2>3. CASE Windowed /\ ~ NoWindow(ah1)
    <3> DEFINE bound == b.bound
               source == b.source
               C == BoundsOf(A, O)
    <3>1. /\ w = Count(g, bound, source)
          /\ bound \in Nat /\ source \in Source
          /\ BoundsOf(B, O) = C \cup {<<bound, source>>}
          /\ g \in Fold /\ C \in SUBSET (Nat \X Source) /\ Tightest(g, C)
      BY <1>3, <1>4, <1>6, <1>8, <1>10, <2>3
    <3> HIDE DEF bound, source, C
    <3> QED BY <1>6, <2>3, <3>1, CountKeepsTightest
  <2> QED BY <2>1, <2>2, <2>3
<1>12. ASSUME NEW x \in Name
       PROVE  x \in w.names <=> \/ \E ah \in B : x = ah[1].name
                                \/ \E ho \in O : x \in ho[2].names
  <2>1. (\E ah \in B : x = ah[1].name) <=> (\E ah \in A : x = ah[1].name) \/ x = a.name
    BY <1>9
  <2>2. x \in f.names <=> \/ \E ah \in A : x = ah[1].name
                          \/ \E ho \in O : x \in ho[2].names
    BY DEF Folded
  <2> QED BY <1>6, <1>11, <2>1, <2>2 DEF N
<1>13. ASSUME NEW p \in ServerName \X (Domain \cup {Itself})
       PROVE  p \in w.servers <=>
                \/ \E ah \in B : p = <<NameOf[ah[2]], Itself>>
                \/ \E ho \in O : p[1] = NameOf[ho[1]] /\ p[2] \in ho[2].servers
  <2>1. (\E ah \in B : p = <<NameOf[ah[2]], Itself>>) <=>
          (\E ah \in A : p = <<NameOf[ah[2]], Itself>>) \/ p = <<NameOf[h], Itself>>
    BY <1>9
  <2>2. p \in f.servers <=>
          \/ \E ah \in A : p = <<NameOf[ah[2]], Itself>>
          \/ \E ho \in O : p[1] = NameOf[ho[1]] /\ p[2] \in ho[2].servers
    BY DEF Folded
  <2> QED BY <1>6, <1>11, <2>1, <2>2 DEF S
<1>14. w.windowUnknown <=>
         \/ Windowed /\ \E ah \in B : NoWindow(ah)
         \/ \E ho \in O : ho[2].source = "unknown"
  <2>1. (\E ah \in B : NoWindow(ah)) <=> (\E ah \in A : NoWindow(ah)) \/ NoWindow(ah1)
    BY <1>9
  <2>2. f.windowUnknown <=> \/ Windowed /\ \E ah \in A : NoWindow(ah)
                            \/ \E ho \in O : ho[2].source = "unknown"
    BY DEF Folded
  <2> QED BY <1>6, <1>11, <2>1, <2>2
<1>15. Windowed => \A ah \in B : NoWindow(ah) =>
         <<NameOf[ah[2]], ah[1].name>> \in w.unknown
  <2> SUFFICES ASSUME Windowed, NEW ah \in B, NoWindow(ah)
               PROVE  <<NameOf[ah[2]], ah[1].name>> \in w.unknown
    OBVIOUS
  <2>1. CASE ah \in A
    BY <1>6, <1>11, <2>1 DEF Folded
  <2>2. CASE ah = ah1
    BY <1>6, <1>9, <1>11, <2>2 DEF U
  <2> QED BY <1>9, <2>1, <2>2
<1>16. w.open <=> B \cup O # {}
  BY <1>6, <1>9, <1>11
<1> QED BY <1>11, <1>12, <1>13, <1>14, <1>15, <1>16 DEF Folded, w, B, ah1

\* A fold of nothing.
LEMMA NothingFolded == Folded(NewFold, {}, {})
<1>1. NewFold \in Fold
  BY DEF NewFold, Fold, Source
<1>2. BoundsOf({}, {}) = {}
  BY DEF BoundsOf
<1> QED BY <1>1, <1>2 DEF Folded, Tightest, NewFold

-----------------------------------------------------------------------------
(* The inductive invariant *)

AliasesDone(f) == {ah \in CountedAliases(f) : ah[1] \notin todo}
OffersDone(f)  == RemoteOffers(f) \ offered

\* Before the request is looked at.
CheckInv ==
  /\ toAsk = {} /\ offered = {}
  /\ answers = [h \in Host |-> Unasked]
  /\ folds = [f \in Family |-> NewFold]
  /\ outcome = "none" /\ DOMAIN offers = {}

\* While the remotes and then the aliases are counted.
FoldInv ==
  /\ Valid
  /\ toAsk \subseteq Owed
  /\ \A h \in Host : answers[h] # Unasked <=> h \in Owed /\ h \notin toAsk
  /\ \A ho \in offered : /\ ho[1] \in Owed /\ answers[ho[1]].kind = "offered"
                         /\ ho[2] \in answers[ho[1]].offers
  /\ toAsk # {} \/ offered # {} => todo = aliases
  /\ \A f \in Family : Folded(folds[f], AliasesDone(f), OffersDone(f))
  /\ outcome = "none" /\ DOMAIN offers = {}

DoneInv == CountsEachOnce /\ ConservativeContext

IInv ==
  /\ TypeOK
  /\ stage = "check" => CheckInv
  /\ stage = "fold" => FoldInv
  /\ DoneInv

\* What the code counts by is what the contract counts by.
LEMMA AdmitsIsPlaced ==
  ASSUME Valid, NEW h
  PROVE  Admits(request.placement, h) <=> Placed(h)
BY DEF Valid, Placement, Admits, Placed

LEMMA CountsIs ==
  ASSUME Valid, NEW a \in aliases, NEW h \in hosts
  PROVE  Counts(a, h) <=> <<a, h>> \in CountedAliases(a.family)
BY AdmitsIsPlaced DEF Counts, CountedAliases, Answered, Serves

\* An alias has one host of its server's name.
LEMMA OneHost ==
  ASSUME TypeOK, NEW g \in hosts, NEW h \in hosts, NameOf[g] = NameOf[h]
  PROVE  g = h
BY OfferAssumption DEF TypeOK

LEMMA CountedTyped ==
  ASSUME TypeOK, NEW f
  PROVE  /\ CountedAliases(f) \in SUBSET (Alias \X Host)
         /\ RemoteOffers(f) \in SUBSET (Host \X RemoteOffer)
<1>1. aliases \subseteq Alias /\ hosts \subseteq Host
  BY OfferAssumption DEF TypeOK
<1>2. \A h \in Host : answers[h].offers \subseteq RemoteOffer
  BY OfferAssumption DEF TypeOK, Unasked, RemoteAnswer
<1>3. Owed \subseteq Host
  BY <1>1 DEF Owed
<1> QED BY <1>1, <1>2, <1>3 DEF CountedAliases, RemoteOffers

\* A remote not asked has made no offer.
LEMMA RemoteOffersAre ==
  ASSUME NEW f, NEW ho
  PROVE  ho \in RemoteOffers(f) <=>
           /\ ho = <<ho[1], ho[2]>> /\ ho[1] \in Owed
           /\ ho[2] \in answers[ho[1]].offers
           /\ answers[ho[1]].kind = "offered" /\ ho[2].family = f
BY DEF RemoteOffers

-----------------------------------------------------------------------------
(* What is offered of a fold *)

\* The names and servers of an offer are the fold's.
LEMMA OfferCarries ==
  ASSUME NEW f
  PROVE  OfferOf(f).names = f.names /\ OfferOf(f).servers = f.servers
BY DEF OfferOf

LEMMA OfferTypedOf ==
  ASSUME request \in Requests, NEW f \in Fold
  PROVE  OfferOf(f) \in FamilyOffer
<1> DEFINE source == CASE ~ Windowed -> "none"
                       [] Windowed /\ f.windowUnknown -> "unknown"
                       [] OTHER -> f.source
<1>1. source \in Source \cup {"unknown", "none"}
  <2>1. f.source \in Source \cup {"none"}
    BY DEF Fold
  <2> QED BY <2>1
<1>2. f.bound \in Nat /\ f.names \in SUBSET Name
      /\ f.servers \in SUBSET (ServerName \X (Domain \cup {Itself}))
      /\ f.unknown \in SUBSET (ServerName \X Name)
  BY DEF Fold
<1>3. InputOf(f.bound) \in Nat
  BY <1>2, ProfileDefault DEF InputOf
<1> DEFINE known == source \in Source
           context == IF known THEN f.bound ELSE 0
           input == IF known THEN InputOf(f.bound) ELSE 0
           unknown == IF source = "unknown" THEN f.unknown ELSE {}
<1>4. OfferOf(f) = [names |-> f.names, servers |-> f.servers, context |-> context,
                    source |-> source, input |-> input, unknown |-> unknown]
  BY DEF OfferOf
<1> HIDE DEF source
<1>5. context \in Nat /\ unknown \in SUBSET (ServerName \X Name)
  BY <1>2
<1>6. input \in Nat
  BY <1>3
<1> HIDE DEF context, input, unknown
<1> QED BY <1>1, <1>2, <1>4, <1>5, <1>6 DEF FamilyOffer

\* What the contract says of the context of an offer o counted of A and O.
ContextOf(o, A, O) ==
  LET unknown == (\E ah \in A : NoWindow(ah)) \/ \E ho \in O : ho[2].source = "unknown"
  IN IF Windowed /\ ~ unknown /\ BoundsOf(A, O) # {}
     THEN /\ <<o.context, o.source>> \in BoundsOf(A, O)
          /\ \A b \in BoundsOf(A, O) : AsTight(<<o.context, o.source>>, b)
          /\ o.input = IF o.context - request.reserve < 0 THEN 0
                       ELSE o.context - request.reserve
          /\ o.unknown = {}
     ELSE /\ o.context = 0 /\ o.input = 0
          /\ IF Windowed /\ unknown
             THEN /\ o.source = "unknown"
                  /\ \A ah \in A : NoWindow(ah) =>
                       <<NameOf[ah[2]], ah[1].name>> \in o.unknown
             ELSE o.source = "none" /\ o.unknown = {}

LEMMA OfferContext ==
  ASSUME request \in Requests, NEW A, NEW O, NEW f, Folded(f, A, O)
  PROVE  ContextOf(OfferOf(f), A, O)
<1> DEFINE o == OfferOf(f)
           unknown == (\E ah \in A : NoWindow(ah)) \/
                      \E ho \in O : ho[2].source = "unknown"
<1>1. /\ f \in Fold /\ f.bound \in Nat /\ f.source \in Source \cup {"none"}
      /\ Windowed => (f.windowUnknown <=> unknown)
      /\ Windowed => \A ah \in A : NoWindow(ah) =>
           <<NameOf[ah[2]], ah[1].name>> \in f.unknown
      /\ f.source = "none" <=> BoundsOf(A, O) = {}
      /\ BoundsOf(A, O) # {} =>
           /\ <<f.bound, f.source>> \in BoundsOf(A, O)
           /\ \A b \in BoundsOf(A, O) : AsTight(<<f.bound, f.source>>, b)
  BY DEF Folded, Tightest, Fold
<1>2. "none" \notin Source /\ "unknown" \notin Source
  BY DEF Source
<1>3. request.reserve \in Int
  BY ProfileDefault
<1> HIDE DEF unknown
<1>4. CASE ~ Windowed
  <2>1. o.context = 0 /\ o.input = 0 /\ o.source = "none" /\ o.unknown = {}
    BY <1>2, <1>4 DEF OfferOf
  <2> HIDE DEF o
  <2> QED BY <1>4, <2>1 DEF ContextOf, o
<1>5. CASE Windowed /\ unknown
  <2>1. f.windowUnknown
    BY <1>1, <1>5
  <2>2. o.context = 0 /\ o.input = 0 /\ o.source = "unknown" /\ o.unknown = f.unknown
    BY <1>2, <1>5, <2>1 DEF OfferOf
  <2> HIDE DEF o
  <2> QED BY <1>1, <1>5, <2>2 DEF ContextOf, o, unknown
<1>6. CASE Windowed /\ ~ unknown /\ BoundsOf(A, O) = {}
  <2>1. ~ f.windowUnknown /\ f.source = "none"
    BY <1>1, <1>6
  <2>2. o.context = 0 /\ o.input = 0 /\ o.source = "none" /\ o.unknown = {}
    BY <1>2, <1>6, <2>1 DEF OfferOf
  <2> HIDE DEF o
  <2> QED BY <1>6, <2>2 DEF ContextOf, o, unknown
<1>7. CASE Windowed /\ ~ unknown /\ BoundsOf(A, O) # {}
  <2>1. ~ f.windowUnknown /\ f.source # "none" /\ f.source \in Source
    BY <1>1, <1>7
  <2>2. /\ o.context = f.bound /\ o.input = InputOf(f.bound)
        /\ o.source = f.source /\ o.unknown = {}
    BY <1>2, <1>7, <2>1 DEF OfferOf
  <2>3. InputOf(f.bound) = IF f.bound - request.reserve < 0 THEN 0
                           ELSE f.bound - request.reserve
    BY <1>1, <1>3 DEF InputOf
  <2> HIDE DEF o
  <2> QED BY <1>1, <1>7, <2>2, <2>3 DEF ContextOf, o, unknown
<1> QED BY <1>4, <1>5, <1>6, <1>7

\* At the end of the count the bounds are the contract's.
LEMMA BoundsAre ==
  ASSUME NEW f, Windowed
  PROVE  /\ BoundsOf(CountedAliases(f), RemoteOffers(f)) = Bounds(f)
         /\ Windowless(f) = {ah \in CountedAliases(f) : NoWindow(ah)}
<1>1. Windowless(f) = {ah \in CountedAliases(f) : NoWindow(ah)}
  BY DEF Windowless, NoWindow
<1>2. {ah \in CountedAliases(f) : Windowed /\ ~ NoWindow(ah)} =
        CountedAliases(f) \ Windowless(f)
  BY <1>1
<1> QED BY <1>1, <1>2 DEF BoundsOf, Bounds

-----------------------------------------------------------------------------
(* Every step keeps the invariant *)

LEMMA InitInv == Init => IInv
<1> SUFFICES ASSUME Init PROVE IInv
  OBVIOUS
<1>1. CheckInv
  BY DEF Init, CheckInv
<1>2. TypeOK
  <2>1. NewFold \in Fold
    BY NothingFolded DEF Folded
  <2>2. /\ offered \subseteq Host \X RemoteOffer /\ toAsk \subseteq hosts \cap Remote
        /\ todo \subseteq aliases
    BY DEF Init
  <2>3. answers \in [Host -> RemoteAnswers \cup {Unasked}]
    BY DEF Init
  <2>4. folds \in [Family -> Fold]
    BY <2>1 DEF Init
  <2>5. DOMAIN offers = {}
    BY DEF Init
  <2> QED BY <2>2, <2>3, <2>4, <2>5 DEF Init, TypeOK
<1>3. stage = "check"
  BY DEF Init
<1> QED BY <1>1, <1>2, <1>3 DEF IInv, DoneInv, CountsEachOnce, ConservativeContext

\* A fold is judged by the request alone.
LEMMA RequestFrame ==
  ASSUME request' = request
  PROVE  /\ \A f, A, O : Folded(f, A, O)' <=> Folded(f, A, O)
         /\ Valid' <=> Valid
         /\ Windowed' <=> Windowed
<1>1. (Windowed' <=> Windowed) /\ (Valid' <=> Valid)
  BY DEF Windowed, Fallback, Valid
<1>2. \A a : BoundOf(a)' = BoundOf(a)
  BY DEF BoundOf
<1>3. \A A, O : BoundsOf(A, O)' = BoundsOf(A, O)
  BY <1>1, <1>2 DEF BoundsOf
<1>4. \A f, A, O : Folded(f, A, O)' <=> Folded(f, A, O)
  <2> TAKE f, A, O
  <2> DEFINE B == BoundsOf(A, O)
  <2>1. BoundsOf(A, O)' = BoundsOf(A, O)
    BY <1>3
  <2> QED BY <1>1, <2>1 DEF Folded
<1> QED BY <1>1, <1>4

\* What is counted changes with the inputs and the answers only.
LEMMA CountedFrame ==
  ASSUME UNCHANGED <<aliases, hosts, request, answers>>
  PROVE  /\ Owed' = Owed
         /\ \A f : CountedAliases(f)' = CountedAliases(f)
         /\ \A f : RemoteOffers(f)' = RemoteOffers(f)
<1>1. \A h : Placed(h)' <=> Placed(h)
  BY DEF Placed
<1>2. Owed' = Owed
  BY <1>1 DEF Owed
<1>3. \A f : CountedAliases(f)' = CountedAliases(f)
  BY <1>1 DEF CountedAliases
<1> QED BY <1>2, <1>3 DEF RemoteOffers

LEMMA StutterInv ==
  ASSUME IInv, UNCHANGED vars
  PROVE  IInv'
<1>1. /\ aliases' = aliases /\ hosts' = hosts /\ request' = request
      /\ stage' = stage /\ toAsk' = toAsk /\ answers' = answers
      /\ offered' = offered /\ todo' = todo /\ folds' = folds
      /\ outcome' = outcome /\ offers' = offers
  BY DEF vars
<1>2. TypeOK' /\ (stage' = "check" => CheckInv')
  BY <1>1 DEF IInv, TypeOK, CheckInv
<1>3. ASSUME stage' = "fold" PROVE FoldInv'
  <2>1. FoldInv /\ Valid' /\ Owed' = Owed
    BY <1>1, <1>3, RequestFrame, CountedFrame DEF IInv, FoldInv
  <2>2. ASSUME NEW f \in Family
        PROVE  Folded(folds[f], AliasesDone(f), OffersDone(f))'
    <3>1. Folded(folds[f], AliasesDone(f), OffersDone(f))
      BY <2>1 DEF FoldInv
    <3>2. AliasesDone(f)' = AliasesDone(f) /\ OffersDone(f)' = OffersDone(f)
      BY <1>1, CountedFrame DEF AliasesDone, OffersDone
    <3> QED BY <1>1, <3>1, <3>2, RequestFrame
  <2> QED BY <1>1, <2>1, <2>2 DEF FoldInv
<1>4. DoneInv'
  <2>1. \A f : Bounds(f)' = Bounds(f) /\ Windowless(f)' = Windowless(f)
    BY <1>1, CountedFrame DEF Bounds, Windowless, BoundOf
  <2>2. CountsEachOnce'
    BY <1>1, CountedFrame DEF IInv, DoneInv, CountsEachOnce
  <2>3. ConservativeContext'
    BY <1>1, <2>1, CountedFrame DEF IInv, DoneInv, ConservativeContext
  <2> QED BY <2>2, <2>3 DEF DoneInv
<1> QED BY <1>2, <1>3, <1>4 DEF IInv

LEMMA RefuseInv ==
  ASSUME IInv, Refuse
  PROVE  IInv'
<1>1. TypeOK'
  BY DEF IInv, TypeOK, Refuse, inputs
<1>2. stage' = "done" /\ outcome' = "invalid" /\ DOMAIN offers' = {}
  BY DEF IInv, CheckInv, Refuse
<1> QED BY <1>1, <1>2 DEF IInv, DoneInv, CountsEachOnce, ConservativeContext

LEMMA StartInv ==
  ASSUME IInv, Start
  PROVE  IInv'
<1>1. CheckInv /\ Valid /\ TypeOK /\ stage' = "fold" /\ todo' = aliases
  BY DEF IInv, Start
<1>2. /\ aliases' = aliases /\ hosts' = hosts /\ request' = request
      /\ answers' = answers /\ offered' = offered /\ folds' = folds
      /\ outcome' = outcome /\ offers' = offers
  BY DEF Start, inputs
<1>3. Owed' = Owed /\ toAsk' = Owed
  BY <1>1, <1>2, AdmitsIsPlaced DEF Start, Owed, Placed
<1>4. TypeOK'
  BY <1>1, <1>2, <1>3 DEF TypeOK, Owed
<1>5. ASSUME NEW f \in Family
      PROVE  Folded(folds[f], AliasesDone(f), OffersDone(f))'
  <2>1. AliasesDone(f)' = {}
    BY <1>1, <1>2 DEF AliasesDone, CountedAliases
  <2>2. OffersDone(f)' = {}
    <3>1. Owed \subseteq Host
      BY <1>1, OfferAssumption DEF Owed, TypeOK
    <3>2. \A h \in Host : answers[h] = Unasked /\ Unasked.kind = "unasked"
      BY <1>1 DEF CheckInv, Unasked
    <3> QED BY <1>2, <1>3, <3>1, <3>2 DEF OffersDone, RemoteOffers
  <2>3. folds'[f] = NewFold
    BY <1>1, <1>2 DEF CheckInv
  <2>4. Folded(NewFold, {}, {})'
    BY NothingFolded, PTL
  <2> QED BY <2>1, <2>2, <2>3, <2>4
<1>6. Valid' /\ \A h \in Host : ~ (answers'[h] # Unasked) /\ toAsk' = Owed'
  BY <1>1, <1>2, <1>3, RequestFrame DEF CheckInv
<1>7. FoldInv'
  BY <1>1, <1>2, <1>3, <1>5, <1>6 DEF CheckInv, FoldInv
<1> QED BY <1>1, <1>4, <1>7 DEF IInv, DoneInv, CountsEachOnce, ConservativeContext

\* A remote's answer is still to be folded, so nothing of it is done.
LEMMA AskRemoteInv ==
  ASSUME IInv, NEW h \in Host, AskRemote(h)
  PROVE  IInv'
<1>1. /\ TypeOK /\ FoldInv /\ stage' = "fold" /\ h \in toAsk /\ offered = {}
      /\ toAsk' = toAsk \ {h}
      /\ aliases' = aliases /\ hosts' = hosts /\ request' = request
      /\ todo' = todo /\ folds' = folds /\ outcome' = outcome /\ offers' = offers
  BY DEF IInv, AskRemote, inputs
<1>2. PICK a \in RemoteAnswers :
        /\ answers' = [answers EXCEPT ![h] = a]
        /\ offered' = IF a.kind = "offered" THEN {h} \X a.offers ELSE {}
  BY DEF AskRemote
<1>3. /\ a \in RemoteAnswer /\ a # Unasked
      /\ h \in Owed /\ todo = aliases /\ answers[h] = Unasked
      /\ answers'[h] = a /\ \A k \in Host \ {h} : answers'[k] = answers[k]
  <2>1. a \in RemoteAnswer /\ a.kind # "unasked" /\ Unasked.kind = "unasked"
    BY OfferAssumption DEF RemoteAnswer, Unasked
  <2>2. h \in Owed /\ todo = aliases /\ answers[h] = Unasked
    BY <1>1 DEF FoldInv
  <2>3. answers'[h] = a /\ \A k \in Host \ {h} : answers'[k] = answers[k]
    BY <1>1, <1>2 DEF TypeOK
  <2> QED BY <2>1, <2>2, <2>3
<1>4. Owed' = Owed /\ Valid' /\ Owed \subseteq Host
  <2>1. \A k : Placed(k)' <=> Placed(k)
    BY <1>1 DEF Placed
  <2>2. Owed' = Owed
    BY <1>1, <2>1 DEF Owed
  <2>3. Owed \subseteq Host
    BY <1>1, OfferAssumption DEF Owed, TypeOK
  <2> QED BY <1>1, <2>2, <2>3, RequestFrame DEF FoldInv
<1>5. TypeOK'
  <2>1. offered' \subseteq Host \X RemoteOffer
    BY <1>2, <1>3 DEF RemoteAnswer
  <2>2. answers' \in [Host -> RemoteAnswers \cup {Unasked}]
    BY <1>1, <1>2 DEF TypeOK
  <2> QED BY <1>1, <2>1, <2>2 DEF TypeOK
<1>6. ASSUME NEW f \in Family
      PROVE  Folded(folds[f], AliasesDone(f), OffersDone(f))'
  <2>1. AliasesDone(f) = {} /\ AliasesDone(f)' = {}
    BY <1>1, <1>3 DEF AliasesDone, CountedAliases
  <2>2. OffersDone(f)' = OffersDone(f)
    <3>1. ASSUME NEW ho PROVE ho \in OffersDone(f)' <=> ho \in OffersDone(f)
      <4>1. ho \in RemoteOffers(f)' <=>
              /\ ho = <<ho[1], ho[2]>> /\ ho[1] \in Owed
              /\ ho[2] \in answers'[ho[1]].offers
              /\ answers'[ho[1]].kind = "offered" /\ ho[2].family = f
        BY <1>4 DEF RemoteOffers
      <4>2. CASE ho[1] = h
        <5>1. ho \notin RemoteOffers(f)
          BY <1>3, <4>2, RemoteOffersAre DEF Unasked
        <5>2. ho \in RemoteOffers(f)' => ho \in offered'
          BY <1>2, <1>3, <4>1, <4>2
        <5> QED BY <5>1, <5>2 DEF OffersDone
      <4>3. CASE ho[1] # h
        <5>1. ho \in RemoteOffers(f)' <=> ho \in RemoteOffers(f)
          BY <1>3, <1>4, <4>1, <4>3, RemoteOffersAre
        <5>2. ho \notin offered /\ ho \notin offered'
          BY <1>1, <1>2, <4>3
        <5> QED BY <5>1, <5>2 DEF OffersDone
      <4> QED BY <4>2, <4>3
    <3> QED BY <3>1
  <2>3. Folded(folds[f], AliasesDone(f), OffersDone(f))
    BY <1>1 DEF FoldInv
  <2> QED BY <1>1, <2>1, <2>2, <2>3, RequestFrame
<1>7. \A k \in Host : answers'[k] # Unasked <=> k \in Owed' /\ k \notin toAsk'
  BY <1>1, <1>3, <1>4 DEF FoldInv
<1>8. \A ho \in offered' : /\ ho[1] \in Owed' /\ answers'[ho[1]].kind = "offered"
                           /\ ho[2] \in answers'[ho[1]].offers
  BY <1>2, <1>3, <1>4
<1>9. FoldInv'
  BY <1>1, <1>3, <1>4, <1>6, <1>7, <1>8 DEF FoldInv
<1> QED BY <1>1, <1>5, <1>9 DEF IInv, DoneInv, CountsEachOnce, ConservativeContext

\* One offer of the remote asked last joins its family's.
LEMMA FoldOfferInv ==
  ASSUME IInv, FoldOffer
  PROVE  IInv'
<1>1. /\ TypeOK /\ FoldInv /\ stage' = "fold" /\ toAsk' = toAsk
      /\ aliases' = aliases /\ hosts' = hosts /\ request' = request
      /\ answers' = answers /\ todo' = todo
      /\ outcome' = outcome /\ offers' = offers
  BY DEF IInv, FoldOffer, inputs
<1>2. PICK ho \in offered :
        /\ offered' = offered \ {ho}
        /\ folds' = [folds EXCEPT ![ho[2].family] =
                       WithOffer(folds[ho[2].family], ho[1], ho[2])]
  BY DEF FoldOffer
<1> DEFINE h == ho[1]
           o == ho[2]
           F == o.family
<1>3. h \in Host /\ o \in RemoteOffer /\ F \in Family /\ ho = <<h, o>>
  BY <1>1 DEF TypeOK, RemoteOffer
<1>4. ho \in RemoteOffers(F) /\ ho \notin OffersDone(F) /\ todo = aliases
  BY <1>1, <1>3, RemoteOffersAre DEF FoldInv, OffersDone
<1>5. /\ Owed' = Owed /\ (Valid' <=> Valid) /\ Valid
      /\ \A f : AliasesDone(f)' = AliasesDone(f)
      /\ \A f : RemoteOffers(f)' = RemoteOffers(f)
  BY <1>1, CountedFrame, RequestFrame DEF AliasesDone, FoldInv
<1>6. ASSUME NEW f \in Family
      PROVE  /\ Folded(folds[f], AliasesDone(f), OffersDone(f))'
             /\ folds'[f] \in Fold
  <2>1. Folded(folds[f], AliasesDone(f), OffersDone(f))
    BY <1>1 DEF FoldInv
  <2>2. /\ AliasesDone(f) \in SUBSET (Alias \X Host)
        /\ OffersDone(f) \in SUBSET (Host \X RemoteOffer)
    BY <1>1, CountedTyped DEF AliasesDone, OffersDone
  <2>3. CASE f = F
    <3>1. OffersDone(f)' = OffersDone(f) \cup {<<h, o>>}
      BY <1>2, <1>3, <1>4, <1>5, <2>3 DEF OffersDone
    <3>2. folds'[f] = WithOffer(folds[f], h, o)
      BY <1>1, <1>2, <1>3, <2>3 DEF TypeOK
    <3>3. request \in Requests
      BY <1>1 DEF TypeOK
    <3> HIDE DEF h, o
    <3>4. Folded(WithOffer(folds[f], h, o), AliasesDone(f), OffersDone(f) \cup {<<h, o>>})
      BY <1>3, <2>1, <2>2, <3>3, FoldsOffer
    <3>5. Folded(folds[f], AliasesDone(f), OffersDone(f))'
      BY <1>1, <1>5, <3>1, <3>2, <3>4, RequestFrame
    <3> QED BY <3>2, <3>4, <3>5 DEF Folded
  <2>4. CASE f # F
    <3>1. ho \notin RemoteOffers(f)
      BY <2>4, RemoteOffersAre
    <3>2. OffersDone(f)' = OffersDone(f)
      BY <1>2, <1>5, <3>1 DEF OffersDone
    <3>3. folds'[f] = folds[f]
      BY <1>1, <1>2, <2>4 DEF TypeOK
    <3> QED BY <1>1, <1>5, <2>1, <3>2, <3>3, RequestFrame DEF Folded
  <2> QED BY <2>3, <2>4
<1>7. folds' \in [Family -> Fold]
  <2>1. folds' = [f \in Family |-> folds'[f]]
    BY <1>1, <1>2 DEF TypeOK
  <2> QED BY <1>6, <2>1
<1>8. TypeOK'
  BY <1>1, <1>2, <1>7 DEF TypeOK
<1>9. FoldInv'
  BY <1>1, <1>2, <1>4, <1>5, <1>6 DEF FoldInv
<1> QED BY <1>1, <1>8, <1>9 DEF IInv, DoneInv, CountsEachOnce, ConservativeContext

\* An alias is counted on its server's one host, or on none.
LEMMA FoldAliasInv ==
  ASSUME IInv, NEW a \in todo, FoldAlias(a)
  PROVE  IInv'
<1>1. /\ TypeOK /\ FoldInv /\ stage' = "fold" /\ toAsk = {} /\ offered = {}
      /\ toAsk' = toAsk /\ offered' = offered /\ todo' = todo \ {a}
      /\ aliases' = aliases /\ hosts' = hosts /\ request' = request
      /\ answers' = answers /\ outcome' = outcome /\ offers' = offers
  BY DEF IInv, FoldAlias, inputs
<1>2. a \in aliases /\ a \in Alias /\ a.family \in Family /\ hosts \subseteq Host
      /\ request \in Requests
  BY <1>1, OfferAssumption DEF TypeOK, Alias
<1>3. /\ Owed' = Owed /\ Valid /\ Valid'
      /\ \A f : CountedAliases(f)' = CountedAliases(f)
      /\ \A f : OffersDone(f)' = OffersDone(f)
  BY <1>1, CountedFrame, RequestFrame DEF OffersDone, FoldInv
<1>4. \A f \in Family : Folded(folds[f], AliasesDone(f), OffersDone(f))
  BY <1>1 DEF FoldInv
<1>5. /\ \A f : AliasesDone(f) \in SUBSET (Alias \X Host)
      /\ \A f : OffersDone(f) \in SUBSET (Host \X RemoteOffer)
  BY <1>1, CountedTyped DEF AliasesDone, OffersDone
<1>6. \A f, ah : ah \in AliasesDone(f)' <=>
                   \/ ah \in AliasesDone(f)
                   \/ ah \in CountedAliases(f) /\ ah[1] = a
  BY <1>1, <1>3 DEF AliasesDone
<1>7. \A f, ah : ah \in CountedAliases(f) =>
        /\ ah = <<ah[1], ah[2]>> /\ ah[2] \in hosts
        /\ ah[1].family = f /\ NameOf[ah[2]] = ah[1].server
  BY DEF CountedAliases
<1>8. folds' \in [Family -> Fold] /\
      \A f \in Family : Folded(folds[f], AliasesDone(f), OffersDone(f))'
  <2>1. CASE (\A h \in hosts : ~ Counts(a, h)) /\ folds' = folds
    <3>1. \A f : AliasesDone(f)' = AliasesDone(f)
      <4>1. ASSUME NEW f, NEW ah \in CountedAliases(f), ah[1] = a PROVE FALSE
        <5>1. ah = <<a, ah[2]>> /\ ah[2] \in hosts /\ f = a.family
          BY <1>7, <4>1
        <5>2. <<a, ah[2]>> \in CountedAliases(a.family)
          BY <5>1
        <5> QED BY <1>2, <1>3, <2>1, <5>1, <5>2, CountsIs
      <4> QED BY <1>6, <4>1
    <3> QED BY <1>1, <1>3, <1>4, <2>1, <3>1, RequestFrame DEF TypeOK
  <2>2. ASSUME NEW h \in hosts, Counts(a, h),
               folds' = [folds EXCEPT ![a.family] = WithAlias(folds[a.family], a, h)]
        PROVE  folds' \in [Family -> Fold] /\
               \A f \in Family : Folded(folds[f], AliasesDone(f), OffersDone(f))'
    <3>1. <<a, h>> \in CountedAliases(a.family)
      BY <1>2, <1>3, <2>2, CountsIs
    <3>2. ASSUME NEW f \in Family
          PROVE  folds'[f] \in Fold /\ Folded(folds[f], AliasesDone(f), OffersDone(f))'
      <4>1. CASE f = a.family
        <5>1. ASSUME NEW ah \in CountedAliases(f), ah[1] = a PROVE ah = <<a, h>>
          <6>1. ah[2] \in hosts /\ NameOf[ah[2]] = a.server /\ ah = <<a, ah[2]>>
            BY <1>7, <5>1
          <6>2. NameOf[h] = a.server
            BY <2>2 DEF Counts
          <6>3. ah[2] = h
            BY <1>1, <6>1, <6>2, OneHost
          <6> QED BY <6>1, <6>3
        <5>2. AliasesDone(f)' = AliasesDone(f) \cup {<<a, h>>}
          BY <1>6, <3>1, <4>1, <5>1
        <5>3. folds'[f] = WithAlias(folds[f], a, h)
          BY <1>1, <2>2, <4>1 DEF TypeOK
        <5>4. Folded(WithAlias(folds[f], a, h), AliasesDone(f) \cup {<<a, h>>}, OffersDone(f))
          BY <1>2, <1>4, <1>5, FoldsAlias
        <5> QED BY <1>1, <1>3, <5>2, <5>3, <5>4, RequestFrame DEF Folded
      <4>2. CASE f # a.family
        <5>1. AliasesDone(f)' = AliasesDone(f)
          BY <1>6, <1>7, <4>2
        <5>2. folds'[f] = folds[f]
          BY <1>1, <2>2, <4>2 DEF TypeOK
        <5> QED BY <1>1, <1>3, <1>4, <5>1, <5>2, RequestFrame DEF Folded
      <4> QED BY <4>1, <4>2
    <3>3. folds' = [f \in Family |-> folds'[f]]
      BY <1>1, <2>2 DEF TypeOK
    <3> QED BY <3>2, <3>3
  <2> QED BY <2>1, <2>2 DEF FoldAlias
<1>9. TypeOK'
  BY <1>1, <1>8 DEF TypeOK
<1>10. FoldInv'
  BY <1>1, <1>3, <1>8 DEF FoldInv
<1> QED BY <1>1, <1>9, <1>10 DEF IInv, DoneInv, CountsEachOnce, ConservativeContext

\* When everything is counted, what is offered is the contract's.
LEMMA ConcludeInv ==
  ASSUME IInv, Conclude
  PROVE  IInv'
<1>1. /\ TypeOK /\ FoldInv /\ toAsk = {} /\ offered = {} /\ todo = {}
      /\ stage' = "done" /\ outcome' = "offered"
      /\ toAsk' = toAsk /\ offered' = offered /\ todo' = todo
      /\ aliases' = aliases /\ hosts' = hosts /\ request' = request
      /\ answers' = answers /\ folds' = folds
      /\ offers' = [f \in {g \in Family : folds[g].open} |-> OfferOf(folds[f])]
  BY DEF IInv, Conclude, inputs
<1>2. /\ Owed' = Owed
      /\ \A f : CountedAliases(f)' = CountedAliases(f)
      /\ \A f : RemoteOffers(f)' = RemoteOffers(f)
      /\ \A f : Bounds(f)' = Bounds(f) /\ Windowless(f)' = Windowless(f)
  BY <1>1, CountedFrame DEF Bounds, Windowless, BoundOf
<1>3. request \in Requests
  BY <1>1 DEF TypeOK
<1>4. /\ DOMAIN offers' = {f \in Family : folds[f].open}
      /\ \A f \in DOMAIN offers' : f \in Family /\ offers'[f] = OfferOf(folds[f])
  BY <1>1
<1>5. ASSUME NEW f \in Family
      PROVE  Folded(folds[f], CountedAliases(f), RemoteOffers(f))
  <2>1. AliasesDone(f) = CountedAliases(f) /\ OffersDone(f) = RemoteOffers(f)
    BY <1>1 DEF AliasesDone, OffersDone
  <2> QED BY <1>1, <2>1 DEF FoldInv
<1>6. TypeOK'
  <2>1. \A f \in DOMAIN offers' : offers'[f] \in FamilyOffer
    BY <1>3, <1>4, <1>5, OfferTypedOf DEF Folded
  <2> QED BY <1>1, <1>4, <2>1 DEF TypeOK
<1>7. CountsEachOnce'
  <2>1. \A h \in Host : answers'[h] # Unasked <=> h \in Owed'
    BY <1>1, <1>2 DEF FoldInv
  <2>2. DOMAIN offers' =
          {f \in Family : CountedAliases(f) # {} \/ RemoteOffers(f) # {}}
    BY <1>4, <1>5 DEF Folded
  <2>3. ASSUME NEW f \in DOMAIN offers'
        PROVE  /\ offers'[f].names =
                    {ah[1].name : ah \in CountedAliases(f)} \cup
                    UNION {ho[2].names : ho \in RemoteOffers(f)}
               /\ offers'[f].servers =
                    {<<NameOf[ah[2]], Itself>> : ah \in CountedAliases(f)} \cup
                    UNION {{NameOf[ho[1]]} \X ho[2].servers : ho \in RemoteOffers(f)}
    <3> DEFINE C == CountedAliases(f)
               O == RemoteOffers(f)
               g == folds[f]
    <3>1. /\ offers'[f].names = g.names /\ offers'[f].servers = g.servers
          /\ Folded(g, C, O)
      BY <1>4, <1>5, <2>3, OfferCarries
    <3>2. C \in SUBSET (Alias \X Host) /\ O \in SUBSET (Host \X RemoteOffer)
      BY <1>1, CountedTyped
    <3> HIDE DEF C, O, g
    <3>3. g.names \subseteq Name /\ g.servers \subseteq ServerName \X (Domain \cup {Itself})
      BY <3>1 DEF Folded, Fold
    <3>4. \A ah \in C : ah[1].name \in Name /\ NameOf[ah[2]] \in ServerName
      BY <3>2, OfferAssumption DEF Alias
    <3>5. \A ho \in O : /\ ho[2].names \subseteq Name /\ ho[2].servers \subseteq Domain
                        /\ NameOf[ho[1]] \in ServerName
      BY <3>2, OfferAssumption DEF RemoteOffer
    <3>6. g.names = {ah[1].name : ah \in C} \cup UNION {ho[2].names : ho \in O}
      <4>1. \A x \in Name : x \in g.names <=> \/ \E ah \in C : x = ah[1].name
                                              \/ \E ho \in O : x \in ho[2].names
        BY <3>1 DEF Folded
      <4> QED BY <3>3, <3>4, <3>5, <4>1
    <3>7. g.servers = {<<NameOf[ah[2]], Itself>> : ah \in C} \cup
                      UNION {{NameOf[ho[1]]} \X ho[2].servers : ho \in O}
      <4>1. \A p \in ServerName \X (Domain \cup {Itself}) : p \in g.servers <=>
               \/ \E ah \in C : p = <<NameOf[ah[2]], Itself>>
               \/ \E ho \in O : p[1] = NameOf[ho[1]] /\ p[2] \in ho[2].servers
        BY <3>1 DEF Folded
      <4> QED BY <3>3, <3>4, <3>5, <4>1
    <3> QED BY <3>1, <3>6, <3>7 DEF C, O
  <2> QED BY <1>1, <1>2, <2>1, <2>2, <2>3 DEF CountsEachOnce
<1>8. ConservativeContext'
  <2> SUFFICES ASSUME NEW f \in DOMAIN offers'
               PROVE  LET o == offers'[f]
                          unknown == \/ Windowless(f) # {}
                                     \/ \E ho \in RemoteOffers(f) : ho[2].source = "unknown"
                      IN IF Windowed /\ ~ unknown /\ Bounds(f) # {}
                         THEN /\ <<o.context, o.source>> \in Bounds(f)
                              /\ \A b \in Bounds(f) : AsTight(<<o.context, o.source>>, b)
                              /\ o.input = IF o.context - request.reserve < 0 THEN 0
                                           ELSE o.context - request.reserve
                              /\ o.unknown = {}
                         ELSE /\ o.context = 0 /\ o.input = 0
                              /\ IF Windowed /\ unknown
                                 THEN /\ o.source = "unknown"
                                      /\ {<<NameOf[ah[2]], ah[1].name>> : ah \in Windowless(f)}
                                           \subseteq o.unknown
                                 ELSE o.source = "none" /\ o.unknown = {}
    BY <1>1, <1>2 DEF ConservativeContext, Windowed, Fallback
  <2> DEFINE C == CountedAliases(f)
             O == RemoteOffers(f)
             o == offers'[f]
  <2>1. ContextOf(o, C, O)
    BY <1>3, <1>4, <1>5, OfferContext
  <2>2. /\ Windowed => BoundsOf(C, O) = Bounds(f)
        /\ Windowed => Windowless(f) = {ah \in C : NoWindow(ah)}
    BY BoundsAre
  <2> HIDE DEF C, O, o
  <2>3. CASE Windowed
    <3>1. Windowless(f) # {} <=> \E ah \in C : NoWindow(ah)
      BY <2>2, <2>3
    <3> QED BY <2>1, <2>2, <2>3, <3>1 DEF ContextOf, C, O, o
  <2>4. CASE ~ Windowed
    BY <2>1, <2>4 DEF ContextOf, C, O, o
  <2> QED BY <2>3, <2>4
<1> QED BY <1>1, <1>6, <1>7, <1>8 DEF IInv, DoneInv

LEMMA NextInv == IInv /\ [Next]_vars => IInv'
<1> SUFFICES ASSUME IInv, [Next]_vars PROVE IInv'
  OBVIOUS
<1>1. CASE Refuse
  BY <1>1, RefuseInv
<1>2. CASE Start
  BY <1>2, StartInv
<1>3. ASSUME NEW h \in Host, AskRemote(h) PROVE IInv'
  BY <1>3, AskRemoteInv
<1>4. CASE FoldOffer
  BY <1>4, FoldOfferInv
<1>5. ASSUME NEW a \in todo, FoldAlias(a) PROVE IInv'
  BY <1>5, FoldAliasInv
<1>6. CASE Conclude
  BY <1>6, ConcludeInv
<1>7. CASE UNCHANGED vars
  BY <1>7, StutterInv
<1> QED BY <1>1, <1>2, <1>3, <1>4, <1>5, <1>6, <1>7 DEF Next

-----------------------------------------------------------------------------
(* The theorems *)

\* The inductive invariant of an offer being counted.
THEOREM OfferInvariant == Spec => []IInv
BY InitInv, NextInv, PTL DEF Spec

\* Every variable keeps its type.
THEOREM OfferTyped == Spec => []TypeOK
<1>1. IInv => TypeOK
  BY DEF IInv
<1> QED BY <1>1, OfferInvariant, PTL

\* A family is offered exactly when something counts for it, each remote by
\* its own offer or by its listing and never by both.
THEOREM OfferCountsEachOnce == Spec => []CountsEachOnce
<1>1. IInv => CountsEachOnce
  BY DEF IInv, DoneInv
<1> QED BY <1>1, OfferInvariant, PTL

\* The context offered is the tightest bound of what counts, and unknown when
\* one counted alias or remote has no window.
THEOREM OfferConservative == Spec => []ConservativeContext
<1>1. IInv => ConservativeContext
  BY DEF IInv, DoneInv
<1> QED BY <1>1, OfferInvariant, PTL
=============================================================================
