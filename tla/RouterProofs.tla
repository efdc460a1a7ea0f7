---------------------------- MODULE RouterProofs ----------------------------
(***************************************************************************)
(* The router, proved for every set of hosts, callers and pollers: what    *)
(* the operators of Inventory return and those of Decision decide, and the *)
(* invariants.  The ranking walk over one host list yields what ROUTE-E1,  *)
(* stated over sets of hosts, asks for; IInv is inductive and the          *)
(* properties the runs check follow; every step is a step of Picks or none *)
(* of its steps; the audit has an invariant of its own over IInv, for      *)
(* every MaxAsked.                                                         *)
(***************************************************************************)
EXTENDS RouterAudit, TLAPS, SequenceTheorems, WellFoundedInduction

-----------------------------------------------------------------------------
(* Least and greatest positions *)

\* A non-empty set of naturals has a least element.
LEMMA LeastExists ==
  ASSUME NEW S \in SUBSET Nat, S # {}
  PROVE  \E m \in S : \A k \in S : m <= k
<1> DEFINE R == OpToRel(<, Nat)
<1>1. IsWellFoundedOn(R, Nat)
  BY NatLessThanWellFounded
<1>2. \A x, y \in Nat : y < x => <<y, x>> \in R
  BY DEF OpToRel
<1> HIDE DEF R
<1>3. \E x \in S : \A y \in S : ~ (<<y, x>> \in R)
  BY <1>1, WFMin
<1>4. PICK x \in S : \A y \in S : ~ (<<y, x>> \in R)
  BY <1>3
<1>5. ASSUME NEW k \in S PROVE x <= k
  <2>1. x \in Nat /\ k \in Nat
    OBVIOUS
  <2>2. ~ (k < x)
    BY <2>1, <1>2, <1>4
  <2>3. QED
    BY <2>1, <2>2
<1>6. QED
  BY <1>5

\* Min of a non-empty set of naturals is its least element.
LEMMA MinIsLeast ==
  ASSUME NEW S \in SUBSET Nat, S # {}
  PROVE  Min(S) \in S /\ \A k \in S : Min(S) <= k
BY LeastExists DEF Min

\* Max of a non-empty set of positions is its greatest element.
LEMMA MaxIsGreatest ==
  ASSUME NEW n \in Nat, NEW S \in SUBSET (1..n), S # {}
  PROVE  Max(S) \in S /\ \A k \in S : k <= Max(S)
<1> DEFINE T == {n - x : x \in S}
<1>1. T \in SUBSET Nat
  BY \A x \in S : x \in Int /\ x <= n
<1>2. T # {}
  OBVIOUS
<1>3. PICK m \in T : \A k \in T : m <= k
  BY <1>1, <1>2, LeastExists
<1>4. PICK x \in S : m = n - x
  BY <1>3
<1>5. ASSUME NEW k \in S PROVE x >= k
  <2>1. n - k \in T
    OBVIOUS
  <2>2. n - x <= n - k
    BY <2>1, <1>3, <1>4
  <2>3. QED
    BY <2>2
<1>6. QED
  BY <1>4, <1>5 DEF Max

-----------------------------------------------------------------------------
(* A host's choice of name *)

\* The positions of the builds of a family lie in the list.
LEMMA BuildsArePlaces ==
  ASSUME NEW hold, NEW names \in Seq(Model), NEW f
  PROVE  /\ Builds(hold, names, f) \in SUBSET (1..Len(names))
         /\ Builds(hold, names, f) \in SUBSET Nat
         /\ Builds(hold, names, f) # {} <=>
              \E m \in Range(names) : FamilyName(hold, m) = f
BY DEF Builds, Range

\* The names of family f that a read lists.
BuildNames(hold, read, f) ==
  {m \in Range(read.resident) \cup Range(read.installed) :
     FamilyName(hold, m) = f}

\* A host picks a build of the family, one it holds whenever it holds one, and
\* picks nothing when it has none.
LEMMA PickOfBuild ==
  ASSUME NEW hold, NEW read \in Read, NEW f
  PROVE  /\ BuildNames(hold, read, f) = {} =>
              PickOf(hold, read, f) = NoModel
         /\ BuildNames(hold, read, f) # {} =>
              PickOf(hold, read, f) \in BuildNames(hold, read, f)
         /\ (\E m \in BuildNames(hold, read, f) : m \in Range(read.resident)) =>
              PickOf(hold, read, f) \in Range(read.resident)
<1> DEFINE builds == BuildNames(hold, read, f)
           H == Builds(hold, read.resident, f)
           D == Builds(hold, read.installed, f)
<1>1. read.resident \in Seq(Model) /\ read.installed \in Seq(Model)
  BY DEF Read
<1>2. H # {} => Max(H) \in H
  BY <1>1, BuildsArePlaces, MaxIsGreatest, LenProperties
<1>3. D # {} => Min(D) \in D
  BY <1>1, BuildsArePlaces, MinIsLeast
<1>4. H # {} => read.resident[Max(H)] \in builds \cap Range(read.resident)
  BY <1>2 DEF Builds, BuildNames, Range
<1>5. D # {} => read.installed[Min(D)] \in builds
  BY <1>3 DEF Builds, BuildNames, Range
<1>6. /\ H # {} <=> \E m \in builds : m \in Range(read.resident)
      /\ D # {} <=> \E m \in builds : m \in Range(read.installed)
  BY <1>1, BuildsArePlaces DEF BuildNames
<1>7. PickOf(hold, read, f) = IF H # {} THEN read.resident[Max(H)]
             ELSE IF D # {} THEN read.installed[Min(D)] ELSE NoModel
  BY DEF PickOf
<1>8. builds \subseteq Range(read.resident) \cup Range(read.installed)
  BY DEF BuildNames
<1> HIDE DEF H, D, builds
<1>9. /\ builds = {} => PickOf(hold, read, f) = NoModel
      /\ builds # {} => PickOf(hold, read, f) \in builds
      /\ (\E m \in builds : m \in Range(read.resident)) =>
           PickOf(hold, read, f) \in Range(read.resident)
  BY <1>4, <1>5, <1>6, <1>7, <1>8
<1>10. QED
  BY <1>9 DEF builds

-----------------------------------------------------------------------------
(* Types *)

\* A name's family under the held inventory is a family or none.
LEMMA FamilyNameType ==
  ASSUME NEW hold \in Held, NEW m \in Model
  PROVE  FamilyName(hold, m) \in Family \cup {NoFamily}
BY InventoryAssumption DEF FamilyName, Held

\* What is read of a host is a read.
LEMMA ReadOfType ==
  ASSUME NEW h \in Host, NEW o \in Observation
  PROVE  ReadOf(h, o) \in Read
<1>1. /\ o.lists \in BOOLEAN /\ o.reports \in BOOLEAN
      /\ o.installed \in Seq(Model) /\ o.resident \in Seq(Model)
      /\ o.metadata \in OwnProfiles
  BY DEF Observation
<1> DEFINE local     == o.lists /\ h \notin Hosted
           installed == IF o.lists THEN o.installed ELSE <<>>
           resident  == IF local /\ o.reports THEN o.resident ELSE <<>>
           names     == Range(installed) \cup Range(resident)
           profiles  ==
             CASE local /\ h \in Scoped -> [names |-> names, of |-> Declared[h]]
               [] o.lists /\ (h \in Hosted \/ (o.reports /\ h \notin Scoped))
                    -> [o.metadata EXCEPT !.names = @ \cap names]
               [] OTHER -> NoneReported
<1>2. installed \in Seq(Model) /\ resident \in Seq(Model)
  BY <1>1, EmptySeq
<1>3. names \in SUBSET Model
  BY <1>2, RangeOfSeq
<1>4. [o.metadata EXCEPT !.names = @ \cap names] \in OwnProfiles
  BY <1>1 DEF OwnProfiles
<1> HIDE DEF installed, resident
<1>5. [names |-> names, of |-> Declared[h]] \in OwnProfiles
  BY <1>3, InventoryAssumption DEF OwnProfiles
<1>6. NoneReported \in OwnProfiles
  BY DEF NoneReported, OwnProfiles
<1> HIDE DEF names
<1>7. profiles \in OwnProfiles
  <2>1. CASE local /\ h \in Scoped
    BY <2>1, <1>5
  <2>2. CASE /\ ~ (local /\ h \in Scoped)
             /\ o.lists /\ (h \in Hosted \/ (o.reports /\ h \notin Scoped))
    BY <2>2, <1>4
  <2>3. CASE /\ ~ (local /\ h \in Scoped)
             /\ ~ (o.lists /\ (h \in Hosted \/ (o.reports /\ h \notin Scoped)))
    BY <2>3, <1>6
  <2>4. QED
    BY <2>1, <2>2, <2>3
<1>8. ReadOf(h, o) = [up |-> o.lists, installed |-> installed,
                      resident |-> resident, profiles |-> profiles]
  BY DEF ReadOf, installed, resident, names
<1> HIDE DEF profiles
<1>9. QED
  BY <1>1, <1>2, <1>7, <1>8 DEF Read

\* A host's choice of name is a name or none.
LEMMA PickOfType ==
  ASSUME NEW hold \in Held, NEW read \in Read, NEW f
  PROVE  PickOf(hold, read, f) \in Model \cup {NoModel}
<1>1. read.resident \in Seq(Model) /\ read.installed \in Seq(Model)
  BY DEF Read
<1>2. Range(read.resident) \cup Range(read.installed) \in SUBSET Model
  BY <1>1, RangeOfSeq
<1>3. QED
  BY <1>2, PickOfBuild DEF BuildNames

\* The aliases a host is catalogued under.
LEMMA AliasesOfType ==
  ASSUME NEW hold \in Held, NEW h \in Host, NEW read \in Read
  PROVE  AliasesOf(hold, h, read) \in SUBSET Alias
<1>1. Range(read.resident) \cup Range(read.installed) \in SUBSET Model
  BY RangeOfSeq DEF Read
<1>2. NameOf[h] \in ServerName
  BY InventoryAssumption
<1>3. \A m \in Model : FamilyName(hold, m) # NoFamily =>
                       FamilyName(hold, m) \in Family
  BY FamilyNameType
<1>4. SUFFICES ASSUME NEW m \in Model, FamilyName(hold, m) # NoFamily
               PROVE  [server |-> NameOf[h], name |-> m,
                       family |-> FamilyName(hold, m),
                       resident |-> m \in Range(read.resident)] \in Alias
  BY <1>1 DEF AliasesOf
<1>5. (m \in Range(read.resident)) \in BOOLEAN
  OBVIOUS
<1>6. QED
  BY <1>2, <1>3, <1>4, <1>5 DEF Alias

\* The aliases of one survey.
LEMMA ServedType ==
  ASSUME NEW hold \in Held, NEW list \in Seq(Host),
         NEW reads \in [DOMAIN list -> Read]
  PROVE  Served(list, reads, hold) \in SUBSET Alias
<1>1. ASSUME NEW i \in DOMAIN list
      PROVE  AliasesOf(hold, list[i], reads[i]) \in SUBSET Alias
  BY AliasesOfType, ElementOfSeq
<1>2. QED
  BY <1>1 DEF Served

\* The aliases of held models no host serves.
LEMMA UnservedAliasesType ==
  ASSUME NEW hold \in Held, NEW served
  PROVE  UnservedAliases(hold, served) \in SUBSET Alias
<1>1. ASSUME NEW f \in Family, hold.spelling[f] # NoModel
      PROVE  hold.spelling[f] \in Model
  BY <1>1 DEF Held
<1>2. SUFFICES ASSUME NEW f \in Family, hold.spelling[f] # NoModel
               PROVE  [server |-> NoServer, name |-> hold.spelling[f],
                       family |-> f, resident |-> FALSE] \in Alias
  BY DEF UnservedAliases
<1>3. QED
  BY <1>1, <1>2 DEF Alias

\* The fold of a survey is a snapshot.
LEMMA FoldType ==
  ASSUME NEW hold \in Held, NEW list \in Seq(Host),
         NEW reads \in [DOMAIN list -> Read]
  PROVE  Fold(list, reads, hold) \in Snapshot
<1> DEFINE at(s) == CHOOSE i \in DOMAIN list : NameOf[list[i]] = s
<1>1. ASSUME NEW s, Positions(list, s) # {}
      PROVE  at(s) \in DOMAIN list
  BY <1>1 DEF Positions
<1> DEFINE pick == [f \in Family |-> [s \in ServerName |->
                     IF Positions(list, s) = {} THEN NoModel
                     ELSE PickOf(hold, reads[at(s)], f)]]
           profiles == [s \in ServerName |->
                         IF Positions(list, s) = {} THEN NoneReported
                         ELSE reads[at(s)].profiles]
           up == {NameOf[list[i]] : i \in {j \in DOMAIN list : reads[j].up}}
           aliases == Served(list, reads, hold)
                        \cup UnservedAliases(hold, Served(list, reads, hold))
<1> HIDE DEF at
<1>2. pick \in [Family -> [ServerName -> Model \cup {NoModel}]]
  BY <1>1, PickOfType
<1>3. profiles \in [ServerName -> OwnProfiles]
  <2>1. NoneReported \in OwnProfiles
    BY DEF NoneReported, OwnProfiles
  <2>2. \A r \in Read : r.profiles \in OwnProfiles
    BY DEF Read
  <2>3. QED
    BY <1>1, <2>1, <2>2
<1>4. up \in SUBSET ServerName
  BY InventoryAssumption, ElementOfSeq
<1>5. aliases \in SUBSET Alias
  BY ServedType, UnservedAliasesType
<1>6. Fold(list, reads, hold) =
        [list |-> list, up |-> up, aliases |-> aliases, pick |-> pick,
         profiles |-> profiles]
  BY DEF Fold, at
<1> HIDE DEF up, aliases, pick, profiles
<1>7. QED
  BY <1>2, <1>3, <1>4, <1>5, <1>6 DEF Snapshot

\* So is the snapshot of a router that has surveyed nothing.
LEMMA UnsurveyedType == Unsurveyed \in Snapshot
<1>1. [declared |-> [m \in Model |-> NoFamily],
       spelling |-> [f \in Family |-> NoModel]] \in Held
  BY DEF Held
<1>2. <<>> \in Seq(Host) /\ <<>> \in Seq(Read) /\ Len(<<>>) = 0
  BY EmptySeq
<1>3. <<>> \in [DOMAIN <<>> -> Read]
  BY <1>2
<1>4. QED
  BY <1>1, <1>2, <1>3, FoldType DEF Unsurveyed

-----------------------------------------------------------------------------
(* The tiers are the sets of the contract *)

\* A host's tier tells whether it could serve the family for the profile, and
\* whether it is on this machine and holds it.
LEMMA TierCases ==
  ASSUME NEW s, NEW h, NEW f, NEW p
  PROVE  /\ Tier(s, h, f, p) \in 0..3
         /\ Tier(s, h, f, p) # 0 <=>
              h \in Servable /\ ServedAliases(s, h, f, p) # {}
         /\ Tier(s, h, f, p) = 3 => h \in Hosted
         /\ Tier(s, h, f, p) \in {1, 2} => h \notin Hosted
         /\ Tier(s, h, f, p) = 1 => \E a \in ServedAliases(s, h, f, p) : a.resident
         /\ Tier(s, h, f, p) # 1 /\ h \notin Hosted /\ h \in Servable =>
              \A a \in ServedAliases(s, h, f, p) : ~ a.resident
<1>1. Serving(s, h, f, p) # {} <=> ServedAliases(s, h, f, p) # {}
  BY DEF Serving, ServedAliases
<1>2. HeldServing(s, h, f, p) # {} <=>
        \E a \in ServedAliases(s, h, f, p) : a.resident
  BY DEF HeldServing, ServedAliases
<1>3. QED
  BY <1>1, <1>2 DEF Tier, Holds, WouldLoad, ListsHosted

\* The candidates of a list are the positions of the hosts that could serve.
LEMMA CandidatesAreAble ==
  ASSUME NEW s, NEW list, NEW f, NEW p
  PROVE  /\ \A i \in Candidates(s, list, f, p) :
              i \in DOMAIN list /\ list[i] \in Able(s, list, f, p)
         /\ \A h \in Able(s, list, f, p) :
              \E i \in Candidates(s, list, f, p) : list[i] = h
BY TierCases DEF Candidates, Able, Range

\* Among permitted candidates one comes before every other.
LEMMA FirstExists ==
  ASSUME NEW s, NEW list \in Seq(Host), NEW f, NEW r,
         NEW i \in Candidates(s, list, f, r.profile),
         Permits(r, NameOf[list[i]])
  PROVE  FirstPermitted(s, list, f, r) # {}
<1> DEFINE tier(j) == Tier(s, list[j], f, r.profile)
           P == {j \in Candidates(s, list, f, r.profile) :
                   Permits(r, NameOf[list[j]])}
           T == {tier(j) : j \in P}
<1>1. P \in SUBSET Nat
  BY LenProperties DEF Candidates
<1>2. T \in SUBSET Nat
  BY TierCases
<1>3. P # {} /\ T # {}
  OBVIOUS
<1>4. PICK t \in T : \A u \in T : t <= u
  BY <1>2, <1>3, LeastExists
<1> DEFINE Q == {j \in P : tier(j) = t}
<1>5. Q \in SUBSET Nat /\ Q # {}
  BY <1>1, <1>4
<1>6. PICK k \in Q : \A j \in Q : k <= j
  BY <1>5, LeastExists
<1>7. ASSUME NEW j \in P \ {k}
      PROVE  Before(s, list, f, r.profile, k, j)
  <2>1. tier(k) = t /\ t <= tier(j) /\ tier(j) \in 0..3 /\ t \in Nat
    BY <1>2, <1>4, <1>6, TierCases
  <2>2. CASE tier(j) = t
    <3>1. k <= j /\ k # j /\ k \in Nat /\ j \in Nat
      BY <1>1, <1>6, <2>2
    <3>2. QED
      BY <2>1, <2>2, <3>1 DEF Before
  <2>3. CASE tier(j) # t
    BY <2>1, <2>3 DEF Before
  <2>4. QED
    BY <2>2, <2>3
<1>8. k \in P
  BY <1>6
<1>9. QED
  BY <1>7, <1>8 DEF FirstPermitted

-----------------------------------------------------------------------------
(* Decisions over one host list *)

\* The code's test of membership is the contract's reading of an allowance.
LEMMA AllowsIsPermits ==
  \A r, server : Allows(r, server) <=> Permits(r, server)
BY DEF Allows, Permits, Range

\* Naming the first permitted candidate is what the contract asks for: no
\* permitted host of a better tier is passed over.
LEMMA NamingMeetsContract ==
  ASSUME NEW s, NEW list \in Seq(Host), NEW r, NEW f, f # NoFamily,
         f = FamilyAsked(s, r.model),
         NEW i \in FirstPermitted(s, list, f, r), NEW m
  PROVE  MeetsContract(s, list, r, Naming(s, list, f, r, i, m))
<1> DEFINE d       == Naming(s, list, f, r, i, m)
           p       == r.profile
           t       == Tier(s, list[i], f, p)
           able    == Able(s, list, f, p)
           holders == Holders(s, list, f, p)
           allowed == {h \in Range(list) : Allows(r, NameOf[h])}
<1>1. /\ i \in Candidates(s, list, f, p)
      /\ i \in DOMAIN list
      /\ Permits(r, NameOf[list[i]])
  BY DEF FirstPermitted, Candidates
<1>2. list[i] \in able \cap allowed
  BY <1>1, CandidatesAreAble, AllowsIsPermits DEF Range
<1>3. t \in 1..3
  BY <1>1, TierCases DEF Candidates
<1>4. /\ d.family = f /\ d.endpoint = list[i] /\ d.verdict = VerdictOf[t]
      /\ t = 1 => d.verdict = "resident"
      /\ t = 2 => d.verdict = "would-load"
      /\ t = 3 => d.verdict = "hosted"
  BY DEF Naming, VerdictOf
<1>5. ASSUME NEW h \in able \cap allowed
      PROVE  t <= Tier(s, h, f, p)
  <2>1. PICK j \in Candidates(s, list, f, p) : list[j] = h
    BY CandidatesAreAble
  <2>2. CASE j = i
    BY <2>1, <2>2, <1>3
  <2>3. CASE j # i
    <3>1. Before(s, list, f, p, i, j)
      BY <2>1, <2>3, AllowsIsPermits DEF FirstPermitted
    <3>2. QED
      BY <2>1, <3>1, <1>3, TierCases DEF Before
  <2>4. QED
    BY <2>2, <2>3
<1>6. t = 1 => list[i] \in holders
  BY <1>2, TierCases DEF Holders
<1>7. \A h \in holders : Tier(s, h, f, p) = 1
  BY TierCases DEF Holders, Able
<1>8. t = 2 => holders \cap allowed = {} /\ list[i] \notin Hosted
  <2>1. \A h \in holders \cap allowed : h \in able \cap allowed
    BY DEF Holders
  <2>2. QED
    BY <2>1, <1>5, <1>7, TierCases
<1>9. t = 3 => (able \cap allowed) \ Hosted = {} /\ list[i] \in Hosted
  <2>1. ASSUME NEW h \in (able \cap allowed) \ Hosted
        PROVE  Tier(s, h, f, p) \in {1, 2}
    <3>1. h \notin Hosted
      OBVIOUS
    <3>2. h \in Servable /\ ServedAliases(s, h, f, p) # {}
      BY DEF Able
    <3>3. QED
      BY <3>1, <3>2, TierCases
  <2>2. QED
    BY <2>1, <1>5, TierCases
<1>10. t = 1 \/ t = 2 \/ t = 3
  BY <1>3
<1> HIDE DEF d, t, able, holders, allowed
<1>11. MeetsContract(s, list, r, d)
  <2>1. CASE t = 1
    BY <2>1, <1>2, <1>4, <1>6 DEF MeetsContract, able, holders, allowed, p
  <2>2. CASE t = 2
    BY <2>2, <1>2, <1>4, <1>8 DEF MeetsContract, able, holders, allowed, p
  <2>3. CASE t = 3
    BY <2>3, <1>2, <1>4, <1>9 DEF MeetsContract, able, holders, allowed, p
  <2>4. QED
    BY <1>10, <2>1, <2>2, <2>3
<1>12. QED
  BY <1>11 DEF d

\* With candidates and none permitted, refusing and naming them all is.
LEMMA WithheldMeetsContract ==
  ASSUME NEW s, NEW list \in Seq(Host), NEW r, NEW f, f # NoFamily,
         f = FamilyAsked(s, r.model),
         FirstPermitted(s, list, f, r) = {}, AllWithheld(s, list, f, r) # {}
  PROVE  MeetsContract(s, list, r,
           Refusal("unauthorised", f, AllWithheld(s, list, f, r)))
<1> DEFINE able    == Able(s, list, f, r.profile)
           allowed == {h \in Range(list) : Allows(r, NameOf[h])}
           d == Refusal("unauthorised", f, AllWithheld(s, list, f, r))
<1>1. able # {}
  BY CandidatesAreAble DEF AllWithheld
<1>2. able \cap allowed = {}
  <2>1. SUFFICES ASSUME NEW h \in able \cap allowed PROVE FALSE
    OBVIOUS
  <2>2. PICK i \in Candidates(s, list, f, r.profile) : list[i] = h
    BY CandidatesAreAble
  <2>3. Permits(r, NameOf[list[i]])
    BY <2>2, AllowsIsPermits
  <2>4. QED
    BY <2>3, FirstExists
<1>3. AllWithheld(s, list, f, r) = {NameOf[h] : h \in able}
  BY CandidatesAreAble DEF AllWithheld
<1>4. /\ d.family = f /\ d.verdict = "unauthorised"
      /\ d.withheld = AllWithheld(s, list, f, r)
  BY DEF Refusal
<1> HIDE DEF able, allowed, d
<1>5. MeetsContract(s, list, r, d)
  BY <1>1, <1>2, <1>3, <1>4 DEF MeetsContract, able, allowed
<1>6. QED
  BY <1>5 DEF d

\* When no servable host serves the profile, no host could serve the family.
LEMMA NoneServesMeetsContract ==
  ASSUME NEW s, NEW list \in Seq(Host), NEW r, NEW f, f # NoFamily,
         f = FamilyAsked(s, r.model), ~ AnyServes(s, list, r.profile)
  PROVE  MeetsContract(s, list, r, Refusal("no-host", f, {}))
<1> DEFINE able == Able(s, list, f, r.profile)
           d    == Refusal("no-host", f, {})
<1>1. able = {}
  <2>1. SUFFICES ASSUME NEW h \in able PROVE FALSE
    OBVIOUS
  <2>2. h \in Servable /\ ServedAliases(s, h, f, r.profile) # {}
    BY DEF Able
  <2>3. HostServes(s, h, r.profile)
    BY <2>2 DEF HostServes, ServedAliases
  <2>4. QED
    BY <2>2, <2>3 DEF AnyServes, Able, Range
<1>2. d.family = f /\ d.verdict = "no-host"
  BY DEF Refusal
<1> HIDE DEF able, d
<1>3. MeetsContract(s, list, r, d)
  BY <1>1, <1>2 DEF MeetsContract, able
<1>4. QED
  BY <1>3 DEF d

\* When no host is a candidate, the refusal says why as the contract does.
LEMMA UnansweredMeetsContract ==
  ASSUME NEW s, NEW list \in Seq(Host), NEW r, NEW f, f # NoFamily,
         f = FamilyAsked(s, r.model), Candidates(s, list, f, r.profile) = {}
  PROVE  MeetsContract(s, list, r,
           Refusal(UnansweredVerdict(s, list, f), f, {}))
<1> DEFINE able   == Able(s, list, f, r.profile)
           routed == {h \in Range(list) \cap Servable :
                        NameOf[h] \in InstalledOn(s, f)}
           v      == UnansweredVerdict(s, list, f)
           d      == Refusal(v, f, {})
<1>1. able = {}
  BY CandidatesAreAble
<1>2. d.family = f /\ d.verdict = v
  BY DEF Refusal
<1>3. routed # {} <=> \E i \in DOMAIN list :
                         list[i] \in Servable /\ NameOf[list[i]] \in InstalledOn(s, f)
  BY DEF Range
<1>4. \/ v = "no-host" /\ routed # {}
      \/ v = "unservable" /\ routed = {} /\ InstalledOn(s, f) # {}
      \/ v = "not-here" /\ routed = {} /\ InstalledOn(s, f) = {}
  <2>1. InstalledOn(s, f) = {} => routed = {}
    OBVIOUS
  <2>2. QED
    BY <1>3, <2>1 DEF UnansweredVerdict
<1> HIDE DEF able, routed, v, d
<1>5. MeetsContract(s, list, r, d)
  BY <1>1, <1>2, <1>4 DEF MeetsContract, able, routed
<1>6. QED
  BY <1>5 DEF d, v

-----------------------------------------------------------------------------
(* The name a candidate is asked by *)

\* A candidate is asked by a name it is catalogued under for the family and
\* serves for the profile: one it holds when it holds one, and otherwise none
\* of its names is held.
LEMMA NamingServes ==
  ASSUME NEW s, NEW list \in Seq(Host), NEW r, NEW f,
         NEW i \in FirstPermitted(s, list, f, r),
         NEW m \in NameAsked(s, list[i], f, r.profile)
  PROVE  ModelServed(s, r, Naming(s, list, f, r, i, m))
<1> DEFINE h    == list[i]
           p    == r.profile
           t    == Tier(s, h, f, p)
           kept == HeldServing(s, h, f, p)
<1>1. t \in 1..3
  BY TierCases DEF FirstPermitted, Candidates
<1>2. CASE h \notin Hosted /\ kept # {}
  <2>1. m \in kept
    BY <1>2 DEF NameAsked, Least
  <2>2. \E a \in ServedAliases(s, h, f, p) : /\ a.name = m /\ a.resident
                                             /\ a.server = NameOf[h]
    BY <2>1 DEF HeldServing, ServedAliases
  <2>3. t = 1
    BY <1>1, <1>2 DEF Tier, Holds, WouldLoad, ListsHosted
  <2>4. QED
    BY <2>2, <2>3 DEF ModelServed, Naming, VerdictOf
<1>3. CASE ~ (h \notin Hosted /\ kept # {})
  <2>1. m \in Serving(s, h, f, p)
    BY <1>3 DEF NameAsked, Least
  <2>2. \E a \in ServedAliases(s, h, f, p) : a.name = m /\ a.server = NameOf[h]
    BY <2>1 DEF Serving, ServedAliases
  <2>3. t = 2 \/ t = 3
    BY <1>1, <1>3 DEF Tier, Holds
  <2>4. t = 2 => \A a \in ServedAliases(s, h, f, p) : ~ a.resident
    <3>1. t = 2 => kept = {}
      BY DEF Tier, Holds, WouldLoad, ListsHosted
    <3>2. QED
      BY <3>1 DEF HeldServing, ServedAliases
  <2>5. QED
    BY <2>2, <2>3, <2>4 DEF ModelServed, Naming, VerdictOf
<1>4. QED
  BY <1>2, <1>3

-----------------------------------------------------------------------------
(* Types *)

\* The family asked for is a family or none.
LEMMA FamilyAskedType ==
  ASSUME NEW s \in Snapshot, NEW m \in Model
  PROVE  FamilyAsked(s, m) \in Family \cup {NoFamily}
<1>1. \A a \in s.aliases : a.family \in Family
  BY DEF Snapshot, Alias
<1>2. Parsed[m] \in Family \cup {NoFamily}
  BY InventoryAssumption
<1>3. QED
  BY <1>1, <1>2 DEF FamilyAsked

\* A decision that names a host is a decision.
LEMMA NamingType ==
  ASSUME NEW s \in Snapshot, NEW list \in Seq(Host), NEW r, NEW f \in Family,
         NEW i \in FirstPermitted(s, list, f, r),
         NEW m \in NameAsked(s, list[i], f, r.profile)
  PROVE  Naming(s, list, f, r, i, m) \in DecisionRecord
<1>1. i \in Candidates(s, list, f, r.profile) /\ i \in DOMAIN list
  BY DEF FirstPermitted, Candidates
<1>2. list[i] \in Host /\ \A j \in DOMAIN list : NameOf[list[j]] \in ServerName
  BY <1>1, ElementOfSeq, InventoryAssumption
<1>3. VerdictOf[Tier(s, list[i], f, r.profile)] \in Verdict
  BY <1>1, TierCases DEF Candidates, VerdictOf, Verdict
<1>4. m \in Model
  <2>1. \A a \in s.aliases : a.name \in Model
    BY DEF Snapshot, Alias
  <2>2. QED
    BY <2>1 DEF NameAsked, Least, HeldServing, Serving
<1>5. WithheldBefore(s, list, f, r, i) \in SUBSET ServerName
  BY <1>2 DEF WithheldBefore, Candidates
<1>6. QED
  BY <1>1, <1>2, <1>3, <1>4, <1>5 DEF Naming, DecisionRecord

\* So is a refusal.
LEMMA RefusalType ==
  ASSUME NEW v \in Verdict, NEW f \in Family \cup {NoFamily},
         NEW withheld \in SUBSET ServerName
  PROVE  Refusal(v, f, withheld) \in DecisionRecord
BY DEF Refusal, DecisionRecord

\* The servers withheld are servers.
LEMMA AllWithheldType ==
  ASSUME NEW s, NEW list \in Seq(Host), NEW r, NEW f
  PROVE  AllWithheld(s, list, f, r) \in SUBSET ServerName
BY InventoryAssumption, ElementOfSeq DEF AllWithheld, Candidates

-----------------------------------------------------------------------------
(* The inductive invariant *)

\* A host that is down was found to have nothing.
HonestRead == {r \in Read : ~ r.up => r.installed = <<>> /\ r.resident = <<>>}

\* A survey in hand reads the hosts of one configuration.
GoodSurvey ==
  {v \in Survey : /\ v.list \in HostLists
                  /\ v.reads \in [DOMAIN v.list -> HonestRead \cup {NotRead}]
                  /\ \A i \in DOMAIN v.list :
                       v.reads[i] \in ReadsOf(v.list[i]) \cup {NotRead}}

GoodSnapshot == {s \in Snapshot : s \in Surveyed /\ PicksHeldBuild(s)}

SurveyInv(p) ==
  /\ pc[p] = "reading" => survey[p] \in GoodSurvey
  /\ pc[p] = "composed" => view[p] \in GoodSnapshot

Asking   == {"reading", "composed", "latest"}

\* What a decision was made from stays in hand until it is returned, and what
\* the earlier copies of the hosts showed holds of each of them.
CallerInv(c) ==
  /\ pc[c] \in Asking \cup Choosing \cup Answering => req[c] \in Request
  /\ pc[c] \in Choosing \cup Answering => view[c] \in Snapshot
  /\ pc[c] \in {"rank", "explain"} => AskedFamily(c) \in Family
  /\ lists[c] \in SUBSET HostLists
  /\ pc[c] = "explain" =>
       /\ lists[c] # {}
       /\ \A list \in lists[c] : lists[c] = {list} =>
            Candidates(view[c], list, AskedFamily(c), req[c].profile) = {}
  /\ pc[c] \in Answering => decision[c] \in DecisionRecord
  /\ pc[c] \notin Answering => decision[c] = NoDecision
  /\ AnswerMeets(c) /\ UndisturbedMeets(c) /\ NamedIsServed(c)

IInv ==
  /\ TypeOK
  /\ PicksHeldBuild(snap)
  /\ \A p \in Proc : SurveyInv(p)
  /\ \A c \in Caller : CallerInv(c)

-----------------------------------------------------------------------------
(* Surveys *)

\* A read of a host is honest.
LEMMA ReadOfHonest ==
  ASSUME NEW h \in Host, NEW o \in Observation
  PROVE  ReadOf(h, o) \in HonestRead
<1>1. ReadOf(h, o) \in Read
  BY ReadOfType
<1>2. ~ ReadOf(h, o).up =>
        ReadOf(h, o).installed = <<>> /\ ReadOf(h, o).resident = <<>>
  BY DEF ReadOf
<1>3. QED
  BY <1>1, <1>2 DEF HonestRead

\* The aliases a fold gives a server of the list are those of its one read.
LEMMA AliasesOfServer ==
  ASSUME NEW list \in HostLists, NEW reads, NEW hold,
         NEW i \in DOMAIN list
  PROVE  {a \in Fold(list, reads, hold).aliases : a.server = NameOf[list[i]]}
           = AliasesOf(hold, list[i], reads[i])
<1> DEFINE n == NameOf[list[i]]
           served == Served(list, reads, hold)
<1>1. \A j \in DOMAIN list : NameOf[list[j]] = n => j = i
  BY DistinctNamesAssumption
<1>2. \A j \in DOMAIN list : \A a \in AliasesOf(hold, list[j], reads[j]) :
        a.server = NameOf[list[j]]
  BY DEF AliasesOf
<1>3. {a \in served : a.server = n} = AliasesOf(hold, list[i], reads[i])
  BY <1>1, <1>2 DEF Served
<1>4. n # NoServer
  BY InventoryAssumption, RouterAssumption, ElementOfSeq
<1>5. \A a \in UnservedAliases(hold, served) : a.server # n
  BY <1>4 DEF UnservedAliases
<1>6. Fold(list, reads, hold).aliases = served \cup UnservedAliases(hold, served)
  BY DEF Fold
<1> HIDE DEF served
<1>7. QED
  BY <1>3, <1>5, <1>6

\* In a fold each server's choice of name is a build it holds when it has one.
LEMMA FoldPicksHeldBuild ==
  ASSUME NEW list \in HostLists, NEW hold \in Held,
         NEW reads \in [DOMAIN list -> HonestRead]
  PROVE  PicksHeldBuild(Fold(list, reads, hold))
<1> DEFINE s == Fold(list, reads, hold)
<1> SUFFICES ASSUME NEW f \in Family, NEW n \in ServerName
             PROVE  LET builds == {a \in s.aliases : a.family = f /\ a.server = n}
                    IN /\ builds # {} =>
                            \E a \in builds :
                              /\ a.name = s.pick[f][n]
                              /\ a.resident \/ \A b \in builds : ~ b.resident
                       /\ builds = {} => s.pick[f][n] = NoModel
                       /\ builds # {} => n \in s.up
  BY DEF PicksHeldBuild
<1> DEFINE builds == {a \in s.aliases : a.family = f /\ a.server = n}
<1>1. CASE Positions(list, n) = {}
  <2>1. \A a \in Served(list, reads, hold) : a.server # n
    BY <1>1 DEF Served, AliasesOf, Positions
  <2>2. \A a \in UnservedAliases(hold, Served(list, reads, hold)) : a.server # n
    BY InventoryAssumption DEF UnservedAliases
  <2>3. builds = {}
    BY <2>1, <2>2 DEF Fold
  <2>4. s.pick[f][n] = NoModel
    BY <1>1 DEF Fold
  <2>5. QED
    BY <2>3, <2>4
<1>2. CASE Positions(list, n) # {}
  <2>1. PICK i \in DOMAIN list : NameOf[list[i]] = n
    BY <1>2 DEF Positions
  <2> DEFINE read == reads[i]
             names == BuildNames(hold, read, f)
             m == PickOf(hold, read, f)
  <2>2. (CHOOSE j \in DOMAIN list : NameOf[list[j]] = n) = i
    BY <2>1, DistinctNamesAssumption
  <2>3. s.pick[f][n] = m
    BY <1>2, <2>2 DEF Fold
  <2>4. builds = {a \in AliasesOf(hold, list[i], read) : a.family = f}
    BY <2>1, AliasesOfServer
  <2>5. builds = {[server |-> n, name |-> k, family |-> f,
                   resident |-> k \in Range(read.resident)] : k \in names}
    <3>1. f # NoFamily
      BY InventoryAssumption
    <3>2. QED
      BY <2>1, <2>4, <3>1 DEF AliasesOf, BuildNames
  <2>6. ASSUME NEW k \in names
         PROVE  \E a \in builds : a.name = k /\ (a.resident <=> k \in Range(read.resident))
    <3> DEFINE a == [server |-> n, name |-> k, family |-> f,
                     resident |-> k \in Range(read.resident)]
    <3>1. a \in builds
      BY <2>5
    <3>2. a.name = k /\ a.resident = (k \in Range(read.resident))
      OBVIOUS
    <3> HIDE DEF a
    <3>3. QED
      BY <3>1, <3>2, Zenon
  <2>7. ASSUME NEW b \in builds
         PROVE  b.name \in names /\ (b.resident <=> b.name \in Range(read.resident))
    <3>1. PICK k \in names :
            b = [server |-> n, name |-> k, family |-> f,
                 resident |-> k \in Range(read.resident)]
      BY <2>5
    <3>2. b.name = k /\ b.resident = (k \in Range(read.resident))
      BY <3>1
    <3>3. QED
      BY <3>2, Zenon
  <2>8. read \in Read /\ (names # {} => read.up)
    <3>1. read \in HonestRead
      OBVIOUS
    <3>2. Range(<<>>) = {}
      BY DEF Range
    <3>3. QED
      BY <3>1, <3>2 DEF HonestRead, BuildNames
  <2>9. names # {} => n \in s.up
    BY <2>1, <2>8 DEF Fold
  <2> HIDE DEF s, builds, names, m
  <2>10. CASE names = {}
    <3>1. builds = {} /\ m = NoModel
      BY <2>5, <2>8, <2>10, PickOfBuild DEF names, m
    <3>2. QED
      BY <2>3, <3>1 DEF builds
  <2>11. CASE names # {}
    <3>1. /\ m \in names
          /\ (\E k \in names : k \in Range(read.resident)) =>
               m \in Range(read.resident)
      BY <2>8, <2>11, PickOfBuild DEF names, m
    <3>2. PICK a \in builds : a.name = m /\ (a.resident <=> m \in Range(read.resident))
      BY <2>6, <3>1
    <3>3. \A b \in builds : b.resident => \E k \in names : k \in Range(read.resident)
      BY <2>7
    <3>4. a.resident \/ \A b \in builds : ~ b.resident
      BY <3>1, <3>2, <3>3
    <3>5. QED
      BY <2>3, <2>9, <2>11, <3>2, <3>4 DEF builds
  <2>12. QED
    BY <2>10, <2>11
<1>3. QED
  BY <1>1, <1>2

\* Nothing is catalogued before the first survey.
LEMMA UnsurveyedPicks == PicksHeldBuild(Unsurveyed)
<1>1. Served(<<>>, <<>>, [declared |-> [m \in Model |-> NoFamily],
                          spelling |-> [f \in Family |-> NoModel]]) = {}
  BY DEF Served
<1>2. Unsurveyed.aliases = {}
  BY <1>1 DEF Unsurveyed, Fold, UnservedAliases
<1>3. \A f \in Family : \A n \in ServerName : Unsurveyed.pick[f][n] = NoModel
  BY DEF Unsurveyed, Fold, Positions
<1>4. QED
  BY <1>2, <1>3 DEF PicksHeldBuild

\* The fold of one configuration's reads is what a survey may come to.
LEMMA FoldSurveyed ==
  ASSUME NEW list \in HostLists, NEW hold \in HeldInventories,
         NEW reads \in [DOMAIN list -> Read],
         \A i \in DOMAIN list : reads[i] \in ReadsOf(list[i])
  PROVE  Fold(list, reads, hold) \in Surveyed
<1> DEFINE all == UNION {ReadsOf(h) : h \in Range(list)}
<1>1. ASSUME NEW i \in DOMAIN list PROVE reads[i] \in all
  BY <1>1 DEF Range
<1> HIDE DEF all
<1>2. reads \in [DOMAIN list -> all]
  BY <1>1
<1>3. reads \in SurveysOf(list)
  BY <1>2 DEF SurveysOf, all
<1>4. QED
  BY <1>3 DEF Surveyed

-----------------------------------------------------------------------------
(* A goroutine's invariant depends on what is its own *)

\* A step that leaves a caller's own state alone keeps its invariant.
LEMMA CallerFrame ==
  ASSUME NEW c \in Caller, CallerInv(c),
         pc'[c] = pc[c], req'[c] = req[c], view'[c] = view[c],
         lists'[c] = lists[c], decision'[c] = decision[c]
  PROVE  CallerInv(c)'
BY DEF CallerInv, AskedFamily, AnswerMeets, UndisturbedMeets, NamedIsServed,
       Decided

\* A step that leaves a goroutine's survey and snapshot alone keeps its.
LEMMA SurveyFrame ==
  ASSUME NEW p \in Proc, SurveyInv(p),
         pc'[p] = pc[p], survey'[p] = survey[p], view'[p] = view[p]
  PROVE  SurveyInv(p)'
BY DEF SurveyInv

\* A caller that has reached no decision owes its invariant nothing of it.
LEMMA Undecided ==
  ASSUME NEW c, decision[c] = NoDecision
  PROVE  AnswerMeets(c) /\ UndisturbedMeets(c) /\ NamedIsServed(c)
BY DEF AnswerMeets, UndisturbedMeets, NamedIsServed, Decided

\* The same of the state a step leads to.
LEMMA UndecidedNext ==
  ASSUME NEW c, decision'[c] = NoDecision
  PROVE  (AnswerMeets(c) /\ UndisturbedMeets(c) /\ NamedIsServed(c))'
BY DEF AnswerMeets, UndisturbedMeets, NamedIsServed, Decided

-----------------------------------------------------------------------------
(* The initial states *)

\* The initial states satisfy IInv.
LEMMA InitIInv == Init => IInv
<1> SUFFICES ASSUME Init PROVE IInv
  OBVIOUS
<1>1. TypeOK
  <2>1. <<>> \in Seq(Ask) /\ Len(<<>>) = 0
    BY EmptySeq
  <2>2. QED
    BY <2>1, UnsurveyedType, RouterAssumption DEF Init, TypeOK, Label
<1>2. \A p \in Proc : SurveyInv(p)
  BY DEF Init, SurveyInv
<1>3. \A c \in Caller : CallerInv(c)
  BY Undecided DEF Init, CallerInv, Proc, Asking, Choosing, Answering
<1>4. QED
  BY <1>1, <1>2, <1>3, UnsurveyedPicks DEF IInv, Init

-----------------------------------------------------------------------------
(* Every step *)

\* Goroutine p changes only its own control state and what it has in hand.
OwnOnly(p) ==
  /\ \A q \in Proc \ {p} : /\ pc'[q] = pc[q]
                           /\ survey'[q] = survey[q]
                           /\ view'[q] = view[q]
  /\ \A c \in Caller \ {p} : /\ req'[c] = req[c]
                             /\ lists'[c] = lists[c]
                             /\ decision'[c] = decision[c]

\* Then only its own part of the invariant is to be shown.
LEMMA OwnSteps ==
  ASSUME IInv, NEW p \in Proc, OwnOnly(p), TypeOK', PicksHeldBuild(snap)',
         SurveyInv(p)', p \in Caller => CallerInv(p)'
  PROVE  IInv'
<1>1. ASSUME NEW q \in Proc PROVE SurveyInv(q)'
  <2>1. CASE q = p
    BY <2>1
  <2>2. CASE q # p
    BY <2>2, SurveyFrame DEF IInv, OwnOnly
  <2>3. QED
    BY <2>1, <2>2
<1>2. ASSUME NEW c \in Caller PROVE CallerInv(c)'
  <2>1. CASE c = p
    BY <2>1
  <2>2. CASE c # p
    BY <2>2, CallerFrame DEF IInv, OwnOnly, Proc
  <2>3. QED
    BY <2>1, <2>2
<1>3. QED
  BY <1>1, <1>2 DEF IInv

\* The inventories SetHosts and SetHeld install leave every goroutine alone.
LEMMA ConfigurationStep ==
  ASSUME IInv, SetHosts \/ SetHeld
  PROVE  IInv'
<1>1. TypeOK'
  BY DEF IInv, TypeOK, SetHosts, SetHeld
<1>2. ASSUME NEW p \in Proc PROVE SurveyInv(p)'
  BY SurveyFrame DEF IInv, SetHosts, SetHeld
<1>3. ASSUME NEW c \in Caller PROVE CallerInv(c)'
  BY CallerFrame DEF IInv, SetHosts, SetHeld
<1>4. PicksHeldBuild(snap)'
  BY DEF IInv, SetHosts, SetHeld, PicksHeldBuild
<1>5. QED
  BY <1>1, <1>2, <1>3, <1>4 DEF IInv

\* A survey begins with the hosts configured and no reads.
LEMMA StartSurveyGood ==
  ASSUME IInv, NEW p \in Proc, StartSurvey(p)
  PROVE  /\ survey' \in [Proc -> Survey \cup {NoSurvey}]
         /\ survey'[p] \in GoodSurvey
         /\ pc' \in [Proc -> Label] /\ pc'[p] = "reading"
         /\ \A q \in Proc \ {p} : pc'[q] = pc[q] /\ survey'[q] = survey[q]
<1> DEFINE v == [list |-> hosts, reads |-> [i \in DOMAIN hosts |-> NotRead]]
<1>1. hosts \in HostLists /\ hosts \in Seq(Host)
  BY RouterAssumption DEF IInv, TypeOK
<1>2. v.reads \in Seq(Read \cup {NotRead})
  <2>1. Len(hosts) \in Nat /\ DOMAIN hosts = 1 .. Len(hosts)
    BY <1>1, LenProperties
  <2>2. QED
    BY <2>1, IsASeq
<1>3. v \in Survey
  BY <1>1, <1>2 DEF Survey
<1>4. v \in GoodSurvey
  BY <1>1, <1>3 DEF GoodSurvey
<1>5. survey' = [survey EXCEPT ![p] = v] /\ pc' = [pc EXCEPT ![p] = "reading"]
  BY DEF StartSurvey, StartSurveyOf, Goto
<1> HIDE DEF v
<1>6. QED
  BY <1>3, <1>4, <1>5 DEF IInv, TypeOK, Label

\* A poll that starts keeps IInv.
LEMMA PollTickStep ==
  ASSUME IInv, NEW p \in Poller, PollTick(p)
  PROVE  IInv'
<1>1. p \in Proc /\ p \notin Caller
  BY RouterAssumption DEF Proc
<1>2. StartSurvey(p)
  BY DEF PollTick
<1>3. TypeOK'
  BY <1>1, <1>2, StartSurveyGood DEF IInv, TypeOK, PollTick
<1>4. SurveyInv(p)'
  BY <1>1, <1>2, StartSurveyGood DEF SurveyInv
<1>5. OwnOnly(p)
  BY <1>1, <1>2, StartSurveyGood DEF OwnOnly, PollTick
<1>6. PicksHeldBuild(snap)'
  BY DEF IInv, PollTick, PicksHeldBuild
<1>7. QED
  BY <1>1, <1>3, <1>4, <1>5, <1>6, OwnSteps

\* A poller that stops keeps IInv.
LEMMA PollStopStep ==
  ASSUME IInv, NEW p \in Poller, PollStop(p)
  PROVE  IInv'
<1>1. p \in Proc /\ p \notin Caller
  BY RouterAssumption DEF Proc
<1>2. TypeOK' /\ OwnOnly(p) /\ pc'[p] = "stopped"
  BY <1>1 DEF IInv, TypeOK, PollStop, Goto, OwnOnly, Label
<1>3. SurveyInv(p)'
  BY <1>2 DEF SurveyInv
<1>4. PicksHeldBuild(snap)'
  BY DEF IInv, PollStop, PicksHeldBuild
<1>5. QED
  BY <1>1, <1>2, <1>3, <1>4, OwnSteps

\* One host's read, whatever it finds, keeps IInv.
LEMMA ReadHostStep ==
  ASSUME IInv, NEW p \in Proc, ReadHost(p)
  PROVE  IInv'
<1>1. PICK i \in DOMAIN survey[p].list :
        \E o \in Observations[survey[p].list[i]] :
          survey' = [survey EXCEPT ![p].reads[i] = ReadOf(survey[p].list[i], o)]
  BY DEF ReadHost
<1>2. PICK o \in Observations[survey[p].list[i]] :
        survey' = [survey EXCEPT ![p].reads[i] = ReadOf(survey[p].list[i], o)]
  BY <1>1
<1> DEFINE v == survey[p]
           x == ReadOf(v.list[i], o)
           w == [v EXCEPT !.reads[i] = x]
<1>3. v \in GoodSurvey /\ v \in Survey /\ v.list \in Seq(Host) /\ v.list \in HostLists
  BY RouterAssumption DEF IInv, SurveyInv, ReadHost, GoodSurvey
<1>4. x \in HonestRead /\ x \in Read
  <2>1. v.list[i] \in Host
    BY <1>3, ElementOfSeq
  <2>2. o \in Observation
    BY <2>1, RouterAssumption
  <2>3. QED
    BY <2>1, <2>2, ReadOfHonest, ReadOfType
<1>5. /\ v.reads \in Seq(Read \cup {NotRead})
      /\ v.reads \in [DOMAIN v.list -> HonestRead \cup {NotRead}]
  BY <1>3 DEF GoodSurvey, Survey
<1> DEFINE reads == [v.reads EXCEPT ![i] = x]
<1>6. reads \in Seq(Read \cup {NotRead})
  BY <1>4, <1>5, ExceptSeq
<1>7. /\ reads \in [DOMAIN v.list -> HonestRead \cup {NotRead}]
      /\ \A k \in DOMAIN v.list :
           reads[k] \in ReadsOf(v.list[k]) \cup {NotRead}
  <2>1. x \in ReadsOf(v.list[i])
    BY Zenon DEF ReadsOf
  <2> HIDE DEF x
  <2>2. \A k \in DOMAIN v.list :
          v.reads[k] \in ReadsOf(v.list[k]) \cup {NotRead}
    BY <1>3 DEF GoodSurvey
  <2>3. QED
    BY <1>4, <1>5, <2>1, <2>2
<1> HIDE DEF x
<1>8. w = [list |-> v.list, reads |-> reads]
  BY <1>3 DEF Survey
<1> HIDE DEF reads
<1>9. w \in Survey /\ w \in GoodSurvey
  BY <1>3, <1>6, <1>7, <1>8 DEF Survey, GoodSurvey
<1>10. survey' = [survey EXCEPT ![p] = w]
  BY <1>2 DEF x
<1> HIDE DEF w, v
<1>11. TypeOK' /\ survey'[p] \in GoodSurvey
  BY <1>9, <1>10 DEF IInv, TypeOK, ReadHost
<1>12. OwnOnly(p)
  BY <1>10 DEF IInv, TypeOK, ReadHost, OwnOnly
<1>13. SurveyInv(p)'
  BY <1>11 DEF IInv, SurveyInv, ReadHost
<1>14. p \in Caller => CallerInv(p)'
  BY CallerFrame DEF IInv, ReadHost
<1>15. PicksHeldBuild(snap)'
  BY DEF IInv, ReadHost, PicksHeldBuild
<1>16. QED
  BY <1>11, <1>12, <1>13, <1>14, <1>15, OwnSteps

\* Folding the reads keeps IInv: the fold picks held builds.
LEMMA ComposeStep ==
  ASSUME IInv, NEW p \in Proc, Compose(p)
  PROVE  IInv'
<1> DEFINE v == survey[p]
           s == Fold(v.list, v.reads, held)
<1>1. v \in GoodSurvey /\ v.list \in HostLists /\ v.list \in Seq(Host)
  BY RouterAssumption DEF IInv, SurveyInv, Compose, GoodSurvey
<1>2. /\ v.reads \in [DOMAIN v.list -> HonestRead]
      /\ \A i \in DOMAIN v.list : v.reads[i] \in ReadsOf(v.list[i])
  BY <1>1 DEF GoodSurvey, Compose, AllRead
<1>3. v.reads \in [DOMAIN v.list -> Read]
  BY <1>2 DEF HonestRead
<1>4. held \in Held /\ held \in HeldInventories
  BY RouterAssumption DEF IInv, TypeOK
<1>5. s \in Snapshot /\ s \in Surveyed
  BY <1>1, <1>2, <1>3, <1>4, FoldType, FoldSurveyed
<1>6. PicksHeldBuild(s)
  BY <1>1, <1>2, <1>4, FoldPicksHeldBuild
<1>7. /\ view' = [view EXCEPT ![p] = s]
      /\ survey' = [survey EXCEPT ![p] = NoSurvey]
      /\ pc' = [pc EXCEPT ![p] = "composed"]
      /\ pc[p] = "reading"
  BY DEF Compose, Goto
<1> HIDE DEF s, v
<1>8. TypeOK'
  BY <1>5, <1>7 DEF IInv, TypeOK, Compose, Label
<1>9. SurveyInv(p)'
  BY <1>5, <1>6, <1>7 DEF IInv, TypeOK, SurveyInv, GoodSnapshot
<1>10. OwnOnly(p)
  BY <1>7 DEF IInv, TypeOK, Compose, OwnOnly
<1>11. ASSUME p \in Caller PROVE CallerInv(p)'
  <2>1. /\ CallerInv(p) /\ pc'[p] = "composed"
        /\ req'[p] = req[p] /\ lists'[p] = lists[p] /\ decision'[p] = decision[p]
    BY <1>7, <1>11 DEF IInv, TypeOK, Compose
  <2>2. decision'[p] = NoDecision
    BY <2>1, <1>7 DEF CallerInv, Answering
  <2>3. (AnswerMeets(p) /\ UndisturbedMeets(p) /\ NamedIsServed(p))'
    BY <2>2, UndecidedNext
  <2>4. QED
    BY <1>7, <2>1, <2>2, <2>3 DEF CallerInv, Asking, Choosing, Answering
<1>12. PicksHeldBuild(snap)'
  BY DEF IInv, Compose, PicksHeldBuild
<1>13. QED
  BY <1>8, <1>9, <1>10, <1>11, <1>12, OwnSteps

\* Publishing a fold keeps IInv, whichever survey it is from.
LEMMA PublishStep ==
  ASSUME IInv, NEW p \in Proc, Publish(p)
  PROVE  IInv'
<1>1. pc[p] = "composed" /\ view[p] \in GoodSnapshot
  BY DEF IInv, SurveyInv, Publish
<1>2. snap' \in Snapshot /\ PicksHeldBuild(snap)'
  BY <1>1 DEF Publish, GoodSnapshot, PicksHeldBuild
<1>3. TypeOK' /\ OwnOnly(p) /\ pc'[p] \in {"idle", "latest"}
  BY <1>2 DEF IInv, TypeOK, Publish, Goto, OwnOnly, Label
<1>4. SurveyInv(p)'
  BY <1>3 DEF SurveyInv
<1>5. ASSUME p \in Caller PROVE CallerInv(p)'
  <2>1. /\ CallerInv(p) /\ pc'[p] = "latest"
        /\ req'[p] = req[p] /\ lists'[p] = lists[p] /\ decision'[p] = decision[p]
    BY <1>5, RouterAssumption DEF IInv, TypeOK, Publish, Goto
  <2>2. decision'[p] = NoDecision
    BY <2>1, <1>1 DEF CallerInv, Answering
  <2>3. (AnswerMeets(p) /\ UndisturbedMeets(p) /\ NamedIsServed(p))'
    BY <2>2, UndecidedNext
  <2>4. QED
    BY <1>1, <2>1, <2>2, <2>3 DEF CallerInv, Asking, Choosing, Answering
<1>6. QED
  BY <1>2, <1>3, <1>4, <1>5, OwnSteps

\* A caller that gives up keeps IInv.
LEMMA CancelStep ==
  ASSUME IInv, NEW c \in Caller, Cancel(c)
  PROVE  IInv'
<1>1. c \in Proc
  BY DEF Proc
<1>2. TypeOK' /\ OwnOnly(c) /\ pc'[c] = "idle"
  BY <1>1 DEF IInv, TypeOK, Cancel, Goto, OwnOnly, Label
<1>3. SurveyInv(c)'
  BY <1>2 DEF SurveyInv
<1>4. CallerInv(c)'
  <2>1. CallerInv(c) /\ lists'[c] = lists[c] /\ decision'[c] = decision[c]
    BY DEF IInv, Cancel
  <2>2. decision'[c] = NoDecision
    BY <2>1 DEF CallerInv, Answering, Cancel
  <2>3. (AnswerMeets(c) /\ UndisturbedMeets(c) /\ NamedIsServed(c))'
    BY <2>2, UndecidedNext
  <2>4. QED
    BY <1>2, <2>1, <2>2, <2>3 DEF CallerInv, Asking, Choosing, Answering
<1>5. PicksHeldBuild(snap)'
  BY DEF IInv, Cancel, PicksHeldBuild
<1>6. QED
  BY <1>1, <1>2, <1>3, <1>4, <1>5, OwnSteps

\* A fresh request keeps IInv.
LEMMA AskFreshStep ==
  ASSUME IInv, NEW c \in Caller, AskFresh(c)
  PROVE  IInv'
<1>1. c \in Proc /\ StartSurvey(c)
  BY DEF Proc, AskFresh
<1>2. PICK r \in Requests : req' = [req EXCEPT ![c] = r]
  BY DEF AskFresh
<1>3. r \in Request
  BY RouterAssumption
<1>4. TypeOK'
  BY <1>1, <1>2, <1>3, StartSurveyGood DEF IInv, TypeOK, AskFresh
<1>5. SurveyInv(c)'
  BY <1>1, StartSurveyGood DEF SurveyInv
<1>6. OwnOnly(c)
  BY <1>1, <1>2, StartSurveyGood DEF IInv, TypeOK, OwnOnly, AskFresh
<1>7. CallerInv(c)'
  <2>1. /\ CallerInv(c) /\ pc'[c] = "reading" /\ req'[c] = r
        /\ lists'[c] = lists[c] /\ decision'[c] = decision[c]
    BY <1>1, <1>2, StartSurveyGood DEF IInv, TypeOK, AskFresh
  <2>2. decision'[c] = NoDecision
    BY <2>1 DEF CallerInv, Answering, AskFresh
  <2>3. (AnswerMeets(c) /\ UndisturbedMeets(c) /\ NamedIsServed(c))'
    BY <2>2, UndecidedNext
  <2>4. QED
    BY <1>3, <2>1, <2>2, <2>3 DEF CallerInv, Asking, Choosing, Answering
<1>8. PicksHeldBuild(snap)'
  BY DEF IInv, AskFresh, PicksHeldBuild
<1>9. QED
  BY <1>1, <1>4, <1>5, <1>6, <1>7, <1>8, OwnSteps

\* A request of the snapshot that stands keeps IInv.
LEMMA AskCachedStep ==
  ASSUME IInv, NEW c \in Caller, AskCached(c)
  PROVE  IInv'
<1>1. c \in Proc
  BY DEF Proc
<1>2. PICK r \in Requests : req' = [req EXCEPT ![c] = r]
  BY DEF AskCached
<1>3. r \in Request
  BY RouterAssumption
<1>4. TypeOK' /\ OwnOnly(c) /\ pc'[c] = "profile"
  BY <1>1, <1>2, <1>3 DEF IInv, TypeOK, AskCached, Goto, OwnOnly, Label
<1>5. SurveyInv(c)'
  BY <1>4 DEF SurveyInv
<1>6. CallerInv(c)'
  <2>1. /\ CallerInv(c) /\ req'[c] = r /\ view'[c] = snap /\ snap \in Snapshot
        /\ lists'[c] = lists[c] /\ decision'[c] = decision[c]
    BY <1>1, <1>2 DEF IInv, TypeOK, AskCached
  <2>2. decision'[c] = NoDecision
    BY <2>1 DEF CallerInv, Answering, AskCached
  <2>3. (AnswerMeets(c) /\ UndisturbedMeets(c) /\ NamedIsServed(c))'
    BY <2>2, UndecidedNext
  <2>4. QED
    BY <1>3, <1>4, <2>1, <2>2, <2>3 DEF CallerInv, Asking, Choosing, Answering
<1>7. PicksHeldBuild(snap)'
  BY DEF IInv, AskCached, PicksHeldBuild
<1>8. QED
  BY <1>1, <1>4, <1>5, <1>6, <1>7, OwnSteps

\* Reading the snapshot back after a survey keeps IInv.
LEMMA ReadLatestStep ==
  ASSUME IInv, NEW c \in Caller, ReadLatest(c)
  PROVE  IInv'
<1>1. c \in Proc
  BY DEF Proc
<1>2. TypeOK' /\ OwnOnly(c) /\ pc'[c] = "profile"
  BY <1>1 DEF IInv, TypeOK, ReadLatest, Goto, OwnOnly, Label
<1>3. SurveyInv(c)'
  BY <1>2 DEF SurveyInv
<1>4. CallerInv(c)'
  <2>1. /\ CallerInv(c) /\ req'[c] = req[c] /\ view'[c] = snap /\ snap \in Snapshot
        /\ lists'[c] = lists[c] /\ decision'[c] = decision[c]
    BY <1>1 DEF IInv, TypeOK, ReadLatest
  <2>2. decision'[c] = NoDecision /\ req[c] \in Request
    BY <2>1 DEF CallerInv, Answering, ReadLatest, Asking
  <2>3. (AnswerMeets(c) /\ UndisturbedMeets(c) /\ NamedIsServed(c))'
    BY <2>2, UndecidedNext
  <2>4. QED
    BY <1>2, <2>1, <2>2, <2>3 DEF CallerInv, Asking, Choosing, Answering
<1>5. PicksHeldBuild(snap)'
  BY DEF IInv, ReadLatest, PicksHeldBuild
<1>6. QED
  BY <1>1, <1>2, <1>3, <1>4, <1>5, OwnSteps

\* A caller that concludes with a decision of the contract keeps its invariant.
LEMMA Concludes ==
  ASSUME IInv, NEW c \in Caller, NEW d \in DecisionRecord, Conclude(c, d),
         req' = req, view' = view, req[c] \in Request, view[c] \in Snapshot,
         lists'[c] \in SUBSET HostLists,
         d.verdict \in Answered => \E list \in lists'[c] :
           MeetsContract(view[c], list, req[c], d),
         \A list \in lists'[c] : lists'[c] = {list} =>
           MeetsContract(view[c], list, req[c], d),
         d.server # NoServer => ModelServed(view[c], req[c], d)
  PROVE  /\ CallerInv(c)'
         /\ pc' \in [Proc -> Label] /\ pc'[c] \in Answering
         /\ decision' \in [Caller -> DecisionRecord \cup {NoDecision}]
         /\ \A q \in Proc \ {c} : pc'[q] = pc[q]
         /\ \A q \in Caller \ {c} : decision'[q] = decision[q]
<1>1. /\ pc' \in [Proc -> Label] /\ pc'[c] \in Answering
      /\ decision' \in [Caller -> DecisionRecord \cup {NoDecision}]
      /\ decision'[c] = d
      /\ \A q \in Proc \ {c} : pc'[q] = pc[q]
      /\ \A q \in Caller \ {c} : decision'[q] = decision[q]
  BY DEF IInv, TypeOK, Conclude, Goto, Proc, Label, Answering
<1>2. AnswerMeets(c)' /\ UndisturbedMeets(c)' /\ NamedIsServed(c)'
  BY <1>1 DEF AnswerMeets, UndisturbedMeets, NamedIsServed
<1>3. CallerInv(c)'
  BY <1>1, <1>2 DEF CallerInv, Asking, Choosing, Answering
<1>4. QED
  BY <1>1, <1>3

\* Refusing a name of no family keeps IInv.
LEMMA RefuseNameStep ==
  ASSUME IInv, NEW c \in Caller, RefuseName(c)
  PROVE  IInv'
<1> DEFINE d == Refusal("unparseable", NoFamily, {})
<1>1. /\ c \in Proc /\ CallerInv(c) /\ pc[c] = "profile"
      /\ req' = req /\ view' = view /\ lists' = lists
      /\ Conclude(c, d)
      /\ AskedFamily(c) = NoFamily
  BY DEF IInv, RefuseName, Proc
<1>2. req[c] \in Request /\ view[c] \in Snapshot /\ lists[c] \in SUBSET HostLists
  BY <1>1 DEF CallerInv, Choosing
<1>3. d \in DecisionRecord
  BY RefusalType DEF Verdict
<1>4. d.verdict \notin Answered /\ d.server = NoServer
  BY DEF Refusal, Answered
<1>5. \A list \in lists'[c] : MeetsContract(view[c], list, req[c], d)
  BY <1>1 DEF MeetsContract, Refusal, AskedFamily
<1> HIDE DEF d
<1>6. /\ CallerInv(c)'
      /\ pc' \in [Proc -> Label] /\ pc'[c] \in Answering
      /\ decision' \in [Caller -> DecisionRecord \cup {NoDecision}]
      /\ \A q \in Proc \ {c} : pc'[q] = pc[q]
      /\ \A q \in Caller \ {c} : decision'[q] = decision[q]
  BY <1>1, <1>2, <1>3, <1>4, <1>5, Concludes
<1>7. TypeOK' /\ OwnOnly(c)
  BY <1>6 DEF IInv, TypeOK, RefuseName, OwnOnly
<1>8. SurveyInv(c)'
  BY <1>6 DEF SurveyInv, Answering
<1>9. PicksHeldBuild(snap)'
  BY DEF IInv, RefuseName, PicksHeldBuild
<1>10. QED
  BY <1>1, <1>6, <1>7, <1>8, <1>9, OwnSteps

\* A caller's copy of the hosts is one of the configurations.
LEMMA CopyHostsStep ==
  ASSUME IInv, NEW c \in Caller, CopyHosts(c)
  PROVE  /\ hosts \in HostLists /\ hosts \in Seq(Host)
         /\ lists'[c] = lists[c] \cup {hosts}
         /\ lists' \in [Caller -> SUBSET HostLists]
         /\ \A q \in Caller \ {c} : lists'[q] = lists[q]
BY RouterAssumption DEF IInv, TypeOK, CopyHosts

\* Going on to rank, or refusing the profile, keeps IInv.
LEMMA CheckProfileStep ==
  ASSUME IInv, NEW c \in Caller, CheckProfile(c)
  PROVE  IInv'
<1> DEFINE f == AskedFamily(c)
           d == Refusal("no-host", f, {})
<1>1. /\ c \in Proc /\ CallerInv(c) /\ pc[c] = "profile"
      /\ req' = req /\ view' = view /\ CopyHosts(c)
      /\ f # NoFamily
  BY DEF IInv, CheckProfile, Proc
<1>2. req[c] \in Request /\ view[c] \in Snapshot
  BY <1>1 DEF CallerInv, Choosing
<1>3. f \in Family
  <2>1. req[c].model \in Model
    BY <1>2 DEF Request
  <2>2. QED
    BY <1>1, <1>2, <2>1, FamilyAskedType DEF AskedFamily
<1>4. lists'[c] \in SUBSET HostLists /\ hosts \in lists'[c] /\ hosts \in Seq(Host)
  BY <1>1, CopyHostsStep DEF CallerInv
<1>5. PicksHeldBuild(snap)'
  BY DEF IInv, CheckProfile, PicksHeldBuild
<1>6. CASE AnyServes(view[c], hosts, req[c].profile) /\ Goto(c, "rank") /\ UNCHANGED decision
  <2>1. TypeOK' /\ OwnOnly(c) /\ pc'[c] = "rank"
    BY <1>1, <1>6, CopyHostsStep DEF IInv, TypeOK, CheckProfile, Goto, OwnOnly, Label
  <2>2. SurveyInv(c)'
    BY <2>1 DEF SurveyInv
  <2>3. decision'[c] = NoDecision
    BY <1>1, <1>6 DEF CallerInv, Answering
  <2>4. (AnswerMeets(c) /\ UndisturbedMeets(c) /\ NamedIsServed(c))'
    BY <2>3, UndecidedNext
  <2>5. CallerInv(c)'
    BY <1>1, <1>2, <1>3, <1>4, <2>1, <2>3, <2>4
       DEF CallerInv, Asking, Choosing, Answering, AskedFamily
  <2>6. QED
    BY <1>1, <1>5, <2>1, <2>2, <2>5, OwnSteps
<1>7. CASE ~ AnyServes(view[c], hosts, req[c].profile) /\ Conclude(c, d)
  <2>1. d \in DecisionRecord
    BY <1>3, RefusalType DEF Verdict
  <2>2. d.verdict \notin Answered /\ d.server = NoServer
    BY DEF Refusal, Answered
  <2>3. MeetsContract(view[c], hosts, req[c], d)
    BY <1>1, <1>4, <1>7, NoneServesMeetsContract DEF AskedFamily
  <2>4. \A list \in lists'[c] : lists'[c] = {list} =>
          MeetsContract(view[c], list, req[c], d)
    BY <1>4, <2>3
  <2> HIDE DEF d
  <2>5. /\ CallerInv(c)'
        /\ pc' \in [Proc -> Label] /\ pc'[c] \in Answering
        /\ decision' \in [Caller -> DecisionRecord \cup {NoDecision}]
        /\ \A q \in Proc \ {c} : pc'[q] = pc[q]
        /\ \A q \in Caller \ {c} : decision'[q] = decision[q]
    BY <1>1, <1>2, <1>4, <1>7, <2>1, <2>2, <2>4, Concludes
  <2>6. TypeOK' /\ OwnOnly(c)
    BY <1>1, <2>5, CopyHostsStep DEF IInv, TypeOK, CheckProfile, OwnOnly
  <2>7. SurveyInv(c)'
    BY <2>5 DEF SurveyInv, Answering
  <2>8. QED
    BY <1>1, <1>5, <2>5, <2>6, <2>7, OwnSteps
<1>8. QED
  BY <1>6, <1>7 DEF CheckProfile

\* Ranking comes to a right decision, or finds no candidate and goes on.
LEMMA RankDecides ==
  ASSUME IInv, NEW c \in Caller, Rank(c)
  PROVE  \/ \E d \in DecisionRecord :
              Conclude(c, d) /\ Right(view[c], hosts, req[c], d)
         \/ /\ Goto(c, "explain") /\ UNCHANGED decision
            /\ Candidates(view[c], hosts, AskedFamily(c), req[c].profile) = {}
<1> DEFINE s        == view[c]
           r        == req[c]
           f        == AskedFamily(c)
           first    == FirstPermitted(s, hosts, f, r)
           withheld == AllWithheld(s, hosts, f, r)
<1>1. CallerInv(c) /\ pc[c] = "rank" /\ hosts \in Seq(Host)
  BY RouterAssumption DEF IInv, TypeOK, Rank
<1>2. r \in Request /\ s \in Snapshot /\ f \in Family /\ f # NoFamily
  BY <1>1, InventoryAssumption DEF CallerInv, Choosing
<1>3. f = FamilyAsked(s, r.model)
  BY DEF AskedFamily
<1> HIDE DEF s, r, f, first, withheld
<1>4. CASE \E i \in first : \E m \in NameAsked(s, hosts[i], f, r.profile) :
             Conclude(c, Naming(s, hosts, f, r, i, m))
  <2>1. PICK i \in first : \E m \in NameAsked(s, hosts[i], f, r.profile) :
          Conclude(c, Naming(s, hosts, f, r, i, m))
    BY <1>4
  <2>2. PICK m \in NameAsked(s, hosts[i], f, r.profile) :
          Conclude(c, Naming(s, hosts, f, r, i, m))
    BY <2>1
  <2> DEFINE d == Naming(s, hosts, f, r, i, m)
  <2>3. d \in DecisionRecord
    BY <1>1, <1>2, NamingType DEF first
  <2>4. MeetsContract(s, hosts, r, d)
    BY <1>1, <1>2, <1>3, NamingMeetsContract DEF first
  <2>5. ModelServed(s, r, d)
    BY <1>1, NamingServes DEF first
  <2> HIDE DEF d
  <2>6. QED
    BY <2>2, <2>3, <2>4, <2>5 DEF d, Right, s, r
<1>5. CASE /\ first = {} /\ withheld # {}
           /\ Conclude(c, Refusal("unauthorised", f, withheld))
  <2> DEFINE d == Refusal("unauthorised", f, withheld)
  <2>1. d \in DecisionRecord
    BY <1>1, <1>2, RefusalType, AllWithheldType DEF withheld, Verdict
  <2>2. MeetsContract(s, hosts, r, d)
    BY <1>1, <1>2, <1>3, <1>5, WithheldMeetsContract DEF first, withheld
  <2>3. d.server = NoServer
    BY DEF Refusal
  <2> HIDE DEF d
  <2>4. QED
    BY <1>5, <2>1, <2>2, <2>3 DEF d, Right, s, r
<1>6. CASE /\ first = {} /\ withheld = {}
           /\ Goto(c, "explain") /\ UNCHANGED decision
  <2>1. Candidates(s, hosts, f, r.profile) = {}
    BY <1>6 DEF withheld, AllWithheld
  <2>2. QED
    BY <1>6, <2>1 DEF s, r, f
<1>7. QED
  BY <1>4, <1>5, <1>6 DEF Rank, RankIn, s, r, f, first, withheld

\* Naming a candidate, withholding them all or going on keeps IInv.
LEMMA RankStep ==
  ASSUME IInv, NEW c \in Caller, Rank(c)
  PROVE  IInv'
<1> DEFINE s == view[c]
           r == req[c]
           f == AskedFamily(c)
<1>1. /\ c \in Proc /\ CallerInv(c) /\ pc[c] = "rank"
      /\ req' = req /\ view' = view /\ CopyHosts(c)
  BY DEF IInv, Rank, Proc
<1>2. r \in Request /\ s \in Snapshot /\ f \in Family
  BY <1>1 DEF CallerInv, Choosing
<1>3. lists'[c] \in SUBSET HostLists /\ hosts \in lists'[c]
  BY <1>1, CopyHostsStep DEF CallerInv
<1>4. PicksHeldBuild(snap)'
  BY DEF IInv, Rank, PicksHeldBuild
<1> HIDE DEF s, r, f
<1>5. ASSUME NEW d \in DecisionRecord, Conclude(c, d), Right(s, hosts, r, d)
      PROVE  IInv'
  <2>1. /\ d.verdict \in Answered => \E list \in lists'[c] :
             MeetsContract(s, list, r, d)
        /\ \A list \in lists'[c] : lists'[c] = {list} => MeetsContract(s, list, r, d)
        /\ d.server # NoServer => ModelServed(s, r, d)
    BY <1>3, <1>5 DEF Right
  <2>2. /\ CallerInv(c)'
        /\ pc' \in [Proc -> Label] /\ pc'[c] \in Answering
        /\ decision' \in [Caller -> DecisionRecord \cup {NoDecision}]
        /\ \A q \in Proc \ {c} : pc'[q] = pc[q]
        /\ \A q \in Caller \ {c} : decision'[q] = decision[q]
    BY <1>1, <1>2, <1>3, <1>5, <2>1, Concludes DEF s, r
  <2>3. TypeOK' /\ OwnOnly(c)
    BY <1>1, <2>2, CopyHostsStep DEF IInv, TypeOK, Rank, OwnOnly
  <2>4. SurveyInv(c)'
    BY <2>2 DEF SurveyInv, Answering
  <2>5. QED
    BY <1>1, <1>4, <2>2, <2>3, <2>4, OwnSteps
<1>6. ASSUME Goto(c, "explain"), UNCHANGED decision,
             Candidates(s, hosts, f, r.profile) = {}
      PROVE  IInv'
  <2>1. TypeOK' /\ OwnOnly(c) /\ pc'[c] = "explain"
    BY <1>1, <1>6, CopyHostsStep DEF IInv, TypeOK, Rank, Goto, OwnOnly, Label
  <2>2. SurveyInv(c)'
    BY <2>1 DEF SurveyInv
  <2>3. decision'[c] = NoDecision
    BY <1>1, <1>6 DEF CallerInv, Answering
  <2>4. (AnswerMeets(c) /\ UndisturbedMeets(c) /\ NamedIsServed(c))'
    BY <2>3, UndecidedNext
  <2>5. \A list \in lists'[c] : lists'[c] = {list} =>
          Candidates(s, list, f, r.profile) = {}
    BY <1>3, <1>6
  <2>6. CallerInv(c)'
    BY <1>1, <1>2, <1>3, <2>1, <2>3, <2>4, <2>5
       DEF CallerInv, Asking, Choosing, Answering, AskedFamily, s, r, f
  <2>7. QED
    BY <1>1, <1>4, <2>1, <2>2, <2>6, OwnSteps
<1>7. QED
  BY <1>5, <1>6, RankDecides DEF s, r, f

\* Wording a refusal keeps IInv: when every copy of the hosts was the
\* same, none of its hosts is a candidate.
LEMMA ExplainStep ==
  ASSUME IInv, NEW c \in Caller, Explain(c)
  PROVE  IInv'
<1> DEFINE s == view[c]
           r == req[c]
           f == AskedFamily(c)
           v == UnansweredVerdict(s, hosts, f)
           d == Refusal(v, f, {})
<1>1. /\ c \in Proc /\ CallerInv(c) /\ pc[c] = "explain"
      /\ req' = req /\ view' = view /\ CopyHosts(c) /\ Conclude(c, d)
  BY DEF IInv, Explain, ExplainIn, Proc
<1>2. r \in Request /\ s \in Snapshot /\ f \in Family /\ f # NoFamily
  BY <1>1, InventoryAssumption DEF CallerInv, Choosing
<1>3. /\ lists'[c] \in SUBSET HostLists /\ hosts \in lists'[c] /\ hosts \in Seq(Host)
      /\ lists'[c] = lists[c] \cup {hosts}
  BY <1>1, CopyHostsStep DEF CallerInv
<1>4. v \in {"no-host", "unservable", "not-here"}
  BY DEF UnansweredVerdict
<1>5. d \in DecisionRecord
  BY <1>2, <1>4, RefusalType DEF Verdict
<1>6. d.verdict \notin Answered /\ d.server = NoServer
  BY <1>4 DEF Refusal, Answered
<1>7. ASSUME NEW list \in lists'[c], lists'[c] = {list}
      PROVE  MeetsContract(s, list, r, d)
  <2>1. hosts = list /\ lists[c] = {list} /\ list \in lists[c]
    BY <1>1, <1>3, <1>7 DEF CallerInv
  <2>2. Candidates(s, hosts, f, r.profile) = {}
    BY <1>1, <2>1 DEF CallerInv
  <2>3. QED
    BY <1>2, <1>3, <2>1, <2>2, UnansweredMeetsContract DEF AskedFamily
<1> HIDE DEF s, r, v, d
<1>8. /\ CallerInv(c)'
      /\ pc' \in [Proc -> Label] /\ pc'[c] \in Answering
      /\ decision' \in [Caller -> DecisionRecord \cup {NoDecision}]
      /\ \A q \in Proc \ {c} : pc'[q] = pc[q]
      /\ \A q \in Caller \ {c} : decision'[q] = decision[q]
  BY <1>1, <1>2, <1>3, <1>5, <1>6, <1>7, Concludes DEF s, r
<1>9. TypeOK' /\ OwnOnly(c)
  BY <1>1, <1>8, CopyHostsStep DEF IInv, TypeOK, Explain, OwnOnly
<1>10. SurveyInv(c)'
  BY <1>8 DEF SurveyInv, Answering
<1>11. PicksHeldBuild(snap)'
  BY DEF IInv, Explain, PicksHeldBuild
<1>12. QED
  BY <1>1, <1>8, <1>9, <1>10, <1>11, OwnSteps

\* Recording keeps the audit a sequence of no more than MaxAsked entries.
LEMMA PrependType ==
  ASSUME NEW e \in Ask, NEW s \in Seq(Ask), Len(s) <= MaxAsked
  PROVE  Prepend(e, s) \in Seq(Ask) /\ Len(Prepend(e, s)) <= MaxAsked
<1> DEFINE t == <<e>> \o s
           n == IF Len(s) < MaxAsked THEN Len(s) + 1 ELSE MaxAsked
<1>1. <<e>> \in Seq(Ask) /\ Len(<<e>>) = 1
  OBVIOUS
<1>2. t \in Seq(Ask) /\ Len(t) = 1 + Len(s)
  BY <1>1, ConcatProperties
<1>3. Len(s) \in Nat /\ MaxAsked \in Nat /\ MaxAsked > 0
  BY RouterAssumption, LenProperties
<1>4. n \in Nat /\ 1 <= n /\ n <= MaxAsked /\ n <= 1 + Len(s)
  BY <1>3
<1> HIDE DEF t, n
<1>5. SubSeq(t, 1, n) \in Seq(Ask) /\ Len(SubSeq(t, 1, n)) = n
  BY <1>2, <1>3, <1>4, SubSeqProperties
<1>6. QED
  BY <1>4, <1>5 DEF Prepend, t, n

\* Recording a decision keeps IInv.
LEMMA RecordStep ==
  ASSUME IInv, NEW c \in Caller, Record(c)
  PROVE  IInv'
<1>1. c \in Proc /\ CallerInv(c) /\ pc[c] = "record"
  BY DEF IInv, Record, Proc
<1>2. req[c] \in Request /\ decision[c] \in DecisionRecord
  BY <1>1 DEF CallerInv, Answering
<1>3. AskOf(c) \in Ask
  BY <1>2 DEF AskOf, Ask, Request, DecisionRecord
<1>4. asked' \in Seq(Ask) /\ Len(asked') <= MaxAsked
  BY <1>3, PrependType DEF IInv, TypeOK, Record
<1>5. TypeOK' /\ OwnOnly(c) /\ pc'[c] = "done"
  BY <1>1, <1>4 DEF IInv, TypeOK, Record, Goto, OwnOnly, Label
<1>6. SurveyInv(c)'
  BY <1>5 DEF SurveyInv
<1>7. CallerInv(c)'
  BY <1>1, <1>5 DEF Record, CallerInv, Asking, Choosing, Answering, AskedFamily,
     AnswerMeets, UndisturbedMeets, NamedIsServed, Decided
<1>8. PicksHeldBuild(snap)'
  BY DEF IInv, Record, PicksHeldBuild
<1>9. QED
  BY <1>1, <1>5, <1>6, <1>7, <1>8, OwnSteps

\* Returning an answer keeps IInv.
LEMMA ReturnStep ==
  ASSUME IInv, NEW c \in Caller, Return(c)
  PROVE  IInv'
<1>1. c \in Proc
  BY DEF Proc
<1>2. /\ TypeOK' /\ OwnOnly(c) /\ pc'[c] = "idle"
      /\ lists'[c] = {} /\ decision'[c] = NoDecision
  BY <1>1 DEF IInv, TypeOK, Return, Goto, OwnOnly, Label
<1>3. SurveyInv(c)'
  BY <1>2 DEF SurveyInv
<1>4. (AnswerMeets(c) /\ UndisturbedMeets(c) /\ NamedIsServed(c))'
  BY <1>2, UndecidedNext
<1>5. CallerInv(c)'
  BY <1>2, <1>4 DEF CallerInv, Asking, Choosing, Answering
<1>6. PicksHeldBuild(snap)'
  BY DEF IInv, Return, PicksHeldBuild
<1>7. QED
  BY <1>1, <1>2, <1>3, <1>5, <1>6, OwnSteps

-----------------------------------------------------------------------------
(* The theorems *)

\* Every step of the router keeps IInv.
LEMMA NextIInv == IInv /\ [Next]_vars => IInv'
<1> SUFFICES ASSUME IInv, [Next]_vars PROVE IInv'
  OBVIOUS
<1>1. CASE UNCHANGED vars
  <2>1. TypeOK'
    BY <1>1 DEF IInv, TypeOK, vars
  <2>2. ASSUME NEW p \in Proc PROVE SurveyInv(p)'
    BY <1>1, SurveyFrame DEF IInv, vars
  <2>3. ASSUME NEW c \in Caller PROVE CallerInv(c)'
    BY <1>1, CallerFrame DEF IInv, vars
  <2>4. PicksHeldBuild(snap)'
    BY <1>1 DEF IInv, vars, PicksHeldBuild
  <2>5. QED
    BY <2>1, <2>2, <2>3, <2>4 DEF IInv
<1>2. CASE SetHosts \/ SetHeld
  BY <1>2, ConfigurationStep
<1>3. ASSUME NEW p \in Proc, SurveyStep(p) PROVE IInv'
  BY <1>3, ReadHostStep, ComposeStep, PublishStep DEF SurveyStep
<1>4. ASSUME NEW p \in Poller, PollTick(p) \/ PollStop(p) PROVE IInv'
  BY <1>4, PollTickStep, PollStopStep
<1>5. ASSUME NEW c \in Caller, AskFresh(c) \/ AskCached(c) \/ Cancel(c)
      PROVE  IInv'
  BY <1>5, AskFreshStep, AskCachedStep, CancelStep
<1>6. ASSUME NEW c \in Caller, DecisionStep(c) PROVE IInv'
  BY <1>6, ReadLatestStep, RefuseNameStep, CheckProfileStep, RankStep,
     ExplainStep, RecordStep, ReturnStep DEF DecisionStep
<1>7. QED
  BY <1>1, <1>2, <1>3, <1>4, <1>5, <1>6 DEF Next

\* IInv holds in every behaviour of the router.
THEOREM RouterInvariant == Spec => []IInv
BY InitIInv, NextIInv, PTL DEF Spec

\* Every variable keeps its type, and the audit never exceeds MaxAsked entries.
THEOREM TypeCorrect == Spec => []TypeOK
<1>1. IInv => TypeOK
  BY DEF IInv
<1>2. QED
  BY <1>1, RouterInvariant, PTL

\* For any hosts, callers and pollers, and however SetHosts and surveys
\* interleave with a decision, one that names a host or withholds hosts is what
\* ROUTE-E1 asks for under the snapshot it read and one list that was
\* configured while it decided.
THEOREM AnswersMeetContract == Spec => []AnswerMeetsContract
<1>1. IInv => AnswerMeetsContract
  BY DEF IInv, CallerInv, AnswerMeetsContract
<1>2. QED
  BY <1>1, RouterInvariant, PTL

\* A decision no SetHosts overlaps, refusals included, is the contract's.
THEOREM UndisturbedMeetContract == Spec => []UndisturbedMeetsContract
<1>1. IInv => UndisturbedMeetsContract
  BY DEF IInv, CallerInv, UndisturbedMeetsContract
<1>2. QED
  BY <1>1, RouterInvariant, PTL

\* The model a decision names is a build of the family, catalogued on and
\* served by the server named, held there when the verdict is resident.
THEOREM NamedModelsAreServed == Spec => []NamedModelIsServed
<1>1. IInv => NamedModelIsServed
  BY DEF IInv, CallerInv, NamedModelIsServed
<1>2. QED
  BY <1>1, RouterInvariant, PTL

\* The published snapshot names, for a server and a family, a build the server
\* holds whenever it holds one, and no server that was down.
THEOREM SnapshotsPickHeldBuild == Spec => []SnapshotPicksHeldBuild
<1>1. IInv => SnapshotPicksHeldBuild
  BY DEF IInv, SnapshotPicksHeldBuild
<1>2. QED
  BY <1>1, RouterInvariant, PTL

-----------------------------------------------------------------------------
(* The router implements Picks: every step of a goroutine is one of what   *)
(* Picks promises, or none.                                                *)

Looking == Choosing \cup Answering

\* Where a goroutine goes tells where its caller stands.
LEMMA PhaseStep ==
  ASSUME IInv, NEW p \in Proc, NEW l \in Label, Goto(p, l)
  PROVE  /\ p \in Caller => Phases' = [Phases EXCEPT ![p] = Phase(l)]
         /\ p \notin Caller \/ Phase(l) = Phase(pc[p]) => Phases' = Phases
         /\ pc'[p] = l /\ \A q \in Proc \ {p} : pc'[q] = pc[q]
<1>1. pc \in [Proc -> Label] /\ \A c \in Caller : c \in Proc
  BY DEF IInv, TypeOK, Proc
<1>2. pc'[p] = l /\ \A q \in Proc \ {p} : pc'[q] = pc[q]
  BY <1>1 DEF Goto
<1>3. \A c \in Caller : Phases[c] = Phase(pc[c])
  BY DEF Phases
<1>4. Phases' = [c \in Caller |-> Phase(pc'[c])]
  BY DEF Phases, Phase, Choosing
<1>5. Phases = [c \in Caller |-> Phase(pc[c])]
  BY DEF Phases
<1>6. \A c \in Caller : c # p => Phase(pc'[c]) = Phase(pc[c])
  BY <1>1, <1>2
<1>7. QED
  BY <1>2, <1>4, <1>5, <1>6

\* A step that moves one goroutine moves no other caller's view.
LEMMA ViewStep ==
  ASSUME IInv, NEW p \in Proc,
         \A q \in Proc \ {p} : pc'[q] = pc[q] /\ view'[q] = view[q]
  PROVE  /\ p \notin Caller => Views' = Views
         /\ p \in Caller /\ pc'[p] \in Looking =>
              Views' = [Views EXCEPT ![p] = view'[p]]
         /\ p \in Caller /\ pc'[p] \notin Looking =>
              Views' = [Views EXCEPT ![p] = NoSnapshot]
         /\ pc[p] \notin Looking /\ pc'[p] \notin Looking => Views' = Views
         /\ pc[p] \in Looking /\ pc'[p] \in Looking /\ view'[p] = view[p] =>
              Views' = Views
<1> DEFINE of(l, v) == IF l \in Choosing \cup Answering THEN v ELSE NoSnapshot
<1>1. /\ Views = [c \in Caller |-> of(pc[c], view[c])]
      /\ Views' = [c \in Caller |-> of(pc'[c], view'[c])]
  BY DEF Views, Choosing, Answering
<1>2. \A l, v : of(l, v) = IF l \in Looking THEN v ELSE NoSnapshot
  BY DEF Looking
<1> HIDE DEF of
<1>3. \A c \in Caller : c # p => of(pc'[c], view'[c]) = of(pc[c], view[c])
  BY DEF Proc
<1>4. QED
  BY <1>1, <1>2, <1>3

\* The labels of each phase.
LEMMA PhaseCases ==
  /\ Phase("idle") = "idle"
  /\ Phase("reading") = "asked" /\ Phase("composed") = "asked"
  /\ Phase("latest") = "surveyed"
  /\ \A l \in Choosing : Phase(l) = "looked"
  /\ Phase("record") = "decided" /\ Phase("done") = "answered"
  /\ \A l \in {"idle", "reading", "composed", "latest", "stopped"} : l \notin Looking
  /\ \A l \in Choosing : l \in Looking
  /\ "record" \in Looking /\ "done" \in Looking
BY DEF Phase, Choosing, Answering, Looking

\* What a caller shows of its label and of the snapshot it decides from.
LEMMA Shown ==
  ASSUME NEW c \in Caller
  PROVE  /\ Phases[c] = Phase(pc[c])
         /\ pc[c] \in Looking => Views[c] = view[c]
BY DEF Phases, Views, Looking

\* A router starts as Picks does.
LEMMA PicksInit == Init => Promised!Init
<1> SUFFICES ASSUME Init PROVE Promised!Init
  OBVIOUS
<1>1. \A c \in Caller : pc[c] = "idle"
  BY DEF Init, Proc
<1>2. Phases = [c \in Caller |-> "idle"]
  BY <1>1, PhaseCases DEF Phases
<1>3. Views = [c \in Caller |-> NoSnapshot]
  BY <1>1, PhaseCases DEF Views, Looking
<1>4. QED
  BY <1>2, <1>3 DEF Init, Promised!Init

\* A survey is nothing to a caller but what it publishes.
LEMMA PicksSurvey ==
  ASSUME IInv, NEW p \in Proc, ReadHost(p) \/ Compose(p)
  PROVE  UNCHANGED Promised!vars
<1>1. CASE ReadHost(p)
  BY <1>1 DEF ReadHost, Promised!vars, Promised!calls, Phases, Views
<1>2. CASE Compose(p)
  <2>1. /\ Goto(p, "composed") /\ pc[p] = "reading" /\ "composed" \in Label
        /\ \A q \in Proc \ {p} : view'[q] = view[q]
    BY <1>2 DEF Compose, IInv, TypeOK, Label
  <2>2. Phases' = Phases /\ pc'[p] = "composed" /\ \A q \in Proc \ {p} : pc'[q] = pc[q]
    BY <2>1, PhaseStep, PhaseCases
  <2>3. Views' = Views
    BY <2>1, <2>2, ViewStep, PhaseCases
  <2>4. QED
    BY <1>2, <2>2, <2>3 DEF Compose, Promised!vars, Promised!calls
<1>3. QED
  BY <1>1, <1>2

\* Publishing is what a caller waits for, or a survey nobody waits for.
LEMMA PicksPublish ==
  ASSUME IInv, NEW p \in Proc, Publish(p)
  PROVE  Promised!Publish \/ (p \in Caller /\ Promised!SurveyFor(p))
<1>1. /\ pc[p] = "composed" /\ snap' = view[p] /\ snap' \in Surveyed
      /\ \A q \in Proc \ {p} : view'[q] = view[q]
      /\ UNCHANGED <<hosts, asked, req, lists, decision>>
  BY DEF Publish, IInv, SurveyInv, GoodSnapshot, TypeOK
<1>2. CASE p \notin Caller
  <2>1. Goto(p, "idle") /\ "idle" \in Label
    BY <1>2 DEF Publish, Proc, Label
  <2>2. Phases' = Phases /\ \A q \in Proc \ {p} : pc'[q] = pc[q]
    BY <1>2, <2>1, PhaseStep
  <2>3. Views' = Views
    BY <1>1, <1>2, <2>2, ViewStep
  <2>4. QED
    BY <1>1, <2>2, <2>3 DEF Promised!Publish, Promised!calls
<1>3. CASE p \in Caller
  <2>1. Goto(p, "latest") /\ "latest" \in Label
    BY <1>3, RouterAssumption DEF Publish, Label
  <2>2. /\ Phases' = [Phases EXCEPT ![p] = "surveyed"] /\ pc'[p] = "latest"
        /\ \A q \in Proc \ {p} : pc'[q] = pc[q]
    BY <1>3, <2>1, PhaseStep, PhaseCases
  <2>3. Views' = Views
    BY <1>1, <2>2, ViewStep, PhaseCases
  <2>4. Phases[p] = "asked"
    BY <1>1, <1>3, Shown, PhaseCases
  <2>5. QED
    BY <1>1, <1>3, <2>2, <2>3, <2>4 DEF Promised!SurveyFor, Promised!Goto
<1>4. QED
  BY <1>2, <1>3

\* Poll's own steps are nothing to a caller.
LEMMA PicksPoll ==
  ASSUME IInv, NEW p \in Poller, PollTick(p) \/ PollStop(p)
  PROVE  UNCHANGED Promised!vars
<1>1. p \in Proc /\ p \notin Caller /\ {"reading", "stopped"} \subseteq Label
  BY RouterAssumption DEF Proc, Label
<1>2. Goto(p, "reading") \/ Goto(p, "stopped")
  BY DEF PollTick, PollStop, StartSurvey, StartSurveyOf
<1>3. /\ UNCHANGED <<hosts, snap, asked, req, lists, decision>>
      /\ \A q \in Proc \ {p} : view'[q] = view[q]
  BY DEF PollTick, PollStop
<1>4. Phases' = Phases /\ \A q \in Proc \ {p} : pc'[q] = pc[q]
  BY <1>1, <1>2, PhaseStep
<1>5. Views' = Views
  BY <1>1, <1>3, <1>4, ViewStep
<1>6. QED
  BY <1>3, <1>4, <1>5 DEF Promised!vars, Promised!calls

-----------------------------------------------------------------------------
(* A caller on its way to a decision *)

\* A fresh request is one of Picks, whatever its survey copies.
LEMMA PicksAskFresh ==
  ASSUME IInv, NEW c \in Caller, AskFresh(c)
  PROVE  Promised!AskFresh(c)
<1>1. /\ c \in Proc /\ pc[c] = "idle" /\ Goto(c, "reading") /\ "reading" \in Label
      /\ \A q \in Proc \ {c} : view'[q] = view[q]
  BY DEF AskFresh, StartSurvey, StartSurveyOf, Proc, Label
<1>2. /\ Phases' = [Phases EXCEPT ![c] = "asked"] /\ pc'[c] = "reading"
      /\ \A q \in Proc \ {c} : pc'[q] = pc[q]
  BY <1>1, PhaseStep, PhaseCases
<1>3. Views' = Views
  BY <1>1, <1>2, ViewStep, PhaseCases
<1>4. Phases[c] = "idle"
  BY <1>1, Shown, PhaseCases
<1>5. QED
  BY <1>2, <1>3, <1>4 DEF AskFresh, Promised!AskFresh, Promised!Goto

\* So is any other.
LEMMA PicksAskCached ==
  ASSUME IInv, NEW c \in Caller, AskCached(c)
  PROVE  Promised!AskCached(c)
<1>1. /\ c \in Proc /\ pc[c] = "idle" /\ Goto(c, "profile")
      /\ "profile" \in Label /\ "profile" \in Choosing
      /\ view'[c] = snap /\ \A q \in Proc \ {c} : view'[q] = view[q]
  BY DEF AskCached, Proc, Label, Choosing, IInv, TypeOK
<1>2. /\ Phases' = [Phases EXCEPT ![c] = "looked"] /\ pc'[c] = "profile"
      /\ \A q \in Proc \ {c} : pc'[q] = pc[q]
  BY <1>1, PhaseStep, PhaseCases
<1>3. Views' = [Views EXCEPT ![c] = snap]
  BY <1>1, <1>2, ViewStep, PhaseCases
<1>4. Phases[c] = "idle"
  BY <1>1, Shown, PhaseCases
<1>5. QED
  BY <1>2, <1>3, <1>4 DEF AskCached, Promised!AskCached, Promised!Goto

\* Reading the snapshot back is the look at it.
LEMMA PicksLook ==
  ASSUME IInv, NEW c \in Caller, ReadLatest(c)
  PROVE  Promised!Look(c)
<1>1. /\ c \in Proc /\ pc[c] = "latest" /\ Goto(c, "profile")
      /\ "profile" \in Label /\ "profile" \in Choosing
      /\ view'[c] = snap /\ \A q \in Proc \ {c} : view'[q] = view[q]
  BY DEF ReadLatest, Proc, Label, Choosing, IInv, TypeOK
<1>2. /\ Phases' = [Phases EXCEPT ![c] = "looked"] /\ pc'[c] = "profile"
      /\ \A q \in Proc \ {c} : pc'[q] = pc[q]
  BY <1>1, PhaseStep, PhaseCases
<1>3. Views' = [Views EXCEPT ![c] = snap]
  BY <1>1, <1>2, ViewStep, PhaseCases
<1>4. Phases[c] = "surveyed"
  BY <1>1, Shown, PhaseCases
<1>5. QED
  BY <1>2, <1>3, <1>4 DEF ReadLatest, Promised!Look, Promised!Goto

\* A caller that gives up leaves the survey it had in hand and nothing else.
LEMMA PicksGiveUp ==
  ASSUME IInv, NEW c \in Caller, Cancel(c)
  PROVE  Promised!GiveUp(c)
<1>1. /\ c \in Proc /\ pc[c] \in {"reading", "composed", "latest"}
      /\ Goto(c, "idle") /\ "idle" \in Label
      /\ \A q \in Proc \ {c} : view'[q] = view[q]
  BY DEF Cancel, Proc, Label, IInv, TypeOK
<1>2. /\ Phases' = [Phases EXCEPT ![c] = "idle"] /\ pc'[c] = "idle"
      /\ \A q \in Proc \ {c} : pc'[q] = pc[q]
  BY <1>1, PhaseStep, PhaseCases
<1>3. Views' = Views
  BY <1>1, <1>2, ViewStep, PhaseCases
<1>4. Phases[c] \in {"asked", "surveyed"}
  BY <1>1, Shown, PhaseCases
<1>5. QED
  BY <1>2, <1>3, <1>4 DEF Cancel, Promised!GiveUp, Promised!Goto

-----------------------------------------------------------------------------
(* Deciding *)

\* A look that decides nothing.
LEMMA PicksGlance ==
  ASSUME IInv, NEW c \in Caller, NEW l \in Choosing, pc[c] \in Choosing,
         Goto(c, l), CopyHosts(c),
         UNCHANGED <<hosts, snap, asked, req, view, decision>>
  PROVE  Promised!Glance(c)
<1>1. c \in Proc /\ l \in Label
  BY DEF Proc, Label, Choosing
<1>2. /\ Phases' = Phases /\ pc'[c] = l
      /\ \A q \in Proc \ {c} : pc'[q] = pc[q]
  BY <1>1, PhaseStep, PhaseCases
<1>3. Views' = Views
  BY <1>1, <1>2, ViewStep, PhaseCases
<1>4. Phases[c] = "looked"
  BY Shown, PhaseCases
<1>5. QED
  BY <1>2, <1>3, <1>4 DEF CopyHosts, Promised!Glance, Promised!Looks

\* A caller that concludes rightly, or with what may be conceded, decides.
LEMMA PicksDecide ==
  ASSUME IInv, NEW c \in Caller, NEW d \in DecisionRecord, Conclude(c, d),
         pc[c] \in Choosing, CopyHosts(c) \/ UNCHANGED lists,
         UNCHANGED <<hosts, snap, asked, req, view>>,
         \/ Right(view[c], hosts, req[c], d)
         \/ lists'[c] \ {hosts} # {} /\ Conceded(view[c], req[c], d)
  PROVE  Promised!Decide(c)
<1> DEFINE l == IF req[c].audited THEN "record" ELSE "done"
<1>1. c \in Proc /\ l \in Label /\ l \in Answering /\ Goto(c, l)
  BY DEF Proc, Label, Answering, Conclude
<1>2. Phase(l) = IF req[c].audited THEN "decided" ELSE "answered"
  BY PhaseCases
<1> HIDE DEF l
<1>3. /\ Phases' = [Phases EXCEPT ![c] = Phase(l)] /\ pc'[c] = l
      /\ \A q \in Proc \ {c} : pc'[q] = pc[q]
  BY <1>1, PhaseStep
<1>4. Views' = Views
  BY <1>1, <1>3, ViewStep DEF Looking
<1>5. Phases[c] = "looked" /\ Views[c] = view[c]
  BY Shown, PhaseCases
<1>6. decision' = [decision EXCEPT ![c] = d] /\ decision'[c] = d
  BY DEF Conclude, IInv, TypeOK
<1>7. CopyHosts(c) => Promised!Looks(c)
  BY DEF CopyHosts, Promised!Looks
<1>8. QED
  BY <1>2, <1>3, <1>4, <1>5, <1>6, <1>7 DEF Promised!Decide, Promised!Goto

\* Refusing a name of no family is right of every configuration.
LEMMA PicksRefuseName ==
  ASSUME IInv, NEW c \in Caller, RefuseName(c)
  PROVE  Promised!Decide(c)
<1> DEFINE d == Refusal("unparseable", NoFamily, {})
<1>1. d \in DecisionRecord
  BY RefusalType DEF Verdict
<1>2. d.server = NoServer
  BY DEF Refusal
<1>3. MeetsContract(view[c], hosts, req[c], d)
  BY DEF RefuseName, MeetsContract, Refusal, AskedFamily
<1>4. Conclude(c, d) /\ pc[c] \in Choosing
  BY DEF RefuseName, Choosing
<1> HIDE DEF d
<1>5. Right(view[c], hosts, req[c], d)
  BY <1>2, <1>3 DEF Right
<1>6. QED
  BY <1>1, <1>4, <1>5, PicksDecide DEF RefuseName

\* Checking the profile is a look, or decides rightly that no host serves it.
LEMMA PicksCheckProfile ==
  ASSUME IInv, NEW c \in Caller, CheckProfile(c)
  PROVE  Promised!Glance(c) \/ Promised!Decide(c)
<1> DEFINE f == AskedFamily(c)
           d == Refusal("no-host", f, {})
<1>1. /\ pc[c] \in Choosing /\ "rank" \in Choosing /\ CopyHosts(c) /\ f # NoFamily
      /\ UNCHANGED <<hosts, snap, asked, req, view>>
  BY DEF CheckProfile, Choosing
<1>2. CASE Goto(c, "rank") /\ UNCHANGED decision
  BY <1>1, <1>2, PicksGlance
<1>3. CASE ~ AnyServes(view[c], hosts, req[c].profile) /\ Conclude(c, d)
  <2>1. f \in Family \cup {NoFamily}
    <3>1. req[c] \in Request /\ view[c] \in Snapshot
      BY <1>1 DEF IInv, CallerInv
    <3>2. req[c].model \in Model
      BY <3>1 DEF Request
    <3>3. QED
      BY <3>1, <3>2, FamilyAskedType DEF AskedFamily
  <2>2. d \in DecisionRecord
    BY <2>1, RefusalType DEF Verdict
  <2>3. d.server = NoServer
    BY DEF Refusal
  <2>4. hosts \in Seq(Host)
    BY RouterAssumption DEF IInv, TypeOK
  <2>5. MeetsContract(view[c], hosts, req[c], d)
    BY <1>1, <1>3, <2>4, NoneServesMeetsContract DEF AskedFamily
  <2> HIDE DEF d
  <2>6. Right(view[c], hosts, req[c], d)
    BY <2>3, <2>5 DEF Right
  <2>7. QED
    BY <1>1, <1>3, <2>2, <2>6, PicksDecide
<1>4. QED
  BY <1>2, <1>3 DEF CheckProfile

\* Ranking is a look, or decides rightly of the hosts ranked.
LEMMA PicksRank ==
  ASSUME IInv, NEW c \in Caller, Rank(c)
  PROVE  Promised!Glance(c) \/ Promised!Decide(c)
<1>1. /\ pc[c] \in Choosing /\ "explain" \in Choosing /\ CopyHosts(c)
      /\ UNCHANGED <<hosts, snap, asked, req, view>>
  BY DEF Rank, Choosing
<1>2. CASE \E d \in DecisionRecord :
             Conclude(c, d) /\ Right(view[c], hosts, req[c], d)
  BY <1>1, <1>2, PicksDecide
<1>3. CASE Goto(c, "explain") /\ UNCHANGED decision
  BY <1>1, <1>3, PicksGlance
<1>4. QED
  BY <1>2, <1>3, RankDecides

\* When every look at the hosts found the same, none of them is a candidate;
\* when one did not, the refusal is conceded.
LEMMA PicksExplain ==
  ASSUME IInv, NEW c \in Caller, Explain(c)
  PROVE  Promised!Decide(c)
<1> DEFINE s == view[c]
           r == req[c]
           f == AskedFamily(c)
           v == UnansweredVerdict(s, hosts, f)
           d == Refusal(v, f, {})
<1>1. /\ CallerInv(c) /\ pc[c] = "explain" /\ pc[c] \in Choosing
      /\ CopyHosts(c) /\ Conclude(c, d)
      /\ UNCHANGED <<hosts, snap, asked, req, view>>
  BY DEF IInv, Explain, ExplainIn, Choosing
<1>2. r \in Request /\ s \in Snapshot /\ f \in Family /\ f # NoFamily
  BY <1>1, InventoryAssumption DEF CallerInv
<1>3. hosts \in Seq(Host) /\ lists'[c] = lists[c] \cup {hosts} /\ lists[c] # {}
  BY <1>1, CopyHostsStep DEF CallerInv
<1>4. v \in {"no-host", "unservable", "not-here"}
  BY DEF UnansweredVerdict
<1>5. d \in DecisionRecord /\ d.server = NoServer
  <2>1. v \in Verdict
    BY <1>4 DEF Verdict
  <2>2. QED
    BY <1>2, <2>1, RefusalType DEF Refusal
<1>6. Conceded(s, r, d)
  BY <1>4 DEF Conceded, AskedFamily
<1>7. CASE lists[c] = {hosts}
  <2>1. Candidates(s, hosts, f, r.profile) = {}
    BY <1>1, <1>7 DEF CallerInv
  <2>2. MeetsContract(s, hosts, r, d)
    BY <1>2, <1>3, <2>1, UnansweredMeetsContract DEF AskedFamily
  <2> HIDE DEF d, s, r
  <2>3. Right(s, hosts, r, d)
    BY <1>5, <2>2 DEF Right
  <2>4. QED
    BY <1>1, <1>5, <2>3, PicksDecide DEF s, r
<1>8. CASE lists[c] # {hosts}
  <2>1. lists'[c] \ {hosts} # {}
    BY <1>3, <1>8
  <2> HIDE DEF d, s, r
  <2>2. QED
    BY <1>1, <1>5, <1>6, <2>1, PicksDecide DEF s, r
<1>9. QED
  BY <1>7, <1>8

\* Returning clears what Picks clears.
LEMMA PicksReturn ==
  ASSUME IInv, NEW c \in Caller, Return(c)
  PROVE  Promised!Return(c)
<1>1. /\ c \in Proc /\ pc[c] = "done" /\ Goto(c, "idle") /\ "idle" \in Label
      /\ \A q \in Proc \ {c} : view'[q] = view[q]
  BY DEF Return, Proc, Label, IInv, TypeOK
<1>2. /\ Phases' = [Phases EXCEPT ![c] = "idle"] /\ pc'[c] = "idle"
      /\ \A q \in Proc \ {c} : pc'[q] = pc[q]
  BY <1>1, PhaseStep, PhaseCases
<1>3. Views' = [Views EXCEPT ![c] = NoSnapshot]
  BY <1>1, <1>2, ViewStep, PhaseCases
<1>4. Phases[c] = "answered"
  BY <1>1, Shown, PhaseCases
<1>5. QED
  BY <1>2, <1>3, <1>4 DEF Return, Promised!Return, Promised!Goto

-----------------------------------------------------------------------------
(* The audit: no answered decision leaves it out of turn                   *)

\* AuditKeepsAnswered needs the entries typed and newer counted within bounds.
AuditInv ==
  /\ IInv
  /\ newer \in [Caller -> 0..MaxAsked]
  /\ AuditKeepsAnswered

\* A step that records nothing: an audited caller is answered after it only if
\* it was before, by the same decision.
Quiet ==
  /\ asked' = asked
  /\ ~ RecordsOne
  /\ \A c \in Caller : pc'[c] = "done" /\ req'[c].audited =>
       /\ pc[c] = "done"
       /\ req'[c] = req[c] /\ decision'[c] = decision[c]

-----------------------------------------------------------------------------

\* A recorded entry is first, and the others move one place towards the end.
LEMMA PrependEntries ==
  ASSUME NEW e \in Ask, NEW s \in Seq(Ask), Len(s) <= MaxAsked
  PROVE  /\ Len(Prepend(e, s)) = IF Len(s) < MaxAsked THEN Len(s) + 1 ELSE MaxAsked
         /\ Prepend(e, s)[1] = e
         /\ \A i \in 1..Len(s) : i < MaxAsked => Prepend(e, s)[i + 1] = s[i]
<1> DEFINE t == <<e>> \o s
           n == IF Len(s) < MaxAsked THEN Len(s) + 1 ELSE MaxAsked
<1>1. <<e>> \in Seq(Ask) /\ Len(<<e>>) = 1 /\ <<e>>[1] = e
  OBVIOUS
<1>2. Len(s) \in Nat /\ MaxAsked \in Nat /\ MaxAsked > 0
  BY RouterAssumption, LenProperties
<1>3. /\ t \in Seq(Ask) /\ Len(t) = 1 + Len(s)
      /\ t[1] = e
      /\ \A i \in 1..Len(s) : t[i + 1] = s[i]
  BY <1>1, <1>2, ConcatProperties
<1>4. n \in Nat /\ 1 <= n /\ n <= MaxAsked /\ n <= 1 + Len(s)
  BY <1>2
<1>5. \A i \in 1..Len(s) : i < MaxAsked => i + 1 <= n
  BY <1>2
<1> HIDE DEF t, n
<1>6. /\ Len(SubSeq(t, 1, n)) = n
      /\ \A i \in 1..n : SubSeq(t, 1, n)[i] = t[i]
  BY <1>2, <1>3, <1>4, SubSeqProperties
<1>7. SubSeq(t, 1, n)[1] = e
  BY <1>3, <1>4, <1>6
<1>8. ASSUME NEW i \in 1..Len(s), i < MaxAsked
      PROVE  SubSeq(t, 1, n)[i + 1] = s[i]
  BY <1>2, <1>3, <1>4, <1>5, <1>6, <1>8
<1>9. QED
  BY <1>6, <1>7, <1>8 DEF Prepend, t, n

\* Recording puts what was decided first.
LEMMA PicksRecord ==
  ASSUME IInv, NEW c \in Caller, Record(c)
  PROVE  Promised!Record(c)
<1>1. /\ c \in Proc /\ CallerInv(c) /\ pc[c] = "record" /\ Goto(c, "done")
      /\ "done" \in Label /\ view' = view
  BY DEF IInv, Record, Proc, Label
<1>2. req[c] \in Request /\ decision[c] \in DecisionRecord
  BY <1>1 DEF CallerInv, Answering
<1>3. AskOf(c) \in Ask
  BY <1>2 DEF AskOf, Ask, Request, DecisionRecord
<1>4. asked \in Seq(Ask) /\ Len(asked) <= MaxAsked
  BY DEF IInv, TypeOK
<1>5. /\ Len(asked') = IF Len(asked) < MaxAsked THEN Len(asked) + 1 ELSE MaxAsked
      /\ asked'[1] = AskOf(c)
      /\ \A i \in 1..Len(asked) : i < MaxAsked => asked'[i + 1] = asked[i]
  BY <1>3, <1>4, PrependEntries DEF Record
<1>6. /\ Phases' = [Phases EXCEPT ![c] = "answered"] /\ pc'[c] = "done"
      /\ \A q \in Proc \ {c} : pc'[q] = pc[q]
  BY <1>1, PhaseStep, PhaseCases
<1>7. Views' = Views
  BY <1>1, <1>6, ViewStep, PhaseCases
<1>8. Phases[c] = "decided"
  BY <1>1, Shown, PhaseCases
<1>9. QED
  BY <1>5, <1>6, <1>7, <1>8 DEF Record, AskOf, Promised!Record, Promised!Goto

\* Every step of the router is a step of Picks or none.
LEMMA PicksNext == IInv /\ [Next]_vars => [Promised!Next]_Promised!vars
<1> SUFFICES ASSUME IInv, [Next]_vars PROVE [Promised!Next]_Promised!vars
  OBVIOUS
<1>1. CASE UNCHANGED vars
  BY <1>1 DEF vars, Promised!vars, Promised!calls, Phases, Views
<1>2. CASE SetHosts
  <2>1. Promised!Configure
    BY <1>2 DEF SetHosts, Promised!Configure, Promised!calls, Phases, Views
  <2>2. QED
    BY <2>1 DEF Promised!Next
<1>3. CASE SetHeld
  BY <1>3 DEF SetHeld, Promised!vars, Promised!calls, Phases, Views
<1>4. ASSUME NEW p \in Proc, SurveyStep(p)
      PROVE  [Promised!Next]_Promised!vars
  <2>1. CASE ReadHost(p) \/ Compose(p)
    BY <2>1, PicksSurvey
  <2>2. CASE Publish(p)
    BY <2>2, PicksPublish DEF Promised!Next
  <2>3. QED
    BY <1>4, <2>1, <2>2 DEF SurveyStep
<1>5. ASSUME NEW p \in Poller, PollTick(p) \/ PollStop(p)
      PROVE  UNCHANGED Promised!vars
  BY <1>5, PicksPoll
<1>6. ASSUME NEW c \in Caller, AskFresh(c) \/ AskCached(c) \/ Cancel(c)
      PROVE  Promised!Next
  BY <1>6, PicksAskFresh, PicksAskCached, PicksGiveUp DEF Promised!Next
<1>7. ASSUME NEW c \in Caller, DecisionStep(c) PROVE Promised!Next
  BY <1>7, PicksLook, PicksRefuseName, PicksCheckProfile, PicksRank,
     PicksExplain, PicksRecord, PicksReturn DEF DecisionStep, Promised!Next
<1>8. QED
  BY <1>1, <1>2, <1>3, <1>4, <1>5, <1>6, <1>7 DEF Next

\* For any hosts, callers and pollers the router implements Picks: each of its
\* steps is a step of callers that decide from one snapshot and one look at
\* the configuration, or is none of theirs (router.go Route, SurveyContext).
THEOREM ImplementsPicks == Spec => PicksKept
<1>1. Spec => Promised!Spec
  BY PicksInit, PicksNext, RouterInvariant, PTL DEF Spec, Promised!Spec
<1>2. QED
  BY <1>1 DEF PicksKept

\* A caller that concludes is answered at once only when nothing is to record.
LEMMA ConcludeQuiet ==
  ASSUME IInv, NEW c \in Caller, NEW d, Conclude(c, d), pc[c] \in Choosing,
         req' = req, asked' = asked
  PROVE  Quiet
<1>1. /\ pc' = [pc EXCEPT ![c] = IF req[c].audited THEN "record" ELSE "done"]
      /\ decision' = [decision EXCEPT ![c] = d]
      /\ c \in Proc /\ \A q \in Caller : q \in Proc
      /\ pc \in [Proc -> Label] /\ decision \in [Caller -> DecisionRecord \cup {NoDecision}]
  BY DEF Conclude, Goto, Proc, IInv, TypeOK
<1>2. \A q \in Caller \ {c} : pc'[q] = pc[q] /\ decision'[q] = decision[q]
  BY <1>1
<1>3. pc[c] # "record" /\ (pc'[c] = "done" => ~ req[c].audited)
  BY <1>1 DEF Choosing
<1>4. ~ RecordsOne
  BY <1>2, <1>3 DEF RecordsOne
<1>5. QED
  BY <1>2, <1>3, <1>4 DEF Quiet

\* Every step but Record is quiet.
LEMMA OtherStepsQuiet ==
  ASSUME IInv, [Next]_vars, ~ \E c \in Caller : Record(c)
  PROVE  Quiet
<1>1. CASE UNCHANGED vars
  BY <1>1 DEF vars, Quiet, RecordsOne
<1>2. CASE SetHosts \/ SetHeld
  BY <1>2 DEF SetHosts, SetHeld, Quiet, RecordsOne
<1>3. pc \in [Proc -> Label] /\ Caller \subseteq Proc /\ Poller \subseteq Proc
  BY DEF IInv, TypeOK, Proc
<1>4. ASSUME NEW p \in Proc, SurveyStep(p) PROVE Quiet
  <2>1. CASE ReadHost(p)
    BY <2>1 DEF ReadHost, Quiet, RecordsOne
  <2>2. CASE Compose(p)
    BY <2>2, <1>3 DEF Compose, Goto, Quiet, RecordsOne
  <2>3. CASE Publish(p)
    BY <2>3, <1>3 DEF Publish, Goto, Quiet, RecordsOne
  <2>4. QED
    BY <1>4, <2>1, <2>2, <2>3 DEF SurveyStep
<1>5. ASSUME NEW p \in Poller, PollTick(p) \/ PollStop(p) PROVE Quiet
  BY <1>3, <1>5 DEF PollTick, PollStop, StartSurvey, StartSurveyOf, Goto, Quiet,
     RecordsOne
<1>6. ASSUME NEW c \in Caller, AskFresh(c) \/ AskCached(c) \/ Cancel(c)
      PROVE  Quiet
  <2>1. \A q \in Caller \ {c} : req'[q] = req[q]
    BY <1>6 DEF IInv, TypeOK, AskFresh, AskCached, Cancel
  <2>2. \A q \in Caller \ {c} : pc'[q] = pc[q]
    BY <1>3, <1>6 DEF AskFresh, AskCached, Cancel, StartSurvey, StartSurveyOf, Goto
  <2>3. /\ pc[c] # "record" /\ pc'[c] # "done"
        /\ asked' = asked /\ decision' = decision
    BY <1>3, <1>6 DEF AskFresh, AskCached, Cancel, StartSurvey, StartSurveyOf, Goto
  <2>4. QED
    BY <2>1, <2>2, <2>3 DEF Quiet, RecordsOne
<1>7. ASSUME NEW c \in Caller, DecisionStep(c) PROVE Quiet
  <2>1. CASE ReadLatest(c)
    BY <2>1, <1>3 DEF ReadLatest, Goto, Quiet, RecordsOne
  <2>2. CASE RefuseName(c)
    BY <2>2, ConcludeQuiet DEF RefuseName, Choosing
  <2>3. CASE CheckProfile(c)
    <3>1. CASE Goto(c, "rank") /\ UNCHANGED decision
      BY <2>3, <3>1, <1>3 DEF CheckProfile, Goto, Quiet, RecordsOne
    <3>2. CASE Conclude(c, Refusal("no-host", AskedFamily(c), {}))
      BY <2>3, <3>2, ConcludeQuiet DEF CheckProfile, Choosing
    <3>3. QED
      BY <2>3, <3>1, <3>2 DEF CheckProfile
  <2>4. CASE Rank(c)
    <3>1. CASE Goto(c, "explain") /\ UNCHANGED decision
      BY <2>4, <3>1, <1>3 DEF Rank, Goto, Quiet, RecordsOne
    <3>2. CASE \E d : Conclude(c, d)
      BY <2>4, <3>2, ConcludeQuiet DEF Rank, Choosing
    <3>3. QED
      BY <2>4, <3>1, <3>2 DEF Rank, RankIn
  <2>5. CASE Explain(c)
    BY <2>5, ConcludeQuiet DEF Explain, ExplainIn, Choosing
  <2>6. CASE Return(c)
    <3>1. \A q \in Caller \ {c} : /\ req'[q] = req[q] /\ pc'[q] = pc[q]
                                  /\ decision'[q] = decision[q]
      BY <2>6, <1>3 DEF IInv, TypeOK, Return, Goto
    <3>2. pc[c] # "record" /\ pc'[c] # "done" /\ asked' = asked
      BY <2>6, <1>3 DEF Return, Goto
    <3>3. QED
      BY <3>1, <3>2 DEF Quiet, RecordsOne
  <2>7. QED
    BY <1>7, <2>1, <2>2, <2>3, <2>4, <2>5, <2>6 DEF DecisionStep
<1>8. QED
  BY <1>1, <1>2, <1>4, <1>5, <1>6, <1>7 DEF Next

\* A caller's entry depends on its request and its decision alone.
LEMMA SameEntry ==
  ASSUME NEW c, req'[c] = req[c], decision'[c] = decision[c]
  PROVE  AskOf(c)' = AskOf(c)
BY DEF AskOf

\* Every step keeps AuditInv.
LEMMA AuditStep == AuditInv /\ [AuditNext]_auditVars => AuditInv'
<1> SUFFICES ASSUME AuditInv, [AuditNext]_auditVars PROVE AuditInv'
  OBVIOUS
<1>1. [Next]_vars
  BY DEF AuditNext, auditVars
<1>2. IInv /\ IInv'
  BY <1>1, NextIInv DEF AuditInv
<1>3. /\ MaxAsked \in Nat /\ MaxAsked > 0
      /\ asked \in Seq(Ask) /\ Len(asked) \in Nat /\ Len(asked) <= MaxAsked
  BY <1>2, RouterAssumption, LenProperties DEF IInv, TypeOK
<1>4. CASE UNCHANGED auditVars
  <2>1. asked' = asked /\ pc' = pc /\ req' = req /\ decision' = decision
        /\ newer' = newer
    BY <1>4 DEF auditVars, vars
  <2>2. \A c \in Caller : AskOf(c)' = AskOf(c)
    BY <2>1, SameEntry
  <2>3. QED
    BY <1>2, <2>1, <2>2 DEF AuditInv, AuditKeepsAnswered
<1>5. CASE AuditNext
  <2>1. CountRecords
    BY <1>5 DEF AuditNext
  <2>2. newer' \in [Caller -> 0..MaxAsked]
    BY <1>3, <2>1 DEF CountRecords, AuditInv
  <2>3. CASE Quiet
    <3>1. ASSUME NEW c \in Caller, pc'[c] = "done", req'[c].audited,
                 newer'[c] < MaxAsked
          PROVE  newer'[c] < Len(asked') /\ asked'[newer'[c] + 1] = AskOf(c)'
      <4>1. /\ pc[c] = "done" /\ req[c].audited
            /\ req'[c] = req[c] /\ decision'[c] = decision[c]
            /\ asked' = asked /\ ~ RecordsOne
        BY <2>3, <3>1 DEF Quiet
      <4>2. newer'[c] = newer[c]
        BY <2>1, <3>1, <4>1 DEF CountRecords
      <4>3. QED
        BY <3>1, <4>1, <4>2, SameEntry DEF AuditInv, AuditKeepsAnswered
    <3>2. QED
      BY <1>2, <2>2, <3>1 DEF AuditInv, AuditKeepsAnswered
  <2>4. CASE \E a \in Caller : Record(a)
    <3>1. PICK a \in Caller : Record(a)
      BY <2>4
    <3>2. /\ pc[a] = "record" /\ pc' = [pc EXCEPT ![a] = "done"]
          /\ req' = req /\ decision' = decision
          /\ asked' = Prepend(AskOf(a), asked)
          /\ pc \in [Proc -> Label] /\ a \in Proc
      BY <1>2, <3>1 DEF Record, Goto, IInv, TypeOK, Proc
    <3>3. RecordsOne
      BY <3>2 DEF RecordsOne
    <3>4. AskOf(a) \in Ask
      <4>1. req[a] \in Request /\ decision[a] \in DecisionRecord
        BY <1>2, <3>2 DEF IInv, CallerInv, Answering
      <4>2. QED
        BY <4>1 DEF AskOf, Ask, Request, DecisionRecord
    <3>5. /\ Len(asked') = IF Len(asked) < MaxAsked THEN Len(asked) + 1 ELSE MaxAsked
          /\ asked'[1] = AskOf(a)
          /\ \A i \in 1..Len(asked) : i < MaxAsked => asked'[i + 1] = asked[i]
      BY <1>3, <3>2, <3>4, PrependEntries
    <3>6. ASSUME NEW c \in Caller, pc'[c] = "done", req'[c].audited,
                 newer'[c] < MaxAsked
          PROVE  newer'[c] < Len(asked') /\ asked'[newer'[c] + 1] = AskOf(c)'
      <4>1. AskOf(c)' = AskOf(c)
        BY <3>2, SameEntry
      <4>2. CASE c = a
        <5>1. newer'[c] = 0
          BY <2>1, <3>2, <4>2 DEF CountRecords
        <5>2. QED
          BY <1>3, <3>5, <4>1, <4>2, <5>1
      <4>3. CASE c # a
        <5>1. pc[c] = "done" /\ req[c].audited
          BY <3>2, <3>6, <4>3
        <5>2. newer[c] \in 0..MaxAsked
          BY DEF AuditInv
        <5>3. newer'[c] = IF newer[c] < MaxAsked THEN newer[c] + 1 ELSE newer[c]
          BY <2>1, <3>3, <3>6, <5>1 DEF CountRecords
        <5>4. newer[c] < MaxAsked /\ newer'[c] = newer[c] + 1
          BY <1>3, <3>6, <5>2, <5>3
        <5>5. newer[c] < Len(asked) /\ asked[newer[c] + 1] = AskOf(c)
          BY <5>1, <5>4 DEF AuditInv, AuditKeepsAnswered
        <5>6. newer'[c] \in 1..Len(asked) /\ newer'[c] < MaxAsked
          BY <1>3, <3>6, <5>2, <5>4, <5>5
        <5>7. asked'[newer'[c] + 1] = AskOf(c)
          BY <3>5, <5>4, <5>5, <5>6
        <5>8. newer'[c] < Len(asked')
          BY <1>3, <3>5, <5>6
        <5>9. QED
          BY <4>1, <5>7, <5>8
      <4>4. QED
        BY <4>2, <4>3
    <3>7. QED
      BY <1>2, <2>2, <3>6 DEF AuditInv, AuditKeepsAnswered
  <2>5. QED
    BY <1>1, <1>2, <2>3, <2>4, OtherStepsQuiet
<1>6. QED
  BY <1>4, <1>5

\* For any callers and any MaxAsked, an answered decision is in the audit as it
\* was made until MaxAsked newer ones have been recorded (ROUTE-U1).
THEOREM AuditKeeps == AuditSpec => []AuditKeepsAnswered
<1>1. AuditInit => AuditInv
  <2>1. SUFFICES ASSUME AuditInit PROVE AuditInv
    OBVIOUS
  <2>2. newer \in [Caller -> 0..MaxAsked]
    BY <2>1, RouterAssumption DEF AuditInit
  <2>3. \A c \in Caller : pc[c] # "done"
    BY <2>1 DEF AuditInit, Init, Proc
  <2>4. QED
    BY <2>1, <2>2, <2>3, InitIInv DEF AuditInit, AuditInv, AuditKeepsAnswered
<1>2. AuditInv => AuditKeepsAnswered
  BY DEF AuditInv
<1>3. QED
  BY <1>1, <1>2, AuditStep, PTL DEF AuditSpec
=============================================================================
