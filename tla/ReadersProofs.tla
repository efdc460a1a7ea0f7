---------------------------- MODULE ReadersProofs ----------------------------
(***************************************************************************)
(* What a survey reads of another runtime, of a Lemonade server and of any *)
(* other local server, and of the records that declare one: each has an    *)
(* invariant of its own, which its steps keep and the others' leave alone. *)
(* A loop over a listing is followed turn by turn, by Walk's Turns and     *)
(* Throughout.                                                             *)
(***************************************************************************)
EXTENDS Hosts, TLAPS, SequenceTheorems, FiniteSetTheorems, WellFoundedInduction

-----------------------------------------------------------------------------
(* Another runtime: what its listing comes to *)

\* An alias as the runtime reports it.
Alias == [name : STRING, profiles : SUBSET STRING, maximum : Int, effective : Int,
          servable : BOOLEAN]

\* The windows that the first i aliases give a name.
SeenBy(aliases, i, name) ==
  {Remote!Observed(aliases[j]) :
     j \in {k \in 1..i : aliases[k].servable /\ aliases[k].name = name}}

\* A name's window is one that was seen, and none seen is tighter.
Tightest(ws, name, f) ==
  IF ws = {} THEN name \notin DOMAIN f
  ELSE /\ name \in DOMAIN f /\ f[name] \in ws
       /\ \A c \in ws : Remote!bound(c) > 0 =>
            Remote!bound(f[name]) # 0 /\ Remote!bound(f[name]) <= Remote!bound(c)

\* A window that is seen bounds a length by an integer.
LEMMA BoundInt ==
  ASSUME NEW a \in Alias
  PROVE  Remote!bound(Remote!Observed(a)) \in Int
BY DEF Alias, Remote!Observed, Remote!modelContext, Remote!bound, Remote!validEffective

\* One more alias leaves every name's window the tightest of those seen.
LEMMA TightenKeeps ==
  ASSUME NEW a \in Alias, NEW ws, NEW f, NEW name,
         \A c \in ws : Remote!bound(c) \in Int,
         Tightest(ws, name, f)
  PROVE  Tightest(IF a.servable /\ a.name = name THEN ws \cup {Remote!Observed(a)} ELSE ws,
                  name, Remote!Tighten(f, a))
<1> DEFINE c == Remote!Observed(a)
<1>1. Remote!bound(c) \in Int
  BY BoundInt
<1>2. \A g : name \in DOMAIN Remote!With(g, a.name, c) <=> name \in DOMAIN g \/ name = a.name
  BY DEF Remote!With
<1>3. \A g : name \in DOMAIN Remote!With(g, a.name, c) =>
              Remote!With(g, a.name, c)[name] = IF name = a.name THEN c ELSE g[name]
  BY DEF Remote!With
<1> HIDE DEF c
<1>4. CASE a.servable /\ a.name = name
  <2>1. CASE name \notin DOMAIN f
    <3>1. ws = {}
      BY <2>1 DEF Tightest
    <3>2. Remote!Tighten(f, a) = Remote!With(f, a.name, c)
      BY <1>4, <2>1 DEF Remote!Tighten, c
    <3>3. QED
      BY <1>1, <1>2, <1>3, <1>4, <3>1, <3>2 DEF Tightest, c
  <2>2. CASE name \in DOMAIN f /\ Remote!smallerBound(c, f[name])
    <3>1. Remote!Tighten(f, a) = Remote!With(f, a.name, c)
      BY <1>4, <2>2 DEF Remote!Tighten, c
    <3>2. Remote!bound(f[name]) \in Int
      BY <2>2 DEF Tightest
    <3>3. \A d \in ws : Remote!bound(d) > 0 =>
            Remote!bound(c) # 0 /\ Remote!bound(c) <= Remote!bound(d)
      BY <1>1, <2>2, <3>2 DEF Tightest, Remote!smallerBound
    <3>4. Remote!bound(c) > 0 => Remote!bound(c) # 0 /\ Remote!bound(c) <= Remote!bound(c)
      BY <1>1
    <3>5. QED
      BY <1>2, <1>3, <1>4, <3>1, <3>3, <3>4 DEF Tightest, c
  <2>3. CASE name \in DOMAIN f /\ ~ Remote!smallerBound(c, f[name])
    <3>1. Remote!Tighten(f, a) = f
      BY <1>4, <2>3 DEF Remote!Tighten, c
    <3>2. ws # {} /\ Remote!bound(f[name]) \in Int
      BY <2>3 DEF Tightest
    <3>3. Remote!bound(c) > 0 =>
            Remote!bound(f[name]) # 0 /\ Remote!bound(f[name]) <= Remote!bound(c)
      BY <1>1, <2>3, <3>2 DEF Remote!smallerBound
    <3>4. QED
      BY <1>4, <3>1, <3>2, <3>3 DEF Tightest, c
  <2>4. QED
    BY <2>1, <2>2, <2>3
<1>5. CASE ~ (a.servable /\ a.name = name)
  <2>1. /\ name \in DOMAIN Remote!Tighten(f, a) <=> name \in DOMAIN f
        /\ name \in DOMAIN f => Remote!Tighten(f, a)[name] = f[name]
    BY <1>2, <1>3, <1>5 DEF Remote!Tighten, c
  <2>2. QED
    BY <1>5, <2>1 DEF Tightest
<1>6. QED
  BY <1>4, <1>5

\* What is seen grows by the windows of each alias.
LEMMA SeenGrows ==
  ASSUME NEW aliases \in Seq(Alias), NEW i \in 1..Len(aliases), NEW name
  PROVE  SeenBy(aliases, i, name) =
           IF aliases[i].servable /\ aliases[i].name = name
           THEN SeenBy(aliases, i - 1, name) \cup {Remote!Observed(aliases[i])}
           ELSE SeenBy(aliases, i - 1, name)
<1>1. 1..i = (1..(i - 1)) \cup {i}
  OBVIOUS
<1>2. QED
  BY <1>1 DEF SeenBy

\* A listing's contexts are the tightest windows of its names.
LEMMA ContextsFit ==
  ASSUME NEW aliases \in Seq(Alias), NEW name
  PROVE  Remote!ContextFits(aliases, name, Remote!ContextsIn(aliases))
<1> DEFINE made == Remote!Tightening!Made(aliases, <<>>)
           Kept == {i \in 0..Len(aliases) : Tightest(SeenBy(aliases, i, name), name, made[i])}
<1>1. Len(aliases) \in Nat /\ \A i \in 1..Len(aliases) : aliases[i] \in Alias
  OBVIOUS
<1>2. /\ made[0] = <<>>
      /\ \A i \in 1..Len(aliases) : made[i] = Remote!Tighten(made[i - 1], aliases[i])
  <2>1. made = [i \in 0..Len(aliases) |->
          IF i = 0 THEN <<>> ELSE Remote!Tighten(made[i - 1], aliases[i])]
    BY <1>1, Remote!Tightening!Turns
  <2> HIDE DEF made
  <2>2. QED
    BY <1>1, <2>1
<1> HIDE DEF made
<1>3. 0 \in Kept
  BY <1>1, <1>2 DEF SeenBy, Tightest
<1>4. ASSUME NEW i \in 1..Len(aliases), i - 1 \in Kept
      PROVE  i \in Kept
  <2>1. \A c \in SeenBy(aliases, i - 1, name) : Remote!bound(c) \in Int
    <3>1. ASSUME NEW j \in 1..(i - 1) PROVE Remote!bound(Remote!Observed(aliases[j])) \in Int
      BY <1>1, BoundInt
    <3>2. QED
      BY <3>1 DEF SeenBy
  <2>2. Tightest(SeenBy(aliases, i - 1, name), name, made[i - 1]) /\ aliases[i] \in Alias
    BY <1>1, <1>4
  <2>3. Tightest(SeenBy(aliases, i, name), name, Remote!Tighten(made[i - 1], aliases[i]))
    BY <2>1, <2>2, SeenGrows, TightenKeeps
  <2>4. QED
    BY <1>1, <1>2, <2>3
<1>5. Len(aliases) \in Kept
  <2> HIDE DEF Kept
  <2>1. \A i \in 0..Len(aliases) : i \in Kept
    BY <1>1, <1>3, <1>4, Remote!Tightening!Throughout
  <2>2. QED
    BY <1>1, <2>1
<1>6. SeenBy(aliases, Len(aliases), name) =
        {Remote!Observed(a) : a \in Remote!AliasesOf(aliases, name)}
  <2>2. Remote!AliasesOf(aliases, name) =
          {aliases[j] : j \in {k \in 1..Len(aliases) :
                                 aliases[k].servable /\ aliases[k].name = name}}
    BY <1>1 DEF Remote!AliasesOf, Remote!Served, Remote!ToSet
  <2>3. QED
    BY <2>2 DEF SeenBy
<1>7. Remote!ContextsIn(aliases) = made[Len(aliases)]
  BY DEF Remote!ContextsIn, Remote!Tightening!Over, made
<1>8. QED
  BY <1>5, <1>6, <1>7 DEF Tightest, Remote!ContextFits

\* What the first i aliases of a name say it serves.
SaidBy(aliases, i, name) ==
  {aliases[j].profiles : j \in {k \in 1..i : aliases[k].servable /\ aliases[k].name = name}}

\* A name has all that was said of it.
Gathered(said, name, f) ==
  IF said = {} THEN name \notin DOMAIN f ELSE name \in DOMAIN f /\ f[name] = UNION said

\* One more alias leaves every name with all that was said of it.
LEMMA GatherKeeps ==
  ASSUME NEW a \in Alias, NEW said, NEW f, NEW name, Gathered(said, name, f)
  PROVE  Gathered(IF a.servable /\ a.name = name THEN said \cup {a.profiles} ELSE said,
                  name, Remote!Gather(f, a))
<1> DEFINE p == a.profiles \cup IF a.name \in DOMAIN f THEN f[a.name] ELSE {}
<1>1. /\ DOMAIN Remote!With(f, a.name, p) = DOMAIN f \cup {a.name}
      /\ \A n \in DOMAIN f \cup {a.name} :
           Remote!With(f, a.name, p)[n] = IF n = a.name THEN p ELSE f[n]
  BY DEF Remote!With
<1>2. Remote!Gather(f, a) = IF ~ a.servable THEN f ELSE Remote!With(f, a.name, p)
  BY DEF Remote!Gather
<1>3. CASE a.servable /\ a.name = name
  <2>1. p = UNION (said \cup {a.profiles})
    <3>1. CASE said = {}
      BY <1>3, <3>1 DEF Gathered
    <3>2. CASE said # {}
      <4>1. p = a.profiles \cup UNION said
        BY <1>3, <3>2 DEF Gathered
      <4>2. QED
        BY <4>1
    <3>3. QED
      BY <3>1, <3>2
  <2> HIDE DEF p
  <2>2. name \in DOMAIN Remote!Gather(f, a) /\ Remote!Gather(f, a)[name] = p
    BY <1>1, <1>2, <1>3
  <2>3. QED
    BY <1>3, <2>1, <2>2 DEF Gathered
<1>4. CASE ~ (a.servable /\ a.name = name)
  <2> HIDE DEF p
  <2>1. /\ name \in DOMAIN Remote!Gather(f, a) <=> name \in DOMAIN f
        /\ name \in DOMAIN f => Remote!Gather(f, a)[name] = f[name]
    BY <1>1, <1>2, <1>4
  <2>2. QED
    BY <1>4, <2>1 DEF Gathered
<1>5. QED
  BY <1>3, <1>4

\* What is said grows by what each alias says.
LEMMA SaidGrows ==
  ASSUME NEW aliases \in Seq(Alias), NEW i \in 1..Len(aliases), NEW name
  PROVE  SaidBy(aliases, i, name) =
           IF aliases[i].servable /\ aliases[i].name = name
           THEN SaidBy(aliases, i - 1, name) \cup {aliases[i].profiles}
           ELSE SaidBy(aliases, i - 1, name)
<1>1. 1..i = (1..(i - 1)) \cup {i}
  OBVIOUS
<1>2. QED
  BY <1>1 DEF SaidBy

\* The profiles kept of a listing serve each name as the listing says.
LEMMA ProfilesFit ==
  ASSUME NEW aliases \in Seq(Alias), NEW name
  PROVE  Remote!ProfilesFit(aliases, name,
           RemoteDeclared \cap IF name \in DOMAIN Remote!ProfilesIn(aliases)
                               THEN Remote!ProfilesIn(aliases)[name] ELSE RemoteDeclared)
<1> DEFINE made == Remote!Gathering!Made(aliases, <<>>)
           all  == made[Len(aliases)]
           said == {a.profiles : a \in Remote!AliasesOf(aliases, name)}
           mute == {a.name : a \in {b \in Remote!Served(aliases) : b.profiles = {}}}
           Kept == {i \in 0..Len(aliases) : Gathered(SaidBy(aliases, i, name), name, made[i])}
<1>1. Len(aliases) \in Nat /\ \A i \in 1..Len(aliases) : aliases[i] \in Alias
  OBVIOUS
<1>2. /\ made[0] = <<>>
      /\ \A i \in 1..Len(aliases) : made[i] = Remote!Gather(made[i - 1], aliases[i])
  <2>1. made = [i \in 0..Len(aliases) |->
          IF i = 0 THEN <<>> ELSE Remote!Gather(made[i - 1], aliases[i])]
    BY <1>1, Remote!Gathering!Turns
  <2> HIDE DEF made
  <2>2. QED
    BY <1>1, <2>1
<1> HIDE DEF made
<1>3. 0 \in Kept
  BY <1>1, <1>2 DEF SaidBy, Gathered
<1>4. ASSUME NEW i \in 1..Len(aliases), i - 1 \in Kept
      PROVE  i \in Kept
  <2>1. Gathered(SaidBy(aliases, i - 1, name), name, made[i - 1]) /\ aliases[i] \in Alias
    BY <1>1, <1>4
  <2>2. Gathered(SaidBy(aliases, i, name), name, Remote!Gather(made[i - 1], aliases[i]))
    BY <2>1, SaidGrows, GatherKeeps
  <2>3. QED
    BY <1>1, <1>2, <2>2
<1>5. Gathered(SaidBy(aliases, Len(aliases), name), name, all)
  <2> HIDE DEF Kept
  <2>1. \A i \in 0..Len(aliases) : i \in Kept
    BY <1>1, <1>3, <1>4, Remote!Gathering!Throughout
  <2>2. QED
    BY <1>1, <2>1 DEF Kept
<1>6. SaidBy(aliases, Len(aliases), name) = said
  <2>1. Remote!AliasesOf(aliases, name) =
          {aliases[j] : j \in {k \in 1..Len(aliases) :
                                 aliases[k].servable /\ aliases[k].name = name}}
    BY <1>1 DEF Remote!AliasesOf, Remote!Served, Remote!ToSet
  <2>2. QED
    BY <2>1 DEF SaidBy
<1>7. Remote!ProfilesIn(aliases) = [n \in DOMAIN all \ mute |-> all[n]]
  BY DEF Remote!ProfilesIn, Remote!Gathering!Over, made
<1>8. name \in mute <=> {} \in said
  BY DEF Remote!AliasesOf
<1> HIDE DEF all, said, mute
<1>9. name \in DOMAIN Remote!ProfilesIn(aliases) <=> said # {} /\ {} \notin said
  BY <1>5, <1>6, <1>7, <1>8 DEF Gathered
<1>10. name \in DOMAIN Remote!ProfilesIn(aliases) =>
         Remote!ProfilesIn(aliases)[name] = UNION said
  BY <1>5, <1>6, <1>7, <1>9 DEF Gathered
<1>11. said # {} /\ {} \notin said <=> {} \notin said \cup {UNION said}
  <2>1. ASSUME said # {}, {} \notin said PROVE UNION said # {}
    <3>1. PICK p \in said : p # {}
      BY <2>1
    <3>2. QED
      BY <3>1
  <2>2. said = {} => UNION said = {}
    OBVIOUS
  <2>3. QED
    BY <2>1, <2>2
<1>12. QED
  BY <1>9, <1>10, <1>11 DEF Remote!ProfilesFit, said

-----------------------------------------------------------------------------
(* Another runtime: surveys that share its link *)

\* What the link keeps was made of one listing, and what a survey read of it is
\* what that listing comes to.
RemoteInv ==
  /\ Remote!TypeOK
  /\ runtime.aliases \in Seq(Alias)
  /\ listing \in [Survey -> Seq(Alias)]
  /\ link.of \in Seq(Alias)
  /\ link.contexts = Remote!ContextsIn(link.of)
  /\ link.profiles = Remote!ProfilesIn(link.of)
  /\ DOMAIN read = Survey
  /\ \A s \in Survey : DOMAIN read[s] = DOMAIN Remote!Nothing
  /\ Remote!OneListingRead

\* A loop over no alias makes nothing.
LEMMA NothingKept ==
  Remote!ContextsIn(<<>>) = <<>> /\ Remote!ProfilesIn(<<>>) = <<>>
<1>1. Remote!Tightening!Over(<<>>, <<>>) = <<>>
  BY Remote!Tightening!Turns DEF Remote!Tightening!Over
<1>2. Remote!Gathering!Over(<<>>, <<>>) = <<>>
  BY Remote!Gathering!Turns DEF Remote!Gathering!Over
<1>3. QED
  BY <1>1, <1>2 DEF Remote!ContextsIn, Remote!ProfilesIn

\* No survey has read anything before one begins.
LEMMA RemoteInit == Remote!Init => RemoteInv
<1> SUFFICES ASSUME Remote!Init PROVE RemoteInv
  OBVIOUS
<1>1. <<>> \in Seq(Alias)
  OBVIOUS
<1>2. Remote!TypeOK /\ Remote!OneListingRead
  BY RemoteAssumption DEF Remote!Init, Remote!TypeOK, Remote!OneListingRead
<1>3. QED
  BY <1>1, <1>2, NothingKept DEF Remote!Init, RemoteInv

\* A survey that takes a step leaves what other surveys read.
LEMMA RemoteStep ==
  ASSUME RemoteInv, Remote!Next
  PROVE  RemoteInv'
<1>1. CASE Remote!Change
  <2>1. runtime' \in Runtimes /\ changes' \in 0..MaxChanges
    BY <1>1, RemoteAssumption DEF RemoteInv, Remote!TypeOK, Remote!Change
  <2>2. runtime'.aliases \in Seq(Alias)
    BY <2>1, RemoteAssumption DEF Alias
  <2>3. QED
    BY <1>1, <2>1, <2>2 DEF RemoteInv, Remote!TypeOK, Remote!Change, Remote!OneListingRead
<1>2. ASSUME NEW s \in Survey, Remote!List(s) PROVE RemoteInv'
  <2>1. Remote!TypeOK'
    BY <1>2 DEF RemoteInv, Remote!TypeOK, Remote!List, Remote!Goto
  <2>2. Remote!OneListingRead'
    BY <1>2 DEF RemoteInv, Remote!TypeOK, Remote!List, Remote!Goto, Remote!OneListingRead
  <2>3. listing' \in [Survey -> Seq(Alias)]
    BY <1>2 DEF RemoteInv, Remote!List
  <2>4. QED
    BY <1>2, <2>1, <2>2, <2>3 DEF RemoteInv, Remote!List
<1>3. ASSUME NEW s \in Survey, Remote!Store(s) PROVE RemoteInv'
  <2>1. Remote!TypeOK'
    BY <1>3 DEF RemoteInv, Remote!TypeOK, Remote!Store, Remote!Goto
  <2>2. Remote!OneListingRead'
    BY <1>3 DEF RemoteInv, Remote!TypeOK, Remote!Store, Remote!Goto, Remote!OneListingRead
  <2>3. QED
    BY <1>3, <2>1, <2>2 DEF RemoteInv, Remote!Store
<1>4. ASSUME NEW s \in Survey, Remote!ReadContexts(s) PROVE RemoteInv'
  <2>1. Remote!TypeOK'
    BY <1>4 DEF RemoteInv, Remote!TypeOK, Remote!ReadContexts, Remote!Goto
  <2>2. /\ read'[s].names = read[s].names
        /\ read'[s].contexts = [n \in read[s].names \cap DOMAIN link.contexts |-> link.contexts[n]]
        /\ read'[s].contextsOf = link.of
    BY <1>4 DEF RemoteInv, Remote!ReadContexts, Remote!Nothing
  <2>3. ASSUME NEW name \in read'[s].names
        PROVE  Remote!ContextFits(read'[s].contextsOf, name, read'[s].contexts)
    <3>1. Remote!ContextFits(link.of, name, link.contexts)
      BY ContextsFit DEF RemoteInv
    <3>2. /\ name \in DOMAIN read'[s].contexts <=> name \in DOMAIN link.contexts
          /\ name \in DOMAIN link.contexts => read'[s].contexts[name] = link.contexts[name]
      BY <2>2, <2>3
    <3>3. QED
      BY <2>2, <3>1, <3>2 DEF Remote!ContextFits
  <2>4. Remote!OneListingRead'
    BY <1>4, <2>3 DEF RemoteInv, Remote!TypeOK, Remote!ReadContexts, Remote!Goto, Remote!OneListingRead
  <2>5. QED
    BY <1>4, <2>1, <2>4 DEF RemoteInv, Remote!ReadContexts
<1>5. ASSUME NEW s \in Survey, Remote!ReadProfiles(s) PROVE RemoteInv'
  <2>1. Remote!TypeOK'
    BY <1>5 DEF RemoteInv, Remote!TypeOK, Remote!ReadProfiles, Remote!Goto
  <2>2. /\ read'[s].names = read[s].names
        /\ read'[s].contexts = read[s].contexts /\ read'[s].contextsOf = read[s].contextsOf
        /\ read'[s].profilesOf = link.of
        /\ \A n \in read[s].names : read'[s].profiles[n] =
             RemoteDeclared \cap IF n \in DOMAIN link.profiles
                                 THEN link.profiles[n] ELSE RemoteDeclared
    BY <1>5 DEF RemoteInv, Remote!ReadProfiles, Remote!Nothing
  <2>3. ASSUME NEW name \in read'[s].names
        PROVE  Remote!ProfilesFit(read'[s].profilesOf, name, read'[s].profiles[name])
    <3>1. link.of \in Seq(Alias) /\ link.profiles = Remote!ProfilesIn(link.of)
      BY DEF RemoteInv
    <3>2. read'[s].profiles[name] =
            RemoteDeclared \cap IF name \in DOMAIN Remote!ProfilesIn(link.of)
                                THEN Remote!ProfilesIn(link.of)[name] ELSE RemoteDeclared
      BY <2>2, <2>3, <3>1
    <3>3. QED
      BY <2>2, <3>1, <3>2, ProfilesFit
  <2>4. Remote!OneListingRead'
    BY <1>5, <2>2, <2>3 DEF RemoteInv, Remote!TypeOK, Remote!ReadProfiles, Remote!Goto, Remote!OneListingRead
  <2>5. QED
    BY <1>5, <2>1, <2>4 DEF RemoteInv, Remote!ReadProfiles
<1>6. ASSUME NEW s \in Survey, Remote!ReadDomain(s) PROVE RemoteInv'
  <2>1. Remote!TypeOK'
    BY <1>6 DEF RemoteInv, Remote!TypeOK, Remote!ReadDomain, Remote!Goto
  <2>2. Remote!OneListingRead'
    BY <1>6 DEF RemoteInv, Remote!TypeOK, Remote!ReadDomain, Remote!Goto, Remote!OneListingRead
  <2>3. QED
    BY <1>6, <2>1, <2>2 DEF RemoteInv, Remote!ReadDomain
<1>7. QED
  BY <1>1, <1>2, <1>3, <1>4, <1>5, <1>6 DEF Remote!Next, Remote!Step

\* What the other readers do leaves the surveys alone.
LEMMA RemoteSame == RemoteInv /\ UNCHANGED RemoteVars => RemoteInv'
BY DEF RemoteInv, RemoteVars, Remote!TypeOK, Remote!OneListingRead

-----------------------------------------------------------------------------
(* A Lemonade server: what its listing and its options come to *)

\* A model as the listing has it.
Model == [id : STRING, checkpoint : STRING \cup {None}, cloud : BOOLEAN,
          downloaded : BOOLEAN, max : Int, length : Int, planned : Int]

\* A server that lists models, of which each is of one id, and has a health.
Serving ==
  /\ listed \in Seq(Model) /\ health # None
  /\ \A i, j \in DOMAIN listed : listed[i].id = listed[j].id => listed[i] = listed[j]
  /\ \A n \in DOMAIN health.all : health.all[n].size \in Int

\* A context is that of a model, its effective length unknown or true.
IsOf(m, c) == c.maximum = m.max /\ c.effective \in {0, Lemonade!Truth(m)}

\* A name not listed has only what the health says of it.
ContextTrue(n, c) ==
  IF Lemonade!Models(n) = {} THEN c = Lemonade!modelContext(0, Lemonade!SizeOf(health, n))
  ELSE \E m \in Lemonade!Models(n) : IsOf(m, c)

\* The names that are given a context by a health that was read.
Known == {n \in Lemonade!Wanted : Lemonade!Models(n) # {} \/ n \in DOMAIN health.all}

\* What the listing and the health say of a model is true of it.
LEMMA ListingTrue ==
  ASSUME Serving, NEW m \in Model, NEW h \in {health, None}
  PROVE  IsOf(m, Lemonade!fromListing(m, h))
<1>1. m.max \in Int /\ m.length \in Int
  BY DEF Model
<1>2. Lemonade!fromListing(m, h).maximum = m.max
  BY DEF Lemonade!fromListing, Lemonade!modelContext
<1>3. CASE m.cloud
  BY <1>1, <1>2, <1>3
     DEF IsOf, Lemonade!fromListing, Lemonade!modelContext, Lemonade!validEffective, Lemonade!Truth
<1>4. CASE ~ m.cloud /\ Lemonade!Loaded(h, Lemonade!LoadedAs(h, m))
  <2> DEFINE name == Lemonade!LoadedAs(h, m)
  <2>1. h = health /\ name \in DOMAIN health.all
    BY <1>4 DEF Lemonade!Loaded
  <2>2. name = IF m.id \in DOMAIN health.all THEN m.id ELSE m.checkpoint
    BY <2>1 DEF Lemonade!LoadedAs, Lemonade!Loaded, Serving
  <2>3. health.all[name].size \in Int
    BY <2>1 DEF Serving
  <2>4. Lemonade!fromListing(m, h).effective =
          Lemonade!validEffective(Lemonade!SizeOf(health, name), m.max)
    BY <1>4, <2>1 DEF Lemonade!fromListing, Lemonade!modelContext
  <2>5. Lemonade!Truth(m) = LET size == health.all[name].size
                            IN IF size > 0 /\ (m.max <= 0 \/ size <= m.max) THEN size ELSE 0
    BY <1>4, <2>1, <2>2 DEF Lemonade!Truth
  <2> HIDE DEF name
  <2>6. QED
    BY <1>1, <1>2, <2>3, <2>4, <2>5 DEF IsOf, Lemonade!SizeOf, Lemonade!validEffective
<1>5. CASE ~ m.cloud /\ ~ Lemonade!Loaded(h, Lemonade!LoadedAs(h, m))
  BY <1>2, <1>5 DEF IsOf, Lemonade!fromListing, Lemonade!modelContext
<1>6. QED
  BY <1>3, <1>4, <1>5

\* The length a model that is not loaded is to be loaded with is true of it.
LEMMA PlannedTrue ==
  ASSUME Serving, NEW m \in Model, Lemonade!Unplanned(m, health)
  PROVE  IsOf(m, Lemonade!modelContext(m.max, Lemonade!validEffective(m.planned, m.max)))
<1>1. m.max \in Int /\ m.planned \in Int /\ ~ m.cloud
  BY DEF Model, Lemonade!Unplanned
<1>2. m.id \notin DOMAIN health.all /\ m.checkpoint \notin DOMAIN health.all
  BY DEF Lemonade!Unplanned, Lemonade!Loaded, Lemonade!LoadedAs, Serving
<1>3. Lemonade!Truth(m) = IF m.planned > 0 /\ (m.max <= 0 \/ m.planned <= m.max)
                          THEN m.planned ELSE 0
  BY <1>1, <1>2 DEF Lemonade!Truth
<1>4. QED
  BY <1>1, <1>3 DEF IsOf, Lemonade!modelContext, Lemonade!validEffective

\* One more finding noted changes the names it is found under, of the wanted.
LEMMA Noted ==
  ASSUME NEW f, NEW names, NEW value, NEW g,
         g = Lemonade!Note(f, Lemonade!Finding(names, value))
  PROVE  /\ \A n : n \in DOMAIN g <=> n \in DOMAIN f \/ (n \in Lemonade!Wanted /\ n \in names)
         /\ \A n \in DOMAIN g : n \in Lemonade!Wanted /\ n \in names => g[n] = value
         /\ \A n \in DOMAIN g : ~ (n \in Lemonade!Wanted /\ n \in names) => g[n] = f[n]
BY DEF Lemonade!Note, Lemonade!Finding, Lemonade!With

\* What a listing notes of a model is noted under its names and no other.
LEMMA ListingNoted ==
  ASSUME Serving, models = listed, NEW h \in {health, None},
         NEW f, f = Lemonade!Noting!Over(Lemonade!Listed(h), <<>>)
  PROVE  /\ DOMAIN f = {n \in Lemonade!Wanted : Lemonade!Models(n) # {}}
         /\ \A n \in DOMAIN f : \E m \in Lemonade!Models(n) : IsOf(m, f[n])
<1> DEFINE s == Lemonade!Listed(h)
           made == Lemonade!Noting!Made(s, <<>>)
           Has(j, n) == listed[j].downloaded /\ n \in Lemonade!NamesOf(listed[j])
           Kept == {i \in 0..Len(listed) :
             /\ DOMAIN made[i] = {n \in Lemonade!Wanted : \E j \in 1..i : Has(j, n)}
             /\ \A n \in DOMAIN made[i] : \E j \in 1..i : Has(j, n) /\ IsOf(listed[j], made[i][n])}
<1>1. /\ Len(listed) \in Nat /\ DOMAIN listed = 1..Len(listed)
      /\ \A i \in 1..Len(listed) : listed[i] \in Model
  BY DEF Serving
<1>2. /\ Len(s) = Len(listed)
      /\ \A i \in 1..Len(listed) : s[i] = Lemonade!Finding(
           IF listed[i].downloaded THEN Lemonade!NamesOf(listed[i]) ELSE {},
           Lemonade!fromListing(listed[i], h))
  BY <1>1 DEF Lemonade!Listed
<1>3. /\ made[0] = <<>>
      /\ \A i \in 1..Len(listed) : made[i] = Lemonade!Note(made[i - 1], s[i])
  <2>1. made = [i \in 0..Len(s) |-> IF i = 0 THEN <<>> ELSE Lemonade!Note(made[i - 1], s[i])]
    BY <1>1, <1>2, Lemonade!Noting!Turns
  <2> HIDE DEF made, s
  <2>2. QED
    BY <1>1, <1>2, <2>1
<1>4. f = made[Len(listed)]
  BY <1>2 DEF Lemonade!Noting!Over
<1> HIDE DEF made, s
<1>5. 0 \in Kept
  BY <1>1, <1>3
<1>6. ASSUME NEW i \in 1..Len(listed), i - 1 \in Kept
      PROVE  i \in Kept
  <2> DEFINE names == IF listed[i].downloaded THEN Lemonade!NamesOf(listed[i]) ELSE {}
             value == Lemonade!fromListing(listed[i], h)
  <2>1. /\ \A n : n \in DOMAIN made[i] <=>
             n \in DOMAIN made[i - 1] \/ (n \in Lemonade!Wanted /\ n \in names)
        /\ \A n \in DOMAIN made[i] :
             n \in Lemonade!Wanted /\ n \in names => made[i][n] = value
        /\ \A n \in DOMAIN made[i] :
             ~ (n \in Lemonade!Wanted /\ n \in names) => made[i][n] = made[i - 1][n]
    <3>1. made[i] = Lemonade!Note(made[i - 1], Lemonade!Finding(names, value))
      BY <1>2, <1>3
    <3> HIDE DEF names, value
    <3>2. QED
      <4>1. ASSUME NEW g, NEW f0, g = Lemonade!Note(f0, Lemonade!Finding(names, value))
            PROVE  /\ \A n : n \in DOMAIN g <=>
                       n \in DOMAIN f0 \/ (n \in Lemonade!Wanted /\ n \in names)
                   /\ \A n \in DOMAIN g : n \in Lemonade!Wanted /\ n \in names => g[n] = value
                   /\ \A n \in DOMAIN g :
                        ~ (n \in Lemonade!Wanted /\ n \in names) => g[n] = f0[n]
        BY <4>1, Noted
      <4>2. QED
        BY <3>1, <4>1
  <2>2. \A n : n \in names <=> Has(i, n)
    <3>1. CASE listed[i].downloaded
      BY <3>1
    <3>2. CASE ~ listed[i].downloaded
      BY <3>2
    <3>3. QED
      BY <3>1, <3>2
  <2>3. IsOf(listed[i], value)
    BY <1>1, ListingTrue
  <2>4. 1..i = (1..(i - 1)) \cup {i}
    OBVIOUS
  <2> HIDE DEF names, value, Has
  <2>5. DOMAIN made[i] = {n \in Lemonade!Wanted : \E j \in 1..i : Has(j, n)}
    <3>1. DOMAIN made[i - 1] = {n \in Lemonade!Wanted : \E j \in 1..(i - 1) : Has(j, n)}
      BY <1>6
    <3>2. \A n : n \in DOMAIN made[i] <=>
                 n \in Lemonade!Wanted /\ \E j \in (1..(i - 1)) \cup {i} : Has(j, n)
      BY <2>1, <2>2, <3>1
    <3>3. QED
      BY <2>4, <3>2
  <2>6. ASSUME NEW n \in DOMAIN made[i]
        PROVE  \E j \in 1..i : Has(j, n) /\ IsOf(listed[j], made[i][n])
    <3>1. CASE n \in Lemonade!Wanted /\ n \in names
      <4>1. made[i][n] = value
        BY <2>1, <3>1
      <4>2. QED
        BY <2>2, <2>3, <2>4, <3>1, <4>1
    <3>2. CASE ~ (n \in Lemonade!Wanted /\ n \in names)
      <4>1. made[i][n] = made[i - 1][n] /\ n \in DOMAIN made[i - 1]
        BY <2>1, <3>2
      <4>2. QED
        BY <1>6, <2>4, <4>1
    <3>3. QED
      BY <3>1, <3>2
  <2>7. QED
    BY <1>1, <2>5, <2>6
<1>7. Len(listed) \in Kept
  <2> HIDE DEF Kept
  <2>1. \A i \in 0..Len(listed) : i \in Kept
    BY <1>1, <1>5, <1>6, Lemonade!Noting!Throughout
  <2>2. QED
    BY <1>1, <2>1
<1>8. \A n : Lemonade!Models(n) = {listed[j] : j \in {k \in 1..Len(listed) : Has(k, n)}}
  BY <1>1 DEF Lemonade!Models, Lemonade!ToSet
<1>9. \A n : Lemonade!Models(n) # {} <=> \E j \in 1..Len(listed) : Has(j, n)
  BY <1>8
<1>10. \A n : \A j \in 1..Len(listed) : Has(j, n) => listed[j] \in Lemonade!Models(n)
  BY <1>8
<1>11. /\ DOMAIN f = {n \in Lemonade!Wanted : \E j \in 1..Len(listed) : Has(j, n)}
       /\ \A n \in DOMAIN f : \E j \in 1..Len(listed) : Has(j, n) /\ IsOf(listed[j], f[n])
  BY <1>4, <1>7
<1> HIDE DEF Has
<1>12. QED
  BY <1>9, <1>10, <1>11

\* What listing and health make is true of each name, and leaves out none the
\* health has.
LEMMA FoldTrue ==
  ASSUME Serving, models = listed, NEW h \in {health, None}
  PROVE  /\ DOMAIN Lemonade!FoldListing(h) \subseteq Lemonade!Wanted
         /\ \A n \in DOMAIN Lemonade!FoldListing(h) : ContextTrue(n, Lemonade!FoldListing(h)[n])
         /\ h = health => DOMAIN Lemonade!FoldListing(h) = Known
<1> DEFINE f == Lemonade!Noting!Over(Lemonade!Listed(h), <<>>)
           others == IF h = None THEN {} ELSE (Lemonade!Wanted \cap DOMAIN h.all) \ DOMAIN f
<1>1. /\ DOMAIN f = {n \in Lemonade!Wanted : Lemonade!Models(n) # {}}
      /\ \A n \in DOMAIN f : \E m \in Lemonade!Models(n) : IsOf(m, f[n])
  BY ListingNoted
<1>2. /\ DOMAIN Lemonade!FoldListing(h) = DOMAIN f \cup others
      /\ \A n \in DOMAIN f \cup others : Lemonade!FoldListing(h)[n] =
           IF n \in DOMAIN f THEN f[n] ELSE Lemonade!modelContext(0, Lemonade!SizeOf(h, n))
  BY DEF Lemonade!FoldListing
<1> HIDE DEF f
<1>3. \A n \in others \ DOMAIN f : h = health /\ n \in Lemonade!Wanted /\ Lemonade!Models(n) = {}
  BY <1>1
<1>4. ASSUME NEW n \in DOMAIN f \cup others
      PROVE  ContextTrue(n, Lemonade!FoldListing(h)[n])
  BY <1>1, <1>2, <1>3, <1>4 DEF ContextTrue
<1>5. h = health => DOMAIN f \cup others = Known
  BY <1>1 DEF Known, Serving
<1>6. QED
  BY <1>1, <1>2, <1>4, <1>5

\* What is neither a cloud's nor loaded, of the listing.
Unfetched == {m \in Lemonade!ToSet(listed) : Lemonade!Unplanned(m, health)}

\* The options planned are of models that are listed and not loaded.
LEMMA OptionsPlanned ==
  ASSUME Serving, models = listed
  PROVE  Lemonade!OptionsOf(health) \in Seq(Unfetched)
<1> DEFINE s == Lemonade!Candidates(health)
           made == Lemonade!Planning!Made(s, <<>>)
           Kept == {i \in 0..Len(listed) : made[i] \in Seq(Unfetched)}
<1>1. /\ Len(listed) \in Nat /\ DOMAIN listed = 1..Len(listed)
      /\ \A i \in 1..Len(listed) : listed[i] \in Lemonade!ToSet(listed)
  BY DEF Serving, Lemonade!ToSet
<1>2. /\ Len(s) = Len(listed)
      /\ \A i \in 1..Len(listed) :
           s[i] = IF Lemonade!Unplanned(listed[i], health) THEN listed[i] ELSE None
  <2>1. DOMAIN s = 1..Len(listed) /\ Len(s) = Len(listed)
    BY <1>1 DEF Lemonade!Candidates
  <2>2. ASSUME NEW i \in DOMAIN models
        PROVE  s[i] = IF Lemonade!Unplanned(models[i], health) THEN models[i] ELSE None
    BY DEF Lemonade!Candidates
  <2>3. ASSUME NEW i \in 1..Len(listed)
        PROVE  s[i] = IF Lemonade!Unplanned(listed[i], health) THEN listed[i] ELSE None
    BY <1>1, <2>2
  <2>4. QED
    BY <2>1, <2>3
<1>3. /\ made[0] = <<>>
      /\ \A i \in 1..Len(listed) : made[i] = Lemonade!Plan(made[i - 1], s[i])
  <2>1. made = [i \in 0..Len(s) |-> IF i = 0 THEN <<>> ELSE Lemonade!Plan(made[i - 1], s[i])]
    BY <1>1, <1>2, Lemonade!Planning!Turns
  <2> HIDE DEF made, s
  <2>2. QED
    BY <1>1, <1>2, <2>1
<1> HIDE DEF made, s
<1>4. 0 \in Kept
  <2>1. <<>> \in Seq(Unfetched)
    OBVIOUS
  <2>2. QED
    <3>1. made[0] \in Seq(Unfetched) /\ 0 \in 0..Len(listed)
      BY <1>1, <1>3, <2>1
    <3>2. QED
      BY <3>1
<1>5. ASSUME NEW i \in 1..Len(listed), i - 1 \in Kept
      PROVE  i \in Kept
  <2>1. made[i - 1] \in Seq(Unfetched)
    BY <1>5
  <2>2. s[i] = None \/ s[i] \in Unfetched
    BY <1>1, <1>2 DEF Unfetched
  <2>3. Lemonade!Plan(made[i - 1], s[i]) \in Seq(Unfetched)
    BY <2>1, <2>2 DEF Lemonade!Plan
  <2>4. QED
    BY <1>1, <1>3, <2>3
<1>6. Len(listed) \in Kept
  <2> HIDE DEF Kept
  <2>1. \A i \in 0..Len(listed) : i \in Kept
    BY <1>1, <1>4, <1>5, Lemonade!Planning!Throughout
  <2>2. QED
    BY <1>1, <2>1
<1>7. QED
  BY <1>2, <1>6 DEF Lemonade!OptionsOf, Lemonade!Planning!Over, made, s

\* The options fetched are of models that are listed and not loaded.
Fetched ==
  \A id \in DOMAIN resolved : \E m \in Unfetched :
    /\ m.id = id
    /\ resolved[id] = Lemonade!modelContext(m.max, Lemonade!validEffective(m.planned, m.max))

\* What the options say is true of the names of the models they are of.
LEMMA AnsweredTrue ==
  ASSUME Serving, models = listed, Fetched, NEW base,
         \A n \in DOMAIN base : ContextTrue(n, base[n]), DOMAIN base = Known
  PROVE  LET f == Lemonade!Noting!Over(Lemonade!Answered, base)
         IN (\A n \in DOMAIN f : ContextTrue(n, f[n])) /\ DOMAIN f = Known
<1> DEFINE s == Lemonade!Answered
           made == Lemonade!Noting!Made(s, base)
           Kept == {i \in 0..Len(listed) :
             /\ \A n : n \in DOMAIN made[i] <=> n \in Known
             /\ \A n \in Known : ContextTrue(n, made[i][n])}
<1>1. /\ Len(listed) \in Nat /\ DOMAIN listed = 1..Len(listed)
      /\ \A i \in 1..Len(listed) : listed[i] \in Model /\ listed[i] \in Lemonade!ToSet(listed)
  BY DEF Serving, Lemonade!ToSet
<1>2. /\ Len(s) = Len(listed)
      /\ \A i \in 1..Len(listed) : s[i] =
           IF Lemonade!Resolved(listed[i])
           THEN Lemonade!Finding(Lemonade!NamesOf(listed[i]), resolved[listed[i].id])
           ELSE Lemonade!Finding({}, None)
  <2>1. DOMAIN s = 1..Len(listed) /\ Len(s) = Len(listed)
    BY <1>1 DEF Lemonade!Answered
  <2>2. QED
    BY <1>1, <2>1 DEF Lemonade!Answered
<1>3. /\ made[0] = base
      /\ \A i \in 1..Len(listed) : made[i] = Lemonade!Note(made[i - 1], s[i])
  <2>1. made = [i \in 0..Len(s) |-> IF i = 0 THEN base ELSE Lemonade!Note(made[i - 1], s[i])]
    BY <1>1, <1>2, Lemonade!Noting!Turns
  <2> HIDE DEF made, s
  <2>2. QED
    BY <1>1, <1>2, <2>1
<1>4. Lemonade!Noting!Over(Lemonade!Answered, base) = made[Len(listed)]
  BY <1>2 DEF Lemonade!Noting!Over
<1> HIDE DEF made, s
<1>5. 0 \in Kept
  <2>1. made[0] = base /\ 0 \in 0..Len(listed)
    BY <1>1, <1>3
  <2>2. QED
    BY <2>1
<1>6. ASSUME NEW i \in 1..Len(listed), i - 1 \in Kept
      PROVE  i \in Kept
  <2> DEFINE m == listed[i]
  <2>1. ASSUME NEW g, NEW f, NEW names, NEW value,
               g = Lemonade!Note(f, Lemonade!Finding(names, value)),
               \A n : n \in DOMAIN f <=> n \in Known,
               \A n \in Known : ContextTrue(n, f[n]),
               \A n \in Lemonade!Wanted : n \in names => n \in Known /\ ContextTrue(n, value)
        PROVE  /\ \A n : n \in DOMAIN g <=> n \in Known
               /\ \A n \in Known : ContextTrue(n, g[n])
    <3>1. \A n : n \in DOMAIN g <=> n \in Known
      BY <2>1, Noted
    <3>2. ASSUME NEW n \in Known PROVE ContextTrue(n, g[n])
      <4>1. CASE n \in Lemonade!Wanted /\ n \in names
        <5>1. g[n] = value
          BY <2>1, <3>1, <4>1, Noted
        <5>2. QED
          BY <2>1, <4>1, <5>1
      <4>2. CASE ~ (n \in Lemonade!Wanted /\ n \in names)
        <5>1. g[n] = f[n]
          BY <2>1, <3>1, <4>2, Noted
        <5>2. QED
          BY <2>1, <5>1
      <4>3. QED
        BY <4>1, <4>2
    <3>3. QED
      BY <3>1, <3>2
  <2>2. CASE Lemonade!Resolved(m)
    <3>1. PICK k \in Unfetched :
            /\ k.id = m.id
            /\ resolved[m.id] = Lemonade!modelContext(k.max, Lemonade!validEffective(k.planned, k.max))
      BY <2>2 DEF Fetched, Lemonade!Resolved
    <3>2. k = m
      BY <1>1, <3>1 DEF Unfetched, Lemonade!ToSet, Serving
    <3>3. m \in Model /\ Lemonade!Unplanned(m, health) /\ m.downloaded
      BY <1>1, <3>1, <3>2 DEF Unfetched, Lemonade!Unplanned
    <3>4. IsOf(m, resolved[m.id])
      BY <3>1, <3>2, <3>3, PlannedTrue
    <3>5. ASSUME NEW n \in Lemonade!Wanted, n \in Lemonade!NamesOf(m)
          PROVE  n \in Known /\ ContextTrue(n, resolved[m.id])
      <4>1. m \in Lemonade!Models(n)
        BY <1>1, <3>3, <3>5 DEF Lemonade!Models
      <4>2. QED
        BY <3>4, <4>1 DEF Known, ContextTrue
    <3>6. made[i] = Lemonade!Note(made[i - 1],
                      Lemonade!Finding(Lemonade!NamesOf(m), resolved[m.id]))
      BY <1>2, <1>3, <2>2
    <3>7. /\ \A n : n \in DOMAIN made[i] <=> n \in Known
          /\ \A n \in Known : ContextTrue(n, made[i][n])
      BY <1>6, <2>1, <3>5, <3>6
    <3>8. QED
      BY <1>1, <3>7
  <2>3. CASE ~ Lemonade!Resolved(m)
    <3>1. made[i] = Lemonade!Note(made[i - 1], Lemonade!Finding({}, None))
      BY <1>2, <1>3, <2>3
    <3>2. /\ \A n : n \in DOMAIN made[i] <=> n \in Known
          /\ \A n \in Known : ContextTrue(n, made[i][n])
      BY <1>6, <2>1, <3>1
    <3>3. QED
      BY <1>1, <3>2
  <2>4. QED
    BY <2>2, <2>3
<1>7. Len(listed) \in Kept
  <2> HIDE DEF Kept
  <2>1. \A i \in 0..Len(listed) : i \in Kept
    BY <1>1, <1>5, <1>6, Lemonade!Noting!Throughout
  <2>2. QED
    BY <1>1, <2>1
<1>8. QED
  BY <1>4, <1>7

-----------------------------------------------------------------------------
(* A Lemonade server: the read *)

\* Whatever is still to be fetched is of a model that is listed and not loaded,
\* and what was read so far is true of the server.
LemonadeInv ==
  /\ Lemonade!TypeOK
  /\ lemonadeAt # "idle" => Serving
  /\ lemonadeAt \in {"health", "options"} => models = listed
  /\ lemonadeAt \notin {"options", "up"} =>
       known = None /\ lemonadeContexts = <<>> /\ resolved = <<>>
  /\ IsFiniteSet(busy) /\ busy \subseteq Unfetched /\ jobs \in Seq(Unfetched)
  /\ lemonadeAt = "options" => known = health /\ Fetched
  /\ lemonadeAt \in {"options", "up"} =>
       /\ \A n \in DOMAIN lemonadeContexts : ContextTrue(n, lemonadeContexts[n])
       /\ known # None => DOMAIN lemonadeContexts = Known

\* The module's count of a set is the library's.
LEMMA SameCount == \A S : Lemonade!Cardinality(S) = Cardinality(S)
BY DEF Cardinality, Lemonade!Cardinality

\* No read has made anything before it begins.
LEMMA LemonadeInit == Lemonade!Init => LemonadeInv
<1> SUFFICES ASSUME Lemonade!Init PROVE LemonadeInv
  OBVIOUS
<1>1. <<>> \in Seq(Unfetched)
  OBVIOUS
<1>2. IsFiniteSet(busy) /\ Cardinality(busy) <= Workers
  BY LemonadeAssumption, FS_EmptySet DEF Lemonade!Init
<1>3. Lemonade!TypeOK
  BY <1>2, SameCount DEF Lemonade!Init, Lemonade!TypeOK
<1>4. jobs \in Seq(Unfetched) /\ busy \subseteq Unfetched
  BY <1>1 DEF Lemonade!Init
<1>5. QED
  BY <1>2, <1>3, <1>4 DEF Lemonade!Init, LemonadeInv

\* While the server and the names stay, so does what is true of them.
LEMMA TruthSame ==
  ASSUME UNCHANGED <<listed, health, lemonadeNames, lemonadeResident>>
  PROVE  /\ Serving' <=> Serving
         /\ Known' = Known /\ Unfetched' = Unfetched
         /\ \A n, c : ContextTrue(n, c)' <=> ContextTrue(n, c)
<1>1. Serving' <=> Serving
  BY DEF Serving
<1>2. UNCHANGED Lemonade!Wanted
  BY DEF Lemonade!Wanted
<1>3. \A n : Lemonade!Models(n)' = Lemonade!Models(n)
  BY DEF Lemonade!Models
<1>4. UNCHANGED Known
  BY <1>2, <1>3 DEF Known
<1>5. UNCHANGED Unfetched
  <2>1. \A m : Lemonade!Unplanned(m, health)' <=> Lemonade!Unplanned(m, health)
    BY <1>2 DEF Lemonade!Unplanned
  <2>2. QED
    BY <2>1 DEF Unfetched
<1>6. ASSUME NEW n, NEW c PROVE ContextTrue(n, c)' <=> ContextTrue(n, c)
  <2>1. \A m : Lemonade!Truth(m)' = Lemonade!Truth(m)
    BY DEF Lemonade!Truth
  <2>2. \A m : IsOf(m, c)' <=> IsOf(m, c)
    BY <2>1 DEF IsOf
  <2>3. QED
    BY <1>3, <2>2 DEF ContextTrue, Lemonade!SizeOf
<1>7. QED
  BY <1>1, <1>4, <1>5, <1>6

\* Each step of a read keeps its invariant.
LEMMA LemonadeStep ==
  ASSUME LemonadeInv, Lemonade!Next
  PROVE  LemonadeInv'
<1>1. CASE Lemonade!Begin \/ Lemonade!ReadInstalled \/ Lemonade!ReadResident
  <2>1. /\ lemonadeAt \in {"idle", "installed", "resident"}
        /\ lemonadeAt' \in {"installed", "resident", "models", "up", "down"}
        /\ UNCHANGED <<models, known, jobs, busy, resolved, lemonadeContexts>>
        /\ \/ lemonadeAt = "idle" /\ listed' \in Listings /\ health' \in Healths
           \/ lemonadeAt # "idle" /\ UNCHANGED <<listed, health>>
    BY <1>1 DEF Lemonade!Begin, Lemonade!ReadInstalled, Lemonade!ReadResident,
                Lemonade!Work, Lemonade!Server
  <2>2. Serving'
    BY <2>1, LemonadeAssumption DEF LemonadeInv, Serving, Model
  <2>3. /\ known' = None /\ lemonadeContexts' = <<>> /\ resolved' = <<>>
        /\ jobs' = <<>> /\ busy' = {}
    BY <2>1 DEF LemonadeInv, Lemonade!TypeOK
  <2>4. <<>> \in Seq(Unfetched') /\ IsFiniteSet({}) /\ Cardinality({}) <= Workers
    BY LemonadeAssumption, FS_EmptySet
  <2>5. Lemonade!TypeOK'
    BY <2>1, <2>3, <2>4, SameCount DEF Lemonade!TypeOK
  <2>6. IsFiniteSet(busy') /\ busy' \subseteq Unfetched' /\ jobs' \in Seq(Unfetched')
    BY <2>3, <2>4
  <2>7. lemonadeAt' = "up" => DOMAIN lemonadeContexts' = {}
    BY <2>3
  <2>8. QED
    BY <2>1, <2>2, <2>3, <2>5, <2>6, <2>7 DEF LemonadeInv
<1>3. CASE Lemonade!ReadModels
  <2>1. /\ UNCHANGED <<listed, health, known, resolved, lemonadeContexts, lemonadeNames,
                       lemonadeResident, jobs, busy>>
        /\ lemonadeAt = "models"
        /\ (lemonadeAt' = "health" /\ models' = listed) \/ lemonadeAt' = "up"
    BY <1>3 DEF Lemonade!ReadModels, Lemonade!Names, Lemonade!Server
  <2>2. known' = None /\ lemonadeContexts' = <<>> /\ resolved' = <<>> /\ Serving
    BY <2>1 DEF LemonadeInv
  <2>3. Serving' /\ UNCHANGED Unfetched
    BY <2>1, <2>2, TruthSame
  <2>4. Lemonade!TypeOK'
    BY <2>1, <2>2 DEF LemonadeInv, Lemonade!TypeOK
  <2>5. QED
    BY <2>1, <2>2, <2>3, <2>4 DEF LemonadeInv
<1>4. CASE Lemonade!ReadHealth
  <2>1. /\ UNCHANGED <<listed, health, lemonadeNames, lemonadeResident, models, busy, resolved>>
        /\ lemonadeAt = "health" /\ models = listed /\ Serving
        /\ known = None /\ lemonadeContexts = <<>> /\ resolved = <<>> /\ jobs = <<>> /\ busy = {}
    BY <1>4 DEF LemonadeInv, Lemonade!TypeOK, Lemonade!ReadHealth, Lemonade!Names, Lemonade!Server
  <2>2. Serving' /\ UNCHANGED Unfetched /\ UNCHANGED Known
        /\ \A n, c : ContextTrue(n, c)' <=> ContextTrue(n, c)
    BY <2>1, TruthSame
  <2>3. UNCHANGED Lemonade!Wanted
    BY <2>1 DEF Lemonade!Wanted
  <2>4. ASSUME NEW h \in {health, None}, known' = h,
               lemonadeContexts' = Lemonade!FoldListing(h),
               jobs' = IF h = None THEN <<>> ELSE Lemonade!OptionsOf(h),
               lemonadeAt' = IF h = None \/ Lemonade!OptionsOf(h) = <<>> THEN "up" ELSE "options"
        PROVE  LemonadeInv'
    <3>1. /\ DOMAIN lemonadeContexts' \subseteq Lemonade!Wanted
          /\ \A n \in DOMAIN lemonadeContexts' : ContextTrue(n, lemonadeContexts'[n])
          /\ h = health => DOMAIN lemonadeContexts' = Known
      <4>1. Serving /\ models = listed /\ h \in {health, None}
        BY <2>1
      <4>2. /\ DOMAIN Lemonade!FoldListing(h) \subseteq Lemonade!Wanted
            /\ \A n \in DOMAIN Lemonade!FoldListing(h) : ContextTrue(n, Lemonade!FoldListing(h)[n])
            /\ h = health => DOMAIN Lemonade!FoldListing(h) = Known
        BY <4>1, FoldTrue
      <4>3. QED
        BY <2>4, <4>2
    <3>2. (\A n \in DOMAIN lemonadeContexts : ContextTrue(n, lemonadeContexts[n]))'
      BY <2>2, <3>1
    <3>3. jobs' \in Seq(Unfetched)
      <4>1. <<>> \in Seq(Unfetched)
        OBVIOUS
      <4>2. h # None => Lemonade!OptionsOf(h) \in Seq(Unfetched)
        BY <2>1, OptionsPlanned
      <4>3. CASE h = None
        BY <2>4, <4>1, <4>3
      <4>4. CASE h # None
        BY <2>4, <4>2, <4>4
      <4>5. QED
        BY <4>3, <4>4
    <3>4. lemonadeAt' = "options" \/ (lemonadeAt' = "up" /\ jobs' = <<>>)
      <4>1. CASE h = None
        BY <2>4, <4>1
      <4>2. CASE h # None /\ Lemonade!OptionsOf(h) = <<>>
        BY <2>4, <4>2
      <4>3. CASE h # None /\ Lemonade!OptionsOf(h) # <<>>
        BY <2>4, <4>3
      <4>4. QED
        BY <4>1, <4>2, <4>3
    <3>5. Lemonade!TypeOK'
      BY <2>1, <2>3, <3>1, <3>4 DEF LemonadeInv, Lemonade!TypeOK
    <3>6. lemonadeAt' = "options" => known' = health' /\ Fetched'
      BY <2>1, <2>4 DEF Fetched
    <3>7. known' # None => DOMAIN lemonadeContexts' = Known'
      BY <2>2, <2>4, <3>1
    <3>8. IsFiniteSet(busy') /\ busy' \subseteq Unfetched'
      BY <2>1, FS_EmptySet
    <3>9. lemonadeAt' \in {"options", "up"} /\ models' = listed' /\ jobs' \in Seq(Unfetched')
      BY <2>1, <2>2, <3>3, <3>4
    <3>10. Serving'
      BY <2>2
    <3>11. QED
      BY <3>10, <3>2, <3>5, <3>6, <3>7, <3>8, <3>9 DEF LemonadeInv
  <2>5. ASSUME lemonadeAt' = "up", UNCHANGED <<known, jobs, lemonadeContexts>>
        PROVE  LemonadeInv'
    BY <2>1, <2>2, <2>3, <2>5 DEF LemonadeInv, Lemonade!TypeOK
  <2>6. QED
    BY <1>4, <2>4, <2>5 DEF Lemonade!ReadHealth
<1>5. CASE Lemonade!TakeJob
  <2>1. /\ UNCHANGED <<listed, health, lemonadeNames, lemonadeResident, models, known, resolved,
                       lemonadeContexts, lemonadeAt>>
        /\ lemonadeAt = "options" /\ jobs # <<>> /\ Cardinality(busy) < Workers
        /\ busy' = busy \cup {Head(jobs)} /\ jobs' = Tail(jobs)
    BY <1>5, SameCount DEF Lemonade!TakeJob, Lemonade!Names, Lemonade!Server
  <2>2. Serving' /\ UNCHANGED Unfetched /\ UNCHANGED Known
        /\ \A n, c : ContextTrue(n, c)' <=> ContextTrue(n, c)
    BY <2>1, TruthSame DEF LemonadeInv
  <2>3. jobs \in Seq(Unfetched) /\ busy \subseteq Unfetched /\ IsFiniteSet(busy)
    BY DEF LemonadeInv
  <2>4. Head(jobs) \in Unfetched /\ jobs' \in Seq(Unfetched)
    BY <2>1, <2>3, HeadTailProperties
  <2>5. /\ IsFiniteSet(busy')
        /\ Cardinality(busy') <= Workers
    <3>1. /\ IsFiniteSet(busy') /\ Cardinality(busy) \in Nat /\ Cardinality(busy') \in Nat
          /\ Cardinality(busy') <= Cardinality(busy) + 1
      <4>1. /\ IsFiniteSet(busy')
            /\ Cardinality(busy') = IF Head(jobs) \in busy THEN Cardinality(busy)
                                    ELSE Cardinality(busy) + 1
        BY <2>1, <2>3, FS_AddElement
      <4>2. Cardinality(busy) \in Nat
        BY <2>3, FS_CardinalityType
      <4>3. QED
        BY <4>1, <4>2
    <3>2. Workers \in Nat
      BY LemonadeAssumption
    <3>3. QED
      BY <2>1, <3>1, <3>2
  <2>6. Lemonade!TypeOK'
    BY <2>1, <2>5, SameCount DEF LemonadeInv, Lemonade!TypeOK, Lemonade!Wanted
  <2>7. Fetched'
    BY <2>1, <2>2 DEF LemonadeInv, Fetched
  <2>8. QED
    BY <2>1, <2>2, <2>3, <2>4, <2>5, <2>6, <2>7 DEF LemonadeInv
<1>6. CASE Lemonade!FinishJob
  <2>1. /\ UNCHANGED <<listed, health, lemonadeNames, lemonadeResident, models, known, jobs,
                       lemonadeContexts, lemonadeAt>>
        /\ lemonadeAt = "options"
    BY <1>6 DEF Lemonade!FinishJob, Lemonade!Names, Lemonade!Server
  <2>2. Serving' /\ UNCHANGED Unfetched /\ UNCHANGED Known
        /\ \A n, c : ContextTrue(n, c)' <=> ContextTrue(n, c)
    BY <2>1, TruthSame DEF LemonadeInv
  <2>3. PICK m \in busy :
          /\ busy' = busy \ {m}
          /\ \/ resolved' = Lemonade!With(resolved, {m.id},
                  Lemonade!modelContext(m.max, Lemonade!validEffective(m.planned, m.max)))
             \/ UNCHANGED resolved
    BY <1>6 DEF Lemonade!FinishJob
  <2>4. IsFiniteSet(busy) /\ m \in Unfetched /\ busy \subseteq Unfetched
    BY DEF LemonadeInv
  <2>5. IsFiniteSet(busy') /\ Cardinality(busy') <= Workers
    <3>1. /\ IsFiniteSet(busy') /\ Cardinality(busy) \in Nat /\ Cardinality(busy') \in Nat
          /\ Cardinality(busy') <= Cardinality(busy)
      <4>1. /\ IsFiniteSet(busy')
            /\ Cardinality(busy') = IF m \in busy THEN Cardinality(busy) - 1
                                    ELSE Cardinality(busy)
        BY <2>3, <2>4, FS_RemoveElement
      <4>2. Cardinality(busy) \in Nat /\ Cardinality(busy') \in Nat
        BY <2>4, <4>1, FS_CardinalityType
      <4>3. QED
        BY <4>1, <4>2
    <3>2. Workers \in Nat /\ Cardinality(busy) <= Workers
      BY LemonadeAssumption, SameCount DEF LemonadeInv, Lemonade!TypeOK
    <3>3. QED
      BY <3>1, <3>2
  <2>6. Lemonade!TypeOK'
    BY <2>1, <2>5, SameCount DEF LemonadeInv, Lemonade!TypeOK, Lemonade!Wanted
  <2>7. Fetched'
    <3>1. Fetched
      BY <2>1 DEF LemonadeInv
    <3>2. CASE UNCHANGED resolved
      BY <2>2, <3>1, <3>2 DEF Fetched
    <3>3. CASE resolved' = Lemonade!With(resolved, {m.id},
                 Lemonade!modelContext(m.max, Lemonade!validEffective(m.planned, m.max)))
      <4>1. /\ DOMAIN resolved' = DOMAIN resolved \cup {m.id}
            /\ \A id \in DOMAIN resolved \cup {m.id} : resolved'[id] =
                 IF id = m.id
                 THEN Lemonade!modelContext(m.max, Lemonade!validEffective(m.planned, m.max))
                 ELSE resolved[id]
        BY <3>3 DEF Lemonade!With
      <4>2. QED
        BY <2>2, <2>4, <3>1, <4>1 DEF Fetched
    <3>4. QED
      BY <2>3, <3>2, <3>3
  <2>8. busy' \subseteq Unfetched' /\ jobs' \in Seq(Unfetched')
    BY <2>1, <2>2, <2>3, <2>4 DEF LemonadeInv
  <2>9. QED
    BY <2>1, <2>2, <2>5, <2>6, <2>7, <2>8 DEF LemonadeInv
<1>7. CASE Lemonade!ApplyOptions
  <2>1. /\ UNCHANGED <<listed, health, lemonadeNames, lemonadeResident, models, known, jobs,
                       busy, resolved>>
        /\ lemonadeAt = "options" /\ lemonadeAt' = "up" /\ jobs = <<>> /\ busy = {}
        /\ lemonadeContexts' = Lemonade!Noting!Over(Lemonade!Answered, lemonadeContexts)
    BY <1>7 DEF Lemonade!ApplyOptions, Lemonade!Names, Lemonade!Server
  <2>2. Serving' /\ UNCHANGED Unfetched /\ UNCHANGED Known
        /\ \A n, c : ContextTrue(n, c)' <=> ContextTrue(n, c)
    BY <2>1, TruthSame DEF LemonadeInv
  <2>3. /\ \A n \in DOMAIN lemonadeContexts' : ContextTrue(n, lemonadeContexts'[n])
        /\ DOMAIN lemonadeContexts' = Known
    <3>1. Serving /\ known # None /\ models = listed /\ Fetched
      BY <2>1 DEF LemonadeInv, Serving
    <3>2. QED
      BY <2>1, <3>1, AnsweredTrue DEF LemonadeInv
  <2>4. Known \subseteq Lemonade!Wanted /\ UNCHANGED Lemonade!Wanted
    BY <2>1 DEF Known, Lemonade!Wanted
  <2>5. Lemonade!TypeOK'
    BY <2>1, <2>3, <2>4 DEF LemonadeInv, Lemonade!TypeOK
  <2>6. QED
    BY <2>1, <2>2, <2>3, <2>5 DEF LemonadeInv
<1>8. QED
  BY <1>1, <1>3, <1>4, <1>5, <1>6, <1>7 DEF Lemonade!Next

\* What the other readers do leaves the read alone.
LEMMA LemonadeSame == LemonadeInv /\ UNCHANGED LemonadeVars => LemonadeInv'
<1> SUFFICES ASSUME LemonadeInv, UNCHANGED LemonadeVars PROVE LemonadeInv'
  OBVIOUS
<1>1. UNCHANGED <<listed, health, lemonadeAt, lemonadeNames, lemonadeResident, models, known,
                  jobs, busy, resolved, lemonadeContexts>>
  BY DEF LemonadeVars
<1>2. (Serving' <=> Serving) /\ UNCHANGED Unfetched /\ UNCHANGED Known
      /\ \A n, c : ContextTrue(n, c)' <=> ContextTrue(n, c)
  BY <1>1, TruthSame
<1>3. Lemonade!TypeOK' /\ (Fetched' <=> Fetched)
  BY <1>1, <1>2 DEF LemonadeInv, Lemonade!TypeOK, Lemonade!Wanted, Fetched
<1>4. QED
  BY <1>1, <1>2, <1>3 DEF LemonadeInv

\* A read that is over is true of the server.
LEMMA LemonadeKeeps == LemonadeInv => LemonadeReadTrue
<1> SUFFICES ASSUME LemonadeInv, lemonadeAt = "up"
             PROVE  /\ \A n \in DOMAIN lemonadeContexts : ContextTrue(n, lemonadeContexts[n])
                    /\ known # None => DOMAIN lemonadeContexts = Known
  BY DEF LemonadeReadTrue, Lemonade!LemonadeReadTrue, ContextTrue, IsOf, Known
<1>1. QED
  BY DEF LemonadeInv

-----------------------------------------------------------------------------
(* Any other local server *)

\* A model as a server lists it.
Entry == [name : STRING, type : STRING, loaded : BOOLEAN, max : Int,
          able : SUBSET STRING \cup {None}]

\* The greatest of some positions in a list is one of them.
LEMMA GreatestIsOne ==
  ASSUME NEW n \in Nat, NEW S, S \subseteq 1..n, S # {}
  PROVE  Adapters!Max(S) \in S
<1> DEFINE Short == {n - x : x \in S}
<1>1. Short \subseteq Nat /\ Short # {}
  <2>1. \A x \in S : n - x \in Nat
    OBVIOUS
  <2>2. PICK x \in S : TRUE
    OBVIOUS
  <2>3. QED
    BY <2>1, <2>2
<1>2. IsWellFoundedOn(OpToRel(<, Nat), Nat)
  BY NatLessThanWellFounded
<1>3. PICK least \in Short : \A k \in Short : ~ (<<k, least>> \in OpToRel(<, Nat))
  <2> HIDE DEF Short
  <2>1. QED
    BY <1>1, <1>2, WFMin
<1>4. PICK x \in S : least = n - x
  BY <1>3
<1>5. \A y \in S : x >= y
  <2>1. ASSUME NEW y \in S, ~ (x >= y) PROVE FALSE
    <3>1. n - y \in Short /\ n - y < least /\ n - y \in Nat /\ least \in Nat
      BY <1>4, <2>1
    <3>2. QED
      BY <1>3, <3>1 DEF OpToRel
  <2>2. QED
    BY <2>1
<1>6. QED
  BY <1>4, <1>5 DEF Adapters!Max

\* The entry kept of a name is one of that name that counts.
LEMMA KeptProfiles ==
  ASSUME NEW s, s.models \in Seq(Entry), s.kind = "lmstudio", NEW n,
         n \in Adapters!NamesIn(s.models, LAMBDA m : m.type \in DOMAIN Kinds)
  PROVE  LET m == Adapters!LastListed(s.models, n, LAMBDA k : k.type \in DOMAIN Kinds)
         IN m \in Adapters!Named(s, n) /\ Adapters!Serves(s, m) = Kinds[m.type]
            /\ Kinds[m.type] # None
<1> DEFINE S == {i \in DOMAIN s.models : s.models[i].name = n /\ s.models[i].type \in DOMAIN Kinds}
<1>1. Len(s.models) \in Nat /\ DOMAIN s.models = 1..Len(s.models)
  OBVIOUS
<1>2. S # {} /\ S \subseteq 1..Len(s.models)
  BY <1>1 DEF Adapters!NamesIn, Adapters!ToSet
<1>3. Adapters!Max(S) \in S
  <2> HIDE DEF S
  <2>1. QED
    BY <1>1, <1>2, GreatestIsOne
<1>4. QED
  BY <1>3, AdaptersAssumption
     DEF Adapters!LastListed, Adapters!Named, Adapters!Serves, Adapters!ToSet

\* So is the entry a length is kept of.
LEMMA KeptContexts ==
  ASSUME NEW s, s.models \in Seq(Entry), NEW n,
         n \in Adapters!NamesIn(s.models, LAMBDA m : m.max > 0)
  PROVE  Adapters!LastListed(s.models, n, LAMBDA k : k.max > 0) \in Adapters!Named(s, n)
<1> DEFINE S == {i \in DOMAIN s.models : s.models[i].name = n /\ s.models[i].max > 0}
<1>1. Len(s.models) \in Nat /\ DOMAIN s.models = 1..Len(s.models)
  OBVIOUS
<1>2. S # {} /\ S \subseteq 1..Len(s.models)
  BY <1>1 DEF Adapters!NamesIn, Adapters!ToSet
<1>3. Adapters!Max(S) \in S
  <2> HIDE DEF S
  <2>1. QED
    BY <1>1, <1>2, GreatestIsOne
<1>4. QED
  BY <1>3 DEF Adapters!LastListed, Adapters!Named, Adapters!ToSet

\* A profile, and a length, are those of a model of the name.
ProfilesTrue ==
  \A n \in DOMAIN profiles : \E s \in seen : \E m \in Adapters!Named(s, n) :
    Adapters!Serves(s, m) = profiles[n] /\ profiles[n] # None

ContextsTrue ==
  \A n \in DOMAIN contexts : \E s \in seen : \E m \in Adapters!Named(s, n) :
    m.max = contexts[n]

\* A graph runtime is asked for one folder after another, and may change between
\* two; any other server is asked once.
InstalledTrue ==
  IF server.kind = "comfyui"
  THEN \A n \in installed : \E s \in seen : Adapters!Named(s, n) # {}
  ELSE \E s \in seen : installed = IF s.kind \in Adapters!Fixed THEN {s.kind}
                                   ELSE Adapters!Inventory(s)

\* What was read so far was so of the server at some moment since the read began.
AdaptersInv ==
  /\ Adapters!TypeOK
  /\ IF adapterAt = "idle" THEN seen = {} ELSE server \in seen
  /\ adapterAt = "folders" => server.kind = "comfyui"
  /\ adapterAt \in {"profiles", "contexts"} => server.kind = "lmstudio"
  /\ adapterAt = "metadata" => server.kind = "ollama"
  /\ adapterAt \notin {"folders", "metadata"} => left = {}
  /\ adapterAt \in {"folders", "resident", "profiles", "contexts", "metadata", "up"}
       => InstalledTrue
  /\ ProfilesTrue /\ ContextsTrue
  /\ resident # {} => \E s \in seen : resident = Adapters!ResidentOn(s)

\* No read has made anything before it begins.
LEMMA AdaptersInit == Adapters!Init => AdaptersInv
BY DEF Adapters!Init, AdaptersInv, Adapters!TypeOK, ProfilesTrue, ContextsTrue

\* What is true of a server's models.
LEMMA ServerLists ==
  ASSUME AdaptersInv, adapterAt # "idle"
  PROVE  server \in Servers /\ server \in seen /\ server.models \in Seq(Entry)
BY AdaptersAssumption DEF AdaptersInv, Adapters!TypeOK, Entry 

\* A server that is asked again is of the kind it was, and a moment of the read
\* more is one that what was read may be of.
LEMMA AdaptersChange ==
  ASSUME AdaptersInv, Adapters!Change
  PROVE  AdaptersInv'
<1>1. /\ UNCHANGED <<adapterAt, installed, resident, profiles, contexts, left>>
      /\ server' \in Servers /\ server'.kind = server.kind
      /\ seen' = seen \cup {server'} /\ adapterAt \notin {"idle", "up", "down"}
  BY DEF Adapters!Change
<1>2. Adapters!TypeOK'
  BY <1>1 DEF AdaptersInv, Adapters!TypeOK
<1>3. ProfilesTrue' /\ ContextsTrue'
  BY <1>1 DEF AdaptersInv, ProfilesTrue, ContextsTrue
<1>4. InstalledTrue => InstalledTrue'
  BY <1>1 DEF InstalledTrue
<1>5. QED
  BY <1>1, <1>2, <1>3, <1>4 DEF AdaptersInv

\* What is installed is read of what the server lists at that moment.
LEMMA AdaptersInstalled ==
  ASSUME AdaptersInv, Adapters!ReadInstalled \/ Adapters!ReadFolder
  PROVE  AdaptersInv'
<1>1. /\ UNCHANGED <<server, seen, resident, profiles, contexts>>
      /\ adapterAt \in {"installed", "folders"}
      /\ adapterAt' \in {"folders", "resident", "down"}
  BY DEF Adapters!ReadInstalled, Adapters!ReadFolder
<1>2. server \in seen /\ (adapterAt = "installed" => installed = {} /\ resident = {} /\ left = {})
  BY <1>1 DEF AdaptersInv, Adapters!TypeOK
<1>3. /\ adapterAt' = "down" => installed' = {} /\ resident' = {} /\ left' = {}
      /\ adapterAt' = "folders" => server.kind = "comfyui"
      /\ adapterAt' = "resident" => left' = {}
  BY <1>1, <1>2 DEF AdaptersInv, Adapters!ReadInstalled, Adapters!ReadFolder
<1>4. ASSUME adapterAt' # "down" PROVE InstalledTrue'
  <2>1. CASE adapterAt = "installed" /\ server.kind = "comfyui"
    <3>1. installed' = {}
      BY <1>1, <1>2, <1>4, <2>1 DEF Adapters!ReadInstalled, Adapters!ReadFolder, Adapters!Fixed
    <3>2. QED
      BY <1>1, <2>1, <3>1 DEF InstalledTrue
  <2>2. CASE adapterAt = "installed" /\ server.kind # "comfyui"
    <3>1. installed' = IF server.kind \in Adapters!Fixed THEN {server.kind}
                       ELSE Adapters!Inventory(server)
      BY <1>4, <2>2 DEF Adapters!ReadInstalled, Adapters!ReadFolder, Adapters!Itself
    <3>2. QED
      BY <1>1, <1>2, <2>2, <3>1 DEF InstalledTrue
  <2>3. CASE adapterAt = "folders"
    <3>1. PICK f \in left :
            \/ installed' = installed \cup Adapters!NamesIn(server.models, LAMBDA m : m.type = f)
            \/ UNCHANGED installed
      BY <2>3 DEF Adapters!ReadInstalled, Adapters!ReadFolder
    <3>2. \A n \in Adapters!NamesIn(server.models, LAMBDA m : m.type = f) :
            Adapters!Named(server, n) # {}
      BY DEF Adapters!NamesIn, Adapters!Named
    <3>3. server.kind = "comfyui" /\ InstalledTrue
      BY <2>3 DEF AdaptersInv
    <3>4. \A n \in installed : \E s \in seen : Adapters!Named(s, n) # {}
      BY <3>3 DEF InstalledTrue
    <3> DEFINE more == Adapters!NamesIn(server.models, LAMBDA m : m.type = f)
    <3> HIDE DEF more
    <3>5. \A n \in more : Adapters!Named(server, n) # {}
      BY <3>2 DEF more
    <3>6. installed' = installed \cup more \/ installed' = installed
      BY <3>1 DEF more
    <3>7. \A n \in installed' : \E s \in seen : Adapters!Named(s, n) # {}
      BY <1>2, <3>4, <3>5, <3>6
    <3>8. QED
      BY <1>1, <3>3, <3>7 DEF InstalledTrue
  <2>4. QED
    BY <1>1, <2>1, <2>2, <2>3
<1>5. Adapters!TypeOK'
  BY <1>1, <1>3 DEF AdaptersInv, Adapters!TypeOK
<1>6. ProfilesTrue' /\ ContextsTrue'
  BY <1>1 DEF AdaptersInv, ProfilesTrue, ContextsTrue
<1>7. QED
  BY <1>1, <1>2, <1>3, <1>4, <1>5, <1>6 DEF AdaptersInv

\* What is resident is read of what the server has loaded at that moment.
LEMMA AdaptersResident ==
  ASSUME AdaptersInv, Adapters!ReadResident
  PROVE  AdaptersInv'
<1>1. /\ UNCHANGED <<server, seen, installed, profiles, contexts>>
      /\ adapterAt = "resident" /\ left = {}
      /\ adapterAt' \in {"profiles", "metadata", "up"}
      /\ adapterAt' = "profiles" => server.kind = "lmstudio"
      /\ adapterAt' = "metadata" => server.kind = "ollama"
      /\ adapterAt' # "metadata" => left' = {}
      /\ resident' \in {resident, Adapters!ResidentOn(server)}
  <2>1. adapterAt = "resident" /\ left = {} /\ UNCHANGED <<server, seen, installed, profiles, contexts>>
    BY DEF Adapters!ReadResident, AdaptersInv
  <2>2. CASE /\ resident' = Adapters!ResidentOn(server)
             /\ adapterAt' = CASE server.kind = "lmstudio" -> "profiles"
                               [] server.kind = "ollama"   -> "metadata"
                               [] OTHER -> "up"
             /\ left' = IF server.kind = "ollama"
                        THEN installed \cup Adapters!ResidentOn(server) ELSE {}
    BY <2>1, <2>2
  <2>3. CASE adapterAt' = "up" /\ UNCHANGED <<resident, left>>
    BY <2>1, <2>3
  <2>4. QED
    BY <2>2, <2>3 DEF Adapters!ReadResident
<1>2. server \in seen /\ InstalledTrue
  BY <1>1 DEF AdaptersInv
<1>3. Adapters!TypeOK'
  BY <1>1 DEF AdaptersInv, Adapters!TypeOK
<1>4. ProfilesTrue' /\ ContextsTrue' /\ InstalledTrue'
  BY <1>1, <1>2 DEF AdaptersInv, ProfilesTrue, ContextsTrue, InstalledTrue
<1>5. (resident # {} => \E s \in seen : resident = Adapters!ResidentOn(s))'
  BY <1>1, <1>2 DEF AdaptersInv
<1>6. QED
  BY <1>1, <1>2, <1>3, <1>4, <1>5 DEF AdaptersInv

\* LM Studio's listing tells the profiles, and again the lengths.
LEMMA AdaptersListed ==
  ASSUME AdaptersInv, Adapters!ReadProfiles \/ Adapters!ReadContexts
  PROVE  AdaptersInv'
<1>1. /\ UNCHANGED <<server, seen, installed, resident, left>>
      /\ server.kind = "lmstudio" /\ left = {}
      /\ \/ adapterAt = "profiles" /\ adapterAt' = "contexts"
         \/ adapterAt = "contexts" /\ adapterAt' = "up"
  BY DEF AdaptersInv, Adapters!ReadProfiles, Adapters!ReadContexts
<1>2. server \in seen /\ server.models \in Seq(Entry) /\ InstalledTrue
  BY <1>1, ServerLists DEF AdaptersInv
<1>3. Adapters!TypeOK'
  BY <1>1 DEF AdaptersInv, Adapters!TypeOK
<1>4. ProfilesTrue'
  <2>1. CASE UNCHANGED profiles
    BY <1>1, <2>1 DEF AdaptersInv, ProfilesTrue
  <2>2. CASE profiles' = [n \in Adapters!Wanted \cap Adapters!NamesIn(server.models,
                                   LAMBDA m : m.type \in DOMAIN Kinds) |->
               Kinds[Adapters!LastListed(server.models, n, LAMBDA m : m.type \in DOMAIN Kinds).type]]
    <3> SUFFICES ASSUME NEW n \in DOMAIN profiles'
                 PROVE  \E m \in Adapters!Named(server, n) :
                          Adapters!Serves(server, m) = profiles'[n] /\ profiles'[n] # None
      BY <1>1, <1>2 DEF ProfilesTrue
    <3> DEFINE m == Adapters!LastListed(server.models, n, LAMBDA k : k.type \in DOMAIN Kinds)
    <3>1. n \in Adapters!NamesIn(server.models, LAMBDA k : k.type \in DOMAIN Kinds)
      BY <2>2
    <3>2. /\ m \in Adapters!Named(server, n)
          /\ Adapters!Serves(server, m) = Kinds[m.type] /\ Kinds[m.type] # None
      BY <1>1, <1>2, <3>1, KeptProfiles
    <3>3. profiles'[n] = Kinds[m.type]
      BY <2>2
    <3> HIDE DEF m
    <3>4. QED
      BY <3>2, <3>3
  <2>3. QED
    BY <2>1, <2>2 DEF Adapters!ReadProfiles, Adapters!ReadContexts
<1>5. ContextsTrue'
  <2>1. CASE UNCHANGED contexts
    BY <1>1, <2>1 DEF AdaptersInv, ContextsTrue
  <2>2. CASE contexts' = [n \in Adapters!Wanted \cap Adapters!NamesIn(server.models,
                                   LAMBDA m : m.max > 0) |->
               Adapters!LastListed(server.models, n, LAMBDA m : m.max > 0).max]
    <3> SUFFICES ASSUME NEW n \in DOMAIN contexts'
                 PROVE  \E m \in Adapters!Named(server, n) : m.max = contexts'[n]
      BY <1>1, <1>2 DEF ContextsTrue, Adapters!Named
    <3> DEFINE m == Adapters!LastListed(server.models, n, LAMBDA k : k.max > 0)
    <3>1. n \in Adapters!NamesIn(server.models, LAMBDA k : k.max > 0)
      BY <2>2
    <3>2. m \in Adapters!Named(server, n)
      BY <1>2, <3>1, KeptContexts
    <3>3. contexts'[n] = m.max
      BY <2>2
    <3> HIDE DEF m
    <3>4. QED
      BY <3>2, <3>3
  <2>3. QED
    BY <2>1, <2>2 DEF Adapters!ReadProfiles, Adapters!ReadContexts
<1>6. InstalledTrue'
  BY <1>1, <1>2 DEF InstalledTrue
<1>7. QED
  BY <1>1, <1>2, <1>3, <1>4, <1>5, <1>6 DEF AdaptersInv

\* Ollama shows one name after another.
LEMMA AdaptersShow ==
  ASSUME AdaptersInv, Adapters!Show
  PROVE  AdaptersInv'
<1>1. /\ UNCHANGED <<server, seen, installed, resident>>
      /\ adapterAt = "metadata" /\ server.kind = "ollama"
      /\ adapterAt' = "metadata" \/ (adapterAt' = "up" /\ left' = {})
  BY DEF AdaptersInv, Adapters!Show
<1>2. server \in seen /\ server.models \in Seq(Entry) /\ InstalledTrue
  BY <1>1, ServerLists DEF AdaptersInv
<1>3. Adapters!TypeOK'
  BY <1>1 DEF AdaptersInv, Adapters!TypeOK
<1>4. InstalledTrue'
  BY <1>1, <1>2 DEF InstalledTrue
<1>5. ProfilesTrue' /\ ContextsTrue'
  <2>1. CASE UNCHANGED <<profiles, contexts>>
    BY <1>1, <2>1 DEF AdaptersInv, ProfilesTrue, ContextsTrue
  <2>2. ASSUME NEW n, NEW m \in Adapters!Named(server, n), m.able # None,
               profiles' = Adapters!With(profiles, n, Adapters!ollamaProfiles(m.able)),
               contexts' = IF m.max > 0 THEN Adapters!With(contexts, n, m.max) ELSE contexts
        PROVE  ProfilesTrue' /\ ContextsTrue'
    <3>1. Adapters!Serves(server, m) = Adapters!ollamaProfiles(m.able)
      BY <1>1, <2>2 DEF Adapters!Serves, Adapters!ollamaProfiles
    <3>2. Adapters!ollamaProfiles(m.able) # None
      <4>1. Adapters!ollamaProfiles(m.able) \in SUBSET {Abilities[c] : c \in DOMAIN Abilities}
        BY DEF Adapters!ollamaProfiles
      <4>2. QED
        BY <4>1, AdaptersAssumption
    <3>3. /\ DOMAIN profiles' = DOMAIN profiles \cup {n}
          /\ \A x \in DOMAIN profiles \cup {n} :
               profiles'[x] = IF x = n THEN Adapters!ollamaProfiles(m.able) ELSE profiles[x]
      BY <2>2 DEF Adapters!With
    <3>4. ProfilesTrue'
      <4> SUFFICES ASSUME NEW x \in DOMAIN profiles'
                   PROVE  \E s \in seen : \E k \in Adapters!Named(s, x) :
                            Adapters!Serves(s, k) = profiles'[x] /\ profiles'[x] # None
        BY <1>1 DEF ProfilesTrue
      <4>1. CASE x = n
        BY <1>2, <2>2, <3>1, <3>2, <3>3, <4>1
      <4>2. CASE x # n
        BY <3>3, <4>2 DEF AdaptersInv, ProfilesTrue
      <4>3. QED
        BY <4>1, <4>2
    <3>5. /\ DOMAIN contexts' \subseteq DOMAIN contexts \cup {n}
          /\ \A x \in DOMAIN contexts' :
               (contexts'[x] = m.max /\ x = n) \/ (x \in DOMAIN contexts /\ contexts'[x] = contexts[x])
      BY <2>2 DEF Adapters!With
    <3>6. ContextsTrue'
      BY <1>1, <1>2, <2>2, <3>5 DEF AdaptersInv, ContextsTrue
    <3>7. QED
      BY <3>4, <3>6
  <2>3. QED
    BY <2>1, <2>2 DEF Adapters!Show, Adapters!told
<1>6. QED
  BY <1>1, <1>2, <1>3, <1>4, <1>5 DEF AdaptersInv

\* Each step of a read keeps its invariant.
LEMMA AdaptersStep ==
  ASSUME AdaptersInv, Adapters!Next
  PROVE  AdaptersInv'
<1>1. CASE Adapters!Begin
  <2>1. /\ adapterAt = "idle" /\ adapterAt' = "installed"
        /\ server' \in Servers /\ seen' = {server'}
        /\ UNCHANGED <<installed, resident, profiles, contexts, left>>
    BY <1>1 DEF Adapters!Begin
  <2>2. /\ installed = {} /\ resident = {} /\ left = {}
        /\ DOMAIN profiles = {} /\ DOMAIN contexts = {}
    BY <2>1 DEF AdaptersInv, Adapters!TypeOK, ProfilesTrue, ContextsTrue
  <2>3. Adapters!TypeOK'
    BY <2>1, <2>2 DEF Adapters!TypeOK
  <2>4. ProfilesTrue' /\ ContextsTrue'
    BY <2>1, <2>2 DEF ProfilesTrue, ContextsTrue
  <2>5. QED
    BY <2>1, <2>2, <2>3, <2>4 DEF AdaptersInv
<1>2. QED
  BY <1>1, AdaptersChange, AdaptersInstalled, AdaptersResident, AdaptersListed, AdaptersShow
     DEF Adapters!Next

\* What the other readers do leaves the read alone.
LEMMA AdaptersSame == AdaptersInv /\ UNCHANGED AdaptersVars => AdaptersInv'
BY DEF AdaptersVars, AdaptersInv, Adapters!TypeOK, ProfilesTrue, ContextsTrue, InstalledTrue

\* What a read's invariant says of each part is what is promised of the whole.
LEMMA AdaptersKeeps == AdaptersInv => AdaptersReadTrue
BY DEF AdaptersInv, AdaptersReadTrue, Adapters!AdaptersReadTrue, ProfilesTrue, ContextsTrue,
       InstalledTrue

-----------------------------------------------------------------------------
(* The servers this machine's own records declare *)

\* An address that can be connected to.
Reachable(base) ==
  /\ Declared!Port(base.port)
  /\ base.host \notin NoHost \cup {None, AnyAddress.four, AnyAddress.six}

\* A probe gives an address that can be connected to, nothing, or a reason.
Sound(result) ==
  /\ result[1] \in {"base", "nothing", "reason"}
  /\ result[1] = "base" => Reachable(result[2])

\* The loopback address can be connected to at any port.
LEMMA LoopbackReached ==
  ASSUME NEW scheme, NEW port, Declared!Port(port)
  PROVE  Sound(Declared!Base(scheme, Declared!Loopback, port))
BY DeclaredAssumption DEF Sound, Reachable, Declared!Base, Declared!Loopback

\* Ollama's own setting gives a sound result, and only if it is there any.
LEMMA OllamaSound ==
  ASSUME NEW record
  PROVE  /\ Sound(Declared!ProbeOllama(record))
         /\ record = Absent => Declared!ProbeOllama(record)[1] = "nothing"
<1>1. CASE record = Absent
  BY <1>1 DEF Declared!ProbeOllama, Declared!Nothing, Sound
<1>2. CASE record # Absent /\ Declared!ollamaHost(record) = Declared!Unused
  BY <1>2 DEF Declared!ProbeOllama, Declared!Unused, Sound
<1>3. CASE record # Absent /\ Declared!ollamaHost(record) # Declared!Unused
  <2> DEFINE port == IF record.port = None THEN Declared!DefaultPort(record.scheme)
                     ELSE record.port
             scheme == IF record.scheme = None THEN "http" ELSE record.scheme
             host == Declared!Connectable(record.host)
  <2>1. /\ record.scheme \in {None, "http", "https"} /\ record.host \notin NoHost
        /\ record.port = None \/ Declared!Port(record.port)
        /\ Declared!ProbeOllama(record) = Declared!Base(scheme, host, port)
    BY <1>3 DEF Declared!ProbeOllama, Declared!ollamaHost
  <2>2. Declared!Port(port)
    <3>1. Declared!Port(11434) /\ Declared!Port(80) /\ Declared!Port(443)
      BY DEF Declared!Port
    <3>2. Declared!DefaultPort(record.scheme) \in {11434, 80, 443}
      BY <2>1 DEF Declared!DefaultPort
    <3>3. QED
      BY <2>1, <3>1, <3>2
  <2>3. host \notin NoHost \cup {None, AnyAddress.four, AnyAddress.six}
    BY <2>1, DeclaredAssumption DEF Declared!Connectable, Declared!Loopback
  <2> HIDE DEF port, scheme, host
  <2>4. QED
    BY <1>3, <2>1, <2>2, <2>3 DEF Sound, Reachable, Declared!Base
<1>4. QED
  BY <1>1, <1>2, <1>3

\* Of LM Studio's configurations the first there is decides.
LEMMA LMStudioSound ==
  ASSUME NEW e \in Environments
  PROVE  LET result == Declared!ProbeLMStudio(e.lmstudio)
             there  == {i \in DOMAIN e.lmstudio : e.lmstudio[i] # Absent}
         IN /\ Sound(result)
            /\ result[1] = "base" => result[2].host \in Addresses
            /\ there = {} => result[1] = "nothing"
            /\ (\E i \in there : /\ e.lmstudio[i] \in {Unreadable, Malformed}
                                 /\ \A j \in there : i <= j) => result[1] = "reason"
<1> DEFINE there == {i \in DOMAIN e.lmstudio : e.lmstudio[i] # Absent}
           first == CHOOSE i \in there : \A j \in there : i <= j
           r == e.lmstudio[first]
           host == Declared!Interface(r.host)
           result == Declared!ProbeLMStudio(e.lmstudio)
<1>1. there \subseteq Nat
  BY DeclaredAssumption
<1>2. \/ there = {} /\ result = Declared!Nothing
      \/ there # {} /\ r \in {Unreadable, Malformed} /\ result = Declared!Unused
      \/ /\ there # {} /\ r \notin {Unreadable, Malformed}
         /\ result = IF ~ Declared!Port(r.port) THEN Declared!Unused
                     ELSE Declared!Base("http", host, r.port)
  BY DEF Declared!ProbeLMStudio
<1>3. /\ host \notin NoHost \cup {None, AnyAddress.four, AnyAddress.six}
      /\ host \in Addresses
  BY DeclaredAssumption DEF Declared!Interface, Declared!Loopback
<1>4. ASSUME NEW i \in there, \A j \in there : i <= j
      PROVE  first = i
  <2>1. first \in there /\ \A j \in there : first <= j
    BY <1>4
  <2> HIDE DEF there, first
  <2>2. QED
    BY <1>1, <1>4, <2>1
<1> HIDE DEF host, first
<1>5. Sound(result) /\ (result[1] = "base" => result[2].host \in Addresses)
  BY <1>2, <1>3 DEF Sound, Reachable, Declared!Base, Declared!Nothing, Declared!Unused
<1>6. there = {} => result[1] = "nothing"
  BY <1>2 DEF Declared!Nothing
<1>7. ASSUME NEW i \in there, e.lmstudio[i] \in {Unreadable, Malformed}, \A j \in there : i <= j
      PROVE  result[1] = "reason"
  <2>1. r \in {Unreadable, Malformed} /\ there # {}
    BY <1>4, <1>7
  <2>2. QED
    BY <1>2, <2>1 DEF Declared!Unused
<1>8. QED
  BY <1>5, <1>6, <1>7

\* Docker's settings decide where there are any, and the plugin where there are
\* none.
LEMMA DockerSound ==
  ASSUME NEW settings, NEW plugin
  PROVE  LET result == Declared!ProbeDockerModelRunner(settings, plugin)
         IN /\ Sound(result)
            /\ settings \in {Unreadable, Malformed} => result[1] = "reason"
            /\ result[1] = "base" => IF settings = Absent THEN plugin ELSE settings.tcp = TRUE
<1>1. Sound(Declared!Base("http", Declared!Loopback, 12434))
  <2>1. Declared!Port(12434)
    BY DEF Declared!Port
  <2>2. QED
    BY <2>1, LoopbackReached
<1>2. Sound(Declared!Nothing) /\ Sound(Declared!Unused)
  BY DEF Sound, Declared!Nothing, Declared!Unused
<1>3. /\ Declared!Nothing[1] = "nothing" /\ Declared!Unused[1] = "reason"
      /\ Declared!Base("http", Declared!Loopback, 12434)[1] = "base"
  BY DEF Declared!Nothing, Declared!Unused, Declared!Base
<1>4. CASE settings \in {Unreadable, Malformed}
  <2>1. settings # Absent
    BY <1>4, DeclaredAssumption
  <2>2. Declared!ProbeDockerModelRunner(settings, plugin) = Declared!Unused
    BY <1>4, <2>1 DEF Declared!ProbeDockerModelRunner
  <2>3. "reason" # "base"
    OBVIOUS
  <2>4. QED
    BY <1>2, <1>3, <2>1, <2>2, <2>3
<1>5. CASE settings \notin {Unreadable, Malformed} /\ settings = Absent
  <2>1. Declared!ProbeDockerModelRunner(settings, plugin) =
          IF plugin THEN Declared!Base("http", Declared!Loopback, 12434) ELSE Declared!Nothing
    BY <1>5 DEF Declared!ProbeDockerModelRunner
  <2>2. QED
    BY <1>1, <1>2, <1>3, <1>5, <2>1
<1>6. CASE settings \notin {Unreadable, Malformed} /\ settings # Absent
  <2> DEFINE off == settings.ai = FALSE \/ settings.tcp # TRUE
  <2>1. Declared!ProbeDockerModelRunner(settings, plugin) =
          IF off THEN Declared!Nothing
          ELSE Declared!Base("http", Declared!Loopback, 12434)
    BY <1>6 DEF Declared!ProbeDockerModelRunner
  <2>2. ~ off => settings.tcp = TRUE
    OBVIOUS
  <2> HIDE DEF off
  <2>3. "nothing" # "base"
    OBVIOUS
  <2>4. CASE off
    BY <1>2, <1>3, <1>6, <2>1, <2>3, <2>4
  <2>5. CASE ~ off
    BY <1>1, <1>6, <2>1, <2>2, <2>5
  <2>6. QED
    BY <2>4, <2>5
<1>7. QED
  BY <1>4, <1>5, <1>6

\* The status of Foundry Local gives a sound result.
LEMMA FoundrySound ==
  ASSUME NEW status
  PROVE  /\ Sound(Declared!ProbeFoundryLocal(status))
         /\ status = Absent => Declared!ProbeFoundryLocal(status)[1] = "nothing"
<1>1. Sound(Declared!Nothing) /\ Sound(Declared!Unused) /\ Declared!Nothing[1] = "nothing"
  BY DEF Sound, Declared!Nothing, Declared!Unused
<1>2. CASE status = Absent
  BY <1>1, <1>2, DeclaredAssumption DEF Declared!ProbeFoundryLocal
<1>3. CASE status # Absent
  BY <1>1, <1>3, LoopbackReached DEF Declared!ProbeFoundryLocal
<1>4. QED
  BY <1>2, <1>3

\* What the l-th probe of an environment gives.
Result(e, l) == Declared!Probes(e)[l][2]

\* The products' probes, one by one.
LEMMA ProbesSound ==
  ASSUME NEW e \in Environments
  PROVE  /\ Len(Declared!Probes(e)) = 4
         /\ \A l \in 1..4 : /\ Declared!Probes(e)[l] = <<Declared!Products[l], Result(e, l)>>
                            /\ Sound(Result(e, l))
         /\ Result(e, 1) = Declared!ProbeLMStudio(e.lmstudio)
         /\ Result(e, 2) = Declared!ProbeOllama(e.ollama)
         /\ Result(e, 3) = Declared!ProbeDockerModelRunner(e.desktop, e.plugin)
         /\ Result(e, 4) = Declared!ProbeFoundryLocal(e.foundry)
<1>1. /\ Len(Declared!Probes(e)) = 4
      /\ Declared!Probes(e)[1] = <<"lmstudio", Declared!ProbeLMStudio(e.lmstudio)>>
      /\ Declared!Probes(e)[2] = <<"ollama", Declared!ProbeOllama(e.ollama)>>
      /\ Declared!Probes(e)[3] =
           <<"docker-model-runner", Declared!ProbeDockerModelRunner(e.desktop, e.plugin)>>
      /\ Declared!Probes(e)[4] = <<"foundry-local", Declared!ProbeFoundryLocal(e.foundry)>>
  BY DEF Declared!Probes
<1>2. /\ Result(e, 1) = Declared!ProbeLMStudio(e.lmstudio)
      /\ Result(e, 2) = Declared!ProbeOllama(e.ollama)
      /\ Result(e, 3) = Declared!ProbeDockerModelRunner(e.desktop, e.plugin)
      /\ Result(e, 4) = Declared!ProbeFoundryLocal(e.foundry)
  BY <1>1 DEF Result
<1>3. /\ Sound(Result(e, 1)) /\ Sound(Result(e, 2)) /\ Sound(Result(e, 3)) /\ Sound(Result(e, 4))
  BY <1>2, LMStudioSound, OllamaSound, DockerSound, FoundrySound
<1>4. /\ Declared!Products[1] = "lmstudio" /\ Declared!Products[2] = "ollama"
      /\ Declared!Products[3] = "docker-model-runner" /\ Declared!Products[4] = "foundry-local"
  BY DEF Declared!Products
<1>5. \A l \in 1..4 : l = 1 \/ l = 2 \/ l = 3 \/ l = 4
  OBVIOUS
<1>6. QED
  BY <1>1, <1>2, <1>3, <1>4, <1>5

\* The host that a probe's address becomes.
Row(e, l) == [product |-> Declared!Products[l], base |-> Result(e, l)[2]]

\* What the first k probes declare, in their order.
DeclaredBy(e, hs, k) ==
  /\ hs \in Seq({Row(e, l) : l \in {m \in 1..k : Result(e, m)[1] = "base"}})
  /\ \A i, j \in 1..Len(hs) : i < j =>
       \E l, m \in 1..k : /\ l < m /\ hs[i].product = Declared!Products[l]
                          /\ hs[j].product = Declared!Products[m]

\* One more probe that gives an address adds its host at the end.
LEMMA DeclareKeeps ==
  ASSUME NEW e \in Environments, NEW k \in 1..4, NEW hs, DeclaredBy(e, hs, k - 1)
  PROVE  DeclaredBy(e, Declared!Declare(hs, Declared!Probes(e)[k]), k)
<1> DEFINE Rows(n) == {Row(e, l) : l \in {m \in 1..n : Result(e, m)[1] = "base"}}
           more == Declared!Declare(hs, Declared!Probes(e)[k])
<1>1. more = IF Result(e, k)[1] = "base" THEN Append(hs, Row(e, k)) ELSE hs
  BY ProbesSound DEF Declared!Declare, Row
<1>2. 1..k = (1..(k - 1)) \cup {k} /\ \A l \in 1..(k - 1) : l < k
  OBVIOUS
<1>3. hs \in Seq(Rows(k - 1)) /\ Rows(k - 1) \subseteq Rows(k)
  BY <1>2 DEF DeclaredBy
<1>4. \A i \in 1..Len(hs) : \E l \in 1..(k - 1) : hs[i].product = Declared!Products[l]
  <2>1. \A r \in Rows(k - 1) : \E l \in 1..(k - 1) : r.product = Declared!Products[l]
    BY DEF Row
  <2> HIDE DEF Rows
  <2>2. QED
    BY <1>3, <2>1
<1>5. CASE Result(e, k)[1] = "base"
  <2>1. Row(e, k) \in Rows(k) /\ Row(e, k).product = Declared!Products[k]
    BY <1>2, <1>5 DEF Row
  <2> HIDE DEF Rows, more
  <2>2. hs \in Seq(Rows(k)) /\ Len(hs) \in Nat
    BY <1>3
  <2>3. /\ more \in Seq(Rows(k)) /\ Len(more) = Len(hs) + 1
        /\ \A i \in 1..Len(hs) : more[i] = hs[i]
        /\ more[Len(hs) + 1] = Row(e, k)
    BY <1>1, <1>5, <2>1, <2>2, AppendProperties
  <2>4. ASSUME NEW i \in 1..Len(more), NEW j \in 1..Len(more), i < j
        PROVE  \E l, m \in 1..k : /\ l < m /\ more[i].product = Declared!Products[l]
                                  /\ more[j].product = Declared!Products[m]
    <3>1. i \in 1..Len(hs)
      BY <2>2, <2>3, <2>4
    <3>2. CASE j = Len(hs) + 1
      BY <1>2, <1>4, <2>1, <2>3, <3>1, <3>2
    <3>3. CASE j # Len(hs) + 1
      <4>1. j \in 1..Len(hs)
        BY <2>2, <2>3, <3>3
      <4>2. \E l, m \in 1..(k - 1) : /\ l < m /\ hs[i].product = Declared!Products[l]
                                     /\ hs[j].product = Declared!Products[m]
        BY <2>4, <3>1, <4>1 DEF DeclaredBy
      <4>3. QED
        BY <1>2, <2>3, <3>1, <4>1, <4>2
    <3>4. QED
      BY <3>2, <3>3
  <2>5. QED
    BY <2>3, <2>4 DEF DeclaredBy, Rows, more
<1>6. CASE Result(e, k)[1] # "base"
  <2> HIDE DEF Rows, more
  <2>1. more = hs
    BY <1>1, <1>6
  <2>2. hs \in Seq(Rows(k))
    BY <1>3
  <2>3. QED
    BY <1>2, <2>1, <2>2 DEF DeclaredBy, Rows, more
<1>7. QED
  BY <1>5, <1>6

\* The probes together declare their hosts in their order.
LEMMA DeclaredAll ==
  ASSUME NEW e \in Environments
  PROVE  DeclaredBy(e, Declared!Declaring!Over(Declared!Probes(e), <<>>), 4)
<1> DEFINE s == Declared!Probes(e)
           made == Declared!Declaring!Made(s, <<>>)
           Kept == {k \in 0..4 : DeclaredBy(e, made[k], k)}
<1>1. Len(s) = 4 /\ 4 \in Nat
  BY ProbesSound
<1>2. /\ made[0] = <<>>
      /\ \A k \in 1..4 : made[k] = Declared!Declare(made[k - 1], s[k])
  <2>1. made = [k \in 0..Len(s) |-> IF k = 0 THEN <<>> ELSE Declared!Declare(made[k - 1], s[k])]
    BY <1>1, Declared!Declaring!Turns
  <2> HIDE DEF made, s
  <2>2. QED
    BY <1>1, <2>1
<1>3. Declared!Declaring!Over(s, <<>>) = made[4]
  BY <1>1 DEF Declared!Declaring!Over
<1> HIDE DEF made
<1>4. 0 \in Kept
  <2>1. DeclaredBy(e, <<>>, 0)
    BY DEF DeclaredBy
  <2>2. QED
    BY <1>2, <2>1
<1>5. ASSUME NEW k \in 1..4, k - 1 \in Kept PROVE k \in Kept
  BY <1>2, <1>5, DeclareKeeps
<1>6. 4 \in Kept
  <2> HIDE DEF Kept
  <2>1. \A k \in 0..4 : k \in Kept
    BY <1>1, <1>4, <1>5, Declared!Declaring!Throughout
  <2>2. QED
    BY <2>1
<1>7. QED
  BY <1>3, <1>6
\* The hosts and the reasons are those of one environment's probes.
EnvironmentInv ==
  /\ environment = None => hosts = <<>> /\ reasons = {}
  /\ environment # None =>
       /\ environment \in Environments
       /\ DeclaredBy(environment, hosts, 4)
       /\ reasons = {Declared!Products[l] : l \in {m \in 1..4 : Result(environment, m)[1] = "reason"}}

\* No environment is probed at first.
LEMMA EnvironmentInit == Declared!Init => EnvironmentInv
BY DEF Declared!Init, EnvironmentInv

\* What leaves an environment's hosts alone keeps their invariant.
LEMMA EnvironmentSame ==
  EnvironmentInv /\ UNCHANGED <<environment, hosts, reasons>> => EnvironmentInv'
BY DEF EnvironmentInv, DeclaredBy, Row, Result

\* An environment is probed at once, and nothing else touches what it declares.
LEMMA EnvironmentStep ==
  ASSUME EnvironmentInv, Declared!Next
  PROVE  EnvironmentInv'
<1>1. ASSUME NEW e \in Environments, Declared!DeclareHosts(e) PROVE EnvironmentInv'
  <2>1. environment' = e /\ e # None
    BY <1>1, DeclaredAssumption DEF Declared!DeclareHosts
  <2>2. DeclaredBy(e, hosts', 4)
    BY <1>1, DeclaredAll DEF Declared!DeclareHosts
  <2>3. reasons' = {Declared!Products[l] : l \in {m \in 1..4 : Result(e, m)[1] = "reason"}}
    <3>1. Declared!ToSet(Declared!Probes(e)) = {Declared!Probes(e)[l] : l \in 1..4}
      <4>1. DOMAIN Declared!Probes(e) = 1..4
        BY DEF Declared!Probes
      <4>2. QED
        BY <4>1 DEF Declared!ToSet
    <3>2. \A l \in 1..4 : /\ Declared!Probes(e)[l][1] = Declared!Products[l]
                          /\ Declared!Probes(e)[l][2] = Result(e, l)
      BY ProbesSound
    <3>3. \A x : x \in reasons' <=> \E l \in 1..4 : /\ Declared!Probes(e)[l][2][1] = "reason"
                                                   /\ x = Declared!Probes(e)[l][1]
      BY <1>1, <3>1 DEF Declared!DeclareHosts
    <3>4. QED
      BY <3>2, <3>3
  <2>4. DeclaredBy(environment, hosts, 4)' <=> DeclaredBy(e, hosts', 4)
    BY <2>1 DEF DeclaredBy, Row, Result
  <2>5. Result(environment, 1)' = Result(e, 1)
    BY <2>1 DEF Result
  <2>6. \A m : Result(environment, m)' = Result(e, m)
    BY <2>1 DEF Result
  <2>7. QED
    BY <2>1, <2>2, <2>3, <2>4, <2>6 DEF EnvironmentInv
<1>2. CASE \E d \in Declarations : Declared!NewNative(d)
  BY <1>2, EnvironmentSame DEF Declared!NewNative
<1>3. QED
  BY <1>1, <1>2 DEF Declared!Next

\* A product that is declared is one whose own probe gave its address.
LEMMA HostsRows ==
  ASSUME EnvironmentInv, environment # None
  PROVE  /\ Len(hosts) \in Nat /\ DOMAIN hosts = 1..Len(hosts)
         /\ \A i \in DOMAIN hosts : \E l \in 1..4 :
              /\ Result(environment, l)[1] = "base" /\ hosts[i].product = Declared!Products[l]
              /\ hosts[i].base = Result(environment, l)[2]
<1> DEFINE rows == {Row(environment, l) : l \in {m \in 1..4 : Result(environment, m)[1] = "base"}}
<1>1. \A r \in rows : \E l \in 1..4 :
        /\ Result(environment, l)[1] = "base" /\ r.product = Declared!Products[l]
        /\ r.base = Result(environment, l)[2]
  BY DEF Row
<1>2. hosts \in Seq(rows)
  BY DEF EnvironmentInv, DeclaredBy
<1> HIDE DEF rows
<1>3. QED
  BY <1>1, <1>2

\* Each product has a probe of its own.
LEMMA ProductsDiffer ==
  /\ DOMAIN Declared!Products = 1..4
  /\ Declared!Products[1] = "lmstudio" /\ Declared!Products[2] = "ollama"
  /\ Declared!Products[3] = "docker-model-runner" /\ Declared!Products[4] = "foundry-local"
  /\ \A l, m \in 1..4 : Declared!Products[l] = Declared!Products[m] => l = m
<1>1. /\ DOMAIN Declared!Products = 1..4
      /\ Declared!Products[1] = "lmstudio" /\ Declared!Products[2] = "ollama"
      /\ Declared!Products[3] = "docker-model-runner" /\ Declared!Products[4] = "foundry-local"
  BY DEF Declared!Products
<1>2. \A l \in 1..4 : l = 1 \/ l = 2 \/ l = 3 \/ l = 4
  OBVIOUS
<1>3. QED
  BY <1>1, <1>2

\* A product is declared in its turn, by its own record.
LEMMA EnvironmentKeeps == EnvironmentInv => DeclaredFromItsRecord
<1> SUFFICES ASSUME EnvironmentInv, environment # None PROVE DeclaredFromItsRecord
  BY DEF DeclaredFromItsRecord, Declared!DeclaredFromItsRecord
<1> DEFINE e == environment
           named == {hosts[i].product : i \in DOMAIN hosts}
           broken == {Unreadable, Malformed}
           there == {i \in DOMAIN e.lmstudio : e.lmstudio[i] # Absent}
<1>1. e \in Environments
  BY DEF EnvironmentInv
<1>2. \A l \in 1..4 : Declared!Products[l] \in named => Result(e, l)[1] = "base"
  <2>1. ASSUME NEW l \in 1..4, NEW i \in DOMAIN hosts, Declared!Products[l] = hosts[i].product
        PROVE  Result(e, l)[1] = "base"
    <3>1. PICK m \in 1..4 : Result(e, m)[1] = "base" /\ hosts[i].product = Declared!Products[m]
      BY HostsRows
    <3>2. QED
      BY <2>1, <3>1, ProductsDiffer
  <2>2. QED
    BY <2>1
<1>3. \A l \in 1..4 : Declared!Products[l] \in reasons <=> Result(e, l)[1] = "reason"
  BY ProductsDiffer DEF EnvironmentInv
<1>4. "reason" # "base" /\ "nothing" # "base" /\ "nothing" # "reason"
  OBVIOUS
<1>5. \A i, j \in DOMAIN hosts : i < j =>
        \E k, l \in DOMAIN Declared!Products :
          k < l /\ hosts[i].product = Declared!Products[k] /\ hosts[j].product = Declared!Products[l]
  BY HostsRows, ProductsDiffer DEF EnvironmentInv, DeclaredBy
<1>6. \A i \in DOMAIN hosts : Reachable(hosts[i].base)
  <2>1. \A l \in 1..4 : Result(e, l)[1] = "base" => Reachable(Result(e, l)[2])
    BY <1>1, ProbesSound DEF Sound
  <2>2. QED
    BY <2>1, HostsRows
<1>7. named \cap reasons = {}
  <2>1. ASSUME NEW p \in named, p \in reasons PROVE FALSE
    <3>1. PICK l \in 1..4 : p = Declared!Products[l]
      BY <2>1, HostsRows
    <3>2. QED
      BY <1>2, <1>3, <1>4, <2>1, <3>1
  <2> HIDE DEF named
  <2>2. QED
    BY <2>1
<1> HIDE DEF named
<1>8. (\E i \in there : e.lmstudio[i] \in broken /\ \A j \in there : i <= j)
        => "lmstudio" \in reasons
  <2>1. (\E i \in there : e.lmstudio[i] \in broken /\ \A j \in there : i <= j)
          => Result(e, 1)[1] = "reason"
    BY <1>1, ProbesSound, LMStudioSound
  <2>2. 1 \in 1..4
    OBVIOUS
  <2> HIDE DEF there, broken
  <2>3. QED
    BY <1>3, <2>1, <2>2, ProductsDiffer
<1>9. e.desktop \in broken => "docker-model-runner" \in reasons
  <2>1. e.desktop \in broken => Result(e, 3)[1] = "reason"
    <3>1. Result(e, 3) = Declared!ProbeDockerModelRunner(e.desktop, e.plugin)
      BY <1>1, ProbesSound
    <3>2. \A plugin : e.desktop \in {Unreadable, Malformed} =>
            Declared!ProbeDockerModelRunner(e.desktop, plugin)[1] = "reason"
      BY DockerSound
    <3>3. QED
      BY <3>1, <3>2
  <2>2. 3 \in 1..4
    OBVIOUS
  <2> HIDE DEF there, broken
  <2>3. QED
    BY <1>3, <2>1, <2>2, ProductsDiffer
<1>10. "docker-model-runner" \in named =>
         IF e.desktop = Absent THEN e.plugin ELSE e.desktop.tcp = TRUE
  <2>1. Result(e, 3)[1] = "base" =>
          IF e.desktop = Absent THEN e.plugin ELSE e.desktop.tcp = TRUE
    <3>1. Result(e, 3) = Declared!ProbeDockerModelRunner(e.desktop, e.plugin)
      BY <1>1, ProbesSound
    <3>2. QED
      BY <3>1, DockerSound
  <2>2. "docker-model-runner" \in named => Result(e, 3)[1] = "base"
    BY <1>2, ProductsDiffer
  <2>3. QED
    BY <2>1, <2>2
<1>11. there = {} => "lmstudio" \notin named \cup reasons
  <2>1. there = {} => Result(e, 1)[1] = "nothing"
    BY <1>1, ProbesSound, LMStudioSound
  <2>2. 1 \in 1..4
    OBVIOUS
  <2> HIDE DEF there
  <2>3. QED
    BY <1>2, <1>3, <1>4, <2>1, <2>2, ProductsDiffer
<1>12. e.ollama = Absent => "ollama" \notin named \cup reasons
  <2>1. e.ollama = Absent => Result(e, 2)[1] = "nothing"
    BY <1>1, ProbesSound, OllamaSound
  <2>2. 2 \in 1..4
    OBVIOUS
  <2>3. QED
    BY <1>2, <1>3, <1>4, <2>1, <2>2, ProductsDiffer
<1>13. e.foundry = Absent => "foundry-local" \notin named \cup reasons
  <2>1. e.foundry = Absent => Result(e, 4)[1] = "nothing"
    BY <1>1, ProbesSound, FoundrySound
  <2>2. 4 \in 1..4
    OBVIOUS
  <2>3. QED
    BY <1>2, <1>3, <1>4, <2>1, <2>2, ProductsDiffer
<1>14. \A i \in DOMAIN hosts : hosts[i].product = "lmstudio" => hosts[i].base.host \in Addresses
  <2>1. Result(e, 1)[1] = "base" => Result(e, 1)[2].host \in Addresses
    BY <1>1, ProbesSound, LMStudioSound
  <2>2. ASSUME NEW i \in DOMAIN hosts, hosts[i].product = "lmstudio"
        PROVE  hosts[i].base.host \in Addresses
    <3>1. PICK l \in 1..4 : /\ Result(e, l)[1] = "base" /\ hosts[i].base = Result(e, l)[2]
                            /\ Declared!Products[l] = Declared!Products[1]
      BY <2>2, HostsRows, ProductsDiffer
    <3>2. l = 1
      BY <3>1, ProductsDiffer
    <3>3. QED
      BY <2>1, <3>1, <3>2
  <2>3. QED
    BY <2>2
<1>15. QED
  BY <1>5, <1>6, <1>7, <1>8, <1>9, <1>10, <1>11, <1>12, <1>13, <1>14
     DEF DeclaredFromItsRecord, Declared!DeclaredFromItsRecord, Reachable, named
=============================================================================
