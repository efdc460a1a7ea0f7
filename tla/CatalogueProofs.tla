-------------------------- MODULE CatalogueProofs --------------------------
(***************************************************************************)
(* The index of the storage inventory: what holds of every inventory, by   *)
(* an invariant over the names read so far.                                *)
(***************************************************************************)
EXTENDS CatalogueProperties, TLAPS, SequenceTheorems

-----------------------------------------------------------------------------
(* The names read so far *)

\* What it is to have been read.
LEMMA WasRead ==
  ASSUME NEW objs, NEW p, NEW a, NEW n
  PROVE  \A s : s \in ReadBy(objs, p, a, n) <=>
           \E i \in DOMAIN objs : \E j \in DOMAIN objs[i].names :
             s = <<i, j>> /\ ~ Skipped(objs[i]) /\ Past(p, a, n, i, j)
BY DEF ReadBy

\* The names of an object are numbered from one.
LEMMA NamesFromOne ==
  ASSUME NEW objs \in Seq(HeldObject), NEW i \in DOMAIN objs
  PROVE  /\ i \in 1..Len(objs)
         /\ objs[i] \in HeldObject
         /\ objs[i].names \in Seq(Model)
         /\ DOMAIN objs[i].names = 1..Len(objs[i].names)
         /\ Len(objs[i].names) \in Nat
<1>1. i \in 1..Len(objs)
  BY LenProperties
<1>2. objs[i] \in HeldObject
  BY <1>1, ElementOfSeq
<1>3. objs[i].names \in Seq(Model)
  BY <1>2 DEF HeldObject
<1>4. QED
  BY <1>1, <1>2, <1>3, LenProperties

\* Where the loop stands after one name, or after the start of an object.
Moved(objs, a, n, a2, n2) ==
  IF n < Len(objs[a].names) THEN n2 = n + 1 /\ a2 = a
                            ELSE n2 = 0 /\ a2 = a + 1

\* A step on one name adds that name to what has been read.
LEMMA ReadsOne ==
  ASSUME NEW objs \in Seq(HeldObject), NEW a \in DOMAIN objs,
         NEW n \in DOMAIN objs[a].names, ~ Skipped(objs[a]),
         NEW a2, NEW n2, Moved(objs, a, n, a2, n2)
  PROVE  ReadBy(objs, "names", a2, n2) =
           ReadBy(objs, "names", a, n) \cup {<<a, n>>}
<1>1. \A i \in DOMAIN objs : \A j \in DOMAIN objs[i].names :
        Past("names", a2, n2, i, j) <=>
          Past("names", a, n, i, j) \/ (i = a /\ j = n)
  BY NamesFromOne DEF Past, Moved
<1>2. QED
  BY <1>1, WasRead

\* The start of an object adds none, and nor does an object left out.
LEMMA ReadsNone ==
  ASSUME NEW objs \in Seq(HeldObject), NEW a \in DOMAIN objs, NEW a2, NEW n2,
         \/ Skipped(objs[a]) /\ n2 = 0 /\ a2 = a + 1
         \/ Moved(objs, a, 0, a2, n2)
  PROVE  ReadBy(objs, "names", a2, n2) = ReadBy(objs, "names", a, 0)
<1>1. \A i \in DOMAIN objs : \A j \in DOMAIN objs[i].names :
        ~ Skipped(objs[i]) =>
          (Past("names", a2, n2, i, j) <=> Past("names", a, 0, i, j))
  BY NamesFromOne DEF Past, Moved
<1>2. \A s : s \in ReadBy(objs, "names", a2, n2) <=>
             s \in ReadBy(objs, "names", a, 0)
  BY <1>1, WasRead
<1>3. QED
  BY <1>2

\* At the end of the loop every name has been read.
LEMMA ReadsAll ==
  ASSUME NEW objs \in Seq(HeldObject), NEW a \in Nat, a > Len(objs), NEW n,
         NEW p, p # "names", NEW a2, NEW n2
  PROVE  ReadBy(objs, p, a2, n2) = ReadBy(objs, "names", a, n)
<1>1. \A i \in DOMAIN objs : \A j :
        Past("names", a, n, i, j) /\ Past(p, a2, n2, i, j)
  BY NamesFromOne DEF Past
<1>2. \A s : s \in ReadBy(objs, p, a2, n2) <=> s \in ReadBy(objs, "names", a, n)
  BY <1>1, WasRead
<1>3. QED
  BY <1>2

-----------------------------------------------------------------------------
(* The maps, after the names read so far *)

\* The invariant of the loop: an object being read is not one left out.
AtName == name > 0 => pass = "names" /\ ~ Skipped(objects[at])

DeclaredInv ==
  \A k \in Model :
    /\ declared[k] = Unset => Described(k) = {}
    /\ declared[k] \in Family => Described(k) = {declared[k]}
    /\ declared[k] = Contested => \E f, g \in Described(k) : f # g

OwnerInv ==
  \A k \in Model :
    /\ owner[k] = Unset => Reaching(k) = {} /\ byName[k] = {}
    /\ owner[k] \in Model =>
         /\ Reaching(k) # {}
         /\ \A s \in Reaching(k) : NameAt(s) = owner[k]
         /\ byName[k] = {ObjectOf(s).store : s \in Reaching(k)}
    /\ owner[k] = Contested =>
         /\ \E s, t \in Reaching(k) : NameAt(s) # NameAt(t)
         /\ byName[k] = {}

\* Before an object of the second loop has been read again, it has joined
\* nothing.
Joined(o, f) == Unnamed(o) /\ f \in byDigest[o.digest]

DigestInv ==
  \A d \in Digest :
    byDigest[d] = {f \in Family : \E s \in Named(f) : ObjectOf(s).digest = d}

HeldByInv ==
  \A f \in Family :
    byFamily[f] = {ObjectOf(s).store : s \in Named(f)} \cup
                  {objects[i].store :
                     i \in {k \in DOMAIN objects : /\ pass # "names" /\ k < at
                                                   /\ Joined(objects[k], f)}}

SpellInv ==
  \A f \in Family :
    /\ spelling[f] # NoModel =>
         \E s \in Named(f) : Spells(ObjectOf(s)) /\ NameAt(s) = spelling[f]
    /\ \A s \in Named(f) : Spells(ObjectOf(s)) => spelling[f] # NoModel

PartInv ==
  /\ families = {f \in Family :
       \E i \in DOMAIN objects :
         /\ pass # "names" \/ i < at \/ (i = at /\ name > 0)
         /\ ~ objects[i].component /\ objects[i].family = f}
  /\ \A c \in components : \E o \in Range(objects) :
       o.component /\ o.store = c.store /\ Target(o) = c.family

CatalogueInv ==
  IF pass = "composed"
  THEN at = Len(objects) + 1 /\ \E listed \in Listings : catalogue = Composed(listed)
  ELSE catalogue = {}

IInv == /\ TypeOK /\ AtName /\ DeclaredInv /\ OwnerInv
        /\ DigestInv /\ HeldByInv /\ SpellInv /\ PartInv /\ CatalogueInv

-----------------------------------------------------------------------------
(* What a step on a name changes *)

\* The object in hand, and its name.
LEMMA InHand ==
  ASSUME TypeOK, at <= Len(objects)
  PROVE  /\ objects \in Seq(HeldObject)
         /\ at \in DOMAIN objects
         /\ objects[at] \in HeldObject
         /\ name > 0 => /\ name \in DOMAIN objects[at].names
                        /\ objects[at].names[name] \in Model
<1>1. objects \in Seq(HeldObject)
  BY CatalogueAssumption DEF TypeOK
<1>2. at \in 1..Len(objects) /\ DOMAIN objects = 1..Len(objects)
  BY <1>1, LenProperties DEF TypeOK
<1>3. /\ objects[at] \in HeldObject
      /\ objects[at].names \in Seq(Model)
      /\ DOMAIN objects[at].names = 1..Len(objects[at].names)
  BY <1>1, <1>2, NamesFromOne
<1>4. name > 0 => name \in 1..Len(objects[at].names)
  BY <1>2, <1>3 DEF TypeOK
<1>5. QED
  BY <1>1, <1>2, <1>3, <1>4, ElementOfSeq

LEMMA NameStep ==
  ASSUME TypeOK, AtName, IndexName, NEW t, t = <<at, name>>,
         NEW o, o = objects[at], NEW m, m = o.names[name]
  PROVE  /\ o \in HeldObject /\ m \in Model /\ ~ Skipped(o)
         /\ ObjectOf(t) = o /\ NameAt(t) = m
         /\ \A s : ObjectOf(s)' = ObjectOf(s) /\ NameAt(s)' = NameAt(s)
         /\ Seen' = Seen \cup {t}
         /\ \A k : Reaching(k)' =
              IF k \in Keys[m] THEN Reaching(k) \cup {t} ELSE Reaching(k)
         /\ \A k : Described(k)' =
              IF k \in Keys[m] THEN Described(k) \cup ({Target(o)} \ {NoFamily})
              ELSE Described(k)
         /\ \A f : Named(f)' =
              IF FamilyUnder(o, m) = f THEN Named(f) \cup {t} ELSE Named(f)
<1>1. /\ o \in HeldObject /\ m \in Model /\ ~ Skipped(o)
      /\ objects \in Seq(HeldObject) /\ at \in DOMAIN objects
      /\ name \in DOMAIN objects[at].names
  BY InHand DEF IndexName, AtName
<1>2. ObjectOf(t) = o /\ NameAt(t) = m
  BY DEF ObjectOf, NameAt
<1>3. objects' = objects /\ pass' = pass /\ pass = "names"
  BY DEF IndexName
<1>4. \A s : ObjectOf(s)' = ObjectOf(s) /\ NameAt(s)' = NameAt(s)
  BY <1>3 DEF ObjectOf, NameAt
<1>5. Seen' = Seen \cup {t}
  <2>1. Moved(objects, at, name, at', name')
    BY DEF IndexName, Advance, Moved
  <2>2. ReadBy(objects, "names", at', name') =
          ReadBy(objects, "names", at, name) \cup {<<at, name>>}
    BY <1>1, <2>1, ReadsOne
  <2>3. QED
    BY <1>3, <2>2 DEF Seen
<1>6. \A k : Reaching(k)' =
        IF k \in Keys[m] THEN Reaching(k) \cup {t} ELSE Reaching(k)
  BY <1>2, <1>4, <1>5 DEF Reaching
<1>7. \A k : Described(k)' =
        IF k \in Keys[m] THEN Described(k) \cup ({Target(o)} \ {NoFamily})
        ELSE Described(k)
  <2>1. TAKE k
  <2>2. Described(k)' = {Target(ObjectOf(s)) : s \in Reaching(k)'} \ {NoFamily}
    BY <1>4 DEF Described
  <2>3. QED
    BY <2>2, <1>2, <1>6 DEF Described
<1>8. \A f : Named(f)' =
        IF FamilyUnder(o, m) = f THEN Named(f) \cup {t} ELSE Named(f)
  BY <1>2, <1>4, <1>5 DEF Named
<1>9. QED
  BY <1>1, <1>2, <1>4, <1>5, <1>6, <1>7, <1>8

\* Any other step leaves what has been read, and so what is said of it.
LEMMA OtherStep ==
  ASSUME TypeOK, AtName,
         BeginObject \/ StartDigests \/ JoinByDigest \/ Compose \/ UNCHANGED vars
  PROVE  /\ objects' = objects
         /\ \A s : ObjectOf(s)' = ObjectOf(s) /\ NameAt(s)' = NameAt(s)
         /\ Seen' = Seen
         /\ \A k : Reaching(k)' = Reaching(k)
         /\ \A k : Described(k)' = Described(k)
         /\ \A f : Named(f)' = Named(f)
<1>1. objects' = objects
  BY DEF BeginObject, StartDigests, JoinByDigest, Compose, vars
<1>2. \A s : ObjectOf(s)' = ObjectOf(s) /\ NameAt(s)' = NameAt(s)
  BY <1>1 DEF ObjectOf, NameAt
<1>3. objects \in Seq(HeldObject)
  BY CatalogueAssumption DEF TypeOK
<1>4. Seen' = Seen
  <2>1. CASE BeginObject
    <3>1. at \in DOMAIN objects /\ name = 0 /\ pass = "names" /\ pass' = "names"
      BY <2>1, InHand DEF BeginObject
    <3>2. \/ Skipped(objects[at]) /\ name' = 0 /\ at' = at + 1
          \/ Moved(objects, at, 0, at', name')
      BY <2>1, <3>1 DEF BeginObject, Advance, Moved
    <3>3. QED
      BY <1>1, <1>3, <3>1, <3>2, ReadsNone DEF Seen
  <2>2. CASE StartDigests
    <3>1. at \in Nat /\ at > Len(objects) /\ pass = "names" /\ pass' = "digests"
      BY <2>2, <1>3, LenProperties DEF StartDigests, TypeOK
    <3>2. QED
      BY <1>1, <1>3, <3>1, ReadsAll DEF Seen
  <2>3. CASE JoinByDigest \/ Compose
    <3>1. pass # "names" /\ pass' # "names"
      BY <2>3 DEF JoinByDigest, Compose
    <3>2. \A i, j : Past(pass, at, name, i, j) /\ Past(pass', at', name', i, j)
      BY <3>1 DEF Past
    <3>3. \A s : s \in Seen' <=> s \in Seen
      BY <1>1, <3>2, WasRead DEF Seen
    <3>4. QED
      BY <3>3
  <2>4. CASE UNCHANGED vars
    BY <2>4 DEF vars, Seen
  <2>5. QED
    BY <2>1, <2>2, <2>3, <2>4
<1>5. \A k : Reaching(k)' = Reaching(k)
  BY <1>2, <1>4 DEF Reaching
<1>6. \A k : Described(k)' = Described(k)
  BY <1>2, <1>5 DEF Described
<1>7. \A f : Named(f)' = Named(f)
  BY <1>2, <1>4 DEF Named
<1>8. QED
  BY <1>1, <1>2, <1>4, <1>5, <1>6, <1>7

-----------------------------------------------------------------------------
(* Types *)

\* The families and cells the steps write are of their types.
LEMMA FamilyUnderType ==
  ASSUME NEW o \in HeldObject, NEW m \in Model
  PROVE  /\ Target(o) \in Family \cup {NoFamily}
         /\ FamilyUnder(o, m) \in Family \cup {NoFamily}
         /\ o.store \in Store
         /\ o.component \in BOOLEAN
         /\ o.component /\ ~ Skipped(o) => /\ FamilyUnder(o, m) \in Family
                                           /\ Target(o) \in Family
BY InventoryAssumption DEF HeldObject, Target, FamilyUnder, Skipped

\* What a survey takes from the index is an inventory of the routing model.
LEMMA HeldOfIsHeld ==
  ASSUME TypeOK
  PROVE  HeldOf \in Held
BY DEF TypeOK, HeldOf, Held

LEMMA ComposedType ==
  ASSUME TypeOK, NEW listed \in Listings
  PROVE  Composed(listed) \subseteq CatalogueEntry
<1> DEFINE served == ServedFrom(listed)
           all    == served \cup UnservedAliases(HeldOf, served)
<1>1. listed \subseteq ServerName \X Model
  BY CatalogueAssumption
<1>2. /\ HeldOf.spelling = spelling
      /\ \A m \in Model : HeldOf.declared[m] \in Family \cup {NoFamily}
  BY DEF HeldOf
<1>3. \A m \in Model : FamilyName(HeldOf, m) \in Family \cup {NoFamily}
  BY <1>2, InventoryAssumption DEF FamilyName
<1>4. served \subseteq Alias
  <2>1. SUFFICES ASSUME NEW b \in listed, FamilyName(HeldOf, b[2]) # NoFamily
        PROVE  [server |-> b[1], name |-> b[2],
                family |-> FamilyName(HeldOf, b[2]), resident |-> FALSE] \in Alias
    BY DEF ServedFrom
  <2>2. b[1] \in ServerName /\ b[2] \in Model
    BY <1>1
  <2>3. FamilyName(HeldOf, b[2]) \in Family
    BY <1>3, <2>1, <2>2
  <2>4. QED
    BY <2>2, <2>3 DEF Alias
<1>5. UnservedAliases(HeldOf, served) \subseteq Alias
  <2>1. SUFFICES ASSUME NEW f \in Family, HeldOf.spelling[f] # NoModel
        PROVE  [server |-> NoServer, name |-> HeldOf.spelling[f], family |-> f,
                resident |-> FALSE] \in Alias
    BY DEF UnservedAliases
  <2>2. HeldOf.spelling[f] \in Model
    BY <1>2, <2>1 DEF TypeOK
  <2>3. QED
    BY <2>2 DEF Alias
<1>6. all \subseteq Alias
  BY <1>4, <1>5
<1> HIDE DEF served, all
<1>7. \A a \in all : a.family \in Family /\ a.name \in Model
  BY <1>6 DEF Alias
<1>8. /\ \A f \in Family : byFamily[f] \in SUBSET Store
      /\ \A m \in Model : byName[m] \in SUBSET Store
      /\ components \subseteq Component
  BY DEF TypeOK
<1>9. SUFFICES ASSUME NEW f \in {a.family : a \in all}
      PROVE  [family |-> f, heldIn |-> byFamily[f],
              source |-> IF f \in families THEN "descriptor" ELSE "alias",
              names |-> {[alias |-> a,
                   heldIn |-> IF a.server = NoServer THEN byFamily[f]
                              ELSE byName[a.name]] :
                    a \in {b \in all : b.family = f}},
              components |-> {c \in components : c.family = f}] \in CatalogueEntry
  BY DEF Composed, served, all
<1>10. f \in Family
  BY <1>7
<1>11. {[alias |-> a,
                   heldIn |-> IF a.server = NoServer THEN byFamily[f]
                              ELSE byName[a.name]] :
                    a \in {b \in all : b.family = f}}
         \subseteq [alias : Alias, heldIn : SUBSET Store]
  BY <1>6, <1>7, <1>8, <1>10
<1>12. {c \in components : c.family = f} \subseteq Component
  BY <1>8
<1>13. QED
  BY <1>8, <1>10, <1>11, <1>12 DEF CatalogueEntry

LEMMA TypeStep ==
  ASSUME TypeOK, AtName, Next \/ UNCHANGED vars
  PROVE  TypeOK'
<1>1. objects \in Seq(HeldObject) /\ Len(objects) \in Nat
  BY CatalogueAssumption, LenProperties DEF TypeOK
<1>2. CASE BeginObject
  <2>1. /\ objects[at] \in HeldObject /\ at \in DOMAIN objects
        /\ objects[at].names \in Seq(Model)
        /\ Len(objects[at].names) \in Nat
    BY <1>2, InHand, NamesFromOne DEF BeginObject
  <2>2. families' \subseteq Family
    BY <1>2, <2>1 DEF BeginObject, TypeOK, HeldObject
  <2>3. components' \subseteq Component
    <3>1. SUFFICES ASSUME objects[at].component, ~ Skipped(objects[at])
          PROVE  [family |-> Target(objects[at]), store |-> objects[at].store,
                  name |-> NoModel] \in Component
      BY <1>2 DEF BeginObject, TypeOK
    <3>2. Target(objects[at]) \in Family /\ objects[at].store \in Store
      BY <2>1, <3>1 DEF HeldObject, Target, Skipped
    <3>3. QED
      BY <3>2 DEF Component
  <2>4. /\ at' \in 1..(Len(objects) + 1) /\ name' \in Nat
        /\ name' > 0 => at' <= Len(objects) /\ name' <= Len(objects[at'].names)
    BY <1>1, <1>2, <2>1 DEF BeginObject, Advance, TypeOK
  <2>5. QED
    BY <1>2, <2>2, <2>3, <2>4 DEF BeginObject, TypeOK
<1>3. CASE IndexName
  <2>1. PICK o, m : o = objects[at] /\ m = o.names[name]
    OBVIOUS
  <2>2. /\ o \in HeldObject /\ m \in Model /\ ~ Skipped(o)
        /\ Len(o.names) \in Nat /\ at \in DOMAIN objects
    BY <1>3, <2>1, NameStep, InHand, NamesFromOne DEF IndexName
  <2>3. PICK f : f = FamilyUnder(o, m)
    OBVIOUS
  <2>4. /\ Target(o) \in Family \cup {NoFamily}
        /\ f \in Family \cup {NoFamily}
        /\ o.store \in Store
        /\ o.component => f \in Family
    BY <2>2, <2>3, FamilyUnderType
  <2>5. declared' \in [Model -> Family \cup {Unset, Contested}]
    BY <1>3, <2>1, <2>4 DEF IndexName, TypeOK, Declare
  <2>6. owner' \in [Model -> Model \cup {Unset, Contested}]
    BY <1>3, <2>1, <2>2 DEF IndexName, TypeOK, Claim
  <2>7. byName' \in [Model -> SUBSET Store]
    BY <1>3, <2>1, <2>4 DEF IndexName, TypeOK
  <2>8. byFamily' \in [Family -> SUBSET Store]
    BY <1>3, <2>1, <2>4 DEF IndexName, TypeOK
  <2>9. spelling' \in [Family -> Model \cup {NoModel}]
    BY <1>3, <2>1, <2>2 DEF IndexName, TypeOK
  <2>10. byDigest' \in [Digest -> SUBSET Family]
    BY <1>3, <2>1, <2>3, <2>4 DEF IndexName, TypeOK
  <2>11. components' \subseteq Component
    <3>1. components' = components \cup
            {c \in {[family |-> f, store |-> o.store, name |-> m]} : o.component}
      BY <1>3, <2>1, <2>3 DEF IndexName
    <3>2. o.component => [family |-> f, store |-> o.store, name |-> m] \in Component
      BY <2>2, <2>4 DEF Component
    <3>3. QED
      BY <3>1, <3>2 DEF TypeOK
  <2>12. /\ at' \in 1..(Len(objects) + 1) /\ name' \in Nat
         /\ name' > 0 => at' <= Len(objects) /\ name' <= Len(objects[at'].names)
    BY <1>1, <1>3, <2>1, <2>2 DEF IndexName, Advance, TypeOK
  <2>13. QED
    BY <1>3, <2>5, <2>6, <2>7, <2>8, <2>9, <2>10, <2>11, <2>12
       DEF IndexName, TypeOK
<1>4. CASE StartDigests
  BY <1>1, <1>4 DEF StartDigests, TypeOK, AtName
<1>5. CASE JoinByDigest
  <2>1. objects[at].store \in Store
    BY <1>5, InHand DEF JoinByDigest, HeldObject
  <2>2. byFamily' \in [Family -> SUBSET Store]
    BY <1>5, <2>1 DEF JoinByDigest, TypeOK
  <2>3. ~ name > 0
    BY <1>5 DEF JoinByDigest, AtName
  <2>4. QED
    BY <1>1, <1>5, <2>2, <2>3 DEF JoinByDigest, TypeOK
<1>6. CASE Compose
  BY <1>6, ComposedType DEF Compose, TypeOK
<1>7. CASE UNCHANGED vars
  BY <1>7 DEF vars, TypeOK
<1>8. QED
  BY <1>2, <1>3, <1>4, <1>5, <1>6, <1>7 DEF Next

LEMMA AtNameStep ==
  ASSUME TypeOK, AtName, Next \/ UNCHANGED vars
  PROVE  AtName'
<1>1. CASE BeginObject
  BY <1>1 DEF BeginObject, Advance, AtName
<1>2. CASE IndexName
  BY <1>2 DEF IndexName, Advance, AtName
<1>3. CASE StartDigests
  BY <1>3, CatalogueAssumption, LenProperties DEF StartDigests, TypeOK, AtName
<1>4. CASE JoinByDigest \/ Compose \/ UNCHANGED vars
  BY <1>4 DEF JoinByDigest, Compose, vars, AtName
<1>5. QED
  BY <1>1, <1>2, <1>3, <1>4 DEF Next

-----------------------------------------------------------------------------
(* What descriptors declare *)

LEMMA DeclaredStep ==
  ASSUME TypeOK, AtName, DeclaredInv, Next \/ UNCHANGED vars
  PROVE  DeclaredInv'
<1>1. CASE IndexName
  <2>1. PICK t, o, m : t = <<at, name>> /\ o = objects[at] /\ m = o.names[name]
    OBVIOUS
  <2>2. PICK f : f = Target(o)
    OBVIOUS
  <2>3. /\ o \in HeldObject
        /\ \A k : Described(k)' =
             IF k \in Keys[m] THEN Described(k) \cup ({f} \ {NoFamily})
             ELSE Described(k)
    BY <1>1, <2>1, <2>2, NameStep
  <2>4. f \in Family \cup {NoFamily}
    BY <2>2, <2>3 DEF HeldObject, Target
  <2>5. SUFFICES ASSUME NEW k \in Model
        PROVE  /\ declared'[k] = Unset => Described(k)' = {}
               /\ declared'[k] \in Family => Described(k)' = {declared'[k]}
               /\ declared'[k] = Contested => \E g, h \in Described(k)' : g # h
    BY DEF DeclaredInv
  <2>6. PICK c, d : c = declared[k] /\ d = declared'[k]
    OBVIOUS
  <2>7. d = IF k \in Keys[m] THEN Declare(c, f) ELSE c
    BY <1>1, <2>1, <2>2, <2>6 DEF IndexName
  <2>8. /\ c \in Family \cup {Unset, Contested}
        /\ c = Unset => Described(k) = {}
        /\ c \in Family => Described(k) = {c}
        /\ c = Contested => \E g, h \in Described(k) : g # h
    BY <2>6 DEF TypeOK, DeclaredInv
  <2>9. CASE k \notin Keys[m] \/ f = NoFamily
    <3>1. d = c /\ Described(k)' = Described(k)
      BY <2>3, <2>7, <2>9 DEF Declare
    <3>2. QED
      BY <2>6, <2>8, <3>1
  <2>10. CASE k \in Keys[m] /\ f # NoFamily
    <3>1. Described(k)' = Described(k) \cup {f} /\ f \in Family
      BY <2>3, <2>4, <2>10
    <3>2. d = IF c \in {Unset, f} THEN f ELSE Contested
      BY <2>7, <2>10 DEF Declare
    <3>3. Unset \notin Family /\ Contested \notin Family /\ Unset # Contested
      BY CatalogueAssumption
    <3>4. CASE c \in {Unset, f}
      <4>1. d = f /\ Described(k)' = {f}
        BY <2>8, <3>1, <3>2, <3>4
      <4>2. QED
        BY <2>6, <3>1, <3>3, <4>1
    <3>5. CASE c \notin {Unset, f}
      <4>1. d = Contested /\ \E g, h \in Described(k)' : g # h
        BY <2>8, <3>1, <3>2, <3>5
      <4>2. QED
        BY <2>6, <3>3, <4>1
    <3>6. QED
      BY <3>4, <3>5
  <2>11. QED
    BY <2>9, <2>10
<1>2. CASE BeginObject \/ StartDigests \/ JoinByDigest \/ Compose \/ UNCHANGED vars
  <2>1. \A k : Described(k)' = Described(k)
    BY <1>2, OtherStep
  <2>2. declared' = declared
    BY <1>2 DEF BeginObject, StartDigests, JoinByDigest, Compose, vars
  <2>3. QED
    BY <2>1, <2>2 DEF DeclaredInv
<1>3. QED
  BY <1>1, <1>2 DEF Next

-----------------------------------------------------------------------------
(* The one name that reaches a key *)

LEMMA OwnerStep ==
  ASSUME TypeOK, AtName, OwnerInv, Next \/ UNCHANGED vars
  PROVE  OwnerInv'
<1>1. CASE IndexName
  <2>1. PICK t, o, m : t = <<at, name>> /\ o = objects[at] /\ m = o.names[name]
    OBVIOUS
  <2>2. /\ m \in Model
        /\ ObjectOf(t) = o /\ NameAt(t) = m
        /\ \A s : ObjectOf(s)' = ObjectOf(s) /\ NameAt(s)' = NameAt(s)
        /\ \A k : Reaching(k)' =
             IF k \in Keys[m] THEN Reaching(k) \cup {t} ELSE Reaching(k)
    BY <1>1, <2>1, NameStep
  <2>3. SUFFICES ASSUME NEW k \in Model
        PROVE  /\ owner'[k] = Unset => Reaching(k)' = {} /\ byName'[k] = {}
               /\ owner'[k] \in Model =>
                    /\ Reaching(k)' # {}
                    /\ \A s \in Reaching(k)' : NameAt(s)' = owner'[k]
                    /\ byName'[k] = {ObjectOf(s)'.store : s \in Reaching(k)'}
               /\ owner'[k] = Contested =>
                    /\ \E s, u \in Reaching(k)' : NameAt(s)' # NameAt(u)'
                    /\ byName'[k] = {}
    BY DEF OwnerInv
  <2>4. PICK c, d : c = owner[k] /\ d = owner'[k]
    OBVIOUS
  <2>5. PICK R, S : R = Reaching(k) /\ S = Reaching(k)'
    OBVIOUS
  <2>6. /\ d = IF k \in Keys[m] THEN Claim(c, m) ELSE c
        /\ byName'[k] = IF k \notin Keys[m] THEN byName[k]
                        ELSE IF d = Contested THEN {} ELSE byName[k] \cup {o.store}
    BY <1>1, <2>1, <2>4 DEF IndexName
  <2>7. /\ c \in Model \cup {Unset, Contested}
        /\ c = Unset => R = {} /\ byName[k] = {}
        /\ c \in Model => /\ R # {}
                          /\ \A s \in R : NameAt(s) = c
                          /\ byName[k] = {ObjectOf(s).store : s \in R}
        /\ c = Contested => /\ \E s, u \in R : NameAt(s) # NameAt(u)
                            /\ byName[k] = {}
    BY <2>4, <2>5 DEF TypeOK, OwnerInv
  <2>8. Unset \notin Model /\ Contested \notin Model /\ Unset # Contested
    BY CatalogueAssumption
  <2>9. SUFFICES
          /\ d = Unset => S = {} /\ byName'[k] = {}
          /\ d \in Model => /\ S # {}
                            /\ \A s \in S : NameAt(s) = d
                            /\ byName'[k] = {ObjectOf(s).store : s \in S}
          /\ d = Contested => /\ \E s, u \in S : NameAt(s) # NameAt(u)
                              /\ byName'[k] = {}
    BY <2>2, <2>4, <2>5
  <2>10. CASE k \notin Keys[m]
    <3>1. d = c /\ S = R /\ byName'[k] = byName[k]
      BY <2>2, <2>5, <2>6, <2>10
    <3>2. QED
      BY <2>7, <3>1
  <2>11. CASE k \in Keys[m]
    <3>1. /\ S = R \cup {t}
          /\ d = IF c \in {Unset, m} THEN m ELSE Contested
          /\ byName'[k] = IF d = Contested THEN {} ELSE byName[k] \cup {o.store}
      BY <2>2, <2>5, <2>6, <2>11 DEF Claim
    <3>2. CASE c \in {Unset, m}
      <4>1. /\ d = m /\ d # Contested /\ d # Unset
            /\ byName[k] = {ObjectOf(s).store : s \in R}
            /\ \A s \in R : NameAt(s) = m
        BY <2>2, <2>7, <2>8, <3>1, <3>2
      <4>2. \A s \in S : NameAt(s) = m
        BY <2>2, <3>1, <4>1
      <4>3. byName'[k] = {ObjectOf(s).store : s \in S}
        BY <2>2, <3>1, <4>1
      <4>4. QED
        BY <3>1, <4>1, <4>2, <4>3
    <3>3. CASE c \notin {Unset, m}
      <4>1. d = Contested /\ byName'[k] = {}
        BY <3>1, <3>3
      <4>2. \E s, u \in S : NameAt(s) # NameAt(u)
        <5>1. CASE c = Contested
          BY <2>7, <3>1, <5>1
        <5>2. CASE c \in Model
          BY <2>2, <2>7, <3>1, <3>3, <5>2
        <5>3. QED
          BY <2>7, <3>3, <5>1, <5>2
      <4>3. QED
        BY <2>8, <4>1, <4>2
    <3>4. QED
      BY <3>2, <3>3
  <2>12. QED
    BY <2>10, <2>11
<1>2. CASE BeginObject \/ StartDigests \/ JoinByDigest \/ Compose \/ UNCHANGED vars
  <2>1. /\ \A k : Reaching(k)' = Reaching(k)
        /\ \A s : ObjectOf(s)' = ObjectOf(s) /\ NameAt(s)' = NameAt(s)
    BY <1>2, OtherStep
  <2>2. owner' = owner /\ byName' = byName
    BY <1>2 DEF BeginObject, StartDigests, JoinByDigest, Compose, vars
  <2>3. QED
    BY <2>1, <2>2 DEF OwnerInv
<1>3. QED
  BY <1>1, <1>2 DEF Next

-----------------------------------------------------------------------------
(* The families and their objects *)

LEMMA DigestStep ==
  ASSUME TypeOK, AtName, DigestInv, Next \/ UNCHANGED vars
  PROVE  DigestInv'
<1>1. CASE IndexName
  <2>1. PICK t, o, m : t = <<at, name>> /\ o = objects[at] /\ m = o.names[name]
    OBVIOUS
  <2>2. PICK f : f = FamilyUnder(o, m)
    OBVIOUS
  <2>3. /\ o \in HeldObject /\ m \in Model
        /\ ObjectOf(t) = o
        /\ \A s : ObjectOf(s)' = ObjectOf(s)
        /\ \A g : Named(g)' = IF f = g THEN Named(g) \cup {t} ELSE Named(g)
    BY <1>1, <2>1, <2>2, NameStep
  <2>4. f \in Family \cup {NoFamily}
    BY <2>2, <2>3, FamilyUnderType
  <2>5. SUFFICES ASSUME NEW d \in Digest
        PROVE  byDigest'[d] =
                 {g \in Family : \E s \in Named(g)' : ObjectOf(s)'.digest = d}
    BY DEF DigestInv
  <2>6. byDigest'[d] = IF d = o.digest THEN byDigest[d] \cup ({f} \ {NoFamily})
                       ELSE byDigest[d]
    BY <1>1, <2>1, <2>2 DEF IndexName
  <2>7. byDigest[d] = {g \in Family : \E s \in Named(g) : ObjectOf(s).digest = d}
    BY DEF DigestInv
  <2>8. \A g \in Family :
          (\E s \in Named(g)' : ObjectOf(s)'.digest = d) <=>
            \/ \E s \in Named(g) : ObjectOf(s).digest = d
            \/ f = g /\ o.digest = d
    BY <2>3
  <2>9. QED
    BY <2>4, <2>6, <2>7, <2>8, InventoryAssumption
<1>2. CASE BeginObject \/ StartDigests \/ JoinByDigest \/ Compose \/ UNCHANGED vars
  <2>1. /\ \A f : Named(f)' = Named(f)
        /\ \A s : ObjectOf(s)' = ObjectOf(s)
    BY <1>2, OtherStep
  <2>2. byDigest' = byDigest
    BY <1>2 DEF BeginObject, StartDigests, JoinByDigest, Compose, vars
  <2>3. QED
    BY <2>1, <2>2 DEF DigestInv
<1>3. QED
  BY <1>1, <1>2 DEF Next

LEMMA SpellStep ==
  ASSUME TypeOK, AtName, SpellInv, Next \/ UNCHANGED vars
  PROVE  SpellInv'
<1>1. CASE IndexName
  <2>1. PICK t, o, m : t = <<at, name>> /\ o = objects[at] /\ m = o.names[name]
    OBVIOUS
  <2>2. PICK f : f = FamilyUnder(o, m)
    OBVIOUS
  <2>3. /\ m \in Model
        /\ ObjectOf(t) = o /\ NameAt(t) = m
        /\ \A s : ObjectOf(s)' = ObjectOf(s) /\ NameAt(s)' = NameAt(s)
        /\ \A g : Named(g)' = IF f = g THEN Named(g) \cup {t} ELSE Named(g)
    BY <1>1, <2>1, <2>2, NameStep
  <2>4. SUFFICES ASSUME NEW g \in Family
        PROVE  /\ spelling'[g] # NoModel =>
                    \E s \in Named(g)' :
                      Spells(ObjectOf(s)) /\ NameAt(s) = spelling'[g]
               /\ \A s \in Named(g)' : Spells(ObjectOf(s)) => spelling'[g] # NoModel
    BY <2>3 DEF SpellInv, Spells
  <2>5. spelling'[g] = IF g = f /\ Spells(o) /\ spelling[g] = NoModel THEN m
                       ELSE spelling[g]
    BY <1>1, <2>1, <2>2 DEF IndexName
  <2>6. /\ spelling[g] # NoModel =>
             \E s \in Named(g) : Spells(ObjectOf(s)) /\ NameAt(s) = spelling[g]
        /\ \A s \in Named(g) : Spells(ObjectOf(s)) => spelling[g] # NoModel
    BY DEF SpellInv
  <2>7. m # NoModel
    BY <2>3, InventoryAssumption
  <2>8. QED
    BY <2>3, <2>5, <2>6, <2>7
<1>2. CASE BeginObject \/ StartDigests \/ JoinByDigest \/ Compose \/ UNCHANGED vars
  <2>1. /\ \A f : Named(f)' = Named(f)
        /\ \A s : ObjectOf(s)' = ObjectOf(s) /\ NameAt(s)' = NameAt(s)
    BY <1>2, OtherStep
  <2>2. spelling' = spelling
    BY <1>2 DEF BeginObject, StartDigests, JoinByDigest, Compose, vars
  <2>3. QED
    BY <2>1, <2>2 DEF SpellInv, Spells
<1>3. QED
  BY <1>1, <1>2 DEF Next

LEMMA HeldByStep ==
  ASSUME TypeOK, AtName, HeldByInv, Next \/ UNCHANGED vars
  PROVE  HeldByInv'
<1> DEFINE later(f) == {k \in DOMAIN objects : /\ pass # "names" /\ k < at
                                               /\ Joined(objects[k], f)}
<1>1. SUFFICES ASSUME NEW f \in Family
      PROVE  byFamily'[f] = {ObjectOf(s)'.store : s \in Named(f)'} \cup
                            {objects'[i].store : i \in later(f)'}
  BY DEF HeldByInv
<1>2. byFamily[f] = {ObjectOf(s).store : s \in Named(f)} \cup
                    {objects[i].store : i \in later(f)}
  BY DEF HeldByInv
<1>3. CASE IndexName
  <2>1. PICK t, o, m : t = <<at, name>> /\ o = objects[at] /\ m = o.names[name]
    OBVIOUS
  <2>2. PICK g : g = FamilyUnder(o, m)
    OBVIOUS
  <2>3. /\ ObjectOf(t) = o
        /\ \A s : ObjectOf(s)' = ObjectOf(s)
        /\ Named(f)' = IF g = f THEN Named(f) \cup {t} ELSE Named(f)
    BY <1>3, <2>1, <2>2, NameStep
  <2>4. byFamily'[f] = IF f = g THEN byFamily[f] \cup {o.store} ELSE byFamily[f]
    BY <1>3, <2>1, <2>2 DEF IndexName
  <2>5. later(f) = {} /\ later(f)' = {}
    BY <1>3 DEF IndexName
  <2>6. {ObjectOf(s)'.store : s \in Named(f)'} =
          IF g = f THEN {ObjectOf(s).store : s \in Named(f)} \cup {o.store}
          ELSE {ObjectOf(s).store : s \in Named(f)}
    BY <2>3
  <2>7. QED
    BY <1>2, <2>4, <2>5, <2>6
<1>4. CASE BeginObject \/ StartDigests \/ Compose \/ UNCHANGED vars
  <2>1. /\ objects' = objects /\ Named(f)' = Named(f)
        /\ \A s : ObjectOf(s)' = ObjectOf(s)
    BY <1>4, OtherStep
  <2>2. byFamily' = byFamily /\ byDigest' = byDigest
    BY <1>4 DEF BeginObject, StartDigests, Compose, vars
  <2>3. later(f)' = later(f)
    <3>1. CASE BeginObject
      BY <3>1 DEF BeginObject
    <3>2. CASE StartDigests
      <4>1. DOMAIN objects \subseteq Nat \ {0}
        BY CatalogueAssumption, LenProperties DEF TypeOK
      <4>2. pass = "names" /\ at' = 1
        BY <3>2 DEF StartDigests
      <4>3. later(f) = {}
        BY <4>2
      <4>4. later(f)' = {}
        BY <2>1, <4>1, <4>2
      <4>5. QED
        BY <4>3, <4>4
    <3>3. CASE Compose
      <4>1. pass # "names" /\ pass' # "names" /\ at' = at
        BY <3>3 DEF Compose
      <4>2. QED
        BY <2>1, <2>2, <4>1 DEF Joined
    <3>4. CASE UNCHANGED vars
      BY <3>4 DEF vars, Joined
    <3>5. QED
      BY <1>4, <3>1, <3>2, <3>3, <3>4
  <2>4. /\ {ObjectOf(s)'.store : s \in Named(f)'} =
               {ObjectOf(s).store : s \in Named(f)}
        /\ {objects'[i].store : i \in later(f)'} =
               {objects[i].store : i \in later(f)}
    BY <2>1, <2>3
  <2>5. byFamily'[f] = byFamily[f]
    BY <2>2
  <2>6. QED
    BY <1>2, <2>4, <2>5
<1>5. CASE JoinByDigest
  <2>1. /\ objects' = objects /\ Named(f)' = Named(f)
        /\ \A s : ObjectOf(s)' = ObjectOf(s)
    BY <1>5, OtherStep
  <2>2. /\ pass # "names" /\ pass' # "names" /\ at' = at + 1
        /\ byDigest' = byDigest
        /\ byFamily'[f] = IF Joined(objects[at], f)
                          THEN byFamily[f] \cup {objects[at].store}
                          ELSE byFamily[f]
    BY <1>5 DEF JoinByDigest, Joined
  <2>3. at \in DOMAIN objects /\ DOMAIN objects \subseteq Nat /\ at \in Nat
    BY <1>5, InHand, LenProperties DEF JoinByDigest, TypeOK
  <2>4. \A k : k \in later(f)' <=>
          k \in later(f) \/ (k = at /\ Joined(objects[at], f))
    <3>1. \A k \in DOMAIN objects : k < at + 1 <=> k < at \/ k = at
      BY <2>3
    <3>2. \A k : Joined(objects[k], f)' <=> Joined(objects[k], f)
      BY <2>1, <2>2 DEF Joined
    <3>3. QED
      BY <2>1, <2>2, <2>3, <3>1, <3>2
  <2>5. {objects'[i].store : i \in later(f)'} =
          IF Joined(objects[at], f)
          THEN {objects[i].store : i \in later(f)} \cup {objects[at].store}
          ELSE {objects[i].store : i \in later(f)}
    BY <2>1, <2>4
  <2>6. {ObjectOf(s)'.store : s \in Named(f)'} = {ObjectOf(s).store : s \in Named(f)}
    BY <2>1
  <2>7. CASE Joined(objects[at], f)
    BY <1>2, <2>2, <2>5, <2>6, <2>7
  <2>8. CASE ~ Joined(objects[at], f)
    BY <1>2, <2>2, <2>5, <2>6, <2>8
  <2>9. QED
    BY <2>7, <2>8
<1>6. QED
  BY <1>3, <1>4, <1>5 DEF Next

-----------------------------------------------------------------------------
(* Descriptors, components and the composed catalogue *)

LEMMA PartStep ==
  ASSUME TypeOK, AtName, PartInv, Next \/ UNCHANGED vars
  PROVE  PartInv'
<1> DEFINE begun(i) == \/ pass # "names" \/ i < at \/ (i = at /\ name > 0)
           folded(c) == \E o \in Range(objects) :
                          o.component /\ o.store = c.store /\ Target(o) = c.family
<1>1. /\ objects' = objects
      /\ objects \in Seq(HeldObject)
      /\ DOMAIN objects = 1..Len(objects)
      /\ Len(objects) \in Nat /\ at \in Nat
  BY CatalogueAssumption, LenProperties
     DEF TypeOK, Next, BeginObject, IndexName, StartDigests, JoinByDigest, Compose, vars
<1>2. SUFFICES
        /\ families' = {f \in Family :
             \E i \in DOMAIN objects :
               begun(i)' /\ ~ objects[i].component /\ objects[i].family = f}
        /\ \A c \in components' : folded(c)
  BY <1>1 DEF PartInv
<1>3. /\ families = {f \in Family :
           \E i \in DOMAIN objects :
             begun(i) /\ ~ objects[i].component /\ objects[i].family = f}
      /\ \A c \in components : folded(c)
  BY DEF PartInv
<1>4. CASE BeginObject
  <2>1. PICK o : o = objects[at]
    OBVIOUS
  <2>2. o \in HeldObject /\ at \in DOMAIN objects /\ o \in Range(objects)
    BY <1>4, <2>1, InHand DEF BeginObject, Range
  <2>3. \A i \in DOMAIN objects : begun(i)' <=> begun(i) \/ i = at
    BY <1>1, <1>4 DEF BeginObject, Advance
  <2>4. families' = families \cup (IF o.component THEN {} ELSE {o.family} \ {NoFamily})
    BY <1>4, <2>1 DEF BeginObject
  <2>5. o.family \in Family \cup {NoFamily} /\ NoFamily \notin Family
    BY <2>2, InventoryAssumption DEF HeldObject
  <2>6. \A c \in components' : folded(c)
    <3>1. SUFFICES ASSUME NEW c, o.component,
                          c = [family |-> Target(o), store |-> o.store, name |-> NoModel]
          PROVE  folded(c)
      BY <1>3, <1>4, <2>1 DEF BeginObject
    <3>2. QED
      BY <2>2, <3>1
  <2>7. families' = {f \in Family :
             \E i \in DOMAIN objects :
               begun(i)' /\ ~ objects[i].component /\ objects[i].family = f}
    BY <1>3, <2>1, <2>2, <2>3, <2>4, <2>5
  <2>8. QED
    BY <2>6, <2>7
<1>5. CASE IndexName
  <2>1. PICK o, m : o = objects[at] /\ m = o.names[name]
    OBVIOUS
  <2>2. o \in Range(objects) /\ at \in DOMAIN objects
    BY <1>5, <2>1, InHand DEF IndexName, Range
  <2>3. \A i \in DOMAIN objects : begun(i)' <=> begun(i)
    BY <1>1, <1>5 DEF IndexName, Advance, TypeOK
  <2>4. \A c \in components' : folded(c)
    <3>1. SUFFICES ASSUME NEW c, o.component,
                          c = [family |-> FamilyUnder(o, m), store |-> o.store,
                               name |-> m]
          PROVE  folded(c)
      BY <1>3, <1>5, <2>1 DEF IndexName
    <3>2. FamilyUnder(o, m) = Target(o)
      BY <3>1 DEF FamilyUnder
    <3>3. QED
      BY <2>2, <3>1, <3>2
  <2>5. families' = families
    BY <1>5 DEF IndexName
  <2>6. QED
    BY <1>3, <2>3, <2>4, <2>5
<1>6. CASE StartDigests
  <2>1. \A i \in DOMAIN objects : begun(i) /\ begun(i)'
    BY <1>1, <1>6 DEF StartDigests
  <2>2. families' = families /\ components' = components
    BY <1>6 DEF StartDigests
  <2>3. QED
    BY <1>3, <2>1, <2>2
<1>7. CASE JoinByDigest \/ Compose \/ UNCHANGED vars
  <2>1. \A i \in DOMAIN objects : begun(i)' <=> begun(i)
    BY <1>7 DEF JoinByDigest, Compose, vars
  <2>2. families' = families /\ components' = components
    BY <1>7 DEF JoinByDigest, Compose, vars
  <2>3. QED
    BY <1>3, <2>1, <2>2
<1>8. QED
  BY <1>4, <1>5, <1>6, <1>7 DEF Next

\* A composition is of the index, which the step that makes it leaves.
LEMMA ComposedFrame ==
  ASSUME UNCHANGED <<byName, byFamily, declared, spelling, families, components>>
  PROVE  \A listed : Composed(listed)' = Composed(listed)
<1>1. HeldOf' = HeldOf
  BY DEF HeldOf
<1>2. \A listed : ServedFrom(listed)' = ServedFrom(listed)
  BY <1>1 DEF ServedFrom
<1>3. QED
  BY <1>1, <1>2 DEF Composed

LEMMA CatalogueStep ==
  ASSUME TypeOK, CatalogueInv, Next \/ UNCHANGED vars
  PROVE  CatalogueInv'
<1>1. CASE BeginObject \/ IndexName \/ StartDigests \/ JoinByDigest
  BY <1>1 DEF BeginObject, IndexName, StartDigests, JoinByDigest, CatalogueInv
<1>2. CASE Compose
  <2>1. PICK listed \in Listings : catalogue' = Composed(listed)
    BY <1>2 DEF Compose
  <2>2. Composed(listed)' = Composed(listed)
    BY <1>2, ComposedFrame DEF Compose
  <2>3. at = Len(objects) + 1
    BY <1>2, CatalogueAssumption, LenProperties DEF Compose, TypeOK
  <2>4. QED
    BY <1>2, <2>1, <2>2, <2>3 DEF Compose, CatalogueInv
<1>3. CASE UNCHANGED vars
  <2>1. \A listed : Composed(listed)' = Composed(listed)
    BY <1>3, ComposedFrame DEF vars
  <2>2. QED
    BY <1>3, <2>1 DEF vars, CatalogueInv
<1>4. QED
  BY <1>1, <1>2, <1>3 DEF Next

-----------------------------------------------------------------------------
(* The invariant *)

LEMMA InitInv ==
  ASSUME Init
  PROVE  IInv
<1>1. /\ objects \in Seq(HeldObject) /\ Len(objects) \in Nat
      /\ DOMAIN objects = 1..Len(objects)
  BY CatalogueAssumption, LenProperties DEF Init
<1>2. \A s : s \notin Seen
  <2>1. \A i \in DOMAIN objects : \A j \in DOMAIN objects[i].names :
          ~ Past("names", 1, 0, i, j)
    BY <1>1, NamesFromOne DEF Past
  <2>2. QED
    BY <2>1, WasRead DEF Init, Seen
<1>3. /\ \A k : Reaching(k) = {} /\ Described(k) = {}
      /\ \A f : Named(f) = {}
  BY <1>2 DEF Reaching, Described, Named
<1>4. TypeOK
  BY <1>1 DEF Init, TypeOK
<1>5. AtName /\ DeclaredInv /\ OwnerInv /\ CatalogueInv
  BY <1>3, CatalogueAssumption
     DEF Init, AtName, DeclaredInv, OwnerInv, CatalogueInv
<1>6. DigestInv /\ SpellInv
  BY <1>3 DEF Init, DigestInv, SpellInv
<1>7. HeldByInv
  BY <1>3 DEF Init, HeldByInv
<1>8. PartInv
  BY <1>1 DEF Init, PartInv
<1>9. QED
  BY <1>4, <1>5, <1>6, <1>7, <1>8 DEF IInv

LEMMA InductiveInv == Spec => []IInv
<1>1. IInv /\ [Next]_vars => IInv'
  BY TypeStep, AtNameStep, DeclaredStep, OwnerStep, DigestStep, HeldByStep,
     SpellStep, PartStep, CatalogueStep DEF IInv
<1>2. QED
  BY InitInv, <1>1, PTL DEF Spec

-----------------------------------------------------------------------------
(* What the index promises *)

\* Every inventory SetHeld is called with is read to its end within the types,
\* and what a survey takes of it is an inventory the routing model allows.
THEOREM CatalogueTyped == Spec => [](TypeOK /\ HeldOf \in Held)
<1>1. IInv => TypeOK /\ HeldOf \in Held
  BY HeldOfIsHeld DEF IInv
<1>2. QED
  BY <1>1, InductiveInv, PTL

\* A name two descriptors disagree about names nothing (ROUTE-N3), for every
\* inventory and every order of it.
THEOREM ContestedNames == Spec => []ContestedNamesNothing
<1>1. ASSUME IInv PROVE ContestedNamesNothing
  <2>1. SUFFICES ASSUME NEW k \in Model, NEW f \in Family
        PROVE  HeldOf.declared[k] = f <=> Described(k) = {f}
    BY DEF ContestedNamesNothing
  <2>2. HeldOf.declared[k] = IF declared[k] \in Family THEN declared[k] ELSE NoFamily
    BY DEF HeldOf
  <2>3. /\ declared[k] \in Family \cup {Unset, Contested}
        /\ declared[k] = Unset => Described(k) = {}
        /\ declared[k] \in Family => Described(k) = {declared[k]}
        /\ declared[k] = Contested => \E g, h \in Described(k) : g # h
    BY <1>1 DEF IInv, TypeOK, DeclaredInv
  <2>4. QED
    BY <2>2, <2>3, InventoryAssumption
<1>2. QED
  BY <1>1, InductiveInv, PTL

\* A name two store names reach is held in no store (ROUTE-N3, ROUTE-H1).
THEOREM HeldInNames == Spec => []HeldInNamesOneObject
<1>1. ASSUME IInv PROVE HeldInNamesOneObject
  <2>1. SUFFICES ASSUME NEW k \in Model
        PROVE  byName[k] =
                 {ObjectOf(s).store :
                    s \in {t \in Reaching(k) :
                             \A u \in Reaching(k) : NameAt(u) = NameAt(t)}}
    BY DEF HeldInNamesOneObject
  <2>2. PICK c, R : c = owner[k] /\ R = Reaching(k)
    OBVIOUS
  <2>3. /\ c \in Model \cup {Unset, Contested}
        /\ c = Unset => R = {} /\ byName[k] = {}
        /\ c \in Model => /\ \A s \in R : NameAt(s) = c
                          /\ byName[k] = {ObjectOf(s).store : s \in R}
        /\ c = Contested => /\ \E s, t \in R : NameAt(s) # NameAt(t)
                            /\ byName[k] = {}
    BY <1>1, <2>2 DEF IInv, TypeOK, OwnerInv
  <2>4. CASE c \in Model
    <3>1. {t \in R : \A u \in R : NameAt(u) = NameAt(t)} = R
      BY <2>3, <2>4
    <3>2. QED
      BY <2>2, <2>3, <2>4, <3>1
  <2>5. CASE c \in {Unset, Contested}
    <3>1. {t \in R : \A u \in R : NameAt(u) = NameAt(t)} = {}
      BY <2>3, <2>5
    <3>2. QED
      BY <2>2, <2>3, <2>5, <3>1
  <2>6. QED
    BY <2>3, <2>4, <2>5
<1>2. QED
  BY <1>1, InductiveInv, PTL

\* The entry of one family.
Entry(f, all) ==
  [family |-> f, heldIn |-> byFamily[f],
   source |-> IF f \in families THEN "descriptor" ELSE "alias",
   names |-> {[alias |-> a, heldIn |-> IF a.server = NoServer THEN byFamily[f]
                                       ELSE byName[a.name]] :
                a \in {b \in all : b.family = f}},
   components |-> {c \in components : c.family = f}]

\* A composed catalogue has one entry per family, of the aliases servers list
\* for it or else of the one alias no server does.
LEMMA Entries ==
  ASSUME IInv, pass = "composed"
  PROVE  \E listed \in Listings : \E served, all :
           /\ served = ServedFrom(listed)
           /\ all = served \cup UnservedAliases(HeldOf, served)
           /\ \A a \in served : a.server \in ServerName /\ a.family \in Family
           /\ \A a \in all : a.family \in Family
           /\ catalogue = {Entry(f, all) : f \in {a.family : a \in all}}
<1>1. PICK listed \in Listings : catalogue = Composed(listed)
  BY DEF IInv, CatalogueInv
<1>2. PICK served, all : /\ served = ServedFrom(listed)
                         /\ all = served \cup UnservedAliases(HeldOf, served)
  OBVIOUS
<1>3. /\ listed \subseteq ServerName \X Model
      /\ \A m \in Model : FamilyName(HeldOf, m) \in Family \cup {NoFamily}
  BY CatalogueAssumption, InventoryAssumption DEF FamilyName, HeldOf
<1>4. \A a \in served : a.server \in ServerName /\ a.family \in Family
  <2>1. SUFFICES ASSUME NEW b \in listed, FamilyName(HeldOf, b[2]) # NoFamily
        PROVE  b[1] \in ServerName /\ FamilyName(HeldOf, b[2]) \in Family
    BY <1>2 DEF ServedFrom
  <2>2. QED
    BY <1>3, <2>1
<1>5. \A a \in all : a.family \in Family
  BY <1>2, <1>4 DEF UnservedAliases
<1>6. catalogue = {Entry(f, all) : f \in {a.family : a \in all}}
  BY <1>1, <1>2 DEF Composed, Entry
<1>7. QED
  BY <1>1, <1>2, <1>4, <1>5, <1>6

\* When the index is composed, a family is held by the stores of its objects.
LEMMA HeldByObjects ==
  ASSUME IInv, pass = "composed", NEW f \in Family
  PROVE  byFamily[f] = {o.store : o \in ObjectsOf(f)}
<1>1. /\ objects \in Seq(HeldObject)
      /\ DOMAIN objects = 1..Len(objects) /\ Len(objects) \in Nat
      /\ at = Len(objects) + 1
  BY CatalogueAssumption, LenProperties DEF IInv, TypeOK, CatalogueInv
<1>2. \A i \in DOMAIN objects :
        Joined(objects[i], f) <=>
          /\ objects[i].names = <<>> /\ objects[i].digest # NoDigest
          /\ \E s \in Named(f) : ObjectOf(s).digest = objects[i].digest
  <2>1. SUFFICES ASSUME NEW o \in HeldObject
        PROVE  Joined(o, f) <=> /\ o.names = <<>> /\ o.digest # NoDigest
                                /\ \E s \in Named(f) : ObjectOf(s).digest = o.digest
    BY <1>1, NamesFromOne
  <2>2. o.digest \in Digest \cup {NoDigest}
    BY DEF HeldObject
  <2>3. \A d \in Digest :
          f \in byDigest[d] <=> \E s \in Named(f) : ObjectOf(s).digest = d
    BY DEF IInv, DigestInv
  <2>4. QED
    BY <2>2, <2>3 DEF Joined, Unnamed
<1>3. byFamily[f] = {ObjectOf(s).store : s \in Named(f)} \cup
                    {objects[i].store :
                       i \in {k \in DOMAIN objects : Joined(objects[k], f)}}
  BY <1>1 DEF IInv, HeldByInv
<1>4. \A st : st \in byFamily[f] <=> \E o \in ObjectsOf(f) : o.store = st
  BY <1>2, <1>3 DEF ObjectsOf, Range
<1>5. QED
  BY <1>4

\* A composed catalogue tells which stores hold each model, once, and leaves
\* none out (ROUTE-H1, ROUTE-H2), whatever the servers list.
THEOREM HeldModels == Spec => []HeldModelsReported
<1>1. ASSUME IInv PROVE HeldModelsReported
  <2>1. SUFFICES ASSUME pass = "composed" PROVE HeldModelsReported
    BY DEF HeldModelsReported
  <2>2. PICK served, all :
           /\ all = served \cup UnservedAliases(HeldOf, served)
           /\ \A a \in served : a.server \in ServerName
           /\ \A a \in all : a.family \in Family
           /\ catalogue = {Entry(f, all) : f \in {a.family : a \in all}}
    BY <1>1, <2>1, Entries
  <2>3. ASSUME NEW e \in catalogue
        PROVE  /\ e.heldIn = {o.store : o \in ObjectsOf(e.family)}
               /\ \A g \in catalogue : e.family = g.family => e = g
               /\ \A n \in e.names : n.alias.server = NoServer =>
                    e.names = {n} /\ n.heldIn = e.heldIn
    <3>1. PICK f \in Family : e = Entry(f, all)
      BY <2>2, <2>3
    <3>2. /\ e.family = f /\ e.heldIn = byFamily[f]
          /\ e.names = {[alias |-> a,
                         heldIn |-> IF a.server = NoServer THEN byFamily[f]
                                    ELSE byName[a.name]] :
                          a \in {b \in all : b.family = f}}
      BY <3>1 DEF Entry
    <3>3. \A g \in catalogue : e.family = g.family => e = g
      BY <2>2, <3>1, <3>2 DEF Entry
    <3>4. ASSUME NEW n \in e.names, n.alias.server = NoServer
          PROVE  e.names = {n} /\ n.heldIn = e.heldIn
      <4>1. PICK a \in all : /\ a.family = f
                             /\ n = [alias |-> a,
                                     heldIn |-> IF a.server = NoServer
                                                THEN byFamily[f]
                                                ELSE byName[a.name]]
        BY <3>2, <3>4
      <4>2. a.server = NoServer /\ n.heldIn = byFamily[f]
        BY <3>4, <4>1
      <4>3. a \in UnservedAliases(HeldOf, served)
        BY <2>2, <4>1, <4>2, InventoryAssumption
      <4>4. /\ \A b \in served : b.family # f
            /\ a = [server |-> NoServer, name |-> HeldOf.spelling[f],
                    family |-> f, resident |-> FALSE]
        BY <4>1, <4>3 DEF UnservedAliases
      <4>5. \A b \in all : b.family = f => b = a
        BY <2>2, <4>4 DEF UnservedAliases
      <4>6. {b \in all : b.family = f} = {a}
        BY <4>1, <4>5
      <4>7. e.names = {n}
        BY <3>2, <4>1, <4>6
      <4>8. QED
        BY <3>2, <4>2, <4>7
    <3>5. QED
      BY <1>1, <2>1, <3>2, <3>3, <3>4, HeldByObjects
  <2>4. ASSUME NEW f \in Family, NEW s \in Named(f), ~ ObjectOf(s).component
        PROVE  \E e \in catalogue : e.family = f
    <3>1. HeldOf.spelling[f] # NoModel
      BY <1>1, <2>4 DEF IInv, SpellInv, Spells, HeldOf
    <3>2. \E a \in all : a.family = f
      <4>1. CASE \E a \in served : a.family = f
        BY <2>2, <4>1
      <4>2. CASE \A a \in served : a.family # f
        <5>1. PICK a : a = [server |-> NoServer, name |-> HeldOf.spelling[f],
                            family |-> f, resident |-> FALSE]
          OBVIOUS
        <5>2. a \in UnservedAliases(HeldOf, served)
          BY <3>1, <4>2, <5>1 DEF UnservedAliases
        <5>3. a \in all /\ a.family = f
          BY <2>2, <5>1, <5>2
        <5>4. QED
          BY <5>3
      <4>3. QED
        BY <4>1, <4>2
    <3>3. Entry(f, all) \in catalogue /\ Entry(f, all).family = f
      BY <2>2, <3>2 DEF Entry
    <3>4. QED
      BY <3>3
  <2>5. QED
    BY <2>3, <2>4 DEF HeldModelsReported
<1>2. QED
  BY <1>1, InductiveInv, PTL

\* A component is a family of its own only without a base, and lends none the
\* word of a descriptor (ROUTE-N4, MODEL-C3).
THEOREM Components == Spec => []ComponentsFold
<1>1. ASSUME IInv PROVE ComponentsFold
  <2>1. SUFFICES ASSUME pass = "composed" PROVE ComponentsFold
    BY DEF ComponentsFold
  <2>2. PICK served, all :
           /\ all = served \cup UnservedAliases(HeldOf, served)
           /\ \A a \in served : a.server \in ServerName
           /\ \A a \in all : a.family \in Family
           /\ catalogue = {Entry(f, all) : f \in {a.family : a \in all}}
    BY <1>1, <2>1, Entries
  <2>3. SUFFICES ASSUME NEW e \in catalogue, NEW a \in all, NEW f,
                        f = a.family, e = Entry(f, all)
        PROVE  /\ e.source = "descriptor" <=>
                    \E o \in Range(objects) : ~ o.component /\ o.family = e.family
               /\ (\A n \in e.names : n.alias.server = NoServer) =>
                    \E s \in Named(e.family) :
                      ObjectOf(s).component => ObjectOf(s).base = NoFamily
               /\ \A c \in e.components : \E o \in Range(objects) :
                    o.component /\ o.store = c.store /\ Target(o) = e.family
    <3>1. ASSUME NEW e \in catalogue
          PROVE  \E a \in all : e = Entry(a.family, all)
      <4>1. PICK f \in {a.family : a \in all} : e = Entry(f, all)
        BY <2>2
      <4>2. PICK a \in all : a.family = f
        OBVIOUS
      <4>3. QED
        BY <4>1, <4>2
    <3>2. QED
      BY <2>1, <3>1 DEF ComponentsFold
  <2>4. /\ f \in Family
        /\ e.family = f
        /\ e.source = IF f \in families THEN "descriptor" ELSE "alias"
        /\ e.components = {c \in components : c.family = f}
    BY <2>2, <2>3 DEF Entry
  <2>5. \E n \in e.names : n.alias = a
    <3>1. e.names = {[alias |-> b,
                      heldIn |-> IF b.server = NoServer THEN byFamily[f]
                                 ELSE byName[b.name]] :
                       b \in {b \in all : b.family = f}}
      BY <2>3 DEF Entry
    <3>2. PICK n : n = [alias |-> a,
                        heldIn |-> IF a.server = NoServer THEN byFamily[f]
                                   ELSE byName[a.name]]
      OBVIOUS
    <3>3. n \in e.names /\ n.alias = a
      BY <2>3, <3>1, <3>2
    <3>4. QED
      BY <3>3
  <2>6. e.source = "descriptor" <=>
          \E o \in Range(objects) : ~ o.component /\ o.family = f
    <3>1. f \in families <=>
            \E i \in DOMAIN objects : ~ objects[i].component /\ objects[i].family = f
      BY <1>1, <2>1, <2>4 DEF IInv, PartInv
    <3>2. QED
      BY <2>4, <3>1 DEF Range
  <2>7. ASSUME \A n \in e.names : n.alias.server = NoServer
        PROVE  \E s \in Named(f) :
                 ObjectOf(s).component => ObjectOf(s).base = NoFamily
    <3>1. a \in UnservedAliases(HeldOf, served)
      BY <2>2, <2>7, <2>5, InventoryAssumption
    <3>2. spelling[f] # NoModel
      BY <2>3, <3>1 DEF UnservedAliases, HeldOf
    <3>3. PICK s \in Named(f) : Spells(ObjectOf(s))
      BY <1>1, <2>4, <3>2 DEF IInv, SpellInv
    <3>4. QED
      BY <3>3 DEF Spells
  <2>8. \A c \in e.components : \E o \in Range(objects) :
          o.component /\ o.store = c.store /\ Target(o) = f
    BY <1>1, <2>4 DEF IInv, PartInv
  <2>9. QED
    BY <2>4, <2>6, <2>7, <2>8
<1>2. QED
  BY <1>1, InductiveInv, PTL
=============================================================================
