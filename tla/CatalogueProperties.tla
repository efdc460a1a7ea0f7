------------------------ MODULE CatalogueProperties ------------------------
(***************************************************************************)
(* What the index promises of any inventory, in whatever order its objects *)
(* come: stated over the set of names read so far, without the maps.       *)
(***************************************************************************)
EXTENDS Catalogue

TypeOK ==
  /\ objects \in Inventories
  /\ pass \in {"names", "digests", "composed"}
  /\ at \in 1..(Len(objects) + 1)
  /\ name \in Nat
  /\ name > 0 => at <= Len(objects) /\ name <= Len(objects[at].names)
  /\ declared \in [Model -> Family \cup {Unset, Contested}]
  /\ owner \in [Model -> Model \cup {Unset, Contested}]
  /\ byName \in [Model -> SUBSET Store]
  /\ byFamily \in [Family -> SUBSET Store]
  /\ spelling \in [Family -> Model \cup {NoModel}]
  /\ families \subseteq Family
  /\ byDigest \in [Digest -> SUBSET Family]
  /\ components \subseteq Component
  /\ catalogue \subseteq CatalogueEntry

-----------------------------------------------------------------------------
(* The names read so far, each as <<object, name>> *)

Past(p, a, n, i, j) == p # "names" \/ i < a \/ (i = a /\ j < n)

\* What index has read of objs in pass p when object a and its name n are next.
ReadBy(objs, p, a, n) ==
  UNION {{<<i, j>> : j \in {k \in DOMAIN objs[i].names : Past(p, a, n, i, k)}} :
           i \in {k \in DOMAIN objs : ~ Skipped(objs[k])}}

Seen == ReadBy(objects, pass, at, name)

ObjectOf(s) == objects[s[1]]
NameAt(s) == ObjectOf(s).names[s[2]]

Reaching(k) == {s \in Seen : k \in Keys[NameAt(s)]}

Described(k) == {Target(ObjectOf(s)) : s \in Reaching(k)} \ {NoFamily}

-----------------------------------------------------------------------------

\* A name is declared under a family exactly when some descriptor of an object
\* it reaches says so and none says another: two stores that describe it as two
\* models name nothing, in whatever order and however often they repeat it, and
\* a component's name follows its base (ROUTE-N1, N3, N4).
ContestedNamesNothing ==
  \A k \in Model : \A f \in Family :
    HeldOf.declared[k] = f <=> Described(k) = {f}

\* The stores a name is held in are those of the one store name it reaches;
\* two different names that reach it leave it in none (ROUTE-N3, ROUTE-H1).
HeldInNamesOneObject ==
  \A k \in Model :
    byName[k] = {ObjectOf(s).store :
                   s \in {t \in Reaching(k) :
                            \A u \in Reaching(k) : NameAt(u) = NameAt(t)}}

Named(f) == {s \in Seen : FamilyUnder(ObjectOf(s), NameAt(s)) = f}

\* The objects of family f, those no store named included: they belong to it
\* when one named under it has their digest.
ObjectsOf(f) ==
  {ObjectOf(s) : s \in Named(f)} \cup
  {o \in Range(objects) : /\ o.names = <<>> /\ o.digest # NoDigest
                          /\ \E s \in Named(f) : ObjectOf(s).digest = o.digest}

\* A composed catalogue lists a family once, holds it in every store with an
\* object of it and in no other, and leaves out no held model: one no server
\* lists is there under one name of its own, with no server (ROUTE-H1, H2).
HeldModelsReported ==
  pass = "composed" =>
    /\ \A e \in catalogue :
         /\ e.heldIn = {o.store : o \in ObjectsOf(e.family)}
         /\ \A g \in catalogue : e.family = g.family => e = g
         /\ \A n \in e.names : n.alias.server = NoServer =>
              e.names = {n} /\ n.heldIn = e.heldIn
    /\ \A f \in Family : \A s \in Named(f) :
         ~ ObjectOf(s).component => \E e \in catalogue : e.family = f

\* A component is a family of its own only when its descriptor gives no base,
\* and never lends one the word of a descriptor (ROUTE-N4, MODEL-C3).
ComponentsFold ==
  pass = "composed" =>
    \A e \in catalogue :
      /\ e.source = "descriptor" <=>
           \E o \in Range(objects) : ~ o.component /\ o.family = e.family
      /\ (\A n \in e.names : n.alias.server = NoServer) =>
           \E s \in Named(e.family) :
             ObjectOf(s).component => ObjectOf(s).base = NoFamily
      /\ \A c \in e.components : \E o \in Range(objects) :
           o.component /\ o.store = c.store /\ Target(o) = e.family

\* A name is matched to a store's descriptor by that store's whole name for it,
\* and by no tail of it (ROUTE-N2).  The code does not keep this.
MatchedByWholeName ==
  \A k \in Model : HeldOf.declared[k] # NoFamily =>
    \E s \in Seen : NameAt(s) = k
=============================================================================
