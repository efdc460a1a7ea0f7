----------------------------- MODULE Catalogue -----------------------------
(***************************************************************************)
(* The storage inventory's share of a survey: index reads the objects the  *)
(* stores hold, in the order SetHeld was given them, and compose joins the *)
(* result with what the servers list.                                      *)
(*                                                                         *)
(* index is a loop over objects and, within one, over its names; the keys  *)
(* match produces for one name are distinct, so a step takes one name.  A  *)
(* name is lower-cased on entry.  What index hands to the rest of a survey *)
(* is the Held record of Inventory.                                        *)
(***************************************************************************)
EXTENDS Inventory

CONSTANTS
  Store, Digest, NoDigest,
  Keys,           \* Model -> the keys match produces: the name and its tails
  Inventories,    \* what SetHeld is called with
  Listings,       \* what servers list: sets of <<server, name>>
  Unset,          \* no entry in a map
  Contested       \* the empty string a contested entry holds

HeldObject == [store : Store, names : Seq(Model), digest : Digest \cup {NoDigest},
               family : Family \cup {NoFamily}, component : BOOLEAN,
               base : Family \cup {NoFamily}]

ASSUME CatalogueAssumption ==
  /\ Keys \in [Model -> SUBSET Model]
  /\ \A m \in Model : m \in Keys[m]
  /\ Inventories \subseteq Seq(HeldObject)
  /\ Listings \subseteq SUBSET (ServerName \X Model)
  /\ NoDigest \notin Digest
  /\ Unset \notin Family \cup Model \cup {NoFamily, NoModel}
  /\ Contested \notin Family \cup Model \cup {NoFamily, NoModel, Unset}

VARIABLES
  objects,      \* the objects index was called with
  pass,         \* the loop index is in
  at, name,     \* the object, and its name, to be read next; name 0 starts one
  declared,     \* key -> the family descriptors declare for it
  owner,        \* key -> the one store name that claimed it
  byName,       \* key -> the stores holding an object of that name
  byFamily,     \* family -> the stores holding an object of it
  spelling,     \* family -> a store's name for it
  families,     \* the families a descriptor declared
  byDigest,     \* digest -> the families its named objects belong to
  components,   \* the role-bearing objects folded into a family
  catalogue     \* what compose returned

vars == <<objects, pass, at, name, declared, owner, byName, byFamily,
          spelling, families, byDigest, components, catalogue>>

Component == [family : Family, store : Store, name : Model \cup {NoModel}]

CatalogueEntry ==
  [family : Family, heldIn : SUBSET Store, source : {"descriptor", "alias"},
   names : SUBSET [alias : Alias, heldIn : SUBSET Store],
   components : SUBSET Component]

Init ==
  /\ objects \in Inventories
  /\ pass = "names" /\ at = 1 /\ name = 0
  /\ declared = [k \in Model |-> Unset]
  /\ owner = [k \in Model |-> Unset]
  /\ byName = [k \in Model |-> {}]
  /\ byFamily = [f \in Family |-> {}]
  /\ spelling = [f \in Family |-> NoModel]
  /\ families = {}
  /\ byDigest = [d \in Digest |-> {}]
  /\ components = {}
  /\ catalogue = {}

-----------------------------------------------------------------------------
(* One object *)

\* The family an object's names are declared under: a component's base, or
\* what its own descriptor says.
Target(o) == IF o.component /\ o.base # NoFamily THEN o.base ELSE o.family

\* A component that says neither is left out.
Skipped(o) == o.component /\ Target(o) = NoFamily

\* The family one of its names belongs to: a plain object no descriptor
\* describes keeps the family its name parses to.
FamilyUnder(o, m) ==
  IF Target(o) # NoFamily \/ o.component THEN Target(o) ELSE Parsed[m]

\* Mutant: a component's name stands for the family it is folded into.
SpellsAlways(o) == TRUE

\* Its name may stand for a family no server lists.
Spells(o) == ~ o.component \/ o.base = NoFamily

-----------------------------------------------------------------------------
(* One cell of a map *)

\* Mutant: a contested name is claimed by the next descriptor.
DeclareAfresh(cell, f) ==
  IF f = NoFamily THEN cell
  ELSE IF cell \in {Unset, Contested, f} THEN f ELSE Contested

\* declare: the first family stays while every later one agrees with it.
Declare(cell, f) ==
  IF f = NoFamily THEN cell
  ELSE IF cell \in {Unset, f} THEN f ELSE Contested

\* Mutant: the last name to reach a key takes it.
ClaimLast(cell, m) == m

\* declareName: the same for the store name that reaches a key.
Claim(cell, m) == IF cell \in {Unset, m} THEN m ELSE Contested

-----------------------------------------------------------------------------
(* index *)

\* Mutant: the last name of an object is never left.
AdvancePast == IF name = 0 \/ name < Len(objects[at].names)
               THEN name' = name + 1 /\ at' = at
               ELSE name' = name + 1 /\ at' = at + 1

Advance == IF name < Len(objects[at].names)
           THEN name' = name + 1 /\ at' = at
           ELSE name' = 0 /\ at' = at + 1

\* An object's descriptor is read before its names.
BeginObject ==
  /\ pass = "names" /\ at <= Len(objects) /\ name = 0
  /\ LET o == objects[at]
     IN /\ families' = families \cup
             (IF o.component THEN {} ELSE {o.family} \ {NoFamily})
        /\ components' = components \cup
             {c \in {[family |-> Target(o), store |-> o.store, name |-> NoModel]} :
                o.component /\ ~ Skipped(o) /\ o.names = <<>>}
        /\ IF Skipped(o) THEN name' = 0 /\ at' = at + 1 ELSE Advance
  /\ UNCHANGED <<objects, pass, declared, owner, byName, byFamily, spelling,
                 byDigest, catalogue>>

\* One name of the object in hand, under every key match produces for it.
IndexName ==
  /\ pass = "names" /\ at <= Len(objects) /\ name > 0
  /\ LET o == objects[at]
         m == o.names[name]
         f == FamilyUnder(o, m)
     IN /\ declared' = [k \in Model |->
             IF k \in Keys[m] THEN Declare(declared[k], Target(o))
             ELSE declared[k]]
        /\ owner' = [k \in Model |->
             IF k \in Keys[m] THEN Claim(owner[k], m) ELSE owner[k]]
        /\ byName' = [k \in Model |->
             IF k \notin Keys[m] THEN byName[k]
             ELSE IF owner'[k] = Contested THEN {}
             ELSE byName[k] \cup {o.store}]
        /\ byFamily' = [g \in Family |->
             IF g = f THEN byFamily[g] \cup {o.store} ELSE byFamily[g]]
        /\ spelling' = [g \in Family |->
             IF g = f /\ Spells(o) /\ spelling[g] = NoModel THEN m
             ELSE spelling[g]]
        /\ byDigest' = [d \in Digest |->
             IF d = o.digest THEN byDigest[d] \cup ({f} \ {NoFamily})
             ELSE byDigest[d]]
        /\ components' = components \cup
             {c \in {[family |-> f, store |-> o.store, name |-> m]} : o.component}
  /\ Advance
  /\ UNCHANGED <<objects, pass, families, catalogue>>

\* Every name is in: the objects are read again for those no store named.
StartDigests ==
  /\ pass = "names" /\ at > Len(objects)
  /\ pass' = "digests" /\ at' = 1
  /\ UNCHANGED <<objects, name, declared, owner, byName, byFamily, spelling,
                 families, byDigest, components, catalogue>>

\* Mutant: an unnamed component is left where its descriptor put it.
UnnamedPlain(o) == o.names = <<>> /\ o.digest # NoDigest /\ ~ o.component

Unnamed(o) == o.names = <<>> /\ o.digest # NoDigest

\* An unnamed object belongs to every family its digest was named under.
JoinByDigest ==
  /\ pass = "digests" /\ at <= Len(objects)
  /\ LET o == objects[at]
     IN byFamily' = [f \in Family |->
          IF Unnamed(o) /\ f \in byDigest[o.digest]
          THEN byFamily[f] \cup {o.store} ELSE byFamily[f]]
  /\ at' = at + 1
  /\ UNCHANGED <<objects, pass, name, declared, owner, byName, spelling,
                 families, byDigest, components, catalogue>>

-----------------------------------------------------------------------------
(* compose *)

\* What a survey takes from the index.
HeldOf == [declared |-> [m \in Model |->
             IF declared[m] \in Family THEN declared[m] ELSE NoFamily],
           spelling |-> spelling]

ServedFrom(listed) ==
  {[server |-> a[1], name |-> a[2], family |-> FamilyName(HeldOf, a[2]),
    resident |-> FALSE] :
      a \in {b \in listed : FamilyName(HeldOf, b[2]) # NoFamily}}

Composed(listed) ==
  LET served == ServedFrom(listed)
      all    == served \cup UnservedAliases(HeldOf, served)
  IN {[family |-> f, heldIn |-> byFamily[f],
       source |-> IF f \in families THEN "descriptor" ELSE "alias",
       names |-> {[alias |-> a,
                   heldIn |-> IF a.server = NoServer THEN byFamily[f]
                              ELSE byName[a.name]] :
                    a \in {b \in all : b.family = f}},
       components |-> {c \in components : c.family = f}] :
        f \in {a.family : a \in all}}

\* The servers' families are joined with the index, and a held family none of
\* them lists is added.
Compose ==
  /\ pass = "digests" /\ at > Len(objects)
  /\ pass' = "composed"
  /\ \E listed \in Listings : catalogue' = Composed(listed)
  /\ UNCHANGED <<objects, at, name, declared, owner, byName, byFamily,
                 spelling, families, byDigest, components>>

Next == BeginObject \/ IndexName \/ StartDigests \/ JoinByDigest \/ Compose

Spec == Init /\ [][Next]_vars
=============================================================================
