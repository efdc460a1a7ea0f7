----------------------------- MODULE Inventory -----------------------------
(***************************************************************************)
(* What one survey reads from the model servers and what it makes of it:   *)
(* Router.SurveyContext's per-host read and the fold of those reads into   *)
(* the snapshot that every later answer is given from.                     *)
(*                                                                         *)
(* A server is named by its Host.Name; two Host values of two successive   *)
(* configurations may bear one name.  A model name is a natural number,    *)
(* its place in the byte order the code sorts names by.                    *)
(***************************************************************************)
EXTENDS Integers, Sequences, FiniteSetsExt

CONSTANTS
  Host,          \* the Host values a configuration may list
  ServerName,    \* Host.Name
  Model,         \* the names hosts and stores know models by
  Family,        \* model identities
  Profile,       \* chat, embed, image, ...
  NameOf,        \* Host -> ServerName
  Servable,      \* the hosts with a route a call can be sent to
  Hosted,        \* the hosts off this machine
  HostProfiles,  \* Host -> the profiles the host itself serves
  Scoped,        \* the hosts whose declaration names models per profile
  Declared,      \* Host -> Model -> the profiles the declaration names it for
  Parsed,        \* Model -> the family the name alone parses to
  NoFamily, NoServer, NoModel

ASSUME InventoryAssumption ==
  /\ Model \subseteq Nat
  /\ NameOf \in [Host -> ServerName]
  /\ Servable \subseteq Host /\ Hosted \subseteq Host /\ Scoped \subseteq Host
  /\ HostProfiles \in [Host -> SUBSET Profile]
  /\ Declared \in [Host -> [Model -> SUBSET Profile]]
  /\ Parsed \in [Model -> Family \cup {NoFamily}]
  /\ NoFamily \notin Family
  /\ NoServer \notin ServerName
  /\ NoModel \notin Model

-----------------------------------------------------------------------------
(* Types *)

\* The names a host reports profiles of their own for, and those profiles.
OwnProfiles == [names : SUBSET Model, of : [Model -> SUBSET Profile]]

\* What a host would answer when it is read: whether its listing route answers
\* and what it lists, whether its residency route does, and the profiles its
\* own metadata gives a name.
Observation == [lists : BOOLEAN, installed : Seq(Model),
                reports : BOOLEAN, resident : Seq(Model),
                metadata : OwnProfiles]

Read == [up : BOOLEAN, installed : Seq(Model), resident : Seq(Model),
         profiles : OwnProfiles]

Alias == [server : ServerName \cup {NoServer}, name : Model,
          family : Family, resident : BOOLEAN]

\* The storage inventory: the family a store's descriptor declares for a name,
\* and the name each held family is spelled by when no host serves it.
Held == [declared : [Model -> Family \cup {NoFamily}],
         spelling : [Family -> Model \cup {NoModel}]]

Snapshot == [list : Seq(Host), up : SUBSET ServerName,
             aliases : SUBSET Alias,
             pick : [Family -> [ServerName -> Model \cup {NoModel}]],
             profiles : [ServerName -> OwnProfiles]]

-----------------------------------------------------------------------------
(* Reading one host *)

NoneReported == [names |-> {}, of |-> [m \in Model |-> {}]]

\* A host whose listing fails has nothing but its error.  A hosted server has
\* no residency to read.  A local host whose residency route fails keeps its
\* installed list, and then its metadata is never asked for: only a
\* declaration still gives its names profiles.
ReadOf(h, o) ==
  LET local     == o.lists /\ h \notin Hosted
      installed == IF o.lists THEN o.installed ELSE <<>>
      resident  == IF local /\ o.reports THEN o.resident ELSE <<>>
      names     == Range(installed) \cup Range(resident)
      profiles  ==
        CASE local /\ h \in Scoped -> [names |-> names, of |-> Declared[h]]
          [] o.lists /\ (h \in Hosted \/ (o.reports /\ h \notin Scoped))
               -> [o.metadata EXCEPT !.names = @ \cap names]
          [] OTHER -> NoneReported
  IN [up |-> o.lists, installed |-> installed, resident |-> resident,
      profiles |-> profiles]

-----------------------------------------------------------------------------
(* Folding the reads of one survey *)

\* A descriptor's family, or the family the name itself parses to.
FamilyName(hold, m) ==
  IF hold.declared[m] # NoFamily THEN hold.declared[m] ELSE Parsed[m]

\* The positions of a name list that hold a build of family f.
Builds(hold, names, f) == {k \in DOMAIN names : FamilyName(hold, names[k]) = f}

\* Mutant: the first build installed wins over one the host holds.
PickInstalledFirst(hold, read, f) ==
  LET held == Builds(hold, read.resident, f)
      disk == Builds(hold, read.installed, f)
  IN IF disk # {} THEN read.installed[Min(disk)]
     ELSE IF held # {} THEN read.resident[Max(held)] ELSE NoModel

\* A host's own choice of name for a family: the last resident build it
\* listed, or else the first installed one.
PickOf(hold, read, f) ==
  LET held == Builds(hold, read.resident, f)
      disk == Builds(hold, read.installed, f)
  IN IF held # {} THEN read.resident[Max(held)]
     ELSE IF disk # {} THEN read.installed[Min(disk)] ELSE NoModel

\* One alias per server and name; a name that parses to no family is dropped.
AliasesOf(hold, h, read) ==
  {[server |-> NameOf[h], name |-> m, family |-> FamilyName(hold, m),
    resident |-> m \in Range(read.resident)] :
      m \in {n \in Range(read.resident) \cup Range(read.installed) :
               FamilyName(hold, n) # NoFamily}}

\* A held model no host serves is one alias with no server.
UnservedAliases(hold, served) ==
  {[server |-> NoServer, name |-> hold.spelling[f], family |-> f,
    resident |-> FALSE] :
      f \in {g \in Family : /\ hold.spelling[g] # NoModel
                            /\ \A a \in served : a.family # g}}

Served(list, reads, hold) ==
  UNION {AliasesOf(hold, list[i], reads[i]) : i \in DOMAIN list}

Positions(list, s) == {i \in DOMAIN list : NameOf[list[i]] = s}

\* The snapshot a survey of list publishes.
Fold(list, reads, hold) ==
  LET served == Served(list, reads, hold)
      at(s)  == CHOOSE i \in DOMAIN list : NameOf[list[i]] = s
  IN [list |-> list,
      up |-> {NameOf[list[i]] : i \in {j \in DOMAIN list : reads[j].up}},
      aliases |-> served \cup UnservedAliases(hold, served),
      pick |-> [f \in Family |-> [s \in ServerName |->
                 IF Positions(list, s) = {} THEN NoModel
                 ELSE PickOf(hold, reads[at(s)], f)]],
      profiles |-> [s \in ServerName |->
                     IF Positions(list, s) = {} THEN NoneReported
                     ELSE reads[at(s)].profiles]]

\* The snapshot of a router that has surveyed nothing.
Unsurveyed == Fold(<<>>, <<>>, [declared |-> [m \in Model |-> NoFamily],
                                spelling |-> [f \in Family |-> NoModel]])
=============================================================================
