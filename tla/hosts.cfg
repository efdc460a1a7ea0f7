CONSTANTS
  None = None
  Absent = Absent
  Unreadable = Unreadable
  Malformed = Malformed
  Survey = {s1, s2}
  RemoteDeclared = {"chat", "embed"}
  Runtimes <- MCRuntimes
  MaxChanges = 2
  Providers <- MCProviders
  Outcomes = {"denied"}
  Elsewhere = "elsewhere"
  Ids <- MCIds
  Listings <- MCListings
  Healths <- MCHealths
  Workers = 2
  Servers <- MCServers
  Kinds <- MCKinds
  Abilities <- MCAbilities
  Threshold = 3
  Holders <- MCHolders
  Environments <- MCEnvironments
  Declarations <- MCDeclarations
  Addresses <- MCAddresses
  AnyAddress <- MCAnyAddress
  NoHost = {"a b"}
  Sources <- MCSources
  Found <- MCFound
  Requests <- MCRequests
  MaxAsked = 2
  MaxDecided = 3
  MaxPolls = 1
SPECIFICATION Spec
INVARIANTS
  TypeOK
  OneListingRead
  CredentialStaysHome
  DownSaysWhy
  LemonadeReadTrue
  AdaptersReadTrue
  UnloadAsksAll
  DeclaredFromItsRecord
  ScopedAsDeclared
  AnswersWhole
CHECK_DEADLOCK FALSE
