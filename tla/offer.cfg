CONSTANTS
  plain = plain
  loading = loading
  far = far
  nearFar = nearFar
  near = near
  lemon = lemon
  away = away
  F = F
  G = G
  m = m
  n = n
  d1 = d1
  Itself = Itself
  Unreported = Unreported
  MaxAliases = 3
  Host <- MCHost
  ServerName <- MCServer
  Family = {F, G}
  Name = {m, n}
  Profile = {"chat", "image"}
  Domain = {d1}
  NameOf <- MCNameOf
  Servable = {plain, loading, far, nearFar}
  Hosted = {far}
  Remote = {far}
  AtLoad = {loading}
  HostProfiles <- MCProfiles
  DefaultContext <- MCDefault
  Inventories <- MCInventories
  Configurations <- MCConfigurations
  Requests <- MCRequests
  RemoteAnswers <- MCAnswers
SPECIFICATION Spec
INVARIANTS
  TypeOK
  CountsEachOnce
  ConservativeContext
CHECK_DEADLOCK FALSE
