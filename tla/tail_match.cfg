SPECIFICATION Spec
CONSTANTS
  s1 = s1
  s2 = s2
  d1 = d1
  d2 = d2
  srv = srv
  F = F
  G = G
  T = T
  V = V
  Host = {}
  ServerName <- MCServerName
  Model <- MCModel
  Family <- MCFamily
  Profile = {}
  NameOf <- NoMap
  Servable = {}
  Hosted = {}
  HostProfiles <- NoMap
  Scoped = {}
  Declared <- NoMap
  Parsed <- MCParsed
  NoFamily = NoFamily
  NoServer = NoServer
  NoModel = NoModel
  Store = {s1, s2}
  Digest = {d1, d2}
  NoDigest = NoDigest
  Keys <- MCKeys
  Inventories <- MCInventories
  Listings <- MCListings
  Unset = Unset
  Contested = Contested
  MaxObjects = 1
CHECK_DEADLOCK FALSE
INVARIANTS
  MatchedByWholeName
