SPECIFICATION FreshSpec
CONSTANTS
  a = a
  b = b
  h = h
  x = x
  b2 = b2
  sa = sa
  sb = sb
  sh = sh
  sx = sx
  F = F
  G = G
  chat = chat
  embed = embed
  Host <- MCHost
  ServerName <- MCServerName
  Model <- MCModel
  Family <- MCFamily
  Profile <- MCProfile
  NameOf <- MCNameOf
  Servable <- MCServable
  Hosted <- MCHosted
  HostProfiles <- MCHostProfiles
  Scoped <- MCScoped
  Declared <- MCDeclared
  Parsed <- MCParsed
  NoFamily = NoFamily
  NoServer = NoServer
  NoModel = NoModel
  NoHost = NoHost
  NoAllowance = NoAllowance
  NotRead = NotRead
  NoSurvey = NoSurvey
  NoSnapshot = NoSnapshot
  NoRequest = NoRequest
  NoDecision = NoDecision
  Caller = {c1}
  Poller = {p1}
  HostLists <- RaceLists
  HeldInventories <- RaceHeld
  Observations <- LiveObservations
  Requests <- LiveRequests
  MaxAsked = 1
INVARIANTS
  FreshIsFresh
