SPECIFICATION Spec
CONSTANTS
  Off = Off
  Actors = {t1, t2}
  Reporters = {t1}
  Compiler = o1
  Versions = {v1, v2}
  Values = {v1, v2}
  Manifests = {k1, k2}
  Carriers = {o1}
  Flights = {p1, p2}
  Answers = {a1, a2}
  Minted = {c1, c2}
  Tenants = {a1, a2}
  Idents = {c1}
  Clients = {c1, c2}
  Agents = {a1, a2}
  Tool = o1
  Frameworks = {1, 2}
  Adapter <- OnePackage
  Offers = {{"post", "basic"}, {"basic"}, {"tls"}}
  Directories = {"usable", "readonly", "bad"}
  Clouds = {"aws"}
  Prefixes = {p1, p2}
  Small = {}
  Workers = 1
  MaxRebinds = 1
  MaxForget = 2
  MaxCalls = 2
  MaxClock = 3
  HostRest = 1
  MaxTime = 2
  MaxNonce = 2
  MetadataAge = 1
  MaxKeys = 3
  MaxCrashes = 1
  MaxWipes = 1
  Budget = 2
  BrokerClock = 2
  MaxBindings = 2
  CacheMax = 1
  MaxRows = 2
  MaxChanges = 2
  MaxReports = 2
  MaxDigits = 3
  MaxRuns = 1
  MaxClients = 2
  MaxImports = 1
  TTL = 1
  MaxDay = 3
  MaxRefresh = 2
CHECK_DEADLOCK FALSE
INVARIANTS
  TypesOK
  
  
  IdentityIsKept
  NobodyElses
  DecidedAsItRuns
  OneOfEach
  
  HoldsUndisturbed
PROPERTIES
  TheGatewayIsTold
