SPECIFICATION MCSpec
CONSTANTS
  s1 = s1  s2 = s2  t1 = t1  t2 = t2  t3 = t3
  c1 = c1  c2 = c2  k1 = k1  k2 = k2  f1 = f1  f2 = f2
  NoValue = NoValue
  Servers = {s1, s2}
  ServerOfCaller <- Places
  Callers = {t1, t2, t3}
  Requests = {t1, t2}
  Users = {u1, u2}
  EscalationLevels <- Due
  MaxRestarts = 1
  FailureThreshold = 2
  RecoveryTime = 2
  BreakerTime = 7
  CallKeys = {k1, k2}
  Fingerprints = {f1, f2}
  MaxTries = 2
  MaxCalls = 4
  GateCallers = {t1, t2, t3, t4}
  GateLimit = 2
  RateClients = {k1, k2}
  RateLimit = 2
  Window = 2
  MaxClients = 1
  RateTime = 4
  Texts = {c1, c2}
  MaxApprovals = 3
  Events = {k1, k2}
  PayloadOf <- Payload
  MaxPushCalls = 4
  MaxClaims = 2
  Companies = {c1, c2}
  Policies <- ThreePolicies
  Hours = 4
  MaxSets = 2
  MaxPolicyFaults = 1
  MaxContradictions = 1
  SignalChoices = {TRUE, FALSE}
  Reviews = {r1}
  CaseKeys = {k1}
  Bodies = {c1, c2}
  MaxCases = 2
  MaxIntakeFaults = 1
  Releases <- ThreeReleases
  MaxInstanceFaults = 1
  Ids = {k1}
  Dossiers = {c1, c2}
  SignalledTexts = {c1}
  MaxObjects = 2
  Subjects = {t1, t3}
  RequestStatuses <- Completed
  Notes = {c1, NoValue}
  MaxCreated = 2
  MaxPatches = 2
  MaxPrivacyFaults = 1
INVARIANTS
  CallsAreGuarded PushedIsQueued  CasesAreStored SchemaIsRecorded 
  
PROPERTIES StandingIsKept 
CHECK_DEADLOCK FALSE
