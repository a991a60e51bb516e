SPECIFICATION Spec
CONSTANTS
  e1 = e1
  f1 = f1
  f2 = f2
  t1 = t1
  t2 = t2
  Evidence = {e1}
  Facts = {f1, f2}
  Conflicting = {f1}
  EvidenceOf <- TwoFacts
  Servers = {t1, t2}
  Threads = {t1, t2}
  ServerOf <- OneServerEach
  None = None
  MaxDispositions = 2
  MaxFaults = 1
SYMMETRY ThreadSymmetry
INVARIANTS FindingIsFounded DispositionIsTheLast
PROPERTIES CompletedVerificationStands
