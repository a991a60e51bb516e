SPECIFICATION Spec
CONSTANTS
  t1 = t1  t2 = t2  oA = oA  oB = oB  s1 = s1  s2 = s2  plan1 = plan1  plan2 = plan2
  Threads = {t1, t2}
  Orgs = {oA, oB}
  Subs = {s1, s2}
  Offers = {plan1, plan2}
  OfferOf <- OwnPlans
  Types <- TwoTypes
  Nobody = Nobody
  MaxEvents = 2
  MaxRepeats = 1
  MaxFaults = 1
SYMMETRY Symmetry
INVARIANTS AccountIsTheSubscribers AccountTellsTransaction AcceptedIsRecorded
PROPERTIES LedgerSpec
CHECK_DEADLOCK FALSE
