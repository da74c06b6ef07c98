SPECIFICATION Spec
CONSTANTS
  a1 = a1
  a2 = a2
  t1 = t1
  m1 = m1
  m2 = m2
  o1 = o1
  NoIp = NoIp
  NoAlert = NoAlert
  Ips = {a1, a2}
  Texts = {}
  Alerts = {m1}
  Operators = {}
  Origin <- PairOrigin
  Impacted <- PairImpacted
  Fallback <- PairFallback
  Protectable = {}
  Filters = {}
  MaxFaults = 0
  Remembered = {m1}
PROPERTY CancelledNotResurrected
