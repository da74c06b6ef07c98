SPECIFICATION Spec
CONSTANTS
  a1 = a1
  a2 = a2
  t1 = t1
  m1 = m1
  m2 = m2
  o1 = o1
  NoIp = NoIp
  NoAlert = NoAlert
  Ips = {a1}
  Texts = {t1}
  Alerts = {m1, m2}
  Operators = {o1}
  Origin <- SharedOrigin
  Impacted <- SharedImpacted
  Fallback <- SharedFallback
  Protectable = {a1}
  Filters = {}
  MaxFaults = 1
  Remembered = {}
INVARIANTS
  RetryingOnlyInFlight
