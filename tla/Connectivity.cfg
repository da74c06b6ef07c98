SPECIFICATION FairSpec
CONSTANTS
  d1 = d1
  Services = {"imap", "smtp"}
  Dashboards = {d1}
  Asked = {"smtp"}
  MaxFlips = 1
  MaxFaults = 1
INVARIANTS
  TypeOK
PROPERTIES
  ChangesAnnounced
  StatusConverges
