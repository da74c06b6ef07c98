SPECIFICATION Spec
CONSTANTS
  v1 = v1
  v2 = v2
  owned = owned
  external = external
  h1 = h1
  h2 = h2
  c1 = c1
  NoValue = NoValue
  Values = {v1, v2}
  Categories = {owned, external}
  Bodies <- MCBodies
  Files <- MCFiles
  Legacy <- MCLegacy
  Old <- MCOld
  Handlers = {h1, h2}
  Classifiers = {c1}
  MaxId = 3
  MaxChanges = 2
  MaxMatches = 1
  MaxFaults = 1
SYMMETRY Threads
INVARIANTS
  TypeOK
  TrailExplainsRow
PROPERTIES
  MigrationIsComplete
  RemovedStaysRemoved
  ImportPassesOverNothing
