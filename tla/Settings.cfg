SPECIFICATION Spec
CONSTANTS
  FieldList <- MCFieldList
  Kind <- MCKind
  Default <- MCDefault
  Legacy <- MCLegacy
  OtherKeys = {"TRUSTED_SENDER", "DATABASE_PATH"}
  Exclusive = {"IMAP_USE_SSL", "IMAP_USE_STARTTLS"}
  Typed <- MCTyped
  Stored <- MCStored
  Parsed <- MCParsed
  Malformed <- MCMalformed
  Unusable <- MCUnusable
  FileValues = {"993", "143", "old", "alerts", "ops", "a, b", "many", "db", "yes"}
  Initial <- MCInitial
  b1 = b1
  b2 = b2
  Browsers = {b1, b2}
  MaxEdits = 2
  MaxSaves = 2
  MaxFaults = 1
SYMMETRY Symmetric
\* A file that a crash left empty, or that load_config refuses, stops the program.
CHECK_DEADLOCK FALSE
INVARIANTS
  TypeOK
PROPERTIES
  UntouchedStays
  StartsAgain
