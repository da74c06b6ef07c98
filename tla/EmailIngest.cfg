SPECIFICATION FairSpec
CONSTANTS
  f1 = f1
  f2 = f2
  FolderNames <- TwoFolders
  Refused <- OneRefused
  Renewed = {f1}
  Limit = 1
  MaxUid = 3
  Volume <- OneAndThree
  MaxValidity = 2
  MaxFaults = 1
INVARIANTS
  TypeOK
  CheckpointCovers
  CutShortAtMost
PROPERTIES
  PollsOnlyNewer
  MailIsProcessed
