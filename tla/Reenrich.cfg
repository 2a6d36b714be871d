SPECIFICATION FairSpec
CONSTANTS
  d1 = d1
  d2 = d2
  c1 = c1
  c2 = c2
  Docs = {d1, d2}
  Sourced = {d1}
  Calls = {c1, c2}
  MaxVersions = 2
  MaxCrashes = 1
  NoJob = NoJob
  NoDoc = NoDoc
INVARIANTS
  
  NoPhantomJob
PROPERTIES
  ResetRefused
  ConflictLifts
