SPECIFICATION Spec
CONSTANTS
  Jobs = {j1, j2}
  NoJob = none
  BodyChunks = 1
  Faults = {"absent", "open", "reopen", "write", "store", "header", "remove", "rename"}
  MaxKept = 2
SYMMETRY AlikeJobs
INVARIANTS
  TypeOK
  PrintableIsVerified
  HaveTracksCard
  NoStrandedFile
PROPERTIES
  SlotSpec
