\* Three requests or tasks, each of any kind.
CONSTANTS
  Request = {r1, r2, r3}
  NoDoc = NoDoc
  Object <- MCObject
  Path <- MCPath
  Doc <- MCDoc
  Update <- MCUpdate
  DefaultConfig <- DefaultTeamConfig
  Merge <- DeepMerge
  Encrypt <- EncryptPayload
  Decrypt <- DecryptPayload
SYMMETRY MCSymmetry
SPECIFICATION Spec
INVARIANTS TypeOK
PROPERTIES UpdatesOverlay KeepsPromise
\* Every request may have ended.
CHECK_DEADLOCK FALSE
