CONSTANTS
  Users = {u1}
  Conns = {c1}
  UserLimit = 1
  ConnLimit = 2
  UploadLimit = 1
  UserWindow = 2
  ConnWindow = 6
  UploadWindow = 1
  TicksPerSecond = 2
  Chunks <- MCChunks
  MaxChunks = 3
  MaxBody = 2
  MaxBatch = 2
SPECIFICATION Spec
INVARIANTS
  BudgetKept
  WindowsHonest
  StreamFaithful
  ClientReleased
  ErrorsClassified
  BodyBounded
  StatusProven
PROPERTIES
  TestAnswered
  LimitReopens
CHECK_DEADLOCK FALSE
