SPECIFICATION Spec
CONSTANTS
  NULL = NULL
  Names <- MCNames
  Hash <- MCHash
  HT_INITIAL_CAP = 4
  Texts <- MCTexts
  Host <- MCHost
  Workloads <- MCWorkloads
INVARIANTS
  TypeOK
  TablesSound
PROPERTIES
  Implements
  HidesOuter
  ReadonlyKept
