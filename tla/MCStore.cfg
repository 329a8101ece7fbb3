CONSTANTS
  MAX_DEPTH = 3
  PACK_OBJECTS = 2
  CHANNEL = 1
  MaxLen = 5
  MaxSmall = 3
  None = None
  Open = Open
SPECIFICATION Spec
INVARIANTS
  TypeOK
  DepthsDecrease
  CapHasNoVersions
  LiveReadable
  LiveInPack
PROPERTIES
  ChainsOnlyShrink
  ImplementsObjectStore
CHECK_DEADLOCK FALSE
CONSTRAINT FewSmall
