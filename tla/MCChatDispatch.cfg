SPECIFICATION Spec
CONSTANTS
  Alice = Alice
  Group = Group
  Sessions <- AllSessions
  PublicSessions <- GroupSessions
  MaxUpdates = 4
INVARIANTS
  TypeOK
  NoLockCycle
  SessionSerial
  ConversationKept
  DoneMeansQuiet
  NoLeakedHandler
PROPERTIES
  EveryUpdateHandled
  ShutdownCompletes
