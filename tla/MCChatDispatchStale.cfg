SPECIFICATION Spec
CONSTANTS
  Alice = Alice
  Group = Group
  Sessions <- AllSessions
  PublicSessions <- GroupSessions
  MaxUpdates = 4
PROPERTIES
  DeletedEntryNotInUse
