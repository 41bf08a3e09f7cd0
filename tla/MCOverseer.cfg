SPECIFICATION Spec
CONSTANTS
  startup = startup
  request = request
  operator = operator
  Free = Free
  Startup = startup
  Calls <- ThreeCalls
  HttpCalls <- OneRequest
  Lines <- TwoLineRequest
  PipeCapacity = 1
INVARIANTS
  TypeOK
  SerialConsole
  NoOrphanJava
PROPERTIES
  CallsReturn
  JavaEnds
  DeathNoticed
\* A command may be left waiting for ever: see ShutdownEnds.
CHECK_DEADLOCK FALSE
