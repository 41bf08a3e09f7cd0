SPECIFICATION Spec
CONSTANTS
  startup = startup
  request = request
  operator = operator
  Free = Free
  Startup = startup
  Calls <- ThreeCalls
  HttpCalls <- OneRequest
  Lines <- TwoLineRequest
  PipeCapacity = 1
PROPERTIES
  ShutdownEnds
\* A command may be left waiting for ever: see ShutdownEnds.
CHECK_DEADLOCK FALSE
