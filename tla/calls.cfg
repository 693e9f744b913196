\* Two coroutines that can resume each other, C calls up to 3 and two more for
\* error handlers, CallInfo arrays of 1, 2, 4 and then 8 entries; the limit is 4.
CONSTANTS
  main = main
  co1 = co1
  co2 = co2
  Threads = {main, co1, co2}
  Main = main
  LUAI_MAXCCALLS = 3
  EXTRACCALLS = 2
  LUAI_MAXCALLS = 4
  BASIC_CI_SIZE = 1
SPECIFICATION Spec
CONSTRAINT Bounded
SYMMETRY Symmetric
INVARIANTS
  TypeOK
  CCallsExact
  CallInfoMatches
  CallInfosFit
  HookFlag
  ErrorHandlers
PROPERTIES
  CoroutineSpec
