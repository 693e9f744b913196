\* One coroutine that may return more values than its resumer has room for.
CONSTANTS
  main = main
  co1 = co1
  co2 = co2
  Threads = {main, co1}
  Main = main
  LUAI_MAXCCALLS = 3
  EXTRACCALLS = 1
  LUAI_MAXCALLS = 3
  BASIC_CI_SIZE = 1
SPECIFICATION ResultsSpec
INVARIANT InitialState
