SPECIFICATION AnySpec
CONSTANTS
  str = str
  o1 = o1
  o2 = o2
  x = x
  y = y
  Nil = Nil
  IntKeys = {1, 2, 3}
  StrKeys = {str}
  ObjKeys = {}
  Values = {x, y}
  Hash <- MCHash
  MaxBits = 2
  MaxInt = 3
  MaxPre = 1
  Texts = {"w", "x", "y", "z"}
  TextHash <- MCTextHash
  FixedTexts = {"w"}
  MINSTRTABSIZE = 1
  MaxStrtSize = 2
  SortInputs <- MCSortInputs
  UnorderedInputs <- MCUnorderedInputs
  RefValues = {"u", "v"}
  MaxRef = 5
  LUAL_BUFFERSIZE = 4
  LIMIT = 4
  MaxAdded = 14
  Modules = {"m", "o"}
  MaxRunning = 3
  MaxStarts = 4
  MaxAgain = 1
  Subjects <- MCSubjects
  Pieces <- MCPieces
  MaxPieces = 3
  LUA_MAXCAPTURES = 3
  Replacements <- MCReplacements
INVARIANTS
  TypeOK
  BrentChains
  RoomAfterRehash
  Border
  ArrayOptimal
  Interned
  SweepComplete
  SortSafe
  SortsByLess
  RefsKept
  BufferContents
  RequireOnce
PROPERTIES
  MapSpec
  MatchesFirstWay
  GsubFollowsGmatch
  SortEnds
CHECK_DEADLOCK FALSE
