SPECIFICATION Spec
CONSTANTS
  Nil = Nil
  reg = reg
  main = main
  t1 = t1
  t2 = t2
  u1 = u1
  u2 = u2
  c1 = c1
  c2 = c2
  p1 = p1
  p2 = p2
  v1 = v1
  v2 = v2
  s1 = s1
  s2 = s2
  th1 = th1
  f1 = f1
  Tables = {reg}
  Udatas = {u1}
  LClosures = {}
  CClosures = {}
  Protos = {}
  Upvals = {}
  Strings = {s1}
  Threads = {main}
  MaxStack = 1
  MainThread = main
  Registry = reg
  Globals = reg
  FixedStrings = {}
  WeakK = {reg}
  WeakV = {reg}
  HasGC = {reg}
  Ops = {"array", "node", "meta", "string", "udata", "fullgc"}
INVARIANTS
  TypeOK
  IInv
  NoDangling
  GrayLists
  SweepPending
PROPERTIES
  FinalizeOnce
  NoSilentFree
