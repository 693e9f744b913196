SPECIFICATION FairSpec
CONSTANTS
  Nil = Nil
  reg = reg
  main = main
  t1 = t1
  t2 = t2
  u1 = u1
  u2 = u2
  c1 = c1
  c2 = c2
  p1 = p1
  p2 = p2
  v1 = v1
  v2 = v2
  s1 = s1
  s2 = s2
  th1 = th1
  f1 = f1
  Tables = {reg}
  Udatas = {u1}
  LClosures = {}
  CClosures = {c1}
  Protos = {}
  Upvals = {}
  Strings = {}
  Threads = {main}
  MaxStack = 1
  MainThread = main
  Registry = reg
  Globals = reg
  FixedStrings = {}
  WeakK = {}
  WeakV = {}
  HasGC = {reg}
  Ops = {"udata", "meta", "cclosure", "env"}
PROPERTIES
  GarbageFreed
