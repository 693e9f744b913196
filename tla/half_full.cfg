SPECIFICATION Spec
CONSTANTS
  str = str
  o1 = o1
  o2 = o2
  x = x
  y = y
  Nil = Nil
  IntKeys = {1, 2, 3}
  StrKeys = {str}
  ObjKeys = {}
  Values = {x, y}
  Hash <- MCHash
  MaxBits = 2
  MaxInt = 3
  MaxPre = 1
PROPERTIES
  ArrayAtLeastHalf
