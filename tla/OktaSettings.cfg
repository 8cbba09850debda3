SPECIFICATION Spec
CONSTANTS
  Outer = Outer
  Inner = Inner
  Watches = {w1}
  MaxLogins = 3
INVARIANTS
  TypeOK
  CacheIsWhole
PROPERTY ReturnsWhole
