CONSTANTS
  Keys = {k1}
  Rate = 2
  Interval = 3
  MaxNow = 7
  Nil = Nil
SPECIFICATION Spec
INVARIANT AtMostRate
