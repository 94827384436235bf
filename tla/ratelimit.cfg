CONSTANTS
  Keys = {k1, k2}
  Rate = 2
  Interval = 2
  MaxNow = 7
  Nil = Nil
SPECIFICATION Spec
SYMMETRY Interchangeable
INVARIANTS TypeOK WindowBound
PROPERTIES NoFalseDenial RemainingAgrees CleanupUnobservable ImplementsWindows
