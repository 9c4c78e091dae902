CONSTANTS
  a1 = a1  a2 = a2  c1 = c1  c2 = c2  c3 = c3  k1 = k1  k2 = k2  none = none
  NoAccount = none
  Accounts = {a1, a2}
  Callers = {c1}
  Reloaders = {k1}
  Concurrency = {2}
  QueueCapacity = 1
  MaxVersion = 1
SYMMETRY RefreshSymmetry
SPECIFICATION Spec
INVARIANTS RotationSafe
PROPERTY DeletedStaysDeleted
