SPECIFICATION Spec
CONSTANTS
  t1 = t1
  t2 = t2
  c1 = c1
  c2 = c2
  Transactions <- MCTransactions
  Callers <- MCCallers
  GivenVersions = {1, 2}
SYMMETRY Symmetric
INVARIANTS NeverRefused ReadYourWrites KnownIsFound
