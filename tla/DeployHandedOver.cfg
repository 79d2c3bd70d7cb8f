SPECIFICATION Spec
CONSTANTS
  amount = amount
  low = low
  high = high
  alice = alice
  ArgNames <- MCArgNames
  Values <- MCValues
  Signers <- MCSigners
  MaxDeploys = 3
  KeepsOld = FALSE
SYMMETRY Symmetric
INVARIANTS HashesStayMatched
PROPERTIES NewDeployIsValid SignedNeverChanges ValidStaysValid
