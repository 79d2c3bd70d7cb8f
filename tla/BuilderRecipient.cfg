SPECIFICATION Spec
CONSTANTS
  alice = alice
  bob = bob
  one = one
  other = other
  contract = contract
  package = package
  Kinds = {"NativeTransfer"}
  Accounts <- MCAccounts
  Values <- MCValues
  Hashes <- MCHashes
  Contracts <- MCContracts
  Payments <- MCPayments
  Ids = {0, 7}
  Unset = Unset
  MaxCalls = 6
SYMMETRY Symmetric
CHECK_DEADLOCK FALSE
INVARIANT TransfersReach
