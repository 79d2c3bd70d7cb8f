SPECIFICATION Spec
CONSTANTS
  c1 = c1
  Values <- MCValues
  Callers <- MCCallers
  MaxBlocks = 4
INVARIANTS ReadsWhatIsNamed AuctionServed
PROPERTY ImplementsLatestRead
