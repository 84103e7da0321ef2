SPECIFICATION ViewsSpec
CONSTANTS
  PublicKey = {alice, bob}
  AuctionId = {a1, a2}
  Amount <- Amounts2
  MaxTransactions = 4
SYMMETRY Symmetry
CHECK_DEADLOCK FALSE
INVARIANTS
  AvailableIsRight
  ProfileIsRight
  SubmittedMayWin
