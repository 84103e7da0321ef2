SPECIFICATION FairReaderSpec
CONSTANTS
  Hash <- Hashes
  Root <- OneRoot
  Opening <- Openings
  EXECUTE_AFTER_N_BLOCKS = 2
CHECK_DEADLOCK FALSE
INVARIANTS
  WalkedIsConfirmed
  NothingMissed
  ConfirmedAuctionFound

  
