SPECIFICATION FairSpec
CONSTANTS
  alice = alice
  miner = miner
  a1 = a1
  a2 = a2
  PublicKey = {alice, miner}
  AuctionId = {a1, a2}
  Nonce <- Nonces
  Time <- Times
  Miner = miner
  Signed <- AllSigned
  Id <- Ids
  Submitted <- SameNonce
  ForeignBlocks <- Openings
  MAX_TRANSACTION_POOL_SIZE = 2
  EXECUTE_AFTER_N_BLOCKS = 1
  MIN_TX_INTERVAL = 1
  MaxTime = 1
  MaxSubmissions = 2
  MaxForeign = 1
CHECK_DEADLOCK FALSE
PROPERTIES
  NodeStopsExpired
  EventuallyClosed
INVARIANTS
  TypeOK
  PoolBounded
  PendingNoncesDistinct
