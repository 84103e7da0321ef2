SPECIFICATION FairSpec
CONSTANTS
  n1 = n1
  n2 = n2
  n3 = n3
  Node = {n1, n2}
  Hash <- ThreeHashes
  Root <- OneRoot
  EXECUTE_AFTER_N_BLOCKS = 1
  Mined <- TwoOne
  Mesh <- OneWay
  FirstPeer <- Other
  Observed = n2
  MaxLosses = 2
  MaxFailures = 1
CHECK_DEADLOCK FALSE
INVARIANTS
  TypeOK
  NoOrphanInReply
  SameHistory
PROPERTIES
  EventuallyAgree
  ImplementsStore
