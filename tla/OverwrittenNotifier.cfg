SPECIFICATION Spec
CONSTANTS
  r1 = r1
  r2 = r2
  t1 = t1
  t2 = t2
  Hash <- FewHashes
  Root <- OneRoot
  EXECUTE_AFTER_N_BLOCKS = 2
  Request = {r1, r2}
  Tx = {t1, t2}
  AccountTx = {t1}
  Asks <- SameTx
  Elsewhere = {}
  MAX_TRANSACTION_POOL_SIZE = 2
INVARIANTS
  WaitersNotified
