SPECIFICATION Spec
CONSTANTS
  Hash <- Hashes
  Root <- OneRoot
  EXECUTE_AFTER_N_BLOCKS = 3
INVARIANTS
  AncestorsStored
  
  
  ExecutedByHeight
PROPERTIES
  ConfirmedStable
  ImplementsLog
  
