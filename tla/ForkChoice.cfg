SPECIFICATION Spec
CONSTANTS
  Hash <- Hashes
  Root <- Roots
  EXECUTE_AFTER_N_BLOCKS = 3
PROPERTIES
  ImplementsTree
