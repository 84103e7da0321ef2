SPECIFICATION Spec
CONSTANTS
  Key = {k1, k2}
  NoKey = NoKey
SYMMETRY Symmetry
CHECK_DEADLOCK FALSE
INVARIANTS
  PromptHasFocus
  
PROPERTIES
  KeyStaysMasked
  
