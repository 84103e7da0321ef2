SPECIFICATION BotSpec
CONSTANTS
  Bot = {"honest", "past-auction", "double-spend", "replay", "byzantine", "nonce-skip"}
  MaxSteps = 4
  MaxLosses = 1
  MaxLimited = 2
  MaxDiscarded = 2
CHECK_DEADLOCK FALSE
INVARIANTS
  NeverAhead
  InStep
