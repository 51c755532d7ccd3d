SPECIFICATION MCSpec
CONSTANTS
  Qty = 2
  MaxAttempts = 3
  Mids <- Quotes
  Increment = 1
  Floor = 70
INVARIANTS RejectedBoughtNothing
CHECK_DEADLOCK FALSE
