SPECIFICATION Spec
CONSTANTS
  Handlers = {h1, h2}
  Symbols = {qqq}
  Quantities = {1, 2}
  Quotes <- MCQuotes
  LargeOrder = 2
  SlippageEstimates = {0}
  InitialBalance = 3
  Balances = {2}
  MaxRequests = 3
INVARIANTS BooksInv OneAccount
PROPERTIES NoOverdraft
SYMMETRY Symmetry
CHECK_DEADLOCK FALSE
