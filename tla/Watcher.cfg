SPECIFICATION FairSpec
CONSTANTS
  Op = {o1}
  MaxHeight = 4
  MaxForks = 2
  MaxSubmit = 2
  HistorySize = 2
  None = None
INVARIANTS TypeOK NoHeightSkipped CreditedOnce
PROPERTIES NoFalseReorg 
CHECK_DEADLOCK FALSE
