SPECIFICATION FairSpec
CONSTANTS
  MaxAttempts = 3
INVARIANTS
  TypeOK
  NothingIsAbandoned
  PagesAreClosed
  OnlyClosingLeaks
PROPERTIES
  RetryBudget
  EveryCallEnds
