SPECIFICATION Spec
CONSTANTS
  NumGroups = 2
  MaxDisks = 4
  MaxLimit = 2
  Apis = {"cluster"}
INVARIANTS
  PagesListAll
