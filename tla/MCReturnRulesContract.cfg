SPECIFICATION RulesSpec
CONSTANTS
  NULL = NULL
  Promises = {NULL, 0, 3, 7, 10}
  Versions = {NULL, v1}
  MaxDay = 11
INVARIANT
  DraftClientTakesEveryReview
