SPECIFICATION QuerySpec
CONSTANTS
  DatabaseSizes = {2}
  MaxDatabase = 2
  ReadSize = 1
  Documents <- MCDocuments
  Searches <- LongSearches
  SnippetTokens = 2
  OutlineLimit = 2
  OutlineBytes = 5
  LabelLimit = 2
INVARIANTS
  RefusedHaveNoTerms
CHECK_DEADLOCK FALSE
