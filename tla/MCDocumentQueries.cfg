SPECIFICATION QuerySpec
CONSTANTS
  DatabaseSizes = {2, 3}
  MaxDatabase = 2
  ReadSize = 1
  Documents <- MCDocuments
  Searches <- MCSearches
  SnippetTokens = 3
  OutlineLimit = 2
  OutlineBytes = 5
  LabelLimit = 2
INVARIANTS
  OpenedIsWhole
  AnswersMatchTheQuery
  SnippetsShowTheMatch
CHECK_DEADLOCK FALSE
