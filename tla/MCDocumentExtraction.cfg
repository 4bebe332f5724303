SPECIFICATION Spec
CONSTANTS
  Texts <- MCTexts
  Tables <- MCTables
  BlockCharacters = 4
  MaxTextLength = 9
  MaxOutputLength = 44
  MaxRows = 3
  MaxColumns = 2
  BadShare = 50
  Members <- MCMembers
  MaxEntries = 2
  MaxExpanded = 3
  PageSets <- MCPageSets
  Items <- MCItems
  MaxItems = 3
  MaxContainers = 3
  MaxImage = 3
  MaxImages = 6
  PdfPages <- MCPdfPages
  MaxPixels = 12
  Dpi = 200
  ManyBlocks = 2
  NativeInk = 2
  SparseInk = 6
  ColumnBin = 4
  ColumnLines = 2
  CellGap = 3
  TableLines = 2
  RuleWidth = 6
  RuleHeight = 4
INVARIANTS
  TextIsKept
  ParserLeavesNothing
  BuiltContentIsAccepted
  RegionsComeWithTheirText
  PageIsConsistent
  RasterUsesItsPixels
  LoopsAdvance
CHECK_DEADLOCK FALSE
