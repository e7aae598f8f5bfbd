\* Every kind of evidence and amounts that add up, three sources against two targets; or a
\* graph of four records; or a file of small sheets, or of two pages; or seven training cases.
CONSTANTS
  NoRef = NoRef
  Shapes <- Varied
  SourceIds <- ThreeDistinct
  TargetIds <- TwoDistinct
  DateWindow = 3
  MaxGroup = 3
  GraphWindow = 1
  GraphShapes <- FourKinds
  Arrivals <- TwoArrivals
  MaxHops = 4
  MinScores = {50, 70}
  MaxSplit = 4
  Books <- SmallBooks
  MaxSheets = 2
  MaxRows = 2
  NoCell = NoCell
  BadCell = BadCell
  Pdfs <- SmallPdfs
  OcrWords <- ManyWords
  NoOcr = NoOcr
  Datasets <- SmallDatasets
  Probabilities = {20, 50, 90}
  AutoConstraint <- Strict
  ReviewConstraint <- Loose
  NoThreshold = NoThreshold
SPECIFICATION BatchSpec
INVARIANTS TypesOK UsedOnce NothingLeftToMatch NoBetterLeftOver DistinctReported BooksBalance
INVARIANTS OnePathPerRecord GroupsBalance OptimalEnds StrongPairsTaken RowsAccounted PagesConsistent
INVARIANTS SplitLeakFree ThresholdsUsable
CHECK_DEADLOCK FALSE
