\* A page whose words are read well and whose tables are read in part.
CONSTANTS
  NoRef = NoRef
  Shapes <- Varied
  SourceIds <- ThreeDistinct
  TargetIds <- TwoDistinct
  DateWindow = 3
  MaxGroup = 3
  GraphWindow = 1
  GraphShapes <- FourKinds
  Arrivals <- TwoArrivals
  MaxHops = 4
  MinScores = {50, 70}
  MaxSplit = 4
  Books <- SmallBooks
  MaxSheets = 2
  MaxRows = 2
  NoCell = NoCell
  BadCell = BadCell
  Pdfs <- SmallPdfs
  OcrWords <- ManyWords
  NoOcr = NoOcr
  Datasets <- SmallDatasets
  Probabilities = {20, 50, 90}
  AutoConstraint <- Strict
  ReviewConstraint <- Loose
  NoThreshold = NoThreshold
SPECIFICATION BatchSpec
INVARIANT LostTablesFallBack
CHECK_DEADLOCK FALSE
