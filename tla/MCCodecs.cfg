CONSTANTS
  Size = 10
  Operations <- AllOperations
  Replies <- OddReplies
  Bytes = {0, 1}
  Zero = 0
  MaxString = 5
  DataBytes <- AllBytes
  Flips <- SomeFlips
  NextFlips <- SomeNextFlips
  MaxData = 1
  Bauds <- SomeBauds
  Foreign <- SomeForeign
SPECIFICATION Spec
INVARIANTS
  ReadsReturnTheTable
  
  
  NumbersTravel
  TableIsThePolynomial
  FramesAreToldApart
  OldFormatDoesNotStay
  
PROPERTY WritesLand
CHECK_DEADLOCK FALSE
