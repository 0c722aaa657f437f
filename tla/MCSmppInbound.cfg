SPECIFICATION Spec
CONSTANTS
  alice = alice
  bob = bob
  carol = carol
  None = None
  DataCodingCodecs <- MCDataCodingCodecs
  Overrides <- MCOverrides
  ForeignCodecs <- MCForeignCodecs
  Reports <- MCReports
  WholeLength <- MCWholeLength
  PartLength <- MCPartLength
  MaxParts = 3
  SarRollover = 65536
  HeaderLength = 3
  Originals <- MCOriginals
  Sender <- MCSender
  Text <- MCText
  Coding <- MCCoding
  Handling <- MCHandling
  MaxRepeats = 1
  MaxCrashes = 1
  ReadSizes = {14}
  Window = 2
INVARIANTS
  TypeOK
  FramesInStep
  NoPduWaits
  OnlyOriginals
  CompleteIsEmitted
PROPERTIES
  PartsMakeTheText
  OnlyUnreadableTextsRaise
CHECK_DEADLOCK FALSE
