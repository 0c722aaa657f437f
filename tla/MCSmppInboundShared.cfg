SPECIFICATION Spec
CONSTANTS
  alice = alice
  bob = bob
  carol = carol
  None = None
  DataCodingCodecs <- MCDataCodingCodecs
  Overrides <- MCOverrides
  ForeignCodecs <- MCForeignCodecs
  Reports <- MCReports
  WholeLength <- MCWholeLength
  PartLength <- MCPartLength
  MaxParts = 3
  SarRollover = 65536
  HeaderLength = 3
  Originals <- SharedOriginals
  Sender <- SharedSender
  Text <- SharedText
  Coding <- SharedCoding
  Handling <- SharedHandling
  MaxRepeats = 0
  MaxCrashes = 0
  ReadSizes = {14}
  Window = 2
INVARIANT
  OnlyOriginals
CHECK_DEADLOCK FALSE
