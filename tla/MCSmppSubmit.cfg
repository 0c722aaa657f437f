SPECIFICATION AnsweredSpec
CONSTANTS
  m1 = m1
  m2 = m2
  x = x
  y = y
  Messages <- MCMessages
  Segments <- MCSegments
  Inbounds <- MCInbounds
  Parts <- MCParts
  Refusals = {"error"}
  SmscMay = {}
  MaxEnquiries = 0
  SeqLimit = 4
  Window = 2
  Bind = Bind
  Enquiry = Enquiry
  Reader = Reader
  None = None
INVARIANTS
  EachAwaitsItsOwnNumber
  OwnResponse
  OutcomeIsTrue
  AckBeforeReport
PROPERTIES
  EveryReportIsForwarded
  EverySubmitEnds
  EveryInboundIsPublished
CHECK_DEADLOCK FALSE
