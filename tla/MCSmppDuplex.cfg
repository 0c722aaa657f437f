SPECIFICATION TimedSpec
CONSTANTS
  m1 = m1
  m2 = m2
  x = x
  y = y
  Messages <- OneMessage
  Segments <- OneSegments
  Inbounds <- TwoInbounds
  Parts <- TwoParts
  Refusals = {"error", "generic_nack"}
  SmscMay = {"unknown request", "unbind", "stall", "stray response"}
  MaxEnquiries = 1
  SeqLimit = 3
  Window = 1
  Bind = Bind
  Enquiry = Enquiry
  Reader = Reader
  None = None
INVARIANTS
  OneInboundAtRisk
PROPERTIES
  SilenceIsNoticed
CHECK_DEADLOCK FALSE
