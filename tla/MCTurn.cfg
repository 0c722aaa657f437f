SPECIFICATION Spec
CONSTANTS
  m1 = m1
  m2 = m2
  alice = alice
  bob = bob
  r1 = r1
  Messages <- MCMessages
  Requests <- MCRequests
  OutboundIds <- MCRequests
  Recipients <- MCRecipients
  Kinds = {"ack"}
  MaxRetries = 1
  MaxRestarts = 1
  None = None
  Timeout = 1
  MaxNow = 3
PROPERTIES
  RepliesToTheLatestTold
  ForwardedUnlessExpired
CHECK_DEADLOCK FALSE
