SPECIFICATION Spec
CONSTANTS
  base = base
  aat = aat
  a = a
  b = b
  c = c
  d = d
  empty = empty
  stray = stray
  Requests <- MCRequests
  Replies <- MCReplies
  InReplyTo <- MCInReplyTo
  HasContent <- MCHasContent
  None = None
  Aat <- MCAat
INVARIANT
  NoLeak
CHECK_DEADLOCK FALSE
