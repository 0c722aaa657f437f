SPECIFICATION FairSpec
CONSTANTS
  base = base
  aat = aat
  a = a
  b = b
  c = c
  d = d
  empty = empty
  stray = stray
  Requests <- MCRequests
  Replies <- MCReplies
  InReplyTo <- MCInReplyTo
  HasContent <- MCHasContent
  None = None
  Aat <- MCAat
INVARIANTS
  TypeOK
  BaseNoLeak
  OneAckPerRequest
  AckedReplyIsTheAnswer
  UnmatchedOnlyWhenSettled
  NoLostWakeup
PROPERTIES
  EveryRequestEnds
CHECK_DEADLOCK FALSE
