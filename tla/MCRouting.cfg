SPECIFICATION Spec
CONSTANTS
  a1 = a1
  a2 = a2
  x = x
  r1 = r1
  code = code
  user = user
  Router = Router
  None = None
  Apps <- MCApps
  Mappings <- MCMappings
  DefaultApp = None
  Inbounds <- MCInbounds
  To <- MCTo
  From <- MCFrom
  Replies <- MCReplies
  InReplyTo <- MCInReplyTo
  WithUrl <- MCWithUrl
  StoreEventInfo = TRUE
  AllowExpired = TRUE
  Kinds = {"ack", "delivery_report"}
  Timeout = 1
  MaxNow = 2
  MaxRestarts = 1
INVARIANTS
  EventsComeHome
  OnlyTheBrokerLoses
PROPERTIES
  DroppedOnlyIfForgotten
  OwnUrlUnlessForgotten
  RefusedOnlyIfForgotten
CHECK_DEADLOCK FALSE
