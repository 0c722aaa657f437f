SPECIFICATION WFairSpec
CONSTANTS
  c1 = c1
  c2 = c2
  p1 = p1
  p2 = p2
  m1 = m1
  m2 = m2
  r1 = r1
  default = default
  file = file
  environment = environment
  option = option
  Null = Null
  Routes = Routes
  Consumers <- MCConsumers
  Publishers <- MCPublishers
  Messages <- MCMessages
  Queue <- MCQueue
  Concurrency = 2
  Setup <- MCSetup
  MayFailAt = {1}
  MaxCrashes = 1
  Requests = {r1}
  HttpBind <- MCHttpBind
  Fields <- MCFields
  Default <- MCDefault
  Values <- MCValues
  Files <- MCFiles
  Environments <- MCEnvironments
  Options <- MCOptions
  Prefix <- MCPrefix
INVARIANTS
  HandlersCanPublish
  ClosedIsDrained
  ClosedIsQuiet
PROPERTIES
  LayersOverride
  RequestsFailOnlyAtTheEnd
  ShutdownFinishesWhatItTook
  ShutdownCompletes
  EveryMessageIsSettled
CHECK_DEADLOCK FALSE
