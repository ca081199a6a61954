\* The parts that load, show and settle, each by itself in a page.
SPECIFICATION Spec
CONSTANTS
  MaxVersion = 2
  MaxFlight = 2
  MaxFaults = 2
  Nothing = Nothing
  Blank = Blank
  a = a
  b = b
  None = None
  EvPage = {a, b}
  EvNode = {a}
  EvMax = 2
  EvLimit = 1
  EvTotal = 3
  EvFlights = 1
  Machine = {a}
  Aliased = {}
  AlMaxClock = 2
  SnoozeFor = 1
  NoAck = None
  McNodeDoc <- MCNodeDocs
  McRunnerDoc <- MCRunnerDocs
  McAlias <- MCAlias
  McLower <- MCLower
  McLoads = 2
  AnItem = {a, b}
  AnQueries = {a, b}
  AnNone = None
  AnFlights = 2
  RpRow = {a, b}
  RpNone = None
  RpFlights = 2
  SvNode = {a, b}
  SvNone = None
  SvFlights = 2
  ChTab = {a}
  ChKept = 2
  ChMax = 2
  ShCall = {a, b}
  ShTab = {"overview", "workflows", "push-settings"}
  ShRenewals = 1
  CrProbe = {a}
  CrNone = None
  CrReady = {a}
  CrFlights = 2
  CtProbe = {a, b}
  CtNone = None
  CtFlights = 2
CHECK_DEADLOCK FALSE
INVARIANTS
  ViewTypeOK
  NoIdleWait
  LocksHold
  ShownIsTrue
  ServicesConsent
PROPERTIES
  FeedsCatchUp
