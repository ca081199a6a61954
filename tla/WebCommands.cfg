\* The parts that send commands, each by itself in a page.
SPECIFICATION Spec
CONSTANTS
  RrRuns = 2
  RrFlights = 2
  x1 = x1
  x2 = x2
  IsIssue = {x1, x2}
  IsFlights = 2
  PrPull = {x1, x2}
  PrDraft = {x2}
  PrFlights = 2
  QuRun = {x1, x2}
  QuWorkflow <- MCWorkflows
  None = None
  QuNone = None
  QuTimers = 2
  QuLoads = 1
  ScRun = {x1, x2}
  ScTimers = 2
  QmRun = {x1}
  QmNone = None
  QmMax = 1
  WfWorkflow = {x1, x2}
  WfRepo <- MCRepos
  WfNone = None
  FoMachine = {x1, x2}
  FoNone = None
  FoFlights = 2
  LaItem = {x1, x2}
  LaNone = None
  LaFlights = 2
  MqTab = {x1, x2}
  MqMax = 1
  TsMaxVisible = 2
  TsIds = 4
  Runner = {x1, x2}
  FtLoads = 2
  PnBot = {x1}
  PnNone = None
  PnTokens = 2
  PnFlights = 1
  FrNotes = {x1}
  FrEmpty = None
  FrFlights = 1
CHECK_DEADLOCK FALSE
INVARIANTS
  CommandTypeOK
  SingleSubmission
  NothingStaysUp
  ConsentFirst
  NoMutationLost
PROPERTIES
  AskersGetAnswers
