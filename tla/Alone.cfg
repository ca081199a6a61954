\* One worker whose loads may fail; two issues, the older one locked, two panelists
\* who may change their minds; dialogs, menu, palette, microphone and stored choices.
\* A page that was left, its recognisers over, really stops.
SPECIFICATION AloneSpec
CONSTANTS
  Proc = {w1}
  alice = alice
  bob = bob
  quota = 2
  Principal = {alice, bob}
  Runner = {r1, r2}
  LinearBot = linearbot
  Anyone = anyone
  Perm = perm
  MaxRunners <- MCMaxRunners
  Duration = {1, 2}
  ReadFaults = TRUE
  MaxInode = 3
  MaxTime = 3
  Issue = {i1}
  PvIssue = {1, 2}
  PvLocked = {1}
  PvAgent = {a, b}
  PvSays <- MCSays
  PvOpinions = 3
  PvEvents = 2
  PvFaults = 1
  OvParts = 3
  CpCommands = 3
  CpMax = 2
  VcMax = 3
  ApTab = {a, b}
  ApNone = None
  ApOld <- MCOld
  ApNew <- MCNew
  ThTheme <- MCThemes
  ThAccent = {a}
  ThNone = None
  SwBuilds = 2
  PsTopic = {a}
  PsFlights = 2
  a = a
  b = b
  None = None
CHECK_DEADLOCK FALSE
INVARIANTS
  AloneTypeOK
  GrantsBacked
  
PROPERTIES
  ImplementsService
  PanelBriefs
  WidgetsHold
