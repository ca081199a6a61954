\* The unit as deployed, and the same user's shell.
SPECIFICATION Spec
CONSTANTS
  service = service
  shell = shell
  varRun = varRun
  userRun = userRun
  tmp = tmp
  privateTmp = privateTmp
  leaderFile = leaderFile
  leaderTmp = leaderTmp
  Autoscaler = {service, shell}
  Worker = {}
  Forced = {}
  Path = {varRun, userRun, tmp, privateTmp}
  Candidates <- DeployedCandidates
  World <- DeployedWorld
  MaxStarts <- MCStarts
CHECK_DEADLOCK FALSE
INVARIANTS
  Singleton
