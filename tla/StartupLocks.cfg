\* Two autoscalers and two workers on a host, one more worker forced to lead; every
\* combination of files that can be opened and locked.  Start limits stop the host.
SPECIFICATION FairSpec
CONSTANTS
  service = service
  shell = shell
  varRun = varRun
  userRun = userRun
  tmp = tmp
  privateTmp = privateTmp
  leaderFile = leaderFile
  leaderTmp = leaderTmp
  Autoscaler = {a1, a2}
  Worker = {w1, w2, w3}
  Forced = {w3}
  Path = {userRun, tmp, leaderFile}
  Candidates <- MCCandidates
  World <- MCWorld
  MaxStarts <- MCStarts
CHECK_DEADLOCK FALSE
INVARIANTS
  TypeOK
  Singleton
PROPERTIES
  ExitJustified
  HostCovered
  LoopsCovered
