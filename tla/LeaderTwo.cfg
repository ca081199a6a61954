\* Two ordinary workers.
SPECIFICATION Spec
CONSTANTS
  service = service
  shell = shell
  varRun = varRun
  userRun = userRun
  tmp = tmp
  privateTmp = privateTmp
  leaderFile = leaderFile
  leaderTmp = leaderTmp
  Autoscaler = {}
  Worker = {w1, w2}
  Forced = {}
  Path = {leaderFile, leaderTmp}
  Candidates <- LeaderCandidates
  World <- LeaderWorld
  MaxStarts <- MCStarts
CHECK_DEADLOCK FALSE
INVARIANTS
  AtMostOneLeader
