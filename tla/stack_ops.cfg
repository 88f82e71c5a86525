\* Any two commands on one environment, every overlap of their steps.
SPECIFICATION Spec
CONSTANTS
  j1 = j1
  j2 = j2
  App = App
  DB = DB
  Earlier = Earlier
  Jobs <- MCTwo
  Asked = {"start", "stop", "down", "restart", "ps", "update", "refresh", "save config", "edit compose", "backup", "backup db", "backup files", "restore"}
  MaxGen = 2
  MaxRelease = 2
SYMMETRY Symmetry
INVARIANTS TypeOK
PROPERTIES OnlyRestoreLosesData LoneUpdateKeepsRunState LoneBackupIsCurrent RestoredVolumesMatch
CHECK_DEADLOCK FALSE
