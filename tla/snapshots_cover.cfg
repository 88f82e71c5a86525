\* A backup, then a restore of it, against README.md:574-600.
SPECIFICATION Spec
CONSTANTS
  j1 = j1
  j2 = j2
  App = App
  DB = DB
  Earlier = Earlier
  Jobs <- MCTwo
  Asked = {"backup", "restore"}
  MaxGen = 2
  MaxRelease = 2
PROPERTIES SnapshotsCoverVolumes
CHECK_DEADLOCK FALSE
