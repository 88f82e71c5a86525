\* A restore on its own, against README.md:601.
SPECIFICATION Spec
CONSTANTS
  j1 = j1
  j2 = j2
  App = App
  DB = DB
  Earlier = Earlier
  Jobs <- MCOne
  Asked = {"restore"}
  MaxGen = 2
  MaxRelease = 2
PROPERTIES RestoreStartsTheStack
CHECK_DEADLOCK FALSE
