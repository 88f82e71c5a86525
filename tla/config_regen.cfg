\* A configuration saved, against handlers.go:532.
SPECIFICATION Spec
CONSTANTS
  j1 = j1
  j2 = j2
  App = App
  DB = DB
  Earlier = Earlier
  Jobs <- MCOne
  Asked = {"save config"}
  MaxGen = 2
  MaxRelease = 2
PROPERTIES SaveConfigRegenerates
CHECK_DEADLOCK FALSE
