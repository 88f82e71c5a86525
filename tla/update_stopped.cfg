\* An update and a stop, against deploy.sh:53.
SPECIFICATION Spec
CONSTANTS
  j1 = j1
  j2 = j2
  App = App
  DB = DB
  Earlier = Earlier
  Jobs <- MCTwo
  Asked = {"stop", "update"}
  MaxGen = 2
  MaxRelease = 2
PROPERTIES StoppedStaysStopped
CHECK_DEADLOCK FALSE
