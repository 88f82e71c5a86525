\* One visit of one page; one environment there and one yet to be named, two
\* settings, two writes of the file, two services with two rows each, two things
\* that may be cleared away, and two rows of settings.
CONSTANTS
    EnvNames = {prod, new1}
    NewName = new1
    Settings = {s1, s2}
    Blank = s1
    MaxEdits = 2
    MaxWrites = 2
    MaxServices = 2
    MaxRows = 2
    Lefts <- SomeLefts
    Rights <- SomeRights
    Things = {x1, x2}
    MaxId = 2
SPECIFICATION Spec
INVARIANTS
    TypeOK
    PayloadComplete
    CardsTellTheTruth
PROPERTIES
    CreationEnds
    SaveKeepsTheRest
    NamesWereOffered
    SaveStaysInItsRow
CHECK_DEADLOCK FALSE
