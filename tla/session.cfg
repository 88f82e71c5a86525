CONSTANTS
    Tabs = {t1, t2}
SPECIFICATION Spec
INVARIANTS
    TypeOK
    RenewalSurvives
PROPERTIES
    KeepsPromise
    StartupEnds
    ExpiredSessionEnds
    SignOutReachesEveryTab
CHECK_DEADLOCK FALSE
