\* One environment: the cards of several share nothing but the stream.  Two
\* commands of a card at a time.  One view of each kind, two targets, four
\* sockets.  Two variables; one change in the editor, and one run of env-gen.sh
\* or write by another.
CONSTANTS
    Envs = {e1}
    MaxJobs = 2
    Targets = {e1, e2}
    MaxSockets = 4
    Secret = POSTGRES_PASSWORD
    Prefixed = APP_PROD_DB_PASSWORD
    MaxOthers = 1
    MaxChanges = 1
SPECIFICATION Spec
INVARIANTS
    TypeOK
    LogShowsItsTarget
    OneStream
    LightIsTrue
PROPERTIES
    CardCatchesUp
    BadgeCatchesUp
    NobodyWaitsForEver
    OthersVariablesKept
CHECK_DEADLOCK FALSE
