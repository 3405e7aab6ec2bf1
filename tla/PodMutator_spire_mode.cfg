CONSTANTS
    Workloads = {w1}
    SANames = {agent}
    CrName <- MCCrName
    Decisions <- MCDecisions
    MaxFailures = 0
SPECIFICATION Spec
INVARIANT SpireModeConsistent
