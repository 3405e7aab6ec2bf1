CONSTANTS
    Workloads = {w1}
    SANames = {agent}
    CrName <- MCCrName
    MaxFailures = 1
    DefaultsChoices <- MCDefaultsChoices
    OptOutChoices <- MCOptOutChoices
    SpireChoices <- MCSpireChoices
    GateChoices <- MCGateChoices
SPECIFICATION Spec
INVARIANT TypeOK MountsHaveVolumes
PROPERTY TemplateSpec
