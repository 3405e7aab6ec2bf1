CONSTANTS
    Servers = {s1}
    Slots = {r1}
    Ports <- MCPorts
    DefaultPort <- MCDefaultPort
    Prefixes = {}
    NoPrefix = NoPrefix
    DefaultPrefix = DefaultPrefix
    NoSpec = NoSpec
    MaxFailures = 0
    DryRunAllowed = TRUE
    UserEdits = FALSE
SPECIFICATION Spec
PROPERTY DryRunHasNoSideEffects
