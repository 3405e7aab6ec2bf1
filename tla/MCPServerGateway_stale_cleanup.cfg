CONSTANTS
    Servers = {s1}
    Slots = {r1, r2}
    Ports <- MCPorts
    DefaultPort <- MCDefaultPort
    Prefixes = {}
    NoPrefix = NoPrefix
    DefaultPrefix = DefaultPrefix
    NoSpec = NoSpec
    MaxFailures = 0
    DryRunAllowed = FALSE
    UserEdits = FALSE
SPECIFICATION Spec


PROPERTY CleanupSparesLive
