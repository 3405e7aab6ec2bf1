\* One admission request at a time; users delete and create children.
CONSTANTS
    Servers = {s1}
    Slots = {r1}
    Ports <- MCPorts
    DefaultPort <- MCDefaultPort
    Prefixes = {px}
    NoPrefix = NoPrefix
    DefaultPrefix = DefaultPrefix
    NoSpec = NoSpec
    MaxFailures = 0
    DryRunAllowed = FALSE
    UserEdits = TRUE
SPECIFICATION Spec
PROPERTY ForeignNeverAdopted
