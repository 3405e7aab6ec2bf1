\* One admission request at a time, one failing API call.
CONSTANTS
    Servers = {s1}
    Slots = {r1}
    Ports <- MCPorts
    DefaultPort <- MCDefaultPort
    Prefixes = {px}
    NoPrefix = NoPrefix
    DefaultPrefix = DefaultPrefix
    NoSpec = NoSpec
    MaxFailures = 1
    DryRunAllowed = FALSE
    UserEdits = FALSE
SPECIFICATION Spec
INVARIANT TypeOK
INVARIANT CommitInSync
PROPERTY ChildLifecycle
