CONSTANTS
    ctrl = ctrl
    agent = agent
    other = other
    Repos <- MCRepos
    Keys <- MCKeys
    Mapping <- MCMapping
    Placeholder = Placeholder
    MaxContainers = 2
INIT Init
NEXT Next
\* The process ends after the last pass, by exit(1) or by an exception.
CHECK_DEADLOCK FALSE
INVARIANTS
    TypeOK
    OverridesDeclared
    NoRawImageLeft
