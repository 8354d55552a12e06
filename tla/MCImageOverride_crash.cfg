CONSTANTS
    ctrl = ctrl
    agent = agent
    other = other
    Repos <- MCRepos
    Keys <- MCKeys
    Mapping <- MCMapping
    Placeholder = Placeholder
    MaxContainers = 1
INIT Init
NEXT Next
CHECK_DEADLOCK FALSE
INVARIANT NoUncaughtException
