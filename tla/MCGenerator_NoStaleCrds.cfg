CONSTANTS
    Names <- MCNames
    Groups = {"always"}
    ChartPaths <- MCChartPaths
    Branches <- MCBranches
    ChartValues <- MCChartValues
    Upstream = Upstream
    InitialArgs <- MCArgs
    MaxCharts = 2
    Absent = Absent
    Prev = Prev
    Partial = Partial
    InitialOutput <- PreviousOutput
    SkipArgs <- MCSkipArgs
SPECIFICATION Spec
\* main returns after the last chart or stops at exit(1) or an exception.
CHECK_DEADLOCK FALSE
INVARIANT NoStaleCrds
