CONSTANTS
    Names <- MCNames
    Groups = {"always"}
    ChartPaths <- MCChartPaths
    Branches <- MCBranches
    ChartValues <- MCChartValues
    Upstream = Upstream
    InitialArgs <- MCArgs
    MaxCharts = 2
    Absent = Absent
    Prev = Prev
    Partial = Partial
    InitialOutput <- FreshOutput
    SkipArgs = {"true"}
SPECIFICATION Spec
\* main returns after the last chart or stops at exit(1) or an exception.
CHECK_DEADLOCK FALSE
INVARIANT
    TypeOK
    EmptyChartOnlyWhenSkipped
PROPERTIES
    RefinesChartBatch
