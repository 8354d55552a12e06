CONSTANTS
    MaxContainers = 2
INIT Init
NEXT Next
\* updateDeployments is the last step of the chart, or it raises KeyError.
CHECK_DEADLOCK FALSE
INVARIANT ContainerKeepsRuntimeDefault
