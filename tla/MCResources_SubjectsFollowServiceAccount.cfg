CONSTANTS
    Variables <- MCVariables
    MaxEscapeList = 2
    Absent = Absent
SPECIFICATION Spec
CHECK_DEADLOCK FALSE
INVARIANT SubjectsFollowServiceAccount
