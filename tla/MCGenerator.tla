----------------------------- MODULE MCGenerator -----------------------------
EXTENDS Generator

\* Two chart names, so that two entries may share or not share directories.
MCNames == {"a", "b"}

\* One chart-path: two charts of the repository generated from the same
\* directory of the clone.
MCChartPaths == {"p"}

\* backplane-1.2 (a release), backplane-1. (accepted, then rejected by helm)
\* and a branch that is no release; and, by Absent, no branch.
MCBranches == {<<"P", "1", ".", "2">>, <<"P", "1", ".">>, <<"x">>}

\* chart-values/ without, or with, a values.yaml for chart "a".
MCChartValues == {{}, {"a"}}

\* A destination the run creates from nothing, and one holding a complete
\* earlier output in every directory.
FreshOutput    == {[p \in Paths |-> Absent]}
PreviousOutput == {[p \in Paths |-> Prev]}

\* --lint is only read at l. 645: with a destination a --lint run is the
\* run without it, so those command lines are left out.
MCArgs == {a \in Args : a.lint => ~a.destination}

\* --skipOverrides true, --skipOverrides false (and the flag left out).
MCSkipArgs == {"true", "false"}
=============================================================================
