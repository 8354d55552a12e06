----------------------------- MODULE ChartLayout -----------------------------
(***************************************************************************)
(* The chart entries of charts-config.yaml, the upstream repository they   *)
(* are generated from, and the directories of the destination that        *)
(* generate-charts.py writes for them.                                     *)
(***************************************************************************)
EXTENDS Naturals, Sequences

CONSTANTS
    Names,      \* chart names (chart['name']), "" excluded
    Groups,     \* values of chart['always-or-toggle']
    ChartPaths, \* chart-path values that exist in the cloned repository
    MaxCharts   \* bound on the charts of charts-config.yaml

\* A chart entry, on what decides the course of its generation: whether
\* its chart-path exists (addCRDs l. 574-581), whether it asks for the
\* branch as chart version (l. 684), and how updateResources and
\* injectRequirements end on its templates (modelled in Resources,
\* ImageOverride and DeploymentSecurity).
Entry == [name : Names \cup {""}, group : Groups,
          chartPath : ChartPaths \cup {"invalid"}, updateChartVersion : BOOLEAN,
          passes : {"ok", "resourcesFail", "injectFail"}]

\* What a chart-path of the clone holds: crds/ (l. 583) and Chart.yaml
\* (copyHelmChart l. 185).
Clone == [crds : BOOLEAN, chartYaml : BOOLEAN]

\* l. 588: <destination>/<name>/crds; l. 681: <destination>/charts/<group>/<name>.
CrdDir(n)      == <<"crds", n>>
ChartDir(g, n) == <<"charts", g, n>>

Paths == {CrdDir(n) : n \in Names} \cup {ChartDir(g, n) : g \in Groups, n \in Names}

\* The directories a run writes for entry e, given the clone.
PathsOf(e, clone) ==
    {ChartDir(e.group, e.name)}
      \cup (IF e.chartPath \in ChartPaths /\ clone[e.chartPath].crds
            THEN {CrdDir(e.name)} ELSE {})
=============================================================================
