------------------------------ MODULE Generator ------------------------------
(***************************************************************************)
(* main of generate-charts.py (l. 631-697): the command-line flags, then   *)
(* for each chart entry chartConfigAcceptable, addCRDs, copyHelmChart,     *)
(* updateResources and, unless --skipOverrides, injectRequirements, in     *)
(* that order, each writing into the destination directory.                *)
(*                                                                         *)
(* A directory's content is the entry that wrote it and how far its       *)
(* generation got.  updateResources and injectRequirements are taken as   *)
(* whole steps ending "ok" or failing as the entry says; how they fail is  *)
(* modelled in Resources, ImageOverride and DeploymentSecurity.  Cloning   *)
(* (l. 659-664) only writes tmp/, never the destination, and is left out; *)
(* so is the outer loop over repositories, which only nests the charts.    *)
(***************************************************************************)
EXTENDS ChartLayout, SequencesExt, TLC

CONSTANTS
    Absent,         \* a directory that does not exist; also an absent flag
    Prev,           \* a directory holding an earlier run's output
    Partial,        \* (the abstract specification's part-written directory)
    Upstream,       \* the version and values.yaml the upstream chart comes with
    InitialOutput,  \* the destinations a run may start from
    InitialArgs,    \* the command lines a run is started with
    SkipArgs,       \* strings that may follow --skipOverrides
    Branches,       \* branch names of the repository, as sequences of characters
    ChartValues     \* the sets of names chart-values/ may hold a values.yaml for

VARIABLES
    entries,   \* charts-config.yaml
    clone,     \* chart-path -> crds/ and Chart.yaml of the clone
    branch,    \* repo['branch'], or Absent
    specific,  \* chart names with a chart-values/<name>/values.yaml
    args,      \* the command line
    before,    \* the destination as the run found it (history)
    tmp,       \* chart-path -> version and values.yaml in the clone under tmp/
    fs,        \* directory -> Absent, Prev or the content this run wrote
    i,         \* the chart entry being processed
    pc         \* the step of main about to run, or how the process ended

vars == <<entries, clone, branch, specific, args, before, tmp, fs, i, pc>>

\* How far the generation of a chart directory got: an empty templates/
\* only, the copied chart, after updateResources, part-rewritten by a pass
\* that failed, or after injectRequirements.  version and values are those
\* of the Chart.yaml and values.yaml helm template rendered it with.
Stages == {"templates", "copied", "resources", "partial", "done"}
Digits == {"1", "2"}
Chars == Digits \cup {"P", ".", "x"}   \* "P" is the text "backplane-"
Version == Seq(Chars) \cup {Upstream}
Content == [entry : 1..MaxCharts, stage : Stages, leftover : BOOLEAN,
            version : Version, values : Names \cup {Upstream}]
CrdContent == [entry : 1..MaxCharts, stage : {"crds"}, leftover : BOOLEAN]
TmpChart == [version : Version, values : Names \cup {Upstream}]

Args == [destination : BOOLEAN, lint : BOOLEAN, skipOverrides : SkipArgs \cup {Absent}]

\* argparse type=bool (l. 635) applies bool() to the string given.
SkipOverrides(a) == a.skipOverrides # Absent /\ a.skipOverrides # ""

Written(c) == c \notin {Absent, Prev}

\* l. 609-628: the branch without "backplane-", if it is decimal once its
\* dots are dropped; "" (the empty sequence) otherwise.
GetChartVersion(updateChartVersion, b) ==
    IF ~updateChartVersion \/ b = Absent THEN <<>>
    ELSE LET version == SelectSeq(b, LAMBDA c : c # "P")
             digits  == SelectSeq(version, LAMBDA c : c # ".")
         IN IF digits # <<>> /\ \A k \in 1..Len(digits) : digits[k] \in Digits
            THEN version ELSE <<>>

-----------------------------------------------------------------------------
\* What no step of main changes.
env == <<entries, clone, branch, specific, args, before>>

\* l. 645-647: a destination is required unless linting.
ParseArgs ==
    /\ pc = "args"
    /\ IF ~args.lint /\ ~args.destination
       THEN pc' = "exited"
       ELSE pc' = IF entries = <<>> THEN "finished" ELSE "checkConfig"
    /\ UNCHANGED <<env, tmp, fs, i>>

(* Mutant of Advance: the loop ends one entry late.                       *)
AdvancePastEnd ==
    /\ i' = i + 1
    /\ pc' = IF i > Len(entries) THEN "finished" ELSE "checkConfig"

\* The for loop over repo["charts"] (l. 667) moves to the next entry.
Advance ==
    /\ i' = i + 1
    /\ pc' = IF i = Len(entries) THEN "finished" ELSE "checkConfig"

\* l. 602-607, 667-670: an entry with an empty name ends the run.
CheckConfig ==
    /\ pc = "checkConfig" /\ i <= Len(entries)
    /\ pc' = IF entries[i].name = "" THEN "exited" ELSE "addCRDs"
    /\ UNCHANGED <<env, tmp, fs, i>>

\* l. 573-599: exit(1) without a valid chart-path; return without crds/
\* (before the old <destination>/<name>/crds is removed); otherwise the
\* directory is replaced by the chart's CRDs.  os.path.join(None, ...)
\* raises TypeError when there is no destination.
AddCRDs ==
    /\ pc = "addCRDs"
    /\ LET e == entries[i] IN
         CASE e.chartPath = "invalid" -> pc' = "exited" /\ UNCHANGED fs
           [] ~clone[e.chartPath].crds -> pc' = "copy" /\ UNCHANGED fs
           [] ~args.destination -> pc' = "crashed" /\ UNCHANGED fs
           [] OTHER -> /\ fs' = [fs EXCEPT ![CrdDir(e.name)] =
                                   [entry |-> i, stage |-> "crds", leftover |-> FALSE]]
                       /\ pc' = "copy"
    /\ UNCHANGED <<env, tmp, i>>

\* l. 189-200: the chart version, when there is one, is written into the
\* clone's Chart.yaml and chart-values/<name>/values.yaml, when there is
\* one, over the clone's values.yaml; both stay in tmp/ for later charts.
UpdateClone(e, t) ==
    LET v == GetChartVersion(e.updateChartVersion, branch) IN
    [version |-> IF v # <<>> THEN v ELSE t.version,
     values  |-> IF e.name \in specific THEN e.name ELSE t.values]

\* helm template renders a chart whose Chart.yaml version is a semantic
\* version (one to three dot-separated numbers); otherwise it prints an
\* error, which l. 201-206 parse as YAML and index by 'kind': an uncaught
\* exception after the chart directory was replaced by an empty one.
HelmAccepts(v) ==
    \/ v = Upstream
    \/ /\ v # <<>> /\ v[1] \in Digits /\ v[Len(v)] \in Digits
       /\ \A k \in 1..Len(v) : v[k] \in Digits \cup {"."}
       /\ \A k \in 1..Len(v) - 1 : ~(v[k] = "." /\ v[k + 1] = ".")
       /\ Len(SelectSeq(v, LAMBDA c : c = ".")) <= 2

Rendered(e, t) == clone[e.chartPath].chartYaml /\ HelmAccepts(t.version)

(* Mutant of CopyHelmChart: the old chart directory is not removed.       *)
CopyHelmChartKeepingOld(e, old, t) ==
    [entry |-> i, stage |-> IF Rendered(e, t) THEN "copied" ELSE "templates",
     leftover |-> old # Absent, version |-> t.version, values |-> t.values]

\* l. 171-219: the chart directory is removed and templates/ created; with
\* no Chart.yaml the function returns there, otherwise the chart is
\* rendered from the clone t and its Chart.yaml copied in.
CopyHelmChart(e, old, t) ==
    [entry |-> i, stage |-> IF Rendered(e, t) THEN "copied" ELSE "templates",
     leftover |-> FALSE, version |-> t.version, values |-> t.values]

\* l. 680-687: the chart path is joined to the destination first; helm
\* template fails on a version it rejects.
CopyChart ==
    /\ pc = "copy"
    /\ LET e == entries[i]
           d == ChartDir(e.group, e.name)
           t == IF clone[e.chartPath].chartYaml THEN UpdateClone(e, tmp[e.chartPath])
                ELSE tmp[e.chartPath]
       IN IF ~args.destination
          THEN pc' = "crashed" /\ UNCHANGED <<tmp, fs>>
          ELSE /\ tmp' = [tmp EXCEPT ![e.chartPath] = t]
               /\ fs' = [fs EXCEPT ![d] = CopyHelmChart(e, fs[d], t)]
               /\ pc' = IF clone[e.chartPath].chartYaml /\ ~HelmAccepts(t.version)
                        THEN "crashed" ELSE "updateResources"
    /\ UNCHANGED <<env, i>>

\* l. 689-692: updateResources finds nothing to do in an empty templates/;
\* then injectRequirements runs unless --skipOverrides.
UpdateResources ==
    /\ pc = "updateResources"
    /\ LET e == entries[i]
           p == ChartDir(e.group, e.name)
       IN \/ /\ fs[p].stage = "copied" /\ e.passes = "resourcesFail"
             /\ fs' = [fs EXCEPT ![p].stage = "partial"]
             /\ pc' = "crashed"
             /\ UNCHANGED i
          \/ /\ fs[p].stage = "templates" \/ e.passes # "resourcesFail"
             /\ fs' = IF fs[p].stage = "copied"
                      THEN [fs EXCEPT ![p].stage = "resources"] ELSE fs
             /\ IF SkipOverrides(args) THEN Advance
                ELSE pc' = "inject" /\ UNCHANGED i
    /\ UNCHANGED <<env, tmp>>

(* Mutant of InjectRequirements: an empty chart passes as if it had a    *)
(* values.yaml and nothing to rewrite.                                    *)
InjectRequirementsOnEmptyChart ==
    /\ pc = "inject"
    /\ LET e == entries[i]
           p == ChartDir(e.group, e.name)
       IN CASE fs[p].stage = "templates" -> Advance /\ UNCHANGED fs
            [] e.passes = "injectFail" ->
                  /\ fs' = [fs EXCEPT ![p].stage = "partial"]
                  /\ pc' = "failed"
                  /\ UNCHANGED i
            [] OTHER -> fs' = [fs EXCEPT ![p].stage = "done"] /\ Advance
    /\ UNCHANGED <<env, tmp>>

\* l. 692-696 and injectRequirements (l. 546-555): without the values.yaml
\* copyHelmChart skipped, the first pass's open raises FileNotFoundError.
InjectRequirements ==
    /\ pc = "inject"
    /\ LET e == entries[i]
           p == ChartDir(e.group, e.name)
       IN CASE fs[p].stage = "templates" -> pc' = "crashed" /\ UNCHANGED <<fs, i>>
            [] e.passes = "injectFail" ->
                  /\ fs' = [fs EXCEPT ![p].stage = "partial"]
                  /\ pc' = "failed"
                  /\ UNCHANGED i
            [] OTHER -> fs' = [fs EXCEPT ![p].stage = "done"] /\ Advance
    /\ UNCHANGED <<env, tmp>>

-----------------------------------------------------------------------------
\* l. 649-664: the repository is cloned afresh into tmp/; its branch, the
\* chart-values/ of this repository and the command line are given.
Init ==
    /\ entries \in BoundedSeq(Entry, MaxCharts)
    /\ clone \in [ChartPaths -> Clone]
    /\ branch \in Branches \cup {Absent}
    /\ specific \in ChartValues
    /\ args \in InitialArgs
    /\ tmp = [p \in ChartPaths |-> [version |-> Upstream, values |-> Upstream]]
    /\ fs \in InitialOutput
    /\ before = fs
    /\ i = 1
    /\ pc = "args"

Next ==
    \/ ParseArgs \/ CheckConfig \/ AddCRDs \/ CopyChart
    \/ UpdateResources \/ InjectRequirements

\* main runs in one thread with no waits: it keeps taking steps until it
\* returns or exits.
Spec == Init /\ [][Next]_vars /\ WF_vars(Next)

InEntry == {"checkConfig", "addCRDs", "copy", "updateResources", "inject"}

TypeOK ==
    /\ entries \in BoundedSeq(Entry, MaxCharts)
    /\ args \in Args
    /\ tmp \in [ChartPaths -> TmpChart]
    /\ fs \in [Paths -> Content \cup CrdContent \cup {Absent, Prev}]
    /\ pc \in InEntry \cup {"args"} \cup {"finished", "exited", "crashed", "failed"}
    /\ i \in 1..Len(entries) + 1
    /\ pc \in InEntry => i \in 1..Len(entries)

-----------------------------------------------------------------------------
(* The run implements ChartBatch: the directory of an entry already passed *)
(* holds that entry's complete output, anything else this run wrote is    *)
(* part-written, and the run ends "finished" only by passing every entry. *)
OutputOf(c) ==
    IF Written(c) THEN (IF c.entry < i /\ ~c.leftover THEN c.entry ELSE Partial) ELSE c

Batch == INSTANCE ChartBatch WITH
    out <- [p \in Paths |-> OutputOf(fs[p])],
    next <- i,
    status <- CASE pc = "finished" -> "finished"
                [] pc \in {"exited", "crashed", "failed"} -> "failed"
                [] OTHER -> "running"

RefinesChartBatch == Batch!Spec

(* A chart left without injectRequirements (its directory stays at        *)
(* "resources" and the run moves on) is one the user asked to skip with a *)
(* true --skipOverrides (l. 635, 692).                                     *)
SkipOnlyWhenAsked ==
    \A p \in Paths :
        (Written(fs[p]) /\ fs[p].stage = "resources" /\ fs[p].entry < i)
            => args.skipOverrides = "true"

(* A run that finishes leaves no CRDs of an earlier run under the name of *)
(* a chart it generated (addCRDs l. 583-590 replaces the directory).      *)
NoStaleCrds ==
    pc = "finished" =>
        \A e \in 1..Len(entries) : fs[CrdDir(entries[e].name)] # Prev

(* Chart entries are independent: the Chart.yaml and values.yaml a chart   *)
(* is rendered with are the ones of its own entry, the branch version only *)
(* if the entry sets updateChartVersion, and its chart-values/ file or the *)
(* upstream values.yaml (copyHelmChart l. 189-200, which edits the shared  *)
(* clone under tmp/).                                                      *)
RequestedVersion(e) ==
    LET v == GetChartVersion(e.updateChartVersion, branch) IN
    IF v # <<>> THEN v ELSE Upstream

RequestedValues(e) == IF e.name \in specific THEN e.name ELSE Upstream

RenderedFromOwnEntry ==
    \A p \in Paths :
        (Written(fs[p]) /\ fs[p].stage # "crds" /\ fs[p].stage # "templates")
            => /\ fs[p].version = RequestedVersion(entries[fs[p].entry])
               /\ fs[p].values = RequestedValues(entries[fs[p].entry])

(* A chart copyHelmChart left without Chart.yaml (an empty templates/ and *)
(* no values.yaml, l. 185-187) is passed over only under --skipOverrides; *)
(* otherwise the image pass of injectRequirements stops the run on it.    *)
EmptyChartOnlyWhenSkipped ==
    \A p \in Paths :
        (Written(fs[p]) /\ fs[p].stage = "templates" /\ fs[p].entry < i)
            => SkipOverrides(args)

=============================================================================
