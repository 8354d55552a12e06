# TLA+ models of the backplane-operator chart generator

The code under verification is `src/hack/bundle-automation/generate-charts.py`
(698 lines, one process, single-threaded). It turns the `helm template`
output of an upstream operator chart into a parameterised chart of this
repository: images become `{{ .Values.global.imageOverrides.<key> }}`
indirections, RBAC names are normalised, Deployments are hardened, and
Helm flow control is spliced into the YAML text.

There are no threads, no network and no retries. What makes the script hard
to test is the *pipeline*: nine passes read and rewrite the same files on
disk one after the other, each pass reads what the previous one wrote, the
first fatal condition (`exit(1)` or an uncaught `KeyError`) stops the run
between two writes, and the last pass edits serialised YAML as text, relying
on markers ("sentinels") that the structured passes left behind. The models
explore every combination of chart contents, image mappings and options a
small bound allows, and every point at which the run can stop.

## 1. Inventory

| Component (spec name) | Code | State it keeps | Operations |
|---|---|---|---|
| ImageReferenceParser | `parse_image_ref`, `split_at` (l. 21-61, 557-571) | none (pure) | right-to-left split on `@`, `:`, `/`, then first `/` |
| ImageKeyResolver | `imageKeyMapping[...]` + `exit(1)` (l. 260-264, 294-298, 500-504) | none | lookup, fail closed |
| ManifestStore | `findTemplatesOfType`, the `yaml.safe_load`/`yaml.dump` around every pass | files of `templates/`, `values.yaml` | load by kind, save |
| ImageOverrideRewriter | `fixImageReferences`, `fixEnvVarImageReferences`, `fixImageReferencesForAddonTemplate` (l. 238-322, 478-524) | Deployment containers (image, pull policy, args, env), AddOnTemplate nested Deployments, `global.imageOverrides` | three passes, each: rewrite files, then add keys to values.yaml |
| RBACNormalizer | `updateRBAC` (l. 528-543), `updateClusterRoleBinding` (l. 110-113) | names and roleRefs of the four RBAC kinds | rename, re-point roleRef, namespace subjects |
| Other kind updates | `updateResources` (l. 134-167), `updateAddOnDeploymentConfig`, `updateClusterManagementAddOn`, `installAddonForAllClusters`, `updateServiceAccount` | namespace fields, installStrategy | per-kind structured edits |
| SecurityPolicyInjector | `updateDeployments` (l. 406-471) | pod/container security fields, affinity, sentinels | one structured pass, then the two text passes per Deployment |
| TemplateControlInjector | `injectHelmFlowControl`, `insertFlowControlIfAround`, `addPullSecretOverride` (l. 326-403) | the Deployment file as lines | replace sentinel lines by blocks; wrap the pod seccomp profile in a version gate |
| TemplateVariableEscaper | `escapeTemplateVariables` (l. 115-131) | AddOnTemplate file as lines | wrap `{{var}}` as ``{{ `{{var}}` }}`` |
| Chart scaffolding | `copyHelmChart` (l. 171-219), `addCRDs` (l. 573-600), `getChartVersion` (l. 609-628) | destination chart directory, `crds/` | render, split into one file per kind, copy values |
| Orchestrator | `main`, `injectRequirements`, `chartConfigAcceptable` (l. 546-555, 602-607, 631-695) | CLI flags, per-chart config | clone, then per chart: CRDs, copy, update, inject |

Interaction is only through files: every pass opens, mutates and rewrites a
file, so a later pass sees exactly what the earlier one wrote; `exit(1)` and
uncaught exceptions leave whatever was written so far.

### Behaviours that are hard to test

* **A run stopped between two writes.** `fixImageReferences` writes the
  Deployment and values.yaml, then `fixEnvVarImageReferences` may `exit(1)`;
  each pass writes its file(s) before values.yaml. A container without
  `args` raises `KeyError` in `fixImageReferences` (l. 303), an `_IMAGE`
  variable given by `valueFrom` raises one at l. 259.
* **Cross-pass bookkeeping.** Each override key written into a template must
  reach `global.imageOverrides` of values.yaml in the same pass; three passes
  share that file. The AddOnTemplate pass resets its key list per file and
  returns early on a template without workload (l. 489-494). That cannot
  lose keys: `copyHelmChart` leaves at most one AddOnTemplate file.
* **Parsing at its edges.** `parse_image_ref` looks for the last `:` before
  it has split off the path, so `registry:5000/repo` (port, no tag) parses as
  repository `registry`, tag `5000/repo`.
* **Two-phase sentinel protocol.** `updateDeployments` writes `''`/`{}`
  sentinels, `injectHelmFlowControl` must find every one of them in the dumped
  text; `env: []` is not a sentinel, any line containing `replicas:` is one.
* **Seccomp.** The pod profile is gated on OpenShift >= 4.11 by a textual
  wrap guarded by the previous line; a container-level `RuntimeDefault` is
  deleted whatever the pod-level profile is.
* **Re-running a text pass** on its own output: only the seccomp gate is
  guarded.
* **Configuration conversions.** `--skipOverrides` is `type=bool`, so any
  non-empty string (including `false`) is true; `--lint` is never consulted.
* **Shared clone.** `copyHelmChart` writes the chart version and the chart's
  values.yaml into the clone under `tmp/`, where later charts of the same
  chart-path read them.
* **Unchecked helm output.** The exit status of `helm template` is not
  checked. Its error text, for example on a version `getChartVersion`
  accepted but helm rejects, is parsed as the chart's manifests, and the
  run crashes after the chart directory has been emptied.

### Properties that make each component correct

* Parser: on every reference of the grammar
  `[registry[:port]/][namespace/]repo[:tag][@digest]` the parse yields the
  components (spec §8).
* Image rewriting: on disk, at every point where the run may stop, every
  override key a template refers to is declared in values.yaml; the run stops
  early only for an unmapped image (`UnmappedImageError`, spec §4.2, §7);
  when it completes no raw image is left in a rewritten field.
* Security: after the run every Deployment is hardened (spec §8), every
  container's effective seccomp profile is the one it had if non-default, and
  RuntimeDefault otherwise, never unset; every pod RuntimeDefault profile is
  gated exactly once, even when the text pass is re-run (spec §8).
* RBAC: a binding that resolved to a role of the chart still resolves.
* Escaper: every occurrence is escaped once per listing of its variable (a
  variable is listed once in the configurations the code is run with).
* Scaffolding/orchestrator: every rendered resource reaches `templates/`;
  CRDs land in the chart; `--skipOverrides=false` applies overrides.

## 2. Plan

Modules, in the order they are built (most important behaviour first):

1. `ImageRef` - the parser as operators, one per code block, and a reference
   definition from the grammar. `MCImageRef` enumerates grammar references.
2. `ImageOverride` - the three image passes over one Deployment file, one
   AddOnTemplate file and values.yaml, with every stop point (unmapped image,
   missing `args`, `valueFrom`). `MCImageOverride`.
3. `DeploymentSecurity` - `updateDeployments` on the structured document, the
   serialisation of the fields the text pass looks at into lines, and the text
   passes `injectHelmFlowControl` / `addPullSecretOverride`.
4. `Resources` - `updateResources` for the RBAC/ServiceAccount/addon kinds,
   `updateRBAC`, `escapeTemplateVariables`.
5. `ChartLayout`, `ChartBatch`, `Generator` - `main` over the chart entries
   of charts-config.yaml: flags, `chartConfigAcceptable`, `addCRDs`,
   `copyHelmChart`, then `updateResources` and `injectRequirements` taken as
   whole steps, over the directories of the destination. `ChartBatch` is the
   abstract promise of a run, and `Generator` is checked to refine it.

The passes of steps 2-4 are composed in `Generator` only by their outcome
(complete, or stopped part-way); their detail stays in their own modules.

Runs and bounds are listed in section 4 as they are added.

## 3. Modules

### ImageRef
`ImageRef.tla` translates `parse_image_ref` block by block:
`StripDigest` (l. 25-31), `StripTag` (l. 32-37), `SplitRepository`
(l. 38-45), `SplitAt` (l. 557-571) and `RepositoryAndSuffix` (l. 54-58);
the actions `ParseDigest`, `ParseTag`, `ParseRepository` and `ParseRegistry`
run them in the function's order, so every intermediate `remaining_ref` is a
state.
Strings are sequences of one-character strings; `rfind` is
`SelectLastInSeq` (a 1-based index, so Python's `pos > 0` is `index > 1`).
`Expected(c)` is the reference definition: the components a reference built
from the grammar has, with registry-and-namespace defaulting to `localhost`.
`MCImageRef` builds every reference from small component sets (registry none /
`r` / `r:5`, namespace none / `n` / `n/m`, tag, digest `s:d` containing a
colon as real digests do) and parses it in steps.

### ImageOverride
`ImageOverride.tla` models the three image passes of `injectRequirements`
(l. 548-550). State: `deployment` (the containers of the one Deployment file),
`addon` (the one AddOnTemplate file: absent, without workload, without
manifests, or with manifests), `values` (the keys of
`global.imageOverrides`) and `pc`. An image string is reduced to the
repository `parse_image_ref` finds in it, and an override expression to its
key. Each pass is one action: `FixImageReferences` (l. 278-323),
`FixEnvVarImageReferences` (l. 238-275) and
`FixImageReferencesForAddonTemplate` (l. 478-525). Each action loads its file,
rewrites it and updates values.yaml (`DeclareKeys`: the placeholder is removed
and the new keys added). Its alternative outcomes are the code's stop points:
- `exit(1)` on an unmapped repository, giving `pc = "exited"`;
- a `KeyError` on a container without `args` (l. 303) or an `_IMAGE` variable
  given by `valueFrom` (l. 259), giving `pc = "crashed"`.

In each case the file of that pass is not written. `FirstFailure` picks the
failure the loop meets first, in container order.

`copyHelmChart` writes each rendered document to `<kind>.yaml` (l. 207). A
chart therefore has at most one file per kind, and the loops over
`findTemplatesOfType` run at most once. This is why bugs that need two files
of one kind are listed as latent hazards and not modelled.

### DeploymentSecurity
`DeploymentSecurity.tla` models `updateDeployments` (l. 406-471) on one
Deployment. `UpdateDeployments` raises `KeyError` when there is no namespace
(l. 416). Otherwise it applies `Harden` (l. 420-466, with `HardenContainer`
per container) and dumps the document. The dump is modelled as the lines
the text passes look at, one token each (`Serialize`, `ContainerLines`). It
keeps the order `yaml.dump` produces: keys are sorted, so a container item
starts at `args` and `- env:` cannot start a container that got this far.

`InjectHelmFlowControl` (l. 331-387) maps each line to the block that
replaces it (`InjectLine`). The seccomp gate looks at the previous line
(`GateSeccomp`, `PrevIndex`); Python's `lines[i-1]` at `i = 0` reads the last
line. `AddPullSecretOverride` (l. 389-403) runs only with the
`pullSecretOverride` inclusion. Both are steps `updateDeployments` always
takes after the dump.

`rendered` and `config` are history: the Deployment the image passes left, and
the chart's exclusions and inclusions.

### Resources
`Resources.tla` models two functions, each as one action:
- `updateResources` (l. 134-167) is `UpdateResources`;
- `updateRBAC` (l. 528-543) is `UpdateRBAC`, taken only when
  `skipRBACOverrides` is false (injectRequirements l. 551-552).

`files` maps each kind to its document, or to `Absent`. A document keeps only
the fields these passes read or write:
- namespaces are either "render" (the literal helm template produced) or
  "global" (`{{ .Values.global.namespace }}`);
- role and binding names are either "orig" or "chart" (the composite
  expression);
- a roleRef is "orig" (the chart's role of that kind), "external" or "chart".

`updateResources` visits files in `os.listdir` order, which is unspecified,
and writes each one before reading the next. When a ServiceAccount has no
namespace, `pop` raises `KeyError` (l. 108). The action then picks any subset
of the other files as those visited first: they stay rewritten, and the
escaping never runs. `escapeTemplateVariables` (l. 115-131) is modelled by what
it does to each occurrence of `{{v}}`. The wrapped form still contains
`{{v}}`, so each listing of `v` adds one more wrapping (`Escape`). The image
passes and `updateDeployments`, which run between `updateResources` and
`updateRBAC` or after it, touch none of these kinds. They are left to their own
modules.

### ChartLayout, ChartBatch and Generator
`ChartLayout.tla` holds what both specifications share. A chart entry
(`Entry`) keeps what decides the course of its generation:
- its name (empty fails `chartConfigAcceptable`) and `always-or-toggle`
  group;
- its `chart-path`, or `invalid` (`addCRDs` exits then, l. 574-581);
- `updateChartVersion` (l. 684);
- whether `updateResources` and `injectRequirements` end normally on it.

What a chart-path of the clone holds (`Clone`) is separate from the entry:
whether it has `crds/` (l. 583) and `Chart.yaml` (l. 185). Every chart of a
repository that names the same chart-path reads the same directory.

Each entry writes two directories: `CrdDir` (`<destination>/<name>/crds`,
l. 588) and `ChartDir` (`<destination>/charts/<group>/<name>`, l. 681).

`ChartBatch.tla` is the abstract specification: what a run promises for the
destination, given the clone. Entries are generated one at a time, in order. `Touch` may leave
a directory of the current entry part-written. `Complete` gives all of that
entry's directories its output and moves on. `Fail` ends the run where it is,
possibly half-way through writing one of the current entry's directories.
Nothing outside the current entry's directories changes.

`Generator.tla` translates `main` (l. 631-697). Its state is:
- `clone`, `branch`, `specific`: the repository as cloned, its branch, and
  the chart names with a `chart-values/<name>/values.yaml`; none changes;
- `tmp`: for each chart-path of the clone under `tmp/`, the version in its
  Chart.yaml and whose values.yaml it holds, which `copyHelmChart` edits;
- `args`: the flags, with `--skipOverrides` as the string argparse gets;
- `fs`: each directory, as `Absent`, `Prev` (an earlier run's output) or the
  content this run wrote, which records the entry and how far it got;
- `i`: the loop index;
- `pc`: the step about to run, or how the process ended;
- `before`: the destination as found, kept as history.

Each step is one action. `ParseArgs` is l. 633-647. `CheckConfig` is
l. 602-607 and 667-670. `AddCRDs` is l. 573-599, every exit included.
`CopyChart` and `CopyHelmChart` are l. 171-219 and 680-687: with a
Chart.yaml, `UpdateClone` (l. 189-200) writes the version of
`GetChartVersion` (l. 609-628) and the chart's own values.yaml into the
clone, and the chart is rendered from what the clone then holds. Branch
names are sequences of characters, with `P` standing for `backplane-`, so
`str.replace` is `SelectSeq`. `HelmAccepts` is what `helm template`
accepts as a chart version: one to three dot-separated numbers. On any
other version, helm prints an error. Lines 201-206 parse that text as YAML
and index it by `kind`, so the run crashes there. By then the chart
directory has been emptied and the clone edited.
`UpdateResources` and `InjectRequirements` are l. 689-696. Without a
destination, `os.path.join(None, ...)` raises TypeError, and the model
counts that as a crash.

The refinement mapping (`Batch == INSTANCE ChartBatch WITH ...`) sends:
- a directory written by an entry already passed to that entry;
- any other directory this run wrote to `Partial`;
- `exited`, `crashed` and `failed` to the abstract `failed`.

## 4. Runs

| run | cfg | expect | what it shows |
|-----|-----|--------|---------------|
| imageref | MCImageRef.cfg | pass (180 states) | The parser recovers registry, namespace, repository, tag and digest of every grammar reference except a registry port without a tag. |
| imageref_grammar | MCImageRef_grammar.cfg | violation | `r:5/p` parses with repository `r` and tag `5/p`. |
| image_override | MCImageOverride.cfg | pass (304k states) | Every override key on disk is declared in values.yaml at every stop point, and no raw image survives a complete run. |
| image_override_crash | MCImageOverride_crash.cfg | violation | A container without `args` ends the run on an uncaught KeyError. |
| deployment_security | MCDeploymentSecurity.cfg | pass (10k states) | Hardening keeps each container's effective seccomp profile when the pod has RuntimeDefault. The seccomp gate is applied exactly once, including on a re-run. Each container with a recognised env gets its proxy env block and at most one pull-secret block. |
| seccomp_runtime_default | MCDeploymentSecurity_ContainerKeepsRuntimeDefault.cfg | violation | With a Localhost pod profile, a container's RuntimeDefault profile is deleted. |
| resources | MCResources.cfg | pass (155k states) | In every state, including after a crash part-way through the files, a binding to a role of the chart still resolves, and `skipRBACOverrides` leaves roles and bindings as rendered. |
| rolebinding_subjects | MCResources_SubjectsFollowServiceAccount.cfg | violation | RoleBinding subjects keep the rendered namespace while the ServiceAccount loses its namespace. |
| generator | MCGenerator.cfg | pass (907k states) | `main` refines `ChartBatch`: each entry writes only its own directories and replaces them. At every stop, the charts already passed are complete and only the current one is part-written. A chart without Chart.yaml is passed over only under `--skipOverrides`. |
| skip_overrides_false | MCGenerator_SkipOnlyWhenAsked.cfg | violation | `--skipOverrides false` skips `injectRequirements` for every chart. |
| stale_crds | MCGenerator_NoStaleCrds.cfg | violation | A re-run over an earlier output keeps the CRDs of a chart that no longer has `crds/`. |
| rendered_from_own_entry | MCGenerator_RenderedFromOwnEntry.cfg | violation | A second chart of the same chart-path is rendered with the first chart's chart-values file, or its Chart.yaml version, left in the clone under `tmp/`. |

Bounds, and why they are enough:
- **ImageRef.** Every combination of the grammar's optional parts is
  enumerated. Each separator (`:`, `/`, `@`) occurs in every position the
  grammar allows: in the port, the namespace path, the tag and the digest.
- **ImageOverride.** Two containers let the second one fail after the first
  was rewritten. Three repositories cover a mapped controller image, a mapped
  agent image and an unmapped one. Every kind of `args`, env variable and
  addon file is included.
- **DeploymentSecurity.** Two containers give two seccomp profiles and env
  shapes side by side. Every pod and container profile is enumerated, and so
  is every env shape and every exclusion and inclusion set.
- **Resources.** Every chart of at most one file per kind is enumerated, with
  every config. A single variable listed up to twice is enough: the escaper
  handles variables independently.
- **Generator.** There are up to two entries, with two names and one group.
  They share one chart-path, the case in which charts interact through
  `tmp/`; charts with distinct chart-paths only touch their own part of the
  clone. Every combination of entry fields and clone contents is enumerated,
  with three branches and none: a release `backplane-1.2`, `backplane-1.`
  (accepted by `getChartVersion`, rejected by helm) and a branch that is no release. `chart-values/` holds a file
  for no chart or for chart `a`. `--lint` with a destination is left out:
  `--lint` is read only at l. 645, so that run is the run without it. The
  pass run gives `--skipOverrides` as `true` or not at all (`false` is the
  same to the code); the violation runs also give `false`. Two entries let the second one stop
  after the first completed, and let a repeated name rewrite a directory
  written by the same run. `stale_crds` starts from an earlier run's output
  (`PreviousOutput`); the other runs start from an empty destination.

## 5. Fairness
`Generator` assumes `WF_vars(Next)`. `main` runs in one thread and never
waits: every step it can take, it takes, until it returns or exits. Under
that fairness, `RefinesChartBatch` also checks the fairness conjunct of
`ChartBatch` (`WF` of completing, failing or finishing): a run does not
stop half-way without an error. No separate termination property is
stated, because `main` is a `for` loop over a finite list. The component
modules have no liveness property. Every run sets `CHECK_DEADLOCK FALSE`,
because the process really does end: after its last pass, or at `exit(1)`
or an exception.

## 6. Not modelled
- The outer loop over repositories: each repository is cloned afresh into
  its own `tmp/<repo_name>`, so charts of different repositories do not
  share a clone. `Generator` models the charts of one repository.
- The KeyError of a chart entry missing a key (`updateChartVersion`,
  `imageMappings`, ...) is not an outcome of its own. It would stop the
  run between two steps of one entry, for example after `addCRDs` at l. 684.
  `ChartBatch` allows such a stop, but `Generator` does not take it.
- `copyHelmChart` collapses documents of the same kind into one file
  (l. 207). The component modules take at most one file per kind as their
  input domain.
- `helm template`, `git clone` and the file copies are I/O. `Generator` keeps
  only their effect on the destination directories.
- `Generator` takes the passes of `injectRequirements` as whole steps, either
  ending normally or stopping part-way. Their detail is in ImageOverride,
  DeploymentSecurity and Resources, which are not instantiated in
  `Generator`.
- Image strings are not built character by character outside `ImageRef`.
  Image strings, names and namespaces are abstracted as described above.
- Logging and the YAML formatting of lines no rule matches are left out.
