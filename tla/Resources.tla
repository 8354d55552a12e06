------------------------------ MODULE Resources ------------------------------
(***************************************************************************)
(* The passes over the chart's non-Deployment templates:                   *)
(* updateResources (generate-charts.py l. 134-167) with its per-kind       *)
(* helpers and escapeTemplateVariables (l. 115-131), and updateRBAC        *)
(* (l. 528-543), which injectRequirements runs after the image passes      *)
(* unless skipRBACOverrides is set.                                        *)
(*                                                                         *)
(* A chart has at most one file per kind (copyHelmChart, l. 207).          *)
(* updateResources visits the files in os.listdir order, which Python does *)
(* not define, and writes each before visiting the next; a KeyError stops  *)
(* it between two files.                                                   *)
(***************************************************************************)
EXTENDS Naturals, Sequences, SequencesExt, FiniteSets, TLC

CONSTANTS
    Variables,       \* names that may appear as {{name}} in the AddOnTemplate
    MaxEscapeList,   \* bound on the length of escape-template-variables
    Absent           \* no file of that kind in templates/

VARIABLES
    rendered,  \* the chart helm template produced (history, never changes)
    files,     \* kind -> the document of templates/<kind>.yaml, or Absent
    config,    \* the chart entry: skipRBACOverrides, auto-install, escape list
    pc         \* the pass about to run, or how the process ended

vars == <<rendered, files, config, pc>>

Kinds == {"ServiceAccount", "ClusterRole", "Role", "ClusterRoleBinding",
          "RoleBinding", "AddOnDeploymentConfig", "ClusterManagementAddOn",
          "AddOnTemplate"}
Bindings == {"ClusterRoleBinding", "RoleBinding"}
Roles    == {"ClusterRole", "Role"}

Present(f) == {k \in Kinds : f[k] # Absent}

(* Documents, on the fields the passes touch.  A namespace is "render"     *)
(* (the literal helm template produced) or "global" (the expression       *)
(* {{ .Values.global.namespace }}).  A name is "orig" or "chart" (the      *)
(* expression {{ .Values.org }}:{{ .Chart.Name }}:<chart>).  A roleRef     *)
(* names the role of the chart of its kind ("orig"), a role outside the    *)
(* chart ("external"), or the chart expression.  escaped: how often each   *)
(* occurrence of {{name}} has been wrapped (0: not yet).                   *)
ServiceAccountDoc == [hasNamespace : BOOLEAN]
RoleDoc    == [name : {"orig", "chart"}]
BindingDoc == [name : {"orig", "chart"}, refKind : Roles,
               refName : {"orig", "external", "chart"}, subjectsNs : {"render", "global"}]
ConfigDoc  == [namespace : {"render", "global"}]
\* Without a spec there is nowhere to hold configs or an installStrategy.
CmaDoc     == {d \in [hasSpec : BOOLEAN, defaultConfigNs : {"none", "render", "global"},
                      installStrategy : {"absent", "chart", "global"}] :
                 ~d.hasSpec => d.defaultConfigNs = "none" /\ d.installStrategy = "absent"}
TemplateDoc == [occurs : SUBSET Variables, escaped : [Variables -> Nat]]

DocOf(k) ==
    CASE k = "ServiceAccount"         -> ServiceAccountDoc
      [] k \in Roles                  -> RoleDoc
      [] k \in Bindings               -> BindingDoc
      [] k = "AddOnDeploymentConfig"  -> ConfigDoc
      [] k = "ClusterManagementAddOn" -> CmaDoc
      [] k = "AddOnTemplate"          -> TemplateDoc

\* What helm template renders, one file per kind (copyHelmChart, l. 201-209).
\* A ClusterRoleBinding refers to a ClusterRole; a ClusterManagementAddOn
\* without spec has neither supportedConfigs nor installStrategy.
RenderedCharts ==
    {f \in [ServiceAccount : ServiceAccountDoc \cup {Absent},
            ClusterRole : [name : {"orig"}] \cup {Absent},
            Role : [name : {"orig"}] \cup {Absent},
            ClusterRoleBinding : [name : {"orig"}, refKind : {"ClusterRole"},
                                  refName : {"orig", "external"},
                                  subjectsNs : {"render"}] \cup {Absent},
            RoleBinding : [name : {"orig"}, refKind : Roles, refName : {"orig", "external"},
                           subjectsNs : {"render"}] \cup {Absent},
            AddOnDeploymentConfig : [namespace : {"render"}] \cup {Absent},
            ClusterManagementAddOn : [hasSpec : BOOLEAN, defaultConfigNs : {"none", "render"},
                                      installStrategy : {"absent", "chart"}] \cup {Absent},
            AddOnTemplate : [occurs : SUBSET Variables,
                             escaped : {[v \in Variables |-> 0]}] \cup {Absent}] :
        /\ \A b \in Present(f) \cap Bindings :
              f[b].refName = "orig" => f[f[b].refKind] # Absent
        /\ f.ClusterManagementAddOn # Absent /\ ~f.ClusterManagementAddOn.hasSpec
              => f.ClusterManagementAddOn.defaultConfigNs = "none"
                 /\ f.ClusterManagementAddOn.installStrategy = "absent"}

Configs == [skipRBACOverrides : BOOLEAN, autoInstall : BOOLEAN,
            escapeVariables : BoundedSeq(Variables, MaxEscapeList)]

-----------------------------------------------------------------------------
(* updateResources (l. 134-167).                                           *)

(* Mutant of InstallAddonForAllClusters: the "spec" guard is dropped.    *)
InstallAddonIgnoringSpec(d) ==
    IF d.installStrategy = "absent" THEN [d EXCEPT !.installStrategy = "global"] ELSE d

\* l. 84-104: add the global placement unless there is no spec or an
\* installStrategy exists.
InstallAddonForAllClusters(d) ==
    IF d.hasSpec /\ d.installStrategy = "absent"
    THEN [d EXCEPT !.installStrategy = "global"] ELSE d

\* l. 68-81: defaultConfigs that have a namespace get the global one.
UpdateClusterManagementAddOn(d) ==
    IF d.defaultConfigNs = "render" THEN [d EXCEPT !.defaultConfigNs = "global"] ELSE d

(* Mutant of UpdateResource: ClusterRoleBinding subjects are namespaced    *)
(* even when skipRBACOverrides is set.                                     *)
UpdateResourceIgnoringSkip(k, d, cfg) ==
    CASE k = "AddOnDeploymentConfig" -> [d EXCEPT !.namespace = "global"]
      [] k = "ClusterManagementAddOn" ->
            IF cfg.autoInstall
            THEN InstallAddonForAllClusters(UpdateClusterManagementAddOn(d))
            ELSE UpdateClusterManagementAddOn(d)
      [] k = "ServiceAccount" -> [d EXCEPT !.hasNamespace = FALSE]
      [] k = "ClusterRoleBinding" -> [d EXCEPT !.subjectsNs = "global"]
      [] OTHER -> d

\* l. 146-163: the per-kind dispatch; l. 64-65, 107-113 the helpers.
UpdateResource(k, d, cfg) ==
    CASE k = "AddOnDeploymentConfig" -> [d EXCEPT !.namespace = "global"]
      [] k = "ClusterManagementAddOn" ->
            IF cfg.autoInstall
            THEN InstallAddonForAllClusters(UpdateClusterManagementAddOn(d))
            ELSE UpdateClusterManagementAddOn(d)
      [] k = "ServiceAccount" -> [d EXCEPT !.hasNamespace = FALSE]
      [] k = "ClusterRoleBinding" /\ ~cfg.skipRBACOverrides ->
            [d EXCEPT !.subjectsNs = "global"]
      [] OTHER -> d

\* l. 115-131: for each listed variable in order, every line containing
\* {{v}} has every {{v}} replaced by {{ `{{v}}` }}, which still contains
\* {{v}}: each listing of v wraps every occurrence once more.
Escape(d, list) ==
    [d EXCEPT !.escaped =
        [v \in Variables |->
            IF v \in d.occurs
            THEN d.escaped[v] + Cardinality({i \in DOMAIN list : list[i] = v})
            ELSE d.escaped[v]]]

EscapeTemplateVariables(f, list) ==
    IF f.AddOnTemplate = Absent THEN f
    ELSE [f EXCEPT !.AddOnTemplate = Escape(f.AddOnTemplate, list)]

\* The whole of updateResources.  The files are visited in os.listdir
\* order, which is unspecified, and each is written before the next is
\* read.  A ServiceAccount without metadata.namespace makes pop raise
\* KeyError (l. 108): the files visited before it stay rewritten, the
\* rest and the escaping never happen.  Otherwise every file is updated,
\* then the AddOnTemplate escaped, and injectRequirements runs updateRBAC
\* only when skipRBACOverrides is false (l. 551-552).
UpdateResources ==
    /\ pc = "updateResources"
    /\ \/ /\ files.ServiceAccount # Absent /\ ~files.ServiceAccount.hasNamespace
          /\ \E visited \in SUBSET (Present(files) \ {"ServiceAccount"}) :
                files' = [k \in Kinds |->
                            IF k \in visited THEN UpdateResource(k, files[k], config)
                            ELSE files[k]]
          /\ pc' = "crashed"
       \/ /\ ~(files.ServiceAccount # Absent /\ ~files.ServiceAccount.hasNamespace)
          /\ files' = EscapeTemplateVariables(
                         [k \in Kinds |->
                            IF k \in Present(files) THEN UpdateResource(k, files[k], config)
                            ELSE files[k]],
                         config.escapeVariables)
          /\ pc' = IF config.skipRBACOverrides THEN "done" ELSE "updateRBAC"
    /\ UNCHANGED <<rendered, config>>

-----------------------------------------------------------------------------
(* updateRBAC (l. 528-543).                                                *)

(* Mutant of RenameRbac: only ClusterRoleBinding roleRefs are re-pointed.  *)
RenameRbacClusterOnly(k, d) ==
    IF k \in Roles THEN [d EXCEPT !.name = "chart"]
    ELSE IF k = "ClusterRoleBinding" THEN [d EXCEPT !.name = "chart", !.refName = "chart"]
    ELSE [d EXCEPT !.name = "chart"]

\* l. 538-540: every role and binding gets the chart name; bindings'
\* roleRef.name gets the same expression, whatever role it named.
RenameRbac(k, d) ==
    IF k \in Roles THEN [d EXCEPT !.name = "chart"]
    ELSE [d EXCEPT !.name = "chart", !.refName = "chart"]

\* l. 530-542: the four kinds found by findTemplatesOfType, each rewritten.
UpdateRBAC ==
    /\ pc = "updateRBAC"
    /\ files' = [k \in Kinds |->
                    IF k \in Present(files) \cap (Roles \cup Bindings)
                    THEN RenameRbac(k, files[k]) ELSE files[k]]
    /\ pc' = "done"
    /\ UNCHANGED <<rendered, config>>

-----------------------------------------------------------------------------
Init ==
    /\ rendered \in RenderedCharts
    /\ files = rendered
    /\ config \in Configs
    /\ pc = "updateResources"

\* The run ends in "done" or "crashed"; nothing follows.
Next == UpdateResources \/ UpdateRBAC

Spec == Init /\ [][Next]_vars

TypeOK ==
    /\ rendered \in RenderedCharts
    /\ Present(files) = Present(rendered)
    /\ \A k \in Present(files) : files[k] \in DocOf(k)
    /\ config \in Configs
    /\ pc \in {"updateResources", "updateRBAC", "done", "crashed"}

-----------------------------------------------------------------------------
(* A binding whose roleRef named a role of the chart still names that     *)
(* role in every state: updateRBAC renames roles and re-points bindings   *)
(* in one pass (l. 538-540), and skipRBACOverrides skips both.            *)
RoleRefsResolve ==
    \A b \in Present(files) \cap Bindings :
        rendered[b].refName = "orig" => files[b].refName = files[files[b].refKind].name

(* With skipRBACOverrides the chart's roles and bindings reach the end of *)
(* the run exactly as rendered, although two passes consult the flag       *)
(* (updateResources l. 159 and injectRequirements l. 551).                 *)
SkipKeepsRbac ==
    config.skipRBACOverrides =>
        \A k \in Present(files) \cap (Roles \cup Bindings) : files[k] = rendered[k]

(* Once the run is over and the ServiceAccount has lost its namespace (so  *)
(* it is installed in the release namespace, l. 107-108), every binding    *)
(* of the chart binds subjects in {{ .Values.global.namespace }}, as       *)
(* updateClusterRoleBinding (l. 110-113) does for ClusterRoleBindings.     *)
SubjectsFollowServiceAccount ==
    (pc = "done" /\ ~config.skipRBACOverrides /\ files.ServiceAccount # Absent)
        => \A b \in Present(files) \cap Bindings : files[b].subjectsNs = "global"
=============================================================================
