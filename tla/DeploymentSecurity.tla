-------------------------- MODULE DeploymentSecurity --------------------------
(***************************************************************************)
(* updateDeployments (generate-charts.py l. 406-471) on the chart's one     *)
(* Deployment file, and the two text passes it ends with:                  *)
(* injectHelmFlowControl (l. 331-387, with insertFlowControlIfAround       *)
(* l. 326-328) and addPullSecretOverride (l. 389-403).                     *)
(*                                                                         *)
(* The structured pass is modelled on the fields it reads or sets.  The    *)
(* file it writes with yaml.dump (sorted keys, block style) is modelled as *)
(* the sequence of its lines that the text passes look at, one token per   *)
(* line; every other line is left out, since no rule matches it.  A text   *)
(* pass maps each line to the lines replacing it; writing the list and      *)
(* reading it back with readlines flattens the result.                     *)
(***************************************************************************)
EXTENDS Naturals, Sequences, SequencesExt, FiniteSets, TLC

CONSTANTS MaxContainers   \* bound on the containers of the Deployment

VARIABLES
    rendered,  \* the Deployment as the image passes left it (never changes)
    config,    \* the chart's exclusions and inclusions (never change)
    doc,       \* the Deployment as updateDeployments leaves it
    text,      \* templates/deployment.yaml as lines, once dumped
    pc         \* the step about to run, or how the process ended

vars == <<rendered, config, doc, text, pc>>

Profiles == {"none", "RuntimeDefault", "Localhost"}   \* seccompProfile.type

(* container.env: "absent" (no env key), "emptyDict" ({}), "emptyList"     *)
(* ([]), "entries" (a non-empty list).                                     *)
Container == [env : {"absent", "emptyDict", "emptyList", "entries"},
              hardened : BOOLEAN,    \* no escalation, drop ALL, unprivileged, non-root
              readOnly : BOOLEAN,    \* readOnlyRootFilesystem: true
              seccomp : Profiles]
Deployment == [namespace : BOOLEAN,  \* metadata.namespace is present
               hostOff : BOOLEAN,    \* hostNetwork, hostPID, hostIPC all false
               runAsNonRoot : BOOLEAN,
               seccomp : Profiles,   \* pod-level seccompProfile
               sentinels : BOOLEAN,  \* nodeSelector, imagePullSecrets, tolerations = ''
               containers : Seq(Container)]

RenderedContainer == [env : {"absent", "emptyDict", "emptyList", "entries"},
                      hardened : {FALSE}, readOnly : {FALSE}, seccomp : Profiles]
RenderedDeployment ==
    [namespace : BOOLEAN, hostOff : {FALSE}, runAsNonRoot : {FALSE},
     seccomp : Profiles, sentinels : {FALSE},
     containers : BoundedSeq(RenderedContainer, MaxContainers) \ {<<>>}]

Configs == [exclusions : SUBSET {"readOnlyRootFilesystem"},
            inclusions : SUBSET {"pullSecretOverride"}]

-----------------------------------------------------------------------------
(* updateDeployments, structured part (l. 413-466).                        *)

(* Mutant of HardenContainer: every container-level profile is deleted.    *)
HardenContainerDroppingAllSeccomp(c, exclusions) ==
    [c EXCEPT !.env = IF c.env = "absent" THEN "emptyDict" ELSE c.env,
              !.hardened = TRUE,
              !.readOnly = IF "readOnlyRootFilesystem" \in exclusions
                           THEN c.readOnly ELSE TRUE,
              !.seccomp = "none"]

\* l. 445-463: env defaults to {}, the fixed hardening, readOnlyRootFilesystem
\* unless excluded, and a container-level RuntimeDefault profile is deleted
\* whatever the pod-level profile is.
HardenContainer(c, exclusions) ==
    [c EXCEPT !.env = IF c.env = "absent" THEN "emptyDict" ELSE c.env,
              !.hardened = TRUE,
              !.readOnly = IF "readOnlyRootFilesystem" \in exclusions
                           THEN c.readOnly ELSE TRUE,
              !.seccomp = IF c.seccomp = "RuntimeDefault" THEN "none" ELSE c.seccomp]

(* Mutant of Harden: the container loop stops one short.                  *)
HardenSkippingLast(d, exclusions) ==
    [d EXCEPT !.namespace = FALSE, !.hostOff = TRUE, !.runAsNonRoot = TRUE,
              !.sentinels = TRUE,
              !.seccomp = IF d.seccomp = "none" THEN "RuntimeDefault" ELSE d.seccomp,
              !.containers = [i \in 1..Len(d.containers) - 1 |->
                                 HardenContainer(d.containers[i], exclusions)]]

\* l. 416-443: namespace popped, replicas templated, anti-affinity and its
\* label set to the Deployment's name, sentinels, host namespaces off,
\* runAsNonRoot, and a pod-level RuntimeDefault profile unless one exists.
Harden(d, exclusions) ==
    [d EXCEPT !.namespace = FALSE, !.hostOff = TRUE, !.runAsNonRoot = TRUE,
              !.sentinels = TRUE,
              !.seccomp = IF d.seccomp = "none" THEN "RuntimeDefault" ELSE d.seccomp,
              !.containers = [i \in DOMAIN d.containers |->
                                 HardenContainer(d.containers[i], exclusions)]]

-----------------------------------------------------------------------------
(* yaml.dump of the hardened Deployment (l. 465-466), as line tokens.      *)
(* Keys are sorted: spec.replicas comes first; in a container "args" (the  *)
(* "- " item line) precedes env, and securityContext's runAsNonRoot        *)
(* precedes seccompProfile, whose localhostProfile precedes type; in the   *)
(* pod spec containers precede imagePullSecrets, nodeSelector,             *)
(* securityContext and tolerations.                                        *)

SeccompLines(p) ==
    CASE p = "none"           -> <<>>
      [] p = "RuntimeDefault" -> <<"seccompHdr", "typeRuntimeDefault">>
      [] p = "Localhost"      -> <<"seccompHdr", "localhostProfile", "typeLocalhost">>

EnvLines(e) ==
    CASE e = "absent"    -> <<>>
      [] e = "emptyDict" -> <<"envEmptyDict">>    \* env: {}
      [] e = "emptyList" -> <<"envEmptyList">>    \* env: []
      [] e = "entries"   -> <<"envHdr", "envEntry">>

ContainerLines(c) ==
    <<"item">> \o EnvLines(c.env) \o <<"runAsNonRoot">> \o SeccompLines(c.seccomp)

Serialize(d) ==
    <<"replicasQuoted">>
      \o FlattenSeq([i \in DOMAIN d.containers |-> ContainerLines(d.containers[i])])
      \o <<"hostOff", "pullSecretSentinel", "nodeSelectorSentinel", "runAsNonRoot">>
      \o SeccompLines(d.seccomp)
      \o <<"tolerationsSentinel">>

-----------------------------------------------------------------------------
(* injectHelmFlowControl (l. 331-387).                                     *)

NodeSelectorBlock == <<"withNodeSelector", "nodeSelector", "toYamlNodeSelector", "end">>
PullSecretsBlock  == <<"ifPullSecret", "imagePullSecrets", "pullSecretName", "end">>
TolerationsBlock  == <<"withTolerations", "tolerations", "rangeTolerations",
                       "tolerationFields", "end", "end">>
ProxyEnvBlock     == <<"envHdr", "ifProxy", "proxyVars", "end">>
PullSecretEnvBlock == <<"envHdr", "ifPullSecret", "pullSecretVar", "end">>

\* lines[i-1]: Python's index -1 is the last line.
PrevIndex(lines, i) == IF i = 1 THEN Len(lines) ELSE i - 1

(* Mutant of GateSeccomp: the previous line is not looked at.              *)
GateSeccompUnguarded(lines, i) ==
    /\ lines[i] = "seccompHdr"
    /\ i < Len(lines)
    /\ lines[i + 1] = "typeRuntimeDefault"

\* l. 378-382: a seccompProfile line followed by type RuntimeDefault and not
\* preceded by a semverCompare line is wrapped in the version gate.  (The
\* type line always follows seccompProfile in the dump, so lines[i+1] exists.)
GateSeccomp(lines, i) ==
    /\ lines[i] = "seccompHdr"
    /\ i < Len(lines)
    /\ lines[i + 1] = "typeRuntimeDefault"
    /\ lines[PrevIndex(lines, i)] # "semverIf"

\* The replacement of line i.  insertFlowControlIfAround rewrites lines i and
\* i+1 in place; the loop then reaches line i+1 in its rewritten form, which
\* no rule matches.
InjectLine(lines, i) ==
    CASE lines[i] = "nodeSelectorSentinel"             -> NodeSelectorBlock
      [] lines[i] = "pullSecretSentinel"               -> PullSecretsBlock
      [] lines[i] = "tolerationsSentinel"              -> TolerationsBlock
      [] lines[i] \in {"envHdr", "envEmptyDict"}       -> ProxyEnvBlock
      [] lines[i] \in {"replicasQuoted", "replicas"}   -> <<"replicas">>
      [] GateSeccomp(lines, i)                         -> <<"semverIf", "seccompHdr">>
      [] i > 1 /\ GateSeccomp(lines, i - 1)            -> <<"typeRuntimeDefault", "end">>
      [] OTHER                                         -> <<lines[i]>>

InjectFlowControl(lines) ==
    FlattenSeq([i \in DOMAIN lines |-> InjectLine(lines, i)])

(* Mutant of AddPullSecret: only an "env: {}" line is expanded.           *)
AddPullSecretOnEmptyOnly(lines) ==
    FlattenSeq([i \in DOMAIN lines |->
                   IF lines[i] = "envEmptyDict" THEN PullSecretEnvBlock ELSE <<lines[i]>>])

\* addPullSecretOverride, l. 392-400.
AddPullSecret(lines) ==
    FlattenSeq([i \in DOMAIN lines |->
                   IF lines[i] \in {"envHdr", "envEmptyDict"}
                   THEN PullSecretEnvBlock ELSE <<lines[i]>>])

-----------------------------------------------------------------------------
Init ==
    /\ rendered \in RenderedDeployment
    /\ config \in Configs
    /\ doc = rendered
    /\ text = <<>>
    /\ pc = "update"

\* l. 416: deploy['metadata'].pop('namespace') raises KeyError when the
\* Deployment has no namespace, before anything is written.
UpdateDeployments ==
    /\ pc = "update"
    /\ \/ /\ ~doc.namespace
          /\ pc' = "crashed"
          /\ UNCHANGED <<doc, text>>
       \/ /\ doc.namespace
          /\ doc' = Harden(doc, config.exclusions)
          /\ text' = Serialize(doc')
          /\ pc' = "inject"
    /\ UNCHANGED <<rendered, config>>

\* l. 469-471
InjectHelmFlowControl ==
    /\ pc = "inject"
    /\ text' = InjectFlowControl(text)
    /\ pc' = IF "pullSecretOverride" \in config.inclusions THEN "pullSecret" ELSE "done"
    /\ UNCHANGED <<rendered, config, doc>>

AddPullSecretOverride ==
    /\ pc = "pullSecret"
    /\ text' = AddPullSecret(text)
    /\ pc' = "done"
    /\ UNCHANGED <<rendered, config, doc>>

Next == UpdateDeployments \/ InjectHelmFlowControl \/ AddPullSecretOverride

Spec == Init /\ [][Next]_vars

TypeOK ==
    /\ rendered \in RenderedDeployment
    /\ config \in Configs
    /\ doc \in Deployment /\ Len(doc.containers) = Len(rendered.containers)
    /\ text \in Seq(STRING)
    /\ pc \in {"update", "inject", "pullSecret", "done", "crashed"}
-----------------------------------------------------------------------------
(* Properties.                                                             *)

Written == pc \in {"inject", "pullSecret", "done"}

\* The seccomp profile a container runs with: its own, else the pod's.
Effective(d, i) ==
    IF d.containers[i].seccomp # "none" THEN d.containers[i].seccomp ELSE d.seccomp

(***************************************************************************)
(* Spec sections 4.5 and 8: once updateDeployments has written the         *)
(* Deployment, the pod has no host namespaces and runs as non-root, every  *)
(* container is hardened and has a read-only root filesystem unless the   *)
(* chart excludes it, every container runs with some seccomp profile, and  *)
(* a container that ran with a non-default profile still runs with it      *)
(* (the pod-level default is only added where none exists, and only        *)
(* RuntimeDefault container profiles are deleted).                         *)
(***************************************************************************)
HardenedPreservingSeccomp ==
    Written =>
        /\ doc.hostOff /\ doc.runAsNonRoot /\ ~doc.namespace
        /\ \A i \in DOMAIN doc.containers :
              /\ doc.containers[i].hardened
              /\ doc.containers[i].readOnly
                    \/ "readOnlyRootFilesystem" \in config.exclusions
              /\ Effective(doc, i) # "none"
              /\ Effective(rendered, i) = "Localhost" => Effective(doc, i) = "Localhost"

(***************************************************************************)
(* Spec section 4.5: "remove a container-level RuntimeDefault seccomp      *)
(* profile once the pod-level default is set, since pod-level settings     *)
(* already apply": a container that ran with RuntimeDefault still does.    *)
(***************************************************************************)
ContainerKeepsRuntimeDefault ==
    Written =>
        \A i \in DOMAIN doc.containers :
            Effective(rendered, i) = "RuntimeDefault" => Effective(doc, i) = "RuntimeDefault"

\* Line i opens a seccomp profile of type RuntimeDefault wrapped in the gate.
GatedAt(lines, i) ==
    /\ i > 1 /\ lines[i - 1] = "semverIf"
    /\ i + 2 <= Len(lines)
    /\ lines[i + 1] = "typeRuntimeDefault" /\ lines[i + 2] = "end"

\* Every RuntimeDefault profile is gated once; nothing else is gated.
WellGated(lines) ==
    /\ \A i \in DOMAIN lines :
          lines[i] = "seccompHdr" =>
              (GatedAt(lines, i) <=> (i < Len(lines) /\ lines[i + 1] = "typeRuntimeDefault"))
    /\ \A i \in DOMAIN lines :
          lines[i] = "semverIf" => i < Len(lines) /\ lines[i + 1] = "seccompHdr"

(***************************************************************************)
(* Spec sections 4.6 and 8: after injectHelmFlowControl every pod-level    *)
(* RuntimeDefault seccomp profile sits inside exactly one OCP >= 4.11      *)
(* version gate, with its end, and running injectHelmFlowControl again on  *)
(* the written file does not wrap it twice (the semverCompare check of the *)
(* previous line, l. 381).                                                  *)
(***************************************************************************)
SeccompGatedOnce ==
    pc = "done" => WellGated(text) /\ WellGated(InjectFlowControl(text))

\* The lines of the i-th container of the written file.
ItemStarts(lines) == SetToSortSeq({j \in DOMAIN lines : lines[j] = "item"}, <)
ContainerText(lines, i) ==
    LET starts == ItemStarts(lines)
        last == IF i < Len(starts) THEN starts[i + 1] - 1
                ELSE SelectInSeq(lines, LAMBDA t : t = "hostOff") - 1
    IN SubSeq(lines, starts[i], last)

Occurrences(lines, t) == Cardinality({j \in DOMAIN lines : lines[j] = t})

(***************************************************************************)
(* Spec sections 4.5-4.6 (two-phase sentinels): in the finished file each  *)
(* container whose env is absent, {} or a list of variables has exactly    *)
(* one proxy block and, with the pullSecretOverride inclusion, exactly one *)
(* AGENT_IMAGE_PULL_SECRET block; addPullSecretOverride re-reads the file  *)
(* and finds the env line the proxy block starts with.                     *)
(***************************************************************************)
EnvBlocksOnce ==
    pc = "done" =>
        \A i \in DOMAIN rendered.containers :
            rendered.containers[i].env # "emptyList" =>
                /\ Occurrences(ContainerText(text, i), "ifProxy") = 1
                /\ Occurrences(ContainerText(text, i), "pullSecretVar") =
                      IF "pullSecretOverride" \in config.inclusions THEN 1 ELSE 0
=============================================================================
