---------------------------- MODULE ImageOverride ----------------------------
(***************************************************************************)
(* The image passes of injectRequirements (generate-charts.py l. 548-550): *)
(* fixImageReferences, fixEnvVarImageReferences and                        *)
(* fixImageReferencesForAddonTemplate, over the chart's Deployment file,   *)
(* its AddOnTemplate file and values.yaml.                                 *)
(*                                                                         *)
(* copyHelmChart writes each rendered document to <kind>.yaml (l. 207),    *)
(* so a chart has at most one Deployment and one AddOnTemplate file; the   *)
(* loops over findTemplatesOfType run at most once.  A pass loads its      *)
(* file, rewrites it in memory, writes it back, then loads, updates and    *)
(* writes values.yaml.  exit(1) and an uncaught KeyError end the process   *)
(* before the current file is written, so each pass is one step whose      *)
(* failing outcome leaves the disk as the previous pass left it.           *)
(*                                                                         *)
(* An image string is abstracted to the repository parse_image_ref finds   *)
(* in it (a model value of Repos), and the override expression             *)
(* "{{ .Values.global.imageOverrides.<key> }}" to its key (a string).      *)
(***************************************************************************)
EXTENDS Naturals, Sequences, SequencesExt, FiniteSets, TLC

CONSTANTS
    Repos,          \* repositories found in image strings
    Keys,           \* override keys of imageMappings
    Mapping,        \* imageMappings: a function from some Repos to Keys
    Placeholder,    \* the "imageOverride" key of the template values.yaml
    MaxContainers   \* bound on the containers of one Deployment

ASSUME Mapping \in [DOMAIN Mapping -> Keys] /\ DOMAIN Mapping \subseteq Repos
ASSUME Placeholder \notin Keys
ASSUME Keys \cap {"absent", "plain", "agentFlag", "valueFrom", "unmapped"} = {}

VARIABLES
    deployment,   \* templates/deployment.yaml: its containers (<<>> = no file)
    addon,        \* templates/addontemplate.yaml
    values,       \* the keys of global.imageOverrides in values.yaml
    pc            \* the pass about to run, or how the process ended

vars == <<deployment, addon, values, pc>>

Ovr(k) == k
Override == Keys

-----------------------------------------------------------------------------
(* The documents.                                                          *)
(*   container.args:  "absent" (no args key), "plain" (no agent flag),     *)
(*                    "agentFlag" (an --agent-image-name argument with a   *)
(*                    raw image), or the key that argument refers to;       *)
(*   container.env:   whether the env key exists, and its variables;        *)
(*                    isImage means the name ends in _IMAGE; value          *)
(*                    "valueFrom" means the variable has no value key;      *)
(*   addon.file:      "absent" (no AddOnTemplate), "noWorkload",            *)
(*                    "noManifests" (agentSpec lacks them) or "manifests"; *)
(*   addon.manifests: the nested manifests, each with its kind and the      *)
(*                    images of its containers.                             *)
EnvVar    == [isImage : BOOLEAN, value : Repos \cup Override \cup {"valueFrom"}]
Container == [image : Repos \cup Override,
              pullPolicy : {"chart", "global"},
              args : {"absent", "plain", "agentFlag"} \cup Override,
              hasEnv : BOOLEAN,
              env : BoundedSeq(EnvVar, 1)]
Manifest  == [kind : {"Deployment", "Other"}, images : BoundedSeq(Repos \cup Override, 1)]
AddOn     == [file : {"absent", "noWorkload", "noManifests", "manifests"},
              manifests : BoundedSeq(Manifest, 1)]

\* The documents as helm template renders them: no override yet.
RawEnvVar    == [isImage : BOOLEAN, value : Repos \cup {"valueFrom"}]
RawContainer == {c \in [image : Repos, pullPolicy : {"chart"},
                        args : {"absent", "plain", "agentFlag"},
                        hasEnv : BOOLEAN, env : BoundedSeq(RawEnvVar, 1)] :
                   ~c.hasEnv => c.env = <<>>}
RawManifest  == [kind : {"Deployment"}, images : BoundedSeq(Repos, 1)]
                  \cup [kind : {"Other"}, images : {<<>>}]
RawAddOn     == [file : {"absent", "noWorkload", "noManifests"}, manifests : {<<>>}]
                  \cup [file : {"manifests"}, manifests : BoundedSeq(RawManifest, 1)]

-----------------------------------------------------------------------------
(* Helpers.                                                                *)

\* imageKeyMapping[parse_image_ref(image)["repository"]], or the failure.
Resolve(repo) == IF repo \in DOMAIN Mapping THEN Mapping[repo] ELSE "unmapped"

\* The outcome of the first failing element of a sequence of outcomes.
FirstFailure(outcomes) ==
    LET bad == SelectInSeq(outcomes, LAMBDA o : o # "ok") IN
    IF bad = 0 THEN "ok" ELSE outcomes[bad]

\* How the process ends for each failure.
Ended(failure) == IF failure = "UnmappedImageError" THEN "exited" ELSE "crashed"

\* l. 252-253: a container without env is skipped.
EnvList(c) == IF c.hasEnv THEN c.env ELSE <<>>

(* Mutant of DeclareKeys: global.imageOverrides is replaced by the new keys. *)
DeclareKeysReplacing(vals, keys) == keys

\* values['global']['imageOverrides']: delete the placeholder, add the keys.
DeclareKeys(vals, keys) == (vals \ {Placeholder}) \cup keys

-----------------------------------------------------------------------------
(* fixImageReferences, l. 278-322.                                         *)

\* l. 293-303: the lookup exits first; container['args'] then raises
\* KeyError on a container without args.
ImageOutcome(c) ==
    IF Resolve(c.image) = "unmapped" THEN "UnmappedImageError"
    ELSE IF c.args = "absent" THEN "KeyError"
    ELSE "ok"

(* Mutant of RewriteImage: the --agent-image-name argument is left as is. *)
RewriteImageKeepingArgs(c) ==
    [c EXCEPT !.image = Ovr(Resolve(c.image)), !.pullPolicy = "global"]

\* l. 299-310: image, pull policy, and every --agent-image-name argument
\* take the override of the container's own image key.
RewriteImage(c) ==
    LET k == Ovr(Resolve(c.image)) IN
    [c EXCEPT !.image = k, !.pullPolicy = "global",
              !.args = IF c.args = "plain" THEN "plain" ELSE k]

FixImageReferences ==
    /\ pc = "fixImages"
    /\ LET failure == FirstFailure([i \in DOMAIN deployment |->
                                        ImageOutcome(deployment[i])])
           keys == {Resolve(deployment[i].image) : i \in DOMAIN deployment}
       IN IF failure = "ok"
          THEN /\ deployment' = [i \in DOMAIN deployment |-> RewriteImage(deployment[i])]
               /\ values' = DeclareKeys(values, keys)
               /\ pc' = "fixEnv"
          ELSE /\ pc' = Ended(failure)
               /\ UNCHANGED <<deployment, values>>
    /\ UNCHANGED addon

-----------------------------------------------------------------------------
(* fixEnvVarImageReferences, l. 238-274.                                   *)

(* Mutant of EnvOutcome: a missing mapping is not fatal (a .get lookup).  *)
EnvOutcomeLenient(e) ==
    IF ~e.isImage THEN "ok"
    ELSE IF e.value = "valueFrom" THEN "KeyError"
    ELSE "ok"

\* l. 256-264: names not ending in _IMAGE are skipped; env['value'] raises
\* KeyError on a valueFrom variable; then the lookup exits.
EnvOutcome(e) ==
    IF ~e.isImage THEN "ok"
    ELSE IF e.value = "valueFrom" THEN "KeyError"
    ELSE IF Resolve(e.value) = "unmapped" THEN "UnmappedImageError"
    ELSE "ok"

\* The env variables of all containers, in document order.
EnvVars(d) == FlattenSeq([i \in DOMAIN d |-> EnvList(d[i])])

\* l. 265-266
RewriteEnvVar(e) ==
    IF e.isImage THEN [e EXCEPT !.value = Ovr(Resolve(e.value))] ELSE e

RewriteEnv(c) == [c EXCEPT !.env = [j \in DOMAIN c.env |-> RewriteEnvVar(c.env[j])]]

FixEnvVarImageReferences ==
    /\ pc = "fixEnv"
    /\ LET envVars == EnvVars(deployment)
           failure == FirstFailure([j \in DOMAIN envVars |-> EnvOutcome(envVars[j])])
           keys == {Resolve(envVars[j].value) : j \in {j \in DOMAIN envVars : envVars[j].isImage}}
       IN IF failure = "ok"
          THEN /\ deployment' = [i \in DOMAIN deployment |-> RewriteEnv(deployment[i])]
               /\ values' = values \cup keys    \* l. 270-273: no placeholder removal
               /\ pc' = "fixAddon"
          ELSE /\ pc' = Ended(failure)
               /\ UNCHANGED <<deployment, values>>
    /\ UNCHANGED addon

-----------------------------------------------------------------------------
(* fixImageReferencesForAddonTemplate, l. 478-524.                         *)

\* The container images of the nested Deployments, in document order.
NestedImages(ms) ==
    FlattenSeq([i \in DOMAIN ms |-> IF ms[i].kind = "Deployment" THEN ms[i].images ELSE <<>>])

\* l. 496-507: only nested Deployments have their images rewritten.
RewriteManifest(m) ==
    IF m.kind = "Deployment"
    THEN [m EXCEPT !.images = [j \in DOMAIN m.images |-> Ovr(Resolve(m.images[j]))]]
    ELSE m

FixImageReferencesForAddonTemplate ==
    /\ pc = "fixAddon"
    /\ \/ \* l. 481, 513-514: no AddOnTemplate file, no key: return
          /\ addon.file = "absent"
          /\ pc' = "done"
          /\ UNCHANGED <<addon, values>>
       \/ \* l. 488-492: return before writing the file or values.yaml
          /\ addon.file \in {"noWorkload", "noManifests"}
          /\ pc' = "done"
          /\ UNCHANGED <<addon, values>>
       \/ /\ addon.file = "manifests"
          /\ LET imgs == NestedImages(addon.manifests)
                 unmapped == \E j \in DOMAIN imgs : Resolve(imgs[j]) = "unmapped"
                 keys == {Resolve(imgs[j]) : j \in DOMAIN imgs}
             IN IF unmapped
                THEN /\ pc' = "exited"                       \* l. 500-504
                     /\ UNCHANGED <<addon, values>>
                ELSE /\ addon' = [addon EXCEPT !.manifests =
                                     [i \in DOMAIN addon.manifests |-> RewriteManifest(addon.manifests[i])]]
                     /\ values' = IF keys = {} THEN values    \* l. 513-514
                                  ELSE DeclareKeys(values, keys)
                     /\ pc' = "done"
    /\ UNCHANGED deployment

-----------------------------------------------------------------------------
Init ==
    /\ deployment \in BoundedSeq(RawContainer, MaxContainers)
    /\ addon \in RawAddOn
    /\ values \in {{}, {Placeholder}}
    /\ pc = "fixImages"

Next ==
    \/ FixImageReferences
    \/ FixEnvVarImageReferences
    \/ FixImageReferencesForAddonTemplate

Spec == Init /\ [][Next]_vars

\* The process has ended: normally, by exit(1), or by an uncaught exception.
Terminated == pc \in {"done", "exited", "crashed"}

TypeOK ==
    /\ deployment \in Seq(Container) /\ Len(deployment) <= MaxContainers
    /\ addon \in AddOn
    /\ values \subseteq Keys \cup {Placeholder}
    /\ pc \in {"fixImages", "fixEnv", "fixAddon", "done", "exited", "crashed"}
-----------------------------------------------------------------------------
(* Properties.                                                             *)

OverrideKeysOf(v) == IF v \in Override THEN {v} ELSE {}

\* The override keys the Deployment and AddOnTemplate files on disk refer to.
ReferencedKeys ==
    LET ContainerKeys(c) ==
            OverrideKeysOf(c.image) \cup OverrideKeysOf(c.args)
              \cup UNION {OverrideKeysOf(e.value) : e \in Range(EnvList(c))}
        nested == Range(NestedImages(addon.manifests))
    IN UNION {ContainerKeys(c) : c \in Range(deployment)}
         \cup UNION {OverrideKeysOf(img) : img \in nested}

(***************************************************************************)
(* Spec section 3 (ChartBundle): every override key written into a         *)
(* template has its entry under global.imageOverrides of values.yaml.  It  *)
(* is checked in every state, so also wherever exit(1) or a KeyError stops *)
(* the process between two passes: each of the three passes writes its     *)
(* template before values.yaml, and the last two must keep the keys of the *)
(* first.                                                                   *)
(***************************************************************************)
OverridesDeclared == ReferencedKeys \subseteq values

(***************************************************************************)
(* Spec sections 4.2 and 4.3 (fail closed): when the passes complete, no   *)
(* image reference is left raw: every container image, --agent-image-name *)
(* argument, _IMAGE variable and nested AddOnTemplate Deployment image is  *)
(* an override expression.                                                 *)
(***************************************************************************)
NoRawImageLeft ==
    pc = "done" =>
        /\ \A c \in Range(deployment) :
              /\ c.image \in Override
              /\ c.args \in {"plain"} \cup Override
              /\ \A e \in Range(EnvList(c)) : e.isImage => e.value \in Override
        /\ Range(NestedImages(addon.manifests)) \subseteq Override

(***************************************************************************)
(* Spec section 7: the only fatal condition of the image passes is an      *)
(* image without a mapping (UnmappedImageError, exit status 1); the        *)
(* process never ends on an uncaught exception.                            *)
(***************************************************************************)
NoUncaughtException == pc # "crashed"
=============================================================================
