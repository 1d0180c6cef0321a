---------------------------- MODULE Declarations ----------------------------
(***************************************************************************)
(* What the driver computes from a union volume's declaration and from the *)
(* pod it is in: the parsed sources and options, the options after the     *)
(* admin's policy, the directory behind each source, and the layers of the *)
(* mount.  Nothing here has state; PublishPlan is the handler that calls   *)
(* these operators while pod, claims and links change.                     *)
(*                                                                         *)
(* A declaration holds an attribute as the list it is split into:          *)
(*   sources    entries [name, mode]; mode "" is an entry with no suffix,  *)
(*              name "" any text that is not a volume name                 *)
(*   options    pairs [key, value]; key "" is a pair that does not parse   *)
(* An option's value is [text, forms, number]: forms says which numeric    *)
(* formats the text has, number is the integer it then stands for.         *)
(* A path is the sequence of its components.                               *)
(***************************************************************************)
EXTENDS HostPaths

CONSTANT MaxSeconds  \* the largest unsigned 32-bit integer, scaled down

ASSUME SecondsAssumption == MaxSeconds \in Nat

\* The values of f, and of g where f has none.
Over(f, g) == [x \in DOMAIN f \cup DOMAIN g |-> IF x \in DOMAIN f THEN f[x] ELSE g[x]]

(***************************************************************************)
(* Attributes                                                              *)
(***************************************************************************)
Modes(backend) == IF backend = "mergerfs" THEN {"RW", "RO", "NC"} ELSE {"RW", "RO"}

DefaultMode == "RW"

\* 0 is no limit.
MaxWritable(backend) == IF backend = "overlay" THEN 1 ELSE 0

ParsedSources(raw) ==
    [i \in DOMAIN raw |->
        [name |-> raw[i].name,
         mode |-> IF raw[i].mode = "" THEN DefaultMode ELSE raw[i].mode]]

IsWritable(source) == source.mode = "RW"

SourcesParse(c, raw) ==
    LET sources == ParsedSources(raw) IN
    /\ raw # <<>>
    /\ Len(raw) <= c.maxSources
    /\ \A i \in DOMAIN sources : /\ sources[i].name # ""
                                 /\ sources[i].mode \in Modes(c.backend)
    /\ \A i, j \in DOMAIN sources : sources[i].name = sources[j].name => i = j
    /\ \/ MaxWritable(c.backend) = 0
       \/ Len(SelectSeq(sources, IsWritable)) <= MaxWritable(c.backend)

OptionsParse(raw) == \A i \in DOMAIN raw : raw[i].key # ""

\* A key given twice has its last value.
ParsedOptions(raw) ==
    [k \in {raw[i].key : i \in DOMAIN raw} |->
        raw[Max({i \in DOMAIN raw : raw[i].key = k})].value]

AttributesParse(c, volume) ==
    /\ ~volume.unknownKey
    /\ SourcesParse(c, volume.sources)
    /\ OptionsParse(volume.options)

(***************************************************************************)
(* The option policy                                                       *)
(***************************************************************************)
SchemaAccepts(spec, value) ==
    \/ spec.kind = "flag"     /\ value.text \in {"", "true"}
    \/ spec.kind = "bool"     /\ value.text \in {"true", "false"}
    \/ spec.kind = "enum"     /\ value.text \in spec.enum
    \/ spec.kind = "size"     /\ "size" \in value.forms
    \/ spec.kind = "duration" /\ "digits" \in value.forms /\ value.number <= MaxSeconds
    \/ /\ spec.kind = "int"
       /\ "integer" \in value.forms
       /\ value.number \in spec.min .. spec.max

CheckSchema(c, options) ==
    \A k \in DOMAIN options :
        k \in DOMAIN c.schema /\ SchemaAccepts(c.schema[k], options[k])

\* Policy.Validate, which the driver calls before it serves.
PolicyValid(c) == CheckSchema(c, c.defaults) /\ CheckSchema(c, c.forced)

Denied(c, key) == key \in c.denylist

Allowed(c, key) == c.allowlist = {} \/ key \in c.allowlist

\* The loop over the pod's options returns at the first one refused, in the
\* order of a Go map: whatever the order, it is refused if one of them is.
PolicyAccepts(c, options) ==
    /\ CheckSchema(c, options)
    /\ \A k \in DOMAIN options : IF Denied(c, k) THEN c.mode = "strip" ELSE Allowed(c, k)

\* The pod's options without those that are stripped.
Taken(c, options) == RestrictDomain(options, LAMBDA k : ~Denied(c, k))

\* Mutant: a pod's option overrides a forced one.
PodOverridesForced(c, options) ==
    Over(Taken(c, options), Over(c.forced, c.defaults))

ResolvedOptions(c, options) == Over(c.forced, Over(Taken(c, options), c.defaults))

(***************************************************************************)
(* Start-up and admission                                                  *)
(*                                                                         *)
(* A command line has a value for every flag and the set of those that the *)
(* admin gave, the backend's own options and denylist (own), and whether   *)
(* the chart installs the admission policy.                                *)
(***************************************************************************)
Unset(f, flag) == flag \notin f.set

\* A flag that was given keeps its value, also an empty one: the comment at main.go:166 says
\* so, the help of --option-denylist (main.go:109, "(empty: backend default)") does not.
Configured(f) ==
    Over([defaults |-> IF Unset(f, "default-options") THEN f.own.defaults ELSE f.defaults,
          denylist |-> IF Unset(f, "option-denylist") THEN f.own.denylist ELSE f.denylist,
          flags    |-> f], f)

\* Whatever else main finds is fatal.
Starts(f) ==
    /\ f.mode \in {"refuse", "strip"}
    /\ f.backend \in {"mergerfs", "overlay"}
    /\ PathsClean(f)
    /\ PolicyValid(Configured(f))
    /\ f.nodeID # ""

\* The volumes that the containers of a pod mount once it is admitted: theirs, and those the
\* unions among them name.
Admitted(c, pod) ==
    LET unions == {i \in DOMAIN pod.volumes :
                      pod.volumes[i].kind = "union" /\ pod.volumes[i].name \in pod.mounts}
        named  == UNION {{pod.volumes[i].sources[k].name : k \in DOMAIN pod.volumes[i].sources} :
                            i \in unions}
        known  == {pod.volumes[i].name : i \in DOMAIN pod.volumes}
    IN  IF c.autoMount THEN pod.mounts \cup (named \cap known) ELSE pod.mounts

(***************************************************************************)
(* Sharing                                                                 *)
(***************************************************************************)
NoVolume == ""

VolumeNames(pod) == {pod.volumes[i].name : i \in DOMAIN pod.volumes}

VolumeNamed(pod, name) ==
    pod.volumes[CHOOSE i \in DOMAIN pod.volumes : pod.volumes[i].name = name]

IsUnion(volume) == volume.kind = "union"

\* Whether the volume declares a union, and what makes two of them the same.
Declares(c, volume) == IsUnion(volume) /\ AttributesParse(c, volume)

Declared(volume) == [sources  |-> ParsedSources(volume.sources),
                     options  |-> ParsedOptions(volume.options),
                     readOnly |-> volume.readOnly]

FirstOf(pod, Matches) == IF Matches = {} THEN NoVolume ELSE pod.volumes[Min(Matches)].name

Before(pod, self) == {i \in DOMAIN pod.volumes : \A j \in 1 .. i : pod.volumes[j].name # self}

SameUnion(c, pod, i, self) ==
    /\ Declares(c, pod.volumes[i])
    /\ Declares(c, VolumeNamed(pod, self))
    /\ Declared(pod.volumes[i]) = Declared(VolumeNamed(pod, self))

\* Mutant: the search does not stop at self.
SharedWithSelf(c, pod, referenced, self) ==
    FirstOf(pod, {i \in DOMAIN pod.volumes :
                     pod.volumes[i].name \in referenced /\ SameUnion(c, pod, i, self)})

\* Mutant: sources are compared as written, before modes are filled in.
SharedAsWritten(c, pod, referenced, self) ==
    FirstOf(pod, {i \in Before(pod, self) :
                     /\ pod.volumes[i].name \in referenced
                     /\ SameUnion(c, pod, i, self)
                     /\ pod.volumes[i].sources = VolumeNamed(pod, self).sources})

\* Mutant: read-only is not compared.
SharedReadOnlyOrNot(c, pod, referenced, self) ==
    FirstOf(pod, {i \in Before(pod, self) :
                     /\ pod.volumes[i].name \in referenced
                     /\ Declares(c, pod.volumes[i])
                     /\ pod.volumes[i].sources = VolumeNamed(pod, self).sources})

\* Mutant: the first volume may be one that no container mounts.
SharedWithUnused(c, pod, referenced, self) ==
    FirstOf(pod, {i \in Before(pod, self) : SameUnion(c, pod, i, self)})

\* The first volume that a container mounts and that declares the union of
\* self, searched up to self itself; NoVolume if there is none before it.
SharedSource(c, pod, referenced, self) ==
    FirstOf(pod, {i \in Before(pod, self) :
                     pod.volumes[i].name \in referenced /\ SameUnion(c, pod, i, self)})

(***************************************************************************)
(* The directories behind the sources                                      *)
(***************************************************************************)
\* What the driver takes for a plain directory, and what for a mount.
PlainKinds   == {"emptyDir", "configMap", "secret", "downwardAPI", "projected"}
MountedKinds == {"csi", "nfs", "iscsi", "fc"}
ClaimKinds   == {"pvc", "ephemeral"}

HostRoot == "/host"

Refused(error) == [error |-> error, source |-> <<>>]

Found(name, path, mounts) ==
    [error  |-> "none",
     source |-> [name |-> name, path |-> path, csiBased |-> mounts]]

ResolveHostPath(c, name, path) ==
    IF HostPathAllowed(c, path)
    THEN Found(name, <<HostRoot>> \o path, FALSE)
    ELSE Refused("invalid")

\* Mutant: a local PV is taken for a plain directory.
ResolveLocalAsDirectory(c, pod, name, pv) ==
    CASE pv.kind = "hostPath"
            -> ResolveHostPath(c, name, pv.path)
      [] pv.kind \in MountedKinds \cup {"local"}
            -> Found(name, <<pod.uid, pv.kind, pv.name>>, pv.kind \in MountedKinds)
      [] OTHER
            -> Refused("invalid")

\* Kubelet names the directory of a PV after the PV.
ResolvePV(c, pod, name, pv) ==
    CASE pv.kind = "hostPath"
            -> ResolveHostPath(c, name, pv.path)
      [] pv.kind \in MountedKinds \cup {"local"}
            -> Found(name, <<pod.uid, pv.kind, pv.name>>, TRUE)
      [] OTHER
            -> Refused("invalid")

\* claim[name] is "missing", "unbound" (its PV may be missing) or "bound".
ResolvePVC(c, pod, volume, claim) ==
    CASE claim[volume.name] = "missing"
            -> Refused("notReady")
      [] claim[volume.name] # "missing" /\ volume.kind = "ephemeral" /\ ~volume.owned
            -> Refused("invalid")
      [] claim[volume.name] = "unbound" /\ (volume.kind = "pvc" \/ volume.owned)
            -> Refused("notReady")
      [] OTHER
            -> ResolvePV(c, pod, volume.name, volume.pv)

\* An image and a kind the driver does not know are refused.
ResolveForeign(c, pod, volume, claim) ==
    CASE volume.kind \in ClaimKinds
            -> ResolvePVC(c, pod, volume, claim)
      [] volume.kind \in MountedKinds \cup PlainKinds
            -> Found(volume.name, <<pod.uid, volume.kind, volume.name>>,
                     volume.kind \in MountedKinds)
      [] volume.kind = "hostPath"
            -> ResolveHostPath(c, volume.name, volume.path)
      [] OTHER
            -> Refused("invalid")

\* Mutant: a volume of this driver is a source like any other.
ResolveAnyDriver(c, pod, volume, claim) ==
    IF IsUnion(volume) THEN Found(volume.name, <<pod.uid, "csi", volume.name>>, TRUE)
                       ELSE ResolveForeign(c, pod, volume, claim)

\* A volume of this driver would make a mount cycle.
ResolveOne(c, pod, volume, claim) ==
    IF IsUnion(volume) THEN Refused("invalid") ELSE ResolveForeign(c, pod, volume, claim)

ResolveNamed(c, pod, referenced, claim, name) ==
    IF name \in VolumeNames(pod) /\ name \in referenced
    THEN ResolveOne(c, pod, VolumeNamed(pod, name), claim)
    ELSE Refused("invalid")

\* The first error ends the loop.
ResolveIn(c, pod, referenced, claim, names) ==
    LET result == [i \in DOMAIN names |->
                      ResolveNamed(c, pod, referenced, claim, names[i])]
        failed == {i \in DOMAIN names : result[i].error # "none"}
    IN  [error   |-> IF failed = {} THEN "none" ELSE result[Min(failed)].error,
         sources |-> IF failed = {} THEN [i \in DOMAIN names |-> result[i].source]
                                    ELSE <<>>]

(***************************************************************************)
(* The layers of a mount                                                   *)
(*                                                                         *)
(* A layer is [path, part, writable], the topmost first: part is what of   *)
(* the source at path takes part in the union.  A spec is                  *)
(* [sources, readOnly] with sources [path, mode].                          *)
(***************************************************************************)
Workspace == ".union-csi"

LayoutPlans(spec) ==
    \A i \in DOMAIN spec.sources : spec.sources[i].mode = "RW" => i = 1

\* Mutant: read-only only on request.
ReadOnlyOnRequest(spec) == spec.readOnly

LayoutReadOnly(spec) == spec.readOnly \/ spec.sources[1].mode # "RW"

\* The RW source takes part with a directory inside it; the others are lower
\* directories, which overlayfs never writes to.  A mount of one layer is a
\* bind of it, which LayoutReadOnly alone keeps from writes.
OverlayLayers(spec) ==
    LET ro == LayoutReadOnly(spec) IN
    [i \in DOMAIN spec.sources |->
        IF spec.sources[i].mode = "RW"
        THEN [path     |-> spec.sources[i].path,
              part     |-> <<Workspace, "upper">>,
              writable |-> ~ro]
        ELSE [path     |-> spec.sources[i].path,
              part     |-> <<>>,
              writable |-> ~ro /\ Len(spec.sources) = 1]]

\* The binds that put the branches into the daemon's sandbox.
MergerfsLayers(spec) ==
    [i \in DOMAIN spec.sources |->
        [path     |-> spec.sources[i].path,
         part     |-> <<>>,
         writable |-> ~(spec.readOnly \/ spec.sources[i].mode = "RO")]]

MountPlans(c, spec) == c.backend = "overlay" => LayoutPlans(spec)

Layers(c, spec) ==
    IF c.backend = "overlay" THEN OverlayLayers(spec) ELSE MergerfsLayers(spec)

=============================================================================
