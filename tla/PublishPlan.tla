---------------------------- MODULE PublishPlan -----------------------------
(***************************************************************************)
(* NodePublishVolume for the union volumes of one pod, from kubelet's call *)
(* to what gets mounted.  Kubelet has one call in flight for a volume, the *)
(* calls of different volumes overlap, and between two steps of a call the *)
(* pod, its claims, its sources and the host's links may change.           *)
(*                                                                         *)
(* The mount itself is one step, which may fail; MergerfsBackend has its   *)
(* inner steps and what happens to a mount later.                          *)
(***************************************************************************)
EXTENDS Declarations

CONSTANTS
    CommandLines,  \* the command lines to choose from
    Pods,       \* the pods to choose from: [uid, volumes, mounts]
    MaxLate,    \* how many volumes ephemeral containers come to mount
    MaxFaults   \* how many faults, of the kinds of the next constant
CONSTANT Faults \* a subset of FaultKinds

FaultKinds == {"api", "mount", "answer", "restart", "relink", "replace"}

\* The configurations of the drivers that start.
Configs == {Configured(f) : f \in {g \in CommandLines : Starts(g)}}

\* A command line has values for these.
ASSUME CommandLineAssumption ==
    \A f \in CommandLines :
        /\ {"forced", "allowlist", "mode", "allowed", "denied"} \subseteq DOMAIN f
        /\ f.allowed \cup f.denied \subseteq Seq(STRING)

IsSequence(s) == s \in Seq(Range(s))

\* The host directory that a hostPath or local claim names.
HostDir(volume) ==
    CASE volume.kind = "hostPath" -> volume.path
      [] volume.kind \in ClaimKinds -> volume.pv.path
      [] OTHER -> <<>>

\* What the API server makes sure of: a pod is a uid, volumes of different names
\* and the names of those that its containers mount.
ASSUME PodAssumption ==
    \A p \in Pods :
        /\ p = [uid |-> p.uid, volumes |-> p.volumes, mounts |-> p.mounts]
        /\ p.uid # HostRoot
        /\ IsSequence(p.volumes)
        /\ \A i, j \in DOMAIN p.volumes : p.volumes[i].name = p.volumes[j].name => i = j
        /\ \A i \in DOMAIN p.volumes :
              /\ p.volumes[i].name # NoVolume
              /\ HostDir(p.volumes[i]) \in Seq(STRING)
              /\ IsUnion(p.volumes[i]) => IsSequence(p.volumes[i].sources)
        /\ p.mounts \subseteq VolumeNames(p)

ASSUME BoundAssumption  == MaxLate \in Nat /\ MaxFaults \in Nat
ASSUME FaultAssumption  == Faults \subseteq FaultKinds

VARIABLES
    config,     \* the driver's configuration
    pod,        \* the pod whose volumes kubelet sets up
    api,        \* what the API server has under the pod's name
    referenced, \* volumes that some container of the pod mounts
    claim,      \* state of the claim of each PVC volume
    setUp,      \* how far kubelet is with each volume: "none", "dir", "mounted"
    leads,      \* where each volume's host directory leads through links
    call,       \* the call of each union volume
    mounted,    \* what is at the target of each union volume
    answer,     \* the last answer kubelet had for each union volume
    faults, late

vars == <<config, pod, api, referenced, claim, setUp, leads, call, mounted,
          answer, faults, late>>

-----------------------------------------------------------------------------

Unions == {name \in VolumeNames(pod) : IsUnion(VolumeNamed(pod, name))}

Volume(name) == VolumeNamed(pod, name)

\* A call keeps the resolved options, what it read of the pod, the volume it
\* is to be a view of, and its sources.
Idle == [pc |-> "idle", options |-> <<>>, uid |-> "", saw |-> {}, view |-> NoVolume,
         sources |-> <<>>]

Bare == [how |-> "none"]

IsMounted(v) == mounted[v] # Bare

Init ==
    /\ config \in Configs
    /\ pod \in Pods
    /\ api = "own"
    /\ referenced = Admitted(config, pod)
    /\ claim = [name \in {n \in VolumeNames(pod) : Volume(n).kind \in ClaimKinds} |-> "missing"]
    /\ setUp = [name \in VolumeNames(pod) |-> "none"]
    /\ leads = [name \in VolumeNames(pod) |-> HostDir(Volume(name))]
    /\ call = [v \in Unions |-> Idle]
    /\ mounted = [v \in Unions |-> Bare]
    /\ answer = [v \in Unions |-> "none"]
    /\ faults = 0
    /\ late = 0

Fault(kind) == kind \in Faults /\ faults < MaxFaults /\ faults' = faults + 1

\* The call of v returns this code.
Answer(v, code) ==
    /\ call' = [call EXCEPT ![v] = Idle]
    /\ answer' = [answer EXCEPT ![v] = code]

Goes(v, to) == call' = [call EXCEPT ![v] = to] /\ UNCHANGED answer

Node == <<config, pod, api, referenced, claim, setUp, leads, late>>

-----------------------------------------------------------------------------
(***************************************************************************)
(* The handler                                                             *)
(***************************************************************************)
Called(v) ==
    /\ call[v].pc = "idle"
    /\ v \in referenced
    /\ answer[v] # "OK"
    /\ UNCHANGED <<Node, mounted, faults>>

PublishAgain(v) == Called(v) /\ IsMounted(v) /\ Answer(v, "OK")

Accepts(v) ==
    /\ AttributesParse(config, Volume(v))
    /\ PolicyAccepts(config, ParsedOptions(Volume(v).options))

PublishRefuses(v) ==
    /\ Called(v)
    /\ ~IsMounted(v)
    /\ ~Accepts(v)
    /\ Answer(v, "InvalidArgument")

Publish(v) ==
    /\ Called(v)
    /\ ~IsMounted(v)
    /\ Accepts(v)
    /\ Goes(v, [Idle EXCEPT
                  !.pc = "getPod",
                  !.options = ResolvedOptions(config, ParsedOptions(Volume(v).options))])

\* The pod the handler reads: under the same name may be another by now.
FetchedPod == IF api = "own" THEN pod ELSE [pod EXCEPT !.uid = "other"]

\* Mutant: any pod of the name will do.
AnyUID == TRUE

SameUID == FetchedPod.uid = pod.uid

ViewSource(p, w) == [name |-> w, path |-> <<p.uid, "csi", w>>, csiBased |-> TRUE]

GetPod(v) ==
    /\ call[v].pc = "getPod"
    /\ UNCHANGED <<Node, mounted>>
    /\ \/ Fault("api") /\ Answer(v, "InvalidArgument")
       \/ UNCHANGED faults /\ api = "gone" /\ Answer(v, "Aborted")
       \/ UNCHANGED faults /\ api # "gone" /\ ~SameUID /\ Answer(v, "InvalidArgument")
       \/ /\ UNCHANGED faults
          /\ api # "gone" /\ SameUID
          /\ LET first == IF config.reuse
                          THEN SharedSource(config, FetchedPod, referenced, v) ELSE NoVolume
             IN  IF first = NoVolume
                 THEN Goes(v, [call[v] EXCEPT !.pc = "resolve", !.saw = referenced,
                                 !.uid = FetchedPod.uid])
                 ELSE Goes(v, [call[v] EXCEPT !.pc = "wait", !.view = first,
                                 !.sources = <<ViewSource(FetchedPod, first)>>])

Code == [notReady |-> "Aborted", invalid |-> "InvalidArgument"]

\* Reads the claims, for the pod as it was fetched.
Resolve(v) ==
    LET names     == [i \in DOMAIN Volume(v).sources |-> Volume(v).sources[i].name]
        first(n)  == ResolveIn(config, [pod EXCEPT !.uid = call[v].uid], call[v].saw,
                               claim, SubSeq(names, 1, n))
        result    == first(Len(names))
    IN  /\ call[v].pc = "resolve"
        /\ UNCHANGED <<Node, mounted>>
        /\ \/ /\ Fault("api")
              /\ \E i \in DOMAIN names :
                    names[i] \in DOMAIN claim \cap call[v].saw /\ first(i - 1).error = "none"
              /\ Answer(v, "InvalidArgument")
           \/ /\ UNCHANGED faults
              /\ result.error # "none"
              /\ Answer(v, Code[result.error])
           \/ /\ UNCHANGED faults
              /\ result.error = "none"
              /\ Goes(v, [call[v] EXCEPT !.pc = "wait", !.sources = result.sources])

IsHostPath(source) == Head(source.path) = HostRoot

\* RealPath: where the links lead must be allowed as well.
RealPathAllowed(source) == IsHostPath(source) => HostPathAllowed(config, leads[source.name])

RealPath(source) ==
    IF IsHostPath(source) THEN <<HostRoot>> \o leads[source.name] ELSE source.path

IsReady(source) ==
    CASE source.name \in Unions -> IsMounted(source.name)
      [] IsHostPath(source)      -> TRUE
      [] OTHER                   -> IF source.csiBased THEN setUp[source.name] = "mounted"
                                                       ELSE setUp[source.name] # "none"

NotReady(v) == {i \in DOMAIN call[v].sources : ~IsReady(call[v].sources[i])}

PathsAllowed(v) == \A i \in DOMAIN call[v].sources : RealPathAllowed(call[v].sources[i])

\* One poll of WaitReady.  The deadline only counts when something is pending.
SourcesReady(v) ==
    /\ call[v].pc = "wait"
    /\ PathsAllowed(v)
    /\ NotReady(v) = {}
    /\ Goes(v, [call[v] EXCEPT !.pc = "mount"])
    /\ UNCHANGED <<Node, mounted, faults>>

WaitEnds(v) ==
    /\ call[v].pc = "wait"
    /\ ~PathsAllowed(v) \/ NotReady(v) # {}
    /\ Answer(v, "Aborted")
    /\ UNCHANGED <<Node, mounted, faults>>

MountSpec(v) ==
    LET declared == ParsedSources(Volume(v).sources) IN
    [sources  |-> [i \in DOMAIN call[v].sources |->
                      [path |-> RealPath(call[v].sources[i]), mode |-> declared[i].mode]],
     readOnly |-> Volume(v).readOnly]

IsView(v) == call[v].view # NoVolume

Plans(v) == IsView(v) \/ MountPlans(config, MountSpec(v))

Result(v) ==
    IF IsView(v)
    THEN [how |-> "view", of |-> call[v].view]
    ELSE [how |-> "own", layers |-> Layers(config, MountSpec(v)), options |-> call[v].options]

\* The answer may be lost: kubelet then calls again.
Mount(v) ==
    /\ call[v].pc = "mount"
    /\ PathsAllowed(v)
    /\ Plans(v)
    /\ mounted' = [mounted EXCEPT ![v] = Result(v)]
    /\ \/ UNCHANGED faults /\ Answer(v, "OK")
       \/ Fault("answer") /\ Answer(v, "none")
    /\ UNCHANGED Node

MountFails(v) ==
    /\ call[v].pc = "mount"
    /\ \/ UNCHANGED faults /\ ~PathsAllowed(v) /\ Answer(v, "Aborted")
       \/ UNCHANGED faults /\ PathsAllowed(v) /\ ~Plans(v) /\ Answer(v, "Internal")
       \/ Fault("mount") /\ PathsAllowed(v) /\ Answer(v, "Internal")
    /\ UNCHANGED <<Node, mounted>>

-----------------------------------------------------------------------------
(***************************************************************************)
(* The pod and the node                                                    *)
(***************************************************************************)
\* The claim appears, and is bound.
ClaimProceeds(name) ==
    /\ claim[name] # "bound"
    /\ claim' = [claim EXCEPT ![name] = IF @ = "missing" THEN "unbound" ELSE "bound"]
    /\ UNCHANGED <<config, pod, api, referenced, setUp, leads, late, call, mounted, answer, faults>>

\* Kubelet's volume plugins: a tmpfs holds the files of secrets, of the downward API and
\* of projections, and an emptyDir with a medium.
InMemory(volume) ==
    \/ volume.kind \in {"secret", "downwardAPI", "projected"}
    \/ volume.kind = "emptyDir" /\ volume.medium # ""

\* For these there is only a directory; anything else gets a mount.
IsDirectory(volume) ==
    \/ volume.kind \in {"configMap", "hostPath"}
    \/ volume.kind = "emptyDir" /\ volume.medium = ""
    \/ volume.kind \in ClaimKinds /\ volume.pv.kind = "hostPath"

\* Kubelet sets up a volume that a container mounts: makes its directory, and
\* mounts something there unless the directory is all there is to it.
SetUp(name) ==
    /\ name \in referenced \ Unions
    /\ name \in DOMAIN claim => claim[name] = "bound"
    /\ \/ setUp[name] = "none" /\ setUp' = [setUp EXCEPT ![name] = "dir"]
       \/ /\ setUp[name] = "dir" /\ ~IsDirectory(Volume(name))
          /\ setUp' = [setUp EXCEPT ![name] = "mounted"]
    /\ UNCHANGED <<config, pod, api, referenced, claim, leads, late, call, mounted, answer, faults>>

\* An ephemeral container is added that mounts a volume no other does.
AddContainer(name) ==
    /\ api = "own"
    /\ late < MaxLate
    /\ late' = late + 1
    /\ name \notin referenced
    /\ referenced' = referenced \cup {name}
    /\ UNCHANGED <<config, pod, api, claim, setUp, leads, call, mounted, answer, faults>>

\* The pod is deleted, and another one made under its name.
ReplacePod ==
    /\ Fault("replace")
    /\ api # "other"
    /\ api' = IF api = "own" THEN "gone" ELSE "other"
    /\ UNCHANGED <<config, pod, referenced, claim, setUp, leads, late, call, mounted, answer>>

\* A directory on the host becomes a link to another.
Relink(name) ==
    /\ Fault("relink")
    /\ leads[name] # <<>>
    /\ \E dir \in config.allowed \cup config.denied :
           leads' = [leads EXCEPT ![name] = dir]
    /\ UNCHANGED <<config, pod, api, referenced, claim, setUp, late, call, mounted, answer>>

DriverRestarts ==
    /\ Fault("restart")
    /\ call' = [v \in Unions |-> Idle]
    /\ UNCHANGED <<Node, mounted, answer>>

-----------------------------------------------------------------------------

Handler(v) ==
    \/ PublishAgain(v) \/ PublishRefuses(v) \/ Publish(v)
    \/ GetPod(v) \/ Resolve(v)
    \/ SourcesReady(v) \/ WaitEnds(v)
    \/ Mount(v) \/ MountFails(v)

Progress ==
    \/ \E name \in DOMAIN claim : ClaimProceeds(name)
    \/ \E name \in VolumeNames(pod) : SetUp(name)

Next ==
    \/ \E v \in Unions : Handler(v)
    \/ Progress
    \/ \E name \in VolumeNames(pod) : AddContainer(name) \/ Relink(name)
    \/ ReplacePod
    \/ DriverRestarts

Spec == Init /\ [][Next]_vars

AllUnions == UNION {{p.volumes[i].name : i \in {j \in DOMAIN p.volumes : IsUnion(p.volumes[j])}} :
                       p \in Pods}

\* Kubelet retries a volume until it is published, a call runs on, claims get
\* bound and kubelet sets up what it can.
FairSpec ==
    /\ Spec
    /\ \A v \in AllUnions : WF_vars(v \in Unions /\ Handler(v))
    /\ WF_vars(Progress)

-----------------------------------------------------------------------------
(***************************************************************************)
(* Properties                                                              *)
(***************************************************************************)
PCs   == {"idle", "getPod", "resolve", "wait", "mount"}
Codes == {"none", "OK", "Aborted", "InvalidArgument", "Internal"}

\* The shape of the state: a call under way has the sources and the view it
\* needs for its next step, and a volume mounts what it declares itself or is
\* a view of another union volume of the pod (node.go:31-129).
TypeOK ==
    /\ config \in Configs /\ pod \in Pods
    /\ api \in {"own", "gone", "other"}
    /\ referenced \subseteq VolumeNames(pod)
    /\ \A name \in DOMAIN claim : claim[name] \in {"missing", "unbound", "bound"}
    /\ setUp \in [VolumeNames(pod) -> {"none", "dir", "mounted"}]
    /\ answer \in [Unions -> Codes]
    /\ \A v \in Unions :
          /\ call[v].pc \in PCs
          /\ call[v].pc \in {"wait", "mount"} <=> call[v].sources # <<>>
          /\ call[v].view \in (Unions \ {v}) \cup {NoVolume}
          /\ DOMAIN call[v].options \subseteq DOMAIN config.schema
          /\ \/ mounted[v].how \in {"none", "own"}
             \/ mounted[v].how = "view" /\ mounted[v].of \in Unions \ {v}
    /\ faults \in 0 .. MaxFaults /\ late \in 0 .. MaxLate

Owns(v) == mounted[v].how = "own"

\* With --reuse-mounts a union that a pod declares more than once is mounted
\* once, and its other volumes are views of that mount, never of a view: every
\* call of every volume picks the same one (sharedSource, node.go:139-175).
OneMountPerUnion ==
    config.reuse =>
        \A v \in Unions : IsMounted(v) =>
            /\ \A w \in Unions \ {v} :
                  Owns(v) /\ Owns(w) => Declared(Volume(v)) # Declared(Volume(w))
            /\ ~Owns(v) => Owns(mounted[v].of)

\* No ephemeral container mounts a union that no other container does.
NoLateUnion == referenced \cap Unions = Admitted(config, pod) \cap Unions

\* So it is as long as the volumes that compete for a union stay the same: then
\* no restart, retry or overlap of calls gives it a second mount, and ephemeral
\* containers that mount other volumes do not either (node.go:139-175).
OneMountUnlessLate == NoLateUnion => OneMountPerUnion

\* A view shows the union its own volume declares, written to only if its own
\* volume may be: the volume it binds has the same declaration (unionDecl.equal,
\* node.go:199-201).
ViewShowsItsUnion ==
    \A v \in Unions : mounted[v].how = "view" =>
        Declared(Volume(v)) = Declared(Volume(mounted[v].of))

DirName(volume) == IF volume.kind \in ClaimKinds THEN volume.pv.name ELSE volume.name

\* The layers of a mount are the declared sources in their order, the leftmost
\* on top, and a layer can be written through the mount just when its source is
\* not RO and the volume is not read-only (planLayout, sandboxed).
LayersFollowDeclaration ==
    \A v \in Unions : Owns(v) =>
        LET declared == ParsedSources(Volume(v).sources)
            layers   == mounted[v].layers
        IN  /\ DOMAIN layers = DOMAIN declared
            /\ \A i \in DOMAIN layers :
                  /\ layers[i].writable <=> declared[i].mode # "RO" /\ ~Volume(v).readOnly
                  /\ \/ layers[i].path[1] = HostRoot
                     \/ layers[i].path[3] = DirName(Volume(declared[i].name))

\* A mount takes its sources from its own pod's volumes, also when the API
\* server has another pod of the same name by then, or from a host directory the
\* driver allows (GetPod, node.go:80; hostPaths.check after the links).
SourcesAreOwn ==
    \A v \in Unions : Owns(v) =>
        \A i \in DOMAIN mounted[v].layers :
            LET path == mounted[v].layers[i].path IN
            \/ path[1] = pod.uid
            \/ path[1] = HostRoot /\ HostPathAllowed(config, Tail(path))

Source(v, i) == Volume(Volume(v).sources[i].name)

\* Kubelet is done with the i-th source of v, or it is a directory of the host.
IsSetUpFor(v, i) ==
    \/ setUp[Source(v, i).name] = "mounted"
    \/ IsDirectory(Source(v, i)) /\ setUp[Source(v, i).name] = "dir"
    \/ mounted[v].layers[i].path[1] = HostRoot

\* A union never covers the empty directory that a source is before kubelet mounts it,
\* of any kind: kubelet has set up the sources first (README "It waits for kubelet to
\* publish the sibling volumes", WaitReady).
SourcesWereSetUp ==
    \A v \in Unions : Owns(v) => \A i \in DOMAIN Volume(v).sources : IsSetUpFor(v, i)

\* So it is for all but the sources in memory, which have at least their directory: what the
\* driver takes for a plain directory (resolve.go:169-186) kubelet mounts nothing on, or a
\* tmpfs; every other source was mounted before its union was (ready.go:77).
SourcesWereMounted ==
    \A v \in Unions : Owns(v) =>
        \A i \in DOMAIN Volume(v).sources :
            \/ IsSetUpFor(v, i)
            \/ InMemory(Source(v, i)) /\ setUp[Source(v, i).name] # "none"

\* What a union is mounted with is valid, has every forced value, and takes a
\* value from the pod for no key that is denied, by the admin's list or, unless
\* the admin gave one, by the backend's own.  A pod that asked for such a key, with
\* the denylist mode refuse, or for one that is not on the allowlist has no mount
\* (Policy.Resolve, main.go:169).
OptionsFollowPolicy ==
    \A v \in Unions : Owns(v) =>
        LET options  == mounted[v].options
            wanted   == ParsedOptions(Volume(v).options)
            flags    == config.flags
            denied   == (IF "option-denylist" \in flags.set THEN flags ELSE flags.own).denylist
            defaults == (IF "default-options" \in flags.set THEN flags ELSE flags.own).defaults
        IN  /\ CheckSchema(config, options)
            /\ DOMAIN flags.forced \cup DOMAIN defaults \subseteq DOMAIN options
            /\ \A k \in DOMAIN options :
                  options[k] = IF k \in DOMAIN flags.forced THEN flags.forced[k]
                               ELSE IF k \in DOMAIN wanted \ denied
                               THEN wanted[k] ELSE defaults[k]
            /\ flags.mode = "refuse" => DOMAIN wanted \cap denied = {}
            /\ flags.allowlist # {} => DOMAIN wanted \subseteq flags.allowlist \cup denied

\* The claim, if it is one, may become usable.
Hopeful(volume) ==
    \/ volume.kind \in PlainKinds \cup MountedKinds
    \/ volume.kind = "hostPath" /\ HostPathAllowed(config, volume.path)
    \/ /\ volume.kind = "pvc" \/ (volume.kind = "ephemeral" /\ volume.owned)
       /\ \/ volume.pv.kind \in MountedKinds \cup {"local"}
          \/ volume.pv.kind = "hostPath" /\ HostPathAllowed(config, volume.pv.path)

\* A volume the driver can publish sooner or later.
WellDeclared(v) ==
    /\ Accepts(v)
    /\ \A i \in DOMAIN Volume(v).sources :
          /\ Volume(v).sources[i].name \in VolumeNames(pod)
          /\ \/ Volume(v).sources[i].name \in referenced
             \/ config.autoMount /\ v \in pod.mounts
          /\ Hopeful(Source(v, i))
          /\ leads[Source(v, i).name] # <<>> => HostPathAllowed(config, leads[Source(v, i).name])
          /\ config.backend = "overlay" /\ i > 1 =>
                 ParsedSources(Volume(v).sources)[i].mode # "RW"

\* Kubelet has v to publish, for a pod that is there.
Wanted(v) == v \in referenced /\ api = "own"

\* A well declared volume that a container mounts gets published, however the
\* volumes of the pod wait for one another (WaitReady, publishShared), unless
\* the pod is deleted.  With the admission policy its sources need not be mounted
\* by a container (README "Not mounted", mutatingadmissionpolicy.yaml).
WellDeclaredIsPublished ==
    []<>(\A v \in Unions : Wanted(v) /\ WellDeclared(v) => IsMounted(v))

NoLinks == \A name \in VolumeNames(pod) : leads[name] = HostDir(Volume(name))

\* The union of v is refused, for v or for a volume that declares the same.
UnionRefused(v) ==
    \E w \in Unions \cap referenced :
        /\ Declared(Volume(w)) = Declared(Volume(v))
        /\ answer[w] \in {"InvalidArgument", "Internal"}

\* A volume that can never be published does not wait for ever: in the end it,
\* or the volume that would mount the union for it, is refused and not with the
\* code for a retry.  Unions that name each other are the hard case (cycle
\* guard, resolve.go:159).
HopelessIsRefused ==
    <>[](\A v \in Unions : Wanted(v) /\ ~WellDeclared(v) /\ NoLinks => UnionRefused(v))

=============================================================================
