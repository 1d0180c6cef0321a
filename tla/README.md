# A verification of the union CSI driver

TLA+ modules that model the core of union-csi-driver, TLC configurations that
check them on small instances, and proofs that TLAPS checks for every instance.
`PROJECT.json` lists the runs, the mutants that show each property can fail, the
source lines behind every definition, the hazards and the findings.

Paths below are relative to `src/`.

## 1. The system

The driver is a CSI node plugin. Kubelet asks it to publish an inline volume that
names other volumes of the same pod; the driver waits for those, and mounts a union
of them at the volume's target directory.

| Component | State | Operations | Hard behaviour |
| --- | --- | --- | --- |
| Node service (`pkg/driver/node.go`) | none of its own | `NodePublishVolume`, `NodeUnpublishVolume` | kubelet retries any call; what a handler saw before it took a lock is stale after |
| mergerfs backend (`pkg/backend/mergerfs/mergerfs.go`, `mount_linux.go`) | state file per volume, lock per volume, mounts and daemons on the host | `Mount`, `Share`, `Unmount` | every step can fail, and the driver can be restarted between any two |
| Reconcile pass (`reconcile_linux.go`) | the list of volumes of the pass | `ids`, `reconcile`, `remountUnion`, `rebindShared` | runs against the handlers; acts on a probe |
| Branch repair (`probe_linux.go`, `stale.go`) | the stale counter | `repairBranches` | daemons, sources and the driver come and go between passes; a replacement can half fail |
| Waiting for sources (`pkg/volsource/ready.go`) | none | `WaitReady` | a deadline against a source that appears late |
| Resolver, host paths, RealPath (`pkg/volsource/resolve.go`, `hostpaths.go`) | none | `GetPod`, `ResolveIn`, `RealPath`, `check` | symbolic links against a path policy |
| Overlay backend (`pkg/backend/overlay`, `bind_linux.go`) | upper and work directories in the writable volume, mounts on the host | `Mount`, `Share`, `Unmount` | no lock and no record: a call that kubelet gave up on goes on beside the next one; the volume is changed between the steps that open its workspace |
| Option policy, attributes (`pkg/backend/policy.go`, `pkg/driver/params.go`) | none | `Resolve`, `parseAttributes` | precedence of defaults, pod options and forced options; limits |
| Sharing (`node.go:139-201`) | none | `sharedSource` | all volumes of a pod must agree on who mounts the union |
| Server and endpoint (`pkg/driver/server.go`, `internal/endpoint`) | listener, server, clean-up function, the socket's path | start, serve, stop | the fields that `Stop` reads are set on another goroutine; a process that was killed leaves its path behind |
| Proxy (`internal/proxy/proxy.go`) | two listeners, pairs of connections | `Run`, `accept`, `copy`, `Close` | a close while one connection waits for its peer |
| Command line, admission policy (`cmd/union-csi-driver/main.go`, the chart's `mutatingadmissionpolicy.yaml`) | none | fall-back of flags, fatal checks; mounts added to a pod | flags that are set to nothing are not flags that are unset |
| Identity, chart templates | none | | constant answers and wiring |

How they interact. A publish handler checks whether the target is mounted, resolves
and waits for the sources, makes the directory and calls the backend. The backend
takes the supervisor's lock of the volume, writes the state file, starts a daemon,
waits for its mount and seals the control file. A volume that declares the union of
an earlier volume of the pod is a *view*: it waits for the earlier one and binds its
mount. The supervisor calls the pass at start, when a daemon exits and every 30s; the
pass takes the same lock for each volume it looks at. State files are what survives
the driver. With host systemd the daemons survive too. The overlay backend has the same
handlers above it and neither daemon, state file nor lock: what kubelet sees of it
rests on mountinfo and on kubelet's waiting for each answer. `main` runs either the
driver or, for Kubernetes' own tests, the proxy.

What makes each component correct:

- publish and unpublish are idempotent and complete under retries; an unpublish
  leaves neither mount, nor directory, nor record;
- a pass repairs what died, never touches what serves, never brings back what was
  unpublished;
- a view carries its union, sealed;
- a branch is replaced only after three passes in a row found it stale in the present
  daemon, and is replaced at last;
- forced options always win and denied ones never get through;
- the volumes of a pod agree on which of them mounts a shared union, so that two
  overlay mounts never share an upper directory;
- a mount has the layers its volume declares, taken from its own pod or from allowed
  host directories, each set up first; a resolved path stays allowed whatever links
  are changed;
- a publish that can succeed does at last, and one that cannot is refused;
- a mount has its upper and work directory in one workspace, no two mounts share one,
  and what is read-only stays so;
- whatever stops the driver, an orderly stop cuts no call short and kubelet reaches the
  driver again;
- a proxy that is closed ends, and so does each pair of connections.

## 2. Modules

### UnionVolume

What `backend.Backend` promises, as kubelet and the containers of a pod see it and
whichever backend it is. A target is `absent`, mounted (`serving`, `broken`, or
`unready`: not yet or not what was declared) or `gone`. Kubelet hears of success only
when there is a mount; a mount that was told of is not taken away before the pod is
deleted, unless it is broken or unready; what is gone stays gone. The promise ends
with the first step that disturbs it, and each backend says which those are.
`MergerfsBackend` and `Overlay` both implement it (`KeepsContract`), each with its own
mapping `Seen`.

### MergerfsBackend

The handlers, the backend, the pass and the host for any set of volumes. Two actors
can work on a volume: `"call"`, the one call kubelet has in flight for it, and
`"pass"`, the supervisor. `pc[actor][volume]` is a label; each step of the code that
changes something others can see is one action, and between two steps anything else
may happen.

| State | In the code |
| --- | --- |
| `pc`, labels in `Critical` | where a goroutine is; `Critical` is between `sup.Lock` and `sup.Unlock` |
| `recorded` | volumes with a state file (`states.Save`, `removeState`) |
| `dir`, `stack` | target directories, and the mounts stacked on each |
| `alive`, `stuck` | running daemons of a union; those that do not answer |
| `todo` | what is left of `ids()` in the running pass |
| `deleted`, `published`, `done` | what kubelet wants and knows |
| `faults`, `past` | how many faults have happened (bound `MaxFaults`), and which: the properties say by name what they make an exception for |

| Actions | In the code |
| --- | --- |
| `PublishAgain`, `Publish`, `SourcesReady`, `SourcesFail` | `NodePublishVolume`, `publishShared`, up to the backend |
| `Lock`, `AwaitServing`, `Save`, `Bind`, `BindFails` | `Mount`, `Share`, `mountUnion`, `shareUnion` |
| `Start`, `StartFails`, `Seal`, `SealFails` | `startDaemon`, by a handler or by a repair |
| `Unpublish`, `UnpublishLock`, `Unmount`, `StopScope`, `DropRecord`, `RemoveTarget` | `NodeUnpublishVolume`, `unmountUnion`; `Unmount` and `StopScope` are also the first steps of `remountUnion`, `Unmount` and `Bind` those of `rebindShared` |
| `PassBegins`, `ReconcileLeaves`, `ReconcileForgets`, `ReconcileRepairs` | `ids`, `reconcile` |
| `DeletePod`, `KubeletForgets`, `KubeletRemovesTarget` | kubelet |
| `DaemonCrashes`, `DaemonHangs`, `DaemonRecovers`, `DriverRestarts`, `NodeReboots` | the environment |

Assumed of what is outside the repository, from how it is used:

- kubelet has one call in flight for a volume, retries until it succeeds, and calls
  unpublish only once the pod is deleted;
- `sup.Start` that fails leaves the target as it was;
- `fusemount.Unmount` takes off the visible mount with the seal in it and accepts a
  target that is not mounted; a daemon exits when the last mount of it is gone;
- `fusemount.Bind` is recursive, so that it carries the seal, and copies whatever the
  source path shows, a bare directory included;
- `scope.Stop` ends every daemon of the volume, and does nothing without host systemd;
- a mount whose daemon hangs blocks a plain `stat` (`Answers`), while the prober
  answers `hung`.

Left out: a failing `removeState` in the error path of `Mount` (its error is dropped
there); what happens in between the two system calls of the seal; a process id that is
given again to another process while a mount still names the old one.

### BranchRepair

One daemon per volume, with a copy of each branch. `host` and `inner` are the states
of a branch on the host and in the daemon, `same` says that the copy is of the very
mount the host has, so that the two change together. A pass visits a volume with the
pid and the mount points it read once (`visit`), and probes the daemon's copy, then
the host, then counts, then replaces, as steps of their own. `stale` is the counter
as a total map; `streak` is a history variable with what the counter is meant to
count. A dead daemon is started again by the pass (`RestartDaemon`), without the
steps `MergerfsBackend` has for it.

### Overlay

The same handlers over the overlay backend, for the volumes of one pod. Up to
`MaxCalls` calls work on a volume at a time: kubelet makes the next call when it has an
answer or has given up on the last (`KubeletGivesUp`), and the handler it gave up on
goes on, since `WaitReady` looks at its context only while a source is missing and
`Mount` never does.

| State | In the code |
| --- | --- |
| `decl`, `fsopen` | the layout of each union (a writable layer, whether the filesystem of that can be an upper directory, a single layer, asked for read-only); whether the kernel has the new mount API |
| `call` | the calls under way: the label of the next system call, and what the call holds open: workspace, upper, work, a mount attached nowhere yet |
| `awaited` | the call kubelet waits for |
| `dir`, `stack` | target directories, and the mounts stacked on each: an overlay (`id`) with its upper and work, a bind of a single layer or of a bare directory, and its read-only flag |
| `entry`, `made` | what is at `.union-csi` in the RW volume: nothing, a link, or a directory known by when it was made |
| `deleted`, `published`, `done`, `faults`, `past` | as in MergerfsBackend |

| Actions | In the code |
| --- | --- |
| `PublishAgain`, `Publish`, `SourcesReady`, `SourcesFail` | `NodePublishVolume`, `publishShared`, up to the backend |
| `OpenWorkspace`, `OpenUpper`, `OpenWork` | `openWorkspace`, with `checkUpperFS`, which refuses a filesystem for good, and with `openDirNoFollow` for `upper` and `work` |
| `Create`, `Attach`; `MountClassic` | `mountFsconfig` up to `fsmount`, and `move_mount`; `mountClassic` |
| `Bind`, `Remount` | `backend.Bind` of a single layer or for a view, with its read-only remount and the detach if that fails |
| `Unpublish`, `Unmount`, `RemoveTarget` | `NodeUnpublishVolume` |
| `DeletePod`, `KubeletGivesUp`, `KubeletForgets`, `VolumeChanges`, `DriverKilled`, `NodeReboots` | kubelet, whoever can write to the volume, the node |

Assumed: an upper directory in use is `EBUSY` or is shared, as the kernel chooses
(`Create` may do either); a detached mount disappears with the descriptor that holds
it; mount(2) looks at whatever is on top of a target by then. Opening the lower layers is
in `RealPath`, the text of the mount options nowhere.

### Server, Proxy, Program

`Server` is the driver's process: the goroutine that serves (`serving`) sets up
listener, server and clean-up one after the other, the main goroutine (`main`) waits
for a signal and stops what there is. `socket` is what is at the endpoint's path. A
stop before there is a server dereferences nil and ends the process; kubelet
starts it again.

`Proxy` has its two listeners (`listening`), the clients the kernel has queued, the
goroutine that pairs connections (`acceptor`, with the accepted one that is `waiting`),
the ends of each pair that are open, and how far `Close` is.

`Program` composes the three: `mode` is what the command line chose. Kubelet's calls
get through while the server is reachable, `GracefulStop` waits for the handlers
(`Drains`), a kill or a reboot ends them all.

### HostPaths, Declarations, PublishPlan

`HostPaths` is the path policy of `hostpaths.go`. `Declarations` is what the driver
computes without state: the configuration a command line stands for and whether the
driver starts with it (`Configured`, `Starts`), the mounts that the admission policy adds
to a pod (`Admitted`), parsing of attributes, the option policy, `sharedSource`,
`ResolveIn` for each kind of volume, and the layers of a mount of each backend.
`PublishPlan` is the publish handler that calls them, for one pod with any volumes.
A call reads the pod, then the claims, then polls its sources, then mounts, and in
between any of it may change.

| State | In the code |
| --- | --- |
| `call` | for each union volume where its handler is, and the local variables it goes on with: `options`, the pod's uid and the referenced volumes it read (`uid`, `saw`), `sources`, the volume it is a `view` of |
| `mounted` | what a handler mounted: the layers and options, or a bind of another volume |
| `answer` | what kubelet was told last |
| `config` | what the command line stands for: backend, `--max-source-volumes`, `--reuse-mounts`, the option policy with the backend's own lists where a flag is unset, the host path policy, whether sources are mounted automatically. A command line with which the driver does not start gives no behaviour |
| `pod`, `api`, `referenced`, `claim`, `setUp`, `leads` | the world: the pod, what the API server has under its name, the volumes containers mount, the claims, kubelet's progress with the sources, where host directories lead through links |

| Actions | In the code |
| --- | --- |
| `PublishAgain`, `PublishRefuses`, `Publish` | `NodePublishVolume` up to `GetPod`: mounted already, attributes and policy |
| `GetPod`, `Resolve` | the reads of the pod and of the claims, with what is decided from each |
| `SourcesReady`, `WaitEnds` | one poll of `WaitReady`, the time-out, a policy refusal |
| `Mount`, `MountFails` | the rest, with planLayout and the backend's call as one step |
| `ClaimProceeds`, `SetUp`, `AddContainer`, `ReplacePod`, `Relink`, `DriverRestarts` | API server, kubelet, users, the node |

Abstractions: an attribute is the list it splits into; an option's value is its text
or the integer it stands for with the formats it has, with `MaxSeconds` in place of
2^32 - 1. A claim that is `"unbound"` is one without a volume name or one whose PV is
missing, which the code answers alike. A hostPath directory exists. Kubelet has one
call in flight for a volume; the mount is one step, since MergerfsBackend and Overlay
have its inner steps, and the unpublish. That step also takes the check of the links
(`node.go:104`) and the use of the path (`node.go:122`) together: overlay's `openLayer` and
mergerfs' sandbox refuse a path with links in it, so that a link made in between fails the
mount (RealPath has the two apart, for overlay). With `--mergerfs-sandbox=false` nothing
refuses it, and `SourcesAreOwn` does not speak of that configuration.

What kubelet does for a volume is modelled apart from what the driver takes it for. The
driver waits for a mount or for a directory, by the kind of the volume (`PlainKinds`,
`MountedKinds`, `ResolvePV`). Kubelet (`SetUp`, external) makes the directory and then mounts
something there, except for a configMap, a host directory and an emptyDir on disk
(`IsDirectory`); on secrets, projected and downward API volumes and an emptyDir with a medium
it mounts a tmpfs (`InMemory`).

Which of the containers the admission policy gives a mount makes no difference to kubelet or
the driver and is left out. A layer says from which part of its source it is taken: with
overlay the writable one is a directory inside it.
Assumed of the constants (`PodAssumption`, `CommandLineAssumption`): what the API server
checks of a pod, that its volumes have names of their own and that containers mount only
volumes it has; that host directories are paths; and that a command line has its flags.

### RealPath

`SourcePath.RealPath` for a hostPath source with a step per system call, then
`openLayer` of the overlay backend, while someone keeps changing directories and
links. A path is a sequence of names. The driver sees the allowed directories and
their ancestors only (`Visible`). `lstat` and `readlink` refuse a link only as the last
name, so a walk whose earlier directories have changed may see anything (`Sees`).
Files that are not directories, and the fallback without `openat2`, are left out.
Assumed of the constants: nobody changes the ancestors of an allowed directory, which are
the driver's own (`SlotAssumption`). `Meaning` says what a path leads to, by recursion on its
last name and on the links that may still be followed, where the walk goes from name to name
and puts the target of a link before the rest.

`MCMergerfsBackend`, `MCProgram`, `MCBranchRepair`, `MCPublishPlan` and `MCRealPath` hold
the instances; `MergerfsBackendProofs`, `MergerfsContractProofs`, `ProgramProofs`,
`ProgramContractProofs`, `BranchRepairProofs`, `PublishPlanProofs`, `RealPathProofs` and
`PathMeaningProofs` the theorems. No module has a `RECURSIVE` operator: joining names
(`Join`) and the reference definition of path resolution (`Meaning`) are recursive functions.

## 3. Runs

| Run | Instance and bounds | Shows |
| --- | --- | --- |
| Backend | mergerfs: one union, a view; all 13 kinds of fault, 2 in a behaviour | `TypeOK`, four safety invariants, `ServingDaemonNeverStopped`, `KeepsContract`, five liveness properties |
| Program | overlay, server and proxy: one union of any layout, a view; two calls at a time for a volume; all 14 kinds of fault, 1 in a behaviour | `TypeOK`, `NoSharedUpper`, `OneWorkspace`, `PublishedIsReadOnly`, `KeepsContract`, `StopCutsNoCall`, five liveness properties |
| BranchRepair | one volume, two branches; 5 events | `TypeOK`, `ReplacedOnlyAfterARun`, `StaleBranchIsReplaced`, `CountersAreDropped` |
| PublishPlan | ten pods of up to three union volumes, some with sources in memory, five command lines, with two of which the driver does not start; any 2 of 6 kinds of fault, one ephemeral container | `TypeOK` and six invariants on what gets mounted |
| PublishLiveness | the five pods whose volumes wait, both backends; a failing mount, an ephemeral container | `WellDeclaredIsPublished`, `HopelessIsRefused` |
| RealPath | a tree with two places that change for ever, eight link targets, a limit of 2 links | `TypeOK`, `OpenedIsAllowed`, `FindsWhatIsMeant`, `WalkEnds` |
| RemountInterrupted, RepeatedPublish, ViewRace | mergerfs: one union, a view | the first three findings below |
| LateContainer | the pod `Shared`, overlay, one ephemeral container | the fourth |
| ReadOnlyRace | overlay: one union, a view; one call at a time, no fault | the fifth |
| SourceInMemory | the pod `SharedReadOnly`, with a projected volume as source; no fault | the sixth |

Bounds. Volumes meet only through the view of a union and through the pass, which
takes one volume at a time; one union with a view has both. Two faults interrupt a repair
and then its retry or its clean-up. `MaxDaemons` bounds the daemons that some mount still
names, and is larger than the runs need: in no run is a start held up for want of a free
pid. In BranchRepair five events cover a source replaced, its copy dying, a replacement
that fails half way and a restart of the daemon and of the driver; `MaxDaemons` allows a
restart after every one of them.

In Program two calls for a volume are the most that one outlived call gives; four overlay
mounts and three workspaces are more than they can make. One fault keeps the liveness
check within minutes; with `Spec` and two faults the invariants and the action properties
hold too, on some 660 000 states, and the proofs have no bound. Two clients for each
endpoint give the proxy a complete pair and a connection that waits.

The pods of PublishPlan are chosen so that each kind of source, each refusal of the
parser, the schema, the policy and the resolver, and each way to share or not to share
a union occurs in one of them; the configurations put each key into another part of
the policy. Two faults are enough for a restart or a relink in one call and a
failure in the retry. RealPath has a chain of as many links as the limit allows, longer
ones while links change, loops of one and two links, links up, down, out of the allowed
directories and into the denied one, from a start that goes through a link and one that ends in it.

Deadlock checking stays on in MergerfsBackend, where the pass can always begin again,
and in RealPath, where links can always change. In PublishPlan kubelet is done once
every volume is published or the pod is gone, and in Program once every volume is
unpublished or the proxy is closed, so there it is off.

Fairness (`FairSpec`). Kubelet retries with backoff for ever, the supervisor runs a
pass every 30s, and a goroutine that can run does: weak fairness of the calls, the
steps and the passes. A step that takes a lock has strong fairness, since a Go mutex
is handed to a waiter that starves. Nothing is assumed of the environment: a daemon
that hangs may hang for ever, and the liveness properties except the volumes it
serves. In BranchRepair the pass is one goroutine, with weak fairness. In PublishPlan
the handler of each volume has weak fairness, which is kubelet's retry and a goroutine
that runs on, and so has the progress of claims and sources. A wait may time out again
and again while something is pending; with nothing pending it ends in success. In RealPath
the walk goes on however often links change. In Program kubelet starts the container
again (weak fairness), goroutines of driver and proxy run on (weak), and kubelet's calls
have strong fairness: it repeats them for ever, and they get through only while the
driver is up. The signal, the kill, clients that connect or hang up and the close
of the proxy need never come.

Exceptions. Some properties do not hold after certain faults, which the violation runs
show or section 4 reports, and name those faults themselves. In MergerfsBackend,
`Disturbed` is a restart of the driver or a repeated publish of what kubelet knows to be mounted (`forget`), and
`Recoverable` a single fault that is no restart. In Program, `Outlived` is a call that
kubelet gave up on, the contract also ends with `forget`, and `PublishedIsReadOnly` with
a kill; `UnpublishCompletes`, `OneWorkspace` and `StopCutsNoCall` have no exception, and
`PublishCompletes` excepts a filesystem that cannot be an upper directory and a link in place
of the workspace, which the driver refuses for ever, and the view of a union that an outlived
call has undone. In PublishPlan `SourcesWereMounted` excepts sources in memory, as
SourceInMemory shows it must, and one ephemeral container may come;
`OneMountUnlessLate` says that a union is mounted once unless it brings in a union that no
container mounted before, which is what LateContainer shows.

`WellDeclaredIsPublished` and `HopelessIsRefused` divide the volumes of the pod: the
first says that every volume the driver could publish is published, also when it is
a view, the second that of every other union some volume is told so with an error that
is not a mere retry. They speak of pods that are there and, for the second, of host
directories as declared.

## 4. Findings

- **An interrupted remount is not taken up again** (RemountInterrupted). A repair
  detaches the dead mount and then starts a daemon. If the driver restarts, `Stop`
  fails or the start fails in between, the target is a plain directory, which every
  later pass leaves alone as "a mount still being set up", and kubelet has no reason
  to publish again. A crash of the new daemon before it is sealed has the same effect.
- **A repeated publish can mount twice** (RepeatedPublish). The handler looks for a
  mount before it has the lock, `Mount` does not look again. A second daemon covers
  the first.
- **A view can be bound to the wrong thing** (ViewRace). The check that the union
  serves and the bind are two steps under the lock of the view, not of the union.
- **An ephemeral container can give a union a second mount** (LateContainer). Which
  volume mounts a shared union is decided anew in each call from the volumes that
  containers mount at that time. A volume declared earlier that nobody mounted at first
  comes before the one that mounted the union, and mounts it too: with overlay and an
  `RW` source on the same upper and work directories.
- **A view of a read-only union can be written** (ReadOnlyRace). A union without a
  writable layer is read-only whether or not the volume says so. A single layer becomes so
  by a bind and then a remount; a view that binds it in between, whose own volume does not
  ask for read-only, gets a writable mount of an `RO` source and keeps it.
- **A union can cover the directory below a source in memory** (SourceInMemory). For secrets,
  projected and downward API volumes and an emptyDir with a medium the driver waits for the
  directory only, and kubelet mounts a tmpfs on it a moment later. A union made in between
  shows the empty directory, and stays so.

Observations with no run of their own:

- a driver that restarts between the start of a daemon and the seal leaves the union
  unsealed (`mount_linux.go:111`): the pass finds a live mount and kubelet a mounted target,
  nothing seals it, though `README.md:307-308` says that a live mount is sealed, and its views
  wait for a sealed union for ever (`UninterruptedUnionGetsSealed` and `PublishCompletes`
  except a restart);
- a start whose seal fails, and whose unmount then fails as well, which nothing reports
  (`mount_linux.go:113`), kills the daemon under its mount and removes the record; the
  repeated publish takes the dead mount for a success (`node.go:258`), and no pass knows of
  it (`OneDeadUnionIsRemounted` excepts a second fault);
- an explicitly empty `--option-denylist` denies nothing. The help of the flag
  (`main.go:109`) says "(empty: backend default)"; the code and the comment above it
  (`main.go:166-175`, "so an explicitly empty list stays empty") keep the list as it was given,
  and so do `Configured` and `OptionsFollowPolicy`. The chart never passes an empty one;
- a driver killed between the bind of a single layer and its remount leaves it writable, and
  the repeated publish takes the mounted target as done (`PublishedIsReadOnly` excepts a
  kill);
- a call that kubelet gave up on can mount after the unpublish, on a target nobody will
  unpublish again, and one whose remount fails detaches whatever is on top of the target, a
  bind that a later call has answered for included (`Undone`);
- nothing keeps two unions of one pod, or of two pods, from naming the same volume as `RW`
  with the same workspace; `NoSharedUpper` is about the mounts of one union and its views;
- a `Stop` that comes before `serve` has set its fields panics; no call is under way then,
  and kubelet restarts the container;
- the proxy's `main` returns right after `Close`, so that the process may be gone before its
  goroutine has closed a waiting connection;
- the comment at `mount_linux.go:55-57` says that the reconcile loop repairs a state
  file whose mount never came up; the pass leaves the plain directory alone, and it is
  kubelet's retry that mounts it;
- `Joined` cleans a link's names as text: a link `y/../../q`, with `y` a link itself, can
  lead to an allowed directory and be refused, or seem to lead to one (`/etc/../data`)
  and then be reported as missing rather than refused, which waits instead of failing
  (`resolve.go:356-360`). `FindsWhatIsMeant` excepts the first;
- the host path policy is applied to the source's directory; the upper and work directories
  inside it are not compared with the denied ones again;
- `policy.go:15` and `README.md:249` say that the denylist mode `strip` logs the option
  it drops; `Resolve` does not;
- a view of a union that is refused gets `Aborted` on every retry; only the volume that
  would mount the union gets the reason;
- a source unmounted between the host's probe and `ReplaceIn` gives the daemon a clone
  of a plain directory, which no later pass calls stale.

## 5. Proofs

`MergerfsBackendProofs` proves, for every set of volumes, pods, kinds of fault and
every bound, from the three named assumptions on the constants of `MergerfsBackend`:

- `TypeCorrect`: `Spec => []TypeOK`;
- `NeverResurrected`: `Spec => []NoResurrection`;
- `DetachesOnlyDead`: `Spec => []PassDetachesOnlyDead`;
- `Invariance`: `Spec => []IInv`, from which the two follow.

Neither safety property is inductive. That an unpublished volume stays gone rests on
the pass not holding it when the record is dropped, hence `MutualExclusion`; on a
repair having its record all along, `RepairIsRecorded`, so that a pass which comes
later finds nothing to repair; on an unpublish being the last call
(`UnpublishIsFinal`), so that no publish writes a new record; and on `NothingLeft`,
which says step by step what an unpublish has removed, with `MountHasDir`. That a pass
detaches only dead mounts needs that nobody mounts on the target between the probe and
the unmount (`MutualExclusion`) and that no dead mount comes to life: a new daemon
takes a pid that no mount names. That is `DetachesDead`, carried through every step by
the lemma `DetachesDeadFrame`.

Each lemma of preservation has one step per action. `TypeOK` is proved first, with
lemmas on what `Push` and `Pop` do to a stack.

`MergerfsContractProofs` adds what holds while nothing has disturbed the backend:
`MountsOnce`, `LiveIsRecorded`, `NeverStopped`, and `Implements`, the refinement
`Spec => KeepsContract`: initial states map to initial states, every step to a step of
`UnionVolume` or to one it cannot see. All rest on `StaysTidy`. Its invariant `Tidy` says
of every volume what each label finds: a publish works on a bare target that no repair
works on, what was detached stays so until its actor goes on, the record comes before the
mount, a union runs no daemon but the one that serves it, and kubelet knows of every
volume a pass may repair, which is why it does not publish at the same time.

`ProgramProofs` proves, from the assumptions on the constants of `Overlay` and `Proxy`,
`TypeCorrect`, `StopWaits` (`Spec => StopCutsNoCall`) and `WorkspaceIsOne`
(`Spec => []OneWorkspace`). The second needs `ServerInv`: a handler runs only under a
server that accepts or has stopped accepting and waits, and `main` comes to its clean-up
only past that wait. The third needs `PairedCall`: between the two opens a call has the
upper directory of the workspace it opened, at any other time both of one workspace.

`ProgramContractProofs` proves `UppersAreOwn` (`Spec => []NoSharedUpper`),
`ReadOnlyWhenTold` (`Spec => []PublishedIsReadOnly`) and `ProgramImplements`
(`Spec => KeepsContract`) from the invariant `Calm` (`StaysCalm`). While no call was
outlived, `Local` says that a call under way is the one kubelet waits for, so that there
is one per volume; that a publish has nothing mounted at its target, so that a target has
one mount; and that an unpublish is for a deleted pod. `Family` says that a union being
published is shown by no target yet, that its views show the overlay mount that the
union's own target shows, and that it does not go before the pod is deleted. `Kept` is the
read-only flag between the steps. The lemma `StepShapes` reduces the twelve steps of a call
to seven shapes, each with one change to one volume, and the other lemmas argue about these.

`BranchRepairProofs` proves, for every set of volumes and branches and every bound,
`TypeCorrect` (`Spec => []TypeOK`) and `ReplacedAfterARun`
(`Spec => []ReplacedOnlyAfterARun`). The property speaks of `streak`, the code acts on
`stale`; what ties them is `RunWithinStreak`: a count of the daemon that runs now never
exceeds the streak. A new daemon resets the streak and not the count, so the proof also
needs that counts name only past daemons (`RunsNamePastDaemons`) and that a visit works
with the pid of the present one (`VisitsPresentDaemon`).

`RealPathProofs` proves, for every policy, tree, set of link targets and limit,
`TypeCorrect` (`Spec => []TypeOK`, with the count of links within the limit) and
`OnlyAllowedIsOpened` (`Spec => []OpenedIsAllowed`). What is opened is the path that was
checked, not what is there now: the inductive `FoundIsAllowed` says that a walk that
has found something stands at an allowed path, and the lemma `OpensWhatWasFound` that
the open goes there and nowhere else.

`PathMeaningProofs` proves `WalkFindsWhatIsMeant` (`Spec => []FindsWhatIsMeant`), for trees of
any size and shape, loops included. A recursive function in TLA+ is a `CHOOSE`, and its
equation holds only if such a function exists. The library's theorem on this has an operator
as parameter; `RecursiveFunction` states it with a function from pairs instead, for any relation
without endless descent, and takes as graph the least set of pairs closed under the recursion.
`MeaningIsLawful` and `JoinLaw` are its two uses, and everything after them speaks of `Lawful`
functions, those that satisfy the equation. Inductions on paths go by a shortest
counterexample (`LeastNumber`).

- `InTwoParts`: the meaning of `a \o b` is that of `b` from where `a` leads, with the links `a`
  took no longer to be had. `Meaning` takes paths apart at the end, the walk at the front
  (`ByFirstName`), and this is where the two meet.
- `StepMeans`, `LinkMeans`: each step of the walk keeps the meaning of what is left.
- `UnreachableIsNotFound`: if the names of a link, joined as text, lead where the driver does
  not see, then looking finds nothing there either, as long as no `..` follows a name. Until the
  first link joining and looking agree, and from there on all is below an allowed directory,
  where every link is (`SlotAssumption`): so the refusal of `resolve.go:358` loses nothing but
  links that go up again after a name.

The inductive `WalkInv` says, while nothing has changed, that the walk stands on directories
alone, so that `lstat` sees what is there; that a link about to be read is still the link that
was counted; and that what is left of the walk means what the whole path means (`Follows`).

`PublishPlanProofs` proves all seven invariants of PublishPlan, for every set of pods and
command lines and every bound:

- `TypeCorrect`, `ViewsShowTheirUnion`, `LayersAsDeclared`, `SourcesStayOwn`,
  `MountedSourcesFirst` and `OptionsObeyPolicy` follow from `Invariance` (`Spec => []IInv`);
- `VolumesAgree` (`Spec => []OneMountUnlessLate`) needs `Agreement` as well.

`IInv` is `Shape`, the types, with what each call (`CallFits`) and each mount (`MountFits`) of a
volume has behind it. A call goes on with what it read earlier, while the pod is replaced, claims
proceed and links change. `CallFits` says what of it cannot become false: the options are those
the policy gives, the uid is the pod's, the sources are resolved from the declaration, and once
they were seen ready they are what the driver waits for or are allowed host directories.
`MountedSourcesFirst` then compares what the driver waits for with what kubelet does for a
volume of the kind, and has the exception of the property, sources in memory. That a pod with
options the lists refuse has no mount is the lemma `AcceptedAre`. That these stay true is
`Grows`: steps add to what is mounted, set up and referenced and take nothing away, and the lemmas
that carry `CallFits` and `MountFits` along need no more of a step than that. Each action then has
one lemma for the one volume it works on.

`Agreement` says that every call chooses, and every mount stems from, the volume that
`sharedSource` picks among the volumes the pod was admitted with. The lemmas on
`sharedSource` show that what it picks is earlier, declares the same and picks nothing itself, so
that there is no view of a view, and that the choice depends only on which unions are mounted by
some container; `NoLateUnion` says that those have not become more. Lemmas on the parser, the
policy and the layouts of the two backends tie what is mounted to what was declared.

All safety and action properties that a run checks are proved. Only model-checked: liveness,
which is out of the prover's reach.

## 6. What is left

1. Handlers of the mergerfs backend that outlive their caller. They are modelled for the
   overlay backend, where no lock orders them.
2. Two driver processes that overlap while a pod is replaced.

Not modelled, and why: identity answers (constants); the splitting of flag values and the
text of argument lists, mount options, JSON and mountinfo, and log output (formats, with no
state behind them); the names of scopes and files; the chart's templates, which fill in
flags and mounts; build and release scripts, which are no part of the driver.
