-------------------------- MODULE MergerfsBackend --------------------------
(***************************************************************************)
(* The mergerfs backend of the driver: the gRPC handlers that publish and  *)
(* unpublish a volume, the reconcile pass that repairs mounts whose daemon *)
(* died, the state files both of them share, and what surrounds them:      *)
(* kubelet, the mounts on the host, and the mergerfs daemons.              *)
(*                                                                         *)
(* A handler or a pass is a sequence of labelled steps.  A step is one     *)
(* call of the code that changes shared state; between two steps anything  *)
(* else may run.  Faults (a daemon crash, a failing system call, a driver  *)
(* restart...) draw on one budget, MaxFaults.                              *)
(***************************************************************************)
EXTENDS Integers, Sequences

CONSTANTS
    Unions,       \* volumes that mount a union of their own
    Views,        \* volumes that declare a union an earlier volume of the pod mounts
    SharedFrom,   \* the union each view is a bind of
    Pods,         \* the pods on this node
    PodOf,        \* the pod a volume belongs to
    MaxDaemons,   \* bound on the daemons of one union that any mount still names
    HostSystemd,  \* daemons live in a scope of the host's systemd, not in the driver's pod
    SealControl,  \* --mergerfs-seal-control-file
    FaultKinds,   \* the faults this instance allows
    MaxFaults     \* bound on how many faults happen in one behaviour

Volumes == Unions \cup Views

ASSUME VolumeAssumption ==
    /\ Unions \cap Views = {}
    /\ SharedFrom \in [Views -> Unions]
    /\ PodOf \in [Volumes -> Pods]
    /\ \A v \in Views : PodOf[v] = PodOf[SharedFrom[v]]

ASSUME BoundAssumption == MaxDaemons \in Nat /\ MaxFaults \in Nat

ASSUME FlagAssumption == HostSystemd \in BOOLEAN /\ SealControl \in BOOLEAN

VARIABLES
    deleted,    \* pods being deleted, whose volumes kubelet unpublishes
    published,  \* volumes whose publish kubelet knows to have succeeded
    done,       \* volumes whose unpublish succeeded
    dir,        \* volumes whose target directory exists
    stack,      \* the mounts stacked on each target, the visible one last
    recorded,   \* volumes with a state file
    alive,      \* the running daemons of each union
    stuck,      \* the running daemons of each union that do not answer
    pc,         \* where the call and the pass are, for each volume
    todo,       \* volumes the running pass has yet to reconcile
    faults,     \* how many faults have happened
    past        \* history: the faults of Disturbing that have happened

hostVars    == <<dir, stack, alive, stuck>>
kubeletVars == <<deleted, published, done>>
faultVars   == <<faults, past>>
vars == <<kubeletVars, hostVars, recorded, pc, todo, faultVars>>

(***************************************************************************)
(* Kubelet has at most one call in flight for a volume and the supervisor  *)
(* runs one pass, so two actors can work on a volume.                      *)
(***************************************************************************)
Actors == {"call", "pass"}

CallLabels == {"idle", "wait", "lock", "serve", "save", "start", "seal", "bind",
               "ulock", "unmount", "stop", "drop", "remove"}
PassLabels == {"idle", "unmount", "stop", "start", "seal", "bind"}

\* The labels at which an actor holds the supervisor's lock of the volume.
Critical == {"serve", "save", "start", "seal", "bind", "unmount", "stop", "drop"}

Pids == 1 .. MaxDaemons

\* A mount names the daemon that serves it, 0 for a bind of a plain directory.
Layer == [pid : Pids \cup {0}, sealed : BOOLEAN]

\* The union whose daemons serve the mounts of a volume.
Source(v) == IF v \in Views THEN SharedFrom[v] ELSE v

-----------------------------------------------------------------------------
(***************************************************************************)
(* Looking at the host.                                                    *)
(***************************************************************************)
Mounted(v) == stack[v] # <<>>
Top(v)     == stack[v][Len(stack[v])]

\* What fusemount's prober answers for the target of a volume; "hung" is ErrHung.
Probe(v) ==
    IF v \notin dir THEN "gone"
    ELSE IF ~Mounted(v) \/ Top(v).pid = 0 THEN "other"
    ELSE IF Top(v).pid \notin alive[Source(v)] THEN "dead"
    ELSE IF Top(v).pid \in stuck[Source(v)] THEN "hung"
    ELSE "live"

\* serving: a live mount with its control file sealed.
Serving(v) == Probe(v) = "live" /\ (SealControl => Top(v).sealed)

\* Mutant: a corrupted mount does not count as a mount.
IsMountedIfServed(v) == Mounted(v) /\ Probe(v) # "dead"

\* isMounted: the handlers' own check; it stats the target, so it hangs with the daemon.
IsMounted(v) == Mounted(v)
Answers(v)   == Probe(v) # "hung"

\* WaitReady for the union a view waits for: a mount point that is not corrupted.
SourceReady(v) ==
    v \in Views => /\ Mounted(SharedFrom[v])
                   /\ Probe(SharedFrom[v]) \in {"live", "other"}


\* Some mount of the host is served by daemon k of union u.
Referenced(stk, u, k) ==
    \E v \in Volumes : Source(v) = u /\ \E i \in DOMAIN stk[v] : stk[v][i].pid = k

\* A pid nothing names any more; the lowest one, so that equal states are equal.
FreePid(u, k)  == k \notin alive[u] /\ ~Referenced(stack, u, k)
FreshPids(u)   == {k \in Pids : FreePid(u, k) /\ \A j \in 1 .. k - 1 : ~FreePid(u, j)}

-----------------------------------------------------------------------------
(***************************************************************************)
(* Steps of an actor.                                                      *)
(***************************************************************************)
Holds(a, v) == pc[a][v] \in Critical

\* Mutant: Mount, Share, Unmount and the pass do not take the lock.
NeverLocked(v) == v \in Volumes

LockFree(v) == \A a \in Actors : ~Holds(a, v)

At(a, v, l)   == pc[a][v] = l
Goto(a, v, l) == pc' = [pc EXCEPT ![a][v] = l]

\* The faults after which kubelet may call for a target that is mounted, or that a repair
\* has detached for the moment.
Disturbing == {"restart", "forget"}

Fault(kind) ==
    /\ kind \in FaultKinds /\ faults < MaxFaults
    /\ faults' = faults + 1
    /\ past' = past \cup ({kind} \cap Disturbing)
NoFault == UNCHANGED faultVars

Disturbed == past # {}

\* The handler returns OK, which kubelet learns; a repair only ends.
Succeed(a, v) ==
    /\ Goto(a, v, "idle")
    /\ published' = IF a = "call" THEN published \cup {v} ELSE published

\* Mount and Share take their record back when they fail; a repair keeps it.
Fail(a, v) ==
    /\ Goto(a, v, "idle")
    /\ recorded' = IF a = "call" THEN recorded \ {v} ELSE recorded

Push(v, layer) == stack' = [stack EXCEPT ![v] = Append(@, layer)]

\* umount of the visible mount: a target that is not mounted stays as it is, and a
\* daemon exits once none of its mounts is left.  The daemons in kill are killed as well.
Pop(v, kill) ==
    /\ stack' = [stack EXCEPT ![v] = IF @ = <<>> THEN @ ELSE SubSeq(@, 1, Len(@) - 1)]
    /\ alive' = [u \in Unions |->
                    {k \in alive[u] : Referenced(stack', u, k) /\ ~(u = v /\ k \in kill)}]
    /\ stuck' = [u \in Unions |-> stuck[u] \cap alive'[u]]

-----------------------------------------------------------------------------
(***************************************************************************)
(* NodePublishVolume.                                                      *)
(***************************************************************************)

\* Kubelet calls, and the handler finds the target mounted: nothing to do.
PublishAgain(v) ==
    /\ PodOf[v] \notin deleted /\ v \notin published
    /\ At("call", v, "idle")
    /\ Answers(v) /\ IsMounted(v)
    /\ published' = published \cup {v}
    /\ UNCHANGED <<deleted, done, hostVars, recorded, pc, todo, faultVars>>

\* Kubelet calls, and the handler goes on to wait for the sources.
Publish(v) ==
    /\ PodOf[v] \notin deleted /\ v \notin published
    /\ At("call", v, "idle")
    /\ Answers(v) /\ ~IsMounted(v)
    /\ Goto("call", v, "wait")
    /\ UNCHANGED <<kubeletVars, hostVars, recorded, todo, faultVars>>

\* The sources are ready and resolved, and the target directory is there.
SourcesReady(v) ==
    /\ At("call", v, "wait")
    /\ SourceReady(v)
    /\ dir' = dir \cup {v}
    /\ Goto("call", v, "lock")
    /\ UNCHANGED <<kubeletVars, stack, alive, stuck, recorded, todo, faultVars>>

\* publishTimeout passed without the union of a view, or a step before the mount failed.
SourcesFail(v) ==
    /\ At("call", v, "wait")
    /\ \/ v \in Views /\ Answers(SharedFrom[v]) /\ ~SourceReady(v) /\ NoFault
       \/ Fault("wait")
    /\ Goto("call", v, "idle")
    /\ UNCHANGED <<kubeletVars, hostVars, recorded, todo>>

\* Mount and Share take the lock of the volume.
Lock(v) ==
    /\ At("call", v, "lock")
    /\ LockFree(v)
    /\ Goto("call", v, IF v \in Views THEN "serve" ELSE "save")
    /\ UNCHANGED <<kubeletVars, hostVars, recorded, todo, faultVars>>

\* shareUnion waits, up to mountWaitTimeout, for a live and sealed union.
AwaitServing(v) ==
    /\ At("call", v, "serve")
    /\ Goto("call", v, IF Serving(SharedFrom[v]) THEN "save" ELSE "idle")
    /\ UNCHANGED <<kubeletVars, hostVars, recorded, todo, faultVars>>

\* The state file is written before the daemon starts or the view is bound.
Save(v) ==
    /\ At("call", v, "save")
    /\ \/ /\ recorded' = recorded \cup {v}
          /\ Goto("call", v, IF v \in Views THEN "bind" ELSE "start")
          /\ NoFault
       \/ Fault("save") /\ Goto("call", v, "idle") /\ UNCHANGED recorded
    /\ UNCHANGED <<kubeletVars, hostVars, todo>>

\* Mutant: the daemon is started and its control file never sealed.
StartOnly(a, u) ==
    /\ At(a, u, "start")
    /\ u \in dir
    /\ \E k \in FreshPids(u) :
          /\ Push(u, [pid |-> k, sealed |-> FALSE])
          /\ alive' = [alive EXCEPT ![u] = @ \cup {k}]
    /\ Succeed(a, u)
    /\ UNCHANGED <<deleted, done, dir, stuck, recorded, todo, faultVars>>

\* The supervisor starts a daemon, waits for its mount and adopts it into its scope.
Start(a, u) ==
    /\ At(a, u, "start")
    /\ u \in dir
    /\ \E k \in FreshPids(u) :
          /\ Push(u, [pid |-> k, sealed |-> FALSE])
          /\ alive' = [alive EXCEPT ![u] = @ \cup {k}]
    /\ IF SealControl THEN Goto(a, u, "seal") /\ UNCHANGED published
                      ELSE Succeed(a, u)
    /\ UNCHANGED <<deleted, done, dir, stuck, recorded, todo, faultVars>>

\* A start that fails leaves the target as it was.
StartFails(a, u) ==
    /\ At(a, u, "start")
    /\ \/ u \notin dir /\ NoFault
       \/ Fault("start")
    /\ Fail(a, u)
    /\ UNCHANGED <<kubeletVars, hostVars, todo>>

\* The control file is bound read-only over itself.
Seal(a, u) ==
    /\ At(a, u, "seal")
    /\ Probe(u) = "live"
    /\ stack' = [stack EXCEPT ![u][Len(stack[u])] = [pid |-> Top(u).pid, sealed |-> TRUE]]
    /\ Succeed(a, u)
    /\ UNCHANGED <<deleted, done, dir, alive, stuck, recorded, todo, faultVars>>

\* Two system calls of one step fail, and the daemon is killed under its mount.
KilledInPlace(u) ==
    /\ {"seal", "umount"} \subseteq FaultKinds
    /\ faults + 1 < MaxFaults /\ faults' = faults + 2 /\ UNCHANGED past
    /\ alive' = [alive EXCEPT ![u] = @ \ {Top(u).pid}]
    /\ stuck' = [stuck EXCEPT ![u] = @ \ {Top(u).pid}]
    /\ UNCHANGED stack

\* The mount of a daemon whose control file cannot be sealed goes, and the daemon with
\* it.  That unmount may fail too, which nothing reports.
SealFails(a, u) ==
    /\ At(a, u, "seal")
    /\ \/ Probe(u) = "dead" /\ Pop(u, {}) /\ NoFault
       \/ Probe(u) = "dead" /\ UNCHANGED <<stack, alive, stuck>> /\ Fault("umount")
       \/ Probe(u) = "live" /\ Pop(u, {Top(u).pid}) /\ Fault("seal")
       \/ Probe(u) = "live" /\ KilledInPlace(u)
    /\ Fail(a, u)
    /\ UNCHANGED <<kubeletVars, dir, todo>>

\* The bind copies the visible mount of the union, or its bare directory.
Bind(a, v) ==
    /\ At(a, v, "bind")
    /\ SharedFrom[v] \in dir /\ v \in dir
    /\ Push(v, IF Mounted(SharedFrom[v]) THEN Top(SharedFrom[v])
                                         ELSE [pid |-> 0, sealed |-> FALSE])
    /\ Succeed(a, v)
    /\ UNCHANGED <<deleted, done, dir, alive, stuck, recorded, todo, faultVars>>

BindFails(a, v) ==
    /\ At(a, v, "bind")
    /\ \/ ~(SharedFrom[v] \in dir /\ v \in dir) /\ NoFault
       \/ Fault("bind")
    /\ Fail(a, v)
    /\ UNCHANGED <<kubeletVars, hostVars, todo>>

-----------------------------------------------------------------------------
(***************************************************************************)
(* NodeUnpublishVolume, and the steps it shares with a repair.             *)
(***************************************************************************)
Unpublish(v) ==
    /\ PodOf[v] \in deleted /\ v \notin done
    /\ At("call", v, "idle")
    /\ Answers(v)
    /\ Goto("call", v, "ulock")
    /\ UNCHANGED <<kubeletVars, hostVars, recorded, todo, faultVars>>

\* Mutant: the record goes first.
UnpublishDropsFirst(v) ==
    /\ At("call", v, "ulock")
    /\ LockFree(v)
    /\ Goto("call", v, "unmount")
    /\ recorded' = recorded \ {v}
    /\ UNCHANGED <<kubeletVars, hostVars, todo, faultVars>>

\* Unmount takes the lock of the volume.
UnpublishLock(v) ==
    /\ At("call", v, "ulock")
    /\ LockFree(v)
    /\ Goto("call", v, "unmount")
    /\ UNCHANGED <<kubeletVars, hostVars, recorded, todo, faultVars>>

\* Mutant: a target that is not mounted is an error.
UnmountIfMounted(a, v) ==
    /\ At(a, v, "unmount")
    /\ \/ /\ Mounted(v) /\ Pop(v, {})
          /\ Goto(a, v, IF a = "pass" /\ v \in Views THEN "bind" ELSE "stop")
       \/ ~Mounted(v) /\ Goto(a, v, "idle") /\ UNCHANGED <<stack, alive, stuck>>
    /\ UNCHANGED <<kubeletVars, dir, recorded, todo, faultVars>>

\* Mutant: a repair of a view detaches it and ends.
UnmountOnly(a, v) ==
    /\ At(a, v, "unmount")
    /\ Pop(v, {})
    /\ Goto(a, v, IF a = "pass" /\ v \in Views THEN "idle" ELSE "stop")
    /\ UNCHANGED <<kubeletVars, dir, recorded, todo, faultVars>>

\* A repair of a view binds it again at once; everything else stops the scope next.
Unmount(a, v) ==
    /\ At(a, v, "unmount")
    /\ \/ /\ Pop(v, {})
          /\ Goto(a, v, IF a = "pass" /\ v \in Views THEN "bind" ELSE "stop")
          /\ NoFault
       \/ Fault("umount") /\ Goto(a, v, "idle") /\ UNCHANGED <<stack, alive, stuck>>
    /\ UNCHANGED <<kubeletVars, dir, recorded, todo>>

\* Mutant: a repair drops the record, as an unpublish does.
StopScopeThenDrop(a, v) ==
    /\ At(a, v, "stop")
    /\ Goto(a, v, "drop")
    /\ UNCHANGED <<kubeletVars, hostVars, recorded, todo, faultVars>>

\* Stopping the scope ends every daemon in it.  Unpublish only logs a failure, a repair
\* gives up.
StopScope(a, v) ==
    /\ At(a, v, "stop")
    /\ \/ /\ alive' = IF HostSystemd /\ v \in Unions THEN [alive EXCEPT ![v] = {}] ELSE alive
          /\ stuck' = IF HostSystemd /\ v \in Unions THEN [stuck EXCEPT ![v] = {}] ELSE stuck
          /\ Goto(a, v, IF a = "call" THEN "drop" ELSE "start")
          /\ NoFault
       \/ /\ Fault("stop")
          /\ Goto(a, v, IF a = "call" THEN "drop" ELSE "idle")
          /\ UNCHANGED <<alive, stuck>>
    /\ UNCHANGED <<kubeletVars, dir, stack, recorded, todo>>

\* The record goes last, and the lock of the volume with it.
DropRecord(v) ==
    /\ At("call", v, "drop")
    /\ \/ recorded' = recorded \ {v} /\ Goto("call", v, "remove") /\ NoFault
       \/ Fault("drop") /\ Goto("call", v, "idle") /\ UNCHANGED recorded
    /\ UNCHANGED <<kubeletVars, hostVars, todo>>

\* os.Remove: a target that is still mounted is busy, and kubelet calls again.
RemoveTarget(v) ==
    /\ At("call", v, "remove")
    /\ \/ /\ ~Mounted(v)
          /\ dir' = dir \ {v}
          /\ done' = done \cup {v}
          /\ published' = published \ {v}
       \/ Mounted(v) /\ UNCHANGED <<dir, done, published>>
    /\ Goto("call", v, "idle")
    /\ UNCHANGED <<deleted, stack, alive, stuck, recorded, todo, faultVars>>

-----------------------------------------------------------------------------
(***************************************************************************)
(* The reconcile pass.                                                     *)
(***************************************************************************)
PassIdle == \A v \in Volumes : At("pass", v, "idle")

\* ids: every volume with a state file.
PassBegins ==
    /\ PassIdle /\ todo = {}
    /\ todo' = recorded
    /\ UNCHANGED <<kubeletVars, hostVars, recorded, pc, faultVars>>

\* Shared views come after the unions they may be bound to.
ComesNext(v) == v \in todo /\ (v \in Views => todo \cap Unions = {})

\* The supervisor takes the lock, and reconcile reads the record again under it.
Reconciles(v) == PassIdle /\ ComesNext(v) /\ LockFree(v) /\ todo' = todo \ {v}

\* Mutants: a mount that does not answer counts as dead; a union is treated like a view,
\* and waits for itself to serve.
RepairableOrHung(v) == Probe(v) \in {"dead", "hung"}
RepairableOnceServed(v) == Probe(v) = "dead" /\ Serving(Source(v))

\* A mount to repair: its daemon is gone, and a view has a union to be bound to.
Repairable(v) == Probe(v) = "dead" /\ (v \in Views => Serving(SharedFrom[v]))

\* Unpublished in the meantime, live, not answering, or nothing a remount would help.
ReconcileLeaves(v) ==
    /\ Reconciles(v)
    /\ \/ v \notin recorded
       \/ Probe(v) # "gone" /\ ~Repairable(v)
    /\ UNCHANGED <<kubeletVars, hostVars, recorded, pc, faultVars>>

\* Kubelet removed the target.
ReconcileForgets(v) ==
    /\ Reconciles(v)
    /\ v \in recorded /\ Probe(v) = "gone"
    /\ \/ recorded' = recorded \ {v} /\ NoFault
       \/ Fault("drop") /\ UNCHANGED recorded
    /\ UNCHANGED <<kubeletVars, hostVars, pc>>

\* remountUnion or rebindShared begins; the pass keeps the lock until it ends.
ReconcileRepairs(v) ==
    /\ Reconciles(v)
    /\ v \in recorded /\ Repairable(v)
    /\ Goto("pass", v, "unmount")
    /\ UNCHANGED <<kubeletVars, hostVars, recorded, faultVars>>

-----------------------------------------------------------------------------
(***************************************************************************)
(* The environment.                                                        *)
(***************************************************************************)
DeletePod(p) ==
    /\ p \notin deleted
    /\ deleted' = deleted \cup {p}
    /\ UNCHANGED <<published, done, hostVars, recorded, pc, todo, faultVars>>

\* Kubelet restarts, or otherwise loses what it knew of a publish, and calls again.
KubeletForgets(v) ==
    /\ v \in published /\ Fault("forget")
    /\ published' = published \ {v}
    /\ UNCHANGED <<deleted, done, hostVars, recorded, pc, todo>>

\* Kubelet cleans up the directory of an orphaned pod, which it leaves alone while mounted.
KubeletRemovesTarget(v) ==
    /\ PodOf[v] \in deleted /\ v \notin published
    /\ At("call", v, "idle")
    /\ v \in dir /\ ~Mounted(v)
    /\ dir' = dir \ {v}
    /\ UNCHANGED <<kubeletVars, stack, alive, stuck, recorded, pc, todo, faultVars>>

DaemonCrashes(u) ==
    /\ Fault("crash")
    /\ \E k \in alive[u] : /\ alive' = [alive EXCEPT ![u] = @ \ {k}]
                           /\ stuck' = [stuck EXCEPT ![u] = @ \ {k}]
    /\ UNCHANGED <<kubeletVars, dir, stack, recorded, pc, todo>>

DaemonHangs(u) ==
    /\ Fault("hang")
    /\ \E k \in alive[u] \ stuck[u] : stuck' = [stuck EXCEPT ![u] = @ \cup {k}]
    /\ UNCHANGED <<kubeletVars, dir, stack, alive, recorded, pc, todo>>

DaemonRecovers(u) ==
    /\ \E k \in stuck[u] : stuck' = [stuck EXCEPT ![u] = @ \ {k}]
    /\ UNCHANGED <<kubeletVars, dir, stack, alive, recorded, pc, todo, faultVars>>

Idle == [a \in Actors |-> [v \in Volumes |-> "idle"]]
NoDaemons == [u \in Unions |-> {}]

\* The driver's pod is replaced: locks, calls and the pass are lost, and so are the
\* daemons unless they belong to the host's systemd.
DriverRestarts ==
    /\ Fault("restart")
    /\ pc' = Idle /\ todo' = {}
    /\ alive' = IF HostSystemd THEN alive ELSE NoDaemons
    /\ stuck' = IF HostSystemd THEN stuck ELSE NoDaemons
    /\ UNCHANGED <<kubeletVars, dir, stack, recorded>>

\* The node reboots: directories and state files stay, and kubelet publishes again.
NodeReboots ==
    /\ Fault("reboot")
    /\ pc' = Idle /\ todo' = {}
    /\ alive' = NoDaemons /\ stuck' = NoDaemons
    /\ stack' = [v \in Volumes |-> <<>>]
    /\ published' = {}
    /\ UNCHANGED <<deleted, done, dir, recorded>>

-----------------------------------------------------------------------------
Init ==
    /\ deleted = {} /\ published = {} /\ done = {}
    /\ dir = {} /\ stack = [v \in Volumes |-> <<>>]
    /\ recorded = {}
    /\ alive = NoDaemons /\ stuck = NoDaemons
    /\ pc = Idle /\ todo = {}
    /\ faults = 0 /\ past = {}

\* Steps of a handler that has the lock it needs, or needs none.
CallStep(v) ==
    \/ SourcesReady(v) \/ SourcesFail(v)
    \/ AwaitServing(v) \/ Save(v)
    \/ DropRecord(v) \/ RemoveTarget(v)

\* Steps a handler and a repair have in common.
SharedStep(a, v) ==
    \/ v \in Unions /\ (Start(a, v) \/ StartFails(a, v) \/ Seal(a, v) \/ SealFails(a, v))
    \/ v \in Views /\ (Bind(a, v) \/ BindFails(a, v))
    \/ Unmount(a, v) \/ StopScope(a, v)

Kubelet(v) == PublishAgain(v) \/ Publish(v) \/ Unpublish(v)

TakesLock(v) == Lock(v) \/ UnpublishLock(v)

Reconcile(v) == ReconcileLeaves(v) \/ ReconcileForgets(v) \/ ReconcileRepairs(v)

Environment ==
    \/ \E p \in Pods : DeletePod(p)
    \/ \E v \in Volumes : KubeletForgets(v) \/ KubeletRemovesTarget(v)
    \/ \E u \in Unions : DaemonCrashes(u) \/ DaemonHangs(u) \/ DaemonRecovers(u)
    \/ DriverRestarts \/ NodeReboots

Next ==
    \/ \E v \in Volumes : Kubelet(v) \/ TakesLock(v) \/ CallStep(v) \/ Reconcile(v)
    \/ \E a \in Actors, v \in Volumes : SharedStep(a, v)
    \/ PassBegins
    \/ Environment

(***************************************************************************)
(* Kubelet retries with backoff for ever, the supervisor runs a pass every *)
(* 30s, and a goroutine that can run does.  A Go mutex hands itself over   *)
(* to a waiter that starves, hence strong fairness where a lock is taken.  *)
(* Nothing is assumed of the environment.                                  *)
(***************************************************************************)
Fairness ==
    /\ WF_vars(PassBegins)
    /\ \A v \in Volumes :
          /\ WF_vars(Kubelet(v)) /\ WF_vars(CallStep(v))
          /\ SF_vars(TakesLock(v)) /\ SF_vars(Reconcile(v))
          /\ \A a \in Actors : WF_vars(SharedStep(a, v))

Spec     == Init /\ [][Next]_vars
FairSpec == Spec /\ Fairness

-----------------------------------------------------------------------------
(***************************************************************************)
(* Properties.                                                             *)
(***************************************************************************)

\* Type invariant: every variable keeps to its set, only running daemons are stuck, and a
\* repair never strays into the steps that belong to a call.
TypeOK ==
    /\ deleted \subseteq Pods
    /\ published \subseteq Volumes /\ done \subseteq Volumes
    /\ dir \subseteq Volumes /\ recorded \subseteq Volumes /\ todo \subseteq Volumes
    /\ stack \in [Volumes -> Seq(Layer)]
    /\ alive \in [Unions -> SUBSET Pids]
    /\ stuck \in [Unions -> SUBSET Pids]
    /\ \A u \in Unions : stuck[u] \subseteq alive[u]
    /\ pc \in [Actors -> [Volumes -> CallLabels]]
    /\ \A v \in Volumes : pc["pass"][v] \in PassLabels
    /\ faults \in 0 .. MaxFaults /\ past \subseteq Disturbing

\* A volume whose unpublish has succeeded stays gone: it has no mount, no directory and no
\* record, and no pass is about to mount it again, however the pass and the unpublish
\* interleaved (mergerfs.go:46, node.go:223).
NoResurrection ==
    \A v \in done :
        ~Mounted(v) /\ v \notin dir /\ v \notin recorded /\ At("pass", v, "idle")

\* A pass that is about to detach a mount is about to detach one whose daemon is gone,
\* though it looked some steps earlier (reconcile_linux.go:59, README "Only a mount whose
\* daemon is gone is remounted").
PassDetachesOnlyDead ==
    \A v \in Volumes : At("pass", v, "unmount") => Probe(v) = "dead"

\* A target carries at most one mount: Mount is idempotent (backend.go:80), and kubelet's
\* repeated calls are no-ops.
OneMountPerTarget == \A v \in Volumes : Len(stack[v]) <= 1

\* A daemon that dies, any call that fails and its retry, a reboot: none of them makes a
\* handler or the pass mount over a mount (mount_linux.go:37, reconcile_linux.go:85), as long
\* as kubelet does not call for what it knows to be mounted.
RetriesMountOnce == ~Disturbed => OneMountPerTarget

\* A mount that is being served has a state file, so that it can be repaired when its
\* daemon dies (mount_linux.go:55), whichever call failed half way.
LiveMountIsRecorded ==
    ~Disturbed => \A v \in Volumes :
        Mounted(v) /\ Top(v).pid \in alive[Source(v)] => v \in recorded

\* What a container finds at the target of a volume, in the words of UnionVolume.
Seen(v) ==
    IF ~Mounted(v) THEN IF v \in done THEN "gone" ELSE "absent"
    ELSE IF Top(v).pid = 0 THEN "unready"
    ELSE IF Top(v).pid \notin alive[Source(v)] THEN "broken"
    ELSE IF SealControl /\ ~Top(v).sealed THEN "unready" ELSE "serving"

Contract == INSTANCE UnionVolume WITH
    state     <- [v \in Volumes |-> Seen(v)],
    told      <- published,
    deleted   <- {v \in Volumes : PodOf[v] \in deleted},
    disturbed <- Disturbed

\* The backend keeps the contract of backend.Backend (backend.go:60) with every daemon
\* crash, hang, failing call and reboot: a container never sees a served union unmounted or
\* unsealed, and nothing comes back after its unpublish.
KeepsContract == Contract!Spec

\* A view of a pod that is not being deleted carries the sealed union it was promised,
\* never the bare directory under it and never a live mount without the seal
\* (mount_linux.go:72, backend.go:83).
ViewIsSealedUnion ==
    \A v \in Views : PodOf[v] \notin deleted /\ Mounted(v) /\ Probe(v) # "dead" =>
        Top(v).pid # 0 /\ (SealControl => Top(v).sealed)

\* Only a fault, or the deletion of its pod, ends a daemon: no step of a handler or of the
\* pass stops one that runs (reconcile_linux.go:59, README "A daemon that still serves is
\* never stopped or replaced").
ServingDaemonNeverStopped ==
    [][\A u \in Unions : PodOf[u] \notin deleted /\ faults' = faults /\ ~Disturbed
                            => alive[u] \subseteq alive'[u]]_vars

\* The unpublish of every volume of a deleted pod succeeds at last (node.go:223) whatever
\* failed or was restarted on the way, unless its daemon hangs, and leaves no record behind.
UnpublishCompletes ==
    \A v \in Volumes : PodOf[v] \in deleted ~>
        v \in done \/ ~Answers(v) \/ ~Answers(Source(v))

\* What the driver recovers from by itself: one fault, other than a restart of its own.
Recoverable == faults <= 1 /\ "restart" \notin past

\* Kubelet's publish of a volume succeeds at last, unless the pod goes or a daemon hangs
\* (node.go:96, mount_linux.go:45).
PublishCompletes ==
    \A v \in Volumes : v \notin published ~>
        \/ v \in published \/ PodOf[v] \in deleted
        \/ ~Answers(v) \/ ~Answers(Source(v)) \/ ~Recoverable

Remounted(u) == Serving(u) \/ ~Answers(u) \/ PodOf[u] \in deleted

\* A union whose daemon died is mounted again (README "the driver remounts every mount
\* whose daemon died ... A pass every 30s catches anything missed").
DeadUnionIsRemounted == \A u \in Unions : Probe(u) = "dead" ~> Remounted(u)

\* The same where nothing else goes wrong: one daemon dies, or one call fails and leaves a
\* dead mount behind (reconcile_linux.go:85).
OneDeadUnionIsRemounted ==
    \A u \in Unions : Probe(u) = "dead" ~> Remounted(u) \/ ~Recoverable

\* A view of a union that was mounted again is bound again and serves, sealed like the union
\* (reconcile_linux.go:101, README "a shared view is bound again once a crashed daemon is
\* remounted").
DeadViewIsRebound ==
    \A v \in Views : Probe(v) = "dead" ~>
        Serving(v) \/ ~Answers(Source(v)) \/ PodOf[v] \in deleted \/ ~Recoverable

\* A live union has its control file sealed sooner or later (README "Once the target is a
\* live FUSE mount, the driver bind-mounts its .mergerfs control file read-only"), or the
\* start that cannot seal its mount takes it down again (mount_linux.go:111). Excepted is a
\* restart of the driver, after which nobody seals a mount that was started before it.
UninterruptedUnionGetsSealed ==
    \A u \in Unions : Probe(u) = "live" ~>
        Serving(u) \/ Probe(u) # "live" \/ "restart" \in past

=============================================================================
