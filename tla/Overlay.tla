------------------------------ MODULE Overlay ------------------------------
(***************************************************************************)
(* The overlay backend of the driver under the same handlers: no daemon,   *)
(* no state file, no pass and no lock, so that nothing but kubelet's habit *)
(* of waiting for an answer keeps two calls for a volume apart.  A handler *)
(* whose caller gave up goes on: WaitReady looks at its context only while *)
(* a source is missing, and Mount never does.                              *)
(*                                                                         *)
(* The volumes are those of one pod.  A call is a sequence of labelled     *)
(* steps, each one system call that others can see.                        *)
(***************************************************************************)
EXTENDS Integers, Sequences

CONSTANTS
    Unions,       \* volumes that mount a union of their own
    Views,        \* volumes that declare a union an earlier volume mounts
    SharedFrom,   \* the union each view is a bind of
    MaxCalls,     \* bound on the handlers that work on a volume at a time
    MaxMounts,    \* bound on the overlay mounts that exist at a time
    MaxGens,      \* bound on how often a volume's workspace is made
    FaultKinds,   \* the faults this instance allows
    MaxFaults     \* bound on how many faults happen in one behaviour

Volumes == Unions \cup Views
Calls   == 1 .. MaxCalls
Mounts  == 1 .. MaxMounts
Gens    == 1 .. MaxGens

ASSUME OverlayAssumption ==
    /\ Unions \cap Views = {}
    /\ SharedFrom \in [Views -> Unions]
    /\ {MaxCalls, MaxMounts, MaxGens, MaxFaults} \subseteq Nat

VARIABLES
    decl,       \* what each union was declared to be
    fsopen,     \* the kernel has the new mount API
    deleted,    \* the pod is being deleted
    published,  \* volumes whose publish kubelet knows to have succeeded
    done,       \* volumes whose unpublish kubelet knows to have succeeded
    awaited,    \* the call kubelet waits for, for each volume; 0 is none
    dir,        \* volumes whose target directory exists
    stack,      \* the mounts stacked on each target, the visible one last
    entry,      \* what is at .union-csi in the RW volume of each union
    made,       \* how many workspaces were made in it
    call,       \* the calls under way
    faults,     \* how many faults have happened
    past        \* history: the faults of Remembered that have happened

kubeletVars == <<deleted, published, done, awaited>>
hostVars    == <<dir, stack, entry, made>>
faultVars   == <<faults, past>>
givenVars   == <<decl, fsopen>>
overlayVars == <<givenVars, kubeletVars, hostVars, call, faultVars>>

\* The layout of a union: a writable layer or none, one layer or more, and whether the
\* volume was asked for read-only; and whether the filesystem of a writable layer is one
\* that the kernel takes for it.
Decl == {d \in [rw : BOOLEAN, upperFS : BOOLEAN, single : BOOLEAN, readOnly : BOOLEAN] :
            d.rw \/ d.upperFS}

\* Nothing there, a symlink, or a workspace, known by when it was made.
Absent == 0
Link   == -1

\* An overlay mount (id) with the directories it was given, a bind of a single layer, or a
\* bind of a bare directory.
Layer == [what : {"overlay", "single", "bare"}, id : Mounts \cup {0},
          upper : Gens \cup {0}, work : Gens \cup {0}, ro : BOOLEAN]

Labels == {"idle", "wait", "workspace", "upper", "work", "create", "attach", "bind",
           "remount", "unmount", "remove"}

\* A call, with what it holds open: the workspace, its upper and work directories and a
\* mount that is attached nowhere yet.
Call == [at : Labels, ws : Gens \cup {0}, upper : Gens \cup {0}, work : Gens \cup {0},
         id : Mounts \cup {0}]

NoCall == [at |-> "idle", ws |-> 0, upper |-> 0, work |-> 0, id |-> 0]
NoCalls == [v \in Volumes |-> [c \in Calls |-> NoCall]]

-----------------------------------------------------------------------------
(***************************************************************************)
(* Looking at the host.                                                    *)
(***************************************************************************)
Source(v)  == IF v \in Views THEN SharedFrom[v] ELSE v
Mounted(v) == stack[v] # <<>>
Top(v)     == stack[v][Len(stack[v])]

\* planLayout: asked for, or no writable layer to take a change.
LayoutReadOnly(u) == decl[u].readOnly \/ ~decl[u].rw

\* The overlay mounts that exist, attached or held open by a call.
Layers      == UNION {{stack[v][i] : i \in DOMAIN stack[v]} : v \in Volumes}
HeldBy(v)   == {call[v][c] : c \in Calls}
Held        == {h \in UNION {HeldBy(v) : v \in Volumes} : h.id # 0}
Existing    == {l \in Layers : l.what = "overlay"} \cup Held
InUse(u, g) == \E v \in Volumes : Source(v) = u /\
                  \/ \E i \in DOMAIN stack[v] : stack[v][i].id # 0 /\ stack[v][i].upper = g
                  \/ \E h \in HeldBy(v) : h.id # 0 /\ h.upper = g

\* The lowest number that no mount has, so that equal states are equal.
FreeId(k) == \A m \in Existing : m.id # k
FreshIds  == {k \in Mounts : FreeId(k) /\ \A j \in 1 .. k - 1 : ~FreeId(j)}

-----------------------------------------------------------------------------
(***************************************************************************)
(* Steps of a call.                                                        *)
(***************************************************************************)
At(v, c, l)   == call[v][c].at = l
Goto(v, c, l) == call' = [call EXCEPT ![v][c].at = l]
Leave(v, c)   == call' = [call EXCEPT ![v][c] = NoCall]

\* The faults that some property makes an exception for.
Remembered == {"outlive", "kill", "forget"}

Fault(kind) ==
    /\ kind \in FaultKinds /\ faults < MaxFaults
    /\ faults' = faults + 1
    /\ past' = past \cup ({kind} \cap Remembered)
NoFault == UNCHANGED faultVars

Outlived == "outlive" \in past

\* An answer reaches kubelet if it still waits for it.
Answers(v, c) == awaited' = IF awaited[v] = c THEN [awaited EXCEPT ![v] = 0] ELSE awaited
Heard(v, c)   == awaited[v] = c

Succeed(v, c) ==
    /\ Leave(v, c) /\ Answers(v, c)
    /\ published' = IF Heard(v, c) THEN published \cup {v} ELSE published

\* Everything the call held open is closed, and a mount it had not attached is gone.
Fail(v, c) == Leave(v, c) /\ Answers(v, c) /\ UNCHANGED published

Push(v, layer) == stack' = [stack EXCEPT ![v] = Append(@, layer)]
Pop(v) == stack' = [stack EXCEPT ![v] = IF @ = <<>> THEN @ ELSE SubSeq(@, 1, Len(@) - 1)]

-----------------------------------------------------------------------------
(***************************************************************************)
(* NodePublishVolume.                                                      *)
(***************************************************************************)

\* Kubelet waits for nothing, and the call takes a free slot.
CanCall(v, c) ==
    /\ awaited[v] = 0
    /\ At(v, c, "idle") /\ \A b \in 1 .. c - 1 : ~At(v, b, "idle")

\* Mutant: a target that is mounted is an error.
RefuseMounted(v, c) ==
    /\ ~deleted /\ v \notin published
    /\ CanCall(v, c) /\ Mounted(v)
    /\ UNCHANGED overlayVars

PublishAgain(v, c) ==
    /\ ~deleted /\ v \notin published
    /\ CanCall(v, c) /\ Mounted(v)
    /\ published' = published \cup {v}
    /\ UNCHANGED <<givenVars, deleted, done, awaited, hostVars, call, faultVars>>

\* Mutant: the target is not looked at.
PublishUnseen(v, c) ==
    /\ ~deleted /\ v \notin published
    /\ CanCall(v, c)
    /\ Goto(v, c, "wait")
    /\ awaited' = [awaited EXCEPT ![v] = c]
    /\ UNCHANGED <<givenVars, deleted, published, done, hostVars, faultVars>>

Publish(v, c) ==
    /\ ~deleted /\ v \notin published
    /\ CanCall(v, c) /\ ~Mounted(v)
    /\ Goto(v, c, "wait")
    /\ awaited' = [awaited EXCEPT ![v] = c]
    /\ UNCHANGED <<givenVars, deleted, published, done, hostVars, faultVars>>

\* Mutant: a view mounts the union once more.
MountsAgain(v) ==
    LET d == decl[Source(v)] IN
    IF d.rw THEN "workspace" ELSE IF d.single THEN "bind" ELSE "create"

\* What Mount, or Share for a view, begins with.
FirstStep(v) ==
    IF v \in Views THEN "bind"
    ELSE IF decl[v].rw THEN "workspace"
    ELSE IF decl[v].single THEN "bind" ELSE "create"

\* The sources are there, and so is the target directory, made again if need be.
SourcesReady(v, c) ==
    /\ At(v, c, "wait")
    /\ v \in Views => Mounted(SharedFrom[v])
    /\ dir' = dir \cup {v}
    /\ Goto(v, c, FirstStep(v))
    /\ UNCHANGED <<givenVars, kubeletVars, stack, entry, made, faultVars>>

SourcesFail(v, c) ==
    /\ At(v, c, "wait")
    /\ \/ v \in Views /\ ~Mounted(SharedFrom[v]) /\ NoFault
       \/ Fault("wait")
    /\ Fail(v, c)
    /\ UNCHANGED <<givenVars, deleted, done, hostVars>>

\* openWorkspace: the filesystem is checked, .union-csi made if it is missing, and opened
\* unless it is a link.
OpenWorkspace(v, c) ==
    /\ At(v, c, "workspace")
    /\ LET u == Source(v)
           g == IF entry[u] = Absent THEN made[u] + 1 ELSE entry[u] IN
       \/ /\ decl[u].upperFS
          /\ g \in Gens
          /\ entry' = [entry EXCEPT ![u] = g]
          /\ made' = [made EXCEPT ![u] = IF g > @ THEN g ELSE @]
          /\ call' = [call EXCEPT ![v][c].at = "upper", ![v][c].ws = g]
          /\ UNCHANGED <<awaited, published, faultVars>>
       \/ /\ ((~decl[u].upperFS \/ entry[u] = Link) /\ NoFault) \/ Fault("open")
          /\ Fail(v, c)
          /\ UNCHANGED <<entry, made>>
    /\ UNCHANGED <<givenVars, deleted, done, dir, stack>>

OpenUpper(v, c) ==
    /\ At(v, c, "upper")
    /\ \/ /\ call' = [call EXCEPT ![v][c].at = "work", ![v][c].upper = call[v][c].ws]
          /\ UNCHANGED <<awaited, published, faultVars>>
       \/ Fault("open") /\ Fail(v, c)
    /\ UNCHANGED <<givenVars, deleted, done, hostVars>>

AfterWork(u) == IF decl[u].single THEN "bind" ELSE "create"

\* Mutant: the work directory is looked up from the root of the volume once more.
OpenWorkByPath(v, c) ==
    /\ At(v, c, "work")
    /\ entry[Source(v)] \in Gens
    /\ call' = [call EXCEPT ![v][c].at = AfterWork(Source(v)),
                            ![v][c].work = entry[Source(v)]]
    /\ UNCHANGED <<givenVars, kubeletVars, hostVars, faultVars>>

\* upper and work are both opened below the workspace that was opened first.
OpenWork(v, c) ==
    /\ At(v, c, "work")
    /\ \/ /\ call' = [call EXCEPT ![v][c].at = AfterWork(Source(v)),
                                  ![v][c].work = call[v][c].ws]
          /\ UNCHANGED <<awaited, published, faultVars>>
       \/ Fault("open") /\ Fail(v, c)
    /\ UNCHANGED <<givenVars, deleted, done, hostVars>>

\* The layer of an overlay mount that a call has made.
OverlayLayer(v, c, k) ==
    [what |-> "overlay", id |-> k, upper |-> call[v][c].upper, work |-> call[v][c].work,
     ro |-> LayoutReadOnly(Source(v))]

\* mountFsconfig up to fsmount: the mount exists, attached nowhere.  An upper directory in
\* use is EBUSY, or two mounts share it.
Create(v, c) ==
    /\ At(v, c, "create") /\ fsopen
    /\ \/ /\ \E k \in FreshIds : call' = [call EXCEPT ![v][c].at = "attach", ![v][c].id = k]
          /\ UNCHANGED <<awaited, published, faultVars>>
       \/ /\ (InUse(Source(v), call[v][c].upper) /\ NoFault) \/ Fault("create")
          /\ Fail(v, c)
    /\ UNCHANGED <<givenVars, deleted, done, hostVars>>

\* move_mount onto the target, which must still be there.
Attach(v, c) ==
    /\ At(v, c, "attach")
    /\ \/ /\ v \in dir
          /\ Push(v, OverlayLayer(v, c, call[v][c].id))
          /\ Succeed(v, c) /\ NoFault
       \/ /\ (v \notin dir /\ NoFault) \/ Fault("attach")
          /\ Fail(v, c) /\ UNCHANGED stack
    /\ UNCHANGED <<givenVars, deleted, done, dir, entry, made>>

\* mountClassic: one call of mount(2).
MountClassic(v, c) ==
    /\ At(v, c, "create") /\ ~fsopen
    /\ \/ /\ v \in dir
          /\ \E k \in FreshIds : Push(v, OverlayLayer(v, c, k))
          /\ Succeed(v, c) /\ NoFault
       \/ /\ \/ (v \notin dir \/ InUse(Source(v), call[v][c].upper)) /\ NoFault
             \/ Fault("create")
          /\ Fail(v, c) /\ UNCHANGED stack
    /\ UNCHANGED <<givenVars, deleted, done, dir, entry, made>>

\* What a bind copies, flags and all: the single layer of a union, or for a view the
\* visible mount of its union or the directory under it.
BindSource(v, c) ==
    IF v \in Unions
    THEN [what |-> "single", id |-> 0, upper |-> call[v][c].upper, work |-> call[v][c].work,
          ro |-> FALSE]
    ELSE IF Mounted(SharedFrom[v]) THEN Top(SharedFrom[v])
    ELSE [what |-> "bare", id |-> 0, upper |-> 0, work |-> 0, ro |-> FALSE]

\* A view asks for what its volume says; only a union knows of its layers.
BindsReadOnly(v) == IF v \in Views THEN decl[SharedFrom[v]].readOnly ELSE LayoutReadOnly(v)

Bind(v, c) ==
    /\ At(v, c, "bind")
    /\ \/ /\ v \in dir /\ Source(v) \in dir
          /\ Push(v, BindSource(v, c))
          /\ IF BindsReadOnly(v) THEN Goto(v, c, "remount") /\ UNCHANGED <<awaited, published>>
                                 ELSE Succeed(v, c)
          /\ NoFault
       \/ /\ (~(v \in dir /\ Source(v) \in dir) /\ NoFault) \/ Fault("bind")
          /\ Fail(v, c) /\ UNCHANGED stack
    /\ UNCHANGED <<givenVars, deleted, done, dir, entry, made>>

\* Mutant: a bind that cannot be made read-only stays.
RemountOrLeave(v, c) ==
    /\ At(v, c, "remount")
    /\ \/ /\ Mounted(v)
          /\ stack' = [stack EXCEPT ![v][Len(stack[v])].ro = TRUE]
          /\ Succeed(v, c) /\ NoFault
       \/ ~Mounted(v) /\ Fail(v, c) /\ UNCHANGED stack /\ NoFault
       \/ Fault("remount") /\ Fail(v, c) /\ UNCHANGED stack
    /\ UNCHANGED <<givenVars, deleted, done, dir, entry, made>>

\* The remount takes whatever is mounted at the target by now, and so does the detach when
\* it fails.
Remount(v, c) ==
    /\ At(v, c, "remount")
    /\ \/ /\ Mounted(v)
          /\ stack' = [stack EXCEPT ![v][Len(stack[v])].ro = TRUE]
          /\ Succeed(v, c) /\ NoFault
       \/ ~Mounted(v) /\ Fail(v, c) /\ UNCHANGED stack /\ NoFault
       \/ Fault("remount") /\ Fail(v, c) /\ Pop(v)
    /\ UNCHANGED <<givenVars, deleted, done, dir, entry, made>>

-----------------------------------------------------------------------------
(***************************************************************************)
(* NodeUnpublishVolume.                                                    *)
(***************************************************************************)
Unpublish(v, c) ==
    /\ deleted /\ v \notin done
    /\ CanCall(v, c)
    /\ Goto(v, c, "unmount")
    /\ awaited' = [awaited EXCEPT ![v] = c]
    /\ UNCHANGED <<givenVars, deleted, published, done, hostVars, faultVars>>

\* Mutant: it is an error if nothing is mounted.
UnmountIfMounted(v, c) ==
    /\ At(v, c, "unmount")
    /\ \/ /\ Mounted(v)
          /\ Pop(v) /\ Goto(v, c, "remove") /\ UNCHANGED <<awaited, published, faultVars>>
       \/ /\ (~Mounted(v) /\ NoFault) \/ Fault("umount")
          /\ Fail(v, c) /\ UNCHANGED stack
    /\ UNCHANGED <<givenVars, deleted, done, dir, entry, made>>

\* One mount goes, or none if there is none; the overlay goes with its last mount.
Unmount(v, c) ==
    /\ At(v, c, "unmount")
    /\ \/ Pop(v) /\ Goto(v, c, "remove") /\ UNCHANGED <<awaited, published, faultVars>>
       \/ Fault("umount") /\ Fail(v, c) /\ UNCHANGED stack
    /\ UNCHANGED <<givenVars, deleted, done, dir, entry, made>>

\* os.Remove: a target that is still mounted is busy, and kubelet calls again.
RemoveTarget(v, c) ==
    /\ At(v, c, "remove")
    /\ \/ /\ ~Mounted(v)
          /\ dir' = dir \ {v}
          /\ done' = IF Heard(v, c) THEN done \cup {v} ELSE done
          /\ published' = IF Heard(v, c) THEN published \ {v} ELSE published
       \/ Mounted(v) /\ UNCHANGED <<dir, done, published>>
    /\ Leave(v, c) /\ Answers(v, c)
    /\ UNCHANGED <<givenVars, deleted, stack, entry, made, faultVars>>

-----------------------------------------------------------------------------
(***************************************************************************)
(* The environment.                                                        *)
(***************************************************************************)
DeletePod ==
    /\ ~deleted /\ deleted' = TRUE
    /\ UNCHANGED <<givenVars, published, done, awaited, hostVars, call, faultVars>>

\* Kubelet's deadline passes, or kubelet is restarted; the handler goes on.
KubeletGivesUp(v) ==
    /\ awaited[v] # 0 /\ Fault("outlive")
    /\ awaited' = [awaited EXCEPT ![v] = 0]
    /\ UNCHANGED <<givenVars, deleted, published, done, hostVars, call>>

KubeletForgets(v) ==
    /\ v \in published /\ Fault("forget")
    /\ published' = published \ {v}
    /\ UNCHANGED <<givenVars, deleted, done, awaited, hostVars, call>>

\* The workspace of a writable layer is moved away, and a link or another directory may be
\* put in its place.
VolumeChanges(u) ==
    /\ decl[u].rw /\ entry[u] # Link /\ Fault("change")
    /\ \E e \in {Absent, Link, made[u] + 1} \ {entry[u]} :
          /\ e \in Gens \cup {Absent, Link}
          /\ entry' = [entry EXCEPT ![u] = e]
          /\ made' = [made EXCEPT ![u] = IF e > @ THEN e ELSE @]
    /\ UNCHANGED <<givenVars, kubeletVars, dir, stack, call>>

\* Every call ends where it is; mounts that are attached stay.
CallsEnd == call' = NoCalls /\ awaited' = [v \in Volumes |-> 0]

DriverKilled ==
    /\ Fault("kill") /\ CallsEnd
    /\ UNCHANGED <<givenVars, deleted, published, done, hostVars>>

NodeReboots ==
    /\ Fault("reboot") /\ CallsEnd
    /\ stack' = [v \in Volumes |-> <<>>] /\ published' = {}
    /\ UNCHANGED <<givenVars, deleted, done, dir, entry, made>>

-----------------------------------------------------------------------------
OverlayInit ==
    /\ decl \in [Unions -> Decl] /\ fsopen \in BOOLEAN
    /\ deleted = FALSE /\ published = {} /\ done = {}
    /\ awaited = [v \in Volumes |-> 0]
    /\ dir = {} /\ stack = [v \in Volumes |-> <<>>]
    /\ entry = [u \in Unions |-> Absent] /\ made = [u \in Unions |-> 0]
    /\ call = NoCalls
    /\ faults = 0 /\ past = {}

KubeletCalls(v) == \E c \in Calls : PublishAgain(v, c) \/ Publish(v, c) \/ Unpublish(v, c)

CallStep(v, c) ==
    \/ SourcesReady(v, c) \/ SourcesFail(v, c)
    \/ OpenWorkspace(v, c) \/ OpenUpper(v, c) \/ OpenWork(v, c)
    \/ Create(v, c) \/ Attach(v, c) \/ MountClassic(v, c)
    \/ Bind(v, c) \/ Remount(v, c)
    \/ Unmount(v, c) \/ RemoveTarget(v, c)

\* What happens around the driver and leaves it running.
Surroundings ==
    \/ DeletePod
    \/ \E v \in Volumes : KubeletGivesUp(v) \/ KubeletForgets(v)
    \/ \E u \in Unions : VolumeChanges(u)

-----------------------------------------------------------------------------
(***************************************************************************)
(* Properties.                                                             *)
(***************************************************************************)

\* Type invariant: what a call holds open is what its label says it may hold.
OverlayTypeOK ==
    /\ decl \in [Unions -> Decl] /\ fsopen \in BOOLEAN /\ deleted \in BOOLEAN
    /\ published \subseteq Volumes /\ done \subseteq Volumes /\ dir \subseteq Volumes
    /\ awaited \in [Volumes -> Calls \cup {0}]
    /\ stack \in [Volumes -> Seq(Layer)]
    /\ entry \in [Unions -> Gens \cup {Absent, Link}]
    /\ made \in [Unions -> Gens \cup {0}]
    /\ call \in [Volumes -> [Calls -> Call]]
    /\ \A v \in Volumes, c \in Calls : call[v][c].id # 0 => At(v, c, "attach")
    /\ faults \in 0 .. MaxFaults /\ past \subseteq Remembered

\* Two overlay mounts never have an upper directory in common, attached or about to be
\* (README "two overlay mounts would share its upper and work directories. The kernel does
\* not allow that"; overlay.go:76), unless kubelet gave up on a call that went on.
NoSharedUpper ==
    ~Outlived => \A u \in Unions :
        LET own == {l \in Layers \cup Held : l.id # 0 /\ l.upper # 0 /\
                       \E v \in Volumes : Source(v) = u /\
                          (l \in HeldBy(v) \/ \E i \in DOMAIN stack[v] : stack[v][i] = l)}
        IN \A l, m \in own : l.upper = m.upper => l.id = m.id

\* A mount has its upper and work directories in one workspace, whatever happens to
\* .union-csi between the steps that open them (mount_linux.go:75 "so it uses exactly the
\* directories checked here even if the volume is changed in between").
OneWorkspace == \A l \in Layers : l.upper = l.work

\* Nothing that was asked for or declared read-only can be written through: the README's
\* "the mode suffix says whether writes may land there" and "Setting readOnly: true ... makes
\* the whole merge read-only regardless" (bind_linux.go:13, overlay.go:76).
ReadOnlyIsKept ==
    \A v \in published : Mounted(v) /\ LayoutReadOnly(Source(v)) => Top(v).ro

\* The same of unions, and of views that were asked for read-only, unless a call was
\* overtaken or cut short.
PublishedIsReadOnly ==
    past \subseteq {"forget"} => \A v \in published :
        Mounted(v) /\ BindsReadOnly(v) => Top(v).ro

\* What a container finds at the target of a volume, in the words of UnionVolume.
Seen(v) ==
    IF ~Mounted(v) THEN IF v \in done THEN "gone" ELSE "absent"
    ELSE IF Top(v).what = "bare" \/ (LayoutReadOnly(Source(v)) /\ ~Top(v).ro) THEN "unready"
    ELSE "serving"

Contract == INSTANCE UnionVolume WITH
    state     <- [v \in Volumes |-> Seen(v)],
    told      <- published,
    deleted   <- IF deleted THEN Volumes ELSE {},
    disturbed <- Outlived \/ "forget" \in past

\* The overlay backend keeps the contract of backend.Backend (backend.go:60) as long as
\* kubelet waits for its calls: whichever of them fail, and however often the driver is
\* killed or the node reboots.
KeepsContract == Contract!Spec

=============================================================================
