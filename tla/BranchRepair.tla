---------------------------- MODULE BranchRepair ----------------------------
(***************************************************************************)
(* repairBranches of the mergerfs backend.  Inside the sandbox of a daemon *)
(* every branch is a copy of the mount its source volume had when the      *)
(* daemon started.  A source that is mounted again on the host leaves the  *)
(* daemon with a disconnected copy; the reconcile pass finds such branches *)
(* and clones the host's mount into the running daemon, once a branch has  *)
(* been stale for staleThreshold passes.                                   *)
(*                                                                         *)
(* Mounts, unmounts and repairs of the union itself are MergerfsBackend's  *)
(* subject: here a daemon that died is simply started again by the pass.   *)
(***************************************************************************)
EXTENDS Integers

CONSTANTS
    Volumes,     \* volumes with a union of their own, in a sandbox
    Branches,    \* the branches of each, by their path in the sandbox
    MaxDaemons,  \* bound on the daemons started for one volume
    MaxFaults    \* bound on the events the driver does not control

ASSUME BranchAssumption == Branches # {}

ASSUME BoundAssumption == MaxDaemons \in Nat \ {0} /\ MaxFaults \in Nat

staleThreshold == 3

VARIABLES
    recorded,  \* volumes with a state file
    daemon,    \* how many daemons each volume has had: the pid of the last one
    running,   \* volumes whose last daemon runs
    host,      \* the state of the mount each branch has on the host
    inner,     \* the state of the copy each branch has in the daemon
    same,      \* the copy is of the very mount that the host has
    stale,     \* the staleCounter, as a total map
    todo,      \* volumes the running pass has yet to visit
    visit,     \* the volume the pass visits, and what it remembers of it
    streak,    \* history: the visits in a row that found a branch stale in this daemon
    faults     \* how many faults have happened

branchVars == <<host, inner, same>>
daemonVars == <<daemon, running>>
vars == <<recorded, daemonVars, branchVars, stale, todo, visit, streak, faults>>

HostStates  == {"live", "hung", "dead", "other"}
InnerStates == HostStates \cup {"none"}

\* The map's zero value: a branch that is not counted.
NoRun == [pid |-> 0, passes |-> 0]

\* One value for every branch of every volume.
Everywhere(x) == [v \in Volumes |-> [b \in Branches |-> x]]

\* Between two visits.
NoVisit == [at |-> "none", volume |-> "none", branch |-> "none", pid |-> 0,
            points |-> {}, left |-> {}]

-----------------------------------------------------------------------------
(***************************************************************************)
(* The staleCounter.                                                       *)
(***************************************************************************)

\* Mutant: a run goes on across daemons.
HitAnyDaemon(run, pid) == [pid |-> pid, passes |-> run.passes + 1]

\* hit: one more pass for this daemon; a new daemon starts from one.
Hit(run, pid) ==
    [pid |-> pid, passes |-> IF run.pid = pid THEN run.passes + 1 ELSE 1]

SetRun(v, b, run) == stale' = [stale EXCEPT ![v][b] = run]
SetStreak(v, b, n) == streak' = [streak EXCEPT ![v][b] = n]

\* clear: the branch is healthy, beyond help, or repaired.
Clear(v, b) == SetRun(v, b, NoRun) /\ SetStreak(v, b, 0)

\* Mutant: nothing is dropped.
RetainAll(ids) == stale

\* retain: the runs of volumes that have no state file are dropped.
Retain(ids) == [v \in Volumes |-> IF v \in ids THEN stale[v] ELSE [b \in Branches |-> NoRun]]

-----------------------------------------------------------------------------
(***************************************************************************)
(* The pass.                                                               *)
(***************************************************************************)
Fault   == faults < MaxFaults /\ faults' = faults + 1
NoFault == UNCHANGED faults

BeginPass ==
    /\ visit = NoVisit /\ todo = {}
    /\ todo' = recorded
    /\ stale' = Retain(recorded)
    /\ UNCHANGED <<recorded, daemonVars, branchVars, visit, streak, faults>>

Reaches(v) == visit = NoVisit /\ v \in todo /\ todo' = todo \ {v}

\* The volume was unpublished meanwhile, or its daemon's pid is not known.
SkipVolume(v) ==
    /\ Reaches(v)
    /\ \/ v \notin recorded /\ NoFault
       \/ v \in recorded \cap running /\ Fault
    /\ UNCHANGED <<recorded, daemonVars, branchVars, stale, visit, streak>>

\* Its daemon is gone: the pass starts another, which copies every branch.
RestartDaemon(v) ==
    /\ Reaches(v)
    /\ v \in recorded \ running /\ daemon[v] < MaxDaemons
    /\ daemon' = [daemon EXCEPT ![v] = @ + 1]
    /\ running' = running \cup {v}
    /\ inner' = [inner EXCEPT ![v] = host[v]]
    /\ same' = [same EXCEPT ![v] = [b \in Branches |-> TRUE]]
    /\ streak' = [streak EXCEPT ![v] = [b \in Branches |-> 0]]
    /\ UNCHANGED <<recorded, host, stale, visit, faults>>

\* daemonMountPoints: the branches that are a mount of their own in the daemon.
MountPoints(v) == {b \in Branches : inner[v][b] # "none"}

\* It is live or does not answer: the pid and the mount points of the daemon are read once
\* for the whole visit.  If they cannot be read, no branch counts as missing.
VisitVolume(v) ==
    /\ Reaches(v)
    /\ v \in recorded \cap running
    /\ \E points \in SUBSET Branches :
          /\ \/ points = MountPoints(v) /\ NoFault
             \/ points = Branches /\ Fault
          /\ visit' = [at |-> "inner", volume |-> v, branch |-> "none", pid |-> daemon[v],
                       points |-> points, left |-> Branches]
    /\ UNCHANGED <<recorded, daemonVars, branchVars, stale, streak>>

\* Mutant: the visit does not end after its last branch.
NextBranchEndless(b) ==
    visit' = [visit EXCEPT !.at = "inner", !.branch = "none", !.left = @ \ {b}]

\* The visit goes on to the next branch, or ends.
NextBranch(b) ==
    visit' = IF visit.left \subseteq {b} THEN NoVisit
             ELSE [visit EXCEPT !.at = "inner", !.branch = "none", !.left = @ \ {b}]

\* What the branch looks like through the root of the daemon's pid.
SeenInDaemon(v, b) == IF v \in running THEN inner[v][b] ELSE "gone"

\* deadInDaemon: its source is gone, or does not answer.
DeadInDaemon(v, b) == SeenInDaemon(v, b) \in {"dead", "hung"}

\* A branch is stale too when it is no mount of its own any more.
StaleInDaemon(v, b) == DeadInDaemon(v, b) \/ b \notin visit.points

ProbeInner(b) ==
    /\ visit.at = "inner" /\ b \in visit.left
    /\ IF StaleInDaemon(visit.volume, b)
       THEN /\ visit' = [visit EXCEPT !.at = "host", !.branch = b]
            /\ UNCHANGED <<stale, streak>>
       ELSE Clear(visit.volume, b) /\ NextBranch(b)
    /\ UNCHANGED <<recorded, daemonVars, branchVars, todo, faults>>

\* Cloning a branch that does not serve on the host either cannot help.
ProbeHostFails ==
    /\ visit.at = "host"
    /\ host[visit.volume][visit.branch] # "live"
    /\ Clear(visit.volume, visit.branch)
    /\ NextBranch(visit.branch)
    /\ UNCHANGED <<recorded, daemonVars, branchVars, todo, faults>>

\* It serves on the host: count, and replace it from the threshold on.
ProbeHostServes ==
    LET v == visit.volume
        b == visit.branch
        run == Hit(stale[v][b], visit.pid)
    IN  /\ visit.at = "host"
        /\ host[v][b] = "live"
        /\ SetRun(v, b, run)
        /\ SetStreak(v, b, streak[v][b] + 1)
        /\ IF run.passes < staleThreshold THEN NextBranch(b)
                                          ELSE visit' = [visit EXCEPT !.at = "replace"]
        /\ UNCHANGED <<recorded, daemonVars, branchVars, todo, faults>>

\* ReplaceIn detaches the old copy and attaches a clone of what the host has now.
Replace ==
    LET v == visit.volume
        b == visit.branch
    IN  /\ visit.at = "replace"
        /\ v \in running
        /\ inner' = [inner EXCEPT ![v][b] = host[v][b]]
        /\ same' = [same EXCEPT ![v][b] = TRUE]
        /\ Clear(v, b)
        /\ NextBranch(b)
        /\ UNCHANGED <<recorded, daemonVars, host, todo, faults>>

\* It may fail before or after it detached the old copy; the count stays.
ReplaceFails ==
    LET v == visit.volume
        b == visit.branch
    IN  /\ visit.at = "replace"
        /\ \/ v \notin running /\ UNCHANGED <<inner, same>> /\ NoFault
           \/ v \in running /\ UNCHANGED <<inner, same>> /\ Fault
           \/ /\ v \in running /\ Fault
              /\ inner' = [inner EXCEPT ![v][b] = "none"]
              /\ same' = [same EXCEPT ![v][b] = FALSE]
        /\ NextBranch(b)
        /\ UNCHANGED <<recorded, daemonVars, host, stale, todo, streak>>

-----------------------------------------------------------------------------
(***************************************************************************)
(* The environment: the source volumes, the daemons, the driver, kubelet.  *)
(***************************************************************************)

\* The mount a branch has on the host changes state, and a copy of that mount with it.
HostBecomes(v, b, from, to) ==
    /\ host[v][b] \in from
    /\ host' = [host EXCEPT ![v][b] = to]
    /\ inner' = [inner EXCEPT ![v][b] = IF same[v][b] THEN to ELSE @]
    /\ UNCHANGED <<recorded, daemonVars, same, stale, todo, visit, streak>>

SourceDies(v, b)     == HostBecomes(v, b, {"live", "hung"}, "dead") /\ Fault
SourceHangs(v, b)    == HostBecomes(v, b, {"live"}, "hung") /\ Fault
SourceRecovers(v, b) == HostBecomes(v, b, {"hung"}, "live") /\ NoFault

\* The source is mounted again, or unmounted, on the host: the daemon keeps its copy.
SourceReplaced(v, b) ==
    /\ \E to \in {"live", "other"} : host' = [host EXCEPT ![v][b] = to]
    /\ same' = [same EXCEPT ![v][b] = FALSE]
    /\ Fault
    /\ UNCHANGED <<recorded, daemonVars, inner, stale, todo, visit, streak>>

\* A copy of a mount the host no longer has goes its own way.
CopyDies(v, b) ==
    /\ ~same[v][b] /\ inner[v][b] \in {"live", "hung"}
    /\ inner' = [inner EXCEPT ![v][b] = "dead"]
    /\ Fault
    /\ UNCHANGED <<recorded, daemonVars, host, same, stale, todo, visit, streak>>

DaemonCrashes(v) ==
    /\ v \in running
    /\ running' = running \ {v}
    /\ Fault
    /\ UNCHANGED <<recorded, daemon, branchVars, stale, todo, visit, streak>>

\* The counts are lost with the driver's pod, and so are the daemons without host systemd.
DriverRestarts ==
    /\ Fault
    /\ visit' = NoVisit /\ todo' = {}
    /\ stale' = Everywhere(NoRun)
    /\ running' \in {running, {}}
    /\ UNCHANGED <<recorded, daemon, branchVars, streak>>

\* NodeUnpublishVolume, which waits for a visit of the volume to end.
Unpublish(v) ==
    /\ v \in recorded /\ visit.volume # v
    /\ recorded' = recorded \ {v}
    /\ running' = running \ {v}
    /\ UNCHANGED <<daemon, branchVars, stale, todo, visit, streak, faults>>

-----------------------------------------------------------------------------
Init ==
    /\ recorded = Volumes /\ running = Volumes
    /\ daemon = [v \in Volumes |-> 1]
    /\ host = Everywhere("live") /\ inner = Everywhere("live") /\ same = Everywhere(TRUE)
    /\ stale = Everywhere(NoRun) /\ streak = Everywhere(0)
    /\ todo = {} /\ visit = NoVisit
    /\ faults = 0

PassStep ==
    \/ BeginPass
    \/ \E v \in Volumes : SkipVolume(v) \/ RestartDaemon(v) \/ VisitVolume(v)
    \/ \E b \in Branches : ProbeInner(b)
    \/ ProbeHostFails \/ ProbeHostServes
    \/ Replace \/ ReplaceFails

Environment ==
    \/ \E v \in Volumes, b \in Branches :
          \/ SourceDies(v, b) \/ SourceHangs(v, b) \/ SourceRecovers(v, b)
          \/ SourceReplaced(v, b) \/ CopyDies(v, b)
    \/ \E v \in Volumes : DaemonCrashes(v) \/ Unpublish(v)
    \/ DriverRestarts

Next == PassStep \/ Environment

\* One goroutine runs the passes, every 30s; nothing is assumed of the environment.
Spec == Init /\ [][Next]_vars /\ WF_vars(PassStep)

-----------------------------------------------------------------------------
\* What the pass remembers during a visit.
Visits ==
    [at : {"inner", "host", "replace"}, volume : Volumes, branch : Branches \cup {"none"},
     pid : 1 .. MaxDaemons, points : SUBSET Branches, left : (SUBSET Branches) \ {{}}]

\* Type invariant: every variable keeps to its set, and a visit has branches left to look
\* at, among them the one it is about to count or replace.
TypeOK ==
    /\ recorded \subseteq Volumes /\ running \subseteq Volumes /\ todo \subseteq Volumes
    /\ daemon \in [Volumes -> 1 .. MaxDaemons]
    /\ host \in [Volumes -> [Branches -> HostStates]]
    /\ inner \in [Volumes -> [Branches -> InnerStates]]
    /\ same \in [Volumes -> [Branches -> BOOLEAN]]
    /\ stale \in [Volumes -> [Branches -> [pid : 0 .. MaxDaemons, passes : Nat]]]
    /\ streak \in [Volumes -> [Branches -> Nat]]
    /\ visit = NoVisit \/ visit \in Visits
    /\ visit.at \in {"host", "replace"} => visit.branch \in visit.left
    /\ faults \in 0 .. MaxFaults

\* A branch is replaced only after staleThreshold visits in a row found it stale in the
\* very daemon that runs now while it served on the host, whatever restarts, remounts and
\* failed replacements came in between (probe_linux.go:30, stale.go:12).
ReplacedOnlyAfterARun ==
    visit.at = "replace" => streak[visit.volume][visit.branch] >= staleThreshold

\* A branch that stays stale in a running daemon while it serves on the host is cloned
\* again at last, also when a replacement failed half way or the driver restarted
\* (README "is cloned again at the same path inside the running daemon").
StaleBranchIsReplaced ==
    \A v \in Volumes, b \in Branches :
        []<>~(/\ v \in recorded \cap running
              /\ host[v][b] = "live" /\ inner[v][b] \in {"dead", "hung", "none"})

\* The runs of a volume that is gone are dropped (reconcile_linux.go:24).
CountersAreDropped ==
    \A v \in Volumes : v \notin recorded ~> stale[v] = [b \in Branches |-> NoRun]

=============================================================================
