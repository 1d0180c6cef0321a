------------------------- MODULE BranchRepairProofs -------------------------
(***************************************************************************)
(* Proofs about BranchRepair: type correctness, and that a branch is       *)
(* replaced only after a run of stale visits in the daemon that runs.      *)
(***************************************************************************)
EXTENDS BranchRepair, TLAPS

\* The runs a counter may hold.
Runs == [pid : 0 .. MaxDaemons, passes : Nat]

\* An assignment to one branch of one volume keeps a map of branches in its set.
LEMMA UpdateType ==
    ASSUME NEW S, NEW f \in [Volumes -> [Branches -> S]], NEW v \in Volumes,
           NEW b \in Branches, NEW x \in S
    PROVE  [f EXCEPT ![v][b] = x] \in [Volumes -> [Branches -> S]]
OBVIOUS

\* NoRun is a run, and a hit makes one.
LEMMA RunType ==
    /\ NoRun \in Runs
    /\ \A run \in Runs, pid \in 1 .. MaxDaemons :
          /\ Hit(run, pid) \in Runs
          /\ Hit(run, pid).pid = pid
          /\ Hit(run, pid).passes = IF run.pid = pid THEN run.passes + 1 ELSE 1
BY BoundAssumption DEF NoRun, Runs, Hit

\* Clearing the run of a branch keeps the maps in their sets.
LEMMA ClearType ==
    ASSUME TypeOK, NEW v \in Volumes, NEW b \in Branches, Clear(v, b)
    PROVE  /\ stale' \in [Volumes -> [Branches -> Runs]]
           /\ streak' \in [Volumes -> [Branches -> Nat]]
<1>1. stale' = [stale EXCEPT ![v][b] = NoRun] /\ streak' = [streak EXCEPT ![v][b] = 0]
  BY DEF Clear, SetRun, SetStreak
<1>2. stale \in [Volumes -> [Branches -> Runs]] /\ streak \in [Volumes -> [Branches -> Nat]]
  BY DEF TypeOK, Runs
<1> QED
  BY <1>1, <1>2, UpdateType, RunType

\* Outside a visit the pass is nowhere, in one it is at a volume.
LEMMA VisitCases ==
    ASSUME TypeOK, visit.at # "none"
    PROVE  visit \in Visits
BY DEF TypeOK, NoVisit

\* The next branch, or the end of the visit.
LEMMA NextBranchType ==
    ASSUME visit \in Visits, NEW b \in Branches, NextBranch(b)
    PROVE  /\ visit' = NoVisit \/ visit' \in Visits
           /\ visit'.at \in {"none", "inner"}
           /\ visit' \in Visits => visit'.pid = visit.pid /\ visit'.volume = visit.volume
<1>1. CASE visit.left \subseteq {b}
  BY <1>1 DEF NextBranch, NoVisit, Visits
<1>2. CASE ~(visit.left \subseteq {b})
  <2>1. visit' = [visit EXCEPT !.at = "inner", !.branch = "none", !.left = @ \ {b}]
    BY <1>2 DEF NextBranch
  <2>2. visit.left \ {b} \in (SUBSET Branches) \ {{}}
    BY <1>2 DEF Visits
  <2> QED
    BY <2>1, <2>2 DEF Visits
<1> QED
  BY <1>1, <1>2

\* A fault stays within its bound.
LEMMA FaultType ==
    ASSUME faults \in 0 .. MaxFaults, Fault \/ NoFault
    PROVE  faults' \in 0 .. MaxFaults
BY BoundAssumption DEF Fault, NoFault

-----------------------------------------------------------------------------
\* The initial states are type correct.
LEMMA InitType == Init => TypeOK
<1> SUFFICES ASSUME Init PROVE TypeOK
  OBVIOUS
<1>1. /\ daemon \in [Volumes -> 1 .. MaxDaemons] /\ faults \in 0 .. MaxFaults
  BY BoundAssumption DEF Init
<1>2. stale \in [Volumes -> [Branches -> Runs]] /\ streak \in [Volumes -> [Branches -> Nat]]
  BY RunType DEF Init, Everywhere
<1>3. /\ host \in [Volumes -> [Branches -> HostStates]]
      /\ inner \in [Volumes -> [Branches -> InnerStates]]
      /\ same \in [Volumes -> [Branches -> BOOLEAN]]
  BY DEF Init, Everywhere, HostStates, InnerStates
<1> QED
  BY <1>1, <1>2, <1>3 DEF Init, TypeOK, NoVisit, Runs

\* Steps of the pass between two visits, and those that begin one.
LEMMA ReachType ==
    ASSUME TypeOK,
           BeginPass \/ \E v \in Volumes : SkipVolume(v) \/ RestartDaemon(v) \/ VisitVolume(v)
    PROVE  TypeOK'
<1>1. CASE BeginPass
  <2>1. stale' \in [Volumes -> [Branches -> Runs]]
    BY <1>1, RunType DEF BeginPass, Retain, TypeOK, Runs
  <2> QED
    BY <1>1, <2>1 DEF BeginPass, TypeOK, Runs, daemonVars, branchVars
<1>2. ASSUME NEW v \in Volumes, SkipVolume(v) PROVE TypeOK'
  <2>1. faults' \in 0 .. MaxFaults
    BY <1>2, FaultType DEF SkipVolume, TypeOK
  <2> QED
    BY <1>2, <2>1 DEF SkipVolume, Reaches, TypeOK, daemonVars, branchVars
<1>3. ASSUME NEW v \in Volumes, RestartDaemon(v) PROVE TypeOK'
  <2>1. daemon' \in [Volumes -> 1 .. MaxDaemons]
    BY <1>3, BoundAssumption DEF RestartDaemon, TypeOK
  <2>2. inner' \in [Volumes -> [Branches -> InnerStates]]
    <3>1. host[v] \in [Branches -> InnerStates]
      BY DEF TypeOK, InnerStates
    <3> QED
      BY <1>3, <3>1 DEF RestartDaemon, TypeOK
  <2>3. /\ same' \in [Volumes -> [Branches -> BOOLEAN]]
        /\ streak' \in [Volumes -> [Branches -> Nat]]
    BY <1>3 DEF RestartDaemon, TypeOK
  <2> QED
    BY <1>3, <2>1, <2>2, <2>3 DEF RestartDaemon, Reaches, TypeOK
<1>4. ASSUME NEW v \in Volumes, VisitVolume(v) PROVE TypeOK'
  <2>1. faults' \in 0 .. MaxFaults
    BY <1>4, FaultType DEF VisitVolume, TypeOK
  <2>2. visit' \in Visits /\ visit'.at = "inner"
    BY <1>4, BranchAssumption DEF VisitVolume, Visits, TypeOK
  <2> QED
    BY <1>4, <2>1, <2>2 DEF VisitVolume, Reaches, TypeOK, daemonVars, branchVars
<1> QED
  BY <1>1, <1>2, <1>3, <1>4

\* Steps of a visit.
LEMMA VisitType ==
    ASSUME TypeOK,
           \/ \E b \in Branches : ProbeInner(b)
           \/ ProbeHostFails \/ ProbeHostServes \/ Replace \/ ReplaceFails
    PROVE  TypeOK'
<1>1. visit \in Visits /\ visit.volume \in Volumes /\ visit.left \subseteq Branches
  <2>1. visit.at # "none"
    BY DEF ProbeInner, ProbeHostFails, ProbeHostServes, Replace, ReplaceFails
  <2> QED
    BY <2>1, VisitCases DEF Visits
<1>2. visit.at \in {"host", "replace"} => visit.branch \in Branches
  BY <1>1 DEF TypeOK
<1>3. CASE \E b \in Branches : ProbeInner(b)
  <2>1. PICK b \in Branches : ProbeInner(b)
    BY <1>3
  <2>2. CASE StaleInDaemon(visit.volume, b)
    <3>1. /\ visit' = [visit EXCEPT !.at = "host", !.branch = b]
          /\ b \in visit.left /\ UNCHANGED <<stale, streak>>
      BY <2>1, <2>2 DEF ProbeInner
    <3>2. visit' \in Visits /\ visit'.branch \in visit'.left
      BY <1>1, <3>1 DEF Visits
    <3> QED
      BY <2>1, <3>1, <3>2 DEF ProbeInner, TypeOK, daemonVars, branchVars
  <2>3. CASE ~StaleInDaemon(visit.volume, b)
    <3>1. Clear(visit.volume, b) /\ NextBranch(b)
      BY <2>1, <2>3 DEF ProbeInner
    <3> QED
      BY <1>1, <2>1, <3>1, ClearType, NextBranchType
         DEF ProbeInner, TypeOK, Runs, daemonVars, branchVars
  <2> QED
    BY <2>2, <2>3
<1>4. CASE ProbeHostFails
  BY <1>1, <1>2, <1>4, ClearType, NextBranchType
     DEF ProbeHostFails, TypeOK, Runs, daemonVars, branchVars
<1>5. CASE ProbeHostServes
  <2> DEFINE v == visit.volume
             b == visit.branch
             run == Hit(stale[v][b], visit.pid)
  <2>1. b \in Branches /\ b \in visit.left
    BY <1>2, <1>5 DEF ProbeHostServes, TypeOK
  <2>2. run \in Runs
    BY <1>1, <2>1, RunType DEF TypeOK, Visits, Runs
  <2>3. /\ stale' = [stale EXCEPT ![v][b] = run]
        /\ streak' = [streak EXCEPT ![v][b] = streak[v][b] + 1]
    BY <1>5 DEF ProbeHostServes, SetRun, SetStreak
  <2>4. stale' \in [Volumes -> [Branches -> Runs]]
    BY <1>1, <2>1, <2>2, <2>3, UpdateType DEF TypeOK, Runs
  <2>5. streak' \in [Volumes -> [Branches -> Nat]]
    <3>1. streak[v][b] + 1 \in Nat
      BY <1>1, <2>1 DEF TypeOK
    <3> QED
      BY <1>1, <2>1, <2>3, <3>1, UpdateType DEF TypeOK
  <2>6. /\ visit' = NoVisit \/ visit' \in Visits
        /\ visit'.at \in {"host", "replace"} => visit'.branch \in visit'.left
    <3>1. CASE NextBranch(b)
      BY <1>1, <2>1, <3>1, NextBranchType
    <3>2. CASE visit' = [visit EXCEPT !.at = "replace"]
      BY <1>1, <2>1, <3>2 DEF Visits
    <3> QED
      BY <1>5, <3>1, <3>2 DEF ProbeHostServes
  <2> QED
    BY <1>5, <2>4, <2>5, <2>6 DEF ProbeHostServes, TypeOK, Runs, daemonVars, branchVars
<1>6. CASE Replace
  <2>1. visit.branch \in Branches
    BY <1>2, <1>6 DEF Replace
  <2>2. inner' \in [Volumes -> [Branches -> InnerStates]]
    <3>1. host[visit.volume][visit.branch] \in InnerStates
      BY <1>1, <2>1 DEF TypeOK, InnerStates
    <3> QED
      BY <1>1, <1>6, <2>1, <3>1, UpdateType DEF Replace, TypeOK
  <2>3. same' \in [Volumes -> [Branches -> BOOLEAN]]
    BY <1>1, <1>6, <2>1, UpdateType DEF Replace, TypeOK
  <2>4. Clear(visit.volume, visit.branch) /\ NextBranch(visit.branch)
    BY <1>6 DEF Replace
  <2>5. /\ stale' \in [Volumes -> [Branches -> Runs]]
        /\ streak' \in [Volumes -> [Branches -> Nat]]
    BY <1>1, <2>1, <2>4, ClearType
  <2> QED
    BY <1>1, <1>6, <2>1, <2>2, <2>3, <2>4, <2>5, NextBranchType
       DEF Replace, TypeOK, Runs, daemonVars
<1>7. CASE ReplaceFails
  <2>1. visit.branch \in Branches
    BY <1>2, <1>7 DEF ReplaceFails
  <2>2. /\ inner' \in [Volumes -> [Branches -> InnerStates]]
        /\ same' \in [Volumes -> [Branches -> BOOLEAN]]
    <3>1. "none" \in InnerStates
      BY DEF InnerStates
    <3>2. CASE UNCHANGED <<inner, same>>
      BY <3>2 DEF TypeOK
    <3>3. CASE /\ inner' = [inner EXCEPT ![visit.volume][visit.branch] = "none"]
               /\ same' = [same EXCEPT ![visit.volume][visit.branch] = FALSE]
      BY <1>1, <2>1, <3>1, <3>3, UpdateType DEF TypeOK
    <3> QED
      BY <1>7, <3>2, <3>3 DEF ReplaceFails
  <2>3. faults' \in 0 .. MaxFaults
    BY <1>7, FaultType DEF ReplaceFails, TypeOK
  <2>4. NextBranch(visit.branch)
    BY <1>7 DEF ReplaceFails
  <2> QED
    BY <1>1, <1>7, <2>1, <2>2, <2>3, <2>4, NextBranchType DEF ReplaceFails, TypeOK, daemonVars
<1> QED
  BY <1>3, <1>4, <1>5, <1>6, <1>7

\* The environment.
LEMMA EnvironmentType == ASSUME TypeOK, Environment PROVE TypeOK'
<1>1. ASSUME NEW v \in Volumes, NEW b \in Branches,
             SourceDies(v, b) \/ SourceHangs(v, b) \/ SourceRecovers(v, b)
      PROVE  TypeOK'
  <2>1. PICK from \in SUBSET HostStates, to \in HostStates : HostBecomes(v, b, from, to)
    BY <1>1 DEF SourceDies, SourceHangs, SourceRecovers, HostStates
  <2>2. faults' \in 0 .. MaxFaults
    BY <1>1, FaultType DEF SourceDies, SourceHangs, SourceRecovers, TypeOK
  <2>3. host' \in [Volumes -> [Branches -> HostStates]]
    BY <2>1, UpdateType DEF HostBecomes, TypeOK
  <2>4. inner' \in [Volumes -> [Branches -> InnerStates]]
    <3> DEFINE x == IF same[v][b] THEN to ELSE inner[v][b]
    <3>1. x \in InnerStates
      BY DEF TypeOK, InnerStates
    <3>2. inner' = [inner EXCEPT ![v][b] = x]
      BY <2>1 DEF HostBecomes
    <3> QED
      BY <3>1, <3>2, UpdateType DEF TypeOK
  <2> QED
    BY <2>1, <2>2, <2>3, <2>4 DEF HostBecomes, TypeOK, daemonVars
<1>2. ASSUME NEW v \in Volumes, NEW b \in Branches, SourceReplaced(v, b)
      PROVE  TypeOK'
  <2>1. PICK to \in HostStates : host' = [host EXCEPT ![v][b] = to]
    BY <1>2 DEF SourceReplaced, HostStates
  <2>2. faults' \in 0 .. MaxFaults
    BY <1>2, FaultType DEF SourceReplaced, TypeOK
  <2>3. /\ host' \in [Volumes -> [Branches -> HostStates]]
        /\ same' \in [Volumes -> [Branches -> BOOLEAN]]
    BY <1>2, <2>1, UpdateType DEF SourceReplaced, TypeOK
  <2> QED
    BY <1>2, <2>2, <2>3 DEF SourceReplaced, TypeOK, daemonVars
<1>3. ASSUME NEW v \in Volumes, NEW b \in Branches, CopyDies(v, b)
      PROVE  TypeOK'
  <2>1. faults' \in 0 .. MaxFaults
    BY <1>3, FaultType DEF CopyDies, TypeOK
  <2>2. inner' \in [Volumes -> [Branches -> InnerStates]]
    BY <1>3, UpdateType DEF CopyDies, TypeOK, InnerStates, HostStates
  <2> QED
    BY <1>3, <2>1, <2>2 DEF CopyDies, TypeOK, daemonVars
<1>4. ASSUME NEW v \in Volumes, DaemonCrashes(v) \/ Unpublish(v) PROVE TypeOK'
  <2>1. faults' \in 0 .. MaxFaults
    BY <1>4, FaultType DEF DaemonCrashes, Unpublish, TypeOK
  <2> QED
    BY <1>4, <2>1 DEF DaemonCrashes, Unpublish, TypeOK, branchVars
<1>5. CASE DriverRestarts
  <2>1. faults' \in 0 .. MaxFaults
    BY <1>5, FaultType DEF DriverRestarts, TypeOK
  <2>2. stale' \in [Volumes -> [Branches -> Runs]]
    BY <1>5, RunType DEF DriverRestarts, Everywhere
  <2> QED
    BY <1>5, <2>1, <2>2 DEF DriverRestarts, TypeOK, Runs, NoVisit, branchVars
<1> QED
  BY <1>1, <1>2, <1>3, <1>4, <1>5 DEF Environment

\* Every step keeps the types.
LEMMA NextType == TypeOK /\ [Next]_vars => TypeOK'
<1> SUFFICES ASSUME TypeOK, [Next]_vars PROVE TypeOK'
  OBVIOUS
<1>1. CASE PassStep
  BY <1>1, ReachType, VisitType DEF PassStep
<1>2. CASE Environment
  BY <1>2, EnvironmentType
<1>3. CASE UNCHANGED vars
  BY <1>3 DEF vars, daemonVars, branchVars, TypeOK
<1> QED
  BY <1>1, <1>2, <1>3 DEF Next

\* Every reachable state of branch repair is type correct: a visit always has a branch to
\* look at, and the pass never counts or replaces one outside it (probe_linux.go:36).
THEOREM TypeCorrect == Spec => []TypeOK
<1> QED
  BY InitType, NextType, PTL DEF Spec

-----------------------------------------------------------------------------
(***************************************************************************)
(* The counter never runs ahead of what it counts.                         *)
(***************************************************************************)

\* A run names no daemon that is still to come.
RunsNamePastDaemons ==
    \A v \in Volumes, b \in Branches : stale[v][b].pid <= daemon[v]

\* A run of the present daemon is covered by the visits that found the branch stale in it.
RunWithinStreak ==
    \A v \in Volumes, b \in Branches :
        stale[v][b].pid = daemon[v] => stale[v][b].passes <= streak[v][b]

\* The pid of a visit is that of the daemon the volume has.
VisitsPresentDaemon == visit \in Visits => visit.pid = daemon[visit.volume]

\* The inductive invariant behind ReplacedOnlyAfterARun.
IInv == /\ TypeOK
        /\ RunsNamePastDaemons
        /\ RunWithinStreak
        /\ VisitsPresentDaemon
        /\ ReplacedOnlyAfterARun

\* No visit goes on between visits.
LEMMA NoVisitIsNone == NoVisit \notin Visits /\ NoVisit.at = "none"
BY DEF NoVisit, Visits

\* The invariant holds at first.
LEMMA InitRun == Init => IInv
<1> SUFFICES ASSUME Init PROVE IInv
  OBVIOUS
<1>1. RunsNamePastDaemons /\ RunWithinStreak
  BY DEF Init, Everywhere, NoRun, RunsNamePastDaemons, RunWithinStreak
<1>2. VisitsPresentDaemon /\ ReplacedOnlyAfterARun
  BY NoVisitIsNone DEF Init, VisitsPresentDaemon, ReplacedOnlyAfterARun
<1> QED
  BY InitType, <1>1, <1>2 DEF IInv

\* Ending the run of a branch ends its streak with it.
LEMMA ClearRun ==
    ASSUME IInv, NEW v \in Volumes, NEW b \in Branches, Clear(v, b), daemon' = daemon
    PROVE  RunsNamePastDaemons' /\ RunWithinStreak'
<1>1. stale' = [stale EXCEPT ![v][b] = NoRun] /\ streak' = [streak EXCEPT ![v][b] = 0]
  BY DEF Clear, SetRun, SetStreak
<1>2. daemon[v] \in Nat /\ daemon[v] > 0
  BY BoundAssumption DEF IInv, TypeOK
<1>3. NoRun.pid = 0 /\ NoRun.passes = 0
  BY DEF NoRun
<1>4. ASSUME NEW w \in Volumes, NEW c \in Branches
      PROVE  /\ stale'[w][c] = IF w = v /\ c = b THEN NoRun ELSE stale[w][c]
             /\ streak'[w][c] = IF w = v /\ c = b THEN 0 ELSE streak[w][c]
  BY <1>1 DEF IInv, TypeOK
<1> QED
  BY <1>2, <1>3, <1>4 DEF IInv, RunsNamePastDaemons, RunWithinStreak

\* Steps between two visits, and those that begin one.  A new daemon is named by no run.
LEMMA ReachRun ==
    ASSUME IInv,
           BeginPass \/ \E v \in Volumes : SkipVolume(v) \/ RestartDaemon(v) \/ VisitVolume(v)
    PROVE  IInv'
<1> USE DEF IInv
<1>0. TypeOK'
  BY ReachType
<1>1. CASE BeginPass
  <2>1. RunsNamePastDaemons' /\ RunWithinStreak'
    <3> SUFFICES ASSUME NEW v \in Volumes, NEW b \in Branches
                 PROVE  /\ stale'[v][b].pid <= daemon'[v]
                        /\ stale'[v][b].pid = daemon'[v] => stale'[v][b].passes <= streak'[v][b]
      BY DEF RunsNamePastDaemons, RunWithinStreak
    <3>1. stale'[v][b] \in {stale[v][b], NoRun} /\ daemon' = daemon /\ streak' = streak
      BY <1>1 DEF BeginPass, Retain, daemonVars
    <3>2. daemon[v] \in Nat /\ daemon[v] > 0
      BY BoundAssumption DEF TypeOK
    <3> QED
      BY <3>1, <3>2 DEF NoRun, RunsNamePastDaemons, RunWithinStreak
  <2>2. visit' = NoVisit
    BY <1>1 DEF BeginPass
  <2> QED
    BY <1>0, <2>1, <2>2, NoVisitIsNone DEF VisitsPresentDaemon, ReplacedOnlyAfterARun
<1>2. ASSUME NEW v \in Volumes, SkipVolume(v) PROVE IInv'
  <2>1. visit' = NoVisit /\ UNCHANGED <<daemon, stale, streak>>
    BY <1>2 DEF SkipVolume, Reaches, daemonVars
  <2> QED
    BY <1>0, <2>1, NoVisitIsNone
       DEF RunsNamePastDaemons, RunWithinStreak, VisitsPresentDaemon, ReplacedOnlyAfterARun
<1>3. ASSUME NEW v \in Volumes, RestartDaemon(v) PROVE IInv'
  <2>1. /\ visit' = NoVisit /\ stale' = stale
        /\ daemon' = [daemon EXCEPT ![v] = @ + 1]
        /\ streak' = [streak EXCEPT ![v] = [b \in Branches |-> 0]]
    BY <1>3 DEF RestartDaemon, Reaches
  <2>2. RunsNamePastDaemons' /\ RunWithinStreak'
    <3> SUFFICES ASSUME NEW w \in Volumes, NEW b \in Branches
                 PROVE  /\ stale[w][b].pid <= daemon'[w]
                        /\ stale[w][b].pid = daemon'[w] => stale[w][b].passes <= streak'[w][b]
      BY <2>1 DEF RunsNamePastDaemons, RunWithinStreak
    <3>1. stale[w][b].pid <= daemon[w] /\ stale[w][b].pid \in Nat /\ daemon[w] \in Nat
      BY BoundAssumption DEF RunsNamePastDaemons, TypeOK
    <3>2. CASE w = v
      <4>1. daemon'[w] = daemon[w] + 1
        BY <2>1, <3>2 DEF TypeOK
      <4> QED
        BY <3>1, <4>1
    <3>3. CASE w # v
      <4>1. daemon'[w] = daemon[w] /\ streak'[w] = streak[w]
        BY <2>1, <3>3 DEF TypeOK
      <4> QED
        BY <3>1, <4>1 DEF RunWithinStreak
    <3> QED
      BY <3>2, <3>3
  <2> QED
    BY <1>0, <2>1, <2>2, NoVisitIsNone DEF VisitsPresentDaemon, ReplacedOnlyAfterARun
<1>4. ASSUME NEW v \in Volumes, VisitVolume(v) PROVE IInv'
  <2>1. /\ visit'.pid = daemon[v] /\ visit'.volume = v /\ visit'.at = "inner"
        /\ UNCHANGED <<daemon, stale, streak>>
    BY <1>4 DEF VisitVolume, daemonVars
  <2> QED
    BY <1>0, <2>1
       DEF RunsNamePastDaemons, RunWithinStreak, VisitsPresentDaemon, ReplacedOnlyAfterARun
<1> QED
  BY <1>1, <1>2, <1>3, <1>4

\* Steps of a visit: a hit counts one more of the streak it extends.
LEMMA VisitRun ==
    ASSUME IInv,
           \/ \E b \in Branches : ProbeInner(b)
           \/ ProbeHostFails \/ ProbeHostServes \/ Replace \/ ReplaceFails
    PROVE  IInv'
<1> USE DEF IInv
<1>0. TypeOK'
  BY VisitType
<1>1. visit \in Visits /\ visit.volume \in Volumes
  <2>1. visit.at # "none"
    BY DEF ProbeInner, ProbeHostFails, ProbeHostServes, Replace, ReplaceFails
  <2> QED
    BY <2>1, VisitCases DEF Visits
<1>2. visit.at \in {"host", "replace"} => visit.branch \in Branches
  BY <1>1 DEF TypeOK, Visits
<1>3. daemon' = daemon
  BY DEF ProbeInner, ProbeHostFails, ProbeHostServes, Replace, ReplaceFails, daemonVars
<1>4. ASSUME NEW b \in Branches, NextBranch(b)
      PROVE  VisitsPresentDaemon' /\ ReplacedOnlyAfterARun'
  BY <1>1, <1>3, <1>4, NextBranchType DEF VisitsPresentDaemon, ReplacedOnlyAfterARun
<1>5. CASE \E b \in Branches : ProbeInner(b)
  <2>1. PICK b \in Branches : ProbeInner(b)
    BY <1>5
  <2>2. CASE StaleInDaemon(visit.volume, b)
    <3>1. visit' = [visit EXCEPT !.at = "host", !.branch = b] /\ UNCHANGED <<stale, streak>>
      BY <2>1, <2>2 DEF ProbeInner
    <3>2. visit'.pid = visit.pid /\ visit'.volume = visit.volume /\ visit'.at = "host"
      BY <1>1, <3>1 DEF Visits
    <3> QED
      BY <1>0, <1>1, <1>3, <3>1, <3>2
         DEF RunsNamePastDaemons, RunWithinStreak, VisitsPresentDaemon, ReplacedOnlyAfterARun
  <2>3. CASE ~StaleInDaemon(visit.volume, b)
    <3>1. Clear(visit.volume, b) /\ NextBranch(b)
      BY <2>1, <2>3 DEF ProbeInner
    <3> QED
      BY <1>0, <1>1, <1>3, <1>4, <3>1, ClearRun
  <2> QED
    BY <2>2, <2>3
<1>6. CASE ProbeHostFails \/ Replace
  <2>1. Clear(visit.volume, visit.branch) /\ NextBranch(visit.branch)
    BY <1>6 DEF ProbeHostFails, Replace
  <2>2. visit.branch \in Branches
    BY <1>2, <1>6 DEF ProbeHostFails, Replace
  <2> QED
    BY <1>0, <1>1, <1>3, <1>4, <2>1, <2>2, ClearRun
<1>7. CASE ProbeHostServes
  <2> DEFINE v == visit.volume
             b == visit.branch
             run == Hit(stale[v][b], visit.pid)
  <2>1. b \in Branches /\ visit.pid \in 1 .. MaxDaemons
    BY <1>1, <1>2, <1>7 DEF ProbeHostServes, Visits
  <2>2. /\ stale' = [stale EXCEPT ![v][b] = run]
        /\ streak' = [streak EXCEPT ![v][b] = streak[v][b] + 1]
    BY <1>7 DEF ProbeHostServes, SetRun, SetStreak
  <2>3. visit.pid = daemon[v]
    BY <1>1 DEF VisitsPresentDaemon
  <2>4. /\ run.pid = daemon[v]
        /\ run.passes = IF stale[v][b].pid = daemon[v] THEN stale[v][b].passes + 1 ELSE 1
    <3>1. stale[v][b] \in Runs
      BY <1>1, <2>1 DEF TypeOK, Runs
    <3> QED
      BY <2>1, <2>3, <3>1, RunType
  <2>5. run.passes <= streak[v][b] + 1 /\ run.passes \in Nat /\ streak[v][b] \in Nat
    <3>1. stale[v][b].passes \in Nat /\ streak[v][b] \in Nat
      BY <1>1, <2>1 DEF TypeOK
    <3>2. stale[v][b].pid = daemon[v] => stale[v][b].passes <= streak[v][b]
      BY <1>1, <2>1 DEF RunWithinStreak
    <3> HIDE DEF run
    <3> QED
      BY <2>4, <3>1, <3>2
  <2>6. ASSUME NEW w \in Volumes, NEW c \in Branches
        PROVE  /\ stale'[w][c] = IF w = v /\ c = b THEN run ELSE stale[w][c]
               /\ streak'[w][c] = IF w = v /\ c = b THEN streak[v][b] + 1 ELSE streak[w][c]
    <3> HIDE DEF run
    <3> QED
      BY <2>2 DEF TypeOK
  <2>7. RunsNamePastDaemons' /\ RunWithinStreak'
    <3> SUFFICES ASSUME NEW w \in Volumes, NEW c \in Branches
                 PROVE  /\ stale'[w][c].pid <= daemon[w]
                        /\ stale'[w][c].pid = daemon[w] => stale'[w][c].passes <= streak'[w][c]
      BY <1>3 DEF RunsNamePastDaemons, RunWithinStreak
    <3>1. daemon[w] \in Nat
      BY BoundAssumption DEF TypeOK
    <3> HIDE DEF run
    <3> QED
      BY <2>4, <2>5, <2>6, <3>1 DEF RunsNamePastDaemons, RunWithinStreak
  <2>8. VisitsPresentDaemon' /\ ReplacedOnlyAfterARun'
    <3>1. CASE run.passes < staleThreshold
      BY <1>4, <1>7, <2>1, <3>1 DEF ProbeHostServes
    <3>2. CASE ~(run.passes < staleThreshold)
      <4>1. visit' = [visit EXCEPT !.at = "replace"]
        BY <1>7, <3>2 DEF ProbeHostServes
      <4>2. visit'.pid = visit.pid /\ visit'.volume = v /\ visit'.branch = b
        BY <1>1, <4>1 DEF Visits
      <4>3. streak'[v][b] = streak[v][b] + 1
        BY <1>1, <2>1, <2>6
      <4>4. streak'[v][b] >= staleThreshold
        <5> HIDE DEF run
        <5> QED
          BY <2>5, <3>2, <4>3 DEF staleThreshold
      <4> QED
        BY <1>3, <2>3, <4>2, <4>4 DEF VisitsPresentDaemon, ReplacedOnlyAfterARun
    <3> QED
      BY <3>1, <3>2
  <2> QED
    BY <1>0, <2>7, <2>8
<1>8. CASE ReplaceFails
  <2>1. NextBranch(visit.branch) /\ visit.branch \in Branches /\ UNCHANGED <<stale, streak>>
    BY <1>2, <1>8 DEF ReplaceFails
  <2> QED
    BY <1>0, <1>3, <1>4, <2>1 DEF RunsNamePastDaemons, RunWithinStreak
<1> QED
  BY <1>5, <1>6, <1>7, <1>8

\* The environment leaves the counts alone, or drops them all with the driver.
LEMMA EnvironmentRun == ASSUME IInv, Environment PROVE IInv'
<1> USE DEF IInv
<1>0. TypeOK'
  BY EnvironmentType
<1>1. CASE DriverRestarts
  <2>1. /\ visit' = NoVisit /\ stale' = Everywhere(NoRun) /\ daemon' = daemon
    BY <1>1 DEF DriverRestarts
  <2>2. \A v \in Volumes : daemon[v] \in Nat /\ daemon[v] > 0
    BY BoundAssumption DEF TypeOK
  <2>3. RunsNamePastDaemons' /\ RunWithinStreak'
    BY <2>1, <2>2 DEF Everywhere, NoRun, RunsNamePastDaemons, RunWithinStreak
  <2> QED
    BY <1>0, <2>1, <2>3, NoVisitIsNone DEF VisitsPresentDaemon, ReplacedOnlyAfterARun
<1>2. CASE UNCHANGED <<daemon, stale, streak, visit>>
  BY <1>0, <1>2
     DEF RunsNamePastDaemons, RunWithinStreak, VisitsPresentDaemon, ReplacedOnlyAfterARun
<1>3. DriverRestarts \/ UNCHANGED <<daemon, stale, streak, visit>>
  BY DEF Environment, SourceDies, SourceHangs, SourceRecovers, HostBecomes, SourceReplaced,
         CopyDies, DaemonCrashes, Unpublish, daemonVars
<1> QED
  BY <1>1, <1>2, <1>3

\* Every step keeps the invariant.
LEMMA NextRun == IInv /\ [Next]_vars => IInv'
<1> SUFFICES ASSUME IInv, [Next]_vars PROVE IInv'
  OBVIOUS
<1>1. CASE PassStep
  BY <1>1, ReachRun, VisitRun DEF PassStep
<1>2. CASE Environment
  BY <1>2, EnvironmentRun
<1>3. CASE UNCHANGED vars
  BY <1>3 DEF vars, daemonVars, branchVars, IInv, TypeOK, RunsNamePastDaemons,
              RunWithinStreak, VisitsPresentDaemon, ReplacedOnlyAfterARun
<1> QED
  BY <1>1, <1>2, <1>3 DEF Next

\* A branch is replaced only after staleThreshold visits in a row found it stale in the
\* daemon that runs now, for any number of volumes, branches and events (stale.go:29,
\* probe_linux.go:79).
THEOREM ReplacedAfterARun == Spec => []ReplacedOnlyAfterARun
<1>1. IInv => ReplacedOnlyAfterARun
  BY DEF IInv
<1> QED
  BY InitRun, NextRun, <1>1, PTL DEF Spec

=============================================================================
