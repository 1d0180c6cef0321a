----------------------- MODULE MergerfsBackendProofs -----------------------
(***************************************************************************)
(* Theorems about MergerfsBackend that hold for every set of volumes and   *)
(* pods, every bound and every combination of faults: type correctness,    *)
(* that an unpublished volume is never resurrected, and that the pass      *)
(* detaches only mounts whose daemon is gone.                              *)
(***************************************************************************)
EXTENDS MergerfsBackend, TLAPS

(***************************************************************************)
(* Facts about the operators that change the mounts.                       *)
(***************************************************************************)

\* The visible mount of a mounted target is one of its mounts.
LEMMA TopType ==
    ASSUME stack \in [Volumes -> Seq(Layer)], NEW v \in Volumes, Mounted(v)
    PROVE  /\ Len(stack[v]) \in Nat \ {0}
           /\ Len(stack[v]) \in DOMAIN stack[v]
           /\ Top(v) \in Layer
<1>1. stack[v] \in Seq(Layer) /\ stack[v] # <<>>
  BY DEF Mounted
<1>2. Len(stack[v]) \in Nat \ {0} /\ DOMAIN stack[v] = 1 .. Len(stack[v])
  BY <1>1
<1>3. stack[v][Len(stack[v])] \in Layer
  BY <1>1, <1>2
<1> QED
  BY <1>2, <1>3 DEF Top

\* Mounting something on a target changes that target alone, and keeps the type.
LEMMA PushType ==
    ASSUME stack \in [Volumes -> Seq(Layer)], NEW v \in Volumes, NEW l \in Layer, Push(v, l)
    PROVE  /\ stack' \in [Volumes -> Seq(Layer)]
           /\ \A w \in Volumes \ {v} : stack'[w] = stack[w]
<1>1. Append(stack[v], l) \in Seq(Layer)
  OBVIOUS
<1> QED
  BY <1>1 DEF Push

\* Unmounting changes one target alone, starts no daemon, and keeps the types.
LEMMA PopType ==
    ASSUME stack \in [Volumes -> Seq(Layer)], alive \in [Unions -> SUBSET Pids],
           stuck \in [Unions -> SUBSET Pids],
           NEW v \in Volumes, NEW kill, Pop(v, kill)
    PROVE  /\ stack' \in [Volumes -> Seq(Layer)]
           /\ alive' \in [Unions -> SUBSET Pids]
           /\ stuck' \in [Unions -> SUBSET Pids]
           /\ \A w \in Volumes \ {v} : stack'[w] = stack[w]
           /\ \A u \in Unions : alive'[u] \subseteq alive[u] /\ stuck'[u] \subseteq alive'[u]
<1>1. stack[v] # <<>> => SubSeq(stack[v], 1, Len(stack[v]) - 1) \in Seq(Layer)
  <2> SUFFICES ASSUME stack[v] # <<>>
               PROVE  SubSeq(stack[v], 1, Len(stack[v]) - 1) \in Seq(Layer)
    OBVIOUS
  <2>1. stack[v] \in Seq(Layer) /\ Len(stack[v]) \in Nat
    OBVIOUS
  <2>2. \A i \in 1 .. Len(stack[v]) - 1 : stack[v][i] \in Layer
    BY <2>1
  <2> QED
    BY <2>1, <2>2
<1>2. /\ stack' \in [Volumes -> Seq(Layer)]
      /\ \A w \in Volumes \ {v} : stack'[w] = stack[w]
  BY <1>1 DEF Pop
<1>3. /\ alive' \in [Unions -> SUBSET Pids]
      /\ \A u \in Unions : alive'[u] \subseteq alive[u]
  BY DEF Pop
<1>4. /\ stuck' \in [Unions -> SUBSET Pids]
      /\ \A u \in Unions : stuck'[u] \subseteq alive'[u]
  BY <1>3 DEF Pop
<1> QED
  BY <1>2, <1>3, <1>4

\* A step moves one actor on one volume alone.
LEMMA GotoType ==
    ASSUME pc \in [Actors -> [Volumes -> CallLabels]],
           \A w \in Volumes : pc["pass"][w] \in PassLabels,
           NEW a \in Actors, NEW v \in Volumes, NEW l \in CallLabels,
           a = "pass" => l \in PassLabels,
           Goto(a, v, l)
    PROVE  /\ pc' \in [Actors -> [Volumes -> CallLabels]]
           /\ \A w \in Volumes : pc'["pass"][w] \in PassLabels
           /\ pc'[a][v] = l
           /\ \A b \in Actors, w \in Volumes : b # a \/ w # v => pc'[b][w] = pc[b][w]
BY DEF Goto, Actors

(***************************************************************************)
(* Type correctness.                                                       *)
(***************************************************************************)
\* The initial state has the right types.
LEMMA InitType == Init => TypeOK
<1> SUFFICES ASSUME Init PROVE TypeOK
  OBVIOUS
<1>1. stack \in [Volumes -> Seq(Layer)]
  BY DEF Init
<1>2. /\ alive \in [Unions -> SUBSET Pids] /\ stuck \in [Unions -> SUBSET Pids]
      /\ \A u \in Unions : stuck[u] \subseteq alive[u]
  BY DEF Init, NoDaemons
<1>3. /\ pc \in [Actors -> [Volumes -> CallLabels]]
      /\ \A v \in Volumes : pc["pass"][v] \in PassLabels
  BY DEF Init, Idle, Actors, CallLabels, PassLabels
<1> QED
  BY <1>1, <1>2, <1>3, BoundAssumption DEF Init, TypeOK

BudgetOK == faults \in 0 .. MaxFaults /\ past \subseteq Disturbing

\* A step draws on the budget of faults without exceeding it.
LEMMA FaultType ==
    ASSUME BudgetOK, NEW kind, Fault(kind) \/ NoFault
    PROVE  BudgetOK'
BY BoundAssumption DEF BudgetOK, Fault, NoFault, faultVars

\* Every step of kubelet and of a handler that the pass does not share keeps the types.
LEMMA CallType ==
    ASSUME TypeOK, NEW v \in Volumes,
           Kubelet(v) \/ TakesLock(v) \/ CallStep(v)
    PROVE  TypeOK'
<1> USE DEF BudgetOK, faultVars
<1> USE DEF Kubelet, TakesLock, CallStep
<1> DEFINE Moves(l) == Goto("call", v, l)
<1>1. CASE PublishAgain(v)
  BY <1>1 DEF PublishAgain, TypeOK, hostVars
<1>2. ASSUME NEW l \in CallLabels, Moves(l)
      PROVE  /\ pc' \in [Actors -> [Volumes -> CallLabels]]
             /\ \A w \in Volumes : pc'["pass"][w] \in PassLabels
  BY <1>2, GotoType DEF TypeOK, Actors
<1>3. CASE Publish(v) \/ Unpublish(v) \/ Lock(v) \/ UnpublishLock(v) \/ AwaitServing(v)
  <2>1. \E l \in CallLabels : Moves(l)
    BY <1>3 DEF Publish, Unpublish, Lock, UnpublishLock, AwaitServing, CallLabels
  <2>2. UNCHANGED <<kubeletVars, hostVars, recorded, todo, faultVars>>
    BY <1>3 DEF Publish, Unpublish, Lock, UnpublishLock, AwaitServing
  <2> QED
    BY <2>1, <2>2, <1>2 DEF TypeOK, kubeletVars, hostVars
<1>4. CASE SourcesReady(v)
  <2>1. Moves("lock") /\ "lock" \in CallLabels
    BY <1>4 DEF SourcesReady, CallLabels
  <2> QED
    BY <1>4, <2>1, <1>2 DEF SourcesReady, TypeOK, kubeletVars
<1>5. CASE SourcesFail(v)
  <2>1. Moves("idle") /\ "idle" \in CallLabels
    BY <1>5 DEF SourcesFail, CallLabels
  <2>2. BudgetOK'
    BY <1>5, FaultType DEF SourcesFail, TypeOK
  <2> QED
    BY <1>5, <2>1, <2>2, <1>2 DEF SourcesFail, TypeOK, kubeletVars, hostVars
<1>6. CASE Save(v)
  <2>1. \E l \in CallLabels : Moves(l)
    BY <1>6 DEF Save, CallLabels
  <2>2. BudgetOK'
    BY <1>6, FaultType DEF Save, TypeOK
  <2> QED
    BY <1>6, <2>1, <2>2, <1>2 DEF Save, TypeOK, kubeletVars, hostVars
<1>7. CASE DropRecord(v)
  <2>1. \E l \in CallLabels : Moves(l)
    BY <1>7 DEF DropRecord, CallLabels
  <2>2. BudgetOK'
    BY <1>7, FaultType DEF DropRecord, TypeOK
  <2> QED
    BY <1>7, <2>1, <2>2, <1>2 DEF DropRecord, TypeOK, kubeletVars, hostVars
<1>8. CASE RemoveTarget(v)
  <2>1. Moves("idle") /\ "idle" \in CallLabels
    BY <1>8 DEF RemoveTarget, CallLabels
  <2> QED
    BY <1>8, <2>1, <1>2 DEF RemoveTarget, TypeOK
<1> QED
  BY <1>1, <1>3, <1>4, <1>5, <1>6, <1>7, <1>8

\* Every step a handler and a repair share keeps the types.
LEMMA SharedType ==
    ASSUME TypeOK, NEW a \in Actors, NEW v \in Volumes, SharedStep(a, v)
    PROVE  TypeOK'
<1> USE DEF BudgetOK, faultVars
<1>1. ASSUME NEW l \in CallLabels, a = "pass" => l \in PassLabels, Goto(a, v, l)
      PROVE  /\ pc' \in [Actors -> [Volumes -> CallLabels]]
             /\ \A w \in Volumes : pc'["pass"][w] \in PassLabels
  BY <1>1, GotoType DEF TypeOK
<1>2. "idle" \in CallLabels \cap PassLabels
  BY DEF CallLabels, PassLabels
<1>3. Succeed(a, v) => /\ published' \subseteq Volumes
                       /\ pc' \in [Actors -> [Volumes -> CallLabels]]
                       /\ \A w \in Volumes : pc'["pass"][w] \in PassLabels
  BY <1>1, <1>2 DEF Succeed, TypeOK
<1>4. Fail(a, v) => /\ recorded' \subseteq Volumes
                    /\ pc' \in [Actors -> [Volumes -> CallLabels]]
                    /\ \A w \in Volumes : pc'["pass"][w] \in PassLabels
  BY <1>1, <1>2 DEF Fail, TypeOK
<1>5. CASE v \in Unions /\ Start(a, v)
  <2>1. PICK k \in Pids : /\ Push(v, [pid |-> k, sealed |-> FALSE])
                          /\ alive' = [alive EXCEPT ![v] = @ \cup {k}]
    BY <1>5 DEF Start, FreshPids
  <2>2. stack' \in [Volumes -> Seq(Layer)]
    BY <2>1, PushType DEF TypeOK, Layer
  <2>3. /\ alive' \in [Unions -> SUBSET Pids]
        /\ \A u \in Unions : stuck[u] \subseteq alive'[u]
    BY <1>5, <2>1 DEF TypeOK
  <2>4. /\ published' \subseteq Volumes
        /\ pc' \in [Actors -> [Volumes -> CallLabels]]
        /\ \A w \in Volumes : pc'["pass"][w] \in PassLabels
    <3>1. "seal" \in CallLabels \cap PassLabels
      BY DEF CallLabels, PassLabels
    <3>2. CASE Succeed(a, v)
      BY <3>2, <1>3
    <3>3. CASE Goto(a, v, "seal") /\ UNCHANGED published
      BY <3>1, <3>3, <1>1 DEF TypeOK
    <3> QED
      BY <1>5, <3>2, <3>3 DEF Start
  <2> QED
    BY <1>5, <2>2, <2>3, <2>4 DEF Start, TypeOK
<1>6. CASE v \in Unions /\ StartFails(a, v)
  <2>1. BudgetOK'
    BY <1>6, FaultType DEF StartFails, TypeOK
  <2> QED
    BY <1>6, <2>1, <1>4 DEF StartFails, TypeOK, kubeletVars, hostVars
<1>7. CASE v \in Unions /\ Seal(a, v)
  <2>1. Mounted(v)
    BY <1>7 DEF Seal, Probe
  <2>2. Top(v) \in Layer /\ Len(stack[v]) \in DOMAIN stack[v]
    BY <2>1, TopType DEF TypeOK
  <2>3. [pid |-> Top(v).pid, sealed |-> TRUE] \in Layer
    BY <2>2 DEF Layer
  <2>4. [stack[v] EXCEPT ![Len(stack[v])] = [pid |-> Top(v).pid, sealed |-> TRUE]]
            \in Seq(Layer)
    BY <2>2, <2>3 DEF TypeOK
  <2>5. stack' \in [Volumes -> Seq(Layer)]
    BY <1>7, <2>4 DEF Seal, TypeOK
  <2> QED
    BY <1>7, <2>5, <1>3 DEF Seal, TypeOK
<1>8. CASE v \in Unions /\ SealFails(a, v)
  <2>1. BudgetOK'
    <3>1. CASE KilledInPlace(v)
      <4>1. faults \in 0 .. MaxFaults /\ MaxFaults \in Nat
        BY BoundAssumption DEF TypeOK
      <4>2. faults + 1 < MaxFaults /\ faults' = faults + 2
        BY <3>1 DEF KilledInPlace
      <4>3. past' = past /\ past \subseteq Disturbing
        BY <3>1 DEF KilledInPlace, TypeOK
      <4> QED
        BY <4>1, <4>2, <4>3
    <3>2. CASE ~KilledInPlace(v)
      BY <1>8, <3>2, FaultType DEF SealFails, TypeOK
    <3> QED
      BY <3>1, <3>2
  <2>2. CASE Pop(v, {}) \/ Pop(v, {Top(v).pid})
    BY <1>8, <2>1, <2>2, PopType, <1>4 DEF SealFails, TypeOK, kubeletVars
  <2>3. CASE UNCHANGED <<stack, alive, stuck>>
    BY <1>8, <2>1, <2>3, <1>4 DEF SealFails, TypeOK, kubeletVars
  <2>4. CASE KilledInPlace(v)
    <3>1. /\ alive' \in [Unions -> SUBSET Pids] /\ stuck' \in [Unions -> SUBSET Pids]
          /\ \A u \in Unions : stuck'[u] \subseteq alive'[u]
      BY <1>8, <2>4 DEF KilledInPlace, TypeOK
    <3> QED
      BY <1>8, <2>1, <2>4, <3>1, <1>4 DEF SealFails, KilledInPlace, TypeOK, kubeletVars
  <2> QED
    BY <1>8, <2>2, <2>3, <2>4 DEF SealFails
<1>9. CASE v \in Views /\ Bind(a, v)
  <2>1. SharedFrom[v] \in Volumes
    BY <1>9, VolumeAssumption DEF Volumes
  <2>2. PICK l \in Layer : Push(v, l)
    <3>1. CASE Mounted(SharedFrom[v])
      BY <1>9, <2>1, <3>1, TopType DEF Bind, TypeOK
    <3>2. CASE ~Mounted(SharedFrom[v])
      BY <1>9, <3>2 DEF Bind, Layer
    <3> QED
      BY <3>1, <3>2
  <2>3. stack' \in [Volumes -> Seq(Layer)]
    BY <2>2, PushType DEF TypeOK
  <2> QED
    BY <1>9, <2>3, <1>3 DEF Bind, TypeOK
<1>10. CASE v \in Views /\ BindFails(a, v)
  <2>1. BudgetOK'
    BY <1>10, FaultType DEF BindFails, TypeOK
  <2> QED
    BY <1>10, <2>1, <1>4 DEF BindFails, TypeOK, kubeletVars, hostVars
<1>11. CASE Unmount(a, v)
  <2>1. BudgetOK'
    BY <1>11, FaultType DEF Unmount, TypeOK
  <2>2. \E l \in CallLabels \cap PassLabels : Goto(a, v, l)
    BY <1>11 DEF Unmount, CallLabels, PassLabels
  <2>3. /\ stack' \in [Volumes -> Seq(Layer)]
        /\ alive' \in [Unions -> SUBSET Pids]
        /\ stuck' \in [Unions -> SUBSET Pids]
        /\ \A u \in Unions : stuck'[u] \subseteq alive'[u]
    <3>1. CASE Pop(v, {})
      BY <3>1, PopType DEF TypeOK
    <3>2. CASE UNCHANGED <<stack, alive, stuck>>
      BY <3>2 DEF TypeOK
    <3> QED
      BY <1>11, <3>1, <3>2 DEF Unmount
  <2> QED
    BY <1>11, <2>1, <2>2, <2>3, <1>1 DEF Unmount, TypeOK, kubeletVars
<1>12. CASE StopScope(a, v)
  <2>1. BudgetOK'
    BY <1>12, FaultType DEF StopScope, TypeOK
  <2>2. \E l \in CallLabels : (a = "pass" => l \in PassLabels) /\ Goto(a, v, l)
    BY <1>12 DEF StopScope, CallLabels, PassLabels, Actors
  <2>3. /\ alive' \in [Unions -> SUBSET Pids]
        /\ stuck' \in [Unions -> SUBSET Pids]
        /\ \A u \in Unions : stuck'[u] \subseteq alive'[u]
    BY <1>12 DEF StopScope, TypeOK
  <2> QED
    BY <1>12, <2>1, <2>2, <2>3, <1>1 DEF StopScope, TypeOK, kubeletVars
<1> QED
  BY <1>5, <1>6, <1>7, <1>8, <1>9, <1>10, <1>11, <1>12 DEF SharedStep

\* Every step of the pass that begins or settles a reconcile keeps the types.
LEMMA PassType ==
    ASSUME TypeOK, PassBegins \/ \E v \in Volumes : Reconcile(v)
    PROVE  TypeOK'
<1> USE DEF BudgetOK, faultVars
<1>1. CASE PassBegins
  BY <1>1 DEF PassBegins, TypeOK, kubeletVars, hostVars
<1>2. ASSUME NEW v \in Volumes, Reconcile(v)
      PROVE  TypeOK'
  <2>1. CASE ReconcileLeaves(v)
    BY <2>1 DEF ReconcileLeaves, Reconciles, TypeOK, kubeletVars, hostVars
  <2>2. CASE ReconcileForgets(v)
    <3>1. BudgetOK'
      BY <2>2, FaultType DEF ReconcileForgets, TypeOK
    <3> QED
      BY <2>2, <3>1 DEF ReconcileForgets, Reconciles, TypeOK, kubeletVars, hostVars
  <2>3. CASE ReconcileRepairs(v)
    <3>1. /\ pc' \in [Actors -> [Volumes -> CallLabels]]
          /\ \A w \in Volumes : pc'["pass"][w] \in PassLabels
      <4>1. "unmount" \in CallLabels \cap PassLabels /\ "pass" \in Actors
        BY DEF CallLabels, PassLabels, Actors
      <4> QED
        BY <2>3, <4>1, GotoType DEF ReconcileRepairs, TypeOK
    <3> QED
      BY <2>3, <3>1 DEF ReconcileRepairs, Reconciles, TypeOK, kubeletVars, hostVars
  <2> QED
    BY <1>2, <2>1, <2>2, <2>3 DEF Reconcile
<1> QED
  BY <1>1, <1>2

\* Nothing the environment does breaks the types.
LEMMA EnvironmentType ==
    ASSUME TypeOK, Environment
    PROVE  TypeOK'
<1> USE DEF BudgetOK, faultVars
<1>1. ASSUME NEW p \in Pods, DeletePod(p) PROVE TypeOK'
  BY <1>1 DEF DeletePod, TypeOK, hostVars
<1>2. ASSUME NEW v \in Volumes, KubeletForgets(v) PROVE TypeOK'
  <2>1. BudgetOK'
    BY <1>2, FaultType DEF KubeletForgets, TypeOK
  <2> QED
    BY <1>2, <2>1 DEF KubeletForgets, TypeOK, hostVars
<1>3. ASSUME NEW v \in Volumes, KubeletRemovesTarget(v) PROVE TypeOK'
  BY <1>3 DEF KubeletRemovesTarget, TypeOK, kubeletVars
<1>4. ASSUME NEW u \in Unions, DaemonCrashes(u) PROVE TypeOK'
  <2>1. BudgetOK'
    BY <1>4, FaultType DEF DaemonCrashes, TypeOK
  <2> QED
    BY <1>4, <2>1 DEF DaemonCrashes, TypeOK, kubeletVars
<1>5. ASSUME NEW u \in Unions, DaemonHangs(u) PROVE TypeOK'
  <2>1. BudgetOK'
    BY <1>5, FaultType DEF DaemonHangs, TypeOK
  <2> QED
    BY <1>5, <2>1 DEF DaemonHangs, TypeOK, kubeletVars
<1>6. ASSUME NEW u \in Unions, DaemonRecovers(u) PROVE TypeOK'
  BY <1>6 DEF DaemonRecovers, TypeOK, kubeletVars
<1>7. /\ Idle \in [Actors -> [Volumes -> CallLabels]]
      /\ \A w \in Volumes : Idle["pass"][w] \in PassLabels
  BY DEF Idle, Actors, CallLabels, PassLabels
<1>8. /\ NoDaemons \in [Unions -> SUBSET Pids]
      /\ \A u \in Unions : NoDaemons[u] = {}
  BY DEF NoDaemons
<1>9. CASE DriverRestarts
  <2>1. BudgetOK'
    BY <1>9, FaultType DEF DriverRestarts, TypeOK
  <2> QED
    BY <1>9, <2>1, <1>7, <1>8 DEF DriverRestarts, TypeOK, kubeletVars
<1>10. CASE NodeReboots
  <2>1. BudgetOK'
    BY <1>10, FaultType DEF NodeReboots, TypeOK
  <2>2. stack' \in [Volumes -> Seq(Layer)]
    BY <1>10 DEF NodeReboots
  <2> QED
    BY <1>10, <2>1, <2>2, <1>7, <1>8 DEF NodeReboots, TypeOK
<1> QED
  BY <1>1, <1>2, <1>3, <1>4, <1>5, <1>6, <1>9, <1>10 DEF Environment

\* Every step keeps the types.
LEMMA NextType == TypeOK /\ [Next]_vars => TypeOK'
<1> USE DEF BudgetOK, faultVars
<1> SUFFICES ASSUME TypeOK, [Next]_vars PROVE TypeOK'
  OBVIOUS
<1>1. CASE UNCHANGED vars
  BY <1>1 DEF vars, kubeletVars, hostVars, TypeOK
<1>2. CASE Next
  BY <1>2, CallType, SharedType, PassType, EnvironmentType DEF Next
<1> QED
  BY <1>1, <1>2

\* The variables of the backend keep their types: only running daemons are stuck, and a
\* repair never strays into the steps of a call, whatever fails or restarts.
THEOREM TypeCorrect == Spec => []TypeOK
<1> QED
  BY InitType, NextType, PTL DEF Spec

(***************************************************************************)
(* The inductive invariant.  NoResurrection alone is not inductive: that a *)
(* removed target has no record, and no repair under way, rests on the     *)
(* lock of the volume, on the record being dropped before the lock is let  *)
(* go, and on an unpublish being called for deleted pods only.             *)
(***************************************************************************)
UnpublishLabels == {"ulock", "unmount", "stop", "drop", "remove"}

\* A call and a repair never hold the lock of a volume together.
MutualExclusion == \A v \in Volumes : ~(Holds("call", v) /\ Holds("pass", v))

\* A repair works on a volume that has a record.
RepairIsRecorded == \A v \in Volumes : ~At("pass", v, "idle") => v \in recorded

\* An unpublish is for a deleted pod, and has dropped the record when it removes the target.
UnpublishIsFinal ==
    \A v \in Volumes : /\ pc["call"][v] \in UnpublishLabels => PodOf[v] \in deleted
                       /\ At("call", v, "remove") => v \notin recorded

\* After its unpublish a volume has nothing left, and nobody calls for it.
NothingLeft ==
    \A v \in Volumes : v \in done => /\ PodOf[v] \in deleted /\ At("call", v, "idle")
                                     /\ v \notin dir /\ v \notin recorded

\* What is mounted is mounted on a directory.
MountHasDir == \A v \in Volumes : Mounted(v) => v \in dir

\* A repair that is about to unmount has a mount of a daemon that is gone before it.
DetachesDead ==
    \A v \in Volumes : At("pass", v, "unmount") =>
        Mounted(v) /\ Top(v).pid # 0 /\ Top(v).pid \notin alive[Source(v)]

IInv == /\ TypeOK
        /\ MutualExclusion
        /\ RepairIsRecorded
        /\ UnpublishIsFinal
        /\ NothingLeft
        /\ MountHasDir
        /\ DetachesDead

\* The invariant holds when the driver starts on a node it has never run on.
LEMMA InitSafe == Init => IInv
<1> SUFFICES ASSUME Init PROVE IInv
  OBVIOUS
<1>1. \A a \in Actors, v \in Volumes : At(a, v, "idle") /\ ~Holds(a, v)
  BY DEF Init, Idle, At, Holds, Critical
<1>2. \A v \in Volumes : ~Mounted(v)
  BY DEF Init, Mounted
<1>3. "call" \in Actors /\ "pass" \in Actors
  BY DEF Actors
<1>4. MutualExclusion /\ RepairIsRecorded
  BY <1>1, <1>3 DEF MutualExclusion, RepairIsRecorded
<1>5. UnpublishIsFinal
  BY <1>1, <1>3 DEF UnpublishIsFinal, At, UnpublishLabels
<1>6. NothingLeft /\ MountHasDir
  BY <1>2 DEF NothingLeft, MountHasDir, Init
<1>7. DetachesDead
  BY <1>1, <1>3 DEF DetachesDead, At
<1> QED
  BY InitType, <1>4, <1>5, <1>6, <1>7 DEF IInv

\* A repair holds the lock of its volume until it ends.
LEMMA RepairHolds ==
    ASSUME TypeOK, NEW v \in Volumes, ~At("pass", v, "idle")
    PROVE  Holds("pass", v)
BY DEF TypeOK, At, Holds, PassLabels, Critical

\* Repairs that stay before their unmount keep a dead mount before them as long as their
\* target stays as it is: a new daemon never takes a pid that a mount still names.
LEMMA DetachesDeadFrame ==
    ASSUME TypeOK, TypeOK', DetachesDead,
           \A v \in Volumes : At("pass", v, "unmount")' =>
               /\ At("pass", v, "unmount")
               /\ stack'[v] = stack[v]
               /\ \A k \in alive'[Source(v)] :
                     k \in alive[Source(v)] \/ ~Referenced(stack, Source(v), k)
    PROVE  DetachesDead'
<1> SUFFICES ASSUME NEW v \in Volumes, At("pass", v, "unmount")'
             PROVE  (Mounted(v) /\ Top(v).pid # 0 /\ Top(v).pid \notin alive[Source(v)])'
  BY DEF DetachesDead
<1>1. /\ At("pass", v, "unmount") /\ stack'[v] = stack[v]
      /\ \A k \in alive'[Source(v)] :
            k \in alive[Source(v)] \/ ~Referenced(stack, Source(v), k)
  OBVIOUS
<1>2. Mounted(v) /\ Top(v).pid # 0 /\ Top(v).pid \notin alive[Source(v)]
  BY <1>1 DEF DetachesDead
<1>3. Referenced(stack, Source(v), Top(v).pid)
  BY <1>2, TopType DEF Referenced, Top, TypeOK
<1>4. Top(v)' = Top(v) /\ Mounted(v)' = Mounted(v) /\ Source(v)' = Source(v)
  BY <1>1 DEF Top, Mounted, Source
<1> QED
  BY <1>1, <1>2, <1>3, <1>4

\* A step of kubelet, or of a handler on its own.
LEMMA CallSafe ==
    ASSUME IInv, NEW v \in Volumes,
           Kubelet(v) \/ TakesLock(v) \/ CallStep(v)
    PROVE  IInv'
<1> USE DEF IInv
<1>1. TypeOK'
  BY CallType
<1>2. /\ pc'["pass"] = pc["pass"]
      /\ \A w \in Volumes \ {v} : pc'["call"][w] = pc["call"][w]
      /\ stack' = stack /\ alive' = alive /\ deleted' = deleted
  BY DEF Kubelet, TakesLock, CallStep, PublishAgain, Publish, Unpublish, Lock, UnpublishLock,
         SourcesReady, SourcesFail, AwaitServing, Save, DropRecord, RemoveTarget,
         Goto, TypeOK, Actors, kubeletVars, hostVars
<1>3. DetachesDead'
  BY <1>1, <1>2, DetachesDeadFrame DEF At
<1>4. CASE PublishAgain(v)
  BY <1>1, <1>2, <1>3, <1>4
     DEF PublishAgain, hostVars, MutualExclusion, RepairIsRecorded, UnpublishIsFinal,
         NothingLeft, MountHasDir, Holds, At, Mounted
<1>5. \A l : Goto("call", v, l) => pc'["call"][v] = l
  BY DEF Goto, TypeOK, Actors
<1>6. CASE Publish(v)
  <2>1. v \notin done /\ At("call", v, "wait")'
    BY <1>5, <1>6 DEF Publish, NothingLeft, At
  <2> QED
    BY <1>1, <1>2, <1>3, <1>6, <2>1
       DEF Publish, kubeletVars, hostVars, MutualExclusion, RepairIsRecorded,
           UnpublishIsFinal, UnpublishLabels, NothingLeft, MountHasDir, Holds, At, Mounted,
           Critical
<1>7. CASE Unpublish(v)
  <2>1. v \notin done /\ At("call", v, "ulock")' /\ PodOf[v] \in deleted
    BY <1>5, <1>7 DEF Unpublish, At
  <2> QED
    BY <1>1, <1>2, <1>3, <1>7, <2>1
       DEF Unpublish, kubeletVars, hostVars, MutualExclusion, RepairIsRecorded,
           UnpublishIsFinal, UnpublishLabels, NothingLeft, MountHasDir, Holds, At, Mounted,
           Critical
<1>8. CASE Lock(v) \/ UnpublishLock(v)
  <2>1. /\ ~Holds("pass", v) /\ v \notin done
        /\ pc'["call"][v] \in {"serve", "save", "unmount"}
        /\ pc'["call"][v] = "unmount" => PodOf[v] \in deleted
    BY <1>5, <1>8 DEF Lock, UnpublishLock, LockFree, Actors, At, NothingLeft,
                      UnpublishIsFinal, UnpublishLabels
  <2>2. UNCHANGED <<kubeletVars, hostVars, recorded>>
    BY <1>8 DEF Lock, UnpublishLock
  <2> QED
    BY <1>1, <1>2, <1>3, <2>1, <2>2
       DEF kubeletVars, hostVars, MutualExclusion, RepairIsRecorded,
           UnpublishIsFinal, UnpublishLabels, NothingLeft, MountHasDir, Holds, At, Mounted
<1>9. CASE SourcesReady(v) \/ SourcesFail(v)
  <2>1. /\ v \notin done /\ pc'["call"][v] \in {"lock", "idle"}
        /\ done' = done /\ recorded' = recorded
        /\ dir \subseteq dir' /\ dir' \subseteq dir \cup {v}
    BY <1>5, <1>9 DEF SourcesReady, SourcesFail, At, NothingLeft, kubeletVars, hostVars
  <2> QED
    BY <1>1, <1>2, <1>3, <2>1
       DEF MutualExclusion, RepairIsRecorded, UnpublishIsFinal, UnpublishLabels,
           NothingLeft, MountHasDir, Holds, At, Mounted, Critical
<1>10. CASE AwaitServing(v) \/ Save(v)
  <2>1. /\ v \notin done /\ Holds("call", v)
        /\ pc'["call"][v] \in {"save", "bind", "start", "idle"}
        /\ done' = done /\ dir' = dir
        /\ recorded \subseteq recorded' /\ recorded' \subseteq recorded \cup {v}
    BY <1>5, <1>10 DEF AwaitServing, Save, At, NothingLeft, kubeletVars, hostVars, Holds,
                       Critical
  <2> QED
    BY <1>1, <1>2, <1>3, <2>1
       DEF MutualExclusion, RepairIsRecorded, UnpublishIsFinal, UnpublishLabels,
           NothingLeft, MountHasDir, Holds, At, Mounted
<1>11. CASE DropRecord(v)
  <2>1. /\ v \notin done /\ Holds("call", v) /\ PodOf[v] \in deleted
        /\ pc'["call"][v] \in {"remove", "idle"}
        /\ done' = done /\ dir' = dir
        /\ recorded' \in {recorded, recorded \ {v}}
        /\ pc'["call"][v] = "remove" => v \notin recorded'
    BY <1>5, <1>11 DEF DropRecord, At, NothingLeft, kubeletVars, hostVars, Holds, Critical,
                       UnpublishIsFinal, UnpublishLabels
  <2>2. At("pass", v, "idle")
    BY <2>1, RepairHolds DEF MutualExclusion
  <2> QED
    BY <1>1, <1>2, <1>3, <2>1, <2>2
       DEF MutualExclusion, RepairIsRecorded, UnpublishIsFinal, UnpublishLabels,
           NothingLeft, MountHasDir, Holds, At, Mounted, Critical
<1>12. CASE RemoveTarget(v)
  <2>1. /\ PodOf[v] \in deleted /\ v \notin recorded /\ pc'["call"][v] = "idle"
        /\ recorded' = recorded
        /\ \/ ~Mounted(v) /\ dir' = dir \ {v} /\ done' = done \cup {v}
           \/ dir' = dir /\ done' = done
    BY <1>5, <1>12 DEF RemoveTarget, At, UnpublishIsFinal, UnpublishLabels
  <2> QED
    BY <1>1, <1>2, <1>3, <2>1
       DEF MutualExclusion, RepairIsRecorded, UnpublishIsFinal, UnpublishLabels,
           NothingLeft, MountHasDir, Holds, At, Mounted, Critical
<1> QED
  BY <1>4, <1>6, <1>7, <1>8, <1>9, <1>10, <1>11, <1>12 DEF Kubelet, TakesLock, CallStep

\* A step that a handler and a repair share: whoever takes it holds the lock.
LEMMA SharedSafe ==
    ASSUME IInv, NEW a \in Actors, NEW v \in Volumes, SharedStep(a, v)
    PROVE  IInv'
<1> USE DEF IInv
<1>1. TypeOK'
  BY SharedType
<1>2. pc[a][v] \in {"start", "seal", "bind", "unmount", "stop"}
  BY DEF SharedStep, Start, StartFails, Seal, SealFails, Bind, BindFails, Unmount, StopScope,
         At
<1>3. Holds(a, v) /\ \A b \in Actors \ {a} : ~Holds(b, v)
  BY <1>2 DEF Holds, Critical, MutualExclusion, Actors
<1>4. v \notin done
  BY <1>2 DEF NothingLeft, RepairIsRecorded, At, Actors
<1>5. /\ \A b \in Actors, w \in Volumes : b # a \/ w # v => pc'[b][w] = pc[b][w]
      /\ pc'[a][v] \in {"idle", "seal", "bind", "stop", "drop", "start"}
      /\ a = "call" /\ pc'[a][v] \in UnpublishLabels => pc[a][v] \in {"unmount", "stop"}
  <2>1. \A l \in {"idle", "seal", "bind", "stop", "drop", "start"} : Goto(a, v, l) =>
            /\ \A b \in Actors, w \in Volumes : b # a \/ w # v => pc'[b][w] = pc[b][w]
            /\ pc'[a][v] = l
    BY DEF Goto, TypeOK, Actors
  <2>2. CASE Unmount(a, v) \/ StopScope(a, v)
    <3>1. \E l \in {"idle", "bind", "stop", "drop", "start"} : Goto(a, v, l)
      BY <2>2 DEF Unmount, StopScope
    <3> QED
      BY <2>1, <2>2, <3>1 DEF Unmount, StopScope, At
  <2>3. CASE ~(Unmount(a, v) \/ StopScope(a, v))
    <3>1. \E l \in {"idle", "seal"} : Goto(a, v, l)
      BY <2>3 DEF SharedStep, Start, StartFails, Seal, SealFails, Bind, BindFails,
                  Succeed, Fail
    <3> QED
      BY <2>1, <3>1 DEF UnpublishLabels
  <2> QED
    BY <2>2, <2>3
<1>6. /\ dir' = dir /\ deleted' = deleted /\ done' = done
      /\ recorded' = recorded \/ (a = "call" /\ recorded' = recorded \ {v})
  BY DEF SharedStep, Start, StartFails, Seal, SealFails, Bind, BindFails, Unmount, StopScope,
         Succeed, Fail, kubeletVars, hostVars
<1>7. /\ \A w \in Volumes \ {v} : stack'[w] = stack[w]
      /\ Mounted(v)' => v \in dir
      /\ \A u \in Unions : \A k \in alive'[u] : k \in alive[u] \/ ~Referenced(stack, u, k)
  <2>1. CASE v \in Unions /\ Start(a, v)
    <3>1. PICK k \in FreshPids(v) : /\ Push(v, [pid |-> k, sealed |-> FALSE])
                                    /\ alive' = [alive EXCEPT ![v] = @ \cup {k}]
      BY <2>1 DEF Start
    <3>2. ~Referenced(stack, v, k)
      BY <3>1 DEF FreshPids, FreePid
    <3> QED
      BY <2>1, <3>1, <3>2 DEF Start, Push, TypeOK
  <2>2. CASE v \in Unions /\ Seal(a, v)
    <3>1. v \in dir
      BY <2>2 DEF Seal, Probe
    <3> QED
      BY <2>2, <3>1 DEF Seal, TypeOK
  <2>3. CASE v \in Views /\ Bind(a, v)
    BY <2>3 DEF Bind, Push, TypeOK
  <2>4. ASSUME NEW kill, Pop(v, kill)
        PROVE  <1>7!1 /\ <1>7!2 /\ <1>7!3
    BY <2>4 DEF Pop, TypeOK, Mounted, MountHasDir
  <2>5. CASE stack' = stack /\ \A u \in Unions : alive'[u] \subseteq alive[u]
    BY <2>5 DEF Mounted, MountHasDir
  <2>6. \/ v \in Unions /\ (Start(a, v) \/ Seal(a, v))
        \/ v \in Views /\ Bind(a, v)
        \/ \E kill : Pop(v, kill)
        \/ stack' = stack /\ \A u \in Unions : alive'[u] \subseteq alive[u]
    <3>1. CASE StartFails(a, v) \/ BindFails(a, v)
      BY <3>1 DEF StartFails, BindFails, hostVars
    <3>2. CASE SealFails(a, v) \/ Unmount(a, v)
      BY <3>2 DEF SealFails, KilledInPlace, Unmount, TypeOK
    <3>3. CASE StopScope(a, v)
      BY <3>3 DEF StopScope, TypeOK
    <3> QED
      BY <3>1, <3>2, <3>3 DEF SharedStep
  <2> QED
    BY <2>1, <2>2, <2>3, <2>4, <2>5, <2>6
<1>8. MutualExclusion'
  BY <1>3, <1>5 DEF MutualExclusion, Holds, Actors
<1>9. RepairIsRecorded'
  <2>1. a = "call" => At("pass", v, "idle")
    BY <1>3, RepairHolds DEF Actors
  <2> QED
    BY <1>2, <1>5, <1>6, <2>1 DEF RepairIsRecorded, At, Actors
<1>10. UnpublishIsFinal'
  BY <1>5, <1>6 DEF UnpublishIsFinal, UnpublishLabels, At, Actors
<1>11. NothingLeft'
  BY <1>4, <1>5, <1>6 DEF NothingLeft, At, Actors
<1>12. MountHasDir'
  BY <1>6, <1>7 DEF MountHasDir, Mounted
<1>13. DetachesDead'
  <2> SUFFICES ASSUME NEW w \in Volumes, At("pass", w, "unmount")'
               PROVE  /\ At("pass", w, "unmount")
                      /\ stack'[w] = stack[w]
                      /\ \A k \in alive'[Source(w)] :
                            k \in alive[Source(w)] \/ ~Referenced(stack, Source(w), k)
    BY <1>1, DetachesDeadFrame
  <2>1. w # v
    BY <1>3, <1>5 DEF At, Holds, Critical, Actors
  <2>2. Source(w) \in Unions
    BY VolumeAssumption DEF Source, Volumes
  <2> QED
    BY <1>5, <1>7, <2>1, <2>2 DEF At, Actors
<1> QED
  BY <1>1, <1>8, <1>9, <1>10, <1>11, <1>12, <1>13

\* A pass begins, or settles what it does about one volume.
LEMMA PassSafe ==
    ASSUME IInv, PassBegins \/ \E v \in Volumes : Reconcile(v)
    PROVE  IInv'
<1> USE DEF IInv
<1>1. TypeOK'
  BY PassType
<1>2. /\ UNCHANGED <<kubeletVars, hostVars>>
      /\ pc'["call"] = pc["call"]
  BY DEF PassBegins, Reconcile, ReconcileLeaves, ReconcileForgets, ReconcileRepairs, Goto,
         TypeOK, Actors
<1>3. MountHasDir'
  BY <1>2 DEF MountHasDir, Mounted, hostVars
<1>4. CASE pc' = pc /\ recorded' = recorded
  <2>1. DetachesDead'
    BY <1>1, <1>2, <1>4, DetachesDeadFrame DEF At, hostVars
  <2> QED
    BY <1>1, <1>2, <1>3, <1>4, <2>1
       DEF MutualExclusion, RepairIsRecorded, UnpublishIsFinal, NothingLeft, Holds, At,
           kubeletVars, hostVars
<1>5. ASSUME NEW v \in Volumes, ReconcileForgets(v)
      PROVE  IInv'
  <2>1. pc' = pc /\ PassIdle /\ recorded' \subseteq recorded
    BY <1>5 DEF ReconcileForgets, Reconciles
  <2>2. DetachesDead'
    BY <1>1, <1>2, <2>1, DetachesDeadFrame DEF At, hostVars
  <2> QED
    BY <1>1, <1>2, <1>3, <2>1, <2>2
       DEF MutualExclusion, RepairIsRecorded, UnpublishIsFinal, NothingLeft, Holds, At,
           kubeletVars, hostVars, PassIdle
<1>6. ASSUME NEW v \in Volumes, ReconcileRepairs(v)
      PROVE  IInv'
  <2>1. /\ \A w \in Volumes \ {v} : pc'["pass"][w] = pc["pass"][w]
        /\ pc'["pass"][v] = "unmount"
        /\ recorded' = recorded /\ v \in recorded
        /\ ~Holds("call", v)
    BY <1>6 DEF ReconcileRepairs, Reconciles, LockFree, Goto, TypeOK, Actors
  <2>2. Mounted(v) /\ Top(v).pid # 0 /\ Top(v).pid \notin alive[Source(v)]
    BY <1>6 DEF ReconcileRepairs, Repairable, Probe
  <2>3. DetachesDead'
    BY <1>2, <2>1, <2>2 DEF DetachesDead, At, Mounted, Top, Source, hostVars
  <2> QED
    BY <1>1, <1>2, <1>3, <2>1, <2>3
       DEF MutualExclusion, RepairIsRecorded, UnpublishIsFinal, NothingLeft, Holds, At,
           kubeletVars, hostVars
<1> QED
  BY <1>4, <1>5, <1>6 DEF PassBegins, Reconcile, ReconcileLeaves

\* What kubelet, the daemons, the driver's pod and the node do on their own.
LEMMA EnvironmentSafe ==
    ASSUME IInv, Environment
    PROVE  IInv'
<1> USE DEF IInv
<1>1. TypeOK'
  BY EnvironmentType
<1>2. CASE DriverRestarts \/ NodeReboots
  <2>1. \A b \in Actors, w \in Volumes : pc'[b][w] = "idle"
    BY <1>2 DEF DriverRestarts, NodeReboots, Idle
  <2>2. /\ deleted' = deleted /\ done' = done /\ dir' = dir /\ recorded' = recorded
        /\ \A w \in Volumes : stack'[w] = stack[w] \/ stack'[w] = <<>>
    BY <1>2 DEF DriverRestarts, NodeReboots, kubeletVars
  <2>3. MutualExclusion' /\ RepairIsRecorded'
    BY <2>1 DEF MutualExclusion, RepairIsRecorded, Holds, Critical, At, Actors
  <2>4. UnpublishIsFinal'
    BY <2>1 DEF UnpublishIsFinal, UnpublishLabels, At, Actors
  <2>5. NothingLeft' /\ MountHasDir'
    BY <2>1, <2>2 DEF NothingLeft, MountHasDir, Mounted, At, Actors
  <2>6. DetachesDead'
    BY <2>1 DEF DetachesDead, At, Actors
  <2> QED
    BY <1>1, <2>3, <2>4, <2>5, <2>6
<1>3. CASE ~(DriverRestarts \/ NodeReboots)
  <2>1. /\ pc' = pc /\ stack' = stack /\ recorded' = recorded /\ done' = done
        /\ deleted \subseteq deleted'
        /\ \A w \in Volumes : w \in dir' => w \in dir
        /\ \A w \in Volumes : w \in dir \ dir' => ~Mounted(w)
    BY <1>3 DEF Environment, DeletePod, KubeletForgets, KubeletRemovesTarget, DaemonCrashes,
                DaemonHangs, DaemonRecovers, kubeletVars, hostVars
  <2>2. \A u \in Unions : alive'[u] \subseteq alive[u]
    BY <1>3 DEF Environment, DeletePod, KubeletForgets, KubeletRemovesTarget, DaemonCrashes,
                DaemonHangs, DaemonRecovers, kubeletVars, hostVars, TypeOK
  <2>3. MutualExclusion' /\ RepairIsRecorded' /\ UnpublishIsFinal'
    BY <2>1 DEF MutualExclusion, RepairIsRecorded, UnpublishIsFinal, Holds, At
  <2>4. NothingLeft' /\ MountHasDir'
    BY <2>1 DEF NothingLeft, MountHasDir, Mounted, At
  <2>5. DetachesDead'
    <3>1. \A w \in Volumes : Source(w) \in Unions
      BY VolumeAssumption DEF Source, Volumes
    <3> QED
      BY <1>1, <2>1, <2>2, <3>1, DetachesDeadFrame DEF At
  <2> QED
    BY <1>1, <2>3, <2>4, <2>5
<1> QED
  BY <1>2, <1>3

\* Every step keeps the invariant.
LEMMA NextSafe == IInv /\ [Next]_vars => IInv'
<1> SUFFICES ASSUME IInv, [Next]_vars PROVE IInv'
  OBVIOUS
<1>1. CASE UNCHANGED vars
  BY <1>1 DEF vars, kubeletVars, hostVars, faultVars, IInv, TypeOK, MutualExclusion, RepairIsRecorded,
              UnpublishIsFinal, NothingLeft, MountHasDir, DetachesDead, Holds, At, Mounted,
              Top, Source
<1>2. CASE Next
  BY <1>2, CallSafe, SharedSafe, PassSafe, EnvironmentSafe DEF Next
<1> QED
  BY <1>1, <1>2

\* The invariant the next theorems rest on: the lock excludes, repairs have a record, an
\* unpublish is final, and repairs have a dead mount before them.
THEOREM Invariance == Spec => []IInv
<1> QED
  BY InitSafe, NextSafe, PTL DEF Spec

\* No interleaving of unpublish, pass and fault resurrects a volume whose unpublish has
\* succeeded: it has no mount, directory or record, and no repair under way.
THEOREM NeverResurrected == Spec => []NoResurrection
<1>1. IInv => NoResurrection
  <2> SUFFICES ASSUME IInv, NEW v \in done
               PROVE  ~Mounted(v) /\ v \notin dir /\ v \notin recorded /\ At("pass", v, "idle")
    BY DEF NoResurrection
  <2>1. v \in Volumes
    BY DEF IInv, TypeOK
  <2>2. v \notin dir /\ v \notin recorded
    BY <2>1 DEF IInv, NothingLeft
  <2> QED
    BY <2>1, <2>2 DEF IInv, MountHasDir, RepairIsRecorded
<1> QED
  BY <1>1, Invariance, PTL

\* A pass detaches only mounts whose daemon is gone, though it probes the mount before it
\* unmounts it and daemons start, crash and recover in between.
THEOREM DetachesOnlyDead == Spec => []PassDetachesOnlyDead
<1>1. IInv => PassDetachesOnlyDead
  BY DEF IInv, DetachesDead, MountHasDir, PassDetachesOnlyDead, Probe
<1> QED
  BY <1>1, Invariance, PTL

=============================================================================
