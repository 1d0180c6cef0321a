----------------------- MODULE MergerfsContractProofs -----------------------
(***************************************************************************)
(* What holds of MergerfsBackend, for every set of volumes and every       *)
(* bound, as long as no fault of Disturbing has happened: a target carries *)
(* one mount, a live mount has a record, the driver stops no daemon that   *)
(* serves, and every step is one that UnionVolume allows.                  *)
(***************************************************************************)
EXTENDS MergerfsBackendProofs

(***************************************************************************)
(* The inductive invariant of an undisturbed node.                         *)
(***************************************************************************)
PublishLabels == {"wait", "lock", "serve", "save", "start", "bind"}

\* A publish works on a target without a mount that no repair works on.
PublishesOnBare(v) ==
    pc["call"][v] \in PublishLabels => ~Mounted(v) /\ At("pass", v, "idle")

\* What a repair or an unpublish has detached stays detached until it goes on.
StaysDetached(v) ==
    /\ pc["pass"][v] \in {"stop", "start", "bind"} => ~Mounted(v)
    /\ pc["call"][v] \in {"stop", "drop"} => ~Mounted(v)

\* Kubelet has no reason to publish a volume that a pass may repair, or repairs.
KubeletKnows(v) ==
    \/ Mounted(v) /\ v \in recorded /\ ~Holds("call", v)
    \/ ~At("pass", v, "idle")
    => v \in published \/ PodOf[v] \in deleted

\* The record comes before the mount, and stays with a mount that lives.
RecordedFirst(v) ==
    /\ pc["call"][v] \in {"start", "seal", "bind"} => v \in recorded
    /\ Mounted(v) /\ Top(v).pid \in alive[Source(v)] => v \in recorded

\* A union runs no daemon but the one that serves its mount.
NoStrayDaemon(v) ==
    v \in Unions /\ PodOf[v] \notin deleted =>
        \A k \in alive[v] : Mounted(v) /\ Top(v).pid = k

\* Whoever is about to seal a mount has one without a seal.
SealsUnsealed(v) ==
    \A a \in Actors : pc[a][v] = "seal" => SealControl /\ Mounted(v) /\ ~Top(v).sealed

Tidy(v) ==
    /\ Len(stack[v]) <= 1
    /\ SealsUnsealed(v)
    /\ PublishesOnBare(v)
    /\ StaysDetached(v)
    /\ KubeletKnows(v)
    /\ RecordedFirst(v)
    /\ NoStrayDaemon(v)

UInv == ~Disturbed => \A v \in Volumes : Tidy(v)

\* A volume stays tidy in a step that leaves it alone.
LEMMA TidyFrame ==
    ASSUME TypeOK, TypeOK', NEW w \in Volumes, Tidy(w),
           stack'[w] = stack[w],
           \A a \in Actors : pc'[a][w] = pc[a][w],
           w \in recorded' <=> w \in recorded,
           w \in published => w \in published',
           deleted \subseteq deleted',
           \A k \in alive'[Source(w)] :
               k \in alive[Source(w)] \/ ~Referenced(stack, Source(w), k),
           w \in Unions => alive'[w] \subseteq alive[w]
    PROVE  Tidy(w)'
<1>1. Mounted(w)' = Mounted(w) /\ Top(w)' = Top(w) /\ Source(w)' = Source(w)
  BY DEF Mounted, Top, Source
<1>2. pc'["call"][w] = pc["call"][w] /\ pc'["pass"][w] = pc["pass"][w]
  BY DEF Actors
<1>3. PublishesOnBare(w)' /\ StaysDetached(w)' /\ SealsUnsealed(w)'
  BY <1>1, <1>2 DEF Tidy, PublishesOnBare, StaysDetached, SealsUnsealed, At
<1>4. KubeletKnows(w)'
  BY <1>1, <1>2 DEF Tidy, KubeletKnows, Holds, At
<1>5. RecordedFirst(w)'
  <2>1. Mounted(w) => Referenced(stack, Source(w), Top(w).pid)
    BY TopType DEF Referenced, Top, TypeOK
  <2> QED
    BY <1>1, <1>2, <2>1 DEF Tidy, RecordedFirst
<1>6. NoStrayDaemon(w)'
  BY <1>1 DEF Tidy, NoStrayDaemon
<1> QED
  BY <1>3, <1>4, <1>5, <1>6 DEF Tidy

\* The one mount of a target is the visible one, and unmounting it leaves none.
LEMMA PopOnly ==
    ASSUME stack \in [Volumes -> Seq(Layer)], NEW v \in Volumes, Len(stack[v]) <= 1,
           NEW kill, Pop(v, kill)
    PROVE  ~Mounted(v)' /\ Len(stack'[v]) <= 1
<1>1. stack[v] \in Seq(Layer) /\ Len(stack[v]) \in Nat
  OBVIOUS
<1>2. CASE stack[v] = <<>>
  BY <1>2 DEF Pop, Mounted
<1>3. CASE stack[v] # <<>>
  <2>1. Mounted(v)
    BY <1>3 DEF Mounted
  <2>2. Len(stack[v]) = 1
    <3>1. \A n \in Nat \ {0} : n <= 1 => n = 1
      OBVIOUS
    <3> QED
      BY <2>1, <3>1, TopType, Zenon
  <2>3. SubSeq(stack[v], 1, 0) = <<>>
    BY <1>1
  <2> QED
    BY <1>3, <2>2, <2>3 DEF Pop, Mounted
<1> QED
  BY <1>2, <1>3

\* A mount on a target without one is its only mount and the visible one.
LEMMA PushOnly ==
    ASSUME stack \in [Volumes -> Seq(Layer)], NEW v \in Volumes, ~Mounted(v),
           NEW l \in Layer, Push(v, l)
    PROVE  Mounted(v)' /\ Len(stack'[v]) <= 1 /\ Top(v)' = l
<1>1. stack'[v] = Append(<<>>, l)
  BY DEF Push, Mounted
<1>2. Append(<<>>, l) = <<l>> /\ Len(<<l>>) = 1 /\ <<l>>[1] = l /\ <<l>> # <<>>
  OBVIOUS
<1> QED
  BY <1>1, <1>2 DEF Mounted, Top

\* The faults that have happened are not forgotten.
LEMMA PastGrows ==
    ASSUME TypeOK, [Next]_vars
    PROVE  ~Disturbed' => ~Disturbed
<1>1. past \subseteq past'
  <2>1. \A kind : Fault(kind) \/ NoFault => past \subseteq past'
    BY DEF Fault, NoFault, faultVars
  <2>2. CASE UNCHANGED vars
    BY <2>2 DEF vars, faultVars
  <2>3. CASE \E v \in Volumes : Kubelet(v) \/ TakesLock(v) \/ CallStep(v) \/ Reconcile(v)
    BY <2>1, <2>3 DEF Kubelet, TakesLock, CallStep, Reconcile, PublishAgain, Publish,
       Unpublish, Lock, UnpublishLock, SourcesReady, SourcesFail, AwaitServing, Save,
       DropRecord, RemoveTarget, ReconcileLeaves, ReconcileForgets, ReconcileRepairs, faultVars
  <2>4. CASE \E a \in Actors, v \in Volumes : SharedStep(a, v)
    BY <2>1, <2>4 DEF SharedStep, Start, StartFails, Seal, SealFails, KilledInPlace, Bind,
       BindFails, Unmount, StopScope, faultVars
  <2>5. CASE PassBegins \/ Environment
    BY <2>1, <2>5 DEF PassBegins, Environment, DeletePod, KubeletForgets,
       KubeletRemovesTarget, DaemonCrashes, DaemonHangs, DaemonRecovers, DriverRestarts,
       NodeReboots, faultVars
  <2> QED
    BY <2>2, <2>3, <2>4, <2>5 DEF Next
<1> QED
  BY <1>1 DEF Disturbed

\* Kubelet, and the steps of a handler that a pass does not share: they mount nothing.
LEMMA CallTidy ==
    ASSUME IInv, IInv', \A w \in Volumes : Tidy(w), NEW v \in Volumes,
           Kubelet(v) \/ TakesLock(v) \/ CallStep(v)
    PROVE  \A w \in Volumes : Tidy(w)'
<1> USE DEF IInv
<1>1. /\ pc'["pass"] = pc["pass"]
      /\ \A w \in Volumes \ {v} : pc'["call"][w] = pc["call"][w]
      /\ stack' = stack /\ alive' = alive /\ deleted' = deleted
      /\ \A w \in Volumes \ {v} : /\ w \in recorded' <=> w \in recorded
                                  /\ w \in published' <=> w \in published
  BY DEF Kubelet, TakesLock, CallStep, PublishAgain, Publish, Unpublish, Lock, UnpublishLock,
         SourcesReady, SourcesFail, AwaitServing, Save, DropRecord, RemoveTarget,
         Goto, TypeOK, Actors, kubeletVars, hostVars
<1>2. ASSUME NEW w \in Volumes \ {v} PROVE Tidy(w)'
  BY <1>1, <1>2, TidyFrame DEF Actors
<1>3. Mounted(v)' = Mounted(v) /\ Top(v)' = Top(v) /\ Source(v)' = Source(v)
  BY <1>1 DEF Mounted, Top, Source
<1>4. Len(stack'[v]) <= 1 /\ NoStrayDaemon(v)'
  BY <1>1, <1>3 DEF Tidy, NoStrayDaemon
<1>5. \A l : Goto("call", v, l) => pc'["call"][v] = l
  BY DEF Goto, TypeOK, Actors
<1> DEFINE Rest == SealsUnsealed(v)' /\ PublishesOnBare(v)' /\ StaysDetached(v)' /\ KubeletKnows(v)' /\ RecordedFirst(v)'
<1> USE DEF Tidy, SealsUnsealed, PublishesOnBare, StaysDetached, KubeletKnows, RecordedFirst,
            PublishLabels, Actors
<1>6. CASE PublishAgain(v)
  <2>1. pc' = pc /\ recorded' = recorded /\ published \subseteq published'
    BY <1>6 DEF PublishAgain
  <2> Rest
    BY <1>1, <1>3, <2>1 DEF At, Holds
  <2> QED
    BY <1>2, <1>4
<1>7. CASE Publish(v)
  <2>1. /\ pc'["call"][v] = "wait" /\ ~Mounted(v) /\ recorded' = recorded
        /\ published' = published /\ v \notin published /\ PodOf[v] \notin deleted
    BY <1>5, <1>7 DEF Publish, IsMounted, kubeletVars
  <2>2. At("pass", v, "idle")
    BY <2>1
  <2> Rest
    BY <1>1, <1>3, <2>1, <2>2 DEF At, Holds
  <2> QED
    BY <1>2, <1>4
<1>8. CASE Unpublish(v) \/ UnpublishLock(v) \/ DropRecord(v)
  <2>1. /\ pc'["call"][v] \in {"ulock", "unmount", "remove", "idle"}
        /\ PodOf[v] \in deleted /\ recorded' \subseteq recorded
        /\ recorded' # recorded => ~Mounted(v)
    BY <1>5, <1>8 DEF Unpublish, UnpublishLock, DropRecord, At, UnpublishIsFinal, UnpublishLabels
  <2> Rest
    <3>1. RecordedFirst(v)'
      BY <1>1, <1>3, <2>1
    <3> QED
      BY <1>1, <1>3, <2>1, <3>1 DEF At
  <2> QED
    BY <1>2, <1>4
<1>9. CASE Lock(v) \/ SourcesReady(v) \/ SourcesFail(v) \/ AwaitServing(v)
  <2>1. /\ pc["call"][v] \in PublishLabels
        /\ pc'["call"][v] \in {"serve", "save", "lock", "idle"}
        /\ recorded' = recorded /\ published' = published
    BY <1>5, <1>9 DEF Lock, SourcesReady, SourcesFail, AwaitServing, At, kubeletVars
  <2> Rest
    BY <1>1, <1>3, <2>1 DEF At, Holds
  <2> QED
    BY <1>2, <1>4
<1>10. CASE Save(v)
  <2>1. /\ pc["call"][v] = "save" /\ pc'["call"][v] \in {"bind", "start", "idle"}
        /\ pc'["call"][v] # "idle" => v \in recorded'
        /\ published' = published
    BY <1>5, <1>10 DEF Save, At, kubeletVars
  <2> Rest
    BY <1>1, <1>3, <2>1 DEF At, Holds
  <2> QED
    BY <1>2, <1>4
<1>11. CASE RemoveTarget(v)
  <2>1. /\ pc'["call"][v] = "idle" /\ PodOf[v] \in deleted /\ recorded' = recorded
    BY <1>5, <1>11 DEF RemoveTarget, At, UnpublishIsFinal, UnpublishLabels
  <2> Rest
    BY <1>1, <1>3, <2>1 DEF At
  <2> QED
    BY <1>2, <1>4
<1> QED
  BY <1>6, <1>7, <1>8, <1>9, <1>10, <1>11 DEF Kubelet, TakesLock, CallStep

\* The steps a handler and a repair share, which mount and unmount.
LEMMA SharedTidy ==
    ASSUME IInv, IInv', \A w \in Volumes : Tidy(w), NEW a \in Actors, NEW v \in Volumes,
           SharedStep(a, v)
    PROVE  \A w \in Volumes : Tidy(w)'
<1> USE DEF IInv
<1>1. pc[a][v] \in {"start", "seal", "bind", "unmount", "stop"}
  BY DEF SharedStep, Start, StartFails, Seal, SealFails, Bind, BindFails, Unmount, StopScope,
         At
<1>2. Holds(a, v) /\ \A b \in Actors \ {a} : ~Holds(b, v)
  BY <1>1 DEF Holds, Critical, MutualExclusion, Actors
<1>3. a = "call" => At("pass", v, "idle")
  BY <1>2, RepairHolds DEF Actors
<1>4. \A l : Goto(a, v, l) =>
          /\ \A b \in Actors, w \in Volumes : b # a \/ w # v => pc'[b][w] = pc[b][w]
          /\ pc'[a][v] = l
  BY DEF Goto, TypeOK, Actors
<1>5. /\ \A b \in Actors, w \in Volumes : b # a \/ w # v => pc'[b][w] = pc[b][w]
      /\ deleted' = deleted /\ published \subseteq published'
      /\ \A w \in Volumes \ {v} : w \in recorded' <=> w \in recorded
      /\ a = "pass" => recorded' = recorded
  <2>1. \E l : Goto(a, v, l)
    BY DEF SharedStep, Start, StartFails, Seal, SealFails, Bind, BindFails, Unmount,
           StopScope, Succeed, Fail
  <2> QED
    BY <1>4, <2>1
       DEF SharedStep, Start, StartFails, Seal, SealFails, Bind, BindFails, Unmount,
           StopScope, Succeed, Fail, kubeletVars, hostVars
<1>6. a = "pass" => v \in recorded /\ (v \in published \/ PodOf[v] \in deleted)
  BY <1>1 DEF RepairIsRecorded, At, Tidy, KubeletKnows
<1>7. ASSUME NEW w \in Volumes \ {v},
             stack'[w] = stack[w],
             \A k \in alive'[Source(w)] :
                 k \in alive[Source(w)] \/ ~Referenced(stack, Source(w), k),
             w \in Unions => alive'[w] \subseteq alive[w]
      PROVE  Tidy(w)'
  BY <1>5, <1>7, TidyFrame
<1>8. \A w \in Volumes : Source(w) \in Unions
  BY VolumeAssumption DEF Source, Volumes
<1> DEFINE Bare == /\ ~Mounted(v)' /\ Len(stack'[v]) <= 1
                   /\ v \in Unions /\ PodOf[v] \notin deleted => alive'[v] = {}
<1>9. ASSUME NEW l \in {"idle", "stop", "drop", "start", "bind"}, pc'[a][v] = l, Bare,
             a = "call" => l \in {"idle", "stop", "drop"}
      PROVE  Tidy(v)'
  <2>1. PublishesOnBare(v)' /\ StaysDetached(v)'
    <3>1. CASE a = "pass"
      BY <1>9, <1>1, <1>5, <3>1
         DEF PublishesOnBare, StaysDetached, PublishLabels, At, Actors, Tidy
    <3>2. CASE a = "call"
      BY <1>9, <1>3, <1>5, <3>2 DEF PublishesOnBare, StaysDetached, At, PublishLabels, Actors
    <3> QED
      BY <3>1, <3>2 DEF Actors
  <2>2. KubeletKnows(v)'
    <3>1. CASE a = "pass"
      BY <1>9, <1>5, <1>6, <3>1 DEF KubeletKnows
    <3>2. CASE a = "call"
      BY <1>9, <1>3, <1>5, <3>2 DEF KubeletKnows, At, Actors
    <3> QED
      BY <3>1, <3>2 DEF Actors
  <2>3. RecordedFirst(v)'
    <3>1. CASE a = "pass"
      BY <1>9, <1>2, <1>5, <3>1 DEF RecordedFirst, Holds, Critical, Actors
    <3>2. CASE a = "call"
      BY <1>9, <3>2 DEF RecordedFirst
    <3> QED
      BY <3>1, <3>2 DEF Actors
  <2>4. NoStrayDaemon(v)' /\ SealsUnsealed(v)'
    BY <1>2, <1>5, <1>9 DEF NoStrayDaemon, SealsUnsealed, Holds, Critical
  <2> QED
    BY <1>9, <2>1, <2>2, <2>3, <2>4 DEF Tidy
<1>10. ASSUME NEW l \in {"idle", "seal"}, pc'[a][v] = l, Mounted(v)', Len(stack'[v]) <= 1,
              v \in recorded', NoStrayDaemon(v)',
              a = "call" /\ l = "idle" => v \in published',
              l = "seal" => SealControl /\ ~Top(v)'.sealed
       PROVE  Tidy(v)'
  <2>1. PublishesOnBare(v)' /\ StaysDetached(v)'
    <3>1. CASE a = "pass"
      BY <1>10, <1>2, <1>5, <3>1
         DEF PublishesOnBare, StaysDetached, PublishLabels, Holds, Critical, Actors, Tidy, At
    <3>2. CASE a = "call"
      BY <1>10, <1>3, <1>5, <3>2 DEF PublishesOnBare, StaysDetached, At, PublishLabels, Actors
    <3> QED
      BY <3>1, <3>2 DEF Actors
  <2>2. KubeletKnows(v)'
    <3>1. CASE a = "pass"
      BY <1>5, <1>6, <3>1 DEF KubeletKnows
    <3>2. CASE a = "call"
      BY <1>10, <1>3, <1>5, <3>2 DEF KubeletKnows, At, Holds, Critical, Actors
    <3> QED
      BY <3>1, <3>2 DEF Actors
  <2>3. SealsUnsealed(v)'
    BY <1>2, <1>5, <1>10 DEF SealsUnsealed, Holds, Critical
  <2> QED
    BY <1>10, <2>1, <2>2, <2>3 DEF Tidy, RecordedFirst
<1>11. CASE v \in Unions /\ Start(a, v)
  <2>1. PICK k \in FreshPids(v) : /\ Push(v, [pid |-> k, sealed |-> FALSE])
                                  /\ alive' = [alive EXCEPT ![v] = @ \cup {k}]
    BY <1>11 DEF Start
  <2>2. ~Referenced(stack, v, k) /\ [pid |-> k, sealed |-> FALSE] \in Layer
    BY <2>1 DEF FreshPids, FreePid, Layer
  <2>3. ~Mounted(v)
    BY <1>11 DEF Start, At, Tidy, PublishesOnBare, StaysDetached, PublishLabels, Actors
  <2>4. Mounted(v)' /\ Len(stack'[v]) <= 1 /\ Top(v)' = [pid |-> k, sealed |-> FALSE]
    BY <2>1, <2>2, <2>3, PushOnly DEF TypeOK
  <2>5. PodOf[v] \notin deleted => alive'[v] = {k}
    BY <1>11, <2>1, <2>3 DEF Tidy, NoStrayDaemon, TypeOK
  <2>6. NoStrayDaemon(v)'
    BY <1>5, <2>4, <2>5 DEF NoStrayDaemon
  <2>7. v \in recorded'
    <3>1. a = "call" => v \in recorded
      BY <1>11 DEF Start, At, Tidy, RecordedFirst
    <3> QED
      BY <1>6, <1>11, <3>1 DEF Start, Actors
  <2>8. \/ pc'[a][v] = "seal" /\ SealControl
        \/ pc'[a][v] = "idle" /\ (a = "call" => v \in published')
    BY <1>4, <1>11 DEF Start, Succeed
  <2>9. Tidy(v)'
    BY <1>10, <2>4, <2>6, <2>7, <2>8
  <2>10. ASSUME NEW w \in Volumes \ {v} PROVE Tidy(w)'
    BY <1>7, <1>8, <1>11, <2>1, <2>2, <2>10 DEF Push, TypeOK
  <2> QED
    BY <2>9, <2>10
<1>12. CASE v \in Unions /\ Seal(a, v)
  <2>1. Mounted(v)
    BY <1>12 DEF Seal, Probe
  <2>2. Top(v) \in Layer /\ Len(stack[v]) \in DOMAIN stack[v]
    BY <2>1, TopType DEF TypeOK
  <2>3. /\ stack'[v] = [stack[v] EXCEPT ![Len(stack[v])] = [pid |-> Top(v).pid, sealed |-> TRUE]]
        /\ \A w \in Volumes \ {v} : stack'[w] = stack[w]
        /\ alive' = alive
    BY <1>12 DEF Seal, TypeOK
  <2>4. stack[v] \in Seq(Layer) /\ stack'[v] \in Seq(Layer)
    BY DEF TypeOK
  <2>5. Len(stack'[v]) = Len(stack[v])
    BY <2>2, <2>3, <2>4
  <2>6. Mounted(v)' /\ Len(stack'[v]) <= 1 /\ Top(v)'.pid = Top(v).pid
    <3>1. Len(stack'[v]) <= 1
      BY <2>5 DEF Tidy
    <3>2. Len(stack[v]) \in Nat \ {0}
      BY <2>1, TopType DEF TypeOK
    <3>3. Mounted(v)'
      BY <2>5, <3>2 DEF Mounted
    <3>4. Top(v)' = [pid |-> Top(v).pid, sealed |-> TRUE]
      BY <2>2, <2>3, <2>5 DEF Top
    <3> QED
      BY <3>1, <3>3, <3>4
  <2>7. NoStrayDaemon(v)'
    BY <1>5, <2>1, <2>3, <2>6 DEF Tidy, NoStrayDaemon
  <2>8. v \in recorded'
    <3>1. a = "call" => v \in recorded
      BY <1>12 DEF Seal, At, Tidy, RecordedFirst
    <3> QED
      BY <1>6, <1>12, <3>1 DEF Seal, Actors
  <2>9. pc'[a][v] = "idle" /\ (a = "call" => v \in published')
    BY <1>4, <1>12 DEF Seal, Succeed
  <2>10. Tidy(v)'
    BY <1>10, <2>6, <2>7, <2>8, <2>9
  <2>11. ASSUME NEW w \in Volumes \ {v} PROVE Tidy(w)'
    BY <1>7, <2>3, <2>11
  <2> QED
    BY <2>10, <2>11
<1>13. CASE v \in Views /\ Bind(a, v)
  <2>1. PICK l \in Layer : Push(v, l)
    <3>1. SharedFrom[v] \in Volumes
      BY <1>13, VolumeAssumption DEF Volumes
    <3>2. Mounted(SharedFrom[v]) => Top(SharedFrom[v]) \in Layer
      BY <3>1, TopType DEF TypeOK
    <3>3. [pid |-> 0, sealed |-> FALSE] \in Layer
      BY DEF Layer
    <3> QED
      BY <1>13, <3>2, <3>3 DEF Bind
  <2>2. ~Mounted(v)
    BY <1>13 DEF Bind, At, Tidy, PublishesOnBare, StaysDetached, PublishLabels, Actors
  <2>3. Mounted(v)' /\ Len(stack'[v]) <= 1
    BY <2>1, <2>2, PushOnly DEF TypeOK
  <2>4. NoStrayDaemon(v)' /\ alive' = alive
    BY <1>13, VolumeAssumption DEF NoStrayDaemon, Bind
  <2>5. v \in recorded'
    <3>1. a = "call" => v \in recorded
      BY <1>13 DEF Bind, At, Tidy, RecordedFirst
    <3> QED
      BY <1>6, <1>13, <3>1 DEF Bind, Actors
  <2>6. pc'[a][v] = "idle" /\ (a = "call" => v \in published')
    BY <1>4, <1>13 DEF Bind, Succeed
  <2>7. Tidy(v)'
    BY <1>10, <2>3, <2>4, <2>5, <2>6
  <2>8. ASSUME NEW w \in Volumes \ {v} PROVE Tidy(w)'
    BY <1>7, <2>1, <2>4, <2>8 DEF Push, TypeOK
  <2> QED
    BY <2>7, <2>8
<1>14. ASSUME NEW kill, Pop(v, kill)
       PROVE  /\ ~Mounted(v)' /\ Len(stack'[v]) <= 1
              /\ \A w \in Volumes \ {v} : Tidy(w)'
  <2>1. /\ \A w \in Volumes \ {v} : stack'[w] = stack[w]
        /\ \A u \in Unions : alive'[u] \subseteq alive[u]
    BY <1>14, PopType DEF TypeOK
  <2>2. ~Mounted(v)' /\ Len(stack'[v]) <= 1
    BY <1>14, PopOnly DEF TypeOK, Tidy
  <2> QED
    BY <1>7, <1>8, <2>1, <2>2
<1>15. CASE v \in Unions /\ SealFails(a, v)
  <2>1. Mounted(v)
    BY <1>15 DEF SealFails, Probe
  <2>2. pc'[a][v] = "idle" /\ recorded' = IF a = "call" THEN recorded \ {v} ELSE recorded
    BY <1>4, <1>15 DEF SealFails, Fail
  <2>3. CASE \E kill : /\ Pop(v, kill)
                       /\ Top(v).pid \notin alive[v] \/ Top(v).pid \in kill
    <3>1. PICK kill : /\ Pop(v, kill)
                      /\ Top(v).pid \notin alive[v] \/ Top(v).pid \in kill
      BY <2>3
    <3>2. PodOf[v] \notin deleted => alive'[v] = {}
      <4>1. PodOf[v] \notin deleted => \A k \in alive[v] : k = Top(v).pid
        BY <1>15 DEF Tidy, NoStrayDaemon
      <4>2. alive'[v] = {k \in alive[v] : Referenced(stack', v, k) /\ ~(k \in kill)}
        BY <1>15, <3>1 DEF Pop
      <4> QED
        BY <3>1, <4>1, <4>2
    <3>3. Tidy(v)'
      BY <1>9, <1>14, <2>2, <3>1, <3>2
    <3> QED
      BY <1>14, <3>1, <3>3
  <2>4. CASE /\ stack' = stack /\ \A u \in Unions : alive'[u] \subseteq alive[u]
             /\ Top(v).pid \notin alive'[v]
    <3>1. Mounted(v)' = Mounted(v) /\ Top(v)' = Top(v) /\ Source(v)' = v
      BY <1>15, <2>4, VolumeAssumption DEF Mounted, Top, Source
    <3>2. NoStrayDaemon(v)'
      BY <1>5, <1>15, <2>4, <3>1 DEF Tidy, NoStrayDaemon
    <3>3. RecordedFirst(v)' /\ SealsUnsealed(v)'
      <4>1. /\ pc'["call"][v] \notin {"start", "seal", "bind"}
            /\ \A b \in Actors : pc'[b][v] # "seal"
        BY <1>2, <1>5, <2>2 DEF Holds, Critical, Actors
      <4> QED
        BY <2>4, <3>1, <4>1 DEF RecordedFirst, SealsUnsealed
    <3>4. PublishesOnBare(v)' /\ StaysDetached(v)'
      <4>1. CASE a = "pass"
        BY <1>2, <1>5, <1>15, <2>1, <2>2, <4>1
           DEF PublishesOnBare, StaysDetached, PublishLabels, Holds, Critical, Actors, Tidy, At
      <4>2. CASE a = "call"
        BY <1>3, <1>5, <2>2, <4>2 DEF PublishesOnBare, StaysDetached, At, PublishLabels, Actors
      <4> QED
        BY <4>1, <4>2 DEF Actors
    <3>5. KubeletKnows(v)'
      <4>1. CASE a = "pass"
        BY <1>5, <1>6, <4>1 DEF KubeletKnows
      <4>2. CASE a = "call"
        BY <1>3, <1>5, <2>2, <4>2 DEF KubeletKnows, At, Actors
      <4> QED
        BY <4>1, <4>2 DEF Actors
    <3>6. Tidy(v)'
      BY <2>4, <3>2, <3>3, <3>4, <3>5 DEF Tidy
    <3>7. ASSUME NEW w \in Volumes \ {v} PROVE Tidy(w)'
      BY <1>7, <1>8, <2>4, <3>7
    <3> QED
      BY <3>6, <3>7
  <2>5. Source(v) = v
    BY <1>15, VolumeAssumption DEF Source
  <2>6. CASE Probe(v) = "dead"
    <3>1. Top(v).pid \notin alive[v]
      BY <2>5, <2>6 DEF Probe
    <3>2. (\E kill : Pop(v, kill)) \/ UNCHANGED <<stack, alive>>
      BY <1>15, <2>6 DEF SealFails
    <3> QED
      BY <2>3, <2>4, <3>1, <3>2
  <2>7. CASE Probe(v) # "dead"
    <3>1. Pop(v, {Top(v).pid}) \/ KilledInPlace(v)
      BY <1>15, <2>7 DEF SealFails
    <3>2. CASE Pop(v, {Top(v).pid})
      BY <2>3, <3>2
    <3>3. CASE KilledInPlace(v)
      <4>1. /\ stack' = stack /\ \A u \in Unions : alive'[u] \subseteq alive[u]
            /\ Top(v).pid \notin alive'[v]
        BY <1>15, <3>3 DEF KilledInPlace, TypeOK
      <4> QED
        BY <2>4, <4>1
    <3> QED
      BY <3>1, <3>2, <3>3
  <2> QED
    BY <2>6, <2>7
<1>16. CASE (v \in Unions /\ StartFails(a, v)) \/ (v \in Views /\ BindFails(a, v))
  <2>1. /\ pc'[a][v] = "idle" /\ stack' = stack /\ alive' = alive
        /\ pc[a][v] \in {"start", "bind"}
    BY <1>4, <1>16 DEF StartFails, BindFails, Fail, hostVars, At
  <2>2. ~Mounted(v) /\ Len(stack[v]) <= 1
    BY <2>1 DEF Tidy, PublishesOnBare, StaysDetached, PublishLabels, Actors
  <2>3. v \in Unions /\ PodOf[v] \notin deleted => alive[v] = {}
    BY <2>2 DEF Tidy, NoStrayDaemon
  <2>4. Bare
    BY <2>1, <2>2, <2>3 DEF Mounted
  <2>5. Tidy(v)'
    BY <1>9, <2>1, <2>4
  <2>6. ASSUME NEW w \in Volumes \ {v} PROVE Tidy(w)'
    BY <1>7, <2>1, <2>6
  <2> QED
    BY <2>5, <2>6
<1>17. CASE Unmount(a, v)
  <2>1. At(a, v, "unmount")
    BY <1>17 DEF Unmount
  <2>2. a = "call" => PodOf[v] \in deleted
    BY <2>1 DEF UnpublishIsFinal, UnpublishLabels, At
  <2>3. CASE Pop(v, {}) /\ Goto(a, v, IF a = "pass" /\ v \in Views THEN "bind" ELSE "stop")
    <3>1. v \in Unions /\ PodOf[v] \notin deleted => alive'[v] = {}
      <4> SUFFICES ASSUME v \in Unions, PodOf[v] \notin deleted PROVE alive'[v] = {}
        OBVIOUS
      <4>1. a = "pass" /\ Source(v) = v
        BY <2>2, VolumeAssumption DEF Actors, Source
      <4>2. Top(v).pid \notin alive[v]
        BY <2>1, <4>1 DEF DetachesDead
      <4>3. alive[v] = {}
        BY <4>2 DEF Tidy, NoStrayDaemon
      <4> QED
        BY <2>3, <4>3 DEF Pop
    <3>2. Bare
      BY <1>14, <2>3, <3>1
    <3>3. Tidy(v)'
      BY <1>4, <1>9, <2>3, <3>2
    <3> QED
      BY <1>14, <2>3, <3>3
  <2>4. CASE Goto(a, v, "idle") /\ UNCHANGED <<stack, alive, stuck>>
    <3>1. /\ pc'[a][v] = "idle" /\ recorded' = recorded
          /\ Mounted(v)' = Mounted(v) /\ Top(v)' = Top(v) /\ Source(v)' = Source(v)
      BY <1>4, <1>17, <2>4 DEF Unmount, Mounted, Top, Source
    <3>2. NoStrayDaemon(v)' /\ Len(stack'[v]) <= 1
      BY <1>5, <2>4, <3>1 DEF Tidy, NoStrayDaemon
    <3>3. RecordedFirst(v)' /\ SealsUnsealed(v)'
      <4>1. /\ pc'["call"][v] \notin {"start", "seal", "bind"}
            /\ \A b \in Actors : pc'[b][v] # "seal"
        BY <1>2, <1>5, <3>1 DEF Holds, Critical, Actors
      <4> QED
        BY <2>4, <3>1, <4>1 DEF RecordedFirst, SealsUnsealed, Tidy
    <3>4. PublishesOnBare(v)' /\ StaysDetached(v)'
      BY <1>2, <1>5, <2>1, <3>1 DEF PublishesOnBare, StaysDetached, PublishLabels, At,
         Holds, Critical, Actors, Tidy
    <3>5. KubeletKnows(v)'
      <4>1. v \in published \/ PodOf[v] \in deleted
        BY <1>6, <2>2 DEF Actors
      <4> QED
        BY <1>5, <4>1 DEF KubeletKnows
    <3>6. Tidy(v)'
      BY <3>2, <3>3, <3>4, <3>5 DEF Tidy
    <3>7. ASSUME NEW w \in Volumes \ {v} PROVE Tidy(w)'
      BY <1>7, <2>4, <3>7
    <3> QED
      BY <3>6, <3>7
  <2> QED
    BY <1>17, <2>3, <2>4 DEF Unmount
<1>18. CASE StopScope(a, v)
  <2>1. /\ At(a, v, "stop") /\ stack' = stack
        /\ \A u \in Unions : alive'[u] \subseteq alive[u]
    BY <1>18 DEF StopScope, TypeOK
  <2>2. ~Mounted(v) /\ Len(stack[v]) <= 1
    BY <2>1 DEF At, Tidy, StaysDetached, Actors
  <2>3. v \in Unions /\ PodOf[v] \notin deleted => alive[v] = {}
    BY <2>2 DEF Tidy, NoStrayDaemon
  <2>4. Bare
    BY <2>1, <2>2, <2>3 DEF Mounted
  <2>5. /\ a = "call" => pc'[a][v] = "drop"
        /\ a = "pass" => pc'[a][v] \in {"start", "idle"}
    BY <1>4, <1>18 DEF StopScope
  <2>6. Tidy(v)'
    BY <1>9, <2>4, <2>5 DEF Actors
  <2>7. ASSUME NEW w \in Volumes \ {v} PROVE Tidy(w)'
    BY <1>7, <1>8, <2>1, <2>7
  <2> QED
    BY <2>6, <2>7
<1> QED
  BY <1>11, <1>12, <1>13, <1>15, <1>16, <1>17, <1>18 DEF SharedStep

\* A pass begins, or settles what it does about one volume.
LEMMA PassTidy ==
    ASSUME IInv, IInv', \A w \in Volumes : Tidy(w),
           PassBegins \/ \E v \in Volumes : Reconcile(v)
    PROVE  \A w \in Volumes : Tidy(w)'
<1> USE DEF IInv
<1>1. /\ UNCHANGED <<stack, alive, deleted, published>>
      /\ pc'["call"] = pc["call"]
  BY DEF PassBegins, Reconcile, ReconcileLeaves, ReconcileForgets, ReconcileRepairs, Goto,
         TypeOK, Actors, kubeletVars, hostVars
<1>2. \A w \in Volumes : Mounted(w)' = Mounted(w) /\ Top(w)' = Top(w) /\ Source(w)' = Source(w)
  BY <1>1 DEF Mounted, Top, Source
<1>3. CASE pc' = pc /\ recorded' = recorded
  BY <1>1, <1>3, TidyFrame
<1>4. ASSUME NEW v \in Volumes, ReconcileForgets(v)
      PROVE  \A w \in Volumes : Tidy(w)'
  <2>1. /\ pc' = pc /\ LockFree(v) /\ v \notin dir
        /\ recorded' = recorded \ {v} \/ recorded' = recorded
    BY <1>4 DEF ReconcileForgets, Reconciles, Probe
  <2>2. ~Mounted(v) /\ ~Holds("call", v)
    BY <2>1 DEF MountHasDir, LockFree, Actors
  <2>3. Tidy(v)'
    BY <1>1, <1>2, <2>1, <2>2
       DEF Tidy, PublishesOnBare, StaysDetached, KubeletKnows, RecordedFirst, NoStrayDaemon,
           SealsUnsealed, At, Holds, Critical, Actors
  <2>4. ASSUME NEW w \in Volumes \ {v} PROVE Tidy(w)'
    BY <1>1, <2>1, <2>4, TidyFrame
  <2> QED
    BY <2>3, <2>4
<1>5. ASSUME NEW v \in Volumes, ReconcileRepairs(v)
      PROVE  \A w \in Volumes : Tidy(w)'
  <2>1. /\ \A w \in Volumes \ {v} : pc'["pass"][w] = pc["pass"][w]
        /\ pc'["pass"][v] = "unmount"
        /\ recorded' = recorded /\ v \in recorded
        /\ ~Holds("call", v) /\ Mounted(v)
    BY <1>5 DEF ReconcileRepairs, Reconciles, LockFree, Goto, TypeOK, Actors, Repairable,
                Probe
  <2>2. Tidy(v)'
    BY <1>1, <1>2, <2>1
       DEF Tidy, PublishesOnBare, StaysDetached, KubeletKnows, RecordedFirst, NoStrayDaemon,
           SealsUnsealed, At, Holds, Critical, Actors
  <2>3. ASSUME NEW w \in Volumes \ {v} PROVE Tidy(w)'
    BY <1>1, <2>1, <2>3, TidyFrame DEF Actors
  <2> QED
    BY <2>2, <2>3
<1> QED
  BY <1>3, <1>4, <1>5 DEF PassBegins, Reconcile, ReconcileLeaves

\* What happens around the driver, short of what disturbs it.
LEMMA EnvironmentTidy ==
    ASSUME IInv, IInv', \A w \in Volumes : Tidy(w), ~Disturbed', Environment
    PROVE  \A w \in Volumes : Tidy(w)'
<1> USE DEF IInv
<1>1. ~DriverRestarts /\ \A v \in Volumes : ~KubeletForgets(v)
  BY DEF DriverRestarts, KubeletForgets, Fault, Disturbed, Disturbing
<1>2. \A w \in Volumes : Source(w) \in Unions
  BY VolumeAssumption DEF Source, Volumes
<1>3. CASE NodeReboots
  <2> SUFFICES ASSUME NEW w \in Volumes PROVE Tidy(w)'
    OBVIOUS
  <2>1. /\ stack'[w] = <<>> /\ pc'["call"][w] = "idle" /\ pc'["pass"][w] = "idle"
        /\ \A u \in Unions : alive'[u] = {}
    BY <1>3 DEF NodeReboots, Idle, Actors, NoDaemons
  <2>2. ~Mounted(w)' /\ Len(stack'[w]) <= 1
    BY <2>1 DEF Mounted
  <2> QED
    BY <2>1, <2>2 DEF Tidy, PublishesOnBare, StaysDetached, KubeletKnows, RecordedFirst,
       NoStrayDaemon, SealsUnsealed, At, PublishLabels, Actors
<1>4. CASE ~NodeReboots
  <2>1. /\ pc' = pc /\ stack' = stack /\ recorded' = recorded /\ published' = published
        /\ deleted \subseteq deleted'
    BY <1>1, <1>4 DEF Environment, DeletePod, KubeletRemovesTarget, DaemonCrashes,
                DaemonHangs, DaemonRecovers, kubeletVars, hostVars
  <2>2. \A u \in Unions : alive'[u] \subseteq alive[u]
    BY <1>1, <1>4 DEF Environment, DeletePod, KubeletRemovesTarget, DaemonCrashes,
                DaemonHangs, DaemonRecovers, kubeletVars, hostVars, TypeOK
  <2> SUFFICES ASSUME NEW w \in Volumes PROVE Tidy(w)'
    OBVIOUS
  <2> QED
    BY <1>2, <2>1, <2>2, TidyFrame
<1> QED
  BY <1>3, <1>4

\* The node is tidy when the driver starts on it for the first time.
LEMMA InitTidy == Init => UInv
<1> SUFFICES ASSUME Init, NEW v \in Volumes PROVE Tidy(v)
  BY DEF UInv
<1>1. /\ stack[v] = <<>> /\ pc["call"][v] = "idle" /\ pc["pass"][v] = "idle"
      /\ \A u \in Unions : alive[u] = {}
  BY DEF Init, Idle, Actors, NoDaemons
<1>2. ~Mounted(v) /\ Len(stack[v]) <= 1
  BY <1>1 DEF Mounted
<1> QED
  BY <1>1, <1>2 DEF Tidy, PublishesOnBare, StaysDetached, KubeletKnows, RecordedFirst,
     NoStrayDaemon, SealsUnsealed, At, PublishLabels, Actors

\* Every step keeps the node tidy, or disturbs it.
LEMMA NextTidy == IInv /\ IInv' /\ UInv /\ [Next]_vars => UInv'
<1> SUFFICES ASSUME IInv, IInv', UInv, [Next]_vars, ~Disturbed'
             PROVE  \A w \in Volumes : Tidy(w)'
  BY DEF UInv
<1>1. \A w \in Volumes : Tidy(w)
  BY PastGrows DEF UInv, IInv
<1>2. CASE UNCHANGED vars
  BY <1>1, <1>2, TidyFrame DEF vars, kubeletVars, hostVars, IInv
<1>3. CASE Next
  BY <1>1, <1>3, CallTidy, SharedTidy, PassTidy, EnvironmentTidy DEF Next
<1> QED
  BY <1>2, <1>3

\* The invariant the theorems on an undisturbed node rest on.
THEOREM StaysTidy == Spec => [](IInv /\ UInv)
<1>1. Init => IInv /\ UInv
  BY InitSafe, InitTidy
<1>2. IInv /\ UInv /\ [Next]_vars => IInv' /\ UInv'
  BY NextSafe, NextTidy
<1> QED
  BY <1>1, <1>2, PTL DEF Spec

\* No retry of a failed call, no repair of a dead mount and no reboot puts a mount over a
\* mount.
THEOREM MountsOnce == Spec => []RetriesMountOnce
<1>1. UInv => RetriesMountOnce
  BY DEF UInv, Tidy, RetriesMountOnce, OneMountPerTarget
<1> QED
  BY <1>1, StaysTidy, PTL

\* A mount whose daemon runs has the state file that its repair needs, whichever calls
\* failed half way.
THEOREM LiveIsRecorded == Spec => []LiveMountIsRecorded
<1>1. UInv => LiveMountIsRecorded
  BY DEF UInv, Tidy, RecordedFirst, LiveMountIsRecorded
<1> QED
  BY <1>1, StaysTidy, PTL

(***************************************************************************)
(* No step of the driver stops a daemon that serves.                       *)
(***************************************************************************)

\* A fault changes the count of faults.
LEMMA FaultCounts ==
    ASSUME TypeOK, NEW kind, Fault(kind)
    PROVE  faults' # faults
<1>1. faults \in 0 .. MaxFaults /\ MaxFaults \in Nat /\ faults' = faults + 1
  BY BoundAssumption DEF TypeOK, Fault
<1> QED
  BY <1>1

\* Unmounting a dead mount, or the target of another volume, stops no daemon of a union
\* whose pod is not being deleted.
LEMMA PopKeepsDaemons ==
    ASSUME IInv, IInv', \A w \in Volumes : Tidy(w), NEW v \in Volumes, Pop(v, {}),
           NEW u \in Unions, PodOf[u] \notin deleted,
           u = v => Top(v).pid \notin alive[v]
    PROVE  alive[u] \subseteq alive'[u]
<1>1. u \in Volumes /\ Source(u) = u
  BY VolumeAssumption DEF Volumes, Source
<1>2. \A k \in alive[u] : Mounted(u) /\ Top(u).pid = k
  BY <1>1 DEF Tidy, NoStrayDaemon
<1>3. CASE u = v
  BY <1>2, <1>3
<1>4. CASE u # v
  <2>1. stack'[u] = stack[u]
    BY <1>1, <1>4, PopType DEF IInv, TypeOK
  <2>2. \A k \in alive[u] : Referenced(stack', u, k)
    BY <1>1, <1>2, <2>1, TopType DEF Referenced, Top, IInv, TypeOK
  <2> QED
    BY <1>4, <2>2 DEF Pop
<1> QED
  BY <1>3, <1>4

NeverStops ==
    \A u \in Unions : PodOf[u] \notin deleted /\ faults' = faults /\ ~Disturbed
                         => alive[u] \subseteq alive'[u]

\* Every step that is no fault leaves the daemons of a pod that stays running.
LEMMA StepNeverStops ==
    ASSUME IInv, IInv', UInv, [Next]_vars
    PROVE  [NeverStops]_vars
<1> SUFFICES ASSUME Next, NEW u \in Unions, PodOf[u] \notin deleted, faults' = faults, ~Disturbed
             PROVE  alive[u] \subseteq alive'[u]
  BY DEF NeverStops
<1> USE DEF IInv
<1>1. \A w \in Volumes : Tidy(w)
  BY DEF UInv
<1>2. \A kind : ~Fault(kind)
  BY FaultCounts
<1>3. u \in Volumes /\ Source(u) = u
  BY VolumeAssumption DEF Volumes, Source
<1>4. CASE \E v \in Volumes : Kubelet(v) \/ TakesLock(v) \/ CallStep(v) \/ Reconcile(v)
  BY <1>4 DEF Kubelet, TakesLock, CallStep, Reconcile, PublishAgain, Publish,
     Unpublish, Lock, UnpublishLock, SourcesReady, SourcesFail, AwaitServing, Save,
     DropRecord, RemoveTarget, ReconcileLeaves, ReconcileForgets, ReconcileRepairs, hostVars
<1>5. CASE PassBegins \/ Environment
  BY <1>2, <1>5 DEF PassBegins, Environment, DeletePod, KubeletForgets, KubeletRemovesTarget,
     DaemonCrashes, DaemonHangs, DaemonRecovers, DriverRestarts, NodeReboots, hostVars
<1>6. ASSUME NEW a \in Actors, NEW v \in Volumes, SharedStep(a, v)
      PROVE  alive[u] \subseteq alive'[u]
  <2>1. CASE v \in Unions /\ Start(a, v)
    BY <2>1 DEF Start, TypeOK
  <2>2. CASE (v \in Unions /\ (StartFails(a, v) \/ Seal(a, v))) \/ (v \in Views /\ (Bind(a, v) \/ BindFails(a, v)))
    BY <2>2 DEF StartFails, Seal, Bind, BindFails, hostVars
  <2>3. CASE v \in Unions /\ SealFails(a, v)
    <3>1. ~KilledInPlace(v)
      <4>1. faults \in 0 .. MaxFaults /\ MaxFaults \in Nat
        BY BoundAssumption DEF TypeOK
      <4>2. KilledInPlace(v) => faults' = faults + 2
        BY DEF KilledInPlace
      <4> QED
        BY <4>1, <4>2
    <3>2. Probe(v) = "dead" /\ Pop(v, {})
      BY <1>2, <2>3, <3>1 DEF SealFails
    <3>3. Top(v).pid \notin alive[v]
      BY <2>3, <3>2, VolumeAssumption DEF Probe, Source
    <3> QED
      BY <1>1, <3>2, <3>3, PopKeepsDaemons
  <2>4. CASE Unmount(a, v)
    <3>1. Pop(v, {}) /\ At(a, v, "unmount")
      BY <1>2, <2>4 DEF Unmount
    <3>2. u = v => Top(v).pid \notin alive[v]
      <4> SUFFICES ASSUME u = v PROVE Top(v).pid \notin alive[v]
        OBVIOUS
      <4>1. a = "pass"
        BY <3>1 DEF UnpublishIsFinal, UnpublishLabels, At, Actors
      <4> QED
        BY <1>3, <3>1, <4>1 DEF DetachesDead
    <3> QED
      BY <1>1, <3>1, <3>2, PopKeepsDaemons
  <2>5. CASE StopScope(a, v)
    <3>1. ~Mounted(v)
      BY <1>1, <2>5 DEF StopScope, At, Tidy, StaysDetached, Actors
    <3>2. u = v => alive[v] = {}
      BY <1>1, <3>1 DEF Tidy, NoStrayDaemon
    <3> QED
      BY <2>5, <3>2 DEF StopScope, TypeOK
  <2> QED
    BY <1>6, <2>1, <2>2, <2>3, <2>4, <2>5 DEF SharedStep
<1> QED
  BY <1>4, <1>5, <1>6 DEF Next

\* Whatever handlers and the pass do, in whatever order, they end no daemon of a pod that is
\* not being deleted.
THEOREM NeverStopped == Spec => ServingDaemonNeverStopped
<1>1. IInv /\ UInv /\ (IInv /\ UInv)' /\ [Next]_vars => [NeverStops]_vars
  BY StepNeverStops
<1> QED
  BY <1>1, StaysTidy, PTL DEF Spec, ServingDaemonNeverStopped, NeverStops

(***************************************************************************)
(* The backend implements UnionVolume.                                     *)
(***************************************************************************)

\* A container that is left alone sees the same as before, or its mount break.
LEMMA SeenFrame ==
    ASSUME TypeOK, NEW w \in Volumes, stack'[w] = stack[w],
           w \in done' <=> w \in done,
           \A k \in alive'[Source(w)] :
               k \in alive[Source(w)] \/ ~Referenced(stack, Source(w), k)
    PROVE  Contract!Moves(w)
<1>1. Mounted(w)' = Mounted(w) /\ Top(w)' = Top(w) /\ Source(w)' = Source(w)
  BY DEF Mounted, Top, Source
<1>2. Mounted(w) => Referenced(stack, Source(w), Top(w).pid)
  BY TopType DEF Referenced, Top, TypeOK
<1>3. \/ Seen(w)' = Seen(w)
      \/ Seen(w) \in {"unready", "serving"} /\ Seen(w)' = "broken"
  BY <1>1, <1>2 DEF Seen
<1> QED
  BY <1>3 DEF Contract!Moves, Contract!Breaks, Contract!Becomes

\* What a container sees of a target without a mount, and with one.
LEMMA SeenValues ==
    ASSUME NEW v \in Volumes
    PROVE  /\ Mounted(v) <=> Seen(v) \in {"unready", "serving", "broken"}
           /\ ~Mounted(v) => Seen(v) = IF v \in done THEN "gone" ELSE "absent"
           /\ Contract!MountedStates = {"unready", "serving", "broken"}
BY DEF Seen, Contract!MountedStates

\* The same one step later.
LEMMA SeenNext ==
    ASSUME NEW v \in Volumes
    PROVE  /\ Mounted(v)' <=> Seen(v)' \in {"unready", "serving", "broken"}
           /\ ~Mounted(v)' => Seen(v)' = IF v \in done' THEN "gone" ELSE "absent"
BY DEF Seen

\* A move of the contract, in terms of what a container sees.
LEMMA MoveOf ==
    ASSUME NEW v \in Volumes,
           \/ Seen(v)' = Seen(v)
           \/ Seen(v) = "absent" /\ Seen(v)' \in {"unready", "serving", "broken"}
           \/ Seen(v) = "unready" /\ Seen(v)' = "serving"
           \/ Seen(v) \in {"unready", "broken"} /\ Seen(v)' = "absent"
           \/ /\ PodOf[v] \in deleted /\ Seen(v) \in {"unready", "serving", "broken"}
              /\ Seen(v)' = "absent"
           \/ PodOf[v] \in deleted /\ Seen(v) = "absent" /\ Seen(v)' = "gone"
    PROVE  Contract!Moves(v)
BY DEF Contract!Moves, Contract!Mounts, Contract!Readies, Contract!Detaches,
       Contract!Unmounts, Contract!Removes, Contract!Becomes, Contract!MountedStates

\* Kubelet hears of a success for what is mounted, and of an unpublish for what is gone.
LEMMA TellsOf ==
    ASSUME TypeOK, TypeOK',
           \A v \in published' \ published : Mounted(v)',
           \A v \in published \ published' : Seen(v)' = "gone"
    PROVE  Contract!Tells
BY SeenNext DEF Contract!Tells, Contract!MountedStates, TypeOK

\* Handlers mount nothing in the steps that a pass does not share, and remove what is not
\* mounted.
LEMMA CallKeeps ==
    ASSUME IInv, IInv', \A w \in Volumes : Tidy(w), NEW v \in Volumes,
           Kubelet(v) \/ TakesLock(v) \/ CallStep(v)
    PROVE  Contract!Works
<1> USE DEF IInv
<1>1. stack' = stack /\ alive' = alive /\ deleted' = deleted
  BY DEF Kubelet, TakesLock, CallStep, PublishAgain, Publish, Unpublish, Lock, UnpublishLock,
         SourcesReady, SourcesFail, AwaitServing, Save, DropRecord, RemoveTarget,
         kubeletVars, hostVars
<1>2. \A w \in Volumes : (w \in done' <=> w \in done) => Contract!Moves(w)
  BY <1>1, SeenFrame
<1>3. \A w \in Volumes : Mounted(w)' = Mounted(w)
  BY <1>1 DEF Mounted
<1>4. CASE RemoveTarget(v) /\ ~Mounted(v)
  <2>1. /\ PodOf[v] \in deleted /\ done' = done \cup {v} /\ published' = published \ {v}
    BY <1>4 DEF RemoveTarget, At, UnpublishIsFinal, UnpublishLabels
  <2>2. Seen(v)' = "gone" /\ Seen(v) \in {"gone", "absent"}
    BY <1>3, <1>4, <2>1, SeenValues, SeenNext
  <2>3. Contract!Moves(v)
    BY <2>1, <2>2, MoveOf
  <2>4. Contract!Tells
    BY <2>1, <2>2, TellsOf
  <2> QED
    BY <1>1, <1>2, <2>1, <2>3, <2>4 DEF Contract!Works
<1>5. CASE ~(RemoveTarget(v) /\ ~Mounted(v))
  <2>1. done' = done
    BY <1>5 DEF Kubelet, TakesLock, CallStep, PublishAgain, Publish, Unpublish, Lock,
           UnpublishLock, SourcesReady, SourcesFail, AwaitServing, Save, DropRecord,
           RemoveTarget, kubeletVars
  <2>2. published' = published \/ (published' = published \cup {v} /\ Mounted(v))
    BY <1>5 DEF Kubelet, TakesLock, CallStep, PublishAgain, Publish, Unpublish, Lock,
           UnpublishLock, SourcesReady, SourcesFail, AwaitServing, Save, DropRecord,
           RemoveTarget, kubeletVars, IsMounted
  <2>3. Contract!Tells
    BY <1>3, <2>2, TellsOf
  <2> QED
    BY <1>1, <1>2, <2>1, <2>3 DEF Contract!Works
<1> QED
  BY <1>4, <1>5

\* The steps that mount and unmount.
LEMMA SharedKeeps ==
    ASSUME IInv, IInv', \A w \in Volumes : Tidy(w), NEW a \in Actors, NEW v \in Volumes,
           SharedStep(a, v)
    PROVE  Contract!Works
<1> USE DEF IInv
<1>1. \A w \in Volumes : Source(w) \in Unions
  BY VolumeAssumption DEF Source, Volumes
<1>2. /\ done' = done /\ deleted' = deleted
      /\ published' = published \/ (published' = published \cup {v} /\ Succeed(a, v))
  BY DEF SharedStep, Start, StartFails, Seal, SealFails, Bind, BindFails, Unmount, StopScope,
         Succeed, kubeletVars
<1>3. v \notin done
  <2>1. ~At(a, v, "idle")
    BY DEF SharedStep, Start, StartFails, Seal, SealFails, Bind, BindFails, Unmount,
           StopScope, At
  <2> QED
    BY <2>1 DEF NothingLeft, RepairIsRecorded, Actors
<1>4. ASSUME Contract!Moves(v),
             \A w \in Volumes \ {v} : stack'[w] = stack[w],
             \A w \in Volumes : \A k \in alive'[Source(w)] :
                 k \in alive[Source(w)] \/ ~Referenced(stack, Source(w), k),
             published' # published => Mounted(v)'
      PROVE  Contract!Works
  <2>1. \A w \in Volumes : Contract!Moves(w)
    BY <1>2, <1>4, SeenFrame
  <2>2. Contract!Tells
    BY <1>2, <1>4, TellsOf
  <2> QED
    BY <1>2, <2>1, <2>2 DEF Contract!Works
<1>5. ASSUME NEW kill, Pop(v, kill),
             ~Mounted(v) \/ Seen(v) \in {"unready", "broken"} \/ PodOf[v] \in deleted,
             published' = published
      PROVE  Contract!Works
  <2>1. ~Mounted(v)'
    BY <1>5, PopOnly DEF Tidy, TypeOK
  <2>2. Seen(v)' = "absent"
    BY <1>2, <1>3, <2>1, SeenNext
  <2>3. Contract!Moves(v)
    BY <1>3, <1>5, <2>2, MoveOf, SeenValues
  <2>4. /\ \A w \in Volumes \ {v} : stack'[w] = stack[w]
        /\ \A u \in Unions : alive'[u] \subseteq alive[u]
    BY <1>5, PopType DEF TypeOK
  <2> QED
    BY <1>1, <1>4, <1>5, <2>3, <2>4
<1>6. ASSUME stack' = stack, \A u \in Unions : alive'[u] \subseteq alive[u],
             published' = published
      PROVE  Contract!Works
  <2>1. Contract!Moves(v)
    BY <1>1, <1>2, <1>6, SeenFrame
  <2> QED
    BY <1>1, <1>4, <1>6, <2>1
<1>7. CASE v \in Unions /\ Start(a, v)
  <2>1. PICK k \in FreshPids(v) : /\ Push(v, [pid |-> k, sealed |-> FALSE])
                                  /\ alive' = [alive EXCEPT ![v] = @ \cup {k}]
    BY <1>7 DEF Start
  <2>2. ~Referenced(stack, v, k) /\ [pid |-> k, sealed |-> FALSE] \in Layer
    BY <2>1 DEF FreshPids, FreePid, Layer
  <2>3. ~Mounted(v)
    BY <1>7 DEF Start, At, Tidy, PublishesOnBare, StaysDetached, PublishLabels, Actors
  <2>4. Mounted(v)'
    BY <2>1, <2>2, <2>3, PushOnly DEF TypeOK
  <2>5. Contract!Moves(v)
    BY <1>3, <2>3, <2>4, MoveOf, SeenValues, SeenNext
  <2>6. /\ \A w \in Volumes \ {v} : stack'[w] = stack[w]
        /\ \A w \in Volumes : \A j \in alive'[Source(w)] :
               j \in alive[Source(w)] \/ ~Referenced(stack, Source(w), j)
    BY <1>1, <1>7, <2>1, <2>2 DEF Push, TypeOK
  <2> QED
    BY <1>4, <2>4, <2>5, <2>6
<1>8. CASE v \in Unions /\ Seal(a, v)
  <2>1. /\ Mounted(v) /\ Top(v).pid # 0 /\ Top(v).pid \in alive[Source(v)]
        /\ SealControl /\ ~Top(v).sealed
    BY <1>8 DEF Seal, Probe, At, Tidy, SealsUnsealed
  <2>2. Seen(v) = "unready"
    BY <2>1 DEF Seen
  <2>3. Len(stack[v]) \in DOMAIN stack[v] /\ stack[v] \in Seq(Layer) /\ stack'[v] \in Seq(Layer)
        /\ Len(stack[v]) \in Nat \ {0}
    BY <2>1, TopType DEF TypeOK
  <2>4. /\ stack'[v] = [stack[v] EXCEPT ![Len(stack[v])] = [pid |-> Top(v).pid, sealed |-> TRUE]]
        /\ \A w \in Volumes \ {v} : stack'[w] = stack[w]
        /\ alive' = alive
    BY <1>8 DEF Seal, TypeOK
  <2>5. Len(stack'[v]) = Len(stack[v])
    BY <2>3, <2>4
  <2>6. Top(v)' = [pid |-> Top(v).pid, sealed |-> TRUE]
    BY <2>3, <2>4, <2>5 DEF Top
  <2>7. Mounted(v)' /\ Source(v)' = Source(v)
    BY <2>3, <2>5 DEF Mounted, Source
  <2>8. Seen(v)' = "serving"
    BY <2>1, <2>4, <2>6, <2>7 DEF Seen
  <2>9. Contract!Moves(v)
    BY <2>2, <2>8, MoveOf
  <2> QED
    BY <1>4, <2>4, <2>7, <2>9
<1>9. CASE v \in Views /\ Bind(a, v)
  <2>1. PICK l \in Layer : Push(v, l)
    <3>1. SharedFrom[v] \in Volumes
      BY <1>9, VolumeAssumption DEF Volumes
    <3>2. Mounted(SharedFrom[v]) => Top(SharedFrom[v]) \in Layer
      BY <3>1, TopType DEF TypeOK
    <3>3. [pid |-> 0, sealed |-> FALSE] \in Layer
      BY DEF Layer
    <3> QED
      BY <1>9, <3>2, <3>3 DEF Bind
  <2>2. ~Mounted(v)
    BY <1>9 DEF Bind, At, Tidy, PublishesOnBare, StaysDetached, PublishLabels, Actors
  <2>3. Mounted(v)'
    BY <2>1, <2>2, PushOnly DEF TypeOK
  <2>4. Contract!Moves(v)
    BY <1>3, <2>2, <2>3, MoveOf, SeenValues, SeenNext
  <2>5. (\A w \in Volumes \ {v} : stack'[w] = stack[w]) /\ alive' = alive
    BY <1>9, <2>1, PushType DEF Bind, TypeOK
  <2> QED
    BY <1>4, <2>3, <2>4, <2>5
<1>10. CASE v \in Unions /\ SealFails(a, v)
  <2>1. Mounted(v) /\ SealControl /\ ~Top(v).sealed /\ published' = published
    BY <1>10 DEF SealFails, Probe, At, Tidy, SealsUnsealed, kubeletVars
  <2>2. Seen(v) \in {"unready", "broken"}
    BY <2>1 DEF Seen
  <2>3. CASE \E kill : Pop(v, kill)
    BY <1>5, <2>1, <2>2, <2>3
  <2>4. CASE stack' = stack /\ \A u \in Unions : alive'[u] \subseteq alive[u]
    BY <1>6, <2>1, <2>4
  <2>5. CASE KilledInPlace(v)
    <3>1. stack' = stack /\ \A u \in Unions : alive'[u] \subseteq alive[u]
      BY <1>10, <2>5 DEF KilledInPlace, TypeOK
    <3> QED
      BY <2>4, <3>1
  <2> QED
    BY <1>10, <2>3, <2>4, <2>5 DEF SealFails
<1>11. CASE (v \in Unions /\ StartFails(a, v)) \/ (v \in Views /\ BindFails(a, v))
  BY <1>6, <1>11 DEF StartFails, BindFails, hostVars, kubeletVars
<1>12. CASE Unmount(a, v)
  <2>1. At(a, v, "unmount") /\ published' = published
    BY <1>12 DEF Unmount, kubeletVars
  <2>2. Seen(v) \in {"unready", "broken"} \/ PodOf[v] \in deleted
    <3>1. CASE a = "pass"
      BY <2>1, <3>1 DEF DetachesDead, Seen
    <3>2. CASE a = "call"
      BY <2>1, <3>2 DEF UnpublishIsFinal, UnpublishLabels, At
    <3> QED
      BY <3>1, <3>2 DEF Actors
  <2>3. Pop(v, {}) \/ UNCHANGED <<stack, alive>>
    BY <1>12 DEF Unmount
  <2> QED
    BY <1>5, <1>6, <2>1, <2>2, <2>3
<1>13. CASE StopScope(a, v)
  <2>1. /\ stack' = stack /\ published' = published
        /\ \A u \in Unions : alive'[u] \subseteq alive[u]
    BY <1>13 DEF StopScope, TypeOK, kubeletVars
  <2> QED
    BY <1>6, <2>1
<1> QED
  BY <1>7, <1>8, <1>9, <1>10, <1>11, <1>12, <1>13 DEF SharedStep

\* The pass on its way to a repair, and what happens around the driver.
LEMMA RestKeeps ==
    ASSUME IInv, IInv', ~Disturbed',
           PassBegins \/ (\E v \in Volumes : Reconcile(v)) \/ Environment
    PROVE  Contract!Works \/ Contract!Reboots
<1> USE DEF IInv
<1>1. ~DriverRestarts /\ \A v \in Volumes : ~KubeletForgets(v)
  BY DEF DriverRestarts, KubeletForgets, Fault, Disturbed, Disturbing
<1>2. \A w \in Volumes : Source(w) \in Unions
  BY VolumeAssumption DEF Source, Volumes
<1>3. CASE Environment /\ NodeReboots
  <2>1. /\ \A w \in Volumes : stack[w]' = <<>>
        /\ published' = {} /\ deleted' = deleted /\ done' = done
    BY <1>3 DEF NodeReboots
  <2>2. ASSUME NEW w \in Volumes
        PROVE  Seen(w)' = IF Seen(w) = "gone" THEN "gone" ELSE "absent"
    <3>1. ~Mounted(w)'
      BY <2>1 DEF Mounted
    <3>2. Seen(w) = "gone" <=> w \in done
      BY SeenValues DEF NothingLeft, MountHasDir
    <3> QED
      BY <2>1, <3>1, <3>2, SeenNext
  <2> QED
    BY <2>1, <2>2 DEF Contract!Reboots
<1>4. CASE ~(Environment /\ NodeReboots)
  <2>1. /\ stack' = stack /\ done' = done /\ published' = published
        /\ deleted \subseteq deleted'
    BY <1>1, <1>4 DEF PassBegins, Reconcile, ReconcileLeaves, ReconcileForgets,
       ReconcileRepairs, Environment, DeletePod, KubeletRemovesTarget, DaemonCrashes,
       DaemonHangs, DaemonRecovers, kubeletVars, hostVars
  <2>2. \A u \in Unions : alive'[u] \subseteq alive[u]
    BY <1>1, <1>4 DEF PassBegins, Reconcile, ReconcileLeaves, ReconcileForgets,
       ReconcileRepairs, Environment, DeletePod, KubeletRemovesTarget, DaemonCrashes,
       DaemonHangs, DaemonRecovers, hostVars, TypeOK
  <2>3. \A w \in Volumes : Contract!Moves(w)
    BY <1>2, <2>1, <2>2, SeenFrame
  <2>4. Contract!Tells
    BY <2>1, TellsOf
  <2> QED
    BY <2>1, <2>3, <2>4 DEF Contract!Works
<1> QED
  BY <1>3, <1>4

\* Every step of the backend is a step of the contract, or none that it can see.
LEMMA StepKeeps ==
    ASSUME IInv, IInv', UInv, [Next]_vars
    PROVE  [Contract!Next]_(Contract!vars)
<1>1. CASE Disturbed'
  BY <1>1 DEF Contract!Next
<1>2. CASE ~Disturbed' /\ Next
  <2>1. ~Disturbed
    BY <1>2, PastGrows DEF IInv
  <2>2. \A w \in Volumes : Tidy(w)
    BY <2>1 DEF UInv
  <2>3. Contract!Works \/ Contract!Reboots
    BY <1>2, <2>2, CallKeeps, SharedKeeps, RestKeeps DEF Next
  <2> QED
    BY <2>1, <2>3 DEF Contract!Next
<1>3. CASE UNCHANGED vars
  <2>1. UNCHANGED <<stack, done, published, deleted, past, alive>>
    BY <1>3 DEF vars, kubeletVars, hostVars, faultVars
  <2>2. \A w \in Volumes : Seen(w)' = Seen(w)
    BY <2>1 DEF Seen, Mounted, Top, Source
  <2> QED
    BY <2>1, <2>2 DEF Contract!vars, Disturbed
<1> QED
  BY <1>1, <1>2, <1>3

\* MergerfsBackend implements UnionVolume: however handlers, passes, crashes, failing calls
\* and reboots interleave, a container sees the union it was promised, broken, or none.
THEOREM Implements == Spec => KeepsContract
<1>1. Init => Contract!Init
  <2> SUFFICES ASSUME Init PROVE Contract!Init
    OBVIOUS
  <2>1. \A v \in Volumes : Seen(v) = "absent"
    BY DEF Init, Seen, Mounted
  <2> QED
    BY <2>1 DEF Init, Contract!Init, Disturbed
<1>2. IInv /\ UInv /\ (IInv /\ UInv)' /\ [Next]_vars => [Contract!Next]_(Contract!vars)
  BY StepKeeps
<1> QED
  BY <1>1, <1>2, StaysTidy, PTL DEF Spec, KeepsContract, Contract!Spec

=============================================================================
