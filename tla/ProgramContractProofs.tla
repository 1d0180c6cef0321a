------------------------ MODULE ProgramContractProofs ------------------------
(***************************************************************************)
(* What the overlay backend owes to kubelet's habit of waiting for an      *)
(* answer, for every number of volumes and calls: as long as no call is    *)
(* outlived, at most one call works on a volume, a target has one mount,   *)
(* no two overlay mounts share an upper directory, read-only stays so, and *)
(* the contract of UnionVolume is kept.                                    *)
(***************************************************************************)
EXTENDS ProgramProofs

-----------------------------------------------------------------------------
(***************************************************************************)
(* The invariant.                                                          *)
(***************************************************************************)

\* Labels before anything is mounted at the target, and those of a union's own mount.
Publishing == {"wait", "workspace", "upper", "work", "create", "attach", "bind"}
Making     == {"workspace", "upper", "work", "create", "attach"}

\* A call under way is the one kubelet waits for; it publishes a target with nothing mounted,
\* or works on a pod that is being deleted.
LocalAt(v, c) ==
    /\ ~At(v, c, "idle") => awaited[v] = c /\ v \notin done
    /\ call[v][c].at \in Publishing => stack[v] = <<>> /\ v \notin published
    /\ At(v, c, "remount") => v \notin published
    /\ call[v][c].at \in Making => v \in Unions
    /\ call[v][c].at \in {"unmount", "remove"} => deleted

Local(v) ==
    /\ \A c \in Calls : LocalAt(v, c)
    /\ Len(stack[v]) <= 1
    /\ v \in done => deleted /\ stack[v] = <<>>

\* The overlay mount a container sees at a target, if any.
Id(v) == IF Mounted(v) THEN Top(v).id ELSE 0

\* While a union is published nothing shows an overlay mount of it; later all its views show
\* the same one, and until the pod is deleted that is mounted at the union's own target.
Family(u) ==
    /\ \A c \in Calls : call[u][c].at \in Publishing \cup {"remount"} =>
          \A w \in Volumes : Source(w) = u => Id(w) = 0
    /\ \A w \in Volumes : Source(w) = u /\ Id(w) # 0 => deleted \/ Mounted(u)
    /\ \A w, x \in Volumes : Source(w) = u /\ Source(x) = u /\ Id(w) # 0 /\ Id(x) # 0
                                => Id(w) = Id(x)

\* What is asked for read-only is, but between the bind and its remount.
Kept(v) ==
    Mounted(v) /\ BindsReadOnly(v) /\ (\A c \in Calls : ~At(v, c, "remount")) => Top(v).ro

Orderly == (\A v \in Volumes : Local(v)) /\ (\A u \in Unions : Family(u))

Calm ==
    /\ ~Outlived => Orderly
    /\ past \subseteq {"forget"} => \A v \in Volumes : Kept(v)

-----------------------------------------------------------------------------
(***************************************************************************)
(* The shapes of a step, by what it does to the one volume it works on.    *)
(***************************************************************************)

\* Nothing happens to another call or another volume.
Aside(v, c) ==
    /\ Others(v, c)
    /\ \A w \in Volumes \ {v} : /\ stack'[w] = stack[w] /\ awaited'[w] = awaited[w]
                                /\ w \in published' <=> w \in published
                                /\ w \in done' <=> w \in done
    /\ UNCHANGED <<decl, deleted>>
    /\ past \subseteq past'

\* A publish goes on with nothing mounted.
Advances(v, c) ==
    /\ call[v][c].at \in Publishing /\ call'[v][c].at \in Publishing
    /\ call'[v][c].at \in Making => v \in Unions
    /\ UNCHANGED <<stack, awaited, published, done>>

\* A call ends, and the target is as it was.
Stops(v, c) ==
    /\ call'[v][c].at = "idle"
    /\ ~At(v, c, "remount") \/ ~Mounted(v)
    /\ UNCHANGED <<stack, published, done>>

\* A publish mounts something, and is done unless a bind has yet to be made read-only.
MountsOne(v, c, l) ==
    /\ call[v][c].at \in Publishing /\ Push(v, l)
    /\ v \in Views => l.id = 0 \/ (Mounted(SharedFrom[v]) /\ l.id = Top(SharedFrom[v]).id)
    /\ UNCHANGED done
    /\ \/ /\ call'[v][c].at = "idle" /\ published' \subseteq published \cup {v}
          /\ published \subseteq published'
          /\ BindsReadOnly(v) => l.ro
       \/ /\ call'[v][c].at = "remount" /\ UNCHANGED <<awaited, published>>
          /\ v \in Unions => l.id = 0

\* The bind is made read-only, which ends the publish.
Seals(v, c) ==
    /\ At(v, c, "remount") /\ Mounted(v) /\ call'[v][c].at = "idle"
    /\ stack' = [stack EXCEPT ![v][Len(stack[v])].ro = TRUE]
    /\ published' \subseteq published \cup {v} /\ published \subseteq published'
    /\ UNCHANGED done

\* The bind is taken back.
Undoes(v, c) ==
    /\ At(v, c, "remount") /\ call'[v][c].at = "idle" /\ Pop(v)
    /\ UNCHANGED <<published, done>>

\* An unpublish unmounts.
Unmounts(v, c) ==
    /\ At(v, c, "unmount") /\ call'[v][c].at = "remove" /\ Pop(v)
    /\ UNCHANGED <<awaited, published, done>>

\* An unpublish ends with the target gone.
Removes(v, c) ==
    /\ At(v, c, "remove") /\ call'[v][c].at = "idle" /\ ~Mounted(v)
    /\ UNCHANGED stack
    /\ done' = done \cup {v} /\ published' = published \ {v}

Shaped(v, c) ==
    \/ Advances(v, c) \/ Stops(v, c) \/ (\E l \in Layer : MountsOne(v, c, l))
    \/ Seals(v, c) \/ Undoes(v, c) \/ Unmounts(v, c) \/ Removes(v, c)

\* Faults are remembered.
LEMMA PastGrows ==
    ASSUME NEW kind, Fault(kind) \/ NoFault
    PROVE  past \subseteq past'
BY DEF Fault, NoFault, faultVars

\* A call that ends leaves the others alone.
LEMMA EndAside ==
    ASSUME OverlayTypeOK, NEW v \in Volumes, NEW c \in Calls, Succeed(v, c) \/ Fail(v, c)
    PROVE  /\ Others(v, c) /\ call'[v][c].at = "idle"
           /\ \A w \in Volumes \ {v} : awaited'[w] = awaited[w]
           /\ published' \subseteq published \cup {v} /\ published \subseteq published'
           /\ Fail(v, c) => UNCHANGED published
<1>1. Others(v, c) /\ call'[v][c].at = "idle"
  BY EndType DEF NoCall
<1>2. \A w \in Volumes \ {v} : awaited'[w] = awaited[w]
  BY DEF Succeed, Fail, Answers, OverlayTypeOK
<1>3. published' \subseteq published \cup {v} /\ published \subseteq published'
  BY DEF Succeed, Fail
<1> QED
  BY <1>1, <1>2, <1>3 DEF Fail

\* Every step of a call has one of the shapes, if kubelet waits for the call.
LEMMA StepShapes ==
    ASSUME OverlayTypeOK, NEW v \in Volumes, NEW c \in Calls, CallStep(v, c), Local(v)
    PROVE  Aside(v, c) /\ ~At(v, c, "idle") /\ Shaped(v, c)
<1> USE DEF givenVars, kubeletVars, hostVars, faultVars
<1>t. /\ call \in [Volumes -> [Calls -> Call]] /\ call[v][c] \in Call
      /\ stack \in [Volumes -> Seq(Layer)]
      /\ LocalAt(v, c)
  BY DEF OverlayTypeOK, Local
<1>i. ~At(v, c, "idle")
  BY DEF CallStep, At, SourcesReady, SourcesFail, OpenWorkspace, OpenUpper, OpenWork, Create,
         Attach, MountClassic, Bind, Remount, Unmount, RemoveTarget
<1>e. Succeed(v, c) \/ Fail(v, c) =>
         /\ Others(v, c) /\ call'[v][c].at = "idle"
         /\ \A w \in Volumes \ {v} : awaited'[w] = awaited[w]
         /\ published' \subseteq published \cup {v} /\ published \subseteq published'
         /\ Fail(v, c) => UNCHANGED published
  BY EndAside
<1>n. NoFault => past \subseteq past'
  BY DEF NoFault
<1>f. \A kind : Fault(kind) => past \subseteq past'
  BY PastGrows
<1>s. ASSUME Fail(v, c), UNCHANGED <<stack, done, decl, deleted>>, past \subseteq past',
             ~At(v, c, "remount") \/ ~Mounted(v)
      PROVE  Aside(v, c) /\ Shaped(v, c)
  BY <1>e, <1>s DEF Aside, Shaped, Stops
<1>a. ASSUME NEW r \in Call, call' = [call EXCEPT ![v][c] = r], r.at \in Publishing,
             r.at \in Making => v \in Unions, call[v][c].at \in Publishing,
             UNCHANGED <<decl, deleted, published, done, awaited, stack, past>>
      PROVE  Aside(v, c) /\ Shaped(v, c)
  <2>1. call'[v][c] = r /\ Others(v, c)
    BY <1>t, <1>a, ReplaceType
  <2> QED
    BY <1>a, <2>1 DEF Aside, Shaped, Advances
<1>m. ASSUME NEW l \in Layer, Push(v, l), Succeed(v, c), call[v][c].at \in Publishing,
             v \in Views => l.id = 0 \/ (Mounted(SharedFrom[v]) /\ l.id = Top(SharedFrom[v]).id),
             BindsReadOnly(v) => l.ro, UNCHANGED <<decl, deleted, done, past>>
      PROVE  Aside(v, c) /\ Shaped(v, c)
  <2>1. \A w \in Volumes \ {v} : stack'[w] = stack[w]
    BY <1>m, <1>t, PushType
  <2>2. MountsOne(v, c, l)
    BY <1>m, <1>e DEF MountsOne
  <2> QED
    BY <1>m, <1>e, <2>1, <2>2 DEF Aside, Shaped
<1>1. CASE SourcesReady(v, c)
  <2> DEFINE r == [call[v][c] EXCEPT !.at = FirstStep(v)]
  <2>1. FirstStep(v) \in Labels /\ FirstStep(v) \in Publishing
        /\ (FirstStep(v) \in Making => v \in Unions)
    BY DEF FirstStep, Labels, Publishing, Making, Volumes
  <2>2. r \in Call /\ r.at = FirstStep(v)
    BY <1>t, <2>1 DEF Call
  <2>3. call' = [call EXCEPT ![v][c] = r]
    BY <1>1, <1>t DEF SourcesReady, Goto
  <2> HIDE DEF r
  <2> QED
    BY <1>1, <1>a, <1>i, <2>1, <2>2, <2>3 DEF SourcesReady, At, Publishing
<1>2. CASE SourcesFail(v, c)
  BY <1>2, <1>s, <1>i, <1>n, <1>f DEF SourcesFail, At
<1>3. CASE OpenWorkspace(v, c)
  <2>1. CASE Fail(v, c) /\ UNCHANGED <<entry, made>> /\ past \subseteq past'
    BY <1>3, <1>s, <1>i, <2>1 DEF OpenWorkspace, At
  <2>2. CASE \E g \in Gens : /\ call' = [call EXCEPT ![v][c].at = "upper", ![v][c].ws = g]
                             /\ UNCHANGED <<awaited, published, faultVars>>
    <3>1. PICK g \in Gens : /\ call' = [call EXCEPT ![v][c].at = "upper", ![v][c].ws = g]
                            /\ UNCHANGED <<awaited, published, faultVars>>
      BY <2>2
    <3> DEFINE r == [call[v][c] EXCEPT !.at = "upper", !.ws = g]
    <3>2. call' = [call EXCEPT ![v][c] = r] /\ r \in Call /\ r.at = "upper"
      BY <1>t, <3>1 DEF Call, Labels
    <3> HIDE DEF r
    <3>3. v \in Unions
      BY <1>3, <1>t DEF OpenWorkspace, At, LocalAt, Making
    <3> QED
      BY <1>3, <1>a, <1>i, <3>1, <3>2, <3>3 DEF OpenWorkspace, At, Publishing
  <2> QED
    BY <1>3, <1>n, <1>f, <2>1, <2>2 DEF OpenWorkspace
<1>4. CASE OpenUpper(v, c)
  <2>1. CASE Fail(v, c) /\ past \subseteq past'
    BY <1>4, <1>s, <1>i, <2>1 DEF OpenUpper, At
  <2>2. CASE UNCHANGED <<awaited, published, faultVars>>
               /\ call' = [call EXCEPT ![v][c].at = "work", ![v][c].upper = call[v][c].ws]
    <3> DEFINE r == [call[v][c] EXCEPT !.at = "work", !.upper = call[v][c].ws]
    <3>2. call' = [call EXCEPT ![v][c] = r] /\ r \in Call /\ r.at = "work"
      BY <1>t, <2>2 DEF Call, Labels
    <3> HIDE DEF r
    <3>3. v \in Unions
      BY <1>4, <1>t DEF OpenUpper, At, LocalAt, Making
    <3> QED
      BY <1>4, <1>a, <1>i, <2>2, <3>2, <3>3 DEF OpenUpper, At, Publishing
  <2> QED
    BY <1>4, <1>f, <2>1, <2>2 DEF OpenUpper
<1>5. CASE OpenWork(v, c)
  <2>1. CASE Fail(v, c) /\ past \subseteq past'
    BY <1>5, <1>s, <1>i, <2>1 DEF OpenWork, At
  <2>2. CASE /\ UNCHANGED <<awaited, published, faultVars>>
             /\ call' = [call EXCEPT ![v][c].at = AfterWork(Source(v)), ![v][c].work = call[v][c].ws]
    <3> DEFINE r == [call[v][c] EXCEPT !.at = AfterWork(Source(v)), !.work = call[v][c].ws]
    <3>1. AfterWork(Source(v)) \in Labels /\ AfterWork(Source(v)) \in Publishing
      BY DEF AfterWork, Labels, Publishing
    <3>2. call' = [call EXCEPT ![v][c] = r] /\ r \in Call /\ r.at \in Publishing
      BY <1>t, <2>2, <3>1 DEF Call
    <3> HIDE DEF r
    <3>3. v \in Unions
      BY <1>5, <1>t DEF OpenWork, At, LocalAt, Making
    <3> QED
      BY <1>5, <1>a, <1>i, <2>2, <3>2, <3>3 DEF OpenWork, At, Publishing
  <2> QED
    BY <1>5, <1>f, <2>1, <2>2 DEF OpenWork
<1>6. CASE Create(v, c)
  <2>1. CASE Fail(v, c) /\ past \subseteq past'
    BY <1>6, <1>s, <1>i, <2>1 DEF Create, At
  <2>2. CASE \E k \in Mounts : /\ call' = [call EXCEPT ![v][c].at = "attach", ![v][c].id = k]
                               /\ UNCHANGED <<awaited, published, faultVars>>
    <3>1. PICK k \in Mounts : /\ call' = [call EXCEPT ![v][c].at = "attach", ![v][c].id = k]
                              /\ UNCHANGED <<awaited, published, faultVars>>
      BY <2>2
    <3> DEFINE r == [call[v][c] EXCEPT !.at = "attach", !.id = k]
    <3>2. call' = [call EXCEPT ![v][c] = r] /\ r \in Call /\ r.at = "attach"
      BY <1>t, <3>1 DEF Call, Labels
    <3> HIDE DEF r
    <3>3. v \in Unions
      BY <1>6, <1>t DEF Create, At, LocalAt, Making
    <3> QED
      BY <1>6, <1>a, <1>i, <3>1, <3>2, <3>3 DEF Create, At, Publishing
  <2> QED
    BY <1>6, <1>n, <1>f, <2>1, <2>2 DEF Create, FreshIds
<1>7. CASE Attach(v, c) \/ MountClassic(v, c)
  <2>1. CASE Fail(v, c) /\ UNCHANGED stack /\ past \subseteq past'
    BY <1>7, <1>s, <1>i, <2>1 DEF Attach, MountClassic, At
  <2>2. CASE \E k \in Mounts \cup {0} : Push(v, OverlayLayer(v, c, k)) /\ Succeed(v, c) /\ NoFault
    <3>1. PICK k \in Mounts \cup {0} :
               Push(v, OverlayLayer(v, c, k)) /\ Succeed(v, c) /\ NoFault
      BY <2>2
    <3>2. OverlayLayer(v, c, k) \in Layer
      BY OverlayLayerType
    <3>3. v \in Unions /\ v \notin Views
      BY <1>7, <1>t, OverlayAssumption DEF Attach, MountClassic, At, LocalAt, Making
    <3>4. BindsReadOnly(v) => OverlayLayer(v, c, k).ro
      BY <3>3 DEF BindsReadOnly, OverlayLayer, Source
    <3> QED
      BY <1>7, <1>m, <1>i, <3>1, <3>2, <3>3, <3>4
         DEF Attach, MountClassic, At, Publishing, NoFault
  <2> QED
    BY <1>7, <1>n, <1>f, <1>t, <2>1, <2>2, CallFields DEF Attach, MountClassic, FreshIds
<1>8. CASE Bind(v, c)
  <2>1. CASE Fail(v, c) /\ UNCHANGED stack /\ past \subseteq past'
    BY <1>8, <1>s, <1>i, <2>1 DEF Bind, At
  <2> DEFINE l == BindSource(v, c)
  <2>2. /\ l \in Layer
        /\ v \in Views => l.id = 0 \/ (Mounted(SharedFrom[v]) /\ l.id = Top(SharedFrom[v]).id)
        /\ v \in Unions => l.id = 0
    <3>1. l \in Layer
      BY BindSourceType
    <3>2. v \in Unions => l.id = 0
      BY DEF BindSource
    <3>3. v \in Views => l.id = 0 \/ (Mounted(SharedFrom[v]) /\ l.id = Top(SharedFrom[v]).id)
      BY OverlayAssumption DEF BindSource
    <3> QED
      BY <3>1, <3>2, <3>3
  <2> HIDE DEF l
  <2>3. CASE Push(v, l) /\ Succeed(v, c) /\ NoFault /\ ~BindsReadOnly(v)
    BY <1>8, <1>m, <1>i, <2>2, <2>3 DEF Bind, At, Publishing, NoFault
  <2>4. CASE /\ Push(v, l) /\ NoFault
             /\ Goto(v, c, "remount") /\ UNCHANGED <<awaited, published>>
    <3>1. call'[v][c].at = "remount" /\ Others(v, c)
      BY <1>t, <2>4, GotoType DEF Labels
    <3>2. \A w \in Volumes \ {v} : stack'[w] = stack[w]
      BY <1>t, <2>2, <2>4, PushType
    <3>3. MountsOne(v, c, l)
      BY <1>8, <2>2, <2>4, <3>1 DEF MountsOne, Bind, At, Publishing
    <3>4. Aside(v, c)
      BY <1>8, <2>4, <3>1, <3>2 DEF Aside, Bind, NoFault
    <3> QED
      BY <1>i, <2>2, <3>3, <3>4 DEF Shaped
  <2> QED
    BY <1>8, <1>n, <1>f, <1>i, <2>1, <2>3, <2>4 DEF Bind, l
<1>9. CASE Remount(v, c)
  <2>1. CASE /\ Mounted(v) /\ Succeed(v, c) /\ NoFault
             /\ stack' = [stack EXCEPT ![v][Len(stack[v])].ro = TRUE]
    <3>1. \A w \in Volumes \ {v} : stack'[w] = stack[w]
      BY <1>t, <2>1, SealType
    <3>2. Seals(v, c)
      BY <1>9, <1>e, <2>1 DEF Remount, Seals
    <3> QED
      BY <1>9, <1>e, <1>i, <1>n, <2>1, <3>1, <3>2 DEF Remount, Aside, Shaped
  <2>2. CASE ~Mounted(v) /\ Fail(v, c) /\ UNCHANGED stack /\ NoFault
    BY <1>9, <1>s, <1>i, <1>n, <2>2 DEF Remount
  <2>3. CASE Fault("remount") /\ Fail(v, c) /\ Pop(v)
    <3>1. \A w \in Volumes \ {v} : stack'[w] = stack[w]
      BY <1>t, <2>3, PopType
    <3>2. Undoes(v, c)
      BY <1>9, <1>e, <2>3 DEF Remount, Undoes
    <3> QED
      BY <1>9, <1>e, <1>i, <1>f, <2>3, <3>1, <3>2 DEF Remount, Aside, Shaped
  <2> QED
    BY <1>9, <2>1, <2>2, <2>3 DEF Remount
<1>10. CASE Unmount(v, c)
  <2>1. CASE Fault("umount") /\ Fail(v, c) /\ UNCHANGED stack
    BY <1>10, <1>s, <1>i, <1>f, <2>1 DEF Unmount, At
  <2>2. CASE Pop(v) /\ Goto(v, c, "remove") /\ UNCHANGED <<awaited, published, faultVars>>
    <3>1. call'[v][c].at = "remove" /\ Others(v, c)
      BY <1>t, <2>2, GotoType DEF Labels
    <3>2. \A w \in Volumes \ {v} : stack'[w] = stack[w]
      BY <1>t, <2>2, PopType
    <3>3. Unmounts(v, c)
      BY <1>10, <2>2, <3>1 DEF Unmounts, Unmount
    <3>4. Aside(v, c)
      BY <1>10, <2>2, <3>1, <3>2 DEF Aside, Unmount
    <3> QED
      BY <1>i, <3>3, <3>4 DEF Shaped
  <2> QED
    BY <1>10, <2>1, <2>2 DEF Unmount
<1>11. CASE RemoveTarget(v, c)
  <2>1. call'[v][c].at = "idle" /\ Others(v, c)
    BY <1>11, <1>t, LeaveType DEF RemoveTarget, NoCall
  <2>2. \A w \in Volumes \ {v} : awaited'[w] = awaited[w]
    BY <1>11 DEF RemoveTarget, Answers, OverlayTypeOK
  <2>3. Removes(v, c) \/ Stops(v, c)
    BY <1>11, <2>1 DEF RemoveTarget, Removes, Stops, At
  <2>4. Aside(v, c)
    BY <1>11, <2>1, <2>2 DEF RemoveTarget, Aside
  <2> QED
    BY <1>i, <2>3, <2>4 DEF Shaped
<1> QED
  BY <1>1, <1>2, <1>3, <1>4, <1>5, <1>6, <1>7, <1>8, <1>9, <1>10, <1>11 DEF CallStep

-----------------------------------------------------------------------------
(***************************************************************************)
(* Every shape keeps the invariant.                                        *)
(***************************************************************************)

\* Kubelet waits for one call of a volume, so that no other is under way.
LEMMA OnlyCall ==
    ASSUME NEW v \in Volumes, NEW c \in Calls, Local(v), ~At(v, c, "idle")
    PROVE  /\ awaited[v] = c /\ v \notin done
           /\ \A d \in Calls \ {c} : At(v, d, "idle")
BY DEF Local, LocalAt

\* A target has at most one mount: with the next it has one, and without it none.
LEMMA PopEmpties ==
    ASSUME OverlayTypeOK, NEW v \in Volumes, Local(v), Pop(v)
    PROVE  stack'[v] = <<>>
<1>1. /\ stack[v] \in Seq(Layer) /\ Len(stack[v]) <= 1
      /\ stack'[v] = IF stack[v] = <<>> THEN <<>> ELSE SubSeq(stack[v], 1, Len(stack[v]) - 1)
  BY PopType DEF OverlayTypeOK, Local
<1>2. CASE stack[v] # <<>>
  <2>1. Len(stack[v]) \in Nat \ {0}
    BY <1>2, TopType DEF OverlayTypeOK, Mounted
  <2> QED
    BY <1>1, <1>2, <2>1
<1> QED
  BY <1>1, <1>2

\* Mounting on a target that has nothing mounted.
LEMMA PushFills ==
    ASSUME OverlayTypeOK, NEW v \in Volumes, NEW c \in Calls, NEW l \in Layer, Local(v),
           call[v][c].at \in Publishing, Push(v, l)
    PROVE  Len(stack'[v]) = 1 /\ stack'[v] # <<>> /\ stack'[v][Len(stack'[v])] = l
<1>1. stack[v] = <<>> /\ stack'[v] = Append(stack[v], l)
  BY PushType DEF OverlayTypeOK, Local, LocalAt
<1>2. stack'[v] = <<l>>
  BY <1>1
<1> QED
  BY <1>2

\* The other volumes are as orderly as before.
LEMMA LocalFrame ==
    ASSUME NEW v \in Volumes, NEW c \in Calls, Aside(v, c), NEW w \in Volumes, w # v, Local(w)
    PROVE  Local(w)'
<1>1. \A d \in Calls : call'[w][d] = call[w][d]
  BY DEF Aside, Others
<1>2. /\ stack'[w] = stack[w] /\ awaited'[w] = awaited[w] /\ deleted' = deleted
      /\ w \in published' <=> w \in published
      /\ w \in done' <=> w \in done
  BY DEF Aside
<1>3. \A d \in Calls : LocalAt(w, d)'
  BY <1>1, <1>2 DEF Local, LocalAt, At
<1> QED
  BY <1>2, <1>3 DEF Local

\* And so is the volume the step works on.
LEMMA LocalStep ==
    ASSUME OverlayTypeOK, NEW v \in Volumes, NEW c \in Calls, Aside(v, c), Shaped(v, c),
           Local(v), ~At(v, c, "idle")
    PROVE  Local(v)'
<1>o. /\ awaited[v] = c /\ v \notin done
      /\ \A d \in Calls \ {c} : call'[v][d].at = "idle"
  BY OnlyCall DEF Aside, Others, At
<1>l. LocalAt(v, c) /\ Len(stack[v]) <= 1 /\ deleted' = deleted
  BY DEF Local, Aside
<1>z. Len(<<>>) = 0
  OBVIOUS
<1>d. ASSUME LocalAt(v, c)', Len(stack'[v]) <= 1, v \in done' => deleted' /\ stack'[v] = <<>>
      PROVE  Local(v)'
  <2>1. \A d \in Calls \ {c} : LocalAt(v, d)'
    BY <1>o DEF LocalAt, At, Publishing, Making
  <2> QED
    BY <1>d, <2>1 DEF Local
<1>1. CASE Advances(v, c)
  <2>1. LocalAt(v, c)'
    BY <1>1, <1>o, <1>l DEF Advances, LocalAt, At, Publishing
  <2> QED
    BY <1>1, <1>o, <1>l, <1>d, <2>1 DEF Advances
<1>2. CASE call'[v][c].at = "idle" /\ UNCHANGED done /\ Len(stack'[v]) <= 1
  <2>1. LocalAt(v, c)'
    BY <1>2 DEF LocalAt, At, Publishing, Making
  <2> QED
    BY <1>2, <1>o, <1>d, <2>1
<1>3. CASE \E l \in Layer : MountsOne(v, c, l)
  <2> PICK l \in Layer : MountsOne(v, c, l)
    BY <1>3
  <2>1. Len(stack'[v]) = 1
    BY PushFills DEF MountsOne
  <2>2. CASE call'[v][c].at = "idle"
    BY <1>2, <2>1, <2>2 DEF MountsOne
  <2>3. CASE call'[v][c].at = "remount" /\ UNCHANGED <<awaited, published>>
    <3>1. LocalAt(v, c)'
      BY <1>o, <1>l, <2>3 DEF MountsOne, LocalAt, At, Publishing, Making
    <3> QED
      BY <1>o, <1>d, <2>1, <3>1 DEF MountsOne
  <2> QED
    BY <2>2, <2>3 DEF MountsOne
<1>4. CASE Stops(v, c)
  BY <1>2, <1>4, <1>l DEF Stops
<1>5. CASE Seals(v, c)
  <2>1. Len(stack'[v]) = Len(stack[v])
    BY <1>5, SealType DEF Seals, OverlayTypeOK
  <2> QED
    BY <1>2, <1>5, <1>l, <2>1 DEF Seals
<1>6. CASE Undoes(v, c)
  BY <1>2, <1>6, <1>z, PopEmpties DEF Undoes
<1>7. CASE Unmounts(v, c)
  <2>1. LocalAt(v, c)'
    BY <1>7, <1>o, <1>l DEF Unmounts, LocalAt, At, Publishing, Making
  <2> QED
    BY <1>7, <1>o, <1>d, <1>z, <2>1, PopEmpties DEF Unmounts
<1>8. CASE Removes(v, c)
  <2>1. LocalAt(v, c)'
    BY <1>8 DEF Removes, LocalAt, At, Publishing, Making
  <2>2. deleted' /\ stack'[v] = <<>>
    BY <1>8, <1>l DEF Removes, LocalAt, Mounted, At
  <2> QED
    BY <1>d, <1>z, <2>1, <2>2
<1> QED
  BY <1>1, <1>3, <1>4, <1>5, <1>6, <1>7, <1>8 DEF Shaped

\* What a target shows depends on its mounts alone.
LEMMA IdFrame ==
    ASSUME NEW w \in Volumes, stack'[w] = stack[w]
    PROVE  Id(w)' = Id(w) /\ (Mounted(w)' <=> Mounted(w)) /\ (Mounted(w) => Top(w)' = Top(w))
BY DEF Id, Mounted, Top

\* How unmounting, mounting and the remount change what the one target shows.
LEMMA IdPop ==
    ASSUME OverlayTypeOK, NEW v \in Volumes, Local(v), Pop(v)
    PROVE  Id(v)' = 0 /\ ~Mounted(v)'
BY PopEmpties DEF Id, Mounted

\* A mount on an empty target is what the target shows.
LEMMA IdPush ==
    ASSUME OverlayTypeOK, NEW v \in Volumes, Local(v), NEW c \in Calls, NEW l \in Layer,
           Push(v, l), call[v][c].at \in Publishing
    PROVE  Id(v)' = l.id /\ Mounted(v)' /\ Top(v)' = l
<1>1. stack'[v] # <<>> /\ stack'[v][Len(stack'[v])] = l
  BY PushFills
<1> QED
  BY <1>1 DEF Id, Mounted, Top

\* A remount changes the flag alone.
LEMMA IdSeal ==
    ASSUME OverlayTypeOK, NEW v \in Volumes, Mounted(v),
           stack' = [stack EXCEPT ![v][Len(stack[v])].ro = TRUE]
    PROVE  /\ Id(v)' = Id(v) /\ Mounted(v)' /\ Top(v)' = [Top(v) EXCEPT !.ro = TRUE]
           /\ Top(v) \in Layer
<1>1. /\ Len(stack'[v]) = Len(stack[v])
      /\ stack'[v][Len(stack[v])] = [Top(v) EXCEPT !.ro = TRUE]
      /\ Top(v) \in Layer /\ Len(stack[v]) \in Nat \ {0}
  BY SealType, TopType DEF OverlayTypeOK
<1>2. stack'[v] # <<>>
  BY <1>1
<1>3. [Top(v) EXCEPT !.ro = TRUE].id = Top(v).id
  BY <1>1 DEF Layer
<1> QED
  BY <1>1, <1>2, <1>3 DEF Id, Mounted, Top

\* A union of another family is as it was.
LEMMA FamilyFrame ==
    ASSUME NEW v \in Volumes, NEW c \in Calls, Aside(v, c), NEW u \in Unions, u # Source(v),
           Family(u)
    PROVE  Family(u)'
<1>1. u \in Volumes /\ u # v
  BY OverlayAssumption DEF Volumes, Source
<1>2. \A d \in Calls : call'[u][d] = call[u][d]
  BY <1>1 DEF Aside, Others
<1>3. \A w \in Volumes : Source(w) = u => Id(w)' = Id(w)
  BY IdFrame DEF Aside
<1>4. (Mounted(u)' <=> Mounted(u)) /\ deleted' = deleted
  BY <1>1, IdFrame DEF Aside
<1>5. \A w \in Volumes : Source(w)' = Source(w)
  BY DEF Source
<1> QED
  BY <1>2, <1>3, <1>4, <1>5 DEF Family

\* The family of the volume that a step works on.
LEMMA FamilyStep ==
    ASSUME OverlayTypeOK, NEW v \in Volumes, NEW c \in Calls, Aside(v, c), Shaped(v, c),
           Orderly, ~At(v, c, "idle")
    PROVE  Family(Source(v))'
<1> DEFINE u == Source(v)
<1>u. u \in Unions /\ u \in Volumes /\ (v \in Views => u = SharedFrom[v] /\ u # v)
      /\ (v \in Unions => u = v) /\ (v \in Views \/ v \in Unions)
  BY OverlayAssumption DEF Source, Volumes
<1>f. /\ \A d \in Calls : call[u][d].at \in Publishing \cup {"remount"} =>
            \A w \in Volumes : Source(w) = u => Id(w) = 0
      /\ \A w \in Volumes : Source(w) = u /\ Id(w) # 0 => deleted \/ Mounted(u)
      /\ \A w, x \in Volumes : Source(w) = u /\ Source(x) = u /\ Id(w) # 0 /\ Id(x) # 0
                                  => Id(w) = Id(x)
  BY <1>u DEF Orderly, Family
<1>l. Local(v) /\ LocalAt(v, c)
  BY DEF Orderly, Local
<1>o. \A d \in Calls \ {c} : call'[v][d].at = "idle"
  BY <1>l, OnlyCall DEF Aside, Others, At
<1>i. /\ \A w \in Volumes \ {v} : Id(w)' = Id(w) /\ (Mounted(w)' <=> Mounted(w))
      /\ deleted' = deleted
  BY IdFrame DEF Aside
<1>c. v # u => \A d \in Calls : call'[u][d] = call[u][d]
  BY <1>u DEF Aside, Others
<1> SUFFICES Family(u)'
  OBVIOUS
<1> HIDE DEF u
<1>g. ASSUME \A d \in Calls : call'[u][d].at \in Publishing \cup {"remount"} =>
               \A w \in Volumes : Source(w) = u => Id(w)' = 0,
             \A w \in Volumes : Source(w) = u /\ Id(w)' # 0 => deleted \/ Mounted(u)',
             \A w, x \in Volumes : Source(w) = u /\ Source(x) = u /\ Id(w)' # 0 /\ Id(x)' # 0
                                      => Id(w)' = Id(x)'
      PROVE  Family(u)'
  <2>1. \A w \in Volumes : Source(w)' = Source(w)
    BY DEF Source
  <2> QED
    BY <1>g, <1>i, <2>1 DEF Family
<1>1. CASE /\ UNCHANGED stack
           /\ v = u /\ call'[v][c].at \in Publishing \cup {"remount"}
                => call[v][c].at \in Publishing \cup {"remount"}
  <2>1. \A w \in Volumes : Id(w)' = Id(w) /\ (Mounted(w)' <=> Mounted(w))
    BY <1>1, IdFrame
  <2>2. \A d \in Calls : call'[u][d].at \in Publishing \cup {"remount"} =>
               \A w \in Volumes : Source(w) = u => Id(w) = 0
    <3>1. CASE v = u
      BY <1>1, <1>f, <1>o, <3>1 DEF Publishing
    <3>2. CASE v # u
      BY <1>c, <1>f, <3>2
    <3> QED
      BY <3>1, <3>2
  <2> QED
    BY <1>f, <1>g, <1>u, <2>1, <2>2
<1>2. CASE \E l \in Layer : MountsOne(v, c, l)
  <2> PICK l \in Layer : MountsOne(v, c, l)
    BY <1>2
  <2>1. Id(v)' = l.id /\ Mounted(v)' /\ call[v][c].at \in Publishing
    BY <1>l, IdPush DEF MountsOne
  <2>2. CASE v = u
    <3>1. \A w \in Volumes \ {v} : Source(w) = u => Id(w)' = 0
      BY <1>f, <1>i, <2>1, <2>2
    <3>2. call'[v][c].at = "idle" \/ (call'[v][c].at = "remount" /\ l.id = 0)
      BY <1>u, <2>2 DEF MountsOne
    <3>3. \A d \in Calls : call'[u][d].at \in Publishing \cup {"remount"} =>
               \A w \in Volumes : Source(w) = u => Id(w)' = 0
      BY <1>o, <2>1, <2>2, <3>1, <3>2 DEF Publishing
    <3>4. \A w, x \in Volumes : Source(w) = u /\ Source(x) = u /\ Id(w)' # 0 /\ Id(x)' # 0
                                      => Id(w)' = Id(x)'
      BY <3>1
    <3> QED
      BY <1>g, <2>1, <2>2, <3>3, <3>4
  <2>3. CASE v # u
    <3>1. l.id = 0 \/ (Mounted(u) /\ l.id = Id(u))
      BY <1>u, <2>3 DEF MountsOne, Id
    <3>2. Source(u) = u /\ Id(u)' = Id(u) /\ (Mounted(u)' <=> Mounted(u))
      BY <1>u, <1>i, <2>3, OverlayAssumption DEF Source
    <3>3. \A d \in Calls : call'[u][d].at \in Publishing \cup {"remount"} =>
               \A w \in Volumes : Source(w) = u => Id(w)' = 0
      BY <1>c, <1>f, <1>i, <1>u, <2>1, <2>3, <3>1, <3>2
    <3>4. \A w \in Volumes : Source(w) = u /\ Id(w)' # 0 => deleted \/ Mounted(u)'
      BY <1>f, <1>i, <2>1, <3>1, <3>2
    <3>5. \A w, x \in Volumes : Source(w) = u /\ Source(x) = u /\ Id(w)' # 0 /\ Id(x)' # 0
                                      => Id(w)' = Id(x)'
      BY <1>f, <1>i, <1>u, <2>1, <3>1, <3>2
    <3> QED
      BY <1>g, <3>3, <3>4, <3>5
  <2> QED
    BY <2>2, <2>3
<1>3. CASE Seals(v, c)
  <2>1. Id(v)' = Id(v) /\ Mounted(v)' /\ Mounted(v) /\ call'[v][c].at = "idle"
    BY <1>3, IdSeal DEF Seals
  <2>2. \A w \in Volumes : Id(w)' = Id(w) /\ (Mounted(w)' <=> Mounted(w))
    BY <1>i, <2>1
  <2>3. \A d \in Calls : call'[u][d].at \in Publishing \cup {"remount"} =>
               \A w \in Volumes : Source(w) = u => Id(w) = 0
    <3>1. CASE v = u
      BY <1>o, <2>1, <3>1 DEF Publishing
    <3>2. CASE v # u
      BY <1>c, <1>f, <3>2
    <3> QED
      BY <3>1, <3>2
  <2> QED
    BY <1>f, <1>g, <1>u, <2>2, <2>3
<1>4. CASE Undoes(v, c) \/ Unmounts(v, c)
  <2>1. Id(v)' = 0 /\ ~Mounted(v)'
    BY <1>4, <1>l, IdPop DEF Undoes, Unmounts
  <2>2. \A w \in Volumes : Id(w)' # 0 => w # v /\ Id(w)' = Id(w)
    BY <1>i, <2>1
  <2>3. \A d \in Calls : call'[u][d].at \in Publishing \cup {"remount"} =>
               \A w \in Volumes : Source(w) = u => Id(w)' = 0
    <3>1. CASE v = u
      BY <1>4, <1>o, <3>1 DEF Publishing, Undoes, Unmounts
    <3>2. CASE v # u
      BY <1>c, <1>f, <2>2, <3>2
    <3> QED
      BY <3>1, <3>2
  <2>4. \A w \in Volumes : Source(w) = u /\ Id(w)' # 0 => deleted \/ Mounted(u)'
    <3>1. CASE v # u
      BY <1>f, <1>i, <1>u, <2>2, <3>1
    <3>2. CASE v = u /\ Undoes(v, c)
      BY <1>f, <2>2, <3>2 DEF Undoes, At
    <3>3. CASE Unmounts(v, c)
      BY <1>l, <3>3 DEF Unmounts, LocalAt, At
    <3> QED
      BY <1>4, <3>1, <3>2, <3>3
  <2> QED
    BY <1>f, <1>g, <2>2, <2>3, <2>4
<1> QED
  BY <1>1, <1>2, <1>3, <1>4 DEF Shaped, Advances, Stops, Removes, Publishing, u

\* A step of a call keeps a volume read-only.
LEMMA KeptStep ==
    ASSUME OverlayTypeOK, NEW v \in Volumes, NEW c \in Calls, Aside(v, c), Shaped(v, c),
           Local(v), ~At(v, c, "idle"), \A w \in Volumes : Kept(w)
    PROVE  \A w \in Volumes : Kept(w)'
<1>b. \A w \in Volumes : BindsReadOnly(w)' <=> BindsReadOnly(w)
  BY DEF Aside, BindsReadOnly, LayoutReadOnly
<1>1. ASSUME NEW w \in Volumes, w # v PROVE Kept(w)'
  <2>1. \A d \in Calls : call'[w][d] = call[w][d]
    BY <1>1 DEF Aside, Others
  <2>2. (Mounted(w)' <=> Mounted(w)) /\ (Mounted(w) => Top(w)' = Top(w))
    BY <1>1, IdFrame DEF Aside
  <2> QED
    BY <1>b, <2>1, <2>2 DEF Kept, At
<1>2. Kept(v)'
  <2>l. LocalAt(v, c) /\ \A d \in Calls \ {c} : At(v, d, "idle")
    BY OnlyCall DEF Local
  <2>1. CASE Advances(v, c)
    <3>1. ~Mounted(v)'
      BY <2>1, <2>l DEF Advances, LocalAt, Mounted
    <3> QED
      BY <3>1 DEF Kept
  <2>2. CASE (Stops(v, c) \/ Removes(v, c)) /\ Mounted(v)
    <3>1. \A d \in Calls : ~At(v, d, "remount")
      BY <2>2, <2>l DEF Stops, Removes, At
    <3>2. (Mounted(v)' <=> Mounted(v)) /\ Top(v)' = Top(v)
      BY <2>2, IdFrame DEF Stops, Removes
    <3> QED
      BY <1>b, <3>1, <3>2 DEF Kept
  <2>3. CASE (Stops(v, c) \/ Removes(v, c)) /\ ~Mounted(v)
    <3>1. ~Mounted(v)'
      BY <2>3 DEF Stops, Removes, Mounted
    <3> QED
      BY <3>1 DEF Kept
  <2>4. CASE \E l \in Layer : MountsOne(v, c, l)
    <3> PICK l \in Layer : MountsOne(v, c, l)
      BY <2>4
    <3>1. Top(v)' = l
      BY IdPush DEF MountsOne
    <3> QED
      BY <1>b, <3>1 DEF MountsOne, Kept, At
  <2>5. CASE Seals(v, c)
    <3>1. Top(v)' = [Top(v) EXCEPT !.ro = TRUE] /\ Top(v) \in Layer
      BY <2>5, IdSeal DEF Seals
    <3>2. Top(v)'.ro
      BY <3>1 DEF Layer
    <3> QED
      BY <3>2 DEF Kept
  <2>6. CASE Undoes(v, c) \/ Unmounts(v, c)
    <3>1. ~Mounted(v)'
      BY <2>6, IdPop DEF Undoes, Unmounts
    <3> QED
      BY <3>1 DEF Kept
  <2> QED
    BY <2>1, <2>2, <2>3, <2>4, <2>5, <2>6 DEF Shaped
<1> QED
  BY <1>1, <1>2

-----------------------------------------------------------------------------
(***************************************************************************)
(* Every step keeps the invariant.                                         *)
(***************************************************************************)

\* A step of a call.
LEMMA CallCalm ==
    ASSUME OverlayTypeOK, Orderly, NEW v \in Volumes, NEW c \in Calls, CallStep(v, c)
    PROVE  /\ Orderly' /\ past \subseteq past'
           /\ (\A w \in Volumes : Kept(w)) => \A w \in Volumes : Kept(w)'
<1>1. Aside(v, c) /\ ~At(v, c, "idle") /\ Shaped(v, c) /\ Local(v)
  BY StepShapes DEF Orderly
<1>2. \A w \in Volumes : Local(w)'
  BY <1>1, LocalFrame, LocalStep DEF Orderly
<1>3. \A u \in Unions : Family(u)'
  <2> SUFFICES ASSUME NEW u \in Unions PROVE Family(u)'
    OBVIOUS
  <2>1. CASE u = Source(v)
    BY <1>1, <2>1, FamilyStep
  <2>2. CASE u # Source(v)
    BY <1>1, <2>2, FamilyFrame DEF Orderly
  <2> QED
    BY <2>1, <2>2
<1>4. Orderly'
  BY <1>2, <1>3 DEF Orderly
<1> QED
  BY <1>1, <1>4, KeptStep DEF Aside

\* A call of kubelet, which comes when no other call for the volume is under way.
LEMMA KubeletCalm ==
    ASSUME OverlayTypeOK, Orderly, NEW v \in Volumes, KubeletCalls(v)
    PROVE  /\ Orderly' /\ past' = past
           /\ (\A w \in Volumes : Kept(w)) => \A w \in Volumes : Kept(w)'
<1> USE DEF givenVars, kubeletVars, hostVars, faultVars
<1> PICK c \in Calls : PublishAgain(v, c) \/ Publish(v, c) \/ Unpublish(v, c)
  BY DEF KubeletCalls
<1>t. /\ call \in [Volumes -> [Calls -> Call]] /\ awaited \in [Volumes -> Calls \cup {0}]
      /\ Local(v) /\ c # 0
  BY OverlayAssumption DEF OverlayTypeOK, Orderly, Calls
<1>i. \A d \in Calls : At(v, d, "idle")
  <2>1. awaited[v] = 0
    BY DEF PublishAgain, Publish, Unpublish, CanCall
  <2>2. \A d \in Calls : d # 0
    BY OverlayAssumption DEF Calls
  <2> QED
    BY <1>t, <2>1, <2>2 DEF Local, LocalAt
<1>u. UNCHANGED <<stack, decl, fsopen, deleted, done, past>>
  BY DEF PublishAgain, Publish, Unpublish
<1>s. \A w \in Volumes : Id(w)' = Id(w) /\ (Mounted(w)' <=> Mounted(w))
                         /\ Source(w)' = Source(w) /\ (Mounted(w) => Top(w)' = Top(w))
  BY <1>u, IdFrame DEF Source
<1>b. \A w \in Volumes : BindsReadOnly(w)' <=> BindsReadOnly(w)
  BY <1>u DEF BindsReadOnly, LayoutReadOnly
<1>1. CASE PublishAgain(v, c)
  <2>1. UNCHANGED <<call, awaited>> /\ published' = published \cup {v}
    BY <1>1 DEF PublishAgain
  <2>2. \A w \in Volumes : Local(w)'
    <3> SUFFICES ASSUME NEW w \in Volumes PROVE Local(w)'
      OBVIOUS
    <3>1. Local(w)
      BY DEF Orderly
    <3>2. \A d \in Calls : LocalAt(w, d)'
      BY <1>i, <1>u, <2>1, <3>1 DEF Local, LocalAt, At, Publishing
    <3> QED
      BY <1>u, <3>1, <3>2 DEF Local
  <2>3. \A u \in Unions : Family(u)'
    <3> SUFFICES ASSUME NEW u \in Unions PROVE Family(u)'
      OBVIOUS
    <3>1. u \in Volumes /\ Family(u)
      BY DEF Volumes, Orderly
    <3> QED
      BY <1>s, <1>u, <2>1, <3>1 DEF Family
  <2>4. (\A w \in Volumes : Kept(w)) => \A w \in Volumes : Kept(w)'
    BY <1>s, <1>b, <2>1 DEF Kept, At
  <2> QED
    BY <1>u, <2>2, <2>3, <2>4 DEF Orderly
<1>2. CASE Publish(v, c) \/ Unpublish(v, c)
  <2>1. /\ Others(v, c) /\ call'[v][c].at = (IF Publish(v, c) THEN "wait" ELSE "unmount")
        /\ awaited'[v] = c /\ published' = published
        /\ \A w \in Volumes \ {v} : awaited'[w] = awaited[w]
    <3>1. CASE Publish(v, c)
      BY <1>t, <3>1, GotoType DEF Publish, Labels
    <3>2. CASE Unpublish(v, c) /\ ~Publish(v, c)
      BY <1>t, <3>2, GotoType DEF Unpublish, Labels
    <3> QED
      BY <1>2, <3>1, <3>2
  <2>2. Aside(v, c)
    BY <1>u, <2>1 DEF Aside
  <2>i. \A d \in Calls \ {c} : call'[v][d].at = "idle"
    BY <1>i, <2>1 DEF Others, At
  <2>3. Local(v)'
    <3>1. \A d \in Calls \ {c} : LocalAt(v, d)'
      BY <2>i DEF LocalAt, At, Publishing, Making
    <3>2. CASE Publish(v, c)
      <4>1. ~deleted /\ v \notin published /\ stack[v] = <<>> /\ v \notin done
        BY <1>t, <3>2 DEF Publish, Mounted, Local
      <4>2. LocalAt(v, c)'
        BY <1>u, <2>1, <3>2, <4>1 DEF LocalAt, At, Publishing, Making
      <4> QED
        BY <1>t, <1>u, <3>1, <4>2 DEF Local
    <3>3. CASE Unpublish(v, c) /\ ~Publish(v, c)
      <4>1. LocalAt(v, c)'
        BY <1>u, <2>1, <3>3 DEF LocalAt, At, Publishing, Making, Unpublish
      <4> QED
        BY <1>t, <1>u, <3>1, <4>1 DEF Local
    <3> QED
      BY <1>2, <3>2, <3>3
  <2>4. \A w \in Volumes : Local(w)'
    BY <2>2, <2>3, LocalFrame DEF Orderly
  <2>5. \A u \in Unions : Family(u)'
    <3> SUFFICES ASSUME NEW u \in Unions PROVE Family(u)'
      OBVIOUS
    <3>0. u \in Volumes /\ Family(u)
      BY DEF Volumes, Orderly
    <3>1. \A d \in Calls : call'[u][d].at \in Publishing \cup {"remount"} =>
             \A w \in Volumes : Source(w) = u => Id(w) = 0
      <4>1. CASE u = v /\ Publish(v, c)
        BY <3>0, <4>1 DEF Publish, Family
      <4>2. CASE u = v /\ ~Publish(v, c)
        BY <2>1, <2>i, <4>2 DEF Publishing
      <4>3. CASE u # v
        BY <2>1, <3>0, <4>3 DEF Others, Family
      <4> QED
        BY <4>1, <4>2, <4>3
    <3> QED
      BY <1>s, <1>u, <3>0, <3>1 DEF Family
  <2>6. (\A w \in Volumes : Kept(w)) => \A w \in Volumes : Kept(w)'
    <3> SUFFICES ASSUME NEW w \in Volumes, Kept(w) PROVE Kept(w)'
      OBVIOUS
    <3>1. CASE w = v
      BY <1>i, <1>s, <1>b, <3>1 DEF Kept, At
    <3>2. CASE w # v
      BY <1>s, <1>b, <2>1, <3>2 DEF Kept, At, Others
    <3> QED
      BY <3>1, <3>2
  <2> QED
    BY <1>u, <2>4, <2>5, <2>6 DEF Orderly
<1> QED
  BY <1>1, <1>2

\* What happens around the driver, unless kubelet gives up on a call.
LEMMA SurroundingsCalm ==
    ASSUME OverlayTypeOK, Orderly, Surroundings, ~Outlived'
    PROVE  /\ Orderly' /\ past \subseteq past'
           /\ (\A w \in Volumes : Kept(w)) => \A w \in Volumes : Kept(w)'
<1> USE DEF givenVars, kubeletVars, hostVars, faultVars
<1>0. \A v \in Volumes : ~KubeletGivesUp(v)
  BY DEF KubeletGivesUp, Fault, Outlived, Remembered
<1>1. /\ UNCHANGED <<stack, call, awaited, decl, done>> /\ published' \subseteq published
      /\ deleted => deleted'
      /\ past \subseteq past'
  BY <1>0 DEF Surroundings, DeletePod, KubeletForgets, VolumeChanges, Fault
<1>2. \A w \in Volumes : Local(w)'
  <2> SUFFICES ASSUME NEW w \in Volumes PROVE Local(w)'
    OBVIOUS
  <2>1. Local(w)
    BY DEF Orderly
  <2>2. \A d \in Calls : LocalAt(w, d)'
    BY <1>1, <2>1 DEF Local, LocalAt, At
  <2> QED
    BY <1>1, <2>1, <2>2 DEF Local
<1>s. \A w \in Volumes : Id(w)' = Id(w) /\ (Mounted(w)' <=> Mounted(w))
                         /\ Source(w)' = Source(w) /\ (Mounted(w) => Top(w)' = Top(w))
  BY <1>1, IdFrame DEF Source
<1>3. \A u \in Unions : Family(u)'
  <2> SUFFICES ASSUME NEW u \in Unions PROVE Family(u)'
    OBVIOUS
  <2>1. u \in Volumes /\ Family(u)
    BY DEF Volumes, Orderly
  <2> QED
    BY <1>1, <1>s, <2>1 DEF Family
<1>4. \A w \in Volumes : BindsReadOnly(w)' <=> BindsReadOnly(w)
  BY <1>1 DEF BindsReadOnly, LayoutReadOnly
<1>5. (\A w \in Volumes : Kept(w)) => \A w \in Volumes : Kept(w)'
  BY <1>1, <1>s, <1>4 DEF Kept, At
<1> QED
  BY <1>1, <1>2, <1>3, <1>5 DEF Orderly

\* The end of every call, by a kill or with the node.
LEMMA EndCalm ==
    ASSUME OverlayTypeOK, Orderly, DriverKilled \/ NodeReboots
    PROVE  /\ Orderly' /\ past \subseteq past'
           /\ past' \subseteq {"forget"} => \A w \in Volumes : Kept(w)'
<1> USE DEF givenVars, kubeletVars, hostVars, faultVars
<1>1. \A v \in Volumes, c \in Calls : call'[v][c].at = "idle"
  BY DEF DriverKilled, NodeReboots, CallsEnd, NoCalls, NoCall
<1>2. UNCHANGED <<decl, deleted, done>> /\ past \subseteq past'
  BY DEF DriverKilled, NodeReboots, Fault
<1>3. UNCHANGED stack \/ \A v \in Volumes : stack'[v] = <<>>
  BY DEF DriverKilled, NodeReboots
<1>z. Len(<<>>) = 0
  OBVIOUS
<1>4. \A w \in Volumes : Local(w)'
  <2> SUFFICES ASSUME NEW w \in Volumes PROVE Local(w)'
    OBVIOUS
  <2>1. \A d \in Calls : LocalAt(w, d)'
    BY <1>1 DEF LocalAt, At, Publishing, Making
  <2>2. Len(stack'[w]) <= 1
    BY <1>3, <1>z DEF Orderly, Local
  <2>3. w \in done' => deleted' /\ stack'[w] = <<>>
    BY <1>2, <1>3 DEF Orderly, Local
  <2> QED
    BY <2>1, <2>2, <2>3 DEF Local
<1>5. \A u \in Unions : Family(u)'
  <2> SUFFICES ASSUME NEW u \in Unions PROVE Family(u)'
    OBVIOUS
  <2>1. \A d \in Calls : call'[u][d].at \notin Publishing \cup {"remount"}
    BY <1>1 DEF Publishing, Volumes
  <2>0. u \in Volumes /\ Family(u)
    BY DEF Volumes, Orderly
  <2>2. CASE UNCHANGED stack
    <3>1. \A w \in Volumes : Id(w)' = Id(w) /\ (Mounted(w)' <=> Mounted(w))
                             /\ Source(w)' = Source(w)
      BY <2>2, IdFrame DEF Source
    <3> QED
      BY <1>2, <2>0, <2>1, <3>1 DEF Family
  <2>3. CASE \A v \in Volumes : stack'[v] = <<>>
    <3>1. \A w \in Volumes : Id(w)' = 0
      BY <2>3 DEF Id, Mounted
    <3> QED
      BY <2>1, <3>1 DEF Family
  <2> QED
    BY <1>3, <2>2, <2>3
<1>6. past' \subseteq {"forget"} => \A w \in Volumes : Kept(w)'
  <2>1. CASE DriverKilled
    <3>1. "kill" \in past'
      BY <2>1 DEF DriverKilled, Fault, Remembered
    <3> QED
      BY <3>1
  <2>2. CASE NodeReboots
    <3>1. \A w \in Volumes : ~Mounted(w)'
      BY <2>2 DEF NodeReboots, Mounted
    <3> QED
      BY <3>1 DEF Kept
  <2> QED
    BY <2>1, <2>2
<1> QED
  BY <1>2, <1>4, <1>5, <1>6 DEF Orderly

\* Nothing is mounted at first and no call is under way.
LEMMA CalmInit == Init => Calm
<1> SUFFICES ASSUME Init PROVE Calm
  OBVIOUS
<1>1. \A v \in Volumes, c \in Calls : call[v][c].at = "idle"
  BY DEF Init, OverlayInit, NoCalls, NoCall
<1>2. (\A v \in Volumes : stack[v] = <<>>) /\ done = {}
  BY DEF Init, OverlayInit
<1>3. \A v \in Volumes : Local(v)
  <2>1. Len(<<>>) = 0
    OBVIOUS
  <2>2. \A v \in Volumes, c \in Calls : LocalAt(v, c)
    BY <1>1 DEF LocalAt, At, Publishing, Making
  <2> QED
    BY <1>2, <2>1, <2>2 DEF Local
<1>4. \A v \in Volumes : ~Mounted(v) /\ Id(v) = 0
  BY <1>2 DEF Mounted, Id
<1>5. \A u \in Unions : Family(u)
  BY <1>4 DEF Family
<1>6. \A v \in Volumes : Kept(v)
  BY <1>4 DEF Kept
<1> QED
  BY <1>3, <1>5, <1>6 DEF Calm, Orderly

\* Steps that leave the backend alone.
LEMMA RestCalm ==
    ASSUME Calm, UNCHANGED <<stack, call, awaited, decl, done, published, deleted>>,
           past \subseteq past'
    PROVE  Calm'
<1>s. \A w \in Volumes : Id(w)' = Id(w) /\ (Mounted(w)' <=> Mounted(w))
                         /\ Source(w)' = Source(w) /\ (Mounted(w) => Top(w)' = Top(w))
                         /\ (BindsReadOnly(w)' <=> BindsReadOnly(w))
  BY IdFrame DEF Source, BindsReadOnly, LayoutReadOnly
<1>1. ASSUME Orderly PROVE Orderly'
  <2>1. \A w \in Volumes : Local(w)'
    BY <1>1 DEF Orderly, Local, LocalAt, At
  <2>2. \A u \in Unions : Family(u)'
    <3> SUFFICES ASSUME NEW u \in Unions PROVE Family(u)'
      OBVIOUS
    <3>1. u \in Volumes /\ Family(u)
      BY <1>1 DEF Volumes, Orderly
    <3> QED
      BY <1>s, <3>1 DEF Family
  <2> QED
    BY <2>1, <2>2 DEF Orderly
<1>2. ASSUME \A w \in Volumes : Kept(w) PROVE \A w \in Volumes : Kept(w)'
  BY <1>s, <1>2 DEF Kept, At
<1> QED
  BY <1>1, <1>2 DEF Calm, Outlived

\* Every step of the program keeps the invariant.
LEMMA CalmNext == Sound /\ Calm /\ [Next]_vars => Calm'
<1> SUFFICES ASSUME Sound, Calm, [Next]_vars PROVE Calm'
  OBVIOUS
<1> USE DEF givenVars, kubeletVars, hostVars, faultVars
<1>o. OverlayTypeOK
  BY DEF Sound
<1>r. past \subseteq {"forget"} => ~Outlived
  BY DEF Outlived
<1>a. ASSUME Outlived => Outlived', ~Outlived => past \subseteq past',
             ~Outlived' /\ Orderly => Orderly',
             ~Outlived' /\ Orderly /\ past' \subseteq {"forget"} /\ (\A w \in Volumes : Kept(w))
                => \A w \in Volumes : Kept(w)'
      PROVE  Calm'
  <2>1. past' \subseteq {"forget"} => ~Outlived'
    BY DEF Outlived
  <2> QED
    BY <1>a, <2>1 DEF Calm
<1>g. past \subseteq past' => (Outlived => Outlived')
  BY DEF Outlived
<1>1. CASE UNCHANGED <<stack, call, awaited, decl, done, published, deleted>>
           /\ past \subseteq past'
  BY <1>1, RestCalm
<1>2. CASE \E v \in Volumes : KubeletCalls(v)
  <2>1. past' = past
    BY <1>2 DEF KubeletCalls, PublishAgain, Publish, Unpublish
  <2> QED
    BY <1>2, <1>a, <1>g, <1>o, <2>1, KubeletCalm
<1>3. CASE \E v \in Volumes, c \in Calls : CallStep(v, c)
  <2>1. past \subseteq past'
    <3> PICK v \in Volumes, c \in Calls : CallStep(v, c)
      BY <1>3
    <3> QED
      BY PastGrows DEF CallStep, SourcesReady, SourcesFail, OpenWorkspace, OpenUpper, OpenWork,
         Create, Attach, MountClassic, Bind, Remount, Unmount, RemoveTarget, NoFault
  <2> QED
    BY <1>3, <1>a, <1>g, <1>o, <2>1, CallCalm
<1>4. CASE Surroundings
  <2>1. past \subseteq past'
    BY <1>4 DEF Surroundings, DeletePod, KubeletGivesUp, KubeletForgets, VolumeChanges, Fault
  <2> QED
    BY <1>4, <1>a, <1>g, <1>o, <2>1, SurroundingsCalm
<1>5. CASE DriverKilled \/ NodeReboots
  <2>1. past \subseteq past'
    BY <1>5 DEF DriverKilled, NodeReboots, Fault
  <2> QED
    BY <1>5, <1>a, <1>g, <1>o, <2>1, EndCalm
<1>6. CASE Signalled \/ ListenFails
  BY <1>1, <1>6 DEF Signalled, ListenFails, Fault
<1>7. CASE UNCHANGED overlayVars
  BY <1>1, <1>7 DEF overlayVars
<1> QED
  BY <1>2, <1>3, <1>4, <1>5, <1>6, <1>7 DEF Next, Driver, Handlers, vars

\* The invariant, for every instance.
THEOREM StaysCalm == Spec => [](Sound /\ Calm)
<1>1. Sound /\ Calm /\ [Next]_vars => (Sound /\ Calm)'
  BY SoundNext, CalmNext
<1> QED
  BY <1>1, SoundInit, CalmInit, PTL DEF Spec

-----------------------------------------------------------------------------
(***************************************************************************)
(* What follows from the invariant.                                        *)
(***************************************************************************)

\* An overlay mount of a family is the one its targets show, or one about to be attached.
LEMMA MountOf ==
    ASSUME OverlayTypeOK, Orderly, NEW u \in Unions, NEW l, l.id # 0, NEW v \in Volumes,
           Source(v) = u, l \in HeldBy(v) \/ \E i \in DOMAIN stack[v] : stack[v][i] = l
    PROVE  \/ l.id = Id(v)
           \/ \E c \in Calls : l = call[u][c] /\ At(u, c, "attach")
<1>l. Local(v) /\ stack[v] \in Seq(Layer)
  BY DEF Orderly, OverlayTypeOK
<1>1. CASE \E i \in DOMAIN stack[v] : stack[v][i] = l
  <2>1. PICK i \in DOMAIN stack[v] : stack[v][i] = l
    BY <1>1
  <2>2. i \in 1 .. Len(stack[v]) /\ Len(stack[v]) \in Nat /\ Len(stack[v]) <= 1
    BY <1>l, <2>1 DEF Local
  <2>3. i = Len(stack[v])
    BY <2>2
  <2>4. stack[v] # <<>>
    BY <2>1
  <2> QED
    BY <2>1, <2>3, <2>4 DEF Id, Mounted, Top
<1>2. CASE l \in HeldBy(v)
  <2>1. PICK c \in Calls : l = call[v][c]
    BY <1>2 DEF HeldBy
  <2>2. At(v, c, "attach")
    BY <2>1 DEF OverlayTypeOK
  <2>3. v \in Unions
    BY <1>l, <2>2 DEF Local, LocalAt, At, Making
  <2>4. v = u
    BY <2>3, OverlayAssumption DEF Source
  <2> QED
    BY <2>1, <2>2, <2>4
<1> QED
  BY <1>1, <1>2

\* Two overlay mounts never share an upper directory while kubelet waits for its calls: the
\* kernel does not have to be asked (overlay.go:76).
THEOREM UppersAreOwn == Spec => []NoSharedUpper
<1>1. Sound /\ Calm => NoSharedUpper
  <2> SUFFICES ASSUME Sound, Calm, ~Outlived, NEW u \in Unions,
                      NEW l, l.id # 0, NEW v \in Volumes, Source(v) = u,
                      l \in HeldBy(v) \/ \E i \in DOMAIN stack[v] : stack[v][i] = l,
                      NEW m, m.id # 0, NEW w \in Volumes, Source(w) = u,
                      m \in HeldBy(w) \/ \E i \in DOMAIN stack[w] : stack[w][i] = m
               PROVE  l.id = m.id
    BY DEF NoSharedUpper
  <2>1. OverlayTypeOK /\ Orderly /\ Family(u) /\ u \in Volumes /\ Local(u)
    BY DEF Sound, Calm, Orderly, Volumes
  <2>2. l.id = Id(v) \/ \E c \in Calls : l = call[u][c] /\ At(u, c, "attach")
    BY <2>1, MountOf
  <2>3. m.id = Id(w) \/ \E c \in Calls : m = call[u][c] /\ At(u, c, "attach")
    BY <2>1, MountOf
  <2>4. (\E c \in Calls : At(u, c, "attach")) => Id(v) = 0 /\ Id(w) = 0
    BY <2>1 DEF Family, At, Publishing
  <2>5. \A c, d \in Calls : At(u, c, "attach") /\ At(u, d, "attach") => c = d
    BY <2>1 DEF Local, LocalAt, At
  <2>6. l.id = Id(v) /\ m.id = Id(w) => l.id = m.id
    BY <2>1 DEF Family
  <2> QED
    BY <2>2, <2>3, <2>4, <2>5, <2>6
<1> QED
  BY <1>1, StaysCalm, PTL

\* Kubelet is never told that a volume it asked for read-only is published while it can be
\* written through, unless a call was overtaken or killed (bind_linux.go:13).
THEOREM ReadOnlyWhenTold == Spec => []PublishedIsReadOnly
<1>1. Sound /\ Calm => PublishedIsReadOnly
  <2> SUFFICES ASSUME Sound, Calm, past \subseteq {"forget"}, NEW v \in published,
                      Mounted(v), BindsReadOnly(v)
               PROVE  Top(v).ro
    BY DEF PublishedIsReadOnly
  <2>1. v \in Volumes /\ ~Outlived
    BY DEF Sound, OverlayTypeOK, Outlived
  <2>2. Local(v) /\ Kept(v)
    BY <2>1 DEF Calm, Orderly
  <2>3. \A c \in Calls : ~At(v, c, "remount")
    BY <2>2 DEF Local, LocalAt
  <2> QED
    BY <2>2, <2>3 DEF Kept
<1> QED
  BY <1>1, StaysCalm, PTL

-----------------------------------------------------------------------------
(***************************************************************************)
(* The program implements UnionVolume.                                     *)
(***************************************************************************)
Disturbed == Outlived \/ "forget" \in past

\* What a container sees of a target without a mount, and with one.
LEMMA SeenValues ==
    ASSUME NEW v \in Volumes
    PROVE  /\ Mounted(v) <=> Seen(v) \in {"unready", "serving"}
           /\ ~Mounted(v) => Seen(v) = IF v \in done THEN "gone" ELSE "absent"
BY DEF Seen

\* The same one step later.
LEMMA SeenNext ==
    ASSUME NEW v \in Volumes
    PROVE  /\ Mounted(v)' <=> Seen(v)' \in {"unready", "serving"}
           /\ ~Mounted(v)' => Seen(v)' = IF v \in done' THEN "gone" ELSE "absent"
BY DEF Seen

\* A target that nothing happens to looks as before.
LEMMA SeenFrame ==
    ASSUME NEW w \in Volumes, stack'[w] = stack[w], w \in done' <=> w \in done, UNCHANGED decl
    PROVE  Seen(w)' = Seen(w)
BY DEF Seen, Mounted, Top, Source, LayoutReadOnly

\* A move of the contract, in terms of what a container sees.
LEMMA MoveOf ==
    ASSUME NEW v \in Volumes,
           \/ Seen(v)' = Seen(v)
           \/ Seen(v) = "absent" /\ Seen(v)' \in {"unready", "serving"}
           \/ Seen(v) = "unready" /\ Seen(v)' = "serving"
           \/ /\ v \notin published \/ deleted
              /\ Seen(v) \in {"unready", "serving"} /\ Seen(v)' = "absent"
           \/ deleted /\ Seen(v) = "absent" /\ Seen(v)' = "gone"
    PROVE  Contract!Moves(v)
BY DEF Contract!Moves, Contract!Mounts, Contract!Readies, Contract!Withdraws,
       Contract!Unmounts, Contract!Removes, Contract!Becomes, Contract!MountedStates

\* Kubelet hears of a success for what is mounted, and of an unpublish for what is gone.
LEMMA TellsOf ==
    ASSUME OverlayTypeOK, OverlayTypeOK',
           \A v \in published' \ published : Mounted(v)',
           \A v \in published \ published' : Seen(v)' = "gone"
    PROVE  Contract!Tells
BY SeenNext DEF Contract!Tells, Contract!MountedStates, OverlayTypeOK

\* A step of a call.
LEMMA CallKeeps ==
    ASSUME OverlayTypeOK, OverlayTypeOK', Orderly, NEW v \in Volumes, NEW c \in Calls,
           CallStep(v, c)
    PROVE  Contract!Works
<1>1. Aside(v, c) /\ ~At(v, c, "idle") /\ Shaped(v, c) /\ Local(v) /\ LocalAt(v, c)
  BY StepShapes DEF Orderly, Local
<1>d. v \notin done /\ deleted' = deleted /\ decl' = decl
  BY <1>1, OnlyCall DEF Aside
<1>2. \A w \in Volumes \ {v} : Contract!Moves(w) /\ (w \in published' <=> w \in published)
  BY <1>1, SeenFrame, MoveOf DEF Aside
<1>w. ASSUME Contract!Moves(v), v \in published' \ published => Mounted(v)',
             v \in published \ published' => Seen(v)' = "gone"
      PROVE  Contract!Works
  <2>1. \A w \in published \cup published' : w \in Volumes
    BY DEF OverlayTypeOK
  <2>2. \A w \in published' \ published : Mounted(w)'
    BY <1>2, <1>w, <2>1
  <2>3. \A w \in published \ published' : Seen(w)' = "gone"
    BY <1>2, <1>w, <2>1
  <2>4. Contract!Tells
    BY <2>2, <2>3, TellsOf
  <2> QED
    BY <1>2, <1>d, <1>w, <2>4 DEF Contract!Works
<1>3. CASE Advances(v, c) \/ Stops(v, c)
  BY <1>3, <1>d, <1>w, SeenFrame, MoveOf DEF Advances, Stops
<1>4. CASE \E l \in Layer : MountsOne(v, c, l)
  <2> PICK l \in Layer : MountsOne(v, c, l)
    BY <1>4
  <2>1. ~Mounted(v) /\ Mounted(v)' /\ published \subseteq published'
    BY <1>1, IdPush DEF MountsOne, LocalAt, Mounted
  <2>2. Contract!Moves(v)
    BY <1>d, <2>1, SeenValues, SeenNext, MoveOf
  <2> QED
    BY <1>w, <2>1, <2>2
<1>5. CASE Seals(v, c)
  <2>1. /\ Mounted(v) /\ Mounted(v)' /\ Top(v)' = [Top(v) EXCEPT !.ro = TRUE] /\ Top(v) \in Layer
        /\ published \subseteq published'
    BY <1>5, IdSeal DEF Seals
  <2>2. Top(v)'.what = Top(v).what /\ Top(v)'.ro
    BY <2>1 DEF Layer
  <2>3. Source(v)' = Source(v) /\ (LayoutReadOnly(Source(v))' <=> LayoutReadOnly(Source(v)))
    BY <1>d DEF Source, LayoutReadOnly
  <2>4. Seen(v)' = Seen(v) \/ (Seen(v) = "unready" /\ Seen(v)' = "serving")
    BY <2>1, <2>2, <2>3 DEF Seen
  <2>5. Contract!Moves(v)
    BY <2>4, MoveOf
  <2> QED
    BY <1>w, <2>1, <2>5
<1>6. CASE Undoes(v, c) \/ Unmounts(v, c)
  <2>1. ~Mounted(v)' /\ published' = published /\ done' = done
    BY <1>1, <1>6, IdPop DEF Undoes, Unmounts
  <2>2. v \notin published \/ deleted
    BY <1>1, <1>6 DEF Undoes, Unmounts, LocalAt, At
  <2>3. Seen(v)' = "absent" /\ Seen(v) \in {"absent", "unready", "serving"}
    BY <1>d, <2>1, SeenValues, SeenNext
  <2>4. Contract!Moves(v)
    BY <2>2, <2>3, MoveOf
  <2> QED
    BY <1>w, <2>1, <2>4
<1>7. CASE Removes(v, c)
  <2>1. ~Mounted(v) /\ ~Mounted(v)' /\ v \in done' /\ v \notin published' /\ deleted
    BY <1>1, <1>7 DEF Removes, LocalAt, At, Mounted
  <2>2. Seen(v) = "absent" /\ Seen(v)' = "gone"
    BY <1>d, <2>1, SeenValues, SeenNext
  <2>3. Contract!Moves(v)
    BY <2>1, <2>2, MoveOf
  <2> QED
    BY <1>w, <2>1, <2>2, <2>3
<1> QED
  BY <1>1, <1>3, <1>4, <1>5, <1>6, <1>7 DEF Shaped

\* A step that leaves every target as it is.
LEMMA RestKeeps ==
    ASSUME OverlayTypeOK, OverlayTypeOK', UNCHANGED <<stack, done, decl>>,
           \A v \in published' \ published : Mounted(v), published \subseteq published',
           deleted => deleted'
    PROVE  Contract!Works
<1>1. \A v \in Volumes : Contract!Moves(v)
  BY SeenFrame, MoveOf
<1>2. Contract!Tells
  BY TellsOf DEF Mounted
<1> QED
  BY <1>1, <1>2 DEF Contract!Works

\* The end of the node.
LEMMA RebootKeeps ==
    ASSUME Orderly, NodeReboots
    PROVE  Contract!Reboots
<1>1. /\ \A w \in Volumes : stack[w]' = <<>>
      /\ published' = {} /\ deleted' = deleted /\ done' = done
  BY DEF NodeReboots
<1>2. ASSUME NEW w \in Volumes
      PROVE  Seen(w)' = IF Seen(w) = "gone" THEN "gone" ELSE "absent"
  <2>1. ~Mounted(w)'
    BY <1>1 DEF Mounted
  <2>2. Seen(w) = "gone" <=> w \in done
    BY SeenValues DEF Orderly, Local, Mounted
  <2> QED
    BY <1>1, <2>1, <2>2, SeenNext
<1> QED
  BY <1>1, <1>2 DEF Contract!Reboots

\* Every step of the program is a step of the contract, or none that it can see.
LEMMA StepKeeps ==
    ASSUME Sound, Sound', Calm, Calm', [Next]_vars
    PROVE  [Contract!Next]_(Contract!vars)
<1> USE DEF givenVars, kubeletVars, hostVars, faultVars
<1>o. OverlayTypeOK /\ OverlayTypeOK'
  BY DEF Sound
<1>1. CASE Disturbed'
  BY <1>1 DEF Contract!Next, Disturbed
<1>2. CASE ~Disturbed' /\ UNCHANGED <<stack, done, decl, published, deleted, past>>
  <2>1. \A w \in Volumes : Seen(w)' = Seen(w)
    BY <1>2, SeenFrame
  <2>2. UNCHANGED Disturbed
    BY <1>2 DEF Disturbed, Outlived
  <2> QED
    BY <1>2, <2>1, <2>2 DEF Contract!vars, Disturbed
<1>3. CASE ~Disturbed' /\ past \subseteq past' /\ (Contract!Works \/ Contract!Reboots)
  BY <1>3 DEF Contract!Next, Disturbed, Outlived
<1>p. past \subseteq past' /\ ~Disturbed' => Orderly
  BY DEF Calm, Disturbed, Outlived
<1>4. CASE ~Disturbed' /\ \E v \in Volumes : KubeletCalls(v)
  <2>1. /\ UNCHANGED <<stack, done, decl, deleted, past>> /\ published \subseteq published'
        /\ \A v \in published' \ published : Mounted(v)
    BY <1>4 DEF KubeletCalls, PublishAgain, Publish, Unpublish
  <2>2. Contract!Works
    BY <1>o, <2>1, RestKeeps
  <2> QED
    BY <1>3, <1>4, <2>1, <2>2
<1>5. CASE ~Disturbed' /\ \E v \in Volumes, c \in Calls : CallStep(v, c)
  <2>1. past \subseteq past'
    <3> PICK v \in Volumes, c \in Calls : CallStep(v, c)
      BY <1>5
    <3> QED
      BY PastGrows DEF CallStep, SourcesReady, SourcesFail, OpenWorkspace, OpenUpper, OpenWork,
         Create, Attach, MountClassic, Bind, Remount, Unmount, RemoveTarget, NoFault
  <2>2. Contract!Works
    BY <1>5, <1>o, <1>p, <2>1, CallKeeps
  <2> QED
    BY <1>3, <1>5, <2>1, <2>2
<1>6. CASE ~Disturbed' /\ (Surroundings \/ DriverKilled \/ Signalled \/ ListenFails)
  <2>1. \A v \in Volumes : ~KubeletGivesUp(v) /\ ~KubeletForgets(v)
    BY <1>6 DEF KubeletGivesUp, KubeletForgets, Fault, Disturbed, Outlived, Remembered
  <2>2. UNCHANGED <<stack, done, decl, published>> /\ (deleted => deleted') /\ past \subseteq past'
    BY <1>6, <2>1 DEF Surroundings, DeletePod, VolumeChanges, DriverKilled, Signalled,
       ListenFails, Fault
  <2>3. Contract!Works
    BY <1>o, <2>2, RestKeeps
  <2> QED
    BY <1>3, <1>6, <2>2, <2>3
<1>7. CASE ~Disturbed' /\ NodeReboots
  <2>1. past \subseteq past'
    BY <1>7 DEF NodeReboots, Fault
  <2> QED
    BY <1>3, <1>7, <1>p, <2>1, RebootKeeps
<1>8. CASE ~Disturbed' /\ UNCHANGED overlayVars
  BY <1>2, <1>8 DEF overlayVars
<1> QED
  BY <1>1, <1>4, <1>5, <1>6, <1>7, <1>8 DEF Next, Driver, Handlers, vars

\* The program with the overlay backend implements UnionVolume: whichever calls fail, and
\* however often the driver is killed, stopped or restarted and the node reboots, a container
\* sees the union it was promised or none.
THEOREM ProgramImplements == Spec => KeepsContract
<1>1. Init => Contract!Init
  <2> SUFFICES ASSUME Init PROVE Contract!Init
    OBVIOUS
  <2>1. \A v \in Volumes : Seen(v) = "absent"
    BY DEF Init, OverlayInit, Seen, Mounted
  <2> QED
    BY <2>1 DEF Init, OverlayInit, Contract!Init, Outlived
<1>2. Sound /\ Calm /\ (Sound /\ Calm)' /\ [Next]_vars => [Contract!Next]_(Contract!vars)
  BY StepKeeps
<1> QED
  BY <1>1, <1>2, StaysCalm, PTL DEF Spec, KeepsContract, Contract!Spec

=============================================================================
