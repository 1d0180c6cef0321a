--------------------------- MODULE ProgramProofs ---------------------------
(***************************************************************************)
(* Theorems about Program, and with it about Overlay, Server and Proxy,    *)
(* for every set of volumes, every bound and every combination of faults.  *)
(***************************************************************************)
EXTENDS Program, TLAPS

(***************************************************************************)
(* Facts about the operators that change the mounts and the calls.         *)
(***************************************************************************)

\* The visible mount of a mounted target is one of its mounts.
LEMMA TopType ==
    ASSUME stack \in [Volumes -> Seq(Layer)], NEW v \in Volumes, Mounted(v)
    PROVE  /\ Len(stack[v]) \in Nat \ {0}
           /\ Len(stack[v]) \in DOMAIN stack[v]
           /\ Top(v) \in Layer
<1>1. stack[v] \in Seq(Layer) /\ stack[v] # <<>>
  BY DEF Mounted
<1>2. Len(stack[v]) \in Nat \ {0} /\ DOMAIN stack[v] = 1 .. Len(stack[v])
  BY <1>1
<1>3. stack[v][Len(stack[v])] \in Layer
  BY <1>1, <1>2
<1> QED
  BY <1>2, <1>3 DEF Top

\* Mounting something on a target changes that target alone, and keeps the type.
LEMMA PushType ==
    ASSUME stack \in [Volumes -> Seq(Layer)], NEW v \in Volumes, NEW l \in Layer, Push(v, l)
    PROVE  /\ stack' \in [Volumes -> Seq(Layer)]
           /\ stack'[v] = Append(stack[v], l)
           /\ \A w \in Volumes \ {v} : stack'[w] = stack[w]
<1>1. Append(stack[v], l) \in Seq(Layer)
  OBVIOUS
<1> QED
  BY <1>1 DEF Push

\* Unmounting changes one target alone, and keeps the type.
LEMMA PopType ==
    ASSUME stack \in [Volumes -> Seq(Layer)], NEW v \in Volumes, Pop(v)
    PROVE  /\ stack' \in [Volumes -> Seq(Layer)]
           /\ stack'[v] = IF stack[v] = <<>> THEN <<>> ELSE SubSeq(stack[v], 1, Len(stack[v]) - 1)
           /\ \A w \in Volumes \ {v} : stack'[w] = stack[w]
<1>1. stack[v] # <<>> => SubSeq(stack[v], 1, Len(stack[v]) - 1) \in Seq(Layer)
  <2> SUFFICES ASSUME stack[v] # <<>>
               PROVE  SubSeq(stack[v], 1, Len(stack[v]) - 1) \in Seq(Layer)
    OBVIOUS
  <2>1. stack[v] \in Seq(Layer) /\ Len(stack[v]) \in Nat
    OBVIOUS
  <2>2. \A i \in 1 .. Len(stack[v]) - 1 : stack[v][i] \in Layer
    BY <2>1
  <2> QED
    BY <2>1, <2>2
<1> QED
  BY <1>1 DEF Pop

\* Making the visible mount read-only changes nothing else, and keeps the type.
LEMMA SealType ==
    ASSUME stack \in [Volumes -> Seq(Layer)], NEW v \in Volumes, Mounted(v),
           stack' = [stack EXCEPT ![v][Len(stack[v])].ro = TRUE]
    PROVE  /\ stack' \in [Volumes -> Seq(Layer)]
           /\ Len(stack'[v]) = Len(stack[v])
           /\ stack'[v][Len(stack[v])] = [Top(v) EXCEPT !.ro = TRUE]
           /\ \A i \in 1 .. Len(stack[v]) - 1 : stack'[v][i] = stack[v][i]
           /\ \A w \in Volumes \ {v} : stack'[w] = stack[w]
<1> DEFINE s == stack[v]
           l == [Top(v) EXCEPT !.ro = TRUE]
<1>1. s \in Seq(Layer) /\ Len(s) \in Nat \ {0} /\ Len(s) \in DOMAIN s /\ Top(v) \in Layer
  BY TopType
<1>2. l \in Layer
  BY <1>1 DEF Layer
<1>3. stack' = [stack EXCEPT ![v] = [s EXCEPT ![Len(s)] = l]]
  BY DEF Top
<1>4. /\ [s EXCEPT ![Len(s)] = l] \in Seq(Layer)
      /\ Len([s EXCEPT ![Len(s)] = l]) = Len(s)
      /\ [s EXCEPT ![Len(s)] = l][Len(s)] = l
      /\ \A i \in 1 .. Len(s) - 1 : [s EXCEPT ![Len(s)] = l][i] = s[i]
  BY <1>1, <1>2
<1> QED
  BY <1>3, <1>4

\* A call and the fields of it.
LEMMA CallFields ==
    ASSUME NEW r \in Call
    PROVE  /\ r.at \in Labels
           /\ r.ws \in Gens \cup {0} /\ r.upper \in Gens \cup {0} /\ r.work \in Gens \cup {0}
           /\ r.id \in Mounts \cup {0}
           /\ \A l \in Labels : [r EXCEPT !.at = l] \in Call
BY DEF Call

\* A call that does nothing is a call.
LEMMA NoCallType == NoCall \in Call
BY DEF NoCall, Call, Labels

Others(v, c) == \A w \in Volumes, d \in Calls : w # v \/ d # c => call'[w][d] = call[w][d]

\* A step puts one call of one volume in place of what it was, and no other.
LEMMA ReplaceType ==
    ASSUME call \in [Volumes -> [Calls -> Call]], NEW v \in Volumes, NEW c \in Calls,
           NEW r \in Call, call' = [call EXCEPT ![v][c] = r]
    PROVE  /\ call' \in [Volumes -> [Calls -> Call]]
           /\ call'[v][c] = r
           /\ Others(v, c)
BY DEF Others

\* Goto moves one call.
LEMMA GotoType ==
    ASSUME call \in [Volumes -> [Calls -> Call]], NEW v \in Volumes, NEW c \in Calls,
           NEW l \in Labels, Goto(v, c, l)
    PROVE  /\ call' \in [Volumes -> [Calls -> Call]]
           /\ call'[v][c] = [call[v][c] EXCEPT !.at = l]
           /\ call'[v][c].at = l
           /\ Others(v, c)
<1>1. call[v][c] \in Call
  OBVIOUS
<1>2. [call[v][c] EXCEPT !.at = l] \in Call /\ [call[v][c] EXCEPT !.at = l].at = l
  BY <1>1 DEF Call
<1>3. call' = [call EXCEPT ![v][c] = [call[v][c] EXCEPT !.at = l]]
  BY DEF Goto
<1> QED
  BY <1>2, <1>3, ReplaceType

\* Leave ends one call.
LEMMA LeaveType ==
    ASSUME call \in [Volumes -> [Calls -> Call]], NEW v \in Volumes, NEW c \in Calls,
           Leave(v, c)
    PROVE  /\ call' \in [Volumes -> [Calls -> Call]]
           /\ call'[v][c] = NoCall
           /\ Others(v, c)
BY NoCallType, ReplaceType DEF Leave

BudgetOK == faults \in 0 .. MaxFaults /\ past \subseteq Remembered

\* A step draws on the budget of faults without exceeding it.
LEMMA FaultType ==
    ASSUME BudgetOK, NEW kind, Fault(kind) \/ NoFault
    PROVE  BudgetOK'
BY OverlayAssumption DEF BudgetOK, Fault, NoFault, faultVars

\* What a call may hold is what its label says.
HoldsOK == \A v \in Volumes, c \in Calls : call[v][c].id # 0 => At(v, c, "attach")

\* It stays so when one call changes and holds nothing, or is about to attach it.
LEMMA HoldsFrame ==
    ASSUME HoldsOK, NEW v \in Volumes, NEW c \in Calls, Others(v, c),
           call'[v][c].id # 0 => call'[v][c].at = "attach"
    PROVE  HoldsOK'
<1> SUFFICES ASSUME NEW w \in Volumes, NEW d \in Calls, call'[w][d].id # 0
             PROVE  call'[w][d].at = "attach"
  BY DEF HoldsOK, At
<1>1. CASE w = v /\ d = c
  BY <1>1
<1>2. CASE w # v \/ d # c
  BY <1>2 DEF HoldsOK, At, Others
<1> QED
  BY <1>1, <1>2

\* The mount of a call is a mount.
LEMMA OverlayLayerType ==
    ASSUME OverlayTypeOK, NEW v \in Volumes, NEW c \in Calls, NEW k \in Mounts \cup {0}
    PROVE  OverlayLayer(v, c, k) \in Layer
<1>1. call[v][c] \in Call
  BY DEF OverlayTypeOK
<1>2. Source(v) \in Unions
  BY OverlayAssumption DEF Source, Volumes
<1>3. decl[Source(v)].readOnly \in BOOLEAN /\ decl[Source(v)].rw \in BOOLEAN
  BY <1>2 DEF OverlayTypeOK, Decl
<1>4. LayoutReadOnly(Source(v)) \in BOOLEAN
  BY <1>3 DEF LayoutReadOnly
<1> QED
  BY <1>1, <1>4, CallFields DEF OverlayLayer, Layer

\* What a bind copies is a mount.
LEMMA BindSourceType ==
    ASSUME OverlayTypeOK, NEW v \in Volumes, NEW c \in Calls
    PROVE  BindSource(v, c) \in Layer
<1>1. call[v][c] \in Call
  BY DEF OverlayTypeOK
<1>2. CASE v \in Unions
  BY <1>1, <1>2, CallFields DEF BindSource, Layer
<1>3. CASE v \notin Unions
  <2>1. SharedFrom[v] \in Volumes
    BY <1>3, OverlayAssumption DEF Volumes
  <2>2. CASE Mounted(SharedFrom[v])
    <3>1. stack \in [Volumes -> Seq(Layer)]
      BY DEF OverlayTypeOK
    <3>2. Top(SharedFrom[v]) \in Layer
      BY <2>1, <2>2, <3>1, TopType
    <3> QED
      BY <1>3, <2>2, <3>2 DEF BindSource
  <2>3. CASE ~Mounted(SharedFrom[v])
    BY <1>3, <2>3 DEF BindSource, Layer
  <2> QED
    BY <2>2, <2>3
<1> QED
  BY <1>2, <1>3

\* The end of a call, with or without success, keeps the types of what it changes.
LEMMA EndType ==
    ASSUME OverlayTypeOK, NEW v \in Volumes, NEW c \in Calls, Succeed(v, c) \/ Fail(v, c)
    PROVE  /\ call' \in [Volumes -> [Calls -> Call]]
           /\ call'[v][c] = NoCall
           /\ Others(v, c)
           /\ HoldsOK'
           /\ awaited' \in [Volumes -> Calls \cup {0}]
           /\ published' \subseteq Volumes
<1>1. Leave(v, c) /\ Answers(v, c)
  BY DEF Succeed, Fail
<1>2. /\ call' \in [Volumes -> [Calls -> Call]]
      /\ call'[v][c] = NoCall
      /\ Others(v, c)
  BY <1>1, LeaveType DEF OverlayTypeOK
<1>3. HoldsOK'
  <2>1. HoldsOK
    BY DEF OverlayTypeOK, HoldsOK
  <2>2. call'[v][c].id = 0
    BY <1>2 DEF NoCall
  <2> QED
    BY <1>2, <2>1, <2>2, HoldsFrame
<1>4. awaited' \in [Volumes -> Calls \cup {0}]
  BY <1>1 DEF Answers, OverlayTypeOK
<1>5. published' \subseteq Volumes
  BY DEF Succeed, Fail, OverlayTypeOK
<1> QED
  BY <1>2, <1>3, <1>4, <1>5

\* So does a step to a label at which nothing is held.
LEMMA MoveType ==
    ASSUME OverlayTypeOK, NEW v \in Volumes, NEW c \in Calls, NEW l \in Labels,
           Goto(v, c, l), ~At(v, c, "attach")
    PROVE  /\ call' \in [Volumes -> [Calls -> Call]]
           /\ HoldsOK'
<1>1. /\ call' \in [Volumes -> [Calls -> Call]]
      /\ call'[v][c] = [call[v][c] EXCEPT !.at = l]
      /\ Others(v, c)
  BY GotoType DEF OverlayTypeOK
<1>2. call[v][c] \in Call /\ call[v][c].id = 0
  BY DEF OverlayTypeOK
<1>3. call'[v][c].id = 0
  BY <1>1, <1>2 DEF Call
<1>4. HoldsOK
  BY DEF OverlayTypeOK, HoldsOK
<1> QED
  BY <1>1, <1>3, <1>4, HoldsFrame

\* A call that is given something to hold keeps the types.
LEMMA GrowType ==
    ASSUME OverlayTypeOK, NEW v \in Volumes, NEW c \in Calls, NEW r \in Call,
           call' = [call EXCEPT ![v][c] = r], r.id # 0 => r.at = "attach"
    PROVE  /\ call' \in [Volumes -> [Calls -> Call]]
           /\ HoldsOK'
<1>1. /\ call' \in [Volumes -> [Calls -> Call]]
      /\ call'[v][c] = r
      /\ Others(v, c)
  BY ReplaceType DEF OverlayTypeOK
<1>2. HoldsOK
  BY DEF OverlayTypeOK, HoldsOK
<1> QED
  BY <1>1, <1>2, HoldsFrame

\* Kubelet's calls keep the types.
LEMMA KubeletType ==
    ASSUME OverlayTypeOK, NEW v \in Volumes, KubeletCalls(v)
    PROVE  OverlayTypeOK'
<1> PICK c \in Calls : PublishAgain(v, c) \/ Publish(v, c) \/ Unpublish(v, c)
  BY DEF KubeletCalls
<1>1. CASE PublishAgain(v, c)
  BY <1>1 DEF PublishAgain, OverlayTypeOK, givenVars, hostVars, faultVars, At
<1>2. CASE Publish(v, c)
  <2>1. call' \in [Volumes -> [Calls -> Call]] /\ HoldsOK'
    BY <1>2, MoveType DEF Publish, CanCall, At, Labels
  <2> QED
    BY <1>2, <2>1 DEF Publish, OverlayTypeOK, givenVars, hostVars, faultVars, HoldsOK
<1>3. CASE Unpublish(v, c)
  <2>1. call' \in [Volumes -> [Calls -> Call]] /\ HoldsOK'
    BY <1>3, MoveType DEF Unpublish, CanCall, At, Labels
  <2> QED
    BY <1>3, <2>1 DEF Unpublish, OverlayTypeOK, givenVars, hostVars, faultVars, HoldsOK
<1> QED
  BY <1>1, <1>2, <1>3

\* What the calls and kubelet's view of them are made of.
CallsOK ==
    /\ call \in [Volumes -> [Calls -> Call]] /\ HoldsOK
    /\ awaited \in [Volumes -> Calls \cup {0}] /\ published \subseteq Volumes

\* What the host is made of.
HostOK ==
    /\ dir \subseteq Volumes /\ stack \in [Volumes -> Seq(Layer)]
    /\ entry \in [Unions -> Gens \cup {Absent, Link}] /\ made \in [Unions -> Gens \cup {0}]

\* The type invariant in these parts.
LEMMA TypeParts ==
    OverlayTypeOK <=> /\ CallsOK /\ HostOK /\ BudgetOK
                      /\ decl \in [Unions -> Decl] /\ fsopen \in BOOLEAN
                      /\ deleted \in BOOLEAN /\ done \subseteq Volumes
BY DEF OverlayTypeOK, CallsOK, HostOK, BudgetOK, HoldsOK

\* A step that keeps them keeps the type invariant.
LEMMA TypeFrame ==
    ASSUME OverlayTypeOK, CallsOK', HostOK', BudgetOK', UNCHANGED <<decl, fsopen, deleted>>,
           done' \subseteq Volumes
    PROVE  OverlayTypeOK'
BY DEF OverlayTypeOK, CallsOK, HostOK, BudgetOK, HoldsOK

\* The end of a call in these terms.
LEMMA EndsOK ==
    ASSUME OverlayTypeOK, NEW v \in Volumes, NEW c \in Calls, Succeed(v, c) \/ Fail(v, c)
    PROVE  CallsOK'
BY EndType DEF CallsOK

\* Every step of a call keeps the types.
LEMMA CallType ==
    ASSUME OverlayTypeOK, NEW v \in Volumes, NEW c \in Calls, CallStep(v, c)
    PROVE  OverlayTypeOK'
<1> USE DEF givenVars, kubeletVars, hostVars, faultVars
<1>p. CallsOK /\ HostOK /\ BudgetOK /\ done \subseteq Volumes
  BY TypeParts
<1>r. call[v][c] \in Call /\ Source(v) \in Unions
  BY <1>p, OverlayAssumption DEF CallsOK, Source, Volumes
<1>n. NoFault => BudgetOK'
  BY <1>p DEF NoFault, BudgetOK
<1>1. CASE SourcesReady(v, c)
  <2>1. FirstStep(v) \in Labels
    BY DEF FirstStep, Labels
  <2>2. call' \in [Volumes -> [Calls -> Call]] /\ HoldsOK'
    BY <1>1, <2>1, MoveType DEF SourcesReady, At
  <2>3. CallsOK'
    BY <1>1, <1>p, <2>2 DEF SourcesReady, CallsOK
  <2>4. HostOK' /\ BudgetOK'
    BY <1>1, <1>p DEF SourcesReady, HostOK, BudgetOK
  <2> QED
    BY <1>p, <1>1, <2>3, <2>4, TypeFrame DEF SourcesReady
<1>2. CASE SourcesFail(v, c)
  <2>1. CallsOK'
    BY <1>2, EndsOK DEF SourcesFail
  <2>2. HostOK' /\ BudgetOK'
    BY <1>2, <1>p, FaultType DEF SourcesFail, HostOK
  <2> QED
    BY <1>p, <1>2, <2>1, <2>2, TypeFrame DEF SourcesFail
<1>3. CASE OpenWorkspace(v, c)
  <2> DEFINE u == Source(v)
             g == IF entry[u] = Absent THEN made[u] + 1 ELSE entry[u]
  <2>1. CASE /\ decl[u].upperFS
             /\ g \in Gens
             /\ entry' = [entry EXCEPT ![u] = g]
             /\ made' = [made EXCEPT ![u] = IF g > @ THEN g ELSE @]
             /\ call' = [call EXCEPT ![v][c].at = "upper", ![v][c].ws = g]
             /\ UNCHANGED <<awaited, published, faultVars>>
    <3> DEFINE r == [call[v][c] EXCEPT !.at = "upper", !.ws = g]
    <3>1. call' = [call EXCEPT ![v][c] = r]
      BY <2>1, <1>p, <1>r DEF CallsOK, Call
    <3>2. r \in Call /\ r.id = call[v][c].id
      BY <2>1, <1>r DEF Call, Labels
    <3>3. call[v][c].id = 0
      BY <1>3, <1>p DEF OpenWorkspace, CallsOK, HoldsOK, At
    <3> HIDE DEF r
    <3>4. call' \in [Volumes -> [Calls -> Call]] /\ HoldsOK'
      BY <3>1, <3>2, <3>3, GrowType
    <3>5. CallsOK'
      BY <2>1, <1>p, <3>4 DEF CallsOK
    <3>6. HostOK'
      BY <2>1, <1>3, <1>p, <1>r DEF HostOK, OpenWorkspace
    <3>7. BudgetOK'
      BY <2>1, <1>p DEF BudgetOK
    <3> QED
      BY <1>p, <1>3, <3>5, <3>6, <3>7, TypeFrame DEF OpenWorkspace
  <2>2. CASE /\ ((~decl[u].upperFS \/ entry[u] = Link) /\ NoFault) \/ Fault("open")
             /\ Fail(v, c)
             /\ UNCHANGED <<entry, made>>
    <3>1. CallsOK'
      BY <2>2, EndsOK
    <3>2. HostOK' /\ BudgetOK'
      BY <1>3, <2>2, <1>p, FaultType DEF OpenWorkspace, HostOK
    <3> QED
      BY <1>p, <1>3, <3>1, <3>2, TypeFrame DEF OpenWorkspace
  <2> QED
    BY <1>3, <2>1, <2>2 DEF OpenWorkspace
<1>4. CASE OpenUpper(v, c)
  <2>h. HostOK'
    BY <1>4, <1>p DEF OpenUpper, HostOK
  <2>1. CASE Fail(v, c)
    <3>1. CallsOK' /\ BudgetOK'
      BY <1>4, <1>p, <2>1, EndsOK, FaultType DEF OpenUpper, BudgetOK
    <3> QED
      BY <1>p, <1>4, <2>h, <3>1, TypeFrame DEF OpenUpper
  <2>2. CASE ~Fail(v, c)
    <3> DEFINE r == [call[v][c] EXCEPT !.at = "work", !.upper = call[v][c].ws]
    <3>1. call' = [call EXCEPT ![v][c] = r]
      BY <1>4, <2>2, <1>p, <1>r DEF OpenUpper, CallsOK, Call
    <3>2. r \in Call /\ r.id = call[v][c].id
      BY <1>r DEF Call, Labels
    <3>3. call[v][c].id = 0
      BY <1>4, <1>p DEF OpenUpper, CallsOK, HoldsOK, At
    <3> HIDE DEF r
    <3>4. call' \in [Volumes -> [Calls -> Call]] /\ HoldsOK'
      BY <3>1, <3>2, <3>3, GrowType
    <3>5. CallsOK' /\ BudgetOK'
      BY <1>4, <2>2, <1>p, <3>4 DEF CallsOK, BudgetOK, OpenUpper
    <3> QED
      BY <1>p, <1>4, <2>h, <3>5, TypeFrame DEF OpenUpper
  <2> QED
    BY <2>1, <2>2
<1>5. CASE OpenWork(v, c)
  <2>h. HostOK'
    BY <1>5, <1>p DEF OpenWork, HostOK
  <2>1. CASE Fail(v, c)
    <3>1. CallsOK' /\ BudgetOK'
      BY <1>5, <1>p, <2>1, EndsOK, FaultType DEF OpenWork, BudgetOK
    <3> QED
      BY <1>p, <1>5, <2>h, <3>1, TypeFrame DEF OpenWork
  <2>2. CASE ~Fail(v, c)
    <3> DEFINE r == [call[v][c] EXCEPT !.at = AfterWork(Source(v)), !.work = call[v][c].ws]
    <3>1. call' = [call EXCEPT ![v][c] = r]
      BY <1>5, <2>2, <1>p, <1>r DEF OpenWork, CallsOK, Call
    <3>2. r \in Call /\ r.id = call[v][c].id
      BY <1>r DEF Call, Labels, AfterWork
    <3>3. call[v][c].id = 0
      BY <1>5, <1>p DEF OpenWork, CallsOK, HoldsOK, At
    <3> HIDE DEF r
    <3>4. call' \in [Volumes -> [Calls -> Call]] /\ HoldsOK'
      BY <3>1, <3>2, <3>3, GrowType
    <3>5. CallsOK' /\ BudgetOK'
      BY <1>5, <2>2, <1>p, <3>4 DEF CallsOK, BudgetOK, OpenWork
    <3> QED
      BY <1>p, <1>5, <2>h, <3>5, TypeFrame DEF OpenWork
  <2> QED
    BY <2>1, <2>2
<1>6. CASE Create(v, c)
  <2>h. HostOK'
    BY <1>6, <1>p DEF Create, HostOK
  <2>1. CASE Fail(v, c)
    <3>1. CallsOK' /\ BudgetOK'
      BY <1>6, <1>p, <2>1, EndsOK, FaultType DEF Create, BudgetOK
    <3> QED
      BY <1>p, <1>6, <2>h, <3>1, TypeFrame DEF Create
  <2>2. CASE ~Fail(v, c)
    <3>0. PICK k \in Mounts : call' = [call EXCEPT ![v][c].at = "attach", ![v][c].id = k]
      BY <1>6, <2>2 DEF Create, FreshIds
    <3> DEFINE r == [call[v][c] EXCEPT !.at = "attach", !.id = k]
    <3>1. call' = [call EXCEPT ![v][c] = r]
      BY <3>0, <1>p, <1>r DEF CallsOK, Call
    <3>2. r \in Call /\ r.at = "attach"
      BY <1>r DEF Call, Labels
    <3> HIDE DEF r
    <3>4. call' \in [Volumes -> [Calls -> Call]] /\ HoldsOK'
      BY <3>1, <3>2, GrowType
    <3>5. CallsOK' /\ BudgetOK'
      BY <1>6, <2>2, <1>p, <3>4 DEF CallsOK, BudgetOK, Create
    <3> QED
      BY <1>p, <1>6, <2>h, <3>5, TypeFrame DEF Create
  <2> QED
    BY <2>1, <2>2
<1>7. CASE Attach(v, c)
  <2>1. CallsOK' /\ BudgetOK'
    BY <1>7, <1>p, <1>n, EndsOK, FaultType DEF Attach
  <2>2. OverlayLayer(v, c, call[v][c].id) \in Layer
    BY <1>r, OverlayLayerType, CallFields
  <2>3. stack' \in [Volumes -> Seq(Layer)]
    BY <1>7, <1>p, <2>2, PushType DEF Attach, HostOK
  <2>4. HostOK'
    BY <1>7, <1>p, <2>3 DEF Attach, HostOK
  <2> QED
    BY <1>p, <1>7, <2>1, <2>4, TypeFrame DEF Attach
<1>8. CASE MountClassic(v, c)
  <2>1. CallsOK' /\ BudgetOK'
    BY <1>8, <1>p, <1>n, EndsOK, FaultType DEF MountClassic
  <2>2. \A k \in FreshIds : OverlayLayer(v, c, k) \in Layer
    BY OverlayLayerType DEF FreshIds
  <2>3. stack' \in [Volumes -> Seq(Layer)]
    BY <1>8, <1>p, <2>2, PushType DEF MountClassic, HostOK
  <2>4. HostOK'
    BY <1>8, <1>p, <2>3 DEF MountClassic, HostOK
  <2> QED
    BY <1>p, <1>8, <2>1, <2>4, TypeFrame DEF MountClassic
<1>9. CASE Bind(v, c)
  <2>1. CallsOK'
    <3>1. CASE Succeed(v, c) \/ Fail(v, c)
      BY <3>1, EndsOK
    <3>2. CASE Goto(v, c, "remount") /\ UNCHANGED <<awaited, published>>
      <4>1. call' \in [Volumes -> [Calls -> Call]] /\ HoldsOK'
        BY <1>9, <3>2, MoveType DEF Bind, At, Labels
      <4> QED
        BY <1>p, <3>2, <4>1 DEF CallsOK
    <3> QED
      BY <1>9, <3>1, <3>2 DEF Bind
  <2>2. BudgetOK'
    BY <1>9, <1>p, <1>n, FaultType DEF Bind
  <2>3. stack' \in [Volumes -> Seq(Layer)]
    BY <1>9, <1>p, BindSourceType, PushType DEF Bind, HostOK
  <2>4. HostOK'
    BY <1>9, <1>p, <2>3 DEF Bind, HostOK
  <2> QED
    BY <1>p, <1>9, <2>1, <2>2, <2>4, TypeFrame DEF Bind
<1>10. CASE Remount(v, c)
  <2>1. CallsOK' /\ BudgetOK'
    BY <1>10, <1>p, <1>n, EndsOK, FaultType DEF Remount
  <2>2. stack' \in [Volumes -> Seq(Layer)]
    <3>1. CASE Mounted(v) /\ stack' = [stack EXCEPT ![v][Len(stack[v])].ro = TRUE]
      BY <1>p, <3>1, SealType DEF HostOK
    <3> QED
      BY <1>10, <1>p, <3>1, PopType DEF Remount, HostOK
  <2>3. HostOK'
    BY <1>10, <1>p, <2>2 DEF Remount, HostOK
  <2> QED
    BY <1>p, <1>10, <2>1, <2>3, TypeFrame DEF Remount
<1>11. CASE Unmount(v, c)
  <2>1. CallsOK'
    <3>1. CASE Fail(v, c)
      BY <3>1, EndsOK
    <3>2. CASE Goto(v, c, "remove") /\ UNCHANGED <<awaited, published>>
      <4>1. call' \in [Volumes -> [Calls -> Call]] /\ HoldsOK'
        BY <1>11, <3>2, MoveType DEF Unmount, At, Labels
      <4> QED
        BY <1>p, <3>2, <4>1 DEF CallsOK
    <3> QED
      BY <1>11, <3>1, <3>2 DEF Unmount
  <2>2. BudgetOK'
    BY <1>11, <1>p, FaultType DEF Unmount, BudgetOK
  <2>3. HostOK'
    BY <1>11, <1>p, PopType DEF Unmount, HostOK
  <2> QED
    BY <1>p, <1>11, <2>1, <2>2, <2>3, TypeFrame DEF Unmount
<1>12. CASE RemoveTarget(v, c)
  <2>1. /\ call' \in [Volumes -> [Calls -> Call]]
        /\ call'[v][c] = NoCall
        /\ Others(v, c)
    BY <1>12, <1>p, LeaveType DEF RemoveTarget, CallsOK
  <2>2. HoldsOK'
    BY <1>p, <2>1, HoldsFrame DEF CallsOK, NoCall
  <2>3. CallsOK'
    BY <1>12, <1>p, <2>1, <2>2 DEF RemoveTarget, CallsOK, Answers
  <2>4. HostOK' /\ BudgetOK' /\ done' \subseteq Volumes
    BY <1>12, <1>p, TypeParts DEF RemoveTarget, HostOK, BudgetOK
  <2> QED
    BY <1>p, <1>12, <2>3, <2>4, TypeFrame DEF RemoveTarget
<1> QED
  BY <1>1, <1>2, <1>3, <1>4, <1>5, <1>6, <1>7, <1>8, <1>9, <1>10, <1>11, <1>12 DEF CallStep

\* What happens around the driver keeps the types.
LEMMA SurroundingsType ==
    ASSUME OverlayTypeOK, Surroundings
    PROVE  OverlayTypeOK'
<1> USE DEF givenVars, kubeletVars, hostVars, faultVars
<1>p. CallsOK /\ HostOK /\ BudgetOK /\ done \subseteq Volumes
  BY TypeParts
<1>1. CASE DeletePod
  BY <1>1 DEF DeletePod, OverlayTypeOK, At
<1>2. CASE \E v \in Volumes : KubeletGivesUp(v) \/ KubeletForgets(v)
  <2>1. CallsOK'
    BY <1>2, <1>p DEF KubeletGivesUp, KubeletForgets, CallsOK, HoldsOK, At
  <2>2. HostOK' /\ BudgetOK'
    BY <1>2, <1>p, FaultType DEF KubeletGivesUp, KubeletForgets, HostOK
  <2> QED
    BY <1>2, <1>p, <2>1, <2>2, TypeFrame DEF KubeletGivesUp, KubeletForgets
<1>3. CASE \E u \in Unions : VolumeChanges(u)
  <2>1. CallsOK'
    BY <1>3, <1>p DEF VolumeChanges, CallsOK, HoldsOK, At
  <2>2. BudgetOK'
    BY <1>3, <1>p, FaultType DEF VolumeChanges
  <2>3. HostOK'
    <3> PICK u \in Unions : VolumeChanges(u)
      BY <1>3
    <3> PICK e \in Gens \cup {Absent, Link} :
               /\ entry' = [entry EXCEPT ![u] = e]
               /\ made' = [made EXCEPT ![u] = IF e > @ THEN e ELSE @]
      BY DEF VolumeChanges
    <3>1. (IF e > made[u] THEN e ELSE made[u]) \in Gens \cup {0}
      BY <1>p, OverlayAssumption DEF HostOK, Gens, Absent, Link
    <3> QED
      BY <1>p, <3>1 DEF HostOK, VolumeChanges
  <2> QED
    BY <1>3, <1>p, <2>1, <2>2, <2>3, TypeFrame DEF VolumeChanges
<1> QED
  BY <1>1, <1>2, <1>3 DEF Surroundings

\* The end of every call at once keeps the types, and leaves no handler.
LEMMA CallsEndType ==
    ASSUME OverlayTypeOK, DriverKilled \/ NodeReboots
    PROVE  OverlayTypeOK' /\ ~Busy'
<1> USE DEF givenVars, kubeletVars, hostVars, faultVars
<1>p. CallsOK /\ HostOK /\ BudgetOK /\ done \subseteq Volumes
  BY TypeParts
<1>1. call' = NoCalls /\ awaited' = [v \in Volumes |-> 0]
  BY DEF DriverKilled, NodeReboots, CallsEnd
<1>2. \A v \in Volumes, c \in Calls : call'[v][c] = NoCall
  BY <1>1 DEF NoCalls
<1>3. HoldsOK' /\ ~Busy'
  BY <1>2 DEF HoldsOK, Busy, At, NoCall
<1>4. CallsOK'
  <2>1. call' \in [Volumes -> [Calls -> Call]]
    BY <1>1, NoCallType DEF NoCalls
  <2> QED
    BY <1>1, <1>3, <1>p, <2>1 DEF CallsOK, DriverKilled, NodeReboots
<1>5. HostOK'
  <2>1. stack' \in [Volumes -> Seq(Layer)]
    <3>1. <<>> \in Seq(Layer)
      OBVIOUS
    <3> QED
      BY <1>p, <3>1 DEF HostOK, DriverKilled, NodeReboots
  <2> QED
    BY <1>p, <2>1 DEF HostOK, DriverKilled, NodeReboots
<1>6. BudgetOK'
  BY <1>p, FaultType DEF DriverKilled, NodeReboots
<1> QED
  BY <1>3, <1>4, <1>5, <1>6, <1>p, TypeFrame DEF DriverKilled, NodeReboots

\* The backend begins in a state of the right type, with no call.
LEMMA OverlayInitType ==
    ASSUME OverlayInit
    PROVE  OverlayTypeOK /\ ~Busy
<1>1. \A v \in Volumes, c \in Calls : call[v][c] = NoCall
  BY DEF OverlayInit, NoCalls
<1>2. HoldsOK /\ ~Busy
  BY <1>1 DEF HoldsOK, Busy, At, NoCall
<1>3. CallsOK
  <2>1. call \in [Volumes -> [Calls -> Call]]
    BY NoCallType DEF OverlayInit, NoCalls
  <2> QED
    BY <1>2, <2>1 DEF CallsOK, OverlayInit
<1>4. HostOK /\ BudgetOK
  BY OverlayAssumption DEF HostOK, BudgetOK, OverlayInit, Absent
<1> QED
  BY <1>2, <1>3, <1>4, TypeParts DEF OverlayInit

-----------------------------------------------------------------------------
(***************************************************************************)
(* The server.                                                             *)
(***************************************************************************)

\* A handler runs only under a server that accepts, or that stopped accepting and waits; and
\* main gets that far only with a server to stop.
ServerInv ==
    /\ ServerTypeOK
    /\ Busy => serving \in {"accept", "end"} /\ main # "cleanup"
    /\ main \in {"drain", "cleanup"} => serving \in {"cleanup", "serve", "end"}

\* No step of a handler begins one.
LEMMA CallStepBusy ==
    ASSUME OverlayTypeOK, NEW v \in Volumes, NEW c \in Calls, CallStep(v, c)
    PROVE  Busy
<1>1. ~At(v, c, "idle")
  BY DEF CallStep, At, SourcesReady, SourcesFail, OpenWorkspace, OpenUpper, OpenWork, Create,
         Attach, MountClassic, Bind, Remount, Unmount, RemoveTarget
<1> QED
  BY <1>1 DEF Busy

\* Every step of the driver keeps the invariant of the server.
LEMMA DriverInv ==
    ASSUME OverlayTypeOK, ServerInv, Driver
    PROVE  OverlayTypeOK' /\ ServerInv'
<1> USE DEF serverVars
<1>1. CASE Handlers /\ UNCHANGED serverVars
  <2>1. CASE Reachable /\ \E v \in Volumes : KubeletCalls(v)
    <3>1. OverlayTypeOK'
      BY <2>1, KubeletType
    <3>2. serving = "accept" /\ main # "cleanup"
      BY <2>1 DEF Reachable, ServerInv
    <3> QED
      BY <1>1, <3>1, <3>2 DEF ServerInv, ServerTypeOK, Running
  <2>2. CASE \E v \in Volumes, c \in Calls : CallStep(v, c)
    BY <1>1, <2>2, CallType, CallStepBusy DEF ServerInv, ServerTypeOK, Running
  <2> QED
    BY <1>1, <2>1, <2>2 DEF Handlers
<1>2. CASE Surroundings /\ UNCHANGED serverVars
  <2>1. UNCHANGED call
    BY <1>2 DEF Surroundings, DeletePod, KubeletGivesUp, KubeletForgets, VolumeChanges
  <2>2. Busy' <=> Busy
    BY <2>1 DEF Busy, At
  <2> QED
    BY <1>2, <2>2, SurroundingsType DEF ServerInv, ServerTypeOK, Running
<1>3. CASE (ProcessStarts \/ ServerStep \/ Drains) /\ UNCHANGED overlayVars
  <2>1. OverlayTypeOK'
    BY <1>3 DEF OverlayTypeOK, overlayVars, givenVars, kubeletVars, hostVars, faultVars, At
  <2>2. Busy' <=> Busy
    BY <1>3 DEF Busy, At, overlayVars
  <2>3. ServerTypeOK'
    BY <1>3 DEF ServerInv, ServerTypeOK, ProcessStarts, ServerStep, Drains, Drained, RemoveSocket,
                Listen, SetField, Serve, GracefulStop, Cleanup, ProcessEnds, Running,
                ServingSteps, MainSteps
  <2>4. /\ Busy => serving' \in {"accept", "end"} /\ main' # "cleanup"
        /\ main' \in {"drain", "cleanup"} => serving' \in {"cleanup", "serve", "end"}
    BY <1>3 DEF ServerInv, ServerTypeOK, ProcessStarts, ServerStep, Drains, Drained, RemoveSocket,
                Listen, SetField, Serve, GracefulStop, Cleanup, ProcessEnds, Running
  <2> QED
    BY <2>1, <2>2, <2>3, <2>4 DEF ServerInv
<1>4. CASE Signalled \/ ListenFails
  <2>1. BudgetOK'
    BY <1>4, TypeParts, FaultType DEF Signalled, ListenFails
  <2>2. OverlayTypeOK'
    BY <1>4, <2>1 DEF Signalled, ListenFails, OverlayTypeOK, BudgetOK, givenVars, kubeletVars,
                      hostVars, At
  <2>3. Busy' <=> Busy
    BY <1>4 DEF Busy, At, Signalled, ListenFails
  <2>4. ServerTypeOK'
    BY <1>4 DEF Signalled, ListenFails, Signal, ProcessEnds, ServerInv, ServerTypeOK, Running,
                ServingSteps, MainSteps
  <2>5. /\ Busy => serving' \in {"accept", "end"} /\ main' # "cleanup"
        /\ main' \in {"drain", "cleanup"} => serving' \in {"cleanup", "serve", "end"}
    BY <1>4 DEF Signalled, ListenFails, Signal, ProcessEnds, ServerInv
  <2> QED
    BY <2>2, <2>3, <2>4, <2>5 DEF ServerInv
<1>5. CASE ProcessEnds /\ (DriverKilled \/ NodeReboots)
  <2>1. OverlayTypeOK' /\ ~Busy'
    BY <1>5, CallsEndType
  <2> QED
    BY <1>5, <2>1 DEF ProcessEnds, ServerInv, ServerTypeOK, Running, ServingSteps, MainSteps
<1> QED
  BY <1>1, <1>2, <1>3, <1>4, <1>5 DEF Driver

-----------------------------------------------------------------------------
(***************************************************************************)
(* The proxy.                                                              *)
(***************************************************************************)

\* No more clients are queued than came.
QueuesOK ==
    /\ queued \in [Ends -> 0 .. MaxConnections] /\ clients \in [Ends -> 0 .. MaxConnections]
    /\ \A e \in Ends : queued[e] <= clients[e]

\* Clients hang up on pairs that were made.
PairsOK == pairs \in Seq(SUBSET Ends) /\ hungUp \subseteq (DOMAIN pairs) \X Ends

\* Where the two goroutines are.
StepsOK ==
    /\ listening \subseteq Ends /\ closing \in 0 .. 4
    /\ acceptor \in {"listen1", "listen2", "first", "second", "ended"}

\* A connection waits only for a second one.
WaitOK == waiting \in BOOLEAN /\ cancelled \in BOOLEAN /\ (waiting => acceptor = "second")

ProxyInv == QueuesOK /\ PairsOK /\ StepsOK /\ WaitOK

\* The invariant has the types of the proxy's state.
LEMMA ProxyInvType == ProxyInv => ProxyTypeOK
BY DEF ProxyInv, QueuesOK, PairsOK, StepsOK, WaitOK, ProxyTypeOK

\* Every step of the proxy keeps its invariant.
LEMMA ProxyKeeps ==
    ASSUME ProxyInv, ProxyNext
    PROVE  ProxyInv'
<1> USE DEF Ends
<1>t. QueuesOK /\ PairsOK /\ StepsOK /\ WaitOK
  BY DEF ProxyInv
<1>1. CASE Listens
  <2>1. QueuesOK' /\ PairsOK'
    BY <1>1, <1>t DEF Listens, ListenOn, QueuesOK, PairsOK
  <2>2. StepsOK'
    <3> PICK e \in Ends : ListenOn(e)
      BY <1>1 DEF Listens
    <3>1. listening' \subseteq Ends
      BY <1>t DEF ListenOn, StepsOK
    <3>2. closing' \in 0 .. 4
      BY <1>t DEF ListenOn, StepsOK
    <3>3. acceptor' \in {"listen1", "listen2", "first", "second", "ended"}
      BY DEF ListenOn
    <3> QED
      BY <3>1, <3>2, <3>3 DEF StepsOK
  <2>3. ~waiting /\ waiting' = waiting /\ cancelled' = cancelled
    BY <1>1, <1>t DEF Listens, ListenOn, WaitOK
  <2> QED
    BY <1>t, <2>1, <2>2, <2>3 DEF ProxyInv, WaitOK
<1>2. CASE AcceptFirst
  <2>1. QueuesOK'
    BY <1>2, <1>t, ProxyAssumption DEF AcceptFirst, Take, QueuesOK
  <2>2. PairsOK' /\ StepsOK'
    BY <1>2, <1>t DEF AcceptFirst, PairsOK, StepsOK
  <2>3. waiting' \in BOOLEAN /\ cancelled' \in BOOLEAN
    BY <1>2, <1>t DEF AcceptFirst, WaitOK
  <2>4. waiting' => acceptor' = "second"
    BY <1>2, <1>t DEF AcceptFirst, WaitOK
  <2> QED
    BY <2>1, <2>2, <2>3, <2>4 DEF ProxyInv, WaitOK
<1>3. CASE AcceptSecond
  <2>1. QueuesOK'
    BY <1>3, <1>t, ProxyAssumption DEF AcceptSecond, Take, QueuesOK
  <2>2. PairsOK'
    <3>1. CASE pairs' = Append(pairs, Ends)
      <4>1. pairs' \in Seq(SUBSET Ends) /\ Len(pairs') = Len(pairs) + 1 /\ Len(pairs) \in Nat
        BY <1>t, <3>1 DEF PairsOK
      <4>2. DOMAIN pairs = 1 .. Len(pairs) /\ DOMAIN pairs' = 1 .. Len(pairs')
        BY <1>t, <4>1 DEF PairsOK
      <4>3. DOMAIN pairs \subseteq DOMAIN pairs'
        BY <4>1, <4>2
      <4> QED
        BY <1>3, <1>t, <4>1, <4>3 DEF AcceptSecond, PairsOK
    <3> QED
      BY <1>3, <1>t, <3>1 DEF AcceptSecond, PairsOK
  <2>3. StepsOK'
    BY <1>3, <1>t DEF AcceptSecond, StepsOK
  <2>4. waiting' = FALSE /\ cancelled' = cancelled
    BY <1>3 DEF AcceptSecond
  <2> QED
    BY <1>t, <2>1, <2>2, <2>3, <2>4 DEF ProxyInv, WaitOK
<1>4. CASE Copies
  <2>1. pairs' \in Seq(SUBSET Ends) /\ DOMAIN pairs' = DOMAIN pairs
    BY <1>4, <1>t DEF Copies, CopyEnds, PairsOK
  <2>2. PairsOK'
    BY <1>4, <1>t, <2>1 DEF Copies, CopyEnds, PairsOK
  <2> QED
    BY <1>4, <1>t, <2>2 DEF Copies, CopyEnds, ProxyInv, QueuesOK, StepsOK, WaitOK
<1>5. CASE Close
  <2>1. QueuesOK'
    BY <1>5, <1>t, ProxyAssumption DEF Close, QueuesOK
  <2>2. PairsOK' /\ StepsOK'
    BY <1>5, <1>t DEF Close, PairsOK, StepsOK
  <2> QED
    BY <1>5, <1>t, <2>1, <2>2 DEF Close, ProxyInv, WaitOK
<1>6. CASE CloseBegins
  BY <1>6, <1>t DEF CloseBegins, ProxyInv, QueuesOK, PairsOK, StepsOK, WaitOK
<1>7. CASE \E e \in Ends : Connect(e)
  <2>1. QueuesOK'
    BY <1>7, <1>t, ProxyAssumption DEF Connect, QueuesOK
  <2> QED
    BY <1>7, <1>t, <2>1 DEF Connect, ProxyInv, PairsOK, StepsOK, WaitOK
<1>8. CASE \E e \in Ends : \E i \in DOMAIN pairs : HangUp(i, e)
  BY <1>8, <1>t DEF HangUp, ProxyInv, QueuesOK, PairsOK, StepsOK, WaitOK
<1> QED
  BY <1>1, <1>2, <1>3, <1>4, <1>5, <1>6, <1>7, <1>8 DEF ProxyNext, Accepts, Outside

\* It holds at first, and while the proxy does nothing.
LEMMA ProxyRests ==
    /\ ProxyInit => ProxyInv
    /\ ProxyInv /\ UNCHANGED proxyVars => ProxyInv'
<1>1. ASSUME ProxyInit PROVE ProxyInv
  <2>1. QueuesOK /\ StepsOK
    BY <1>1, ProxyAssumption DEF ProxyInit, QueuesOK, StepsOK, Ends
  <2>2. PairsOK
    <3>1. <<>> \in Seq(SUBSET Ends)
      OBVIOUS
    <3> QED
      BY <1>1, <3>1 DEF ProxyInit, PairsOK
  <2> QED
    BY <1>1, <2>1, <2>2 DEF ProxyInit, ProxyInv, WaitOK
<1>2. ASSUME ProxyInv, UNCHANGED proxyVars PROVE ProxyInv'
  BY <1>2 DEF ProxyInv, QueuesOK, PairsOK, StepsOK, WaitOK, proxyVars
<1> QED
  BY <1>1, <1>2

-----------------------------------------------------------------------------
(***************************************************************************)
(* The program.                                                            *)
(***************************************************************************)

\* The types, with what the server and the proxy need to keep theirs.
Sound == mode \in {"driver", "proxy"} /\ OverlayTypeOK /\ ServerInv /\ ProxyInv

\* It holds at first.
LEMMA SoundInit == Init => Sound
<1> SUFFICES ASSUME Init PROVE Sound
  OBVIOUS
<1>1. OverlayTypeOK /\ ~Busy
  BY OverlayInitType DEF Init
<1>2. ServerInv
  BY <1>1 DEF Init, ServerInit, ServerInv, ServerTypeOK, Running, ServingSteps, MainSteps
<1>3. ProxyInv
  BY ProxyRests DEF Init
<1> QED
  BY <1>1, <1>2, <1>3 DEF Sound, Init

\* Every step keeps it.
LEMMA SoundNext == Sound /\ [Next]_vars => Sound'
<1> SUFFICES ASSUME Sound, [Next]_vars PROVE Sound'
  OBVIOUS
<1>1. CASE mode = "driver" /\ Driver /\ UNCHANGED <<mode, proxyVars>>
  <2>1. OverlayTypeOK' /\ ServerInv'
    BY <1>1, DriverInv DEF Sound
  <2>2. ProxyInv'
    BY <1>1, ProxyRests DEF Sound
  <2> QED
    BY <1>1, <2>1, <2>2 DEF Sound
<1>2. CASE UNCHANGED <<mode, overlayVars, serverVars>> /\ (ProxyNext \/ UNCHANGED proxyVars)
  <2>1. OverlayTypeOK'
    BY <1>2 DEF Sound, OverlayTypeOK, overlayVars, givenVars, kubeletVars, hostVars, faultVars, At
  <2>2. ServerInv'
    BY <1>2 DEF Sound, ServerInv, ServerTypeOK, Running, serverVars, Busy, At, overlayVars
  <2>3. ProxyInv'
    BY <1>2, ProxyKeeps, ProxyRests DEF Sound
  <2> QED
    BY <1>2, <2>1, <2>2, <2>3 DEF Sound
<1> QED
  BY <1>1, <1>2 DEF Next, vars

\* The types of the program's state: calls are under way only while there is a process.
THEOREM TypeCorrect == Spec => []TypeOK
<1>1. Sound => TypeOK
  BY ProxyInvType DEF Sound, TypeOK, ServerInv, Running
<1> QED
  BY <1>1, SoundInit, SoundNext, PTL DEF Spec

\* An orderly stop ends the process with no handler under way, for any number of volumes and
\* calls, wherever the goroutine that serves was when the signal came (server.go:30).
THEOREM StopWaits == Spec => StopCutsNoCall
<1>1. Sound /\ [Next]_vars => [Running /\ ~Running' /\ faults' = faults => ~Busy]_vars
  <2> SUFFICES ASSUME Sound, Next, Running, ~Running', faults' = faults
               PROVE  ~Busy
    BY DEF vars
  <2>1. faults \in Nat
    BY OverlayAssumption DEF Sound, OverlayTypeOK
  <2>2. \A kind : ~Fault(kind)
    BY <2>1 DEF Fault
  <2>3. CASE UNCHANGED serverVars
    BY <2>3 DEF serverVars, Running
  <2>4. CASE ProcessStarts \/ ServerStep \/ Drains
    BY <2>4 DEF ProcessStarts, ServerStep, Drains, Drained, RemoveSocket, Listen, SetField, Serve,
                GracefulStop, Cleanup, ProcessEnds, Running, Sound, ServerInv
  <2> QED
    BY <2>2, <2>3, <2>4 DEF Next, Driver, Signalled, ListenFails, DriverKilled, NodeReboots
<1> QED
  BY <1>1, SoundInit, SoundNext, PTL DEF Spec, StopCutsNoCall

-----------------------------------------------------------------------------
(***************************************************************************)
(* Upper and work directories.                                             *)
(***************************************************************************)

\* Between the two opens a call has the upper directory of the workspace it opened; at any
\* other time its upper and work directories are of one workspace.
PairedCall(r) == IF r.at = "work" THEN r.upper = r.ws ELSE r.upper = r.work

CallsPaired  == \A v \in Volumes, c \in Calls : PairedCall(call[v][c])
MountsPaired == \A v \in Volumes : \A i \in 1 .. Len(stack[v]) : stack[v][i].upper = stack[v][i].work

\* One call changes and has its directories of one workspace.
LEMMA PairedFrame ==
    ASSUME CallsPaired, NEW v \in Volumes, NEW c \in Calls, Others(v, c), PairedCall(call'[v][c])
    PROVE  CallsPaired'
<1> SUFFICES ASSUME NEW w \in Volumes, NEW d \in Calls
             PROVE  PairedCall(call'[w][d])
  BY DEF CallsPaired
<1>1. CASE w = v /\ d = c
  BY <1>1
<1>2. CASE w # v \/ d # c
  BY <1>2 DEF CallsPaired, Others
<1> QED
  BY <1>1, <1>2

\* A call that ends has no directories.
LEMMA PairedEnd ==
    ASSUME OverlayTypeOK, CallsPaired, NEW v \in Volumes, NEW c \in Calls,
           Leave(v, c)
    PROVE  CallsPaired'
<1>1. call'[v][c] = NoCall /\ Others(v, c)
  BY LeaveType DEF OverlayTypeOK
<1>2. PairedCall(NoCall)
  BY DEF PairedCall, NoCall
<1> QED
  BY <1>1, <1>2, PairedFrame

\* A call that goes on with the same directories.
LEMMA PairedMove ==
    ASSUME OverlayTypeOK, CallsPaired, NEW v \in Volumes, NEW c \in Calls, NEW l \in Labels,
           Goto(v, c, l), l # "work", ~At(v, c, "work")
    PROVE  CallsPaired'
<1>1. call'[v][c] = [call[v][c] EXCEPT !.at = l] /\ Others(v, c) /\ call[v][c] \in Call
  BY GotoType DEF OverlayTypeOK
<1>2. PairedCall(call[v][c])
  BY DEF CallsPaired
<1>3. PairedCall(call'[v][c])
  BY <1>1, <1>2 DEF PairedCall, Call, At
<1> QED
  BY <1>1, <1>3, PairedFrame

\* Another mount on a target, with its directories of one workspace.
LEMMA PairedPush ==
    ASSUME OverlayTypeOK, MountsPaired, NEW v \in Volumes, NEW l \in Layer, Push(v, l),
           l.upper = l.work
    PROVE  MountsPaired'
<1>1. /\ stack \in [Volumes -> Seq(Layer)]
      /\ stack'[v] = Append(stack[v], l)
      /\ \A w \in Volumes \ {v} : stack'[w] = stack[w]
  BY PushType DEF OverlayTypeOK
<1>2. /\ Len(stack'[v]) = Len(stack[v]) + 1 /\ Len(stack[v]) \in Nat
      /\ \A i \in 1 .. Len(stack[v]) : stack'[v][i] = stack[v][i]
      /\ stack'[v][Len(stack[v]) + 1] = l
  BY <1>1
<1> SUFFICES ASSUME NEW w \in Volumes, NEW i \in 1 .. Len(stack'[w])
             PROVE  stack'[w][i].upper = stack'[w][i].work
  BY DEF MountsPaired
<1>3. CASE w = v
  <2>1. i \in 1 .. Len(stack[v]) \/ i = Len(stack[v]) + 1
    BY <1>2, <1>3
  <2> QED
    BY <1>2, <1>3, <2>1 DEF MountsPaired
<1>4. CASE w # v
  BY <1>1, <1>4 DEF MountsPaired
<1> QED
  BY <1>3, <1>4

\* One mount less on a target.
LEMMA PairedPop ==
    ASSUME OverlayTypeOK, MountsPaired, NEW v \in Volumes, Pop(v)
    PROVE  MountsPaired'
<1>1. /\ stack \in [Volumes -> Seq(Layer)]
      /\ stack'[v] = IF stack[v] = <<>> THEN <<>> ELSE SubSeq(stack[v], 1, Len(stack[v]) - 1)
      /\ \A w \in Volumes \ {v} : stack'[w] = stack[w]
  BY PopType DEF OverlayTypeOK
<1>2. /\ Len(stack'[v]) <= Len(stack[v]) /\ Len(stack'[v]) \in Nat /\ Len(stack[v]) \in Nat
      /\ \A i \in 1 .. Len(stack'[v]) : stack'[v][i] = stack[v][i]
  BY <1>1
<1> SUFFICES ASSUME NEW w \in Volumes, NEW i \in 1 .. Len(stack'[w])
             PROVE  stack'[w][i].upper = stack'[w][i].work
  BY DEF MountsPaired
<1>3. CASE w = v
  BY <1>2, <1>3 DEF MountsPaired
<1>4. CASE w # v
  BY <1>1, <1>4 DEF MountsPaired
<1> QED
  BY <1>3, <1>4

\* The visible mount made read-only.
LEMMA PairedSeal ==
    ASSUME OverlayTypeOK, MountsPaired, NEW v \in Volumes, Mounted(v),
           stack' = [stack EXCEPT ![v][Len(stack[v])].ro = TRUE]
    PROVE  MountsPaired'
<1>1. /\ Len(stack'[v]) = Len(stack[v])
      /\ stack'[v][Len(stack[v])] = [Top(v) EXCEPT !.ro = TRUE]
      /\ \A i \in 1 .. Len(stack[v]) - 1 : stack'[v][i] = stack[v][i]
      /\ \A w \in Volumes \ {v} : stack'[w] = stack[w]
      /\ Len(stack[v]) \in Nat \ {0} /\ Top(v) \in Layer
  BY SealType, TopType DEF OverlayTypeOK
<1>2. [Top(v) EXCEPT !.ro = TRUE].upper = Top(v).upper
      /\ [Top(v) EXCEPT !.ro = TRUE].work = Top(v).work
  BY <1>1 DEF Layer
<1> SUFFICES ASSUME NEW w \in Volumes, NEW i \in 1 .. Len(stack'[w])
             PROVE  stack'[w][i].upper = stack'[w][i].work
  BY DEF MountsPaired
<1>3. CASE w = v
  <2>1. i \in 1 .. Len(stack[v]) - 1 \/ i = Len(stack[v])
    BY <1>1, <1>3
  <2> QED
    BY <1>1, <1>2, <1>3, <2>1 DEF MountsPaired, Top
<1>4. CASE w # v
  BY <1>1, <1>4 DEF MountsPaired
<1> QED
  BY <1>3, <1>4

\* Every step of a call keeps upper and work together.
LEMMA PairedStep ==
    ASSUME OverlayTypeOK, CallsPaired, MountsPaired, NEW v \in Volumes, NEW c \in Calls,
           CallStep(v, c)
    PROVE  CallsPaired' /\ MountsPaired'
<1> USE DEF givenVars, kubeletVars, hostVars, faultVars
<1>r. call[v][c] \in Call /\ PairedCall(call[v][c]) /\ stack \in [Volumes -> Seq(Layer)]
  BY DEF OverlayTypeOK, CallsPaired
<1>e. Succeed(v, c) \/ Fail(v, c) => CallsPaired'
  BY PairedEnd DEF Succeed, Fail
<1>s. UNCHANGED stack => MountsPaired'
  BY DEF MountsPaired
<1>1. CASE SourcesReady(v, c)
  <2>1. FirstStep(v) \in Labels \ {"work"}
    BY DEF FirstStep, Labels
  <2> QED
    BY <1>1, <1>s, <2>1, PairedMove DEF SourcesReady, At
<1>2. CASE SourcesFail(v, c)
  BY <1>2, <1>e, <1>s DEF SourcesFail
<1>3. CASE OpenWorkspace(v, c)
  <2>1. CASE Fail(v, c)
    BY <1>3, <1>e, <1>s, <2>1 DEF OpenWorkspace
  <2>2. CASE ~Fail(v, c)
    <3>1. PICK g \in Gens : call' = [call EXCEPT ![v][c].at = "upper", ![v][c].ws = g]
      BY <1>3, <2>2 DEF OpenWorkspace
    <3> DEFINE r == [call[v][c] EXCEPT !.at = "upper", !.ws = g]
    <3>2. call' = [call EXCEPT ![v][c] = r] /\ r \in Call
      BY <3>1, <1>r DEF OverlayTypeOK, Call, Labels
    <3>3. PairedCall(r)
      BY <1>3, <1>r DEF OpenWorkspace, At, PairedCall, Call
    <3> HIDE DEF r
    <3>4. call'[v][c] = r /\ Others(v, c)
      BY <3>2, ReplaceType DEF OverlayTypeOK
    <3> QED
      BY <1>3, <1>s, <3>3, <3>4, PairedFrame DEF OpenWorkspace
  <2> QED
    BY <2>1, <2>2
<1>4. CASE OpenUpper(v, c)
  <2>1. CASE Fail(v, c)
    BY <1>4, <1>e, <1>s, <2>1 DEF OpenUpper
  <2>2. CASE ~Fail(v, c)
    <3> DEFINE r == [call[v][c] EXCEPT !.at = "work", !.upper = call[v][c].ws]
    <3>2. call' = [call EXCEPT ![v][c] = r] /\ r \in Call
      BY <1>4, <2>2, <1>r DEF OpenUpper, OverlayTypeOK, Call, Labels
    <3>3. PairedCall(r)
      BY <1>r DEF PairedCall, Call
    <3> HIDE DEF r
    <3>4. call'[v][c] = r /\ Others(v, c)
      BY <3>2, ReplaceType DEF OverlayTypeOK
    <3> QED
      BY <1>4, <1>s, <3>3, <3>4, PairedFrame DEF OpenUpper
  <2> QED
    BY <2>1, <2>2
<1>5. CASE OpenWork(v, c)
  <2>1. CASE Fail(v, c)
    BY <1>5, <1>e, <1>s, <2>1 DEF OpenWork
  <2>2. CASE ~Fail(v, c)
    <3> DEFINE r == [call[v][c] EXCEPT !.at = AfterWork(Source(v)), !.work = call[v][c].ws]
    <3>1. AfterWork(Source(v)) \in Labels \ {"work"}
      BY DEF AfterWork, Labels
    <3>2. call' = [call EXCEPT ![v][c] = r] /\ r \in Call
      BY <1>5, <2>2, <1>r, <3>1 DEF OpenWork, OverlayTypeOK, Call
    <3>3. PairedCall(r)
      BY <1>5, <1>r, <3>1 DEF OpenWork, At, PairedCall, Call
    <3> HIDE DEF r
    <3>4. call'[v][c] = r /\ Others(v, c)
      BY <3>2, ReplaceType DEF OverlayTypeOK
    <3> QED
      BY <1>5, <1>s, <3>3, <3>4, PairedFrame DEF OpenWork
  <2> QED
    BY <2>1, <2>2
<1>6. CASE Create(v, c)
  <2>1. CASE Fail(v, c)
    BY <1>6, <1>e, <1>s, <2>1 DEF Create
  <2>2. CASE ~Fail(v, c)
    <3>1. PICK k \in Mounts : call' = [call EXCEPT ![v][c].at = "attach", ![v][c].id = k]
      BY <1>6, <2>2 DEF Create, FreshIds
    <3> DEFINE r == [call[v][c] EXCEPT !.at = "attach", !.id = k]
    <3>2. call' = [call EXCEPT ![v][c] = r] /\ r \in Call
      BY <3>1, <1>r DEF OverlayTypeOK, Call, Labels
    <3>3. PairedCall(r)
      BY <1>6, <1>r DEF Create, At, PairedCall, Call
    <3> HIDE DEF r
    <3>4. call'[v][c] = r /\ Others(v, c)
      BY <3>2, ReplaceType DEF OverlayTypeOK
    <3> QED
      BY <1>6, <1>s, <3>3, <3>4, PairedFrame DEF Create
  <2> QED
    BY <2>1, <2>2
<1>7. CASE Attach(v, c) \/ MountClassic(v, c)
  <2>1. ASSUME NEW k \in Mounts \cup {0}
        PROVE  /\ OverlayLayer(v, c, k) \in Layer
               /\ OverlayLayer(v, c, k).upper = OverlayLayer(v, c, k).work
    BY <1>7, <1>r, OverlayLayerType DEF Attach, MountClassic, At, PairedCall, OverlayLayer
  <2>2. call[v][c].id \in Mounts \cup {0} /\ FreshIds \subseteq Mounts
    BY <1>r, CallFields DEF FreshIds
  <2>3. MountsPaired'
    BY <1>7, <1>s, <2>1, <2>2, PairedPush DEF Attach, MountClassic
  <2> QED
    BY <1>7, <1>e, <2>3 DEF Attach, MountClassic
<1>8. CASE Bind(v, c)
  <2>1. BindSource(v, c) \in Layer
    BY BindSourceType
  <2>2. BindSource(v, c).upper = BindSource(v, c).work
    <3>1. CASE v \in Unions
      BY <1>8, <1>r, <3>1 DEF Bind, At, PairedCall, BindSource
    <3>2. CASE v \notin Unions /\ Mounted(SharedFrom[v])
      <4>1. SharedFrom[v] \in Volumes
        BY <3>2, OverlayAssumption DEF Volumes
      <4>2. Len(stack[SharedFrom[v]]) \in Nat \ {0}
        BY <1>r, <3>2, <4>1, TopType
      <4>3. Top(SharedFrom[v]).upper = Top(SharedFrom[v]).work
        BY <4>1, <4>2 DEF MountsPaired, Top
      <4> QED
        BY <3>2, <4>3 DEF BindSource
    <3>3. CASE v \notin Unions /\ ~Mounted(SharedFrom[v])
      BY <3>3 DEF BindSource
    <3> QED
      BY <3>1, <3>2, <3>3
  <2>3. MountsPaired'
    BY <1>8, <1>s, <2>1, <2>2, PairedPush DEF Bind
  <2>4. CallsPaired'
    BY <1>8, <1>e, PairedMove DEF Bind, At, Labels
  <2> QED
    BY <2>3, <2>4
<1>9. CASE Remount(v, c)
  BY <1>9, <1>e, <1>s, PairedSeal, PairedPop DEF Remount
<1>10. CASE Unmount(v, c)
  <2>1. CallsPaired'
    BY <1>10, <1>e, PairedMove DEF Unmount, At, Labels
  <2> QED
    BY <1>10, <1>s, <2>1, PairedPop DEF Unmount
<1>11. CASE RemoveTarget(v, c)
  BY <1>11, <1>s, PairedEnd DEF RemoveTarget
<1> QED
  BY <1>1, <1>2, <1>3, <1>4, <1>5, <1>6, <1>7, <1>8, <1>9, <1>10, <1>11 DEF CallStep

\* A mount uses the upper and work directories of one workspace, whatever is moved, linked or
\* put at .union-csi between any two steps of any call (mount_linux.go:75).
THEOREM WorkspaceIsOne == Spec => []OneWorkspace
<1> DEFINE Inv == Sound /\ CallsPaired /\ MountsPaired
<1>1. Init => Inv
  <2> SUFFICES ASSUME Init PROVE Inv
    OBVIOUS
  <2>1. CallsPaired
    <3>1. \A v \in Volumes, c \in Calls : call[v][c] = NoCall
      BY DEF Init, OverlayInit, NoCalls
    <3> QED
      BY <3>1 DEF CallsPaired, PairedCall, NoCall
  <2>2. MountsPaired
    <3>1. \A v \in Volumes : stack[v] = <<>>
      BY DEF Init, OverlayInit
    <3>2. \A v \in Volumes : Len(stack[v]) = 0
      BY <3>1
    <3> QED
      BY <3>2 DEF MountsPaired
  <2> QED
    BY <2>1, <2>2, SoundInit
<1>2. Inv /\ [Next]_vars => Inv'
  <2> SUFFICES ASSUME Inv, [Next]_vars PROVE CallsPaired' /\ MountsPaired'
    BY SoundNext
  <2> USE DEF givenVars, kubeletVars, hostVars, faultVars
  <2>o. OverlayTypeOK
    BY DEF Sound
  <2>1. CASE UNCHANGED <<call, stack>>
    BY <2>1 DEF CallsPaired, MountsPaired
  <2>2. CASE \E v \in Volumes : KubeletCalls(v)
    <3> PICK v \in Volumes, c \in Calls : PublishAgain(v, c) \/ Publish(v, c) \/ Unpublish(v, c)
      BY <2>2 DEF KubeletCalls
    <3>1. CASE PublishAgain(v, c)
      BY <2>1, <3>1 DEF PublishAgain
    <3>2. CASE Publish(v, c) \/ Unpublish(v, c)
      <4>1. CallsPaired'
        BY <2>o, <3>2, PairedMove DEF Publish, Unpublish, CanCall, At, Labels
      <4> QED
        BY <3>2, <4>1 DEF Publish, Unpublish, MountsPaired
    <3> QED
      BY <3>1, <3>2
  <2>3. CASE \E v \in Volumes, c \in Calls : CallStep(v, c)
    BY <2>o, <2>3, PairedStep
  <2>4. CASE DriverKilled \/ NodeReboots
    <3>1. \A v \in Volumes, c \in Calls : call'[v][c] = NoCall
      BY <2>4 DEF DriverKilled, NodeReboots, CallsEnd, NoCalls
    <3>2. CallsPaired'
      BY <3>1 DEF CallsPaired, PairedCall, NoCall
    <3>3. CASE UNCHANGED stack
      BY <3>2, <3>3 DEF MountsPaired
    <3>4. CASE stack' = [v \in Volumes |-> <<>>]
      <4>1. \A v \in Volumes : stack'[v] = <<>>
        BY <3>4
      <4>2. \A v \in Volumes : Len(stack'[v]) = 0
        BY <4>1
      <4> QED
        BY <3>2, <4>2 DEF MountsPaired
    <3> QED
      BY <2>4, <3>3, <3>4 DEF DriverKilled, NodeReboots
  <2>5. CASE Surroundings
    BY <2>1, <2>5 DEF Surroundings, DeletePod, KubeletGivesUp, KubeletForgets, VolumeChanges
  <2>6. CASE Signalled \/ ListenFails
    BY <2>1, <2>6 DEF Signalled, ListenFails
  <2>7. CASE UNCHANGED overlayVars
    BY <2>1, <2>7 DEF overlayVars
  <2> QED
    BY <2>1, <2>2, <2>3, <2>4, <2>5, <2>6, <2>7 DEF Next, Driver, Handlers, vars
<1>3. Inv => OneWorkspace
  <2> SUFFICES ASSUME Inv, NEW v \in Volumes, NEW i \in DOMAIN stack[v]
               PROVE  stack[v][i].upper = stack[v][i].work
    BY DEF OneWorkspace, Layers
  <2>1. stack[v] \in Seq(Layer)
    BY DEF Sound, OverlayTypeOK
  <2>2. i \in 1 .. Len(stack[v])
    BY <2>1
  <2> QED
    BY <2>2 DEF MountsPaired
<1> QED
  BY <1>1, <1>2, <1>3, PTL DEF Spec

=============================================================================
