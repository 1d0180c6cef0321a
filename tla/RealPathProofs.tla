--------------------------- MODULE RealPathProofs ---------------------------
(***************************************************************************)
(* Theorems about RealPath for every host path policy, every tree, every   *)
(* set of link targets and every limit on the links followed.              *)
(***************************************************************************)
EXTENDS RealPath, SequenceTheorems, TLAPS

\* The parent of a path is a path.
LEMMA ParentType ==
    ASSUME NEW path \in Seq(STRING)
    PROVE  Parent(path) \in Seq(STRING)
<1>1. CASE path = <<>>
  BY <1>1 DEF Parent
<1>2. CASE path # <<>>
  <2>1. Len(path) \in Nat /\ Len(path) - 1 \in Nat
    BY <1>2
  <2>2. \A i \in 1 .. Len(path) - 1 : path[i] \in STRING
    BY <2>1
  <2>3. SubSeq(path, 1, Len(path) - 1) \in Seq(STRING)
    BY <2>1, <2>2
  <2> QED
    BY <1>2, <2>3 DEF Parent, Front
<1> QED
  BY <1>1, <1>2

\* The target of a link is a list of names.
LEMMA LinkType ==
    ASSUME NEW link \in Links
    PROVE  link.names \in Seq(STRING)
BY TargetAssumption DEF Links

\* What is left of a path after its first name.
LEMMA RestType ==
    ASSUME TypeOK, pending # <<>>
    PROVE  Head(pending) \in STRING /\ Tail(pending) \in Seq(STRING)
<1>1. pending \in Seq(STRING)
  BY DEF TypeOK
<1> QED
  BY <1>1, HeadTailProperties

\* A layer is opened at the path the walk has found, or not at all.
LEMMA OpensWhatWasFound ==
    ASSUME NEW path \in OpenDir(cur)
    PROVE  path = cur
BY DEF OpenDir, OpensTo

\* Every state has the shape the code relies on: the number of links stays
\* within the limit and a link is read only with a name still pending.
THEOREM TypeCorrect == Spec => []TypeOK
<1>1. Init => TypeOK
  <2> SUFFICES ASSUME Init PROVE TypeOK
    OBVIOUS
  <2>1. start \in Starts /\ start \in Seq(STRING)
    BY StartAssumption DEF Init
  <2>2. cur \in Seq(STRING) /\ pending \in Seq(STRING)
    BY <2>1 DEF Init
  <2>3. links \in 0 .. MaxSymlinks
    BY LimitAssumption DEF Init
  <2> QED
    BY <2>1, <2>2, <2>3 DEF Init, TypeOK
<1>2. TypeOK /\ [Next]_vars => TypeOK'
  <2> SUFFICES ASSUME TypeOK, [Next]_vars PROVE TypeOK'
    OBVIOUS
  <2> USE LimitAssumption
  <2>1. CASE Stay
    <3>1. Tail(pending) \in Seq(STRING)
      BY <2>1, RestType DEF Stay, Walking
    <3> QED
      BY <2>1, <3>1 DEF TypeOK, Stay, Walking, Fixed
  <2>2. CASE Up
    <3>1. Tail(pending) \in Seq(STRING)
      BY <2>2, RestType DEF Up, Walking
    <3>2. Parent(cur) \in Seq(STRING)
      BY ParentType DEF TypeOK
    <3> QED
      BY <2>2, <3>1, <3>2 DEF TypeOK, Up, Walking, Fixed
  <2>3. CASE LstatFails \/ TooManyLinks \/ ReadlinkFails \/ LinkLeaves \/ FinallyRefused
    <3>1. \E how \in {"missing", "loop", "error", "refused"} : Ends(how)
      BY <2>3 DEF LstatFails, TooManyLinks, ReadlinkFails, LinkLeaves, FinallyRefused
    <3> QED
      BY <3>1 DEF TypeOK, Ends, Fixed
  <2>4. CASE LstatDir
    <3>1. Tail(pending) \in Seq(STRING) /\ Head(pending) \in STRING
      BY <2>4, RestType DEF LstatDir, Named, Walking
    <3>2. NextPath \in Seq(STRING)
      BY <3>1, AppendProperties DEF TypeOK, NextPath
    <3> QED
      BY <2>4, <3>1, <3>2 DEF TypeOK, LstatDir, Named, Walking, Fixed
  <2>5. CASE LstatLink
    <3>1. links' \in 0 .. MaxSymlinks
      BY <2>5 DEF TypeOK, LstatLink
    <3>2. pending' # <<>> /\ outcome = "none"
      BY <2>5 DEF TypeOK, LstatLink, SeesLink, Named, Walking
    <3> QED
      BY <2>5, <3>1, <3>2 DEF TypeOK, LstatLink, Fixed
  <2>6. CASE FollowLink
    <3>1. PICK link \in Sees(NextPath) \cap Links :
              cur' = From(link) /\ pending' = link.names \o Tail(pending)
      BY <2>6 DEF FollowLink
    <3>2. link.names \in Seq(STRING)
      BY <3>1, LinkType
    <3>3. Tail(pending) \in Seq(STRING)
      BY <2>6, RestType DEF TypeOK, FollowLink
    <3>4. From(link) \in Seq(STRING)
      <4>1. CASE link.absolute
        BY <4>1 DEF From
      <4>2. CASE ~link.absolute
        BY <4>2 DEF From, TypeOK
      <4> QED
        BY <4>1, <4>2
    <3>5. link.names \o Tail(pending) \in Seq(STRING)
      BY <3>2, <3>3, ConcatProperties
    <3> QED
      BY <2>6, <3>1, <3>4, <3>5 DEF TypeOK, FollowLink, Fixed
  <2>7. CASE Resolved
    BY <2>7 DEF TypeOK, Resolved, Arrived, Fixed
  <2>8. CASE Open
    <3>1. opened' = {cur}
      BY <2>8, OpensWhatWasFound DEF Open
    <3> QED
      BY <2>8, <3>1 DEF TypeOK, Open, Fixed
  <2>9. CASE OpenFails
    BY <2>9 DEF TypeOK, OpenFails, Fixed
  <2>10. CASE \E slot \in Slots : Change(slot)
    BY <2>10 DEF TypeOK, Change
  <2>11. CASE UNCHANGED vars
    BY <2>11 DEF TypeOK, vars
  <2> QED
    BY <2>1, <2>2, <2>3, <2>4, <2>5, <2>6, <2>7, <2>8, <2>9, <2>10, <2>11 DEF Next, Step
<1> QED
  BY <1>1, <1>2, PTL DEF Spec

\* What the walk hands to the open has passed the check, and the open goes
\* nowhere else.
FoundIsAllowed ==
    /\ pc = "open" => HostPathAllowed(policy, cur)
    /\ OpenedIsAllowed

\* Whatever links change at whatever moment, only an allowed directory is opened
\* as a layer (RealPath, openLayer).
THEOREM OnlyAllowedIsOpened == Spec => []OpenedIsAllowed
<1>1. Init => FoundIsAllowed
  BY DEF Init, FoundIsAllowed, OpenedIsAllowed
<1>2. FoundIsAllowed /\ [Next]_vars => FoundIsAllowed'
  <2> SUFFICES ASSUME FoundIsAllowed, [Next]_vars PROVE FoundIsAllowed'
    OBVIOUS
  <2>1. CASE Stay
    BY <2>1 DEF FoundIsAllowed, OpenedIsAllowed, HostPathAllowed, Stay, Walking, Fixed
  <2>2. CASE Up
    BY <2>2 DEF FoundIsAllowed, OpenedIsAllowed, HostPathAllowed, Up, Walking, Fixed
  <2>3. CASE LstatFails \/ TooManyLinks \/ ReadlinkFails \/ LinkLeaves \/ FinallyRefused
    <3>1. \E how \in {"missing", "loop", "error", "refused"} : Ends(how)
      BY <2>3 DEF LstatFails, TooManyLinks, ReadlinkFails, LinkLeaves, FinallyRefused
    <3> QED
      BY <3>1 DEF FoundIsAllowed, OpenedIsAllowed, HostPathAllowed, Ends, Fixed
  <2>4. CASE LstatDir
    BY <2>4 DEF FoundIsAllowed, OpenedIsAllowed, HostPathAllowed, LstatDir, Named, Walking, Fixed
  <2>5. CASE LstatLink
    BY <2>5 DEF FoundIsAllowed, OpenedIsAllowed, HostPathAllowed, LstatLink, Fixed
  <2>6. CASE FollowLink
    BY <2>6 DEF FoundIsAllowed, OpenedIsAllowed, HostPathAllowed, FollowLink, Fixed
  <2>7. CASE Resolved
    BY <2>7 DEF FoundIsAllowed, OpenedIsAllowed, HostPathAllowed, Resolved, Fixed
  <2>8. CASE Open
    <3>1. opened' = {cur}
      BY <2>8, OpensWhatWasFound DEF Open
    <3> QED
      BY <2>8, <3>1 DEF FoundIsAllowed, OpenedIsAllowed, HostPathAllowed, Open, Fixed
  <2>9. CASE OpenFails
    BY <2>9 DEF FoundIsAllowed, OpenedIsAllowed, HostPathAllowed, OpenFails, Fixed
  <2>10. CASE \E slot \in Slots : Change(slot)
    BY <2>10 DEF FoundIsAllowed, OpenedIsAllowed, HostPathAllowed, Change
  <2>11. CASE UNCHANGED vars
    BY <2>11 DEF FoundIsAllowed, OpenedIsAllowed, HostPathAllowed, vars
  <2> QED
    BY <2>1, <2>2, <2>3, <2>4, <2>5, <2>6, <2>7, <2>8, <2>9, <2>10, <2>11 DEF Next, Step
<1>3. FoundIsAllowed => OpenedIsAllowed
  BY DEF FoundIsAllowed
<1> QED
  BY <1>1, <1>2, <1>3, PTL DEF Spec

=============================================================================
