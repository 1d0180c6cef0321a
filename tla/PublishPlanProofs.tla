------------------------- MODULE PublishPlanProofs --------------------------
(***************************************************************************)
(* Theorems about PublishPlan, and with it about Declarations, for every   *)
(* set of pods and command lines, every bound and every kind of fault.     *)
(***************************************************************************)
EXTENDS PublishPlan, TLAPS, WellFoundedInduction

(***************************************************************************)
(* The volumes of a pod                                                    *)
(***************************************************************************)

\* Min is the least element of a set of natural numbers.
LEMMA LeastIsLeast ==
    ASSUME NEW S, S \subseteq Nat, S # {}
    PROVE  Min(S) \in S /\ \A n \in S : Min(S) <= n
<1> DEFINE Less == OpToRel(<, Nat)
<1>1. \E x \in S : \A y \in S : ~(<<y, x>> \in Less)
  BY NatLessThanWellFounded, WFMin
<1>2. \A x, y \in Nat : <<x, y>> \in Less <=> x < y
  BY DEF OpToRel
<1> HIDE DEF Less
<1>3. PICK x \in S : \A y \in S : ~(<<y, x>> \in Less)
  BY <1>1
<1>4. \A y \in S : ~(y < x)
  BY <1>2, <1>3
<1>5. \A y \in S : x =< y
  BY <1>4
<1> QED
  BY <1>5 DEF Min

\* The places of a pod's volumes.
LEMMA Places ==
    ASSUME NEW p \in Pods
    PROVE  /\ Len(p.volumes) \in Nat
           /\ DOMAIN p.volumes = 1 .. Len(p.volumes)
BY PodAssumption DEF IsSequence

\* A volume is found by its name, since no two have the same.
LEMMA NamedAt ==
    ASSUME NEW p \in Pods, NEW i \in DOMAIN p.volumes
    PROVE  /\ p.volumes[i].name \in VolumeNames(p)
           /\ VolumeNamed(p, p.volumes[i].name) = p.volumes[i]
<1> DEFINE k == CHOOSE j \in DOMAIN p.volumes : p.volumes[j].name = p.volumes[i].name
<1>1. k \in DOMAIN p.volumes /\ p.volumes[k].name = p.volumes[i].name
  OBVIOUS
<1>2. k = i
  BY <1>1, PodAssumption
<1> QED
  BY <1>2 DEF VolumeNames, VolumeNamed

\* The volume of a name is at some place, and has that name.
LEMMA NamedIs ==
    ASSUME NEW p \in Pods, NEW name \in VolumeNames(p)
    PROVE  /\ VolumeNamed(p, name).name = name
           /\ name # NoVolume
           /\ \E i \in DOMAIN p.volumes :
                 p.volumes[i].name = name /\ VolumeNamed(p, name) = p.volumes[i]
<1>1. PICK i \in DOMAIN p.volumes : p.volumes[i].name = name
  BY DEF VolumeNames
<1>2. VolumeNamed(p, name) = p.volumes[i]
  BY <1>1, NamedAt
<1> QED
  BY <1>1, <1>2, PodAssumption

(***************************************************************************)
(* Which volume mounts a shared union                                      *)
(***************************************************************************)

\* The places before v that hold the union of v.
Twins(c, p, r, v) == {i \in Before(p, v) : p.volumes[i].name \in r /\ SameUnion(c, p, i, v)}

\* A place is before a volume's own, if it is not the same or a later one.
LEMMA BeforeIs ==
    ASSUME NEW p \in Pods, NEW i \in DOMAIN p.volumes, NEW k \in DOMAIN p.volumes
    PROVE  i \in Before(p, p.volumes[k].name) <=> i < k
<1> USE Places
<1>1. ASSUME i < k PROVE i \in Before(p, p.volumes[k].name)
  <2>1. \A j \in 1 .. i : j \in DOMAIN p.volumes /\ j # k
    BY <1>1
  <2> QED
    BY <2>1, PodAssumption DEF Before
<1>2. ASSUME i \in Before(p, p.volumes[k].name) PROVE i < k
  BY <1>2 DEF Before
<1> QED
  BY <1>1, <1>2

\* What sharedSource returns.
LEMMA SharedIs ==
    ASSUME NEW p \in Pods, NEW c, NEW r, NEW v
    PROVE  /\ Twins(c, p, r, v) = {} => SharedSource(c, p, r, v) = NoVolume
           /\ Twins(c, p, r, v) # {} =>
                 /\ Min(Twins(c, p, r, v)) \in Twins(c, p, r, v)
                 /\ \A i \in Twins(c, p, r, v) : Min(Twins(c, p, r, v)) <= i
                 /\ SharedSource(c, p, r, v) = p.volumes[Min(Twins(c, p, r, v))].name
                 /\ SharedSource(c, p, r, v) # NoVolume
<1>1. Twins(c, p, r, v) \subseteq DOMAIN p.volumes /\ Twins(c, p, r, v) \subseteq Nat
  BY Places DEF Twins, Before
<1>2. SharedSource(c, p, r, v) = FirstOf(p, Twins(c, p, r, v))
  BY DEF SharedSource, Twins
<1>3. Twins(c, p, r, v) # {} =>
          /\ Min(Twins(c, p, r, v)) \in Twins(c, p, r, v)
          /\ \A i \in Twins(c, p, r, v) : Min(Twins(c, p, r, v)) <= i
  BY <1>1, LeastIsLeast
<1>4. Twins(c, p, r, v) # {} => p.volumes[Min(Twins(c, p, r, v))].name # NoVolume
  BY <1>1, <1>3, PodAssumption
<1> QED
  BY <1>2, <1>3, <1>4 DEF FirstOf

\* The volume it returns declares the same union, and comes first itself.
LEMMA SharedFound ==
    ASSUME NEW p \in Pods, NEW c, NEW r, NEW v \in VolumeNames(p),
           SharedSource(c, p, r, v) # NoVolume
    PROVE  LET w == SharedSource(c, p, r, v) IN
           /\ w \in VolumeNames(p) /\ w # v /\ w \in r
           /\ Declares(c, VolumeNamed(p, w))
           /\ Declared(VolumeNamed(p, w)) = Declared(VolumeNamed(p, v))
           /\ SharedSource(c, p, r, w) = NoVolume
<1> DEFINE m == Min(Twins(c, p, r, v))
           w == p.volumes[m].name
<1>1. /\ m \in Twins(c, p, r, v) /\ \A i \in Twins(c, p, r, v) : m <= i
      /\ SharedSource(c, p, r, v) = w
  BY SharedIs
<1>2. m \in Before(p, v) /\ m \in DOMAIN p.volumes /\ w \in r /\ SameUnion(c, p, m, v)
  BY <1>1 DEF Twins, Before
<1>3. w \in VolumeNames(p) /\ VolumeNamed(p, w) = p.volumes[m]
  BY <1>2, NamedAt
<1>4. PICK k \in DOMAIN p.volumes : p.volumes[k].name = v
  BY NamedIs
<1>5. m < k
  BY <1>2, <1>4, BeforeIs
<1>6. w # v
  BY <1>2, <1>4, <1>5, Places, PodAssumption
<1>7. Twins(c, p, r, w) = {}
  <2> SUFFICES ASSUME NEW i \in Twins(c, p, r, w) PROVE FALSE
    OBVIOUS
  <2>1. i \in Before(p, w) /\ i \in DOMAIN p.volumes /\ p.volumes[i].name \in r /\ SameUnion(c, p, i, w)
    BY DEF Twins, Before
  <2>2. i < m
    BY <1>2, <2>1, BeforeIs
  <2>3. i < k
    BY <1>2, <1>4, <1>5, <2>1, <2>2, Places
  <2>4. i \in Before(p, v)
    BY <1>4, <2>1, <2>3, BeforeIs
  <2>5. SameUnion(c, p, i, v)
    BY <1>2, <1>3, <2>1 DEF SameUnion
  <2>6. i \in Twins(c, p, r, v)
    BY <2>1, <2>4, <2>5 DEF Twins
  <2> QED
    BY <1>1, <1>2, <2>1, <2>2, <2>6, Places
<1>8. SharedSource(c, p, r, w) = NoVolume
  BY <1>7, SharedIs
<1> QED
  BY <1>1, <1>2, <1>3, <1>6, <1>8 DEF SameUnion

\* Of two volumes that declare the same union, one is not the first.
LEMMA SharedComplete ==
    ASSUME NEW p \in Pods, NEW c, NEW r,
           NEW v \in VolumeNames(p) \cap r, NEW w \in VolumeNames(p) \cap r, v # w,
           Declares(c, VolumeNamed(p, v)), Declares(c, VolumeNamed(p, w)),
           Declared(VolumeNamed(p, v)) = Declared(VolumeNamed(p, w))
    PROVE  SharedSource(c, p, r, v) # NoVolume \/ SharedSource(c, p, r, w) # NoVolume
<1>1. PICK i \in DOMAIN p.volumes : p.volumes[i].name = v /\ VolumeNamed(p, v) = p.volumes[i]
  BY NamedIs
<1>2. PICK j \in DOMAIN p.volumes : p.volumes[j].name = w /\ VolumeNamed(p, w) = p.volumes[j]
  BY NamedIs
<1>3. i < j \/ j < i
  BY <1>1, <1>2, Places
<1>4. CASE i < j
  <2>1. i \in Twins(c, p, r, w)
    BY <1>1, <1>2, <1>4, BeforeIs DEF Twins, SameUnion
  <2> QED
    BY <2>1, SharedIs
<1>5. CASE j < i
  <2>1. j \in Twins(c, p, r, v)
    BY <1>1, <1>2, <1>5, BeforeIs DEF Twins, SameUnion
  <2> QED
    BY <2>1, SharedIs
<1> QED
  BY <1>3, <1>4, <1>5

\* Only the union volumes that containers mount make a difference.
LEMMA SharedSame ==
    ASSUME NEW p \in Pods, NEW c, NEW r, NEW s, NEW v,
           \A w \in VolumeNames(p) : IsUnion(VolumeNamed(p, w)) => (w \in r <=> w \in s)
    PROVE  SharedSource(c, p, r, v) = SharedSource(c, p, s, v)
<1>1. \A i \in DOMAIN p.volumes : SameUnion(c, p, i, v) => IsUnion(p.volumes[i])
  BY DEF SameUnion, Declares
<1>2. Twins(c, p, r, v) = Twins(c, p, s, v)
  BY <1>1, NamedAt DEF Twins, Before
<1> QED
  BY <1>2 DEF SharedSource, Twins

(***************************************************************************)
(* The option policy                                                       *)
(***************************************************************************)

\* The lists that hold: the admin's, or the backend's own.
DenylistOf(flags) == (IF "option-denylist" \in flags.set THEN flags ELSE flags.own).denylist
DefaultsOf(flags) == (IF "default-options" \in flags.set THEN flags ELSE flags.own).defaults

\* What a configuration takes from the command line.
LEMMA ConfigIs ==
    ASSUME NEW c \in Configs
    PROVE  /\ PolicyValid(c)
           /\ c.forced = c.flags.forced
           /\ c.allowlist = c.flags.allowlist /\ c.mode = c.flags.mode
           /\ c.denylist = DenylistOf(c.flags)
           /\ c.defaults = DefaultsOf(c.flags)
           /\ c.allowed \cup c.denied \subseteq Seq(STRING)
<1>1. PICK f \in CommandLines : Starts(f) /\ c = Configured(f)
  BY DEF Configs
<1>2. /\ {"forced", "allowlist", "mode", "allowed", "denied"} \subseteq DOMAIN f
      /\ f.allowed \cup f.denied \subseteq Seq(STRING)
  BY CommandLineAssumption
<1>3. /\ c.flags = f
      /\ c.forced = f.forced /\ c.allowed = f.allowed /\ c.denied = f.denied
      /\ c.allowlist = f.allowlist /\ c.mode = f.mode
      /\ c.defaults = IF Unset(f, "default-options") THEN f.own.defaults ELSE f.defaults
      /\ c.denylist = IF Unset(f, "option-denylist") THEN f.own.denylist ELSE f.denylist
  BY <1>1, <1>2 DEF Configured, Over
<1>4. c.denylist = DenylistOf(c.flags) /\ c.defaults = DefaultsOf(c.flags)
  BY <1>3 DEF Unset, DenylistOf, DefaultsOf
<1> QED
  BY <1>1, <1>2, <1>3, <1>4 DEF Starts

\* What the options that the policy accepts keep to.
LEMMA AcceptedAre ==
    ASSUME NEW c \in Configs, NEW wanted, PolicyAccepts(c, wanted)
    PROVE  LET flags == c.flags IN
           /\ flags.mode = "refuse" => DOMAIN wanted \cap DenylistOf(flags) = {}
           /\ flags.allowlist # {} => DOMAIN wanted \subseteq flags.allowlist \cup DenylistOf(flags)
<1>1. \A k \in DOMAIN wanted :
          IF k \in c.denylist THEN c.mode = "strip" ELSE c.allowlist = {} \/ k \in c.allowlist
  BY DEF PolicyAccepts, Denied, Allowed
<1> QED
  BY <1>1, ConfigIs

\* The options that the policy resolves accepted ones to.
LEMMA ResolvedIs ==
    ASSUME NEW c \in Configs, NEW wanted, PolicyAccepts(c, wanted)
    PROVE  LET options == ResolvedOptions(c, wanted) IN
           /\ CheckSchema(c, options)
           /\ DOMAIN options \subseteq DOMAIN c.schema
           /\ DOMAIN c.flags.forced \cup DOMAIN DefaultsOf(c.flags) \subseteq DOMAIN options
           /\ \A k \in DOMAIN options :
                 options[k] = IF k \in DOMAIN c.flags.forced THEN c.flags.forced[k]
                              ELSE IF k \in DOMAIN wanted \ DenylistOf(c.flags)
                              THEN wanted[k] ELSE DefaultsOf(c.flags)[k]
<1> DEFINE taken   == Taken(c, wanted)
           options == ResolvedOptions(c, wanted)
<1>1. /\ DOMAIN taken = DOMAIN wanted \ c.denylist
      /\ \A k \in DOMAIN taken : taken[k] = wanted[k]
  BY DEF Taken, RestrictDomain, Restrict, Denied
<1> HIDE DEF taken
<1>2. /\ DOMAIN options = DOMAIN c.forced \cup DOMAIN taken \cup DOMAIN c.defaults
      /\ \A k \in DOMAIN options :
            options[k] = IF k \in DOMAIN c.forced THEN c.forced[k]
                         ELSE IF k \in DOMAIN taken THEN taken[k] ELSE c.defaults[k]
  BY DEF ResolvedOptions, Over, taken
<1> HIDE DEF options
<1>3. CheckSchema(c, c.forced) /\ CheckSchema(c, c.defaults) /\ CheckSchema(c, wanted)
  BY ConfigIs DEF PolicyValid, PolicyAccepts
<1>4. \A k \in DOMAIN options : k \in DOMAIN c.schema /\ SchemaAccepts(c.schema[k], options[k])
  BY <1>1, <1>2, <1>3 DEF CheckSchema
<1>5. CheckSchema(c, options) /\ DOMAIN options \subseteq DOMAIN c.schema
  BY <1>4 DEF CheckSchema
<1>6. DOMAIN c.flags.forced \cup DOMAIN DefaultsOf(c.flags) \subseteq DOMAIN options
  BY <1>2, ConfigIs
<1>7. \A k \in DOMAIN options :
          options[k] = IF k \in DOMAIN c.flags.forced THEN c.flags.forced[k]
                       ELSE IF k \in DOMAIN wanted \ DenylistOf(c.flags)
                       THEN wanted[k] ELSE DefaultsOf(c.flags)[k]
  BY <1>1, <1>2, ConfigIs
<1> QED
  BY <1>5, <1>6, <1>7 DEF options

(***************************************************************************)
(* What a source resolves to                                               *)
(***************************************************************************)

\* The source s stands for the volume of that name in the pod p: a host
\* directory, or the directory kubelet has for it, which is waited for as a mount
\* unless there will only be a directory.
StandsFor(p, s, name) ==
    /\ s.name = name
    /\ name \in VolumeNames(p) /\ ~IsUnion(VolumeNamed(p, name))
    /\ \/ IsHostPath(s)
       \/ /\ s.path[1] = p.uid
          /\ s.path[3] = DirName(VolumeNamed(p, name))
          /\ s.csiBased \/ VolumeNamed(p, name).kind \in PlainKinds

\* A hostPath is put below the place where the driver has the host.
LEMMA HostPathIs ==
    ASSUME NEW c, NEW name, NEW path \in Seq(STRING),
           ResolveHostPath(c, name, path).error = "none"
    PROVE  LET s == ResolveHostPath(c, name, path).source IN
           s.name = name /\ IsHostPath(s)
<1>1. HostPathAllowed(c, path)
  BY DEF ResolveHostPath, Refused
<1>2. ResolveHostPath(c, name, path).source = [name |-> name, path |-> <<HostRoot>> \o path, csiBased |-> FALSE]
  BY <1>1 DEF ResolveHostPath, Found
<1>3. Head(<<HostRoot>> \o path) = HostRoot
  OBVIOUS
<1> QED
  BY <1>2, <1>3 DEF IsHostPath

\* A source that resolves stands for the volume it names, which is no union.
LEMMA NamedResolves ==
    ASSUME NEW p \in Pods, NEW c, NEW r, NEW claims, NEW name,
           ResolveNamed(c, p, r, claims, name).error = "none"
    PROVE  StandsFor(p, ResolveNamed(c, p, r, claims, name).source, name)
<1> DEFINE volume == VolumeNamed(p, name)
           result == ResolveNamed(c, p, r, claims, name)
<1>1. name \in VolumeNames(p) /\ ~IsUnion(volume) /\ result = ResolveForeign(c, p, volume, claims)
  BY DEF ResolveNamed, ResolveOne, Refused
<1>0. result.error = "none"
  OBVIOUS
<1>2. volume.name = name /\ HostDir(volume) \in Seq(STRING)
  BY <1>1, NamedIs, PodAssumption
<1> HIDE DEF volume, result
<1>3. CASE volume.kind \in ClaimKinds
  <2>1. result = ResolvePVC(c, p, volume, claims)
    BY <1>1, <1>3 DEF ResolveForeign, ClaimKinds, MountedKinds, PlainKinds
  <2>2. result = ResolvePV(c, p, name, volume.pv)
    BY <1>0, <1>2, <2>1 DEF ResolvePVC, Refused
  <2>3. HostDir(volume) = volume.pv.path
    BY <1>3 DEF HostDir, ClaimKinds
  <2>4. CASE volume.pv.kind = "hostPath"
    <3>1. result = ResolveHostPath(c, name, volume.pv.path)
      BY <2>2, <2>4 DEF ResolvePV, MountedKinds
    <3>2. result.source.name = name /\ IsHostPath(result.source)
      BY <1>2, <2>3, <3>1, HostPathIs DEF result
    <3> QED
      BY <1>1, <3>2 DEF StandsFor, volume, result
  <2>5. CASE volume.pv.kind # "hostPath"
    <3>1. volume.pv.kind \in MountedKinds \cup {"local"}
      <4> SUFFICES ASSUME volume.pv.kind \notin MountedKinds \cup {"local"} PROVE FALSE
        OBVIOUS
      <4>1. result = Refused("invalid")
        BY <2>2, <2>5 DEF ResolvePV
      <4> QED
        BY <1>0, <4>1 DEF Refused
    <3>2. result.source = [name |-> name, path |-> <<p.uid, volume.pv.kind, volume.pv.name>>, csiBased |-> TRUE]
      BY <2>2, <2>5, <3>1 DEF ResolvePV, Found, MountedKinds
    <3>3. /\ result.source.name = name
          /\ result.source.path[1] = p.uid /\ result.source.path[3] = DirName(volume)
          /\ result.source.csiBased
      BY <1>3, <3>2 DEF DirName
    <3> QED
      BY <1>1, <3>3 DEF StandsFor, volume, result
  <2> QED
    BY <2>4, <2>5
<1>4. CASE volume.kind \notin ClaimKinds /\ volume.kind \in MountedKinds \cup PlainKinds
  <2>1. result.source = [name |-> name, path |-> <<p.uid, volume.kind, name>>,
                         csiBased |-> volume.kind \in MountedKinds]
    BY <1>1, <1>2, <1>4 DEF ResolveForeign, Found, ClaimKinds, MountedKinds, PlainKinds
  <2>2. /\ result.source.name = name
        /\ result.source.path[1] = p.uid /\ result.source.path[3] = DirName(volume)
    BY <1>2, <1>4, <2>1 DEF DirName
  <2>3. result.source.csiBased = (volume.kind \in MountedKinds)
    BY <2>1
  <2>4. result.source.csiBased \/ volume.kind \in PlainKinds
    BY <1>4, <2>3
  <2> QED
    BY <1>1, <2>2, <2>4 DEF StandsFor, volume, result
<1>5. CASE volume.kind \notin ClaimKinds \cup MountedKinds \cup PlainKinds
  <2>1. volume.kind = "hostPath"
    BY <1>0, <1>1, <1>5 DEF ResolveForeign, Refused
  <2>2. result = ResolveHostPath(c, name, volume.path)
    BY <1>1, <1>2, <1>5, <2>1 DEF ResolveForeign
  <2>3. HostDir(volume) = volume.path
    BY <2>1 DEF HostDir, ClaimKinds
  <2>4. result.source.name = name /\ IsHostPath(result.source)
    BY <1>2, <2>2, <2>3, HostPathIs DEF result
  <2> QED
    BY <1>1, <2>4 DEF StandsFor, volume, result
<1> QED
  BY <1>3, <1>4, <1>5

\* The errors of the resolver.
Errors == {"none", "notReady", "invalid"}

\* The resolver answers for a volume with one of them.
LEMMA NamedErrors ==
    ASSUME NEW p, NEW c, NEW r, NEW claims, NEW name
    PROVE  ResolveNamed(c, p, r, claims, name).error \in Errors
<1>1. \A path, n : ResolveHostPath(c, n, path).error \in Errors
  BY DEF ResolveHostPath, Found, Refused, Errors
<1>2. \A n, pv : ResolvePV(c, p, n, pv).error \in Errors
  BY <1>1 DEF ResolvePV, Found, Refused, Errors, MountedKinds
<1>3. \A volume : ResolvePVC(c, p, volume, claims).error \in Errors
  BY <1>2 DEF ResolvePVC, Refused, Errors
<1>4. \A volume : ResolveForeign(c, p, volume, claims).error \in Errors
  BY <1>1, <1>3 DEF ResolveForeign, Found, Refused, Errors, ClaimKinds, MountedKinds, PlainKinds
<1> QED
  BY <1>4 DEF ResolveNamed, ResolveOne, Refused, Errors

\* So it does for a list: the first error there is.
LEMMA ListErrors ==
    ASSUME NEW p, NEW c, NEW r, NEW claims, NEW names, DOMAIN names \subseteq Nat
    PROVE  ResolveIn(c, p, r, claims, names).error \in Errors
<1> DEFINE result == [i \in DOMAIN names |-> ResolveNamed(c, p, r, claims, names[i])]
           failed == {i \in DOMAIN names : result[i].error # "none"}
<1>1. failed # {} => Min(failed) \in failed
  BY LeastIsLeast
<1>2. \A i \in DOMAIN names : result[i].error \in Errors
  BY NamedErrors
<1>3. ResolveIn(c, p, r, claims, names).error =
          IF failed = {} THEN "none" ELSE result[Min(failed)].error
  BY DEF ResolveIn
<1> QED
  BY <1>1, <1>2, <1>3 DEF Errors

\* So does each of a list of sources that resolves.
LEMMA ListResolves ==
    ASSUME NEW p \in Pods, NEW c, NEW r, NEW claims, NEW names, DOMAIN names \subseteq Nat,
           ResolveIn(c, p, r, claims, names).error = "none"
    PROVE  LET sources == ResolveIn(c, p, r, claims, names).sources IN
           /\ DOMAIN sources = DOMAIN names
           /\ \A i \in DOMAIN names : StandsFor(p, sources[i], names[i])
<1> DEFINE result == [i \in DOMAIN names |-> ResolveNamed(c, p, r, claims, names[i])]
           failed == {i \in DOMAIN names : result[i].error # "none"}
<1>1. failed = {}
  <2> SUFFICES ASSUME failed # {} PROVE FALSE
    OBVIOUS
  <2>1. Min(failed) \in failed
    BY LeastIsLeast
  <2> QED
    BY <2>1 DEF ResolveIn
<1>2. ResolveIn(c, p, r, claims, names).sources = [i \in DOMAIN names |-> result[i].source]
  BY <1>1 DEF ResolveIn
<1>3. \A i \in DOMAIN names : StandsFor(p, result[i].source, names[i])
  BY <1>1, NamedResolves
<1> QED
  BY <1>2, <1>3

(***************************************************************************)
(* The layers of a mount                                                   *)
(***************************************************************************)

\* What a backend gets for the sources of a declaration.
SpecOf(raw, paths, ro) ==
    [sources  |-> [i \in DOMAIN raw |-> [path |-> paths[i], mode |-> ParsedSources(raw)[i].mode]],
     readOnly |-> ro]

\* Whichever the backend, a mount that it plans has the sources as its layers, and
\* those can be written that are declared so.
LEMMA LayersAre ==
    ASSUME NEW c, NEW raw, IsSequence(raw), SourcesParse(c, raw), NEW paths, NEW ro,
           MountPlans(c, SpecOf(raw, paths, ro))
    PROVE  LET layers == Layers(c, SpecOf(raw, paths, ro)) IN
           /\ DOMAIN layers = DOMAIN raw
           /\ \A i \in DOMAIN raw :
                 /\ layers[i].path = paths[i]
                 /\ layers[i].writable <=> ParsedSources(raw)[i].mode # "RO" /\ ~ro
<1> DEFINE spec == SpecOf(raw, paths, ro)
           mode(i) == ParsedSources(raw)[i].mode
<1>1. /\ Len(raw) \in Nat \ {0} /\ DOMAIN raw = 1 .. Len(raw)
      /\ \A i \in DOMAIN raw : mode(i) \in Modes(c.backend)
  <2>1. raw # <<>> /\ \A i \in DOMAIN ParsedSources(raw) : mode(i) \in Modes(c.backend)
    BY Zenon DEF SourcesParse
  <2>2. DOMAIN ParsedSources(raw) = DOMAIN raw
    BY DEF ParsedSources
  <2> QED
    BY <2>1, <2>2 DEF IsSequence
<1>2. /\ DOMAIN spec.sources = DOMAIN raw
      /\ spec.readOnly = ro
      /\ \A i \in DOMAIN raw : spec.sources[i].path = paths[i] /\ spec.sources[i].mode = mode(i)
  BY DEF SpecOf
<1>3. CASE c.backend = "overlay"
  <2>1. Layers(c, spec) = OverlayLayers(spec)
    BY <1>3 DEF Layers
  <2>2. \A i \in DOMAIN raw : mode(i) = "RW" => i = 1
    BY <1>2, <1>3 DEF MountPlans, LayoutPlans
  <2>3. \A i \in DOMAIN raw : mode(i) \in {"RW", "RO"}
    BY <1>1, <1>3 DEF Modes
  <2>4. LayoutReadOnly(spec) <=> ro \/ mode(1) # "RW"
    BY <1>1, <1>2 DEF LayoutReadOnly
  <2>5. DOMAIN OverlayLayers(spec) = DOMAIN raw
    BY <1>2 DEF OverlayLayers
  <2>6. ASSUME NEW i \in DOMAIN raw, mode(i) = "RW"
        PROVE  /\ OverlayLayers(spec)[i].path = paths[i]
               /\ OverlayLayers(spec)[i].writable <=> mode(i) # "RO" /\ ~ro
    <3>1. OverlayLayers(spec)[i] = [path |-> paths[i], part |-> <<Workspace, "upper">>,
                                    writable |-> ~LayoutReadOnly(spec)]
      BY <1>2, <2>6 DEF OverlayLayers
    <3>2. OverlayLayers(spec)[i].writable = ~LayoutReadOnly(spec)
      BY <3>1
    <3>3. LayoutReadOnly(spec) <=> ro
      BY <2>2, <2>4, <2>6
    <3>4. OverlayLayers(spec)[i].path = paths[i]
      BY <3>1
    <3>5. mode(i) # "RO"
      BY <2>6
    <3> QED
      BY <3>2, <3>3, <3>4, <3>5, Zenon
  <2>7. ASSUME NEW i \in DOMAIN raw, mode(i) # "RW"
        PROVE  /\ OverlayLayers(spec)[i].path = paths[i]
               /\ OverlayLayers(spec)[i].writable <=> mode(i) # "RO" /\ ~ro
    <3>1. OverlayLayers(spec)[i] = [path |-> paths[i], part |-> <<>>,
                                    writable |-> ~LayoutReadOnly(spec) /\ Len(spec.sources) = 1]
      BY <1>2, <2>7 DEF OverlayLayers
    <3>2. OverlayLayers(spec)[i].writable = (~LayoutReadOnly(spec) /\ Len(spec.sources) = 1)
      BY <3>1
    <3>3. Len(spec.sources) = Len(raw)
      BY <1>1 DEF SpecOf
    <3>4. Len(spec.sources) = 1 => LayoutReadOnly(spec)
      BY <1>1, <2>4, <2>7, <3>3
    <3>5. mode(i) = "RO"
      BY <2>3, <2>7
    <3>6. OverlayLayers(spec)[i].path = paths[i]
      BY <3>1
    <3> QED
      BY <3>2, <3>4, <3>5, <3>6, Zenon
  <2> QED
    BY <2>1, <2>5, <2>6, <2>7
<1>4. CASE c.backend # "overlay"
  <2>1. Layers(c, spec) = MergerfsLayers(spec)
    BY <1>4 DEF Layers
  <2>2. DOMAIN MergerfsLayers(spec) = DOMAIN raw
    BY <1>2 DEF MergerfsLayers
  <2>3. ASSUME NEW i \in DOMAIN raw
        PROVE  /\ MergerfsLayers(spec)[i].path = paths[i]
               /\ MergerfsLayers(spec)[i].writable <=> mode(i) # "RO" /\ ~ro
    <3>1. MergerfsLayers(spec)[i] = [path |-> paths[i], part |-> <<>>,
                                     writable |-> ~(spec.readOnly \/ mode(i) = "RO")]
      BY <1>2 DEF MergerfsLayers
    <3>2. MergerfsLayers(spec)[i].writable = ~(spec.readOnly \/ mode(i) = "RO")
      BY <3>1
    <3>3. spec.readOnly = ro
      BY <1>2
    <3>4. MergerfsLayers(spec)[i].path = paths[i]
      BY <3>1
    <3> QED
      BY <3>2, <3>3, <3>4, Zenon
  <2> QED
    BY <2>1, <2>2, <2>3
<1> QED
  BY <1>3, <1>4

\* What the driver waits for: a mount, or the directory of what it takes for no more.
IsSetUp(name) ==
    \/ setUp[name] = "mounted"
    \/ Volume(name).kind \in PlainKinds /\ setUp[name] # "none"

\* The path of a layer for the volume of that name: below an allowed directory of
\* the host, or the pod's own directory of the volume, which is set up.
LayerPath(path, name) ==
    \/ path[1] = HostRoot /\ HostPathAllowed(config, Tail(path))
    \/ path[1] = pod.uid /\ path[3] = DirName(Volume(name)) /\ IsSetUp(name)

\* The source of a call that has waited for it.
LEMMA WaitedFor ==
    ASSUME NEW s, NEW name \in VolumeNames(pod), name \notin Unions,
           StandsFor(pod, s, name), IsReady(s)
    PROVE  IsHostPath(s) \/ IsSetUp(name)
<1>1. s.name = name
  BY DEF StandsFor
<1>2. CASE IsHostPath(s)
  BY <1>2
<1>3. CASE ~IsHostPath(s)
  <2>1. s.csiBased \/ Volume(name).kind \in PlainKinds
    BY <1>3 DEF StandsFor, Volume
  <2>2. IF s.csiBased THEN setUp[name] = "mounted" ELSE setUp[name] # "none"
    BY <1>1, <1>3 DEF IsReady
  <2> QED
    BY <2>1, <2>2 DEF IsSetUp
<1> QED
  BY <1>2, <1>3

\* Where RealPath leads for such a source, when it is allowed.
LEMMA RealPathIs ==
    ASSUME NEW s, NEW name \in VolumeNames(pod), leads[name] \in Seq(STRING),
           StandsFor(pod, s, name), RealPathAllowed(s), IsHostPath(s) \/ IsSetUp(name)
    PROVE  LayerPath(RealPath(s), name)
<1>1. CASE IsHostPath(s)
  <2>1. RealPath(s) = <<HostRoot>> \o leads[name] /\ HostPathAllowed(config, leads[name])
    BY <1>1 DEF RealPath, RealPathAllowed, StandsFor
  <2>2. (<<HostRoot>> \o leads[name])[1] = HostRoot /\ Tail(<<HostRoot>> \o leads[name]) = leads[name]
    OBVIOUS
  <2> QED
    BY <2>1, <2>2 DEF LayerPath
<1>2. CASE ~IsHostPath(s)
  BY <1>2 DEF RealPath, LayerPath, StandsFor, Volume
<1> QED
  BY <1>1, <1>2

(***************************************************************************)
(* The inductive invariant                                                 *)
(***************************************************************************)

\* The functions and records that the steps change.
IsCall(c) == DOMAIN c = {"pc", "options", "uid", "saw", "view", "sources"}

Shape ==
    /\ config \in Configs /\ pod \in Pods
    /\ api \in {"own", "gone", "other"}
    /\ referenced \subseteq VolumeNames(pod)
    /\ \A name \in DOMAIN claim : claim[name] \in {"missing", "unbound", "bound"}
    /\ setUp \in [VolumeNames(pod) -> {"none", "dir", "mounted"}]
    /\ leads \in [VolumeNames(pod) -> Seq(STRING)]
    /\ answer \in [Unions -> Codes]
    /\ call = [v \in Unions |-> call[v]]
    /\ \A v \in Unions : IsCall(call[v]) /\ call[v].pc \in PCs
    /\ mounted = [v \in Unions |-> mounted[v]]
    /\ faults \in 0 .. MaxFaults /\ late \in 0 .. MaxLate

\* Another volume of the pod that declares the union of v.
IsTwin(w, v) == w \in Unions /\ w # v /\ Declared(Volume(w)) = Declared(Volume(v))

OptionsOf(v) == ResolvedOptions(config, ParsedOptions(Volume(v).options))

\* The sources of a call, up to the wait.
Awaits(v, c) ==
    /\ c.view = NoVolume =>
          /\ DOMAIN c.sources = DOMAIN Volume(v).sources
          /\ \A i \in DOMAIN c.sources : StandsFor(pod, c.sources[i], Volume(v).sources[i].name)
    /\ c.view # NoVolume => c.sources = <<ViewSource(pod, c.view)>> /\ IsTwin(c.view, v)

\* And after it.
HasWaited(v, c) ==
    /\ c.view = NoVolume =>
          \A i \in DOMAIN c.sources :
              IsHostPath(c.sources[i]) \/ IsSetUp(Volume(v).sources[i].name)
    /\ c.view # NoVolume => IsMounted(c.view)

\* What a call at each label has found out.
CallFits(v) ==
    LET c == call[v] IN
    /\ c.pc = "idle" => c = Idle
    /\ c.pc # "idle" => Accepts(v) /\ v \in referenced /\ ~IsMounted(v) /\ c.options = OptionsOf(v)
    /\ c.pc \in {"getPod", "resolve"} => c.view = NoVolume /\ c.sources = <<>>
    /\ c.pc = "resolve" => c.uid = pod.uid
    /\ c.pc \in {"wait", "mount"} => Awaits(v, c)
    /\ c.pc = "mount" => HasWaited(v, c)

\* A mount of the volume's own.
OwnFits(v, m) ==
    /\ m.how = "own"
    /\ m.options = OptionsOf(v)
    /\ DOMAIN m.layers = DOMAIN Volume(v).sources
    /\ \A i \in DOMAIN m.layers :
          /\ LayerPath(m.layers[i].path, Volume(v).sources[i].name)
          /\ Volume(v).sources[i].name \in VolumeNames(pod)
          /\ m.layers[i].writable <=>
                 ParsedSources(Volume(v).sources)[i].mode # "RO" /\ ~Volume(v).readOnly

\* A view of another.
ViewFits(v, m) == m.how = "view" /\ IsTwin(m.of, v) /\ IsMounted(m.of)

MountFits(v) ==
    IsMounted(v) =>
        /\ Accepts(v) /\ v \in referenced
        /\ OwnFits(v, mounted[v]) \/ ViewFits(v, mounted[v])

IInv == Shape /\ \A v \in Unions : CallFits(v) /\ MountFits(v)

\* Steps may add to what is mounted, set up and referenced, and take nothing away.
Grows ==
    /\ config' = config /\ pod' = pod
    /\ referenced \subseteq referenced'
    /\ \A name \in VolumeNames(pod) :
          /\ setUp[name] # "none" => setUp'[name] # "none"
          /\ setUp[name] = "mounted" => setUp'[name] = "mounted"
    /\ \A v \in Unions : IsMounted(v) => mounted'[v] = mounted[v]

\* The fields of a call that does nothing.
LEMMA IdleIs ==
    /\ Idle.pc = "idle" /\ Idle.view = NoVolume /\ Idle.sources = <<>>
    /\ IsCall(Idle)
BY DEF Idle, IsCall

\* What holds of a volume goes on to hold while the rest of the node grows, whether
\* its call stays where it is or ends.
LEMMA Kept ==
    ASSUME IInv, Grows, NEW w \in Unions,
           mounted'[w] = mounted[w], call'[w] = call[w] \/ call'[w] = Idle
    PROVE  CallFits(w)' /\ MountFits(w)'
<1>1. /\ Unions' = Unions /\ VolumeNames(pod') = VolumeNames(pod)
      /\ \A n : Volume(n)' = Volume(n)
      /\ Accepts(w)' = Accepts(w) /\ OptionsOf(w)' = OptionsOf(w)
      /\ IsMounted(w)' = IsMounted(w)
  BY DEF Grows, Unions, Volume, Accepts, OptionsOf, IsMounted
<1>2. \A u : IsTwin(u, w) => IsTwin(u, w)'
  BY <1>1 DEF IsTwin
<1>3. \A u \in Unions : IsMounted(u) => IsMounted(u)'
  BY DEF Grows, IsMounted
<1>4. \A n \in VolumeNames(pod) : IsSetUp(n) => IsSetUp(n)'
  BY <1>1 DEF Grows, IsSetUp
<1>5. w \in referenced => w \in referenced'
  BY DEF Grows
<1>6. CallFits(w)'
  <2>1. CASE call'[w] = Idle
    <3>1. call'[w].pc = "idle"
      BY <2>1, IdleIs
    <3>2. Idle' = Idle
      BY DEF Idle, NoVolume
    <3> QED
      BY <2>1, <3>1, <3>2 DEF CallFits
  <2>2. CASE call'[w] = call[w]
    <3> DEFINE c == call[w]
    <3>1. CallFits(w)
      BY DEF IInv
    <3>2. \A d : Awaits(w, d) => Awaits(w, d)'
      BY <1>1, <1>2 DEF Awaits, Grows
    <3>3. \A d : Awaits(w, d) /\ HasWaited(w, d) => HasWaited(w, d)'
      BY <1>1, <1>3, <1>4 DEF HasWaited, Awaits, StandsFor, IsTwin
    <3> HIDE DEF c
    <3>4. c.pc = "idle" => c = Idle
      BY <3>1 DEF CallFits, c
    <3>5. c.pc # "idle" => (Accepts(w) /\ w \in referenced /\ ~IsMounted(w) /\ c.options = OptionsOf(w))'
      BY <1>1, <1>5, <2>2, <3>1 DEF CallFits, c
    <3>6. c.pc \in {"getPod", "resolve"} => c.view = NoVolume /\ c.sources = <<>>
      BY <3>1 DEF CallFits, c
    <3>7. c.pc = "resolve" => c.uid = pod.uid
      BY <3>1 DEF CallFits, c
    <3>8. c.pc \in {"wait", "mount"} => Awaits(w, c)
      BY <3>1 DEF CallFits, c
    <3>9. c.pc = "mount" => HasWaited(w, c)
      BY <3>1 DEF CallFits, c
    <3>10. pod' = pod /\ call'[w] = c /\ c' = c
      BY <2>2 DEF Grows, c
    <3> QED
      BY <3>2, <3>3, <3>4, <3>5, <3>6, <3>7, <3>8, <3>9, <3>10 DEF CallFits
  <2> QED
    BY <2>1, <2>2
<1>7. MountFits(w)'
  <2> DEFINE m == mounted[w]
  <2>1. MountFits(w)
    BY DEF IInv
  <2>2. \A path, n : n \in VolumeNames(pod) /\ LayerPath(path, n) => LayerPath(path, n)'
    BY <1>1, <1>4 DEF LayerPath, Grows
  <2>3. OwnFits(w, m) => OwnFits(w, mounted[w])'
    BY <1>1, <2>2 DEF OwnFits
  <2>4. ViewFits(w, m) => ViewFits(w, mounted[w])'
    BY <1>2, <1>3 DEF ViewFits, IsTwin
  <2> QED
    BY <1>1, <1>5, <2>1, <2>3, <2>4 DEF MountFits
<1> QED
  BY <1>6, <1>7

(***************************************************************************)
(* The steps of a handler                                                  *)
(***************************************************************************)

\* Nothing but the call of v, its target and its answer changes.
Only(v) ==
    /\ UNCHANGED Node
    /\ \A w \in Unions : w # v => call'[w] = call[w] /\ mounted'[w] = mounted[w]

\* It is then enough to look at v.
LEMMA OneVolume ==
    ASSUME IInv, NEW v \in Unions, Only(v), Shape', IsMounted(v) => mounted'[v] = mounted[v],
           CallFits(v)', MountFits(v)'
    PROVE  IInv'
<1>1. Grows
  BY DEF Only, Node, Grows
<1>2. Unions' = Unions
  BY DEF Only, Node, Unions
<1>3. \A w \in Unions : w # v => CallFits(w)' /\ MountFits(w)'
  BY <1>1, Kept DEF Only
<1> QED
  BY <1>2, <1>3 DEF IInv

\* The call that a step goes on with, or ends.
LEMMA CallIs ==
    ASSUME Shape, NEW v \in Unions, NEW to, call' = [call EXCEPT ![v] = to]
    PROVE  /\ call'[v] = to
           /\ \A w \in Unions : w # v => call'[w] = call[w]
           /\ call' = [w \in Unions |-> call'[w]]
<1>1. call = [w \in Unions |-> call[w]]
  BY DEF Shape
<1> DEFINE U == Unions
<1> HIDE DEF U
<1>2. DOMAIN call = U
  BY <1>1 DEF U
<1> QED
  BY <1>2 DEF U

\* The rest of the state keeps its shape.
LEMMA ShapeKept ==
    ASSUME Shape, UNCHANGED Node, mounted' = [v \in Unions |-> mounted'[v]],
           call' = [v \in Unions |-> call'[v]],
           \A v \in Unions : IsCall(call'[v]) /\ call'[v].pc \in PCs,
           answer' \in [Unions -> Codes], faults' \in 0 .. MaxFaults
    PROVE  Shape'
<1>1. Unions' = Unions
  BY DEF Node, Unions
<1> QED
  BY <1>1 DEF Shape, Node, IsCall

\* A fault counts towards the bound.
LEMMA FaultIs ==
    ASSUME Shape, NEW kind, Fault(kind)
    PROVE  faults' \in 0 .. MaxFaults
BY BoundAssumption DEF Shape, Fault

\* A call that returns leaves everything else as it was.
LEMMA Answers ==
    ASSUME IInv, NEW v \in Unions, UNCHANGED <<Node, mounted>>, faults' \in 0 .. MaxFaults,
           NEW code \in Codes, Answer(v, code)
    PROVE  IInv'
<1>1. Shape
  BY DEF IInv
<1>2. call'[v] = Idle /\ (\A w \in Unions : w # v => call'[w] = call[w])
      /\ call' = [w \in Unions |-> call'[w]]
  BY <1>1, CallIs DEF Answer
<1>3. answer' \in [Unions -> Codes]
  BY <1>1 DEF Shape, Answer
<1>4. \A w \in Unions : IsCall(call'[w]) /\ call'[w].pc \in PCs
  BY <1>1, <1>2, IdleIs DEF Shape, PCs
<1>5. mounted' = [w \in Unions |-> mounted'[w]]
  BY <1>1 DEF Shape
<1>6. Shape'
  BY <1>1, <1>2, <1>3, <1>4, <1>5, ShapeKept
<1>7. Grows
  BY DEF Node, Grows
<1>8. CallFits(v)' /\ MountFits(v)'
  BY <1>2, <1>7, Kept
<1> QED
  BY <1>2, <1>6, <1>8, OneVolume DEF Only

\* A call that goes on does too.
LEMMA Proceeds ==
    ASSUME IInv, NEW v \in Unions, UNCHANGED <<Node, mounted, faults>>,
           NEW to, IsCall(to), to.pc \in PCs, Goes(v, to), CallFits(v)'
    PROVE  IInv'
<1>1. Shape
  BY DEF IInv
<1>2. call'[v] = to /\ (\A w \in Unions : w # v => call'[w] = call[w])
      /\ call' = [w \in Unions |-> call'[w]]
  BY <1>1, CallIs DEF Goes
<1>3. answer' \in [Unions -> Codes] /\ faults' \in 0 .. MaxFaults
  BY <1>1 DEF Shape, Goes
<1>4. \A w \in Unions : IsCall(call'[w]) /\ call'[w].pc \in PCs
  BY <1>1, <1>2 DEF Shape
<1>5. mounted' = [w \in Unions |-> mounted'[w]]
  BY <1>1 DEF Shape
<1>6. Shape'
  BY <1>1, <1>2, <1>3, <1>4, <1>5, ShapeKept
<1>7. Grows
  BY DEF Node, Grows
<1>8. MountFits(v)'
  <2>1. MountFits(v)
    BY DEF IInv
  <2>2. Unions' = Unions /\ Accepts(v)' = Accepts(v) /\ IsMounted(v)' = IsMounted(v)
        /\ OwnFits(v, mounted[v])' = OwnFits(v, mounted[v])
        /\ ViewFits(v, mounted[v])' = ViewFits(v, mounted[v])
    BY DEF Node, Unions, Accepts, IsMounted, OwnFits, ViewFits, LayerPath, IsSetUp, IsTwin,
           OptionsOf, Volume
  <2> QED
    BY <2>1, <2>2 DEF MountFits, Node
<1> QED
  BY <1>2, <1>6, <1>8, OneVolume DEF Only

\* What a call finds out, it finds of a node that stays as it is.
LEMMA NewCall ==
    ASSUME NEW v \in Unions, UNCHANGED <<Node, mounted>>, NEW to, call'[v] = to,
           to.pc # "idle", Accepts(v), v \in referenced, ~IsMounted(v),
           to.options = OptionsOf(v),
           to.pc \in {"getPod", "resolve"} => to.view = NoVolume /\ to.sources = <<>>,
           to.pc = "resolve" => to.uid = pod.uid,
           to.pc \in {"wait", "mount"} => Awaits(v, to),
           to.pc = "mount" => HasWaited(v, to)
    PROVE  CallFits(v)'
<1>1. /\ Unions' = Unions /\ pod' = pod /\ referenced' = referenced
      /\ Accepts(v)' = Accepts(v) /\ OptionsOf(v)' = OptionsOf(v)
      /\ \A n : IsMounted(n)' = IsMounted(n)
  BY DEF Node, Unions, Volume, Accepts, OptionsOf, IsMounted
<1>2. \A d : Awaits(v, d)' <=> Awaits(v, d)
  BY <1>1 DEF Awaits, IsTwin, Volume
<1>3. \A d : HasWaited(v, d)' <=> HasWaited(v, d)
  BY <1>1 DEF HasWaited, IsSetUp, Volume, Node
<1> QED
  BY <1>1, <1>2, <1>3 DEF CallFits

\* The handler takes a call up: PublishAgain and PublishRefuses only answer.
LEMMA PublishStep ==
    ASSUME IInv, NEW v \in Unions, Publish(v)
    PROVE  IInv'
<1> DEFINE to == [Idle EXCEPT !.pc = "getPod",
                    !.options = ResolvedOptions(config, ParsedOptions(Volume(v).options))]
<1>1. /\ Goes(v, to) /\ UNCHANGED <<Node, mounted, faults>>
      /\ v \in referenced /\ ~IsMounted(v) /\ Accepts(v)
  BY DEF Publish, Called
<1>2. to.options = OptionsOf(v)
  BY DEF Idle, OptionsOf
<1>3. IsCall(to) /\ to.pc = "getPod" /\ to.view = NoVolume /\ to.sources = <<>>
  BY DEF Idle, IsCall
<1> HIDE DEF to
<1>4. call'[v] = to
  BY <1>1, CallIs DEF Goes, IInv
<1>5. CallFits(v)'
  BY <1>1, <1>2, <1>3, <1>4, NewCall
<1> QED
  BY <1>1, <1>3, <1>5, Proceeds DEF PCs

\* A pod of the same uid is the same pod.
LEMMA FetchedIs ==
    ASSUME Shape, SameUID
    PROVE  pod \in Pods /\ FetchedPod = pod
<1>1. pod \in Pods /\ pod = [uid |-> pod.uid, volumes |-> pod.volumes, mounts |-> pod.mounts]
  BY PodAssumption DEF Shape
<1>2. FetchedPod = pod \/ FetchedPod = [pod EXCEPT !.uid = "other"]
  BY DEF FetchedPod
<1>3. FetchedPod.uid = pod.uid
  BY DEF SameUID
<1> QED
  BY <1>1, <1>2, <1>3

\* The handler reads the pod, and decides whether the volume is to be a view.
LEMMA GetPodStep ==
    ASSUME IInv, NEW v \in Unions, GetPod(v)
    PROVE  IInv'
<1>1. Shape /\ CallFits(v) /\ UNCHANGED <<Node, mounted>> /\ call[v].pc = "getPod"
  BY DEF IInv, GetPod
<1>2. /\ Accepts(v) /\ v \in referenced /\ ~IsMounted(v) /\ call[v].options = OptionsOf(v)
      /\ call[v].view = NoVolume /\ call[v].sources = <<>>
  BY <1>1 DEF CallFits
<1>3. ASSUME NEW code \in Codes, Answer(v, code), faults' \in 0 .. MaxFaults
      PROVE  IInv'
  BY <1>1, <1>3, Answers
<1>4. {"InvalidArgument", "Aborted"} \subseteq Codes
  BY DEF Codes
<1>5. CASE Fault("api") /\ Answer(v, "InvalidArgument")
  BY <1>1, <1>3, <1>4, <1>5, FaultIs
<1>6. CASE UNCHANGED faults /\ api = "gone" /\ Answer(v, "Aborted")
  BY <1>1, <1>3, <1>4, <1>6 DEF Shape
<1>7. CASE UNCHANGED faults /\ api # "gone" /\ ~SameUID /\ Answer(v, "InvalidArgument")
  BY <1>1, <1>3, <1>4, <1>7 DEF Shape
<1>8. ASSUME UNCHANGED faults, SameUID,
             Goes(v, [call[v] EXCEPT !.pc = "resolve", !.saw = referenced, !.uid = FetchedPod.uid])
      PROVE  IInv'
  <2> DEFINE to == [call[v] EXCEPT !.pc = "resolve", !.saw = referenced, !.uid = FetchedPod.uid]
  <2>1. IsCall(call[v])
    BY <1>1 DEF Shape
  <2>2. /\ IsCall(to) /\ to.pc = "resolve" /\ to.view = call[v].view /\ to.uid = FetchedPod.uid
        /\ to.sources = call[v].sources /\ to.options = call[v].options
    BY <2>1 DEF IsCall
  <2>3. Goes(v, to)
    BY <1>8
  <2> HIDE DEF to
  <2>4. call'[v] = to
    BY <1>1, <2>3, CallIs DEF Goes
  <2>5. to.uid = pod.uid
    BY <1>8, <2>2 DEF SameUID
  <2>6. CallFits(v)'
    BY <1>1, <1>2, <2>2, <2>4, <2>5, NewCall
  <2> QED
    BY <1>1, <1>8, <2>2, <2>3, <2>6, Proceeds DEF PCs
<1>9. ASSUME UNCHANGED faults, SameUID, NEW w, w # NoVolume,
             w = SharedSource(config, FetchedPod, referenced, v),
             Goes(v, [call[v] EXCEPT !.pc = "wait", !.view = w,
                        !.sources = <<ViewSource(FetchedPod, w)>>])
      PROVE  IInv'
  <2> DEFINE to == [call[v] EXCEPT !.pc = "wait", !.view = w,
                      !.sources = <<ViewSource(FetchedPod, w)>>]
  <2>1. IsCall(call[v])
    BY <1>1 DEF Shape
  <2>2. /\ IsCall(to) /\ to.pc = "wait" /\ to.view = w /\ to.options = call[v].options
        /\ to.sources = <<ViewSource(FetchedPod, w)>>
    BY <2>1 DEF IsCall
  <2>3. Goes(v, to)
    BY <1>9
  <2> HIDE DEF to
  <2>4. call'[v] = to
    BY <1>1, <2>3, CallIs DEF Goes
  <2>5. pod \in Pods /\ FetchedPod = pod
    BY <1>1, <1>9, FetchedIs
  <2>6. v \in VolumeNames(pod)
    BY DEF Unions
  <2>7. IsTwin(w, v)
    BY <1>9, <2>5, <2>6, SharedFound DEF IsTwin, Unions, Volume, Declares
  <2>8. Awaits(v, to)
    BY <1>9, <2>2, <2>5, <2>7 DEF Awaits
  <2>9. CallFits(v)'
    BY <1>1, <1>2, <2>2, <2>4, <2>8, NewCall
  <2> QED
    BY <1>1, <1>9, <2>2, <2>3, <2>9, Proceeds DEF PCs
<1> QED
  BY <1>5, <1>6, <1>7, <1>8, <1>9 DEF GetPod

\* A union volume of the pod, and its sources.
LEMMA UnionIs ==
    ASSUME Shape, NEW v \in Unions
    PROVE  /\ v \in VolumeNames(pod) /\ pod \in Pods
           /\ IsUnion(Volume(v))
           /\ Len(Volume(v).sources) \in Nat
           /\ DOMAIN Volume(v).sources = 1 .. Len(Volume(v).sources)
           /\ IsSequence(Volume(v).sources)
<1>1. pod \in Pods /\ v \in VolumeNames(pod) /\ IsUnion(Volume(v))
  BY DEF Shape, Unions, Volume
<1>2. PICK i \in DOMAIN pod.volumes : Volume(v) = pod.volumes[i]
  BY <1>1, NamedIs DEF Volume
<1>3. IsSequence(Volume(v).sources)
  BY <1>1, <1>2, PodAssumption
<1> QED
  BY <1>1, <1>3 DEF IsSequence

\* The handler reads the claims, and has its sources.
LEMMA ResolveStep ==
    ASSUME IInv, NEW v \in Unions, Resolve(v)
    PROVE  IInv'
<1> DEFINE names == [i \in DOMAIN Volume(v).sources |-> Volume(v).sources[i].name]
           own == [pod EXCEPT !.uid = call[v].uid]
           result == ResolveIn(config, own, call[v].saw, claim, SubSeq(names, 1, Len(names)))
<1>1. Shape /\ CallFits(v) /\ UNCHANGED <<Node, mounted>> /\ call[v].pc = "resolve"
  BY DEF IInv, Resolve
<1>2. /\ Accepts(v) /\ v \in referenced /\ ~IsMounted(v) /\ call[v].options = OptionsOf(v)
      /\ call[v].view = NoVolume /\ call[v].uid = pod.uid
  BY <1>1 DEF CallFits
<1>3. ASSUME NEW code \in Codes, Answer(v, code), faults' \in 0 .. MaxFaults
      PROVE  IInv'
  BY <1>1, <1>3, Answers
<1>4. own = pod /\ pod \in Pods
  <2>1. pod \in Pods /\ pod = [uid |-> pod.uid, volumes |-> pod.volumes, mounts |-> pod.mounts]
    BY <1>1, PodAssumption DEF Shape
  <2> QED
    BY <1>2, <2>1
<1>5. /\ DOMAIN names = DOMAIN Volume(v).sources /\ DOMAIN names \subseteq Nat
      /\ SubSeq(names, 1, Len(names)) = names
  <2> DEFINE n == Len(Volume(v).sources)
             S == {Volume(v).sources[i].name : i \in 1 .. n}
  <2>1. n \in Nat /\ DOMAIN Volume(v).sources = 1 .. n
    BY <1>1, UnionIs
  <2> HIDE DEF n
  <2>2. names \in [1 .. n -> S]
    BY <2>1
  <2> HIDE DEF names, S
  <2>3. names \in Seq(S) /\ DOMAIN names = 1 .. n
    BY <2>1, <2>2
  <2> QED
    BY <2>1, <2>3
<1>6. result = ResolveIn(config, pod, call[v].saw, claim, names)
  BY <1>4, <1>5
<1> HIDE DEF own, result
<1>7. /\ DOMAIN names = DOMAIN Volume(v).sources
      /\ \A i \in DOMAIN names : names[i] = Volume(v).sources[i].name
  OBVIOUS
<1> HIDE DEF names
<1>8. ASSUME Fault("api"), Answer(v, "InvalidArgument")
      PROVE  IInv'
  BY <1>1, <1>3, <1>8, FaultIs DEF Codes
<1>9. ASSUME UNCHANGED faults, result.error # "none", Answer(v, Code[result.error])
      PROVE  IInv'
  <2>1. result.error \in {"notReady", "invalid"}
    BY <1>5, <1>6, <1>9, ListErrors DEF Errors
  <2>2. Code[result.error] \in Codes
    BY <2>1 DEF Code, Codes
  <2> QED
    BY <1>1, <1>3, <1>9, <2>2 DEF Shape
<1>10. ASSUME UNCHANGED faults, result.error = "none",
              Goes(v, [call[v] EXCEPT !.pc = "wait", !.sources = result.sources])
       PROVE  IInv'
  <2> DEFINE to == [call[v] EXCEPT !.pc = "wait", !.sources = result.sources]
  <2>1. IsCall(call[v])
    BY <1>1 DEF Shape
  <2>2. /\ IsCall(to) /\ to.pc = "wait" /\ to.view = call[v].view
        /\ to.options = call[v].options /\ to.sources = result.sources
    BY <2>1 DEF IsCall
  <2>3. Goes(v, to)
    BY <1>10
  <2> HIDE DEF to
  <2>4. call'[v] = to
    BY <1>1, <2>3, CallIs DEF Goes
  <2>5. /\ DOMAIN result.sources = DOMAIN names
        /\ \A i \in DOMAIN names : StandsFor(pod, result.sources[i], names[i])
    BY <1>4, <1>5, <1>6, <1>10, ListResolves
  <2>6. Awaits(v, to)
    BY <1>2, <1>7, <2>2, <2>5 DEF Awaits
  <2>7. CallFits(v)'
    BY <1>1, <1>2, <2>2, <2>4, <2>6, NewCall
  <2> QED
    BY <1>1, <1>10, <2>2, <2>3, <2>7, Proceeds DEF PCs
<1> QED
  BY <1>8, <1>9, <1>10 DEF Resolve, names, own, result

\* The last poll: all sources are ready.
LEMMA SourcesReadyStep ==
    ASSUME IInv, NEW v \in Unions, SourcesReady(v)
    PROVE  IInv'
<1> DEFINE to == [call[v] EXCEPT !.pc = "mount"]
<1>1. /\ Shape /\ CallFits(v) /\ UNCHANGED <<Node, mounted, faults>> /\ call[v].pc = "wait"
      /\ Goes(v, to)
  BY DEF IInv, SourcesReady
<1>2. /\ Accepts(v) /\ v \in referenced /\ ~IsMounted(v) /\ call[v].options = OptionsOf(v)
      /\ Awaits(v, call[v])
  BY <1>1 DEF CallFits
<1>3. \A i \in DOMAIN call[v].sources : IsReady(call[v].sources[i])
  BY DEF SourcesReady, NotReady
<1>4. IsCall(call[v])
  BY <1>1 DEF Shape
<1>5. /\ IsCall(to) /\ to.pc = "mount" /\ to.view = call[v].view
      /\ to.options = call[v].options /\ to.sources = call[v].sources
  BY <1>4 DEF IsCall
<1> HIDE DEF to
<1>6. call'[v] = to
  BY <1>1, CallIs DEF Goes
<1>7. Awaits(v, to)
  BY <1>2, <1>5 DEF Awaits
<1>8. HasWaited(v, to)
  <2>1. CASE to.view = NoVolume
    <3>1. ASSUME NEW i \in DOMAIN to.sources
          PROVE  IsHostPath(to.sources[i]) \/ IsSetUp(Volume(v).sources[i].name)
      <4>1. StandsFor(pod, to.sources[i], Volume(v).sources[i].name)
        BY <1>7, <2>1 DEF Awaits
      <4>2. Volume(v).sources[i].name \in VolumeNames(pod) /\ Volume(v).sources[i].name \notin Unions
        BY <4>1 DEF StandsFor, Unions
      <4> QED
        BY <1>3, <1>5, <4>1, <4>2, WaitedFor
    <3> QED
      BY <2>1, <3>1 DEF HasWaited
  <2>2. CASE to.view # NoVolume
    <3>1. to.sources = <<ViewSource(pod, to.view)>> /\ to.view \in Unions
      BY <1>7, <2>2 DEF Awaits, IsTwin
    <3>2. IsReady(ViewSource(pod, to.view))
      BY <1>3, <1>5, <3>1
    <3>3. ViewSource(pod, to.view).name = to.view
      BY DEF ViewSource
    <3>4. ~IsHostPath(ViewSource(pod, to.view))
      BY <1>1, PodAssumption DEF ViewSource, IsHostPath, Shape
    <3>5. IsMounted(to.view)
      BY <3>1, <3>2, <3>3, <3>4 DEF IsReady
    <3> QED
      BY <2>2, <3>5 DEF HasWaited
  <2> QED
    BY <2>1, <2>2
<1>9. CallFits(v)'
  BY <1>1, <1>2, <1>5, <1>6, <1>7, <1>8, NewCall
<1> QED
  BY <1>1, <1>5, <1>9, Proceeds DEF PCs

\* What the mount step mounts.
LEMMA ResultFits ==
    ASSUME IInv, NEW v \in Unions, call[v].pc = "mount", PathsAllowed(v), Plans(v)
    PROVE  /\ Result(v) # Bare
           /\ OwnFits(v, Result(v)) \/ ViewFits(v, Result(v))
<1> DEFINE c == call[v]
           volume == Volume(v)
<1>1. /\ Shape /\ Accepts(v) /\ c.options = OptionsOf(v)
      /\ Awaits(v, c) /\ HasWaited(v, c)
  BY DEF IInv, CallFits
<1>2. CASE IsView(v)
  <2>1. Result(v) = [how |-> "view", of |-> c.view]
    BY <1>2 DEF Result
  <2>2. Result(v).how = "view" /\ Result(v).of = c.view
    BY <2>1
  <2>3. Result(v) # Bare
    BY <2>2 DEF Bare
  <2>4. IsTwin(c.view, v) /\ IsMounted(c.view)
    BY <1>1, <1>2 DEF IsView, Awaits, HasWaited
  <2> QED
    BY <2>2, <2>3, <2>4 DEF ViewFits
<1>3. CASE ~IsView(v)
  <2> DEFINE paths == [i \in DOMAIN c.sources |-> RealPath(c.sources[i])]
             spec == SpecOf(volume.sources, paths, volume.readOnly)
             layers == Layers(config, spec)
  <2>1. /\ DOMAIN c.sources = DOMAIN volume.sources
        /\ \A i \in DOMAIN c.sources : StandsFor(pod, c.sources[i], volume.sources[i].name)
        /\ \A i \in DOMAIN c.sources : IsHostPath(c.sources[i]) \/ IsSetUp(volume.sources[i].name)
    BY <1>1, <1>3 DEF IsView, Awaits, HasWaited
  <2>2. MountSpec(v) = spec
    BY <2>1 DEF MountSpec, SpecOf
  <2>3. Result(v) = [how |-> "own", layers |-> Layers(config, MountSpec(v)), options |-> c.options]
    BY <1>3 DEF Result
  <2>4. Result(v) # Bare
    BY <2>3 DEF Bare
  <2>5. MountPlans(config, spec)
    BY <1>3, <2>2 DEF Plans
  <2>6. IsSequence(volume.sources) /\ SourcesParse(config, volume.sources)
    BY <1>1, UnionIs DEF Accepts, AttributesParse
  <2> HIDE DEF spec
  <2>7. /\ DOMAIN layers = DOMAIN volume.sources
        /\ \A i \in DOMAIN volume.sources :
              /\ layers[i].path = paths[i]
              /\ layers[i].writable <=> ParsedSources(volume.sources)[i].mode # "RO" /\ ~volume.readOnly
    BY <2>5, <2>6, LayersAre DEF spec
  <2>8. ASSUME NEW i \in DOMAIN volume.sources
        PROVE  /\ volume.sources[i].name \in VolumeNames(pod)
               /\ LayerPath(paths[i], volume.sources[i].name)
    <3>1. StandsFor(pod, c.sources[i], volume.sources[i].name)
      BY <2>1
    <3>2. volume.sources[i].name \in VolumeNames(pod)
      BY <3>1 DEF StandsFor
    <3>3. leads[volume.sources[i].name] \in Seq(STRING)
      BY <1>1, <3>2 DEF Shape
    <3>4. RealPathAllowed(c.sources[i])
      BY <2>1 DEF PathsAllowed
    <3>5. LayerPath(RealPath(c.sources[i]), volume.sources[i].name)
      BY <2>1, <3>1, <3>2, <3>3, <3>4, RealPathIs
    <3> QED
      BY <2>1, <3>2, <3>5
  <2> HIDE DEF paths, layers
  <2>9. Result(v).how = "own" /\ Result(v).options = c.options /\ Result(v).layers = layers
    BY <2>2, <2>3 DEF layers
  <2>10. OwnFits(v, Result(v))
    BY <1>1, <2>7, <2>8, <2>9 DEF OwnFits
  <2> QED
    BY <2>4, <2>10
<1> QED
  BY <1>2, <1>3

\* The mount, whether or not kubelet gets the answer.
LEMMA MountStep ==
    ASSUME IInv, NEW v \in Unions, Mount(v)
    PROVE  IInv'
<1>1. /\ Shape /\ CallFits(v) /\ UNCHANGED Node /\ call[v].pc = "mount"
      /\ mounted' = [mounted EXCEPT ![v] = Result(v)]
  BY DEF IInv, Mount
<1>2. Accepts(v) /\ v \in referenced /\ ~IsMounted(v)
  BY <1>1 DEF CallFits
<1>3. PICK code \in Codes : Answer(v, code)
  BY DEF Mount, Codes
<1>4. faults' \in 0 .. MaxFaults
  BY <1>1, FaultIs DEF Mount, Shape
<1>5. call'[v] = Idle /\ (\A w \in Unions : w # v => call'[w] = call[w])
      /\ call' = [w \in Unions |-> call'[w]]
  BY <1>1, <1>3, CallIs DEF Answer
<1>6. mounted'[v] = Result(v) /\ (\A w \in Unions : w # v => mounted'[w] = mounted[w])
      /\ mounted' = [w \in Unions |-> mounted'[w]]
  <2> DEFINE U == Unions
  <2>1. mounted = [w \in U |-> mounted[w]]
    BY <1>1 DEF Shape
  <2> HIDE DEF U
  <2>2. DOMAIN mounted = U /\ v \in U
    BY <2>1 DEF U
  <2> QED
    BY <1>1, <2>2 DEF U
<1>7. answer' \in [Unions -> Codes]
  BY <1>1, <1>3 DEF Shape, Answer
<1>8. \A w \in Unions : IsCall(call'[w]) /\ call'[w].pc \in PCs
  BY <1>1, <1>5, IdleIs DEF Shape, PCs
<1>9. Shape'
  BY <1>1, <1>4, <1>5, <1>6, <1>7, <1>8, ShapeKept
<1>10. CallFits(v)'
  <2>1. Idle' = Idle
    BY DEF Idle, NoVolume
  <2> QED
    BY <1>5, <2>1, IdleIs DEF CallFits
<1>11. MountFits(v)'
  <2>1. Result(v) # Bare /\ (OwnFits(v, Result(v)) \/ ViewFits(v, Result(v)))
    BY <1>1, ResultFits DEF Mount
  <2>2. Unions' = Unions /\ Accepts(v)' = Accepts(v) /\ referenced' = referenced
    BY <1>1 DEF Node, Unions, Accepts, Volume
  <2>3. \A m : OwnFits(v, m) => OwnFits(v, m)'
    BY <1>1, <2>2 DEF Node, OwnFits, LayerPath, IsSetUp, OptionsOf, Volume
  <2>4. \A m : ViewFits(v, m) => ViewFits(v, m)'
    BY <1>1, <1>6, <2>2 DEF Node, ViewFits, IsTwin, IsMounted, Volume, Bare
  <2> QED
    BY <1>2, <1>6, <2>1, <2>2, <2>3, <2>4 DEF MountFits
<1> QED
  BY <1>1, <1>2, <1>5, <1>6, <1>9, <1>10, <1>11, OneVolume DEF Only

\* Any step of a handler.
LEMMA HandlerStep ==
    ASSUME IInv, NEW v \in Unions, Handler(v)
    PROVE  IInv'
<1>1. Shape
  BY DEF IInv
<1>2. UNCHANGED faults => faults' \in 0 .. MaxFaults
  BY <1>1 DEF Shape
<1>3. {"OK", "Aborted", "InvalidArgument", "Internal"} \subseteq Codes
  BY DEF Codes
<1>4. CASE PublishAgain(v)
  BY <1>2, <1>3, <1>4, Answers DEF PublishAgain, Called
<1>5. CASE PublishRefuses(v)
  BY <1>2, <1>3, <1>5, Answers DEF PublishRefuses, Called
<1>6. CASE Publish(v)
  BY <1>6, PublishStep
<1>7. CASE GetPod(v)
  BY <1>7, GetPodStep
<1>8. CASE Resolve(v)
  BY <1>8, ResolveStep
<1>9. CASE SourcesReady(v)
  BY <1>9, SourcesReadyStep
<1>10. CASE WaitEnds(v)
  BY <1>2, <1>3, <1>10, Answers DEF WaitEnds
<1>11. CASE Mount(v)
  BY <1>11, MountStep
<1>12. CASE MountFails(v)
  <2>1. faults' \in 0 .. MaxFaults
    BY <1>1, <1>2, <1>12, FaultIs DEF MountFails
  <2>2. PICK code \in Codes : Answer(v, code)
    BY <1>3, <1>12 DEF MountFails
  <2> QED
    BY <1>12, <2>1, <2>2, Answers DEF MountFails
<1> QED
  BY <1>4, <1>5, <1>6, <1>7, <1>8, <1>9, <1>10, <1>11, <1>12 DEF Handler

(***************************************************************************)
(* The steps of the pod and the node                                       *)
(***************************************************************************)

\* A step that only adds, and after which a call is where it was or lost.
LEMMA NodeGrows ==
    ASSUME IInv, Grows, Shape', UNCHANGED mounted,
           \A w \in Unions : call'[w] = call[w] \/ call'[w] = Idle
    PROVE  IInv'
<1>1. Unions' = Unions
  BY DEF Grows, Unions
<1>2. \A w \in Unions : CallFits(w)' /\ MountFits(w)'
  BY Kept
<1> QED
  BY <1>1, <1>2 DEF IInv

\* Claims and volumes make progress, containers come, pods go, links change, and
\* the driver restarts.
LEMMA NodeStep ==
    ASSUME IInv,
           \/ Progress
           \/ \E name \in VolumeNames(pod) : AddContainer(name) \/ Relink(name)
           \/ ReplacePod
           \/ DriverRestarts
    PROVE  IInv'
<1>1. Shape
  BY DEF IInv
<1>2. ASSUME NEW name \in DOMAIN claim, ClaimProceeds(name) PROVE IInv'
  <2>1. Grows /\ Unions' = Unions
    BY <1>2 DEF ClaimProceeds, Grows, Unions
  <2>2. \A n \in DOMAIN claim' : claim'[n] \in {"missing", "unbound", "bound"}
    BY <1>1, <1>2 DEF ClaimProceeds, Shape
  <2>3. Shape'
    BY <1>1, <1>2, <2>1, <2>2 DEF ClaimProceeds, Shape, IsCall
  <2> QED
    BY <1>2, <2>1, <2>3, NodeGrows DEF ClaimProceeds
<1>3. ASSUME NEW name \in VolumeNames(pod), SetUp(name) PROVE IInv'
  <2>1. setUp' \in [VolumeNames(pod) -> {"none", "dir", "mounted"}]
    BY <1>1, <1>3 DEF SetUp, Shape
  <2>2. \A n \in VolumeNames(pod) :
            /\ setUp[n] # "none" => setUp'[n] # "none"
            /\ setUp[n] = "mounted" => setUp'[n] = "mounted"
    BY <1>1, <1>3 DEF SetUp, Shape
  <2>3. Grows /\ Unions' = Unions
    BY <1>3, <2>2 DEF SetUp, Grows, Unions
  <2>4. Shape'
    BY <1>1, <1>3, <2>1, <2>3 DEF SetUp, Shape, IsCall
  <2> QED
    BY <1>3, <2>3, <2>4, NodeGrows DEF SetUp
<1>4. ASSUME NEW name \in VolumeNames(pod), AddContainer(name) PROVE IInv'
  <2>1. Grows /\ Unions' = Unions
    BY <1>4 DEF AddContainer, Grows, Unions
  <2>2. late' \in 0 .. MaxLate
    BY <1>1, <1>4, BoundAssumption DEF AddContainer, Shape
  <2>3. Shape'
    BY <1>1, <1>4, <2>1, <2>2 DEF AddContainer, Shape, IsCall
  <2> QED
    BY <1>4, <2>1, <2>3, NodeGrows DEF AddContainer
<1>5. ASSUME NEW name \in VolumeNames(pod), Relink(name) PROVE IInv'
  <2>1. Grows /\ Unions' = Unions
    BY <1>5 DEF Relink, Grows, Unions
  <2>2. config.allowed \cup config.denied \subseteq Seq(STRING)
    BY <1>1, ConfigIs DEF Shape
  <2>3. leads' \in [VolumeNames(pod) -> Seq(STRING)]
    BY <1>1, <1>5, <2>2 DEF Relink, Shape
  <2>4. faults' \in 0 .. MaxFaults
    BY <1>1, <1>5, FaultIs DEF Relink
  <2>5. Shape'
    BY <1>1, <1>5, <2>1, <2>3, <2>4 DEF Relink, Shape, IsCall
  <2> QED
    BY <1>5, <2>1, <2>5, NodeGrows DEF Relink
<1>6. CASE ReplacePod
  <2>1. Grows /\ Unions' = Unions
    BY <1>6 DEF ReplacePod, Grows, Unions
  <2>2. faults' \in 0 .. MaxFaults
    BY <1>1, <1>6, FaultIs DEF ReplacePod
  <2>3. Shape'
    BY <1>1, <1>6, <2>1, <2>2 DEF ReplacePod, Shape, IsCall
  <2> QED
    BY <1>6, <2>1, <2>3, NodeGrows DEF ReplacePod
<1>7. CASE DriverRestarts
  <2>1. Grows /\ Unions' = Unions
    BY <1>7 DEF DriverRestarts, Grows, Unions, Node
  <2>2. faults' \in 0 .. MaxFaults
    BY <1>1, <1>7, FaultIs DEF DriverRestarts
  <2>3. call' = [w \in Unions |-> Idle]
    BY <1>7 DEF DriverRestarts
  <2>4. \A w \in Unions : call'[w] = Idle
    BY <2>3
  <2>5. call' = [w \in Unions |-> call'[w]]
    BY <2>3
  <2>6. \A w \in Unions : IsCall(call'[w]) /\ call'[w].pc \in PCs
    BY <2>4, IdleIs DEF PCs
  <2>7. mounted' = [w \in Unions |-> mounted'[w]] /\ answer' \in [Unions -> Codes]
    BY <1>1, <1>7 DEF Shape, DriverRestarts
  <2>8. Shape'
    BY <1>1, <1>7, <2>2, <2>5, <2>6, <2>7, ShapeKept DEF DriverRestarts
  <2> QED
    BY <1>7, <2>1, <2>4, <2>8, NodeGrows DEF DriverRestarts
<1> QED
  BY <1>2, <1>3, <1>4, <1>5, <1>6, <1>7 DEF Progress

\* Nothing is under way, and nothing mounted.
LEMMA InitFits == Init => IInv
<1> SUFFICES ASSUME Init PROVE IInv
  OBVIOUS
<1>1. config \in Configs /\ pod \in Pods
  BY DEF Init
<1>2. \A v \in Unions : call[v] = Idle /\ mounted[v] = Bare
  BY DEF Init
<1>3. referenced \subseteq VolumeNames(pod)
  <2>1. pod.mounts \subseteq VolumeNames(pod)
    BY <1>1, PodAssumption
  <2> QED
    BY <2>1 DEF Init, Admitted, VolumeNames
<1>4. \A name \in VolumeNames(pod) : HostDir(Volume(name)) \in Seq(STRING)
  BY <1>1, NamedIs, PodAssumption DEF Volume
<1>5. Shape
  <2>1. leads \in [VolumeNames(pod) -> Seq(STRING)]
    BY <1>4 DEF Init
  <2>2. setUp \in [VolumeNames(pod) -> {"none", "dir", "mounted"}]
    BY DEF Init
  <2>3. answer \in [Unions -> Codes]
    BY DEF Init, Codes
  <2>4. call = [v \in Unions |-> call[v]] /\ mounted = [v \in Unions |-> mounted[v]]
    BY DEF Init
  <2>5. \A v \in Unions : IsCall(call[v]) /\ call[v].pc \in PCs
    BY <1>2, IdleIs DEF PCs
  <2>6. \A name \in DOMAIN claim : claim[name] \in {"missing", "unbound", "bound"}
    BY DEF Init
  <2>7. faults \in 0 .. MaxFaults /\ late \in 0 .. MaxLate /\ api = "own"
    BY BoundAssumption DEF Init
  <2> QED
    BY <1>1, <1>3, <2>1, <2>2, <2>3, <2>4, <2>5, <2>6, <2>7 DEF Shape
<1>6. \A v \in Unions : CallFits(v) /\ MountFits(v)
  BY <1>2, IdleIs DEF CallFits, MountFits, IsMounted
<1> QED
  BY <1>5, <1>6 DEF IInv

\* Every step keeps the invariant.
LEMMA NextFits == IInv /\ [Next]_vars => IInv'
<1> SUFFICES ASSUME IInv, [Next]_vars PROVE IInv'
  OBVIOUS
<1>1. ASSUME NEW v \in Unions, Handler(v) PROVE IInv'
  BY <1>1, HandlerStep
<1>2. CASE Progress \/ (\E name \in VolumeNames(pod) : AddContainer(name) \/ Relink(name))
           \/ ReplacePod \/ DriverRestarts
  BY <1>2, NodeStep
<1>3. CASE UNCHANGED vars
  <2>1. Grows
    BY <1>3 DEF vars, Grows
  <2>2. Shape'
    BY <1>3 DEF vars, IInv, Shape, Unions, IsCall
  <2> QED
    BY <1>3, <2>1, <2>2, NodeGrows DEF vars
<1> QED
  BY <1>1, <1>2, <1>3 DEF Next

\* What every call has found out at each of its steps stays true until it mounts,
\* and what is mounted fits its declaration for ever, whatever overlaps it.
THEOREM Invariance == Spec => []IInv
BY InitFits, NextFits, PTL DEF Spec

(***************************************************************************)
(* What gets mounted                                                       *)
(***************************************************************************)

\* The options of an accepted volume are those the policy makes of them.
LEMMA OptionsAre ==
    ASSUME Shape, NEW v \in Unions, Accepts(v)
    PROVE  LET options  == OptionsOf(v)
               wanted   == ParsedOptions(Volume(v).options)
               flags    == config.flags
           IN  /\ DOMAIN options \subseteq DOMAIN config.schema
               /\ CheckSchema(config, options)
               /\ DOMAIN flags.forced \cup DOMAIN DefaultsOf(flags) \subseteq DOMAIN options
               /\ \A k \in DOMAIN options :
                     options[k] = IF k \in DOMAIN flags.forced THEN flags.forced[k]
                                  ELSE IF k \in DOMAIN wanted \ DenylistOf(flags)
                                  THEN wanted[k] ELSE DefaultsOf(flags)[k]
<1>1. config \in Configs /\ PolicyAccepts(config, ParsedOptions(Volume(v).options))
  BY DEF Shape, Accepts
<1> QED
  BY <1>1, ResolvedIs DEF OptionsOf

\* A call has sources just when it waits for them or mounts them.
LEMMA CallType ==
    ASSUME IInv, NEW v \in Unions
    PROVE  /\ call[v].pc \in {"wait", "mount"} <=> call[v].sources # <<>>
           /\ call[v].view \in (Unions \ {v}) \cup {NoVolume}
           /\ DOMAIN call[v].options \subseteq DOMAIN config.schema
<1> DEFINE c == call[v]
<1>1. Shape /\ CallFits(v) /\ c.pc \in PCs
  BY DEF IInv, Shape
<1>2. CASE c.pc = "idle"
  <2>1. c = Idle
    BY <1>1, <1>2 DEF CallFits
  <2>2. DOMAIN Idle.options = {}
    BY DEF Idle
  <2> QED
    BY <1>2, <2>1, <2>2, IdleIs
<1>3. CASE c.pc # "idle"
  <2>1. Accepts(v) /\ c.options = OptionsOf(v)
    BY <1>1, <1>3 DEF CallFits
  <2>2. DOMAIN c.options \subseteq DOMAIN config.schema
    BY <1>1, <2>1, OptionsAre
  <2>3. CASE c.pc \in {"getPod", "resolve"}
    BY <1>1, <2>2, <2>3 DEF CallFits
  <2>4. CASE c.pc \in {"wait", "mount"}
    <3>1. Awaits(v, c)
      BY <1>1, <2>4 DEF CallFits
    <3>2. CASE c.view = NoVolume
      <4>1. SourcesParse(config, Volume(v).sources)
        BY <2>1 DEF Accepts, AttributesParse
      <4>2. Volume(v).sources # <<>>
        BY <4>1, Zenon DEF SourcesParse
      <4>3. DOMAIN Volume(v).sources # {}
        BY <1>1, <4>2, UnionIs DEF IsSequence
      <4>4. DOMAIN c.sources # {}
        BY <3>1, <3>2, <4>3 DEF Awaits
      <4> QED
        BY <2>2, <2>4, <3>2, <4>4
    <3>3. CASE c.view # NoVolume
      <4>1. c.sources = <<ViewSource(pod, c.view)>> /\ c.view \in Unions \ {v}
        BY <3>1, <3>3 DEF Awaits, IsTwin
      <4> QED
        BY <2>2, <2>4, <4>1
    <3> QED
      BY <3>2, <3>3
  <2> QED
    BY <1>1, <1>3, <2>3, <2>4 DEF PCs
<1> QED
  BY <1>2, <1>3

\* Every reachable state has the shape that the handlers' next steps rely on:
\* a call that waits or mounts has its sources, a view is of another union.
THEOREM TypeCorrect == Spec => []TypeOK
<1>1. IInv => TypeOK
  <2> SUFFICES ASSUME IInv PROVE TypeOK
    OBVIOUS
  <2>1. Shape
    BY DEF IInv
  <2>2. ASSUME NEW v \in Unions
        PROVE  \/ mounted[v].how \in {"none", "own"}
               \/ mounted[v].how = "view" /\ mounted[v].of \in Unions \ {v}
    <3>1. CASE ~IsMounted(v)
      BY <3>1 DEF IsMounted, Bare
    <3>2. CASE IsMounted(v)
      BY <3>2 DEF IInv, MountFits, OwnFits, ViewFits, IsTwin
    <3> QED
      BY <3>1, <3>2
  <2>3. \A v \in Unions : call[v].pc \in PCs
    BY <2>1 DEF Shape
  <2> QED
    BY <2>1, <2>2, <2>3, CallType DEF TypeOK, Shape
<1> QED
  BY <1>1, Invariance, PTL

\* A volume with a mount of its own.
LEMMA OwnIs ==
    ASSUME IInv, NEW v \in Unions, Owns(v)
    PROVE  Accepts(v) /\ OwnFits(v, mounted[v])
<1>1. IsMounted(v)
  BY DEF Owns, IsMounted, Bare
<1>2. mounted[v].how # "view"
  BY DEF Owns
<1> QED
  BY <1>1, <1>2 DEF IInv, MountFits, ViewFits

\* A view always shows the union that its own volume declares, also when the
\* volumes containers mount have changed since.
THEOREM ViewsShowTheirUnion == Spec => []ViewShowsItsUnion
<1>1. IInv => ViewShowsItsUnion
  <2> SUFFICES ASSUME IInv, NEW v \in Unions, mounted[v].how = "view"
               PROVE  Declared(Volume(v)) = Declared(Volume(mounted[v].of))
    BY DEF ViewShowsItsUnion
  <2>1. IsMounted(v)
    BY DEF IsMounted, Bare
  <2> QED
    BY <2>1 DEF IInv, MountFits, OwnFits, ViewFits, IsTwin
<1> QED
  BY <1>1, Invariance, PTL

\* The layers of a mount are its declared sources, in order, each of them writable
\* just as declared, with either backend.
THEOREM LayersAsDeclared == Spec => []LayersFollowDeclaration
<1>1. IInv => LayersFollowDeclaration
  <2> SUFFICES ASSUME IInv, NEW v \in Unions, Owns(v)
               PROVE  LET declared == ParsedSources(Volume(v).sources)
                          layers   == mounted[v].layers
                      IN  /\ DOMAIN layers = DOMAIN declared
                          /\ \A i \in DOMAIN layers :
                                /\ layers[i].writable <=> declared[i].mode # "RO" /\ ~Volume(v).readOnly
                                /\ \/ layers[i].path[1] = HostRoot
                                   \/ layers[i].path[3] = DirName(Volume(declared[i].name))
    BY DEF LayersFollowDeclaration
  <2> DEFINE layers == mounted[v].layers
  <2>1. OwnFits(v, mounted[v])
    BY OwnIs
  <2>2. /\ DOMAIN ParsedSources(Volume(v).sources) = DOMAIN Volume(v).sources
        /\ \A i \in DOMAIN Volume(v).sources :
              ParsedSources(Volume(v).sources)[i].name = Volume(v).sources[i].name
    BY DEF ParsedSources
  <2>3. DOMAIN layers = DOMAIN Volume(v).sources
    BY <2>1 DEF OwnFits
  <2>4. \A i \in DOMAIN layers :
           /\ layers[i].writable <=>
                  ParsedSources(Volume(v).sources)[i].mode # "RO" /\ ~Volume(v).readOnly
           /\ \/ layers[i].path[1] = HostRoot
              \/ layers[i].path[3] = DirName(Volume(Volume(v).sources[i].name))
    BY <2>1 DEF OwnFits, LayerPath
  <2> HIDE DEF layers
  <2> QED
    BY <2>2, <2>3, <2>4 DEF layers
<1> QED
  BY <1>1, Invariance, PTL

\* No mount has a layer from another pod or from a host directory that is not
\* allowed, though pods are replaced and links changed while a call is under way.
THEOREM SourcesStayOwn == Spec => []SourcesAreOwn
<1>1. IInv => SourcesAreOwn
  <2> SUFFICES ASSUME IInv, NEW v \in Unions, Owns(v), NEW i \in DOMAIN mounted[v].layers
               PROVE  LET path == mounted[v].layers[i].path IN
                      \/ path[1] = pod.uid
                      \/ path[1] = HostRoot /\ HostPathAllowed(config, Tail(path))
    BY DEF SourcesAreOwn
  <2>1. OwnFits(v, mounted[v])
    BY OwnIs
  <2> QED
    BY <2>1 DEF OwnFits, LayerPath
<1> QED
  BY <1>1, Invariance, PTL

\* Every source of a union was set up before it, whatever kubelet's plugins do for a volume
\* of its kind, except that a source in memory may have been the directory below its tmpfs.
THEOREM MountedSourcesFirst == Spec => []SourcesWereMounted
<1>1. IInv => SourcesWereMounted
  <2> SUFFICES ASSUME IInv, NEW v \in Unions, Owns(v), NEW i \in DOMAIN Volume(v).sources
               PROVE  \/ IsSetUpFor(v, i)
                      \/ InMemory(Source(v, i)) /\ setUp[Source(v, i).name] # "none"
    BY DEF SourcesWereMounted
  <2> DEFINE name == Volume(v).sources[i].name
  <2>1. /\ i \in DOMAIN mounted[v].layers /\ name \in VolumeNames(pod)
        /\ LayerPath(mounted[v].layers[i].path, name)
    BY OwnIs DEF OwnFits
  <2>2. Source(v, i) = Volume(name) /\ Source(v, i).name = name
    BY <2>1, NamedIs DEF Volume, Source, IInv, Shape
  <2>3. CASE mounted[v].layers[i].path[1] = HostRoot \/ setUp[name] = "mounted"
    BY <2>2, <2>3 DEF IsSetUpFor
  <2>4. CASE Volume(name).kind \in PlainKinds /\ setUp[name] = "dir"
    <3>1. IsDirectory(Volume(name)) \/ InMemory(Volume(name))
      BY <2>4 DEF PlainKinds, IsDirectory, InMemory
    <3> QED
      BY <2>2, <2>4, <3>1 DEF IsSetUpFor
  <2>5. setUp[name] \in {"none", "dir", "mounted"}
    BY <2>1 DEF IInv, Shape
  <2> QED
    BY <2>1, <2>3, <2>4, <2>5 DEF LayerPath, IsSetUp
<1> QED
  BY <1>1, Invariance, PTL

\* For every schema, list and command line with which the driver starts, the options
\* of a mount are valid, the forced ones win, the denied ones do not get through, and the
\* pod asked for none that the lists refuse.
THEOREM OptionsObeyPolicy == Spec => []OptionsFollowPolicy
<1>1. IInv => OptionsFollowPolicy
  <2> SUFFICES ASSUME IInv, NEW v \in Unions, Owns(v)
               PROVE  LET options  == mounted[v].options
                          wanted   == ParsedOptions(Volume(v).options)
                          flags    == config.flags
                          denied   == DenylistOf(flags)
                          defaults == DefaultsOf(flags)
                      IN  /\ CheckSchema(config, options)
                          /\ DOMAIN flags.forced \cup DOMAIN defaults \subseteq DOMAIN options
                          /\ \A k \in DOMAIN options :
                                options[k] = IF k \in DOMAIN flags.forced THEN flags.forced[k]
                                             ELSE IF k \in DOMAIN wanted \ denied
                                             THEN wanted[k] ELSE defaults[k]
                          /\ flags.mode = "refuse" => DOMAIN wanted \cap denied = {}
                          /\ flags.allowlist # {} =>
                                DOMAIN wanted \subseteq flags.allowlist \cup denied
    BY DEF OptionsFollowPolicy, DenylistOf, DefaultsOf
  <2>1. Shape /\ Accepts(v) /\ mounted[v].options = OptionsOf(v)
    BY OwnIs DEF IInv, OwnFits
  <2>2. config \in Configs /\ PolicyAccepts(config, ParsedOptions(Volume(v).options))
    BY <2>1 DEF Shape, Accepts
  <2> QED
    BY <2>1, <2>2, OptionsAre, AcceptedAre
<1> QED
  BY <1>1, Invariance, PTL

(***************************************************************************)
(* Who mounts a shared union                                               *)
(***************************************************************************)

\* The volume that v is to be a view of, as the pod was admitted.
Picks(v) == SharedSource(config, pod, Admitted(config, pod), v)

Picked == {"resolve", "wait", "mount"}

\* The call of v, and what it mounted, followed that choice.
Agrees(v) ==
    config.reuse =>
        /\ call[v].pc \in Picked => call[v].view = Picks(v)
        /\ Owns(v) => Picks(v) = NoVolume
        /\ mounted[v].how = "view" => mounted[v].of = Picks(v)

Agreement ==
    /\ Admitted(config, pod) \subseteq referenced
    /\ NoLateUnion => \A v \in Unions : Agrees(v)

\* While no union comes late, every call makes the choice of the pod as admitted.
LEMMA PicksIs ==
    ASSUME Shape, NoLateUnion, NEW v
    PROVE  SharedSource(config, pod, referenced, v) = Picks(v)
<1>1. \A w \in VolumeNames(pod) : IsUnion(VolumeNamed(pod, w)) =>
          (w \in referenced <=> w \in Admitted(config, pod))
  BY DEF NoLateUnion, Unions, Volume
<1>2. pod \in Pods
  BY DEF Shape
<1> QED
  BY <1>1, <1>2, SharedSame DEF Picks

\* If the calls have agreed, then each union has one mount and views of that.
LEMMA AgreedIsOne ==
    ASSUME IInv, Agreement
    PROVE  OneMountUnlessLate
<1> SUFFICES ASSUME NoLateUnion, config.reuse, NEW v \in Unions, IsMounted(v)
             PROVE  /\ \A w \in Unions \ {v} :
                          Owns(v) /\ Owns(w) => Declared(Volume(v)) # Declared(Volume(w))
                    /\ ~Owns(v) => Owns(mounted[v].of)
  BY DEF OneMountUnlessLate, OneMountPerUnion
<1>1. pod \in Pods /\ \A w \in Unions : Agrees(w)
  BY DEF IInv, Shape, Agreement
<1>2. ASSUME NEW w \in Unions, IsMounted(w)
      PROVE  /\ w \in VolumeNames(pod) \cap Admitted(config, pod)
             /\ Declares(config, VolumeNamed(pod, w))
             /\ Owns(w) \/ ViewFits(w, mounted[w])
  <2>1. Accepts(w) /\ w \in referenced /\ (OwnFits(w, mounted[w]) \/ ViewFits(w, mounted[w]))
    BY <1>2 DEF IInv, MountFits
  <2>2. w \in VolumeNames(pod) /\ IsUnion(Volume(w))
    BY DEF Unions, Volume
  <2> QED
    BY <2>1, <2>2 DEF NoLateUnion, Declares, Accepts, Volume, Owns, OwnFits
<1>3. ASSUME NEW w \in Unions \ {v}, Owns(v), Owns(w)
      PROVE  Declared(Volume(v)) # Declared(Volume(w))
  <2>1. IsMounted(w)
    BY <1>3 DEF IsMounted, Owns, Bare
  <2>2. Picks(v) = NoVolume /\ Picks(w) = NoVolume
    BY <1>1, <1>3 DEF Agrees
  <2> QED
    BY <1>1, <1>2, <2>1, <2>2, SharedComplete DEF Picks, Volume
<1>4. ASSUME ~Owns(v)
      PROVE  Owns(mounted[v].of)
  <2> DEFINE w == mounted[v].of
  <2>1. ViewFits(v, mounted[v])
    BY <1>2, <1>4
  <2>2. w \in Unions /\ IsMounted(w) /\ mounted[v].how = "view"
    BY <2>1 DEF ViewFits, IsTwin
  <2>3. w = Picks(v)
    BY <1>1, <2>2 DEF Agrees
  <2>4. v \in VolumeNames(pod) /\ w # NoVolume
    BY <1>1, <2>2, NamedIs DEF Unions
  <2>5. Picks(w) = NoVolume
    BY <1>1, <2>3, <2>4, SharedFound DEF Picks
  <2>6. ASSUME ~Owns(w) PROVE FALSE
    <3>1. ViewFits(w, mounted[w])
      BY <1>2, <2>2, <2>6
    <3>2. mounted[w].how = "view" /\ mounted[w].of \in Unions
      BY <3>1 DEF ViewFits, IsTwin
    <3>3. mounted[w].of = NoVolume
      BY <1>1, <2>2, <2>5, <3>2 DEF Agrees
    <3> QED
      BY <1>1, <3>2, <3>3, NamedIs DEF Unions
  <2> QED
    BY <2>6
<1> QED
  BY <1>3, <1>4

\* A call that has made its choice keeps it.
LEMMA AgreesKept ==
    ASSUME NEW w \in Unions, Agrees(w), UNCHANGED <<config, pod>>, mounted'[w] = mounted[w],
           call'[w].pc \in Picked => call[w].pc \in Picked /\ call'[w].view = call[w].view
    PROVE  Agrees(w)'
BY DEF Agrees, Picks, Owns

\* A step of a handler changes nothing of another volume.
LEMMA HandlerOnly ==
    ASSUME Shape, NEW v \in Unions, Handler(v)
    PROVE  Only(v)
<1>1. UNCHANGED Node
  BY DEF Handler, PublishAgain, PublishRefuses, Publish, Called, GetPod, Resolve, SourcesReady,
         WaitEnds, Mount, MountFails
<1>2. \E to : call' = [call EXCEPT ![v] = to]
  BY DEF Handler, PublishAgain, PublishRefuses, Publish, GetPod, Resolve, SourcesReady,
         WaitEnds, Mount, MountFails, Answer, Goes
<1>3. mounted' = mounted \/ mounted' = [mounted EXCEPT ![v] = Result(v)]
  BY DEF Handler, PublishAgain, PublishRefuses, Publish, Called, GetPod, Resolve, SourcesReady,
         WaitEnds, Mount, MountFails
<1>4. \A w \in Unions : w # v => call'[w] = call[w]
  BY <1>2, CallIs
<1>5. \A w \in Unions : w # v => mounted'[w] = mounted[w]
  BY <1>3 DEF Shape
<1> QED
  BY <1>1, <1>4, <1>5 DEF Only

\* A call chooses as the pod was admitted, and mounts what it chose.
LEMMA HandlerAgrees ==
    ASSUME IInv, NoLateUnion, NEW v \in Unions, Agrees(v), Handler(v)
    PROVE  Agrees(v)'
<1>1. Shape /\ CallFits(v) /\ Only(v) /\ IsCall(call[v])
  BY HandlerOnly DEF IInv, Shape
<1>2. UNCHANGED <<config, pod, referenced>>
  BY <1>1 DEF Only, Node
<1>3. ASSUME UNCHANGED mounted, NEW code, Answer(v, code) PROVE Agrees(v)'
  <2>1. call'[v] = Idle
    BY <1>1, <1>3, CallIs DEF Answer
  <2>2. call'[v].pc \notin Picked
    BY <2>1, IdleIs DEF Picked
  <2> QED
    BY <1>2, <1>3, <2>2, AgreesKept
<1>4. CASE PublishAgain(v) \/ PublishRefuses(v) \/ WaitEnds(v) \/ MountFails(v)
  <2>1. UNCHANGED mounted
    BY <1>4 DEF PublishAgain, PublishRefuses, Called, WaitEnds, MountFails
  <2>2. \E code : Answer(v, code)
    BY <1>4 DEF PublishAgain, PublishRefuses, WaitEnds, MountFails
  <2> QED
    BY <1>3, <2>1, <2>2
<1>5. CASE Publish(v)
  <2> DEFINE to == [Idle EXCEPT !.pc = "getPod",
                      !.options = ResolvedOptions(config, ParsedOptions(Volume(v).options))]
  <2>1. UNCHANGED mounted /\ Goes(v, to)
    BY <1>5 DEF Publish, Called
  <2>2. to.pc = "getPod"
    BY DEF Idle
  <2> HIDE DEF to
  <2>3. call'[v] = to
    BY <1>1, <2>1, CallIs DEF Goes
  <2> QED
    BY <1>2, <2>1, <2>2, <2>3, AgreesKept DEF Picked
<1>6. CASE GetPod(v)
  <2> DEFINE first == IF config.reuse
                      THEN SharedSource(config, FetchedPod, referenced, v) ELSE NoVolume
             here == [call[v] EXCEPT !.pc = "resolve", !.saw = referenced, !.uid = FetchedPod.uid]
             there == [call[v] EXCEPT !.pc = "wait", !.view = first,
                         !.sources = <<ViewSource(FetchedPod, first)>>]
  <2>1. UNCHANGED mounted /\ call[v].pc = "getPod"
    BY <1>6 DEF GetPod
  <2>2. \/ \E code : Answer(v, code)
        \/ SameUID /\ first = NoVolume /\ Goes(v, here)
        \/ SameUID /\ first # NoVolume /\ Goes(v, there)
    BY <1>6 DEF GetPod
  <2>3. /\ here.pc = "resolve" /\ here.view = call[v].view
        /\ there.pc = "wait" /\ there.view = first
    BY <1>1 DEF IsCall
  <2>4. SameUID => (config.reuse => first = Picks(v))
    BY <1>1, FetchedIs, PicksIs
  <2>5. call[v].view = NoVolume
    BY <1>1, <2>1 DEF CallFits
  <2> HIDE DEF first, here, there
  <2>6. ASSUME config.reuse, call'[v].view = Picks(v) PROVE Agrees(v)'
    BY <1>2, <2>1, <2>6 DEF Agrees, Picks, Owns
  <2>7. ~config.reuse => Agrees(v)'
    BY <1>2 DEF Agrees
  <2>8. ASSUME SameUID, first = NoVolume, Goes(v, here) PROVE Agrees(v)'
    <3>1. call'[v] = here
      BY <1>1, <2>8, CallIs DEF Goes
    <3> QED
      BY <2>3, <2>4, <2>5, <2>6, <2>7, <2>8, <3>1
  <2>9. ASSUME SameUID, Goes(v, there) PROVE Agrees(v)'
    <3>1. call'[v] = there
      BY <1>1, <2>9, CallIs DEF Goes
    <3> QED
      BY <2>3, <2>4, <2>6, <2>7, <2>9, <3>1
  <2> QED
    BY <1>3, <2>1, <2>2, <2>8, <2>9
<1>7. ASSUME call[v].pc \in Picked, UNCHANGED mounted, NEW to, to.view = call[v].view, Goes(v, to)
      PROVE  Agrees(v)'
  <2>1. call'[v] = to
    BY <1>1, <1>7, CallIs DEF Goes
  <2> QED
    BY <1>2, <1>7, <2>1, AgreesKept
<1>8. CASE Resolve(v)
  <2>1. UNCHANGED mounted /\ call[v].pc \in Picked
    BY <1>8 DEF Resolve, Picked
  <2>2. \/ \E code : Answer(v, code)
        \/ \E sources : Goes(v, [call[v] EXCEPT !.pc = "wait", !.sources = sources])
    BY <1>8 DEF Resolve
  <2>3. \A sources : [call[v] EXCEPT !.pc = "wait", !.sources = sources].view = call[v].view
    BY <1>1 DEF IsCall
  <2> QED
    BY <1>3, <1>7, <2>1, <2>2, <2>3
<1>9. CASE SourcesReady(v)
  <2>1. /\ UNCHANGED mounted /\ call[v].pc \in Picked
        /\ Goes(v, [call[v] EXCEPT !.pc = "mount"])
    BY <1>9 DEF SourcesReady, Picked
  <2>2. [call[v] EXCEPT !.pc = "mount"].view = call[v].view
    BY <1>1 DEF IsCall
  <2> QED
    BY <1>7, <2>1, <2>2
<1>10. CASE Mount(v)
  <2>1. call[v].pc = "mount" /\ mounted' = [mounted EXCEPT ![v] = Result(v)]
    BY <1>10 DEF Mount
  <2>2. \E code : Answer(v, code)
    BY <1>10 DEF Mount
  <2>3. call'[v] = Idle
    BY <1>1, <2>2, CallIs DEF Answer
  <2>4. mounted'[v] = Result(v)
    BY <1>1, <2>1 DEF Shape
  <2>5. call'[v].pc \notin Picked
    BY <2>3, IdleIs DEF Picked
  <2>6. config.reuse => call[v].view = Picks(v)
    BY <2>1 DEF Agrees, Picked
  <2>7. CASE IsView(v)
    <3>1. Result(v) = [how |-> "view", of |-> call[v].view]
      BY <2>7 DEF Result
    <3>2. mounted'[v].how = "view" /\ mounted'[v].of = call[v].view
      BY <2>4, <3>1
    <3> QED
      BY <1>2, <2>5, <2>6, <3>2 DEF Agrees, Owns, Picks
  <2>8. CASE ~IsView(v)
    <3>1. Result(v) = [how |-> "own", layers |-> Layers(config, MountSpec(v)),
                       options |-> call[v].options]
      BY <2>8 DEF Result
    <3>2. mounted'[v].how = "own"
      BY <2>4, <3>1
    <3>3. config.reuse => Picks(v) = NoVolume
      BY <2>6, <2>8 DEF IsView
    <3> QED
      BY <1>2, <2>5, <3>2, <3>3 DEF Agrees, Owns, Picks
  <2> QED
    BY <2>7, <2>8
<1> QED
  BY <1>4, <1>5, <1>6, <1>8, <1>9, <1>10 DEF Handler

\* The steps of the node leave the choices alone.
LEMMA NodeAgrees ==
    ASSUME IInv,
           \/ Progress
           \/ \E name \in VolumeNames(pod) : AddContainer(name) \/ Relink(name)
           \/ ReplacePod
           \/ DriverRestarts
           \/ UNCHANGED vars
    PROVE  /\ UNCHANGED <<config, pod, mounted>> /\ referenced \subseteq referenced'
           /\ \A v \in Unions : call'[v] = call[v] \/ call'[v] = Idle
BY DEF Progress, ClaimProceeds, SetUp, AddContainer, Relink, ReplacePod, DriverRestarts, Node, vars

\* Agreement survives every step, since a late union ends what it promises.
LEMMA NextAgrees == IInv /\ Agreement /\ [Next]_vars => Agreement'
<1> SUFFICES ASSUME IInv, Agreement, [Next]_vars PROVE Agreement'
  OBVIOUS
<1>1. Shape
  BY DEF IInv
<1>2. ASSUME UNCHANGED <<config, pod>>, referenced \subseteq referenced',
             NoLateUnion => \A v \in Unions : Agrees(v)'
      PROVE  Agreement'
  <2>1. Unions' = Unions
    BY <1>2 DEF Unions
  <2>2. NoLateUnion' => NoLateUnion
    BY <1>2, <2>1 DEF NoLateUnion, Agreement
  <2> QED
    BY <1>2, <2>1, <2>2 DEF Agreement
<1>3. ASSUME NEW v \in Unions, Handler(v) PROVE Agreement'
  <2>1. Only(v)
    BY <1>1, <1>3, HandlerOnly
  <2>2. UNCHANGED <<config, pod, referenced>>
    BY <2>1 DEF Only, Node
  <2>3. ASSUME NoLateUnion, NEW w \in Unions PROVE Agrees(w)'
    <3>1. Agrees(w)
      BY <2>3 DEF Agreement
    <3>2. CASE w = v
      BY <1>3, <2>3, <3>1, <3>2, HandlerAgrees
    <3>3. CASE w # v
      BY <2>1, <2>2, <3>1, <3>3, AgreesKept DEF Only
    <3> QED
      BY <3>2, <3>3
  <2> QED
    BY <1>2, <2>2, <2>3
<1>4. CASE \/ Progress
           \/ \E name \in VolumeNames(pod) : AddContainer(name) \/ Relink(name)
           \/ ReplacePod
           \/ DriverRestarts
           \/ UNCHANGED vars
  <2>1. /\ UNCHANGED <<config, pod, mounted>> /\ referenced \subseteq referenced'
        /\ \A v \in Unions : call'[v] = call[v] \/ call'[v] = Idle
    BY <1>4, NodeAgrees
  <2>2. ASSUME NoLateUnion, NEW w \in Unions PROVE Agrees(w)'
    <3>1. Agrees(w)
      BY <2>2 DEF Agreement
    <3>2. call'[w].pc \in Picked => call[w].pc \in Picked /\ call'[w].view = call[w].view
      BY <2>1, IdleIs DEF Picked
    <3> QED
      BY <2>1, <3>1, <3>2, AgreesKept
  <2> QED
    BY <1>2, <2>1, <2>2
<1> QED
  BY <1>3, <1>4 DEF Next

\* With --reuse-mounts the volumes of a pod agree on which of them mounts a union,
\* whatever is retried, overlaps or restarts, as long as no ephemeral container
\* brings in a union that nobody mounted before.
THEOREM VolumesAgree == Spec => []OneMountUnlessLate
<1>1. Init => Agreement
  <2> SUFFICES ASSUME Init PROVE Agreement
    OBVIOUS
  <2>1. \A v \in Unions : call[v] = Idle /\ mounted[v] = Bare
    BY DEF Init
  <2>2. \A v \in Unions : Agrees(v)
    BY <2>1, IdleIs DEF Agrees, Owns, Bare, Picked
  <2> QED
    BY <2>2 DEF Agreement, Init
<1>2. Spec => []Agreement
  BY <1>1, Invariance, NextAgrees, PTL DEF Spec
<1>3. IInv /\ Agreement => OneMountUnlessLate
  BY AgreedIsOne
<1> QED
  BY <1>2, <1>3, Invariance, PTL

=============================================================================
