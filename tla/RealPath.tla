------------------------------ MODULE RealPath ------------------------------
(***************************************************************************)
(* SourcePath.RealPath for a hostPath source, and the open of the layer    *)
(* that follows in the overlay backend, while links on the host change.    *)
(*                                                                         *)
(* The driver sees the allowed directories under a root of its own, and    *)
(* nothing else of the host; a walk resolves links as if that root were /. *)
(* Each system call of the walk is a step.                                 *)
(***************************************************************************)
EXTENDS HostPaths

CONSTANTS
    Policies,     \* host path policies to choose from: [allowed, denied]
    Starts,       \* host paths that sources name, cleaned
    Slots,        \* paths that others may change
    Targets,      \* link targets: [absolute, names], names may hold . and ..
    FixedDirs,    \* directories below the allowed ones that stay
    MaxSymlinks   \* 40 in the code

ASSUME StartAssumption == \A p \in Starts : p \in Seq(STRING)
ASSUME TargetAssumption == \A t \in Targets : t.names \in Seq(STRING)
ASSUME LimitAssumption == MaxSymlinks \in Nat
ASSUME PolicyAssumption == \A h \in Policies : h.allowed \cup h.denied \subseteq Seq(STRING)

\* Above the allowed directories are only those the driver's root is made of.
ASSUME SlotAssumption ==
    /\ Slots \subseteq Seq(STRING) \ {<<>>}
    /\ \A h \in Policies : \A p \in Slots : Reachable(h, p) => UnderAny(p, h.allowed)

VARIABLES
    policy, start,
    tree,      \* what is at each of the slots
    changed,   \* whether a slot has changed since the walk began
    pc, cur, pending, links,
    outcome,
    opened     \* the directory opened as a layer, if any

vars == <<policy, start, tree, changed, pc, cur, pending, links, outcome, opened>>

-----------------------------------------------------------------------------

Missing  == [type |-> "missing"]
Dir      == [type |-> "dir"]
Links    == {[type |-> "link", absolute |-> t.absolute, names |-> t.names] : t \in Targets}
Nodes    == {Missing, Dir} \cup Links

Init ==
    /\ policy \in Policies
    /\ start \in {p \in Starts : HostPathAllowed(policy, p)}
    /\ tree \in [Slots -> Nodes]
    /\ changed = FALSE
    /\ pc = "walk" /\ cur = <<>> /\ pending = start /\ links = 0
    /\ outcome = "none" /\ opened = {}

Parent(path) == IF path = <<>> THEN path ELSE Front(path)

\* Only what is allowed is mounted below the root, with its ancestors.
Visible(path) == Reachable(policy, path)

Node(path) ==
    CASE ~Visible(path) -> Missing
      [] Visible(path) /\ path \in Slots -> tree[path]
      [] Visible(path) /\ path \notin Slots ->
             IF path \in FixedDirs \/ \E dir \in policy.allowed : Under(dir, path)
             THEN Dir ELSE Missing

StrictPrefixes(path) == {SubSeq(path, 1, n) : n \in 0 .. Len(path) - 1}

\* A directory the walk has passed may be another by now: the kernel, which
\* follows links in all but the last name, may then find anything.
Sees(path) ==
    IF \A p \in StrictPrefixes(path) : Node(p) = Dir THEN {Node(path)} ELSE Nodes

Fixed == <<policy, start, tree, changed>>

Ends(how) ==
    /\ outcome' = how
    /\ pc' = "done"
    /\ UNCHANGED <<Fixed, cur, pending, links, opened>>

-----------------------------------------------------------------------------
(***************************************************************************)
(* RealPath                                                                *)
(***************************************************************************)
Walking == pc = "walk" /\ pending # <<>>

Stay ==
    /\ Walking /\ Head(pending) \in {"", "."}
    /\ pending' = Tail(pending)
    /\ UNCHANGED <<Fixed, pc, cur, links, outcome, opened>>

Up ==
    /\ Walking /\ Head(pending) = ".."
    /\ pending' = Tail(pending)
    /\ cur' = Parent(cur)
    /\ UNCHANGED <<Fixed, pc, links, outcome, opened>>

Named == Walking /\ Head(pending) \notin {"", ".", ".."}

NextPath == Append(cur, Head(pending))

LstatFails == Named /\ Missing \in Sees(NextPath) /\ Ends("missing")

LstatDir ==
    /\ Named /\ Dir \in Sees(NextPath)
    /\ cur' = NextPath
    /\ pending' = Tail(pending)
    /\ UNCHANGED <<Fixed, pc, links, outcome, opened>>

SeesLink == Named /\ Sees(NextPath) \cap Links # {}

TooManyLinks == SeesLink /\ links + 1 > MaxSymlinks /\ Ends("loop")

\* Mutant: links are not counted.
LstatLinkUncounted ==
    /\ SeesLink
    /\ pc' = "readlink"
    /\ UNCHANGED <<Fixed, cur, pending, links, outcome, opened>>

\* Mutant: the limit is checked before the link is counted.
LstatLinkCheckedEarly ==
    /\ SeesLink
    /\ links <= MaxSymlinks
    /\ links' = links + 1
    /\ pc' = "readlink"
    /\ UNCHANGED <<Fixed, cur, pending, outcome, opened>>

LstatLink ==
    /\ SeesLink
    /\ links + 1 <= MaxSymlinks
    /\ links' = links + 1
    /\ pc' = "readlink"
    /\ UNCHANGED <<Fixed, cur, pending, outcome, opened>>

ReadlinkFails ==
    /\ pc = "readlink"
    /\ Sees(NextPath) \cap {Missing, Dir} # {}
    /\ Ends("error")

\* filepath.Join: the names applied one by one, without looking at links.
JoinedBy(dir, name) ==
    CASE name \in {"", "."}         -> dir
      [] name = ".."                -> Parent(dir)
      [] name \notin {"", ".", ".."} -> Append(dir, name)

Join[q \in [dir : Seq(STRING), names : Seq(STRING)]] ==
    IF q.names = <<>> THEN q.dir
    ELSE JoinedBy(Join[[dir |-> q.dir, names |-> Front(q.names)]], Last(q.names))

Joined(dir, names) == Join[[dir |-> dir, names |-> names]]

From(link) == IF link.absolute THEN <<>> ELSE cur

LinkLeaves ==
    /\ pc = "readlink"
    /\ \E link \in Sees(NextPath) \cap Links :
           ~Reachable(policy, Joined(From(link), link.names))
    /\ Ends("refused")

\* Mutant: the link's names come after the rest of the path.
FollowLinkLast ==
    /\ pc = "readlink"
    /\ \E link \in Sees(NextPath) \cap Links :
           /\ Reachable(policy, Joined(From(link), link.names))
           /\ cur' = From(link)
           /\ pending' = Tail(pending) \o link.names
    /\ pc' = "walk"
    /\ UNCHANGED <<Fixed, links, outcome, opened>>

FollowLink ==
    /\ pc = "readlink"
    /\ \E link \in Sees(NextPath) \cap Links :
           /\ Reachable(policy, Joined(From(link), link.names))
           /\ cur' = From(link)
           /\ pending' = link.names \o Tail(pending)
    /\ pc' = "walk"
    /\ UNCHANGED <<Fixed, links, outcome, opened>>

Arrived == pc = "walk" /\ pending = <<>>

FinallyRefused == Arrived /\ ~HostPathAllowed(policy, cur) /\ Ends("refused")

Resolved ==
    /\ Arrived
    /\ HostPathAllowed(policy, cur)
    /\ outcome' = "found"
    /\ pc' = "open"
    /\ UNCHANGED <<Fixed, cur, pending, links, opened>>

(***************************************************************************)
(* openLayer: the path as it was resolved, with no link anywhere in it.    *)
(***************************************************************************)
OpensTo(path) ==
    IF \A p \in StrictPrefixes(path) \cup {path} : Node(p) = Dir THEN {path} ELSE {}

\* Mutant: links are followed when the layer is opened.
OpensThrough(path) ==
    OpensTo(path) \cup {Joined(Parent(path), link.names) : link \in {Node(path)} \cap Links}

OpenDir(path) == OpensTo(path)

Open ==
    /\ pc = "open"
    /\ \E path \in OpenDir(cur) : opened' = {path}
    /\ pc' = "done"
    /\ UNCHANGED <<Fixed, cur, pending, links, outcome>>

OpenFails ==
    /\ pc = "open"
    /\ OpenDir(cur) = {}
    /\ pc' = "done"
    /\ UNCHANGED <<Fixed, cur, pending, links, outcome, opened>>

-----------------------------------------------------------------------------

\* Someone makes a directory or a link, or removes one, as often as they like.
Change(slot) ==
    /\ \E node \in Nodes : tree' = [tree EXCEPT ![slot] = node]
    /\ changed' = TRUE
    /\ UNCHANGED <<policy, start, pc, cur, pending, links, outcome, opened>>

Step ==
    \/ Stay \/ Up
    \/ LstatFails \/ LstatDir \/ TooManyLinks \/ LstatLink
    \/ ReadlinkFails \/ LinkLeaves \/ FollowLink
    \/ FinallyRefused \/ Resolved
    \/ Open \/ OpenFails

Next == Step \/ \E slot \in Slots : Change(slot)

Spec == Init /\ [][Next]_vars

FairSpec == Spec /\ WF_vars(Step)

-----------------------------------------------------------------------------
(***************************************************************************)
(* Properties                                                              *)
(***************************************************************************)
\* The walk counts at most MaxSymlinks links and reads one only while it has a
\* name to go on from; it opens something only at its end (resolve.go:316-369).
TypeOK ==
    /\ policy \in Policies /\ start \in Starts
    /\ tree \in [Slots -> Nodes]
    /\ changed \in BOOLEAN
    /\ pc \in {"walk", "readlink", "open", "done"}
    /\ cur \in Seq(STRING) /\ pending \in Seq(STRING)
    /\ opened \subseteq Seq(STRING)
    /\ links \in 0 .. MaxSymlinks
    /\ pc = "readlink" => pending # <<>>
    /\ outcome \in {"none", "missing", "loop", "error", "refused", "found"}
    /\ outcome # "none" <=> pc \in {"open", "done"}
    /\ opened # {} => pc = "done"

\* Whatever links are changed while the driver resolves, checks and opens, the
\* directory that becomes a layer is below an allowed directory and below no
\* denied one (RealPath's last check, openLayer's RESOLVE_NO_SYMLINKS).
OpenedIsAllowed == \A path \in opened : HostPathAllowed(policy, path)

(***************************************************************************)
(* What a path means, by its last name: the path before it leads to a      *)
(* directory and the name is looked up there, a link for what its target   *)
(* means.  limit is how many links may be followed, count how many were.   *)
(***************************************************************************)
Queries == [dir : Seq(STRING), names : Seq(STRING), limit : Nat]

Query(dir, names, limit) == [dir |-> dir, names |-> names, limit |-> limit]

Reached(path, count) == [how |-> "found", path |-> path, count |-> count]

Fails(how) == [how |-> how, path |-> <<>>, count |-> 0]

After(result, count) ==
    IF result.how = "found" THEN Reached(result.path, count + result.count) ELSE result

LookUp(m, before, name, limit) ==
    LET node == Node(Append(before.path, name)) IN
    IF node = Missing THEN Fails("missing")
    ELSE IF node = Dir THEN Reached(Append(before.path, name), before.count)
    ELSE IF before.count >= limit THEN Fails("loop")
    ELSE After(m[Query(IF node.absolute THEN <<>> ELSE before.path, node.names,
                       limit - before.count - 1)], before.count + 1)

Onward(m, before, name, limit) ==
    IF before.how # "found" \/ name \in {"", "."} THEN before
    ELSE IF name = ".." THEN Reached(Parent(before.path), before.count)
    ELSE LookUp(m, before, name, limit)

Meant(m, q) ==
    IF q.names = <<>> THEN Reached(q.dir, 0)
    ELSE Onward(m, m[Query(q.dir, Front(q.names), q.limit)], Last(q.names), q.limit)

Meaning[q \in Queries] == Meant(Meaning, q)

\* A link whose names cannot be joined without looking: .. after a name.
Detours(node) ==
    /\ node \in Links
    /\ \E i, j \in DOMAIN node.names :
          i < j /\ node.names[i] \notin {"", ".", ".."} /\ node.names[j] = ".."

\* If nothing changes under the walk, it ends where the path leads: what it finds
\* is the directory meant, it gives up on the loops, misses what is missing, and
\* refuses only what is not allowed or lies outside what the driver sees, except
\* for a link that goes up again after a name (resolve.go:313-369).
FindsWhatIsMeant ==
    ~changed /\ outcome # "none" =>
        LET meant == Meaning[Query(<<>>, start, MaxSymlinks)] IN
        CASE outcome = "found"   -> meant.how = "found" /\ meant.path = cur
          [] outcome = "refused" -> \/ meant.how # "found"
                                    \/ ~HostPathAllowed(policy, meant.path)
                                    \/ \E slot \in Slots : Detours(tree[slot])
          [] OTHER               -> meant.how = outcome

\* A walk comes to an end even if links are changed under it for ever
\* (maxSymlinks, resolve.go:346).
WalkEnds == <>(pc = "done")

=============================================================================
