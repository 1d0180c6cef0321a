----------------------------- MODULE HostPaths ------------------------------
(***************************************************************************)
(* The host directories that hostPath sources may come from.  A path is    *)
(* the sequence of its components, <<>> the root; h has the fields allowed *)
(* and denied, sets of clean paths.                                        *)
(***************************************************************************)
EXTENDS Integers, Sequences, SequencesExt

Under(path, dir) == IsPrefix(dir, path)

UnderAny(path, dirs) == \E dir \in dirs : Under(path, dir)

HostPathAllowed(h, path) == UnderAny(path, h.allowed) /\ ~UnderAny(path, h.denied)

\* Allowed, or an ancestor that a link may pass through on its way.
Reachable(h, path) == \E dir \in h.allowed : Under(path, dir) \/ Under(dir, path)

\* HostPaths.Validate: paths are compared by their components.  A path that is not absolute
\* begins with "".
PathsClean(h) ==
    \A p \in h.allowed \cup h.denied : \A i \in DOMAIN p : p[i] \notin {"", ".", ".."}

=============================================================================
