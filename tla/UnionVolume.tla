---------------------------- MODULE UnionVolume ----------------------------
(***************************************************************************)
(* What a backend promises of the volumes it mounts, whichever it is: the  *)
(* contract of backend.Backend as kubelet and the containers of a pod see  *)
(* it.  A container never finds a union it was using unmounted or less     *)
(* than ready, only broken; kubelet hears of success when there is a       *)
(* mount; and what has been unpublished is gone for good.                  *)
(*                                                                         *)
(* The promise ends with the first step that disturbs it: which events do  *)
(* is for the backend to say.                                              *)
(***************************************************************************)
CONSTANT Volumes

VARIABLES
    state,      \* what there is at the target of each volume
    told,       \* volumes of which kubelet was told that they are published
    deleted,    \* volumes whose pod is being deleted
    disturbed   \* the promise is off

vars == <<state, told, deleted, disturbed>>

\* "unready" is a mount that is not yet, or not, what was declared: without its seal, still
\* writable, or a bare directory.
MountedStates == {"unready", "serving", "broken"}
States == MountedStates \cup {"absent", "gone"}

Becomes(v, from, to) == state[v] \in from /\ state'[v] \in to

Mounts(v)   == Becomes(v, {"absent"}, MountedStates)
Readies(v)  == Becomes(v, {"unready"}, {"serving"})
Breaks(v)   == Becomes(v, {"unready", "serving"}, {"broken"})
Detaches(v) == Becomes(v, {"unready", "broken"}, {"absent"})
Unmounts(v) == v \in deleted /\ Becomes(v, MountedStates, {"absent"})
Removes(v)  == v \in deleted /\ Becomes(v, {"absent"}, {"gone"})

\* A publish that fails takes back what it had mounted, before anyone was told of it.
Withdraws(v) == v \notin told /\ Becomes(v, MountedStates, {"absent"})

\* The volumes of a pod may share what serves them, so that several change in one step.
Moves(v) ==
    \/ state'[v] = state[v]
    \/ Mounts(v) \/ Readies(v) \/ Breaks(v) \/ Detaches(v)
    \/ Withdraws(v) \/ Unmounts(v) \/ Removes(v)

\* Kubelet is told of a success when there is a mount, and unlearns it with the unpublish.
Tells ==
    /\ \A v \in told' \ told : state'[v] \in MountedStates
    /\ \A v \in told \ told' : state'[v] = "gone"

Works ==
    /\ \A v \in Volumes : Moves(v)
    /\ Tells
    /\ deleted \subseteq deleted'

\* No mount outlives the node, and kubelet starts over.
Reboots ==
    /\ \A v \in Volumes : state'[v] = IF state[v] = "gone" THEN "gone" ELSE "absent"
    /\ told' = {} /\ deleted' = deleted

Init ==
    /\ state = [v \in Volumes |-> "absent"]
    /\ told = {} /\ deleted = {} /\ disturbed = FALSE

Next == disturbed' \/ (~disturbed /\ (Works \/ Reboots))

Spec == Init /\ [][Next]_vars

=============================================================================
