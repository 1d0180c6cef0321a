------------------------------ MODULE Program ------------------------------
(***************************************************************************)
(* The program with the overlay backend: main runs either the driver or    *)
(* the proxy.  The driver's handlers (Overlay) run while its server        *)
(* (Server) is reachable; an orderly stop waits for them, a kill does not, *)
(* and kubelet starts the process again.                                   *)
(***************************************************************************)
EXTENDS Overlay, Server, Proxy

VARIABLE mode   \* what --proxy-endpoint makes of the program

vars == <<mode, overlayVars, serverVars, proxyVars>>

Busy == \E v \in Volumes, c \in Calls : ~At(v, c, "idle")

\* Mutant: Stop does not wait for the handlers.
ForceStops == Drained

\* GracefulStop waits for the handlers that run.
Drains == Drained /\ ~Busy

Handlers ==
    \/ Reachable /\ \E v \in Volumes : KubeletCalls(v)
    \/ \E v \in Volumes, c \in Calls : CallStep(v, c)

\* The pod of the driver is to be replaced.
Signalled ==
    /\ Signal /\ Fault("signal")
    /\ UNCHANGED <<givenVars, kubeletVars, hostVars, call>>

\* endpoint.Listen fails, which is fatal.
ListenFails ==
    /\ serving \in {"remove", "listen"} /\ Fault("listen") /\ ProcessEnds
    /\ UNCHANGED <<givenVars, kubeletVars, hostVars, call>>

Driver ==
    \/ (Handlers \/ Surroundings) /\ UNCHANGED serverVars
    \/ (ProcessStarts \/ ServerStep \/ Drains) /\ UNCHANGED overlayVars
    \/ Signalled \/ ListenFails
    \/ Running /\ ProcessEnds /\ DriverKilled
    \/ ProcessEnds /\ NodeReboots

\* The proxy has no unions; one declaration stands for all that it might have had.
NoUnions == decl = [u \in Unions |-> CHOOSE d \in Decl : ~(d.rw \/ d.single \/ d.readOnly)]

Init ==
    /\ OverlayInit /\ ServerInit /\ ProxyInit
    /\ \/ mode = "driver"
       \/ mode = "proxy" /\ NoUnions /\ ~fsopen

Next ==
    \/ mode = "driver" /\ Driver /\ UNCHANGED <<mode, proxyVars>>
    \/ mode = "proxy" /\ ProxyNext /\ UNCHANGED <<mode, overlayVars, serverVars>>

(***************************************************************************)
(* Kubelet starts the container again and repeats its calls for ever, and  *)
(* a goroutine that can run does.  Kubelet's calls get through now and     *)
(* then while the driver is restarted now and then, hence strong fairness. *)
(***************************************************************************)
Fairness ==
    /\ WF_vars(mode = "driver" /\ ProcessStarts /\ UNCHANGED <<mode, overlayVars, proxyVars>>)
    /\ WF_vars(mode = "driver" /\ (ServerStep \/ Drains)
                               /\ UNCHANGED <<mode, overlayVars, proxyVars>>)
    /\ \A v \in Volumes :
          /\ SF_vars(Reachable /\ KubeletCalls(v)
                               /\ UNCHANGED <<mode, serverVars, proxyVars>>)
          /\ \A c \in Calls : WF_vars(CallStep(v, c) /\ UNCHANGED <<mode, serverVars, proxyVars>>)
    /\ WF_vars(mode = "proxy" /\ Accepts /\ UNCHANGED <<mode, overlayVars, serverVars>>)
    /\ WF_vars(mode = "proxy" /\ Close /\ UNCHANGED <<mode, overlayVars, serverVars>>)
    /\ WF_vars(mode = "proxy" /\ Copies /\ UNCHANGED <<mode, overlayVars, serverVars>>)

Spec     == Init /\ [][Next]_vars
FairSpec == Spec /\ Fairness

-----------------------------------------------------------------------------
(***************************************************************************)
(* Properties.                                                             *)
(***************************************************************************)

\* Type invariant of the three parts; there are calls only while there is a process.
TypeOK ==
    /\ mode \in {"driver", "proxy"}
    /\ OverlayTypeOK /\ ServerTypeOK /\ ProxyTypeOK
    /\ Busy => Running

\* A process that is told to stop ends with no handler under way, however far it had come
\* with its server when the signal reached it (server.go:30).
StopCutsNoCall == [][Running /\ ~Running' /\ faults' = faults => ~Busy]_vars

\* Whatever ended the last process and whatever it left at the path of the socket, kubelet
\* reaches the driver again (endpoint.go:44).
ReachableAgain == mode = "driver" /\ ~Reachable ~> Reachable

\* The unpublish of every volume succeeds at last (node.go:223), with any number of mounts
\* stacked on its target, and whatever failed, was overtaken or restarted on the way.
UnpublishCompletes == \A v \in Volumes : deleted ~> v \in done

\* A call that kubelet gave up on has failed and detached the bind that a later call took
\* for a published union.
Undone(u) == u \in published /\ ~Mounted(u)

\* Kubelet's publish of a volume succeeds at last (node.go:96), unless the pod goes, the
\* filesystem of the RW volume cannot be written through an overlay, it has a link for a
\* workspace, or the union of a view was undone.
PublishCompletes ==
    \A v \in Volumes : mode = "driver" /\ v \notin published ~>
        \/ v \in published \/ deleted
        \/ ~decl[Source(v)].upperFS \/ entry[Source(v)] = Link \/ Undone(Source(v))

=============================================================================
