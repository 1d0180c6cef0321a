------------------------------- MODULE Server -------------------------------
(***************************************************************************)
(* The driver's process and its gRPC server.  The server is set up on a    *)
(* goroutine of its own while the main goroutine waits for a signal, and   *)
(* nothing orders the two: a signal may come before there is a server to   *)
(* stop.  Kubelet restarts a container that ends, whichever way.           *)
(***************************************************************************)
VARIABLES
    serving,  \* where the goroutine is that serves, "none" without a process
    main,     \* where the main goroutine is
    socket    \* the endpoint's path: "none", "live" (someone listens), "stale"

serverVars == <<serving, main, socket>>

ServingSteps == {"none", "remove", "listen", "server", "cleanup", "serve", "accept", "end"}
MainSteps    == {"none", "wait", "graceful", "drain", "cleanup"}

Running == serving # "none"

\* Kubelet reaches the handlers.
Reachable == serving = "accept" /\ socket = "live"

-----------------------------------------------------------------------------
\* A process that is gone listens no longer, and leaves the path behind.
ProcessEnds ==
    /\ serving' = "none" /\ main' = "none"
    /\ socket' = IF socket = "live" THEN "stale" ELSE socket

ProcessStarts ==
    /\ ~Running
    /\ serving' = "remove" /\ main' = "wait"
    /\ UNCHANGED socket

\* Mutant: the path of an earlier process stays.
KeepSocket ==
    /\ serving = "remove"
    /\ serving' = "listen"
    /\ UNCHANGED <<main, socket>>

\* endpoint.Listen first removes what an earlier process left.
RemoveSocket ==
    /\ serving = "remove"
    /\ serving' = "listen" /\ socket' = "none"
    /\ UNCHANGED main

\* A path that exists is an address in use, which ends the process.
Listen ==
    /\ serving = "listen"
    /\ \/ socket = "none" /\ socket' = "live" /\ serving' = "server" /\ UNCHANGED main
       \/ socket # "none" /\ ProcessEnds

\* The two fields that Stop reads, one after the other.
SetField ==
    /\ \/ serving = "server" /\ serving' = "cleanup"
       \/ serving = "cleanup" /\ serving' = "serve"
    /\ UNCHANGED <<main, socket>>

\* A server that was stopped before it serves closes its listener.
Serve ==
    /\ serving = "serve"
    /\ \/ main \in {"wait", "graceful"} /\ serving' = "accept" /\ UNCHANGED socket
       \/ main \notin {"wait", "graceful"} /\ serving' = "end" /\ socket' = "none"
    /\ UNCHANGED main

Signal ==
    /\ Running /\ main = "wait"
    /\ main' = "graceful"
    /\ UNCHANGED <<serving, socket>>

\* Without a server Stop dereferences nil; a listener that is closed takes its path along.
GracefulStop ==
    /\ main = "graceful"
    /\ \/ serving \in {"remove", "listen", "server"} /\ ProcessEnds
       \/ /\ serving = "accept"
          /\ main' = "drain" /\ serving' = "end" /\ socket' = "none"
       \/ /\ serving \in {"cleanup", "serve"}
          /\ main' = "drain" /\ UNCHANGED <<serving, socket>>

\* GracefulStop returns once every handler has.
Drained == main = "drain" /\ main' = "cleanup" /\ UNCHANGED <<serving, socket>>

\* cleanup may not be set yet, either; it removes the path, and main returns.
Cleanup ==
    /\ main = "cleanup"
    /\ serving' = "none" /\ main' = "none"
    /\ socket' = IF serving # "cleanup" THEN "none"
                 ELSE IF socket = "live" THEN "stale" ELSE socket

-----------------------------------------------------------------------------
ServerInit == serving = "none" /\ main = "none" /\ socket = "none"

\* Steps of the two goroutines that wait for nobody.
ServerStep == RemoveSocket \/ Listen \/ SetField \/ Serve \/ GracefulStop \/ Cleanup

ServerTypeOK ==
    /\ serving \in ServingSteps /\ main \in MainSteps
    /\ socket \in {"none", "live", "stale"}
    /\ main = "none" <=> ~Running

=============================================================================
