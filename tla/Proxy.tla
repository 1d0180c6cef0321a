------------------------------- MODULE Proxy -------------------------------
(***************************************************************************)
(* The proxy the program runs instead of the driver for Kubernetes' own    *)
(* end-to-end tests: it listens on two endpoints, pairs a connection of    *)
(* the first with one of the second, and copies data both ways until one   *)
(* side hangs up.  Close may come at any time.                             *)
(***************************************************************************)
EXTENDS Integers, Sequences

CONSTANTS
    MaxConnections  \* bound on the clients of each endpoint

ASSUME ProxyAssumption == MaxConnections \in Nat

VARIABLES
    listening,  \* the endpoints that are listened on
    queued,     \* clients the kernel has accepted on each endpoint
    clients,    \* how many clients came to each endpoint so far
    acceptor,   \* where the goroutine is that pairs connections
    waiting,    \* an accepted connection waits for its peer
    pairs,      \* the connections of each pair that are open: 1, 2 or both
    hungUp,     \* pairs one of whose clients hung up
    closing,    \* how far Close is
    cancelled   \* the context of the proxy is cancelled

proxyVars == <<listening, queued, clients, acceptor, waiting, pairs, hungUp, closing, cancelled>>

Ends == {1, 2}

-----------------------------------------------------------------------------
\* Run listens on one endpoint and then the other; if it cannot, it closes what it has.
ListenOn(e) ==
    /\ acceptor = (IF e = 1 THEN "listen1" ELSE "listen2")
    /\ \/ /\ listening' = listening \cup {e}
          /\ acceptor' = IF e = 1 THEN "listen2" ELSE "first"
          /\ UNCHANGED closing
       \/ acceptor' = "ended" /\ closing' = 1 /\ UNCHANGED listening
    /\ UNCHANGED <<queued, clients, waiting, pairs, hungUp, cancelled>>

\* A client connects to an endpoint that is listened on.
Connect(e) ==
    /\ e \in listening /\ clients[e] < MaxConnections
    /\ clients' = [clients EXCEPT ![e] = @ + 1]
    /\ queued' = [queued EXCEPT ![e] = @ + 1]
    /\ UNCHANGED <<listening, acceptor, waiting, pairs, hungUp, closing, cancelled>>

\* The end of Close that the acceptor notices: accept fails and the context is done.  An
\* accept that fails for another reason is tried again.
AcceptFails(e) == e \notin listening /\ cancelled

Take(e) == queued[e] > 0 /\ queued' = [queued EXCEPT ![e] = @ - 1]

AcceptFirst ==
    /\ acceptor = "first"
    /\ \/ /\ 1 \in listening /\ Take(1)
          /\ acceptor' = "second" /\ waiting' = TRUE
       \/ AcceptFails(1) /\ acceptor' = "ended" /\ UNCHANGED <<queued, waiting>>
    /\ UNCHANGED <<listening, clients, pairs, hungUp, closing, cancelled>>

\* Mutant: the connection that waits for its peer is forgotten.
AcceptSecondLeaks ==
    /\ acceptor = "second"
    /\ \/ /\ 2 \in listening /\ Take(2)
          /\ acceptor' = "first" /\ waiting' = FALSE /\ pairs' = Append(pairs, Ends)
       \/ AcceptFails(2) /\ acceptor' = "ended" /\ UNCHANGED <<queued, waiting, pairs>>
    /\ UNCHANGED <<listening, clients, hungUp, closing, cancelled>>

\* A pair is made, with a goroutine for each direction; or the waiting connection is closed.
AcceptSecond ==
    /\ acceptor = "second"
    /\ \/ /\ 2 \in listening /\ Take(2)
          /\ acceptor' = "first" /\ waiting' = FALSE /\ pairs' = Append(pairs, Ends)
       \/ /\ AcceptFails(2)
          /\ acceptor' = "ended" /\ waiting' = FALSE /\ UNCHANGED <<queued, pairs>>
    /\ UNCHANGED <<listening, clients, hungUp, closing, cancelled>>

\* The client at one end of a pair hangs up.
HangUp(i, e) ==
    /\ <<i, e>> \notin hungUp /\ e \in pairs[i]
    /\ hungUp' = hungUp \cup {<<i, e>>}
    /\ UNCHANGED <<listening, queued, clients, acceptor, waiting, pairs, closing, cancelled>>

Over(i, e) == <<i, e>> \in hungUp \/ e \notin pairs[i]

\* Mutant: data is copied one way only.
CopyOneWay(i, e) ==
    /\ e = 1 /\ Over(i, e) /\ (Ends \ {e}) \cap pairs[i] # {}
    /\ pairs' = [pairs EXCEPT ![i] = @ \cap {e}]
    /\ UNCHANGED <<listening, queued, clients, acceptor, waiting, hungUp, closing, cancelled>>

\* copy: no more data comes from one end, and the other is closed.
CopyEnds(i, e) ==
    /\ Over(i, e) /\ (Ends \ {e}) \cap pairs[i] # {}
    /\ pairs' = [pairs EXCEPT ![i] = @ \cap {e}]
    /\ UNCHANGED <<listening, queued, clients, acceptor, waiting, hungUp, closing, cancelled>>

\* Mutant: Close does not cancel the context.
CloseListeners ==
    /\ closing \in 1 .. 3
    /\ closing' = closing + 1
    /\ listening' = listening \ {closing - 1}
    /\ queued' = [e \in Ends |-> IF e \in listening' THEN queued[e] ELSE 0]
    /\ UNCHANGED <<clients, acceptor, waiting, pairs, hungUp, cancelled>>

\* Close: the context first, then one listener and the other, with what they had queued.
Close ==
    /\ closing \in 1 .. 3
    /\ closing' = closing + 1
    /\ cancelled' = TRUE
    /\ listening' = listening \ {closing - 1}
    /\ queued' = [e \in Ends |-> IF e \in listening' THEN queued[e] ELSE 0]
    /\ UNCHANGED <<clients, acceptor, waiting, pairs, hungUp>>

\* A signal reaches main, which closes the proxy.
CloseBegins ==
    /\ acceptor \in {"first", "second"} /\ closing = 0 /\ closing' = 1
    /\ UNCHANGED <<listening, queued, clients, acceptor, waiting, pairs, hungUp, cancelled>>

-----------------------------------------------------------------------------
ProxyInit ==
    /\ listening = {} /\ queued = [e \in Ends |-> 0] /\ clients = [e \in Ends |-> 0]
    /\ acceptor = "listen1" /\ waiting = FALSE
    /\ pairs = <<>> /\ hungUp = {}
    /\ closing = 0 /\ cancelled = FALSE

Listens == \E e \in Ends : ListenOn(e)
Accepts == AcceptFirst \/ AcceptSecond
Copies  == \E i \in DOMAIN pairs, e \in Ends : CopyEnds(i, e)
Outside == CloseBegins \/ \E e \in Ends : Connect(e)
                       \/ \E i \in DOMAIN pairs : HangUp(i, e)

ProxyNext == Listens \/ Accepts \/ Copies \/ Close \/ Outside

ProxyTypeOK ==
    /\ listening \subseteq Ends
    /\ queued \in [Ends -> 0 .. MaxConnections] /\ clients \in [Ends -> 0 .. MaxConnections]
    /\ acceptor \in {"listen1", "listen2", "first", "second", "ended"} /\ waiting \in BOOLEAN
    /\ pairs \in Seq(SUBSET Ends) /\ hungUp \subseteq (DOMAIN pairs) \X Ends
    /\ closing \in 0 .. 4 /\ cancelled \in BOOLEAN
    /\ waiting => acceptor = "second"

\* Once the proxy is closed its goroutine ends, whichever accept it is blocked in, and an
\* accepted connection that was waiting for its peer is closed (proxy.go:78).
ProxyEnds == closing = 4 ~> acceptor = "ended" /\ ~waiting

\* When one client of a pair hangs up, both connections are closed, and so both goroutines
\* that copy end (proxy.go:124).
PairEnds ==
    \A i \in 1 .. MaxConnections :
        (\E e \in Ends : <<i, e>> \in hungUp) ~> (i \in DOMAIN pairs /\ pairs[i] = {})

=============================================================================
