--------------------------- MODULE MCPublishPlan ----------------------------
(***************************************************************************)
(* PublishPlan for TLC: pods that share a union in several ways, pods with *)
(* each kind of source, and pods the driver must refuse; one configuration *)
(* of each backend with every part of the option policy in use.            *)
(***************************************************************************)
EXTENDS PublishPlan

Text(t)   == [text |-> t, forms |-> {}, number |-> 0]
Number(n) == [text |-> "number", number |-> n,
              forms |-> IF n < 0 THEN {"integer"} ELSE {"integer", "digits", "size"}]
Size      == [text |-> "4G", forms |-> {"size"}, number |-> 0]

MergerfsSchema ==
    [entry   |-> [kind |-> "duration"],
     readdir |-> [kind |-> "bool"],
     getattr |-> [kind |-> "enum", enum |-> {"ff", "newest"}],
     threads |-> [kind |-> "int", min |-> -1, max |-> 2],
     space   |-> [kind |-> "size"]]

OverlaySchema ==
    [userxattr |-> [kind |-> "flag"],
     metacopy  |-> [kind |-> "enum", enum |-> {"on", "off"}],
     xino      |-> [kind |-> "enum", enum |-> {"on", "off", "auto"}]]

\* With lists of the admin's own, and the admission policy.
Mergerfs == [backend |-> "mergerfs", maxSources |-> 2, reuse |-> TRUE, autoMount |-> TRUE,
             nodeID |-> "n1", set |-> {"default-options", "option-denylist"},
             schema |-> MergerfsSchema, allowlist |-> {"entry", "threads", "space", "getattr"},
             denylist |-> {"getattr"}, mode |-> "strip",
             defaults |-> [entry |-> Number(1), getattr |-> Text("newest")],
             own |-> [denylist |-> {}, defaults |-> [entry |-> Number(1)]],
             forced |-> [space |-> Size],
             allowed |-> {<<"srv">>}, denied |-> {<<"srv", "secret">>}]

\* With those of the backend.
Overlay == [backend |-> "overlay", maxSources |-> 3, reuse |-> TRUE, autoMount |-> FALSE,
            nodeID |-> "n1", set |-> {},
            schema |-> OverlaySchema, allowlist |-> {}, denylist |-> {}, mode |-> "refuse",
            defaults |-> <<>>,
            own |-> [denylist |-> {"metacopy", "userxattr"},
                     defaults |-> [metacopy |-> Text("off"), xino |-> Text("off")]],
            forced |-> [xino |-> Text("off")],
            allowed |-> {}, denied |-> {}]

\* With a list that the admin left empty.
NothingDenied == [Overlay EXCEPT !.reuse = FALSE, !.set = {"option-denylist"}]

\* With a default that is out of range, and a path that is not clean: neither starts.
BadDefault == [Mergerfs EXCEPT !.defaults = [threads |-> Number(3)]]
BadPath    == [Mergerfs EXCEPT !.allowed = {<<"srv", "..">>}]

-----------------------------------------------------------------------------

Entry(n, m) == [name |-> n, mode |-> m]
Pair(k, v)  == [key |-> k, value |-> v]

Union(n, sources, options, ro) ==
    [name |-> n, kind |-> "union", sources |-> sources, options |-> options,
     readOnly |-> ro, unknownKey |-> FALSE]

Plain(n)  == [name |-> n, kind |-> "emptyDir", medium |-> ""]
Memory(n) == [name |-> n, kind |-> "emptyDir", medium |-> "Memory"]
Token(n)  == [name |-> n, kind |-> "projected"]
Csi(n)   == [name |-> n, kind |-> "csi"]
Host(n, path) == [name |-> n, kind |-> "hostPath", path |-> path]
Pvc(n, kind, path) ==
    [name |-> n, kind |-> "pvc", pv |-> [name |-> "pv1", kind |-> kind, path |-> path]]
Generic(n, owned) ==
    [name |-> n, kind |-> "ephemeral", owned |-> owned,
     pv |-> [name |-> "pv2", kind |-> "csi", path |-> <<>>]]

Pod(volumes, mounts) == [uid |-> "own", volumes |-> volumes, mounts |-> mounts]

AB == <<Entry("a", "RW"), Entry("b", "RO")>>

\* The same union three times, written in two ways; no container mounts the
\* first, until an ephemeral one does.
Shared ==
    Pod(<<Union("u1", AB, <<>>, FALSE),
          Union("u2", <<Entry("a", ""), Entry("b", "RO")>>, <<>>, FALSE),
          Plain("a"), Csi("b"),
          Union("u3", AB, <<>>, FALSE)>>,
        {"u2", "u3", "a", "b"})

\* As Shared, with one source.
SharedOne ==
    Pod(<<Union("u1", <<Entry("b", "")>>, <<>>, TRUE),
          Union("u2", <<Entry("b", "")>>, <<>>, TRUE), Csi("b"),
          Union("u3", <<Entry("b", "RW")>>, <<>>, TRUE)>>,
        {"u2", "u3", "b"})

\* Two read-only unions of the same source with another between them that is not.
SharedReadOnly ==
    Pod(<<Token("a"), Union("u1", <<Entry("a", "RO")>>, <<>>, TRUE),
          Union("u2", <<Entry("a", "RO")>>, <<>>, FALSE),
          Union("u3", <<Entry("a", "RO")>>, <<>>, TRUE)>>,
        {"u1", "u2", "u3", "a"})

Claims ==
    Pod(<<Pvc("a", "local", <<>>), Generic("b", TRUE), Union("u1", AB, <<>>, FALSE)>>,
        {"u1", "a", "b"})

Foreign ==
    Pod(<<Generic("a", FALSE), Csi("b"), Union("u1", AB, <<>>, FALSE)>>, {"u1", "a", "b"})

HostDirs ==
    Pod(<<Host("a", <<"srv", "x">>), Pvc("b", "hostPath", <<"srv", "y">>),
          Union("u1", AB, <<>>, TRUE), Union("u2", AB, <<>>, TRUE)>>,
        {"u1", "u2", "a", "b"})

Secret == Pod(<<Host("a", <<"srv", "secret", "x">>), Union("u1", <<Entry("a", "")>>, <<>>, FALSE)>>,
              {"u1", "a"})

\* Unions that name each other, and one that names a volume no container mounts.
Cycle ==
    Pod(<<Union("u1", <<Entry("u2", "RO")>>, <<>>, FALSE),
          Union("u2", <<Entry("u1", "RO")>>, <<>>, FALSE),
          Union("u3", <<Entry("a", "RO")>>, <<>>, FALSE), Plain("a")>>,
        {"u1", "u2", "u3"})

\* Options for mergerfs: at the limits and beyond them, denied, given twice.
Options ==
    Pod(<<Memory("a"),
          Union("u1", <<Entry("a", "NC")>>,
                <<Pair("entry", Number(MaxSeconds)), Pair("threads", Number(-1)),
                  Pair("getattr", Text("ff")), Pair("space", Number(7))>>, FALSE),
          Union("u2", <<Entry("a", "RO")>>, <<Pair("entry", Number(MaxSeconds + 1))>>, FALSE),
          Union("u3", <<Entry("a", "")>>,
                <<Pair("threads", Number(3)), Pair("threads", Number(2))>>, FALSE)>>,
        {"u1", "u2", "u3", "a"})

\* Options for overlay, and sources in an order it cannot stack.
Stacks ==
    Pod(<<Plain("a"), Csi("b"),
          Union("u1", <<Entry("b", "RO"), Entry("a", "")>>, <<>>, FALSE),
          Union("u2", AB, <<Pair("xino", Text("auto"))>>, FALSE),
          Union("u3", <<Entry("a", "RO")>>, <<Pair("metacopy", Text("on"))>>, FALSE)>>,
        {"u1", "u2", "u3", "a", "b"})

\* Declarations that do not parse.
Malformed ==
    Pod(<<Plain("a"),
          Union("u1", <<>>, <<>>, FALSE),
          Union("u2", <<Entry("a", "RO"), Entry("a", "RW")>>, <<>>, FALSE),
          Union("u3", <<Entry("a", "rw")>>, <<Pair("", Text("x"))>>, FALSE)>>,
        {"u1", "u2", "u3", "a"})

MCCommandLines == {Mergerfs, Overlay, NothingDenied, BadDefault, BadPath}
MCBackends == {Mergerfs, Overlay}
MCOverlay == {Overlay}

MCPods == {Shared, SharedReadOnly, Claims, Foreign, HostDirs, Secret, Cycle, Options,
           Stacks, Malformed}

\* Those in which volumes wait for one another or for their sources.
MCWaitingPods == {SharedOne, Claims, Foreign, HostDirs, Cycle}
MCSharingPods == {Shared}
MCMemoryPods == {SharedReadOnly}

=============================================================================
