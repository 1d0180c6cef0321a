-------------------------- MODULE PathMeaningProofs --------------------------
(***************************************************************************)
(* The walk of RealPath ends where the path it was given leads, as long as *)
(* nothing changes under it: for every host path policy, every tree, every *)
(* set of link targets and every limit on the links followed.              *)
(*                                                                         *)
(* Meaning and Join are recursive functions.  Their defining equations     *)
(* hold only if such functions exist, which RecursiveFunction shows once   *)
(* for every recursion along a relation that comes to an end.  Inductions  *)
(* over paths are on a shortest counterexample.                            *)
(***************************************************************************)
EXTENDS RealPathProofs, WellFoundedInduction

(***************************************************************************)
(* Definition by recursion                                                 *)
(***************************************************************************)

\* Every non-empty part of S has an element with nothing below it.
Grounded(R, S) == \A T \in SUBSET S : T # {} => \E x \in T : \A y \in T : <<y, x>> \notin R

\* H makes a value of x and a function of what is below x.
Makes(S, T, H) == H \in [S \X [S -> T] -> T]

\* What H makes of x depends only on what is below x.
Decreasing(R, S, T, H) ==
    \A x \in S : \A g, h \in [S -> T] :
        (\A y \in S : <<y, x>> \in R => g[y] = h[y]) => H[<<x, g>>] = H[<<x, h>>]

\* C has the value of x whenever it has those of all below x.
Closed(R, S, T, H, C) ==
    \A x \in S : \A g \in [S -> T] :
        (\A y \in S : <<y, x>> \in R => <<y, g[y]>> \in C) => <<x, H[<<x, g>>]>> \in C

\* f has at every x the value that H makes of it.
Solves(f, S, H) == \A x \in S : f[x] = H[<<x, f>>]

\* The least closed set.
Graph(R, S, T, H) == {z \in S \X T : \A C \in SUBSET (S \X T) : Closed(R, S, T, H, C) => z \in C}

\* A function can be defined by recursion on a grounded relation: the least set
\* of pairs that has the value of x once it has those below x is its graph.
LEMMA RecursiveFunction ==
    ASSUME NEW R, NEW S, NEW T, NEW H, Makes(S, T, H), T # {},
           Grounded(R, S), Decreasing(R, S, T, H)
    PROVE  \E f \in [S -> T] : Solves(f, S, H)
<1> DEFINE G == Graph(R, S, T, H)
           One(x) == \E t \in T : \A u : <<x, u>> \in G <=> u = t
<1>1. G \subseteq S \X T
  BY DEF Graph
<1>2. \A x \in S, g \in [S -> T] : H[<<x, g>>] \in T
  BY DEF Makes
<1>3. Closed(R, S, T, H, G)
  <2> SUFFICES ASSUME NEW x \in S, NEW g \in [S -> T],
                      \A y \in S : <<y, x>> \in R => <<y, g[y]>> \in G
               PROVE  <<x, H[<<x, g>>]>> \in G
    BY DEF Closed
  <2>1. ASSUME NEW C \in SUBSET (S \X T), Closed(R, S, T, H, C)
        PROVE  <<x, H[<<x, g>>]>> \in C
    <3>1. G \subseteq C
      BY <2>1 DEF Graph
    <3>2. \A y \in S : <<y, x>> \in R => <<y, g[y]>> \in C
      BY <3>1
    <3> QED
      BY <2>1, <3>2 DEF Closed
  <2> QED
    BY <1>2, <2>1 DEF Graph
<1> HIDE DEF G
<1>0. ASSUME NEW x, One(x), NEW u, NEW w, <<x, u>> \in G, <<x, w>> \in G PROVE u = w
  <2>1. PICK t \in T : \A v : <<x, v>> \in G <=> v = t
    BY <1>0
  <2>2. u = t /\ w = t
    BY <1>0, <2>1
  <2> QED
    BY <2>2
<1>4. ASSUME NEW x \in S, \A y \in S : <<y, x>> \in R => One(y)
      PROVE  One(x)
  <2> DEFINE some == CHOOSE t : t \in T
             g == [y \in S |-> IF <<y, x>> \in R THEN CHOOSE t : <<y, t>> \in G ELSE some]
             t == H[<<x, g>>]
  <2>1. some \in T
    OBVIOUS
  <2>2. \A y \in S : <<y, x>> \in R => <<y, CHOOSE u : <<y, u>> \in G>> \in G /\ (CHOOSE u : <<y, u>> \in G) \in T
    <3> SUFFICES ASSUME NEW y \in S, <<y, x>> \in R
                 PROVE  <<y, CHOOSE u : <<y, u>> \in G>> \in G /\ (CHOOSE u : <<y, u>> \in G) \in T
      OBVIOUS
    <3>1. \E u : <<y, u>> \in G
      BY <1>4
    <3>2. <<y, CHOOSE u : <<y, u>> \in G>> \in G
      BY <3>1
    <3> QED
      BY <1>1, <3>2
  <2>3. g \in [S -> T]
    BY <2>1, <2>2
  <2>4. \A y \in S : <<y, x>> \in R => <<y, g[y]>> \in G
    BY <2>2
  <2> HIDE DEF g
  <2>5. <<x, t>> \in G
    BY <1>3, <2>3, <2>4 DEF Closed
  <2>6. t \in T
    BY <1>2, <2>3
  <2> HIDE DEF t
  <2>7. ASSUME NEW u, <<x, u>> \in G, u # t PROVE FALSE
    <3> DEFINE C == G \ {<<x, u>>}
    <3>1. Closed(R, S, T, H, C)
      <4> SUFFICES ASSUME NEW z \in S, NEW h \in [S -> T],
                          \A y \in S : <<y, z>> \in R => <<y, h[y]>> \in C
                   PROVE  <<z, H[<<z, h>>]>> \in C
        BY DEF Closed
      <4>1. \A y \in S : <<y, z>> \in R => <<y, h[y]>> \in G
        OBVIOUS
      <4>2. <<z, H[<<z, h>>]>> \in G
        BY <1>3, <4>1 DEF Closed
      <4>3. ASSUME z = x PROVE H[<<z, h>>] # u
        <5>1. \A y \in S : <<y, x>> \in R => g[y] = h[y]
          <6> SUFFICES ASSUME NEW y \in S, <<y, x>> \in R PROVE g[y] = h[y]
            OBVIOUS
          <6>1. <<y, g[y]>> \in G /\ <<y, h[y]>> \in G /\ One(y)
            BY <1>4, <2>4, <4>1, <4>3
          <6> QED
            BY <1>0, <6>1
        <5>2. H[<<x, g>>] = H[<<x, h>>]
          BY <2>3, <5>1 DEF Decreasing
        <5> QED
          BY <2>7, <4>3, <5>2 DEF t
      <4> QED
        BY <4>2, <4>3
    <3>2. C \in SUBSET (S \X T)
      BY <1>1
    <3> QED
      BY <2>7, <3>1, <3>2 DEF Graph, G
  <2> QED
    BY <2>5, <2>6, <2>7
<1>5. \A x \in S : One(x)
  <2> SUFFICES ASSUME NEW a \in S, ~One(a) PROVE FALSE
    OBVIOUS
  <2> DEFINE Bad == {x \in S : ~One(x)}
  <2>1. Bad # {} /\ Bad \in SUBSET S
    OBVIOUS
  <2>2. PICK x \in Bad : \A y \in Bad : <<y, x>> \notin R
    BY <2>1 DEF Grounded
  <2>3. \A y \in S : <<y, x>> \in R => One(y)
    BY <2>2
  <2> QED
    BY <1>4, <2>2, <2>3
<1> DEFINE f == [x \in S |-> CHOOSE t : <<x, t>> \in G]
<1>6. \A x \in S : <<x, f[x]>> \in G
  BY <1>5
<1>7. f \in [S -> T]
  BY <1>1, <1>6
<1> HIDE DEF f
<1>8. ASSUME NEW x \in S PROVE f[x] = H[<<x, f>>]
  <2>1. <<x, H[<<x, f>>]>> \in G
    BY <1>3, <1>6, <1>7 DEF Closed
  <2> QED
    BY <1>0, <1>5, <1>6, <2>1
<1> QED
  BY <1>7, <1>8 DEF Solves


(***************************************************************************)
(* What a path means                                                       *)
(***************************************************************************)

\* A set of natural numbers has a least element.
LEMMA LeastNumber ==
    ASSUME NEW N, N \subseteq Nat, N # {}
    PROVE  \E n \in N : \A k \in N : n <= k
<1> DEFINE Less == OpToRel(<, Nat)
<1>1. \E n \in N : \A k \in N : ~(<<k, n>> \in Less)
  BY NatLessThanWellFounded, WFMin
<1>2. \A k, n \in Nat : <<k, n>> \in Less <=> k < n
  BY DEF OpToRel
<1> HIDE DEF Less
<1>3. PICK n \in N : \A k \in N : ~(<<k, n>> \in Less)
  BY <1>1
<1>4. \A k \in N : ~(k < n)
  BY <1>2, <1>3
<1>5. \A k \in N : n <= k
  BY <1>4
<1> QED
  BY <1>5

\* What a query can mean.
Results == [how : {"found", "missing", "loop"}, path : Seq(STRING), count : Nat]

\* The meaning of a path is made of those of shorter paths and of paths with fewer
\* links to follow.
Simpler ==
    {z \in Queries \X Queries :
        \/ z[1].limit < z[2].limit
        \/ z[1].limit = z[2].limit /\ Len(z[1].names) < Len(z[2].names)}

\* There is no endless descent to simpler paths.
LEMMA SimplerGrounded == Grounded(Simpler, Queries)
<1> SUFFICES ASSUME NEW T \in SUBSET Queries, T # {}
             PROVE  \E x \in T : \A y \in T : <<y, x>> \notin Simpler
  BY DEF Grounded
<1>1. \A q \in T : q.limit \in Nat /\ Len(q.names) \in Nat
  BY DEF Queries
<1>2. PICK n \in {q.limit : q \in T} : \A k \in {q.limit : q \in T} : n <= k
  BY <1>1, LeastNumber
<1> DEFINE Least == {q \in T : q.limit = n}
<1>3. Least # {}
  BY <1>2
<1> DEFINE Lengths == {Len(q.names) : q \in Least}
<1>0. Lengths \subseteq Nat /\ Lengths # {}
  BY <1>1, <1>3
<1>4. PICK l \in Lengths : \A k \in Lengths : l <= k
  BY <1>0, LeastNumber
<1>5. PICK x \in Least : Len(x.names) = l
  BY <1>4
<1>6. ASSUME NEW y \in T, <<y, x>> \in Simpler PROVE FALSE
  <2>1. y.limit < x.limit \/ (y.limit = x.limit /\ Len(y.names) < Len(x.names))
    BY <1>6 DEF Simpler
  <2>2. n <= y.limit
    BY <1>2
  <2>3. y.limit = n
    BY <1>1, <2>1, <2>2
  <2>4. l <= Len(y.names)
    BY <1>4, <2>3
  <2> QED
    BY <1>1, <1>5, <2>1, <2>3, <2>4
<1> QED
  BY <1>5, <1>6

\* What is at a path.
LEMMA NodeType ==
    ASSUME tree \in [Slots -> Nodes], NEW path
    PROVE  Node(path) \in Nodes
BY DEF Node, Nodes

\* A node is missing, a directory or a link, and only one of these.
LEMMA NodeKinds ==
    ASSUME NEW node \in Nodes
    PROVE  /\ node \notin {Missing, Dir} => node \in Links
           /\ node \in Links => node # Missing /\ node # Dir
           /\ Missing # Dir
BY DEF Nodes, Links, Missing, Dir


\* A path that is not empty is one that is shorter and its last name.
LEMMA FrontLast ==
    ASSUME NEW S, NEW names \in Seq(S), names # <<>>
    PROVE  /\ Front(names) \in Seq(S) /\ Last(names) \in S
           /\ Len(names) \in Nat /\ Len(Front(names)) = Len(names) - 1
           /\ names = Append(Front(names), Last(names))
<1>1. Len(names) \in Nat /\ Len(names) > 0
  BY EmptySeq
<1>2. Front(names) \in Seq(S) /\ Len(Front(names)) = Len(names) - 1
  <2>1. Len(names) - 1 \in Nat /\ \A i \in 1 .. Len(names) - 1 : names[i] \in S
    BY <1>1
  <2>2. SubSeq(names, 1, Len(names) - 1) \in Seq(S)
    BY <2>1
  <2>3. Len(SubSeq(names, 1, Len(names) - 1)) = Len(names) - 1
    <3> DEFINE k == Len(names) - 1
    <3>1. k \in Nat /\ \A i \in 1 .. k : names[i] \in S
      BY <2>1
    <3> HIDE DEF k
    <3>2. Len(SubSeq(names, 1, k)) = IF 1 <= k THEN k - 1 + 1 ELSE 0
      BY <3>1, SubSeqProperties
    <3>3. Len(SubSeq(names, 1, k)) = k
      BY <3>1, <3>2
    <3> QED
      BY <3>3 DEF k
  <2> QED
    BY <2>2, <2>3 DEF Front
<1>3. Last(names) \in S
  BY <1>1 DEF Last
<1>4. names = Append(Front(names), Last(names))
  BY <1>1, <1>2 DEF Front, Last
<1> QED
  BY <1>1, <1>2, <1>3, <1>4

\* The queries that the meaning of a query is made of are simpler.
LEMMA SimplerQueries ==
    ASSUME tree \in [Slots -> Nodes], NEW q \in Queries, q.names # <<>>
    PROVE  LET front == Query(q.dir, Front(q.names), q.limit) IN
           /\ front \in Queries /\ <<front, q>> \in Simpler
           /\ \A dir \in Seq(STRING), link \in Links, n \in Nat :
                 n < q.limit =>
                     LET target == Query(dir, link.names, q.limit - n - 1) IN
                     target \in Queries /\ <<target, q>> \in Simpler
<1> DEFINE front == Query(q.dir, Front(q.names), q.limit)
<1>1. q.dir \in Seq(STRING) /\ q.names \in Seq(STRING) /\ q.limit \in Nat
  BY DEF Queries
<1>2. front \in Queries
  BY <1>1, FrontLast DEF Query, Queries
<1>3. front.limit = q.limit /\ Len(front.names) < Len(q.names)
  BY <1>1, FrontLast DEF Query
<1>4. <<front, q>> \in Simpler
  BY <1>2, <1>3 DEF Simpler
<1>5. ASSUME NEW dir \in Seq(STRING), NEW link \in Links, NEW n \in Nat, n < q.limit
      PROVE  LET target == Query(dir, link.names, q.limit - n - 1) IN
             target \in Queries /\ <<target, q>> \in Simpler
  <2> DEFINE target == Query(dir, link.names, q.limit - n - 1)
  <2>1. target \in Queries
    BY <1>1, <1>5, LinkType DEF Query, Queries
  <2>2. target.limit < q.limit
    BY <1>1, <1>5 DEF Query
  <2> QED
    BY <2>1, <2>2 DEF Simpler
<1> QED
  BY <1>2, <1>4, <1>5

\* The meaning of a query has the type of a result, if those it is made of have.
LEMMA MeantType ==
    ASSUME tree \in [Slots -> Nodes], NEW q \in Queries, NEW m,
           \A r \in Queries : <<r, q>> \in Simpler => m[r] \in Results
    PROVE  Meant(m, q) \in Results
<1>1. q.dir \in Seq(STRING) /\ q.names \in Seq(STRING) /\ q.limit \in Nat
  BY DEF Queries
<1>2. CASE q.names = <<>>
  BY <1>1, <1>2 DEF Meant, Reached, Results
<1>3. CASE q.names # <<>>
  <2> DEFINE before == m[Query(q.dir, Front(q.names), q.limit)]
             name == Last(q.names)
             next == Append(before.path, name)
             node == Node(next)
  <2>1. before \in Results
    BY <1>3, SimplerQueries
  <2>2. before.path \in Seq(STRING) /\ before.count \in Nat
    BY <2>1 DEF Results
  <2>3. next \in Seq(STRING)
    BY <1>1, <1>3, <2>2, FrontLast, AppendProperties
  <2>4. Parent(before.path) \in Seq(STRING)
    BY <2>2, ParentType
  <2>5. Reached(next, before.count) \in Results /\ Reached(Parent(before.path), before.count) \in Results
    BY <2>2, <2>3, <2>4 DEF Reached, Results
  <2>6. Fails("missing") \in Results /\ Fails("loop") \in Results
    BY DEF Fails, Results
  <2>7. ASSUME node # Missing, node # Dir, before.count < q.limit
        PROVE  After(m[Query(IF node.absolute THEN <<>> ELSE before.path, node.names,
                             q.limit - before.count - 1)], before.count + 1) \in Results
    <3>1. node \in Links
      BY <2>7, NodeType, NodeKinds
    <3> DEFINE dir == IF node.absolute THEN <<>> ELSE before.path
    <3>2. dir \in Seq(STRING)
      <4>1. CASE node.absolute
        BY <4>1
      <4>2. CASE ~node.absolute
        BY <2>2, <4>2
      <4> QED
        BY <4>1, <4>2
    <3> HIDE DEF before, node, dir
    <3>3. m[Query(dir, node.names, q.limit - before.count - 1)] \in Results
      BY <1>3, <2>2, <2>7, <3>1, <3>2, SimplerQueries
    <3>4. \A r \in Results : After(r, before.count + 1) \in Results
      BY <2>2 DEF After, Reached, Results
    <3> QED
      BY <3>3, <3>4 DEF dir
  <2>8. ~(before.count >= q.limit) => before.count < q.limit
    BY <1>1, <2>2
  <2>9. LookUp(m, before, name, q.limit) \in Results
    BY <2>5, <2>6, <2>7, <2>8 DEF LookUp
  <2> HIDE DEF before, name
  <2>10. Meant(m, q) \in {before, Reached(Parent(before.path), before.count), LookUp(m, before, name, q.limit)}
    BY <1>3 DEF Meant, Onward, before, name
  <2> QED
    BY <2>1, <2>5, <2>9, <2>10
<1> QED
  BY <1>2, <1>3


\* It depends on simpler queries only.
LEMMA MeantLocal ==
    ASSUME tree \in [Slots -> Nodes], NEW q \in Queries, NEW m, NEW k,
           \A r \in Queries : <<r, q>> \in Simpler => m[r] \in Results /\ m[r] = k[r]
    PROVE  Meant(m, q) = Meant(k, q)
<1>1. q.dir \in Seq(STRING) /\ q.names \in Seq(STRING) /\ q.limit \in Nat
  BY DEF Queries
<1>2. CASE q.names = <<>>
  BY <1>2 DEF Meant
<1>3. CASE q.names # <<>>
  <2> DEFINE before == m[Query(q.dir, Front(q.names), q.limit)]
             name == Last(q.names)
             node == Node(Append(before.path, name))
  <2>1. before \in Results /\ before = k[Query(q.dir, Front(q.names), q.limit)]
    BY <1>3, SimplerQueries
  <2>2. before.path \in Seq(STRING) /\ before.count \in Nat
    BY <2>1 DEF Results
  <2>3. ASSUME node # Missing, node # Dir, before.count < q.limit
        PROVE  LET target == Query(IF node.absolute THEN <<>> ELSE before.path, node.names,
                                   q.limit - before.count - 1)
               IN  m[target] = k[target]
    <3>1. node \in Links
      BY <2>3, NodeType, NodeKinds
    <3> DEFINE dir == IF node.absolute THEN <<>> ELSE before.path
    <3>2. dir \in Seq(STRING)
      <4>1. CASE node.absolute
        BY <4>1
      <4>2. CASE ~node.absolute
        BY <2>2, <4>2
      <4> QED
        BY <4>1, <4>2
    <3> HIDE DEF before, node, dir
    <3>3. LET target == Query(dir, node.names, q.limit - before.count - 1)
          IN  m[target] = k[target]
      BY <1>3, <2>2, <2>3, <3>1, <3>2, SimplerQueries
    <3> QED
      BY <3>3 DEF dir
  <2>4. ~(before.count >= q.limit) => before.count < q.limit
    BY <1>1, <2>2
  <2>5. LookUp(m, before, name, q.limit) = LookUp(k, before, name, q.limit)
    BY <2>3, <2>4 DEF LookUp
  <2> HIDE DEF before, name
  <2> QED
    BY <1>3, <2>1, <2>5 DEF Meant, Onward, before, name
<1> QED
  BY <1>2, <1>3

\* m says what every path means.
Lawful(m) == m \in [Queries -> Results] /\ \A q \in Queries : m[q] = Meant(m, q)

\* There are meanings for all paths, and Meaning is one: the recursion ends.
LEMMA MeaningIsLawful ==
    ASSUME tree \in [Slots -> Nodes]
    PROVE  Lawful(Meaning)
<1> DEFINE H == [z \in Queries \X [Queries -> Results] |-> Meant(z[2], z[1])]
<1>1. Makes(Queries, Results, H)
  <2>1. ASSUME NEW z \in Queries \X [Queries -> Results] PROVE Meant(z[2], z[1]) \in Results
    <3>1. z[1] \in Queries /\ z[2] \in [Queries -> Results]
      OBVIOUS
    <3>2. \A r \in Queries : <<r, z[1]>> \in Simpler => z[2][r] \in Results
      BY <3>1
    <3> QED
      BY <3>1, <3>2, MeantType
  <2> QED
    BY <2>1 DEF Makes
<1>2. \A q \in Queries, m \in [Queries -> Results] : H[<<q, m>>] = Meant(m, q)
  OBVIOUS
<1> HIDE DEF H
<1>3. Decreasing(Simpler, Queries, Results, H)
  <2> SUFFICES ASSUME NEW q \in Queries, NEW m \in [Queries -> Results], NEW k \in [Queries -> Results],
                      \A r \in Queries : <<r, q>> \in Simpler => m[r] = k[r]
               PROVE  H[<<q, m>>] = H[<<q, k>>]
    BY DEF Decreasing
  <2>1. \A r \in Queries : <<r, q>> \in Simpler => m[r] \in Results /\ m[r] = k[r]
    OBVIOUS
  <2>2. Meant(m, q) = Meant(k, q)
    BY <2>1, MeantLocal
  <2> QED
    BY <1>2, <2>2
<1>4. Results # {}
  <2>1. Fails("loop") \in Results
    BY DEF Fails, Results
  <2> QED
    BY <2>1
<1>5. PICK f \in [Queries -> Results] : Solves(f, Queries, H)
  BY <1>1, <1>3, <1>4, SimplerGrounded, RecursiveFunction
<1>6. f = [q \in Queries |-> Meant(f, q)]
  BY <1>2, <1>5 DEF Solves
<1>7. Meaning = [q \in Queries |-> Meant(Meaning, q)]
  BY <1>6, Zenon DEF Meaning
<1>8. Meaning \in [Queries -> Results]
  <2> DEFINE Bad == {q \in Queries : Meaning[q] \notin Results}
  <2> SUFFICES ASSUME Bad # {} PROVE FALSE
    BY <1>7
  <2>1. PICK q \in Bad : \A r \in Bad : <<r, q>> \notin Simpler
    BY SimplerGrounded DEF Grounded
  <2>2. \A r \in Queries : <<r, q>> \in Simpler => Meaning[r] \in Results
    BY <2>1
  <2>3. Meant(Meaning, q) \in Results
    BY <2>2, MeantType
  <2> QED
    BY <1>7, <2>1, <2>3
<1> QED
  BY <1>7, <1>8 DEF Lawful


\* A query's meaning is that of the path without its last name, taken onward.
LEMMA ByLastName ==
    ASSUME NEW m, Lawful(m), NEW dir \in Seq(STRING), NEW names \in Seq(STRING), NEW limit \in Nat,
           names # <<>>
    PROVE  m[Query(dir, names, limit)] =
               Onward(m, m[Query(dir, Front(names), limit)], Last(names), limit)
<1>1. Query(dir, names, limit) \in Queries
  BY DEF Query, Queries
<1>2. /\ Query(dir, names, limit).dir = dir /\ Query(dir, names, limit).names = names
      /\ Query(dir, names, limit).limit = limit
  BY DEF Query
<1> QED
  BY <1>1, <1>2 DEF Lawful, Meant

\* The empty path means where it starts.
LEMMA EmptyPath ==
    ASSUME NEW m, Lawful(m), NEW dir \in Seq(STRING), NEW limit \in Nat
    PROVE  m[Query(dir, <<>>, limit)] = Reached(dir, 0)
<1>1. Query(dir, <<>>, limit) \in Queries
  BY DEF Query, Queries
<1> QED
  BY <1>1 DEF Lawful, Meant, Query

\* What a query means has the type of a result.
LEMMA ResultType ==
    ASSUME NEW m, Lawful(m), NEW dir \in Seq(STRING), NEW names \in Seq(STRING), NEW limit \in Nat
    PROVE  /\ m[Query(dir, names, limit)] \in Results
           /\ m[Query(dir, names, limit)].path \in Seq(STRING)
           /\ m[Query(dir, names, limit)].count \in Nat
<1>1. Query(dir, names, limit) \in Queries
  BY DEF Query, Queries
<1> QED
  BY <1>1 DEF Lawful, Results

\* No path that is found takes more links than it may.
LEMMA WithinLimit ==
    ASSUME tree \in [Slots -> Nodes], NEW m, Lawful(m), NEW q \in Queries, m[q].how = "found"
    PROVE  m[q].count <= q.limit
<1> DEFINE Bad == {r \in Queries : m[r].how = "found" /\ ~(m[r].count <= r.limit)}
<1> SUFFICES ASSUME Bad # {} PROVE FALSE
  OBVIOUS
<1>1. PICK r \in Bad : \A s \in Bad : <<s, r>> \notin Simpler
  BY SimplerGrounded DEF Grounded
<1>2. r.dir \in Seq(STRING) /\ r.names \in Seq(STRING) /\ r.limit \in Nat
  BY DEF Queries
<1>3. m[r] = Meant(m, r) /\ m[r].count \in Nat
  BY DEF Lawful, Results
<1>4. \A s \in Queries : <<s, r>> \in Simpler => (m[s].how = "found" => m[s].count <= s.limit)
  BY <1>1
<1>5. CASE r.names = <<>>
  BY <1>2, <1>3, <1>5 DEF Meant, Reached
<1>6. CASE r.names # <<>>
  <2> DEFINE front == Query(r.dir, Front(r.names), r.limit)
             before == m[front]
             name == Last(r.names)
             node == Node(Append(before.path, name))
  <2>1. front \in Queries /\ <<front, r>> \in Simpler /\ front.limit = r.limit
    BY <1>6, SimplerQueries DEF Query
  <2>2. before \in Results /\ before.path \in Seq(STRING) /\ before.count \in Nat
    BY <2>1 DEF Lawful, Results
  <2>3. before.how = "found" => before.count <= r.limit
    BY <1>4, <2>1
  <2>4. m[r] = Onward(m, before, name, r.limit)
    BY <1>3, <1>6 DEF Meant
  <2>5. before.how = "found"
    BY <1>1, <2>3, <2>4 DEF Onward
  <2>6. m[r] = LookUp(m, before, name, r.limit)
    <3>1. ~(m[r].count <= r.limit)
      BY <1>1
    <3>2. m[r] # before /\ m[r] # Reached(Parent(before.path), before.count)
      BY <2>3, <2>5, <3>1 DEF Reached
    <3> QED
      BY <2>4, <3>2 DEF Onward
  <2>7. node # Missing /\ node # Dir /\ before.count < r.limit
    BY <1>1, <1>2, <2>2, <2>3, <2>5, <2>6 DEF LookUp, Reached, Fails
  <2>8. node \in Links
    BY <2>7, NodeType, NodeKinds
  <2> DEFINE dir == IF node.absolute THEN <<>> ELSE before.path
             target == Query(dir, node.names, r.limit - before.count - 1)
  <2>9. dir \in Seq(STRING)
    <3>1. CASE node.absolute
      BY <3>1
    <3>2. CASE ~node.absolute
      BY <2>2, <3>2
    <3> QED
      BY <3>1, <3>2
  <2>10. m[r] = After(m[target], before.count + 1)
    BY <1>2, <2>2, <2>6, <2>7 DEF LookUp
  <2> HIDE DEF before, node, dir
  <2>11. target \in Queries /\ <<target, r>> \in Simpler
    BY <1>6, <2>2, <2>7, <2>8, <2>9, SimplerQueries
  <2>12. target.limit = r.limit - before.count - 1
    BY DEF Query
  <2> HIDE DEF target
  <2>13. m[target].how = "found" /\ m[r].count = before.count + 1 + m[target].count
    BY <1>1, <2>10 DEF After, Reached
  <2>14. m[target].count <= target.limit /\ m[target].count \in Nat
    BY <1>4, <2>11, <2>13 DEF Lawful, Results
  <2> QED
    BY <1>1, <1>2, <2>2, <2>7, <2>12, <2>13, <2>14
<1> QED
  BY <1>5, <1>6


\* Going on from a result that came after others is going on from it, after them.
LEMMA OnwardAfter ==
    ASSUME NEW m, tree \in [Slots -> Nodes], Lawful(m), NEW s \in Results, NEW name \in STRING,
           NEW limit \in Nat, NEW n \in Nat, n <= limit
    PROVE  Onward(m, After(s, n), name, limit) = After(Onward(m, s, name, limit - n), n)
<1>1. s.path \in Seq(STRING) /\ s.count \in Nat
  BY DEF Results
<1>2. CASE s.how # "found"
  BY <1>2 DEF Onward, After
<1>3. CASE s.how = "found"
  <2> DEFINE t == After(s, n)
             node == Node(Append(s.path, name))
  <2> SUFFICES Onward(m, t, name, limit) = After(Onward(m, s, name, limit - n), n)
    OBVIOUS
  <2>1. t = Reached(s.path, n + s.count)
    BY <1>3 DEF After
  <2>2. t.how = "found" /\ t.path = s.path /\ t.count = n + s.count
    BY <2>1 DEF Reached
  <2>3. t = After(s, n)
    OBVIOUS
  <2> HIDE DEF t
  <2>4. CASE name \in {"", "."}
    BY <1>3, <2>2, <2>3, <2>4 DEF Onward
  <2>5. CASE name = ".."
    <3>1. Onward(m, t, name, limit) = Reached(Parent(s.path), n + s.count)
      BY <2>2, <2>5 DEF Onward
    <3>2. Onward(m, s, name, limit - n) = Reached(Parent(s.path), s.count)
      BY <1>3, <2>5 DEF Onward
    <3>3. After(Reached(Parent(s.path), s.count), n) = Reached(Parent(s.path), n + s.count)
      BY DEF Reached, After
    <3> QED
      BY <3>1, <3>2, <3>3
  <2>6. CASE name \notin {"", ".", ".."}
    <3>1. Onward(m, t, name, limit) = LookUp(m, t, name, limit)
      BY <2>2, <2>6 DEF Onward
    <3>2. Onward(m, s, name, limit - n) = LookUp(m, s, name, limit - n)
      BY <1>3, <2>6 DEF Onward
    <3>3. CASE node = Missing
      <4>1. LookUp(m, t, name, limit) = Fails("missing") /\ LookUp(m, s, name, limit - n) = Fails("missing")
        BY <2>2, <3>3 DEF LookUp
      <4> QED
        BY <3>1, <3>2, <4>1 DEF Fails, After
    <3>4. CASE node # Missing /\ node = Dir
      <4>1. LookUp(m, t, name, limit) = Reached(Append(s.path, name), n + s.count)
        BY <2>2, <3>4 DEF LookUp
      <4>2. LookUp(m, s, name, limit - n) = Reached(Append(s.path, name), s.count)
        BY <3>4 DEF LookUp
      <4>3. After(Reached(Append(s.path, name), s.count), n) = Reached(Append(s.path, name), n + s.count)
        BY DEF Reached, After
      <4> QED
        BY <3>1, <3>2, <4>1, <4>2, <4>3
    <3>5. CASE node # Missing /\ node # Dir
      <4> DEFINE dir == IF node.absolute THEN <<>> ELSE s.path
                 target == Query(dir, node.names, limit - n - s.count - 1)
      <4>1. CASE t.count >= limit
        <5>1. s.count >= limit - n
          BY <1>1, <2>2, <4>1
        <5>2. LookUp(m, t, name, limit) = Fails("loop") /\ LookUp(m, s, name, limit - n) = Fails("loop")
          BY <2>2, <3>5, <4>1, <5>1 DEF LookUp
        <5> QED
          BY <3>1, <3>2, <5>2 DEF Fails, After
      <4>2. CASE ~(t.count >= limit)
        <5>1. ~(s.count >= limit - n) /\ limit - t.count - 1 = limit - n - s.count - 1
          BY <1>1, <2>2, <4>2
        <5>2. LookUp(m, t, name, limit) = After(m[target], t.count + 1)
          BY <2>2, <3>5, <4>2, <5>1 DEF LookUp
        <5>3. LookUp(m, s, name, limit - n) = After(m[target], s.count + 1)
          BY <3>5, <5>1 DEF LookUp
        <5>4. node \in Links
          BY <3>5, NodeType, NodeKinds
        <5>5. target \in Queries
          <6>1. dir \in Seq(STRING)
            <7>1. CASE node.absolute
              BY <7>1
            <7>2. CASE ~node.absolute
              BY <1>1, <7>2
            <7> QED
              BY <7>1, <7>2
          <6>2. limit - n - s.count - 1 \in Nat
            BY <1>1, <5>1
          <6> HIDE DEF dir, node
          <6> QED
            BY <5>4, <6>1, <6>2, LinkType DEF Query, Queries
        <5> DEFINE u == m[target]
        <5>6. u.count \in Nat
          BY <5>5 DEF Lawful, Results
        <5> HIDE DEF u
        <5>7. t.count + 1 + u.count = n + (s.count + 1 + u.count)
          BY <1>1, <2>2, <5>6
        <5>8. After(u, t.count + 1) = After(After(u, s.count + 1), n)
          BY <5>7 DEF After, Reached
        <5> QED
          BY <3>1, <3>2, <5>2, <5>3, <5>8 DEF u
      <4> QED
        BY <4>1, <4>2
    <3> QED
      BY <3>3, <3>4, <3>5
  <2> QED
    BY <2>4, <2>5, <2>6
<1> QED
  BY <1>2, <1>3

\* The last name and what comes before it are the only ones to make a path.
LEMMA AppendSame ==
    ASSUME NEW S, NEW f \in Seq(S), NEW g \in Seq(S), NEW x \in S, NEW y \in S,
           Append(f, x) = Append(g, y)
    PROVE  f = g /\ x = y
BY AppendInjective

\* What comes before the last name, and that name.
LEMMA FrontOfAppend ==
    ASSUME NEW S, NEW s \in Seq(S), NEW e \in S
    PROVE  Front(Append(s, e)) = s /\ Last(Append(s, e)) = e
<1>1. PICK t \in Seq(S) : t = Append(s, e) /\ t # <<>>
  BY AppendProperties
<1>2. Front(t) \in Seq(S) /\ Last(t) \in S /\ Append(Front(t), Last(t)) = Append(s, e)
  BY <1>1, FrontLast
<1>3. PICK f \in Seq(S) : f = Front(t)
  BY <1>2
<1>4. PICK x \in S : x = Last(t)
  BY <1>2
<1>5. f = s /\ x = e
  BY <1>2, <1>3, <1>4, AppendSame
<1> QED
  BY <1>1, <1>3, <1>4, <1>5

\* The parts of a path that is put together from two.
LEMMA JoinParts ==
    ASSUME NEW S, NEW a \in Seq(S), NEW b \in Seq(S), b # <<>>
    PROVE  /\ a \o b \in Seq(S) /\ a \o b # <<>>
           /\ Front(a \o b) = a \o Front(b) /\ Last(a \o b) = Last(b)
<1>1. a \o b \in Seq(S) /\ Len(a \o b) = Len(a) + Len(b) /\ Len(a) \in Nat /\ Len(b) \in Nat
  BY ConcatProperties
<1>2. a \o b # <<>>
  BY <1>1, EmptySeq
<1>3. Front(b) \in Seq(S) /\ Last(b) \in S /\ b = Append(Front(b), Last(b))
  BY FrontLast
<1>4. a \o Front(b) \in Seq(S)
  BY <1>3, ConcatProperties
<1>5. a \o b = Append(a \o Front(b), Last(b))
  <2> DEFINE f == Front(b)
             x == Last(b)
  <2>1. f \in Seq(S) /\ x \in S /\ b = Append(f, x) /\ <<x>> \in Seq(S)
    BY <1>3
  <2> HIDE DEF f, x
  <2>2. Append(f, x) = f \o <<x>> /\ Append(a \o f, x) = (a \o f) \o <<x>>
    BY <1>4, <2>1, AppendIsConcat DEF f
  <2>3. a \o (f \o <<x>>) = (a \o f) \o <<x>>
    BY <2>1, ConcatAssociative
  <2> QED
    BY <2>1, <2>2, <2>3 DEF f, x
<1>6. Front(Append(a \o Front(b), Last(b))) = a \o Front(b) /\ Last(Append(a \o Front(b), Last(b))) = Last(b)
  BY <1>3, <1>4, FrontOfAppend
<1> QED
  BY <1>1, <1>2, <1>5, <1>6

\* A path of two parts means what the second part means from where the first leads.
LEMMA InTwoParts ==
    ASSUME NEW m, tree \in [Slots -> Nodes], Lawful(m), NEW dir \in Seq(STRING),
           NEW a \in Seq(STRING), NEW b \in Seq(STRING), NEW limit \in Nat
    PROVE  LET r == m[Query(dir, a, limit)] IN
           m[Query(dir, a \o b, limit)] =
               IF r.how = "found"
               THEN After(m[Query(r.path, b, limit - r.count)], r.count) ELSE r
<1> DEFINE r == m[Query(dir, a, limit)]
           rest == limit - r.count
           Holds(c) == m[Query(dir, a \o c, limit)] =
                           IF r.how = "found" THEN After(m[Query(r.path, c, rest)], r.count) ELSE r
           Bad == {c \in Seq(STRING) : ~Holds(c)}
           Lengths == {Len(c) : c \in Bad}
<1> SUFFICES ASSUME Bad # {} PROVE FALSE
  OBVIOUS
<1> HIDE DEF Holds
<1>0. Bad \subseteq Seq(STRING) /\ Bad # {}
  OBVIOUS
<1>1. Lengths \subseteq Nat /\ Lengths # {}
  <2> HIDE DEF Bad
  <2>1. \A c \in Bad : Len(c) \in Nat
    BY <1>0
  <2> QED
    BY <1>0, <2>1
<1>2. PICK l \in Lengths : \A k \in Lengths : l <= k
  BY <1>1, LeastNumber
<1>3. PICK c \in Bad : Len(c) = l
  BY <1>2
<1>4. \A d \in Seq(STRING) : Len(d) < Len(c) => Holds(d)
  <2> SUFFICES ASSUME NEW d \in Seq(STRING), Len(d) < Len(c), ~Holds(d) PROVE FALSE
    OBVIOUS
  <2>1. Len(d) \in Lengths
    OBVIOUS
  <2>2. l <= Len(d) /\ l \in Nat /\ Len(d) \in Nat /\ Len(c) = l
    BY <1>1, <1>2, <1>3, <2>1
  <2> QED
    BY <2>2
<1>5. r \in Results /\ r.path \in Seq(STRING) /\ r.count \in Nat
  BY ResultType
<1>6. r.how = "found" => r.count <= limit
  <2>1. Query(dir, a, limit) \in Queries /\ Query(dir, a, limit).limit = limit
    BY DEF Query, Queries
  <2> QED
    BY <2>1, WithinLimit
<1>7. r.how = "found" => rest \in Nat
  BY <1>5, <1>6
<1>8. c \in Seq(STRING) /\ ~Holds(c)
  BY <1>3
<1> USE DEF Holds
<1> HIDE DEF r, rest
<1>9. CASE c = <<>>
  <2>1. a \o c = a
    BY <1>9
  <2>2. r.how = "found" => m[Query(r.path, <<>>, rest)] = Reached(r.path, 0)
    BY <1>5, <1>7, EmptyPath
  <2>3. r.how = "found" => After(Reached(r.path, 0), r.count) = r
    BY <1>5 DEF After, Reached, Results
  <2> QED
    BY <1>8, <1>9, <2>1, <2>2, <2>3 DEF r
<1>10. CASE c # <<>>
  <2> DEFINE f == Front(c)
             x == Last(c)
  <2>1. f \in Seq(STRING) /\ x \in STRING /\ Len(f) < Len(c)
    <3>1. f \in Seq(STRING) /\ x \in STRING
      BY <1>8, <1>10, FrontLast
    <3>2. Len(c) \in Nat /\ Len(f) = Len(c) - 1
      BY <1>8, <1>10, FrontLast
    <3> QED
      BY <3>1, <3>2
  <2>2. Holds(f)
    BY <1>4, <2>1
  <2>3. m[Query(dir, a \o c, limit)] = Onward(m, m[Query(dir, a \o f, limit)], x, limit)
    <3>1. a \o c \in Seq(STRING) /\ a \o c # <<>> /\ Front(a \o c) = a \o f /\ Last(a \o c) = x
      BY <1>8, <1>10, JoinParts
    <3>2. \A p \in Seq(STRING) : p # <<>> =>
              m[Query(dir, p, limit)] = Onward(m, m[Query(dir, Front(p), limit)], Last(p), limit)
      BY ByLastName
    <3> QED
      BY <3>1, <3>2
  <2>4. CASE r.how # "found"
    BY <1>8, <2>2, <2>3, <2>4 DEF Onward
  <2>5. CASE r.how = "found"
    <3> DEFINE s == m[Query(r.path, f, rest)]
    <3>1. s \in Results
      BY <1>5, <1>7, <2>1, <2>5, ResultType
    <3>2. m[Query(r.path, c, rest)] = Onward(m, s, x, rest)
      BY <1>5, <1>7, <1>8, <1>10, <2>5, ByLastName
    <3> HIDE DEF s, x, f
    <3>3. Onward(m, After(s, r.count), x, limit) = After(Onward(m, s, x, limit - r.count), r.count)
      BY <1>5, <1>6, <2>1, <2>5, <3>1, OnwardAfter
    <3>4. m[Query(dir, a \o f, limit)] = After(s, r.count)
      BY <2>2, <2>5 DEF s
    <3> QED
      BY <1>8, <2>3, <2>5, <3>2, <3>3, <3>4 DEF rest
  <2> QED
    BY <2>4, <2>5
<1> QED
  BY <1>9, <1>10


(***************************************************************************)
(* Prefixes                                                                *)
(***************************************************************************)

\* What comes before the last name, as a prefix.
LEMMA PrefixOfAppend ==
    ASSUME NEW S, NEW s \in Seq(S), NEW e \in S, NEW n \in 0 .. Len(s)
    PROVE  SubSeq(Append(s, e), 1, n) = SubSeq(s, 1, n)
<1>1. Len(s) \in Nat /\ n \in Int /\ 1 \in Int
  OBVIOUS
<1>2. Append(s, e) \in Seq(S) /\ \A i \in 1 .. Len(s) : Append(s, e)[i] = s[i]
  BY AppendProperties
<1>3. \A i \in 1 .. n : s[i] \in S /\ Append(s, e)[i] = s[i]
  BY <1>1, <1>2
<1>4. /\ SubSeq(s, 1, n) \in Seq(S) /\ Len(SubSeq(s, 1, n)) = IF 1 <= n THEN n - 1 + 1 ELSE 0
      /\ \A i \in 1 .. n - 1 + 1 : SubSeq(s, 1, n)[i] = s[1 + i - 1]
  BY <1>1, <1>3, SubSeqProperties
<1>5. /\ SubSeq(Append(s, e), 1, n) \in Seq(S)
      /\ Len(SubSeq(Append(s, e), 1, n)) = IF 1 <= n THEN n - 1 + 1 ELSE 0
      /\ \A i \in 1 .. n - 1 + 1 : SubSeq(Append(s, e), 1, n)[i] = Append(s, e)[1 + i - 1]
  BY <1>1, <1>3, SubSeqProperties
<1>6. /\ Len(SubSeq(s, 1, n)) = n /\ \A i \in 1 .. n : SubSeq(s, 1, n)[i] = s[i]
      /\ Len(SubSeq(Append(s, e), 1, n)) = n
      /\ \A i \in 1 .. n : SubSeq(Append(s, e), 1, n)[i] = Append(s, e)[i]
  BY <1>1, <1>4, <1>5
<1> QED
  BY <1>3, <1>4, <1>5, <1>6, SeqEqual

\* The prefixes of a longer path.
LEMMA PrefixesOfAppend ==
    ASSUME NEW path \in Seq(STRING), NEW name \in STRING
    PROVE  StrictPrefixes(Append(path, name)) = StrictPrefixes(path) \cup {path}
<1> DEFINE long == Append(path, name)
<1>1. Len(path) \in Nat /\ Len(long) = Len(path) + 1
  BY AppendProperties
<1>2. \A n \in 0 .. Len(path) : SubSeq(long, 1, n) = SubSeq(path, 1, n)
  BY PrefixOfAppend
<1>3. SubSeq(path, 1, Len(path)) = path
  BY SubSeqFull
<1>4. StrictPrefixes(long) = {SubSeq(long, 1, n) : n \in 0 .. Len(path)}
  BY <1>1 DEF StrictPrefixes
<1>5. StrictPrefixes(long) = {SubSeq(path, 1, n) : n \in 0 .. Len(path)}
  BY <1>2, <1>4
<1>6. 0 .. Len(path) = (0 .. Len(path) - 1) \cup {Len(path)}
  BY <1>1
<1> QED
  BY <1>3, <1>5, <1>6 DEF StrictPrefixes

\* A path of directories only.
AllDirs(path) == \A p \in StrictPrefixes(path) \cup {path} : Node(p) = Dir

\* Such a path is made longer by a directory.
LEMMA LongerDirs ==
    ASSUME NEW path \in Seq(STRING), NEW name \in STRING
    PROVE  AllDirs(Append(path, name)) <=> AllDirs(path) /\ Node(Append(path, name)) = Dir
BY PrefixesOfAppend DEF AllDirs

\* And made shorter by nothing else.
LEMMA ShorterDirs ==
    ASSUME NEW path \in Seq(STRING), AllDirs(path)
    PROVE  AllDirs(Parent(path))
<1>1. CASE path = <<>>
  BY <1>1 DEF Parent
<1>2. CASE path # <<>>
  <2>1. PICK f \in Seq(STRING), x \in STRING : f = Front(path) /\ path = Append(f, x)
    BY <1>2, FrontLast
  <2> QED
    BY <1>2, <2>1, LongerDirs DEF Parent
<1> QED
  BY <1>1, <1>2

\* The walk sees what is there, when all it came through are directories.
LEMMA SeesNode ==
    ASSUME NEW path \in Seq(STRING), NEW name \in STRING, AllDirs(path)
    PROVE  Sees(Append(path, name)) = {Node(Append(path, name))}
BY PrefixesOfAppend DEF AllDirs, Sees

\* What a directory or a link is at is visible.
LEMMA VisibleNode ==
    ASSUME tree \in [Slots -> Nodes], NEW path, Node(path) # Missing
    PROVE  /\ Reachable(policy, path)
           /\ Node(path) \in Links => path \in Slots /\ Node(path) = tree[path]
BY NodeKinds DEF Node, Visible, Nodes


(***************************************************************************)
(* Joining without looking                                                 *)
(***************************************************************************)

\* Joining to a directory is by recursion on the number of names.
Joinings == [dir : Seq(STRING), names : Seq(STRING)]

Shorter == {z \in Joinings \X Joinings : Len(z[1].names) < Len(z[2].names)}

\* There is no endless descent to shorter paths.
LEMMA ShorterGrounded == Grounded(Shorter, Joinings)
<1> SUFFICES ASSUME NEW T \in SUBSET Joinings, T # {}
             PROVE  \E x \in T : \A y \in T : <<y, x>> \notin Shorter
  BY DEF Grounded
<1>1. \A q \in T : Len(q.names) \in Nat
  BY DEF Joinings
<1> DEFINE Lengths == {Len(q.names) : q \in T}
<1>2. Lengths \subseteq Nat /\ Lengths # {}
  BY <1>1
<1>3. PICK l \in Lengths : \A k \in Lengths : l <= k
  BY <1>2, LeastNumber
<1>4. PICK x \in T : Len(x.names) = l
  BY <1>3
<1>5. ASSUME NEW y \in T, <<y, x>> \in Shorter PROVE FALSE
  <2>1. Len(y.names) < Len(x.names)
    BY <1>5 DEF Shorter
  <2>2. l <= Len(y.names)
    BY <1>3
  <2> QED
    BY <1>1, <1>4, <2>1, <2>2
<1> QED
  BY <1>4, <1>5

\* One step of joining gives a path.
LEMMA JoinedByType ==
    ASSUME NEW dir \in Seq(STRING), NEW name \in STRING
    PROVE  JoinedBy(dir, name) \in Seq(STRING)
<1>1. Append(dir, name) \in Seq(STRING)
  BY AppendProperties
<1> QED
  BY <1>1, ParentType DEF JoinedBy

\* What q is joined to, given what shorter paths are joined to.
JoinStep(m, q) ==
    IF q.names = <<>> THEN q.dir
    ELSE JoinedBy(m[[dir |-> q.dir, names |-> Front(q.names)]], Last(q.names))

\* The recursion of Join ends, and it has the value it is defined by.
LEMMA JoinLaw ==
    /\ Join \in [Joinings -> Seq(STRING)]
    /\ \A q \in Joinings : Join[q] = JoinStep(Join, q)
<1> DEFINE T == Seq(STRING)
           Before(q) == [dir |-> q.dir, names |-> Front(q.names)]
           H == [z \in Joinings \X [Joinings -> T] |-> JoinStep(z[2], z[1])]
<1>1. \A q \in Joinings : q.dir \in Seq(STRING) /\ q.names \in Seq(STRING)
  BY DEF Joinings
<1>2. ASSUME NEW q \in Joinings, q.names # <<>>
      PROVE  Before(q) \in Joinings /\ <<Before(q), q>> \in Shorter /\ Last(q.names) \in STRING
  <2>1. Front(q.names) \in Seq(STRING) /\ Last(q.names) \in STRING
    BY <1>1, <1>2, FrontLast
  <2>2. Before(q) \in Joinings /\ Before(q).names = Front(q.names)
    BY <1>1, <2>1 DEF Joinings
  <2>3. Len(q.names) \in Nat /\ Len(Front(q.names)) = Len(q.names) - 1
    BY <1>1, <1>2, FrontLast
  <2>4. Len(Before(q).names) < Len(q.names)
    BY <2>2, <2>3
  <2> QED
    BY <2>1, <2>2, <2>4 DEF Shorter
<1>3. ASSUME NEW q \in Joinings, NEW m, \A r \in Joinings : <<r, q>> \in Shorter => m[r] \in T
      PROVE  JoinStep(m, q) \in T
  <2>1. CASE q.names = <<>>
    BY <1>1, <2>1 DEF JoinStep
  <2>2. CASE q.names # <<>>
    <3>1. m[Before(q)] \in T /\ Last(q.names) \in STRING
      BY <1>2, <1>3, <2>2
    <3>2. JoinedBy(m[Before(q)], Last(q.names)) \in T
      BY <3>1, JoinedByType
    <3> QED
      BY <2>2, <3>2 DEF JoinStep
  <2> QED
    BY <2>1, <2>2
<1>4. Makes(Joinings, T, H)
  <2>1. ASSUME NEW z \in Joinings \X [Joinings -> T] PROVE JoinStep(z[2], z[1]) \in T
    <3>1. z[1] \in Joinings /\ z[2] \in [Joinings -> T]
      OBVIOUS
    <3>2. \A r \in Joinings : <<r, z[1]>> \in Shorter => z[2][r] \in T
      BY <3>1
    <3> QED
      BY <1>3, <3>1, <3>2
  <2> QED
    BY <2>1 DEF Makes
<1>5. \A q \in Joinings, m \in [Joinings -> T] : H[<<q, m>>] = JoinStep(m, q)
  OBVIOUS
<1> HIDE DEF H
<1>6. Decreasing(Shorter, Joinings, T, H)
  <2> SUFFICES ASSUME NEW q \in Joinings, NEW m \in [Joinings -> T], NEW k \in [Joinings -> T],
                      \A r \in Joinings : <<r, q>> \in Shorter => m[r] = k[r]
               PROVE  H[<<q, m>>] = H[<<q, k>>]
    BY DEF Decreasing
  <2>1. q.names # <<>> => m[Before(q)] = k[Before(q)]
    BY <1>2
  <2>2. JoinStep(m, q) = JoinStep(k, q)
    BY <2>1 DEF JoinStep
  <2> QED
    BY <1>5, <2>2
<1>7. T # {}
  BY EmptySeq
<1>8. PICK f \in [Joinings -> T] : Solves(f, Joinings, H)
  BY <1>4, <1>6, <1>7, ShorterGrounded, RecursiveFunction
<1>9. f = [q \in Joinings |-> JoinStep(f, q)]
  BY <1>5, <1>8 DEF Solves
<1>10. Join = [q \in Joinings |-> JoinStep(Join, q)]
  BY <1>9, Zenon DEF Join, JoinStep, Joinings
<1>11. \A q \in Joinings : Join[q] \in T
  <2> DEFINE Bad == {q \in Joinings : Join[q] \notin T}
  <2> SUFFICES ASSUME Bad # {} PROVE FALSE
    OBVIOUS
  <2>1. PICK q \in Bad : \A r \in Bad : <<r, q>> \notin Shorter
    BY ShorterGrounded DEF Grounded
  <2>2. \A r \in Joinings : <<r, q>> \in Shorter => Join[r] \in T
    BY <2>1
  <2>3. JoinStep(Join, q) \in T
    BY <1>3, <2>2
  <2> QED
    BY <1>10, <2>1, <2>3
<1> QED
  BY <1>10, <1>11

\* A path is joined name by name.
LEMMA JoinedIs ==
    ASSUME NEW dir \in Seq(STRING), NEW names \in Seq(STRING)
    PROVE  /\ Joined(dir, names) \in Seq(STRING)
           /\ names = <<>> => Joined(dir, names) = dir
           /\ names # <<>> => Joined(dir, names) = JoinedBy(Joined(dir, Front(names)), Last(names))
<1> DEFINE q == [dir |-> dir, names |-> names]
<1>1. q \in Joinings /\ q.dir = dir /\ q.names = names
  BY DEF Joinings
<1>2. Join[q] = JoinStep(Join, q) /\ Join[q] \in Seq(STRING)
  BY <1>1, JoinLaw
<1> QED
  BY <1>1, <1>2 DEF Joined, JoinStep


\* What is below an allowed directory stays so with another name.
LEMMA UnderAppend ==
    ASSUME policy \in Policies, NEW path \in Seq(STRING), NEW name \in STRING,
           UnderAny(path, policy.allowed)
    PROVE  UnderAny(Append(path, name), policy.allowed)
<1>1. PICK dir \in policy.allowed : IsPrefix(dir, path)
  BY DEF UnderAny, Under
<1>2. dir \in Seq(STRING)
  BY PolicyAssumption
<1>3. Len(dir) \in Nat /\ Len(path) \in Nat /\ Len(dir) <= Len(path)
      /\ SubSeq(dir, 1, Len(dir)) = SubSeq(path, 1, Len(dir))
  BY <1>1, <1>2 DEF IsPrefix
<1>4. SubSeq(Append(path, name), 1, Len(dir)) = SubSeq(path, 1, Len(dir))
  BY <1>3, PrefixOfAppend
<1>5. Len(Append(path, name)) = Len(path) + 1
  BY AppendProperties
<1>6. IsPrefix(dir, Append(path, name))
  BY <1>3, <1>4, <1>5 DEF IsPrefix
<1> QED
  BY <1>6 DEF UnderAny, Under

\* Names that are not looked up.
Special == {"", ".", ".."}

\* No name comes before a ..
Straight(names) ==
    ~\E i, j \in DOMAIN names : i < j /\ names[i] \notin Special /\ names[j] = ".."

OnlySpecial(names) == \A i \in DOMAIN names : names[i] \in Special

\* The parts of a straight path.
LEMMA StraightParts ==
    ASSUME NEW S, NEW f \in Seq(S), NEW x \in S, Straight(Append(f, x))
    PROVE  /\ Straight(f)
           /\ x = ".." => OnlySpecial(f)
           /\ OnlySpecial(Append(f, x)) <=> OnlySpecial(f) /\ x \in Special
<1> DEFINE long == Append(f, x)
<1>1. Len(f) \in Nat /\ DOMAIN f = 1 .. Len(f)
  OBVIOUS
<1>2. long \in Seq(S) /\ Len(long) = Len(f) + 1
  BY AppendProperties
<1>3. DOMAIN long = 1 .. Len(f) + 1
  BY <1>2
<1>4. (\A i \in 1 .. Len(f) : long[i] = f[i]) /\ long[Len(f) + 1] = x
  BY AppendProperties
<1> HIDE DEF long
<1>5. \A i, j \in DOMAIN long : ~(i < j /\ long[i] \notin Special /\ long[j] = "..")
  BY DEF Straight, long
<1>6. \A i, j \in DOMAIN f : ~(i < j /\ f[i] \notin Special /\ f[j] = "..")
  BY <1>1, <1>3, <1>4, <1>5
<1>7. x = ".." => OnlySpecial(f)
  BY <1>1, <1>3, <1>4, <1>5 DEF OnlySpecial
<1>8. OnlySpecial(long) <=> OnlySpecial(f) /\ x \in Special
  <2>1. OnlySpecial(long) => OnlySpecial(f)
    BY <1>1, <1>3, <1>4 DEF OnlySpecial
  <2>2. OnlySpecial(long) => x \in Special
    BY <1>1, <1>3, <1>4 DEF OnlySpecial
  <2>3. ASSUME OnlySpecial(f), x \in Special, NEW i \in DOMAIN long PROVE long[i] \in Special
    BY <1>1, <1>3, <1>4, <2>3 DEF OnlySpecial
  <2> QED
    BY <2>1, <2>2, <2>3 DEF OnlySpecial
<1> QED
  BY <1>6, <1>7, <1>8 DEF Straight, long

\* How far joining and looking agree: until there is a link, which is below an
\* allowed directory, and so is then all that comes after it.
Agree(m, dir, names, limit) ==
    LET joined == Joined(dir, names)
        meant  == m[Query(dir, names, limit)]
    IN  /\ OnlySpecial(names) => meant = Reached(joined, 0) /\ AllDirs(joined)
        /\ meant.how = "found" =>
               \/ meant.path = joined /\ AllDirs(joined)
               \/ UnderAny(joined, policy.allowed)

\* They go on to agree with one more name.
LEMMA AgreeStep ==
    ASSUME NEW m, tree \in [Slots -> Nodes], policy \in Policies, Lawful(m),
           NEW dir \in Seq(STRING), NEW limit \in Nat,
           NEW names \in Seq(STRING), names # <<>>, Straight(names),
           Straight(Front(names)) => Agree(m, dir, Front(names), limit)
    PROVE  Agree(m, dir, names, limit)
<1>1. PICK f \in Seq(STRING), x \in STRING : f = Front(names) /\ x = Last(names) /\ names = Append(f, x)
  BY FrontLast
<1> DEFINE before == m[Query(dir, f, limit)]
           meant == m[Query(dir, names, limit)]
           short == Joined(dir, f)
           joined == Joined(dir, names)
<1>2. /\ x = ".." => OnlySpecial(f)
      /\ OnlySpecial(names) <=> OnlySpecial(f) /\ x \in Special
      /\ Straight(f)
  <2>1. Straight(Append(f, x))
    BY <1>1
  <2> QED
    BY <1>1, <2>1, StraightParts
<1>3. Agree(m, dir, f, limit)
  BY <1>1, <1>2
<1>4. short \in Seq(STRING) /\ joined = JoinedBy(short, x)
  BY <1>1, JoinedIs
<1>5. meant = Onward(m, before, x, limit)
  <2>1. meant = Onward(m, m[Query(dir, Front(names), limit)], Last(names), limit)
    BY ByLastName
  <2> QED
    BY <1>1, <2>1
<1>6. /\ OnlySpecial(f) => before = Reached(short, 0) /\ AllDirs(short)
      /\ before.how = "found" =>
             (before.path = short /\ AllDirs(short)) \/ UnderAny(short, policy.allowed)
  BY <1>3 DEF Agree
<1> SUFFICES /\ OnlySpecial(names) => meant = Reached(joined, 0) /\ AllDirs(joined)
             /\ meant.how = "found" =>
                    \/ meant.path = joined /\ AllDirs(joined)
                    \/ UnderAny(joined, policy.allowed)
  BY DEF Agree
<1> HIDE DEF before, meant, short, joined
<1>7. CASE x \in {"", "."}
  <2>1. joined = short /\ meant = before
    BY <1>4, <1>5, <1>7 DEF JoinedBy, Onward
  <2> QED
    BY <1>2, <1>6, <2>1
<1>8. CASE x = ".."
  <2>1. before = Reached(short, 0) /\ AllDirs(short)
    BY <1>2, <1>6, <1>8
  <2>2. joined = Parent(short)
    BY <1>4, <1>8 DEF JoinedBy
  <2>3. meant = Reached(Parent(short), 0)
    BY <1>5, <1>8, <2>1 DEF Onward, Reached
  <2>4. AllDirs(joined)
    BY <1>4, <2>1, <2>2, ShorterDirs
  <2> QED
    BY <2>2, <2>3, <2>4 DEF Reached
<1>9. CASE x \notin Special
  <2>1. ~OnlySpecial(names)
    BY <1>2, <1>9
  <2>2. joined = Append(short, x)
    BY <1>4, <1>9 DEF JoinedBy, Special
  <2>3. ASSUME meant.how = "found"
        PROVE  \/ meant.path = joined /\ AllDirs(joined)
               \/ UnderAny(joined, policy.allowed)
    <3>1. before.how = "found"
      BY <1>5, <2>3 DEF Onward
    <3>2. meant = LookUp(m, before, x, limit)
      BY <1>5, <1>9, <3>1 DEF Onward, Special
    <3>3. CASE UnderAny(short, policy.allowed)
      BY <1>4, <2>2, <3>3, UnderAppend
    <3>4. CASE before.path = short /\ AllDirs(short)
      <4>1. Node(joined) # Missing
        BY <2>2, <2>3, <3>2, <3>4 DEF LookUp, Fails
      <4>2. CASE Node(joined) = Dir
        <5>1. meant = Reached(joined, before.count)
          BY <2>2, <3>2, <3>4, <4>1, <4>2 DEF LookUp
        <5>2. AllDirs(joined)
          BY <1>4, <2>2, <3>4, <4>2, LongerDirs
        <5> QED
          BY <5>1, <5>2 DEF Reached
      <4>3. CASE Node(joined) # Dir
        <5>1. Node(joined) \in Links
          BY <4>1, <4>3, NodeType, NodeKinds
        <5>2. joined \in Slots /\ Reachable(policy, joined)
          BY <4>1, <5>1, VisibleNode
        <5> QED
          BY <5>2, SlotAssumption
      <4> QED
        BY <4>2, <4>3
    <3> QED
      BY <1>6, <3>1, <3>3, <3>4
  <2> QED
    BY <2>1, <2>3
<1> QED
  BY <1>7, <1>8, <1>9 DEF Special

\* What is joined to an unreachable place is not found by looking either.
LEMMA UnreachableIsNotFound ==
    ASSUME NEW m, tree \in [Slots -> Nodes], policy \in Policies, Lawful(m),
           NEW dir \in Seq(STRING), AllDirs(dir), NEW limit \in Nat,
           NEW names \in Seq(STRING), Straight(names), ~Reachable(policy, Joined(dir, names))
    PROVE  m[Query(dir, names, limit)].how # "found"
<1> DEFINE Bad == {c \in Seq(STRING) : Straight(c) /\ ~Agree(m, dir, c, limit)}
           Lengths == {Len(c) : c \in Bad}
<1>1. ASSUME Bad # {} PROVE FALSE
  <2>1. Bad \subseteq Seq(STRING)
    OBVIOUS
  <2>2. Lengths \subseteq Nat /\ Lengths # {}
    <3> HIDE DEF Bad
    <3>1. \A c \in Bad : Len(c) \in Nat
      BY <2>1
    <3> QED
      BY <1>1, <3>1
  <2>3. PICK l \in Lengths : \A k \in Lengths : l <= k
    BY <2>2, LeastNumber
  <2>4. PICK c \in Bad : Len(c) = l
    BY <2>3
  <2>5. c \in Seq(STRING) /\ Straight(c) /\ ~Agree(m, dir, c, limit)
    BY <2>4
  <2>6. CASE c = <<>>
    <3>1. Joined(dir, c) = dir
      BY <2>5, <2>6, JoinedIs
    <3>2. m[Query(dir, c, limit)] = Reached(dir, 0)
      BY <2>6, EmptyPath
    <3> QED
      BY <2>5, <3>1, <3>2 DEF Agree, Reached
  <2>7. CASE c # <<>>
    <3>1. Front(c) \in Seq(STRING) /\ Len(Front(c)) = Len(c) - 1 /\ Len(c) \in Nat
      BY <2>5, <2>7, FrontLast
    <3>2. Front(c) \notin Bad
      <4> SUFFICES ASSUME Front(c) \in Bad PROVE FALSE
        OBVIOUS
      <4>1. Len(Front(c)) \in Lengths
        OBVIOUS
      <4>2. l <= Len(Front(c))
        BY <2>3, <4>1
      <4> QED
        BY <2>4, <3>1, <4>2
    <3>3. Straight(Front(c)) => Agree(m, dir, Front(c), limit)
      BY <3>1, <3>2
    <3> QED
      BY <2>5, <2>7, <3>3, AgreeStep
  <2> QED
    BY <2>6, <2>7
<1>2. Agree(m, dir, names, limit)
  BY <1>1
<1>3. ASSUME m[Query(dir, names, limit)].how = "found" PROVE FALSE
  <2>1. CASE AllDirs(Joined(dir, names))
    <3>1. Node(Joined(dir, names)) # Missing
      BY <2>1 DEF AllDirs, Dir, Missing
    <3> QED
      BY <3>1, VisibleNode
  <2>2. CASE UnderAny(Joined(dir, names), policy.allowed)
    BY <2>2 DEF UnderAny, Reachable
  <2> QED
    BY <1>2, <1>3, <2>1, <2>2 DEF Agree
<1> QED
  BY <1>3


(***************************************************************************)
(* The walk                                                                *)
(***************************************************************************)

\* Two results that lead to the same end.
Same(r, s) == r.how = s.how /\ r.path = s.path

\* Links followed before make no difference to the end.
LEMMA AfterSame ==
    ASSUME NEW r, NEW n
    PROVE  Same(After(r, n), r)
BY DEF Same, After, Reached

\* A path means what the rest of it means from where its first name leads.
LEMMA ByFirstName ==
    ASSUME NEW m, tree \in [Slots -> Nodes], Lawful(m), NEW dir \in Seq(STRING),
           NEW path \in Seq(STRING), path # <<>>, NEW limit \in Nat
    PROVE  LET r == Onward(m, Reached(dir, 0), Head(path), limit) IN
           m[Query(dir, path, limit)] =
               IF r.how = "found"
               THEN After(m[Query(r.path, Tail(path), limit - r.count)], r.count) ELSE r
<1>1. Head(path) \in STRING /\ Tail(path) \in Seq(STRING)
  BY HeadTailProperties
<1>2. path = <<Head(path)>> \o Tail(path) /\ <<Head(path)>> \in Seq(STRING)
  BY <1>1
<1>3. PICK one \in Seq(STRING) : one = <<Head(path)>>
  BY <1>2
<1>4. one = Append(<<>>, Head(path)) /\ <<>> \in Seq(STRING) /\ one # <<>>
  BY <1>1, <1>3
<1>5. Front(one) = <<>> /\ Last(one) = Head(path)
  BY <1>1, <1>4, FrontOfAppend
<1>6. \A p \in Seq(STRING) : p # <<>> =>
          m[Query(dir, p, limit)] = Onward(m, m[Query(dir, Front(p), limit)], Last(p), limit)
  BY ByLastName
<1>7. m[Query(dir, <<>>, limit)] = Reached(dir, 0)
  BY EmptyPath
<1>8. m[Query(dir, one, limit)] = Onward(m, Reached(dir, 0), Head(path), limit)
  BY <1>4, <1>5, <1>6, <1>7
<1>9. \A a, b \in Seq(STRING) :
          LET r == m[Query(dir, a, limit)] IN
          m[Query(dir, a \o b, limit)] =
              IF r.how = "found"
              THEN After(m[Query(r.path, b, limit - r.count)], r.count) ELSE r
  BY InTwoParts
<1> QED
  BY <1>1, <1>2, <1>3, <1>8, <1>9

\* What a step of the walk does to a path keeps its meaning.
LEMMA StepMeans ==
    ASSUME NEW m, tree \in [Slots -> Nodes], Lawful(m), NEW dir \in Seq(STRING),
           NEW path \in Seq(STRING), path # <<>>, NEW limit \in Nat
    PROVE  LET name == Head(path)
               rest == Tail(path)
               next == Append(dir, name)
               meant == m[Query(dir, path, limit)]
           IN  /\ name \in {"", "."} => Same(meant, m[Query(dir, rest, limit)])
               /\ name = ".." => Same(meant, m[Query(Parent(dir), rest, limit)])
               /\ name \notin Special /\ Node(next) = Missing => meant.how = "missing"
               /\ name \notin Special /\ Node(next) = Dir => Same(meant, m[Query(next, rest, limit)])
               /\ name \notin Special /\ Node(next) \in Links /\ limit = 0 => meant.how = "loop"
<1> DEFINE name == Head(path)
           rest == Tail(path)
           next == Append(dir, name)
           meant == m[Query(dir, path, limit)]
           start0 == Reached(dir, 0)
           r == Onward(m, start0, name, limit)
<1>1. meant = IF r.how = "found" THEN After(m[Query(r.path, rest, limit - r.count)], r.count) ELSE r
  BY ByFirstName
<1>2. start0.how = "found" /\ start0.path = dir /\ start0.count = 0
  BY DEF Reached
<1> HIDE DEF start0
<1>3. limit - 0 = limit
  OBVIOUS
<1>4. ASSUME NEW to, r = Reached(to, 0) PROVE Same(meant, m[Query(to, rest, limit)])
  <2>1. r.how = "found" /\ r.path = to /\ r.count = 0
    BY <1>4 DEF Reached
  <2> HIDE DEF r
  <2>2. meant = After(m[Query(to, rest, limit)], 0)
    BY <1>1, <1>3, <2>1
  <2> QED
    BY <2>2, AfterSame
<1>5. ASSUME name \in {"", "."} PROVE Same(meant, m[Query(dir, rest, limit)])
  <2>1. r = Reached(dir, 0)
    BY <1>5 DEF Onward, start0
  <2> QED
    BY <1>4, <2>1
<1>6. ASSUME name = ".." PROVE Same(meant, m[Query(Parent(dir), rest, limit)])
  <2>1. r = Reached(Parent(dir), 0)
    BY <1>2, <1>6 DEF Onward
  <2> QED
    BY <1>4, <2>1
<1>7. ASSUME name \notin Special PROVE r = LookUp(m, start0, name, limit)
  BY <1>2, <1>7 DEF Onward, Special
<1>8. ASSUME name \notin Special, Node(next) = Missing PROVE meant.how = "missing"
  <2>1. r = Fails("missing")
    BY <1>2, <1>7, <1>8 DEF LookUp
  <2>2. r.how = "missing"
    BY <2>1 DEF Fails
  <2> HIDE DEF r
  <2> QED
    BY <1>1, <2>2
<1>9. ASSUME name \notin Special, Node(next) = Dir PROVE Same(meant, m[Query(next, rest, limit)])
  <2>1. Missing # Dir
    BY DEF Missing, Dir
  <2>2. r = Reached(next, 0)
    BY <1>2, <1>7, <1>9, <2>1 DEF LookUp
  <2> QED
    BY <1>4, <2>2
<1>10. ASSUME name \notin Special, Node(next) \in Links, limit = 0 PROVE meant.how = "loop"
  <2>1. Node(next) # Missing /\ Node(next) # Dir
    BY <1>10, NodeType, NodeKinds
  <2>2. r = Fails("loop")
    BY <1>2, <1>7, <1>10, <2>1 DEF LookUp
  <2>3. r.how = "loop"
    BY <2>2 DEF Fails
  <2> HIDE DEF r
  <2> QED
    BY <1>1, <2>3
<1> QED
  BY <1>5, <1>6, <1>8, <1>9, <1>10

\* To follow a link keeps the meaning of the path, with one link less to follow;
\* a path through a link that leads nowhere is not found.
LEMMA LinkMeans ==
    ASSUME NEW m, tree \in [Slots -> Nodes], Lawful(m), NEW dir \in Seq(STRING),
           NEW path \in Seq(STRING), path # <<>>, NEW limit \in Nat, limit > 0,
           Head(path) \notin Special, NEW link \in Links, Node(Append(dir, Head(path))) = link
    PROVE  LET from  == IF link.absolute THEN <<>> ELSE dir
               meant == m[Query(dir, path, limit)]
           IN  /\ Same(meant, m[Query(from, link.names \o Tail(path), limit - 1)])
               /\ m[Query(from, link.names, limit - 1)].how # "found" => meant.how # "found"
<1> DEFINE from == IF link.absolute THEN <<>> ELSE dir
           rest == Tail(path)
           meant == m[Query(dir, path, limit)]
           start0 == Reached(dir, 0)
           r == Onward(m, start0, Head(path), limit)
           inner == m[Query(from, link.names, limit - 1)]
           whole == m[Query(from, link.names \o rest, limit - 1)]
<1>1. meant = IF r.how = "found" THEN After(m[Query(r.path, rest, limit - r.count)], r.count) ELSE r
  BY ByFirstName
<1>2. start0.how = "found" /\ start0.path = dir /\ start0.count = 0
  BY DEF Reached
<1> HIDE DEF start0
<1>3. link # Missing /\ link # Dir
  BY NodeKinds DEF Nodes
<1>4. limit - 1 \in Nat /\ limit - 0 - 1 = limit - 1 /\ 0 + 1 = 1 /\ ~(0 >= limit)
  OBVIOUS
<1>5. r = LookUp(m, start0, Head(path), limit)
  BY <1>2 DEF Onward, Special
<1>6. r = After(inner, 1)
  BY <1>2, <1>3, <1>4, <1>5 DEF LookUp
<1>7. from \in Seq(STRING) /\ link.names \in Seq(STRING) /\ rest \in Seq(STRING)
  <2>1. CASE link.absolute
    BY <2>1, LinkType, HeadTailProperties
  <2>2. CASE ~link.absolute
    BY <2>2, LinkType, HeadTailProperties
  <2> QED
    BY <2>1, <2>2
<1> HIDE DEF from, r, rest
<1>8. inner \in Results /\ inner.path \in Seq(STRING) /\ inner.count \in Nat
  BY <1>4, <1>7, ResultType
<1>9. whole = IF inner.how = "found"
              THEN After(m[Query(inner.path, rest, limit - 1 - inner.count)], inner.count) ELSE inner
  BY <1>4, <1>7, InTwoParts
<1> HIDE DEF inner, whole
<1>10. CASE inner.how = "found"
  <2> DEFINE last == m[Query(inner.path, rest, limit - 1 - inner.count)]
  <2>1. r = Reached(inner.path, 1 + inner.count)
    BY <1>6, <1>10 DEF After
  <2>2. r.how = "found" /\ r.path = inner.path /\ r.count = 1 + inner.count
    BY <2>1 DEF Reached
  <2>3. limit - r.count = limit - 1 - inner.count
    BY <1>8, <2>2
  <2>4. meant = After(last, r.count) /\ whole = After(last, inner.count)
    BY <1>1, <1>9, <1>10, <2>2, <2>3
  <2> HIDE DEF last
  <2>5. Same(meant, last) /\ Same(whole, last)
    BY <2>4, AfterSame
  <2> QED
    BY <1>10, <2>5 DEF Same, from, inner, whole, rest
<1>11. CASE inner.how # "found"
  <2>1. r = inner /\ whole = inner
    BY <1>6, <1>9, <1>11 DEF After
  <2>2. meant = inner
    BY <1>1, <1>11, <2>1
  <2> QED
    BY <1>11, <2>1, <2>2 DEF Same, from, inner, whole, rest
<1> QED
  BY <1>10, <1>11

(***************************************************************************)
(* The invariant                                                           *)
(***************************************************************************)

\* By the meanings m: what is left of the walk means what the whole path means,
\* and the walk ends accordingly.
Follows(m) ==
    LET meant == m[Query(<<>>, start, MaxSymlinks)] IN
    /\ pc = "walk" => Same(meant, m[Query(cur, pending, MaxSymlinks - links)])
    /\ pc = "readlink" => Same(meant, m[Query(cur, pending, MaxSymlinks - links + 1)])
    /\ outcome = "found" => meant.how = "found" /\ meant.path = cur
    /\ outcome \in {"missing", "loop"} => meant.how = outcome
    /\ outcome = "refused" => \/ meant.how # "found"
                              \/ ~HostPathAllowed(policy, meant.path)
                              \/ \E slot \in Slots : Detours(tree[slot])

\* A link that is to be read has been counted.
AtLink ==
    /\ links > 0
    /\ Head(pending) \notin Special
    /\ Node(NextPath) \in Links

\* While nothing has changed: the walk stands on directories alone, and follows
\* every meaning.
WalkInv ==
    ~changed =>
        /\ outcome # "error"
        /\ AllDirs(<<>>)
        /\ pc \in {"walk", "readlink"} => AllDirs(cur)
        /\ pc = "readlink" => AtLink
        /\ \A m : Lawful(m) => Follows(m)

\* Links are followed in a tree; in the same tree there are the same meanings.
LEMMA SameTree ==
    ASSUME UNCHANGED <<policy, tree>>
    PROVE  /\ \A path : Node(path)' = Node(path)
           /\ \A path : AllDirs(path)' <=> AllDirs(path)
           /\ \A m : Lawful(m)' <=> Lawful(m)
<1>1. ASSUME NEW path PROVE Node(path)' = Node(path)
  BY DEF Node, Visible, Reachable
<1>2. ASSUME NEW path PROVE AllDirs(path)' <=> AllDirs(path)
  BY <1>1 DEF AllDirs
<1>3. ASSUME NEW m PROVE Lawful(m)' <=> Lawful(m)
  <2>1. ASSUME NEW before, NEW name, NEW limit
        PROVE  LookUp(m, before, name, limit)' = LookUp(m, before, name, limit)
    BY <1>1 DEF LookUp
  <2>2. ASSUME NEW before, NEW name, NEW limit
        PROVE  Onward(m, before, name, limit)' = Onward(m, before, name, limit)
    BY <2>1 DEF Onward
  <2>3. ASSUME NEW q PROVE Meant(m, q)' = Meant(m, q)
    BY <2>2 DEF Meant
  <2> QED
    BY <2>3 DEF Lawful
<1> QED
  BY <1>1, <1>2, <1>3

\* A step of the walk keeps the invariant if it keeps these.
LEMMA InvStep ==
    ASSUME WalkInv, ~changed, UNCHANGED Fixed,
           outcome' # "error",
           pc' \in {"walk", "readlink"} => AllDirs(cur'),
           pc' = "readlink" => AtLink',
           \A m : Lawful(m) /\ Follows(m) => Follows(m)'
    PROVE  WalkInv'
<1>1. UNCHANGED <<policy, tree>> /\ ~changed'
  BY DEF Fixed
<1>2. AllDirs(<<>>)'
  BY <1>1, SameTree DEF WalkInv
<1>3. \A m : Lawful(m)' => Follows(m)'
  BY <1>1, SameTree DEF WalkInv
<1>4. AllDirs(cur)' <=> AllDirs(cur')
  BY <1>1, SameTree DEF AllDirs, StrictPrefixes
<1> QED
  BY <1>2, <1>3, <1>4 DEF WalkInv

\* While nothing changes, the walk sees what is there.
LEMMA AtName ==
    ASSUME TypeOK, WalkInv, ~changed, pc \in {"walk", "readlink"}, pending # <<>>
    PROVE  /\ Head(pending) \in STRING /\ Tail(pending) \in Seq(STRING)
           /\ cur \in Seq(STRING) /\ pending \in Seq(STRING) /\ AllDirs(cur)
           /\ tree \in [Slots -> Nodes] /\ policy \in Policies
           /\ MaxSymlinks - links \in Nat /\ links \in Nat
           /\ Sees(NextPath) = {Node(NextPath)}
<1>1. Head(pending) \in STRING /\ Tail(pending) \in Seq(STRING)
  BY RestType
<1>2. cur \in Seq(STRING) /\ pending \in Seq(STRING) /\ tree \in [Slots -> Nodes] /\ policy \in Policies
  BY DEF TypeOK
<1>3. AllDirs(cur)
  BY DEF WalkInv
<1>4. MaxSymlinks - links \in Nat /\ links \in Nat
  BY LimitAssumption DEF TypeOK
<1>5. Sees(NextPath) = {Node(NextPath)}
  BY <1>1, <1>2, <1>3, SeesNode DEF NextPath
<1> QED
  BY <1>1, <1>2, <1>3, <1>4, <1>5

\* The walk begins at the root, with all of the path before it.
LEMMA WalkInit == Init => WalkInv
<1> SUFFICES ASSUME Init PROVE WalkInv
  OBVIOUS
<1>1. PICK dir \in policy.allowed : Under(start, dir)
  BY DEF Init, HostPathAllowed, UnderAny
<1>2. dir \in Seq(STRING)
  BY <1>1, PolicyAssumption DEF Init
<1>3. Under(dir, <<>>)
  BY <1>2 DEF Under, IsPrefix
<1>4. <<>> \notin Slots
  BY SlotAssumption
<1>5. Node(<<>>) = Dir
  BY <1>1, <1>3, <1>4 DEF Node, Visible, Reachable
<1>6. StrictPrefixes(<<>>) = {}
  BY DEF StrictPrefixes
<1>7. AllDirs(<<>>)
  BY <1>5, <1>6 DEF AllDirs
<1>8. MaxSymlinks - 0 = MaxSymlinks
  BY LimitAssumption
<1>9. ASSUME NEW m PROVE Follows(m)
  BY <1>8 DEF Init, Follows, Same
<1> QED
  BY <1>7, <1>9 DEF Init, WalkInv

\* Steps of the walk over a name that is no link.
LEMMA WalkOn ==
    ASSUME TypeOK, WalkInv, ~changed, Stay \/ Up \/ LstatDir
    PROVE  WalkInv'
<1>1. pc = "walk" /\ pending # <<>> /\ UNCHANGED Fixed /\ UNCHANGED <<pc, links, outcome>>
      /\ pending' = Tail(pending)
  BY DEF Stay, Up, LstatDir, Named, Walking
<1>2. /\ Head(pending) \in STRING /\ cur \in Seq(STRING) /\ pending \in Seq(STRING) /\ AllDirs(cur)
      /\ tree \in [Slots -> Nodes] /\ MaxSymlinks - links \in Nat
      /\ Sees(NextPath) = {Node(NextPath)}
  BY <1>1, AtName
<1>3. outcome = "none"
  BY <1>1 DEF TypeOK
<1> DEFINE limit == MaxSymlinks - links
<1> HIDE DEF limit
<1>4. ASSUME NEW m, Lawful(m) 
      PROVE  LET meant == m[Query(cur, pending, limit)] IN
             /\ Head(pending) \in {"", "."} => Same(meant, m[Query(cur, Tail(pending), limit)])
             /\ Head(pending) = ".." => Same(meant, m[Query(Parent(cur), Tail(pending), limit)])
             /\ Head(pending) \notin Special /\ Node(NextPath) = Dir =>
                    Same(meant, m[Query(NextPath, Tail(pending), limit)])
  <2>1. limit \in Nat
    BY <1>2 DEF limit
  <2> QED
    BY <1>1, <1>2, <1>4, <2>1, StepMeans DEF NextPath
<1>5. /\ AllDirs(cur')
      /\ \A m : Lawful(m) => Same(m[Query(cur, pending, limit)], m[Query(cur', pending', limit)])
  <2>1. CASE Stay
    BY <1>1, <1>2, <1>4, <2>1 DEF Stay
  <2>2. CASE Up
    <3>1. AllDirs(Parent(cur))
      BY <1>2, ShorterDirs
    <3> QED
      BY <1>1, <1>4, <2>2, <3>1 DEF Up
  <2>3. CASE LstatDir
    <3>1. Head(pending) \notin Special /\ Node(NextPath) = Dir /\ cur' = NextPath
      BY <1>2, <2>3 DEF LstatDir, Named, Special
    <3>2. AllDirs(NextPath)
      BY <1>2, <3>1, LongerDirs DEF NextPath
    <3> QED
      BY <1>1, <1>4, <3>1, <3>2
  <2> QED
    BY <2>1, <2>2, <2>3
<1>6. ASSUME NEW m, Lawful(m), Follows(m) PROVE Follows(m)'
  <2> DEFINE meant == m[Query(<<>>, start, MaxSymlinks)]
  <2>1. Same(meant, m[Query(cur, pending, limit)])
    BY <1>1, <1>6 DEF Follows, limit
  <2>2. Same(meant, m[Query(cur', pending', limit)])
    BY <1>5, <1>6, <2>1 DEF Same
  <2> QED
    BY <1>1, <1>3, <2>2 DEF Follows, Fixed, limit
<1> QED
  BY <1>1, <1>3, <1>5, <1>6, InvStep

\* Steps that end the walk at a name: nothing there, or a link too many.
LEMMA GivesUp ==
    ASSUME TypeOK, WalkInv, ~changed, LstatFails \/ TooManyLinks
    PROVE  WalkInv'
<1>1. PICK how \in {"missing", "loop"} : Ends(how) /\ (how = "missing" <=> LstatFails)
  <2>1. ~(LstatFails /\ TooManyLinks)
    BY DEF LstatFails, TooManyLinks, Ends
  <2> QED
    BY <2>1 DEF LstatFails, TooManyLinks
<1>2. pc = "walk" /\ pending # <<>> /\ UNCHANGED Fixed /\ Head(pending) \notin Special
  BY <1>1 DEF LstatFails, TooManyLinks, SeesLink, Named, Walking, Special, Ends
<1>3. /\ cur \in Seq(STRING) /\ pending \in Seq(STRING) /\ tree \in [Slots -> Nodes]
      /\ MaxSymlinks - links \in Nat /\ Sees(NextPath) = {Node(NextPath)}
  BY <1>2, AtName
<1> DEFINE limit == MaxSymlinks - links
<1>4. limit \in Nat
  BY <1>3
<1>5. how = "missing" => Node(NextPath) = Missing
  BY <1>1, <1>3 DEF LstatFails
<1>6. how = "loop" => Node(NextPath) \in Links /\ limit = 0
  <2>1. ASSUME how = "loop" PROVE SeesLink /\ links + 1 > MaxSymlinks
    BY <1>1, <2>1 DEF TooManyLinks
  <2>2. links + 1 > MaxSymlinks => limit = 0
    BY <1>4, LimitAssumption DEF TypeOK
  <2> QED
    BY <1>3, <2>1, <2>2 DEF SeesLink
<1> HIDE DEF limit
<1>7. ASSUME NEW m, Lawful(m), Follows(m) PROVE Follows(m)'
  <2> DEFINE meant == m[Query(<<>>, start, MaxSymlinks)]
  <2>1. Same(meant, m[Query(cur, pending, limit)])
    BY <1>2, <1>7 DEF Follows, limit
  <2>2. m[Query(cur, pending, limit)].how = how
    BY <1>2, <1>3, <1>4, <1>5, <1>6, <1>7, StepMeans DEF NextPath
  <2>3. meant.how = how
    BY <2>1, <2>2 DEF Same
  <2> QED
    BY <1>1, <2>3 DEF Follows, Fixed, Ends
<1>8. outcome' = how /\ pc' = "done"
  BY <1>1 DEF Ends
<1> QED
  BY <1>2, <1>7, <1>8, InvStep

\* A link is counted before it is read.
LEMMA CountsLink ==
    ASSUME TypeOK, WalkInv, ~changed, LstatLink
    PROVE  WalkInv'
<1>1. /\ pc = "walk" /\ pending # <<>> /\ Head(pending) \notin Special /\ links' = links + 1
      /\ pc' = "readlink" /\ UNCHANGED Fixed /\ UNCHANGED <<cur, pending, outcome>>
  BY DEF LstatLink, SeesLink, Named, Walking, Special
<1>2. AllDirs(cur) /\ links \in Nat /\ Sees(NextPath) = {Node(NextPath)}
  BY <1>1, AtName
<1>3. Node(NextPath) \in Links
  BY <1>2 DEF LstatLink, SeesLink
<1>4. outcome = "none"
  BY <1>1 DEF TypeOK
<1>5. Node(NextPath)' = Node(NextPath)
  BY <1>1 DEF Node, NextPath, Visible, Reachable, Fixed
<1>6. AtLink'
  <2>1. links' > 0
    BY <1>1, <1>2
  <2>2. Head(pending)' \notin Special /\ Links' = Links
    BY <1>1 DEF Special, Links
  <2> QED
    BY <1>3, <1>5, <2>1, <2>2 DEF AtLink
<1>7. ASSUME NEW m, Lawful(m), Follows(m) PROVE Follows(m)'
  <2> DEFINE meant == m[Query(<<>>, start, MaxSymlinks)]
  <2>1. MaxSymlinks - links = MaxSymlinks - links' + 1
    BY <1>1, <1>2, LimitAssumption
  <2>2. Same(meant, m[Query(cur, pending, MaxSymlinks - links)])
    BY <1>1, <1>7 DEF Follows
  <2>3. Same(meant, m[Query(cur', pending', MaxSymlinks - links' + 1)])
    BY <1>1, <2>1, <2>2
  <2> QED
    BY <1>1, <1>4, <2>3 DEF Follows, Fixed
<1> QED
  BY <1>1, <1>2, <1>4, <1>6, <1>7, InvStep

\* While nothing changes, reading a link finds the link that was seen; its
\* target takes its place in the path.
LEMMA ReadsLink ==
    ASSUME TypeOK, WalkInv, ~changed, ReadlinkFails \/ LinkLeaves \/ FollowLink
    PROVE  WalkInv'
<1>1. pc = "readlink" /\ pending # <<>> /\ UNCHANGED Fixed
  BY DEF TypeOK, ReadlinkFails, LinkLeaves, FollowLink, Ends
<1>2. /\ Head(pending) \in STRING /\ Tail(pending) \in Seq(STRING) /\ cur \in Seq(STRING)
      /\ pending \in Seq(STRING) /\ AllDirs(cur) /\ tree \in [Slots -> Nodes] /\ policy \in Policies
      /\ MaxSymlinks - links \in Nat /\ links \in Nat /\ Sees(NextPath) = {Node(NextPath)}
  BY <1>1, AtName
<1>3. AtLink /\ outcome = "none" /\ AllDirs(<<>>)
  BY <1>1 DEF WalkInv, TypeOK
<1> DEFINE link == Node(NextPath)
           limit == MaxSymlinks - links + 1
<1>4. link \in Links /\ link # Missing /\ link # Dir /\ Sees(NextPath) \cap Links = {link}
  BY <1>2, <1>3, NodeType, NodeKinds DEF AtLink
<1>5. limit \in Nat /\ limit > 0 /\ limit - 1 = MaxSymlinks - links /\ limit - 1 \in Nat
  BY <1>2, LimitAssumption
<1>6. ~ReadlinkFails
  BY <1>2, <1>4 DEF ReadlinkFails
<1>7. NextPath \in Slots /\ link = tree[NextPath]
  BY <1>2, <1>4, VisibleNode
<1>8. link.names \in Seq(STRING)
  BY <1>4, LinkType
<1>9. From(link) \in Seq(STRING) /\ AllDirs(From(link))
  <2>1. CASE link.absolute
    BY <1>3, <2>1 DEF From
  <2>2. CASE ~link.absolute
    BY <1>2, <2>2 DEF From
  <2> QED
    BY <2>1, <2>2
<1> HIDE DEF limit, link
<1>10. ASSUME NEW m, Lawful(m)
       PROVE  LET here == m[Query(cur, pending, limit)] IN
              /\ Same(here, m[Query(From(link), link.names \o Tail(pending), limit - 1)])
              /\ m[Query(From(link), link.names, limit - 1)].how # "found" => here.how # "found"
  <2>1. Head(pending) \notin Special /\ Node(Append(cur, Head(pending))) = link
    BY <1>3 DEF AtLink, link, NextPath
  <2>2. \A one \in Links : Node(Append(cur, Head(pending))) = one =>
            LET from == IF one.absolute THEN <<>> ELSE cur
                here == m[Query(cur, pending, limit)]
            IN  /\ Same(here, m[Query(from, one.names \o Tail(pending), limit - 1)])
                /\ m[Query(from, one.names, limit - 1)].how # "found" => here.how # "found"
    BY <1>1, <1>2, <1>5, <1>10, <2>1, LinkMeans
  <2> QED
    BY <1>4, <2>1, <2>2 DEF From
<1>11. CASE FollowLink
  <2>1. cur' = From(link) /\ pending' = link.names \o Tail(pending) /\ pc' = "walk" /\ UNCHANGED <<links, outcome>>
    BY <1>4, <1>11 DEF FollowLink
  <2>2. ASSUME NEW m, Lawful(m), Follows(m) PROVE Follows(m)'
    <3> DEFINE meant == m[Query(<<>>, start, MaxSymlinks)]
    <3>1. Same(meant, m[Query(cur, pending, limit)])
      BY <1>1, <2>2 DEF Follows, limit
    <3>2. Same(meant, m[Query(cur', pending', limit - 1)])
      BY <1>10, <2>1, <2>2, <3>1 DEF Same
    <3>3. Same(meant, m[Query(cur', pending', MaxSymlinks - links')])
      BY <1>5, <2>1, <3>2
    <3> QED
      BY <1>1, <1>3, <2>1, <3>3 DEF Follows, Fixed
  <2> QED
    BY <1>1, <1>3, <1>9, <2>1, <2>2, InvStep
<1>12. CASE LinkLeaves
  <2>1. ~Reachable(policy, Joined(From(link), link.names)) /\ Ends("refused")
    BY <1>4, <1>12 DEF LinkLeaves
  <2>2. ASSUME NEW m, Lawful(m), Follows(m) PROVE Follows(m)'
    <3> DEFINE meant == m[Query(<<>>, start, MaxSymlinks)]
    <3>1. Same(meant, m[Query(cur, pending, limit)])
      BY <1>1, <2>2 DEF Follows, limit
    <3>2. CASE Detours(link)
      <4>1. \E slot \in Slots : Detours(tree[slot])
        BY <1>7, <3>2
      <4>2. tree' = tree /\ outcome' = "refused" /\ pc' = "done"
        BY <1>1, <2>1 DEF Fixed, Ends
      <4>3. (\E slot \in Slots : Detours(tree[slot]))'
        BY <4>1, <4>2 DEF Detours, Links
      <4> QED
        BY <4>2, <4>3 DEF Follows
    <3>3. CASE ~Detours(link)
      <4>1. Straight(link.names)
        BY <1>4, <3>3 DEF Detours, Straight, Special
      <4>2. \A names \in Seq(STRING), dir \in Seq(STRING) :
                AllDirs(dir) /\ Straight(names) /\ ~Reachable(policy, Joined(dir, names)) =>
                    m[Query(dir, names, limit - 1)].how # "found"
        BY <1>2, <1>5, <2>2, UnreachableIsNotFound
      <4>3. m[Query(From(link), link.names, limit - 1)].how # "found"
        BY <1>8, <1>9, <2>1, <4>1, <4>2
      <4>4. meant.how # "found"
        BY <1>10, <2>2, <3>1, <4>3 DEF Same
      <4> QED
        BY <2>1, <4>4 DEF Follows, Fixed, Ends
    <3> QED
      BY <3>2, <3>3
  <2> QED
    BY <1>1, <2>1, <2>2, InvStep DEF Ends
<1> QED
  BY <1>6, <1>11, <1>12

\* At the end of the path the walk stands at what it means.
LEMMA Arrives ==
    ASSUME TypeOK, WalkInv, ~changed, FinallyRefused \/ Resolved
    PROVE  WalkInv'
<1>1. /\ pc = "walk" /\ pending = <<>> /\ UNCHANGED Fixed /\ cur' = cur /\ pc' \in {"open", "done"}
      /\ \/ outcome' = "found"
         \/ outcome' = "refused" /\ ~HostPathAllowed(policy, cur)
  BY DEF FinallyRefused, Resolved, Arrived, Ends
<1>2. cur \in Seq(STRING) /\ MaxSymlinks - links \in Nat
  BY LimitAssumption DEF TypeOK
<1>3. ASSUME NEW m, Lawful(m), Follows(m) PROVE Follows(m)'
  <2> DEFINE meant == m[Query(<<>>, start, MaxSymlinks)]
             limit == MaxSymlinks - links
  <2>1. limit \in Nat /\ Same(meant, m[Query(cur, <<>>, limit)])
    BY <1>1, <1>2, <1>3 DEF Follows
  <2> HIDE DEF limit
  <2>2. m[Query(cur, <<>>, limit)] = Reached(cur, 0)
    BY <1>2, <1>3, <2>1, EmptyPath
  <2>3. meant.how = "found" /\ meant.path = cur
    BY <2>1, <2>2 DEF Same, Reached
  <2> QED
    BY <1>1, <2>3 DEF Follows, Fixed, HostPathAllowed
<1> QED
  BY <1>1, <1>3, InvStep

\* The walk follows every meaning of its path until something changes.
LEMMA WalkStep == TypeOK /\ WalkInv /\ [Next]_vars => WalkInv'
<1> SUFFICES ASSUME TypeOK, WalkInv, [Next]_vars PROVE WalkInv'
  OBVIOUS
<1>1. CASE \E slot \in Slots : Change(slot)
  BY <1>1 DEF Change, WalkInv
<1>2. CASE changed /\ UNCHANGED Fixed
  BY <1>2 DEF WalkInv, Fixed
<1>3. CASE ~changed /\ Step
  <2>1. CASE Stay \/ Up \/ LstatDir
    BY <1>3, <2>1, WalkOn
  <2>2. CASE LstatFails \/ TooManyLinks
    BY <1>3, <2>2, GivesUp
  <2>3. CASE LstatLink
    BY <1>3, <2>3, CountsLink
  <2>4. CASE ReadlinkFails \/ LinkLeaves \/ FollowLink
    BY <1>3, <2>4, ReadsLink
  <2>5. CASE FinallyRefused \/ Resolved
    BY <1>3, <2>5, Arrives
  <2>6. CASE Open \/ OpenFails
    <3>1. pc' = "done" /\ UNCHANGED Fixed /\ UNCHANGED <<cur, outcome>> /\ pc = "open"
      BY <2>6 DEF Open, OpenFails
    <3>2. outcome' # "error"
      BY <1>3, <3>1 DEF WalkInv
    <3>3. ASSUME NEW m, Follows(m) PROVE Follows(m)'
      BY <3>1, <3>3 DEF Follows, Fixed, HostPathAllowed, Detours, Links
    <3> QED
      BY <1>3, <3>1, <3>2, <3>3, InvStep
  <2> QED
    BY <1>3, <2>1, <2>2, <2>3, <2>4, <2>5, <2>6 DEF Step
<1>4. CASE ~changed /\ UNCHANGED vars
  <2>1. UNCHANGED Fixed /\ UNCHANGED <<pc, cur, pending, links, outcome>>
    BY <1>4 DEF vars, Fixed
  <2>2. ASSUME NEW m, Follows(m) PROVE Follows(m)'
    BY <2>1, <2>2 DEF Follows, Fixed, HostPathAllowed, Detours, Links, Same, Query
  <2>3. AtLink => AtLink'
    BY <2>1 DEF AtLink, NextPath, Node, Visible, Reachable, Fixed, Links, Special
  <2>4. /\ outcome' # "error"
        /\ pc' \in {"walk", "readlink"} => AllDirs(cur')
        /\ pc' = "readlink" => AtLink'
    BY <1>4, <2>1, <2>3 DEF WalkInv
  <2> QED
    BY <1>4, <2>1, <2>2, <2>4, InvStep
<1>5. Step => UNCHANGED Fixed
  BY DEF Step, Stay, Up, LstatFails, LstatDir, TooManyLinks, LstatLink, ReadlinkFails, LinkLeaves,
         FollowLink, FinallyRefused, Resolved, Open, OpenFails, Ends
<1>6. UNCHANGED vars => UNCHANGED Fixed
  BY DEF vars, Fixed
<1> QED
  BY <1>1, <1>2, <1>3, <1>4, <1>5, <1>6 DEF Next

\* As long as nothing changes under it, the walk of RealPath finds the directory
\* its path means, gives up on loops, misses what is missing, and refuses only
\* what is not allowed or not to be seen, or a link that goes up after a name:
\* with any number of links, wherever they point (resolve.go:313-369).
THEOREM WalkFindsWhatIsMeant == Spec => []FindsWhatIsMeant
<1>1. TypeOK /\ WalkInv => FindsWhatIsMeant
  <2> SUFFICES ASSUME TypeOK, WalkInv, ~changed, outcome # "none" PROVE FindsWhatIsMeant
    BY DEF FindsWhatIsMeant
  <2>1. Lawful(Meaning)
    BY MeaningIsLawful DEF TypeOK
  <2>2. outcome # "error" /\ Follows(Meaning)
    BY <2>1 DEF WalkInv
  <2>3. outcome \in {"found", "missing", "loop", "refused"}
    BY <2>2 DEF TypeOK
  <2> QED
    BY <2>2, <2>3 DEF Follows, FindsWhatIsMeant
<1> QED
  BY <1>1, WalkInit, WalkStep, TypeCorrect, PTL DEF Spec

==============================================================================
