---------------------------- MODULE RoutesProofs ----------------------------
(***************************************************************************)
(* Theorems about Routes, for every set of routers and every network: the *)
(* rounds of Dijkstra find the distances of the database, the way back     *)
(* from a node ends at a neighbour, and so a router that has heard of all  *)
(* the others has the shortest routes, whatever order it heard them in.    *)
(***************************************************************************)
EXTENDS Routes, ListsProofs

-----------------------------------------------------------------------------
\* The rounds of Dijkstra.

LEMMA NearestIsNearest ==
    ASSUME NEW n \in Nat, NEW dist \in [1..n -> Nat], NEW I \in SUBSET (1..n), I # {}
    PROVE  Nearest(dist, I) \in I /\ \A j \in I : dist[Nearest(dist, I)] <= dist[j]
<1> DEFINE First(i) == \A j \in I : dist[i] < dist[j] \/ (dist[i] = dist[j] /\ i <= j)
           Best == {dist[i] : i \in I}
<1>1. Best \subseteq Nat /\ Best # {}
  OBVIOUS
<1>2. PICK b \in Best : \A c \in Best : b <= c
  BY <1>1, LeastNumber
<1> DEFINE Bests == {i \in I : dist[i] = b}
<1>3. Bests \subseteq Nat /\ Bests # {}
  <2>1. PICK i \in I : dist[i] = b
    BY <1>2
  <2>2. Bests # {}
    BY <2>1
  <2>3. Bests \subseteq Nat
    <3>1. Bests \subseteq I
      OBVIOUS
    <3>2. I \subseteq Nat
      OBVIOUS
    <3> HIDE DEF Bests
    <3>3. QED
      BY <3>1, <3>2
  <2>4. QED
    BY <2>2, <2>3
<1>4. PICK i \in Bests : \A j \in Bests : i <= j
  BY <1>3, LeastNumber
<1>5. i \in I /\ First(i)
  <2>1. ASSUME NEW j \in I
        PROVE  dist[i] < dist[j] \/ (dist[i] = dist[j] /\ i <= j)
    <3>1. dist[i] = b /\ b <= dist[j] /\ dist[j] \in Nat /\ dist[i] \in Nat
      BY <1>2, <1>4
    <3>2. CASE dist[j] = b
      BY <3>1, <3>2, <1>4
    <3>3. CASE dist[j] # b
      BY <3>1, <3>3
    <3>4. QED
      BY <3>2, <3>3
  <2>2. QED
    BY <2>1
<1>6. Nearest(dist, I) \in I /\ First(Nearest(dist, I))
  BY <1>5 DEF Nearest
<1>7. \A j \in I : dist[Nearest(dist, I)] \in Nat /\ dist[j] \in Nat
  BY <1>6
<1>8. QED
  BY <1>6, <1>7

Searches(n) == [visited : SUBSET (1..n), dist : [1..n -> 0..n], prev : [1..n -> 0..n]]

Adjacent(ns, edges, i, j) == {ns[i], ns[j]} \in edges

\* A node has the distance of its predecessor and one more, over an edge.
DistancesAreWalked(ns, edges, st) ==
    LET n == Len(ns)
    IN  /\ st.dist[1] = 0
        /\ \A i \in 2..n : st.dist[i] >= 1
        /\ \A i \in 2..n : st.dist[i] < n =>
              /\ st.prev[i] \in st.visited
              /\ Adjacent(ns, edges, st.prev[i], i)
              /\ st.dist[i] = st.dist[st.prev[i]] + 1

\* What is next to a visited node has been found, by no more than one step from it.
VisitedIsRelaxed(ns, edges, st) ==
    \A u \in st.visited, v \in 1..Len(ns) :
        Adjacent(ns, edges, u, v) => st.dist[v] <= st.dist[u] + 1 /\ st.dist[v] < Len(ns)

\* Nodes are visited by growing distance.
NearestFirst(ns, st) ==
    \A u \in st.visited : /\ st.dist[u] < Len(ns)
                          /\ \A v \in (1..Len(ns)) \ st.visited : st.dist[u] <= st.dist[v]

\* After k rounds k nodes have been visited, and none that was found is farther than k;
\* or there is none left.
RoundsCount(ns, st, k) ==
    /\ \A v \in 1..Len(ns) : st.dist[v] < Len(ns) => st.dist[v] <= k
    /\ \/ \A v \in (1..Len(ns)) \ st.visited : st.dist[v] = Len(ns)
       \/ Cardinality(st.visited) = k

SearchInv(ns, edges, st, k) ==
    /\ st \in Searches(Len(ns))
    /\ DistancesAreWalked(ns, edges, st)
    /\ VisitedIsRelaxed(ns, edges, st)
    /\ NearestFirst(ns, st)
    /\ RoundsCount(ns, st, k)

LEMMA SearchStarts ==
    ASSUME NEW X, NEW ns \in Seq(X), Len(ns) >= 1, NEW edges
    PROVE  SearchInv(ns, edges, Unvisited(ns), 0)
<1> DEFINE st == Unvisited(ns)
           n == Len(ns)
<1>1. n \in Nat \ {0}
  OBVIOUS
<1>2. /\ st.visited = {}
      /\ st.dist = [i \in 1..n |-> IF i = 1 THEN 0 ELSE n]
      /\ st.prev = [i \in 1..n |-> 0]
      /\ st \in Searches(n)
  BY <1>1 DEF Unvisited, Searches
<1>3. /\ st.dist[1] = 0
      /\ \A i \in 2..n : st.dist[i] = n
  BY <1>1, <1>2
<1> HIDE DEF st
<1>4. DistancesAreWalked(ns, edges, st)
  BY <1>1, <1>3 DEF DistancesAreWalked
<1>5. VisitedIsRelaxed(ns, edges, st) /\ NearestFirst(ns, st)
  BY <1>2 DEF VisitedIsRelaxed, NearestFirst
<1>6. RoundsCount(ns, st, 0)
  <2>1. \A v \in 1..n : v = 1 \/ v \in 2..n
    BY <1>1
  <2>2. Cardinality(st.visited) = 0
    BY <1>2, FS_EmptySet
  <2>3. QED
    BY <1>1, <1>3, <2>1, <2>2 DEF RoundsCount
<1>7. QED
  BY <1>2, <1>4, <1>5, <1>6 DEF SearchInv, st

LEMMA SearchGoesOn ==
    ASSUME NEW X, NEW ns \in Seq(X), Len(ns) >= 1, NEW edges, NEW st, NEW k \in Nat,
           SearchInv(ns, edges, st, k)
    PROVE  SearchInv(ns, edges, Visit(ns, edges, st), k + 1)
<1> DEFINE n == Len(ns)
           Open == {i \in (1..n) \ st.visited : st.dist[i] < n}
           u == Nearest(st.dist, Open)
           Closer == {v \in (1..n) \ (st.visited \cup {u}) :
                         {ns[u], ns[v]} \in edges /\ st.dist[v] > st.dist[u] + 1}
           next == [visited |-> st.visited \cup {u},
                    dist |-> [v \in 1..n |-> IF v \in Closer THEN st.dist[u] + 1 ELSE st.dist[v]],
                    prev |-> [v \in 1..n |-> IF v \in Closer THEN u ELSE st.prev[v]]]
<1>1. n \in Nat \ {0}
  OBVIOUS
<1>2. /\ st.visited \in SUBSET (1..n) /\ st.dist \in [1..n -> 0..n] /\ st.prev \in [1..n -> 0..n]
      /\ st \in Searches(n)
  BY DEF SearchInv, Searches
<1>3. \A i \in 1..n : st.dist[i] \in Nat /\ st.dist[i] <= n
  BY <1>1, <1>2
<1>4. CASE Open = {}
  <2>1. Visit(ns, edges, st) = st
    BY <1>4 DEF Visit
  <2>2. \A v \in (1..n) \ st.visited : st.dist[v] = n
    BY <1>1, <1>3, <1>4
  <2>3. RoundsCount(ns, st, k + 1)
    BY <1>1, <1>3, <2>2 DEF RoundsCount, SearchInv
  <2>4. QED
    BY <2>1, <2>3 DEF SearchInv
<1>5. CASE Open # {}
  <2>1. Visit(ns, edges, st) = next
    BY <1>5 DEF Visit
  <2>2. u \in Open /\ \A j \in Open : st.dist[u] <= st.dist[j]
    <3>1. st.dist \in [1..n -> Nat] /\ Open \in SUBSET (1..n) /\ n \in Nat
      BY <1>1, <1>2
    <3> HIDE DEF Open
    <3>2. QED
      BY <3>1, <1>5, NearestIsNearest
  <2>3. u \in 1..n /\ u \notin st.visited /\ st.dist[u] \in Nat /\ st.dist[u] < n
    BY <2>2, <1>3
  <2> HIDE DEF u
  <2>4. /\ next.visited = st.visited \cup {u}
        /\ next.dist = [v \in 1..n |-> IF v \in Closer THEN st.dist[u] + 1 ELSE st.dist[v]]
        /\ next.prev = [v \in 1..n |-> IF v \in Closer THEN u ELSE st.prev[v]]
    OBVIOUS
  <2>5. \A v \in 1..n :
            /\ next.dist[v] = IF v \in Closer THEN st.dist[u] + 1 ELSE st.dist[v]
            /\ next.prev[v] = IF v \in Closer THEN u ELSE st.prev[v]
    BY <2>4
  <2>6. \A v \in Closer : /\ v \in 1..n /\ v \notin st.visited /\ v # u
                          /\ Adjacent(ns, edges, u, v)
                          /\ st.dist[v] > st.dist[u] + 1
    BY DEF Adjacent
  <2>7. \A v \in (1..n) \ (st.visited \cup {u}) :
            Adjacent(ns, edges, u, v) => v \in Closer \/ st.dist[v] <= st.dist[u] + 1
    BY <1>3, <2>3 DEF Adjacent
  <2>8. next \in Searches(n)
    <3>1. st.visited \cup {u} \in SUBSET (1..n)
      BY <1>2, <2>3
    <3>2. \A v \in 1..n : (IF v \in Closer THEN st.dist[u] + 1 ELSE st.dist[v]) \in 0..n
      BY <1>1, <1>2, <1>3, <2>3
    <3>3. \A v \in 1..n : (IF v \in Closer THEN u ELSE st.prev[v]) \in 0..n
      BY <1>1, <1>2, <2>3
    <3> HIDE DEF Closer
    <3>4. QED
      BY <3>1, <3>2, <3>3 DEF Searches
  <2> HIDE DEF next, Closer
  \* Where dist or prev do not change, and where they do.
  <2>9. \A v \in 1..n : next.dist[v] \in Nat /\ next.dist[v] <= n
    BY <1>1, <2>8 DEF Searches
  <2>10. \A v \in st.visited \cup {u} : v \in 1..n /\ next.dist[v] = st.dist[v]
    BY <1>2, <2>3, <2>5, <2>6
  <2>11. DistancesAreWalked(ns, edges, next)
    <3>1. next.dist[1] = 0
      <4>1. st.dist[1] = 0 /\ 1 \in 1..n
        BY <1>1 DEF SearchInv, DistancesAreWalked
      <4>2. 1 \notin Closer
        BY <4>1, <2>3, <2>6
      <4>3. QED
        BY <4>1, <4>2, <2>5
    <3>2. ASSUME NEW i \in 2..n
          PROVE  next.dist[i] >= 1
      BY <1>1, <2>3, <2>5 DEF SearchInv, DistancesAreWalked
    <3>3. ASSUME NEW i \in 2..n, next.dist[i] < n
          PROVE  /\ next.prev[i] \in next.visited
                 /\ Adjacent(ns, edges, next.prev[i], i)
                 /\ next.dist[i] = next.dist[next.prev[i]] + 1
      <4>0. i \in 1..n
        BY <1>1
      <4>1. CASE i \in Closer
        BY <4>0, <4>1, <2>4, <2>5, <2>6, <2>10
      <4>2. CASE i \notin Closer
        <5>1. next.dist[i] = st.dist[i] /\ next.prev[i] = st.prev[i]
          BY <4>0, <4>2, <2>5
        <5>2. /\ st.prev[i] \in st.visited
              /\ Adjacent(ns, edges, st.prev[i], i)
              /\ st.dist[i] = st.dist[st.prev[i]] + 1
          BY <5>1, <3>3 DEF SearchInv, DistancesAreWalked
        <5>3. QED
          BY <5>1, <5>2, <2>4, <2>10
      <4>3. QED
        BY <4>1, <4>2
    <3>4. QED
      BY <3>1, <3>2, <3>3 DEF DistancesAreWalked
  <2>12. NearestFirst(ns, next)
    <3>1. ASSUME NEW w \in next.visited, NEW v \in (1..n) \ next.visited
          PROVE  next.dist[w] <= next.dist[v]
      <4>1. w \in st.visited \cup {u} /\ v \in 1..n /\ v \notin st.visited /\ v # u
        BY <2>4
      <4>2. next.dist[w] = st.dist[w] /\ w \in 1..n /\ st.dist[w] \in Nat
        BY <4>1, <2>10, <1>3
      <4>3. st.dist[w] <= st.dist[u]
        <5>1. CASE w = u
          BY <5>1, <4>2
        <5>2. CASE w \in st.visited
          BY <5>2, <2>3 DEF SearchInv, NearestFirst
        <5>3. QED
          BY <4>1, <5>1, <5>2
      <4>4. CASE v \in Closer
        BY <4>1, <4>2, <4>3, <4>4, <2>3, <2>5
      <4>5. CASE v \notin Closer
        <5>1. next.dist[v] = st.dist[v] /\ st.dist[v] \in Nat
          BY <4>1, <4>5, <2>5, <1>3
        <5>2. st.dist[u] <= st.dist[v]
          BY <4>1, <5>1, <2>2, <2>3, <1>3
        <5>3. QED
          BY <5>1, <5>2, <4>2, <4>3, <2>3
      <4>6. QED
        BY <4>4, <4>5
    <3>2. ASSUME NEW w \in next.visited
          PROVE  next.dist[w] < n
      <4>1. w \in st.visited \cup {u} /\ next.dist[w] = st.dist[w]
        BY <2>4, <2>10
      <4>2. QED
        BY <4>1, <2>3 DEF SearchInv, NearestFirst
    <3>3. QED
      BY <3>1, <3>2 DEF NearestFirst
  \* So far as many nodes as rounds have been visited.
  <2>13. Cardinality(st.visited) = k /\ st.dist[u] <= k
    BY <1>1, <2>3 DEF SearchInv, RoundsCount
  <2>14. /\ IsFiniteSet(st.visited \cup {u})
         /\ Cardinality(st.visited \cup {u}) = k + 1
    <3>1. IsFiniteSet(st.visited)
      BY <1>1, <1>2, CountPlaces
    <3>2. QED
      BY <3>1, <2>3, <2>13, FS_AddElement
  <2>15. RoundsCount(ns, next, k + 1)
    <3>1. ASSUME NEW v \in 1..n, next.dist[v] < n
          PROVE  next.dist[v] <= k + 1
      <4>1. st.dist[v] \in Nat /\ (st.dist[v] < n => st.dist[v] <= k)
        BY <1>3 DEF SearchInv, RoundsCount
      <4>2. QED
        BY <4>1, <3>1, <2>3, <2>5, <2>13
    <3>2. QED
      BY <3>1, <2>4, <2>14 DEF RoundsCount
  <2>16. VisitedIsRelaxed(ns, edges, next)
    <3>1. ASSUME NEW w \in next.visited, NEW v \in 1..n, Adjacent(ns, edges, w, v)
          PROVE  next.dist[v] <= next.dist[w] + 1 /\ next.dist[v] < n
      <4>1. w \in st.visited \cup {u} /\ next.dist[w] = st.dist[w]
        BY <2>4, <2>10
      <4>2. st.dist[v] \in Nat /\ st.dist[v] <= n /\ st.dist[w] \in Nat
        BY <4>1, <1>3, <2>10
      <4>3. CASE w \in st.visited
        <5>1. st.dist[v] <= st.dist[w] + 1 /\ st.dist[v] < n
          BY <3>1, <4>3 DEF SearchInv, VisitedIsRelaxed
        <5>2. CASE v \in Closer
          BY <5>1, <5>2, <4>1, <4>2, <1>1, <2>3, <2>5, <2>6
        <5>3. CASE v \notin Closer
          BY <5>1, <5>3, <4>1, <2>5
        <5>4. QED
          BY <5>2, <5>3
      <4>4. CASE w = u
        <5>1. CASE v \in st.visited
          <6>1. next.dist[v] = st.dist[v] /\ st.dist[v] <= st.dist[u]
            BY <5>1, <2>3, <2>10 DEF SearchInv, NearestFirst
          <6>2. QED
            BY <6>1, <4>1, <4>2, <4>4, <1>1, <2>3
        <5>2. CASE v = u
          BY <5>2, <4>1, <4>4, <2>3
        <5>3. CASE v \in Closer
          BY <5>3, <4>1, <4>2, <4>4, <1>1, <2>3, <2>5, <2>6
        <5>4. CASE v \notin st.visited \cup {u} /\ v \notin Closer
          <6>1. next.dist[v] = st.dist[v] /\ st.dist[v] <= st.dist[u] + 1
            BY <5>4, <3>1, <4>4, <2>5, <2>7
          <6>2. k + 2 <= n
            <7>1. Cardinality((st.visited \cup {u}) \cup {v}) = k + 2
              <8> DEFINE seen == st.visited \cup {u}
              <8>1. IsFiniteSet(seen) /\ Cardinality(seen) = k + 1 /\ v \notin seen
                BY <5>4, <2>14
              <8> HIDE DEF seen
              <8>2. Cardinality(seen \cup {v}) = (k + 1) + 1
                BY <8>1, FS_AddElement
              <8>3. QED
                BY <8>2 DEF seen
            <7>2. (st.visited \cup {u}) \cup {v} \in SUBSET (1..n)
              BY <1>2, <2>3
            <7>3. QED
              BY <7>1, <7>2, <1>1, CountPlaces
          <6>3. QED
            BY <6>1, <6>2, <4>1, <4>2, <4>4, <1>1, <2>3, <2>13
        <5>5. QED
          BY <5>1, <5>2, <5>3, <5>4
      <4>5. QED
        BY <4>1, <4>3, <4>4
    <3>2. QED
      BY <3>1 DEF VisitedIsRelaxed
  <2>17. QED
    BY <2>1, <2>8, <2>11, <2>12, <2>15, <2>16 DEF SearchInv
<1>6. QED
  BY <1>4, <1>5

\* When the search is over, it has found all that can be found: the distances grow by at
\* most one over an edge, and each is that of a walk back to the first node.
Searched(ns, edges, st) ==
    /\ st \in Searches(Len(ns))
    /\ DistancesAreWalked(ns, edges, st)
    /\ \A i, j \in 1..Len(ns) : Adjacent(ns, edges, i, j) /\ st.dist[i] < Len(ns) =>
                                    st.dist[j] < Len(ns) /\ st.dist[j] <= st.dist[i] + 1

LEMMA DijkstraSearches ==
    ASSUME NEW X, NEW ns \in Seq(X), Len(ns) >= 1, NEW edges
    PROVE  Searched(ns, edges, Dijkstra(ns, edges))
<1> DEFINE n == Len(ns)
           A == {st \in Searches(n) : \E k \in Nat : SearchInv(ns, edges, st, k)}
           step == [k \in 1..n |-> [st \in A |-> Visit(ns, edges, st)]]
           IsRounds(f) == f = [k \in 0..n |-> IF k = 0 THEN Unvisited(ns)
                                               ELSE Visit(ns, edges, f[k - 1])]
           Round == CHOOSE f : IsRounds(f)
<1>1. n \in Nat \ {0}
  OBVIOUS
<1>2. Unvisited(ns) \in A
  <2>1. SearchInv(ns, edges, Unvisited(ns), 0)
    BY SearchStarts
  <2>2. QED
    BY <2>1 DEF SearchInv
<1>3. \A st \in A : Visit(ns, edges, st) \in A
  <2>1. ASSUME NEW st \in A
        PROVE  Visit(ns, edges, st) \in A
    <3>1. PICK k \in Nat : SearchInv(ns, edges, st, k)
      OBVIOUS
    <3>2. SearchInv(ns, edges, Visit(ns, edges, st), k + 1) /\ k + 1 \in Nat
      BY <3>1, SearchGoesOn
    <3>3. QED
      BY <3>2 DEF SearchInv
  <2>2. QED
    BY <2>1
<1> HIDE DEF A
<1>4. \E f : IsRounds(f)
  <2>1. step \in [1..n -> [A -> A]]
    BY <1>3
  <2>2. \A k \in 1..n, st \in A : step[k][st] = Visit(ns, edges, st)
    OBVIOUS
  <2> HIDE DEF step, n
  <2>3. PICK f : Recursion(f, n, A, Unvisited(ns), step)
    BY <1>1, <1>2, <2>1, RecursionExists
  <2> DEFINE g == [k \in 0..n |-> IF k = 0 THEN Unvisited(ns) ELSE Visit(ns, edges, f[k - 1])]
  <2>4. ASSUME NEW k \in 0..n
        PROVE  f[k] = g[k]
    <3>1. CASE k = 0
      BY <3>1, <2>3 DEF Recursion
    <3>2. CASE k # 0
      <4>1. k \in 1..n /\ k - 1 \in 0..n
        BY <3>2, <1>1
      <4>2. f[k - 1] \in A /\ f[k] = step[k][f[k - 1]]
        BY <4>1, <2>3 DEF Recursion
      <4>3. QED
        BY <4>1, <4>2, <2>2, <3>2
    <3>3. QED
      BY <3>1, <3>2
  <2>5. f = [k \in 0..n |-> f[k]]
    BY <2>3 DEF Recursion
  <2> HIDE DEF g
  <2>6. f = g
    BY <2>4, <2>5 DEF g
  <2>7. QED
    BY <2>6 DEF g
<1>5. IsRounds(Round)
  BY <1>4
<1>6. Dijkstra(ns, edges) = Round[n]
  BY DEF Dijkstra
<1> HIDE DEF Round
<1>7. /\ Round[0] = Unvisited(ns)
      /\ \A k \in 0..(n - 1) : Round[k + 1] = Visit(ns, edges, Round[k])
  BY <1>1, <1>5
<1> DEFINE T == {k \in 0..n : SearchInv(ns, edges, Round[k], k)}
<1>8. 0 \in T
  BY <1>1, <1>7, SearchStarts
<1>9. ASSUME NEW k \in 0..(n - 1), k \in T
      PROVE  k + 1 \in T
  <2>1. SearchInv(ns, edges, Visit(ns, edges, Round[k]), k + 1)
    <3>1. SearchInv(ns, edges, Round[k], k) /\ k \in Nat
      BY <1>1, <1>9
    <3>2. QED
      BY <3>1, SearchGoesOn
  <2>2. QED
    BY <2>1, <1>1, <1>7
<1> DEFINE st == Round[n]
<1>10. SearchInv(ns, edges, st, n)
  <2> HIDE DEF T
  <2>1. \A k \in 0..n : k \in T
    BY <1>1, <1>8, <1>9, UpTo
  <2>2. n \in T
    BY <2>1, <1>1
  <2>3. QED
    BY <2>2 DEF T
<1> HIDE DEF st
<1>11. \A v \in (1..n) \ st.visited : st.dist[v] = n
  <2>1. CASE Cardinality(st.visited) = n
    <3>1. IsFiniteSet(1..n) /\ Cardinality(1..n) = n
      BY <1>1, AllPlaces
    <3>2. st.visited \in SUBSET (1..n)
      BY <1>10 DEF SearchInv, Searches
    <3>3. st.visited = 1..n
      BY <2>1, <3>1, <3>2, FS_Subset
    <3>4. QED
      BY <3>3
  <2>2. QED
    BY <2>1, <1>10 DEF SearchInv, RoundsCount
<1>12. ASSUME NEW i \in 1..n, NEW j \in 1..n, Adjacent(ns, edges, i, j), st.dist[i] < n
       PROVE  st.dist[j] < n /\ st.dist[j] <= st.dist[i] + 1
  <2>1. i \in st.visited
    BY <1>1, <1>11, <1>12
  <2>2. QED
    BY <2>1, <1>10, <1>12 DEF SearchInv, VisitedIsRelaxed
<1>13. QED
  BY <1>6, <1>10, <1>12 DEF Searched, SearchInv, st

-----------------------------------------------------------------------------
\* Distances in the network.

Routers == Cardinality(Router)

LEMMA RoutersIsNat == Routers \in Nat
BY RouterAssumption, FS_CardinalityType DEF Routers

LEMMA LinkedIsSymmetric ==
    ASSUME NEW r \in Router, NEW s \in Linked(r)
    PROVE  s \in Router /\ r \in Linked(s)
BY DEF Linked

LEMMA WithinIsABall ==
    ASSUME NEW r \in Router
    PROVE  /\ Within(r)[0] = {r}
           /\ \A k \in 0..(Routers - 1) :
                 Within(r)[k + 1] = Within(r)[k] \cup UNION {Linked(s) : s \in Within(r)[k]}
           /\ \A k \in 0..Routers : Within(r)[k] \subseteq Router
<1> DEFINE N == Routers
           Ball(S) == S \cup UNION {Linked(s) : s \in S}
           step == [k \in 1..N |-> [S \in SUBSET Router |-> Ball(S)]]
           IsUpto(f) == f = [k \in 0..N |-> IF k = 0 THEN {r} ELSE Ball(f[k - 1])]
           Upto == CHOOSE f : IsUpto(f)
<1>1. N \in Nat
  BY RoutersIsNat
<1>2. \A S \in SUBSET Router : Ball(S) \in SUBSET Router
  BY DEF Linked
<1>3. \E f : IsUpto(f)
  <2> HIDE DEF Ball
  <2>1. step \in [1..N -> [SUBSET Router -> SUBSET Router]] /\ {r} \in SUBSET Router
    BY <1>2
  <2>2. \A k \in 1..N, S \in SUBSET Router : step[k][S] = Ball(S)
    OBVIOUS
  <2> HIDE DEF step, N
  <2>3. PICK f : Recursion(f, N, SUBSET Router, {r}, step)
    BY <1>1, <2>1, RecursionExists
  <2> DEFINE g == [k \in 0..N |-> IF k = 0 THEN {r} ELSE Ball(f[k - 1])]
  <2>4. ASSUME NEW k \in 0..N
        PROVE  f[k] = g[k]
    <3>1. CASE k = 0
      BY <3>1, <2>3 DEF Recursion
    <3>2. CASE k # 0
      <4>1. k \in 1..N /\ k - 1 \in 0..N
        BY <3>2, <1>1
      <4>2. f[k - 1] \in SUBSET Router /\ f[k] = step[k][f[k - 1]]
        BY <4>1, <2>3 DEF Recursion
      <4>3. QED
        BY <4>1, <4>2, <2>2, <3>2
    <3>3. QED
      BY <3>1, <3>2
  <2>5. f = [k \in 0..N |-> f[k]]
    BY <2>3 DEF Recursion
  <2> HIDE DEF g
  <2>6. f = g
    BY <2>4, <2>5 DEF g
  <2>7. QED
    BY <2>6 DEF g
<1>4. IsUpto(Upto)
  BY <1>3
<1>5. Within(r) = Upto
  BY DEF Within, Routers
<1> HIDE DEF Upto
<1>6. /\ Upto[0] = {r}
      /\ \A k \in 0..(N - 1) : Upto[k + 1] = Ball(Upto[k])
  <2>1. \A k \in 0..N : Upto[k] = IF k = 0 THEN {r} ELSE Ball(Upto[k - 1])
    <3> HIDE DEF Ball
    <3>1. QED
      BY <1>4
  <2>2. \A k \in 0..(N - 1) : k + 1 \in 0..N /\ k + 1 # 0 /\ (k + 1) - 1 = k
    BY <1>1
  <2>3. 0 \in 0..N
    BY <1>1
  <2> HIDE DEF N
  <2>4. QED
    BY <2>1, <2>2, <2>3
<1> DEFINE T == {k \in 0..N : Upto[k] \in SUBSET Router}
<1>7. 0 \in T
  BY <1>1, <1>6
<1>8. ASSUME NEW k \in 0..(N - 1), k \in T
      PROVE  k + 1 \in T
  <2> HIDE DEF Ball
  <2>1. QED
    BY <1>1, <1>2, <1>6, <1>8
<1>9. \A k \in 0..N : k \in T
  <2> HIDE DEF T
  <2>1. QED
    BY <1>1, <1>7, <1>8, UpTo
<1>10. QED
  BY <1>5, <1>6, <1>9

LEMMA WithinGoesOn ==
    ASSUME NEW r \in Router, NEW k \in 0..(Routers - 1), NEW s \in Within(r)[k]
    PROVE  s \in Within(r)[k + 1] /\ Linked(s) \subseteq Within(r)[k + 1]
BY WithinIsABall

\* What is near to a neighbour is one link farther.
LEMMA WithinOneMore ==
    ASSUME NEW r \in Router, NEW q \in Linked(r)
    PROVE  \A k \in 0..(Routers - 1) : Within(q)[k] \subseteq Within(r)[k + 1]
<1>1. Routers \in Nat /\ q \in Router
  BY RoutersIsNat DEF Linked
<1> DEFINE N == Routers - 1
           T == {k \in 0..N : Within(q)[k] \subseteq Within(r)[k + 1]}
<1>2. CASE N < 0
  BY <1>1, <1>2
<1>3. CASE N >= 0
  <2>1. N \in Nat
    BY <1>1, <1>3
  <2>2. 0 \in T
    <3>1. Within(r)[0] = {r} /\ Within(q)[0] = {q}
      BY <1>1, WithinIsABall
    <3>2. Linked(r) \subseteq Within(r)[0 + 1]
      BY <2>1, <3>1, WithinGoesOn
    <3>3. QED
      BY <2>1, <3>1, <3>2
  <2>3. ASSUME NEW k \in 0..(N - 1), k \in T
        PROVE  k + 1 \in T
    <3>1. k \in 0..(Routers - 1) /\ k + 1 \in 0..(Routers - 1) /\ k + 1 \in 0..N
      BY <1>1, <2>1
    <3>2. Within(q)[k + 1] = Within(q)[k] \cup UNION {Linked(s) : s \in Within(q)[k]}
      BY <1>1, <3>1, WithinIsABall
    <3>3. Within(q)[k] \subseteq Within(r)[k + 1]
      BY <2>3
    <3>4. ASSUME NEW z \in Within(q)[k + 1]
          PROVE  z \in Within(r)[(k + 1) + 1]
      <4>1. CASE z \in Within(q)[k]
        BY <3>1, <3>3, <4>1, WithinGoesOn
      <4>2. CASE z \notin Within(q)[k]
        <5>1. PICK s \in Within(q)[k] : z \in Linked(s)
          BY <3>2, <3>4, <4>2
        <5>2. s \in Within(r)[k + 1]
          BY <3>3
        <5>3. QED
          BY <3>1, <5>1, <5>2, WithinGoesOn
      <4>3. QED
        BY <4>1, <4>2
    <3>5. QED
      BY <3>1, <3>4
  <2>4. \A k \in 0..N : k \in T
    <3> HIDE DEF T, N
    <3>1. QED
      BY <2>1, <2>2, <2>3, UpTo
  <2>5. QED
    BY <2>4
<1>4. QED
  BY <1>1, <1>2, <1>3

LEMMA DistanceIsLeast ==
    ASSUME NEW r \in Router, NEW net
    PROVE  /\ Distance(r, net) \in 0..Routers
           /\ \A k \in 0..Routers, s \in Router :
                 s \in Within(r)[k] /\ net \in Attached(s) => Distance(r, net) <= k
           /\ \/ \E s \in Within(r)[Distance(r, net)] : net \in Attached(s)
              \/ Distance(r, net) = Routers
<1> DEFINE Near == {k \in 0..Routers : \E s \in Within(r)[k] : net \in Attached(s)}
<1>1. Routers \in Nat
  BY RoutersIsNat
<1>2. CASE Near = {}
  <2>1. Distance(r, net) = Routers
    BY <1>2 DEF Distance, Routers
  <2>2. \A k \in 0..Routers, s \in Router : ~(s \in Within(r)[k] /\ net \in Attached(s))
    BY <1>2
  <2>3. QED
    BY <1>1, <2>1, <2>2
<1>3. CASE Near # {}
  <2>1. Near \subseteq Nat
    BY <1>1
  <2> HIDE DEF Near
  <2>2. PICK k \in Near : \A j \in Near : k <= j
    BY <1>3, <2>1, LeastNumber
  <2>3. Distance(r, net) = CHOOSE m \in Near : \A j \in Near : m <= j
    BY <1>3 DEF Distance, Routers, Near
  <2>4. Distance(r, net) \in Near /\ \A j \in Near : Distance(r, net) <= j
    BY <2>2, <2>3
  <2>5. QED
    BY <2>4 DEF Near
<1>4. QED
  BY <1>2, <1>3

-----------------------------------------------------------------------------
\* From the search to the network.

EdgesAreLinks(ns, edges) ==
    \A i, j \in 1..Len(ns) : Adjacent(ns, edges, i, j) => ns[j] \in Linked(ns[i])

\* What a search of a database of links of the network is.
Search(ns, edges, st) ==
    /\ ns \in Seq(Router) /\ Len(ns) \in 1..Routers
    /\ EdgesAreLinks(ns, edges)
    /\ Searched(ns, edges, st)

\* The way back from a node ends next to the first one, and leads on from there.
LEMMA FirstHopLeadsOn ==
    ASSUME NEW ns, NEW edges, NEW st, Search(ns, edges, st),
           NEW i \in 2..Len(ns), st.dist[i] < Len(ns)
    PROVE  /\ FirstHop(st.prev, i) \in 2..Len(ns)
           /\ ns[FirstHop(st.prev, i)] \in Linked(ns[1])
           /\ ns[i] \in Within(ns[FirstHop(st.prev, i)])[st.dist[i] - 1]
<1> DEFINE n == Len(ns)
           A == {j \in 2..n : st.dist[j] < n}
           Hop(h) == IF st.prev[h] \in {0, 1} THEN h ELSE st.prev[h]
           step == [k \in 1..n |-> [h \in A |-> Hop(h)]]
           IsBack(f) == f = [k \in 0..n |-> IF k = 0 THEN i ELSE Hop(f[k - 1])]
           Back == CHOOSE f : IsBack(f)
<1>1. /\ n \in Nat \ {0} /\ Routers \in Nat /\ n <= Routers
      /\ \A j \in 1..n : ns[j] \in Router
      /\ st.dist \in [1..n -> 0..n] /\ st.prev \in [1..n -> 0..n]
  BY RoutersIsNat DEF Search, Searched, Searches
<1>2. Len(st.prev) = n
  BY <1>1
<1>3. \A j \in A : /\ j \in 1..n /\ st.dist[j] \in 1..(n - 1)
                   /\ st.prev[j] \in 1..n /\ st.dist[st.prev[j]] = st.dist[j] - 1
                   /\ ns[j] \in Linked(ns[st.prev[j]])
  <2>1. ASSUME NEW j \in A
        PROVE  /\ j \in 1..n /\ st.dist[j] \in 1..(n - 1)
               /\ st.prev[j] \in 1..n /\ st.dist[st.prev[j]] = st.dist[j] - 1
               /\ ns[j] \in Linked(ns[st.prev[j]])
    <3>1. j \in 1..n /\ j \in 2..n /\ st.dist[j] \in 0..n /\ st.dist[j] < n
      BY <1>1
    <3>2. /\ st.dist[j] >= 1 /\ st.prev[j] \in st.visited
          /\ Adjacent(ns, edges, st.prev[j], j)
          /\ st.dist[j] = st.dist[st.prev[j]] + 1
      BY <3>1 DEF Search, Searched, DistancesAreWalked
    <3>3. st.prev[j] \in 1..n /\ st.dist[st.prev[j]] \in Nat
      BY <1>1, <3>2 DEF Search, Searched, Searches
    <3>4. ns[j] \in Linked(ns[st.prev[j]])
      BY <3>1, <3>2, <3>3 DEF Search, EdgesAreLinks
    <3>5. QED
      BY <1>1, <3>1, <3>2, <3>3, <3>4
  <2>2. QED
    BY <2>1
<1>4. \A h \in A : Hop(h) \in A
  <2>1. ASSUME NEW h \in A, st.prev[h] \notin {0, 1}
        PROVE  st.prev[h] \in A
    <3>1. st.prev[h] \in 2..n /\ st.dist[st.prev[h]] < n
      BY <1>1, <1>3, <2>1
    <3>2. QED
      BY <3>1
  <2>2. QED
    BY <2>1
<1>5. i \in A
  OBVIOUS
<1> HIDE DEF A
<1>6. \E f : IsBack(f)
  <2> HIDE DEF Hop
  <2>1. step \in [1..n -> [A -> A]]
    BY <1>4
  <2>2. \A k \in 1..n, h \in A : step[k][h] = Hop(h)
    OBVIOUS
  <2> HIDE DEF step, n
  <2>3. PICK f : Recursion(f, n, A, i, step)
    BY <1>1, <1>5, <2>1, RecursionExists
  <2> DEFINE g == [k \in 0..n |-> IF k = 0 THEN i ELSE Hop(f[k - 1])]
  <2>4. ASSUME NEW k \in 0..n
        PROVE  f[k] = g[k]
    <3>1. CASE k = 0
      BY <3>1, <2>3 DEF Recursion
    <3>2. CASE k # 0
      <4>1. k \in 1..n /\ k - 1 \in 0..n
        BY <3>2, <1>1
      <4>2. f[k - 1] \in A /\ f[k] = step[k][f[k - 1]]
        BY <4>1, <2>3 DEF Recursion
      <4>3. QED
        BY <4>1, <4>2, <2>2, <3>2
    <3>3. QED
      BY <3>1, <3>2
  <2>5. f = [k \in 0..n |-> f[k]]
    BY <2>3 DEF Recursion
  <2> HIDE DEF g
  <2>6. f = g
    BY <2>4, <2>5 DEF g
  <2>7. QED
    BY <2>6 DEF g
<1>7. IsBack(Back)
  BY <1>6
<1>8. FirstHop(st.prev, i) = Back[n]
  BY <1>2 DEF FirstHop
<1> HIDE DEF Back
<1>9. Back[0] = i /\ \A k \in 0..(n - 1) : Back[k + 1] = Hop(Back[k])
  <2>1. \A k \in 0..n : Back[k] = IF k = 0 THEN i ELSE Hop(Back[k - 1])
    <3> HIDE DEF Hop
    <3>1. QED
      BY <1>7
  <2>2. \A k \in 0..(n - 1) : k + 1 \in 0..n /\ k + 1 # 0 /\ (k + 1) - 1 = k
    BY <1>1
  <2>3. 0 \in 0..n
    BY <1>1
  <2> HIDE DEF n, Hop
  <2>4. QED
    BY <2>1, <2>2, <2>3
\* After k steps: on the way, and k links nearer unless it is over.
<1> DEFINE OnTheWay(h, k) == /\ h \in A /\ st.dist[h] <= st.dist[i]
                             /\ ns[i] \in Within(ns[h])[st.dist[i] - st.dist[h]]
                             /\ st.prev[h] = 1 \/ st.dist[h] = st.dist[i] - k
           T == {k \in 0..n : OnTheWay(Back[k], k)}
<1>10. 0 \in T
  <2>1. Within(ns[i])[0] = {ns[i]}
    BY <1>1, <1>3, <1>5, WithinIsABall
  <2>2. st.dist[i] - st.dist[i] = 0 /\ st.dist[i] <= st.dist[i] /\ st.dist[i] = st.dist[i] - 0
    BY <1>3, <1>5
  <2>3. OnTheWay(i, 0)
    BY <1>5, <2>1, <2>2
  <2> HIDE DEF OnTheWay
  <2>4. QED
    BY <1>1, <1>9, <2>3
<1>11. ASSUME NEW k \in 0..(n - 1), k \in T
       PROVE  k + 1 \in T
  <2> DEFINE h == Back[k]
             p == st.prev[h]
  <2>1. OnTheWay(h, k) /\ k \in Nat /\ k + 1 \in 0..n
    BY <1>1, <1>11
  <2>2. Back[k + 1] = IF p \in {0, 1} THEN h ELSE p
    BY <1>9, <1>11
  <2> HIDE DEF h
  <2>3. p \in 1..n /\ st.dist[p] = st.dist[h] - 1 /\ ns[h] \in Linked(ns[p])
        /\ st.dist[h] \in 1..(n - 1) /\ st.dist[i] \in 1..(n - 1)
    BY <1>3, <1>5, <2>1
  <2>4. OnTheWay(Back[k + 1], k + 1)
    <3>1. CASE p = 1
      <4>1. Back[k + 1] = h
        BY <2>2, <3>1
      <4>2. QED
        BY <4>1, <2>1, <3>1
    <3>2. CASE p # 1
      <4>1. Back[k + 1] = p /\ p \in A
        BY <1>4, <2>1, <2>2, <2>3, <3>2
      <4>2. /\ st.dist[i] - st.dist[h] \in 0..(Routers - 1)
            /\ (st.dist[i] - st.dist[h]) + 1 = st.dist[i] - st.dist[p]
            /\ st.dist[p] <= st.dist[i] /\ st.dist[p] = st.dist[i] - (k + 1)
        <5>1. st.dist[h] <= st.dist[i] /\ st.dist[h] = st.dist[i] - k
          BY <2>1, <3>2
        <5> DEFINE dh == st.dist[h]
                   di == st.dist[i]
                   dp == st.dist[p]
        <5>2. /\ dh \in Nat /\ di \in Nat /\ dp \in Int /\ dp = dh - 1
              /\ dh <= di /\ dh = di - k /\ dh >= 1 /\ di <= n - 1
          BY <1>1, <2>3, <5>1
        <5>3. n \in Nat /\ Routers \in Nat /\ n <= Routers /\ k \in Nat
          BY <1>1, <2>1
        <5> HIDE DEF dh, di, dp, p, n
        <5>4. di - dh \in 0..(Routers - 1) /\ (di - dh) + 1 = di - dp /\ dp <= di
              /\ dp = di - (k + 1)
          BY <5>2, <5>3
        <5>5. QED
          BY <5>4 DEF dh, di, dp
      <4>3. ns[p] \in Router
        BY <1>1, <2>3
      <4>4. ns[i] \in Within(ns[p])[(st.dist[i] - st.dist[h]) + 1]
        BY <2>1, <2>3, <4>2, <4>3, WithinOneMore
      <4>5. QED
        BY <4>1, <4>2, <4>4
    <3>3. QED
      BY <3>1, <3>2
  <2> HIDE DEF OnTheWay
  <2>5. QED
    BY <2>1, <2>4
<1>12. OnTheWay(Back[n], n)
  <2> HIDE DEF OnTheWay
  <2>1. T \subseteq 0..n /\ n \in Nat
    BY <1>1
  <2>2. \A k \in 0..n : k \in T
    <3> HIDE DEF T, n
    <3>1. QED
      BY <2>1, <1>10, <1>11, UpTo
  <2>3. QED
    BY <2>1, <2>2
<1>13. st.prev[Back[n]] = 1 /\ Back[n] \in A
  <2>1. Back[n] \in A /\ (st.prev[Back[n]] = 1 \/ st.dist[Back[n]] = st.dist[i] - n)
    BY <1>12
  <2>2. st.dist[Back[n]] \in 1..(n - 1) /\ st.dist[i] \in 1..(n - 1)
    BY <1>3, <1>5, <2>1
  <2>3. \A a, b \in 1..(n - 1) : a # b - n
    BY <1>1
  <2>4. QED
    BY <2>1, <2>2, <2>3
<1>14. st.dist[1] = 0
  BY DEF Search, Searched, DistancesAreWalked
<1>15. st.dist[Back[n]] = 1 /\ ns[Back[n]] \in Linked(ns[1])
  <2>1. /\ st.dist[Back[n]] \in 1..(n - 1) /\ st.dist[1] = st.dist[Back[n]] - 1
        /\ ns[Back[n]] \in Linked(ns[1])
    BY <1>3, <1>13
  <2>2. QED
    BY <1>1, <1>14, <2>1
<1>16. Back[n] \in 2..n
  BY <1>13 DEF A
<1>17. QED
  BY <1>8, <1>12, <1>15, <1>16

\* A node that is found is as near as the search says.
LEMMA FoundIsNear ==
    ASSUME NEW ns, NEW edges, NEW st, Search(ns, edges, st)
    PROVE  \A i \in 1..Len(ns) : st.dist[i] < Len(ns) => ns[i] \in Within(ns[1])[st.dist[i]]
<1> DEFINE n == Len(ns)
           T == {k \in 0..n : \A i \in 1..n : st.dist[i] = k /\ k < n => ns[i] \in Within(ns[1])[k]}
<1>1. /\ n \in Nat \ {0} /\ Routers \in Nat /\ n <= Routers
      /\ \A j \in 1..n : ns[j] \in Router
      /\ st.dist \in [1..n -> 0..n] /\ st.prev \in [1..n -> 0..n]
      /\ st.visited \in SUBSET (1..n)
  BY RoutersIsNat DEF Search, Searched, Searches
<1>2. /\ st.dist[1] = 0
      /\ \A i \in 2..n : /\ st.dist[i] >= 1
                         /\ st.dist[i] < n => /\ st.prev[i] \in 1..n
                                              /\ Adjacent(ns, edges, st.prev[i], i)
                                              /\ st.dist[i] = st.dist[st.prev[i]] + 1
  BY <1>1 DEF Search, Searched, DistancesAreWalked
<1>3. ns[1] \in Router /\ Within(ns[1])[0] = {ns[1]}
  BY <1>1, WithinIsABall
<1>4. 0 \in T
  <2>1. ASSUME NEW i \in 1..n, st.dist[i] = 0
        PROVE  i = 1
    <3>1. \A j \in 2..n : st.dist[j] # 0
      BY <1>1, <1>2
    <3>2. i = 1 \/ i \in 2..n
      BY <1>1
    <3>3. QED
      BY <2>1, <3>1, <3>2
  <2>2. QED
    BY <1>1, <1>3, <2>1
<1>5. ASSUME NEW k \in 0..(n - 1), k \in T
      PROVE  k + 1 \in T
  <2>1. ASSUME NEW i \in 1..n, st.dist[i] = k + 1, k + 1 < n
        PROVE  ns[i] \in Within(ns[1])[k + 1]
    <3>1. i # 1 /\ i \in 2..n
      BY <1>1, <1>2, <2>1
    <3> DEFINE p == st.prev[i]
    <3>2. p \in 1..n /\ Adjacent(ns, edges, p, i) /\ st.dist[i] = st.dist[p] + 1
      BY <1>2, <2>1, <3>1
    <3>3. st.dist[p] = k
      BY <1>1, <2>1, <3>2
    <3>4. ns[p] \in Within(ns[1])[k]
      BY <1>1, <1>5, <2>1, <3>2, <3>3
    <3>5. ns[i] \in Linked(ns[p])
      BY <2>1, <3>2 DEF Search, EdgesAreLinks
    <3>6. k \in 0..(Routers - 1)
      BY <1>1
    <3>7. QED
      BY <1>3, <3>4, <3>5, <3>6, WithinGoesOn
  <2>2. k + 1 \in 0..n
    BY <1>1
  <2>3. QED
    BY <2>1, <2>2
<1>6. \A k \in 0..n : k \in T
  <2> HIDE DEF T, n
  <2>1. QED
    BY <1>1, <1>4, <1>5, UpTo
<1>7. QED
  BY <1>1, <1>6

\* A search that knows the links of every node it finds finds what is near.
LinksAreKnown(ns, edges, st) ==
    \A i \in 1..Len(ns) : st.dist[i] < Len(ns) =>
        \A s \in Linked(ns[i]) : \E j \in 1..Len(ns) : ns[j] = s /\ Adjacent(ns, edges, i, j)

LEMMA NearIsFound ==
    ASSUME NEW ns, NEW edges, NEW st, Search(ns, edges, st), LinksAreKnown(ns, edges, st)
    PROVE  \A k \in 0..Routers : \A s \in Within(ns[1])[k] :
              \E i \in 1..Len(ns) : ns[i] = s /\ st.dist[i] < Len(ns) /\ st.dist[i] <= k
<1> DEFINE n == Len(ns)
           Found(k, s) == \E i \in 1..n : ns[i] = s /\ st.dist[i] < n /\ st.dist[i] <= k
           T == {k \in 0..Routers : \A s \in Within(ns[1])[k] : Found(k, s)}
<1>1. /\ n \in Nat \ {0} /\ Routers \in Nat
      /\ ns[1] \in Router /\ st.dist \in [1..n -> 0..n] /\ st.dist[1] = 0
  BY RoutersIsNat DEF Search, Searched, Searches, DistancesAreWalked
<1>2. 0 \in T
  <2>1. Within(ns[1])[0] = {ns[1]}
    BY <1>1, WithinIsABall
  <2>2. Found(0, ns[1])
    BY <1>1
  <2> HIDE DEF Found
  <2>3. QED
    BY <1>1, <2>1, <2>2
<1>3. ASSUME NEW k \in 0..(Routers - 1), k \in T
      PROVE  k + 1 \in T
  <2>1. ASSUME NEW s \in Within(ns[1])[k + 1]
        PROVE  Found(k + 1, s)
    <3>1. CASE s \in Within(ns[1])[k]
      <4>1. PICK i \in 1..n : ns[i] = s /\ st.dist[i] < n /\ st.dist[i] <= k
        BY <1>3, <3>1
      <4>2. st.dist[i] \in Nat /\ k \in Nat
        BY <1>1
      <4>3. st.dist[i] <= k + 1
        BY <4>1, <4>2
      <4>4. QED
        BY <4>1, <4>3
    <3>2. CASE s \notin Within(ns[1])[k]
      <4>1. PICK q \in Within(ns[1])[k] : s \in Linked(q)
        BY <1>1, <2>1, <3>2, WithinIsABall
      <4>2. PICK i \in 1..n : ns[i] = q /\ st.dist[i] < n /\ st.dist[i] <= k
        BY <1>3, <4>1
      <4>3. PICK j \in 1..n : ns[j] = s /\ Adjacent(ns, edges, i, j)
        BY <4>1, <4>2 DEF LinksAreKnown
      <4>4. st.dist[j] < n /\ st.dist[j] <= st.dist[i] + 1
        BY <4>2, <4>3 DEF Search, Searched
      <4>5. st.dist[i] \in Nat /\ k \in Nat /\ st.dist[j] \in Nat
        BY <1>1
      <4>6. st.dist[j] <= k + 1
        BY <4>2, <4>4, <4>5
      <4>7. QED
        BY <4>3, <4>4, <4>6
    <3>3. QED
      BY <3>1, <3>2
  <2>2. k + 1 \in 0..Routers
    BY <1>1
  <2> HIDE DEF Found
  <2>3. QED
    BY <2>1, <2>2
<1>4. \A k \in 0..Routers : k \in T
  <2> HIDE DEF T
  <2>1. QED
    BY <1>1, <1>2, <1>3, UpTo
<1>5. QED
  BY <1>4

-----------------------------------------------------------------------------
\* The nodes of a database.

Lsa == [net : SUBSET Router, rid : Router \cup {NoRid}]
Entry == [rid : Router, lsas : Seq(Lsa)]

\* Every router once, the first of them self.
NodeLists(self) ==
    {ns \in Seq(Router) : /\ Len(ns) >= 1 /\ ns[1] = self
                          /\ \A i, j \in 1..Len(ns) : ns[i] = ns[j] => i = j}

LEMMA NodeIsAdded ==
    ASSUME NEW self, NEW ns \in NodeLists(self), NEW r \in Router
    PROVE  /\ AddNode(ns, r) \in NodeLists(self)
           /\ ToSet(AddNode(ns, r)) = ToSet(ns) \cup {r}
<1>1. /\ ns \in Seq(Router) /\ Len(ns) \in Nat /\ Len(ns) >= 1 /\ ns[1] = self
      /\ \A i, j \in 1..Len(ns) : ns[i] = ns[j] => i = j
  BY DEF NodeLists
<1>2. CASE r \in ToSet(ns)
  BY <1>2 DEF AddNode
<1>3. CASE r \notin ToSet(ns)
  <2> DEFINE more == Append(ns, r)
  <2>1. /\ more \in Seq(Router) /\ Len(more) = Len(ns) + 1
        /\ \A i \in 1..Len(ns) : more[i] = ns[i]
        /\ more[Len(ns) + 1] = r
    BY <1>1, OneMore
  <2>2. AddNode(ns, r) = more
    BY <1>3 DEF AddNode
  <2>3. \A i \in 1..Len(ns) : ns[i] # r
    BY <1>1, <1>3 DEF ToSet
  <2> HIDE DEF more
  <2>4. \A i, j \in 1..Len(more) : more[i] = more[j] => i = j
    BY <1>1, <2>1, <2>3
  <2>5. more \in NodeLists(self)
    BY <1>1, <2>1, <2>4 DEF NodeLists
  <2>6. ToSet(more) = ToSet(ns) \cup {r}
    <3>1. DOMAIN more = 1..(Len(ns) + 1) /\ DOMAIN ns = 1..Len(ns)
      BY <1>1, <2>1
    <3>2. 1..(Len(ns) + 1) = (1..Len(ns)) \cup {Len(ns) + 1}
      BY <1>1
    <3>3. QED
      BY <2>1, <3>1, <3>2 DEF ToSet
  <2>7. QED
    BY <2>2, <2>5, <2>6
<1>4. QED
  BY <1>2, <1>3

LEMMA LsasAreMet ==
    ASSUME NEW self, NEW ns \in NodeLists(self), NEW lsas \in Seq(Lsa)
    PROVE  /\ WithLsas(ns, lsas) \in NodeLists(self)
           /\ ToSet(ns) \subseteq ToSet(WithLsas(ns, lsas))
           /\ \A a \in ToSet(lsas) : a.rid # NoRid => a.rid \in ToSet(WithLsas(ns, lsas))
<1> DEFINE N == Len(lsas)
           A == NodeLists(self)
           One(k, q) == IF lsas[k].rid = NoRid THEN q ELSE AddNode(q, lsas[k].rid)
           step == [k \in 1..N |-> [q \in A |-> One(k, q)]]
           IsUpto(f) == f = [k \in 0..N |->
                                IF k = 0 THEN ns
                                ELSE IF lsas[k].rid = NoRid THEN f[k - 1]
                                ELSE AddNode(f[k - 1], lsas[k].rid)]
           Upto == CHOOSE f : IsUpto(f)
<1>1. N \in Nat /\ DOMAIN lsas = 1..N /\ \A k \in 1..N : lsas[k] \in Lsa
  OBVIOUS
<1>2. \A k \in 1..N, q \in A :
          /\ One(k, q) \in A /\ ToSet(q) \subseteq ToSet(One(k, q))
          /\ lsas[k].rid # NoRid => lsas[k].rid \in ToSet(One(k, q))
  <2>1. ASSUME NEW k \in 1..N, NEW q \in A, lsas[k].rid # NoRid
        PROVE  /\ AddNode(q, lsas[k].rid) \in A
               /\ ToSet(AddNode(q, lsas[k].rid)) = ToSet(q) \cup {lsas[k].rid}
    <3>1. lsas[k].rid \in Router
      BY <1>1, <2>1 DEF Lsa
    <3>2. QED
      BY <3>1, NodeIsAdded
  <2> HIDE DEF A
  <2>2. QED
    BY <2>1
<1>3. \E f : IsUpto(f)
  <2>1. step \in [1..N -> [A -> A]]
    <3> HIDE DEF One, A
    <3>1. QED
      BY <1>2
  <2>2. \A k \in 1..N, q \in A : step[k][q] = One(k, q)
    OBVIOUS
  <2> HIDE DEF step, N, A
  <2>3. PICK f : Recursion(f, N, A, ns, step)
    BY <1>1, <2>1, RecursionExists DEF A
  <2> DEFINE g == [k \in 0..N |-> IF k = 0 THEN ns ELSE One(k, f[k - 1])]
  <2>4. ASSUME NEW k \in 0..N
        PROVE  f[k] = g[k]
    <3>1. CASE k = 0
      BY <3>1, <2>3 DEF Recursion
    <3>2. CASE k # 0
      <4>1. k \in 1..N /\ k - 1 \in 0..N
        BY <3>2, <1>1
      <4>2. f[k - 1] \in A /\ f[k] = step[k][f[k - 1]]
        BY <4>1, <2>3 DEF Recursion
      <4> HIDE DEF One
      <4>3. QED
        BY <4>1, <4>2, <2>2, <3>2
    <3>3. QED
      BY <3>1, <3>2
  <2>5. f = [k \in 0..N |-> f[k]]
    BY <2>3 DEF Recursion
  <2> HIDE DEF g
  <2>6. f = g
    BY <2>4, <2>5 DEF g
  <2>7. QED
    BY <2>6 DEF g
<1>4. IsUpto(Upto)
  BY <1>3
<1>5. WithLsas(ns, lsas) = Upto[N]
  BY DEF WithLsas
<1> HIDE DEF Upto
<1>6. Upto[0] = ns /\ \A k \in 0..(N - 1) : Upto[k + 1] = One(k + 1, Upto[k])
  <2>1. \A k \in 0..N : Upto[k] = IF k = 0 THEN ns ELSE One(k, Upto[k - 1])
    BY <1>4
  <2>2. \A k \in 0..(N - 1) : k + 1 \in 0..N /\ k + 1 # 0 /\ (k + 1) - 1 = k
    BY <1>1
  <2>3. 0 \in 0..N
    BY <1>1
  <2> HIDE DEF N, One
  <2>4. QED
    BY <2>1, <2>2, <2>3
<1> DEFINE Met(k) == /\ Upto[k] \in A /\ ToSet(ns) \subseteq ToSet(Upto[k])
                     /\ \A i \in 1..k : lsas[i].rid # NoRid => lsas[i].rid \in ToSet(Upto[k])
           T == {k \in 0..N : Met(k)}
<1>7. 0 \in T
  BY <1>1, <1>6
<1>8. ASSUME NEW k \in 0..(N - 1), k \in T
      PROVE  k + 1 \in T
  <2>1. k + 1 \in 1..N /\ k + 1 \in 0..N /\ Upto[k] \in A /\ Upto[k + 1] = One(k + 1, Upto[k])
    BY <1>1, <1>6, <1>8
  <2>2. /\ Upto[k + 1] \in A /\ ToSet(Upto[k]) \subseteq ToSet(Upto[k + 1])
        /\ lsas[k + 1].rid # NoRid => lsas[k + 1].rid \in ToSet(Upto[k + 1])
    <3> HIDE DEF One, A
    <3>1. QED
      BY <1>2, <2>1
  <2>3. \A i \in 1..(k + 1) : i = k + 1 \/ i \in 1..k
    OBVIOUS
  <2> HIDE DEF A
  <2>4. Met(k + 1)
    BY <1>8, <2>2, <2>3
  <2> HIDE DEF Met
  <2>5. QED
    BY <2>1, <2>4
<1>9. Met(N)
  <2> HIDE DEF Met
  <2>1. \A k \in 0..N : k \in T
    <3> HIDE DEF T, N
    <3>1. QED
      BY <1>1, <1>7, <1>8, UpTo
  <2>2. QED
    BY <1>1, <2>1
<1>10. \A a \in ToSet(lsas) : \E i \in 1..N : a = lsas[i]
  BY <1>1 DEF ToSet
<1>11. QED
  BY <1>5, <1>9, <1>10

LEMMA NodesAreMet ==
    ASSUME NEW self \in Router, NEW d \in Seq(Entry)
    PROVE  /\ Nodes(self, d) \in NodeLists(self)
           /\ \A e \in ToSet(d) :
                 /\ e.rid \in ToSet(Nodes(self, d))
                 /\ \A a \in ToSet(e.lsas) : a.rid # NoRid => a.rid \in ToSet(Nodes(self, d))
<1> DEFINE N == Len(d)
           A == NodeLists(self)
           One(k, q) == WithLsas(AddNode(q, d[k].rid), d[k].lsas)
           step == [k \in 1..N |-> [q \in A |-> One(k, q)]]
           IsUpto(f) == f = [k \in 0..N |-> IF k = 0 THEN <<self>> ELSE One(k, f[k - 1])]
           Upto == CHOOSE f : IsUpto(f)
           Knows(q, e) == /\ e.rid \in ToSet(q)
                          /\ \A a \in ToSet(e.lsas) : a.rid # NoRid => a.rid \in ToSet(q)
<1>1. N \in Nat /\ DOMAIN d = 1..N /\ \A k \in 1..N : d[k] \in Entry
  OBVIOUS
<1>2. <<self>> \in A
  BY DEF NodeLists
<1>3. \A k \in 1..N, q \in A :
          One(k, q) \in A /\ ToSet(q) \subseteq ToSet(One(k, q)) /\ Knows(One(k, q), d[k])
  <2>1. ASSUME NEW k \in 1..N, NEW q \in A
        PROVE  One(k, q) \in A /\ ToSet(q) \subseteq ToSet(One(k, q)) /\ Knows(One(k, q), d[k])
    <3>1. d[k].rid \in Router /\ d[k].lsas \in Seq(Lsa)
      BY <1>1 DEF Entry
    <3> DEFINE more == AddNode(q, d[k].rid)
    <3>2. more \in A /\ ToSet(more) = ToSet(q) \cup {d[k].rid}
      BY <3>1, NodeIsAdded
    <3> HIDE DEF more
    <3>3. /\ WithLsas(more, d[k].lsas) \in A
          /\ ToSet(more) \subseteq ToSet(WithLsas(more, d[k].lsas))
          /\ \A a \in ToSet(d[k].lsas) :
                a.rid # NoRid => a.rid \in ToSet(WithLsas(more, d[k].lsas))
      BY <3>1, <3>2, LsasAreMet
    <3>4. One(k, q) = WithLsas(more, d[k].lsas)
      BY DEF more
    <3> HIDE DEF One, A
    <3>5. QED
      BY <3>2, <3>3, <3>4
  <2>2. QED
    BY <2>1
<1> HIDE DEF A
<1>4. \E f : IsUpto(f)
  <2> HIDE DEF One
  <2>1. step \in [1..N -> [A -> A]]
    BY <1>3
  <2>2. \A k \in 1..N, q \in A : step[k][q] = One(k, q)
    OBVIOUS
  <2> HIDE DEF step, N
  <2>3. PICK f : Recursion(f, N, A, <<self>>, step)
    BY <1>1, <1>2, <2>1, RecursionExists
  <2> DEFINE g == [k \in 0..N |-> IF k = 0 THEN <<self>> ELSE One(k, f[k - 1])]
  <2>4. ASSUME NEW k \in 0..N
        PROVE  f[k] = g[k]
    <3>1. CASE k = 0
      BY <3>1, <2>3 DEF Recursion
    <3>2. CASE k # 0
      <4>1. k \in 1..N /\ k - 1 \in 0..N
        BY <3>2, <1>1
      <4>2. f[k - 1] \in A /\ f[k] = step[k][f[k - 1]]
        BY <4>1, <2>3 DEF Recursion
      <4>3. QED
        BY <4>1, <4>2, <2>2, <3>2
    <3>3. QED
      BY <3>1, <3>2
  <2>5. f = [k \in 0..N |-> f[k]]
    BY <2>3 DEF Recursion
  <2> HIDE DEF g
  <2>6. f = g
    BY <2>4, <2>5 DEF g
  <2>7. QED
    BY <2>6 DEF g
<1>5. IsUpto(Upto)
  BY <1>4
<1>6. Nodes(self, d) = Upto[N]
  BY DEF Nodes
<1> HIDE DEF Upto
<1>7. Upto[0] = <<self>> /\ \A k \in 0..(N - 1) : Upto[k + 1] = One(k + 1, Upto[k])
  <2> HIDE DEF One
  <2>1. \A k \in 0..N : Upto[k] = IF k = 0 THEN <<self>> ELSE One(k, Upto[k - 1])
    BY <1>5
  <2>2. \A k \in 0..(N - 1) : k + 1 \in 0..N /\ k + 1 # 0 /\ (k + 1) - 1 = k
    BY <1>1
  <2>3. 0 \in 0..N
    BY <1>1
  <2> HIDE DEF N
  <2>4. QED
    BY <2>1, <2>2, <2>3
<1> DEFINE Met(k) == Upto[k] \in A /\ \A i \in 1..k : Knows(Upto[k], d[i])
           T == {k \in 0..N : Met(k)}
<1>8. 0 \in T
  BY <1>1, <1>2, <1>7
<1>9. ASSUME NEW k \in 0..(N - 1), k \in T
      PROVE  k + 1 \in T
  <2>1. k + 1 \in 1..N /\ k + 1 \in 0..N /\ Upto[k] \in A /\ Upto[k + 1] = One(k + 1, Upto[k])
    <3> HIDE DEF One
    <3>1. QED
      BY <1>1, <1>7, <1>9
  <2>2. /\ Upto[k + 1] \in A /\ ToSet(Upto[k]) \subseteq ToSet(Upto[k + 1])
        /\ Knows(Upto[k + 1], d[k + 1])
    <3> HIDE DEF One, Knows
    <3>1. QED
      BY <1>3, <2>1
  <2>3. \A i \in 1..(k + 1) : i = k + 1 \/ i \in 1..k
    OBVIOUS
  <2>4. \A i \in 1..k : Knows(Upto[k + 1], d[i])
    BY <1>9, <2>2
  <2>5. Met(k + 1)
    <3> HIDE DEF Knows
    <3>1. QED
      BY <2>2, <2>3, <2>4
  <2> HIDE DEF Met
  <2>6. QED
    BY <2>1, <2>5
<1>10. Met(N)
  <2> HIDE DEF Met
  <2>1. \A k \in 0..N : k \in T
    <3> HIDE DEF T, N
    <3>1. QED
      BY <1>1, <1>8, <1>9, UpTo
  <2>2. QED
    BY <1>1, <2>1
<1>11. \A e \in ToSet(d) : \E i \in 1..N : e = d[i]
  BY <1>1 DEF ToSet
<1>12. QED
  BY <1>6, <1>10, <1>11 DEF A

-----------------------------------------------------------------------------
\* What the routers say of themselves, and what the others make of it.

LEMMA ListOfSet ==
    ASSUME NEW S, IsFiniteSet(S)
    PROVE  SetToSeq(S) \in Seq(S) /\ ToSet(SetToSeq(S)) = S
<1> DEFINE n == Cardinality(S)
           f == SetToSeq(S)
<1>1. n \in Nat /\ ExistsBijection(1..n, S)
  BY FS_CardinalityType
<1>2. \E g \in [1..n -> S] : IsInjective(g)
  BY <1>1 DEF ExistsBijection, Bijection, Injection
<1>3. f \in [1..n -> S] /\ IsInjective(f)
  BY <1>2 DEF SetToSeq
<1> HIDE DEF f
<1>4. f \in Injection(1..n, S)
  BY <1>3 DEF Injection
<1>5. Cardinality(1..n) = n
  BY <1>1, AllPlaces
<1>6. f \in Surjection(1..n, S)
  BY <1>4, <1>5, FS_Injection
<1>7. f \in Seq(S) /\ DOMAIN f = 1..n
  BY <1>1, <1>3
<1>8. ToSet(f) = S
  BY <1>3, <1>6, <1>7 DEF ToSet, Surjection
<1>9. QED
  BY <1>7, <1>8 DEF f

\* A router names what it is attached to, and its neighbours.
LEMMA LsasNameLinks ==
    ASSUME graph \in Graphs, NEW r \in Router
    PROVE  /\ Lsas(r) \in Seq(Lsa)
           /\ {a.net : a \in ToSet(Lsas(r))} = Attached(r)
           /\ \A a \in ToSet(Lsas(r)) : a.rid = NoRid \/ a.rid \in Linked(r)
           /\ \A s \in Linked(r) : \E a \in ToSet(Lsas(r)) : a.rid = s
<1> DEFINE Nbrs == SetToSeq(Linked(r))
           To(s) == [net |-> {r, s}, rid |-> s]
           ToHosts == [net |-> {r}, rid |-> NoRid]
           links == [i \in 1..Len(Nbrs) |-> To(Nbrs[i])]
           hosts == IF r \in Stub THEN <<ToHosts>> ELSE <<>>
<1>1. Linked(r) \subseteq Router /\ IsFiniteSet(Linked(r))
  <2>1. Linked(r) \in SUBSET Router
    BY DEF Linked
  <2>2. QED
    BY <2>1, RouterAssumption, FS_Subset
<1>2. /\ Nbrs \in Seq(Linked(r)) /\ ToSet(Nbrs) = Linked(r)
      /\ Len(Nbrs) \in Nat /\ DOMAIN Nbrs = 1..Len(Nbrs)
  BY <1>1, ListOfSet
<1> HIDE DEF Nbrs
<1>3. \A i \in 1..Len(Nbrs) : Nbrs[i] \in Linked(r)
  BY <1>2
<1>4. /\ \A s : To(s).net = {r, s} /\ To(s).rid = s
      /\ \A s \in Linked(r) : To(s) \in Lsa
      /\ ToHosts.net = {r} /\ ToHosts.rid = NoRid /\ ToHosts \in Lsa
  BY <1>1 DEF Lsa
<1>5. Lsas(r) = links \o hosts
  BY DEF Lsas, Nbrs
<1> HIDE DEF To, ToHosts
<1>6. links \in Seq(Lsa) /\ Len(links) \in Nat /\ DOMAIN links = 1..Len(links)
      /\ ToSet(links) = {To(s) : s \in Linked(r)}
  <2>1. links \in [1..Len(Nbrs) -> Lsa]
    BY <1>3, <1>4
  <2>2. links \in Seq(Lsa) /\ Len(links) = Len(Nbrs)
    <3> HIDE DEF links
    <3>1. QED
      BY <1>2, <2>1
  <2>3. \A i \in 1..Len(Nbrs) : links[i] = To(Nbrs[i])
    OBVIOUS
  <2>4. \A s \in Linked(r) : \E i \in 1..Len(Nbrs) : s = Nbrs[i]
    BY <1>2 DEF ToSet
  <2> HIDE DEF links
  <2>5. ToSet(links) = {To(s) : s \in Linked(r)}
    <3>1. ASSUME NEW x \in ToSet(links)
          PROVE  x \in {To(s) : s \in Linked(r)}
      <4>1. PICK i \in 1..Len(Nbrs) : x = links[i]
        BY <2>1, <3>1 DEF ToSet
      <4>2. QED
        BY <1>3, <2>3, <4>1
    <3>2. ASSUME NEW s \in Linked(r)
          PROVE  To(s) \in ToSet(links)
      <4>1. PICK i \in 1..Len(Nbrs) : s = Nbrs[i]
        BY <2>4
      <4>2. To(s) = links[i] /\ i \in DOMAIN links
        BY <2>1, <2>3, <4>1
      <4>3. QED
        BY <4>2 DEF ToSet
    <3>3. QED
      BY <3>1, <3>2
  <2>6. QED
    BY <1>2, <2>2, <2>5
<1>7. /\ hosts \in Seq(Lsa) /\ Len(hosts) \in Nat
      /\ ToSet(hosts) = IF r \in Stub THEN {ToHosts} ELSE {}
  <2>1. ToHosts \in Lsa
    BY <1>4
  <2>2. CASE r \in Stub
    BY <2>1, <2>2 DEF ToSet
  <2>3. CASE r \notin Stub
    BY <2>3 DEF ToSet
  <2>4. QED
    BY <2>2, <2>3
<1> HIDE DEF links, hosts
<1>8. ToSet(links \o hosts) = ToSet(links) \cup ToSet(hosts)
  <2> DEFINE both == links \o hosts
             m == Len(links)
             h == Len(hosts)
  <2>1. /\ m \in Nat /\ h \in Nat /\ DOMAIN links = 1..m /\ DOMAIN hosts = 1..h
        /\ DOMAIN both = 1..(m + h)
        /\ \A i \in 1..m : both[i] = links[i]
        /\ \A i \in 1..h : both[m + i] = hosts[i]
    BY <1>6, <1>7
  <2>2. \A i \in 1..(m + h) : i \in 1..m \/ (i - m \in 1..h /\ i = m + (i - m))
    BY <2>1
  <2>3. \A i \in 1..m : i \in 1..(m + h)
    BY <2>1
  <2>4. \A i \in 1..h : m + i \in 1..(m + h)
    BY <2>1
  <2> HIDE DEF both, m, h
  <2>5. ToSet(both) = ToSet(links) \cup ToSet(hosts)
    <3>1. ASSUME NEW i \in 1..(m + h)
          PROVE  both[i] \in ToSet(links) \cup ToSet(hosts)
      <4>1. CASE i \in 1..m
        BY <2>1, <4>1 DEF ToSet
      <4>2. CASE i \notin 1..m
        <5>1. both[i] = hosts[i - m] /\ i - m \in 1..h
          BY <2>1, <2>2, <4>2
        <5>2. QED
          BY <2>1, <5>1 DEF ToSet
      <4>3. QED
        BY <4>1, <4>2
    <3>2. ToSet(links) \subseteq ToSet(both)
      BY <2>1, <2>3 DEF ToSet
    <3>3. ToSet(hosts) \subseteq ToSet(both)
      BY <2>1, <2>4 DEF ToSet
    <3>4. ToSet(both) = {both[i] : i \in 1..(m + h)}
      BY <2>1 DEF ToSet
    <3>5. QED
      BY <3>1, <3>2, <3>3, <3>4
  <2>6. QED
    BY <2>5 DEF both
<1>9. ToSet(Lsas(r)) = {To(s) : s \in Linked(r)} \cup (IF r \in Stub THEN {ToHosts} ELSE {})
  BY <1>5, <1>6, <1>7, <1>8
<1>10. Lsas(r) \in Seq(Lsa)
  BY <1>5, <1>6, <1>7
<1>11. {a.net : a \in ToSet(Lsas(r))} = Attached(r)
  <2>1. ASSUME NEW x \in Attached(r)
        PROVE  \E a \in ToSet(Lsas(r)) : x = a.net
    <3>1. CASE \E s \in Linked(r) : x = {r, s}
      <4>1. PICK s \in Linked(r) : x = {r, s}
        BY <3>1
      <4>2. To(s) \in ToSet(Lsas(r)) /\ x = To(s).net
        BY <4>1, <1>4, <1>9
      <4>3. QED
        BY <4>2
    <3>2. CASE r \in Stub /\ x = {r}
      <4>1. ToHosts \in ToSet(Lsas(r)) /\ x = ToHosts.net
        BY <3>2, <1>4, <1>9
      <4>2. QED
        BY <4>1
    <3>3. QED
      BY <3>1, <3>2 DEF Attached
  <2>2. \A a \in ToSet(Lsas(r)) : a.net \in Attached(r)
    BY <1>4, <1>9 DEF Attached
  <2>3. QED
    BY <2>1, <2>2
<1>12. \A a \in ToSet(Lsas(r)) : a.rid = NoRid \/ a.rid \in Linked(r)
  BY <1>4, <1>9
<1>13. \A s \in Linked(r) : To(s) \in ToSet(Lsas(r)) /\ To(s).rid = s
  BY <1>4, <1>9
<1>14. QED
  BY <1>10, <1>11, <1>12, <1>13

LEMMA WithinIsReachable ==
    ASSUME NEW r \in Router, NEW k \in 0..Routers
    PROVE  Within(r)[k] \subseteq Reachable(r)
<1> DEFINE T == {j \in 0..Routers : Within(r)[Routers - j] \subseteq Reachable(r)}
<1>1. Routers \in Nat
  BY RoutersIsNat
<1>2. 0 \in T
  BY <1>1 DEF Reachable, Routers
<1>3. ASSUME NEW j \in 0..(Routers - 1), j \in T
      PROVE  j + 1 \in T
  <2>1. Routers - (j + 1) \in 0..(Routers - 1) /\ (Routers - (j + 1)) + 1 = Routers - j
        /\ j + 1 \in 0..Routers
    BY <1>1
  <2>2. Within(r)[Routers - (j + 1)] \subseteq Within(r)[Routers - j]
    BY <2>1, WithinGoesOn
  <2>3. Within(r)[Routers - j] \subseteq Reachable(r)
    BY <1>3
  <2>4. QED
    BY <2>1, <2>2, <2>3
<1>4. \A j \in 0..Routers : j \in T
  <2> HIDE DEF T
  <2>1. QED
    BY <1>1, <1>2, <1>3, UpTo
<1>5. Routers - k \in 0..Routers /\ Routers - (Routers - k) = k
  BY <1>1
<1>6. QED
  BY <1>4, <1>5

-----------------------------------------------------------------------------
\* The databases of the routers are made of what the others say.

HeardFrom(r, d) ==
    /\ d \in Seq(Entry)
    /\ \A e \in ToSet(d) : e.rid \in Reachable(r) \ {r} /\ e.lsas = Lsas(e.rid)

Table(r) ==
    IF db[r] = <<>> THEN [n \in Attached(r) |-> r]
    ELSE Rebuilt(r, Attached(r), Linked(r), db[r])

RoutesInv ==
    /\ graph \in Graphs
    /\ DOMAIN db = Router /\ DOMAIN rtable = Router
    /\ \A r \in Router : HeardFrom(r, db[r]) /\ rtable[r] = Table(r)

LEMMA RoutesInit == Init => RoutesInv
<1> SUFFICES ASSUME Init
             PROVE  RoutesInv
  OBVIOUS
<1>1. \A r \in Router : db[r] = <<>> /\ rtable[r] = [n \in Attached(r) |-> r]
  BY DEF Init
<1>2. \A r \in Router : HeardFrom(r, <<>>)
  <2>1. <<>> \in Seq(Entry)
    OBVIOUS
  <2>2. ToSet(<<>>) = {}
    BY DEF ToSet
  <2>3. QED
    BY <2>1, <2>2 DEF HeardFrom
<1>3. QED
  BY <1>1, <1>2 DEF Init, RoutesInv, Table

\* A network that does not change looks the same after a step.
LEMMA NetworkStays ==
    ASSUME UNCHANGED graph
    PROVE  /\ \A r : Linked(r)' = Linked(r) /\ Attached(r)' = Attached(r)
           /\ \A r : Lsas(r)' = Lsas(r)
           /\ \A r : Reachable(r)' = Reachable(r)
<1>1. \A r : Linked(r)' = Linked(r)
  BY DEF Linked
<1>2. \A r : Attached(r)' = Attached(r)
  BY DEF Attached, Linked
<1>3. \A r : Lsas(r)' = Lsas(r)
  BY DEF Lsas, Linked
<1>4. \A r : Reachable(r)' = Reachable(r)
  BY DEF Reachable, Within, Linked
<1>5. QED
  BY <1>1, <1>2, <1>3, <1>4

LEMMA RoutesStep == RoutesInv /\ [Next]_vars => RoutesInv'
<1> SUFFICES ASSUME RoutesInv, [Next]_vars
             PROVE  RoutesInv'
  OBVIOUS
<1>1. UNCHANGED graph
  BY DEF Next, Learn, vars
<1>2. /\ \A r : Linked(r)' = Linked(r) /\ Attached(r)' = Attached(r)
      /\ \A r : Lsas(r)' = Lsas(r) /\ Reachable(r)' = Reachable(r)
  BY <1>1, NetworkStays
<1>3. ASSUME NEW r \in Router, NEW d, HeardFrom(r, d)
      PROVE  /\ d \in Seq(Entry)
             /\ \A e \in ToSet(d) : e.rid \in Reachable(r)' \ {r} /\ e.lsas = Lsas(e.rid)'
  BY <1>2, <1>3 DEF HeardFrom
<1>4. ASSUME NEW r \in Router, db[r]' = db[r], rtable[r]' = rtable[r]
      PROVE  HeardFrom(r, db[r])' /\ (rtable[r] = Table(r))'
  <2>1. HeardFrom(r, db[r]) /\ rtable[r] = Table(r)
    BY DEF RoutesInv
  <2>2. HeardFrom(r, db[r])'
    BY <1>3, <1>4, <2>1 DEF HeardFrom
  <2>3. Table(r)' = Table(r)
    BY <1>2, <1>4 DEF Table
  <2>4. QED
    BY <1>4, <2>1, <2>2, <2>3
<1>5. CASE UNCHANGED vars
  BY <1>1, <1>4, <1>5 DEF vars, RoutesInv
<1>6. CASE Next
  <2>1. PICK r \in Router, o \in Router : Learn(r, o)
    BY <1>6 DEF Next
  <2>0. PICK e : e = [rid |-> o, lsas |-> Lsas(o)]
    OBVIOUS
  <2>2. /\ o \in Reachable(r) \ {r}
        /\ db' = [db EXCEPT ![r] = Append(db[r], e)]
        /\ rtable' = [rtable EXCEPT ![r] = Rebuilt(r, Attached(r), Linked(r), db'[r])]
    BY <2>0, <2>1 DEF Learn
  <2>3. DOMAIN db = Router /\ DOMAIN rtable = Router /\ graph \in Graphs /\ HeardFrom(r, db[r])
    BY DEF RoutesInv
  <2>4. /\ db'[r] = Append(db[r], e) /\ DOMAIN db' = Router /\ DOMAIN rtable' = Router
        /\ rtable'[r] = Rebuilt(r, Attached(r), Linked(r), db'[r])
    BY <2>2, <2>3
  <2>5. e \in Entry /\ e.rid = o /\ e.lsas = Lsas(o)
    BY <2>0, <2>3, LsasNameLinks DEF Entry
  <2>6. /\ db'[r] \in Seq(Entry) /\ db'[r] # <<>>
        /\ ToSet(db'[r]) = ToSet(db[r]) \cup {e}
    <3> DEFINE old == db[r]
               new == Append(old, e)
    <3>1. old \in Seq(Entry)
      BY <2>3 DEF HeardFrom
    <3>2. /\ new \in Seq(Entry) /\ Len(old) \in Nat /\ Len(new) = Len(old) + 1
          /\ \A i \in 1..Len(old) : new[i] = old[i]
          /\ new[Len(old) + 1] = e
      BY <3>1, <2>5, OneMore
    <3> HIDE DEF old, new
    <3>3. DOMAIN new = 1..(Len(old) + 1) /\ DOMAIN old = 1..Len(old)
      BY <3>1, <3>2
    <3>4. 1..(Len(old) + 1) = (1..Len(old)) \cup {Len(old) + 1}
      BY <3>2
    <3>5. ToSet(new) = ToSet(old) \cup {e}
      BY <3>2, <3>3, <3>4 DEF ToSet
    <3>6. new # <<>>
      BY <3>2
    <3>7. QED
      BY <2>4, <3>2, <3>5, <3>6 DEF old, new
  <2>7. HeardFrom(r, db[r])'
    <3>1. \A x \in ToSet(db[r]) : x.rid \in Reachable(r)' \ {r} /\ x.lsas = Lsas(x.rid)'
      BY <1>3, <2>3
    <3>2. Lsas(o)' = Lsas(o) /\ Reachable(r)' = Reachable(r)
      BY <1>2
    <3>3. e.rid \in Reachable(r)' \ {r} /\ e.lsas = Lsas(e.rid)'
      BY <2>2, <2>5, <3>2
    <3>4. \A x \in ToSet(db'[r]) : x.rid \in Reachable(r)' \ {r} /\ x.lsas = Lsas(x.rid)'
      BY <2>6, <3>1, <3>3
    <3>5. QED
      BY <2>6, <3>4 DEF HeardFrom
  <2>8. (rtable[r] = Table(r))'
    BY <1>2, <2>4, <2>6 DEF Table
  <2>9. \A q \in Router \ {r} : db'[q] = db[q] /\ rtable'[q] = rtable[q]
    BY <2>2, <2>3
  <2>10. \A q \in Router : HeardFrom(q, db[q])' /\ (rtable[q] = Table(q))'
    BY <1>4, <2>7, <2>8, <2>9
  <2>11. QED
    BY <1>1, <2>3, <2>4, <2>10 DEF RoutesInv
<1>7. QED
  BY <1>5, <1>6


-----------------------------------------------------------------------------
\* What a router that has heard of all the others computes.

LEMMA EdgesAreHeard ==
    ASSUME graph \in Graphs, NEW r \in Router, NEW d, HeardFrom(r, d)
    PROVE  /\ \A a, b : {a, b} \in Edges(d) => b \in Linked(a)
           /\ \A e \in ToSet(d) : \A s \in Linked(e.rid) : {e.rid, s} \in Edges(d)
<1>1. \A e \in ToSet(d) : /\ e.rid \in Router /\ e.lsas = Lsas(e.rid)
                          /\ \A a \in ToSet(e.lsas) : a.rid = NoRid \/ a.rid \in Linked(e.rid)
                          /\ \A s \in Linked(e.rid) : \E a \in ToSet(e.lsas) : a.rid = s
  <2>1. ASSUME NEW e \in ToSet(d)
        PROVE  e.rid \in Router /\ e.lsas = Lsas(e.rid)
    <3>1. e \in Entry
      BY DEF HeardFrom, ToSet
    <3>2. QED
      BY <3>1 DEF HeardFrom, Entry
  <2>2. QED
    BY <2>1, LsasNameLinks
<1>2. ASSUME NEW a, NEW b, {a, b} \in Edges(d)
      PROVE  b \in Linked(a)
  <2>1. PICK e \in ToSet(d) : \E l \in ToSet(e.lsas) : /\ l.rid \notin {NoRid, e.rid}
                                                       /\ {a, b} = {e.rid, l.rid}
    BY <1>2 DEF Edges
  <2>2. PICK l \in ToSet(e.lsas) : l.rid \notin {NoRid, e.rid} /\ {a, b} = {e.rid, l.rid}
    BY <2>1
  <2>3. e.rid \in Router /\ l.rid \in Linked(e.rid)
    BY <1>1, <2>2
  <2>4. e.rid \in Linked(l.rid)
    BY <2>3, LinkedIsSymmetric
  <2>5. (a = e.rid /\ b = l.rid) \/ (a = l.rid /\ b = e.rid)
    BY <2>2
  <2>6. QED
    BY <2>3, <2>4, <2>5
<1>3. ASSUME NEW e \in ToSet(d), NEW s \in Linked(e.rid)
      PROVE  {e.rid, s} \in Edges(d)
  <2>1. PICK a \in ToSet(e.lsas) : a.rid = s
    BY <1>1
  <2>2. s \in Router /\ {e.rid, s} \in graph
    BY <1>3 DEF Linked
  <2>3. s # NoRid
    BY <2>2, RouterAssumption
  <2>4. s # e.rid
    <3>1. PICK x \in Router, y \in Router : x # y /\ {e.rid, s} = {x, y}
      BY <2>2, GraphsAssumption
    <3>2. QED
      BY <3>1
  <2>5. a \in {l \in ToSet(e.lsas) : l.rid \notin {NoRid, e.rid}}
    BY <2>1, <2>3, <2>4
  <2>6. {e.rid, s} \in {{e.rid, l.rid} : l \in {m \in ToSet(e.lsas) : m.rid \notin {NoRid, e.rid}}}
    BY <2>1, <2>5
  <2>7. QED
    BY <2>6 DEF Edges
<1>4. QED
  BY <1>2, <1>3

LEMMA DatabaseIsSearched ==
    ASSUME graph \in Graphs, NEW r \in Router, NEW d, HeardFrom(r, d)
    PROVE  /\ Search(Nodes(r, d), Edges(d), Dijkstra(Nodes(r, d), Edges(d)))
           /\ Nodes(r, d)[1] = r
           /\ \A i \in 2..Len(Nodes(r, d)) : Nodes(r, d)[i] # r
<1> DEFINE ns == Nodes(r, d)
           n == Len(ns)
<1>1. ns \in NodeLists(r)
  BY NodesAreMet DEF HeardFrom
<1> HIDE DEF ns
<1>2. /\ ns \in Seq(Router) /\ n \in Nat /\ n >= 1 /\ ns[1] = r
      /\ \A i, j \in 1..n : ns[i] = ns[j] => i = j
  BY <1>1 DEF NodeLists
<1>3. n <= Routers
  <2>1. ns \in [1..n -> Router] /\ DOMAIN ns = 1..n
    BY <1>2
  <2>2. ns \in Injection(1..n, Router)
    BY <1>2, <2>1 DEF Injection, IsInjective
  <2>3. Cardinality(1..n) <= Cardinality(Router)
    BY <2>2, RouterAssumption, FS_Injection
  <2>4. QED
    BY <1>2, <2>3, AllPlaces DEF Routers
<1>4. EdgesAreLinks(ns, Edges(d))
  BY EdgesAreHeard DEF EdgesAreLinks, Adjacent
<1>5. Searched(ns, Edges(d), Dijkstra(ns, Edges(d)))
  BY <1>2, DijkstraSearches
<1>6. n \in 1..Routers
  BY <1>2, <1>3, RoutersIsNat
<1>7. \A i \in 2..n : i \in 1..n /\ 1 \in 1..n /\ i # 1
  BY <1>2
<1>8. QED
  BY <1>2, <1>4, <1>5, <1>6, <1>7 DEF Search, ns

\* It knows every link of the routers it has a way to.
LEMMA CompleteKnowsLinks ==
    ASSUME graph \in Graphs, NEW r \in Router, HeardFrom(r, db[r]), Complete(r)
    PROVE  LinksAreKnown(Nodes(r, db[r]), Edges(db[r]),
                         Dijkstra(Nodes(r, db[r]), Edges(db[r])))
<1> DEFINE d == db[r]
           ns == Nodes(r, d)
           st == Dijkstra(ns, Edges(d))
           n == Len(ns)
<1>1. Search(ns, Edges(d), st) /\ ns[1] = r
  BY DatabaseIsSearched
<1>2. /\ n \in Nat /\ DOMAIN ns = 1..n /\ Routers \in Nat /\ n <= Routers /\ n >= 1
      /\ st.dist \in [1..n -> 0..n] /\ \A i \in 1..n : ns[i] \in Router
  BY <1>1, RoutersIsNat DEF Search, Searched, Searches
<1>3. \A e \in ToSet(d) :
          /\ e.rid \in ToSet(ns)
          /\ \A a \in ToSet(e.lsas) : a.rid # NoRid => a.rid \in ToSet(ns)
  BY NodesAreMet DEF HeardFrom
<1> HIDE DEF ns, st
<1>4. ASSUME NEW i \in 1..n, st.dist[i] < n, NEW s \in Linked(ns[i])
      PROVE  \E j \in 1..n : ns[j] = s /\ Adjacent(ns, Edges(d), i, j)
  <2> DEFINE x == ns[i]
  <2>1. x \in Router /\ s \in Router /\ x \in Linked(s)
    BY <1>2, <1>4 DEF Linked
  <2>2. {x, s} \in Edges(d) /\ s \in ToSet(ns)
    <3>1. CASE x = r
      <4>1. 0 \in 0..(Routers - 1) /\ 1 \in 0..Routers /\ 0 + 1 = 1
        BY <1>2
      <4>2. s \in Within(r)[1]
        <5>1. Within(r)[0] = {r}
          BY WithinIsABall
        <5>2. Linked(r) \subseteq Within(r)[0 + 1]
          BY <4>1, <5>1, WithinGoesOn
        <5>3. QED
          BY <1>4, <3>1, <4>1, <5>2
      <4>3. s \in Reachable(r)
        BY <4>1, <4>2, WithinIsReachable
      <4>4. s # r
        <5>1. {x, s} \in graph
          BY <1>4 DEF Linked
        <5>2. PICK a \in Router, b \in Router : a # b /\ {x, s} = {a, b}
          BY <5>1, GraphsAssumption
        <5>3. QED
          BY <3>1, <5>2
      <4>5. PICK e \in ToSet(d) : e.rid = s
        BY <4>3, <4>4 DEF Complete
      <4>6. {s, x} \in Edges(d)
        BY <2>1, <4>5, EdgesAreHeard
      <4>7. QED
        BY <1>3, <4>5, <4>6
    <3>2. CASE x # r
      <4>1. x \in Within(r)[st.dist[i]]
        BY <1>1, <1>4, FoundIsNear
      <4>2. st.dist[i] \in 0..Routers
        BY <1>2
      <4>3. x \in Reachable(r)
        BY <4>1, <4>2, WithinIsReachable
      <4>4. PICK e \in ToSet(d) : e.rid = x
        BY <3>2, <4>3 DEF Complete
      <4>5. {x, s} \in Edges(d)
        BY <1>4, <4>4, EdgesAreHeard
      <4>6. s \in ToSet(ns)
        <5>1. e.lsas = Lsas(x)
          BY <4>4 DEF HeardFrom
        <5>2. PICK a \in ToSet(Lsas(x)) : a.rid = s
          BY <1>4, <2>1, LsasNameLinks
        <5>3. s # NoRid
          BY <2>1, RouterAssumption
        <5>4. QED
          BY <1>3, <4>4, <5>1, <5>2, <5>3
      <4>7. QED
        BY <4>5, <4>6
    <3>3. QED
      BY <3>1, <3>2
  <2>3. PICK j \in 1..n : ns[j] = s
    BY <1>2, <2>2 DEF ToSet
  <2>4. QED
    BY <2>2, <2>3 DEF Adjacent
<1>5. LinksAreKnown(ns, Edges(d), st)
  BY <1>4 DEF LinksAreKnown
<1>6. QED
  BY <1>5 DEF ns, st

\* The networks a router is attached to are those its entries name.
LEMMA NetsAreAttached ==
    ASSUME graph \in Graphs, NEW r \in Router, NEW d, HeardFrom(r, d), NEW s
    PROVE  /\ NetsOf(d, s) \subseteq Attached(s)
           /\ (\E e \in ToSet(d) : e.rid = s) => NetsOf(d, s) = Attached(s)
<1>1. ASSUME NEW e \in ToSet(d), e.rid = s
      PROVE  {a.net : a \in ToSet(e.lsas)} = Attached(s)
  <2>1. e \in Entry
    BY DEF HeardFrom, ToSet
  <2>2. s \in Router /\ e.lsas = Lsas(s)
    BY <1>1, <2>1 DEF HeardFrom, Entry
  <2>3. QED
    BY <2>2, LsasNameLinks
<1>2. NetsOf(d, s) = UNION {{a.net : a \in ToSet(e.lsas)} : e \in {f \in ToSet(d) : f.rid = s}}
  BY DEF NetsOf
<1>3. \A x \in NetsOf(d, s) : \E e \in ToSet(d) : e.rid = s /\ x \in {a.net : a \in ToSet(e.lsas)}
  BY <1>2
<1>4. NetsOf(d, s) \subseteq Attached(s)
  BY <1>1, <1>3
<1>5. ASSUME NEW e \in ToSet(d), e.rid = s
      PROVE  Attached(s) \subseteq NetsOf(d, s)
  <2>1. {a.net : a \in ToSet(e.lsas)} \subseteq NetsOf(d, s)
    BY <1>2, <1>5
  <2>2. QED
    BY <1>1, <1>5, <2>1
<1>6. QED
  BY <1>4, <1>5

IsShortest(r, net) ==
    LET away == Distance(r, net)
    IN  /\ net \in DOMAIN rtable[r] <=> away < Cardinality(Router)
        /\ away \in 1..(Cardinality(Router) - 1) =>
              /\ rtable[r][net] \in Linked(r)
              /\ Distance(rtable[r][net], net) = away - 1

LEMMA OwnNetworks ==
    ASSUME NEW r \in Router, NEW net
    PROVE  /\ Routers >= 1
           /\ net \in Attached(r) <=> Distance(r, net) = 0
<1>1. Routers \in Nat /\ Within(r)[0] = {r}
  BY RoutersIsNat, WithinIsABall
<1>2. Routers >= 1
  BY <1>1, RouterAssumption, FS_EmptySet DEF Routers
<1>3. Distance(r, net) \in 0..Routers
  BY DistanceIsLeast
<1>4. ASSUME net \in Attached(r)
      PROVE  Distance(r, net) = 0
  <2>1. 0 \in 0..Routers
    BY <1>1
  <2>2. Distance(r, net) <= 0
    BY <1>1, <1>4, <2>1, DistanceIsLeast
  <2>3. QED
    BY <1>1, <1>3, <2>2
<1>5. ASSUME Distance(r, net) = 0
      PROVE  net \in Attached(r)
  <2>1. \E s \in Within(r)[0] : net \in Attached(s)
    BY <1>1, <1>2, <1>5, DistanceIsLeast
  <2>2. QED
    BY <1>1, <2>1
<1>6. QED
  BY <1>2, <1>4, <1>5

LEMMA CompleteTableIsShortest ==
    ASSUME RoutesInv, NEW r \in Router, Complete(r), NEW net
    PROVE  IsShortest(r, net)
<1> DEFINE N == Routers
           away == Distance(r, net)
           d == db[r]
           own == Attached(r)
<1>1. /\ N \in Nat /\ N >= 1 /\ away \in 0..N /\ graph \in Graphs /\ HeardFrom(r, d)
      /\ rtable[r] = Table(r) /\ (net \in own <=> away = 0)
  BY RoutersIsNat, OwnNetworks, DistanceIsLeast DEF RoutesInv
<1>2. CASE d = <<>>
  <2>1. rtable[r] = [m \in own |-> r]
    BY <1>1, <1>2 DEF Table
  <2>2. Reachable(r) \subseteq {r}
    BY <1>2 DEF Complete, ToSet
  <2>3. away < N => away = 0
    <3>1. ASSUME away < N
          PROVE  net \in own
      <4>1. PICK s \in Within(r)[away] : net \in Attached(s)
        BY <1>1, <3>1, DistanceIsLeast
      <4>2. s \in Reachable(r)
        BY <1>1, <4>1, WithinIsReachable
      <4>3. QED
        BY <2>2, <4>1, <4>2
    <3>2. QED
      BY <1>1, <3>1
  <2>4. net \in DOMAIN rtable[r] <=> away < N
    BY <1>1, <2>1, <2>3
  <2>5. away \notin 1..(N - 1)
    BY <1>1, <2>3
  <2> HIDE DEF away
  <2>6. QED
    BY <2>4, <2>5 DEF IsShortest, Routers, away
<1>3. CASE d # <<>>
  <2> DEFINE ns == Nodes(r, d)
             n == Len(ns)
             st == Dijkstra(ns, Edges(d))
             Gateway(i) == FindRidIp(Linked(r), ns[FirstHop(st.prev, i)])
             Routed == {i \in 2..n : st.dist[i] \in 1..(n - 1) /\ Gateway(i) # NoRid}
             Owners == {i \in Routed : net \in NetsOf(d, ns[i])}
  <2>1. rtable[r] = [m \in own \cup UNION {NetsOf(d, ns[i]) : i \in Routed} |->
                        IF m \in own THEN r
                        ELSE Gateway(Nearest(st.dist, {i \in Routed : m \in NetsOf(d, ns[i])}))]
    BY <1>1, <1>3 DEF Table, Rebuilt
  <2>2. /\ Search(ns, Edges(d), st) /\ ns[1] = r /\ \A i \in 2..n : ns[i] # r
        /\ LinksAreKnown(ns, Edges(d), st)
    BY <1>1, DatabaseIsSearched, CompleteKnowsLinks
  <2> HIDE DEF ns, st
  <2>3. /\ n \in Nat /\ n >= 1 /\ n <= N /\ st.dist \in [1..n -> 0..n] /\ st.dist[1] = 0
        /\ \A i \in 1..n : ns[i] \in Router
        /\ \A i \in 2..n : st.dist[i] >= 1
    BY <1>1, <2>2 DEF Search, Searched, Searches, DistancesAreWalked
  \* The first hop of a node that is found.
  <2>4. ASSUME NEW i \in 2..n, st.dist[i] < n
        PROVE  /\ i \in Routed /\ Gateway(i) \in Linked(r)
               /\ ns[i] \in Within(Gateway(i))[st.dist[i] - 1]
    <3>1. /\ ns[FirstHop(st.prev, i)] \in Linked(r)
          /\ ns[i] \in Within(ns[FirstHop(st.prev, i)])[st.dist[i] - 1]
      BY <2>2, <2>4, FirstHopLeadsOn
    <3>2. Gateway(i) = ns[FirstHop(st.prev, i)]
      BY <3>1 DEF FindRidIp
    <3>3. Gateway(i) # NoRid
      BY <3>1, <3>2, RouterAssumption DEF Linked
    <3>4. st.dist[i] \in 1..(n - 1)
      BY <2>3, <2>4
    <3> HIDE DEF Gateway
    <3>5. QED
      BY <3>1, <3>2, <3>3, <3>4
  <2>5. \A i \in Routed : i \in 2..n /\ i \in 1..n /\ st.dist[i] \in 1..(n - 1) /\ st.dist[i] < n
    <3> HIDE DEF Gateway
    <3>1. QED
      BY <2>3
  <2> HIDE DEF Gateway, Routed
  \* An owner is not nearer than the network, and some owner is as near.
  <2>6. ASSUME NEW i \in Owners
        PROVE  away <= st.dist[i] /\ away < N
    <3>1. net \in Attached(ns[i])
      BY <1>1, NetsAreAttached
    <3>2. ns[i] \in Within(r)[st.dist[i]] /\ ns[i] \in Router
      BY <2>2, <2>3, <2>5, FoundIsNear
    <3>3. st.dist[i] \in 0..N /\ st.dist[i] < N
      BY <1>1, <2>3, <2>5
    <3>4. away <= st.dist[i]
      BY <3>1, <3>2, <3>3, DistanceIsLeast
    <3>5. QED
      BY <1>1, <3>3, <3>4
  <2>7. ASSUME away < N, away # 0
        PROVE  \E i \in Owners : st.dist[i] <= away
    <3>1. PICK s \in Within(r)[away] : net \in Attached(s)
      BY <1>1, <2>7, DistanceIsLeast
    <3>2. PICK i \in 1..n : ns[i] = s /\ st.dist[i] < n /\ st.dist[i] <= away
      BY <1>1, <2>2, <3>1, NearIsFound
    <3>3. s # r
      BY <1>1, <2>7, <3>1
    <3>4. i \in 2..n
      BY <2>2, <2>3, <3>2, <3>3
    <3>5. i \in Routed
      BY <2>4, <3>2, <3>4
    <3>6. s \in Reachable(r)
      BY <1>1, <3>1, WithinIsReachable
    <3>7. net \in NetsOf(d, s)
      BY <1>1, <3>1, <3>3, <3>6, NetsAreAttached DEF Complete
    <3>8. i \in Owners
      BY <3>2, <3>5, <3>7
    <3>9. QED
      BY <3>2, <3>8
  <2>8. net \in DOMAIN rtable[r] <=> net \in own \/ Owners # {}
    BY <2>1
  <2>9. net \in DOMAIN rtable[r] <=> away < N
    BY <1>1, <2>6, <2>7, <2>8
  <2>10. ASSUME away \in 1..(N - 1)
         PROVE  /\ rtable[r][net] \in Linked(r)
                /\ Distance(rtable[r][net], net) = away - 1
    <3>1. away < N /\ away # 0 /\ net \notin own
      BY <1>1, <2>10
    <3>2. PICK j \in Owners : st.dist[j] <= away
      BY <2>7, <3>1
    <3> DEFINE i == Nearest(st.dist, Owners)
    <3>3. i \in Owners /\ st.dist[i] <= st.dist[j]
      <4>1. st.dist \in [1..n -> Nat] /\ Owners \in SUBSET (1..n) /\ Owners # {}
        BY <2>3, <2>5, <3>2
      <4> HIDE DEF Owners
      <4>2. QED
        BY <2>3, <3>2, <4>1, NearestIsNearest
    <3>4. rtable[r][net] = Gateway(i)
      <4>1. net \in own \cup UNION {NetsOf(d, ns[x]) : x \in Routed}
        BY <3>3
      <4>2. Owners = {x \in Routed : net \in NetsOf(d, ns[x])}
        OBVIOUS
      <4> HIDE DEF Owners, own
      <4>3. QED
        BY <2>1, <3>1, <4>1, <4>2
    <3> HIDE DEF i
    <3>5. i \in 2..n /\ st.dist[i] \in 1..(n - 1) /\ st.dist[i] < n /\ st.dist[j] \in 1..(n - 1)
      BY <2>5, <3>2, <3>3
    <3>6. st.dist[i] = away
      BY <1>1, <2>3, <2>6, <3>2, <3>3, <3>5
    <3> DEFINE gw == Gateway(i)
    <3>7. gw \in Linked(r) /\ ns[i] \in Within(gw)[away - 1] /\ gw \in Router
      BY <2>4, <3>5, <3>6 DEF Linked
    <3> HIDE DEF gw
    <3>8. Distance(gw, net) <= away - 1
      <4>1. net \in Attached(ns[i]) /\ ns[i] \in Router
        BY <1>1, <2>3, <3>3, <3>5, NetsAreAttached
      <4>2. away - 1 \in 0..N
        BY <1>1, <2>10
      <4>3. QED
        BY <3>7, <4>1, <4>2, DistanceIsLeast
    <3>9. Distance(gw, net) \in 0..N /\ Distance(gw, net) \in 0..(N - 1)
      BY <1>1, <2>10, <3>7, <3>8, DistanceIsLeast
    <3>10. away <= Distance(gw, net) + 1
      <4> DEFINE near == Distance(gw, net)
      <4>1. near < N
        BY <1>1, <3>9
      <4>2. PICK s \in Within(gw)[near] : net \in Attached(s)
        BY <3>7, <4>1, DistanceIsLeast
      <4>3. s \in Within(r)[near + 1]
        BY <3>7, <3>9, <4>2, WithinOneMore
      <4>4. near + 1 \in 0..N
        BY <1>1, <3>9
      <4>5. s \in Router
        BY <3>7, <3>9, <4>2, WithinIsABall
      <4> HIDE DEF near
      <4>6. away <= near + 1
        BY <4>2, <4>3, <4>4, <4>5, DistanceIsLeast
      <4>7. QED
        BY <4>6 DEF near
    <3>11. Distance(gw, net) = away - 1
      <4> DEFINE near == Distance(gw, net)
      <4>1. near \in Nat /\ away \in Nat /\ near <= away - 1 /\ away <= near + 1
        BY <1>1, <3>8, <3>9, <3>10
      <4> HIDE DEF near, away
      <4>2. near = away - 1
        BY <4>1
      <4>3. QED
        BY <4>2 DEF near
    <3>12. QED
      BY <3>4, <3>7, <3>11 DEF gw
  <2> HIDE DEF away
  <2>11. QED
    BY <2>9, <2>10 DEF IsShortest, Routers, away
<1>4. QED
  BY <1>2, <1>3

\* The tables of mospf_update_rtable: once a router has heard of all the others its routes
\* lead to every network that there is a way to, by a neighbour one step closer to it,
\* whatever the network and whatever the order in which it heard.
THEOREM RoutesAreShortest == Spec => []ShortestRoutes
<1>1. Init => RoutesInv
  BY RoutesInit
<1>2. RoutesInv /\ [Next]_vars => RoutesInv'
  BY RoutesStep
<1>3. RoutesInv => ShortestRoutes
  <2>1. ASSUME RoutesInv
        PROVE  \A r \in Router : \A net : Complete(r) => IsShortest(r, net)
    BY <2>1, CompleteTableIsShortest
  <2>2. QED
    BY <2>1 DEF ShortestRoutes, IsShortest
<1>4. QED
  BY <1>1, <1>2, <1>3, PTL DEF Spec

-----------------------------------------------------------------------------
\* Shortest routes do not go round.

\* Those whose packets are forwarded to one of S.
PassedTo(net, S) ==
    {r \in Router : net \in DOMAIN rtable[r] /\ rtable[r][net] # r /\ rtable[r][net] \in S}

LEMMA OnTheirWayStepByStep ==
    ASSUME NEW net
    PROVE  \E f : /\ OnTheirWay(net) = f[Routers]
                  /\ f[0] = Router
                  /\ \A k \in 1..Routers : f[k] = PassedTo(net, f[k - 1])
<1> DEFINE N == Routers
           step == [k \in 1..N |-> [S \in SUBSET Router |-> PassedTo(net, S)]]
           IsStill(f) == f = [k \in 0..N |-> IF k = 0 THEN Router ELSE PassedTo(net, f[k - 1])]
           Still == CHOOSE f : IsStill(f)
<1>1. N \in Nat
  BY RoutersIsNat
<1>2. \A S : PassedTo(net, S) \in SUBSET Router
  BY DEF PassedTo
<1>3. \E f : IsStill(f)
  <2>1. step \in [1..N -> [SUBSET Router -> SUBSET Router]] /\ Router \in SUBSET Router
    BY <1>2
  <2>2. \A k \in 1..N, S \in SUBSET Router : step[k][S] = PassedTo(net, S)
    OBVIOUS
  <2> HIDE DEF step, N
  <2>3. PICK f : Recursion(f, N, SUBSET Router, Router, step)
    BY <1>1, <2>1, RecursionExists
  <2> DEFINE g == [k \in 0..N |-> IF k = 0 THEN Router ELSE PassedTo(net, f[k - 1])]
  <2>4. ASSUME NEW k \in 0..N
        PROVE  f[k] = g[k]
    <3>1. CASE k = 0
      BY <3>1, <2>3 DEF Recursion
    <3>2. CASE k # 0
      <4>1. k \in 1..N /\ k - 1 \in 0..N
        BY <3>2, <1>1
      <4>2. f[k - 1] \in SUBSET Router /\ f[k] = step[k][f[k - 1]]
        BY <4>1, <2>3 DEF Recursion
      <4>3. QED
        BY <4>1, <4>2, <2>2, <3>2
    <3>3. QED
      BY <3>1, <3>2
  <2>5. f = [k \in 0..N |-> f[k]]
    BY <2>3 DEF Recursion
  <2> HIDE DEF g
  <2>6. f = g
    BY <2>4, <2>5 DEF g
  <2>7. QED
    BY <2>6 DEF g
<1>4. IsStill(Still)
  BY <1>3
<1>5. OnTheirWay(net) = Still[N]
  BY DEF OnTheirWay, PassedTo, Routers
<1> HIDE DEF Still
<1>6. \A k \in 0..N : Still[k] = IF k = 0 THEN Router ELSE PassedTo(net, Still[k - 1])
  BY <1>4
<1>7. 0 \in 0..N /\ \A k \in 1..N : k \in 0..N /\ k # 0
  BY <1>1
<1>8. QED
  BY <1>5, <1>6, <1>7

\* What a router is attached to it does not forward.
LEMMA OwnPacketsStay ==
    ASSUME RoutesInv, NEW r \in Router, NEW net \in Attached(r)
    PROVE  rtable[r][net] = r
<1>1. rtable[r] = Table(r)
  BY DEF RoutesInv
<1>2. CASE db[r] = <<>>
  BY <1>1, <1>2 DEF Table
<1>3. CASE db[r] # <<>>
  <2>1. rtable[r] = Rebuilt(r, Attached(r), Linked(r), db[r])
    BY <1>1, <1>3 DEF Table
  <2>2. QED
    BY <2>1 DEF Rebuilt
<1>4. QED
  BY <1>2, <1>3

LEMMA ShortestDoNotLoop ==
    ASSUME RoutesInv, \A r \in Router : Complete(r), NEW net
    PROVE  OnTheirWay(net) = {}
<1> DEFINE N == Routers
<1>1. N \in Nat
  BY RoutersIsNat
<1>2. PICK f : /\ OnTheirWay(net) = f[N]
               /\ f[0] = Router
               /\ \A k \in 1..N : f[k] = PassedTo(net, f[k - 1])
  BY OnTheirWayStepByStep
<1>3. ASSUME NEW r \in Router, NEW S, r \in PassedTo(net, S)
      PROVE  /\ rtable[r][net] \in S /\ rtable[r][net] \in Router
             /\ Distance(r, net) \in 1..(N - 1)
             /\ Distance(rtable[r][net], net) = Distance(r, net) - 1
  <2>1. net \in DOMAIN rtable[r] /\ rtable[r][net] # r /\ rtable[r][net] \in S
    BY <1>3 DEF PassedTo
  <2>2. IsShortest(r, net)
    BY CompleteTableIsShortest
  <2>3. Distance(r, net) \in 0..N /\ Distance(r, net) < N
    BY <2>1, <2>2, DistanceIsLeast DEF IsShortest, Routers
  <2>4. Distance(r, net) # 0
    BY <2>1, OwnNetworks, OwnPacketsStay
  <2>5. Distance(r, net) \in 1..(N - 1)
    BY <1>1, <2>3, <2>4
  <2>6. rtable[r][net] \in Linked(r) /\ Distance(rtable[r][net], net) = Distance(r, net) - 1
    BY <2>2, <2>5 DEF IsShortest, Routers
  <2>7. QED
    BY <2>1, <2>5, <2>6 DEF Linked
<1> DEFINE T == {k \in 0..N : \A r \in f[k] : r \in Router /\ Distance(r, net) >= k}
<1>4. 0 \in T
  <2>1. \A r \in Router : Distance(r, net) \in 0..N
    BY DistanceIsLeast
  <2>2. \A r \in Router : Distance(r, net) >= 0
    BY <1>1, <2>1
  <2>3. QED
    BY <1>1, <1>2, <2>2
<1>5. ASSUME NEW k \in 0..(N - 1), k \in T
      PROVE  k + 1 \in T
  <2>1. k \in Nat /\ k + 1 \in 0..N /\ k + 1 \in 1..N /\ (k + 1) - 1 = k
    BY <1>1
  <2>2. f[k + 1] = PassedTo(net, f[k])
    BY <1>2, <2>1
  <2>3. ASSUME NEW r \in f[k + 1]
        PROVE  r \in Router /\ Distance(r, net) >= k + 1
    <3>1. r \in Router /\ r \in PassedTo(net, f[k])
      BY <2>2 DEF PassedTo
    <3>2. /\ rtable[r][net] \in f[k] /\ Distance(r, net) \in 1..(N - 1)
          /\ Distance(rtable[r][net], net) = Distance(r, net) - 1
      BY <1>3, <3>1
    <3>3. Distance(rtable[r][net], net) >= k
      BY <1>5, <3>2
    <3>4. QED
      BY <1>1, <2>1, <3>1, <3>2, <3>3
  <2>4. QED
    BY <2>1, <2>3
<1>6. \A k \in 0..N : k \in T
  <2> HIDE DEF T
  <2>1. QED
    BY <1>1, <1>4, <1>5, UpTo
<1>7. SUFFICES ASSUME NEW r \in f[N]
               PROVE  FALSE
  BY <1>2
<1>8. r \in Router /\ Distance(r, net) >= N
  <2>1. N \in 0..N
    BY <1>1
  <2>2. QED
    BY <1>6, <1>7, <2>1
<1>9. N >= 1
  BY <1>8, OwnNetworks
<1>10. f[N] = PassedTo(net, f[N - 1])
  <2>1. N \in 1..N
    BY <1>1, <1>9
  <2>2. QED
    BY <1>2, <2>1
<1>11. Distance(r, net) \in 1..(N - 1)
  BY <1>3, <1>7, <1>8, <1>10
<1>12. QED
  BY <1>1, <1>8, <1>11

\* Once all routers have heard of all the others they can reach, no packet goes round:
\* each hop brings it one link closer, in every network.
THEOREM SettledRoutesDoNotLoop == Spec => []SettledPacketsDoNotLoop
<1>1. Init => RoutesInv
  BY RoutesInit
<1>2. RoutesInv /\ [Next]_vars => RoutesInv'
  BY RoutesStep
<1>3. RoutesInv => SettledPacketsDoNotLoop
  BY ShortestDoNotLoop DEF SettledPacketsDoNotLoop
<1>4. QED
  BY <1>1, <1>2, <1>3, PTL DEF Spec
=============================================================================
