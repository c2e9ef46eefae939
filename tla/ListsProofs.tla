------------------------------ MODULE ListsProofs ----------------------------
(***************************************************************************)
(* Lemmas about the lists of Lists.  What a sieve returns is shown by      *)
(* induction along the list, in the form that no least length of a list is *)
(* an exception; what stands at a place of a list in order, by counting.   *)
(***************************************************************************)
EXTENDS Lists, FiniteSetTheorems, WellFoundedInduction, TLAPS

-----------------------------------------------------------------------------
\* Numbers: a set of them has a least member, which gives induction.

LEMMA LeastNumber ==
    ASSUME NEW T, T \subseteq Nat, T # {}
    PROVE  \E x \in T : \A y \in T : x <= y
<1>1. PICK x \in T : \A y \in T : ~(<<y, x>> \in OpToRel(<, Nat))
  BY WFMin, NatLessThanWellFounded
<1>2. ASSUME NEW y \in T
      PROVE  x <= y
  <2>1. x \in Nat /\ y \in Nat
    OBVIOUS
  <2>2. ~(y < x)
    BY <1>1, <2>1 DEF OpToRel
  <2>3. QED
    BY <2>1, <2>2
<1>3. QED
  BY <1>2

LEMMA GreatestNumber ==
    ASSUME NEW T, T \subseteq Nat, T # {}, NEW b \in Nat, \A y \in T : y <= b
    PROVE  \E x \in T : \A y \in T : y <= x
<1> DEFINE D == {b - y : y \in T}
<1>1. D \subseteq Nat /\ D # {}
  <2>1. \A y \in T : b - y \in Nat
    OBVIOUS
  <2>2. PICK y \in T : TRUE
    OBVIOUS
  <2>3. b - y \in D
    BY <2>2
  <2>4. QED
    BY <2>1, <2>3
<1>2. PICK d \in D : \A e \in D : d <= e
  BY <1>1, LeastNumber
<1>3. PICK x \in T : d = b - x
  OBVIOUS
<1>4. ASSUME NEW y \in T
      PROVE  y <= x
  <2>1. d <= b - y /\ x \in Nat /\ y \in Nat
    BY <1>2
  <2>2. QED
    BY <2>1, <1>3
<1>5. QED
  BY <1>4

\* Induction up to n for a set of numbers.
LEMMA UpTo ==
    ASSUME NEW n \in Nat, NEW S, 0 \in S, \A i \in 0..(n - 1) : i \in S => i + 1 \in S
    PROVE  \A i \in 0..n : i \in S
<1> SUFFICES ASSUME (0..n) \ S # {}
             PROVE  FALSE
  OBVIOUS
<1>1. PICK x \in (0..n) \ S : \A y \in (0..n) \ S : x <= y
  <2>1. (0..n) \ S \subseteq Nat
    OBVIOUS
  <2>2. QED
    BY <2>1, LeastNumber
<1>2. x # 0 /\ x \in 0..n
  OBVIOUS
<1>3. x - 1 \in 0..(n - 1) /\ x - 1 \in S
  BY <1>1, <1>2
<1>4. (x - 1) + 1 = x
  BY <1>2
<1>5. QED
  BY <1>3, <1>4

\* f is the recursion over 0..N with values in A that starts with base.
Recursion(f, N, A, base, step) ==
    /\ f \in [0..N -> A]
    /\ f[0] = base
    /\ \A n \in 1..N : f[n] = step[n][f[n - 1]]

\* There is one.
LEMMA RecursionExists ==
    ASSUME NEW N \in Nat, NEW A, NEW base \in A, NEW step \in [1..N -> [A -> A]]
    PROVE  \E f : Recursion(f, N, A, base, step)
<1> DEFINE Solves(f, n) == f[0] = base /\ \A i \in 1..n : f[i] = step[i][f[i - 1]]
           T == {n \in 0..N : \E f \in [0..n -> A] : Solves(f, n)}
<1>1. 0 \in T
  <2> DEFINE f == [i \in 0..0 |-> base]
  <2>1. f \in [0..0 -> A] /\ Solves(f, 0)
    OBVIOUS
  <2> HIDE DEF f
  <2>2. \E e \in [0..0 -> A] : Solves(e, 0)
    BY <2>1
  <2>3. 0 \in 0..N
    OBVIOUS
  <2> HIDE DEF Solves
  <2>4. QED
    BY <2>2, <2>3
<1>2. ASSUME NEW n \in 0..(N - 1), n \in T
      PROVE  n + 1 \in T
  <2>1. PICK f \in [0..n -> A] : Solves(f, n)
    BY <1>2
  <2> DEFINE last == step[n + 1][f[n]]
             g == [i \in 0..(n + 1) |-> IF i = n + 1 THEN last ELSE f[i]]
  <2>2. n \in Nat /\ n + 1 \in 1..N /\ n + 1 \in 0..N /\ f[n] \in A
    OBVIOUS
  <2>3. last \in A
    BY <2>2
  <2> HIDE DEF last
  <2>4. g \in [0..(n + 1) -> A]
    BY <2>2, <2>3
  <2>5. \A i \in 0..n : g[i] = f[i]
    BY <2>2
  <2>6. g[n + 1] = last
    BY <2>2
  <2> HIDE DEF g
  <2>7. ASSUME NEW i \in 1..(n + 1)
        PROVE  g[i] = step[i][g[i - 1]]
    <3>1. CASE i = n + 1
      <4>1. i - 1 = n /\ n \in 0..n
        BY <3>1, <2>2
      <4>2. QED
        BY <4>1, <3>1, <2>5, <2>6 DEF last
    <3>2. CASE i # n + 1
      <4>1. i \in 1..n /\ i - 1 \in 0..n /\ i \in 0..n
        BY <3>2, <2>2
      <4>2. QED
        BY <4>1, <2>1, <2>5
    <3>3. QED
      BY <3>1, <3>2
  <2>8. g[0] = base
    <3>1. 0 \in 0..n /\ f[0] = base
      BY <2>1, <2>2
    <3>2. QED
      BY <3>1, <2>5
  <2>9. QED
    BY <2>2, <2>4, <2>7, <2>8
<1>3. N \in T
  <2> HIDE DEF T
  <2>1. \A i \in 0..N : i \in T
    BY <1>1, <1>2, UpTo
  <2>2. QED
    BY <2>1
<1>4. PICK f \in [0..N -> A] : Solves(f, N)
  BY <1>3
<1>5. Recursion(f, N, A, base, step)
  BY <1>4 DEF Recursion
<1>6. QED
  BY <1>5

-----------------------------------------------------------------------------
\* Sieving a list, along the list.

\* f[n] is what the first n members leave behind.
Sieving(f, list, S) ==
    f = [n \in 0..Len(list) |->
            IF n = 0 THEN <<>>
            ELSE IF list[n] \in S THEN Append(f[n - 1], list[n]) ELSE f[n - 1]]

\* The same from one member to the next.
StepByStep(f, list, S, n) ==
    /\ f[0] = <<>>
    /\ \A i \in 1..n : f[i] = IF list[i] \in S THEN Append(f[i - 1], list[i]) ELSE f[i - 1]

LEMMA SievingExists ==
    ASSUME NEW X, NEW list \in Seq(X), NEW S
    PROVE  \E f \in [0..Len(list) -> Seq(X)] : StepByStep(f, list, S, Len(list))
<1> DEFINE N == Len(list)
           step == [n \in 1..N |-> [q \in Seq(X) |->
                       IF list[n] \in S THEN Append(q, list[n]) ELSE q]]
<1>1. N \in Nat /\ \A i \in 1..N : list[i] \in X
  OBVIOUS
<1>2. step \in [1..N -> [Seq(X) -> Seq(X)]]
  BY <1>1
<1>3. <<>> \in Seq(X)
  OBVIOUS
<1>4. \A n \in 1..N, q \in Seq(X) :
          step[n][q] = IF list[n] \in S THEN Append(q, list[n]) ELSE q
  OBVIOUS
<1> HIDE DEF step, N
<1>5. PICK f : Recursion(f, N, Seq(X), <<>>, step)
  BY <1>1, <1>2, <1>3, RecursionExists
<1>6. \A n \in 1..N : n - 1 \in 0..N /\ f[n - 1] \in Seq(X)
  BY <1>1, <1>5 DEF Recursion
<1>7. StepByStep(f, list, S, N) /\ f \in [0..N -> Seq(X)]
  BY <1>4, <1>5, <1>6 DEF StepByStep, Recursion
<1>8. QED
  BY <1>7 DEF N

\* What Sifted returns is the end of such a sieving.
LEMMA SiftedIsSieved ==
    ASSUME NEW X, NEW list \in Seq(X), NEW S
    PROVE  \E f : /\ DOMAIN f = 0..Len(list)
                  /\ StepByStep(f, list, S, Len(list))
                  /\ Sifted(list, S) = f[Len(list)]
<1>1. PICK g \in [0..Len(list) -> Seq(X)] : StepByStep(g, list, S, Len(list))
  BY SievingExists
<1>2. Sieving(g, list, S)
  <2> DEFINE h == [n \in 0..Len(list) |->
                      IF n = 0 THEN <<>>
                      ELSE IF list[n] \in S THEN Append(g[n - 1], list[n]) ELSE g[n - 1]]
  <2>1. ASSUME NEW n \in 0..Len(list)
        PROVE  g[n] = h[n]
    <3>1. n # 0 => n \in 1..Len(list)
      OBVIOUS
    <3>2. QED
      BY <1>1, <3>1 DEF StepByStep
  <2>2. DOMAIN g = 0..Len(list) /\ g = [n \in 0..Len(list) |-> g[n]]
    OBVIOUS
  <2> HIDE DEF h
  <2>3. g = h
    BY <2>1, <2>2 DEF h
  <2>4. QED
    BY <2>3 DEF Sieving, h
<1> DEFINE f == CHOOSE f : Sieving(f, list, S)
<1>3. Sieving(f, list, S)
  BY <1>2
<1>4. Sifted(list, S) = f[Len(list)]
  BY DEF Sifted, Sieving
<1> HIDE DEF f
<1>5. DOMAIN f = 0..Len(list)
  BY <1>3 DEF Sieving
<1>6. \A n \in 0..Len(list) :
          f[n] = IF n = 0 THEN <<>>
                 ELSE IF list[n] \in S THEN Append(f[n - 1], list[n]) ELSE f[n - 1]
  BY <1>3 DEF Sieving
<1>7. StepByStep(f, list, S, Len(list))
  <2>1. Len(list) \in Nat
    OBVIOUS
  <2>2. QED
    BY <1>6, <2>1 DEF StepByStep
<1>8. QED
  BY <1>4, <1>5, <1>7

LEMMA OneMore ==
    ASSUME NEW X, NEW q \in Seq(X), NEW e \in X
    PROVE  /\ Append(q, e) \in Seq(X) /\ Len(q) \in Nat /\ Len(Append(q, e)) = Len(q) + 1
           /\ \A k \in 1..Len(q) : Append(q, e)[k] = q[k]
           /\ Append(q, e)[Len(q) + 1] = e
  OBVIOUS

\* What is left of the first n members: those of them that are in S.
Sound(q, list, S, n) ==
    /\ \A k \in 1..Len(q) : q[k] \in S /\ \E i \in 1..n : list[i] = q[k]
    /\ \A i \in 1..n : list[i] \in S => \E k \in 1..Len(q) : q[k] = list[i]

LEMMA SievedSound ==
    ASSUME NEW X, NEW list \in Seq(X), NEW S, NEW f, StepByStep(f, list, S, Len(list))
    PROVE  \A n \in 0..Len(list) : f[n] \in Seq(X) /\ Sound(f[n], list, S, n)
<1> DEFINE N == Len(list)
           T == {n \in 0..N : f[n] \in Seq(X) /\ Sound(f[n], list, S, n)}
<1>1. N \in Nat /\ \A i \in 1..N : list[i] \in X
  OBVIOUS
<1>2. 0 \in T
  <2>1. f[0] = <<>>
    BY DEF StepByStep
  <2>2. <<>> \in Seq(X) /\ 1..Len(<<>>) = {} /\ 1..0 = {}
    OBVIOUS
  <2>3. Sound(<<>>, list, S, 0)
    BY <2>2 DEF Sound
  <2>4. 0 \in 0..N
    BY <1>1
  <2>5. f[0] \in Seq(X)
    BY <2>1, <2>2
  <2>6. Sound(f[0], list, S, 0)
    BY <2>1, <2>3
  <2>7. QED
    BY <2>4, <2>5, <2>6
<1>3. ASSUME NEW n \in 0..(N - 1), n \in T
      PROVE  n + 1 \in T
  <2>1. n \in Nat /\ n + 1 \in 1..N /\ n + 1 \in 0..N /\ (n + 1) - 1 = n /\ list[n + 1] \in X
    BY <1>1
  <2>2. f[n] \in Seq(X) /\ Sound(f[n], list, S, n)
    BY <1>3
  <2>3. CASE list[n + 1] \in S
    <3> DEFINE q == Append(f[n], list[n + 1])
    <3>1. f[n + 1] = q
      BY <2>1, <2>3 DEF StepByStep
    <3>2. /\ q \in Seq(X) /\ Len(f[n]) \in Nat /\ Len(q) = Len(f[n]) + 1
          /\ \A k \in 1..Len(f[n]) : q[k] = f[n][k]
          /\ q[Len(f[n]) + 1] = list[n + 1]
      BY <2>1, <2>2, OneMore
    <3> HIDE DEF q
    <3>3. ASSUME NEW k \in 1..Len(q)
          PROVE  q[k] \in S /\ \E i \in 1..(n + 1) : list[i] = q[k]
      <4>1. CASE k = Len(f[n]) + 1
        BY <4>1, <3>2, <2>1, <2>3
      <4>2. CASE k # Len(f[n]) + 1
        <5>1. k \in 1..Len(f[n])
          BY <4>2, <3>2
        <5>2. PICK i \in 1..n : list[i] = f[n][k]
          BY <5>1, <2>2 DEF Sound
        <5>3. i \in 1..(n + 1) /\ f[n][k] \in S
          BY <5>1, <2>1, <2>2 DEF Sound
        <5>4. QED
          BY <5>1, <5>2, <5>3, <3>2
      <4>3. QED
        BY <4>1, <4>2
    <3>4. ASSUME NEW i \in 1..(n + 1), list[i] \in S
          PROVE  \E k \in 1..Len(q) : q[k] = list[i]
      <4>1. CASE i = n + 1
        <5>1. Len(f[n]) + 1 \in 1..Len(q)
          BY <3>2
        <5>2. QED
          BY <4>1, <5>1, <3>2
      <4>2. CASE i # n + 1
        <5>1. i \in 1..n
          BY <4>2, <2>1
        <5>2. PICK k \in 1..Len(f[n]) : f[n][k] = list[i]
          BY <5>1, <3>4, <2>2 DEF Sound
        <5>3. k \in 1..Len(q)
          BY <3>2
        <5>4. QED
          BY <5>2, <5>3, <3>2
      <4>3. QED
        BY <4>1, <4>2
    <3>5. QED
      BY <3>1, <3>2, <3>3, <3>4, <2>1 DEF Sound
  <2>4. CASE list[n + 1] \notin S
    <3>1. f[n + 1] = f[n]
      BY <2>1, <2>4 DEF StepByStep
    <3>2. \A i \in 1..n : i \in 1..(n + 1)
      BY <2>1
    <3>3. \A i \in 1..(n + 1) : i = n + 1 \/ i \in 1..n
      BY <2>1
    <3>4. Sound(f[n], list, S, n + 1)
      BY <2>2, <2>4, <3>2, <3>3 DEF Sound
    <3>5. QED
      BY <2>1, <2>2, <3>1, <3>4
  <2>5. QED
    BY <2>3, <2>4
<1>4. \A n \in 0..N : n \in T
  <2> HIDE DEF T
  <2>1. QED
    BY <1>1, <1>2, <1>3, UpTo
<1>5. QED
  BY <1>4

LEMMA SiftedSound ==
    ASSUME NEW X, NEW list \in Seq(X), NEW S
    PROVE  /\ Sifted(list, S) \in Seq(X)
           /\ Sound(Sifted(list, S), list, S, Len(list))
<1>1. PICK f : /\ StepByStep(f, list, S, Len(list))
               /\ Sifted(list, S) = f[Len(list)]
  BY SiftedIsSieved
<1>2. Len(list) \in 0..Len(list)
  OBVIOUS
<1>3. QED
  BY <1>1, <1>2, SievedSound

\* A list is divided between two sieves.
Divided(p, q, n) == Len(p) + Len(q) = n

LEMMA SiftedDivides ==
    ASSUME NEW X, NEW list \in Seq(X), NEW S, NEW R,
           \A i \in 1..Len(list) : list[i] \in S <=> list[i] \notin R
    PROVE  Len(Sifted(list, S)) + Len(Sifted(list, R)) = Len(list)
<1>1. PICK f : /\ StepByStep(f, list, S, Len(list))
               /\ Sifted(list, S) = f[Len(list)]
  BY SiftedIsSieved
<1>2. PICK g : /\ StepByStep(g, list, R, Len(list))
               /\ Sifted(list, R) = g[Len(list)]
  BY SiftedIsSieved
<1> DEFINE N == Len(list)
           T == {n \in 0..N : Divided(f[n], g[n], n)}
<1>3. N \in Nat /\ \A i \in 1..N : list[i] \in X
  OBVIOUS
<1>4. \A n \in 0..N : f[n] \in Seq(X) /\ g[n] \in Seq(X)
  BY <1>1, <1>2, SievedSound
<1>5. 0 \in T
  <2>1. f[0] = <<>> /\ g[0] = <<>>
    BY <1>1, <1>2 DEF StepByStep
  <2>2. Divided(<<>>, <<>>, 0)
    BY DEF Divided
  <2>3. 0 \in 0..N
    BY <1>3
  <2>4. QED
    BY <2>1, <2>2, <2>3
<1>6. ASSUME NEW n \in 0..(N - 1), n \in T
      PROVE  n + 1 \in T
  <2>1. n \in Nat /\ n \in 0..N /\ n + 1 \in 0..N /\ n + 1 \in 1..N /\ (n + 1) - 1 = n
        /\ list[n + 1] \in X
    BY <1>3
  <2> DEFINE p == Append(f[n], list[n + 1])
             q == Append(g[n], list[n + 1])
  <2>2. /\ f[n + 1] = IF list[n + 1] \in S THEN p ELSE f[n]
        /\ g[n + 1] = IF list[n + 1] \in R THEN q ELSE g[n]
    BY <1>1, <1>2, <2>1 DEF StepByStep
  <2>3. f[n] \in Seq(X) /\ g[n] \in Seq(X)
    BY <1>4, <2>1
  <2>4. /\ Len(p) = Len(f[n]) + 1 /\ Len(f[n]) \in Nat
        /\ Len(q) = Len(g[n]) + 1 /\ Len(g[n]) \in Nat
    BY <2>1, <2>3, OneMore
  <2>5. Len(f[n]) + Len(g[n]) = n
    BY <1>6 DEF Divided
  <2> HIDE DEF p, q
  <2>6. Divided(p, g[n], n + 1) /\ Divided(f[n], q, n + 1)
    <3>1. ASSUME NEW a \in Nat, NEW b \in Nat, a + b = n
          PROVE  (a + 1) + b = n + 1 /\ a + (b + 1) = n + 1
      BY <2>1, <3>1
    <3>2. (Len(f[n]) + 1) + Len(g[n]) = n + 1 /\ Len(f[n]) + (Len(g[n]) + 1) = n + 1
      BY <2>4, <2>5, <3>1
    <3>3. QED
      BY <2>4, <3>2 DEF Divided
  <2>7. Divided(f[n + 1], g[n + 1], n + 1)
    <3>1. CASE list[n + 1] \in S
      <4>1. list[n + 1] \notin R
        BY <3>1, <2>1
      <4>2. f[n + 1] = p /\ g[n + 1] = g[n]
        BY <4>1, <3>1, <2>2
      <4>3. QED
        BY <4>2, <2>6
    <3>2. CASE list[n + 1] \notin S
      <4>1. list[n + 1] \in R
        BY <3>2, <2>1
      <4>2. f[n + 1] = f[n] /\ g[n + 1] = q
        BY <4>1, <3>2, <2>2
      <4>3. QED
        BY <4>2, <2>6
    <3>3. QED
      BY <3>1, <3>2
  <2>8. QED
    BY <2>1, <2>7
<1>7. \A n \in 0..N : n \in T
  <2> HIDE DEF T
  <2>1. QED
    BY <1>3, <1>5, <1>6, UpTo
<1>8. Divided(f[N], g[N], N)
  <2>1. N \in 0..N
    BY <1>3
  <2>2. QED
    BY <1>7, <2>1
<1>9. QED
  BY <1>1, <1>2, <1>8 DEF Divided

\* A sieve keeps the order.
Rising(q) == \A i, j \in 1..Len(q) : i < j => q[i] < q[j]

LEMMA SiftedInOrder ==
    ASSUME NEW list \in Seq(Nat), Rising(list), NEW S
    PROVE  Rising(Sifted(list, S))
<1>1. PICK f : /\ StepByStep(f, list, S, Len(list))
               /\ Sifted(list, S) = f[Len(list)]
  BY SiftedIsSieved
<1> DEFINE N == Len(list)
           T == {n \in 0..N : Rising(f[n])}
<1>2. N \in Nat /\ \A i \in 1..N : list[i] \in Nat
  OBVIOUS
<1>3. \A n \in 0..N : f[n] \in Seq(Nat) /\ Sound(f[n], list, S, n)
  BY <1>1, SievedSound
<1>4. 0 \in T
  <2>1. f[0] = <<>> /\ Len(<<>>) = 0
    BY <1>1 DEF StepByStep
  <2>2. QED
    BY <1>2, <2>1 DEF Rising
<1>5. ASSUME NEW n \in 0..(N - 1), n \in T
      PROVE  n + 1 \in T
  <2>1. n \in Nat /\ n \in 0..N /\ n + 1 \in 1..N /\ (n + 1) - 1 = n /\ list[n + 1] \in Nat
    BY <1>2
  <2> DEFINE q == Append(f[n], list[n + 1])
  <2>2. f[n + 1] = IF list[n + 1] \in S THEN q ELSE f[n]
    BY <1>1, <2>1 DEF StepByStep
  <2>3. /\ Len(f[n]) \in Nat /\ Len(q) = Len(f[n]) + 1
        /\ \A k \in 1..Len(f[n]) : q[k] = f[n][k]
        /\ q[Len(f[n]) + 1] = list[n + 1]
    BY <1>3, <2>1, OneMore
  <2> HIDE DEF q
  <2>4. ASSUME NEW k \in 1..Len(f[n])
        PROVE  f[n][k] < list[n + 1]
    <3>1. PICK i \in 1..n : list[i] = f[n][k]
      BY <1>3, <2>1 DEF Sound
    <3>2. i \in 1..N /\ i < n + 1
      BY <2>1
    <3>3. list[i] < list[n + 1]
      BY <2>1, <3>2 DEF Rising
    <3>4. QED
      BY <3>1, <3>3
  <2>5. Rising(f[n])
    BY <1>5
  <2>6. ASSUME NEW i \in 1..Len(q), NEW j \in 1..Len(q), i < j
        PROVE  q[i] < q[j]
    <3>1. i \in 1..Len(f[n])
      BY <2>3, <2>6
    <3>2. CASE j = Len(f[n]) + 1
      BY <3>1, <3>2, <2>3, <2>4
    <3>3. CASE j # Len(f[n]) + 1
      <4>1. j \in 1..Len(f[n])
        BY <3>3, <2>3
      <4>2. QED
        BY <3>1, <4>1, <2>3, <2>5, <2>6 DEF Rising
    <3>4. QED
      BY <3>2, <3>3
  <2>7. Rising(q)
    BY <2>6 DEF Rising
  <2>8. QED
    BY <2>1, <2>2, <2>5, <2>7
<1>6. \A n \in 0..N : n \in T
  <2> HIDE DEF T
  <2>1. QED
    BY <1>2, <1>4, <1>5, UpTo
<1>7. N \in T
  BY <1>2, <1>6
<1>8. QED
  BY <1>1, <1>7

-----------------------------------------------------------------------------
\* The value at a place of a list of numbers in order.

\* The places of a list that hold less than x, and no more than x.
Smaller(v, x) == {i \in 1..Len(v) : v[i] < x}
NotGreater(v, x) == {i \in 1..Len(v) : v[i] <= x}

\* Places can be counted.
LEMMA AllPlaces ==
    ASSUME NEW n \in Nat
    PROVE  IsFiniteSet(1..n) /\ Cardinality(1..n) = n
  BY FS_Interval

LEMMA CountPlaces ==
    ASSUME NEW n \in Nat, NEW S \in SUBSET (1..n)
    PROVE  /\ IsFiniteSet(S) /\ Cardinality(S) \in Nat /\ Cardinality(S) <= n
           /\ \A T \in SUBSET S : IsFiniteSet(T) /\ Cardinality(T) <= Cardinality(S)
<1>1. IsFiniteSet(1..n) /\ Cardinality(1..n) = n
  BY AllPlaces
<1>2. IsFiniteSet(S) /\ Cardinality(S) <= n
  BY <1>1, FS_Subset
<1>3. QED
  BY <1>2, FS_Subset, FS_CardinalityType

LEMMA ListIsBounded ==
    ASSUME NEW v \in Seq(Nat)
    PROVE  \E b \in Nat : \A i \in 1..Len(v) : v[i] <= b
<1> DEFINE N == Len(v)
           T == {n \in 0..N : \E b \in Nat : \A i \in 1..n : v[i] <= b}
<1>1. N \in Nat /\ \A i \in 1..N : v[i] \in Nat
  OBVIOUS
<1>2. 0 \in T
  <2>1. 0 \in 0..N /\ 0 \in Nat /\ \A i \in 1..0 : v[i] <= 0
    BY <1>1
  <2>2. QED
    BY <2>1
<1>3. ASSUME NEW n \in 0..(N - 1), n \in T
      PROVE  n + 1 \in T
  <2>1. n \in Nat /\ n + 1 \in 0..N /\ n + 1 \in 1..N
    BY <1>1
  <2>2. PICK b \in Nat : \A i \in 1..n : v[i] <= b
    BY <1>3
  <2> DEFINE c == IF v[n + 1] <= b THEN b ELSE v[n + 1]
  <2>3. c \in Nat /\ v[n + 1] <= c /\ b <= c
    BY <1>1, <2>1
  <2> HIDE DEF c
  <2>4. \A i \in 1..(n + 1) : v[i] <= c
    <3> SUFFICES ASSUME NEW i \in 1..(n + 1) PROVE v[i] <= c
      OBVIOUS
    <3>1. CASE i = n + 1
      BY <3>1, <2>3
    <3>2. CASE i # n + 1
      <4>1. i \in 1..n /\ i \in 1..N
        BY <3>2, <2>1
      <4>2. v[i] <= b /\ v[i] \in Nat
        BY <4>1, <2>2, <1>1
      <4>3. QED
        BY <4>2, <2>3
    <3>3. QED
      BY <3>1, <3>2
  <2>5. QED
    BY <2>1, <2>3, <2>4
<1>4. \A n \in 0..N : n \in T
  <2> HIDE DEF T
  <2>1. QED
    BY <1>1, <1>2, <1>3, UpTo
<1>5. N \in T
  <2>1. N \in 0..N
    BY <1>1
  <2> HIDE DEF T
  <2>2. QED
    BY <2>1, <1>4
<1>6. QED
  BY <1>5

Members(v) == {v[i] : i \in DOMAIN v}

LEMMA OrderedExists ==
    ASSUME NEW v \in Seq(Nat), NEW k \in 0..(Len(v) - 1)
    PROVE  \E x \in Members(v) :
               Cardinality(Smaller(v, x)) <= k /\ k < Cardinality(NotGreater(v, x))
<1> DEFINE n == Len(v)
           R == Members(v)
           T == {x \in R : k < Cardinality(NotGreater(v, x))}
<1>1. n \in Nat /\ n > 0 /\ k \in Nat /\ k < n /\ DOMAIN v = 1..n
  OBVIOUS
<1>2. /\ R \subseteq Nat /\ \A i \in 1..n : v[i] \in R /\ v[i] \in Nat
      /\ \A x \in R : \E i \in 1..n : v[i] = x
  BY <1>1 DEF Members
<1>3. \A x : /\ Cardinality(Smaller(v, x)) \in Nat /\ Cardinality(NotGreater(v, x)) \in Nat
             /\ IsFiniteSet(NotGreater(v, x))
  <2>1. ASSUME NEW x
        PROVE  Smaller(v, x) \in SUBSET (1..n) /\ NotGreater(v, x) \in SUBSET (1..n)
    BY DEF Smaller, NotGreater
  <2>2. QED
    BY <2>1, <1>1, CountPlaces
<1> HIDE DEF R
<1>4. T # {}
  <2>1. R # {}
    BY <1>1, <1>2
  <2>2. \E b \in Nat : \A x \in R : x <= b
    BY <1>1, <1>2, ListIsBounded
  <2>3. PICK x \in R : \A y \in R : y <= x
    BY <1>2, <2>1, <2>2, GreatestNumber
  <2>4. NotGreater(v, x) = 1..n
    BY <1>2, <2>3 DEF NotGreater
  <2>5. Cardinality(NotGreater(v, x)) = n
    <3>1. Cardinality(1..n) = n
      BY <1>1, AllPlaces
    <3>2. QED
      BY <3>1, <2>4
  <2>6. QED
    BY <1>1, <2>5
<1>5. T \subseteq Nat
  BY <1>2
<1>6. PICK x \in T : \A y \in T : x <= y
  BY <1>4, <1>5, LeastNumber
<1>7. x \in R /\ x \in Nat /\ k < Cardinality(NotGreater(v, x))
  BY <1>2, <1>6
<1>8. \A y \in R : k < Cardinality(NotGreater(v, y)) => x <= y
  BY <1>6
<1> HIDE DEF T
<1>9. Cardinality(Smaller(v, x)) <= k
  <2> SUFFICES ASSUME k < Cardinality(Smaller(v, x)) PROVE FALSE
    BY <1>1, <1>3
  <2> DEFINE B == {y \in R : y < x}
  <2>1. B \subseteq Nat /\ \A y \in B : y < x /\ y <= x
    <3>1. ASSUME NEW y \in B PROVE y \in Nat /\ y < x /\ y <= x
      BY <1>2, <1>7
    <3>2. QED
      BY <3>1
  <2>2. Smaller(v, x) # {}
    <3>1. Cardinality({}) = 0 /\ ~(k < 0)
      BY <1>1, FS_EmptySet
    <3>2. QED
      BY <3>1
  <2>3. PICK i \in 1..n : v[i] < x
    BY <2>2 DEF Smaller
  <2>4. v[i] \in B
    BY <2>3, <1>2
  <2>5. PICK y \in B : \A z \in B : z <= y
    BY <2>1, <2>4, <1>7, GreatestNumber
  <2>6. Smaller(v, x) \in SUBSET NotGreater(v, y)
    BY <2>5, <1>2 DEF Smaller, NotGreater
  <2>7. Cardinality(Smaller(v, x)) <= Cardinality(NotGreater(v, y))
    BY <2>6, <1>3, FS_Subset
  <2>8. k < Cardinality(NotGreater(v, y))
    BY <2>7, <1>1, <1>3
  <2>9. y \in R /\ y < x /\ y \in Nat
    BY <2>5, <2>1
  <2>10. QED
    BY <2>8, <2>9, <1>7, <1>8
<1>10. QED
  BY <1>7, <1>9 DEF R

LEMMA OrderedIsThere ==
    ASSUME NEW v \in Seq(Nat), NEW k \in 0..(Len(v) - 1)
    PROVE  /\ Ordered(v, k) \in Nat
           /\ Cardinality(Smaller(v, Ordered(v, k))) <= k
           /\ k < Cardinality(NotGreater(v, Ordered(v, k)))
<1> DEFINE P(x) == /\ Cardinality({i \in DOMAIN v : v[i] < x}) <= k
                   /\ k < Cardinality({i \in DOMAIN v : v[i] <= x})
           x0 == CHOOSE x \in Members(v) : P(x)
<1>1. DOMAIN v = 1..Len(v) /\ Members(v) \subseteq Nat
  <2>1. DOMAIN v = 1..Len(v) /\ \A i \in 1..Len(v) : v[i] \in Nat
    OBVIOUS
  <2>2. QED
    BY <2>1 DEF Members
<1>2. Ordered(v, k) = x0
  BY DEF Ordered, Members
<1>3. \A x : /\ {i \in DOMAIN v : v[i] < x} = Smaller(v, x)
             /\ {i \in DOMAIN v : v[i] <= x} = NotGreater(v, x)
  BY <1>1 DEF Smaller, NotGreater
<1>4. \A x : P(x) <=> Cardinality(Smaller(v, x)) <= k /\ k < Cardinality(NotGreater(v, x))
  BY <1>3
<1> HIDE DEF P
<1>5. \E x \in Members(v) : P(x)
  BY <1>4, OrderedExists
<1>6. x0 \in Members(v) /\ P(x0)
  BY <1>5
<1> HIDE DEF x0
<1>7. QED
  BY <1>1, <1>2, <1>4, <1>6

LEMMA OrderedRises ==
    ASSUME NEW v \in Seq(Nat), NEW j \in 0..(Len(v) - 1), NEW k \in 0..(Len(v) - 1), j <= k
    PROVE  Ordered(v, j) <= Ordered(v, k)
<1> DEFINE a == Ordered(v, j)
           b == Ordered(v, k)
<1>1. /\ a \in Nat /\ b \in Nat
      /\ Cardinality(Smaller(v, a)) <= j /\ k < Cardinality(NotGreater(v, b))
  BY OrderedIsThere
<1> HIDE DEF a, b
<1> SUFFICES ASSUME b < a PROVE FALSE
  BY <1>1 DEF a, b
<1>2. \A i \in 1..Len(v) : v[i] \in Nat
  OBVIOUS
<1>3. Len(v) \in Nat /\ j \in Nat /\ k \in Nat
  OBVIOUS
<1>4. NotGreater(v, b) \in SUBSET Smaller(v, a) /\ Smaller(v, a) \in SUBSET (1..Len(v))
  BY <1>1, <1>2 DEF Smaller, NotGreater
<1>5. /\ Cardinality(NotGreater(v, b)) <= Cardinality(Smaller(v, a))
      /\ Cardinality(Smaller(v, a)) \in Nat
  BY <1>3, <1>4, CountPlaces
<1>6. Cardinality(NotGreater(v, b)) \in Nat
  BY <1>3, <1>4, CountPlaces
<1>7. QED
  BY <1>1, <1>3, <1>5, <1>6

\* The length of a sieve is the number of places it takes from.
LEMMA SiftedCounts ==
    ASSUME NEW X, NEW list \in Seq(X), NEW S
    PROVE  Len(Sifted(list, S)) = Cardinality({i \in 1..Len(list) : list[i] \in S})
<1>1. PICK f : /\ StepByStep(f, list, S, Len(list))
               /\ Sifted(list, S) = f[Len(list)]
  BY SiftedIsSieved
<1> DEFINE N == Len(list)
           P(n) == {i \in 1..n : list[i] \in S}
           T == {n \in 0..N : Len(f[n]) = Cardinality(P(n))}
<1>2. N \in Nat /\ \A i \in 1..N : list[i] \in X
  OBVIOUS
<1>3. \A n \in 0..N : f[n] \in Seq(X)
  BY <1>1, SievedSound
<1>4. 0 \in T
  <2>1. f[0] = <<>> /\ Len(<<>>) = 0
    BY <1>1 DEF StepByStep
  <2>2. P(0) = {} /\ Cardinality({}) = 0
    BY FS_EmptySet
  <2>3. 0 \in 0..N
    BY <1>2
  <2> HIDE DEF P
  <2>4. QED
    BY <2>1, <2>2, <2>3
<1>5. ASSUME NEW n \in 0..(N - 1), n \in T
      PROVE  n + 1 \in T
  <2>1. n \in Nat /\ n \in 0..N /\ n + 1 \in 0..N /\ n + 1 \in 1..N /\ (n + 1) - 1 = n
        /\ list[n + 1] \in X
    BY <1>2
  <2> DEFINE q == Append(f[n], list[n + 1])
  <2>2. f[n + 1] = IF list[n + 1] \in S THEN q ELSE f[n]
    BY <1>1, <2>1 DEF StepByStep
  <2>3. Len(q) = Len(f[n]) + 1
    BY <1>3, <2>1, OneMore
  <2> HIDE DEF q
  <2>4. Len(f[n]) = Cardinality(P(n))
    BY <1>5
  <2>5. IsFiniteSet(P(n)) /\ n + 1 \notin P(n)
    <3>1. P(n) \in SUBSET (1..n)
      OBVIOUS
    <3>2. n + 1 \notin P(n)
      BY <2>1
    <3> HIDE DEF P
    <3>3. QED
      BY <3>1, <3>2, <2>1, CountPlaces
  <2>6. CASE list[n + 1] \in S
    <3>1. P(n + 1) = P(n) \cup {n + 1}
      BY <2>1, <2>6
    <3> HIDE DEF P
    <3>2. Cardinality(P(n + 1)) = Cardinality(P(n)) + 1
      BY <3>1, <2>5, FS_AddElement
    <3>3. Len(f[n + 1]) = Cardinality(P(n + 1))
      BY <3>2, <2>2, <2>3, <2>4, <2>6
    <3>4. QED
      BY <3>3, <2>1
  <2>7. CASE list[n + 1] \notin S
    <3>1. P(n + 1) = P(n)
      BY <2>1, <2>7
    <3> HIDE DEF P
    <3>2. Len(f[n + 1]) = Cardinality(P(n + 1))
      BY <3>1, <2>2, <2>4, <2>7
    <3>3. QED
      BY <3>2, <2>1
  <2>8. QED
    BY <2>6, <2>7
<1>6. \A n \in 0..N : n \in T
  <2> HIDE DEF T
  <2>1. QED
    BY <1>2, <1>4, <1>5, UpTo
<1>7. N \in T
  <2>1. N \in 0..N
    BY <1>2
  <2> HIDE DEF T
  <2>2. QED
    BY <1>6, <2>1
<1>8. QED
  BY <1>1, <1>7

\* Only the members of the list decide what a sieve leaves of it.
LEMMA SiftedAgree ==
    ASSUME NEW X, NEW list \in Seq(X), NEW S, NEW R,
           \A i \in 1..Len(list) : list[i] \in S <=> list[i] \in R
    PROVE  Sifted(list, S) = Sifted(list, R)
<1>1. PICK f : /\ StepByStep(f, list, S, Len(list))
               /\ Sifted(list, S) = f[Len(list)]
  BY SiftedIsSieved
<1>2. PICK g : /\ StepByStep(g, list, R, Len(list))
               /\ Sifted(list, R) = g[Len(list)]
  BY SiftedIsSieved
<1> DEFINE N == Len(list)
           T == {n \in 0..N : f[n] = g[n]}
<1>3. N \in Nat
  OBVIOUS
<1>4. 0 \in T
  BY <1>1, <1>2, <1>3 DEF StepByStep
<1>5. ASSUME NEW n \in 0..(N - 1), n \in T
      PROVE  n + 1 \in T
  <2>1. n + 1 \in 0..N /\ n + 1 \in 1..N /\ (n + 1) - 1 = n
    BY <1>3
  <2>2. /\ f[n + 1] = IF list[n + 1] \in S THEN Append(f[n], list[n + 1]) ELSE f[n]
        /\ g[n + 1] = IF list[n + 1] \in R THEN Append(g[n], list[n + 1]) ELSE g[n]
    BY <1>1, <1>2, <2>1 DEF StepByStep
  <2>3. f[n] = g[n] /\ (list[n + 1] \in S <=> list[n + 1] \in R)
    BY <1>5, <2>1
  <2>4. QED
    BY <2>1, <2>2, <2>3
<1>6. \A n \in 0..N : n \in T
  <2> HIDE DEF T
  <2>1. QED
    BY <1>3, <1>4, <1>5, UpTo
<1>7. N \in T
  <2>1. N \in 0..N
    BY <1>3
  <2> HIDE DEF T
  <2>2. QED
    BY <2>1, <1>6
<1>8. QED
  BY <1>1, <1>2, <1>7

\* One more member at the end of the list.
LEMMA SiftedAppend ==
    ASSUME NEW X, NEW list \in Seq(X), NEW e \in X, NEW S
    PROVE  Sifted(Append(list, e), S) =
               IF e \in S THEN Append(Sifted(list, S), e) ELSE Sifted(list, S)
<1> DEFINE more == Append(list, e)
           N == Len(list)
<1>1. /\ more \in Seq(X) /\ N \in Nat /\ Len(more) = N + 1 /\ more[N + 1] = e
      /\ \A k \in 1..N : more[k] = list[k]
  BY OneMore
<1>2. PICK f : /\ StepByStep(f, list, S, N)
               /\ Sifted(list, S) = f[N]
  BY SiftedIsSieved
<1> HIDE DEF more
<1>3. PICK g : /\ StepByStep(g, more, S, N + 1)
               /\ Sifted(more, S) = g[N + 1]
  BY <1>1, SiftedIsSieved
<1> DEFINE T == {n \in 0..N : f[n] = g[n]}
<1>4. 0 \in T
  BY <1>1, <1>2, <1>3 DEF StepByStep
<1>5. ASSUME NEW n \in 0..(N - 1), n \in T
      PROVE  n + 1 \in T
  <2>1. n + 1 \in 0..N /\ n + 1 \in 1..N /\ n + 1 \in 1..(N + 1) /\ (n + 1) - 1 = n
    BY <1>1
  <2>2. /\ f[n + 1] = IF list[n + 1] \in S THEN Append(f[n], list[n + 1]) ELSE f[n]
        /\ g[n + 1] = IF more[n + 1] \in S THEN Append(g[n], more[n + 1]) ELSE g[n]
    BY <1>2, <1>3, <2>1 DEF StepByStep
  <2>3. f[n] = g[n] /\ more[n + 1] = list[n + 1]
    BY <1>1, <1>5, <2>1
  <2>4. QED
    BY <2>1, <2>2, <2>3
<1>6. \A n \in 0..N : n \in T
  <2> HIDE DEF T
  <2>1. QED
    BY <1>1, <1>4, <1>5, UpTo
<1>7. f[N] = g[N]
  <2>1. N \in 0..N
    BY <1>1
  <2>2. QED
    BY <1>6, <2>1
<1>8. g[N + 1] = IF more[N + 1] \in S THEN Append(g[N], more[N + 1]) ELSE g[N]
  <2>1. N + 1 \in 1..(N + 1) /\ (N + 1) - 1 = N
    BY <1>1
  <2>2. QED
    BY <1>3, <2>1 DEF StepByStep
<1>9. QED
  BY <1>1, <1>2, <1>3, <1>7, <1>8 DEF more

\* A sieve that takes the first m members and no other leaves these.
LEMMA SiftedFirst ==
    ASSUME NEW X, NEW list \in Seq(X), NEW S, NEW m \in 0..Len(list),
           \A i \in 1..Len(list) : list[i] \in S <=> i <= m
    PROVE  Len(Sifted(list, S)) = m /\ \A k \in 1..m : Sifted(list, S)[k] = list[k]
<1>1. PICK f : /\ StepByStep(f, list, S, Len(list))
               /\ Sifted(list, S) = f[Len(list)]
  BY SiftedIsSieved
<1> DEFINE N == Len(list)
           Least(n) == IF n <= m THEN n ELSE m
           T == {n \in 0..N : Len(f[n]) = Least(n) /\ \A k \in 1..Least(n) : f[n][k] = list[k]}
<1>2. N \in Nat /\ m \in Nat /\ m <= N /\ \A i \in 1..N : list[i] \in X
  OBVIOUS
<1>3. \A n \in 0..N : f[n] \in Seq(X)
  BY <1>1, SievedSound
<1>4. 0 \in T
  <2>1. f[0] = <<>> /\ Len(<<>>) = 0
    BY <1>1 DEF StepByStep
  <2>2. Least(0) = 0 /\ 0 \in 0..N /\ 1..0 = {}
    BY <1>2
  <2>3. QED
    BY <2>1, <2>2
<1>5. ASSUME NEW n \in 0..(N - 1), n \in T
      PROVE  n + 1 \in T
  <2>1. n \in Nat /\ n \in 0..N /\ n + 1 \in 0..N /\ n + 1 \in 1..N /\ (n + 1) - 1 = n
        /\ list[n + 1] \in X
    BY <1>2
  <2> DEFINE q == Append(f[n], list[n + 1])
  <2>2. f[n + 1] = IF list[n + 1] \in S THEN q ELSE f[n]
    BY <1>1, <2>1 DEF StepByStep
  <2>3. /\ Len(q) = Len(f[n]) + 1 /\ q[Len(f[n]) + 1] = list[n + 1]
        /\ \A k \in 1..Len(f[n]) : q[k] = f[n][k]
    BY <1>3, <2>1, OneMore
  <2> HIDE DEF q
  <2>4. list[n + 1] \in S <=> n + 1 <= m
    BY <2>1
  <2>5. Len(f[n]) = Least(n) /\ \A k \in 1..Least(n) : f[n][k] = list[k]
    BY <1>5
  <2>6. CASE n + 1 <= m
    <3>1. Least(n) = n /\ Least(n + 1) = n + 1
      BY <1>2, <2>1, <2>6
    <3>2. f[n + 1] = q
      BY <2>2, <2>4, <2>6
    <3>3. Len(q) = n + 1 /\ \A k \in 1..(n + 1) : q[k] = list[k]
      <4>1. Len(f[n]) = n
        BY <2>5, <3>1
      <4>2. ASSUME NEW k \in 1..(n + 1) PROVE q[k] = list[k]
        <5>1. CASE k = n + 1
          BY <5>1, <4>1, <2>3
        <5>2. CASE k # n + 1
          <6>1. k \in 1..n
            BY <5>2, <2>1
          <6>2. QED
            BY <6>1, <4>1, <2>3, <2>5, <3>1
        <5>3. QED
          BY <5>1, <5>2
      <4>3. QED
        BY <4>1, <4>2, <2>3
    <3> HIDE DEF Least
    <3>4. QED
      BY <2>1, <3>1, <3>2, <3>3
  <2>7. CASE ~(n + 1 <= m)
    <3>1. Least(n) = Least(n + 1)
      BY <1>2, <2>1, <2>7
    <3>2. f[n + 1] = f[n]
      BY <2>2, <2>4, <2>7
    <3> HIDE DEF Least
    <3>3. QED
      BY <2>1, <2>5, <3>1, <3>2
  <2>8. QED
    BY <2>6, <2>7
<1>6. \A n \in 0..N : n \in T
  <2> HIDE DEF T
  <2>1. QED
    BY <1>2, <1>4, <1>5, UpTo
<1>7. N \in T /\ Least(N) = m
  <2>1. N \in 0..N /\ Least(N) = m
    BY <1>2
  <2> HIDE DEF T, Least
  <2>2. QED
    BY <2>1, <1>6
<1>8. QED
  BY <1>1, <1>7

-----------------------------------------------------------------------------
\* Putting a list in order.

\* The places that go before place i.
Ahead(n, less, i) == {j \in 1..n : <<j, i>> \in less}

Ordering(less, n) ==
    /\ \A i \in 1..n : <<i, i>> \notin less
    /\ \A i, j \in 1..n : i # j => <<i, j>> \in less \/ <<j, i>> \in less
    /\ \A i, j, k \in 1..n : <<i, j>> \in less /\ <<j, k>> \in less => <<i, k>> \in less

LEMMA RankIsNumber ==
    ASSUME NEW n \in Nat, NEW less, Ordering(less, n), NEW i \in 1..n
    PROVE  IsFiniteSet(Ahead(n, less, i)) /\ Cardinality(Ahead(n, less, i)) \in 0..(n - 1)
<1> DEFINE A == Ahead(n, less, i)
<1>1. A \in SUBSET (1..n) /\ i \notin A
  BY DEF Ahead, Ordering
<1> HIDE DEF A
<1>2. IsFiniteSet(1..n) /\ Cardinality(1..n) = n
  BY AllPlaces
<1>3. IsFiniteSet(A) /\ Cardinality(A) \in Nat /\ Cardinality(A) <= n
  BY <1>1, CountPlaces
<1>4. Cardinality(A) # n
  <2> SUFFICES ASSUME Cardinality(A) = n PROVE FALSE
    OBVIOUS
  <2>1. A = 1..n
    BY <1>1, <1>2, FS_Subset
  <2> QED
    BY <2>1, <1>1
<1> QED
  BY <1>3, <1>4 DEF A

LEMMA RanksAreApart ==
    ASSUME NEW n \in Nat, NEW less, Ordering(less, n), NEW i \in 1..n, NEW j \in 1..n,
           <<i, j>> \in less
    PROVE  Cardinality(Ahead(n, less, i)) < Cardinality(Ahead(n, less, j))
<1> DEFINE A == Ahead(n, less, i)
           B == Ahead(n, less, j)
<1>1. A \in SUBSET B /\ i \in B /\ i \notin A
  BY DEF Ahead, Ordering
<1>2. IsFiniteSet(A) /\ IsFiniteSet(B) /\ Cardinality(A) \in Nat /\ Cardinality(B) \in Nat
  BY RankIsNumber
<1> HIDE DEF A, B
<1>3. Cardinality(A) <= Cardinality(B) /\ Cardinality(A) # Cardinality(B)
  <2>1. Cardinality(A) <= Cardinality(B) /\ (Cardinality(B) = Cardinality(A) => B = A)
    BY <1>1, <1>2, FS_Subset
  <2> QED
    BY <2>1, <1>1
<1> QED
  BY <1>2, <1>3 DEF A, B

LEMMA EveryRank ==
    ASSUME NEW n \in Nat, NEW less, Ordering(less, n), NEW r \in 0..(n - 1)
    PROVE  \E i \in 1..n : Cardinality(Ahead(n, less, i)) = r
<1> SUFFICES ASSUME \A i \in 1..n : Cardinality(Ahead(n, less, i)) # r PROVE FALSE
  OBVIOUS
<1> DEFINE f == [i \in 1..n |-> Cardinality(Ahead(n, less, i))]
           T == (0..(n - 1)) \ {r}
<1>1. f \in [1..n -> T]
  BY RankIsNumber
<1>2. IsFiniteSet(1..n) /\ Cardinality(1..n) = n
  BY AllPlaces
<1>3. IsFiniteSet(0..(n - 1)) /\ Cardinality(0..(n - 1)) = n
  <2>1. 0 \in Int /\ n - 1 \in Int /\ ~(0 > n - 1) /\ (n - 1) - 0 + 1 = n
    OBVIOUS
  <2>2. /\ IsFiniteSet(0..(n - 1))
        /\ Cardinality(0..(n - 1)) = IF 0 > n - 1 THEN 0 ELSE (n - 1) - 0 + 1
    BY <2>1, FS_Interval
  <2> QED
    BY <2>1, <2>2
<1>4. IsFiniteSet(T) /\ Cardinality(T) = n - 1
  BY <1>3, FS_RemoveElement
<1>5. PICK x, y \in 1..n : x # y /\ f[x] = f[y]
  <2> HIDE DEF f, T
  <2>1. Cardinality(T) < Cardinality(1..n)
    BY <1>2, <1>4
  <2> QED
    BY <1>1, <1>2, <1>4, <2>1, FS_PigeonHole
<1>6. Cardinality(Ahead(n, less, x)) = Cardinality(Ahead(n, less, y))
  BY <1>5
<1>7. Cardinality(Ahead(n, less, x)) \in Int
  BY RankIsNumber
<1>8. <<x, y>> \in less \/ <<y, x>> \in less
  BY <1>5 DEF Ordering
<1>9. CASE <<x, y>> \in less
  BY <1>9, <1>6, <1>7, RanksAreApart
<1>10. CASE <<y, x>> \in less
  BY <1>10, <1>6, <1>7, RanksAreApart
<1> QED
  BY <1>8, <1>9, <1>10

\* The list in order is the list read in some order of its places, each once, and
\* what goes before stands before.
Rearranged(q, list, less, p) ==
    /\ p \in [1..Len(list) -> 1..Len(list)]
    /\ \A k \in 1..Len(list) : q[k] = list[p[k]]
    /\ \A i \in 1..Len(list) : \E k \in 1..Len(list) : p[k] = i
    /\ \A j, k \in 1..Len(list) : j < k => <<p[j], p[k]>> \in less

LEMMA ArrangedIsSorted ==
    ASSUME NEW X, NEW list \in Seq(X), NEW less, Ordering(less, Len(list))
    PROVE  /\ Arranged(list, less) \in Seq(X)
           /\ Len(Arranged(list, less)) = Len(list)
           /\ \E p : Rearranged(Arranged(list, less), list, less, p)
<1> DEFINE n == Len(list)
           R(i) == Cardinality(Ahead(n, less, i))
           p == [k \in 1..n |-> CHOOSE i \in 1..n : R(i) = k - 1]
<1>1. n \in Nat /\ DOMAIN list = 1..n /\ \A i \in 1..n : list[i] \in X
  OBVIOUS
<1>2. \A i \in 1..n : R(i) \in 0..(n - 1)
  BY <1>1, RankIsNumber
<1>3. \A r \in 0..(n - 1) : \E i \in 1..n : R(i) = r
  BY <1>1, EveryRank
<1>4. \A i, j \in 1..n : <<i, j>> \in less => R(i) < R(j)
  BY <1>1, RanksAreApart
<1>5. Arranged(list, less) = [k \in 1..n |-> list[CHOOSE i \in 1..n : R(i) = k - 1]]
  BY <1>1 DEF Arranged, Ahead
<1> HIDE DEF n, R
<1>6. \A k \in 1..n : p[k] \in 1..n /\ R(p[k]) = k - 1
  <2> SUFFICES ASSUME NEW k \in 1..n PROVE p[k] \in 1..n /\ R(p[k]) = k - 1
    OBVIOUS
  <2>1. k - 1 \in 0..(n - 1)
    BY <1>1
  <2>2. \E i \in 1..n : R(i) = k - 1
    BY <2>1, <1>3
  <2> QED
    BY <2>2
<1>7. Arranged(list, less) = [k \in 1..n |-> list[p[k]]]
  BY <1>5
<1>8. p \in [1..n -> 1..n]
  BY <1>6
<1> HIDE DEF p
<1>9. \A j, k \in 1..n : j < k => <<p[j], p[k]>> \in less
  <2> SUFFICES ASSUME NEW j \in 1..n, NEW k \in 1..n, j < k PROVE <<p[j], p[k]>> \in less
    OBVIOUS
  <2>1. R(p[j]) = j - 1 /\ R(p[k]) = k - 1 /\ p[j] \in 1..n /\ p[k] \in 1..n
    BY <1>6
  <2>2. p[j] # p[k] /\ ~(R(p[k]) < R(p[j]))
    BY <2>1, <1>1
  <2>3. <<p[j], p[k]>> \in less \/ <<p[k], p[j]>> \in less
    BY <2>1, <2>2 DEF Ordering, n
  <2> QED
    BY <2>1, <2>2, <2>3, <1>4
<1>10. \A i \in 1..n : \E k \in 1..n : p[k] = i
  <2> SUFFICES ASSUME NEW i \in 1..n PROVE \E k \in 1..n : p[k] = i
    OBVIOUS
  <2>1. R(i) \in 0..(n - 1)
    BY <1>2
  <2>2. R(i) + 1 \in 1..n /\ (R(i) + 1) - 1 = R(i)
    BY <2>1, <1>1
  <2>3. p[R(i) + 1] \in 1..n /\ R(p[R(i) + 1]) = R(i)
    BY <2>2, <1>6
  <2>4. p[R(i) + 1] = i
    <3> SUFFICES ASSUME p[R(i) + 1] # i PROVE FALSE
      OBVIOUS
    <3>1. <<p[R(i) + 1], i>> \in less \/ <<i, p[R(i) + 1]>> \in less
      BY <2>3 DEF Ordering, n
    <3>2. R(i) \in Int
      BY <2>1
    <3> QED
      BY <3>1, <3>2, <2>3, <1>4
  <2> QED
    BY <2>2, <2>4
<1>11. Arranged(list, less) \in Seq(X) /\ Len(Arranged(list, less)) = n
  <2>1. \A k \in 1..n : list[p[k]] \in X
    BY <1>1, <1>8
  <2> QED
    BY <2>1, <1>1, <1>7
<1>12. Rearranged(Arranged(list, less), list, less, p)
  BY <1>7, <1>8, <1>9, <1>10 DEF Rearranged, n
<1> QED
  BY <1>11, <1>12 DEF n

\* The same for lists of integers, which have a least member too.
LEMMA IntegerOrdered ==
    ASSUME NEW v \in Seq(Int), NEW k \in 0..(Len(v) - 1)
    PROVE  Ordered(v, k) \in Int
<1> DEFINE n == Len(v)
           sizes == [i \in 1..n |-> IF v[i] < 0 THEN -v[i] ELSE v[i]]
<1>1. n \in Nat /\ DOMAIN v = 1..n /\ \A i \in 1..n : v[i] \in Int
  OBVIOUS
<1>2. sizes \in Seq(Nat) /\ Len(sizes) = n /\ \A i \in 1..n : sizes[i] = IF v[i] < 0 THEN -v[i] ELSE v[i]
  BY <1>1
<1> HIDE DEF sizes, n
<1>3. PICK b \in Nat : \A i \in 1..n : sizes[i] <= b
  BY <1>2, ListIsBounded
<1> DEFINE w == [i \in 1..n |-> v[i] + b]
<1>4. \A i \in 1..n : v[i] + b \in Nat
  <2> SUFFICES ASSUME NEW i \in 1..n PROVE v[i] + b \in Nat
    OBVIOUS
  <2>1. v[i] \in Int /\ sizes[i] <= b /\ sizes[i] = IF v[i] < 0 THEN -v[i] ELSE v[i]
    BY <1>1, <1>2, <1>3
  <2> QED
    BY <2>1
<1>5. w \in Seq(Nat) /\ Len(w) = n /\ DOMAIN w = 1..n /\ \A i \in 1..n : w[i] = v[i] + b
  BY <1>4, <1>1
<1> HIDE DEF w
<1>6. PICK x \in Members(w) : Cardinality(Smaller(w, x)) <= k /\ k < Cardinality(NotGreater(w, x))
  BY <1>5, OrderedExists DEF n
<1>7. PICK e \in 1..n : x = w[e]
  BY <1>5, <1>6 DEF Members
<1>8. v[e] \in Int /\ x = v[e] + b
  BY <1>1, <1>5, <1>7
<1>9. /\ Smaller(w, x) = {i \in 1..n : v[i] < v[e]}
      /\ NotGreater(w, x) = {i \in 1..n : v[i] <= v[e]}
  BY <1>1, <1>5, <1>8 DEF Smaller, NotGreater
<1> DEFINE P(y) == /\ Cardinality({i \in DOMAIN v : v[i] < y}) <= k
                   /\ k < Cardinality({i \in DOMAIN v : v[i] <= y})
<1>10. P(v[e]) /\ v[e] \in Members(v)
  BY <1>1, <1>6, <1>7, <1>9 DEF Members
<1>11. Ordered(v, k) = CHOOSE y \in Members(v) : P(y)
  BY DEF Ordered, Members
<1> HIDE DEF P
<1>12. Ordered(v, k) \in Members(v)
  BY <1>10, <1>11
<1> QED
  BY <1>12, <1>1 DEF Members

\* The recursion as a function along the list.
Solves(f, N, base, step) == f = [n \in 0..N |-> IF n = 0 THEN base ELSE step[n][f[n - 1]]]

LEMMA RecursionSolved ==
    ASSUME NEW N \in Nat, NEW A, NEW base \in A, NEW step \in [1..N -> [A -> A]]
    PROVE  \E f \in [0..N -> A] : Solves(f, N, base, step)
<1>1. PICK f : Recursion(f, N, A, base, step)
  BY RecursionExists
<1> DEFINE g == [n \in 0..N |-> IF n = 0 THEN base ELSE step[n][f[n - 1]]]
<1>2. f \in [0..N -> A]
  BY <1>1 DEF Recursion
<1>3. ASSUME NEW n \in 0..N
      PROVE  f[n] = g[n]
  <2>1. n = 0 \/ n \in 1..N
    OBVIOUS
  <2> QED
    BY <1>1, <2>1 DEF Recursion
<1>4. f = [n \in 0..N |-> f[n]]
  BY <1>2
<1> HIDE DEF g
<1>5. f = g
  BY <1>3, <1>4 DEF g
<1> QED
  BY <1>2, <1>5 DEF g, Solves

\* A sieve keeps the members in the order they had, whatever order this is.
InPairs(q, R) == \A i, j \in 1..Len(q) : i < j => <<q[i], q[j]>> \in R

LEMMA SiftedKeepsOrder ==
    ASSUME NEW X, NEW list \in Seq(X), NEW R, InPairs(list, R), NEW S
    PROVE  InPairs(Sifted(list, S), R)
<1> DEFINE N == Len(list)
<1>1. N \in Nat
  OBVIOUS
<1>2. PICK f : StepByStep(f, list, S, N) /\ Sifted(list, S) = f[N]
  BY SiftedIsSieved
<1>3. \A n \in 0..N : f[n] \in Seq(X) /\ Sound(f[n], list, S, n)
  BY <1>2, SievedSound
<1> DEFINE T == {n \in 0..N : InPairs(f[n], R)}
<1>4. 0 \in T
  <2>1. f[0] = <<>>
    BY <1>2 DEF StepByStep
  <2>2. 1..Len(<<>>) = {}
    OBVIOUS
  <2>3. InPairs(<<>>, R)
    BY <2>2 DEF InPairs
  <2> QED
    BY <1>1, <2>1, <2>3
<1>5. ASSUME NEW n \in 0..(N - 1), n \in T
      PROVE  n + 1 \in T
  <2>1. n \in 0..N /\ n + 1 \in 1..N /\ n + 1 \in 0..N /\ (n + 1) - 1 = n /\ list[n + 1] \in X
    BY <1>1
  <2>2. CASE list[n + 1] \in S
    <3>1. f[n + 1] = Append(f[n], list[n + 1])
      BY <1>2, <2>1, <2>2 DEF StepByStep
    <3> DEFINE q == Append(f[n], list[n + 1])
    <3>2. PICK c \in Nat : c = Len(f[n])
      BY <1>3, <2>1
    <3>3. Len(q) = c + 1 /\ (\A k \in 1..c : q[k] = f[n][k]) /\ q[c + 1] = list[n + 1]
      BY <1>3, <2>1, <3>2, OneMore
    <3> HIDE DEF q
    <3>4. ASSUME NEW i \in 1..(c + 1), NEW j \in 1..(c + 1), i < j
          PROVE  <<q[i], q[j]>> \in R
      <4>1. i \in 1..c
        BY <3>4
      <4>2. CASE j = c + 1
        <5>1. PICK e \in 1..n : list[e] = f[n][i]
          BY <1>3, <2>1, <3>2, <4>1 DEF Sound
        <5>2. e \in 1..N /\ e < n + 1
          BY <1>1, <2>1
        <5>3. <<list[e], list[n + 1]>> \in R
          BY <2>1, <5>2 DEF InPairs
        <5> QED
          BY <3>3, <4>1, <4>2, <5>1, <5>3
      <4>3. CASE j # c + 1
        <5>1. j \in 1..c
          BY <4>3
        <5> QED
          BY <1>5, <3>2, <3>3, <3>4, <4>1, <5>1 DEF InPairs
      <4> QED
        BY <4>2, <4>3
    <3>5. InPairs(q, R)
      BY <3>3, <3>4 DEF InPairs
    <3> QED
      BY <2>1, <3>1, <3>5 DEF q
  <2>3. CASE list[n + 1] \notin S
    <3>1. f[n + 1] = f[n]
      BY <1>2, <2>1, <2>3 DEF StepByStep
    <3> QED
      BY <1>5, <2>1, <3>1
  <2> QED
    BY <2>2, <2>3
<1>6. N \in T
  <2> HIDE DEF T
  <2>1. \A n \in 0..N : n \in T
    BY <1>1, <1>4, <1>5, UpTo
  <2> QED
    BY <1>1, <2>1
<1> QED
  BY <1>2, <1>6
=============================================================================
