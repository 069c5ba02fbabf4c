--------------------------- MODULE Homing_proofs ---------------------------
(***************************************************************************)
(* Proofs about the route planner (HomePlanner), for any number of joints, *)
(* grid, floors, joint groups and clearances, and any random choices; then *)
(* about homing, with the plugin's retry loop (FollowerHoming) or the      *)
(* bridge's HOME button (BridgeHoming) around the search, for any gate and *)
(* attempts.                                                               *)
(***************************************************************************)
EXTENDS BridgeHoming, SequenceTheorems, WellFoundedInduction, TLAPS

USE PlannerAssumption

-----------------------------------------------------------------------------
(* Numbers *)

\* A set of natural numbers has a least element.
LEMMA LeastExists ==
  ASSUME NEW S, S \subseteq Nat, S # {}
  PROVE  \E x \in S : \A y \in S : x <= y
<1> DEFINE R == OpToRel(<, Nat)
<1>1. IsWellFoundedOn(R, Nat)
  BY NatLessThanWellFounded
<1> HIDE DEF R
<1>2. PICK x \in S : \A y \in S : ~(<<y, x>> \in R)
  BY <1>1, WFMin
<1>3. \A y \in S : x <= y
  <2> SUFFICES ASSUME NEW y \in S, ~(x <= y) PROVE FALSE
    OBVIOUS
  <2>1. <<y, x>> \in R
    BY DEF R, OpToRel
  <2> QED
    BY <1>2, <2>1
<1> QED
  BY <1>3

\* A bounded set of natural numbers has a largest element.
LEMMA LargestExists ==
  ASSUME NEW S, NEW b \in Nat, S \subseteq 0..b, S # {}
  PROVE  \E x \in S : \A y \in S : y <= x
<1> DEFINE U == {n \in Nat : \A y \in S : y <= n}
<1>1. b \in U
  OBVIOUS
<1>2. PICK n \in U : \A m \in U : n <= m
  BY <1>1, LeastExists
<1>3. CASE n \in S
  BY <1>3
<1>4. CASE n \notin S
  <2>1. PICK y \in S : TRUE
    OBVIOUS
  <2>2. n > 0
    BY <1>4, <2>1
  <2>3. n - 1 \in U
    BY <1>4, <2>2
  <2>4. n \in Nat /\ n <= n - 1
    BY <1>2, <2>3
  <2> QED
    BY <2>4
<1> QED
  BY <1>3, <1>4

\* The part of a step that is taken is not longer than the step.
LEMMA PartOfStep ==
  ASSUME NEW d \in Int, NEW s \in Nat, NEW n \in Nat, s < n
  PROVE  /\ (d * s) \div n \in Int
         /\ d >= 0 => 0 <= (d * s) \div n /\ (d * s) \div n <= d
         /\ d <= 0 => d <= (d * s) \div n /\ (d * s) \div n <= 0
<1> DEFINE x == (d * s) \div n
           p == d * s
<1>1. x \in Int /\ p \in Int
  OBVIOUS
<1>2. n * x <= p /\ p < n * x + n
  OBVIOUS
<1>3. d >= 0 => 0 <= p /\ p <= d * n
  OBVIOUS
<1>4. d <= 0 => d * n <= p /\ p <= 0
  OBVIOUS
<1> QED
  OBVIOUS

-----------------------------------------------------------------------------
(* Segments *)

\* The gap of two poses is a number.
LEMMA GapType ==
  ASSUME NEW a \in Configs, NEW b \in Configs
  PROVE  /\ Gap(a, b) \in 0..K
         /\ \A i \in Axes : Dist(a[i], b[i]) <= Gap(a, b)
<1> DEFINE D == {Dist(a[i], b[i]) : i \in Axes}
<1>1. D \subseteq 0..K /\ D # {}
  <2>1. \A i \in Axes : a[i] \in 0..K /\ b[i] \in 0..K
    BY DEF Configs
  <2>2. \A i \in Axes : Dist(a[i], b[i]) \in 0..K
    BY <2>1 DEF Dist
  <2>3. 1 \in Axes
    BY DEF Axes
  <2> QED
    BY <2>2, <2>3
<1>2. \E x \in D : \A y \in D : y <= x
  BY <1>1, LargestExists
<1>3. Largest(D) \in D /\ \A y \in D : y <= Largest(D)
  BY <1>2 DEF Largest
<1>4. Gap(a, b) = Largest(D)
  BY Zenon DEF Gap, Gaps
<1> QED
  BY <1>1, <1>3, <1>4

\* The gap does not depend on the order of the poses.
LEMMA GapSymmetric ==
  ASSUME NEW a \in Configs, NEW b \in Configs
  PROVE  Gap(a, b) = Gap(b, a)
<1>1. \A i \in Axes : a[i] \in Int /\ b[i] \in Int
  BY DEF Configs
<1>2. \A i \in Axes : Dist(a[i], b[i]) = Dist(b[i], a[i])
  BY <1>1 DEF Dist
<1>3. {Dist(a[i], b[i]) : i \in Axes} = {Dist(b[i], a[i]) : i \in Axes}
  BY <1>2
<1> QED
  BY <1>3, Zenon DEF Gap, Gaps

\* The number of steps in which a segment is looked at.
Steps(a, b) == IF a = b THEN 1 ELSE Gap(a, b)

\* What the poses around a segment are.
LEMMA SamplesDef ==
  ASSUME NEW a \in Configs, NEW b \in Configs
  PROVE  Samples(a, b) = {c \in Configs : \E k \in 0..Steps(a, b) : \A i \in Axes :
           Dist(Steps(a, b) * c[i], Steps(a, b) * a[i] + k * (b[i] - a[i])) < Steps(a, b)}
  BY Zenon DEF Samples, SegmentPoses, Steps

LEMMA SamplesType ==
  ASSUME NEW a \in Configs, NEW b \in Configs
  PROVE  Samples(a, b) \subseteq Configs
  BY SamplesDef

\* A segment passes the same poses in both directions.
LEMMA SamplesSymmetric ==
  ASSUME NEW a \in Configs, NEW b \in Configs
  PROVE  Samples(a, b) \subseteq Samples(b, a)
<1> DEFINE n == Steps(a, b)
<1>1. n \in Nat /\ Steps(b, a) = n
  BY GapType, GapSymmetric DEF Steps
<1> SUFFICES ASSUME NEW c \in Samples(a, b) PROVE c \in Samples(b, a)
  OBVIOUS
<1>2. c \in Configs
  BY SamplesType
<1>3. PICK k \in 0..n : \A i \in Axes : Dist(n * c[i], n * a[i] + k * (b[i] - a[i])) < n
  BY SamplesDef
<1> HIDE DEF n
<1>4. n - k \in 0..n
  BY <1>1
<1>5. ASSUME NEW i \in Axes
      PROVE  Dist(n * c[i], n * b[i] + (n - k) * (a[i] - b[i])) < n
  <2>1. a[i] \in Int /\ b[i] \in Int /\ c[i] \in Int
    BY <1>2 DEF Configs
  <2>2. n * b[i] + (n - k) * (a[i] - b[i]) = n * a[i] + k * (b[i] - a[i])
    BY <1>1, <2>1
  <2> QED
    BY <1>3, <2>2
<1>6. Samples(b, a) = {x \in Configs : \E j \in 0..Steps(b, a) : \A i \in Axes :
           Dist(Steps(b, a) * x[i], Steps(b, a) * b[i] + j * (a[i] - b[i])) < Steps(b, a)}
  BY SamplesDef, Zenon
<1>7. \E j \in 0..n : \A i \in Axes : Dist(n * c[i], n * b[i] + j * (a[i] - b[i])) < n
  BY <1>4, <1>5, Zenon
<1> QED
  BY <1>1, <1>2, <1>6, <1>7, Zenon

-----------------------------------------------------------------------------
(* Poses that the tiers make up *)

\* One step of the trees stays on the grid.
LEMMA SteerType ==
  ASSUME NEW a \in Configs, NEW b \in Configs
  PROVE  Steer(a, b) \in Configs
<1>1. CASE Gap(a, b) <= Step
  BY <1>1 DEF Steer
<1>2. CASE ~(Gap(a, b) <= Step)
  <2> DEFINE n == Gap(a, b)
             p(i) == a[i] + ((b[i] - a[i]) * Step) \div n
  <2>1. n \in Nat /\ Step \in Nat /\ Step < n
    BY <1>2, GapType
  <2> HIDE DEF n
  <2>2. ASSUME NEW i \in Axes PROVE p(i) \in 0..K
    <3>1. a[i] \in 0..K /\ b[i] \in 0..K
      BY DEF Configs
    <3>2. b[i] - a[i] \in Int
      BY <3>1
    <3> DEFINE x == ((b[i] - a[i]) * Step) \div n
    <3>3. /\ x \in Int
          /\ b[i] - a[i] >= 0 => 0 <= x /\ x <= b[i] - a[i]
          /\ b[i] - a[i] <= 0 => b[i] - a[i] <= x /\ x <= 0
      BY <2>1, <3>2, PartOfStep
    <3> HIDE DEF x
    <3> QED
      BY <3>1, <3>3 DEF x
  <2>3. Steer(a, b) = [i \in Axes |-> p(i)]
    BY <1>2 DEF Steer, n
  <2> QED
    BY <2>2, <2>3 DEF Configs
<1> QED
  BY <1>1, <1>2

\* A move of one joint leads to a pose, and the segment to it is clear.
LEMMA JointMoveClear ==
  ASSUME NEW q \in Configs, NEW i \in Axes, JointMove(q, i) # q
  PROVE  JointMove(q, i) \in Configs /\ Clear(q, JointMove(q, i))
<1> DEFINE d == Home[i] - q[i]
           far == {m \in {d, (6 * d) \div 10, (3 * d) \div 10} :
                     m # 0 /\ Clear(q, [q EXCEPT ![i] = @ + m])}
           m == CHOOSE x \in far : \A o \in far : Dist(o, 0) <= Dist(x, 0)
<1>1. q[i] \in 0..K /\ Home[i] \in 0..K
  BY DEF Configs
<1>2. \A x \in {d, (6 * d) \div 10, (3 * d) \div 10} :
        x \in Int /\ (d >= 0 => 0 <= x /\ x <= d) /\ (d <= 0 => d <= x /\ x <= 0)
  <2>1. d \in Int
    BY <1>1
  <2> HIDE DEF d
  <2>2. 6 * d = d * 6 /\ 3 * d = d * 3
    BY <2>1
  <2>3. /\ (d * 6) \div 10 \in Int
        /\ d >= 0 => 0 <= (d * 6) \div 10 /\ (d * 6) \div 10 <= d
        /\ d <= 0 => d <= (d * 6) \div 10 /\ (d * 6) \div 10 <= 0
    BY <2>1, PartOfStep
  <2>4. /\ (d * 3) \div 10 \in Int
        /\ d >= 0 => 0 <= (d * 3) \div 10 /\ (d * 3) \div 10 <= d
        /\ d <= 0 => d <= (d * 3) \div 10 /\ (d * 3) \div 10 <= 0
    BY <2>1, PartOfStep
  <2> QED
    BY <2>1, <2>2, <2>3, <2>4
<1>3. far # {} /\ JointMove(q, i) = [q EXCEPT ![i] = @ + m]
  BY DEF JointMove
<1>4. m \in far
  <2> DEFINE S == {Dist(x, 0) : x \in far}
  <2>0. \A x \in far : x \in {d, (6 * d) \div 10, (3 * d) \div 10}
    OBVIOUS
  <2>2. d \in Int /\ Dist(d, 0) \in Nat
    BY <1>1 DEF Dist
  <2> HIDE DEF far, d
  <2>1. \A x \in far : x \in Int /\ Dist(x, 0) \in 0..Dist(d, 0)
    BY <1>2, <2>0, <2>2 DEF Dist
  <2>3. S \subseteq 0..Dist(d, 0) /\ S # {}
    BY <1>3, <2>1
  <2>4. PICK y \in S : \A z \in S : z <= y
    BY <2>2, <2>3, LargestExists
  <2>5. \E x \in far : \A o \in far : Dist(o, 0) <= Dist(x, 0)
    BY <2>4
  <2> QED
    BY <2>5
<1>5. m \in {d, (6 * d) \div 10, (3 * d) \div 10} /\ Clear(q, [q EXCEPT ![i] = @ + m])
  BY <1>4
<1>6. q[i] + m \in 0..K
  <2>1. m \in Int /\ (d >= 0 => 0 <= m /\ m <= d) /\ (d <= 0 => d <= m /\ m <= 0)
    BY <1>2, <1>5
  <2> HIDE DEF m
  <2> QED
    BY <1>1, <2>1
<1>7. [q EXCEPT ![i] = @ + m] \in Configs
  <2> HIDE DEF m
  <2> QED
    BY <1>6 DEF Configs
<1> QED
  BY <1>3, <1>5, <1>7

\* Backing one joint out stays on the grid.
LEMMA BackOutType ==
  ASSUME q0 \in Configs, NEW k \in Nat
  PROVE  BackOut(k) \in Configs
<1> DEFINE delta == (k - 1) \div (2 * N) + 1
           i == ((k - 1) % (2 * N)) \div 2 + 1
           to == IF k % 2 = 1 THEN q0[i] + delta ELSE q0[i] - delta
           x == IF to < 0 THEN 0 ELSE IF to > K THEN K ELSE to
<1>1. delta \in Int
  OBVIOUS
<1>2. i \in Axes => x \in 0..K
  <2> HIDE DEF i, delta
  <2>1. i \in Axes => q0[i] \in 0..K
    BY DEF Configs
  <2>2. i \in Axes => to \in Int
    BY <1>1, <2>1
  <2> HIDE DEF to
  <2> QED
    BY <2>2
<1>3. BackOut(k) = [q0 EXCEPT ![i] = x]
  BY DEF BackOut
<1> HIDE DEF x, i
<1> QED
  BY <1>2, <1>3 DEF Configs

-----------------------------------------------------------------------------
(* Chains: sequences of poses whose segments stay within a set S of poses *)

Chain(S, c, root) ==
  /\ c \in Seq(Configs) /\ c # <<>> /\ c[1] = root
  /\ \A k \in 1..Len(c) - 1 : Samples(c[k], c[k + 1]) \subseteq S

LEMMA ChainAppend ==
  ASSUME NEW S, NEW c, NEW root, Chain(S, c, root), NEW p \in Configs,
         Samples(c[Len(c)], p) \subseteq S
  PROVE  Chain(S, Append(c, p), root) /\ Len(Append(c, p)) >= 2
<1>1. c \in Seq(Configs) /\ Len(c) \in Nat /\ Len(c) >= 1
  BY DEF Chain
<1> DEFINE d == Append(c, p)
<1>2. d \in Seq(Configs) /\ Len(d) = Len(c) + 1 /\ d[Len(d)] = p
      /\ \A k \in 1..Len(c) : d[k] = c[k]
  BY <1>1
<1> HIDE DEF d
<1>3. ASSUME NEW k \in 1..Len(d) - 1 PROVE Samples(d[k], d[k + 1]) \subseteq S
  <2>1. CASE k = Len(c)
    BY <1>1, <1>2, <2>1
  <2>2. CASE k \in 1..Len(c) - 1
    BY <1>1, <1>2, <2>2 DEF Chain
  <2> QED
    BY <1>1, <1>2, <2>1, <2>2
<1> QED
  BY <1>1, <1>2, <1>3 DEF Chain, d

\* Two poses that see each other.
LEMMA ChainPair ==
  ASSUME NEW S, NEW a \in Configs, NEW b \in Configs, Samples(a, b) \subseteq S
  PROVE  Chain(S, <<a, b>>, a)
  BY DEF Chain

\* Chain c up to its i-th pose, then chain d from its j-th, seen from the other.
LEMMA ChainJoin ==
  ASSUME NEW S, NEW c, NEW root, Chain(S, c, root), NEW d, NEW other, Chain(S, d, other),
         NEW i \in 1..Len(c), NEW j \in 1..Len(d), Samples(c[i], d[j]) \subseteq S
  PROVE  LET e == SubSeq(c, 1, i) \o SubSeq(d, j, Len(d))
         IN  Chain(S, e, root) /\ Len(e) = i + Len(d) - j + 1 /\ e[Len(e)] = d[Len(d)]
<1> DEFINE a == SubSeq(c, 1, i)
           b == SubSeq(d, j, Len(d))
           e == a \o b
<1>1. c \in Seq(Configs) /\ d \in Seq(Configs) /\ Len(c) \in Nat /\ Len(d) \in Nat
  BY DEF Chain
<1>2. a \in Seq(Configs) /\ Len(a) = i /\ \A k \in 1..i : a[k] = c[k]
  BY <1>1
<1>3. /\ b \in Seq(Configs) /\ Len(b) = Len(d) - j + 1
      /\ \A k \in 1..Len(d) - j + 1 : b[k] = d[j + k - 1]
  BY <1>1
<1> HIDE DEF a, b
<1>e. /\ e \in Seq(Configs) /\ Len(e) = Len(a) + Len(b)
      /\ \A k \in 1..Len(a) + Len(b) : e[k] = IF k <= Len(a) THEN a[k] ELSE b[k - Len(a)]
  BY <1>2, <1>3, ConcatProperties
<1> HIDE DEF e
<1>4. e \in Seq(Configs) /\ Len(e) = i + Len(d) - j + 1
  BY <1>1, <1>2, <1>3, <1>e
<1>5. ASSUME NEW k \in 1..i PROVE e[k] = c[k]
  <2>1. k \in 1..Len(a) + Len(b) /\ k <= Len(a)
    BY <1>1, <1>2, <1>3
  <2>2. e[k] = a[k]
    BY <1>e, <2>1
  <2> QED
    BY <1>2, <2>2
<1>6. ASSUME NEW k \in i + 1..Len(e) PROVE e[k] = d[j + k - i - 1]
  <2> DEFINE m == k - i
  <2>1. m \in 1..Len(d) - j + 1 /\ m \in Int /\ j + m - 1 = j + k - i - 1
    BY <1>1, <1>4
  <2>2. e[k] = b[m]
    BY <1>1, <1>2, <1>3, <1>4, <1>e
  <2> HIDE DEF m
  <2> QED
    BY <1>3, <2>1, <2>2
<1>7. ASSUME NEW k \in 1..Len(e) - 1 PROVE Samples(e[k], e[k + 1]) \subseteq S
  <2>1. CASE k < i
    <3>0. k \in 1..Len(c) - 1 /\ k \in 1..i /\ k + 1 \in 1..i
      BY <1>1, <1>4, <2>1
    <3>1. k \in 1..Len(c) - 1 /\ e[k] = c[k] /\ e[k + 1] = c[k + 1]
      BY <1>5, <3>0
    <3> QED
      BY <3>1 DEF Chain
  <2>2. CASE k = i
    <3>1. i + 1 \in i + 1..Len(e) /\ j + (i + 1) - i - 1 = j
      BY <1>1, <1>4, <2>2
    <3>2. e[k] = c[i]
      BY <1>5, <2>2
    <3>3. e[i + 1] = d[j]
      BY <1>6, <3>1
    <3> QED
      BY <2>2, <3>2, <3>3
  <2>3. CASE k > i
    <3> DEFINE n == j + k - i - 1
    <3>1. n \in 1..Len(d) - 1 /\ n + 1 = j + (k + 1) - i - 1
      BY <1>1, <1>4, <2>3
    <3>2. k \in i + 1..Len(e) /\ k + 1 \in i + 1..Len(e)
      BY <1>1, <1>4, <2>3
    <3>3. e[k] = d[n] /\ e[k + 1] = d[n + 1]
      BY <1>6, <3>1, <3>2
    <3> HIDE DEF n
    <3> QED
      BY <3>1, <3>3 DEF Chain
  <2> QED
    BY <1>1, <2>1, <2>2, <2>3
<1>8. e[Len(e)] = d[Len(d)]
  <2>1. Len(e) \in i + 1..Len(e) /\ j + Len(e) - i - 1 = Len(d)
    BY <1>1, <1>4
  <2> QED
    BY <1>6, <2>1
<1>9. e # <<>> /\ e[1] = root
  BY <1>1, <1>4, <1>5 DEF Chain
<1> QED
  BY <1>4, <1>7, <1>8, <1>9 DEF Chain, e, a, b

\* A chain can be run through backwards.
LEMMA ChainReverse ==
  ASSUME NEW S, NEW c, NEW root, Chain(S, c, root)
  PROVE  /\ Chain(S, Reverse(c), c[Len(c)])
         /\ Len(Reverse(c)) = Len(c) /\ Reverse(c)[Len(c)] = root
<1>1. c \in Seq(Configs) /\ Len(c) \in Nat /\ Len(c) >= 1
  BY DEF Chain
<1> DEFINE r == Reverse(c)
<1>2. r = [i \in 1..Len(c) |-> c[(Len(c) - i) + 1]]
  BY DEF Reverse
<1> HIDE DEF r
<1>3. r \in Seq(Configs) /\ Len(r) = Len(c)
  BY <1>1, <1>2
<1>4. \A i \in 1..Len(c) : r[i] = c[(Len(c) - i) + 1]
  BY <1>2
<1>5. ASSUME NEW k \in 1..Len(r) - 1 PROVE Samples(r[k], r[k + 1]) \subseteq S
  <2> DEFINE n == Len(c) - k
  <2>1. n \in 1..Len(c) - 1 /\ (Len(c) - k) + 1 = n + 1 /\ (Len(c) - (k + 1)) + 1 = n
    BY <1>1, <1>3
  <2>2. k \in 1..Len(c) /\ k + 1 \in 1..Len(c)
    BY <1>1, <1>3
  <2>3. r[k] = c[n + 1] /\ r[k + 1] = c[n]
    BY <1>4, <2>1, <2>2
  <2> HIDE DEF n
  <2>4. c[n] \in Configs /\ c[n + 1] \in Configs
    BY <1>1, <2>1
  <2>5. Samples(c[n], c[n + 1]) \subseteq S
    BY <2>1 DEF Chain
  <2> QED
    BY <2>3, <2>4, <2>5, SamplesSymmetric
<1>6. r[1] = c[Len(c)] /\ r[Len(c)] = c[1]
  BY <1>1, <1>4
<1> QED
  BY <1>1, <1>3, <1>5, <1>6 DEF Chain, r

LEMMA ChainOne == ASSUME NEW S, NEW p \in Configs PROVE Chain(S, <<p>>, p)
  BY DEF Chain

\* A pose before a sequence of poses.
LEMMA Prepended ==
  ASSUME NEW p \in Configs, NEW d \in Seq(Configs)
  PROVE  /\ <<p>> \o d \in Seq(Configs) /\ Len(<<p>> \o d) = Len(d) + 1
         /\ (<<p>> \o d)[1] = p
         /\ \A k \in 1..Len(d) : (<<p>> \o d)[k + 1] = d[k]
<1> DEFINE a == <<p>>
           e == a \o d
<1>1. a \in Seq(Configs) /\ Len(a) = 1 /\ a[1] = p /\ Len(d) \in Nat
  OBVIOUS
<1> HIDE DEF a
<1>2. /\ e \in Seq(Configs) /\ Len(e) = Len(a) + Len(d)
      /\ \A k \in 1..Len(a) + Len(d) : e[k] = IF k <= Len(a) THEN a[k] ELSE d[k - Len(a)]
  BY <1>1, ConcatProperties
<1> HIDE DEF e
<1>3. ASSUME NEW k \in 1..Len(d) PROVE e[k + 1] = d[k]
  <2>1. k + 1 \in 1..Len(a) + Len(d) /\ ~(k + 1 <= Len(a)) /\ k + 1 - Len(a) = k
    BY <1>1
  <2> QED
    BY <1>2, <2>1
<1>4. e[1] = p
  <2>1. 1 \in 1..Len(a) + Len(d) /\ 1 <= Len(a)
    BY <1>1
  <2> QED
    BY <1>1, <1>2, <2>1
<1>5. Len(e) = Len(d) + 1
  BY <1>1, <1>2
<1> QED
  BY <1>2, <1>3, <1>4, <1>5 DEF e, a

\* A pose before a chain.
LEMMA ChainCons ==
  ASSUME NEW S, NEW d, NEW w, Chain(S, d, w), NEW p \in Configs, Samples(p, w) \subseteq S
  PROVE  Chain(S, <<p>> \o d, p) /\ Len(<<p>> \o d) = Len(d) + 1
<1> DEFINE e == <<p>> \o d
<1>1. d \in Seq(Configs) /\ Len(d) \in Nat /\ Len(d) >= 1 /\ d[1] = w
  BY DEF Chain
<1>2. /\ e \in Seq(Configs) /\ Len(e) = Len(d) + 1 /\ e[1] = p
      /\ \A k \in 1..Len(d) : e[k + 1] = d[k]
  BY <1>1, Prepended
<1> HIDE DEF e
<1>3. ASSUME NEW k \in 1..Len(e) - 1 PROVE Samples(e[k], e[k + 1]) \subseteq S
  <2>1. CASE k = 1
    <3>1. 1 \in 1..Len(d)
      BY <1>1
    <3> QED
      BY <1>1, <1>2, <2>1, <3>1
  <2>2. CASE k # 1
    <3> DEFINE n == k - 1
    <3>1. n \in 1..Len(d) - 1 /\ n \in 1..Len(d) /\ n + 1 \in 1..Len(d) /\ k = n + 1
      BY <1>1, <1>2, <2>2
    <3> HIDE DEF n
    <3>2. e[k] = d[n] /\ e[k + 1] = d[n + 1]
      BY <1>2, <3>1
    <3> QED
      BY <3>1, <3>2 DEF Chain
  <2> QED
    BY <2>1, <2>2
<1> QED
  BY <1>1, <1>2, <1>3 DEF Chain, e

-----------------------------------------------------------------------------
(* Certificates *)

\* The poses that are at or above the floor.
Free == {c \in Configs : Margin(c, scale) >= floor}

LEMMA ClearIsFree ==
  ASSUME NEW a \in Configs, NEW b \in Configs
  PROVE  Clear(a, b) <=> Samples(a, b) \subseteq Free
  BY SamplesType DEF Clear, Free

\* What RouteCertified says of a route r from q, with the clearances m.
Certified(m, q, r) ==
  /\ r.path \in Seq(Configs) /\ r.path # <<>> /\ r.scale \in Nat
  /\ \A c \in RouteSamples(<<q>> \o r.path) :
       m[c] - r.scale >= IF m[q] - r.scale < 0 THEN m[q] - r.scale ELSE 0
  /\ IF r.complete THEN r.path[Len(r.path)] = Home
     ELSE Gap(r.path[Len(r.path)], Home) < Gap(q, Home)

\* A chain of at least two poses, without its first one.
LEMMA ChainTail ==
  ASSUME NEW S, NEW c, NEW root, Chain(S, c, root), Len(c) >= 2
  PROVE  /\ Tail(c) \in Seq(Configs) /\ Tail(c) # <<>>
         /\ Tail(c)[Len(Tail(c))] = c[Len(c)] /\ c[Len(c)] \in Configs
         /\ RouteSamples(<<root>> \o Tail(c)) \subseteq S
<1>1. c \in Seq(Configs) /\ c # <<>> /\ Len(c) \in Nat
  BY DEF Chain
<1>2. /\ Tail(c) \in Seq(Configs) /\ Len(Tail(c)) = Len(c) - 1
      /\ \A i \in 1..Len(Tail(c)) : Tail(c)[i] = c[i + 1]
  BY <1>1, HeadTailProperties
<1>3. Tail(c)[Len(Tail(c))] = c[Len(c)]
  <2>1. Len(Tail(c)) \in 1..Len(Tail(c)) /\ Len(Tail(c)) + 1 = Len(c)
    BY <1>1, <1>2
  <2> QED
    BY <1>2, <2>1
<1>4. <<root>> \o Tail(c) = c
  <2> DEFINE e == <<root>> \o Tail(c)
  <2>1. root = c[1] /\ root \in Configs
    BY <1>1 DEF Chain
  <2>2. /\ e \in Seq(Configs) /\ Len(e) = Len(Tail(c)) + 1 /\ e[1] = root
        /\ \A k \in 1..Len(Tail(c)) : e[k + 1] = Tail(c)[k]
    BY <1>2, <2>1, Prepended
  <2> HIDE DEF e
  <2>3. ASSUME NEW k \in 1..Len(e) PROVE e[k] = c[k]
    <3>1. CASE k = 1
      BY <2>1, <2>2, <3>1
    <3>2. CASE k # 1
      <4>1. k - 1 \in 1..Len(Tail(c)) /\ (k - 1) + 1 = k
        BY <1>1, <1>2, <2>2, <3>2
      <4> QED
        BY <1>2, <2>2, <4>1
    <3> QED
      BY <3>1, <3>2
  <2>4. Len(e) = Len(c)
    BY <1>1, <1>2, <2>2
  <2> QED
    BY <1>1, <2>2, <2>3, <2>4, SeqEqual DEF e
<1>5. RouteSamples(c) \subseteq S
  BY DEF RouteSamples, Chain
<1>6. Tail(c) # <<>> /\ c[Len(c)] \in Configs
  <2>1. Len(Tail(c)) # 0 /\ Len(c) \in 1..Len(c)
    BY <1>1, <1>2
  <2>2. Len(<<>>) = 0
    OBVIOUS
  <2>3. c[Len(c)] \in Configs
    BY <1>1, <2>1, ElementOfSeq
  <2>4. Tail(c) # <<>>
    BY <2>1, <2>2, Zenon
  <2> QED
    BY <2>3, <2>4
<1> QED
  BY <1>2, <1>3, <1>4, <1>5, <1>6

LEMMA ReturnsCertified ==
  ASSUME clear \in [Configs -> Int], q0 \in Configs, scale \in Nat, floor = Floor(scale),
         NEW path, Chain(Free, path, q0), Len(path) >= 2, NEW how, NEW next,
         best = NoRoute \/ Certified(clear, q0, best),
         answer = NoRoute \/ Certified(clear, q0, answer),
         Returns(path, how, next)
  PROVE  /\ best' = NoRoute \/ Certified(clear, q0, best')
         /\ answer' = NoRoute \/ Certified(clear, q0, answer')
         /\ plan' \in {"done", next}
<1> DEFINE last == path[Len(path)]
           gain == Gap(q0, Home) - Gap(last, Home)
           found == [path |-> Tail(path), scale |-> scale, how |-> how,
                     complete |-> last = Home, gain |-> gain]
<1>1. /\ Tail(path) \in Seq(Configs) /\ Tail(path) # <<>>
      /\ Tail(path)[Len(Tail(path))] = last /\ last \in Configs
      /\ RouteSamples(<<q0>> \o Tail(path)) \subseteq Free
  BY ChainTail
<1>2. \A c \in RouteSamples(<<q0>> \o Tail(path)) :
        clear[c] - scale >= IF clear[q0] - scale < 0 THEN clear[q0] - scale ELSE 0
  BY <1>1 DEF Free, Floor, Margin
<1>3. Gap(last, Home) \in Int /\ Gap(q0, Home) \in Int
  <2>1. last \in Configs /\ Home \in Configs
    BY <1>1
  <2> HIDE DEF last
  <2>2. Gap(last, Home) \in 0..K /\ Gap(q0, Home) \in 0..K
    BY <2>1, GapType
  <2> QED
    BY <2>2
<1>4. last = Home \/ gain > 0 => Certified(clear, q0, found)
  <2>1. /\ found.path = Tail(path) /\ found.scale = scale
        /\ found.complete = (last = Home)
    OBVIOUS
  <2>2. last # Home /\ gain > 0 => Gap(last, Home) < Gap(q0, Home)
    BY <1>3
  <2> HIDE DEF found, gain, last
  <2> QED
    BY <1>1, <1>2, <2>1, <2>2 DEF Certified
<1>5. IF last = Home
      THEN answer' = found /\ plan' = "done" /\ UNCHANGED best
      ELSE /\ best' = IF gain > 0 /\ (best = NoRoute \/ gain > best.gain) THEN found ELSE best
           /\ plan' = next /\ UNCHANGED answer
  BY DEF Returns
<1> HIDE DEF found, gain, last
<1>6. CASE last = Home
  BY <1>4, <1>5, <1>6
<1>7. CASE last # Home
  BY <1>4, <1>5, <1>7
<1> QED
  BY <1>6, <1>7

-----------------------------------------------------------------------------
(* The tiers' routes are chains *)

LEMMA ByGroupChain ==
  ASSUME NEW q \in Configs, NEW g, ByGroup(q, g) # NoRoute
  PROVE  Chain(Free, ByGroup(q, g), q) /\ Len(ByGroup(q, g)) >= 2
<1> DEFINE w == [i \in Axes |-> IF i \in g THEN Home[i] ELSE q[i]]
<1>1. w \in Configs
  BY DEF Configs
<1>2. ByGroup(q, g) = <<q, w, Home>> /\ Clear(q, w) /\ Clear(w, Home)
  BY DEF ByGroup
<1> HIDE DEF w
<1>3. Chain(Free, <<w, Home>>, w)
  BY <1>1, <1>2, ClearIsFree, ChainPair
<1>4. Chain(Free, <<q>> \o <<w, Home>>, q) /\ Len(<<q>> \o <<w, Home>>) = 3
  BY <1>1, <1>2, <1>3, ClearIsFree, ChainCons
<1>5. <<q>> \o <<w, Home>> = <<q, w, Home>>
  <2> DEFINE e == <<q>> \o <<w, Home>>
             f == <<q, w, Home>>
             d == <<w, Home>>
  <2>1. d \in Seq(Configs) /\ Len(d) = 2 /\ d[1] = w /\ d[2] = Home
    BY <1>1
  <2> HIDE DEF d
  <2>2. e \in Seq(Configs) /\ Len(e) = 3 /\ e[1] = q /\ e[2] = w /\ e[3] = Home
    <3>1. /\ <<q>> \o d \in Seq(Configs) /\ Len(<<q>> \o d) = Len(d) + 1
          /\ (<<q>> \o d)[1] = q
          /\ \A k \in 1..Len(d) : (<<q>> \o d)[k + 1] = d[k]
      BY <2>1, Prepended
    <3>2. (<<q>> \o d)[1 + 1] = d[1] /\ (<<q>> \o d)[2 + 1] = d[2]
      BY <2>1, <3>1
    <3> QED
      BY <2>1, <3>1, <3>2 DEF d
  <2>3. f \in Seq(Configs) /\ Len(f) = 3 /\ f[1] = q /\ f[2] = w /\ f[3] = Home
    BY <1>1
  <2> HIDE DEF e, f
  <2>4. \A k \in 1..Len(e) : e[k] = f[k]
    BY <2>2, <2>3
  <2> QED
    BY <2>2, <2>3, <2>4, SeqEqual DEF e, f
<1>6. Chain(Free, <<q, w, Home>>, q)
  BY <1>4, <1>5, Zenon
<1>7. Chain(Free, ByGroup(q, g), q)
  BY <1>2, <1>6, Zenon
<1> QED
  BY <1>2, <1>7

LEMMA StagedChain ==
  ASSUME NEW q \in Configs, NEW n \in Nat, StagedRoute(q, n) # NoRoute
  PROVE  Chain(Free, StagedRoute(q, n), q) /\ Len(StagedRoute(q, n)) >= 2
<1> DEFINE works == {k \in 1..n : ByGroup(q, Groups[k]) # NoRoute}
<1>1. works # {} /\ StagedRoute(q, n) = ByGroup(q, Groups[Least(works)])
  BY DEF StagedRoute
<1>2. Least(works) \in works
  <2>1. works \subseteq Nat
    OBVIOUS
  <2> HIDE DEF works
  <2> QED
    BY <1>1, <2>1, LeastExists DEF Least
<1>3. ByGroup(q, Groups[Least(works)]) # NoRoute
  BY <1>2
<1> QED
  BY <1>1, <1>3, ByGroupChain

LEMMA DetourChain ==
  ASSUME q0 \in Configs, NEW k \in Nat, DetourRoute(k) # NoRoute
  PROVE  Chain(Free, DetourRoute(k), q0) /\ Len(DetourRoute(k)) >= 2
<1> DEFINE w == BackOut(k)
           rest == IF Clear(w, Home) THEN <<w, Home>> ELSE StagedRoute(w, 5)
<1>1. w \in Configs
  BY BackOutType
<1>2. Clear(q0, w) /\ rest # NoRoute /\ DetourRoute(k) = <<q0>> \o rest
  BY DEF DetourRoute
<1>3. Chain(Free, rest, w) /\ Len(rest) >= 2
  <2> HIDE DEF w
  <2>1. CASE Clear(w, Home)
    BY <1>1, <2>1, ClearIsFree, ChainPair
  <2>2. CASE ~Clear(w, Home)
    BY <1>1, <1>2, <2>2, StagedChain
  <2> QED
    BY <2>1, <2>2
<1> HIDE DEF w, rest
<1>4. Chain(Free, <<q0>> \o rest, q0) /\ Len(<<q0>> \o rest) = Len(rest) + 1
  BY <1>1, <1>2, <1>3, ClearIsFree, ChainCons
<1>5. Len(rest) \in Nat
  BY <1>3 DEF Chain
<1> DEFINE e == <<q0>> \o rest
<1>6. Chain(Free, e, q0) /\ Len(e) = Len(rest) + 1
  BY <1>4
<1>7. DetourRoute(k) = e
  BY <1>2
<1> HIDE DEF e
<1>8. Len(e) >= 2
  BY <1>3, <1>5, <1>6
<1> QED
  BY <1>6, <1>7, <1>8

\* Two branches that meet make a chain.
LEMMA Meet ==
  ASSUME NEW S, NEW c, NEW root, Chain(S, c, root), Len(c) >= 2,
         NEW d, NEW other, Chain(S, d, other), Len(d) >= 2, c[Len(c)] = d[Len(d)]
  PROVE  /\ Chain(S, c \o Tail(Reverse(d)), root)
         /\ Len(c \o Tail(Reverse(d))) >= 2
<1> DEFINE r == Reverse(d)
           e == SubSeq(c, 1, Len(c)) \o SubSeq(r, 2, Len(r))
<1>1. c \in Seq(Configs) /\ Len(c) \in Nat /\ d \in Seq(Configs) /\ Len(d) \in Nat
  BY DEF Chain
<1>2. Chain(S, r, d[Len(d)]) /\ Len(r) = Len(d) /\ r[1] = d[Len(d)] /\ r \in Seq(Configs)
  BY ChainReverse DEF Chain
<1> HIDE DEF r
<1>3. Len(c) \in 1..Len(c) /\ 2 \in 1..Len(r)
  BY <1>1, <1>2
<1>4. Samples(c[Len(c)], r[2]) \subseteq S
  <2>1. 1 \in 1..Len(r) - 1
    BY <1>1, <1>2
  <2>2. Samples(r[1], r[1 + 1]) \subseteq S
    BY <1>2, <2>1 DEF Chain
  <2> QED
    BY <1>2, <2>2
<1>5. Chain(S, e, root) /\ Len(e) = Len(c) + Len(r) - 2 + 1
  BY <1>2, <1>3, <1>4, ChainJoin
<1>6. SubSeq(c, 1, Len(c)) = c
  BY <1>1, SubSeqFull
<1>7. SubSeq(r, 2, Len(r)) = Tail(r)
  <2>1. r # <<>>
    BY <1>2 DEF Chain
  <2> QED
    BY <1>2, <2>1, TailIsSubSeq
<1>8. e = c \o Tail(r)
  BY <1>6, <1>7, Zenon
<1>9. Len(e) >= 2
  BY <1>1, <1>2, <1>5
<1> HIDE DEF e
<1>10. Chain(S, c \o Tail(r), root) /\ Len(c \o Tail(r)) >= 2
  BY <1>5, <1>8, <1>9
<1> QED
  BY <1>10 DEF r

\* The same, walked from the other end: what Joined does when the tree of home grew.
LEMMA MeetReversed ==
  ASSUME NEW S, NEW c, NEW root, Chain(S, c, root), Len(c) >= 2,
         NEW d, NEW other, Chain(S, d, other), Len(d) >= 2, c[Len(c)] = d[Len(d)]
  PROVE  LET e == Reverse(Tail(Reverse(d))) \o Reverse(c)
         IN  Chain(S, e, other) /\ Len(e) >= 2
<1> DEFINE m == Len(d) - 1
           f == SubSeq(d, 1, m)
           r == Reverse(d)
           t == Tail(r)
           b == Reverse(t)
           g == Reverse(c)
<1>1. c \in Seq(Configs) /\ Len(c) \in Nat /\ d \in Seq(Configs) /\ Len(d) \in Nat
  BY DEF Chain
<1>2. m \in 1..Len(d) /\ m \in Nat
  BY <1>1
<1>3. Chain(S, r, d[Len(d)]) /\ Len(r) = Len(d) /\ r \in Seq(Configs) /\ r # <<>>
  BY ChainReverse DEF Chain
<1>4. \A i \in 1..Len(d) : r[i] = d[(Len(d) - i) + 1]
  BY DEF Reverse
<1> HIDE DEF r
<1>5. t \in Seq(Configs) /\ Len(t) = m /\ \A i \in 1..m : t[i] = r[i + 1]
  BY <1>3, HeadTailProperties
<1> HIDE DEF t
<1>6. b = [i \in 1..m |-> t[(m - i) + 1]]
  BY <1>5 DEF Reverse
<1> HIDE DEF b
<1>7. /\ f \in Seq(Configs) /\ Len(f) = m
      /\ \A i \in 1..m : f[i] = d[i]
  BY <1>1, <1>2
<1> HIDE DEF f
<1>8. b = f
  <2>1. \A i \in 1..m : b[i] = t[(m - i) + 1]
    BY <1>6
  <2>2. ASSUME NEW i \in 1..m PROVE b[i] = f[i]
    <3> DEFINE n == (m - i) + 1
    <3>1. n \in 1..m /\ n + 1 \in 1..Len(d) /\ (Len(d) - (n + 1)) + 1 = i
      BY <1>1, <1>2
    <3> HIDE DEF n
    <3>2. t[n] = r[n + 1] /\ r[n + 1] = d[(Len(d) - (n + 1)) + 1]
      BY <1>4, <1>5, <3>1
    <3> QED
      BY <1>7, <2>1, <3>1, <3>2 DEF n
  <2>3. f = [i \in 1..m |-> f[i]]
    BY <1>7
  <2> QED
    BY <1>6, <2>1, <2>2, <2>3
<1>9. Chain(S, g, c[Len(c)]) /\ Len(g) = Len(c) /\ g \in Seq(Configs) /\ g[1] = c[Len(c)]
  BY ChainReverse DEF Chain
<1> HIDE DEF g
<1>10. 1 \in 1..Len(g) /\ Samples(d[m], g[1]) \subseteq S
  <2>1. m \in 1..Len(d) - 1 /\ m + 1 = Len(d)
    BY <1>1
  <2>2. Samples(d[m], d[m + 1]) \subseteq S
    BY <2>1 DEF Chain
  <2> QED
    BY <1>1, <1>9, <2>1, <2>2
<1>11. LET e == SubSeq(d, 1, m) \o SubSeq(g, 1, Len(g))
       IN  Chain(S, e, other) /\ Len(e) = m + Len(g) - 1 + 1
  BY <1>2, <1>9, <1>10, ChainJoin
<1>12. SubSeq(g, 1, Len(g)) = g
  BY <1>9, SubSeqFull
<1>13. Chain(S, f \o g, other) /\ Len(f \o g) = m + Len(g) - 1 + 1
  BY <1>11, <1>12 DEF f
<1>14. Len(f \o g) >= 2
  BY <1>1, <1>2, <1>9, <1>13
<1>15. Chain(S, b \o g, other) /\ Len(b \o g) >= 2
  BY <1>8, <1>13, <1>14
<1> QED
  BY <1>15 DEF b, t, r, g

-----------------------------------------------------------------------------
(* The invariant of the search *)

Root(t) == IF t = "start" THEN q0 ELSE Home

\* The start and the ladder.
LadderOK ==
  /\ clear \in [Configs -> Int] /\ q0 \in Configs
  /\ left \in Seq(Nat) /\ scale \in Nat

\* Where a route under construction stands.
RouteOK ==
  /\ plan \notin {"idle", "scale", "done"} => floor = Floor(scale)
  /\ plan = "greedy" => Chain(Free, pts, q0)
  /\ plan = "smooth" => Chain(Free, pts, q0) /\ Len(pts) >= 2

\* The trees hold chains from their roots; the branches that reach for each other, too.
TreesOK ==
  /\ plan \in {"rrt", "connect"} =>
       /\ turn \in {"start", "goal"} /\ trees = [start |-> trees["start"], goal |-> trees["goal"]]
       /\ \A c \in trees["start"] : Chain(Free, c, q0)
       /\ \A c \in trees["goal"] : Chain(Free, c, Home)
  /\ plan = "connect" =>
       /\ Chain(Free, tip, Root(turn)) /\ Len(tip) >= 2
       /\ Chain(Free, limb, Root(Other(turn)))

\* What is returned, or may be, is certified.
AnswersOK ==
  /\ plan \notin {"idle", "done"} => best = NoRoute \/ Certified(clear, q0, best)
  /\ answer = NoRoute \/ Certified(clear, q0, answer)

PlannerIInv == LadderOK /\ RouteOK /\ TreesOK /\ AnswersOK

\* A step that keeps the start and the floor keeps what is free and certified.
LEMMA FreeKept ==
  ASSUME UNCHANGED <<clear, scale, floor>>
  PROVE  Free' = Free
  BY DEF Free, Margin

LEMMA FloorKept ==
  ASSUME UNCHANGED <<clear, q0, scale>>
  PROVE  Floor(scale)' = Floor(scale)
  BY DEF Floor, Margin

-----------------------------------------------------------------------------
(* The steps of the search *)

LEMMA NextScaleStep ==
  ASSUME PlannerIInv, NextScale, UNCHANGED clear
  PROVE  PlannerIInv'
<1>1. /\ left \in Seq(Nat) /\ left # <<>> /\ scale' = Head(left) /\ left' = Tail(left)
      /\ floor' = Floor(Head(left)) /\ plan' \in {"scale", "direct"}
      /\ UNCHANGED <<q0, best, answer>> /\ plan = "scale"
  BY DEF PlannerIInv, LadderOK, NextScale
<1>2. scale' \in Nat /\ left' \in Seq(Nat)
  BY <1>1
<1>3. floor' = Floor(scale)'
  BY <1>1 DEF Floor, Margin
<1> QED
  BY <1>1, <1>2, <1>3 DEF PlannerIInv, LadderOK, RouteOK, TreesOK, AnswersOK

LEMMA GiveUpStep ==
  ASSUME PlannerIInv, GiveUp, UNCHANGED clear
  PROVE  PlannerIInv'
  BY DEF PlannerIInv, LadderOK, RouteOK, TreesOK, AnswersOK, GiveUp

LEMMA DeadlineStep ==
  ASSUME PlannerIInv, Deadline, UNCHANGED clear
  PROVE  PlannerIInv'
<1>1. Free' = Free /\ Floor(scale)' = Floor(scale)
  BY FreeKept, FloorKept DEF Deadline
<1> QED
  BY <1>1 DEF PlannerIInv, LadderOK, RouteOK, TreesOK, AnswersOK, Deadline, Root, Other

LEMMA BreakStep ==
  ASSUME PlannerIInv, Break, UNCHANGED clear
  PROVE  PlannerIInv'
  BY DEF PlannerIInv, LadderOK, RouteOK, TreesOK, AnswersOK, Break

\* What a tier leaves behind that returns a route or goes on.
LEMMA TierStep ==
  ASSUME PlannerIInv, plan \notin {"idle", "scale", "done"},
         UNCHANGED <<clear, q0, left, scale, floor>>,
         NEW next,
         \/ \E path, how : /\ Chain(Free, path, q0) /\ Len(path) >= 2
                           /\ Returns(path, how, next)
         \/ plan' = next /\ UNCHANGED <<best, answer>>
  PROVE  LadderOK' /\ AnswersOK' /\ plan' \in {"done", next}
<1>1. /\ clear \in [Configs -> Int] /\ q0 \in Configs /\ scale \in Nat /\ floor = Floor(scale)
      /\ best = NoRoute \/ Certified(clear, q0, best)
      /\ answer = NoRoute \/ Certified(clear, q0, answer)
  BY DEF PlannerIInv, LadderOK, RouteOK, AnswersOK
<1>2. /\ best' = NoRoute \/ Certified(clear, q0, best')
      /\ answer' = NoRoute \/ Certified(clear, q0, answer')
      /\ plan' \in {"done", next}
  <2>1. CASE plan' = next /\ UNCHANGED <<best, answer>>
    BY <1>1, <2>1
  <2>2. CASE \E path, how : /\ Chain(Free, path, q0) /\ Len(path) >= 2
                            /\ Returns(path, how, next)
    BY <1>1, <2>2, ReturnsCertified
  <2> QED
    BY <2>1, <2>2
<1>3. LadderOK'
  BY DEF PlannerIInv, LadderOK
<1> QED
  BY <1>2, <1>3 DEF AnswersOK

LEMMA DirectStep ==
  ASSUME PlannerIInv, Direct, UNCHANGED clear
  PROVE  PlannerIInv'
<1>1. q0 \in Configs /\ floor = Floor(scale)
  BY DEF PlannerIInv, LadderOK, RouteOK, Direct
<1>2. Clear(q0, Home) => Chain(Free, <<q0, Home>>, q0) /\ Len(<<q0, Home>>) >= 2
  BY <1>1, ClearIsFree, ChainPair
<1>3. LadderOK' /\ AnswersOK' /\ plan' \in {"done", "staged"}
  BY <1>2, TierStep DEF Direct
<1>4. floor' = Floor(scale)'
  BY <1>1, FloorKept DEF Direct
<1> QED
  BY <1>3, <1>4 DEF PlannerIInv, RouteOK, TreesOK

LEMMA StagedStep ==
  ASSUME PlannerIInv, Staged, UNCHANGED clear
  PROVE  PlannerIInv'
<1>1. q0 \in Configs /\ floor = Floor(scale) /\ plan = "staged"
      /\ UNCHANGED <<clear, q0, left, scale, floor>> /\ pts' = <<q0>>
  BY DEF PlannerIInv, LadderOK, RouteOK, Staged
<1>2. PICK n \in 0..5 :
        IF StagedRoute(q0, n) # NoRoute THEN Returns(StagedRoute(q0, n), "staged", "greedy")
        ELSE plan' = "greedy" /\ UNCHANGED <<best, answer>>
  BY DEF Staged
<1>3. n \in Nat
  OBVIOUS
<1>4. LadderOK' /\ AnswersOK' /\ plan' \in {"done", "greedy"}
  BY <1>1, <1>2, <1>3, StagedChain, TierStep
<1>5. floor' = Floor(scale)' /\ Free' = Free
  BY <1>1, FloorKept, FreeKept
<1>6. Chain(Free', pts', q0')
  BY <1>1, ChainOne
<1> QED
  BY <1>4, <1>5, <1>6 DEF PlannerIInv, RouteOK, TreesOK

LEMMA GreedyStep ==
  ASSUME PlannerIInv, Greedy, UNCHANGED clear
  PROVE  PlannerIInv'
<1> DEFINE cur == pts[Len(pts)]
           moves == {JointMove(cur, i) : i \in Axes} \ {cur}
<1>1. q0 \in Configs /\ floor = Floor(scale) /\ plan = "greedy" /\ Chain(Free, pts, q0)
      /\ UNCHANGED <<clear, q0, left, scale, floor>>
  BY DEF PlannerIInv, LadderOK, RouteOK, Greedy
<1>2. floor' = Floor(scale)' /\ Free' = Free
  BY <1>1, FloorKept, FreeKept
<1>3. pts \in Seq(Configs) /\ Len(pts) \in Nat /\ Len(pts) >= 1 /\ cur \in Configs
  <2>1. pts \in Seq(Configs) /\ Len(pts) \in Nat /\ Len(pts) >= 1
    BY <1>1 DEF Chain
  <2>2. Len(pts) \in 1..Len(pts)
    BY <2>1
  <2> QED
    BY <2>1, <2>2, ElementOfSeq
<1>4. CASE plan' = "detour" /\ UNCHANGED <<best, answer>>
  <2>1. LadderOK' /\ AnswersOK' /\ plan' \in {"done", "detour"}
    BY <1>1, <1>4, TierStep
  <2> QED
    BY <1>2, <2>1 DEF PlannerIInv, RouteOK, TreesOK
<1>5. CASE Len(pts) > 1 /\ Returns(pts, "greedy", "detour")
  <2>1. Len(pts) >= 2
    BY <1>3, <1>5
  <2>2. LadderOK' /\ AnswersOK' /\ plan' \in {"done", "detour"}
    BY <1>1, <1>5, <2>1, TierStep
  <2> QED
    BY <1>2, <2>2 DEF PlannerIInv, RouteOK, TreesOK
<1>6. CASE /\ \E m \in moves : pts' = Append(pts, m)
           /\ UNCHANGED <<plan, best, answer>>
  <2>1. PICK m \in moves : pts' = Append(pts, m)
    BY <1>6
  <2>2. m \in Configs /\ Clear(cur, m)
    <3>1. PICK i \in Axes : m = JointMove(cur, i) /\ m # cur
      BY <2>1
    <3> HIDE DEF cur
    <3> QED
      BY <1>3, <3>1, JointMoveClear
  <2>3. Samples(cur, m) \subseteq Free
    BY <1>3, <2>2, ClearIsFree
  <2>4. Chain(Free, pts', q0)
    BY <1>1, <2>1, <2>2, <2>3, ChainAppend
  <2>5. LadderOK' /\ AnswersOK' /\ plan' = "greedy"
    BY <1>1, <1>6, TierStep
  <2> QED
    BY <1>1, <1>2, <2>4, <2>5 DEF PlannerIInv, RouteOK, TreesOK
<1>7. \/ plan' = "detour" /\ UNCHANGED <<best, answer>>
      \/ Len(pts) > 1 /\ Returns(pts, "greedy", "detour")
      \/ (\E m \in moves : pts' = Append(pts, m)) /\ UNCHANGED <<plan, best, answer>>
  <2> HIDE DEF Returns
  <2> QED
    BY DEF Greedy
<1> QED
  BY <1>4, <1>5, <1>6, <1>7

LEMMA DetourStep ==
  ASSUME PlannerIInv, Detour, UNCHANGED clear
  PROVE  PlannerIInv'
<1>1. q0 \in Configs /\ floor = Floor(scale) /\ plan = "detour"
      /\ UNCHANGED <<clear, q0, left, scale, floor>>
      /\ trees' = [start |-> {<<q0>>}, goal |-> {<<Home>>}] /\ turn' = "start"
  BY DEF PlannerIInv, LadderOK, RouteOK, Detour
<1>2. floor' = Floor(scale)' /\ Free' = Free
  BY <1>1, FloorKept, FreeKept
<1>3. PICK n \in 0..6 * N :
        LET works == {k \in 1..n : DetourRoute(k) # NoRoute}
        IN  IF works # {} THEN Returns(DetourRoute(Least(works)), "detour", "rrt")
            ELSE /\ plan' = IF n < 6 * N THEN "scale" ELSE "rrt"
                 /\ UNCHANGED <<best, answer>>
  BY DEF Detour
<1> DEFINE works == {k \in 1..n : DetourRoute(k) # NoRoute}
<1>4. LadderOK' /\ AnswersOK' /\ plan' \in {"done", "scale", "rrt"}
  <2>1. CASE works # {}
    <3>1. works \subseteq Nat /\ \A k \in works : DetourRoute(k) # NoRoute
      OBVIOUS
    <3>2. Returns(DetourRoute(Least(works)), "detour", "rrt")
      BY <1>3, <2>1
    <3> HIDE DEF works
    <3>3. Least(works) \in works
      BY <2>1, <3>1, LeastExists DEF Least
    <3>4. Chain(Free, DetourRoute(Least(works)), q0) /\ Len(DetourRoute(Least(works))) >= 2
      BY <1>1, <3>1, <3>3, DetourChain
    <3> QED
      BY <1>1, <3>2, <3>4, TierStep
  <2>2. CASE works = {}
    <3>1. plan' \in {"scale", "rrt"} /\ UNCHANGED <<best, answer>>
      BY <1>3, <2>2
    <3> QED
      BY <1>1, <3>1, TierStep
  <2> QED
    BY <2>1, <2>2
<1>5. /\ turn' \in {"start", "goal"}
      /\ trees' = [start |-> trees'["start"], goal |-> trees'["goal"]]
      /\ \A c \in trees'["start"] : Chain(Free', c, q0')
      /\ \A c \in trees'["goal"] : Chain(Free', c, Home)
  BY <1>1, ChainOne
<1> QED
  BY <1>2, <1>4, <1>5 DEF PlannerIInv, RouteOK, TreesOK

-----------------------------------------------------------------------------
(* RRT-Connect *)

\* Where the trees grow, a step keeps start, floor and answers.
LEMMA RrtKeeps ==
  ASSUME PlannerIInv, plan \in {"rrt", "connect", "smooth"},
         UNCHANGED <<clear, q0, left, scale, floor, best, answer>>,
         plan' \in {"scale", "rrt", "connect", "smooth"}
  PROVE  LadderOK' /\ AnswersOK' /\ floor' = Floor(scale)' /\ Free' = Free
<1>1. floor = Floor(scale)
  BY DEF PlannerIInv, RouteOK
<1>2. floor' = Floor(scale)' /\ Free' = Free
  BY <1>1, FloorKept, FreeKept
<1> QED
  BY <1>2 DEF PlannerIInv, LadderOK, AnswersOK

LEMMA NodeType ==
  ASSUME NEW S, NEW c, NEW root, Chain(S, c, root)
  PROVE  Node(c) \in Configs
<1>1. c \in Seq(Configs) /\ Len(c) \in 1..Len(c)
  BY DEF Chain
<1> QED
  BY <1>1, ElementOfSeq DEF Node

LEMMA GrowStep ==
  ASSUME PlannerIInv, Grow, UNCHANGED clear
  PROVE  PlannerIInv'
<1>1. /\ plan = "rrt" /\ UNCHANGED <<clear, q0, left, scale, floor, best, answer, pts>>
      /\ turn \in {"start", "goal"} /\ trees = [start |-> trees["start"], goal |-> trees["goal"]]
      /\ \A c \in trees["start"] : Chain(Free, c, q0)
      /\ \A c \in trees["goal"] : Chain(Free, c, Home)
  BY DEF Grow, PlannerIInv, TreesOK
<1>0. PICK qr \in Configs : \E a \in Nearest(trees[turn], qr) :
        LET qn == Steer(Node(a), qr)
        IN  IF Clear(Node(a), qn)
            THEN /\ trees' = [trees EXCEPT ![turn] = @ \cup {Append(a, qn)}]
                 /\ tip' = Append(a, qn)
                 /\ limb' \in Nearest(trees[Other(turn)], qn)
                 /\ plan' = "connect" /\ UNCHANGED turn
            ELSE turn' = Other(turn) /\ UNCHANGED <<plan, trees, tip, limb>>
  BY DEF Grow
<1>2. PICK a \in Nearest(trees[turn], qr) :
        LET qn == Steer(Node(a), qr)
        IN  IF Clear(Node(a), qn)
            THEN /\ trees' = [trees EXCEPT ![turn] = @ \cup {Append(a, qn)}]
                 /\ tip' = Append(a, qn)
                 /\ limb' \in Nearest(trees[Other(turn)], qn)
                 /\ plan' = "connect" /\ UNCHANGED turn
            ELSE turn' = Other(turn) /\ UNCHANGED <<plan, trees, tip, limb>>
  BY <1>0
<1> DEFINE qn == Steer(Node(a), qr)
<1>3. a \in trees[turn] /\ Chain(Free, a, Root(turn))
  BY <1>1, <1>2 DEF Nearest, Root
<1>4. Node(a) \in Configs /\ qn \in Configs
  BY <1>3, NodeType, SteerType
<1>5. CASE Clear(Node(a), qn)
  <2>1. /\ trees' = [trees EXCEPT ![turn] = @ \cup {Append(a, qn)}]
        /\ tip' = Append(a, qn) /\ limb' \in Nearest(trees[Other(turn)], qn)
        /\ plan' = "connect" /\ turn' = turn
    BY <1>2, <1>5
  <2> HIDE DEF qn
  <2>2. Samples(Node(a), qn) \subseteq Free
    BY <1>4, <1>5, ClearIsFree
  <2>3. Chain(Free, Append(a, qn), Root(turn)) /\ Len(Append(a, qn)) >= 2
    BY <1>3, <1>4, <2>2, ChainAppend DEF Node
  <2>4. LadderOK' /\ AnswersOK' /\ floor' = Floor(scale)' /\ Free' = Free
    BY <1>1, <2>1, RrtKeeps
  <2>5. limb' \in trees[Other(turn)] /\ Chain(Free, limb', Root(Other(turn)))
    BY <1>1, <2>1 DEF Nearest, Other, Root
  <2>6. /\ trees' = [start |-> trees'["start"], goal |-> trees'["goal"]]
        /\ \A c \in trees'["start"] : Chain(Free, c, q0)
        /\ \A c \in trees'["goal"] : Chain(Free, c, Home)
    <3>1. CASE turn = "start"
      <4>1. trees' = [start |-> trees["start"] \cup {Append(a, qn)}, goal |-> trees["goal"]]
        BY <1>1, <2>1, <3>1
      <4> QED
        BY <1>1, <2>3, <3>1, <4>1 DEF Root
    <3>2. CASE turn = "goal"
      <4>1. trees' = [start |-> trees["start"], goal |-> trees["goal"] \cup {Append(a, qn)}]
        BY <1>1, <2>1, <3>2
      <4> QED
        BY <1>1, <2>3, <3>2, <4>1 DEF Root
    <3> QED
      BY <1>1, <3>1, <3>2
  <2>7. Root(turn)' = Root(turn) /\ Root(Other(turn))' = Root(Other(turn))
    BY <1>1, <2>1 DEF Root, Other
  <2>8. TreesOK'
    BY <1>1, <2>1, <2>3, <2>4, <2>5, <2>6, <2>7 DEF TreesOK
  <2> QED
    BY <2>1, <2>4, <2>8 DEF PlannerIInv, RouteOK
<1>6. CASE ~Clear(Node(a), qn)
  <2>1. turn' = Other(turn) /\ UNCHANGED <<plan, trees, tip, limb>>
    BY <1>2, <1>6
  <2>2. LadderOK' /\ AnswersOK' /\ floor' = Floor(scale)' /\ Free' = Free
    BY <1>1, <2>1, RrtKeeps
  <2>3. TreesOK'
    BY <1>1, <2>1, <2>2 DEF TreesOK, Other
  <2> QED
    BY <1>1, <2>1, <2>2, <2>3 DEF PlannerIInv, RouteOK
<1> QED
  BY <1>5, <1>6

\* A branch that the other tree adds.
LEMMA TreesGrow ==
  ASSUME TreesOK, plan \in {"rrt", "connect"}, NEW t \in {"start", "goal"}, NEW c,
         Chain(Free, c, Root(t)), trees' = [trees EXCEPT ![t] = @ \cup {c}]
  PROVE  /\ trees' = [start |-> trees'["start"], goal |-> trees'["goal"]]
         /\ \A b \in trees'["start"] : Chain(Free, b, q0)
         /\ \A b \in trees'["goal"] : Chain(Free, b, Home)
<1> DEFINE s == trees["start"]
           g == trees["goal"]
<1>1. /\ trees = [start |-> s, goal |-> g]
      /\ \A b \in s : Chain(Free, b, q0)
      /\ \A b \in g : Chain(Free, b, Home)
  BY DEF TreesOK
<1> HIDE DEF s, g
<1>2. CASE t = "start"
  <2>1. trees' = [start |-> s \cup {c}, goal |-> g]
    BY <1>1, <1>2
  <2>2. Chain(Free, c, q0) /\ trees'["start"] = s \cup {c} /\ trees'["goal"] = g
    BY <1>2, <2>1 DEF Root
  <2> QED
    BY <1>1, <2>1, <2>2
<1>3. CASE t = "goal"
  <2>1. trees' = [start |-> s, goal |-> g \cup {c}]
    BY <1>1, <1>3
  <2>2. Chain(Free, c, Home) /\ trees'["start"] = s /\ trees'["goal"] = g \cup {c}
    BY <1>3, <2>1 DEF Root
  <2> QED
    BY <1>1, <2>1, <2>2
<1> QED
  BY <1>2, <1>3

LEMMA ConnectStep ==
  ASSUME PlannerIInv, Connect, UNCHANGED clear
  PROVE  PlannerIInv'
<1> DEFINE qs == Steer(Node(limb), Node(tip))
<1>1. /\ plan = "connect" /\ UNCHANGED <<clear, q0, left, scale, floor, best, answer>>
      /\ turn \in {"start", "goal"}
      /\ Chain(Free, tip, Root(turn)) /\ Len(tip) >= 2
      /\ Chain(Free, limb, Root(Other(turn))) /\ TreesOK
  BY DEF Connect, PlannerIInv, TreesOK
<1>2. Node(limb) \in Configs /\ Node(tip) \in Configs /\ qs \in Configs
  BY <1>1, NodeType, SteerType
<1>3. CASE expired \/ ~Clear(Node(limb), qs)
  <2>1. turn' = Other(turn) /\ plan' = "rrt" /\ UNCHANGED <<pts, trees>>
    BY <1>3 DEF Connect
  <2>2. LadderOK' /\ AnswersOK' /\ floor' = Floor(scale)' /\ Free' = Free
    BY <1>1, <2>1, RrtKeeps
  <2>3. TreesOK'
    BY <1>1, <2>1, <2>2 DEF TreesOK, Other
  <2> QED
    BY <2>1, <2>2, <2>3 DEF PlannerIInv, RouteOK
<1>4. CASE ~(expired \/ ~Clear(Node(limb), qs))
  <2>1. /\ trees' = [trees EXCEPT ![Other(turn)] = @ \cup {Append(limb, qs)}]
        /\ limb' = Append(limb, qs)
        /\ IF qs = Node(tip) THEN pts' = Joined(tip, limb') /\ plan' = "smooth"
           ELSE UNCHANGED <<pts, plan>>
        /\ UNCHANGED <<turn, tip>>
    BY <1>4 DEF Connect
  <2> HIDE DEF qs
  <2>2. Samples(Node(limb), qs) \subseteq Free
    BY <1>2, <1>4, ClearIsFree
  <2>3. Chain(Free, limb', Root(Other(turn))) /\ Len(limb') >= 2
    BY <1>1, <1>2, <2>1, <2>2, ChainAppend DEF Node
  <2>4. Node(limb') = qs
    BY <1>1, <1>2, <2>1 DEF Node, Chain
  <2>5. LadderOK' /\ AnswersOK' /\ floor' = Floor(scale)' /\ Free' = Free
    BY <1>1, <2>1, RrtKeeps
  <2>6. CASE qs = Node(tip)
    <3>1. pts' = Joined(tip, limb') /\ plan' = "smooth" /\ tip[Len(tip)] = limb'[Len(limb')]
      BY <2>1, <2>4, <2>6 DEF Node
    <3>2. Chain(Free, pts', q0) /\ Len(pts') >= 2
      <4>1. CASE turn = "start"
        <5>1. pts' = tip \o Tail(Reverse(limb')) /\ Chain(Free, tip, q0)
          BY <1>1, <3>1, <4>1 DEF Joined, Root
        <5> QED
          BY <1>1, <2>3, <3>1, <5>1, Meet
      <4>2. CASE turn = "goal"
        <5>1. /\ pts' = Reverse(Tail(Reverse(limb'))) \o Reverse(tip)
              /\ Chain(Free, limb', q0)
          BY <1>1, <2>3, <3>1, <4>2 DEF Joined, Root, Other
        <5> QED
          BY <1>1, <2>3, <3>1, <5>1, MeetReversed
      <4> QED
        BY <1>1, <4>1, <4>2
    <3> QED
      BY <1>1, <2>5, <3>1, <3>2 DEF PlannerIInv, RouteOK, TreesOK
  <2>7. CASE qs # Node(tip)
    <3>1. plan' = "connect"
      BY <1>1, <2>1, <2>7
    <3>2. Other(turn) \in {"start", "goal"}
      BY DEF Other
    <3>3. /\ trees' = [start |-> trees'["start"], goal |-> trees'["goal"]]
          /\ \A b \in trees'["start"] : Chain(Free, b, q0)
          /\ \A b \in trees'["goal"] : Chain(Free, b, Home)
      BY <1>1, <2>1, <2>3, <3>2, TreesGrow
    <3>4. Root(turn)' = Root(turn) /\ Root(Other(turn))' = Root(Other(turn))
      BY <1>1, <2>1 DEF Root, Other
    <3>5. TreesOK'
      BY <1>1, <2>1, <2>3, <2>5, <3>1, <3>3, <3>4 DEF TreesOK
    <3> QED
      BY <2>5, <3>1, <3>5 DEF PlannerIInv, RouteOK
  <2> QED
    BY <2>6, <2>7
<1> QED
  BY <1>3, <1>4

\* A branch that is not the root alone has two poses.
LEMMA RrtEndsStep ==
  ASSUME PlannerIInv, RrtEnds, UNCHANGED clear
  PROVE  PlannerIInv'
<1>1. /\ plan = "rrt" /\ UNCHANGED <<clear, q0, left, scale, floor, best, answer>>
      /\ q0 \in Configs /\ \A c \in trees["start"] : Chain(Free, c, q0)
  BY DEF RrtEnds, PlannerIInv, LadderOK, TreesOK
<1>2. \/ plan' = "scale"
      \/ /\ pts' \in trees["start"] /\ pts' # <<q0>> /\ plan' = "smooth"
  BY DEF RrtEnds, Nearest
<1>3. LadderOK' /\ AnswersOK' /\ floor' = Floor(scale)' /\ Free' = Free
  BY <1>1, <1>2, RrtKeeps
<1>4. CASE plan' = "scale"
  BY <1>3, <1>4 DEF PlannerIInv, RouteOK, TreesOK
<1>5. CASE pts' \in trees["start"] /\ pts' # <<q0>> /\ plan' = "smooth"
  <2>1. Chain(Free, pts', q0)
    BY <1>1, <1>5
  <2>2. Len(pts') >= 2
    <3>1. pts' \in Seq(Configs) /\ Len(pts') \in Nat /\ Len(pts') >= 1 /\ pts'[1] = q0
      BY <2>1 DEF Chain
    <3>2. Len(pts') = 1 => pts' = <<q0>>
      <4> DEFINE s == <<q0>>
      <4>1. s \in Seq(Configs) /\ Len(s) = 1 /\ s[1] = q0
        BY <1>1
      <4> HIDE DEF s
      <4>2. Len(pts') = 1 => \A i \in 1..Len(pts') : pts'[i] = s[i]
        BY <3>1, <4>1
      <4>3. Len(pts') = 1 => pts' = s
        BY <3>1, <4>1, <4>2, SeqEqual
      <4> QED
        BY <4>3 DEF s
    <3>3. Len(pts') # 1
      BY <1>5, <3>2, Zenon
    <3>4. \A n \in Nat : n >= 1 => n = 1 \/ n >= 2
      OBVIOUS
    <3>5. Len(pts') = 1 \/ Len(pts') >= 2
      BY <3>1, <3>4, Zenon
    <3> QED
      BY <3>3, <3>5, Zenon
  <2> QED
    BY <1>1, <1>3, <1>5, <2>1, <2>2 DEF PlannerIInv, RouteOK, TreesOK
<1> QED
  BY <1>2, <1>4, <1>5

LEMMA ShortcutStep ==
  ASSUME PlannerIInv, Shortcut, UNCHANGED clear
  PROVE  PlannerIInv'
<1>1. /\ plan = "smooth" /\ UNCHANGED <<clear, plan, q0, left, scale, floor, best, answer>>
      /\ Chain(Free, pts, q0) /\ Len(pts) >= 2
  BY DEF Shortcut, PlannerIInv, RouteOK
<1>2. LadderOK' /\ AnswersOK' /\ floor' = Floor(scale)' /\ Free' = Free
  BY <1>1, RrtKeeps
<1>3. PICK i \in 1..Len(pts), j \in 1..Len(pts) :
        /\ Clear(pts[i], pts[j]) /\ pts' = SubSeq(pts, 1, i) \o SubSeq(pts, j, Len(pts))
  <2>1. Len(pts) \in Nat
    BY <1>1 DEF Chain
  <2>2. PICK i \in 1..Len(pts) : \E j \in i + 2..Len(pts) :
          Clear(pts[i], pts[j]) /\ pts' = SubSeq(pts, 1, i) \o SubSeq(pts, j, Len(pts))
    BY DEF Shortcut
  <2>3. \A j \in i + 2..Len(pts) : j \in 1..Len(pts)
    BY <2>1
  <2> QED
    BY <2>2, <2>3
<1>4. pts[i] \in Configs /\ pts[j] \in Configs /\ Len(pts) \in Nat
  BY <1>1 DEF Chain
<1>5. Samples(pts[i], pts[j]) \subseteq Free
  BY <1>3, <1>4, ClearIsFree
<1>6. Chain(Free, pts', q0) /\ Len(pts') = i + Len(pts) - j + 1
  BY <1>1, <1>3, <1>5, ChainJoin
<1>7. Len(pts') >= 2
  BY <1>4, <1>6
<1> QED
  BY <1>1, <1>2, <1>6, <1>7 DEF PlannerIInv, RouteOK, TreesOK

LEMMA SmoothedStep ==
  ASSUME PlannerIInv, Smoothed, UNCHANGED clear
  PROVE  PlannerIInv'
<1>1. /\ plan = "smooth" /\ UNCHANGED <<clear, q0, left, scale, floor>>
      /\ Chain(Free, pts, q0) /\ Len(pts) >= 2 /\ Returns(pts, "rrt", "scale")
  BY DEF Smoothed, PlannerIInv, RouteOK
<1>2. LadderOK' /\ AnswersOK' /\ plan' \in {"done", "scale"}
  BY <1>1, TierStep
<1> QED
  BY <1>2 DEF PlannerIInv, RouteOK, TreesOK

\* Every step of the search keeps the invariant.
LEMMA SearchStep ==
  ASSUME PlannerIInv, Search \/ Deadline, UNCHANGED clear
  PROVE  PlannerIInv'
BY NextScaleStep, GiveUpStep, DeadlineStep, BreakStep, DirectStep, StagedStep, GreedyStep,
   DetourStep, GrowStep, ConnectStep, RrtEndsStep, ShortcutStep, SmoothedStep DEF Search

\* A call of the search keeps it too.
LEMMA StartPlanStep ==
  ASSUME clear \in [Configs -> Int], scale \in Nat, UNCHANGED clear,
         NEW q \in Configs, NEW m \in Nat, StartPlan(q, m)
  PROVE  PlannerIInv' /\ plan' = "scale" /\ q0' = q
<1>1. SubSeq(Scales, m + 1, Len(Scales)) \in Seq(Nat)
  <2>1. Len(Scales) \in Nat /\ \A i \in m + 1..Len(Scales) : Scales[i] \in Nat
    OBVIOUS
  <2> QED
    BY <2>1, SubSeqProperties
<1> QED
  BY <1>1 DEF StartPlan, PlannerIInv, LadderOK, RouteOK, TreesOK, AnswersOK

\* What the search returns satisfies RouteCertified.
LEMMA CertifiedRoute == PlannerIInv => RouteCertified
BY DEF PlannerIInv, AnswersOK, Certified, RouteCertified, Margin

-----------------------------------------------------------------------------
(* Homing *)

USE PlannerAssumption, HomingAssumption, BridgeAssumption

-----------------------------------------------------------------------------
(* The inductive invariant *)

\* The arm stands where the search started while the search runs, and until the route is run.
StartKnown == at \in {"planning", "running"} => meas = q0

\* The gate of a route that is run asks for no more than the route's own floor.
GateOK ==
  at = "running" =>
    /\ plan = "done" /\ answer # NoRoute
    /\ gate.scale \in Nat /\ gate.scale <= answer.scale
    /\ gate.min = IF Margin(q0, answer.scale) < 0 THEN Margin(q0, answer.scale) ELSE 0

\* Only the plugin counts frozen attempts, and it stops at the second; a ramp has a start.
CallerOK ==
  /\ caller \in {"plugin", "bridge"}
  /\ caller = "plugin" /\ frozen = 2 => at = "dead"
  /\ caller = "bridge" => frozen = 0 /\ (at = "running" => cmd \in Configs)

HomingIInv == PlannerIInv /\ TypeOK /\ NeverIntoContact /\ StartKnown /\ GateOK /\ CallerOK

-----------------------------------------------------------------------------
(* Lemmas *)

LEMMA LeastOfTwo ==
  ASSUME NEW a \in Int, NEW b \in Int
  PROVE  Least({a, b}) = IF a < b THEN a ELSE b
<1> DEFINE m == IF a < b THEN a ELSE b
<1>1. m \in {a, b} /\ \A y \in {a, b} : m <= y
  OBVIOUS
<1>2. \A x \in {a, b} : (\A y \in {a, b} : x <= y) => x = m
  OBVIOUS
<1> QED
  BY <1>1, <1>2 DEF Least

LEMMA RouteType ==
  ASSUME NEW q \in Configs, NEW r \in Seq(Configs)
  PROVE  RouteSamples(<<q>> \o r) \subseteq Configs
<1> DEFINE e == <<q>> \o r
<1>1. e \in Seq(Configs)
  BY Prepended
<1> HIDE DEF e
<1>2. ASSUME NEW k \in 1..Len(e) - 1 PROVE Samples(e[k], e[k + 1]) \subseteq Configs
  <2>1. Len(e) \in Nat
    BY <1>1
  <2>2. k \in 1..Len(e) /\ k + 1 \in 1..Len(e)
    BY <2>1
  <2>3. e[k] \in Configs /\ e[k + 1] \in Configs
    BY <1>1, <2>2, ElementOfSeq
  <2> QED
    BY <2>3, SamplesType
<1>3. RouteSamples(e) \subseteq Configs
  BY <1>2 DEF RouteSamples
<1> QED
  BY <1>3 DEF e

LEMMA PlannerKept ==
  ASSUME PlannerIInv, UNCHANGED <<clear, planner>>
  PROVE  PlannerIInv'
<1>1. Free' = Free /\ Floor(scale)' = Floor(scale)
  BY FreeKept, FloorKept DEF planner
<1> QED
  BY <1>1 DEF PlannerIInv, LadderOK, RouteOK, TreesOK, AnswersOK, planner, Root, Other

\* The search does not forget its start, and is over when it is done.
LEMMA SearchKeeps ==
  ASSUME Search \/ Deadline
  PROVE  q0' = q0 /\ plan # "done"
BY DEF Search, Deadline, NextScale, GiveUp, Break, Direct, Staged, Greedy, Detour, Grow, Connect,
       RrtEnds, Shortcut, Smoothed

\* With the planner switched off, the straight segment is certified.
LEMMA StraightStep ==
  ASSUME PlannerIInv, meas \in Configs, PlanStraight, UNCHANGED clear
  PROVE  PlannerIInv' /\ plan' = "done" /\ q0' = meas
<1> DEFINE r == [path |-> <<Home>>, scale |-> Scales[1], how |-> "direct", complete |-> TRUE,
                 gain |-> HomeGap]
<1>1. Scales[1] \in Nat /\ clear \in [Configs -> Int] /\ left \in Seq(Nat)
  BY DEF PlannerIInv, LadderOK
<1>2. PlanEdge(meas, Home, Scales[1]) => Certified(clear, meas, r)
  <2> SUFFICES ASSUME PlanEdge(meas, Home, Scales[1]) PROVE Certified(clear, meas, r)
    OBVIOUS
  <2>1. Samples(meas, Home) \subseteq Configs /\ clear[meas] \in Int
    BY <1>1, SamplesType
  <2>2. \A c \in Samples(meas, Home) : clear[c] - Scales[1] >= 0 /\ clear[c] \in Int
    BY <1>1, <2>1 DEF PlanEdge, PlanSamples, PlanMargin, Margin
  <2>3. RouteSamples(<<meas>> \o <<Home>>) \subseteq Samples(meas, Home)
    <3> DEFINE S == Samples(meas, Home)
               p == <<Home>>
    <3>1. Chain(S, p, Home)
      BY ChainOne
    <3>2. Chain(S, <<meas>> \o p, meas)
      BY <3>1, ChainCons
    <3> HIDE DEF S, p
    <3>3. RouteSamples(<<meas>> \o p) \subseteq S
      BY <3>2 DEF RouteSamples, Chain
    <3> QED
      BY <3>3 DEF S, p
  <2>4. \A c \in RouteSamples(<<meas>> \o <<Home>>) :
          clear[c] - Scales[1] >= IF clear[meas] - Scales[1] < 0 THEN clear[meas] - Scales[1] ELSE 0
    <3>1. \A x \in Int : x >= 0 =>
            x >= IF clear[meas] - Scales[1] < 0 THEN clear[meas] - Scales[1] ELSE 0
      BY <1>1, <2>1
    <3> QED
      BY <1>1, <2>2, <2>3, <3>1
  <2>5. /\ r.path = <<Home>> /\ r.scale = Scales[1] /\ r.complete = TRUE
        /\ <<Home>> \in Seq(Configs) /\ <<Home>> # <<>> /\ <<Home>>[Len(<<Home>>)] = Home
    OBVIOUS
  <2> HIDE DEF r
  <2> QED
    BY <1>1, <2>4, <2>5 DEF Certified
<1>3. /\ plan' = "done" /\ q0' = meas /\ scale' = Scales[1] /\ left' = left
      /\ answer' = IF PlanEdge(meas, Home, Scales[1]) THEN r ELSE NoRoute
  BY DEF PlanStraight
<1> HIDE DEF r
<1>4. LadderOK'
  BY <1>1, <1>3 DEF LadderOK
<1>5. answer' = NoRoute \/ Certified(clear', q0', answer')
  BY <1>2, <1>3
<1> QED
  BY <1>3, <1>4, <1>5 DEF PlannerIInv, RouteOK, TreesOK, AnswersOK

\* Every pose of a route that was returned is at least as clear as the arm, or not in contact.
LEMMA RouteSafe ==
  ASSUME HomingIInv, at = "running"
  PROVE  /\ RouteSamples(Route) \subseteq Configs /\ clear[q0] \in Int
         /\ answer.scale \in Nat
         /\ \A c \in RouteSamples(Route) :
              /\ clear[c] \in Int
              /\ clear[c] - answer.scale
                   >= IF clear[q0] - answer.scale < 0 THEN clear[q0] - answer.scale ELSE 0
              /\ clear[c] >= IF clear[q0] < 0 THEN clear[q0] ELSE 0
<1>1. Certified(clear, q0, answer) /\ q0 \in Configs /\ clear \in [Configs -> Int]
  BY DEF HomingIInv, GateOK, PlannerIInv, AnswersOK, LadderOK
<1>2. answer.path \in Seq(Configs) /\ answer.scale \in Nat /\ clear[q0] \in Int
  BY <1>1 DEF Certified
<1>3. RouteSamples(Route) \subseteq Configs
  BY <1>1, <1>2, RouteType DEF Route
<1>4. ASSUME NEW c \in RouteSamples(Route)
      PROVE  /\ clear[c] \in Int
             /\ clear[c] - answer.scale
                  >= IF clear[q0] - answer.scale < 0 THEN clear[q0] - answer.scale ELSE 0
  BY <1>1, <1>3, <1>4 DEF Certified, Route
<1>5. \A x, y \in Int, s \in Nat : x - s >= (IF y - s < 0 THEN y - s ELSE 0) =>
        x >= IF y < 0 THEN y ELSE 0
  OBVIOUS
<1> QED
  BY <1>2, <1>3, <1>4, <1>5

LEMMA HomingStart == HomingInit => HomingIInv
<1> SUFFICES ASSUME HomingInit PROVE HomingIInv
  OBVIOUS
<1>1. PlannerInit /\ Init
  BY DEF HomingInit, Init
<1>2. /\ clear \in [Configs -> Int] /\ meas \in Configs /\ from = meas
      /\ cmd \in Configs \cup {NoRoute}
  BY DEF HomingInit, Init
<1>3. PlannerIInv
  BY <1>1, <1>2 DEF PlannerInit, PlannerIInv, LadderOK, RouteOK, TreesOK, AnswersOK
<1>4. TypeOK
  <2>1. 0 \in 0..Len(Scales) - 1 /\ 0 \in 0..Attempts
    <3>1. Len(Scales) \in Nat /\ Len(Scales) >= 1
      OBVIOUS
    <3> QED
      BY <3>1
  <2>2. /\ at = "start" /\ connected = TRUE /\ late = FALSE /\ attempt = 0
        /\ minScale = 0 /\ frozen = 0 /\ prevGap = NoRoute /\ status = "none"
    BY <1>1 DEF Init
  <2>3. connected \in BOOLEAN /\ late \in BOOLEAN
    BY <2>2
  <2>4. at \in Ended \cup {"start", "attempt", "planning", "running", "settle"}
    BY <2>2
  <2>5. prevGap \in {Gap(c, Home) : c \in Configs} \cup {NoRoute}
    BY <2>2
  <2>6. frozen \in 0..2 /\ attempt \in 0..Attempts /\ minScale \in 0..Len(Scales) - 1
    BY <2>1, <2>2
  <2>7. status \in {"none", "done", "timeout", "disconnected", "gate"}
    BY <2>2
  <2> QED
    BY <1>2, <2>3, <2>4, <2>5, <2>6, <2>7 DEF TypeOK
<1>5. clear[meas] \in Int
  BY <1>2
<1>6. NeverIntoContact
  BY <1>2, <1>5 DEF NeverIntoContact
<1>7. StartKnown /\ GateOK
  BY <1>1 DEF Init, StartKnown, GateOK
<1>8. CallerOK
  BY <1>1, <1>2 DEF HomingInit, Init, CallerOK
<1> QED
  BY <1>3, <1>4, <1>6, <1>7, <1>8 DEF HomingIInv

\* The search runs while everything around it waits.
LEMMA SearchingStep ==
  ASSUME HomingIInv, Searching
  PROVE  HomingIInv'
<1>1. (Search \/ Deadline) /\ UNCHANGED <<clear, loop, caller>>
  BY DEF Searching, Planning, PlanDeadline, PlanSteps, PlanGoesOn, Search, PlanDirect, PlanStaged,
         PlanGreedy, PlanDetour, PlanGrow, PlanConnect, PlanRrtEnds, PlanShortcut
<1>2. PlannerIInv'
  BY <1>1, SearchStep DEF HomingIInv
<1>3. q0' = q0 /\ plan # "done"
  BY <1>1, SearchKeeps
<1>4. TypeOK' /\ NeverIntoContact'
  BY <1>1 DEF HomingIInv, TypeOK, NeverIntoContact, loop
<1>5. StartKnown' /\ GateOK' /\ CallerOK'
  BY <1>1, <1>3 DEF HomingIInv, StartKnown, GateOK, CallerOK, loop
<1> QED
  BY <1>2, <1>4, <1>5 DEF HomingIInv

\* A step that neither plans nor moves the arm, nor ends with a route running.
LEMMA StandsStill ==
  ASSUME HomingIInv, UNCHANGED <<clear, planner, meas, from, gate, caller>>,
         TypeOK', at' # "running", at' = "planning" => meas = q0,
         caller = "plugin" /\ frozen' = 2 => at' = "dead",
         caller = "bridge" => frozen' = 0
  PROVE  HomingIInv'
<1>1. PlannerIInv'
  BY PlannerKept DEF HomingIInv
<1>2. NeverIntoContact'
  BY DEF HomingIInv, NeverIntoContact
<1>3. StartKnown' /\ GateOK'
  BY DEF StartKnown, GateOK, planner
<1>4. CallerOK'
  BY DEF HomingIInv, CallerOK
<1> QED
  BY <1>1, <1>2, <1>3, <1>4 DEF HomingIInv

\* The next attempt keeps the count in its range.
LEMMA AgainCounts ==
  ASSUME TypeOK, Again
  PROVE  at' \in {"attempt", "exhausted"} /\ attempt' \in 0..Attempts
BY DEF Again, TypeOK

LEMMA CapType ==
  ASSUME NEW n \in Nat
  PROVE  Cap(n) \in 0..Len(Scales) - 1
<1>1. Len(Scales) \in Nat /\ Len(Scales) >= 1
  OBVIOUS
<1> QED
  BY <1>1 DEF Cap

-----------------------------------------------------------------------------
(* The steps of the plugin *)

LEMMA GoHomeStep ==
  ASSUME HomingIInv, GoHome, caller = "plugin", UNCHANGED caller
  PROVE  HomingIInv'
<1>1. TypeOK'
  BY DEF GoHome, HomingIInv, TypeOK, Ended
<1>2. frozen # 2
  BY DEF GoHome, HomingIInv, CallerOK
<1> QED
  BY <1>1, <1>2, StandsStill DEF GoHome

LEMMA AttemptStep ==
  ASSUME HomingIInv, Attempt, caller = "plugin", UNCHANGED caller
  PROVE  HomingIInv'
<1>1. frozen # 2 /\ caller = "plugin" /\ at = "attempt"
  BY DEF Attempt, HomingIInv, CallerOK
<1>2. CASE ~connected \/ HomeGap <= Done \/ late
  <2>1. /\ at' \in {"gone", "home", "exhausted"}
        /\ UNCHANGED <<clear, planner, minScale, prevGap, connected, meas, cmd, attempt, frozen,
                       late, status, gate, from>>
    BY <1>2 DEF Attempt
  <2>2. TypeOK'
    BY <2>1 DEF HomingIInv, TypeOK, Ended
  <2> QED
    BY <1>1, <2>1, <2>2, StandsStill
<1>3. CASE ~(~connected \/ HomeGap <= Done \/ late)
  <2>1. /\ at' = "planning" /\ minScale' = Relaxed /\ prevGap' = HomeGap
        /\ UNCHANGED <<clear, connected, meas, cmd, attempt, frozen, late, status, gate, from>>
        /\ IF UsePlanner THEN StartPlan(meas, minScale') ELSE PlanStraight
    BY <1>3 DEF Attempt
  <2>2. minScale' \in 0..Len(Scales) - 1 /\ minScale' \in Nat /\ meas \in Configs
    <3>1. minScale \in 0..Len(Scales) - 1 /\ Len(Scales) \in Nat /\ meas \in Configs
      BY DEF HomingIInv, TypeOK
    <3>2. minScale + 1 \in Nat
      BY <3>1
    <3>3. Relaxed \in 0..Len(Scales) - 1
      BY <3>1, <3>2, CapType, Zenon DEF Relaxed
    <3> QED
      BY <2>1, <3>1, <3>3
  <2>3. PlannerIInv' /\ q0' = meas
    <3>1. PlannerIInv /\ clear \in [Configs -> Int] /\ scale \in Nat
      BY DEF HomingIInv, PlannerIInv, LadderOK
    <3> QED
      BY <2>1, <2>2, <3>1, StartPlanStep, StraightStep
  <2>4. TypeOK'
    BY <2>1, <2>2 DEF HomingIInv, TypeOK, HomeGap
  <2>5. NeverIntoContact' /\ StartKnown' /\ GateOK' /\ CallerOK'
    BY <1>1, <2>1, <2>3 DEF HomingIInv, NeverIntoContact, StartKnown, GateOK, CallerOK
  <2> QED
    BY <2>3, <2>4, <2>5 DEF HomingIInv
<1> QED
  BY <1>2, <1>3

LEMMA NoPathStep ==
  ASSUME HomingIInv, NoPath, caller = "plugin", UNCHANGED caller
  PROVE  HomingIInv'
<1>1. at = "planning" /\ frozen # 2 /\ TypeOK
  BY DEF NoPath, HomingIInv, CallerOK
<1>2. /\ at' \in {"attempt", "exhausted"} /\ attempt' \in 0..Attempts
      /\ minScale' \in 0..Len(Scales) - 1
  BY <1>1, AgainCounts, CapType DEF NoPath, TypeOK
<1>3. TypeOK'
  BY <1>1, <1>2 DEF NoPath, TypeOK, Ended
<1> QED
  BY <1>1, <1>2, <1>3, StandsStill DEF NoPath

\* Arming a gate: its scale is not above the route's, its floor is the route's own.
LEMMA RunStep ==
  ASSUME HomingIInv, Run, caller = "plugin", UNCHANGED caller
  PROVE  HomingIInv'
<1>1. /\ at = "planning" /\ plan = "done" /\ answer # NoRoute /\ at' = "running" /\ gate' = Gate
      /\ UNCHANGED <<clear, planner, connected, meas, cmd, attempt, minScale, prevGap, frozen,
                     late, status, from>>
  BY DEF Run
<1>2. PlannerIInv' /\ TypeOK' /\ NeverIntoContact' /\ StartKnown' /\ CallerOK'
  BY <1>1, PlannerKept DEF HomingIInv, TypeOK, NeverIntoContact, StartKnown, CallerOK, planner
<1>3. answer.scale \in Nat /\ clear[meas] \in Int /\ meas = q0
  BY <1>1 DEF HomingIInv, StartKnown, PlannerIInv, AnswersOK, LadderOK, Certified
<1>4. Margin(q0, answer.scale) \in Int
  BY <1>3 DEF Margin
<1>5. /\ gate'.scale = IF answer.scale < GateScale THEN answer.scale ELSE GateScale
      /\ gate'.min = Least({Margin(q0, answer.scale), 0})
  BY <1>1, <1>3 DEF Gate, PlanMargin
<1>6. Least({Margin(q0, answer.scale), 0})
        = IF Margin(q0, answer.scale) < 0 THEN Margin(q0, answer.scale) ELSE 0
  BY <1>4, LeastOfTwo
<1>7. gate'.scale \in Nat /\ gate'.scale <= answer.scale
  BY <1>3, <1>5
<1>8. Margin(q0, answer.scale)' = Margin(q0, answer.scale) /\ answer' = answer /\ plan' = plan
  BY <1>1 DEF Margin, planner
<1>9. GateOK'
  BY <1>1, <1>5, <1>6, <1>7, <1>8 DEF GateOK
<1> QED
  BY <1>2, <1>9 DEF HomingIInv

\* The arm stops on the route, which began where it stood, or beside it, where its clearance
\* is looked at anew.
LEMMA ArmStops ==
  ASSUME HomingIInv, at = "running", UNCHANGED <<clear, planner>>, meas' \in Configs,
         from' = IF meas' \in RouteSamples(Route) THEN from ELSE meas'
  PROVE  from' \in Configs /\ NeverIntoContact'
<1>1. CASE meas' \in RouteSamples(Route)
  <2>1. /\ clear[q0] \in Int /\ clear[meas'] \in Int
        /\ clear[meas'] >= IF clear[q0] < 0 THEN clear[q0] ELSE 0
    BY <1>1, RouteSafe
  <2>2. meas = q0 /\ from \in Configs /\ clear[from] \in Int
    BY DEF HomingIInv, StartKnown, TypeOK, PlannerIInv, LadderOK
  <2>3. clear[q0] >= IF clear[from] < 0 THEN clear[from] ELSE 0
    BY <2>2 DEF HomingIInv, NeverIntoContact
  <2>4. \A x, y, z \in Int : x >= (IF y < 0 THEN y ELSE 0) /\ y >= (IF z < 0 THEN z ELSE 0) =>
          x >= IF z < 0 THEN z ELSE 0
    OBVIOUS
  <2>5. clear[meas'] >= IF clear[from] < 0 THEN clear[from] ELSE 0
    BY <2>1, <2>2, <2>3, <2>4
  <2> QED
    BY <1>1, <2>2, <2>5 DEF NeverIntoContact
<1>2. CASE meas' \notin RouteSamples(Route)
  <2>1. clear[meas'] \in Int
    BY DEF HomingIInv, PlannerIInv, LadderOK
  <2> QED
    BY <1>2, <2>1 DEF NeverIntoContact
<1> QED
  BY <1>1, <1>2

\* Where the arm and the command may be while a route is run.
LEMMA WayType ==
  ASSUME HomingIInv, at = "running"
  PROVE  RouteSamples(Route) \cup LeadIn \subseteq Configs /\ Last(answer.path) \in Configs
<1>1. q0 \in Configs /\ answer.path \in Seq(Configs) /\ answer.path # <<>>
  BY DEF HomingIInv, GateOK, PlannerIInv, LadderOK, AnswersOK, Certified
<1>2. RouteSamples(Route) \subseteq Configs
  BY <1>1, RouteType DEF Route
<1>3. Head(answer.path) \in Configs /\ Last(answer.path) \in Configs
  <2>1. Len(answer.path) \in Nat /\ Len(answer.path) >= 1
    BY <1>1
  <2>2. 1 \in 1..Len(answer.path) /\ Len(answer.path) \in 1..Len(answer.path)
    BY <2>1
  <2> QED
    BY <1>1, <2>2, ElementOfSeq DEF Last
<1>4. cmd # NoRoute => LeadIn \subseteq Configs
  <2>1. cmd # NoRoute => cmd \in Configs
    BY DEF HomingIInv, TypeOK
  <2> QED
    BY <1>1, <1>3, <2>1, SamplesType DEF LeadIn
<1>5. cmd = NoRoute => LeadIn = {}
  BY DEF LeadIn
<1> QED
  BY <1>2, <1>3, <1>4, <1>5

LEMMA RouteEndsStep ==
  ASSUME HomingIInv, RouteEnds, caller = "plugin", UNCHANGED caller
  PROVE  HomingIInv'
<1>1. /\ at = "running" /\ at' = "settle" /\ frozen # 2
      /\ UNCHANGED <<clear, planner, attempt, minScale, prevGap, frozen>>
      /\ status' \in {"done", "timeout", "disconnected", "gate"}
      /\ connected' \in BOOLEAN /\ late' \in BOOLEAN
  BY DEF RouteEnds, RouteDone, RouteStopped, RouteGated, HomingIInv, CallerOK, TypeOK
<1>2. RouteSamples(Route) \cup LeadIn \subseteq Configs /\ Last(answer.path) \in Configs
  BY <1>1, WayType
<1>3. /\ meas' \in Configs /\ cmd' \in Configs \cup {NoRoute}
      /\ from' \in Configs /\ NeverIntoContact'
  <2>1. CASE RouteDone \/ RouteStopped
    <3>1. /\ meas' \in RouteSamples(Route) \cup LeadIn
          /\ from' = IF meas' \in RouteSamples(Route) THEN from ELSE meas'
          /\ cmd' = Last(answer.path) \/ cmd' = cmd
      BY <2>1 DEF RouteDone, RouteStopped, Follow
    <3>2. meas' \in Configs /\ cmd' \in Configs \cup {NoRoute}
      BY <1>2, <3>1 DEF HomingIInv, TypeOK
    <3> QED
      BY <1>1, <3>1, <3>2, ArmStops
  <2>2. CASE RouteGated
    <3>1. meas' \in Configs /\ from' = meas' /\ cmd' \in RouteSamples(Route) \cup LeadIn
      BY <2>2 DEF RouteGated
    <3>2. clear'[meas'] \in Int
      BY <1>1, <3>1 DEF HomingIInv, PlannerIInv, LadderOK
    <3> QED
      BY <1>2, <3>1, <3>2 DEF NeverIntoContact
  <2> QED
    BY <2>1, <2>2 DEF RouteEnds
<1>4. TypeOK'
  BY <1>1, <1>3 DEF HomingIInv, TypeOK
<1>5. PlannerIInv'
  BY <1>1, PlannerKept DEF HomingIInv
<1>6. StartKnown' /\ GateOK' /\ CallerOK'
  BY <1>1 DEF HomingIInv, StartKnown, GateOK, CallerOK
<1> QED
  BY <1>3, <1>4, <1>5, <1>6 DEF HomingIInv

LEMMA SettledStep ==
  ASSUME HomingIInv, Settled, caller = "plugin", UNCHANGED caller
  PROVE  HomingIInv'
<1>1. at = "settle" /\ frozen \in 0..1 /\ TypeOK
  BY DEF Settled, HomingIInv, CallerOK, TypeOK
<1>2. /\ at' \in {"home", "near", "dead", "attempt", "exhausted"} /\ attempt' \in 0..Attempts
      /\ frozen' \in 0..2 /\ (frozen' = 2 => at' = "dead")
  <2>1. CASE UNCHANGED <<attempt, frozen>> /\ at' \in {"home", "near"}
    BY <1>1, <2>1 DEF TypeOK
  <2>2. CASE UNCHANGED frozen /\ Again
    BY <1>1, <2>2, AgainCounts
  <2>3. CASE frozen' = frozen + 1 /\ frozen + 1 >= 2 /\ at' = "dead" /\ UNCHANGED attempt
    BY <1>1, <2>3 DEF TypeOK
  <2>4. CASE frozen' = frozen + 1 /\ ~(frozen + 1 >= 2) /\ Again
    BY <1>1, <2>4, AgainCounts
  <2> QED
    BY <2>1, <2>2, <2>3, <2>4 DEF Settled
<1>3. TypeOK'
  BY <1>1, <1>2 DEF Settled, TypeOK, Ended
<1> QED
  BY <1>2, <1>3, StandsStill DEF Settled

LEMMA TimeUpStep ==
  ASSUME HomingIInv, TimeUp, caller = "plugin", UNCHANGED caller
  PROVE  HomingIInv'
<1>1. at \in {"attempt", "planning"} /\ frozen # 2 /\ TypeOK'
  BY DEF TimeUp, HomingIInv, CallerOK, TypeOK
<1>2. at = "planning" => meas = q0
  BY DEF HomingIInv, StartKnown
<1> QED
  BY <1>1, <1>2, StandsStill DEF TimeUp

-----------------------------------------------------------------------------
(* The steps of the bridge *)

LEMMA StartHomeStep ==
  ASSUME HomingIInv, StartHome, caller = "bridge"
  PROVE  HomingIInv'
<1>1. /\ at' = "planning" /\ attempt < Presses /\ attempt' = attempt + 1
      /\ UNCHANGED <<clear, connected, meas, cmd, minScale, prevGap, frozen, late, status, gate,
                     from, caller>>
      /\ PlanStraight \/ StartPlan(meas, 0)
  BY DEF StartHome
<1>2. PlannerIInv' /\ q0' = meas
  <2>1. PlannerIInv /\ clear \in [Configs -> Int] /\ scale \in Nat /\ meas \in Configs
    BY DEF HomingIInv, PlannerIInv, LadderOK, TypeOK
  <2> QED
    BY <1>1, <2>1, StartPlanStep, StraightStep
<1>3. TypeOK'
  BY <1>1 DEF HomingIInv, TypeOK
<1>4. NeverIntoContact' /\ StartKnown' /\ GateOK' /\ CallerOK'
  BY <1>1, <1>2 DEF HomingIInv, NeverIntoContact, StartKnown, GateOK, CallerOK
<1> QED
  BY <1>2, <1>3, <1>4 DEF HomingIInv

LEMMA HomeRefuseStep ==
  ASSUME HomingIInv, HomeRefuse, caller = "bridge"
  PROVE  HomingIInv'
<1>1. TypeOK' /\ frozen' = 0
  BY DEF HomeRefuse, HomingIInv, TypeOK, CallerOK, Ended
<1> QED
  BY <1>1, StandsStill DEF HomeRefuse

LEMMA StartRampStep ==
  ASSUME HomingIInv, StartRamp, caller = "bridge"
  PROVE  HomingIInv'
<1>1. /\ at = "planning" /\ plan = "done" /\ answer # NoRoute /\ at' = "running"
      /\ gate' = RampGate /\ cmd' \in Configs
      /\ UNCHANGED <<clear, planner, connected, meas, attempt, minScale, prevGap, frozen, late,
                     status, from, caller>>
  BY DEF StartRamp
<1>2. PlannerIInv'
  BY <1>1, PlannerKept DEF HomingIInv
<1>3. TypeOK' /\ NeverIntoContact' /\ StartKnown'
  BY <1>1 DEF HomingIInv, TypeOK, NeverIntoContact, StartKnown, planner
<1>4. answer.scale \in Nat /\ clear[meas] \in Int /\ meas = q0
  BY <1>1 DEF HomingIInv, StartKnown, PlannerIInv, AnswersOK, LadderOK, Certified
<1>5. CallerOK'
  BY <1>1, <1>4 DEF HomingIInv, CallerOK, planner
<1>6. Margin(q0, answer.scale) \in Int
  BY <1>4 DEF Margin
<1>7. /\ gate'.scale = Least({GateScale, answer.scale})
      /\ gate'.min = Least({Margin(q0, answer.scale), 0})
  BY <1>1 DEF RampGate
<1>8. /\ Least({Margin(q0, answer.scale), 0})
           = IF Margin(q0, answer.scale) < 0 THEN Margin(q0, answer.scale) ELSE 0
      /\ Least({GateScale, answer.scale})
           = IF GateScale < answer.scale THEN GateScale ELSE answer.scale
  <2>1. GateScale \in Int /\ answer.scale \in Int /\ 0 \in Int
    BY <1>4
  <2> QED
    BY <1>6, <2>1, LeastOfTwo, Zenon
<1>9. gate'.scale \in Nat /\ gate'.scale <= answer.scale
  BY <1>4, <1>7, <1>8
<1>10. Margin(q0, answer.scale)' = Margin(q0, answer.scale) /\ answer' = answer /\ plan' = plan
  BY <1>1 DEF Margin, planner
<1>11. GateOK'
  BY <1>1, <1>7, <1>8, <1>9, <1>10 DEF GateOK
<1> QED
  BY <1>2, <1>3, <1>5, <1>11 DEF HomingIInv

LEMMA RampEndsStep ==
  ASSUME HomingIInv, RampEnds, caller = "bridge"
  PROVE  HomingIInv'
<1>1. /\ at = "running" /\ at' \in {"home", "near"} /\ status' = "done"
      /\ meas' \in RouteSamples(Ramp)
      /\ from' = IF meas' \in RouteSamples(Route) THEN from ELSE meas'
      /\ UNCHANGED <<clear, planner, connected, cmd, attempt, minScale, prevGap, frozen, late, gate,
                     caller>>
  BY DEF RampEnds
<1>2. meas' \in Configs
  <2>1. cmd \in Configs /\ answer.path \in Seq(Configs)
    BY <1>1 DEF HomingIInv, CallerOK, GateOK, PlannerIInv, AnswersOK, Certified
  <2>2. q0 \in Configs /\ <<cmd>> \o answer.path \in Seq(Configs)
    BY <2>1, Prepended DEF HomingIInv, PlannerIInv, LadderOK
  <2> QED
    BY <1>1, <2>2, RouteType DEF Ramp
<1>3. from' \in Configs /\ NeverIntoContact'
  BY <1>1, <1>2, ArmStops
<1>4. TypeOK' /\ PlannerIInv'
  BY <1>1, <1>2, <1>3, PlannerKept DEF HomingIInv, TypeOK, Ended
<1>5. StartKnown' /\ GateOK' /\ CallerOK'
  BY <1>1 DEF HomingIInv, StartKnown, GateOK, CallerOK
<1> QED
  BY <1>3, <1>4, <1>5 DEF HomingIInv

LEMMA RampGatedStep ==
  ASSUME HomingIInv, RampGated, caller = "bridge"
  PROVE  HomingIInv'
<1>1. /\ at = "running" /\ at' = "near" /\ status' = "gate"
      /\ meas' \in Configs /\ from' = meas'
      /\ UNCHANGED <<clear, planner, connected, cmd, attempt, minScale, prevGap, frozen, late, gate,
                     caller>>
  BY DEF RampGated
<1>2. TypeOK' /\ PlannerIInv'
  BY <1>1, PlannerKept DEF HomingIInv, TypeOK, Ended
<1>3. NeverIntoContact'
  <2>1. clear'[meas'] \in Int
    BY <1>1 DEF HomingIInv, PlannerIInv, LadderOK
  <2> QED
    BY <1>1, <2>1 DEF NeverIntoContact
<1>4. StartKnown' /\ GateOK' /\ CallerOK'
  BY <1>1 DEF HomingIInv, StartKnown, GateOK, CallerOK
<1> QED
  BY <1>2, <1>3, <1>4 DEF HomingIInv

-----------------------------------------------------------------------------
(* Theorems *)

LEMMA HomingStep == HomingIInv /\ [HomingNext]_homing => HomingIInv'
<1> SUFFICES ASSUME HomingIInv, [HomingNext]_homing PROVE HomingIInv'
  OBVIOUS
<1>1. CASE Searching
  BY <1>1, SearchingStep
<1>2. CASE PluginHomes
  <2>1. caller = "plugin" /\ UNCHANGED caller /\ (LoopSteps \/ TimeUp)
    BY <1>2 DEF PluginHomes
  <2> QED
    BY <2>1, GoHomeStep, AttemptStep, NoPathStep, RunStep, RouteEndsStep, SettledStep, TimeUpStep
       DEF LoopSteps
<1>3. CASE BridgeHomes
  BY <1>3, StartHomeStep, HomeRefuseStep, StartRampStep, RampEndsStep, RampGatedStep
     DEF BridgeHomes, BridgeSteps
<1>4. CASE UNCHANGED homing
  <2>1. UNCHANGED <<clear, planner>> /\ UNCHANGED loop /\ UNCHANGED caller
    BY <1>4 DEF homing, vars
  <2>2. PlannerIInv' /\ TypeOK' /\ NeverIntoContact'
    BY <2>1, PlannerKept DEF HomingIInv, TypeOK, NeverIntoContact, loop
  <2>3. StartKnown' /\ GateOK' /\ CallerOK'
    BY <2>1 DEF HomingIInv, StartKnown, GateOK, CallerOK, Margin, planner, loop
  <2> QED
    BY <2>2, <2>3 DEF HomingIInv
<1>5. CASE HomingOver
  BY <1>4, <1>5 DEF HomingOver
<1> QED
  BY <1>1, <1>2, <1>3, <1>4, <1>5 DEF HomingNext

\* The inductive invariant holds throughout, whoever homes and however often.
THEOREM HomingInvariant == HomingSpec => []HomingIInv
BY HomingStart, HomingStep, PTL DEF HomingSpec

\* Over every tier, shortcut and relaxed floor of the search, a route that is returned passes no
\* pose below its floor, ends at home when it is called complete and strictly nearer to home when
\* it is not (HomePlanner.plan and its copy in MantisFollower).
THEOREM RoutesCertified == HomingSpec => []RouteCertified
<1>1. HomingIInv => RouteCertified
  BY CertifiedRoute DEF HomingIInv
<1> QED
  BY <1>1, HomingInvariant, PTL

\* The measured-pose gate that is armed for a route never stops an arm that is on that route
\* (_go_home and _run_path of the plugin, _plan_home_path and _home_tick of the bridge).
THEOREM GatesLetRun == HomingSpec => []GateLetsRouteRun
<1>1. HomingIInv => GateLetsRouteRun
  <2> SUFFICES ASSUME HomingIInv, at = "running", NEW c \in RouteSamples(Route)
               PROVE  Margin(c, gate.scale) >= gate.min
    BY DEF GateLetsRouteRun
  <2>1. /\ clear[c] \in Int /\ clear[q0] \in Int /\ answer.scale \in Nat
        /\ clear[c] - answer.scale
             >= IF clear[q0] - answer.scale < 0 THEN clear[q0] - answer.scale ELSE 0
    BY RouteSafe
  <2>2. /\ gate.scale \in Nat /\ gate.scale <= answer.scale
        /\ gate.min = IF clear[q0] - answer.scale < 0 THEN clear[q0] - answer.scale ELSE 0
    BY DEF HomingIInv, GateOK, Margin
  <2>3. \A x, m \in Int, s, g \in Nat : x - s >= m /\ g <= s => x - g >= m
    OBVIOUS
  <2>4. gate.min \in Int
    BY <2>1, <2>2
  <2> QED
    BY <2>1, <2>2, <2>3, <2>4 DEF Margin
<1> QED
  BY <1>1, HomingInvariant, PTL

\* Over all attempts, partial routes and relaxed floors, the routes of homing do not take the arm
\* into contact, nor deeper into the contact it was in when it was last off a checked route, be it
\* pushed or on the unchecked way from the last command onto the route (_go_home, _start_home).
THEOREM NoContact == HomingSpec => []Inv
<1>1. HomingIInv => Inv
  BY DEF HomingIInv, Inv
<1> QED
  BY <1>1, HomingInvariant, PTL
=============================================================================
