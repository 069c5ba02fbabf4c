------------------------ MODULE FramePairing_proofs ------------------------
(***************************************************************************)
(* Proofs about the pairing of images into frames, for every number of     *)
(* cameras, queue length, tolerance, period and spread of the stamps.      *)
(***************************************************************************)
EXTENDS FramePairing, FiniteSetTheorems, WellFoundedInduction, TLAPS

USE PairingAssumption

-----------------------------------------------------------------------------
(* Order statistics *)

\* Every non-empty set of naturals has a least element.
LEMMA Least ==
  ASSUME NEW T \in SUBSET Nat, T # {}
  PROVE  \E x \in T : \A y \in T : x <= y
<1>1. \E x \in T : \A y \in T : ~(<<y, x>> \in OpToRel(<, Nat))
  BY NatLessThanWellFounded, WFMin
<1>2. PICK x \in T : \A y \in T : ~(<<y, x>> \in OpToRel(<, Nat))
  BY <1>1
<1>3. ASSUME NEW y \in T PROVE x <= y
  <2>1. ~(y < x)
    BY <1>2 DEF OpToRel
  <2> QED BY <2>1
<1> QED BY <1>3

\* How many of the elements of s are at most x.
Below(s, x) == {i \in DOMAIN s : s[i] <= x}

LEMMA IndicesCounted ==
  ASSUME NEW s \in Seq(Int)
  PROVE  IsFiniteSet(1..Len(s)) /\ Cardinality(1..Len(s)) = Len(s)
<1>1. Len(s) \in Nat
  OBVIOUS
<1> DEFINE n == Len(s)
<1>2. n \in Int /\ 1 \in Int /\ (IF 1 > n THEN 0 ELSE n - 1 + 1) = n
  BY <1>1
<1> HIDE DEF n
<1>3. IsFiniteSet(1..n) /\ Cardinality(1..n) = n
  BY <1>2, FS_Interval
<1> QED BY <1>3 DEF n

LEMMA BelowFinite ==
  ASSUME NEW s \in Seq(Int), NEW x \in Int
  PROVE  /\ IsFiniteSet(Below(s, x)) /\ Cardinality(Below(s, x)) \in Nat
         /\ Cardinality(Below(s, x)) <= Len(s)
<1>1. IsFiniteSet(1..Len(s)) /\ Cardinality(1..Len(s)) = Len(s)
  BY IndicesCounted
<1>2. Below(s, x) \in SUBSET (1..Len(s))
  BY DEF Below
<1> QED BY <1>1, <1>2, FS_Subset, FS_CardinalityType

\* Of two elements more are at most the larger.
LEMMA BelowGrows ==
  ASSUME NEW s \in Seq(Int), NEW i \in DOMAIN s, NEW j \in DOMAIN s, s[i] < s[j]
  PROVE  Cardinality(Below(s, s[i])) < Cardinality(Below(s, s[j]))
<1>1. s[i] \in Int /\ s[j] \in Int /\ \A k \in DOMAIN s : s[k] \in Int
  OBVIOUS
<1>2. Below(s, s[i]) \in SUBSET Below(s, s[j])
  BY <1>1 DEF Below
<1>3. j \in Below(s, s[j]) /\ j \notin Below(s, s[i])
  BY <1>1 DEF Below
<1>4. Below(s, s[i]) # Below(s, s[j])
  BY <1>3
<1>5. Cardinality(Below(s, s[i])) <= Cardinality(Below(s, s[j]))
  BY <1>1, <1>2, BelowFinite, FS_Subset
<1>6. Cardinality(Below(s, s[i])) # Cardinality(Below(s, s[j]))
  BY <1>1, <1>2, <1>4, BelowFinite, FS_Subset
<1> QED BY <1>1, <1>5, <1>6, BelowFinite

\* Of some of a sequence's elements there is a largest.
LEMMA Largest ==
  ASSUME NEW s \in Seq(Int), NEW I \in SUBSET DOMAIN s, I # {}
  PROVE  \E m \in I : \A i \in I : s[i] <= s[m]
<1> DEFINE f(i) == Len(s) - Cardinality(Below(s, s[i]))
           T == {f(i) : i \in I}
<1>1. \A i \in DOMAIN s : s[i] \in Int
  OBVIOUS
<1>2. \A i \in I : /\ Cardinality(Below(s, s[i])) \in Nat
                   /\ Cardinality(Below(s, s[i])) <= Len(s)
  BY <1>1, BelowFinite
<1>3. T \in SUBSET Nat /\ T # {}
  BY <1>2
<1>4. PICK x \in T : \A y \in T : x <= y
  <2> HIDE DEF T
  <2> QED BY <1>3, Least
<1>5. PICK m \in I : x = f(m)
  BY <1>4
<1>6. ASSUME NEW i \in I PROVE s[i] <= s[m]
  <2>1. f(m) <= f(i)
    BY <1>4, <1>5
  <2>2. Cardinality(Below(s, s[i])) <= Cardinality(Below(s, s[m]))
    BY <1>2, <2>1
  <2>3. ~(s[m] < s[i])
    BY <1>2, <2>2, BelowGrows
  <2> QED BY <1>1, <2>3
<1> QED BY <1>6

\* The k-th smallest element exists.
LEMMA RankedResult ==
  ASSUME NEW s \in Seq(Int), NEW k \in 1..Len(s)
  PROVE  /\ Ranked(s, k) \in {s[i] : i \in DOMAIN s}
         /\ Cardinality({i \in DOMAIN s : s[i] < Ranked(s, k)}) < k
         /\ k <= Cardinality({i \in DOMAIN s : s[i] <= Ranked(s, k)})
<1> DEFINE n(i) == Cardinality(Below(s, s[i]))
           E == {i \in DOMAIN s : k <= n(i)}
           T == {n(i) : i \in E}
<1>1. /\ k \in Nat /\ k >= 1 /\ k <= Len(s) /\ Len(s) \in Nat
      /\ DOMAIN s = 1..Len(s) /\ \A i \in DOMAIN s : s[i] \in Int
  OBVIOUS
<1>2. \A i \in DOMAIN s : n(i) \in Nat
  BY <1>1, BelowFinite
<1>3. E # {}
  <2>1. 1..Len(s) # {}
    BY <1>1
  <2>2. PICK m \in DOMAIN s : \A i \in DOMAIN s : s[i] <= s[m]
    BY <1>1, <2>1, Largest
  <2>3. Below(s, s[m]) = 1..Len(s)
    BY <1>1, <2>2 DEF Below
  <2>4. n(m) = Len(s)
    BY <1>1, <2>3, IndicesCounted
  <2> QED BY <1>1, <2>4
<1>4. T \in SUBSET Nat /\ T # {}
  BY <1>2, <1>3
<1>5. PICK x \in T : \A y \in T : x <= y
  <2> HIDE DEF T
  <2> QED BY <1>4, Least
<1>6. PICK m \in E : x = n(m)
  BY <1>5
<1>7. \A i \in E : n(m) <= n(i)
  BY <1>5, <1>6
<1> DEFINE L == {i \in DOMAIN s : s[i] < s[m]}
<1>8. Cardinality(L) < k
  <2>1. CASE L = {}
    <3>1. Cardinality(L) = 0
      BY <2>1, FS_EmptySet
    <3> QED BY <1>1, <3>1
  <2>2. CASE L # {}
    <3>1. PICK p \in L : \A i \in L : s[i] <= s[p]
      <4>1. L \in SUBSET DOMAIN s
        OBVIOUS
      <4> HIDE DEF L
      <4> QED BY <2>2, <4>1, Largest
    <3>2. L = Below(s, s[p])
      BY <1>1, <3>1 DEF Below
    <3>3. n(p) < n(m)
      BY <3>1, BelowGrows
    <3>4. p \notin E
      BY <1>2, <1>7, <3>1, <3>3
    <3>5. n(p) < k
      BY <1>1, <1>2, <3>1, <3>4
    <3> QED BY <3>2, <3>5
  <2> QED BY <2>1, <2>2
<1>9. k <= Cardinality({i \in DOMAIN s : s[i] <= s[m]})
  BY DEF Below
<1>10. /\ s[m] \in {s[i] : i \in DOMAIN s}
       /\ Cardinality({i \in DOMAIN s : s[i] < s[m]}) < k
       /\ k <= Cardinality({i \in DOMAIN s : s[i] <= s[m]})
  BY <1>8, <1>9
<1>11. \E y \in {s[i] : i \in DOMAIN s} :
         /\ Cardinality({i \in DOMAIN s : s[i] < y}) < k
         /\ k <= Cardinality({i \in DOMAIN s : s[i] <= y})
  BY <1>10
<1> HIDE DEF n, E, T, L
<1> QED BY <1>11 DEF Ranked

\* The doubled median of integers is an integer.
LEMMA MedianType ==
  ASSUME NEW s \in Seq(Int), Len(s) >= 1
  PROVE  Median2(s) \in Int
<1> DEFINE r1 == (Len(s) + 1) \div 2
           r2 == Len(s) \div 2 + 1
<1>1. r1 \in 1..Len(s) /\ r2 \in 1..Len(s)
  OBVIOUS
<1>2. Median2(s) = Ranked(s, r1) + Ranked(s, r2)
  BY DEF Median2
<1> HIDE DEF r1, r2
<1>3. \A x \in {s[i] : i \in DOMAIN s} : x \in Int
  OBVIOUS
<1>4. Ranked(s, r1) \in Int /\ Ranked(s, r2) \in Int
  BY <1>1, <1>3, RankedResult
<1> QED BY <1>2, <1>4

-----------------------------------------------------------------------------
(* The invariant *)

\* Nothing is pending that was dropped, and the pending image is older than the next.
CountOK ==
  /\ dropped + (IF pending = NONE THEN 0 ELSE 1) <= nextPrim
  /\ pending # NONE => pending < nextPrim

\* A history holds images in the order of their triggers, with the stamps of their triggers.
HistOK ==
  \A c \in Secs :
    /\ \A i \in DOMAIN hist[c] :
         /\ hist[c][i].at < nextSec[c]
         /\ \E o \in Offsets : hist[c][i].stamp = hist[c][i].at * Period + o
    /\ \A i, j \in DOMAIN hist[c] : i < j => hist[c][i].at < hist[c][j].at

\* Of the last frame: it is older than the pending image; each of its images is either still
\* in the history or older than all that is there; and where an older one is there, the
\* biased stamp of the frame lay beyond the middle between the two.
LastOK ==
  last # NONE =>
    /\ last.prim < nextPrim /\ (pending # NONE => last.prim < pending)
    /\ \A c \in Secs :
         /\ last.sec[c].at < nextSec[c]
         /\ \/ \A i \in DOMAIN hist[c] : last.sec[c].at < hist[c][i].at
            \/ \E k \in DOMAIN hist[c] : hist[c][k] = last.sec[c]
         /\ \A i \in DOMAIN hist[c] :
              hist[c][i].at < last.sec[c].at =>
                hist[c][i].stamp + last.sec[c].stamp < 2 * last.prim * Period + last.bias[c]

PairingInv == TypeOK /\ AllAccounted /\ CountOK /\ HistOK /\ LastOK

-----------------------------------------------------------------------------
(* The operators *)

\* r is q with x added at its end and its first d elements gone.
Shifted(q, r, x, d) ==
  /\ Len(r) = Len(q) + 1 - d
  /\ d = 1 => Len(q) >= 1
  /\ \A i \in 1..Len(q) - d : r[i] = q[i + d]
  /\ r[Len(q) + 1 - d] = x

\* deque(maxlen=n).append: the new element is the last, and the oldest goes when it is full.
LEMMA PushResult ==
  ASSUME NEW S, NEW q \in Seq(S), NEW x \in S, NEW n \in Nat \ {0}, Len(q) <= n
  PROVE  /\ Push(q, x, n) \in Seq(S) /\ Len(Push(q, x, n)) \in 1..n
         /\ Shifted(q, Push(q, x, n), x, 0) \/ Shifted(q, Push(q, x, n), x, 1)
<1>1. CASE Len(q) < n
  <2>1. Push(q, x, n) = Append(q, x)
    BY <1>1 DEF Push
  <2>2. /\ Append(q, x) \in Seq(S) /\ Len(Append(q, x)) = Len(q) + 1
        /\ \A i \in 1..Len(q) - 0 : Append(q, x)[i] = q[i + 0]
        /\ Append(q, x)[Len(q) + 1 - 0] = x
    OBVIOUS
  <2>3. Shifted(q, Append(q, x), x, 0)
    BY <2>2 DEF Shifted
  <2> QED BY <1>1, <2>1, <2>2, <2>3
<1>2. CASE Len(q) = n
  <2>1. Push(q, x, n) = Append(Tail(q), x)
    BY <1>2 DEF Push
  <2>2. q # <<>> /\ Tail(q) \in Seq(S) /\ Len(Tail(q)) = Len(q) - 1
    BY <1>2
  <2>3. \A i \in 1..Len(q) - 1 : Tail(q)[i] = q[i + 1]
    BY <2>2
  <2> DEFINE t == Tail(q)
  <2>4. t \in Seq(S) /\ Len(t) = Len(q) - 1
    BY <2>2
  <2>5. \A i \in 1..Len(q) - 1 : t[i] = q[i + 1]
    BY <2>3
  <2> HIDE DEF t
  <2>6. /\ Append(t, x) \in Seq(S) /\ Len(Append(t, x)) = Len(q)
        /\ \A i \in 1..Len(q) - 1 : Append(t, x)[i] = q[i + 1]
        /\ Append(t, x)[Len(q) + 1 - 1] = x
    BY <1>2, <2>4, <2>5
  <2>7. Shifted(q, Append(t, x), x, 1)
    BY <1>2, <2>6 DEF Shifted
  <2> QED BY <1>2, <2>1, <2>6, <2>7 DEF t
<1> QED BY <1>1, <1>2

\* An older image's stamp is the smaller.
LEMMA StampsIncrease ==
  ASSUME NEW a \in Int, NEW b \in Int, a < b, NEW o \in Offsets, NEW p \in Offsets
  PROVE  a * Period + o < b * Period + p
<1>1. o \in Int /\ p \in Int /\ o < p + Period
  OBVIOUS
<1>2. (b - a - 1) * Period >= 0
  BY b - a - 1 >= 0
<1>3. (b - a - 1) * Period = b * Period - a * Period - Period
  OBVIOUS
<1>4. a * Period \in Int /\ b * Period \in Int
  OBVIOUS
<1> QED BY <1>1, <1>2, <1>3, <1>4

\* Of two points the later is the nearer exactly when the place lies beyond their middle.
LEMMA Middle ==
  ASSUME NEW a \in Int, NEW b \in Int, NEW x \in Int, a < b
  PROVE  /\ Dist(2 * b, x) < Dist(2 * a, x) => a + b < x
         /\ Dist(2 * a, x) <= Dist(2 * b, x) => x <= a + b
BY DEF Dist

LEMMA Bias2Type ==
  ASSUME TypeOK, NEW c \in Secs
  PROVE  Bias2(c) \in Int
<1>1. est[c] \in Seq(Int)
  BY DEF TypeOK
<1>2. CASE Len(est[c]) >= Learn
  <2>1. Len(est[c]) >= 1
    BY <1>1, <1>2
  <2> QED BY <1>1, <1>2, <2>1, MedianType DEF Bias2
<1>3. CASE ~(Len(est[c]) >= Learn)
  BY <1>3 DEF Bias2
<1> QED BY <1>2, <1>3

\* The place that _commit_pending looks for, doubled.
Centre(c) == 2 * pending * Period + Bias2(c)

LEMMA Far2Type ==
  ASSUME TypeOK, pending # NONE, NEW c \in Secs
  PROVE  /\ pending \in Nat /\ pending * Period \in Int /\ Centre(c) \in Int
         /\ 2 * pending * Period = 2 * (pending * Period)
         /\ \A i \in DOMAIN hist[c] :
              /\ hist[c][i].stamp \in Int /\ hist[c][i].at \in Nat
              /\ Far2(c, i) \in Nat
              /\ Far2(c, i) = Dist(2 * hist[c][i].stamp, Centre(c))
<1>1. pending \in Nat
  BY DEF TypeOK
<1>2. pending * Period \in Int /\ 2 * pending * Period \in Int
      /\ 2 * pending * Period = 2 * (pending * Period)
  BY <1>1
<1>3. Centre(c) \in Int
  BY <1>2, Bias2Type DEF Centre
<1>4. ASSUME NEW i \in DOMAIN hist[c]
      PROVE  /\ hist[c][i].stamp \in Int /\ hist[c][i].at \in Nat
             /\ Far2(c, i) \in Nat
             /\ Far2(c, i) = Dist(2 * hist[c][i].stamp, Centre(c))
  <2>1. hist[c] \in Seq(Images)
    BY DEF TypeOK
  <2>2. hist[c][i] \in Images
    BY <2>1
  <2>3. hist[c][i].stamp \in Int /\ hist[c][i].at \in Nat
    BY <2>2 DEF Images
  <2>4. Far2(c, i) = Dist(2 * hist[c][i].stamp, Centre(c))
    BY DEF Far2, Centre
  <2>5. Dist(2 * hist[c][i].stamp, Centre(c)) \in Nat
    BY <1>3, <2>3 DEF Dist
  <2> QED BY <2>3, <2>4, <2>5
<1> QED BY <1>1, <1>2, <1>3, <1>4

\* The image that is chosen is the nearest, and strictly nearer than every older one.
LEMMA NearestResult ==
  ASSUME TypeOK, pending # NONE, NEW c \in Secs, hist[c] # <<>>
  PROVE  /\ Nearest(c) \in DOMAIN hist[c]
         /\ \A o \in DOMAIN hist[c] : Far2(c, Nearest(c)) <= Far2(c, o)
         /\ \A o \in 1..Nearest(c) - 1 : Far2(c, Nearest(c)) < Far2(c, o)
<1> DEFINE D == DOMAIN hist[c]
           T == {Far2(c, i) : i \in D}
<1>1. \A i \in D : Far2(c, i) \in Nat
  BY Far2Type
<1>2. D \in SUBSET Nat /\ D = 1..Len(hist[c]) /\ 1 \in D
  BY DEF TypeOK
<1>3. PICK x \in T : \A y \in T : x <= y
  <2>1. T \in SUBSET Nat /\ T # {}
    BY <1>1, <1>2
  <2> HIDE DEF T
  <2> QED BY <2>1, Least
<1> DEFINE E == {i \in D : Far2(c, i) = x}
<1>4. PICK i \in E : \A j \in E : i <= j
  <2>1. E \in SUBSET Nat /\ E # {}
    BY <1>2, <1>3
  <2> HIDE DEF E
  <2> QED BY <2>1, Least
<1>5. i \in D /\ Far2(c, i) = x
  BY <1>4
<1>6. \A o \in D : Far2(c, i) <= Far2(c, o)
  BY <1>3, <1>5
<1>7. \A o \in 1..i - 1 : Far2(c, i) < Far2(c, o)
  <2> SUFFICES ASSUME NEW o \in 1..i - 1 PROVE Far2(c, i) < Far2(c, o)
    OBVIOUS
  <2>1. o \in D /\ o < i /\ o \in Nat /\ i \in Nat
    BY <1>2, <1>5
  <2>2. Far2(c, o) # x
    BY <1>4, <2>1
  <2> QED BY <1>1, <1>5, <1>6, <2>1, <2>2
<1>8. \E n \in DOMAIN hist[c] :
        /\ \A o \in DOMAIN hist[c] : Far2(c, n) <= Far2(c, o)
        /\ \A o \in 1..n - 1 : Far2(c, n) < Far2(c, o)
  BY <1>5, <1>6, <1>7
<1> HIDE DEF D, T, E
<1> QED BY <1>8 DEF Nearest

-----------------------------------------------------------------------------
(* The steps *)

\* In a history the older image has the smaller stamp.
LEMMA HistOrder ==
  ASSUME TypeOK, HistOK, NEW c \in Secs, NEW i \in DOMAIN hist[c], NEW j \in DOMAIN hist[c]
  PROVE  /\ hist[c][i].at < hist[c][j].at <=> i < j
         /\ i < j => hist[c][i].stamp < hist[c][j].stamp
<1>1. /\ hist[c] \in Seq(Images) /\ i \in Nat /\ j \in Nat
      /\ hist[c][i] \in Images /\ hist[c][j] \in Images
  BY DEF TypeOK
<1>2. hist[c][i].at \in Int /\ hist[c][j].at \in Int
  BY <1>1 DEF Images
<1>3. /\ i < j => hist[c][i].at < hist[c][j].at
      /\ j < i => hist[c][j].at < hist[c][i].at
  BY DEF HistOK
<1>4. i < j => hist[c][i].stamp < hist[c][j].stamp
  <2>1. PICK o \in Offsets : hist[c][i].stamp = hist[c][i].at * Period + o
    BY DEF HistOK
  <2>2. PICK p \in Offsets : hist[c][j].stamp = hist[c][j].at * Period + p
    BY DEF HistOK
  <2> QED BY <1>2, <1>3, <2>1, <2>2, StampsIncrease
<1> QED BY <1>1, <1>2, <1>3, <1>4

\* A frame that is committed.
LEMMA CommitResult ==
  ASSUME PairingInv, Matches, Commit
  PROVE  /\ est' \in [Secs -> Seq(Int)] /\ \A c \in Secs : Len(est'[c]) <= Window
         /\ last' \in Frames /\ last' # NONE /\ last'.prim = pending
         /\ mishaps' \in 0..Mishaps /\ committed' = committed + 1
         /\ \A c \in Secs :
              /\ last'.bias[c] = Bias2(c)
              /\ \E n \in DOMAIN hist[c] :
                   /\ last'.sec[c] = hist[c][n]
                   /\ \A o \in DOMAIN hist[c] : Far2(c, n) <= Far2(c, o)
                   /\ \A o \in 1..n - 1 : Far2(c, n) < Far2(c, o)
<1> USE DEF PairingInv
<1>1. pending # NONE /\ \A c \in Secs : hist[c] # <<>>
  BY DEF Matches
<1>2. /\ est' = [c \in Secs |-> Push(est[c], Best(c).stamp - pending * Period, Window)]
      /\ last' = [prim |-> pending, sec |-> [c \in Secs |-> Best(c)],
                  bias |-> [c \in Secs |-> Bias2(c)]]
      /\ committed' = committed + 1 /\ AddFrame
  BY DEF Commit
<1>3. ASSUME NEW c \in Secs
      PROVE  /\ Nearest(c) \in DOMAIN hist[c]
             /\ \A o \in DOMAIN hist[c] : Far2(c, Nearest(c)) <= Far2(c, o)
             /\ \A o \in 1..Nearest(c) - 1 : Far2(c, Nearest(c)) < Far2(c, o)
             /\ Best(c) = hist[c][Nearest(c)] /\ Best(c) \in Images /\ Bias2(c) \in Int
             /\ Best(c).stamp - pending * Period \in Int
  <2>1. /\ Nearest(c) \in DOMAIN hist[c]
        /\ \A o \in DOMAIN hist[c] : Far2(c, Nearest(c)) <= Far2(c, o)
        /\ \A o \in 1..Nearest(c) - 1 : Far2(c, Nearest(c)) < Far2(c, o)
    BY <1>1, NearestResult
  <2>2. Best(c) = hist[c][Nearest(c)]
    BY DEF Best
  <2>3. Best(c) \in Images
    <3>1. hist[c] \in Seq(Images)
      BY DEF TypeOK
    <3> QED BY <2>1, <2>2, <3>1
  <2>4. Best(c).stamp \in Int /\ pending * Period \in Int
    BY <1>1, <2>3, Far2Type DEF Images
  <2> QED BY <2>1, <2>2, <2>3, <2>4, Bias2Type
<1>4. ASSUME NEW c \in Secs
      PROVE  est'[c] \in Seq(Int) /\ Len(est'[c]) <= Window
  <2> DEFINE x == Best(c).stamp - pending * Period
  <2>1. est[c] \in Seq(Int) /\ Len(est[c]) <= Window /\ x \in Int /\ Window \in Nat \ {0}
    BY <1>3 DEF TypeOK
  <2>2. est'[c] = Push(est[c], x, Window)
    BY <1>2
  <2> HIDE DEF x
  <2>3. Push(est[c], x, Window) \in Seq(Int) /\ Len(Push(est[c], x, Window)) \in 1..Window
    BY <2>1, PushResult
  <2> QED BY <2>1, <2>2, <2>3
<1>5. est' \in [Secs -> Seq(Int)]
  <2>1. est' = [c \in Secs |-> est'[c]]
    BY <1>2
  <2> QED BY <1>4, <2>1
<1>6. last' \in Frames
  <2>1. pending \in Nat
    BY <1>1 DEF TypeOK
  <2> QED BY <1>2, <1>3, <2>1 DEF Frames
<1>7. mishaps' \in 0..Mishaps
  BY <1>2 DEF AddFrame, Mishap, TypeOK
<1>8. last'.prim = pending /\ \A c \in Secs : last'.sec[c] = Best(c) /\ last'.bias[c] = Bias2(c)
  BY <1>2
<1> QED BY <1>2, <1>3, <1>4, <1>5, <1>6, <1>7, <1>8

\* What is remembered of a new frame is right, whatever waits after it.
LEMMA CommitLastOK ==
  ASSUME PairingInv, Matches, Commit, UNCHANGED <<hist, nextSec>>,
         nextPrim' \in Nat, nextPrim' >= nextPrim, pending' # NONE => pending' = nextPrim
  PROVE  LastOK'
<1> USE DEF PairingInv
<1>1. pending # NONE /\ pending < nextPrim /\ pending \in Nat /\ nextPrim \in Nat
  BY DEF Matches, CountOK, TypeOK
<1>2. last'.prim < nextPrim' /\ (pending' # NONE => last'.prim < pending')
  BY <1>1, CommitResult
<1>3. ASSUME NEW c \in Secs
      PROVE  /\ last'.sec[c].at < nextSec[c]
             /\ \E k \in DOMAIN hist[c] : hist[c][k] = last'.sec[c]
             /\ \A i \in DOMAIN hist[c] :
                  hist[c][i].at < last'.sec[c].at =>
                    hist[c][i].stamp + last'.sec[c].stamp < 2 * last'.prim * Period + last'.bias[c]
  <2>1. PICK n \in DOMAIN hist[c] :
          /\ last'.sec[c] = hist[c][n]
          /\ \A o \in 1..n - 1 : Far2(c, n) < Far2(c, o)
    BY CommitResult
  <2>2. last'.prim = pending /\ last'.bias[c] = Bias2(c)
    BY CommitResult
  <2>3. hist[c][n].at < nextSec[c]
    BY DEF HistOK
  <2>4. ASSUME NEW i \in DOMAIN hist[c], hist[c][i].at < hist[c][n].at
        PROVE  hist[c][i].stamp + hist[c][n].stamp < Centre(c)
    <3>1. i < n /\ hist[c][i].stamp < hist[c][n].stamp
      BY <2>4, HistOrder
    <3>2. i \in 1..n - 1
      BY <3>1 DEF TypeOK
    <3>3. Far2(c, n) < Far2(c, i)
      BY <2>1, <3>2
    <3>4. /\ hist[c][i].stamp \in Int /\ hist[c][n].stamp \in Int /\ Centre(c) \in Int
          /\ Far2(c, i) = Dist(2 * hist[c][i].stamp, Centre(c))
          /\ Far2(c, n) = Dist(2 * hist[c][n].stamp, Centre(c))
      BY <1>1, Far2Type
    <3> QED BY <3>1, <3>3, <3>4, Middle
  <2> QED BY <2>1, <2>2, <2>3, <2>4 DEF Centre
<1> QED BY <1>2, <1>3 DEF LastOK

\* No frame shows an older image of a camera than the frame before, whose bias was at most a
\* period larger: the place that is looked for has not moved back, so the nearest image cannot.
LEMMA StepForward ==
  ASSUME PairingInv, Matches, Commit, last # NONE, NEW c \in Secs,
         Bias2(c) + 2 * Period >= last.bias[c]
  PROVE  last'.sec[c].at >= last.sec[c].at
<1> USE DEF PairingInv
<1>1. pending # NONE /\ pending \in Nat /\ last \in Frames
  BY DEF Matches, TypeOK
<1>2. /\ last.prim \in Nat /\ last.prim < pending /\ last.bias[c] \in Int
      /\ last.sec[c] \in Images /\ last.sec[c].at \in Nat /\ last.sec[c].stamp \in Int
  BY <1>1 DEF LastOK, Frames, Images
<1>3. PICK n \in DOMAIN hist[c] : /\ last'.sec[c] = hist[c][n]
                                  /\ \A o \in DOMAIN hist[c] : Far2(c, n) <= Far2(c, o)
  BY CommitResult
<1>4. hist[c][n].at \in Nat /\ hist[c][n].stamp \in Int /\ Centre(c) \in Int /\ Bias2(c) \in Int
  BY <1>1, Far2Type, Bias2Type
<1> SUFFICES ASSUME hist[c][n].at < last.sec[c].at PROVE FALSE
  BY <1>2, <1>3, <1>4
<1>5. PICK k \in DOMAIN hist[c] : hist[c][k] = last.sec[c]
  BY <1>1, <1>2, <1>4 DEF LastOK
<1>6. hist[c][n].stamp < hist[c][k].stamp
  BY <1>5, HistOrder
<1>7. Centre(c) <= hist[c][n].stamp + hist[c][k].stamp
  <2>1. Far2(c, n) <= Far2(c, k)
    BY <1>3
  <2>2. /\ hist[c][k].stamp \in Int
        /\ Far2(c, n) = Dist(2 * hist[c][n].stamp, Centre(c))
        /\ Far2(c, k) = Dist(2 * hist[c][k].stamp, Centre(c))
    BY <1>1, Far2Type
  <2> QED BY <1>4, <1>6, <2>1, <2>2, Middle
<1>8. hist[c][n].stamp + hist[c][k].stamp < 2 * last.prim * Period + last.bias[c]
  BY <1>1, <1>5 DEF LastOK
<1>9. 2 * last.prim * Period + last.bias[c] <= Centre(c)
  <2>1. (pending - last.prim - 1) * Period >= 0
    BY <1>1, <1>2, pending - last.prim - 1 >= 0
  <2>2. (pending - last.prim - 1) * Period = pending * Period - last.prim * Period - Period
    BY <1>1, <1>2
  <2>3. /\ pending * Period \in Int /\ last.prim * Period \in Int
        /\ 2 * pending * Period = 2 * (pending * Period)
        /\ 2 * last.prim * Period = 2 * (last.prim * Period)
    BY <1>1, <1>2
  <2> QED BY <1>2, <1>4, <2>1, <2>2, <2>3 DEF Centre
<1> QED BY <1>2, <1>4, <1>5, <1>7, <1>8, <1>9

LEMMA PairingInitially == Init => PairingInv
<1> SUFFICES ASSUME Init PROVE PairingInv
  OBVIOUS
<1>1. TypeOK
  <2>1. recording \in BOOLEAN /\ clean \in BOOLEAN
    BY DEF Init
  <2>2. <<>> \in Seq(Images) /\ <<>> \in Seq(Int) /\ Len(<<>>) = 0
    OBVIOUS
  <2> QED BY <2>1, <2>2 DEF Init, TypeOK
<1>2. AllAccounted /\ CountOK /\ HistOK /\ LastOK
  BY DEF Init, AllAccounted, LastDiscarded, CountOK, HistOK, LastOK
<1> QED BY <1>1, <1>2 DEF PairingInv

\* The primary's next image: what was pending becomes a frame, or is dropped and counted.
LEMMA OnPrimaryStep ==
  ASSUME PairingInv, OnPrimary
  PROVE  PairingInv'
<1> USE DEF PairingInv
<1>1. /\ nextPrim < Triggers /\ nextPrim' = nextPrim + 1
      /\ clean' = (clean /\ \A c \in Secs : nextSec[c] >= nextPrim)
      /\ UNCHANGED <<recording, hist, ended, nextSec>>
  BY DEF OnPrimary, PrimaryNext
<1>2. nextPrim \in Nat /\ nextPrim' \in 0..Triggers /\ clean' \in BOOLEAN /\ nextPrim # NONE
  BY <1>1 DEF TypeOK
<1>3. HistOK'
  BY <1>1 DEF HistOK
<1>4. CASE recording /\ Matches
  <2>1. /\ pending' = nextPrim /\ Commit /\ UNCHANGED dropped
        /\ images' = images + 1 /\ pending # NONE
    BY <1>4 DEF OnPrimary, Matches
  <2>2. LastOK'
    <3>1. UNCHANGED <<hist, nextSec>> /\ nextPrim' \in Nat /\ nextPrim' >= nextPrim
      BY <1>1, <1>2
    <3> QED BY <1>4, <2>1, <3>1, CommitLastOK
  <2>3. /\ est' \in [Secs -> Seq(Int)] /\ \A c \in Secs : Len(est'[c]) <= Window
        /\ last' \in Frames /\ mishaps' \in 0..Mishaps /\ committed' = committed + 1
    BY <1>4, <2>1, CommitResult
  <2>4. CountOK' /\ AllAccounted'
    BY <1>1, <1>2, <1>4, <2>1, <2>3 DEF CountOK, AllAccounted, TypeOK
  <2>5. TypeOK'
    BY <1>1, <1>2, <2>1, <2>3 DEF TypeOK
  <2> QED BY <1>3, <2>2, <2>4, <2>5
<1>5. CASE recording /\ ~Matches
  <2>1. /\ pending' = nextPrim /\ NoFrame /\ images' = images + 1
        /\ dropped' = IF pending = NONE THEN dropped ELSE dropped + 1
    BY <1>5 DEF OnPrimary
  <2>2. UNCHANGED <<est, last, committed, mishaps>>
    BY <2>1 DEF NoFrame
  <2>3. LastOK'
    BY <1>1, <1>2, <2>1, <2>2 DEF LastOK, TypeOK, Frames
  <2>4. CountOK' /\ AllAccounted'
    BY <1>1, <1>2, <1>5, <2>1, <2>2 DEF CountOK, AllAccounted, TypeOK
  <2>5. dropped' \in 0..Triggers
    BY <1>1, <1>2, <2>1 DEF CountOK, TypeOK
  <2>6. TypeOK'
    BY <1>1, <1>2, <2>1, <2>2, <2>5 DEF TypeOK
  <2> QED BY <1>3, <2>3, <2>4, <2>6
<1>6. CASE ~recording
  <2>1. UNCHANGED <<pending, images, committed, dropped, est, last, mishaps>>
    BY <1>6 DEF OnPrimary, NoFrame
  <2>2. LastOK'
    BY <1>1, <1>2, <2>1 DEF LastOK, TypeOK, Frames
  <2>3. CountOK' /\ AllAccounted'
    BY <1>1, <1>2, <1>6, <2>1 DEF CountOK, AllAccounted, LastDiscarded, TypeOK
  <2>4. TypeOK'
    BY <1>1, <1>2, <2>1 DEF TypeOK
  <2> QED BY <1>3, <2>2, <2>3, <2>4
<1> QED BY <1>4, <1>5, <1>6

\* An image of a secondary: the history moves on in the order of the triggers.
LEMMA OnSecondaryStep ==
  ASSUME PairingInv, NEW c \in Secs, OnSecondary(c)
  PROVE  PairingInv'
<1> USE DEF PairingInv
<1>1. /\ nextSec[c] <= nextPrim /\ nextSec[c] < Triggers
      /\ nextSec' = [nextSec EXCEPT ![c] = @ + 1]
      /\ UNCHANGED <<recording, pending, est, dropped, images, committed, ended, last, nextPrim,
                     clean, mishaps>>
  BY DEF OnSecondary, SecondaryNext, ledger
<1>2. PICK o \in Offsets :
        hist' = [hist EXCEPT ![c] =
          Push(@, [at |-> nextSec[c], stamp |-> nextSec[c] * Period + o], Hist)]
  BY DEF OnSecondary
<1> DEFINE new == [at |-> nextSec[c], stamp |-> nextSec[c] * Period + o]
<1>3. /\ nextSec \in [Secs -> 0..Triggers] /\ nextSec[c] \in Nat
      /\ nextSec[c] * Period \in Int /\ o \in Int
      /\ hist \in [Secs -> Seq(Images)] /\ hist[c] \in Seq(Images) /\ Len(hist[c]) <= Hist
  BY DEF TypeOK
<1>4. new \in Images /\ new.at = nextSec[c] /\ new.stamp = nextSec[c] * Period + o
  BY <1>3 DEF Images
<1>5. hist' = [hist EXCEPT ![c] = Push(hist[c], new, Hist)]
  BY <1>2
<1> HIDE DEF new
<1>6. /\ hist'[c] = Push(hist[c], new, Hist)
      /\ \A b \in Secs : b # c => hist'[b] = hist[b]
      /\ nextSec'[c] = nextSec[c] + 1
      /\ \A b \in Secs : b # c => nextSec'[b] = nextSec[b]
  BY <1>1, <1>3, <1>5
<1>7. /\ hist'[c] \in Seq(Images) /\ Len(hist'[c]) <= Hist
      /\ Shifted(hist[c], hist'[c], new, 0) \/ Shifted(hist[c], hist'[c], new, 1)
  BY <1>3, <1>4, <1>6, PushResult
<1>8. PICK d \in {0, 1} :
        /\ Len(hist'[c]) = Len(hist[c]) + 1 - d
        /\ d = 1 => Len(hist[c]) >= 1
        /\ \A i \in 1..Len(hist[c]) - d : hist'[c][i] = hist[c][i + d]
        /\ hist'[c][Len(hist[c]) + 1 - d] = new
  BY <1>7 DEF Shifted
<1> DEFINE n == Len(hist[c]) + 1 - d
<1>9. /\ DOMAIN hist'[c] = 1..n /\ DOMAIN hist[c] = 1..Len(hist[c])
      /\ n \in Nat /\ Len(hist[c]) \in Nat /\ d \in Nat
  <2>1. Len(hist'[c]) = n
    BY <1>8
  <2>2. /\ Len(hist[c]) \in Nat /\ DOMAIN hist[c] = 1..Len(hist[c])
        /\ Len(hist'[c]) \in Nat /\ DOMAIN hist'[c] = 1..Len(hist'[c])
    BY <1>3, <1>7
  <2> QED BY <2>1, <2>2
<1>10. ASSUME NEW i \in DOMAIN hist'[c]
       PROVE  \/ i = n /\ hist'[c][i] = new
              \/ i < n /\ i + d \in DOMAIN hist[c] /\ hist'[c][i] = hist[c][i + d]
  <2>1. CASE i = n
    BY <1>8, <2>1
  <2>2. CASE i # n
    <3>1. i \in 1..Len(hist[c]) - d /\ i + d \in DOMAIN hist[c] /\ i < n
      BY <1>9, <2>2
    <3>2. hist'[c][i] = hist[c][i + d]
      BY <1>8, <3>1
    <3> QED BY <3>1, <3>2
  <2> QED BY <2>1, <2>2
<1>11. hist' \in [Secs -> Seq(Images)]
  BY <1>3, <1>5, <1>6, <1>7
<1>12. TypeOK'
  <2>1. nextSec' \in [Secs -> 0..Triggers]
    BY <1>1, <1>3
  <2>2. \A b \in Secs : Len(hist'[b]) <= Hist
    BY <1>6, <1>7 DEF TypeOK
  <2> QED BY <1>1, <1>11, <2>1, <2>2 DEF TypeOK
<1>13. CountOK' /\ AllAccounted'
  BY <1>1 DEF CountOK, AllAccounted, LastDiscarded
<1>14. \A i \in DOMAIN hist[c] : hist[c][i].at < nextSec[c] /\ hist[c][i].at \in Nat
  <2>1. \A i \in DOMAIN hist[c] : hist[c][i] \in Images
    BY <1>3
  <2> QED BY <2>1 DEF HistOK, Images
<1>15. HistOK'
  <2>1. ASSUME NEW i \in DOMAIN hist'[c]
        PROVE  /\ hist'[c][i].at < nextSec'[c]
               /\ \E p \in Offsets : hist'[c][i].stamp = hist'[c][i].at * Period + p
    <3>1. CASE i = n /\ hist'[c][i] = new
      BY <1>3, <1>4, <1>6, <3>1
    <3>2. CASE i < n /\ i + d \in DOMAIN hist[c] /\ hist'[c][i] = hist[c][i + d]
      BY <1>3, <1>6, <1>14, <3>2 DEF HistOK
    <3> QED BY <1>10, <3>1, <3>2
  <2>2. ASSUME NEW i \in DOMAIN hist'[c], NEW j \in DOMAIN hist'[c], i < j
        PROVE  hist'[c][i].at < hist'[c][j].at
    <3>1. i < n /\ i + d \in DOMAIN hist[c] /\ hist'[c][i] = hist[c][i + d]
      BY <1>9, <1>10, <2>2
    <3>2. CASE j = n /\ hist'[c][j] = new
      BY <1>4, <1>14, <3>1, <3>2
    <3>3. CASE j < n /\ j + d \in DOMAIN hist[c] /\ hist'[c][j] = hist[c][j + d]
      <4>1. i + d < j + d
        BY <1>9, <2>2
      <4> QED BY <3>1, <3>3, <4>1 DEF HistOK
    <3> QED BY <1>10, <3>2, <3>3
  <2>3. ASSUME NEW b \in Secs, b # c
        PROVE  /\ \A i \in DOMAIN hist'[b] :
                    /\ hist'[b][i].at < nextSec'[b]
                    /\ \E p \in Offsets : hist'[b][i].stamp = hist'[b][i].at * Period + p
               /\ \A i, j \in DOMAIN hist'[b] : i < j => hist'[b][i].at < hist'[b][j].at
    BY <1>6, <2>3 DEF HistOK
  <2> QED BY <2>1, <2>2, <2>3 DEF HistOK
<1>16. LastOK'
  <2> SUFFICES ASSUME last # NONE PROVE LastOK'
    BY <1>1 DEF LastOK
  <2>1. last \in Frames /\ last.sec[c] \in Images
    BY DEF TypeOK, Frames
  <2>2. last.sec[c].at \in Nat /\ last.sec[c].at < nextSec[c]
    BY <2>1 DEF Images, LastOK
  <2>3. \/ \A i \in DOMAIN hist'[c] : last.sec[c].at < hist'[c][i].at
        \/ \E k \in DOMAIN hist'[c] : hist'[c][k] = last.sec[c]
    <3>1. CASE \A i \in DOMAIN hist[c] : last.sec[c].at < hist[c][i].at
      BY <1>4, <1>10, <2>2, <3>1
    <3>2. ASSUME NEW k \in DOMAIN hist[c], hist[c][k] = last.sec[c]
          PROVE  \/ \A i \in DOMAIN hist'[c] : last.sec[c].at < hist'[c][i].at
                 \/ \E m \in DOMAIN hist'[c] : hist'[c][m] = last.sec[c]
      <4>1. CASE k > d
        <5>1. k - d \in 1..Len(hist[c]) - d
          BY <1>9, <4>1
        <5>2. hist'[c][k - d] = hist[c][(k - d) + d]
          BY <1>8, <5>1
        <5>4. (k - d) + d = k
          BY <1>9
        <5>3. k - d \in DOMAIN hist'[c]
          BY <1>9, <5>1
        <5> QED BY <3>2, <5>2, <5>3, <5>4
      <4>2. CASE ~(k > d)
        <5>1. k = 1 /\ d = 1
          BY <1>9, <4>2
        <5>2. ASSUME NEW i \in DOMAIN hist'[c] PROVE last.sec[c].at < hist'[c][i].at
          <6>1. CASE i = n /\ hist'[c][i] = new
            BY <1>4, <2>2, <6>1
          <6>2. CASE i < n /\ i + d \in DOMAIN hist[c] /\ hist'[c][i] = hist[c][i + d]
            <7>1. k < i + d
              BY <1>9, <5>1
            <7> QED BY <3>2, <6>2, <7>1 DEF HistOK
          <6> QED BY <1>10, <6>1, <6>2
        <5> QED BY <5>2
      <4> QED BY <4>1, <4>2
    <3> QED BY <3>1, <3>2 DEF LastOK
  <2>4. ASSUME NEW i \in DOMAIN hist'[c], hist'[c][i].at < last.sec[c].at
        PROVE  hist'[c][i].stamp + last.sec[c].stamp < 2 * last.prim * Period + last.bias[c]
    <3>1. hist'[c][i] # new
      BY <1>3, <1>4, <2>2, <2>4
    <3>2. i + d \in DOMAIN hist[c] /\ hist'[c][i] = hist[c][i + d]
      BY <1>10, <3>1
    <3> QED BY <2>4, <3>2 DEF LastOK
  <2>5. last.prim < nextPrim /\ (pending # NONE => last.prim < pending)
    BY DEF LastOK
  <2>6. last.sec[c].at < nextSec'[c]
    BY <1>3, <1>6, <2>2
  <2>7. ASSUME NEW b \in Secs, b # c
        PROVE  /\ last.sec[b].at < nextSec'[b]
               /\ \/ \A i \in DOMAIN hist'[b] : last.sec[b].at < hist'[b][i].at
                  \/ \E k \in DOMAIN hist'[b] : hist'[b][k] = last.sec[b]
               /\ \A i \in DOMAIN hist'[b] :
                    hist'[b][i].at < last.sec[b].at =>
                      hist'[b][i].stamp + last.sec[b].stamp < 2 * last.prim * Period + last.bias[b]
    BY <1>6, <2>7 DEF LastOK
  <2> QED BY <1>1, <2>3, <2>4, <2>5, <2>6, <2>7 DEF LastOK
<1> QED BY <1>12, <1>13, <1>15, <1>16

LEMMA LoseStep ==
  ASSUME PairingInv, Lose
  PROVE  PairingInv'
<1> USE DEF PairingInv
<1>1. /\ clean' = FALSE /\ mishaps' \in 0..Mishaps
      /\ UNCHANGED <<recording, pending, hist, est, dropped, images, committed, ended, last>>
  BY DEF Lose, Mishap, TypeOK, ledger
<1>2. /\ nextPrim' \in 0..Triggers /\ nextPrim' >= nextPrim
      /\ nextSec' \in [Secs -> 0..Triggers] /\ \A c \in Secs : nextSec'[c] >= nextSec[c]
  <2>1. CASE nextPrim < Triggers /\ nextPrim' = nextPrim + 1 /\ UNCHANGED nextSec
    BY <2>1 DEF TypeOK
  <2>2. ASSUME NEW c \in Secs, SecondaryNext(c), UNCHANGED nextPrim
        PROVE  /\ nextPrim' \in 0..Triggers /\ nextPrim' >= nextPrim
               /\ nextSec' \in [Secs -> 0..Triggers]
               /\ \A b \in Secs : nextSec'[b] >= nextSec[b]
    BY <2>2 DEF SecondaryNext, TypeOK
  <2> QED BY <2>1, <2>2 DEF Lose
<1>3. clean' \in BOOLEAN
  BY <1>1
<1>4. TypeOK'
  BY <1>1, <1>2, <1>3 DEF TypeOK
<1>5. CountOK' /\ AllAccounted'
  BY <1>1, <1>2 DEF CountOK, AllAccounted, LastDiscarded, TypeOK
<1>6. \A c \in Secs : nextSec[c] \in Nat /\ nextSec'[c] \in Nat
  BY <1>2 DEF TypeOK
<1>7. \A c \in Secs : \A i \in DOMAIN hist[c] : hist[c][i].at \in Nat
  <2>1. \A c \in Secs : hist[c] \in Seq(Images)
    BY DEF TypeOK
  <2>2. \A c \in Secs : \A i \in DOMAIN hist[c] : hist[c][i] \in Images
    BY <2>1
  <2> QED BY <2>2 DEF Images
<1>8. HistOK'
  BY <1>1, <1>2, <1>6, <1>7 DEF HistOK
<1>9. LastOK'
  <2> SUFFICES ASSUME last # NONE PROVE LastOK'
    BY <1>1 DEF LastOK
  <2>1. last \in Frames /\ last.prim \in Nat /\ \A c \in Secs : last.sec[c].at \in Nat
    BY DEF TypeOK, Frames, Images
  <2>2. nextPrim \in Nat /\ nextPrim' \in Nat
    BY <1>2 DEF TypeOK
  <2> QED BY <1>1, <1>2, <1>6, <2>1, <2>2 DEF LastOK
<1> QED BY <1>4, <1>5, <1>8, <1>9

LEMMA EpisodeStep ==
  ASSUME PairingInv, Start \/ Stop
  PROVE  PairingInv'
<1> USE DEF PairingInv
<1>1. CASE Start
  <2>1. /\ recording' = TRUE /\ pending' = NONE /\ dropped' = 0
        /\ images' = 0 /\ committed' = 0 /\ ended' = NONE
        /\ UNCHANGED <<hist, est, last, nextPrim, nextSec, clean, mishaps>>
    BY <1>1 DEF Start, external
  <2>2. recording' \in BOOLEAN
    BY <2>1
  <2>3. TypeOK'
    BY <2>1, <2>2 DEF TypeOK
  <2>4. CountOK' /\ AllAccounted' /\ HistOK' /\ LastOK'
    BY <2>1 DEF CountOK, AllAccounted, HistOK, LastOK, TypeOK
  <2> QED BY <2>3, <2>4
<1>2. CASE Stop
  <2>1. /\ recording /\ recording' = FALSE /\ pending' = NONE /\ ended' = pending
        /\ clean' = (clean /\ \A c \in Secs : nextSec[c] >= nextPrim)
        /\ UNCHANGED <<hist, dropped, images, nextPrim, nextSec>>
    BY <1>2 DEF Stop
  <2>2. recording' \in BOOLEAN /\ clean' \in BOOLEAN
    BY <2>1
  <2>3. CountOK' /\ HistOK'
    BY <2>1 DEF CountOK, HistOK, TypeOK
  <2>4. CASE Matches
    <3>1. Commit
      BY <1>2, <2>4 DEF Stop
    <3>2. LastOK'
      <4>1. nextPrim' \in Nat /\ nextPrim' >= nextPrim
        BY <2>1 DEF TypeOK
      <4> QED BY <2>1, <2>4, <3>1, <4>1, CommitLastOK
    <3>3. /\ est' \in [Secs -> Seq(Int)] /\ \A c \in Secs : Len(est'[c]) <= Window
          /\ last' \in Frames /\ last' # NONE /\ last'.prim = pending
          /\ mishaps' \in 0..Mishaps /\ committed' = committed + 1
      BY <2>4, <3>1, CommitResult
    <3>4. TypeOK'
      BY <2>1, <2>2, <3>3 DEF TypeOK
    <3>5. AllAccounted'
      <4>1. pending # NONE /\ ~LastDiscarded'
        BY <2>1, <2>4, <3>3 DEF LastDiscarded, Matches
      <4> QED BY <2>1, <3>3, <4>1 DEF AllAccounted, TypeOK
    <3> QED BY <2>3, <3>2, <3>4, <3>5
  <2>5. CASE ~Matches
    <3>1. UNCHANGED <<est, last, committed, mishaps>>
      BY <1>2, <2>5 DEF Stop, NoFrame
    <3>2. TypeOK'
      BY <2>1, <2>2, <3>1 DEF TypeOK
    <3>3. LastOK'
      BY <2>1, <3>1 DEF LastOK
    <3>4. AllAccounted'
      <4>1. LastDiscarded' <=> pending # NONE
        <5>1. CASE pending # NONE /\ last # NONE
          <6>1. last.prim < pending /\ last.prim \in Nat /\ pending \in Nat
            BY <5>1 DEF LastOK, TypeOK, Frames
          <6> QED BY <2>1, <3>1, <5>1, <6>1 DEF LastDiscarded
        <5> QED BY <2>1, <3>1, <5>1 DEF LastDiscarded
      <4> QED BY <2>1, <3>1, <4>1 DEF AllAccounted, TypeOK
    <3> QED BY <2>3, <3>2, <3>3, <3>4
  <2> QED BY <2>4, <2>5
<1> QED BY <1>1, <1>2

-----------------------------------------------------------------------------
(* The trigger that a camera's images are taken from *)

\* What KeepsTrigger needs: an image is stamped within the period of its trigger, the jitter
\* of a camera is less than half a period, and its last three images are remembered.
Steady ==
  /\ \A o \in Offsets : 0 <= o /\ o < Period
  /\ \A o, p \in Offsets : 2 * (o - p) < Period
  /\ Hist >= 3

\* The offset of an image k triggers away from the primary's.
InCluster(e, k) == \E o \in Offsets : e = o + k * Period

Sides == {0, -1}

\* How many of the known offsets are from images k triggers away.
Members(s, k) == {i \in DOMAIN s : InCluster(s[i], k)}
Count(s, k) == Cardinality(Members(s, k))

Other(k) == -1 - k

\* While nothing was lost or late, of a camera: its history is contiguous up to its newest
\* image; the known offsets are those of images of the trigger or of the one before; and once
\* the bias is used most of them are on the side of the last frame.
CleanCam(c) ==
  /\ Len(hist[c]) = IF nextSec[c] < Hist THEN nextSec[c] ELSE Hist
  /\ \A i \in DOMAIN hist[c] : hist[c][i].at = nextSec[c] - Len(hist[c]) + i - 1
  /\ \A i \in DOMAIN est[c] : \E k \in Sides : InCluster(est[c][i], k)
  /\ last = NONE => est[c] = <<>>
  /\ last # NONE =>
       \E k \in Sides :
         /\ last.sec[c].at = last.prim + k
         /\ Len(est[c]) > Learn => Count(est[c], Other(k)) < Count(est[c], k)

\* The pending image is the newest of the primary, and the cameras are as CleanCam says.
CleanOK ==
  /\ ~recording => pending = NONE
  /\ \A c \in Secs : nextSec[c] <= nextPrim + 1
  /\ clean => (pending # NONE => pending = nextPrim - 1) /\ \A c \in Secs : CleanCam(c)

\* The clusters are apart, and the one of the image before lies below.
LEMMA ClustersApart ==
  ASSUME NEW e \in Int, NEW f \in Int, InCluster(e, -1), InCluster(f, 0)
  PROVE  e < f
<1>1. PICK o \in Offsets : e = o + (-1) * Period
  BY DEF InCluster
<1>2. PICK p \in Offsets : f = p + 0 * Period
  BY DEF InCluster
<1>3. o \in Int /\ p \in Int /\ o < p + Period
  OBVIOUS
<1> QED BY <1>1, <1>2, <1>3

LEMMA MembersFinite ==
  ASSUME NEW s \in Seq(Int), NEW k \in Sides
  PROVE  /\ Members(s, k) \in SUBSET (1..Len(s)) /\ IsFiniteSet(Members(s, k))
         /\ Count(s, k) \in Nat /\ Count(s, k) <= Len(s)
<1>1. Members(s, k) \in SUBSET (1..Len(s))
  BY DEF Members
<1> QED BY <1>1, IndicesCounted, FS_Subset, FS_CardinalityType DEF Count

\* Every offset is on one of the two sides.
LEMMA CountAll ==
  ASSUME NEW s \in Seq(Int),
         \A i \in DOMAIN s : \E k \in Sides : InCluster(s[i], k)
  PROVE  Count(s, 0) + Count(s, -1) = Len(s)
<1>1. Members(s, 0) \cup Members(s, -1) = 1..Len(s)
  BY DEF Members, Sides
<1>2. Members(s, 0) \cap Members(s, -1) = {}
  <2>1. ASSUME NEW i \in DOMAIN s, InCluster(s[i], 0), InCluster(s[i], -1) PROVE FALSE
    <3>1. s[i] \in Int
      OBVIOUS
    <3> QED BY <2>1, <3>1, ClustersApart
  <2> QED BY <2>1 DEF Members
<1>3. IsFiniteSet(Members(s, 0)) /\ IsFiniteSet(Members(s, -1))
  BY MembersFinite DEF Sides
<1>4. Cardinality(Members(s, 0) \cap Members(s, -1)) = 0
  BY <1>2, FS_EmptySet
<1>5. Cardinality(Members(s, 0) \cup Members(s, -1)) =
        Cardinality(Members(s, 0)) + Cardinality(Members(s, -1))
          - Cardinality(Members(s, 0) \cap Members(s, -1))
  BY <1>3, FS_Union
<1>6. Count(s, 0) \in Nat /\ Count(s, -1) \in Nat
  BY MembersFinite DEF Sides
<1>7. Cardinality(Members(s, 0) \cup Members(s, -1)) = Len(s)
  BY <1>1, IndicesCounted
<1>8. Len(s) = Count(s, 0) + Count(s, -1) - 0
  BY <1>4, <1>5, <1>7 DEF Count
<1> QED BY <1>6, <1>8

\* The element of a middle rank is on the side where most of the elements are.
LEMMA MiddleRank ==
  ASSUME NEW s \in Seq(Int), NEW r \in 1..Len(s),
         \A i \in DOMAIN s : \E k \in Sides : InCluster(s[i], k),
         NEW k \in Sides, Count(s, Other(k)) < Count(s, k),
         r \in {(Len(s) + 1) \div 2, Len(s) \div 2 + 1}
  PROVE  InCluster(Ranked(s, r), k)
<1> DEFINE x == Ranked(s, r)
<1>1. /\ x \in {s[i] : i \in DOMAIN s}
      /\ Cardinality({i \in DOMAIN s : s[i] < x}) < r
      /\ r <= Cardinality({i \in DOMAIN s : s[i] <= x})
  BY RankedResult
<1> HIDE DEF x
<1>2. PICK m \in DOMAIN s : x = s[m]
  BY <1>1
<1>3. /\ \A i \in DOMAIN s : s[i] \in Int /\ x \in Int
      /\ Len(s) \in Nat /\ r \in Nat
  BY <1>2
<1>4. /\ Count(s, 0) \in Nat /\ Count(s, -1) \in Nat
      /\ Count(s, 0) + Count(s, -1) = Len(s)
  BY MembersFinite, CountAll DEF Sides
<1> DEFINE n == Len(s)
<1>0. n \in Nat /\ 2 * r >= n /\ 2 * r <= n + 2
  <2>1. r = (n + 1) \div 2 \/ r = n \div 2 + 1
    OBVIOUS
  <2>2. n \in Nat
    OBVIOUS
  <2> HIDE DEF n
  <2> QED BY <2>1, <2>2
<1>5. CASE k = 0
  <2> SUFFICES ASSUME InCluster(x, -1) PROVE FALSE
    BY <1>2, <1>5 DEF Sides, x
  <2>1. {i \in DOMAIN s : s[i] <= x} \in SUBSET Members(s, -1)
    <3>1. ASSUME NEW i \in DOMAIN s, s[i] <= x PROVE InCluster(s[i], -1)
      <4>1. ~InCluster(s[i], 0)
        BY <1>3, <3>1, ClustersApart
      <4> QED BY <4>1 DEF Sides
    <3> QED BY <3>1 DEF Members
  <2>2. Cardinality({i \in DOMAIN s : s[i] <= x}) <= Count(s, -1)
    BY <2>1, MembersFinite, FS_Subset DEF Count, Sides
  <2>3. Cardinality({i \in DOMAIN s : s[i] <= x}) \in Nat
    BY <2>1, MembersFinite, FS_Subset, FS_CardinalityType DEF Sides
  <2>4. Count(s, -1) < Count(s, 0)
    BY <1>5 DEF Other
  <2>5. r <= Count(s, -1)
    BY <1>1, <1>3, <1>4, <2>2, <2>3
  <2> QED BY <1>3, <1>4, <1>0, <2>4, <2>5
<1>6. CASE k = -1
  <2> SUFFICES ASSUME InCluster(x, 0) PROVE FALSE
    BY <1>2, <1>6 DEF Sides, x
  <2> DEFINE L == {i \in DOMAIN s : s[i] < x}
  <2>1. Members(s, -1) \in SUBSET L
    <3>1. ASSUME NEW i \in DOMAIN s, InCluster(s[i], -1) PROVE s[i] < x
      BY <1>3, <3>1, ClustersApart
    <3> QED BY <3>1 DEF Members
  <2>2. IsFiniteSet(L) /\ Cardinality(L) \in Nat
    <3>1. L \in SUBSET (1..Len(s))
      OBVIOUS
    <3> HIDE DEF L
    <3> QED BY <3>1, IndicesCounted, FS_Subset, FS_CardinalityType
  <2>3. Cardinality(L) < r
    BY <1>1
  <2> HIDE DEF L
  <2>4. Count(s, -1) <= Cardinality(L)
    BY <2>1, <2>2, FS_Subset DEF Count
  <2>5. Count(s, 0) < Count(s, -1)
    BY <1>6 DEF Other
  <2>6. Count(s, -1) < r
    BY <1>3, <1>4, <2>2, <2>3, <2>4
  <2> QED BY <1>3, <1>4, <1>0, <2>5, <2>6
<1> QED BY <1>5, <1>6 DEF Sides

\* The doubled median is the sum of two offsets, and of two on the side of the most.
LEMMA MedianSides ==
  ASSUME NEW s \in Seq(Int), Len(s) >= 1,
         \A i \in DOMAIN s : \E k \in Sides : InCluster(s[i], k)
  PROVE  \E j, k \in Sides : \E o, p \in Offsets :
           /\ Median2(s) = o + j * Period + p + k * Period
           /\ \A m \in Sides : Count(s, Other(m)) < Count(s, m) => j = m /\ k = m
<1> DEFINE r1 == (Len(s) + 1) \div 2
           r2 == Len(s) \div 2 + 1
           x == Ranked(s, r1)
           y == Ranked(s, r2)
<1>1. r1 \in 1..Len(s) /\ r2 \in 1..Len(s)
  OBVIOUS
<1>2. x \in {s[i] : i \in DOMAIN s} /\ y \in {s[i] : i \in DOMAIN s}
  <2> HIDE DEF r1, r2
  <2> QED BY <1>1, RankedResult
<1>3. \A m \in Sides : Count(s, Other(m)) < Count(s, m) => InCluster(x, m) /\ InCluster(y, m)
  BY <1>1, MiddleRank
<1>4. Median2(s) = x + y
  BY DEF Median2
<1> HIDE DEF x, y, r1, r2
<1>5. x \in Int /\ y \in Int
  BY <1>2
<1>6. PICK j \in Sides : InCluster(x, j)
  BY <1>2
<1>7. PICK k \in Sides : InCluster(y, k)
  BY <1>2
<1>8. \A e \in Int : ~(InCluster(e, 0) /\ InCluster(e, -1))
  BY ClustersApart
<1>9. \A m \in Sides : Count(s, Other(m)) < Count(s, m) => j = m /\ k = m
  BY <1>3, <1>5, <1>6, <1>7, <1>8 DEF Sides
<1>10. PICK o \in Offsets : x = o + j * Period
  BY <1>6 DEF InCluster
<1>11. PICK p \in Offsets : y = p + k * Period
  BY <1>7 DEF InCluster
<1>12. Median2(s) = o + j * Period + p + k * Period
  <2>1. j * Period \in Int /\ k * Period \in Int /\ o \in Int /\ p \in Int
    BY DEF Sides
  <2> QED BY <1>4, <1>10, <1>11, <2>1
<1> QED BY <1>9, <1>12

\* What a push does to the counts: the side of the new offset does not lose, the other one
\* does not gain, and nothing is lost while the queue still grows.
LEMMA PushCount ==
  ASSUME NEW s \in Seq(Int), NEW x \in Int, NEW n \in Nat \ {0}, Len(s) <= n,
         NEW k \in Sides, InCluster(x, k)
  PROVE  /\ Count(Push(s, x, n), k) >= Count(s, k)
         /\ Count(Push(s, x, n), Other(k)) <= Count(s, Other(k))
         /\ Len(Push(s, x, n)) > Len(s) => Count(Push(s, x, n), k) > Count(s, k)
<1> DEFINE q == Push(s, x, n)
<1>1. /\ q \in Seq(Int)
      /\ Shifted(s, q, x, 0) \/ Shifted(s, q, x, 1)
  BY PushResult
<1> HIDE DEF q
<1>2. PICK d \in {0, 1} :
        /\ Len(q) = Len(s) + 1 - d
        /\ d = 1 => Len(s) >= 1
        /\ \A i \in 1..Len(s) - d : q[i] = s[i + d]
        /\ q[Len(s) + 1 - d] = x
  BY <1>1 DEF Shifted
<1>3. /\ DOMAIN s = 1..Len(s) /\ DOMAIN q = 1..Len(q)
      /\ Len(s) \in Nat /\ Len(q) \in Nat /\ d \in Nat
  BY <1>1, <1>2
<1>4. Other(k) \in Sides /\ ~InCluster(x, Other(k))
  BY ClustersApart DEF Sides, Other
<1>5. /\ IsFiniteSet(Members(s, k)) /\ IsFiniteSet(Members(q, k))
      /\ IsFiniteSet(Members(s, Other(k))) /\ IsFiniteSet(Members(q, Other(k)))
      /\ Count(s, k) \in Nat /\ Count(q, k) \in Nat
      /\ Count(s, Other(k)) \in Nat /\ Count(q, Other(k)) \in Nat
  BY <1>1, <1>4, MembersFinite
<1>6. Count(q, Other(k)) <= Count(s, Other(k))
  <2> DEFINE S == Members(q, Other(k))
             T == Members(s, Other(k))
             f == [i \in S |-> i + d]
  <2>1. ASSUME NEW i \in S PROVE i + d \in T
    <3>1. i \in 1..Len(q) /\ InCluster(q[i], Other(k))
      BY <1>3 DEF Members
    <3>2. i # Len(s) + 1 - d
      BY <1>2, <1>4, <3>1
    <3>3. i \in 1..Len(s) - d /\ i + d \in 1..Len(s)
      BY <1>2, <1>3, <3>1, <3>2
    <3>4. q[i] = s[i + d]
      BY <1>2, <3>3
    <3> QED BY <1>3, <3>1, <3>3, <3>4 DEF Members
  <2>2. S \in SUBSET Nat
    BY <1>3 DEF Members
  <2>3. f \in Injection(S, T)
    <3>1. f \in [S -> T]
      BY <2>1
    <3>2. \A a, b \in S : f[a] = f[b] => a = b
      BY <1>3, <2>2
    <3> HIDE DEF f, S, T
    <3> QED BY <3>1, <3>2 DEF Injection, IsInjective
  <2>4. Cardinality(S) <= Cardinality(T)
    <3> HIDE DEF f
    <3> QED BY <1>5, <2>3, FS_Injection
  <2> QED BY <2>4 DEF Count
<1>7. Count(q, k) >= Count(s, k)
  <2> DEFINE S == Members(s, k)
             T == Members(q, k)
             f == [i \in S |-> IF i > d THEN i - d ELSE Len(q)]
  <2>1. Len(q) \in T
    BY <1>2, <1>3 DEF Members
  <2>2. ASSUME NEW i \in S, i > d PROVE i - d \in T /\ i - d < Len(q)
    <3>1. i \in 1..Len(s) /\ InCluster(s[i], k)
      BY <1>3 DEF Members
    <3>2. i - d \in 1..Len(s) - d /\ (i - d) + d = i
      BY <1>3, <2>2, <3>1
    <3>3. q[i - d] = s[i]
      BY <1>2, <3>2
    <3>4. i - d \in 1..Len(q) /\ i - d < Len(q)
      <4>1. Len(q) = Len(s) + 1 - d
        BY <1>2
      <4> QED BY <1>3, <3>1, <2>2, <4>1
    <3> QED BY <1>3, <3>1, <3>3, <3>4 DEF Members
  <2>3. S \in SUBSET (Nat \ {0})
    BY <1>3 DEF Members
  <2>4. f \in Injection(S, T)
    <3>1. f \in [S -> T]
      BY <2>1, <2>2
    <3>2. ASSUME NEW a \in S, NEW b \in S, f[a] = f[b] PROVE a = b
      <4>1. CASE a > d /\ b > d
        BY <1>3, <2>3, <3>2, <4>1
      <4>2. CASE a > d /\ ~(b > d)
        BY <1>3, <2>2, <2>3, <3>2, <4>2
      <4>3. CASE ~(a > d) /\ b > d
        BY <1>3, <2>2, <2>3, <3>2, <4>3
      <4>4. CASE ~(a > d) /\ ~(b > d)
        BY <1>2, <1>3, <2>3, <4>4
      <4> QED BY <4>1, <4>2, <4>3, <4>4
    <3> HIDE DEF f, S, T
    <3> QED BY <3>1, <3>2 DEF Injection, IsInjective
  <2>5. Cardinality(S) <= Cardinality(T)
    <3> HIDE DEF f
    <3> QED BY <1>5, <2>4, FS_Injection
  <2> QED BY <1>5, <2>5 DEF Count
<1>8. ASSUME Len(q) > Len(s) PROVE Count(q, k) > Count(s, k)
  <2>1. d = 0 /\ Len(q) = Len(s) + 1
    BY <1>2, <1>3, <1>8
  <2>2. Members(q, k) = Members(s, k) \cup {Len(q)}
    BY <1>2, <1>3, <2>1 DEF Members
  <2>3. Len(q) \notin Members(s, k)
    BY <1>3, <2>1 DEF Members
  <2>4. Cardinality(Members(q, k)) = Cardinality(Members(s, k)) + 1
    BY <1>5, <2>2, <2>3, FS_AddElement
  <2> QED BY <1>5, <2>4 DEF Count
<1> QED BY <1>6, <1>7, <1>8 DEF q

LEMMA Multiples ==
  ASSUME NEW a \in Int, NEW t \in Int
  PROVE  /\ a * Period \in Int /\ t * Period \in Int
         /\ a >= t + 1 => a * Period >= t * Period + Period
         /\ a <= t - 2 => a * Period <= t * Period - 2 * Period
         /\ a = t - 1 => a * Period = t * Period - Period
<1>1. ASSUME a >= t + 1 PROVE a * Period >= t * Period + Period
  <2>1. (a - t - 1) * Period >= 0
    BY <1>1, a - t - 1 >= 0
  <2>2. (a - t - 1) * Period = a * Period - t * Period - Period
    OBVIOUS
  <2> QED BY <2>1, <2>2
<1>2. ASSUME a <= t - 2 PROVE a * Period <= t * Period - 2 * Period
  <2>1. (t - 2 - a) * Period >= 0
    BY <1>2, t - 2 - a >= 0
  <2>2. (t - 2 - a) * Period = t * Period - 2 * Period - a * Period
    OBVIOUS
  <2> QED BY <2>1, <2>2
<1>3. ASSUME a = t - 1 PROVE a * Period = t * Period - Period
  BY <1>3
<1>4. a * Period \in Int /\ t * Period \in Int
  OBVIOUS
<1> QED BY <1>1, <1>2, <1>3, <1>4

\* Twice the distance of the image of trigger e with offset x from where a frame of trigger t
\* with the doubled bias b looks.
Apart(t, b, e, x) == Dist(2 * (e * Period + x), 2 * (t * Period) + b)

\* The doubled bias b is the sum of two offsets, m of them of the image before.
Biased(b, m) == \E o, p \in Offsets : b = o + p - m * Period

\* The image that is nearest for a bias b is that of the trigger t or of the one before, and
\* where the bias is the sum of two offsets of one side, that side's.
LEMMA NearestSide ==
  ASSUME Steady, NEW t \in Int, NEW a \in Int, NEW b \in Int,
         NEW q \in Offsets, NEW r \in Offsets
  PROVE  /\ Apart(t, b, a, q) <= Apart(t, b, t, r) =>
              /\ b = 0 \/ Biased(b, 1) => a \in {t, t - 1}
              /\ Biased(b, 0) => a = t
         /\ Apart(t, b, a, q) <= Apart(t, b, t - 1, r) =>
              (Biased(b, 2) => a = t - 1)
<1> DEFINE A == a * Period
           T == t * Period
           U == (t - 1) * Period
<1>1. /\ A \in Int /\ T \in Int /\ U \in Int
      /\ a >= t + 1 => A >= T + Period
      /\ a <= t - 2 => A <= T - 2 * Period
      /\ a = t - 1 => A = T - Period
      /\ U = T - Period
  BY Multiples
<1>2. q \in Int /\ r \in Int /\ 0 <= q /\ q < Period /\ 0 <= r /\ r < Period
  BY DEF Steady
<1>7. \A o, p \in Offsets :
        /\ o \in Int /\ p \in Int
        /\ 2 * (q - o) < Period /\ 2 * (q - p) < Period
        /\ 2 * (o - q) < Period /\ 2 * (p - q) < Period
        /\ 2 * (r - o) < Period /\ 2 * (r - p) < Period
        /\ 2 * (o - r) < Period /\ 2 * (p - r) < Period
  BY DEF Steady
<1> HIDE DEF A, T, U
<1>3. ASSUME b = 0, Dist(2 * (A + q), 2 * T + b) <= Dist(2 * (T + r), 2 * T + b)
      PROVE  a \in {t, t - 1}
  <2>1. ~(a >= t + 1)
    BY <1>1, <1>2, <1>3 DEF Dist
  <2>2. ~(a <= t - 2)
    BY <1>1, <1>2, <1>3 DEF Dist
  <2> QED BY <2>1, <2>2
<1>4. ASSUME NEW o \in Offsets, NEW p \in Offsets, b = o + p - Period,
             Dist(2 * (A + q), 2 * T + b) <= Dist(2 * (T + r), 2 * T + b)
      PROVE  a \in {t, t - 1}
  <2>1. ~(a >= t + 1)
    BY <1>1, <1>2, <1>4, <1>7 DEF Dist
  <2>2. ~(a <= t - 2)
    BY <1>1, <1>2, <1>4, <1>7 DEF Dist
  <2> QED BY <2>1, <2>2
<1>5. ASSUME NEW o \in Offsets, NEW p \in Offsets, b = o + p,
             Dist(2 * (A + q), 2 * T + b) <= Dist(2 * (T + r), 2 * T + b)
      PROVE  a = t
  <2>1. ~(a >= t + 1)
    BY <1>1, <1>2, <1>5, <1>7 DEF Dist
  <2>2. ~(a <= t - 2) /\ a # t - 1
    BY <1>1, <1>2, <1>5, <1>7 DEF Dist
  <2> QED BY <2>1, <2>2
<1>6. ASSUME NEW o \in Offsets, NEW p \in Offsets, b = o + p - 2 * Period,
             Dist(2 * (A + q), 2 * T + b) <= Dist(2 * (U + r), 2 * T + b)
      PROVE  a = t - 1
  <2>1. ~(a >= t + 1)
    BY <1>1, <1>2, <1>6, <1>7 DEF Dist
  <2>2. ~(a <= t - 2)
    BY <1>1, <1>2, <1>6, <1>7 DEF Dist
  <2>3. a # t
    <3>1. a = t => A = T
      BY DEF A, T
    <3> QED BY <1>1, <1>2, <1>6, <1>7, <3>1 DEF Dist
  <2> QED BY <2>1, <2>2, <2>3
<1>8. \A o, p \in Offsets :
        o + p - 1 * Period = o + p - Period /\ o + p - 0 * Period = o + p
  BY <1>7
<1>9. /\ Apart(t, b, a, q) = Dist(2 * (A + q), 2 * T + b)
      /\ Apart(t, b, t, r) = Dist(2 * (T + r), 2 * T + b)
      /\ Apart(t, b, t - 1, r) = Dist(2 * (U + r), 2 * T + b)
  BY DEF A, T, U, Apart
<1>10. ASSUME Apart(t, b, a, q) <= Apart(t, b, t, r)
       PROVE  /\ b = 0 \/ Biased(b, 1) => a \in {t, t - 1}
              /\ Biased(b, 0) => a = t
  BY <1>3, <1>4, <1>5, <1>8, <1>9, <1>10 DEF Biased
<1>11. ASSUME Apart(t, b, a, q) <= Apart(t, b, t - 1, r), Biased(b, 2)
       PROVE  a = t - 1
  BY <1>6, <1>9, <1>11 DEF Biased
<1> QED BY <1>10, <1>11

\* The images of the pending trigger and of the one before are still in the history.
LEMMA ImageThere ==
  ASSUME PairingInv, CleanOK, Steady, clean, pending # NONE, NEW c \in Secs,
         nextSec[c] >= nextPrim, NEW a \in {pending, pending - 1}, a >= 0
  PROVE  \E i \in DOMAIN hist[c] : hist[c][i].at = a
<1> DEFINE l == Len(hist[c])
           n == nextSec[c]
           i == a - n + l + 1
<1>1. /\ hist[c] \in Seq(Images) /\ n \in Nat /\ Hist \in Nat
      /\ pending \in Nat /\ nextPrim \in Nat
  BY DEF PairingInv, TypeOK
<1>2. l \in Nat /\ DOMAIN hist[c] = 1..l
  BY <1>1
<1>3. /\ n <= nextPrim + 1 /\ pending = nextPrim - 1
      /\ l = IF n < Hist THEN n ELSE Hist
      /\ \A j \in DOMAIN hist[c] : hist[c][j].at = n - l + j - 1
  BY DEF CleanOK, CleanCam
<1>4. n >= nextPrim /\ Hist >= 3
  BY DEF Steady
<1> HIDE DEF l, n
<1>5. i \in 1..l /\ n - l + i - 1 = a
  <2>1. a \in Nat /\ nextPrim - 2 <= a /\ a <= nextPrim - 1
    BY <1>1, <1>3
  <2>2. n - l <= a /\ a <= n - 1
    BY <1>1, <1>3, <1>4, <2>1
  <2> QED BY <1>1, <1>2, <2>1, <2>2
<1>6. hist[c][i].at = n - l + i - 1
  BY <1>2, <1>3, <1>5
<1> QED BY <1>2, <1>5, <1>6

\* The doubled bias is 0 or the sum of two offsets, and of two on the side of the most.
LEMMA BiasSides ==
  ASSUME TypeOK, NEW c \in Secs,
         \A i \in DOMAIN est[c] : \E k \in Sides : InCluster(est[c][i], k)
  PROVE  \/ Len(est[c]) < Learn /\ Bias2(c) = 0
         \/ /\ Len(est[c]) >= Learn
            /\ \E j, k \in Sides : \E o, p \in Offsets :
                 /\ Bias2(c) = o + j * Period + p + k * Period
                 /\ \A m \in Sides :
                      Count(est[c], Other(m)) < Count(est[c], m) => j = m /\ k = m
<1>1. est[c] \in Seq(Int) /\ Len(est[c]) \in Nat /\ Learn \in Nat \ {0}
  BY DEF TypeOK
<1>2. CASE Len(est[c]) < Learn
  BY <1>1, <1>2 DEF Bias2
<1>3. CASE Len(est[c]) >= Learn
  <2>1. Len(est[c]) >= 1 /\ Bias2(c) = Median2(est[c])
    BY <1>1, <1>3 DEF Bias2
  <2>2. \E j, k \in Sides : \E o, p \in Offsets :
          /\ Median2(est[c]) = o + j * Period + p + k * Period
          /\ \A m \in Sides : Count(est[c], Other(m)) < Count(est[c], m) => j = m /\ k = m
    BY <1>1, <2>1, MedianSides
  <2> QED BY <1>3, <2>1, <2>2
<1> QED BY <1>1, <1>2, <1>3

\* Which image a frame takes while nothing was lost: that of the frame's trigger or of the one
\* before, and where most of the known offsets are on one side, that side's.
LEMMA ChosenSide ==
  ASSUME PairingInv, CleanOK, Steady, clean, Matches, Commit, NEW c \in Secs,
         nextSec[c] >= nextPrim
  PROVE  \E k \in Sides :
           /\ last'.sec[c].at = pending + k
           /\ InCluster(Best(c).stamp - pending * Period, k)
           /\ Len(est[c]) >= Learn =>
                \A m \in Sides : Count(est[c], Other(m)) < Count(est[c], m) => k = m
<1> USE DEF PairingInv
<1> DEFINE b == Bias2(c)
           t == pending
           a == Best(c).at
<1>1. pending # NONE /\ t \in Nat /\ hist[c] # <<>>
  BY DEF Matches, TypeOK
<1>2. b \in Int
  BY Bias2Type
<1>3. /\ Nearest(c) \in DOMAIN hist[c] /\ Best(c) = hist[c][Nearest(c)]
      /\ \A i \in DOMAIN hist[c] : Far2(c, Nearest(c)) <= Far2(c, i)
  BY <1>1, NearestResult DEF Best
<1>4. PICK q \in Offsets : Best(c).stamp = a * Period + q
  BY <1>3 DEF HistOK
<1>5. a \in Int
  BY <1>1, <1>3, Far2Type
<1>6. \A i \in DOMAIN hist[c] : Far2(c, i) = Dist(2 * hist[c][i].stamp, 2 * (t * Period) + b)
  BY <1>1, Far2Type DEF Centre
<1>7. ASSUME NEW e \in {t, t - 1}, e >= 0
      PROVE  \E r \in Offsets : Apart(t, b, a, q) <= Apart(t, b, e, r)
  <2>1. PICK i \in DOMAIN hist[c] : hist[c][i].at = e
    BY <1>1, <1>7, ImageThere
  <2>2. PICK r \in Offsets : hist[c][i].stamp = e * Period + r
    BY <2>1 DEF HistOK
  <2>3. Far2(c, i) = Apart(t, b, e, r)
    BY <1>6, <2>2 DEF Apart
  <2>4. Far2(c, Nearest(c)) = Apart(t, b, a, q)
    BY <1>3, <1>4, <1>6 DEF Apart
  <2> QED BY <1>3, <2>3, <2>4
<1>8. PICK r \in Offsets : Apart(t, b, a, q) <= Apart(t, b, t, r)
  BY <1>1, <1>7
<1>9. /\ \A i \in DOMAIN est[c] : \E k \in Sides : InCluster(est[c][i], k)
      /\ last = NONE => est[c] = <<>>
  BY DEF CleanOK, CleanCam
<1>10. last'.sec[c].at = a
  BY DEF Commit
<1>11. ASSUME NEW k \in Sides, a = t + k
       PROVE  InCluster(Best(c).stamp - pending * Period, k)
  <2>1. a * Period = t * Period + k * Period
    BY <1>1, <1>11 DEF Sides
  <2>2. t * Period \in Int /\ k * Period \in Int /\ q \in Int
    BY <1>1 DEF Sides
  <2> QED BY <1>4, <2>1, <2>2 DEF InCluster
<1>16. t \in Int
  BY <1>1
<1> HIDE DEF a, b, t
<1>12. CASE Len(est[c]) < Learn /\ b = 0
  <2>1. a \in {t, t - 1}
    BY <1>2, <1>5, <1>8, <1>12, <1>16, NearestSide
  <2>2. PICK k \in Sides : a = t + k
    BY <1>1, <2>1 DEF Sides
  <2>3. ~(Len(est[c]) >= Learn)
    BY <1>12 DEF TypeOK
  <2> QED BY <1>10, <1>11, <2>2, <2>3 DEF t
<1>13. ASSUME Len(est[c]) >= Learn, NEW j \in Sides, NEW k \in Sides,
              NEW o \in Offsets, NEW p \in Offsets,
              b = o + j * Period + p + k * Period,
              \A m \in Sides : Count(est[c], Other(m)) < Count(est[c], m) => j = m /\ k = m
       PROVE  \E g \in Sides : a = t + g /\ (j = k => g = k)
  <2>1. t - 1 >= 0
    <3>1. est[c] # <<>>
      BY <1>13
    <3>2. last # NONE /\ last.prim < pending /\ last.prim \in Nat
      BY <1>1, <1>9, <3>1 DEF LastOK, TypeOK, Frames
    <3> QED BY <1>1, <3>2 DEF t
  <2>2. PICK u \in Offsets : Apart(t, b, a, q) <= Apart(t, b, t - 1, u)
    BY <1>1, <1>7, <2>1
  <2>3. o \in Int /\ p \in Int
    OBVIOUS
  <2>4. CASE j = 0 /\ k = 0
    <3>1. Biased(b, 0)
      BY <1>13, <2>3, <2>4 DEF Biased
    <3>2. a = t
      BY <1>2, <1>5, <1>8, <1>16, <3>1, NearestSide
    <3> QED BY <1>1, <2>4, <3>2
  <2>5. CASE j # k
    <3>1. Biased(b, 1)
      <4>1. o + j * Period + p + k * Period = o + p - 1 * Period
        BY <2>3, <2>5 DEF Sides
      <4> QED BY <1>13, <4>1 DEF Biased
    <3>2. a \in {t, t - 1}
      BY <1>2, <1>5, <1>8, <1>16, <3>1, NearestSide
    <3> QED BY <1>1, <2>5, <3>2 DEF Sides
  <2>6. CASE j = -1 /\ k = -1
    <3>1. Biased(b, 2)
      BY <1>13, <2>3, <2>6 DEF Biased
    <3>2. a = t - 1
      BY <1>2, <1>5, <1>16, <2>2, <3>1, NearestSide
    <3> QED BY <1>1, <2>6, <3>2
  <2> QED BY <2>4, <2>5, <2>6 DEF Sides
<1>14. CASE Len(est[c]) >= Learn
  <2>1. PICK j \in Sides, k \in Sides, o \in Offsets, p \in Offsets :
          /\ b = o + j * Period + p + k * Period
          /\ \A m \in Sides : Count(est[c], Other(m)) < Count(est[c], m) => j = m /\ k = m
    <3>1. ~(Len(est[c]) < Learn)
      BY <1>14 DEF TypeOK
    <3> QED BY <1>9, <3>1, BiasSides DEF b
  <2>2. PICK g \in Sides : a = t + g /\ (j = k => g = k)
    BY <1>13, <1>14, <2>1
  <2>3. \A m \in Sides : Count(est[c], Other(m)) < Count(est[c], m) => g = m
    BY <2>1, <2>2
  <2>4. InCluster(Best(c).stamp - pending * Period, g)
    BY <1>11, <2>2
  <2> QED BY <1>10, <2>2, <2>3, <2>4 DEF t
<1>15. (Len(est[c]) < Learn /\ b = 0) \/ Len(est[c]) >= Learn
  BY <1>9, BiasSides DEF b
<1> QED BY <1>12, <1>14, <1>15

\* A frame of a run without losses: its offset is one of the two sides, most of the known
\* offsets are on its side afterwards, and where most were on one side before, on that one.
LEMMA CommitClean ==
  ASSUME PairingInv, CleanOK, Steady, clean, Matches, Commit, NEW c \in Secs,
         nextSec[c] >= nextPrim
  PROVE  /\ \A i \in DOMAIN est'[c] : \E k \in Sides : InCluster(est'[c][i], k)
         /\ \E k \in Sides :
              /\ last'.sec[c].at = last'.prim + k
              /\ Len(est'[c]) > Learn => Count(est'[c], Other(k)) < Count(est'[c], k)
              /\ last # NONE /\ Len(est[c]) > Learn => last.sec[c].at = last.prim + k
<1> USE DEF PairingInv
<1> DEFINE x == Best(c).stamp - pending * Period
           s == est[c]
           q == est'[c]
<1>1. PICK k \in Sides :
        /\ last'.sec[c].at = pending + k
        /\ InCluster(x, k)
        /\ Len(s) >= Learn =>
             \A m \in Sides : Count(s, Other(m)) < Count(s, m) => k = m
  BY ChosenSide
<1>2. x \in Int
  BY <1>1 DEF InCluster, Sides
<1>3. /\ q = Push(s, x, Window) /\ last'.prim = pending
      /\ s \in Seq(Int) /\ Len(s) <= Window /\ Window \in Nat \ {0} /\ Learn \in Nat
  BY DEF Commit, TypeOK
<1>4. /\ \A i \in DOMAIN s : \E g \in Sides : InCluster(s[i], g)
      /\ last = NONE => s = <<>>
      /\ last # NONE =>
           \E g \in Sides :
             /\ last.sec[c].at = last.prim + g
             /\ Len(s) > Learn => Count(s, Other(g)) < Count(s, g)
  BY DEF CleanOK, CleanCam
<1> HIDE DEF x, s, q
<1>5. /\ q \in Seq(Int)
      /\ Shifted(s, q, x, 0) \/ Shifted(s, q, x, 1)
  <2>1. s \in Seq(Int) /\ Len(s) <= Window /\ Window \in Nat \ {0}
    BY <1>3
  <2>2. Push(s, x, Window) \in Seq(Int)
    BY <1>2, <2>1, PushResult
  <2>3. Shifted(s, Push(s, x, Window), x, 0) \/ Shifted(s, Push(s, x, Window), x, 1)
    BY <1>2, <2>1, PushResult
  <2> QED BY <1>3, <2>2, <2>3
<1>6. PICK d \in {0, 1} :
        /\ Len(q) = Len(s) + 1 - d
        /\ \A i \in 1..Len(s) - d : q[i] = s[i + d]
        /\ q[Len(s) + 1 - d] = x
  BY <1>5 DEF Shifted
<1>7. Len(s) \in Nat /\ Len(q) \in Nat /\ DOMAIN s = 1..Len(s) /\ DOMAIN q = 1..Len(q)
  BY <1>3, <1>5
<1>8. ASSUME NEW i \in DOMAIN q PROVE \E g \in Sides : InCluster(q[i], g)
  <2>1. CASE i = Len(s) + 1 - d
    BY <1>1, <1>6, <2>1
  <2>2. CASE i # Len(s) + 1 - d
    <3>1. Len(q) = Len(s) + 1 - d
      BY <1>6
    <3>2. i \in 1..Len(s) - d /\ i + d \in 1..Len(s)
      BY <1>7, <2>2, <3>1
    <3>3. q[i] = s[i + d]
      BY <1>6, <3>2
    <3> QED BY <1>4, <1>7, <3>2, <3>3
  <2> QED BY <2>1, <2>2
<1>9. /\ Count(q, k) >= Count(s, k) /\ Count(q, Other(k)) <= Count(s, Other(k))
      /\ Len(q) > Len(s) => Count(q, k) > Count(s, k)
  BY <1>1, <1>2, <1>3, PushCount
<1>10. Other(k) \in Sides /\ Other(Other(k)) = k /\ Other(k) # k
  BY DEF Sides, Other
<1>11. /\ Count(s, k) \in Nat /\ Count(s, Other(k)) \in Nat
       /\ Count(q, k) \in Nat /\ Count(q, Other(k)) \in Nat
  BY <1>3, <1>5, <1>10, MembersFinite
<1>12. ASSUME last # NONE, Len(s) > Learn
       PROVE  last.sec[c].at = last.prim + k /\ Count(s, Other(k)) < Count(s, k)
  <2>1. PICK g \in Sides : last.sec[c].at = last.prim + g /\ Count(s, Other(g)) < Count(s, g)
    BY <1>4, <1>12
  <2>2. k = g
    BY <1>1, <1>3, <1>7, <1>12, <2>1
  <2> QED BY <2>1, <2>2
<1>13. ASSUME Len(q) > Learn PROVE Count(q, Other(k)) < Count(q, k)
  <2>1. Len(q) = Len(s) + 1 - d /\ Len(s) >= Learn
    BY <1>3, <1>6, <1>7, <1>13
  <2>2. Count(s, Other(k)) <= Count(s, k)
    BY <1>1, <1>10, <1>11, <2>1
  <2>3. CASE Len(q) > Len(s)
    BY <1>9, <1>11, <2>2, <2>3
  <2>4. CASE ~(Len(q) > Len(s))
    <3>1. Len(s) > Learn
      BY <1>7, <1>13, <2>1, <2>4
    <3>2. s # <<>>
      BY <1>3, <3>1
    <3>3. Count(s, Other(k)) < Count(s, k)
      BY <1>4, <1>12, <3>1, <3>2
    <3> QED BY <1>9, <1>11, <3>3
  <2> QED BY <2>3, <2>4
<1> QED BY <1>1, <1>3, <1>8, <1>12, <1>13 DEF s, q

LEMMA CommitCam ==
  ASSUME PairingInv, CleanOK, Steady, clean, Matches, Commit, UNCHANGED <<hist, nextSec>>,
         NEW c \in Secs, nextSec[c] >= nextPrim
  PROVE  CleanCam(c)'
<1>1. /\ Len(hist[c]) = IF nextSec[c] < Hist THEN nextSec[c] ELSE Hist
      /\ \A i \in DOMAIN hist[c] : hist[c][i].at = nextSec[c] - Len(hist[c]) + i - 1
  BY DEF CleanOK, CleanCam
<1>2. last' # NONE
  BY CommitResult
<1>3. /\ \A i \in DOMAIN est'[c] : \E k \in Sides : InCluster(est'[c][i], k)
      /\ \E k \in Sides :
           /\ last'.sec[c].at = last'.prim + k
           /\ Len(est'[c]) > Learn => Count(est'[c], Other(k)) < Count(est'[c], k)
  BY CommitClean
<1>4. UNCHANGED <<hist, nextSec>>
  OBVIOUS
<1> QED BY <1>1, <1>2, <1>3, <1>4 DEF CleanCam

\* An image that comes keeps the history contiguous.
LEMMA PushCam ==
  ASSUME PairingInv, NEW c \in Secs, OnSecondary(c), CleanCam(c)
  PROVE  CleanCam(c)'
<1> USE DEF PairingInv
<1>1. /\ nextSec' = [nextSec EXCEPT ![c] = @ + 1]
      /\ UNCHANGED <<est, last>>
  BY DEF OnSecondary, SecondaryNext
<1>2. PICK o \in Offsets :
        hist' = [hist EXCEPT ![c] =
          Push(@, [at |-> nextSec[c], stamp |-> nextSec[c] * Period + o], Hist)]
  BY DEF OnSecondary
<1> DEFINE new == [at |-> nextSec[c], stamp |-> nextSec[c] * Period + o]
           n == nextSec[c]
           s == hist[c]
           q == hist'[c]
<1>3. /\ nextSec \in [Secs -> 0..Triggers] /\ n \in Nat
      /\ nextSec[c] * Period \in Int /\ o \in Int
      /\ hist \in [Secs -> Seq(Images)] /\ s \in Seq(Images) /\ Len(s) <= Hist
      /\ Hist \in Nat \ {0}
  BY DEF TypeOK
<1>4. new \in Images /\ new.at = n
  BY <1>3 DEF Images
<1>5. hist' = [hist EXCEPT ![c] = Push(s, new, Hist)]
  BY <1>2
<1> HIDE DEF new
<1>6. q = Push(s, new, Hist) /\ nextSec'[c] = n + 1
  BY <1>1, <1>3, <1>5
<1>7. /\ Len(s) = IF n < Hist THEN n ELSE Hist
      /\ \A i \in DOMAIN s : s[i].at = n - Len(s) + i - 1
  BY DEF CleanCam
<1> HIDE DEF n, s, q
<1>8. /\ q \in Seq(Images) /\ Len(q) \in 1..Hist
      /\ Shifted(s, q, new, 0) \/ Shifted(s, q, new, 1)
  BY <1>3, <1>4, <1>6, PushResult
<1>9. Len(q) = IF Len(s) < Hist THEN Len(s) + 1 ELSE Hist
  <2>1. CASE Len(s) < Hist
    <3>1. q = Append(s, new)
      BY <1>6, <2>1 DEF Push
    <3> QED BY <1>3, <1>4, <2>1, <3>1
  <2>2. CASE ~(Len(s) < Hist)
    <3>1. Len(s) = Hist /\ Len(s) \in Nat
      BY <1>3, <2>2
    <3>2. q = Append(Tail(s), new)
      BY <1>6, <2>2 DEF Push
    <3>3. s # <<>> /\ Tail(s) \in Seq(Images) /\ Len(Tail(s)) = Len(s) - 1
      BY <1>3, <3>1
    <3>4. Len(q) = Len(Tail(s)) + 1
      BY <1>4, <3>2, <3>3
    <3> QED BY <1>3, <2>2, <3>1, <3>3, <3>4
  <2> QED BY <2>1, <2>2
<1>10. PICK d \in {0, 1} :
         /\ Len(q) = Len(s) + 1 - d
         /\ \A i \in 1..Len(s) - d : q[i] = s[i + d]
         /\ q[Len(s) + 1 - d] = new
  BY <1>8 DEF Shifted
<1>11. Len(s) \in Nat /\ Len(q) \in Nat /\ DOMAIN s = 1..Len(s) /\ DOMAIN q = 1..Len(q)
  BY <1>3, <1>8
<1>12. Len(q) = Len(s) + 1 - d
  BY <1>10
<1>13. Len(q) = IF n + 1 < Hist THEN n + 1 ELSE Hist
  BY <1>3, <1>7, <1>9, <1>11
<1>14. ASSUME NEW i \in DOMAIN q PROVE q[i].at = (n + 1) - Len(q) + i - 1
  <2>1. CASE i = Len(q)
    <3>1. q[i] = new
      BY <1>10, <1>12, <2>1
    <3> QED BY <1>3, <1>4, <1>11, <2>1, <3>1
  <2>2. CASE i # Len(q)
    <3>1. i \in 1..Len(s) - d /\ i + d \in 1..Len(s)
      BY <1>11, <1>12, <2>2
    <3>2. q[i] = s[i + d]
      BY <1>10, <3>1
    <3>3. s[i + d].at = n - Len(s) + (i + d) - 1
      BY <1>7, <1>11, <3>1
    <3>4. i \in Int /\ d \in Int /\ Len(s) \in Int /\ n \in Int
      BY <1>3, <1>11, <3>1
    <3>5. (n + 1) - Len(q) + i - 1 = n - Len(s) + (i + d) - 1
      BY <1>12, <3>4
    <3> QED BY <3>2, <3>3, <3>5
  <2> QED BY <2>1, <2>2
<1>15. /\ \A i \in DOMAIN est[c] : \E k \in Sides : InCluster(est[c][i], k)
       /\ last = NONE => est[c] = <<>>
       /\ last # NONE =>
            \E k \in Sides :
              /\ last.sec[c].at = last.prim + k
              /\ Len(est[c]) > Learn => Count(est[c], Other(k)) < Count(est[c], k)
  BY DEF CleanCam
<1> QED BY <1>1, <1>6, <1>13, <1>14, <1>15 DEF CleanCam, q

-----------------------------------------------------------------------------
(* The steps of a run without losses *)

LEMMA CleanInitially == Init => CleanOK
<1> SUFFICES ASSUME Init PROVE CleanOK
  OBVIOUS
<1>1. /\ recording = FALSE /\ pending = NONE /\ nextPrim = 0 /\ last = NONE
      /\ \A c \in Secs : hist[c] = <<>> /\ est[c] = <<>> /\ nextSec[c] = 0
  BY DEF Init
<1>2. ASSUME NEW c \in Secs PROVE CleanCam(c)
  <2>1. Len(<<>>) = 0 /\ DOMAIN <<>> = {} /\ 0 < Hist
    OBVIOUS
  <2> QED BY <1>1, <2>1 DEF CleanCam
<1> QED BY <1>1, <1>2 DEF CleanOK

LEMMA CleanPrimary ==
  ASSUME PairingInv, CleanOK, Steady, OnPrimary
  PROVE  CleanOK'
<1>1. /\ nextPrim' = nextPrim + 1
      /\ clean' = (clean /\ \A c \in Secs : nextSec[c] >= nextPrim)
      /\ UNCHANGED <<recording, hist, ended, nextSec>>
  BY DEF OnPrimary, PrimaryNext
<1>2. nextPrim \in Nat /\ \A c \in Secs : nextSec[c] \in Nat
  BY DEF PairingInv, TypeOK
<1>3. \A c \in Secs : nextSec'[c] <= nextPrim' + 1
  BY <1>1, <1>2 DEF CleanOK
<1>4. CASE recording /\ Matches
  <2>1. pending' = nextPrim /\ Commit
    BY <1>4 DEF OnPrimary
  <2>2. ASSUME clean', NEW c \in Secs PROVE CleanCam(c)'
    <3>1. clean /\ nextSec[c] >= nextPrim /\ UNCHANGED <<hist, nextSec>>
      BY <1>1, <2>2
    <3> QED BY <1>4, <2>1, <3>1, CommitCam
  <2> QED BY <1>1, <1>2, <1>3, <1>4, <2>1, <2>2 DEF CleanOK
<1>5. CASE recording /\ ~Matches
  <2>1. pending' = nextPrim /\ UNCHANGED <<est, last>>
    BY <1>5 DEF OnPrimary, NoFrame
  <2>2. ASSUME clean', NEW c \in Secs PROVE CleanCam(c)'
    BY <1>1, <2>1, <2>2 DEF CleanOK, CleanCam
  <2> QED BY <1>1, <1>2, <1>3, <1>5, <2>1, <2>2 DEF CleanOK
<1>6. CASE ~recording
  <2>1. pending = NONE /\ UNCHANGED <<pending, est, last>>
    BY <1>6 DEF OnPrimary, NoFrame, CleanOK
  <2>2. ASSUME clean', NEW c \in Secs PROVE CleanCam(c)'
    BY <1>1, <2>1, <2>2 DEF CleanOK, CleanCam
  <2> QED BY <1>1, <1>3, <1>6, <2>1, <2>2 DEF CleanOK
<1> QED BY <1>4, <1>5, <1>6

LEMMA CleanSecondary ==
  ASSUME PairingInv, CleanOK, NEW c \in Secs, OnSecondary(c)
  PROVE  CleanOK'
<1>1. /\ nextSec[c] <= nextPrim /\ nextSec' = [nextSec EXCEPT ![c] = @ + 1]
      /\ UNCHANGED <<recording, pending, est, last, nextPrim, clean>>
      /\ \E x : hist' = [hist EXCEPT ![c] = x]
  BY DEF OnSecondary, SecondaryNext
<1>2. /\ nextPrim \in Nat /\ nextSec \in [Secs -> 0..Triggers]
      /\ hist \in [Secs -> Seq(Images)]
  BY DEF PairingInv, TypeOK
<1>3. \A b \in Secs : nextSec'[b] <= nextPrim' + 1
  BY <1>1, <1>2 DEF CleanOK
<1>4. ASSUME clean', NEW b \in Secs PROVE CleanCam(b)'
  <2>1. CASE b = c
    BY <1>1, <1>4, <2>1, PushCam DEF CleanOK
  <2>2. CASE b # c
    <3>1. hist'[b] = hist[b] /\ nextSec'[b] = nextSec[b]
      BY <1>1, <1>2, <2>2
    <3> QED BY <1>1, <1>4, <3>1 DEF CleanOK, CleanCam
  <2> QED BY <2>1, <2>2
<1> QED BY <1>1, <1>3, <1>4 DEF CleanOK

LEMMA CleanRest ==
  ASSUME PairingInv, CleanOK, Steady, Lose \/ Start \/ Stop \/ UNCHANGED vars
  PROVE  CleanOK'
<1>1. /\ nextPrim \in Nat /\ nextSec \in [Secs -> 0..Triggers]
      /\ \A c \in Secs : nextSec[c] \in Nat
  BY DEF PairingInv, TypeOK
<1>2. CASE Lose
  <2>1. clean' = FALSE /\ UNCHANGED <<recording, pending>>
    BY <1>2 DEF Lose
  <2>2. \A c \in Secs : nextSec'[c] <= nextPrim' + 1
    <3>1. CASE nextPrim' = nextPrim + 1 /\ UNCHANGED nextSec
      BY <1>1, <3>1 DEF CleanOK
    <3>2. ASSUME NEW c \in Secs, SecondaryNext(c), UNCHANGED nextPrim
          PROVE  \A b \in Secs : nextSec'[b] <= nextPrim' + 1
      BY <1>1, <3>2 DEF SecondaryNext, CleanOK
    <3> QED BY <1>2, <3>1, <3>2 DEF Lose
  <2> QED BY <2>1, <2>2 DEF CleanOK
<1>3. CASE Start
  <2>1. /\ recording' = TRUE /\ pending' = NONE
        /\ UNCHANGED <<hist, est, last, nextPrim, nextSec, clean>>
    BY <1>3 DEF Start, external
  <2> QED BY <2>1 DEF CleanOK, CleanCam
<1>4. CASE Stop
  <2>1. /\ recording' = FALSE /\ pending' = NONE
        /\ clean' = (clean /\ \A c \in Secs : nextSec[c] >= nextPrim)
        /\ UNCHANGED <<hist, nextPrim, nextSec>>
    BY <1>4 DEF Stop
  <2>2. ASSUME clean', NEW c \in Secs PROVE CleanCam(c)'
    <3>1. clean /\ nextSec[c] >= nextPrim /\ UNCHANGED <<hist, nextSec>>
      BY <2>1, <2>2
    <3>2. CASE Matches
      <4>1. Commit
        BY <1>4, <3>2 DEF Stop
      <4> QED BY <3>1, <3>2, <4>1, CommitCam
    <3>3. CASE ~Matches
      <4>1. UNCHANGED <<est, last>>
        BY <1>4, <3>3 DEF Stop, NoFrame
      <4> QED BY <3>1, <4>1 DEF CleanOK, CleanCam
    <3> QED BY <3>2, <3>3
  <2> QED BY <2>1, <2>2 DEF CleanOK
<1>5. CASE UNCHANGED vars
  BY <1>5 DEF vars, external, CleanOK, CleanCam
<1> QED BY <1>2, <1>3, <1>4, <1>5

-----------------------------------------------------------------------------
(* The theorems *)

LEMMA PairingInvariance == Spec => []PairingInv
<1>1. PairingInv /\ UNCHANGED vars => PairingInv'
  <2> SUFFICES ASSUME PairingInv, UNCHANGED vars PROVE PairingInv'
    OBVIOUS
  <2>1. UNCHANGED <<recording, pending, hist, est, dropped, images, committed, ended, last,
                    nextPrim, nextSec, clean, mishaps>>
    BY DEF vars, external, ledger
  <2>2. TypeOK'
    BY <2>1 DEF PairingInv, TypeOK
  <2>3. AllAccounted' /\ CountOK' /\ HistOK' /\ LastOK'
    BY <2>1 DEF PairingInv, AllAccounted, LastDiscarded, CountOK, HistOK, LastOK
  <2> QED BY <2>2, <2>3 DEF PairingInv
<1>2. PairingInv /\ Next => PairingInv'
  BY OnPrimaryStep, OnSecondaryStep, LoseStep, EpisodeStep DEF Next
<1> QED BY <1>1, <1>2, PairingInitially, PTL DEF Spec

\* Every primary image of an episode is a frame, refused, counted as dropped or still pending; of
\* an episode that was stopped, all but at most the last one, discarded because it was pending
\* without a match. And the queues keep their lengths.
THEOREM ImagesAccounted == Spec => []Inv
<1>1. PairingInv => Inv
  BY DEF PairingInv, Inv
<1> QED BY <1>1, PairingInvariance, PTL

\* What NeverBack says of a step.
Forward ==
  (last # NONE /\ last' # last) =>
    /\ last'.prim > last.prim
    /\ \A c \in Secs : Bias2(c) + 2 * Period >= last.bias[c]
                         => last'.sec[c].at >= last.sec[c].at

\* Time runs forward in a dataset, for every number of cameras, jitter, loss and drift.
THEOREM TimeRunsForward == Spec => NeverBack
<1>1. PairingInv /\ [Next]_vars => [Forward]_last
  <2> SUFFICES ASSUME PairingInv, [Next]_vars, last' # last, last # NONE PROVE Forward
    BY DEF Forward
  <2>1. OnPrimary \/ Stop
    BY DEF Next, OnSecondary, Lose, Start, vars
  <2>2. Matches /\ Commit
    BY <2>1 DEF OnPrimary, Stop, NoFrame
  <2>3. last'.prim = pending /\ pending # NONE /\ last.prim < pending
    BY <2>2, CommitResult DEF Matches, PairingInv, LastOK
  <2>4. pending \in Nat /\ last.prim \in Nat
    BY <2>3 DEF PairingInv, TypeOK, Frames
  <2> QED BY <2>2, <2>3, <2>4, StepForward DEF Forward
<1> QED BY <1>1, PairingInvariance, PTL DEF Spec, NeverBack, Forward

\* What KeepsTrigger says of a step.
Keeps ==
  (last # NONE /\ last' # last /\ clean') =>
    \A c \in Secs : Len(est[c]) > Learn =>
      last'.prim - last'.sec[c].at = last.prim - last.sec[c].at

\* While nothing is lost or late, a camera stays paired with the images of one side of the
\* trigger: for every number of cameras, trigger period and length of the queues, when the
\* stamps are within the period of their trigger and jitter by less than half of it.
THEOREM TriggerKept ==
  ASSUME Steady
  PROVE  Spec => KeepsTrigger
<1>1. PairingInv /\ CleanOK /\ [Next]_vars => CleanOK'
  BY CleanPrimary, CleanSecondary, CleanRest DEF Next
<1>2. PairingInv /\ CleanOK /\ [Next]_vars => [Keeps]_last
  <2> SUFFICES ASSUME PairingInv, CleanOK, [Next]_vars, last' # last, last # NONE, clean',
                      NEW c \in Secs, Len(est[c]) > Learn
               PROVE  last'.prim - last'.sec[c].at = last.prim - last.sec[c].at
    BY DEF Keeps
  <2>1. OnPrimary \/ Stop
    BY DEF Next, OnSecondary, Lose, Start, vars
  <2>2. Matches /\ Commit
    BY <2>1 DEF OnPrimary, Stop, NoFrame
  <2>3. clean /\ nextSec[c] >= nextPrim
    BY <2>1 DEF OnPrimary, PrimaryNext, Stop
  <2>4. PICK k \in Sides : /\ last'.sec[c].at = last'.prim + k
                           /\ last.sec[c].at = last.prim + k
    BY <2>2, <2>3, CommitClean
  <2>5. last'.prim \in Int /\ last.prim \in Int /\ k \in Int
    <3>1. last \in Frames /\ last' \in Frames
      BY <2>2, CommitResult DEF PairingInv, TypeOK
    <3> QED BY <3>1 DEF Frames, Sides
  <2> QED BY <2>4, <2>5
<1>3. Init => CleanOK
  BY CleanInitially
<1> QED BY <1>1, <1>2, <1>3, PairingInvariance, PTL DEF Spec, KeepsTrigger, Keeps
=============================================================================
