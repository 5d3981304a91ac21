----------------------------- MODULE CodecProofs -----------------------------
(***************************************************************************)
(* Numbers are read as what they denote and written so that they denote     *)
(* it, for every width and every number; and the strings laid out for main  *)
(* are read back, for lists of any length of strings of any length.         *)
(*                                                                          *)
(* WasmCodec computes by recursive functions.  That there is such a         *)
(* function is proved once (Recursion); what it computes is proved by       *)
(* looking at the least argument for which it does not (LeastElement).      *)
(***************************************************************************)
EXTENDS WasmCodec, SequenceTheorems, FiniteSetTheorems, TLAPS

-----------------------------------------------------------------------------
(* Induction and recursion *)

\* A set of natural numbers has a least element.
LEMMA LeastElement ==
    ASSUME NEW P \in SUBSET Nat, P # {}
    PROVE  \E i \in P : \A j \in P : i <= j
<1> DEFINE Below(i) == P \cap (0..i)
           T == {Below(i) : i \in P}
           R == StrictSubsetOrdering(Nat)
<1>1. \A i \in Nat : Below(i) \in SUBSET Nat /\ IsFiniteSet(Below(i))
  <2> SUFFICES ASSUME NEW i \in Nat PROVE IsFiniteSet(Below(i))
    OBVIOUS
  <2>1. IsFiniteSet(0..i)
    BY FS_Interval
  <2> QED
    BY <2>1, FS_Intersection
<1>2. IsWellFoundedOn(R, FiniteSubsetsOf(Nat))
  BY FS_StrictSubsetOrderingWellFounded
<1>3. T \subseteq FiniteSubsetsOf(Nat) /\ T # {}
  BY <1>1 DEF FiniteSubsetsOf
<1>4. PICK x \in T : \A y \in T : ~ (<<y, x>> \in R)
  <2> HIDE DEF T, R
  <2> QED
    BY <1>2, <1>3, WFMin
<1>5. PICK i \in P : x = Below(i)
  BY <1>4
<1>6. \A j \in P : i <= j
  <2> SUFFICES ASSUME NEW j \in P, j < i PROVE FALSE
    OBVIOUS
  <2>1. Below(j) \in T /\ Below(j) \subseteq Below(i) /\ i \notin Below(j) /\ i \in Below(i)
    OBVIOUS
  <2>2. <<Below(j), Below(i)>> \in R
    BY <1>1, <2>1 DEF StrictSubsetOrdering
  <2> QED
    BY <1>4, <1>5, <2>1, <2>2
<1> QED
  BY <1>6

\* What holds at 0 and goes on holding holds of 0..n.
LEMMA Induction ==
    ASSUME NEW n \in Nat, NEW Good, 0 \in Good,
           \A k \in 1..n : k - 1 \in Good => k \in Good
    PROVE  \A k \in 0..n : k \in Good
<1> DEFINE Bad == {k \in 0..n : k \notin Good}
<1> SUFFICES ASSUME Bad # {} PROVE FALSE
  OBVIOUS
<1>1. Bad \in SUBSET Nat
  OBVIOUS
<1>2. PICK k \in Bad : \A j \in Bad : k <= j
  BY <1>1, LeastElement
<1>3. k \in 1..n /\ k - 1 \in 0..n /\ k - 1 \notin Bad
  BY <1>2
<1> QED
  BY <1>2, <1>3

\* A function on D with values in S that is given on Stop, and elsewhere got
\* from its value at an argument of lower rank.
WellFounded(D, S, N, rank, Stop, base, prev, step) ==
    /\ N \in Nat /\ rank \in [D -> 0..N]
    /\ Stop \in SUBSET D /\ base \in [Stop -> S]
    /\ prev \in [D \ Stop -> D] /\ step \in [D \ Stop -> [S -> S]]
    /\ \A d \in D \ Stop : rank[prev[d]] < rank[d]

Recurs(g, D, S, Stop, base, prev, step) ==
    /\ g \in [D -> S]
    /\ \A d \in D : g[d] = IF d \in Stop THEN base[d] ELSE step[d][g[prev[d]]]

LEMMA Recursion ==
    ASSUME NEW D, NEW S, NEW N, NEW rank, NEW Stop, NEW base, NEW prev, NEW step,
           WellFounded(D, S, N, rank, Stop, base, prev, step)
    PROVE  \E g : Recurs(g, D, S, Stop, base, prev, step)
<1> USE DEF WellFounded
<1> DEFINE Near(k) == {d \in D : rank[d] <= k}
           Next(g, d) == IF d \in Stop THEN base[d] ELSE step[d][g[prev[d]]]
           Solves(g, k) == g \in [Near(k) -> S] /\ \A d \in Near(k) : g[d] = Next(g, d)
           Good == {k \in 0..N : \E g : Solves(g, k)}
<1>1. 0 \in Good
  <2>1. \A d \in Near(0) : d \in Stop
    <3> SUFFICES ASSUME NEW d \in Near(0), d \notin Stop PROVE FALSE
      OBVIOUS
    <3>1. d \in D \ Stop /\ rank[d] = 0 /\ prev[d] \in D
      OBVIOUS
    <3>2. rank[prev[d]] \in 0..N /\ rank[prev[d]] < 0
      BY <3>1
    <3> QED
      BY <3>2
  <2>2. Solves([d \in Near(0) |-> base[d]], 0)
    BY <2>1
  <2> HIDE DEF Solves
  <2> QED
    BY <2>2
<1>2. ASSUME NEW k \in 1..N, k - 1 \in Good PROVE k \in Good
  <2>1. PICK g : Solves(g, k - 1)
    BY <1>2
  <2> DEFINE h == [d \in Near(k) |-> Next(g, d)]
  <2>2. ASSUME NEW d \in Near(k), d \notin Stop
        PROVE  prev[d] \in Near(k - 1) /\ prev[d] \in Near(k)
    <3>1. d \in D \ Stop /\ rank[d] \in 0..N /\ rank[d] <= k /\ prev[d] \in D
      BY <2>2
    <3>2. rank[prev[d]] \in 0..N /\ rank[prev[d]] < rank[d]
      BY <3>1
    <3> QED
      BY <3>1, <3>2
  <2>3. h \in [Near(k) -> S]
    BY <2>1, <2>2
  <2>4. \A d \in Near(k) : h[d] = Next(h, d)
    BY <2>1, <2>2
  <2>5. Solves(h, k)
    BY <2>3, <2>4
  <2> HIDE DEF Solves
  <2> QED
    BY <2>5
<1> HIDE DEF Good
<1>3. N \in Good
  <2>1. \A k \in 0..N : k \in Good
    BY <1>1, <1>2, Induction
  <2> QED
    BY <2>1
<1>4. PICK g : Solves(g, N)
  BY <1>3 DEF Good
<1>5. Near(N) = D
  OBVIOUS
<1>6. g \in [D -> S] /\ \A d \in D : g[d] = Next(g, d)
  BY <1>4, <1>5
<1> QED
  BY <1>6 DEF Recurs

\* The values of a function on 0..n, each got from the one before.
Iterates(g, n, S, c, step) ==
    g \in [0..n -> S] /\ g[0] = c /\ \A i \in 1..n : g[i] = step[i][g[i - 1]]

Steps(n, S, c, step) == n \in Nat /\ c \in S /\ step \in [1..n -> [S -> S]]

LEMMA Iteration ==
    ASSUME NEW n, NEW S, NEW c, NEW step, Steps(n, S, c, step)
    PROVE  \E g : Iterates(g, n, S, c, step)
<1> USE DEF Steps
<1> DEFINE D == 0..n
           Stop == {0}
           rank == [i \in D |-> i]
           base == [i \in Stop |-> c]
           prev == [i \in D \ Stop |-> i - 1]
<1>1. /\ D = 0..n /\ Stop \in SUBSET D /\ D \ Stop = 1..n
      /\ rank \in [D -> 0..n] /\ base \in [Stop -> S] /\ prev \in [D \ Stop -> D]
      /\ \A d \in D \ Stop : rank[prev[d]] < rank[d]
  OBVIOUS
<1>2. step \in [D \ Stop -> [S -> S]]
  BY <1>1
<1>3. 0 \in Stop /\ 0 \in D /\ base[0] = c /\ \A i \in 1..n : i \notin Stop /\ prev[i] = i - 1
  OBVIOUS
<1> HIDE DEF D, Stop, rank, base, prev
<1>4. WellFounded(D, S, n, rank, Stop, base, prev, step)
  BY <1>1, <1>2 DEF WellFounded
<1>5. PICK g : Recurs(g, D, S, Stop, base, prev, step)
  BY <1>4, Recursion
<1>6. Iterates(g, n, S, c, step)
  BY <1>1, <1>3, <1>5 DEF Recurs, Iterates
<1> QED
  BY <1>6

-----------------------------------------------------------------------------
(* Powers of two *)

\* The largest exponent.
Most == Bits + Group

LEMMA Powers ==
    ASSUME CodecAssumption
    PROVE  /\ Most \in Nat /\ TwoTo[0] = 1
           /\ \A k \in 0..Most : TwoTo[k] \in Nat /\ TwoTo[k] >= 1
           /\ \A k \in 1..Most : TwoTo[k] = 2 * TwoTo[k - 1]
<1> DEFINE D == 0..Most
           Solves(g) == g = [k \in D |-> IF k = 0 THEN 1 ELSE 2 * g[k - 1]]
<1>1. Most \in Nat
  BY DEF Most, CodecAssumption
<1>2. \E g : Solves(g)
  <2> DEFINE S == Nat
             step == [k \in 1..Most |-> [x \in S |-> 2 * x]]
  <2>1. step \in [1..Most -> [S -> S]] /\ 1 \in S
    OBVIOUS
  <2>2. \A k \in 1..Most, x \in S : step[k][x] = 2 * x
    OBVIOUS
  <2> HIDE DEF S, step
  <2>3. PICK g : Iterates(g, Most, S, 1, step)
    BY <1>1, <2>1, Iteration DEF Steps
  <2>4. \A k \in 1..Most : g[k] = 2 * g[k - 1]
    <3>1. \A k \in 1..Most : g[k - 1] \in S /\ g[k] = step[k][g[k - 1]]
      BY <1>1, <2>3 DEF Iterates
    <3> QED
      BY <2>2, <3>1
  <2>5. Solves(g)
    BY <2>3, <2>4 DEF Iterates
  <2> HIDE DEF Solves
  <2> QED
    BY <2>5
<1>3. TwoTo = CHOOSE g : Solves(g)
  BY DEF TwoTo, Most
<1>4. Solves(TwoTo)
  <2> HIDE DEF Solves
  <2> QED
    BY <1>2, <1>3
<1>5. TwoTo[0] = 1 /\ \A k \in 1..Most : TwoTo[k] = 2 * TwoTo[k - 1]
  BY <1>1, <1>4
<1>6. \A k \in 0..Most : TwoTo[k] \in Nat /\ TwoTo[k] >= 1
  <2> DEFINE Good == {k \in D : TwoTo[k] \in Nat /\ TwoTo[k] >= 1}
  <2>1. 0 \in Good
    BY <1>1, <1>5
  <2>2. \A k \in 1..Most : k - 1 \in Good => k \in Good
    BY <1>1, <1>5
  <2> HIDE DEF Good
  <2>3. \A k \in 0..Most : k \in Good
    BY <1>1, <2>1, <2>2, Induction
  <2> QED
    BY <2>3 DEF Good
<1> QED
  BY <1>1, <1>5, <1>6

LEMMA PowerSum ==
    ASSUME CodecAssumption, NEW i \in Nat, NEW j \in Nat, i + j <= Most
    PROVE  TwoTo[i + j] = TwoTo[i] * TwoTo[j]
<1> DEFINE Good == {k \in 0..j : TwoTo[i + k] = TwoTo[i] * TwoTo[k]}
<1>1. 0 \in Good
  BY Powers
<1>2. ASSUME NEW k \in 1..j, k - 1 \in Good PROVE k \in Good
  <2>1. /\ TwoTo[i + k] = 2 * TwoTo[i + (k - 1)] /\ TwoTo[k] = 2 * TwoTo[k - 1]
        /\ TwoTo[i] \in Nat /\ TwoTo[k - 1] \in Nat
    <3>1. i + k \in 1..Most /\ k \in 1..Most /\ (i + k) - 1 = i + (k - 1)
          /\ i \in 0..Most /\ k - 1 \in 0..Most
      BY Powers
    <3> QED
      BY <3>1, Powers
  <2>2. TwoTo[i + (k - 1)] = TwoTo[i] * TwoTo[k - 1]
    BY <1>2
  <2> DEFINE a == TwoTo[i]
             b == TwoTo[k - 1]
  <2>3. a \in Nat /\ b \in Nat
    BY <2>1
  <2>4. TwoTo[i + k] = 2 * (a * b) /\ TwoTo[k] = 2 * b
    BY <2>1, <2>2
  <2> HIDE DEF a, b
  <2>5. 2 * (a * b) = a * (2 * b)
    BY <2>3
  <2>6. TwoTo[i + k] = TwoTo[i] * TwoTo[k]
    BY <2>4, <2>5 DEF a
  <2> QED
    BY <2>6
<1> HIDE DEF Good
<1>3. \A k \in 0..j : k \in Good
  BY <1>1, <1>2, Induction
<1>4. j \in Good
  BY <1>3
<1> QED
  BY <1>4 DEF Good

LEMMA PowerOrder ==
    ASSUME CodecAssumption, NEW i \in 0..Most, NEW j \in 0..Most, i <= j
    PROVE  TwoTo[i] <= TwoTo[j]
<1>1. Most \in Nat /\ i \in Nat /\ j - i \in Nat /\ i + (j - i) = j /\ j - i \in 0..Most
  BY Powers
<1>2. TwoTo[j] = TwoTo[i] * TwoTo[j - i]
  BY <1>1, PowerSum
<1>3. TwoTo[i] \in Nat /\ TwoTo[j - i] \in Nat /\ TwoTo[j - i] >= 1
  BY <1>1, Powers
<1> DEFINE a == TwoTo[i]
           b == TwoTo[j - i]
<1>4. a \in Nat /\ b \in Nat /\ b >= 1
  BY <1>3
<1> HIDE DEF a, b
<1>5. a <= a * b
  BY <1>4
<1> QED
  BY <1>2, <1>5 DEF a, b

-----------------------------------------------------------------------------
(* Division *)

LEMMA DivMod ==
    ASSUME NEW b \in Nat, b >= 1, NEW v \in Int
    PROVE  /\ v \div b \in Int /\ v % b \in Nat /\ v % b < b
           /\ v = b * (v \div b) + (v % b)
  OBVIOUS

LEMMA DivUnique ==
    ASSUME NEW b \in Nat, NEW q \in Int, NEW r \in Nat, r < b, NEW v \in Int, v = b * q + r
    PROVE  v \div b = q /\ v % b = r
  OBVIOUS

LEMMA DivLess ==
    ASSUME NEW a \in Nat, a >= 1, NEW b \in Int, NEW v \in Int, NEW c \in Int, c = a * b
    PROVE  v < c <=> v \div a < b
<1> DEFINE q == v \div a
           r == v % a
<1>1. q \in Int /\ r \in Nat /\ r < a /\ v = a * q + r
  BY DivMod
<1> HIDE DEF q, r
<1>2. ASSUME q < b PROVE v < a * b
  <2>1. a * (q + 1) <= a * b
    BY <1>1, <1>2
  <2>2. a * (q + 1) = a * q + a
    BY <1>1
  <2> QED
    BY <1>1, <2>1, <2>2
<1>3. ASSUME b <= q PROVE a * b <= v
  <2>1. a * b <= a * q
    BY <1>1, <1>3
  <2> QED
    BY <1>1, <2>1
<1> QED
  BY <1>1, <1>2, <1>3 DEF q

LEMMA DivDiv ==
    ASSUME NEW a \in Nat, a >= 1, NEW b \in Nat, b >= 1, NEW v \in Int, NEW c \in Int, c = a * b
    PROVE  (v \div a) \div b = v \div c
<1> DEFINE q == v \div a
           r == v % a
           p == q \div b
           s == q % b
<1>1. q \in Int /\ r \in Nat /\ r < a /\ v = a * q + r
  BY DivMod
<1>2. p \in Int /\ s \in Nat /\ s < b /\ q = b * p + s
  <2> HIDE DEF q
  <2> QED
    BY <1>1, DivMod
<1> HIDE DEF q, r, p, s
<1>3. v = (a * b) * p + (a * s + r)
  <2>1. a * (b * p + s) = (a * b) * p + a * s
    BY <1>2
  <2> QED
    BY <1>1, <1>2, <2>1
<1>4. a * s + r \in Nat /\ a * s + r < a * b
  <2>1. a * s \in Nat /\ a * b \in Nat /\ a * (s + 1) <= a * b /\ a * (s + 1) = a * s + a
    BY <1>2
  <2> QED
    BY <1>1, <2>1
<1>5. v \div c = p
  <2> DEFINE t == a * s + r
  <2>1. c \in Nat /\ t \in Nat /\ t < c /\ v = c * p + t
    BY <1>3, <1>4
  <2> HIDE DEF t
  <2>2. v \div c = p
    BY <2>1, <1>2, DivUnique
  <2> QED
    BY <2>2
<1> QED
  BY <1>5 DEF p, q

-----------------------------------------------------------------------------
(* Digits *)

Base == TwoTo[Group]

\* What the digit after i digits counts, and what fits into a number behind them.
Weight(i) == TwoTo[Group * i]
Room(i) == TwoTo[Bits - Group * i]

LEMMA Widths ==
    ASSUME CodecAssumption
    PROVE  /\ MaxBytes \in Nat /\ MaxBytes >= 1
           /\ LastBits \in 1..Group /\ Bits = Group * (MaxBytes - 1) + LastBits
           /\ \A i \in 0..MaxBytes : Group * i \in Nat /\ Group * i <= Most
           /\ \A i \in 0..(MaxBytes - 1) : Bits - Group * i \in Nat /\ Bits - Group * i <= Most
           /\ Base \in Nat /\ Base >= 2
<1> DEFINE n == Bits + Group - 1
<1>1. Group \in Nat /\ Group >= 1 /\ Bits \in Nat /\ Bits >= 1 /\ n \in Nat /\ Most = n + 1
  BY DEF CodecAssumption, Most
<1>2. MaxBytes = n \div Group
  BY DEF MaxBytes
<1> DEFINE r == n % Group
           m == n \div Group
<1>3. m \in Int /\ r \in Nat /\ r < Group /\ n = Group * m + r
  <2> HIDE DEF n
  <2> QED
    BY <1>1, DivMod
<1> HIDE DEF m, r
<1>4. m \in Nat /\ m >= 1
  <2> SUFFICES ASSUME m <= 0 PROVE FALSE
    BY <1>3
  <2>1. Group * m <= 0
    BY <1>1, <1>3
  <2> QED
    BY <1>1, <1>3, <2>1
<1>5. Group * (m - 1) = Group * m - Group /\ (m - 1) * Group = Group * (m - 1)
  BY <1>1, <1>3
<1>6. Bits - Group * (m - 1) \in 1..Group
  BY <1>1, <1>3, <1>5
<1>7. LastBits \in 1..Group /\ Bits = Group * (m - 1) + LastBits
  <2>1. LastBits = Bits - Group * (m - 1)
    BY <1>2, <1>5 DEF LastBits, m
  <2> DEFINE g == Group * (m - 1)
  <2>2. g \in Int
    BY <1>1, <1>3
  <2> HIDE DEF g
  <2> QED
    BY <2>1, <2>2, <1>1, <1>6 DEF g
<1>8. \A i \in 0..m : Group * i \in Nat /\ Group * i <= Most
  <2> SUFFICES ASSUME NEW i \in 0..m PROVE Group * i \in Nat /\ Group * i <= Most
    OBVIOUS
  <2>1. Group * i \in Nat /\ Group * i <= Group * m
    BY <1>1, <1>4
  <2> QED
    BY <1>1, <1>3, <2>1
<1>9. \A i \in 0..(m - 1) : Bits - Group * i \in Nat /\ Bits - Group * i <= Most
  <2> SUFFICES ASSUME NEW i \in 0..(m - 1) PROVE Bits - Group * i \in Nat /\ Bits - Group * i <= Most
    OBVIOUS
  <2> DEFINE g == Group * i
             h == Group * (m - 1)
  <2>1. g \in Nat /\ h \in Nat /\ g <= h
    BY <1>1, <1>4
  <2>2. Bits - h \in 1..Group
    BY <1>6
  <2> HIDE DEF g, h
  <2>3. Bits - g \in Nat /\ Bits - g <= Most
    BY <1>1, <2>1, <2>2
  <2> QED
    BY <2>3 DEF g
<1>10. Base \in Nat /\ Base >= 2
  <2>1. 1 \in 0..Most /\ Group \in 0..Most /\ 0 \in 0..Most
    BY <1>1
  <2>2. TwoTo[1] = 2 /\ TwoTo[1] <= TwoTo[Group]
    BY <1>1, <2>1, Powers, PowerOrder
  <2> QED
    BY <2>1, <2>2, Powers DEF Base
<1> QED
  BY <1>2, <1>4, <1>7, <1>8, <1>9, <1>10 DEF m

LEMMA Weights ==
    ASSUME CodecAssumption
    PROVE  /\ Weight(0) = 1 /\ Weight(1) = Base
           /\ \A i \in 0..MaxBytes : Weight(i) \in Nat /\ Weight(i) >= 1
           /\ \A i \in 1..MaxBytes : Weight(i) = Base * Weight(i - 1)
<1>1. Group \in Nat /\ Group >= 1 /\ Group <= Most
  BY DEF CodecAssumption, Most
<1>2. Weight(0) = 1 /\ Weight(1) = Base
  BY <1>1, Powers DEF Weight, Base
<1>3. \A i \in 0..MaxBytes : Weight(i) \in Nat /\ Weight(i) >= 1
  BY Widths, Powers DEF Weight
<1>4. ASSUME NEW i \in 1..MaxBytes PROVE Weight(i) = Base * Weight(i - 1)
  <2>1. Group * i \in Nat /\ Group * i <= Most /\ Group * (i - 1) \in Nat
    BY Widths
  <2>2. Group * i = Group + Group * (i - 1)
    BY <1>1
  <2>3. TwoTo[Group + Group * (i - 1)] = TwoTo[Group] * TwoTo[Group * (i - 1)]
    BY <1>1, <2>1, <2>2, PowerSum
  <2> QED
    BY <2>2, <2>3 DEF Weight, Base
<1> QED
  BY <1>2, <1>3, <1>4

LEMMA Rooms ==
    ASSUME CodecAssumption
    PROVE  /\ Room(0) = TwoTo[Bits] /\ Room(MaxBytes - 1) = TwoTo[LastBits]
           /\ TwoTo[LastBits] <= Base
           /\ \A i \in 0..(MaxBytes - 1) : Room(i) \in Nat /\ Room(i) >= 1
           /\ \A i \in 1..(MaxBytes - 1) : Room(i - 1) = Base * Room(i)
           /\ TwoTo[Bits] <= Weight(MaxBytes)
<1>1. /\ Group \in Nat /\ Group >= 1 /\ Bits \in Nat /\ Bits >= 1 /\ Most \in Nat
      /\ Group <= Most /\ Bits <= Most
  BY DEF CodecAssumption, Most
<1>2. Room(0) = TwoTo[Bits] /\ Room(MaxBytes - 1) = TwoTo[LastBits]
  <2> DEFINE g == Group * (MaxBytes - 1)
  <2>1. Bits = g + LastBits /\ g \in Nat /\ LastBits \in Nat /\ Group * 0 = 0
    BY Widths, <1>1
  <2> HIDE DEF g
  <2>2. Bits - g = LastBits /\ Bits - 0 = Bits
    BY <1>1, <2>1
  <2> QED
    BY <2>1, <2>2 DEF Room, g
<1>3. TwoTo[LastBits] <= Base
  <2>1. LastBits \in 0..Most /\ Group \in 0..Most /\ LastBits <= Group
    BY <1>1, Widths
  <2> QED
    BY <2>1, PowerOrder DEF Base
<1>4. \A i \in 0..(MaxBytes - 1) : Room(i) \in Nat /\ Room(i) >= 1
  BY Widths, Powers DEF Room
<1>5. ASSUME NEW i \in 1..(MaxBytes - 1) PROVE Room(i - 1) = Base * Room(i)
  <2>1. Group * i \in Nat /\ i - 1 \in 0..(MaxBytes - 1) /\ i \in 0..(MaxBytes - 1)
    BY Widths
  <2>2. Group * (i - 1) = Group * i - Group
    BY <1>1
  <2> DEFINE g == Group * i
  <2>3. /\ g \in Nat /\ Bits - g \in Nat /\ Bits - Group * (i - 1) = Group + (Bits - g)
        /\ Bits - Group * (i - 1) <= Most
    <3>1. Bits - g \in Nat /\ Bits - Group * (i - 1) <= Most
      BY <2>1, Widths
    <3> QED
      BY <3>1, <2>1, <2>2, <1>1
  <2> HIDE DEF g
  <2>4. TwoTo[Group + (Bits - g)] = TwoTo[Group] * TwoTo[Bits - g]
    BY <2>3, <1>1, PowerSum
  <2> QED
    BY <2>3, <2>4 DEF Room, Base, g
<1>6. TwoTo[Bits] <= Weight(MaxBytes)
  <2>1. Group * (MaxBytes - 1) + Group = Group * MaxBytes
    BY <1>1, Widths
  <2>2. Bits <= Group * MaxBytes
    <3> DEFINE g == Group * (MaxBytes - 1)
    <3>1. g \in Int /\ Bits = g + LastBits /\ LastBits \in 1..Group /\ g + Group = Group * MaxBytes
      BY <2>1, <1>1, Widths
    <3> HIDE DEF g
    <3> QED
      BY <3>1, <1>1
  <2>3. Bits \in 0..Most /\ Group * MaxBytes \in 0..Most
    BY <1>1, Widths
  <2> QED
    BY <2>2, <2>3, PowerOrder DEF Weight
<1> QED
  BY <1>2, <1>3, <1>4, <1>5, <1>6

-----------------------------------------------------------------------------
(* Reading *)

\* One step of ReadU32: what is read from place i on, if r is read from the next.
Stops(data, i) ==
    \/ i > Len(data) \/ i > MaxBytes
    \/ i = MaxBytes /\ ~LastByteFits(data[i])
    \/ ~More(data[i])
StopValue(data, i) ==
    IF i > Len(data) \/ i > MaxBytes THEN Invalid
    ELSE IF i = MaxBytes /\ ~LastByteFits(data[i]) THEN Invalid
    ELSE [value |-> data[i], size |-> i]
Further(data, i, r) ==
    IF r = Invalid THEN Invalid ELSE [value |-> Low(data[i]) + Base * r.value, size |-> r.size]

Reads(from, data) ==
    /\ from \in [1..(Len(data) + 1) -> [value : Int, size : Int]]
    /\ \A i \in 1..(Len(data) + 1) :
         from[i] = IF Stops(data, i) THEN StopValue(data, i) ELSE Further(data, i, from[i + 1])

LEMMA Bytes ==
    ASSUME CodecAssumption, NEW b \in Byte
    PROVE  /\ b \in Nat /\ Low(b) \in Nat /\ Low(b) < Base
           /\ More(b) <=> b >= Base
           /\ ~More(b) => Low(b) = b
<1>1. b \in Nat
  <2>1. TwoTo[Group + 1] \in Nat
    <3>1. Group + 1 \in 0..Most
      BY DEF CodecAssumption, Most
    <3> QED
      BY <3>1, Powers
  <2> QED
    BY <2>1 DEF Byte
<1>2. Base \in Nat /\ Base >= 2
  BY Widths
<1>3. Low(b) = b % Base /\ (More(b) <=> b >= Base)
  BY DEF Low, More, Base
<1>4. b % Base \in Nat /\ b % Base < Base
  BY <1>1, <1>2, DivMod
<1>5. b < Base => b % Base = b
  <2> SUFFICES ASSUME b < Base PROVE b % Base = b
    OBVIOUS
  <2>1. b = Base * 0 + b
    BY <1>1, <1>2
  <2> QED
    BY <2>1, <1>1, <1>2, DivUnique
<1> QED
  BY <1>1, <1>2, <1>3, <1>4, <1>5

LEMMA ReadBy ==
    ASSUME CodecAssumption, NEW data \in Seq(Byte)
    PROVE  \E from : ReadU32(data) = from[1] /\ Reads(from, data)
<1> DEFINE n == Len(data)
           D == 1..(n + 1)
           S == [value : Int, size : Int]
           Stop == {i \in D : Stops(data, i)}
           rank == [i \in D |-> n + 1 - i]
           base == [i \in Stop |-> StopValue(data, i)]
           prev == [i \in D \ Stop |-> i + 1]
           step == [i \in D \ Stop |-> [r \in S |-> Further(data, i, r)]]
           Body(from, i) ==
             IF i > Len(data) \/ i > MaxBytes THEN Invalid
             ELSE IF i = MaxBytes /\ ~LastByteFits(data[i]) THEN Invalid
             ELSE IF ~More(data[i]) THEN [value |-> data[i], size |-> i]
             ELSE IF from[i + 1] = Invalid THEN Invalid
             ELSE [from[i + 1] EXCEPT !.value = Low(data[i]) + TwoTo[Group] * @]
           Solves(from) == from = [i \in D |-> Body(from, i)]
<1>1. n \in Nat /\ \A i \in 1..n : data[i] \in Byte /\ data[i] \in Nat /\ Low(data[i]) \in Nat
  BY Bytes
<1>2. MaxBytes \in Nat /\ MaxBytes >= 1 /\ Base \in Nat /\ Base = TwoTo[Group]
  BY Widths DEF Base
<1>3. \A i \in D \ Stop : i \in 1..n /\ i + 1 \in D
  BY <1>1 DEF Stops
<1>4. Invalid \in S
  BY DEF Invalid
<1>5. \A i \in Stop : StopValue(data, i) \in S
  BY <1>1, <1>2, <1>4 DEF Stops, StopValue
<1>6. \A i \in D \ Stop, r \in S : Further(data, i, r) \in S
  <2> SUFFICES ASSUME NEW i \in D \ Stop, NEW r \in S, r # Invalid PROVE Further(data, i, r) \in S
    BY <1>4 DEF Further
  <2>1. Low(data[i]) \in Nat /\ r.value \in Int /\ r.size \in Int
    BY <1>1, <1>3
  <2>2. Low(data[i]) + Base * r.value \in Int
    BY <1>2, <2>1
  <2> QED
    BY <2>1, <2>2 DEF Further
<1>7. WellFounded(D, S, n, rank, Stop, base, prev, step)
  <2>1. rank \in [D -> 0..n] /\ Stop \in SUBSET D /\ prev \in [D \ Stop -> D]
        /\ \A i \in D \ Stop : rank[prev[i]] < rank[i]
    BY <1>1, <1>3
  <2> HIDE DEF D, S, Stop, rank, prev
  <2>2. base \in [Stop -> S] /\ step \in [D \ Stop -> [S -> S]]
    BY <1>5, <1>6
  <2> QED
    BY <1>1, <2>1, <2>2 DEF WellFounded
<1>8. PICK g : Recurs(g, D, S, Stop, base, prev, step)
  <2> HIDE DEF D, S, Stop, rank, base, prev, step, n
  <2> QED
    BY <1>7, Recursion
<1>9. g \in [D -> S] /\ \A i \in D : g[i] = IF i \in Stop THEN StopValue(data, i)
                                              ELSE Further(data, i, g[i + 1])
  <2>1. /\ g \in [D -> S]
        /\ \A i \in D : g[i] = IF i \in Stop THEN base[i] ELSE step[i][g[prev[i]]]
    BY <1>8 DEF Recurs
  <2>2. \A i \in D \ Stop : prev[i] = i + 1 /\ g[i + 1] \in S
    BY <1>3, <2>1
  <2> HIDE DEF D, S, Stop
  <2>3. \A i \in D \ Stop : step[i][g[prev[i]]] = Further(data, i, g[i + 1])
    BY <2>2
  <2>4. \A i \in D \cap Stop : base[i] = StopValue(data, i)
    OBVIOUS
  <2> HIDE DEF base, step, prev
  <2> QED
    BY <2>1, <2>3, <2>4
<1>10. ASSUME NEW f \in [D -> S], NEW i \in D
       PROVE  Body(f, i) = IF i \in Stop THEN StopValue(data, i) ELSE Further(data, i, f[i + 1])
  <2>1. CASE i \in Stop
    BY <2>1 DEF Stops, StopValue
  <2>2. CASE i \notin Stop
    <3>1. f[i + 1] \in S
      BY <1>3, <2>2
    <3>2. [f[i + 1] EXCEPT !.value = Low(data[i]) + TwoTo[Group] * @]
            = [value |-> Low(data[i]) + Base * f[i + 1].value, size |-> f[i + 1].size]
      BY <3>1, <1>2
    <3>3. Body(f, i) = IF f[i + 1] = Invalid THEN Invalid
                       ELSE [f[i + 1] EXCEPT !.value = Low(data[i]) + TwoTo[Group] * @]
      BY <2>2 DEF Stops
    <3> QED
      BY <2>2, <3>2, <3>3 DEF Further
  <2> QED
    BY <2>1, <2>2
<1>11. Solves(g)
  <2>1. \A i \in D : g[i] = Body(g, i)
    BY <1>9, <1>10
  <2> HIDE DEF D, S, Body
  <2> QED
    BY <2>1, <1>9
<1> DEFINE from == CHOOSE f : Solves(f)
<1>12. ReadU32(data) = from[1]
  BY DEF ReadU32
<1> HIDE DEF Body
<1>13. Solves(from)
  <2> HIDE DEF Solves
  <2> QED
    BY <1>11
<1>14. \A i \in D : from[i] = Body(from, i)
  <2> HIDE DEF from
  <2> QED
    BY <1>13
<1>15. \A i \in D : g[i] = Body(g, i)
  BY <1>11
<1>16. \A i \in D : from[i + 1] = g[i + 1] \/ i = n + 1 => Body(from, i) = Body(g, i)
  <2> HIDE DEF from
  <2> QED
    BY <1>1 DEF Body
<1> HIDE DEF Solves, from
<1>17. \A i \in D : from[i] = g[i]
  <2> DEFINE Good == {k \in 0..n : from[n + 1 - k] = g[n + 1 - k]}
  <2>1. 0 \in Good
    <3>1. n + 1 \in D /\ n + 1 - 0 = n + 1
      BY <1>1
    <3> HIDE DEF D, n
    <3> QED
      BY <3>1, <1>14, <1>15, <1>16, <1>1
  <2>2. ASSUME NEW k \in 1..n, k - 1 \in Good PROVE k \in Good
    <3>1. n + 1 - k \in D /\ (n + 1 - k) + 1 = n + 1 - (k - 1)
      BY <1>1
    <3>2. from[n + 1 - (k - 1)] = g[n + 1 - (k - 1)]
      BY <2>2
    <3> QED
      BY <3>1, <3>2, <1>14, <1>15, <1>16
  <2> HIDE DEF Good
  <2>3. \A k \in 0..n : k \in Good
    BY <1>1, <2>1, <2>2, Induction
  <2> SUFFICES ASSUME NEW i \in D PROVE from[i] = g[i]
    OBVIOUS
  <2>4. n + 1 - i \in 0..n /\ n + 1 - (n + 1 - i) = i
    BY <1>1
  <2> QED
    BY <2>3, <2>4 DEF Good
<1>18. Reads(g, data)
  <2>1. \A i \in D : i \in Stop <=> Stops(data, i)
    OBVIOUS
  <2> QED
    BY <1>9, <2>1 DEF Reads
<1>19. 1 \in D
  BY <1>1
<1>20. ReadU32(data) = g[1]
  BY <1>12, <1>17, <1>19
<1> QED
  BY <1>18, <1>20

\* From place i to place s there are the digits of v.
DigitsFrom(data, i, s, v) ==
    /\ s \in i..Len(data) /\ s <= MaxBytes /\ v \in Nat
    /\ v < Weight(s - i + 1) /\ v < Room(i - 1)
    /\ \A j \in i..s : (More(data[j]) <=> j < s) /\ Low(data[j]) = (v \div Weight(j - i)) % Base

\* The digits of v behind the first one are those of v \div Base.
LEMMA NextDigit ==
    ASSUME CodecAssumption, NEW k \in 1..MaxBytes, NEW v \in Int
    PROVE  /\ v \div Weight(k) = (v \div Base) \div Weight(k - 1)
           /\ v < Weight(k) <=> v \div Base < Weight(k - 1)
<1>1. /\ Weight(k) = Base * Weight(k - 1) /\ Base \in Nat /\ Base >= 1
      /\ Weight(k - 1) \in Nat /\ Weight(k - 1) >= 1
  BY Widths, Weights
<1> QED
  <2> DEFINE a == Weight(k - 1)
             c == Weight(k)
  <2>1. /\ c = Base * a /\ a \in Nat /\ a >= 1 /\ a \in Int /\ c \in Int
        /\ Base \in Nat /\ Base >= 1
    BY <1>1
  <2> HIDE DEF a, c
  <2>2. (v \div Base) \div a = v \div c
    BY <2>1, DivDiv, Zenon
  <2>3. v < c <=> v \div Base < a
    BY <2>1, DivLess, Zenon
  <2> QED
    BY <2>2, <2>3 DEF a, c

LEMMA OneDigit ==
    ASSUME CodecAssumption, NEW data \in Seq(Byte), NEW i \in 1..Len(data), i <= MaxBytes,
           ~More(data[i]), i = MaxBytes => LastByteFits(data[i])
    PROVE  DigitsFrom(data, i, i, data[i])
<1> DEFINE b == data[i]
<1>1. b \in Byte /\ b \in Nat /\ Low(b) = b /\ b < Base
  BY Bytes
<1>2. b < Weight(1) /\ (b \div Weight(0)) % Base = b
  <2>1. Weight(0) = 1 /\ Weight(1) = Base /\ Base \in Nat /\ Base >= 2
    BY Weights, Widths
  <2>2. b = 1 * b + 0 /\ b = Base * 0 + b
    BY <1>1, <2>1
  <2>3. b \div 1 = b /\ b % Base = b
    BY <1>1, <2>1, <2>2, DivUnique
  <2> QED
    BY <1>1, <2>1, <2>3
<1>3. b < Room(i - 1)
  <2>1. CASE i = MaxBytes
    BY <2>1, Rooms DEF LastByteFits
  <2>2. CASE i < MaxBytes
    <3>1. i \in 1..(MaxBytes - 1) /\ MaxBytes \in Nat
      BY <2>2, Widths
    <3>2. Room(i - 1) = Base * Room(i) /\ Room(i) \in Nat /\ Room(i) >= 1
      BY <3>1, Rooms
    <3> DEFINE r == Room(i)
    <3>3. r \in Nat /\ r >= 1 /\ Room(i - 1) = Base * r /\ Base \in Nat /\ Base >= 2
      BY <3>2, Widths
    <3> HIDE DEF r
    <3>4. Base <= Base * r
      BY <3>3
    <3> QED
      BY <1>1, <3>3, <3>4
  <2> QED
    BY <2>1, <2>2, Widths
<1>4. i \in i..Len(data) /\ i - i + 1 = 1 /\ i - i = 0 /\ i..i = {i}
  OBVIOUS
<1> HIDE DEF b
<1> QED
  BY <1>1, <1>2, <1>3, <1>4 DEF DigitsFrom, b

LEMMA DigitsOn ==
    ASSUME CodecAssumption, NEW data \in Seq(Byte), NEW i \in 1..Len(data), i < MaxBytes,
           More(data[i]), NEW s, NEW v, DigitsFrom(data, i + 1, s, v)
    PROVE  DigitsFrom(data, i, s, Low(data[i]) + Base * v)
<1> DEFINE l == Low(data[i])
           w == l + Base * v
<1>1. l \in Nat /\ l < Base /\ Base \in Nat /\ Base >= 2
  <2>1. data[i] \in Byte
    OBVIOUS
  <2> QED
    BY <2>1, Bytes, Widths
<1>2. /\ s \in (i + 1)..Len(data) /\ s <= MaxBytes /\ v \in Nat /\ MaxBytes \in Nat
      /\ v < Weight(s - (i + 1) + 1) /\ v < Room((i + 1) - 1)
      /\ \A j \in (i + 1)..s : (More(data[j]) <=> j < s)
                                /\ Low(data[j]) = (v \div Weight(j - (i + 1))) % Base
  BY Widths DEF DigitsFrom
<1>3. w \in Nat /\ w \div Base = v /\ w % Base = l
  <2>1. v \in Nat
    BY <1>2
  <2> HIDE DEF l
  <2>2. w \in Nat /\ w = Base * v + l
    BY <1>1, <2>1
  <2> HIDE DEF w
  <2>3. w \div Base = v /\ w % Base = l
    <3>1. /\ Base \in Nat /\ v \in Int /\ l \in Nat /\ l < Base /\ w \in Int
          /\ w = Base * v + l
      BY <2>1, <2>2, <1>1
    <3> QED
      BY <3>1, DivUnique, Zenon
  <2> QED
    BY <2>2, <2>3
<1> HIDE DEF w, l
<1>4. w < Weight(s - i + 1)
  <2>1. s - i + 1 \in 1..MaxBytes /\ (s - i + 1) - 1 = s - (i + 1) + 1
    BY <1>2
  <2> QED
    BY <2>1, <1>2, <1>3, NextDigit
<1>5. w < Room(i - 1)
  <2>1. i \in 1..(MaxBytes - 1) /\ (i + 1) - 1 = i
    BY <1>2
  <2> DEFINE b == Room(i)
             c == Room(i - 1)
  <2>2. c = Base * b /\ b \in Nat /\ v < b
    BY <2>1, <1>2, Rooms
  <2> HIDE DEF b, c
  <2>3. w < c <=> w \div Base < b
    BY <2>2, <1>1, <1>3, DivLess
  <2> QED
    BY <2>2, <2>3, <1>3 DEF c
<1>6. ASSUME NEW j \in i..s
      PROVE  (More(data[j]) <=> j < s) /\ Low(data[j]) = (w \div Weight(j - i)) % Base
  <2>1. CASE j = i
    <3>1. w \div 1 = w
      <4>1. w = 1 * w + 0
        BY <1>3
      <4> QED
        BY <4>1, <1>3, DivUnique
    <3>2. Weight(j - i) = 1 /\ i < s
      BY <2>1, <1>2, Weights
    <3> QED
      BY <2>1, <3>1, <3>2, <1>3 DEF l
  <2>2. CASE j > i
    <3>1. j \in (i + 1)..s /\ j - i \in 1..MaxBytes /\ (j - i) - 1 = j - (i + 1)
      BY <2>2, <1>2
    <3>2. w \div Weight(j - i) = v \div Weight(j - (i + 1))
      BY <3>1, <1>3, NextDigit
    <3> QED
      BY <3>1, <3>2, <1>2
  <2> QED
    BY <2>1, <2>2, <1>2
<1>7. s \in i..Len(data) /\ s <= MaxBytes
  BY <1>2
<1>8. DigitsFrom(data, i, s, w)
  BY <1>3, <1>4, <1>5, <1>6, <1>7 DEF DigitsFrom
<1> QED
  BY <1>8 DEF w, l

LEMMA DigitsBehind ==
    ASSUME CodecAssumption, NEW data \in Seq(Byte), NEW i \in 1..Len(data),
           NEW s, NEW v, DigitsFrom(data, i, s, v), i < s
    PROVE  DigitsFrom(data, i + 1, s, v \div Base)
<1> DEFINE u == v \div Base
<1>1. Base \in Nat /\ Base >= 2 /\ MaxBytes \in Nat
  BY Widths
<1>2. /\ s \in i..Len(data) /\ s <= MaxBytes /\ v \in Nat
      /\ v < Weight(s - i + 1) /\ v < Room(i - 1)
      /\ \A j \in i..s : (More(data[j]) <=> j < s)
                          /\ Low(data[j]) = (v \div Weight(j - i)) % Base
  BY DEF DigitsFrom
<1>3. u \in Nat
  BY <1>1, <1>2
<1> HIDE DEF u
<1>4. u < Weight(s - (i + 1) + 1)
  <2>1. s - i + 1 \in 1..MaxBytes /\ (s - i + 1) - 1 = s - (i + 1) + 1
    BY <1>1, <1>2
  <2> QED
    BY <2>1, <1>2, NextDigit DEF u
<1>5. u < Room((i + 1) - 1)
  <2>1. i \in 1..(MaxBytes - 1) /\ (i + 1) - 1 = i
    BY <1>1, <1>2
  <2> DEFINE b == Room(i)
             c == Room(i - 1)
  <2>2. c = Base * b /\ b \in Nat /\ v < c
    BY <2>1, <1>2, Rooms
  <2> HIDE DEF b, c
  <2>3. v < c <=> v \div Base < b
    BY <2>2, <1>1, <1>2, DivLess
  <2> QED
    BY <2>1, <2>2, <2>3 DEF b, u
<1>6. ASSUME NEW j \in (i + 1)..s
      PROVE  (More(data[j]) <=> j < s) /\ Low(data[j]) = (u \div Weight(j - (i + 1))) % Base
  <2>1. j \in i..s /\ j - i \in 1..MaxBytes /\ (j - i) - 1 = j - (i + 1)
    BY <1>1, <1>2
  <2>2. v \div Weight(j - i) = u \div Weight(j - (i + 1))
    BY <2>1, <1>2, NextDigit DEF u
  <2> QED
    BY <2>1, <2>2, <1>2
<1>7. s \in (i + 1)..Len(data) /\ s <= MaxBytes
  BY <1>2
<1>8. DigitsFrom(data, i + 1, s, u)
  BY <1>3, <1>4, <1>5, <1>6, <1>7 DEF DigitsFrom
<1> QED
  BY <1>8 DEF u

\* What is read from a place on is there, and nothing is there if it is refused.
LEMMA ReadFrom ==
    ASSUME CodecAssumption, NEW data \in Seq(Byte), NEW from, Reads(from, data)
    PROVE  \A i \in 1..(Len(data) + 1) :
              /\ from[i] # Invalid => DigitsFrom(data, i, from[i].size, from[i].value)
              /\ from[i] = Invalid => \A s, v : ~DigitsFrom(data, i, s, v)
<1> DEFINE n == Len(data)
           Right(i) == /\ from[i] # Invalid => DigitsFrom(data, i, from[i].size, from[i].value)
                       /\ from[i] = Invalid => \A s, v : ~DigitsFrom(data, i, s, v)
           Good == {k \in 0..n : Right(n + 1 - k)}
<1>1. n \in Nat /\ MaxBytes \in Nat /\ MaxBytes >= 1
  BY Widths
<1>2. \A i \in 1..(n + 1) :
         from[i] = IF Stops(data, i) THEN StopValue(data, i) ELSE Further(data, i, from[i + 1])
  BY DEF Reads
<1>3. ASSUME NEW i \in 1..(n + 1), Stops(data, i) PROVE Right(i)
  <2>1. CASE i > n \/ i > MaxBytes
    <3>1. from[i] = Invalid
      BY <1>2, <1>3, <2>1 DEF StopValue
    <3>2. \A s, v : ~DigitsFrom(data, i, s, v)
      BY <1>1, <2>1 DEF DigitsFrom
    <3> QED
      BY <3>1, <3>2
  <2>2. CASE i <= n /\ i = MaxBytes /\ ~LastByteFits(data[i])
    <3>1. from[i] = Invalid
      BY <1>2, <1>3, <2>2 DEF StopValue
    <3> SUFFICES ASSUME NEW s, NEW v, DigitsFrom(data, i, s, v) PROVE FALSE
      BY <3>1
    <3>2. /\ s = i /\ v \in Nat /\ v < Room(MaxBytes - 1) /\ v < Weight(1)
          /\ ~More(data[i]) /\ Low(data[i]) = (v \div Weight(0)) % Base
      <4>1. s \in i..n /\ s <= MaxBytes
        BY DEF DigitsFrom
      <4>2. s = i /\ i - i + 1 = 1 /\ i - i = 0 /\ i \in i..s
        BY <1>1, <2>2, <4>1
      <4> QED
        BY <2>2, <4>2 DEF DigitsFrom
    <3>3. v \div 1 = v /\ v % Base = v
      <4>1. v = 1 * v + 0 /\ v = Base * 0 + v /\ v < Base /\ Base \in Nat
        BY <3>2, Weights, Widths
      <4> QED
        BY <4>1, <3>2, DivUnique
    <3>4. v = data[i]
      <4>1. data[i] \in Byte
        BY <1>1, <2>2
      <4> QED
        BY <4>1, <3>2, <3>3, Bytes, Weights
    <3> QED
      BY <2>2, <3>2, <3>4, Rooms DEF LastByteFits
  <2>3. CASE i <= n /\ i <= MaxBytes /\ ~More(data[i]) /\ (i = MaxBytes => LastByteFits(data[i]))
    <3>1. from[i] = [value |-> data[i], size |-> i]
      BY <1>1, <1>2, <1>3, <2>3 DEF StopValue
    <3>2. from[i] # Invalid
      BY <3>1, <1>1 DEF Invalid
    <3>3. DigitsFrom(data, i, i, data[i])
      BY <1>1, <2>3, OneDigit
    <3> QED
      BY <3>1, <3>2, <3>3
  <2> QED
    BY <1>1, <1>3, <2>1, <2>2, <2>3 DEF Stops
<1>4. ASSUME NEW i \in 1..n, ~Stops(data, i), Right(i + 1) PROVE Right(i)
  <2>1. i < MaxBytes /\ More(data[i])
    <3>1. i <= MaxBytes /\ More(data[i]) /\ (i = MaxBytes => LastByteFits(data[i]))
      BY <1>1, <1>4 DEF Stops
    <3>2. data[i] \in Byte
      OBVIOUS
    <3>3. LastByteFits(data[i]) => ~More(data[i])
      <4>1. data[i] \in Nat /\ (More(data[i]) <=> data[i] >= Base)
        BY <3>2, Bytes
      <4>2. TwoTo[LastBits] <= Base /\ TwoTo[LastBits] \in Nat /\ Base \in Nat
        <5>1. LastBits \in 0..Most
          BY Widths DEF Most, CodecAssumption
        <5> QED
          BY <5>1, Rooms, Powers, Widths
      <4> QED
        BY <4>1, <4>2 DEF LastByteFits
    <3> QED
      BY <1>1, <3>1, <3>3
  <2>2. from[i] = Further(data, i, from[i + 1]) /\ i + 1 \in 1..(n + 1)
    BY <1>1, <1>2, <1>4
  <2>3. CASE from[i + 1] = Invalid
    <3>1. from[i] = Invalid
      BY <2>2, <2>3 DEF Further
    <3> SUFFICES ASSUME NEW s, NEW v, DigitsFrom(data, i, s, v) PROVE FALSE
      BY <3>1
    <3>2. i < s
      BY <2>1 DEF DigitsFrom
    <3>3. DigitsFrom(data, i + 1, s, v \div Base)
      BY <3>2, DigitsBehind
    <3> QED
      BY <3>3, <1>4, <2>3
  <2>4. CASE from[i + 1] # Invalid
    <3> DEFINE r == from[i + 1]
    <3>1. DigitsFrom(data, i + 1, r.size, r.value)
      BY <1>4, <2>4
    <3>2. from[i] = [value |-> Low(data[i]) + Base * r.value, size |-> r.size]
      BY <2>2, <2>4 DEF Further
    <3> HIDE DEF r
    <3>3. DigitsFrom(data, i, r.size, Low(data[i]) + Base * r.value)
      BY <2>1, <3>1, DigitsOn
    <3>4. DigitsFrom(data, i, from[i].size, from[i].value)
      BY <3>2, <3>3
    <3>5. from[i].value \in Nat
      BY <3>4 DEF DigitsFrom
    <3>6. from[i] # Invalid
      BY <3>5 DEF Invalid
    <3> QED
      BY <3>4, <3>6
  <2> QED
    BY <2>3, <2>4
<1>5. 0 \in Good
  <2>1. n + 1 \in 1..(n + 1) /\ Stops(data, n + 1) /\ n + 1 - 0 = n + 1
    BY <1>1 DEF Stops
  <2>2. Right(n + 1)
    BY <2>1, <1>3
  <2> HIDE DEF Right
  <2> QED
    BY <2>1, <2>2, <1>1
<1>6. ASSUME NEW k \in 1..n, k - 1 \in Good PROVE k \in Good
  <2> DEFINE i == n + 1 - k
  <2>1. i \in 1..n /\ i \in 1..(n + 1) /\ n + 1 - (k - 1) = i + 1
    BY <1>1
  <2>2. Right(i + 1)
    <3> HIDE DEF Right
    <3> QED
      BY <1>6, <2>1
  <2> HIDE DEF i
  <2>3. Right(i)
    BY <2>1, <2>2, <1>3, <1>4
  <2> HIDE DEF Right
  <2> QED
    BY <2>3 DEF i
<1> HIDE DEF Good
<1>7. \A k \in 0..n : k \in Good
  BY <1>1, <1>5, <1>6, Induction
<1> SUFFICES ASSUME NEW i \in 1..(n + 1) PROVE Right(i)
  OBVIOUS
<1>8. n + 1 - i \in 0..n /\ n + 1 - (n + 1 - i) = i
  BY <1>1
<1> HIDE DEF Right
<1> QED
  BY <1>7, <1>8 DEF Good

LEMMA Denoted ==
    ASSUME CodecAssumption, NEW data \in Seq(Byte), NEW n \in 1..Len(data), NEW v
    PROVE  DenotesU(SubSeq(data, 1, n), v) <=> DigitsFrom(data, 1, n, v)
<1> DEFINE d == SubSeq(data, 1, n)
<1>1. Len(d) = n /\ \A i \in 1..n : d[i] = data[i]
  OBVIOUS
<1>2. /\ n \in Nat /\ MaxBytes \in Nat /\ TwoTo[Bits] \in Nat /\ 1 - 1 = 0 /\ n - 1 + 1 = n
      /\ Room(0) = TwoTo[Bits]
  <2>1. Bits \in 0..Most
    BY DEF CodecAssumption, Most
  <2> QED
    BY <2>1, Widths, Powers, Rooms
<1> HIDE DEF d
<1>3. v \in 0..(TwoTo[Bits] - 1) <=> v \in Nat /\ v < Room(1 - 1)
  BY <1>2
<1>4. DenotesU(d, v) <=>
        /\ n \in 1..MaxBytes
        /\ \A i \in 1..n : (More(data[i]) <=> i < n) /\ Low(data[i]) = (v \div Weight(i - 1)) % Base
        /\ v \in Nat /\ v < Room(1 - 1) /\ v < Weight(n)
  BY <1>1, <1>3 DEF DenotesU, Digits, Weight, Base
<1>5. DigitsFrom(data, 1, n, v) <=>
        /\ n <= MaxBytes /\ v \in Nat /\ v < Weight(n) /\ v < Room(1 - 1)
        /\ \A i \in 1..n : (More(data[i]) <=> i < n) /\ Low(data[i]) = (v \div Weight(i - 1)) % Base
  BY <1>2 DEF DigitsFrom
<1>6. n \in 1..MaxBytes <=> n <= MaxBytes
  BY <1>2
<1> QED
  BY <1>4, <1>5, <1>6 DEF d

\* A number is read as the number that its bytes denote, and refused only if
\* they denote none, however many follow.
THEOREM ReadIsExact ==
    ASSUME CodecAssumption, NEW data \in Seq(Byte)
    PROVE  LET r == ReadU32(data) IN
           /\ r.value # Invalid.value =>
                /\ r.size \in 1..Len(data) /\ r.value \in 0..(TwoTo[Bits] - 1)
                /\ DenotesU(SubSeq(data, 1, r.size), r.value)
           /\ r.value = Invalid.value =>
                \A n \in 1..Len(data), v \in Nat : ~DenotesU(SubSeq(data, 1, n), v)
<1> DEFINE r == ReadU32(data)
<1>1. PICK from : ReadU32(data) = from[1] /\ Reads(from, data)
  BY ReadBy
<1>2. /\ r # Invalid => DigitsFrom(data, 1, r.size, r.value)
      /\ r = Invalid => \A s, v : ~DigitsFrom(data, 1, s, v)
  <2>1. 1 \in 1..(Len(data) + 1)
    OBVIOUS
  <2> QED
    BY <1>1, <2>1, ReadFrom
<1> HIDE DEF r
<1>3. ASSUME r.value # Invalid.value
      PROVE  /\ r.size \in 1..Len(data) /\ r.value \in 0..(TwoTo[Bits] - 1)
             /\ DenotesU(SubSeq(data, 1, r.size), r.value)
  <2>1. DigitsFrom(data, 1, r.size, r.value)
    BY <1>2, <1>3
  <2>2. r.size \in 1..Len(data)
    BY <2>1 DEF DigitsFrom
  <2>3. DenotesU(SubSeq(data, 1, r.size), r.value)
    BY <2>1, <2>2, Denoted
  <2> QED
    BY <2>2, <2>3 DEF DenotesU
<1>4. ASSUME r.value = Invalid.value
      PROVE  \A n \in 1..Len(data), v \in Nat : ~DenotesU(SubSeq(data, 1, n), v)
  <2>1. r = Invalid
    <3> SUFFICES ASSUME r # Invalid PROVE FALSE
      OBVIOUS
    <3>1. r.value \in Nat
      BY <1>2 DEF DigitsFrom
    <3> QED
      BY <1>4, <3>1 DEF Invalid
  <2> QED
    BY <1>2, <2>1, Denoted
<1> QED
  BY <1>3, <1>4 DEF r

-----------------------------------------------------------------------------
(* Writing *)

\* The low bits of a number, with the bit that says that there are more.
LEMMA LowBits ==
    ASSUME CodecAssumption, NEW v \in Int
    PROVE  /\ Low(v) \in Byte /\ ~More(Low(v)) /\ Low(Low(v)) = v % Base
           /\ Low(v) + Base \in Byte /\ More(Low(v) + Base) /\ Low(Low(v) + Base) = v % Base
           /\ Low(v) = v % Base /\ v % Base \in Nat /\ v % Base < Base
<1> DEFINE l == v % Base
<1>1. Base \in Nat /\ Base >= 2 /\ TwoTo[Group + 1] = 2 * Base
  <2>1. Group + 1 \in 1..Most /\ (Group + 1) - 1 = Group
    BY DEF CodecAssumption, Most
  <2> QED
    BY <2>1, Widths, Powers DEF Base
<1>2. l \in Nat /\ l < Base
  BY <1>1, DivMod
<1>3. Low(v) = l
  BY DEF Low, Base
<1> HIDE DEF l
<1>4. l \in Byte /\ l + Base \in Byte
  BY <1>1, <1>2 DEF Byte
<1>5. ~More(l) /\ Low(l) = l
  BY <1>1, <1>2, <1>4, Bytes
<1>6. More(l + Base)
  BY <1>1, <1>2, <1>4, Bytes
<1>7. Low(l + Base) = l
  <2>1. l + Base = Base * 1 + l /\ l + Base \in Int /\ 1 \in Int
    BY <1>1, <1>2
  <2>2. (l + Base) % Base = l
    BY <2>1, <1>1, <1>2, DivUnique
  <2> QED
    BY <2>2 DEF Low, Base
<1> QED
  BY <1>2, <1>3, <1>4, <1>5, <1>6, <1>7 DEF l

LEMMA DigitAlone ==
    ASSUME CodecAssumption, NEW v \in Int
    PROVE  <<Low(v)>> \in Seq(Byte) /\ Len(<<Low(v)>>) = 1 /\ Digits(<<Low(v)>>, v)
<1> DEFINE l == Low(v)
<1>1. l \in Byte /\ ~More(l) /\ Low(l) = v % Base
  BY LowBits
<1>2. v \div Weight(0) = v
  <2>1. v = 1 * v + 0 /\ Weight(0) = 1
    BY Weights
  <2> QED
    BY <2>1, DivUnique
<1>3. MaxBytes \in Nat /\ MaxBytes >= 1
  BY Widths
<1> HIDE DEF l
<1>4. Len(<<l>>) = 1 /\ <<l>>[1] = l /\ <<l>> \in Seq(Byte)
  BY <1>1
<1>5. Low(l) = (v \div TwoTo[Group * (1 - 1)]) % TwoTo[Group]
  <2>1. Group * (1 - 1) = Group * 0
    BY DEF CodecAssumption
  <2> QED
    BY <2>1, <1>1, <1>2 DEF Weight, Base
<1>6. Digits(<<l>>, v)
  BY <1>1, <1>3, <1>4, <1>5 DEF Digits
<1> QED
  BY <1>4, <1>6 DEF l

LEMMA DigitBefore ==
    ASSUME CodecAssumption, NEW v \in Int, NEW t \in Seq(Byte), Len(t) < MaxBytes,
           Digits(t, v \div Base)
    PROVE  LET s == <<Low(v) + Base>> \o t IN
           s \in Seq(Byte) /\ Len(s) = Len(t) + 1 /\ Digits(s, v)
<1> DEFINE l == Low(v) + Base
           s == <<l>> \o t
           u == v \div Base
<1>1. l \in Byte /\ More(l) /\ Low(l) = v % Base
  BY LowBits
<1>2. MaxBytes \in Nat /\ MaxBytes >= 1 /\ Len(t) \in 1..MaxBytes
  BY Widths DEF Digits
<1>3. \A i \in 1..Len(t) : (More(t[i]) <=> i < Len(t)) /\ Low(t[i]) = (u \div Weight(i - 1)) % Base
  BY DEF Digits, Weight, Base
<1> HIDE DEF l, u
<1>4. /\ s \in Seq(Byte) /\ Len(s) = Len(t) + 1 /\ s[1] = l
      /\ \A i \in 2..(Len(t) + 1) : s[i] = t[i - 1]
  BY <1>1, <1>2
<1> HIDE DEF s
<1>5. ASSUME NEW i \in 1..Len(s)
      PROVE  (More(s[i]) <=> i < Len(s)) /\ Low(s[i]) = (v \div Weight(i - 1)) % Base
  <2>1. CASE i = 1
    <3>1. v \div Weight(i - 1) = v
      <4>1. v = 1 * v + 0 /\ Weight(i - 1) = 1
        BY <2>1, Weights
      <4> QED
        BY <4>1, DivUnique
    <3> QED
      BY <2>1, <3>1, <1>1, <1>2, <1>4
  <2>2. CASE i > 1
    <3>1. i - 1 \in 1..Len(t) /\ s[i] = t[i - 1] /\ i - 1 \in 1..MaxBytes
      BY <2>2, <1>2, <1>4
    <3>2. v \div Weight(i - 1) = u \div Weight((i - 1) - 1)
      BY <3>1, NextDigit DEF u
    <3> QED
      BY <3>1, <3>2, <1>2, <1>3, <1>4
  <2> QED
    BY <2>1, <2>2
<1>6. Digits(s, v)
  BY <1>2, <1>4, <1>5 DEF Digits, Weight, Base
<1> QED
  BY <1>4, <1>6 DEF s, l

\* What is behind the first digit of a number that has more.
LEMMA Quotient ==
    ASSUME CodecAssumption, NEW v \in Nat, v >= Base
    PROVE  v \div Base \in Nat /\ v \div Base < v
<1> DEFINE q == v \div Base
           r == v % Base
<1>1. Base \in Nat /\ Base >= 2
  BY Widths
<1>2. q \in Int /\ r \in Nat /\ r < Base /\ v = Base * q + r
  BY <1>1, DivMod
<1> HIDE DEF q, r
<1>3. q >= 0
  <2> SUFFICES ASSUME q <= -1 PROVE FALSE
    BY <1>2
  <2>1. Base * q <= -Base
    BY <1>1, <1>2
  <2> QED
    BY <2>1, <1>1, <1>2
<1>4. q < v
  <2>1. 2 * q <= Base * q
    BY <1>1, <1>2, <1>3
  <2> QED
    BY <2>1, <1>1, <1>2, <1>3
<1> QED
  BY <1>2, <1>3, <1>4 DEF q

\* One step of AppendU32.
LEMMA PutBy ==
    ASSUME CodecAssumption, NEW value \in Nat
    PROVE  \E put : /\ AppendU32(value) = put[value]
                    /\ \A v \in 0..value :
                         put[v] = IF v < Base THEN <<v>>
                                  ELSE <<Low(v) + Base>> \o put[v \div Base]
<1> DEFINE D == 0..value
           S == Seq(Byte)
           Stop == {v \in D : v < Base}
           rank == [v \in D |-> v]
           base == [v \in Stop |-> <<v>>]
           prev == [v \in D \ Stop |-> v \div Base]
           step == [v \in D \ Stop |-> [t \in S |-> <<Low(v) + Base>> \o t]]
           Solves(put) == put = [v \in D |-> IF v < Base THEN <<v>>
                                             ELSE <<Low(v) + Base>> \o put[v \div Base]]
<1>1. Base \in Nat /\ Base >= 2
  BY Widths
<1>2. ASSUME NEW v \in D \ Stop PROVE v \div Base \in D /\ v \div Base < v
  <2>1. v \in Nat /\ v <= value /\ v >= Base
    BY <1>1
  <2>2. v \div Base \in Nat /\ v \div Base < v
    BY <2>1, Quotient
  <2> QED
    BY <2>1, <2>2
<1>3. \A v \in Stop : <<v>> \in S
  <2> SUFFICES ASSUME NEW v \in Stop PROVE v \in Byte
    OBVIOUS
  <2>1. v \in Nat /\ v < Base
    BY <1>1
  <2>2. v = Base * 0 + v
    BY <2>1, <1>1
  <2>3. v % Base = v
    BY <2>1, <2>2, <1>1, DivUnique
  <2> QED
    BY <2>1, <2>3, LowBits
<1>4. \A v \in D \ Stop, t \in S : <<Low(v) + Base>> \o t \in S
  <2> SUFFICES ASSUME NEW v \in D \ Stop, NEW t \in S PROVE <<Low(v) + Base>> \o t \in S
    OBVIOUS
  <2>1. Low(v) + Base \in Byte
    BY LowBits
  <2> QED
    BY <2>1
<1>5. WellFounded(D, S, value, rank, Stop, base, prev, step)
  <2>1. /\ rank \in [D -> 0..value] /\ Stop \in SUBSET D /\ prev \in [D \ Stop -> D]
        /\ \A v \in D \ Stop : rank[prev[v]] < rank[v]
    BY <1>2
  <2> HIDE DEF D, S, Stop, rank, prev
  <2>2. base \in [Stop -> S] /\ step \in [D \ Stop -> [S -> S]]
    BY <1>3, <1>4
  <2> QED
    BY <2>1, <2>2 DEF WellFounded
<1>6. PICK g : Recurs(g, D, S, Stop, base, prev, step)
  <2> HIDE DEF D, S, Stop, rank, base, prev, step
  <2> QED
    BY <1>5, Recursion
<1>7. Solves(g)
  <2>1. /\ g \in [D -> S]
        /\ \A v \in D : g[v] = IF v \in Stop THEN base[v] ELSE step[v][g[prev[v]]]
    BY <1>6 DEF Recurs
  <2>2. \A v \in D \ Stop : prev[v] = v \div Base /\ g[v \div Base] \in S
    BY <1>2, <2>1
  <2>3. \A v \in D : v \in Stop <=> v < Base
    OBVIOUS
  <2> HIDE DEF D, S, Stop
  <2>4. \A v \in D \ Stop : step[v][g[prev[v]]] = <<Low(v) + Base>> \o g[v \div Base]
    BY <2>2
  <2>5. \A v \in D \cap Stop : base[v] = <<v>>
    OBVIOUS
  <2> HIDE DEF base, step, prev
  <2>6. \A v \in D : g[v] = IF v < Base THEN <<v>> ELSE <<Low(v) + Base>> \o g[v \div Base]
    BY <2>1, <2>3, <2>4, <2>5
  <2> QED
    BY <2>1, <2>6
<1> DEFINE put == CHOOSE f : Solves(f)
<1>8. AppendU32(value) = put[value]
  BY DEF AppendU32, Base
<1>9. Solves(put)
  <2> HIDE DEF Solves
  <2> QED
    BY <1>7
<1> HIDE DEF put
<1>10. \A v \in D : put[v] = IF v < Base THEN <<v>> ELSE <<Low(v) + Base>> \o put[v \div Base]
  BY <1>9
<1> QED
  BY <1>8, <1>10

\* A number is written as bytes that denote it.
THEOREM WrittenIsExact ==
    ASSUME CodecAssumption, NEW value \in 0..(TwoTo[Bits] - 1)
    PROVE  DenotesU(AppendU32(value), value)
<1>1. /\ TwoTo[Bits] \in Nat /\ TwoTo[Bits] <= Weight(MaxBytes) /\ value \in Nat
      /\ Weight(MaxBytes) \in Nat /\ MaxBytes \in Nat /\ MaxBytes >= 1
      /\ Base \in Nat /\ Base >= 2
  <2>1. Bits \in 0..Most
    BY DEF CodecAssumption, Most
  <2>2. TwoTo[Bits] \in Nat /\ MaxBytes \in Nat /\ MaxBytes >= 1
    BY <2>1, Powers, Widths
  <2> QED
    BY <2>2, Rooms, Weights, Widths
<1>2. PICK put : /\ AppendU32(value) = put[value]
                 /\ \A v \in 0..value : put[v] = IF v < Base THEN <<v>>
                                                 ELSE <<Low(v) + Base>> \o put[v \div Base]
  BY <1>1, PutBy
<1> DEFINE Right(v) == \A m \in 1..MaxBytes : v < Weight(m) =>
                          /\ put[v] \in Seq(Byte) /\ Len(put[v]) \in 1..m
                          /\ Digits(put[v], v) /\ v < Weight(Len(put[v]))
           Bad == {v \in 0..value : ~Right(v)}
<1>3. Bad = {}
  <2> SUFFICES ASSUME Bad # {} PROVE FALSE
    OBVIOUS
  <2>1. Bad \in SUBSET Nat
    BY <1>1
  <2>2. PICK v \in Bad : \A w \in Bad : v <= w
    <3> HIDE DEF Bad
    <3> QED
      BY <2>1, LeastElement
  <2>3. v \in 0..value /\ v \in Nat /\ v \in Int
    BY <1>1, <2>2
  <2>4. PICK m \in 1..MaxBytes :
          /\ v < Weight(m)
          /\ ~ (/\ put[v] \in Seq(Byte) /\ Len(put[v]) \in 1..m
                /\ Digits(put[v], v) /\ v < Weight(Len(put[v])))
    BY <2>2
  <2>5. CASE v < Base
    <3>1. Low(v) = v
      <4>1. /\ Base \in Nat /\ 0 \in Int /\ v \in Nat /\ v < Base /\ v \in Int
            /\ v = Base * 0 + v
        BY <2>3, <2>5, <1>1
      <4>2. v % Base = v
        BY <4>1, DivUnique, Zenon
      <4> QED
        BY <4>2, <2>3, LowBits
    <3>2. put[v] = <<Low(v)>>
      BY <1>2, <2>3, <2>5, <3>1
    <3>3. /\ put[v] \in Seq(Byte) /\ Len(put[v]) = 1 /\ Digits(put[v], v)
          /\ v < Weight(Len(put[v]))
      BY <3>2, <2>3, <2>5, DigitAlone, Weights
    <3> QED
      BY <3>3, <2>4
  <2>6. CASE v >= Base
    <3> DEFINE q == v \div Base
               t == put[q]
    <3>1. q \in Nat /\ q < v
      BY <2>3, <2>6, Quotient
    <3>2. q \in 0..value /\ q \notin Bad
      <4> HIDE DEF q
      <4> QED
        BY <3>1, <2>2, <2>3
    <3>3. m - 1 \in 1..MaxBytes
      <4>1. m # 1
        BY <2>3, <2>4, <2>6, <1>1, Weights
      <4> QED
        BY <4>1, <1>1
    <3>4. q < Weight(m - 1)
      BY <2>3, <2>4, NextDigit
    <3>5. t \in Seq(Byte) /\ Len(t) \in 1..(m - 1) /\ Digits(t, q) /\ q < Weight(Len(t))
      <4> HIDE DEF q
      <4> QED
        BY <3>2, <3>3, <3>4
    <3>6. Len(t) < MaxBytes /\ Len(t) + 1 \in 1..m /\ Len(t) + 1 \in 1..MaxBytes
          /\ (Len(t) + 1) - 1 = Len(t)
      BY <3>5, <1>1
    <3>7. put[v] = <<Low(v) + Base>> \o t
      <4>1. ~(v < Base)
        BY <2>3, <2>6, <1>1
      <4> HIDE DEF Bad, Right
      <4> QED
        BY <4>1, <1>2, <2>3
    <3>8. put[v] \in Seq(Byte) /\ Len(put[v]) = Len(t) + 1 /\ Digits(put[v], v)
      <4> HIDE DEF t
      <4> QED
        BY <3>5, <3>6, <3>7, <2>3, DigitBefore
    <3>9. v < Weight(Len(t) + 1)
      <4> HIDE DEF t
      <4> QED
        BY <3>5, <3>6, <2>3, NextDigit
    <3> HIDE DEF t, q
    <3> QED
      BY <3>6, <3>8, <3>9, <2>4
  <2> QED
    BY <2>3, <2>5, <2>6, <1>1
<1>4. /\ put[value] \in Seq(Byte) /\ Digits(put[value], value)
      /\ value < Weight(Len(put[value]))
  <2>1. value \in 0..value /\ value < Weight(MaxBytes) /\ MaxBytes \in 1..MaxBytes
    BY <1>1
  <2>2. Right(value)
    BY <1>3, <2>1
  <2> QED
    BY <2>1, <2>2
<1> QED
  BY <1>2, <1>4 DEF DenotesU, Weight

-----------------------------------------------------------------------------
(* Writing a signed number *)

\* Half of what so many digits hold, which is where the negative numbers begin.
Half(n) == TwoTo[Group * n - 1]
Size(v) == IF v >= 0 THEN v ELSE -v
EndsAt(v) == \/ v \div Base = 0 /\ Low(v) < Half(1)
             \/ v \div Base = -1 /\ Low(v) >= Half(1)

LEMMA Halves ==
    ASSUME CodecAssumption
    PROVE  /\ Half(1) \in Nat /\ Half(1) >= 1 /\ Base = 2 * Half(1)
           /\ \A n \in 1..MaxBytes : Half(n) \in Nat
           /\ \A n \in 2..MaxBytes : Half(n) = Base * Half(n - 1)
           /\ TwoTo[Bits - 1] \in Nat /\ TwoTo[Bits - 1] >= 1
           /\ TwoTo[Bits] = 2 * TwoTo[Bits - 1]
           /\ TwoTo[Bits - 1] <= Half(MaxBytes)
<1>1. /\ Group \in Nat /\ Group >= 1 /\ Bits \in Nat /\ Bits >= 1 /\ Most \in Nat
      /\ Group \in 1..Most /\ Bits \in 1..Most
  BY DEF CodecAssumption, Most
<1>2. Group * 1 = Group /\ Group - 1 \in 0..Most /\ Bits - 1 \in 0..Most
  BY <1>1
<1>3. Half(1) \in Nat /\ Half(1) >= 1 /\ Base = 2 * Half(1)
  BY <1>1, <1>2, Powers DEF Half, Base
<1>4. \A n \in 1..MaxBytes : Group * n - 1 \in 0..Most
  <2> SUFFICES ASSUME NEW n \in 1..MaxBytes PROVE Group * n - 1 \in 0..Most
    OBVIOUS
  <2> DEFINE g == Group * n
  <2>1. g \in Nat /\ g <= Most /\ g >= Group
    <3>1. n \in 0..MaxBytes /\ MaxBytes \in Nat
      BY Widths
    <3> QED
      BY <3>1, <1>1, Widths
  <2> HIDE DEF g
  <2> QED
    BY <2>1, <1>1 DEF g
<1>5. \A n \in 1..MaxBytes : Half(n) \in Nat
  BY <1>4, Powers DEF Half
<1>6. ASSUME NEW n \in 2..MaxBytes PROVE Half(n) = Base * Half(n - 1)
  <2>1. Group * n - 1 = Group + (Group * (n - 1) - 1)
    BY <1>1
  <2>2. Group * (n - 1) - 1 \in Nat /\ Group * n - 1 <= Most
    BY <1>4, Widths
  <2>3. TwoTo[Group + (Group * (n - 1) - 1)] = TwoTo[Group] * TwoTo[Group * (n - 1) - 1]
    BY <1>1, <2>1, <2>2, PowerSum
  <2> QED
    BY <2>1, <2>3 DEF Half, Base
<1>7. /\ TwoTo[Bits - 1] \in Nat /\ TwoTo[Bits - 1] >= 1
      /\ TwoTo[Bits] = 2 * TwoTo[Bits - 1]
  BY <1>1, <1>2, Powers
<1>8. TwoTo[Bits - 1] <= Half(MaxBytes)
  <2> DEFINE g == Group * (MaxBytes - 1)
  <2>1. /\ g \in Int /\ Bits = g + LastBits /\ LastBits \in 1..Group
        /\ g + Group = Group * MaxBytes /\ MaxBytes \in 1..MaxBytes
    BY <1>1, Widths
  <2> HIDE DEF g
  <2>2. Bits - 1 <= Group * MaxBytes - 1 /\ Group * MaxBytes - 1 \in 0..Most
    BY <1>1, <1>4, <2>1
  <2> QED
    BY <1>2, <2>2, PowerOrder DEF Half
<1> QED
  BY <1>3, <1>5, <1>6, <1>7, <1>8

\* A number ends with a byte that shows its sign, and is shorter behind any other.
LEMMA SignShows ==
    ASSUME CodecAssumption, NEW v \in Int
    PROVE  /\ EndsAt(v) <=> v >= -Half(1) /\ v < Half(1)
           /\ ~EndsAt(v) /\ v >= 0 => v \div Base >= 0 /\ v \div Base < v
           /\ ~EndsAt(v) /\ v < 0 => v \div Base < 0 /\ v \div Base > v
<1> DEFINE q == v \div Base
           r == v % Base
           h == Half(1)
<1>1. h \in Nat /\ h >= 1 /\ Base = 2 * h /\ Base \in Nat /\ Base >= 2
  BY Halves, Widths
<1>2. q \in Int /\ r \in Nat /\ r < Base /\ v = Base * q + r
  <2>1. Base \in Nat /\ Base >= 1 /\ v \in Int
    BY <1>1
  <2> QED
    BY <2>1, DivMod, Zenon
<1>3. Low(v) = r
  BY DEF Low, Base
<1>4. EndsAt(v) <=> (q = 0 /\ r < h) \/ (q = -1 /\ r >= h)
  BY <1>3 DEF EndsAt
<1> HIDE DEF q, r, h
<1> DEFINE p == Base * q
<1>5. /\ p \in Int /\ v = p + r
      /\ q >= 1 => p >= 2 * q /\ p >= 2 * h
      /\ q = 0 => p = 0
      /\ q = -1 => p = -(2 * h)
      /\ q <= -2 => p <= 2 * q /\ p <= -(4 * h)
  <2>1. p \in Int /\ v = p + r /\ (q = 0 => p = 0)
    BY <1>1, <1>2
  <2>2. q = -1 => p = -(2 * h)
    BY <1>1
  <2>3. q >= 1 => p >= 2 * q /\ p >= 2 * h
    <3> SUFFICES ASSUME q >= 1 PROVE p >= 2 * q /\ p >= 2 * h
      OBVIOUS
    <3>1. Base * q >= 2 * q
      BY <1>1, <1>2
    <3>2. Base * q >= Base * 1
      BY <1>1, <1>2
    <3> QED
      BY <3>1, <3>2, <1>1
  <2>4. q <= -2 => p <= 2 * q /\ p <= -(4 * h)
    <3> SUFFICES ASSUME q <= -2 PROVE p <= 2 * q /\ p <= -(4 * h)
      OBVIOUS
    <3>1. Base * q <= 2 * q
      BY <1>1, <1>2
    <3>2. Base * q <= Base * (-2)
      BY <1>1, <1>2
    <3> QED
      BY <3>1, <3>2, <1>1
  <2> QED
    BY <2>1, <2>2, <2>3, <2>4
<1> HIDE DEF p
<1>6. v >= -h /\ v < h <=> (q = 0 /\ r < h) \/ (q = -1 /\ r >= h)
  BY <1>1, <1>2, <1>5
<1>7. ~(v >= -h /\ v < h) /\ v >= 0 => q >= 0 /\ q < v
  BY <1>1, <1>2, <1>5
<1>8. ~(v >= -h /\ v < h) /\ v < 0 => q < 0 /\ q > v
  BY <1>1, <1>2, <1>5
<1> QED
  BY <1>4, <1>6, <1>7, <1>8 DEF q, h

\* One step of AppendS32.
LEMMA PutSignedBy ==
    ASSUME CodecAssumption, NEW value \in (-TwoTo[Bits - 1])..(TwoTo[Bits - 1] - 1)
    PROVE  \E put : /\ AppendS32(value) = put[value]
                    /\ \A v \in (-TwoTo[Bits - 1])..(TwoTo[Bits - 1] - 1) :
                         put[v] = IF EndsAt(v) THEN <<Low(v)>>
                                  ELSE <<Low(v) + Base>> \o put[v \div Base]
<1> DEFINE t == TwoTo[Bits - 1]
           D == (-t)..(t - 1)
           S == Seq(Byte)
           Stop == {v \in D : EndsAt(v)}
           rank == [v \in D |-> Size(v)]
           base == [v \in Stop |-> <<Low(v)>>]
           prev == [v \in D \ Stop |-> v \div Base]
           step == [v \in D \ Stop |-> [s \in S |-> <<Low(v) + Base>> \o s]]
           Solves(put) == put = [v \in D |-> IF EndsAt(v) THEN <<Low(v)>>
                                             ELSE <<Low(v) + Base>> \o put[v \div Base]]
<1>1. Base \in Nat /\ Base >= 2 /\ t \in Nat /\ D \in SUBSET Int
  BY Widths, Halves
<1>2. ASSUME NEW v \in D \ Stop PROVE v \div Base \in D /\ Size(v \div Base) < Size(v)
  <2> DEFINE q == v \div Base
  <2>1. /\ v \in Int /\ v >= -t /\ v < t /\ q \in Int
        /\ v >= 0 => q >= 0 /\ q < v
        /\ v < 0 => q < 0 /\ q > v
    <3>1. v \in Int /\ ~EndsAt(v) /\ v >= -t /\ v < t
      BY <1>1
    <3>2. q \in Int
      BY <1>1, <3>1
    <3> QED
      BY <3>1, <3>2, SignShows
  <2> HIDE DEF q, t
  <2>2. q \in D /\ Size(q) < Size(v)
    BY <1>1, <2>1 DEF Size
  <2> QED
    BY <2>2 DEF q
<1>3. \A v \in Stop : <<Low(v)>> \in S
  BY <1>1, DigitAlone
<1>4. \A v \in D \ Stop, s \in S : <<Low(v) + Base>> \o s \in S
  <2> SUFFICES ASSUME NEW v \in D \ Stop, NEW s \in S PROVE <<Low(v) + Base>> \o s \in S
    OBVIOUS
  <2>1. Low(v) + Base \in Byte
    BY <1>1, LowBits
  <2> QED
    BY <2>1
<1>5. WellFounded(D, S, t, rank, Stop, base, prev, step)
  <2>1. \A v \in D : Size(v) \in 0..t
    <3> HIDE DEF t
    <3> QED
      BY <1>1 DEF Size
  <2>2. /\ rank \in [D -> 0..t] /\ Stop \in SUBSET D /\ prev \in [D \ Stop -> D]
        /\ \A v \in D \ Stop : rank[prev[v]] < rank[v]
    <3> HIDE DEF D, t
    <3> QED
      BY <1>2, <2>1
  <2> HIDE DEF D, S, Stop, rank, prev, t
  <2>3. base \in [Stop -> S] /\ step \in [D \ Stop -> [S -> S]]
    BY <1>3, <1>4
  <2> QED
    BY <1>1, <2>2, <2>3 DEF WellFounded
<1>6. PICK g : Recurs(g, D, S, Stop, base, prev, step)
  <2> HIDE DEF D, S, Stop, rank, base, prev, step, t
  <2> QED
    BY <1>5, Recursion
<1>7. Solves(g)
  <2>1. /\ g \in [D -> S]
        /\ \A v \in D : g[v] = IF v \in Stop THEN base[v] ELSE step[v][g[prev[v]]]
    BY <1>6 DEF Recurs
  <2>2. \A v \in D \ Stop : prev[v] = v \div Base /\ g[v \div Base] \in S
    BY <1>2, <2>1
  <2>3. \A v \in D : v \in Stop <=> EndsAt(v)
    OBVIOUS
  <2> HIDE DEF D, S, Stop
  <2>4. \A v \in D \ Stop : step[v][g[prev[v]]] = <<Low(v) + Base>> \o g[v \div Base]
    BY <2>2
  <2>5. \A v \in D \cap Stop : base[v] = <<Low(v)>>
    OBVIOUS
  <2> HIDE DEF base, step, prev
  <2>6. \A v \in D : g[v] = IF EndsAt(v) THEN <<Low(v)>> ELSE <<Low(v) + Base>> \o g[v \div Base]
    BY <2>1, <2>3, <2>4, <2>5
  <2> QED
    BY <2>1, <2>6
<1> DEFINE put == CHOOSE f : Solves(f)
<1>8. AppendS32(value) = put[value]
  <2>1. Half(1) = TwoTo[Group - 1]
    <3>1. Group * 1 - 1 = Group - 1
      BY DEF CodecAssumption
    <3> QED
      BY <3>1 DEF Half
  <2> QED
    BY <2>1 DEF AppendS32, Base, EndsAt
<1>9. Solves(put)
  <2> HIDE DEF Solves
  <2> QED
    BY <1>7
<1> HIDE DEF put
<1>10. \A v \in D : put[v] = IF EndsAt(v) THEN <<Low(v)>> ELSE <<Low(v) + Base>> \o put[v \div Base]
  BY <1>9
<1> QED
  BY <1>8, <1>10

\* So many digits hold the number with its sign.
Holds(v, n) == v >= -Half(n) /\ v < Half(n)

LEMMA NextHolds ==
    ASSUME CodecAssumption, NEW n \in 2..MaxBytes, NEW v \in Int
    PROVE  Holds(v, n) <=> Holds(v \div Base, n - 1)
<1> DEFINE a == Half(n - 1)
           c == Half(n)
           b == -a
           d == -c
<1>1. a \in Nat /\ c \in Nat /\ c = Base * a /\ Base \in Nat /\ Base >= 1
  <2>1. n - 1 \in 1..MaxBytes /\ n \in 1..MaxBytes
    BY Widths
  <2> QED
    BY <2>1, Halves, Widths
<1> HIDE DEF a, c
<1>2. a \in Int /\ b \in Int /\ c \in Int /\ d \in Int /\ d = Base * b
  BY <1>1
<1> HIDE DEF b, d
<1>3. v < c <=> v \div Base < a
  BY <1>1, <1>2, DivLess, Zenon
<1>4. v < d <=> v \div Base < b
  BY <1>1, <1>2, DivLess, Zenon
<1>5. v \div Base \in Int
  BY <1>1
<1>6. (v >= d <=> ~(v < d)) /\ (v \div Base >= b <=> ~(v \div Base < b))
  BY <1>2, <1>5
<1> QED
  BY <1>3, <1>4, <1>6 DEF Holds, a, b, c, d

\* A signed number is written as bytes that denote it, its sign included.
THEOREM WrittenSignedIsExact ==
    ASSUME CodecAssumption, NEW value \in (-TwoTo[Bits - 1])..(TwoTo[Bits - 1] - 1)
    PROVE  DenotesS(AppendS32(value), value)
<1> DEFINE t == TwoTo[Bits - 1]
           D == (-t)..(t - 1)
<1>1. /\ t \in Nat /\ t <= Half(MaxBytes) /\ MaxBytes \in Nat /\ MaxBytes >= 1
      /\ Half(MaxBytes) \in Nat /\ Base \in Nat /\ Base >= 2 /\ Half(1) \in Nat
  BY Halves, Widths
<1>2. PICK put : /\ AppendS32(value) = put[value]
                 /\ \A v \in D : put[v] = IF EndsAt(v) THEN <<Low(v)>>
                                          ELSE <<Low(v) + Base>> \o put[v \div Base]
  BY PutSignedBy
<1> HIDE DEF t
<1> DEFINE Right(v) == \A m \in 1..MaxBytes : Holds(v, m) =>
                          /\ put[v] \in Seq(Byte) /\ Len(put[v]) \in 1..m
                          /\ Digits(put[v], v) /\ Holds(v, Len(put[v]))
           Bad == {k \in Nat : \E v \in D : Size(v) = k /\ ~Right(v)}
<1>3. Bad = {}
  <2> SUFFICES ASSUME Bad # {} PROVE FALSE
    OBVIOUS
  <2>1. PICK k \in Bad : \A j \in Bad : k <= j
    <3>1. Bad \in SUBSET Nat
      OBVIOUS
    <3> HIDE DEF Bad
    <3> QED
      BY <3>1, LeastElement
  <2>2. PICK v \in D : Size(v) = k /\ ~Right(v)
    BY <2>1
  <2>3. /\ v \in Int /\ v >= -t /\ v < t
        /\ \A w \in D : Size(w) < Size(v) => Right(w)
    <3>1. v \in Int /\ v >= -t /\ v < t
      BY <1>1
    <3>2. ASSUME NEW w \in D, Size(w) < Size(v), ~Right(w) PROVE FALSE
      <4>1. w \in Int /\ Size(w) \in Nat
        <5>1. w \in Int
          BY <1>1
        <5> QED
          BY <5>1 DEF Size
      <4>2. Size(w) \in Bad
        <5> HIDE DEF Right, D
        <5> QED
          BY <4>1, <3>2
      <4>3. k <= Size(w) /\ k \in Nat
        <5> HIDE DEF Right, D
        <5> QED
          BY <4>2, <2>1
      <4> QED
        BY <4>1, <4>3, <2>2, <3>2
    <3> HIDE DEF Right, Bad
    <3> QED
      BY <3>1, <3>2
  <2> HIDE DEF Bad
  <2>4. PICK m \in 1..MaxBytes :
          /\ Holds(v, m)
          /\ ~ (/\ put[v] \in Seq(Byte) /\ Len(put[v]) \in 1..m
                /\ Digits(put[v], v) /\ Holds(v, Len(put[v])))
    BY <2>2
  <2>5. CASE EndsAt(v)
    <3>1. put[v] = <<Low(v)>>
      BY <1>2, <2>5
    <3>2. put[v] \in Seq(Byte) /\ Len(put[v]) = 1 /\ Digits(put[v], v)
      BY <3>1, <2>3, DigitAlone
    <3>3. Holds(v, 1)
      BY <2>3, <2>5, SignShows DEF Holds
    <3> HIDE DEF Right
    <3> QED
      BY <3>2, <3>3, <2>4, <1>1
  <2>6. CASE ~EndsAt(v)
    <3> DEFINE q == v \div Base
               s == put[q]
    <3>1. q \in D /\ q \in Int /\ Size(q) < Size(v)
      <4>1. /\ q \in Int
            /\ v >= 0 => q >= 0 /\ q < v
            /\ v < 0 => q < 0 /\ q > v
        BY <2>3, <2>6, <1>1, SignShows
      <4> HIDE DEF q, Right
      <4> QED
        BY <4>1, <2>3, <1>1 DEF Size
    <3>2. Right(q)
      BY <3>1, <2>3
    <3>3. m \in 2..MaxBytes /\ m - 1 \in 1..MaxBytes
      <4>1. m # 1
        BY <2>3, <2>4, <2>6, SignShows DEF Holds
      <4> QED
        BY <4>1, <1>1
    <3>4. Holds(q, m - 1)
      BY <2>3, <2>4, <3>3, NextHolds
    <3>5. s \in Seq(Byte) /\ Len(s) \in 1..(m - 1) /\ Digits(s, q) /\ Holds(q, Len(s))
      <4> HIDE DEF q
      <4> QED
        BY <3>2, <3>3, <3>4
    <3>6. /\ Len(s) < MaxBytes /\ Len(s) + 1 \in 1..m /\ Len(s) + 1 \in 2..MaxBytes
          /\ (Len(s) + 1) - 1 = Len(s)
      <4> HIDE DEF s, Right
      <4> QED
        BY <3>5, <1>1
    <3>7. put[v] = <<Low(v) + Base>> \o s
      <4> HIDE DEF Right
      <4> QED
        BY <1>2, <2>6
    <3>8. put[v] \in Seq(Byte) /\ Len(put[v]) = Len(s) + 1 /\ Digits(put[v], v)
      <4> HIDE DEF s, Right
      <4> QED
        BY <3>5, <3>6, <3>7, <2>3, DigitBefore
    <3>9. Holds(v, Len(s) + 1)
      <4> HIDE DEF s, Right
      <4> QED
        BY <3>5, <3>6, <2>3, NextHolds
    <3> HIDE DEF s, q, Right
    <3> QED
      BY <3>6, <3>8, <3>9, <2>4
  <2> QED
    BY <2>5, <2>6
<1>4. /\ put[value] \in Seq(Byte) /\ Digits(put[value], value)
      /\ Holds(value, Len(put[value])) /\ Len(put[value]) \in 1..MaxBytes
  <2>1. value \in D /\ value \in Int /\ Size(value) \in Nat /\ MaxBytes \in 1..MaxBytes
    <3>1. value \in D
      BY DEF t
    <3> QED
      BY <3>1, <1>1 DEF Size
  <2>2. Holds(value, MaxBytes)
    BY <2>1, <1>1 DEF Holds
  <2>3. Right(value)
    <3> HIDE DEF Right, D
    <3> QED
      BY <1>3, <2>1
  <2> QED
    BY <2>1, <2>2, <2>3
<1>5. value \in Int /\ Half(Len(put[value])) \in Nat
  BY <1>1, <1>4, Halves DEF t
<1>6. value \in (-Half(Len(put[value])))..(Half(Len(put[value])) - 1)
  <2> DEFINE h == Half(Len(put[value]))
  <2>1. value \in Int /\ h \in Nat /\ value >= -h /\ value < h
    BY <1>4, <1>5 DEF Holds
  <2> HIDE DEF h
  <2>2. value \in (-h)..(h - 1)
    BY <2>1
  <2> QED
    BY <2>2 DEF h
<1> QED
  BY <1>2, <1>4, <1>6 DEF DenotesS, Half

\* The bits of a number are those of a signed one.
LEMMA Signed ==
    ASSUME CodecAssumption, NEW value \in 0..(TwoTo[Bits] - 1)
    PROVE  Int32(value) \in (-TwoTo[Bits - 1])..(TwoTo[Bits - 1] - 1)
<1> DEFINE t == TwoTo[Bits - 1]
<1>1. t \in Nat /\ t >= 1 /\ TwoTo[Bits] = 2 * t
  BY Halves
<1> HIDE DEF t
<1>2. (IF value < t THEN value ELSE value - 2 * t) \in (-t)..(t - 1)
  BY <1>1
<1> QED
  BY <1>1, <1>2 DEF Int32, t

-----------------------------------------------------------------------------
(* Blocks one after the other *)

LEMMA MinimumIs ==
    ASSUME NEW S \in SUBSET Int, NEW x \in S, \A y \in S : x <= y
    PROVE  Sets!Min(S) = x
<1> DEFINE m == CHOOSE z \in S : \A y \in S : z <= y
<1>1. m \in S /\ \A y \in S : m <= y
  OBVIOUS
<1>2. Sets!Min(S) = m
  BY DEF Sets!Min
<1> HIDE DEF m
<1>3. m <= x /\ x <= m /\ m \in Int /\ x \in Int
  BY <1>1
<1> QED
  BY <1>2, <1>3

LEMMA Elements ==
    ASSUME NEW S, NEW s \in Seq(S)
    PROVE  Len(s) \in Nat /\ \A k \in 1..Len(s) : s[k] \in S
  OBVIOUS

\* The blocks up to the k-th in one sequence.
Chained(g, blocks) ==
    /\ g \in [0..Len(blocks) -> Seq(Nat)] /\ g[0] = << >>
    /\ \A k \in 1..Len(blocks) : g[k] = g[k - 1] \o blocks[k]

LEMMA Chain ==
    ASSUME NEW blocks \in Seq(Seq(Nat)), NEW g, Chained(g, blocks)
    PROVE  /\ Len(blocks) \in Nat /\ g[0] = << >>
           /\ \A k \in 0..Len(blocks) : g[k] \in Seq(Nat)
           /\ \A k \in 1..Len(blocks) : g[k] = g[k - 1] \o blocks[k] /\ blocks[k] \in Seq(Nat)
<1> DEFINE S == Seq(Nat)
<1>1. blocks \in Seq(S)
  OBVIOUS
<1> HIDE DEF S
<1>2. Len(blocks) \in Nat /\ \A k \in 1..Len(blocks) : blocks[k] \in S
  BY <1>1, Elements
<1>3. g[0] = << >> /\ \A k \in 0..Len(blocks) : g[k] \in S
  BY DEF Chained, S
<1>4. \A k \in 1..Len(blocks) : g[k] = g[k - 1] \o blocks[k]
  BY DEF Chained
<1> QED
  BY <1>2, <1>3, <1>4 DEF S

LEMMA ChainExists ==
    ASSUME NEW blocks \in Seq(Seq(Nat))
    PROVE  \E g : Chained(g, blocks)
<1> DEFINE n == Len(blocks)
           S == Seq(Nat)
           step == [k \in 1..n |-> [s \in S |-> s \o blocks[k]]]
<1>1. n \in Nat /\ << >> \in S /\ \A k \in 1..n : blocks[k] \in S
  OBVIOUS
<1>2. \A k \in 1..n, s \in S : s \o blocks[k] \in S
  BY <1>1
<1>3. step \in [1..n -> [S -> S]] /\ \A k \in 1..n, s \in S : step[k][s] = s \o blocks[k]
  <2> HIDE DEF S, n
  <2> QED
    BY <1>2
<1> HIDE DEF S, n, step
<1>4. PICK g : Iterates(g, n, S, << >>, step)
  BY <1>1, <1>3, Iteration DEF Steps
<1>5. \A k \in 1..n : g[k] = g[k - 1] \o blocks[k]
  <2>1. \A k \in 1..n : g[k - 1] \in S /\ g[k] = step[k][g[k - 1]]
    BY <1>1, <1>4 DEF Iterates
  <2> QED
    BY <1>3, <2>1
<1>6. Chained(g, blocks)
  BY <1>4, <1>5 DEF Iterates, Chained, n, S
<1> QED
  BY <1>6

LEMMA Flattened ==
    ASSUME NEW blocks \in Seq(Seq(Nat)), NEW g, Chained(g, blocks), NEW k \in 0..Len(blocks)
    PROVE  Lists!FlattenSeq(SubSeq(blocks, 1, k)) = g[k]
<1> DEFINE b == SubSeq(blocks, 1, k)
           D == 1..k
           Solves(f) == f = [i \in D |-> IF i = 1 THEN b[i] ELSE f[i - 1] \o b[i]]
<1>1. Len(b) = k /\ \A i \in D : b[i] = blocks[i]
  OBVIOUS
<1>2. CASE k = 0
  <2>1. b = << >>
    BY <1>2
  <2> QED
    BY <1>2, <2>1, <1>1 DEF Lists!FlattenSeq, Chained
<1>3. CASE k # 0
  <2>1. \A i \in D : g[i] = IF i = 1 THEN b[i] ELSE g[i - 1] \o b[i]
    <3>1. /\ Len(blocks) \in Nat /\ g[0] = << >>
          /\ \A m \in 1..Len(blocks) : g[m] = g[m - 1] \o blocks[m] /\ blocks[m] \in Seq(Nat)
      BY Chain
    <3>2. 1 \in 1..Len(blocks) /\ 1 - 1 = 0
      BY <1>3, <3>1
    <3>3. g[1] = << >> \o blocks[1] /\ blocks[1] \in Seq(Nat)
      BY <3>1, <3>2
    <3>4. g[1] = blocks[1]
      BY <3>3
    <3>5. \A i \in D : i \in 1..Len(blocks)
      BY <3>1
    <3> HIDE DEF b, D
    <3> QED
      BY <3>1, <3>4, <3>5, <1>1
  <2> DEFINE h == [i \in D |-> g[i]]
             f == CHOOSE f : Solves(f)
  <2>2. Solves(h)
    <3> HIDE DEF b
    <3>1. \A i \in D : h[i] = g[i] /\ (i # 1 => h[i - 1] = g[i - 1])
      OBVIOUS
    <3>2. \A i \in D : h[i] = IF i = 1 THEN b[i] ELSE h[i - 1] \o b[i]
      BY <3>1, <2>1
    <3>3. h = [i \in D |-> h[i]]
      OBVIOUS
    <3> HIDE DEF h, D
    <3> QED
      BY <3>2, <3>3
  <2>3. Solves(f)
    <3> HIDE DEF Solves
    <3> QED
      BY <2>2
  <2>4. Lists!FlattenSeq(b) = f[k]
    BY <1>1, <1>3 DEF Lists!FlattenSeq
  <2> HIDE DEF f, h, b
  <2>5. \A i \in D : f[i] = IF i = 1 THEN b[i] ELSE f[i - 1] \o b[i]
    BY <2>3
  <2> HIDE DEF Solves
  <2> DEFINE Good == {i \in 0..k : i = 0 \/ f[i] = g[i]}
  <2>6. 0 \in Good
    OBVIOUS
  <2>7. ASSUME NEW i \in 1..k, i - 1 \in Good PROVE i \in Good
    <3>1. i \in D /\ (i = 1 \/ f[i - 1] = g[i - 1])
      BY <2>7
    <3>2. f[i] = g[i]
      BY <3>1, <2>1, <2>5
    <3> QED
      BY <3>2
  <2> HIDE DEF Good
  <2>8. \A i \in 0..k : i \in Good
    <3>1. k \in Nat
      BY Chain
    <3> QED
      BY <3>1, <2>6, <2>7, Induction
  <2>9. f[k] = g[k]
    BY <2>8, <1>3 DEF Good
  <2> QED
    BY <2>4, <2>9 DEF b
<1> QED
  BY <1>2, <1>3

\* Each block is where the ones before it end.
LEMMA BlockIsThere ==
    ASSUME NEW blocks \in Seq(Seq(Nat)), NEW g, Chained(g, blocks), NEW k \in 1..Len(blocks)
    PROVE  LET all == g[Len(blocks)] IN
           /\ Len(g[k - 1]) \in Nat /\ Len(g[k - 1]) + Len(blocks[k]) <= Len(all)
           /\ \A j \in 1..Len(blocks[k]) : all[Len(g[k - 1]) + j] = blocks[k][j]
<1> DEFINE n == Len(blocks)
           o == Len(g[k - 1])
           b == blocks[k]
           Good == {d \in 0..(n - k) : /\ o + Len(b) <= Len(g[k + d])
                                       /\ \A j \in 1..Len(b) : g[k + d][o + j] = b[j]}
<1>1. n \in Nat /\ k \in Nat /\ k <= n /\ k >= 1 /\ n - k \in Nat
  OBVIOUS
<1>2. /\ \A m \in 0..n : g[m] \in Seq(Nat)
      /\ \A m \in 1..n : g[m] = g[m - 1] \o blocks[m] /\ blocks[m] \in Seq(Nat)
  BY Chain
<1>3. b \in Seq(Nat) /\ g[k - 1] \in Seq(Nat) /\ o \in Nat /\ g[k] = g[k - 1] \o b
  <2>1. k \in 1..n /\ k - 1 \in 0..n
    BY <1>1
  <2>2. b \in Seq(Nat) /\ g[k - 1] \in Seq(Nat) /\ g[k] = g[k - 1] \o b
    <3> HIDE DEF n
    <3> QED
      BY <1>2, <2>1
  <2> QED
    BY <2>2
<1> HIDE DEF n, b
<1>4. 0 \in Good
  <2> DEFINE a == g[k - 1]
             c == g[k]
  <2>1. a \in Seq(Nat) /\ c = a \o b /\ o = Len(a) /\ k + 0 = k
    BY <1>3, <1>1
  <2> HIDE DEF a, c, o
  <2>2. o + Len(b) <= Len(c) /\ \A j \in 1..Len(b) : c[o + j] = b[j]
    BY <2>1, <1>3
  <2> QED
    BY <2>1, <2>2, <1>1 DEF c
<1>5. ASSUME NEW d \in 1..(n - k), d - 1 \in Good PROVE d \in Good
  <2> DEFINE a == g[k + (d - 1)]
             c == g[k + d]
             e == blocks[k + d]
  <2>1. k + d \in 1..n /\ k + (d - 1) = (k + d) - 1 /\ k + (d - 1) \in 0..n
    BY <1>1
  <2>2. a \in Seq(Nat) /\ c = a \o e /\ e \in Seq(Nat)
    BY <1>2, <2>1
  <2>3. o + Len(b) <= Len(a) /\ \A j \in 1..Len(b) : a[o + j] = b[j]
    BY <1>5
  <2> HIDE DEF a, c, e, o
  <2>4. o + Len(b) <= Len(c) /\ \A j \in 1..Len(b) : c[o + j] = b[j]
    BY <2>2, <2>3, <1>3
  <2> QED
    BY <2>4 DEF c
<1> HIDE DEF Good
<1>6. \A d \in 0..(n - k) : d \in Good
  BY <1>1, <1>4, <1>5, Induction
<1>7. n - k \in Good /\ k + (n - k) = n
  BY <1>1, <1>6
<1> QED
  BY <1>3, <1>7 DEF Good, n, b

\* If all blocks are so long that alignment divides them, the whole is.
LEMMA ChainAligned ==
    ASSUME NEW blocks \in Seq(Seq(Nat)), NEW g, Chained(g, blocks),
           \A k \in 1..Len(blocks) : Len(blocks[k]) % 8 = 0
    PROVE  Len(g[Len(blocks)]) % 8 = 0
<1> DEFINE n == Len(blocks)
           Good == {k \in 0..n : Len(g[k]) % 8 = 0}
<1>1. /\ n \in Nat /\ g[0] = << >> /\ \A m \in 0..n : g[m] \in Seq(Nat)
      /\ \A m \in 1..n : g[m] = g[m - 1] \o blocks[m] /\ blocks[m] \in Seq(Nat)
      /\ \A m \in 1..n : Len(blocks[m]) % 8 = 0
  BY Chain
<1> HIDE DEF n
<1>2. 0 \in Good
  <2>1. Len(<< >>) = 0
    OBVIOUS
  <2>2. Len(g[0]) % 8 = 0
    BY <2>1, <1>1
  <2>3. 0 \in 0..n
    BY <1>1
  <2> QED
    BY <2>2, <2>3, Zenon
<1>3. ASSUME NEW k \in 1..n, k - 1 \in Good PROVE k \in Good
  <2> DEFINE a == g[k - 1]
             e == blocks[k]
  <2>1. /\ a \in Seq(Nat) /\ e \in Seq(Nat) /\ g[k] = a \o e
        /\ Len(a) % 8 = 0 /\ Len(e) % 8 = 0
    BY <1>1, <1>3
  <2> HIDE DEF a, e
  <2>2. Len(a \o e) = Len(a) + Len(e) /\ Len(a) \in Nat /\ Len(e) \in Nat
    BY <2>1, ConcatProperties, LenProperties, Zenon
  <2> DEFINE x == Len(a)
             y == Len(e)
  <2>3. x \in Nat /\ y \in Nat /\ x % 8 = 0 /\ y % 8 = 0
    BY <2>1, <2>2
  <2>4. Len(g[k]) = x + y
    BY <2>1, <2>2
  <2> HIDE DEF x, y
  <2>5. (x + y) % 8 = 0
    BY <2>3
  <2>6. k \in 0..n
    BY <1>1
  <2> QED
    BY <2>4, <2>5, <2>6
<1> HIDE DEF Good
<1>4. \A k \in 0..n : k \in Good
  BY <1>1, <1>2, <1>3, Induction
<1>5. n \in 0..n
  BY <1>1
<1>6. n \in Good
  BY <1>4, <1>5
<1> QED
  BY <1>6 DEF Good, n

-----------------------------------------------------------------------------
(* Strings and lists of them *)

\* The block starts with the string and a NUL.
Opens(block, string) ==
    /\ block \in Seq(Nat) /\ Len(block) > Len(string)
    /\ \A j \in 1..Len(string) : block[j] = string[j]
    /\ block[Len(string) + 1] = NUL

LEMMA StringFound ==
    ASSUME NEW data \in Seq(Nat), NEW offset \in Nat, NEW string \in Seq(Nat),
           offset + Len(string) + 1 <= Len(data),
           \A j \in 1..Len(string) : data[offset + j] = string[j] /\ string[j] # NUL,
           data[offset + (Len(string) + 1)] = NUL
    PROVE  StringAt(data, offset) = string
<1> DEFINE rest == SubSeq(data, offset + 1, Len(data))
           l == Len(string)
           ends == {i \in 1..Len(rest) : rest[i] = NUL}
<1>1. l \in Nat /\ Len(data) \in Nat
  OBVIOUS
<1>2. /\ rest \in Seq(Nat) /\ Len(rest) = Len(data) - offset
      /\ \A i \in 1..(Len(data) - offset) : rest[i] = data[offset + i]
  OBVIOUS
<1> HIDE DEF rest, l
<1>3. l + 1 \in 1..Len(rest) /\ \A i \in 1..l : i \in 1..(Len(data) - offset)
  BY <1>1, <1>2 DEF l
<1>4. l + 1 \in ends /\ \A i \in ends : l + 1 <= i
  <2>1. rest[l + 1] = NUL
    BY <1>2, <1>3 DEF l
  <2>2. \A i \in 1..l : rest[i] # NUL
    BY <1>2, <1>3 DEF l
  <2> DEFINE m == Len(rest)
  <2>3. m \in Nat /\ l + 1 \in 1..m
    BY <1>2, <1>3
  <2> HIDE DEF m
  <2>4. \A i \in 1..m : i \in 1..l \/ l + 1 <= i
    BY <1>1, <2>3
  <2>5. \A i \in ends : i \in 1..m /\ rest[i] = NUL
    BY DEF m
  <2> QED
    BY <2>1, <2>2, <2>3, <2>4, <2>5 DEF m
<1>5. Sets!Min(ends) = l + 1
  <2>1. ends \in SUBSET Int
    OBVIOUS
  <2> HIDE DEF ends
  <2> QED
    BY <2>1, <1>4, MinimumIs
<1>6. SubSeq(rest, 1, l) = string
  <2> DEFINE s == SubSeq(rest, 1, l)
  <2>1. s \in Seq(Nat) /\ Len(s) = l /\ \A i \in 1..l : s[i] = rest[i]
    <3>1. l \in Nat /\ l <= Len(rest) /\ rest \in Seq(Nat) /\ Len(rest) \in Nat
      BY <1>1, <1>2, <1>3
    <3> HIDE DEF ends
    <3> QED
      BY <3>1
  <2>2. \A i \in 1..l : s[i] = string[i]
    BY <2>1, <1>2, <1>3 DEF l
  <2> HIDE DEF s
  <2>3. s = string
    BY <2>1, <2>2, SeqEqual DEF l
  <2> QED
    BY <2>3 DEF s
<1>7. StringAt(data, offset) = SubSeq(rest, 1, Sets!Min(ends) - 1)
  BY DEF StringAt, rest
<1>8. (l + 1) - 1 = l
  BY <1>1
<1> QED
  BY <1>5, <1>6, <1>7, <1>8

LEMMA ListFound ==
    ASSUME NEW layout, NEW strings \in Seq(Seq(Nat)), NEW i \in Nat, i >= 1,
           layout.table \in Seq(Int), i + Len(strings) <= Len(layout.table),
           \A k \in 1..Len(strings) :
              /\ layout.table[i + k - 1] \in Nat
              /\ StringAt(layout.data, layout.table[i + k - 1]) = strings[k],
           layout.table[i + Len(strings)] = NullPointer
    PROVE  ListAt(layout, i) = strings
<1> DEFINE n == Len(strings)
           t == layout.table
           nulls == {j \in i..Len(t) : t[j] = NullPointer}
<1>1. n \in Nat /\ Len(t) \in Nat /\ strings = [k \in 1..n |-> strings[k]]
  OBVIOUS
<1>2. i + n \in nulls /\ \A j \in nulls : i + n <= j
  <2>1. i + n \in nulls
    BY <1>1
  <2>2. ASSUME NEW j \in nulls, j < i + n PROVE FALSE
    <3>1. j \in Nat /\ j >= i /\ t[j] = NullPointer
      BY <1>1
    <3>2. j - i + 1 \in 1..n /\ i + (j - i + 1) - 1 = j
      <4> HIDE DEF n, nulls, t
      <4> QED
        BY <1>1, <2>2, <3>1
    <3>3. t[i + (j - i + 1) - 1] \in Nat
      BY <3>2
    <3>4. t[j] \in Nat
      BY <3>2, <3>3
    <3> QED
      BY <3>1, <3>4 DEF NullPointer
  <2> QED
    BY <2>1, <2>2, <1>1
<1>3. Sets!Min(nulls) = i + n
  <2>1. nulls \in SUBSET Int
    BY <1>1
  <2> HIDE DEF nulls, n, t
  <2> QED
    BY <2>1, <1>2, MinimumIs
<1>4. Sets!Min(nulls) - i = n
  <2> HIDE DEF nulls, n
  <2> QED
    BY <1>1, <1>3
<1>5. ListAt(layout, i) = [k \in 1..(Sets!Min(nulls) - i) |-> StringAt(layout.data, t[i + k - 1])]
  BY DEF ListAt
<1> HIDE DEF nulls, n
<1>6. ListAt(layout, i) = [k \in 1..n |-> StringAt(layout.data, t[i + k - 1])]
  BY <1>4, <1>5
<1>7. \A k \in 1..n : StringAt(layout.data, t[i + k - 1]) = strings[k]
  BY DEF n
<1> QED
  BY <1>1, <1>6, <1>7

\* The blocks of the strings are at the front of data; and the strings are where
\* the offsets of their blocks say.
Blocks(strings, blocks) ==
    /\ strings \in Seq(Seq(Nat)) /\ blocks \in Seq(Seq(Nat)) /\ Len(blocks) = Len(strings)
    /\ \A k \in 1..Len(strings) : /\ Opens(blocks[k], strings[k])
                                  /\ \A j \in 1..Len(strings[k]) : strings[k][j] # NUL

Fronts(data, all) ==
    data \in Seq(Nat) /\ Len(all) <= Len(data) /\ \A j \in 1..Len(all) : data[j] = all[j]

Readable(data, o, strings) ==
    /\ o \in Seq(Nat) /\ Len(o) = Len(strings)
    /\ \A k \in 1..Len(strings) : StringAt(data, o[k]) = strings[k]

LEMMA LaidOut ==
    ASSUME NEW strings, NEW blocks, NEW g, NEW data, Blocks(strings, blocks),
           Chained(g, blocks), Fronts(data, g[Len(blocks)])
    PROVE  Readable(data, Offsets(blocks), strings)
<1> DEFINE n == Len(strings)
           all == g[Len(blocks)]
           o == Offsets(blocks)
<1>0. /\ strings \in Seq(Seq(Nat)) /\ blocks \in Seq(Seq(Nat)) /\ Len(blocks) = Len(strings)
      /\ data \in Seq(Nat) /\ Len(all) <= Len(data) /\ \A j \in 1..Len(all) : data[j] = all[j]
      /\ \A k \in 1..Len(strings) : Opens(blocks[k], strings[k])
                                     /\ \A j \in 1..Len(strings[k]) : strings[k][j] # NUL
  BY DEF Blocks, Fronts
<1>1. n \in Nat /\ Len(blocks) = n /\ all \in Seq(Nat) /\ \A k \in 0..n : g[k] \in Seq(Nat)
  <2>1. Len(blocks) \in Nat /\ \A k \in 0..Len(blocks) : g[k] \in Seq(Nat)
    BY <1>0, Chain
  <2>2. Len(blocks) \in 0..Len(blocks)
    BY <2>1
  <2> QED
    BY <1>0, <2>1, <2>2
<1>2. o = [k \in 1..n |-> Len(Lists!FlattenSeq(SubSeq(blocks, 1, k - 1)))]
  BY <1>0 DEF Offsets
<1>3. \A k \in 1..n : o[k] = Len(g[k - 1]) /\ o[k] \in Nat
  <2> SUFFICES ASSUME NEW k \in 1..n PROVE o[k] = Len(g[k - 1]) /\ o[k] \in Nat
    OBVIOUS
  <2>1. k - 1 \in 0..n /\ k - 1 \in 0..Len(blocks) /\ g[k - 1] \in Seq(Nat)
    BY <1>1
  <2>2. Lists!FlattenSeq(SubSeq(blocks, 1, k - 1)) = g[k - 1]
    BY <1>0, <2>1, Flattened
  <2>3. o[k] = Len(Lists!FlattenSeq(SubSeq(blocks, 1, k - 1)))
    <3> HIDE DEF o, n
    <3> QED
      BY <1>2
  <2> HIDE DEF o
  <2> QED
    BY <2>1, <2>2, <2>3
<1>4. o \in Seq(Nat) /\ Len(o) = n
  <2>1. o = [k \in 1..n |-> o[k]]
    BY <1>2
  <2>2. \A k \in 1..n : o[k] \in Nat
    BY <1>3
  <2> DEFINE f(k) == o[k]
  <2>3. o = [k \in 1..n |-> f(k)] /\ \A k \in 1..n : f(k) \in Nat
    BY <2>1, <2>2
  <2> HIDE DEF o, n, f
  <2>4. [k \in 1..n |-> f(k)] \in Seq(Nat) /\ Len([k \in 1..n |-> f(k)]) = n
    BY <1>1, <2>3
  <2> QED
    BY <2>3, <2>4
<1>5. ASSUME NEW k \in 1..n PROVE StringAt(data, o[k]) = strings[k]
  <2> DEFINE s == strings[k]
             b == blocks[k]
             f == o[k]
             l == Len(s)
  <2>1. s \in Seq(Nat) /\ b \in Seq(Nat) /\ l \in Nat /\ k \in 1..Len(blocks)
    <3>1. s \in Seq(Nat) /\ k \in 1..Len(blocks)
      <4> DEFINE S == Seq(Nat)
      <4>1. strings \in Seq(S)
        BY <1>0
      <4> HIDE DEF S, s
      <4>2. \A i \in 1..Len(strings) : strings[i] \in S
        BY <4>1, Elements
      <4> QED
        BY <4>2, <1>0 DEF S, s
    <3>2. b \in Seq(Nat)
      BY <1>0 DEF Opens
    <3> QED
      BY <3>1, <3>2
  <2>2. /\ Len(g[k - 1]) + Len(b) <= Len(all)
        /\ \A j \in 1..Len(b) : all[Len(g[k - 1]) + j] = b[j]
    BY <1>0, <2>1, BlockIsThere
  <2>3. f \in Nat /\ f + Len(b) <= Len(all) /\ \A j \in 1..Len(b) : all[f + j] = b[j]
    <3> HIDE DEF b, all, o
    <3> QED
      BY <2>2, <1>3
  <2>4. Len(b) > l /\ b[l + 1] = NUL /\ \A j \in 1..l : b[j] = s[j] /\ s[j] # NUL
    BY <1>0 DEF Opens
  <2>5. Len(all) <= Len(data) /\ data \in Seq(Nat) /\ \A j \in 1..Len(all) : data[j] = all[j]
    BY <1>0
  <2> HIDE DEF s, b, f, all, o
  <2>6. Len(b) \in Nat /\ Len(all) \in Nat /\ Len(data) \in Nat
    BY <1>1, <2>1, <2>5
  <2>7. \A j \in 1..(l + 1) : j \in 1..Len(b) /\ f + j \in 1..Len(all)
    <3> DEFINE x == Len(b)
               y == Len(all)
    <3>1. x \in Nat /\ y \in Nat /\ l \in Nat /\ f \in Nat /\ f + x <= y /\ x > l
      BY <2>1, <2>3, <2>4, <2>6
    <3> HIDE DEF l, x, y
    <3>2. \A j \in 1..(l + 1) : j \in 1..x /\ f + j \in 1..y
      BY <3>1
    <3> QED
      BY <3>2 DEF x, y
  <2>8. \A j \in 1..(l + 1) : data[f + j] = b[j]
    BY <2>3, <2>5, <2>7
  <2>9. l + 1 \in 1..(l + 1) /\ \A j \in 1..l : j \in 1..(l + 1)
    BY <2>1
  <2>10. /\ f + l + 1 <= Len(data) /\ data[f + (l + 1)] = NUL
         /\ \A j \in 1..l : data[f + j] = s[j] /\ s[j] # NUL
    <3>1. data[f + (l + 1)] = NUL
      BY <2>4, <2>8, <2>9
    <3>2. \A j \in 1..l : data[f + j] = s[j] /\ s[j] # NUL
      <4> HIDE DEF l
      <4> QED
        BY <2>4, <2>8, <2>9
    <3> DEFINE x == Len(b)
               y == Len(all)
               z == Len(data)
    <3>3. /\ x \in Nat /\ y \in Nat /\ z \in Nat /\ l \in Nat /\ f \in Nat
          /\ f + x <= y /\ x > l /\ y <= z
      BY <2>1, <2>3, <2>4, <2>5, <2>6
    <3> HIDE DEF l, x, y, z
    <3>4. f + l + 1 <= z
      BY <3>3
    <3> QED
      BY <3>1, <3>2, <3>4 DEF z
  <2>11. StringAt(data, f) = s
    BY <2>1, <2>3, <2>5, <2>10, StringFound
  <2> QED
    BY <2>11 DEF f, s
<1> QED
  BY <1>4, <1>5 DEF Readable

\* r is s, of length m, with t behind it; and r is what there is of s behind i.
Joins(r, S, s, t, m, n) ==
    /\ r \in Seq(S) /\ Len(r) = m + n /\ m \in Nat /\ n \in Nat
    /\ \A k \in 1..m : r[k] = s[k]
    /\ \A k \in 1..n : r[m + k] = t[k]

Slices(r, S, s, i, n) ==
    r \in Seq(S) /\ Len(r) = n /\ \A k \in 1..n : r[k] = s[i + k]

LEMMA Joined ==
    ASSUME NEW S, NEW s, NEW t, NEW m, NEW n,
           s \in Seq(S), t \in Seq(S), Len(s) = m, Len(t) = n
    PROVE  Joins(s \o t, S, s, t, m, n)
<1>1. /\ s \o t \in Seq(S) /\ Len(s \o t) = m + n /\ m \in Nat /\ n \in Nat
      /\ \A k \in 1..m : (s \o t)[k] = s[k]
      /\ \A k \in 1..n : (s \o t)[m + k] = t[k]
  OBVIOUS
<1> QED
  BY <1>1 DEF Joins

LEMMA Sliced ==
    ASSUME NEW S, NEW s, NEW i, NEW n, NEW h, NEW j,
           s \in Seq(S), i \in Nat, n \in Nat, i + n <= Len(s), h = i + 1, j = i + n
    PROVE  Slices(SubSeq(s, h, j), S, s, i, n)
<1> DEFINE r == SubSeq(s, h, j)
<1>1. r \in Seq(S) /\ Len(r) = n /\ \A k \in 1..n : r[k] = s[i + k]
  OBVIOUS
<1> HIDE DEF r
<1>2. Slices(r, S, s, i, n)
  BY <1>1 DEF Slices
<1> QED
  BY <1>2 DEF r

LEMMA Padding ==
    ASSUME NEW d \in Seq(Nat), NEW a \in {4, 8}
    PROVE  /\ Padded(d, a) \in Seq(Nat) /\ Len(Padded(d, a)) >= Len(d)
           /\ \A j \in 1..Len(d) : Padded(d, a)[j] = d[j]
           /\ Len(Padded(d, a)) % a = 0
<1> DEFINE l == Len(d)
           m == (-l) % a
           z == [i \in 1..m |-> NUL]
<1>1. l \in Nat /\ m \in Nat /\ (l + m) % a = 0
  <2>1. l \in Nat
    OBVIOUS
  <2> HIDE DEF l
  <2>2. CASE a = 4
    BY <2>1, <2>2
  <2>3. CASE a = 8
    BY <2>1, <2>3
  <2> QED
    BY <2>1, <2>2, <2>3
<1>2. Padded(d, a) = d \o z
  BY DEF Padded
<1> HIDE DEF m
<1>3. z \in Seq(Nat) /\ Len(z) = m
  BY <1>1 DEF NUL
<1> HIDE DEF z, l
<1>4. /\ d \o z \in Seq(Nat) /\ Len(d \o z) = l + m
      /\ \A j \in 1..l : (d \o z)[j] = d[j]
  <2>1. Len(d) = l
    BY DEF l
  <2>2. Joins(d \o z, Nat, d, z, l, m)
    BY <2>1, <1>3, Joined
  <2> QED
    BY <2>2 DEF Joins
<1> QED
  BY <1>1, <1>2, <1>4 DEF l

LEMMA Opened ==
    ASSUME NEW string \in Seq(Nat)
    PROVE  Opens(string \o <<NUL>>, string)
<1>1. NUL \in Nat
  BY DEF NUL
<1> DEFINE b == string \o <<NUL>>
<1>2. /\ b \in Seq(Nat) /\ Len(b) = Len(string) + 1 /\ b[Len(string) + 1] = NUL
      /\ \A j \in 1..Len(string) : b[j] = string[j]
  BY <1>1
<1> HIDE DEF b
<1>3. Opens(b, string)
  BY <1>2 DEF Opens
<1> QED
  BY <1>3 DEF b

LEMMA GoBlockOpens ==
    ASSUME NEW string \in Seq(Nat)
    PROVE  Opens(GoBlock(string), string) /\ Len(GoBlock(string)) % 8 = 0
<1> DEFINE d == string \o <<NUL>>
           b == GoBlock(string)
<1>1. Opens(d, string)
  BY Opened
<1>2. d \in Seq(Nat)
  BY <1>1 DEF Opens
<1>3. b = Padded(d, 8)
  BY DEF GoBlock
<1> HIDE DEF d, b
<1>4. b \in Seq(Nat) /\ Len(b) >= Len(d) /\ Len(b) % 8 = 0 /\ \A j \in 1..Len(d) : b[j] = d[j]
  BY <1>2, <1>3, Padding
<1>5. /\ Len(d) > Len(string) /\ d[Len(string) + 1] = NUL
      /\ \A j \in 1..Len(string) : d[j] = string[j]
  BY <1>1 DEF Opens
<1> DEFINE x == Len(b)
           y == Len(d)
           z == Len(string)
<1>6. x \in Nat /\ y \in Nat /\ z \in Nat /\ x >= y /\ y > z
  <2>1. x \in Nat /\ y \in Nat /\ z \in Nat
    BY <1>2, <1>4, Elements, Zenon
  <2> QED
    BY <2>1, <1>4, <1>5
<1> HIDE DEF x, y, z
<1>7. x > z /\ z + 1 \in 1..y /\ \A j \in 1..z : j \in 1..y
  BY <1>6
<1>8. b[z + 1] = NUL /\ \A j \in 1..z : b[j] = string[j]
  BY <1>4, <1>5, <1>7 DEF y, z
<1>9. Opens(b, string)
  BY <1>4, <1>7, <1>8 DEF Opens, x, z
<1> QED
  BY <1>4, <1>9 DEF b

LEMMA NoNUL ==
    ASSUME NEW strings \in Seq(Seq(Nat)), ~HasNUL(strings), NEW k \in 1..Len(strings)
    PROVE  /\ strings[k] \in Seq(Nat)
           /\ \A j \in 1..Len(strings[k]) : strings[k][j] # NUL
<1> DEFINE s == strings[k]
<1>1. s \in Seq(Nat)
  <2> DEFINE S == Seq(Nat)
  <2>1. strings \in Seq(S)
    OBVIOUS
  <2> HIDE DEF S, s
  <2>2. strings[k] \in S
    BY <2>1, Elements
  <2> QED
    BY <2>2 DEF S, s
<1>2. NUL \notin Lists!ToSet(s)
  BY DEF HasNUL
<1> HIDE DEF s
<1>3. DOMAIN s = 1..Len(s)
  BY <1>1
<1>4. \A j \in 1..Len(s) : s[j] # NUL
  BY <1>2, <1>3 DEF Lists!ToSet
<1> QED
  BY <1>1, <1>4 DEF s

\* A Go program finds the strings that encodeGoArgv takes, in a table that is
\* aligned and inside the area.
THEOREM GoArgumentsRead ==
    ASSUME CodecAssumption, NEW args \in Seq(Seq(Nat)), ~GoArgvError(args)
    PROVE  ListAt(GoArgv(args), 1) = args /\ Fits(GoArgv(args), 8)
<1> DEFINE n == Len(args)
           blocks == [i \in 1..n |-> GoBlock(args[i])]
           data == Lists!FlattenSeq(blocks)
           o == Offsets(blocks)
           t == o \o <<NullPointer, NullPointer>>
           layout == GoArgv(args)
<1>1. /\ layout.data = data /\ layout.table = t /\ layout.at = Len(data)
      /\ layout.size = Len(data) + 8 * Len(t)
  BY DEF GoArgv
<1>2. ~HasNUL(args) /\ ~(layout.size >= Area) /\ Area \in Nat
  BY DEF GoArgvError, CodecAssumption
<1>3. /\ n \in Nat
      /\ \A k \in 1..n : args[k] \in Seq(Nat) /\ \A j \in 1..Len(args[k]) : args[k][j] # NUL
  <2>1. n \in Nat
    BY Elements, Zenon
  <2> QED
    BY <2>1, <1>2, NoNUL
<1> HIDE DEF layout
<1>4. \A k \in 1..n : /\ Opens(blocks[k], args[k]) /\ blocks[k] \in Seq(Nat)
                      /\ Len(blocks[k]) % 8 = 0
  <2> SUFFICES ASSUME NEW k \in 1..n
               PROVE  /\ Opens(blocks[k], args[k]) /\ blocks[k] \in Seq(Nat)
                      /\ Len(blocks[k]) % 8 = 0
    OBVIOUS
  <2>1. Opens(GoBlock(args[k]), args[k]) /\ Len(GoBlock(args[k])) % 8 = 0
    BY <1>3, GoBlockOpens
  <2>2. blocks[k] = GoBlock(args[k])
    OBVIOUS
  <2> HIDE DEF blocks
  <2> QED
    BY <2>1, <2>2 DEF Opens
<1>5. blocks \in Seq(Seq(Nat)) /\ Len(blocks) = n
  <2> DEFINE S == Seq(Nat)
             f(i) == GoBlock(args[i])
  <2>1. \A k \in 1..n : f(k) \in S
    BY <1>4
  <2>2. blocks = [i \in 1..n |-> f(i)]
    OBVIOUS
  <2> HIDE DEF S, f, blocks, n
  <2>3. [i \in 1..n |-> f(i)] \in Seq(S) /\ Len([i \in 1..n |-> f(i)]) = n
    BY <1>3, <2>1
  <2> QED
    BY <2>2, <2>3 DEF S
<1> HIDE DEF blocks
<1>6. PICK g : Chained(g, blocks)
  BY <1>5, ChainExists
<1>7. data = g[n] /\ data \in Seq(Nat)
  <2>1. n \in 0..Len(blocks) /\ g[n] \in Seq(Nat)
    <3>1. n \in 0..Len(blocks)
      <4> HIDE DEF n
      <4> QED
        BY <1>3, <1>5
    <3> HIDE DEF n
    <3> QED
      BY <3>1, <1>5, <1>6, Chain
  <2>2. Lists!FlattenSeq(SubSeq(blocks, 1, n)) = g[n]
    BY <2>1, <1>5, <1>6, Flattened
  <2>3. SubSeq(blocks, 1, n) = blocks
    BY <1>5, SubSeqFull
  <2> QED
    BY <2>1, <2>2, <2>3
<1>8. Len(data) \in Nat /\ Len(data) % 8 = 0
  <2>1. Len(g[Len(blocks)]) % 8 = 0
    BY <1>4, <1>5, <1>6, ChainAligned
  <2> HIDE DEF n, data
  <2>2. Len(data) \in Nat
    BY <1>7, Elements, Zenon
  <2>3. data = g[Len(blocks)]
    BY <1>5, <1>7
  <2> QED
    BY <2>1, <2>2, <2>3, Zenon
<1>9. o \in Seq(Nat) /\ Len(o) = n /\ \A k \in 1..n : StringAt(data, o[k]) = args[k]
  <2>1. Fronts(data, g[Len(blocks)])
    <3> HIDE DEF n, data
    <3> QED
      BY <1>5, <1>7, <1>8 DEF Fronts
  <2>2. Blocks(args, blocks)
    BY <1>3, <1>4, <1>5 DEF Blocks
  <2> HIDE DEF data
  <2>3. Readable(data, o, args)
    BY <2>1, <2>2, <1>6, LaidOut
  <2> HIDE DEF o
  <2> QED
    BY <2>3 DEF Readable
<1> HIDE DEF data, o, n
<1>10. /\ t \in Seq(Int) /\ Len(t) = n + 2 /\ t[n + 1] = NullPointer
       /\ \A k \in 1..n : t[k] = o[k] /\ o[k] \in Nat
  <2> DEFINE u == <<NullPointer, NullPointer>>
  <2>1. /\ o \in Seq(Int) /\ u \in Seq(Int) /\ Len(u) = 2 /\ u[1] = NullPointer
        /\ \A k \in 1..n : o[k] \in Nat
    BY <1>9, <1>3 DEF NullPointer
  <2>2. t = o \o u
    OBVIOUS
  <2> HIDE DEF u, t
  <2>3. Joins(o \o u, Int, o, u, n, 2)
    BY <2>1, <1>9, Joined
  <2>4. Joins(t, Int, o, u, n, 2)
    BY <2>2, <2>3
  <2> QED
    BY <2>1, <2>4 DEF Joins
<1> HIDE DEF t
<1>11. /\ 1 + n <= Len(t) /\ t[1 + n] = NullPointer
       /\ \A k \in 1..n : t[1 + k - 1] \in Nat /\ StringAt(data, t[1 + k - 1]) = args[k]
  <2>1. 1 + n <= n + 2 /\ 1 + n = n + 1 /\ \A k \in 1..n : 1 + k - 1 = k
    BY <1>3
  <2> QED
    BY <2>1, <1>9, <1>10
<1>12. ListAt(layout, 1) = args
  <2>1. /\ layout.table \in Seq(Int) /\ 1 \in Nat /\ 1 >= 1
        /\ 1 + Len(args) <= Len(layout.table) /\ layout.table[1 + Len(args)] = NullPointer
        /\ \A k \in 1..Len(args) : /\ layout.table[1 + k - 1] \in Nat
                                   /\ StringAt(layout.data, layout.table[1 + k - 1]) = args[k]
    BY <1>1, <1>10, <1>11 DEF n
  <2> QED
    BY <2>1, ListFound, Zenon
<1>13. Fits(layout, 8)
  <2> DEFINE x == Len(data)
             y == Len(t)
  <2>1. /\ x \in Nat /\ y \in Nat /\ x % 8 = 0 /\ layout.at = x /\ layout.size = x + 8 * y
        /\ ~(layout.size >= Area)
    BY <1>1, <1>2, <1>3, <1>8, <1>10
  <2> HIDE DEF x, y
  <2>2. layout.at % 8 = 0 /\ layout.size >= layout.at + y * 8 /\ layout.size <= Area
    BY <2>1, <1>2
  <2> QED
    BY <2>1, <2>2, <1>1 DEF Fits, x, y
<1> QED
  BY <1>12, <1>13 DEF layout

\* A C program finds the arguments and the environment that encodeEmscriptenArgv
\* takes, the one list behind the other, in a table that is aligned and inside the
\* area.
THEOREM EmscriptenArgumentsRead ==
    ASSUME CodecAssumption, NEW args \in Seq(Seq(Nat)), NEW environment \in Seq(Seq(Nat)),
           ~EmscriptenArgvError(args, environment)
    PROVE  LET layout == EmscriptenArgv(args, environment) IN
           /\ ListAt(layout, 1) = args
           /\ ListAt(layout, Len(args) + 2) = environment
           /\ Fits(layout, 4)
<1> DEFINE a == Len(args)
           e == Len(environment)
           blocks == Terminated(args) \o Terminated(environment)
           strings == args \o environment
           flat == Lists!FlattenSeq(blocks)
           data == Padded(flat, 4)
           o == Offsets(blocks)
           t == SubSeq(o, 1, a) \o <<NullPointer>> \o SubSeq(o, a + 1, Len(blocks)) \o <<NullPointer>>
           layout == EmscriptenArgv(args, environment)
<1>1. /\ layout.data = data /\ layout.table = t /\ layout.at = Len(data)
      /\ layout.size = Len(data) + 4 * Len(t)
  BY DEF EmscriptenArgv
<1>2. ~HasNUL(args) /\ ~HasNUL(environment) /\ ~(layout.size > Area) /\ Area \in Nat
  BY DEF EmscriptenArgvError, CodecAssumption
<1>3. /\ a \in Nat /\ e \in Nat
      /\ \A k \in 1..a : args[k] \in Seq(Nat) /\ \A j \in 1..Len(args[k]) : args[k][j] # NUL
      /\ \A k \in 1..e : /\ environment[k] \in Seq(Nat)
                         /\ \A j \in 1..Len(environment[k]) : environment[k][j] # NUL
  BY <1>2, NoNUL
<1> HIDE DEF layout
<1>4. ASSUME NEW l \in Seq(Seq(Nat)), \A k \in 1..Len(l) : l[k] \in Seq(Nat)
      PROVE  /\ Terminated(l) \in Seq(Seq(Nat)) /\ Len(Terminated(l)) = Len(l)
             /\ \A k \in 1..Len(l) : Opens(Terminated(l)[k], l[k])
  <2> DEFINE S == Seq(Nat)
             m == Len(l)
             f(i) == l[i] \o <<NUL>>
  <2>1. \A k \in 1..m : Opens(f(k), l[k])
    BY <1>4, Opened
  <2>2. \A k \in 1..m : f(k) \in S
    BY <2>1 DEF Opens
  <2>3. Terminated(l) = [i \in 1..m |-> f(i)] /\ m \in Nat
    BY DEF Terminated
  <2> HIDE DEF S, f, m
  <2>4. /\ [i \in 1..m |-> f(i)] \in Seq(S) /\ Len([i \in 1..m |-> f(i)]) = m
        /\ \A k \in 1..m : [i \in 1..m |-> f(i)][k] = f(k)
    BY <2>2, <2>3
  <2> QED
    BY <2>1, <2>3, <2>4 DEF S, m
<1>5. /\ Terminated(args) \in Seq(Seq(Nat)) /\ Len(Terminated(args)) = a
      /\ \A k \in 1..a : Opens(Terminated(args)[k], args[k])
  BY <1>3, <1>4
<1>6. /\ Terminated(environment) \in Seq(Seq(Nat)) /\ Len(Terminated(environment)) = e
      /\ \A k \in 1..e : Opens(Terminated(environment)[k], environment[k])
  BY <1>3, <1>4
<1> DEFINE ta == Terminated(args)
           te == Terminated(environment)
           S == Seq(Nat)
<1>7. /\ ta \in Seq(S) /\ te \in Seq(S) /\ args \in Seq(S) /\ environment \in Seq(S)
      /\ Len(ta) = a /\ Len(te) = e /\ Len(args) = a /\ Len(environment) = e
  BY <1>5, <1>6
<1>8. /\ blocks \in Seq(S) /\ Len(blocks) = a + e /\ strings \in Seq(S) /\ Len(strings) = a + e
      /\ \A k \in 1..a : blocks[k] = ta[k] /\ strings[k] = args[k]
      /\ \A k \in (a + 1)..(a + e) : blocks[k] = te[k - a] /\ strings[k] = environment[k - a]
  <2>1. blocks = ta \o te /\ strings = args \o environment
    OBVIOUS
  <2> HIDE DEF ta, te, S, a, e, blocks, strings
  <2>2. /\ blocks \in Seq(S) /\ Len(blocks) = a + e
        /\ \A k \in 1..a : blocks[k] = ta[k]
        /\ \A k \in 1..e : blocks[a + k] = te[k]
    <3>1. Joins(ta \o te, S, ta, te, a, e)
      BY <1>7, Joined
    <3>2. Joins(blocks, S, ta, te, a, e)
      BY <3>1, <2>1
    <3> QED
      BY <3>2 DEF Joins
  <2>3. /\ strings \in Seq(S) /\ Len(strings) = a + e
        /\ \A k \in 1..a : strings[k] = args[k]
        /\ \A k \in 1..e : strings[a + k] = environment[k]
    <3>1. Joins(args \o environment, S, args, environment, a, e)
      BY <1>7, Joined
    <3>2. Joins(strings, S, args, environment, a, e)
      BY <3>1, <2>1
    <3> QED
      BY <3>2 DEF Joins
  <2>4. \A k \in (a + 1)..(a + e) : k - a \in 1..e /\ a + (k - a) = k
    BY <1>3
  <2> QED
    BY <2>2, <2>3, <2>4
<1>9. \A k \in 1..(a + e) : /\ Opens(blocks[k], strings[k])
                            /\ \A j \in 1..Len(strings[k]) : strings[k][j] # NUL
  <2> SUFFICES ASSUME NEW k \in 1..(a + e)
               PROVE  /\ Opens(blocks[k], strings[k])
                      /\ \A j \in 1..Len(strings[k]) : strings[k][j] # NUL
    OBVIOUS
  <2> HIDE DEF blocks, strings, a, e
  <2>1. CASE k \in 1..a
    BY <2>1, <1>3, <1>5, <1>8
  <2>2. CASE k \notin 1..a
    <3>1. k \in (a + 1)..(a + e) /\ k - a \in 1..e
      BY <2>2, <1>3
    <3> QED
      BY <3>1, <1>3, <1>6, <1>8
  <2> QED
    BY <2>1, <2>2
<1> HIDE DEF blocks, strings
<1>10. PICK g : Chained(g, blocks)
  BY <1>8, ChainExists
<1>11. flat = g[a + e] /\ flat \in Seq(Nat)
  <2>1. a + e \in 0..Len(blocks) /\ g[a + e] \in Seq(Nat)
    <3>1. a + e \in 0..Len(blocks)
      <4> HIDE DEF a, e
      <4> QED
        BY <1>3, <1>8
    <3> HIDE DEF a, e
    <3> QED
      BY <3>1, <1>8, <1>10, Chain
  <2>2. Lists!FlattenSeq(SubSeq(blocks, 1, a + e)) = g[a + e]
    BY <2>1, <1>8, <1>10, Flattened
  <2>3. SubSeq(blocks, 1, a + e) = blocks
    BY <1>8, SubSeqFull
  <2> QED
    BY <2>1, <2>2, <2>3
<1> HIDE DEF flat
<1>12. /\ data \in Seq(Nat) /\ Len(data) \in Nat /\ Len(flat) <= Len(data) /\ Len(data) % 4 = 0
       /\ \A j \in 1..Len(flat) : data[j] = flat[j]
  <2>1. /\ data \in Seq(Nat) /\ Len(data) >= Len(flat) /\ Len(data) % 4 = 0
        /\ \A j \in 1..Len(flat) : data[j] = flat[j]
    BY <1>11, Padding
  <2> HIDE DEF data
  <2>2. Len(data) \in Nat /\ Len(flat) \in Nat
    BY <2>1, <1>11, LenProperties, Zenon
  <2> QED
    BY <2>1, <2>2
<1> HIDE DEF data
<1>13. /\ o \in Seq(Nat) /\ Len(o) = a + e
       /\ \A k \in 1..(a + e) : StringAt(data, o[k]) = strings[k]
  <2>1. Fronts(data, g[Len(blocks)])
    <3> HIDE DEF a, e
    <3> QED
      BY <1>8, <1>11, <1>12 DEF Fronts
  <2>2. Blocks(strings, blocks)
    <3> HIDE DEF a, e
    <3> QED
      BY <1>8, <1>9 DEF Blocks
  <2>3. Readable(data, o, strings)
    BY <2>1, <2>2, <1>10, LaidOut
  <2> HIDE DEF o, a, e
  <2> QED
    BY <2>3, <1>8 DEF Readable
<1> HIDE DEF o
<1>14. /\ t \in Seq(Int) /\ Len(t) = a + e + 2
       /\ t[a + 1] = NullPointer /\ t[a + e + 2] = NullPointer
       /\ \A k \in 1..a : t[k] = o[k]
       /\ \A k \in 1..e : t[a + 1 + k] = o[a + k]
       /\ \A k \in 1..(a + e) : o[k] \in Nat
  <2> DEFINE u == SubSeq(o, 1, a)
             w == SubSeq(o, a + 1, a + e)
             x == <<NullPointer>>
  <2> HIDE DEF a, e
  <2>1. o \in Seq(Int) /\ \A k \in 1..(a + e) : o[k] \in Nat
    BY <1>3, <1>13
  <2>2. /\ u \in Seq(Int) /\ Len(u) = a /\ \A k \in 1..a : u[k] = o[k]
    <3>1. /\ o \in Seq(Int) /\ 0 \in Nat /\ a \in Nat /\ 0 + a <= Len(o) /\ a = 0 + a
          /\ 1 = 0 + 1 /\ \A k \in 1..a : o[0 + k] = o[k]
      BY <2>1, <1>3, <1>13
    <3>2. Slices(u, Int, o, 0, a)
      BY <3>1, Sliced
    <3> HIDE DEF u
    <3> QED
      BY <3>1, <3>2 DEF Slices
  <2>3. /\ w \in Seq(Int) /\ Len(w) = e /\ \A k \in 1..e : w[k] = o[a + k]
    <3>1. /\ o \in Seq(Int) /\ a \in Nat /\ e \in Nat /\ a + e <= Len(o)
      BY <2>1, <1>3, <1>13
    <3>2. Slices(w, Int, o, a, e)
      BY <3>1, Sliced
    <3> HIDE DEF w
    <3> QED
      BY <3>2 DEF Slices
  <2>4. t = ((u \o x) \o w) \o x
    BY <1>8
  <2>5. x \in Seq(Int) /\ Len(x) = 1 /\ x[1] = NullPointer
    BY DEF NullPointer
  <2> HIDE DEF u, w, x, t
  <2> DEFINE y == u \o x
  <2>6. /\ y \in Seq(Int) /\ Len(y) = a + 1 /\ \A k \in 1..1 : y[a + k] = x[k]
        /\ \A k \in 1..a : y[k] = u[k]
    <3>1. Joins(y, Int, u, x, a, 1)
      BY <2>2, <2>5, Joined
    <3> HIDE DEF y
    <3> QED
      BY <3>1 DEF Joins
  <2> HIDE DEF y
  <2>7. /\ Len(y) = a + 1 /\ y[a + 1] = NullPointer /\ \A k \in 1..a : y[k] = o[k]
    BY <2>2, <2>5, <2>6
  <2> DEFINE z == y \o w
             b == a + 1
  <2>8. Len(y) = b
    BY <2>7
  <2> HIDE DEF b
  <2>9. /\ z \in Seq(Int) /\ Len(z) = b + e /\ \A k \in 1..e : z[b + k] = w[k]
        /\ \A k \in 1..b : z[k] = y[k]
    <3>1. Joins(z, Int, y, w, b, e)
      BY <2>3, <2>6, <2>8, Joined
    <3> HIDE DEF z
    <3> QED
      BY <3>1 DEF Joins
  <2> HIDE DEF z
  <2>10. t = z \o x
    BY <2>4 DEF y, z
  <2> DEFINE c == b + e
  <2>11. Len(z) = c
    BY <2>9
  <2> HIDE DEF c
  <2>12. /\ t \in Seq(Int) /\ Len(t) = c + 1 /\ \A k \in 1..1 : t[c + k] = x[k]
         /\ \A k \in 1..c : t[k] = z[k]
    <3>1. Joins(z \o x, Int, z, x, c, 1)
      BY <2>5, <2>9, <2>11, Joined
    <3>2. Joins(t, Int, z, x, c, 1)
      BY <3>1, <2>10
    <3> QED
      BY <3>2 DEF Joins
  <2>13. b = a + 1 /\ c = a + 1 + e /\ c + 1 = a + e + 2
    BY <1>3 DEF b, c
  <2>14. /\ Len(t) = a + e + 2 /\ t[a + e + 2] = NullPointer
    BY <2>5, <2>12, <2>13, <1>3
  <2>15. \A k \in 1..b : k \in 1..c /\ t[k] = y[k]
    <3>1. \A k \in 1..b : k \in 1..c
      BY <2>13, <1>3
    <3> QED
      BY <3>1, <2>9, <2>12
  <2>16. \A k \in 1..e : t[a + 1 + k] = o[a + k]
    <3>1. \A k \in 1..e : b + k \in 1..c /\ b + k = a + 1 + k
      BY <2>13, <1>3
    <3> QED
      BY <3>1, <2>3, <2>9, <2>12
  <2>17. a + 1 \in 1..b /\ \A k \in 1..a : k \in 1..b
    BY <2>13, <1>3
  <2> QED
    BY <2>1, <2>7, <2>12, <2>14, <2>15, <2>16, <2>17
<1> HIDE DEF t
<1>15. ListAt(layout, 1) = args
  <2>1. /\ 1 + a <= Len(t) /\ t[1 + a] = NullPointer
        /\ \A k \in 1..a : t[1 + k - 1] \in Nat /\ StringAt(data, t[1 + k - 1]) = args[k]
    <3> HIDE DEF a, e
    <3>1. 1 + a <= a + e + 2 /\ 1 + a = a + 1
          /\ \A k \in 1..a : 1 + k - 1 = k /\ k \in 1..(a + e)
      BY <1>3
    <3> QED
      BY <3>1, <1>8, <1>13, <1>14
  <2>2. /\ layout.table \in Seq(Int) /\ 1 \in Nat /\ 1 >= 1
        /\ 1 + Len(args) <= Len(layout.table) /\ layout.table[1 + Len(args)] = NullPointer
        /\ \A k \in 1..Len(args) : /\ layout.table[1 + k - 1] \in Nat
                                   /\ StringAt(layout.data, layout.table[1 + k - 1]) = args[k]
    BY <2>1, <1>1, <1>14
  <2> QED
    BY <2>2, ListFound, Zenon
<1>16. ListAt(layout, a + 2) = environment
  <2>1. /\ (a + 2) + e <= Len(t) /\ t[(a + 2) + e] = NullPointer
        /\ a + 2 \in Nat /\ a + 2 >= 1
        /\ \A k \in 1..e : /\ t[(a + 2) + k - 1] \in Nat
                           /\ StringAt(data, t[(a + 2) + k - 1]) = environment[k]
    <3> HIDE DEF a, e
    <3>1. /\ (a + 2) + e = a + e + 2 /\ a + 2 \in Nat /\ a + 2 >= 1
          /\ \A k \in 1..e : /\ (a + 2) + k - 1 = a + 1 + k /\ a + k \in 1..(a + e)
                             /\ a + k \in (a + 1)..(a + e) /\ (a + k) - a = k
      BY <1>3
    <3>2. \A k \in 1..e : strings[a + k] = environment[k]
      BY <3>1, <1>8
    <3> QED
      <4>1. (a + 2) + e <= Len(t) /\ t[(a + 2) + e] = NullPointer
        BY <3>1, <1>14, <1>3
      <4>2. ASSUME NEW k \in 1..e
            PROVE  /\ t[(a + 2) + k - 1] \in Nat
                   /\ StringAt(data, t[(a + 2) + k - 1]) = environment[k]
        <5>1. t[(a + 2) + k - 1] = o[a + k]
          BY <3>1, <1>14
        <5>2. o[a + k] \in Nat /\ StringAt(data, o[a + k]) = strings[a + k]
          BY <3>1, <1>13, <1>14
        <5> QED
          BY <5>1, <5>2, <3>2
      <4> QED
        BY <3>1, <4>1, <4>2
  <2> DEFINE i == a + 2
  <2> HIDE DEF i
  <2>2. /\ i + e <= Len(t) /\ t[i + e] = NullPointer /\ i \in Nat /\ i >= 1
        /\ \A k \in 1..e : t[i + k - 1] \in Nat /\ StringAt(data, t[i + k - 1]) = environment[k]
    BY <2>1 DEF i
  <2>3. ListAt(layout, i) = environment
    BY <2>2, <1>1, <1>14, ListFound
  <2> QED
    BY <2>3 DEF i
<1>17. Fits(layout, 4)
  <2> DEFINE x == Len(data)
             y == Len(t)
  <2>1. /\ x \in Nat /\ y \in Nat /\ x % 4 = 0 /\ layout.at = x /\ layout.size = x + 4 * y
        /\ ~(layout.size > Area)
    BY <1>1, <1>2, <1>3, <1>12, <1>14
  <2> HIDE DEF x, y
  <2>2. layout.at % 4 = 0 /\ layout.size >= layout.at + y * 4 /\ layout.size <= Area
    BY <2>1, <1>2
  <2> QED
    BY <2>1, <2>2, <1>1 DEF Fits, x, y
<1> QED
  BY <1>15, <1>16, <1>17 DEF layout, a

=============================================================================
