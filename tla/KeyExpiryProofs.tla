--------------------------- MODULE KeyExpiryProofs ---------------------------
(***************************************************************************)
(* Proofs about the time tree, whatever its height, and about KeyExpiry:   *)
(* the path of a leaf meets the cover of another in one node if the first  *)
(* is not before the second and in none otherwise.  So a key signs exactly *)
(* until its leaf expires and the cover of a period is exact.              *)
(***************************************************************************)
EXTENDS KeyExpiry, Integers, FiniteSetTheorems, WellFoundedInduction, TLAPS

-----------------------------------------------------------------------------
\* Induction along the levels of the tree, first-order.

\* A set of naturals that is not empty has a least element: the intervals up to
\* its elements are finite sets, which strict inclusion orders well.
LEMMA LeastNatural ==
    ASSUME NEW S \in SUBSET Nat, S # {}
    PROVE  \E x \in S : \A y \in S : x <= y
<1> DEFINE T == {1 .. n : n \in S}
<1>1. T # {}
  OBVIOUS
<1>2. T \subseteq FiniteSubsetsOf(Nat)
  <2>1. \A n \in S : (1 .. n) \in SUBSET Nat /\ IsFiniteSet(1 .. n)
    BY FS_Interval
  <2>2. QED
    BY <2>1 DEF FiniteSubsetsOf
<1>3. PICK I \in T : \A J \in T : ~ (<<J, I>> \in StrictSubsetOrdering(Nat))
  <2>1. IsWellFoundedOn(StrictSubsetOrdering(Nat), FiniteSubsetsOf(Nat))
    BY FS_StrictSubsetOrderingWellFounded
  <2> HIDE DEF T
  <2>2. QED
    BY <1>1, <1>2, <2>1, WFMin
<1>4. PICK x \in S : I = 1 .. x
  OBVIOUS
<1>5. ASSUME NEW y \in S, y < x
      PROVE  FALSE
  <2>1. (1 .. y) \subseteq (1 .. x) /\ x \in 1 .. x /\ x \notin 1 .. y
    BY <1>5
  <2>2. <<1 .. y, 1 .. x>> \in StrictSubsetOrdering(Nat)
    BY <2>1 DEF StrictSubsetOrdering
  <2>3. (1 .. y) \in T
    OBVIOUS
  <2>4. QED
    BY <1>3, <1>4, <2>2, <2>3
<1>6. QED
  BY <1>5

\* What holds at the bottom and passes from each level to the next holds at
\* every level up to m.
LEMMA LevelByLevel ==
    ASSUME NEW m \in Nat, NEW S, 0 \in S,
           \A k \in 0 .. m - 1 : k \in S => k + 1 \in S
    PROVE  \A k \in 0 .. m : k \in S
<1> DEFINE Missing == {k \in 0 .. m : k \notin S}
<1>1. SUFFICES ASSUME Missing # {} PROVE FALSE
  OBVIOUS
<1>2. PICK x \in Missing : \A y \in Missing : x <= y
  <2>1. Missing \in SUBSET Nat
    OBVIOUS
  <2> HIDE DEF Missing
  <2>2. QED
    BY <1>1, <2>1, LeastNatural
<1>3. x # 0 /\ x - 1 \in 0 .. m - 1
  OBVIOUS
<1>4. x - 1 \in S
  BY <1>2, <1>3
<1>5. (x - 1) + 1 = x
  BY <1>3
<1>6. QED
  BY <1>3, <1>4, <1>5

-----------------------------------------------------------------------------
\* Powers and halving.

LEMMA Powers ==
    /\ \A k \in 0 .. Level : 2^k \in Nat /\ 2^k > 0
    /\ \A k \in 0 .. Level, j \in 0 .. Level : j <= k => 2^j <= 2^k
    /\ 2^0 = 1
<1> DEFINE S == {k \in 0 .. Level : 2^k \in Nat /\ 2^k > 0 /\ \A j \in 0 .. k : 2^j <= 2^k}
<1>1. 2^0 = 1
  OBVIOUS
<1>2. 0 \in S
  <2>1. \A j \in 0 .. 0 : j = 0
    OBVIOUS
  <2>2. 2^0 \in Nat /\ 2^0 > 0 /\ 0 \in 0 .. Level /\ \A j \in 0 .. 0 : 2^j <= 2^0
    BY <1>1, <2>1, LevelAssumption
  <2>3. QED
    BY <2>2
<1>3. \A k \in 0 .. Level - 1 : k \in S => k + 1 \in S
  <2>1. SUFFICES ASSUME NEW k \in 0 .. Level - 1, k \in S PROVE k + 1 \in S
    OBVIOUS
  <2>2. 2^(k + 1) = 2 * 2^k
    BY PowersDouble, LevelAssumption
  <2>3. 2^k \in Nat /\ 2^k > 0 /\ \A j \in 0 .. k : 2^j \in Int /\ 2^j <= 2^k
    BY <2>1, LevelAssumption
  <2>4. \A j \in 0 .. k + 1 : 2^j <= 2^(k + 1)
    <3>1. SUFFICES ASSUME NEW j \in 0 .. k + 1 PROVE 2^j <= 2^(k + 1)
      OBVIOUS
    <3>2. CASE j = k + 1
      BY <2>2, <2>3, <3>2
    <3>3. CASE j \in 0 .. k
      BY <2>2, <2>3, <3>3
    <3>4. QED
      BY <3>2, <3>3, LevelAssumption
  <2>5. QED
    BY <2>2, <2>3, <2>4, LevelAssumption
<1>4. \A k \in 0 .. Level : k \in S
  <2> HIDE DEF S
  <2>1. QED
    BY <1>2, <1>3, LevelByLevel, LevelAssumption
<1>5. QED
  BY <1>1, <1>4, LevelAssumption

\* A quotient is what leaves a remainder less than the divisor.
LEMMA Quotient ==
    ASSUME NEW x \in Nat, NEW q \in Nat, q > 0, NEW b \in Nat, NEW r \in Nat, r < q,
           x = q * b + r
    PROVE  x \div q = b
<1> DEFINE d == x \div q
           s == x % q
<1>1. d \in Nat /\ s \in Nat /\ s < q /\ x = q * d + s
  OBVIOUS
<1> HIDE DEF d, s
<1>2. ASSUME d < b PROVE FALSE
  <2>1. q * (d + 1) <= q * b
    BY <1>1, <1>2
  <2>2. q * (d + 1) = q * d + q
    BY <1>1
  <2>3. QED
    BY <1>1, <2>1, <2>2
<1>3. ASSUME b < d PROVE FALSE
  <2>1. q * (b + 1) <= q * d
    BY <1>1, <1>3
  <2>2. q * (b + 1) = q * b + q
    BY <1>1
  <2>3. QED
    BY <1>1, <2>1, <2>2
<1>4. QED
  BY <1>1, <1>2, <1>3 DEF d

\* Dividing by twice p is dividing by p and halving.
LEMMA Halving ==
    ASSUME NEW x \in Nat, NEW p \in Nat, p > 0
    PROVE  x \div (2 * p) = (x \div p) \div 2
<1> DEFINE a == x \div p
           r == x % p
           b == a \div 2
           c == a % 2
<1>1. a \in Nat /\ r \in Nat /\ r < p /\ x = p * a + r
  OBVIOUS
<1> HIDE DEF a, r
<1>2. b \in Nat /\ c \in {0, 1} /\ a = 2 * b + c
  BY <1>1
<1> HIDE DEF b, c
<1>3. p * c + r \in Nat /\ p * c + r < 2 * p
  BY <1>1, <1>2
<1>4. x = (2 * p) * b + (p * c + r)
  <2>1. p * a = p * (2 * b) + p * c
    BY <1>1, <1>2
  <2>2. p * (2 * b) = (2 * p) * b
    BY <1>2
  <2>3. QED
    BY <1>1, <1>2, <2>1, <2>2
<1>5. x \div (2 * p) = b
  BY <1>2, <1>3, <1>4, Quotient
<1>6. QED
  BY <1>5 DEF a, b

-----------------------------------------------------------------------------
\* The node k levels above x.

Up(x, k) == x \div 2^k

LEMMA UpStep ==
    ASSUME NEW x \in Nat
    PROVE  /\ Up(x, 0) = x
           /\ \A k \in 0 .. Level : Up(x, k) \in Nat
           /\ \A k \in 0 .. Level - 1 : Up(x, k + 1) = Up(x, k) \div 2
<1>1. Up(x, 0) = x
  <2>1. x \div 1 = x
    BY Quotient
  <2>2. QED
    BY <2>1, Powers DEF Up
<1>2. ASSUME NEW k \in 0 .. Level PROVE Up(x, k) \in Nat
  <2>1. 2^k \in Nat /\ 2^k > 0
    BY Powers
  <2> DEFINE p == 2^k
  <2> HIDE DEF p
  <2>2. x \div p \in Nat
    BY <2>1 DEF p
  <2>3. QED
    BY <2>2 DEF Up, p
<1>3. ASSUME NEW k \in 0 .. Level - 1 PROVE Up(x, k + 1) = Up(x, k) \div 2
  <2>1. k \in 0 .. Level
    BY LevelAssumption
  <2>2. 2^k \in Nat /\ 2^k > 0 /\ 2^(k + 1) = 2 * 2^k
    BY <2>1, Powers, PowersDouble
  <2> DEFINE p == 2^k
  <2> HIDE DEF p
  <2>3. x \div (2 * p) = (x \div p) \div 2
    BY <2>2, Halving DEF p
  <2>4. QED
    BY <2>2, <2>3 DEF Up, p
<1>4. QED
  BY <1>1, <1>2, <1>3

\* Nodes keep their order on the way up, and once two meet they stay together.
LEMMA UpOrder ==
    ASSUME NEW x \in Nat, NEW y \in Nat, x <= y
    PROVE  \A k \in 0 .. Level : Up(x, k) <= Up(y, k)
<1> DEFINE S == {k \in 0 .. Level : Up(x, k) <= Up(y, k)}
<1>1. 0 \in S
  BY UpStep, LevelAssumption
<1>2. \A k \in 0 .. Level - 1 : k \in S => k + 1 \in S
  <2>1. SUFFICES ASSUME NEW k \in 0 .. Level - 1, Up(x, k) <= Up(y, k)
                 PROVE  Up(x, k + 1) <= Up(y, k + 1)
    BY LevelAssumption
  <2>2. k \in 0 .. Level
    BY LevelAssumption
  <2>3. Up(x, k) \in Nat /\ Up(y, k) \in Nat
    BY <2>2, UpStep
  <2>4. Up(x, k + 1) = Up(x, k) \div 2 /\ Up(y, k + 1) = Up(y, k) \div 2
    BY UpStep
  <2>5. QED
    BY <2>1, <2>3, <2>4
<1>3. \A k \in 0 .. Level : k \in S
  <2> HIDE DEF S
  <2>1. QED
    BY <1>1, <1>2, LevelByLevel, LevelAssumption
<1>4. QED
  BY <1>3

LEMMA UpTogether ==
    ASSUME NEW x \in Nat, NEW y \in Nat, NEW j \in 0 .. Level, Up(x, j) = Up(y, j)
    PROVE  \A k \in j .. Level : Up(x, k) = Up(y, k)
<1> DEFINE S == {k \in 0 .. Level : k >= j => Up(x, k) = Up(y, k)}
<1>1. 0 \in S
  <2>1. 0 >= j => j = 0
    OBVIOUS
  <2>2. QED
    BY <2>1, LevelAssumption
<1>2. \A k \in 0 .. Level - 1 : k \in S => k + 1 \in S
  <2>1. SUFFICES ASSUME NEW k \in 0 .. Level - 1, k \in S, k + 1 >= j
                 PROVE  Up(x, k + 1) = Up(y, k + 1)
    BY LevelAssumption
  <2>2. CASE k >= j
    BY <2>1, <2>2, UpStep
  <2>3. CASE k + 1 = j
    BY <2>3
  <2>4. QED
    BY <2>1, <2>2, <2>3
<1>3. \A k \in 0 .. Level : k \in S
  <2> HIDE DEF S
  <2>1. QED
    BY <1>1, <1>2, LevelByLevel, LevelAssumption
<1>4. QED
  BY <1>3

\* The node k levels above a leaf, by its depth.
LEMMA Depths ==
    ASSUME NEW x \in Leaf
    PROVE  /\ x \in Nat
           /\ \A k \in 0 .. Level - 1 :
                 2^((Level - 1) - k) <= Up(x, k) /\ Up(x, k) < 2^(Level - k)
           /\ Up(x, Level - 1) = 1
           /\ Up(x, Level) = 0
<1> DEFINE S == {k \in 0 .. Level - 1 :
                    2^((Level - 1) - k) <= Up(x, k) /\ Up(x, k) < 2^(Level - k)}
<1>1. x \in Nat /\ 2^(Level - 1) <= x /\ x < 2^Level
  <2>1. 2^(Level - 1) \in Nat /\ 2^Level \in Nat
    BY Powers, LevelAssumption
  <2>2. QED
    BY <2>1 DEF Leaf, FirstLeaf, Size
<1>2. 0 \in S
  <2>1. (Level - 1) - 0 = Level - 1 /\ Level - 0 = Level /\ 0 \in 0 .. Level - 1
    BY LevelAssumption
  <2>2. Up(x, 0) = x
    BY <1>1, UpStep
  <2>3. QED
    BY <1>1, <2>1, <2>2
<1>3. \A k \in 0 .. (Level - 1) - 1 : k \in S => k + 1 \in S
  <2>1. SUFFICES ASSUME NEW k \in 0 .. (Level - 1) - 1, k \in S PROVE k + 1 \in S
    OBVIOUS
  <2> DEFINE d == (Level - 1) - (k + 1)
  <2>2. /\ d \in 0 .. Level /\ d + 1 \in 0 .. Level /\ d + 1 = (Level - 1) - k
        /\ (d + 1) + 1 = Level - k /\ d + 1 = Level - (k + 1)
        /\ k \in 0 .. Level - 1 /\ k + 1 \in 0 .. Level - 1
    BY LevelAssumption
  <2>3. 2^(d + 1) = 2 * 2^d /\ 2^((d + 1) + 1) = 2 * 2^(d + 1) /\ 2^d \in Nat
    BY <2>2, Powers, PowersDouble
  <2>4. 2^(d + 1) <= Up(x, k) /\ Up(x, k) < 2^((d + 1) + 1)
    BY <2>1, <2>2
  <2>5. Up(x, k) \in Nat /\ Up(x, k + 1) = Up(x, k) \div 2
    BY <1>1, <2>2, UpStep, LevelAssumption
  <2>6. 2^d <= Up(x, k + 1) /\ Up(x, k + 1) < 2^(d + 1)
    BY <2>3, <2>4, <2>5
  <2>7. QED
    BY <2>2, <2>6
<1>4. \A k \in 0 .. Level - 1 : k \in S
  <2> HIDE DEF S
  <2>1. QED
    BY <1>2, <1>3, LevelByLevel, LevelAssumption
<1>5. Up(x, Level - 1) = 1
  <2>1. /\ Level - 1 \in 0 .. Level - 1 /\ (Level - 1) - (Level - 1) = 0 /\ Level - (Level - 1) = 0 + 1
        /\ Level - 1 \in 0 .. Level
    BY LevelAssumption
  <2>2. 2^0 <= Up(x, Level - 1) /\ Up(x, Level - 1) < 2^(0 + 1)
    BY <1>4, <2>1
  <2>3. 2^(0 + 1) = 2 * 2^0 /\ 2^0 = 1
    BY Powers, PowersDouble, LevelAssumption
  <2>4. Up(x, Level - 1) \in Nat
    BY <1>1, <2>1, UpStep
  <2>5. QED
    BY <2>2, <2>3, <2>4
<1>6. Up(x, Level) = 0
  <2>1. Level - 1 \in 0 .. Level - 1 /\ (Level - 1) + 1 = Level
    BY LevelAssumption
  <2>2. Up(x, Level) = 1 \div 2
    BY <1>1, <1>5, <2>1, UpStep
  <2>3. QED
    BY <2>2
<1>7. QED
  BY <1>1, <1>4, <1>5, <1>6

-----------------------------------------------------------------------------
\* The path of leaf x leaves that of leaf i to the right, k levels above them.

Leaves(i, x, k) == Up(i, k) % 2 = 0 /\ Up(x, k) = Up(i, k) + 1

LEMMA LeavesSomewhere ==
    ASSUME NEW i \in Leaf, NEW x \in Leaf, i < x
    PROVE  \E k \in 0 .. Level - 1 : Leaves(i, x, k)
<1> DEFINE Met == {k \in 0 .. Level - 1 : Up(i, k) = Up(x, k)}
<1>1. i \in Nat /\ x \in Nat /\ Level - 1 \in Met
  BY Depths, LevelAssumption
<1>2. PICK m \in Met : \A k \in Met : m <= k
  <2>1. Met \in SUBSET Nat /\ Met # {}
    BY <1>1
  <2> HIDE DEF Met
  <2>2. QED
    BY <2>1, LeastNatural
<1>3. m # 0
  BY <1>1, UpStep
<1> DEFINE k == m - 1
<1>4. k \in 0 .. Level - 1 /\ k \in 0 .. Level /\ k + 1 = m /\ k \notin Met
  BY <1>2, <1>3, LevelAssumption
<1>5. Up(i, k) \in Nat /\ Up(x, k) \in Nat /\ Up(i, k) <= Up(x, k) /\ Up(i, k) # Up(x, k)
  BY <1>1, <1>4, UpStep, UpOrder
<1>6. Up(i, k) \div 2 = Up(x, k) \div 2
  <2>1. Up(i, k + 1) = Up(x, k + 1)
    BY <1>4
  <2>2. QED
    BY <1>1, <1>4, <2>1, UpStep
<1>7. Up(i, k) % 2 = 0 /\ Up(x, k) = Up(i, k) + 1
  <2> DEFINE a == Up(i, k)
             b == Up(x, k)
  <2> HIDE DEF a, b
  <2>1. a \in Nat /\ b \in Nat /\ a < b /\ a \div 2 = b \div 2
    BY <1>5, <1>6 DEF a, b
  <2>2. a % 2 = 0 /\ b = a + 1
    BY <2>1
  <2>3. QED
    BY <2>2 DEF a, b
<1>8. QED
  BY <1>4, <1>7 DEF Leaves

LEMMA LeavesOnce ==
    ASSUME NEW i \in Leaf, NEW x \in Leaf,
           NEW k \in 0 .. Level - 1, Leaves(i, x, k)
    PROVE  /\ i < x
           /\ \A j \in 0 .. Level - 1 : Leaves(i, x, j) => j = k
<1>1. i \in Nat /\ x \in Nat
  BY Depths
<1>2. \A j \in 0 .. Level - 1 : Up(i, j) \in Nat /\ Up(x, j) \in Nat
  <2>1. \A j \in 0 .. Level - 1 : j \in 0 .. Level
    BY LevelAssumption
  <2>2. QED
    BY <1>1, <2>1, UpStep
<1>3. i < x
  <2>1. SUFFICES ASSUME x <= i PROVE FALSE
    BY <1>1
  <2>2. Up(x, k) <= Up(i, k)
    BY <1>1, <2>1, UpOrder, LevelAssumption
  <2>3. QED
    BY <1>2, <2>2 DEF Leaves
<1>4. \A a, b \in 0 .. Level - 1 : Leaves(i, x, a) /\ Leaves(i, x, b) => ~ (a < b)
  <2>1. SUFFICES ASSUME NEW a \in 0 .. Level - 1, NEW b \in 0 .. Level - 1,
                        Leaves(i, x, a), Leaves(i, x, b), a < b
                 PROVE  FALSE
    OBVIOUS
  <2>2. Up(i, a) \div 2 = Up(x, a) \div 2
    <3> DEFINE n == Up(i, a)
    <3> HIDE DEF n
    <3>1. n \in Nat /\ n % 2 = 0 /\ Up(x, a) = n + 1
      BY <1>2, <2>1 DEF Leaves, n
    <3>2. n \div 2 = (n + 1) \div 2
      BY <3>1
    <3>3. QED
      BY <3>1, <3>2 DEF n
  <2>3. Up(i, a + 1) = Up(x, a + 1)
    BY <1>1, <2>2, UpStep
  <2>4. a + 1 \in 0 .. Level /\ b \in a + 1 .. Level
    BY <2>1, LevelAssumption
  <2>5. Up(i, b) = Up(x, b)
    BY <1>1, <2>3, <2>4, UpTogether
  <2>6. QED
    BY <1>2, <2>1, <2>5 DEF Leaves
<1>5. QED
  BY <1>3, <1>4

\* A right sibling on the path of i is as deep on the path of x.
LEMMA SameDepth ==
    ASSUME NEW i \in Leaf, NEW x \in Leaf, NEW j \in 0 .. Level, NEW k \in 0 .. Level,
           Up(i, j) # 0, Up(i, j) % 2 = 0, Up(x, k) = Up(i, j) + 1
    PROVE  k \in 0 .. Level - 1 /\ Leaves(i, x, k)
<1>1. i \in Nat /\ x \in Nat /\ Up(i, j) \in Nat /\ Up(x, k) \in Nat
  BY Depths, UpStep
<1>2. j \in 0 .. Level - 1 /\ k \in 0 .. Level - 1
  <2>1. j # Level /\ k # Level
    BY <1>1, Depths
  <2>2. QED
    BY <2>1, LevelAssumption
<1> DEFINE dj == (Level - 1) - j
           dk == (Level - 1) - k
<1>3. dj \in 0 .. Level /\ dk \in 0 .. Level /\ dj + 1 = Level - j /\ dk + 1 = Level - k
  BY <1>2, LevelAssumption
<1>4. /\ 2^dj <= Up(i, j) /\ Up(i, j) < 2^(dj + 1)
      /\ 2^dk <= Up(x, k) /\ Up(x, k) < 2^(dk + 1)
  BY <1>2, <1>3, Depths
<1>5. 2^(dj + 1) = 2 * 2^dj /\ 2^dj \in Nat
  BY <1>3, Powers, PowersDouble
<1>6. Up(x, k) < 2^(dj + 1)
  <2> DEFINE n == Up(i, j)
             p == 2^dj
  <2> HIDE DEF n, p
  <2>1. n \in Nat /\ n % 2 = 0 /\ p \in Nat /\ n < 2 * p
    BY <1>1, <1>4, <1>5 DEF n, p
  <2>2. n + 1 < 2 * p
    BY <2>1
  <2>3. QED
    BY <1>5, <2>2 DEF n, p
<1>7. ~ (j < k)
  <2>1. SUFFICES ASSUME j < k PROVE FALSE
    OBVIOUS
  <2>2. dk + 1 <= dj /\ dk + 1 \in 0 .. Level
    BY <1>2, <2>1, LevelAssumption
  <2>3. 2^(dk + 1) <= 2^dj
    BY <1>3, <2>2, Powers
  <2>4. 2^(dk + 1) \in Int
    BY <2>2, Powers
  <2>5. QED
    BY <1>1, <1>4, <1>5, <2>3, <2>4
<1>8. ~ (k < j)
  <2>1. SUFFICES ASSUME k < j PROVE FALSE
    OBVIOUS
  <2>2. dj + 1 <= dk /\ dj + 1 \in 0 .. Level
    BY <1>2, <2>1, LevelAssumption
  <2>3. 2^(dj + 1) <= 2^dk /\ 2^dk \in Nat /\ 2^(dj + 1) \in Nat
    BY <1>3, <2>2, Powers
  <2>4. QED
    BY <1>1, <1>4, <1>6, <2>3
<1>9. QED
  BY <1>2, <1>7, <1>8 DEF Leaves

-----------------------------------------------------------------------------
\* The cover of a leaf, and where the path of another one meets it.

LEMMA Indices ==
    /\ (Size + 1) \div 2 = FirstLeaf /\ FirstLeaf \in Nat /\ FirstLeaf >= 2
    /\ Size = 2 * FirstLeaf - 1
    /\ LeafNodes \subseteq Leaf
    /\ \A l \in LeafNodes : l - 1 \in Leaf /\ l # FirstLeaf
<1>1. Level - 1 \in 0 .. Level /\ 1 \in 0 .. Level /\ 1 <= Level - 1 /\ (Level - 1) + 1 = Level
      /\ 0 \in 0 .. Level /\ 0 + 1 = 1
  BY LevelAssumption
<1>2. 2^(0 + 1) = 2 * 2^0 /\ 2^((Level - 1) + 1) = 2 * 2^(Level - 1)
  BY <1>1, PowersDouble
<1>3. 2^1 <= 2^(Level - 1) /\ 2^(Level - 1) \in Nat /\ 2^0 = 1
  BY <1>1, Powers
<1>4. FirstLeaf \in Nat /\ FirstLeaf >= 2 /\ 2^Level = 2 * FirstLeaf
  BY <1>1, <1>2, <1>3 DEF FirstLeaf
<1>5. Size = 2 * FirstLeaf - 1
  BY <1>4 DEF Size
<1>6. (Size + 1) \div 2 = FirstLeaf
  BY <1>4, <1>5
<1>7. QED
  BY <1>4, <1>5, <1>6 DEF LeafNodes, Leaf

LEMMA CoverOfLeaf ==
    ASSUME NEW l \in LeafNodes
    PROVE  Cstbk(l) = {n + 1 : n \in {m \in Path(l - 1) : m % 2 = 0}}
BY Indices DEF Cstbk

\* When all leaves have expired there is no cover.
LEMMA CoverOfRoot == Cstbk(Root) = {}
<1>1. Cstbk(Root) = {n + 1 : n \in {m \in Path(0) : m % 2 = 0}}
  <2>1. Root # (Size + 1) \div 2 /\ Root - 1 = 0
    BY Indices DEF Root
  <2>2. QED
    BY <2>1 DEF Cstbk
<1>2. \A k \in 0 .. Level : 0 \div 2^k = 0
  <2>1. SUFFICES ASSUME NEW k \in 0 .. Level PROVE 0 \div 2^k = 0
    OBVIOUS
  <2> DEFINE p == 2^k
  <2>2. p \in Nat /\ p > 0
    BY Powers
  <2> HIDE DEF p
  <2>3. 0 = p * 0 + 0
    BY <2>2
  <2>4. 0 \div p = 0
    BY <2>2, <2>3, Quotient
  <2>5. QED
    BY <2>4 DEF p
<1>3. Path(0) = {}
  BY <1>2 DEF Path
<1>4. QED
  BY <1>1, <1>3

LEMMA CoverMeets ==
    ASSUME NEW x \in Leaf, NEW l \in LeafNodes
    PROVE  /\ x >= l => \E n : Path(x) \cap Cstbk(l) = {n}
           /\ x < l => Path(x) \cap Cstbk(l) = {}
<1> DEFINE i == l - 1
           common == Path(x) \cap Cstbk(l)
<1>1. i \in Leaf /\ i \in Nat /\ x \in Nat /\ l \in Nat
  BY Indices, Depths
<1> HIDE DEF i
<1>2. Cstbk(l) = {n + 1 : n \in {m \in Path(i) : m % 2 = 0}}
  BY CoverOfLeaf DEF i
<1>3. \A n \in common : \E k \in 0 .. Level - 1 : Leaves(i, x, k) /\ n = Up(x, k)
  <2>1. SUFFICES ASSUME NEW n \in common
                 PROVE  \E k \in 0 .. Level - 1 : Leaves(i, x, k) /\ n = Up(x, k)
    OBVIOUS
  <2>2. PICK k \in 0 .. Level : n = Up(x, k)
    BY DEF Path, Up
  <2>3. PICK j \in 0 .. Level : Up(i, j) # 0 /\ Up(i, j) % 2 = 0 /\ n = Up(i, j) + 1
    BY <1>2 DEF Path, Up
  <2>4. k \in 0 .. Level - 1 /\ Leaves(i, x, k)
    BY <1>1, <2>2, <2>3, SameDepth
  <2>5. QED
    BY <2>2, <2>4
<1>4. \A k \in 0 .. Level - 1 : Leaves(i, x, k) => Up(x, k) \in common
  <2>1. SUFFICES ASSUME NEW k \in 0 .. Level - 1, Leaves(i, x, k)
                 PROVE  Up(x, k) \in common
    OBVIOUS
  <2>2. k \in 0 .. Level
    BY LevelAssumption
  <2>3. Up(i, k) \in Nat /\ Up(i, k) > 0
    <3>1. 2^((Level - 1) - k) <= Up(i, k) /\ (Level - 1) - k \in 0 .. Level
      BY <1>1, Depths, LevelAssumption
    <3>2. QED
      BY <1>1, <2>2, <3>1, Powers, UpStep
  <2>4. Up(i, k) \in Path(i)
    BY <2>2, <2>3 DEF Path, Up
  <2>5. Up(x, k) \in Path(x)
    BY <2>1, <2>2, <2>3 DEF Path, Up, Leaves
  <2>6. QED
    BY <1>2, <2>1, <2>4, <2>5 DEF Leaves
<1> HIDE DEF common
<1>5. ASSUME x >= l PROVE \E n : common = {n}
  <2>1. i < x
    BY <1>1, <1>5 DEF i
  <2>2. PICK k \in 0 .. Level - 1 : Leaves(i, x, k)
    BY <1>1, <2>1, LeavesSomewhere
  <2>3. \A n \in common : n = Up(x, k)
    BY <1>1, <1>3, <2>2, LeavesOnce
  <2>4. common = {Up(x, k)}
    BY <1>4, <2>2, <2>3
  <2>5. QED
    BY <2>4
<1>6. ASSUME x < l PROVE common = {}
  <2>1. ~ (i < x)
    BY <1>1, <1>6 DEF i
  <2>2. QED
    BY <1>1, <1>3, <2>1, LeavesOnce
<1>7. QED
  BY <1>5, <1>6 DEF common

-----------------------------------------------------------------------------
\* The key of a user over a deployment's life.

(***************************************************************************)
(* TypeOK: the leaves the proxy chooses and the leaf it finds for the time *)
(* are indices of tree nodes, whatever the number of levels.               *)
(***************************************************************************)
THEOREM TypeCorrect == Spec => []TypeOK
<1>1. Init => TypeOK
  BY Indices DEF Init, TypeOK
<1>2. TypeOK /\ [Next]_vars => TypeOK'
  <2>1. SUFFICES ASSUME TypeOK, [Next]_vars PROVE TypeOK'
    OBVIOUS
  <2>2. CASE Join
    <3>1. FirstLeaf + (joined + 1) <= 2 * FirstLeaf - 1
      BY <2>1, <2>2, Indices DEF Join, HasLeaf, ChooseLeaf, Leaf, TypeOK
    <3>2. QED
      BY <2>1, <2>2, <3>1, Indices DEF Join, TypeOK, FirstLeaf
  <2>3. CASE Tick
    BY <2>1, <2>3 DEF Tick, TypeOK, FirstLeaf
  <2>4. CASE UNCHANGED vars
    BY <2>1, <2>4 DEF vars, TypeOK, FirstLeaf
  <2>5. QED
    BY <2>1, <2>2, <2>3, <2>4 DEF Next
<1>3. QED
  BY <1>1, <1>2, PTL DEF Spec

\* What the current leaf is, and a period the one after which leaf l expires.
LEMMA CurrentLeaves ==
    ASSUME NEW t \in Nat
    PROVE  \/ CurrentLeaf(t) \in LeafNodes /\ CurrentLeaf(t) = FirstLeaf + t + 1
           \/ CurrentLeaf(t) = Root /\ t + 1 > FirstLeaf - 1
<1>1. CASE FirstLeaf + t + 1 \in LeafNodes
  BY <1>1 DEF CurrentLeaf
<1>2. CASE FirstLeaf + t + 1 \notin LeafNodes
  <2>1. CurrentLeaf(t) = Root
    BY <1>2 DEF CurrentLeaf
  <2>2. t + 1 > FirstLeaf - 1
    BY <1>2, Indices DEF LeafNodes
  <2>3. QED
    BY <2>1, <2>2
<1>3. QED
  BY <1>1, <1>2

LEMMA LeafOfUser ==
    ASSUME TypeOK, NEW u \in User
    PROVE  u \in Nat /\ u <= FirstLeaf - 1 /\ ChooseLeaf(u) \in Leaf
BY Indices DEF TypeOK, User, ChooseLeaf, Leaf

LEMMA TypeSigns == ASSUME TypeOK PROVE SignsUntilExpiry
<1>1. SUFFICES ASSUME NEW u \in User
               PROVE  Cardinality(Common(u, time)) = IF Expired(u, time) THEN 0 ELSE 1
  BY DEF SignsUntilExpiry
<1>2. time \in Nat /\ u \in Nat /\ u <= FirstLeaf - 1 /\ ChooseLeaf(u) \in Leaf
  BY LeafOfUser DEF TypeOK
<1>3. CASE CurrentLeaf(time) = Root /\ time + 1 > FirstLeaf - 1
  <2>1. Expired(u, time)
    BY <1>2, <1>3, Indices DEF Expired
  <2>2. Common(u, time) = {}
    BY <1>3, CoverOfRoot DEF Common
  <2>3. QED
    BY <2>1, <2>2, FS_EmptySet
<1>4. CASE CurrentLeaf(time) \in LeafNodes /\ CurrentLeaf(time) = FirstLeaf + time + 1
  <2>1. ChooseLeaf(u) >= CurrentLeaf(time) <=> ~ Expired(u, time)
    BY <1>2, <1>4, Indices DEF ChooseLeaf, Expired
  <2>2. CASE Expired(u, time)
    <3>1. Common(u, time) = {}
      BY <1>2, <1>4, <2>1, <2>2, CoverMeets, Indices DEF Common, ChooseLeaf
    <3>2. QED
      BY <2>2, <3>1, FS_EmptySet
  <2>3. CASE ~ Expired(u, time)
    <3>1. PICK n : Common(u, time) = {n}
      BY <1>2, <1>4, <2>1, <2>3, CoverMeets DEF Common
    <3>2. QED
      BY <2>3, <3>1, FS_Singleton
  <2>4. QED
    BY <2>2, <2>3
<1>5. QED
  BY <1>2, <1>3, <1>4, CurrentLeaves

(***************************************************************************)
(* SignsUntilExpiry: path and cstbk meet where the user looks for a node.  *)
(* Whatever the height of the tree, a user's key signs in every period     *)
(* until its leaf expires, with one node, and never after.                 *)
(***************************************************************************)
THEOREM Signs == Spec => []SignsUntilExpiry
<1>1. TypeOK => SignsUntilExpiry
  BY TypeSigns
<1>2. QED
  BY <1>1, TypeCorrect, PTL

LEMMA TypeCovers == ASSUME TypeOK PROVE CoverExact
<1> DEFINE cover == Cstbk(CurrentLeaf(time))
           Below(n) == {l \in Leaf : n \in Path(l)}
           current == {l \in LeafNodes : CurrentLeaf(time) # Root /\ l >= CurrentLeaf(time)}
<1>1. time \in Nat
  BY DEF TypeOK
<1>2. CASE CurrentLeaf(time) = Root
  BY <1>2, CoverOfRoot DEF CoverExact
<1>3. CASE CurrentLeaf(time) \in LeafNodes /\ CurrentLeaf(time) = FirstLeaf + time + 1
  <2>1. CurrentLeaf(time) # Root
    BY <1>1, <1>3, Indices DEF Root
  <2>2. \A l \in Leaf : l \in LeafNodes /\ l >= CurrentLeaf(time) <=> l >= CurrentLeaf(time)
    BY <1>1, <1>3, Indices DEF LeafNodes, Leaf
  <2>3. \A l \in Leaf : l >= CurrentLeaf(time) <=> \E n \in cover : n \in Path(l)
    <3>1. SUFFICES ASSUME NEW l \in Leaf
                   PROVE  l >= CurrentLeaf(time) <=> \E n \in cover : n \in Path(l)
      OBVIOUS
    <3>2. l \in Nat /\ CurrentLeaf(time) \in Nat
      BY <1>1, <1>3, Depths, Indices
    <3>3. CASE l >= CurrentLeaf(time)
      BY <1>3, <3>3, CoverMeets
    <3>4. CASE l < CurrentLeaf(time)
      BY <1>3, <3>2, <3>4, CoverMeets
    <3>5. QED
      BY <3>2, <3>3, <3>4
  <2>4. \A l \in Leaf : \A m, n \in cover : m \in Path(l) /\ n \in Path(l) => m = n
    <3>1. SUFFICES ASSUME NEW l \in Leaf, NEW m \in cover, NEW n \in cover,
                          m \in Path(l), n \in Path(l)
                   PROVE  m = n
      OBVIOUS
    <3>2. l >= CurrentLeaf(time)
      BY <2>3, <3>1
    <3>3. QED
      BY <1>3, <3>1, <3>2, CoverMeets
  <2> HIDE DEF cover
  <2>5. UNION {Below(n) : n \in cover} = current
    BY <2>1, <2>2, <2>3, Indices
  <2>6. \A m, n \in cover : m # n => Below(m) \cap Below(n) = {}
    BY <2>4
  <2>7. QED
    BY <2>5, <2>6 DEF CoverExact, cover
<1>4. QED
  BY <1>1, <1>2, <1>3, CurrentLeaves

(***************************************************************************)
(* CoverExact: what cstbk answers for the leaf revoke_phase_one finds.     *)
(* Whatever its height, the cover of a period has exactly the leaves below *)
(* it that have not expired, each below one node.                          *)
(***************************************************************************)
THEOREM Covers == Spec => []CoverExact
<1>1. TypeOK => CoverExact
  BY TypeCovers
<1>2. QED
  BY <1>1, TypeCorrect, PTL

=============================================================================
