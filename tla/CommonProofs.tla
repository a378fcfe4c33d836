---------------------------- MODULE CommonProofs ----------------------------
(***************************************************************************)
(* Proofs about CommonExporter: what its points add up to, what the order  *)
(* of its requests guarantees, what is shown, and that the accounts are    *)
(* those of PointsLedger.                                                  *)
(***************************************************************************)
EXTENDS CommonExporter, FiniteSetTheorems, WellFoundedInduction, TLAPS

Below == {ss \in Nat \X Nat : ss[1] < ss[2]}

(* A set of natural numbers has a least element.                           *)
LEMMA MinLeast ==
  ASSUME NEW S \in SUBSET Nat, NEW n \in S
  PROVE  Min(S) \in S /\ Min(S) <= n
<1>1. IsWellFoundedOn(Below, Nat)
  BY NatLessThanWellFounded DEF Below, OpToRel
<1>2. \E x \in S : \A y \in S : <<y, x>> \notin Below
  BY <1>1, WFMin
<1>3. \A x, y \in S : <<y, x>> \notin Below => x <= y
  BY DEF Below
<1>4. \E x \in S : \A y \in S : x <= y
  BY <1>2, <1>3
<1>5. QED
  BY <1>4 DEF Min

(* What holds of 0 and of n + 1 if of n holds of every number.             *)
LEMMA Induction ==
  ASSUME NEW S \in SUBSET Nat, 0 \in S, \A n \in S : n + 1 \in S
  PROVE  S = Nat
<1> DEFINE T == Nat \ S
<1>1. SUFFICES ASSUME T # {} PROVE FALSE
  OBVIOUS
<1>2. PICK m \in T : \A n \in T : m <= n
  <2>1. PICK n \in T : TRUE
    BY <1>1
  <2>2. Min(T) \in T /\ \A k \in T : Min(T) <= k
    BY <2>1, MinLeast
  <2>3. QED
    BY <2>2
<1>3. m \in Nat /\ m # 0 /\ m - 1 \in Nat /\ m - 1 < m
  BY <1>2
<1>4. m - 1 \in S
  BY <1>2, <1>3
<1>5. (m - 1) + 1 \in S
  BY <1>4
<1>6. QED
  BY <1>2, <1>3, <1>5

-----------------------------------------------------------------------------
(* What an account adds up to.                                             *)
PointsIn(a, s) == IF s \in DOMAIN a THEN a[s].points ELSE 0

Sums(a, f, n) == f = [s \in 0 .. n |-> IF s = 0 THEN 0 ELSE f[s - 1] + PointsIn(a, s)]

LEMMA SumsExist ==
  ASSUME NEW a
  PROVE  \A n \in Nat : \E f : Sums(a, f, n)
<1> DEFINE S == {n \in Nat : \E f : Sums(a, f, n)}
<1>1. 0 \in S
  <2> DEFINE f == [s \in 0 .. 0 |-> 0]
  <2>1. Sums(a, f, 0)
    BY DEF Sums
  <2>2. QED
    BY <2>1
<1>2. ASSUME NEW n \in S PROVE n + 1 \in S
  <2>1. PICK f : Sums(a, f, n)
    OBVIOUS
  <2> DEFINE g == [s \in 0 .. n + 1 |-> IF s = 0 THEN 0 ELSE f[s - 1] + PointsIn(a, s)]
  <2>2. \A s \in 0 .. n : g[s] = f[s]
    BY <2>1 DEF Sums
  <2>3. \A s \in 0 .. n + 1 : s # 0 => s - 1 \in 0 .. n
    OBVIOUS
  <2>4. g = [s \in 0 .. n + 1 |-> IF s = 0 THEN 0 ELSE g[s - 1] + PointsIn(a, s)]
    BY <2>2, <2>3
  <2> HIDE DEF g
  <2>5. Sums(a, g, n + 1)
    BY <2>4 DEF Sums
  <2>6. QED
    BY <2>5
<1>3. S = Nat
  <2> HIDE DEF S
  <2>1. S \in SUBSET Nat
    BY DEF S
  <2>2. QED
    BY <1>1, <1>2, <2>1, Induction
<1>4. QED
  BY <1>3

LEMMA TotalSums ==
  ASSUME NEW a
  PROVE  \E f : /\ Total(a) = f[MaxSession] /\ f[0] = 0
                /\ \A s \in 1 .. MaxSession : f[s] = f[s - 1] + PointsIn(a, s)
<1> DEFINE f == CHOOSE f : Sums(a, f, MaxSession)
<1>1. MaxSession \in Nat \ {0}
  BY ConstantsAssumption DEF ConstantsAssumption
<1>2. Sums(a, f, MaxSession)
  BY <1>1, SumsExist
<1>3. Total(a) = f[MaxSession]
  BY DEF Total, Sums, PointsIn
<1> HIDE DEF f
<1>4. f[0] = 0 /\ \A s \in 1 .. MaxSession : f[s] = f[s - 1] + PointsIn(a, s)
  BY <1>1, <1>2 DEF Sums
<1>5. QED
  BY <1>3, <1>4

(* Sums of numbers.                                                        *)
LEMMA TotalIsNumber ==
  ASSUME NEW a, \A s \in Sessions : PointsIn(a, s) \in Int
  PROVE  /\ Total(a) \in Int
         /\ (\A s \in Sessions : PointsIn(a, s) >= 0) => Total(a) >= 0
         /\ (\A s \in Sessions : PointsIn(a, s) = 0) => Total(a) = 0
<1>1. MaxSession \in Nat \ {0}
  BY ConstantsAssumption DEF ConstantsAssumption
<1>2. PICK f : /\ Total(a) = f[MaxSession] /\ f[0] = 0
               /\ \A s \in 1 .. MaxSession : f[s] = f[s - 1] + PointsIn(a, s)
  BY TotalSums
<1> DEFINE S == {n \in Nat : n <= MaxSession =>
                    /\ f[n] \in Int
                    /\ (\A s \in Sessions : PointsIn(a, s) >= 0) => f[n] >= 0
                    /\ (\A s \in Sessions : PointsIn(a, s) = 0) => f[n] = 0}
<1>3. 0 \in S
  BY <1>2
<1>4. ASSUME NEW n \in S PROVE n + 1 \in S
  <2>1. SUFFICES ASSUME n + 1 <= MaxSession
                 PROVE  /\ f[n + 1] \in Int
                        /\ (\A s \in Sessions : PointsIn(a, s) >= 0) => f[n + 1] >= 0
                        /\ (\A s \in Sessions : PointsIn(a, s) = 0) => f[n + 1] = 0
    OBVIOUS
  <2>2. n + 1 \in 1 .. MaxSession /\ n + 1 \in Sessions /\ n <= MaxSession /\ (n + 1) - 1 = n
    BY <1>1, <2>1 DEF Sessions
  <2>3. f[n + 1] = f[n] + PointsIn(a, n + 1) /\ PointsIn(a, n + 1) \in Int
    BY <1>2, <2>2
  <2>4. /\ f[n] \in Int
        /\ (\A s \in Sessions : PointsIn(a, s) >= 0) => f[n] >= 0
        /\ (\A s \in Sessions : PointsIn(a, s) = 0) => f[n] = 0
    BY <2>2
  <2> HIDE DEF S
  <2>5. QED
    BY <2>2, <2>3, <2>4
<1>5. S = Nat
  <2> HIDE DEF S
  <2>1. S \in SUBSET Nat
    BY DEF S
  <2>2. QED
    BY <1>3, <1>4, <2>1, Induction
<1>6. QED
  BY <1>1, <1>2, <1>5

(* Accounts that differ in one session.                                    *)
LEMMA TotalsDiffer ==
  ASSUME NEW a, NEW b, NEW c \in Sessions,
         \A s \in Sessions : PointsIn(a, s) \in Int /\ PointsIn(b, s) \in Int,
         \A s \in Sessions \ {c} : PointsIn(b, s) = PointsIn(a, s)
  PROVE  Total(b) = Total(a) - PointsIn(a, c) + PointsIn(b, c)
<1>1. MaxSession \in Nat \ {0} /\ c \in 1 .. MaxSession
  BY ConstantsAssumption DEF ConstantsAssumption, Sessions
<1>2. PICK f : /\ Total(a) = f[MaxSession] /\ f[0] = 0
               /\ \A s \in 1 .. MaxSession : f[s] = f[s - 1] + PointsIn(a, s)
  BY TotalSums
<1>3. PICK g : /\ Total(b) = g[MaxSession] /\ g[0] = 0
               /\ \A s \in 1 .. MaxSession : g[s] = g[s - 1] + PointsIn(b, s)
  BY TotalSums
<1> DEFINE d == PointsIn(b, c) - PointsIn(a, c)
           S == {n \in Nat : n <= MaxSession =>
                    f[n] \in Int /\ g[n] = f[n] + IF c <= n THEN d ELSE 0}
<1>4. d \in Int
  OBVIOUS
<1>5. 0 \in S
  BY <1>1, <1>2, <1>3
<1>6. ASSUME NEW n \in S PROVE n + 1 \in S
  <2>1. SUFFICES ASSUME n + 1 <= MaxSession
                 PROVE  f[n + 1] \in Int /\ g[n + 1] = f[n + 1] + IF c <= n + 1 THEN d ELSE 0
    OBVIOUS
  <2>2. n + 1 \in 1 .. MaxSession /\ n + 1 \in Sessions /\ n <= MaxSession /\ (n + 1) - 1 = n
    BY <1>1, <2>1 DEF Sessions
  <2>3. /\ f[n + 1] = f[n] + PointsIn(a, n + 1) /\ PointsIn(a, n + 1) \in Int
        /\ g[n + 1] = g[n] + PointsIn(b, n + 1) /\ PointsIn(b, n + 1) \in Int
    BY <1>2, <1>3, <2>2
  <2>4. f[n] \in Int /\ g[n] = f[n] + IF c <= n THEN d ELSE 0
    BY <2>2
  <2>5. CASE n + 1 = c
    <3>1. PointsIn(b, n + 1) = PointsIn(a, n + 1) + d
      BY <2>3, <2>5
    <3> HIDE DEF S, d
    <3>2. QED
      BY <1>1, <1>4, <2>2, <2>3, <2>4, <2>5, <3>1
  <2>6. CASE n + 1 # c
    <3>1. PointsIn(b, n + 1) = PointsIn(a, n + 1)
      BY <2>2, <2>6
    <3> HIDE DEF S, d
    <3>2. c <= n + 1 <=> c <= n
      BY <1>1, <2>2, <2>6
    <3>3. QED
      BY <1>4, <2>3, <2>4, <3>1, <3>2
  <2>7. QED
    BY <2>5, <2>6
<1>7. S = Nat
  <2> HIDE DEF S
  <2>1. S \in SUBSET Nat
    BY DEF S
  <2>2. QED
    BY <1>5, <1>6, <2>1, Induction
<1>8. Total(b) = Total(a) + d /\ Total(a) \in Int
  BY <1>1, <1>2, <1>3, <1>7
<1>9. QED
  BY <1>8

(* An account that has as many points for every session.                   *)
LEMMA TotalOfEqual ==
  ASSUME NEW a, NEW x \in Nat, DOMAIN a \subseteq Sessions,
         \A s \in DOMAIN a : a[s].points = x
  PROVE  IsFiniteSet(DOMAIN a) /\ Total(a) = Cardinality(DOMAIN a) * x
<1>1. MaxSession \in Nat \ {0}
  BY ConstantsAssumption DEF ConstantsAssumption
<1>2. PICK f : /\ Total(a) = f[MaxSession] /\ f[0] = 0
               /\ \A s \in 1 .. MaxSession : f[s] = f[s - 1] + PointsIn(a, s)
  BY TotalSums
<1> DEFINE D(n) == DOMAIN a \cap (1 .. n)
           S == {n \in Nat : n <= MaxSession => f[n] = Cardinality(D(n)) * x}
<1>3. 0 \in S
  <2>1. D(0) = {}
    OBVIOUS
  <2>2. Cardinality(D(0)) = 0
    BY <2>1, FS_EmptySet
  <2>3. QED
    BY <1>2, <2>2
<1>4. ASSUME NEW n \in S PROVE n + 1 \in S
  <2>1. SUFFICES ASSUME n + 1 <= MaxSession PROVE f[n + 1] = Cardinality(D(n + 1)) * x
    OBVIOUS
  <2>2. n \in Nat /\ n + 1 \in 1 .. MaxSession /\ n <= MaxSession /\ (n + 1) - 1 = n
    BY <1>1, <2>1
  <2>3. f[n + 1] = f[n] + PointsIn(a, n + 1) /\ f[n] = Cardinality(D(n)) * x
    BY <1>2, <2>2
  <2>4. IsFiniteSet(D(n)) /\ Cardinality(D(n)) \in Nat
    <3>1. n \in Int /\ 1 \in Int
      BY <2>2
    <3>2. IsFiniteSet(1 .. n)
      BY <3>1, FS_Interval
    <3>3. IsFiniteSet(D(n))
      BY <3>2, FS_Subset
    <3>4. QED
      BY <3>3, FS_CardinalityType
  <2>5. CASE n + 1 \in DOMAIN a
    <3>1. D(n + 1) = D(n) \cup {n + 1} /\ n + 1 \notin D(n)
      BY <2>2, <2>5
    <3>2. Cardinality(D(n + 1)) = Cardinality(D(n)) + 1
      BY <2>4, <3>1, FS_AddElement
    <3>3. PointsIn(a, n + 1) = x
      BY <2>5 DEF PointsIn
    <3>4. \A k \in Nat : k * x + x = (k + 1) * x
      OBVIOUS
    <3> HIDE DEF S, D
    <3>5. QED
      BY <2>3, <2>4, <3>2, <3>3, <3>4
  <2>6. CASE n + 1 \notin DOMAIN a
    <3>1. D(n + 1) = D(n)
      BY <2>2, <2>6
    <3>2. PointsIn(a, n + 1) = 0
      BY <2>6 DEF PointsIn
    <3>3. \A k \in Nat : k * x + 0 = k * x
      OBVIOUS
    <3> HIDE DEF S, D
    <3>4. QED
      BY <2>3, <2>4, <3>1, <3>2, <3>3
  <2>7. QED
    BY <2>5, <2>6
<1>5. S = Nat
  <2> HIDE DEF S
  <2>1. S \in SUBSET Nat
    BY DEF S
  <2>2. QED
    BY <1>3, <1>4, <2>1, Induction
<1>6. D(MaxSession) = DOMAIN a
  BY DEF Sessions
<1>7. IsFiniteSet(DOMAIN a)
  <2>1. IsFiniteSet(1 .. MaxSession)
    BY <1>1, FS_Interval
  <2>2. QED
    BY <2>1, FS_Subset DEF Sessions
<1>8. f[MaxSession] = Cardinality(D(MaxSession)) * x
  BY <1>1, <1>5
<1>9. QED
  BY <1>2, <1>6, <1>7, <1>8

-----------------------------------------------------------------------------
(* Shares that are rounded down.                                           *)
LEMMA Quotient ==
  ASSUME NEW n \in Nat, NEW l \in Nat \ {0}
  PROVE  n \div l \in Nat /\ l * (n \div l) <= n
OBVIOUS

LEMMA Products ==
  ASSUME NEW a \in Nat, NEW b \in Nat
  PROVE  /\ a * b \in Nat
         /\ \A c \in Nat : a <= b => c * a <= c * b
         /\ \A c \in Nat \ {0} : c * a <= c * b => a <= b
<1>1. a * b \in Nat
  OBVIOUS
<1>2. \A c \in Nat : a <= b => c * a <= c * b
  OBVIOUS
<1>3. ASSUME NEW c \in Nat \ {0}, b < a PROVE c * b < c * a
  BY <1>3
<1>4. QED
  BY <1>1, <1>2, <1>3

LEMMA SharesFit ==
  ASSUME NEW k \in Nat, NEW l \in Nat, NEW g \in Nat, NEW p \in Nat, NEW n \in Nat \ {0},
         n = k * l + g,
         NEW x \in Nat, NEW y \in Nat, n * x <= p * l, n * y <= p * g
  PROVE  k * x + y <= p
<1>1. k * (n * x) <= k * (p * l)
  <2>1. n * x \in Nat /\ p * l \in Nat
    BY Products
  <2>2. QED
    BY <2>1, Products
<1>2. n * (k * x + y) = k * (n * x) + n * y
  OBVIOUS
<1>3. n * p = k * (p * l) + p * g
  OBVIOUS
<1>4. k * (n * x) \in Nat /\ k * (p * l) \in Nat /\ n * y \in Nat /\ p * g \in Nat
  BY Products
<1>5. n * (k * x + y) <= n * p
  BY <1>1, <1>2, <1>3, <1>4
<1>6. k * x + y \in Nat
  BY Products
<1>7. QED
  BY <1>5, <1>6, Products

(* What a fresh process guesses is not more than there is.                 *)
LEMMA GuessFits ==
  ASSUME NEW v, Warm(v) \subseteq Sessions, era_points[v] \in Nat, session_progress \in Nat,
         ~(session_progress = 0 /\ Warm(v) = {current_session})
  PROVE  /\ DOMAIN Guess(v) = Warm(v)
         /\ \A s \in Warm(v) : Guess(v)[s].points \in Nat /\ Guess(v)[s].after = {t \in Warm(v) : t < s}
         /\ IsAccount(Guess(v))
         /\ Total(Guess(v)) \in Nat /\ Total(Guess(v)) <= era_points[v]
<1> DEFINE a == Guess(v)
           c == current_session
           p == era_points[v]
           g == session_progress
           D == Warm(v)
           n == Cardinality(D)
           slots == (n - 1) * SessionLength + g
           all == p \div n
           x == (p * SessionLength) \div slots
           y == (p * g) \div slots
<1>1. SessionLength \in Nat \ {0} /\ MaxSession \in Nat \ {0}
  BY ConstantsAssumption DEF ConstantsAssumption
<1>2. IsFiniteSet(D) /\ n \in Nat /\ (n = 0 <=> D = {})
  <2>1. IsFiniteSet(1 .. MaxSession)
    BY <1>1, FS_Interval
  <2>2. IsFiniteSet(D)
    BY <2>1, FS_Subset DEF Sessions
  <2>3. QED
    BY <2>2, FS_CardinalityType, FS_EmptySet
<1>3. a = [s \in D |-> [points |-> IF c \notin D THEN all ELSE IF s = c THEN y ELSE x,
                        after |-> {t \in D : t < s}]]
  BY DEF Guess
<1>4. DOMAIN a = D
  BY <1>3
<1>5. D # {} /\ c \notin D => all \in Nat /\ n * all <= p
  BY <1>2, Quotient
<1>6. ASSUME c \in D
      PROVE  /\ slots \in Nat \ {0} /\ n - 1 \in Nat /\ x \in Nat /\ y \in Nat
             /\ slots * x <= p * SessionLength /\ slots * y <= p * g
  <2>1. n \in Nat \ {0}
    BY <1>2, <1>6
  <2>2. n - 1 \in Nat /\ (n - 1) * SessionLength \in Nat
    BY <1>1, <2>1, Products
  <2>3. slots # 0
    <3>1. CASE n = 1
      <4>1. D = {c}
        BY <1>2, <1>6, <3>1, FS_Singleton
      <4>2. g # 0
        BY <4>1
      <4>3. QED
        BY <1>1, <3>1, <4>2
    <3>2. CASE n # 1
      <4>1. n - 1 >= 1
        BY <2>1, <3>2
      <4>2. (n - 1) * SessionLength >= SessionLength
        BY <1>1, <2>2, <4>1
      <4>3. QED
        BY <1>1, <2>2, <4>2
    <3>3. QED
      BY <3>1, <3>2
  <2>4. slots \in Nat \ {0}
    BY <2>2, <2>3
  <2>5. p * SessionLength \in Nat /\ p * g \in Nat
    BY <1>1, Products
  <2> HIDE DEF slots, p, g
  <2>6. QED
    BY <2>2, <2>4, <2>5, Quotient
<1> HIDE DEF a, c, p, g, D, slots, all, x, y
<1>7. \A s \in D : a[s].points \in Nat /\ a[s].after = {t \in D : t < s}
  BY <1>3, <1>5, <1>6
<1>8. IsAccount(a)
  <2>1. D \subseteq Sessions
    BY DEF D
  <2>2. \A s \in D : a[s] \in [points : Int, after : SUBSET D]
    BY <1>3, <1>5, <1>6
  <2>3. a = [s \in D |-> a[s]]
    BY <1>3
  <2>4. a \in [D -> [points : Int, after : SUBSET D]]
    BY <2>2, <2>3
  <2>5. QED
    BY <1>4, <2>1, <2>4 DEF IsAccount
<1>9. \A s \in Sessions : PointsIn(a, s) \in Int /\ PointsIn(a, s) >= 0
  BY <1>4, <1>7 DEF PointsIn
<1>10. Total(a) \in Nat
  BY <1>9, TotalIsNumber
<1>11. Total(a) <= p
  <2>1. CASE D = {}
    <3>1. \A s \in Sessions : PointsIn(a, s) = 0
      BY <1>4, <2>1 DEF PointsIn
    <3>2. Total(a) = 0
      BY <3>1, TotalIsNumber
    <3>3. QED
      BY <3>2 DEF p
  <2>2. CASE D # {} /\ c \notin D
    <3>1. \A s \in DOMAIN a : a[s].points = all
      BY <1>3, <1>4, <2>2
    <3>2. Total(a) = Cardinality(DOMAIN a) * all
      BY <1>4, <1>5, <2>2, <3>1, TotalOfEqual DEF D
    <3>3. QED
      BY <1>4, <1>5, <2>2, <3>2
  <2>3. CASE c \in D
    <3> DEFINE b == [s \in D \ {c} |-> a[s]]
    <3>1. /\ DOMAIN b = D \ {c} /\ \A s \in D \ {c} : b[s] = a[s]
          /\ c \in Sessions /\ DOMAIN b \subseteq Sessions
      BY <2>3 DEF D
    <3> HIDE DEF b
    <3>2. \A s \in DOMAIN b : b[s].points = x
      BY <1>3, <2>3, <3>1
    <3>3. Cardinality(D \ {c}) = n - 1
      BY <1>2, <2>3, FS_RemoveElement
    <3>4. Total(b) = (n - 1) * x
      BY <1>6, <2>3, <3>1, <3>2, <3>3, TotalOfEqual
    <3>5. /\ \A s \in Sessions : PointsIn(b, s) \in Int
          /\ \A s \in Sessions \ {c} : PointsIn(a, s) = PointsIn(b, s)
          /\ PointsIn(b, c) = 0 /\ PointsIn(a, c) = y
      BY <1>3, <1>4, <1>6, <2>3, <3>1, <3>2 DEF PointsIn
    <3>6. Total(a) = Total(b) - PointsIn(b, c) + PointsIn(a, c)
      BY <1>9, <3>1, <3>5, TotalsDiffer
    <3>7. Total(a) = (n - 1) * x + y
      <4>1. (n - 1) * x \in Nat
        BY <1>6, <2>3, Products
      <4>2. QED
        BY <1>6, <2>3, <3>4, <3>5, <3>6, <4>1
    <3>8. slots = (n - 1) * SessionLength + g /\ p \in Nat /\ g \in Nat
      BY DEF slots, p, g
    <3>9. (n - 1) * x + y <= p
      <4> DEFINE k == n - 1
      <4>1. k \in Nat /\ slots = k * SessionLength + g
        BY <1>6, <2>3, <3>8
      <4> HIDE DEF k
      <4>2. k * x + y <= p
        BY <1>1, <1>6, <2>3, <3>8, <4>1, SharesFit
      <4>3. QED
        BY <4>2 DEF k
    <3>10. QED
      BY <3>7, <3>9
  <2>4. QED
    BY <2>1, <2>2, <2>3
<1>12. QED
  BY <1>4, <1>7, <1>8, <1>10, <1>11 DEF a, D, p

(* What a pass makes of an account.                                        *)
LEMMA AccountPoints ==
  ASSUME NEW a, IsAccount(a)
  PROVE  /\ DOMAIN a \subseteq Sessions
         /\ \A s \in DOMAIN a : a[s].points \in Int /\ a[s].after \subseteq DOMAIN a
         /\ \A s : PointsIn(a, s) \in Int
         /\ Total(a) \in Int
<1>1. \A s \in DOMAIN a : a[s] \in [points : Int, after : SUBSET DOMAIN a]
  BY DEF IsAccount
<1>2. \A s \in DOMAIN a : a[s].points \in Int /\ a[s].after \subseteq DOMAIN a
  BY <1>1
<1>3. \A s : PointsIn(a, s) \in Int
  BY <1>2 DEF PointsIn
<1>4. QED
  BY <1>2, <1>3, TotalIsNumber DEF IsAccount

LEMMA RecountFields ==
  ASSUME NEW v, IsAccount(q_state[v]), era_points[v] \in Nat,
         current_session \in Sessions, current_session \in era_sessions
  PROVE  LET a == q_state[v]
             c == current_session
             r == Recount(v)
         IN  /\ DOMAIN r = (DOMAIN a \cup {c}) \cap era_sessions
             /\ IsAccount(r) /\ IsAccount(Kept(v)) /\ DOMAIN Kept(v) = DOMAIN r
             /\ \A s \in DOMAIN r : Kept(v)[s].points = PointsIn(a, s)
             /\ \A s \in DOMAIN r \ {c} : r[s].points = a[s].points
             /\ r[c].points = era_points[v] - Total(Kept(v)) + PointsIn(a, c)
             /\ Total(r) = era_points[v]
             /\ \A s \in DOMAIN r :
                  r[s].after = (IF s \in DOMAIN a THEN a[s].after ELSE DOMAIN a) \cap era_sessions
<1> DEFINE a == q_state[v]
           c == current_session
           k == Kept(v)
           r == Recount(v)
           D == (DOMAIN a \cup {c}) \cap era_sessions
           before(s) == (IF s \in DOMAIN a THEN a[s].after ELSE DOMAIN a) \cap era_sessions
           p == era_points[v] - Total(k) + PointsIn(a, c)
<1>1. /\ DOMAIN a \subseteq Sessions
      /\ \A s \in DOMAIN a : a[s].points \in Int /\ a[s].after \subseteq DOMAIN a
      /\ \A s : PointsIn(a, s) \in Int
  BY AccountPoints
<1>2. \A s \in DOMAIN a : a[s] = [points |-> a[s].points, after |-> a[s].after]
  BY DEF IsAccount
<1>3. k = [s \in D |-> [points |-> PointsIn(a, s), after |-> before(s)]]
  <2>1. Opened(v) = [s \in DOMAIN a \cup {c} |->
                       IF s \in DOMAIN a THEN a[s] ELSE [points |-> 0, after |-> DOMAIN a]]
    BY DEF Opened
  <2>2. \A s \in D : [Opened(v)[s] EXCEPT !.after = @ \cap era_sessions]
                      = [points |-> PointsIn(a, s), after |-> before(s)]
    <3> TAKE s \in D
    <3>1. CASE s \in DOMAIN a
      <4>1. Opened(v)[s] = [points |-> a[s].points, after |-> a[s].after]
        BY <1>2, <2>1, <3>1
      <4>2. QED
        BY <3>1, <4>1 DEF PointsIn
    <3>2. CASE s \notin DOMAIN a
      <4>1. Opened(v)[s] = [points |-> 0, after |-> DOMAIN a]
        BY <2>1, <3>2
      <4>2. QED
        BY <3>2, <4>1 DEF PointsIn
    <3>3. QED
      BY <3>1, <3>2
  <2>3. DOMAIN Opened(v) \cap era_sessions = D
    BY <2>1
  <2>4. k = [s \in D |-> [Opened(v)[s] EXCEPT !.after = @ \cap era_sessions]]
    BY <2>3 DEF Kept
  <2> HIDE DEF D, k, before
  <2>5. QED
    BY <2>2, <2>4
<1>4. D \subseteq Sessions /\ c \in D
  BY <1>1
<1>5. \A s \in D : before(s) \in SUBSET D
  BY <1>1
<1>6. r = [s \in D |-> [points |-> IF s = c THEN p ELSE PointsIn(a, s), after |-> before(s)]]
  <2>1. r = [k EXCEPT ![c] = [k[c] EXCEPT !.points = era_points[v] - Total(k) + k[c].points]]
    BY DEF Recount
  <2>2. k[c] = [points |-> PointsIn(a, c), after |-> before(c)]
    BY <1>3, <1>4
  <2> HIDE DEF D, before, k, a, c
  <2>3. k[c].points = PointsIn(a, c)
    BY <2>2
  <2>4. [k[c] EXCEPT !.points = p] = [points |-> p, after |-> before(c)]
    BY <2>2
  <2>5. r = [k EXCEPT ![c] = [points |-> p, after |-> before(c)]]
    BY <2>1, <2>3, <2>4
  <2> HIDE DEF p, r
  <2>6. QED
    BY <1>3, <1>4, <2>5
<1> HIDE DEF a, c, k, r, D, before
<1>7. IsAccount(k)
  <2>1. k \in [D -> [points : Int, after : SUBSET D]] /\ DOMAIN k = D
    BY <1>1, <1>3, <1>5
  <2>2. QED
    BY <1>4, <2>1 DEF IsAccount
<1>8. Total(k) \in Int /\ p \in Int
  <2>1. era_points[v] \in Int /\ PointsIn(a, c) \in Int
    BY <1>1
  <2>2. Total(k) \in Int
    BY <1>7, AccountPoints
  <2>3. QED
    BY <2>1, <2>2
<1> HIDE DEF p
<1>9. IsAccount(r)
  <2>1. r \in [D -> [points : Int, after : SUBSET D]] /\ DOMAIN r = D
    BY <1>1, <1>5, <1>6, <1>8
  <2>2. QED
    BY <1>4, <2>1 DEF IsAccount
<1>10. Total(r) = era_points[v]
  <2>1. /\ \A s \in Sessions : PointsIn(k, s) \in Int /\ PointsIn(r, s) \in Int
        /\ c \in Sessions
    BY <1>4, <1>7, <1>9, AccountPoints
  <2>2. \A s \in Sessions \ {c} : PointsIn(r, s) = PointsIn(k, s)
    BY <1>3, <1>6 DEF PointsIn
  <2>3. PointsIn(r, c) = p /\ PointsIn(k, c) = PointsIn(a, c)
    BY <1>3, <1>4, <1>6 DEF PointsIn
  <2>4. Total(r) = Total(k) - PointsIn(k, c) + PointsIn(r, c)
    BY <2>1, <2>2, TotalsDiffer
  <2>5. p = era_points[v] - Total(k) + PointsIn(a, c)
    BY DEF p
  <2>6. PointsIn(a, c) \in Int /\ era_points[v] \in Int
    BY <1>1
  <2>7. QED
    BY <1>8, <2>3, <2>4, <2>5, <2>6
<1>11. /\ DOMAIN r = D /\ DOMAIN k = D
       /\ \A s \in D : k[s].points = PointsIn(a, s)
       /\ \A s \in D \ {c} : r[s].points = a[s].points
       /\ r[c].points = p
       /\ \A s \in D : r[s].after = before(s)
  <2>1. D \ {c} \subseteq DOMAIN a
    BY DEF D
  <2>2. QED
    BY <1>3, <1>4, <1>6, <2>1 DEF PointsIn
<1>12. QED
  BY <1>7, <1>9, <1>10, <1>11 DEF a, c, k, r, D, before, p

(* In the era of the account nothing is dropped and the points grow; an    *)
(* account of another era is left with the current session alone.          *)
LEMMA RecountFits ==
  ASSUME NEW v, IsAccount(q_state[v]), era_points[v] \in Nat,
         current_session \in Sessions, current_session \in era_sessions,
         \A s \in DOMAIN q_state[v] : q_state[v][s].points >= 0,
         \/ DOMAIN q_state[v] \subseteq era_sessions /\ Total(q_state[v]) <= era_points[v]
         \/ DOMAIN q_state[v] \cap era_sessions \subseteq {current_session}
  PROVE  LET r == Recount(v)
         IN  /\ \A s \in DOMAIN r : r[s].points >= 0
             /\ DOMAIN q_state[v] \subseteq era_sessions /\ Total(q_state[v]) <= era_points[v] =>
                  /\ DOMAIN r = DOMAIN q_state[v] \cup {current_session}
                  /\ \A s \in DOMAIN q_state[v] :
                       \/ r[s].points = q_state[v][s].points
                       \/ s = current_session /\ r[s].points > q_state[v][s].points
<1> DEFINE a == q_state[v]
           c == current_session
           k == Kept(v)
           r == Recount(v)
           p == era_points[v]
<1>1. /\ DOMAIN r = (DOMAIN a \cup {c}) \cap era_sessions /\ IsAccount(k) /\ DOMAIN k = DOMAIN r
      /\ \A s \in DOMAIN r : k[s].points = PointsIn(a, s)
      /\ \A s \in DOMAIN r \ {c} : r[s].points = a[s].points
      /\ r[c].points = p - Total(k) + PointsIn(a, c)
  BY RecountFields
<1>2. /\ p \in Nat /\ c \in Sessions /\ c \in era_sessions
      /\ \A s \in DOMAIN a : a[s].points >= 0
  OBVIOUS
<1>3. /\ \A s : PointsIn(a, s) \in Int /\ PointsIn(k, s) \in Int
      /\ Total(a) \in Int /\ Total(k) \in Int
  BY <1>1, AccountPoints
<1>4. \A s \in Sessions : PointsIn(a, s) >= 0
  BY <1>2 DEF PointsIn
<1>5. DOMAIN a \subseteq era_sessions \/ DOMAIN a \cap era_sessions \subseteq {c}
  OBVIOUS
<1>6. (DOMAIN a \subseteq era_sessions /\ Total(a) <= p) \/ DOMAIN a \cap era_sessions \subseteq {c}
  OBVIOUS
<1> HIDE DEF a, c, k, r, p
<1>7. ASSUME DOMAIN a \subseteq era_sessions, Total(a) <= p
      PROVE  DOMAIN r = DOMAIN a \cup {c} /\ r[c].points >= PointsIn(a, c)
  <2>1. DOMAIN r = DOMAIN a \cup {c}
    BY <1>1, <1>2, <1>7
  <2>2. \A s : PointsIn(k, s) = PointsIn(a, s)
    BY <1>1, <2>1 DEF PointsIn
  <2>3. Total(k) = Total(a) - PointsIn(a, c) + PointsIn(k, c)
    BY <1>2, <1>3, <2>2, TotalsDiffer
  <2>4. Total(k) = Total(a)
    BY <1>3, <2>2, <2>3
  <2>5. QED
    BY <1>1, <1>2, <1>3, <1>7, <2>1, <2>4
<1>8. ASSUME DOMAIN a \cap era_sessions \subseteq {c}
      PROVE  DOMAIN r = {c} /\ r[c].points = p
  <2>1. DOMAIN r = {c}
    BY <1>1, <1>2, <1>8
  <2>2. /\ \A s \in Sessions : PointsIn(NoAccount, s) = 0
        /\ \A s \in Sessions \ {c} : PointsIn(k, s) = 0
        /\ PointsIn(k, c) = PointsIn(a, c)
    BY <1>1, <2>1 DEF PointsIn, NoAccount
  <2>3. Total(NoAccount) = 0
    BY <2>2, TotalIsNumber
  <2>4. Total(k) = Total(NoAccount) - PointsIn(NoAccount, c) + PointsIn(k, c)
    BY <1>2, <1>3, <2>2, TotalsDiffer
  <2>5. Total(k) = PointsIn(a, c)
    BY <1>2, <1>3, <2>2, <2>3, <2>4
  <2>6. QED
    BY <1>1, <1>2, <1>3, <2>1, <2>5
<1>9. \A s \in DOMAIN r : r[s].points >= 0
  <2>1. c \in DOMAIN r => r[c].points >= 0
    <3>1. PointsIn(a, c) >= 0 /\ PointsIn(a, c) \in Int
      BY <1>2, <1>3, <1>4
    <3>2. CASE DOMAIN a \subseteq era_sessions /\ Total(a) <= p
      <4>1. r[c].points >= PointsIn(a, c)
        BY <1>7, <3>2
      <4>2. r[c].points \in Int
        BY <1>1, <1>2, <1>3
      <4>3. QED
        BY <3>1, <4>1, <4>2
    <3>3. CASE DOMAIN a \cap era_sessions \subseteq {c}
      BY <1>2, <1>8, <3>3
    <3>4. QED
      BY <1>6, <3>2, <3>3
  <2>2. QED
    BY <1>1, <1>2, <2>1
<1>10. ASSUME DOMAIN a \subseteq era_sessions, Total(a) <= p, NEW s \in DOMAIN a
       PROVE  r[s].points = a[s].points \/ (s = c /\ r[s].points > a[s].points)
  <2>1. CASE s = c
    <3>1. r[c].points >= PointsIn(a, c) /\ PointsIn(a, c) = a[s].points
      BY <1>7, <1>10, <2>1 DEF PointsIn
    <3>2. r[c].points \in Int /\ a[s].points \in Int
      BY <1>1, <1>2, <1>3, <3>1
    <3>3. QED
      BY <2>1, <3>1, <3>2
  <2>2. CASE s # c
    BY <1>1, <1>7, <1>10, <2>2
  <2>3. QED
    BY <2>1, <2>2
<1>11. QED
  BY <1>7, <1>9, <1>10 DEF a, c, r, p

(* An era starts no later than any of its sessions.                        *)
LEMMA StartIsFirst ==
  ASSUME NEW s \in Sessions
  PROVE  /\ StartOf(Era[s]) \in Sessions /\ StartOf(Era[s]) <= s
         /\ Era[StartOf(Era[s])] = Era[s]
<1> DEFINE S == {u \in Sessions : Era[u] = Era[s]}
<1>1. S \in SUBSET Nat /\ s \in S
  BY ConstantsAssumption DEF ConstantsAssumption, Sessions
<1>2. Min(S) \in S /\ Min(S) <= s
  BY <1>1, MinLeast
<1>3. QED
  BY <1>2 DEF StartOf

-----------------------------------------------------------------------------
(* A scrape that has found metrics and comes too late for them is late by  *)
(* the moment between clear and append, not by a pass.                     *)
THEOREM ScrapesMissBriefly == Spec => []MissesOnlyWhilePublishing
<1>1. Init => MissesOnlyWhilePublishing
  BY DEF Init, MissesOnlyWhilePublishing
<1>2. MissesOnlyWhilePublishing /\ [Next]_vars => MissesOnlyWhilePublishing'
  <2> SUFFICES ASSUME MissesOnlyWhilePublishing, [Next]_vars
               PROVE  MissesOnlyWhilePublishing'
    OBVIOUS
  <2> USE DEF MissesOnlyWhilePublishing, Step, Leaves
  <2>1. CASE Chain \/ UNCHANGED vars
    BY <2>1 DEF Chain, vars
  <2>2. ASSUME NEW from, Interrupted(from) PROVE MissesOnlyWhilePublishing'
    BY <2>2 DEF Interrupted
  <2>3. CASE ReadEra \/ ReadSession \/ ReadSlot \/ ReadPoints \/ ReadSets
    BY <2>3 DEF ReadEra, ReadSession, ReadSlot, ReadPoints, ReadSets
  <2>4. CASE WarmupState \/ Calculate \/ Construct \/ ReadFail
    BY <2>2, <2>4 DEF WarmupState, Calculate, Construct, ReadFail
  <2>5. CASE Publish
    BY <2>5 DEF Publish, Metrics
  <2>6. CASE Scrape
    BY <2>6 DEF Scrape, ScrapeFinds, ScrapeTest, ScrapeGets
  <2>7. CASE Restart
    BY <2>7 DEF Restart
  <2>8. QED
    BY <2>1, <2>3, <2>4, <2>5, <2>6, <2>7 DEF Next, Main
<1>3. QED
  BY <1>1, <1>2, PTL DEF Spec

-----------------------------------------------------------------------------
(* The pace of the chain: but for a process that is down it is at most one *)
(* session ahead of the pass, and none once the session is settled.        *)
Reading   == {"slot", "points", "sets", "warmup", "calculate", "construct", "publish"}
HasPoints == Reading \ {"slot", "points"}
HasSets   == Reading \ {"slot", "points", "sets"}

PaceInv ==
  /\ session \in Sessions /\ began \in Sessions /\ began <= session
  /\ pc # "down" => session <= began + 1
  /\ settled => began = session
  /\ pc \in Reading \cup {"session"} => era = Era[began]
  /\ pc \in Reading => /\ current_session \in Sessions
                       /\ began <= current_session /\ current_session <= session

(* What a pass has read.                                                   *)
ReadInv ==
  /\ slot \in 0 .. SessionLength - 1
  /\ earned \in [Eras -> [Validators -> Nat]]
  /\ pc \in {"session", "era", "down"} \cup Reading
  /\ era \in Eras \cup {0} /\ current_session \in Sessions \cup {0}
  /\ session_progress \in Nat
  /\ era_points \in [Validators -> Nat] \cup {None}
  /\ session_validators \subseteq Validators /\ paravalidators \subseteq Validators
  /\ slashed_validators \in Nat
  /\ first_iter \in BOOLEAN /\ settled \in BOOLEAN /\ spc \in {"idle", "get"}
  /\ pc \in HasPoints => /\ era_points \in [Validators -> Nat]
                         /\ \A v \in Validators : era_points[v] <= earned[era][v]
  /\ pc \in HasSets => paravalidators = Para[current_session]
  /\ pc \in {"warmup", "down"} => first_iter
  /\ pc \in {"calculate", "construct", "publish"} => ~first_iter
  /\ account_era \in [Validators -> Eras \cup {0}]

(* An account, its era and the chain.  Only the session the chain is in,   *)
(* as long as it is not settled, may be of a later era than its account.   *)
Ordered(a) == \A s, t \in DOMAIN a : s < t => s \in a[t].after

OnItsEra(v, s) == Era[s] = account_era[v] \/ (s = session /\ ~settled)

AccountInv(v) ==
  /\ IsAccount(q_state[v]) /\ Ordered(q_state[v])
  /\ account_era[v] \in Eras \cup {0}
  /\ account_era[v] = 0 => DOMAIN q_state[v] = {}
  /\ account_era[v] # 0 => /\ account_era[v] <= Era[session]
                           /\ Total(q_state[v]) <= earned[account_era[v]][v]
  /\ \A s \in DOMAIN q_state[v] :
       /\ q_state[v][s].points >= 0
       /\ v \in Para[s] /\ s <= session /\ OnItsEra(v, s)
       /\ StartOf(account_era[v]) <= s
  /\ first_iter => account_era[v] = 0

(* An account and the pass.                                                *)
PassInv(v) ==
  /\ pc \in Reading \cup {"session"} => account_era[v] <= era
  /\ pc \in Reading => \A s \in DOMAIN q_state[v] : s <= current_session
  /\ pc \in HasPoints /\ account_era[v] = era => Total(q_state[v]) <= era_points[v]
  /\ pc \in {"construct", "publish"} /\ v \in paravalidators =>
       /\ account_era[v] = era /\ Total(q_state[v]) = era_points[v]
       /\ DOMAIN q_state[v] \subseteq era_sessions
       /\ current_session \in DOMAIN q_state[v]

MetricsInv ==
  q_metrics # <<>> =>
    /\ q_metrics[1].session \in Sessions
    /\ DOMAIN q_metrics[1].pv_eraPoints = Para[q_metrics[1].session]
    /\ q_metrics[1].pv_eraPoints \in [DOMAIN q_metrics[1].pv_eraPoints -> Int]

BookInv ==
  /\ PaceInv /\ ReadInv /\ MetricsInv
  /\ \A v \in Validators : AccountInv(v) /\ PassInv(v)

LEMMA SessionNumbers ==
  /\ MaxSession \in Nat \ {0} /\ SessionLength \in Nat \ {0} /\ Sessions \subseteq Nat \ {0}
  /\ 0 \notin Eras /\ Eras \subseteq Nat
  /\ \A s \in Sessions : Era[s] \in Eras /\ Era[s] \in Nat \ {0}
  /\ \A s, t \in Sessions : s <= t => Era[s] <= Era[t]
<1>1. /\ MaxSession \in Nat \ {0} /\ SessionLength \in Nat \ {0} /\ Sessions \subseteq Nat \ {0}
      /\ \A s \in Sessions : Era[s] \in Nat \ {0}
      /\ \A s, t \in Sessions : s < t => Era[s] <= Era[t]
  BY ConstantsAssumption DEF ConstantsAssumption, Sessions
<1>2. \A s, t \in Sessions : s <= t => Era[s] <= Era[t]
  BY <1>1
<1>3. QED
  BY <1>1, <1>2 DEF Eras

(* The sessions a pass deals with are of its era, but for one the chain    *)
(* may have come to meanwhile.                                             *)
LEMMA EraOfSession ==
  ASSUME PaceInv, pc \in Reading
  PROVE  /\ era \in Eras /\ current_session \in era_sessions /\ era_sessions \subseteq Sessions
         /\ StartOf(era) \in Sessions
         /\ \A s \in era_sessions :
              /\ StartOf(era) <= s /\ s <= current_session /\ s <= session
              /\ era <= Era[s]
              /\ Era[s] = era \/ (s = session /\ began # session)
<1>1. /\ began \in Sessions /\ session \in Sessions /\ current_session \in Sessions
      /\ era = Era[began] /\ began <= current_session /\ current_session <= session
      /\ session <= began + 1
  BY DEF PaceInv, Reading
<1>2. StartOf(era) \in Sessions /\ StartOf(era) <= began /\ Era[StartOf(era)] = era
  BY <1>1, StartIsFirst
<1>3. {began, session, current_session, StartOf(era)} \subseteq Nat
  BY <1>1, <1>2, SessionNumbers
<1>4. era_sessions \subseteq Sessions
  BY <1>1, <1>2, SessionNumbers DEF era_sessions, start_session, Sessions
<1>5. current_session \in era_sessions
  BY <1>1, <1>2, <1>3 DEF era_sessions, start_session
<1>6. ASSUME NEW s \in era_sessions
      PROVE  /\ StartOf(era) <= s /\ s <= current_session /\ s <= session
             /\ era <= Era[s] /\ (Era[s] = era \/ (s = session /\ began # session))
  <2>1. s \in Sessions /\ s \in Nat /\ StartOf(era) <= s /\ s <= current_session
    BY <1>3, <1>4, SessionNumbers DEF era_sessions, start_session
  <2>2. s <= session
    BY <1>1, <1>3, <2>1
  <2>3. era <= Era[s] /\ Era[s] \in Nat /\ era \in Nat
    BY <1>1, <1>2, <2>1, SessionNumbers
  <2>4. CASE s <= began
    <3>1. Era[s] <= era
      BY <1>1, <2>1, <2>4, SessionNumbers
    <3>2. QED
      BY <2>1, <2>2, <2>3, <3>1
  <2>5. CASE ~(s <= began)
    <3>1. s = session /\ began # session
      BY <1>1, <1>3, <2>1, <2>2, <2>5
    <3>2. QED
      BY <2>1, <2>2, <2>3, <3>1
  <2>6. QED
    BY <2>4, <2>5
<1>7. era \in Eras
  BY <1>1, SessionNumbers
<1>8. QED
  BY <1>2, <1>4, <1>5, <1>6, <1>7

LEMMA PaceStep == PaceInv /\ [Next]_vars => PaceInv'
<1> SUFFICES ASSUME PaceInv, [Next]_vars PROVE PaceInv'
  OBVIOUS
<1> USE DEF PaceInv, Reading
<1>1. session \in Nat /\ began \in Nat
  BY SessionNumbers
<1>2. CASE Chain
  <2>1. UNCHANGED <<pc, era, current_session, began>>
    BY <1>2 DEF Chain, readVars
  <2>2. CASE UNCHANGED <<session, settled>>
    BY <2>1, <2>2
  <2>3. CASE NextSession
    <3>1. /\ session' = session + 1 /\ ~settled' /\ (settled \/ pc = "down")
          /\ session' \in Sessions
      BY <1>1, <2>3, SessionNumbers DEF NextSession, Sessions
    <3>2. pc # "down" => session' <= began + 1
      BY <1>1, <3>1
    <3>3. pc \in Reading => current_session \in Nat
      BY SessionNumbers
    <3>4. QED
      BY <1>1, <2>1, <3>1, <3>2, <3>3
  <2>4. QED
    BY <1>2, <2>2, <2>3 DEF Chain, NextSlot, Earn
<1>3. ASSUME NEW from, Interrupted(from) PROVE PaceInv'
  BY <1>3 DEF Interrupted, Step, chainVars
<1>4. CASE ReadEra
  BY <1>1, <1>4 DEF ReadEra, Step, Leaves, chainVars
<1>5. CASE ReadSession
  BY <1>1, <1>5 DEF ReadSession, Step, Leaves, chainVars
<1>6. CASE ReadSlot \/ ReadPoints \/ ReadSets
  BY <1>6 DEF ReadSlot, ReadPoints, ReadSets, Step, Leaves, chainVars
<1>7. CASE WarmupState \/ Calculate \/ Construct
  BY <1>3, <1>7 DEF WarmupState, Calculate, Construct, Step, Leaves, readVars, chainVars
<1>8. CASE Publish \/ Restart
  <2>1. /\ pc' = "era" /\ pc \in {"publish", "down"} /\ UNCHANGED session
        /\ (pc = "publish" /\ began' = began) \/ began' = session
    BY <1>8 DEF Publish, Restart, Step, chainVars
  <2>2. settled' => began' = session
    <3>1. CASE Publish
      BY <3>1, Zenon DEF Publish
    <3>2. CASE Restart
      BY <3>2, Zenon DEF Restart
    <3>3. QED
      BY <1>8, <3>1, <3>2
  <2>3. QED
    BY <1>1, <2>1, <2>2
<1>9. CASE ReadFail
  BY <1>3, <1>9 DEF ReadFail
<1>10. CASE Scrape \/ UNCHANGED vars
  BY <1>10 DEF Scrape, vars, readVars, chainVars, paceVars
<1>11. QED
  BY <1>2, <1>4, <1>5, <1>6, <1>7, <1>8, <1>9, <1>10 DEF Next, Main

(* Points are never taken back.                                            *)
LEMMA EarningGrows ==
  ASSUME PaceInv, ReadInv, [Next]_vars
  PROVE  /\ earned' \in [Eras -> [Validators -> Nat]]
         /\ \A e \in Eras, v \in Validators :
              /\ earned[e][v] \in Nat /\ earned'[e][v] \in Nat
              /\ earned[e][v] <= earned'[e][v]
<1>1. earned \in [Eras -> [Validators -> Nat]]
  BY DEF ReadInv
<1>2. CASE UNCHANGED earned
  BY <1>1, <1>2
<1>3. ASSUME NEW u \in Validators, earned' = [earned EXCEPT ![Era[session]][u] = @ + 1]
      PROVE  /\ earned' \in [Eras -> [Validators -> Nat]]
             /\ \A e \in Eras, v \in Validators : earned[e][v] <= earned'[e][v]
  <2> DEFINE f == earned[Era[session]]
  <2>1. earned' = [earned EXCEPT ![Era[session]] = [f EXCEPT ![u] = f[u] + 1]]
    BY <1>3
  <2>2. Era[session] \in Eras
    BY SessionNumbers DEF PaceInv
  <2>3. f \in [Validators -> Nat]
    BY <1>1, <2>2
  <2>4. /\ [f EXCEPT ![u] = f[u] + 1] \in [Validators -> Nat]
        /\ \A v \in Validators : f[v] <= [f EXCEPT ![u] = f[u] + 1][v]
    <3> HIDE DEF f
    <3>1. QED
      BY <2>3
  <2>5. QED
    BY <1>1, <2>1, <2>2, <2>4
<1>4. UNCHANGED earned \/ \E u \in Validators : earned' = [earned EXCEPT ![Era[session]][u] = @ + 1]
  <2>1. CASE Chain
    BY <2>1 DEF Chain, NextSlot, NextSession, Earn
  <2>2. ASSUME NEW from, Interrupted(from) PROVE UNCHANGED earned
    BY <2>2 DEF Interrupted, chainVars
  <2>3. CASE ReadEra \/ ReadSession \/ ReadSlot \/ ReadPoints \/ ReadSets
    BY <2>3 DEF ReadEra, ReadSession, ReadSlot, ReadPoints, ReadSets, Leaves, chainVars
  <2>4. CASE ReadFail \/ WarmupState \/ Calculate \/ Construct
    BY <2>2, <2>4 DEF ReadFail, WarmupState, Calculate, Construct, Leaves, chainVars
  <2>5. CASE Publish \/ Restart \/ Scrape \/ UNCHANGED vars
    BY <2>5 DEF Publish, Restart, Scrape, vars, chainVars
  <2>6. QED
    BY <2>1, <2>3, <2>4, <2>5 DEF Next, Main
<1>5. /\ earned' \in [Eras -> [Validators -> Nat]]
      /\ \A e \in Eras, v \in Validators : earned[e][v] <= earned'[e][v]
  BY <1>1, <1>2, <1>3, <1>4
<1>6. QED
  BY <1>1, <1>5

(* Slashes are finitely many.                                              *)
LEMMA SlashesAreCounted ==
  ASSUME NEW e \in Nat
  PROVE  UnappliedSlashes(e) \in Nat
<1> DEFINE of(n) == {n} \X DOMAIN Unapplied[n]
           eras(k) == (e .. e + k - 1) \cap DOMAIN Unapplied
           upto(k) == UNION {of(n) : n \in eras(k)}
           S == {k \in Nat : IsFiniteSet(upto(k))}
<1>1. SlashDepth \in Nat /\ \A n \in DOMAIN Unapplied : Unapplied[n] \in Seq(Validators)
  BY ConstantsAssumption DEF ConstantsAssumption
<1>2. 0 \in S
  <2>1. upto(0) = {}
    OBVIOUS
  <2>2. QED
    BY <2>1, FS_EmptySet
<1>3. ASSUME NEW k \in S PROVE k + 1 \in S
  <2>1. k \in Nat /\ IsFiniteSet(upto(k))
    OBVIOUS
  <2>2. CASE e + k \in DOMAIN Unapplied
    <3>1. eras(k + 1) = eras(k) \cup {e + k}
      BY <2>1, <2>2
    <3>2. upto(k + 1) = upto(k) \cup of(e + k)
      <4> HIDE DEF eras, of
      <4>1. QED
        BY <3>1
    <3>3. IsFiniteSet(of(e + k))
      <4>1. DOMAIN Unapplied[e + k] = 1 .. Len(Unapplied[e + k]) /\ Len(Unapplied[e + k]) \in Int
        BY <1>1, <2>2
      <4>2. IsFiniteSet(DOMAIN Unapplied[e + k])
        BY <4>1, FS_Interval
      <4>3. IsFiniteSet({e + k})
        BY FS_Singleton
      <4>4. QED
        BY <4>2, <4>3, FS_Product
    <3> HIDE DEF upto, of, eras
    <3>4. IsFiniteSet(upto(k + 1))
      <4>1. IsFiniteSet(upto(k) \cup of(e + k))
        BY <2>1, <3>3, FS_Union
      <4>2. QED
        BY <3>2, <4>1
    <3>5. QED
      BY <2>1, <3>4
  <2>3. CASE e + k \notin DOMAIN Unapplied
    <3>1. eras(k + 1) = eras(k)
      BY <2>1, <2>3
    <3>2. upto(k + 1) = upto(k)
      BY <3>1
    <3> HIDE DEF upto, eras
    <3>3. QED
      BY <2>1, <3>2
  <2>4. QED
    BY <2>2, <2>3
<1>4. S = Nat
  <2> HIDE DEF S
  <2>1. S \in SUBSET Nat
    BY DEF S
  <2>2. QED
    BY <1>2, <1>3, <2>1, Induction
<1>5. IsFiniteSet(upto(SlashDepth))
  BY <1>1, <1>4
<1>6. UnappliedSlashes(e) = Cardinality(upto(SlashDepth))
  BY DEF UnappliedSlashes
<1>7. QED
  BY <1>5, <1>6, FS_CardinalityType

(* The points of a pass: no more than the chain has given meanwhile.       *)
LEMMA ReadStep == PaceInv /\ ReadInv /\ [Next]_vars => ReadInv'
<1> SUFFICES ASSUME PaceInv, ReadInv, [Next]_vars PROVE ReadInv'
  OBVIOUS
<1> USE DEF ReadInv, Reading, HasPoints, HasSets
<1>1. /\ earned' \in [Eras -> [Validators -> Nat]]
      /\ \A e \in Eras, v \in Validators :
           earned[e][v] \in Nat /\ earned'[e][v] \in Nat /\ earned[e][v] <= earned'[e][v]
  BY EarningGrows
<1>2. pc \in HasPoints => era \in Eras
  BY EraOfSession
<1>3. pc \in HasPoints => \A v \in Validators : era_points[v] <= earned'[era][v]
  <2> SUFFICES ASSUME pc \in HasPoints, NEW v \in Validators
               PROVE  era_points[v] <= earned'[era][v]
    OBVIOUS
  <2>1. era_points[v] \in Nat /\ era_points[v] <= earned[era][v]
    OBVIOUS
  <2>2. QED
    BY <1>1, <1>2, <2>1
<1>4. CASE Chain
  <2>1. UNCHANGED <<pc, readVars, first_iter, account_era, spc>>
    BY <1>4 DEF Chain, ledgerVars
  <2>2. slot' = slot \/ (slot < SessionLength - 1 /\ slot' = slot + 1) \/ slot' = 0
    BY <1>4 DEF Chain, NextSlot, NextSession, Earn
  <2>3. slot' \in 0 .. SessionLength - 1
    BY <2>2, SessionNumbers
  <2>4. settled' \in BOOLEAN
    BY <1>4 DEF Chain, NextSlot, NextSession, Earn
  <2>5. QED
    BY <1>1, <1>3, <2>1, <2>3, <2>4 DEF readVars, setVars
<1>5. ASSUME NEW from, Interrupted(from) PROVE ReadInv'
  BY <1>5 DEF Interrupted, ForgetReads, Step, chainVars
<1>6. CASE ReadEra
  BY <1>6, SessionNumbers DEF ReadEra, Step, Leaves, chainVars, setVars, ledgerVars, PaceInv
<1>7. CASE ReadSession
  BY <1>7, SessionNumbers DEF ReadSession, Step, Leaves, chainVars, setVars, ledgerVars, PaceInv
<1>8. CASE ReadSlot
  <2>1. /\ session \in Nat /\ current_session \in Nat /\ current_session <= session
        /\ SessionLength \in Nat
    BY <1>8, SessionNumbers DEF ReadSlot, Step, PaceInv
  <2>2. (session - current_session) * SessionLength \in Nat /\ slot \in Nat
    BY <2>1, SessionNumbers, Products
  <2>3. session_progress' \in Nat
    BY <1>8, <2>2 DEF ReadSlot
  <2>4. QED
    BY <1>8, <2>3 DEF ReadSlot, Step, Leaves, chainVars, setVars, ledgerVars
<1>9. CASE ReadPoints
  <2>1. era \in Eras
    BY <1>9, EraOfSession DEF ReadPoints, Step
  <2>2. era_points' \in [Validators -> Nat] /\ \A v \in Validators : era_points'[v] <= earned[era][v]
    BY <1>9, <2>1 DEF ReadPoints
  <2>3. QED
    BY <1>9, <2>2 DEF ReadPoints, Step, Leaves, chainVars, setVars, ledgerVars
<1>10. CASE ReadSets
  <2>1. current_session \in Sessions /\ session \in Sessions /\ era \in Nat
    BY <1>10, EraOfSession, SessionNumbers DEF ReadSets, Step, PaceInv
  <2>2. slashed_validators' \in Nat
    BY <1>10, <2>1, SlashesAreCounted DEF ReadSets
  <2>3. /\ session_validators' \subseteq Validators /\ paravalidators' \subseteq Validators
        /\ paravalidators' = Para[current_session]
    BY <1>10, <2>1, ConstantsAssumption DEF ConstantsAssumption, ReadSets
  <2>4. QED
    BY <1>10, <2>2, <2>3 DEF ReadSets, Step, Leaves, chainVars, ledgerVars
<1>11. CASE WarmupState
  <2>1. CASE Interrupted("warmup")
    BY <1>5, <2>1
  <2>2. CASE ~Interrupted("warmup")
    <3>1. /\ pc = "warmup" /\ pc' = "calculate" /\ first_iter' = FALSE
          /\ account_era' = [v \in Validators |-> IF Warm(v) # {} THEN era ELSE 0]
          /\ UNCHANGED <<chainVars, settled, spc, readVars>>
      BY <1>11, <2>2 DEF WarmupState, Step, Leaves
    <3>2. account_era' \in [Validators -> Eras \cup {0}]
      BY <3>1
    <3>3. QED
      BY <3>1, <3>2 DEF chainVars, readVars, setVars
  <2>3. QED
    BY <2>1, <2>2
<1>12. CASE Calculate
  BY <1>12 DEF Calculate, Step, Leaves, chainVars, readVars, setVars
<1>13. CASE Construct \/ ReadFail
  BY <1>5, <1>13 DEF Construct, ReadFail, Step, Leaves, chainVars, readVars, setVars, ledgerVars
<1>14. CASE Publish
  <2>1. settled' \in BOOLEAN
    <3>1. settled' = (began = session)
      BY <1>14, Zenon DEF Publish
    <3>2. QED
      BY <3>1, Zenon
  <2>2. QED
    BY <1>14, <2>1 DEF Publish, ForgetReads, Step, chainVars, ledgerVars
<1>15. CASE Restart
  BY <1>15 DEF Restart, Step, chainVars, readVars, setVars, ledgerVars
<1>16. CASE Scrape \/ UNCHANGED vars
  BY <1>16 DEF Scrape, ScrapeFinds, ScrapeGets, vars, chainVars, readVars, setVars, ledgerVars, paceVars
<1>17. QED
  BY <1>4, <1>6, <1>7, <1>8, <1>9, <1>10, <1>11, <1>12, <1>13, <1>14, <1>15, <1>16 DEF Next, Main

-----------------------------------------------------------------------------
(* The accounts.  Where a step leaves one alone it is enough that it is    *)
(* still on its era.                                                       *)
LEMMA AccountStays ==
  ASSUME PaceInv, ReadInv, [Next]_vars, NEW v \in Validators, AccountInv(v),
         UNCHANGED <<q_state, account_era>>, first_iter' => first_iter,
         session' \in Sessions, session <= session',
         \A s \in DOMAIN q_state[v] : Era[s] = account_era[v] \/ (s = session' /\ ~settled')
  PROVE  AccountInv(v)'
<1> DEFINE a == q_state[v]
           e == account_era[v]
<1>1. /\ IsAccount(a) /\ Ordered(a) /\ e \in Eras \cup {0}
      /\ e = 0 => DOMAIN a = {}
      /\ e # 0 => e <= Era[session] /\ Total(a) <= earned[e][v]
      /\ \A s \in DOMAIN a : a[s].points >= 0 /\ v \in Para[s] /\ s <= session /\ StartOf(e) <= s
      /\ first_iter => e = 0
  BY DEF AccountInv
<1>2. q_state'[v] = a /\ account_era'[v] = e
  OBVIOUS
<1>3. e # 0 => e <= Era[session'] /\ Total(a) <= earned'[e][v]
  <2> SUFFICES ASSUME e # 0 PROVE e <= Era[session'] /\ Total(a) <= earned'[e][v]
    OBVIOUS
  <2>1. /\ e \in Nat /\ session \in Sessions /\ Era[session] \in Nat /\ Era[session'] \in Nat
        /\ Era[session] <= Era[session']
    BY <1>1, SessionNumbers DEF PaceInv
  <2>2. earned[e][v] \in Nat /\ earned'[e][v] \in Nat /\ earned[e][v] <= earned'[e][v]
    BY <1>1, EarningGrows
  <2>3. Total(a) \in Int
    BY <1>1, AccountPoints
  <2> HIDE DEF a, e
  <2>4. QED
    BY <1>1, <2>1, <2>2, <2>3
<1>4. \A s \in DOMAIN a : s <= session'
  <2>1. DOMAIN a \subseteq Nat /\ session \in Nat /\ session' \in Nat
    BY <1>1, AccountPoints, SessionNumbers DEF PaceInv
  <2> HIDE DEF a
  <2>2. QED
    BY <1>1, <2>1
<1>5. \A s \in DOMAIN a : Era[s] = e \/ (s = session' /\ ~settled')
  OBVIOUS
<1> HIDE DEF a, e
<1>6. QED
  BY <1>1, <1>2, <1>3, <1>4, <1>5 DEF AccountInv, OnItsEra

(* An account without a session.                                           *)
LEMMA NoAccountFits ==
  ASSUME PaceInv', NEW v \in Validators, q_state'[v] = NoAccount, account_era'[v] = 0,
         pc' \notin {"construct", "publish"},
         pc' \in Reading \cup {"session"} => era' \in Eras
  PROVE  AccountInv(v)' /\ PassInv(v)'
<1>1. DOMAIN NoAccount = {} /\ IsAccount(NoAccount) /\ Ordered(NoAccount)
  <2>1. DOMAIN NoAccount = {} /\ NoAccount = [s \in {} |-> [points |-> 0, after |-> {}]]
    BY DEF NoAccount
  <2>2. NoAccount \in [{} -> [points : Int, after : SUBSET {}]]
    BY <2>1
  <2>3. IsAccount(NoAccount)
    BY <2>1, <2>2 DEF IsAccount
  <2>4. QED
    BY <2>1, <2>3 DEF Ordered
<1>2. 0 \notin Eras /\ \A e \in Eras : 0 <= e
  BY SessionNumbers
<1>3. AccountInv(v)'
  BY <1>1 DEF AccountInv
<1>4. PassInv(v)'
  BY <1>1, <1>2 DEF PassInv, HasPoints
<1>5. QED
  BY <1>3, <1>4

(* The next session begins when every account is on its era, or when there *)
(* is none.                                                                *)
LEMMA ChainKeeps ==
  ASSUME BookInv, [Next]_vars, Chain, NEW v \in Validators
  PROVE  AccountInv(v)' /\ PassInv(v)'
<1>1. PaceInv /\ ReadInv /\ AccountInv(v) /\ PassInv(v)
  BY DEF BookInv
<1>2. UNCHANGED <<pc, era, current_session, era_points, paravalidators, first_iter, q_state, account_era>>
  BY DEF Chain, readVars, setVars, ledgerVars
<1>3. PassInv(v)'
  BY <1>1, <1>2 DEF PassInv, era_sessions, start_session
<1>4. session \in Nat /\ session \in Sessions
  BY <1>1, SessionNumbers DEF PaceInv
<1>5. /\ session' \in Sessions /\ session <= session'
      /\ \A s \in DOMAIN q_state[v] : Era[s] = account_era[v] \/ (s = session' /\ ~settled')
  <2>1. \A s \in DOMAIN q_state[v] : Era[s] = account_era[v] \/ (s = session /\ ~settled)
    BY <1>1 DEF AccountInv, OnItsEra
  <2>2. CASE UNCHANGED <<session, settled>>
    BY <1>4, <2>1, <2>2
  <2>3. CASE NextSession
    <3>1. session < MaxSession /\ session' = session + 1 /\ (settled \/ pc = "down")
      BY <2>3 DEF NextSession
    <3>2. session' \in Sessions /\ session <= session'
      BY <1>4, <3>1, SessionNumbers DEF Sessions
    <3>3. pc = "down" => DOMAIN q_state[v] = {}
      BY <1>1 DEF ReadInv, AccountInv
    <3>4. QED
      BY <2>1, <3>1, <3>2, <3>3
  <2>4. QED
    BY <2>2, <2>3 DEF Chain, NextSlot, Earn
<1>6. QED
  BY <1>1, <1>2, <1>3, <1>5, AccountStays

(* The requests.                                                           *)
LEMMA ReadsKeep ==
  ASSUME BookInv, [Next]_vars, ReadEra \/ ReadSession \/ ReadSlot \/ ReadPoints \/ ReadSets,
         NEW v \in Validators
  PROVE  AccountInv(v)' /\ PassInv(v)'
<1>1. PaceInv /\ ReadInv /\ AccountInv(v) /\ PassInv(v)
  BY DEF BookInv
<1>2. UNCHANGED <<session, settled, earned, q_state, account_era, first_iter>>
  BY DEF ReadEra, ReadSession, ReadSlot, ReadPoints, ReadSets, Leaves, chainVars, ledgerVars
<1>3. AccountInv(v)'
  <2>1. session \in Sessions /\ session <= session
    BY <1>1, SessionNumbers DEF PaceInv
  <2>2. \A s \in DOMAIN q_state[v] : Era[s] = account_era[v] \/ (s = session /\ ~settled)
    BY <1>1 DEF AccountInv, OnItsEra
  <2>3. QED
    BY <1>1, <1>2, <2>1, <2>2, AccountStays
<1>4. PassInv(v)'
  <2> USE DEF PassInv, HasPoints, Reading
  <2>1. CASE ReadEra
    <3>1. pc' = "session" /\ era' = Era[session]
      BY <2>1 DEF ReadEra, Step
    <3>2. account_era[v] <= Era[session]
      <4>1. session \in Sessions /\ Era[session] \in Nat
        BY <1>1, SessionNumbers DEF PaceInv
      <4>2. QED
        BY <1>1, <4>1 DEF AccountInv
    <3>3. QED
      BY <1>2, <3>1, <3>2
  <2>2. CASE ReadSession
    <3>1. pc = "session" /\ pc' = "slot" /\ current_session' = session /\ era' = era
      BY <2>2 DEF ReadSession, Step
    <3>2. \A s \in DOMAIN q_state[v] : s <= session
      BY <1>1 DEF AccountInv
    <3>3. QED
      BY <1>1, <1>2, <3>1, <3>2
  <2>3. CASE ReadSlot
    BY <1>1, <1>2, <2>3 DEF ReadSlot, Step
  <2>4. CASE ReadPoints
    <3>1. /\ pc = "points" /\ pc' = "sets" /\ era_points' = earned[era]
          /\ UNCHANGED <<era, current_session>>
      BY <2>4 DEF ReadPoints, Step
    <3>2. era # 0
      BY <1>1, <3>1, EraOfSession, SessionNumbers
    <3>3. account_era[v] # 0 => Total(q_state[v]) <= earned[account_era[v]][v]
      BY <1>1 DEF AccountInv
    <3>4. QED
      BY <1>1, <1>2, <3>1, <3>2, <3>3
  <2>5. CASE ReadSets
    <3>1. /\ pc = "sets" /\ pc' \in {"warmup", "calculate"}
          /\ UNCHANGED <<era, current_session, era_points>>
      BY <2>5 DEF ReadSets, Step
    <3>2. QED
      BY <1>1, <1>2, <3>1
  <2>6. QED
    BY <2>1, <2>2, <2>3, <2>4, <2>5
<1>5. QED
  BY <1>3, <1>4

(* What a fresh process guesses.                                           *)
LEMMA WarmupKeeps ==
  ASSUME BookInv, BookInv => PaceInv', WarmupState, ~Interrupted("warmup"), NEW v \in Validators
  PROVE  AccountInv(v)' /\ PassInv(v)'
<1> DEFINE g == Guess(v)
<1>1. PaceInv /\ PaceInv' /\ ReadInv /\ AccountInv(v)
  BY DEF BookInv
<1>2. /\ pc = "warmup" /\ pc' = "calculate" /\ ~DividesByZero
      /\ q_state' = [u \in Validators |-> Guess(u)]
      /\ account_era' = [u \in Validators |-> IF Warm(u) # {} THEN era ELSE 0]
      /\ first_iter' = FALSE
      /\ UNCHANGED <<chainVars, settled, readVars, began>>
  BY DEF WarmupState, Step, Leaves
<1>3. UNCHANGED <<session, earned, settled, era, current_session, era_points, paravalidators>>
  BY <1>2 DEF chainVars, readVars, setVars
<1>4. q_state'[v] = g /\ account_era'[v] = (IF Warm(v) # {} THEN era ELSE 0)
  BY <1>2
<1>5. /\ era \in Eras /\ era \in Nat /\ era # 0 /\ current_session \in era_sessions
      /\ era_sessions \subseteq Sessions
      /\ \A s \in era_sessions :
           /\ StartOf(era) <= s /\ s <= current_session /\ s <= session
           /\ Era[s] = era \/ (s = session /\ began # session)
  BY <1>1, <1>2, EraOfSession, SessionNumbers DEF Reading
<1>6. Warm(v) \subseteq era_sessions /\ \A s \in Warm(v) : v \in Para[s]
  BY <1>5 DEF Warm, WarmSessions
<1>7. /\ era_points[v] \in Nat /\ session_progress \in Nat /\ era_points[v] <= earned[era][v]
      /\ earned[era][v] \in Nat
  BY <1>1, <1>2, <1>5 DEF ReadInv, HasPoints, Reading
<1>8. /\ DOMAIN g = Warm(v)
      /\ \A s \in Warm(v) : g[s].points \in Nat /\ g[s].after = {t \in Warm(v) : t < s}
      /\ IsAccount(g)
      /\ Total(g) \in Nat /\ Total(g) <= era_points[v]
  <2>1. Warm(v) \subseteq Sessions
    BY <1>5, <1>6
  <2>2. ~(session_progress = 0 /\ Warm(v) = {current_session})
    BY <1>2 DEF DividesByZero
  <2>3. QED
    BY <1>7, <2>1, <2>2, GuessFits
<1>9. era <= Era[session]
  <2>1. began \in Sessions /\ session \in Sessions /\ began <= session /\ era = Era[began]
    BY <1>1, <1>2 DEF PaceInv, Reading
  <2>2. QED
    BY <2>1, SessionNumbers
<1>10. settled => began = session
  BY <1>1 DEF PaceInv
<1> HIDE DEF g
<1>11. Ordered(g)
  BY <1>8 DEF Ordered
<1>12. CASE Warm(v) = {}
  <2>1. account_era'[v] = 0 /\ DOMAIN g = {}
    BY <1>4, <1>8, <1>12
  <2>2. AccountInv(v)'
    BY <1>2, <1>4, <1>8, <1>11, <2>1 DEF AccountInv
  <2>3. PassInv(v)'
    BY <1>2, <1>3, <1>4, <1>5, <2>1 DEF PassInv, HasPoints, Reading
  <2>4. QED
    BY <2>2, <2>3
<1>13. CASE Warm(v) # {}
  <2>1. account_era'[v] = era
    BY <1>4, <1>13
  <2>2. Total(g) <= earned[era][v]
    BY <1>7, <1>8
  <2>3. \A s \in Warm(v) : /\ g[s].points >= 0 /\ v \in Para[s] /\ s <= session
                           /\ Era[s] = era \/ (s = session /\ ~settled)
                           /\ StartOf(era) <= s /\ s <= current_session
    BY <1>5, <1>6, <1>8, <1>10
  <2>4. AccountInv(v)'
    BY <1>2, <1>3, <1>4, <1>5, <1>8, <1>9, <1>11, <2>1, <2>2, <2>3 DEF AccountInv, OnItsEra
  <2>5. PassInv(v)'
    BY <1>2, <1>3, <1>4, <1>5, <1>8, <2>1, <2>3 DEF PassInv, HasPoints, Reading
  <2>6. QED
    BY <2>4, <2>5
<1>14. QED
  BY <1>12, <1>13

(* A pass finds the account on its era, or of an earlier one and left with *)
(* the current session alone: what RecountFits asks for.                   *)
LEMMA AccountIsReady ==
  ASSUME BookInv, pc = "calculate", NEW v \in Validators
  PROVE  /\ IsAccount(q_state[v]) /\ era_points[v] \in Nat
         /\ current_session \in Sessions /\ current_session \in era_sessions
         /\ \A s \in DOMAIN q_state[v] : q_state[v][s].points >= 0
         /\ account_era[v] = era =>
              DOMAIN q_state[v] \subseteq era_sessions /\ Total(q_state[v]) <= era_points[v]
         /\ account_era[v] # era => DOMAIN q_state[v] \cap era_sessions \subseteq {current_session}
<1> DEFINE a == q_state[v]
           e == account_era[v]
<1>1. PaceInv /\ ReadInv /\ AccountInv(v) /\ PassInv(v)
  BY DEF BookInv
<1>2. /\ IsAccount(a) /\ e \in Eras \cup {0}
      /\ \A s \in DOMAIN a : /\ a[s].points >= 0 /\ s <= session /\ StartOf(e) <= s
                             /\ Era[s] = e \/ s = session
  BY <1>1 DEF AccountInv, OnItsEra
<1>3. /\ era_points[v] \in Nat /\ e <= era
      /\ \A s \in DOMAIN a : s <= current_session
      /\ e = era => Total(a) <= era_points[v]
  BY <1>1 DEF ReadInv, PassInv, HasPoints, Reading
<1>4. /\ era \in Eras /\ current_session \in era_sessions /\ StartOf(era) \in Sessions
      /\ era_sessions \subseteq Sessions
      /\ \A s \in era_sessions : s <= current_session /\ era <= Era[s]
  BY <1>1, EraOfSession DEF Reading
<1>5. DOMAIN a \subseteq Sessions /\ Sessions \subseteq Nat
  BY <1>2, AccountPoints, SessionNumbers
<1>6. e \in Nat /\ era \in Nat /\ session \in Nat /\ current_session \in Nat /\ current_session <= session
  <2>1. session \in Sessions /\ current_session \in Sessions /\ current_session <= session
    BY <1>1 DEF PaceInv, Reading
  <2>2. Eras \subseteq Nat
    BY SessionNumbers
  <2> HIDE DEF a, e
  <2>3. QED
    BY <1>2, <1>4, <1>5, <2>1, <2>2
<1> HIDE DEF a, e
<1>7. ASSUME e = era PROVE DOMAIN a \subseteq era_sessions
  <2>1. \A s \in DOMAIN a : s \in Nat /\ StartOf(era) <= s /\ s <= current_session
    BY <1>2, <1>3, <1>5, <1>7
  <2>2. StartOf(era) \in Nat
    BY <1>4, <1>5
  <2>3. QED
    BY <1>6, <2>1, <2>2 DEF era_sessions, start_session
<1>8. ASSUME e # era, NEW s \in DOMAIN a, s \in era_sessions PROVE s = current_session
  <2>1. e < era /\ era <= Era[s] /\ Era[s] \in Nat
    <3>1. Era[s] \in Nat
      BY <1>5, SessionNumbers
    <3>2. era <= Era[s]
      BY <1>4, <1>8
    <3>3. e < era
      <4>1. \A m, n \in Nat : m <= n /\ m # n => m < n
        OBVIOUS
      <4>2. QED
        BY <1>3, <1>6, <1>8, <4>1
    <3>4. QED
      BY <3>1, <3>2, <3>3
  <2>2. s = session
    BY <1>2, <1>6, <2>1
  <2>3. QED
    BY <1>3, <1>6, <2>2
<1>9. QED
  BY <1>2, <1>3, <1>4, <1>7, <1>8 DEF a, e

LEMMA CalculateKeeps ==
  ASSUME BookInv, BookInv => PaceInv' /\ ReadInv', [Next]_vars, Calculate, NEW v \in Validators
  PROVE  AccountInv(v)' /\ PassInv(v)'
<1>1. PaceInv /\ PaceInv' /\ ReadInv /\ ReadInv' /\ AccountInv(v) /\ PassInv(v)
  BY DEF BookInv
<1>2. /\ pc = "calculate" /\ pc' = "construct" /\ first_iter' = first_iter /\ ~first_iter
      /\ UNCHANGED <<session, slot, earned, settled, began>>
      /\ UNCHANGED <<era, current_session, era_points, paravalidators>>
  BY <1>1 DEF Calculate, Step, Leaves, chainVars, readVars, setVars, ReadInv
<1>3. CASE v \notin paravalidators
  <2>1. q_state'[v] = q_state[v] /\ account_era'[v] = account_era[v]
    BY <1>3 DEF Calculate
  <2>2. AccountInv(v)'
    BY <1>1, <1>2, <2>1 DEF AccountInv, OnItsEra
  <2>3. PassInv(v)'
    BY <1>1, <1>2, <1>3, <2>1 DEF PassInv, HasPoints, Reading
  <2>4. QED
    BY <2>2, <2>3
<1>4. CASE v \in paravalidators
  <2> DEFINE a == q_state[v]
             c == current_session
             r == Recount(v)
  <2>1. q_state'[v] = r /\ account_era'[v] = era
    BY <1>4 DEF Calculate
  <2>2. /\ IsAccount(a) /\ Ordered(a)
        /\ \A s \in DOMAIN a : v \in Para[s]
    BY <1>1 DEF AccountInv
  <2>3. /\ era_points[v] \in Nat /\ era_points[v] <= earned[era][v]
        /\ paravalidators = Para[c]
        /\ \A s \in DOMAIN a : s <= c
    BY <1>1, <1>2 DEF ReadInv, PassInv, HasPoints, HasSets, Reading
  <2>4. /\ IsAccount(a) /\ c \in Sessions /\ c \in era_sessions
        /\ \A s \in DOMAIN r : r[s].points >= 0
    BY <1>2, AccountIsReady, RecountFits
  <2>5. /\ DOMAIN r = (DOMAIN a \cup {c}) \cap era_sessions /\ IsAccount(r)
        /\ Total(r) = era_points[v]
        /\ \A s \in DOMAIN r :
             r[s].after = (IF s \in DOMAIN a THEN a[s].after ELSE DOMAIN a) \cap era_sessions
    BY <2>3, <2>4, RecountFields
  <2>6. /\ era \in Eras /\ era \in Nat /\ era # 0 /\ era <= Era[session]
        /\ \A s \in era_sessions :
             /\ StartOf(era) <= s /\ s <= c /\ s <= session
             /\ Era[s] = era \/ (s = session /\ ~settled)
    <3>1. /\ began \in Sessions /\ session \in Sessions /\ began <= session /\ era = Era[began]
          /\ settled => began = session
      BY <1>1, <1>2 DEF PaceInv, Reading
    <3>2. QED
      BY <1>1, <1>2, <3>1, EraOfSession, SessionNumbers DEF Reading
  <2>7. DOMAIN a \subseteq Nat /\ c \in Nat /\ DOMAIN r \subseteq era_sessions /\ c \in DOMAIN r
    BY <2>2, <2>4, <2>5, AccountPoints, SessionNumbers
  <2> HIDE DEF a, c, r
  <2>8. Ordered(r)
    <3> SUFFICES ASSUME NEW s \in DOMAIN r, NEW t \in DOMAIN r, s < t
                 PROVE  s \in r[t].after
      BY DEF Ordered
    <3>1. s \in era_sessions /\ t <= c /\ t \in DOMAIN a \cup {c} /\ s \in DOMAIN a \cup {c}
      BY <2>5, <2>6
    <3>2. s # c /\ s \in DOMAIN a
      BY <2>7, <3>1
    <3>3. t \in DOMAIN a => s \in a[t].after
      BY <2>2, <3>2 DEF Ordered
    <3>4. QED
      BY <2>5, <3>1, <3>2, <3>3
  <2>9. \A s \in DOMAIN r : v \in Para[s]
    BY <1>4, <2>2, <2>3, <2>5
  <2>10. \A s \in DOMAIN r : /\ s <= session /\ StartOf(era) <= s /\ s <= c
                             /\ Era[s] = era \/ (s = session /\ ~settled)
    BY <2>6, <2>7
  <2>11. AccountInv(v)'
    BY <1>2, <2>1, <2>3, <2>4, <2>5, <2>6, <2>8, <2>9, <2>10 DEF AccountInv, OnItsEra
  <2>12. Total(r) \in Int /\ Total(r) <= era_points[v]
    BY <2>3, <2>5
  <2>13. PassInv(v)'
    BY <1>2, <2>1, <2>5, <2>6, <2>7, <2>10, <2>12
       DEF PassInv, HasPoints, Reading, era_sessions, start_session, c
  <2>14. QED
    BY <2>11, <2>13
<1>5. QED
  BY <1>3, <1>4

(* When a pass is over its session is settled if the chain is still in it: *)
(* then a paravalidator of the session has its account on the era of it.   *)
LEMMA PublishKeeps ==
  ASSUME BookInv, [Next]_vars, Publish, NEW v \in Validators
  PROVE  AccountInv(v)' /\ PassInv(v)'
<1>1. PaceInv /\ ReadInv /\ AccountInv(v) /\ PassInv(v)
  BY DEF BookInv
<1>2. /\ pc = "publish" /\ pc' = "era"
      /\ UNCHANGED <<session, q_state, account_era, first_iter>>
  BY DEF Publish, Step, chainVars, ledgerVars
<1>3. /\ session \in Sessions /\ session \in Nat /\ began \in Nat /\ current_session \in Nat
      /\ began <= current_session /\ current_session <= session /\ era = Era[began]
      /\ current_session \in Sessions
  BY <1>1, <1>2, SessionNumbers DEF PaceInv, Reading
<1>4. \A s \in DOMAIN q_state[v] : Era[s] = account_era[v] \/ (s = session /\ ~settled')
  <2> SUFFICES ASSUME NEW s \in DOMAIN q_state[v], Era[s] # account_era[v]
               PROVE  s = session /\ ~settled'
    OBVIOUS
  <2>1. s = session /\ v \in Para[s]
    BY <1>1 DEF AccountInv, OnItsEra
  <2>2. began # session
    <3> SUFFICES ASSUME began = session PROVE FALSE
      OBVIOUS
    <3>1. s = current_session
      BY <1>3, <2>1
    <3>2. v \in paravalidators
      BY <1>1, <1>2, <2>1, <3>1 DEF ReadInv, HasSets, Reading
    <3>3. account_era[v] = era
      BY <1>1, <1>2, <3>2 DEF PassInv
    <3>4. QED
      BY <1>3, <2>1, <3>3
  <2>3. settled' = (began = session)
    BY Zenon DEF Publish
  <2>4. QED
    BY <2>1, <2>2, <2>3, Zenon
<1>5. session' \in Sessions /\ session <= session'
  BY <1>2, <1>3
<1>6. AccountInv(v)'
  BY <1>1, <1>2, <1>4, <1>5, AccountStays
<1>7. PassInv(v)'
  BY <1>2 DEF PassInv, HasPoints, Reading
<1>8. QED
  BY <1>6, <1>7

(* The other steps leave the accounts alone, or there are none.            *)
LEMMA OthersKeep ==
  ASSUME BookInv, BookInv => PaceInv', NEW v \in Validators,
         \/ \E from : Interrupted(from)
         \/ Construct \/ Restart \/ Scrape \/ UNCHANGED vars
  PROVE  AccountInv(v)' /\ PassInv(v)'
<1>1. PaceInv /\ PaceInv' /\ ReadInv /\ AccountInv(v) /\ PassInv(v)
  BY DEF BookInv
<1>2. ASSUME NEW from, Interrupted(from) PROVE AccountInv(v)' /\ PassInv(v)'
  <2>1. pc' = "down" /\ q_state'[v] = NoAccount /\ account_era'[v] = 0
    BY <1>2 DEF Interrupted, Step
  <2>2. QED
    BY <1>1, <2>1, NoAccountFits DEF Reading
<1>3. CASE Construct /\ ~Interrupted("construct")
  <2>1. /\ pc = "construct" /\ pc' = "publish"
        /\ UNCHANGED <<session, earned, settled, q_state, account_era, first_iter>>
        /\ UNCHANGED <<era, current_session, era_points, paravalidators>>
    BY <1>3 DEF Construct, Step, Leaves, chainVars, readVars, setVars, ledgerVars
  <2>2. AccountInv(v)'
    BY <1>1, <2>1 DEF AccountInv, OnItsEra
  <2>3. PassInv(v)'
    BY <1>1, <2>1 DEF PassInv, HasPoints, Reading, era_sessions, start_session
  <2>4. QED
    BY <2>2, <2>3
<1>4. CASE Restart
  <2>1. /\ pc = "down" /\ pc' = "era" /\ settled' = FALSE
        /\ UNCHANGED <<session, earned, q_state, account_era, first_iter>>
    BY <1>4 DEF Restart, Step, chainVars, ledgerVars
  <2>2. AccountInv(v)'
    BY <1>1, <2>1 DEF AccountInv, OnItsEra
  <2>3. PassInv(v)'
    BY <2>1 DEF PassInv, HasPoints, Reading
  <2>4. QED
    BY <2>2, <2>3
<1>5. CASE Scrape \/ UNCHANGED vars
  <2>1. /\ UNCHANGED <<pc, session, earned, settled, q_state, account_era, first_iter>>
        /\ UNCHANGED <<era, current_session, era_points, paravalidators>>
    BY <1>5 DEF Scrape, vars, chainVars, paceVars, readVars, setVars, ledgerVars
  <2>2. AccountInv(v)'
    BY <1>1, <2>1 DEF AccountInv, OnItsEra
  <2>3. PassInv(v)'
    BY <1>1, <2>1 DEF PassInv, era_sessions, start_session
  <2>4. QED
    BY <2>2, <2>3
<1>6. QED
  BY <1>2, <1>3, <1>4, <1>5

(* The metrics: the newest session of an account is the current one if and *)
(* only if its validator is a paravalidator of that.                       *)
LEMMA ReportedArePara ==
  ASSUME BookInv, pc = "publish"
  PROVE  /\ Reported = Para[current_session]
         /\ \A v \in Reported : q_state[v][current_session].points \in Int
<1> DEFINE c == current_session
<1>1. PaceInv /\ ReadInv /\ \A v \in Validators : AccountInv(v) /\ PassInv(v)
  BY DEF BookInv
<1>2. c \in Sessions /\ c \in Nat /\ paravalidators = Para[c] /\ Para[c] \subseteq Validators
  BY <1>1, SessionNumbers DEF PaceInv, ReadInv, HasSets, Reading
<1>3. ASSUME NEW v \in Para[c] PROVE IsNewest(q_state[v], c)
  <2>1. v \in Validators /\ v \in paravalidators
    BY <1>2
  <2>2. c \in DOMAIN q_state[v] /\ \A s \in DOMAIN q_state[v] : s <= c
    BY <1>1, <2>1 DEF PassInv, Reading
  <2>3. IsAccount(q_state[v]) /\ Ordered(q_state[v])
    BY <1>1, <2>1 DEF AccountInv
  <2>4. DOMAIN q_state[v] \subseteq Nat
    BY <2>3, AccountPoints, SessionNumbers
  <2>5. \A s \in DOMAIN q_state[v] \ {c} : s < c
    BY <1>2, <2>2, <2>4
  <2>6. \A s \in DOMAIN q_state[v] \ {c} : s \in q_state[v][c].after
    BY <2>2, <2>3, <2>5 DEF Ordered
  <2>7. QED
    BY <2>2, <2>6 DEF IsNewest
<1>4. ASSUME NEW v \in Validators, IsNewest(q_state[v], c)
      PROVE  v \in Para[c] /\ q_state[v][c].points \in Int
  <2>1. c \in DOMAIN q_state[v]
    BY <1>4 DEF IsNewest
  <2>2. IsAccount(q_state[v]) /\ \A s \in DOMAIN q_state[v] : v \in Para[s]
    BY <1>1 DEF AccountInv
  <2>3. QED
    BY <2>1, <2>2, AccountPoints
<1>5. QED
  BY <1>2, <1>3, <1>4 DEF Reported

LEMMA MetricsStep == BookInv /\ [Next]_vars => MetricsInv'
<1> SUFFICES ASSUME BookInv, [Next]_vars PROVE MetricsInv'
  OBVIOUS
<1>1. MetricsInv
  BY DEF BookInv
<1>2. CASE UNCHANGED q_metrics \/ q_metrics' = <<>>
  BY <1>1, <1>2 DEF MetricsInv
<1>3. CASE Publish
  <2>1. pc = "publish" /\ current_session \in Sessions
    BY <1>3 DEF Publish, Step, BookInv, PaceInv, Reading
  <2>2. /\ Reported = Para[current_session]
        /\ \A v \in Reported : q_state[v][current_session].points \in Int
    BY <2>1, ReportedArePara
  <2> DEFINE shown == [v \in Reported |-> q_state[v][current_session].points]
  <2>3. shown \in [Reported -> Int] /\ DOMAIN shown = Reported
    BY <2>2
  <2>4. Metrics.session = current_session /\ Metrics.pv_eraPoints = shown
    BY DEF Metrics
  <2>5. q_metrics'[1] = Metrics
    BY <1>3 DEF Publish
  <2> HIDE DEF shown
  <2>6. QED
    BY <2>1, <2>2, <2>3, <2>4, <2>5 DEF MetricsInv
<1>4. ASSUME NEW from, Interrupted(from) PROVE q_metrics' = <<>>
  BY <1>4 DEF Interrupted
<1>5. CASE Chain \/ Scrape \/ Restart \/ UNCHANGED vars
  BY <1>2, <1>5 DEF Chain, Scrape, Restart, vars
<1>6. CASE ReadEra \/ ReadSession \/ ReadSlot \/ ReadPoints \/ ReadSets
  BY <1>2, <1>6 DEF ReadEra, ReadSession, ReadSlot, ReadPoints, ReadSets
<1>7. CASE ReadFail \/ WarmupState \/ Calculate \/ Construct
  BY <1>2, <1>4, <1>7 DEF ReadFail, WarmupState, Calculate, Construct
<1>8. QED
  BY <1>3, <1>5, <1>6, <1>7 DEF Next, Main

LEMMA BookStep == BookInv /\ [Next]_vars => BookInv'
<1> SUFFICES ASSUME BookInv, [Next]_vars PROVE BookInv'
  OBVIOUS
<1>1. PaceInv' /\ ReadInv' /\ MetricsInv'
  BY PaceStep, ReadStep, MetricsStep DEF BookInv
<1>2. ASSUME NEW v \in Validators PROVE AccountInv(v)' /\ PassInv(v)'
  <2>1. CASE Chain
    BY <2>1, ChainKeeps
  <2>2. CASE ReadEra \/ ReadSession \/ ReadSlot \/ ReadPoints \/ ReadSets
    BY <2>2, ReadsKeep
  <2>3. CASE \/ \E from : Interrupted(from)
             \/ Construct \/ Restart \/ Scrape \/ UNCHANGED vars
    BY <1>1, <2>3, OthersKeep
  <2>4. CASE ReadFail
    BY <2>3, <2>4 DEF ReadFail
  <2>5. CASE WarmupState
    BY <1>1, <2>3, <2>5, WarmupKeeps
  <2>6. CASE Calculate
    BY <1>1, <2>6, CalculateKeeps
  <2>7. CASE Publish
    BY <2>7, PublishKeeps
  <2>8. QED
    BY <2>1, <2>2, <2>3, <2>4, <2>5, <2>6, <2>7 DEF Next, Main
<1>3. QED
  BY <1>1, <1>2 DEF BookInv

LEMMA BookStart == Init => BookInv
<1> SUFFICES ASSUME Init PROVE BookInv
  OBVIOUS
<1>1. 1 \in Sessions /\ 0 \in 0 .. SessionLength - 1
  BY SessionNumbers DEF Sessions
<1>2. PaceInv
  BY <1>1 DEF Init, PaceInv, Reading
<1>3. ReadInv
  BY <1>1 DEF Init, ReadInv, HasPoints, HasSets, Reading
<1>4. MetricsInv
  BY DEF Init, MetricsInv
<1>5. ASSUME NEW v \in Validators PROVE AccountInv(v) /\ PassInv(v)
  <2>1. DOMAIN NoAccount = {} /\ NoAccount = [s \in {} |-> [points |-> 0, after |-> {}]]
    BY DEF NoAccount
  <2>2. NoAccount \in [{} -> [points : Int, after : SUBSET {}]]
    BY <2>1
  <2>3. IsAccount(NoAccount) /\ Ordered(NoAccount)
    BY <2>1, <2>2 DEF IsAccount, Ordered
  <2>4. q_state[v] = NoAccount /\ account_era[v] = 0 /\ pc = "era"
    BY DEF Init
  <2>5. QED
    BY <2>1, <2>3, <2>4 DEF AccountInv, PassInv, HasPoints, Reading
<1>6. QED
  BY <1>2, <1>3, <1>4, <1>5 DEF BookInv

LEMMA BookInvariant == Spec => []BookInv
BY BookStart, BookStep, PTL DEF Spec

-----------------------------------------------------------------------------
(* Whatever the chain does between the requests of a pass, and wherever a  *)
(* pass is cut short: every variable has its type.                         *)
THEOREM CommonTyping == Spec => []TypeOK
<1>1. BookInv => TypeOK
  BY DEF BookInv, PaceInv, ReadInv, MetricsInv, AccountInv, TypeOK, Reading
<1>2. QED
  BY <1>1, BookInvariant, PTL

(* However the chain goes on between the requests of a pass, and wherever  *)
(* it is interrupted: the session it works on belongs to its era or a      *)
(* later one.                                                              *)
THEOREM EraBeforeSession == Spec => []SessionIsInEra
<1>1. BookInv => SessionIsInEra
  BY EraOfSession DEF BookInv, SessionIsInEra, Reading
<1>2. QED
  BY <1>1, BookInvariant, PTL

(* After a pass the sessions of a paravalidator account for all of its era *)
(* points, and all of them are of the era.                                 *)
THEOREM SessionsMakeTheEra == Spec => []PointsAddUp
<1>1. BookInv => PointsAddUp
  <2> SUFFICES ASSUME BookInv, pc \in {"construct", "publish"}, NEW v \in paravalidators
               PROVE  Total(q_state[v]) = era_points[v] /\ DOMAIN q_state[v] \subseteq era_sessions
    BY DEF PointsAddUp
  <2>1. v \in Validators
    BY DEF BookInv, ReadInv
  <2>2. PassInv(v)
    BY <2>1 DEF BookInv
  <2>3. QED
    BY <2>2 DEF PassInv
<1>2. QED
  BY <1>1, BookInvariant, PTL

(* The session points that are shown are those of the paravalidators of    *)
(* the session that is shown, all of them and no other validator's.        *)
THEOREM ShownArePara == Spec => []ShowsParavalidators
<1>1. BookInv => ShowsParavalidators
  BY DEF BookInv, MetricsInv, ShowsParavalidators
<1>2. QED
  BY <1>1, BookInvariant, PTL

-----------------------------------------------------------------------------
(* The accounts as PointsLedger sees them: b is a later state of a.        *)
GrowsTo(a, b) ==
  /\ DOMAIN a \subseteq DOMAIN b
  /\ \A s, t \in DOMAIN b \ DOMAIN a : s = t
  /\ \A s \in DOMAIN a :
       /\ \A t \in DOMAIN b \ DOMAIN a : s < t
       /\ \/ b[s].points = a[s].points
          \/ b[s].points > a[s].points /\ \A t \in DOMAIN b : t <= s

(* A recount of an account of the era opens the current session or adds to *)
(* it, and the current session is the newest.                              *)
LEMMA RecountGrows ==
  ASSUME BookInv, Calculate, NEW v \in Validators, v \in paravalidators,
         account_era'[v] = account_era[v]
  PROVE  GrowsTo(q_state[v], q_state'[v])
<1> DEFINE a == q_state[v]
           c == current_session
           r == Recount(v)
<1>1. pc = "calculate" /\ q_state'[v] = r /\ account_era'[v] = era
  BY DEF Calculate, Step
<1>2. /\ IsAccount(a) /\ c \in Sessions /\ c \in era_sessions
      /\ DOMAIN a \subseteq era_sessions /\ Total(a) <= era_points[v]
      /\ era_points[v] \in Nat /\ \A s \in DOMAIN a : a[s].points >= 0
  BY <1>1, AccountIsReady
<1>3. /\ DOMAIN r = DOMAIN a \cup {c}
      /\ \A s \in DOMAIN a : \/ r[s].points = a[s].points
                             \/ s = c /\ r[s].points > a[s].points
  BY <1>2, RecountFits
<1>4. \A s \in DOMAIN a : s <= c
  BY <1>1 DEF BookInv, PassInv, Reading
<1>5. DOMAIN a \subseteq Nat /\ c \in Nat
  BY <1>2, AccountPoints, SessionNumbers
<1> HIDE DEF a, c, r
<1>6. \A s \in DOMAIN a, t \in DOMAIN r \ DOMAIN a : s < t
  BY <1>3, <1>4, <1>5
<1>7. \A t \in DOMAIN r : t <= c
  BY <1>3, <1>4, <1>5
<1>8. GrowsTo(a, r)
  BY <1>3, <1>6, <1>7 DEF GrowsTo
<1>9. QED
  BY <1>1, <1>8 DEF a

LEMMA AccountGrows ==
  ASSUME BookInv, [Next]_vars, NEW v \in Validators, account_era'[v] = account_era[v]
  PROVE  GrowsTo(q_state[v], q_state'[v])
<1>1. AccountInv(v) /\ ReadInv
  BY DEF BookInv
<1>2. CASE q_state'[v] = q_state[v]
  BY <1>2 DEF GrowsTo
<1>3. ASSUME DOMAIN q_state[v] = {}, DOMAIN q_state'[v] = {}
      PROVE  GrowsTo(q_state[v], q_state'[v])
  BY <1>3 DEF GrowsTo
<1>4. ASSUME NEW from, Interrupted(from) PROVE GrowsTo(q_state[v], q_state'[v])
  <2>1. q_state'[v] = NoAccount /\ account_era[v] = 0
    BY <1>4 DEF Interrupted
  <2>2. DOMAIN q_state'[v] = {}
    BY <2>1 DEF NoAccount
  <2>3. DOMAIN q_state[v] = {}
    BY <1>1, <2>1 DEF AccountInv
  <2>4. QED
    BY <1>3, <2>2, <2>3
<1>5. CASE WarmupState /\ ~Interrupted("warmup")
  <2>1. /\ pc = "warmup" /\ q_state'[v] = Guess(v)
        /\ account_era'[v] = (IF Warm(v) # {} THEN era ELSE 0)
    BY <1>5 DEF WarmupState, Step
  <2>2. account_era[v] = 0 /\ DOMAIN q_state[v] = {}
    BY <1>1, <2>1 DEF ReadInv, AccountInv
  <2>3. era # 0
    BY <2>1, EraOfSession, SessionNumbers DEF BookInv, Reading
  <2>4. Warm(v) = {}
    BY <2>1, <2>2, <2>3
  <2>5. DOMAIN q_state'[v] = {}
    BY <2>1, <2>4 DEF Guess
  <2>6. QED
    BY <1>3, <2>2, <2>5
<1>6. CASE Calculate
  <2>1. CASE v \in paravalidators
    BY <1>6, <2>1, RecountGrows
  <2>2. CASE v \notin paravalidators
    BY <1>2, <1>6, <2>2 DEF Calculate
  <2>3. QED
    BY <2>1, <2>2
<1>7. CASE ReadEra \/ ReadSession \/ ReadSlot \/ ReadPoints \/ ReadSets
  BY <1>2, <1>7 DEF ReadEra, ReadSession, ReadSlot, ReadPoints, ReadSets, ledgerVars
<1>8. CASE Chain \/ Scrape \/ Restart \/ Publish \/ UNCHANGED vars
  BY <1>2, <1>8 DEF Chain, Scrape, Restart, Publish, vars, ledgerVars
<1>9. CASE ReadFail \/ Construct
  BY <1>2, <1>4, <1>9 DEF ReadFail, Construct, ledgerVars
<1>10. QED
  BY <1>4, <1>5, <1>6, <1>7, <1>8, <1>9 DEF Next, Main

(* The session points behave as the ledger says: as long as an account     *)
(* belongs to its era, nothing of it is lost, only the newest session      *)
(* grows, and a session that is opened is later than all the others; never *)
(* are there less points than none.                                        *)
THEOREM KeepsTheLedger == Spec => LedgerSpec
<1> DEFINE points(q) == [s \in DOMAIN q |-> q[s].points]
           books(q) == [v \in Validators |-> points(q[v])]
<1>1. Init => Ledger!Init
  <2> SUFFICES ASSUME Init PROVE Ledger!Init
    OBVIOUS
  <2>1. \A v \in Validators : [s \in DOMAIN q_state[v] |-> q_state[v][s].points] = [s \in {} |-> 0]
    BY DEF Init, NoAccount
  <2>2. QED
    BY <2>1 DEF Init, Ledger!Init
<1>2. BookInv /\ [Next]_vars => [Ledger!Next]_<<books(q_state), account_era>>
  <2> SUFFICES ASSUME BookInv, [Next]_vars PROVE Ledger!Next
    OBVIOUS
  <2> SUFFICES ASSUME NEW v \in Validators
               PROVE  /\ \A s \in DOMAIN books(q_state')[v] : books(q_state')[v][s] >= 0
                      /\ account_era'[v] = account_era[v] =>
                           Ledger!Grows(books(q_state)[v], books(q_state')[v])
    BY DEF Ledger!Next
  <2>1. AccountInv(v)'
    BY BookStep DEF BookInv
  <2>2. \A s \in DOMAIN q_state'[v] : q_state'[v][s].points >= 0
    BY <2>1 DEF AccountInv
  <2>3. account_era'[v] = account_era[v] => GrowsTo(q_state[v], q_state'[v])
    BY AccountGrows
  <2>4. \A q, r : GrowsTo(q, r) => Ledger!Grows(points(q), points(r))
    BY DEF GrowsTo, Ledger!Grows
  <2>5. \A q : books(q)[v] = points(q[v])
    OBVIOUS
  <2> HIDE DEF books
  <2>6. \A s \in DOMAIN points(q_state'[v]) : points(q_state'[v])[s] >= 0
    BY <2>2
  <2> HIDE DEF points
  <2>7. account_era'[v] = account_era[v] =>
          Ledger!Grows(books(q_state)[v], books(q_state')[v])
    BY <2>3, <2>4, <2>5
  <2>8. QED
    BY <2>5, <2>6, <2>7
<1>3. QED
  BY <1>1, <1>2, BookInvariant, PTL DEF Spec, LedgerSpec, Ledger!Spec
=============================================================================
