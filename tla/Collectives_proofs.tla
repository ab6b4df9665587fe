------------------------ MODULE Collectives_proofs ------------------------
(***************************************************************************)
(* A team at work, for any number of processes, any place of the root, any *)
(* buffer and any number of calls.                                         *)
(***************************************************************************)
EXTENDS Collectives, FiniteSetTheorems, WellFoundedInduction, TLAPS

-----------------------------------------------------------------------------
(* Sums over finite sets *)

NatLess == {ss \in Nat \X Nat : ss[1] < ss[2]}

\* The order of the natural numbers is well-founded.
LEMMA NatLessWF == IsWellFoundedOn(NatLess, Nat)
  BY NatLessThanWellFounded DEF OpToRel, NatLess

\* A set of natural numbers has a least member.
LEMMA Least ==
  ASSUME NEW T, T \subseteq Nat, T # {}
  PROVE  \E n \in T : \A m \in T : n <= m
<1>1. PICK n \in T : \A m \in T : ~(<<m, n>> \in NatLess)
  BY NatLessWF, WFMin
<1> SUFFICES ASSUME NEW m \in T PROVE n <= m
  BY <1>1
<1>2. m \in Nat /\ n \in Nat /\ ~(<<m, n>> \in NatLess)
  BY <1>1
<1>3. <<m, n>> \in Nat \X Nat /\ <<m, n>>[1] = m /\ <<m, n>>[2] = n
  BY <1>2
<1>4. ~(m < n)
  BY <1>2, <1>3 DEF NatLess
<1> QED BY <1>2, <1>4

\* The predecessor of the least member is not in the set.
LEMMA Before ==
  ASSUME NEW T, T \subseteq Nat, NEW n \in T, \A m \in T : n <= m
  PROVE  n - 1 \notin T
  OBVIOUS

Pick(s) == CHOOSE x \in s : TRUE

\* it is the function a sum of f over S is defined by, on the sets in D.
Sums(it, D, f) ==
  it = [s \in D |-> IF s = {} THEN 0 ELSE f[Pick(s)] + it[s \ {Pick(s)}]]

\* Taking a member away.
LEMMA PickOne ==
  ASSUME NEW S, IsFiniteSet(S), NEW s \in SUBSET S, s # {}
  PROVE  /\ Pick(s) \in s /\ Pick(s) \in S /\ s \ {Pick(s)} \in SUBSET S
         /\ IsFiniteSet(s) /\ Cardinality(s) \in Nat \ {0}
         /\ Cardinality(s \ {Pick(s)}) = Cardinality(s) - 1
<1>1. Pick(s) \in s
  BY DEF Pick
<1>2. IsFiniteSet(s)
  BY FS_Subset
<1>3. Cardinality(s) \in Nat /\ Cardinality(s) # 0
  BY <1>2, FS_CardinalityType, FS_EmptySet
<1>4. Cardinality(s \ {Pick(s)}) = Cardinality(s) - 1
  BY <1>1, <1>2, FS_RemoveElement
<1> QED BY <1>1, <1>2, <1>3, <1>4

\* There is such a function.
LEMMA SumExists ==
  ASSUME NEW S, IsFiniteSet(S), NEW f
  PROVE  \E it : Sums(it, SUBSET S, f)
<1> DEFINE Layer(n) == {s \in SUBSET S : Cardinality(s) <= n}
           T == {n \in Nat : ~\E it : Sums(it, Layer(n), f)}
<1>1. \A s \in SUBSET S : Cardinality(s) \in Nat
  BY FS_Subset, FS_CardinalityType
<1>2. T = {}
  <2> SUFFICES ASSUME T # {} PROVE FALSE
    OBVIOUS
  <2>1. PICK n \in T : \A m \in T : n <= m
    BY Least
  <2>2. CASE n = 0
    <3> DEFINE it == [s \in Layer(0) |-> 0]
    <3>1. \A s \in Layer(0) : s = {}
      <4> SUFFICES ASSUME NEW s \in Layer(0), s # {} PROVE FALSE
        OBVIOUS
      <4>1. Cardinality(s) \in Nat \ {0}
        BY PickOne
      <4> QED BY <4>1
    <3>2. it = [s \in Layer(0) |-> IF s = {} THEN 0 ELSE f[Pick(s)] + it[s \ {Pick(s)}]]
      BY <3>1
    <3>3. Sums(it, Layer(0), f)
      BY <3>2 DEF Sums
    <3> QED BY <2>2, <3>3
  <2>3. CASE n # 0
    <3>1. n - 1 \in Nat /\ n \in Nat
      BY <2>1, <2>3
    <3>0. n - 1 \notin T
      <4>1. T \subseteq Nat
        OBVIOUS
      <4> HIDE DEF T
      <4> QED BY <2>1, <4>1, Before
    <3>2. PICK g : Sums(g, Layer(n - 1), f)
      BY <3>1, <3>0
    <3> HIDE DEF T
    <3> DEFINE it == [s \in Layer(n) |-> IF s = {} THEN 0 ELSE f[Pick(s)] + g[s \ {Pick(s)}]]
    <3>3. ASSUME NEW s \in Layer(n), s # {}
          PROVE  s \ {Pick(s)} \in Layer(n - 1) /\ s \ {Pick(s)} \in Layer(n)
      <4>1. /\ s \ {Pick(s)} \in SUBSET S /\ Cardinality(s) \in Nat \ {0}
            /\ Cardinality(s \ {Pick(s)}) = Cardinality(s) - 1 /\ Cardinality(s) <= n
        BY <3>3, PickOne
      <4> QED BY <3>1, <4>1
    <3>4. ASSUME NEW s \in Layer(n - 1) PROVE g[s] = it[s]
      <4>1. s \in Layer(n)
        BY <1>1, <3>1
      <4>2. g[s] = IF s = {} THEN 0 ELSE f[Pick(s)] + g[s \ {Pick(s)}]
        BY <3>2 DEF Sums
      <4> QED BY <4>1, <4>2
    <3>5. \A s \in Layer(n) : it[s] = IF s = {} THEN 0 ELSE f[Pick(s)] + it[s \ {Pick(s)}]
      BY <3>3, <3>4
    <3>6. Sums(it, Layer(n), f)
      <4> HIDE DEF Layer
      <4>1. it = [s \in Layer(n) |-> it[s]]
        OBVIOUS
      <4> QED BY <3>5, <4>1 DEF Sums
    <3> QED BY <2>1, <3>6 DEF T
  <2> QED BY <2>2, <2>3
<1>3. Cardinality(S) \in Nat
  BY FS_CardinalityType
<1>4. Layer(Cardinality(S)) = SUBSET S
  <2>1. \A s \in SUBSET S : Cardinality(s) <= Cardinality(S)
    BY FS_Subset
  <2> QED BY <2>1
<1>5. \E it : Sums(it, Layer(Cardinality(S)), f)
  BY <1>2, <1>3
<1> QED BY <1>4, <1>5

\* Its values are natural numbers.
LEMMA SumNat ==
  ASSUME NEW S, IsFiniteSet(S), NEW f, \A x \in S : f[x] \in Nat,
         NEW it, Sums(it, SUBSET S, f)
  PROVE  \A s \in SUBSET S : it[s] \in Nat
<1> DEFINE T == {n \in Nat : \E s \in SUBSET S : Cardinality(s) = n /\ it[s] \notin Nat}
<1>1. T = {}
  <2> SUFFICES ASSUME T # {} PROVE FALSE
    OBVIOUS
  <2>1. PICK n \in T : \A m \in T : n <= m
    BY Least
  <2>2. PICK s \in SUBSET S : Cardinality(s) = n /\ it[s] \notin Nat
    BY <2>1
  <2>3. it[s] = IF s = {} THEN 0 ELSE f[Pick(s)] + it[s \ {Pick(s)}]
    BY DEF Sums
  <2>4. s # {}
    BY <2>2, <2>3
  <2>5. /\ Pick(s) \in S /\ s \ {Pick(s)} \in SUBSET S /\ n \in Nat \ {0}
        /\ Cardinality(s \ {Pick(s)}) = n - 1
    BY <2>2, <2>4, PickOne
  <2>6. n - 1 \notin T
    <3>1. T \subseteq Nat
      OBVIOUS
    <3> HIDE DEF T
    <3> QED BY <2>1, <3>1, Before
  <2>7. it[s \ {Pick(s)}] \in Nat
    BY <2>5, <2>6
  <2>8. f[Pick(s)] \in Nat
    BY <2>5
  <2> QED BY <2>2, <2>3, <2>4, <2>7, <2>8
<1> SUFFICES ASSUME NEW s \in SUBSET S, it[s] \notin Nat PROVE FALSE
  OBVIOUS
<1>2. Cardinality(s) \in Nat
  BY FS_Subset, FS_CardinalityType
<1> QED BY <1>1, <1>2

\* Terms that are a, or a + 1 for the members of B.
Terms(f, S, a, B) == \A x \in S : (x \in B => f[x] = a + 1) /\ (x \notin B => f[x] = a)

\* The sum of such terms.
LEMMA SumIs ==
  ASSUME NEW S, IsFiniteSet(S), NEW f, NEW a \in Nat, NEW B,
         Terms(f, S, a, B), NEW it, Sums(it, SUBSET S, f)
  PROVE  \A s \in SUBSET S : it[s] = a * Cardinality(s) + Cardinality(s \cap B)
<1> DEFINE V(s) == a * Cardinality(s) + Cardinality(s \cap B)
           T == {n \in Nat : \E s \in SUBSET S : Cardinality(s) = n /\ it[s] # V(s)}
<1>1. T = {}
  <2> SUFFICES ASSUME T # {} PROVE FALSE
    OBVIOUS
  <2>1. PICK n \in T : \A m \in T : n <= m
    BY Least
  <2>2. PICK s \in SUBSET S : Cardinality(s) = n /\ it[s] # V(s)
    BY <2>1
  <2>3. it[s] = IF s = {} THEN 0 ELSE f[Pick(s)] + it[s \ {Pick(s)}]
    BY DEF Sums
  <2>4. s # {}
    <3> SUFFICES ASSUME s = {} PROVE FALSE
      OBVIOUS
    <3>1. Cardinality(s) = 0 /\ s \cap B = {}
      BY FS_EmptySet
    <3>2. V(s) = 0
      BY <3>1, FS_EmptySet
    <3> QED BY <2>2, <2>3, <3>2
  <2> DEFINE c == Pick(s)
             r == s \ {c}
  <2>5. /\ c \in s /\ c \in S /\ r \in SUBSET S /\ n \in Nat \ {0} /\ IsFiniteSet(s)
        /\ Cardinality(r) = n - 1
    BY <2>2, <2>4, PickOne
  <2>6. n - 1 \notin T
    <3>1. T \subseteq Nat
      OBVIOUS
    <3> HIDE DEF T
    <3> QED BY <2>1, <3>1, Before
  <2>7. it[r] = V(r)
    <3>1. r \in SUBSET S /\ Cardinality(r) = n - 1 /\ n - 1 \in Nat
      BY <2>5
    <3> HIDE DEF r, V
    <3> QED BY <2>6, <3>1
  <2>8. it[s] = f[c] + V(r)
    BY <2>3, <2>4, <2>7
  <2>9. IsFiniteSet(s \cap B) /\ IsFiniteSet(r \cap B)
    BY <2>5, FS_Subset
  <2>10. Cardinality(s \cap B) \in Nat /\ Cardinality(r \cap B) \in Nat
    BY <2>9, FS_CardinalityType
  <2>11. a * (n - 1) + a = a * n /\ a * n \in Nat /\ a * (n - 1) \in Nat
    BY <2>5
  <2>12. Cardinality(s \cap B) = Cardinality(r \cap B) + (IF c \in B THEN 1 ELSE 0)
    <3>1. CASE c \in B
      <4>1. c \in s \cap B /\ r \cap B = (s \cap B) \ {c}
        BY <2>5, <3>1
      <4>3. \A Z : IsFiniteSet(Z) /\ c \in Z => Cardinality(Z \ {c}) = Cardinality(Z) - 1
        BY FS_RemoveElement
      <4>2. Cardinality(r \cap B) = Cardinality(s \cap B) - 1
        BY <2>9, <4>1, <4>3
      <4> QED BY <2>10, <3>1, <4>2
    <3>2. CASE c \notin B
      <4>1. r \cap B = s \cap B
        BY <3>2
      <4>2. Cardinality(s \cap B) = Cardinality(r \cap B)
        BY <4>1
      <4>3. (IF c \in B THEN 1 ELSE 0) = 0
        BY <3>2
      <4> QED BY <2>10, <4>2, <4>3
    <3> QED BY <3>1, <3>2
  <2>13. f[c] = IF c \in B THEN a + 1 ELSE a
    BY <2>5 DEF Terms
  <2> HIDE DEF c, r
  <2>14. V(s) = a * n + Cardinality(s \cap B) /\ V(r) = a * (n - 1) + Cardinality(r \cap B)
    BY <2>2, <2>5
  <2>15. V(s) = f[c] + V(r)
    BY <2>10, <2>11, <2>12, <2>13, <2>14
  <2> QED BY <2>2, <2>8, <2>15
<1> SUFFICES ASSUME NEW s \in SUBSET S, it[s] # V(s) PROVE FALSE
  OBVIOUS
<1>2. Cardinality(s) \in Nat
  BY FS_Subset, FS_CardinalityType
<1> QED BY <1>1, <1>2

-----------------------------------------------------------------------------
(* Sizes of messages and places in a buffer *)

PieceRec == [src : Slot, round : Nat, off : Nat, len : Nat]

\* The size of a message is a sum.
LEMMA SizeSum ==
  ASSUME NEW data, IsFiniteSet(DOMAIN data)
  PROVE  \E it : /\ Sums(it, SUBSET DOMAIN data, [j \in DOMAIN data |-> data[j].len])
                 /\ Size(data) = it[DOMAIN data]
<1> DEFINE S == DOMAIN data
           f == [j \in S |-> data[j].len]
           Q(it) == it = [s \in SUBSET S |-> IF s = {} THEN 0
                                    ELSE data[Pick(s)].len + it[s \ {Pick(s)}]]
<1>1. Size(data) = (CHOOSE it : Q(it))[S]
  BY DEF Size, MapThenSumSet, MapThenFoldSet, Pick
<1>2. \A s \in SUBSET S : s # {} => f[Pick(s)] = data[Pick(s)].len
  BY DEF Pick
<1>3. ASSUME NEW it PROVE Sums(it, SUBSET S, f) <=> Q(it)
  <2>1. [s \in SUBSET S |-> IF s = {} THEN 0 ELSE f[Pick(s)] + it[s \ {Pick(s)}]]
          = [s \in SUBSET S |-> IF s = {} THEN 0 ELSE data[Pick(s)].len + it[s \ {Pick(s)}]]
    BY <1>2
  <2> QED BY <2>1 DEF Sums
<1>4. \E it : Sums(it, SUBSET S, f)
  BY SumExists
<1>5. \E it : Q(it)
  BY <1>3, <1>4
<1>6. Q(CHOOSE it : Q(it))
  <2> HIDE DEF Q
  <2> QED BY <1>5
<1> HIDE DEF Q
<1> QED BY <1>1, <1>3, <1>6

\* Sizes are natural numbers, and a message without data has none.
LEMMA SizeNat ==
  ASSUME NEW data \in Seq(PieceRec)
  PROVE  Size(data) \in Nat /\ (data = <<>> => Size(data) = 0)
<1> DEFINE S == DOMAIN data
           f == [j \in S |-> data[j].len]
<1>1. S = 1 .. Len(data) /\ Len(data) \in Nat
  OBVIOUS
<1>2. IsFiniteSet(S)
  BY <1>1, FS_Interval
<1>3. \A j \in S : f[j] \in Nat
  <2> SUFFICES ASSUME NEW j \in S PROVE data[j].len \in Nat
    OBVIOUS
  <2>1. data[j] \in PieceRec
    BY <1>1
  <2> QED BY <2>1 DEF PieceRec
<1>4. PICK it : Sums(it, SUBSET S, f) /\ Size(data) = it[S]
  BY <1>2, SizeSum
<1> HIDE DEF f
<1>5. \A s \in SUBSET S : it[s] \in Nat
  BY <1>2, <1>3, <1>4, SumNat
<1>6. it[{}] = 0
  BY <1>4 DEF Sums
<1>7. data = <<>> => S = {}
  BY <1>1
<1> QED BY <1>4, <1>5, <1>6, <1>7

\* The size of a message whose first b pieces are longer by one.
LEMMA SizeIs ==
  ASSUME NEW data, NEW n \in Nat, DOMAIN data = 1 .. n, NEW a \in Nat, NEW b \in 0 .. n,
         \A j \in 1 .. n : data[j].len = IF j <= b THEN a + 1 ELSE a
  PROVE  Size(data) = a * n + b
<1> DEFINE S == DOMAIN data
           f == [j \in S |-> data[j].len]
<1>1. IsFiniteSet(S) /\ Cardinality(S) = n
  BY FS_Interval
<1>2. PICK it : Sums(it, SUBSET S, f) /\ Size(data) = it[S]
  BY <1>1, SizeSum
<1>3. \A x \in S : f[x] = IF x \in 1 .. b THEN a + 1 ELSE a
  OBVIOUS
<1>4. S \cap (1 .. b) = 1 .. b
  OBVIOUS
<1>5. Cardinality(1 .. b) = b
  BY FS_Interval
<1> HIDE DEF f
<1>6. it[S] = a * Cardinality(S) + Cardinality(S \cap (1 .. b))
  <2>1. S \in SUBSET S
    OBVIOUS
  <2> DEFINE B == 1 .. b
  <2>2. Terms(f, S, a, B)
    BY <1>3 DEF Terms
  <2> HIDE DEF S, B
  <2>4. IsFiniteSet(S) /\ Sums(it, SUBSET S, f)
    BY <1>1, <1>2
  <2>3. \A s \in SUBSET S : it[s] = a * Cardinality(s) + Cardinality(s \cap B)
    BY ONLY <2>2, <2>4, SumIs, a \in Nat
  <2> QED BY <2>1, <2>3 DEF B
<1> QED BY <1>1, <1>2, <1>4, <1>5, <1>6

\* A message of one piece.
LEMMA SizeOne ==
  ASSUME NEW x, x.len \in Nat
  PROVE  Size(<<x>>) = x.len
<1> DEFINE data == <<x>>
<1>1. DOMAIN data = 1 .. 1 /\ \A j \in 1 .. 1 : data[j].len = IF j <= 0 THEN x.len + 1 ELSE x.len
  OBVIOUS
<1>2. x.len * 1 + 0 = x.len
  OBVIOUS
<1> HIDE DEF data
<1>3. Size(data) = x.len * 1 + 0
  <2> DEFINE n == 1
             b == 0
             a == x.len
  <2>1. /\ n \in Nat /\ b \in 0 .. n /\ a \in Nat /\ DOMAIN data = 1 .. n
        /\ \A j \in 1 .. n : data[j].len = IF j <= b THEN a + 1 ELSE a
    BY <1>1
  <2> HIDE DEF n, b, a
  <2>2. Size(data) = a * n + b
    BY <2>1, SizeIs
  <2> QED BY <2>2 DEF a, n, b
<1> QED BY <1>2, <1>3 DEF data

\* Euclidean division.
LEMMA DivMod ==
  ASSUME NEW a \in Nat, NEW n \in Nat \ {0}
  PROVE  a \div n \in Nat /\ a % n \in 0 .. n - 1 /\ a = n * (a \div n) + (a % n)
<1>1. a % n \in 0 .. n - 1
  OBVIOUS
<1>2. a = n * (a \div n) + (a % n)
  OBVIOUS
<1>3. a \div n \in Nat
  OBVIOUS
<1> QED BY <1>1, <1>2, <1>3

\* The numbers below n.
LEMMA Count ==
  ASSUME NEW n \in Nat
  PROVE  IsFiniteSet(0 .. n - 1) /\ Cardinality(0 .. n - 1) = n
<1>1. 0 \in Int /\ n - 1 \in Int
  OBVIOUS
<1>2. Cardinality(0 .. n - 1) = IF 0 > n - 1 THEN 0 ELSE (n - 1) - 0 + 1
  BY <1>1, FS_Interval
<1>3. IsFiniteSet(0 .. n - 1)
  BY <1>1, FS_Interval
<1>4. (IF 0 > n - 1 THEN 0 ELSE (n - 1) - 0 + 1) = n
  OBVIOUS
<1> QED BY <1>2, <1>3, <1>4

\* The parts of the buffer.
LEMMA Division ==
  ASSUME NEW d \in Nat
  PROVE  /\ d \div N \in Nat /\ d % N \in 0 .. N - 1 /\ d = (d \div N) * N + (d % N)
         /\ d >= N => d \div N >= 1
<1>1. N \in Nat /\ N > 0
  BY TeamAssumption
<1>2. d \div N \in Nat /\ d % N \in 0 .. N - 1 /\ d = N * (d \div N) + (d % N)
  BY <1>1, DivMod
<1> DEFINE q == d \div N
           r == d % N
<1> HIDE DEF q, r
<1>3. q \in Nat /\ r \in 0 .. N - 1 /\ d = N * q + r
  BY <1>2 DEF q, r
<1>5. N * q = q * N
  BY <1>1, <1>3
<1>6. d >= N => q >= 1
  <2> SUFFICES ASSUME d >= N, q = 0 PROVE FALSE
    BY <1>3
  <2>1. N * q = 0
    BY <1>1
  <2> QED BY <1>1, <1>3, <2>1
<1>4. d \div N = q /\ d % N = r
  BY DEF q, r
<1> QED BY <1>3, <1>4, <1>5, <1>6

\* A part has the size of the division, or one more.
LEMMA ShareIs ==
  ASSUME datacount \in Nat, NEW k
  PROVE  /\ Share(k) = IF k < datacount % N THEN (datacount \div N) + 1 ELSE datacount \div N
         /\ Share(k) \in Nat
         /\ datacount >= N => Share(k) >= 1
<1>1. datacount \div N \in Nat /\ (datacount >= N => datacount \div N >= 1)
  BY Division
<1> DEFINE q == datacount \div N
<1>2. q + 0 = q
  BY <1>1
<1>3. Share(k) = IF k < datacount % N THEN q + 1 ELSE q
  BY <1>2 DEF Share
<1> QED BY <1>1, <1>3

\* The displacement of a part is the place of its rank.
LEMMA OffsetIs ==
  ASSUME datacount \in Nat, NEW k \in Slot
  PROVE  Offset(k) = PlaceOf(k) /\ Offset(k) \in Nat
<1> DEFINE S == 0 .. k - 1
           f == [j \in S |-> Share(j)]
           q == datacount \div N
           r == datacount % N
           Q(it) == it = [s \in SUBSET S |-> IF s = {} THEN 0
                                    ELSE Share(Pick(s)) + it[s \ {Pick(s)}]]
<1>0. k \in Nat /\ q \in Nat /\ r \in Nat
  BY TeamAssumption, Division DEF Slot
<1>1. Offset(k) = (CHOOSE it : Q(it))[S]
  BY DEF Offset, MapThenSumSet, MapThenFoldSet, Pick
<1>2. \A s \in SUBSET S : s # {} => f[Pick(s)] = Share(Pick(s))
  BY DEF Pick
<1>3. ASSUME NEW it PROVE Sums(it, SUBSET S, f) <=> Q(it)
  <2>1. [s \in SUBSET S |-> IF s = {} THEN 0 ELSE f[Pick(s)] + it[s \ {Pick(s)}]]
          = [s \in SUBSET S |-> IF s = {} THEN 0 ELSE Share(Pick(s)) + it[s \ {Pick(s)}]]
    BY <1>2
  <2> QED BY <2>1 DEF Sums
<1>4. IsFiniteSet(S) /\ Cardinality(S) = k
  BY <1>0, Count
<1>5. \E it : Sums(it, SUBSET S, f)
  BY <1>4, SumExists
<1>6. Q(CHOOSE it : Q(it))
  <2>1. \E it : Q(it)
    BY <1>3, <1>5
  <2> HIDE DEF Q
  <2> QED BY <2>1
<1> HIDE DEF Q
<1>7. PICK it : Sums(it, SUBSET S, f) /\ Offset(k) = it[S]
  BY <1>1, <1>3, <1>6
<1> DEFINE B == {j \in S : j < r}
           m == IF k <= r THEN k ELSE r
<1>8. Terms(f, S, q, B)
  BY ShareIs DEF Terms
<1>9. S \cap B = 0 .. m - 1 /\ m \in Nat
  BY <1>0
<1>10. Cardinality(S \cap B) = m
  <2> HIDE DEF m
  <2> QED BY <1>9, Count
<1>11. it[S] = q * Cardinality(S) + Cardinality(S \cap B)
  <2>1. S \in SUBSET S
    OBVIOUS
  <2>3. IsFiniteSet(S) /\ q \in Nat /\ Terms(f, S, q, B) /\ Sums(it, SUBSET S, f)
    BY <1>0, <1>4, <1>7, <1>8
  <2> HIDE DEF S, B, f, q, m, r
  <2>2. \A s \in SUBSET S : it[s] = q * Cardinality(s) + Cardinality(s \cap B)
    BY ONLY <2>3, SumIs
  <2> QED BY <2>1, <2>2
<1>12. Min({k, r}) = m
  BY <1>0 DEF Min
<1> HIDE DEF q, r, m
<1>13. PlaceOf(k) = k * q + m
  BY <1>12 DEF PlaceOf, q, r
<1>14. k * q = q * k /\ q * k \in Nat
  BY <1>0
<1> QED BY <1>4, <1>7, <1>9, <1>10, <1>11, <1>13, <1>14

-----------------------------------------------------------------------------
(* The inductive invariant: types *)

MsgRec == {m \in [size : Nat, data : Seq(PieceRec)] : m.data = <<>> => m.size = 0}
HdRec == [in : Seq(MsgRec), wr : BOOLEAN, rd : BOOLEAN, probed : {None} \cup Nat,
          open : BOOLEAN, freed : BOOLEAN]

Down == {"BROADCAST", "SCATTER"}
Sym  == {"ALLGATHER", "ALLTOALL", "MPI_CREATE"}
Idle == {"stop", "final", "end"}

\* Where a process of a collective t can be.
FanSide(t, p) == (t = "FANIN" /\ p = Root) \/ (t = "FANOUT" /\ p # Root)
PcTy(t, p, c) ==
  /\ c = "ready" => ~FanSide(t, p)
  /\ c \in {"hold", "got", "received", "away"} => FanSide(t, p)
  /\ c = "spread" => p = Root /\ t \in Down \cup Sym \cup {"UCC_OOB"}
  /\ c = "collect" => p = Root /\ t \in Sym \cup {"GATHER", "UCC_OOB"}
  /\ c \in {"reply", "block"} => p = Root /\ t = "UCC_OOB"
  /\ c = "recv" => p # Root /\ t \in Down \cup Sym \cup {"UCC_OOB"}
  /\ c = "send" => p # Root /\ t \in Sym \cup {"GATHER", "UCC_OOB"}
  /\ c \in {"result", "sendblock"} => p # Root /\ t = "UCC_OOB"
  /\ c = "dead" => p # Root /\ t \notin Creations

PartSeq == {s \in Seq(Leaf) : Len(s) <= N - 1}
ProcRec == [pc : Pc, round : 0 .. Rounds + 1, idx : 1 .. N,
            buf : [Slot -> PieceRec] \cup Seq(PieceRec), out : Seq(PieceRec), res : Result,
            rank : {None} \cup Nat, parts : PartSeq]

ProcTy(p) ==
  /\ PcTy(type, p, proc[p].pc)
  /\ proc[p].pc \in {"collect", "reply", "block", "spread"} => proc[p].idx \in Leaf

BufTy ==
  LET x == proc[Root] IN
  /\ type = "UCC_OOB" /\ x.pc \in {"collect", "reply", "block", "spread"} =>
       x.buf \in [Slot -> PieceRec]
  /\ type \in Sym \cup {"GATHER"} /\ x.pc \in {"collect", "spread"} => x.buf \in Seq(PieceRec)
  /\ type \in Sym \cup {"GATHER"} /\ x.pc = "collect" => Len(x.buf) = x.idx
  /\ type \in Sym /\ x.pc = "spread" => Len(x.buf) = N

\* The place of the root of a fan-in among the participants.
FanTy ==
  /\ type = "FANIN" /\ proc[Root].pc \in {"hold", "got"} /\ proc[Root].parts # <<>> =>
       proc[Root].idx \in DOMAIN proc[Root].parts
  /\ type = "FANIN" /\ proc[Root].pc \in {"received", "away"} => proc[Root].idx = 1
  /\ proc[Root].pc = "got" => proc[Root].parts # <<>>

\* What FanReceive takes is there.
Probing(p) == IF p = Root THEN EndOf(Root, proc[Root].parts[proc[Root].idx]) ELSE EndOf(p, p)
GotTy(p) ==
  proc[p].pc = "got" => hd[Probing(p)].in # <<>> /\ Head(hd[Probing(p)].in).size > 0

Owner(e) == IF e[2] = "root" THEN Root ELSE e[1]

\* A handle is open until both directions are closed, or its process dies.
HandleTy(e) ==
  /\ proc[Owner(e)].pc # "dead" => /\ hd[e].freed <=> hd[e].wr /\ hd[e].rd
                                   /\ hd[e].open <=> ~(hd[e].wr /\ hd[e].rd)
  /\ proc[Owner(e)].pc = "dead" => ~hd[e].open

TInv ==
  /\ type \in Types /\ pos \in RootPositions /\ datacount \in DataCounts
  /\ proc \in [Slot -> ProcRec] /\ hd \in [End -> HdRec]
  /\ ctx \in [Slot -> {"app", "managed", "queued"}] /\ touched \in BOOLEAN
  /\ \A p \in Slot : ProcTy(p) /\ GotTy(p)
  /\ \A e \in End : HandleTy(e)
  /\ BufTy /\ FanTy

-----------------------------------------------------------------------------
(* The inductive invariant: streams *)

\* The runs of the collectives the properties speak of.
Sound == InRankOrder /\ (Healthy \/ type \notin {"ALLGATHER", "ALLTOALL"})

Active(p) == proc[p].pc \notin Idle \cup {"dead"}

\* The processes that close a stream of data when they have made all their calls.
Sender(p) ==
  CASE type \in Down \cup {"FANOUT"} -> p = Root
    [] type \in {"GATHER", "FANIN"} -> p # Root
    [] OTHER -> TRUE

\* How many messages of a fan-out of r are dealt to slot k.
Dealt(k, r) == (r + (N - 1) - k) \div (N - 1)

\* How many messages of data the owner of e has sent: the root, in round ro at
\* place i of its loop, to member k, and a member ...
RSent(t, c, ro, i, k) ==
  CASE t \in Down \cup Sym -> IF c = "collect" \/ (c = "spread" /\ i <= k) THEN ro - 1 ELSE ro
    [] t = "UCC_OOB" ->
         IF c \in {"collect", "reply", "block"}
         THEN IF k < i \/ (k = i /\ c # "collect") THEN 2 * ro - 1 ELSE 2 * ro - 2
         ELSE IF c = "spread" /\ i <= k THEN 2 * ro - 1 ELSE 2 * ro
    [] t = "FANOUT" -> Dealt(k, ro)
    [] OTHER -> 0
LSent(t, c, ro) ==
  CASE t \in Sym \cup {"GATHER"} -> IF c = "send" THEN ro - 1 ELSE ro
    [] t = "UCC_OOB" -> IF c \in {"result", "send"} THEN 2 * ro - 2
                        ELSE IF c = "sendblock" THEN 2 * ro - 1 ELSE 2 * ro
    [] t = "FANIN" -> ro
    [] OTHER -> 0
RootSent(k) == RSent(type, proc[Root].pc, proc[Root].round, proc[Root].idx, k)
LeafSent(k) == LSent(type, proc[k].pc, proc[k].round)
Sent(e) == IF e[2] = "root" THEN RootSent(e[1]) ELSE LeafSent(e[1])

\* ... and how many it has received.
RGot(t, c, ro, i, k) ==
  CASE t \in Sym \cup {"GATHER"} -> IF c = "collect" /\ i <= k THEN ro - 1 ELSE ro
    [] t = "UCC_OOB" ->
         IF c \in {"collect", "reply", "block"} /\ i <= k
         THEN IF c = "block" /\ i = k THEN 2 * ro - 1 ELSE 2 * ro - 2
         ELSE 2 * ro
    [] OTHER -> 0
LGot(t, c, ro) ==
  CASE t \in Down \cup Sym -> IF c \in {"send", "recv"} THEN ro - 1 ELSE ro
    [] t = "UCC_OOB" -> IF c = "result" THEN 2 * ro - 2
                        ELSE IF c \in {"send", "sendblock", "recv"} THEN 2 * ro - 1 ELSE 2 * ro
    [] OTHER -> 0
RootGot(k) == IF type = "FANIN" THEN Cardinality(From(Root, k))
              ELSE RGot(type, proc[Root].pc, proc[Root].round, proc[Root].idx, k)
LeafGot(k) == IF type = "FANOUT" THEN Len(proc[k].out) ELSE LGot(type, proc[k].pc, proc[k].round)
Got(e) == IF e[2] = "root" THEN RootGot(e[1]) ELSE LeafGot(e[1])

\* The data of message i to the owner of e.
UpLen(k) == CASE type \in {"GATHER", "ALLGATHER"} -> Share(k)
              [] type = "ALLTOALL" -> datacount
              [] OTHER -> 1
ToRoot(k, i) ==
  IF type = "UCC_OOB"
  THEN <<Piece(k, (i + 1) \div 2, IF i % 2 = 1 THEN RankOf(k) ELSE 0, 1)>>
  ELSE <<Piece(k, i, 0, UpLen(k))>>
ToLeaf(k, i) ==
  CASE type = "UCC_OOB" -> IF i % 2 = 1 THEN <<Piece(Root, (i + 1) \div 2, RankOf(Root), 1)>>
                           ELSE Expected(k, i \div 2)
    [] type = "FANOUT" -> <<Piece(Root, (i - 1) * (N - 1) + k, 0, 1)>>
    [] type \in Down \cup Sym -> Expected(k, i)
    [] OTHER -> <<>>
Data(e, i) == IF e[2] = "root" THEN ToRoot(e[1], i) ELSE ToLeaf(e[1], i)

\* An end of stream is the last message, and its sender has closed.
Quiet(e) == \A i \in DOMAIN hd[e].in :
  hd[e].in[i].size = 0 => i = Len(hd[e].in) /\ hd[Peer(e)].wr

\* What is on the way to a process that still reads: the messages that follow
\* those it has received, and at last the end of the stream.
Feed(e) == [i \in Int |-> Msg(Data(e, i))]
Live(e) == Active(Owner(e)) /\ ~hd[e].rd
Counted(e) == Active(Owner(Peer(e))) \/ Healthy
StreamOk(e) ==
  LET q == hd[e].in
      closed == hd[Peer(e)].wr IN
  Live(e) =>
    /\ \A i \in 1 .. Len(q) :
         \/ /\ q[i] = Feed(e)[Got(e) + i]
            /\ type \in Down \cup {"GATHER"} => Got(e) + i <= Rounds
         \/ i = Len(q) /\ closed
    /\ closed => q # <<>> /\ q[Len(q)] = EOS
    /\ Counted(e) => Got(e) + Len(q) = IF closed THEN Sent(Peer(e)) + 1 ELSE Sent(Peer(e))

\* Directions are closed in order.
CloseOk(e) ==
  /\ Active(Owner(e)) => /\ hd[e].wr => hd[e].rd
                         /\ hd[e].rd => type = "FANIN" /\ e[2] = "root"
  /\ Healthy => /\ hd[e].rd => hd[Peer(e)].wr
                /\ proc[Owner(e)].pc = "stop" /\ e \in Closes(Owner(e)) => ~hd[e].wr

\* The buffer in which the root collects.
BufOk ==
  LET x == proc[Root] IN
  /\ type \in Sym \cup {"GATHER"} /\ x.pc \in {"collect", "spread"} =>
       \A j \in DOMAIN x.buf : x.buf[j] = Piece(j - 1, x.round, 0, UpLen(j - 1))
  /\ type = "UCC_OOB" /\ x.pc \in {"collect", "reply", "block", "spread"} =>
       \A k \in Slot : k < x.idx \/ x.pc = "spread" =>
         x.buf[RankOf(k)] = Piece(k, x.round, 0, 1)
  /\ type = "UCC_OOB" /\ x.pc = "block" => x.rank = RankOf(x.idx)

ProcOk(p) ==
  LET x == proc[p] IN
  /\ x.res = "ok" /\ x.pc = "ready" => x.out = Expected(p, x.round)
  /\ x.res = "ok" => type \notin {"FANIN", "FANOUT"}
  /\ x.pc = "ready" \/ Sender(p) => x.round <= Rounds
  /\ type = "GATHER" /\ p # Root => x.out = <<>>
  /\ Healthy => /\ x.res # "error"
                /\ Sender(p) => x.pc # "stop" /\ x.res # "zero"
                /\ Sender(p) /\ x.pc \in {"final", "end"} => x.round = Rounds

\* The participants of a fan-in that have not ended.
PartsOk ==
  type = "FANIN" /\ Active(Root) =>
    LET parts == proc[Root].parts IN
    /\ \A i, j \in DOMAIN parts : parts[i] = parts[j] => i = j
    /\ \A k \in Leaf : hd[<<k, "root">>].rd <=> \A i \in DOMAIN parts : parts[i] # k

\* Fan-in and fan-out: what was received, and that it is all.
FanOk ==
  /\ type = "FANIN" => \A s \in Leaf : LET from == From(Root, s) IN
       /\ \A i \in from : proc[Root].out[i].round = Cardinality({j \in from : j <= i})
       /\ Healthy /\ (proc[Root].res = "zero" \/ (Active(Root) /\ hd[<<s, "root">>].rd)) =>
            Cardinality(from) = Rounds
  /\ type = "FANOUT" => \A p \in Leaf :
       /\ \A j \in DOMAIN proc[p].out : proc[p].out[j].round = (j - 1) * (N - 1) + p
       /\ proc[p].res = "zero" /\ Healthy => Len(proc[p].out) = Dealt(p, Rounds)
  /\ \A p \in Slot : FanSide(type, p) /\ Active(p) => proc[p].res # "zero"

\* Who reported the end of a stream knows of one.
EndOk ==
  Healthy => \A p \in Slot : proc[p].res = "zero" =>
    /\ type \in Down => hd[<<p, "leaf">>].rd
    /\ type = "GATHER" => \E k \in Leaf : hd[<<k, "root">>].rd

Conns == \A e \in End : Quiet(e) /\ StreamOk(e) /\ CloseOk(e)

SBody ==
  /\ Conns
  /\ \A p \in Slot : ProcOk(p)
  /\ BufOk /\ PartsOk /\ FanOk /\ EndOk
  /\ touched /\ Healthy => type = "FANOUT"
SInv == Sound /\ EveryPart => SBody

CInv == TInv /\ SInv

-----------------------------------------------------------------------------
(* Ends of connections *)

REnd(k) == <<k, "root">>
LEnd(k) == <<k, "leaf">>

\* The root is no member.
LEMMA Slots ==
  /\ Slot = Leaf \cup {Root} /\ Root \notin Leaf /\ N \in Nat /\ N >= 2
  /\ Leaf \subseteq Nat /\ Slot \subseteq Nat /\ 1 \in Leaf /\ N - 1 \in Leaf
  /\ \A k \in Leaf : 1 <= k /\ k <= N - 1
  BY TeamAssumption DEF Slot, Leaf, Root

\* The two ends of the connection with a member.
LEMMA EndsAt ==
  ASSUME NEW k \in Leaf
  PROVE  /\ REnd(k) \in End /\ LEnd(k) \in End /\ REnd(k) # LEnd(k)
         /\ Peer(REnd(k)) = LEnd(k) /\ Peer(LEnd(k)) = REnd(k)
         /\ Owner(REnd(k)) = Root /\ Owner(LEnd(k)) = k
         /\ EndOf(Root, k) = REnd(k)
         /\ \A j : EndOf(k, j) = LEnd(k)
         /\ REnd(k)[1] = k /\ REnd(k)[2] = "root" /\ LEnd(k)[1] = k /\ LEnd(k)[2] = "leaf"
         /\ \A j : REnd(k) # LEnd(j) /\ LEnd(k) # REnd(j)
         /\ \A j : (REnd(k) = REnd(j) => k = j) /\ (LEnd(k) = LEnd(j) => k = j)
<1>1. k # Root
  BY Slots
<1>2. REnd(k) \in End /\ LEnd(k) \in End
  BY DEF REnd, LEnd, End
<1>3. /\ REnd(k)[1] = k /\ REnd(k)[2] = "root" /\ LEnd(k)[1] = k /\ LEnd(k)[2] = "leaf"
      /\ \A j : REnd(j)[1] = j /\ REnd(j)[2] = "root" /\ LEnd(j)[1] = j /\ LEnd(j)[2] = "leaf"
  BY DEF REnd, LEnd
<1>4. Peer(REnd(k)) = LEnd(k) /\ Peer(LEnd(k)) = REnd(k)
  BY <1>3 DEF Peer, REnd, LEnd
<1>5. Owner(REnd(k)) = Root /\ Owner(LEnd(k)) = k
  BY <1>3 DEF Owner
<1>6. EndOf(Root, k) = REnd(k) /\ \A j : EndOf(k, j) = LEnd(k)
  BY <1>1 DEF EndOf, REnd, LEnd
<1>7. "root" # "leaf"
  OBVIOUS
<1>8. \A j : REnd(k) # LEnd(j) /\ LEnd(k) # REnd(j)
  BY <1>3, <1>7
<1>9. \A j : (REnd(k) = REnd(j) => k = j) /\ (LEnd(k) = LEnd(j) => k = j)
  BY <1>3
<1>10. REnd(k) # LEnd(k)
  BY <1>8
<1> QED BY <1>2, <1>3, <1>4, <1>5, <1>6, <1>8, <1>9, <1>10

\* Every end is one of them.
LEMMA EndsAll ==
  ASSUME NEW e \in End
  PROVE  \E k \in Leaf : e = REnd(k) \/ e = LEnd(k)
  BY DEF End, REnd, LEnd

\* The other end of the connection.
LEMMA PeerOf ==
  ASSUME NEW e \in End
  PROVE  /\ Peer(e) \in End /\ Peer(Peer(e)) = e /\ Peer(e) # e
         /\ Owner(e) \in Slot /\ Owner(Peer(e)) \in Slot /\ Owner(Peer(e)) # Owner(e)
<1>1. PICK k \in Leaf : e = REnd(k) \/ e = LEnd(k)
  BY EndsAll
<1>2. k # Root /\ k \in Slot /\ Root \in Slot
  BY Slots
<1>3. CASE e = REnd(k)
  BY <1>2, <1>3, EndsAt
<1>4. CASE e = LEnd(k)
  BY <1>2, <1>4, EndsAt
<1> QED BY <1>1, <1>3, <1>4

-----------------------------------------------------------------------------
(* Handles *)

\* Messages are records.
LEMMA MsgIn ==
  ASSUME NEW data \in Seq(PieceRec)
  PROVE  Msg(data) \in MsgRec /\ Msg(data).size = Size(data) /\ Msg(data).data = data
<1>1. Size(data) \in Nat /\ (data = <<>> => Size(data) = 0)
  BY SizeNat
<1>2. Msg(data) = [size |-> Size(data), data |-> data]
  BY DEF Msg
<1> QED BY <1>1, <1>2 DEF MsgRec

\* The end of a stream has no size.
LEMMA EosIn == EOS \in MsgRec /\ EOS.size = 0 /\ EOS.data = <<>>
<1> DEFINE z == <<>>
<1>1. z \in Seq(PieceRec)
  OBVIOUS
<1>2. z = <<>>
  OBVIOUS
<1> HIDE DEF z
<1>3. /\ Msg(z) \in MsgRec /\ Msg(z).size = Size(z) /\ Msg(z).data = z /\ Size(z) = 0
  BY <1>1, <1>2, MsgIn, SizeNat
<1> QED BY <1>2, <1>3 DEF EOS

\* The fields of a handle.
LEMMA HdFields ==
  ASSUME NEW h \in [End -> HdRec], NEW e \in End
  PROVE  /\ h[e].in \in Seq(MsgRec) /\ h[e].wr \in BOOLEAN /\ h[e].rd \in BOOLEAN
         /\ h[e].open \in BOOLEAN /\ h[e].freed \in BOOLEAN /\ h[e].probed \in {None} \cup Nat
<1>1. h[e] \in HdRec
  OBVIOUS
<1> QED BY <1>1 DEF HdRec

SameFlags(x, y) ==
  (x.wr <=> y.wr) /\ (x.rd <=> y.rd) /\ (x.open <=> y.open) /\ (x.freed <=> y.freed)
Shape(x) == (x.freed <=> x.wr /\ x.rd) /\ (x.open <=> ~(x.wr /\ x.rd))
Goes(x, y) == (Shape(x) => Shape(y)) /\ (x.wr => y.wr) /\ (x.rd => y.rd)
HeadKept(q, r) == q # <<>> => r # <<>> /\ Head(r) = Head(q)

\* What a step of process p may do to the handles, from h to g.
HdC(p, h, g) ==
  /\ g \in [End -> HdRec]
  /\ \A e \in End :
       /\ Owner(e) # p => SameFlags(g[e], h[e]) /\ HeadKept(h[e].in, g[e].in)
       /\ Goes(h[e], g[e])

Only(e, h, g) == g \in [End -> HdRec] /\ \A x \in End : x # e => g[x] = h[x]

\* A message is put on the way to the owner of e.
PutAt(e, m, h, g) ==
  Only(e, h, g) /\ SameFlags(g[e], h[e]) /\ g[e].in = Append(h[e].in, m)
\* The owner of e takes a message.
TookAt(e, h, g) ==
  Only(e, h, g) /\ SameFlags(g[e], h[e]) /\ g[e].in = Tail(h[e].in)
\* Nothing but what a probe has found.
ProbedAt(e, h, g) ==
  Only(e, h, g) /\ SameFlags(g[e], h[e]) /\ g[e].in = h[e].in
\* The owner of e closes it for reading.
RdAt(e, h, g) ==
  /\ Only(e, h, g) /\ g[e].in = h[e].in
  /\ g[e].rd /\ (g[e].wr <=> h[e].wr)
  /\ g[e].open <=> h[e].open /\ ~h[e].wr
  /\ g[e].freed <=> h[e].freed \/ h[e].wr
\* Its peer is told that it has been closed for writing.
Told(e, h, g) ==
  /\ SameFlags(g[Peer(e)], h[Peer(e)])
  /\ ~h[e].wr /\ h[Peer(e)].open => g[Peer(e)].in = Append(h[Peer(e)].in, EOS)
  /\ h[e].wr \/ ~h[Peer(e)].open => g[Peer(e)].in = h[Peer(e)].in
\* It closes it for writing.
WrAt(e, h, g) ==
  /\ g \in [End -> HdRec] /\ \A x \in End : x # e /\ x # Peer(e) => g[x] = h[x]
  /\ Told(e, h, g) /\ g[e].in = h[e].in
  /\ g[e].wr /\ (g[e].rd <=> h[e].rd)
  /\ g[e].open <=> h[e].open /\ ~h[e].rd
  /\ g[e].freed <=> h[e].freed \/ h[e].rd
\* It closes it.
BothAt(e, h, g) ==
  /\ g \in [End -> HdRec] /\ \A x \in End : x # e /\ x # Peer(e) => g[x] = h[x]
  /\ Told(e, h, g) /\ g[e].in = h[e].in
  /\ g[e].wr /\ g[e].rd /\ ~g[e].open /\ g[e].freed

\* A handle is replaced.
LEMMA HdExcept ==
  ASSUME NEW h \in [End -> HdRec], NEW e \in End, NEW r \in HdRec
  PROVE  Only(e, h, [h EXCEPT ![e] = r]) /\ [h EXCEPT ![e] = r][e] = r
  BY DEF Only

\* Send.
LEMMA Put ==
  ASSUME NEW h \in [End -> HdRec], NEW e \in End, NEW m \in MsgRec
  PROVE  PutAt(e, m, h, [h EXCEPT ![e].in = Append(@, m)])
<1> DEFINE r == [h[e] EXCEPT !.in = Append(h[e].in, m)]
<1>1. h[e] \in HdRec /\ h[e].in \in Seq(MsgRec)
  BY HdFields
<1> DEFINE q == Append(h[e].in, m)
<1>4. q \in Seq(MsgRec)
  BY <1>1
<1> HIDE DEF q
<1>5. r = [h[e] EXCEPT !.in = q]
  BY DEF q
<1>6. r \in HdRec /\ r.in = q /\ SameFlags(r, h[e])
  BY <1>1, <1>4, <1>5 DEF HdRec, SameFlags
<1>2. r \in HdRec /\ r.in = Append(h[e].in, m) /\ SameFlags(r, h[e])
  BY <1>6 DEF q
<1>3. [h EXCEPT ![e].in = Append(@, m)] = [h EXCEPT ![e] = r]
  OBVIOUS
<1> HIDE DEF r
<1> QED BY <1>2, <1>3, HdExcept DEF PutAt

\* Receive.
LEMMA Took ==
  ASSUME NEW h \in [End -> HdRec], NEW e \in End, h[e].in # <<>>
  PROVE  TookAt(e, h, [h EXCEPT ![e].in = Tail(@)])
<1> DEFINE r == [h[e] EXCEPT !.in = Tail(h[e].in)]
<1>1. h[e] \in HdRec /\ h[e].in \in Seq(MsgRec)
  BY HdFields
<1> DEFINE q == Tail(h[e].in)
<1>5. q \in Seq(MsgRec)
  BY <1>1
<1> HIDE DEF q
<1>6. r = [h[e] EXCEPT !.in = q]
  BY DEF q
<1>7. r \in HdRec /\ r.in = q /\ SameFlags(r, h[e])
  BY <1>1, <1>5, <1>6 DEF HdRec, SameFlags
<1>2. r \in HdRec /\ r.in = Tail(h[e].in) /\ SameFlags(r, h[e])
  BY <1>7 DEF q
<1>3. [h EXCEPT ![e].in = Tail(@)] = [h EXCEPT ![e] = r]
  OBVIOUS
<1> HIDE DEF r
<1> QED BY <1>2, <1>3, HdExcept DEF TookAt

\* Receive what was probed.
LEMMA TookProbed ==
  ASSUME NEW h \in [End -> HdRec], NEW e \in End, h[e].in # <<>>, NEW n \in {None} \cup Nat
  PROVE  /\ TookAt(e, h, [h EXCEPT ![e].in = Tail(@), ![e].probed = n])
         /\ TookAt(e, h, [h EXCEPT ![e].probed = n, ![e].in = Tail(@)])
<1> DEFINE r == [h[e] EXCEPT !.in = Tail(h[e].in), !.probed = n]
<1>1. h[e] \in HdRec /\ h[e].in \in Seq(MsgRec)
  BY HdFields
<1> DEFINE q == Tail(h[e].in)
<1>5. q \in Seq(MsgRec)
  BY <1>1
<1> HIDE DEF q
<1>6. r = [h[e] EXCEPT !.in = q, !.probed = n]
  BY DEF q
<1>7. r \in HdRec /\ r.in = q /\ SameFlags(r, h[e])
  BY <1>1, <1>5, <1>6 DEF HdRec, SameFlags
<1>2. r \in HdRec /\ r.in = Tail(h[e].in) /\ SameFlags(r, h[e])
  BY <1>7 DEF q
<1>3. [h EXCEPT ![e].in = Tail(@), ![e].probed = n] = [h EXCEPT ![e] = r]
  OBVIOUS
<1>4. [h EXCEPT ![e].probed = n, ![e].in = Tail(@)] = [h EXCEPT ![e] = r]
  BY <1>1 DEF HdRec
<1> HIDE DEF r
<1> QED BY <1>2, <1>3, <1>4, HdExcept DEF TookAt

\* Probe.
LEMMA ProbedIs ==
  ASSUME NEW h \in [End -> HdRec], NEW e \in End, NEW n \in {None} \cup Nat
  PROVE  ProbedAt(e, h, [h EXCEPT ![e].probed = n])
<1> DEFINE r == [h[e] EXCEPT !.probed = n]
<1>1. h[e] \in HdRec
  BY HdFields
<1>2. r \in HdRec /\ r.in = h[e].in /\ SameFlags(r, h[e])
  BY <1>1 DEF HdRec, SameFlags
<1>3. [h EXCEPT ![e].probed = n] = [h EXCEPT ![e] = r]
  OBVIOUS
<1> HIDE DEF r
<1> QED BY <1>2, <1>3, HdExcept DEF ProbedAt

\* close(true, false).
LEMMA ClosedWr ==
  ASSUME NEW h \in [End -> HdRec], NEW e \in End
  PROVE  WrAt(e, h, Closed(h, e, TRUE, FALSE))
<1> DEFINE g == Closed(h, e, TRUE, FALSE)
           both == (h[e].wr \/ TRUE) /\ (h[e].rd \/ FALSE)
           q == IF TRUE /\ ~h[e].wr /\ h[Peer(e)].open THEN Append(h[Peer(e)].in, EOS) ELSE h[Peer(e)].in
           s == [h[Peer(e)] EXCEPT !.in = q]
           r == [h[e] EXCEPT !.wr = @ \/ TRUE, !.rd = @ \/ FALSE, !.open = @ /\ ~both, !.freed = @ \/ both]
<1>1. Peer(e) \in End /\ Peer(e) # e
  BY PeerOf
<1>2. h[e] \in HdRec /\ h[Peer(e)] \in HdRec
  BY <1>1
<1>3. h[Peer(e)].in \in Seq(MsgRec)
  BY <1>1, HdFields
<1>4. q \in Seq(MsgRec)
  BY <1>3, EosIn
<1>5. g = [[h EXCEPT ![Peer(e)] = s] EXCEPT ![e] = r]
  BY Zenon, <1>1, <1>2 DEF Closed, HdRec
<1> HIDE DEF q
<1>6. s \in HdRec /\ s.in = q /\ SameFlags(s, h[Peer(e)])
  BY <1>2, <1>4 DEF HdRec, SameFlags
<1>7. /\ r.in = h[e].in /\ r.probed = h[e].probed
      /\ r.wr <=> h[e].wr \/ TRUE
      /\ r.rd <=> h[e].rd \/ FALSE
      /\ r.open <=> h[e].open /\ ~both
      /\ r.freed <=> h[e].freed \/ both
  BY <1>2 DEF HdRec
<1>8. r \in HdRec
  BY Zenon, <1>2 DEF HdRec
<1>9. /\ g \in [End -> HdRec] /\ g[e] = r /\ g[Peer(e)] = s
      /\ \A x \in End : x # e /\ x # Peer(e) => g[x] = h[x]
  <2> HIDE DEF g, r, s
  <2> QED BY <1>1, <1>5, <1>6, <1>8
<1>10. Told(e, h, g)
  BY <1>1, <1>6, <1>9 DEF Told, q
<1> HIDE DEF g, r, s
<1>13. WrAt(e, h, g)
  BY <1>7, <1>9, <1>10 DEF WrAt
<1> QED BY <1>13 DEF g

\* close(false, true).
LEMMA ClosedRd ==
  ASSUME NEW h \in [End -> HdRec], NEW e \in End
  PROVE  RdAt(e, h, Closed(h, e, FALSE, TRUE))
<1> DEFINE g == Closed(h, e, FALSE, TRUE)
           both == (h[e].wr \/ FALSE) /\ (h[e].rd \/ TRUE)
           q == IF FALSE /\ ~h[e].wr /\ h[Peer(e)].open THEN Append(h[Peer(e)].in, EOS) ELSE h[Peer(e)].in
           s == [h[Peer(e)] EXCEPT !.in = q]
           r == [h[e] EXCEPT !.wr = @ \/ FALSE, !.rd = @ \/ TRUE, !.open = @ /\ ~both, !.freed = @ \/ both]
<1>1. Peer(e) \in End /\ Peer(e) # e
  BY PeerOf
<1>2. h[e] \in HdRec /\ h[Peer(e)] \in HdRec
  BY <1>1
<1>3. h[Peer(e)].in \in Seq(MsgRec)
  BY <1>1, HdFields
<1>4. q \in Seq(MsgRec)
  BY <1>3, EosIn
<1>5. g = [[h EXCEPT ![Peer(e)] = s] EXCEPT ![e] = r]
  BY <1>1, <1>2 DEF Closed, HdRec
<1> HIDE DEF q
<1>6. s \in HdRec /\ s.in = q /\ SameFlags(s, h[Peer(e)])
  BY <1>2, <1>4 DEF HdRec, SameFlags
<1>7. /\ r.in = h[e].in /\ r.probed = h[e].probed
      /\ r.wr <=> h[e].wr \/ FALSE
      /\ r.rd <=> h[e].rd \/ TRUE
      /\ r.open <=> h[e].open /\ ~both
      /\ r.freed <=> h[e].freed \/ both
  BY <1>2 DEF HdRec
<1>8. r \in HdRec
  BY Zenon, <1>2 DEF HdRec
<1>9. /\ g \in [End -> HdRec] /\ g[e] = r /\ g[Peer(e)] = s
      /\ \A x \in End : x # e /\ x # Peer(e) => g[x] = h[x]
  <2> HIDE DEF g, r, s
  <2> QED BY <1>1, <1>5, <1>6, <1>8
<1>10. q = h[Peer(e)].in
  BY DEF q
<1>11. s = h[Peer(e)]
  BY <1>2, <1>10 DEF HdRec
<1> HIDE DEF g, r, s
<1>12. Only(e, h, g)
  BY <1>9, <1>11 DEF Only
<1>13. RdAt(e, h, g)
  BY <1>7, <1>9, <1>12 DEF RdAt
<1> QED BY <1>13 DEF g

\* close(true, true).
LEMMA ClosedBoth ==
  ASSUME NEW h \in [End -> HdRec], NEW e \in End
  PROVE  BothAt(e, h, Closed(h, e, TRUE, TRUE))
<1> DEFINE g == Closed(h, e, TRUE, TRUE)
           both == (h[e].wr \/ TRUE) /\ (h[e].rd \/ TRUE)
           q == IF TRUE /\ ~h[e].wr /\ h[Peer(e)].open THEN Append(h[Peer(e)].in, EOS) ELSE h[Peer(e)].in
           s == [h[Peer(e)] EXCEPT !.in = q]
           r == [h[e] EXCEPT !.wr = @ \/ TRUE, !.rd = @ \/ TRUE, !.open = @ /\ ~both, !.freed = @ \/ both]
<1>1. Peer(e) \in End /\ Peer(e) # e
  BY PeerOf
<1>2. h[e] \in HdRec /\ h[Peer(e)] \in HdRec
  BY <1>1
<1>3. h[Peer(e)].in \in Seq(MsgRec)
  BY <1>1, HdFields
<1>4. q \in Seq(MsgRec)
  BY <1>3, EosIn
<1>5. g = [[h EXCEPT ![Peer(e)] = s] EXCEPT ![e] = r]
  BY <1>1, <1>2 DEF Closed, HdRec
<1> HIDE DEF q
<1>6. s \in HdRec /\ s.in = q /\ SameFlags(s, h[Peer(e)])
  BY <1>2, <1>4 DEF HdRec, SameFlags
<1>7. /\ r.in = h[e].in /\ r.probed = h[e].probed
      /\ r.wr <=> h[e].wr \/ TRUE
      /\ r.rd <=> h[e].rd \/ TRUE
      /\ r.open <=> h[e].open /\ ~both
      /\ r.freed <=> h[e].freed \/ both
  BY <1>2 DEF HdRec
<1>8. r \in HdRec
  BY <1>2 DEF HdRec
<1>9. /\ g \in [End -> HdRec] /\ g[e] = r /\ g[Peer(e)] = s
      /\ \A x \in End : x # e /\ x # Peer(e) => g[x] = h[x]
  <2> HIDE DEF g, r, s
  <2> QED BY <1>1, <1>5, <1>6, <1>8
<1>10. Told(e, h, g)
  BY <1>1, <1>6, <1>9 DEF Told, q
<1> HIDE DEF g, r, s
<1>13. BothAt(e, h, g)
  BY <1>7, <1>9, <1>10 DEF BothAt
<1> QED BY <1>13 DEF g

\* What they do is what a step of the owner may do.
LEMMA StepsC ==
  ASSUME NEW h \in [End -> HdRec], NEW e \in End, NEW g, NEW p
  PROVE  /\ HdC(p, h, h)
         /\ \A m \in MsgRec : PutAt(e, m, h, g) => HdC(p, h, g)
         /\ Owner(e) = p /\ TookAt(e, h, g) => HdC(p, h, g)
         /\ ProbedAt(e, h, g) => HdC(p, h, g)
         /\ Owner(e) = p /\ RdAt(e, h, g) => HdC(p, h, g)
<1>1. HdC(p, h, h)
  BY DEF HdC, SameFlags, HeadKept, Goes
<1>2. ASSUME NEW m \in MsgRec, PutAt(e, m, h, g) PROVE HdC(p, h, g)
  <2>1. h[e].in \in Seq(MsgRec)
    BY HdFields
  <2>2. HeadKept(h[e].in, g[e].in)
    BY <1>2, <2>1 DEF PutAt, HeadKept
  <2>3. SameFlags(g[e], h[e]) /\ g \in [End -> HdRec] /\ \A x \in End : x # e => g[x] = h[x]
    BY <1>2 DEF PutAt, Only
  <2>4. ASSUME NEW x \in End
        PROVE  SameFlags(g[x], h[x]) /\ HeadKept(h[x].in, g[x].in) /\ Goes(h[x], g[x])
    BY <2>2, <2>3 DEF SameFlags, HeadKept, Shape, Goes
  <2> QED BY <2>3, <2>4 DEF HdC
<1>3. ASSUME Owner(e) = p, TookAt(e, h, g) PROVE HdC(p, h, g)
  <2>3. SameFlags(g[e], h[e]) /\ g \in [End -> HdRec] /\ \A x \in End : x # e => g[x] = h[x]
    BY <1>3 DEF TookAt, Only
  <2>4. ASSUME NEW x \in End
        PROVE  /\ x # e => SameFlags(g[x], h[x]) /\ HeadKept(h[x].in, g[x].in)
               /\ Goes(h[x], g[x])
    BY <2>3 DEF SameFlags, HeadKept, Shape, Goes
  <2> QED BY <1>3, <2>3, <2>4 DEF HdC
<1>4. ASSUME ProbedAt(e, h, g) PROVE HdC(p, h, g)
  <2>3. /\ SameFlags(g[e], h[e]) /\ g \in [End -> HdRec] /\ \A x \in End : x # e => g[x] = h[x]
        /\ g[e].in = h[e].in
    BY <1>4 DEF ProbedAt, Only
  <2>4. ASSUME NEW x \in End
        PROVE  SameFlags(g[x], h[x]) /\ HeadKept(h[x].in, g[x].in) /\ Goes(h[x], g[x])
    BY <2>3 DEF SameFlags, HeadKept, Shape, Goes
  <2> QED BY <2>3, <2>4 DEF HdC
<1>5. ASSUME Owner(e) = p, RdAt(e, h, g) PROVE HdC(p, h, g)
  <2>3. g \in [End -> HdRec] /\ \A x \in End : x # e => g[x] = h[x]
    BY <1>5 DEF RdAt, Only
  <2>5. Goes(h[e], g[e])
    BY <1>5 DEF RdAt, Shape, Goes
  <2>4. ASSUME NEW x \in End
        PROVE  /\ x # e => SameFlags(g[x], h[x]) /\ HeadKept(h[x].in, g[x].in)
               /\ Goes(h[x], g[x])
    BY <2>3, <2>5 DEF SameFlags, HeadKept, Goes
  <2> QED BY <1>5, <2>3, <2>4 DEF HdC
<1> QED BY <1>1, <1>2, <1>3, <1>4, <1>5

\* So is closing for writing.
LEMMA ClosesC ==
  ASSUME NEW h \in [End -> HdRec], NEW e \in End, NEW g, NEW p, Owner(e) = p,
         WrAt(e, h, g) \/ BothAt(e, h, g)
  PROVE  HdC(p, h, g)
<1>1. /\ g \in [End -> HdRec] /\ \A x \in End : x # e /\ x # Peer(e) => g[x] = h[x]
      /\ Told(e, h, g)
  BY DEF WrAt, BothAt
<1>2. Goes(h[e], g[e])
  BY DEF WrAt, BothAt, Shape, Goes
<1>3. Peer(e) \in End
  BY PeerOf
<1>4. h[Peer(e)].in \in Seq(MsgRec)
  BY <1>3, HdFields
<1>5. HeadKept(h[Peer(e)].in, g[Peer(e)].in)
  BY <1>1, <1>4, EosIn DEF Told, HeadKept
<1>6. SameFlags(g[Peer(e)], h[Peer(e)])
  BY <1>1 DEF Told
<1>7. ASSUME NEW x \in End
      PROVE  /\ x # e => SameFlags(g[x], h[x]) /\ HeadKept(h[x].in, g[x].in)
             /\ Goes(h[x], g[x])
  BY <1>1, <1>2, <1>5, <1>6 DEF SameFlags, HeadKept, Shape, Goes
<1> QED BY <1>1, <1>7 DEF HdC

\* One after the other.
LEMMA TransC ==
  ASSUME NEW p, NEW h, NEW g, NEW f, HdC(p, h, g), HdC(p, g, f)
  PROVE  HdC(p, h, f)
  BY DEF HdC, SameFlags, HeadKept, Goes

\* it is the function that closing the ends in sets of D for writing is defined by.
Closings(it, D, h) ==
  it = [s \in D |-> IF s = {} THEN h ELSE Closed(it[s \ {Pick(s)}], Pick(s), TRUE, FALSE)]

\* There is such a function.
LEMMA ClosingsExist ==
  ASSUME NEW S, IsFiniteSet(S), NEW h
  PROVE  \E it : Closings(it, SUBSET S, h)
<1> DEFINE Layer(n) == {s \in SUBSET S : Cardinality(s) <= n}
           T == {n \in Nat : ~\E it : Closings(it, Layer(n), h)}
<1>1. \A s \in SUBSET S : Cardinality(s) \in Nat
  BY FS_Subset, FS_CardinalityType
<1>2. T = {}
  <2> SUFFICES ASSUME T # {} PROVE FALSE
    OBVIOUS
  <2>1. PICK n \in T : \A m \in T : n <= m
    BY Least
  <2>2. CASE n = 0
    <3> DEFINE it == [s \in Layer(0) |-> h]
    <3>1. \A s \in Layer(0) : s = {}
      <4> SUFFICES ASSUME NEW s \in Layer(0), s # {} PROVE FALSE
        OBVIOUS
      <4>1. Cardinality(s) \in Nat \ {0}
        BY PickOne
      <4> QED BY <4>1
    <3>2. it = [s \in Layer(0) |-> IF s = {} THEN h ELSE Closed(it[s \ {Pick(s)}], Pick(s), TRUE, FALSE)]
      BY <3>1
    <3>3. Closings(it, Layer(0), h)
      BY <3>2 DEF Closings
    <3> QED BY <2>2, <3>3
  <2>3. CASE n # 0
    <3>1. n - 1 \in Nat /\ n \in Nat
      BY <2>1, <2>3
    <3>0. n - 1 \notin T
      <4>1. T \subseteq Nat
        OBVIOUS
      <4> HIDE DEF T
      <4> QED BY <2>1, <4>1, Before
    <3>2. PICK g : Closings(g, Layer(n - 1), h)
      BY <3>1, <3>0
    <3> HIDE DEF T
    <3> DEFINE it == [s \in Layer(n) |-> IF s = {} THEN h ELSE Closed(g[s \ {Pick(s)}], Pick(s), TRUE, FALSE)]
    <3>3. ASSUME NEW s \in Layer(n), s # {}
          PROVE  s \ {Pick(s)} \in Layer(n - 1) /\ s \ {Pick(s)} \in Layer(n)
      <4>1. /\ s \ {Pick(s)} \in SUBSET S /\ Cardinality(s) \in Nat \ {0}
            /\ Cardinality(s \ {Pick(s)}) = Cardinality(s) - 1 /\ Cardinality(s) <= n
        BY <3>3, PickOne
      <4> QED BY <3>1, <4>1
    <3>4. ASSUME NEW s \in Layer(n - 1) PROVE g[s] = it[s]
      <4>1. s \in Layer(n)
        BY <1>1, <3>1
      <4>2. g[s] = IF s = {} THEN h ELSE Closed(g[s \ {Pick(s)}], Pick(s), TRUE, FALSE)
        BY <3>2 DEF Closings
      <4> QED BY <4>1, <4>2
    <3>5. \A s \in Layer(n) : it[s] = IF s = {} THEN h ELSE Closed(it[s \ {Pick(s)}], Pick(s), TRUE, FALSE)
      BY <3>3, <3>4
    <3>6. Closings(it, Layer(n), h)
      <4> HIDE DEF Layer
      <4>1. it = [s \in Layer(n) |-> it[s]]
        OBVIOUS
      <4> QED BY <3>5, <4>1 DEF Closings
    <3> QED BY <2>1, <3>6 DEF T
  <2> QED BY <2>2, <2>3
<1>3. Cardinality(S) \in Nat
  BY FS_CardinalityType
<1>4. Layer(Cardinality(S)) = SUBSET S
  <2>1. \A s \in SUBSET S : Cardinality(s) <= Cardinality(S)
    BY FS_Subset
  <2> QED BY <2>1
<1>5. \E it : Closings(it, Layer(Cardinality(S)), h)
  BY <1>2, <1>3
<1> QED BY <1>4, <1>5

\* The ends in es are closed for writing.
AllWrAt(es, h, g) ==
  /\ g \in [End -> HdRec]
  /\ \A e \in End :
       /\ e \notin es /\ Peer(e) \notin es => g[e] = h[e]
       /\ e \in es => /\ g[e].in = h[e].in /\ g[e].wr /\ (g[e].rd <=> h[e].rd)
                      /\ g[e].open <=> h[e].open /\ ~h[e].rd
                      /\ g[e].freed <=> h[e].freed \/ h[e].rd
       /\ Peer(e) \in es =>
            /\ SameFlags(g[e], h[e])
            /\ ~h[Peer(e)].wr /\ h[e].open => g[e].in = Append(h[e].in, EOS)
            /\ h[Peer(e)].wr \/ ~h[e].open => g[e].in = h[e].in

\* Closing one more.
LEMMA AllWrMore ==
  ASSUME NEW h \in [End -> HdRec], NEW r, NEW x \in End, x \notin r, Peer(x) \notin r,
         NEW g, AllWrAt(r, h, g), NEW f, WrAt(x, g, f)
  PROVE  AllWrAt(r \cup {x}, h, f)
<1>1. /\ g \in [End -> HdRec] /\ f \in [End -> HdRec]
      /\ Peer(x) \in End /\ Peer(Peer(x)) = x /\ Peer(x) # x
  BY PeerOf DEF AllWrAt, WrAt
<1>2. /\ g[x] = h[x] /\ g[Peer(x)] = h[Peer(x)]
      /\ \A e \in End : e # x /\ e # Peer(x) => f[e] = g[e]
      /\ Told(x, g, f) /\ f[x].in = g[x].in
      /\ f[x].wr /\ (f[x].rd <=> g[x].rd)
      /\ f[x].open <=> g[x].open /\ ~g[x].rd
      /\ f[x].freed <=> g[x].freed \/ g[x].rd
  BY <1>1 DEF AllWrAt, WrAt
<1> DEFINE es == r \cup {x}
<1>3. ASSUME NEW e \in End
      PROVE  /\ e \notin es /\ Peer(e) \notin es => f[e] = h[e]
             /\ e \in es => /\ f[e].in = h[e].in /\ f[e].wr /\ (f[e].rd <=> h[e].rd)
                            /\ f[e].open <=> h[e].open /\ ~h[e].rd
                            /\ f[e].freed <=> h[e].freed \/ h[e].rd
             /\ Peer(e) \in es =>
                  /\ SameFlags(f[e], h[e])
                  /\ ~h[Peer(e)].wr /\ h[e].open => f[e].in = Append(h[e].in, EOS)
                  /\ h[Peer(e)].wr \/ ~h[e].open => f[e].in = h[e].in
  <2>1. Peer(Peer(e)) = e
    BY PeerOf
  <2>2. CASE e = x
    BY <1>1, <1>2, <2>2
  <2>3. CASE e = Peer(x)
    <3>1. Peer(e) = x /\ e \notin es /\ Peer(e) \in es
      BY <1>1, <2>3
    <3>2. /\ SameFlags(f[e], g[e])
          /\ ~g[x].wr /\ g[e].open => f[e].in = Append(g[e].in, EOS)
          /\ g[x].wr \/ ~g[e].open => f[e].in = g[e].in
      BY <1>2, <2>3 DEF Told
    <3> QED BY <1>2, <2>3, <3>1, <3>2
  <2>4. CASE e # x /\ e # Peer(x)
    <3>1. f[e] = g[e] /\ Peer(e) # x
      BY <1>2, <2>1, <2>4
    <3> QED BY <2>4, <3>1 DEF AllWrAt
  <2> QED BY <2>2, <2>3, <2>4
<1> HIDE DEF es
<1>4. AllWrAt(es, h, f)
  BY <1>1, <1>3 DEF AllWrAt
<1> QED BY <1>4 DEF es

\* Closing the ends on one side.
LEMMA ClosingsAre ==
  ASSUME NEW h \in [End -> HdRec], NEW S \in SUBSET End, IsFiniteSet(S),
         \A e \in S : Peer(e) \notin S, NEW it, Closings(it, SUBSET S, h)
  PROVE  \A s \in SUBSET S : AllWrAt(s, h, it[s])
<1> DEFINE T == {n \in Nat : \E s \in SUBSET S : Cardinality(s) = n /\ ~AllWrAt(s, h, it[s])}
<1>1. T = {}
  <2> SUFFICES ASSUME T # {} PROVE FALSE
    OBVIOUS
  <2>1. PICK n \in T : \A m \in T : n <= m
    BY Least
  <2>2. PICK s \in SUBSET S : Cardinality(s) = n /\ ~AllWrAt(s, h, it[s])
    BY <2>1
  <2>3. it[s] = IF s = {} THEN h ELSE Closed(it[s \ {Pick(s)}], Pick(s), TRUE, FALSE)
    BY DEF Closings
  <2>4. s # {}
    BY Zenon, <2>2, <2>3 DEF AllWrAt
  <2> DEFINE x == Pick(s)
             r == s \ {x}
  <2>5. /\ x \in s /\ x \in S /\ r \in SUBSET S /\ n \in Nat \ {0}
        /\ Cardinality(r) = n - 1
    BY <2>2, <2>4, PickOne
  <2>6. n - 1 \notin T
    <3>1. T \subseteq Nat
      OBVIOUS
    <3> HIDE DEF T
    <3> QED BY <2>1, <3>1, Before
  <2>7. AllWrAt(r, h, it[r])
    <3>1. n - 1 \in Nat
      BY <2>5
    <3> HIDE DEF r
    <3> QED BY <2>5, <2>6, <3>1
  <2>8. it[s] = Closed(it[r], x, TRUE, FALSE)
    BY <2>3, <2>4
  <2>9. x \in End /\ x \notin r /\ Peer(x) \notin r /\ r \cup {x} = s
    BY <2>5
  <2> HIDE DEF x, r
  <2> DEFINE g == it[r]
             f == it[s]
  <2>10. g \in [End -> HdRec]
    BY <2>7 DEF AllWrAt
  <2>12. AllWrAt(r, h, g) /\ f = Closed(g, x, TRUE, FALSE) /\ ~AllWrAt(s, h, f)
    BY <2>2, <2>7, <2>8
  <2> HIDE DEF g, f
  <2>11. WrAt(x, g, f)
    BY <2>9, <2>10, <2>12, ClosedWr
  <2>13. AllWrAt(r \cup {x}, h, f)
    BY <2>9, <2>11, <2>12, AllWrMore
  <2> QED BY <2>9, <2>12, <2>13
<1> SUFFICES ASSUME NEW s \in SUBSET S, ~AllWrAt(s, h, it[s]) PROVE FALSE
  OBVIOUS
<1>2. Cardinality(s) \in Nat
  BY FS_Subset, FS_CardinalityType
<1> QED BY <1>1, <1>2

\* What CloseTeam does to the handles.
LEMMA ClosedAllIs ==
  ASSUME hd \in [End -> HdRec], NEW S \in SUBSET End, IsFiniteSet(S),
         \A e \in S : Peer(e) \notin S
  PROVE  AllWrAt(S, hd, ClosedAll(S))
<1> DEFINE h == hd
           Q(it) == it = [s \in SUBSET S |-> IF s = {} THEN h
                                    ELSE Closed(it[s \ {Pick(s)}], Pick(s), TRUE, FALSE)]
<1>1. ClosedAll(S) = (CHOOSE it : Q(it))[S]
  BY DEF ClosedAll, FoldSet, MapThenFoldSet, Pick
<1>2. ASSUME NEW it PROVE Closings(it, SUBSET S, h) <=> Q(it)
  BY DEF Closings
<1>3. h \in [End -> HdRec]
  OBVIOUS
<1>7. \E it : Closings(it, SUBSET S, h)
  <2> HIDE DEF h
  <2> QED BY ClosingsExist
<1>4. \E it : Q(it)
  BY <1>2, <1>7
<1>5. Q(CHOOSE it : Q(it))
  <2> HIDE DEF Q
  <2> QED BY <1>4
<1> HIDE DEF Q, h
<1>6. PICK it : Closings(it, SUBSET S, h) /\ ClosedAll(S) = it[S]
  BY <1>1, <1>2, <1>5
<1>8. \A s \in SUBSET S : AllWrAt(s, h, it[s])
  BY <1>3, <1>6, ClosingsAre
<1>9. S \in SUBSET S
  OBVIOUS
<1> QED BY <1>6, <1>8, <1>9 DEF h

\* The ends a process has, and those it closes.
LEMMA ClosesAre ==
  ASSUME NEW p \in Slot
  PROVE  /\ Closes(p) \in SUBSET End /\ IsFiniteSet(Closes(p))
         /\ \A e \in Closes(p) : Owner(e) = p /\ Peer(e) \notin Closes(p)
         /\ Closes(p) = {} \/ Closes(p) = {e \in End : Owner(e) = p}
<1>1. EndsOf(p) = {e \in End : Owner(e) = p}
  <2>1. CASE p = Root
    <3>1. EndsOf(p) = {REnd(k) : k \in Leaf}
      BY <2>1 DEF EndsOf, REnd
    <3>2. \A k \in Leaf : REnd(k) \in End /\ Owner(REnd(k)) = Root /\ Owner(LEnd(k)) # Root
      BY EndsAt, Slots
    <3>3. \A e \in End : \E k \in Leaf : e = REnd(k) \/ e = LEnd(k)
      BY EndsAll
    <3> QED BY <2>1, <3>1, <3>2, <3>3
  <2>2. CASE p # Root
    <3>1. EndsOf(p) = {LEnd(p)} /\ p \in Leaf
      BY <2>2, Slots DEF EndsOf, LEnd
    <3>2. \A k \in Leaf : LEnd(k) \in End /\ Owner(REnd(k)) = Root /\ Owner(LEnd(k)) = k
      BY EndsAt
    <3>3. \A e \in End : \E k \in Leaf : e = REnd(k) \/ e = LEnd(k)
      BY EndsAll
    <3> QED BY <2>2, <3>1, <3>2, <3>3
  <2> QED BY <2>1, <2>2
<1>2. Closes(p) = {} \/ Closes(p) = EndsOf(p)
  <2>1. CASE type \in {"BROADCAST", "SCATTER", "FANOUT"}
    BY <2>1 DEF Closes
  <2>2. CASE type = "FANIN"
    BY <2>2 DEF Closes
  <2>3. CASE type \in {"GATHER", "ALLGATHER", "ALLTOALL"}
    BY <2>3 DEF Closes
  <2>4. CASE type \notin {"BROADCAST", "SCATTER", "FANOUT", "FANIN", "GATHER", "ALLGATHER", "ALLTOALL"}
    BY <2>4 DEF Closes
  <2> QED BY <2>1, <2>2, <2>3, <2>4
<1>3. IsFiniteSet(End)
  <2>1. IsFiniteSet(Leaf)
    BY Slots, FS_Interval DEF Leaf
  <2>2. IsFiniteSet({"root", "leaf"})
    <3>1. IsFiniteSet({"root"}) /\ IsFiniteSet({"leaf"})
      BY FS_Singleton
    <3>2. {"root", "leaf"} = {"root"} \cup {"leaf"}
      OBVIOUS
    <3> QED BY <3>1, <3>2, FS_Union
  <2> QED BY <2>1, <2>2, FS_Product DEF End
<1>4. Closes(p) \in SUBSET End
  BY <1>1, <1>2
<1>5. IsFiniteSet(Closes(p))
  BY <1>3, <1>4, FS_Subset
<1>6. \A e \in End : Owner(Peer(e)) # Owner(e)
  BY PeerOf
<1>7. \A e \in Closes(p) : Owner(e) = p /\ Peer(e) \notin Closes(p)
  BY <1>1, <1>2, <1>6
<1> QED BY <1>1, <1>2, <1>4, <1>5, <1>7

\* Closing them is what a step of the process may do.
LEMMA ClosedAllC ==
  ASSUME hd \in [End -> HdRec], NEW p \in Slot
  PROVE  AllWrAt(Closes(p), hd, ClosedAll(Closes(p))) /\ HdC(p, hd, ClosedAll(Closes(p)))
<1> DEFINE S == Closes(p)
           g == ClosedAll(S)
<1>1. /\ S \in SUBSET End /\ IsFiniteSet(S)
      /\ \A e \in S : Owner(e) = p /\ Peer(e) \notin S
  BY ClosesAre
<1> HIDE DEF S
<1>2. AllWrAt(S, hd, g)
  BY <1>1, ClosedAllIs
<1> HIDE DEF g
<1>3. ASSUME NEW e \in End
      PROVE  /\ Owner(e) # p => SameFlags(g[e], hd[e]) /\ HeadKept(hd[e].in, g[e].in)
             /\ Goes(hd[e], g[e])
  <2>1. hd[e].in \in Seq(MsgRec)
    BY HdFields
  <2>2. CASE e \in S
    <3>1. Owner(e) = p
      BY <1>1, <2>2
    <3>2. Goes(hd[e], g[e])
      BY <1>2, <2>2 DEF AllWrAt, Shape, Goes
    <3> QED BY <3>1, <3>2
  <2>3. CASE Peer(e) \in S
    <3>1. SameFlags(g[e], hd[e]) /\ (g[e].in = Append(hd[e].in, EOS) \/ g[e].in = hd[e].in)
      BY <1>2, <2>3 DEF AllWrAt
    <3>2. HeadKept(hd[e].in, g[e].in)
      BY <2>1, <3>1, EosIn DEF HeadKept
    <3> QED BY <3>1, <3>2 DEF SameFlags, Shape, Goes
  <2>4. CASE e \notin S /\ Peer(e) \notin S
    <3>1. g[e] = hd[e]
      BY <1>2, <2>4 DEF AllWrAt
    <3> QED BY <3>1 DEF SameFlags, HeadKept, Goes
  <2> QED BY <2>2, <2>3, <2>4
<1>4. HdC(p, hd, g)
  BY <1>2, <1>3 DEF HdC, AllWrAt
<1> QED BY <1>2, <1>4 DEF g, S

-----------------------------------------------------------------------------
(* Processes *)

\* Process p moves, and becomes this record.
Sets(p, c, ro, i, b, o, re, ra, pa) ==
  /\ proc' \in [Slot -> ProcRec] /\ \A q \in Slot : q # p => proc'[q] = proc[q]
  /\ proc'[p].pc = c /\ proc'[p].round = ro /\ proc'[p].idx = i /\ proc'[p].buf = b
  /\ proc'[p].out = o /\ proc'[p].res = re /\ proc'[p].rank = ra /\ proc'[p].parts = pa

\* The fields of a process.
LEMMA ProcFields ==
  ASSUME proc \in [Slot -> ProcRec], NEW p \in Slot
  PROVE  /\ proc[p].pc \in Pc /\ proc[p].round \in 0 .. Rounds + 1 /\ proc[p].idx \in 1 .. N
         /\ proc[p].buf \in [Slot -> PieceRec] \cup Seq(PieceRec)
         /\ proc[p].out \in Seq(PieceRec) /\ proc[p].res \in Result
         /\ proc[p].rank \in {None} \cup Nat /\ proc[p].parts \in PartSeq
         /\ proc[p].parts \in Seq(Leaf) /\ Len(proc[p].parts) <= N - 1
<1>1. proc[p] \in ProcRec
  OBVIOUS
<1>2. /\ proc[p].pc \in Pc /\ proc[p].round \in 0 .. Rounds + 1 /\ proc[p].idx \in 1 .. N
      /\ proc[p].buf \in [Slot -> PieceRec] \cup Seq(PieceRec)
      /\ proc[p].out \in Seq(PieceRec) /\ proc[p].res \in Result
      /\ proc[p].rank \in {None} \cup Nat /\ proc[p].parts \in PartSeq
  BY <1>1 DEF ProcRec
<1>3. proc[p].parts \in Seq(Leaf) /\ Len(proc[p].parts) <= N - 1
  BY <1>2 DEF PartSeq
<1> QED BY <1>2, <1>3

\* Nothing moves.
LEMMA SetNothing ==
  ASSUME proc \in [Slot -> ProcRec], NEW p \in Slot, proc' = proc
  PROVE  Sets(p, proc[p].pc, proc[p].round, proc[p].idx, proc[p].buf, proc[p].out,
              proc[p].res, proc[p].rank, proc[p].parts)
  BY DEF Sets

\* A record is replaced.
LEMMA ProcReplace ==
  ASSUME proc \in [Slot -> ProcRec], NEW p \in Slot, NEW r \in ProcRec,
         proc' = [proc EXCEPT ![p] = r]
  PROVE  proc' \in [Slot -> ProcRec] /\ proc'[p] = r /\ \A q \in Slot : q # p => proc'[q] = proc[q]
  OBVIOUS

\* Sets pc.
LEMMA SetPc ==
  ASSUME proc \in [Slot -> ProcRec], NEW p \in Slot,
         NEW c \in Pc,
         proc' = [proc EXCEPT ![p].pc = c]
  PROVE  Sets(p, c, proc[p].round, proc[p].idx, proc[p].buf, proc[p].out, proc[p].res, proc[p].rank, proc[p].parts)
<1> DEFINE r == [proc[p] EXCEPT !.pc = c]
<1>1. proc' = [proc EXCEPT ![p] = r]
  OBVIOUS
<1>2. proc[p] \in ProcRec
  OBVIOUS
<1>3. r \in ProcRec
  BY <1>2 DEF ProcRec
<1>4. r.pc = c /\ r.round = proc[p].round /\ r.idx = proc[p].idx /\ r.buf = proc[p].buf /\ r.out = proc[p].out /\ r.res = proc[p].res /\ r.rank = proc[p].rank /\ r.parts = proc[p].parts
  BY <1>2 DEF ProcRec
<1> HIDE DEF r
<1>5. proc' \in [Slot -> ProcRec] /\ proc'[p] = r /\ \A q \in Slot : q # p => proc'[q] = proc[q]
  BY <1>1, <1>3, ProcReplace
<1> QED BY <1>4, <1>5 DEF Sets

\* Sets res, pc.
LEMMA SetResPc ==
  ASSUME proc \in [Slot -> ProcRec], NEW p \in Slot,
         NEW re \in Result, NEW c \in Pc,
         proc' = [proc EXCEPT ![p].res = re, ![p].pc = c]
  PROVE  Sets(p, c, proc[p].round, proc[p].idx, proc[p].buf, proc[p].out, re, proc[p].rank, proc[p].parts)
<1> DEFINE r == [proc[p] EXCEPT !.res = re, !.pc = c]
<1>1. proc' = [proc EXCEPT ![p] = r]
  OBVIOUS
<1>2. proc[p] \in ProcRec
  OBVIOUS
<1>3. r \in ProcRec
  BY <1>2 DEF ProcRec
<1>4. r.pc = c /\ r.round = proc[p].round /\ r.idx = proc[p].idx /\ r.buf = proc[p].buf /\ r.out = proc[p].out /\ r.res = re /\ r.rank = proc[p].rank /\ r.parts = proc[p].parts
  BY <1>2 DEF ProcRec
<1> HIDE DEF r
<1>5. proc' \in [Slot -> ProcRec] /\ proc'[p] = r /\ \A q \in Slot : q # p => proc'[q] = proc[q]
  BY <1>1, <1>3, ProcReplace
<1> QED BY <1>4, <1>5 DEF Sets

\* Sets pc, idx, buf, round.
LEMMA SetPcIdxBufRound ==
  ASSUME proc \in [Slot -> ProcRec], NEW p \in Slot,
         NEW c \in Pc, NEW i \in 1 .. N, NEW b \in [Slot -> PieceRec] \cup Seq(PieceRec), NEW ro \in 0 .. Rounds + 1,
         proc' = [proc EXCEPT ![p].pc = c, ![p].idx = i, ![p].buf = b, ![p].round = ro]
  PROVE  Sets(p, c, ro, i, b, proc[p].out, proc[p].res, proc[p].rank, proc[p].parts)
<1> DEFINE r == [proc[p] EXCEPT !.pc = c, !.idx = i, !.buf = b, !.round = ro]
<1>1. proc' = [proc EXCEPT ![p] = r]
  OBVIOUS
<1>2. proc[p] \in ProcRec
  OBVIOUS
<1>3. r \in ProcRec
  BY <1>2 DEF ProcRec
<1>4. r.pc = c /\ r.round = ro /\ r.idx = i /\ r.buf = b /\ r.out = proc[p].out /\ r.res = proc[p].res /\ r.rank = proc[p].rank /\ r.parts = proc[p].parts
  BY <1>2 DEF ProcRec
<1> HIDE DEF r
<1>5. proc' \in [Slot -> ProcRec] /\ proc'[p] = r /\ \A q \in Slot : q # p => proc'[q] = proc[q]
  BY <1>1, <1>3, ProcReplace
<1> QED BY <1>4, <1>5 DEF Sets

\* Sets idx.
LEMMA SetIdx ==
  ASSUME proc \in [Slot -> ProcRec], NEW p \in Slot,
         NEW i \in 1 .. N,
         proc' = [proc EXCEPT ![p].idx = i]
  PROVE  Sets(p, proc[p].pc, proc[p].round, i, proc[p].buf, proc[p].out, proc[p].res, proc[p].rank, proc[p].parts)
<1> DEFINE r == [proc[p] EXCEPT !.idx = i]
<1>1. proc' = [proc EXCEPT ![p] = r]
  OBVIOUS
<1>2. proc[p] \in ProcRec
  OBVIOUS
<1>3. r \in ProcRec
  BY <1>2 DEF ProcRec
<1>4. r.pc = proc[p].pc /\ r.round = proc[p].round /\ r.idx = i /\ r.buf = proc[p].buf /\ r.out = proc[p].out /\ r.res = proc[p].res /\ r.rank = proc[p].rank /\ r.parts = proc[p].parts
  BY <1>2 DEF ProcRec
<1> HIDE DEF r
<1>5. proc' \in [Slot -> ProcRec] /\ proc'[p] = r /\ \A q \in Slot : q # p => proc'[q] = proc[q]
  BY <1>1, <1>3, ProcReplace
<1> QED BY <1>4, <1>5 DEF Sets

\* Sets out, res, pc.
LEMMA SetOutResPc ==
  ASSUME proc \in [Slot -> ProcRec], NEW p \in Slot,
         NEW o \in Seq(PieceRec), NEW re \in Result, NEW c \in Pc,
         proc' = [proc EXCEPT ![p].out = o, ![p].res = re, ![p].pc = c]
  PROVE  Sets(p, c, proc[p].round, proc[p].idx, proc[p].buf, o, re, proc[p].rank, proc[p].parts)
<1> DEFINE r == [proc[p] EXCEPT !.out = o, !.res = re, !.pc = c]
<1>1. proc' = [proc EXCEPT ![p] = r]
  OBVIOUS
<1>2. proc[p] \in ProcRec
  OBVIOUS
<1>3. r \in ProcRec
  BY <1>2 DEF ProcRec
<1>4. r.pc = c /\ r.round = proc[p].round /\ r.idx = proc[p].idx /\ r.buf = proc[p].buf /\ r.out = o /\ r.res = re /\ r.rank = proc[p].rank /\ r.parts = proc[p].parts
  BY <1>2 DEF ProcRec
<1> HIDE DEF r
<1>5. proc' \in [Slot -> ProcRec] /\ proc'[p] = r /\ \A q \in Slot : q # p => proc'[q] = proc[q]
  BY <1>1, <1>3, ProcReplace
<1> QED BY <1>4, <1>5 DEF Sets

\* Sets buf, idx.
LEMMA SetBufIdx ==
  ASSUME proc \in [Slot -> ProcRec], NEW p \in Slot,
         NEW b \in [Slot -> PieceRec] \cup Seq(PieceRec), NEW i \in 1 .. N,
         proc' = [proc EXCEPT ![p].buf = b, ![p].idx = i]
  PROVE  Sets(p, proc[p].pc, proc[p].round, i, b, proc[p].out, proc[p].res, proc[p].rank, proc[p].parts)
<1> DEFINE r == [proc[p] EXCEPT !.buf = b, !.idx = i]
<1>1. proc' = [proc EXCEPT ![p] = r]
  OBVIOUS
<1>2. proc[p] \in ProcRec
  OBVIOUS
<1>3. r \in ProcRec
  BY <1>2 DEF ProcRec
<1>4. r.pc = proc[p].pc /\ r.round = proc[p].round /\ r.idx = i /\ r.buf = b /\ r.out = proc[p].out /\ r.res = proc[p].res /\ r.rank = proc[p].rank /\ r.parts = proc[p].parts
  BY <1>2 DEF ProcRec
<1> HIDE DEF r
<1>5. proc' \in [Slot -> ProcRec] /\ proc'[p] = r /\ \A q \in Slot : q # p => proc'[q] = proc[q]
  BY <1>1, <1>3, ProcReplace
<1> QED BY <1>4, <1>5 DEF Sets

\* Sets buf, idx, pc.
LEMMA SetBufIdxPc ==
  ASSUME proc \in [Slot -> ProcRec], NEW p \in Slot,
         NEW b \in [Slot -> PieceRec] \cup Seq(PieceRec), NEW i \in 1 .. N, NEW c \in Pc,
         proc' = [proc EXCEPT ![p].buf = b, ![p].idx = i, ![p].pc = c]
  PROVE  Sets(p, c, proc[p].round, i, b, proc[p].out, proc[p].res, proc[p].rank, proc[p].parts)
<1> DEFINE r == [proc[p] EXCEPT !.buf = b, !.idx = i, !.pc = c]
<1>1. proc' = [proc EXCEPT ![p] = r]
  OBVIOUS
<1>2. proc[p] \in ProcRec
  OBVIOUS
<1>3. r \in ProcRec
  BY <1>2 DEF ProcRec
<1>4. r.pc = c /\ r.round = proc[p].round /\ r.idx = i /\ r.buf = b /\ r.out = proc[p].out /\ r.res = proc[p].res /\ r.rank = proc[p].rank /\ r.parts = proc[p].parts
  BY <1>2 DEF ProcRec
<1> HIDE DEF r
<1>5. proc' \in [Slot -> ProcRec] /\ proc'[p] = r /\ \A q \in Slot : q # p => proc'[q] = proc[q]
  BY <1>1, <1>3, ProcReplace
<1> QED BY <1>4, <1>5 DEF Sets

\* Sets pc, rank.
LEMMA SetPcRank ==
  ASSUME proc \in [Slot -> ProcRec], NEW p \in Slot,
         NEW c \in Pc, NEW ra \in {None} \cup Nat,
         proc' = [proc EXCEPT ![p].pc = c, ![p].rank = ra]
  PROVE  Sets(p, c, proc[p].round, proc[p].idx, proc[p].buf, proc[p].out, proc[p].res, ra, proc[p].parts)
<1> DEFINE r == [proc[p] EXCEPT !.pc = c, !.rank = ra]
<1>1. proc' = [proc EXCEPT ![p] = r]
  OBVIOUS
<1>2. proc[p] \in ProcRec
  OBVIOUS
<1>3. r \in ProcRec
  BY <1>2 DEF ProcRec
<1>4. r.pc = c /\ r.round = proc[p].round /\ r.idx = proc[p].idx /\ r.buf = proc[p].buf /\ r.out = proc[p].out /\ r.res = proc[p].res /\ r.rank = ra /\ r.parts = proc[p].parts
  BY <1>2 DEF ProcRec
<1> HIDE DEF r
<1>5. proc' \in [Slot -> ProcRec] /\ proc'[p] = r /\ \A q \in Slot : q # p => proc'[q] = proc[q]
  BY <1>1, <1>3, ProcReplace
<1> QED BY <1>4, <1>5 DEF Sets

\* Sets buf, pc, idx.
LEMMA SetBufPcIdx ==
  ASSUME proc \in [Slot -> ProcRec], NEW p \in Slot,
         NEW b \in [Slot -> PieceRec] \cup Seq(PieceRec), NEW c \in Pc, NEW i \in 1 .. N,
         proc' = [proc EXCEPT ![p].buf = b, ![p].pc = c, ![p].idx = i]
  PROVE  Sets(p, c, proc[p].round, i, b, proc[p].out, proc[p].res, proc[p].rank, proc[p].parts)
<1> DEFINE r == [proc[p] EXCEPT !.buf = b, !.pc = c, !.idx = i]
<1>1. proc' = [proc EXCEPT ![p] = r]
  OBVIOUS
<1>2. proc[p] \in ProcRec
  OBVIOUS
<1>3. r \in ProcRec
  BY <1>2 DEF ProcRec
<1>4. r.pc = c /\ r.round = proc[p].round /\ r.idx = i /\ r.buf = b /\ r.out = proc[p].out /\ r.res = proc[p].res /\ r.rank = proc[p].rank /\ r.parts = proc[p].parts
  BY <1>2 DEF ProcRec
<1> HIDE DEF r
<1>5. proc' \in [Slot -> ProcRec] /\ proc'[p] = r /\ \A q \in Slot : q # p => proc'[q] = proc[q]
  BY <1>1, <1>3, ProcReplace
<1> QED BY <1>4, <1>5 DEF Sets

\* Sets round.
LEMMA SetRound ==
  ASSUME proc \in [Slot -> ProcRec], NEW p \in Slot,
         NEW ro \in 0 .. Rounds + 1,
         proc' = [proc EXCEPT ![p].round = ro]
  PROVE  Sets(p, proc[p].pc, ro, proc[p].idx, proc[p].buf, proc[p].out, proc[p].res, proc[p].rank, proc[p].parts)
<1> DEFINE r == [proc[p] EXCEPT !.round = ro]
<1>1. proc' = [proc EXCEPT ![p] = r]
  OBVIOUS
<1>2. proc[p] \in ProcRec
  OBVIOUS
<1>3. r \in ProcRec
  BY <1>2 DEF ProcRec
<1>4. r.pc = proc[p].pc /\ r.round = ro /\ r.idx = proc[p].idx /\ r.buf = proc[p].buf /\ r.out = proc[p].out /\ r.res = proc[p].res /\ r.rank = proc[p].rank /\ r.parts = proc[p].parts
  BY <1>2 DEF ProcRec
<1> HIDE DEF r
<1>5. proc' \in [Slot -> ProcRec] /\ proc'[p] = r /\ \A q \in Slot : q # p => proc'[q] = proc[q]
  BY <1>1, <1>3, ProcReplace
<1> QED BY <1>4, <1>5 DEF Sets

\* Sets parts, idx.
LEMMA SetPartsIdx ==
  ASSUME proc \in [Slot -> ProcRec], NEW p \in Slot,
         NEW pa \in PartSeq, NEW i \in 1 .. N,
         proc' = [proc EXCEPT ![p].parts = pa, ![p].idx = i]
  PROVE  Sets(p, proc[p].pc, proc[p].round, i, proc[p].buf, proc[p].out, proc[p].res, proc[p].rank, pa)
<1> DEFINE r == [proc[p] EXCEPT !.parts = pa, !.idx = i]
<1>1. proc' = [proc EXCEPT ![p] = r]
  OBVIOUS
<1>2. proc[p] \in ProcRec
  OBVIOUS
<1>3. r \in ProcRec
  BY <1>2 DEF ProcRec
<1>4. r.pc = proc[p].pc /\ r.round = proc[p].round /\ r.idx = i /\ r.buf = proc[p].buf /\ r.out = proc[p].out /\ r.res = proc[p].res /\ r.rank = proc[p].rank /\ r.parts = pa
  BY <1>2 DEF ProcRec
<1> HIDE DEF r
<1>5. proc' \in [Slot -> ProcRec] /\ proc'[p] = r /\ \A q \in Slot : q # p => proc'[q] = proc[q]
  BY <1>1, <1>3, ProcReplace
<1> QED BY <1>4, <1>5 DEF Sets

\* Sets out, pc, idx.
LEMMA SetOutPcIdx ==
  ASSUME proc \in [Slot -> ProcRec], NEW p \in Slot,
         NEW o \in Seq(PieceRec), NEW c \in Pc, NEW i \in 1 .. N,
         proc' = [proc EXCEPT ![p].out = o, ![p].pc = c, ![p].idx = i]
  PROVE  Sets(p, c, proc[p].round, i, proc[p].buf, o, proc[p].res, proc[p].rank, proc[p].parts)
<1> DEFINE r == [proc[p] EXCEPT !.out = o, !.pc = c, !.idx = i]
<1>1. proc' = [proc EXCEPT ![p] = r]
  OBVIOUS
<1>2. proc[p] \in ProcRec
  OBVIOUS
<1>3. r \in ProcRec
  BY <1>2 DEF ProcRec
<1>4. r.pc = c /\ r.round = proc[p].round /\ r.idx = i /\ r.buf = proc[p].buf /\ r.out = o /\ r.res = proc[p].res /\ r.rank = proc[p].rank /\ r.parts = proc[p].parts
  BY <1>2 DEF ProcRec
<1> HIDE DEF r
<1>5. proc' \in [Slot -> ProcRec] /\ proc'[p] = r /\ \A q \in Slot : q # p => proc'[q] = proc[q]
  BY <1>1, <1>3, ProcReplace
<1> QED BY <1>4, <1>5 DEF Sets

\* Sets pc, idx.
LEMMA SetPcIdx ==
  ASSUME proc \in [Slot -> ProcRec], NEW p \in Slot,
         NEW c \in Pc, NEW i \in 1 .. N,
         proc' = [proc EXCEPT ![p].pc = c, ![p].idx = i]
  PROVE  Sets(p, c, proc[p].round, i, proc[p].buf, proc[p].out, proc[p].res, proc[p].rank, proc[p].parts)
<1> DEFINE r == [proc[p] EXCEPT !.pc = c, !.idx = i]
<1>1. proc' = [proc EXCEPT ![p] = r]
  OBVIOUS
<1>2. proc[p] \in ProcRec
  OBVIOUS
<1>3. r \in ProcRec
  BY <1>2 DEF ProcRec
<1>4. r.pc = c /\ r.round = proc[p].round /\ r.idx = i /\ r.buf = proc[p].buf /\ r.out = proc[p].out /\ r.res = proc[p].res /\ r.rank = proc[p].rank /\ r.parts = proc[p].parts
  BY <1>2 DEF ProcRec
<1> HIDE DEF r
<1>5. proc' \in [Slot -> ProcRec] /\ proc'[p] = r /\ \A q \in Slot : q # p => proc'[q] = proc[q]
  BY <1>1, <1>3, ProcReplace
<1> QED BY <1>4, <1>5 DEF Sets

\* Nothing but the processes and the handles.
Frame == type' = type /\ pos' = pos /\ datacount' = datacount
Others(p) == proc' \in [Slot -> ProcRec] /\ \A q \in Slot : q # p => proc'[q] = proc[q]

\* Where the root of a fan-in receives.
LEMMA ProbingRoot ==
  ASSUME TInv, proc[Root].pc = "got"
  PROVE  /\ type = "FANIN" /\ proc[Root].parts[proc[Root].idx] \in Leaf
         /\ proc[Root].idx \in DOMAIN proc[Root].parts
         /\ Probing(Root) = REnd(proc[Root].parts[proc[Root].idx])
         /\ Probing(Root) \in End /\ Owner(Probing(Root)) = Root
<1>1. Root \in Slot /\ PcTy(type, Root, proc[Root].pc)
  BY Slots DEF TInv, ProcTy
<1>2. type = "FANIN"
  BY <1>1 DEF PcTy, FanSide
<1>3. proc[Root].parts \in Seq(Leaf)
  BY <1>1, ProcFields DEF TInv
<1>4. proc[Root].idx \in DOMAIN proc[Root].parts
  BY <1>2 DEF TInv, FanTy
<1>5. proc[Root].parts[proc[Root].idx] \in Leaf
  BY <1>3, <1>4
<1>6. Probing(Root) = EndOf(Root, proc[Root].parts[proc[Root].idx])
  BY DEF Probing
<1> QED BY <1>2, <1>4, <1>5, <1>6, EndsAt

\* Where a member of a fan-out receives.
LEMMA ProbingLeaf ==
  ASSUME NEW k \in Leaf
  PROVE  Probing(k) = LEnd(k) /\ Probing(k) \in End /\ Owner(Probing(k)) = k
<1>1. k # Root
  BY Slots
<1> QED BY <1>1, EndsAt DEF Probing

\* A step of a process that does not die keeps the types.
LEMMA TypeStep ==
  ASSUME TInv, NEW p \in Slot, Frame, Others(p), HdC(p, hd, hd'),
         ctx' \in [Slot -> {"app", "managed", "queued"}], touched' \in BOOLEAN,
         proc[p].pc # "dead", proc'[p].pc # "dead", ProcTy(p)', GotTy(p)',
         p = Root => BufTy' /\ FanTy'
  PROVE  TInv'
<1>1. /\ hd \in [End -> HdRec] /\ hd' \in [End -> HdRec]
      /\ \A e \in End : /\ Owner(e) # p => SameFlags(hd'[e], hd[e]) /\ HeadKept(hd[e].in, hd'[e].in)
                        /\ Shape(hd[e]) => Shape(hd'[e])
  BY DEF HdC, TInv, Goes
<1>2. type' = type /\ \A q \in Slot : q # p => proc'[q] = proc[q]
  BY DEF Frame, Others
<1>3. ASSUME NEW q \in Slot PROVE ProcTy(q)'
  <2>1. CASE q = p
    BY <2>1
  <2>2. CASE q # p
    <3>1. ProcTy(q)
      BY DEF TInv
    <3> QED BY <1>2, <2>2, <3>1 DEF ProcTy
  <2> QED BY <2>1, <2>2
<1>4. ASSUME NEW q \in Slot PROVE GotTy(q)'
  <2>1. CASE q = p
    BY <2>1
  <2>2. CASE q # p
    <3> SUFFICES ASSUME proc'[q].pc = "got"
                 PROVE  hd'[Probing(q)'].in # <<>> /\ Head(hd'[Probing(q)'].in).size > 0
      BY DEF GotTy
    <3>1. proc[q].pc = "got" /\ proc'[q] = proc[q]
      BY <1>2, <2>2
    <3>2. Probing(q)' = Probing(q)
      <4>1. CASE q = Root
        BY <3>1, <4>1 DEF Probing
      <4>2. CASE q # Root
        BY <4>2 DEF Probing
      <4> QED BY <4>1, <4>2
    <3>3. Probing(q) \in End /\ Owner(Probing(q)) = q
      <4>1. CASE q = Root
        BY <3>1, <4>1, ProbingRoot
      <4>2. CASE q # Root
        BY <4>2, ProbingLeaf, Slots
      <4> QED BY <4>1, <4>2
    <3>4. hd[Probing(q)].in # <<>> /\ Head(hd[Probing(q)].in).size > 0
      BY <3>1 DEF TInv, GotTy
    <3>5. HeadKept(hd[Probing(q)].in, hd'[Probing(q)].in)
      BY <1>1, <2>2, <3>3
    <3> QED BY <3>2, <3>4, <3>5 DEF HeadKept
  <2> QED BY <2>1, <2>2
<1>5. ASSUME NEW e \in End PROVE HandleTy(e)'
  <2> DEFINE o == Owner(e)
  <2>1. o \in Slot
    BY PeerOf
  <2>2. /\ proc[o].pc # "dead" => Shape(hd[e])
        /\ proc[o].pc = "dead" => ~hd[e].open
    BY DEF TInv, HandleTy, Shape
  <2>3. /\ proc'[o].pc # "dead" => Shape(hd'[e])
        /\ proc'[o].pc = "dead" => ~hd'[e].open
    <3>1. CASE o = p
      BY <1>1, <2>2, <3>1
    <3>2. CASE o # p
      BY <1>1, <1>2, <2>1, <2>2, <3>2 DEF SameFlags
    <3> QED BY <3>1, <3>2
  <2> QED BY <2>3 DEF HandleTy, Shape
<1>6. BufTy' /\ FanTy'
  <2>1. CASE p = Root
    BY <2>1
  <2>2. CASE p # Root
    <3>1. proc'[Root] = proc[Root]
      BY <1>2, <2>2, Slots
    <3>2. BufTy /\ FanTy
      BY DEF TInv
    <3>3. BufTy'
      BY <1>2, <3>1, <3>2 DEF BufTy
    <3>4. FanTy'
      BY <1>2, <3>1, <3>2 DEF FanTy
    <3> QED BY <3>3, <3>4
  <2> QED BY <2>1, <2>2
<1>7. type \in Types /\ pos \in RootPositions /\ datacount \in DataCounts
  BY DEF TInv
<1>8. type' \in Types /\ pos' \in RootPositions /\ datacount' \in DataCounts
  BY <1>7 DEF Frame
<1> QED BY <1>1, <1>3, <1>4, <1>5, <1>6, <1>8 DEF TInv, Others

\* ... when it goes where the types say little.
LEMMA TypeRest ==
  ASSUME TInv, NEW p \in Slot, Frame, Others(p), HdC(p, hd, hd'),
         ctx' \in [Slot -> {"app", "managed", "queued"}], touched' \in BOOLEAN,
         proc[p].pc # "dead", PcTy(type, p, proc'[p].pc),
         proc'[p].pc \in {"ready", "stop", "final", "end", "send", "sendblock", "recv", "result"}
  PROVE  TInv'
<1>1. /\ proc'[p].pc # "dead" /\ proc'[p].pc # "got"
      /\ proc'[p].pc \notin {"collect", "reply", "block", "spread", "hold", "got", "received", "away"}
  OBVIOUS
<1>2. type' = type
  BY DEF Frame
<1>3. ProcTy(p)'
  BY <1>1, <1>2 DEF ProcTy
<1>4. GotTy(p)'
  BY <1>1 DEF GotTy
<1>5. p = Root => BufTy' /\ FanTy'
  <2> SUFFICES ASSUME p = Root PROVE BufTy' /\ FanTy'
    OBVIOUS
  <2>1. proc'[Root].pc \notin {"collect", "reply", "block", "spread", "hold", "got", "received", "away"}
    BY <1>1
  <2>2. BufTy'
    BY <2>1 DEF BufTy
  <2>3. FanTy'
    BY <2>1 DEF FanTy
  <2> QED BY <2>2, <2>3
<1> QED BY <1>1, <1>3, <1>4, <1>5, TypeStep

\* What a call of Send does, when it goes on (next) or reports an error.
LEMMA SendIs ==
  ASSUME TInv, NEW p \in Slot, NEW e \in End, NEW data \in Seq(PieceRec), NEW ACTION next,
         Send(p, e, data, next)
  PROVE  /\ touched' = (touched \/ hd[e].freed) /\ touched' \in BOOLEAN
         /\ HdC(p, hd, hd')
         /\ \/ next /\ hd[Peer(e)].open /\ PutAt(Peer(e), Msg(data), hd, hd')
            \/ next /\ ~hd[Peer(e)].open /\ hd' = hd
            \/ Return(p, "error") /\ ~hd[Peer(e)].open /\ hd' = hd
<1>1. hd \in [End -> HdRec] /\ Peer(e) \in End /\ Msg(data) \in MsgRec
  BY PeerOf, MsgIn DEF TInv
<1>2. touched' = (touched \/ hd[e].freed)
  BY DEF Send, Touch
<1>3. touched' \in BOOLEAN
  BY <1>2
<1> DEFINE m == Msg(data)
           f == Peer(e)
<1>4. \/ next /\ hd[f].open /\ hd' = [hd EXCEPT ![f].in = Append(@, m)]
      \/ next /\ ~hd[f].open /\ hd' = hd
      \/ Return(p, "error") /\ ~hd[f].open /\ hd' = hd
  BY DEF Send
<1>5. HdC(p, hd, hd)
  BY <1>1, StepsC
<1> HIDE DEF m, f
<1>6. m \in MsgRec /\ f \in End
  BY <1>1 DEF m, f
<1>7. hd' = [hd EXCEPT ![f].in = Append(@, m)] => PutAt(f, m, hd, hd')
  BY Zenon, <1>1, <1>6, Put
<1>8. PutAt(f, m, hd, hd') => HdC(p, hd, hd')
  BY <1>1, <1>6, StepsC
<1>9. HdC(p, hd, hd')
  BY <1>4, <1>5, <1>7, <1>8
<1>10. \/ next /\ hd[f].open /\ PutAt(f, m, hd, hd')
       \/ next /\ ~hd[f].open /\ hd' = hd
       \/ Return(p, "error") /\ ~hd[f].open /\ hd' = hd
  BY <1>4, <1>7
<1> QED BY <1>2, <1>3, <1>9, <1>10 DEF m, f

\* What a return does.
LEMMA ReturnIs ==
  ASSUME TInv, NEW p \in Slot, NEW res \in Result, Return(p, res)
  PROVE  Sets(p, IF res = "ok" THEN "ready" ELSE "stop", proc[p].round, proc[p].idx, proc[p].buf,
              proc[p].out, res, proc[p].rank, proc[p].parts)
<1> DEFINE c == IF res = "ok" THEN "ready" ELSE "stop"
<1>1. c \in Pc
  BY DEF Pc
<1>2. proc' = [proc EXCEPT ![p].res = res, ![p].pc = c]
  BY DEF Return
<1> HIDE DEF c
<1>3. proc \in [Slot -> ProcRec]
  BY DEF TInv
<1>4. Sets(p, c, proc[p].round, proc[p].idx, proc[p].buf, proc[p].out, res, proc[p].rank, proc[p].parts)
  BY Zenon, <1>1, <1>2, <1>3, SetResPc
<1> QED BY <1>4 DEF c

\* What a change of pc does.
LEMMA GotoIs ==
  ASSUME TInv, NEW p \in Slot, NEW c \in Pc, Goto(p, c)
  PROVE  Sets(p, c, proc[p].round, proc[p].idx, proc[p].buf,
              proc[p].out, proc[p].res, proc[p].rank, proc[p].parts)
<1>1. proc' = [proc EXCEPT ![p].pc = c] /\ proc \in [Slot -> ProcRec]
  BY DEF Goto, TInv
<1> QED BY <1>1, SetPc

\* A member sends.
LEMMA LeafSendsIs ==
  ASSUME TInv, NEW p \in Leaf, NEW data \in Seq(PieceRec), NEW pc, pc \in {"return", "recv", "sendblock"},
         LeafSends(p, data, pc)
  PROVE  /\ proc[p].pc = "send" /\ Frame /\ ctx' = ctx
         /\ touched' = (touched \/ hd[LEnd(p)].freed) /\ touched' \in BOOLEAN
         /\ HdC(p, hd, hd')
         /\ \/ /\ hd[REnd(p)].open /\ PutAt(REnd(p), Msg(data), hd, hd')
               /\ IF pc = "return" THEN Return(p, "ok") ELSE Goto(p, pc)
            \/ /\ ~hd[REnd(p)].open /\ hd' = hd
               /\ IF pc = "return" THEN Return(p, "ok") ELSE Goto(p, pc)
            \/ ~hd[REnd(p)].open /\ hd' = hd /\ Return(p, "error")
<1>1. /\ EndOf(p, p) = LEnd(p) /\ LEnd(p) \in End /\ Peer(LEnd(p)) = REnd(p) /\ p \in Slot
  BY EndsAt, Slots
<1> DEFINE e == LEnd(p)
<1>2. /\ proc[p].pc = "send" /\ type' = type /\ pos' = pos /\ datacount' = datacount /\ ctx' = ctx
      /\ Send(p, e, data, IF pc = "return" THEN Return(p, "ok") ELSE Goto(p, pc))
  BY <1>1 DEF LeafSends, InCall, team
<1> HIDE DEF e
<1>3. e \in End /\ Peer(e) = REnd(p)
  BY <1>1 DEF e
<1>4. /\ touched' = (touched \/ hd[e].freed) /\ touched' \in BOOLEAN
      /\ HdC(p, hd, hd')
      /\ \/ (IF pc = "return" THEN Return(p, "ok") ELSE Goto(p, pc)) /\ hd[Peer(e)].open /\ PutAt(Peer(e), Msg(data), hd, hd')
         \/ (IF pc = "return" THEN Return(p, "ok") ELSE Goto(p, pc)) /\ ~hd[Peer(e)].open /\ hd' = hd
         \/ Return(p, "error") /\ ~hd[Peer(e)].open /\ hd' = hd
  BY <1>1, <1>2, <1>3, SendIs
<1> QED BY <1>2, <1>3, <1>4 DEF e, Frame

\* The owner of e takes the end of the stream and closes e for reading ...
EosAt(e, h, g) ==
  /\ Only(e, h, g) /\ g[e].in = Tail(h[e].in)
  /\ g[e].rd /\ (g[e].wr <=> h[e].wr)
  /\ g[e].open <=> h[e].open /\ ~h[e].wr
  /\ g[e].freed <=> h[e].freed \/ h[e].wr
\* ... or closes it.
EosBothAt(e, h, g) ==
  /\ g \in [End -> HdRec] /\ \A x \in End : x # e /\ x # Peer(e) => g[x] = h[x]
  /\ Told(e, h, g) /\ g[e].in = Tail(h[e].in)
  /\ g[e].wr /\ g[e].rd /\ ~g[e].open /\ g[e].freed

\* Taking and closing.
LEMMA EosParts ==
  ASSUME NEW h \in [End -> HdRec], NEW e \in End, NEW g, TookAt(e, h, g), NEW f
  PROVE  /\ RdAt(e, g, f) => EosAt(e, h, f)
         /\ BothAt(e, g, f) => EosBothAt(e, h, f)
<1>1. /\ g \in [End -> HdRec] /\ \A x \in End : x # e => g[x] = h[x]
      /\ SameFlags(g[e], h[e]) /\ g[e].in = Tail(h[e].in)
  BY DEF TookAt, Only
<1>2. Peer(e) \in End /\ Peer(e) # e
  BY PeerOf
<1>3. ASSUME RdAt(e, g, f) PROVE EosAt(e, h, f)
  <2>1. Only(e, h, f)
    BY <1>1, <1>3 DEF RdAt, Only
  <2> QED BY <1>1, <1>3, <2>1 DEF RdAt, EosAt, SameFlags
<1>4. ASSUME BothAt(e, g, f) PROVE EosBothAt(e, h, f)
  <2>1. f \in [End -> HdRec] /\ \A x \in End : x # e /\ x # Peer(e) => f[x] = h[x]
    BY <1>1, <1>4 DEF BothAt
  <2>2. Told(e, h, f)
    BY <1>1, <1>2, <1>4 DEF BothAt, Told, SameFlags
  <2> QED BY <1>1, <1>4, <2>1, <2>2 DEF BothAt, EosBothAt
<1> QED BY <1>3, <1>4

\* Closing for writing what is closed for reading.
LEMMA ThenWr ==
  ASSUME NEW h \in [End -> HdRec], NEW e \in End, NEW g, NEW f, WrAt(e, g, f)
  PROVE  /\ EosAt(e, h, g) => EosBothAt(e, h, f)
         /\ BothAt(e, h, g) => BothAt(e, h, f)
<1>2. Peer(e) \in End /\ Peer(e) # e
  BY PeerOf
<1>3. ASSUME EosAt(e, h, g) PROVE EosBothAt(e, h, f)
  <2>1. f \in [End -> HdRec] /\ \A x \in End : x # e /\ x # Peer(e) => f[x] = h[x]
    BY <1>3 DEF EosAt, Only, WrAt
  <2>3. g[Peer(e)] = h[Peer(e)] /\ (g[e].wr <=> h[e].wr) /\ g[e].rd /\ g[e].in = Tail(h[e].in)
    BY <1>2, <1>3 DEF EosAt, Only
  <2>2. Told(e, h, f)
    BY <2>3 DEF WrAt, Told
  <2> QED BY <2>1, <2>2, <2>3 DEF WrAt, EosBothAt
<1>4. ASSUME BothAt(e, h, g) PROVE BothAt(e, h, f)
  <2>1. f \in [End -> HdRec] /\ \A x \in End : x # e /\ x # Peer(e) => f[x] = h[x]
    BY <1>4 DEF BothAt, WrAt
  <2>2. Told(e, h, f)
    BY <1>4 DEF WrAt, Told, BothAt, SameFlags
  <2> QED BY <1>4, <2>1, <2>2 DEF WrAt, BothAt
<1> QED BY <1>3, <1>4

\* What a receive finds, and how it leaves the handle e of process p.
LEMMA ReceivedIs ==
  ASSUME TInv, NEW e \in End, NEW cap, NEW p, Owner(e) = p
  PROVE  /\ Finds(e, cap) \in {"closed", "eof", "eos", "toolong", "data"}
         /\ HdC(p, hd, Received(e, cap))
         /\ Finds(e, cap) = "closed" => hd[e].rd /\ Received(e, cap) = hd
         /\ Finds(e, cap) # "closed" => ~hd[e].rd
         /\ Finds(e, cap) = "eof" => hd[e].in = <<>> /\ BothAt(e, hd, Received(e, cap))
         /\ Finds(e, cap) \in {"eos", "toolong", "data"} => hd[e].in # <<>>
         /\ Finds(e, cap) = "eos" => Head(hd[e].in).size = 0 /\ EosAt(e, hd, Received(e, cap))
         /\ Finds(e, cap) \in {"toolong", "data"} => Head(hd[e].in).size # 0
         /\ Finds(e, cap) = "toolong" =>
              Head(hd[e].in).size > cap /\ ProbedAt(e, hd, Received(e, cap))
         /\ Finds(e, cap) = "data" => ~(Head(hd[e].in).size > cap) /\ TookAt(e, hd, Received(e, cap))
<1> DEFINE F == Finds(e, cap)
           R == Received(e, cap)
<1>1. hd \in [End -> HdRec] /\ hd[e].in \in Seq(MsgRec) /\ hd[e].rd \in BOOLEAN
  BY HdFields DEF TInv
<1>2. /\ F \in {"closed", "eof", "eos", "toolong", "data"}
      /\ F = "closed" => hd[e].rd
      /\ F # "closed" => ~hd[e].rd
      /\ F = "eof" => hd[e].in = <<>>
      /\ F \in {"eos", "toolong", "data"} => hd[e].in # <<>>
      /\ F = "eos" => Head(hd[e].in).size = 0
      /\ F \in {"toolong", "data"} => Head(hd[e].in).size # 0
      /\ F = "toolong" => Head(hd[e].in).size > cap
      /\ F = "data" => ~(Head(hd[e].in).size > cap)
  BY DEF Finds
<1>3. F = "closed" => R = hd
  BY DEF Received
<1>4. F = "data" => R = [hd EXCEPT ![e].in = Tail(@), ![e].probed = None]
  BY DEF Received
<1>5. F \in {"eof", "eos", "toolong"} => R = Probed(hd, e)
  BY DEF Received
<1> HIDE DEF F, R
<1>6. F = "eof" => R = Closed(hd, e, TRUE, TRUE)
  BY <1>2, <1>5 DEF Probed
<1>7. F = "eos" => R = Closed([hd EXCEPT ![e].probed = 0, ![e].in = Tail(@)], e, FALSE, TRUE)
  BY <1>2, <1>5 DEF Probed
<1>8. F = "toolong" => R = [hd EXCEPT ![e].probed = Head(hd[e].in).size]
  BY <1>2, <1>5 DEF Probed
<1>9. F = "data" => TookAt(e, hd, R)
  <2> SUFFICES ASSUME F = "data" PROVE TookAt(e, hd, R)
    OBVIOUS
  <2> DEFINE n == None
             g == [hd EXCEPT ![e].in = Tail(@), ![e].probed = n]
  <2>1. n \in {None} \cup Nat
    OBVIOUS
  <2>2. R = g
    BY <1>4
  <2> HIDE DEF n
  <2>3. TookAt(e, hd, g)
    BY <1>1, <1>2, <2>1, TookProbed
  <2> QED BY <2>2, <2>3
<1>10. F = "eof" => BothAt(e, hd, R)
  BY <1>1, <1>6, ClosedBoth
<1>11. F = "eos" => EosAt(e, hd, R)
  <2> SUFFICES ASSUME F = "eos" PROVE EosAt(e, hd, R)
    OBVIOUS
  <2> DEFINE n == 0
             g == [hd EXCEPT ![e].probed = n, ![e].in = Tail(@)]
  <2>1. n \in {None} \cup Nat
    OBVIOUS
  <2>2. R = Closed(g, e, FALSE, TRUE)
    BY <1>7
  <2> HIDE DEF n
  <2>3. TookAt(e, hd, g)
    BY <1>1, <1>2, <2>1, TookProbed
  <2> HIDE DEF g
  <2>4. g \in [End -> HdRec]
    BY <2>3 DEF TookAt, Only
  <2>5. RdAt(e, g, R)
    BY <2>2, <2>4, ClosedRd
  <2> QED BY <1>1, <2>3, <2>5, EosParts
<1>12. F = "toolong" => ProbedAt(e, hd, R)
  <2> SUFFICES ASSUME F = "toolong" PROVE ProbedAt(e, hd, R)
    OBVIOUS
  <2> DEFINE n == Head(hd[e].in).size
  <2>0. Head(hd[e].in) \in MsgRec
    BY <1>1, <1>2
  <2>1. n \in {None} \cup Nat
    BY <2>0 DEF MsgRec
  <2>2. R = [hd EXCEPT ![e].probed = n]
    BY <1>8
  <2> HIDE DEF n
  <2> QED BY <1>1, <2>1, <2>2, ProbedIs
<1>13. HdC(p, hd, R)
  <2>1. F = "closed" => HdC(p, hd, R)
    BY <1>1, <1>3, StepsC
  <2>2. F = "data" => HdC(p, hd, R)
    BY <1>1, <1>9, StepsC
  <2>3. F = "toolong" => HdC(p, hd, R)
    BY <1>1, <1>12, StepsC
  <2>4. F = "eof" => HdC(p, hd, R)
    BY <1>1, <1>10, ClosesC
  <2>5. F = "eos" => HdC(p, hd, R)
    <3> SUFFICES ASSUME F = "eos" PROVE HdC(p, hd, R)
      OBVIOUS
    <3>1. R \in [End -> HdRec] /\ \A x \in End : x # e => R[x] = hd[x]
      BY <1>11 DEF EosAt, Only
    <3>2. Goes(hd[e], R[e])
      BY <1>11 DEF EosAt, Shape, Goes
    <3>3. ASSUME NEW x \in End
          PROVE  /\ x # e => SameFlags(R[x], hd[x]) /\ HeadKept(hd[x].in, R[x].in)
                 /\ Goes(hd[x], R[x])
      BY <3>1, <3>2 DEF SameFlags, HeadKept, Goes
    <3> QED BY <3>1, <3>3 DEF HdC
  <2> QED BY <1>2, <2>1, <2>2, <2>3, <2>4, <2>5
<1> QED BY <1>2, <1>3, <1>9, <1>10, <1>11, <1>12, <1>13 DEF F, R

\* A member receives: what it finds, what becomes of its handle and of the call.
LEMMA LeafReceivesIs ==
  ASSUME TInv, NEW p \in Leaf, NEW cap, NEW strict \in BOOLEAN, LeafReceives(p, cap, strict)
  PROVE  /\ proc[p].pc = "recv" /\ Readable(LEnd(p)) /\ Frame /\ ctx' = ctx
         /\ touched' \in BOOLEAN /\ HdC(p, hd, hd')
         /\ Finds(LEnd(p), cap) = "data" =>
              /\ TookAt(LEnd(p), hd, hd') /\ touched' = (touched \/ hd[LEnd(p)].freed)
              /\ Sets(p, "ready", proc[p].round, proc[p].idx, proc[p].buf,
                      Head(hd[LEnd(p)].in).data, "ok", proc[p].rank, proc[p].parts)
         /\ Finds(LEnd(p), cap) = "toolong" =>
              ProbedAt(LEnd(p), hd, hd') /\ touched' = (touched \/ hd[LEnd(p)].freed)
         /\ Finds(LEnd(p), cap) = "eos" =>
              /\ EosBothAt(LEnd(p), hd, hd')
              /\ touched' = (touched \/ hd[LEnd(p)].freed \/ hd[LEnd(p)].wr)
         /\ Finds(LEnd(p), cap) = "eof" => BothAt(LEnd(p), hd, hd')
         /\ Finds(LEnd(p), cap) = "closed" => WrAt(LEnd(p), hd, hd')
         /\ Finds(LEnd(p), cap) # "data" /\ strict =>
              Sets(p, "stop", proc[p].round, proc[p].idx, proc[p].buf, proc[p].out,
                   IF Finds(LEnd(p), cap) = "toolong" THEN "error" ELSE "zero",
                   proc[p].rank, proc[p].parts)
         /\ Finds(LEnd(p), cap) # "data" /\ ~strict =>
              Sets(p, "ready", proc[p].round, proc[p].idx, proc[p].buf, proc[p].out, "ok",
                   proc[p].rank, proc[p].parts)
<1> DEFINE e == LEnd(p)
           F == Finds(e, cap)
           h == Received(e, cap)
           end == F \in {"closed", "eof", "eos"}
           o == IF F = "data" THEN Head(hd[e].in).data ELSE proc[p].out
           re == IF F = "data" \/ ~strict THEN "ok" ELSE IF end THEN "zero" ELSE "error"
           c == IF F = "data" \/ ~strict THEN "ready" ELSE "stop"
<1>1. EndOf(p, p) = e /\ e \in End /\ p \in Slot /\ Owner(e) = p
  BY EndsAt, Slots
<1>2. /\ proc[p].pc = "recv" /\ Readable(e)
      /\ type' = type /\ pos' = pos /\ datacount' = datacount /\ ctx' = ctx
      /\ touched' = (touched \/ hd[e].freed \/ (end /\ h[e].freed))
      /\ hd' = IF end THEN Closed(h, e, TRUE, FALSE) ELSE h
      /\ proc' = [proc EXCEPT ![p].out = o, ![p].res = re, ![p].pc = c]
  BY <1>1 DEF LeafReceives, InCall, team
<1>3. Frame
  BY <1>2 DEF Frame
<1>4. touched' \in BOOLEAN
  BY <1>2
<1>5. proc \in [Slot -> ProcRec] /\ hd \in [End -> HdRec] /\ proc[p].out \in Seq(PieceRec)
  BY <1>1, ProcFields DEF TInv
<1>6. /\ F \in {"closed", "eof", "eos", "toolong", "data"}
      /\ HdC(p, hd, h)
      /\ F = "closed" => h = hd
      /\ F = "eof" => BothAt(e, hd, h)
      /\ F \in {"eos", "toolong", "data"} => hd[e].in # <<>>
      /\ F = "eos" => EosAt(e, hd, h)
      /\ F = "toolong" => ProbedAt(e, hd, h)
      /\ F = "data" => TookAt(e, hd, h)
  BY <1>1, ReceivedIs
<1> HIDE DEF e, F, h
<1>7. o \in Seq(PieceRec) /\ re \in Result /\ c \in Pc
  <2>1. hd[e].in \in Seq(MsgRec)
    BY <1>1, <1>5, HdFields
  <2>2. F = "data" => Head(hd[e].in).data \in Seq(PieceRec)
    <3> SUFFICES ASSUME F = "data" PROVE Head(hd[e].in).data \in Seq(PieceRec)
      OBVIOUS
    <3>1. Head(hd[e].in) \in MsgRec
      BY <1>6, <2>1
    <3> QED BY <3>1 DEF MsgRec
  <2> QED BY <1>5, <2>2 DEF Result, Pc
<1> HIDE DEF o, re, c
<1>8. Sets(p, c, proc[p].round, proc[p].idx, proc[p].buf, o, re, proc[p].rank, proc[p].parts)
  BY Zenon, <1>1, <1>2, <1>5, <1>7, SetOutResPc
<1>9. h \in [End -> HdRec]
  BY <1>6 DEF HdC
<1>10. F \in {"data", "toolong"} => hd' = h /\ touched' = (touched \/ hd[e].freed)
  BY <1>2
<1>11. F \in {"closed", "eof", "eos"} => WrAt(e, h, hd') /\ touched' = (touched \/ hd[e].freed \/ h[e].freed)
  BY <1>1, <1>2, <1>9, ClosedWr
<1>12. HdC(p, hd, hd')
  <2>1. CASE F \in {"data", "toolong"}
    BY <1>6, <1>10, <2>1
  <2>2. CASE F \in {"closed", "eof", "eos"}
    <3>1. HdC(p, h, hd')
      BY <1>1, <1>9, <1>11, <2>2, ClosesC
    <3> QED BY <1>6, <3>1, TransC
  <2> QED BY <1>6, <2>1, <2>2
<1>13. F = "eos" => EosBothAt(e, hd, hd') /\ touched' = (touched \/ hd[e].freed \/ hd[e].wr)
  <2> SUFFICES ASSUME F = "eos"
               PROVE  EosBothAt(e, hd, hd') /\ touched' = (touched \/ hd[e].freed \/ hd[e].wr)
    OBVIOUS
  <2>1. EosBothAt(e, hd, hd')
    BY <1>1, <1>5, <1>6, <1>11, ThenWr
  <2>2. h[e].freed <=> hd[e].freed \/ hd[e].wr
    BY <1>6 DEF EosAt
  <2> QED BY <1>11, <2>1, <2>2
<1>14. F = "eof" => BothAt(e, hd, hd')
  BY <1>1, <1>5, <1>6, <1>11, ThenWr
<1>15. F = "closed" => WrAt(e, hd, hd')
  BY <1>6, <1>11
<1>16. F = "data" => /\ o = Head(hd[e].in).data /\ re = "ok" /\ c = "ready"
  BY DEF o, re, c
<1>17. F # "data" /\ strict => o = proc[p].out /\ c = "stop" /\ re = IF F = "toolong" THEN "error" ELSE "zero"
  BY <1>6 DEF o, re, c
<1>18. F # "data" /\ ~strict => o = proc[p].out /\ c = "ready" /\ re = "ok"
  BY DEF o, re, c
<1>19. F = "data" => /\ TookAt(e, hd, hd') /\ touched' = (touched \/ hd[e].freed)
                     /\ Sets(p, "ready", proc[p].round, proc[p].idx, proc[p].buf,
                             Head(hd[e].in).data, "ok", proc[p].rank, proc[p].parts)
  BY <1>6, <1>8, <1>10, <1>16
<1>20. F = "toolong" => ProbedAt(e, hd, hd') /\ touched' = (touched \/ hd[e].freed)
  BY <1>6, <1>10
<1>21. F # "data" /\ strict => Sets(p, "stop", proc[p].round, proc[p].idx, proc[p].buf, proc[p].out,
           IF F = "toolong" THEN "error" ELSE "zero", proc[p].rank, proc[p].parts)
  BY <1>8, <1>17
<1>22. F # "data" /\ ~strict => Sets(p, "ready", proc[p].round, proc[p].idx, proc[p].buf, proc[p].out,
           "ok", proc[p].rank, proc[p].parts)
  BY <1>8, <1>18
<1> QED BY <1>2, <1>3, <1>4, <1>12, <1>13, <1>14, <1>15, <1>19, <1>20, <1>21, <1>22 DEF e, F

\* The first piece of a message that is no end of stream.
LEMMA FirstPiece ==
  ASSUME NEW h \in [End -> HdRec], NEW e \in End, h[e].in # <<>>, Head(h[e].in).size # 0
  PROVE  Head(h[e].in) \in MsgRec /\ Head(Head(h[e].in).data) \in PieceRec
<1>1. h[e].in \in Seq(MsgRec)
  BY HdFields
<1>2. Head(h[e].in) \in MsgRec
  BY <1>1
<1>3. Head(h[e].in).data \in Seq(PieceRec) /\ Head(h[e].in).data # <<>>
  BY <1>2 DEF MsgRec
<1> QED BY <1>2, <1>3

\* What an iteration of the loop in which the root receives does.
CollectDoes(cap, pc, k, all) ==
  /\ proc[Root].pc = "collect" /\ k \in Leaf /\ Readable(REnd(k)) /\ Frame /\ ctx' = ctx
  /\ touched' = (touched \/ hd[REnd(k)].freed) /\ touched' \in BOOLEAN
  /\ hd' = Received(REnd(k), cap[k]) /\ HdC(Root, hd, hd')
  /\ type \in Sym \cup {"GATHER"} /\ proc[Root].buf \in Seq(PieceRec) /\ Len(proc[Root].buf) = k
  /\ Finds(REnd(k), cap[k]) = "data" => all \in Seq(PieceRec)
  /\ Finds(REnd(k), cap[k]) = "data" /\ k < N - 1 =>
       Sets(Root, "collect", proc[Root].round, k + 1, all, proc[Root].out, proc[Root].res,
            proc[Root].rank, proc[Root].parts)
  /\ Finds(REnd(k), cap[k]) = "data" /\ k = N - 1 /\ pc = "spread" =>
       Sets(Root, "spread", proc[Root].round, 1, all, proc[Root].out, proc[Root].res,
            proc[Root].rank, proc[Root].parts)
  /\ Finds(REnd(k), cap[k]) = "data" /\ k = N - 1 /\ pc = "return" =>
       Sets(Root, "ready", proc[Root].round, k, proc[Root].buf, all, "ok",
            proc[Root].rank, proc[Root].parts)
  /\ Finds(REnd(k), cap[k]) # "data" =>
       Sets(Root, "stop", proc[Root].round, k, proc[Root].buf, proc[Root].out,
            IF Finds(REnd(k), cap[k]) = "toolong" THEN "error" ELSE "zero",
            proc[Root].rank, proc[Root].parts)

\* The root receives in a loop.
LEMMA CollectIs ==
  ASSUME TInv, type # "UCC_OOB", NEW cap, NEW pc, pc \in {"spread", "return"}, Collect(cap, pc),
         NEW k, k = proc[Root].idx, NEW all,
         all = Append(proc[Root].buf, Head(Head(hd[REnd(k)].in).data))
  PROVE  CollectDoes(cap, pc, k, all)
<1>1. Root \in Slot /\ proc[Root].pc = "collect"
  BY Zenon, Slots DEF Collect, InCall
<1>2. k \in Leaf /\ type \in Sym \cup {"GATHER"}
  BY <1>1 DEF TInv, ProcTy, PcTy
<1> DEFINE e == REnd(k)
           F == Finds(e, cap[k])
<1>3. EndOf(Root, k) = e /\ e \in End /\ Owner(e) = Root
  BY <1>2, EndsAt
<1>4. /\ Readable(e) /\ type' = type /\ pos' = pos /\ datacount' = datacount /\ ctx' = ctx
      /\ touched' = (touched \/ hd[e].freed)
      /\ hd' = Received(e, cap[k])
      /\ CASE F = "data" /\ k < N - 1 ->
                proc' = [proc EXCEPT ![Root].buf = all, ![Root].idx = k + 1]
           [] F = "data" /\ k = N - 1 /\ pc = "spread" ->
                proc' = [proc EXCEPT ![Root].buf = all, ![Root].idx = 1, ![Root].pc = pc]
           [] F = "data" /\ k = N - 1 /\ pc = "return" ->
                proc' = [proc EXCEPT ![Root].out = all, ![Root].res = "ok", ![Root].pc = "ready"]
           [] F = "toolong" -> Return(Root, "error")
           [] OTHER -> Return(Root, "zero")
  BY Zenon, <1>1, <1>3 DEF Collect, InCall, team, Touch
<1>5. HdC(Root, hd, hd') /\ F \in {"closed", "eof", "eos", "toolong", "data"}
  BY Zenon, <1>3, <1>4, ReceivedIs
<1> DEFINE A1 == proc' = [proc EXCEPT ![Root].buf = all, ![Root].idx = k + 1]
           A2 == proc' = [proc EXCEPT ![Root].buf = all, ![Root].idx = 1, ![Root].pc = pc]
           A3 == proc' = [proc EXCEPT ![Root].out = all, ![Root].res = "ok", ![Root].pc = "ready"]
           A4 == Return(Root, "error")
           A5 == Return(Root, "zero")
<1>16. /\ F = "data" /\ k < N - 1 => A1
       /\ F = "data" /\ k = N - 1 /\ pc = "spread" => A2
       /\ F = "data" /\ k = N - 1 /\ pc = "return" => A3
       /\ F = "toolong" => A4
       /\ F \notin {"data", "toolong"} => A5
  <2>1. (CASE F = "data" /\ k < N - 1 -> A1
           [] F = "data" /\ k = N - 1 /\ pc = "spread" -> A2
           [] F = "data" /\ k = N - 1 /\ pc = "return" -> A3
           [] F = "toolong" -> A4
           [] OTHER -> A5)
    BY Zenon, <1>4
  <2>2. k < N - 1 => k # N - 1
    BY <1>2, Slots
  <2> HIDE DEF A1, A2, A3, A4, A5, F
  <2> QED BY <2>1, <2>2
<1>6. F = "data" => hd[e].in # <<>> /\ Head(hd[e].in).size # 0
  BY <1>3, ReceivedIs
<1>7. proc \in [Slot -> ProcRec] /\ hd \in [End -> HdRec]
  BY DEF TInv
<1>8. proc[Root].buf \in Seq(PieceRec) /\ Len(proc[Root].buf) = k
  BY <1>1, <1>2 DEF TInv, BufTy
<1> HIDE DEF F, e
<1>9. F = "data" => all \in Seq(PieceRec)
  <2> SUFFICES ASSUME F = "data" PROVE all \in Seq(PieceRec)
    OBVIOUS
  <2>1. Head(Head(hd[e].in).data) \in PieceRec
    BY <1>3, <1>6, <1>7, FirstPiece
  <2>2. all = Append(proc[Root].buf, Head(Head(hd[e].in).data))
    BY DEF e
  <2> QED BY <1>8, <2>1, <2>2
<1>10. k \in 1 .. N /\ N \in Nat /\ N >= 2 /\ k + 1 \in 1 .. N
  BY <1>2, Slots
<1>11. F = "data" /\ k < N - 1 =>
         Sets(Root, "collect", proc[Root].round, k + 1, all, proc[Root].out, proc[Root].res,
              proc[Root].rank, proc[Root].parts)
  <2> SUFFICES ASSUME F = "data", k < N - 1
               PROVE  Sets(Root, proc[Root].pc, proc[Root].round, k + 1, all, proc[Root].out,
                           proc[Root].res, proc[Root].rank, proc[Root].parts)
    BY <1>1
  <2> DEFINE i == k + 1
             b == all
  <2>1. proc' = [proc EXCEPT ![Root].buf = b, ![Root].idx = i]
    BY Zenon, <1>16
  <2>2. i \in 1 .. N /\ b \in [Slot -> PieceRec] \cup Seq(PieceRec)
    BY <1>9, <1>10
  <2> HIDE DEF i, b
  <2>3. Sets(Root, proc[Root].pc, proc[Root].round, i, b, proc[Root].out,
                           proc[Root].res, proc[Root].rank, proc[Root].parts)
    BY Zenon, <1>1, <1>7, <2>1, <2>2, SetBufIdx
  <2> QED BY <2>3 DEF i, b
<1>12. F = "data" /\ k = N - 1 /\ pc = "spread" =>
         Sets(Root, "spread", proc[Root].round, 1, all, proc[Root].out, proc[Root].res,
              proc[Root].rank, proc[Root].parts)
  <2> SUFFICES ASSUME F = "data", k = N - 1, pc = "spread"
               PROVE  Sets(Root, pc, proc[Root].round, 1, all, proc[Root].out,
                           proc[Root].res, proc[Root].rank, proc[Root].parts)
    OBVIOUS
  <2> DEFINE i == 1
             b == all
             c == pc
  <2>1. proc' = [proc EXCEPT ![Root].buf = b, ![Root].idx = i, ![Root].pc = c]
    BY Zenon, <1>16
  <2>2. i \in 1 .. N /\ b \in [Slot -> PieceRec] \cup Seq(PieceRec) /\ c \in Pc
    BY <1>9, <1>10 DEF Pc
  <2> HIDE DEF i, b, c
  <2>3. Sets(Root, c, proc[Root].round, i, b, proc[Root].out,
                           proc[Root].res, proc[Root].rank, proc[Root].parts)
    BY Zenon, <1>1, <1>7, <2>1, <2>2, SetBufIdxPc
  <2> QED BY <2>3 DEF i, b, c
<1>13. F = "data" /\ k = N - 1 /\ pc = "return" =>
         Sets(Root, "ready", proc[Root].round, proc[Root].idx, proc[Root].buf, all, "ok",
              proc[Root].rank, proc[Root].parts)
  <2> SUFFICES ASSUME F = "data", k = N - 1, pc = "return"
               PROVE  Sets(Root, "ready", proc[Root].round, proc[Root].idx, proc[Root].buf, all, "ok",
                           proc[Root].rank, proc[Root].parts)
    OBVIOUS
  <2> DEFINE re == "ok"
             b == all
             c == "ready"
  <2>1. proc' = [proc EXCEPT ![Root].out = b, ![Root].res = re, ![Root].pc = c]
    BY Zenon, <1>16
  <2>2. b \in Seq(PieceRec) /\ c \in Pc /\ re \in Result
    BY <1>9 DEF Pc, Result
  <2> HIDE DEF re, b, c
  <2>3. Sets(Root, c, proc[Root].round, proc[Root].idx, proc[Root].buf, b, re,
             proc[Root].rank, proc[Root].parts)
    BY Zenon, <1>1, <1>7, <2>1, <2>2, SetOutResPc
  <2> QED BY <2>3 DEF re, b, c
<1>14. F # "data" =>
         Sets(Root, "stop", proc[Root].round, proc[Root].idx, proc[Root].buf, proc[Root].out,
              IF F = "toolong" THEN "error" ELSE "zero", proc[Root].rank, proc[Root].parts)
  <2> SUFFICES ASSUME F # "data"
               PROVE Sets(Root, "stop", proc[Root].round, proc[Root].idx, proc[Root].buf, proc[Root].out,
                     IF F = "toolong" THEN "error" ELSE "zero", proc[Root].rank, proc[Root].parts)
    OBVIOUS
  <2> DEFINE re == IF F = "toolong" THEN "error" ELSE "zero"
  <2>1. Return(Root, re)
    BY Zenon, <1>5, <1>16
  <2>2. re \in Result /\ re # "ok"
    BY DEF Result
  <2> HIDE DEF re
  <2>3. Sets(Root, IF re = "ok" THEN "ready" ELSE "stop", proc[Root].round, proc[Root].idx, proc[Root].buf,
             proc[Root].out, re, proc[Root].rank, proc[Root].parts)
    BY <1>1, <2>1, <2>2, ReturnIs
  <2>4. Sets(Root, "stop", proc[Root].round, proc[Root].idx, proc[Root].buf,
             proc[Root].out, re, proc[Root].rank, proc[Root].parts)
    BY <2>2, <2>3
  <2> QED BY <2>4 DEF re
<1>15. touched' \in BOOLEAN /\ Frame
  BY Zenon, <1>4 DEF Frame
<1> QED BY Zenon, <1>1, <1>2, <1>4, <1>5, <1>8, <1>9, <1>11, <1>12, <1>13, <1>14, <1>15
  DEF F, e, CollectDoes

\* A call fails.
LEMMA ErrorIs ==
  ASSUME TInv, NEW p \in Slot, Return(p, "error")
  PROVE  Sets(p, "stop", proc[p].round, proc[p].idx, proc[p].buf, proc[p].out, "error",
              proc[p].rank, proc[p].parts)
<1> DEFINE re == "error"
<1>1. Return(p, re) /\ re \in Result /\ re # "ok"
  BY DEF Result
<1> HIDE DEF re
<1>2. Sets(p, IF re = "ok" THEN "ready" ELSE "stop", proc[p].round, proc[p].idx, proc[p].buf,
           proc[p].out, re, proc[p].rank, proc[p].parts)
  BY <1>1, ReturnIs
<1>3. Sets(p, "stop", proc[p].round, proc[p].idx, proc[p].buf,
           proc[p].out, re, proc[p].rank, proc[p].parts)
  BY <1>1, <1>2
<1> QED BY <1>3 DEF re

\* The root sends in a loop.
LEMMA SpreadIs ==
  ASSUME TInv, NEW data, NEW out \in Seq(PieceRec), Spread(data, out),
         NEW k, k = proc[Root].idx, data[k] \in Seq(PieceRec)
  PROVE  /\ proc[Root].pc = "spread" /\ k \in Leaf /\ Frame /\ ctx' = ctx
         /\ touched' = (touched \/ hd[REnd(k)].freed) /\ touched' \in BOOLEAN
         /\ HdC(Root, hd, hd') /\ type \in Down \cup Sym \cup {"UCC_OOB"}
         /\ \/ /\ Sets(Root, "stop", proc[Root].round, k, proc[Root].buf, proc[Root].out, "error",
                       proc[Root].rank, proc[Root].parts)
               /\ ~hd[LEnd(k)].open /\ hd' = hd
            \/ /\ \/ hd[LEnd(k)].open /\ PutAt(LEnd(k), Msg(data[k]), hd, hd')
                  \/ ~hd[LEnd(k)].open /\ hd' = hd
               /\ k < N - 1 =>
                    Sets(Root, "spread", proc[Root].round, k + 1, proc[Root].buf, proc[Root].out,
                         proc[Root].res, proc[Root].rank, proc[Root].parts)
               /\ k = N - 1 =>
                    Sets(Root, "ready", proc[Root].round, k, proc[Root].buf, out, "ok",
                         proc[Root].rank, proc[Root].parts)
<1>1. Root \in Slot /\ proc[Root].pc = "spread"
  BY Slots DEF Spread, InCall
<1>2. k \in Leaf /\ type \in Down \cup Sym \cup {"UCC_OOB"}
  BY <1>1 DEF TInv, ProcTy, PcTy
<1> DEFINE e == REnd(k)
           d == data[k]
<1>3. EndOf(Root, k) = e /\ e \in End /\ Owner(e) = Root /\ Peer(e) = LEnd(k)
  BY <1>2, EndsAt
<1> DEFINE A1 == proc' = [proc EXCEPT ![Root].idx = k + 1]
           A2 == proc' = [proc EXCEPT ![Root].out = out, ![Root].res = "ok", ![Root].pc = "ready"]
<1>4. /\ type' = type /\ pos' = pos /\ datacount' = datacount /\ ctx' = ctx
      /\ Send(Root, e, d, IF k < N - 1 THEN A1 ELSE A2)
  BY <1>1, <1>3 DEF Spread, InCall, team
<1> HIDE DEF e, d, A1, A2
<1>5. d \in Seq(PieceRec)
  BY DEF d
<1>6. /\ touched' = (touched \/ hd[e].freed) /\ touched' \in BOOLEAN
      /\ HdC(Root, hd, hd')
      /\ \/ (IF k < N - 1 THEN A1 ELSE A2) /\ hd[Peer(e)].open /\ PutAt(Peer(e), Msg(d), hd, hd')
         \/ (IF k < N - 1 THEN A1 ELSE A2) /\ ~hd[Peer(e)].open /\ hd' = hd
         \/ Return(Root, "error") /\ ~hd[Peer(e)].open /\ hd' = hd
  BY <1>1, <1>3, <1>4, <1>5, SendIs
<1>7. proc \in [Slot -> ProcRec]
  BY DEF TInv
<1>8. k \in 1 .. N /\ N \in Nat /\ N >= 2 /\ k + 1 \in 1 .. N /\ k <= N - 1
  BY <1>2, Slots
<1>9. A1 => Sets(Root, "spread", proc[Root].round, k + 1, proc[Root].buf, proc[Root].out,
                 proc[Root].res, proc[Root].rank, proc[Root].parts)
  <2> SUFFICES ASSUME A1
               PROVE  Sets(Root, proc[Root].pc, proc[Root].round, k + 1, proc[Root].buf, proc[Root].out,
                           proc[Root].res, proc[Root].rank, proc[Root].parts)
    BY <1>1
  <2> DEFINE i == k + 1
  <2>1. proc' = [proc EXCEPT ![Root].idx = i] /\ i \in 1 .. N
    BY <1>8 DEF A1
  <2> HIDE DEF i
  <2>2. Sets(Root, proc[Root].pc, proc[Root].round, i, proc[Root].buf, proc[Root].out,
             proc[Root].res, proc[Root].rank, proc[Root].parts)
    BY <1>1, <1>7, <2>1, SetIdx
  <2> QED BY <2>2 DEF i
<1>10. A2 => Sets(Root, "ready", proc[Root].round, proc[Root].idx, proc[Root].buf, out, "ok",
                  proc[Root].rank, proc[Root].parts)
  <2> SUFFICES ASSUME A2
               PROVE  Sets(Root, "ready", proc[Root].round, proc[Root].idx, proc[Root].buf, out, "ok",
                           proc[Root].rank, proc[Root].parts)
    OBVIOUS
  <2> DEFINE re == "ok"
             c == "ready"
  <2>1. /\ proc' = [proc EXCEPT ![Root].out = out, ![Root].res = re, ![Root].pc = c]
        /\ re \in Result /\ c \in Pc
    BY DEF A2, Pc, Result
  <2> HIDE DEF re, c
  <2>2. Sets(Root, c, proc[Root].round, proc[Root].idx, proc[Root].buf, out, re,
             proc[Root].rank, proc[Root].parts)
    BY Zenon, <1>1, <1>7, <2>1, SetOutResPc
  <2> QED BY <2>2 DEF re, c
<1>11. Return(Root, "error") =>
         Sets(Root, "stop", proc[Root].round, proc[Root].idx, proc[Root].buf, proc[Root].out, "error",
              proc[Root].rank, proc[Root].parts)
  BY <1>1, ErrorIs
<1>12. Frame
  BY <1>4 DEF Frame
<1>13. /\ k < N - 1 /\ (IF k < N - 1 THEN A1 ELSE A2) => A1
       /\ k = N - 1 /\ (IF k < N - 1 THEN A1 ELSE A2) => A2
  BY <1>8
<1> DEFINE S1 == Sets(Root, "spread", proc[Root].round, k + 1, proc[Root].buf, proc[Root].out,
                      proc[Root].res, proc[Root].rank, proc[Root].parts)
           S2 == Sets(Root, "ready", proc[Root].round, k, proc[Root].buf, out, "ok",
                      proc[Root].rank, proc[Root].parts)
           S3 == Sets(Root, "stop", proc[Root].round, k, proc[Root].buf, proc[Root].out, "error",
                      proc[Root].rank, proc[Root].parts)
<1>14. (A1 => S1) /\ (A2 => S2) /\ (Return(Root, "error") => S3)
  BY <1>9, <1>10, <1>11
<1> HIDE DEF S1, S2, S3
<1>15. \/ S3 /\ ~hd[LEnd(k)].open /\ hd' = hd
       \/ /\ \/ hd[LEnd(k)].open /\ PutAt(LEnd(k), Msg(data[k]), hd, hd')
             \/ ~hd[LEnd(k)].open /\ hd' = hd
          /\ (k < N - 1 => S1) /\ (k = N - 1 => S2)
  BY <1>3, <1>6, <1>13, <1>14 DEF d
<1>16. touched' = (touched \/ hd[REnd(k)].freed) /\ touched' \in BOOLEAN
  BY <1>6 DEF e
<1>17. ctx' = ctx
  BY <1>4
<1> QED BY <1>1, <1>2, <1>6, <1>12, <1>15, <1>16, <1>17 DEF S1, S2, S3

\* A call begins.
LEMMA BeginIs ==
  ASSUME TInv, NEW p \in Slot, NEW c \in Pc, NEW own \in [Slot -> PieceRec] \cup Seq(PieceRec),
         Begin(p, c, own)
  PROVE  /\ proc[p].pc = "ready" /\ Frame /\ ctx' = ctx /\ touched' = touched /\ hd' = hd
         /\ HdC(p, hd, hd')
         /\ proc[p].round < Rounds \/ (type \in Down /\ p # Root) \/ (type = "GATHER" /\ p = Root)
         /\ Sets(p, c, IF proc[p].round <= Rounds THEN proc[p].round + 1 ELSE proc[p].round, 1, own,
                 proc[p].out, proc[p].res, proc[p].rank, proc[p].parts)
<1> DEFINE ro == IF proc[p].round <= Rounds THEN proc[p].round + 1 ELSE proc[p].round
           i == 1
<1>1. /\ proc[p].pc = "ready" /\ ctx' = ctx /\ touched' = touched /\ hd' = hd
      /\ type' = type /\ pos' = pos /\ datacount' = datacount
      /\ proc[p].round < Rounds \/ (type \in Down /\ p # Root) \/ (type = "GATHER" /\ p = Root)
      /\ proc' = [proc EXCEPT ![p].pc = c, ![p].idx = i, ![p].buf = own, ![p].round = ro]
  BY DEF Begin, Down, team
<1>2. proc[p].round \in 0 .. Rounds + 1 /\ Rounds \in Nat /\ N \in Nat \ {0, 1}
  BY ProcFields, TeamAssumption DEF TInv
<1>3. ro \in 0 .. Rounds + 1 /\ i \in 1 .. N
  BY <1>2
<1>4. proc \in [Slot -> ProcRec] /\ hd \in [End -> HdRec]
  BY DEF TInv
<1> HIDE DEF ro, i
<1>5. Sets(p, c, ro, i, own, proc[p].out, proc[p].res, proc[p].rank, proc[p].parts)
  BY Zenon, <1>1, <1>3, <1>4, SetPcIdxBufRound
<1>6. 1 \in Leaf
  BY Slots
<1>7. REnd(1) \in End
  BY <1>6, EndsAt
<1>8. HdC(p, hd, hd)
  BY <1>4, <1>7, StepsC
<1> QED BY <1>1, <1>5, <1>8 DEF ro, i, Frame

\* A call succeeds.
LEMMA OkIs ==
  ASSUME TInv, NEW p \in Slot, Return(p, "ok")
  PROVE  Sets(p, "ready", proc[p].round, proc[p].idx, proc[p].buf, proc[p].out, "ok",
              proc[p].rank, proc[p].parts)
<1> DEFINE re == "ok"
<1>1. Return(p, re) /\ re \in Result /\ re = "ok"
  BY DEF Result
<1> HIDE DEF re
<1>2. Sets(p, IF re = "ok" THEN "ready" ELSE "stop", proc[p].round, proc[p].idx, proc[p].buf,
           proc[p].out, re, proc[p].rank, proc[p].parts)
  BY <1>1, ReturnIs
<1>3. Sets(p, "ready", proc[p].round, proc[p].idx, proc[p].buf,
           proc[p].out, re, proc[p].rank, proc[p].parts)
  BY <1>1, <1>2
<1> QED BY <1>3 DEF re

\* ... when it is the root, within a call.
LEMMA TypeCall ==
  ASSUME TInv, Frame, Others(Root), HdC(Root, hd, hd'), ctx' = ctx, touched' \in BOOLEAN,
         PcTy(type, Root, proc'[Root].pc), proc'[Root].pc \in {"collect", "reply", "block", "spread"},
         proc'[Root].idx \in Leaf,
         type = "UCC_OOB" => proc'[Root].buf \in [Slot -> PieceRec],
         type \in Sym \cup {"GATHER"} => proc'[Root].buf \in Seq(PieceRec),
         type \in Sym \cup {"GATHER"} /\ proc'[Root].pc = "collect" => Len(proc'[Root].buf) = proc'[Root].idx,
         type \in Sym /\ proc'[Root].pc = "spread" => Len(proc'[Root].buf) = N
  PROVE  TInv'
<1>1. type' = type /\ Root \in Slot /\ ctx' \in [Slot -> {"app", "managed", "queued"}]
  BY Slots DEF Frame, TInv
<1>2. /\ proc'[Root].pc # "dead" /\ proc'[Root].pc # "got" /\ proc'[Root].pc \notin {"hold", "got"}
      /\ proc'[Root].pc \notin {"received", "away"}
  OBVIOUS
<1>3. proc[Root].pc # "dead"
  BY <1>1 DEF TInv, ProcTy, PcTy
<1>4. ProcTy(Root)'
  BY <1>1 DEF ProcTy
<1>5. GotTy(Root)'
  BY <1>2 DEF GotTy
<1>6. BufTy'
  BY <1>1 DEF BufTy
<1>7. FanTy'
  BY <1>2 DEF FanTy
<1> QED BY <1>1, <1>2, <1>3, <1>4, <1>5, <1>6, <1>7, TypeStep

\* Beginning a call.
LEMMA TypeBegin ==
  ASSUME TInv, NEW p \in Slot, NEW c, NEW own, Begin(p, c, own), PcTy(type, p, c),
         \/ p # Root /\ c \in {"send", "recv", "result"} /\ own = <<>>
         \/ /\ p = Root /\ c \in {"collect", "spread"}
            /\ own \in [Slot -> PieceRec] \cup Seq(PieceRec)
            /\ type = "UCC_OOB" => own \in [Slot -> PieceRec]
            /\ type \in Sym \cup {"GATHER"} => own \in Seq(PieceRec) /\ Len(own) = 1 /\ c = "collect"
  PROVE  TInv'
<1>1. c \in Pc
  BY DEF Pc
<1>2. own \in [Slot -> PieceRec] \cup Seq(PieceRec)
  <2>1. CASE p # Root
    <3>1. own = <<>> /\ <<>> \in Seq(PieceRec)
      BY <2>1
    <3>2. own \in Seq(PieceRec)
      BY <3>1
    <3> QED BY ONLY <3>2
  <2>2. CASE p = Root
    BY <2>2
  <2> QED BY <2>1, <2>2
<1> DEFINE ro == IF proc[p].round <= Rounds THEN proc[p].round + 1 ELSE proc[p].round
<1>3. /\ proc[p].pc = "ready" /\ Frame /\ ctx' = ctx /\ touched' = touched /\ hd' = hd
      /\ HdC(p, hd, hd')
      /\ Sets(p, c, ro, 1, own, proc[p].out, proc[p].res, proc[p].rank, proc[p].parts)
  BY <1>1, <1>2, BeginIs
<1> HIDE DEF ro
<1>4. /\ ctx' \in [Slot -> {"app", "managed", "queued"}] /\ touched' \in BOOLEAN
  BY <1>3 DEF TInv
<1>5. Others(p) /\ proc'[p].pc = c /\ proc'[p].idx = 1 /\ proc'[p].buf = own
  BY <1>3 DEF Sets, Others
<1>6. CASE p # Root
  <2>1. c \in {"send", "recv", "result"}
    BY <1>6
  <2>2. proc'[p].pc \in {"ready", "stop", "final", "end", "send", "sendblock", "recv", "result"}
    BY <1>5, <2>1
  <2>3. proc[p].pc # "dead" /\ PcTy(type, p, proc'[p].pc)
    BY <1>3, <1>5
  <2> QED BY <1>3, <1>4, <1>5, <2>2, <2>3, TypeRest
<1>7. CASE p = Root
  <2>1. /\ c \in {"collect", "spread"} /\ (type = "UCC_OOB" => own \in [Slot -> PieceRec])
        /\ type \in Sym \cup {"GATHER"} => own \in Seq(PieceRec) /\ Len(own) = 1 /\ c = "collect"
    BY <1>7
  <2>2. 1 \in Leaf /\ type \in Sym => type \in Sym \cup {"GATHER"}
    BY Slots
  <2>3. Others(Root) /\ proc'[Root].pc = c /\ proc'[Root].idx = 1 /\ proc'[Root].buf = own
    BY <1>5, <1>7
  <2>4. proc'[Root].pc \in {"collect", "reply", "block", "spread"} /\ PcTy(type, Root, proc'[Root].pc)
    BY <1>7, <2>1, <2>3
  <2>5. /\ proc'[Root].idx \in Leaf /\ (type = "UCC_OOB" => proc'[Root].buf \in [Slot -> PieceRec])
        /\ type \in Sym \cup {"GATHER"} => proc'[Root].buf \in Seq(PieceRec)
        /\ type \in Sym \cup {"GATHER"} /\ proc'[Root].pc = "collect" => Len(proc'[Root].buf) = proc'[Root].idx
        /\ type \in Sym /\ proc'[Root].pc = "spread" => Len(proc'[Root].buf) = N
    BY <2>1, <2>2, <2>3, Slots
  <2>6. HdC(Root, hd, hd')
    BY <1>3, <1>7
  <2> QED BY <1>3, <1>4, <2>3, <2>4, <2>5, <2>6, TypeCall
<1> QED BY <1>6, <1>7

\* A member sends.
LEMMA TypeLeafSends ==
  ASSUME TInv, NEW p \in Leaf, NEW data \in Seq(PieceRec), NEW pc,
         LeafSends(p, data, pc),
         \/ pc = "return"
         \/ pc = "recv" /\ type \in Down \cup Sym \cup {"UCC_OOB"}
         \/ pc = "sendblock" /\ type = "UCC_OOB"
  PROVE  TInv'
<1>0. pc \in {"return", "recv", "sendblock"} /\ p \in Slot /\ p # Root
  BY Slots
<1>1. /\ proc[p].pc = "send" /\ Frame /\ ctx' = ctx /\ touched' \in BOOLEAN
      /\ HdC(p, hd, hd')
      /\ \/ IF pc = "return" THEN Return(p, "ok") ELSE Goto(p, pc)
         \/ Return(p, "error")
  BY <1>0, LeafSendsIs
<1>2. type \in Sym \cup {"GATHER", "UCC_OOB"} /\ type \in Types
  BY <1>0, <1>1 DEF TInv, ProcTy, PcTy
<1>3. Others(p) /\ proc'[p].pc \in {"ready", "stop", "recv", "sendblock"} /\ PcTy(type, p, proc'[p].pc)
  <2>1. PcTy(type, p, "ready") /\ PcTy(type, p, "stop")
    BY <1>2 DEF PcTy, FanSide, Sym
  <2>2. CASE Return(p, "error")
    <3>1. Others(p) /\ proc'[p].pc = "stop"
      BY <1>0, <2>2, ErrorIs DEF Sets, Others
    <3> QED BY <2>1, <3>1
  <2>3. CASE pc = "return" /\ Return(p, "ok")
    <3>1. Others(p) /\ proc'[p].pc = "ready"
      BY <1>0, <2>3, OkIs DEF Sets, Others
    <3> QED BY <2>1, <3>1
  <2>4. CASE pc # "return" /\ Goto(p, pc)
    <3>1. pc \in Pc /\ pc \in {"recv", "sendblock"}
      BY <1>0, <2>4 DEF Pc
    <3>2. Others(p) /\ proc'[p].pc = pc
      BY <1>0, <2>4, <3>1, GotoIs DEF Sets, Others
    <3>3. PcTy(type, p, pc)
      BY <1>0, <3>1 DEF PcTy
    <3> QED BY <3>1, <3>2, <3>3
  <2> QED BY <1>1, <2>2, <2>3, <2>4
<1>4. /\ ctx' \in [Slot -> {"app", "managed", "queued"}] /\ proc[p].pc # "dead"
      /\ proc'[p].pc \in {"ready", "stop", "final", "end", "send", "sendblock", "recv", "result"}
  BY <1>1, <1>3 DEF TInv
<1> QED BY <1>0, <1>1, <1>3, <1>4, TypeRest

\* A member receives.
LEMMA TypeLeafReceives ==
  ASSUME TInv, NEW p \in Leaf, NEW cap, NEW strict \in BOOLEAN, LeafReceives(p, cap, strict)
  PROVE  TInv'
<1>0. p \in Slot /\ p # Root
  BY Slots
<1>1. /\ proc[p].pc = "recv" /\ Frame /\ ctx' = ctx /\ touched' \in BOOLEAN
      /\ HdC(p, hd, hd')
  BY LeafReceivesIs
<1>2. type \in Down \cup Sym \cup {"UCC_OOB"}
  BY <1>0, <1>1 DEF TInv, ProcTy, PcTy
<1>3. Others(p) /\ proc'[p].pc \in {"ready", "stop"}
  <2>1. CASE Finds(LEnd(p), cap) = "data"
    BY <2>1, LeafReceivesIs DEF Sets, Others
  <2>2. CASE Finds(LEnd(p), cap) # "data" /\ strict
    BY <2>2, LeafReceivesIs DEF Sets, Others
  <2>3. CASE Finds(LEnd(p), cap) # "data" /\ ~strict
    BY <2>3, LeafReceivesIs DEF Sets, Others
  <2> QED BY <2>1, <2>2, <2>3
<1>4. PcTy(type, p, "ready") /\ PcTy(type, p, "stop")
  BY <1>2 DEF PcTy, FanSide, Sym, Down
<1>5. /\ ctx' \in [Slot -> {"app", "managed", "queued"}] /\ proc[p].pc # "dead"
      /\ proc'[p].pc \in {"ready", "stop", "final", "end", "send", "sendblock", "recv", "result"}
      /\ PcTy(type, p, proc'[p].pc)
  BY <1>1, <1>3, <1>4 DEF TInv
<1> QED BY <1>0, <1>1, <1>3, <1>5, TypeRest

\* Ranks are places in the participants string.
LEMMA RankIn ==
  ASSUME TInv, NEW s \in Slot
  PROVE  RankOf(s) \in Slot /\ RankOf(s) \in Nat /\ pos \in Slot /\ datacount \in Nat
<1>1. pos \in 0 .. N - 1 /\ datacount \in Nat /\ N \in Nat /\ s \in 0 .. N - 1
  BY TeamAssumption DEF TInv, Slot
<1>2. RankOf(s) \in 0 .. N - 1
  BY <1>1 DEF RankOf, Root
<1> QED BY <1>1, <1>2 DEF Slot

\* A message of one piece.
LEMMA MineIn ==
  ASSUME TInv, NEW p \in Slot, NEW off \in Nat, NEW len \in Nat
  PROVE  /\ Mine(p, off, len) \in Seq(PieceRec) /\ Own(p, off, len) \in Seq(PieceRec)
         /\ Len(Mine(p, off, len)) = 1 /\ Len(Own(p, off, len)) = 1
         /\ Mine(p, off, len) = <<Piece(p, proc[p].round, off, len)>>
         /\ Own(p, off, len) = <<Piece(p, proc[p].round + 1, off, len)>>
<1>1. proc[p].round \in Nat /\ proc[p].round + 1 \in Nat
  <2>1. proc[p].round \in 0 .. Rounds + 1 /\ Rounds \in Nat
    BY ProcFields, TeamAssumption DEF TInv
  <2> QED BY <2>1
<1>2. \A r \in Nat : Piece(p, r, off, len) \in PieceRec
  BY DEF Piece, PieceRec
<1>3. /\ Mine(p, off, len) = <<Piece(p, proc[p].round, off, len)>>
      /\ Own(p, off, len) = <<Piece(p, proc[p].round + 1, off, len)>>
  BY DEF Mine, Own, Round
<1> DEFINE x == Piece(p, proc[p].round, off, len)
           y == Piece(p, proc[p].round + 1, off, len)
<1>4. x \in PieceRec /\ y \in PieceRec
  BY <1>1, <1>2
<1> HIDE DEF x, y
<1>5. <<x>> \in Seq(PieceRec) /\ <<y>> \in Seq(PieceRec) /\ Len(<<x>>) = 1 /\ Len(<<y>>) = 1
  BY <1>4
<1> QED BY <1>3, <1>5 DEF x, y

\* The root receives.
LEMMA TypeCollect ==
  ASSUME TInv, type # "UCC_OOB", NEW cap, NEW pc, Collect(cap, pc),
         (pc = "spread" /\ type \in Sym) \/ pc = "return"
  PROVE  TInv'
<1> DEFINE k == proc[Root].idx
           all == Append(proc[Root].buf, Head(Head(hd[REnd(k)].in).data))
           F == Finds(REnd(k), cap[k])
<1>0. pc \in {"spread", "return"} /\ Root \in Slot
  BY Slots
<1>10. k = proc[Root].idx /\ all = Append(proc[Root].buf, Head(Head(hd[REnd(k)].in).data))
  OBVIOUS
<1> HIDE DEF k, all
<1>11. CollectDoes(cap, pc, k, all)
  BY <1>0, <1>10, CollectIs
<1>1. /\ proc[Root].pc = "collect" /\ k \in Leaf /\ Frame /\ ctx' = ctx
      /\ touched' \in BOOLEAN /\ HdC(Root, hd, hd')
      /\ type \in Sym \cup {"GATHER"} /\ proc[Root].buf \in Seq(PieceRec) /\ Len(proc[Root].buf) = k
      /\ F = "data" => all \in Seq(PieceRec)
      /\ F = "data" /\ k < N - 1 =>
           Sets(Root, "collect", proc[Root].round, k + 1, all, proc[Root].out, proc[Root].res,
                proc[Root].rank, proc[Root].parts)
      /\ F = "data" /\ k = N - 1 /\ pc = "spread" =>
           Sets(Root, "spread", proc[Root].round, 1, all, proc[Root].out, proc[Root].res,
                proc[Root].rank, proc[Root].parts)
      /\ F = "data" /\ k = N - 1 /\ pc = "return" =>
           Sets(Root, "ready", proc[Root].round, k, proc[Root].buf, all, "ok",
                proc[Root].rank, proc[Root].parts)
      /\ F # "data" =>
           Sets(Root, "stop", proc[Root].round, k, proc[Root].buf, proc[Root].out,
                IF F = "toolong" THEN "error" ELSE "zero", proc[Root].rank, proc[Root].parts)
  BY <1>11 DEF CollectDoes
<1>2. F = "data" => Len(all) = k + 1
  <2> SUFFICES ASSUME F = "data" PROVE Len(all) = k + 1
    OBVIOUS
  <2>1. proc[Root].buf \in Seq(PieceRec) /\ Len(proc[Root].buf) = k
    BY <1>1
  <2> QED BY <1>10, <2>1
<1> HIDE DEF F
<1>3. k \in Nat /\ k <= N - 1 /\ N \in Nat /\ 1 \in Leaf /\ (k < N - 1 => k + 1 \in Leaf)
  BY <1>1, Slots DEF Leaf
<1>4. ctx' \in [Slot -> {"app", "managed", "queued"}] /\ proc[Root].pc # "dead"
  BY <1>1 DEF TInv
<1>5. CASE F = "data" /\ k < N - 1
  <2>1. Others(Root) /\ proc'[Root].pc = "collect" /\ proc'[Root].idx = k + 1 /\ proc'[Root].buf = all
    BY <1>1, <1>5 DEF Sets, Others
  <2>2. proc'[Root].pc \in {"collect", "reply", "block", "spread"} /\ PcTy(type, Root, proc'[Root].pc)
    BY <1>1, <2>1 DEF PcTy
  <2>3. /\ proc'[Root].idx \in Leaf /\ type # "UCC_OOB"
        /\ proc'[Root].buf \in Seq(PieceRec) /\ Len(proc'[Root].buf) = proc'[Root].idx
        /\ proc'[Root].pc # "spread"
    BY <1>1, <1>2, <1>3, <1>5, <2>1
  <2> QED BY <1>1, <2>1, <2>2, <2>3, TypeCall
<1>6. CASE F = "data" /\ k = N - 1 /\ pc = "spread"
  <2>1. Others(Root) /\ proc'[Root].pc = "spread" /\ proc'[Root].idx = 1 /\ proc'[Root].buf = all
    BY <1>1, <1>6 DEF Sets, Others
  <2>2. proc'[Root].pc \in {"collect", "reply", "block", "spread"} /\ PcTy(type, Root, proc'[Root].pc)
    BY <1>6, <2>1 DEF PcTy
  <2>3. /\ proc'[Root].idx \in Leaf /\ type # "UCC_OOB"
        /\ proc'[Root].buf \in Seq(PieceRec) /\ Len(proc'[Root].buf) = N
        /\ proc'[Root].pc # "collect"
    BY <1>1, <1>2, <1>3, <1>6, <2>1
  <2> QED BY <1>1, <2>1, <2>2, <2>3, TypeCall
<1>7. CASE (F = "data" /\ k = N - 1 /\ pc = "return") \/ F # "data"
  <2>1. Others(Root) /\ proc'[Root].pc \in {"ready", "stop"}
    BY <1>1, <1>7 DEF Sets, Others
  <2>2. PcTy(type, Root, "ready") /\ PcTy(type, Root, "stop")
    BY <1>1 DEF PcTy, FanSide, Sym
  <2>3. /\ proc'[Root].pc \in {"ready", "stop", "final", "end", "send", "sendblock", "recv", "result"}
        /\ PcTy(type, Root, proc'[Root].pc)
    BY <2>1, <2>2
  <2> QED BY <1>0, <1>1, <1>4, <2>1, <2>3, TypeRest
<1> QED BY <1>0, <1>3, <1>5, <1>6, <1>7

\* The root sends.
LEMMA TypeSpread ==
  ASSUME TInv, NEW data, NEW out \in Seq(PieceRec), Spread(data, out),
         data[proc[Root].idx] \in Seq(PieceRec)
  PROVE  TInv'
<1> DEFINE k == proc[Root].idx
<1>0. Root \in Slot
  BY Slots
<1>1. /\ proc[Root].pc = "spread" /\ k \in Leaf /\ Frame /\ ctx' = ctx
      /\ touched' \in BOOLEAN
      /\ HdC(Root, hd, hd') /\ type \in Down \cup Sym \cup {"UCC_OOB"}
      /\ \/ Sets(Root, "stop", proc[Root].round, k, proc[Root].buf, proc[Root].out, "error",
                 proc[Root].rank, proc[Root].parts)
         \/ /\ k < N - 1 =>
                 Sets(Root, "spread", proc[Root].round, k + 1, proc[Root].buf, proc[Root].out,
                      proc[Root].res, proc[Root].rank, proc[Root].parts)
            /\ k = N - 1 =>
                 Sets(Root, "ready", proc[Root].round, k, proc[Root].buf, out, "ok",
                      proc[Root].rank, proc[Root].parts)
  BY SpreadIs
<1>2. /\ type = "UCC_OOB" => proc[Root].buf \in [Slot -> PieceRec]
      /\ type \in Sym => proc[Root].buf \in Seq(PieceRec) /\ Len(proc[Root].buf) = N
  BY <1>1 DEF TInv, BufTy
<1> HIDE DEF k
<1>3. k \in Nat /\ k <= N - 1 /\ N \in Nat /\ (k < N - 1 => k + 1 \in Leaf)
  BY <1>1, Slots DEF Leaf
<1>4. ctx' \in [Slot -> {"app", "managed", "queued"}] /\ proc[Root].pc # "dead"
  BY <1>1 DEF TInv
<1>8. type # "GATHER"
  BY <1>1 DEF Down, Sym
<1>5. CASE k < N - 1 /\
           Sets(Root, "spread", proc[Root].round, k + 1, proc[Root].buf, proc[Root].out,
                proc[Root].res, proc[Root].rank, proc[Root].parts)
  <2>1. /\ Others(Root) /\ proc'[Root].pc = "spread" /\ proc'[Root].idx = k + 1
        /\ proc'[Root].buf = proc[Root].buf
    BY <1>5 DEF Sets, Others
  <2>2. proc'[Root].pc \in {"collect", "reply", "block", "spread"} /\ PcTy(type, Root, proc'[Root].pc)
    BY <1>1, <2>1 DEF PcTy
  <2>3. /\ proc'[Root].idx \in Leaf /\ (type = "UCC_OOB" => proc'[Root].buf \in [Slot -> PieceRec])
        /\ type \in Sym => proc'[Root].buf \in Seq(PieceRec) /\ Len(proc'[Root].buf) = N
        /\ proc'[Root].pc # "collect"
    BY <1>2, <1>3, <1>5, <2>1
  <2>4. type \in Sym \cup {"GATHER"} => proc'[Root].buf \in Seq(PieceRec)
    BY <1>8, <2>3
  <2> QED BY <1>1, <2>1, <2>2, <2>3, <2>4, TypeCall
<1>7. CASE \/ Sets(Root, "stop", proc[Root].round, k, proc[Root].buf, proc[Root].out, "error",
                 proc[Root].rank, proc[Root].parts)
           \/ Sets(Root, "ready", proc[Root].round, k, proc[Root].buf, out, "ok",
                      proc[Root].rank, proc[Root].parts)
  <2>1. Others(Root) /\ proc'[Root].pc \in {"ready", "stop"}
    BY <1>7 DEF Sets, Others
  <2>2. PcTy(type, Root, "ready") /\ PcTy(type, Root, "stop")
    BY <1>1 DEF PcTy, FanSide, Sym, Down
  <2>3. /\ proc'[Root].pc \in {"ready", "stop", "final", "end", "send", "sendblock", "recv", "result"}
        /\ PcTy(type, Root, proc'[Root].pc)
    BY <2>1, <2>2
  <2> QED BY <1>0, <1>1, <1>4, <2>1, <2>3, TypeRest
<1> QED BY <1>1, <1>3, <1>5, <1>7

\* A buffer is refused.
LEMMA RefusedIs ==
  ASSUME TInv, NEW pc, NEW own, BeginCut(pc, own), ~(~Refused /\ Begin(Root, pc, own))
  PROVE  /\ Refused /\ proc[Root].pc = "ready" /\ Frame /\ ctx' = ctx /\ touched' = touched /\ hd' = hd
         /\ Sets(Root, "stop", proc[Root].round, proc[Root].idx, proc[Root].buf, proc[Root].out, "error",
                 proc[Root].rank, proc[Root].parts)
         /\ HdC(Root, hd, hd') /\ TInv'
<1>0. Root \in Slot /\ 1 \in Leaf
  BY Slots
<1>1. /\ Refused /\ proc[Root].pc = "ready" /\ Return(Root, "error")
      /\ type' = type /\ pos' = pos /\ datacount' = datacount /\ ctx' = ctx /\ touched' = touched /\ hd' = hd
  BY DEF BeginCut, team
<1>2. Sets(Root, "stop", proc[Root].round, proc[Root].idx, proc[Root].buf, proc[Root].out, "error",
                 proc[Root].rank, proc[Root].parts)
  BY <1>0, <1>1, ErrorIs
<1>3. REnd(1) \in End /\ hd \in [End -> HdRec]
  BY <1>0, EndsAt DEF TInv
<1>4. HdC(Root, hd, hd') /\ Frame
  BY <1>1, <1>3, StepsC DEF Frame
<1>5. Others(Root) /\ proc'[Root].pc = "stop"
  BY <1>2 DEF Sets, Others
<1>6. /\ ctx' \in [Slot -> {"app", "managed", "queued"}] /\ touched' \in BOOLEAN
      /\ proc[Root].pc # "dead"
      /\ proc'[Root].pc \in {"ready", "stop", "final", "end", "send", "sendblock", "recv", "result"}
  BY <1>1, <1>5 DEF TInv
<1>7. PcTy(type, Root, proc'[Root].pc)
  BY <1>5 DEF PcTy
<1>8. TInv'
  BY <1>0, <1>4, <1>5, <1>6, <1>7, TypeRest
<1> QED BY <1>1, <1>2, <1>4, <1>8

\* A message is taken, whatever its size.
LEMMA TakesIs ==
  ASSUME TInv, NEW e \in End, Takes(e), NEW p, Owner(e) = p
  PROVE  /\ hd[e].in # <<>> /\ Head(hd[e].in).size > 0 /\ TookAt(e, hd, hd') /\ HdC(p, hd, hd')
         /\ touched' = (touched \/ hd[e].freed) /\ touched' \in BOOLEAN
         /\ First(e) \in PieceRec /\ First(e) = Head(Head(hd[e].in).data)
<1>1. hd \in [End -> HdRec]
  BY DEF TInv
<1>2. /\ hd[e].in # <<>> /\ Head(hd[e].in).size > 0 /\ touched' = (touched \/ hd[e].freed)
      /\ hd' = [hd EXCEPT ![e].in = Tail(@)]
  BY DEF Takes, Touch
<1>3. TookAt(e, hd, hd')
  BY <1>1, <1>2, Took
<1>4. HdC(p, hd, hd')
  BY <1>1, <1>3, StepsC
<1>5. Head(hd[e].in).size # 0
  BY <1>2
<1>6. First(e) = Head(Head(hd[e].in).data)
  BY DEF First
<1>7. First(e) \in PieceRec
  BY <1>1, <1>2, <1>5, <1>6, FirstPiece
<1> QED BY <1>2, <1>3, <1>4, <1>6, <1>7

\* The root sends its rank to member k ...
OobAsks(k) ==
  /\ type = "UCC_OOB" /\ proc[Root].pc = "collect" /\ k = proc[Root].idx
  /\ Send(Root, REnd(k), Mine(Root, RankOf(Root), 1), Goto(Root, "reply"))
  /\ Frame /\ ctx' = ctx
\* ... receives the rank of the member ...
OobReply(k) ==
  /\ type = "UCC_OOB" /\ proc[Root].pc = "reply" /\ k = proc[Root].idx /\ Takes(REnd(k))
  /\ proc' = [proc EXCEPT ![Root].pc = "block", ![Root].rank = First(REnd(k)).off]
  /\ Frame /\ ctx' = ctx
\* ... and its block.
OobBlock(k) ==
  /\ type = "UCC_OOB" /\ proc[Root].pc = "block" /\ k = proc[Root].idx /\ Takes(REnd(k))
  /\ proc' = [proc EXCEPT ![Root].buf[proc[Root].rank] = First(REnd(k)),
                          ![Root].pc = IF k < N - 1 THEN "collect" ELSE "spread",
                          ![Root].idx = IF k < N - 1 THEN k + 1 ELSE 1]
  /\ Frame /\ ctx' = ctx
\* Member p receives the rank of the root, and sends its block.
OobResult(p) ==
  type = "UCC_OOB" /\ proc[p].pc = "result" /\ Takes(LEnd(p)) /\ Goto(p, "send") /\ Frame /\ ctx' = ctx
OobSendBlock(p) ==
  /\ type = "UCC_OOB" /\ proc[p].pc = "sendblock"
  /\ Send(p, LEnd(p), Mine(p, 0, 1), Goto(p, "recv")) /\ Frame /\ ctx' = ctx

\* What they do.
LEMMA OobAsksIs ==
  ASSUME TInv, NEW k, OobAsks(k)
  PROVE  /\ k \in Leaf /\ touched' = (touched \/ hd[REnd(k)].freed) /\ touched' \in BOOLEAN
         /\ HdC(Root, hd, hd')
         /\ \/ /\ Sets(Root, "stop", proc[Root].round, k, proc[Root].buf, proc[Root].out, "error",
                       proc[Root].rank, proc[Root].parts)
               /\ ~hd[LEnd(k)].open /\ hd' = hd
            \/ /\ \/ hd[LEnd(k)].open /\ PutAt(LEnd(k), Msg(Mine(Root, RankOf(Root), 1)), hd, hd')
                  \/ ~hd[LEnd(k)].open /\ hd' = hd
               /\ Sets(Root, "reply", proc[Root].round, k, proc[Root].buf, proc[Root].out,
                       proc[Root].res, proc[Root].rank, proc[Root].parts)
<1>1. Root \in Slot /\ proc[Root].pc = "collect"
  BY Slots DEF OobAsks
<1>2. k \in Leaf
  BY <1>1 DEF TInv, ProcTy, OobAsks
<1> DEFINE e == REnd(k)
           d == Mine(Root, RankOf(Root), 1)
<1>3. e \in End /\ Owner(e) = Root /\ Peer(e) = LEnd(k)
  BY <1>2, EndsAt
<1>4. Send(Root, e, d, Goto(Root, "reply"))
  BY DEF OobAsks
<1>5. d \in Seq(PieceRec)
  <2>1. RankOf(Root) \in Nat
    BY <1>1, RankIn
  <2> DEFINE n == 1
  <2>2. n \in Nat
    OBVIOUS
  <2> HIDE DEF n
  <2>3. Mine(Root, RankOf(Root), n) \in Seq(PieceRec)
    BY <1>1, <2>1, <2>2, MineIn
  <2> QED BY <2>3 DEF n
<1> HIDE DEF e, d
<1>6. /\ touched' = (touched \/ hd[e].freed) /\ touched' \in BOOLEAN
      /\ HdC(Root, hd, hd')
      /\ \/ Goto(Root, "reply") /\ hd[Peer(e)].open /\ PutAt(Peer(e), Msg(d), hd, hd')
         \/ Goto(Root, "reply") /\ ~hd[Peer(e)].open /\ hd' = hd
         \/ Return(Root, "error") /\ ~hd[Peer(e)].open /\ hd' = hd
  BY <1>1, <1>3, <1>4, <1>5, SendIs
<1> DEFINE S1 == Sets(Root, "reply", proc[Root].round, k, proc[Root].buf, proc[Root].out,
                       proc[Root].res, proc[Root].rank, proc[Root].parts)
           S2 == Sets(Root, "stop", proc[Root].round, k, proc[Root].buf, proc[Root].out, "error",
                       proc[Root].rank, proc[Root].parts)
<1>7. Goto(Root, "reply") => S1
  <2> DEFINE c == "reply"
  <2>1. c \in Pc /\ k = proc[Root].idx
    BY DEF Pc, OobAsks
  <2> HIDE DEF c
  <2>2. Goto(Root, c) => Sets(Root, c, proc[Root].round, proc[Root].idx, proc[Root].buf, proc[Root].out,
                       proc[Root].res, proc[Root].rank, proc[Root].parts)
    BY <1>1, <2>1, GotoIs
  <2> QED BY <2>1, <2>2 DEF c
<1>8. Return(Root, "error") => S2
  <2>1. k = proc[Root].idx
    BY DEF OobAsks
  <2> QED BY <1>1, <2>1, ErrorIs
<1> HIDE DEF S1, S2
<1>9. \/ S2 /\ ~hd[LEnd(k)].open /\ hd' = hd
      \/ /\ \/ hd[LEnd(k)].open /\ PutAt(LEnd(k), Msg(d), hd, hd')
            \/ ~hd[LEnd(k)].open /\ hd' = hd
         /\ S1
  BY <1>3, <1>6, <1>7, <1>8
<1> QED BY <1>2, <1>6, <1>9 DEF e, d, S1, S2

\* The same for the rank of the member.
LEMMA OobReplyIs ==
  ASSUME TInv, NEW k, OobReply(k)
  PROVE  /\ k \in Leaf
         /\ Sets(Root, "block", proc[Root].round, k, proc[Root].buf, proc[Root].out,
                 proc[Root].res, First(REnd(k)).off, proc[Root].parts)
<1>1. Root \in Slot /\ proc[Root].pc = "reply" /\ k = proc[Root].idx /\ proc \in [Slot -> ProcRec]
  BY Slots DEF OobReply, TInv
<1>2. k \in Leaf
  BY <1>1 DEF TInv, ProcTy
<1>3. REnd(k) \in End /\ Owner(REnd(k)) = Root
  BY <1>2, EndsAt
<1>4. First(REnd(k)) \in PieceRec
  BY <1>3, TakesIs DEF OobReply
<1> DEFINE ra == First(REnd(k)).off
           c == "block"
<1>5. ra \in {None} \cup Nat /\ c \in Pc
  BY <1>4 DEF PieceRec, Pc
<1>6. proc' = [proc EXCEPT ![Root].pc = c, ![Root].rank = ra]
  BY DEF OobReply
<1> HIDE DEF ra, c
<1>7. Sets(Root, c, proc[Root].round, proc[Root].idx, proc[Root].buf, proc[Root].out,
           proc[Root].res, ra, proc[Root].parts)
  BY Zenon, <1>1, <1>5, <1>6, SetPcRank
<1> QED BY <1>1, <1>2, <1>7 DEF ra, c

\* The same for its block.
LEMMA OobBlockIs ==
  ASSUME TInv, NEW k, OobBlock(k)
  PROVE  /\ k \in Leaf /\ proc[Root].buf \in [Slot -> PieceRec]
         /\ [proc[Root].buf EXCEPT ![proc[Root].rank] = First(REnd(k))] \in [Slot -> PieceRec]
         /\ Sets(Root, IF k < N - 1 THEN "collect" ELSE "spread", proc[Root].round,
                 IF k < N - 1 THEN k + 1 ELSE 1,
                 [proc[Root].buf EXCEPT ![proc[Root].rank] = First(REnd(k))], proc[Root].out,
                 proc[Root].res, proc[Root].rank, proc[Root].parts)
<1>1. /\ Root \in Slot /\ proc[Root].pc = "block" /\ k = proc[Root].idx /\ proc \in [Slot -> ProcRec]
      /\ type = "UCC_OOB"
  BY Slots DEF OobBlock, TInv
<1>2. k \in Leaf /\ proc[Root].buf \in [Slot -> PieceRec]
  BY <1>1 DEF TInv, ProcTy, BufTy
<1>3. REnd(k) \in End /\ Owner(REnd(k)) = Root
  BY <1>2, EndsAt
<1>4. First(REnd(k)) \in PieceRec
  BY <1>3, TakesIs DEF OobBlock
<1> DEFINE i == IF k < N - 1 THEN k + 1 ELSE 1
           c == IF k < N - 1 THEN "collect" ELSE "spread"
           b == [proc[Root].buf EXCEPT ![proc[Root].rank] = First(REnd(k))]
<1>5. i \in 1 .. N /\ c \in Pc
  BY <1>2, Slots DEF Pc
<1>8. b \in [Slot -> PieceRec]
  BY <1>2, <1>4
<1>6. proc' = [proc EXCEPT ![Root].buf = b, ![Root].pc = c, ![Root].idx = i]
  <2> HIDE DEF c, i
  <2>1. proc' = [proc EXCEPT ![Root].buf[proc[Root].rank] = First(REnd(k)), ![Root].pc = c, ![Root].idx = i]
    BY DEF OobBlock, c, i
  <2> QED BY <2>1
<1> HIDE DEF i, c, b
<1>9. b \in [Slot -> PieceRec] \cup Seq(PieceRec)
  BY <1>8
<1>7. Sets(Root, c, proc[Root].round, i, b, proc[Root].out,
           proc[Root].res, proc[Root].rank, proc[Root].parts)
  BY Zenon, <1>1, <1>5, <1>6, <1>9, SetBufPcIdx
<1>10. Sets(Root, IF k < N - 1 THEN "collect" ELSE "spread", proc[Root].round,
                 IF k < N - 1 THEN k + 1 ELSE 1,
                 [proc[Root].buf EXCEPT ![proc[Root].rank] = First(REnd(k))], proc[Root].out,
                 proc[Root].res, proc[Root].rank, proc[Root].parts)
  BY <1>7 DEF i, c, b
<1> QED BY <1>2, <1>8, <1>10 DEF b

\* A member sends its block.
LEMMA OobSendBlockIs ==
  ASSUME TInv, NEW p \in Leaf, OobSendBlock(p)
  PROVE  /\ touched' = (touched \/ hd[LEnd(p)].freed) /\ touched' \in BOOLEAN
         /\ HdC(p, hd, hd')
         /\ \/ /\ Sets(p, "stop", proc[p].round, proc[p].idx, proc[p].buf, proc[p].out, "error",
                       proc[p].rank, proc[p].parts)
               /\ ~hd[REnd(p)].open /\ hd' = hd
            \/ /\ \/ hd[REnd(p)].open /\ PutAt(REnd(p), Msg(Mine(p, 0, 1)), hd, hd')
                  \/ ~hd[REnd(p)].open /\ hd' = hd
               /\ Sets(p, "recv", proc[p].round, proc[p].idx, proc[p].buf, proc[p].out,
                       proc[p].res, proc[p].rank, proc[p].parts)
<1>1. p \in Slot
  BY Slots
<1> DEFINE e == LEnd(p)
           d == Mine(p, 0, 1)
<1>3. e \in End /\ Owner(e) = p /\ Peer(e) = REnd(p)
  BY EndsAt
<1>4. Send(p, e, d, Goto(p, "recv"))
  BY DEF OobSendBlock
<1>5. d \in Seq(PieceRec)
  <2> DEFINE n == 1
             z == 0
  <2>2. n \in Nat /\ z \in Nat
    OBVIOUS
  <2> HIDE DEF n, z
  <2>3. Mine(p, z, n) \in Seq(PieceRec)
    BY <1>1, <2>2, MineIn
  <2> QED BY <2>3 DEF n, z
<1> HIDE DEF e, d
<1>6. /\ touched' = (touched \/ hd[e].freed) /\ touched' \in BOOLEAN
      /\ HdC(p, hd, hd')
      /\ \/ Goto(p, "recv") /\ hd[Peer(e)].open /\ PutAt(Peer(e), Msg(d), hd, hd')
         \/ Goto(p, "recv") /\ ~hd[Peer(e)].open /\ hd' = hd
         \/ Return(p, "error") /\ ~hd[Peer(e)].open /\ hd' = hd
  BY <1>1, <1>3, <1>4, <1>5, SendIs
<1> DEFINE S1 == Sets(p, "recv", proc[p].round, proc[p].idx, proc[p].buf, proc[p].out,
                       proc[p].res, proc[p].rank, proc[p].parts)
           S2 == Sets(p, "stop", proc[p].round, proc[p].idx, proc[p].buf, proc[p].out, "error",
                       proc[p].rank, proc[p].parts)
<1>7. Goto(p, "recv") => S1
  <2> DEFINE c == "recv"
  <2>1. c \in Pc
    BY DEF Pc
  <2> HIDE DEF c
  <2>2. Goto(p, c) => Sets(p, c, proc[p].round, proc[p].idx, proc[p].buf, proc[p].out,
                       proc[p].res, proc[p].rank, proc[p].parts)
    BY <1>1, <2>1, GotoIs
  <2> QED BY <2>2 DEF c
<1>8. Return(p, "error") => S2
  BY <1>1, ErrorIs
<1> HIDE DEF S1, S2
<1>9. \/ S2 /\ ~hd[REnd(p)].open /\ hd' = hd
      \/ /\ \/ hd[REnd(p)].open /\ PutAt(REnd(p), Msg(d), hd, hd')
            \/ ~hd[REnd(p)].open /\ hd' = hd
         /\ S1
  BY <1>3, <1>6, <1>7, <1>8
<1> QED BY <1>6, <1>9 DEF e, d, S1, S2

\* The exchange of the UCC collectives keeps the types.
LEMMA TypeOob ==
  ASSUME TInv, NEW k, OobAsks(k) \/ OobReply(k) \/ OobBlock(k)
  PROVE  TInv'
<1>0. Root \in Slot
  BY Slots
<1>1. /\ type = "UCC_OOB" /\ proc[Root].pc \in {"collect", "reply", "block"} /\ k = proc[Root].idx
      /\ Frame /\ ctx' = ctx
  BY DEF OobAsks, OobReply, OobBlock
<1>2. k \in Leaf /\ proc[Root].buf \in [Slot -> PieceRec] /\ type \notin Sym \cup {"GATHER"} /\ type \notin Sym
  BY <1>0, <1>1 DEF TInv, ProcTy, BufTy, Sym
<1>3. /\ PcTy(type, Root, "reply") /\ PcTy(type, Root, "block") /\ PcTy(type, Root, "collect")
      /\ PcTy(type, Root, "spread") /\ PcTy(type, Root, "stop")
  BY <1>1 DEF PcTy
<1>4. k \in Nat /\ k <= N - 1 /\ N \in Nat /\ (k < N - 1 => k + 1 \in Leaf) /\ 1 \in Leaf
  BY <1>2, Slots DEF Leaf
<1>5. REnd(k) \in End /\ Owner(REnd(k)) = Root
  BY <1>2, EndsAt
<1>6. HdC(Root, hd, hd') /\ touched' \in BOOLEAN
  <2>1. CASE OobAsks(k)
    BY <2>1, OobAsksIs
  <2>2. CASE Takes(REnd(k))
    BY <1>5, <2>2, TakesIs
  <2> QED BY <2>1, <2>2 DEF OobReply, OobBlock
<1>7. CASE proc'[Root].pc = "stop" /\ Others(Root)
  <2>1. /\ ctx' \in [Slot -> {"app", "managed", "queued"}] /\ proc[Root].pc # "dead"
        /\ proc'[Root].pc \in {"ready", "stop", "final", "end", "send", "sendblock", "recv", "result"}
        /\ PcTy(type, Root, proc'[Root].pc) /\ Others(Root)
    BY <1>1, <1>3, <1>7 DEF TInv
  <2> QED BY <1>0, <1>1, <1>6, <2>1, TypeRest
<1>8. CASE /\ Others(Root) /\ proc'[Root].pc \in {"collect", "reply", "block", "spread"}
           /\ proc'[Root].idx \in Leaf /\ proc'[Root].buf \in [Slot -> PieceRec]
  <2>1. PcTy(type, Root, proc'[Root].pc)
    BY <1>3, <1>8
  <2> QED BY <1>1, <1>2, <1>6, <1>8, <2>1, TypeCall
<1>9. CASE OobAsks(k)
  <2>1. \/ Sets(Root, "stop", proc[Root].round, k, proc[Root].buf, proc[Root].out, "error",
                       proc[Root].rank, proc[Root].parts)
        \/ Sets(Root, "reply", proc[Root].round, k, proc[Root].buf, proc[Root].out,
                       proc[Root].res, proc[Root].rank, proc[Root].parts)
    BY <1>9, OobAsksIs
  <2>2. /\ Others(Root)
        /\ \/ proc'[Root].pc = "stop"
           \/ proc'[Root].pc = "reply" /\ proc'[Root].idx = k /\ proc'[Root].buf = proc[Root].buf
    BY <2>1 DEF Sets, Others
  <2> QED BY <1>2, <1>7, <1>8, <2>2
<1>10. CASE OobReply(k)
  <2>1. Sets(Root, "block", proc[Root].round, k, proc[Root].buf, proc[Root].out,
                 proc[Root].res, First(REnd(k)).off, proc[Root].parts)
    BY <1>10, OobReplyIs
  <2>2. Others(Root) /\ proc'[Root].pc = "block" /\ proc'[Root].idx = k /\ proc'[Root].buf = proc[Root].buf
    BY <2>1 DEF Sets, Others
  <2> QED BY <1>2, <1>8, <2>2
<1>11. CASE OobBlock(k)
  <2> DEFINE b == [proc[Root].buf EXCEPT ![proc[Root].rank] = First(REnd(k))]
             i == IF k < N - 1 THEN k + 1 ELSE 1
             c == IF k < N - 1 THEN "collect" ELSE "spread"
  <2>1. /\ b \in [Slot -> PieceRec]
        /\ Sets(Root, c, proc[Root].round, i, b, proc[Root].out,
                proc[Root].res, proc[Root].rank, proc[Root].parts)
    BY <1>11, OobBlockIs
  <2>2. c \in {"collect", "spread"} /\ i \in Leaf
    BY <1>4
  <2> HIDE DEF b, i, c
  <2>3. Others(Root) /\ proc'[Root].pc = c /\ proc'[Root].idx = i /\ proc'[Root].buf = b
    BY <2>1 DEF Sets, Others
  <2> QED BY <1>8, <2>1, <2>2, <2>3
<1> QED BY <1>9, <1>10, <1>11

\* On the side of a member, too.
LEMMA TypeOobLeaf ==
  ASSUME TInv, NEW p \in Leaf, OobResult(p) \/ OobSendBlock(p)
  PROVE  TInv'
<1>0. p \in Slot /\ p # Root
  BY Slots
<1>1. type = "UCC_OOB" /\ Frame /\ ctx' = ctx /\ proc[p].pc # "dead"
  BY DEF OobResult, OobSendBlock
<1>2. LEnd(p) \in End /\ Owner(LEnd(p)) = p
  BY EndsAt
<1>3. HdC(p, hd, hd') /\ touched' \in BOOLEAN
  <2>1. CASE OobSendBlock(p)
    BY <2>1, OobSendBlockIs
  <2>2. CASE OobResult(p)
    BY <1>2, <2>2, TakesIs DEF OobResult
  <2> QED BY <2>1, <2>2
<1>4. Others(p) /\ proc'[p].pc \in {"stop", "recv", "send"}
  <2>1. CASE OobSendBlock(p)
    <3>1. \/ Sets(p, "stop", proc[p].round, proc[p].idx, proc[p].buf, proc[p].out, "error",
                       proc[p].rank, proc[p].parts)
          \/ Sets(p, "recv", proc[p].round, proc[p].idx, proc[p].buf, proc[p].out,
                       proc[p].res, proc[p].rank, proc[p].parts)
      BY <2>1, OobSendBlockIs
    <3> QED BY <3>1 DEF Sets, Others
  <2>2. CASE OobResult(p)
    <3> DEFINE c == "send"
    <3>1. c \in Pc /\ Goto(p, c)
      BY <2>2 DEF OobResult, Pc
    <3> HIDE DEF c
    <3>2. Others(p) /\ proc'[p].pc = c
      BY <1>0, <3>1, GotoIs DEF Sets, Others
    <3> QED BY <3>2 DEF c
  <2> QED BY <2>1, <2>2
<1>5. PcTy(type, p, "stop") /\ PcTy(type, p, "recv") /\ PcTy(type, p, "send")
  BY <1>0, <1>1 DEF PcTy
<1>6. /\ ctx' \in [Slot -> {"app", "managed", "queued"}]
      /\ proc'[p].pc \in {"ready", "stop", "final", "end", "send", "sendblock", "recv", "result"}
      /\ PcTy(type, p, proc'[p].pc)
  BY <1>1, <1>4, <1>5 DEF TInv
<1> QED BY <1>0, <1>1, <1>3, <1>4, <1>6, TypeRest

\* The steps of the exchange are these.
LEMMA OobSteps ==
  ASSUME TInv
  PROVE  /\ OobRoot => \/ Begin(Root, "collect", [j \in Slot |-> Piece(Root, Round(Root) + 1, 0, 1)])
                       \/ \E k : OobAsks(k) \/ OobReply(k) \/ OobBlock(k)
                       \/ Spread([j \in Leaf |-> [i \in 1 .. N |-> proc[Root].buf[i - 1]]],
                                 [i \in 1 .. N |-> proc[Root].buf[i - 1]])
         /\ \A p \in Leaf : OobLeaf(p) =>
              \/ Begin(p, "result", <<>>) \/ OobResult(p)
              \/ LeafSends(p, Mine(p, RankOf(p), 1), "sendblock")
              \/ OobSendBlock(p) \/ LeafReceives(p, N, FALSE)
<1>1. ASSUME OobRoot
      PROVE  \/ Begin(Root, "collect", [j \in Slot |-> Piece(Root, Round(Root) + 1, 0, 1)])
             \/ \E k : OobAsks(k) \/ OobReply(k) \/ OobBlock(k)
             \/ Spread([j \in Leaf |-> [i \in 1 .. N |-> proc[Root].buf[i - 1]]],
                       [i \in 1 .. N |-> proc[Root].buf[i - 1]])
  <2> DEFINE k == proc[Root].idx
  <2>1. type = "UCC_OOB" /\ Root \in Slot
    BY <1>1, Slots DEF OobRoot
  <2>2. proc[Root].pc \in {"collect", "reply", "block"} => EndOf(Root, k) = REnd(k)
    <3> SUFFICES ASSUME proc[Root].pc \in {"collect", "reply", "block"} PROVE EndOf(Root, k) = REnd(k)
      OBVIOUS
    <3>1. k \in Leaf
      BY <2>1 DEF TInv, ProcTy
    <3> QED BY <3>1, EndsAt
  <2>3. CASE /\ InCall(Root, "collect")
             /\ Send(Root, EndOf(Root, k), Mine(Root, RankOf(Root), 1), Goto(Root, "reply"))
             /\ UNCHANGED <<team, ctx>>
    <3>1. proc[Root].pc = "collect" /\ EndOf(Root, k) = REnd(k)
      BY <2>2, <2>3 DEF InCall
    <3>2. Frame /\ ctx' = ctx
      BY <2>3 DEF Frame, team
    <3>3. OobAsks(k)
      BY <2>1, <2>3, <3>1, <3>2 DEF OobAsks
    <3> QED BY <3>3
  <2>4. CASE /\ InCall(Root, "reply") /\ Takes(EndOf(Root, k))
             /\ proc' = [proc EXCEPT ![Root].pc = "block", ![Root].rank = First(EndOf(Root, k)).off]
             /\ UNCHANGED <<team, ctx>>
    <3>1. proc[Root].pc = "reply" /\ EndOf(Root, k) = REnd(k)
      BY <2>2, <2>4 DEF InCall
    <3>2. Frame /\ ctx' = ctx
      BY <2>4 DEF Frame, team
    <3>3. OobReply(k)
      BY <2>1, <2>4, <3>1, <3>2 DEF OobReply
    <3> QED BY <3>3
  <2>5. CASE /\ InCall(Root, "block") /\ Takes(EndOf(Root, k))
             /\ proc' = [proc EXCEPT ![Root].buf[proc[Root].rank] = First(EndOf(Root, k)),
                                     ![Root].pc = IF k < N - 1 THEN "collect" ELSE "spread",
                                     ![Root].idx = IF k < N - 1 THEN k + 1 ELSE 1]
             /\ UNCHANGED <<team, ctx>>
    <3>1. proc[Root].pc = "block" /\ EndOf(Root, k) = REnd(k)
      BY <2>2, <2>5 DEF InCall
    <3>2. Frame /\ ctx' = ctx
      BY <2>5 DEF Frame, team
    <3>3. OobBlock(k)
      BY <2>1, <2>5, <3>1, <3>2 DEF OobBlock
    <3> QED BY <3>3
  <2> QED BY <1>1, <2>3, <2>4, <2>5 DEF OobRoot
<1>2. ASSUME NEW p \in Leaf, OobLeaf(p)
      PROVE  \/ Begin(p, "result", <<>>) \/ OobResult(p)
             \/ LeafSends(p, Mine(p, RankOf(p), 1), "sendblock")
             \/ OobSendBlock(p) \/ LeafReceives(p, N, FALSE)
  <2>1. EndOf(p, p) = LEnd(p)
    BY EndsAt
  <2> QED BY <1>2, <2>1 DEF OobLeaf, OobResult, OobSendBlock, InCall, Frame, team
<1> QED BY <1>1, <1>2

\* The parts the root of an Alltoall takes out.
LEMMA TransposedIn ==
  ASSUME TInv, type \in Sym, proc[Root].pc = "spread", NEW k \in Slot
  PROVE  Transposed(k) \in Seq(PieceRec) /\ Len(Transposed(k)) = N
<1>1. proc[Root].buf \in Seq(PieceRec) /\ Len(proc[Root].buf) = N /\ N \in Nat
  BY Slots DEF TInv, BufTy
<1>2. Offset(k) \in Nat /\ Share(k) \in Nat
  <2>1. datacount \in Nat
    BY RankIn
  <2>2. Offset(k) \in Nat
    BY <2>1, OffsetIs
  <2>3. Share(k) \in Nat
    BY <2>1, ShareIs
  <2> QED BY <2>2, <2>3
<1>3. ASSUME NEW j \in 1 .. N
      PROVE  [proc[Root].buf[j] EXCEPT !.off = Offset(k), !.len = Share(k)] \in PieceRec
  <2>1. proc[Root].buf[j] \in PieceRec
    BY <1>1
  <2> QED BY <1>2, <2>1 DEF PieceRec
<1>4. Transposed(k) \in [1 .. N -> PieceRec]
  BY Zenon, <1>3 DEF Transposed
<1> HIDE DEF Transposed
<1> QED BY <1>1, <1>4

\* What the root sends and keeps is a message.
LEMMA SpreadData ==
  ASSUME TInv, proc[Root].pc = "spread", NEW k, k = proc[Root].idx
  PROVE  /\ k \in Leaf /\ k \in Slot /\ Root \in Slot
         /\ Mine(Root, 0, datacount) \in Seq(PieceRec)
         /\ \A j \in Slot : Mine(Root, Offset(j), Share(j)) \in Seq(PieceRec)
         /\ type \in Sym => proc[Root].buf \in Seq(PieceRec)
         /\ type = "UCC_OOB" => [i \in 1 .. N |-> proc[Root].buf[i - 1]] \in Seq(PieceRec)
<1>1. Root \in Slot /\ N \in Nat
  BY Slots
<1>2. k \in Leaf /\ k \in Slot
  BY <1>1, Slots DEF TInv, ProcTy
<1>3. datacount \in Nat
  BY <1>1, RankIn
<1>4. Mine(Root, 0, datacount) \in Seq(PieceRec)
  <2> DEFINE z == 0
  <2>1. z \in Nat
    OBVIOUS
  <2> HIDE DEF z
  <2>2. Mine(Root, z, datacount) \in Seq(PieceRec)
    BY <1>1, <1>3, <2>1, MineIn
  <2> QED BY <2>2 DEF z
<1>5. ASSUME NEW j \in Slot PROVE Mine(Root, Offset(j), Share(j)) \in Seq(PieceRec)
  <2> DEFINE x == Offset(j)
             y == Share(j)
  <2>1. x \in Nat
    BY <1>3, OffsetIs
  <2>2. y \in Nat
    BY <1>3, ShareIs
  <2> HIDE DEF x, y
  <2>3. Mine(Root, x, y) \in Seq(PieceRec)
    BY <1>1, <2>1, <2>2, MineIn
  <2> QED BY <2>3 DEF x, y
<1>6. type \in Sym => proc[Root].buf \in Seq(PieceRec)
  BY DEF TInv, BufTy
<1>7. ASSUME type = "UCC_OOB" PROVE [i \in 1 .. N |-> proc[Root].buf[i - 1]] \in Seq(PieceRec)
  <2>1. proc[Root].buf \in [Slot -> PieceRec]
    BY <1>7 DEF TInv, BufTy
  <2>2. \A i \in 1 .. N : i - 1 \in Slot
    BY <1>1 DEF Slot
  <2> DEFINE r == [i \in 1 .. N |-> proc[Root].buf[i - 1]]
  <2>3. r \in [1 .. N -> PieceRec]
    BY <2>1, <2>2
  <2> HIDE DEF r
  <2>4. r \in Seq(PieceRec)
    BY <1>1, <2>3
  <2> QED BY <2>4 DEF r
<1> QED BY <1>1, <1>2, <1>4, <1>5, <1>6, <1>7

\* What a call begins with.
LEMMA OwnIn ==
  ASSUME TInv
  PROVE  /\ Root \in Slot
         /\ Own(Root, 0, Share(0)) \in Seq(PieceRec) /\ Len(Own(Root, 0, Share(0))) = 1
         /\ Own(Root, 0, datacount) \in Seq(PieceRec) /\ Len(Own(Root, 0, datacount)) = 1
         /\ Own(Root, 0, 1) \in Seq(PieceRec) /\ Len(Own(Root, 0, 1)) = 1
         /\ [j \in Slot |-> Piece(Root, Round(Root) + 1, 0, 1)] \in [Slot -> PieceRec]
<1>1. Root \in Slot
  BY Slots
<1>2. datacount \in Nat
  BY <1>1, RankIn
<1> DEFINE z == 0
           n == 1
<1>3. Share(0) \in Nat
  BY <1>2, ShareIs
<1> DEFINE y == Share(0)
<1>4. z \in Nat /\ n \in Nat /\ y \in Nat
  BY <1>3
<1> HIDE DEF z, n, y
<1>5. /\ Own(Root, z, y) \in Seq(PieceRec) /\ Len(Own(Root, z, y)) = 1
  BY <1>1, <1>4, MineIn
<1>6. Own(Root, z, datacount) \in Seq(PieceRec) /\ Len(Own(Root, z, datacount)) = 1
  BY <1>1, <1>2, <1>4, MineIn
<1>7. Own(Root, z, n) \in Seq(PieceRec) /\ Len(Own(Root, z, n)) = 1
  BY <1>1, <1>4, MineIn
<1>8. Round(Root) + 1 \in Nat
  <2>1. proc[Root].round \in 0 .. Rounds + 1 /\ Rounds \in Nat
    BY <1>1, ProcFields, TeamAssumption DEF TInv
  <2> QED BY <2>1 DEF Round
<1>9. Piece(Root, Round(Root) + 1, 0, 1) \in PieceRec
  BY <1>1, <1>8 DEF Piece, PieceRec
<1> QED BY <1>1, <1>5, <1>6, <1>7, <1>9 DEF z, n, y

\* The calls of the root keep the types.
LEMMA TypeRoot ==
  ASSUME TInv, Sendrecv(Root) \/ Create(Root)
  PROVE  TInv'
<1>1. /\ Root \in Slot
      /\ Own(Root, 0, Share(0)) \in Seq(PieceRec) /\ Len(Own(Root, 0, Share(0))) = 1
      /\ Own(Root, 0, datacount) \in Seq(PieceRec) /\ Len(Own(Root, 0, datacount)) = 1
      /\ Own(Root, 0, 1) \in Seq(PieceRec) /\ Len(Own(Root, 0, 1)) = 1
      /\ [j \in Slot |-> Piece(Root, Round(Root) + 1, 0, 1)] \in [Slot -> PieceRec]
  BY OwnIn
<1>2. ASSUME NEW c \in {"collect", "spread"}, NEW own, Begin(Root, c, own), PcTy(type, Root, c),
             \/ type \in Down /\ own = <<>>
             \/ type = "UCC_OOB" /\ own \in [Slot -> PieceRec]
             \/ type \in Sym \cup {"GATHER"} /\ own \in Seq(PieceRec) /\ Len(own) = 1 /\ c = "collect"
      PROVE  TInv'
  <2>1. <<>> \in Seq(PieceRec) /\ Down \cap (Sym \cup {"GATHER"}) = {} /\ "UCC_OOB" \notin Sym \cup {"GATHER"}
        /\ "UCC_OOB" \notin Down
    BY DEF Down, Sym
  <2>2. own \in Seq(PieceRec) \/ own \in [Slot -> PieceRec]
    BY <1>2, <2>1
  <2>3. /\ own \in [Slot -> PieceRec] \cup Seq(PieceRec)
        /\ type = "UCC_OOB" => own \in [Slot -> PieceRec]
        /\ type \in Sym \cup {"GATHER"} => own \in Seq(PieceRec) /\ Len(own) = 1 /\ c = "collect"
    BY <1>2, <2>1, <2>2
  <2> QED BY <1>1, <1>2, <2>3, TypeBegin
<1>3. ASSUME NEW c \in {"collect", "spread"}, NEW own, BeginCut(c, own), PcTy(type, Root, c),
             \/ type \in Down /\ own = <<>>
             \/ type \in Sym \cup {"GATHER"} /\ own \in Seq(PieceRec) /\ Len(own) = 1 /\ c = "collect"
      PROVE  TInv'
  <2>1. CASE ~Refused /\ Begin(Root, c, own)
    BY <1>2, <1>3, <2>1
  <2>2. CASE ~(~Refused /\ Begin(Root, c, own))
    BY <1>3, <2>2, RefusedIs
  <2> QED BY <2>1, <2>2
<1>4. ASSUME type = "BROADCAST", BroadcastRoot PROVE TInv'
  <2> DEFINE all == Mine(Root, 0, datacount)
             c == "spread"
  <2>1. CASE Begin(Root, "spread", <<>>)
    <3>1. c \in {"collect", "spread"} /\ PcTy(type, Root, c) /\ type \in Down /\ Begin(Root, c, <<>>)
      BY <1>4, <2>1 DEF PcTy, Down
    <3> HIDE DEF c
    <3> QED BY <1>2, <3>1
  <2>2. CASE Spread([k \in Leaf |-> all], all)
    <3>1. proc[Root].pc = "spread"
      BY <2>2 DEF Spread, InCall
    <3>2. all \in Seq(PieceRec) /\ proc[Root].idx \in Leaf
      BY <3>1, SpreadData
    <3> HIDE DEF all
    <3> DEFINE d == [k \in Leaf |-> all]
    <3>3. d[proc[Root].idx] \in Seq(PieceRec) /\ Spread(d, all)
      BY <2>2, <3>2
    <3> HIDE DEF d
    <3> QED BY <3>2, <3>3, TypeSpread
  <2> QED BY <1>4, <2>1, <2>2 DEF BroadcastRoot
<1>5. ASSUME type = "SCATTER", ScatterRoot PROVE TInv'
  <2> DEFINE part == [k \in Slot |-> Mine(Root, Offset(k), Share(k))]
             c == "spread"
             y == part[0]
  <2>1. CASE BeginCut("spread", <<>>)
    <3>1. c \in {"collect", "spread"} /\ PcTy(type, Root, c) /\ type \in Down /\ BeginCut(c, <<>>)
      BY <1>5, <2>1 DEF PcTy, Down
    <3> HIDE DEF c
    <3> QED BY <1>3, <3>1
  <2>2. CASE Spread(part, y)
    <3>1. proc[Root].pc = "spread"
      BY Zenon, <2>2 DEF Spread, InCall
    <3>2. proc[Root].idx \in Slot /\ \A j \in Slot : Mine(Root, Offset(j), Share(j)) \in Seq(PieceRec)
      BY <3>1, SpreadData
    <3>3. y \in Seq(PieceRec) /\ part[proc[Root].idx] \in Seq(PieceRec)
      BY <1>1, <3>2 DEF Root
    <3> HIDE DEF part, y
    <3> QED BY <2>2, <3>3, TypeSpread
  <2> QED BY <1>5, <2>1, <2>2 DEF ScatterRoot
<1>6. ASSUME type \in Sym \cup {"GATHER"}, NEW cap, NEW pc, Collect(cap, pc),
             (pc = "spread" /\ type \in Sym) \/ pc = "return"
      PROVE  TInv'
  <2>1. type # "UCC_OOB"
    BY <1>6 DEF Sym
  <2> QED BY <1>6, <2>1, TypeCollect
<1>7. ASSUME type \in Sym, NEW all, all = proc[Root].buf, Spread([k \in Leaf |-> all], all) PROVE TInv'
  <2>1. proc[Root].pc = "spread"
    BY <1>7 DEF Spread, InCall
  <2>2. all \in Seq(PieceRec) /\ proc[Root].idx \in Leaf
    BY <1>7, <2>1, SpreadData
  <2> DEFINE d == [k \in Leaf |-> all]
  <2>3. d[proc[Root].idx] \in Seq(PieceRec) /\ Spread(d, all)
    BY <1>7, <2>2
  <2> HIDE DEF d
  <2> QED BY <2>2, <2>3, TypeSpread
<1>8. ASSUME GatherRoot PROVE TInv'
  <2> DEFINE c == "collect"
             own == Own(Root, 0, Share(0))
             cap == [k \in Leaf |-> Share(k)]
             pc == "return"
  <2>1. type \in Sym \cup {"GATHER"} /\ PcTy(type, Root, c) /\ c \in {"collect", "spread"}
        /\ own \in Seq(PieceRec) /\ Len(own) = 1 /\ c = "collect" /\ pc = "return"
        /\ (BeginCut(c, own) \/ Collect(cap, pc))
    BY <1>1, <1>8 DEF GatherRoot, PcTy
  <2> HIDE DEF c, own, cap, pc
  <2> QED BY <1>3, <1>6, <2>1
<1>9. ASSUME AllGatherRoot PROVE TInv'
  <2> DEFINE c == "collect"
             own == Own(Root, 0, Share(0))
             cap == [k \in Leaf |-> Share(k)]
             pc == "spread"
             all == proc[Root].buf
  <2>1. type \in Sym /\ type \in Sym \cup {"GATHER"} /\ PcTy(type, Root, c) /\ c \in {"collect", "spread"}
        /\ own \in Seq(PieceRec) /\ Len(own) = 1 /\ c = "collect" /\ pc = "spread" /\ all = proc[Root].buf
        /\ (BeginCut(c, own) \/ Collect(cap, pc) \/ Spread([k \in Leaf |-> all], all))
    BY <1>1, <1>9 DEF AllGatherRoot, PcTy, Sym
  <2> HIDE DEF c, own, cap, pc, all
  <2> QED BY <1>3, <1>6, <1>7, <2>1
<1>10. ASSUME AlltoallRoot PROVE TInv'
  <2> DEFINE c == "collect"
             own == Own(Root, 0, datacount)
             cap == [k \in Leaf |-> datacount]
             pc == "spread"
             d == [k \in Leaf |-> Transposed(k)]
             y == Transposed(0)
  <2>1. type \in Sym /\ type \in Sym \cup {"GATHER"} /\ PcTy(type, Root, c) /\ c \in {"collect", "spread"}
        /\ own \in Seq(PieceRec) /\ Len(own) = 1 /\ c = "collect" /\ pc = "spread"
        /\ (Begin(Root, c, own) \/ Collect(cap, pc) \/ Spread(d, y))
    BY <1>1, <1>10 DEF AlltoallRoot, PcTy, Sym
  <2>2. ASSUME Spread(d, y) PROVE TInv'
    <3>1. proc[Root].pc = "spread"
      BY <2>2 DEF Spread, InCall
    <3>2. proc[Root].idx \in Leaf /\ proc[Root].idx \in Slot
      BY <3>1, SpreadData
    <3>3. \A k \in Slot : Transposed(k) \in Seq(PieceRec)
      BY <2>1, <3>1, TransposedIn
    <3>4. y \in Seq(PieceRec) /\ d[proc[Root].idx] \in Seq(PieceRec)
      BY <1>1, <3>2, <3>3 DEF Root
    <3> HIDE DEF d, y
    <3> QED BY <2>2, <3>4, TypeSpread
  <2> HIDE DEF c, own, cap, pc, d, y
  <2> QED BY <1>2, <1>6, <2>1, <2>2
<1>11. ASSUME MPICreateRoot PROVE TInv'
  <2> DEFINE c == "collect"
             own == Own(Root, 0, 1)
             cap == [k \in Leaf |-> 1]
             pc == "spread"
             all == proc[Root].buf
  <2>1. type \in Sym /\ type \in Sym \cup {"GATHER"} /\ PcTy(type, Root, c) /\ c \in {"collect", "spread"}
        /\ own \in Seq(PieceRec) /\ Len(own) = 1 /\ c = "collect" /\ pc = "spread" /\ all = proc[Root].buf
        /\ (Begin(Root, c, own) \/ Collect(cap, pc) \/ Spread([k \in Leaf |-> all], all))
    BY <1>1, <1>11 DEF MPICreateRoot, PcTy, Sym
  <2> HIDE DEF c, own, cap, pc, all
  <2> QED BY <1>2, <1>6, <1>7, <2>1
<1>12. ASSUME OobRoot PROVE TInv'
  <2> DEFINE own == [j \in Slot |-> Piece(Root, Round(Root) + 1, 0, 1)]
             y == [i \in 1 .. N |-> proc[Root].buf[i - 1]]
             d == [j \in Leaf |-> y]
             c == "collect"
  <2>1. type = "UCC_OOB" /\ c \in {"collect", "spread"} /\ own \in [Slot -> PieceRec] /\ PcTy(type, Root, c)
    BY <1>1, <1>12 DEF OobRoot, PcTy
  <2>2. Begin(Root, c, own) \/ (\E k : OobAsks(k) \/ OobReply(k) \/ OobBlock(k)) \/ Spread(d, y)
    BY <1>12, OobSteps
  <2>3. ASSUME Spread(d, y) PROVE TInv'
    <3>1. proc[Root].pc = "spread"
      BY Zenon, <2>3 DEF Spread, InCall
    <3>2. proc[Root].idx \in Leaf /\ y \in Seq(PieceRec)
      BY <2>1, <3>1, SpreadData
    <3> HIDE DEF y
    <3>4. d[proc[Root].idx] \in Seq(PieceRec)
      BY <3>2
    <3> HIDE DEF d
    <3> QED BY <2>3, <3>2, <3>4, TypeSpread
  <2> HIDE DEF own, y, d, c
  <2>4. CASE Begin(Root, c, own)
    BY <1>2, <2>1, <2>4
  <2>5. CASE \E k : OobAsks(k) \/ OobReply(k) \/ OobBlock(k)
    BY <2>5, TypeOob
  <2> QED BY <2>2, <2>3, <2>4, <2>5
<1>13. \/ BroadcastRoot \/ ScatterRoot \/ GatherRoot \/ AllGatherRoot \/ AlltoallRoot
       \/ MPICreateRoot \/ OobRoot
  BY DEF Sendrecv, Create
<1>14. (BroadcastRoot => type = "BROADCAST") /\ (ScatterRoot => type = "SCATTER")
  BY DEF BroadcastRoot, ScatterRoot
<1> QED BY <1>4, <1>5, <1>8, <1>9, <1>10, <1>11, <1>12, <1>13, <1>14

\* The calls of a member keep the types.
LEMMA TypeLeaf ==
  ASSUME TInv, NEW p \in Leaf, Sendrecv(p) \/ Create(p)
  PROVE  TInv'
<1>1. p \in Slot /\ p # Root /\ datacount \in Nat /\ RankOf(p) \in Nat
  BY Slots, RankIn
<1>2. ASSUME NEW x, NEW y, x \in Nat, y \in Nat PROVE Mine(p, x, y) \in Seq(PieceRec)
  BY <1>1, <1>2, MineIn
<1>3. ASSUME NEW c, c \in {"send", "recv", "result"}, PcTy(type, p, c), Begin(p, c, <<>>) PROVE TInv'
  BY <1>1, <1>3, TypeBegin
<1>4. ASSUME NEW x, x \in Nat, NEW y, y \in Nat, NEW pc, LeafSends(p, Mine(p, x, y), pc),
             \/ pc = "return"
             \/ pc = "recv" /\ type \in Down \cup Sym \cup {"UCC_OOB"}
             \/ pc = "sendblock" /\ type = "UCC_OOB"
      PROVE  TInv'
  <2> DEFINE data == Mine(p, x, y)
  <2>1. data \in Seq(PieceRec) /\ LeafSends(p, data, pc)
    BY <1>2, <1>4
  <2> HIDE DEF data
  <2> QED BY <1>4, <2>1, TypeLeafSends
<1>5. ASSUME NEW cap, NEW strict, strict \in BOOLEAN, LeafReceives(p, cap, strict) PROVE TInv'
  BY <1>5, TypeLeafReceives
<1>6. 0 \in Nat /\ 1 \in Nat /\ Share(RankOf(p)) \in Nat /\ TRUE \in BOOLEAN /\ FALSE \in BOOLEAN
  BY <1>1, ShareIs
<1> DEFINE zero == 0
           one == 1
           share == Share(RankOf(p))
           yes == TRUE
           no == FALSE
           cs == "send"
           cr == "recv"
           ct == "result"
           cb == "sendblock"
           cf == "return"
<1>7. /\ zero \in Nat /\ one \in Nat /\ share \in Nat /\ yes \in BOOLEAN /\ no \in BOOLEAN
      /\ cs = "send" /\ cr = "recv" /\ ct = "result" /\ cb = "sendblock" /\ cf = "return"
  BY <1>6
<1>8. CASE BroadcastLeaf(p) \/ ScatterLeaf(p)
  <2>1. PcTy(type, p, "recv")
    BY <1>1, <1>8 DEF BroadcastLeaf, ScatterLeaf, PcTy, Down
  <2>2. Begin(p, cr, <<>>) \/ LeafReceives(p, datacount, yes) \/ LeafReceives(p, share, yes)
    BY <1>8 DEF BroadcastLeaf, ScatterLeaf
  <2> HIDE DEF zero, one, share, yes, no, cs, cr, ct, cb, cf
  <2> QED BY <1>3, <1>5, <1>7, <2>1, <2>2
<1>9. CASE GatherLeaf(p)
  <2>1. PcTy(type, p, "send")
    BY <1>1, <1>9 DEF GatherLeaf, PcTy
  <2>2. Begin(p, cs, <<>>) \/ LeafSends(p, Mine(p, zero, share), cf)
    BY <1>9 DEF GatherLeaf
  <2> HIDE DEF zero, one, share, yes, no, cs, cr, ct, cb, cf
  <2> QED BY <1>3, <1>4, <1>7, <2>1, <2>2
<1>10. CASE AllGatherLeaf(p) \/ AlltoallLeaf(p) \/ MPICreateLeaf(p)
  <2>1. PcTy(type, p, "send") /\ type \in Down \cup Sym \cup {"UCC_OOB"}
    BY <1>1, <1>10 DEF AllGatherLeaf, AlltoallLeaf, MPICreateLeaf, PcTy, Sym
  <2>2. \/ Begin(p, cs, <<>>) \/ LeafSends(p, Mine(p, zero, share), cr)
        \/ LeafSends(p, Mine(p, zero, datacount), cr) \/ LeafSends(p, Mine(p, zero, one), cr)
        \/ \E cap : LeafReceives(p, cap, no)
    BY <1>10 DEF AllGatherLeaf, AlltoallLeaf, MPICreateLeaf
  <2> HIDE DEF zero, one, share, yes, no, cs, cr, ct, cb, cf
  <2>3. ASSUME NEW y, y \in Nat, LeafSends(p, Mine(p, zero, y), cr) PROVE TInv'
    BY <1>4, <1>7, <2>1, <2>3
  <2>4. ASSUME Begin(p, cs, <<>>) PROVE TInv'
    BY <1>3, <1>7, <2>1, <2>4
  <2>5. ASSUME NEW cap, LeafReceives(p, cap, no) PROVE TInv'
    BY <1>5, <1>7, <2>5
  <2> QED BY <1>1, <1>7, <2>2, <2>3, <2>4, <2>5
<1>11. CASE OobLeaf(p)
  <2>1. type = "UCC_OOB" /\ PcTy(type, p, "result")
    BY <1>1, <1>11 DEF OobLeaf, PcTy
  <2> DEFINE rank == RankOf(p)
             cap == N
  <2>2. \/ Begin(p, ct, <<>>) \/ OobResult(p) \/ LeafSends(p, Mine(p, rank, one), cb)
        \/ OobSendBlock(p) \/ LeafReceives(p, cap, no)
    BY <1>11, OobSteps
  <2>6. rank \in Nat
    BY <1>1
  <2> HIDE DEF zero, one, share, yes, no, cs, cr, ct, cb, cf, rank, cap
  <2>3. ASSUME LeafSends(p, Mine(p, rank, one), cb) PROVE TInv'
    BY <1>4, <1>7, <2>1, <2>3, <2>6
  <2>4. ASSUME Begin(p, ct, <<>>) PROVE TInv'
    BY <1>3, <1>7, <2>1, <2>4
  <2>5. ASSUME LeafReceives(p, cap, no) PROVE TInv'
    BY <1>5, <1>7, <2>5
  <2>7. ASSUME OobResult(p) \/ OobSendBlock(p) PROVE TInv'
    BY <2>7, TypeOobLeaf
  <2> QED BY <2>2, <2>3, <2>4, <2>5, <2>7
<1> QED BY <1>1, <1>8, <1>9, <1>10, <1>11 DEF Sendrecv, Create

-----------------------------------------------------------------------------
(* Fan-in and fan-out, closing, and the end of a process *)

\* A step that touches a process and nothing else.
LEMMA NoHandle ==
  ASSUME TInv, NEW p
  PROVE  hd' = hd => HdC(p, hd, hd')
<1>1. hd \in [End -> HdRec] /\ REnd(1) \in End
  BY Slots, EndsAt DEF TInv
<1> QED BY <1>1, StepsC

\* The next participant of a fan-out.
LEMMA TurnIs ==
  ASSUME TInv, NEW p \in Slot
  PROVE  /\ Turn(p) \in Leaf /\ proc[p].round \in Nat
         /\ p # Root => EndOf(p, Turn(p)) = LEnd(p)
         /\ p = Root => EndOf(p, Turn(p)) = REnd(Turn(p))
         /\ EndOf(p, Turn(p)) \in End /\ Owner(EndOf(p, Turn(p))) = p
<1>1. proc[p].round \in Nat /\ N - 1 \in Nat /\ N - 1 >= 1
  BY ProcFields, TeamAssumption, Slots DEF TInv
<1>2. Turn(p) \in Leaf
  <2>1. CASE p = Root
    <3>1. (proc[p].round % (N - 1)) \in 0 .. (N - 1) - 1
      BY <1>1
    <3> QED BY <1>1, <2>1, <3>1 DEF Turn, Leaf
  <2>2. CASE p # Root
    BY <2>2, Slots DEF Turn
  <2> QED BY <2>1, <2>2
<1>3. p # Root => p \in Leaf
  BY Slots
<1> QED BY <1>1, <1>2, <1>3, EndsAt

\* A message of a fan-in or fan-out is sent.
LEMMA FanSendIs ==
  ASSUME TInv, NEW p \in Slot, FanSend(p), NEW e, e = EndOf(p, Turn(p))
  PROVE  /\ type \in {"FANIN", "FANOUT"} /\ ~FanSide(type, p) /\ proc[p].pc = "ready"
         /\ proc[p].round < Rounds /\ e \in End /\ Owner(e) = p /\ Frame /\ ctx' = ctx
         /\ touched' = (touched \/ hd[e].freed) /\ touched' \in BOOLEAN /\ HdC(p, hd, hd')
         /\ \/ /\ Sets(p, "stop", proc[p].round, proc[p].idx, proc[p].buf, proc[p].out, "error",
                       proc[p].rank, proc[p].parts)
               /\ ~hd[Peer(e)].open /\ hd' = hd
            \/ /\ \/ hd[Peer(e)].open /\ PutAt(Peer(e), Msg(Own(p, 0, 1)), hd, hd')
                  \/ ~hd[Peer(e)].open /\ hd' = hd
               /\ Sets(p, "ready", proc[p].round + 1, proc[p].idx, proc[p].buf, proc[p].out,
                       proc[p].res, proc[p].rank, proc[p].parts)
<1>1. /\ e \in End /\ Owner(e) = p /\ proc[p].round \in Nat
  BY TurnIs
<1> DEFINE data == Own(p, 0, 1)
           r == proc[p].round + 1
<1>2. /\ type \in {"FANIN", "FANOUT"} /\ ~FanSide(type, p) /\ proc[p].pc = "ready"
      /\ proc[p].round < Rounds /\ Frame /\ ctx' = ctx
  BY DEF FanSend, canReceive, FanSide, Frame, team
<1>3. Send(p, e, data, proc' = [proc EXCEPT ![p].round = r])
  BY DEF FanSend
<1>4. data \in Seq(PieceRec)
  <2> DEFINE zero == 0
             one == 1
  <2>1. zero \in Nat /\ one \in Nat
    OBVIOUS
  <2> HIDE DEF zero, one
  <2>2. Own(p, zero, one) \in Seq(PieceRec)
    BY <2>1, MineIn
  <2> QED BY <2>2 DEF zero, one
<1>5. r \in 0 .. Rounds + 1 /\ proc \in [Slot -> ProcRec]
  BY <1>1, <1>2, TeamAssumption DEF TInv
<1> HIDE DEF data, r
<1>6. /\ touched' = (touched \/ hd[e].freed) /\ touched' \in BOOLEAN
      /\ HdC(p, hd, hd')
      /\ \/ proc' = [proc EXCEPT ![p].round = r] /\ hd[Peer(e)].open /\ PutAt(Peer(e), Msg(data), hd, hd')
         \/ proc' = [proc EXCEPT ![p].round = r] /\ ~hd[Peer(e)].open /\ hd' = hd
         \/ Return(p, "error") /\ ~hd[Peer(e)].open /\ hd' = hd
  BY <1>1, <1>3, <1>4, SendIs
<1>7. proc' = [proc EXCEPT ![p].round = r] =>
        Sets(p, proc[p].pc, r, proc[p].idx, proc[p].buf, proc[p].out,
                       proc[p].res, proc[p].rank, proc[p].parts)
  BY <1>5, SetRound
<1>8. Return(p, "error") =>
        Sets(p, "stop", proc[p].round, proc[p].idx, proc[p].buf, proc[p].out, "error",
                       proc[p].rank, proc[p].parts)
  BY ErrorIs
<1> QED BY <1>1, <1>2, <1>6, <1>7, <1>8 DEF data, r

\* It keeps the types.
LEMMA TypeFanSend ==
  ASSUME TInv, NEW p \in Slot, FanSend(p)
  PROVE  TInv'
<1> DEFINE e == EndOf(p, Turn(p))
<1>1. /\ type \in {"FANIN", "FANOUT"} /\ ~FanSide(type, p) /\ proc[p].pc = "ready"
      /\ Frame /\ ctx' = ctx /\ touched' \in BOOLEAN /\ HdC(p, hd, hd')
      /\ \/ Sets(p, "stop", proc[p].round, proc[p].idx, proc[p].buf, proc[p].out, "error",
                       proc[p].rank, proc[p].parts)
         \/ Sets(p, "ready", proc[p].round + 1, proc[p].idx, proc[p].buf, proc[p].out,
                       proc[p].res, proc[p].rank, proc[p].parts)
  BY FanSendIs
<1>2. Others(p) /\ proc'[p].pc \in {"ready", "stop"}
  BY <1>1 DEF Sets, Others
<1>3. PcTy(type, p, proc'[p].pc)
  BY <1>1, <1>2 DEF PcTy
<1>4. ctx' \in [Slot -> {"app", "managed", "queued"}]
  BY <1>1 DEF TInv
<1> QED BY <1>1, <1>2, <1>3, <1>4, TypeRest

\* A sequence without its element j.
LEMMA Removed ==
  ASSUME NEW S, NEW s \in Seq(S), NEW j \in 1 .. Len(s)
  PROVE  /\ RemoveAt(s, j) \in Seq(S) /\ Len(RemoveAt(s, j)) = Len(s) - 1
         /\ \A i \in 1 .. Len(s) - 1 :
              RemoveAt(s, j)[i] = IF i < j THEN s[i] ELSE s[i + 1]
<1>1. RemoveAt(s, j) = SubSeq(s, 1, j - 1) \o SubSeq(s, j + 1, Len(s))
  BY DEF RemoveAt
<1>2. SubSeq(s, 1, j - 1) \in Seq(S) /\ Len(SubSeq(s, 1, j - 1)) = j - 1
      /\ \A i \in 1 .. j - 1 : SubSeq(s, 1, j - 1)[i] = s[i]
  OBVIOUS
<1>3. SubSeq(s, j + 1, Len(s)) \in Seq(S) /\ Len(SubSeq(s, j + 1, Len(s))) = Len(s) - j
      /\ \A i \in 1 .. Len(s) - j : SubSeq(s, j + 1, Len(s))[i] = s[i + j]
  OBVIOUS
<1> DEFINE a == SubSeq(s, 1, j - 1)
           b == SubSeq(s, j + 1, Len(s))
<1> HIDE DEF a, b
<1>4. /\ a \in Seq(S) /\ b \in Seq(S) /\ Len(a) = j - 1 /\ Len(b) = Len(s) - j /\ RemoveAt(s, j) = a \o b
      /\ \A i \in 1 .. j - 1 : a[i] = s[i]
      /\ \A i \in 1 .. Len(s) - j : b[i] = s[i + j]
  BY <1>1, <1>2, <1>3 DEF a, b
<1>5. a \o b \in Seq(S) /\ Len(a \o b) = Len(s) - 1
  BY <1>4
<1>6. ASSUME NEW i \in 1 .. Len(s) - 1 PROVE (a \o b)[i] = IF i < j THEN s[i] ELSE s[i + 1]
  <2>1. CASE i < j
    BY <1>4, <2>1
  <2>2. CASE ~(i < j)
    <3>1. (a \o b)[i] = b[i - (j - 1)] /\ i - (j - 1) \in 1 .. Len(s) - j
      BY <1>4, <2>2
    <3> QED BY <1>4, <2>2, <3>1
  <2> QED BY <2>1, <2>2
<1> QED BY <1>4, <1>5, <1>6

\* The place behind place j.
LEMMA AdvanceIs ==
  ASSUME NEW S, NEW s \in Seq(S), NEW j \in 1 .. Len(s)
  PROVE  Advance(s, j) \in 1 .. Len(s)
  BY DEF Advance

\* The root of a fan-in probes: the stream of the team ends, because nobody is
\* left or a connection broke; there is nothing yet; a participant has ended;
\* or there is a message.
FanInProbeDoes(j, k, parts) ==
  \/ /\ parts = <<>> \/ (hd[REnd(k)].in = <<>> /\ ~hd[LEnd(k)].open)
     /\ parts # <<>> => k \in Leaf
     /\ hd' = hd
     /\ Sets(Root, "stop", proc[Root].round, j, proc[Root].buf, proc[Root].out, "zero",
             proc[Root].rank, parts)
  \/ /\ parts # <<>> /\ k \in Leaf /\ j \in DOMAIN parts
     /\ hd' = hd
     /\ Sets(Root, "hold", proc[Root].round, Advance(parts, j), proc[Root].buf, proc[Root].out,
             proc[Root].res, proc[Root].rank, parts)
  \/ /\ parts # <<>> /\ k \in Leaf /\ j \in DOMAIN parts
     /\ hd[REnd(k)].in # <<>> /\ Head(hd[REnd(k)].in).size = 0
     /\ EosBothAt(REnd(k), hd, hd')
     /\ Sets(Root, "hold", proc[Root].round,
             IF j > Len(RemoveAt(parts, j)) THEN 1 ELSE Advance(RemoveAt(parts, j), j),
             proc[Root].buf, proc[Root].out, proc[Root].res, proc[Root].rank, RemoveAt(parts, j))
  \/ /\ parts # <<>> /\ k \in Leaf /\ j \in DOMAIN parts
     /\ hd[REnd(k)].in # <<>> /\ Head(hd[REnd(k)].in).size > 0
     /\ ProbedAt(REnd(k), hd, hd')
     /\ Sets(Root, "got", proc[Root].round, j, proc[Root].buf, proc[Root].out,
             proc[Root].res, proc[Root].rank, parts)

\* The end of the stream of the team.
LEMMA TeamEndsIs ==
  ASSUME TInv, NEW p \in Slot, TeamEnds(p)
  PROVE  Sets(p, "stop", proc[p].round, proc[p].idx, proc[p].buf, proc[p].out, "zero",
              proc[p].rank, proc[p].parts)
<1> DEFINE re == "zero"
           c == "stop"
<1>1. proc' = [proc EXCEPT ![p].res = re, ![p].pc = c] /\ proc \in [Slot -> ProcRec]
  BY DEF TeamEnds, TInv
<1>2. re \in Result /\ c \in Pc
  BY DEF Result, Pc
<1> HIDE DEF re, c
<1>3. Sets(p, c, proc[p].round, proc[p].idx, proc[p].buf, proc[p].out, re,
              proc[p].rank, proc[p].parts)
  BY Zenon, <1>1, <1>2, SetResPc
<1> QED BY <1>3 DEF re, c

\* An iteration of the loop does one of these.
LEMMA FanInProbeIs ==
  ASSUME TInv, FanInProbe, NEW j, j = proc[Root].idx, NEW parts, parts = proc[Root].parts,
         NEW k, k = parts[j]
  PROVE  /\ type = "FANIN" /\ proc[Root].pc = "hold" /\ Frame /\ ctx' = ctx
         /\ parts = <<>> => touched' = touched
         /\ parts # <<>> => touched' = (touched \/ hd[REnd(k)].freed)
         /\ HdC(Root, hd, hd') /\ touched' \in BOOLEAN
         /\ FanInProbeDoes(j, k, parts)
<1>1. type = "FANIN" /\ proc[Root].pc = "hold" /\ Frame /\ ctx' = ctx /\ Root \in Slot
  BY Zenon, Slots DEF FanInProbe, Frame, team
<1>2. /\ proc \in [Slot -> ProcRec] /\ hd \in [End -> HdRec] /\ parts \in Seq(Leaf)
      /\ touched \in BOOLEAN
  BY <1>1, ProcFields DEF TInv
<1>3. CASE parts = <<>>
  <2>1. hd' = hd /\ touched' = touched /\ TeamEnds(Root)
    BY <1>3 DEF FanInProbe
  <2>2. Sets(Root, "stop", proc[Root].round, j, proc[Root].buf, proc[Root].out, "zero",
             proc[Root].rank, parts)
    BY <1>1, <2>1, TeamEndsIs
  <2>3. HdC(Root, hd, hd')
    BY <2>1, NoHandle
  <2> QED BY <1>1, <1>2, <1>3, <2>1, <2>2, <2>3 DEF FanInProbeDoes
<1>4. CASE parts # <<>>
  <2>1. j \in DOMAIN parts
    BY <1>1, <1>4 DEF TInv, FanTy
  <2>2. k \in Leaf
    BY <1>2, <2>1
  <2> DEFINE e == REnd(k)
             left == RemoveAt(parts, j)
             i == Advance(parts, j)
             i2 == IF j > Len(left) THEN 1 ELSE Advance(left, j)
             g == [hd EXCEPT ![e].in = Tail(@)]
             n == Head(hd[e].in).size
             c == "got"
  <2>3. /\ EndOf(Root, k) = e /\ Peer(e) = LEnd(k) /\ e \in End /\ Owner(e) = Root
    BY <2>2, EndsAt
  <2>4. Len(parts) <= N - 1 /\ N \in Nat /\ DOMAIN parts = 1 .. Len(parts)
    BY <1>1, <1>2, ProcFields, Slots
  <2>5. i \in 1 .. N
    BY <1>2, <2>1, <2>4, AdvanceIs
  <2>6. left \in PartSeq /\ i2 \in 1 .. N
    <3>1. left \in Seq(Leaf) /\ Len(left) = Len(parts) - 1
      BY <1>2, <2>1, <2>4, Removed
    <3>2. CASE j > Len(left)
      BY <2>4, <3>1, <3>2 DEF PartSeq
    <3>3. CASE ~(j > Len(left))
      <4>1. j \in 1 .. Len(left)
        BY <2>1, <2>4, <3>1, <3>3
      <4> HIDE DEF left
      <4>2. Advance(left, j) \in 1 .. Len(left)
        BY <3>1, <4>1, AdvanceIs
      <4> QED BY <2>4, <3>1, <3>3, <4>2 DEF PartSeq
    <3> QED BY <3>2, <3>3
  <2>7. /\ touched' = (touched \/ hd[e].freed)
        /\ \/ hd' = hd /\ proc' = [proc EXCEPT ![Root].idx = i]
           \/ hd[e].in = <<>> /\ ~hd[LEnd(k)].open /\ TeamEnds(Root) /\ hd' = hd
           \/ /\ hd[e].in # <<>> /\ n = 0
              /\ hd' = Closed(g, e, TRUE, TRUE)
              /\ proc' = [proc EXCEPT ![Root].parts = left, ![Root].idx = i2]
           \/ /\ hd[e].in # <<>> /\ n > 0
              /\ hd' = [hd EXCEPT ![e].probed = n]
              /\ Goto(Root, c)
    BY Zenon, <1>4, <2>3 DEF FanInProbe, Touch
  <2>8. hd[e].in # <<>> => n \in {None} \cup Nat
    <3>1. hd[e].in \in Seq(MsgRec)
      BY <1>2, <2>3, HdFields
    <3>2. hd[e].in # <<>> => Head(hd[e].in) \in MsgRec
      BY <3>1
    <3> QED BY <3>2 DEF MsgRec
  <2>9. hd[e].in # <<>> => TookAt(e, hd, g)
    BY Zenon, <1>2, <2>3, Took
  <2>10. c \in Pc /\ c = "got"
    BY DEF Pc
  <2> HIDE DEF e, left, i, i2, g, n, c
  <2>11. CASE hd' = hd /\ proc' = [proc EXCEPT ![Root].idx = i]
    <3>1. HdC(Root, hd, hd')
      BY <2>11, NoHandle
    <3>2. Sets(Root, proc[Root].pc, proc[Root].round, i, proc[Root].buf, proc[Root].out,
               proc[Root].res, proc[Root].rank, proc[Root].parts)
      BY <1>1, <1>2, <2>5, <2>11, SetIdx
    <3> QED BY Zenon, <1>1, <1>2, <1>4, <2>1, <2>2, <2>7, <2>11, <3>1, <3>2 DEF FanInProbeDoes, e, i
  <2>12. CASE hd[e].in = <<>> /\ ~hd[LEnd(k)].open /\ TeamEnds(Root) /\ hd' = hd
    <3>1. HdC(Root, hd, hd')
      BY <2>12, NoHandle
    <3>2. Sets(Root, "stop", proc[Root].round, j, proc[Root].buf, proc[Root].out, "zero",
               proc[Root].rank, parts)
      BY <1>1, <2>12, TeamEndsIs
    <3> QED BY <1>1, <1>2, <1>4, <2>1, <2>2, <2>7, <2>12, <3>1, <3>2 DEF FanInProbeDoes, e
  <2>13. CASE /\ hd[e].in # <<>> /\ n = 0
              /\ hd' = Closed(g, e, TRUE, TRUE)
              /\ proc' = [proc EXCEPT ![Root].parts = left, ![Root].idx = i2]
    <3>1. TookAt(e, hd, g) /\ g \in [End -> HdRec]
      BY <2>9, <2>13 DEF TookAt, Only
    <3>2. BothAt(e, g, hd')
      BY <2>3, <2>13, <3>1, ClosedBoth
    <3>3. EosBothAt(e, hd, hd')
      BY <1>2, <2>3, <3>1, <3>2, EosParts
    <3>4. HdC(Root, hd, g) /\ HdC(Root, g, hd')
      BY <1>2, <2>3, <3>1, <3>2, StepsC, ClosesC
    <3>5. HdC(Root, hd, hd')
      BY <3>4, TransC
    <3>6. Sets(Root, proc[Root].pc, proc[Root].round, i2, proc[Root].buf, proc[Root].out,
               proc[Root].res, proc[Root].rank, left)
      BY Zenon, <1>1, <1>2, <2>6, <2>13, SetPartsIdx
    <3>7. FanInProbeDoes(j, k, parts)
      BY Zenon, <1>1, <1>4, <2>1, <2>2, <2>13, <3>3, <3>6 DEF FanInProbeDoes, e, n, i2, left
    <3> QED BY <1>1, <1>2, <1>4, <2>7, <3>5, <3>7 DEF e
  <2>14. CASE /\ hd[e].in # <<>> /\ n > 0
              /\ hd' = [hd EXCEPT ![e].probed = n]
              /\ Goto(Root, c)
    <3>1. ProbedAt(e, hd, hd')
      BY <1>2, <2>3, <2>8, <2>14, ProbedIs
    <3>2. HdC(Root, hd, hd')
      BY <1>2, <2>3, <3>1, StepsC
    <3>3. Sets(Root, c, proc[Root].round, proc[Root].idx, proc[Root].buf, proc[Root].out,
               proc[Root].res, proc[Root].rank, proc[Root].parts)
      BY <1>1, <2>10, <2>14, GotoIs
    <3>4. FanInProbeDoes(j, k, parts)
      BY Zenon, <1>1, <1>4, <2>1, <2>2, <2>10, <2>14, <3>1, <3>3 DEF FanInProbeDoes, e, n
    <3> QED BY <1>1, <1>2, <1>4, <2>7, <3>2, <3>4 DEF e
  <2> QED BY <2>7, <2>11, <2>12, <2>13, <2>14
<1> QED BY <1>3, <1>4

\* The probe of a fan-in keeps the types.
LEMMA TypeFanInProbe ==
  ASSUME TInv, FanInProbe
  PROVE  TInv'
<1> DEFINE j == proc[Root].idx
           parts == proc[Root].parts
           k == parts[j]
<1>1. /\ type = "FANIN" /\ proc[Root].pc = "hold" /\ Frame /\ ctx' = ctx
      /\ HdC(Root, hd, hd') /\ touched' \in BOOLEAN /\ FanInProbeDoes(j, k, parts)
  BY FanInProbeIs
<1>2. Root \in Slot /\ parts \in Seq(Leaf) /\ DOMAIN parts = 1 .. Len(parts)
  BY Slots, ProcFields DEF TInv
<1>3. ctx' \in [Slot -> {"app", "managed", "queued"}] /\ type' = type
  BY <1>1 DEF TInv, Frame
<1> HIDE DEF j, parts, k
<1>4. CASE Sets(Root, "stop", proc[Root].round, j, proc[Root].buf, proc[Root].out, "zero",
                proc[Root].rank, parts)
  <2>1. Others(Root) /\ proc'[Root].pc = "stop"
    BY <1>4 DEF Sets, Others
  <2>2. PcTy(type, Root, proc'[Root].pc)
    BY <2>1 DEF PcTy
  <2> QED BY <1>1, <1>2, <1>3, <2>1, <2>2, TypeRest
<1>5. ASSUME NEW i, NEW pa, NEW out, NEW re, pa # <<>> => i \in DOMAIN pa,
             Sets(Root, "hold", proc[Root].round, i, proc[Root].buf, out, re, proc[Root].rank, pa)
      PROVE  TInv'
  <2>1. Others(Root) /\ proc'[Root].pc = "hold" /\ proc'[Root].idx = i /\ proc'[Root].parts = pa
    BY <1>5 DEF Sets, Others
  <2>2. ProcTy(Root)'
    BY <1>1, <1>3, <2>1 DEF ProcTy, PcTy, FanSide
  <2>3. GotTy(Root)'
    BY <2>1 DEF GotTy
  <2>4. BufTy'
    BY <2>1 DEF BufTy
  <2>5. FanTy'
    BY <1>5, <2>1 DEF FanTy
  <2> QED BY <1>1, <1>2, <1>3, <2>1, <2>2, <2>3, <2>4, <2>5, TypeStep
<1>6. CASE /\ parts # <<>> /\ j \in DOMAIN parts
           /\ Sets(Root, "hold", proc[Root].round, Advance(parts, j), proc[Root].buf, proc[Root].out,
                   proc[Root].res, proc[Root].rank, parts)
  <2>1. Advance(parts, j) \in DOMAIN parts
    BY <1>2, <1>6, AdvanceIs
  <2> QED BY <1>5, <1>6, <2>1
<1>7. CASE /\ parts # <<>> /\ j \in DOMAIN parts
           /\ Sets(Root, "hold", proc[Root].round,
                   IF j > Len(RemoveAt(parts, j)) THEN 1 ELSE Advance(RemoveAt(parts, j), j),
                   proc[Root].buf, proc[Root].out, proc[Root].res, proc[Root].rank, RemoveAt(parts, j))
  <2> DEFINE left == RemoveAt(parts, j)
             i2 == IF j > Len(left) THEN 1 ELSE Advance(left, j)
  <2>1. left \in Seq(Leaf)
    BY <1>2, <1>7, Removed
  <2> HIDE DEF left
  <2>2. left # <<>> => i2 \in DOMAIN left
    <3> SUFFICES ASSUME left # <<>> PROVE i2 \in 1 .. Len(left)
      BY <2>1
    <3>1. CASE j > Len(left)
      BY <2>1, <3>1
    <3>2. CASE ~(j > Len(left))
      <4>1. j \in 1 .. Len(left)
        BY <1>2, <1>7, <2>1, <3>2
      <4> QED BY <2>1, <3>2, <4>1, AdvanceIs
    <3> QED BY <3>1, <3>2
  <2>3. Sets(Root, "hold", proc[Root].round, i2, proc[Root].buf, proc[Root].out, proc[Root].res,
             proc[Root].rank, left)
    BY <1>7 DEF left
  <2> HIDE DEF i2
  <2> QED BY <1>5, <2>2, <2>3
<1>8. CASE /\ parts # <<>> /\ k \in Leaf /\ j \in DOMAIN parts
           /\ hd[REnd(k)].in # <<>> /\ Head(hd[REnd(k)].in).size > 0
           /\ ProbedAt(REnd(k), hd, hd')
           /\ Sets(Root, "got", proc[Root].round, j, proc[Root].buf, proc[Root].out,
                   proc[Root].res, proc[Root].rank, parts)
  <2>1. Others(Root) /\ proc'[Root].pc = "got" /\ proc'[Root].idx = j /\ proc'[Root].parts = parts
    BY <1>8 DEF Sets, Others
  <2>2. ProcTy(Root)'
    BY <1>1, <1>3, <2>1 DEF ProcTy, PcTy, FanSide
  <2>3. Probing(Root)' = REnd(k)
    <3>1. Probing(Root)' = EndOf(Root, proc'[Root].parts[proc'[Root].idx])
      BY DEF Probing
    <3>2. k = parts[j]
      BY DEF k
    <3> QED BY <1>8, <2>1, <3>1, <3>2, EndsAt
  <2>4. hd'[REnd(k)].in = hd[REnd(k)].in
    BY <1>8 DEF ProbedAt
  <2>5. GotTy(Root)'
    BY <1>8, <2>3, <2>4 DEF GotTy
  <2>6. BufTy'
    BY <2>1 DEF BufTy
  <2>7. FanTy'
    BY <1>8, <2>1 DEF FanTy
  <2> QED BY <1>1, <1>2, <1>3, <2>1, <2>2, <2>5, <2>6, <2>7, TypeStep
<1> QED BY <1>1, <1>4, <1>6, <1>7, <1>8 DEF FanInProbeDoes

\* A member of a fan-out probes.
LEMMA FanOutProbeIs ==
  ASSUME TInv, NEW p \in Leaf, FanOutProbe(p)
  PROVE  /\ type = "FANOUT" /\ proc[p].pc = "hold" /\ Readable(LEnd(p)) /\ Frame /\ ctx' = ctx
         /\ HdC(p, hd, hd') /\ touched' \in BOOLEAN
         /\ \/ /\ hd[LEnd(p)].in = <<>> /\ hd' = hd
               /\ Sets(p, "stop", proc[p].round, proc[p].idx, proc[p].buf, proc[p].out, "zero",
                       proc[p].rank, proc[p].parts)
            \/ /\ hd[LEnd(p)].in # <<>> /\ Head(hd[LEnd(p)].in).size = 0
               /\ EosBothAt(LEnd(p), hd, hd')
               /\ Sets(p, "stop", proc[p].round, proc[p].idx, proc[p].buf, proc[p].out, "zero",
                       proc[p].rank, proc[p].parts)
            \/ /\ hd[LEnd(p)].in # <<>> /\ Head(hd[LEnd(p)].in).size > 0
               /\ ProbedAt(LEnd(p), hd, hd')
               /\ Sets(p, "got", proc[p].round, proc[p].idx, proc[p].buf, proc[p].out,
                       proc[p].res, proc[p].rank, proc[p].parts)
<1> DEFINE e == LEnd(p)
           n == Head(hd[e].in).size
           g == [hd EXCEPT ![e].in = Tail(@)]
           f == Closed(g, e, TRUE, TRUE)
           z == 0
           c == "got"
<1>1. p \in Slot /\ e \in End /\ Owner(e) = p /\ EndOf(p, p) = e
  BY Slots, EndsAt
<1>2. hd \in [End -> HdRec] /\ hd[e].in \in Seq(MsgRec) /\ touched \in BOOLEAN
  BY <1>1, HdFields DEF TInv
<1>3. hd[e].in # <<>> => n \in Nat
  <2>1. hd[e].in # <<>> => Head(hd[e].in) \in MsgRec
    BY <1>2
  <2> QED BY <2>1 DEF MsgRec
<1>4. type = "FANOUT" /\ proc[p].pc = "hold" /\ Readable(e) /\ Frame /\ ctx' = ctx
  BY <1>1 DEF FanOutProbe, Frame, team
<1> DEFINE A1 == TeamEnds(p) /\ hd' = hd /\ Touch({e})
           A2 == hd' = [f EXCEPT ![e].probed = z] /\ touched' = TRUE /\ TeamEnds(p)
           A3 == hd' = [hd EXCEPT ![e].probed = n] /\ Goto(p, c) /\ Touch({e})
<1>5. (CASE hd[e].in = <<>> -> A1
         [] hd[e].in # <<>> /\ n = 0 -> A2
         [] OTHER -> A3)
  BY <1>1 DEF FanOutProbe
<1>6. z \in {None} \cup Nat /\ c \in Pc /\ c = "got"
  BY DEF Pc
<1>7. hd[e].in # <<>> => TookAt(e, hd, g)
  BY <1>1, <1>2, Took
<1>8. Touch({e}) => touched' \in BOOLEAN
  BY DEF Touch
<1> HIDE DEF A1, A2, A3, n
<1>9. /\ hd[e].in = <<>> => A1
      /\ hd[e].in # <<>> /\ n = 0 => A2
      /\ hd[e].in # <<>> /\ n > 0 => A3
  BY <1>3, <1>5
<1>10. TeamEnds(p) => Sets(p, "stop", proc[p].round, proc[p].idx, proc[p].buf, proc[p].out, "zero",
                       proc[p].rank, proc[p].parts)
  BY <1>1, TeamEndsIs
<1> HIDE DEF e, g, f, z, c
<1>11. CASE hd[e].in = <<>>
  <2>1. A1 /\ HdC(p, hd, hd')
    BY <1>9, <1>11, NoHandle DEF A1
  <2> QED BY <1>4, <1>8, <1>10, <1>11, <2>1 DEF A1, e
<1>12. CASE hd[e].in # <<>> /\ n = 0
  <2>1. A2 /\ TookAt(e, hd, g) /\ g \in [End -> HdRec]
    BY <1>7, <1>9, <1>12 DEF TookAt, Only
  <2>10. BothAt(e, g, f)
    BY <1>1, <2>1, ClosedBoth DEF f
  <2>2. BothAt(e, g, f) /\ f \in [End -> HdRec]
    BY <2>10 DEF BothAt
  <2>3. EosBothAt(e, hd, f)
    BY <1>1, <1>2, <2>1, <2>2, EosParts
  <2>4. ProbedAt(e, f, hd')
    BY <1>1, <1>6, <2>1, <2>2, ProbedIs DEF A2
  <2>5. HdC(p, hd, g) /\ HdC(p, g, f) /\ HdC(p, f, hd')
    BY <1>1, <1>2, <2>1, <2>2, <2>4, StepsC, ClosesC
  <2>6. HdC(p, hd, hd')
    BY <2>5, TransC
  <2>7. Peer(e) # e /\ Peer(e) \in End
    BY <1>1, PeerOf
  <2>8. EosBothAt(e, hd, hd')
    BY <1>1, <2>3, <2>4, <2>7 DEF EosBothAt, ProbedAt, Only, SameFlags, Told
  <2>9. TeamEnds(p) /\ touched' = TRUE
    BY <2>1 DEF A2
  <2> QED BY <1>4, <1>10, <1>12, <2>6, <2>8, <2>9 DEF e, n
<1>13. CASE hd[e].in # <<>> /\ n > 0
  <2>1. hd' = [hd EXCEPT ![e].probed = n] /\ Goto(p, c) /\ touched' \in BOOLEAN /\ n \in {None} \cup Nat
    BY <1>3, <1>8, <1>9, <1>13 DEF A3, n, e
  <2>2. ProbedAt(e, hd, hd')
    BY <1>1, <1>2, <2>1, ProbedIs
  <2>3. HdC(p, hd, hd')
    BY <1>1, <1>2, <2>2, StepsC
  <2>4. Sets(p, c, proc[p].round, proc[p].idx, proc[p].buf, proc[p].out,
             proc[p].res, proc[p].rank, proc[p].parts)
    BY <1>1, <1>6, <2>1, GotoIs
  <2>5. Sets(p, "got", proc[p].round, proc[p].idx, proc[p].buf, proc[p].out,
             proc[p].res, proc[p].rank, proc[p].parts)
    BY <1>6, <2>4
  <2> QED BY <1>4, <1>13, <2>1, <2>2, <2>3, <2>5 DEF e, n
<1>14. hd[e].in = <<>> \/ (hd[e].in # <<>> /\ n = 0) \/ (hd[e].in # <<>> /\ n > 0)
  BY <1>3 DEF n, e
<1> QED BY <1>11, <1>12, <1>13, <1>14

\* The probe of a fan-out keeps the types.
LEMMA TypeFanOutProbe ==
  ASSUME TInv, NEW p \in Leaf, FanOutProbe(p)
  PROVE  TInv'
<1> DEFINE e == LEnd(p)
<1>1. p \in Slot /\ p # Root /\ e \in End /\ Owner(e) = p /\ EndOf(p, p) = e
  BY Slots, EndsAt
<1>2. /\ type = "FANOUT" /\ proc[p].pc = "hold" /\ Frame /\ ctx' = ctx
      /\ HdC(p, hd, hd') /\ touched' \in BOOLEAN
      /\ \/ Sets(p, "stop", proc[p].round, proc[p].idx, proc[p].buf, proc[p].out, "zero",
                 proc[p].rank, proc[p].parts)
         \/ /\ hd[e].in # <<>> /\ Head(hd[e].in).size > 0
            /\ ProbedAt(e, hd, hd')
            /\ Sets(p, "got", proc[p].round, proc[p].idx, proc[p].buf, proc[p].out,
                    proc[p].res, proc[p].rank, proc[p].parts)
  BY FanOutProbeIs
<1>3. ctx' \in [Slot -> {"app", "managed", "queued"}] /\ type' = type
  BY <1>2 DEF TInv, Frame
<1> HIDE DEF e
<1>4. CASE Sets(p, "stop", proc[p].round, proc[p].idx, proc[p].buf, proc[p].out, "zero",
                proc[p].rank, proc[p].parts)
  <2>1. Others(p) /\ proc'[p].pc = "stop"
    BY <1>4 DEF Sets, Others
  <2>2. PcTy(type, p, proc'[p].pc)
    BY <2>1 DEF PcTy
  <2> QED BY <1>1, <1>2, <1>3, <2>1, <2>2, TypeRest
<1>5. CASE /\ hd[e].in # <<>> /\ Head(hd[e].in).size > 0
           /\ ProbedAt(e, hd, hd')
           /\ Sets(p, "got", proc[p].round, proc[p].idx, proc[p].buf, proc[p].out,
                   proc[p].res, proc[p].rank, proc[p].parts)
  <2>1. Others(p) /\ proc'[p].pc = "got"
    BY <1>5 DEF Sets, Others
  <2>2. ProcTy(p)'
    BY <1>1, <1>2, <1>3, <2>1 DEF ProcTy, PcTy, FanSide
  <2>3. Probing(p)' = e
    BY <1>1 DEF Probing
  <2>4. hd'[e].in = hd[e].in
    BY <1>5 DEF ProbedAt
  <2>5. GotTy(p)'
    BY <1>5, <2>3, <2>4 DEF GotTy
  <2> QED BY <1>1, <1>2, <1>3, <2>1, <2>2, <2>5, TypeStep
<1> QED BY <1>2, <1>4, <1>5

\* What was probed is received.
LEMMA FanReceiveIs ==
  ASSUME TInv, NEW p \in Slot, FanReceive(p), NEW e, e = Probing(p)
  PROVE  /\ proc[p].pc = "got" /\ FanSide(type, p) /\ e \in End /\ Owner(e) = p
         /\ Frame /\ ctx' = ctx /\ touched' = (touched \/ hd[e].freed) /\ touched' \in BOOLEAN
         /\ HdC(p, hd, hd') /\ TookAt(e, hd, hd') /\ hd[e].in # <<>> /\ Head(hd[e].in).size > 0
         /\ First(e) \in PieceRec
         /\ Sets(p, "received", proc[p].round, 1, proc[p].buf, Append(proc[p].out, First(e)),
                 proc[p].res, proc[p].rank, proc[p].parts)
<1>1. proc[p].pc = "got" /\ Frame /\ ctx' = ctx
  BY Zenon DEF FanReceive, Frame, team
<1>2. e \in End /\ Owner(e) = p
  <2>1. CASE p = Root
    BY <1>1, <2>1, ProbingRoot
  <2>2. CASE p # Root
    BY <2>2, Slots, ProbingLeaf
  <2> QED BY <2>1, <2>2
<1>3. hd[e].in # <<>> /\ Head(hd[e].in).size > 0
  BY <1>1 DEF TInv, GotTy
<1>4. FanSide(type, p)
  BY <1>1 DEF TInv, ProcTy, PcTy
<1> DEFINE n == None
           o == Append(proc[p].out, First(e))
           c == "received"
           i == 1
<1>5. /\ touched' = (touched \/ hd[e].freed)
      /\ hd' = [hd EXCEPT ![e].in = Tail(@), ![e].probed = n]
      /\ proc' = [proc EXCEPT ![p].out = o, ![p].pc = c, ![p].idx = i]
  BY Zenon DEF FanReceive, Touch, Probing
<1>6. touched' \in BOOLEAN
  BY <1>5
<1>7. hd \in [End -> HdRec] /\ proc \in [Slot -> ProcRec] /\ proc[p].out \in Seq(PieceRec)
  BY ProcFields DEF TInv
<1>8. n \in {None} \cup Nat /\ c \in Pc /\ i \in 1 .. N /\ c = "received" /\ i = 1
  BY Slots DEF Pc
<1>9. Head(hd[e].in).size # 0
  BY <1>3
<1>10. First(e) \in PieceRec
  BY <1>2, <1>3, <1>7, <1>9, FirstPiece DEF First
<1>11. o \in Seq(PieceRec)
  BY <1>7, <1>10
<1> HIDE DEF n, o, c, i
<1>12. TookAt(e, hd, hd')
  BY <1>2, <1>3, <1>5, <1>7, <1>8, TookProbed
<1>13. HdC(p, hd, hd')
  BY <1>2, <1>7, <1>12, StepsC
<1>14. Sets(p, c, proc[p].round, i, proc[p].buf, o, proc[p].res, proc[p].rank, proc[p].parts)
  BY Zenon, <1>5, <1>7, <1>8, <1>11, SetOutPcIdx
<1>15. Sets(p, "received", proc[p].round, 1, proc[p].buf, Append(proc[p].out, First(e)),
                 proc[p].res, proc[p].rank, proc[p].parts)
  BY <1>8, <1>14 DEF o
<1> QED BY <1>1, <1>2, <1>3, <1>4, <1>5, <1>6, <1>10, <1>12, <1>13, <1>15

\* A process of a fan-in or fan-out is where its place is the first.
LEMMA TypeHold ==
  ASSUME TInv, NEW p \in Slot, Frame, Others(p), HdC(p, hd, hd'), FanSide(type, p),
         ctx' \in [Slot -> {"app", "managed", "queued"}], touched' \in BOOLEAN,
         proc[p].pc # "dead", proc'[p].pc \in {"hold", "received", "away"},
         p = Root => proc'[p].idx = 1 /\ proc'[p].parts \in Seq(Leaf)
  PROVE  TInv'
<1>1. type' = type
  BY DEF Frame
<1>2. ProcTy(p)'
  BY <1>1 DEF ProcTy, PcTy
<1>3. GotTy(p)'
  BY DEF GotTy
<1>4. p = Root => BufTy' /\ FanTy'
  <2> SUFFICES ASSUME p = Root PROVE BufTy' /\ FanTy'
    OBVIOUS
  <2>1. proc'[Root].pc \in {"hold", "received", "away"} /\ proc'[Root].idx = 1 /\ proc'[Root].parts \in Seq(Leaf)
    OBVIOUS
  <2>2. BufTy'
    BY <2>1 DEF BufTy
  <2>3. proc'[Root].parts # <<>> => 1 \in DOMAIN proc'[Root].parts
    BY <2>1
  <2>4. FanTy'
    BY <2>1, <2>3 DEF FanTy
  <2> QED BY <2>2, <2>4
<1> QED BY <1>2, <1>3, <1>4, TypeStep

\* Receiving, keeping, yielding and getting a team keep the types.
LEMMA TypeFanReceive ==
  ASSUME TInv, NEW p \in Slot, FanReceive(p)
  PROVE  TInv'
<1> DEFINE e == Probing(p)
<1>1. /\ proc[p].pc = "got" /\ FanSide(type, p) /\ Frame /\ ctx' = ctx /\ touched' \in BOOLEAN
      /\ HdC(p, hd, hd')
      /\ Sets(p, "received", proc[p].round, 1, proc[p].buf, Append(proc[p].out, First(e)),
                 proc[p].res, proc[p].rank, proc[p].parts)
  BY FanReceiveIs
<1> HIDE DEF e
<1>2. Others(p) /\ proc'[p].pc = "received" /\ proc'[p].idx = 1 /\ proc'[p].parts = proc[p].parts
  BY <1>1 DEF Sets, Others
<1>3. proc[p].parts \in Seq(Leaf) /\ ctx' \in [Slot -> {"app", "managed", "queued"}]
  BY <1>1, ProcFields DEF TInv
<1> QED BY <1>1, <1>2, <1>3, TypeHold

\* The handle of the team changes hands.
LEMMA HandOverIs ==
  ASSUME TInv, NEW p \in Slot, Keep(p) \/ YieldTeam(p) \/ GetNextTeam(p)
  PROVE  /\ proc[p].pc \in {"received", "away"} /\ FanSide(type, p) /\ Frame /\ touched' = touched
         /\ hd' = hd /\ HdC(p, hd, hd') /\ ctx' \in [Slot -> {"app", "managed", "queued"}]
         /\ \/ Sets(p, "hold", proc[p].round, proc[p].idx, proc[p].buf, proc[p].out,
                    proc[p].res, proc[p].rank, proc[p].parts)
            \/ Sets(p, "away", proc[p].round, proc[p].idx, proc[p].buf, proc[p].out,
                    proc[p].res, proc[p].rank, proc[p].parts)
<1> DEFINE c1 == "hold"
           c2 == "away"
<1>1. /\ proc[p].pc \in {"received", "away"} /\ Frame /\ touched' = touched /\ hd' = hd
      /\ Goto(p, c1) \/ Goto(p, c2)
  BY DEF Keep, YieldTeam, GetNextTeam, Frame, team
<1>2. FanSide(type, p)
  BY <1>1 DEF TInv, ProcTy, PcTy
<1>3. HdC(p, hd, hd')
  BY <1>1, NoHandle
<1>4. ctx \in [Slot -> {"app", "managed", "queued"}]
  BY DEF TInv
<1>5. ctx' \in [Slot -> {"app", "managed", "queued"}]
  BY <1>4 DEF Keep, YieldTeam, GetNextTeam
<1>6. c1 \in Pc /\ c2 \in Pc /\ c1 = "hold" /\ c2 = "away"
  BY DEF Pc
<1> HIDE DEF c1, c2
<1>7. \/ Sets(p, c1, proc[p].round, proc[p].idx, proc[p].buf, proc[p].out,
              proc[p].res, proc[p].rank, proc[p].parts)
      \/ Sets(p, c2, proc[p].round, proc[p].idx, proc[p].buf, proc[p].out,
              proc[p].res, proc[p].rank, proc[p].parts)
  BY <1>1, <1>6, GotoIs
<1> QED BY <1>1, <1>2, <1>3, <1>5, <1>6, <1>7

\* This keeps the types.
LEMMA TypeHandOver ==
  ASSUME TInv, NEW p \in Slot, Keep(p) \/ YieldTeam(p) \/ GetNextTeam(p)
  PROVE  TInv'
<1>1. /\ proc[p].pc \in {"received", "away"} /\ FanSide(type, p) /\ Frame /\ touched' = touched
      /\ hd' = hd /\ HdC(p, hd, hd') /\ ctx' \in [Slot -> {"app", "managed", "queued"}]
      /\ \/ Sets(p, "hold", proc[p].round, proc[p].idx, proc[p].buf, proc[p].out,
                 proc[p].res, proc[p].rank, proc[p].parts)
         \/ Sets(p, "away", proc[p].round, proc[p].idx, proc[p].buf, proc[p].out,
                 proc[p].res, proc[p].rank, proc[p].parts)
  BY HandOverIs
<1>2. /\ Others(p) /\ proc'[p].pc \in {"hold", "away"} /\ proc'[p].idx = proc[p].idx
      /\ proc'[p].parts = proc[p].parts
  BY <1>1 DEF Sets, Others
<1>3. proc[p].parts \in Seq(Leaf) /\ touched' \in BOOLEAN /\ proc[p].pc # "dead"
  BY <1>1, ProcFields DEF TInv
<1>4. p = Root => type = "FANIN" /\ proc[p].idx = 1
  <2> SUFFICES ASSUME p = Root PROVE type = "FANIN" /\ proc[Root].idx = 1
    OBVIOUS
  <2>1. type = "FANIN"
    BY <1>1 DEF FanSide
  <2> QED BY <1>1, <2>1 DEF TInv, FanTy
<1> QED BY <1>1, <1>2, <1>3, <1>4, TypeHold

\* A team is closed.
LEMMA CloseTeamIs ==
  ASSUME TInv, NEW p \in Slot, CloseTeam(p)
  PROVE  /\ Finished(p) /\ Frame /\ ctx' = ctx
         /\ touched' = (touched \/ \E e \in Closes(p) : hd[e].freed) /\ touched' \in BOOLEAN
         /\ AllWrAt(Closes(p), hd, hd') /\ HdC(p, hd, hd')
         /\ Sets(p, "final", proc[p].round, 1, proc[p].buf, proc[p].out,
                 proc[p].res, proc[p].rank, proc[p].parts)
<1> DEFINE c == "final"
           i == 1
<1>1. /\ Finished(p) /\ Frame /\ ctx' = ctx /\ hd' = ClosedAll(Closes(p))
      /\ touched' = (touched \/ \E e \in Closes(p) : hd[e].freed)
      /\ proc' = [proc EXCEPT ![p].pc = c, ![p].idx = i]
  BY DEF CloseTeam, Frame, team, Touch
<1>2. touched' \in BOOLEAN
  BY <1>1
<1>3. hd \in [End -> HdRec] /\ proc \in [Slot -> ProcRec]
  BY DEF TInv
<1>4. AllWrAt(Closes(p), hd, hd') /\ HdC(p, hd, hd')
  BY <1>1, <1>3, ClosedAllC
<1>5. c \in Pc /\ i \in 1 .. N /\ c = "final" /\ i = 1
  BY Slots DEF Pc
<1> HIDE DEF c, i
<1>6. Sets(p, c, proc[p].round, i, proc[p].buf, proc[p].out,
                 proc[p].res, proc[p].rank, proc[p].parts)
  BY Zenon, <1>1, <1>3, <1>5, SetPcIdx
<1> QED BY <1>1, <1>2, <1>4, <1>5, <1>6

\* A process visits the connection e when it finalizes.
FinalizeDoes(p, k, e) ==
  \/ /\ hd' = hd /\ (k = N \/ (p # Root /\ k > 1))
     /\ Sets(p, "end", proc[p].round, k, proc[p].buf, proc[p].out,
             proc[p].res, proc[p].rank, proc[p].parts)
  \/ /\ hd' = hd /\ e \in End /\ Owner(e) = p /\ hd[e].wr /\ hd[e].rd
     /\ Sets(p, "final", proc[p].round, k + 1, proc[p].buf, proc[p].out,
             proc[p].res, proc[p].rank, proc[p].parts)
  \/ /\ e \in End /\ Owner(e) = p /\ ~hd[e].wr /\ WrAt(e, hd, hd') /\ proc' = proc
  \/ /\ e \in End /\ Owner(e) = p /\ hd[e].wr /\ ~hd[e].rd /\ hd[e].in # <<>> /\ proc' = proc
     /\ \/ Head(hd[e].in).size > 0 /\ TookAt(e, hd, hd')
        \/ Head(hd[e].in).size = 0 /\ EosAt(e, hd, hd')

\* A step of the visit is one of these.
LEMMA FinalizeIs ==
  ASSUME TInv, NEW p \in Slot, FinalizeHandle(p), NEW k, k = proc[p].idx, NEW e, e = EndOf(p, k)
  PROVE  /\ proc[p].pc = "final" /\ Frame /\ ctx' = ctx /\ touched' = touched /\ HdC(p, hd, hd')
         /\ FinalizeDoes(p, k, e)
<1>1. proc[p].pc = "final" /\ Frame /\ ctx' = ctx /\ touched' = touched
  BY DEF FinalizeHandle, Frame, team
<1>2. k \in 1 .. N /\ N \in Nat /\ N >= 2 /\ hd \in [End -> HdRec] /\ proc \in [Slot -> ProcRec]
  BY ProcFields, Slots DEF TInv
<1> DEFINE c == "end"
           g == [hd EXCEPT ![e].in = Tail(@)]
           i == k + 1
<1>3. \/ (k = N \/ (p # Root /\ k > 1)) /\ Goto(p, c) /\ hd' = hd
      \/ /\ k < N /\ (p # Root => k = 1)
         /\ \/ hd[e].wr /\ hd[e].rd /\ proc' = [proc EXCEPT ![p].idx = i] /\ hd' = hd
            \/ ~hd[e].wr /\ hd' = Closed(hd, e, TRUE, FALSE) /\ proc' = proc
            \/ /\ hd[e].wr /\ ~hd[e].rd /\ hd[e].in # <<>>
               /\ hd' = IF Head(hd[e].in).size > 0
                        THEN [hd EXCEPT ![e].in = Tail(@), ![e].probed = None]
                        ELSE Closed(g, e, FALSE, TRUE)
               /\ proc' = proc
  BY Zenon DEF FinalizeHandle
<1>4. c \in Pc /\ c = "end"
  BY DEF Pc
<1> HIDE DEF c, g, i
<1>5. CASE (k = N \/ (p # Root /\ k > 1)) /\ Goto(p, c) /\ hd' = hd
  <2>1. HdC(p, hd, hd')
    BY <1>5, NoHandle
  <2>2. Sets(p, c, proc[p].round, proc[p].idx, proc[p].buf, proc[p].out,
             proc[p].res, proc[p].rank, proc[p].parts)
    BY <1>4, <1>5, GotoIs
  <2> QED BY <1>1, <1>4, <1>5, <2>1, <2>2 DEF FinalizeDoes
<1>6. ASSUME k < N, p # Root => k = 1 PROVE e \in End /\ Owner(e) = p
  <2>1. k \in Leaf
    BY <1>2, <1>6 DEF Leaf
  <2> QED BY <2>1, Slots, EndsAt
<1>7. CASE /\ k < N /\ (p # Root => k = 1)
           /\ hd[e].wr /\ hd[e].rd /\ proc' = [proc EXCEPT ![p].idx = i] /\ hd' = hd
  <2>1. HdC(p, hd, hd')
    BY <1>7, NoHandle
  <2>2. i \in 1 .. N /\ i = k + 1
    BY <1>2, <1>7 DEF i
  <2>3. Sets(p, proc[p].pc, proc[p].round, i, proc[p].buf, proc[p].out,
             proc[p].res, proc[p].rank, proc[p].parts)
    BY <1>2, <1>7, <2>2, SetIdx
  <2> QED BY <1>1, <1>6, <1>7, <2>1, <2>2, <2>3 DEF FinalizeDoes
<1>8. CASE /\ k < N /\ (p # Root => k = 1)
           /\ ~hd[e].wr /\ hd' = Closed(hd, e, TRUE, FALSE) /\ proc' = proc
  <2>1. e \in End /\ Owner(e) = p
    BY <1>6, <1>8
  <2>2. WrAt(e, hd, hd')
    BY <1>2, <1>8, <2>1, ClosedWr
  <2>3. HdC(p, hd, hd')
    BY <1>2, <2>1, <2>2, ClosesC
  <2> QED BY <1>1, <1>8, <2>1, <2>2, <2>3 DEF FinalizeDoes
<1>9. CASE /\ k < N /\ (p # Root => k = 1)
           /\ hd[e].wr /\ ~hd[e].rd /\ hd[e].in # <<>>
           /\ hd' = IF Head(hd[e].in).size > 0
                    THEN [hd EXCEPT ![e].in = Tail(@), ![e].probed = None]
                    ELSE Closed(g, e, FALSE, TRUE)
           /\ proc' = proc
  <2>1. e \in End /\ Owner(e) = p
    BY <1>6, <1>9
  <2>2. Head(hd[e].in).size \in Nat
    <3>1. hd[e].in \in Seq(MsgRec)
      BY <1>2, <2>1, HdFields
    <3>2. Head(hd[e].in) \in MsgRec
      BY <1>9, <3>1
    <3> QED BY <3>2 DEF MsgRec
  <2>3. CASE Head(hd[e].in).size > 0
    <3> DEFINE n == None
    <3>1. n \in {None} \cup Nat /\ hd' = [hd EXCEPT ![e].in = Tail(@), ![e].probed = n]
          /\ hd[e].in # <<>>
      BY <1>9, <2>3
    <3> HIDE DEF n
    <3>2. TookAt(e, hd, hd')
      BY <1>2, <2>1, <3>1, TookProbed
    <3>3. HdC(p, hd, hd')
      BY <1>2, <2>1, <3>2, StepsC
    <3> QED BY Zenon, <1>1, <1>9, <2>1, <2>3, <3>2, <3>3 DEF FinalizeDoes
  <2>4. CASE Head(hd[e].in).size = 0
    <3>1. TookAt(e, hd, g)
      BY <1>2, <1>9, <2>1, Took DEF g
    <3>2. g \in [End -> HdRec]
      BY <3>1 DEF TookAt, Only
    <3>8. ~(Head(hd[e].in).size > 0)
      BY <2>4
    <3>7. hd' = Closed(g, e, FALSE, TRUE)
      BY <1>9, <3>8
    <3>3. RdAt(e, g, hd')
      BY <2>1, <3>2, <3>7, ClosedRd
    <3>4. EosAt(e, hd, hd')
      BY <1>2, <2>1, <3>1, <3>3, EosParts
    <3>5. HdC(p, hd, g) /\ HdC(p, g, hd')
      BY <1>2, <2>1, <3>1, <3>2, <3>3, StepsC
    <3>6. HdC(p, hd, hd')
      BY <3>5, TransC
    <3> QED BY Zenon, <1>1, <1>9, <2>1, <2>4, <3>4, <3>6 DEF FinalizeDoes
  <2> QED BY <2>2, <2>3, <2>4
<1> QED BY <1>3, <1>5, <1>7, <1>8, <1>9

\* Closing keeps the types.
LEMMA TypeClose ==
  ASSUME TInv, NEW p \in Slot, CloseTeam(p) \/ FinalizeHandle(p)
  PROVE  TInv'
<1>1. /\ Frame /\ ctx' = ctx /\ touched' \in BOOLEAN /\ HdC(p, hd, hd') /\ Others(p)
      /\ proc[p].pc \in {"stop", "ready", "final"} /\ proc'[p].pc \in {"final", "end"}
  <2>1. CASE CloseTeam(p)
    <3>1. /\ Finished(p) /\ Frame /\ ctx' = ctx /\ touched' \in BOOLEAN /\ HdC(p, hd, hd')
          /\ Sets(p, "final", proc[p].round, 1, proc[p].buf, proc[p].out,
                  proc[p].res, proc[p].rank, proc[p].parts)
      BY <2>1, CloseTeamIs
    <3>2. Others(p) /\ proc'[p].pc = "final"
      BY <3>1 DEF Sets, Others
    <3>3. proc[p].pc \in {"stop", "ready", "final"}
      BY <3>1 DEF Finished
    <3> QED BY <3>1, <3>2, <3>3
  <2>2. CASE FinalizeHandle(p)
    <3> DEFINE k == proc[p].idx
               e == EndOf(p, k)
    <3>1. /\ proc[p].pc = "final" /\ Frame /\ ctx' = ctx /\ touched' = touched /\ HdC(p, hd, hd')
          /\ FinalizeDoes(p, k, e) /\ proc \in [Slot -> ProcRec] /\ touched \in BOOLEAN
      BY <2>2, FinalizeIs DEF TInv
    <3> HIDE DEF k, e
    <3>2. Others(p) /\ proc'[p].pc \in {"final", "end"}
      BY <3>1 DEF FinalizeDoes, Sets, Others
    <3> QED BY <3>1, <3>2
  <2> QED BY <2>1, <2>2
<1>2. PcTy(type, p, proc'[p].pc)
  BY <1>1 DEF PcTy
<1>3. ctx' \in [Slot -> {"app", "managed", "queued"}] /\ proc[p].pc # "dead"
  BY <1>1 DEF TInv
<1> QED BY <1>1, <1>2, <1>3, TypeRest

\* A member dies.
LEMMA TypeCrash ==
  ASSUME TInv, NEW p \in Slot, Crash(p)
  PROVE  TInv'
<1>1. /\ p \in Leaf /\ p # Root /\ type \notin Creations /\ Frame /\ ctx' = ctx /\ touched' = touched
      /\ Goto(p, "dead") /\ EndOf(p, p) = LEnd(p)
  BY Slots, EndsAt DEF Crash, Frame, team
<1> DEFINE e == LEnd(p)
           c == "dead"
<1>2. /\ e \in End /\ Owner(e) = p /\ \A x \in End : x # e => Owner(x) # p
  <2>1. e \in End /\ Owner(e) = p
    BY <1>1, EndsAt
  <2>2. ASSUME NEW x \in End, x # e PROVE Owner(x) # p
    <3>1. PICK k \in Leaf : x = REnd(k) \/ x = LEnd(k)
      BY EndsAll
    <3> QED BY <1>1, <2>2, <3>1, EndsAt
  <2> QED BY <2>1, <2>2
<1>3. hd' = [hd EXCEPT ![e].open = FALSE] /\ hd \in [End -> HdRec]
  BY <1>1 DEF Crash, TInv
<1>4. c \in Pc /\ c = "dead" /\ Goto(p, c)
  BY <1>1 DEF Pc
<1> HIDE DEF c
<1>5. Sets(p, c, proc[p].round, proc[p].idx, proc[p].buf, proc[p].out,
              proc[p].res, proc[p].rank, proc[p].parts)
  BY <1>4, GotoIs
<1>6. Others(p) /\ proc'[p].pc = "dead"
  BY <1>4, <1>5 DEF Sets, Others
<1> HIDE DEF e
<1>7. /\ hd' \in [End -> HdRec] /\ ~hd'[e].open /\ hd'[e].in = hd[e].in
      /\ \A x \in End : x # e => hd'[x] = hd[x]
  <2> DEFINE r == [hd[e] EXCEPT !.open = FALSE]
  <2>1. hd[e] \in HdRec
    BY <1>2, <1>3
  <2>2. r \in HdRec /\ ~r.open /\ r.in = hd[e].in
    BY <2>1 DEF HdRec
  <2>3. hd' = [hd EXCEPT ![e] = r]
    BY <1>3
  <2> HIDE DEF r
  <2>4. hd' \in [End -> HdRec] /\ hd'[e] = r /\ \A x \in End : x # e => hd'[x] = hd[x]
    BY <1>2, <1>3, <2>2, <2>3
  <2> QED BY <2>2, <2>4
<1>8. type' = type /\ \A q \in Slot : q # p => proc'[q] = proc[q]
  BY <1>1, <1>6 DEF Frame, Others
<1>9. ASSUME NEW q \in Slot PROVE ProcTy(q)'
  <2>1. CASE q = p
    BY <1>1, <1>6, <1>8, <2>1 DEF ProcTy, PcTy
  <2>2. CASE q # p
    <3>1. ProcTy(q)
      BY DEF TInv
    <3> QED BY <1>8, <2>2, <3>1 DEF ProcTy
  <2> QED BY <2>1, <2>2
<1>10. ASSUME NEW q \in Slot PROVE GotTy(q)'
  <2>1. CASE q = p
    BY <1>6, <2>1 DEF GotTy
  <2>2. CASE q # p
    <3> SUFFICES ASSUME proc'[q].pc = "got"
                 PROVE  hd'[Probing(q)'].in # <<>> /\ Head(hd'[Probing(q)'].in).size > 0
      BY DEF GotTy
    <3>1. proc[q].pc = "got" /\ proc'[q] = proc[q]
      BY <1>8, <2>2
    <3>2. Probing(q)' = Probing(q)
      <4>1. CASE q = Root
        BY <3>1, <4>1 DEF Probing
      <4>2. CASE q # Root
        BY <4>2 DEF Probing
      <4> QED BY <4>1, <4>2
    <3>3. Probing(q) \in End
      <4>1. CASE q = Root
        BY <3>1, <4>1, ProbingRoot
      <4>2. CASE q # Root
        BY <4>2, ProbingLeaf, Slots
      <4> QED BY <4>1, <4>2
    <3>4. hd[Probing(q)].in # <<>> /\ Head(hd[Probing(q)].in).size > 0
      BY <3>1 DEF TInv, GotTy
    <3>5. hd'[Probing(q)].in = hd[Probing(q)].in
      BY <1>7, <3>3
    <3> QED BY <3>2, <3>4, <3>5
  <2> QED BY <2>1, <2>2
<1>11. ASSUME NEW x \in End PROVE HandleTy(x)'
  <2>1. Owner(x) \in Slot
    BY PeerOf
  <2>2. CASE x = e
    BY <1>2, <1>6, <1>7, <2>2 DEF HandleTy
  <2>3. CASE x # e
    <3>1. hd'[x] = hd[x] /\ proc'[Owner(x)] = proc[Owner(x)]
      BY <1>2, <1>7, <1>8, <2>1, <2>3
    <3>2. HandleTy(x)
      BY DEF TInv
    <3> QED BY <3>1, <3>2 DEF HandleTy
  <2> QED BY <2>2, <2>3
<1>12. BufTy' /\ FanTy'
  <2>1. proc'[Root] = proc[Root] /\ BufTy /\ FanTy
    BY <1>1, <1>8, Slots DEF TInv
  <2>2. BufTy'
    BY <1>8, <2>1 DEF BufTy
  <2>3. FanTy'
    BY <1>8, <2>1 DEF FanTy
  <2> QED BY <2>2, <2>3
<1>13. /\ type' \in Types /\ pos' \in RootPositions /\ datacount' \in DataCounts
       /\ ctx' \in [Slot -> {"app", "managed", "queued"}] /\ touched' \in BOOLEAN
  <2>1. /\ type \in Types /\ pos \in RootPositions /\ datacount \in DataCounts
        /\ ctx \in [Slot -> {"app", "managed", "queued"}] /\ touched \in BOOLEAN
    BY DEF TInv
  <2> QED BY <1>1, <2>1 DEF Frame
<1>14. proc' \in [Slot -> ProcRec]
  BY <1>6 DEF Others
<1> QED BY <1>7, <1>9, <1>10, <1>11, <1>12, <1>13, <1>14 DEF TInv

\* The invariant of the types does not depend on who has the context.
LEMMA TypeCtx ==
  ASSUME TInv, type' = type, pos' = pos, datacount' = datacount, proc' = proc, hd' = hd,
         touched' = touched, ctx' \in [Slot -> {"app", "managed", "queued"}]
  PROVE  TInv'
<1>1. /\ type \in Types /\ pos \in RootPositions /\ datacount \in DataCounts
      /\ proc \in [Slot -> ProcRec] /\ hd \in [End -> HdRec] /\ touched \in BOOLEAN
      /\ \A p \in Slot : ProcTy(p) /\ GotTy(p)
      /\ \A e \in End : HandleTy(e)
      /\ BufTy /\ FanTy
  BY DEF TInv
<1>2. \A p \in Slot : ProcTy(p)'
  BY <1>1 DEF ProcTy
<1>3. \A p \in Slot : GotTy(p)'
  BY <1>1 DEF GotTy, Probing
<1>4. \A e \in End : HandleTy(e)'
  BY <1>1 DEF HandleTy
<1>5. BufTy'
  BY <1>1 DEF BufTy
<1>6. FanTy'
  BY <1>1 DEF FanTy
<1> QED BY <1>1, <1>2, <1>3, <1>4, <1>5, <1>6 DEF TInv

\* Every step keeps the types.
LEMMA TypeNext ==
  ASSUME TInv, [Next]_vars
  PROVE  TInv'
<1>1. ctx \in [Slot -> {"app", "managed", "queued"}]
  BY DEF TInv
<1>2. CASE UNCHANGED vars
  BY <1>1, <1>2, TypeCtx DEF vars
<1>3. ASSUME NEW p \in Slot, Step(p) PROVE TInv'
  <2>1. CASE Sendrecv(p) \/ Create(p)
    <3>1. CASE p = Root
      BY <2>1, <3>1, TypeRoot
    <3>2. CASE p # Root
      <4>1. p \in Leaf
        BY <3>2, Slots
      <4> QED BY <2>1, <4>1, TypeLeaf
    <3> QED BY <3>1, <3>2
  <2>2. CASE Fan(p)
    <3>1. p # Root => p \in Leaf
      BY Slots
    <3>2. CASE FanSend(p)
      BY <3>2, TypeFanSend
    <3>3. CASE p = Root /\ FanInProbe
      BY <3>3, TypeFanInProbe
    <3>4. CASE p # Root /\ FanOutProbe(p)
      BY <3>1, <3>4, TypeFanOutProbe
    <3>5. CASE FanReceive(p)
      BY <3>5, TypeFanReceive
    <3>6. CASE Keep(p) \/ YieldTeam(p) \/ GetNextTeam(p)
      BY <3>6, TypeHandOver
    <3> QED BY <2>2, <3>2, <3>3, <3>4, <3>5, <3>6 DEF Fan
  <2>3. CASE CloseTeam(p) \/ FinalizeHandle(p)
    BY <2>3, TypeClose
  <2> QED BY <1>3, <2>1, <2>2, <2>3 DEF Step
<1>4. ASSUME NEW p \in Slot, FinalizeSpin(p) \/ Done PROVE TInv'
  BY <1>2, <1>4 DEF FinalizeSpin, Done
<1>5. ASSUME NEW p \in Slot, PollTeam(p) PROVE TInv'
  <2>1. /\ type' = type /\ pos' = pos /\ datacount' = datacount /\ proc' = proc /\ hd' = hd
        /\ touched' = touched /\ ctx' = [ctx EXCEPT ![p] = IF Peek(p) THEN "queued" ELSE @]
    BY <1>5 DEF PollTeam, team
  <2>2. ctx' \in [Slot -> {"app", "managed", "queued"}]
    <3> DEFINE b == Peek(p)
    <3> HIDE DEF b
    <3>1. ctx' = [ctx EXCEPT ![p] = IF b THEN "queued" ELSE ctx[p]]
      BY <2>1 DEF b
    <3> QED BY <1>1, <3>1
  <2> QED BY <2>1, <2>2, TypeCtx
<1>6. ASSUME NEW p \in Slot, Crash(p) PROVE TInv'
  BY <1>6, TypeCrash
<1>7. ASSUME Done PROVE TInv'
  BY <1>2, <1>7 DEF Done
<1> QED BY <1>2, <1>3, <1>4, <1>5, <1>6, <1>7 DEF Next

\* It holds at first.
LEMMA TypeInit ==
  ASSUME Init
  PROVE  TInv
<1>1. /\ type \in Types /\ pos \in RootPositions /\ datacount \in DataCounts
      /\ hd = [e \in End |-> NewHandle] /\ ctx = [p \in Slot |-> "app"] /\ touched = FALSE
  BY DEF Init
<1> DEFINE z == <<>>
           ps == [k \in Leaf |-> k]
           first(p) == [pc |-> FirstPc(type, p), round |-> 0, idx |-> 1, buf |-> z,
                        out |-> z, res |-> "none", rank |-> None, parts |-> ps]
<1>2. proc = [p \in Slot |-> first(p)]
  BY DEF Init
<1>3. z \in Seq(PieceRec) /\ z \in Seq(MsgRec)
  OBVIOUS
<1>4. ps \in PartSeq
  <2>1. N - 1 \in Nat /\ Leaf = 1 .. N - 1
    BY Slots DEF Leaf
  <2>2. ps \in Seq(Leaf) /\ Len(ps) = N - 1
    BY <2>1
  <2> HIDE DEF ps
  <2> QED BY <2>1, <2>2 DEF PartSeq
<1>5. NewHandle \in HdRec /\ ~NewHandle.wr /\ ~NewHandle.rd /\ NewHandle.open /\ ~NewHandle.freed
  BY <1>3 DEF NewHandle, HdRec
<1>6. \A e \in End : hd[e] = NewHandle
  BY <1>1
<1>7. hd \in [End -> HdRec]
  BY <1>1, <1>5
<1> HIDE DEF z, ps
<1>8. ASSUME NEW p \in Slot
      PROVE  /\ first(p) \in ProcRec /\ first(p).pc = FirstPc(type, p) /\ first(p).idx = 1
             /\ first(p).parts = ps
  <2>1. FirstPc(type, p) \in Pc
    BY DEF FirstPc, Pc
  <2>2. 0 \in 0 .. Rounds + 1 /\ 1 \in 1 .. N /\ "none" \in Result /\ None \in {None} \cup Nat
    BY Slots, TeamAssumption DEF Result
  <2>3. z \in [Slot -> PieceRec] \cup Seq(PieceRec)
    BY <1>3
  <2> QED BY <1>3, <1>4, <2>1, <2>2, <2>3 DEF ProcRec
<1>9. ASSUME NEW p \in Slot
      PROVE  /\ proc[p] = first(p) /\ proc[p].pc = FirstPc(type, p) /\ proc[p].idx = 1
             /\ proc[p].pc \in {"hold", "ready"} /\ (proc[p].pc = "hold" <=> FanSide(type, p))
             /\ proc[p].parts = ps
  <2>1. proc[p] = first(p)
    BY <1>2
  <2> HIDE DEF first
  <2>2. proc[p].pc = FirstPc(type, p) /\ proc[p].idx = 1 /\ proc[p].parts = ps
    BY <1>8, <2>1
  <2> QED BY <2>1, <2>2 DEF FirstPc, FanSide
<1>10. proc \in [Slot -> ProcRec]
  <2> HIDE DEF first
  <2> QED BY <1>2, <1>8
<1>11. ASSUME NEW p \in Slot PROVE ProcTy(p) /\ GotTy(p)
  <2>1. proc[p].pc \in {"hold", "ready"} /\ (proc[p].pc = "hold" <=> FanSide(type, p))
    BY <1>9
  <2>2. ProcTy(p)
    BY <2>1 DEF ProcTy, PcTy
  <2> QED BY <2>1, <2>2 DEF GotTy
<1>12. ASSUME NEW e \in End PROVE HandleTy(e)
  <2>1. Owner(e) \in Slot
    BY PeerOf
  <2>2. proc[Owner(e)].pc # "dead"
    BY <1>9, <2>1
  <2> QED BY <1>5, <1>6, <2>2 DEF HandleTy
<1>13. /\ proc[Root].pc \in {"hold", "ready"} /\ proc[Root].idx = 1 /\ proc[Root].parts = ps
  BY <1>9, Slots
<1>14. BufTy
  BY <1>13 DEF BufTy
<1>15. FanTy
  <2>1. ps \in Seq(Leaf)
    BY <1>4 DEF PartSeq
  <2>2. ps # <<>> => 1 \in DOMAIN ps
    BY <2>1
  <2> QED BY <1>13, <2>2 DEF FanTy
<1>16. ctx \in [Slot -> {"app", "managed", "queued"}] /\ touched \in BOOLEAN
  BY <1>1
<1> QED BY <1>1, <1>7, <1>10, <1>11, <1>12, <1>14, <1>15, <1>16 DEF TInv

\* The types of Collectives: in particular, the root of a fan-in that probes or
\* receives is at a place of its participants, and no call is counted past the
\* one that finds the end of the stream.
THEOREM CollectivesTypeCorrect == Spec => []TypeOK
<1>1. TInv => TypeOK
  <2> SUFFICES ASSUME TInv PROVE TypeOK
    OBVIOUS
  <2>1. ASSUME NEW p \in Slot
        PROVE  /\ proc[p].pc \in Pc /\ proc[p].res \in Result
               /\ proc[p].round \in 0 .. Rounds + 1 /\ proc[p].idx \in 1 .. N
    BY ProcFields DEF TInv
  <2>2. ASSUME NEW e \in End
        PROVE  /\ hd[e].probed \in {None} \cup Nat
               /\ \A b \in {"wr", "rd", "open", "freed"} : hd[e][b] \in BOOLEAN
    <3>1. hd[e] \in HdRec
      BY DEF TInv
    <3> QED BY <3>1 DEF HdRec
  <2>3. /\ type \in Types /\ pos \in RootPositions /\ datacount \in DataCounts
        /\ ctx \in [Slot -> {"app", "managed", "queued"}] /\ touched \in BOOLEAN /\ FanTy
    BY DEF TInv
  <2> QED BY <2>1, <2>2, <2>3 DEF TypeOK, FanTy
<1>2. Init => TInv
  BY TypeInit
<1>3. TInv /\ [Next]_vars => TInv'
  BY TypeNext
<1> QED BY <1>1, <1>2, <1>3, PTL DEF Spec

=============================================================================
