----------------------------- MODULE Tlsf_proofs ----------------------------
(***************************************************************************)
(* For areas of every size and all requests: the heap stays whole.         *)
(***************************************************************************)
EXTENDS Tlsf, SequenceTheorems, WellFoundedInduction, TLAPS

-----------------------------------------------------------------------------
(* Numbers *)

\* Every non-empty set of natural numbers has a least element.
LEMMA LeastNat ==
    ASSUME NEW S \in SUBSET Nat, S # {}
    PROVE  (\E m \in S : \A k \in S : m <= k) /\ Min(S) \in S /\ \A k \in S : Min(S) <= k
  <1> DEFINE less == {p \in Nat \X Nat : p[1] < p[2]}
  <1>1. IsWellFoundedOn(less, Nat)
    BY NatLessThanWellFounded DEF OpToRel
  <1>2. PICK m \in S : \A k \in S : ~ (<<k, m>> \in less)
    <2> HIDE DEF less
    <2> QED  BY <1>1, WFMin
  <1>3. ASSUME NEW k \in S PROVE m <= k
    <2>1. m \in Nat /\ k \in Nat /\ ~ (k < m)
      BY <1>2
    <2> QED  BY <2>1
  <1> QED  BY <1>3 DEF Min

\* What a word of 32 bits can be shifted by.
Two(k) == 2 ^ k

\* The provers compute powers of numbers only.
LEMMA Doubling == \A k \in 0 .. 30 : Two(k + 1) = 2 * Two(k)
  <1> SUFFICES ASSUME NEW k \in 0 .. 30 PROVE 2 ^ (k + 1) = 2 * 2 ^ k
    BY DEF Two
  <1>1. CASE k = 0  BY <1>1
  <1>2. CASE k = 1  BY <1>2
  <1>3. CASE k = 2  BY <1>3
  <1>4. CASE k = 3  BY <1>4
  <1>5. CASE k = 4  BY <1>5
  <1>6. CASE k = 5  BY <1>6
  <1>7. CASE k = 6  BY <1>7
  <1>8. CASE k = 7  BY <1>8
  <1>9. CASE k = 8  BY <1>9
  <1>10. CASE k = 9  BY <1>10
  <1>11. CASE k = 10  BY <1>11
  <1>12. CASE k = 11  BY <1>12
  <1>13. CASE k = 12  BY <1>13
  <1>14. CASE k = 13  BY <1>14
  <1>15. CASE k = 14  BY <1>15
  <1>16. CASE k = 15  BY <1>16
  <1>17. CASE k = 16  BY <1>17
  <1>18. CASE k = 17  BY <1>18
  <1>19. CASE k = 18  BY <1>19
  <1>20. CASE k = 19  BY <1>20
  <1>21. CASE k = 20  BY <1>21
  <1>22. CASE k = 21  BY <1>22
  <1>23. CASE k = 22  BY <1>23
  <1>24. CASE k = 23  BY <1>24
  <1>25. CASE k = 24  BY <1>25
  <1>26. CASE k = 25  BY <1>26
  <1>27. CASE k = 26  BY <1>27
  <1>28. CASE k = 27  BY <1>28
  <1>29. CASE k = 28  BY <1>29
  <1>30. CASE k = 29  BY <1>30
  <1>31. CASE k = 30  BY <1>31
  <1> QED
    BY <1>1, <1>2, <1>3, <1>4, <1>5, <1>6, <1>7, <1>8, <1>9, <1>10, <1>11, <1>12,
       <1>13, <1>14, <1>15, <1>16, <1>17, <1>18, <1>19, <1>20, <1>21, <1>22, <1>23,
       <1>24, <1>25, <1>26, <1>27, <1>28, <1>29, <1>30, <1>31

\* A power of two is above its exponent.
LEMMA Powers ==
    /\ Two(0) = 1 /\ 4 * Two(29) = Two(31)
    /\ \A k \in 0 .. 31 : Two(k) \in Nat /\ k < Two(k)
  <1>1. Two(0) = 1 /\ 4 * Two(29) = Two(31)
    BY DEF Two
  <1> DEFINE Bad == {k \in 0 .. 31 : ~ (Two(k) \in Nat /\ k < Two(k))}
  <1>2. ASSUME Bad # {} PROVE FALSE
    <2>1. PICK m \in Bad : \A k \in Bad : m <= k
      <3>1. Bad \in SUBSET Nat
        OBVIOUS
      <3> HIDE DEF Bad
      <3> QED  BY <1>2, <3>1, LeastNat
    <2>2. m # 0 /\ m - 1 \in 0 .. 30
      BY <1>1, <2>1
    <2>3. Two(m - 1) \in Nat /\ m - 1 < Two(m - 1)
      BY <2>1, <2>2
    <2>4. Two(m) = 2 * Two(m - 1)
      <3>1. (m - 1) + 1 = m
        BY <2>1
      <3> QED  BY <2>2, <3>1, Doubling
    <2> QED  BY <2>1, <2>2, <2>3, <2>4
  <1> QED  BY <1>1, <1>2

\* Powers of two multiply.
LEMMA PowerSum ==
    ASSUME NEW a \in 0 .. 31, NEW b \in 0 .. 31, a + b <= 31
    PROVE  Two(a + b) = Two(a) * Two(b)
  <1> DEFINE Bad == {k \in 0 .. 31 - a : Two(a + k) # Two(a) * Two(k)}
  <1>1. ASSUME Bad # {} PROVE FALSE
    <2>1. PICK m \in Bad : \A k \in Bad : m <= k
      <3>1. Bad \in SUBSET Nat
        OBVIOUS
      <3> HIDE DEF Bad
      <3> QED  BY <1>1, <3>1, LeastNat
    <2>2. m # 0
      <3>1. Two(a + 0) = Two(a) * Two(0)
        BY Powers
      <3> QED  BY <2>1, <3>1
    <2>3. /\ m - 1 \in 0 .. 30 /\ a + (m - 1) \in 0 .. 30
          /\ (m - 1) + 1 = m /\ a + (m - 1) + 1 = a + m
      BY <2>1, <2>2
    <2>4. Two(a + (m - 1)) = Two(a) * Two(m - 1)
      BY <2>1, <2>3
    <2>5. Two(m) = 2 * Two(m - 1) /\ Two(a + m) = 2 * Two(a + (m - 1))
      BY <2>3, Doubling
    <2>6. Two(a) \in Nat /\ Two(m - 1) \in Nat
      BY <2>3, Powers
    <2>7. 2 * (Two(a) * Two(m - 1)) = Two(a) * (2 * Two(m - 1))
      BY <2>6
    <2> QED  BY <2>1, <2>4, <2>5, <2>7
  <1> QED  BY <1>1

\* Powers of two grow with their exponents.
LEMMA PowersGrow ==
    ASSUME NEW a \in 0 .. 31, NEW b \in 0 .. 31, a <= b
    PROVE  Two(a) <= Two(b)
  <1>1. b - a \in 0 .. 31 /\ a + (b - a) = b
    OBVIOUS
  <1>2. Two(a + (b - a)) = Two(a) * Two(b - a)
    BY <1>1, PowerSum
  <1>3. Two(a) \in Nat /\ Two(b - a) \in Nat /\ Two(b - a) >= 1
    BY <1>1, Powers
  <1> QED  BY <1>1, <1>2, <1>3

\* Division, as the provers need it.
LEMMA Division ==
    ASSUME NEW n \in Nat, NEW g \in Nat \ {0}
    PROVE  /\ n \div g \in Nat
           /\ (n \div g) * g <= n /\ n < (n \div g) * g + g
  OBVIOUS

\* Quotients by the same number keep the order.
LEMMA Quotients ==
    ASSUME NEW n \in Nat, NEW m \in Nat, NEW g \in Nat \ {0}
    PROVE  /\ n <= m => n \div g <= m \div g
           /\ (n * g) \div g = n
           /\ n * g <= m => n <= m \div g
  OBVIOUS

-----------------------------------------------------------------------------
(* Sizes and classes *)

Sizes == 1 .. Two(31) - 1
Unit  == Small \div MaxSli

\* How far apart the sizes of a class of blocks with highest bit k are.
Gap(k) == Two(k - MAX_LOG2_SLI)

\* ms_bit: the power of two at or below a size.
LEMMA MsBitFound ==
    ASSUME NEW n \in Sizes
    PROVE  MsBit(n) \in 0 .. 30 /\ Two(MsBit(n)) <= n /\ n < Two(MsBit(n) + 1)
  <1> DEFINE above == {k \in 0 .. 31 : n < Two(k)}
  <1>1. n \in Nat /\ 1 <= n /\ n < Two(31)
    BY Powers DEF Sizes
  <1>2. PICK m \in above : \A k \in above : m <= k
    <2>1. above \in SUBSET Nat /\ above # {}
      BY <1>1
    <2> HIDE DEF above
    <2> QED  BY <2>1, LeastNat
  <1>3. m # 0
    BY <1>1, <1>2, Powers
  <1>4. m - 1 \in 0 .. 30 /\ (m - 1) + 1 = m
    BY <1>2, <1>3
  <1>5. Two(m - 1) <= n
    BY <1>1, <1>2, <1>4, Powers
  <1>6. \E k \in 0 .. 30 : Two(k) <= n /\ n < Two(k + 1)
    BY <1>2, <1>4, <1>5
  <1> QED  BY <1>6 DEF MsBit, Two

\* No other bit is it.
LEMMA MsBitIs ==
    ASSUME NEW n \in Sizes, NEW k \in 0 .. 30, Two(k) <= n, n < Two(k + 1)
    PROVE  MsBit(n) = k
  <1> DEFINE j == MsBit(n)
  <1>1. j \in 0 .. 30 /\ Two(j) <= n /\ n < Two(j + 1)
    BY MsBitFound
  <1> HIDE DEF j
  <1>2. j + 1 \in 0 .. 31 /\ k + 1 \in 0 .. 31 /\ n \in Nat
    BY <1>1, Powers DEF Sizes
  <1>3. Two(j) \in Nat /\ Two(j + 1) \in Nat /\ Two(k) \in Nat /\ Two(k + 1) \in Nat
    BY <1>1, <1>2, Powers
  <1>4. CASE j < k
    <2>1. Two(j + 1) <= Two(k)
      BY <1>1, <1>2, <1>4, PowersGrow
    <2> QED  BY <1>1, <1>2, <1>3, <2>1
  <1>5. CASE k < j
    <2>1. Two(k + 1) <= Two(j)
      BY <1>1, <1>2, <1>5, PowersGrow
    <2> QED  BY <1>1, <1>2, <1>3, <2>1
  <1> QED  BY <1>1, <1>4, <1>5 DEF j

\* The bounds between small and large blocks are powers of two.
LEMMA SmallPower ==
    /\ FLI_OFFSET + 1 \in 1 .. 29 /\ MAX_LOG2_SLI \in 0 .. FLI_OFFSET + 1
    /\ Small = Two(FLI_OFFSET + 1) /\ Small \in Nat \ {0}
    /\ MaxSli = Two(MAX_LOG2_SLI) /\ MaxSli \in Nat \ {0}
  <1>1. FLI_OFFSET + 1 \in 1 .. 29 /\ MAX_LOG2_SLI \in 0 .. FLI_OFFSET + 1
    BY ClassAssumption
  <1>2. Small = Two(FLI_OFFSET + 1) /\ MaxSli = Two(MAX_LOG2_SLI)
    BY DEF Small, MaxSli, Two
  <1> QED  BY <1>1, <1>2, Powers

\* The class of a small size and of a large one.
LEMMA SmallClass ==
    ASSUME NEW n \in Sizes, n < Small
    PROVE  MAPPING_INSERT(n) = <<0, n \div Unit>> /\ Unit \in 1 .. 2 /\ n \div Unit \in Nat
  <1>1. Unit \in 1 .. 2 /\ n \in Nat
    BY ClassAssumption, Powers DEF Unit, Align, Sizes
  <1>2. n \div Unit \in Nat
    BY <1>1
  <1> QED  BY <1>1, <1>2 DEF MAPPING_INSERT, Unit

\* The highest bit of a large size, and how far apart the sizes of its classes are.
LEMMA LargeBits ==
    ASSUME NEW n \in Sizes, n >= Small
    PROVE  /\ MsBit(n) \in FLI_OFFSET + 1 .. 30
           /\ MsBit(n) - MAX_LOG2_SLI \in 0 .. 30
           /\ Gap(MsBit(n)) \in Nat \ {0}
           /\ Two(MsBit(n)) = Gap(MsBit(n)) * MaxSli
           /\ MaxSli \in Nat \ {0} /\ Small \in Nat
  <1> DEFINE k == MsBit(n)
  <1>1. k \in 0 .. 30 /\ Two(k) <= n /\ n < Two(k + 1)
    BY MsBitFound
  <1> HIDE DEF k
  <1>2. /\ FLI_OFFSET \in 0 .. 28 /\ MAX_LOG2_SLI \in 0 .. FLI_OFFSET + 1
        /\ Small = Two(FLI_OFFSET + 1) /\ MaxSli = Two(MAX_LOG2_SLI)
    BY ClassAssumption DEF Small, MaxSli, Two
  <1>3. Small \in Nat /\ MaxSli \in Nat \ {0} /\ n \in Nat /\ Two(k + 1) \in Nat
    BY <1>1, <1>2, Powers DEF Sizes
  <1>4. k >= FLI_OFFSET + 1
    <2>1. CASE k + 1 <= FLI_OFFSET + 1
      <3>1. Two(k + 1) <= Small
        BY <1>1, <1>2, <2>1, PowersGrow
      <3> QED  BY <1>1, <1>3, <3>1
    <2> QED  BY <1>1, <1>2, <2>1
  <1>5. k - MAX_LOG2_SLI \in 0 .. 30 /\ MAX_LOG2_SLI \in 0 .. 31
        /\ (k - MAX_LOG2_SLI) + MAX_LOG2_SLI = k
    BY <1>1, <1>2, <1>4
  <1>6. Two(k) = Gap(k) * MaxSli
    BY <1>1, <1>2, <1>5, PowerSum DEF Gap
  <1>7. Gap(k) \in Nat \ {0}
    BY <1>5, Powers DEF Gap
  <1> QED  BY <1>1, <1>2, <1>3, <1>4, <1>5, <1>6, <1>7 DEF k

\* MAPPING_INSERT of a large size.
LEMMA LargeClass ==
    ASSUME NEW n \in Sizes, n >= Small
    PROVE  /\ MAPPING_INSERT(n) =
                  <<MsBit(n) - FLI_OFFSET, n \div Gap(MsBit(n)) - MaxSli>>
           /\ MsBit(n) - FLI_OFFSET \in Nat \ {0}
           /\ n \div Gap(MsBit(n)) - MaxSli \in Nat
  <1> DEFINE k == MsBit(n)
  <1>1. /\ k \in FLI_OFFSET + 1 .. 30 /\ Gap(k) \in Nat \ {0} /\ FLI_OFFSET \in 0 .. 28
        /\ Two(k) = Gap(k) * MaxSli /\ MaxSli \in Nat /\ Two(k) <= n /\ n \in Nat /\ Small \in Nat
    BY LargeBits, MsBitFound, ClassAssumption, Powers DEF Sizes
  <1>2. MAPPING_INSERT(n) = <<k - FLI_OFFSET, n \div Gap(k) - MaxSli>>
    BY <1>1 DEF MAPPING_INSERT, Log, Gap, Two
  <1> HIDE DEF k
  <1>3. MaxSli * Gap(k) <= n
    BY <1>1
  <1>4. MaxSli <= n \div Gap(k) /\ n \div Gap(k) \in Nat
    BY <1>1, <1>3, Quotients, Division
  <1>5. n \div Gap(k) - MaxSli \in Nat /\ k - FLI_OFFSET \in Nat \ {0}
    BY <1>1, <1>4
  <1> QED  BY <1>2, <1>5 DEF k

\* How classes are ordered: by level, then within it.
AtLeast(c, d) == c[1] > d[1] \/ (c[1] = d[1] /\ c[2] >= d[2])

\* A larger block is in the same class or a higher one.
LEMMA LargerClass ==
    ASSUME NEW m \in Sizes, NEW n \in Sizes, m <= n
    PROVE  AtLeast(MAPPING_INSERT(n), MAPPING_INSERT(m))
  <1>1. m \in Nat /\ n \in Nat /\ Small \in Nat
    BY Powers, SmallPower DEF Sizes
  <1>2. CASE n < Small
    <2>1. m < Small
      BY <1>1, <1>2
    <2>2. m \div Unit <= n \div Unit
      BY <1>1, <1>2, SmallClass, Quotients
    <2> QED  BY <1>2, <2>1, <2>2, SmallClass DEF AtLeast
  <1>3. CASE m < Small /\ n >= Small
    BY <1>3, SmallClass, LargeClass DEF AtLeast
  <1>4. CASE m >= Small
    <2>1. n >= Small
      BY <1>1, <1>4
    <2> DEFINE j == MsBit(m)
               k == MsBit(n)
    <2>2. /\ j \in 0 .. 30 /\ Two(j) <= m /\ m < Two(j + 1)
          /\ k \in 0 .. 30 /\ Two(k) <= n /\ n < Two(k + 1)
      BY MsBitFound
    <2>3. /\ MAPPING_INSERT(m) = <<j - FLI_OFFSET, m \div Gap(j) - MaxSli>>
          /\ MAPPING_INSERT(n) = <<k - FLI_OFFSET, n \div Gap(k) - MaxSli>>
          /\ Gap(j) \in Nat \ {0} /\ MaxSli \in Nat /\ FLI_OFFSET \in Nat
      BY <1>4, <2>1, LargeClass, LargeBits, ClassAssumption
    <2> HIDE DEF j, k
    <2>4. j <= k
      <3>1. ASSUME k + 1 <= j PROVE FALSE
        <4>1. Two(k + 1) <= Two(j) /\ Two(k + 1) \in Nat /\ Two(j) \in Nat
          BY <2>2, <3>1, PowersGrow, Powers
        <4> QED  BY <1>1, <2>2, <4>1
      <3> QED  BY <2>2, <3>1
    <2>5. CASE j = k
      <3>1. m \div Gap(j) <= n \div Gap(j) /\ m \div Gap(j) \in Nat /\ n \div Gap(j) \in Nat
        BY <1>1, <2>3, Quotients, Division
      <3> QED  BY <2>2, <2>3, <2>5, <3>1 DEF AtLeast
    <2>6. CASE j < k
      BY <2>2, <2>3, <2>6 DEF AtLeast
    <2> QED  BY <2>2, <2>4, <2>5, <2>6
  <1> QED  BY <1>1, <1>2, <1>3, <1>4

\* A block in the class that is searched, or a higher one, is large enough.
Serves(q) == \A s \in Sizes : AtLeast(MAPPING_INSERT(s), MAPPING_INSERT(q)) => s >= q

\* The class of a small aligned size holds that size only.
LEMMA SmallServes ==
    ASSUME NEW r \in Sizes, r < Small, r % Align = 0
    PROVE  Serves(r)
  <1> SUFFICES ASSUME NEW s \in Sizes, AtLeast(MAPPING_INSERT(s), MAPPING_INSERT(r))
               PROVE  s >= r
    BY DEF Serves
  <1>1. s \in Nat /\ r \in Nat /\ Small \in Nat
    BY Powers, SmallPower DEF Sizes
  <1>2. CASE s >= Small
    BY <1>1, <1>2
  <1>3. CASE s < Small
    <2>1. /\ MAPPING_INSERT(s) = <<0, s \div Unit>> /\ MAPPING_INSERT(r) = <<0, r \div Unit>>
          /\ Unit \in 1 .. 2
      BY <1>3, SmallClass
    <2>2. s \div Unit >= r \div Unit
      BY <2>1 DEF AtLeast
    <2>3. r % 2 = 0
      BY DEF Align
    <2>4. CASE Unit = 1
      BY <1>1, <2>2, <2>4
    <2>5. CASE Unit = 2
      <3>1. s \div 2 >= r \div 2
        BY <2>2, <2>5
      <3> QED  BY <1>1, <2>3, <3>1
    <2> QED  BY <2>1, <2>4, <2>5
  <1> QED  BY <1>1, <1>2, <1>3

\* A block of a level lies above the power of two that begins it.
LEMMA LevelAbove ==
    ASSUME NEW s \in Sizes, NEW k \in FLI_OFFSET + 1 .. 30,
           MAPPING_INSERT(s)[1] >= k - FLI_OFFSET
    PROVE  s >= Small /\ MsBit(s) >= k /\ s >= Two(k)
  <1>1. s \in Nat /\ Small \in Nat /\ FLI_OFFSET \in 0 .. 28
    BY Powers, SmallPower, ClassAssumption DEF Sizes
  <1>2. s >= Small
    <2>1. CASE s < Small
      <3>1. MAPPING_INSERT(s)[1] = 0
        BY <2>1, SmallClass
      <3> QED  BY <1>1, <3>1
    <2> QED  BY <1>1, <2>1
  <1>3. MAPPING_INSERT(s)[1] = MsBit(s) - FLI_OFFSET
    BY <1>2, LargeClass
  <1>4. MsBit(s) \in 0 .. 30 /\ Two(MsBit(s)) <= s
    BY MsBitFound
  <1>5. MsBit(s) >= k
    BY <1>1, <1>3, <1>4
  <1>6. Two(k) <= Two(MsBit(s)) /\ Two(k) \in Nat /\ Two(MsBit(s)) \in Nat
    BY <1>1, <1>4, <1>5, PowersGrow, Powers
  <1> QED  BY <1>1, <1>2, <1>4, <1>5, <1>6

\* ROUNDUP to the next class: every block of that class is large enough.
LEMMA LargeServes ==
    ASSUME NEW r \in 1 .. Two(30) - 1, r >= Small
    PROVE  LET q == SearchSize(r)
           IN  q \in Sizes /\ r <= q /\ q < r + r \div MaxSli + 1 /\ Serves(q)
  <1> DEFINE k == MsBit(r)
             g == Gap(k)
             d == (r + g - 1) \div g
             q == d * g
  <1>1. Two(30) \in Nat /\ Two(31) = 2 * Two(30) /\ r \in Nat /\ r \in Sizes /\ r < Two(30)
    <2>1. Two(30 + 1) = 2 * Two(30) /\ Two(30) \in Nat
      BY Doubling, Powers
    <2>2. Two(31) = 2 * Two(30)
      BY <2>1
    <2> QED  BY <2>1, <2>2 DEF Sizes
  <1>2. /\ k \in FLI_OFFSET + 1 .. 30 /\ g \in Nat \ {0} /\ Two(k) = g * MaxSli
        /\ MaxSli \in Nat \ {0} /\ FLI_OFFSET \in 0 .. 28
        /\ Two(k) <= r /\ r < Two(k + 1)
    BY <1>1, LargeBits, MsBitFound, ClassAssumption
  <1>3. SearchSize(r) = q
    BY <1>1, SmallPower DEF SearchSize, Log, Gap, Two
  <1> HIDE DEF k
  <1>4. k <= 29
    <2>1. CASE k = 30
      BY <1>1, <1>2, <2>1
    <2> QED  BY <1>2, <2>1
  <1>5. k + 1 \in FLI_OFFSET + 1 .. 30 /\ Two(k + 1) = 2 * Two(k) /\ Two(k) \in Nat
        /\ Two(k + 1) <= Two(30)
    <2>1. k + 1 \in FLI_OFFSET + 1 .. 30 /\ k + 1 \in 0 .. 31 /\ k \in 0 .. 30 /\ k + 1 <= 30
      BY <1>2, <1>4
    <2>2. Two(k + 1) <= Two(30)
      BY <2>1, PowersGrow
    <2> QED  BY <2>1, <2>2, Doubling, Powers
  <1> HIDE DEF g
  <1>6. /\ d \in Nat /\ d * g <= r + g - 1 /\ r + g - 1 < d * g + g
    BY <1>1, <1>2, Division
  <1> HIDE DEF d
  <1>7. q \in Nat /\ r <= q /\ q <= r + g - 1
    BY <1>1, <1>2, <1>6
  <1>8. d <= 2 * MaxSli
    <2>1. g * (2 * MaxSli) = Two(k + 1)
      BY <1>2, <1>5
    <2>2. d * g < g * (2 * MaxSli) + g
      BY <1>1, <1>2, <1>5, <1>6, <2>1
    <2>3. ASSUME d >= 2 * MaxSli + 1 PROVE FALSE
      <3>1. d * g >= (2 * MaxSli + 1) * g
        BY <1>2, <1>6, <2>3
      <3>2. (2 * MaxSli + 1) * g = g * (2 * MaxSli) + g
        BY <1>2
      <3> QED  BY <1>2, <1>5, <1>6, <2>1, <2>2, <3>1, <3>2
    <2> QED  BY <1>2, <1>6, <2>3
  <1>9. q <= Two(k + 1) /\ (d < 2 * MaxSli => q < Two(k + 1))
    <2>1. g * (2 * MaxSli) = Two(k + 1)
      BY <1>2, <1>5
    <2> QED  BY <1>2, <1>6, <1>8, <2>1
  <1>10. q \in Sizes
    BY <1>1, <1>5, <1>7, <1>9 DEF Sizes
  <1>11. q < r + r \div MaxSli + 1
    <2>1. g <= r \div MaxSli /\ r \div MaxSli \in Nat
      BY <1>1, <1>2, Quotients, Division
    <2> QED  BY <1>1, <1>2, <1>7, <2>1
  <1>12. ASSUME NEW s \in Sizes, AtLeast(MAPPING_INSERT(s), MAPPING_INSERT(q))
         PROVE  s >= q
    <2>1. s \in Nat /\ q >= Small /\ Small \in Nat
      BY <1>1, <1>7, SmallPower, Powers DEF Sizes
    <2>2. MAPPING_INSERT(q) = <<MsBit(q) - FLI_OFFSET, q \div Gap(MsBit(q)) - MaxSli>>
      BY <1>10, <2>1, LargeClass
    <2>3. CASE q = Two(k + 1)
      <3>1. MsBit(q) = k + 1
        <4>1. (k + 1) + 1 \in 0 .. 31 /\ k + 1 \in 0 .. 30
          BY <1>2, <1>5
        <4>2. Two((k + 1) + 1) = 2 * Two(k + 1)
          BY <4>1, Doubling
        <4>3. q > 0
          BY <1>10, Powers DEF Sizes
        <4> QED  BY <1>5, <1>7, <1>10, <2>3, <4>1, <4>2, <4>3, MsBitIs
      <3>2. MAPPING_INSERT(s)[1] >= (k + 1) - FLI_OFFSET
        <4>1. MAPPING_INSERT(q)[1] = (k + 1) - FLI_OFFSET
          BY <2>2, <3>1
        <4>2. MAPPING_INSERT(s)[1] \in Nat
          BY <2>1, SmallClass, LargeClass
        <4> QED  BY <1>2, <1>12, <4>1, <4>2 DEF AtLeast
      <3>3. s >= Two(k + 1)
        BY <1>5, <3>2, LevelAbove
      <3> QED  BY <2>3, <3>3
    <2>4. CASE q < Two(k + 1)
      <3>1. MsBit(q) = k
        BY <1>1, <1>2, <1>5, <1>7, <1>10, <2>4, MsBitIs
      <3>2. q \div g = d
        BY <1>2, <1>6, Quotients
      <3>3. MAPPING_INSERT(q) = <<k - FLI_OFFSET, d - MaxSli>>
        BY <2>2, <3>1, <3>2 DEF g
      <3>4. MAPPING_INSERT(s)[1] \in Nat
        BY <2>1, SmallClass, LargeClass
      <3>5. CASE MAPPING_INSERT(s)[1] > k - FLI_OFFSET
        <4>1. MAPPING_INSERT(s)[1] >= (k + 1) - FLI_OFFSET
          BY <1>2, <3>4, <3>5
        <4>2. s >= Two(k + 1)
          BY <1>5, <4>1, LevelAbove
        <4> QED  BY <1>5, <1>7, <2>1, <2>4, <4>2
      <3>6. CASE MAPPING_INSERT(s)[1] = k - FLI_OFFSET /\ MAPPING_INSERT(s)[2] >= d - MaxSli
        <4>1. s >= Small /\ MsBit(s) >= k
          BY <1>2, <3>6, LevelAbove
        <4>2. MAPPING_INSERT(s) = <<MsBit(s) - FLI_OFFSET, s \div Gap(MsBit(s)) - MaxSli>>
          BY <4>1, LargeClass
        <4>3. MsBit(s) \in 0 .. 30
          BY MsBitFound
        <4>4. MsBit(s) = k
          BY <1>2, <3>6, <4>2, <4>3
        <4>5. s \div g \in Nat /\ (s \div g) * g \in Nat /\ (s \div g) * g <= s
          BY <1>2, <2>1, Division
        <4>6. s \div g >= d
          BY <1>2, <1>6, <3>6, <4>2, <4>4, <4>5 DEF g
        <4>7. (s \div g) * g >= d * g
          BY <1>2, <1>6, <4>5, <4>6
        <4> QED  BY <1>7, <2>1, <4>5, <4>7
      <3> QED  BY <1>12, <3>3, <3>5, <3>6 DEF AtLeast
    <2> QED  BY <1>5, <1>7, <1>9, <2>3, <2>4
  <1>13. Serves(q)
    BY <1>12 DEF Serves
  <1> QED  BY <1>3, <1>7, <1>10, <1>11, <1>13

\* What is asked for: the class that is searched serves it, and is at most one in
\* MaxSli too large.
LEMMA RequestServed ==
    ASSUME NEW n \in Requests
    PROVE  LET r == Rounded(n)
               q == SearchSize(r)
           IN  /\ r \in Nat /\ n <= r /\ MinSize <= r /\ q \in Sizes /\ r <= q
               /\ q < r + r \div MaxSli + 1 /\ Serves(q)
  <1> DEFINE r == Rounded(n)
  <1>1. /\ Two(29) \in Nat /\ 29 < Two(29) /\ Two(30) = 2 * Two(29) /\ Two(31) = 2 * Two(30)
    <2>1. Two(29 + 1) = 2 * Two(29) /\ Two(30 + 1) = 2 * Two(30) /\ Two(29) \in Nat /\ 29 < Two(29)
      BY Doubling, Powers
    <2>2. 29 + 1 = 30 /\ 30 + 1 = 31
      OBVIOUS
    <2> QED  BY <2>1, <2>2
  <1>2. n \in Nat /\ n <= Two(29)
    <2>1. n \in 0 .. Two(29)
      BY RequestsAssumption DEF Two
    <2> QED  BY <1>1, <2>1
  <1>3. /\ r \in Nat /\ n <= r /\ MinSize <= r /\ r <= n + 2 /\ r % Align = 0 /\ 2 <= r
    BY <1>2 DEF Rounded, MinSize, Align
  <1> HIDE DEF r
  <1>4. r \in 1 .. Two(30) - 1 /\ r \in Sizes
    BY <1>1, <1>2, <1>3 DEF Sizes
  <1>5. CASE r < Small
    <2>1. SearchSize(r) = r
      BY <1>5 DEF SearchSize
    <2>2. Serves(r)
      BY <1>3, <1>4, <1>5, SmallServes
    <2>3. r \div MaxSli \in Nat
      BY <1>3, SmallPower, Division
    <2> QED  BY <1>3, <1>4, <2>1, <2>2, <2>3 DEF r
  <1>6. CASE r >= Small
    BY <1>3, <1>4, <1>6, LargeServes DEF r
  <1> QED  BY <1>3, <1>5, <1>6, SmallPower

-----------------------------------------------------------------------------
(* Lists *)

\* A block is taken out of its list.
LEMMA TakenOut ==
    ASSUME NEW S, NEW s \in Seq(S), IsInjective(s), NEW b \in ToSet(s)
    PROVE  /\ RemoveFirst(s, b) \in Seq(S)
           /\ IsInjective(RemoveFirst(s, b))
           /\ ToSet(RemoveFirst(s, b)) = ToSet(s) \ {b}
  <1> DEFINE at == {i \in 1 .. Len(s) : s[i] = b}
             p  == Min(at)
  <1>1. Len(s) \in Nat /\ DOMAIN s = 1 .. Len(s) /\ \A i \in 1 .. Len(s) : s[i] \in S
    BY LenProperties, ElementOfSeq
  <1>2. at # {} /\ at \in SUBSET Nat
    BY <1>1 DEF ToSet
  <1>3. RemoveFirst(s, b) = RemoveAt(s, p)
    BY <1>2 DEF RemoveFirst, SelectInSeq
  <1> HIDE DEF at
  <1>4. p \in at
    BY <1>2, LeastNat
  <1> HIDE DEF p
  <1>5. p \in 1 .. Len(s) /\ s[p] = b
    BY <1>4 DEF at
  <1> DEFINE front == SubSeq(s, 1, p - 1)
             back  == SubSeq(s, p + 1, Len(s))
             rest  == RemoveFirst(s, b)
             from(j) == IF j < p THEN j ELSE j + 1
  <1>6. /\ front \in Seq(S) /\ Len(front) = p - 1 /\ \A j \in 1 .. p - 1 : front[j] = s[j]
    <2>1. \A j \in 1 .. p - 1 : s[j] \in S
      BY <1>1, <1>5
    <2> QED  BY <1>1, <1>5, <2>1, SubSeqProperties
  <1>7. /\ back \in Seq(S) /\ Len(back) = Len(s) - p
        /\ \A j \in 1 .. Len(s) - p : back[j] = s[p + j]
    <2>1. /\ p + 1 \in Int /\ Len(s) \in Int /\ \A j \in p + 1 .. Len(s) : s[j] \in S
      BY <1>1, <1>5
    <2>2. /\ back \in Seq(S) /\ Len(back) = IF p + 1 <= Len(s) THEN Len(s) - (p + 1) + 1 ELSE 0
          /\ \A j \in 1 .. Len(s) - (p + 1) + 1 : back[j] = s[p + 1 + j - 1]
      BY <2>1, SubSeqProperties
    <2> HIDE DEF back
    <2>3. Len(s) - (p + 1) + 1 = Len(s) - p /\ Len(back) = Len(s) - p
      <3>1. /\ Len(s) - (p + 1) + 1 = Len(s) - p
            /\ p + 1 <= Len(s) \/ (~ (p + 1 <= Len(s)) /\ Len(s) - p = 0)
        <4>1. p \in Int /\ Len(s) \in Int /\ p <= Len(s)
          BY <1>1, <1>5
        <4> QED  BY <4>1
      <3>2. Len(back) = IF p + 1 <= Len(s) THEN Len(s) - (p + 1) + 1 ELSE 0
        BY <2>2
      <3> QED  BY <3>1, <3>2
    <2>4. ASSUME NEW j \in 1 .. Len(s) - p PROVE back[j] = s[p + j]
      <3>1. p + 1 + j - 1 = p + j
        BY <1>1, <1>5
      <3> QED  BY <2>2, <2>3, <3>1
    <2> QED  BY <2>2, <2>3, <2>4
  <1>8. rest = front \o back
    BY <1>3 DEF RemoveAt
  <1> HIDE DEF front, back, rest
  <1>9. rest \in Seq(S) /\ Len(rest) = Len(s) - 1 /\ DOMAIN rest = 1 .. Len(s) - 1
    <2>1. rest \in Seq(S) /\ Len(rest) = Len(front) + Len(back)
      BY <1>6, <1>7, <1>8, ConcatProperties
    <2>2. Len(rest) = Len(s) - 1
      BY <1>1, <1>5, <1>6, <1>7, <2>1
    <2> QED  BY <2>1, <2>2, LenProperties
  <1>10. ASSUME NEW j \in 1 .. Len(s) - 1
         PROVE  rest[j] = s[from(j)] /\ from(j) \in 1 .. Len(s) /\ from(j) # p
    <2>1. CASE j < p
      <3>1. rest[j] = front[j]
        BY <1>1, <1>5, <1>6, <1>7, <1>8, <2>1, ConcatProperties
      <3> QED  BY <1>1, <1>5, <1>6, <2>1, <3>1
    <2>2. CASE j >= p
      <3>1. rest[j] = back[j - Len(front)]
        BY <1>1, <1>5, <1>6, <1>7, <1>8, <2>2, ConcatProperties
      <3>2. j - Len(front) \in 1 .. Len(s) - p /\ p + (j - Len(front)) = j + 1
        BY <1>1, <1>5, <1>6, <2>2
      <3> QED  BY <1>1, <1>5, <1>7, <2>2, <3>1, <3>2
    <2> QED  BY <1>1, <1>5, <2>1, <2>2
  <1>11. IsInjective(rest)
    <2> SUFFICES ASSUME NEW i \in 1 .. Len(s) - 1, NEW j \in 1 .. Len(s) - 1, rest[i] = rest[j]
                 PROVE  i = j
      BY <1>9 DEF IsInjective
    <2>1. from(i) = from(j)
      BY <1>1, <1>10 DEF IsInjective
    <2> QED  BY <1>5, <2>1
  <1>12. ToSet(rest) = ToSet(s) \ {b}
    <2>1. ASSUME NEW x \in ToSet(rest) PROVE x \in ToSet(s) \ {b}
      <3>1. PICK j \in 1 .. Len(s) - 1 : x = rest[j]
        BY <1>9, <2>1 DEF ToSet
      <3>2. x = s[from(j)] /\ from(j) \in 1 .. Len(s) /\ from(j) # p
        BY <1>10, <3>1
      <3> HIDE DEF from
      <3> QED  BY <1>1, <1>5, <3>2 DEF ToSet, IsInjective
    <2>2. ASSUME NEW x \in ToSet(s) \ {b} PROVE x \in ToSet(rest)
      <3>1. PICK i \in 1 .. Len(s) : x = s[i] /\ i # p
        BY <1>1, <1>5, <2>2 DEF ToSet
      <3>2. PICK j \in 1 .. Len(s) - 1 : from(j) = i
        <4>1. CASE i < p
          BY <1>1, <1>5, <3>1, <4>1
        <4>2. CASE i > p
          <5>1. i - 1 \in 1 .. Len(s) - 1 /\ from(i - 1) = i
            BY <1>1, <1>5, <4>2
          <5> QED  BY <5>1
        <4> QED  BY <1>5, <3>1, <4>1, <4>2
      <3>3. rest[j] = x
        BY <1>10, <3>1, <3>2
      <3> QED  BY <1>9, <3>3 DEF ToSet
    <2> QED  BY <2>1, <2>2
  <1> QED  BY <1>9, <1>11, <1>12 DEF rest

\* A block is put at the head of its list.
LEMMA PutIn ==
    ASSUME NEW S, NEW s \in Seq(S), IsInjective(s), NEW b \in S, b \notin ToSet(s)
    PROVE  LET t == <<b>> \o s
           IN  t \in Seq(S) /\ IsInjective(t) /\ ToSet(t) = ToSet(s) \union {b} /\ t # <<>>
  <1> DEFINE t == <<b>> \o s
  <1>1. Len(s) \in Nat /\ DOMAIN s = 1 .. Len(s)
    BY LenProperties
  <1>2. /\ t \in Seq(S) /\ Len(t) = Len(s) + 1 /\ DOMAIN t = 1 .. Len(s) + 1
        /\ t[1] = b /\ \A i \in 2 .. Len(s) + 1 : t[i] = s[i - 1]
    <2>1. <<b>> \in Seq(S) /\ Len(<<b>>) = 1 /\ <<b>>[1] = b
      OBVIOUS
    <2>2. t \in Seq(S) /\ Len(t) = 1 + Len(s)
          /\ \A i \in 1 .. 1 + Len(s) : t[i] = IF i <= 1 THEN <<b>>[i] ELSE s[i - 1]
      BY <2>1, ConcatProperties
    <2> HIDE DEF t
    <2>3. DOMAIN t = 1 .. Len(s) + 1
      BY <1>1, <2>2, LenProperties
    <2> QED  BY <1>1, <2>1, <2>2, <2>3
  <1> HIDE DEF t
  <1>3. IsInjective(t)
    <2> SUFFICES ASSUME NEW i \in 1 .. Len(s) + 1, NEW j \in 1 .. Len(s) + 1, t[i] = t[j]
                 PROVE  i = j
      BY <1>2 DEF IsInjective
    <2>1. ASSUME NEW k \in 2 .. Len(s) + 1 PROVE t[k] = s[k - 1] /\ k - 1 \in DOMAIN s /\ t[k] # b
      BY <1>1, <1>2 DEF ToSet
    <2>2. CASE i = 1 \/ j = 1
      BY <1>1, <1>2, <2>1, <2>2
    <2>3. CASE i # 1 /\ j # 1
      <3>1. s[i - 1] = s[j - 1] /\ i - 1 \in DOMAIN s /\ j - 1 \in DOMAIN s
        BY <1>1, <2>1, <2>3
      <3>2. i - 1 = j - 1
        BY <3>1 DEF IsInjective
      <3> QED  BY <1>1, <3>2
    <2> QED  BY <2>2, <2>3
  <1>4. ToSet(t) = ToSet(s) \union {b}
    <2>1. ASSUME NEW x \in ToSet(t) PROVE x \in ToSet(s) \union {b}
      <3>1. PICK i \in 1 .. Len(s) + 1 : x = t[i]
        BY <1>2, <2>1 DEF ToSet
      <3>2. CASE i = 1
        BY <1>2, <3>1, <3>2
      <3>3. CASE i # 1
        <4>1. x = s[i - 1] /\ i - 1 \in DOMAIN s
          BY <1>1, <1>2, <3>1, <3>3
        <4> QED  BY <4>1 DEF ToSet
      <3> QED  BY <3>2, <3>3
    <2>2. ASSUME NEW x \in ToSet(s) PROVE x \in ToSet(t)
      <3>1. PICK i \in 1 .. Len(s) : x = s[i]
        BY <1>1, <2>2 DEF ToSet
      <3>2. i + 1 \in 2 .. Len(s) + 1 /\ (i + 1) - 1 = i
        BY <1>1, <3>1
      <3>3. t[i + 1] = x /\ i + 1 \in DOMAIN t
        BY <1>1, <1>2, <3>1, <3>2
      <3> QED  BY <3>3 DEF ToSet
    <2>3. b \in ToSet(t)
      BY <1>1, <1>2 DEF ToSet
    <2> QED  BY <2>1, <2>2, <2>3
  <1>5. t # <<>>
    BY <1>1, <1>2
  <1> QED  BY <1>2, <1>3, <1>4, <1>5 DEF t

\* A list that is not empty has a first block.
LEMMA EmptyList ==
    ASSUME NEW S, NEW s \in Seq(S)
    PROVE  (s = <<>> <=> ToSet(s) = {}) /\ (s # <<>> => Head(s) \in ToSet(s))
  <1>1. Len(s) \in Nat /\ DOMAIN s = 1 .. Len(s)
    BY LenProperties
  <1>2. CASE s = <<>>
    BY <1>2 DEF ToSet
  <1>3. CASE s # <<>>
    <2>1. Len(s) >= 1 /\ Head(s) = s[1]
      BY <1>1, <1>3, EmptySeq, HeadTailProperties
    <2>2. 1 \in DOMAIN s
      BY <1>1, <2>1
    <2> QED  BY <1>3, <2>1, <2>2 DEF ToSet
  <1> QED  BY <1>2, <1>3

-----------------------------------------------------------------------------
(* The heap's parts *)

\* Its fields and their types.
Shape(h) ==
    /\ h = [blocks |-> h.blocks, matrix |-> h.matrix, sl |-> h.sl, fl |-> h.fl]
    /\ h.matrix \in [Classes -> Seq(Words)]
    /\ h.blocks \in [DOMAIN h.blocks -> BlockRecord]
    /\ {0, End} \subseteq DOMAIN h.blocks /\ DOMAIN h.blocks \subseteq Words

\* The class of block b.
ClassOf(h, b) == MAPPING_INSERT(h.blocks[b].size)

\* The lists hold the blocks of F, and the bitmaps agree.
Lists(h, F) ==
    /\ \A class \in Classes :
          /\ IsInjective(h.matrix[class])
          /\ ToSet(h.matrix[class]) = {b \in F : ClassOf(h, b) = class}
    /\ h.sl = {class \in Classes : h.matrix[class] # <<>>}
    /\ h.fl = {class[1] : class \in h.sl}

\* Blocks that a list can hold.
Fit(h, F) == F \subseteq DOMAIN h.blocks /\ \A b \in F : h.blocks[b].size >= MinSize

\* Blocks have sizes that can be classed.
LEMMA AreaSizes ==
    /\ Area \in Nat /\ \A n \in 1 .. 2 * Area : n \in Sizes
    /\ \A n \in MinSize .. Area : n \in Sizes /\ n \in 1 .. 2 * Area /\ n \in Nat
  <1>1. /\ Two(29) \in Nat /\ 29 < Two(29) /\ Two(30) = 2 * Two(29) /\ Two(31) = 2 * Two(30)
    <2>1. Two(29 + 1) = 2 * Two(29) /\ Two(30 + 1) = 2 * Two(30) /\ Two(29) \in Nat /\ 29 < Two(29)
      BY Doubling, Powers
    <2>2. 29 + 1 = 30 /\ 30 + 1 = 31
      OBVIOUS
    <2> QED  BY <2>1, <2>2
  <1>2. Area \in MinSize .. Two(29)
    BY AreaAssumption DEF Two
  <1>3. Area \in Nat /\ Area <= Two(29)
    BY <1>1, <1>2 DEF MinSize
  <1>4. 2 * Area <= Two(31) - 1
    BY <1>1, <1>3
  <1> QED  BY <1>1, <1>3, <1>4 DEF Sizes, MinSize

\* A class is a pair of numbers.
LEMMA ClassesNat == \A n \in Sizes : MAPPING_INSERT(n) \in Nat \X Nat
  <1> SUFFICES ASSUME NEW n \in Sizes PROVE MAPPING_INSERT(n) \in Nat \X Nat
    OBVIOUS
  <1>1. n \in Nat /\ Small \in Nat
    BY SmallPower, Powers DEF Sizes
  <1>2. CASE n < Small
    BY <1>2, SmallClass
  <1>3. CASE n >= Small
    BY <1>3, LargeClass
  <1> QED  BY <1>1, <1>2, <1>3

\* A block that a list can hold has a class.
LEMMA FitClass ==
    ASSUME NEW h, Shape(h), NEW F, Fit(h, F), NEW b \in F
    PROVE  /\ b \in DOMAIN h.blocks /\ b \in Words /\ h.blocks[b].size \in Sizes
           /\ ClassOf(h, b) \in Classes /\ ClassOf(h, b) \in Nat \X Nat
  <1>1. b \in DOMAIN h.blocks /\ h.blocks[b].size \in 0 .. Area /\ h.blocks[b].size >= MinSize
    BY DEF Shape, Fit, BlockRecord
  <1>2. h.blocks[b].size \in MinSize .. Area
    BY <1>1, AreaSizes DEF MinSize
  <1>3. h.blocks[b].size \in Sizes /\ h.blocks[b].size \in 1 .. 2 * Area
    BY <1>2, AreaSizes
  <1> QED  BY <1>1, <1>3, ClassesNat DEF ClassOf, Classes, Shape

\* EXTRACT_BLOCK: the block leaves its list, and the bitmaps follow.
LEMMA ExtractLists ==
    ASSUME NEW h, Shape(h), NEW F, Fit(h, F), Lists(h, F), NEW b \in F
    PROVE  LET out == Extract(h, b)
           IN  Shape(out) /\ out.blocks = h.blocks /\ Lists(out, F \ {b})
  <1> DEFINE out   == Extract(h, b)
             class == ClassOf(h, b)
             rest  == RemoveFirst(h.matrix[class], b)
             sl    == IF rest = <<>> THEN h.sl \ {class} ELSE h.sl
             fl    == IF \E c \in sl : c[1] = class[1] THEN h.fl ELSE h.fl \ {class[1]}
  <1>1. class \in Classes /\ b \in Words
    BY FitClass
  <1>2. /\ out.blocks = h.blocks /\ out.sl = sl /\ out.fl = fl
        /\ out.matrix = [h.matrix EXCEPT ![class] = rest]
        /\ out = [blocks |-> h.blocks, matrix |-> out.matrix, sl |-> out.sl, fl |-> out.fl]
    <2>1. h = [blocks |-> h.blocks, matrix |-> h.matrix, sl |-> h.sl, fl |-> h.fl]
      BY DEF Shape
    <2>2. out = [h EXCEPT !.matrix[class] = rest, !.sl = sl, !.fl = fl]
      BY DEF Extract, ClassOf
    <2> HIDE DEF out, rest, sl, fl, class
    <2> QED  BY <2>1, <2>2
  <1>3. /\ h.matrix[class] \in Seq(Words) /\ IsInjective(h.matrix[class])
        /\ ToSet(h.matrix[class]) = {c \in F : ClassOf(h, c) = class}
        /\ b \in ToSet(h.matrix[class])
    BY <1>1 DEF Shape, Lists
  <1> HIDE DEF class, out
  <1>4. rest \in Seq(Words) /\ IsInjective(rest) /\ ToSet(rest) = ToSet(h.matrix[class]) \ {b}
    BY <1>3, TakenOut
  <1> HIDE DEF rest
  <1>5. Shape(out)
    BY <1>1, <1>2, <1>4 DEF Shape
  <1>6. ASSUME NEW c \in Classes
        PROVE  /\ IsInjective(out.matrix[c])
               /\ ToSet(out.matrix[c]) = {d \in F \ {b} : ClassOf(out, d) = c}
    <2>1. \A d : ClassOf(out, d) = ClassOf(h, d)
      BY <1>2 DEF ClassOf
    <2>2. CASE c = class
      <3>1. out.matrix[c] = rest
        BY <1>1, <1>2, <2>2 DEF Shape
      <3> QED  BY <1>3, <1>4, <2>1, <2>2, <3>1
    <2>3. CASE c # class
      <3>1. out.matrix[c] = h.matrix[c]
        BY <1>1, <1>2, <2>3 DEF Shape
      <3>2. IsInjective(h.matrix[c]) /\ ToSet(h.matrix[c]) = {d \in F : ClassOf(h, d) = c}
        BY DEF Lists
      <3> QED  BY <2>1, <2>3, <3>1, <3>2 DEF class
    <2> QED  BY <2>2, <2>3
  <1>7. out.sl = {c \in Classes : out.matrix[c] # <<>>}
    <2>1. h.sl = {c \in Classes : h.matrix[c] # <<>>}
      BY DEF Lists
    <2>2. \A c \in Classes : out.matrix[c] = IF c = class THEN rest ELSE h.matrix[c]
      BY <1>1, <1>2 DEF Shape
    <2>3. h.matrix[class] # <<>>
      BY <1>3, EmptyList
    <2> QED  BY <1>1, <1>2, <2>1, <2>2, <2>3
  <1>8. out.fl = {c[1] : c \in out.sl}
    <2>1. h.fl = {c[1] : c \in h.sl}
      BY DEF Lists
    <2>2. out.sl = sl /\ out.fl = fl /\ sl \subseteq h.sl /\ \A c \in h.sl : c = class \/ c \in sl
      BY <1>2
    <2> HIDE DEF sl
    <2> QED  BY <2>1, <2>2
  <1> QED  BY <1>2, <1>5, <1>6, <1>7, <1>8 DEF Lists, out

\* INSERT_BLOCK: the block is in its list, and the bitmaps follow.
LEMMA InsertLists ==
    ASSUME NEW h, Shape(h), NEW F, NEW b, Fit(h, F \union {b}), Lists(h, F), b \notin F
    PROVE  LET in == Insert(h, b)
           IN  Shape(in) /\ in.blocks = h.blocks /\ Lists(in, F \union {b})
  <1> DEFINE in    == Insert(h, b)
             class == ClassOf(h, b)
             list  == <<b>> \o h.matrix[class]
  <1>1. class \in Classes /\ b \in Words
    BY FitClass
  <1>2. /\ in.blocks = h.blocks /\ in.sl = h.sl \union {class} /\ in.fl = h.fl \union {class[1]}
        /\ in.matrix = [h.matrix EXCEPT ![class] = list]
        /\ in = [blocks |-> h.blocks, matrix |-> in.matrix, sl |-> in.sl, fl |-> in.fl]
    <2>1. h = [blocks |-> h.blocks, matrix |-> h.matrix, sl |-> h.sl, fl |-> h.fl]
      BY DEF Shape
    <2>2. in = [h EXCEPT !.matrix[class] = list, !.sl = h.sl \union {class},
                         !.fl = h.fl \union {class[1]}]
      BY DEF Insert, ClassOf
    <2> HIDE DEF in, list, class
    <2> QED  BY <2>1, <2>2
  <1>3. /\ h.matrix[class] \in Seq(Words) /\ IsInjective(h.matrix[class])
        /\ ToSet(h.matrix[class]) = {c \in F : ClassOf(h, c) = class}
    BY <1>1 DEF Shape, Lists
  <1> HIDE DEF class, in
  <1>4. /\ list \in Seq(Words) /\ IsInjective(list) /\ list # <<>>
        /\ ToSet(list) = ToSet(h.matrix[class]) \union {b}
    BY <1>1, <1>3, PutIn
  <1> HIDE DEF list
  <1>5. Shape(in)
    BY <1>1, <1>2, <1>4 DEF Shape
  <1>6. ASSUME NEW c \in Classes
        PROVE  /\ IsInjective(in.matrix[c])
               /\ ToSet(in.matrix[c]) = {d \in F \union {b} : ClassOf(in, d) = c}
    <2>1. \A d : ClassOf(in, d) = ClassOf(h, d)
      BY <1>2 DEF ClassOf
    <2>2. CASE c = class
      <3>1. in.matrix[c] = list
        BY <1>1, <1>2, <2>2 DEF Shape
      <3> QED  BY <1>3, <1>4, <2>1, <2>2, <3>1 DEF class
    <2>3. CASE c # class
      <3>1. in.matrix[c] = h.matrix[c]
        BY <1>1, <1>2, <2>3 DEF Shape
      <3>2. IsInjective(h.matrix[c]) /\ ToSet(h.matrix[c]) = {d \in F : ClassOf(h, d) = c}
        BY DEF Lists
      <3> QED  BY <2>1, <2>3, <3>1, <3>2 DEF class
    <2> QED  BY <2>2, <2>3
  <1>7. in.sl = {c \in Classes : in.matrix[c] # <<>>}
    <2>1. h.sl = {c \in Classes : h.matrix[c] # <<>>}
      BY DEF Lists
    <2>2. \A c \in Classes : in.matrix[c] = IF c = class THEN list ELSE h.matrix[c]
      BY <1>1, <1>2 DEF Shape
    <2> QED  BY <1>1, <1>2, <1>4, <2>1, <2>2
  <1>8. in.fl = {c[1] : c \in in.sl}
    <2>1. h.fl = {c[1] : c \in h.sl}
      BY DEF Lists
    <2> QED  BY <1>2, <2>1
  <1> QED  BY <1>2, <1>5, <1>6, <1>7, <1>8 DEF Lists, in

\* A search takes a block whose class is at least the one it asks for, and fails
\* only if there is none.
LEMMA SuitableFound ==
    ASSUME NEW h, Shape(h), NEW F, Fit(h, F), Lists(h, F), NEW q \in Sizes
    PROVE  /\ \A b \in Suitable(h, MAPPING_INSERT(q)) :
                  b \in F /\ AtLeast(ClassOf(h, b), MAPPING_INSERT(q))
           /\ Suitable(h, MAPPING_INSERT(q)) = {} =>
                  \A b \in F : ~ AtLeast(ClassOf(h, b), MAPPING_INSERT(q))
  <1> DEFINE class == MAPPING_INSERT(q)
             here  == {c \in h.sl : c[1] = class[1] /\ c[2] >= class[2]}
             above == {level \in h.fl : level > class[1]}
             first(cs) == CHOOSE c \in cs : \A d \in cs : c[2] <= d[2]
             there == {c \in h.sl : c[1] = Min(above)}
  <1>1. class \in Nat \X Nat
    BY ClassesNat
  <1>2. \A c \in h.sl : c \in Classes /\ c \in Nat \X Nat /\ h.matrix[c] # <<>>
    BY AreaSizes, ClassesNat DEF Lists, Classes
  <1>3. h.fl = {c[1] : c \in h.sl} /\ h.sl = {c \in Classes : h.matrix[c] # <<>>}
    BY DEF Lists
  <1>4. ASSUME NEW c \in h.sl
        PROVE  Head(h.matrix[c]) \in F /\ ClassOf(h, Head(h.matrix[c])) = c
    BY <1>2, EmptyList DEF Shape, Lists
  <1>5. ASSUME NEW b \in F PROVE ClassOf(h, b) \in h.sl /\ ClassOf(h, b) \in Nat \X Nat
    <2>1. ClassOf(h, b) \in Classes /\ ClassOf(h, b) \in Nat \X Nat
      BY FitClass
    <2>2. b \in ToSet(h.matrix[ClassOf(h, b)]) /\ h.matrix[ClassOf(h, b)] \in Seq(Words)
      BY <2>1 DEF Lists, Shape
    <2> QED  BY <1>3, <2>1, <2>2, EmptyList
  <1>6. ASSUME NEW cs \in SUBSET h.sl, cs # {} PROVE first(cs) \in cs
    <2> DEFINE seconds == {c[2] : c \in cs}
    <2>1. seconds \in SUBSET Nat /\ seconds # {}
      BY <1>2, <1>6
    <2> HIDE DEF seconds
    <2>2. PICK m \in seconds : \A k \in seconds : m <= k
      BY <2>1, LeastNat
    <2>3. PICK c \in cs : c[2] = m
      BY <2>2 DEF seconds
    <2>4. \A d \in cs : c[2] <= d[2]
      BY <2>2, <2>3 DEF seconds
    <2> QED  BY <2>4
  <1> HIDE DEF first
  <1>7. CASE here # {}
    <2>1. first(here) \in here
      BY <1>6, <1>7
    <2>2. Suitable(h, class) = {Head(h.matrix[first(here)])}
      BY <1>7 DEF Suitable, first
    <2> QED  BY <1>4, <2>1, <2>2 DEF AtLeast
  <1>8. CASE here = {} /\ above # {}
    <2>1. Min(above) \in above
      <3>1. above \in SUBSET Nat
        BY <1>2, <1>3
      <3> HIDE DEF above
      <3> QED  BY <1>8, <3>1, LeastNat
    <2>2. there # {}
      BY <1>3, <2>1
    <2>3. first(there) \in there
      BY <1>6, <2>2
    <2>4. Suitable(h, class) = {Head(h.matrix[first(there)])}
      BY <1>8 DEF Suitable, first
    <2>5. first(there)[1] > class[1] /\ first(there) \in h.sl
      BY <2>1, <2>3
    <2> QED  BY <1>4, <2>4, <2>5 DEF AtLeast
  <1>9. CASE here = {} /\ above = {}
    <2>1. Suitable(h, class) = {}
      BY <1>9 DEF Suitable
    <2>2. ASSUME NEW b \in F, AtLeast(ClassOf(h, b), class) PROVE FALSE
      BY <1>3, <1>5, <1>9, <2>2 DEF AtLeast
    <2> QED  BY <2>1, <2>2
  <1> QED  BY <1>7, <1>8, <1>9

-----------------------------------------------------------------------------
(* Blocks *)

\* The blocks cover the area, and each but the first comes after another.
Tiled(h) ==
    /\ \A b \in DOMAIN h.blocks \ {End} :
          /\ h.blocks[b].size >= MinSize
          /\ NextOf(h, b) \in DOMAIN h.blocks
          /\ \A c \in DOMAIN h.blocks : c <= b \/ c >= NextOf(h, b)
    /\ \A c \in DOMAIN h.blocks \ {0} : \E b \in DOMAIN h.blocks \ {End} : NextOf(h, b) = c

\* Both ends of a block, those of X excepted, say whether it is free; no two
\* free blocks touch.
Tagged(h, X) ==
    /\ ~ h.blocks[End].free /\ ~ h.blocks[0].prevFree
    /\ \A b \in DOMAIN h.blocks \ ({End} \union X) :
          LET next == NextOf(h, b) IN
          /\ h.blocks[next].prevFree = h.blocks[b].free
          /\ h.blocks[b].free => /\ h.blocks[next].prev = b
                                 /\ next \notin X => ~ h.blocks[next].free

FreeBlocks(h) == {b \in DOMAIN h.blocks : h.blocks[b].free}

\* The heap between two calls.
Whole(h) == Shape(h) /\ Tiled(h) /\ Tagged(h, {}) /\ Lists(h, FreeBlocks(h))

\* The constants as numbers.
LEMMA AreaFacts ==
    /\ Area \in Nat /\ Area >= 2 /\ End = Area + 2 /\ End \in Nat
    /\ Words = 0 .. Area + 3 /\ Overhead = 2 /\ MinSize = 2 /\ Header = 4
  <1>1. Area \in MinSize .. Two(29) /\ Two(29) \in Nat
    BY AreaAssumption, Powers DEF Two
  <1> QED  BY <1>1 DEF MinSize, End, Words, Overhead, Header

\* Every block but the sentinel ends where another begins.
LEMMA Follows ==
    ASSUME NEW h, Shape(h), Tiled(h), NEW b \in DOMAIN h.blocks
    PROVE  /\ b \in 0 .. End
           /\ h.blocks[b] \in BlockRecord /\ h.blocks[b].size \in 0 .. Area
           /\ b # End => /\ NextOf(h, b) \in DOMAIN h.blocks
                         /\ NextOf(h, b) = b + 2 + h.blocks[b].size
                         /\ b + 4 <= NextOf(h, b) /\ NextOf(h, b) <= End
                         /\ h.blocks[b].size >= 2
                         /\ \A c \in DOMAIN h.blocks : c <= b \/ c >= NextOf(h, b)
  <1>1. /\ b \in 0 .. Area + 3 /\ h.blocks[b] \in BlockRecord /\ End \in DOMAIN h.blocks
        /\ DOMAIN h.blocks \subseteq 0 .. Area + 3
    BY AreaFacts DEF Shape
  <1>2. h.blocks[b].size \in 0 .. Area
    BY <1>1 DEF BlockRecord
  <1>3. CASE b = End
    BY <1>1, <1>2, <1>3, AreaFacts
  <1>4. CASE b # End
    <2>1. /\ NextOf(h, b) \in DOMAIN h.blocks /\ NextOf(h, b) = b + 2 + h.blocks[b].size
          /\ h.blocks[b].size >= 2
          /\ \A c \in DOMAIN h.blocks : c <= b \/ c >= NextOf(h, b)
      BY <1>4, AreaFacts DEF Tiled, NextOf
    <2>2. NextOf(h, b) \in 0 .. Area + 3 /\ (End <= b \/ End >= NextOf(h, b))
      BY <1>1, <2>1
    <2> QED  BY <1>1, <1>2, <1>4, <2>1, <2>2, AreaFacts
  <1> QED  BY <1>3, <1>4

\* No two blocks come before the same one.
LEMMA OneBefore ==
    ASSUME NEW h, Shape(h), Tiled(h), NEW b \in DOMAIN h.blocks \ {End},
           NEW c \in DOMAIN h.blocks \ {End}, NextOf(h, b) = NextOf(h, c)
    PROVE  b = c
  <1>1. /\ b \in 0 .. End /\ c \in 0 .. End /\ NextOf(h, b) \in Int
        /\ b + 4 <= NextOf(h, b) /\ c + 4 <= NextOf(h, b)
        /\ c <= b \/ c >= NextOf(h, b)
        /\ b <= c \/ b >= NextOf(h, b)
    BY Follows, AreaFacts
  <1> QED  BY <1>1, AreaFacts

\* The free blocks fit the lists.
LEMMA FreeFit ==
    ASSUME NEW h, Shape(h), Tiled(h), ~ h.blocks[End].free
    PROVE  Fit(h, FreeBlocks(h))
  BY DEF Fit, FreeBlocks, Tiled

\* The heap out after block b of h has swallowed the block after it.
Joined(h, out, b) ==
    LET next == NextOf(h, b)
    IN  /\ Shape(out) /\ Tiled(out)
        /\ out.matrix = h.matrix /\ out.sl = h.sl /\ out.fl = h.fl
        /\ DOMAIN out.blocks = DOMAIN h.blocks \ {next}
        /\ \A c \in DOMAIN out.blocks \ {b} : out.blocks[c] = h.blocks[c]
        /\ out.blocks[b].free = h.blocks[b].free
        /\ out.blocks[b].prevFree = h.blocks[b].prevFree
        /\ out.blocks[b].prev = h.blocks[b].prev
        /\ out.blocks[b].size = h.blocks[b].size + h.blocks[next].size + 2
        /\ NextOf(out, b) = NextOf(h, next)
        /\ \A c \in DOMAIN out.blocks \ {b, End} : NextOf(out, c) = NextOf(h, c)

\* Joining two blocks leaves the area covered.
LEMMA JoinKeeps ==
    ASSUME NEW h, Shape(h), Tiled(h), NEW b \in DOMAIN h.blocks \ {End}, NextOf(h, b) # End
    PROVE  Joined(h, Join(h, b), b)
  <1> DEFINE out  == Join(h, b)
             next == NextOf(h, b)
             size == h.blocks[b].size + h.blocks[next].size + Overhead
             record(c) == IF c = b THEN [h.blocks[b] EXCEPT !.size = size] ELSE h.blocks[c]
  <1>1. h = [blocks |-> h.blocks, matrix |-> h.matrix, sl |-> h.sl, fl |-> h.fl]
    BY DEF Shape
  <1>2. out = [h EXCEPT !.blocks = [c \in DOMAIN h.blocks \ {next} |-> record(c)]]
    BY DEF Join
  <1> HIDE DEF out, record
  <1>3. out = [blocks |-> [c \in DOMAIN h.blocks \ {next} |-> record(c)],
               matrix |-> h.matrix, sl |-> h.sl, fl |-> h.fl]
    BY <1>1, <1>2
  <1>4. /\ out.matrix = h.matrix /\ out.sl = h.sl /\ out.fl = h.fl
        /\ out = [blocks |-> out.blocks, matrix |-> out.matrix, sl |-> out.sl, fl |-> out.fl]
        /\ out.blocks = [c \in DOMAIN h.blocks \ {next} |-> record(c)]
    BY <1>3
  <1>5. /\ b \in 0 .. End /\ next \in DOMAIN h.blocks \ {End} /\ next = b + 2 + h.blocks[b].size
        /\ b + 4 <= next /\ next \in 0 .. End
        /\ h.blocks[b] \in BlockRecord /\ h.blocks[b].size \in 0 .. Area
        /\ h.blocks[next].size \in 0 .. Area
        /\ NextOf(h, next) = next + 2 + h.blocks[next].size
        /\ NextOf(h, next) \in DOMAIN h.blocks
        /\ next + 4 <= NextOf(h, next) /\ NextOf(h, next) <= End
    BY Follows
  <1> HIDE DEF next
  <1>6. size \in 2 .. Area /\ size = h.blocks[b].size + h.blocks[next].size + 2
        /\ NextOf(h, next) = b + 2 + size
    <2>1. size = h.blocks[b].size + h.blocks[next].size + 2
      BY AreaFacts
    <2> HIDE DEF size
    <2>2. h.blocks[b].size \in Nat /\ h.blocks[next].size \in Nat /\ b \in Nat /\ b + 4 <= next
      BY <1>5, AreaFacts
    <2>3. h.blocks[b].size >= 2 /\ NextOf(h, next) = b + 2 + size
      BY <1>5, <2>1, <2>2
    <2> QED  BY <1>5, <2>1, <2>2, <2>3, AreaFacts
  <1> HIDE DEF size
  <1>7. /\ DOMAIN out.blocks = DOMAIN h.blocks \ {next}
        /\ \A c \in DOMAIN out.blocks : out.blocks[c] = record(c)
    BY <1>4
  <1>8. b \in DOMAIN out.blocks /\ b # next
    BY <1>5, <1>7, AreaFacts
  <1>9. \A c \in DOMAIN out.blocks \ {b} : out.blocks[c] = h.blocks[c]
    BY <1>7 DEF record
  <1>10. /\ out.blocks[b] \in BlockRecord /\ out.blocks[b].size = size
         /\ out.blocks[b].free = h.blocks[b].free
         /\ out.blocks[b].prevFree = h.blocks[b].prevFree
         /\ out.blocks[b].prev = h.blocks[b].prev
    <2>1. out.blocks[b] = [h.blocks[b] EXCEPT !.size = size]
      BY <1>7, <1>8 DEF record
    <2>2. size \in 0 .. Area
      BY <1>6, AreaFacts
    <2> QED  BY <1>5, <2>1, <2>2 DEF BlockRecord
  <1>11. \A c \in DOMAIN out.blocks \ {b, End} : NextOf(out, c) = NextOf(h, c)
    BY <1>9 DEF NextOf
  <1>12. NextOf(out, b) = NextOf(h, next)
    BY <1>6, <1>10, AreaFacts DEF NextOf
  <1>13. Shape(out)
    <2>1. out.blocks \in [DOMAIN out.blocks -> BlockRecord]
      <3>1. \A c \in DOMAIN out.blocks : out.blocks[c] \in BlockRecord
        BY <1>7, <1>9, <1>10 DEF Shape
      <3>2. out.blocks = [c \in DOMAIN out.blocks |-> out.blocks[c]]
        BY <1>4, <1>7
      <3> QED  BY <3>1, <3>2
    <2>2. {0, End} \subseteq DOMAIN out.blocks /\ DOMAIN out.blocks \subseteq Words
      BY <1>5, <1>7, AreaFacts DEF Shape
    <2> QED  BY <1>4, <2>1, <2>2 DEF Shape
  <1>14. ASSUME NEW c \in DOMAIN out.blocks \ {End}
         PROVE  /\ out.blocks[c].size >= MinSize
                /\ NextOf(out, c) \in DOMAIN out.blocks
                /\ \A d \in DOMAIN out.blocks : d <= c \/ d >= NextOf(out, c)
    <2>1. CASE c = b
      <3>1. NextOf(h, next) # next
        BY <1>5, AreaFacts
      <3>2. ASSUME NEW d \in DOMAIN out.blocks PROVE d <= b \/ d >= NextOf(h, next)
        <4>1. d \in DOMAIN h.blocks /\ d # next
          BY <1>7
        <4>2. d \in 0 .. End /\ (d <= b \/ d >= next) /\ (d <= next \/ d >= NextOf(h, next))
          BY <1>5, <4>1, Follows DEF next
        <4> QED  BY <1>5, <4>1, <4>2, AreaFacts
      <3> QED  BY <1>5, <1>6, <1>7, <1>10, <1>12, <2>1, <3>1, <3>2, AreaFacts
    <2>2. CASE c # b
      <3>1. /\ c \in DOMAIN h.blocks \ {End} /\ NextOf(out, c) = NextOf(h, c)
            /\ out.blocks[c] = h.blocks[c]
        BY <1>7, <1>9, <1>11, <2>2
      <3>2. NextOf(h, c) # next
        BY <2>2, <3>1, OneBefore DEF next
      <3> QED  BY <1>7, <3>1, <3>2 DEF Tiled
    <2> QED  BY <2>1, <2>2
  <1>15. ASSUME NEW c \in DOMAIN out.blocks \ {0}
         PROVE  \E d \in DOMAIN out.blocks \ {End} : NextOf(out, d) = c
    <2>1. PICK d \in DOMAIN h.blocks \ {End} : NextOf(h, d) = c
      BY <1>7 DEF Tiled
    <2>2. CASE d = next
      BY <1>8, <1>12, <2>1, <2>2
    <2>3. CASE d # next
      <3>1. d # b
        BY <1>7, <2>1 DEF next
      <3> QED  BY <1>7, <1>11, <2>1, <2>3, <3>1
    <2> QED  BY <2>2, <2>3
  <1>16. Tiled(out)
    BY <1>14, <1>15 DEF Tiled
  <1> QED
    BY <1>4, <1>6, <1>7, <1>9, <1>10, <1>11, <1>12, <1>13, <1>16 DEF out, next, Joined

\* Split before what is left goes onto its list.
Cut(h, b, size) ==
    LET next == NextOf(h, b)
        b2   == b + Overhead + size
        new  == [size |-> h.blocks[b].size - size - Overhead, free |-> TRUE,
                 prevFree |-> FALSE, prev |-> 0]
    IN  [h EXCEPT !.blocks = [c \in DOMAIN @ \union {b2} |->
            CASE c = b2   -> new
              [] c = b    -> [@[b] EXCEPT !.size = size, !.free = FALSE]
              [] c = next -> [@[next] EXCEPT !.prev = b2, !.prevFree = TRUE]
              [] OTHER    -> @[c]]]

\* The heap out after block b of h was cut at size words.
IsCut(h, out, b, size) ==
    LET next == NextOf(h, b)
        b2   == b + 2 + size
    IN  /\ Shape(out) /\ Tiled(out)
        /\ out.matrix = h.matrix /\ out.sl = h.sl /\ out.fl = h.fl
        /\ b2 \notin DOMAIN h.blocks
        /\ DOMAIN out.blocks = DOMAIN h.blocks \union {b2}
        /\ \A c \in DOMAIN h.blocks \ {b, next} : out.blocks[c] = h.blocks[c]
        /\ out.blocks[b].size = size /\ ~ out.blocks[b].free
        /\ out.blocks[b].prevFree = h.blocks[b].prevFree
        /\ out.blocks[b].prev = h.blocks[b].prev
        /\ out.blocks[next].size = h.blocks[next].size
        /\ out.blocks[next].free = h.blocks[next].free
        /\ out.blocks[next].prevFree = TRUE /\ out.blocks[next].prev = b2
        /\ out.blocks[b2].free = TRUE /\ out.blocks[b2].prevFree = FALSE
        /\ NextOf(out, b) = b2 /\ NextOf(out, b2) = next
        /\ \A c \in DOMAIN h.blocks \ {b, End} : NextOf(out, c) = NextOf(h, c)

\* So does cutting one.
LEMMA CutKeeps ==
    ASSUME NEW h, Shape(h), Tiled(h), NEW b \in DOMAIN h.blocks \ {End},
           NEW size \in Nat, size >= 2, LargeEnough(h.blocks[b].size - size)
    PROVE  IsCut(h, Cut(h, b, size), b, size)
  <1> DEFINE out  == Cut(h, b, size)
             next == NextOf(h, b)
             b2   == b + 2 + size
             left == h.blocks[b].size - size - 2
             new  == [size |-> left, free |-> TRUE, prevFree |-> FALSE, prev |-> 0]
             was(c) == h.blocks[c]
             record(c) == CASE c = b2   -> new
                            [] c = b    -> [was(b) EXCEPT !.size = size, !.free = FALSE]
                            [] c = next -> [was(next) EXCEPT !.prev = b2, !.prevFree = TRUE]
                            [] OTHER    -> was(c)
  <1>1. h = [blocks |-> h.blocks, matrix |-> h.matrix, sl |-> h.sl, fl |-> h.fl]
    BY DEF Shape
  <1>2. out = [h EXCEPT !.blocks = [c \in DOMAIN h.blocks \union {b2} |-> record(c)]]
    BY DEF Cut, Overhead
  <1> HIDE DEF out, record
  <1>3. out = [blocks |-> [c \in DOMAIN h.blocks \union {b2} |-> record(c)],
               matrix |-> h.matrix, sl |-> h.sl, fl |-> h.fl]
    BY <1>1, <1>2
  <1>4. /\ out.matrix = h.matrix /\ out.sl = h.sl /\ out.fl = h.fl
        /\ out = [blocks |-> out.blocks, matrix |-> out.matrix, sl |-> out.sl, fl |-> out.fl]
        /\ out.blocks = [c \in DOMAIN h.blocks \union {b2} |-> record(c)]
    BY <1>3
  <1>5. /\ b \in 0 .. End /\ next \in DOMAIN h.blocks /\ next = b + 2 + h.blocks[b].size
        /\ b + 4 <= next /\ next \in 0 .. End /\ b \in DOMAIN h.blocks
        /\ h.blocks[b] \in BlockRecord /\ h.blocks[b].size \in 0 .. Area
        /\ h.blocks[next] \in BlockRecord
        /\ \A c \in DOMAIN h.blocks : c \in 0 .. End /\ (c <= b \/ c >= next)
    BY Follows
  <1>6. h.blocks[b].size - size >= 4
    BY AreaFacts DEF LargeEnough
  <1> HIDE DEF next
  <1>7. /\ b < b2 /\ b2 < next /\ b2 \in 0 .. End /\ left \in 2 .. Area /\ size \in 2 .. Area
        /\ b2 + 2 + left = next /\ b2 \in Words /\ 0 \in Words
    <2>1. h.blocks[b].size \in Nat /\ h.blocks[b].size <= Area /\ b \in Nat /\ next <= Area + 2
      BY <1>5, AreaFacts
    <2>2. b < b2 /\ b2 < next /\ left \in 2 .. Area /\ size \in 2 .. Area /\ b2 + 2 + left = next
      <3>1. next = b + 2 + h.blocks[b].size /\ h.blocks[b].size - size >= 4 /\ Area \in Nat
        BY <1>5, <1>6, AreaFacts
      <3> QED  BY <2>1, <3>1
    <2> HIDE DEF left
    <2>3. b2 \in 0 .. Area + 2
      BY <2>1, <2>2, AreaFacts
    <2> QED  BY <2>2, <2>3, AreaFacts
  <1> HIDE DEF left, b2
  <1>8. b2 \notin DOMAIN h.blocks /\ b2 # b /\ b2 # next /\ b # next
    BY <1>5, <1>7, AreaFacts
  <1>9. /\ DOMAIN out.blocks = DOMAIN h.blocks \union {b2}
        /\ \A c \in DOMAIN h.blocks \union {b2} : out.blocks[c] = record(c)
    BY <1>4
  <1>10. \A c \in DOMAIN h.blocks \ {b, next} : out.blocks[c] = h.blocks[c]
    BY <1>8, <1>9 DEF record
  <1>11. /\ out.blocks[b] \in BlockRecord
         /\ out.blocks[b].size = size /\ ~ out.blocks[b].free
         /\ out.blocks[b].prevFree = h.blocks[b].prevFree
         /\ out.blocks[b].prev = h.blocks[b].prev
    <2>1. out.blocks[b] = [h.blocks[b] EXCEPT !.size = size, !.free = FALSE]
      BY <1>5, <1>8, <1>9 DEF record
    <2>2. size \in 0 .. Area
      BY <1>7, AreaFacts
    <2> QED  BY <1>5, <2>1, <2>2 DEF BlockRecord
  <1>12. /\ out.blocks[next] \in BlockRecord
         /\ out.blocks[next].size = h.blocks[next].size
         /\ out.blocks[next].free = h.blocks[next].free
         /\ out.blocks[next].prevFree = TRUE /\ out.blocks[next].prev = b2
    <2>1. out.blocks[next] = [h.blocks[next] EXCEPT !.prev = b2, !.prevFree = TRUE]
      BY <1>5, <1>8, <1>9 DEF record
    <2>2. b2 \in Words /\ TRUE \in BOOLEAN
      BY <1>7
    <2>3. h.blocks[next] \in BlockRecord
      BY <1>5
    <2> QED  BY <2>1, <2>2, <2>3 DEF BlockRecord
  <1>13. /\ out.blocks[b2] \in BlockRecord /\ out.blocks[b2].size = left
         /\ out.blocks[b2].free = TRUE /\ out.blocks[b2].prevFree = FALSE
    <2>1. out.blocks[b2] = new
      BY <1>8, <1>9 DEF record
    <2>2. left \in 0 .. Area
      BY <1>7, AreaFacts
    <2> QED  BY <1>7, <2>1, <2>2 DEF BlockRecord
  <1>14. NextOf(out, b) = b2 /\ NextOf(out, b2) = next
    BY <1>7, <1>11, <1>13, AreaFacts DEF NextOf, b2
  <1>15. \A c \in DOMAIN h.blocks \ {b, End} : NextOf(out, c) = NextOf(h, c)
    BY <1>10, <1>12 DEF NextOf
  <1>16. Shape(out)
    <2>1. \A c \in DOMAIN out.blocks : out.blocks[c] \in BlockRecord
      BY <1>9, <1>10, <1>11, <1>12, <1>13 DEF Shape
    <2>2. out.blocks = [c \in DOMAIN out.blocks |-> out.blocks[c]]
      BY <1>4, <1>9
    <2>3. {0, End} \subseteq DOMAIN out.blocks /\ DOMAIN out.blocks \subseteq Words
      BY <1>7, <1>9 DEF Shape
    <2>4. out.matrix \in [Classes -> Seq(Words)]
      BY <1>4 DEF Shape
    <2> QED  BY <1>4, <2>1, <2>2, <2>3, <2>4 DEF Shape
  <1>17. ASSUME NEW c \in DOMAIN out.blocks \ {End}
         PROVE  /\ out.blocks[c].size >= MinSize
                /\ NextOf(out, c) \in DOMAIN out.blocks
                /\ \A d \in DOMAIN out.blocks : d <= c \/ d >= NextOf(out, c)
    <2>1. CASE c = b
      <3>1. ASSUME NEW d \in DOMAIN out.blocks PROVE d <= b \/ d >= b2
        BY <1>5, <1>7, <1>9, AreaFacts
      <3> QED  BY <1>7, <1>9, <1>11, <1>14, <2>1, <3>1, AreaFacts
    <2>2. CASE c = b2
      <3>1. ASSUME NEW d \in DOMAIN out.blocks PROVE d <= b2 \/ d >= next
        BY <1>5, <1>7, <1>9, AreaFacts
      <3> QED  BY <1>5, <1>7, <1>9, <1>13, <1>14, <2>2, <3>1, AreaFacts
    <2>3. CASE c \notin {b, b2}
      <3>1. /\ c \in DOMAIN h.blocks \ {End} /\ NextOf(out, c) = NextOf(h, c)
            /\ out.blocks[c].size = h.blocks[c].size
        BY <1>9, <1>10, <1>12, <1>15, <2>3
      <3>2. /\ h.blocks[c].size >= MinSize /\ NextOf(h, c) \in DOMAIN h.blocks
            /\ \A d \in DOMAIN h.blocks : d <= c \/ d >= NextOf(h, c)
        BY <3>1 DEF Tiled
      <3>3. b2 <= c \/ b2 >= NextOf(h, c)
        <4>1. /\ c \in 0 .. End /\ NextOf(h, c) \in 0 .. End /\ (c <= b \/ c >= next)
              /\ (b <= c \/ b >= NextOf(h, c)) /\ c # b
          BY <1>5, <2>3, <3>1, <3>2
        <4> QED  BY <1>5, <1>7, <4>1, AreaFacts
      <3> QED  BY <1>9, <3>1, <3>2, <3>3
    <2> QED  BY <2>1, <2>2, <2>3
  <1>18. ASSUME NEW c \in DOMAIN out.blocks \ {0}
         PROVE  \E d \in DOMAIN out.blocks \ {End} : NextOf(out, d) = c
    <2>1. b # End /\ b2 # End
      BY <1>5, <1>7, AreaFacts
    <2>2. CASE c = b2
      BY <1>5, <1>9, <1>14, <2>1, <2>2
    <2>3. CASE c = next
      BY <1>9, <1>14, <2>1, <2>3
    <2>4. CASE c \notin {b2, next}
      <3>1. PICK d \in DOMAIN h.blocks \ {End} : NextOf(h, d) = c
        BY <1>9, <2>4 DEF Tiled
      <3>2. d # b
        BY <2>4, <3>1 DEF next
      <3> QED  BY <1>9, <1>15, <3>1, <3>2
    <2> QED  BY <2>2, <2>3, <2>4
  <1>19. Tiled(out)
    BY <1>17, <1>18 DEF Tiled
  <1> QED
    BY <1>4, <1>8, <1>9, <1>10, <1>11, <1>12, <1>13, <1>14, <1>15, <1>16, <1>19
       DEF out, next, b2, IsCut

\* What an owner has is left alone, block b excepted.
Spared(h, out, b) ==
    \A c \in DOMAIN h.blocks \ {b, End} :
        ~ h.blocks[c].free => /\ c \in DOMAIN out.blocks /\ ~ out.blocks[c].free
                             /\ out.blocks[c].size = h.blocks[c].size

\* The lists depend on the sizes of their blocks only.
LEMMA ListsSame ==
    ASSUME NEW h, NEW out, NEW F, Lists(h, F),
           out.matrix = h.matrix, out.sl = h.sl, out.fl = h.fl,
           \A c \in F : out.blocks[c].size = h.blocks[c].size
    PROVE  Lists(out, F)
  <1>1. \A c \in F : ClassOf(out, c) = ClassOf(h, c)
    BY DEF ClassOf
  <1>2. \A class : {c \in F : ClassOf(out, c) = class} = {c \in F : ClassOf(h, c) = class}
    BY <1>1
  <1> QED  BY <1>2 DEF Lists

\* Exceptions weaken the tags.
LEMMA TaggedLess ==
    ASSUME NEW h, Tagged(h, {}), NEW X
    PROVE  Tagged(h, X)
  BY DEF Tagged

\* What depends on the blocks only.
LEMMA SameBlocks ==
    ASSUME NEW h, NEW out, out.blocks = h.blocks
    PROVE  /\ \A b : NextOf(out, b) = NextOf(h, b)
           /\ Tiled(h) => Tiled(out)
           /\ \A X : Tagged(h, X) => Tagged(out, X)
           /\ FreeBlocks(out) = FreeBlocks(h)
  <1>1. \A b : NextOf(out, b) = NextOf(h, b)
    BY DEF NextOf
  <1>2. Tiled(h) => Tiled(out)
    BY <1>1 DEF Tiled
  <1>3. ASSUME NEW X, Tagged(h, X) PROVE Tagged(out, X)
    BY <1>1, <1>3 DEF Tagged
  <1> QED  BY <1>1, <1>2, <1>3 DEF FreeBlocks

\* After the tags at both ends of b were written, the heap is whole.
LEMMA TagsWritten ==
    ASSUME NEW h, Shape(h), Tiled(h), NEW b \in DOMAIN h.blocks \ {End}, Tagged(h, {b}),
           ~ h.blocks[NextOf(h, b)].free,
           NEW out, Shape(out), DOMAIN out.blocks = DOMAIN h.blocks,
           \A c \in DOMAIN h.blocks \ {b, NextOf(h, b)} : out.blocks[c] = h.blocks[c],
           \A c \in DOMAIN h.blocks : out.blocks[c].size = h.blocks[c].size,
           ~ out.blocks[NextOf(h, b)].free,
           out.blocks[NextOf(h, b)].prevFree = out.blocks[b].free,
           out.blocks[b].free => /\ out.blocks[NextOf(h, b)].prev = b
                                 /\ \A c \in DOMAIN h.blocks \ {End} :
                                        NextOf(h, c) = b => ~ h.blocks[c].free,
           out.blocks[b].prevFree = h.blocks[b].prevFree, out.blocks[b].prev = h.blocks[b].prev,
           Lists(out, FreeBlocks(out))
    PROVE  Whole(out)
  <1> DEFINE next == NextOf(h, b)
  <1>1. \A c : c \in DOMAIN h.blocks => NextOf(out, c) = NextOf(h, c)
    BY DEF NextOf
  <1>2. Tiled(out)
    BY <1>1 DEF Tiled
  <1>3. /\ next \in DOMAIN h.blocks /\ next # b /\ next # 0 /\ b \in DOMAIN h.blocks
        /\ 0 \in DOMAIN h.blocks /\ End \in DOMAIN h.blocks
    <2>1. next \in DOMAIN h.blocks /\ b + 4 <= next /\ b \in 0 .. End
      BY Follows
    <2>2. next # b /\ next # 0
      <3> HIDE DEF next
      <3> QED  BY <2>1, AreaFacts
    <2> QED  BY <2>1, <2>2 DEF Shape
  <1> HIDE DEF next
  <1>4. ~ out.blocks[End].free /\ ~ out.blocks[0].prevFree
    <2>1. ~ out.blocks[End].free
      BY <1>3 DEF Tagged, next
    <2>2. ~ out.blocks[0].prevFree
      BY <1>3 DEF Tagged, next
    <2> QED  BY <2>1, <2>2
  <1>5. ASSUME NEW c \in DOMAIN h.blocks \ {End}
        PROVE  /\ out.blocks[NextOf(h, c)].prevFree = out.blocks[c].free
               /\ out.blocks[c].free => /\ out.blocks[NextOf(h, c)].prev = c
                                        /\ ~ out.blocks[NextOf(h, c)].free
    <2>1. CASE c = b
      BY <2>1
    <2>2. CASE c # b
      <3> DEFINE n == NextOf(h, c)
      <3>1. n \in DOMAIN h.blocks /\ n # next /\ c \in DOMAIN h.blocks
        BY <2>2, Follows, OneBefore DEF next
      <3>2. /\ h.blocks[n].prevFree = h.blocks[c].free
            /\ h.blocks[c].free => h.blocks[n].prev = c /\ (n # b => ~ h.blocks[n].free)
        BY <2>2 DEF Tagged
      <3>3. out.blocks[c].free = h.blocks[c].free
        <4>1. CASE c = next
          BY <1>3, <4>1 DEF next, Shape, BlockRecord
        <4>2. CASE c # next
          BY <2>2, <3>1, <4>2 DEF next
        <4> QED  BY <4>1, <4>2
      <3>4. CASE n = b
        BY <3>1, <3>2, <3>3, <3>4
      <3>5. CASE n # b
        <4>1. out.blocks[n] = h.blocks[n]
          BY <3>1, <3>5 DEF next
        <4> QED  BY <3>2, <3>3, <3>5, <4>1
      <3> QED  BY <3>4, <3>5
    <2> QED  BY <2>1, <2>2
  <1>6. Tagged(out, {})
    BY <1>1, <1>4, <1>5 DEF Tagged
  <1> QED  BY <1>2, <1>6 DEF Whole

\* Split: b becomes a used block of size words and leaves a free one.
LEMMA SplitWhole ==
    ASSUME NEW h, Shape(h), Tiled(h), NEW b \in DOMAIN h.blocks \ {End}, Tagged(h, {b}),
           ~ h.blocks[NextOf(h, b)].free, Lists(h, FreeBlocks(h) \ {b}),
           NEW size \in Nat, size >= 2, LargeEnough(h.blocks[b].size - size)
    PROVE  LET out == Split(h, b, size)
           IN  /\ Whole(out) /\ Spared(h, out, b)
               /\ b \in DOMAIN out.blocks /\ ~ out.blocks[b].free /\ out.blocks[b].size = size
  <1> DEFINE cut  == Cut(h, b, size)
             next == NextOf(h, b)
             b2   == b + 2 + size
             out  == Split(h, b, size)
             F    == FreeBlocks(h) \ {b}
  <1>1. out = Insert(cut, b2)
    BY DEF Split, Cut, Overhead
  <1>2. /\ Shape(cut) /\ Tiled(cut)
        /\ cut.matrix = h.matrix /\ cut.sl = h.sl /\ cut.fl = h.fl
        /\ b2 \notin DOMAIN h.blocks
        /\ DOMAIN cut.blocks = DOMAIN h.blocks \union {b2}
        /\ \A c \in DOMAIN h.blocks \ {b, next} : cut.blocks[c] = h.blocks[c]
        /\ cut.blocks[b].size = size /\ ~ cut.blocks[b].free
        /\ cut.blocks[b].prevFree = h.blocks[b].prevFree
        /\ cut.blocks[b].prev = h.blocks[b].prev
        /\ cut.blocks[next].size = h.blocks[next].size
        /\ cut.blocks[next].free = h.blocks[next].free
        /\ cut.blocks[next].prevFree = TRUE /\ cut.blocks[next].prev = b2
        /\ cut.blocks[b2].free = TRUE /\ cut.blocks[b2].prevFree = FALSE
        /\ NextOf(cut, b) = b2 /\ NextOf(cut, b2) = next
        /\ \A c \in DOMAIN h.blocks \ {b, End} : NextOf(cut, c) = NextOf(h, c)
    <2>1. IsCut(h, cut, b, size)
      BY CutKeeps
    <2> HIDE DEF cut
    <2> QED  BY <2>1 DEF IsCut
  <1>3. /\ next \in DOMAIN h.blocks /\ next # b /\ next # 0 /\ b \in DOMAIN h.blocks
        /\ 0 \in DOMAIN h.blocks /\ End \in DOMAIN h.blocks /\ ~ h.blocks[next].free
    <2>1. next \in DOMAIN h.blocks /\ b + 4 <= next /\ b \in 0 .. End
      BY Follows
    <2>2. next # b /\ next # 0
      <3> HIDE DEF next
      <3> QED  BY <2>1, AreaFacts
    <2> QED  BY <2>1, <2>2 DEF Shape
  <1> HIDE DEF cut, next, b2, out
  <1>4. ~ cut.blocks[End].free /\ ~ cut.blocks[0].prevFree
    <2>1. ~ h.blocks[End].free /\ ~ h.blocks[0].prevFree
      BY DEF Tagged
    <2> QED  BY <1>2, <1>3, <2>1
  <1>5. ASSUME NEW c \in DOMAIN cut.blocks \ {End}
        PROVE  /\ cut.blocks[NextOf(cut, c)].prevFree = cut.blocks[c].free
               /\ cut.blocks[c].free => /\ cut.blocks[NextOf(cut, c)].prev = c
                                        /\ ~ cut.blocks[NextOf(cut, c)].free
    <2>1. CASE c = b
      <3>1. cut.blocks[b].free = FALSE
        BY <1>2, <1>3 DEF Shape, BlockRecord
      <3> QED  BY <1>2, <2>1, <3>1
    <2>2. CASE c = b2
      BY <1>2, <1>3, <2>2
    <2>3. CASE c \notin {b, b2}
      <3> DEFINE n == NextOf(h, c)
      <3>1. c \in DOMAIN h.blocks /\ n \in DOMAIN h.blocks /\ n # next /\ NextOf(cut, c) = n
        BY <1>2, <2>3, Follows, OneBefore DEF next
      <3>2. /\ h.blocks[n].prevFree = h.blocks[c].free
            /\ h.blocks[c].free => h.blocks[n].prev = c /\ (n # b => ~ h.blocks[n].free)
        BY <2>3, <3>1 DEF Tagged
      <3> HIDE DEF n
      <3>3. cut.blocks[c].free = h.blocks[c].free
        BY <1>2, <2>3, <3>1
      <3>4. CASE n = b
        BY <1>2, <3>1, <3>2, <3>3, <3>4
      <3>5. CASE n # b
        <4>1. cut.blocks[n] = h.blocks[n]
          BY <1>2, <3>1, <3>5
        <4> QED  BY <3>1, <3>2, <3>3, <3>5, <4>1
      <3> QED  BY <3>4, <3>5
    <2> QED  BY <2>1, <2>2, <2>3
  <1>6. Tagged(cut, {})
    BY <1>4, <1>5 DEF Tagged
  <1>7. Lists(cut, F) /\ b2 \notin F /\ FreeBlocks(cut) = F \union {b2}
    <2>1. \A c \in F : c \in DOMAIN h.blocks /\ cut.blocks[c].size = h.blocks[c].size
      BY <1>2 DEF FreeBlocks
    <2>2. Lists(cut, F)
      BY <1>2, <2>1, ListsSame
    <2>3. \A c \in DOMAIN h.blocks \ {b} : cut.blocks[c].free = h.blocks[c].free
      BY <1>2
    <2> QED  BY <1>2, <1>3, <2>1, <2>2, <2>3 DEF FreeBlocks
  <1>8. Fit(cut, F \union {b2})
    BY <1>2, <1>4, <1>7, FreeFit
  <1>9. Shape(out) /\ out.blocks = cut.blocks /\ Lists(out, F \union {b2})
    BY <1>1, <1>2, <1>7, <1>8, InsertLists
  <1>10. Whole(out)
    BY <1>2, <1>6, <1>7, <1>9, SameBlocks DEF Whole
  <1>11. Spared(h, out, b)
    BY <1>2, <1>9 DEF Spared
  <1> QED  BY <1>2, <1>3, <1>9, <1>10, <1>11 DEF out

-----------------------------------------------------------------------------
(* Neighbours become one block *)

\* Within a call: block b, whose tags are not yet right, is in no list.
Loose(h, b) ==
    /\ Shape(h) /\ Tiled(h)
    /\ b \in DOMAIN h.blocks \ {End}
    /\ Tagged(h, {b}) /\ Lists(h, FreeBlocks(h) \ {b})

\* With the free block after it, b is still loose, and nothing free follows it.
LEMMA MergeNextKeeps ==
    ASSUME NEW h, NEW b, Loose(h, b)
    PROVE  LET out == MergeNext(h, b)
           IN  /\ Loose(out, b) /\ ~ out.blocks[NextOf(out, b)].free
               /\ out.blocks[b].free = h.blocks[b].free
               /\ out.blocks[b].size >= h.blocks[b].size
               /\ h.blocks[NextOf(h, b)].free => out.blocks[b].size =
                      h.blocks[b].size + h.blocks[NextOf(h, b)].size + 2
               /\ Spared(h, out, b)
  <1> DEFINE out  == MergeNext(h, b)
             next == NextOf(h, b)
             e    == Extract(h, next)
             F    == FreeBlocks(h) \ {b}
  <1>1. /\ Shape(h) /\ Tiled(h) /\ b \in DOMAIN h.blocks \ {End} /\ Tagged(h, {b})
        /\ Lists(h, F)
    BY DEF Loose
  <1>2. /\ next \in DOMAIN h.blocks /\ b \in 0 .. End /\ b + 4 <= next /\ next \in 0 .. End
        /\ h.blocks[b].size \in 0 .. Area
    BY <1>1, Follows
  <1>3. CASE ~ h.blocks[next].free
    <2>1. out = h
      BY <1>3 DEF MergeNext
    <2>2. h.blocks[b].size >= h.blocks[b].size
      BY <1>2, AreaFacts
    <2> HIDE DEF out
    <2> QED  BY <1>3, <2>1, <2>2 DEF Spared, out
  <1>4. CASE h.blocks[next].free
    <2>1. out = Join(e, b) /\ next # End /\ next \in F
      <3>1. next # End
        BY <1>1, <1>4 DEF Tagged
      <3>2. next # b
        <4> HIDE DEF next
        <4> QED  BY <1>2, AreaFacts
      <3> QED  BY <1>2, <1>4, <3>1, <3>2 DEF MergeNext, FreeBlocks
    <2>2. Fit(h, F)
      BY <1>1, FreeFit DEF Tagged, Fit
    <2>3. Shape(e) /\ e.blocks = h.blocks /\ Lists(e, F \ {next})
      <3> HIDE DEF next, F
      <3> QED  BY <1>1, <2>1, <2>2, ExtractLists
    <2>4. Tiled(e) /\ NextOf(e, b) = next /\ NextOf(e, next) = NextOf(h, next)
          /\ \A c : NextOf(e, c) = NextOf(h, c)
      <3> HIDE DEF e
      <3> QED  BY <1>1, <2>3, SameBlocks
    <2> HIDE DEF e, out
    <2>5. /\ Shape(out) /\ Tiled(out)
          /\ out.matrix = e.matrix /\ out.sl = e.sl /\ out.fl = e.fl
          /\ DOMAIN out.blocks = DOMAIN h.blocks \ {next}
          /\ \A c \in DOMAIN out.blocks \ {b} : out.blocks[c] = h.blocks[c]
          /\ out.blocks[b].free = h.blocks[b].free
          /\ out.blocks[b].prevFree = h.blocks[b].prevFree
          /\ out.blocks[b].prev = h.blocks[b].prev
          /\ out.blocks[b].size = h.blocks[b].size + h.blocks[next].size + 2
          /\ NextOf(out, b) = NextOf(h, next)
          /\ \A c \in DOMAIN out.blocks \ {b, End} : NextOf(out, c) = NextOf(h, c)
      <3>1. b \in DOMAIN e.blocks \ {End} /\ NextOf(e, b) # End
        BY <1>1, <2>1, <2>3, <2>4
      <3>2. Joined(e, out, b)
        BY <2>1, <2>3, <2>4, <3>1, JoinKeeps
      <3> HIDE DEF next
      <3> QED  BY <2>3, <2>4, <3>2 DEF Joined
    <2>6. b \in DOMAIN out.blocks /\ b # next /\ next # 0
      <3> HIDE DEF next
      <3> QED  BY <1>1, <1>2, <2>5, AreaFacts
    <2>7. /\ NextOf(h, next) \in DOMAIN h.blocks /\ NextOf(h, next) # b /\ NextOf(h, next) # next
          /\ ~ h.blocks[NextOf(h, next)].free
      <3>1. NextOf(h, next) \in DOMAIN h.blocks /\ next + 4 <= NextOf(h, next)
        <4> HIDE DEF next
        <4> QED  BY <1>1, <1>2, <2>1, Follows
      <3>2. NextOf(h, next) \in Int
        BY <3>1, AreaFacts DEF Shape, Loose
      <3>3. NextOf(h, next) # b /\ NextOf(h, next) # next
        <4> DEFINE n2 == NextOf(h, next)
        <4>1. n2 \in Int /\ next + 4 <= n2
          BY <3>1, <3>2
        <4> HIDE DEF n2, next
        <4>2. n2 # b /\ n2 # next
          BY <1>2, <4>1, AreaFacts
        <4> QED  BY <4>2 DEF n2
      <3>4. next \in DOMAIN h.blocks \ ({End} \union {b})
        BY <1>2, <2>1, <2>6
      <3>5. NextOf(h, next) \notin {b} => ~ h.blocks[NextOf(h, next)].free
        <4> HIDE DEF next
        <4> QED  BY <1>1, <1>4, <3>4 DEF Tagged, next
      <3> QED  BY <3>1, <3>3, <3>5
    <2>8. ~ out.blocks[NextOf(out, b)].free
      <3> HIDE DEF next
      <3> QED  BY <2>5, <2>7
    <2>9. Tagged(out, {b})
      <3>1. ~ out.blocks[End].free /\ ~ out.blocks[0].prevFree
        <4>1. ~ h.blocks[End].free /\ ~ h.blocks[0].prevFree
          BY <1>1 DEF Tagged
        <4>2. {0, End} \subseteq DOMAIN out.blocks /\ b # End
          BY <1>1, <2>5 DEF Shape
        <4> HIDE DEF next
        <4> QED  BY <2>5, <4>1, <4>2
      <3>2. ASSUME NEW c \in DOMAIN out.blocks \ ({End} \union {b})
            PROVE  /\ out.blocks[NextOf(out, c)].prevFree = out.blocks[c].free
                   /\ out.blocks[c].free =>
                        /\ out.blocks[NextOf(out, c)].prev = c
                        /\ NextOf(out, c) \notin {b} => ~ out.blocks[NextOf(out, c)].free
        <4> DEFINE n == NextOf(h, c)
        <4>1. c \in DOMAIN h.blocks \ ({End} \union {b}) /\ NextOf(out, c) = n
          BY <2>5
        <4>2. /\ h.blocks[n].prevFree = h.blocks[c].free
              /\ h.blocks[c].free => h.blocks[n].prev = c /\ (n \notin {b} => ~ h.blocks[n].free)
          BY <1>1, <4>1 DEF Tagged
        <4>3. n \in DOMAIN out.blocks
          <5>1. n \in DOMAIN h.blocks /\ n # next
            BY <1>1, <4>1, Follows, OneBefore
          <5> QED  BY <2>5, <5>1
        <4>4. out.blocks[c] = h.blocks[c] /\ (n # b => out.blocks[n] = h.blocks[n])
          BY <2>5, <4>3
        <4> HIDE DEF n, next
        <4>5. CASE n = b
          BY <2>5, <4>1, <4>2, <4>4, <4>5
        <4>6. CASE n # b
          BY <4>1, <4>2, <4>4, <4>6
        <4> QED  BY <4>5, <4>6
      <3> QED  BY <3>1, <3>2 DEF Tagged
    <2>10. Lists(out, FreeBlocks(out) \ {b})
      <3>1. FreeBlocks(out) \ {b} = F \ {next}
        <4> HIDE DEF next
        <4> QED  BY <2>5 DEF FreeBlocks
      <3>2. \A c \in F \ {next} : out.blocks[c].size = e.blocks[c].size
        <4> HIDE DEF next
        <4> QED  BY <2>3, <2>5 DEF FreeBlocks
      <3>3. Lists(out, F \ {next})
        <4> HIDE DEF next, F
        <4> QED  BY <2>3, <2>5, <3>2, ListsSame
      <3> QED  BY <3>1, <3>3
    <2>11. Spared(h, out, b)
      <3>1. ASSUME NEW c \in DOMAIN h.blocks \ {b, End}, ~ h.blocks[c].free
            PROVE  c \in DOMAIN out.blocks /\ out.blocks[c] = h.blocks[c]
        <4>1. c # next
          BY <1>4, <3>1
        <4> QED  BY <2>5, <4>1
      <3> QED  BY <3>1 DEF Spared
    <2>12. out.blocks[b].size >= h.blocks[b].size
      <3>1. h.blocks[next].size \in 0 .. Area
        BY <1>1, <1>2, Follows
      <3> HIDE DEF next
      <3> QED  BY <1>2, <2>5, <3>1, AreaFacts
    <2>13. Loose(out, b)
      BY <1>1, <2>5, <2>6, <2>9, <2>10 DEF Loose
    <2> QED  BY <2>5, <2>8, <2>11, <2>12, <2>13 DEF out
  <1> QED  BY <1>3, <1>4

\* With the free block before it, b is part of a loose block between used ones.
LEMMA MergePrevKeeps ==
    ASSUME NEW h, NEW b, Loose(h, b), h.blocks[b].free, ~ h.blocks[NextOf(h, b)].free
    PROVE  LET merged == MergePrev(h, b)
               out    == merged.heap
               new    == merged.block
           IN  /\ Loose(out, new) /\ out.blocks[new].free /\ ~ out.blocks[NextOf(out, new)].free
               /\ \A c \in DOMAIN out.blocks \ {End} :
                      NextOf(out, c) = new => ~ out.blocks[c].free
               /\ Spared(h, out, b)
  <1> DEFINE merged == MergePrev(h, b)
             out    == merged.heap
             new    == merged.block
             prev   == h.blocks[b].prev
             e      == Extract(h, prev)
             F      == FreeBlocks(h) \ {b}
  <1>1. /\ Shape(h) /\ Tiled(h) /\ b \in DOMAIN h.blocks \ {End} /\ Tagged(h, {b})
        /\ Lists(h, F)
    BY DEF Loose
  <1>2. ASSUME NEW c \in DOMAIN h.blocks \ {End}, NextOf(h, c) = b
        PROVE  c # b /\ h.blocks[b].prevFree = h.blocks[c].free
               /\ (h.blocks[c].free => prev = c)
    <2>1. c + 4 <= b /\ c \in 0 .. End
      BY <1>1, <1>2, Follows
    <2>2. c # b
      BY <2>1, AreaFacts
    <2> QED  BY <1>1, <1>2, <2>2 DEF Tagged
  <1>3. CASE ~ h.blocks[b].prevFree
    <2>1. out = h /\ new = b
      BY <1>3 DEF MergePrev
    <2> HIDE DEF out, new
    <2> QED  BY <1>2, <1>3, <2>1 DEF Spared, out, new
  <1>4. CASE h.blocks[b].prevFree
    <2>1. out = Join(e, prev) /\ new = prev
      BY <1>4 DEF MergePrev
    <2>2. b # 0
      BY <1>1, <1>4 DEF Tagged
    <2>3. /\ prev \in F /\ prev \in DOMAIN h.blocks \ {End} /\ NextOf(h, prev) = b
          /\ prev # b /\ h.blocks[prev].free
      <3>1. PICK c \in DOMAIN h.blocks \ {End} : NextOf(h, c) = b
        BY <1>1, <2>2 DEF Tiled
      <3> QED  BY <1>2, <1>4, <3>1 DEF FreeBlocks
    <2> HIDE DEF out, new, prev
    <2>4. Fit(h, F)
      BY <1>1, FreeFit DEF Tagged, Fit
    <2>5. Shape(e) /\ e.blocks = h.blocks /\ Lists(e, F \ {prev})
      <3> HIDE DEF F
      <3> QED  BY <1>1, <2>3, <2>4, ExtractLists
    <2>6. Tiled(e) /\ \A c : NextOf(e, c) = NextOf(h, c)
      <3> HIDE DEF e
      <3> QED  BY <1>1, <2>5, SameBlocks
    <2> HIDE DEF e
    <2>7. /\ Shape(out) /\ Tiled(out)
          /\ out.matrix = e.matrix /\ out.sl = e.sl /\ out.fl = e.fl
          /\ DOMAIN out.blocks = DOMAIN h.blocks \ {b}
          /\ \A c \in DOMAIN out.blocks \ {prev} : out.blocks[c] = h.blocks[c]
          /\ out.blocks[prev].free = h.blocks[prev].free
          /\ out.blocks[prev].prevFree = h.blocks[prev].prevFree
          /\ out.blocks[prev].prev = h.blocks[prev].prev
          /\ NextOf(out, prev) = NextOf(h, b)
          /\ \A c \in DOMAIN out.blocks \ {prev, End} : NextOf(out, c) = NextOf(h, c)
      <3>1. prev \in DOMAIN e.blocks \ {End} /\ NextOf(e, prev) # End /\ NextOf(e, prev) = b
            /\ NextOf(e, b) = NextOf(h, b)
        BY <1>1, <2>3, <2>5, <2>6
      <3>2. Joined(e, out, prev)
        BY <2>1, <2>5, <2>6, <3>1, JoinKeeps
      <3> QED  BY <2>5, <2>6, <3>1, <3>2 DEF Joined
    <2>8. prev \in DOMAIN out.blocks
      BY <2>3, <2>7
    <2>9. /\ NextOf(h, b) \in DOMAIN h.blocks /\ NextOf(h, b) # b /\ NextOf(h, b) # prev
      <3> DEFINE n == NextOf(h, b)
      <3>1. n \in DOMAIN h.blocks /\ b + 4 <= n /\ b \in 0 .. End
        BY <1>1, Follows
      <3>2. prev + 4 <= b /\ prev \in 0 .. End
        BY <1>1, <2>3, Follows
      <3> HIDE DEF n
      <3>3. n # b /\ n # prev
        BY <3>1, <3>2, AreaFacts
      <3> QED  BY <3>1, <3>3 DEF n
    <2>10. ~ out.blocks[NextOf(out, prev)].free
      BY <2>7, <2>9
    <2>11. ASSUME NEW c \in DOMAIN out.blocks \ {End, prev}
           PROVE  /\ NextOf(out, c) \in DOMAIN out.blocks /\ NextOf(out, c) = NextOf(h, c)
                  /\ out.blocks[c] = h.blocks[c]
                  /\ h.blocks[NextOf(h, c)].prevFree = h.blocks[c].free
                  /\ h.blocks[c].free => /\ h.blocks[NextOf(h, c)].prev = c
                                         /\ ~ h.blocks[NextOf(h, c)].free
      <3> DEFINE n == NextOf(h, c)
      <3>1. c \in DOMAIN h.blocks \ ({End} \union {b}) /\ NextOf(out, c) = n
        BY <2>7
      <3>2. n \in DOMAIN h.blocks /\ n # b
        BY <1>1, <2>3, <3>1, Follows, OneBefore
      <3>3. /\ h.blocks[n].prevFree = h.blocks[c].free
            /\ h.blocks[c].free => h.blocks[n].prev = c /\ (n \notin {b} => ~ h.blocks[n].free)
        BY <1>1, <3>1 DEF Tagged
      <3> HIDE DEF n
      <3> QED  BY <2>7, <3>1, <3>2, <3>3 DEF n
    <2>12. Tagged(out, {prev})
      <3>1. ~ out.blocks[End].free /\ ~ out.blocks[0].prevFree
        <4>1. ~ h.blocks[End].free /\ ~ h.blocks[0].prevFree
          BY <1>1 DEF Tagged
        <4>2. {0, End} \subseteq DOMAIN out.blocks /\ prev # End
          BY <2>3, <2>7 DEF Shape
        <4> QED  BY <2>7, <4>1, <4>2
      <3>2. ASSUME NEW c \in DOMAIN out.blocks \ ({End} \union {prev})
            PROVE  /\ out.blocks[NextOf(out, c)].prevFree = out.blocks[c].free
                   /\ out.blocks[c].free =>
                        /\ out.blocks[NextOf(out, c)].prev = c
                        /\ NextOf(out, c) \notin {prev} => ~ out.blocks[NextOf(out, c)].free
        <4>1. CASE NextOf(out, c) = prev
          BY <2>7, <2>11, <4>1
        <4>2. CASE NextOf(out, c) # prev
          BY <2>7, <2>11, <4>2
        <4> QED  BY <4>1, <4>2
      <3> QED  BY <3>1, <3>2 DEF Tagged
    <2>13. Lists(out, FreeBlocks(out) \ {prev})
      <3>1. FreeBlocks(out) \ {prev} = F \ {prev}
        BY <2>7 DEF FreeBlocks
      <3>2. \A c \in F \ {prev} : out.blocks[c].size = e.blocks[c].size
        BY <2>5, <2>7 DEF FreeBlocks
      <3>3. Lists(out, F \ {prev})
        <4> HIDE DEF F
        <4> QED  BY <2>5, <2>7, <3>2, ListsSame
      <3> QED  BY <3>1, <3>3
    <2>14. Spared(h, out, b)
      <3>1. ASSUME NEW c \in DOMAIN h.blocks \ {b, End}, ~ h.blocks[c].free
            PROVE  c \in DOMAIN out.blocks /\ out.blocks[c] = h.blocks[c]
        BY <2>3, <2>7, <3>1
      <3> QED  BY <3>1 DEF Spared
    <2>15. ASSUME NEW c \in DOMAIN out.blocks \ {End}, NextOf(out, c) = prev
           PROVE  ~ out.blocks[c].free
      <3>1. c # prev
        BY <2>7, <2>9, <2>15
      <3> QED  BY <2>3, <2>11, <2>15, <3>1
    <2>16. Loose(out, prev)
      BY <2>3, <2>7, <2>8, <2>12, <2>13 DEF Loose
    <2> QED  BY <2>1, <2>3, <2>7, <2>10, <2>14, <2>15, <2>16 DEF out, new
  <1> QED  BY <1>3, <1>4

-----------------------------------------------------------------------------
(* The calls *)

\* The fields of one block are written.
LEMMA NewBlocks ==
    ASSUME NEW h, Shape(h), NEW B \in [DOMAIN h.blocks -> BlockRecord]
    PROVE  LET out == [h EXCEPT !.blocks = B]
           IN  /\ Shape(out) /\ out.blocks = B
               /\ out.matrix = h.matrix /\ out.sl = h.sl /\ out.fl = h.fl
  <1> DEFINE out == [h EXCEPT !.blocks = B]
  <1>1. h = [blocks |-> h.blocks, matrix |-> h.matrix, sl |-> h.sl, fl |-> h.fl]
    BY DEF Shape
  <1>2. /\ out.blocks = B /\ out.matrix = h.matrix /\ out.sl = h.sl /\ out.fl = h.fl
        /\ out = [blocks |-> out.blocks, matrix |-> out.matrix, sl |-> out.sl, fl |-> out.fl]
    BY <1>1
  <1> HIDE DEF out
  <1>3. DOMAIN B = DOMAIN h.blocks
    OBVIOUS
  <1>4. out.matrix \in [Classes -> Seq(Words)]
    BY <1>2 DEF Shape
  <1>5. {0, End} \subseteq DOMAIN out.blocks /\ DOMAIN out.blocks \subseteq Words
    BY <1>2, <1>3 DEF Shape
  <1>6. out.blocks \in [DOMAIN out.blocks -> BlockRecord]
    BY <1>2, <1>3
  <1>7. Shape(out)
    BY <1>2, <1>4, <1>5, <1>6 DEF Shape
  <1> QED  BY <1>2, <1>7 DEF out

\* The heap out after block n of h was told of the block before it.
Told(h, out, n, f, p) ==
    /\ Shape(out) /\ DOMAIN out.blocks = DOMAIN h.blocks
    /\ out.matrix = h.matrix /\ out.sl = h.sl /\ out.fl = h.fl
    /\ \A c \in DOMAIN h.blocks \ {n} : out.blocks[c] = h.blocks[c]
    /\ out.blocks[n].size = h.blocks[n].size
    /\ out.blocks[n].free = h.blocks[n].free
    /\ out.blocks[n].prevFree = f /\ out.blocks[n].prev = p

\* Two fields of one block are written.
LEMMA TellNext ==
    ASSUME NEW h, Shape(h), NEW n \in DOMAIN h.blocks, NEW f \in BOOLEAN, NEW p \in Words
    PROVE  Told(h, [h EXCEPT !.blocks[n].prevFree = f, !.blocks[n].prev = p], n, f, p)
  <1> DEFINE r   == [[h.blocks[n] EXCEPT !.prevFree = f] EXCEPT !.prev = p]
             B   == [h.blocks EXCEPT ![n] = r]
             out == [h EXCEPT !.blocks[n].prevFree = f, !.blocks[n].prev = p]
  <1>1. h = [blocks |-> h.blocks, matrix |-> h.matrix, sl |-> h.sl, fl |-> h.fl]
        /\ h.blocks \in [DOMAIN h.blocks -> BlockRecord]
    BY DEF Shape
  <1>2. out = [h EXCEPT !.blocks = B]
    BY <1>1
  <1>3. /\ r \in BlockRecord /\ r.size = h.blocks[n].size /\ r.free = h.blocks[n].free
        /\ r.prevFree = f /\ r.prev = p
    <2>1. h.blocks[n] \in BlockRecord
      BY <1>1
    <2> QED  BY <2>1 DEF BlockRecord
  <1> HIDE DEF r, out
  <1>4. /\ B \in [DOMAIN h.blocks -> BlockRecord] /\ B[n] = r
        /\ \A c \in DOMAIN h.blocks \ {n} : B[c] = h.blocks[c]
    BY <1>1, <1>3
  <1> HIDE DEF B
  <1>5. /\ Shape(out) /\ out.blocks = B
        /\ out.matrix = h.matrix /\ out.sl = h.sl /\ out.fl = h.fl
    BY <1>2, <1>4, NewBlocks
  <1>6. DOMAIN B = DOMAIN h.blocks
    BY <1>4
  <1> QED  BY <1>3, <1>4, <1>5, <1>6 DEF out, Told

\* A block is marked free.
LEMMA MarkFree ==
    ASSUME NEW h, Shape(h), NEW b \in DOMAIN h.blocks
    PROVE  LET out == [h EXCEPT !.blocks[b].free = TRUE]
           IN  /\ Shape(out) /\ DOMAIN out.blocks = DOMAIN h.blocks
               /\ out.matrix = h.matrix /\ out.sl = h.sl /\ out.fl = h.fl
               /\ \A c \in DOMAIN h.blocks \ {b} : out.blocks[c] = h.blocks[c]
               /\ out.blocks[b].size = h.blocks[b].size /\ out.blocks[b].free
               /\ out.blocks[b].prevFree = h.blocks[b].prevFree
               /\ out.blocks[b].prev = h.blocks[b].prev
  <1> DEFINE r   == [h.blocks[b] EXCEPT !.free = TRUE]
             B   == [h.blocks EXCEPT ![b] = r]
             out == [h EXCEPT !.blocks[b].free = TRUE]
  <1>1. h = [blocks |-> h.blocks, matrix |-> h.matrix, sl |-> h.sl, fl |-> h.fl]
        /\ h.blocks \in [DOMAIN h.blocks -> BlockRecord]
    BY DEF Shape
  <1>2. out = [h EXCEPT !.blocks = B]
    BY <1>1
  <1>3. /\ r \in BlockRecord /\ r.size = h.blocks[b].size /\ r.free = TRUE
        /\ r.prevFree = h.blocks[b].prevFree /\ r.prev = h.blocks[b].prev
    <2>1. h.blocks[b] \in BlockRecord /\ TRUE \in BOOLEAN
      BY <1>1
    <2> QED  BY <2>1 DEF BlockRecord
  <1> HIDE DEF r, out
  <1>4. /\ B \in [DOMAIN h.blocks -> BlockRecord] /\ B[b] = r
        /\ \A c \in DOMAIN h.blocks \ {b} : B[c] = h.blocks[c]
    BY <1>1, <1>3
  <1> HIDE DEF B
  <1>5. /\ Shape(out) /\ out.blocks = B
        /\ out.matrix = h.matrix /\ out.sl = h.sl /\ out.fl = h.fl
    BY <1>2, <1>4, NewBlocks
  <1>6. DOMAIN B = DOMAIN h.blocks
    BY <1>4
  <1> QED  BY <1>3, <1>4, <1>5, <1>6 DEF out

\* The heap out after block b of h was marked used.
Used(h, out, b) ==
    LET next == NextOf(h, b)
    IN  /\ Shape(out) /\ DOMAIN out.blocks = DOMAIN h.blocks
        /\ out.matrix = h.matrix /\ out.sl = h.sl /\ out.fl = h.fl
        /\ \A c \in DOMAIN h.blocks \ {b, next} : out.blocks[c] = h.blocks[c]
        /\ out.blocks[b].size = h.blocks[b].size /\ out.blocks[b].free = FALSE
        /\ out.blocks[b].prevFree = h.blocks[b].prevFree
        /\ out.blocks[b].prev = h.blocks[b].prev
        /\ out.blocks[next].size = h.blocks[next].size
        /\ out.blocks[next].free = h.blocks[next].free
        /\ out.blocks[next].prevFree = FALSE

\* A block is marked used at both its ends.
LEMMA MarkUsedKeeps ==
    ASSUME NEW h, Shape(h), NEW b \in DOMAIN h.blocks, NextOf(h, b) \in DOMAIN h.blocks,
           NextOf(h, b) # b
    PROVE  Used(h, MarkUsed(h, b), b)
  <1> DEFINE next == NextOf(h, b)
             q    == [h.blocks[next] EXCEPT !.prevFree = FALSE]
             r    == [h.blocks[b] EXCEPT !.free = FALSE]
             B    == [[h.blocks EXCEPT ![next] = q] EXCEPT ![b] = r]
             out  == MarkUsed(h, b)
  <1>1. h = [blocks |-> h.blocks, matrix |-> h.matrix, sl |-> h.sl, fl |-> h.fl]
        /\ h.blocks \in [DOMAIN h.blocks -> BlockRecord]
    BY DEF Shape
  <1>2. next \in DOMAIN h.blocks /\ next # b
        /\ out = [h EXCEPT !.blocks[next].prevFree = FALSE, !.blocks[b].free = FALSE]
    BY DEF MarkUsed
  <1> HIDE DEF next
  <1>3. out = [h EXCEPT !.blocks = B]
    BY <1>1, <1>2
  <1>4. /\ r \in BlockRecord /\ r.size = h.blocks[b].size /\ r.free = FALSE
        /\ r.prevFree = h.blocks[b].prevFree /\ r.prev = h.blocks[b].prev
        /\ q \in BlockRecord /\ q.size = h.blocks[next].size
        /\ q.free = h.blocks[next].free /\ q.prevFree = FALSE
    <2>1. h.blocks[b] \in BlockRecord /\ FALSE \in BOOLEAN /\ h.blocks[next] \in BlockRecord
      BY <1>1, <1>2
    <2> QED  BY <2>1 DEF BlockRecord
  <1> HIDE DEF q, r, out
  <1>5. /\ B \in [DOMAIN h.blocks -> BlockRecord] /\ B[b] = r /\ B[next] = q
        /\ \A c \in DOMAIN h.blocks \ {b, next} : B[c] = h.blocks[c]
    BY <1>1, <1>2, <1>4
  <1> HIDE DEF B
  <1>6. /\ Shape(out) /\ out.blocks = B
        /\ out.matrix = h.matrix /\ out.sl = h.sl /\ out.fl = h.fl
    BY <1>3, <1>5, NewBlocks
  <1>7. DOMAIN B = DOMAIN h.blocks
    BY <1>5
  <1> QED  BY <1>4, <1>5, <1>6, <1>7 DEF out, next, Used

\* free_ex: a used block, whose tags may still be wrong when the pool is made.
LEMMA FreeWhole ==
    ASSUME NEW h, Shape(h), Tiled(h), NEW b \in DOMAIN h.blocks \ {End}, ~ h.blocks[b].free,
           Tagged(h, {b}), Lists(h, FreeBlocks(h))
    PROVE  Whole(Free(h, b)) /\ Spared(h, Free(h, b), b)
  <1> DEFINE marked == [h EXCEPT !.blocks[b].free = TRUE]
             next1  == MergeNext(marked, b)
             merged == MergePrev(next1, b)
             joined == merged.heap
             new    == merged.block
             in     == Insert(joined, new)
             next   == NextOf(in, new)
             out    == [in EXCEPT !.blocks[next].prevFree = TRUE, !.blocks[next].prev = new]
  <1>1. Free(h, b) = out
    BY DEF Free
  <1>2. /\ Shape(marked) /\ DOMAIN marked.blocks = DOMAIN h.blocks
        /\ marked.matrix = h.matrix /\ marked.sl = h.sl /\ marked.fl = h.fl
        /\ \A c \in DOMAIN h.blocks \ {b} : marked.blocks[c] = h.blocks[c]
        /\ marked.blocks[b].size = h.blocks[b].size /\ marked.blocks[b].free
        /\ marked.blocks[b].prevFree = h.blocks[b].prevFree
        /\ marked.blocks[b].prev = h.blocks[b].prev
    BY MarkFree
  <1> HIDE DEF marked
  <1>3. Loose(marked, b)
    <2>1. \A c \in DOMAIN h.blocks : marked.blocks[c].size = h.blocks[c].size
                                     /\ NextOf(marked, c) = NextOf(h, c)
      BY <1>2 DEF NextOf
    <2>2. Tiled(marked)
      BY <1>2, <2>1 DEF Tiled
    <2>3. Tagged(marked, {b})
      <3>1. ~ marked.blocks[End].free /\ ~ marked.blocks[0].prevFree
        BY <1>2 DEF Tagged, Shape
      <3>2. ASSUME NEW c \in DOMAIN marked.blocks \ ({End} \union {b})
            PROVE  /\ marked.blocks[NextOf(marked, c)].prevFree = marked.blocks[c].free
                   /\ marked.blocks[c].free =>
                        /\ marked.blocks[NextOf(marked, c)].prev = c
                        /\ NextOf(marked, c) \notin {b} =>
                               ~ marked.blocks[NextOf(marked, c)].free
        <4> DEFINE n == NextOf(h, c)
        <4>1. /\ c \in DOMAIN h.blocks \ ({End} \union {b}) /\ NextOf(marked, c) = n
              /\ n \in DOMAIN h.blocks /\ marked.blocks[c] = h.blocks[c]
          BY <1>2, <2>1, Follows
        <4>2. /\ h.blocks[n].prevFree = h.blocks[c].free
              /\ h.blocks[c].free => h.blocks[n].prev = c /\ (n \notin {b} => ~ h.blocks[n].free)
          BY <4>1 DEF Tagged
        <4> HIDE DEF n
        <4>3. CASE n = b
          BY <1>2, <4>1, <4>2, <4>3
        <4>4. CASE n # b
          <5>1. marked.blocks[n] = h.blocks[n]
            BY <1>2, <4>1, <4>4
          <5> QED  BY <4>1, <4>2, <5>1
        <4> QED  BY <4>3, <4>4
      <3> QED  BY <3>1, <3>2 DEF Tagged
    <2>4. Lists(marked, FreeBlocks(marked) \ {b})
      <3>1. FreeBlocks(marked) \ {b} = FreeBlocks(h)
        BY <1>2 DEF FreeBlocks
      <3>2. \A c \in FreeBlocks(h) : marked.blocks[c].size = h.blocks[c].size
        BY <2>1 DEF FreeBlocks
      <3>3. Lists(marked, FreeBlocks(h))
        BY <1>2, <3>2, ListsSame
      <3> QED  BY <3>1, <3>3
    <2> QED  BY <1>2, <2>2, <2>3, <2>4 DEF Loose
  <1>4. /\ Loose(next1, b) /\ ~ next1.blocks[NextOf(next1, b)].free
        /\ next1.blocks[b].free = marked.blocks[b].free /\ Spared(marked, next1, b)
    BY <1>3, MergeNextKeeps
  <1> HIDE DEF next1
  <1>5. /\ Loose(joined, new) /\ joined.blocks[new].free
        /\ ~ joined.blocks[NextOf(joined, new)].free
        /\ \A c \in DOMAIN joined.blocks \ {End} :
               NextOf(joined, c) = new => ~ joined.blocks[c].free
        /\ Spared(next1, joined, b)
    BY <1>2, <1>4, MergePrevKeeps
  <1> HIDE DEF merged
  <1>6. Shape(in) /\ in.blocks = joined.blocks /\ Lists(in, FreeBlocks(joined))
    <2> DEFINE F == FreeBlocks(joined) \ {new}
    <2>1. F \union {new} = FreeBlocks(joined) /\ new \notin F
      BY <1>5 DEF FreeBlocks, Loose
    <2>2. Fit(joined, FreeBlocks(joined))
      BY <1>5, FreeFit DEF Loose, Tagged
    <2> HIDE DEF joined, new
    <2>3. Shape(joined) /\ Lists(joined, F)
      BY <1>5 DEF Loose
    <2> HIDE DEF F
    <2> QED  BY <2>1, <2>2, <2>3, InsertLists
  <1> HIDE DEF joined, new, in
  <1>7. /\ Tiled(in) /\ Tagged(in, {new}) /\ new \in DOMAIN in.blocks \ {End}
        /\ Lists(in, FreeBlocks(in))
        /\ in.blocks[new].free /\ ~ in.blocks[next].free
        /\ \A c \in DOMAIN in.blocks \ {End} : NextOf(in, c) = new => ~ in.blocks[c].free
    <2>1. \A c : NextOf(in, c) = NextOf(joined, c)
      BY <1>6, SameBlocks
    <2> QED  BY <1>5, <1>6, <2>1, SameBlocks DEF Loose
  <1>8. next \in DOMAIN in.blocks /\ next # new /\ new \in Words
    <2>1. next \in DOMAIN in.blocks /\ new + 4 <= next /\ new \in 0 .. End
      BY <1>6, <1>7, Follows
    <2> HIDE DEF next
    <2> QED  BY <2>1, AreaFacts
  <1> HIDE DEF next
  <1>9. /\ Shape(out) /\ DOMAIN out.blocks = DOMAIN in.blocks
        /\ out.matrix = in.matrix /\ out.sl = in.sl /\ out.fl = in.fl
        /\ \A c \in DOMAIN in.blocks \ {next} : out.blocks[c] = in.blocks[c]
        /\ out.blocks[next].size = in.blocks[next].size
        /\ out.blocks[next].free = in.blocks[next].free
        /\ out.blocks[next].prevFree = TRUE /\ out.blocks[next].prev = new
    <2>1. Told(in, out, next, TRUE, new)
      BY <1>6, <1>8, TellNext
    <2> HIDE DEF out
    <2> QED  BY <2>1 DEF Told
  <1> HIDE DEF out
  <1>10. \A c \in DOMAIN in.blocks : out.blocks[c].size = in.blocks[c].size
                                     /\ out.blocks[c].free = in.blocks[c].free
    BY <1>9
  <1>11. Lists(out, FreeBlocks(out))
    <2>1. FreeBlocks(out) = FreeBlocks(in)
      BY <1>9, <1>10 DEF FreeBlocks
    <2>2. \A c \in FreeBlocks(in) : out.blocks[c].size = in.blocks[c].size
      BY <1>10 DEF FreeBlocks
    <2> QED  BY <1>7, <1>9, <2>1, <2>2, ListsSame
  <1>12. Whole(out)
    <2>1. out.blocks[new] = in.blocks[new]
      BY <1>7, <1>8, <1>9
    <2>2. out.blocks[new].free = TRUE
      BY <1>7, <2>1, <1>6 DEF Shape, BlockRecord
    <2>3. /\ ~ in.blocks[NextOf(in, new)].free /\ ~ out.blocks[NextOf(in, new)].free
          /\ \A c \in DOMAIN in.blocks \ {new, NextOf(in, new)} : out.blocks[c] = in.blocks[c]
          /\ out.blocks[NextOf(in, new)].prevFree = out.blocks[new].free
          /\ out.blocks[NextOf(in, new)].prev = new
          /\ out.blocks[new].prevFree = in.blocks[new].prevFree
          /\ out.blocks[new].prev = in.blocks[new].prev
      BY <1>7, <1>9, <2>1, <2>2 DEF next
    <2>4. \A c \in DOMAIN in.blocks : out.blocks[c].size = in.blocks[c].size
      BY <1>10
    <2> QED  BY <1>6, <1>7, <1>9, <1>11, <2>3, <2>4, TagsWritten
  <1>13. Spared(h, out, b)
    <2> SUFFICES ASSUME NEW c \in DOMAIN h.blocks \ {b, End}, ~ h.blocks[c].free
                 PROVE  /\ c \in DOMAIN out.blocks /\ ~ out.blocks[c].free
                        /\ out.blocks[c].size = h.blocks[c].size
      BY DEF Spared
    <2>1. /\ c \in DOMAIN marked.blocks \ {b, End} /\ ~ marked.blocks[c].free
          /\ marked.blocks[c].size = h.blocks[c].size
      BY <1>2
    <2>2. /\ c \in DOMAIN next1.blocks \ {b, End} /\ ~ next1.blocks[c].free
          /\ next1.blocks[c].size = h.blocks[c].size
      BY <1>4, <2>1 DEF Spared
    <2>3. /\ c \in DOMAIN joined.blocks /\ ~ joined.blocks[c].free
          /\ joined.blocks[c].size = h.blocks[c].size
      BY <1>5, <2>2 DEF Spared
    <2> QED  BY <1>6, <1>9, <1>10, <2>3
  <1> QED  BY <1>1, <1>12, <1>13

\* What malloc_ex and realloc_ex do with the block they have found: the rest of
\* it becomes a block again if it is large enough.
LEMMA TakeWhole ==
    ASSUME NEW h, Whole(h), NEW b \in FreeBlocks(h), NEW size \in Nat, size >= 2,
           h.blocks[b].size >= size
    PROVE  LET out == Take(h, b, size)
           IN  /\ Whole(out) /\ Spared(h, out, b)
               /\ b \in DOMAIN out.blocks \ {End} /\ ~ out.blocks[b].free
               /\ out.blocks[b].size >= size
  <1> DEFINE out  == Take(h, b, size)
             e    == Extract(h, b)
             next == NextOf(h, b)
             used == MarkUsed(e, b)
  <1>1. /\ Shape(h) /\ Tiled(h) /\ Tagged(h, {}) /\ Lists(h, FreeBlocks(h))
        /\ b \in DOMAIN h.blocks \ {End} /\ h.blocks[b].free
    BY DEF Whole, Tagged, FreeBlocks
  <1>2. Fit(h, FreeBlocks(h))
    BY <1>1, FreeFit DEF Tagged
  <1>3. Shape(e) /\ e.blocks = h.blocks /\ Lists(e, FreeBlocks(h) \ {b})
    BY <1>1, <1>2, ExtractLists
  <1>4. out = IF LargeEnough(h.blocks[b].size - size) THEN Split(e, b, size) ELSE used
    BY DEF Take
  <1> HIDE DEF e, out
  <1>5. /\ Tiled(e) /\ Tagged(e, {b}) /\ NextOf(e, b) = next /\ FreeBlocks(e) = FreeBlocks(h)
        /\ \A c : NextOf(e, c) = NextOf(h, c)
    BY <1>1, <1>3, SameBlocks, TaggedLess
  <1>6. ~ e.blocks[next].free
    BY <1>1, <1>3 DEF Tagged
  <1>7. next \in DOMAIN h.blocks /\ next # b
    <2>1. next \in DOMAIN h.blocks /\ b + 4 <= next /\ b \in 0 .. End
      BY <1>1, Follows
    <2> HIDE DEF next
    <2> QED  BY <2>1, AreaFacts
  <1>8. CASE LargeEnough(h.blocks[b].size - size)
    <2>1. out = Split(e, b, size)
      BY <1>4, <1>8
    <2>2. /\ Whole(out) /\ Spared(e, out, b)
          /\ b \in DOMAIN out.blocks /\ ~ out.blocks[b].free /\ out.blocks[b].size = size
      BY <1>1, <1>3, <1>5, <1>6, <1>8, <2>1, SplitWhole
    <2>3. Spared(h, out, b)
      BY <1>3, <2>2 DEF Spared
    <2> QED  BY <1>1, <2>2, <2>3 DEF out
  <1>9. CASE ~ LargeEnough(h.blocks[b].size - size)
    <2>1. out = used
      BY <1>4, <1>9
    <2>2. b \in DOMAIN e.blocks /\ NextOf(e, b) \in DOMAIN e.blocks /\ NextOf(e, b) # b
      BY <1>1, <1>3, <1>5, <1>7
    <2>3. /\ Shape(used) /\ DOMAIN used.blocks = DOMAIN h.blocks
          /\ used.matrix = e.matrix /\ used.sl = e.sl /\ used.fl = e.fl
          /\ \A c \in DOMAIN h.blocks \ {b, next} : used.blocks[c] = h.blocks[c]
          /\ used.blocks[b].size = h.blocks[b].size /\ used.blocks[b].free = FALSE
          /\ used.blocks[b].prevFree = h.blocks[b].prevFree
          /\ used.blocks[b].prev = h.blocks[b].prev
          /\ used.blocks[next].size = h.blocks[next].size
          /\ used.blocks[next].free = h.blocks[next].free
          /\ used.blocks[next].prevFree = FALSE
      <3>1. Used(e, used, b)
        BY <1>3, <2>2, MarkUsedKeeps
      <3> HIDE DEF next, used
      <3> QED  BY <1>3, <1>5, <3>1 DEF Used
    <2> HIDE DEF used
    <2>4. \A c \in DOMAIN h.blocks : used.blocks[c].size = h.blocks[c].size
      BY <2>3
    <2>5. Lists(used, FreeBlocks(used))
      <3>1. FreeBlocks(used) = FreeBlocks(h) \ {b}
        BY <1>3, <1>6, <2>3 DEF FreeBlocks
      <3>2. \A c \in FreeBlocks(h) \ {b} : used.blocks[c].size = e.blocks[c].size
        BY <1>3, <2>4 DEF FreeBlocks
      <3> QED  BY <1>3, <2>3, <3>1, <3>2, ListsSame
    <2>6. Whole(used)
      <3>1. /\ ~ e.blocks[NextOf(e, b)].free /\ ~ used.blocks[NextOf(e, b)].free
            /\ DOMAIN used.blocks = DOMAIN e.blocks /\ b \in DOMAIN e.blocks \ {End}
            /\ \A c \in DOMAIN e.blocks \ {b, NextOf(e, b)} : used.blocks[c] = e.blocks[c]
            /\ \A c \in DOMAIN e.blocks : used.blocks[c].size = e.blocks[c].size
            /\ used.blocks[NextOf(e, b)].prevFree = used.blocks[b].free
            /\ ~ used.blocks[b].free
            /\ used.blocks[b].prevFree = e.blocks[b].prevFree
            /\ used.blocks[b].prev = e.blocks[b].prev
        BY <1>1, <1>3, <1>5, <1>6, <2>3, <2>4
      <3> QED  BY <1>3, <1>5, <2>3, <2>5, <3>1, TagsWritten
    <2>7. Spared(h, used, b)
      BY <1>3, <1>6, <2>3, <2>4 DEF Spared
    <2> QED  BY <1>1, <2>1, <2>3, <2>6, <2>7 DEF out
  <1> QED  BY <1>8, <1>9

\* realloc_ex to no more than the block has.
LEMMA ShrinkWhole ==
    ASSUME NEW h, Whole(h), NEW b \in DOMAIN h.blocks \ {End}, ~ h.blocks[b].free,
           NEW size \in Nat, size >= 2, h.blocks[b].size >= size
    PROVE  LET out == Shrink(h, b, size)
           IN  /\ Whole(out) /\ Spared(h, out, b)
               /\ b \in DOMAIN out.blocks \ {End} /\ ~ out.blocks[b].free
               /\ out.blocks[b].size >= size
  <1> DEFINE out == Shrink(h, b, size)
             all == MergeNext(h, b)
  <1>1. Loose(h, b)
    <2>1. FreeBlocks(h) \ {b} = FreeBlocks(h)
      BY DEF FreeBlocks
    <2> QED  BY <2>1, TaggedLess DEF Loose, Whole
  <1>2. /\ Loose(all, b) /\ ~ all.blocks[NextOf(all, b)].free
        /\ all.blocks[b].free = h.blocks[b].free /\ Spared(h, all, b)
    BY <1>1, MergeNextKeeps
  <1>3. out = IF LargeEnough(all.blocks[b].size - size) THEN Split(all, b, size) ELSE h
    BY DEF Shrink
  <1> HIDE DEF all, out
  <1>4. CASE LargeEnough(all.blocks[b].size - size)
    <2>1. /\ Whole(out) /\ Spared(all, out, b)
          /\ b \in DOMAIN out.blocks /\ ~ out.blocks[b].free /\ out.blocks[b].size = size
      BY <1>2, <1>3, <1>4, SplitWhole DEF Loose
    <2>2. Spared(h, out, b)
      BY <1>2, <2>1 DEF Spared
    <2> QED  BY <2>1, <2>2 DEF out
  <1>5. CASE ~ LargeEnough(all.blocks[b].size - size)
    <2>1. out = h
      BY <1>3, <1>5
    <2> QED  BY <2>1 DEF Spared, out
  <1> QED  BY <1>4, <1>5

\* realloc_ex into the free block after it.
LEMMA GrowWhole ==
    ASSUME NEW h, Whole(h), NEW b \in DOMAIN h.blocks \ {End}, ~ h.blocks[b].free,
           NEW size \in Nat, size >= 2, CanGrow(h, b, size)
    PROVE  LET out == Grow(h, b, size)
           IN  /\ Whole(out) /\ Spared(h, out, b)
               /\ b \in DOMAIN out.blocks \ {End} /\ ~ out.blocks[b].free
               /\ out.blocks[b].size >= size
  <1> DEFINE out  == Grow(h, b, size)
             all  == MergeNext(h, b)
             next == NextOf(all, b)
             told == [all EXCEPT !.blocks[next].prevFree = FALSE, !.blocks[next].prev = b]
             old  == h.blocks[b].size
             gain == h.blocks[NextOf(h, b)].size
  <1>1. Loose(h, b)
    <2>1. FreeBlocks(h) \ {b} = FreeBlocks(h)
      BY DEF FreeBlocks
    <2> QED  BY <2>1, TaggedLess DEF Loose, Whole
  <1>2. h.blocks[NextOf(h, b)].free /\ size <= old + gain
    BY DEF CanGrow
  <1>3. /\ Loose(all, b) /\ ~ all.blocks[NextOf(all, b)].free
        /\ all.blocks[b].free = h.blocks[b].free /\ Spared(h, all, b)
        /\ all.blocks[b].size = old + gain + 2
    BY <1>1, <1>2, MergeNextKeeps
  <1>4. out = IF LargeEnough(all.blocks[b].size - size) THEN Split(all, b, size) ELSE told
    BY <1>2 DEF Grow, MergeNext
  <1> HIDE DEF all, out
  <1>5. all.blocks[b].size >= size
    <2>1. old \in 0 .. Area /\ gain \in 0 .. Area
      BY <1>1, Follows DEF Loose
    <2> HIDE DEF old, gain
    <2> QED  BY <1>2, <1>3, <2>1, AreaFacts
  <1> HIDE DEF old, gain
  <1>6. CASE LargeEnough(all.blocks[b].size - size)
    <2>1. /\ Whole(out) /\ Spared(all, out, b)
          /\ b \in DOMAIN out.blocks /\ ~ out.blocks[b].free /\ out.blocks[b].size = size
      BY <1>3, <1>4, <1>6, SplitWhole DEF Loose
    <2>2. Spared(h, out, b)
      BY <1>3, <2>1 DEF Spared
    <2> QED  BY <2>1, <2>2 DEF out
  <1>7. CASE ~ LargeEnough(all.blocks[b].size - size)
    <2>1. /\ Shape(all) /\ Tiled(all) /\ b \in DOMAIN all.blocks \ {End} /\ Tagged(all, {b})
          /\ Lists(all, FreeBlocks(all) \ {b}) /\ all.blocks[b].free = FALSE
      <3>1. all.blocks[b].free \in BOOLEAN
        BY <1>3 DEF Loose, Shape, BlockRecord
      <3> QED  BY <1>3, <3>1 DEF Loose
    <2>2. next \in DOMAIN all.blocks /\ next # b /\ b \in Words
      <3>1. next \in DOMAIN all.blocks /\ b + 4 <= next /\ b \in 0 .. End
        BY <2>1, Follows
      <3> HIDE DEF next
      <3> QED  BY <3>1, AreaFacts
    <2> HIDE DEF next
    <2>3. /\ Shape(told) /\ DOMAIN told.blocks = DOMAIN all.blocks
          /\ told.matrix = all.matrix /\ told.sl = all.sl /\ told.fl = all.fl
          /\ \A c \in DOMAIN all.blocks \ {next} : told.blocks[c] = all.blocks[c]
          /\ told.blocks[next].size = all.blocks[next].size
          /\ told.blocks[next].free = all.blocks[next].free
          /\ told.blocks[next].prevFree = FALSE /\ told.blocks[next].prev = b
      <3>1. Told(all, told, next, FALSE, b)
        BY <2>1, <2>2, TellNext
      <3> HIDE DEF told
      <3> QED  BY <3>1 DEF Told
    <2> HIDE DEF told
    <2>4. \A c \in DOMAIN all.blocks : /\ told.blocks[c].size = all.blocks[c].size
                                       /\ told.blocks[c].free = all.blocks[c].free
      BY <2>3
    <2>5. Lists(told, FreeBlocks(told))
      <3>1. FreeBlocks(told) = FreeBlocks(all) \ {b}
        BY <2>1, <2>3, <2>4 DEF FreeBlocks
      <3>2. \A c \in FreeBlocks(all) \ {b} : told.blocks[c].size = all.blocks[c].size
        BY <2>4 DEF FreeBlocks
      <3>3. Lists(told, FreeBlocks(all) \ {b})
        BY <2>1, <2>3, <3>2, ListsSame
      <3> QED  BY <3>1, <3>3
    <2>6. Whole(told)
      <3>1. told.blocks[b] = all.blocks[b]
        BY <2>1, <2>2, <2>3
      <3>2. /\ ~ all.blocks[NextOf(all, b)].free /\ ~ told.blocks[NextOf(all, b)].free
            /\ \A c \in DOMAIN all.blocks \ {b, NextOf(all, b)} : told.blocks[c] = all.blocks[c]
            /\ \A c \in DOMAIN all.blocks : told.blocks[c].size = all.blocks[c].size
            /\ told.blocks[NextOf(all, b)].prevFree = told.blocks[b].free
            /\ ~ told.blocks[b].free
            /\ told.blocks[b].prevFree = all.blocks[b].prevFree
            /\ told.blocks[b].prev = all.blocks[b].prev
        BY <1>3, <2>1, <2>3, <2>4, <3>1 DEF next
      <3> QED  BY <2>1, <2>3, <2>5, <3>2, TagsWritten
    <2>7. Spared(h, told, b)
      BY <1>3, <2>3, <2>4 DEF Spared
    <2>8. out = told
      BY <1>4, <1>7
    <2> QED  BY <1>5, <2>1, <2>3, <2>4, <2>6, <2>7, <2>8 DEF out
  <1> QED  BY <1>6, <1>7

\* The block that a search finds is large enough; one that is larger by what the
\* search rounds up would be found.
LEMMA FittingServes ==
    ASSUME NEW h, Whole(h), NEW n \in Requests
    PROVE  LET r == Rounded(n)
               q == SearchSize(r)
           IN  /\ r \in Nat /\ q \in Nat /\ 2 <= r /\ n <= r /\ r <= q
               /\ \A b \in Fitting(h, n) : b \in FreeBlocks(h) /\ h.blocks[b].size >= q
               /\ Fitting(h, n) = {} =>
                      \A b \in FreeBlocks(h) : h.blocks[b].size < r + r \div MaxSli + 1
  <1> DEFINE r == Rounded(n)
             q == SearchSize(r)
             F == FreeBlocks(h)
  <1>1. /\ r \in Nat /\ n <= r /\ 2 <= r /\ q \in Sizes /\ r <= q /\ q \in Nat
        /\ q < r + r \div MaxSli + 1 /\ Serves(q)
    BY RequestServed, Powers DEF MinSize, Sizes
  <1>2. Shape(h) /\ Lists(h, F) /\ Fit(h, F)
    BY FreeFit DEF Whole, Tagged
  <1>3. Fitting(h, n) = Suitable(h, MAPPING_INSERT(q))
    BY DEF Fitting
  <1>4. r \div MaxSli \in Nat
    <2> HIDE DEF r
    <2> QED  BY <1>1, SmallPower, Division
  <1> HIDE DEF r, q, F
  <1>5. /\ \A b \in Fitting(h, n) : b \in F /\ AtLeast(ClassOf(h, b), MAPPING_INSERT(q))
        /\ Fitting(h, n) = {} => \A b \in F : ~ AtLeast(ClassOf(h, b), MAPPING_INSERT(q))
    BY <1>1, <1>2, <1>3, SuitableFound
  <1>6. ASSUME NEW b \in Fitting(h, n) PROVE b \in F /\ h.blocks[b].size >= q
    <2>1. b \in F /\ AtLeast(ClassOf(h, b), MAPPING_INSERT(q))
      BY <1>5
    <2>2. h.blocks[b].size \in Sizes
      BY <1>2, <2>1, FitClass
    <2> QED  BY <1>1, <2>1, <2>2 DEF Serves, ClassOf
  <1>7. ASSUME Fitting(h, n) = {}, NEW b \in F
        PROVE  h.blocks[b].size < r + r \div MaxSli + 1
    <2> DEFINE s == h.blocks[b].size
    <2>1. s \in Sizes
      BY <1>2, FitClass
    <2>2. ~ (q <= s)
      BY <1>1, <1>5, <1>7, <2>1, LargerClass DEF ClassOf
    <2>3. s \in Nat
      BY <2>1, Powers DEF Sizes
    <2> HIDE DEF s
    <2>4. s < r + r \div MaxSli + 1
      BY <1>1, <1>4, <2>2, <2>3
    <2> QED  BY <2>4 DEF s
  <1> QED  BY <1>1, <1>6, <1>7 DEF r, q, F

\* init_memory_pool: one block, and the sentinel after it.
LEMMA EmptyReady ==
    /\ Shape(Empty) /\ Tiled(Empty) /\ 0 \in DOMAIN Empty.blocks \ {End}
    /\ ~ Empty.blocks[0].free /\ Tagged(Empty, {0}) /\ Lists(Empty, FreeBlocks(Empty))
  <1> DEFINE h == Empty
             B == [b \in {0, End} |-> [size |-> IF b = 0 THEN Area ELSE 0, free |-> FALSE,
                                       prevFree |-> b = End, prev |-> 0]]
  <1>1. /\ h = [blocks |-> h.blocks, matrix |-> h.matrix, sl |-> h.sl, fl |-> h.fl]
        /\ h.blocks = B /\ h.matrix = [class \in Classes |-> <<>>] /\ h.sl = {} /\ h.fl = {}
    <2> HIDE DEF B
    <2> QED  BY DEF Empty, B
  <1>2. End # 0 /\ 0 \in Words /\ End \in Words /\ 0 \in 0 .. Area /\ Area \in 0 .. Area
        /\ Area >= MinSize /\ 0 + Overhead + Area = End
    BY AreaFacts
  <1>3. /\ DOMAIN B = {0, End}
        /\ B[0] = [size |-> Area, free |-> FALSE, prevFree |-> FALSE, prev |-> 0]
        /\ B[End] = [size |-> 0, free |-> FALSE, prevFree |-> TRUE, prev |-> 0]
    BY <1>2
  <1> HIDE DEF h, B
  <1>4. /\ B[0] \in BlockRecord /\ B[0].size = Area /\ B[0].free = FALSE /\ B[0].prevFree = FALSE
        /\ B[End] \in BlockRecord /\ B[End].free = FALSE
    <2>1. TRUE \in BOOLEAN /\ FALSE \in BOOLEAN
      OBVIOUS
    <2> QED  BY <1>2, <1>3, <2>1 DEF BlockRecord
  <1>5. Shape(h)
    <2>1. h.matrix \in [Classes -> Seq(Words)]
      BY <1>1
    <2>2. B \in [DOMAIN B -> BlockRecord]
      <3>1. B = [b \in DOMAIN B |-> B[b]]
        BY <1>3 DEF B
      <3>2. \A b \in DOMAIN B : B[b] \in BlockRecord
        BY <1>3, <1>4
      <3> QED  BY <3>1, <3>2
    <2> QED  BY <1>1, <1>2, <1>3, <2>1, <2>2 DEF Shape
  <1>6. NextOf(h, 0) = End
    BY <1>1, <1>2, <1>4 DEF NextOf
  <1>7. Tiled(h)
    <2>1. \A c \in DOMAIN h.blocks : c <= 0 \/ c >= End
      BY <1>1, <1>3, AreaFacts
    <2> QED  BY <1>1, <1>2, <1>3, <1>4, <1>6, <2>1 DEF Tiled
  <1>8. Tagged(h, {0})
    BY <1>1, <1>3, <1>4 DEF Tagged
  <1>9. FreeBlocks(h) = {}
    BY <1>1, <1>3, <1>4 DEF FreeBlocks
  <1>10. Lists(h, {})
    <2>1. IsInjective(<<>>) /\ ToSet(<<>>) = {}
      BY DEF IsInjective, ToSet
    <2> QED  BY <1>1, <2>1 DEF Lists
  <1> QED  BY <1>1, <1>2, <1>3, <1>4, <1>5, <1>7, <1>8, <1>9, <1>10 DEF h

\* What is whole is sound.
LEMMA WholeSound ==
    ASSUME NEW h, Whole(h)
    PROVE  /\ BlocksTile(h) /\ ListsMatch(h)
           /\ h.blocks \in [DOMAIN h.blocks -> BlockRecord]
           /\ {0, End} \subseteq DOMAIN h.blocks /\ DOMAIN h.blocks \subseteq Words
           /\ DOMAIN h.matrix = Classes /\ h.sl \subseteq Classes /\ h.fl \subseteq Levels
  <1>1. Shape(h) /\ Tiled(h) /\ Tagged(h, {}) /\ Lists(h, FreeBlocks(h))
    BY DEF Whole
  <1>2. BlocksTile(h)
    BY <1>1 DEF BlocksTile, Tiled, Tagged
  <1>3. ListsMatch(h)
    <2>1. \A class : {b \in FreeBlocks(h) : ClassOf(h, b) = class} =
              {b \in DOMAIN h.blocks : /\ h.blocks[b].free
                                       /\ MAPPING_INSERT(h.blocks[b].size) = class}
      BY DEF FreeBlocks, ClassOf
    <2> QED  BY <1>1, <2>1 DEF ListsMatch, Lists
  <1>4. h.sl \subseteq Classes /\ h.fl \subseteq Levels
    BY <1>1 DEF Lists, Levels
  <1> QED  BY <1>1, <1>2, <1>3, <1>4 DEF Shape

-----------------------------------------------------------------------------
(* The heap and its owners *)

\* Region r is in a used block of its own.
Holds(h, r) ==
    LET b == r.at - Overhead
    IN  b \in DOMAIN h.blocks \ {End} /\ ~ h.blocks[b].free /\ r.size <= h.blocks[b].size

Served ==
    \A o \in Owners : held[o] # None =>
        /\ Holds(tlsf, held[o])
        /\ \A p \in Owners \ {o} : held[p] # None => held[p].at # held[o].at

\* Every owner reads what it wrote.
Intact == \A o \in Owners : \A i \in 1 .. held[o].size : memory[held[o].at + i - 1] = o

\* What every step keeps.
IInv == TypeOK /\ Whole(tlsf) /\ Served /\ Intact

\* Requests are numbers.
LEMMA RequestNat == \A n \in Requests : n \in Nat
  <1>1. Requests \subseteq 0 .. Two(29)
    BY RequestsAssumption DEF Two
  <1>2. Two(29) \in Nat
    BY Powers
  <1> QED  BY <1>1, <1>2

\* The types of a region.
LEMMA HeldTypes ==
    ASSUME TypeOK, NEW o \in Owners
    PROVE  /\ held[o].at \in Nat /\ held[o].size \in Nat /\ held[o].size \in Requests \union {0}
           /\ held[o].at \in Words
           /\ held[o] = [at |-> held[o].at, size |-> held[o].size]
           /\ held[o] = None => held[o].size = 0
  <1>1. held[o] \in [at : Words, size : Requests \union {0}]
    BY DEF TypeOK
  <1>2. \A w \in Words : w \in Nat
    BY AreaFacts
  <1> QED  BY <1>1, <1>2, RequestNat DEF None

\* Where a region is.
LEMMA HoldsWhere ==
    ASSUME NEW h, Whole(h), NEW r, r.at \in Nat, r.size \in Nat, Holds(h, r)
    PROVE  /\ r.at - 2 \in DOMAIN h.blocks \ {End} /\ r.at - 2 \in 0 .. End
           /\ r.at + r.size <= NextOf(h, r.at - 2) /\ NextOf(h, r.at - 2) <= End
           /\ \A c \in DOMAIN h.blocks : c <= r.at - 2 \/ c >= NextOf(h, r.at - 2)
           /\ ~ h.blocks[r.at - 2].free
           /\ \A i \in 1 .. r.size : r.at + i - 1 \in Words
  <1> DEFINE b == r.at - 2
             s == h.blocks[b].size
  <1>1. b \in DOMAIN h.blocks \ {End} /\ ~ h.blocks[b].free /\ r.size <= s
    BY AreaFacts DEF Holds
  <1>2. /\ b \in 0 .. End /\ s \in 0 .. Area /\ NextOf(h, b) = b + 2 + s /\ NextOf(h, b) <= End
        /\ \A c \in DOMAIN h.blocks : c <= b \/ c >= NextOf(h, b)
    <2> HIDE DEF b
    <2> QED  BY <1>1, Follows DEF Whole
  <1> HIDE DEF s
  <1>3. r.at + r.size <= NextOf(h, b) /\ \A i \in 1 .. r.size : r.at + i - 1 \in Words
    <2>1. /\ r.at + r.size <= b + 2 + s /\ b + 2 + s <= Area + 2
      BY <1>1, <1>2, AreaFacts
    <2> HIDE DEF b
    <2>2. \A i \in 1 .. r.size : r.at + i - 1 \in 0 .. Area + 3
      BY <1>2, <2>1, AreaFacts
    <2> QED  BY <1>2, <2>1, <2>2, AreaFacts
  <1> QED  BY <1>1, <1>2, <1>3 DEF b

\* Two regions have no word in common, and the allocator writes to none.
LEMMA RegionsApart ==
    ASSUME NEW h, Whole(h),
           NEW r, r.at \in Nat, r.size \in Nat, Holds(h, r), NEW i \in 1 .. r.size
    PROVE  /\ r.at + i - 1 \notin Written(h)
           /\ \A q : q.at \in Nat /\ q.size \in Nat /\ Holds(h, q) /\ q.at # r.at =>
                  r.at + i - 1 \notin Region(q)
  <1> DEFINE b == r.at - 2
             n == NextOf(h, b)
             w == r.at + i - 1
  <1>1. /\ b \in DOMAIN h.blocks \ {End} /\ b \in 0 .. End
        /\ r.at + r.size <= n /\ n <= End
        /\ \A c \in DOMAIN h.blocks : c <= b \/ c >= n
        /\ ~ h.blocks[b].free
    BY HoldsWhere
  <1>2. n \in Int /\ w \in Int /\ b + 2 <= w /\ w < n /\ r.at = b + 2
    <2>1. n \in DOMAIN h.blocks
      BY <1>1, Follows DEF Whole
    <2>2. n \in Int
      BY <2>1, AreaFacts DEF Whole, Shape
    <2> HIDE DEF n
    <2> QED  BY <1>1, <2>2
  <1> HIDE DEF b, n, w
  <1>3. w \notin Written(h)
    <2> SUFFICES ASSUME NEW c \in DOMAIN h.blocks,
                        w \in c .. c + (IF h.blocks[c].free THEN Header ELSE Overhead) - 1
                 PROVE  FALSE
      BY DEF Written
    <2>1. c \in 0 .. End /\ (c <= b \/ c >= n)
      BY <1>1, Follows DEF Whole
    <2>2. c <= w /\ w <= c + 3 /\ (~ h.blocks[c].free => w <= c + 1)
      BY <1>2, <2>1, AreaFacts
    <2>3. c # b
      BY <1>1, <1>2, <2>2
    <2>4. c < b
      BY <1>1, <1>2, <2>1, <2>2, <2>3, AreaFacts
    <2>5. c # End
      BY <1>1, <2>4, AreaFacts
    <2>6. NextOf(h, c) \in Int /\ c + 4 <= NextOf(h, c) /\ (b <= c \/ b >= NextOf(h, c))
      <3>1. NextOf(h, c) \in DOMAIN h.blocks /\ c + 4 <= NextOf(h, c)
            /\ (b <= c \/ b >= NextOf(h, c))
        BY <1>1, <2>5, Follows DEF Whole
      <3> QED  BY <3>1, AreaFacts DEF Whole, Shape
    <2> QED  BY <1>1, <1>2, <2>1, <2>2, <2>4, <2>6, AreaFacts
  <1>4. ASSUME NEW q, q.at \in Nat, q.size \in Nat, Holds(h, q), q.at # r.at
        PROVE  w \notin Region(q)
    <2> DEFINE c == q.at - 2
               m == NextOf(h, c)
    <2>1. /\ c \in DOMAIN h.blocks \ {End} /\ c \in 0 .. End
          /\ q.at + q.size <= m
          /\ \A d \in DOMAIN h.blocks : d <= c \/ d >= m
      BY <1>4, HoldsWhere
    <2>2. m \in Int
      <3>1. m \in DOMAIN h.blocks
        BY <2>1, Follows DEF Whole
      <3> QED  BY <3>1, AreaFacts DEF Whole, Shape
    <2>3. (c <= b \/ c >= n) /\ (b <= c \/ b >= m)
      BY <1>1, <2>1
    <2> HIDE DEF m
    <2>4. c # b
      BY <1>2, <1>4
    <2>5. ~ (q.at <= w /\ w < q.at + q.size)
      BY <1>1, <1>2, <1>4, <2>1, <2>2, <2>3, <2>4, AreaFacts
    <2> QED  BY <2>5 DEF Region
  <1> QED  BY <1>3, <1>4 DEF w

\* An owner changes its region, and the heap spares those of the others.
LEMMA GiveKeeps ==
    ASSUME IInv, NEW h, Whole(h), NEW o \in Owners, NEW r, NEW copied \in Nat,
           Give(h, o, r, copied),
           r = None \/ (/\ r.at \in Nat /\ r.size \in Requests
                        /\ r = [at |-> r.at, size |-> r.size] /\ Holds(h, r)),
           copied <= r.size, copied <= held[o].size,
           \A p \in Owners \ {o} : held[p] # None =>
               Holds(h, held[p]) /\ (r # None => held[p].at # r.at)
    PROVE  IInv'
  <1> DEFINE others == UNION {Region(held[p]) : p \in Owners \ {o}}
             value(w) == IF w \in Region(r)
                         THEN IF w < r.at + copied THEN memory[held[o].at + w - r.at] ELSE o
                         ELSE IF w \in Written(h) \/ w \notin others THEN Nobody ELSE memory[w]
  <1>1. /\ TypeOK /\ Served /\ Intact
        /\ tlsf' = h /\ held' = [held EXCEPT ![o] = r] /\ failed' = 0
        /\ held \in [Owners -> [at : Words, size : Requests \union {0}]]
        /\ memory \in [Words -> Owners \union {Nobody}]
        /\ memory' = [w \in Words |-> value(w)]
    <2>1. memory' = [w \in Words |-> value(w)]
      BY DEF Give
    <2> HIDE DEF value
    <2> QED  BY <2>1 DEF IInv, Give, TypeOK
  <1> HIDE DEF others
  <1>2. r \in [at : Words, size : Requests \union {0}] /\ r.at \in Nat /\ r.size \in Nat
        /\ (r = None => r.size = 0)
    <2>1. CASE r = None
      BY <2>1, AreaFacts DEF None
    <2>2. CASE r # None
      <3>1. r.at \in Nat /\ r.size \in Requests /\ r = [at |-> r.at, size |-> r.size]
            /\ Holds(h, r)
        BY <2>2
      <3>2. r.size \in Nat
        BY <3>1, RequestNat
      <3>3. r.at - 2 \in 0 .. End /\ r.at - 2 # End
        BY <3>1, <3>2, HoldsWhere
      <3>4. r.at \in Words
        BY <3>1, <3>3, AreaFacts
      <3> QED  BY <2>2, <3>1, <3>2, <3>4
    <2> QED  BY <2>1, <2>2
  <1>3. /\ held' \in [Owners -> [at : Words, size : Requests \union {0}]]
        /\ held'[o] = r /\ \A p \in Owners \ {o} : held'[p] = held[p]
    BY <1>1, <1>2
  <1>4. ASSUME NEW i \in 1 .. r.size
        PROVE  /\ r.at + i - 1 \in Words /\ r.at + i - 1 \in Region(r)
               /\ value(r.at + i - 1) = o
    <2>1. r # None /\ Holds(h, r)
      BY <1>2, <1>4
    <2>2. r.at + i - 1 \in Words
      BY <1>2, <2>1, HoldsWhere
    <2>3. r.at + i - 1 \in Region(r)
      <3>1. r.at <= r.at + i - 1 /\ r.at + i - 1 < r.at + r.size
        BY <1>2
      <3> QED  BY <2>2, <3>1 DEF Region
    <2>4. CASE i <= copied
      <3>1. i \in 1 .. held[o].size /\ r.at + i - 1 < r.at + copied
        BY <1>1, <1>2, <2>4, HeldTypes
      <3>2. held[o].at + (r.at + i - 1) - r.at = held[o].at + i - 1
        BY <1>1, <1>2, HeldTypes
      <3>3. memory[held[o].at + i - 1] = o
        BY <1>1, <3>1 DEF Intact
      <3> QED  BY <2>2, <2>3, <3>1, <3>2, <3>3
    <2>5. CASE ~ (i <= copied)
      <3>1. ~ (r.at + i - 1 < r.at + copied)
        BY <1>2, <2>5
      <3> QED  BY <2>2, <2>3, <3>1
    <2> QED  BY <2>4, <2>5
  <1>5. ASSUME NEW p \in Owners \ {o}, NEW i \in 1 .. held[p].size
        PROVE  /\ held[p].at + i - 1 \in Words
               /\ value(held[p].at + i - 1) = memory[held[p].at + i - 1]
    <2> DEFINE w == held[p].at + i - 1
    <2>1. held[p] # None /\ Holds(h, held[p]) /\ held[p].at \in Nat /\ held[p].size \in Nat
          /\ (r # None => held[p].at # r.at)
      BY <1>1, <1>5, HeldTypes
    <2>2. w \in Words /\ w \notin Written(h)
      BY <2>1, HoldsWhere, RegionsApart
    <2>3. w \notin Region(r)
      <3>1. CASE r = None
        BY <1>2, <3>1, <2>2, AreaFacts DEF Region
      <3>2. CASE r # None
        BY <1>2, <2>1, <3>2, RegionsApart
      <3> QED  BY <3>1, <3>2
    <2>4. w \in Region(held[p])
      <3>1. held[p].at <= w /\ w < held[p].at + held[p].size
        BY <2>1
      <3> QED  BY <2>2, <3>1 DEF Region
    <2>5. w \in others
      BY <2>4 DEF others
    <2> QED  BY <2>2, <2>3, <2>5
  <1>6. memory' \in [Words -> Owners \union {Nobody}]
    <2> SUFFICES ASSUME NEW w \in Words PROVE value(w) \in Owners \union {Nobody}
      BY <1>1
    <2>1. CASE w \in Region(r)
      <3> DEFINE i == w - r.at + 1
      <3>1. i \in 1 .. r.size /\ w = r.at + i - 1
        BY <1>2, <2>1, AreaFacts DEF Region
      <3> HIDE DEF value, i
      <3> QED  BY <1>4, <3>1
    <2>2. CASE w \notin Region(r)
      BY <1>1, <2>2
    <2> QED  BY <2>1, <2>2
  <1>7. \A w \in Words : memory'[w] = value(w)
    <2> HIDE DEF value
    <2> QED  BY <1>1
  <1> HIDE DEF value
  <1>8. Intact'
    <2> SUFFICES ASSUME NEW p \in Owners, NEW i \in 1 .. held'[p].size
                 PROVE  memory'[held'[p].at + i - 1] = p
      BY DEF Intact
    <2>1. CASE p = o
      BY <1>3, <1>4, <1>7, <2>1
    <2>2. CASE p # o
      <3>1. held'[p] = held[p] /\ i \in 1 .. held[p].size
        BY <1>3, <2>2
      <3>2. memory[held[p].at + i - 1] = p
        BY <1>1, <3>1 DEF Intact
      <3> QED  BY <1>5, <1>7, <2>2, <3>1, <3>2
    <2> QED  BY <2>1, <2>2
  <1>9. Served'
    <2> SUFFICES ASSUME NEW p \in Owners, held'[p] # None
                 PROVE  /\ Holds(h, held'[p])
                        /\ \A q \in Owners \ {p} : held'[q] # None => held'[q].at # held'[p].at
      BY <1>1 DEF Served, Holds
    <2>1. CASE p = o
      BY <1>3, <2>1
    <2>2. CASE p # o
      <3>1. Holds(h, held[p]) /\ held'[p] = held[p] /\ held[p] # None
            /\ (r # None => held[p].at # r.at)
        BY <1>3, <2>2
      <3>2. \A q \in Owners \ {p} : held[q] # None => held[q].at # held[p].at
        BY <1>1, <3>1 DEF Served
      <3> QED  BY <1>3, <3>1, <3>2
    <2> QED  BY <2>1, <2>2
  <1>10. TypeOK'
    BY <1>1, <1>3, <1>6, WholeSound DEF TypeOK
  <1>11. Whole(tlsf)'
    BY <1>1
  <1> QED  BY <1>8, <1>9, <1>10, <1>11 DEF IInv

\* Who spares block b spares every region that is not in it.
LEMMA SparedHolds ==
    ASSUME NEW h, NEW out, Whole(h), Whole(out), NEW b, Spared(h, out, b),
           NEW r, Holds(h, r), r.at - Overhead # b
    PROVE  Holds(out, r)
  BY DEF Spared, Holds

\* The block of a region is used.
LEMMA BlockUsed ==
    ASSUME IInv, NEW o \in Owners, held[o] # None
    PROVE  /\ Whole(tlsf) /\ Holds(tlsf, held[o])
           /\ Block(o) \in DOMAIN tlsf.blocks \ {End} /\ ~ tlsf.blocks[Block(o)].free
           /\ held[o].size <= tlsf.blocks[Block(o)].size
           /\ held[o].at \in Nat /\ Block(o) \in Int /\ held[o].at = Block(o) + 2
           /\ tlsf.blocks[Block(o)].size \in Nat /\ tlsf.blocks[Block(o)].size >= 2
           /\ \A p \in Owners \ {o} : held[p] # None =>
                  Holds(tlsf, held[p]) /\ held[p].at - Overhead # Block(o)
  <1>1. /\ TypeOK /\ Whole(tlsf) /\ Holds(tlsf, held[o])
        /\ \A p \in Owners \ {o} : held[p] # None =>
               Holds(tlsf, held[p]) /\ held[p].at # held[o].at
    BY DEF IInv, Served
  <1>2. held[o].at \in Nat /\ Block(o) = held[o].at - 2
    BY <1>1, HeldTypes, AreaFacts DEF Block
  <1>3. /\ Block(o) \in DOMAIN tlsf.blocks \ {End} /\ ~ tlsf.blocks[Block(o)].free
        /\ held[o].size <= tlsf.blocks[Block(o)].size
    BY <1>1 DEF Holds, Block
  <1>4. tlsf.blocks[Block(o)].size \in 0 .. Area /\ tlsf.blocks[Block(o)].size >= 2
    BY <1>1, <1>3, Follows DEF Whole
  <1>5. ASSUME NEW p \in Owners \ {o}, held[p] # None
        PROVE  held[p].at - Overhead # Block(o)
    <2>1. held[p].at \in Nat /\ held[p].at # held[o].at
      BY <1>1, <1>5, HeldTypes
    <2> QED  BY <1>2, <2>1, AreaFacts
  <1> QED  BY <1>1, <1>2, <1>3, <1>4, <1>5, AreaFacts

\* The block that malloc takes is nobody's.
LEMMA TakeServes ==
    ASSUME IInv, NEW n \in Requests, NEW b \in Fitting(tlsf, n)
    PROVE  LET h == Take(tlsf, b, SearchSize(Rounded(n)))
               r == [at |-> b + Overhead, size |-> n]
           IN  /\ Whole(h) /\ Holds(h, r) /\ r.at \in Nat /\ r.at - Overhead = b
               /\ \A p \in Owners : held[p] # None =>
                      Holds(h, held[p]) /\ held[p].at # r.at /\ Block(p) # b
  <1> DEFINE h == Take(tlsf, b, SearchSize(Rounded(n)))
             r == [at |-> b + Overhead, size |-> n]
             q == SearchSize(Rounded(n))
  <1>1. Whole(tlsf)
    BY DEF IInv
  <1>2. /\ b \in FreeBlocks(tlsf) /\ tlsf.blocks[b].size >= q /\ q \in Nat /\ q >= 2 /\ n <= q
        /\ n \in Nat
    <2>1. /\ Rounded(n) \in Nat /\ q \in Nat /\ 2 <= Rounded(n) /\ n <= Rounded(n)
          /\ Rounded(n) <= q /\ b \in FreeBlocks(tlsf) /\ tlsf.blocks[b].size >= q
      BY <1>1, FittingServes
    <2> HIDE DEF q
    <2> QED  BY <2>1, RequestNat
  <1> HIDE DEF q
  <1>3. /\ Whole(h) /\ Spared(tlsf, h, b)
        /\ b \in DOMAIN h.blocks \ {End} /\ ~ h.blocks[b].free /\ h.blocks[b].size >= q
    BY <1>1, <1>2, TakeWhole DEF q
  <1> HIDE DEF h
  <1>4. b \in 0 .. End /\ h.blocks[b].size \in 0 .. Area
    BY <1>3, Follows DEF Whole
  <1>5. r.at \in Nat /\ r.at - Overhead = b /\ r.size = n /\ n <= h.blocks[b].size
    BY <1>2, <1>3, <1>4, AreaFacts
  <1>6. Holds(h, r)
    <2> HIDE DEF r
    <2> QED  BY <1>3, <1>5 DEF Holds
  <1> HIDE DEF r
  <1>7. ASSUME NEW p \in Owners, held[p] # None
        PROVE  Holds(h, held[p]) /\ held[p].at # r.at /\ Block(p) # b
    <2>1. Holds(tlsf, held[p]) /\ ~ tlsf.blocks[Block(p)].free
      BY <1>7, BlockUsed
    <2>2. Block(p) # b
      BY <1>2, <2>1 DEF FreeBlocks
    <2>3. Holds(h, held[p])
      BY <1>1, <1>3, <2>1, <2>2, SparedHolds DEF Block
    <2> QED  BY <1>5, <2>2, <2>3 DEF Block
  <1> QED  BY <1>3, <1>5, <1>6, <1>7 DEF h, r

\* What realloc has to enlarge is not larger than what is asked for.
LEMMA UnfitIsMore ==
    ASSUME IInv, NEW o \in Owners, held[o] # None, NEW n \in Requests, ~ Fits(o, n)
    PROVE  held[o].size <= n
  <1> DEFINE s == tlsf.blocks[Block(o)].size
  <1>1. s \in Nat /\ s >= 2 /\ held[o].size <= s
    BY BlockUsed
  <1>2. held[o].size \in Nat /\ n \in Nat
    BY RequestNat, HeldTypes DEF IInv
  <1>3. ~ (Rounded(n) <= s)
    BY DEF Fits
  <1> HIDE DEF s
  <1>4. Rounded(n) = 2 \/ Rounded(n) = n \/ Rounded(n) = n + 1
    <2>1. n % 2 = 0 \/ n % 2 = 1
      BY <1>2
    <2> QED  BY <1>2, <2>1 DEF Rounded, MinSize, Align
  <1> QED  BY <1>1, <1>2, <1>3, <1>4

-----------------------------------------------------------------------------
(* The steps *)

\* malloc_ex
LEMMA MallocKeeps ==
    ASSUME IInv, NEW o \in Owners, NEW n \in Requests, Malloc(o, n)
    PROVE  IInv'
  <1> PICK b \in Fitting(tlsf, n) :
          Give(Take(tlsf, b, SearchSize(Rounded(n))), o, [at |-> b + Overhead, size |-> n], 0)
    BY DEF Malloc
  <1> DEFINE h == Take(tlsf, b, SearchSize(Rounded(n)))
             r == [at |-> b + Overhead, size |-> n]
  <1>1. /\ Whole(h) /\ Holds(h, r) /\ r.at \in Nat
        /\ \A p \in Owners : held[p] # None => Holds(h, held[p]) /\ held[p].at # r.at
    BY TakeServes
  <1>2. /\ Give(h, o, r, 0) /\ r.size \in Requests /\ r = [at |-> r.at, size |-> r.size]
        /\ 0 <= r.size /\ 0 <= held[o].size
    <2>1. TypeOK
      BY DEF IInv
    <2>2. held[o].size \in Nat /\ n \in Nat
      BY <2>1, RequestNat, HeldTypes
    <2>3. 0 <= held[o].size /\ 0 <= n
      BY <2>2
    <2>4. Give(h, o, r, 0)
      OBVIOUS
    <2>5. r.size = n /\ r = [at |-> r.at, size |-> r.size]
      OBVIOUS
    <2> HIDE DEF h, r
    <2> QED  BY <2>3, <2>4, <2>5
  <1> HIDE DEF h, r
  <1> QED  BY <1>1, <1>2, GiveKeeps

\* free_ex
LEMMA FreeExKeeps ==
    ASSUME IInv, NEW o \in Owners, FreeEx(o)
    PROVE  IInv'
  <1> DEFINE h == Free(tlsf, Block(o))
  <1>1. held[o] # None /\ Give(h, o, None, 0)
    BY DEF FreeEx
  <1>2. /\ Whole(tlsf) /\ Block(o) \in DOMAIN tlsf.blocks \ {End}
        /\ ~ tlsf.blocks[Block(o)].free
        /\ \A p \in Owners \ {o} : held[p] # None =>
               Holds(tlsf, held[p]) /\ held[p].at - Overhead # Block(o)
    BY <1>1, BlockUsed
  <1>3. Whole(h) /\ Spared(tlsf, h, Block(o))
    BY <1>2, FreeWhole, TaggedLess DEF Whole
  <1> HIDE DEF h
  <1>4. \A p \in Owners \ {o} : held[p] # None => Holds(h, held[p])
    BY <1>2, <1>3, SparedHolds
  <1>5. 0 <= None.size /\ 0 <= held[o].size
    <2>1. TypeOK
      BY DEF IInv
    <2>2. held[o].size \in Nat /\ None.size = 0
      BY <2>1, HeldTypes DEF None
    <2> QED  BY <2>2
  <1> QED  BY <1>1, <1>3, <1>4, <1>5, GiveKeeps

\* realloc where the block stays: h is the heap, copied what is kept.
LEMMA KeepKeeps ==
    ASSUME IInv, NEW o \in Owners, held[o] # None, NEW n \in Requests,
           NEW h, Whole(h), Spared(tlsf, h, Block(o)),
           Block(o) \in DOMAIN h.blocks \ {End}, ~ h.blocks[Block(o)].free,
           h.blocks[Block(o)].size >= n,
           NEW copied \in Nat, copied <= n, copied <= held[o].size,
           Give(h, o, Keep(o, n), copied)
    PROVE  IInv'
  <1> DEFINE r == Keep(o, n)
  <1>1. held[o] = [at |-> held[o].at, size |-> held[o].size] /\ held[o].at \in Nat
    BY HeldTypes DEF IInv
  <1>2. r = [at |-> held[o].at, size |-> n]
    BY <1>1 DEF Keep
  <1> HIDE DEF r
  <1>3. r.at = held[o].at /\ r.size = n /\ r = [at |-> r.at, size |-> r.size]
    BY <1>2
  <1>4. /\ Whole(tlsf)
        /\ \A p \in Owners \ {o} : held[p] # None =>
               Holds(tlsf, held[p]) /\ held[p].at - Overhead # Block(o)
    BY BlockUsed
  <1>5. \A p \in Owners \ {o} : held[p] # None => Holds(h, held[p]) /\ held[p].at # r.at
    BY <1>3, <1>4, SparedHolds DEF Block
  <1>6. Holds(h, r)
    <2>1. h.blocks[Block(o)].size \in 0 .. Area
      BY Follows DEF Whole
    <2>2. n <= h.blocks[Block(o)].size
      BY <2>1, RequestNat
    <2> QED  BY <1>3, <2>2 DEF Holds, Block
  <1>7. Give(h, o, r, copied)
    BY DEF r
  <1> QED  BY <1>1, <1>3, <1>5, <1>6, <1>7, GiveKeeps

\* realloc_ex to no more than the block has
LEMMA ReallocShrinksKeeps ==
    ASSUME IInv, NEW o \in Owners, NEW n \in Requests, ReallocShrinks(o, n)
    PROVE  IInv'
  <1> DEFINE size   == Rounded(n)
             h      == Shrink(tlsf, Block(o), size)
             both   == {n, held[o].size}
             copied == Min(both)
  <1>1. held[o] # None /\ size <= tlsf.blocks[Block(o)].size /\ Give(h, o, Keep(o, n), copied)
    BY DEF ReallocShrinks, Fits
  <1>2. size \in Nat /\ size >= 2 /\ n <= size /\ n \in Nat
    BY FittingServes, RequestNat DEF IInv
  <1>3. copied \in Nat /\ copied <= n /\ copied <= held[o].size
    <2>1. both \in SUBSET Nat /\ both # {}
      BY <1>2, HeldTypes DEF IInv
    <2> HIDE DEF both
    <2>2. Min(both) \in both /\ \A k \in both : Min(both) <= k
      BY <2>1, LeastNat
    <2>3. n \in both /\ held[o].size \in both
      BY DEF both
    <2> QED  BY <2>1, <2>2, <2>3
  <1> HIDE DEF copied, size
  <1>4. /\ Whole(tlsf) /\ Block(o) \in DOMAIN tlsf.blocks \ {End}
        /\ ~ tlsf.blocks[Block(o)].free /\ tlsf.blocks[Block(o)].size \in Nat
    BY <1>1, BlockUsed
  <1>5. /\ Whole(h) /\ Spared(tlsf, h, Block(o))
        /\ Block(o) \in DOMAIN h.blocks \ {End} /\ ~ h.blocks[Block(o)].free
        /\ h.blocks[Block(o)].size >= size
    BY <1>1, <1>2, <1>4, ShrinkWhole
  <1> HIDE DEF h
  <1>6. h.blocks[Block(o)].size >= n
    <2>1. h.blocks[Block(o)].size \in 0 .. Area
      BY <1>5, Follows DEF Whole
    <2> QED  BY <1>2, <1>5, <2>1, AreaFacts
  <1> QED  BY <1>1, <1>3, <1>5, <1>6, KeepKeeps

\* realloc_ex into the free block after it
LEMMA ReallocGrowsKeeps ==
    ASSUME IInv, NEW o \in Owners, NEW n \in Requests, ReallocGrows(o, n)
    PROVE  IInv'
  <1> DEFINE size == Rounded(n)
             h    == Grow(tlsf, Block(o), size)
  <1>1. /\ held[o] # None /\ ~ Fits(o, n) /\ CanGrow(tlsf, Block(o), size)
        /\ Give(h, o, Keep(o, n), held[o].size)
    BY DEF ReallocGrows
  <1>2. size \in Nat /\ size >= 2 /\ n <= size /\ n \in Nat
    BY FittingServes, RequestNat DEF IInv
  <1>3. held[o].size \in Nat /\ held[o].size <= n /\ held[o].size <= held[o].size
    <2>1. TypeOK
      BY DEF IInv
    <2>2. held[o].size \in Nat
      BY <2>1, HeldTypes
    <2>3. held[o].size <= n
      BY <1>1, UnfitIsMore
    <2> QED  BY <2>2, <2>3
  <1> HIDE DEF size
  <1>4. /\ Whole(tlsf) /\ Block(o) \in DOMAIN tlsf.blocks \ {End}
        /\ ~ tlsf.blocks[Block(o)].free
    BY <1>1, BlockUsed
  <1>5. /\ Whole(h) /\ Spared(tlsf, h, Block(o))
        /\ Block(o) \in DOMAIN h.blocks \ {End} /\ ~ h.blocks[Block(o)].free
        /\ h.blocks[Block(o)].size >= size
    BY <1>1, <1>2, <1>4, GrowWhole
  <1> HIDE DEF h
  <1>6. h.blocks[Block(o)].size >= n
    <2>1. h.blocks[Block(o)].size \in 0 .. Area
      BY <1>5, Follows DEF Whole
    <2> QED  BY <1>2, <1>5, <2>1, AreaFacts
  <1> QED  BY <1>1, <1>3, <1>5, <1>6, KeepKeeps

\* realloc_ex to a new block, after which the old one is freed
LEMMA ReallocMovesKeeps ==
    ASSUME IInv, NEW o \in Owners, NEW n \in Requests, ReallocMoves(o, n)
    PROVE  IInv'
  <1>1. held[o] # None /\ ~ Fits(o, n)
    BY DEF ReallocMoves
  <1> PICK b \in Fitting(tlsf, n) :
          Give(Free(Take(tlsf, b, SearchSize(Rounded(n))), Block(o)), o,
               [at |-> b + Overhead, size |-> n], held[o].size)
    BY DEF ReallocMoves
  <1> DEFINE taken == Take(tlsf, b, SearchSize(Rounded(n)))
             h     == Free(taken, Block(o))
             r     == [at |-> b + Overhead, size |-> n]
  <1>2. /\ Whole(taken) /\ Holds(taken, r) /\ r.at \in Nat /\ r.at - Overhead = b
        /\ \A p \in Owners : held[p] # None =>
               Holds(taken, held[p]) /\ held[p].at # r.at /\ Block(p) # b
    BY TakeServes
  <1>3. /\ Give(h, o, r, held[o].size) /\ r.size = n /\ r = [at |-> r.at, size |-> r.size]
    OBVIOUS
  <1>4. held[o].size \in Nat /\ held[o].size <= n /\ held[o].size <= held[o].size
    <2>1. TypeOK
      BY DEF IInv
    <2>2. held[o].size \in Nat
      BY <2>1, HeldTypes
    <2>3. held[o].size <= n
      BY <1>1, UnfitIsMore
    <2> QED  BY <2>2, <2>3
  <1> HIDE DEF taken, r
  <1>5. Block(o) \in DOMAIN taken.blocks \ {End} /\ ~ taken.blocks[Block(o)].free
    BY <1>1, <1>2 DEF Holds, Block
  <1>6. Whole(h) /\ Spared(taken, h, Block(o))
    BY <1>2, <1>5, FreeWhole, TaggedLess DEF Whole
  <1> HIDE DEF h
  <1>7. Holds(h, r)
    BY <1>1, <1>2, <1>6, SparedHolds
  <1>8. \A p \in Owners \ {o} : held[p] # None => Holds(h, held[p]) /\ held[p].at # r.at
    <2>1. \A p \in Owners \ {o} : held[p] # None => held[p].at - Overhead # Block(o)
      BY <1>1, BlockUsed
    <2> QED  BY <1>2, <1>6, <2>1, SparedHolds
  <1> QED  BY <1>2, <1>3, <1>4, <1>6, <1>7, <1>8, GiveKeeps

\* malloc_ex and realloc_ex that find no block
LEMMA RefuseKeeps ==
    ASSUME IInv, NEW n \in Requests, Refuse(n)
    PROVE  IInv'
  <1>1. tlsf' = tlsf /\ held' = held /\ memory' = memory /\ failed' = Rounded(n)
    BY DEF Refuse
  <1>2. Rounded(n) \in Nat
    BY FittingServes DEF IInv
  <1>3. TypeOK'
    BY <1>1, <1>2 DEF IInv, TypeOK
  <1>4. Whole(tlsf)' /\ Served' /\ Intact'
    BY <1>1 DEF IInv, Served, Intact, Holds
  <1> QED  BY <1>3, <1>4 DEF IInv

\* A second start of the loader
LEMMA ReinitKeeps ==
    ASSUME IInv, Reinit
    PROVE  IInv'
  <1>1. /\ tlsf' = tlsf /\ held' = [o \in Owners |-> None]
        /\ memory' = [w \in Words |-> Nobody] /\ failed' = 0
    BY DEF Reinit
  <1>2. None \in [at : Words, size : Requests \union {0}] /\ None.size = 0
    BY AreaFacts DEF None
  <1>3. TypeOK'
    BY <1>1, <1>2 DEF IInv, TypeOK
  <1>4. Whole(tlsf)'
    BY <1>1 DEF IInv
  <1>5. Served' /\ Intact'
    <2>1. \A o \in Owners : held'[o] = None /\ held'[o].size = 0
      BY <1>1, <1>2
    <2> QED  BY <2>1 DEF Served, Intact
  <1> QED  BY <1>3, <1>4, <1>5 DEF IInv

\* init_memory_pool
LEMMA InitHolds == Init => IInv
  <1> SUFFICES ASSUME Init PROVE IInv
    OBVIOUS
  <1>1. /\ tlsf = Free(Empty, 0) /\ held = [o \in Owners |-> None]
        /\ memory = [w \in Words |-> Nobody] /\ failed = 0
    BY DEF Init
  <1>2. Whole(tlsf)
    BY <1>1, EmptyReady, FreeWhole
  <1>3. None \in [at : Words, size : Requests \union {0}] /\ None.size = 0
    BY AreaFacts DEF None
  <1>4. TypeOK
    BY <1>1, <1>2, <1>3, WholeSound DEF TypeOK
  <1>5. Served /\ Intact
    <2>1. \A o \in Owners : held[o] = None /\ held[o].size = 0
      BY <1>1, <1>3
    <2> QED  BY <2>1 DEF Served, Intact
  <1> QED  BY <1>2, <1>4, <1>5 DEF IInv

\* Every step
LEMMA NextKeeps == IInv /\ [Next]_vars => IInv'
  <1> SUFFICES ASSUME IInv, [Next]_vars PROVE IInv'
    OBVIOUS
  <1>1. ASSUME NEW o \in Owners, NEW n \in Requests, Malloc(o, n) PROVE IInv'
    BY <1>1, MallocKeeps
  <1>2. ASSUME NEW o \in Owners, NEW n \in Requests, MallocFails(o, n) PROVE IInv'
    BY <1>2, RefuseKeeps DEF MallocFails
  <1>3. ASSUME NEW o \in Owners, NEW n \in Requests, ReallocShrinks(o, n) PROVE IInv'
    BY <1>3, ReallocShrinksKeeps
  <1>4. ASSUME NEW o \in Owners, NEW n \in Requests, ReallocGrows(o, n) PROVE IInv'
    BY <1>4, ReallocGrowsKeeps
  <1>5. ASSUME NEW o \in Owners, NEW n \in Requests, ReallocMoves(o, n) PROVE IInv'
    BY <1>5, ReallocMovesKeeps
  <1>6. ASSUME NEW o \in Owners, NEW n \in Requests, ReallocFails(o, n) PROVE IInv'
    BY <1>6, RefuseKeeps DEF ReallocFails
  <1>7. ASSUME NEW o \in Owners, FreeEx(o) PROVE IInv'
    BY <1>7, FreeExKeeps
  <1>8. CASE Reinit
    BY <1>8, ReinitKeeps
  <1>9. CASE UNCHANGED vars
    <2>1. tlsf' = tlsf /\ held' = held /\ memory' = memory /\ failed' = failed
      BY <1>9 DEF vars
    <2> QED  BY <2>1 DEF IInv, TypeOK, Served, Intact, Holds
  <1> QED  BY <1>1, <1>2, <1>3, <1>4, <1>5, <1>6, <1>7, <1>8, <1>9 DEF Next

\* The invariant of every run
LEMMA AlwaysIInv == Spec => []IInv
  BY InitHolds, NextKeeps, PTL DEF Spec

-----------------------------------------------------------------------------
(* What holds of every heap *)

\* The blocks cover the area without gap or overlap, the lists and the bitmaps
\* are those of the free blocks, and every owner has a used block of its own that
\* is large enough (malloc_ex, free_ex, realloc_ex).
THEOREM HeapStaysSound == Spec => []HeapSound
  <1>1. IInv => HeapSound
    <2> SUFFICES ASSUME IInv PROVE HeapSound
      OBVIOUS
    <2>1. BlocksTile(tlsf) /\ ListsMatch(tlsf)
      BY WholeSound DEF IInv
    <2>2. ASSUME NEW o \in Holding
          PROVE  /\ Block(o) \in DOMAIN tlsf.blocks /\ ~ tlsf.blocks[Block(o)].free
                 /\ held[o].size <= tlsf.blocks[Block(o)].size
                 /\ \A p \in Holding \ {o} : held[p].at # held[o].at
      BY <2>2 DEF IInv, Served, Holds, Block, Holding
    <2> QED  BY <2>1, <2>2 DEF HeapSound, OwnersServed, IInv
  <1> QED  BY <1>1, AlwaysIInv, PTL

\* malloc and realloc fail only when every free block is smaller than what is
\* asked for and one in MAX_SLI of it (FIND_SUITABLE_BLOCK).
THEOREM RefusalsShort == Spec => RefusesOnlyWhenShort
  <1> DEFINE Short == \A b \in DOMAIN tlsf.blocks :
                          failed' > 0 /\ tlsf.blocks[b].free
                          => tlsf.blocks[b].size < failed' + failed' \div MaxSli + 1
  <1>1. ASSUME IInv, Next PROVE Short
    <2>1. ASSUME NEW n \in Requests, Fitting(tlsf, n) = {}, Refuse(n) PROVE Short
      <3>1. failed' = Rounded(n) /\ Whole(tlsf)
        BY <1>1, <2>1 DEF Refuse, IInv
      <3>2. \A b \in FreeBlocks(tlsf) :
                tlsf.blocks[b].size < Rounded(n) + Rounded(n) \div MaxSli + 1
        BY <2>1, <3>1, FittingServes
      <3> QED  BY <3>1, <3>2 DEF FreeBlocks
    <2>2. ASSUME failed' = 0 PROVE Short
      BY <2>2
    <2>3. ASSUME NEW h, NEW o, NEW r, NEW copied, Give(h, o, r, copied) PROVE failed' = 0
      BY <2>3 DEF Give
    <2> HIDE DEF Short
    <2>4. ASSUME NEW o \in Owners, NEW n \in Requests, Malloc(o, n) PROVE Short
      BY <2>2, <2>3, <2>4 DEF Malloc
    <2>5. ASSUME NEW o \in Owners, NEW n \in Requests, MallocFails(o, n) PROVE Short
      BY <2>1, <2>5 DEF MallocFails
    <2>6. ASSUME NEW o \in Owners, NEW n \in Requests, ReallocShrinks(o, n) PROVE Short
      BY <2>2, <2>3, <2>6 DEF ReallocShrinks
    <2>7. ASSUME NEW o \in Owners, NEW n \in Requests, ReallocGrows(o, n) PROVE Short
      BY <2>2, <2>3, <2>7 DEF ReallocGrows
    <2>8. ASSUME NEW o \in Owners, NEW n \in Requests, ReallocMoves(o, n) PROVE Short
      BY <2>2, <2>3, <2>8 DEF ReallocMoves
    <2>9. ASSUME NEW o \in Owners, NEW n \in Requests, ReallocFails(o, n) PROVE Short
      BY <2>1, <2>9 DEF ReallocFails
    <2>10. ASSUME NEW o \in Owners, FreeEx(o) PROVE Short
      BY <2>2, <2>3, <2>10 DEF FreeEx
    <2>11. CASE Reinit
      BY <2>2, <2>11 DEF Reinit
    <2> QED
      BY <1>1, <2>4, <2>5, <2>6, <2>7, <2>8, <2>9, <2>10, <2>11 DEF Next
  <1>2. IInv /\ [Next]_vars => [Short]_vars
    <2> HIDE DEF Short
    <2> QED  BY <1>1
  <1> QED  BY <1>2, AlwaysIInv, PTL DEF Spec, RefusesOnlyWhenShort

-----------------------------------------------------------------------------
(* What the callers see *)

View(hd, mem) == [o \in Owners |-> [i \in 1 .. hd[o].size |-> mem[hd[o].at + i - 1]]]
Contents == View(held, memory)

\* It is what every owner filled its region with.
LEMMA ViewFilled ==
    ASSUME NEW hd, NEW mem, \A o \in Owners : \A i \in 1 .. hd[o].size : mem[hd[o].at + i - 1] = o
    PROVE  View(hd, mem) = [o \in Owners |-> Store!Filled(o, hd[o].size)]
  <1>1. ASSUME NEW o \in Owners
        PROVE  [i \in 1 .. hd[o].size |-> mem[hd[o].at + i - 1]] = Store!Filled(o, hd[o].size)
    BY DEF Store!Filled
  <1> QED  BY <1>1 DEF View

\* No request is above the largest.
LEMMA LargestRequest ==
    ASSUME NEW n \in Requests
    PROVE  Max(Requests) \in Nat /\ n <= Max(Requests)
  <1> DEFINE S == {Two(29) - m : m \in Requests}
  <1>1. Requests \subseteq 0 .. Two(29)
    BY RequestsAssumption DEF Two
  <1>2. Two(29) \in Nat
    BY Powers
  <1>3. S \in SUBSET Nat /\ S # {}
    BY <1>1, <1>2
  <1> HIDE DEF S
  <1>4. PICK k \in S : \A j \in S : k <= j
    BY <1>3, LeastNat
  <1>5. PICK m \in Requests : k = Two(29) - m
    BY <1>4 DEF S
  <1>6. ASSUME NEW j \in Requests PROVE j <= m
    <2>1. Two(29) - m <= Two(29) - j
      BY <1>4, <1>5 DEF S
    <2> QED  BY <1>1, <1>2, <2>1
  <1>7. \E x \in Requests : \A y \in Requests : x >= y
    BY <1>6, RequestNat
  <1>8. Max(Requests) \in Requests /\ \A y \in Requests : Max(Requests) >= y
    BY <1>7 DEF Max
  <1> QED  BY <1>8, RequestNat

\* A step of the heap is one of the store.
LEMMA GiveHolds ==
    ASSUME IInv, IInv', NEW h, NEW o \in Owners, NEW r, NEW copied, Give(h, o, r, copied),
           r = None \/ r.size \in Requests
    PROVE  [Store!Next]_Contents
  <1>1. TypeOK /\ TypeOK' /\ held' = [held EXCEPT ![o] = r] /\ DOMAIN held = Owners
    BY DEF IInv, TypeOK, Give
  <1>2. held'[o] = r /\ \A p \in Owners \ {o} : held'[p] = held[p]
    BY <1>1
  <1>3. /\ Contents = [p \in Owners |-> Store!Filled(p, held[p].size)]
        /\ Contents' = [p \in Owners |-> Store!Filled(p, held'[p].size)]
    <2>1. Contents = [p \in Owners |-> Store!Filled(p, held[p].size)]
      BY ViewFilled DEF IInv, Intact, Contents
    <2>2. Contents' = [p \in Owners |-> Store!Filled(p, held'[p].size)]
      BY ViewFilled DEF IInv, Intact, Contents
    <2> QED  BY <2>1, <2>2
  <1>4. Contents' = [Contents EXCEPT ![o] = Store!Filled(o, r.size)]
    BY <1>2, <1>3
  <1>5. CASE r.size \in 0 .. Max(Requests)
    BY <1>4, <1>5 DEF Store!Next, Store!Hold, Contents, View
  <1>6. CASE r.size \notin 0 .. Max(Requests)
    <2>1. r = None /\ r.size = 0
      <3>1. r.size \notin Requests
        BY <1>6, LargestRequest, RequestNat
      <3> QED  BY <3>1 DEF None
    <2>2. held[o].size = 0
      <3>1. CASE held[o].size \in Requests
        <4>1. 0 \in 0 .. Max(Requests)
          BY <3>1, LargestRequest
        <4> QED  BY <1>6, <2>1, <4>1
      <3>2. CASE held[o].size \notin Requests
        BY <1>1, <3>2, HeldTypes
      <3> QED  BY <3>1, <3>2
    <2>3. \A p \in Owners : held'[p].size = held[p].size
      BY <1>2, <2>1, <2>2
    <2> QED  BY <1>3, <2>3
  <1> QED  BY <1>5, <1>6

\* Nobody sees anything in a heap that was just made.
LEMMA EmptyView ==
    ASSUME NEW hd, NEW mem, \A o \in Owners : hd[o] = None
    PROVE  View(hd, mem) = [o \in Owners |-> <<>>]
  <1>1. ASSUME NEW o \in Owners
        PROVE  [i \in 1 .. hd[o].size |-> mem[hd[o].at + i - 1]] = <<>>
    <2>1. hd[o].size = 0
      BY DEF None
    <2>2. 1 .. hd[o].size = {}
      BY <2>1
    <2>3. ASSUME NEW f, DOMAIN f = {}, f = [i \in {} |-> f[i]] PROVE f = <<>>
      BY <2>3
    <2> QED  BY <2>2, <2>3
  <1> QED  BY <1>1 DEF View

\* What an owner wrote stays until it frees it, and realloc takes it along.
THEOREM KeepsContents == Spec => ImplementsStore
  <1>1. Init => Store!Init
    <2>1. Init => \A o \in Owners : held[o] = None
      BY DEF Init
    <2> QED  BY <2>1, EmptyView DEF Store!Init, Contents, View
  <1>2. ASSUME IInv, IInv', [Next]_vars PROVE [Store!Next]_Contents
    <2>1. ASSUME NEW o \in Owners, NEW n \in Requests, Malloc(o, n) PROVE [Store!Next]_Contents
      BY <1>2, <2>1, GiveHolds DEF Malloc
    <2>2. ASSUME NEW n \in Requests, Refuse(n) PROVE [Store!Next]_Contents
      BY <2>2 DEF Refuse, Contents, View
    <2>3. ASSUME NEW o \in Owners, NEW n \in Requests, NEW h, NEW copied,
                 held[o] # None, Give(h, o, Keep(o, n), copied)
          PROVE  [Store!Next]_Contents
      <3>1. Keep(o, n).size = n
        BY <1>2, HeldTypes DEF Keep, IInv
      <3> QED  BY <1>2, <2>3, <3>1, GiveHolds
    <2>4. ASSUME NEW o \in Owners, NEW n \in Requests, ReallocMoves(o, n)
          PROVE  [Store!Next]_Contents
      BY <1>2, <2>4, GiveHolds DEF ReallocMoves
    <2>5. ASSUME NEW o \in Owners, FreeEx(o) PROVE [Store!Next]_Contents
      BY <1>2, <2>5, GiveHolds DEF FreeEx
    <2>6. CASE Reinit
      <3>1. \A o \in Owners : held'[o] = None
        BY <2>6 DEF Reinit
      <3>2. Contents' = [o \in Owners |-> <<>>]
        BY <3>1, EmptyView DEF Contents
      <3> QED  BY <3>2 DEF Store!Next, Store!Restart, Store!Init, Contents, View
    <2>7. CASE UNCHANGED vars
      BY <2>7 DEF vars, Contents, View
    <2>8. ASSUME NEW o \in Owners, NEW n \in Requests,
                 ReallocShrinks(o, n) \/ ReallocGrows(o, n)
          PROVE  [Store!Next]_Contents
      BY <2>3, <2>8 DEF ReallocShrinks, ReallocGrows
    <2> QED
      BY <1>2, <2>1, <2>2, <2>4, <2>5, <2>6, <2>7, <2>8 DEF Next, MallocFails, ReallocFails
  <1> QED  BY <1>1, <1>2, AlwaysIInv, PTL DEF Spec, ImplementsStore, Store!Spec, Contents, View
=============================================================================
