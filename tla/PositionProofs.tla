---------------------------- MODULE PositionProofs ---------------------------
(***************************************************************************)
(* What the array operators return, for arrays of any length; which way    *)
(* each operator of PreciseUnitMath rounds; what the storage functions and *)
(* the position library do, for every set of components and modules and    *)
(* every scale.                                                            *)
(***************************************************************************)
EXTENDS Position, SequenceTheorems, FiniteSetTheorems, WellFoundedInduction,
        TLAPS

-----------------------------------------------------------------------------
(* Arrays of addresses *)

\* A nonempty set of natural numbers has a least element.
LEMMA LeastNat ==
    ASSUME NEW T, T \subseteq Nat, T # {}
    PROVE  \E x \in T : \A y \in T : x <= y
  <1> DEFINE R == OpToRel(<, Nat)
  <1>1. IsWellFoundedOn(R, Nat)
    BY NatLessThanWellFounded
  <1> HIDE DEF R
  <1>2. PICK x \in T : \A y \in T : ~ (<<y, x>> \in R)
    BY <1>1, WFMin
  <1>3. \A y \in T : ~ (y < x)
    BY <1>2 DEF R, OpToRel
  <1> QED BY <1>3, SMT

\* Induction over a set of natural numbers: what holds at 0 and passes on to the
\* successor is the property that defines the set.
LEMMA SetInduction ==
    ASSUME NEW T, 0 \in T, \A n \in Nat : n \in T => n + 1 \in T
    PROVE  Nat \subseteq T
  <1> SUFFICES ASSUME Nat \ T # {} PROVE FALSE
    OBVIOUS
  <1>1. PICK x \in Nat \ T : \A y \in Nat \ T : x <= y
    BY LeastNat
  <1>2. x # 0 /\ x \in Nat
    OBVIOUS
  <1>3. x - 1 \in Nat /\ ~ (x <= x - 1) /\ (x - 1) + 1 = x
    BY <1>2, SMT
  <1>4. x - 1 \in T
    BY <1>1, <1>3
  <1> QED BY <1>3, <1>4

\* indexOf finds an entry that holds the address, and the first one.
LEMMA IndexOfProperties ==
    ASSUME NEW S, NEW A \in Seq(S), NEW a, Contains(A, a)
    PROVE  /\ IndexOf(A, a) \in 1 .. Len(A)
           /\ A[IndexOf(A, a)] = a
           /\ \A j \in 1 .. (IndexOf(A, a) - 1) : A[j] # a
  <1> DEFINE T == {i \in DOMAIN A : A[i] = a}
             First(i) == A[i] = a /\ \A j \in 1 .. (i - 1) : A[j] # a
  <1>1. DOMAIN A = 1 .. Len(A) /\ Len(A) \in Nat
    BY LenProperties
  <1>2. T \subseteq Nat /\ T # {}
    BY <1>1, SMT DEF Contains
  <1>3. PICK x \in T : \A y \in T : x <= y
    BY <1>2, LeastNat
  <1>4. x \in DOMAIN A /\ First(x)
    <2>1. x \in 1 .. Len(A) /\ A[x] = a
      BY <1>1
    <2>2. ASSUME NEW j \in 1 .. (x - 1), A[j] = a PROVE FALSE
      <3>1. j \in DOMAIN A /\ j < x
        BY <1>1, <2>1, SMT
      <3> QED BY <1>1, <1>3, <2>1, <2>2, <3>1, SMT
    <2> QED BY <1>1, <2>1, <2>2
  <1>5. IndexOf(A, a) \in DOMAIN A /\ First(IndexOf(A, a))
    BY <1>4 DEF IndexOf
  <1> QED BY <1>1, <1>5

LEMMA PopProperties ==
    ASSUME NEW S, NEW A \in Seq(S), NEW index \in 1 .. Len(A)
    PROVE  /\ Pop(A, index) \in Seq(S)
           /\ Len(Pop(A, index)) = Len(A) - 1
           /\ DOMAIN Pop(A, index) = 1 .. (Len(A) - 1)
           /\ \A i \in 1 .. (Len(A) - 1) :
                Pop(A, index)[i] = IF i < index THEN A[i] ELSE A[i + 1]
  <1>1. Len(A) \in Nat /\ A \in [1 .. Len(A) -> S]
    BY LenProperties
  <1>2. Len(A) - 1 \in Nat
    BY <1>1, SMT
  <1>3. \A i \in 1 .. (Len(A) - 1) : i \in 1 .. Len(A) /\ i + 1 \in 1 .. Len(A)
    BY <1>1, SMT
  <1>4. Pop(A, index) \in [1 .. (Len(A) - 1) -> S]
    BY <1>1, <1>3 DEF Pop
  <1>5. Pop(A, index) \in Seq(S)
    BY <1>2, <1>4, SeqDef
  <1>6. DOMAIN Pop(A, index) = 1 .. (Len(A) - 1)
    BY DEF Pop
  <1>7. Len(Pop(A, index)) = Len(A) - 1
    <2>1. Len(Pop(A, index)) \in Nat /\ DOMAIN Pop(A, index) = 1 .. Len(Pop(A, index))
      BY <1>5, LenProperties
    <2> QED BY <1>2, <1>6, <2>1, SMT
  <1> QED BY <1>5, <1>6, <1>7 DEF Pop

LEMMA RemoveType ==
    ASSUME NEW S, NEW A \in Seq(S), NEW a, Contains(A, a)
    PROVE  Remove(A, a) \in Seq(S)
  BY IndexOfProperties, PopProperties DEF Remove

\* In an array without duplicates, remove leaves exactly the other addresses,
\* each still once.
THEOREM RemoveProperties ==
    ASSUME NEW S, NEW A \in Seq(S), NEW a, Contains(A, a), ~HasDuplicate(A)
    PROVE  /\ ~HasDuplicate(Remove(A, a))
           /\ Elements(Remove(A, a)) = Elements(A) \ {a}
  <1> DEFINE x == IndexOf(A, a)
             B == Remove(A, a)
  <1>1. Len(A) \in Nat /\ DOMAIN A = 1 .. Len(A)
    BY LenProperties
  <1>2. x \in 1 .. Len(A) /\ A[x] = a
    BY IndexOfProperties
  <1>3. /\ DOMAIN B = 1 .. (Len(A) - 1)
        /\ \A i \in 1 .. (Len(A) - 1) : B[i] = IF i < x THEN A[i] ELSE A[i + 1]
    BY <1>2, PopProperties DEF Remove
  <1> HIDE DEF x, B
  <1>4. \A i, j \in 1 .. Len(A) : A[i] = A[j] => i = j
    BY <1>1, SMT DEF HasDuplicate
  <1>5. ~HasDuplicate(B)
    <2>1. SUFFICES ASSUME NEW i \in 1 .. (Len(A) - 1), NEW j \in 1 .. (Len(A) - 1),
                          i < j, B[i] = B[j]
                   PROVE  FALSE
      BY <1>3 DEF HasDuplicate
    <2>2. /\ i \in 1 .. Len(A) /\ i + 1 \in 1 .. Len(A)
          /\ j \in 1 .. Len(A) /\ j + 1 \in 1 .. Len(A)
      BY <1>1, SMT
    <2>3. PICK k \in 1 .. Len(A) : B[i] = A[k] /\ ((k = i /\ i < x) \/ (k = i + 1 /\ ~(i < x)))
      BY <1>3, <2>2
    <2>4. PICK l \in 1 .. Len(A) : B[j] = A[l] /\ ((l = j /\ j < x) \/ (l = j + 1 /\ ~(j < x)))
      BY <1>3, <2>2
    <2>5. k # l
      BY <1>1, <1>2, <2>1, <2>3, <2>4, SMT
    <2> QED BY <1>4, <2>1, <2>3, <2>4, <2>5
  <1>6. Elements(B) \subseteq Elements(A) \ {a}
    <2>1. SUFFICES ASSUME NEW i \in 1 .. (Len(A) - 1)
                   PROVE  B[i] \in Elements(A) /\ B[i] # a
      BY <1>3 DEF Elements
    <2>2. i \in 1 .. Len(A) /\ i + 1 \in 1 .. Len(A) /\ i \in Nat
      BY <1>1, SMT
    <2>3. CASE i < x
      <3>1. B[i] = A[i] /\ i # x
        BY <1>2, <1>3, <2>2, <2>3, SMT
      <3> QED BY <1>1, <1>2, <1>4, <2>2, <3>1 DEF Elements
    <2>4. CASE ~(i < x)
      <3>1. B[i] = A[i + 1] /\ i + 1 # x
        BY <1>2, <1>3, <2>2, <2>4, SMT
      <3> QED BY <1>1, <1>2, <1>4, <2>2, <3>1 DEF Elements
    <2> QED BY <2>3, <2>4
  <1>7. Elements(A) \ {a} \subseteq Elements(B)
    <2>1. SUFFICES ASSUME NEW k \in 1 .. Len(A), A[k] # a
                   PROVE  \E i \in 1 .. (Len(A) - 1) : B[i] = A[k]
      BY <1>1, <1>3 DEF Elements
    <2>2. CASE k < x
      <3>1. k \in 1 .. (Len(A) - 1) /\ B[k] = A[k]
        BY <1>1, <1>2, <1>3, <2>2, SMT
      <3> QED BY <3>1
    <2>3. CASE ~(k < x)
      <3>1. k - 1 \in 1 .. (Len(A) - 1) /\ ~(k - 1 < x) /\ (k - 1) + 1 = k
        BY <1>1, <1>2, <2>1, <2>3, SMT
      <3>2. B[k - 1] = A[k]
        BY <1>3, <3>1
      <3> QED BY <3>1, <3>2
    <2> QED BY <2>2, <2>3
  <1> QED BY <1>5, <1>6, <1>7 DEF B

\* push adds one address; it creates a duplicate only if the array lists it.
LEMMA PushProperties ==
    ASSUME NEW S, NEW A \in Seq(S), NEW a \in S
    PROVE  /\ Append(A, a) \in Seq(S)
           /\ Elements(Append(A, a)) = Elements(A) \cup {a}
           /\ ~HasDuplicate(A) /\ ~Contains(A, a) => ~HasDuplicate(Append(A, a))
  <1> DEFINE B == Append(A, a)
  <1>1. Len(A) \in Nat /\ DOMAIN A = 1 .. Len(A)
    BY LenProperties
  <1>2. /\ B \in Seq(S) /\ Len(B) = Len(A) + 1
        /\ \A i \in 1 .. Len(A) : B[i] = A[i]
        /\ B[Len(A) + 1] = a
    BY AppendProperties
  <1>3. DOMAIN B = 1 .. (Len(A) + 1)
    BY <1>2, LenProperties
  <1> HIDE DEF B
  <1>4. \A i \in 1 .. (Len(A) + 1) : i \in 1 .. Len(A) \/ i = Len(A) + 1
    BY <1>1, SMT
  <1>5. \A i \in 1 .. Len(A) : i \in 1 .. (Len(A) + 1)
    BY <1>1, SMT
  <1>6. Len(A) + 1 \in 1 .. (Len(A) + 1)
    BY <1>1, SMT
  <1>7. Elements(B) = Elements(A) \cup {a}
    <2>1. Elements(B) \subseteq Elements(A) \cup {a}
      BY <1>1, <1>2, <1>3, <1>4 DEF Elements
    <2>2. Elements(A) \cup {a} \subseteq Elements(B)
      BY <1>1, <1>2, <1>3, <1>5, <1>6 DEF Elements
    <2> QED BY <2>1, <2>2
  <1>8. ASSUME ~HasDuplicate(A), ~Contains(A, a) PROVE ~HasDuplicate(B)
    <2>1. SUFFICES ASSUME NEW i \in 1 .. (Len(A) + 1), NEW j \in 1 .. (Len(A) + 1),
                          i < j, B[i] = B[j]
                   PROVE  FALSE
      BY <1>3 DEF HasDuplicate
    <2>2. i \in 1 .. Len(A)
      BY <1>1, <2>1, SMT
    <2>3. CASE j \in 1 .. Len(A)
      BY <1>1, <1>2, <1>8, <2>1, <2>2, <2>3 DEF HasDuplicate
    <2>4. CASE j = Len(A) + 1
      BY <1>1, <1>2, <1>8, <2>1, <2>2, <2>4 DEF Contains
    <2> QED BY <1>4, <2>3, <2>4
  <1> QED BY <1>2, <1>7, <1>8 DEF B

LEMMA ContainsElements ==
    ASSUME NEW A, NEW a
    PROVE  Contains(A, a) <=> a \in Elements(A)
  BY DEF Contains, Elements

\* A loop over an array without duplicates visits an address at most once.
LEMMA OccurrencesUnique ==
    ASSUME NEW S, NEW A \in Seq(S), NEW a, ~HasDuplicate(A)
    PROVE  Occurrences(A, a) = IF Contains(A, a) THEN 1 ELSE 0
  <1> DEFINE T == {i \in DOMAIN A : A[i] = a}
  <1>1. Len(A) \in Nat /\ DOMAIN A = 1 .. Len(A)
    BY LenProperties
  <1>2. \A i, j \in T : i = j
    BY <1>1, SMT DEF HasDuplicate
  <1>3. CASE Contains(A, a)
    <2>1. PICK i \in DOMAIN A : A[i] = a
      BY <1>3 DEF Contains
    <2>2. T = {i}
      BY <1>2, <2>1
    <2> QED BY <1>3, <2>2, FS_Singleton DEF Occurrences
  <1>4. CASE ~Contains(A, a)
    <2>1. T = {}
      BY <1>4 DEF Contains
    <2> QED BY <1>4, <2>1, FS_EmptySet DEF Occurrences
  <1> QED BY <1>3, <1>4

\* remove takes one occurrence, so every other address stays listed.
LEMMA RemoveKeepsOthers ==
    ASSUME NEW S, NEW A \in Seq(S), NEW a, Contains(A, a)
    PROVE  Elements(A) \ {a} \subseteq Elements(Remove(A, a))
  <1> DEFINE x == IndexOf(A, a)
             B == Remove(A, a)
  <1>1. Len(A) \in Nat /\ DOMAIN A = 1 .. Len(A)
    BY LenProperties
  <1>2. x \in 1 .. Len(A) /\ A[x] = a
    BY IndexOfProperties
  <1>3. /\ DOMAIN B = 1 .. (Len(A) - 1)
        /\ \A i \in 1 .. (Len(A) - 1) : B[i] = IF i < x THEN A[i] ELSE A[i + 1]
    BY <1>2, PopProperties DEF Remove
  <1> HIDE DEF x, B
  <1> SUFFICES ASSUME NEW i \in DOMAIN A, A[i] # a
               PROVE  \E j \in DOMAIN B : B[j] = A[i]
    BY DEF Elements, B
  <1>4. CASE i < x
    <2>1. i \in DOMAIN B /\ B[i] = A[i]
      BY <1>1, <1>2, <1>3, <1>4, SMT
    <2> QED BY <2>1
  <1>5. CASE ~(i < x)
    <2>1. i - 1 \in DOMAIN B /\ B[i - 1] = A[i]
      BY <1>1, <1>2, <1>3, <1>5, SMT
    <2> QED BY <2>1
  <1> QED BY <1>4, <1>5

-----------------------------------------------------------------------------
(* Counting occurrences *)

\* A one-to-one correspondence, given as a function, equates cardinalities.
LEMMA SameSize ==
    ASSUME NEW S, NEW T, IsFiniteSet(S), NEW f \in [S -> T],
           \A x, y \in S : f[x] = f[y] => x = y,
           \A t \in T : \E x \in S : f[x] = t
    PROVE  IsFiniteSet(T) /\ Cardinality(T) = Cardinality(S)
  <1>1. f \in Bijection(S, T)
    BY DEF Bijection, Injection, Surjection, IsInjective
  <1>2. ExistsBijection(S, T)
    BY <1>1 DEF ExistsBijection
  <1> QED BY <1>2, FS_Bijection

LEMMA OccurrencesFinite ==
    ASSUME NEW S, NEW A \in Seq(S), NEW b
    PROVE  IsFiniteSet({i \in DOMAIN A : A[i] = b}) /\ Occurrences(A, b) \in Nat
  <1>1. DOMAIN A = 1 .. Len(A) /\ Len(A) \in Int
    BY LenProperties
  <1>2. IsFiniteSet(DOMAIN A)
    BY <1>1, FS_Interval
  <1>3. IsFiniteSet({i \in DOMAIN A : A[i] = b})
    BY <1>2, FS_Subset
  <1> QED BY <1>3, FS_CardinalityType DEF Occurrences

LEMMA OccurrencesAppend ==
    ASSUME NEW S, NEW A \in Seq(S), NEW a \in S, NEW b
    PROVE  Occurrences(Append(A, a), b) = Occurrences(A, b) + (IF a = b THEN 1 ELSE 0)
  <1> DEFINE B == Append(A, a)
             T == {i \in DOMAIN A : A[i] = b}
             U == {i \in DOMAIN B : B[i] = b}
  <1>1. /\ Len(A) \in Nat /\ DOMAIN A = 1 .. Len(A)
        /\ DOMAIN B = 1 .. (Len(A) + 1)
        /\ \A i \in 1 .. Len(A) : B[i] = A[i]
        /\ B[Len(A) + 1] = a
    BY LenProperties, AppendProperties
  <1>2. IsFiniteSet(T) /\ Cardinality(T) \in Nat
    BY OccurrencesFinite, FS_CardinalityType
  <1> HIDE DEF B
  <1>3. CASE a = b
    <2>1. U = T \cup {Len(A) + 1} /\ Len(A) + 1 \notin T
      BY <1>1, <1>3, SMT
    <2> QED BY <1>2, <1>3, <2>1, FS_AddElement DEF Occurrences, B
  <1>4. CASE a # b
    <2>1. U = T
      BY <1>1, <1>4, SMT
    <2>2. Cardinality(U) = Cardinality(T)
      BY <2>1
    <2> HIDE DEF T, U
    <2>3. Cardinality(U) = Cardinality(T) + 0
      BY <1>2, <2>2
    <2> USE DEF T, U
    <2>4. Occurrences(B, b) = Occurrences(A, b) + 0
      BY <2>3 DEF Occurrences
    <2> QED BY <1>4, <2>4 DEF B
  <1> QED BY <1>3, <1>4

LEMMA OccurrencesRemove ==
    ASSUME NEW S, NEW A \in Seq(S), NEW a, Contains(A, a), NEW b
    PROVE  Occurrences(Remove(A, a), b) = Occurrences(A, b) - (IF a = b THEN 1 ELSE 0)
  <1> DEFINE x == IndexOf(A, a)
             B == Remove(A, a)
             T == {i \in DOMAIN A : A[i] = b}
             U == {i \in DOMAIN B : B[i] = b}
             f == [i \in T \ {x} |-> IF i < x THEN i ELSE i - 1]
  <1>1. Len(A) \in Nat /\ DOMAIN A = 1 .. Len(A)
    BY LenProperties
  <1>2. x \in 1 .. Len(A) /\ A[x] = a
    BY IndexOfProperties
  <1>3. /\ DOMAIN B = 1 .. (Len(A) - 1)
        /\ \A i \in 1 .. (Len(A) - 1) : B[i] = IF i < x THEN A[i] ELSE A[i + 1]
    BY <1>2, PopProperties DEF Remove
  <1>4. IsFiniteSet(T) /\ Cardinality(T) \in Nat
    BY OccurrencesFinite, FS_CardinalityType
  <1> HIDE DEF x, B
  <1>4b. /\ IsFiniteSet(T \ {x})
         /\ Cardinality(T \ {x}) = IF x \in T THEN Cardinality(T) - 1 ELSE Cardinality(T)
    <2> HIDE DEF T
    <2> QED BY <1>4, FS_RemoveElement
  <1>5. \A i \in T \ {x} : f[i] \in U
    <2> SUFFICES ASSUME NEW i \in T \ {x} PROVE f[i] \in U
      OBVIOUS
    <2>1. CASE i < x
      BY <1>1, <1>2, <1>3, <2>1, SMT
    <2>2. CASE ~(i < x)
      BY <1>1, <1>2, <1>3, <2>2, SMT
    <2> QED BY <2>1, <2>2
  <1>6. f \in [T \ {x} -> U]
    BY <1>5
  <1>7. \A i, j \in T \ {x} : f[i] = f[j] => i = j
    BY <1>1, <1>2, SMT
  <1>8. \A k \in U : \E i \in T \ {x} : f[i] = k
    <2> SUFFICES ASSUME NEW k \in U PROVE \E i \in T \ {x} : f[i] = k
      OBVIOUS
    <2>1. CASE k < x
      <3>1. k \in T \ {x} /\ f[k] = k
        BY <1>1, <1>2, <1>3, <2>1, SMT
      <3> QED BY <3>1
    <2>2. CASE ~(k < x)
      <3>1. k + 1 \in T \ {x} /\ f[k + 1] = k
        BY <1>1, <1>2, <1>3, <2>2, SMT
      <3> QED BY <3>1
    <2> QED BY <2>1, <2>2
  <1> HIDE DEF f
  <1>9. Cardinality(U) = Cardinality(T \ {x})
    BY <1>4b, <1>6, <1>7, <1>8, SameSize
  <1>10. Cardinality(T \ {x}) = Cardinality(T) - (IF a = b THEN 1 ELSE 0)
    <2>1. x \in T <=> a = b
      BY <1>1, <1>2
    <2> HIDE DEF T
    <2> QED BY <1>4, <1>4b, <2>1
  <1> QED BY <1>9, <1>10 DEF Occurrences, B

-----------------------------------------------------------------------------
(* Rounding *)

\* Integer division by a positive number, as a product: the two inequalities
\* every other fact about rounding is derived from.
LEMMA DivBounds ==
    ASSUME NEW a \in Int, NEW b \in Nat \ {0}
    PROVE  /\ a \div b \in Int
           /\ b * (a \div b) <= a
           /\ a < b * (a \div b) + b
  BY SMT

LEMMA DivNat ==
    ASSUME NEW a \in Nat, NEW b \in Nat \ {0}
    PROVE  a \div b \in Nat
  BY SMT

\* A quotient is found by its bounds.
LEMMA DivUnique ==
    ASSUME NEW a \in Int, NEW b \in Nat \ {0}, NEW q \in Int,
           b * q <= a, a < b * q + b
    PROVE  a \div b = q
  BY SMT

LEMMA CancelFactor ==
    ASSUME NEW k \in Nat \ {0}, NEW a \in Int, NEW b \in Int, k * a <= k * b
    PROVE  a <= b
  BY SMT

LEMMA ProductMonotone ==
    ASSUME NEW k \in Nat, NEW a \in Int, NEW b \in Int
    PROVE  /\ a <= b => k * a <= k * b
           /\ k > 0 /\ a < b => k * a < k * b
  BY SMT

LEMMA ProductBound ==
    ASSUME NEW a \in Nat, NEW b \in Nat, NEW n \in Nat, NEW k \in Nat, a <= n, b <= k
    PROVE  a * b <= n * k
  <1>1. a * b <= n * b
    BY SMT
  <1>2. n * b <= n * k
    BY SMT
  <1> QED BY <1>1, <1>2, SMT

\* divDown rounds towards the lesser number on both sides of zero: it is the
\* floor, although the code reaches it from a division that truncates.
THEOREM DivDownIsFloor ==
    ASSUME NEW a \in Int, NEW b \in Nat \ {0}
    PROVE  DivDown(a, b) = a \div b
  <1>1. CASE a >= 0
    BY <1>1, DivBounds, SMT DEF DivDown, TruncatedDiv
  <1>2. CASE a < 0
    <2>1. -a \in Nat /\ (-a) \div b \in Int
      BY <1>2, SMT
    <2>2. CASE a % b = 0
      BY <1>2, <2>1, <2>2, SMT DEF DivDown, TruncatedDiv
    <2>3. CASE a % b # 0
      BY <1>2, <2>1, <2>3, SMT DEF DivDown, TruncatedDiv
    <2> QED BY <2>2, <2>3
  <1> QED BY <1>1, <1>2, SMT

LEMMA ConservativeType ==
    ASSUME NEW a \in Int, NEW b \in Int, NEW d \in Nat \ {0}
    PROVE  ConservativePreciseMul(a, b) \in Int /\ ConservativePreciseDiv(a, d) \in Int
  <1>1. a * b \in Int /\ a * PRECISE_UNIT \in Int
    BY PreciseUnitAssumption, SMT
  <1> QED BY <1>1, DivDownIsFloor, DivBounds, PreciseUnitAssumption
          DEF ConservativePreciseMul, ConservativePreciseDiv

\* A real unit read from a virtual one never exceeds the exact product.
LEMMA ConservativeMulBounds ==
    ASSUME NEW a \in Nat, NEW b \in Nat
    PROVE  /\ ConservativePreciseMul(a, b) \in Nat
           /\ PRECISE_UNIT * ConservativePreciseMul(a, b) <= a * b
  <1>1. a * b \in Nat
    BY SMT
  <1>2. ConservativePreciseMul(a, b) = (a * b) \div PRECISE_UNIT
    BY <1>1, DivDownIsFloor, PreciseUnitAssumption DEF ConservativePreciseMul
  <1> QED BY <1>1, <1>2, DivBounds, DivNat, PreciseUnitAssumption

LEMMA ConservativeDivBounds ==
    ASSUME NEW a \in Nat, NEW b \in Nat \ {0}
    PROVE  /\ ConservativePreciseDiv(a, b) \in Nat
           /\ b * ConservativePreciseDiv(a, b) <= a * PRECISE_UNIT
  <1>1. a * PRECISE_UNIT \in Nat
    BY PreciseUnitAssumption, SMT
  <1>2. ConservativePreciseDiv(a, b) = (a * PRECISE_UNIT) \div b
    BY <1>1, DivDownIsFloor DEF ConservativePreciseDiv
  <1> QED BY <1>1, <1>2, DivBounds, DivNat

\* A floor taken twice, of a product with a floor, in exact terms: what is lost.
LEMMA FloorOfFloor ==
    ASSUME NEW a \in Nat, NEW b \in Nat \ {0}, NEW k \in Nat, NEW d \in Nat \ {0}
    PROVE  LET r == (k * (a \div b)) \div d
           IN  /\ a \div b \in Nat /\ r \in Nat
               /\ (b * d) * r <= k * a
               /\ k * a < (b * d) * (r + 1) + k * b
  <1> DEFINE q == a \div b
             p == k * q
             r == p \div d
  <1>1. q \in Nat /\ b * q <= a /\ a < b * q + b
    BY DivBounds, DivNat
  <1> HIDE DEF q
  <1>2. p \in Nat
    BY <1>1, SMT
  <1> HIDE DEF p
  <1>3. r \in Nat /\ d * r <= p /\ p < d * r + d
    BY <1>2, DivBounds, DivNat
  <1> HIDE DEF r
  <1>4. b * (d * r) <= b * p /\ b * p < b * (d * r + d)
    <2>1. d * r \in Int /\ d * r + d \in Int
      BY <1>3, SMT
    <2> QED BY <1>2, <1>3, <2>1, ProductMonotone
  <1>5. b * p = k * (b * q) /\ b * (d * r) = (b * d) * r /\ b * (d * r + d) = (b * d) * (r + 1)
    BY <1>1, <1>2, <1>3, SMT DEF p
  <1>6. k * (b * q) <= k * a /\ k * a <= k * (b * q) + k * b
    <2>1. b * q \in Int /\ b * q + b \in Int
      BY <1>1, SMT
    <2>2. k * (b * q) <= k * a /\ k * a <= k * (b * q + b)
      BY <1>1, <2>1, ProductMonotone, SMT
    <2>3. k * (b * q + b) = k * (b * q) + k * b
      BY <1>1, SMT
    <2> QED BY <2>2, <2>3
  <1>7. /\ k * a \in Int /\ k * (b * q) \in Int /\ k * b \in Int
        /\ (b * d) * r \in Int /\ (b * d) * (r + 1) \in Int
    BY <1>1, <1>3, SMT
  <1> QED BY <1>1, <1>3, <1>4, <1>5, <1>6, <1>7, SMT DEF q, p, r

\* Comparing two roundings of the same number: a strict bound cancels.
LEMMA CancelStrict ==
    ASSUME NEW k \in Nat, NEW a \in Int, NEW b \in Int, k * a < k * b
    PROVE  a < b
  <1>1. CASE b <= a
    <2>1. k * b <= k * a
      BY <1>1, ProductMonotone
    <2>2. k * a \in Int /\ k * b \in Int
      BY SMT
    <2> QED BY <2>1, <2>2
  <1> QED BY <1>1, SMT

\* With the identity multiplier both conversions are exact.
LEMMA IdentityMultiplier ==
    ASSUME NEW a \in Int
    PROVE  /\ ConservativePreciseMul(a, PRECISE_UNIT) = a
           /\ ConservativePreciseDiv(a, PRECISE_UNIT) = a
  <1>1. /\ a * PRECISE_UNIT \in Int
        /\ PRECISE_UNIT * a <= a * PRECISE_UNIT
        /\ a * PRECISE_UNIT < PRECISE_UNIT * a + PRECISE_UNIT
    BY PreciseUnitAssumption, SMT
  <1>2. (a * PRECISE_UNIT) \div PRECISE_UNIT = a
    BY <1>1, DivUnique, PreciseUnitAssumption
  <1> QED BY <1>1, <1>2, DivDownIsFloor, PreciseUnitAssumption
          DEF ConservativePreciseMul, ConservativePreciseDiv

LEMMA PreciseMulBounds ==
    ASSUME NEW a \in Nat, NEW b \in Nat
    PROVE  /\ PreciseMul(a, b) \in Nat
           /\ PRECISE_UNIT * PreciseMul(a, b) <= a * b
           /\ a * b < PRECISE_UNIT * PreciseMul(a, b) + PRECISE_UNIT
  <1>1. a * b \in Nat
    BY SMT
  <1> QED BY <1>1, DivBounds, DivNat, PreciseUnitAssumption DEF PreciseMul

\* The amount deposited for an issue covers the exact product.
LEMMA PreciseMulCeilBounds ==
    ASSUME NEW a \in Nat, NEW b \in Nat
    PROVE  /\ PreciseMulCeil(a, b) \in Nat
           /\ a * b <= PRECISE_UNIT * PreciseMulCeil(a, b)
           /\ PRECISE_UNIT * PreciseMulCeil(a, b) < a * b + PRECISE_UNIT
  <1>1. CASE a = 0 \/ b = 0
    <2>1. a * b = 0 /\ PreciseMulCeil(a, b) = 0
      BY <1>1, SMT DEF PreciseMulCeil
    <2> QED BY <2>1, PreciseUnitAssumption, SMT
  <1>2. CASE a # 0 /\ b # 0
    <2> DEFINE p == a * b - 1
               q == p \div PRECISE_UNIT
    <2>1. p \in Nat
      BY <1>2, SMT
    <2>2. q \in Nat /\ PRECISE_UNIT * q <= p /\ p < PRECISE_UNIT * q + PRECISE_UNIT
      BY <2>1, DivBounds, DivNat, PreciseUnitAssumption
    <2>3. PreciseMulCeil(a, b) = q + 1
      BY <1>2 DEF PreciseMulCeil
    <2>4. PRECISE_UNIT * (q + 1) = PRECISE_UNIT * q + PRECISE_UNIT
      BY <2>2, PreciseUnitAssumption, SMT
    <2>5. a * b \in Nat
      BY SMT
    <2> QED BY <2>2, <2>3, <2>4, <2>5, PreciseUnitAssumption, SMT
  <1> QED BY <1>1, <1>2

\* A unit computed from a balance never promises more than the balance.
LEMMA PreciseDivBounds ==
    ASSUME NEW a \in Nat, NEW b \in Nat \ {0}
    PROVE  /\ PreciseDiv(a, b) \in Nat
           /\ b * PreciseDiv(a, b) <= a * PRECISE_UNIT
  <1>1. a * PRECISE_UNIT \in Nat
    BY PreciseUnitAssumption, SMT
  <1> QED BY <1>1, DivBounds, DivNat DEF PreciseDiv

-----------------------------------------------------------------------------
(* Storage *)

\* The fields of a storage record.
LEMMA StorageFields ==
    ASSUME NEW st \in Storage
    PROVE  /\ st.components \in Seq(Components)
           /\ st.virtualUnit \in [Components -> Int]
           /\ st.externalPositionModules \in [Components -> Seq(Modules)]
           /\ st.externalVirtualUnit \in [Components -> [Modules -> Int]]
           /\ st.externalData \in [Components -> [Modules -> Data]]
           /\ st.positionMultiplier \in Nat \ {0}
           /\ st.totalSupply \in Nat
  BY DEF Storage

LEMMA InitialStorageType ==
    ASSUME NEW A \in Seq(Components), NEW units \in [Components -> Int]
    PROVE  InitialStorage(A, units) \in Storage
  <1>1. << >> \in Seq(Modules)
    BY EmptySeq
  <1> QED BY <1>1, DataAssumption, PreciseUnitAssumption DEF InitialStorage, Storage

LEMMA ConversionType ==
    ASSUME NEW st \in Storage, NEW u \in Int
    PROVE  ConvertRealToVirtualUnit(st, u) \in Int /\ ConvertVirtualToRealUnit(st, u) \in Int
  <1>1. st.positionMultiplier \in Nat \ {0} /\ st.positionMultiplier \in Int
    BY StorageFields
  <1> QED BY <1>1, ConservativeType DEF ConvertRealToVirtualUnit, ConvertVirtualToRealUnit

LEMMA AddComponentType ==
    ASSUME NEW st \in Storage, NEW c \in Components
    PROVE  AddComponent(st, c) \in Storage
  <1>1. Append(st.components, c) \in Seq(Components)
    BY StorageFields, PushProperties
  <1> QED BY <1>1 DEF AddComponent, Storage

LEMMA RemoveComponentType ==
    ASSUME NEW st \in Storage, NEW c \in Components, CanRemoveComponent(st, c)
    PROVE  RemoveComponent(st, c) \in Storage
  <1>1. Remove(st.components, c) \in Seq(Components)
    BY StorageFields, RemoveType DEF CanRemoveComponent, IsComponent
  <1> QED BY <1>1 DEF RemoveComponent, Storage

LEMMA EditDefaultPositionUnitType ==
    ASSUME NEW st \in Storage, NEW c \in Components, NEW u \in Int
    PROVE  EditDefaultPositionUnit(st, c, u) \in Storage
  BY ConversionType DEF EditDefaultPositionUnit, Storage

LEMMA AddExternalPositionModuleType ==
    ASSUME NEW st \in Storage, NEW c \in Components, NEW m \in Modules
    PROVE  AddExternalPositionModule(st, c, m) \in Storage
  <1>1. Append(st.externalPositionModules[c], m) \in Seq(Modules)
    BY StorageFields, PushProperties
  <1> QED BY <1>1 DEF AddExternalPositionModule, Storage

LEMMA RemoveExternalPositionModuleType ==
    ASSUME NEW st \in Storage, NEW c \in Components, NEW m \in Modules,
           CanRemoveExternalPositionModule(st, c, m)
    PROVE  RemoveExternalPositionModule(st, c, m) \in Storage
  <1>1. Remove(st.externalPositionModules[c], m) \in Seq(Modules)
    BY StorageFields, RemoveType DEF CanRemoveExternalPositionModule, IsExternalPositionModule
  <1>2. /\ [st.externalPositionModules EXCEPT ![c] = Remove(@, m)] \in [Components -> Seq(Modules)]
        /\ [st.externalVirtualUnit EXCEPT ![c][m] = 0] \in [Components -> [Modules -> Int]]
        /\ [st.externalData EXCEPT ![c][m] = NoData] \in [Components -> [Modules -> Data]]
    BY <1>1, StorageFields, DataAssumption
  <1> QED BY <1>2 DEF RemoveExternalPositionModule, Storage

LEMMA EditExternalPositionUnitType ==
    ASSUME NEW st \in Storage, NEW c \in Components, NEW m \in Modules, NEW u \in Int
    PROVE  EditExternalPositionUnit(st, c, m, u) \in Storage
  <1>1. [st.externalVirtualUnit EXCEPT ![c][m] = ConvertRealToVirtualUnit(st, u)]
            \in [Components -> [Modules -> Int]]
    BY StorageFields, ConversionType
  <1> QED BY <1>1 DEF EditExternalPositionUnit, Storage

LEMMA EditExternalPositionDataType ==
    ASSUME NEW st \in Storage, NEW c \in Components, NEW m \in Modules, NEW d \in Data
    PROVE  EditExternalPositionData(st, c, m, d) \in Storage
  <1>1. [st.externalData EXCEPT ![c][m] = d] \in [Components -> [Modules -> Data]]
    BY StorageFields
  <1> QED BY <1>1 DEF EditExternalPositionData, Storage

LEMMA EditPositionMultiplierType ==
    ASSUME NEW st \in Storage, NEW x \in Nat, CanEditPositionMultiplier(x)
    PROVE  EditPositionMultiplier(st, x) \in Storage
  <1>1. x \in Nat \ {0}
    BY SMT DEF CanEditPositionMultiplier
  <1> QED BY <1>1 DEF EditPositionMultiplier, Storage

LEMMA SupplyType ==
    ASSUME NEW st \in Storage, NEW q \in Nat
    PROVE  /\ Mint(st, q) \in Storage
           /\ CanBurn(st, q) => Burn(st, q) \in Storage
  <1>1. st.totalSupply + q \in Nat
    BY StorageFields, SMT
  <1>2. CanBurn(st, q) => st.totalSupply - q \in Nat
    BY StorageFields, SMT DEF CanBurn
  <1>3. Mint(st, q) \in Storage
    BY <1>1 DEF Mint, Storage
  <1>4. CanBurn(st, q) => Burn(st, q) \in Storage
    BY <1>2 DEF Burn, Storage
  <1> QED BY <1>3, <1>4

LEMMA EditDefaultPositionType ==
    ASSUME NEW st \in Storage, NEW c \in Components, NEW u \in Int,
           CanEditDefaultPosition(st, c, u)
    PROVE  EditDefaultPosition(st, c, u) \in Storage
  <1>1. TrackDefaultComponent(st, c, u) \in Storage
    BY AddComponentType, RemoveComponentType DEF TrackDefaultComponent, CanEditDefaultPosition
  <1> QED BY <1>1, EditDefaultPositionUnitType DEF EditDefaultPosition

\* editDefaultPosition stores the converted unit; supply and multiplier stay.
LEMMA EditedFields ==
    ASSUME NEW st \in Storage, NEW c \in Components, NEW u \in Int
    PROVE  LET new == EditDefaultPosition(st, c, u) IN
           /\ new.virtualUnit = [st.virtualUnit EXCEPT ![c] = ConvertRealToVirtualUnit(st, u)]
           /\ new.totalSupply = st.totalSupply
           /\ new.positionMultiplier = st.positionMultiplier
           /\ new.externalPositionModules = st.externalPositionModules
  <1> DEFINE mid == TrackDefaultComponent(st, c, u)
  <1>1. /\ mid.virtualUnit = st.virtualUnit /\ mid.totalSupply = st.totalSupply
        /\ mid.positionMultiplier = st.positionMultiplier
        /\ mid.externalPositionModules = st.externalPositionModules
        /\ mid = [components              |-> mid.components,
                  virtualUnit             |-> mid.virtualUnit,
                  externalPositionModules |-> mid.externalPositionModules,
                  externalVirtualUnit     |-> mid.externalVirtualUnit,
                  externalData            |-> mid.externalData,
                  positionMultiplier      |-> mid.positionMultiplier,
                  totalSupply             |-> mid.totalSupply]
    BY DEF TrackDefaultComponent, AddComponent, RemoveComponent, Storage
  <1> HIDE DEF mid
  <1>2. ConvertRealToVirtualUnit(mid, u) = ConvertRealToVirtualUnit(st, u)
    BY <1>1 DEF ConvertRealToVirtualUnit
  <1>3. EditDefaultPosition(st, c, u) = EditDefaultPositionUnit(mid, c, u)
    BY DEF EditDefaultPosition, mid
  <1> QED BY <1>1, <1>2, <1>3 DEF EditDefaultPositionUnit

-----------------------------------------------------------------------------
(* Tracking, while the multiplier is one *)

\* A storage that no fee has rescaled.
Unscaled(st) ==
    /\ st \in Storage
    /\ st.positionMultiplier = PRECISE_UNIT
    /\ \A c \in Components : st.virtualUnit[c] >= 0

LEMMA UnscaledConversions ==
    ASSUME NEW st, Unscaled(st), NEW u \in Int
    PROVE  ConvertRealToVirtualUnit(st, u) = u /\ ConvertVirtualToRealUnit(st, u) = u
  BY IdentityMultiplier DEF Unscaled, ConvertRealToVirtualUnit, ConvertVirtualToRealUnit

LEMMA UnscaledUnits ==
    ASSUME NEW st, Unscaled(st), NEW c \in Components
    PROVE  /\ DefaultPositionRealUnit(st, c) = st.virtualUnit[c]
           /\ st.virtualUnit[c] \in Nat
           /\ \A m \in Modules : ExternalPositionRealUnit(st, c, m) = st.externalVirtualUnit[c][m]
  <1>1. st.virtualUnit[c] \in Int /\ \A m \in Modules : st.externalVirtualUnit[c][m] \in Int
    BY StorageFields DEF Unscaled
  <1> QED BY <1>1, UnscaledConversions, SMT
          DEF Unscaled, DefaultPositionRealUnit, ExternalPositionRealUnit

\* Adding a component that is not listed, or removing one that is, keeps the
\* array free of duplicates and changes nothing else.
LEMMA AddedComponent ==
    ASSUME NEW st \in Storage, NEW c \in Components,
           ~HasDuplicate(st.components), ~IsComponent(st, c)
    PROVE  LET new == AddComponent(st, c) IN
           /\ ~HasDuplicate(new.components)
           /\ \A d \in Components : IsComponent(new, d) <=> IsComponent(st, d) \/ d = c
  <1>1. AddComponent(st, c).components = Append(st.components, c)
    BY DEF AddComponent, Storage
  <1> QED BY <1>1, StorageFields, PushProperties, ContainsElements DEF IsComponent

LEMMA RemovedComponent ==
    ASSUME NEW st \in Storage, NEW c \in Components,
           ~HasDuplicate(st.components), IsComponent(st, c)
    PROVE  LET new == RemoveComponent(st, c) IN
           /\ ~HasDuplicate(new.components)
           /\ \A d \in Components : IsComponent(new, d) <=> IsComponent(st, d) /\ d # c
  <1>1. RemoveComponent(st, c).components = Remove(st.components, c)
    BY DEF RemoveComponent, Storage
  <1> QED BY <1>1, StorageFields, RemoveProperties, ContainsElements DEF IsComponent

\* editDefaultPosition sets the one unit and keeps the component tracked.
THEOREM EditDefaultPositionTracks ==
    ASSUME NEW st, Unscaled(st), TracksComponents(st),
           NEW c \in Components, NEW u \in Nat
    PROVE  LET new == EditDefaultPosition(st, c, u) IN
           /\ CanEditDefaultPosition(st, c, u)
           /\ Unscaled(new)
           /\ TracksComponents(new)
           /\ new.virtualUnit = [st.virtualUnit EXCEPT ![c] = u]
           /\ new.totalSupply = st.totalSupply
           /\ new.externalPositionModules = st.externalPositionModules
           /\ new.externalVirtualUnit = st.externalVirtualUnit
           /\ new.externalData = st.externalData
  <1> DEFINE mid == TrackDefaultComponent(st, c, u)
             new == EditDefaultPosition(st, c, u)
  <1>1. st \in Storage /\ st.virtualUnit[c] \in Nat /\ DefaultPositionRealUnit(st, c) = st.virtualUnit[c]
    BY UnscaledUnits DEF Unscaled
  <1>2. IsComponent(st, c) <=> st.virtualUnit[c] > 0 \/ HasExternalPosition(st, c)
    BY DEF TracksComponents
  <1>3. CanEditDefaultPosition(st, c, u)
    BY <1>1, <1>2, UnscaledConversions, SMT
       DEF CanEditDefaultPosition, HasDefaultPosition, CanRemoveComponent, CanConvert
  <1>4. /\ mid \in Storage
        /\ ~HasDuplicate(mid.components)
        /\ \A d \in Components : IsComponent(mid, d) <=>
                IF d = c THEN u > 0 \/ HasExternalPosition(st, c) ELSE IsComponent(st, d)
    <2>1. ~HasDuplicate(st.components)
      BY DEF TracksComponents
    <2>2. CASE HasExternalPosition(st, c)
      BY <1>1, <1>2, <2>1, <2>2 DEF TrackDefaultComponent
    <2>3. CASE ~HasExternalPosition(st, c) /\ ~HasDefaultPosition(st, c) /\ u > 0
      <3>1. ~IsComponent(st, c)
        BY <1>1, <1>2, <2>3 DEF HasDefaultPosition
      <3> QED BY <1>1, <2>1, <2>3, <3>1, AddComponentType, AddedComponent DEF TrackDefaultComponent
    <2>4. CASE ~HasExternalPosition(st, c) /\ HasDefaultPosition(st, c) /\ u = 0
      <3>1. IsComponent(st, c)
        BY <1>1, <1>2, <2>4 DEF HasDefaultPosition
      <3>2. mid = RemoveComponent(st, c)
        BY <2>4 DEF TrackDefaultComponent
      <3> QED BY <1>1, <2>1, <2>4, <3>1, <3>2, RemoveComponentType, RemovedComponent
              DEF CanRemoveComponent
    <2>5. CASE /\ ~HasExternalPosition(st, c)
               /\ ~(~HasDefaultPosition(st, c) /\ u > 0)
               /\ ~(HasDefaultPosition(st, c) /\ u = 0)
      <3>1. mid = st
        BY <2>5 DEF TrackDefaultComponent
      <3>2. IsComponent(st, c) <=> u > 0
        BY <1>1, <1>2, <2>5, SMT DEF HasDefaultPosition
      <3> QED BY <1>1, <2>1, <2>5, <3>1, <3>2
    <2> QED BY <2>2, <2>3, <2>4, <2>5
  <1>5. /\ mid.virtualUnit = st.virtualUnit
        /\ mid.positionMultiplier = st.positionMultiplier
        /\ mid.totalSupply = st.totalSupply
        /\ mid.externalPositionModules = st.externalPositionModules
        /\ mid.externalVirtualUnit = st.externalVirtualUnit
        /\ mid.externalData = st.externalData
    BY <1>1 DEF TrackDefaultComponent, AddComponent, RemoveComponent, Storage
  <1> HIDE DEF mid
  <1>6. ConvertRealToVirtualUnit(mid, u) = u
    BY <1>5, UnscaledConversions, SMT DEF ConvertRealToVirtualUnit
  <1>7. /\ new.virtualUnit = [st.virtualUnit EXCEPT ![c] = u]
        /\ new.components = mid.components
        /\ new.positionMultiplier = mid.positionMultiplier
        /\ new.totalSupply = mid.totalSupply
        /\ new.externalPositionModules = mid.externalPositionModules
        /\ new.externalVirtualUnit = mid.externalVirtualUnit
        /\ new.externalData = mid.externalData
    BY <1>4, <1>5, <1>6 DEF EditDefaultPosition, EditDefaultPositionUnit, Storage, mid
  <1>8. new \in Storage
    BY <1>1, <1>3, EditDefaultPositionType, SMT
  <1>9. \A d \in Components : new.virtualUnit[d] = IF d = c THEN u ELSE st.virtualUnit[d]
    BY <1>1, <1>7, StorageFields
  <1> HIDE DEF new
  <1>10. Unscaled(new)
    BY <1>5, <1>7, <1>8, <1>9, SMT DEF Unscaled
  <1>11. TracksComponents(new)
    BY <1>4, <1>5, <1>7, <1>9 DEF TracksComponents, IsComponent, HasExternalPosition
  <1> QED BY <1>3, <1>5, <1>7, <1>10, <1>11 DEF new
==============================================================================
