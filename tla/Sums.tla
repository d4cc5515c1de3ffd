-------------------------------- MODULE Sums --------------------------------
(***************************************************************************)
(* Sums over sequences of integers: the facts that proofs about folds and  *)
(* recursive functions rest on.  Induction goes through the least element  *)
(* of a set of numbers, which NatLessThanWellFounded gives without an      *)
(* operator for the induction hypothesis.                                  *)
(***************************************************************************)
EXTENDS Integers, Sequences, SequencesExt, WellFoundedInduction, TLAPS

-----------------------------------------------------------------------------
(* Induction *)

LEMMA Least ==
  ASSUME NEW S \in SUBSET Nat, S # {}
  PROVE  \E n \in S : \A m \in S : n <= m
<1>. DEFINE R == OpToRel(<, Nat)
<1>1. IsWellFoundedOn(R, Nat)
  BY NatLessThanWellFounded
<1>2. \A x, y \in Nat : x < y => <<x, y>> \in R
  BY DEF OpToRel
<1>. HIDE DEF R
<1>3. PICK x \in S : \A y \in S : ~ (<<y, x>> \in R)
  BY <1>1, WFMin
<1>4. ASSUME NEW y \in S PROVE x <= y
  <2>1. x \in Nat /\ y \in Nat /\ ~ (y < x)
    BY <1>2, <1>3
  <2>2. QED
    BY <2>1
<1>5. QED
  BY <1>4

\* A set of numbers that has 0 and the successor of each of its members.
LEMMA Induction ==
  ASSUME NEW S, 0 \in S, \A n \in Nat : n \in S => n + 1 \in S
  PROVE  \A n \in Nat : n \in S
<1>1. SUFFICES ASSUME NEW k \in Nat, k \notin S PROVE FALSE
  OBVIOUS
<1>. DEFINE others == {n \in Nat : n \notin S}
<1>2. PICK n \in others : \A m \in others : n <= m
  <2>1. others \in SUBSET Nat /\ others # {}
    BY <1>1
  <2>. HIDE DEF others
  <2>2. QED
    BY <2>1, Least
<1>3. n \in Nat /\ n # 0 /\ n - 1 \in Nat /\ (n - 1) + 1 = n
  BY <1>2
<1>4. n - 1 \notin others
  <2>1. ~ (n <= n - 1)
    BY <1>3
  <2>2. QED
    BY <1>2, <2>1
<1>5. QED
  BY <1>2, <1>3, <1>4

\* A non-empty set of numbers up to n has a largest one.
LEMMA Largest ==
  ASSUME NEW n \in Nat, NEW S \in SUBSET (1 .. n), S # {}
  PROVE  /\ Max(S) \in S /\ \A x \in S : x <= Max(S)
         /\ \A m \in S : (\A x \in S : x <= m) => m = Max(S)
<1>. DEFINE below == {k \in Nat : \E x \in S : k = n - x}
<1>1. PICK k \in below : \A m \in below : k <= m
  <2>1. below \in SUBSET Nat
    OBVIOUS
  <2>2. below # {}
    <3>1. PICK x \in S : TRUE
      OBVIOUS
    <3>2. n - x \in below
      BY <3>1
    <3>3. QED
      BY <3>2
  <2>. HIDE DEF below
  <2>3. QED
    BY <2>1, <2>2, Least
<1>2. PICK y \in S : k = n - y
  BY <1>1
<1>3. ASSUME NEW x \in S PROVE y >= x
  <2>1. x \in 1 .. n /\ y \in 1 .. n /\ n - x \in below
    OBVIOUS
  <2>2. n - y <= n - x
    BY <1>1, <1>2, <2>1
  <2>3. QED
    BY <2>1, <2>2
<1>4. Max(S) \in S /\ \A x \in S : Max(S) >= x
  BY <1>3 DEF Max
<1>5. \A x \in S : x \in Int
  OBVIOUS
<1>6. \A x \in S : x <= Max(S)
  BY <1>4, <1>5
<1>7. ASSUME NEW m \in S, \A x \in S : x <= m PROVE m = Max(S)
  <2>1. m <= Max(S) /\ Max(S) <= m /\ m \in Int /\ Max(S) \in Int
    BY <1>4, <1>5, <1>6, <1>7
  <2>2. QED
    BY <2>1
<1>8. QED
  BY <1>4, <1>6, <1>7

-----------------------------------------------------------------------------
(* Partial sums *)

\* sum lists the sums of the first 0, 1 .. n numbers of a.
SumsUp(sum, a, n) ==
  /\ sum \in [0 .. n -> Int] /\ sum[0] = 0
  /\ \A i \in 1 .. n : sum[i] = sum[i - 1] + a[i]

LEMMA SumsExist ==
  ASSUME NEW n \in Nat, NEW a, \A i \in 1 .. n : a[i] \in Int
  PROVE  \E sum : SumsUp(sum, a, n)
<1>. DEFINE S == {k \in Nat : k <= n => \E sum : SumsUp(sum, a, k)}
<1>1. 0 \in S
  <2>1. SumsUp([i \in 0 .. 0 |-> 0], a, 0)
    BY DEF SumsUp
  <2>2. QED
    BY <2>1
<1>2. ASSUME NEW k \in Nat, k \in S PROVE k + 1 \in S
  <2>1. SUFFICES ASSUME k + 1 <= n PROVE \E sum : SumsUp(sum, a, k + 1)
    OBVIOUS
  <2>2. PICK old : SumsUp(old, a, k)
    BY <1>2, <2>1
  <2>. DEFINE new == [i \in 0 .. k + 1 |-> IF i <= k THEN old[i] ELSE old[k] + a[k + 1]]
  <2>3. \A i \in 0 .. k : new[i] = old[i] /\ old[i] \in Int
    BY <2>2 DEF SumsUp
  <2>4. new[k + 1] = old[k] + a[k + 1] /\ old[k] \in Int /\ a[k + 1] \in Int
    BY <2>1, <2>2 DEF SumsUp
  <2>5. new \in [0 .. k + 1 -> Int]
    BY <2>3, <2>4
  <2>. HIDE DEF new
  <2>6. ASSUME NEW i \in 1 .. k + 1 PROVE new[i] = new[i - 1] + a[i]
    <3>1. CASE i <= k
      <4>1. i \in 1 .. k /\ i \in 0 .. k /\ i - 1 \in 0 .. k
        BY <3>1
      <4>2. QED
        BY <2>2, <2>3, <4>1 DEF SumsUp
    <3>2. CASE i = k + 1
      BY <2>3, <2>4, <3>2
    <3>3. QED
      BY <3>1, <3>2
  <2>7. SumsUp(new, a, k + 1)
    BY <2>2, <2>3, <2>5, <2>6 DEF SumsUp
  <2>8. QED
    BY <2>7
<1>. HIDE DEF S
<1>3. n \in S
  BY <1>1, <1>2, Induction
<1>4. QED
  BY <1>3 DEF S

LEMMA SumsUnique ==
  ASSUME NEW n \in Nat, NEW a, NEW b, NEW s, NEW t, SumsUp(s, a, n), SumsUp(t, b, n),
         \A i \in 1 .. n : a[i] = b[i]
  PROVE  \A i \in 0 .. n : s[i] = t[i]
<1>. DEFINE S == {k \in Nat : k <= n => s[k] = t[k]}
<1>1. 0 \in S
  BY DEF SumsUp
<1>2. ASSUME NEW k \in Nat, k \in S PROVE k + 1 \in S
  <2>1. SUFFICES ASSUME k + 1 <= n PROVE s[k + 1] = t[k + 1]
    OBVIOUS
  <2>2. k + 1 \in 1 .. n /\ s[k] = t[k] /\ (k + 1) - 1 = k
    BY <1>2, <2>1
  <2>3. QED
    BY <2>2 DEF SumsUp
<1>. HIDE DEF S
<1>3. \A k \in Nat : k \in S
  BY <1>1, <1>2, Induction
<1>4. QED
  BY <1>3 DEF S

\* The sum of the first n numbers of a.
PartialSum(a, n) == (CHOOSE sum : SumsUp(sum, a, n))[n]

LEMMA PartialSumIs ==
  ASSUME NEW n \in Nat, NEW a, \A i \in 1 .. n : a[i] \in Int, NEW s, SumsUp(s, a, n)
  PROVE  \A k \in 0 .. n : PartialSum(a, k) = s[k]
<1>1. SUFFICES ASSUME NEW k \in 0 .. n PROVE PartialSum(a, k) = s[k]
  OBVIOUS
<1>. DEFINE r == [i \in 0 .. k |-> s[i]]
            c == CHOOSE sum : SumsUp(sum, a, k)
<1>2. k \in Nat /\ k \in 0 .. k
  OBVIOUS
<1>3. SumsUp(r, a, k)
  BY DEF SumsUp
<1>4. SumsUp(c, a, k)
  BY <1>3
<1>. HIDE DEF r, c
<1>5. c[k] = r[k]
  BY <1>2, <1>3, <1>4, SumsUnique
<1>6. QED
  BY <1>2, <1>5 DEF PartialSum, c, r

LEMMA PartialSumFacts ==
  ASSUME NEW n \in Nat, NEW a, \A i \in 1 .. n : a[i] \in Int
  PROVE  /\ PartialSum(a, 0) = 0 /\ PartialSum(a, n) \in Int
         /\ \A k \in 0 .. n : PartialSum(a, k) \in Int
         /\ \A k \in 1 .. n : PartialSum(a, k) = PartialSum(a, k - 1) + a[k]
<1>1. PICK s : SumsUp(s, a, n)
  BY SumsExist
<1>2. \A k \in 0 .. n : PartialSum(a, k) = s[k]
  BY <1>1, PartialSumIs
<1>3. n \in 0 .. n
  OBVIOUS
<1>4. QED
  BY <1>1, <1>2, <1>3 DEF SumsUp

LEMMA PartialSumSame ==
  ASSUME NEW n \in Nat, NEW a, NEW b, \A i \in 1 .. n : a[i] \in Int /\ b[i] = a[i]
  PROVE  PartialSum(b, n) = PartialSum(a, n)
<1>1. PICK s : SumsUp(s, a, n)
  BY SumsExist
<1>2. SumsUp(s, b, n)
  BY <1>1 DEF SumsUp
<1>3. PartialSum(a, n) = s[n] /\ PartialSum(b, n) = s[n]
  BY <1>1, <1>2, PartialSumIs
<1>4. QED
  BY <1>3

LEMMA PartialSumMonotone ==
  ASSUME NEW n \in Nat, NEW a, NEW b,
         \A i \in 1 .. n : a[i] \in Int /\ b[i] \in Int /\ a[i] <= b[i]
  PROVE  PartialSum(a, n) <= PartialSum(b, n)
<1>. DEFINE S == {k \in Nat : k <= n => PartialSum(a, k) <= PartialSum(b, k)}
<1>1. 0 \in S
  BY PartialSumFacts
<1>2. ASSUME NEW k \in Nat, k \in S PROVE k + 1 \in S
  <2>1. SUFFICES ASSUME k + 1 <= n PROVE PartialSum(a, k + 1) <= PartialSum(b, k + 1)
    OBVIOUS
  <2>2. k + 1 \in 1 .. n /\ k \in 0 .. n /\ PartialSum(a, k) <= PartialSum(b, k) /\ (k + 1) - 1 = k
    BY <1>2, <2>1
  <2>3. /\ PartialSum(a, k + 1) = PartialSum(a, k) + a[k + 1] /\ PartialSum(a, k) \in Int
        /\ PartialSum(b, k + 1) = PartialSum(b, k) + b[k + 1] /\ PartialSum(b, k) \in Int
    BY <2>2, PartialSumFacts
  <2>4. QED
    BY <2>2, <2>3
<1>. HIDE DEF S
<1>3. n \in S
  BY <1>1, <1>2, Induction
<1>4. QED
  BY <1>3 DEF S

\* Backwards, the numbers have the same sum.
LEMMA PartialSumReversed ==
  ASSUME NEW n \in Nat, NEW a, NEW b,
         \A i \in 1 .. n : a[i] \in Int /\ b[i] = a[n + 1 - i]
  PROVE  PartialSum(b, n) = PartialSum(a, n)
<1>. DEFINE S == {k \in Nat : k <= n =>
                   PartialSum(b, k) + PartialSum(a, n - k) = PartialSum(a, n)}
<1>1. \A i \in 1 .. n : b[i] \in Int
  <2>1. \A i \in 1 .. n : n + 1 - i \in 1 .. n
    OBVIOUS
  <2>2. QED
    BY <2>1
<1>2. 0 \in S
  <2>1. PartialSum(b, 0) = 0 /\ PartialSum(a, n) \in Int /\ n - 0 = n
    BY <1>1, PartialSumFacts
  <2>2. QED
    BY <2>1
<1>3. ASSUME NEW k \in Nat, k \in S PROVE k + 1 \in S
  <2>1. SUFFICES ASSUME k + 1 <= n
                 PROVE  PartialSum(b, k + 1) + PartialSum(a, n - (k + 1)) = PartialSum(a, n)
    OBVIOUS
  <2>2. /\ k + 1 \in 1 .. n /\ k \in 0 .. n /\ (k + 1) - 1 = k
        /\ n - k \in 1 .. n /\ n - (k + 1) \in 0 .. n /\ (n - k) - 1 = n - (k + 1)
        /\ n + 1 - (k + 1) = n - k
        /\ PartialSum(b, k) + PartialSum(a, n - k) = PartialSum(a, n)
    BY <1>3, <2>1
  <2>3. PartialSum(b, k + 1) = PartialSum(b, k) + b[k + 1] /\ PartialSum(b, k) \in Int
    BY <1>1, <2>2, PartialSumFacts
  <2>4. /\ PartialSum(a, n - k) = PartialSum(a, n - (k + 1)) + a[n - k]
        /\ PartialSum(a, n - (k + 1)) \in Int
    BY <2>2, PartialSumFacts
  <2>5. b[k + 1] = a[n - k] /\ a[n - k] \in Int
    BY <2>2
  <2>6. QED
    BY <2>2, <2>3, <2>4, <2>5
<1>. HIDE DEF S
<1>4. n \in S
  BY <1>2, <1>3, Induction
<1>5. PartialSum(b, n) + PartialSum(a, n - n) = PartialSum(a, n)
  BY <1>4 DEF S
<1>6. PartialSum(a, n - n) = 0 /\ PartialSum(b, n) \in Int
  BY <1>1, PartialSumFacts
<1>7. QED
  BY <1>5, <1>6

\* One number is another one.
LEMMA PartialSumUpdate ==
  ASSUME NEW n \in Nat, NEW j \in 1 .. n, NEW a, NEW b,
         \A i \in 1 .. n : a[i] \in Int /\ b[i] \in Int /\ (i # j => b[i] = a[i])
  PROVE  PartialSum(b, n) = PartialSum(a, n) + b[j] - a[j]
<1>. DEFINE S == {k \in Nat : k <= n =>
                   PartialSum(b, k) = PartialSum(a, k) + (IF j <= k THEN b[j] - a[j] ELSE 0)}
<1>1. 0 \in S
  BY PartialSumFacts
<1>2. ASSUME NEW k \in Nat, k \in S PROVE k + 1 \in S
  <2>1. SUFFICES ASSUME k + 1 <= n
                 PROVE  PartialSum(b, k + 1)
                          = PartialSum(a, k + 1) + (IF j <= k + 1 THEN b[j] - a[j] ELSE 0)
    OBVIOUS
  <2>2. /\ k + 1 \in 1 .. n /\ k \in 0 .. n /\ (k + 1) - 1 = k
        /\ PartialSum(b, k) = PartialSum(a, k) + (IF j <= k THEN b[j] - a[j] ELSE 0)
    BY <1>2, <2>1
  <2>3. /\ PartialSum(a, k + 1) = PartialSum(a, k) + a[k + 1] /\ PartialSum(a, k) \in Int
        /\ PartialSum(b, k + 1) = PartialSum(b, k) + b[k + 1] /\ PartialSum(b, k) \in Int
    BY <2>2, PartialSumFacts
  <2>4. a[k + 1] \in Int /\ b[k + 1] \in Int /\ a[j] \in Int /\ b[j] \in Int
        /\ (k + 1 # j => b[k + 1] = a[k + 1])
    BY <2>2
  <2>5. CASE j = k + 1
    BY <2>2, <2>3, <2>4, <2>5
  <2>6. CASE j # k + 1
    BY <2>2, <2>3, <2>4, <2>6
  <2>7. QED
    BY <2>5, <2>6
<1>. HIDE DEF S
<1>3. n \in S
  BY <1>1, <1>2, Induction
<1>4. PartialSum(a, n) \in Int
  BY PartialSumFacts
<1>5. a[j] \in Int /\ b[j] \in Int
  OBVIOUS
<1>6. QED
  BY <1>3, <1>4, <1>5 DEF S

-----------------------------------------------------------------------------
(* Folds that add *)

\* What FoldLeft unfolds to, for the sum of a[1] .. a[n].
Adds(iter, a, n) ==
  iter = [S \in SUBSET (1 .. n) |->
           IF S = {} THEN 0 ELSE iter[S \ {Max(S)}] + a[Max(S)]]

LEMMA AddsExist ==
  ASSUME NEW n \in Nat, NEW a, \A i \in 1 .. n : a[i] \in Int
  PROVE  \E iter : Adds(iter, a, n)
<1>. DEFINE Only(S) == [i \in 1 .. n |-> IF i \in S THEN a[i] ELSE 0]
            sums == [S \in SUBSET (1 .. n) |-> PartialSum(Only(S), n)]
<1>1. \A S : \A i \in 1 .. n : Only(S)[i] \in Int
  OBVIOUS
<1>2. PartialSum(Only({}), n) = 0
  <2>. DEFINE zero == Only({})
  <2>1. \A i \in 1 .. n : zero[i] = 0
    OBVIOUS
  <2>. HIDE DEF zero
  <2>2. SumsUp([i \in 0 .. n |-> 0], zero, n)
    BY <2>1 DEF SumsUp
  <2>3. \A k \in 0 .. n : PartialSum(zero, k) = [i \in 0 .. n |-> 0][k]
    BY <2>1, <2>2, PartialSumIs
  <2>4. PartialSum(zero, n) = 0
    BY <2>3
  <2>5. QED
    BY <2>4 DEF zero
<1>3. ASSUME NEW S \in SUBSET (1 .. n), S # {}
      PROVE  /\ S \ {Max(S)} \in SUBSET (1 .. n)
             /\ PartialSum(Only(S), n) = PartialSum(Only(S \ {Max(S)}), n) + a[Max(S)]
  <2>1. PICK m \in 1 .. n : m = Max(S) /\ m \in S
    BY <1>3, Largest
  <2>. DEFINE all == Only(S)
              but == Only(S \ {m})
  <2>2. all[m] = a[m] /\ but[m] = 0 /\ a[m] \in Int
    BY <2>1
  <2>3. \A i \in 1 .. n : but[i] \in Int /\ all[i] \in Int /\ (i # m => all[i] = but[i])
    OBVIOUS
  <2>. HIDE DEF all, but
  <2>4. PartialSum(all, n) = PartialSum(but, n) + all[m] - but[m]
    BY <2>3, PartialSumUpdate
  <2>5. PartialSum(but, n) \in Int
    BY <2>3, PartialSumFacts
  <2>6. PartialSum(all, n) = PartialSum(but, n) + a[m]
    BY <2>2, <2>4, <2>5
  <2>7. QED
    BY <2>1, <2>6 DEF all, but
<1>. HIDE DEF Only
<1>4. \A S \in SUBSET (1 .. n) :
        sums[S] = IF S = {} THEN 0 ELSE sums[S \ {Max(S)}] + a[Max(S)]
  BY <1>2, <1>3
<1>5. sums = [S \in SUBSET (1 .. n) |-> sums[S]]
  OBVIOUS
<1>. HIDE DEF sums
<1>6. Adds(sums, a, n)
  BY <1>4, <1>5 DEF Adds
<1>7. QED
  BY <1>6

LEMMA AddsUp ==
  ASSUME NEW n \in Nat, NEW a, \A i \in 1 .. n : a[i] \in Int, NEW iter, Adds(iter, a, n)
  PROVE  iter[1 .. n] = PartialSum(a, n)
<1>. DEFINE S == {k \in Nat : k <= n => iter[1 .. k] = PartialSum(a, k)}
<1>1. 0 \in S
  <2>1. 1 .. 0 = {} /\ {} \in SUBSET (1 .. n)
    OBVIOUS
  <2>2. iter[{}] = 0
    BY <2>1 DEF Adds
  <2>3. QED
    BY <2>1, <2>2, PartialSumFacts
<1>2. ASSUME NEW k \in Nat, k \in S PROVE k + 1 \in S
  <2>1. SUFFICES ASSUME k + 1 <= n PROVE iter[1 .. k + 1] = PartialSum(a, k + 1)
    OBVIOUS
  <2>. DEFINE T == 1 .. k + 1
  <2>2. T \in SUBSET (1 .. n) /\ T # {} /\ k + 1 \in T /\ \A x \in T : x <= k + 1
    BY <2>1
  <2>3. T \ {k + 1} = 1 .. k
    OBVIOUS
  <2>. HIDE DEF T
  <2>4. Max(T) = k + 1
    BY <2>2, Largest
  <2>5. iter[T] = iter[T \ {k + 1}] + a[k + 1]
    BY <2>2, <2>4 DEF Adds
  <2>6. iter[1 .. k] = PartialSum(a, k)
    BY <1>2, <2>1
  <2>7. k + 1 \in 1 .. n /\ (k + 1) - 1 = k
    BY <2>1
  <2>8. PartialSum(a, k + 1) = PartialSum(a, k) + a[k + 1]
    BY <2>7, PartialSumFacts
  <2>9. QED
    BY <2>3, <2>5, <2>6, <2>8 DEF T
<1>. HIDE DEF S
<1>3. n \in S
  BY <1>1, <1>2, Induction
<1>4. QED
  BY <1>3 DEF S
=============================================================================
