-------------------------- MODULE DiscountsProofs --------------------------
(***************************************************************************)
(* What is proved of Discounts, for any rules of which at most one is a    *)
(* percentage: an evaluation is fair to the customer.  The amounts of the  *)
(* rules add up (Sums); one more cent moves one amount only, the           *)
(* percentage, and by at most one.                                         *)
(***************************************************************************)
EXTENDS Discounts, SequenceTheorems, Sums, TLAPS

Each(rules, subtotal, code) ==
  [i \in 1 .. Len(rules) |-> Amount(rules[i], subtotal, code)]

\* The floor of a percentage grows with its subtotal, by no more than it does.
LEMMA Floor ==
  ASSUME NEW s \in Nat, NEW v \in Nat
  PROVE  /\ (s * v) \div 100 \in Nat
         /\ v <= 100 => ((s + 1) * v) \div 100 <= (s * v) \div 100 + 1
<1>1. PICK x \in Nat : x = s * v
  OBVIOUS
<1>2. (s + 1) * v = x + v
  BY <1>1
<1>3. /\ x \div 100 \in Nat
      /\ v <= 100 => (x + v) \div 100 <= x \div 100 + 1
  OBVIOUS
<1>4. QED
  BY <1>1, <1>2, <1>3

LEMMA AmountFacts ==
  ASSUME NEW rule \in Rule, NEW subtotal \in Nat, NEW code
  PROVE  /\ Amount(rule, subtotal, code) \in Nat
         /\ Amount(rule, subtotal, NoCode) <= Amount(rule, subtotal, code)
         /\ rule.type # "percentage" =>
              Amount(rule, subtotal + 1, code) = Amount(rule, subtotal, code)
         /\ rule.value <= 100 =>
              Amount(rule, subtotal + 1, code) <= Amount(rule, subtotal, code) + 1
<1>1. rule.value \in Nat /\ rule.code # NoCode
  BY DiscountsAssumption DEF Rule
<1>2. CASE rule.type = "percentage"
  BY <1>1, <1>2, Floor DEF Amount
<1>3. CASE rule.type = "fixed"
  BY <1>1, <1>3 DEF Amount
<1>4. CASE rule.type = "coupon"
  BY <1>1, <1>4 DEF Amount
<1>5. QED
  BY <1>2, <1>3, <1>4 DEF Rule

LEMMA EachFacts ==
  ASSUME NEW rules \in Seq(Rule), NEW subtotal \in Nat, NEW code
  PROVE  /\ Len(rules) \in Nat /\ DOMAIN rules = 1 .. Len(rules)
         /\ \A i \in 1 .. Len(rules) :
              /\ rules[i] \in Rule
              /\ Each(rules, subtotal, code)[i] = Amount(rules[i], subtotal, code)
              /\ Each(rules, subtotal, code)[i] \in Nat
<1>1. Len(rules) \in Nat /\ DOMAIN rules = 1 .. Len(rules)
  BY LenProperties
<1>2. \A i \in 1 .. Len(rules) : rules[i] \in Rule
  BY <1>1, ElementOfSeq
<1>3. QED
  BY <1>1, <1>2, AmountFacts DEF Each

\* The fold over the rules is the sum of their amounts.
LEMMA FoldOfAmounts ==
  ASSUME NEW rules \in Seq(Rule), NEW subtotal \in Nat, NEW code
  PROVE  Amounts(rules, subtotal, code) = PartialSum(Each(rules, subtotal, code), Len(rules))
<1>. DEFINE a == Each(rules, subtotal, code)
            it == CHOOSE iter : iter = [S \in SUBSET DOMAIN rules |->
                    IF S = {} THEN 0
                    ELSE LET x == Max(S)
                         IN  iter[S \ {x}] + Amount(rules[x], subtotal, code)]
<1>1. Amounts(rules, subtotal, code) = it[DOMAIN rules]
  BY DEF Amounts, FoldLeft, MapThenFoldSet
<1>2. Len(rules) \in Nat /\ DOMAIN rules = 1 .. Len(rules)
  BY EachFacts
<1>3. /\ \A i \in 1 .. Len(rules) : a[i] \in Int
      /\ \A i \in 1 .. Len(rules) : a[i] = Amount(rules[i], subtotal, code)
  BY EachFacts
<1>4. \A S \in SUBSET DOMAIN rules : S # {} => Max(S) \in 1 .. Len(rules)
  BY <1>2, Largest
<1>. HIDE DEF a
<1>5. PICK iter : Adds(iter, a, Len(rules))
  BY <1>2, <1>3, AddsExist
<1>6. iter = [S \in SUBSET DOMAIN rules |->
               IF S = {} THEN 0
               ELSE LET x == Max(S)
                    IN  iter[S \ {x}] + Amount(rules[x], subtotal, code)]
  BY <1>2, <1>3, <1>4, <1>5 DEF Adds
<1>7. it = [S \in SUBSET DOMAIN rules |->
             IF S = {} THEN 0
             ELSE LET x == Max(S)
                  IN  it[S \ {x}] + Amount(rules[x], subtotal, code)]
  BY <1>6
<1>. HIDE DEF it
<1>8. Adds(it, a, Len(rules))
  BY <1>2, <1>3, <1>4, <1>7 DEF Adds
<1>9. it[1 .. Len(rules)] = PartialSum(a, Len(rules))
  BY <1>2, <1>3, <1>8, AddsUp
<1>10. QED
  BY <1>1, <1>2, <1>9 DEF a

LEMMA AmountsType ==
  ASSUME NEW rules \in Seq(Rule), NEW subtotal \in Nat, NEW code
  PROVE  Amounts(rules, subtotal, code) \in Nat
<1>. DEFINE n == Len(rules)
            a == Each(rules, subtotal, code)
            zero == [i \in 1 .. n |-> 0]
            none == [i \in 0 .. n |-> 0]
<1>1. n \in Nat /\ \A i \in 1 .. n : a[i] \in Nat
  BY EachFacts
<1>2. \A i \in 1 .. n : zero[i] = 0
  OBVIOUS
<1>3. none \in [0 .. n -> Int] /\ \A i \in 0 .. n : none[i] = 0
  OBVIOUS
<1>. HIDE DEF a, zero, none, n
<1>4. SumsUp(none, zero, n)
  <2>1. 0 \in 0 .. n /\ \A i \in 1 .. n : i \in 0 .. n /\ i - 1 \in 0 .. n
    BY <1>1
  <2>2. QED
    BY <1>2, <1>3, <2>1 DEF SumsUp
<1>5. PartialSum(zero, n) = 0
  <2>1. n \in 0 .. n /\ \A i \in 1 .. n : zero[i] \in Int
    BY <1>1, <1>2
  <2>2. PartialSum(zero, n) = none[n]
    BY <1>1, <1>4, <2>1, PartialSumIs
  <2>3. QED
    BY <1>3, <2>1, <2>2
<1>6. PartialSum(zero, n) <= PartialSum(a, n)
  <2>1. \A i \in 1 .. n : zero[i] \in Int /\ a[i] \in Int /\ zero[i] <= a[i]
    BY <1>1, <1>2
  <2>2. QED
    BY <1>1, <2>1, PartialSumMonotone
<1>7. PartialSum(a, n) \in Int
  BY <1>1, PartialSumFacts
<1>8. QED
  BY <1>5, <1>6, <1>7, FoldOfAmounts DEF a, n

\* A code adds to the amounts.
LEMMA AmountsOfCode ==
  ASSUME NEW rules \in Seq(Rule), NEW subtotal \in Nat, NEW code
  PROVE  Amounts(rules, subtotal, NoCode) <= Amounts(rules, subtotal, code)
<1>. DEFINE n == Len(rules)
            a == Each(rules, subtotal, NoCode)
            b == Each(rules, subtotal, code)
<1>1. n \in Nat /\ \A i \in 1 .. n : a[i] \in Int /\ b[i] \in Int /\ a[i] <= b[i]
  BY EachFacts, AmountFacts
<1>2. PartialSum(a, n) <= PartialSum(b, n)
  BY <1>1, PartialSumMonotone
<1>3. QED
  BY <1>2, FoldOfAmounts

\* One more cent adds at most a cent.
LEMMA AmountsOfCent ==
  ASSUME NEW t \in Tenants, NEW subtotal \in Nat, NEW code
  PROVE  Amounts(Rules[t], subtotal + 1, code) <= Amounts(Rules[t], subtotal, code) + 1
<1>. DEFINE rules == Rules[t]
            n == Len(rules)
            a == Each(rules, subtotal, code)
            b == Each(rules, subtotal + 1, code)
<1>1. rules \in Seq(Rule) /\ subtotal + 1 \in Nat
  BY DiscountsAssumption
<1>2. /\ n \in Nat /\ DOMAIN rules = 1 .. n
      /\ \A i \in 1 .. n : a[i] \in Int /\ b[i] \in Int
      /\ \A i \in 1 .. n : rules[i] \in Rule /\ a[i] = Amount(rules[i], subtotal, code)
                             /\ b[i] = Amount(rules[i], subtotal + 1, code)
  BY <1>1, EachFacts
<1>3. /\ Amounts(rules, subtotal, code) = PartialSum(a, n)
      /\ Amounts(rules, subtotal + 1, code) = PartialSum(b, n)
  BY <1>1, FoldOfAmounts
<1>. HIDE DEF a, b
<1>4. \A i \in 1 .. n : rules[i].type # "percentage" => b[i] = a[i]
  BY <1>2, AmountFacts
<1>5. PartialSum(a, n) \in Int
  BY <1>2, PartialSumFacts
<1>6. CASE \E j \in 1 .. n : rules[j].type = "percentage"
  <2>1. PICK j \in 1 .. n : rules[j].type = "percentage"
    BY <1>6
  <2>2. rules[j].value <= 100 /\ \A i \in 1 .. n : rules[i].type = "percentage" => i = j
    BY <1>2, <2>1, OnePercentage
  <2>3. \A i \in 1 .. n : i # j => b[i] = a[i]
    BY <1>4, <2>2
  <2>4. PartialSum(b, n) = PartialSum(a, n) + b[j] - a[j]
    BY <1>2, <2>3, PartialSumUpdate
  <2>5. b[j] <= a[j] + 1 /\ a[j] \in Int /\ b[j] \in Int
    BY <1>2, <2>2, AmountFacts
  <2>6. QED
    BY <1>3, <1>5, <2>4, <2>5
<1>7. CASE \A j \in 1 .. n : rules[j].type # "percentage"
  <2>1. PartialSum(b, n) = PartialSum(a, n)
    BY <1>2, <1>4, <1>7, PartialSumSame
  <2>2. QED
    BY <1>3, <1>5, <2>1
<1>8. QED
  BY <1>6, <1>7

\* The order of the rules does not matter.
LEMMA AmountsReversed ==
  ASSUME NEW rules \in Seq(Rule), NEW subtotal \in Nat, NEW code
  PROVE  Amounts(Reverse(rules), subtotal, code) = Amounts(rules, subtotal, code)
<1>. DEFINE n == Len(rules)
            r == Reverse(rules)
            a == Each(rules, subtotal, code)
            b == Each(r, subtotal, code)
<1>1. n \in Nat /\ \A i \in 1 .. n : rules[i] \in Rule
  BY EachFacts
<1>2. \A i \in 1 .. n : (n - i) + 1 \in 1 .. n /\ (n - i) + 1 = n + 1 - i
  BY <1>1
<1>3. r = [i \in 1 .. n |-> rules[(n - i) + 1]]
  BY DEF Reverse
<1>4. r \in [1 .. n -> Rule]
  BY <1>1, <1>2, <1>3
<1>5. r \in Seq(Rule) /\ Len(r) = n
  BY <1>1, <1>4, SeqDef, LenProperties
<1>6. \A i \in 1 .. n : a[i] \in Int /\ a[i] = Amount(rules[i], subtotal, code)
  BY EachFacts
<1>7. \A i \in 1 .. n : b[i] = Amount(r[i], subtotal, code)
  BY <1>5, EachFacts
<1>. HIDE DEF a, b
<1>8. \A i \in 1 .. n : b[i] = a[n + 1 - i]
  BY <1>2, <1>3, <1>6, <1>7
<1>9. PartialSum(b, n) = PartialSum(a, n)
  BY <1>1, <1>6, <1>8, PartialSumReversed
<1>10. QED
  BY <1>5, <1>9, FoldOfAmounts DEF a, b

\* The total of any request, before what the last one was is looked at.
LEMMA TotalFair ==
  ASSUME NEW t \in Tenants, NEW subtotal \in Nat, NEW code
  PROVE  /\ Total(Rules[t], subtotal, code) \in 0 .. subtotal
         /\ Total(Rules[t], subtotal + 1, code) >= Total(Rules[t], subtotal, code)
         /\ Total(Rules[t], subtotal, code) <= Total(Rules[t], subtotal, NoCode)
         /\ Total(Rules[t], subtotal, code) = Total(Reverse(Rules[t]), subtotal, code)
<1>1. Rules[t] \in Seq(Rule) /\ subtotal + 1 \in Nat
  BY DiscountsAssumption
<1>2. /\ Amounts(Rules[t], subtotal, code) \in Nat
      /\ Amounts(Rules[t], subtotal, NoCode) \in Nat
      /\ Amounts(Rules[t], subtotal + 1, code) \in Nat
  BY <1>1, AmountsType
<1>3. Total(Rules[t], subtotal, code) \in 0 .. subtotal
  BY <1>2 DEF Total, Discount
<1>4. Total(Rules[t], subtotal + 1, code) >= Total(Rules[t], subtotal, code)
  BY <1>2, AmountsOfCent DEF Total, Discount
<1>5. Total(Rules[t], subtotal, code) <= Total(Rules[t], subtotal, NoCode)
  BY <1>1, <1>2, AmountsOfCode DEF Total, Discount
<1>6. Total(Rules[t], subtotal, code) = Total(Reverse(Rules[t]), subtotal, code)
  BY <1>1, AmountsReversed DEF Total, Discount
<1>7. QED
  BY <1>3, <1>4, <1>5, <1>6

\* An evaluation is one of a tenant, with the total the rules come to.
Evaluated ==
  /\ evaluation.tenant \in Tenants /\ evaluation.subtotal \in Nat
  /\ evaluation.total = Total(Rules[evaluation.tenant], evaluation.subtotal, evaluation.code)

\* For any rules with at most one percentage, no customer is better off buying
\* less or keeping a code back, and the order of the rules does not matter
\* (discounts.service.ts, evaluate).
THEOREM EvaluationsAreFair == Spec => []DiscountsFair
<1>1. Init => Evaluated
  BY DEF Init, Evaluated
<1>2. Evaluated /\ [Next]_vars => Evaluated'
  <2>1. SUFFICES ASSUME Evaluated, [Next]_vars PROVE Evaluated'
    OBVIOUS
  <2>2. CASE Next
    <3>1. PICK t \in Tenants, subtotal \in Subtotals, code \in Codes \cup {NoCode} :
            Evaluate(t, subtotal, code)
      BY <2>2 DEF Next
    <3>2. subtotal \in Nat
      BY DiscountsAssumption
    <3>3. QED
      BY <3>1, <3>2 DEF Evaluate, Evaluated
  <2>3. CASE UNCHANGED vars
    BY <2>1, <2>3 DEF vars, Evaluated
  <2>4. QED
    BY <2>1, <2>2, <2>3
<1>3. Evaluated => DiscountsFair
  BY TotalFair DEF Evaluated, DiscountsFair
<1>4. QED
  BY <1>1, <1>2, <1>3, PTL DEF Spec
=============================================================================
