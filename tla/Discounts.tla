----------------------------- MODULE Discounts -----------------------------
(***************************************************************************)
(* Discount rules and their evaluation (GET /discounts/evaluate).  The     *)
(* amount of a percentage is floored after a floating-point product; for   *)
(* the percentages of the tables, and multiples of a cent, that product    *)
(* rounds to the exact one when this is an integer.  Money is counted in   *)
(* cents.  Nothing changes a rule, and all are active.                     *)
(***************************************************************************)
EXTENDS Integers, SequencesExt

CONSTANTS
  Rules,      \* the rules of each tenant, in order: its own or the defaults
  Codes,      \* codes of coupons
  NoCode,     \* the request has no code
  Subtotals   \* bound: subtotals asked for

Tenants == DOMAIN Rules
Rule == [type : {"percentage", "fixed", "coupon"}, value : Nat, code : Codes]

ASSUME DiscountsAssumption ==
  /\ NoCode \notin Codes /\ Subtotals \subseteq Nat
  /\ \A t \in Tenants : Rules[t] \in Seq(Rule)

\* What the tables of the service have: at most one percentage, of at most 100.
\* With two of them both floors can move at once, and DiscountsFair fails.
ASSUME OnePercentage ==
  \A t \in Tenants : \A i, j \in DOMAIN Rules[t] :
    Rules[t][i].type = "percentage" =>
      /\ Rules[t][i].value <= 100
      /\ Rules[t][j].type = "percentage" => i = j

VARIABLE evaluation  \* the last one: its request and the total it came to

vars == <<evaluation>>

\* What a rule takes off; a coupon needs its code.
Amount(rule, subtotal, code) ==
  CASE rule.type = "percentage" -> (subtotal * rule.value) \div 100
    [] rule.type = "fixed" -> rule.value
    [] rule.type = "coupon" -> IF code = rule.code THEN rule.value ELSE 0

\* a rule is applied only as long as it does not exceed the subtotal
FaultyDiscount(rules, subtotal, code) ==
  FoldLeft(LAMBDA discount, rule :
             LET more == discount + Amount(rule, subtotal, code)
             IN  IF more > subtotal THEN discount ELSE more,
           0, rules)

\* The amounts of all rules, capped at the subtotal.
Amounts(rules, subtotal, code) ==
  FoldLeft(LAMBDA sum, rule : sum + Amount(rule, subtotal, code), 0, rules)
Discount(rules, subtotal, code) ==
  LET discount == Amounts(rules, subtotal, code)
  IN  IF discount > subtotal THEN subtotal ELSE discount

Total(rules, subtotal, code) == subtotal - Discount(rules, subtotal, code)

Evaluate(t, subtotal, code) ==
  evaluation' = [tenant |-> t, subtotal |-> subtotal, code |-> code,
                 total |-> Total(Rules[t], subtotal, code)]

Init ==
  \E t \in Tenants :
    evaluation = [tenant |-> t, subtotal |-> 0, code |-> NoCode,
                  total |-> Total(Rules[t], 0, NoCode)]

Next ==
  \E t \in Tenants, subtotal \in Subtotals, code \in Codes \cup {NoCode} :
    Evaluate(t, subtotal, code)

Spec == Init /\ [][Next]_vars

-----------------------------------------------------------------------------
(* Properties *)

\* Nobody is ever better off buying less or keeping a code back
\* (discounts.service.ts): one more cent of goods never makes the total
\* smaller, in spite of the floor and the cap, and giving a code never makes it
\* larger; and the total does not depend on the order of the rules.
DiscountsFair ==
  LET rules == Rules[evaluation.tenant]
      subtotal == evaluation.subtotal
      total == evaluation.total
  IN  /\ total \in 0 .. subtotal
      /\ Total(rules, subtotal + 1, evaluation.code) >= total
      /\ total <= Total(rules, subtotal, NoCode)
      /\ total = Total(Reverse(rules), subtotal, evaluation.code)
=============================================================================
