---------------------------- MODULE MCDiscounts ----------------------------
(***************************************************************************)
(* The rules of the tables in discounts.service.ts: those of the two       *)
(* tenants that have their own and the default ones.                       *)
(***************************************************************************)
EXTENDS Discounts

CONSTANTS acme, beta, anyone, coupon, other

Percent(value) == [type |-> "percentage", value |-> value, code |-> other]
Fixed(value) == [type |-> "fixed", value |-> value, code |-> other]
Coupon(value) == [type |-> "coupon", value |-> value, code |-> coupon]

MCRules ==
  [t \in {acme, beta, anyone} |->
    CASE t = acme -> <<Percent(15), Fixed(250)>>
      [] t = beta -> <<Percent(12), Fixed(200)>>
      [] t = anyone -> <<Percent(10), Fixed(500), Coupon(300)>>]
\* None, and around those at which the discount stops being capped.
MCSubtotals == 0 .. 20 \cup 220 .. 300 \cup 550 .. 560 \cup 880 .. 900
=============================================================================
