------------------------------ MODULE Decimals ------------------------------
(***************************************************************************)
(* Fixed-point arithmetic of the wallet: the operations of the decimal     *)
(* library that the withdrawal loop uses, and the coercion PostgreSQL does *)
(* when it stores a number in a NUMERIC(p,s) column.                       *)
(*                                                                         *)
(* Every decimal is a natural number of a chosen finest unit: one for      *)
(* amounts, one for unit prices, and their product for values.  The radix  *)
(* does not matter to any property, so the scales enter only as ratios:    *)
(*   AmountQuantum  finest amount units in the last digit of NUMERIC(18,6) *)
(*   PriceQuantum   finest price units in the last digit of NUMERIC(20,8)  *)
(*   ValueQuantum   finest value units in the last digit of NUMERIC(20,8)  *)
(*   GuardUnits     steps per finest amount unit of a quotient, which the  *)
(*                  library computes to 16 digits before Round(6)          *)
(* and a column overflows at its limit.                                    *)
(***************************************************************************)
EXTENDS Integers

CONSTANTS AmountQuantum, PriceQuantum, ValueQuantum, GuardUnits,
          AmountLimit, PriceLimit, ValueLimit

ASSUME ScaleAssumption ==
    /\ AmountQuantum \in Nat \ {0}
    /\ PriceQuantum \in Nat \ {0}
    /\ ValueQuantum \in Nat \ {0}
    /\ GuardUnits \in Nat \ {0}

ASSUME LimitAssumption ==
    /\ AmountLimit \in Nat
    /\ PriceLimit \in Nat
    /\ ValueLimit \in Nat

(* The quotient n/d rounded to the nearest integer, halves away from zero. *)
(* The wallet only rounds non-negative numbers.                            *)
RoundHalfUp(n, d) == (2 * n + d) \div (2 * d)

(* A number brought to a column's scale. *)
ToScale(n, quantum) == RoundHalfUp(n, quantum) * quantum

(* decimal.Div: the quotient to the library's 16 digits, in guard units. *)
Div(value, price) == RoundHalfUp(value * GuardUnits, price)

(* Mutant of Round6: the rounding is forgotten. *)
Round6Forgotten(quotient) == quotient \div GuardUnits

(* decimal.Round(6) of such a quotient, as an amount. *)
Round6(quotient) ==
    RoundHalfUp(quotient, AmountQuantum * GuardUnits) * AmountQuantum
=============================================================================
