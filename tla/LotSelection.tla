---------------------------- MODULE LotSelection ----------------------------
(* Which lots a withdrawal sells from, in which order, and how many units. *)
EXTENDS Positions, FiniteSetsExt, SequencesExt

(* Mutant of OldestFirst: the ORDER BY is missing. *)
AnyOrder(rows) == SetToSeqs(rows)

(* ORDER BY purchased_at: lots bought at the same time come in any order. *)
OldestFirst(rows) ==
    {s \in SetToSeqs(rows) :
        \A i, j \in DOMAIN s : i < j => s[i].purchasedAt <= s[j].purchasedAt}

IsEligible(p) == AvailableValue(p) > 0

Eligible(rows) == {p \in rows : IsEligible(p)}

TotalAvailable(rows) == MapThenSumSet(AvailableValue, rows)

(* Mutant of UnitsSold: the value is not limited to what is available. *)
UnitsSoldUnlimited(lot, remaining) == Round6(Div(remaining, lot.unitPrice))

(* Mutant of UnitsSold: the lot is sold out whatever remains. *)
UnitsSoldOut(lot, remaining) == Round6(Div(AvailableValue(lot), lot.unitPrice))

(* Units of the lot that cover as much of the remaining value as it can. *)
UnitsSold(lot, remaining) ==
    LET available == AvailableValue(lot)
        valueFromLot == IF remaining < available THEN remaining ELSE available
    IN  Round6(Div(valueFromLot, lot.unitPrice))
=============================================================================
