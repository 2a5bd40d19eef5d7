-------------------------- MODULE PositionsProofs --------------------------
(* Facts about the operators the wallet is built from. *)
EXTENDS LotSelection, FiniteSetTheorems, SequenceTheorems, TLAPS

(* Rounding a natural number to a positive divisor gives a natural number, *)
(* at most half a divisor away from the exact quotient.                    *)
LEMMA RoundHalfUpBounds ==
    ASSUME NEW n \in Nat, NEW d \in Nat \ {0}
    PROVE  /\ RoundHalfUp(n, d) \in Nat
           /\ 2 * (RoundHalfUp(n, d) * d) <= 2 * n + d
           /\ 2 * n < 2 * (RoundHalfUp(n, d) * d) + d
<1> DEFINE q == (2 * n + d) \div (2 * d)
<1>1. /\ q \in Int
      /\ (2 * d) * q <= 2 * n + d
      /\ 2 * n + d < (2 * d) * (q + 1)
  OBVIOUS
<1>2. q >= 0
  BY <1>1
<1>3. (2 * d) * q = 2 * (q * d)
  BY <1>1
<1>4. (2 * d) * (q + 1) = 2 * (q * d) + 2 * d
  BY <1>1
<1> QED
  BY <1>1, <1>2, <1>3, <1>4 DEF RoundHalfUp

(* A number brought to scale is a natural number. *)
LEMMA ToScaleType ==
    ASSUME NEW n \in Nat, NEW d \in Nat \ {0}
    PROVE  ToScale(n, d) \in Nat
BY RoundHalfUpBounds DEF ToScale

(* What the columns accept is stored as a position of the same lot. *)
LEMMA CoerceType ==
    ASSUME NEW p \in Position, Storable(p)
    PROVE  Coerce(p) \in Position /\ Coerce(p).positionID = p.positionID
<1>1. p \in PositionRecord
  BY DEF Position
<1>2. /\ ToScale(p.amount, AmountQuantum) \in Nat
      /\ ToScale(p.unitPrice, PriceQuantum) \in Nat
      /\ ToScale(p.totalValue, ValueQuantum) \in Nat
  BY <1>1, ToScaleType, ScaleAssumption DEF PositionRecord
<1>3. Coerce(p) \in PositionRecord /\ Coerce(p).positionID = p.positionID
  BY <1>1, <1>2 DEF PositionRecord, Coerce
<1> QED
  BY <1>3 DEF Storable, Position

(* A lot with value available has a price to divide by. *)
LEMMA EligiblePrice ==
    ASSUME NEW lot \in Position, IsEligible(lot)
    PROVE  /\ AvailableValue(lot) \in Nat \ {0}
           /\ lot.unitPrice \in Nat \ {0}
<1>1. /\ lot \in PositionRecord
      /\ lot.totalValue = lot.amount * lot.unitPrice
  BY DEF Position
<1>2. /\ lot.amount \in Nat /\ lot.unitPrice \in Nat /\ lot.totalValue \in Nat
      /\ lot.collateralValue \in Nat /\ lot.judiciaryCollateralValue \in Nat
  BY <1>1 DEF PositionRecord
<1>3. AvailableValue(lot) \in Int /\ AvailableValue(lot) > 0
  BY <1>2 DEF AvailableValue, IsEligible
<1>4. lot.totalValue > 0
  BY <1>2, <1>3 DEF AvailableValue
<1>5. lot.unitPrice # 0
  BY <1>1, <1>2, <1>4
<1> QED
  BY <1>2, <1>3, <1>5

(* The units sold from an eligible lot are a natural number. *)
LEMMA UnitsSoldType ==
    ASSUME NEW lot \in Position, IsEligible(lot),
           NEW remaining \in Int, remaining > 0
    PROVE  UnitsSold(lot, remaining) \in Nat
<1> DEFINE available == AvailableValue(lot)
           value == IF remaining < available THEN remaining ELSE available
<1>1. available \in Nat /\ lot.unitPrice \in Nat \ {0}
  BY EligiblePrice
<1>2. value * GuardUnits \in Nat
  BY <1>1, ScaleAssumption
<1>3. Div(value, lot.unitPrice) \in Nat
  BY <1>1, <1>2, RoundHalfUpBounds DEF Div
<1>4. AmountQuantum * GuardUnits \in Nat \ {0}
  BY ScaleAssumption
<1>5. ASSUME NEW quotient \in Nat PROVE Round6(quotient) \in Nat
  <2>1. RoundHalfUp(quotient, AmountQuantum * GuardUnits) \in Nat
    BY <1>4, RoundHalfUpBounds
  <2> QED
    BY <2>1, ScaleAssumption DEF Round6
<1> QED
  BY <1>3, <1>5 DEF UnitsSold

(* UpdateAmount keeps a position a position, one version on. *)
LEMMA UpdateAmountType ==
    ASSUME NEW p \in Position, NEW n \in Nat
    PROVE  /\ UpdateAmount(p, n) \in Position
           /\ UpdateAmount(p, n).positionID = p.positionID
           /\ UpdateAmount(p, n).rowVersion = p.rowVersion + 1
           /\ UpdateAmount(p, n).amount = n
<1>1. p \in PositionRecord
  BY DEF Position
<1>2. n * p.unitPrice \in Nat /\ p.rowVersion + 1 \in Nat \ {0}
  BY <1>1 DEF PositionRecord
<1> DEFINE u == [p EXCEPT !.amount = n, !.totalValue = n * p.unitPrice,
                          !.rowVersion = p.rowVersion + 1]
<1>3. u = UpdateAmount(p, n)
  BY <1>1 DEF UpdateAmount
<1>4. /\ u \in PositionRecord /\ u.amount = n
      /\ u.totalValue = n * p.unitPrice /\ u.unitPrice = p.unitPrice
      /\ u.positionID = p.positionID /\ u.rowVersion = p.rowVersion + 1
  BY <1>1, <1>2 DEF PositionRecord
<1>5. u \in Position
  BY <1>4 DEF Position
<1> QED
  BY <1>3, <1>4, <1>5

(* The response built from positions is a sequence of their DTOs. *)
LEMMA ToResponseType ==
    ASSUME NEW s \in Seq(Position)
    PROVE  ToResponse(s) \in Seq(PositionDTO)
<1>1. /\ Len(s) \in Nat /\ DOMAIN s = 1..Len(s)
      /\ \A i \in 1..Len(s) : s[i] \in Position
  BY ElementOfSeq
<1>2. \A i \in 1..Len(s) : ToDTO(s[i]) \in PositionDTO
  BY <1>1 DEF ToDTO, PositionDTO, Position, PositionRecord
<1> QED
  BY <1>1, <1>2 DEF ToResponse

(* An ordering of finitely many positions is a sequence of them. *)
LEMMA OldestFirstType ==
    ASSUME NEW rows \in SUBSET Position, IsFiniteSet(rows),
           NEW s \in OldestFirst(Eligible(rows))
    PROVE  /\ s \in Seq(Position)
           /\ \A i \in 1..Len(s) : s[i] \in rows /\ IsEligible(s[i])
<1>1. Cardinality(Eligible(rows)) \in Nat
  BY FS_Subset, FS_CardinalityType DEF Eligible
<1>2. s \in [1..Cardinality(Eligible(rows)) -> Eligible(rows)]
  BY DEF OldestFirst, SetToSeqs
<1>3. s \in Seq(Eligible(rows))
  BY <1>1, <1>2
<1> QED
  BY <1>3 DEF Eligible

(* Writing a row, or a buffer of rows, to a table gives a table. *)
LEMMA PutType ==
    ASSUME NEW K, NEW V, NEW t, IsTable(t, K, V), NEW k \in K, NEW v \in V
    PROVE  IsTable(Put(t, k, v), K, V)
BY DEF IsTable, Put

(* Applying a buffer of rows to a table keeps its type. *)
LEMMA PutAllType ==
    ASSUME NEW K, NEW V, NEW t, NEW u, IsTable(t, K, V), IsTable(u, K, V)
    PROVE  IsTable(PutAll(t, u), K, V)
BY DEF IsTable, PutAll

(* The empty table is a table of any type. *)
LEMMA EmptyTableType ==
    ASSUME NEW K, NEW V
    PROVE  IsTable(EmptyTable, K, V) /\ DOMAIN EmptyTable = {}
BY DEF IsTable, EmptyTable

-----------------------------------------------------------------------------
(* Rounding at the scales of the columns. *)

(* A quotient that does not exceed a natural number is not rounded past it. *)
LEMMA RoundHalfUpAtMost ==
    ASSUME NEW n \in Nat, NEW d \in Nat \ {0}, NEW m \in Nat, n <= m * d
    PROVE  RoundHalfUp(n, d) <= m
<1> DEFINE q == RoundHalfUp(n, d)
<1>1. q \in Nat /\ 2 * (q * d) <= 2 * n + d
  BY RoundHalfUpBounds
<1>2. SUFFICES ASSUME q >= m + 1 PROVE FALSE
  BY <1>1
<1>3. PICK e \in Nat : q = (m + 1) + e
  <2>1. q - (m + 1) \in Nat /\ q = (m + 1) + (q - (m + 1))
    BY <1>1, <1>2
  <2> QED
    BY <2>1
<1>4. q * d = (m * d + d) + e * d /\ e * d >= 0 /\ m * d \in Nat
  BY <1>3
<1> HIDE DEF q
<1> QED
  BY <1>1, <1>4

(* Nor is one that reaches a natural number rounded below it. *)
LEMMA RoundHalfUpAtLeast ==
    ASSUME NEW n \in Nat, NEW d \in Nat \ {0}, NEW m \in Nat, m * d <= n
    PROVE  RoundHalfUp(n, d) >= m
<1> DEFINE q == RoundHalfUp(n, d)
<1>1. q \in Nat /\ 2 * n < 2 * (q * d) + d
  BY RoundHalfUpBounds
<1>2. SUFFICES ASSUME m >= q + 1 PROVE FALSE
  BY <1>1
<1>3. PICK e \in Nat : m = (q + 1) + e
  <2>1. m - (q + 1) \in Nat /\ m = (q + 1) + (m - (q + 1))
    BY <1>1, <1>2
  <2> QED
    BY <2>1
<1> HIDE DEF q
<1>4. m * d = (q * d + d) + e * d /\ e * d >= 0 /\ q * d \in Nat
  BY <1>1, <1>3
<1> QED
  BY <1>1, <1>4

(* A multiple of the column's last digit is stored as it is. *)
LEMMA ToScaleExact ==
    ASSUME NEW k \in Nat, NEW d \in Nat \ {0}
    PROVE  ToScale(k * d, d) = k * d
<1>1. k * d \in Nat
  OBVIOUS
<1>2. RoundHalfUp(k * d, d) \in Nat
  BY <1>1, RoundHalfUpBounds
<1>3. RoundHalfUp(k * d, d) <= k /\ RoundHalfUp(k * d, d) >= k
  BY <1>1, RoundHalfUpAtMost, RoundHalfUpAtLeast
<1> QED
  BY <1>2, <1>3 DEF ToScale

(* A number that is at a column's scale is such a multiple, and so is      *)
(* every number that was brought to the scale.                             *)
LEMMA AtScale ==
    ASSUME NEW n \in Nat, NEW d \in Nat \ {0}
    PROVE  /\ \E k \in Nat : ToScale(n, d) = k * d
           /\ ToScale(ToScale(n, d), d) = ToScale(n, d)
<1>1. RoundHalfUp(n, d) \in Nat
  BY RoundHalfUpBounds
<1> QED
  BY <1>1, ToScaleExact DEF ToScale

(* Storing a row twice changes nothing. *)
LEMMA CoerceTwice ==
    ASSUME NEW p \in Position, Storable(p)
    PROVE  Coerce(Coerce(p)) = Coerce(p)
<1>1. p \in PositionRecord
  BY DEF Position
<1> DEFINE a == ToScale(p.amount, AmountQuantum)
           u == ToScale(p.unitPrice, PriceQuantum)
           v == ToScale(p.totalValue, ValueQuantum)
           row == [p EXCEPT !.amount = a, !.unitPrice = u, !.totalValue = v]
<1>2. /\ ToScale(a, AmountQuantum) = a
      /\ ToScale(u, PriceQuantum) = u
      /\ ToScale(v, ValueQuantum) = v
  BY <1>1, AtScale, ScaleAssumption DEF PositionRecord
<1>3. Coerce(p) = row
  BY <1>1 DEF Coerce, PositionRecord
<1> HIDE DEF a, u, v
<1>4. row.amount = a /\ row.unitPrice = u /\ row.totalValue = v
  BY <1>1 DEF PositionRecord
<1>5. Coerce(row) = row
  BY <1>1, <1>2, <1>4 DEF Coerce, PositionRecord
<1> QED
  BY <1>3, <1>5

(* What the columns accept of a position whose amount and price are at     *)
(* their scales is stored as it is: the CHECK leaves no room for rounding  *)
(* the total.                                                              *)
LEMMA CoerceExact ==
    ASSUME NEW p \in Position, Storable(p),
           ToScale(p.amount, AmountQuantum) = p.amount,
           ToScale(p.unitPrice, PriceQuantum) = p.unitPrice
    PROVE  Coerce(p) = p
<1>1. p \in PositionRecord /\ p.totalValue = p.amount * p.unitPrice
  BY DEF Position
<1>2. /\ Coerce(p).amount = p.amount
      /\ Coerce(p).unitPrice = p.unitPrice
      /\ Coerce(p).totalValue = ToScale(p.totalValue, ValueQuantum)
  BY <1>1 DEF Coerce, PositionRecord
<1>3. ToScale(p.totalValue, ValueQuantum) = p.totalValue
  BY <1>1, <1>2 DEF Storable
<1> QED
  BY <1>1, <1>3 DEF Coerce, PositionRecord

-----------------------------------------------------------------------------
(* What is sold from a lot. *)

(* The units sold from an eligible lot are at the scale of the amounts,    *)
(* no more than the lot has, and worth no more than what is available plus *)
(* what the two roundings may add.                                         *)
LEMMA UnitsSoldBounds ==
    ASSUME NEW lot \in Position, IsEligible(lot),
           ToScale(lot.amount, AmountQuantum) = lot.amount,
           NEW remaining \in Int, remaining > 0
    PROVE  /\ \E j \in Nat : UnitsSold(lot, remaining) = j * AmountQuantum
           /\ UnitsSold(lot, remaining) <= lot.amount
           /\ 2 * GuardUnits * (UnitsSold(lot, remaining) * lot.unitPrice
                                   - AvailableValue(lot))
                <= (AmountQuantum * GuardUnits + 1) * lot.unitPrice
<1> DEFINE available == AvailableValue(lot)
           value == IF remaining < available THEN remaining ELSE available
           price == lot.unitPrice
           quotient == Div(value, price)
           digit == AmountQuantum * GuardUnits
           j == RoundHalfUp(quotient, digit)
<1>1. /\ lot.amount \in Nat /\ lot.totalValue = lot.amount * price
      /\ lot.collateralValue \in Nat /\ lot.judiciaryCollateralValue \in Nat
  BY DEF Position, PositionRecord
<1>2. available \in Nat \ {0} /\ price \in Nat \ {0}
  BY EligiblePrice
<1>3. available <= lot.amount * price
  BY <1>1, <1>2 DEF AvailableValue
<1>4. value \in Nat /\ value <= available
  BY <1>2
<1>5. UnitsSold(lot, remaining) = j * AmountQuantum
  BY DEF UnitsSold, Round6
<1>6. GuardUnits \in Nat \ {0} /\ AmountQuantum \in Nat \ {0}
  BY ScaleAssumption
<1>7. PICK k \in Nat : lot.amount = k * AmountQuantum
  <2>1. \E k \in Nat : ToScale(lot.amount, AmountQuantum) = k * AmountQuantum
    BY <1>1, <1>6, AtScale
  <2> QED
    BY <2>1
<1> HIDE DEF available, value, price
<1>8. value * GuardUnits \in Nat /\ lot.amount * GuardUnits \in Nat
  BY <1>1, <1>4, <1>6
<1>9. quotient \in Nat /\ 2 * (quotient * price) <= 2 * (value * GuardUnits) + price
  BY <1>2, <1>8, RoundHalfUpBounds DEF Div
<1>10. quotient <= lot.amount * GuardUnits
  <2>1. value <= lot.amount * price
    BY <1>1, <1>2, <1>3, <1>4
  <2>2. PICK e \in Nat : lot.amount * price = value + e
    <3>1. lot.amount * price - value \in Nat
      BY <1>1, <1>2, <1>4, <2>1
    <3>2. lot.amount * price = value + (lot.amount * price - value)
      BY <1>1, <1>2, <1>4
    <3> QED
      BY <3>1, <3>2
  <2>3. (lot.amount * GuardUnits) * price = (lot.amount * price) * GuardUnits
    BY <1>1, <1>2, <1>6
  <2>4. (value + e) * GuardUnits = value * GuardUnits + e * GuardUnits
    BY <1>4, <1>6
  <2>5. e * GuardUnits \in Nat
    BY <1>6
  <2>6. value * GuardUnits <= (lot.amount * GuardUnits) * price
    BY <1>8, <2>2, <2>3, <2>4, <2>5
  <2> QED
    BY <1>2, <1>8, <2>6, RoundHalfUpAtMost DEF Div
<1> HIDE DEF quotient
<1>11. digit \in Nat \ {0} /\ k * digit = lot.amount * GuardUnits
  BY <1>7, <1>6
<1> HIDE DEF digit
<1>12. j \in Nat /\ 2 * (j * digit) <= 2 * quotient + digit
  BY <1>9, <1>11, RoundHalfUpBounds
<1>13. j <= k
  BY <1>9, <1>10, <1>11, RoundHalfUpAtMost
<1> HIDE DEF j
<1>14. j * AmountQuantum <= lot.amount
  <2>1. PICK e \in Nat : k = j + e
    <3>1. k - j \in Nat /\ k = j + (k - j)
      BY <1>12, <1>13
    <3> QED
      BY <3>1
  <2>2. k * AmountQuantum = j * AmountQuantum + e * AmountQuantum
    BY <1>6, <1>12, <2>1
  <2>3. e * AmountQuantum \in Nat /\ j * AmountQuantum \in Nat
    BY <1>6, <1>12
  <2> QED
    BY <1>7, <2>2, <2>3
<1>15. 2 * GuardUnits * ((j * AmountQuantum) * price - available)
          <= (digit + 1) * price
  <2> DEFINE worth == (j * AmountQuantum) * price
             x == j * digit
  <2>1. x \in Nat /\ GuardUnits * worth = x * price
    BY <1>2, <1>6, <1>12 DEF digit
  <2> HIDE DEF x
  <2>2. (2 * x) * price <= (2 * quotient + digit) * price
    <3>1. PICK e \in Nat : 2 * quotient + digit = 2 * x + e
      <4>1. (2 * quotient + digit) - 2 * x \in Nat
        BY <1>9, <1>11, <1>12, <2>1 DEF x
      <4>2. 2 * quotient + digit = 2 * x + ((2 * quotient + digit) - 2 * x)
        BY <1>9, <1>11, <2>1
      <4> QED
        BY <4>1, <4>2
    <3>2. (2 * x + e) * price = (2 * x) * price + e * price
      BY <1>2, <2>1
    <3>3. e * price \in Nat /\ (2 * x) * price \in Nat
      BY <1>2, <2>1
    <3> QED
      BY <3>1, <3>2, <3>3
  <2>3. (2 * quotient + digit) * price = 2 * (quotient * price) + digit * price
    BY <1>2, <1>9, <1>11
  <2>4. value * GuardUnits <= available * GuardUnits
    <3>1. PICK e \in Nat : available = value + e
      <4>1. available - value \in Nat /\ available = value + (available - value)
        BY <1>2, <1>4
      <4> QED
        BY <4>1
    <3>2. available * GuardUnits = value * GuardUnits + e * GuardUnits
      BY <1>4, <1>6, <3>1
    <3>3. e * GuardUnits \in Nat
      BY <1>6
    <3> QED
      BY <1>8, <3>2, <3>3
  <2>5. /\ available * GuardUnits \in Nat /\ digit * price \in Nat
        /\ quotient * price \in Nat /\ x * price \in Nat /\ worth \in Nat
    BY <1>2, <1>6, <1>9, <1>11, <1>12, <2>1
  <2>6. (2 * x) * price = 2 * (x * price)
    BY <1>2, <2>1
  <2>7. (digit + 1) * price = digit * price + price
    BY <1>2, <1>11
  <2>8. 2 * GuardUnits * (worth - available)
          = 2 * (GuardUnits * worth) - 2 * (available * GuardUnits)
    BY <1>2, <1>6, <2>5
  <2>9. 2 * (value * GuardUnits) <= 2 * (available * GuardUnits)
    BY <1>8, <2>4, <2>5
  <2> HIDE DEF worth
  <2>10. 2 * (GuardUnits * worth) - 2 * (available * GuardUnits)
           <= digit * price + price
    <3> DEFINE xp == x * price
               qp == quotient * price
               vg == value * GuardUnits
               ag == available * GuardUnits
               dp == digit * price
    <3>1. /\ xp \in Nat /\ qp \in Nat /\ vg \in Nat /\ ag \in Nat
          /\ dp \in Nat /\ price \in Nat
      BY <1>2, <1>8, <2>5
    <3>2. 2 * xp <= 2 * qp + dp
      BY <2>2, <2>3, <2>6
    <3>3. 2 * qp <= 2 * vg + price
      BY <1>9
    <3>4. 2 * vg <= 2 * ag
      BY <2>9
    <3> HIDE DEF xp, qp, vg, ag, dp
    <3>5. 2 * xp - 2 * ag <= dp + price
      BY <3>1, <3>2, <3>3, <3>4
    <3> QED
      BY <2>1, <3>5 DEF xp, ag, dp
  <2> QED
    BY <2>7, <2>8, <2>10 DEF worth
<1> QED
  BY <1>5, <1>12, <1>14, <1>15 DEF digit, price, available

-----------------------------------------------------------------------------
(* What a withdrawal reads. *)

(* The ordering of the lots read holds every eligible one once, oldest     *)
(* first.                                                                  *)
LEMMA OldestFirstComplete ==
    ASSUME NEW rows \in SUBSET Position, IsFiniteSet(rows),
           NEW s \in OldestFirst(Eligible(rows))
    PROVE  /\ \A p \in Eligible(rows) : \E i \in 1..Len(s) : s[i] = p
           /\ \A i, j \in 1..Len(s) : i < j =>
                 s[i] # s[j] /\ s[i].purchasedAt <= s[j].purchasedAt
<1> DEFINE E == Eligible(rows)
           n == Cardinality(E)
<1>1. IsFiniteSet(E) /\ n \in Nat
  BY FS_Subset, FS_CardinalityType DEF Eligible
<1>2. /\ s \in [1..n -> E]
      /\ \A i, j \in 1..n : i # j => s[i] # s[j]
      /\ \A i, j \in DOMAIN s : i < j => s[i].purchasedAt <= s[j].purchasedAt
  BY DEF OldestFirst, SetToSeqs
<1> HIDE DEF E
<1>3. Len(s) = n /\ DOMAIN s = 1..n
  <2>1. s \in Seq(E)
    BY <1>1, <1>2
  <2> QED
    BY <1>1, <1>2, <2>1
<1>4. s \in Injection(1..n, E)
  BY <1>2 DEF Injection, IsInjective
<1>5. Cardinality(1..n) = n
  BY <1>1, FS_Interval
<1>6. s \in Surjection(1..n, E)
  BY <1>1, <1>4, <1>5, FS_Injection
<1>7. \A p \in E : \E i \in 1..n : s[i] = p
  BY <1>6 DEF Surjection
<1> QED
  BY <1>2, <1>3, <1>7 DEF E

(* Nothing is available in no lots. *)
LEMMA NothingAvailable == TotalAvailable({}) = 0
<1> DEFINE Sum(f) == [s \in SUBSET {} |->
                        IF s = {} THEN 0
                        ELSE LET x == CHOOSE x \in s : TRUE
                             IN  AvailableValue(x) + f[s \ {x}]]
           sum == CHOOSE f : f = Sum(f)
<1>1. TotalAvailable({}) = sum[{}]
  BY DEF TotalAvailable, MapThenSumSet, MapThenFoldSet
<1>2. SUBSET {} = {{}}
  OBVIOUS
<1>3. \E f : f = Sum(f)
  <2>1. [s \in SUBSET {} |-> 0] = Sum([s \in SUBSET {} |-> 0])
    BY <1>2
  <2> QED
    BY <2>1
<1>4. sum = Sum(sum)
  BY <1>3
<1>5. Sum(sum)[{}] = 0
  BY <1>2
<1> QED
  BY <1>1, <1>4, <1>5
=============================================================================
