--------------------------- MODULE ProceedsProofs ---------------------------
(***************************************************************************)
(* A recorded withdrawal sold what was asked for, up to the rounding of    *)
(* the lots it debited, for any number of lots, prices and scales.         *)
(*                                                                         *)
(* Each round of the loop may miss the value asked of its lot by a         *)
(* rounding error, and the loop may end because no lot is left although    *)
(* something remains.  FundsInv bounds what remains by the errors so far   *)
(* and by what the lots not yet sold from still have, a sum the read       *)
(* started with at the desired value or more.                              *)
(***************************************************************************)
EXTENDS LedgerProofs

USE DEF CommandFound, ClientFound, AssetFound

-----------------------------------------------------------------------------
(* Sums over finite sets. *)

(* The member a fold takes from a set next. *)
Pick(s) == CHOOSE x \in s : TRUE

(* Function g has, for every subset of S, the sum of f over it, computed   *)
(* the way the library's fold does.                                        *)
IsSum(S, f, g) ==
    g = [s \in SUBSET S |-> IF s = {} THEN 0 ELSE f[Pick(s)] + g[s \ {Pick(s)}]]

(* A nonempty set has a member to take, and is smaller without it. *)
LEMMA Smaller ==
    ASSUME NEW S, IsFiniteSet(S), NEW s \in SUBSET S
    PROVE  /\ Cardinality(s) \in Nat
           /\ Cardinality(s) <= 0 => s = {}
           /\ s # {} => Pick(s) \in s
           /\ \A x \in s : /\ s \ {x} \in SUBSET S
                           /\ Cardinality(s \ {x}) = Cardinality(s) - 1
<1>1. IsFiniteSet(s)
  BY FS_Subset
<1>2. Cardinality(s) \in Nat
  BY <1>1, FS_CardinalityType
<1>3. Cardinality(s) = 0 <=> s = {}
  BY <1>1, FS_EmptySet
<1>4. s # {} => Pick(s) \in s
  BY DEF Pick
<1>5. \A x \in s : Cardinality(s \ {x}) = Cardinality(s) - 1
  BY <1>1, FS_RemoveElement
<1> QED
  BY <1>2, <1>3, <1>4, <1>5

(* Among subsets of a finite set there is a smallest one. *)
LEMMA SmallestSubset ==
    ASSUME NEW S, IsFiniteSet(S), NEW Q, Q \subseteq SUBSET S, Q # {}
    PROVE  \E s \in Q : \A t \in Q : Cardinality(s) <= Cardinality(t)
<1> DEFINE sizes == {Cardinality(s) : s \in Q}
<1>1. sizes \subseteq Nat /\ sizes # {}
  BY Smaller
<1> HIDE DEF sizes
<1>2. PICK n \in sizes : \A k \in sizes : n <= k
  BY <1>1, LeastNatural
<1> QED
  BY <1>2 DEF sizes

(* The sums exist: they can be computed for larger and larger subsets. *)
LEMMA SumExists ==
    ASSUME NEW S, IsFiniteSet(S), NEW f \in [S -> Int]
    PROVE  \E g : IsSum(S, f, g)
<1> DEFINE next(g, s) == IF s = {} THEN 0 ELSE f[Pick(s)] + g[s \ {Pick(s)}]
           upTo(n, g) == \A s \in SUBSET S : Cardinality(s) <= n => g[s] = next(g, s)
           bad == {n \in Nat : ~ \E g : upTo(n, g)}
<1>1. bad = {}
  <2>1. SUFFICES ASSUME bad # {} PROVE FALSE
    OBVIOUS
  <2>2. PICK n \in bad : \A k \in bad : n <= k
    BY <2>1, LeastNatural
  <2>3. upTo(0, [s \in SUBSET S |-> 0])
    BY Smaller
  <2>4. n \in Nat /\ n # 0
    BY <2>2, <2>3
  <2> HIDE DEF bad
  <2>5. n - 1 \in Nat /\ n - 1 \notin bad
    BY <2>2, <2>4
  <2> USE DEF bad
  <2>6. PICK g : upTo(n - 1, g)
    BY <2>5
  <2> DEFINE h == [s \in SUBSET S |->
                     IF Cardinality(s) <= n - 1 THEN g[s] ELSE next(g, s)]
  <2>7. ASSUME NEW s \in SUBSET S, Cardinality(s) <= n
        PROVE  h[s] = next(h, s)
    <3> DEFINE t == s \ {Pick(s)}
    <3>1. h[s] = next(g, s)
      BY <2>6
    <3>2. s # {} => t \in SUBSET S /\ Cardinality(t) <= n - 1
      BY <2>4, <2>7, Smaller
    <3>3. s # {} => h[t] = g[t]
      BY <3>2
    <3> QED
      BY <3>1, <3>3
  <2>8. upTo(n, h)
    BY <2>7
  <2> HIDE DEF h, upTo
  <2> QED
    BY <2>2, <2>8
<1>2. Cardinality(S) \in Nat
  BY FS_CardinalityType
<1>3. PICK g : upTo(Cardinality(S), g)
  BY <1>1, <1>2
<1> DEFINE h == [s \in SUBSET S |-> g[s]]
<1>4. ASSUME NEW s \in SUBSET S
      PROVE  h[s] = next(h, s)
  <2>1. g[s] = next(g, s)
    BY <1>3, FS_Subset
  <2> QED
    BY <2>1, Smaller
<1>5. h = [s \in SUBSET S |-> next(h, s)]
  BY <1>4
<1> QED
  BY <1>5 DEF IsSum

(* The sums are integers. *)
LEMMA SumType ==
    ASSUME NEW S, IsFiniteSet(S), NEW f \in [S -> Int], NEW g, IsSum(S, f, g)
    PROVE  /\ g[{}] = 0
           /\ \A s \in SUBSET S : s # {} =>
                 g[s] = f[Pick(s)] + g[s \ {Pick(s)}]
           /\ \A s \in SUBSET S : g[s] \in Int
<1>1. /\ g[{}] = 0
      /\ \A s \in SUBSET S : s # {} => g[s] = f[Pick(s)] + g[s \ {Pick(s)}]
  BY DEF IsSum
<1> DEFINE bad == {s \in SUBSET S : g[s] \notin Int}
<1>2. bad = {}
  <2>1. SUFFICES ASSUME bad # {} PROVE FALSE
    OBVIOUS
  <2>2. PICK s \in bad : \A t \in bad : Cardinality(s) <= Cardinality(t)
    BY <2>1, SmallestSubset
  <2>3. s \in SUBSET S /\ s # {} /\ g[s] \notin Int
    BY <1>1, <2>2
  <2> DEFINE t == s \ {Pick(s)}
  <2>4. /\ t \in SUBSET S /\ Pick(s) \in S
        /\ Cardinality(s) \in Nat /\ Cardinality(t) = Cardinality(s) - 1
    BY <2>3, Smaller
  <2>5. t \notin bad
    <3> HIDE DEF bad, t
    <3> QED
      BY <2>2, <2>4
  <2>6. g[t] \in Int
    BY <2>4, <2>5
  <2>7. g[s] = f[Pick(s)] + g[t] /\ f[Pick(s)] \in Int
    BY <1>1, <2>3, <2>4
  <2> HIDE DEF bad, t
  <2> QED
    BY <2>3, <2>6, <2>7
<1> QED
  BY <1>1, <1>2

(* Function g has for every subset of S an integer that can be taken apart *)
(* at any member.                                                          *)
Splits(S, f, g) ==
    /\ g[{}] = 0
    /\ \A s \in SUBSET S :
          g[s] \in Int /\ \A x \in s : g[s] = f[x] + g[s \ {x}]

(* The order does not matter to a sum. *)
LEMMA SumSplits ==
    ASSUME NEW S, IsFiniteSet(S), NEW f \in [S -> Int], NEW g, IsSum(S, f, g)
    PROVE  Splits(S, f, g)
<1> DEFINE bad == {t \in SUBSET S : \E y \in t : g[t] # f[y] + g[t \ {y}]}
<1>1. bad = {}
  <2>1. SUFFICES ASSUME bad # {} PROVE FALSE
    OBVIOUS
  <2>2. PICK t \in bad : \A u \in bad : Cardinality(t) <= Cardinality(u)
    BY <2>1, SmallestSubset
  <2>3. PICK y \in t : g[t] # f[y] + g[t \ {y}]
    BY <2>2
  <2> DEFINE c == Pick(t)
  <2>4. t \in SUBSET S /\ c \in t /\ g[t] = f[c] + g[t \ {c}]
    BY <2>2, <2>3, Smaller, SumType
  <2>5. y # c
    BY <2>3, <2>4
  <2>6. /\ t \ {c} \in SUBSET S /\ Cardinality(t \ {c}) = Cardinality(t) - 1
        /\ t \ {y} \in SUBSET S /\ Cardinality(t \ {y}) = Cardinality(t) - 1
        /\ Cardinality(t) \in Nat
    BY <2>4, Smaller
  <2>7. t \ {c} \notin bad /\ t \ {y} \notin bad
    <3> HIDE DEF bad, c
    <3> QED
      BY <2>2, <2>6
  <2>8. /\ g[t \ {c}] = f[y] + g[(t \ {c}) \ {y}]
        /\ g[t \ {y}] = f[c] + g[(t \ {y}) \ {c}]
    BY <2>4, <2>5, <2>6, <2>7
  <2>9. (t \ {c}) \ {y} = (t \ {y}) \ {c}
    OBVIOUS
  <2>10. /\ f[y] \in Int /\ f[c] \in Int
         /\ (t \ {y}) \ {c} \in SUBSET S
         /\ g[(t \ {y}) \ {c}] \in Int
    BY <2>4, <2>6, SumType
  <2> DEFINE rest == g[(t \ {y}) \ {c}]
  <2>11. g[t] = f[c] + (f[y] + rest) /\ f[y] + g[t \ {y}] = f[y] + (f[c] + rest)
    BY <2>4, <2>8, <2>9
  <2> HIDE DEF bad, c, rest
  <2>12. f[c] + (f[y] + rest) = f[y] + (f[c] + rest)
    BY <2>10 DEF rest
  <2> QED
    BY <2>3, <2>11, <2>12
<1>2. ASSUME NEW s \in SUBSET S, NEW x \in s
      PROVE  g[s] = f[x] + g[s \ {x}]
  BY <1>1
<1>3. g[{}] = 0 /\ \A s \in SUBSET S : g[s] \in Int
  BY SumType
<1> QED
  BY <1>2, <1>3 DEF Splits

(* What adds nothing can be left out. *)
LEMMA SumOutside ==
    ASSUME NEW S, IsFiniteSet(S), NEW f \in [S -> Int], NEW g, Splits(S, f, g),
           NEW R \in SUBSET S, \A x \in S \ R : f[x] = 0
    PROVE  g[S] = g[R]
<1> DEFINE bad == {t \in SUBSET S : R \subseteq t /\ g[t] # g[R]}
<1>1. bad = {}
  <2>1. SUFFICES ASSUME bad # {} PROVE FALSE
    OBVIOUS
  <2>2. PICK t \in bad : \A u \in bad : Cardinality(t) <= Cardinality(u)
    BY <2>1, SmallestSubset
  <2>3. t \in SUBSET S /\ R \subseteq t /\ g[t] # g[R]
    BY <2>2
  <2>4. PICK x \in t : x \notin R
    BY <2>3
  <2>5. /\ t \ {x} \in SUBSET S /\ Cardinality(t \ {x}) = Cardinality(t) - 1
        /\ Cardinality(t) \in Nat /\ g[t \ {x}] \in Int
    BY <2>3, Smaller DEF Splits
  <2>6. t \ {x} \notin bad
    <3> HIDE DEF bad
    <3> QED
      BY <2>2, <2>5
  <2>7. g[t \ {x}] = g[R]
    BY <2>3, <2>4, <2>5, <2>6
  <2>8. g[t] = f[x] + g[t \ {x}] /\ f[x] = 0
    BY <2>3, <2>4 DEF Splits
  <2> QED
    BY <2>3, <2>5, <2>7, <2>8
<1> QED
  BY <1>1

(* Members of S in a sequence s of length n without repetition, and the    *)
(* running total c of f along it.                                          *)
IsRunning(S, f, n, s, c) ==
    /\ n \in Nat /\ s \in [1..n -> S] /\ c \in [1..n + 1 -> Int]
    /\ \A i, j \in 1..n : i # j => s[i] # s[j]
    /\ c[1] = 0
    /\ \A i \in 1..n : c[i + 1] = c[i] + f[s[i]]

(* The running total of f along a sequence without repetition ends at the  *)
(* sum over its members.                                                   *)
LEMMA SumAlong ==
    ASSUME NEW S, NEW f \in [S -> Int], NEW g, Splits(S, f, g),
           NEW n, NEW s, NEW c, IsRunning(S, f, n, s, c),
           NEW R, R = {s[i] : i \in 1..n}
    PROVE  g[R] = c[n + 1]
<1>1. /\ g[{}] = 0
      /\ \A t \in SUBSET S : \A x \in t : g[t] = f[x] + g[t \ {x}]
  BY DEF Splits
<1>2. /\ n \in Nat /\ s \in [1..n -> S] /\ c \in [1..n + 1 -> Int]
      /\ \A i, j \in 1..n : i # j => s[i] # s[j]
      /\ c[1] = 0
      /\ \A i \in 1..n : c[i + 1] = c[i] + f[s[i]]
  BY DEF IsRunning
<1> DEFINE first(k) == {s[i] : i \in 1..k}
           bad == {k \in Nat : k <= n /\ g[first(k)] # c[k + 1]}
<1>3. bad = {}
  <2>1. SUFFICES ASSUME bad # {} PROVE FALSE
    OBVIOUS
  <2>2. PICK k \in bad : \A j \in bad : k <= j
    BY <2>1, LeastNatural
  <2>3. k \in Nat /\ k <= n /\ g[first(k)] # c[k + 1]
    BY <2>2
  <2>4. k # 0
    <3>1. SUFFICES ASSUME k = 0 PROVE FALSE
      OBVIOUS
    <3>2. first(k) = {}
      BY <3>1
    <3>3. g[{}] = 0
      BY <1>1
    <3>4. c[k + 1] = 0
      BY <1>2, <3>1
    <3> HIDE DEF first, bad
    <3> QED
      BY <2>3, <3>2, <3>3, <3>4
  <2>5. k - 1 \in Nat /\ k - 1 <= n /\ (k - 1) + 1 = k /\ k \in 1..n
    BY <1>2, <2>3, <2>4
  <2>6. k - 1 \notin bad
    <3> HIDE DEF bad
    <3> QED
      BY <2>2, <2>5
  <2>7. g[first(k - 1)] = c[k]
    BY <2>5, <2>6
  <2>8. /\ first(k) \in SUBSET S /\ s[k] \in first(k)
        /\ first(k) \ {s[k]} = first(k - 1)
    <3>1. \A i \in 1..k : i \in 1..n /\ s[i] \in S
      BY <1>2, <2>3, <2>5
    <3>2. \A i \in 1..k - 1 : i \in 1..k /\ i # k
      BY <2>5
    <3>3. \A i \in 1..k : i # k => i \in 1..k - 1
      BY <2>5
    <3>4. \A i \in 1..k : s[i] = s[k] => i = k
      BY <1>2, <2>5, <3>1
    <3>5. k \in 1..k
      BY <2>5
    <3> QED
      BY <3>1, <3>2, <3>3, <3>4, <3>5
  <2>9. g[first(k)] = f[s[k]] + g[first(k - 1)]
    <3> HIDE DEF first
    <3>1. g[first(k)] = f[s[k]] + g[first(k) \ {s[k]}]
      BY <1>1, <2>8
    <3> QED
      BY <2>8, <3>1
  <2>10. c[k + 1] = c[k] + f[s[k]] /\ c[k] \in Int /\ f[s[k]] \in Int
    BY <1>2, <2>5
  <2> QED
    BY <2>3, <2>7, <2>9, <2>10
<1>4. n \notin bad
  BY <1>3
<1> QED
  BY <1>2, <1>4

-----------------------------------------------------------------------------
(* One round of the loop. *)

(* Less than n, a times is less than n times. *)
LEMMA TimesPrice ==
    ASSUME NEW a \in Int, NEW b \in Int, a <= b, NEW price \in Nat
    PROVE  a * price <= b * price
<1>1. PICK e \in Nat : b = a + e
  <2>1. b - a \in Nat /\ b = a + (b - a)
    OBVIOUS
  <2> QED
    BY <2>1
<1>2. (a + e) * price = a * price + e * price
  OBVIOUS
<1>3. e * price \in Nat /\ a * price \in Int
  OBVIOUS
<1> QED
  BY <1>1, <1>2, <1>3

(* A value divided by a price, rounded to the guard digits and then to the *)
(* amount's digits, and multiplied by the price again.                     *)
LEMMA RoundedTwice ==
    ASSUME NEW value \in Nat, NEW price \in Nat \ {0}
    PROVE  LET units == Round6(Div(value, price))
               error == (AmountQuantum * GuardUnits + 1) * price
           IN  /\ units \in Nat
               /\ 2 * (GuardUnits * (units * price)) <= 2 * (GuardUnits * value) + error
               /\ 2 * (GuardUnits * value) <= 2 * (GuardUnits * (units * price)) + error
<1> DEFINE q == Div(value, price)
           digit == AmountQuantum * GuardUnits
           j == RoundHalfUp(q, digit)
           vg == GuardUnits * value
           qp == q * price
           jp == (j * digit) * price
           dp == digit * price
<1>1. GuardUnits \in Nat \ {0} /\ AmountQuantum \in Nat \ {0}
  BY ScaleAssumption
<1>2. value * GuardUnits \in Nat /\ value * GuardUnits = vg
  BY <1>1
<1>3. q \in Nat /\ 2 * qp <= 2 * vg + price /\ 2 * vg < 2 * qp + price
  BY <1>2, RoundHalfUpBounds DEF Div
<1>4. digit \in Nat \ {0}
  BY <1>1
<1> HIDE DEF q, vg, digit
<1>5. j \in Nat /\ 2 * (j * digit) <= 2 * q + digit /\ 2 * q < 2 * (j * digit) + digit
  BY <1>3, <1>4, RoundHalfUpBounds
<1> HIDE DEF j
<1>6. j * digit \in Nat
  BY <1>4, <1>5
<1>7. /\ (2 * (j * digit)) * price <= (2 * q + digit) * price
      /\ (2 * q) * price <= (2 * (j * digit) + digit) * price
  <2> DEFINE x == j * digit
  <2> HIDE DEF x
  <2>1. x \in Nat /\ 2 * x <= 2 * q + digit /\ 2 * q <= 2 * x + digit
    BY <1>3, <1>4, <1>5, <1>6 DEF x
  <2>2. 2 * x \in Int /\ 2 * q + digit \in Int /\ 2 * q \in Int /\ 2 * x + digit \in Int
    BY <1>3, <1>4, <2>1
  <2>3. (2 * x) * price <= (2 * q + digit) * price
    BY <2>1, <2>2, TimesPrice
  <2>4. (2 * q) * price <= (2 * x + digit) * price
    BY <2>1, <2>2, TimesPrice
  <2> QED
    BY <2>3, <2>4 DEF x
<1>8. /\ (2 * (j * digit)) * price = 2 * jp
      /\ (2 * q + digit) * price = 2 * qp + dp
      /\ (2 * q) * price = 2 * qp
      /\ (2 * (j * digit) + digit) * price = 2 * jp + dp
  BY <1>3, <1>4, <1>6
<1>9. vg \in Nat /\ qp \in Nat /\ jp \in Nat /\ dp \in Nat
  BY <1>2, <1>3, <1>4, <1>6
<1>10. 2 * jp <= 2 * qp + dp /\ 2 * qp <= 2 * jp + dp
  BY <1>7, <1>8
<1> HIDE DEF qp, jp, dp
<1>11. 2 * jp <= 2 * vg + (dp + price) /\ 2 * vg <= 2 * jp + (dp + price)
  BY <1>3, <1>9, <1>10
<1> DEFINE units == j * AmountQuantum
<1>12. units = Round6(Div(value, price)) /\ units \in Nat
  BY <1>1, <1>5 DEF Round6, q, j, digit
<1>13. GuardUnits * (units * price) = jp
  BY <1>1, <1>5 DEF jp, digit
<1>14. (digit + 1) * price = dp + price
  BY <1>4 DEF dp
<1> HIDE DEF units
<1> QED
  BY <1>11, <1>12, <1>13, <1>14 DEF vg, digit

(* What remains is within an error E of nothing, from below, and within E  *)
(* of what the lots not sold from have, from above.                        *)
Near(remaining, E, rest) ==
    /\ 2 * (GuardUnits * (0 - remaining)) <= E
    /\ 2 * (GuardUnits * remaining) <= E + 2 * (GuardUnits * rest)

(* Selling from a lot adds its rounding to the error and takes what it has *)
(* off the rest.                                                           *)
LEMMA RoundStaysNear ==
    ASSUME NEW lot \in Position, IsEligible(lot),
           NEW remaining \in Int, remaining > 0, NEW E \in Nat, NEW rest \in Nat,
           Near(remaining, E, AvailableValue(lot) + rest)
    PROVE  /\ RoundingError(lot.unitPrice) \in Nat
           /\ Near(remaining - UnitsSold(lot, remaining) * lot.unitPrice,
                   E + RoundingError(lot.unitPrice), rest)
<1> DEFINE available == AvailableValue(lot)
           value == IF remaining < available THEN remaining ELSE available
           price == lot.unitPrice
           units == UnitsSold(lot, remaining)
           sold == units * price
           error == RoundingError(price)
           G == GuardUnits
<1>1. available \in Nat /\ price \in Nat \ {0} /\ G \in Nat
  BY EligiblePrice, ScaleAssumption
<1>2. value \in Nat /\ units = Round6(Div(value, price))
  BY <1>1 DEF UnitsSold
<1>3. value = remaining \/ (value = available /\ value <= remaining)
  BY <1>1
<1> HIDE DEF available, value, price, units
<1>4. /\ units \in Nat
      /\ 2 * (G * sold) <= 2 * (G * value) + error
      /\ 2 * (G * value) <= 2 * (G * sold) + error
  BY <1>1, <1>2, RoundedTwice DEF RoundingError
<1>5. error \in Nat
  BY <1>1, ScaleAssumption DEF RoundingError
<1>6. sold \in Nat
  BY <1>1, <1>4
<1> HIDE DEF sold, error, G
<1> DEFINE gr == G * remaining
           ga == G * available
           gt == G * rest
           gs == G * sold
           gv == G * value
<1>7. gr \in Int /\ ga \in Int /\ gt \in Nat /\ gs \in Int /\ gv \in Int
  BY <1>1, <1>2, <1>6
<1>8. /\ G * (0 - remaining) = 0 - gr
      /\ G * (available + rest) = ga + gt
      /\ G * (remaining - sold) = gr - gs
      /\ G * (0 - (remaining - sold)) = gs - gr
  BY <1>1, <1>6
<1>9. gv = gr \/ (gv = ga /\ gv <= gr)
  <2>1. CASE value = remaining
    BY <2>1
  <2>2. CASE value = available /\ value <= remaining
    <3>1. value * G <= remaining * G
      BY <1>1, <1>2, <2>2, TimesPrice
    <3> QED
      BY <1>1, <1>2, <2>2, <3>1
  <2> QED
    BY <1>3, <2>1, <2>2
<1>10. 2 * gr <= E + 2 * (ga + gt)
  BY <1>8 DEF Near, available, G
<1> HIDE DEF gr, ga, gt, gs, gv
<1>11. 2 * (gs - gr) <= E + error
  BY <1>4, <1>5, <1>7, <1>9 DEF gs, gv
<1>12. 2 * (gr - gs) <= (E + error) + 2 * gt
  <2>1. 2 * gv <= 2 * gs + error
    BY <1>4 DEF gs, gv
  <2>2. CASE gv = gr
    BY <1>5, <1>7, <2>1, <2>2
  <2>3. CASE gv = ga
    BY <1>5, <1>7, <1>10, <2>1, <2>3
  <2> QED
    BY <1>9, <2>2, <2>3
<1>13. Near(remaining - sold, E + error, rest)
  BY <1>8, <1>11, <1>12 DEF Near, gt, G
<1> QED
  BY <1>5, <1>13 DEF sold, error, units, price

-----------------------------------------------------------------------------
(* The invariant of the loop. *)

(* The errors of the rounds so far, added up. *)
IsErrors(m, errors) ==
    /\ errors[1] = 0
    /\ \A i \in 1..Len(m.held) :
          errors[i + 1] = errors[i] + RoundingError(m.held[i].unitPrice)

(* What the lots not sold from have, from each one on. *)
IsRest(m, rest) ==
    /\ rest[Len(m.eligible) + 1] = 0
    /\ \A j \in 1..Len(m.eligible) :
          rest[j] = AvailableValue(m.eligible[j]) + rest[j + 1]

Funds(m) ==
    \E errors \in [1..Len(m.held) + 1 -> Nat], rest \in [1..Len(m.eligible) + 1 -> Nat] :
        /\ IsErrors(m, errors)
        /\ IsRest(m, rest)
        /\ Near(m.remaining, errors[Len(m.held) + 1], rest[1])

FundsAt(label, m) ==
    label \in {"sell", "update", "createCommand", "commit"} => Funds(m)

(* A withdrawal has no more left to sell than it has lots for, but for     *)
(* rounding.                                                               *)
FundsInv == \A r \in Request : IsWithdraw(r) => FundsAt(pc[r], mem[r])

(* The check of what is available is about the sum of the lots read. *)
LEMMA TotalIsSum ==
    ASSUME NEW E \in SUBSET Position, IsFiniteSet(E), \A p \in E : IsEligible(p)
    PROVE  LET f == [p \in E |-> AvailableValue(p)]
           IN  f \in [E -> Int] /\ \E g : Splits(E, f, g) /\ TotalAvailable(E) = g[E]
<1> DEFINE f == [p \in E |-> AvailableValue(p)]
           Sum(g) == [s \in SUBSET E |->
                        IF s = {} THEN 0
                        ELSE LET x == CHOOSE x \in s : TRUE
                             IN  AvailableValue(x) + g[s \ {x}]]
           sum == CHOOSE g : g = Sum(g)
<1>1. f \in [E -> Int]
  BY EligiblePrice
<1>2. TotalAvailable(E) = sum[E]
  BY DEF TotalAvailable, MapThenSumSet, MapThenFoldSet
<1>3. \A g : IsSum(E, f, g) <=> g = Sum(g)
  <2> SUFFICES ASSUME NEW g
               PROVE  [s \in SUBSET E |->
                         IF s = {} THEN 0 ELSE f[Pick(s)] + g[s \ {Pick(s)}]] = Sum(g)
    BY DEF IsSum
  <2>1. ASSUME NEW s \in SUBSET E, s # {}
        PROVE  f[Pick(s)] = AvailableValue(Pick(s))
    <3>1. Pick(s) \in E
      BY <2>1, Smaller
    <3> QED
      BY <3>1
  <2> HIDE DEF f
  <2> QED
    BY <2>1 DEF Pick
<1> HIDE DEF Sum, f
<1>4. \E g : g = Sum(g)
  <2>1. \E g : IsSum(E, f, g)
    BY <1>1, SumExists
  <2> QED
    BY <1>3, <2>1
<1>5. sum = Sum(sum)
  BY <1>4
<1> HIDE DEF sum
<1>6. IsSum(E, f, sum)
  BY <1>3, <1>5
<1>7. Splits(E, f, sum)
  BY <1>1, <1>6, SumSplits
<1> QED
  BY <1>1, <1>2, <1>7 DEF f

(* The lots just read have the value desired. *)
LEMMA ReadHasFunds ==
    ASSUME NEW rows \in SUBSET Position, IsFiniteSet(rows),
           NEW s \in OldestFirst(Eligible(rows)),
           NEW desired \in Int, desired > 0, TotalAvailable(Eligible(rows)) >= desired,
           NEW m, m.held = <<>>, m.eligible = s, m.remaining = desired
    PROVE  Funds(m)
<1> DEFINE E == Eligible(rows)
           n == Len(s)
           f == [p \in E |-> AvailableValue(p)]
<1>1. E \in SUBSET Position /\ IsFiniteSet(E) /\ \A p \in E : IsEligible(p)
  BY FS_Subset DEF Eligible
<1>2. f \in [E -> Int] /\ \E g : Splits(E, f, g) /\ TotalAvailable(E) = g[E]
  BY <1>1, TotalIsSum
<1>3. PICK g : Splits(E, f, g) /\ TotalAvailable(E) = g[E]
  BY <1>2
<1>4. n \in Nat /\ \A i \in 1..n : s[i] \in E /\ f[s[i]] = AvailableValue(s[i])
  <2>1. s \in Seq(Position) /\ \A i \in 1..n : s[i] \in rows /\ IsEligible(s[i])
    BY OldestFirstType
  <2>2. n \in Nat
    BY <2>1, LenProperties
  <2>3. \A i \in 1..n : s[i] \in E
    BY <2>1 DEF Eligible
  <2> QED
    BY <2>2, <2>3
<1>5. /\ \A p \in E : \E i \in 1..n : s[i] = p
      /\ \A i, j \in 1..n : i < j => s[i] # s[j]
  BY OldestFirstComplete
<1>6. \A i \in 1..n : AvailableValue(s[i]) \in Nat
  BY <1>1, <1>4, EligiblePrice
<1> HIDE DEF E, f, n
<1> DEFINE from(j) == {s[i] : i \in j..n}
           rest == [j \in 1..n + 1 |-> g[from(j)]]
<1>7. from(n + 1) = {} /\ from(1) = E
  BY <1>4, <1>5
<1>8. ASSUME NEW j \in 1..n
      PROVE  /\ from(j) \in SUBSET E /\ s[j] \in from(j)
             /\ from(j) \ {s[j]} = from(j + 1)
  <2>1. \A i \in j..n : i \in 1..n /\ (i # j => i \in j + 1..n /\ j < i)
    BY <1>4
  <2>2. \A i \in j + 1..n : i \in j..n /\ j < i /\ i \in 1..n
    BY <1>4
  <2>3. j \in j..n
    BY <1>4
  <2>4. \A i \in j + 1..n : s[i] # s[j]
    BY <1>5, <2>2
  <2> QED
    BY <1>4, <2>1, <2>2, <2>3, <2>4
<1> HIDE DEF from
<1>9. ASSUME NEW j \in 1..n
      PROVE  g[from(j)] = AvailableValue(s[j]) + g[from(j + 1)]
  <2>1. g[from(j)] = f[s[j]] + g[from(j) \ {s[j]}]
    BY <1>3, <1>8 DEF Splits
  <2> QED
    BY <1>4, <1>8, <2>1
<1>10. g[from(n + 1)] = 0 /\ \A j \in 1..n : g[from(j)] \in Int
  BY <1>3, <1>7, <1>8 DEF Splits
<1>11. \A j \in 1..n + 1 : g[from(j)] \in Nat
  <2> DEFINE bad == {k \in Nat : k <= n /\ g[from(n + 1 - k)] \notin Nat}
  <2>1. bad = {}
    <3>1. SUFFICES ASSUME bad # {} PROVE FALSE
      OBVIOUS
    <3>2. PICK k \in bad : \A i \in bad : k <= i
      BY <3>1, LeastNatural
    <3>3. k \in Nat /\ k <= n /\ g[from(n + 1 - k)] \notin Nat
      BY <3>2
    <3>4. k # 0
      BY <1>4, <1>10, <3>3
    <3> DEFINE j == n + 1 - k
    <3>5. /\ j \in 1..n /\ k - 1 \in Nat /\ k - 1 <= n
          /\ n + 1 - (k - 1) = j + 1
      BY <1>4, <3>3, <3>4
    <3>6. k - 1 \notin bad
      <4>1. k - 1 < k
        BY <3>3
      <4> HIDE DEF bad
      <4>2. k - 1 \in bad => k <= k - 1
        BY <3>2
      <4> QED
        BY <3>3, <4>1, <4>2
    <3>7. g[from(j + 1)] \in Nat
      BY <3>5, <3>6
    <3> HIDE DEF j
    <3>8. g[from(j)] \in Nat
      BY <1>6, <1>9, <3>5, <3>7
    <3> QED
      BY <3>3, <3>8 DEF j
  <2>2. ASSUME NEW j \in 1..n + 1
        PROVE  g[from(j)] \in Nat
    <3> DEFINE k == n + 1 - j
    <3>1. k \in Nat /\ k <= n /\ n + 1 - k = j
      BY <1>4
    <3>2. k \notin bad
      BY <2>1
    <3> QED
      BY <3>1, <3>2
  <2> QED
    BY <2>2
<1>12. rest \in [1..n + 1 -> Nat]
  BY <1>11
<1>13. IsRest(m, rest)
  <2>1. rest[n + 1] = 0
    BY <1>4, <1>10
  <2>2. ASSUME NEW j \in 1..n
        PROVE  rest[j] = AvailableValue(s[j]) + rest[j + 1]
    <3>1. j \in 1..n + 1 /\ j + 1 \in 1..n + 1
      BY <1>4
    <3> QED
      BY <1>9, <3>1
  <2> QED
    BY <2>1, <2>2 DEF IsRest, n
<1>14. rest[1] = TotalAvailable(E) /\ rest[1] \in Nat
  BY <1>3, <1>4, <1>7, <1>12
<1> DEFINE errors == [i \in 1..1 |-> 0]
<1>15. Len(m.held) = 0 /\ errors \in [1..Len(m.held) + 1 -> Nat] /\ errors[1] = 0
  OBVIOUS
<1>16. IsErrors(m, errors)
  BY <1>15 DEF IsErrors
<1> HIDE DEF rest, errors
<1>17. Near(m.remaining, 0, rest[1])
  <2>1. GuardUnits \in Nat /\ desired <= rest[1]
    BY <1>14, ScaleAssumption DEF E
  <2>2. desired * GuardUnits <= rest[1] * GuardUnits
    BY <1>14, <2>1, TimesPrice
  <2>3. GuardUnits * (0 - desired) <= 0
    <3>1. (0 - desired) * GuardUnits <= 0 * GuardUnits
      BY <2>1, TimesPrice
    <3> QED
      BY <2>1, <3>1
  <2>4. GuardUnits * desired = desired * GuardUnits
        /\ GuardUnits * rest[1] = rest[1] * GuardUnits
    BY <1>14, <2>1
  <2> DEFINE gd == GuardUnits * desired
             gm == GuardUnits * (0 - desired)
             gr == GuardUnits * rest[1]
  <2>5. gd \in Int /\ gm \in Int /\ gr \in Int /\ gd <= gr /\ gm <= 0
    BY <1>14, <2>1, <2>2, <2>3, <2>4
  <2> HIDE DEF gd, gm, gr
  <2>6. 2 * gm <= 0 /\ 2 * gd <= 0 + 2 * gr
    BY <2>5
  <2> QED
    BY <2>6 DEF Near, gd, gm, gr
<1> QED
  BY <1>12, <1>13, <1>15, <1>16, <1>17 DEF Funds, n

(* A round of the loop keeps the account. *)
LEMMA RoundKeepsFunds ==
    ASSUME NEW m \in Memory, NEW n \in Memory, IsRound(m, n), Funds(m),
           m.eligible # <<>>, m.remaining > 0, IsEligible(m.eligible[1])
    PROVE  Funds(n)
<1> DEFINE lot == Head(m.eligible)
           units == UnitsSold(lot, m.remaining)
           p == UpdateAmount(lot, lot.amount - units)
           h == Len(m.held)
           e == Len(m.eligible)
           error == RoundingError(lot.unitPrice)
<1>1. /\ m.held \in Seq(Position) /\ m.eligible \in Seq(Position)
      /\ m.remaining \in Int
      /\ n.held \in Seq(Position) /\ n.eligible \in Seq(Position)
      /\ n.remaining \in Int
  BY MemoryType
<1>2. e \in Nat \ {0} /\ h \in Nat
  BY <1>1, EmptySeq, LenProperties
<1>3. /\ Len(n.eligible) = e - 1
      /\ \A i \in 1..e - 1 : n.eligible[i] = m.eligible[i + 1]
  <2>1. /\ Len(Tail(m.eligible)) = Len(m.eligible) - 1
        /\ \A i \in 1..Len(Tail(m.eligible)) : Tail(m.eligible)[i] = m.eligible[i + 1]
    BY <1>1, HeadTailProperties
  <2> QED
    BY <2>1 DEF IsRound
<1>4. lot = m.eligible[1] /\ lot \in Position /\ IsEligible(lot)
  BY <1>1, <1>2, HeadTailProperties
<1>5. p \in Position /\ p.unitPrice = lot.unitPrice
  BY <1>1, <1>4 DEF IsRound, UpdateAmount, Position
<1> HIDE DEF lot, units, p
<1>6. n.held = Append(m.held, p) /\ n.remaining = m.remaining - units * lot.unitPrice
  BY DEF IsRound, lot, units, p
<1>7. /\ Len(n.held) = h + 1 /\ n.held[h + 1] = p
      /\ \A i \in 1..h : n.held[i] = m.held[i]
  BY <1>1, <1>5, <1>6, AppendProperties
<1>8. PICK errors \in [1..h + 1 -> Nat], rest \in [1..e + 1 -> Nat] :
        /\ IsErrors(m, errors) /\ IsRest(m, rest)
        /\ Near(m.remaining, errors[h + 1], rest[1])
  BY DEF Funds
<1>9. errors[h + 1] \in Nat /\ rest[1] = AvailableValue(lot) + rest[2] /\ rest[2] \in Nat
  <2>1. 1 \in 1..e /\ 2 \in 1..e + 1 /\ h + 1 \in 1..h + 1
    BY <1>2
  <2>2. rest[1] = AvailableValue(m.eligible[1]) + rest[1 + 1]
    BY <1>8, <2>1 DEF IsRest
  <2> QED
    BY <1>4, <1>8, <2>1, <2>2
<1> DEFINE E == errors[h + 1]
           later == rest[2]
<1>10. error \in Nat /\ Near(n.remaining, E + error, later)
  <2>1. /\ E \in Nat /\ later \in Nat
        /\ Near(m.remaining, E, AvailableValue(lot) + later)
    BY <1>8, <1>9
  <2> HIDE DEF E, later, h, e
  <2>2. /\ error \in Nat
        /\ Near(m.remaining - UnitsSold(lot, m.remaining) * lot.unitPrice, E + error, later)
    BY <1>1, <1>4, <2>1, RoundStaysNear
  <2> QED
    BY <1>6, <2>2 DEF units
<1> HIDE DEF h, e, error
<1> DEFINE more == [i \in 1..(h + 1) + 1 |->
                      IF i <= h + 1 THEN errors[i] ELSE errors[h + 1] + error]
           less == [j \in 1..e |-> rest[j + 1]]
<1>11. more \in [1..(h + 1) + 1 -> Nat]
  <2>1. ASSUME NEW i \in 1..(h + 1) + 1, i <= h + 1
        PROVE  errors[i] \in Nat
    <3>1. i \in 1..h + 1
      BY <1>2, <2>1 DEF h
    <3> QED
      BY <1>8, <3>1 DEF h
  <2>2. errors[h + 1] + error \in Nat
    BY <1>9, <1>10
  <2> QED
    BY <2>1, <2>2
<1>12. /\ \A i \in 1..h + 1 : more[i] = errors[i]
       /\ more[(h + 1) + 1] = errors[h + 1] + error
  BY <1>2 DEF h
<1> HIDE DEF more
<1>13. IsErrors(n, more)
  <2>1. more[1] = 0
    BY <1>2, <1>8, <1>12 DEF IsErrors, h
  <2>2. ASSUME NEW i \in 1..h + 1
        PROVE  more[i + 1] = more[i] + RoundingError(n.held[i].unitPrice)
    <3>1. CASE i \in 1..h
      <4>1. errors[i + 1] = errors[i] + RoundingError(m.held[i].unitPrice)
        BY <1>8, <3>1 DEF IsErrors, h
      <4>2. i \in 1..h + 1 /\ i + 1 \in 1..h + 1 /\ n.held[i] = m.held[i]
        BY <1>2, <1>7, <3>1 DEF h
      <4> QED
        BY <1>12, <4>1, <4>2
    <3>2. CASE i = h + 1
      <4>1. n.held[i].unitPrice = lot.unitPrice
        BY <1>5, <1>7, <3>2 DEF h
      <4>2. h + 1 \in 1..h + 1
        BY <1>2 DEF h
      <4> QED
        BY <1>12, <3>2, <4>1, <4>2 DEF error
    <3>3. i \in 1..h \/ i = h + 1
      BY <1>2 DEF h
    <3> QED
      BY <3>1, <3>2, <3>3
  <2> QED
    BY <1>7, <2>1, <2>2 DEF IsErrors, h
<1>14. less \in [1..e -> Nat] /\ \A j \in 1..e : less[j] = rest[j + 1]
  <2>1. \A j \in 1..e : j + 1 \in 1..e + 1
    BY <1>2 DEF e
  <2> QED
    BY <1>8, <2>1 DEF e
<1> HIDE DEF less
<1>15. IsRest(n, less)
  <2>1. less[e] = 0
    <3>1. rest[e + 1] = 0
      BY <1>8 DEF IsRest, e
    <3>2. e \in 1..e
      BY <1>2 DEF e
    <3> QED
      BY <1>14, <3>1, <3>2
  <2>2. ASSUME NEW j \in 1..e - 1
        PROVE  less[j] = AvailableValue(n.eligible[j]) + less[j + 1]
    <3>1. j \in 1..e /\ j + 1 \in 1..e
      BY <1>2 DEF e
    <3>2. rest[j + 1] = AvailableValue(m.eligible[j + 1]) + rest[(j + 1) + 1]
      BY <1>8, <3>1 DEF IsRest, e
    <3> QED
      BY <1>3, <1>14, <3>1, <3>2 DEF e
  <2>3. (e - 1) + 1 = e /\ Len(n.eligible) = e - 1
    BY <1>2, <1>3 DEF e
  <2> QED
    BY <2>1, <2>2, <2>3 DEF IsRest
<1>16. Near(n.remaining, more[(h + 1) + 1], less[1])
  <2>1. 1 \in 1..e
    BY <1>2 DEF e
  <2>2. less[1] = rest[2]
    BY <1>14, <2>1
  <2> QED
    BY <1>10, <1>12, <2>2 DEF h, error
<1>17. Len(n.held) = h + 1 /\ Len(n.eligible) + 1 = e
  BY <1>2, <1>3, <1>7 DEF h, e
<1> QED
  BY <1>11, <1>13, <1>14, <1>15, <1>16, <1>17 DEF Funds

-----------------------------------------------------------------------------
(* The invariant holds throughout. *)

(* The account does not depend on how much was written. *)
LEMMA FundsSame ==
    ASSUME NEW m, NEW n, n.held = m.held, n.eligible = m.eligible,
           n.remaining = m.remaining, Funds(m)
    PROVE  Funds(n)
BY DEF Funds, IsErrors, IsRest

(* One invocation moves on. *)
LEMMA FundsMove ==
    ASSUME TypeInv, FundsInv, req' = req, NEW r \in Request,
           \A s \in Request \ {r} : pc'[s] = pc[s] /\ mem'[s] = mem[s],
           IsWithdraw(r) => FundsAt(pc'[r], mem'[r])
    PROVE  FundsInv'
<1> SUFFICES ASSUME NEW s \in Request, IsWithdraw(s)
             PROVE  FundsAt(pc'[s], mem'[s])
  BY DEF FundsInv, IsWithdraw, FundsAt, Funds, IsErrors, IsRest, Near
<1>1. CASE s = r
  BY <1>1
<1>2. CASE s # r
  <2>1. FundsAt(pc[s], mem[s]) /\ pc'[s] = pc[s] /\ mem'[s] = mem[s]
    BY <1>2 DEF FundsInv
  <2> QED
    BY <2>1
<1> QED
  BY <1>1, <1>2

(* A move to a label that is not in the loop or after it. *)
LEMMA FundsLeave ==
    ASSUME TypeInv, FundsInv, req' = req, NEW r \in Request, NEW label,
           label \notin {"sell", "update", "createCommand", "commit"},
           pc' = [pc EXCEPT ![r] = label],
           mem' = mem \/ mem' = [mem EXCEPT ![r] = NoMemory]
    PROVE  FundsInv'
<1>1. /\ pc'[r] = label
      /\ \A s \in Request \ {r} : pc'[s] = pc[s] /\ mem'[s] = mem[s]
  BY DEF TypeInv, InvocationTypeOK
<1>2. FundsAt(pc'[r], mem'[r])
  BY <1>1 DEF FundsAt
<1> QED
  BY <1>1, <1>2, FundsMove

(* Answers and errors end the loop. *)
LEMMA FundsEnd ==
    ASSUME TypeInv, FundsInv, req' = req, NEW r \in Request, NEW error,
           \/ Abort(r, error)
           \/ \E status, body : Answer(r, status, error, body)
    PROVE  FundsInv'
BY FundsLeave DEF Abort, Answer

(* A step of a deposit. *)
LEMMA FundsDeposit ==
    ASSUME TypeInv, FundsInv, NEW r \in Request, IsDeposit(r), req' = req,
           NEW label, NEW m,
           pc' = [pc EXCEPT ![r] = label], mem' = [mem EXCEPT ![r] = m]
    PROVE  FundsInv'
<1>1. \A s \in Request \ {r} : pc'[s] = pc[s] /\ mem'[s] = mem[s]
  BY DEF TypeInv, InvocationTypeOK
<1>2. ~ IsWithdraw(r)
  BY DEF IsDeposit, IsWithdraw
<1> QED
  BY <1>1, <1>2, FundsMove

(* The read of the lots. *)
LEMMA FundsFindLots ==
    ASSUME TypeInv, LotInv, FundsInv, NEW r \in Request, FindByClientAndInstrument(r)
    PROVE  FundsInv'
<1> DEFINE rows == LotsOf(req[r])
<1>1. pc[r] = "findLots" /\ req' = req
  BY DEF FindByClientAndInstrument
<1>2. IsWithdraw(r) /\ IsValid(r)
  BY <1>1 DEF TypeInv, ControlOK, ControlAt
<1>3. req[r].desiredValue \in Int /\ req[r].desiredValue > 0
  BY <1>2, ValidRequest
  DEF TypeInv, IsValid, IsDeposit, IsWithdraw, validateWithdrawRequest
<1>4. CASE \E error \in {"notFound", "other", "insufficient"} : Abort(r, error)
  BY <1>1, <1>4, FundsEnd
<1>5. CASE /\ Goto(r, "sell")
           /\ TotalAvailable(Eligible(rows)) >= req[r].desiredValue
           /\ \E s \in OldestFirst(Eligible(rows)) :
                 mem' = [mem EXCEPT ![r] =
                   [held |-> <<>>, eligible |-> s,
                    remaining |-> req[r].desiredValue,
                    sold |-> <<>>, written |-> 0]]
  <2>1. PICK s \in OldestFirst(Eligible(rows)) :
          mem' = [mem EXCEPT ![r] =
            [held |-> <<>>, eligible |-> s, remaining |-> req[r].desiredValue,
             sold |-> <<>>, written |-> 0]]
    BY <1>5
  <2> DEFINE m == [held |-> <<>>, eligible |-> s,
                   remaining |-> req[r].desiredValue,
                   sold |-> <<>>, written |-> 0]
  <2>2. rows \in SUBSET Position /\ IsFiniteSet(rows)
    BY LotsOfType DEF TypeInv
  <2>3. m.held = <<>> /\ m.eligible = s /\ m.remaining = req[r].desiredValue
    OBVIOUS
  <2>4. pc'[r] = "sell" /\ mem'[r] = m
        /\ \A t \in Request \ {r} : pc'[t] = pc[t] /\ mem'[t] = mem[t]
    BY <1>5, <2>1 DEF Goto, TypeInv, InvocationTypeOK
  <2> HIDE DEF m, rows
  <2>5. Funds(m)
    BY <1>3, <1>5, <2>2, <2>3, ReadHasFunds
  <2>6. FundsAt(pc'[r], mem'[r])
    BY <2>4, <2>5 DEF FundsAt
  <2> QED
    BY <1>1, <2>4, <2>6, FundsMove
<1> QED
  BY <1>4, <1>5 DEF FindByClientAndInstrument

(* A round of the loop. *)
LEMMA FundsSell ==
    ASSUME TypeInv, LotInv, FundsInv, NEW r \in Request, SellFromLot(r)
    PROVE  FundsInv'
<1> DEFINE m == mem[r]
           lot == Head(m.eligible)
           units == UnitsSold(lot, m.remaining)
           remaining == m.remaining - units * lot.unitPrice
           n == [held |-> Append(m.held, UpdateAmount(lot, lot.amount - units)),
                 eligible |-> Tail(m.eligible), remaining |-> remaining,
                 sold |-> Append(m.sold, units), written |-> 0]
           next == IF LoopEnds(Tail(m.eligible), remaining)
                   THEN "update" ELSE "sell"
<1>1. pc[r] = "sell" /\ req' = req
  BY DEF SellFromLot
<1>2. LotsAt(r, "sell", m, pendingRows[r], DOMAIN pendingCommands[r])
  BY <1>1 DEF LotInv, InvocationLots
<1>3. IsWithdraw(r) /\ m \in Memory
  BY <1>1 DEF TypeInv, ControlOK, ControlAt, InvocationTypeOK
<1>4. Selling(r, m) /\ Funds(m)
  BY <1>1, <1>2, <1>3 DEF LotsAt, FundsInv, FundsAt
<1>5. CASE Abort(r, "other")
  BY <1>1, <1>5, FundsEnd
<1>6. CASE mem' = [mem EXCEPT ![r] = n] /\ Goto(r, next)
  <2>1. TypeInv'
    BY SellOK
  <2>2. mem'[r] = n /\ mem'[r] \in Memory /\ pc'[r] = next
        /\ \A t \in Request \ {r} : pc'[t] = pc[t] /\ mem'[t] = mem[t]
    BY <1>6, <2>1 DEF TypeInv, InvocationTypeOK, Goto
  <2>3. IsRound(m, n) /\ n.eligible = Tail(m.eligible) /\ n.remaining = remaining
    BY DEF IsRound
  <2>4. m.eligible # <<>> /\ m.remaining > 0
    BY <1>3, MemoryType DEF SellFromLot, LoopEnds
  <2>5. IsEligible(m.eligible[1])
    <3>1. Len(m.eligible) \in Nat \ {0}
      BY <1>3, <2>4, MemoryType, EmptySeq, LenProperties
    <3>2. ReadBy(r, m.eligible[1])
      BY <1>4, <3>1 DEF Selling
    <3> QED
      BY <3>2 DEF ReadBy
  <2> HIDE DEF n, m, remaining
  <2>6. Funds(n)
    BY <1>3, <1>4, <2>2, <2>3, <2>4, <2>5, RoundKeepsFunds
  <2>7. FundsAt(pc'[r], mem'[r])
    BY <2>2, <2>6 DEF FundsAt
  <2> QED
    BY <1>1, <2>2, <2>7, FundsMove
<1> QED
  BY <1>5, <1>6 DEF SellFromLot

(* An UPDATE. *)
LEMMA FundsUpdate ==
    ASSUME TypeInv, FundsInv, NEW r \in Request, UpdatePosition(r)
    PROVE  FundsInv'
<1> DEFINE m == mem[r]
           n == [m EXCEPT !.written = m.written + 1]
           next == IF m.written + 1 = Len(m.held) THEN "createCommand" ELSE "update"
<1>1. pc[r] = "update" /\ req' = req
  BY DEF UpdatePosition
<1>2. IsWithdraw(r) /\ m \in Memory
  BY <1>1 DEF TypeInv, ControlOK, ControlAt, InvocationTypeOK
<1>3. CASE \E error \in ErrorKind : Abort(r, error)
  BY <1>1, <1>3, FundsEnd
<1>4. CASE Goto(r, next) /\ mem' = [mem EXCEPT ![r].written = @ + 1]
  <2>1. pc'[r] = next /\ mem'[r] = n
        /\ \A t \in Request \ {r} : pc'[t] = pc[t] /\ mem'[t] = mem[t]
    BY <1>4 DEF TypeInv, InvocationTypeOK, Goto
  <2>2. n.held = m.held /\ n.eligible = m.eligible /\ n.remaining = m.remaining
    BY <1>2 DEF Memory
  <2>3. Funds(m)
    BY <1>1, <1>2 DEF FundsInv, FundsAt
  <2> HIDE DEF n, m, next
  <2>4. FundsAt(pc'[r], mem'[r])
    BY <2>1, <2>2, <2>3, FundsSame DEF FundsAt
  <2> QED
    BY <1>1, <2>1, <2>4, FundsMove
<1> QED
  BY <1>3, <1>4 DEF UpdatePosition, ErrorKind

(* The insert of the command. *)
LEMMA FundsCreateCommand ==
    ASSUME TypeInv, FundsInv, NEW r \in Request, CreateProcessedCommand(r)
    PROVE  FundsInv'
<1>1. pc[r] = "createCommand" /\ req' = req
  BY DEF CreateProcessedCommand
<1>2. CASE Abort(r, "duplicate")
  BY <1>1, <1>2, FundsEnd
<1>3. CASE Goto(r, "commit") /\ mem' = mem
  <2>1. pc'[r] = "commit" /\ mem'[r] = mem[r]
        /\ \A t \in Request \ {r} : pc'[t] = pc[t] /\ mem'[t] = mem[t]
    BY <1>3 DEF TypeInv, InvocationTypeOK, Goto
  <2>2. IsWithdraw(r) => FundsAt(pc'[r], mem'[r])
    BY <1>1, <2>1 DEF FundsInv, FundsAt
  <2> QED
    BY <1>1, <2>1, <2>2, FundsMove
<1> QED
  BY <1>2, <1>3 DEF CreateProcessedCommand

(* The statements both use cases share, and the ends of an invocation. *)
LEMMA FundsShared ==
    ASSUME TypeInv, FundsInv, NEW r \in Request, NEW valid, NEW status,
           NEW next \in {"begin", "findAsset", "findLots", "createPosition"},
           \/ Receive(r, valid)
           \/ FindByTypeAndOrderID(r)
           \/ FindClientByID(r, next)
           \/ Begin(r, next)
           \/ Commit(r, status)
           \/ Rollback(r, status)
           \/ ReplayAfterRace(r)
    PROVE  FundsInv'
<1>1. req' = req
  BY DEF Receive, FindByTypeAndOrderID, FindClientByID, Begin, Commit, Rollback,
         ReplayAfterRace
<1>2. CASE \E error, s, body : Answer(r, s, error, body)
  BY <1>1, <1>2, FundsEnd
<1>3. CASE /\ mem' = mem
           /\ \E label \in {"findCommand", "findClient", "begin", "findAsset",
                            "findLots", "createPosition", "replay"} : Goto(r, label)
  BY <1>1, <1>3, FundsLeave DEF Goto
<1>4. Receive(r, valid) => FundsInv'
  BY <1>2, <1>3 DEF Receive
<1>5. FindByTypeAndOrderID(r) => FundsInv'
  BY <1>2, <1>3 DEF FindByTypeAndOrderID
<1>6. FindClientByID(r, next) => FundsInv'
  BY <1>2, <1>3 DEF FindClientByID
<1>7. Begin(r, next) => FundsInv'
  BY <1>3 DEF Begin
<1>8. Commit(r, status) => FundsInv'
  BY <1>2 DEF Commit
<1>9. Rollback(r, status) => FundsInv'
  BY <1>2, <1>3 DEF Rollback
<1>10. ReplayAfterRace(r) => FundsInv'
  BY <1>2 DEF ReplayAfterRace
<1> QED
  BY <1>4, <1>5, <1>6, <1>7, <1>8, <1>9, <1>10

(* The statements only a deposit sends. *)
LEMMA FundsDepositOnly ==
    ASSUME TypeInv, FundsInv, NEW r \in Request, IsDeposit(r),
           FindAssetByID(r) \/ CreatePosition(r)
    PROVE  FundsInv'
<1>1. req' = req
  BY DEF FindAssetByID, CreatePosition
<1>2. CASE FindAssetByID(r)
  <2>1. CASE \E status : Answer(r, status, "invalid", <<>>)
    BY <1>1, <2>1, FundsEnd
  <2>2. CASE Answer(r, 500, "other", <<>>)
    BY <1>1, <2>2, FundsEnd, ZenonT(30)
  <2>3. CASE /\ Goto(r, "begin")
             /\ \E now \in Times : mem' = [mem EXCEPT ![r].held =
                  <<NewPosition(r, req[r].client, req[r].asset,
                                req[r].amount, req[r].unitPrice, now)>>]
    BY <1>1, <2>3, FundsDeposit DEF Goto
  <2> QED
    BY <1>2, <2>1, <2>2, <2>3 DEF FindAssetByID
<1>3. CASE CreatePosition(r)
  <2>1. CASE Abort(r, "other")
    BY <1>1, <2>1, FundsEnd
  <2>2. CASE Goto(r, "createCommand") /\ mem' = mem
    <3>1. mem' = [mem EXCEPT ![r] = mem[r]]
      BY <2>2 DEF TypeInv, InvocationTypeOK
    <3> QED
      BY <1>1, <2>2, <3>1, FundsDeposit DEF Goto
  <2> QED
    BY <1>3, <2>1, <2>2 DEF CreatePosition
<1> QED
  BY <1>2, <1>3

(* Failures, and the server. *)
LEMMA FundsFailure ==
    ASSUME TypeInv, FundsInv, NEW r \in Request,
           StatementFails(r) \/ CommitFails(r) \/ Crash(r) \/ Reap(r) \/ DeadlockVictim(r)
    PROVE  FundsInv'
<1>1. req' = req
  BY DEF StatementFails, CommitFails, Crash, Reap, DeadlockVictim, invocation
<1>2. CASE \E status : Answer(r, status, "other", <<>>)
  BY <1>1, <1>2, FundsEnd
<1>3. CASE Abort(r, "other")
  BY <1>1, <1>3, FundsEnd
<1>4. CASE Crash(r)
  BY <1>1, <1>4, FundsLeave DEF Crash
<1>5. CASE Reap(r)
  BY <1>5 DEF Reap, invocation, FundsInv, FundsAt, Funds, IsErrors, IsRest, IsWithdraw
<1>6. CASE StatementFails(r)
  BY <1>2, <1>3, <1>6 DEF StatementFails
<1>7. CASE CommitFails(r)
  BY <1>2, <1>7 DEF CommitFails
<1>8. CASE DeadlockVictim(r)
  BY <1>3, <1>8 DEF DeadlockVictim
<1> QED
  BY <1>4, <1>5, <1>6, <1>7, <1>8

(* One step of either use case. *)
LEMMA FundsStep ==
    ASSUME TypeInv, LotInv, FundsInv, NEW r \in Request, Step(r)
    PROVE  FundsInv'
<1>1. CASE IsDeposit(r) /\ DepositStep(r)
  BY <1>1, FundsShared, FundsDepositOnly, FundsCreateCommand DEF DepositStep
<1>2. CASE IsWithdraw(r) /\ WithdrawStep(r)
  BY <1>2, FundsShared, FundsFindLots, FundsSell, FundsUpdate, FundsCreateCommand
  DEF WithdrawStep
<1> QED
  BY <1>1, <1>2 DEF Step

(* Every step of the wallet preserves the invariant. *)
LEMMA FundsNext == WalletInv /\ FundsInv /\ [Next]_vars => FundsInv'
<1> SUFFICES ASSUME TypeInv, LotInv, FundsInv, [Next]_vars PROVE FundsInv'
  BY DEF WalletInv
<1>1. CASE UNCHANGED vars
  BY <1>1 DEF vars, FundsInv, FundsAt, Funds, IsErrors, IsRest, IsWithdraw
<1>2. ASSUME NEW r \in Request, ReceiveRequest(r)
      PROVE  FundsInv'
  BY <1>2, FundsShared DEF ReceiveRequest, DepositReceive, WithdrawReceive
<1>3. CASE Next
  BY <1>1, <1>2, <1>3, FundsStep, FundsFailure DEF Next, Quiescent
<1> QED
  BY <1>1, <1>3

(* FundsInv holds throughout. *)
LEMMA FundsInvariant == Spec => [](WalletInv /\ FundsInv)
<1>1. Init => FundsInv
  BY DEF Init, InvocationInit, FundsInv, FundsAt
<1>2. WalletInv /\ FundsInv /\ [Next]_vars => FundsInv'
  BY FundsNext
<1> QED
  BY <1>1, <1>2, WalletInvariant, PTL DEF Spec

-----------------------------------------------------------------------------
(* The COMMIT. *)

(* What the lots lose in a step is a sum over the stored lots. *)
LEMMA ProceedsIsSum ==
    ASSUME NEW D, D = DOMAIN positions, IsFiniteSet(D), NEW f \in [D -> Int],
           \A l \in D : f[l] = (positions[l].amount - positions'[l].amount)
                                  * positions[l].unitPrice
    PROVE  \E g : Splits(D, f, g) /\ Proceeds = g[D]
<1> DEFINE value(l) == (positions[l].amount - positions'[l].amount)
                          * positions[l].unitPrice
           Sum(g) == [s \in SUBSET D |->
                        IF s = {} THEN 0
                        ELSE LET x == CHOOSE x \in s : TRUE
                             IN  value(x) + g[s \ {x}]]
           sum == CHOOSE g : g = Sum(g)
<1>1. Proceeds = sum[D]
  BY DEF Proceeds, MapThenSumSet, MapThenFoldSet
<1> HIDE DEF value
<1>2. \A g : IsSum(D, f, g) <=> g = Sum(g)
  <2>1. ASSUME NEW s \in SUBSET D, s # {}
        PROVE  f[Pick(s)] = value(Pick(s))
    <3>1. Pick(s) \in D
      BY <2>1, Smaller
    <3> QED
      BY <3>1 DEF value
  <2>2. ASSUME NEW g
        PROVE  [s \in SUBSET D |->
                  IF s = {} THEN 0 ELSE f[Pick(s)] + g[s \ {Pick(s)}]] = Sum(g)
    BY <2>1 DEF Pick
  <2> HIDE DEF Sum
  <2> QED
    BY <2>2 DEF IsSum
<1> HIDE DEF Sum
<1>3. \E g : g = Sum(g)
  <2>1. \E g : IsSum(D, f, g)
    BY SumExists
  <2> QED
    BY <1>2, <2>1
<1>4. sum = Sum(sum)
  BY <1>3
<1> HIDE DEF sum
<1>5. Splits(D, f, sum)
  BY <1>2, <1>4, SumSplits
<1> QED
  BY <1>1, <1>5

(* So is the rounding that is allowed. *)
LEMMA BoundIsSum ==
    ASSUME NEW D, IsFiniteSet(D), NEW f \in [D -> Int],
           \A l \in D : f[l] = RoundingError(positions[l].unitPrice)
    PROVE  \E g : Splits(D, f, g)
              /\ MapThenSumSet(LAMBDA l : RoundingError(positions[l].unitPrice), D) = g[D]
<1> DEFINE value(l) == RoundingError(positions[l].unitPrice)
           Sum(g) == [s \in SUBSET D |->
                        IF s = {} THEN 0
                        ELSE LET x == CHOOSE x \in s : TRUE
                             IN  value(x) + g[s \ {x}]]
           sum == CHOOSE g : g = Sum(g)
           total == MapThenSumSet(LAMBDA l : RoundingError(positions[l].unitPrice), D)
<1>1. total = sum[D]
  BY DEF MapThenSumSet, MapThenFoldSet
<1> HIDE DEF value, total
<1>2. \A g : IsSum(D, f, g) <=> g = Sum(g)
  <2> SUFFICES ASSUME NEW g
               PROVE  [s \in SUBSET D |->
                         IF s = {} THEN 0 ELSE f[Pick(s)] + g[s \ {Pick(s)}]] = Sum(g)
    BY DEF IsSum
  <2>1. ASSUME NEW s \in SUBSET D, s # {}
        PROVE  f[Pick(s)] = value(Pick(s))
    <3>1. Pick(s) \in D
      BY <2>1, Smaller
    <3> QED
      BY <3>1 DEF value
  <2> QED
    BY <2>1 DEF Pick
<1> HIDE DEF Sum
<1>3. \E g : g = Sum(g)
  <2>1. \E g : IsSum(D, f, g)
    BY SumExists
  <2> QED
    BY <1>2, <2>1
<1>4. sum = Sum(sum)
  BY <1>3
<1> HIDE DEF sum
<1>5. Splits(D, f, sum)
  BY <1>2, <1>4, SumSplits
<1>6. \E g : Splits(D, f, g) /\ total = g[D]
  BY <1>1, <1>5
<1> QED
  BY <1>6 DEF total

(* When the loop is over, what remains is within the errors of nothing. *)
LEMMA LoopLeavesErrors ==
    ASSUME NEW m \in Memory, LoopEnds(m.eligible, m.remaining), NEW E \in Nat,
           NEW rest, IsRest(m, rest), rest[1] \in Nat, Near(m.remaining, E, rest[1])
    PROVE  /\ 2 * GuardUnits * (0 - m.remaining) <= E
           /\ 2 * GuardUnits * m.remaining <= E
<1> DEFINE gr == GuardUnits * m.remaining
           gm == GuardUnits * (0 - m.remaining)
           gt == GuardUnits * rest[1]
<1>1. m.remaining \in Int /\ GuardUnits \in Nat
  BY MemoryType, ScaleAssumption
<1>2. gr \in Int /\ gm \in Int /\ gm = 0 - gr
  BY <1>1
<1>3. 2 * gm <= E /\ 2 * gr <= E + 2 * gt
  BY DEF Near
<1>4. 2 * gr <= E
  <2>1. CASE m.eligible = <<>>
    <3>1. Len(m.eligible) = 0 /\ rest[0 + 1] = 0
      BY <2>1 DEF IsRest
    <3>2. gt = 0
      BY <1>1, <3>1
    <3> HIDE DEF gr, gt
    <3> QED
      BY <1>2, <1>3, <3>2
  <2>2. CASE m.remaining <= 0
    <3>1. m.remaining * GuardUnits <= 0 * GuardUnits
      BY <1>1, <2>2, TimesPrice
    <3>2. gr <= 0
      BY <1>1, <3>1
    <3> HIDE DEF gr
    <3> QED
      BY <1>2, <3>2
  <2> QED
    BY <2>1, <2>2 DEF LoopEnds
<1>5. /\ 2 * GuardUnits * (0 - m.remaining) = 2 * gm
      /\ 2 * GuardUnits * m.remaining = 2 * gr
  BY <1>1
<1> QED
  BY <1>3, <1>4, <1>5

(* The COMMIT of a withdrawal debits the lots it holds: each loses what    *)
(* its round took off the value to sell.                                   *)
LEMMA CommitDebits ==
    ASSUME WalletInv, NEW s \in Request, pc[s] = "commit", IsWithdraw(s), CommitTx(s),
           NEW toSell \in [1..Len(mem[s].held) + 1 -> Int],
           \A i \in 1..Len(mem[s].held) : SoldFromRow(s, mem[s], toSell, i)
    PROVE  LET sigma == LotsSold(mem[s])
           IN  /\ Debited = Range(sigma)
               /\ \A l \in DOMAIN positions \ Range(sigma) : positions'[l] = positions[l]
               /\ \A i \in 1..Len(mem[s].held) :
                     LET lot == positions[sigma[i]]
                     IN  /\ lot.amount \in Int /\ positions'[sigma[i]].amount \in Int
                         /\ lot.unitPrice \in Nat
                         /\ lot.unitPrice = mem[s].held[i].unitPrice
                         /\ lot.client = req[s].client
                         /\ Assets[lot.asset].instrument = req[s].instrument
                         /\ (lot.amount - positions'[sigma[i]].amount) * lot.unitPrice
                              = toSell[i] - toSell[i + 1]
<1> DEFINE m == mem[s]
           h == Len(m.held)
           sigma == LotsSold(m)
<1>1. /\ h \in Nat /\ Len(sigma) = h /\ DOMAIN sigma = 1..h
      /\ \A i \in 1..h : sigma[i] = m.held[i].positionID
      /\ Range(sigma) \subseteq DOMAIN positions
      /\ \A i, j \in 1..h : i # j => sigma[i] # sigma[j]
  BY LotsSoldOnce
<1>2. positions' = [l \in DOMAIN positions |->
                      IF l \in Range(sigma)
                      THEN m.held[CHOOSE i \in 1..h : sigma[i] = l] ELSE positions[l]]
  <2>1. positions' = [l \in DOMAIN positions |->
                        IF l \in Range(sigma)
                        THEN m.held[CHOOSE i \in 1..Len(sigma) : sigma[i] = l]
                        ELSE positions[l]]
    BY CommitStoresHeld
  <2> HIDE DEF m, h, sigma
  <2> QED
    BY <1>1, <2>1
<1>3. \A i \in 1..h : SoldFromRow(s, m, toSell, i)
  OBVIOUS
<1>4. toSell \in [1..h + 1 -> Int]
  OBVIOUS
<1> HIDE DEF m, h, sigma
<1>5. \A l \in DOMAIN positions \ Range(sigma) : positions'[l] = positions[l]
  BY <1>2
<1>6. ASSUME NEW i \in 1..h
      PROVE  sigma[i] \in Range(sigma) /\ positions'[sigma[i]] = m.held[i]
  <2> DEFINE c == CHOOSE j \in 1..h : sigma[j] = sigma[i]
  <2>1. sigma[i] \in Range(sigma)
    BY <1>1 DEF Range
  <2>2. c \in 1..h /\ sigma[c] = sigma[i]
    OBVIOUS
  <2>3. c = i
    BY <1>1, <2>2
  <2>4. positions'[sigma[i]] = m.held[c]
    BY <1>1, <1>2, <2>1
  <2> QED
    BY <2>1, <2>3, <2>4
<1>7. ASSUME NEW i \in 1..h
      PROVE  LET lot == positions[sigma[i]]
             IN  /\ lot.amount \in Int /\ positions'[sigma[i]].amount \in Int
                 /\ lot.unitPrice \in Nat
                 /\ lot.unitPrice = m.held[i].unitPrice
                 /\ positions'[sigma[i]] # lot
                 /\ lot.client = req[s].client
                 /\ Assets[lot.asset].instrument = req[s].instrument
                 /\ (lot.amount - positions'[sigma[i]].amount) * lot.unitPrice
                      = toSell[i] - toSell[i + 1]
  <2> DEFINE lot == positions[sigma[i]]
             p == m.held[i]
             units == UnitsSold(lot, toSell[i])
             price == lot.unitPrice
  <2>1. /\ lot \in Position /\ ReadBy(s, lot) /\ toSell[i] > 0
        /\ p = UpdateAmount(lot, lot.amount - units)
        /\ toSell[i + 1] = toSell[i] - units * price
    BY <1>1, <1>3 DEF SoldFromRow
  <2>2. positions'[sigma[i]] = p
    BY <1>6
  <2>3. toSell[i] \in Int
    BY <1>1, <1>4
  <2> HIDE DEF lot, p
  <2>4. /\ IsEligible(lot) /\ Coerce(lot) = lot
        /\ lot.client = req[s].client
        /\ Assets[lot.asset].instrument = req[s].instrument
    BY <2>1 DEF ReadBy
  <2>5. /\ units \in Nat /\ p \in Position /\ SameLot(p, lot)
        /\ p.amount = lot.amount - units /\ p.rowVersion = lot.rowVersion + 1
    BY <2>1, <2>3, <2>4, SaleOfLot
  <2>6. lot.amount \in Nat /\ price \in Nat /\ lot.rowVersion \in Nat /\ p.unitPrice = price
    BY <2>1, <2>5 DEF Position, PositionRecord, SameLot
  <2>7. p # lot
    BY <2>5, <2>6
  <2> HIDE DEF units, price
  <2>8. lot.amount - p.amount = units
    BY <2>5, <2>6
  <2>9. units * price \in Int
    BY <2>5, <2>6
  <2>10. toSell[i] - toSell[i + 1] = units * price
    BY <2>1, <2>3, <2>9
  <2>11. (lot.amount - p.amount) * price = toSell[i] - toSell[i + 1]
    BY <2>8, <2>10
  <2>12. p.amount \in Int
    BY <2>5, <2>6
  <2> QED
    BY <2>2, <2>4, <2>6, <2>7, <2>11, <2>12 DEF lot, p, price
<1>8. Debited = Range(sigma)
  <2>1. ASSUME NEW l \in Range(sigma)
        PROVE  positions'[l] # positions[l]
    <3>1. PICK i \in 1..h : sigma[i] = l
      BY <1>1, <2>1 DEF Range
    <3> QED
      BY <1>7, <3>1
  <2> QED
    BY <1>1, <1>5, <2>1 DEF Debited
<1> QED
  BY <1>5, <1>7, <1>8 DEF m, h, sigma

(* What the COMMIT of a withdrawal takes from the lots is what it sold. *)
LEMMA CommitProceeds ==
    ASSUME WalletInv, NEW s \in Request, pc[s] = "commit", IsWithdraw(s), CommitTx(s)
    PROVE  Proceeds = req[s].desiredValue - mem[s].remaining
<1> DEFINE m == mem[s]
           h == Len(m.held)
           sigma == LotsSold(m)
           D == DOMAIN positions
           desired == req[s].desiredValue
           f == [l \in D |-> (positions[l].amount - positions'[l].amount)
                                * positions[l].unitPrice]
<1>1. /\ h \in Nat /\ DOMAIN sigma = 1..h /\ sigma = [i \in 1..h |-> sigma[i]]
      /\ Range(sigma) \subseteq D
      /\ \A i, j \in 1..h : i # j => sigma[i] # sigma[j]
  BY LotsSoldOnce DEF LotsSold
<1>2. PICK toSell \in [1..h + 1 -> Int] :
         /\ toSell[1] = desired /\ toSell[h + 1] = m.remaining
         /\ \A i \in 1..h : SoldFromRow(s, m, toSell, i)
  BY LoopIsCurrent
<1>3. /\ \A l \in D \ Range(sigma) : positions'[l] = positions[l]
      /\ \A i \in 1..h :
            /\ positions[sigma[i]].amount \in Int /\ positions'[sigma[i]].amount \in Int
            /\ positions[sigma[i]].unitPrice \in Nat
            /\ (positions[sigma[i]].amount - positions'[sigma[i]].amount)
                  * positions[sigma[i]].unitPrice = toSell[i] - toSell[i + 1]
  BY <1>2, CommitDebits
<1>4. desired \in Int /\ m.remaining \in Int
  BY <1>1, <1>2
<1>5. D \subseteq Lot /\ IsFiniteSet(D)
  BY LotAssumption, FS_Union, FS_Subset
  DEF Lot, WalletInv, TypeInv, DatabaseTypeOK, IsTable
<1>6. \A l \in D : positions[l].amount \in Int /\ positions[l].unitPrice \in Int
  BY DEF WalletInv, TypeInv, DatabaseTypeOK, IsTable, Position, PositionRecord
<1> HIDE DEF m, h, sigma, D, desired
<1>7. \A i \in 1..h : sigma[i] \in Range(sigma) /\ sigma[i] \in D
  BY <1>1 DEF Range
<1>8. \A l \in D \ Range(sigma) : f[l] = 0
  BY <1>3, <1>6
<1>9. \A i \in 1..h : f[sigma[i]] = toSell[i] - toSell[i + 1]
  BY <1>3, <1>7
<1>10. ASSUME NEW l \in D PROVE f[l] \in Int
  <2>1. CASE l \in Range(sigma)
    <3>1. PICK i \in 1..h : l = sigma[i]
      BY <1>1, <2>1 DEF Range
    <3>2. i \in 1..h + 1 /\ i + 1 \in 1..h + 1
      BY <1>1
    <3>3. toSell[i] \in Int /\ toSell[i + 1] \in Int
      BY <1>2, <3>2
    <3> HIDE DEF f
    <3>4. f[l] = toSell[i] - toSell[i + 1]
      BY <1>9, <3>1
    <3> QED
      BY <3>3, <3>4
  <2>2. CASE l \notin Range(sigma)
    <3> HIDE DEF f
    <3> QED
      BY <1>8, <2>2
  <2> QED
    BY <2>1, <2>2
<1>11. f \in [D -> Int]
  BY <1>10
<1>12. PICK g : Splits(D, f, g) /\ Proceeds = g[D]
  <2>1. \A l \in D : f[l] = (positions[l].amount - positions'[l].amount)
                               * positions[l].unitPrice
    OBVIOUS
  <2>2. D = DOMAIN positions
    BY DEF D
  <2> HIDE DEF f
  <2> QED
    BY <1>5, <1>11, <2>1, <2>2, ProceedsIsSum
<1> HIDE DEF f
<1> DEFINE c == [i \in 1..h + 1 |-> desired - toSell[i]]
<1>13. IsRunning(D, f, h, sigma, c)
  <2>1. sigma \in [1..h -> D] /\ c \in [1..h + 1 -> Int]
    BY <1>1, <1>2, <1>4, <1>7
  <2>2. c[1] = 0
    BY <1>1, <1>2, <1>4
  <2>3. ASSUME NEW i \in 1..h
        PROVE  c[i + 1] = c[i] + f[sigma[i]]
    <3>1. i \in 1..h + 1 /\ i + 1 \in 1..h + 1
      BY <1>1
    <3>2. toSell[i] \in Int /\ toSell[i + 1] \in Int
      BY <1>2, <3>1
    <3>3. c[i] = desired - toSell[i] /\ c[i + 1] = desired - toSell[i + 1]
      BY <3>1
    <3> QED
      BY <1>4, <1>9, <3>2, <3>3
  <2> HIDE DEF c
  <2> QED
    BY <1>1, <2>1, <2>2, <2>3 DEF IsRunning
<1>14. c[h + 1] = desired - m.remaining
  BY <1>1, <1>2
<1> HIDE DEF c
<1>15. Range(sigma) = {sigma[i] : i \in 1..h}
  BY <1>1 DEF Range
<1>16. g[Range(sigma)] = c[h + 1]
  BY <1>11, <1>12, <1>13, <1>15, SumAlong
<1>17. g[D] = g[Range(sigma)]
  BY <1>1, <1>5, <1>8, <1>11, <1>12, SumOutside, SMTT(30)
<1> QED
  BY <1>12, <1>14, <1>16, <1>17 DEF desired, m

(* The rounding allowed for it is the errors of its rounds. *)
LEMMA CommitErrors ==
    ASSUME WalletInv, NEW s \in Request, pc[s] = "commit", IsWithdraw(s), CommitTx(s),
           NEW errors \in [1..Len(mem[s].held) + 1 -> Nat], IsErrors(mem[s], errors)
    PROVE  MapThenSumSet(LAMBDA l : RoundingError(positions[l].unitPrice), Debited)
             = errors[Len(mem[s].held) + 1]
<1> DEFINE m == mem[s]
           h == Len(m.held)
           sigma == LotsSold(m)
           D == Debited
           f == [l \in D |-> RoundingError(positions[l].unitPrice)]
           total == MapThenSumSet(LAMBDA l : RoundingError(positions[l].unitPrice), D)
<1>1. /\ h \in Nat /\ DOMAIN sigma = 1..h /\ sigma = [i \in 1..h |-> sigma[i]]
      /\ Range(sigma) \subseteq DOMAIN positions
      /\ \A i, j \in 1..h : i # j => sigma[i] # sigma[j]
  BY LotsSoldOnce DEF LotsSold
<1>2. PICK toSell \in [1..h + 1 -> Int] :
         \A i \in 1..h : SoldFromRow(s, m, toSell, i)
  BY LoopIsCurrent
<1>3. /\ D = Range(sigma)
      /\ \A i \in 1..h : /\ positions[sigma[i]].unitPrice \in Nat
                         /\ positions[sigma[i]].unitPrice = m.held[i].unitPrice
  BY <1>2, CommitDebits
<1>4. IsFiniteSet(D)
  <2>1. DOMAIN positions \subseteq Lot /\ IsFiniteSet(Lot)
    BY LotAssumption, FS_Union DEF Lot, WalletInv, TypeInv, DatabaseTypeOK, IsTable
  <2> HIDE DEF D
  <2> QED
    BY <1>1, <1>3, <2>1, FS_Subset
<1>5. errors \in [1..h + 1 -> Nat] /\ IsErrors(m, errors)
  OBVIOUS
<1> HIDE DEF m, h, sigma
<1>6. D = {sigma[i] : i \in 1..h} /\ \A i \in 1..h : sigma[i] \in D
  <2> HIDE DEF D
  <2> QED
    BY <1>1, <1>3 DEF Range
<1>7. ASSUME NEW l \in D PROVE RoundingError(positions[l].unitPrice) \in Int
  <2>1. PICK i \in 1..h : l = sigma[i]
    BY <1>6
  <2> QED
    BY <1>3, <2>1, ScaleAssumption DEF RoundingError
<1>8. f \in [D -> Int] /\ \A l \in D : f[l] = RoundingError(positions[l].unitPrice)
  BY <1>7
<1>9. PICK g : Splits(D, f, g) /\ total = g[D]
  <2> HIDE DEF D, f
  <2> QED
    BY <1>4, <1>8, BoundIsSum
<1> HIDE DEF D, f, total
<1>10. IsRunning(D, f, h, sigma, errors)
  <2>1. sigma \in [1..h -> D] /\ errors \in [1..h + 1 -> Int]
    BY <1>1, <1>5, <1>6
  <2>2. errors[1] = 0
    BY <1>5 DEF IsErrors
  <2>3. ASSUME NEW i \in 1..h
        PROVE  errors[i + 1] = errors[i] + f[sigma[i]]
    <3>1. errors[i + 1] = errors[i] + RoundingError(m.held[i].unitPrice)
      BY <1>5 DEF IsErrors, h
    <3> QED
      BY <1>3, <1>6, <1>8, <3>1
  <2> QED
    BY <1>1, <2>1, <2>2, <2>3 DEF IsRunning
<1>11. g[D] = errors[h + 1]
  BY <1>6, <1>8, <1>9, <1>10, SumAlong
<1> QED
  BY <1>9, <1>11 DEF total, D, h, m

(***************************************************************************)
(* Proceeds: the step that records a withdrawal debits only lots of its    *)
(* client and instrument, and what they lose in value is what was asked    *)
(* for, neither more nor less than the rounding of the lots debited,       *)
(* although the lots were read without a lock and the loop may run out of  *)
(* them.                                                                   *)
(***************************************************************************)
THEOREM WithdrawalsSellWhatIsAsked == Spec => ProceedsNearDesired
<1> DEFINE Rounding == MapThenSumSet(LAMBDA l : RoundingError(positions[l].unitPrice), Debited)
           Sells(r) ==
             LET off == Proceeds - req[r].desiredValue
             IN  /\ 2 * GuardUnits * off <= Rounding
                 /\ 2 * GuardUnits * (0 - off) <= Rounding
                 /\ \A l \in Debited :
                       /\ positions[l].client = req[r].client
                       /\ Assets[positions[l].asset].instrument = req[r].instrument
<1>1. ASSUME WalletInv, FundsInv, NEW s \in Request, pc[s] = "commit", IsWithdraw(s),
             CommitTx(s)
      PROVE  Sells(s)
  <2> DEFINE m == mem[s]
             h == Len(m.held)
             desired == req[s].desiredValue
  <2>1. Funds(m) /\ LoopEnds(m.eligible, m.remaining) /\ m \in Memory
    <3>1. LotsAt(s, "commit", m, pendingRows[s], DOMAIN pendingCommands[s])
      BY <1>1 DEF WalletInv, LotInv, InvocationLots
    <3> QED
      BY <1>1, <3>1
      DEF FundsInv, FundsAt, WalletInv, TypeInv, InvocationTypeOK, LotsAt
  <2>2. PICK errors \in [1..h + 1 -> Nat], rest \in [1..Len(m.eligible) + 1 -> Nat] :
          /\ IsErrors(m, errors) /\ IsRest(m, rest)
          /\ Near(m.remaining, errors[h + 1], rest[1])
    BY <2>1 DEF Funds
  <2>3. errors[h + 1] \in Nat /\ rest[1] \in Nat
    <3>1. h \in Nat /\ Len(m.eligible) \in Nat
      BY <2>1, MemoryType, LenProperties
    <3> QED
      BY <2>2, <3>1, SMTT(30)
  <2>4. /\ 2 * GuardUnits * (0 - m.remaining) <= errors[h + 1]
        /\ 2 * GuardUnits * m.remaining <= errors[h + 1]
    <3> HIDE DEF m, h
    <3> QED
      BY <2>1, <2>2, <2>3, LoopLeavesErrors
  <2>5. Rounding = errors[h + 1]
    BY <1>1, <2>2, CommitErrors
  <2>6. Proceeds = desired - m.remaining
    BY <1>1, CommitProceeds
  <2>7. PICK toSell \in [1..h + 1 -> Int] :
           /\ toSell[1] = desired
           /\ \A i \in 1..h : SoldFromRow(s, m, toSell, i)
    BY <1>1, LoopIsCurrent
  <2>8. desired \in Int /\ m.remaining \in Int
    <3>1. h \in Nat /\ m.remaining \in Int
      BY <2>1, MemoryType, LenProperties
    <3> QED
      BY <2>7, <3>1
  <2>9. ASSUME NEW l \in Debited
        PROVE  /\ positions[l].client = req[s].client
               /\ Assets[positions[l].asset].instrument = req[s].instrument
    <3> DEFINE sigma == LotsSold(m)
    <3>1. /\ Debited = Range(sigma) /\ DOMAIN sigma = 1..h
          /\ \A i \in 1..h :
                /\ positions[sigma[i]].client = req[s].client
                /\ Assets[positions[sigma[i]].asset].instrument = req[s].instrument
      BY <1>1, <2>7, CommitDebits, LotsSoldOnce
    <3> HIDE DEF sigma, h, m
    <3>2. PICK i \in 1..h : l = sigma[i]
      BY <2>9, <3>1 DEF Range
    <3> QED
      BY <3>1, <3>2
  <2> HIDE DEF m, h, desired, Rounding
  <2>10. /\ Proceeds - desired = 0 - m.remaining
         /\ 0 - (Proceeds - desired) = m.remaining
    BY <2>6, <2>8
  <2> QED
    BY <2>4, <2>5, <2>9, <2>10 DEF desired
<1>2. WalletInv /\ FundsInv /\ [Next]_vars =>
        \A k \in NewKeys : k[1] = "WITHDRAW" => Sells(commands'[k].commandID)
  <2> SUFFICES ASSUME WalletInv, FundsInv, [Next]_vars,
                      NEW k \in NewKeys, k[1] = "WITHDRAW"
               PROVE  Sells(commands'[k].commandID)
    OBVIOUS
  <2> HIDE DEF Sells
  <2>1. PICK s \in Request : pc[s] = "commit" /\ CommitTx(s)
    BY OnlyCommits DEF NewKeys
  <2>2. k = KeyOf(s) /\ commands'[k].commandID = s
    <3>1. /\ DOMAIN commands' = DOMAIN commands \cup {KeyOf(s)}
          /\ commands'[KeyOf(s)].commandID = s
      BY <2>1, CommitRecords DEF WalletInv
    <3> QED
      BY <3>1 DEF NewKeys
  <2>3. IsWithdraw(s)
    BY <2>2 DEF KeyOf, IsWithdraw
  <2>4. Sells(s)
    BY <1>1, <2>1, <2>3
  <2> QED
    BY <2>2, <2>4
<1> QED
  BY <1>2, FundsInvariant, PTL DEF Spec, ProceedsNearDesired
=============================================================================
