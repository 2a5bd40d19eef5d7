------------------------------- MODULE Ledger -------------------------------
(***************************************************************************)
(* What the wallet promises its callers, with no statements, transactions  *)
(* or failures: a table of lots and a table of results.  An order is       *)
(* executed at most once, in one step that changes the lots as they are at *)
(* that moment and records the result to be replayed.  Only the choice of  *)
(* the lots a withdrawal sells from is older than that step: a withdrawal  *)
(* first looks at all the lots there are, and lots deposited between its   *)
(* look and its execution do not count.                                    *)
(***************************************************************************)
EXTENDS LotSelection

CONSTANTS Inputs, Times, SeedTables

VARIABLES
    lots, results,
    orders,     \* what each caller asks for
    seen        \* the lots each withdrawal in progress has looked at

ledger == <<lots, results, orders, seen>>

Init ==
    /\ lots \in SeedTables
    /\ results = EmptyTable
    /\ orders \in [Request -> Inputs]
    /\ seen = [r \in Request |-> {}]

Record(q, snapshot) ==
    LET key == <<q.type, q.order>>
    IN  key \notin DOMAIN results /\ results' = Put(results, key, snapshot)

(* A new lot, stored at the columns' scale. *)
Deposit(r, now) ==
    LET q == orders[r]
        p == NewPosition(r, q.client, q.asset, q.amount, q.unitPrice, now) IN
    /\ q.type = "DEPOSIT"
    /\ r \notin DOMAIN lots
    /\ Storable(p)
    /\ lots' = Put(lots, r, Coerce(p))
    /\ Record(q, <<ToDTO(p)>>)
    /\ UNCHANGED <<orders, seen>>

CanSell(q, l) ==
    /\ lots[l].client = q.client
    /\ Assets[lots[l].asset].instrument = q.instrument
    /\ IsEligible(lots[l])

(* A withdrawal looks at every lot it can sell from, deposited ones too. *)
Look(r) ==
    /\ orders[r].type = "WITHDRAW"
    /\ seen[r] = {}
    /\ seen' = [seen EXCEPT ![r] = {l \in DOMAIN lots : CanSell(orders[r], l)}]
    /\ UNCHANGED <<lots, results, orders>>

(* It is refused or lost. *)
GiveUp(r) ==
    /\ seen' = [seen EXCEPT ![r] = {}]
    /\ UNCHANGED <<lots, results, orders>>

(* The value left to sell before each round of the loop over the lots of s. *)
ToSell(q, s) ==
    LET left[i \in 1..Len(s) + 1] ==
            IF i = 1 THEN q.desiredValue
            ELSE left[i - 1] - UnitsSold(lots[s[i - 1]], left[i - 1])
                                   * lots[s[i - 1]].unitPrice
    IN  left

(* The lots of s, less what each round sells. *)
Debited(q, s) ==
    [i \in 1..Len(s) |->
        UpdateAmount(lots[s[i]],
                     lots[s[i]].amount - UnitsSold(lots[s[i]], ToSell(q, s)[i]))]

(* The loop over the lots of s may end there: nothing is left to sell, or  *)
(* no lot that was seen to sell from.                                      *)
MayEnd(r, s) ==
    \/ ToSell(orders[r], s)[Len(s) + 1] <= 0
    \/ seen[r] \subseteq Range(s)

(***************************************************************************)
(* The withdrawal loop run in one step over the lots of s, oldest first.   *)
(* No lot that was seen and not sold from is older than one sold from.     *)
(***************************************************************************)
Withdraw(r, s) ==
    LET q == orders[r] IN
    /\ q.type = "WITHDRAW"
    /\ s # <<>>
    /\ Range(s) \subseteq seen[r]
    /\ \A i \in 1..Len(s) : CanSell(q, s[i]) /\ ToSell(q, s)[i] > 0
    /\ MayEnd(r, s)
    /\ \A i, j \in 1..Len(s) : i < j =>
          lots[s[i]].purchasedAt <= lots[s[j]].purchasedAt
    /\ \A l \in seen[r] \ Range(s) : \A i \in 1..Len(s) :
          lots[s[i]].purchasedAt <= lots[l].purchasedAt
    /\ lots' = [l \in DOMAIN lots |->
                  IF l \in Range(s)
                  THEN Debited(q, s)[CHOOSE i \in 1..Len(s) : s[i] = l] ELSE lots[l]]
    /\ Record(q, ToResponse(Debited(q, s)))
    /\ seen' = [seen EXCEPT ![r] = {}]
    /\ UNCHANGED orders

Next ==
    \E r \in Request :
        \/ \E now \in Times : Deposit(r, now)
        \/ Look(r)
        \/ GiveUp(r)
        \/ \E S \in SUBSET seen[r] : \E s \in SetToSeqs(S) : Withdraw(r, s)

Spec == Init /\ [][Next]_ledger
=============================================================================
