------------------------------ MODULE MCWallet ------------------------------
(* Small instances of the wallet for TLC. *)
EXTENDS WalletProperties

CONSTANTS r1, r2, r3

Symmetry == Permutations(Request)

MCAssets == [a \in {"cdb", "lci"} |->
    IF a = "cdb" THEN [instrument |-> "I1", productType |-> "CDB"]
                 ELSE [instrument |-> "I2", productType |-> "LCI"]]

Seed(id, amount, unitPrice, collateral, judiciary, time) ==
    [positionID |-> id, client |-> "alice", asset |-> "cdb",
     amount |-> amount, unitPrice |-> unitPrice,
     totalValue |-> amount * unitPrice,
     collateralValue |-> collateral, judiciaryCollateralValue |-> judiciary,
     purchasedAt |-> time, rowVersion |-> 1]

TwoSeeds(p, q) == ("a1" :> p) @@ ("a2" :> q)

DepositOf(client, asset, order, amount, unitPrice) ==
    [type |-> "DEPOSIT", client |-> client, asset |-> asset, order |-> order,
     amount |-> amount, unitPrice |-> unitPrice]

WithdrawOf(client, instrument, order, desiredValue) ==
    [type |-> "WITHDRAW", client |-> client, instrument |-> instrument,
     order |-> order, desiredValue |-> desiredValue]

-----------------------------------------------------------------------------
(* Two lots of one client, partly blocked: withdrawals that need one lot,  *)
(* that need both, that no longer fit once another has been served; and a  *)
(* deposit, whose lot may be the oldest.                                   *)
TwoLots == {TwoSeeds(Seed("a1", 2, 2, 1, 0, 2), Seed("a2", 2, 3, 0, 1, 3))}

RaceInputs ==
    {DepositOf("alice", "cdb", "o1", 1, 3),
     WithdrawOf("alice", "I1", "o1", 3), WithdrawOf("alice", "I1", "o2", 5)}

(* Two lots that nothing blocks, bought at the same time. *)
TiedLots == {TwoSeeds(Seed("a1", 2, 2, 0, 0, 1), Seed("a2", 2, 3, 0, 0, 1))}

(* Deposits and withdrawals, good and bad, of the same orders; a lot       *)
(* deposited may be older or younger than the one there is, or as old, and *)
(* the withdrawal of o2 then locks the two in any order.                   *)
OneLot == {"a1" :> Seed("a1", 2, 2, 1, 0, 2)}

MixedInputs ==
    {DepositOf("alice", "cdb", "o1", 1, 3),
     DepositOf("alice", "cdb", "o1", 2, 2),
     DepositOf("bob", "cdb", "o1", 1, 3),
     DepositOf("alice", "lci", "o2", 9, 9),
     DepositOf("alice", "lost", "o2", 1, 1),
     DepositOf("alice", "cdb", "o2", 0, 1),
     WithdrawOf("alice", "I1", "o1", 3),
     WithdrawOf("alice", "I1", "o2", 6),
     WithdrawOf("alice", "I2", "o2", 1),
     WithdrawOf("alice", "I1", None, 1)}

(* A deposit, bought before the lot there is, and a withdrawal that needs  *)
(* one lot only.                                                           *)
LateDepositInputs ==
    {DepositOf("alice", "cdb", "o1", 1, 3), WithdrawOf("alice", "I1", "o1", 3)}

(* Every small pair of lots at column scale, and every small value. *)
NumericLots ==
    {TwoSeeds(Seed("a1", AmountQuantum * n, p, ValueQuantum * c, 0, 1),
              Seed("a2", AmountQuantum * m, q, 0, ValueQuantum * j, 2)) :
        n \in 1..3, p \in 1..5, c \in 0..3, m \in 1..2, q \in {1, 4, 7}, j \in {0, 2}}

NumericInputs == {WithdrawOf("alice", "I1", "o1", v) : v \in 1..14}

(* A price with one more digit than amount and value columns leave room for. *)
FinePriceLots == {"a1" :> Seed("a1", 2, 5, 0, 0, 1)}

FinePriceInputs == {WithdrawOf("alice", "I1", "o1", v) : v \in {5, 10}}

(* Deposits finer than the amount column, into an empty table. *)
NoLots == {EmptyTable}

FineAmountInputs == {DepositOf("alice", "cdb", "o1", n, 1) : n \in {10, 14}}
=============================================================================
