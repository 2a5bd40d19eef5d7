----------------------------- MODULE Positions -----------------------------
(***************************************************************************)
(* The domain: clients and assets (loaded beforehand, never changed by     *)
(* this service), the position (one deposit lot), and the processed        *)
(* command.  A lot's identifier is a fresh UUID; here the lot created by a *)
(* request is named by that request, and the lots that existed before are  *)
(* SeedLot.  Creation and update times are not kept: no decision reads     *)
(* them and no property is about them.                                     *)
(***************************************************************************)
EXTENDS Decimals, Sequences, TLC

CONSTANTS
    Request,    \* invocations of the service
    SeedLot,    \* lots stored before the first request
    Client,     \* rows of the clients table
    Assets,     \* the assets table: asset -> [instrument, productType]
    OrderID,
    None        \* a request field that is missing or does not parse

ValidProductTypes == {"CDB", "LF", "LCI", "LCA", "CRI", "CRA", "LFT"}

ASSUME AssetAssumption ==
    \A a \in DOMAIN Assets : Assets[a].productType \in ValidProductTypes

ASSUME NoneAssumption == None \notin Int

Lot == SeedLot \cup Request

(***************************************************************************)
(* A position as memory and the positions table hold it.  Both uphold      *)
(* total_value = amount * unit_price: the constructors and UpdateAmount    *)
(* derive it, and the table has it as a CHECK.                             *)
(***************************************************************************)
PositionRecord ==
    [positionID : Lot, client : Client, asset : DOMAIN Assets,
     amount : Nat, unitPrice : Nat, totalValue : Nat,
     collateralValue : Nat, judiciaryCollateralValue : Nat,
     purchasedAt : Nat, rowVersion : Nat \ {0}]

Position == {p \in PositionRecord : p.totalValue = p.amount * p.unitPrice}

validatePositionAmounts(amount, unitPrice) == amount >= 0 /\ unitPrice >= 0

(* Mutant of NewPosition: the concurrency token is not initialised. *)
NewPositionUnversioned(id, client, asset, amount, unitPrice, purchasedAt) ==
    [positionID |-> id, client |-> client, asset |-> asset,
     amount |-> amount, unitPrice |-> unitPrice,
     totalValue |-> amount * unitPrice,
     collateralValue |-> 0, judiciaryCollateralValue |-> 0,
     purchasedAt |-> purchasedAt, rowVersion |-> 0]

NewPosition(id, client, asset, amount, unitPrice, purchasedAt) ==
    [positionID |-> id, client |-> client, asset |-> asset,
     amount |-> amount, unitPrice |-> unitPrice,
     totalValue |-> amount * unitPrice,
     collateralValue |-> 0, judiciaryCollateralValue |-> 0,
     purchasedAt |-> purchasedAt, rowVersion |-> 1]

(* What ReconstructPosition demands of a row before it is a position. *)
ReconstructPosition(row) ==
    /\ validatePositionAmounts(row.amount, row.unitPrice)
    /\ row.collateralValue >= 0
    /\ row.judiciaryCollateralValue >= 0
    /\ row.totalValue = row.amount * row.unitPrice

(* Mutant of AvailableValue: judiciary collateral is not blocked. *)
AvailableValueUnblocked(p) == p.totalValue - p.collateralValue

AvailableValue(p) ==
    (p.totalValue - p.collateralValue) - p.judiciaryCollateralValue

(* UpdateAmount on a new amount it accepts, that is, a non-negative one. *)
UpdateAmount(p, newAmount) ==
    [p EXCEPT !.amount = newAmount,
              !.totalValue = newAmount * p.unitPrice,
              !.rowVersion = @ + 1]

(***************************************************************************)
(* A row of the positions table: what PostgreSQL makes of the numbers it   *)
(* is given, and the column limits and the CHECK that make it refuse them. *)
(***************************************************************************)
Coerce(p) ==
    [p EXCEPT !.amount = ToScale(@, AmountQuantum),
              !.unitPrice = ToScale(@, PriceQuantum),
              !.totalValue = ToScale(@, ValueQuantum)]

Storable(p) ==
    LET row == Coerce(p)
    IN  /\ row.amount < AmountLimit
        /\ row.unitPrice < PriceLimit
        /\ row.totalValue < ValueLimit
        /\ row.totalValue = row.amount * row.unitPrice

(* A position in a response body or a response snapshot. *)
PositionDTO ==
    [positionID : Lot, client : Client, asset : DOMAIN Assets,
     amount : Nat, unitPrice : Nat, totalValue : Nat,
     collateralValue : Nat, judiciaryCollateralValue : Nat]

ToDTO(p) ==
    [positionID |-> p.positionID, client |-> p.client, asset |-> p.asset,
     amount |-> p.amount, unitPrice |-> p.unitPrice,
     totalValue |-> p.totalValue, collateralValue |-> p.collateralValue,
     judiciaryCollateralValue |-> p.judiciaryCollateralValue]

ToResponse(s) == [i \in DOMAIN s |-> ToDTO(s[i])]

(***************************************************************************)
(* Processed commands.  The key is the pair the unique index is on; the    *)
(* command's own UUID is the request that inserted it.                     *)
(***************************************************************************)
CommandType == {"DEPOSIT", "WITHDRAW"}

Key == CommandType \X OrderID

ProcessedCommand ==
    [commandID : Request, client : Client, responseSnapshot : Seq(PositionDTO)]

(* The constructor's checks cannot fail here: the type is a constant, the  *)
(* order was validated, the snapshot is never empty bytes, and the client  *)
(* was found (NewClient gives no row the nil UUID).                        *)
NewProcessedCommand(id, client, snapshot) ==
    [commandID |-> id, client |-> client, responseSnapshot |-> snapshot]

(* Tables, and buffers of rows to write, are partial functions. *)
IsTable(t, K, V) == DOMAIN t \subseteq K /\ t \in [DOMAIN t -> V]

EmptyTable == [x \in {} |-> x]

(* Table t with row v under key k, and with every row of a buffer. *)
Put(t, k, v) == [x \in DOMAIN t \cup {k} |-> IF x = k THEN v ELSE t[x]]

PutAll(t, buffer) ==
    [x \in DOMAIN t \cup DOMAIN buffer |->
        IF x \in DOMAIN buffer THEN buffer[x] ELSE t[x]]
=============================================================================
