-------------------------- MODULE WalletProperties --------------------------
(* What makes the wallet correct. *)
EXTENDS Wallet

(* Every variable of the wallet stays in its set. *)
TypeOK == DatabaseTypeOK /\ InvocationTypeOK

(***************************************************************************)
(* Idempotency.  A successful answer, whether the order was executed by    *)
(* this invocation, found processed, or replayed after a lost race, is the *)
(* snapshot recorded for the order; and an order answered as created was   *)
(* recorded by that very invocation, so no two deposits of an order are.   *)
(***************************************************************************)
SuccessMatchesRecord ==
    \A r \in Request : out[r].status \in {200, 201} =>
        /\ KeyOf(r) \in DOMAIN commands
        /\ commands[KeyOf(r)].responseSnapshot = out[r].body
        /\ out[r].status = 201 => commands[KeyOf(r)].commandID = r

(***************************************************************************)
(* A 4xx answer is about an invocation that left nothing behind: no        *)
(* command and no lot of its own are stored, now or later.                 *)
(***************************************************************************)
RejectedHasNoEffect ==
    \A r \in Request : out[r].status \in {404, 409, 422} =>
        /\ r \notin DOMAIN positions
        /\ \A k \in DOMAIN commands : commands[k].commandID # r

(***************************************************************************)
(* The unit of work is all or nothing: a lot created by a request exists   *)
(* exactly when the deposit command of that request is recorded.           *)
(***************************************************************************)
DepositAtomic ==
    \A r \in Request :
        r \in DOMAIN positions <=>
            \E k \in DOMAIN commands :
                k[1] = "DEPOSIT" /\ commands[k].commandID = r

(***************************************************************************)
(* No lost update.  What a withdrawal is about to commit for a lot is the  *)
(* committed row less the units it sold from it, although it read the row  *)
(* without a lock, before others may have changed it.                      *)
(***************************************************************************)
NoLostUpdate ==
    \A r \in Request : IsWithdraw(r) /\ pc[r] \in {"update", "createCommand", "commit"} =>
        \A i \in 1..mem[r].written :
            LET l == mem[r].held[i].positionID
            IN  /\ l \in DOMAIN pendingRows[r] \cap DOMAIN positions
                /\ pendingRows[r][l].amount = positions[l].amount - mem[r].sold[i]
                /\ pendingRows[r][l].rowVersion = positions[l].rowVersion + 1

(***************************************************************************)
(* Selling from a lot is defined (its price is not zero) and never takes   *)
(* more units than the lot has, so UpdateAmount does not fail in the loop. *)
(***************************************************************************)
SaleFitsLot ==
    \A r \in Request : pc[r] = "sell" =>
        LET lot == Head(mem[r].eligible)
        IN  lot.unitPrice > 0 /\ UnitsSold(lot, mem[r].remaining) <= lot.amount

(***************************************************************************)
(* Rounding.  A quotient is rounded twice, to 16 digits and to 6, so the   *)
(* value of the units sold differs from the value asked of a lot by at     *)
(* most this many (2 * GuardUnits)-ths of the finest value unit.           *)
(***************************************************************************)
RoundingError(unitPrice) == (AmountQuantum * GuardUnits + 1) * unitPrice

Blocked(p) == p.collateralValue + p.judiciaryCollateralValue

(* A sale eats into blocked collateral by no more than the rounding of one *)
(* lot, whatever withdrawals race.                                         *)
SaleKeepsCollateral ==
    [][\A l \in DOMAIN positions :
         positions'[l].amount # positions[l].amount =>
           2 * GuardUnits * (Blocked(positions'[l]) - positions'[l].totalValue)
             <= RoundingError(positions[l].unitPrice)]_vars

(* The commands one step records. *)
NewKeys == DOMAIN commands' \ DOMAIN commands

(* What the lots lost in a step, in value. *)
Proceeds ==
    MapThenSumSet(LAMBDA l : (positions[l].amount - positions'[l].amount)
                                 * positions[l].unitPrice,
                  DOMAIN positions)

(* The lots a step writes. *)
Debited == {l \in DOMAIN positions : positions'[l] # positions[l]}

(***************************************************************************)
(* A recorded withdrawal sold what was asked for, up to the rounding of    *)
(* the lots it debited; debits and record become visible in one step, and  *)
(* only lots of its client and instrument are debited.                     *)
(***************************************************************************)
ProceedsNearDesired ==
    [][\A k \in NewKeys : k[1] = "WITHDRAW" =>
         LET r == commands'[k].commandID
             off == Proceeds - req[r].desiredValue
             bound == MapThenSumSet(LAMBDA l : RoundingError(positions[l].unitPrice), Debited)
         IN  /\ 2 * GuardUnits * off <= bound
             /\ 2 * GuardUnits * (0 - off) <= bound
             /\ \A l \in Debited :
                    /\ positions[l].client = req[r].client
                    /\ Assets[positions[l].asset].instrument = req[r].instrument]_vars

(***************************************************************************)
(* The snapshot recorded for an order is the state its transaction stored: *)
(* every lot in it has, in the positions table, the numbers it shows.      *)
(***************************************************************************)
SnapshotIsStoredState ==
    [][\A k \in NewKeys :
         LET s == commands'[k].responseSnapshot
         IN  \A i \in DOMAIN s : ToDTO(positions'[s[i].positionID]) = s[i]]_vars

(* Withdrawals lock lots in the order of their purchase and the command    *)
(* key last, so while no two lots have the same purchase time, no set of   *)
(* invocations waits for each other.                                       *)
LocksAcyclic == ~ \E S \in SUBSET Request : IsWaitCycle(S)

(* Another withdrawal of r's client is recorded that sold from lot l, of   *)
(* the instrument r sells.                                                 *)
Overtaken(r, l) ==
    \E k \in DOMAIN commands :
        /\ k[1] = "WITHDRAW"
        /\ commands[k].commandID # r
        /\ commands[k].client = req[r].client
        /\ \E i \in DOMAIN commands[k].responseSnapshot :
              LET lot == commands[k].responseSnapshot[i]
              IN  /\ lot.positionID = l
                  /\ Assets[lot.asset].instrument = req[r].instrument

(* Every received request is answered, or its invocation is lost. *)
Answered ==
    \A r \in Request : pc[r] # "idle" ~> pc[r] \in {"done", "crashed"}

(* Whatever an invocation locks is free again. *)
LocksReleased == \A r \in Request : r \in open ~> r \notin open

-----------------------------------------------------------------------------
(* What the documentation says and the code does not do. *)

(* "Repeating the same order_id replays the original response": no request *)
(* is answered with a conflict or a 404 once its order has been executed.  *)
DuplicateIsReplayed ==
    [][\A r \in Request :
         pc[r] # "done" /\ pc'[r] = "done" /\ out'[r].status \in {404, 409} =>
           KeyOf(r) \notin DOMAIN commands]_vars

(* "Respecting collateral constraints": a sale never leaves a lot worth    *)
(* less than what is blocked on it.                                        *)
CollateralRespected ==
    [][\A l \in DOMAIN positions :
         positions'[l].amount # positions[l].amount =>
           AvailableValue(positions'[l]) >= 0]_vars

(* "The loop always has sufficient lots to absorb residuals": when it ends *)
(* nothing of the desired value remains to be sold.                        *)
LoopAbsorbsResidual ==
    \A r \in Request : pc[r] = "update" => mem[r].remaining <= 0

(* "Reading positions inside the transaction ensures the FIFO order [is]   *)
(* consistent with the subsequent updates": when a withdrawal is committed *)
(* no lot it could sell from and left is older than one it sold from.      *)
OldestSoldFirst ==
    [][\A k \in NewKeys : k[1] = "WITHDRAW" =>
         LET q == req[commands'[k].commandID]
         IN  \A sold \in Debited, left \in DOMAIN positions \ Debited :
               /\ positions[left].client = q.client
               /\ Assets[positions[left].asset].instrument = q.instrument
               /\ IsEligible(positions[left])
               => positions[sold].purchasedAt <= positions[left].purchasedAt]_vars

(* "Valid input produces 200 OK": without failures, a withdrawal that was  *)
(* received is never answered with an internal error.                      *)
ValidWithdrawalSucceeds ==
    \A r \in Request : IsWithdraw(r) /\ faults = 0 => out[r].status # 500

-----------------------------------------------------------------------------
(* The lots a withdrawal has read and not finished with. *)
LotsSeen(r) ==
    IF IsWithdraw(r) /\ pc[r] \in {"sell", "update", "createCommand", "commit"}
    THEN {p.positionID : p \in Range(mem[r].held) \cup Range(mem[r].eligible)}
    ELSE {}

(***************************************************************************)
(* The wallet implements the ledger: the committed lots are its lots, the  *)
(* recorded snapshots its results; the SELECT of a withdrawal is its look  *)
(* at the lots, and a COMMIT is one deposit or one withdrawal.             *)
(***************************************************************************)
AbstractLedger == INSTANCE Ledger WITH
    lots <- positions,
    results <- [k \in DOMAIN commands |-> commands[k].responseSnapshot],
    orders <- req,
    seen <- [r \in Request |-> LotsSeen(r)]

RefinesLedger == AbstractLedger!Spec
=============================================================================
