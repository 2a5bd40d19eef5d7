--------------------------- MODULE DepositService ---------------------------
(***************************************************************************)
(* The deposit use case: one new lot and its processed command, written in *)
(* one transaction and answered with 201.                                  *)
(***************************************************************************)
EXTENDS Invocation

CONSTANT Times      \* readings of the clock at purchase

ASSUME TimesAssumption == Times \subseteq Nat

IsDeposit(r) == req[r].type = "DEPOSIT"

validateDepositRequest(q) ==
    /\ None \notin {q.client, q.asset, q.order}
    /\ q.amount # None /\ q.amount > 0
    /\ q.unitPrice # None /\ q.unitPrice > 0

(* The asset is read; the position and its snapshot are built in memory. *)
FindAssetByID(r) ==
    LET q == req[r] IN
    /\ pc[r] = "findAsset"
    /\ \/ /\ ~ AssetFound(q.asset)
          /\ Answer(r, 422, "invalid", <<>>)
       \/ /\ AssetFound(q.asset)
          /\ IF Assets[q.asset].productType \notin ValidProductTypes
             THEN Answer(r, 422, "invalid", <<>>)
             ELSE IF ~ validatePositionAmounts(q.amount, q.unitPrice)
             THEN Answer(r, 500, "other", <<>>)
             ELSE /\ \E now \in Times :
                        mem' = [mem EXCEPT ![r].held =
                          <<NewPosition(r, q.client, q.asset,
                                        q.amount, q.unitPrice, now)>>]
                  /\ Goto(r, "begin")
    /\ UNCHANGED <<db, req, faults>>

(* INSERT INTO positions: the row is new, so nothing is waited for. *)
CreatePosition(r) ==
    LET p == mem[r].held[1] IN
    /\ pc[r] = "createPosition"
    /\ \/ /\ ~ Storable(p)
          /\ FailTx(r)
          /\ Abort(r, "other")
       \/ /\ Storable(p)
          /\ WriteRow(r, p)
          /\ Goto(r, "createCommand")
          /\ UNCHANGED mem
    /\ UNCHANGED <<req, faults>>

DepositReceive(r) == Receive(r, validateDepositRequest(req[r]))

(* Everything a deposit does once it has been received. *)
DepositStep(r) ==
    \/ FindByTypeAndOrderID(r)
    \/ FindClientByID(r, "findAsset")
    \/ FindAssetByID(r)
    \/ Begin(r, "createPosition")
    \/ CreatePosition(r)
    \/ CreateProcessedCommand(r)
    \/ Commit(r, 201)
    \/ Rollback(r, 500)
    \/ ReplayAfterRace(r)
=============================================================================
