-------------------------- MODULE WithdrawService --------------------------
(***************************************************************************)
(* The withdrawal use case: the client's lots of an instrument are read    *)
(* oldest first, enough of them are debited in memory to cover the desired *)
(* value, and the debited lots are written back, each under its row        *)
(* version, with the processed command in one transaction.                 *)
(***************************************************************************)
EXTENDS Invocation, LotSelection

IsWithdraw(r) == req[r].type = "WITHDRAW"

validateWithdrawRequest(q) ==
    /\ None \notin {q.client, q.instrument, q.order}
    /\ q.desiredValue # None /\ q.desiredValue > 0

(* Mutant of LotsOf: the SELECT is limited to one row. *)
LotsOfLimited(q) ==
    LET rows == {positions[l] : l \in {k \in DOMAIN positions :
            /\ positions[k].client = q.client
            /\ Assets[positions[k].asset].instrument = q.instrument}}
    IN  {row \in rows : \A other \in rows : row.purchasedAt <= other.purchasedAt}

(* The rows of the SELECT, committed ones. *)
LotsOf(q) ==
    {positions[l] : l \in {k \in DOMAIN positions :
        /\ positions[k].client = q.client
        /\ Assets[positions[k].asset].instrument = q.instrument}}

(* Every row is scanned, parsed and reconstructed, or the read fails. *)
collectPositions(rows) == \A row \in rows : ReconstructPosition(row)

FindByClientAndInstrument(r) ==
    LET rows == LotsOf(req[r])
        fits == TotalAvailable(Eligible(rows)) >= req[r].desiredValue IN
    /\ pc[r] = "findLots"
    /\ \/ /\ rows = {}
          /\ Abort(r, "notFound")
       \/ /\ rows # {}
          /\ IF ~ collectPositions(rows)
             THEN Abort(r, "other")
             ELSE \/ ~ fits /\ Abort(r, "insufficient")
                  \/ /\ fits
                     /\ \E s \in OldestFirst(Eligible(rows)) :
                          mem' = [mem EXCEPT ![r] =
                            [held |-> <<>>, eligible |-> s,
                             remaining |-> req[r].desiredValue,
                             sold |-> <<>>, written |-> 0]]
                     /\ Goto(r, "sell")
    /\ UNCHANGED <<db, req, faults>>

(* The loop over the eligible lots ends when none is left or nothing       *)
(* remains to be sold.                                                     *)
LoopEnds(eligible, remaining) == eligible = <<>> \/ remaining <= 0

(* One round of the loop. *)
SellFromLot(r) ==
    LET m == mem[r]
        lot == Head(m.eligible)
        units == UnitsSold(lot, m.remaining)
        newAmount == lot.amount - units
        remaining == m.remaining - units * lot.unitPrice
    IN
    /\ pc[r] = "sell"
    /\ ~ LoopEnds(m.eligible, m.remaining)
    /\ IF newAmount < 0
       THEN Abort(r, "other")
       ELSE /\ mem' = [mem EXCEPT ![r] =
                 [held |-> Append(m.held, UpdateAmount(lot, newAmount)),
                  eligible |-> Tail(m.eligible),
                  remaining |-> remaining,
                  sold |-> Append(m.sold, units),
                  written |-> 0]]
            /\ Goto(r, IF LoopEnds(Tail(m.eligible), remaining)
                       THEN "update" ELSE "sell")
    /\ UNCHANGED <<db, req, faults>>

(* The next debited lot to write, and what the UPDATE finds: a row at      *)
(* another version is no row at all; numbers the columns refuse are an     *)
(* error before any lock is asked for.                                     *)
NextUpdate(r) == mem[r].held[mem[r].written + 1]

(* Mutant of VersionMatches: the UPDATE does not ask for the version. *)
VersionIgnored(p) == p.positionID \in DOMAIN positions

(* Mutant of VersionMatches: asks for the version it is about to write. *)
VersionIsNew(p) == positions[p.positionID].rowVersion = p.rowVersion

VersionMatches(p) ==
    positions[p.positionID].rowVersion = p.rowVersion - 1

UpdatePosition(r) ==
    LET p == NextUpdate(r) IN
    /\ pc[r] = "update"
    /\ \/ /\ ~ VersionMatches(p)
          /\ Abort(r, "conflict")
          /\ UNCHANGED db
       \/ /\ VersionMatches(p)
          /\ ~ Storable(p)
          /\ FailTx(r)
          /\ Abort(r, "other")
       \/ /\ VersionMatches(p)
          /\ Storable(p)
          /\ RowHolders(r, p.positionID) = {}
          /\ WriteRow(r, p)
          /\ mem' = [mem EXCEPT ![r].written = @ + 1]
          /\ Goto(r, IF mem[r].written + 1 = Len(mem[r].held)
                     THEN "createCommand" ELSE "update")
    /\ UNCHANGED <<req, faults>>

WithdrawStatus(error) ==
    CASE error = "conflict" -> 409
      [] error = "notFound" -> 404
      [] error = "insufficient" -> 409
      [] OTHER -> 500

WithdrawReceive(r) == Receive(r, validateWithdrawRequest(req[r]))

(* Everything a withdrawal does once it has been received. *)
WithdrawStep(r) ==
    \/ FindByTypeAndOrderID(r)
    \/ FindClientByID(r, "begin")
    \/ Begin(r, "findLots")
    \/ FindByClientAndInstrument(r)
    \/ SellFromLot(r)
    \/ UpdatePosition(r)
    \/ CreateProcessedCommand(r)
    \/ Commit(r, 200)
    \/ Rollback(r, WithdrawStatus(err[r]))
    \/ ReplayAfterRace(r)
=============================================================================
