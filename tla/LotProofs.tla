----------------------------- MODULE LotProofs -----------------------------
(***************************************************************************)
(* What withdrawals do to lots, for any number of requests, lots, orders   *)
(* and failures: no update is lost, a sale fits its lot and keeps the      *)
(* collateral.                                                             *)
(*                                                                         *)
(* A withdrawal reads lots without locking them, debits them in memory and *)
(* writes them back later.  None of the properties is inductive: each      *)
(* depends on what the invocation read.  LotInv ties the memory of an      *)
(* invocation, at every label, to the committed rows and to the rows it    *)
(* has pending.                                                            *)
(***************************************************************************)
EXTENDS IdempotencyProofs, WellFoundedInduction

USE DEF CommandFound, ClientFound, AssetFound

(* All of a lot that a sale leaves alone. *)
SameLot(p, q) ==
    /\ p.positionID = q.positionID
    /\ p.client = q.client
    /\ p.asset = q.asset
    /\ p.unitPrice = q.unitPrice
    /\ p.collateralValue = q.collateralValue
    /\ p.judiciaryCollateralValue = q.judiciaryCollateralValue
    /\ p.purchasedAt = q.purchasedAt

(* A lot as withdrawal r read it: the stored row is still the one read, or *)
(* it is at a later version because another withdrawal sold from it.       *)
ReadBy(r, lot) ==
    /\ lot.positionID \in DOMAIN positions
    /\ lot.client = req[r].client
    /\ Assets[lot.asset].instrument = req[r].instrument
    /\ IsEligible(lot)
    /\ Coerce(lot) = lot
    /\ SameLot(positions[lot.positionID], lot)
    /\ \/ positions[lot.positionID] = lot
       \/ positions[lot.positionID].rowVersion > lot.rowVersion /\ Overtaken(r, lot.positionID)

(* Position p is a lot r read, less the units sold from it when toSell of  *)
(* the desired value was left.                                             *)
SoldBy(r, p, units, toSell) ==
    /\ toSell > 0
    /\ \E lot \in Position :
          /\ ReadBy(r, lot)
          /\ units = UnitsSold(lot, toSell)
          /\ p = UpdateAmount(lot, lot.amount - units)

(* The rounds of the loop so far, with the value left before each one. *)
IsLoop(r, m, toSell) ==
    /\ toSell[1] = req[r].desiredValue
    /\ toSell[Len(m.held) + 1] = m.remaining
    /\ \A i \in 1..Len(m.held) :
          /\ SoldBy(r, m.held[i], m.sold[i], toSell[i])
          /\ toSell[i + 1] = toSell[i] - m.sold[i] * m.held[i].unitPrice

(* The lots a withdrawal read, debited ones first, in the order read. *)
QueueLen(m) == Len(m.held) + Len(m.eligible)

QueueAt(m, i) ==
    IF i <= Len(m.held) THEN m.held[i] ELSE m.eligible[i - Len(m.held)]

InOrder(m) ==
    \A i, j \in 1..QueueLen(m) : i < j =>
        /\ QueueAt(m, i).positionID # QueueAt(m, j).positionID
        /\ QueueAt(m, i).purchasedAt <= QueueAt(m, j).purchasedAt

Selling(r, m) ==
    /\ Len(m.sold) = Len(m.held)
    /\ \E toSell \in [1..Len(m.held) + 1 -> Int] : IsLoop(r, m, toSell)
    /\ \A i \in 1..Len(m.eligible) : ReadBy(r, m.eligible[i])
    /\ InOrder(m)

(* The pending rows are the debited lots sent so far, as they are in       *)
(* memory, each one version ahead of the stored row.                       *)
Written(m, rows) ==
    /\ m.written <= Len(m.held)
    /\ DOMAIN rows = {m.held[i].positionID : i \in 1..m.written}
    /\ \A i \in 1..m.written :
          /\ rows[m.held[i].positionID] = m.held[i]
          /\ positions[m.held[i].positionID].rowVersion = m.held[i].rowVersion - 1

(* The position a deposit makes of its request. *)
IsNewLot(r, p) ==
    \E now \in Times :
        p = NewPosition(r, req[r].client, req[r].asset,
                        req[r].amount, req[r].unitPrice, now)

(* What an invocation has in memory and pending, at each label. *)
LotsAt(r, label, m, rows, keys) ==
    /\ label \in {"idle", "findCommand", "findClient", "findAsset", "begin",
                  "createPosition", "findLots"} => DOMAIN rows = {}
    /\ label \notin {"commit", "rollback", "replay", "done", "crashed"} => keys = {}
    /\ IsDeposit(r) /\ label \in {"begin", "createPosition", "createCommand", "commit"} =>
          Len(m.held) = 1 /\ IsNewLot(r, m.held[1])
    /\ IsDeposit(r) /\ label \in {"createCommand", "commit"} =>
          Storable(m.held[1]) /\ DOMAIN rows = {r} /\ rows[r] = Coerce(m.held[1])
    /\ IsWithdraw(r) /\ label \in {"sell", "update", "createCommand", "commit"} =>
          Selling(r, m) /\ Written(m, rows)
    /\ label = "sell" => m.written = 0 /\ ~ LoopEnds(m.eligible, m.remaining)
    /\ IsWithdraw(r) /\ label \in {"update", "createCommand", "commit"} =>
          LoopEnds(m.eligible, m.remaining)
    /\ IsWithdraw(r) /\ label \in {"createCommand", "commit"} =>
          m.written = Len(m.held) /\ m.written > 0

(* Every stored row is at column scale under its own id. *)
RowsStored == \A l \in DOMAIN positions : IsStored(l, positions[l])

(* A transaction writes the deposit's own lot, or stored lots. *)
PendingRowsOK ==
    \A r \in Request : \A l \in DOMAIN pendingRows[r] :
        /\ IsStored(l, pendingRows[r][l])
        /\ IsDeposit(r) => l = r
        /\ IsWithdraw(r) => l \in DOMAIN positions

(* No two transactions hold the same lot. *)
RowsExclusive ==
    \A r, s \in Request : r # s =>
        DOMAIN pendingRows[r] \cap DOMAIN pendingRows[s] = {}

(* A live invocation has not stored its lot yet. *)
LotIsNew ==
    \A r \in Request : pc[r] \notin {"done", "crashed"} => r \notin DOMAIN positions

(* A transaction records a command of its own client. *)
PendingClient ==
    \A r \in Request : \A k \in DOMAIN pendingCommands[r] :
        pendingCommands[r][k].client = req[r].client

InvocationLots ==
    \A r \in Request :
        LotsAt(r, pc[r], mem[r], pendingRows[r], DOMAIN pendingCommands[r])

LotInv ==
    /\ RowsStored
    /\ PendingRowsOK
    /\ RowsExclusive
    /\ LotIsNew
    /\ PendingClient
    /\ InvocationLots

-----------------------------------------------------------------------------
(* Steps that commit nothing. *)

(* What is known at a label depends on the committed tables only. *)
LEMMA LotsAtSame ==
    ASSUME positions' = positions, commands' = commands, req' = req,
           NEW r, NEW label, NEW m, NEW rows, NEW keys,
           LotsAt(r, label, m, rows, keys)
    PROVE  LotsAt(r, label, m, rows, keys)'
<1>1. \A l : Overtaken(r, l) => Overtaken(r, l)'
  BY DEF Overtaken
<1>2. \A lot : ReadBy(r, lot) => ReadBy(r, lot)'
  BY <1>1 DEF ReadBy
<1>3. \A p, units, toSell : SoldBy(r, p, units, toSell) => SoldBy(r, p, units, toSell)'
  BY <1>2 DEF SoldBy
<1>4. \A toSell : IsLoop(r, m, toSell) => IsLoop(r, m, toSell)'
  BY <1>3 DEF IsLoop
<1>5. Selling(r, m) => Selling(r, m)'
  BY <1>2, <1>4 DEF Selling
<1>6. Written(m, rows) => Written(m, rows)'
  BY DEF Written
<1>7. IsNewLot(r, m.held[1]) => IsNewLot(r, m.held[1])'
  BY DEF IsNewLot
<1>8. (IsDeposit(r)' <=> IsDeposit(r)) /\ (IsWithdraw(r)' <=> IsWithdraw(r))
  BY DEF IsDeposit, IsWithdraw
<1> QED
  BY <1>5, <1>6, <1>7, <1>8 DEF LotsAt

(* Rows and commands that r's transaction may hold. *)
RowsFit(r, rows) ==
    \A l \in DOMAIN rows :
        /\ IsStored(l, rows[l])
        /\ IsDeposit(r) => l = r
        /\ IsWithdraw(r) => l \in DOMAIN positions
        /\ \A s \in Request \ {r} : l \notin DOMAIN pendingRows[s]

CommandsFit(r, cmds) == \A k \in DOMAIN cmds : cmds[k].client = req[r].client

(* One invocation moves on: its label, memory, pending rows and pending    *)
(* commands become new ones that fit together.                             *)
LEMMA LotMove ==
    ASSUME TypeInv, LotInv, NEW r \in Request, NEW label, NEW m, NEW rows, NEW cmds,
           positions' = positions, commands' = commands, req' = req,
           pc' = [pc EXCEPT ![r] = label],
           mem' = [mem EXCEPT ![r] = m],
           pendingRows' = [pendingRows EXCEPT ![r] = rows],
           pendingCommands' = [pendingCommands EXCEPT ![r] = cmds],
           LotsAt(r, label, m, rows, DOMAIN cmds),
           label \notin {"done", "crashed"} => pc[r] \notin {"done", "crashed"},
           RowsFit(r, rows), CommandsFit(r, cmds)
    PROVE  LotInv'
<1>1. /\ pc'[r] = label /\ mem'[r] = m
      /\ pendingRows'[r] = rows /\ pendingCommands'[r] = cmds
  BY DEF TypeInv, InvocationTypeOK, DatabaseTypeOK
<1>2. \A s \in Request \ {r} :
         /\ pc'[s] = pc[s] /\ mem'[s] = mem[s]
         /\ pendingRows'[s] = pendingRows[s]
         /\ pendingCommands'[s] = pendingCommands[s]
  BY DEF TypeInv, InvocationTypeOK, DatabaseTypeOK
<1>3. RowsStored'
  BY DEF LotInv, RowsStored, IsStored
<1>4. PendingRowsOK'
  BY <1>1, <1>2 DEF LotInv, PendingRowsOK, RowsFit, IsStored, IsDeposit, IsWithdraw
<1>5. RowsExclusive'
  BY <1>1, <1>2 DEF LotInv, RowsExclusive, RowsFit
<1>6. LotIsNew'
  BY <1>1, <1>2 DEF LotInv, LotIsNew
<1>7. PendingClient'
  BY <1>1, <1>2 DEF LotInv, PendingClient, CommandsFit
<1>8. ASSUME NEW s \in Request
      PROVE  LotsAt(s, pc[s], mem[s], pendingRows[s], DOMAIN pendingCommands[s])'
  <2>1. CASE s = r
    <3>1. LotsAt(r, label, m, rows, DOMAIN cmds)'
      BY LotsAtSame
    <3> QED
      BY <1>1, <2>1, <3>1 DEF LotsAt
  <2>2. CASE s # r
    <3>1. LotsAt(s, pc[s], mem[s], pendingRows[s], DOMAIN pendingCommands[s])
      BY DEF LotInv, InvocationLots
    <3> QED
      BY <1>2, <2>2, <3>1, LotsAtSame
  <2> QED
    BY <2>1, <2>2
<1> QED
  BY <1>3, <1>4, <1>5, <1>6, <1>7, <1>8 DEF LotInv, InvocationLots

(* What transactions may hold after a step of r that writes nothing. *)
RowsKept == pendingRows' = pendingRows /\ pendingCommands' = pendingCommands

RowsDropped(r) ==
    /\ pendingRows' = [pendingRows EXCEPT ![r] = EmptyTable]
    /\ pendingCommands' = [pendingCommands EXCEPT ![r] = EmptyTable]

TablesKept == positions' = positions /\ commands' = commands /\ req' = req

(* What r's transaction holds, it may hold. *)
LEMMA PendingFit ==
    ASSUME LotInv, NEW r \in Request
    PROVE  RowsFit(r, pendingRows[r]) /\ CommandsFit(r, pendingCommands[r])
BY DEF LotInv, PendingRowsOK, RowsExclusive, PendingClient, RowsFit, CommandsFit

(* A step of r that writes nothing, to a label and a memory that fit what  *)
(* r has pending.                                                          *)
LEMMA LotStay ==
    ASSUME TypeInv, LotInv, NEW r \in Request, NEW label, NEW m,
           TablesKept, RowsKept \/ RowsDropped(r),
           pc' = [pc EXCEPT ![r] = label], mem' = [mem EXCEPT ![r] = m],
           LotsAt(r, label, m, pendingRows'[r], DOMAIN pendingCommands'[r]),
           label \notin {"done", "crashed"} => pc[r] \notin {"done", "crashed"}
    PROVE  LotInv'
<1>1. positions' = positions /\ commands' = commands /\ req' = req
  BY DEF TablesKept
<1>2. CASE RowsKept
  <2>1. /\ pendingRows' = [pendingRows EXCEPT ![r] = pendingRows[r]]
        /\ pendingCommands' = [pendingCommands EXCEPT ![r] = pendingCommands[r]]
        /\ pendingRows'[r] = pendingRows[r] /\ pendingCommands'[r] = pendingCommands[r]
    BY <1>2 DEF RowsKept, TypeInv, DatabaseTypeOK
  <2> QED
    BY <1>1, <2>1, PendingFit, LotMove
<1>3. CASE RowsDropped(r)
  <2>1. /\ pendingRows' = [pendingRows EXCEPT ![r] = EmptyTable]
        /\ pendingCommands' = [pendingCommands EXCEPT ![r] = EmptyTable]
        /\ pendingRows'[r] = EmptyTable /\ pendingCommands'[r] = EmptyTable
    BY <1>3 DEF RowsDropped, TypeInv, DatabaseTypeOK
  <2>2. RowsFit(r, EmptyTable) /\ CommandsFit(r, EmptyTable)
    BY EmptyTableType DEF RowsFit, CommandsFit
  <2> QED
    BY <1>1, <2>1, <2>2, LotMove
<1> QED
  BY <1>2, <1>3

(* The end of an invocation, or of its unit of work: nothing is needed. *)
LEMMA LotEnd ==
    ASSUME TypeInv, LotInv, NEW r \in Request,
           NEW label \in {"rollback", "replay", "done", "crashed"}, NEW m,
           TablesKept, RowsKept \/ RowsDropped(r),
           pc' = [pc EXCEPT ![r] = label], mem' = [mem EXCEPT ![r] = m],
           pc[r] \notin {"done", "crashed"}
    PROVE  LotInv'
<1>1. LotsAt(r, label, m, pendingRows'[r], DOMAIN pendingCommands'[r])
  BY DEF LotsAt
<1> QED
  BY <1>1, LotStay

(* An answer that commits nothing. *)
LEMMA LotAnswer ==
    ASSUME TypeInv, LotInv, NEW r \in Request, NEW status, NEW error, NEW body,
           Answer(r, status, error, body), pc[r] \notin {"done", "crashed"},
           TablesKept, RowsKept \/ RowsDropped(r)
    PROVE  LotInv'
BY LotEnd DEF Answer

(* An error returned to the unit of work. *)
LEMMA LotAbort ==
    ASSUME TypeInv, LotInv, NEW r \in Request, NEW error,
           Abort(r, error), pc[r] \notin {"done", "crashed"},
           TablesKept, RowsKept \/ RowsDropped(r)
    PROVE  LotInv'
<1>1. mem' = [mem EXCEPT ![r] = mem[r]]
  BY DEF Abort, TypeInv, InvocationTypeOK
<1> QED
  BY <1>1, LotEnd DEF Abort

(* What statements do to the tables and to what is pending. *)
LEMMA DatabaseLots ==
    ASSUME NEW r
    PROVE  /\ UNCHANGED db /\ req' = req => TablesKept /\ RowsKept
           /\ FailTx(r) /\ req' = req => TablesKept /\ RowsDropped(r)
           /\ RollbackTx(r) /\ req' = req => TablesKept /\ RowsDropped(r)
           /\ BeginTx(r) /\ req' = req => TablesKept /\ RowsKept
BY DEF db, FailTx, RollbackTx, EndTx, BeginTx, TablesKept, RowsKept, RowsDropped

-----------------------------------------------------------------------------
(* Up to the first write. *)

(* Nothing is pending before the transaction, whatever the label. *)
LEMMA LotEarly ==
    ASSUME TypeInv, LotInv, NEW r \in Request,
           NEW label \in {"findCommand", "findClient", "findAsset"},
           pc[r] \in {"idle", "findCommand", "findClient"},
           UNCHANGED db, req' = req, Goto(r, label), mem' = mem
    PROVE  LotInv'
<1>1. LotsAt(r, pc[r], mem[r], pendingRows[r], DOMAIN pendingCommands[r])
  BY DEF LotInv, InvocationLots
<1>2. LotsAt(r, label, mem[r], pendingRows[r], DOMAIN pendingCommands[r])
  BY <1>1 DEF LotsAt
<1>3. mem' = [mem EXCEPT ![r] = mem[r]]
  BY DEF TypeInv, InvocationTypeOK
<1>4. TablesKept /\ RowsKept
  BY DatabaseLots
<1> QED
  BY <1>2, <1>3, <1>4, LotStay DEF Goto, RowsKept

(* Validation, and the lookups before the transaction. *)
LEMMA LotReads ==
    ASSUME TypeInv, LotInv, NEW r \in Request,
           \/ ReceiveRequest(r) \/ FindByTypeAndOrderID(r)
           \/ FindClientByID(r, "findAsset") \/ ReplayAfterRace(r)
    PROVE  LotInv'
<1>1. /\ UNCHANGED db /\ req' = req
      /\ pc[r] \in {"idle", "findCommand", "findClient", "replay"}
  BY DEF ReceiveRequest, DepositReceive, WithdrawReceive, Receive,
         FindByTypeAndOrderID, FindClientByID, ReplayAfterRace
<1>2. TablesKept /\ RowsKept
  BY <1>1, DatabaseLots
<1>3. CASE \E status \in Nat, error \in ErrorKind : \E body :
              Answer(r, status, error, body)
  BY <1>1, <1>2, <1>3, LotAnswer
<1>4. CASE ReceiveRequest(r)
  BY <1>1, <1>3, <1>4, LotEarly
  DEF ReceiveRequest, DepositReceive, WithdrawReceive, Receive, ErrorKind
<1>5. CASE FindByTypeAndOrderID(r)
  BY <1>1, <1>3, <1>5, LotEarly DEF FindByTypeAndOrderID, ErrorKind
<1>6. CASE FindClientByID(r, "findAsset")
  BY <1>1, <1>3, <1>6, LotEarly DEF FindClientByID, ErrorKind
<1>7. CASE ReplayAfterRace(r)
  BY <1>3, <1>7 DEF ReplayAfterRace, ErrorKind
<1> QED
  BY <1>4, <1>5, <1>6, <1>7

(* The client of a withdrawal. *)
LEMMA LotFindClient ==
    ASSUME TypeInv, LotInv, NEW r \in Request, IsWithdraw(r),
           FindClientByID(r, "begin")
    PROVE  LotInv'
<1>1. UNCHANGED db /\ req' = req /\ pc[r] = "findClient"
  BY DEF FindClientByID
<1>2. TablesKept /\ RowsKept
  BY <1>1, DatabaseLots
<1>3. CASE Answer(r, 422, "invalid", <<>>)
  BY <1>1, <1>2, <1>3, LotAnswer
<1>4. CASE Goto(r, "begin") /\ mem' = mem
  <2>1. LotsAt(r, "findClient", mem[r], pendingRows[r], DOMAIN pendingCommands[r])
    BY <1>1 DEF LotInv, InvocationLots
  <2>2. LotsAt(r, "begin", mem[r], pendingRows[r], DOMAIN pendingCommands[r])
    BY <2>1 DEF LotsAt, IsDeposit, IsWithdraw
  <2>3. mem' = [mem EXCEPT ![r] = mem[r]]
    BY <1>4 DEF TypeInv, InvocationTypeOK
  <2> QED
    BY <1>1, <1>2, <1>4, <2>2, <2>3, LotStay DEF Goto, RowsKept
<1> QED
  BY <1>3, <1>4 DEF FindClientByID

(* The asset of a deposit: its position is built in memory. *)
LEMMA LotFindAsset ==
    ASSUME TypeInv, LotInv, NEW r \in Request, IsDeposit(r), FindAssetByID(r)
    PROVE  LotInv'
<1>1. UNCHANGED db /\ req' = req /\ pc[r] = "findAsset"
  BY DEF FindAssetByID
<1>2. TablesKept /\ RowsKept
  BY <1>1, DatabaseLots
<1>3. CASE Answer(r, 422, "invalid", <<>>) \/ Answer(r, 500, "other", <<>>)
  BY <1>1, <1>2, <1>3, LotAnswer
<1>4. CASE /\ Goto(r, "begin")
           /\ \E now \in Times :
                 mem' = [mem EXCEPT ![r].held =
                   <<NewPosition(r, req[r].client, req[r].asset,
                                 req[r].amount, req[r].unitPrice, now)>>]
  <2>1. PICK now \in Times :
          mem' = [mem EXCEPT ![r].held =
            <<NewPosition(r, req[r].client, req[r].asset,
                          req[r].amount, req[r].unitPrice, now)>>]
    BY <1>4
  <2> DEFINE p == NewPosition(r, req[r].client, req[r].asset,
                              req[r].amount, req[r].unitPrice, now)
             m == [mem[r] EXCEPT !.held = <<p>>]
  <2>2. mem' = [mem EXCEPT ![r] = m]
    BY <2>1
  <2>3. mem[r] \in Memory
    BY DEF TypeInv, InvocationTypeOK
  <2>4. m.held = <<p>>
    BY <2>3 DEF Memory
  <2>5. IsNewLot(r, p)
    BY DEF IsNewLot
  <2>6. LotsAt(r, "findAsset", mem[r], pendingRows[r], DOMAIN pendingCommands[r])
    BY <1>1 DEF LotInv, InvocationLots
  <2> HIDE DEF p
  <2>7. LotsAt(r, "begin", m, pendingRows[r], DOMAIN pendingCommands[r])
    BY <2>4, <2>5, <2>6 DEF LotsAt, IsDeposit, IsWithdraw
  <2> QED
    BY <1>1, <1>2, <1>4, <2>2, <2>7, LotStay DEF Goto, RowsKept
<1> QED
  BY <1>3, <1>4 DEF FindAssetByID

(* The start of the transaction. *)
LEMMA LotBegin ==
    ASSUME TypeInv, LotInv, NEW r \in Request,
           NEW next \in {"createPosition", "findLots"}, Begin(r, next)
    PROVE  LotInv'
<1>1. pc[r] = "begin" /\ TablesKept /\ RowsKept
  BY DatabaseLots DEF Begin
<1>2. LotsAt(r, "begin", mem[r], pendingRows[r], DOMAIN pendingCommands[r])
  BY <1>1 DEF LotInv, InvocationLots
<1>3. LotsAt(r, next, mem[r], pendingRows[r], DOMAIN pendingCommands[r])
  BY <1>2 DEF LotsAt
<1>4. mem' = [mem EXCEPT ![r] = mem[r]]
  BY DEF Begin, TypeInv, InvocationTypeOK
<1> QED
  BY <1>1, <1>3, <1>4, LotStay DEF Begin, Goto, RowsKept

-----------------------------------------------------------------------------
(* The writes. *)

(* Every request is a deposit or a withdrawal. *)
LEMMA OneUseCase ==
    ASSUME InvocationTypeOK, NEW r \in Request
    PROVE  IsDeposit(r) <=> ~ IsWithdraw(r)
BY InputAssumption DEF InvocationTypeOK, IsDeposit, IsWithdraw, CommandType

(* The insert of the deposit's position: no other transaction holds a lot  *)
(* that was never stored.                                                  *)
LEMMA LotCreatePosition ==
    ASSUME TypeInv, LotInv, NEW r \in Request, IsDeposit(r), CreatePosition(r)
    PROVE  LotInv'
<1> DEFINE p == mem[r].held[1]
           rows == Put(pendingRows[r], p.positionID, Coerce(p))
<1>1. pc[r] = "createPosition" /\ req' = req
  BY DEF CreatePosition
<1>2. CASE FailTx(r) /\ Abort(r, "other")
  BY <1>1, <1>2, LotAbort, DatabaseLots
<1>3. CASE Storable(p) /\ WriteRow(r, p) /\ Goto(r, "createCommand") /\ mem' = mem
  <2>1. LotsAt(r, "createPosition", mem[r], pendingRows[r], DOMAIN pendingCommands[r])
    BY <1>1 DEF LotInv, InvocationLots
  <2>2. /\ DOMAIN pendingRows[r] = {} /\ DOMAIN pendingCommands[r] = {}
        /\ Len(mem[r].held) = 1 /\ IsNewLot(r, p)
    BY <2>1 DEF LotsAt
  <2>3. p.positionID = r
    BY <2>2 DEF IsNewLot, NewPosition
  <2>4. p \in Position
    BY <2>2, MemoryType DEF TypeInv, InvocationTypeOK
  <2>5. DOMAIN rows = {r} /\ rows[r] = Coerce(p)
    BY <2>2, <2>3 DEF Put
  <2>6. IsStored(r, rows[r])
    BY <1>3, <2>3, <2>4, <2>5, CoerceType, CoerceTwice DEF IsStored
  <2>7. \A s \in Request \ {r} : r \notin DOMAIN pendingRows[s]
    <3>1. r \notin DOMAIN positions
      BY <1>1 DEF LotInv, LotIsNew
    <3> QED
      BY <3>1, OneUseCase DEF LotInv, PendingRowsOK, TypeInv
  <2>8. /\ positions' = positions /\ commands' = commands
        /\ pendingRows' = [pendingRows EXCEPT ![r] = rows]
        /\ pendingCommands' = [pendingCommands EXCEPT ![r] = pendingCommands[r]]
    BY <1>3 DEF WriteRow, TypeInv, DatabaseTypeOK
  <2>9. mem' = [mem EXCEPT ![r] = mem[r]] /\ pc' = [pc EXCEPT ![r] = "createCommand"]
    BY <1>3 DEF Goto, TypeInv, InvocationTypeOK
  <2> HIDE DEF rows
  <2>10. LotsAt(r, "createCommand", mem[r], rows, DOMAIN pendingCommands[r])
    BY <1>3, <2>2, <2>5 DEF LotsAt, IsDeposit, IsWithdraw
  <2>11. RowsFit(r, rows)
    BY <2>5, <2>6, <2>7 DEF RowsFit, IsDeposit, IsWithdraw
  <2> QED
    BY <1>1, <2>8, <2>9, <2>10, <2>11, PendingFit, LotMove
<1> QED
  BY <1>2, <1>3 DEF CreatePosition

(* The insert of the command. *)
LEMMA LotCreateCommand ==
    ASSUME TypeInv, LotInv, NEW r \in Request, CreateProcessedCommand(r)
    PROVE  LotInv'
<1> DEFINE c == NewProcessedCommand(r, req[r].client, ToResponse(mem[r].held))
           cmds == Put(pendingCommands[r], KeyOf(r), c)
<1>1. pc[r] = "createCommand" /\ req' = req
  BY DEF CreateProcessedCommand
<1>2. CASE FailTx(r) /\ Abort(r, "duplicate")
  BY <1>1, <1>2, LotAbort, DatabaseLots
<1>3. CASE WriteCommand(r, KeyOf(r), c) /\ Goto(r, "commit") /\ mem' = mem
  <2>1. LotsAt(r, "createCommand", mem[r], pendingRows[r], DOMAIN pendingCommands[r])
    BY <1>1 DEF LotInv, InvocationLots
  <2>2. DOMAIN pendingCommands[r] = {}
    BY <2>1 DEF LotsAt
  <2>3. CommandsFit(r, cmds)
    BY <2>2 DEF CommandsFit, Put, NewProcessedCommand
  <2>4. /\ positions' = positions /\ commands' = commands
        /\ pendingRows' = [pendingRows EXCEPT ![r] = pendingRows[r]]
        /\ pendingCommands' = [pendingCommands EXCEPT ![r] = cmds]
    BY <1>3 DEF WriteCommand, TypeInv, DatabaseTypeOK
  <2>5. mem' = [mem EXCEPT ![r] = mem[r]] /\ pc' = [pc EXCEPT ![r] = "commit"]
    BY <1>3 DEF Goto, TypeInv, InvocationTypeOK
  <2> HIDE DEF cmds
  <2>6. LotsAt(r, "commit", mem[r], pendingRows[r], DOMAIN cmds)
    BY <2>1 DEF LotsAt
  <2> QED
    BY <1>1, <2>3, <2>4, <2>5, <2>6, PendingFit, LotMove
<1> QED
  BY <1>2, <1>3 DEF CreateProcessedCommand

(* The stored row of a lot that r is about to write, or has written, is    *)
(* the row r read: UPDATE asks for its version.                            *)
LEMMA VersionFindsRead ==
    ASSUME TypeInv, NEW r \in Request, NEW p, NEW units, NEW toSell,
           SoldBy(r, p, units, toSell),
           positions[p.positionID].rowVersion = p.rowVersion - 1
    PROVE  LET lot == positions[p.positionID]
           IN  /\ p.positionID \in DOMAIN positions /\ lot \in Position
               /\ ReadBy(r, lot) /\ lot.positionID = p.positionID
               /\ toSell > 0 /\ units = UnitsSold(lot, toSell)
               /\ p = UpdateAmount(lot, lot.amount - units)
<1>1. PICK lot \in Position :
         /\ ReadBy(r, lot)
         /\ units = UnitsSold(lot, toSell)
         /\ p = UpdateAmount(lot, lot.amount - units)
  BY DEF SoldBy
<1>2. p.positionID = lot.positionID /\ p.rowVersion = lot.rowVersion + 1
      /\ lot.rowVersion \in Nat
  BY <1>1 DEF UpdateAmount, Position, PositionRecord
<1>3. positions[lot.positionID].rowVersion = lot.rowVersion
  BY <1>2
<1>4. lot.positionID \in DOMAIN positions /\ positions[lot.positionID] = lot
  BY <1>1, <1>2, <1>3 DEF ReadBy
<1> QED
  BY <1>1, <1>2, <1>4 DEF SoldBy

(* What selling from a lot leaves of it. *)
LEMMA SaleOfLot ==
    ASSUME NEW lot \in Position, IsEligible(lot), Coerce(lot) = lot,
           NEW toSell \in Int, toSell > 0
    PROVE  LET units == UnitsSold(lot, toSell)
               p == UpdateAmount(lot, lot.amount - units)
           IN  /\ units \in Nat /\ units <= lot.amount
               /\ p \in Position /\ SameLot(p, lot)
               /\ p.amount = lot.amount - units
               /\ p.rowVersion = lot.rowVersion + 1
               /\ ToScale(p.amount, AmountQuantum) = p.amount
               /\ ToScale(p.unitPrice, PriceQuantum) = p.unitPrice
               /\ 2 * GuardUnits * (Blocked(p) - p.totalValue)
                    <= RoundingError(lot.unitPrice)
<1> DEFINE units == UnitsSold(lot, toSell)
           n == lot.amount - units
           p == UpdateAmount(lot, n)
<1>1. /\ lot \in PositionRecord /\ lot.amount \in Nat /\ lot.unitPrice \in Nat
      /\ lot.totalValue = lot.amount * lot.unitPrice
      /\ lot.collateralValue \in Nat /\ lot.judiciaryCollateralValue \in Nat
      /\ lot.rowVersion \in Nat
  BY DEF Position, PositionRecord
<1>2. /\ ToScale(lot.amount, AmountQuantum) = lot.amount
      /\ ToScale(lot.unitPrice, PriceQuantum) = lot.unitPrice
  <2>1. /\ Coerce(lot).amount = ToScale(lot.amount, AmountQuantum)
        /\ Coerce(lot).unitPrice = ToScale(lot.unitPrice, PriceQuantum)
    BY <1>1 DEF Coerce, PositionRecord
  <2> QED
    BY <2>1
<1>3. /\ \E j \in Nat : units = j * AmountQuantum
      /\ units <= lot.amount
      /\ 2 * GuardUnits * (units * lot.unitPrice - AvailableValue(lot))
           <= (AmountQuantum * GuardUnits + 1) * lot.unitPrice
  BY <1>2, UnitsSoldBounds
<1>4. units \in Nat
  BY UnitsSoldType
<1> HIDE DEF units
<1>5. n \in Nat
  BY <1>1, <1>3, <1>4
<1>6. /\ p \in Position /\ p.amount = n /\ p.positionID = lot.positionID
      /\ p.rowVersion = lot.rowVersion + 1
  BY <1>5, UpdateAmountType
<1>7. SameLot(p, lot) /\ p.totalValue = n * lot.unitPrice
  BY <1>1 DEF UpdateAmount, SameLot, PositionRecord
<1>8. ToScale(n, AmountQuantum) = n
  <2>1. PICK j \in Nat : units = j * AmountQuantum
    BY <1>3
  <2>2. AmountQuantum \in Nat \ {0}
    BY ScaleAssumption
  <2>3. PICK k \in Nat : lot.amount = k * AmountQuantum
    <3>1. \E k \in Nat : ToScale(lot.amount, AmountQuantum) = k * AmountQuantum
      BY <1>1, <2>2, AtScale
    <3> QED
      BY <1>2, <3>1
  <2>4. j <= k
    <3>1. SUFFICES ASSUME j >= k + 1 PROVE FALSE
      OBVIOUS
    <3>2. PICK e \in Nat : j = k + 1 + e
      <4>1. j - (k + 1) \in Nat /\ j = k + 1 + (j - (k + 1))
        BY <3>1
      <4> QED
        BY <4>1
    <3>3. j * AmountQuantum = k * AmountQuantum + AmountQuantum + e * AmountQuantum
      BY <2>2, <3>2
    <3>4. e * AmountQuantum >= 0 /\ k * AmountQuantum \in Nat
      BY <2>2
    <3> QED
      BY <1>3, <2>1, <2>2, <2>3, <3>3, <3>4
  <2>5. k - j \in Nat /\ n = (k - j) * AmountQuantum
    BY <2>1, <2>2, <2>3, <2>4
  <2> QED
    BY <2>2, <2>5, ToScaleExact
<1>9. 2 * GuardUnits * (Blocked(p) - p.totalValue) <= RoundingError(lot.unitPrice)
  <2>1. n * lot.unitPrice = lot.totalValue - units * lot.unitPrice
    BY <1>1, <1>4
  <2>2. /\ Blocked(p) = lot.collateralValue + lot.judiciaryCollateralValue
        /\ lot.totalValue \in Nat /\ units * lot.unitPrice \in Nat
    BY <1>1, <1>4, <1>7 DEF Blocked, SameLot
  <2>3. AvailableValue(lot) =
          (lot.totalValue - lot.collateralValue) - lot.judiciaryCollateralValue
    BY DEF AvailableValue
  <2>4. Blocked(p) - p.totalValue = units * lot.unitPrice - AvailableValue(lot)
    BY <1>1, <1>7, <2>1, <2>2, <2>3
  <2> QED
    BY <1>3, <2>4 DEF RoundingError
<1> QED
  BY <1>2, <1>3, <1>4, <1>6, <1>7, <1>8, <1>9 DEF units, SameLot

-----------------------------------------------------------------------------
(* The withdrawal's loop. *)

(* The lots as they were just read: nothing is sold yet. *)
LEMMA ReadStartsSelling ==
    ASSUME TypeInv, LotInv, NEW r \in Request, IsWithdraw(r),
           req[r].desiredValue \in Int,
           NEW s \in OldestFirst(Eligible(LotsOf(req[r]))), NEW m \in Memory,
           m.held = <<>>, m.eligible = s, m.remaining = req[r].desiredValue,
           m.sold = <<>>, m.written = 0
    PROVE  Selling(r, m)
<1> DEFINE rows == LotsOf(req[r])
           toSell == [i \in 1..1 |-> req[r].desiredValue]
<1>1. rows \in SUBSET Position /\ IsFiniteSet(rows)
  BY LotsOfType DEF TypeInv
<1>2. /\ s \in Seq(Position)
      /\ \A i \in 1..Len(s) : s[i] \in rows /\ IsEligible(s[i])
  BY <1>1, OldestFirstType
<1>3. \A p \in rows : /\ p.positionID \in DOMAIN positions
                      /\ positions[p.positionID] = p
                      /\ p.client = req[r].client
                      /\ Assets[p.asset].instrument = req[r].instrument
                      /\ Coerce(p) = p
  BY DEF LotsOf, LotInv, RowsStored, IsStored
<1>4. \A i \in 1..Len(s) : ReadBy(r, s[i])
  BY <1>2, <1>3 DEF ReadBy, SameLot
<1>5. Len(m.held) = 0 /\ Len(m.sold) = 0
  OBVIOUS
<1>6. toSell \in [1..Len(m.held) + 1 -> Int] /\ IsLoop(r, m, toSell)
  BY <1>5 DEF IsLoop
<1>7. /\ QueueLen(m) = Len(s)
      /\ \A i \in 1..Len(s) : QueueAt(m, i) = s[i]
  BY <1>2, <1>5 DEF QueueLen, QueueAt
<1>8. InOrder(m)
  <2>1. \A i, j \in 1..Len(s) : i < j =>
           s[i] # s[j] /\ s[i].purchasedAt <= s[j].purchasedAt
    BY <1>1, OldestFirstComplete
  <2>2. \A i, j \in 1..Len(s) : s[i] # s[j] => s[i].positionID # s[j].positionID
    BY <1>2, <1>3
  <2> QED
    BY <1>7, <2>1, <2>2 DEF InOrder
<1> QED
  BY <1>4, <1>5, <1>6, <1>8 DEF Selling

(* The read of the lots and the check of what is available. *)
LEMMA LotFindLots ==
    ASSUME TypeInv, LotInv, NEW r \in Request, FindByClientAndInstrument(r)
    PROVE  LotInv'
<1> DEFINE rows == LotsOf(req[r])
<1>1. pc[r] = "findLots" /\ TablesKept /\ RowsKept
  BY DatabaseLots DEF FindByClientAndInstrument
<1>2. IsWithdraw(r) /\ IsValid(r)
  BY <1>1 DEF TypeInv, ControlOK, ControlAt
<1>3. req[r].desiredValue \in Int /\ req[r].desiredValue > 0
  BY <1>2, ValidRequest
  DEF TypeInv, IsValid, IsDeposit, IsWithdraw, validateWithdrawRequest
<1>4. CASE \E error \in {"notFound", "other", "insufficient"} : Abort(r, error)
  BY <1>1, <1>4, LotAbort
<1>5. CASE /\ Goto(r, "sell")
           /\ TotalAvailable(Eligible(rows)) >= req[r].desiredValue
           /\ \E s \in OldestFirst(Eligible(rows)) :
                 mem' = [mem EXCEPT ![r] =
                   [held |-> <<>>, eligible |-> s,
                    remaining |-> req[r].desiredValue,
                    sold |-> <<>>, written |-> 0]]
  <2>1. PICK s \in OldestFirst(Eligible(rows)) :
          mem' = [mem EXCEPT ![r] =
            [held |-> <<>>, eligible |-> s, remaining |-> req[r].desiredValue,
             sold |-> <<>>, written |-> 0]]
    BY <1>5
  <2> DEFINE m == [held |-> <<>>, eligible |-> s,
                   remaining |-> req[r].desiredValue,
                   sold |-> <<>>, written |-> 0]
  <2>2. rows \in SUBSET Position /\ IsFiniteSet(rows)
    BY LotsOfType DEF TypeInv
  <2>3. s \in Seq(Position)
    BY <2>2, OldestFirstType
  <2>4. m \in Memory
    <3>1. <<>> \in Seq(Position) /\ <<>> \in Seq(Nat)
      BY EmptySeq
    <3> QED
      BY <1>3, <2>3, <3>1 DEF Memory
  <2>5. Selling(r, m)
    BY <1>2, <1>3, <2>4, ReadStartsSelling
  <2>6. s # <<>>
    <3>1. SUFFICES ASSUME s = <<>> PROVE FALSE
      OBVIOUS
    <3>2. Eligible(rows) = {}
      <4>1. \A p \in Eligible(rows) : \E i \in 1..Len(s) : s[i] = p
        BY <2>2, OldestFirstComplete
      <4> QED
        BY <3>1, <4>1
    <3> QED
      BY <1>3, <1>5, <3>2, NothingAvailable
  <2>7. LotsAt(r, "findLots", mem[r], pendingRows[r], DOMAIN pendingCommands[r])
    BY <1>1 DEF LotInv, InvocationLots
  <2>8. DOMAIN pendingRows[r] = {} /\ DOMAIN pendingCommands[r] = {}
    BY <2>7 DEF LotsAt
  <2>9. Written(m, pendingRows[r])
    BY <2>8 DEF Written
  <2>10. ~ LoopEnds(s, req[r].desiredValue)
    BY <1>3, <2>6 DEF LoopEnds
  <2>11. LotsAt(r, "sell", m, pendingRows[r], DOMAIN pendingCommands[r])
    BY <1>2, <2>5, <2>8, <2>9, <2>10 DEF LotsAt, IsDeposit, IsWithdraw
  <2> HIDE DEF m
  <2> QED
    BY <1>1, <1>5, <2>1, <2>11, LotStay DEF Goto, RowsKept, m
<1> QED
  BY <1>4, <1>5 DEF FindByClientAndInstrument

(* What one round of the loop makes of the memory. *)
IsRound(m, n) ==
    LET lot == Head(m.eligible)
        units == UnitsSold(lot, m.remaining)
    IN  /\ n.held = Append(m.held, UpdateAmount(lot, lot.amount - units))
        /\ n.eligible = Tail(m.eligible)
        /\ n.remaining = m.remaining - units * lot.unitPrice
        /\ n.sold = Append(m.sold, units)

(* One round: the first lot not debited yet is debited and joins the held. *)
LEMMA RoundKeepsSelling ==
    ASSUME TypeInv, NEW r \in Request, NEW m \in Memory, Selling(r, m),
           m.eligible # <<>>, m.remaining > 0, NEW n \in Memory, IsRound(m, n)
    PROVE  Selling(r, n)
<1> DEFINE lot == Head(m.eligible)
           units == UnitsSold(lot, m.remaining)
           p == UpdateAmount(lot, lot.amount - units)
           h == Len(m.held)
<1>1. /\ m.held \in Seq(Position) /\ m.eligible \in Seq(Position)
      /\ m.remaining \in Int /\ m.sold \in Seq(Nat)
      /\ n.held \in Seq(Position) /\ n.eligible \in Seq(Position)
      /\ n.remaining \in Int /\ n.sold \in Seq(Nat)
  BY MemoryType
<1>2. /\ lot = m.eligible[1] /\ lot \in Position
      /\ Len(m.eligible) \in Nat \ {0} /\ h \in Nat
      /\ Len(n.eligible) = Len(m.eligible) - 1
      /\ \A i \in 1..Len(n.eligible) :
            n.eligible[i] = m.eligible[i + 1] /\ i + 1 \in 1..Len(m.eligible)
  <2>1. Len(m.eligible) \in Nat \ {0} /\ h \in Nat
    BY <1>1, EmptySeq, LenProperties
  <2>2. /\ Len(Tail(m.eligible)) = Len(m.eligible) - 1
        /\ \A i \in 1..Len(Tail(m.eligible)) : Tail(m.eligible)[i] = m.eligible[i + 1]
    BY <1>1, HeadTailProperties
  <2>3. lot = m.eligible[1] /\ lot \in Position
    BY <1>1, <2>1, HeadTailProperties
  <2>4. \A i \in 1..Len(n.eligible) : i + 1 \in 1..Len(m.eligible)
    BY <2>1, <2>2 DEF IsRound
  <2> QED
    BY <2>1, <2>2, <2>3, <2>4 DEF IsRound
<1>3. ReadBy(r, lot)
  BY <1>2 DEF Selling
<1>4. IsEligible(lot) /\ Coerce(lot) = lot
  BY <1>3 DEF ReadBy
<1>5. units \in Nat /\ p \in Position /\ SameLot(p, lot)
  BY <1>1, <1>2, <1>4, SaleOfLot
<1>6. SoldBy(r, p, units, m.remaining)
  BY <1>1, <1>2, <1>3 DEF SoldBy
<1> HIDE DEF lot, units, p
<1>7. /\ n.held = Append(m.held, p) /\ n.sold = Append(m.sold, units)
      /\ n.remaining = m.remaining - units * lot.unitPrice
  BY DEF IsRound, lot, units, p
<1>8. /\ Len(n.held) = h + 1 /\ n.held[h + 1] = p
      /\ \A i \in 1..h : n.held[i] = m.held[i]
  BY <1>1, <1>5, <1>7, AppendProperties
<1>9. Len(m.sold) = h
  BY DEF Selling
<1>lens. /\ h \in Nat /\ Len(n.held) = h + 1
       /\ Len(m.eligible) \in Nat /\ Len(n.eligible) = Len(m.eligible) - 1
  BY <1>2, <1>8
<1>10. /\ Len(n.sold) = h + 1 /\ n.sold[h + 1] = units
       /\ \A i \in 1..h : n.sold[i] = m.sold[i]
  BY <1>1, <1>5, <1>7, <1>9, AppendProperties
<1>11. \E t \in [1..Len(n.held) + 1 -> Int] : IsLoop(r, n, t)
  <2>1. PICK t \in [1..h + 1 -> Int] : IsLoop(r, m, t)
    BY DEF Selling
  <2> DEFINE u == [i \in 1..(h + 1) + 1 |-> IF i <= h + 1 THEN t[i] ELSE n.remaining]
  <2>2. u \in [1..Len(n.held) + 1 -> Int]
    BY <1>1, <1>2, <1>8, <2>1
  <2>3. /\ \A i \in 1..h + 1 : u[i] = t[i]
        /\ u[(h + 1) + 1] = n.remaining
    BY <1>2
  <2> HIDE DEF u
  <2>4. t[h + 1] = m.remaining /\ t[1] = req[r].desiredValue
    BY <2>1 DEF IsLoop
  <2>5. u[1] = req[r].desiredValue /\ u[Len(n.held) + 1] = n.remaining
    BY <1>2, <1>8, <2>3, <2>4
  <2>6. ASSUME NEW i \in 1..Len(n.held)
        PROVE  /\ SoldBy(r, n.held[i], n.sold[i], u[i])
               /\ u[i + 1] = u[i] - n.sold[i] * n.held[i].unitPrice
    <3>1. CASE i \in 1..h
      <4>1. /\ SoldBy(r, m.held[i], m.sold[i], t[i])
            /\ t[i + 1] = t[i] - m.sold[i] * m.held[i].unitPrice
        BY <2>1, <3>1 DEF IsLoop
      <4>2. u[i] = t[i] /\ u[i + 1] = t[i + 1]
        BY <1>2, <2>3, <3>1
      <4> QED
        BY <1>8, <1>10, <3>1, <4>1, <4>2
    <3>2. CASE i = h + 1
      <4>1. u[i] = m.remaining /\ u[i + 1] = n.remaining
        BY <1>2, <2>3, <2>4, <3>2
      <4>2. p.unitPrice = lot.unitPrice
        BY <1>5 DEF SameLot
      <4> QED
        BY <1>6, <1>7, <1>8, <1>10, <3>2, <4>1, <4>2
    <3>3. i \in 1..h \/ i = h + 1
      BY <1>lens
    <3> QED
      BY <3>1, <3>2, <3>3
  <2>7. IsLoop(r, n, u)
    BY <2>5, <2>6 DEF IsLoop
  <2> QED
    BY <2>2, <2>7
<1>12. \A i \in 1..Len(n.eligible) : ReadBy(r, n.eligible[i])
  BY <1>2 DEF Selling
<1>13. /\ QueueLen(n) = QueueLen(m)
       /\ \A i \in 1..QueueLen(m) : SameLot(QueueAt(n, i), QueueAt(m, i))
  <2> DEFINE e == Len(m.eligible)
             k == Len(n.held)
             f == Len(n.eligible)
  <2>1. h \in Nat /\ k = h + 1 /\ e \in Nat \ {0} /\ f = e - 1
    BY <1>2, <1>lens
  <2>2. QueueLen(n) = k + f /\ QueueLen(m) = h + e
    BY DEF QueueLen
  <2>3. \A i : /\ QueueAt(n, i) = IF i <= k THEN n.held[i] ELSE n.eligible[i - k]
               /\ QueueAt(m, i) = IF i <= h THEN m.held[i] ELSE m.eligible[i - h]
    BY DEF QueueAt
  <2>4. \A i \in 1..f : n.eligible[i] = m.eligible[i + 1]
    BY <1>2
  <2> HIDE DEF e, f, k, h
  <2>5. QueueLen(n) = QueueLen(m)
    BY <2>1, <2>2
  <2>6. ASSUME NEW i \in 1..QueueLen(m)
        PROVE  SameLot(QueueAt(n, i), QueueAt(m, i))
    <3>1. i \in 1..h + e
      BY <2>2
    <3>2. CASE i <= h
      <4>1. i \in 1..h /\ i <= k
        BY <2>1, <3>1, <3>2
      <4>2. QueueAt(n, i) = n.held[i] /\ QueueAt(m, i) = m.held[i]
        BY <2>3, <3>2, <4>1
      <4> QED
        BY <1>8, <4>1, <4>2 DEF SameLot, h
    <3>3. CASE i = h + 1
      <4>1. i <= k /\ ~ (i <= h) /\ i - h = 1
        BY <2>1, <3>3
      <4>2. QueueAt(n, i) = n.held[i] /\ QueueAt(m, i) = m.eligible[1]
        BY <2>3, <4>1
      <4> QED
        BY <1>2, <1>5, <1>8, <3>3, <4>2 DEF h
    <3>4. CASE i > h + 1
      <4>1. ~ (i <= k) /\ ~ (i <= h) /\ i - k \in 1..f /\ (i - k) + 1 = i - h
        BY <2>1, <3>1, <3>4
      <4>2. QueueAt(n, i) = n.eligible[i - k] /\ QueueAt(m, i) = m.eligible[i - h]
        BY <2>3, <4>1
      <4>3. QueueAt(n, i) = QueueAt(m, i)
        BY <2>4, <4>1, <4>2
      <4> QED
        BY <4>3 DEF SameLot
    <3> QED
      BY <2>1, <3>1, <3>2, <3>3, <3>4
  <2> QED
    BY <2>5, <2>6
<1>14. InOrder(n)
  <2>1. InOrder(m)
    BY DEF Selling
  <2> QED
    BY <1>13, <2>1 DEF InOrder, SameLot
<1> QED
  BY <1>8, <1>10, <1>11, <1>12, <1>14 DEF Selling

(* One round of the loop. *)
LEMMA LotSell ==
    ASSUME TypeInv, LotInv, NEW r \in Request, SellFromLot(r)
    PROVE  LotInv'
<1> DEFINE m == mem[r]
           lot == Head(m.eligible)
           units == UnitsSold(lot, m.remaining)
           remaining == m.remaining - units * lot.unitPrice
           n == [held |-> Append(m.held, UpdateAmount(lot, lot.amount - units)),
                 eligible |-> Tail(m.eligible), remaining |-> remaining,
                 sold |-> Append(m.sold, units), written |-> 0]
           next == IF LoopEnds(Tail(m.eligible), remaining)
                   THEN "update" ELSE "sell"
<1>1. pc[r] = "sell" /\ TablesKept /\ RowsKept
  BY DatabaseLots DEF SellFromLot
<1>2. LotsAt(r, "sell", m, pendingRows[r], DOMAIN pendingCommands[r])
  BY <1>1 DEF LotInv, InvocationLots
<1>3. IsWithdraw(r) /\ m \in Memory
  BY <1>1 DEF TypeInv, ControlOK, ControlAt, InvocationTypeOK
<1>4. /\ Selling(r, m) /\ Written(m, pendingRows[r]) /\ m.written = 0
      /\ DOMAIN pendingCommands[r] = {}
  BY <1>2, <1>3 DEF LotsAt
<1>5. CASE Abort(r, "other")
  BY <1>1, <1>5, LotAbort
<1>6. CASE mem' = [mem EXCEPT ![r] = n] /\ Goto(r, next)
  <2>1. TypeInv'
    BY SellOK
  <2>2. mem'[r] = n /\ mem'[r] \in Memory
    BY <1>6, <2>1 DEF TypeInv, InvocationTypeOK
  <2>3. IsRound(m, n) /\ n.written = 0 /\ n.eligible = Tail(m.eligible)
        /\ n.remaining = remaining
    BY DEF IsRound
  <2>4. m.eligible # <<>> /\ m.remaining > 0
    BY <1>3, MemoryType DEF SellFromLot, LoopEnds
  <2> HIDE DEF n, m, remaining
  <2>5. Selling(r, n)
    BY <1>3, <1>4, <2>2, <2>3, <2>4, RoundKeepsSelling
  <2>6. DOMAIN pendingRows[r] = {}
    BY <1>4 DEF Written
  <2>7. Written(n, pendingRows[r])
    <3>1. Len(n.held) \in Nat
      BY <2>2, MemoryType, LenProperties
    <3> QED
      BY <2>3, <2>6, <3>1 DEF Written
  <2>8. next = "sell" <=> ~ LoopEnds(n.eligible, n.remaining)
    BY <2>3
  <2>9. next \in {"update", "sell"}
    OBVIOUS
  <2> HIDE DEF next
  <2>10. LotsAt(r, next, n, pendingRows[r], DOMAIN pendingCommands[r])
    BY <1>3, <1>4, <2>3, <2>5, <2>7, <2>8, <2>9 DEF LotsAt, IsDeposit, IsWithdraw
  <2>11. pc' = [pc EXCEPT ![r] = next] /\ mem' = [mem EXCEPT ![r] = n]
    BY <1>6 DEF Goto
  <2> QED
    BY <1>1, <2>10, <2>11, LotStay DEF RowsKept
<1> QED
  BY <1>5, <1>6 DEF SellFromLot

(* What is sold does not depend on how much of it was written. *)
LEMMA SellingSame ==
    ASSUME NEW r, NEW m, NEW n, Selling(r, m),
           n.held = m.held, n.eligible = m.eligible,
           n.remaining = m.remaining, n.sold = m.sold
    PROVE  Selling(r, n)
<1>1. QueueLen(n) = QueueLen(m) /\ \A i : QueueAt(n, i) = QueueAt(m, i)
  BY DEF QueueAt, QueueLen
<1>2. \A t : IsLoop(r, m, t) => IsLoop(r, n, t)
  BY DEF IsLoop
<1>3. InOrder(n)
  BY <1>1 DEF Selling, InOrder
<1> QED
  BY <1>2, <1>3 DEF Selling

(* The positions a withdrawal holds: each is a sale, from a lot of its own. *)
LEMMA HeldLots ==
    ASSUME TypeInv, NEW r \in Request, NEW m \in Memory, Selling(r, m)
    PROVE  /\ Len(m.held) \in Nat
           /\ \A i \in 1..Len(m.held) : \E toSell \in Int :
                 SoldBy(r, m.held[i], m.sold[i], toSell)
           /\ \A i, j \in 1..Len(m.held) : i # j =>
                 m.held[i].positionID # m.held[j].positionID
<1>1. Len(m.held) \in Nat /\ Len(m.eligible) \in Nat
  BY MemoryType, LenProperties
<1>2. PICK toSell \in [1..Len(m.held) + 1 -> Int] : IsLoop(r, m, toSell)
  BY DEF Selling
<1>3. \A i \in 1..Len(m.held) :
         SoldBy(r, m.held[i], m.sold[i], toSell[i]) /\ toSell[i] \in Int
  BY <1>1, <1>2 DEF IsLoop
<1>4. \A i \in 1..Len(m.held) : QueueAt(m, i) = m.held[i] /\ i \in 1..QueueLen(m)
  <2> DEFINE h == Len(m.held)
             e == Len(m.eligible)
  <2>1. /\ QueueLen(m) = h + e
        /\ \A i : i <= h => QueueAt(m, i) = m.held[i]
    BY DEF QueueAt, QueueLen
  <2>2. h \in Nat /\ e \in Nat
    BY <1>1
  <2> HIDE DEF h, e
  <2>3. \A i \in 1..h : i <= h /\ i \in 1..h + e
    BY <2>2
  <2> QED
    BY <2>1, <2>3 DEF h
<1>5. InOrder(m)
  BY DEF Selling
<1>6. \A i, j \in 1..Len(m.held) : i < j =>
         m.held[i].positionID # m.held[j].positionID
  BY <1>4, <1>5 DEF InOrder
<1>7. \A i, j \in 1..Len(m.held) : i # j =>
         m.held[i].positionID # m.held[j].positionID
  BY <1>1, <1>6
<1> QED
  BY <1>1, <1>3, <1>7

(* A sale at the version of the stored row: what it will store. *)
LEMMA SaleOfStored ==
    ASSUME TypeInv, NEW r \in Request, NEW p, NEW units, NEW toSell \in Int,
           SoldBy(r, p, units, toSell),
           positions[p.positionID].rowVersion = p.rowVersion - 1
    PROVE  LET lot == positions[p.positionID]
           IN  /\ p.positionID \in DOMAIN positions
               /\ ReadBy(r, lot) /\ lot \in Position
               /\ units \in Nat /\ units <= lot.amount
               /\ p \in Position /\ SameLot(p, lot)
               /\ p.amount = lot.amount - units
               /\ p.rowVersion = lot.rowVersion + 1
               /\ Storable(p) => Coerce(p) = p
               /\ 2 * GuardUnits * (Blocked(p) - p.totalValue)
                    <= RoundingError(lot.unitPrice)
<1> DEFINE lot == positions[p.positionID]
<1>1. /\ p.positionID \in DOMAIN positions /\ lot \in Position
      /\ ReadBy(r, lot) /\ lot.positionID = p.positionID
      /\ toSell > 0 /\ units = UnitsSold(lot, toSell)
      /\ p = UpdateAmount(lot, lot.amount - units)
  BY VersionFindsRead
<1>2. IsEligible(lot) /\ Coerce(lot) = lot
  BY <1>1 DEF ReadBy
<1> HIDE DEF lot
<1>3. /\ units \in Nat /\ units <= lot.amount
      /\ p \in Position /\ SameLot(p, lot)
      /\ p.amount = lot.amount - units
      /\ p.rowVersion = lot.rowVersion + 1
      /\ ToScale(p.amount, AmountQuantum) = p.amount
      /\ ToScale(p.unitPrice, PriceQuantum) = p.unitPrice
      /\ 2 * GuardUnits * (Blocked(p) - p.totalValue)
           <= RoundingError(lot.unitPrice)
  BY <1>1, <1>2, SaleOfLot
<1>4. Storable(p) => Coerce(p) = p
  BY <1>3, CoerceExact
<1> QED
  BY <1>1, <1>3, <1>4 DEF lot

(* The write of one debited lot: the row is stored as it is in memory, and *)
(* until r ends nobody else writes it.                                     *)
LEMMA LotUpdate ==
    ASSUME TypeInv, LotInv, NEW r \in Request, UpdatePosition(r)
    PROVE  LotInv'
<1> DEFINE m == mem[r]
           w == m.written
           p == NextUpdate(r)
           id == p.positionID
           n == [m EXCEPT !.written = w + 1]
           rows == Put(pendingRows[r], id, Coerce(p))
           next == IF w + 1 = Len(m.held) THEN "createCommand" ELSE "update"
<1>1. pc[r] = "update" /\ req' = req
  BY DEF UpdatePosition
<1>2. LotsAt(r, "update", m, pendingRows[r], DOMAIN pendingCommands[r])
  BY <1>1 DEF LotInv, InvocationLots
<1>3. /\ IsWithdraw(r) /\ m \in Memory /\ w < Len(m.held) /\ w \in Nat
      /\ Len(m.held) \in Nat
  BY <1>1, MemoryType, LenProperties
  DEF TypeInv, ControlOK, ControlAt, InvocationTypeOK
<1>4. /\ Selling(r, m) /\ Written(m, pendingRows[r])
      /\ DOMAIN pendingCommands[r] = {}
  BY <1>2, <1>3 DEF LotsAt
<1>5. CASE (FailTx(r) \/ UNCHANGED db) /\ \E error \in ErrorKind : Abort(r, error)
  BY <1>1, <1>5, LotAbort, DatabaseLots
<1>6. CASE /\ VersionMatches(p) /\ Storable(p) /\ RowHolders(r, id) = {}
           /\ WriteRow(r, p) /\ Goto(r, next)
           /\ mem' = [mem EXCEPT ![r].written = @ + 1]
  <2>1. w + 1 \in 1..Len(m.held) /\ p = m.held[w + 1]
    BY <1>3 DEF NextUpdate
  <2>2. PICK toSell \in Int : SoldBy(r, p, m.sold[w + 1], toSell)
    BY <1>3, <1>4, <2>1, HeldLots
  <2>3. positions[id].rowVersion = p.rowVersion - 1
    BY <1>6 DEF VersionMatches
  <2>4. id \in DOMAIN positions /\ Coerce(p) = p
    BY <1>6, <2>2, <2>3, SaleOfStored
  <2>5. /\ n.held = m.held /\ n.eligible = m.eligible /\ n.written = w + 1
        /\ n.remaining = m.remaining /\ n.sold = m.sold
    BY <1>3 DEF Memory
  <2>6. mem' = [mem EXCEPT ![r] = n] /\ pc' = [pc EXCEPT ![r] = next]
    BY <1>6 DEF Goto
  <2>7. /\ positions' = positions /\ commands' = commands
        /\ pendingRows' = [pendingRows EXCEPT ![r] = rows]
        /\ pendingCommands' = [pendingCommands EXCEPT ![r] = pendingCommands[r]]
    BY <1>6 DEF WriteRow, TypeInv, DatabaseTypeOK
  <2> HIDE DEF n, p
  <2>8. Selling(r, n)
    BY <1>4, <2>5, SellingSame
  <2>9. /\ DOMAIN rows = DOMAIN pendingRows[r] \cup {id}
        /\ rows[id] = p
        /\ \A l \in DOMAIN pendingRows[r] \ {id} : rows[l] = pendingRows[r][l]
    BY <2>4 DEF Put
  <2> HIDE DEF rows
  <2>10. Written(n, rows)
    <3>1. DOMAIN pendingRows[r] = {m.held[i].positionID : i \in 1..w}
      BY <1>4 DEF Written
    <3>2. \A i \in 1..w + 1 : i \in 1..w \/ i = w + 1
      BY <1>3
    <3>3. DOMAIN rows = {m.held[i].positionID : i \in 1..w + 1}
      BY <1>3, <2>1, <2>9, <3>1, <3>2, SMTT(30)
    <3>4. ASSUME NEW i \in 1..w
          PROVE  /\ rows[m.held[i].positionID] = m.held[i]
                 /\ positions[m.held[i].positionID].rowVersion = m.held[i].rowVersion - 1
      <4>1. i \in 1..Len(m.held) /\ i # w + 1
        BY <1>3
      <4>2. m.held[i].positionID # id
        BY <1>3, <1>4, <2>1, <4>1, HeldLots
      <4> QED
        BY <1>4, <2>9, <3>1, <4>2 DEF Written
    <3>5. w + 1 <= Len(m.held)
      BY <2>1
    <3>6. \A i \in 1..w + 1 :
             /\ rows[m.held[i].positionID] = m.held[i]
             /\ positions[m.held[i].positionID].rowVersion = m.held[i].rowVersion - 1
      BY <2>1, <2>3, <2>9, <3>2, <3>4
    <3> QED
      BY <2>5, <3>3, <3>5, <3>6, SMTT(30) DEF Written
  <2>11. RowsFit(r, rows)
    <3>1. IsStored(id, p)
      BY <2>4 DEF IsStored
    <3>2. \A s \in Request \ {r} : id \notin DOMAIN pendingRows[s]
      BY <1>6 DEF RowHolders
    <3>3. RowsFit(r, pendingRows[r])
      BY PendingFit
    <3> QED
      BY <1>3, <2>4, <2>9, <3>1, <3>2, <3>3 DEF RowsFit, IsDeposit, IsWithdraw
  <2>12. next \in {"createCommand", "update"}
         /\ (next = "createCommand" => n.written = Len(n.held) /\ n.written > 0)
         /\ LoopEnds(n.eligible, n.remaining)
    BY <1>2, <1>3, <2>5 DEF LotsAt
  <2> HIDE DEF next
  <2>13. LotsAt(r, next, n, rows, DOMAIN pendingCommands[r])
    BY <1>3, <1>4, <2>8, <2>10, <2>12 DEF LotsAt, IsDeposit, IsWithdraw
  <2> QED
    BY <1>1, <2>6, <2>7, <2>11, <2>13, PendingFit, LotMove
<1> QED
  BY <1>5, <1>6 DEF UpdatePosition, ErrorKind

-----------------------------------------------------------------------------
(* The COMMIT. *)

(* Lot l is debited by the COMMIT of withdrawal s. *)
IsDebit(s, l) ==
    /\ IsWithdraw(s)
    /\ l \in DOMAIN pendingRows[s]
    /\ positions[l].client = req[s].client
    /\ SameLot(positions'[l], positions[l])
    /\ positions'[l].rowVersion = positions[l].rowVersion + 1
    /\ positions'[l].amount <= positions[l].amount
    /\ positions'[l].totalValue <= positions[l].totalValue
    /\ 2 * GuardUnits * (Blocked(positions'[l]) - positions'[l].totalValue)
         <= RoundingError(positions[l].unitPrice)

(* What a transaction about to commit has pending for the lots it sold     *)
(* from.                                                                   *)
LEMMA CommitHolds ==
    ASSUME TypeInv, LotInv, NEW s \in Request, pc[s] = "commit", IsWithdraw(s),
           NEW l \in DOMAIN pendingRows[s]
    PROVE  \E i \in 1..Len(mem[s].held), toSell \in Int :
              /\ l = mem[s].held[i].positionID
              /\ pendingRows[s][l] = mem[s].held[i]
              /\ SoldBy(s, mem[s].held[i], mem[s].sold[i], toSell)
              /\ positions[l].rowVersion = mem[s].held[i].rowVersion - 1
<1>1. LotsAt(s, "commit", mem[s], pendingRows[s], DOMAIN pendingCommands[s])
  BY DEF LotInv, InvocationLots
<1>2. /\ Selling(s, mem[s]) /\ Written(mem[s], pendingRows[s])
      /\ mem[s].written = Len(mem[s].held) /\ mem[s] \in Memory
  BY <1>1 DEF LotsAt, TypeInv, InvocationTypeOK
<1>3. PICK i \in 1..Len(mem[s].held) :
         /\ l = mem[s].held[i].positionID
         /\ pendingRows[s][l] = mem[s].held[i]
         /\ positions[l].rowVersion = mem[s].held[i].rowVersion - 1
  BY <1>2 DEF Written
<1> QED
  BY <1>2, <1>3, HeldLots

(* The COMMIT debits the lots that are pending and leaves the others; a    *)
(* deposit adds its own lot.                                               *)
LEMMA CommitEffect ==
    ASSUME TypeInv, LotInv, NEW s \in Request, pc[s] = "commit", CommitTx(s)
    PROVE  /\ DOMAIN positions \subseteq DOMAIN positions'
           /\ DOMAIN positions' = DOMAIN positions \cup DOMAIN pendingRows[s]
           /\ IsWithdraw(s) => DOMAIN positions' = DOMAIN positions
           /\ IsDeposit(s) => DOMAIN pendingRows[s] = {s} /\ s \notin DOMAIN positions
           /\ \A l \in DOMAIN positions :
                 positions'[l] = positions[l] \/ IsDebit(s, l)
           /\ \A l \in DOMAIN pendingRows[s] : positions'[l] = pendingRows[s][l]
           /\ \A l \in DOMAIN positions \ DOMAIN pendingRows[s] :
                 positions'[l] = positions[l]
<1>1. /\ DOMAIN positions' = DOMAIN positions \cup DOMAIN pendingRows[s]
      /\ \A l \in DOMAIN pendingRows[s] : positions'[l] = pendingRows[s][l]
      /\ \A l \in DOMAIN positions \ DOMAIN pendingRows[s] :
            positions'[l] = positions[l]
  BY DEF CommitTx, PutAll
<1>2. CASE IsDeposit(s)
  <2>1. LotsAt(s, "commit", mem[s], pendingRows[s], DOMAIN pendingCommands[s])
    BY DEF LotInv, InvocationLots
  <2>2. DOMAIN pendingRows[s] = {s} /\ s \notin DOMAIN positions
    BY <1>2, <2>1 DEF LotsAt, LotInv, LotIsNew
  <2>3. ~ IsWithdraw(s)
    BY <1>2, OneUseCase DEF TypeInv
  <2> QED
    BY <1>1, <2>2, <2>3
<1>3. CASE IsWithdraw(s)
  <2>1. DOMAIN pendingRows[s] \subseteq DOMAIN positions
    BY <1>3 DEF LotInv, PendingRowsOK
  <2>2. ASSUME NEW l \in DOMAIN pendingRows[s]
        PROVE  IsDebit(s, l)
    <3>1. PICK i \in 1..Len(mem[s].held), toSell \in Int :
             /\ l = mem[s].held[i].positionID
             /\ pendingRows[s][l] = mem[s].held[i]
             /\ SoldBy(s, mem[s].held[i], mem[s].sold[i], toSell)
             /\ positions[l].rowVersion = mem[s].held[i].rowVersion - 1
      BY <1>3, CommitHolds
    <3> DEFINE p == mem[s].held[i]
               lot == positions[l]
               units == mem[s].sold[i]
    <3>2. /\ ReadBy(s, lot) /\ lot \in Position
          /\ units \in Nat /\ units <= lot.amount
          /\ p \in Position /\ SameLot(p, lot)
          /\ p.amount = lot.amount - units
          /\ p.rowVersion = lot.rowVersion + 1
          /\ 2 * GuardUnits * (Blocked(p) - p.totalValue)
               <= RoundingError(lot.unitPrice)
      BY <3>1, SaleOfStored, SMTT(30)
    <3>3. positions'[l] = p
      BY <1>1, <3>1
    <3>4. lot.client = req[s].client
      BY <3>2 DEF ReadBy
    <3>5. p.amount <= lot.amount /\ p.totalValue <= lot.totalValue
      <4> HIDE DEF p, lot, units
      <4>1. /\ lot.amount \in Nat /\ lot.unitPrice \in Nat
            /\ lot.totalValue = lot.amount * lot.unitPrice
            /\ p.totalValue = p.amount * lot.unitPrice
        BY <3>2 DEF Position, PositionRecord, SameLot
      <4>2. PICK e \in Nat : e = units
        BY <3>2
      <4>3. PICK a \in Nat : a = p.amount
        BY <3>2, <4>1
      <4>4. lot.amount = a + e
        BY <3>2, <4>1, <4>2, <4>3
      <4>5. e * lot.unitPrice \in Nat
        BY <4>1
      <4>6. (a + e) * lot.unitPrice = a * lot.unitPrice + e * lot.unitPrice
        BY <4>1
      <4>7. a * lot.unitPrice \in Nat
        BY <4>1
      <4>8. p.totalValue = a * lot.unitPrice
        BY <4>1, <4>3
      <4>9. lot.totalValue = a * lot.unitPrice + e * lot.unitPrice
        BY <4>1, <4>4, <4>6
      <4> QED
        BY <4>2, <4>3, <4>4, <4>5, <4>7, <4>8, <4>9
    <3>6. /\ lot = positions[l] /\ SameLot(p, lot) /\ p.rowVersion = lot.rowVersion + 1
          /\ 2 * GuardUnits * (Blocked(p) - p.totalValue)
               <= RoundingError(lot.unitPrice)
      BY <3>2
    <3> HIDE DEF p, lot
    <3> QED
      BY <1>3, <3>3, <3>4, <3>5, <3>6 DEF IsDebit
  <2>3. ~ IsDeposit(s)
    BY <1>3, OneUseCase DEF TypeInv
  <2> QED
    BY <1>1, <1>3, <2>1, <2>2, <2>3
<1> QED
  BY <1>2, <1>3, OneUseCase DEF TypeInv

(* The COMMIT records the command of its request, for its client. *)
LEMMA CommitRecords ==
    ASSUME TypeInv, IdempotencyInv, LotInv,
           NEW s \in Request, pc[s] = "commit", CommitTx(s)
    PROVE  /\ KeyOf(s) \notin DOMAIN commands
           /\ DOMAIN commands' = DOMAIN commands \cup {KeyOf(s)}
           /\ commands'[KeyOf(s)].commandID = s
           /\ commands'[KeyOf(s)].client = req[s].client
           /\ commands'[KeyOf(s)].responseSnapshot = ToResponse(mem[s].held)
           /\ \A k \in DOMAIN commands : commands'[k] = commands[k]
<1>1. /\ DOMAIN pendingCommands[s] = {KeyOf(s)}
      /\ KeyOf(s) \notin DOMAIN commands
      /\ pendingCommands[s][KeyOf(s)].commandID = s
      /\ pendingCommands[s][KeyOf(s)].responseSnapshot = ToResponse(mem[s].held)
  BY DEF IdempotencyInv, PendingIsNew, CommitHasCommand
<1>2. pendingCommands[s][KeyOf(s)].client = req[s].client
  BY <1>1 DEF LotInv, PendingClient
<1>3. /\ DOMAIN commands' = DOMAIN commands \cup {KeyOf(s)}
      /\ commands'[KeyOf(s)] = pendingCommands[s][KeyOf(s)]
      /\ \A k \in DOMAIN commands : commands'[k] = commands[k]
  BY <1>1 DEF CommitTx, PutAll
<1> QED
  BY <1>1, <1>2, <1>3

(* Being overtaken is for ever. *)
LEMMA OvertakenStays ==
    ASSUME req' = req, NEW r, NEW l, Overtaken(r, l),
           \A k \in DOMAIN commands : k \in DOMAIN commands' /\ commands'[k] = commands[k]
    PROVE  Overtaken(r, l)'
BY DEF Overtaken

(* Whoever read a lot that is debited has been overtaken. *)
LEMMA CommitKeepsRead ==
    ASSUME TypeInv, IdempotencyInv, LotInv, NEW s \in Request, pc[s] = "commit",
           CommitTx(s), req' = req, NEW r \in Request, r # s,
           NEW lot \in Position, ReadBy(r, lot)
    PROVE  ReadBy(r, lot)'
<1> DEFINE id == lot.positionID
<1>1. /\ id \in DOMAIN positions /\ lot.client = req[r].client
      /\ Assets[lot.asset].instrument = req[r].instrument
      /\ IsEligible(lot) /\ Coerce(lot) = lot
      /\ SameLot(positions[id], lot)
      /\ \/ positions[id] = lot
         \/ positions[id].rowVersion > lot.rowVersion /\ Overtaken(r, id)
  BY DEF ReadBy
<1>2. id \in DOMAIN positions' /\ (positions'[id] = positions[id] \/ IsDebit(s, id))
  BY <1>1, CommitEffect
<1>3. Overtaken(r, id) => Overtaken(r, id)'
  <2>1. \A k \in DOMAIN commands : k \in DOMAIN commands' /\ commands'[k] = commands[k]
    BY CommitRecords
  <2> HIDE DEF id
  <2> QED
    BY <2>1, OvertakenStays
<1>4. IsDebit(s, id) => Overtaken(r, id)'
  <2> SUFFICES ASSUME IsDebit(s, id) PROVE Overtaken(r, id)'
    OBVIOUS
  <2> DEFINE k == KeyOf(s)
             held == mem[s].held
  <2>1. req[s].client = req[r].client /\ k[1] = "WITHDRAW"
    BY <1>1 DEF IsDebit, SameLot, KeyOf, IsWithdraw
  <2>2. /\ k \in DOMAIN commands' /\ commands'[k].commandID # r
        /\ commands'[k].client = req'[r].client
        /\ commands'[k].responseSnapshot = ToResponse(held)
    BY <2>1, CommitRecords
  <2>3. PICK i \in 1..Len(held), toSell \in Int :
           id = held[i].positionID /\ SoldBy(s, held[i], mem[s].sold[i], toSell)
    BY CommitHolds DEF IsDebit
  <2>4. held \in Seq(Position)
    BY DEF TypeInv, InvocationTypeOK, Memory
  <2>5. PICK q \in Position : ReadBy(s, q) /\ held[i] = UpdateAmount(q, q.amount - mem[s].sold[i])
    BY <2>3 DEF SoldBy
  <2>6. held[i].positionID = q.positionID /\ held[i].asset = q.asset
    BY <2>5 DEF UpdateAmount, Position, PositionRecord
  <2>7. held[i].asset = lot.asset
    BY <1>1, <2>3, <2>5, <2>6 DEF ReadBy, SameLot
  <2> DEFINE body == ToResponse(held)
  <2>8. /\ i \in DOMAIN body
        /\ body[i].positionID = id
        /\ Assets[body[i].asset].instrument = req'[r].instrument
    <3>1. i \in DOMAIN held /\ held[i].positionID = id
          /\ Assets[held[i].asset].instrument = req'[r].instrument
      BY <1>1, <2>3, <2>4, <2>7
    <3> HIDE DEF held, id
    <3>2. DOMAIN body = DOMAIN held /\ body[i] = ToDTO(held[i])
      BY <3>1 DEF ToResponse
    <3> HIDE DEF body
    <3> QED
      BY <3>1, <3>2 DEF ToDTO
  <2> HIDE DEF id, k, held, body
  <2>9. /\ commands'[k].responseSnapshot = body
        /\ k \in DOMAIN commands' /\ k[1] = "WITHDRAW"
        /\ commands'[k].commandID # r
        /\ commands'[k].client = req'[r].client
    BY <2>1, <2>2 DEF body
  <2> QED
    BY <2>8, <2>9 DEF Overtaken
<1>5. positions[id] \in Position /\ lot.rowVersion \in Nat
      /\ positions[id].rowVersion \in Nat
  BY <1>1 DEF TypeInv, DatabaseTypeOK, IsTable, Position, PositionRecord
<1>6. CASE positions'[id] = positions[id]
  BY <1>1, <1>2, <1>3, <1>6 DEF ReadBy, SameLot
<1>7. CASE IsDebit(s, id)
  <2>1. SameLot(positions'[id], lot) /\ positions'[id].rowVersion > lot.rowVersion
    BY <1>1, <1>5, <1>7 DEF IsDebit, SameLot
  <2> QED
    BY <1>1, <1>2, <1>4, <1>7, <2>1 DEF ReadBy
<1> QED
  BY <1>2, <1>6, <1>7

(* What another invocation knows about its sales survives the COMMIT. *)
LEMMA SellingCommit ==
    ASSUME TypeInv, IdempotencyInv, LotInv, NEW s \in Request, pc[s] = "commit",
           CommitTx(s), req' = req, NEW r \in Request, r # s,
           NEW m \in Memory, Selling(r, m)
    PROVE  Selling(r, m)'
<1>1. PICK toSell \in [1..Len(m.held) + 1 -> Int] : IsLoop(r, m, toSell)
  BY DEF Selling
<1>2. ASSUME NEW p, NEW units, NEW left, SoldBy(r, p, units, left)
      PROVE  SoldBy(r, p, units, left)'
  <2>1. PICK lot \in Position :
           /\ ReadBy(r, lot) /\ units = UnitsSold(lot, left)
           /\ p = UpdateAmount(lot, lot.amount - units)
    BY <1>2 DEF SoldBy
  <2>2. ReadBy(r, lot)'
    BY <2>1, CommitKeepsRead
  <2> QED
    BY <1>2, <2>1, <2>2 DEF SoldBy
<1>3. IsLoop(r, m, toSell)'
  BY <1>1, <1>2 DEF IsLoop
<1>4. \A i \in 1..Len(m.eligible) : ReadBy(r, m.eligible[i])'
  <2> SUFFICES ASSUME NEW i \in 1..Len(m.eligible)
               PROVE  ReadBy(r, m.eligible[i])'
    OBVIOUS
  <2>1. m.eligible[i] \in Position
    BY ElementOfSeq DEF Memory
  <2>2. ReadBy(r, m.eligible[i])
    BY DEF Selling
  <2> QED
    BY <2>1, <2>2, CommitKeepsRead
<1>5. InOrder(m)'
  BY DEF Selling, InOrder
<1> QED
  BY <1>3, <1>4, <1>5 DEF Selling

(* What another withdrawal has pending, the COMMIT does not touch. *)
LEMMA WrittenCommit ==
    ASSUME TypeInv, LotInv, NEW s \in Request, pc[s] = "commit", CommitTx(s),
           NEW r \in Request, r # s, IsWithdraw(r),
           NEW m, Written(m, pendingRows[r])
    PROVE  \A i \in 1..m.written :
              positions'[m.held[i].positionID].rowVersion = m.held[i].rowVersion - 1
<1> SUFFICES ASSUME NEW i \in 1..m.written
             PROVE  positions'[m.held[i].positionID].rowVersion = m.held[i].rowVersion - 1
  OBVIOUS
<1> DEFINE l == m.held[i].positionID
<1>1. l \in DOMAIN pendingRows[r] /\ positions[l].rowVersion = m.held[i].rowVersion - 1
  BY DEF Written
<1>2. l \in DOMAIN positions /\ l \notin DOMAIN pendingRows[s]
  BY <1>1 DEF LotInv, PendingRowsOK, RowsExclusive
<1>3. positions'[l] = positions[l]
  BY <1>2, CommitEffect
<1> QED
  BY <1>1, <1>3

(* What an invocation knows at its label survives another one's COMMIT. *)
LEMMA LotsAtCommit ==
    ASSUME TypeInv, IdempotencyInv, LotInv, NEW s \in Request, pc[s] = "commit",
           CommitTx(s), req' = req, NEW r \in Request, r # s,
           NEW label, NEW m \in Memory, NEW rows, rows = pendingRows[r], NEW keys,
           LotsAt(r, label, m, rows, keys)
    PROVE  LotsAt(r, label, m, rows, keys)'
<1>1. (IsDeposit(r)' <=> IsDeposit(r)) /\ (IsWithdraw(r)' <=> IsWithdraw(r))
  BY DEF IsDeposit, IsWithdraw
<1>2. IsNewLot(r, m.held[1]) => IsNewLot(r, m.held[1])'
  BY DEF IsNewLot
<1>3. Selling(r, m) => Selling(r, m)'
  BY SellingCommit
<1>4. IsWithdraw(r) /\ Written(m, rows) => Written(m, rows)'
  BY WrittenCommit, SMTT(30) DEF Written
<1> QED
  BY <1>1, <1>2, <1>3, <1>4 DEF LotsAt

(* The COMMIT of s, whatever its invocation hears of it. *)
LEMMA LotCommit ==
    ASSUME TypeInv, IdempotencyInv, LotInv, NEW s \in Request, pc[s] = "commit",
           CommitTx(s), req' = req, NEW label \in {"done", "crashed"},
           pc' = [pc EXCEPT ![s] = label], mem' = [mem EXCEPT ![s] = NoMemory]
    PROVE  LotInv'
<1>1. \A r \in Request \ {s} :
         /\ pc'[r] = pc[r] /\ mem'[r] = mem[r]
         /\ pendingRows'[r] = pendingRows[r]
         /\ pendingCommands'[r] = pendingCommands[r]
  BY DEF TypeInv, InvocationTypeOK, DatabaseTypeOK, CommitTx, EndTx
<1>2. /\ pc'[s] = label
      /\ DOMAIN pendingRows'[s] = {} /\ DOMAIN pendingCommands'[s] = {}
  BY EmptyTableType DEF TypeInv, InvocationTypeOK, DatabaseTypeOK, CommitTx, EndTx
<1>3. RowsStored'
  <2> SUFFICES ASSUME NEW l \in DOMAIN positions'
               PROVE  IsStored(l, positions'[l])
    BY DEF RowsStored, IsStored
  <2>1. CASE l \in DOMAIN pendingRows[s]
    BY <2>1, CommitEffect DEF LotInv, PendingRowsOK
  <2>2. CASE l \notin DOMAIN pendingRows[s]
    <3>1. l \in DOMAIN positions /\ positions'[l] = positions[l]
      BY <2>2, CommitEffect, ZenonT(30)
    <3> QED
      BY <3>1 DEF LotInv, RowsStored
  <2> QED
    BY <2>1, <2>2
<1>4. PendingRowsOK'
  <2> SUFFICES ASSUME NEW r \in Request, NEW l \in DOMAIN pendingRows'[r]
               PROVE  /\ IsStored(l, pendingRows'[r][l])
                      /\ IsDeposit(r) => l = r
                      /\ IsWithdraw(r) => l \in DOMAIN positions'
    BY DEF PendingRowsOK, IsStored, IsDeposit, IsWithdraw
  <2>1. r # s
    BY <1>2
  <2> QED
    BY <1>1, <2>1, CommitEffect DEF LotInv, PendingRowsOK
<1>5. RowsExclusive'
  BY <1>1, <1>2 DEF LotInv, RowsExclusive
<1>6. LotIsNew'
  <2> SUFFICES ASSUME NEW r \in Request, pc'[r] \notin {"done", "crashed"}
               PROVE  r \notin DOMAIN positions'
    BY DEF LotIsNew
  <2>1. r # s /\ pc[r] \notin {"done", "crashed"}
    BY <1>1, <1>2
  <2>2. r \notin DOMAIN positions
    BY <2>1 DEF LotInv, LotIsNew
  <2>3. /\ DOMAIN positions' = DOMAIN positions \cup DOMAIN pendingRows[s]
        /\ IsWithdraw(s) => DOMAIN positions' = DOMAIN positions
        /\ IsDeposit(s) => DOMAIN pendingRows[s] = {s}
    BY CommitEffect
  <2> QED
    BY <2>1, <2>2, <2>3, OneUseCase DEF TypeInv
<1>7. PendingClient'
  BY <1>1, <1>2 DEF LotInv, PendingClient
<1>8. ASSUME NEW r \in Request
      PROVE  LotsAt(r, pc[r], mem[r], pendingRows[r], DOMAIN pendingCommands[r])'
  <2>1. CASE r = s
    BY <1>2, <2>1 DEF LotsAt
  <2>2. CASE r # s
    <3>1. /\ LotsAt(r, pc[r], mem[r], pendingRows[r], DOMAIN pendingCommands[r])
          /\ mem[r] \in Memory
      BY DEF LotInv, InvocationLots, TypeInv, InvocationTypeOK
    <3> QED
      BY <1>1, <2>2, <3>1, LotsAtCommit
  <2> QED
    BY <2>1, <2>2
<1> QED
  BY <1>3, <1>4, <1>5, <1>6, <1>7, <1>8 DEF LotInv, InvocationLots

-----------------------------------------------------------------------------
(* Every step of the wallet. *)

(* The end of the transaction as the invocation sees it. *)
LEMMA LotTxEnd ==
    ASSUME TypeInv, IdempotencyInv, LotInv, NEW r \in Request, NEW status,
           Commit(r, status) \/ Rollback(r, status)
    PROVE  LotInv'
<1>1. CASE Commit(r, status)
  BY <1>1, LotCommit DEF Commit, Answer
<1>2. CASE Rollback(r, status)
  <2>1. pc[r] = "rollback" /\ TablesKept /\ (RowsKept \/ RowsDropped(r))
    BY <1>2, DatabaseLots DEF Rollback
  <2>2. CASE Goto(r, "replay") /\ mem' = mem
    <3>1. mem' = [mem EXCEPT ![r] = mem[r]]
      BY <2>2 DEF TypeInv, InvocationTypeOK
    <3> QED
      BY <2>1, <2>2, <3>1, LotEnd DEF Goto
  <2>3. CASE Answer(r, status, err[r], <<>>)
    BY <2>1, <2>3, LotAnswer
  <2> QED
    BY <1>2, <2>2, <2>3 DEF Rollback
<1> QED
  BY <1>1, <1>2

(* Failures: of a statement, of the COMMIT, of the process. *)
LEMMA LotFailure ==
    ASSUME TypeInv, IdempotencyInv, LotInv, NEW r \in Request,
           StatementFails(r) \/ CommitFails(r) \/ Crash(r)
    PROVE  LotInv'
<1>1. req' = req /\ pc[r] \notin {"done", "crashed"}
  BY DEF StatementFails, CommitFails, Crash
<1>2. CASE FailTx(r) \/ UNCHANGED db
  <2>1. TablesKept /\ (RowsKept \/ RowsDropped(r))
    BY <1>1, <1>2, DatabaseLots
  <2>2. CASE \E status \in {409, 500} : Answer(r, status, "other", <<>>)
    BY <1>1, <2>1, <2>2, LotAnswer
  <2>3. CASE Abort(r, "other")
    BY <1>1, <2>1, <2>3, LotAbort
  <2>4. CASE Crash(r)
    BY <1>1, <2>1, <2>4, LotEnd DEF Crash
  <2> QED
    BY <2>2, <2>3, <2>4 DEF StatementFails, CommitFails
<1>3. CASE pc[r] = "commit" /\ CommitTx(r) /\ (CommitFails(r) \/ Crash(r))
  BY <1>1, <1>3, LotCommit DEF CommitFails, Crash, Answer
<1> QED
  BY <1>2, <1>3 DEF StatementFails, CommitFails, Crash

(* The server: it drops a dead transaction or breaks a wait cycle. *)
LEMMA LotServer ==
    ASSUME TypeInv, LotInv, NEW r \in Request, Reap(r) \/ DeadlockVictim(r)
    PROVE  LotInv'
<1>1. CASE Reap(r)
  <2>1. TablesKept /\ RowsDropped(r) /\ pc[r] \notin InTransaction
    BY <1>1, DatabaseLots DEF Reap, invocation
  <2>2. pc' = [pc EXCEPT ![r] = pc[r]] /\ mem' = [mem EXCEPT ![r] = mem[r]]
    BY <1>1 DEF Reap, invocation, TypeInv, InvocationTypeOK
  <2>3. DOMAIN pendingRows'[r] = {} /\ DOMAIN pendingCommands'[r] = {}
    BY <2>1, EmptyTableType DEF RowsDropped, TypeInv, DatabaseTypeOK
  <2>4. LotsAt(r, pc[r], mem[r], pendingRows[r], DOMAIN pendingCommands[r])
    BY DEF LotInv, InvocationLots
  <2>5. LotsAt(r, pc[r], mem[r], pendingRows'[r], DOMAIN pendingCommands'[r])
    BY <2>1, <2>3, <2>4 DEF LotsAt, InTransaction
  <2> QED
    BY <2>1, <2>2, <2>5, LotStay
<1>2. CASE DeadlockVictim(r)
  <2>1. TablesKept /\ RowsDropped(r) /\ Abort(r, "other")
    BY <1>2, DatabaseLots DEF DeadlockVictim
  <2>2. pc[r] \in {"update", "createCommand"}
    <3>1. PICK S \in SUBSET Request : r \in S /\ IsWaitCycle(S)
      BY <1>2 DEF DeadlockVictim
    <3>2. Blockers(r) # {}
      BY <3>1 DEF IsWaitCycle
    <3> QED
      BY <3>2 DEF Blockers
  <2> QED
    BY <2>1, <2>2, LotAbort
<1> QED
  BY <1>1, <1>2

(* One step of either use case. *)
LEMMA LotStep ==
    ASSUME TypeInv, IdempotencyInv, LotInv, NEW r \in Request, Step(r)
    PROVE  LotInv'
<1>1. CASE IsDeposit(r) /\ DepositStep(r)
  BY <1>1, LotReads, LotFindAsset, LotBegin, LotCreatePosition, LotCreateCommand,
     LotTxEnd
  DEF DepositStep
<1>2. CASE IsWithdraw(r) /\ WithdrawStep(r)
  BY <1>2, LotReads, LotFindClient, LotBegin, LotFindLots, LotSell, LotUpdate,
     LotCreateCommand, LotTxEnd
  DEF WithdrawStep
<1> QED
  BY <1>1, <1>2 DEF Step

(* It holds before the first request. *)
LEMMA LotInit == Init => LotInv
<1> SUFFICES ASSUME Init PROVE LotInv
  OBVIOUS
<1>1. /\ positions \in SeedTables
      /\ \A r \in Request : pc[r] = "idle" /\ pendingRows[r] = EmptyTable
                            /\ pendingCommands[r] = EmptyTable
  BY DEF Init, InvocationInit
<1>2. DOMAIN EmptyTable = {}
  BY EmptyTableType
<1>3. RowsStored
  BY <1>1, SeedAssumption DEF RowsStored
<1>4. LotIsNew
  BY <1>1, SeedAssumption, LotAssumption DEF LotIsNew, IsTable
<1>5. PendingRowsOK /\ RowsExclusive /\ PendingClient
  BY <1>1, <1>2 DEF PendingRowsOK, RowsExclusive, PendingClient
<1>6. InvocationLots
  BY <1>1, <1>2 DEF InvocationLots, LotsAt
<1> QED
  BY <1>3, <1>4, <1>5, <1>6 DEF LotInv

(* Every step of the wallet preserves the invariant. *)
LEMMA LotNext ==
    TypeInv /\ IdempotencyInv /\ LotInv /\ [Next]_vars => LotInv'
<1> SUFFICES ASSUME TypeInv, IdempotencyInv, LotInv, [Next]_vars PROVE LotInv'
  OBVIOUS
<1>1. CASE UNCHANGED vars
  <2>1. ASSUME NEW r \in Request
        PROVE  LotsAt(r, pc[r], mem[r], pendingRows[r], DOMAIN pendingCommands[r])'
    <3>1. LotsAt(r, pc[r], mem[r], pendingRows[r], DOMAIN pendingCommands[r])
      BY DEF LotInv, InvocationLots
    <3> QED
      BY <1>1, <3>1, LotsAtSame DEF vars
  <2> QED
    BY <1>1, <2>1
    DEF vars, LotInv, RowsStored, PendingRowsOK, RowsExclusive, LotIsNew,
        PendingClient, InvocationLots, IsStored, IsDeposit, IsWithdraw
<1>2. CASE Next
  BY <1>1, <1>2, LotReads, LotStep, LotFailure, LotServer DEF Next, Quiescent
<1> QED
  BY <1>1, <1>2

(* The wallet's invariant: types and control, the record of commands, and  *)
(* what invocations know of lots.                                          *)
WalletInv == TypeInv /\ IdempotencyInv /\ LotInv

(* WalletInv holds throughout. *)
LEMMA WalletInvariant == Spec => []WalletInv
<1>1. Init => WalletInv
  BY InitOK, IdempotencyInit, LotInit DEF WalletInv
<1>2. WalletInv /\ [Next]_vars => WalletInv'
  BY NextOK, IdempotencyNext, LotNext DEF WalletInv
<1> QED
  BY <1>1, <1>2, PTL DEF Spec

-----------------------------------------------------------------------------
(* What follows. *)

(* A withdrawal that has begun to write: what it holds in memory, by lot.  *)
LEMMA WritingLots ==
    ASSUME WalletInv, NEW r \in Request, IsWithdraw(r),
           pc[r] \in {"update", "createCommand", "commit"}
    PROVE  /\ mem[r] \in Memory /\ Len(mem[r].held) \in Nat
           /\ mem[r].written \in 0..Len(mem[r].held)
           /\ Selling(r, mem[r]) /\ Written(mem[r], pendingRows[r])
<1>1. LotsAt(r, pc[r], mem[r], pendingRows[r], DOMAIN pendingCommands[r])
  BY DEF WalletInv, LotInv, InvocationLots
<1>2. Selling(r, mem[r]) /\ Written(mem[r], pendingRows[r])
  BY <1>1 DEF LotsAt
<1>3. mem[r] \in Memory /\ mem[r].written \in Nat /\ Len(mem[r].held) \in Nat
  BY MemoryType, LenProperties DEF WalletInv, TypeInv, InvocationTypeOK
<1> QED
  BY <1>2, <1>3 DEF Written

(***************************************************************************)
(* No lost update: what a withdrawal is about to commit is the committed   *)
(* row less what it sold, although it read the row without a lock and any  *)
(* number of others read and wrote in between.  VersionMatches is the only *)
(* check; it suffices because versions only grow and a row at the version  *)
(* read is the row that was read.                                          *)
(***************************************************************************)
THEOREM NoUpdateIsLost == Spec => []NoLostUpdate
<1>1. WalletInv => NoLostUpdate
  <2> SUFFICES ASSUME WalletInv, NEW r \in Request, IsWithdraw(r),
                      pc[r] \in {"update", "createCommand", "commit"},
                      NEW i \in 1..mem[r].written
               PROVE  LET l == mem[r].held[i].positionID
                      IN  /\ l \in DOMAIN pendingRows[r] \cap DOMAIN positions
                          /\ pendingRows[r][l].amount
                               = positions[l].amount - mem[r].sold[i]
                          /\ pendingRows[r][l].rowVersion = positions[l].rowVersion + 1
    BY DEF NoLostUpdate
  <2> DEFINE p == mem[r].held[i]
             l == p.positionID
  <2>1. /\ mem[r] \in Memory /\ i \in 1..Len(mem[r].held)
        /\ Selling(r, mem[r]) /\ Written(mem[r], pendingRows[r])
    BY WritingLots
  <2>2. /\ l \in DOMAIN pendingRows[r] /\ pendingRows[r][l] = p
        /\ positions[l].rowVersion = p.rowVersion - 1
    BY <2>1 DEF Written
  <2>3. PICK toSell \in Int : SoldBy(r, p, mem[r].sold[i], toSell)
    BY <2>1, HeldLots DEF WalletInv
  <2>4. /\ l \in DOMAIN positions
        /\ p.amount = positions[l].amount - mem[r].sold[i]
        /\ p.rowVersion = positions[l].rowVersion + 1
    BY <2>2, <2>3, SaleOfStored, SMTT(30) DEF WalletInv
  <2> QED
    BY <2>2, <2>4
<1> QED
  BY <1>1, WalletInvariant, PTL

(***************************************************************************)
(* A sale fits its lot: whenever the loop comes to a lot, the division by  *)
(* its price is defined and the rounded quotient is at most its amount, so *)
(* the error path of UpdateAmount is dead code in the loop.  It rests on   *)
(* the lot being at column scale: rounding up cannot pass an amount that   *)
(* is a multiple of the quantum.                                           *)
(***************************************************************************)
THEOREM SalesFitLots == Spec => []SaleFitsLot
<1>1. WalletInv => SaleFitsLot
  <2> SUFFICES ASSUME WalletInv, NEW r \in Request, pc[r] = "sell"
               PROVE  LET lot == Head(mem[r].eligible)
                      IN  /\ lot.unitPrice > 0
                          /\ UnitsSold(lot, mem[r].remaining) <= lot.amount
    BY DEF SaleFitsLot
  <2> DEFINE m == mem[r]
             lot == Head(m.eligible)
  <2>1. LotsAt(r, "sell", m, pendingRows[r], DOMAIN pendingCommands[r])
    BY DEF WalletInv, LotInv, InvocationLots
  <2>2. IsWithdraw(r) /\ m.eligible \in Seq(Position) /\ m.remaining \in Int
    BY MemoryType DEF WalletInv, TypeInv, ControlOK, ControlAt, InvocationTypeOK
  <2>3. Selling(r, m) /\ m.eligible # <<>> /\ m.remaining > 0
    BY <2>1, <2>2 DEF LotsAt, LoopEnds
  <2>4. lot = m.eligible[1] /\ lot \in Position /\ 1 \in 1..Len(m.eligible)
    BY <2>2, <2>3
  <2>5. ReadBy(r, lot)
    BY <2>3, <2>4 DEF Selling
  <2>6. IsEligible(lot) /\ Coerce(lot) = lot
    BY <2>5 DEF ReadBy
  <2> HIDE DEF lot, m
  <2>7. lot.unitPrice > 0
    BY <2>4, <2>6, EligiblePrice
  <2>8. UnitsSold(lot, m.remaining) <= lot.amount
    BY <2>2, <2>3, <2>4, <2>6, SaleOfLot
  <2> QED
    BY <2>7, <2>8 DEF lot, m
<1> QED
  BY <1>1, WalletInvariant, PTL

(* Only a COMMIT changes the tables, and no step changes a request. *)
LEMMA OnlyCommits ==
    ASSUME [Next]_vars
    PROVE  /\ req' = req
           /\ \/ positions' = positions /\ commands' = commands
              \/ \E s \in Request : pc[s] = "commit" /\ CommitTx(s)
<1>1. CASE UNCHANGED vars
  BY <1>1 DEF vars
<1>2. ASSUME NEW r \in Request,
             \/ ReceiveRequest(r) \/ Step(r) \/ StatementFails(r)
             \/ CommitFails(r) \/ Crash(r) \/ Reap(r) \/ DeadlockVictim(r)
      PROVE  /\ req' = req
             /\ \/ positions' = positions /\ commands' = commands
                \/ pc[r] = "commit" /\ CommitTx(r)
  <2>1. UNCHANGED db => positions' = positions /\ commands' = commands
    BY DEF db
  <2>2. CASE Step(r)
    <3>1. CASE DepositStep(r)
      BY <2>1, <3>1
      DEF DepositStep, FindByTypeAndOrderID, FindClientByID, FindAssetByID, Begin,
          BeginTx, CreatePosition, CreateProcessedCommand, Commit, Rollback,
          RollbackTx, ReplayAfterRace, FailTx, WriteRow, WriteCommand
    <3>2. CASE WithdrawStep(r)
      BY <2>1, <3>2
      DEF WithdrawStep, FindByTypeAndOrderID, FindClientByID, Begin, BeginTx,
          FindByClientAndInstrument, SellFromLot, UpdatePosition,
          CreateProcessedCommand, Commit, Rollback, RollbackTx, ReplayAfterRace,
          FailTx, WriteRow, WriteCommand
    <3> QED
      BY <2>2, <3>1, <3>2 DEF Step
  <2>3. CASE ~ Step(r)
    BY <1>2, <2>1, <2>3
    DEF ReceiveRequest, DepositReceive, WithdrawReceive, Receive, StatementFails,
        CommitFails, Crash, Reap, DeadlockVictim, RollbackTx, FailTx, invocation
  <2> QED
    BY <2>2, <2>3
<1> QED
  BY <1>1, <1>2 DEF Next, Quiescent

(* Nobody else moves when r does. *)
OnlyMoves(r) ==
    \A s \in Request \ {r} : pc'[s] = pc[s] /\ err'[s] = err[s] /\ mem'[s] = mem[s]

(***************************************************************************)
(* Collateral: a step that changes the amount of a stored lot leaves it    *)
(* worth what is blocked on it, up to the rounding of one sale, whatever   *)
(* withdrawals race: two sales from one lot never add up, since the later  *)
(* one was computed from the row the earlier one left.                     *)
(***************************************************************************)
THEOREM SalesKeepCollateral == Spec => SaleKeepsCollateral
<1>1. WalletInv /\ [Next]_vars =>
        \A l \in DOMAIN positions :
          positions'[l].amount # positions[l].amount =>
            2 * GuardUnits * (Blocked(positions'[l]) - positions'[l].totalValue)
              <= RoundingError(positions[l].unitPrice)
  <2> SUFFICES ASSUME WalletInv, [Next]_vars, NEW l \in DOMAIN positions,
                      positions'[l].amount # positions[l].amount
               PROVE  2 * GuardUnits * (Blocked(positions'[l]) - positions'[l].totalValue)
                        <= RoundingError(positions[l].unitPrice)
    OBVIOUS
  <2>1. PICK s \in Request : pc[s] = "commit" /\ CommitTx(s)
    BY OnlyCommits
  <2>2. positions'[l] = positions[l] \/ IsDebit(s, l)
    BY <2>1, CommitEffect DEF WalletInv
  <2> QED
    BY <2>2 DEF IsDebit
<1> QED
  BY <1>1, WalletInvariant, PTL DEF Spec, SaleKeepsCollateral

-----------------------------------------------------------------------------
(* Waiting. *)

(* No two stored lots were bought at the same time. *)
DistinctTimes ==
    \A k, l \in DOMAIN positions :
        k # l => positions[k].purchasedAt # positions[l].purchasedAt

(* Every nonempty set of naturals has a least member. *)
LEMMA LeastNatural ==
    ASSUME NEW T, T \subseteq Nat, T # {}
    PROVE  \E n \in T : \A k \in T : n <= k
<1> DEFINE Below == {x \in Nat \X Nat : x[1] < x[2]}
<1>1. IsWellFoundedOn(Below, Nat)
  BY NatLessThanWellFounded DEF OpToRel
<1> HIDE DEF Below
<1>2. PICK n \in T : \A k \in T : ~ (<<k, n>> \in Below)
  BY <1>1, WFMin
<1>3. \A k \in T : ~ (k < n)
  BY <1>2 DEF Below
<1> QED
  BY <1>2, <1>3

(* Numbers on a finite set do not rise for ever: some member has no member *)
(* above it.                                                               *)
LEMMA SomeoneIsLast ==
    ASSUME NEW S, IsFiniteSet(S), S # {}, NEW time \in [S -> Nat]
    PROVE  \E s \in S : \A t \in S : time[t] <= time[s]
<1> DEFINE Later(s) == {t \in S : time[t] > time[s]}
<1>1. \A s \in S : IsFiniteSet(Later(s)) /\ Cardinality(Later(s)) \in Nat
  <2> SUFFICES ASSUME NEW s \in S
               PROVE  IsFiniteSet(Later(s)) /\ Cardinality(Later(s)) \in Nat
    OBVIOUS
  <2>1. Later(s) \in SUBSET S
    OBVIOUS
  <2> HIDE DEF Later
  <2>2. IsFiniteSet(Later(s))
    BY <2>1, FS_Subset
  <2> QED
    BY <2>2, FS_CardinalityType
<1>2. \E s \in S : \A t \in S : Cardinality(Later(s)) <= Cardinality(Later(t))
  <2> DEFINE T == {Cardinality(Later(s)) : s \in S}
  <2> HIDE DEF Later
  <2>1. T \subseteq Nat /\ T # {}
    BY <1>1
  <2>2. PICK n \in T : \A k \in T : n <= k
    <3> HIDE DEF T
    <3> QED
      BY <2>1, LeastNatural
  <2> QED
    BY <2>2
<1>3. PICK s \in S : \A t \in S : Cardinality(Later(s)) <= Cardinality(Later(t))
  BY <1>2
<1>4. ASSUME NEW t \in S, time[t] > time[s]
      PROVE  FALSE
  <2>1. Later(t) \subseteq Later(s) /\ t \in Later(s) /\ t \notin Later(t)
    BY <1>4
  <2>2. Cardinality(Later(t)) <= Cardinality(Later(s))
        /\ Cardinality(Later(t)) # Cardinality(Later(s))
    BY <1>1, <2>1, FS_Subset
  <2>3. Cardinality(Later(s)) <= Cardinality(Later(t))
    BY <1>3
  <2> HIDE DEF Later
  <2> QED
    BY <1>1, <2>2, <2>3
<1> QED
  BY <1>4

(* Who waits for a key waits for an invocation that waits for nobody. *)
LEMMA KeyHolderIsLast ==
    ASSUME WalletInv, NEW s \in Request, NEW t \in Blockers(s), Blockers(t) # {}
    PROVE  pc[s] = "update" /\ t \in Request
<1>1. /\ pc[s] \in {"update", "createCommand"} /\ t \in Request
      /\ pc[t] \in {"update", "createCommand"}
  <2>1. ASSUME NEW r, Blockers(r) # {}
        PROVE  pc[r] \in {"update", "createCommand"}
    BY <2>1 DEF Blockers
  <2>2. Blockers(s) # {}
    OBVIOUS
  <2>3. t \in Request
    BY <2>1, <2>2 DEF Blockers, RowHolders, KeyHolders
  <2> QED
    BY <2>1, <2>2, <2>3
<1>2. \A r \in Request : pc[r] \in {"update", "createCommand"} =>
         DOMAIN pendingCommands[r] = {}
  BY DEF WalletInv, LotInv, InvocationLots, LotsAt
<1>3. pc[s] = "update"
  BY <1>1, <1>2 DEF Blockers, KeyHolders
<1> QED
  BY <1>1, <1>3

(* The next lot a withdrawal writes is one it holds, as old as the row. *)
LEMMA NextLot ==
    ASSUME WalletInv, NEW r \in Request, pc[r] = "update"
    PROVE  LET m == mem[r]
           IN  /\ m \in Memory /\ IsWithdraw(r) /\ m.written \in Nat
               /\ Len(m.held) \in Nat
               /\ m.written + 1 \in 1..Len(m.held)
               /\ NextUpdate(r) = m.held[m.written + 1]
               /\ Selling(r, m) /\ Written(m, pendingRows[r])
               /\ \A i \in 1..Len(m.held) :
                     LET l == m.held[i].positionID
                     IN  /\ l \in DOMAIN positions
                         /\ m.held[i].purchasedAt = positions[l].purchasedAt
                         /\ m.held[i].purchasedAt \in Nat
<1> DEFINE m == mem[r]
<1>1. IsWithdraw(r) /\ m.written < Len(m.held)
  BY DEF WalletInv, TypeInv, ControlOK, ControlAt
<1>2. /\ m \in Memory /\ Len(m.held) \in Nat /\ m.written \in Nat
      /\ Selling(r, m) /\ Written(m, pendingRows[r])
  BY <1>1, WritingLots
<1>3. m.written + 1 \in 1..Len(m.held) /\ NextUpdate(r) = m.held[m.written + 1]
  BY <1>1, <1>2 DEF NextUpdate
<1>4. ASSUME NEW i \in 1..Len(m.held)
      PROVE  LET l == m.held[i].positionID
             IN  /\ l \in DOMAIN positions
                 /\ m.held[i].purchasedAt = positions[l].purchasedAt
                 /\ m.held[i].purchasedAt \in Nat
  <2>1. PICK toSell \in Int : SoldBy(r, m.held[i], m.sold[i], toSell)
    BY <1>2, HeldLots DEF WalletInv
  <2>2. PICK lot \in Position :
           /\ ReadBy(r, lot)
           /\ m.held[i] = UpdateAmount(lot, lot.amount - m.sold[i])
    BY <2>1 DEF SoldBy
  <2>3. /\ m.held[i].positionID = lot.positionID
        /\ m.held[i].purchasedAt = lot.purchasedAt
        /\ lot.purchasedAt \in Nat
    BY <2>2 DEF UpdateAmount, Position, PositionRecord
  <2> QED
    BY <2>2, <2>3 DEF ReadBy, SameLot
<1> QED
  BY <1>1, <1>2, <1>3, <1>4

(* Whoever holds the lot a withdrawal waits for is itself about to write a *)
(* later lot.                                                              *)
LEMMA WaitsForLater ==
    ASSUME WalletInv, DistinctTimes, NEW s \in Request, NEW t \in Request,
           pc[s] = "update", pc[t] = "update", t \in Blockers(s)
    PROVE  NextUpdate(s).purchasedAt < NextUpdate(t).purchasedAt
<1> DEFINE m == mem[t]
           l == NextUpdate(s).positionID
           w == m.written
           h == Len(m.held)
<1>1. l \in DOMAIN pendingRows[t]
  BY DEF Blockers, RowHolders
<1>2. /\ l \in DOMAIN positions
      /\ NextUpdate(s).purchasedAt = positions[l].purchasedAt
  BY NextLot
<1>3. /\ w \in Nat /\ h \in Nat /\ w + 1 \in 1..h
      /\ NextUpdate(t) = m.held[w + 1]
      /\ Selling(t, m) /\ Written(m, pendingRows[t])
      /\ Len(m.eligible) \in Nat
  BY NextLot, MemoryType, LenProperties
<1>4. PICK i \in 1..w : l = m.held[i].positionID
  BY <1>1, <1>3 DEF Written
<1>5. i \in 1..h /\ i < w + 1 /\ i \in Nat
  BY <1>3, <1>4
<1>6. /\ m.held[i].purchasedAt = positions[l].purchasedAt
      /\ m.held[i].purchasedAt \in Nat /\ NextUpdate(t).purchasedAt \in Nat
      /\ NextUpdate(t).positionID \in DOMAIN positions
      /\ NextUpdate(t).purchasedAt = positions[NextUpdate(t).positionID].purchasedAt
  BY <1>3, <1>4, <1>5, NextLot
<1>7. /\ m.held[i].positionID # m.held[w + 1].positionID
      /\ m.held[i].purchasedAt <= m.held[w + 1].purchasedAt
  <2>1. /\ QueueLen(m) = h + Len(m.eligible)
        /\ QueueAt(m, i) = m.held[i] /\ QueueAt(m, w + 1) = m.held[w + 1]
    BY <1>3, <1>5 DEF QueueLen, QueueAt
  <2> HIDE DEF h, w
  <2>2. i \in 1..QueueLen(m) /\ w + 1 \in 1..QueueLen(m)
    BY <1>3, <1>5, <2>1
  <2>3. InOrder(m)
    BY <1>3 DEF Selling
  <2> QED
    BY <1>5, <2>1, <2>2, <2>3 DEF InOrder
<1>8. NextUpdate(t).positionID # l
  BY <1>3, <1>4, <1>7
<1>9. positions[NextUpdate(t).positionID].purchasedAt # positions[l].purchasedAt
  BY <1>2, <1>6, <1>8 DEF DistinctTimes
<1>10. m.held[i].purchasedAt <= NextUpdate(t).purchasedAt
  BY <1>3, <1>7
<1> HIDE DEF m, l, w, h
<1> QED
  BY <1>2, <1>6, <1>9, <1>10

(***************************************************************************)
(* No deadlock among withdrawals: they lock lots in the order of purchase  *)
(* and the command key last, so as long as no two stored lots have the     *)
(* same purchase time no set of invocations waits for each other.  (With   *)
(* equal times the SELECT may order the lots differently for each, and     *)
(* they do: the run SingleConnection has the deadlock victims.)            *)
(***************************************************************************)
THEOREM NoWaitCycle == Spec => [](DistinctTimes => LocksAcyclic)
<1>1. WalletInv /\ DistinctTimes => LocksAcyclic
  <2> SUFFICES ASSUME WalletInv, DistinctTimes,
                      NEW S \in SUBSET Request, IsWaitCycle(S)
               PROVE  FALSE
    BY DEF LocksAcyclic
  <2>1. S # {} /\ \A s \in S : \E t \in S : t \in Blockers(s)
    BY DEF IsWaitCycle
  <2>2. \A s \in S : pc[s] = "update"
    BY <2>1, KeyHolderIsLast
  <2> DEFINE time == [s \in S |-> NextUpdate(s).purchasedAt]
  <2>3. time \in [S -> Nat]
    BY <2>2, NextLot
  <2>4. IsFiniteSet(S)
    BY LotAssumption, FS_Subset
  <2>5. \A s, t \in S : t \in Blockers(s) => time[s] < time[t]
    BY <2>2, WaitsForLater
  <2> HIDE DEF time
  <2>6. PICK s \in S : \A t \in S : time[t] <= time[s]
    BY <2>1, <2>3, <2>4, SomeoneIsLast
  <2>7. PICK t \in S : t \in Blockers(s)
    BY <2>1
  <2> QED
    BY <2>3, <2>5, <2>6, <2>7
<1> QED
  BY <1>1, WalletInvariant, PTL
=============================================================================
