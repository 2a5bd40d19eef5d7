---------------------------- MODULE WalletProofs ----------------------------
(***************************************************************************)
(* Type correctness and idempotency of the wallet, for any number of       *)
(* requests, lots, orders and failures.                                    *)
(***************************************************************************)
EXTENDS WalletProperties, PositionsProofs

USE DEF CommandFound, ClientFound, AssetFound

(***************************************************************************)
(* What is known of an invocation at each label.  A request past           *)
(* validation is valid, past the client lookup its client exists; the      *)
(* labels of one use case are reached by that use case only; and memory    *)
(* holds what the next statement needs.                                    *)
(***************************************************************************)
IsValid(r) ==
    \/ IsDeposit(r) /\ validateDepositRequest(req[r])
    \/ IsWithdraw(r) /\ validateWithdrawRequest(req[r])

ControlAt(r, label, m) ==
    /\ label \notin {"idle", "done", "crashed"} => IsValid(r)
    /\ label \notin {"idle", "findCommand", "findClient", "done", "crashed"}
          => req[r].client \in Client
    /\ label \in {"findAsset", "createPosition"} => IsDeposit(r)
    /\ label \in {"findLots", "sell", "update"} => IsWithdraw(r)
    /\ IsDeposit(r) /\ label \in {"begin", "createPosition"} => m.held # <<>>
    /\ label = "sell" => \A i \in 1..Len(m.eligible) : IsEligible(m.eligible[i])
    /\ label = "update" => m.written < Len(m.held)

ControlOK == \A r \in Request : ControlAt(r, pc[r], mem[r])

TypeInv == DatabaseTypeOK /\ InvocationTypeOK /\ ControlOK

-----------------------------------------------------------------------------
(* Facts about requests and memory. *)

(* What validation guarantees: a usable key and usable numbers. *)
LEMMA ValidRequest ==
    ASSUME InvocationTypeOK, NEW r \in Request, IsValid(r)
    PROVE  /\ KeyOf(r) \in Key
           /\ IsDeposit(r) => req[r].amount \in Nat /\ req[r].unitPrice \in Nat
           /\ IsWithdraw(r) => req[r].desiredValue \in Int
<1>1. req[r] \in Inputs
  BY DEF InvocationTypeOK
<1>2. req[r].order \in OrderID
  BY <1>1, InputAssumption DEF IsValid, validateDepositRequest, validateWithdrawRequest
<1>3. req[r].type \in CommandType
  BY <1>1, InputAssumption
<1> QED
  BY <1>1, <1>2, <1>3, InputAssumption
  DEF IsValid, validateDepositRequest, validateWithdrawRequest,
      IsDeposit, IsWithdraw, KeyOf, Key

(* The fields of an invocation's memory. *)
LEMMA MemoryType ==
    /\ NoMemory \in Memory
    /\ \A m \in Memory : /\ m.held \in Seq(Position)
                         /\ m.eligible \in Seq(Position)
                         /\ m.remaining \in Int
                         /\ m.sold \in Seq(Nat)
                         /\ m.written \in Nat
BY DEF NoMemory, Memory

-----------------------------------------------------------------------------
(* What the parts of a step do to the types.  One invocation moves to a    *)
(* new label with a new memory; the others stay as they are.               *)

(* Moving to a label whose facts hold of the new memory. *)
LEMMA MoveOK ==
    ASSUME InvocationTypeOK, ControlOK, NEW r \in Request,
           NEW label \in Label, NEW m \in Memory, ControlAt(r, label, m),
           pc' = [pc EXCEPT ![r] = label],
           mem' = [mem EXCEPT ![r] = m],
           err' \in [Request -> ErrorKind],
           out' \in [Request -> Response],
           faults' \in 0..MaxFaults,
           req' = req
    PROVE  InvocationTypeOK' /\ ControlOK'
<1>1. InvocationTypeOK'
  BY DEF InvocationTypeOK
<1>2. ASSUME NEW s \in Request
      PROVE  ControlAt(s, pc[s], mem[s])'
  <2>1. CASE s = r
    <3>1. pc'[s] = label /\ mem'[s] = m
      BY <2>1 DEF InvocationTypeOK
    <3> QED
      BY <2>1, <3>1
      DEF ControlAt, IsValid, IsDeposit, IsWithdraw
  <2>2. CASE s # r
    <3>1. pc'[s] = pc[s] /\ mem'[s] = mem[s]
      BY <2>2 DEF InvocationTypeOK
    <3>2. ControlAt(s, pc[s], mem[s])
      BY DEF ControlOK
    <3> QED
      BY <3>1, <3>2
      DEF ControlAt, IsValid, IsDeposit, IsWithdraw
  <2> QED
    BY <2>1, <2>2
<1> QED
  BY <1>1, <1>2 DEF ControlOK

(* Answering ends the invocation. *)
LEMMA AnswerOK ==
    ASSUME InvocationTypeOK, ControlOK, NEW r \in Request,
           NEW status \in Nat, NEW error \in ErrorKind,
           NEW body \in Seq(PositionDTO),
           Answer(r, status, error, body),
           faults' \in 0..MaxFaults, req' = req
    PROVE  InvocationTypeOK' /\ ControlOK'
<1>1. ControlAt(r, "done", NoMemory)
  BY DEF ControlAt
<1>2. "done" \in Label /\ "none" \in ErrorKind
  BY DEF Label, ErrorKind
<1>3. err' \in [Request -> ErrorKind]
  BY <1>2 DEF Answer, InvocationTypeOK
<1>4. out' \in [Request -> Response]
  BY DEF Answer, InvocationTypeOK, Response
<1> QED
  BY <1>1, <1>2, <1>3, <1>4, MoveOK, MemoryType DEF Answer

(* Answering an error, without a body. *)
LEMMA ErrorAnswerOK ==
    ASSUME InvocationTypeOK, ControlOK, NEW r \in Request,
           NEW status \in {404, 409, 422, 500}, NEW error \in ErrorKind,
           Answer(r, status, error, <<>>),
           faults' \in 0..MaxFaults, req' = req
    PROVE  InvocationTypeOK' /\ ControlOK'
<1>1. status \in Nat
  OBVIOUS
<1>2. <<>> \in Seq(PositionDTO)
  BY EmptySeq
<1> QED
  BY <1>1, <1>2, AnswerOK, ZenonT(30)

(* Going on with a new memory. *)
LEMMA GotoOK ==
    ASSUME InvocationTypeOK, ControlOK, NEW r \in Request,
           NEW label \in Label, NEW m \in Memory, ControlAt(r, label, m),
           Goto(r, label), mem' = [mem EXCEPT ![r] = m],
           faults' \in 0..MaxFaults, req' = req
    PROVE  InvocationTypeOK' /\ ControlOK'
<1>1. err' \in [Request -> ErrorKind] /\ out' \in [Request -> Response]
  BY DEF Goto, InvocationTypeOK
<1> QED
  BY <1>1, MoveOK DEF Goto

(* Going on with the same memory. *)
LEMMA GotoSameOK ==
    ASSUME InvocationTypeOK, ControlOK, NEW r \in Request,
           NEW label \in Label, ControlAt(r, label, mem[r]),
           Goto(r, label), mem' = mem,
           faults' \in 0..MaxFaults, req' = req
    PROVE  InvocationTypeOK' /\ ControlOK'
<1>1. mem' = [mem EXCEPT ![r] = mem[r]] /\ mem[r] \in Memory
  BY DEF InvocationTypeOK
<1> QED
  BY <1>1, GotoOK

(* Returning an error to the unit of work. *)
LEMMA AbortOK ==
    ASSUME InvocationTypeOK, ControlOK, NEW r \in Request,
           NEW error \in ErrorKind, pc[r] \in InTransaction,
           Abort(r, error), faults' \in 0..MaxFaults, req' = req
    PROVE  InvocationTypeOK' /\ ControlOK'
<1>1. mem' = [mem EXCEPT ![r] = mem[r]] /\ mem[r] \in Memory
  BY DEF InvocationTypeOK, Abort
<1>2. ControlAt(r, "rollback", mem[r])
  BY DEF ControlOK, ControlAt, InTransaction
<1>3. "rollback" \in Label
  BY DEF Label
<1>4. err' \in [Request -> ErrorKind] /\ out' \in [Request -> Response]
  BY DEF Abort, InvocationTypeOK
<1> QED
  BY <1>1, <1>2, <1>3, <1>4, MoveOK DEF Abort

(* A stored snapshot is a response body. *)
LEMMA SnapshotType ==
    ASSUME DatabaseTypeOK, NEW k \in DOMAIN commands
    PROVE  commands[k].responseSnapshot \in Seq(PositionDTO)
BY DEF DatabaseTypeOK, IsTable, ProcessedCommand

(* Counting one failure stays within the bound. *)
LEMMA FaultType ==
    ASSUME InvocationTypeOK, Fault
    PROVE  faults' \in 0..MaxFaults
BY MaxFaultsAssumption DEF InvocationTypeOK, Fault

(* An untouched database keeps its types. *)
LEMMA DatabaseSameOK ==
    ASSUME DatabaseTypeOK, UNCHANGED db
    PROVE  DatabaseTypeOK'
BY DEF DatabaseTypeOK, db

(* BEGIN keeps the types. *)
LEMMA BeginTxOK ==
    ASSUME DatabaseTypeOK, NEW r \in Request, BeginTx(r)
    PROVE  DatabaseTypeOK'
BY DEF DatabaseTypeOK, BeginTx

(* A storable position is a well-formed row once coerced. *)
LEMMA WriteRowOK ==
    ASSUME DatabaseTypeOK, NEW r \in Request, NEW p \in Position,
           Storable(p), WriteRow(r, p)
    PROVE  DatabaseTypeOK'
<1>1. p.positionID \in Lot /\ Coerce(p) \in Position
  BY CoerceType DEF Position, PositionRecord
<1>2. IsTable(Put(pendingRows[r], p.positionID, Coerce(p)), Lot, Position)
  BY <1>1, PutType DEF DatabaseTypeOK
<1> QED
  BY <1>2 DEF DatabaseTypeOK, WriteRow

(* The insert of a command keeps the types. *)
LEMMA WriteCommandOK ==
    ASSUME DatabaseTypeOK, NEW r \in Request, NEW k \in Key,
           NEW c \in ProcessedCommand, WriteCommand(r, k, c)
    PROVE  DatabaseTypeOK'
<1>1. IsTable(Put(pendingCommands[r], k, c), Key, ProcessedCommand)
  BY PutType DEF DatabaseTypeOK
<1> QED
  BY <1>1 DEF DatabaseTypeOK, WriteCommand

(* A refused statement keeps the types. *)
LEMMA FailTxOK ==
    ASSUME DatabaseTypeOK, NEW r \in Request, FailTx(r)
    PROVE  DatabaseTypeOK'
BY EmptyTableType DEF DatabaseTypeOK, FailTx

(* COMMIT moves well-formed rows into the tables. *)
LEMMA CommitTxOK ==
    ASSUME DatabaseTypeOK, NEW r \in Request, CommitTx(r)
    PROVE  DatabaseTypeOK'
<1>1. IsTable(positions', Lot, Position)
  BY PutAllType DEF DatabaseTypeOK, CommitTx
<1>2. IsTable(commands', Key, ProcessedCommand)
  BY PutAllType DEF DatabaseTypeOK, CommitTx
<1> QED
  BY <1>1, <1>2, EmptyTableType DEF DatabaseTypeOK, CommitTx, EndTx

(* ROLLBACK keeps the types. *)
LEMMA RollbackTxOK ==
    ASSUME DatabaseTypeOK, NEW r \in Request, RollbackTx(r)
    PROVE  DatabaseTypeOK'
BY EmptyTableType DEF DatabaseTypeOK, RollbackTx, EndTx

-----------------------------------------------------------------------------
(* Every step preserves the types: one lemma per action. *)

(* The initial states are well typed. *)
LEMMA InitOK == Init => TypeInv
<1> SUFFICES ASSUME Init PROVE TypeInv
  OBVIOUS
<1>1. DatabaseTypeOK
  <2>1. IsTable(positions, Lot, Position)
    BY SeedAssumption DEF Init, IsTable, Lot
  <2> QED
    BY <2>1, EmptyTableType DEF Init, DatabaseTypeOK
<1>2. InvocationTypeOK
  <2>1. NoMemory \in Memory /\ NoResponse \in Response
    BY MemoryType DEF NoResponse, Response, ErrorKind
  <2> QED
    BY <2>1, MaxFaultsAssumption
    DEF Init, InvocationInit, InvocationTypeOK, Label, ErrorKind
<1>3. ControlOK
  BY DEF Init, InvocationInit, ControlOK, ControlAt
<1> QED
  BY <1>1, <1>2, <1>3 DEF TypeInv

(* Validation of the request. *)
LEMMA ReceiveOK ==
    ASSUME TypeInv, NEW r \in Request, ReceiveRequest(r)
    PROVE  TypeInv'
<1> USE DEF TypeInv
<1> DEFINE valid == IF IsDeposit(r) THEN validateDepositRequest(req[r])
                    ELSE validateWithdrawRequest(req[r])
<1>1. (IsDeposit(r) \/ IsWithdraw(r)) /\ Receive(r, valid)
  BY DEF ReceiveRequest, DepositReceive, WithdrawReceive, IsDeposit, IsWithdraw
<1>2. UNCHANGED db /\ req' = req /\ faults' = faults
  BY <1>1 DEF Receive
<1>3. faults' \in 0..MaxFaults
  BY <1>2 DEF InvocationTypeOK
<1>4. CASE valid
  <2>1. IsValid(r)
    BY <1>1, <1>4 DEF IsValid
  <2>2. ControlAt(r, "findCommand", mem[r])
    BY <2>1 DEF ControlAt
  <2> QED
    BY <1>1, <1>2, <1>3, <1>4, <2>2, GotoSameOK, DatabaseSameOK DEF Receive, Label
<1>5. CASE ~ valid
  BY <1>1, <1>2, <1>3, <1>5, ErrorAnswerOK, DatabaseSameOK DEF Receive, ErrorKind
<1> QED
  BY <1>4, <1>5

(* The lookup of the processed command. *)
LEMMA FindCommandOK ==
    ASSUME TypeInv, NEW r \in Request, FindByTypeAndOrderID(r)
    PROVE  TypeInv'
<1> USE DEF TypeInv
<1>1. UNCHANGED db /\ req' = req /\ faults' = faults
  BY DEF FindByTypeAndOrderID
<1>2. faults' \in 0..MaxFaults
  BY <1>1 DEF InvocationTypeOK
<1>3. CASE KeyOf(r) \in DOMAIN commands
  BY <1>1, <1>2, <1>3, AnswerOK, SnapshotType, DatabaseSameOK
  DEF FindByTypeAndOrderID, ErrorKind
<1>4. CASE KeyOf(r) \notin DOMAIN commands
  <2>1. ControlAt(r, "findClient", mem[r])
    BY DEF FindByTypeAndOrderID, ControlOK, ControlAt
  <2> QED
    BY <1>1, <1>2, <1>4, <2>1, GotoSameOK, DatabaseSameOK
    DEF FindByTypeAndOrderID, Label
<1> QED
  BY <1>3, <1>4

(* The lookup of the client. *)
LEMMA FindClientOK ==
    ASSUME TypeInv, NEW r \in Request, NEW next \in {"findAsset", "begin"},
           FindClientByID(r, next),
           next = "findAsset" <=> IsDeposit(r)
    PROVE  TypeInv'
<1> USE DEF TypeInv
<1>1. UNCHANGED db /\ req' = req /\ faults' = faults
  BY DEF FindClientByID
<1>2. faults' \in 0..MaxFaults
  BY <1>1 DEF InvocationTypeOK
<1>3. CASE req[r].client \in Client
  <2>1. ControlAt(r, next, mem[r])
    BY <1>3 DEF FindClientByID, ControlOK, ControlAt
  <2> QED
    BY <1>1, <1>2, <1>3, <2>1, GotoSameOK, DatabaseSameOK DEF FindClientByID, Label
<1>4. CASE req[r].client \notin Client
  BY <1>1, <1>2, <1>4, ErrorAnswerOK, DatabaseSameOK DEF FindClientByID, ErrorKind
<1> QED
  BY <1>3, <1>4

(* The lookup of the asset and the construction of the position. *)
LEMMA FindAssetOK ==
    ASSUME TypeInv, NEW r \in Request, FindAssetByID(r)
    PROVE  TypeInv'
<1> USE DEF TypeInv
<1>1. UNCHANGED db /\ req' = req /\ faults' = faults
  BY DEF FindAssetByID
<1>2. faults' \in 0..MaxFaults
  BY <1>1 DEF InvocationTypeOK
<1>3. CASE Answer(r, 422, "invalid", <<>>) \/ Answer(r, 500, "other", <<>>)
  BY <1>1, <1>2, <1>3, ErrorAnswerOK, DatabaseSameOK DEF ErrorKind
<1>4. CASE /\ req[r].asset \in DOMAIN Assets
           /\ Goto(r, "begin")
           /\ \E now \in Times :
                 mem' = [mem EXCEPT ![r].held =
                   <<NewPosition(r, req[r].client, req[r].asset,
                                 req[r].amount, req[r].unitPrice, now)>>]
  <2>1. PICK now \in Times :
          mem' = [mem EXCEPT ![r].held =
            <<NewPosition(r, req[r].client, req[r].asset,
                          req[r].amount, req[r].unitPrice, now)>>]
    BY <1>4
  <2> DEFINE p == NewPosition(r, req[r].client, req[r].asset,
                              req[r].amount, req[r].unitPrice, now)
             m == [mem[r] EXCEPT !.held = <<p>>]
  <2>2. /\ IsValid(r) /\ IsDeposit(r) /\ req[r].client \in Client
    BY DEF FindAssetByID, ControlOK, ControlAt
  <2>3. req[r].amount \in Nat /\ req[r].unitPrice \in Nat
    BY <2>2, ValidRequest
  <2>4. p \in Position
    BY <1>4, <2>2, <2>3, TimesAssumption
    DEF NewPosition, Position, PositionRecord, Lot
  <2>5. mem[r] \in Memory /\ <<p>> \in Seq(Position) /\ <<p>> # <<>>
    BY <2>4 DEF InvocationTypeOK
  <2>6. m \in Memory /\ m.held # <<>>
    BY <2>5 DEF Memory
  <2>7. mem' = [mem EXCEPT ![r] = m]
    BY <2>1
  <2>8. ControlAt(r, "begin", m)
    BY <2>2, <2>6 DEF ControlAt
  <2> QED
    BY <1>1, <1>2, <1>4, <2>6, <2>7, <2>8, GotoOK, DatabaseSameOK DEF Label
<1> QED
  BY <1>3, <1>4 DEF FindAssetByID

(* The start of the unit of work. *)
LEMMA BeginOK ==
    ASSUME TypeInv, NEW r \in Request,
           NEW next \in {"createPosition", "findLots"}, Begin(r, next),
           next = "createPosition" => IsDeposit(r),
           next = "findLots" => IsWithdraw(r)
    PROVE  TypeInv'
<1> USE DEF TypeInv
<1>1. faults' \in 0..MaxFaults /\ req' = req /\ mem' = mem
  BY DEF Begin, InvocationTypeOK
<1>2. ControlAt(r, next, mem[r])
  BY DEF Begin, ControlOK, ControlAt
<1> QED
  BY <1>1, <1>2, GotoSameOK, BeginTxOK DEF Begin, Label

(* The insert of the deposit's position. *)
LEMMA CreatePositionOK ==
    ASSUME TypeInv, NEW r \in Request, CreatePosition(r)
    PROVE  TypeInv'
<1> USE DEF TypeInv
<1> DEFINE p == mem[r].held[1]
<1>1. faults' \in 0..MaxFaults /\ req' = req
  BY DEF CreatePosition, InvocationTypeOK
<1>2. pc[r] = "createPosition" /\ ControlAt(r, "createPosition", mem[r])
  BY DEF CreatePosition, ControlOK
<1>3. mem[r].held \in Seq(Position) /\ mem[r].held # <<>>
  BY <1>2, MemoryType DEF InvocationTypeOK, ControlAt
<1>4. p \in Position
  BY <1>3
<1>5. CASE ~ Storable(p)
  BY <1>1, <1>2, <1>5, AbortOK, FailTxOK
  DEF CreatePosition, InTransaction, ErrorKind
<1>6. CASE Storable(p)
  <2>1. ControlAt(r, "createCommand", mem[r])
    BY <1>2 DEF ControlAt
  <2> QED
    BY <1>1, <1>4, <1>6, <2>1, GotoSameOK, WriteRowOK DEF CreatePosition, Label
<1> QED
  BY <1>5, <1>6

(* The insert of the processed command. *)
LEMMA CreateCommandOK ==
    ASSUME TypeInv, NEW r \in Request, CreateProcessedCommand(r)
    PROVE  TypeInv'
<1> USE DEF TypeInv
<1> DEFINE c == NewProcessedCommand(r, req[r].client, ToResponse(mem[r].held))
<1>1. faults' \in 0..MaxFaults /\ req' = req
  BY DEF CreateProcessedCommand, InvocationTypeOK
<1>2. pc[r] = "createCommand" /\ ControlAt(r, "createCommand", mem[r])
  BY DEF CreateProcessedCommand, ControlOK
<1>3. KeyOf(r) \in Key /\ req[r].client \in Client
  BY <1>2, ValidRequest DEF ControlAt
<1>4. c \in ProcessedCommand
  <2>1. mem[r].held \in Seq(Position)
    BY MemoryType DEF InvocationTypeOK
  <2>2. ToResponse(mem[r].held) \in Seq(PositionDTO)
    BY <2>1, ToResponseType
  <2> QED
    BY <1>3, <2>2 DEF NewProcessedCommand, ProcessedCommand
<1>5. CASE FailTx(r) /\ Abort(r, "duplicate")
  BY <1>1, <1>2, <1>5, AbortOK, FailTxOK DEF InTransaction, ErrorKind
<1>6. CASE WriteCommand(r, KeyOf(r), c) /\ Goto(r, "commit") /\ UNCHANGED mem
  <2>1. ControlAt(r, "commit", mem[r])
    BY <1>2 DEF ControlAt
  <2> QED
    BY <1>1, <1>3, <1>4, <1>6, <2>1, GotoSameOK, WriteCommandOK DEF Label
<1> QED
  BY <1>5, <1>6 DEF CreateProcessedCommand

(* The end of a unit of work that succeeded. *)
LEMMA CommitOK ==
    ASSUME TypeInv, NEW r \in Request, NEW status \in {200, 201},
           Commit(r, status)
    PROVE  TypeInv'
<1> USE DEF TypeInv
<1>1. faults' \in 0..MaxFaults /\ req' = req /\ status \in Nat
  BY DEF Commit, InvocationTypeOK
<1>2. ToResponse(mem[r].held) \in Seq(PositionDTO)
  BY MemoryType, ToResponseType DEF InvocationTypeOK
<1>3. "none" \in ErrorKind
  BY DEF ErrorKind
<1>4. DatabaseTypeOK'
  BY CommitTxOK DEF Commit
<1>5. InvocationTypeOK' /\ ControlOK'
  BY <1>1, <1>2, <1>3, AnswerOK DEF Commit
<1> QED
  BY <1>4, <1>5

(* The end of a unit of work that failed. *)
LEMMA RollbackOK ==
    ASSUME TypeInv, NEW r \in Request, NEW status \in {404, 409, 422, 500},
           Rollback(r, status)
    PROVE  TypeInv'
<1> USE DEF TypeInv
<1>1. faults' \in 0..MaxFaults /\ req' = req
  BY FaultType DEF Rollback, InvocationTypeOK
<1>2. DatabaseTypeOK'
  BY RollbackTxOK, DatabaseSameOK DEF Rollback
<1>3. CASE err[r] = "duplicate"
  <2>1. ControlAt(r, "replay", mem[r])
    BY DEF Rollback, ControlOK, ControlAt
  <2> QED
    BY <1>1, <1>2, <1>3, <2>1, GotoSameOK DEF Rollback, Label
<1>4. CASE err[r] # "duplicate"
  <2>1. err[r] \in ErrorKind
    BY DEF InvocationTypeOK
  <2> QED
    BY <1>1, <1>2, <1>4, <2>1, ErrorAnswerOK DEF Rollback
<1> QED
  BY <1>3, <1>4

(* The replay after a lost race. *)
LEMMA ReplayOK ==
    ASSUME TypeInv, NEW r \in Request, ReplayAfterRace(r)
    PROVE  TypeInv'
<1> USE DEF TypeInv
<1>1. UNCHANGED db /\ faults' \in 0..MaxFaults /\ req' = req
  BY DEF ReplayAfterRace, InvocationTypeOK
<1>2. CASE KeyOf(r) \in DOMAIN commands
  BY <1>1, <1>2, AnswerOK, SnapshotType, DatabaseSameOK DEF ReplayAfterRace, ErrorKind
<1>3. CASE KeyOf(r) \notin DOMAIN commands
  BY <1>1, <1>3, ErrorAnswerOK, DatabaseSameOK DEF ReplayAfterRace, ErrorKind
<1> QED
  BY <1>2, <1>3

(* The lots a request reads are finitely many positions. *)
LEMMA LotsOfType ==
    ASSUME DatabaseTypeOK, NEW q
    PROVE  LotsOf(q) \in SUBSET Position /\ IsFiniteSet(LotsOf(q))
<1> DEFINE D == {k \in DOMAIN positions :
                   /\ positions[k].client = q.client
                   /\ Assets[positions[k].asset].instrument = q.instrument}
           f == [l \in D |-> positions[l]]
<1>1. /\ D \subseteq Lot
      /\ \A l \in D : positions[l] \in Position
  BY DEF DatabaseTypeOK, IsTable
<1>2. IsFiniteSet(Lot)
  BY LotAssumption, FS_Union DEF Lot
<1>3. IsFiniteSet(D)
  BY <1>1, <1>2, FS_Subset
<1>4. LotsOf(q) = {positions[l] : l \in D}
  BY DEF LotsOf
<1>5. f \in Surjection(D, LotsOf(q))
  BY <1>4 DEF Surjection
<1> QED
  BY <1>1, <1>3, <1>4, <1>5, FS_Surjection

(* The read of the lots and the check of what is available. *)
LEMMA FindLotsOK ==
    ASSUME TypeInv, NEW r \in Request, FindByClientAndInstrument(r)
    PROVE  TypeInv'
<1> USE DEF TypeInv
<1> DEFINE rows == LotsOf(req[r])
<1>1. UNCHANGED db /\ faults' \in 0..MaxFaults /\ req' = req
  BY DEF FindByClientAndInstrument, InvocationTypeOK
<1>2. pc[r] = "findLots" /\ ControlAt(r, "findLots", mem[r])
  BY DEF FindByClientAndInstrument, ControlOK
<1>3. CASE \E error \in {"notFound", "other", "insufficient"} : Abort(r, error)
  BY <1>1, <1>2, <1>3, AbortOK, DatabaseSameOK DEF InTransaction, ErrorKind
<1>4. CASE /\ Goto(r, "sell")
           /\ \E s \in OldestFirst(Eligible(rows)) :
                 mem' = [mem EXCEPT ![r] =
                   [held |-> <<>>, eligible |-> s,
                    remaining |-> req[r].desiredValue,
                    sold |-> <<>>, written |-> 0]]
  <2>1. PICK s \in OldestFirst(Eligible(rows)) :
          mem' = [mem EXCEPT ![r] =
            [held |-> <<>>, eligible |-> s, remaining |-> req[r].desiredValue,
             sold |-> <<>>, written |-> 0]]
    BY <1>4
  <2> DEFINE m == [held |-> <<>>, eligible |-> s,
                   remaining |-> req[r].desiredValue,
                   sold |-> <<>>, written |-> 0]
  <2>2. /\ s \in Seq(Position)
        /\ \A i \in 1..Len(s) : IsEligible(s[i])
    BY LotsOfType, OldestFirstType
  <2>3. IsValid(r) /\ IsWithdraw(r) /\ req[r].client \in Client
    BY <1>2 DEF ControlAt
  <2>4. req[r].desiredValue \in Int
    BY <2>3, ValidRequest
  <2>5. m \in Memory /\ m.eligible = s
    <3>1. <<>> \in Seq(Position) /\ <<>> \in Seq(Nat)
      BY EmptySeq
    <3> QED
      BY <2>2, <2>4, <3>1 DEF Memory
  <2>6. ControlAt(r, "sell", m)
    BY <2>2, <2>3, <2>5 DEF ControlAt, IsDeposit, IsWithdraw
  <2> QED
    BY <1>1, <1>4, <2>1, <2>5, <2>6, GotoOK, DatabaseSameOK DEF Label
<1> QED
  BY <1>3, <1>4 DEF FindByClientAndInstrument

(* One round of the withdrawal loop: the new amount and total are those    *)
(* of a position.                                                          *)
LEMMA SellOK ==
    ASSUME TypeInv, NEW r \in Request, SellFromLot(r)
    PROVE  TypeInv'
<1> USE DEF TypeInv
<1> DEFINE m == mem[r]
           lot == Head(m.eligible)
           units == UnitsSold(lot, m.remaining)
           newAmount == lot.amount - units
           remaining == m.remaining - units * lot.unitPrice
           p == UpdateAmount(lot, newAmount)
           n == [held |-> Append(m.held, p), eligible |-> Tail(m.eligible),
                 remaining |-> remaining, sold |-> Append(m.sold, units),
                 written |-> 0]
           next == IF LoopEnds(Tail(m.eligible), remaining)
                   THEN "update" ELSE "sell"
<1>1. UNCHANGED db /\ faults' \in 0..MaxFaults /\ req' = req
  BY DEF SellFromLot, InvocationTypeOK
<1>2. pc[r] = "sell" /\ ControlAt(r, "sell", m)
  BY DEF SellFromLot, ControlOK
<1>3. /\ m.held \in Seq(Position) /\ m.eligible \in Seq(Position)
      /\ m.remaining \in Int /\ m.sold \in Seq(Nat)
  BY MemoryType DEF InvocationTypeOK
<1>4. m.eligible # <<>> /\ ~ (m.remaining <= 0)
  BY DEF SellFromLot, LoopEnds
<1>5. /\ lot \in Position /\ Tail(m.eligible) \in Seq(Position)
      /\ \A i \in 1..Len(Tail(m.eligible)) : IsEligible(Tail(m.eligible)[i])
      /\ IsEligible(lot)
  <2>1. \A i \in 1..Len(m.eligible) : IsEligible(m.eligible[i])
    BY <1>2 DEF ControlAt
  <2>2. /\ Len(Tail(m.eligible)) = Len(m.eligible) - 1
        /\ \A i \in 1..Len(Tail(m.eligible)) : Tail(m.eligible)[i] = m.eligible[i + 1]
    BY <1>3, <1>4, HeadTailProperties
  <2>3. lot = m.eligible[1] /\ Len(m.eligible) \in Nat /\ Len(m.eligible) > 0
    BY <1>3, <1>4
  <2>4. lot \in Position /\ Tail(m.eligible) \in Seq(Position)
    BY <1>3, <1>4, HeadTailProperties
  <2>5. IsEligible(lot)
    BY <2>1, <2>3
  <2>6. \A i \in 1..Len(Tail(m.eligible)) : i + 1 \in 1..Len(m.eligible)
    BY <2>2, <2>3
  <2> QED
    BY <2>1, <2>2, <2>4, <2>5, <2>6
<1>6. lot.amount \in Nat /\ lot.unitPrice \in Nat
  BY <1>5 DEF Position, PositionRecord
<1>7. units \in Nat
  BY <1>3, <1>4, <1>5, UnitsSoldType
<1>8. CASE Abort(r, "other")
  BY <1>1, <1>2, <1>8, AbortOK, DatabaseSameOK DEF InTransaction, ErrorKind
<1>9. CASE ~ (newAmount < 0) /\ mem' = [mem EXCEPT ![r] = n] /\ Goto(r, next)
  <2>1. newAmount \in Nat
    BY <1>6, <1>7, <1>9
  <2>2. p \in Position
    BY <1>5, <2>1, UpdateAmountType
  <2>3. /\ Append(m.held, p) \in Seq(Position)
        /\ Len(Append(m.held, p)) = Len(m.held) + 1
        /\ Len(m.held) \in Nat
        /\ Append(m.sold, units) \in Seq(Nat)
    BY <1>3, <1>7, <2>2, AppendProperties
  <2>4. remaining \in Int
    BY <1>3, <1>6, <1>7
  <2>5. /\ n \in Memory
        /\ n.eligible = Tail(m.eligible) /\ n.held = Append(m.held, p)
        /\ n.written = 0
    BY <1>5, <2>3, <2>4 DEF Memory
  <2>6. next \in {"update", "sell"}
    OBVIOUS
  <2>7. ControlAt(r, next, n)
    BY <1>2, <1>5, <2>3, <2>5, <2>6, SMTT(30) DEF ControlAt
  <2> QED
    BY <1>1, <1>9, <2>5, <2>6, <2>7, GotoOK, DatabaseSameOK DEF Label
<1> QED
  BY <1>8, <1>9 DEF SellFromLot

(* The write of one debited lot. *)
LEMMA UpdateOK ==
    ASSUME TypeInv, NEW r \in Request, UpdatePosition(r)
    PROVE  TypeInv'
<1> USE DEF TypeInv
<1> DEFINE p == NextUpdate(r)
           m == [mem[r] EXCEPT !.written = mem[r].written + 1]
           next == IF mem[r].written + 1 = Len(mem[r].held)
                   THEN "createCommand" ELSE "update"
<1>1. faults' \in 0..MaxFaults /\ req' = req
  BY DEF UpdatePosition, InvocationTypeOK
<1>2. pc[r] = "update" /\ ControlAt(r, "update", mem[r])
  BY DEF UpdatePosition, ControlOK
<1>3. /\ mem[r] \in Memory /\ mem[r].held \in Seq(Position)
      /\ mem[r].written \in Nat /\ mem[r].written < Len(mem[r].held)
  BY <1>2, MemoryType DEF InvocationTypeOK, ControlAt
<1>4. p \in Position
  BY <1>3 DEF NextUpdate
<1>5. CASE /\ FailTx(r) \/ UNCHANGED db
           /\ \E error \in {"conflict", "other"} : Abort(r, error)
  BY <1>1, <1>2, <1>5, AbortOK, FailTxOK, DatabaseSameOK DEF InTransaction, ErrorKind
<1>6. CASE /\ Storable(p) /\ WriteRow(r, p) /\ Goto(r, next)
           /\ mem' = [mem EXCEPT ![r].written = @ + 1]
  <2>1. mem' = [mem EXCEPT ![r] = m]
    BY <1>6
  <2>2. m \in Memory /\ m.held = mem[r].held /\ m.written = mem[r].written + 1
    <3>1. mem[r].written + 1 \in Nat
      BY <1>3
    <3> QED
      BY <1>3, <3>1 DEF Memory
  <2>3. next \in {"createCommand", "update"} /\ (next = "update" => m.written < Len(m.held))
    BY <1>3, <2>2
  <2>4. ControlAt(r, next, m)
    BY <1>2, <2>3 DEF ControlAt
  <2>5. next \in Label
    BY <2>3 DEF Label
  <2>6. DatabaseTypeOK'
    BY <1>4, <1>6, WriteRowOK
  <2> QED
    BY <1>1, <1>6, <2>1, <2>2, <2>4, <2>5, <2>6, GotoOK
<1> QED
  BY <1>5, <1>6 DEF UpdatePosition

(* Failures of statements, of COMMIT and of the process. *)
LEMMA FailureOK ==
    ASSUME TypeInv, NEW r \in Request,
           StatementFails(r) \/ CommitFails(r) \/ Crash(r)
    PROVE  TypeInv'
<1> USE DEF TypeInv
<1>1. Fault /\ req' = req
  BY DEF StatementFails, CommitFails, Crash
<1>2. faults' \in 0..MaxFaults
  BY <1>1, FaultType
<1>3. DatabaseTypeOK'
  BY DatabaseSameOK, FailTxOK, CommitTxOK DEF StatementFails, CommitFails, Crash
<1>4. CASE \E status \in {409, 500} : Answer(r, status, "other", <<>>)
  BY <1>1, <1>2, <1>3, <1>4, ErrorAnswerOK DEF ErrorKind
<1>5. CASE pc[r] \in InTransaction /\ Abort(r, "other")
  BY <1>1, <1>2, <1>3, <1>5, AbortOK DEF ErrorKind
<1>6. CASE Crash(r)
  <2>1. ControlAt(r, "crashed", NoMemory)
    BY DEF ControlAt
  <2>2. err' \in [Request -> ErrorKind] /\ out' \in [Request -> Response]
    BY <1>6 DEF Crash, InvocationTypeOK, ErrorKind
  <2>3. InvocationTypeOK' /\ ControlOK'
    BY <1>1, <1>2, <1>6, <2>1, <2>2, MoveOK, MemoryType DEF Crash, Label
  <2> QED
    BY <1>3, <2>3
<1> QED
  BY <1>4, <1>5, <1>6 DEF StatementFails, CommitFails, InTransaction

(* Untouched invocations keep their types. *)
LEMMA InvocationSameOK ==
    ASSUME InvocationTypeOK, ControlOK, UNCHANGED invocation
    PROVE  InvocationTypeOK' /\ ControlOK'
BY DEF InvocationTypeOK, ControlOK, ControlAt, invocation, IsValid, IsDeposit, IsWithdraw

(* The server's own steps. *)
LEMMA ServerOK ==
    ASSUME TypeInv, NEW r \in Request, Reap(r) \/ DeadlockVictim(r)
    PROVE  TypeInv'
<1> USE DEF TypeInv
<1>1. CASE Reap(r)
  BY <1>1, RollbackTxOK, InvocationSameOK DEF Reap
<1>2. CASE DeadlockVictim(r)
  <2>1. faults' \in 0..MaxFaults /\ req' = req /\ FailTx(r)
    BY <1>2 DEF DeadlockVictim, InvocationTypeOK
  <2>2. PICK S \in SUBSET Request : r \in S /\ IsWaitCycle(S)
    BY <1>2 DEF DeadlockVictim
  <2>3. Blockers(r) # {}
    BY <2>2 DEF IsWaitCycle
  <2>4. pc[r] \in {"update", "createCommand"}
    BY <2>3 DEF Blockers
  <2> QED
    BY <1>2, <2>1, <2>4, AbortOK, FailTxOK
    DEF DeadlockVictim, InTransaction, ErrorKind
<1> QED
  BY <1>1, <1>2

(* A step of either use case. *)
LEMMA StepOK ==
    ASSUME TypeInv, NEW r \in Request, Step(r)
    PROVE  TypeInv'
<1>1. CASE IsDeposit(r) /\ DepositStep(r)
  <2>1. IsDeposit(r)
    BY <1>1
  <2> QED
    BY <1>1, FindCommandOK, FindClientOK, FindAssetOK, BeginOK, CreatePositionOK,
       CreateCommandOK, CommitOK, RollbackOK, ReplayOK DEF DepositStep
<1>2. CASE IsWithdraw(r) /\ WithdrawStep(r)
  <2>1. ~ IsDeposit(r)
    BY <1>2 DEF IsDeposit, IsWithdraw
  <2>2. WithdrawStatus(err[r]) \in {404, 409, 422, 500}
    BY DEF WithdrawStatus
  <2> QED
    BY <1>2, <2>1, <2>2, FindCommandOK, FindClientOK, BeginOK, FindLotsOK, SellOK,
       UpdateOK, CreateCommandOK, CommitOK, RollbackOK, ReplayOK DEF WithdrawStep
<1> QED
  BY <1>1, <1>2 DEF Step

(* Every step of the wallet preserves the types. *)
LEMMA NextOK == TypeInv /\ [Next]_vars => TypeInv'
<1> SUFFICES ASSUME TypeInv, [Next]_vars PROVE TypeInv'
  OBVIOUS
<1>1. CASE UNCHANGED vars
  <2>1. UNCHANGED db /\ UNCHANGED invocation
    BY <1>1 DEF vars, db, invocation
  <2> QED
    BY <2>1, DatabaseSameOK, InvocationSameOK DEF TypeInv
<1>2. CASE Next
  BY <1>1, <1>2, ReceiveOK, StepOK, FailureOK, ServerOK DEF Next, Quiescent
<1> QED
  BY <1>1, <1>2

(***************************************************************************)
(* Type correctness: whatever requests arrive and whatever fails, no       *)
(* amount, price or value in memory, in a table or in an answer becomes    *)
(* negative, total_value is amount * unit_price in all of them, and an     *)
(* invocation never uses a position it does not have.                      *)
(***************************************************************************)
THEOREM TypeCorrect == Spec => []TypeOK
<1>1. TypeInv => TypeOK
  BY DEF TypeInv, TypeOK
<1> QED
  BY <1>1, InitOK, NextOK, PTL DEF Spec
=============================================================================
