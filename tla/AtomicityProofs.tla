-------------------------- MODULE AtomicityProofs --------------------------
(***************************************************************************)
(* The unit of work is all or nothing, and an answer says which, for any   *)
(* number of requests and failures.                                        *)
(*                                                                         *)
(* A refusal is about an invocation that left nothing behind because the   *)
(* only step that leaves something is the COMMIT, and an invocation that   *)
(* sent its COMMIT answers with success, or with 500 after a failure, or   *)
(* never.  AtomicityInv says so of every recorded command and every        *)
(* answer.                                                                 *)
(***************************************************************************)
EXTENDS LotProofs

USE DEF CommandFound, ClientFound, AssetFound

(* r knows that it was recorded. *)
Acknowledged(r) ==
    /\ out[r].error = "none"
    /\ out[r].status = IF IsDeposit(r) THEN 201 ELSE 200

(* A failure hides from r whether it was recorded. *)
InDoubt(r) ==
    /\ out[r].error # "none"
    /\ out[r].status = 500
    /\ faults > 0

(* A recorded command is its invocation's, which is over. *)
RecordIsOfItsRequest ==
    \A k \in DOMAIN commands :
        LET r == commands[k].commandID
        IN  /\ k = KeyOf(r)
            /\ commands[k].client = req[r].client
            /\ pc[r] \in {"done", "crashed"}
            /\ pc[r] = "done" => Acknowledged(r) \/ InDoubt(r)

(* Another withdrawal sold from lots of r's instrument. *)
Outrun(r) == \E l \in Lot : Overtaken(r, l)

(* What an invocation answers, and the error it is about to answer. *)
AnswerAt(r, label, answer, error) ==
    /\ label # "done" => answer = NoResponse
    /\ label = "done" /\ answer.error = "none" => answer.status \in {200, 201}
    /\ answer.error = "conflict" => Outrun(r)
    /\ label = "rollback" => error # "none"
    /\ label = "rollback" /\ error = "conflict" => Outrun(r)

AnswersOK == \A r \in Request : AnswerAt(r, pc[r], out[r], err[r])

AtomicityInv == DepositAtomic /\ RecordIsOfItsRequest /\ AnswersOK

-----------------------------------------------------------------------------
(* Steps that commit nothing. *)

(* r moves on or answers, and the tables stay as they are. *)
LEMMA AtomicityMove ==
    ASSUME TypeInv, AtomicityInv, NEW r \in Request, TablesKept,
           pc[r] \notin {"done", "crashed"},
           faults' = faults \/ Fault,
           \A s \in Request \ {r} :
              pc'[s] = pc[s] /\ out'[s] = out[s] /\ err'[s] = err[s],
           NEW label, NEW answer, NEW error,
           pc'[r] = label, out'[r] = answer, err'[r] = error,
           AnswerAt(r, label, answer, error)
    PROVE  AtomicityInv'
<1>1. positions' = positions /\ commands' = commands /\ req' = req
  BY DEF TablesKept
<1>2. faults > 0 => faults' > 0
  BY DEF Fault, TypeInv, InvocationTypeOK
<1>3. DepositAtomic'
  BY <1>1 DEF AtomicityInv, DepositAtomic
<1>4. RecordIsOfItsRequest'
  <2>1. ASSUME NEW k \in DOMAIN commands, NEW s, s = commands[k].commandID
        PROVE  /\ k = KeyOf(s) /\ commands[k].client = req[s].client
               /\ pc'[s] \in {"done", "crashed"}
               /\ pc'[s] = "done" => Acknowledged(s)' \/ InDoubt(s)'
    <3>1. s \in Request
      BY <2>1 DEF TypeInv, DatabaseTypeOK, IsTable, ProcessedCommand
    <3>2. /\ k = KeyOf(s) /\ commands[k].client = req[s].client
          /\ pc[s] \in {"done", "crashed"}
          /\ pc[s] = "done" => Acknowledged(s) \/ InDoubt(s)
      BY <2>1 DEF AtomicityInv, RecordIsOfItsRequest
    <3>3. pc'[s] = pc[s] /\ out'[s] = out[s]
      BY <3>1, <3>2
    <3>4. (Acknowledged(s) => Acknowledged(s)') /\ (InDoubt(s) => InDoubt(s)')
      BY <1>1, <1>2, <3>3 DEF Acknowledged, InDoubt, IsDeposit
    <3> QED
      BY <3>2, <3>3, <3>4
  <2> QED
    BY <1>1, <2>1 DEF RecordIsOfItsRequest, KeyOf, Acknowledged, InDoubt, IsDeposit
<1>5. AnswersOK'
  BY <1>1 DEF AtomicityInv, AnswersOK, AnswerAt, Outrun, Overtaken
<1> QED
  BY <1>3, <1>4, <1>5 DEF AtomicityInv

(* The answer of an invocation that has none yet. *)
LEMMA NoAnswerYet ==
    ASSUME AtomicityInv, NEW r \in Request, pc[r] # "done"
    PROVE  out[r] = NoResponse /\ NoResponse.error = "none"
BY DEF AtomicityInv, AnswersOK, AnswerAt, NoResponse

(* An answer that is a replay, or tells an error. *)
LEMMA AtomicityAnswer ==
    ASSUME TypeInv, AtomicityInv, NEW r \in Request, TablesKept,
           pc[r] \notin {"done", "crashed"}, faults' = faults \/ Fault,
           NEW status, NEW error, NEW body, Answer(r, status, error, body),
           error = "none" => status \in {200, 201},
           error = "conflict" => Outrun(r)
    PROVE  AtomicityInv'
<1> DEFINE answer == [status |-> status, error |-> error, body |-> body]
<1>1. pc'[r] = "done" /\ out'[r] = answer /\ err'[r] = "none"
  BY DEF Answer, TypeInv, InvocationTypeOK
<1>2. \A s \in Request \ {r} :
         pc'[s] = pc[s] /\ out'[s] = out[s] /\ err'[s] = err[s]
  BY DEF Answer, TypeInv, InvocationTypeOK
<1>3. AnswerAt(r, "done", answer, "none")
  BY DEF AnswerAt
<1> HIDE DEF answer
<1> QED
  BY <1>1, <1>2, <1>3, AtomicityMove

(* A step to another label. *)
LEMMA AtomicityGoto ==
    ASSUME TypeInv, AtomicityInv, NEW r \in Request, TablesKept,
           pc[r] \notin {"done", "crashed"}, faults' = faults \/ Fault,
           NEW label, label \notin {"rollback", "done"}, Goto(r, label)
    PROVE  AtomicityInv'
<1>1. pc'[r] = label /\ out'[r] = out[r] /\ err'[r] = err[r]
  BY DEF Goto, TypeInv, InvocationTypeOK
<1>2. \A s \in Request \ {r} :
         pc'[s] = pc[s] /\ out'[s] = out[s] /\ err'[s] = err[s]
  BY DEF Goto, TypeInv, InvocationTypeOK
<1>3. AnswerAt(r, label, out[r], err[r])
  BY NoAnswerYet DEF AnswerAt
<1> QED
  BY <1>1, <1>2, <1>3, AtomicityMove

(* An error returned to the unit of work. *)
LEMMA AtomicityAbort ==
    ASSUME TypeInv, AtomicityInv, NEW r \in Request, TablesKept,
           pc[r] \notin {"done", "crashed"}, faults' = faults \/ Fault,
           NEW error, error # "none", Abort(r, error),
           error = "conflict" => Outrun(r)
    PROVE  AtomicityInv'
<1>1. pc'[r] = "rollback" /\ out'[r] = out[r] /\ err'[r] = error
  BY DEF Abort, TypeInv, InvocationTypeOK
<1>2. \A s \in Request \ {r} :
         pc'[s] = pc[s] /\ out'[s] = out[s] /\ err'[s] = err[s]
  BY DEF Abort, TypeInv, InvocationTypeOK
<1>3. AnswerAt(r, "rollback", out[r], error)
  BY NoAnswerYet DEF AnswerAt
<1> QED
  BY <1>1, <1>2, <1>3, AtomicityMove

-----------------------------------------------------------------------------
(* The steps of an invocation before its COMMIT. *)

(* Validation, and the lookups outside the transaction. *)
LEMMA AtomicityReads ==
    ASSUME TypeInv, AtomicityInv, NEW r \in Request,
           \/ ReceiveRequest(r) \/ FindByTypeAndOrderID(r)
           \/ FindClientByID(r, "findAsset") \/ FindClientByID(r, "begin")
           \/ FindAssetByID(r) \/ ReplayAfterRace(r)
    PROVE  AtomicityInv'
<1>1. /\ TablesKept /\ faults' = faults
      /\ pc[r] \in {"idle", "findCommand", "findClient", "findAsset", "replay"}
  BY DEF ReceiveRequest, DepositReceive, WithdrawReceive, Receive,
         FindByTypeAndOrderID, FindClientByID, FindAssetByID, ReplayAfterRace,
         TablesKept, db
<1>2. CASE \E status \in {200, 409, 422, 500}, error \in ErrorKind : \E body :
              /\ Answer(r, status, error, body)
              /\ error # "conflict" /\ (error = "none" => status = 200)
  BY <1>1, <1>2, AtomicityAnswer
<1>3. CASE \E label \in {"findCommand", "findClient", "findAsset", "begin"} :
              Goto(r, label)
  BY <1>1, <1>3, AtomicityGoto
<1>4. CASE ReceiveRequest(r)
  BY <1>2, <1>3, <1>4
  DEF ReceiveRequest, DepositReceive, WithdrawReceive, Receive, ErrorKind
<1>5. CASE FindByTypeAndOrderID(r)
  BY <1>2, <1>3, <1>5 DEF FindByTypeAndOrderID, ErrorKind
<1>6. CASE FindClientByID(r, "findAsset") \/ FindClientByID(r, "begin")
  BY <1>2, <1>3, <1>6 DEF FindClientByID, ErrorKind
<1>7. CASE FindAssetByID(r)
  BY <1>2, <1>3, <1>7 DEF FindAssetByID, ErrorKind
<1>8. CASE ReplayAfterRace(r)
  BY <1>2, <1>8 DEF ReplayAfterRace, ErrorKind
<1> QED
  BY <1>4, <1>5, <1>6, <1>7, <1>8

(* The lot r was about to write changed after r read it, in the sale of   *)
(* another withdrawal.                                                     *)
LostRace(r, p) ==
    /\ p \in Position
    /\ p.positionID \in DOMAIN positions
    /\ positions[p.positionID].rowVersion >= p.rowVersion
    /\ Overtaken(r, p.positionID)

(* An UPDATE that finds another version has lost a race. *)
LEMMA ConflictIsLostRace ==
    ASSUME WalletInv, NEW r \in Request, pc[r] = "update",
           ~ VersionMatches(NextUpdate(r))
    PROVE  LostRace(r, NextUpdate(r)) /\ Outrun(r)
<1> DEFINE m == mem[r]
           p == NextUpdate(r)
<1>1. /\ m \in Memory /\ m.written + 1 \in 1..Len(m.held)
      /\ p = m.held[m.written + 1] /\ Selling(r, m)
  BY NextLot
<1>2. PICK toSell \in Int : SoldBy(r, p, m.sold[m.written + 1], toSell)
  BY <1>1, HeldLots DEF WalletInv
<1>3. PICK lot \in Position :
         /\ ReadBy(r, lot)
         /\ p = UpdateAmount(lot, lot.amount - m.sold[m.written + 1])
  BY <1>2 DEF SoldBy
<1>4. p.positionID = lot.positionID /\ p.rowVersion = lot.rowVersion + 1
      /\ lot.rowVersion \in Nat
  BY <1>3 DEF UpdateAmount, Position, PositionRecord
<1>5. positions[lot.positionID] # lot
  BY <1>4 DEF VersionMatches
<1>6. /\ lot.positionID \in DOMAIN positions
      /\ positions[lot.positionID].rowVersion > lot.rowVersion
      /\ Overtaken(r, lot.positionID)
  BY <1>3, <1>5 DEF ReadBy
<1>7. lot.positionID \in Lot /\ positions[lot.positionID].rowVersion \in Nat
  BY <1>6 DEF WalletInv, TypeInv, DatabaseTypeOK, IsTable, Position, PositionRecord
<1>8. LostRace(r, p)
  <2>1. p \in Position
    BY <1>1, MemoryType
  <2> QED
    BY <1>4, <1>6, <1>7, <2>1 DEF LostRace
<1>9. Outrun(r)
  BY <1>6, <1>7 DEF Outrun
<1> QED
  BY <1>8, <1>9

(* The statements of the transaction, up to the COMMIT. *)
LEMMA AtomicityWrites ==
    ASSUME WalletInv, AtomicityInv, NEW r \in Request,
           \/ Begin(r, "createPosition") \/ Begin(r, "findLots")
           \/ CreatePosition(r) \/ FindByClientAndInstrument(r) \/ SellFromLot(r)
           \/ UpdatePosition(r) \/ CreateProcessedCommand(r)
    PROVE  AtomicityInv'
<1>1. /\ TablesKept /\ faults' = faults
      /\ pc[r] \in {"begin", "createPosition", "findLots", "sell", "update",
                    "createCommand"}
  BY DEF Begin, BeginTx, CreatePosition, FindByClientAndInstrument, SellFromLot,
         UpdatePosition, CreateProcessedCommand, FailTx, WriteRow, WriteCommand,
         TablesKept, db
<1>2. TypeInv
  BY DEF WalletInv
<1>3. CASE \E label \in Label \ {"rollback", "done"} : Goto(r, label)
  BY <1>1, <1>2, <1>3, AtomicityGoto
<1>4. CASE \E error \in ErrorKind \ {"none", "conflict"} : Abort(r, error)
  BY <1>1, <1>2, <1>4, AtomicityAbort
<1>5. CASE pc[r] = "update" /\ ~ VersionMatches(NextUpdate(r)) /\ Abort(r, "conflict")
  BY <1>1, <1>2, <1>5, ConflictIsLostRace, AtomicityAbort
<1>6. CASE Begin(r, "createPosition") \/ Begin(r, "findLots")
  BY <1>3, <1>6 DEF Begin, Label
<1>7. CASE CreatePosition(r) \/ CreateProcessedCommand(r)
  BY <1>3, <1>4, <1>7 DEF CreatePosition, CreateProcessedCommand, Label, ErrorKind
<1>8. CASE FindByClientAndInstrument(r)
  BY <1>3, <1>4, <1>8 DEF FindByClientAndInstrument, Label, ErrorKind
<1>9. CASE SellFromLot(r)
  BY <1>3, <1>4, <1>9 DEF SellFromLot, Label, ErrorKind
<1>10. CASE UpdatePosition(r)
  BY <1>3, <1>4, <1>5, <1>10 DEF UpdatePosition, Label, ErrorKind
<1> QED
  BY <1>6, <1>7, <1>8, <1>9, <1>10

(* The ROLLBACK, whatever becomes of it, and the mapping of the error. *)
LEMMA AtomicityRollback ==
    ASSUME TypeInv, AtomicityInv, NEW r \in Request, NEW status, Rollback(r, status)
    PROVE  AtomicityInv'
<1>1. /\ TablesKept /\ (faults' = faults \/ Fault) /\ pc[r] = "rollback"
  BY DEF Rollback, RollbackTx, TablesKept, db
<1>2. err[r] # "none" /\ (err[r] = "conflict" => Outrun(r))
  BY <1>1 DEF AtomicityInv, AnswersOK, AnswerAt
<1>3. CASE Goto(r, "replay")
  BY <1>1, <1>3, AtomicityGoto
<1>4. CASE Answer(r, status, err[r], <<>>)
  BY <1>1, <1>2, <1>4, AtomicityAnswer
<1> QED
  BY <1>3, <1>4 DEF Rollback

-----------------------------------------------------------------------------
(* The COMMIT. *)

(* Being outrun is for ever. *)
LEMMA OutrunStays ==
    ASSUME req' = req, NEW r, Outrun(r),
           \A k \in DOMAIN commands : k \in DOMAIN commands' /\ commands'[k] = commands[k]
    PROVE  Outrun(r)'
<1>1. PICK l \in Lot : Overtaken(r, l)
  BY DEF Outrun
<1>2. Overtaken(r, l)'
  BY <1>1, OvertakenStays
<1> QED
  BY <1>2 DEF Outrun

(* The COMMIT of s makes a lot of s and its deposit command visible in one *)
(* step, or neither.                                                       *)
LEMMA CommitIsAtomic ==
    ASSUME WalletInv, DepositAtomic, NEW s \in Request, pc[s] = "commit", CommitTx(s),
           req' = req
    PROVE  DepositAtomic'
<1>1. /\ DOMAIN positions' = DOMAIN positions \cup DOMAIN pendingRows[s]
      /\ IsWithdraw(s) => DOMAIN positions' = DOMAIN positions
      /\ IsDeposit(s) => DOMAIN pendingRows[s] = {s}
  BY CommitEffect DEF WalletInv
<1>2. /\ DOMAIN commands' = DOMAIN commands \cup {KeyOf(s)}
      /\ KeyOf(s) \notin DOMAIN commands
      /\ commands'[KeyOf(s)].commandID = s
      /\ \A k \in DOMAIN commands : commands'[k] = commands[k]
  BY CommitRecords DEF WalletInv
<1>3. /\ IsDeposit(s) <=> KeyOf(s)[1] = "DEPOSIT"
      /\ IsDeposit(s) <=> ~ IsWithdraw(s)
  BY OneUseCase DEF KeyOf, IsDeposit, WalletInv, TypeInv
<1> SUFFICES ASSUME NEW r \in Request
             PROVE  r \in DOMAIN positions' <=>
                       \E k \in DOMAIN commands' :
                          k[1] = "DEPOSIT" /\ commands'[k].commandID = r
  BY DEF DepositAtomic
<1>4. r \in DOMAIN positions' <=> r \in DOMAIN positions \/ (r = s /\ IsDeposit(s))
  BY <1>1, <1>3
<1>5. (\E k \in DOMAIN commands' : k[1] = "DEPOSIT" /\ commands'[k].commandID = r)
        <=> \/ \E k \in DOMAIN commands : k[1] = "DEPOSIT" /\ commands[k].commandID = r
            \/ r = s /\ IsDeposit(s)
  BY <1>2, <1>3
<1> QED
  BY <1>4, <1>5 DEF DepositAtomic

(* The COMMIT of s, and what its invocation hears of it: success, an error *)
(* that is a failure's, or nothing.                                        *)
LEMMA AtomicityCommit ==
    ASSUME WalletInv, AtomicityInv, NEW s \in Request, pc[s] = "commit", CommitTx(s),
           req' = req, faults' = faults \/ Fault,
           \A r \in Request \ {s} :
              pc'[r] = pc[r] /\ out'[r] = out[r] /\ err'[r] = err[r],
           \/ pc'[s] = "crashed" /\ out'[s] = out[s]
           \/ pc'[s] = "done" /\ (Acknowledged(s)' \/ InDoubt(s)')
              /\ out'[s].error \in {"none", "other"}
    PROVE  AtomicityInv'
<1>1. /\ DOMAIN commands' = DOMAIN commands \cup {KeyOf(s)}
      /\ commands'[KeyOf(s)].commandID = s
      /\ commands'[KeyOf(s)].client = req[s].client
      /\ \A k \in DOMAIN commands : commands'[k] = commands[k]
  BY CommitRecords DEF WalletInv
<1>2. faults > 0 => faults' > 0
  BY DEF Fault, WalletInv, TypeInv, InvocationTypeOK
<1>3. DepositAtomic'
  BY CommitIsAtomic DEF AtomicityInv
<1>4. RecordIsOfItsRequest'
  <2>1. ASSUME NEW k \in DOMAIN commands', NEW r, r = commands'[k].commandID
        PROVE  /\ k = KeyOf(r) /\ commands'[k].client = req[r].client
               /\ pc'[r] \in {"done", "crashed"}
               /\ pc'[r] = "done" => Acknowledged(r)' \/ InDoubt(r)'
    <3>1. CASE k = KeyOf(s)
      BY <1>1, <2>1, <3>1
    <3>2. CASE k \in DOMAIN commands
      <4>1. r \in Request /\ r = commands[k].commandID
        BY <1>1, <2>1, <3>2
        DEF WalletInv, TypeInv, DatabaseTypeOK, IsTable, ProcessedCommand
      <4>2. /\ k = KeyOf(r) /\ commands[k].client = req[r].client
            /\ pc[r] \in {"done", "crashed"}
            /\ pc[r] = "done" => Acknowledged(r) \/ InDoubt(r)
        BY <3>2, <4>1 DEF AtomicityInv, RecordIsOfItsRequest
      <4>3. pc'[r] = pc[r] /\ out'[r] = out[r]
        BY <4>1, <4>2
      <4>4. (Acknowledged(r) => Acknowledged(r)') /\ (InDoubt(r) => InDoubt(r)')
        BY <1>2, <4>3 DEF Acknowledged, InDoubt, IsDeposit
      <4> QED
        BY <1>1, <3>2, <4>2, <4>3, <4>4
    <3> QED
      BY <1>1, <3>1, <3>2
  <2> QED
    BY <2>1 DEF RecordIsOfItsRequest, KeyOf, Acknowledged, InDoubt, IsDeposit
<1>5. AnswersOK'
  <2> SUFFICES ASSUME NEW r \in Request
               PROVE  AnswerAt(r, pc[r], out[r], err[r])'
    BY DEF AnswersOK
  <2>1. AnswerAt(r, pc[r], out[r], err[r])
    BY DEF AtomicityInv, AnswersOK
  <2>2. Outrun(r) => Outrun(r)'
    BY <1>1, OutrunStays
  <2>3. CASE r # s
    BY <2>1, <2>2, <2>3 DEF AnswerAt
  <2>4. CASE r = s /\ pc'[s] = "crashed" /\ out'[s] = out[s]
    BY <2>4, NoAnswerYet DEF AnswerAt
  <2>5. CASE r = s /\ pc'[s] = "done" /\ (Acknowledged(s)' \/ InDoubt(s)')
             /\ out'[s].error \in {"none", "other"}
    BY <2>5 DEF AnswerAt, Acknowledged, InDoubt
  <2> QED
    BY <2>3, <2>4, <2>5
<1> QED
  BY <1>3, <1>4, <1>5 DEF AtomicityInv

(* A COMMIT that is acknowledged, with the status of its use case. *)
LEMMA AtomicityCommitted ==
    ASSUME WalletInv, AtomicityInv, NEW r \in Request, NEW status,
           status = (IF IsDeposit(r) THEN 201 ELSE 200), Commit(r, status)
    PROVE  AtomicityInv'
<1>1. /\ pc[r] = "commit" /\ CommitTx(r) /\ req' = req /\ faults' = faults
      /\ Answer(r, status, "none", ToResponse(mem[r].held))
  BY DEF Commit
<1>2. /\ pc'[r] = "done" /\ out'[r].error = "none" /\ out'[r].status = status
      /\ \A s \in Request \ {r} :
            pc'[s] = pc[s] /\ out'[s] = out[s] /\ err'[s] = err[s]
  BY <1>1 DEF Answer, WalletInv, TypeInv, InvocationTypeOK
<1>3. Acknowledged(r)'
  BY <1>1, <1>2 DEF Acknowledged, IsDeposit
<1> QED
  BY <1>1, <1>2, <1>3, AtomicityCommit

(* Failures: of a statement, of the COMMIT, of the process. *)
LEMMA AtomicityFailure ==
    ASSUME WalletInv, AtomicityInv, NEW r \in Request,
           StatementFails(r) \/ CommitFails(r) \/ Crash(r)
    PROVE  AtomicityInv'
<1>1. req' = req /\ pc[r] \notin {"done", "crashed"} /\ Fault /\ TypeInv
  BY DEF StatementFails, CommitFails, Crash, WalletInv
<1>2. CASE FailTx(r) \/ UNCHANGED db
  <2>1. TablesKept
    BY <1>1, <1>2 DEF FailTx, db, TablesKept
  <2>2. CASE \E status \in {409, 500} : Answer(r, status, "other", <<>>)
    BY <1>1, <2>1, <2>2, AtomicityAnswer
  <2>3. CASE Abort(r, "other")
    BY <1>1, <2>1, <2>3, AtomicityAbort
  <2>4. CASE Crash(r)
    <3>1. /\ pc'[r] = "crashed" /\ out'[r] = out[r] /\ err'[r] = "none"
          /\ \A s \in Request \ {r} :
                pc'[s] = pc[s] /\ out'[s] = out[s] /\ err'[s] = err[s]
      BY <1>1, <2>4 DEF Crash, TypeInv, InvocationTypeOK
    <3>2. AnswerAt(r, "crashed", out[r], "none")
      BY <1>1, NoAnswerYet DEF AnswerAt
    <3> QED
      BY <1>1, <2>1, <3>1, <3>2, AtomicityMove
  <2> QED
    BY <2>2, <2>3, <2>4 DEF StatementFails, CommitFails
<1>3. CASE pc[r] = "commit" /\ CommitTx(r) /\ (CommitFails(r) \/ Crash(r))
  <2>1. \A s \in Request \ {r} :
           pc'[s] = pc[s] /\ out'[s] = out[s] /\ err'[s] = err[s]
    BY <1>1, <1>3 DEF CommitFails, Crash, Answer, TypeInv, InvocationTypeOK
  <2>2. CASE Crash(r)
    <3>1. pc'[r] = "crashed" /\ out'[r] = out[r]
      BY <1>1, <2>2 DEF Crash, TypeInv, InvocationTypeOK
    <3> QED
      BY <1>1, <1>3, <2>1, <3>1, AtomicityCommit
  <2>3. CASE CommitFails(r)
    <3>1. pc'[r] = "done" /\ out'[r].error = "other" /\ out'[r].status = 500
      BY <1>1, <2>3 DEF CommitFails, Answer, TypeInv, InvocationTypeOK
    <3>2. faults' > 0
      BY <1>1 DEF Fault, TypeInv, InvocationTypeOK
    <3>3. InDoubt(r)'
      BY <3>1, <3>2 DEF InDoubt
    <3> QED
      BY <1>1, <1>3, <2>1, <3>1, <3>3, AtomicityCommit
  <2> QED
    BY <1>3, <2>2, <2>3
<1> QED
  BY <1>2, <1>3 DEF StatementFails, CommitFails, Crash

-----------------------------------------------------------------------------
(* Every step of the wallet. *)

(* Nothing the invariant is about changes. *)
LEMMA AtomicitySame ==
    AtomicityInv /\ TablesKept /\ UNCHANGED invocation => AtomicityInv'
BY DEF TablesKept, invocation, AtomicityInv, DepositAtomic, RecordIsOfItsRequest,
       AnswersOK, AnswerAt, Acknowledged, InDoubt, Outrun, Overtaken, KeyOf, IsDeposit

(* The server: it drops a dead transaction or breaks a wait cycle. *)
LEMMA AtomicityServer ==
    ASSUME TypeInv, AtomicityInv, NEW r \in Request, Reap(r) \/ DeadlockVictim(r)
    PROVE  AtomicityInv'
<1>1. CASE Reap(r)
  <2>1. TablesKept /\ UNCHANGED invocation
    BY <1>1 DEF Reap, RollbackTx, TablesKept, invocation
  <2> QED
    BY <2>1, AtomicitySame
<1>2. CASE DeadlockVictim(r)
  <2>1. TablesKept /\ faults' = faults /\ Abort(r, "other")
    BY <1>2 DEF DeadlockVictim, FailTx, TablesKept
  <2>2. PICK S \in SUBSET Request : r \in S /\ IsWaitCycle(S)
    BY <1>2 DEF DeadlockVictim
  <2>3. Blockers(r) # {}
    BY <2>2 DEF IsWaitCycle
  <2>4. pc[r] \in {"update", "createCommand"}
    BY <2>3 DEF Blockers
  <2> QED
    BY <2>1, <2>4, AtomicityAbort
<1> QED
  BY <1>1, <1>2

(* One step of either use case. *)
LEMMA AtomicityStep ==
    ASSUME WalletInv, AtomicityInv, NEW r \in Request, Step(r)
    PROVE  AtomicityInv'
<1>1. TypeInv /\ (IsDeposit(r) <=> ~ IsWithdraw(r))
  BY OneUseCase DEF WalletInv, TypeInv
<1>2. CASE IsDeposit(r) /\ DepositStep(r)
  BY <1>1, <1>2, AtomicityReads, AtomicityWrites, AtomicityRollback, AtomicityCommitted
  DEF DepositStep
<1>3. CASE IsWithdraw(r) /\ WithdrawStep(r)
  BY <1>1, <1>3, AtomicityReads, AtomicityWrites, AtomicityRollback, AtomicityCommitted
  DEF WithdrawStep
<1> QED
  BY <1>2, <1>3 DEF Step

(* It holds before the first request. *)
LEMMA AtomicityInit == Init => AtomicityInv
<1> SUFFICES ASSUME Init PROVE AtomicityInv
  OBVIOUS
<1>1. DOMAIN commands = {}
  BY EmptyTableType DEF Init
<1>2. DepositAtomic
  BY <1>1, SeedAssumption, LotAssumption DEF Init, DepositAtomic, IsTable
<1>3. AnswersOK
  BY DEF Init, InvocationInit, AnswersOK, AnswerAt, NoResponse
<1> QED
  BY <1>1, <1>2, <1>3 DEF AtomicityInv, RecordIsOfItsRequest

(* Every step of the wallet preserves the invariant. *)
LEMMA AtomicityNext == WalletInv /\ AtomicityInv /\ [Next]_vars => AtomicityInv'
<1> SUFFICES ASSUME WalletInv, AtomicityInv, [Next]_vars PROVE AtomicityInv'
  OBVIOUS
<1>1. TypeInv
  BY DEF WalletInv
<1>2. CASE UNCHANGED vars
  BY <1>2, AtomicitySame DEF vars, TablesKept, invocation
<1>3. CASE Next
  BY <1>1, <1>2, <1>3, AtomicityReads, AtomicityStep, AtomicityFailure, AtomicityServer
  DEF Next, Quiescent
<1> QED
  BY <1>2, <1>3

(* Both invariants hold throughout. *)
LEMMA AtomicityInvariant == Spec => [](WalletInv /\ AtomicityInv)
<1>1. Init => WalletInv
  BY InitOK, IdempotencyInit, LotInit DEF WalletInv
<1>2. WalletInv /\ [Next]_vars => WalletInv'
  BY NextOK, IdempotencyNext, LotNext DEF WalletInv
<1> QED
  BY <1>1, <1>2, AtomicityInit, AtomicityNext, PTL DEF Spec

(***************************************************************************)
(* The unit of work is all or nothing: whatever statements, commits and    *)
(* processes fail, the lot a request created exists exactly when its       *)
(* deposit command is recorded.                                            *)
(***************************************************************************)
THEOREM DepositsAreAtomic == Spec => []DepositAtomic
<1>1. AtomicityInv => DepositAtomic
  BY DEF AtomicityInv
<1> QED
  BY <1>1, AtomicityInvariant, PTL

(***************************************************************************)
(* A refusal is final: an invocation answered with 404, 409 or 422 stored  *)
(* no lot and no command, and the 409 of a lost race, of a conflict and of *)
(* a failed replay are no exception.                                       *)
(***************************************************************************)
THEOREM RefusalsHaveNoEffect == Spec => []RejectedHasNoEffect
<1>1. WalletInv /\ AtomicityInv => RejectedHasNoEffect
  <2> SUFFICES ASSUME WalletInv, AtomicityInv, NEW r \in Request,
                      out[r].status \in {404, 409, 422}
               PROVE  /\ r \notin DOMAIN positions
                      /\ \A k \in DOMAIN commands : commands[k].commandID # r
    BY DEF RejectedHasNoEffect
  <2>1. pc[r] = "done"
    <3>1. NoResponse.status = 0
      BY DEF NoResponse
    <3> QED
      BY <3>1, NoAnswerYet
  <2>2. \A k \in DOMAIN commands : commands[k].commandID # r
    <3> SUFFICES ASSUME NEW k \in DOMAIN commands, commands[k].commandID = r
                 PROVE  FALSE
      OBVIOUS
    <3>1. Acknowledged(r) \/ InDoubt(r)
      BY <2>1 DEF AtomicityInv, RecordIsOfItsRequest
    <3> QED
      BY <3>1 DEF Acknowledged, InDoubt
  <2> QED
    BY <2>2 DEF AtomicityInv, DepositAtomic
<1> QED
  BY <1>1, AtomicityInvariant, PTL

-----------------------------------------------------------------------------
(* Conflicts. *)

(* An invocation that gives up with a conflict has lost a race for the lot *)
(* it was about to write.                                                  *)
ConflictInv ==
    \A r \in Request : err[r] = "conflict" =>
        pc[r] = "rollback" /\ LostRace(r, NextUpdate(r))

(* A lost race stays lost: rows are not deleted and versions only grow. *)
LEMMA LostRaceStays ==
    ASSUME WalletInv, [Next]_vars, NEW r \in Request, NEW p, LostRace(r, p)
    PROVE  LostRace(r, p)'
<1> DEFINE l == p.positionID
<1>1. /\ l \in DOMAIN positions /\ Overtaken(r, l)
      /\ positions[l].rowVersion >= p.rowVersion
      /\ positions[l].rowVersion \in Nat /\ p.rowVersion \in Nat
  BY DEF LostRace, WalletInv, TypeInv, DatabaseTypeOK, IsTable, Position, PositionRecord
<1>2. /\ req' = req
      /\ \/ positions' = positions /\ commands' = commands
         \/ \E s \in Request : pc[s] = "commit" /\ CommitTx(s)
  BY OnlyCommits
<1>3. CASE positions' = positions /\ commands' = commands
  BY <1>1, <1>2, <1>3, OvertakenStays DEF LostRace
<1>4. ASSUME NEW s \in Request, pc[s] = "commit", CommitTx(s)
      PROVE  LostRace(r, p)'
  <2>1. /\ l \in DOMAIN positions'
        /\ positions'[l] = positions[l] \/ IsDebit(s, l)
    BY <1>1, <1>4, CommitEffect DEF WalletInv
  <2>2. positions'[l].rowVersion >= p.rowVersion
    BY <1>1, <2>1 DEF IsDebit
  <2>3. \A k \in DOMAIN commands : k \in DOMAIN commands' /\ commands'[k] = commands[k]
    BY <1>4, CommitRecords DEF WalletInv
  <2>4. Overtaken(r, l)'
    BY <1>1, <1>2, <2>3, OvertakenStays
  <2> QED
    BY <2>1, <2>2, <2>4 DEF LostRace
<1> QED
  BY <1>2, <1>3, <1>4

(* r moves alone and does not end in a conflict. *)
NoConflict(r) == OnlyMoves(r) /\ err'[r] # "conflict"

(* A step of r that answers, moves on or aborts. *)
LEMMA ConflictFree ==
    ASSUME TypeInv, ConflictInv, NEW r \in Request,
           \/ \E status, error, body : Answer(r, status, error, body)
           \/ \E label :
                 /\ Goto(r, label)
                 /\ UNCHANGED mem \/ \E m : mem' = [mem EXCEPT ![r] = m]
                 /\ pc[r] # "rollback" \/ err[r] = "duplicate"
           \/ \E error : error # "conflict" /\ Abort(r, error)
    PROVE  NoConflict(r)
BY DEF Answer, Goto, Abort, TypeInv, InvocationTypeOK, ConflictInv, NoConflict, OnlyMoves

(* A step of r ends without a conflict, or is its lost race. *)
LEMMA ConflictStep ==
    ASSUME WalletInv, ConflictInv, NEW r \in Request,
           \/ ReceiveRequest(r) \/ Step(r) \/ StatementFails(r) \/ CommitFails(r)
           \/ Crash(r) \/ DeadlockVictim(r)
    PROVE  \/ NoConflict(r)
           \/ LostRace(r, NextUpdate(r)) /\ Abort(r, "conflict")
<1>1. TypeInv
  BY DEF WalletInv
<1>2. CASE ReceiveRequest(r)
  BY <1>1, <1>2, ConflictFree
  DEF ReceiveRequest, DepositReceive, WithdrawReceive, Receive
<1>3. CASE \/ FindByTypeAndOrderID(r) \/ FindAssetByID(r) \/ ReplayAfterRace(r)
           \/ FindClientByID(r, "findAsset") \/ FindClientByID(r, "begin")
           \/ Begin(r, "createPosition") \/ Begin(r, "findLots")
  BY <1>1, <1>3, ConflictFree
  DEF FindByTypeAndOrderID, FindAssetByID, FindClientByID, ReplayAfterRace, Begin
<1>4. CASE CreatePosition(r) \/ CreateProcessedCommand(r)
  BY <1>1, <1>4, ConflictFree DEF CreatePosition, CreateProcessedCommand
<1>5. CASE FindByClientAndInstrument(r)
  BY <1>1, <1>5, ConflictFree DEF FindByClientAndInstrument
<1>6. CASE SellFromLot(r)
  BY <1>1, <1>6, ConflictFree DEF SellFromLot
<1>7. CASE UpdatePosition(r)
  <2>1. CASE ~ VersionMatches(NextUpdate(r)) /\ Abort(r, "conflict")
    BY <1>7, <2>1, ConflictIsLostRace DEF UpdatePosition
  <2>2. CASE Abort(r, "other")
    BY <1>1, <2>2, ConflictFree
  <2>3. CASE /\ mem' = [mem EXCEPT ![r].written = @ + 1] /\ pc[r] = "update"
             /\ \E label : Goto(r, label)
    <3>1. \E m : mem' = [mem EXCEPT ![r] = m]
      BY <2>3
    <3> QED
      BY <1>1, <2>3, <3>1, ConflictFree
  <2> QED
    BY <1>7, <2>1, <2>2, <2>3 DEF UpdatePosition
<1>8. CASE Commit(r, 200) \/ Commit(r, 201)
  BY <1>1, <1>8, ConflictFree DEF Commit
<1>9. CASE \E status : Rollback(r, status)
  BY <1>1, <1>9, ConflictFree DEF Rollback
<1>10. CASE StatementFails(r) \/ CommitFails(r) \/ DeadlockVictim(r)
  BY <1>1, <1>10, ConflictFree DEF StatementFails, CommitFails, DeadlockVictim
<1>11. CASE Crash(r)
  BY <1>1, <1>11 DEF Crash, TypeInv, InvocationTypeOK, NoConflict, OnlyMoves
<1>12. CASE DepositStep(r)
  BY <1>3, <1>4, <1>8, <1>9, <1>12 DEF DepositStep
<1>13. CASE WithdrawStep(r)
  BY <1>3, <1>4, <1>5, <1>6, <1>7, <1>8, <1>9, <1>13 DEF WithdrawStep
<1> QED
  BY <1>2, <1>10, <1>11, <1>12, <1>13 DEF Step

(* A conflict is in the error of one that has lost a race and keeps its    *)
(* memory.                                                                 *)
LEMMA ConflictComes ==
    ASSUME WalletInv, ConflictInv, [Next]_vars, NEW r \in Request, err'[r] = "conflict"
    PROVE  pc'[r] = "rollback" /\ mem'[r] = mem[r] /\ LostRace(r, NextUpdate(r))
<1>1. CASE pc'[r] = pc[r] /\ err'[r] = err[r] /\ mem'[r] = mem[r]
  BY <1>1 DEF ConflictInv
<1>2. CASE Abort(r, "conflict") /\ LostRace(r, NextUpdate(r))
  BY <1>2 DEF Abort, WalletInv, TypeInv, InvocationTypeOK
<1>3. ASSUME NEW s \in Request,
             \/ ReceiveRequest(s) \/ Step(s) \/ StatementFails(s) \/ CommitFails(s)
             \/ Crash(s) \/ DeadlockVictim(s)
      PROVE  pc'[r] = "rollback" /\ mem'[r] = mem[r] /\ LostRace(r, NextUpdate(r))
  <2>1. CASE NoConflict(s)
    BY <1>1, <2>1 DEF NoConflict, OnlyMoves
  <2>2. CASE LostRace(s, NextUpdate(s)) /\ Abort(s, "conflict")
    <3>1. CASE r = s
      BY <1>2, <2>2, <3>1
    <3>2. CASE r # s
      BY <1>1, <2>2, <3>2 DEF Abort, WalletInv, TypeInv, InvocationTypeOK
    <3> QED
      BY <3>1, <3>2
  <2> QED
    BY <1>3, <2>1, <2>2, ConflictStep
<1>4. CASE UNCHANGED vars \/ \E s \in Request : Reap(s)
  BY <1>1, <1>4 DEF vars, Reap, invocation
<1> QED
  BY <1>3, <1>4 DEF Next, Quiescent

(* Who gives up with a conflict has lost a race. *)
LEMMA ConflictInvariant == Spec => []ConflictInv
<1>1. Init => ConflictInv
  BY DEF Init, InvocationInit, ConflictInv
<1>2. WalletInv /\ ConflictInv /\ [Next]_vars => ConflictInv'
  <2> SUFFICES ASSUME WalletInv, ConflictInv, [Next]_vars, NEW r \in Request,
                      err'[r] = "conflict"
               PROVE  pc'[r] = "rollback" /\ LostRace(r, NextUpdate(r))'
    BY DEF ConflictInv
  <2>1. pc'[r] = "rollback" /\ mem'[r] = mem[r] /\ LostRace(r, NextUpdate(r))
    BY ConflictComes
  <2>2. PICK p : p = NextUpdate(r)
    OBVIOUS
  <2>3. NextUpdate(r)' = p
    BY <2>1, <2>2 DEF NextUpdate
  <2>4. LostRace(r, p)'
    BY <2>1, <2>2, LostRaceStays
  <2>5. LostRace(r, NextUpdate(r))'
    BY <2>3, <2>4 DEF LostRace
  <2> QED
    BY <2>1, <2>5
<1> QED
  BY <1>1, <1>2, WalletInvariant, PTL DEF Spec

-----------------------------------------------------------------------------
(* Snapshots. *)

(* A deposit whose numbers have no more digits than the columns. *)
AtColumnScale(q) ==
    /\ ToScale(q.amount, AmountQuantum) = q.amount
    /\ ToScale(q.unitPrice, PriceQuantum) = q.unitPrice

(* What is recorded of withdrawals, and of such deposits, is what is       *)
(* stored.                                                                 *)
SnapshotExact ==
    \A k \in NewKeys :
        LET r == commands'[k].commandID
            s == commands'[k].responseSnapshot
        IN  (k[1] = "DEPOSIT" => AtColumnScale(req[r])) =>
              \A i \in DOMAIN s : ToDTO(positions'[s[i].positionID]) = s[i]

(* What an invocation about to commit holds is what its COMMIT stores. *)
LEMMA CommitStoresExactly ==
    ASSUME WalletInv, NEW s \in Request, pc[s] = "commit", CommitTx(s),
           IsDeposit(s) => AtColumnScale(req[s]), NEW i \in 1..Len(mem[s].held)
    PROVE  positions'[mem[s].held[i].positionID] = mem[s].held[i]
<1> DEFINE p == mem[s].held[i]
<1>1. \A l \in DOMAIN pendingRows[s] : positions'[l] = pendingRows[s][l]
  BY CommitEffect DEF WalletInv
<1>2. LotsAt(s, "commit", mem[s], pendingRows[s], DOMAIN pendingCommands[s])
  BY DEF WalletInv, LotInv, InvocationLots
<1>3. CASE IsDeposit(s)
  <2>1. /\ i = 1 /\ IsNewLot(s, p) /\ Storable(p)
        /\ DOMAIN pendingRows[s] = {s} /\ pendingRows[s][s] = Coerce(p)
    <3>1. /\ Len(mem[s].held) = 1 /\ IsNewLot(s, mem[s].held[1])
          /\ Storable(mem[s].held[1])
          /\ DOMAIN pendingRows[s] = {s}
          /\ pendingRows[s][s] = Coerce(mem[s].held[1])
      BY <1>2, <1>3 DEF LotsAt
    <3>2. i = 1
      BY <3>1
    <3> QED
      BY <3>1, <3>2
  <2>2. p \in Position
    BY MemoryType DEF WalletInv, TypeInv, InvocationTypeOK
  <2> HIDE DEF p
  <2>3. /\ p.positionID = s
        /\ p.amount = req[s].amount /\ p.unitPrice = req[s].unitPrice
    BY <2>1 DEF IsNewLot, NewPosition
  <2>4. Coerce(p) = p
    BY <1>3, <2>1, <2>2, <2>3, CoerceExact DEF AtColumnScale
  <2>5. positions'[p.positionID] = p
    BY <1>1, <2>1, <2>3, <2>4
  <2> QED
    BY <2>5 DEF p
<1>4. CASE IsWithdraw(s)
  <2>1. Written(mem[s], pendingRows[s]) /\ mem[s].written = Len(mem[s].held)
    BY <1>2, <1>4 DEF LotsAt
  <2>2. p.positionID \in DOMAIN pendingRows[s] /\ pendingRows[s][p.positionID] = p
    BY <2>1 DEF Written
  <2> QED
    BY <1>1, <2>2
<1> QED
  BY <1>3, <1>4, OneUseCase DEF WalletInv, TypeInv

(***************************************************************************)
(* What is replayed is what was stored: every withdrawal records the very  *)
(* rows it commits, although it computed them in memory, and so does every *)
(* deposit of numbers that fit the columns' scales.  Only a deposit with   *)
(* more digits, which is rounded by the INSERT, is recorded otherwise.     *)
(***************************************************************************)
THEOREM SnapshotsAreExact == Spec => [][SnapshotExact]_vars
<1>1. WalletInv /\ [Next]_vars => SnapshotExact
  <2> SUFFICES ASSUME WalletInv, [Next]_vars, NEW k \in NewKeys,
                      k[1] = "DEPOSIT" => AtColumnScale(req[commands'[k].commandID]),
                      NEW i \in DOMAIN commands'[k].responseSnapshot
               PROVE  LET s == commands'[k].responseSnapshot
                      IN  ToDTO(positions'[s[i].positionID]) = s[i]
    BY DEF SnapshotExact
  <2>1. PICK s \in Request : pc[s] = "commit" /\ CommitTx(s)
    BY OnlyCommits DEF NewKeys
  <2> DEFINE m == mem[s]
             p == m.held[i]
  <2>2. /\ k = KeyOf(s) /\ commands'[k].commandID = s
        /\ commands'[k].responseSnapshot = ToResponse(m.held)
    <3>1. /\ DOMAIN commands' = DOMAIN commands \cup {KeyOf(s)}
          /\ commands'[KeyOf(s)].commandID = s
          /\ commands'[KeyOf(s)].responseSnapshot = ToResponse(m.held)
      BY <2>1, CommitRecords DEF WalletInv
    <3>2. k = KeyOf(s)
      BY <3>1 DEF NewKeys
    <3> QED
      BY <3>1, <3>2
  <2>3. IsDeposit(s) => AtColumnScale(req[s])
    BY <2>2 DEF KeyOf, IsDeposit
  <2>4. m.held \in Seq(Position)
    BY MemoryType DEF WalletInv, TypeInv, InvocationTypeOK
  <2>5. i \in 1..Len(m.held) /\ commands'[k].responseSnapshot[i] = ToDTO(p)
    BY <2>2, <2>4 DEF ToResponse
  <2>6. positions'[p.positionID] = p
    BY <2>1, <2>3, <2>5, CommitStoresExactly
  <2>7. ToDTO(p).positionID = p.positionID
    BY DEF ToDTO
  <2> HIDE DEF p
  <2> QED
    BY <2>5, <2>6, <2>7
<1> QED
  BY <1>1, WalletInvariant, PTL DEF Spec

(* So where every deposit fits the columns, every snapshot is the stored   *)
(* state.                                                                  *)
THEOREM SnapshotsAreStored ==
    ASSUME \A q \in Inputs : q.type = "DEPOSIT" => AtColumnScale(q)
    PROVE  Spec => SnapshotIsStoredState
<1> DEFINE Stored ==
             \A k \in NewKeys :
               LET s == commands'[k].responseSnapshot
               IN  \A i \in DOMAIN s : ToDTO(positions'[s[i].positionID]) = s[i]
<1>1. WalletInv /\ [Next]_vars /\ SnapshotExact => Stored
  <2> SUFFICES ASSUME WalletInv, [Next]_vars, SnapshotExact, NEW k \in NewKeys
               PROVE  LET s == commands'[k].responseSnapshot
                      IN  \A i \in DOMAIN s : ToDTO(positions'[s[i].positionID]) = s[i]
    OBVIOUS
  <2>1. PICK s \in Request : pc[s] = "commit" /\ CommitTx(s)
    BY OnlyCommits DEF NewKeys
  <2>2. k = KeyOf(s) /\ commands'[k].commandID = s
    <3>1. /\ DOMAIN commands' = DOMAIN commands \cup {KeyOf(s)}
          /\ commands'[KeyOf(s)].commandID = s
      BY <2>1, CommitRecords DEF WalletInv
    <3> QED
      BY <3>1 DEF NewKeys
  <2>3. req[s] \in Inputs /\ k[1] = req[s].type
    BY <2>2 DEF WalletInv, TypeInv, InvocationTypeOK, KeyOf
  <2>4. k[1] = "DEPOSIT" => AtColumnScale(req[commands'[k].commandID])
    BY <2>2, <2>3
  <2> QED
    BY <2>4 DEF SnapshotExact
<1> HIDE DEF Stored
<1>2. Spec => [][Stored]_vars
  BY <1>1, SnapshotsAreExact, WalletInvariant, PTL DEF Spec
<1> QED
  BY <1>2 DEF SnapshotIsStoredState, Stored
=============================================================================
