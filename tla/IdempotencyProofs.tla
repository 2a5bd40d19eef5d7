------------------------- MODULE IdempotencyProofs -------------------------
(***************************************************************************)
(* Idempotency of the wallet, for any number of requests, orders and       *)
(* failures: a successful answer is the recorded one.                      *)
(*                                                                         *)
(* SuccessMatchesRecord is not inductive: that a COMMIT keeps what was     *)
(* recorded, and records what it answers, depends on what the transaction  *)
(* holds.  Three facts about uncommitted commands close the gap.           *)
(***************************************************************************)
EXTENDS WalletProofs

USE DEF CommandFound, ClientFound, AssetFound

(* A transaction inserts the command of its own request only, under a key  *)
(* that is not recorded yet.                                               *)
PendingIsNew ==
    \A r \in Request : \A k \in DOMAIN pendingCommands[r] :
        /\ k = KeyOf(r)
        /\ k \notin DOMAIN commands
        /\ pendingCommands[r][k].commandID = r

(* No two transactions hold the same key of the unique index. *)
PendingExclusive ==
    \A r, s \in Request : r # s =>
        DOMAIN pendingCommands[r] \cap DOMAIN pendingCommands[s] = {}

(* A transaction about to commit has inserted its command, with the        *)
(* response that will be answered.                                         *)
CommitHasCommand ==
    \A r \in Request : pc[r] = "commit" =>
        /\ KeyOf(r) \in DOMAIN pendingCommands[r]
        /\ pendingCommands[r][KeyOf(r)].responseSnapshot = ToResponse(mem[r].held)

IdempotencyInv ==
    /\ PendingIsNew
    /\ PendingExclusive
    /\ CommitHasCommand
    /\ SuccessMatchesRecord

-----------------------------------------------------------------------------
(* Steps that record no command and insert none: they keep every command   *)
(* or drop one transaction's, bring no invocation to its COMMIT, and any   *)
(* success they answer is a replay.                                        *)

IsReplay(s, answer) ==
    /\ answer.status = 200
    /\ KeyOf(s) \in DOMAIN commands
    /\ answer.body = commands[KeyOf(s)].responseSnapshot

QuietStep ==
    /\ commands' = commands
    /\ req' = req
    /\ \A s \in Request :
          /\ pendingCommands'[s] \in {pendingCommands[s], EmptyTable}
          /\ pc'[s] = "commit" =>
                /\ pc[s] = "commit"
                /\ mem'[s] = mem[s]
                /\ pendingCommands'[s] = pendingCommands[s]
          /\ out'[s].status \in {200, 201} =>
                out'[s] = out[s] \/ IsReplay(s, out'[s])

(* A quiet step preserves the invariant. *)
LEMMA QuietKeeps ==
    ASSUME IdempotencyInv, QuietStep
    PROVE  IdempotencyInv'
<1> USE DEF IdempotencyInv
<1>1. \A s \in Request : KeyOf(s)' = KeyOf(s)
  BY DEF QuietStep, KeyOf
<1>2. \A s \in Request :
         /\ DOMAIN pendingCommands'[s] \subseteq DOMAIN pendingCommands[s]
         /\ \A k \in DOMAIN pendingCommands'[s] :
               pendingCommands'[s][k] = pendingCommands[s][k]
  BY EmptyTableType DEF QuietStep
<1>3. PendingIsNew'
  BY <1>1, <1>2 DEF PendingIsNew, QuietStep
<1>4. PendingExclusive'
  BY <1>2 DEF PendingExclusive
<1>5. CommitHasCommand'
  BY <1>1 DEF CommitHasCommand, QuietStep
<1>6. SuccessMatchesRecord'
  <2> SUFFICES ASSUME NEW s \in Request, out'[s].status \in {200, 201}
               PROVE  /\ KeyOf(s) \in DOMAIN commands
                      /\ commands[KeyOf(s)].responseSnapshot = out'[s].body
                      /\ out'[s].status = 201 => commands[KeyOf(s)].commandID = s
    BY <1>1 DEF SuccessMatchesRecord, QuietStep
  <2>1. CASE out'[s] = out[s]
    BY <2>1 DEF SuccessMatchesRecord
  <2>2. CASE IsReplay(s, out'[s])
    BY <2>2 DEF IsReplay
  <2> QED
    BY <2>1, <2>2 DEF QuietStep
<1> QED
  BY <1>3, <1>4, <1>5, <1>6

-----------------------------------------------------------------------------
(* The parts of quiet steps. *)

(* The database's transactions keep their commands, or r's is dropped. *)
CommandsKept == commands' = commands /\ pendingCommands' = pendingCommands

CommandsDropped(r) ==
    /\ commands' = commands
    /\ pendingCommands' = [pendingCommands EXCEPT ![r] = EmptyTable]

(* Moving on to any label but the COMMIT is quiet. *)
LEMMA MoveQuiet ==
    ASSUME TypeInv, NEW r \in Request, NEW label,
           label # "commit", pc' = [pc EXCEPT ![r] = label],
           \A s \in Request \ {r} : mem'[s] = mem[s],
           CommandsKept \/ CommandsDropped(r), req' = req, out' = out
    PROVE  QuietStep
<1>1. \A s \in Request : /\ s # r => pc'[s] = pc[s]
                         /\ s = r => pc'[s] # "commit"
  BY DEF TypeInv, InvocationTypeOK
<1>2. \A s \in Request :
         /\ pendingCommands'[s] \in {pendingCommands[s], EmptyTable}
         /\ s # r => pendingCommands'[s] = pendingCommands[s]
  BY DEF TypeInv, DatabaseTypeOK, CommandsKept, CommandsDropped
<1>3. commands' = commands
  BY DEF CommandsKept, CommandsDropped
<1> QED
  BY <1>1, <1>2, <1>3 DEF QuietStep

(* Answering an error, or replaying the recorded response, is quiet. *)
LEMMA AnswerQuiet ==
    ASSUME TypeInv, NEW r \in Request, NEW status, NEW error, NEW body,
           Answer(r, status, error, body),
           \/ status \notin {200, 201}
           \/ /\ status = 200 /\ KeyOf(r) \in DOMAIN commands
              /\ body = commands[KeyOf(r)].responseSnapshot,
           CommandsKept \/ CommandsDropped(r), req' = req
    PROVE  QuietStep
<1>1. \A s \in Request : /\ s # r => pc'[s] = pc[s] /\ mem'[s] = mem[s]
                         /\ s = r => pc'[s] # "commit"
  BY DEF TypeInv, InvocationTypeOK, Answer
<1>2. \A s \in Request :
         /\ pendingCommands'[s] \in {pendingCommands[s], EmptyTable}
         /\ s # r => pendingCommands'[s] = pendingCommands[s]
  BY DEF TypeInv, DatabaseTypeOK, CommandsKept, CommandsDropped
<1>3. commands' = commands
  BY DEF CommandsKept, CommandsDropped
<1>4. \A s \in Request : s # r => out'[s] = out[s]
  BY DEF TypeInv, InvocationTypeOK, Answer
<1>5. out'[r].status = status /\ out'[r].body = body
  BY DEF TypeInv, InvocationTypeOK, Answer
<1>6. out'[r].status \in {200, 201} => IsReplay(r, out'[r])
  BY <1>5 DEF IsReplay
<1> QED
  BY <1>1, <1>2, <1>3, <1>4, <1>6 DEF QuietStep

(* An unchanged database keeps the commands; a refused statement and a     *)
(* rollback drop r's.                                                      *)
LEMMA DatabaseKeeps == UNCHANGED db => CommandsKept
BY DEF db, CommandsKept

(* A refused statement drops the uncommitted command of r. *)
LEMMA FailDrops ==
    ASSUME NEW r, FailTx(r)
    PROVE  CommandsDropped(r)
BY DEF FailTx, CommandsDropped

(* So does a rollback. *)
LEMMA RollbackDrops ==
    ASSUME NEW r, RollbackTx(r)
    PROVE  CommandsDropped(r)
BY DEF RollbackTx, EndTx, CommandsDropped

(* Writing a lot touches no command. *)
LEMMA WriteRowKeeps ==
    ASSUME NEW r, NEW p, WriteRow(r, p)
    PROVE  CommandsKept
BY DEF WriteRow, CommandsKept

(* Going on, or returning an error to the unit of work, is quiet. *)
LEMMA GotoQuiet ==
    ASSUME TypeInv, NEW r \in Request, NEW label, label # "commit",
           Goto(r, label), \A s \in Request \ {r} : mem'[s] = mem[s],
           CommandsKept \/ CommandsDropped(r), req' = req
    PROVE  QuietStep
BY MoveQuiet DEF Goto

(* Returning an error to the unit of work is quiet. *)
LEMMA AbortQuiet ==
    ASSUME TypeInv, NEW r \in Request, NEW error, Abort(r, error),
           CommandsKept \/ CommandsDropped(r), req' = req
    PROVE  QuietStep
<1>1. \A s \in Request \ {r} : mem'[s] = mem[s]
  BY DEF Abort
<1> QED
  BY <1>1, MoveQuiet DEF Abort

-----------------------------------------------------------------------------
(* The two steps that are not quiet. *)

(* The insert: the index admits a key nobody recorded and nobody holds. *)
LEMMA InsertKeeps ==
    ASSUME TypeInv, IdempotencyInv, NEW r \in Request, pc[r] = "createCommand",
           KeyOf(r) \notin DOMAIN commands, KeyHolders(r, KeyOf(r)) = {},
           WriteCommand(r, KeyOf(r),
              NewProcessedCommand(r, req[r].client, ToResponse(mem[r].held))),
           Goto(r, "commit"), mem' = mem, req' = req
    PROVE  IdempotencyInv'
<1> DEFINE key == KeyOf(r)
           c == NewProcessedCommand(r, req[r].client, ToResponse(mem[r].held))
<1>1. /\ commands' = commands /\ out' = out
      /\ \A s \in Request : KeyOf(s)' = KeyOf(s)
  BY DEF WriteCommand, Goto, KeyOf
<1>2. /\ \A s \in Request \ {r} : pendingCommands'[s] = pendingCommands[s]
      /\ pendingCommands'[r] = Put(pendingCommands[r], key, c)
  BY DEF TypeInv, DatabaseTypeOK, WriteCommand
<1>3. /\ DOMAIN pendingCommands'[r] = DOMAIN pendingCommands[r] \cup {key}
      /\ pendingCommands'[r][key] = c
  BY <1>2 DEF Put
<1>4. DOMAIN pendingCommands'[r] = {key}
  BY <1>3 DEF IdempotencyInv, PendingIsNew
<1>5. c.commandID = r /\ c.responseSnapshot = ToResponse(mem[r].held)
  BY DEF NewProcessedCommand
<1>6. PendingIsNew'
  BY <1>1, <1>2, <1>3, <1>4, <1>5 DEF IdempotencyInv, PendingIsNew
<1>7. PendingExclusive'
  <2>1. \A s \in Request \ {r} : key \notin DOMAIN pendingCommands[s]
    BY DEF KeyHolders
  <2> QED
    BY <1>2, <1>4, <2>1 DEF IdempotencyInv, PendingExclusive
<1>8. CommitHasCommand'
  <2>1. \A s \in Request \ {r} : pc'[s] = pc[s]
    BY DEF TypeInv, InvocationTypeOK, Goto
  <2> QED
    BY <1>1, <1>2, <1>3, <1>5, <2>1 DEF IdempotencyInv, CommitHasCommand
<1>9. SuccessMatchesRecord'
  BY <1>1 DEF IdempotencyInv, SuccessMatchesRecord
<1> QED
  BY <1>6, <1>7, <1>8, <1>9 DEF IdempotencyInv

(* A COMMIT carried out, whether it is acknowledged with the response it   *)
(* recorded, answered as an error, or the caller is gone.                  *)
LEMMA CommitKeeps ==
    ASSUME TypeInv, IdempotencyInv, NEW r \in Request, pc[r] = "commit",
           CommitTx(r), pc'[r] # "commit", req' = req,
           \A s \in Request \ {r} :
              pc'[s] = pc[s] /\ mem'[s] = mem[s] /\ out'[s] = out[s],
           \/ out'[r] = out[r]
           \/ out'[r].status \notin {200, 201}
           \/ out'[r].body = ToResponse(mem[r].held)
    PROVE  IdempotencyInv'
<1> DEFINE key == KeyOf(r)
<1>1. \A s \in Request : KeyOf(s)' = KeyOf(s)
  BY DEF KeyOf
<1>2. /\ pendingCommands'[r] = EmptyTable
      /\ \A s \in Request \ {r} : pendingCommands'[s] = pendingCommands[s]
  BY DEF TypeInv, DatabaseTypeOK, CommitTx, EndTx
<1>3. DOMAIN pendingCommands'[r] = {}
  BY <1>2, EmptyTableType
<1>4. /\ DOMAIN pendingCommands[r] = {key}
      /\ pendingCommands[r][key].commandID = r
      /\ pendingCommands[r][key].responseSnapshot = ToResponse(mem[r].held)
      /\ key \notin DOMAIN commands
  BY DEF IdempotencyInv, PendingIsNew, CommitHasCommand
<1>5. /\ DOMAIN commands' = DOMAIN commands \cup {key}
      /\ commands'[key] = pendingCommands[r][key]
      /\ \A k \in DOMAIN commands : commands'[k] = commands[k]
  BY <1>4 DEF CommitTx, PutAll
<1>6. PendingIsNew'
  <2>1. \A s \in Request \ {r} : key \notin DOMAIN pendingCommands[s]
    BY <1>4 DEF IdempotencyInv, PendingExclusive
  <2> QED
    BY <1>1, <1>2, <1>3, <1>5, <2>1 DEF IdempotencyInv, PendingIsNew
<1>7. PendingExclusive'
  BY <1>2, <1>3 DEF IdempotencyInv, PendingExclusive
<1>8. CommitHasCommand'
  BY <1>1, <1>2 DEF IdempotencyInv, CommitHasCommand
<1>9. SuccessMatchesRecord'
  <2> SUFFICES ASSUME NEW s \in Request, out'[s].status \in {200, 201}
               PROVE  /\ KeyOf(s) \in DOMAIN commands'
                      /\ commands'[KeyOf(s)].responseSnapshot = out'[s].body
                      /\ out'[s].status = 201 => commands'[KeyOf(s)].commandID = s
    BY <1>1 DEF SuccessMatchesRecord
  <2>1. CASE out'[s] = out[s]
    BY <1>5, <2>1 DEF IdempotencyInv, SuccessMatchesRecord
  <2>2. CASE s = r /\ out'[s].body = ToResponse(mem[r].held)
    BY <1>4, <1>5, <2>2
  <2> QED
    BY <2>1, <2>2
<1> QED
  BY <1>6, <1>7, <1>8, <1>9 DEF IdempotencyInv

-----------------------------------------------------------------------------
(* Initially nothing is pending, recorded or answered. *)
LEMMA IdempotencyInit == Init => IdempotencyInv
<1> SUFFICES ASSUME Init PROVE IdempotencyInv
  OBVIOUS
<1>1. \A r \in Request : DOMAIN pendingCommands[r] = {}
  BY EmptyTableType DEF Init
<1>2. \A r \in Request : pc[r] = "idle" /\ out[r].status = 0
  BY DEF Init, InvocationInit, NoResponse
<1> QED
  BY <1>1, <1>2 DEF IdempotencyInv, PendingIsNew, PendingExclusive,
                    CommitHasCommand, SuccessMatchesRecord

(* The reads before the transaction. *)
LEMMA ReadsQuiet ==
    ASSUME TypeInv, NEW r \in Request,
           \/ ReceiveRequest(r) \/ FindByTypeAndOrderID(r)
           \/ \E next \in {"findAsset", "begin"} : FindClientByID(r, next)
           \/ FindAssetByID(r) \/ ReplayAfterRace(r)
    PROVE  QuietStep
<1>1. UNCHANGED db /\ req' = req
  BY DEF ReceiveRequest, DepositReceive, WithdrawReceive, Receive,
         FindByTypeAndOrderID, FindClientByID, FindAssetByID, ReplayAfterRace
<1>2. CommandsKept
  BY <1>1, DatabaseKeeps
<1>3. CASE ReceiveRequest(r)
  BY <1>1, <1>2, <1>3, AnswerQuiet, GotoQuiet
  DEF ReceiveRequest, DepositReceive, WithdrawReceive, Receive
<1>4. CASE FindByTypeAndOrderID(r)
  BY <1>1, <1>2, <1>4, AnswerQuiet, GotoQuiet DEF FindByTypeAndOrderID
<1>5. CASE \E next \in {"findAsset", "begin"} : FindClientByID(r, next)
  BY <1>1, <1>2, <1>5, AnswerQuiet, GotoQuiet DEF FindClientByID
<1>6. CASE FindAssetByID(r)
  <2>1. CASE \E status \in {422, 500}, error \in ErrorKind :
                Answer(r, status, error, <<>>)
    BY <1>1, <1>2, <2>1, AnswerQuiet
  <2>2. CASE Goto(r, "begin") /\ \A s \in Request \ {r} : mem'[s] = mem[s]
    BY <1>1, <1>2, <2>2, GotoQuiet
  <2> QED
    BY <1>6, <2>1, <2>2 DEF FindAssetByID, ErrorKind, TypeInv, InvocationTypeOK
<1>7. CASE ReplayAfterRace(r)
  BY <1>1, <1>2, <1>7, AnswerQuiet DEF ReplayAfterRace
<1> QED
  BY <1>3, <1>4, <1>5, <1>6, <1>7

(* The statements of the transaction before the command's insert. *)
LEMMA WritesQuiet ==
    ASSUME TypeInv, NEW r \in Request,
           \/ \E next \in {"createPosition", "findLots"} : Begin(r, next)
           \/ CreatePosition(r) \/ FindByClientAndInstrument(r)
           \/ SellFromLot(r) \/ UpdatePosition(r)
    PROVE  QuietStep
<1>1. req' = req
  BY DEF Begin, CreatePosition, FindByClientAndInstrument, SellFromLot, UpdatePosition
<1>2. CommandsKept \/ CommandsDropped(r)
  BY DatabaseKeeps, FailDrops, WriteRowKeeps
  DEF Begin, BeginTx, CommandsKept, CreatePosition, FindByClientAndInstrument,
      SellFromLot, UpdatePosition
<1>3. CASE \E error \in ErrorKind : Abort(r, error)
  BY <1>1, <1>2, <1>3, AbortQuiet
<1>4. CASE /\ \E label \in Label \ {"commit"} : Goto(r, label)
           /\ \A s \in Request \ {r} : mem'[s] = mem[s]
  BY <1>1, <1>2, <1>4, GotoQuiet
<1>5. CASE \E next \in {"createPosition", "findLots"} : Begin(r, next)
  BY <1>4, <1>5 DEF Begin, Label
<1>6. CASE CreatePosition(r)
  BY <1>3, <1>4, <1>6 DEF CreatePosition, Label, ErrorKind
<1>7. CASE FindByClientAndInstrument(r)
  BY <1>3, <1>4, <1>7
  DEF FindByClientAndInstrument, Label, ErrorKind, TypeInv, InvocationTypeOK
<1>8. CASE SellFromLot(r)
  BY <1>3, <1>4, <1>8 DEF SellFromLot, Label, ErrorKind, TypeInv, InvocationTypeOK
<1>9. CASE UpdatePosition(r)
  BY <1>3, <1>4, <1>9 DEF UpdatePosition, Label, ErrorKind, TypeInv, InvocationTypeOK
<1> QED
  BY <1>5, <1>6, <1>7, <1>8, <1>9

(* The insert of the command, or its refusal by the unique index. *)
LEMMA CreateCommandKeeps ==
    ASSUME TypeInv, IdempotencyInv, NEW r \in Request, CreateProcessedCommand(r)
    PROVE  IdempotencyInv'
<1>1. CASE FailTx(r) /\ Abort(r, "duplicate")
  BY <1>1, AbortQuiet, FailDrops, QuietKeeps DEF CreateProcessedCommand
<1>2. CASE /\ KeyOf(r) \notin DOMAIN commands
           /\ KeyHolders(r, KeyOf(r)) = {}
           /\ WriteCommand(r, KeyOf(r),
                 NewProcessedCommand(r, req[r].client, ToResponse(mem[r].held)))
           /\ Goto(r, "commit")
           /\ UNCHANGED mem
  BY <1>2, InsertKeeps DEF CreateProcessedCommand
<1> QED
  BY <1>1, <1>2 DEF CreateProcessedCommand

(* The end of the transaction as the invocation sees it. *)
LEMMA EndKeeps ==
    ASSUME TypeInv, IdempotencyInv, NEW r \in Request, NEW status,
           Commit(r, status) \/ (status \notin {200, 201} /\ Rollback(r, status))
    PROVE  IdempotencyInv'
<1>1. CASE Commit(r, status)
  <2>1. /\ pc[r] = "commit" /\ CommitTx(r) /\ req' = req
        /\ Answer(r, status, "none", ToResponse(mem[r].held))
    BY <1>1 DEF Commit
  <2>2. /\ pc'[r] # "commit" /\ out'[r].body = ToResponse(mem[r].held)
        /\ \A s \in Request \ {r} :
              pc'[s] = pc[s] /\ mem'[s] = mem[s] /\ out'[s] = out[s]
    BY <2>1 DEF Answer, TypeInv, InvocationTypeOK
  <2> QED
    BY <2>1, <2>2, CommitKeeps
<1>2. CASE status \notin {200, 201} /\ Rollback(r, status)
  <2>1. req' = req /\ (CommandsKept \/ CommandsDropped(r))
    BY <1>2, DatabaseKeeps, RollbackDrops DEF Rollback
  <2>2. QuietStep
    BY <1>2, <2>1, GotoQuiet, AnswerQuiet DEF Rollback
  <2> QED
    BY <2>2, QuietKeeps
<1> QED
  BY <1>1, <1>2

(* Failures: of a statement, of the COMMIT, of the process. *)
LEMMA FailureKeeps ==
    ASSUME TypeInv, IdempotencyInv, NEW r \in Request,
           StatementFails(r) \/ CommitFails(r) \/ Crash(r)
    PROVE  IdempotencyInv'
<1>1. req' = req
  BY DEF StatementFails, CommitFails, Crash
<1>2. CASE FailTx(r) \/ UNCHANGED db
  <2>1. CommandsKept \/ CommandsDropped(r)
    BY <1>2, DatabaseKeeps, FailDrops
  <2>2. CASE \E status \in {409, 500} : Answer(r, status, "other", <<>>)
    BY <1>1, <2>1, <2>2, AnswerQuiet, QuietKeeps
  <2>3. CASE Abort(r, "other")
    BY <1>1, <2>1, <2>3, AbortQuiet, QuietKeeps
  <2>4. CASE Crash(r)
    <3>1. \A s \in Request \ {r} : mem'[s] = mem[s]
      BY <2>4 DEF Crash, TypeInv, InvocationTypeOK
    <3> QED
      BY <1>1, <2>1, <2>4, <3>1, MoveQuiet, QuietKeeps DEF Crash
  <2> QED
    BY <2>2, <2>3, <2>4 DEF StatementFails, CommitFails
<1>3. CASE pc[r] = "commit" /\ CommitTx(r) /\ (CommitFails(r) \/ Crash(r))
  <2>1. /\ pc'[r] # "commit"
        /\ \A s \in Request \ {r} :
              pc'[s] = pc[s] /\ mem'[s] = mem[s] /\ out'[s] = out[s]
    BY <1>3 DEF CommitFails, Crash, Answer, TypeInv, InvocationTypeOK
  <2>2. out'[r] = out[r] \/ out'[r].status \notin {200, 201}
    BY <1>3 DEF CommitFails, Crash, Answer, TypeInv, InvocationTypeOK
  <2> QED
    BY <1>1, <1>3, <2>1, <2>2, CommitKeeps
<1> QED
  BY <1>2, <1>3 DEF StatementFails, CommitFails, Crash

(* The server: it drops a dead transaction or breaks a wait cycle. *)
LEMMA ServerQuiet ==
    ASSUME TypeInv, NEW r \in Request, Reap(r) \/ DeadlockVictim(r)
    PROVE  QuietStep
<1>1. CASE Reap(r)
  <2>1. CommandsDropped(r) /\ UNCHANGED invocation /\ pc[r] # "commit"
    BY <1>1, RollbackDrops DEF Reap, InTransaction
  <2>2. pc' = [pc EXCEPT ![r] = pc[r]] /\ mem' = mem /\ req' = req /\ out' = out
    BY <2>1 DEF invocation, TypeInv, InvocationTypeOK
  <2> QED
    BY <2>1, <2>2, MoveQuiet
<1>2. CASE DeadlockVictim(r)
  BY <1>2, AbortQuiet, FailDrops DEF DeadlockVictim
<1> QED
  BY <1>1, <1>2

(* One step of either use case. *)
LEMMA StepKeeps ==
    ASSUME TypeInv, IdempotencyInv, NEW r \in Request, Step(r)
    PROVE  IdempotencyInv'
<1>1. CASE IsDeposit(r) /\ DepositStep(r)
  BY <1>1, ReadsQuiet, WritesQuiet, QuietKeeps, CreateCommandKeeps, EndKeeps
  DEF DepositStep
<1>2. CASE IsWithdraw(r) /\ WithdrawStep(r)
  <2>1. WithdrawStatus(err[r]) \notin {200, 201}
    BY DEF WithdrawStatus
  <2> QED
    BY <1>2, <2>1, ReadsQuiet, WritesQuiet, QuietKeeps, CreateCommandKeeps, EndKeeps
    DEF WithdrawStep
<1> QED
  BY <1>1, <1>2 DEF Step

(* Every step of the wallet preserves the invariant. *)
LEMMA IdempotencyNext ==
    TypeInv /\ IdempotencyInv /\ [Next]_vars => IdempotencyInv'
<1> SUFFICES ASSUME TypeInv, IdempotencyInv, [Next]_vars PROVE IdempotencyInv'
  OBVIOUS
<1>1. CASE UNCHANGED vars
  <2>1. QuietStep
    BY <1>1 DEF vars, QuietStep
  <2> QED
    BY <2>1, QuietKeeps
<1>2. CASE Next
  BY <1>1, <1>2, ReadsQuiet, StepKeeps, FailureKeeps, ServerQuiet, QuietKeeps
  DEF Next, Quiescent
<1> QED
  BY <1>1, <1>2

(***************************************************************************)
(* Idempotency: in any number of racing, failing and crashing invocations, *)
(* every answer of success is the snapshot recorded for its order, and a   *)
(* deposit answered as created was recorded by the invocation that answers *)
(* it: an order is never executed twice.                                   *)
(***************************************************************************)
THEOREM Idempotent == Spec => []SuccessMatchesRecord
<1>1. Init => TypeInv /\ IdempotencyInv
  BY InitOK, IdempotencyInit
<1>2. TypeInv /\ IdempotencyInv /\ [Next]_vars => (TypeInv /\ IdempotencyInv)'
  BY NextOK, IdempotencyNext
<1>3. IdempotencyInv => SuccessMatchesRecord
  BY DEF IdempotencyInv
<1> QED
  BY <1>1, <1>2, <1>3, PTL DEF Spec
=============================================================================
