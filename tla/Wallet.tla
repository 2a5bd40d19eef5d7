------------------------------- MODULE Wallet -------------------------------
(***************************************************************************)
(* The wallet: deposits and withdrawals of several callers, served by      *)
(* invocations that share one database and nothing else.                   *)
(***************************************************************************)
EXTENDS DepositService, WithdrawService

CONSTANT SeedTables     \* the positions tables the system may start from

(* A row PostgreSQL can hold: stored under its own id, at column scale. *)
IsStored(lot, row) == row.positionID = lot /\ Coerce(row) = row

ASSUME SeedAssumption ==
    \A table \in SeedTables :
        /\ IsTable(table, SeedLot, Position)
        /\ \A l \in DOMAIN table : IsStored(l, table[l])

ASSUME LotAssumption ==
    SeedLot \cap Request = {} /\ IsFiniteSet(SeedLot) /\ IsFiniteSet(Request)

(* What a request body can hold: identifiers and numbers, or None. *)
ASSUME InputAssumption ==
    \A q \in Inputs :
        /\ q.type \in CommandType
        /\ q.order \in OrderID \cup {None}
        /\ q.type = "DEPOSIT" =>
              q.amount \in Int \cup {None} /\ q.unitPrice \in Int \cup {None}
        /\ q.type = "WITHDRAW" => q.desiredValue \in Int \cup {None}

vars == <<positions, commands, open, pendingRows, pendingCommands,
          pc, req, err, mem, out, faults>>

Init ==
    /\ positions \in SeedTables
    /\ commands = EmptyTable
    /\ open = {}
    /\ pendingRows = [r \in Request |-> EmptyTable]
    /\ pendingCommands = [r \in Request |-> EmptyTable]
    /\ InvocationInit

-----------------------------------------------------------------------------
(* Waiting for locks. *)

(* The invocations whose transactions r's next statement waits for. *)
Blockers(r) ==
    CASE pc[r] = "update" ->
            {s \in RowHolders(r, NextUpdate(r).positionID) :
                VersionMatches(NextUpdate(r)) /\ Storable(NextUpdate(r))}
      [] pc[r] = "createCommand" ->
            {s \in KeyHolders(r, KeyOf(r)) : KeyOf(r) \notin DOMAIN commands}
      [] OTHER -> {}

(* The members of a set that wait for each other and for nobody else. *)
IsWaitCycle(S) ==
    /\ S # {}
    /\ \A s \in S : \E t \in S : t \in Blockers(s)
    /\ \A s \in S : \E t \in S : s \in Blockers(t)

(* PostgreSQL's deadlock detector fails one statement of a wait cycle. *)
DeadlockVictim(r) ==
    /\ \E S \in SUBSET Request : r \in S /\ IsWaitCycle(S)
    /\ FailTx(r)
    /\ Abort(r, "other")
    /\ UNCHANGED <<req, faults>>

-----------------------------------------------------------------------------
ReceiveRequest(r) ==
    \/ IsDeposit(r) /\ DepositReceive(r)
    \/ IsWithdraw(r) /\ WithdrawReceive(r)

Step(r) ==
    \/ IsDeposit(r) /\ DepositStep(r)
    \/ IsWithdraw(r) /\ WithdrawStep(r)

(* Every caller has its answer or lost its invocation, nothing is open. *)
Quiescent ==
    /\ \A r \in Request : pc[r] \in {"done", "crashed"}
    /\ open = {}
    /\ UNCHANGED vars

Next ==
    \/ \E r \in Request :
          \/ ReceiveRequest(r)
          \/ Step(r)
          \/ StatementFails(r)
          \/ CommitFails(r)
          \/ Crash(r)
          \/ Reap(r)
          \/ DeadlockVictim(r)
    \/ Quiescent

Spec == Init /\ [][Next]_vars
=============================================================================
