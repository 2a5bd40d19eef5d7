------------------------------ MODULE Database ------------------------------
(***************************************************************************)
(* The two tables the service writes and the transactions that write them, *)
(* at PostgreSQL's default isolation level READ COMMITTED.                 *)
(*                                                                         *)
(* A request has at most one transaction; open holds the requests whose    *)
(* transaction the server has not ended, pendingRows and pendingCommands   *)
(* what each has written and not committed.  A pending row is also a lock: *)
(* another transaction that would write the same lot, or insert the same   *)
(* command key, waits until the holder commits or aborts.  A read never    *)
(* waits and sees committed rows only (no transaction of this service      *)
(* reads what it wrote).                                                   *)
(***************************************************************************)
EXTENDS Positions

VARIABLES positions, commands, open, pendingRows, pendingCommands

transactions == <<open, pendingRows, pendingCommands>>

db == <<positions, commands, open, pendingRows, pendingCommands>>

DatabaseTypeOK ==
    /\ IsTable(positions, Lot, Position)
    /\ IsTable(commands, Key, ProcessedCommand)
    /\ open \subseteq Request
    /\ pendingRows = [r \in Request |-> pendingRows[r]]
    /\ pendingCommands = [r \in Request |-> pendingCommands[r]]
    /\ \A r \in Request :
          /\ IsTable(pendingRows[r], Lot, Position)
          /\ IsTable(pendingCommands[r], Key, ProcessedCommand)

(* The lookups: what the repositories find committed. *)
CommandFound(key) == key \in DOMAIN commands

ClientFound(id) == id \in Client

AssetFound(id) == id \in DOMAIN Assets

(* Who holds what request r's next write would wait for. *)
RowHolders(r, lot) == {s \in Request \ {r} : lot \in DOMAIN pendingRows[s]}

KeyHolders(r, key) == {s \in Request \ {r} : key \in DOMAIN pendingCommands[s]}

BeginTx(r) ==
    /\ open' = open \cup {r}
    /\ UNCHANGED <<positions, commands, pendingRows, pendingCommands>>

WriteRow(r, p) ==
    /\ pendingRows' = [pendingRows EXCEPT ![r] = Put(@, p.positionID, Coerce(p))]
    /\ UNCHANGED <<positions, commands, open, pendingCommands>>

WriteCommand(r, key, command) ==
    /\ pendingCommands' = [pendingCommands EXCEPT ![r] = Put(@, key, command)]
    /\ UNCHANGED <<positions, commands, open, pendingRows>>

(* Mutant of FailTx: the row was written outside the transaction. *)
FailTxKeepsRows(r) ==
    /\ positions' = PutAll(positions, pendingRows[r])
    /\ pendingRows' = [pendingRows EXCEPT ![r] = EmptyTable]
    /\ pendingCommands' = [pendingCommands EXCEPT ![r] = EmptyTable]
    /\ UNCHANGED <<commands, open>>

(* The server refuses a statement: what the transaction wrote is undone    *)
(* and its locks are free at once; the client still has to end it.         *)
FailTx(r) ==
    /\ pendingRows' = [pendingRows EXCEPT ![r] = EmptyTable]
    /\ pendingCommands' = [pendingCommands EXCEPT ![r] = EmptyTable]
    /\ UNCHANGED <<positions, commands, open>>

(* Mutant of EndTx: the transaction is never ended. *)
EndTxForgotten(r) == UNCHANGED transactions

(* The server ends the transaction and its locks are free. *)
EndTx(r) ==
    /\ open' = open \ {r}
    /\ pendingRows' = [pendingRows EXCEPT ![r] = EmptyTable]
    /\ pendingCommands' = [pendingCommands EXCEPT ![r] = EmptyTable]

(* COMMIT reaches the server: both tables change in one step. *)
CommitTx(r) ==
    /\ positions' = PutAll(positions, pendingRows[r])
    /\ commands' = PutAll(commands, pendingCommands[r])
    /\ EndTx(r)

(* Mutant of RollbackTx: rows were written outside the transaction. *)
RollbackTxKeepsRows(r) ==
    /\ EndTx(r)
    /\ positions' = PutAll(positions, pendingRows[r])
    /\ UNCHANGED commands

RollbackTx(r) == EndTx(r) /\ UNCHANGED <<positions, commands>>
=============================================================================
