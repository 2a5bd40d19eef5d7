----------------------------- MODULE Invocation -----------------------------
(***************************************************************************)
(* One invocation of a use case, as far as deposits and withdrawals share  *)
(* it: the reads before the transaction, the unit of work around the       *)
(* writes, the answer, and what can go wrong on the way to the database    *)
(* and back.  Every step is one statement sent to the database with the    *)
(* local computation that follows it; between two steps other invocations  *)
(* run.                                                                    *)
(***************************************************************************)
EXTENDS Database

CONSTANTS Inputs,       \* the requests a caller may send
          MaxFaults     \* bound on the failures in one behaviour

ASSUME MaxFaultsAssumption == MaxFaults \in Nat

VARIABLES
    pc,         \* the statement each invocation is about to send
    req,        \* the request it serves, chosen by the caller
    err,        \* the error the unit of work's function returned
    mem,        \* its local variables
    out,        \* its answer
    faults      \* failures so far

invocation == <<pc, req, err, mem, out, faults>>

Label == {"idle", "findCommand", "findClient", "findAsset", "begin",
          "createPosition", "findLots", "sell", "update", "createCommand",
          "commit", "rollback", "replay", "done", "crashed"}

(* The labels at which a transaction of a live invocation is open. *)
InTransaction == {"createPosition", "findLots", "sell", "update",
                  "createCommand", "commit", "rollback"}

ErrorKind == {"none", "invalid", "duplicate", "conflict", "notFound",
              "insufficient", "other"}

(***************************************************************************)
(* held: the deposit's new position, or the lots a withdrawal has debited  *)
(* in memory; eligible: the lots it has not come to; remaining: the value  *)
(* still to sell; sold: units taken from each debited lot; written: how    *)
(* many of the held lots were sent to the database.                        *)
(***************************************************************************)
Memory == [held : Seq(Position), eligible : Seq(Position), remaining : Int,
           sold : Seq(Nat), written : Nat]

NoMemory == [held |-> <<>>, eligible |-> <<>>, remaining |-> 0,
             sold |-> <<>>, written |-> 0]

Response == [status : Nat, error : ErrorKind, body : Seq(PositionDTO)]

NoResponse == [status |-> 0, error |-> "none", body |-> <<>>]

InvocationTypeOK ==
    /\ pc \in [Request -> Label]
    /\ req \in [Request -> Inputs]
    /\ err \in [Request -> ErrorKind]
    /\ mem \in [Request -> Memory]
    /\ out \in [Request -> Response]
    /\ faults \in 0..MaxFaults

InvocationInit ==
    /\ pc = [r \in Request |-> "idle"]
    /\ req \in [Request -> Inputs]
    /\ err = [r \in Request |-> "none"]
    /\ mem = [r \in Request |-> NoMemory]
    /\ out = [r \in Request |-> NoResponse]
    /\ faults = 0

KeyOf(r) == <<req[r].type, req[r].order>>

Goto(r, label) == pc' = [pc EXCEPT ![r] = label] /\ UNCHANGED <<err, out>>

Answer(r, status, error, body) ==
    /\ pc' = [pc EXCEPT ![r] = "done"]
    /\ out' = [out EXCEPT ![r] =
                  [status |-> status, error |-> error, body |-> body]]
    /\ err' = [err EXCEPT ![r] = "none"]
    /\ mem' = [mem EXCEPT ![r] = NoMemory]

(* The function given to the unit of work returns an error. *)
Abort(r, error) ==
    /\ pc' = [pc EXCEPT ![r] = "rollback"]
    /\ err' = [err EXCEPT ![r] = error]
    /\ UNCHANGED <<mem, out>>

Fault == faults < MaxFaults /\ faults' = faults + 1

-----------------------------------------------------------------------------
(* Statements both use cases send. *)

Receive(r, valid) ==
    /\ pc[r] = "idle"
    /\ IF valid THEN Goto(r, "findCommand") /\ UNCHANGED mem
                ELSE Answer(r, 422, "invalid", <<>>)
    /\ UNCHANGED <<db, req, faults>>

(* Mutant of FindByTypeAndOrderID: only the unique index finds repeats. *)
FindByTypeAndOrderIDSkipped(r) ==
    /\ pc[r] = "findCommand"
    /\ Goto(r, "findClient")
    /\ UNCHANGED <<db, req, mem, faults>>

FindByTypeAndOrderID(r) ==
    /\ pc[r] = "findCommand"
    /\ IF CommandFound(KeyOf(r))
       THEN Answer(r, 200, "none", commands[KeyOf(r)].responseSnapshot)
       ELSE Goto(r, "findClient") /\ UNCHANGED mem
    /\ UNCHANGED <<db, req, faults>>

FindClientByID(r, next) ==
    /\ pc[r] = "findClient"
    /\ IF ClientFound(req[r].client)
       THEN Goto(r, next) /\ UNCHANGED mem
       ELSE Answer(r, 422, "invalid", <<>>)
    /\ UNCHANGED <<db, req, faults>>

Begin(r, next) ==
    /\ pc[r] = "begin"
    /\ BeginTx(r)
    /\ Goto(r, next)
    /\ UNCHANGED <<req, mem, faults>>

(* Mutant of CreateProcessedCommand: there is no unique index. *)
CreateProcessedCommandUnindexed(r) ==
    /\ pc[r] = "createCommand"
    /\ WriteCommand(r, KeyOf(r),
          NewProcessedCommand(r, req[r].client, ToResponse(mem[r].held)))
    /\ Goto(r, "commit")
    /\ UNCHANGED <<req, mem, faults>>

(* The unique index decides: a committed key is a duplicate at once, a     *)
(* pending one makes the insert wait.                                      *)
CreateProcessedCommand(r) ==
    /\ pc[r] = "createCommand"
    /\ \/ /\ KeyOf(r) \in DOMAIN commands
          /\ FailTx(r)
          /\ Abort(r, "duplicate")
       \/ /\ KeyOf(r) \notin DOMAIN commands
          /\ KeyHolders(r, KeyOf(r)) = {}
          /\ WriteCommand(r, KeyOf(r),
                NewProcessedCommand(r, req[r].client, ToResponse(mem[r].held)))
          /\ Goto(r, "commit")
          /\ UNCHANGED mem
    /\ UNCHANGED <<req, faults>>

Commit(r, status) ==
    /\ pc[r] = "commit"
    /\ CommitTx(r)
    /\ Answer(r, status, "none", ToResponse(mem[r].held))
    /\ UNCHANGED <<req, faults>>

(***************************************************************************)
(* Rollback, and the service's mapping of the error: a duplicate is read   *)
(* again, anything else is answered with the given status.  A failed       *)
(* ROLLBACK is joined to the error and changes nothing in the mapping; the *)
(* server still has the transaction, until it notices the lost connection. *)
(***************************************************************************)
Rollback(r, status) ==
    /\ pc[r] = "rollback"
    /\ \/ RollbackTx(r) /\ UNCHANGED faults
       \/ Fault /\ UNCHANGED db
    /\ IF err[r] = "duplicate"
       THEN Goto(r, "replay") /\ UNCHANGED mem
       ELSE Answer(r, status, err[r], <<>>)
    /\ UNCHANGED req

ReplayAfterRace(r) ==
    /\ pc[r] = "replay"
    /\ IF CommandFound(KeyOf(r))
       THEN Answer(r, 200, "none", commands[KeyOf(r)].responseSnapshot)
       ELSE Answer(r, 409, "notFound", <<>>)
    /\ UNCHANGED <<db, req, faults>>

-----------------------------------------------------------------------------
(* Failures. *)

(***************************************************************************)
(* A statement returns an error that is none of the domain's: the server   *)
(* refused it, or it never arrived, or the answer never came.  A write     *)
(* that was carried out and whose answer was lost needs no case: its row   *)
(* or key stays locked under a failed invocation, as it does when the      *)
(* write succeeds and the next statement, or the COMMIT, never arrives.    *)
(***************************************************************************)
StatementFails(r) ==
    /\ Fault
    /\ \/ /\ pc[r] \in {"findCommand", "findClient", "findAsset", "begin"}
          /\ Answer(r, 500, "other", <<>>)
          /\ UNCHANGED db
       \/ /\ pc[r] \in {"createPosition", "findLots", "update", "createCommand"}
          /\ Abort(r, "other")
          /\ FailTx(r) \/ UNCHANGED db
       \/ /\ pc[r] = "replay"
          /\ Answer(r, 409, "other", <<>>)
          /\ UNCHANGED db
    /\ UNCHANGED req

(***************************************************************************)
(* COMMIT returns an error: it never reached the server, or it was carried *)
(* out and the acknowledgement was lost.  One carried out after the error  *)
(* was answered is this step taken later: until then the transaction holds *)
(* its locks either way, and nobody else sees the answer.                  *)
(***************************************************************************)
CommitFails(r) ==
    /\ pc[r] = "commit"
    /\ Fault
    /\ CommitTx(r) \/ UNCHANGED db
    /\ Answer(r, 500, "other", <<>>)
    /\ UNCHANGED req

(* The process dies or is timed out; a COMMIT on its way may still arrive. *)
Crash(r) ==
    /\ pc[r] \notin {"idle", "done", "crashed"}
    /\ Fault
    /\ \/ UNCHANGED db
       \/ pc[r] = "commit" /\ CommitTx(r)
    /\ pc' = [pc EXCEPT ![r] = "crashed"]
    /\ err' = [err EXCEPT ![r] = "none"]
    /\ mem' = [mem EXCEPT ![r] = NoMemory]
    /\ UNCHANGED <<req, out>>

(* The server aborts a transaction whose connection is gone. *)
Reap(r) ==
    /\ r \in open
    /\ pc[r] \notin InTransaction
    /\ RollbackTx(r)
    /\ UNCHANGED invocation
=============================================================================
