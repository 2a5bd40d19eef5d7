------------------------------ MODULE HttpApi ------------------------------
(***************************************************************************)
(* The deployed service: events of API Gateway, routed and checked by the  *)
(* handlers, served one at a time by each process, and answered with a     *)
(* status, an error code and what was reported to logs and metrics.  The   *)
(* invocations are those of Wallet, the processes those of Process.        *)
(***************************************************************************)
EXTENDS Wallet, Process

CONSTANT Events     \* the shapes of event a caller may send

VARIABLES
    event,      \* path, method and whether the body is JSON
    fate,       \* what has become of each event
    host,       \* the process an event was given to
    reply,      \* the HTTP response
    report,     \* cold_start of its logger, outcome in span and metrics
    served,     \* history: the commands each process has logged, in order
    repeated    \* history: the order had been recorded when it was received

gateway == <<event, fate, host, reply, report, served, repeated>>

apiVars == <<vars, process, gateway>>

Paths == {"/deposits", "/withdrawals", "other"}

PathOf(type) == IF type = "DEPOSIT" THEN "/deposits" ELSE "/withdrawals"

Code == {"none", "INSUFFICIENT_POSITION", "CONCURRENCY_CONFLICT"}

Outcome == {"none", "failed", "success", "replayed"}

NoReply == [status |-> 0, code |-> "none"]

NoReport == [coldStart |-> FALSE, outcome |-> "none"]

(* Every variable of the gateway and the processes stays in its set. *)
ApiTypeOK ==
    /\ ProcessTypeOK
    /\ event \in [Request -> Events]
    /\ fate \in [Request -> {"sent", "running", "replied", "lost"}]
    /\ host \in [Request -> Instance \cup {None}]
    /\ reply \in [Request -> [status : Nat, code : Code]]
    /\ report \in [Request -> [coldStart : BOOLEAN, outcome : Outcome]]
    /\ served \in [Instance -> Seq(Request)]
    /\ repeated \in [Request -> BOOLEAN]

ApiInit ==
    /\ Init
    /\ ProcessInit
    /\ event \in [Request -> Events]
    /\ \A r \in Request : event[r].path \in {PathOf(req[r].type), "other"}
    /\ fate = [r \in Request |-> "sent"]
    /\ host = [r \in Request |-> None]
    /\ reply = [r \in Request |-> NoReply]
    /\ report = [r \in Request |-> NoReport]
    /\ served = [i \in Instance |-> <<>>]
    /\ repeated = [r \in Request |-> FALSE]

-----------------------------------------------------------------------------
(* Lambda gives a process its next event after the reply to the last one. *)
RunningOn(i) == {r \in Request : fate[r] = "running" /\ host[r] = i}

CanTake(i) == phase[i] = "serving" /\ RunningOn(i) = {}

(* The router by path, then the handler: method, then body. *)
Refusal(e) ==
    IF e.path = "other" THEN 404
    ELSE IF e.method # "POST" THEN 405
    ELSE IF ~ e.parses THEN 422
    ELSE 0

(* Refused at the door: no logger, no metric, no statement. *)
Refuse(r, i) ==
    /\ fate[r] = "sent"
    /\ CanTake(i)
    /\ Refusal(event[r]) # 0
    /\ fate' = [fate EXCEPT ![r] = "replied"]
    /\ host' = [host EXCEPT ![r] = i]
    /\ reply' = [reply EXCEPT ![r] =
                    [status |-> Refusal(event[r]), code |-> "none"]]
    /\ UNCHANGED <<vars, process, event, report, served, repeated>>

(* Mutant of FromContext: the flag is loaded, not swapped. *)
FromContextLoads(r, i) ==
    /\ report' = [report EXCEPT ![r].coldStart = coldStart[i]]
    /\ served' = [served EXCEPT ![i] = Append(@, r)]
    /\ UNCHANGED coldStart

(* The request's logger takes the process's cold-start flag and clears it. *)
FromContext(r, i) ==
    /\ report' = [report EXCEPT ![r].coldStart = coldStart[i]]
    /\ coldStart' = [coldStart EXCEPT ![i] = FALSE]
    /\ served' = [served EXCEPT ![i] = Append(@, r)]

(* The handler calls Execute, up to its first statement. *)
Handle(r, i) ==
    /\ fate[r] = "sent"
    /\ CanTake(i)
    /\ Refusal(event[r]) = 0
    /\ FromContext(r, i)
    /\ ReceiveRequest(r)
    /\ fate' = [fate EXCEPT ![r] = "running"]
    /\ host' = [host EXCEPT ![r] = i]
    /\ repeated' = [repeated EXCEPT ![r] = CommandFound(KeyOf(r))]
    /\ UNCHANGED <<environment, phase, providers, registered, pool, event, reply>>

(* The code in the body of a withdrawal's error. *)
ErrorCode(r) ==
    CASE IsWithdraw(r) /\ out[r].error = "insufficient" -> "INSUFFICIENT_POSITION"
      [] IsWithdraw(r) /\ out[r].error = "conflict" -> "CONCURRENCY_CONFLICT"
      [] OTHER -> "none"

(* Mutant of DepositOutcome: every answer without an error is a success. *)
DepositOutcomeUnsplit(r) == IF out[r].error # "none" THEN "failed" ELSE "success"

DepositOutcome(r) ==
    IF out[r].error # "none" THEN "failed"
    ELSE IF out[r].status = 200 THEN "replayed"
    ELSE "success"

WithdrawOutcome(r) == IF out[r].error # "none" THEN "failed" ELSE "success"

(* Execute has returned: span, metrics and response. *)
Return(r) ==
    /\ fate[r] = "running"
    /\ pc[r] = "done"
    /\ fate' = [fate EXCEPT ![r] = "replied"]
    /\ reply' = [reply EXCEPT ![r] =
                    [status |-> out[r].status, code |-> ErrorCode(r)]]
    /\ report' = [report EXCEPT ![r].outcome =
                    IF IsDeposit(r) THEN DepositOutcome(r) ELSE WithdrawOutcome(r)]
    /\ UNCHANGED <<vars, process, event, host, served, repeated>>

-----------------------------------------------------------------------------
(* Connections. *)

(* Mutant of executorFromContext: the transaction in the context is ignored. *)
executorAlwaysPool(r) == "pool"

(* A statement inside a unit of work goes to its transaction, any other    *)
(* one asks the pool for a connection.                                     *)
executorFromContext(r) == IF pc[r] \in InTransaction THEN "tx" ELSE "pool"

(* Connections the transactions of process i keep from its pool. *)
Kept(i) == Cardinality({r \in RunningOn(i) : pc[r] \in InTransaction})

HasConnection(r) ==
    executorFromContext(r) = "pool" =>
        Kept(host[r]) < pool[host[r]].MaxConnections

(* A running invocation goes on as Wallet says, once it has a connection. *)
Execute(r) ==
    /\ fate[r] = "running"
    /\ HasConnection(r)
    /\ Step(r)
    /\ UNCHANGED <<process, gateway>>

Fail(r) ==
    /\ fate[r] = "running"
    /\ StatementFails(r) \/ CommitFails(r)
    /\ UNCHANGED <<process, gateway>>

Server(r) ==
    /\ Reap(r) \/ DeadlockVictim(r)
    /\ UNCHANGED <<process, gateway>>

-----------------------------------------------------------------------------
(* Processes come and go. *)

StartProcess(i) == Start(i) /\ UNCHANGED <<vars, gateway>>

(* What the end of its process means for an invocation: one that has       *)
(* returned was served, but its reply is not sent.                         *)
LoseInvocation(r) ==
    \/ pc[r] = "done" /\ UNCHANGED vars
    \/ Crash(r)

EndProcess(i) ==
    /\ End(i)
    /\ \/ /\ RunningOn(i) = {}
          /\ UNCHANGED <<vars, fate>>
       \/ \E r \in RunningOn(i) :
             /\ LoseInvocation(r)
             /\ fate' = [fate EXCEPT ![r] = "lost"]
    /\ served' = [served EXCEPT ![i] = <<>>]
    /\ UNCHANGED <<event, host, reply, report, repeated>>

-----------------------------------------------------------------------------
ApiNext ==
    \/ \E i \in Instance : StartProcess(i) \/ EndProcess(i)
    \/ \E r \in Request, i \in Instance : Refuse(r, i) \/ Handle(r, i)
    \/ \E r \in Request : Execute(r) \/ Fail(r) \/ Server(r) \/ Return(r)

ApiSpec == ApiInit /\ [][ApiNext]_apiVars

(* A running invocation goes on and returns, the server does its part;     *)
(* nothing makes Lambda start a process or a caller send an event.         *)
ApiFairness ==
    \A r \in Request :
        /\ WF_apiVars(Execute(r))
        /\ WF_apiVars(Return(r))
        /\ WF_apiVars(Reap(r) /\ UNCHANGED <<process, gateway>>)
        /\ WF_apiVars(DeadlockVictim(r) /\ UNCHANGED <<process, gateway>>)

FairApiSpec == ApiSpec /\ ApiFairness
=============================================================================
