------------------------- MODULE HttpApiProperties -------------------------
(* What makes the deployed service correct. *)
EXTENDS HttpApi, WalletProperties

BodyIsValid(r) == IF IsDeposit(r) THEN validateDepositRequest(req[r])
                              ELSE validateWithdrawRequest(req[r])

(***************************************************************************)
(* A caller that repeats an order after it was executed, because the reply *)
(* was lost with its process or the commit was not acknowledged, is        *)
(* answered with the recorded response by whatever process serves it; only *)
(* a body that is not valid or a new failure stands in the way.            *)
(***************************************************************************)
RetryIsReplayed ==
    \A r \in Request : repeated[r] /\ fate[r] = "replied" =>
        \/ reply[r].status = 200 /\ out[r].body = commands[KeyOf(r)].responseSnapshot
        \/ reply[r].status = 422 /\ ~ BodyIsValid(r)
        \/ reply[r].status = 500 /\ faults > 0

(* The invocation of event r recorded its order. *)
Executed(r) == KeyOf(r) \in DOMAIN commands /\ commands[KeyOf(r)].commandID = r

(***************************************************************************)
(* The outcome counted for a deposit is the truth: a success is the event  *)
(* that executed its order, so each order is one at most once, and a       *)
(* replay is not.  Of a withdrawal, which is never counted as replayed, it *)
(* says less: a success has its order recorded.  A failure of either       *)
(* executed nothing unless a fault hid it.                                 *)
(***************************************************************************)
OutcomeIsTrue ==
    \A r \in Request :
        /\ report[r].outcome \in {"success", "replayed"} => KeyOf(r) \in DOMAIN commands
        /\ report[r].outcome = "success" /\ IsDeposit(r) => Executed(r)
        /\ report[r].outcome = "replayed" => ~ Executed(r)
        /\ report[r].outcome = "failed" /\ Executed(r) => faults > 0

(***************************************************************************)
(* CONCURRENCY_CONFLICT tells a caller that somebody else was faster.  A   *)
(* withdrawal that gives up with it was about to write a lot that has      *)
(* changed since it read it, and that another recorded withdrawal of the   *)
(* client sold from; and whoever is replied the code, even after a failed  *)
(* rollback, has such a withdrawal from lots of its instrument to blame.   *)
(***************************************************************************)
ConflictHasCause ==
    \A r \in Request :
        /\ err[r] = "conflict" =>
              LET p == NextUpdate(r)
              IN  /\ positions[p.positionID].rowVersion >= p.rowVersion
                  /\ Overtaken(r, p.positionID)
        /\ reply[r].code = "CONCURRENCY_CONFLICT" =>
              \E l \in Lot : Overtaken(r, l)

(***************************************************************************)
(* Of the commands a process has logged since it started, the first has    *)
(* cold_start set and no other, although events refused at the door come   *)
(* before it and processes are replaced.                                   *)
(***************************************************************************)
ColdStartMarksFirst ==
    \A i \in Instance : \A n \in DOMAIN served[i] :
        report[served[i][n]].coldStart <=> n = 1

(***************************************************************************)
(* A process that takes events has both telemetry providers registered and *)
(* running, and a pool that can hold a connection, sized by each setting   *)
(* of its environment as written, or by the default where there is none.   *)
(***************************************************************************)
ServingIsReady ==
    \A i \in Instance : phase[i] = "serving" =>
        /\ registered[i] /\ providers[i] = Provider
        /\ pool[i].MaxConnections > 0
        /\ \A s \in Setting :
              pool[i][s] = IF environment.settings[s] = Unset
                           THEN Default[s] ELSE environment.settings[s]

(* A start that fails halfway through the telemetry leaves no provider     *)
(* running that nobody can shut down.                                      *)
FailedStartClosed ==
    \A i \in Instance : phase[i] = "exited" /\ ~ registered[i] => providers[i] = {}

(***************************************************************************)
(* Every event a process takes is answered or lost with the process, even  *)
(* if the pool holds a single connection: no invocation waits for a second *)
(* one while its transaction keeps the first.                              *)
(***************************************************************************)
EventServed ==
    \A r \in Request : fate[r] = "running" ~> fate[r] \in {"replied", "lost"}

-----------------------------------------------------------------------------
(* What the documentation says and the code does not do. *)

(* "On idempotent replay: set wallet.outcome to replayed": what is counted *)
(* as a success is the event that executed the order, not a repetition.    *)
ReplayIsCounted ==
    \A r \in Request : report[r].outcome = "success" => Executed(r)
=============================================================================
