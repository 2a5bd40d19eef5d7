--------------------------- MODULE HttpApiProofs ---------------------------
(***************************************************************************)
(* Theorems about the deployed service: it implements the wallet, so what  *)
(* is proved of the wallet holds for it, and what its processes promise.   *)
(***************************************************************************)
EXTENDS HttpApiProperties, AtomicityProofs, ProceedsProofs

-----------------------------------------------------------------------------
(* The service implements the wallet. *)

(* A process that ends takes its invocation with it, or has none. *)
LEMMA EndIsWalletStep ==
    ASSUME NEW i \in Instance, EndProcess(i)
    PROVE  [Next]_vars
<1>1. CASE RunningOn(i) = {} /\ UNCHANGED <<vars, fate>>
  BY <1>1
<1>2. CASE \E r \in RunningOn(i) : LoseInvocation(r)
  <2>1. PICK r \in RunningOn(i) : LoseInvocation(r)
    BY <1>2
  <2>2. r \in Request
    BY DEF RunningOn
  <2>3. UNCHANGED vars \/ Crash(r)
    BY <2>1 DEF LoseInvocation
  <2> QED BY <2>2, <2>3 DEF Next
<1> QED BY <1>1, <1>2 DEF EndProcess

(* Every step of the service is a step of the wallet or none. *)
LEMMA ApiStepIsWalletStep == [ApiNext]_apiVars => [Next]_vars
<1> SUFFICES ASSUME [ApiNext]_apiVars PROVE [Next]_vars
  OBVIOUS
<1>1. CASE UNCHANGED apiVars
  BY <1>1 DEF apiVars
<1>2. CASE \E i \in Instance : StartProcess(i)
  BY <1>2 DEF StartProcess
<1>3. CASE \E i \in Instance : EndProcess(i)
  BY <1>3, EndIsWalletStep
<1>4. CASE \E r \in Request, i \in Instance : Refuse(r, i)
  BY <1>4 DEF Refuse
<1>5. CASE \E r \in Request, i \in Instance : Handle(r, i)
  BY <1>5 DEF Handle, Next
<1>6. CASE \E r \in Request : Execute(r)
  BY <1>6 DEF Execute, Next
<1>7. CASE \E r \in Request : Fail(r)
  BY <1>7 DEF Fail, Next
<1>8. CASE \E r \in Request : Server(r)
  BY <1>8 DEF Server, Next
<1>9. CASE \E r \in Request : Return(r)
  BY <1>9 DEF Return
<1> QED BY <1>1, <1>2, <1>3, <1>4, <1>5, <1>6, <1>7, <1>8, <1>9 DEF ApiNext

(* The gateway, the processes and the handlers touch the wallet through    *)
(* its actions alone, by the way the modules are composed, so what is      *)
(* proved of the wallet holds of the service.                              *)
LEMMA ServiceIsWallet == ApiSpec => Spec
<1>1. ApiInit => Init
  BY DEF ApiInit
<1> QED BY <1>1, ApiStepIsWalletStep, PTL DEF ApiSpec, Spec

(* Idempotency and type correctness of the wallet, carried over. *)
THEOREM ServiceIdempotent == ApiSpec => [](TypeOK /\ SuccessMatchesRecord)
BY ServiceIsWallet, TypeCorrect, Idempotent, PTL

-----------------------------------------------------------------------------
(* Types. *)

(* Settings that load are integers: what is set, or the default. *)
LEMMA ConfigIsTyped ==
    ASSUME NEW e \in Environments, ~ LoadDatabaseConfigFails(e)
    PROVE  /\ LoadDatabaseConfig(e) \in [Setting -> Int]
           /\ \A s \in Setting : LoadDatabaseConfig(e)[s] =
                 IF e.settings[s] = Unset THEN Default[s] ELSE e.settings[s]
<1> DEFINE cfg == LoadDatabaseConfig(e)
<1>1. ASSUME NEW n \in Int, FitsInt32(n) PROVE ToInt32(n) = n
  BY <1>1, Int32Assumption DEF FitsInt32, ToInt32
<1>2. ASSUME NEW s \in Setting
      PROVE  /\ cfg[s] \in Int
             /\ cfg[s] = IF e.settings[s] = Unset THEN Default[s] ELSE e.settings[s]
  <2>1. Readable(s, e.settings[s])
    BY DEF LoadDatabaseConfigFails
  <2>2. e.settings[s] \in Int \cup {Unset}
    BY <2>1, EnvironmentAssumption DEF Readable
  <2>3. Default[s] \in Int
    BY DEF Default, Setting, Counts
  <2>4. CASE e.settings[s] = Unset
    BY <2>3, <2>4 DEF LoadDatabaseConfig
  <2>5. CASE e.settings[s] # Unset /\ s \in Counts
    BY <2>1, <2>2, <2>5, <1>1 DEF LoadDatabaseConfig, Readable
  <2>6. CASE e.settings[s] # Unset /\ s \notin Counts
    BY <2>2, <2>6 DEF LoadDatabaseConfig
  <2> QED BY <2>4, <2>5, <2>6
<1> QED BY <1>2 DEF LoadDatabaseConfig

-----------------------------------------------------------------------------
(* The start of a process. *)

(* What main() has done at each phase before it serves. *)
HalfStarted ==
    \A i \in Instance :
        /\ phase[i] \in {"off", "traces"} => providers[i] = {}
        /\ phase[i] \in {"off", "traces", "metrics"} => ~ registered[i]
        /\ phase[i] = "database" => registered[i] /\ providers[i] = Provider

StartInv == ProcessTypeOK /\ HalfStarted /\ ServingIsReady /\ FailedStartClosed

(* No process has started yet. *)
LEMMA StartInit == ApiInit => StartInv
BY DEF ApiInit, ProcessInit, StartInv, ProcessTypeOK, HalfStarted,
       ServingIsReady, FailedStartClosed, NoPool, Phase

(* Steps that leave the processes alone keep the invariant. *)
LEMMA StartSame == StartInv /\ UNCHANGED process => StartInv'
BY DEF process, StartInv, ProcessTypeOK, HalfStarted, ServingIsReady, FailedStartClosed

(* The first step of a start: the logger. *)
LEMMA NewLoggerKeeps ==
    ASSUME StartInv, NEW i \in Instance, NewLoggerFactory(i)
    PROVE  StartInv'
<1>1. ProcessTypeOK'
  BY DEF StartInv, ProcessTypeOK, NewLoggerFactory, Enter, Phase
<1>2. (HalfStarted /\ ServingIsReady /\ FailedStartClosed)'
  BY DEF StartInv, ProcessTypeOK, HalfStarted, ServingIsReady, FailedStartClosed,
         NewLoggerFactory, Enter
<1> QED BY <1>1, <1>2 DEF StartInv

(* The second: the trace exporter, or the start fails. *)
LEMMA NewTraceExporterKeeps ==
    ASSUME StartInv, NEW i \in Instance, NewTraceExporter(i)
    PROVE  StartInv'
<1>a. {"tracer"} \in SUBSET Provider
  BY DEF Provider
<1>b. phase' \in [Instance -> Phase]
  BY DEF StartInv, ProcessTypeOK, NewTraceExporter, Exit, Enter, Phase
<1>c. providers' \in [Instance -> SUBSET Provider]
  BY <1>a DEF StartInv, ProcessTypeOK, NewTraceExporter
<1>1. ProcessTypeOK'
  BY <1>b, <1>c DEF StartInv, ProcessTypeOK, NewTraceExporter
<1>2. (HalfStarted /\ ServingIsReady /\ FailedStartClosed)'
  BY ZenonT(30) DEF StartInv, ProcessTypeOK, HalfStarted, ServingIsReady, FailedStartClosed,
         NewTraceExporter, Exit, Enter
<1> QED BY <1>1, <1>2 DEF StartInv

(* The third: the metric exporter, or the start fails. *)
LEMMA NewMetricExporterKeeps ==
    ASSUME StartInv, NEW i \in Instance, NewMetricExporter(i)
    PROVE  StartInv'
<1>a. {} \in SUBSET Provider /\ {"tracer", "meter"} \in SUBSET Provider
  BY DEF Provider
<1>b. phase' \in [Instance -> Phase]
  BY DEF StartInv, ProcessTypeOK, NewMetricExporter, MetricExporterFails, Exit,
         Enter, Phase
<1>c. providers' \in [Instance -> SUBSET Provider]
  BY <1>a DEF StartInv, ProcessTypeOK, NewMetricExporter, MetricExporterFails
<1>d. registered' \in [Instance -> BOOLEAN]
  BY DEF StartInv, ProcessTypeOK, NewMetricExporter, MetricExporterFails
<1>1. ProcessTypeOK'
  BY <1>b, <1>c, <1>d DEF StartInv, ProcessTypeOK, NewMetricExporter
<1>2. (HalfStarted /\ ServingIsReady /\ FailedStartClosed)'
  BY DEF StartInv, ProcessTypeOK, HalfStarted, ServingIsReady, FailedStartClosed,
         NewMetricExporter, MetricExporterFails, Exit, Enter, Provider
<1> QED BY <1>1, <1>2 DEF StartInv

(* The last: settings and pool, or the start fails. *)
LEMMA OpenPoolKeeps ==
    ASSUME StartInv, NEW i \in Instance, OpenPool(i)
    PROVE  StartInv'
<1> DEFINE cfg == LoadDatabaseConfig(environment)
<1>1. CASE /\ Exit(i)
           /\ UNCHANGED <<environment, coldStart, providers, registered, pool>>
  <2>1. ProcessTypeOK'
    BY <1>1 DEF StartInv, ProcessTypeOK, Exit, Enter, Phase
  <2>2. (HalfStarted /\ ServingIsReady /\ FailedStartClosed)'
    BY <1>1 DEF StartInv, ProcessTypeOK, HalfStarted, ServingIsReady,
                FailedStartClosed, Exit, Enter, OpenPool
  <2> QED BY <2>1, <2>2 DEF StartInv
<1>2. CASE /\ ~ LoadDatabaseConfigFails(environment)
           /\ ~ NewPoolFails(environment, cfg)
           /\ pool' = [pool EXCEPT ![i] = cfg]
           /\ Enter(i, "serving")
           /\ UNCHANGED <<environment, coldStart, providers, registered>>
  <2>1. /\ cfg \in [Setting -> Int]
        /\ \A s \in Setting : cfg[s] = IF environment.settings[s] = Unset
                                       THEN Default[s] ELSE environment.settings[s]
    BY <1>2, ConfigIsTyped DEF StartInv, ProcessTypeOK
  <2>2. cfg.MaxConnections \in Int /\ cfg.MaxConnections > 0
    BY <1>2, <2>1 DEF NewPoolFails, Setting, Counts
  <2> HIDE DEF cfg
  <2>3. ProcessTypeOK'
    BY <1>2, <2>1 DEF StartInv, ProcessTypeOK, Enter, Phase
  <2>4. (HalfStarted /\ FailedStartClosed)'
    BY <1>2 DEF StartInv, ProcessTypeOK, HalfStarted, FailedStartClosed, Enter
  <2>5. phase[i] = "database"
    BY DEF OpenPool
  <2>6. ServingIsReady'
    BY <1>2, <2>1, <2>2, <2>5
    DEF StartInv, ProcessTypeOK, HalfStarted, ServingIsReady, Enter
  <2> QED BY <2>3, <2>4, <2>6 DEF StartInv
<1> QED BY <1>1, <1>2 DEF OpenPool

(* A process that ended has nothing open and nothing registered. *)
LEMMA EndOfProcessKeeps ==
    ASSUME StartInv, NEW i \in Instance, End(i)
    PROVE  StartInv'
<1>1. ProcessTypeOK'
  BY DEF StartInv, ProcessTypeOK, End, Enter, Phase, NoPool
<1>2. (HalfStarted /\ ServingIsReady /\ FailedStartClosed)'
  BY DEF StartInv, ProcessTypeOK, HalfStarted, ServingIsReady, FailedStartClosed,
         End, Enter
<1> QED BY <1>1, <1>2 DEF StartInv

(* Taking an event changes nothing of what was started. *)
LEMMA HandleKeepsStart ==
    ASSUME StartInv, NEW r \in Request, NEW i \in Instance, Handle(r, i)
    PROVE  StartInv'
<1>1. ProcessTypeOK'
  BY DEF StartInv, ProcessTypeOK, Handle, FromContext
<1>2. (HalfStarted /\ ServingIsReady /\ FailedStartClosed)'
  BY DEF StartInv, ProcessTypeOK, HalfStarted, ServingIsReady, FailedStartClosed, Handle
<1> QED BY <1>1, <1>2 DEF StartInv

(* Every step of the service preserves the invariant of the start. *)
LEMMA StartNext == StartInv /\ [ApiNext]_apiVars => StartInv'
<1> SUFFICES ASSUME StartInv, [ApiNext]_apiVars PROVE StartInv'
  OBVIOUS
<1>1. CASE UNCHANGED apiVars
  BY <1>1, StartSame DEF apiVars
<1>2. CASE \E i \in Instance : StartProcess(i)
  BY <1>2, NewLoggerKeeps, NewTraceExporterKeeps, NewMetricExporterKeeps, OpenPoolKeeps
  DEF StartProcess, Start
<1>3. CASE \E i \in Instance : EndProcess(i)
  BY <1>3, EndOfProcessKeeps DEF EndProcess
<1>4. CASE \E r \in Request, i \in Instance : Refuse(r, i)
  BY <1>4, StartSame DEF Refuse
<1>5. CASE \E r \in Request, i \in Instance : Handle(r, i)
  BY <1>5, HandleKeepsStart
<1>6. CASE \E r \in Request : Execute(r) \/ Fail(r) \/ Server(r)
  BY <1>6, StartSame DEF Execute, Fail, Server
<1>7. CASE \E r \in Request : Return(r)
  <2>1. PICK r \in Request : UNCHANGED process
    BY <1>7 DEF Return
  <2> QED BY <2>1, StartSame
<1> QED BY <1>1, <1>2, <1>3, <1>4, <1>5, <1>6, <1>7 DEF ApiNext

(***************************************************************************)
(* Whatever fails during start and however often processes are replaced, a *)
(* process takes events only with both providers registered and the pool   *)
(* its environment asks for.                                               *)
(***************************************************************************)
THEOREM StartIsSound == ApiSpec => []ServingIsReady
<1>1. StartInv => ServingIsReady
  BY DEF StartInv
<1> QED BY <1>1, StartInit, StartNext, PTL DEF ApiSpec

(***************************************************************************)
(* A start that fails halfway, at whatever point and however often, leaves *)
(* no provider running that was not registered: a tracer started before    *)
(* the metric exporter failed has been shut down.                          *)
(***************************************************************************)
THEOREM FailedStartsAreClosed == ApiSpec => []FailedStartClosed
<1>1. StartInv => FailedStartClosed
  BY DEF StartInv
<1> QED BY <1>1, StartInit, StartNext, PTL DEF ApiSpec

-----------------------------------------------------------------------------
(* The gateway's variables. *)

GatewayTypeOK ==
    /\ event \in [Request -> Events]
    /\ fate \in [Request -> {"sent", "running", "replied", "lost"}]
    /\ host \in [Request -> Instance \cup {None}]
    /\ reply \in [Request -> [status : Nat, code : Code]]
    /\ report \in [Request -> [coldStart : BOOLEAN, outcome : Outcome]]
    /\ served \in [Instance -> Seq(Request)]
    /\ repeated \in [Request -> BOOLEAN]

(* Steps that leave the gateway alone keep its types. *)
LEMMA GatewaySame == GatewayTypeOK /\ UNCHANGED gateway => GatewayTypeOK'
BY DEF GatewayTypeOK, gateway

(* No event was sent yet. *)
LEMMA GatewayInit == ApiInit => GatewayTypeOK
<1> SUFFICES ASSUME ApiInit PROVE GatewayTypeOK
  OBVIOUS
<1>1. NoReply \in [status : Nat, code : Code]
  BY DEF NoReply, Code
<1>2. NoReport \in [coldStart : BOOLEAN, outcome : Outcome]
  BY DEF NoReport, Outcome
<1>3. report \in [Request -> [coldStart : BOOLEAN, outcome : Outcome]]
  BY <1>2 DEF ApiInit
<1>4. reply \in [Request -> [status : Nat, code : Code]]
  BY <1>1 DEF ApiInit
<1> QED BY <1>3, <1>4 DEF ApiInit, GatewayTypeOK

(* An event refused at the door gets a typed reply. *)
LEMMA RefuseTyped ==
    ASSUME GatewayTypeOK, NEW r \in Request, NEW i \in Instance, Refuse(r, i)
    PROVE  GatewayTypeOK'
<1>1. Refusal(event[r]) \in Nat
  BY DEF Refusal
<1>2. [status |-> Refusal(event[r]), code |-> "none"] \in [status : Nat, code : Code]
  BY <1>1 DEF Code
<1>3. reply' \in [Request -> [status : Nat, code : Code]]
  BY <1>2 DEF GatewayTypeOK, Refuse
<1> QED BY <1>3 DEF GatewayTypeOK, Refuse

(* An event handed to the service is noted. *)
LEMMA HandleTyped ==
    ASSUME ProcessTypeOK, GatewayTypeOK, NEW r \in Request, NEW i \in Instance,
           Handle(r, i)
    PROVE  GatewayTypeOK'
<1>1. coldStart[i] \in BOOLEAN
  BY DEF ProcessTypeOK
<1>2. [report[r] EXCEPT !.coldStart = coldStart[i]]
          \in [coldStart : BOOLEAN, outcome : Outcome]
  BY <1>1 DEF GatewayTypeOK
<1>3. report' \in [Request -> [coldStart : BOOLEAN, outcome : Outcome]]
  BY <1>2 DEF GatewayTypeOK, Handle, FromContext
<1>4. served' \in [Instance -> Seq(Request)]
  <2>1. served' = [served EXCEPT ![i] = Append(served[i], r)]
    BY DEF Handle, FromContext
  <2>2. Append(served[i], r) \in Seq(Request)
    BY DEF GatewayTypeOK
  <2> QED BY <2>1, <2>2 DEF GatewayTypeOK
<1>5. repeated' \in [Request -> BOOLEAN]
  <2>1. repeated' = [repeated EXCEPT ![r] = CommandFound(KeyOf(r))]
    BY DEF Handle
  <2> QED BY <2>1 DEF GatewayTypeOK, CommandFound
<1> QED BY <1>3, <1>4, <1>5 DEF GatewayTypeOK, Handle

(* The handler's reply is typed. *)
LEMMA ReturnTyped ==
    ASSUME InvocationTypeOK, GatewayTypeOK, NEW r \in Request, Return(r)
    PROVE  GatewayTypeOK'
<1>1. out[r].status \in Nat
  BY DEF InvocationTypeOK, Response
<1>2. ErrorCode(r) \in Code
  BY DEF ErrorCode, Code
<1>3. [status |-> out[r].status, code |-> ErrorCode(r)] \in [status : Nat, code : Code]
  BY <1>1, <1>2
<1>4. reply' \in [Request -> [status : Nat, code : Code]]
  BY <1>3 DEF GatewayTypeOK, Return
<1> DEFINE o == IF IsDeposit(r) THEN DepositOutcome(r) ELSE WithdrawOutcome(r)
<1>5. o \in Outcome
  BY DEF DepositOutcome, WithdrawOutcome, Outcome
<1>6. report' = [report EXCEPT ![r].outcome = o]
  BY DEF Return
<1> HIDE DEF o
<1>7. [report[r] EXCEPT !.outcome = o] \in [coldStart : BOOLEAN, outcome : Outcome]
  BY <1>5 DEF GatewayTypeOK
<1>8. report' \in [Request -> [coldStart : BOOLEAN, outcome : Outcome]]
  BY <1>6, <1>7 DEF GatewayTypeOK
<1>9. fate' \in [Request -> {"sent", "running", "replied", "lost"}]
      /\ UNCHANGED <<event, host, served, repeated>>
  BY DEF GatewayTypeOK, Return
<1> QED BY <1>4, <1>8, <1>9 DEF GatewayTypeOK

(* The reply for a lost invocation is typed. *)
LEMMA EndTyped ==
    ASSUME GatewayTypeOK, NEW i \in Instance, EndProcess(i)
    PROVE  GatewayTypeOK'
<1>1. fate' \in [Request -> {"sent", "running", "replied", "lost"}]
  BY DEF GatewayTypeOK, EndProcess
<1>2. served' \in [Instance -> Seq(Request)]
  BY DEF GatewayTypeOK, EndProcess
<1> QED BY <1>1, <1>2 DEF GatewayTypeOK, EndProcess

(* Every step of the service preserves the gateway's types. *)
LEMMA GatewayNext ==
    InvocationTypeOK /\ ProcessTypeOK /\ GatewayTypeOK /\ [ApiNext]_apiVars
        => GatewayTypeOK'
<1> SUFFICES ASSUME InvocationTypeOK, ProcessTypeOK, GatewayTypeOK,
                    [ApiNext]_apiVars
             PROVE  GatewayTypeOK'
  OBVIOUS
<1>1. CASE UNCHANGED apiVars
  BY <1>1, GatewaySame DEF apiVars
<1>2. CASE \E i \in Instance : StartProcess(i)
  BY <1>2, GatewaySame DEF StartProcess
<1>3. CASE \E i \in Instance : EndProcess(i)
  BY <1>3, EndTyped
<1>4. CASE \E r \in Request, i \in Instance : Refuse(r, i)
  BY <1>4, RefuseTyped
<1>5. CASE \E r \in Request, i \in Instance : Handle(r, i)
  BY <1>5, HandleTyped
<1>6. CASE \E r \in Request : Execute(r) \/ Fail(r) \/ Server(r)
  BY <1>6, GatewaySame DEF Execute, Fail, Server
<1>7. CASE \E r \in Request : Return(r)
  BY <1>7, ReturnTyped
<1> QED BY <1>1, <1>2, <1>3, <1>4, <1>5, <1>6, <1>7 DEF ApiNext

(* Processes and gateway stay in their types whatever the wallet does. *)
THEOREM ApiTypeCorrect == ApiSpec => []ApiTypeOK
<1>1. StartInv => ProcessTypeOK
  BY DEF StartInv
<1>2. TypeOK => InvocationTypeOK
  BY DEF TypeOK
<1>3. ProcessTypeOK /\ GatewayTypeOK => ApiTypeOK
  BY DEF GatewayTypeOK, ApiTypeOK
<1> QED
  BY <1>1, <1>2, <1>3, StartInit, StartNext, GatewayInit, GatewayNext,
     ServiceIdempotent, PTL DEF ApiSpec

-----------------------------------------------------------------------------
(* Cold starts. *)

(* The flag is up exactly until the process logs its first command, and a  *)
(* request that was logged is not handled again.                           *)
FlagIsUp ==
    \A i \in Instance :
        /\ phase[i] = "off" => served[i] = <<>>
        /\ phase[i] # "off" => (coldStart[i] <=> served[i] = <<>>)

ServedOnce ==
    \A i \in Instance : \A n \in DOMAIN served[i] : fate[served[i][n]] # "sent"

ColdInv == FlagIsUp /\ ServedOnce /\ ColdStartMarksFirst

(* No process has served an event yet. *)
LEMMA ColdInit == ApiInit => ColdInv
BY DEF ApiInit, ProcessInit, ColdInv, FlagIsUp, ServedOnce, ColdStartMarksFirst

(* Steps that leave processes and log alone keep the invariant. *)
LEMMA ColdSame ==
    ColdInv /\ UNCHANGED <<phase, coldStart, served, fate, report>> => ColdInv'
BY DEF ColdInv, FlagIsUp, ServedOnce, ColdStartMarksFirst

(* A start does not serve events. *)
LEMMA StartKeepsCold ==
    ASSUME ProcessTypeOK, ColdInv, NEW i \in Instance, StartProcess(i)
    PROVE  ColdInv'
<1>1. (ServedOnce /\ ColdStartMarksFirst)'
  BY DEF ColdInv, ServedOnce, ColdStartMarksFirst, StartProcess, gateway
<1>2. UNCHANGED served
  BY DEF StartProcess, gateway
<1>3. CASE NewLoggerFactory(i)
  BY <1>1, <1>2, <1>3 DEF ProcessTypeOK, ColdInv, FlagIsUp, NewLoggerFactory, Enter
<1>4. CASE NewTraceExporter(i) \/ NewMetricExporter(i) \/ OpenPool(i)
  <2>1. /\ phase[i] # "off" /\ UNCHANGED coldStart
        /\ \E p \in Phase \ {"off"} : phase' = [phase EXCEPT ![i] = p]
    BY <1>4 DEF NewTraceExporter, NewMetricExporter, MetricExporterFails, OpenPool,
                Exit, Enter, Phase
  <2> QED BY <1>1, <1>2, <2>1 DEF ProcessTypeOK, ColdInv, FlagIsUp
<1> QED BY <1>3, <1>4 DEF StartProcess, Start

(* A process that ends takes with it what it served. *)
LEMMA EndKeepsCold ==
    ASSUME ProcessTypeOK, GatewayTypeOK, ColdInv, NEW i \in Instance, EndProcess(i)
    PROVE  ColdInv'
<1>1. /\ served' = [served EXCEPT ![i] = <<>>]
      /\ phase' = [phase EXCEPT ![i] = "off"]
      /\ coldStart' = [coldStart EXCEPT ![i] = FALSE]
      /\ UNCHANGED report
  BY DEF EndProcess, End, Enter
<1>2. \A r \in Request : fate[r] # "sent" => fate'[r] # "sent"
  BY DEF EndProcess, GatewayTypeOK
<1>3. FlagIsUp'
  BY <1>1 DEF ColdInv, FlagIsUp, ProcessTypeOK, GatewayTypeOK
<1>4. ColdStartMarksFirst'
  BY <1>1 DEF ColdInv, ColdStartMarksFirst, GatewayTypeOK
<1>5. ServedOnce'
  <2> SUFFICES ASSUME NEW j \in Instance, NEW n \in DOMAIN served'[j]
               PROVE  fate'[served'[j][n]] # "sent"
    BY DEF ServedOnce
  <2>1. j # i /\ served'[j] = served[j]
    BY <1>1 DEF GatewayTypeOK
  <2>2. served[j][n] \in Request
    BY <2>1 DEF GatewayTypeOK
  <2> QED BY <1>2, <2>1, <2>2 DEF ColdInv, ServedOnce
<1> QED BY <1>3, <1>4, <1>5 DEF ColdInv

(* Replies do not change who was cold. *)
LEMMA FateKeepsCold ==
    ASSUME GatewayTypeOK, ColdInv, NEW r \in Request, fate' = [fate EXCEPT ![r] = "replied"],
           UNCHANGED <<phase, coldStart, served>>,
           \A q \in Request : report'[q].coldStart = report[q].coldStart
    PROVE  ColdInv'
<1>1. FlagIsUp'
  BY DEF ColdInv, FlagIsUp
<1>2. ASSUME NEW j \in Instance, NEW n \in DOMAIN served'[j]
      PROVE  /\ fate'[served'[j][n]] # "sent"
             /\ report'[served'[j][n]].coldStart <=> n = 1
  <2>1. served[j][n] \in Request
    BY <1>2 DEF GatewayTypeOK
  <2>2. fate'[served'[j][n]] # "sent"
    BY <1>2, <2>1 DEF GatewayTypeOK, ColdInv, ServedOnce
  <2>3. report'[served'[j][n]].coldStart <=> n = 1
    BY <1>2, <2>1 DEF ColdInv, ColdStartMarksFirst
  <2> QED BY <2>2, <2>3
<1> QED BY <1>1, <1>2 DEF ColdInv, ServedOnce, ColdStartMarksFirst

(* The first event of a process takes its cold start flag. *)
LEMMA HandleKeepsCold ==
    ASSUME ProcessTypeOK, GatewayTypeOK, ColdInv, NEW r \in Request,
           NEW i \in Instance, Handle(r, i)
    PROVE  ColdInv'
<1>1. /\ fate[r] = "sent" /\ phase[i] = "serving" /\ UNCHANGED phase
      /\ served' = [served EXCEPT ![i] = Append(served[i], r)]
      /\ coldStart' = [coldStart EXCEPT ![i] = FALSE]
      /\ fate' = [fate EXCEPT ![r] = "running"]
      /\ report' = [report EXCEPT ![r].coldStart = coldStart[i]]
  BY DEF Handle, CanTake, FromContext
<1>2. /\ served[i] \in Seq(Request)
      /\ served'[i] = Append(served[i], r)
      /\ \A j \in Instance \ {i} : served'[j] = served[j]
  BY <1>1 DEF GatewayTypeOK
<1>3. report'[r].coldStart = coldStart[i]
  BY <1>1 DEF GatewayTypeOK
<1>4. coldStart[i] <=> served[i] = <<>>
  BY <1>1 DEF ColdInv, FlagIsUp
<1>5. FlagIsUp'
  <2> SUFFICES ASSUME NEW j \in Instance
               PROVE  /\ phase'[j] = "off" => served'[j] = <<>>
                      /\ phase'[j] # "off" => (coldStart'[j] <=> served'[j] = <<>>)
    BY DEF FlagIsUp
  <2>1. CASE j = i
    <3>1. served'[i] # <<>>
      BY <1>2
    <3>2. coldStart'[i] = FALSE
      BY <1>1 DEF ProcessTypeOK
    <3> QED BY <1>1, <2>1, <3>1, <3>2
  <2>2. CASE j # i
    <3>1. coldStart'[j] = coldStart[j]
      BY <1>1, <2>2 DEF ProcessTypeOK
    <3> QED BY <1>1, <1>2, <2>2, <3>1 DEF ColdInv, FlagIsUp
  <2> QED BY <2>1, <2>2
<1>6. ASSUME NEW j \in Instance, NEW n \in DOMAIN served[j]
      PROVE  /\ served[j][n] \in Request \ {r}
             /\ fate'[served[j][n]] # "sent"
             /\ report'[served[j][n]] = report[served[j][n]]
  BY <1>1, <1>6 DEF GatewayTypeOK, ColdInv, ServedOnce
<1>7. ASSUME NEW j \in Instance, NEW n \in DOMAIN served'[j]
      PROVE  /\ fate'[served'[j][n]] # "sent"
             /\ report'[served'[j][n]].coldStart <=> n = 1
  <2>1. CASE j = i /\ n = Len(served[i]) + 1
    <3>1. served'[j][n] = r
      BY <1>2, <2>1
    <3>2. n = 1 <=> served[i] = <<>>
      BY <1>2, <2>1
    <3>3. fate'[r] # "sent"
      BY <1>1 DEF GatewayTypeOK
    <3> QED BY <1>3, <1>4, <3>1, <3>2, <3>3
  <2>2. CASE ~ (j = i /\ n = Len(served[i]) + 1)
    <3>1. n \in DOMAIN served[j] /\ served'[j][n] = served[j][n]
      BY <1>2, <1>7, <2>2
    <3>2. report[served[j][n]].coldStart <=> n = 1
      BY <3>1 DEF ColdInv, ColdStartMarksFirst
    <3> QED BY <1>6, <3>1, <3>2
  <2> QED BY <2>1, <2>2
<1> QED BY <1>5, <1>7 DEF ColdInv, ServedOnce, ColdStartMarksFirst

(* Every step of the service preserves the invariant of cold starts. *)
LEMMA ColdNext ==
    ProcessTypeOK /\ GatewayTypeOK /\ ColdInv /\ [ApiNext]_apiVars => ColdInv'
<1> SUFFICES ASSUME ProcessTypeOK, GatewayTypeOK, ColdInv, [ApiNext]_apiVars
             PROVE  ColdInv'
  OBVIOUS
<1>1. CASE UNCHANGED apiVars
  BY <1>1, ColdSame DEF apiVars, process, gateway
<1>2. CASE \E i \in Instance : StartProcess(i)
  BY <1>2, StartKeepsCold
<1>3. CASE \E i \in Instance : EndProcess(i)
  BY <1>3, EndKeepsCold
<1>4. ASSUME NEW r \in Request, NEW i \in Instance, Refuse(r, i) PROVE ColdInv'
  <2>1. /\ fate' = [fate EXCEPT ![r] = "replied"]
        /\ UNCHANGED <<phase, coldStart, served, report>>
    BY <1>4 DEF Refuse, process
  <2> QED BY <2>1, FateKeepsCold
<1>5. CASE \E r \in Request, i \in Instance : Handle(r, i)
  BY <1>5, HandleKeepsCold
<1>6. CASE \E r \in Request : Execute(r) \/ Fail(r) \/ Server(r)
  BY <1>6, ColdSame DEF Execute, Fail, Server, process, gateway
<1>7. ASSUME NEW r \in Request, Return(r) PROVE ColdInv'
  <2>1. /\ fate' = [fate EXCEPT ![r] = "replied"]
        /\ UNCHANGED <<phase, coldStart, served>>
    BY <1>7 DEF Return, process
  <2> DEFINE o == IF IsDeposit(r) THEN DepositOutcome(r) ELSE WithdrawOutcome(r)
  <2>2. report' = [report EXCEPT ![r].outcome = o]
    BY <1>7 DEF Return
  <2> HIDE DEF o
  <2>3. \A q \in Request : report'[q].coldStart = report[q].coldStart
    BY <2>2 DEF GatewayTypeOK
  <2> QED BY <2>1, <2>3, FateKeepsCold
<1> QED BY <1>1, <1>2, <1>3, <1>4, <1>5, <1>6, <1>7 DEF ApiNext

(***************************************************************************)
(* However events, refusals, crashes and restarts are interleaved, the     *)
(* first command a process logs, and no other, says cold_start.            *)
(***************************************************************************)
THEOREM ColdStartIsFirst == ApiSpec => []ColdStartMarksFirst
<1>1. StartInv => ProcessTypeOK
  BY DEF StartInv
<1>2. TypeOK => InvocationTypeOK
  BY DEF TypeOK
<1>3. ColdInv => ColdStartMarksFirst
  BY DEF ColdInv
<1> QED
  BY <1>1, <1>2, <1>3, StartInit, StartNext, GatewayInit, GatewayNext,
     ColdInit, ColdNext, ServiceIdempotent, PTL DEF ApiSpec

-----------------------------------------------------------------------------
(* Answers. *)

(* What the invocation of an order that had been recorded when it came in  *)
(* can be: about to find the record, or over, with the recorded response,  *)
(* a refused body or a failure.                                            *)
Retried(r) ==
    /\ KeyOf(r) \in DOMAIN commands
    /\ pc[r] \in {"findCommand", "done", "crashed"}
    /\ pc[r] = "done" =>
          \/ /\ out[r].status = 200
             /\ out[r].body = commands[KeyOf(r)].responseSnapshot
          \/ out[r].status = 422 /\ ~ BodyIsValid(r)
          \/ out[r].status = 500 /\ faults > 0

(* The outcome an answer is counted as. *)
OutcomeOf(r) == IF IsDeposit(r) THEN DepositOutcome(r) ELSE WithdrawOutcome(r)

(* What was replied and reported is what the invocation answered. *)
ReplyAt(r) ==
    /\ repeated[r] => Retried(r) /\ fate[r] # "sent"
    /\ repeated[r] /\ fate[r] = "replied" =>
          pc[r] = "done" /\ reply[r].status = out[r].status
    /\ report[r].outcome # "none" =>
          pc[r] = "done" /\ report[r].outcome = OutcomeOf(r)
    /\ reply[r].code = "CONCURRENCY_CONFLICT" => Outrun(r)

ReplyInv == \A r \in Request : ReplyAt(r)

(* Types, the wallet's invariants and the gateway's types, together. *)
ServiceInv ==
    WalletInv /\ AtomicityInv /\ ProcessTypeOK /\ GatewayTypeOK

(* Whatever is recorded stays recorded. *)
LEMMA RecordStays ==
    ASSUME WalletInv, [Next]_vars
    PROVE  /\ req' = req
           /\ \A k \in DOMAIN commands :
                 k \in DOMAIN commands' /\ commands'[k] = commands[k]
<1>1. CASE positions' = positions /\ commands' = commands
  BY <1>1, OnlyCommits
<1>2. CASE \E s \in Request : pc[s] = "commit" /\ CommitTx(s)
  BY <1>2, OnlyCommits, CommitRecords DEF WalletInv
<1> QED
  BY <1>1, <1>2, OnlyCommits

(* A step of the wallet that is s's own. *)
StepOf(s) ==
    \/ ReceiveRequest(s) \/ Step(s) \/ StatementFails(s)
    \/ CommitFails(s) \/ Crash(s) \/ DeadlockVictim(s)

(* It is the step of an invocation that is not over, and touches no other. *)
LEMMA OthersStay ==
    ASSUME TypeInv, NEW s \in Request, StepOf(s)
    PROVE  /\ faults' = faults \/ Fault
           /\ pc[s] \notin {"done", "crashed"}
           /\ \A r \in Request \ {s} : pc'[r] = pc[r] /\ out'[r] = out[r]
<1>1. ASSUME NEW label, Goto(s, label)
      PROVE  \A r \in Request \ {s} : pc'[r] = pc[r] /\ out'[r] = out[r]
  BY <1>1 DEF Goto, TypeInv, InvocationTypeOK
<1>2. ASSUME NEW status, NEW error, NEW body, Answer(s, status, error, body)
      PROVE  \A r \in Request \ {s} : pc'[r] = pc[r] /\ out'[r] = out[r]
  BY <1>2 DEF Answer, TypeInv, InvocationTypeOK
<1>3. ASSUME NEW error, Abort(s, error)
      PROVE  \A r \in Request \ {s} : pc'[r] = pc[r] /\ out'[r] = out[r]
  BY <1>3 DEF Abort, TypeInv, InvocationTypeOK
<1>4. CASE Step(s)
  <2>1. CASE DepositStep(s)
    BY <1>1, <1>2, <1>3, <2>1
    DEF DepositStep, FindByTypeAndOrderID, FindClientByID, FindAssetByID, Begin,
        CreatePosition, CreateProcessedCommand, Commit, Rollback, ReplayAfterRace
  <2>2. CASE WithdrawStep(s)
    BY <1>1, <1>2, <1>3, <2>2
    DEF WithdrawStep, FindByTypeAndOrderID, FindClientByID, Begin,
        FindByClientAndInstrument, SellFromLot, UpdatePosition,
        CreateProcessedCommand, Commit, Rollback, ReplayAfterRace
  <2> QED
    BY <1>4, <2>1, <2>2 DEF Step
<1>5. CASE Crash(s)
  BY <1>5 DEF Crash, TypeInv, InvocationTypeOK
<1>6. CASE ReceiveRequest(s) \/ StatementFails(s) \/ CommitFails(s)
  BY <1>1, <1>2, <1>3, <1>6
  DEF ReceiveRequest, DepositReceive, WithdrawReceive, Receive, StatementFails,
      CommitFails
<1>7. CASE DeadlockVictim(s)
  <2>1. PICK S \in SUBSET Request : s \in S /\ IsWaitCycle(S)
    BY <1>7 DEF DeadlockVictim
  <2>2. Blockers(s) # {}
    BY <2>1 DEF IsWaitCycle
  <2>3. pc[s] \in {"update", "createCommand"}
    BY <2>2 DEF Blockers
  <2> QED
    BY <1>3, <1>7, <2>3 DEF DeadlockVictim
<1> QED
  BY <1>4, <1>5, <1>6, <1>7 DEF StepOf

(* Once an invocation has answered, its answer is fixed, and faults are    *)
(* not forgotten.                                                          *)
LEMMA AnswerStays ==
    ASSUME TypeInv, [Next]_vars
    PROVE  /\ faults > 0 => faults' > 0
           /\ \A r \in Request : pc[r] \in {"done", "crashed"} =>
                 pc'[r] = pc[r] /\ out'[r] = out[r]
<1>1. CASE UNCHANGED vars
  BY <1>1 DEF vars
<1>2. CASE \E s \in Request : StepOf(s)
  BY <1>2, OthersStay DEF Fault, TypeInv, InvocationTypeOK
<1>3. CASE \E s \in Request : Reap(s)
  BY <1>3 DEF Reap, invocation
<1> QED
  BY <1>1, <1>2, <1>3 DEF Next, Quiescent, StepOf

(* The lookup of a recorded order, or what keeps it from being made. *)
LEMMA LookupReplays ==
    ASSUME WalletInv, NEW r \in Request, StepOf(r), Retried(r)
    PROVE  Retried(r)'
<1>1. pc[r] = "findCommand"
  BY OthersStay DEF Retried, WalletInv
<1>2. KeyOf(r) \in DOMAIN commands /\ TypeInv
  BY DEF Retried, WalletInv
<1>3. CASE FindByTypeAndOrderID(r)
  <2>1. /\ Answer(r, 200, "none", commands[KeyOf(r)].responseSnapshot)
        /\ commands' = commands /\ req' = req
    BY <1>2, <1>3 DEF FindByTypeAndOrderID, CommandFound, db
  <2>2. /\ pc'[r] = "done" /\ out'[r].status = 200
        /\ out'[r].body = commands[KeyOf(r)].responseSnapshot
    BY <1>2, <2>1 DEF Answer, TypeInv, InvocationTypeOK
  <2> QED
    BY <1>2, <2>1, <2>2 DEF Retried, KeyOf
<1>4. CASE StatementFails(r)
  <2>1. /\ Answer(r, 500, "other", <<>>) /\ Fault
        /\ commands' = commands /\ req' = req
    BY <1>1, <1>4 DEF StatementFails, db
  <2>2. pc'[r] = "done" /\ out'[r].status = 500 /\ faults' > 0
    BY <1>2, <2>1 DEF Answer, Fault, TypeInv, InvocationTypeOK
  <2> QED
    BY <1>2, <2>1, <2>2 DEF Retried, KeyOf
<1>5. CASE Crash(r)
  <2>1. pc'[r] = "crashed" /\ commands' = commands /\ req' = req
    BY <1>1, <1>2, <1>5 DEF Crash, db, TypeInv, InvocationTypeOK
  <2> QED
    BY <1>2, <2>1 DEF Retried, KeyOf
<1>6. CASE DeadlockVictim(r)
  <2>1. PICK S \in SUBSET Request : r \in S /\ IsWaitCycle(S)
    BY <1>6 DEF DeadlockVictim
  <2>2. Blockers(r) # {}
    BY <2>1 DEF IsWaitCycle
  <2> QED
    BY <1>1, <2>2 DEF Blockers
<1>7. CASE Step(r)
  BY <1>1, <1>3, <1>7
  DEF Step, DepositStep, WithdrawStep, FindClientByID, FindAssetByID, Begin,
      CreatePosition, FindByClientAndInstrument, SellFromLot, UpdatePosition,
      CreateProcessedCommand, Commit, Rollback, ReplayAfterRace
<1> QED
  BY <1>1, <1>4, <1>5, <1>6, <1>7
  DEF StepOf, ReceiveRequest, DepositReceive, WithdrawReceive, Receive, CommitFails

(* A retry stays one, whatever the wallet does. *)
LEMMA RetriedStays ==
    ASSUME WalletInv, [Next]_vars, NEW r \in Request, Retried(r)
    PROVE  Retried(r)'
<1>1. /\ req' = req /\ KeyOf(r) \in DOMAIN commands'
      /\ commands'[KeyOf(r)] = commands[KeyOf(r)]
  BY RecordStays DEF Retried
<1>2. faults > 0 => faults' > 0
  BY AnswerStays DEF WalletInv
<1>3. CASE pc'[r] = pc[r] /\ out'[r] = out[r]
  BY <1>1, <1>2, <1>3
  DEF Retried, KeyOf, BodyIsValid, IsDeposit, validateDepositRequest,
      validateWithdrawRequest
<1>4. CASE UNCHANGED vars \/ \E s \in Request : Reap(s)
  BY <1>3, <1>4 DEF vars, Reap, invocation
<1>5. CASE \E s \in Request : StepOf(s)
  BY <1>3, <1>5, OthersStay, LookupReplays DEF WalletInv
<1> QED
  BY <1>4, <1>5 DEF Next, Quiescent, StepOf

(* A step of the wallet that is not replied to s keeps what was. *)
LEMMA ReplyStays ==
    ASSUME WalletInv, [Next]_vars, NEW s \in Request, ReplyAt(s),
           fate'[s] = "replied" => fate[s] = "replied",
           fate[s] # "sent" => fate'[s] # "sent",
           reply'[s] = reply[s], repeated'[s] = repeated[s],
           report'[s].outcome = report[s].outcome
    PROVE  ReplyAt(s)'
<1>1. Retried(s) => Retried(s)'
  BY RetriedStays
<1>2. pc[s] = "done" => pc'[s] = "done" /\ out'[s] = out[s]
  BY AnswerStays DEF WalletInv
<1>3. req' = req
  BY RecordStays
<1>4. out'[s] = out[s] => OutcomeOf(s)' = OutcomeOf(s)
  BY <1>3 DEF OutcomeOf, DepositOutcome, WithdrawOutcome, IsDeposit
<1>5. Outrun(s) => Outrun(s)'
  BY RecordStays, OutrunStays
<1> QED
  BY <1>1, <1>2, <1>4, <1>5 DEF ReplyAt

(* The same, for all: the gateway replies to nobody. *)
LEMMA ReplyQuiet ==
    ASSUME WalletInv, ReplyInv, [Next]_vars,
           \A s \in Request : fate'[s] = "replied" => fate[s] = "replied",
           \A s \in Request : fate[s] # "sent" => fate'[s] # "sent",
           UNCHANGED <<reply, report, repeated>>
    PROVE  ReplyInv'
BY ReplyStays DEF ReplyInv

(* An event refused at the door has no invocation. *)
LEMMA RefuseKeepsReplies ==
    ASSUME ServiceInv, ReplyInv, NEW r \in Request, NEW i \in Instance, Refuse(r, i)
    PROVE  ReplyInv'
<1>1. /\ UNCHANGED vars /\ UNCHANGED <<report, repeated>> /\ fate[r] = "sent"
      /\ fate' = [fate EXCEPT ![r] = "replied"]
      /\ reply' = [reply EXCEPT ![r] = [status |-> Refusal(event[r]), code |-> "none"]]
  BY DEF Refuse
<1>2. ASSUME NEW s \in Request \ {r}
      PROVE  ReplyAt(s)'
  BY <1>1, ReplyStays DEF ReplyInv, ServiceInv, GatewayTypeOK
<1>3. ReplyAt(r)'
  <2>1. ReplyAt(r) /\ ~ repeated[r]
    BY <1>1 DEF ReplyInv, ReplyAt, ServiceInv, GatewayTypeOK
  <2>2. reply'[r].code = "none"
    BY <1>1 DEF ServiceInv, GatewayTypeOK
  <2>3. OutcomeOf(r)' = OutcomeOf(r)
    BY <1>1 DEF vars, OutcomeOf, DepositOutcome, WithdrawOutcome, IsDeposit
  <2> QED
    BY <1>1, <2>1, <2>2, <2>3 DEF ReplyAt, vars
<1> QED
  BY <1>2, <1>3 DEF ReplyInv

(* An event that is handled: from here on, a recorded order is a retry. *)
LEMMA HandleKeepsReplies ==
    ASSUME ServiceInv, ReplyInv, NEW r \in Request, NEW i \in Instance, Handle(r, i)
    PROVE  ReplyInv'
<1>1. /\ ReceiveRequest(r) /\ reply' = reply
      /\ fate' = [fate EXCEPT ![r] = "running"]
      /\ report' = [report EXCEPT ![r].coldStart = coldStart[i]]
      /\ repeated' = [repeated EXCEPT ![r] = CommandFound(KeyOf(r))]
  BY DEF Handle, FromContext
<1>2. [Next]_vars /\ WalletInv /\ TypeInv
  BY <1>1 DEF Next, ServiceInv, WalletInv
<1>3. \A s \in Request : report'[s].outcome = report[s].outcome
  BY <1>1 DEF ServiceInv, GatewayTypeOK
<1>4. ASSUME NEW s \in Request \ {r}
      PROVE  ReplyAt(s)'
  <2>1. fate'[s] = fate[s] /\ reply'[s] = reply[s] /\ repeated'[s] = repeated[s]
    BY <1>1 DEF ServiceInv, GatewayTypeOK
  <2> QED
    BY <1>2, <1>3, <2>1, ReplyStays DEF ReplyInv
<1>5. ReplyAt(r)'
  <2>1. fate'[r] = "running" /\ repeated'[r] = CommandFound(KeyOf(r))
    BY <1>1 DEF ServiceInv, GatewayTypeOK
  <2>2. ReplyAt(r) /\ pc[r] = "idle" /\ req' = req /\ commands' = commands
    BY <1>1 DEF ReplyInv, ReceiveRequest, DepositReceive, WithdrawReceive, Receive, db
  <2>3. report[r].outcome = "none"
    BY <2>2 DEF ReplyAt
  <2>4. CommandFound(KeyOf(r)) => Retried(r)'
    <3> SUFFICES ASSUME KeyOf(r) \in DOMAIN commands PROVE Retried(r)'
      BY DEF CommandFound
    <3>1. CASE Goto(r, "findCommand")
      <4>1. pc'[r] = "findCommand"
        BY <1>2, <3>1 DEF Goto, TypeInv, InvocationTypeOK
      <4> QED
        BY <2>2, <4>1 DEF Retried, KeyOf
    <3>2. CASE ~ BodyIsValid(r) /\ Answer(r, 422, "invalid", <<>>)
      <4>1. pc'[r] = "done" /\ out'[r].status = 422
        BY <1>2, <3>2 DEF Answer, TypeInv, InvocationTypeOK
      <4>2. ~ BodyIsValid(r)'
        BY <2>2, <3>2 DEF BodyIsValid, IsDeposit, validateDepositRequest,
                          validateWithdrawRequest
      <4> QED
        BY <2>2, <4>1, <4>2 DEF Retried, KeyOf
    <3>3. IsDeposit(r) <=> ~ IsWithdraw(r)
      BY <1>2, OneUseCase DEF TypeInv
    <3> QED
      BY <1>1, <3>1, <3>2, <3>3
      DEF ReceiveRequest, DepositReceive, WithdrawReceive, Receive, BodyIsValid
  <2>5. reply'[r].code = "CONCURRENCY_CONFLICT" => Outrun(r)'
    BY <1>1, <2>2 DEF ReplyAt, Outrun, Overtaken
  <2> QED
    BY <1>3, <2>1, <2>3, <2>4, <2>5 DEF ReplyAt
<1> QED
  BY <1>4, <1>5 DEF ReplyInv

(* The handler replies with what the invocation answered. *)
LEMMA ReturnKeepsReplies ==
    ASSUME ServiceInv, ReplyInv, NEW r \in Request, Return(r)
    PROVE  ReplyInv'
<1>1. /\ UNCHANGED vars /\ UNCHANGED repeated /\ pc[r] = "done"
      /\ fate[r] = "running"
      /\ fate' = [fate EXCEPT ![r] = "replied"]
      /\ reply' = [reply EXCEPT ![r] = [status |-> out[r].status, code |-> ErrorCode(r)]]
      /\ report' = [report EXCEPT ![r].outcome = OutcomeOf(r)]
  BY DEF Return, OutcomeOf
<1>2. ASSUME NEW s \in Request \ {r}
      PROVE  ReplyAt(s)'
  <2>1. fate'[s] = fate[s] /\ reply'[s] = reply[s] /\ report'[s] = report[s]
    BY <1>1 DEF ServiceInv, GatewayTypeOK
  <2> QED
    BY <1>1, <2>1, ReplyStays DEF ReplyInv, ServiceInv
<1>3. ReplyAt(r)'
  <2>1. /\ fate'[r] = "replied" /\ reply'[r].status = out[r].status
        /\ reply'[r].code = ErrorCode(r)
    BY <1>1 DEF ServiceInv, GatewayTypeOK
  <2>2. report'[r].outcome = OutcomeOf(r)
    <3> HIDE DEF OutcomeOf
    <3> QED
      BY <1>1 DEF ServiceInv, GatewayTypeOK
  <2>3. ReplyAt(r)
    BY DEF ReplyInv
  <2>4. /\ Retried(r) => Retried(r)'
        /\ OutcomeOf(r)' = OutcomeOf(r)
        /\ pc' = pc /\ out' = out
    BY <1>1 DEF vars, Retried, KeyOf, BodyIsValid, IsDeposit, OutcomeOf,
                DepositOutcome, WithdrawOutcome, validateDepositRequest,
                validateWithdrawRequest
  <2>5. ErrorCode(r) = "CONCURRENCY_CONFLICT" => Outrun(r)
    BY DEF ErrorCode, ServiceInv, AtomicityInv, AnswersOK, AnswerAt
  <2>6. Outrun(r) => Outrun(r)'
    BY <1>1 DEF vars, Outrun, Overtaken
  <2> QED
    BY <1>1, <2>1, <2>2, <2>3, <2>4, <2>5, <2>6 DEF ReplyAt
<1> QED
  BY <1>2, <1>3 DEF ReplyInv

(* Every step of the service preserves ReplyInv. *)
LEMMA ReplyNext == ServiceInv /\ ReplyInv /\ [ApiNext]_apiVars => ReplyInv'
<1> SUFFICES ASSUME ServiceInv, ReplyInv, [ApiNext]_apiVars PROVE ReplyInv'
  OBVIOUS
<1>1. [Next]_vars /\ WalletInv
  BY ApiStepIsWalletStep DEF ServiceInv
<1>2. CASE UNCHANGED gateway
  BY <1>1, <1>2, ReplyQuiet DEF gateway
<1>3. CASE \E i \in Instance : EndProcess(i)
  <2>1. /\ UNCHANGED <<reply, report, repeated>>
        /\ fate' = fate \/ \E r \in Request : fate' = [fate EXCEPT ![r] = "lost"]
    BY <1>3 DEF EndProcess, RunningOn
  <2>2. \A s \in Request : /\ fate'[s] = "replied" => fate[s] = "replied"
                           /\ fate[s] # "sent" => fate'[s] # "sent"
    BY <2>1 DEF ServiceInv, GatewayTypeOK
  <2> QED
    BY <1>1, <2>1, <2>2, ReplyQuiet
<1>4. CASE \E r \in Request, i \in Instance : Refuse(r, i) \/ Handle(r, i)
  BY <1>4, RefuseKeepsReplies, HandleKeepsReplies
<1>5. CASE \E r \in Request : Return(r)
  BY <1>5, ReturnKeepsReplies
<1> QED
  BY <1>2, <1>3, <1>4, <1>5 DEF ApiNext, apiVars, StartProcess, Execute, Fail, Server

(* It holds before the first event. *)
LEMMA ReplyInit == ApiInit => ReplyInv
BY DEF ApiInit, ReplyInv, ReplyAt, NoReply, NoReport

(* The invariants of the service hold throughout. *)
LEMMA ServiceInvariant == ApiSpec => [](ServiceInv /\ ReplyInv)
<1>1. ApiSpec => [](WalletInv /\ AtomicityInv)
  BY ServiceIsWallet, AtomicityInvariant, PTL
<1>2. StartInv => ProcessTypeOK
  BY DEF StartInv
<1>3. WalletInv => InvocationTypeOK
  BY DEF WalletInv, TypeInv
<1>4. WalletInv /\ AtomicityInv /\ ProcessTypeOK /\ GatewayTypeOK <=> ServiceInv
  BY DEF ServiceInv
<1> QED
  BY <1>1, <1>2, <1>3, <1>4, StartInit, StartNext, GatewayInit, GatewayNext,
     ReplyInit, ReplyNext, PTL DEF ApiSpec

(***************************************************************************)
(* A retry is safe: an order that was recorded when its event came in is   *)
(* answered with the recorded response, by whatever process serves it and  *)
(* however many others run; only a body that is not valid or a new failure *)
(* stands in the way.                                                      *)
(***************************************************************************)
THEOREM RetriesAreReplayed == ApiSpec => []RetryIsReplayed
<1>1. ReplyInv => RetryIsReplayed
  BY DEF ReplyInv, ReplyAt, Retried, RetryIsReplayed
<1> QED
  BY <1>1, ServiceInvariant, PTL

(***************************************************************************)
(* The metrics tell the truth: a counted success is recorded, a deposit's  *)
(* success was executed by the invocation that counts it and a replay was  *)
(* not, and a counted failure executed nothing unless a fault hid it.      *)
(***************************************************************************)
THEOREM OutcomesAreTrue == ApiSpec => []OutcomeIsTrue
<1>1. ServiceInv /\ ReplyInv => OutcomeIsTrue
  <2> SUFFICES ASSUME ServiceInv, ReplyInv, NEW r \in Request,
                      report[r].outcome # "none"
               PROVE  LET o == report[r].outcome IN
                      /\ o \in {"success", "replayed"} => KeyOf(r) \in DOMAIN commands
                      /\ o = "success" /\ IsDeposit(r) => Executed(r)
                      /\ o = "replayed" => ~ Executed(r)
                      /\ o = "failed" /\ Executed(r) => faults > 0
    BY DEF OutcomeIsTrue
  <2>1. pc[r] = "done" /\ report[r].outcome = OutcomeOf(r)
    BY DEF ReplyInv, ReplyAt
  <2>2. /\ report[r].outcome \in {"success", "replayed"} => out[r].error = "none"
        /\ report[r].outcome = "success" /\ IsDeposit(r) => out[r].status # 200
        /\ report[r].outcome = "replayed" => IsDeposit(r) /\ out[r].status = 200
        /\ report[r].outcome = "failed" => out[r].error # "none"
    BY <2>1 DEF OutcomeOf, DepositOutcome, WithdrawOutcome
  <2>3. out[r].error = "none" => out[r].status \in {200, 201}
    BY <2>1 DEF ServiceInv, AtomicityInv, AnswersOK, AnswerAt
  <2>4. out[r].status \in {200, 201} =>
           /\ KeyOf(r) \in DOMAIN commands
           /\ out[r].status = 201 => commands[KeyOf(r)].commandID = r
    BY DEF ServiceInv, WalletInv, IdempotencyInv, SuccessMatchesRecord
  <2>5. Executed(r) => Acknowledged(r) \/ InDoubt(r)
    BY <2>1 DEF Executed, ServiceInv, AtomicityInv, RecordIsOfItsRequest
  <2>6. Acknowledged(r) /\ IsDeposit(r) => out[r].status = 201
    BY DEF Acknowledged
  <2>7. Acknowledged(r) => out[r].error = "none"
    BY DEF Acknowledged
  <2>8. InDoubt(r) => out[r].status = 500 /\ out[r].error # "none" /\ faults > 0
    BY DEF InDoubt
  <2>9. out[r].status = 201 /\ out[r].error = "none" => Executed(r)
    BY <2>4 DEF Executed
  <2> QED
    BY <2>2, <2>3, <2>4, <2>5, <2>6, <2>7, <2>8, <2>9
<1> QED
  BY <1>1, ServiceInvariant, PTL

(***************************************************************************)
(* A conflict has a cause: a withdrawal gives up with one only if the lot  *)
(* it was about to write has a newer version than the one it read, and     *)
(* another recorded withdrawal of its client sold from that lot; whoever   *)
(* is told CONCURRENCY_CONFLICT has such a withdrawal, from a lot of its   *)
(* instrument, to blame.  A version that does not match is never an        *)
(* artefact of the invocation's own writes, of a deposit, of a rolled back *)
(* withdrawal or of a crashed one.                                         *)
(***************************************************************************)
THEOREM ConflictsHaveCauses == ApiSpec => []ConflictHasCause
<1>1. ConflictInv /\ ReplyInv => ConflictHasCause
  BY DEF ConflictInv, LostRace, ReplyInv, ReplyAt, Outrun, ConflictHasCause
<1>2. ApiSpec => []ConflictInv
  BY ServiceIsWallet, ConflictInvariant, PTL
<1> QED
  BY <1>1, <1>2, ServiceInvariant, PTL

(***************************************************************************)
(* What is proved of the wallet's data holds in the deployed service.      *)
(***************************************************************************)
THEOREM ServiceKeepsLots ==
    ApiSpec => /\ [](NoLostUpdate /\ SaleFitsLot /\ DepositAtomic /\ RejectedHasNoEffect)
               /\ [](DistinctTimes => LocksAcyclic)
               /\ SaleKeepsCollateral
               /\ ProceedsNearDesired
BY ServiceIsWallet, NoUpdateIsLost, SalesFitLots, SalesKeepCollateral,
   NoWaitCycle, DepositsAreAtomic, RefusalsHaveNoEffect, WithdrawalsSellWhatIsAsked, PTL

(* So does the ledger: what the service's callers leave in the database is *)
(* a sequence of orders, each executed at most once.                       *)
THEOREM ServiceImplementsLedger == ApiSpec => RefinesLedger
BY ServiceIsWallet, WalletImplementsLedger, PTL
=============================================================================
