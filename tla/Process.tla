------------------------------ MODULE Process ------------------------------
(***************************************************************************)
(* The life of the Lambda's processes: main() up to lambda.Start, exits,   *)
(* and the end that may come at any time.  Nothing a process keeps in      *)
(* memory survives it: the logger's cold-start flag, the telemetry         *)
(* providers, the pool.                                                    *)
(***************************************************************************)
EXTENDS PoolConfig

CONSTANTS Instance,     \* the processes Lambda may run at the same time
          Environments  \* the environments the function may be deployed with

ASSUME EnvironmentAssumption ==
    \A e \in Environments : \A s \in Setting :
        e.settings[s] \in Int \cup {Unset, Malformed}

VARIABLES
    environment,    \* the environment variables all processes read
    phase,          \* how far main() has come
    coldStart,      \* LoggerFactory.coldStart
    providers,      \* telemetry providers that were started and not shut down
    registered,     \* whether the providers were registered globally
    pool            \* the pool's settings

process == <<environment, phase, coldStart, providers, registered, pool>>

Phase == {"off", "traces", "metrics", "database", "serving", "exited"}

Provider == {"tracer", "meter"}

NoPool == [s \in Setting |-> 0]

ProcessTypeOK ==
    /\ environment \in Environments
    /\ phase \in [Instance -> Phase]
    /\ coldStart \in [Instance -> BOOLEAN]
    /\ providers \in [Instance -> SUBSET Provider]
    /\ registered \in [Instance -> BOOLEAN]
    /\ pool \in [Instance -> [Setting -> Int]]

ProcessInit ==
    /\ environment \in Environments
    /\ phase = [i \in Instance |-> "off"]
    /\ coldStart = [i \in Instance |-> FALSE]
    /\ providers = [i \in Instance |-> {}]
    /\ registered = [i \in Instance |-> FALSE]
    /\ pool = [i \in Instance |-> NoPool]

Enter(i, p) == phase' = [phase EXCEPT ![i] = p]

(* os.Exit(1) runs no deferred call: the providers are not shut down. *)
Exit(i) == Enter(i, "exited")

-----------------------------------------------------------------------------
(* main() *)

NewLoggerFactory(i) ==
    /\ phase[i] = "off"
    /\ coldStart' = [coldStart EXCEPT ![i] = TRUE]
    /\ Enter(i, "traces")
    /\ UNCHANGED <<environment, providers, registered, pool>>

(* The resource and the trace exporter; either may fail. *)
NewTraceExporter(i) ==
    /\ phase[i] = "traces"
    /\ \/ /\ Exit(i)
          /\ UNCHANGED providers
       \/ /\ providers' = [providers EXCEPT ![i] = {"tracer"}]
          /\ Enter(i, "metrics")
    /\ UNCHANGED <<environment, coldStart, registered, pool>>

(* Mutant of MetricExporterFails: the error is returned, nothing is closed. *)
MetricExporterFailsOpen(i) ==
    /\ Exit(i)
    /\ UNCHANGED <<providers, registered>>

(* The tracer provider that was started is shut down before main exits. *)
MetricExporterFails(i) ==
    /\ providers' = [providers EXCEPT ![i] = {}]
    /\ Exit(i)
    /\ UNCHANGED registered

NewMetricExporter(i) ==
    /\ phase[i] = "metrics"
    /\ \/ MetricExporterFails(i)
       \/ /\ providers' = [providers EXCEPT ![i] = {"tracer", "meter"}]
          /\ registered' = [registered EXCEPT ![i] = TRUE]
          /\ Enter(i, "database")
    /\ UNCHANGED <<environment, coldStart, pool>>

(* LoadDatabaseConfig and NewPool; then the handlers are wired and         *)
(* lambda.Start takes events.                                              *)
OpenPool(i) ==
    LET cfg == LoadDatabaseConfig(environment) IN
    /\ phase[i] = "database"
    /\ IF LoadDatabaseConfigFails(environment) \/ NewPoolFails(environment, cfg)
       THEN Exit(i) /\ UNCHANGED pool
       ELSE /\ pool' = [pool EXCEPT ![i] = cfg]
            /\ Enter(i, "serving")
    /\ UNCHANGED <<environment, coldStart, providers, registered>>

Start(i) ==
    \/ NewLoggerFactory(i)
    \/ NewTraceExporter(i)
    \/ NewMetricExporter(i)
    \/ OpenPool(i)

(* Lambda ends the process, or finds it ended; the next one starts anew. *)
End(i) ==
    /\ phase[i] # "off"
    /\ Enter(i, "off")
    /\ coldStart' = [coldStart EXCEPT ![i] = FALSE]
    /\ providers' = [providers EXCEPT ![i] = {}]
    /\ registered' = [registered EXCEPT ![i] = FALSE]
    /\ pool' = [pool EXCEPT ![i] = NoPool]
    /\ UNCHANGED environment
=============================================================================
