----------------------------- MODULE PoolConfig -----------------------------
(***************************************************************************)
(* The settings of the connection pool: read from the environment, checked *)
(* and handed to pgxpool.  A setting is Unset (missing or empty),          *)
(* Malformed, or a number: connections, or seconds for the durations.      *)
(***************************************************************************)
EXTENDS Integers

CONSTANTS Unset, Malformed,
          Int32Limit    \* 2^31 in the code

ASSUME Int32Assumption == Int32Limit \in Nat /\ Int32Limit > 3

ASSUME SettingAssumption == Unset \notin Int /\ Malformed \notin Int

Counts == {"MaxConnections", "MinConnections"}

Setting == Counts \cup {"MaxConnLifetime", "MaxConnIdleTime", "HealthCheckPeriod"}

Default == [MaxConnections |-> 3, MinConnections |-> 0, MaxConnLifetime |-> 300,
            MaxConnIdleTime |-> 30, HealthCheckPeriod |-> 15]

(* strconv.ParseInt(v, 10, 32) accepts what int32 can hold. *)
FitsInt32(n) == n \in (0 - Int32Limit)..(Int32Limit - 1)

(* The conversion int32(n). *)
ToInt32(n) == ((n + Int32Limit) % (2 * Int32Limit)) - Int32Limit

(* Mutant of Readable: ParseInt is asked for 64 bits. *)
ReadableAnyWidth(s, v) == v # Malformed

Readable(s, v) ==
    v # Malformed /\ (s \in Counts /\ v # Unset => FitsInt32(v))

LoadDatabaseConfigFails(e) ==
    e.DATABASE_URL = Unset \/ \E s \in Setting : ~ Readable(s, e.settings[s])

(* Mutant of LoadDatabaseConfig: the durations have no default. *)
LoadDatabaseConfigBare(e) ==
    [s \in Setting |-> IF s \in Counts /\ e.settings[s] = Unset
                       THEN Default[s] ELSE e.settings[s]]

LoadDatabaseConfig(e) ==
    [s \in Setting |-> IF e.settings[s] = Unset THEN Default[s]
                       ELSE IF s \in Counts THEN ToInt32(e.settings[s])
                       ELSE e.settings[s]]

(***************************************************************************)
(* pgxpool refuses a connection string it cannot parse and a pool that can *)
(* hold no connection; it connects later, when a connection is asked for.  *)
(* It accepts any health check period, but one that is not positive makes  *)
(* its background goroutine panic: an end of the process, at any moment    *)
(* after this, that End has among the others.                              *)
(***************************************************************************)
NewPoolFails(e, cfg) ==
    e.DATABASE_URL = Malformed \/ cfg.MaxConnections < 1
=============================================================================
