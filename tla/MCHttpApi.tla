----------------------------- MODULE MCHttpApi -----------------------------
(* Small instances of the deployed service for TLC. *)
EXTENDS HttpApiProperties, MCWallet

CONSTANTS i1, i2

ApiSymmetry == Permutations(Request) \cup Permutations(Instance)

Deployed(url, max, min, lifetime) ==
    [DATABASE_URL |-> url,
     settings |-> [MaxConnections |-> max, MinConnections |-> min,
                   MaxConnLifetime |-> lifetime, MaxConnIdleTime |-> Unset,
                   HealthCheckPeriod |-> Unset]]

(* Nothing set but the connection string; a pool of one connection. *)
PlainEnvironment == {Deployed("dsn", Unset, Unset, Unset)}

OneConnection == {Deployed("dsn", 1, Unset, Unset)}

(* Every setting at its limits, and everything that is refused: settings    *)
(* missing, malformed or past the limits, a pool without connections.       *)
ManyEnvironments ==
    PlainEnvironment
        \cup {Deployed("dsn", Int32Limit - 1, 0 - Int32Limit, 60)}
        \cup {Deployed(url, Unset, Unset, Unset) : url \in {Unset, Malformed}}
        \cup {Deployed("dsn", max, Unset, Unset) :
                 max \in {Malformed, 0, Int32Limit, 2 * Int32Limit + 1}}
        \cup {Deployed("dsn", Unset, min, Unset) :
                 min \in {Malformed, 0 - Int32Limit - 1}}
        \cup {Deployed("dsn", Unset, Unset, Malformed)}

Post(path) == [path |-> path, method |-> "POST", parses |-> TRUE]

Commands == {Post("/deposits"), Post("/withdrawals")}

(* With events that the router or the handlers refuse. *)
AnyEvent ==
    Commands \cup {Post("other"),
                   [path |-> "/deposits", method |-> "GET", parses |-> FALSE],
                   [path |-> "/withdrawals", method |-> "POST", parses |-> FALSE]}

(* An order deposited, withdrawals of the same and of another order, and a *)
(* body that is not valid but names an order that may have been executed.  *)
ServiceInputs ==
    {DepositOf("alice", "cdb", "o1", 1, 3),
     WithdrawOf("alice", "I1", "o1", 3),
     WithdrawOf("alice", "I1", "o2", 1),
     WithdrawOf("alice", "I1", "o1", None)}

(* A deposit, and a withdrawal that locks both of two tied lots. *)
ContendedInputs ==
    {DepositOf("alice", "cdb", "o1", 1, 3), WithdrawOf("alice", "I1", "o1", 7)}
=============================================================================
