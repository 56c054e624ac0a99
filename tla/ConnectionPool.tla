---------------------------- MODULE ConnectionPool ----------------------------
(***************************************************************************)
(* psycopg2's ThreadedConnectionPool as db.py sets it up (minconn=1) and   *)
(* as _conn of storage.py uses it: a connection is borrowed for one        *)
(* transaction, committed or rolled back, and given back in a finally.     *)
(* PostgreSQL may stop and start, which kills every connection; a client   *)
(* only notices when it uses one.                                          *)
(***************************************************************************)
EXTENDS Integers, FiniteSets

CONSTANTS
    Thread,
    MaxConn     \* maxconn, at least 1

VARIABLES
    idle,       \* the connection that waits in the pool: "none", "live" or "dead"
    conn        \* the connection each thread has borrowed

InUse == {t \in Thread : conn[t] # "none"}

PoolInit ==
    /\ idle = "live"
    /\ conn = [t \in Thread |-> "none"]

\* getconn(): the idle connection, checked by nobody, or a new one
GetConn(t) ==
    /\ conn[t] = "none"
    /\ \/ /\ idle # "none"
          /\ conn' = [conn EXCEPT ![t] = idle]
          /\ idle' = "none"
       \/ /\ idle = "none"
          /\ Cardinality(InUse) < MaxConn
          /\ conn' = [conn EXCEPT ![t] = "live"]
          /\ UNCHANGED idle

\* It raises: all connections are out (PoolError), or PostgreSQL does not answer.
GetConnRaises(t) ==
    /\ conn[t] = "none"
    /\ idle = "none"
    /\ UNCHANGED <<idle, conn>>

\* Mutant: putconn() is not in the finally.
ForgetConn(t, raised) ==
    /\ idle' = IF conn[t] = "live" /\ ~ raised THEN "live" ELSE idle
    /\ conn' = IF raised THEN conn ELSE [conn EXCEPT ![t] = "none"]

\* putconn(): a connection found broken is dropped, and one of two idle ones closed.
PutConn(t, raised) ==
    /\ \/ idle' = IF conn[t] = "live" /\ idle = "none" THEN "live" ELSE idle
       \/ raised /\ UNCHANGED idle
    /\ conn' = [conn EXCEPT ![t] = "none"]

ServerRestarts ==
    /\ idle' = IF idle = "live" THEN "dead" ELSE idle
    /\ conn' = [t \in Thread |-> IF conn[t] = "live" THEN "dead" ELSE conn[t]]
===============================================================================
