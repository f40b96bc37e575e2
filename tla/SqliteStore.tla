----------------------------- MODULE SqliteStore -----------------------------
(***************************************************************************)
(* The two shapes of the SQLite store (sql/store.py, 82-165).  Over a file *)
(* every thread has a connection and BEGIN IMMEDIATE keeps transactions    *)
(* apart: that is SqlStore with Serialized.  Over ":memory:" all threads   *)
(* share the one connection there is, SQLite locks nothing between them,   *)
(* and only the semaphore of _SerializedStaticPool keeps them apart.       *)
(*                                                                         *)
(* The module is used with Serialized = FALSE: nothing but the semaphore   *)
(* orders the statements of the second shape.                              *)
(***************************************************************************)
EXTENDS SqlStore

CONSTANT MaxFailures    \* bound: checkouts that raise

VARIABLES
    memory,     \* whether the store is ":memory:"
    permits,    \* _op_lock
    checkout,   \* [Writers -> where its operation is with the connection]
    failures

pool == <<memory, permits, checkout, failures>>
poolVars == <<vars, pool>>

File == INSTANCE SqlStore WITH Serialized <- TRUE

PoolInit ==
    /\ Init
    /\ memory \in BOOLEAN /\ permits = 1
    /\ checkout = [w \in Writers |-> "none"] /\ failures = 0

-----------------------------------------------------------------------------

(* _do_get: the semaphore first, then the connection.                      *)
Unlocked == TRUE
Acquirable == permits > 0

Acquire(w) ==
    /\ memory /\ checkout[w] = "none" /\ pc[w] = "idle" /\ commits < MaxCommits
    /\ Acquirable
    /\ permits' = permits - 1
    /\ checkout' = [checkout EXCEPT ![w] = "permit"]
    /\ UNCHANGED <<vars, memory, failures>>

(* Connecting raises: the permit goes back and commit ends in StoreError.  *)
KeepPermit == permits
GiveBack == permits + 1

ConnectFails(w) ==
    /\ checkout[w] = "permit" /\ failures < MaxFailures
    /\ permits' = GiveBack /\ failures' = failures + 1
    /\ checkout' = [checkout EXCEPT ![w] = "none"]
    /\ UNCHANGED <<vars, memory>>

BeginShared(w) ==
    /\ checkout[w] = "permit" /\ Begin(w)
    /\ checkout' = [checkout EXCEPT ![w] = "connection"]
    /\ UNCHANGED <<memory, permits, failures>>

(* A statement, or an exception, inside the block of engine.begin().       *)
Inside(w) ==
    /\ memory /\ Active(w) /\ (Statement(w) \/ Crash(w))
    /\ UNCHANGED pool

(* _do_return_conn, whether or not resetting the connection raised.        *)
Return(w) ==
    /\ checkout[w] = "connection" /\ ~Active(w)
    /\ permits' = GiveBack
    /\ checkout' = [checkout EXCEPT ![w] = "none"]
    /\ UNCHANGED <<vars, memory, failures>>

Answer(w) ==
    /\ memory /\ checkout[w] = "none" /\ Ack(w)
    /\ UNCHANGED pool

PoolNext ==
    \/ ~memory /\ File!Next /\ UNCHANGED pool
    \/ \E w \in Writers :
          Acquire(w) \/ ConnectFails(w) \/ BeginShared(w) \/ Inside(w) \/ Return(w) \/ Answer(w)

(* A thread that has the connection goes on and gives it back; one that    *)
(* waits for the semaphore gets it when it is there.                       *)
PoolFairness ==
    \A w \in Writers :
        /\ WF_poolVars(Inside(w)) /\ WF_poolVars(Return(w))
        /\ WF_poolVars(BeginShared(w)) /\ WF_poolVars(Acquire(w))

PoolSpec == PoolInit /\ [][PoolNext]_poolVars /\ PoolFairness

-----------------------------------------------------------------------------
(* Properties.                                                             *)

(* The shared connection serializes as BEGIN IMMEDIATE does: whatever the  *)
(* threads do, the store behaves like the one over a file.                 *)
BehavesLikeFile == File!Spec

(* No permit is lost, also by a checkout that raises: time and again the   *)
(* connection is there for whoever calls next.                             *)
ConnectionComesBack == []<>(permits = 1)

=============================================================================
