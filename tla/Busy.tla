-------------------------------- MODULE Busy --------------------------------
(***************************************************************************)
(* Several connections to one database, and the calls that SQLite refuses  *)
(* with SQLITE_BUSY because another connection holds a lock: which of them *)
(* the driver runs again (retry, driver/conn.go), and which it may.  The   *)
(* worker executes a request without letting another in, in the order they *)
(* were posted on the connection; it never waits for a lock, since the     *)
(* busy timeout is pinned to 0 (worker/session.ts).                        *)
(*                                                                         *)
(* A statement reads, writes, begins or ends a transaction, or writes what *)
(* is its connection's own (temp: a temporary table), for which it needs   *)
(* no lock.  The locks are external: those of a rollback journal, as every *)
(* VFS here uses.                                                          *)
(***************************************************************************)
EXTENDS Dsn, Integers, Sequences

CONSTANTS
    Conns,          \* the connections of the pool
    RetryAttempts,  \* retryAttempts
    Scripts,        \* given to ExecContext: sequences of statements
    MaxText         \* bound: the longest of them

ASSUME ScriptsAssumption ==
    \A s \in Scripts : s \in Seq({"read", "write", "temp"}) /\ Len(s) \in 1..MaxText
ASSUME RetryAssumption == RetryAttempts \in Nat \ {0}

VARIABLES
    txlock,     \* Config.TxLock, once there is a Config
    kind, text, \* for each connection, its call and the statements it posts
    at,         \* where the call is
    posted,     \* whether its request is posted and not executed
    result,     \* what the worker has answered
    attempt,    \* retry's attempt
    applied,    \* how often each of its statements has taken effect
    txn, lock,  \* the transaction, and the lock on the database
    streaming   \* whether a query streams

requestVars == <<kind, text, at, posted, result, attempt, applied>>
lockVars == <<txn, lock, streaming>>
busyVars == <<txlock, requestVars, lockVars>>

BusyInit ==
    /\ txlock = "none"
    /\ kind = [c \in Conns |-> "none"] /\ text = [c \in Conns |-> <<>>]
    /\ at = [c \in Conns |-> "idle"] /\ posted = [c \in Conns |-> FALSE]
    /\ result = [c \in Conns |-> "none"] /\ attempt = [c \in Conns |-> 0]
    /\ applied = [c \in Conns |-> <<>>]
    /\ txn = [c \in Conns |-> "none"] /\ lock = [c \in Conns |-> "none"]
    /\ streaming = [c \in Conns |-> FALSE]

(* The Config of the pool.                                                 *)
Configure ==
    /\ txlock = "none"
    /\ \E d \in DSNs : \E cfg \in ParseDSN(d) : txlock' = cfg.TxLock
    /\ UNCHANGED <<requestVars, lockVars>>

-----------------------------------------------------------------------------
(* The calls.                                                              *)

(* The text of each call, on a connection whose transaction is t; a        *)
(* read-only one refuses to write before it asks for a lock.               *)
Begins == {"begin", "beginRO"}
Ends == {"commit", "rollback"}
Methods == Begins \cup Ends \cup {"stmt", "query", "script"}
Texts(call, t) ==
    CASE call \in {"stmt", "query"} -> IF t = "ro" THEN {<<"read">>} ELSE {<<"read">>, <<"write">>}
      [] call = "script" -> IF t = "ro" THEN {} ELSE Scripts
      [] call = "begin" -> IF t = "none" THEN {<<TxBeginStatement([TxLock |-> txlock])>>} ELSE {}
      [] call = "beginRO" -> IF t = "none" THEN {<<"BEGIN DEFERRED">>} ELSE {}
      [] OTHER -> IF t = "none" THEN {} ELSE {<<call>>}

Submit(c) ==
    /\ posted' = [posted EXCEPT ![c] = TRUE]
    /\ at' = [at EXCEPT ![c] = "asked"]
    /\ result' = [result EXCEPT ![c] = "none"]

(* database/sql runs one call at a time on a connection, after the rows of *)
(* the last one; a request that was given up executes before the next.     *)
Issue(c, call) ==
    /\ txlock # "none"
    /\ at[c] = "idle" /\ ~posted[c] /\ ~streaming[c]
    /\ \E t \in Texts(call, txn[c]) :
          /\ text' = [text EXCEPT ![c] = t]
          /\ applied' = [applied EXCEPT ![c] = [i \in DOMAIN t |-> 0]]
    /\ kind' = [kind EXCEPT ![c] = call]
    /\ attempt' = [attempt EXCEPT ![c] = 0]
    /\ Submit(c)
    /\ UNCHANGED <<txlock, lockVars>>

(* retry is around the calls of a single statement; not around scripts,    *)
(* BEGIN and COMMIT.                                                       *)
ScriptsToo(c) == kind[c] \in {"stmt", "query", "script"}
Retried(c) == kind[c] \in {"stmt", "query"}

OneMore(c) == attempt[c] = RetryAttempts
LastTry(c) == attempt[c] = RetryAttempts - 1

Returns(c) ==
    /\ at[c] = "asked" /\ result[c] # "none"
    /\ at' = [at EXCEPT ![c] =
                IF result[c] = "busy" /\ Retried(c) /\ ~LastTry(c)
                THEN "backoff" ELSE "idle"]
    /\ UNCHANGED <<txlock, kind, text, posted, result, attempt, applied, lockVars>>

(* The backoff is over.                                                    *)
Again(c) ==
    /\ at[c] = "backoff"
    /\ attempt' = [attempt EXCEPT ![c] = @ + 1]
    /\ Submit(c)
    /\ UNCHANGED <<txlock, kind, text, applied, lockVars>>

(* The context of the call ends: what was posted stays, or is interrupted. *)
(* The context of BeginTx, and what follows from it, is in Conn.           *)
Abandon(c) ==
    /\ at[c] \in {"asked", "backoff"} /\ kind[c] \notin Begins \cup Ends
    /\ at' = [at EXCEPT ![c] = "idle"] /\ result' = [result EXCEPT ![c] = "none"]
    /\ UNCHANGED <<txlock, kind, text, posted, attempt, applied, lockVars>>

(* The rows are read, or closed.                                           *)
RowsEnd(c) ==
    /\ streaming[c] /\ streaming' = [streaming EXCEPT ![c] = FALSE]
    /\ lock' = [lock EXCEPT ![c] = IF txn[c] = "none" THEN "none" ELSE @]
    /\ UNCHANGED <<txlock, requestVars, txn>>

-----------------------------------------------------------------------------
(* The worker and SQLite.                                                  *)

Others(c) == {lock[d] : d \in Conns \ {c}}

(* The lock of connection c once it has executed the first n statements of *)
(* t; a statement of its own releases its lock when it is over.            *)
LockAt(c, t, n) ==
    IF txn[c] = "none" \/ lock[c] = "write" THEN lock[c]
    ELSE IF \E i \in 1..n : t[i] = "write" THEN "write"
    ELSE IF \E i \in 1..n : t[i] = "read" THEN "shared" ELSE lock[c]

(* A reader may be refused while another connection writes: that depends   *)
(* on the VFS and on how far the writer is.  A writer is refused while     *)
(* another one writes, and when it commits while another one reads.        *)
Refuses(c, t, i) ==
    LET held == LockAt(c, t, i - 1)
    IN  \/ /\ t[i] = "write" /\ held # "write"
           /\ "write" \in Others(c) \/ (txn[c] = "none" /\ "shared" \in Others(c))
        \/ t[i] = "BEGIN IMMEDIATE" /\ "write" \in Others(c)
        \/ t[i] = "BEGIN EXCLUSIVE" /\ Others(c) # {"none"}
        \/ t[i] = "commit" /\ held = "write" /\ "shared" \in Others(c)
MayRefuse(c, t, i) ==
    \/ Refuses(c, t, i)
    \/ t[i] = "read" /\ LockAt(c, t, i - 1) = "none" /\ "write" \in Others(c)

(* The request of c executes n of its statements: all, or those before the *)
(* one refused, or before the one that is interrupted.                     *)
Run(c, n) ==
    LET t == text[c]  asked == at[c] = "asked"
    IN  /\ posted[c] /\ n <= Len(t)
        /\ \A i \in 1..n : ~Refuses(c, t, i)
        /\ n < Len(t) => ~asked \/ MayRefuse(c, t, n + 1)
        /\ posted' = [posted EXCEPT ![c] = FALSE]
        /\ applied' = [applied EXCEPT ![c] =
                        [i \in DOMAIN t |-> IF i <= n THEN @[i] + 1 ELSE @[i]]]
        /\ result' = [result EXCEPT ![c] =
                       IF ~asked THEN @ ELSE IF n = Len(t) THEN "ok" ELSE "busy"]
        /\ streaming' = [streaming EXCEPT ![c] =
                          asked /\ n = 1 /\ kind[c] = "query" /\ t = <<"read">>]
        /\ txn' = [txn EXCEPT ![c] =
                    IF n = 0 THEN @
                    ELSE IF kind[c] = "begin" THEN "rw"
                    ELSE IF kind[c] = "beginRO" THEN "ro"
                    ELSE IF kind[c] \in Ends THEN "none" ELSE @]
        /\ lock' = [lock EXCEPT ![c] =
                     IF n = 0 THEN @
                     ELSE IF t[1] \in {"BEGIN IMMEDIATE", "BEGIN EXCLUSIVE"} THEN "write"
                     ELSE IF kind[c] \in Ends THEN "none"
                     ELSE IF streaming'[c] /\ txn[c] = "none" THEN "shared"
                     ELSE LockAt(c, t, n)]
        /\ UNCHANGED <<txlock, kind, text, at, attempt>>

BusyNext ==
    \/ Configure
    \/ \E c \in Conns :
          \/ \E call \in Methods : Issue(c, call)
          \/ Returns(c) \/ Again(c) \/ Abandon(c) \/ RowsEnd(c)
          \/ \E n \in 0..MaxText : Run(c, n)

BusySpec == BusyInit /\ [][BusyNext]_busyVars

-----------------------------------------------------------------------------
(* Properties.                                                             *)

(* Type invariant; only one connection has the write lock.                 *)
BusyTypeOK ==
    /\ txlock \in {"none", "immediate", "deferred", "exclusive"}
    /\ \A c \in Conns :
          /\ kind[c] \in Methods \cup {"none"}
          /\ at[c] \in {"idle", "asked", "backoff"} /\ posted[c] \in BOOLEAN
          /\ result[c] \in {"none", "ok", "busy"}
          /\ attempt[c] \in 0..(RetryAttempts - 1)
          /\ applied[c] \in [DOMAIN text[c] -> Nat]
          /\ txn[c] \in {"none", "rw", "ro"} /\ lock[c] \in {"none", "shared", "write"}
          /\ streaming[c] \in BOOLEAN
    /\ \A c, d \in Conns : lock[c] = "write" /\ lock[d] = "write" => c = d

(* No statement of a call takes effect twice, however often the call was   *)
(* refused and run again, also when it is given up meanwhile; one that     *)
(* succeeds has taken effect once in each of its statements, and a single  *)
(* statement that was refused not at all (conn.go 121-124, 234-240,        *)
(* stmt.go 57-58).                                                         *)
AppliedOnce ==
    \A c \in Conns :
        /\ \A i \in DOMAIN applied[c] : applied[c][i] <= 1
        /\ result[c] = "ok" => \A i \in DOMAIN applied[c] : applied[c][i] = 1
        /\ result[c] = "busy" /\ Len(text[c]) = 1 => applied[c] = <<0>>

(* A write transaction that has begun is not refused a lock before its     *)
(* COMMIT, unless the DSN asks for deferred ones: it would have to be      *)
(* given up, since nobody waits (dsn.go 78-82).                            *)
NoUpgrade ==
    \A c \in Conns :
        result[c] = "busy" /\ kind[c] \in {"stmt", "query", "script"} /\ txn[c] = "rw"
        => txlock = "deferred"
=============================================================================
