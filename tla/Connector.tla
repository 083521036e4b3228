------------------------------ MODULE Connector ------------------------------
(***************************************************************************)
(* One Connector (driver/connector.go): the database worker it starts once *)
(* for all its connections, the callers that wait for that, the databases  *)
(* they open on the worker, and Close.  A Connector belongs to a sql.DB,   *)
(* which calls Connect from several goroutines and Close once, or to the   *)
(* one connection of Driver.Open (driver/driver.go).                       *)
(*                                                                         *)
(* The transport is reduced to the reply that a call waits for: how frames *)
(* reach it is in Transport, what its answers cost the worker in Session.  *)
(* The database worker is external: it comes up, or refuses to, or stays   *)
(* silent; it may fail at any time; once it serves, it answers (Stream).   *)
(***************************************************************************)
EXTENDS Dsn, Integers, FiniteSets

CONSTANTS
    MaxConnects,    \* bound: calls of Connect
    Impatient,      \* those whose contexts may end
    Vfs,            \* the VFSs that the worker reports or can install
    Id,             \* the random name of the connector
    Null

ASSUME MaxConnectsAssumption == MaxConnects \in Nat
ASSUME IdAssumption == Id \in Slashed
ASSUME NullAssumption == \A d \in DSNs : Null \notin ParseDSN(d)

Attempt == 1..MaxConnects

VARIABLES
    owner,      \* "none" before newConnector, then "sql.DB" or "conn"
    cfg,        \* Connector.cfg
    once,       \* Connector.workerOnce: "free", "running" or "done"
    workerErr,  \* Connector.workerErr; without one there is a worker
    dead,       \* Worker.dead # nil
    worker,     \* the database worker: "none" or "gone" if there is none
    stage,      \* what each caller of Connect is doing
    context,    \* its context: "live" or "done"
    reply,      \* the answer its call has got
    err,        \* the error it returns
    db,         \* its database on the worker
    closer      \* the caller of Connector.Close

ownVars == <<owner, cfg, once, workerErr, dead>>
attemptVars == <<stage, context, reply, err>>
connectorVars == <<ownVars, worker, attemptVars, db, closer>>

ConnectorInit ==
    /\ owner = "none" /\ cfg = Null
    /\ once = "free" /\ workerErr = "none" /\ dead = FALSE /\ worker = "none"
    /\ stage = [c \in Attempt |-> "idle"] /\ context = [c \in Attempt |-> "live"]
    /\ reply = [c \in Attempt |-> "none"] /\ err = [c \in Attempt |-> "none"]
    /\ db = [c \in Attempt |-> "none"]
    /\ closer = "idle"

(* sql.Open or Driver.Open, whose connection owns its connector.           *)
NewConnector ==
    /\ owner = "none" /\ owner' \in {"sql.DB", "conn"}
    /\ \E d \in DSNs : cfg' \in ParseDSN(d)
    /\ UNCHANGED <<once, workerErr, dead, worker, attemptVars, db, closer>>

(* The waits for an answer of the worker.                                  *)
Asks == {"opening", "pragma", "undo", "closing"}

(* Worker.die: every call that waits gets the error.                       *)
Failed == [c \in Attempt |-> IF stage[c] \in Asks /\ reply[c] = "none" THEN "err" ELSE reply[c]]

(* Worker.Close.                                                           *)
Terminate == dead' = TRUE /\ worker' = "gone"
Leave == UNCHANGED <<dead, worker>>

-----------------------------------------------------------------------------
(* ensureWorker and Spawn.                                                 *)

(* A Connect that returns an error; Driver.Open then closes the connector. *)
Returned(c) == "failed"
Disowned(c) == IF owner = "conn" THEN "disown" ELSE "failed"
Fail(c, why) ==
    /\ stage' = [stage EXCEPT ![c] = Disowned(c)]
    /\ err' = [err EXCEPT ![c] = why]

Call(c) ==
    /\ owner # "none" /\ stage[c] = "idle"
    /\ c > 1 => owner = "sql.DB" /\ stage[c - 1] # "idle"
    /\ stage' = [stage EXCEPT ![c] = "ensure"]
    /\ UNCHANGED <<ownVars, worker, context, reply, err, db, closer>>

ContextEnds(c) ==
    /\ c \in Impatient /\ owner = "sql.DB"
    /\ stage[c] \in {"ensure", "spawning", "opening", "pragma"}
    /\ context[c] = "live" /\ context' = [context EXCEPT ![c] = "done"]
    /\ UNCHANGED <<ownVars, worker, stage, reply, err, db, closer>>

(* The first caller runs workerOnce; Lookup may find no entry point.       *)
NoWorkerYet == once # "done"
Unclaimed == once = "free"

Claim(c) ==
    /\ stage[c] = "ensure" /\ Unclaimed
    /\ \/ /\ once' = "running" /\ worker' = "loading"
          /\ stage' = [stage EXCEPT ![c] = "spawning"]
          /\ UNCHANGED <<workerErr, err>>
       \/ /\ once' = "done" /\ workerErr' = "failed"
          /\ Fail(c, "failed")
          /\ UNCHANGED worker
    /\ UNCHANGED <<owner, cfg, dead, context, reply, db, closer>>

(* READY is in the handshake's route; a worker that has failed since is    *)
(* met by the calls.                                                       *)
Spawned(c) ==
    /\ stage[c] = "spawning" /\ worker = "serving"
    /\ once' = "done"
    /\ stage' = [stage EXCEPT ![c] = "ensure"]
    /\ UNCHANGED <<owner, cfg, workerErr, dead, worker, context, reply, err, db, closer>>

(* Spawn gives up its worker, and the error is remembered: the caller's    *)
(* context or the 30 s of the handshake ended, the worker failed, or what  *)
(* it said is no READY of this version.                                    *)
NoTimer == FALSE
Expired == TRUE

SpawnFails(c, why) ==
    /\ once' = "done" /\ workerErr' = why
    /\ Terminate
    /\ Fail(c, why)
    /\ UNCHANGED <<owner, cfg, context, reply, db, closer>>

GiveUp(c) ==
    /\ stage[c] = "spawning"
    /\ Expired \/ context[c] = "done" \/ (dead /\ worker = "loading")
    /\ SpawnFails(c, IF context[c] = "done" THEN "deadline" ELSE "failed")

Refused(c) ==
    /\ stage[c] = "spawning" /\ worker = "refusing"
    /\ SpawnFails(c, "failed")

-----------------------------------------------------------------------------
(* The rest of Connect, and Conn.Close.                                    *)

(* A call: begin refuses on a dead worker.                                 *)
Ask(c, wait) ==
    /\ stage' = [stage EXCEPT ![c] = wait]
    /\ reply' = [reply EXCEPT ![c] = IF dead THEN "err" ELSE "none"]

CheckVFS == cfg.VFS \in Vfs \cup {""}

(* Once the worker is there, or is not, whoever waited goes on: none looks *)
(* at its context before.                                                  *)
Enter(c) ==
    /\ stage[c] = "ensure" /\ once = "done"
    /\ IF workerErr = "none" /\ CheckVFS
       THEN /\ Ask(c, "opening")
            /\ db' = [db EXCEPT ![c] = IF dead THEN "none" ELSE "asked"]
            /\ UNCHANGED err
       ELSE /\ Fail(c, IF workerErr = "none" THEN "failed" ELSE workerErr)
            /\ UNCHANGED <<reply, db>>
    /\ UNCHANGED <<ownVars, worker, context, closer>>

(* Worker.Open returns, and foreign keys are turned on.                    *)
Opened(c) ==
    /\ stage[c] = "opening" /\ reply[c] = "ok"
    /\ IF cfg.ForeignKeys THEN Ask(c, "pragma")
       ELSE stage' = [stage EXCEPT ![c] = "has"] /\ UNCHANGED reply
    /\ UNCHANGED <<ownVars, worker, context, err, db, closer>>

OpenFails(c) ==
    /\ stage[c] = "opening"
    /\ \/ reply[c] = "err" /\ Fail(c, "failed")
       \/ context[c] = "done" /\ Fail(c, "left")
    /\ UNCHANGED <<ownVars, worker, context, reply, db, closer>>

PragmaDone(c) ==
    /\ stage[c] = "pragma" /\ reply[c] = "ok"
    /\ stage' = [stage EXCEPT ![c] = "has"]
    /\ UNCHANGED <<ownVars, worker, context, reply, err, db, closer>>

(* Conn.Close: CLOSE without a context.                                    *)
CloseDb(c, wait) ==
    /\ Ask(c, wait)
    /\ db' = [db EXCEPT ![c] = IF dead THEN @ ELSE "closing"]

Forgets(c) == Ask(c, "undo") /\ UNCHANGED db
Undo(c) == CloseDb(c, "undo")

PragmaFails(c) ==
    /\ stage[c] = "pragma"
    /\ \/ reply[c] = "err" /\ err' = [err EXCEPT ![c] = "failed"]
       \/ context[c] = "done" /\ err' = [err EXCEPT ![c] = "deadline"]
    /\ Undo(c)
    /\ UNCHANGED <<ownVars, worker, context, closer>>

UndoOver(c) ==
    /\ stage[c] = "undo" /\ reply[c] # "none"
    /\ Fail(c, err[c])
    /\ UNCHANGED <<ownVars, worker, context, reply, db, closer>>

(* The pool, or the caller of Driver.Open, closes its connection.          *)
ReleaseConn(c) ==
    /\ stage[c] = "has"
    /\ CloseDb(c, "closing")
    /\ UNCHANGED <<ownVars, worker, context, err, closer>>

ConnClosed(c) ==
    /\ stage[c] = "closing" /\ reply[c] # "none"
    /\ stage' = [stage EXCEPT ![c] = IF owner = "conn" THEN "disown" ELSE "closed"]
    /\ UNCHANGED <<ownVars, worker, context, reply, err, db, closer>>

-----------------------------------------------------------------------------
(* Connector.Close.                                                        *)

(* By Driver.Open or its connection: workerOnce has been run.              *)
Disown(c) ==
    /\ stage[c] = "disown"
    /\ stage' = [stage EXCEPT ![c] = IF err[c] = "none" THEN "closed" ELSE "failed"]
    /\ IF workerErr = "none" THEN Terminate ELSE Leave
    /\ UNCHANGED <<owner, cfg, once, workerErr, context, reply, err, db, closer>>

(* By sql.DB, while Connects may be under way; it claims workerOnce, or    *)
(* waits for the caller that runs it.                                      *)
Close ==
    /\ owner = "sql.DB" /\ closer = "idle"
    /\ closer' = "waiting"
    /\ UNCHANGED <<ownVars, worker, attemptVars, db>>

AtOnce == TRUE
OnceOver == once # "running"

CloseDone ==
    /\ closer = "waiting" /\ OnceOver
    /\ closer' = "returned" /\ once' = IF once = "free" THEN "done" ELSE once
    /\ workerErr' = IF once = "free" THEN "closed" ELSE workerErr
    /\ IF once = "done" /\ workerErr = "none"
       THEN Terminate /\ reply' = Failed ELSE Leave /\ UNCHANGED reply
    /\ UNCHANGED <<owner, cfg, stage, context, err, db>>

-----------------------------------------------------------------------------
(* The database worker.                                                    *)

(* main: READY, or ERROR with id 0.                                        *)
Starts ==
    /\ worker = "loading" /\ ~dead
    /\ worker' \in {"serving", "refusing"}
    /\ UNCHANGED <<ownVars, attemptVars, db, closer>>

(* onerror, onmessageerror, or a message that is no frame.                 *)
WorkerFails ==
    /\ worker \in {"loading", "serving"} /\ ~dead
    /\ dead' = TRUE /\ reply' = Failed
    /\ UNCHANGED <<owner, cfg, once, workerErr, worker, stage, context, err, db, closer>>

Replies(c, wait, res) ==
    reply' = [reply EXCEPT ![c] = IF stage[c] = wait /\ ~dead THEN res ELSE @]

(* OPEN, which fails for want of a slot or in sqlite3_open_v2.             *)
ServeOpen(c) ==
    /\ worker = "serving" /\ db[c] = "asked"
    /\ \/ db' = [db EXCEPT ![c] = "open"] /\ Replies(c, "opening", "ok")
       \/ db' = [db EXCEPT ![c] = "none"] /\ Replies(c, "opening", "err")
    /\ UNCHANGED <<ownVars, worker, stage, context, err, closer>>

ServePragma(c) ==
    /\ worker = "serving" /\ ~dead
    /\ stage[c] = "pragma" /\ reply[c] = "none"
    /\ reply' \in {[reply EXCEPT ![c] = "ok"], [reply EXCEPT ![c] = "err"]}
    /\ UNCHANGED <<ownVars, worker, stage, context, err, db, closer>>

ServeClose(c) ==
    /\ worker = "serving" /\ db[c] = "closing"
    /\ db' = [db EXCEPT ![c] = "closed"]
    /\ reply' = [reply EXCEPT ![c] = IF dead THEN @ ELSE "ok"]
    /\ UNCHANGED <<ownVars, worker, stage, context, err, closer>>

-----------------------------------------------------------------------------

(* The steps that a goroutine takes without another's leave.               *)
Goes(c) ==
    \/ Claim(c) \/ Spawned(c) \/ GiveUp(c) \/ Refused(c) \/ Enter(c)
    \/ Opened(c) \/ OpenFails(c) \/ PragmaDone(c) \/ PragmaFails(c) \/ UndoOver(c)
    \/ ConnClosed(c) \/ Disown(c)
Serves(c) == ServeOpen(c) \/ ServePragma(c) \/ ServeClose(c)

ConnectorNext ==
    \/ NewConnector \/ Close \/ CloseDone \/ Starts \/ WorkerFails
    \/ \E c \in Attempt : Call(c) \/ ContextEnds(c) \/ ReleaseConn(c) \/ Goes(c) \/ Serves(c)

(* Goroutines that can go on do, the timer of the handshake fires, and a   *)
(* worker that serves answers; whether one comes up, nobody knows.         *)
ConnectorFairness ==
    /\ WF_connectorVars(CloseDone)
    /\ \A c \in Attempt : WF_connectorVars(Goes(c)) /\ WF_connectorVars(Serves(c))

ConnectorSpec == ConnectorInit /\ [][ConnectorNext]_connectorVars /\ ConnectorFairness

-----------------------------------------------------------------------------
(* Properties.                                                             *)

(* Type invariant; workerOnce is running as long as one caller spawns.     *)
ConnectorTypeOK ==
    /\ owner \in {"none", "sql.DB", "conn"} /\ (owner = "none" <=> cfg = Null)
    /\ once \in {"free", "running", "done"}
    /\ workerErr \in {"none", "deadline", "failed", "closed"}
    /\ dead \in BOOLEAN
    /\ worker \in {"none", "loading", "serving", "refusing", "gone"}
    /\ stage \in [Attempt -> Asks \cup {"idle", "ensure", "spawning", "has", "disown",
                                    "failed", "closed"}]
    /\ context \in [Attempt -> {"live", "done"}]
    /\ reply \in [Attempt -> {"none", "ok", "err"}]
    /\ err \in [Attempt -> {"none", "deadline", "left", "failed", "closed"}]
    /\ db \in [Attempt -> {"none", "asked", "open", "closing", "closed"}]
    /\ closer \in {"idle", "waiting", "returned"}
    /\ Cardinality({c \in Attempt : stage[c] = "spawning"}) = IF once = "running" THEN 1 ELSE 0

(* Nobody keeps a worker running, 16 MiB and a thread, that no caller can  *)
(* reach: not after Close (connector.go 128-135), also one that came while *)
(* the worker started, not after a Spawn that failed, and not after        *)
(* Driver.Open failed or its connection was closed (driver.go 22-24).      *)
NoWorkerLeft ==
    \/ closer = "returned"
    \/ once = "done" /\ workerErr # "none"
    \/ owner = "conn" /\ \E c \in Attempt : stage[c] \in {"failed", "closed"}
    => worker \in {"none", "gone"}

(* A database that is open on the worker, and holds one of its slots, has  *)
(* a connection, or a Connect that will return it or close it; the one     *)
(* exception is an OPEN whose caller's context ended while it waited.      *)
DatabasesOwned ==
    \A c \in Attempt :
        worker = "serving" /\ ~dead /\ db[c] \in {"asked", "open"} /\ err[c] # "left"
        => stage[c] \in {"opening", "pragma", "has"}

(* The connections of a pool on an in-memory database see one database,    *)
(* not one each (PROTOCOL.md 483-485), and so do those on a file.  The     *)
(* temporary database, and a memdb that the DSN itself names without a /   *)
(* or with mode=memory, are private to each.                               *)
Shared ==
    \/ cfg.Persistent \/ cfg.anonymousMemory
    \/ cfg.Filename.name \in Slashed /\ Get(cfg.Filename.query, "mode") # "memory"
OneDatabase ==
    \A c, d \in Attempt :
        db[c] = "open" /\ db[d] = "open" /\ Shared
        => LET file == FilenameFor(cfg, Id)
           IN  DatabaseOf(file, cfg.VFS, c) = DatabaseOf(file, cfg.VFS, d)

(* Connect and Close return, whether the worker comes up, refuses, fails   *)
(* or stays silent, and whoever else waits for it.                         *)
ConnectReturns ==
    /\ \A c \in Attempt : (stage[c] \in {"ensure", "spawning", "disown"} \cup Asks)
                           ~> (stage[c] \in {"has", "failed", "closed"})
    /\ closer = "waiting" ~> closer = "returned"

(* A Connect fails for a context that ended only if it is its own: the     *)
(* handshake has a timeout "separate from the caller's context"            *)
(* (DESIGN.md 486-487), and Spawn reports "the caller's own deadline".     *)
OwnDeadline ==
    \A c \in Attempt : err[c] \in {"deadline", "left"} => context[c] = "done"
=============================================================================
