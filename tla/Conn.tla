-------------------------------- MODULE Conn --------------------------------
(***************************************************************************)
(* One pooled connection (driver/conn.go, tx.go, rows.go): what the Go     *)
(* side believes about its transaction, and what the worker has really     *)
(* executed.  database/sql leases the connection to one caller after       *)
(* another; a caller whose context ends goes on at once, and the statement *)
(* it abandoned runs later.  The requests of a connection execute in the   *)
(* order posted (InOrder of Stream), so the channel, the chain of the      *)
(* database and the request running are one queue here.                    *)
(*                                                                         *)
(* database/sql is external: it hands the connection out through           *)
(* ResetSession, returns it through IsValid, closes it on ErrBadConn, runs *)
(* one call at a time on it, and closes the rows of a Tx before the Tx     *)
(* ends.                                                                   *)
(***************************************************************************)
EXTENDS Integers, Sequences

CONSTANTS
    MaxLease,        \* bound: times the connection is leased
    MaxQueue,        \* bound: statements in the queue when a caller adds one
    Builds,          \* what DB.Cancellable may be: shared memory or none
    Cancels          \* for each, the calls whose contexts end while they wait

ASSUME LeaseAssumption == MaxLease \in Nat
ASSUME QueueAssumption == MaxQueue \in Nat
ASSUME BuildsAssumption == Builds \subseteq BOOLEAN

(* The waits of the driver: each for the answer to one EXEC or QUERY.      *)
Calls == {"reset", "exec", "first", "on", "begin", "beginRO"}
Unstoppable == {"undo", "finish", "off"}
ASSUME CancelsAssumption == Cancels \in [BOOLEAN -> SUBSET (Calls \cup {"rows"})]

Lease == 1..MaxLease

VARIABLES
    cancellable, \* DB.Cancellable, settled by OPENED
    lease,      \* the caller that has, or had, the connection
    pc,         \* what that caller is doing: "idle" is in the pool
    ctx,        \* the context of the call in progress: "live" or "done"
    answer,     \* the frame in the route of that call
    tx,         \* the driver.Tx the caller holds
    rows,       \* whether the caller holds Rows
    inTx,       \* Conn.inTx
    poisoned,   \* Conn.poisoned
    queue,      \* the statements posted and not finished, in order
    txBy,       \* the lease whose BEGIN opened the transaction, or 0
    roBy,       \* the lease whose PRAGMA query_only = ON holds, or 0
    rolledBack  \* the lease whose transaction SQLite rolled back itself

callVars == <<cancellable, lease, pc, ctx, answer>>
goVars == <<tx, rows, inTx, poisoned>>
dbVars == <<txBy, roBy, rolledBack>>
vars == <<callVars, goVars, queue, dbVars>>

Init ==
    /\ cancellable \in Builds
    /\ lease = 0 /\ pc = "idle" /\ ctx = "live" /\ answer = "none"
    /\ tx = "none" /\ rows = FALSE
    /\ inTx = FALSE /\ poisoned = FALSE
    /\ queue = <<>>
    /\ txBy = 0 /\ roBy = 0 /\ rolledBack = 0

(* A statement posted by lease n.  It is asked for until its caller has    *)
(* its answer or gives up; a stream is open from its first frame on.       *)
Statement(op, n) ==
    [op |-> op, by |-> n, tx |-> tx # "none", state |-> "asked"]

Post(q, op, wait) ==
    /\ queue' = Append(q, Statement(op, lease))
    /\ pc' = wait

-----------------------------------------------------------------------------
(* How a call ends.                                                        *)

Marked(from, to) ==
    [i \in DOMAIN queue |-> IF queue[i].state = from
                            THEN [queue[i] EXCEPT !.state = to] ELSE queue[i]]

AnyAnswer == answer # "none" /\ answer' = "none"
Succeeds == answer = "ok" /\ answer' = "none"

(* The call returns an error and leaves the queue as q: SQLite's error, or *)
(* ctx.Err() from route.next, which abandons the statement.                *)
Fails(q) ==
    /\ \/ answer = "err" /\ q = queue
       \/ ctx = "done" /\ pc \notin Unstoppable /\ q = Marked("asked", "cancelled")
    /\ answer' = "none"
Outcomes == {queue, Marked("asked", "cancelled")}

(* classify: a connection whose request was abandoned is not used again,   *)
(* where the request cannot be interrupted.                                *)
NeverPoisoned == poisoned
Classified == poisoned \/ (ctx = "done" /\ ~cancellable)

(* The context of a call ends.                                             *)
CtxDone ==
    /\ pc \in Cancels[cancellable] \cup {"undo"}
    /\ ctx = "live" /\ ctx' = "done"
    /\ UNCHANGED <<cancellable, lease, pc, answer, goVars, queue, dbVars>>

-----------------------------------------------------------------------------
(* The pool: ResetSession, IsValid, Close.                                 *)

(* A leaked transaction is rolled back before the connection is used.      *)
HandOut ==
    /\ pc = "idle" /\ lease < MaxLease
    /\ lease' = lease + 1 /\ ctx' = "live"
    /\ IF inTx
       THEN /\ queue' = Append(queue, Statement("ROLLBACK", lease + 1))
            /\ pc' = "reset" /\ inTx' = FALSE
       ELSE pc' = "ready" /\ UNCHANGED <<queue, inTx>>
    /\ UNCHANGED <<cancellable, answer, tx, rows, poisoned, dbVars>>

CloseConn(q) ==
    /\ queue' = Append(q, [Statement("CLOSE", lease) EXCEPT !.state = "closed"])
    /\ pc' = "closed"

ResetDone ==
    /\ pc = "reset"
    /\ \/ Succeeds /\ pc' = "ready" /\ UNCHANGED queue
       \/ \E q \in Outcomes : Fails(q) /\ CloseConn(q)
    /\ UNCHANGED <<cancellable, lease, ctx, goVars, dbVars>>

IsValid == ~poisoned

(* A call of sql.DB returns the connection as soon as it is over, sql.Conn *)
(* and sql.Tx when their caller is done with them.                         *)
Return ==
    /\ pc = "ready" /\ tx = "none" /\ ~rows
    /\ IF IsValid THEN pc' = "idle" /\ UNCHANGED queue ELSE CloseConn(queue)
    /\ UNCHANGED <<cancellable, lease, ctx, answer, goVars, dbVars>>

-----------------------------------------------------------------------------
(* ExecContext, QueryContext, and the Rows of the latter.                  *)

Start(op, wait) ==
    /\ pc = "ready" /\ Len(queue) < MaxQueue
    /\ Post(queue, op, wait)
    /\ ctx' = "live"
    /\ UNCHANGED <<cancellable, lease, answer, goVars, dbVars>>

Exec == Start("WORK", "exec")
Query == ~rows /\ Start("SCAN", "first")

(* ExecContext, or QueryContext with its first frame, returns.             *)
CallDone ==
    /\ pc \in {"exec", "first"} /\ pc' = "ready"
    /\ \/ /\ Succeeds
          /\ rows' = (rows \/ pc = "first")
          /\ UNCHANGED <<queue, poisoned>>
       \/ /\ \E q \in Outcomes : Fails(q) /\ queue' = q
          /\ poisoned' = Classified
          /\ UNCHANGED rows
    /\ UNCHANGED <<cancellable, lease, ctx, tx, inTx, dbVars>>

(* Rows.Close by the caller, or because the last row was read.             *)
RowsClose ==
    /\ rows /\ rows' = FALSE
    /\ queue' = Marked("open", "closed")
    /\ UNCHANGED <<callVars, tx, inTx, poisoned, dbVars>>

(* The context of the rows ends: a Next that waits for a batch classifies  *)
(* its error, Rows.Close by the watcher of database/sql classifies none.   *)
RowsCancelled ==
    /\ "rows" \in Cancels[cancellable]
    /\ rows /\ rows' = FALSE
    /\ queue' = Marked("open", "cancelled")
    /\ poisoned' \in {poisoned, poisoned \/ ~cancellable}
    /\ UNCHANGED <<callVars, tx, inTx, dbVars>>

-----------------------------------------------------------------------------
(* BeginTx and Tx.finish.                                                  *)

Begin == tx = "none" /\ Start("BEGIN", "begin")
BeginReadOnly == tx = "none" /\ Start("ON", "on")

(* PRAGMA query_only = ON returns.                                         *)
OnDone ==
    /\ pc = "on"
    /\ \/ Succeeds /\ Post(queue, "BEGIN", "beginRO") /\ UNCHANGED poisoned
       \/ /\ \E q \in Outcomes : Fails(q) /\ queue' = q
          /\ pc' = "ready" /\ poisoned' = Classified
    /\ UNCHANGED <<cancellable, lease, ctx, tx, rows, inTx, dbVars>>

BeginDone ==
    /\ pc \in {"begin", "beginRO"}
    /\ Succeeds
    /\ pc' = "ready" /\ inTx' = TRUE
    /\ tx' = IF pc = "begin" THEN "rw" ELSE "ro"
    /\ UNCHANGED <<cancellable, lease, ctx, rows, poisoned, queue, dbVars>>

(* A read-only BeginTx undoes its PRAGMA first, without its context.       *)
BeginFailed ==
    /\ \E q \in Outcomes :
          /\ Fails(q)
          /\ \/ /\ pc = "begin"
                /\ pc' = "ready" /\ queue' = q /\ poisoned' = Classified
             \/ /\ pc = "beginRO"
                /\ Post(q, "OFF", "undo") /\ UNCHANGED poisoned
    /\ UNCHANGED <<cancellable, lease, ctx, tx, rows, inTx, dbVars>>

UndoDone ==
    /\ pc = "undo" /\ answer # "none" /\ answer' = "none"
    /\ pc' = "ready" /\ poisoned' = Classified
    /\ UNCHANGED <<cancellable, lease, ctx, tx, rows, inTx, queue, dbVars>>

(* Commit, and Rollback by the caller or by the watcher of database/sql.   *)
Finish ==
    /\ tx # "none" /\ ~rows
    /\ Start("COMMIT", "finish") \/ Start("ROLLBACK", "finish")

(* Only a statement that succeeded ended the transaction.                  *)
EndedAnyway == FALSE
StillInTx == IF answer = "ok" THEN FALSE ELSE inTx

FinishDone ==
    /\ pc = "finish" /\ answer # "none" /\ answer' = "none"
    /\ inTx' = StillInTx
    /\ IF tx = "ro" THEN Post(queue, "OFF", "off") /\ UNCHANGED tx
                    ELSE pc' = "ready" /\ tx' = "none" /\ UNCHANGED queue
    /\ UNCHANGED <<cancellable, lease, ctx, rows, poisoned, dbVars>>

OffDone ==
    /\ pc = "off" /\ answer # "none" /\ answer' = "none"
    /\ pc' = "ready" /\ tx' = "none"
    /\ UNCHANGED <<cancellable, lease, ctx, rows, inTx, poisoned, queue, dbVars>>

-----------------------------------------------------------------------------
(* The worker and SQLite.                                                  *)

Here == queue[1]
AnswersLate(res) == answer' = res
Answer(res) == answer' = IF Here.state = "asked" THEN res ELSE answer
Over(res) == Answer(res) /\ queue' = Tail(queue)
Runs(op) == queue # <<>> /\ Here.op = op /\ UNCHANGED <<cancellable, lease, pc, ctx, goVars>>

(* BEGIN fails inside a transaction, or for a lock.                        *)
RunBegin ==
    /\ Runs("BEGIN")
    /\ \/ txBy = 0 /\ txBy' = Here.by /\ rolledBack' = 0 /\ Over("ok")
       \/ UNCHANGED <<txBy, rolledBack>> /\ Over("err")
    /\ UNCHANGED roBy

(* A COMMIT that fails (a lock, a deferred constraint) keeps the           *)
(* transaction open.                                                       *)
RunCommit ==
    /\ Runs("COMMIT")
    /\ \/ txBy # 0 /\ txBy' = 0 /\ Over("ok")
       \/ UNCHANGED txBy /\ Over("err")
    /\ UNCHANGED <<roBy, rolledBack>>

RunRollback ==
    /\ Runs("ROLLBACK")
    /\ Over(IF txBy = 0 THEN "err" ELSE "ok")
    /\ txBy' = 0
    /\ UNCHANGED <<roBy, rolledBack>>

RunPragma ==
    /\ \/ Runs("ON") /\ roBy' = Here.by
       \/ Runs("OFF") /\ roBy' = 0
    /\ Over("ok")
    /\ UNCHANGED <<txBy, rolledBack>>

(* An error, an interrupt among them, may roll the transaction back.       *)
RunWork ==
    /\ Runs("WORK")
    /\ \/ \E res \in {"ok", "err"} : Over(res) /\ UNCHANGED <<txBy, rolledBack>>
       \/ txBy # 0 /\ txBy' = 0 /\ rolledBack' = txBy /\ Over("err")
    /\ UNCHANGED roBy

(* A stream answers and stays, or ends: at once, by an error, by an abort, *)
(* or when it was read.                                                    *)
RunScan ==
    /\ Runs("SCAN")
    /\ \/ Here.state = "asked" /\ Answer("ok")
          /\ queue' = [queue EXCEPT ![1].state = "open"]
       \/ \E res \in {"ok", "err"} : Over(res)
    /\ UNCHANGED dbVars

RunClose ==
    /\ Runs("CLOSE")
    /\ Over("ok")
    /\ txBy' = 0 /\ roBy' = 0
    /\ UNCHANGED rolledBack

Next ==
    \/ CtxDone
    \/ HandOut \/ ResetDone \/ Return
    \/ Exec \/ Query \/ CallDone \/ RowsClose \/ RowsCancelled
    \/ Begin \/ BeginReadOnly \/ OnDone \/ BeginDone \/ BeginFailed \/ UndoDone
    \/ Finish \/ FinishDone \/ OffDone
    \/ RunBegin \/ RunCommit \/ RunRollback \/ RunPragma \/ RunWork \/ RunScan
    \/ RunClose

Spec == Init /\ [][Next]_vars

-----------------------------------------------------------------------------
(* Properties.                                                             *)

(* Type invariant; a frame is in a route only while its call waits for it. *)
TypeOK ==
    /\ cancellable \in Builds /\ lease \in 0..MaxLease
    /\ pc \in Calls \cup Unstoppable \cup {"idle", "ready", "closed"}
    /\ ctx \in {"live", "done"}
    /\ answer \in {"none", "ok", "err"}
    /\ answer # "none" => pc \in Calls \cup Unstoppable
    /\ tx \in {"none", "rw", "ro"}
    /\ rows \in BOOLEAN /\ inTx \in BOOLEAN /\ poisoned \in BOOLEAN
    /\ queue \in Seq([op : {"WORK", "SCAN", "BEGIN", "COMMIT", "ROLLBACK", "ON",
                            "OFF", "CLOSE"},
                      by : 0..MaxLease, tx : BOOLEAN,
                      state : {"asked", "open", "cancelled", "closed"}])
    /\ txBy \in 0..MaxLease /\ roBy \in 0..MaxLease /\ rolledBack \in 0..MaxLease

(* No statement of a caller runs in a transaction that another caller left *)
(* open, nor under a query_only another caller left on, whatever failed or *)
(* was cancelled before: what inTx is for (conn.go 22-25).                 *)
NoStrangerInTx ==
    queue # <<>> /\ Here.op \in {"WORK", "SCAN", "BEGIN", "ON"}
    => txBy \in {0, Here.by} /\ roBy \in {0, Here.by}

(* What a caller runs through a Tx runs inside its transaction, unless     *)
(* SQLite itself has rolled that back.                                     *)
TxStatementsInside ==
    queue # <<>> /\ Here.op \in {"WORK", "SCAN"} /\ Here.tx
    => Here.by \in {txBy, rolledBack}

(* Where statements cannot be interrupted, a caller never waits behind a   *)
(* statement that an earlier caller's context abandoned: the connection is *)
(* discarded rather than reused (README, Cancellation).                    *)
AbandonedIsDiscarded ==
    ~cancellable /\ pc \notin {"idle", "closed"}
    => \A i \in 1..Len(queue) : queue[i].state = "cancelled" => queue[i].by = lease
=============================================================================
