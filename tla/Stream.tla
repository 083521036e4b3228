------------------------------- MODULE Stream -------------------------------
(***************************************************************************)
(* The request protocol between the Go driver and the database worker:     *)
(* binding.DB.exec/query/Rows and binding.route on the Go side (one Go     *)
(* worker, several goroutines), the dispatcher and the row loop of         *)
(* src/worker/index.ts on the other (one event loop), and between them two *)
(* postMessage channels, which deliver reliably and in order, plus the     *)
(* cancellation words they share.                                          *)
(*                                                                         *)
(* A request is an EXEC (one reply frame; EXEC_STMT is the same) or a      *)
(* QUERY (a stream of ROWS frames under credit flow control; QUERY_STMT is *)
(* the same).  Rows are counted, not represented.  An action of the worker *)
(* is what its JavaScript does between two awaits.                         *)
(***************************************************************************)
EXTENDS Integers, Sequences, FiniteSets

CONSTANTS
    MaxId,           \* bound: requests the Go side issues (ids 1..MaxId)
    Db,              \* open databases, named by their positive ids
    Window,          \* CREDIT_WINDOW
    MaxEarlyAborts,  \* MAX_EARLY_ABORTS
    MaxRows,         \* bound: rows a query returns
    BatchTargets,    \* BATCH_ROW_TARGETS
    Cancellable      \* DB.Cancellable(): a progress handler and a shared word

ASSUME MaxIdAssumption == MaxId \in Nat
ASSUME DbAssumption == Db \subseteq Nat \ {0}
ASSUME WindowAssumption == Window \in Nat \ {0}
ASSUME EarlyAssumption == MaxEarlyAborts \in Nat
ASSUME RowsAssumption == MaxRows \in Nat
ASSUME TargetsAssumption == /\ BatchTargets \in Seq(Nat \ {0})
                            /\ BatchTargets # <<>>
ASSUME CancellableAssumption == Cancellable \in BOOLEAN

Id == 1..MaxId
Request == [op : {"EXEC", "QUERY"}, db : Db]
NoRequest == [op |-> "NONE", db |-> 0]

(* Frames of docs/PROTOCOL.md.  A request frame's payload is req[id].      *)
ToWorker == [op : {"EXEC", "QUERY", "CREDIT", "ABORT"}, id : Id]
ToGo == [op : {"ROWS", "ERROR", "ABORTED", "EXEC_RESULT"}, id : Id,
         n : 0..MaxRows, eof : BOOLEAN]

VARIABLES
    \* Go: the calls in progress
    nextId,     \* Worker.nextID
    req,        \* the request each id stands for
    go,         \* where the goroutine that owns the id is:
                \*   "call"/"first"/"pull"  blocked in route.next for a reply,
                \*                          the first batch, a further batch
                \*   "open"                 outside the driver, holding Rows
                \*   "closed"               route ended
    frames,     \* route.frames
    pending,    \* Rows.pending
    eof,        \* Rows.eof
    done,       \* the caller's context is done
    watch,      \* armCancel's goroutine is alive
    outcome,    \* how the call ended for the caller
    got,        \* history: rows the caller has read
    \* the channels and the shared words
    toWorker, toGo,
    word,       \* Int32Array of cancellation words, here one per database
    \* the database worker
    chain,      \* chains: requests not finished yet, by chain key, in order
    run,        \* what the worker is doing for the id:
                \*   "none"     not dispatched      "queued"   in its chain
                \*   "running"  synchronous code    "parked"   awaits a credit
                \*   "yielded"  awaits a macrotask  "done"
    credit,     \* Stream.credit
    aborted,    \* Stream.aborted
    early,      \* abortedBeforeStart, in insertion order
    left,       \* rows the statement has still to return
    stage,      \* index into BATCH_ROW_TARGETS
    total       \* history: rows the statement returns in all

callVars == <<nextId, req>>
readVars == <<pending, eof, outcome, got>>
goVars == <<callVars, go, frames, done, watch, readVars>>
rowVars == <<credit, left, stage, total>>
workerVars == <<chain, run, aborted, early, rowVars>>
vars == <<goVars, toWorker, toGo, word, workerVars>>

Init ==
    /\ nextId = 1
    /\ req = [r \in Id |-> NoRequest]
    /\ go = [r \in Id |-> "unused"]
    /\ frames = [r \in Id |-> <<>>]
    /\ pending = [r \in Id |-> 0]
    /\ eof = [r \in Id |-> FALSE]
    /\ done = [r \in Id |-> FALSE]
    /\ watch = [r \in Id |-> FALSE]
    /\ outcome = [r \in Id |-> "none"]
    /\ got = [r \in Id |-> 0]
    /\ toWorker = <<>>
    /\ toGo = <<>>
    /\ word = [d \in Db |-> 0]
    /\ chain = [k \in Db \cup {0} |-> <<>>]
    /\ run = [r \in Id |-> "none"]
    /\ credit = [r \in Id |-> 0]
    /\ aborted = [r \in Id |-> FALSE]
    /\ early = <<>>
    /\ left = [r \in Id |-> 0]
    /\ stage = [r \in Id |-> 1]
    /\ total = [r \in Id |-> 0]

-----------------------------------------------------------------------------
(* The Go side.                                                            *)

Route(r) == go[r] \in {"call", "first", "pull", "open"}
Frame(op, r) == [op |-> op, id |-> r]

(* DB.exec and DB.query up to their first route.next: begin, armCancel and *)
(* post.  Any number of goroutines may be doing so, on any database.       *)
Issue(op, d) ==
    LET r == nextId IN
    /\ r \in Id
    /\ nextId' = nextId + 1
    /\ req' = [req EXCEPT ![r] = [op |-> op, db |-> d]]
    /\ go' = [go EXCEPT ![r] = IF op = "EXEC" THEN "call" ELSE "first"]
    /\ watch' = [watch EXCEPT ![r] = Cancellable]
    /\ toWorker' = Append(toWorker, Frame(op, r))
    /\ UNCHANGED <<frames, done, readVars, toGo, word, workerVars>>

(* The caller's context is cancelled or expires.                           *)
CtxDone(r) ==
    /\ ~done[r]
    /\ Route(r) \/ watch[r]
    /\ done' = [done EXCEPT ![r] = TRUE]
    /\ UNCHANGED <<callVars, go, frames, watch, readVars, toWorker, toGo, word,
                   workerVars>>

(* armCancel's goroutine.  Its select may still take ctx.Done after stop() *)
(* closed the other channel, so the store can come after the call is over. *)
WatchStore(r) ==
    /\ watch[r] /\ done[r]
    /\ word' = [word EXCEPT ![req[r].db] = r]
    /\ watch' = [watch EXCEPT ![r] = FALSE]
    /\ UNCHANGED <<callVars, go, frames, done, readVars, toWorker, toGo,
                   workerVars>>

WatchStop(r) ==
    /\ watch[r] /\ go[r] = "closed"
    /\ watch' = [watch EXCEPT ![r] = FALSE]
    /\ UNCHANGED <<callVars, go, frames, done, readVars, toWorker, toGo, word,
                   workerVars>>

(* Worker.receive: a frame with no route is late, and dropped.             *)
Receive ==
    /\ toGo # <<>>
    /\ toGo' = Tail(toGo)
    /\ LET f == Head(toGo) IN
       frames' = IF Route(f.id)
                 THEN [frames EXCEPT ![f.id] = Append(@, f)]
                 ELSE frames
    /\ UNCHANGED <<callVars, go, done, watch, readVars, toWorker, word,
                   workerVars>>

(* Worker.end, with the frames the route still held.                       *)
End(r) ==
    /\ go' = [go EXCEPT ![r] = "closed"]
    /\ frames' = [frames EXCEPT ![r] = <<>>]

(* DB.exec once route.next returned a frame.                               *)
TakeReply(r) ==
    /\ go[r] = "call" /\ frames[r] # <<>>
    /\ End(r)
    /\ outcome' = [outcome EXCEPT ![r] =
                     IF Head(frames[r]).op = "EXEC_RESULT" THEN "ok" ELSE "error"]
    /\ UNCHANGED <<callVars, done, watch, pending, eof, got, toWorker, toGo, word,
                   workerVars>>

(* Rows.pull took a ROWS frame.                                            *)
EveryBatchEndsStream(f) == TRUE
EndsStream(f) == f.eof

TakeRows(r) ==
    /\ go[r] \in {"first", "pull"} /\ frames[r] # <<>>
    /\ LET f == Head(frames[r]) IN
       /\ f.op = "ROWS"
       /\ pending' = [pending EXCEPT ![r] = f.n]
       /\ eof' = [eof EXCEPT ![r] = @ \/ EndsStream(f)]
    /\ frames' = [frames EXCEPT ![r] = Tail(@)]
    /\ go' = [go EXCEPT ![r] = "open"]
    /\ UNCHANGED <<callVars, done, watch, outcome, got, toWorker, toGo, word,
                   workerVars>>

(* Rows.pull took ERROR or ABORTED.  Out of DB.query either is an error;   *)
(* out of driver.Rows.Next an ABORTED is io.EOF unless the context is done.*)
(* database/sql closes Rows on the spot, with nothing to abort.            *)
TakeFailure(r) ==
    /\ go[r] \in {"first", "pull"} /\ frames[r] # <<>>
    /\ Head(frames[r]).op # "ROWS"
    /\ eof' = [eof EXCEPT ![r] = TRUE]
    /\ outcome' = [outcome EXCEPT ![r] =
          IF Head(frames[r]).op = "ABORTED" /\ go[r] = "pull" /\ ~done[r]
          THEN "eof" ELSE "error"]
    /\ End(r)
    /\ UNCHANGED <<callVars, done, watch, pending, got, toWorker, toGo, word,
                   workerVars>>

(* Rows.Close, also where the driver or database/sql calls it: ABORT only  *)
(* when the terminal frame has not been read.                              *)
CloseWith(r, result) ==
    /\ End(r)
    /\ outcome' = [outcome EXCEPT ![r] = result]
    /\ toWorker' = IF eof[r] THEN toWorker ELSE Append(toWorker, Frame("ABORT", r))

(* route.next returned ctx.Err().  Its select may have committed to        *)
(* ctx.Done before a frame was pushed, so a frame does not disable this.   *)
(* An abandoned EXEC only drops its route; an abandoned stream is closed.  *)
CtxReturn(r) ==
    /\ done[r]
    /\ \/ /\ go[r] = "call"
          /\ End(r)
          /\ outcome' = [outcome EXCEPT ![r] = "error"]
          /\ UNCHANGED toWorker
       \/ /\ go[r] \in {"first", "pull"}
          /\ CloseWith(r, "error")
    /\ UNCHANGED <<callVars, done, watch, pending, eof, got, toGo, word, workerVars>>

(* driver.Rows.Next, which asks ctx.Err() first: a row of the batch in     *)
(* hand, ...                                                               *)
NextRow(r) ==
    /\ go[r] = "open" /\ ~done[r]
    /\ pending[r] > 0
    /\ pending' = [pending EXCEPT ![r] = @ - 1]
    /\ got' = [got EXCEPT ![r] = @ + 1]
    /\ UNCHANGED <<callVars, go, frames, done, watch, eof, outcome, toWorker, toGo,
                   word, workerVars>>

(* ... or a credit and a wait for the next batch, ...                      *)
NextBatch(r) ==
    /\ go[r] = "open" /\ ~done[r]
    /\ pending[r] = 0 /\ ~eof[r]
    /\ toWorker' = Append(toWorker, Frame("CREDIT", r))
    /\ go' = [go EXCEPT ![r] = "pull"]
    /\ UNCHANGED <<callVars, frames, done, watch, readVars, toGo, word, workerVars>>

(* ... or io.EOF, upon which database/sql closes Rows.                     *)
NextEnd(r) ==
    /\ go[r] = "open" /\ ~done[r]
    /\ pending[r] = 0 /\ eof[r]
    /\ CloseWith(r, "eof")
    /\ UNCHANGED <<callVars, done, watch, pending, eof, got, toGo, word, workerVars>>

(* The caller, or database/sql's context watcher, closes Rows early.       *)
Close(r) ==
    /\ go[r] = "open"
    /\ CloseWith(r, IF done[r] THEN "error" ELSE "closed")
    /\ UNCHANGED <<callVars, done, watch, pending, eof, got, toGo, word, workerVars>>

-----------------------------------------------------------------------------
(* The database worker: one event loop.  A macrotask (a message, or the    *)
(* yield channel) runs only when no promise continuation is left to run.   *)

Ahead(k) == chain[k] # <<>> /\ run[Head(chain[k])] = "queued"
Idle == /\ \A r \in Id : run[r] # "running"
        /\ \A k \in DOMAIN chain : ~Ahead(k)

(* streams.has(id)                                                         *)
Streaming(r) == req[r].op = "QUERY" /\ run[r] \in {"running", "parked", "yielded"}

InEarly(r) == \E i \in 1..Len(early) : early[i] = r

RememberNothing(s, r) == s
RememberAll(s, r) == Append(s, r)

(* rememberAbort                                                           *)
Remember(s, r) ==
    IF \E i \in 1..Len(s) : s[i] = r THEN s
    ELSE IF Len(s) < MaxEarlyAborts THEN Append(s, r)
    ELSE Tail(Append(s, r))

(* abortedBeforeStart.delete                                               *)
Forget(s, r) ==
    IF \E i \in 1..Len(s) : s[i] = r
    THEN LET i == CHOOSE i \in 1..Len(s) : s[i] = r
         IN  [j \in 1..(Len(s) - 1) |-> IF j < i THEN s[j] ELSE s[j + 1]]
    ELSE s

ChainOfNone(r) == 0
ChainOfQueries(r) == IF req[r].op = "EXEC" THEN 0 ELSE req[r].db
ChainKey(r) == req[r].db

(* A parked stream whose wake() is called goes on to await a macrotask.    *)
WakeNobody(r) == run
Wake(r) == IF run[r] = "parked" THEN [run EXCEPT ![r] = "yielded"] ELSE run

(* dispatch: flow control is applied at once, a request joins its chain.   *)
DispatchCredit ==
    /\ Idle /\ toWorker # <<>> /\ Head(toWorker).op = "CREDIT"
    /\ toWorker' = Tail(toWorker)
    /\ LET r == Head(toWorker).id IN
       IF Streaming(r)
       THEN /\ credit' = [credit EXCEPT ![r] = @ + 1]
            /\ run' = Wake(r)
       ELSE UNCHANGED <<credit, run>>
    /\ UNCHANGED <<goVars, toGo, word, chain, aborted, early, left, stage, total>>

DispatchAbort ==
    /\ Idle /\ toWorker # <<>> /\ Head(toWorker).op = "ABORT"
    /\ toWorker' = Tail(toWorker)
    /\ LET r == Head(toWorker).id IN
       IF Streaming(r)
       THEN /\ aborted' = [aborted EXCEPT ![r] = TRUE]
            /\ run' = Wake(r)
            /\ UNCHANGED early
       ELSE /\ early' = Remember(early, r)
            /\ UNCHANGED <<aborted, run>>
    /\ UNCHANGED <<goVars, toGo, word, chain, rowVars>>

DispatchRequest ==
    /\ Idle /\ toWorker # <<>> /\ Head(toWorker).op \in {"EXEC", "QUERY"}
    /\ toWorker' = Tail(toWorker)
    /\ LET r == Head(toWorker).id IN
       /\ run' = [run EXCEPT ![r] = "queued"]
       /\ chain' = [chain EXCEPT ![ChainKey(r)] = Append(@, r)]
    /\ UNCHANGED <<goVars, toGo, word, aborted, early, rowVars>>

Dispatch == DispatchCredit \/ DispatchAbort \/ DispatchRequest

(* handle, on the request at the head of a chain: runExec begins, ...      *)
StartExec(k) ==
    /\ Ahead(k)
    /\ LET r == Head(chain[k]) IN
       /\ req[r].op = "EXEC"
       /\ run' = [run EXCEPT ![r] = "running"]
    /\ UNCHANGED <<goVars, toWorker, toGo, word, chain, aborted, early, rowVars>>

(* ... or runQuery does, with the abort that overtook it, if any.          *)
StartQuery(k) ==
    /\ Ahead(k)
    /\ LET r == Head(chain[k]) IN
       /\ req[r].op = "QUERY"
       /\ run' = [run EXCEPT ![r] = "running"]
       /\ credit' = [credit EXCEPT ![r] = Window]
       /\ aborted' = [aborted EXCEPT ![r] = InEarly(r)]
       /\ early' = Forget(early, r)
       /\ \E n \in 0..MaxRows : /\ left' = [left EXCEPT ![r] = n]
                                /\ total' = [total EXCEPT ![r] = n]
    /\ UNCHANGED <<goVars, toWorker, toGo, word, chain, stage>>

(* The request is over: its one terminal frame is posted, the stream is    *)
(* gone and the chain moves on.                                            *)
Finish(r, op, n) ==
    /\ toGo' = Append(toGo, [op |-> op, id |-> r, n |-> n, eof |-> TRUE])
    /\ run' = [run EXCEPT ![r] = "done"]
    /\ chain' = [chain EXCEPT ![ChainKey(r)] = Tail(@)]
    /\ early' = Forget(early, r)

(* sessionOf or prepareOne threw before runQuery got to run.               *)
FailQuery(k) ==
    /\ Ahead(k)
    /\ req[Head(chain[k])].op = "QUERY"
    /\ Finish(Head(chain[k]), "ERROR", 0)
    /\ UNCHANGED <<goVars, toWorker, word, aborted, rowVars>>

ExecDone(r) ==
    /\ run[r] = "running" /\ req[r].op = "EXEC"
    /\ Finish(r, "EXEC_RESULT", 0)
    /\ UNCHANGED <<goVars, toWorker, word, aborted, rowVars>>

(* A statement failed, or was interrupted while it ran an EXEC.  runQuery  *)
(* tests aborted before it looks at the result code, but arguments are     *)
(* bound before that.                                                      *)
Fail(r) ==
    /\ run[r] = "running"
    /\ ~aborted[r] \/ left[r] = total[r]
    /\ Finish(r, "ERROR", 0)
    /\ UNCHANGED <<goVars, toWorker, word, aborted, rowVars>>

AbortSeen(r) ==
    /\ run[r] = "running" /\ req[r].op = "QUERY"
    /\ aborted[r]
    /\ Finish(r, "ABORTED", 0)
    /\ UNCHANGED <<goVars, toWorker, word, aborted, rowVars>>

(* The progress handler of Session.installCancelHandler.                   *)
HandlerFiresForAny(r) == word[req[r].db] # 0
HandlerFires(r) == word[req[r].db] = r

Interrupted(r) ==
    /\ run[r] = "running" /\ req[r].op = "QUERY"
    /\ ~aborted[r] /\ HandlerFires(r)
    /\ Finish(r, "ABORTED", 0)
    /\ UNCHANGED <<goVars, toWorker, word, aborted, rowVars>>

Target(r) == BatchTargets[stage[r]]

WaitBelowZero(c, a) == c < 0 /\ ~a
MustWait(c, a) == c <= 0 /\ ~a

(* A batch goes out: full, or cut short at MAX_BATCH_BYTES (any row count  *)
(* will do).  stage moves after the await; nothing reads it in between.    *)
Flush(r, n) ==
    /\ run[r] = "running" /\ req[r].op = "QUERY"
    /\ ~aborted[r]
    /\ n <= left[r] /\ n <= Target(r)
    /\ toGo' = Append(toGo, [op |-> "ROWS", id |-> r, n |-> n, eof |-> FALSE])
    /\ credit' = [credit EXCEPT ![r] = @ - 1]
    /\ left' = [left EXCEPT ![r] = @ - n]
    /\ stage' = [stage EXCEPT ![r] = IF @ < Len(BatchTargets) THEN @ + 1 ELSE @]
    /\ run' = [run EXCEPT ![r] =
                 IF MustWait(credit[r] - 1, aborted[r]) THEN "parked" ELSE "yielded"]
    /\ UNCHANGED <<goVars, toWorker, word, chain, aborted, early, total>>

(* The last batch, exempt from the window.                                 *)
FlushEof(r) ==
    /\ run[r] = "running" /\ req[r].op = "QUERY"
    /\ ~aborted[r]
    /\ left[r] < Target(r)
    /\ Finish(r, "ROWS", left[r])
    /\ UNCHANGED <<goVars, toWorker, word, aborted, rowVars>>

(* yieldChannel.port1.onmessage releases every waiter at once.             *)
Resume ==
    /\ Idle
    /\ \E r \in Id : run[r] = "yielded"
    /\ run' = [r \in Id |-> IF run[r] = "yielded" THEN "running" ELSE run[r]]
    /\ UNCHANGED <<goVars, toWorker, toGo, word, chain, aborted, early, rowVars>>

Segment(r) ==
    \/ ExecDone(r) \/ Fail(r) \/ AbortSeen(r) \/ Interrupted(r)
    \/ (\E n \in 1..MaxRows : Flush(r, n)) \/ FlushEof(r)

Start(k) == StartExec(k) \/ StartQuery(k) \/ FailQuery(k)

TakeFrame(r) == TakeReply(r) \/ TakeRows(r) \/ TakeFailure(r)
ReaderStep(r) == NextRow(r) \/ NextBatch(r) \/ NextEnd(r)

Next ==
    \/ \E op \in {"EXEC", "QUERY"}, d \in Db : Issue(op, d)
    \/ \E r \in Id : CtxDone(r) \/ WatchStore(r) \/ WatchStop(r)
    \/ Receive
    \/ \E r \in Id : TakeFrame(r) \/ CtxReturn(r)
    \/ \E r \in Id : ReaderStep(r) \/ Close(r)
    \/ Dispatch
    \/ \E k \in Db \cup {0} : Start(k)
    \/ \E r \in Id : Segment(r)
    \/ Resume

Spec == Init /\ [][Next]_vars

-----------------------------------------------------------------------------
(* Fairness.  Both event loops run every task that is posted to them, both *)
(* run continuations to exhaustion, and the Go scheduler runs a goroutine  *)
(* it has woken.  Statements terminate.  Nothing is assumed of the caller: *)
(* it may hold Rows open for ever and its context may never be done.       *)
RuntimeFairness ==
    /\ WF_vars(Receive)
    /\ WF_vars(Dispatch)
    /\ WF_vars(Resume)
    /\ \A k \in Db \cup {0} : WF_vars(Start(k))
    /\ \A r \in Id : WF_vars(Segment(r)) /\ WF_vars(TakeFrame(r))

FairSpec == Spec /\ RuntimeFairness

(* A caller that reads its Rows to the end; database/sql's context watcher *)
(* closes them when the context is done first.                             *)
ReaderFairness ==
    \A r \in Id : /\ WF_vars(ReaderStep(r))
                  /\ WF_vars(done[r] /\ Close(r))

-----------------------------------------------------------------------------
(* Properties.                                                             *)

Ids(s) == {s[i] : i \in 1..Len(s)}
Posted(op, r) == \E i \in 1..Len(toWorker) : toWorker[i] = Frame(op, r)
Batch(f, r) == f.id = r /\ f.op = "ROWS" /\ ~f.eof
Batches(s, r) == Cardinality({i \in 1..Len(s) : Batch(s[i], r)})
CreditsPosted(r) ==
    Cardinality({i \in 1..Len(toWorker) : toWorker[i] = Frame("CREDIT", r)})

(* Type invariant, by groups of variables; it bounds the early aborts the  *)
(* worker remembers.                                                       *)
CallTypeOK ==
    /\ nextId \in 1..(MaxId + 1)
    /\ req \in [Id -> Request \cup {NoRequest}]
    /\ go \in [Id -> {"unused", "call", "first", "open", "pull", "closed"}]
    /\ frames \in [Id -> Seq(ToGo)]
    /\ done \in [Id -> BOOLEAN]
    /\ watch \in [Id -> BOOLEAN]
ReadTypeOK ==
    /\ pending \in [Id -> 0..MaxRows]
    /\ eof \in [Id -> BOOLEAN]
    /\ outcome \in [Id -> {"none", "ok", "error", "eof", "closed"}]
    /\ got \in [Id -> Nat]
SharedTypeOK ==
    /\ toWorker \in Seq(ToWorker)
    /\ toGo \in Seq(ToGo)
    /\ word \in [Db -> {0} \cup Id]
WorkerTypeOK ==
    /\ chain \in [Db \cup {0} -> Seq(Id)]
    /\ run \in [Id -> {"none", "queued", "running", "parked", "yielded", "done"}]
    /\ aborted \in [Id -> BOOLEAN]
    /\ early \in Seq(Id) /\ Len(early) <= MaxEarlyAborts
RowTypeOK ==
    /\ credit \in [Id -> Int]
    /\ left \in [Id -> 0..MaxRows]
    /\ stage \in [Id -> 1..Len(BatchTargets)]
    /\ total \in [Id -> 0..MaxRows]
TypeOK == CallTypeOK /\ ReadTypeOK /\ SharedTypeOK /\ WorkerTypeOK /\ RowTypeOK

(* Requests on one database execute one at a time and in the order the Go  *)
(* side issued them, whatever streams, parks or is aborted: the chains of  *)
(* dispatch.  A BEGIN, its INSERTs and its COMMIT rely on it.              *)
InOrder ==
    \A q, r \in Id :
        /\ q < r
        /\ req[q].db = req[r].db
        /\ run[r] \in {"running", "parked", "yielded", "done"}
        => run[q] = "done"

(* No credit is lost or made up: what the worker may still post, the       *)
(* batches it posted that the reader has not used up and the credits on    *)
(* their way back always make CREDIT_WINDOW.  So a reader buffers at most  *)
(* Window batches, and a worker that waits for a credit will be sent one   *)
(* as soon as the reader reads on.                                         *)
CreditConserved ==
    \A r \in Id :
        Streaming(r) /\ go[r] \in {"first", "open", "pull"} =>
            /\ credit[r] >= 0
            /\ credit[r] + Batches(toGo, r) + Batches(frames[r], r)
                 + (IF go[r] = "open" /\ ~eof[r] THEN 1 ELSE 0)
                 + CreditsPosted(r) = Window

(* A caller that is told io.EOF has read every row: no interruption or     *)
(* abort, its own or another request's, truncates a result silently        *)
(* (driver.Rows.Next turns an ABORTED into io.EOF while the context lives).*)
EofMeansComplete ==
    \A r \in Id : outcome[r] = "eof" => got[r] = total[r]

(* A stream that waits for a credit nobody will grant, its Rows closed, is *)
(* going to be told: the ABORT of Rows.Close is on its way.  Without it    *)
(* the stream holds its database's chain for ever (dispatch's comment).    *)
AbortNotLost ==
    \A r \in Id : run[r] = "parked" /\ go[r] = "closed" => Posted("ABORT", r)

(* Every request is finished by the worker, closed or not and whatever the *)
(* other databases do, unless a caller holds Rows of its own database open.*)
HeldOpen(d) == \E q \in Id : req[q].db = d /\ go[q] = "open"
Settles ==
    \A r \in Id :
        req[r] # NoRequest ~> run[r] = "done" \/ HeldOpen(req[r].db)

(* Callers that read on see their calls end: with rows, flow control and   *)
(* cancellation in any order, nobody waits for a frame that is not coming. *)
ReadersFinish ==
    ReaderFairness => \A r \in Id : req[r] # NoRequest ~> go[r] = "closed"
=============================================================================
