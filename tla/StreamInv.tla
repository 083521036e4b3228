------------------------------ MODULE StreamInv ------------------------------
(***************************************************************************)
(* Stream seen from two sides: the inductive invariant its theorems rest   *)
(* on (StreamProofs), in named parts, and the refinement mapping to Calls. *)
(***************************************************************************)
EXTENDS Stream

(* The refinement: what the worker does for an id, and where its goroutine *)
(* is, in the words of Calls.                                              *)
CallDb == [r \in Id |-> req[r].db]
CallState ==
    [r \in Id |-> IF go[r] = "unused" THEN "none"
                  ELSE IF go[r] \in {"call", "first"} THEN "waiting"
                  ELSE IF go[r] \in {"open", "pull"} THEN "holding" ELSE "over"]
ServedState ==
    [r \in Id |-> IF run[r] \in {"none", "queued"} THEN "todo"
                  ELSE IF run[r] = "done" THEN "served" ELSE "active"]

CallsView ==
    INSTANCE Calls WITH
        Sizes <- 0..MaxRows,
        db <- CallDb, call <- CallState, result <- outcome, read <- got,
        served <- ServedState, size <- total

(* The protocol of Stream implements the promise of Calls.                 *)
ImplementsCalls == CallsView!Spec

-----------------------------------------------------------------------------
Issued(r) == r < nextId
Requests(m) == m.op \in {"EXEC", "QUERY"}
Begun(r) == run[r] \in {"running", "parked", "yielded"}

(* Nothing knows an id before Worker.begin hands it out, and each state of *)
(* the goroutine belongs to one kind of call.                              *)
IssuedInv ==
    \A r \in Id :
        /\ go[r] = "unused" <=> ~Issued(r)
        /\ req[r] = NoRequest <=> ~Issued(r)
        /\ ~Issued(r) => run[r] = "none"
        /\ go[r] = "call" => req[r].op = "EXEC"
        /\ go[r] \in {"first", "open", "pull"} => req[r].op = "QUERY"

(* The requests in flight to the worker are those not dispatched, in order.*)
WireInv ==
    /\ \A i \in 1..Len(toWorker) :
          LET m == toWorker[i] IN
          Requests(m) => /\ m.op = req[m.id].op
                         /\ run[m.id] = "none"
    /\ \A i, j \in 1..Len(toWorker) :
          i < j /\ Requests(toWorker[i]) /\ Requests(toWorker[j])
          => toWorker[i].id < toWorker[j].id
    /\ \A r \in Id :
          Issued(r) /\ run[r] = "none"
          => \E i \in 1..Len(toWorker) : toWorker[i] = Frame(req[r].op, r)

(* A chain holds the unfinished requests of its database, in order, and    *)
(* only the first of them can have begun.                                  *)
ChainInv ==
    /\ \A k \in Db \cup {0} : \A i \in 1..Len(chain[k]) :
          /\ req[chain[k][i]].db = k
          /\ run[chain[k][i]] \in {"queued", "running", "parked", "yielded"}
          /\ i > 1 => run[chain[k][i]] = "queued"
          /\ \A j \in 1..Len(chain[k]) : i < j => chain[k][i] < chain[k][j]
    /\ \A r \in Id :
          run[r] = "queued" \/ Begun(r)
          => \E i \in 1..Len(chain[req[r].db]) : chain[req[r].db][i] = r

(* A request is dispatched after every earlier one.                        *)
DispatchInv ==
    \A q, r \in Id : q < r /\ run[r] # "none" => run[q] # "none"

(* A frame that ends its request, in flight or in a route, and a reader    *)
(* that has seen it, exist only once the worker is done with the request.  *)
FrameOK(f, now) == /\ f.op # "ROWS" => f.eof
                   /\ f.eof => now[f.id] = "done"

TerminalInv ==
    /\ \A i \in 1..Len(toGo) : FrameOK(toGo[i], run)
    /\ \A r \in Id : \A i \in 1..Len(frames[r]) :
          frames[r][i].id = r /\ FrameOK(frames[r][i], run)
    /\ \A r \in Id : eof[r] => run[r] = "done"

(* abortedBeforeStart is a set; an abort for a stream that has begun is    *)
(* applied, never remembered, and an aborted stream never waits.           *)
EarlyInv ==
    /\ \A i, j \in 1..Len(early) : early[i] = early[j] => i = j
    /\ \A r \in Id : Streaming(r) => ~InEarly(r)
    /\ \A r \in Id : run[r] = "parked" => req[r].op = "QUERY" /\ ~aborted[r]
    /\ \A r \in Id : aborted[r] => Begun(r) \/ run[r] = "done"

(* The abort of a closed, unfinished stream is posted, remembered or       *)
(* applied.                                                                *)
AbortInv ==
    \A r \in Id :
        req[r].op = "QUERY" /\ go[r] = "closed" /\ ~eof[r] /\ run[r] # "done"
        => aborted[r] \/ InEarly(r) \/ Posted("ABORT", r)

(* Nothing is known of a statement, and nothing said to its caller or by a *)
(* reader of its rows, before the worker has begun it; an EXEC has no rows.*)
FreshInv ==
    \A r \in Id :
        /\ req[r].op # "QUERY" => total[r] = 0
        /\ run[r] \in {"none", "queued"} =>
              /\ total[r] = 0
              /\ go[r] \notin {"open", "pull"}
              /\ frames[r] = <<>>
              /\ \A i \in 1..Len(toGo) : toGo[i].id # r
              /\ \A i \in 1..Len(toWorker) : toWorker[i] # Frame("CREDIT", r)

(* A reader waits for a batch only with none in hand and the end not seen. *)
ReaderInv ==
    \A r \in Id :
        /\ go[r] \in {"unused", "call", "first"} => got[r] = 0
        /\ go[r] \notin {"open", "closed"} => pending[r] = 0 /\ ~eof[r]
        /\ outcome[r] = "eof" =>
              go[r] = "closed" /\ run[r] = "done" /\ got[r] = total[r]

(* Whoever is cancelled or aborted asked for it: the word and the frames   *)
(* ABORTED of open calls are of callers whose context is done, the aborts  *)
(* of callers that are gone.                                               *)
AbandonInv ==
    /\ \A d \in Db : word[d] # 0 => done[word[d]]
    /\ \A r \in Id :
          /\ aborted[r] \/ InEarly(r) \/ Posted("ABORT", r) => go[r] = "closed"
          /\ go[r] # "closed" /\ ~done[r] =>
                /\ \A i \in 1..Len(frames[r]) : frames[r][i].op # "ABORTED"
                /\ \A i \in 1..Len(toGo) :
                      toGo[i].id = r => toGo[i].op # "ABORTED"

(* The frame that ends a stream is its last one.                           *)
LastInv ==
    /\ \A i, j \in 1..Len(toGo) :
          i < j /\ toGo[i].id = toGo[j].id => ~toGo[i].eof
    /\ \A r \in Id :
          /\ \A i, j \in 1..Len(frames[r]) : i < j => ~frames[r][i].eof
          /\ \A j \in 1..Len(toGo) : toGo[j].id = r =>
                ~eof[r] /\ \A i \in 1..Len(frames[r]) : ~frames[r][i].eof
          /\ eof[r] => frames[r] = <<>>

(* No row is lost or made up: what the reader has read, has in hand and    *)
(* will receive, and what the statement has left, make all of its rows;    *)
(* once the worker is done they may be fewer, unless it said eof.          *)
Rows(s, r) ==
    Cardinality({x \in (1..Len(s)) \X (1..MaxRows) :
                    s[x[1]].id = r /\ x[2] <= s[x[1]].n})
Seen(r) == got[r] + pending[r] + Rows(frames[r], r) + Rows(toGo, r)
LastRows(f, r) == f.id = r /\ f.op = "ROWS" /\ f.eof
EndSent(r) == \/ eof[r]
              \/ \E i \in 1..Len(frames[r]) : LastRows(frames[r][i], r)
              \/ \E i \in 1..Len(toGo) : LastRows(toGo[i], r)

RowInv ==
    \A r \in Id :
        go[r] \in {"first", "open", "pull"} =>
            /\ Begun(r) => Seen(r) + left[r] = total[r]
            /\ run[r] = "done" => Seen(r) <= total[r]
            /\ EndSent(r) => Seen(r) = total[r]

(* A stream whose reader is there waits exactly when it has no credit.     *)
CreditInv ==
    /\ CreditConserved
    /\ \A r \in Id :
          Streaming(r) /\ go[r] \in {"first", "open", "pull"} =>
              IF run[r] = "parked" THEN credit[r] = 0 ELSE credit[r] >= 1

(* Inductive as it stands, by itself ...                                   *)
OrderIInv ==
    /\ TypeOK
    /\ IssuedInv /\ WireInv /\ ChainInv /\ DispatchInv /\ InOrder /\ EarlyInv

(* ... with the rows and the credits ...                                   *)
RowIInv ==
    /\ OrderIInv /\ TerminalInv
    /\ FreshInv /\ ReaderInv /\ AbandonInv /\ LastInv /\ RowInv /\ CreditInv

(* ... and, where no abort is ever evicted, with the aborts.               *)
StreamIInv == RowIInv /\ AbortInv
=============================================================================
