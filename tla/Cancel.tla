------------------------------- MODULE Cancel -------------------------------
(***************************************************************************)
(* Cancellation of one database's requests by a word of shared memory      *)
(* (docs/PROTOCOL.md section 6).  On the Go side the goroutine of armCancel*)
(* stores a request id in it; on the worker's side SQLite polls a progress *)
(* handler, which compares the word with runningRequestId.  The word is an *)
(* Int32, request ids are uint32 and are given out again after 2^32.       *)
(*                                                                         *)
(* Frames, rows and ABORT are in Stream; here a call is over when its      *)
(* caller has left it, and what matters of a request is when               *)
(* runningRequestId is set and when SQLite can poll.                       *)
(***************************************************************************)
EXTENDS Integers

CONSTANTS
    MaxCalls,   \* bound: requests of the database
    Sign,       \* 2^31: the word holds -Sign..Sign-1, an id is below 2 * Sign
    FirstIds,   \* ids the first of them may have
    Ops,        \* the requests used: EXEC, EXEC_STMT, QUERY, QUERY_STMT, PREPARE
    Polls       \* phases of a request in which SQLite polls (external)

ASSUME CallsAssumption == MaxCalls \in Nat
ASSUME SignAssumption == Sign \in Nat \ {0}
ASSUME FirstAssumption == FirstIds \subseteq 1..(2 * Sign - 1)
ASSUME OpsAssumption ==
    Ops \subseteq {"EXEC", "EXEC_STMT", "QUERY", "QUERY_STMT", "PREPARE"}
ASSUME PollsAssumption == Polls \subseteq {"compiling", "running"}

Call == 1..MaxCalls

VARIABLES
    first,      \* the id of call 1
    op,         \* op[n]: the request of call n, "none" before it is posted
    ctx,        \* the caller's context: "live" or "done"
    watch,      \* armCancel's goroutine: "none", "waits", "stored", "stopped"
    over,       \* the caller has left the call
    word,       \* the database's word
    at,         \* the call whose request the worker handles, or the last one
    phase,      \* "idle", "compiling", "running" or "parked"
    running,    \* Session.runningRequestId
    stopped     \* calls whose request SQLite ended with SQLITE_INTERRUPT

goVars == <<first, op, ctx, watch, over>>
workerVars == <<at, phase, running, stopped>>
vars == <<goVars, word, workerVars>>

Init ==
    /\ first \in FirstIds
    /\ op = [n \in Call |-> "none"]
    /\ ctx = [n \in Call |-> "live"]
    /\ watch = [n \in Call |-> "none"]
    /\ over = {}
    /\ word = 0
    /\ at = 0 /\ phase = "idle" /\ running = 0
    /\ stopped = {}

(* Worker.begin: nextID wraps, and leaves out 0.                           *)
Id(n) == ((first + n - 2) % (2 * Sign - 1)) + 1

(* setCancel's int32(requestID).                                           *)
AsIs(id) == id
Int32(id) == IF id < Sign THEN id ELSE id - 2 * Sign

-----------------------------------------------------------------------------
(* The Go side.  PREPARE goes through Worker.call, which arms nothing.     *)

Post(n, o) ==
    /\ op[n] = "none" /\ \A m \in Call : m < n => op[m] # "none"
    /\ op' = [op EXCEPT ![n] = o]
    /\ watch' = [watch EXCEPT ![n] = IF o = "PREPARE" THEN "none" ELSE "waits"]
    /\ UNCHANGED <<first, ctx, over, word, workerVars>>

(* A context may end after the call has: the watcher may not have run yet.  *)
CtxDone(n) ==
    /\ op[n] # "none" /\ ctx[n] = "live"
    /\ ctx' = [ctx EXCEPT ![n] = "done"]
    /\ UNCHANGED <<first, op, watch, over, word, workerVars>>

Handled(n) == n < at \/ (n = at /\ phase = "idle")

Streams(n) == at = n /\ op[n] \in {"QUERY", "QUERY_STMT"} /\ phase \in {"running", "parked"}

(* The call returns by its answer or by its context, or the reader closes  *)
(* its Rows before their end, and the watcher is told to stop.             *)
Leave(n) ==
    /\ op[n] # "none" /\ n \notin over
    /\ Handled(n) \/ ctx[n] = "done" \/ Streams(n)
    /\ over' = over \cup {n}
    /\ UNCHANGED <<first, op, ctx, watch, word, workerVars>>

(* The watcher's select, which is free to choose where both are ready.     *)
WatchStore(n) ==
    /\ watch[n] = "waits" /\ ctx[n] = "done"
    /\ word' = Int32(Id(n))
    /\ watch' = [watch EXCEPT ![n] = "stored"]
    /\ UNCHANGED <<first, op, ctx, over, workerVars>>

WatchStop(n) ==
    /\ watch[n] = "waits" /\ n \in over
    /\ watch' = [watch EXCEPT ![n] = "stopped"]
    /\ UNCHANGED <<first, op, ctx, over, word, workerVars>>

-----------------------------------------------------------------------------
(* The worker.                                                             *)

(* The next request in the chain.  EXEC compiles under its id, QUERY and   *)
(* PREPARE compile before, or without, setting it.                         *)
Early(o) == o \in {"QUERY", "PREPARE"}
Zeroed == 0
AtDequeue == word

Start ==
    /\ phase = "idle" /\ at + 1 \in Call /\ op[at + 1] # "none"
    /\ at' = at + 1
    /\ word' = AtDequeue
    /\ IF Early(op[at + 1])
       THEN phase' = "compiling" /\ UNCHANGED running
       ELSE phase' = "running" /\ running' = Id(at + 1)
    /\ UNCHANGED <<goVars, stopped>>

Compiled ==
    /\ phase = "compiling"
    /\ IF op[at] = "QUERY"
       THEN phase' = "running" /\ running' = Id(at)
       ELSE phase' = "idle" /\ UNCHANGED running
    /\ UNCHANGED <<goVars, word, at, stopped>>

(* A stream waits for a credit, or for a macrotask.                        *)
Park ==
    /\ phase = "running" /\ op[at] \in {"QUERY", "QUERY_STMT"}
    /\ phase' = "parked"
    /\ UNCHANGED <<goVars, word, at, running, stopped>>

Resume ==
    /\ phase = "parked" /\ phase' = "running"
    /\ UNCHANGED <<goVars, word, at, running, stopped>>

(* The finally blocks.  A compilation that fails has set nothing.          *)
Reset == 0
Finish ==
    /\ phase # "idle" /\ phase' = "idle"
    /\ running' = Reset
    /\ UNCHANGED <<goVars, word, at, stopped>>

(* The progress handler answers 1.                                         *)
AnyWord == word # 0
Fires == word = running

Interrupt ==
    /\ phase \in Polls /\ Fires
    /\ stopped' = stopped \cup {at}
    /\ phase' = "idle" /\ running' = Reset
    /\ UNCHANGED <<goVars, word, at>>

Next ==
    \/ \E n \in Call : \/ \E o \in Ops : Post(n, o)
                       \/ CtxDone(n) \/ Leave(n) \/ WatchStore(n) \/ WatchStop(n)
    \/ Start \/ Compiled \/ Park \/ Resume \/ Finish \/ Interrupt

(* SQLite goes on polling while a statement runs; a statement need not end.*)
Spec == Init /\ [][Next]_vars /\ WF_vars(Interrupt)

-----------------------------------------------------------------------------
(* Properties.                                                             *)

(* Type invariant.                                                         *)
TypeOK ==
    /\ first \in FirstIds
    /\ op \in [Call -> Ops \cup {"none"}]
    /\ ctx \in [Call -> {"live", "done"}]
    /\ watch \in [Call -> {"none", "waits", "stored", "stopped"}]
    /\ over \subseteq Call /\ stopped \subseteq Call
    /\ word \in (-Sign)..(Sign - 1)
    /\ at \in 0..MaxCalls
    /\ phase \in {"idle", "compiling", "running", "parked"}
    /\ running \in 0..(2 * Sign - 1)

(* A statement is interrupted only for its own caller's context, whenever  *)
(* the watchers of this and of other calls store: what the word holds an   *)
(* id for (docs/PROTOCOL.md 280-282).                                      *)
OnlyTheCancelled == \A n \in stopped : ctx[n] = "done"

(* A statement that runs, or comes to run, after its cancellation was      *)
(* stored is interrupted, unless another call's cancellation took the word *)
(* or its id does not fit in an Int32.                                     *)
CancelledStops ==
    \A n \in Call :
        at = n /\ phase = "running" /\ watch[n] = "stored" /\ Id(n) < Sign
        ~> ~(at = n /\ phase = "running") \/ word \notin {0, Id(n)}
=============================================================================
