------------------------------ MODULE Transport ------------------------------
(***************************************************************************)
(* The Go half of the channel to the database worker (binding/worker.go):  *)
(* the routes that multiplex it, the wake-up token of each route, the      *)
(* handshake, and the death of the worker.  One step is one critical       *)
(* section of Worker.mu or of route.mu, one operation on a wake channel or *)
(* one postMessage; the goroutines of the callers, the JavaScript          *)
(* callbacks and the goroutine in Worker.Close interleave between them.    *)
(*                                                                         *)
(* Id 0 is the handshake of Spawn.  The database worker is external here:  *)
(* it posts the frames it owes in some order, fails, or stays silent.      *)
(***************************************************************************)
EXTENDS Integers, Sequences, FiniteSets

CONSTANTS
    MaxId,           \* bound: requests
    MaxFrames        \* bound: frames of the answer to each, which may stop short

ASSUME MaxIdAssumption == MaxId \in Nat

Id == 0..MaxId
ASSUME FramesAssumption == MaxFrames \in [Id -> Nat \ {0}] /\ MaxFrames[0] = 1

(* Who can push to a route or fail it: the callbacks, of which the event   *)
(* loop runs one at a time, and a goroutine that closes the Worker.        *)
Actor == {"loop", "closer"}

VARIABLES
    routes,     \* Worker.routes: the ids that have one
    dead,       \* Worker.dead # nil
    frames,     \* route.frames: how many
    failed,     \* route.err # nil (and route.closed)
    wake,       \* whether route.wake holds its token
    pc,         \* where each caller is
    want,       \* frames of its answer the caller has not taken yet
    at, on,     \* what each actor is doing, and to which route
    toFail,     \* die: the routes it has still to fail
    ready,      \* Spawn has returned a Worker
    inbox,      \* messages and error events posted to Go, in order
    owed,       \* frames the database worker will post
    up          \* whether the database worker runs

routeVars == <<routes, dead, frames, failed, wake>>
callVars == <<pc, want>>
actorVars == <<at, on, toFail>>
workerVars == <<inbox, owed, up>>
vars == <<routeVars, callVars, actorVars, ready, workerVars>>

(* Spawn has registered the handshake's route and created the worker.      *)
Init ==
    /\ routes = {0} /\ dead = FALSE
    /\ frames = [i \in Id |-> 0]
    /\ failed = [i \in Id |-> FALSE]
    /\ wake = [i \in Id |-> FALSE]
    /\ pc = [i \in Id |-> IF i = 0 THEN "check" ELSE "idle"]
    /\ want = [i \in Id |-> IF i = 0 THEN 1 ELSE 0]
    /\ at = [a \in Actor |-> "idle"] /\ on = [a \in Actor |-> 0]
    /\ toFail = [a \in Actor |-> {}]
    /\ ready = FALSE
    /\ inbox = <<>> /\ owed = [i \in Id |-> IF i = 0 THEN 1 ELSE 0] /\ up = TRUE

-----------------------------------------------------------------------------
(* The callers: begin, post, route.next and end.                           *)

(* begin refuses once the worker is dead.                                  *)
BeginsAlways == FALSE
Refused == dead

Begin(i) ==
    /\ ready /\ i > 0
    /\ pc[i] = "idle" /\ pc[i - 1] # "idle"
    /\ IF Refused
       THEN pc' = [pc EXCEPT ![i] = "ended"] /\ UNCHANGED routes
       ELSE /\ routes' = routes \cup {i}
            /\ pc' = [pc EXCEPT ![i] = "posting"]
    /\ UNCHANGED <<dead, frames, failed, wake, want, actorVars, ready, workerVars>>

(* A worker that was terminated gets no message.                           *)
Post(i) ==
    /\ pc[i] = "posting" /\ pc' = [pc EXCEPT ![i] = "check"]
    /\ want' = [want EXCEPT ![i] = MaxFrames[i]]
    /\ owed' = [owed EXCEPT ![i] = IF up THEN MaxFrames[i] ELSE 0]
    /\ UNCHANGED <<routeVars, actorVars, ready, inbox, up>>

(* route.next up to its select: a frame first, then the error.             *)
OnTrust(i) == ~failed[i]
HasFrame(i) == frames[i] > 0

Check(i) ==
    /\ pc[i] = "check"
    /\ IF HasFrame(i)
       THEN /\ frames' = [frames EXCEPT ![i] = @ - 1]
            /\ want' = [want EXCEPT ![i] = @ - 1]
            /\ pc' = [pc EXCEPT ![i] = "got"]
       ELSE /\ pc' = [pc EXCEPT ![i] = IF failed[i] THEN "failed" ELSE "select"]
            /\ UNCHANGED <<frames, want>>
    /\ UNCHANGED <<routes, dead, failed, wake, actorVars, ready, workerVars>>

(* The select: a token that is there is taken at once, otherwise the       *)
(* caller sleeps.                                                          *)
Sleep(i) ==
    /\ pc[i] = "select" /\ ~wake[i]
    /\ pc' = [pc EXCEPT ![i] = "asleep"]
    /\ UNCHANGED <<routeVars, want, actorVars, ready, workerVars>>

WakeUp(i) ==
    /\ pc[i] \in {"select", "asleep"} /\ wake[i]
    /\ wake' = [wake EXCEPT ![i] = FALSE]
    /\ pc' = [pc EXCEPT ![i] = "check"]
    /\ UNCHANGED <<routes, dead, frames, failed, want, actorVars, ready, workerVars>>

(* The context is done, which nobody else looks at.                        *)
GiveUp(i) ==
    /\ pc[i] \in {"select", "asleep"}
    /\ pc' = [pc EXCEPT ![i] = "gone"]
    /\ UNCHANGED <<routeVars, want, actorVars, ready, workerVars>>

(* Rows.pull for the next batch.                                           *)
Again(i) ==
    /\ pc[i] = "got" /\ want[i] > 0
    /\ pc' = [pc EXCEPT ![i] = "check"]
    /\ UNCHANGED <<routeVars, want, actorVars, ready, workerVars>>

(* The route is unreachable but for the one who is just pushing to it.     *)
Over(i) ==
    /\ routes' = routes \ {i}
    /\ pc' = [pc EXCEPT ![i] = "ended"]
    /\ frames' = [frames EXCEPT ![i] = 0]
    /\ failed' = [failed EXCEPT ![i] = FALSE]
    /\ wake' = [wake EXCEPT ![i] = FALSE]
    /\ want' = [want EXCEPT ![i] = 0]
    /\ UNCHANGED <<dead, actorVars, workerVars>>

End(i) ==
    /\ i > 0
    /\ pc[i] \in {"got", "failed", "gone"}
    /\ Over(i)
    /\ UNCHANGED ready

(* Spawn has a frame, which readReady likes or not.                        *)
SpawnDone ==
    /\ pc[0] = "got"
    /\ Over(0)
    /\ ready' \in BOOLEAN

-----------------------------------------------------------------------------
(* receive, die and Close.                                                 *)

(* receive finds the route, if there still is one ...                      *)
Receive ==
    /\ at["loop"] = "idle" /\ up
    /\ inbox # <<>> /\ Head(inbox) \in Id
    /\ inbox' = Tail(inbox)
    /\ IF Head(inbox) \in routes
       THEN /\ at' = [at EXCEPT !["loop"] = "push"]
            /\ on' = [on EXCEPT !["loop"] = Head(inbox)]
       ELSE UNCHANGED <<at, on>>
    /\ UNCHANGED <<routeVars, callVars, toFail, ready, owed, up>>

(* ... and push adds to it.                                                *)
Replaced(n) == 1
Added(n) == n + 1

Push ==
    /\ at["loop"] = "push"
    /\ frames' = [frames EXCEPT ![on["loop"]] = Added(@)]
    /\ at' = [at EXCEPT !["loop"] = "signal"]
    /\ UNCHANGED <<routes, dead, failed, wake, callVars, on, toFail, ready, workerVars>>

(* die takes the routes that are left ...                                  *)
Die(a) ==
    /\ dead' = TRUE
    /\ toFail' = [toFail EXCEPT ![a] = routes]
    /\ routes' = {}
    /\ at' = [at EXCEPT ![a] = "failing"]
    /\ UNCHANGED <<frames, failed, wake, callVars, on, ready, owed, up>>

(* onerror, onmessageerror, or a message that is no frame.                 *)
ReceiveError ==
    /\ at["loop"] = "idle" /\ up
    /\ inbox # <<>> /\ Head(inbox) \notin Id
    /\ inbox' = Tail(inbox)
    /\ Die("loop")

(* Close, by the Connector or by a Spawn that failed; only the first.      *)
Close ==
    /\ at["closer"] = "idle"
    /\ ready \/ pc[0] \in {"failed", "gone", "ended"}
    /\ Die("closer")
    /\ UNCHANGED inbox

(* ... and fails one after the other.                                      *)
Fail(a, i) ==
    /\ at[a] = "failing" /\ i \in toFail[a]
    /\ failed' = [failed EXCEPT ![i] = TRUE]
    /\ toFail' = [toFail EXCEPT ![a] = @ \ {i}]
    /\ at' = [at EXCEPT ![a] = "failSignal"]
    /\ on' = [on EXCEPT ![a] = i]
    /\ UNCHANGED <<routes, dead, frames, wake, callVars, ready, workerVars>>

(* signal never blocks: the channel holds one token, waited for or not.    *)
IfAsleep(i) == wake[i] \/ pc[i] = "asleep"
Token(i) == TRUE

Signal(a) ==
    /\ at[a] \in {"signal", "failSignal"}
    /\ wake' = [wake EXCEPT ![on[a]] = Token(on[a])]
    /\ at' = [at EXCEPT ![a] = IF at[a] = "signal" THEN "idle" ELSE "failing"]
    /\ on' = [on EXCEPT ![a] = 0]
    /\ UNCHANGED <<routes, dead, frames, failed, callVars, toFail, ready, workerVars>>

(* Close goes on to drop the callbacks and terminate the worker.           *)
DieDone(a) ==
    /\ at[a] = "failing" /\ toFail[a] = {}
    /\ at' = [at EXCEPT ![a] = IF a = "closer" THEN "closed" ELSE "idle"]
    /\ IF a = "closer"
       THEN up' = FALSE /\ inbox' = <<>> /\ owed' = [i \in Id |-> 0]
       ELSE UNCHANGED workerVars
    /\ UNCHANGED <<routeVars, callVars, on, toFail, ready>>

-----------------------------------------------------------------------------
(* The database worker.                                                    *)

Reply(i) ==
    /\ up /\ owed[i] > 0
    /\ owed' = [owed EXCEPT ![i] = @ - 1]
    /\ inbox' = Append(inbox, i)
    /\ UNCHANGED <<routeVars, callVars, actorVars, ready, up>>

(* An uncaught error, once; what happens to the rest is anybody's guess.   *)
Error == -1
WorkerFails ==
    /\ up /\ \A k \in 1..Len(inbox) : inbox[k] # Error
    /\ ~dead
    /\ inbox' = Append(inbox, Error)
    /\ UNCHANGED <<routeVars, callVars, actorVars, ready, owed, up>>

Callback == Receive \/ Push \/ ReceiveError
Actors(a) == Signal(a) \/ DieDone(a) \/ \E i \in Id : Fail(a, i)
Wait(i) == Check(i) \/ Sleep(i) \/ WakeUp(i)

Next ==
    \/ \E i \in Id : \/ Begin(i) \/ Wait(i) \/ GiveUp(i) \/ Again(i) \/ End(i)
                     \/ Post(i) \/ Reply(i)
    \/ SpawnDone \/ Close \/ WorkerFails
    \/ Callback
    \/ \E a \in Actor : Actors(a)

Spec == Init /\ [][Next]_vars

(* The event loop runs its callbacks and the scheduler its goroutines.     *)
(* Neither the database worker nor the callers need do anything more, and  *)
(* no context need ever be done.                                           *)
Fairness ==
    /\ WF_vars(Callback)
    /\ \A a \in Actor : WF_vars(Actors(a))
    /\ \A i \in Id : WF_vars(Wait(i))

FairSpec == Spec /\ Fairness

-----------------------------------------------------------------------------
(* Properties.                                                             *)

Waits(i) == pc[i] \in {"posting", "check", "select", "asleep"}
Count(s, i) == Cardinality({k \in 1..Len(s) : s[k] = i})
InFlight(i) == Count(inbox, i)

(* Type invariant.                                                         *)
TypeOK ==
    /\ routes \subseteq Id /\ dead \in BOOLEAN
    /\ frames \in [Id -> Nat] /\ failed \in [Id -> BOOLEAN] /\ wake \in [Id -> BOOLEAN]
    /\ pc \in [Id -> {"idle", "posting", "check", "select", "asleep", "got", "failed",
                      "gone", "ended"}]
    /\ want \in [Id -> Nat] /\ owed \in [Id -> Nat]
    /\ \A i \in Id : want[i] <= MaxFrames[i] /\ owed[i] <= MaxFrames[i]
    /\ at \in [Actor -> {"idle", "push", "signal", "failing", "failSignal", "closed"}]
    /\ on \in [Actor -> Id] /\ toFail \in [Actor -> SUBSET Id]
    /\ ready \in BOOLEAN /\ up \in BOOLEAN
    /\ inbox \in Seq(Id \cup {Error})

(* No wake-up is lost: a caller that sleeps on a route with a frame or an  *)
(* error in it has its token, or the one who put it there is about to      *)
(* signal.                                                                 *)
NoLostWakeup ==
    \A i \in Id :
        pc[i] \in {"select", "asleep"} /\ (frames[i] > 0 \/ failed[i])
        => wake[i] \/ \E a \in Actor : at[a] \in {"signal", "failSignal"} /\ on[a] = i

(* Nobody outlives the worker: whoever waits when it is dead, or reads and *)
(* may wait again, has been failed or is about to be, also one that began  *)
(* while it died.                                                          *)
DeadFailsAll ==
    dead => \A i \in Id :
        Waits(i) \/ pc[i] = "got" => failed[i] \/ \E a \in Actor : i \in toFail[a]

(* No frame of an answer is read twice, and while the worker lives none is *)
(* lost, whatever ends, gives up or is late around it.                     *)
Pushing(i) == IF at["loop"] = "push" /\ on["loop"] = i THEN 1 ELSE 0
Unread(i) == owed[i] + InFlight(i) + frames[i] + Pushing(i)

NoFrameLost ==
    \A i \in Id :
        pc[i] \in {"check", "select", "asleep", "got"} =>
            /\ Unread(i) <= want[i]
            /\ ~dead => Unread(i) = want[i]

(* Whoever waits when the worker dies, or when a frame for it has been     *)
(* posted, is released, whatever order the callbacks, Close and its own    *)
(* looks at the route come in.                                             *)
Released ==
    \A i \in Id :
        Waits(i) /\ pc[i] # "posting" /\ (dead \/ InFlight(i) > 0) ~> ~Waits(i)

-----------------------------------------------------------------------------
(* The inductive invariant of TransportProofs.                             *)

Failing(a) == at[a] \in {"failing", "failSignal"}

(* Until the worker dies whoever may still read has its route; then all    *)
(* routes are on the lists of those who fail them.                         *)
RouteInv ==
    /\ ~dead => \A i \in Id : Waits(i) \/ pc[i] = "got" => i \in routes
    /\ dead => routes = {}
    /\ ~up => dead
    /\ \A a \in Actor : IF Failing(a) THEN dead ELSE toFail[a] = {}

(* Nothing comes for an id that has not been posted.                       *)
FreshInv ==
    \A i \in Id : pc[i] \in {"idle", "posting"} => Unread(i) = 0

TransportIInv ==
    TypeOK /\ RouteInv /\ FreshInv /\ NoLostWakeup /\ DeadFailsAll /\ NoFrameLost
=============================================================================
