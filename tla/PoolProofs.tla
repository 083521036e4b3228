----------------------------- MODULE PoolProofs -----------------------------
(***************************************************************************)
(* Theorems about what a sql.DB meets in the driver: the connector that    *)
(* opens its connections (Connector) and the locks that several of them    *)
(* take (Busy).                                                            *)
(*                                                                         *)
(* Connector, for any number of callers, whenever Close comes and whatever *)
(* the worker does: no worker is left to nobody and no database without an *)
(* owner; and the connections of a pool see one database, whatever its DSN *)
(* says.  Busy, for any number of connections, attempts and scripts: the   *)
(* calls that are run again after SQLITE_BUSY take effect once, and a      *)
(* transaction that began with its lock keeps it.  Conn has its own module;*)
(* that MCPool is the sum of the three is shown here.                      *)
(***************************************************************************)
EXTENDS MCPool, ConnProofs, FiniteSetTheorems, WellFoundedInduction, TLAPS

(* No worker runs.                                                         *)
NoWorker == worker \in {"none", "gone"}

Stages == Asks \cup {"idle", "ensure", "spawning", "has", "disown", "failed", "closed"}

(* Before a connector is made nobody uses it, and its configuration is     *)
(* that of a DSN.                                                          *)
MadeInv ==
    /\ owner \in {"none", "sql.DB", "conn"}
    /\ owner = "none" => \A c \in Attempt : stage[c] = "idle" /\ db[c] = "none"
    /\ owner # "none" => \E d \in DSNs : cfg \in ParseDSN(d)

(* workerOnce: nothing runs before it was claimed, nothing after it failed;*)
(* one caller at a time spawns, and whoever is past that finds it done.    *)
OnceInv ==
    /\ once \in {"free", "running", "done"}
    /\ once = "free" => worker = "none"
    /\ once # "done" => workerErr = "none"
    /\ \A c, d \in Attempt : stage[c] = "spawning" /\ stage[d] = "spawning" => c = d
    /\ \A c \in Attempt : stage[c] = "spawning" => once = "running"
    /\ once = "done" /\ workerErr # "none" => NoWorker
    /\ \A c \in Attempt : stage[c] \notin {"idle", "ensure", "spawning"} => once = "done"

(* Who has closed the connector has seen the worker go.                    *)
ClosedInv ==
    /\ closer = "returned" => once = "done" /\ NoWorker
    /\ owner = "conn" /\ (\E c \in Attempt : stage[c] \in {"failed", "closed"}) => NoWorker

ConnectorIInv ==
    /\ stage \in [Attempt -> Stages]
    /\ db \in [Attempt -> {"none", "asked", "open", "closing", "closed"}]
    /\ MadeInv /\ OnceInv /\ ClosedInv

-----------------------------------------------------------------------------
(* The invariant is inductive.                                             *)

(* It holds when the program starts.                                       *)
LEMMA ConnectorStarts == ConnectorInit => ConnectorIInv
  BY DEF ConnectorInit, ConnectorIInv, MadeInv, OnceInv, ClosedInv, NoWorker, Stages

(* No call changes the connector's owner or configuration once it is made; *)
(* a step that leaves the Once and the worker alone keeps the invariant if *)
(* who goes on was past ensureWorker, and does not end without disown.     *)
LEMMA QuietStep ==
    ASSUME ConnectorIInv, NEW c \in Attempt,
           UNCHANGED <<ownVars, worker, closer>>,
           owner # "none",
           NEW s \in Stages, stage' = [stage EXCEPT ![c] = s],
           s # "spawning", s \notin {"idle", "ensure"} => once = "done",
           s \in {"failed", "closed"} => owner # "conn",
           db' \in [Attempt -> {"none", "asked", "open", "closing", "closed"}]
    PROVE  ConnectorIInv'
<1>1. stage' \in [Attempt -> Stages]
  BY DEF ConnectorIInv
<1>2. MadeInv'
  BY DEF ConnectorIInv, MadeInv, ownVars
<1>3. OnceInv'
  BY DEF ConnectorIInv, OnceInv, ownVars, NoWorker
<1>4. ClosedInv'
  BY DEF ConnectorIInv, ClosedInv, ownVars, NoWorker
<1> QED
  BY <1>1, <1>2, <1>3, <1>4 DEF ConnectorIInv

(* What Fail does to the stage of its caller.                              *)
LEMMA FailStage ==
    ASSUME NEW c \in Attempt, NEW why, Fail(c, why)
    PROVE  \E s \in Stages :
              /\ stage' = [stage EXCEPT ![c] = s]
              /\ s \in {"failed", "disown"}
              /\ s \in {"failed", "closed"} => owner # "conn"
<1>1. Disowned(c) \in {"failed", "disown"} /\ (Disowned(c) = "failed" => owner # "conn")
  BY DEF Disowned
<1>2. Disowned(c) \in Stages /\ Disowned(c) # "closed"
  BY <1>1 DEF Stages
<1>3. stage' = [stage EXCEPT ![c] = Disowned(c)]
  BY DEF Fail
<1> QED
  BY <1>1, <1>2, <1>3

(* A caller that is not idle has a connector.                              *)
LEMMA Owned ==
    ASSUME ConnectorIInv, NEW c \in Attempt, stage[c] # "idle"
    PROVE  owner # "none"
  BY DEF ConnectorIInv, MadeInv

(* The steps of a caller of Connect that claim, run or end the Once.       *)
LEMMA SpawnStep ==
    ASSUME ConnectorIInv, NEW c \in Attempt,
           Claim(c) \/ Spawned(c) \/ GiveUp(c) \/ Refused(c)
    PROVE  ConnectorIInv'
<1>1. owner # "none" /\ owner' = owner /\ cfg' = cfg /\ db' = db /\ closer' = closer
  BY Owned DEF Claim, Spawned, GiveUp, Refused, SpawnFails, Terminate
<1>2. CASE Claim(c)
  <2>1. once = "free" /\ worker = "none" /\ workerErr = "none" /\ closer # "returned"
        /\ \A d \in Attempt : stage[d] \in {"idle", "ensure", "spawning"}
    BY <1>2 DEF Claim, Unclaimed, ConnectorIInv, OnceInv, ClosedInv
  <2>2. CASE once' = "running" /\ worker' = "loading" /\ UNCHANGED workerErr
             /\ stage' = [stage EXCEPT ![c] = "spawning"]
    BY <1>1, <2>1, <2>2 DEF ConnectorIInv, MadeInv, OnceInv, ClosedInv, NoWorker, Stages
  <2>3. CASE once' = "done" /\ workerErr' = "failed" /\ Fail(c, "failed") /\ UNCHANGED worker
    <3>1. PICK s \in Stages : /\ stage' = [stage EXCEPT ![c] = s]
                              /\ s \in {"failed", "disown"}
                              /\ s \in {"failed", "closed"} => owner # "conn"
      BY <2>3, FailStage
    <3> QED
      BY <1>1, <2>1, <2>3, <3>1 DEF ConnectorIInv, MadeInv, OnceInv, ClosedInv, NoWorker
  <2> QED
    BY <1>2, <2>2, <2>3 DEF Claim
<1>3. CASE Spawned(c)
  BY <1>1, <1>3 DEF Spawned, ConnectorIInv, MadeInv, OnceInv, ClosedInv, NoWorker, Stages
<1>4. CASE \E why : SpawnFails(c, why) /\ stage[c] = "spawning"
  <2>1. PICK why : SpawnFails(c, why)
    BY <1>4
  <2>2. PICK s \in Stages : /\ stage' = [stage EXCEPT ![c] = s]
                            /\ s \in {"failed", "disown"}
                            /\ s \in {"failed", "closed"} => owner # "conn"
    BY <2>1, FailStage DEF SpawnFails
  <2>3. once' = "done" /\ worker' = "gone"
    BY <2>1 DEF SpawnFails, Terminate
  <2> QED
    BY <1>1, <1>4, <2>2, <2>3 DEF ConnectorIInv, MadeInv, OnceInv, ClosedInv, NoWorker
<1> QED
  BY <1>2, <1>3, <1>4 DEF GiveUp, Refused

(* The other steps of a caller: OPEN, the pragma, CLOSE, and the context.  *)
LEMMA ConnStep ==
    ASSUME ConnectorIInv, NEW c \in Attempt,
           \/ Call(c) \/ Enter(c) \/ Opened(c) \/ OpenFails(c) \/ PragmaDone(c)
           \/ PragmaFails(c) \/ UndoOver(c) \/ ReleaseConn(c) \/ ConnClosed(c)
    PROVE  ConnectorIInv'
<1>1. owner # "none" /\ UNCHANGED <<ownVars, worker, closer>>
  BY Owned DEF Call, Enter, Opened, OpenFails, PragmaDone, PragmaFails, UndoOver,
               ReleaseConn, ConnClosed
<1>2. stage[c] \notin {"idle", "ensure", "spawning"} => once = "done"
  BY DEF ConnectorIInv, OnceInv
<1>3. db' \in [Attempt -> {"none", "asked", "open", "closing", "closed"}]
  BY DEF ConnectorIInv, Call, Enter, Opened, OpenFails, PragmaDone, PragmaFails, UndoOver,
         ReleaseConn, ConnClosed, Undo, CloseDb
<1>4. \E s \in Stages :
          /\ stage' = [stage EXCEPT ![c] = s]
          /\ s # "spawning" /\ (s \notin {"idle", "ensure"} => once = "done")
          /\ s \in {"failed", "closed"} => owner # "conn"
  <2>1. CASE \E why : Fail(c, why) /\ once = "done"
    BY <2>1, FailStage
  <2>2. CASE Call(c)
    <3>1. "ensure" \in Stages /\ stage' = [stage EXCEPT ![c] = "ensure"]
      BY <2>2 DEF Call, Stages
    <3> QED
      BY <3>1
  <2>3. CASE Enter(c)
    BY <2>1, <2>3 DEF Enter, Ask, Stages, Asks
  <2>4. CASE Opened(c) \/ PragmaDone(c)
    BY <1>2, <2>4 DEF Opened, PragmaDone, Ask, Stages, Asks
  <2>5. CASE OpenFails(c)
    BY <1>2, <2>1, <2>5 DEF OpenFails
  <2>6. CASE UndoOver(c)
    BY <1>2, <2>1, <2>6 DEF UndoOver
  <2>7. CASE PragmaFails(c) \/ ReleaseConn(c)
    BY <1>2, <2>7 DEF PragmaFails, ReleaseConn, Undo, CloseDb, Ask, Stages, Asks
  <2>8. CASE ConnClosed(c)
    BY <1>2, <2>8 DEF ConnClosed, Stages
  <2> QED
    BY <2>2, <2>3, <2>4, <2>5, <2>6, <2>7, <2>8
<1> QED
  BY <1>1, <1>3, <1>4, QuietStep

(* The connector is made, and closed.                                      *)
LEMMA OwnerStep ==
    ASSUME ConnectorIInv,
           NewConnector \/ Close \/ CloseDone \/ \E c \in Attempt : Disown(c)
    PROVE  ConnectorIInv'
<1>1. CASE NewConnector
  BY <1>1 DEF NewConnector, attemptVars, ConnectorIInv, MadeInv, OnceInv, ClosedInv, NoWorker
<1>2. CASE Close
  BY <1>2 DEF Close, ownVars, attemptVars, ConnectorIInv, MadeInv, OnceInv, ClosedInv, NoWorker
<1>3. CASE CloseDone
  <2>1. CASE once = "free"
    BY <1>3, <2>1 DEF CloseDone, Leave, ConnectorIInv, MadeInv, OnceInv, ClosedInv, NoWorker
  <2>2. CASE once = "done" /\ workerErr = "none"
    BY <1>3, <2>2
       DEF CloseDone, Terminate, ConnectorIInv, MadeInv, OnceInv, ClosedInv, NoWorker
  <2>3. CASE once \notin {"free", "running"} /\ ~(once = "done" /\ workerErr = "none")
    BY <1>3, <2>3 DEF CloseDone, Leave, ConnectorIInv, MadeInv, OnceInv, ClosedInv, NoWorker
  <2> QED
    BY <1>3, <2>1, <2>2, <2>3 DEF CloseDone, OnceOver
<1>4. ASSUME NEW c \in Attempt, Disown(c) PROVE ConnectorIInv'
  <2>1. once = "done" /\ owner # "none"
    BY <1>4, Owned DEF Disown, ConnectorIInv, OnceInv
  <2>2. PICK s \in {"closed", "failed"} : stage' = [stage EXCEPT ![c] = s]
    BY <1>4 DEF Disown
  <2>3. NoWorker' /\ UNCHANGED <<owner, cfg, once, workerErr, db, closer>>
    BY <1>4, <2>1 DEF Disown, Terminate, Leave, ConnectorIInv, OnceInv, NoWorker
  <2> QED
    BY <2>1, <2>2, <2>3 DEF ConnectorIInv, MadeInv, OnceInv, ClosedInv, NoWorker, Stages
<1> QED
  BY <1>1, <1>2, <1>3, <1>4

(* The steps of the worker, and of the contexts: none brings a worker back.*)
LEMMA ServerStep ==
    ASSUME ConnectorIInv,
           \/ Starts \/ WorkerFails
           \/ \E c \in Attempt : ContextEnds(c) \/ Serves(c)
    PROVE  ConnectorIInv'
<1>1. UNCHANGED <<owner, cfg, once, workerErr, stage, closer>>
  BY DEF Starts, WorkerFails, ContextEnds, Serves, ServeOpen, ServePragma, ServeClose,
         ownVars, attemptVars
<1>2. worker' = worker \/ (worker = "loading" /\ worker' # "none")
  BY DEF Starts, WorkerFails, ContextEnds, Serves, ServeOpen, ServePragma, ServeClose
<1>3. /\ db' \in [Attempt -> {"none", "asked", "open", "closing", "closed"}]
      /\ (\A c \in Attempt : db[c] = "none") => \A c \in Attempt : db'[c] = "none"
  <2>1. CASE UNCHANGED db
    BY <2>1 DEF ConnectorIInv
  <2>2. ASSUME NEW c \in Attempt, ServeOpen(c) \/ ServeClose(c)
        PROVE  \E v \in {"open", "none", "closed"} :
                  db' = [db EXCEPT ![c] = v] /\ db[c] # "none"
    BY <2>2 DEF ServeOpen, ServeClose
  <2> QED
    BY <2>1, <2>2
       DEF Starts, WorkerFails, ContextEnds, Serves, ServePragma, ConnectorIInv
<1> QED
  BY <1>1, <1>2, <1>3 DEF ConnectorIInv, MadeInv, OnceInv, ClosedInv, NoWorker

(* The invariant holds in every state of every instance.                   *)
THEOREM ConnectorInvariant == ConnectorSpec => []ConnectorIInv
<1>1. ConnectorIInv /\ [ConnectorNext]_connectorVars => ConnectorIInv'
  <2> SUFFICES ASSUME ConnectorIInv, [ConnectorNext]_connectorVars PROVE ConnectorIInv'
    OBVIOUS
  <2>1. CASE ConnectorNext
    BY <2>1, SpawnStep, ConnStep, OwnerStep, ServerStep DEF ConnectorNext, Goes
  <2>2. CASE UNCHANGED connectorVars
    BY <2>2 DEF connectorVars, ownVars, attemptVars,
                ConnectorIInv, MadeInv, OnceInv, ClosedInv, NoWorker
  <2> QED
    BY <2>1, <2>2
<1> QED
  BY ConnectorStarts, <1>1, PTL DEF ConnectorSpec

(* No worker is left to nobody: not after Close, also if it came while the *)
(* worker started, not after a Spawn that failed, not by Driver.Open.      *)
THEOREM NobodysWorker == ConnectorSpec => []NoWorkerLeft
<1>1. ConnectorIInv => NoWorkerLeft
  BY DEF ConnectorIInv, OnceInv, ClosedInv, NoWorker, NoWorkerLeft
<1> QED
  BY <1>1, ConnectorInvariant, PTL

-----------------------------------------------------------------------------
(* One database for a pool.                                                *)

(* What ParseDSN says is shared, on a file or in memory, no handle gets    *)
(* for itself, whatever the parameters are.                                *)
LEMMA SharedIsOne ==
    ASSUME NEW d \in DSNs, cfg \in ParseDSN(d), Shared
    PROVE  ~Private(FilenameFor(cfg, Id), cfg.VFS)
<1> DEFINE q == Parameters(d)
           vfs == Get(q, "vfs")
           anonymous == vfs # "memdb" /\ IsMemory(d)
<1>1. /\ cfg.Filename = IF anonymous THEN Empty ELSE Stripped(d)
      /\ cfg.VFS = IF anonymous THEN "memdb" ELSE vfs
      /\ cfg.Persistent = (vfs # "memdb" /\ ~anonymous /\ d.name # "")
      /\ cfg.anonymousMemory = anonymous
  <2>1. ~(~Accepted(q) \/ Get(q, "cache") # "")
    BY DEF ParseDSN
  <2> QED
    BY <2>1 DEF ParseDSN
<1>2. CASE anonymous
  <2>1. FilenameFor(cfg, Id) = [uri |-> TRUE, name |-> Id, query |-> <<>>]
    BY <1>1, <1>2 DEF FilenameFor
  <2> DEFINE file == FilenameFor(cfg, Id)
  <2>2. file.name = Id /\ file.query = <<>> /\ Get(<<>>, "mode") = ""
    BY <2>1 DEF Get
  <2>3. Id \in Slashed /\ Id \notin {":memory:", ""}
    BY IdAssumption, SlashedAssumption
  <2> QED
    BY <2>2, <2>3 DEF Private, Unnamed
<1>3. CASE ~anonymous
  <2>1. FilenameFor(cfg, Id) = Stripped(d) /\ cfg.Filename = Stripped(d)
    BY <1>1, <1>3 DEF FilenameFor
  <2>2. /\ Stripped(d).uri = d.uri /\ Stripped(d).name = d.name
        /\ d.uri => Get(Stripped(d).query, "mode") = Get(q, "mode")
    BY DSNsAssumption DEF Stripped, Parameters, TakesQuery, Restrict, Get, DriverParams
  <2>3. CASE vfs # "memdb" /\ d.name # ""
    <3>1. d.name # ":memory:" /\ Get(q, "mode") # "memory"
      BY <1>3, <2>3, DSNsAssumption DEF IsMemory, Name, Bare, InUri
    <3> QED
      BY <1>1, <1>3, <2>1, <2>2, <2>3, <3>1 DEF Private, Unnamed
  <2>4. CASE d.name \in Slashed /\ Get(Stripped(d).query, "mode") # "memory"
    BY <2>1, <2>2, <2>4, SlashedAssumption DEF Private, Unnamed
  <2> QED
    BY <1>1, <1>3, <2>1, <2>2, <2>3, <2>4 DEF Shared
<1> QED
  BY <1>2, <1>3

(* The connections of a pool see one database, for every DSN and every     *)
(* number of them: no spelling of memory escapes the rewrite to memdb.     *)
THEOREM PoolSeesOneDatabase == ConnectorSpec => []OneDatabase
<1>1. ConnectorIInv => OneDatabase
  <2> SUFFICES ASSUME ConnectorIInv, NEW c \in Attempt, NEW e \in Attempt,
                      db[c] = "open", db[e] = "open", Shared
               PROVE  DatabaseOf(FilenameFor(cfg, Id), cfg.VFS, c)
                        = DatabaseOf(FilenameFor(cfg, Id), cfg.VFS, e)
    BY DEF OneDatabase
  <2>1. PICK d \in DSNs : cfg \in ParseDSN(d)
    BY DEF ConnectorIInv, MadeInv
  <2> QED
    BY <2>1, SharedIsOne DEF DatabaseOf
<1> QED
  BY <1>1, ConnectorInvariant, PTL

-----------------------------------------------------------------------------
(* Every database has an owner.                                            *)

(* A Connect that has left before its OPEN was answered has nothing more   *)
(* to do; an OPEN that was refused opened nothing; and whoever has a       *)
(* database is waiting for it, setting it up, or using it.                 *)
Replied == {"none", "ok", "err"}
Errors == {"none", "deadline", "left", "failed", "closed"}
Kept == {"none", "asked", "open", "closing", "closed"}

Owner(s, r, e, v, gone) ==
    /\ s \in Stages /\ r \in Replied /\ e \in Errors /\ v \in Kept
    /\ e = "left" => s \in {"failed", "disown", "closed"}
    /\ ~ gone => /\ v \in {"asked", "open"} /\ e # "left" =>
                        s \in {"opening", "pragma", "has"}
                 /\ s = "opening" /\ r = "err" => v = "none"

OwnedInv ==
    /\ reply \in [Attempt -> Replied] /\ err \in [Attempt -> Errors]
    /\ workerErr \in Errors \ {"left"}
    /\ \A c \in Attempt : Owner(stage[c], reply[c], err[c], db[c], dead)

Typed ==
    /\ stage \in [Attempt -> Stages] /\ reply \in [Attempt -> Replied]
    /\ err \in [Attempt -> Errors] /\ db \in [Attempt -> Kept]

(* One caller is moved to stage s with reply r, error e and database v.    *)
Moved(c, s, r, e, v) ==
    /\ stage' = [stage EXCEPT ![c] = s] /\ reply' = [reply EXCEPT ![c] = r]
    /\ err' = [err EXCEPT ![c] = e] /\ db' = [db EXCEPT ![c] = v]

(* Such a step keeps every database owned if it does for that caller.      *)
LEMMA OneMoves ==
    ASSUME ConnectorIInv, OwnedInv, NEW c \in Attempt, NEW s, NEW r, NEW e, NEW v,
           Moved(c, s, r, e, v), Owner(s, r, e, v, dead'),
           workerErr' \in Errors \ {"left"}, dead => dead'
    PROVE  OwnedInv'
<1>1. Typed
  BY DEF ConnectorIInv, OwnedInv, Typed, Kept
<1>2. s \in Stages /\ r \in Replied /\ e \in Errors /\ v \in Kept
  BY DEF Owner
<1>3. /\ reply' \in [Attempt -> Replied] /\ err' \in [Attempt -> Errors]
      /\ stage'[c] = s /\ reply'[c] = r /\ err'[c] = e /\ db'[c] = v
  BY <1>1, <1>2 DEF Typed, Moved
<1>4. ASSUME NEW d \in Attempt, d # c
      PROVE  stage'[d] = stage[d] /\ reply'[d] = reply[d] /\ err'[d] = err[d] /\ db'[d] = db[d]
  BY <1>1, <1>4 DEF Typed, Moved
<1>5. ASSUME NEW d \in Attempt
      PROVE  Owner(stage'[d], reply'[d], err'[d], db'[d], dead')
  <2>1. CASE d = c
    BY <2>1, <1>3
  <2>2. CASE d # c
    <3>1. Owner(stage[d], reply[d], err[d], db[d], dead)
      BY DEF OwnedInv
    <3>2. Owner(stage[d], reply[d], err[d], db[d], dead')
      BY <3>1 DEF Owner
    <3> QED
      BY <2>2, <3>2, <1>4
  <2> QED
    BY <2>1, <2>2
<1> QED
  BY <1>3, <1>5 DEF OwnedInv

(* What is known of one caller before a step.                              *)
LEMMA OneOwner ==
    ASSUME ConnectorIInv, OwnedInv, NEW c \in Attempt
    PROVE  /\ Typed /\ workerErr \in Errors \ {"left"}
           /\ Owner(stage[c], reply[c], err[c], db[c], dead)
           /\ stage = [stage EXCEPT ![c] = stage[c]]
           /\ reply = [reply EXCEPT ![c] = reply[c]]
           /\ err = [err EXCEPT ![c] = err[c]] /\ db = [db EXCEPT ![c] = db[c]]
<1>1. Typed
  BY DEF ConnectorIInv, OwnedInv, Typed, Kept
<1>2. /\ stage = [stage EXCEPT ![c] = stage[c]] /\ reply = [reply EXCEPT ![c] = reply[c]]
      /\ err = [err EXCEPT ![c] = err[c]] /\ db = [db EXCEPT ![c] = db[c]]
  BY <1>1 DEF Typed
<1> QED
  BY <1>1, <1>2 DEF OwnedInv

(* A caller that has no database to lose, or has left it, ends; a caller   *)
(* that waits for the worker moves on.                                     *)
LEMMA OwnerMoves ==
    ASSUME NEW s, NEW r, NEW e, NEW v, NEW gone, Owner(s, r, e, v, gone),
           NEW t \in Stages \ {"opening"}, NEW f \in Errors, NEW after, gone => after,
           f = "left" => t \in {"failed", "disown", "closed"},
           f # "left" => \/ after \/ t \in {"pragma", "has"}
                         \/ e # "left" /\ s \notin {"opening", "pragma", "has"}
                         \/ s = "opening" /\ r = "err" /\ e # "left"
    PROVE  Owner(t, r, f, v, after)
BY DEF Owner

(* The steps of a caller of Connect.                                       *)
LEMMA OwnedCaller ==
    ASSUME ConnectorIInv, OwnedInv, NEW c \in Attempt,
           Call(c) \/ ReleaseConn(c) \/ Goes(c)
    PROVE  OwnedInv'
<1>1. /\ Typed /\ workerErr \in Errors \ {"left"}
      /\ Owner(stage[c], reply[c], err[c], db[c], dead)
      /\ stage = [stage EXCEPT ![c] = stage[c]] /\ reply = [reply EXCEPT ![c] = reply[c]]
      /\ err = [err EXCEPT ![c] = err[c]] /\ db = [db EXCEPT ![c] = db[c]]
  BY OneOwner
<1>2. {"ensure", "spawning", "pragma", "has", "undo", "closing", "disown",
       "failed", "closed"} \subseteq Stages \ {"opening"}
  BY DEF Stages, Asks
<1>3. Disowned(c) \in {"failed", "disown"}
  BY DEF Disowned
<1>4. "failed" \in Errors \ {"left"} /\ "deadline" \in Errors \ {"left"}
  BY DEF Errors
<1>5. err[c] = "left" => stage[c] \in {"failed", "disown", "closed"}
  BY <1>1 DEF Owner
<1>6. err[c] \in Errors
  BY <1>1 DEF Owner
<1>7. CASE Call(c)
  <2>1. /\ Moved(c, "ensure", reply[c], err[c], db[c]) /\ stage[c] = "idle"
        /\ workerErr' = workerErr /\ dead' = dead
    BY <1>1, <1>7 DEF Call, ownVars, Moved
  <2>2. Owner("ensure", reply[c], err[c], db[c], dead')
    BY <2>1, <1>1, <1>2, <1>5, <1>6, OwnerMoves
  <2> QED
    BY <2>1, <2>2, <1>1, OneMoves
<1>8. CASE Claim(c)
  <2>1. PICK s \in {"spawning", "failed", "disown"}, e \in {err[c], "failed"} :
           /\ Moved(c, s, reply[c], e, db[c]) /\ stage[c] = "ensure" /\ dead' = dead
           /\ workerErr' \in {workerErr, "failed"}
    <3>1. /\ stage[c] = "ensure" /\ reply' = reply /\ db' = db /\ dead' = dead
          /\ workerErr' \in {workerErr, "failed"}
          /\ \/ stage' = [stage EXCEPT ![c] = "spawning"] /\ err' = err
             \/ /\ stage' = [stage EXCEPT ![c] = Disowned(c)]
                /\ err' = [err EXCEPT ![c] = "failed"]
      BY <1>8 DEF Claim, Fail
    <3>2. \/ Moved(c, "spawning", reply[c], err[c], db[c])
          \/ Moved(c, Disowned(c), reply[c], "failed", db[c])
      BY <3>1, <1>1 DEF Moved
    <3> QED
      BY <3>1, <3>2, <1>3
  <2>2. e \in Errors \ {"left"} /\ err[c] # "left"
    BY <2>1, <1>4, <1>5, <1>6
  <2>3. s \in Stages \ {"opening"}
    BY <1>2
  <2>4. Owner(s, reply[c], e, db[c], dead')
    BY <2>1, <2>2, <2>3, <1>1, OwnerMoves
  <2> QED
    BY <2>1, <2>4, <1>1, <1>4, OneMoves
<1>9. CASE Spawned(c)
  <2>1. /\ Moved(c, "ensure", reply[c], err[c], db[c]) /\ stage[c] = "spawning"
        /\ workerErr' = workerErr /\ dead' = dead
    BY <1>1, <1>9 DEF Spawned, Moved
  <2>2. Owner("ensure", reply[c], err[c], db[c], dead')
    BY <2>1, <1>1, <1>2, <1>5, <1>6, OwnerMoves
  <2> QED
    BY <2>1, <2>2, <1>1, OneMoves
<1>10. CASE GiveUp(c) \/ Refused(c)
  <2>1. PICK why \in {"deadline", "failed"} :
           /\ Moved(c, Disowned(c), reply[c], why, db[c])
           /\ dead' = TRUE /\ workerErr' = why
    BY <1>1, <1>10 DEF GiveUp, Refused, SpawnFails, Fail, Terminate, Moved
  <2>2. Disowned(c) \in Stages \ {"opening"} /\ why \in Errors \ {"left"}
    BY <1>2, <1>3, <1>4
  <2>3. Owner(Disowned(c), reply[c], why, db[c], dead')
    BY <2>1, <2>2, <1>1, OwnerMoves
  <2> QED
    BY <2>1, <2>2, <2>3, OneMoves
<1>11. CASE Enter(c)
  <2>1. stage[c] = "ensure" /\ dead' = dead /\ workerErr' = workerErr
    BY <1>11 DEF Enter, ownVars
  <2>2. CASE workerErr = "none" /\ CheckVFS
    <3>1. PICK r, v : /\ Moved(c, "opening", r, err[c], v)
                      /\ r = IF dead THEN "err" ELSE "none"
                      /\ v = IF dead THEN "none" ELSE "asked"
      BY <2>2, <1>1, <1>11 DEF Enter, Ask, Moved
    <3>2. "opening" \in Stages
      BY DEF Stages, Asks
    <3>3. Owner("opening", r, err[c], v, dead)
      BY <3>1, <3>2, <2>1, <1>5, <1>6 DEF Owner, Replied, Kept
    <3> QED
      BY <3>1, <3>3, <2>1, <1>1, OneMoves
  <2>3. CASE ~ (workerErr = "none" /\ CheckVFS)
    <3>1. PICK why : /\ Moved(c, Disowned(c), reply[c], why, db[c])
                     /\ why = IF workerErr = "none" THEN "failed" ELSE workerErr
      BY <2>3, <1>1, <1>11 DEF Enter, Fail, Moved
    <3>2. Disowned(c) \in Stages \ {"opening"} /\ why \in Errors \ {"left"}
      BY <3>1, <1>1, <1>2, <1>3, <1>4
    <3>3. Owner(Disowned(c), reply[c], why, db[c], dead)
      BY <3>2, <2>1, <1>1, <1>5, OwnerMoves
    <3> QED
      BY <3>1, <3>3, <2>1, <1>1, OneMoves
  <2> QED
    BY <2>2, <2>3
<1>12. CASE Opened(c)
  <2>1. PICK s \in {"pragma", "has"}, r \in Replied :
           /\ Moved(c, s, r, err[c], db[c]) /\ stage[c] = "opening"
           /\ dead' = dead /\ workerErr' = workerErr
    <3>1. /\ stage[c] = "opening" /\ dead' = dead /\ workerErr' = workerErr
          /\ err' = err /\ db' = db
      BY <1>12 DEF Opened, ownVars
    <3>2. CASE cfg.ForeignKeys
      <4>1. PICK r \in {"err", "none"} :
               stage' = [stage EXCEPT ![c] = "pragma"] /\ reply' = [reply EXCEPT ![c] = r]
        BY <3>2, <1>12 DEF Opened, Ask
      <4>2. Moved(c, "pragma", r, err[c], db[c]) /\ r \in Replied
        BY <3>1, <4>1, <1>1 DEF Moved, Replied
      <4> QED
        BY <3>1, <4>2
    <3>3. CASE ~ cfg.ForeignKeys
      <4>1. stage' = [stage EXCEPT ![c] = "has"] /\ reply' = reply
        BY <3>3, <1>12 DEF Opened
      <4>2. Moved(c, "has", reply[c], err[c], db[c]) /\ reply[c] \in Replied
        BY <3>1, <4>1, <1>1 DEF Moved, Owner
      <4> QED
        BY <3>1, <4>2
    <3> QED
      BY <3>2, <3>3
  <2>2. s \in Stages
    BY <1>2
  <2>3. Owner(s, r, err[c], db[c], dead)
    BY <2>1, <2>2, <1>1 DEF Owner
  <2> QED
    BY <2>1, <2>3, <1>1, OneMoves
<1>13. CASE OpenFails(c)
  <2>1. PICK why \in {"failed", "left"} :
           /\ Moved(c, Disowned(c), reply[c], why, db[c])
           /\ why = "failed" => reply[c] = "err"
           /\ stage[c] = "opening" /\ dead' = dead /\ workerErr' = workerErr
    BY <1>1, <1>13 DEF OpenFails, Fail, ownVars, Moved
  <2>2. Disowned(c) \in Stages \ {"opening"} /\ why \in Errors
    BY <1>2, <1>3 DEF Errors
  <2>3. Owner(Disowned(c), reply[c], why, db[c], dead)
    BY <2>1, <2>2, <1>1, <1>3, <1>5, OwnerMoves
  <2> QED
    BY <2>1, <2>3, <1>1, OneMoves
<1>14. CASE PragmaDone(c)
  <2>1. /\ Moved(c, "has", reply[c], err[c], db[c]) /\ stage[c] = "pragma"
        /\ workerErr' = workerErr /\ dead' = dead
    BY <1>1, <1>14 DEF PragmaDone, ownVars, Moved
  <2>2. Owner("has", reply[c], err[c], db[c], dead)
    BY <2>1, <1>1, <1>2, <1>5, <1>6, OwnerMoves
  <2> QED
    BY <2>1, <2>2, <1>1, OneMoves
<1>15. CASE PragmaFails(c) \/ ReleaseConn(c)
  <2>1. PICK s \in {"undo", "closing"} : CloseDb(c, s) /\ stage[c] \in {"pragma", "has"}
    BY <1>15 DEF PragmaFails, ReleaseConn, Undo
  <2>2. PICK why \in Errors \ {"left"} : err' = [err EXCEPT ![c] = why]
    <3>1. CASE PragmaFails(c)
      BY <3>1, <1>4 DEF PragmaFails
    <3>2. CASE ReleaseConn(c)
      <4>1. err' = err
        BY <3>2 DEF ReleaseConn
      <4>2. err[c] # "left"
        BY <2>1, <1>5
      <4> QED
        BY <4>1, <4>2, <1>1, <1>6
    <3> QED
      BY <3>1, <3>2, <1>15
  <2>3. dead' = dead /\ workerErr' = workerErr
    BY <1>15 DEF PragmaFails, ReleaseConn, ownVars
  <2>4. PICK r, v : /\ Moved(c, s, r, why, v)
                    /\ r = IF dead THEN "err" ELSE "none"
                    /\ v = IF dead THEN db[c] ELSE "closing"
    BY <2>1, <2>2 DEF CloseDb, Ask, Moved
  <2>5. r \in Replied /\ v \in Kept /\ s \in Stages /\ (~ dead => v = "closing")
    BY <2>4, <1>1, <1>2 DEF Owner, Replied, Kept
  <2>6. Owner(s, r, why, v, dead)
    BY <2>5 DEF Owner
  <2> QED
    BY <2>3, <2>4, <2>6, <1>1, OneMoves
<1>16. CASE UndoOver(c)
  <2>1. /\ Moved(c, Disowned(c), reply[c], err[c], db[c]) /\ stage[c] = "undo"
        /\ workerErr' = workerErr /\ dead' = dead
    BY <1>1, <1>16 DEF UndoOver, Fail, ownVars, Moved
  <2>2. Disowned(c) \in Stages \ {"opening"}
    BY <1>2, <1>3
  <2>3. Owner(Disowned(c), reply[c], err[c], db[c], dead)
    BY <2>1, <2>2, <1>1, <1>5, <1>6, OwnerMoves
  <2> QED
    BY <2>1, <2>3, <1>1, OneMoves
<1>17. CASE ConnClosed(c)
  <2>1. PICK s \in {"disown", "closed"} :
           /\ Moved(c, s, reply[c], err[c], db[c]) /\ stage[c] = "closing"
           /\ dead' = dead /\ workerErr' = workerErr
    BY <1>1, <1>17 DEF ConnClosed, ownVars, Moved
  <2>2. s \in Stages \ {"opening"}
    BY <1>2
  <2>3. Owner(s, reply[c], err[c], db[c], dead)
    BY <2>1, <2>2, <1>1, <1>5, <1>6, OwnerMoves
  <2> QED
    BY <2>1, <2>3, <1>1, OneMoves
<1>18. CASE Disown(c)
  <2>1. PICK s \in {"closed", "failed"} :
           /\ Moved(c, s, reply[c], err[c], db[c]) /\ stage[c] = "disown"
           /\ workerErr' = workerErr
    BY <1>1, <1>18 DEF Disown, Moved
  <2>2. dead => dead'
    BY <1>18 DEF Disown, Terminate, Leave
  <2>3. s \in Stages \ {"opening"}
    BY <1>2
  <2>4. Owner(s, reply[c], err[c], db[c], dead')
    BY <2>1, <2>2, <2>3, <1>1, <1>5, <1>6, OwnerMoves
  <2> QED
    BY <2>1, <2>2, <2>4, <1>1, OneMoves
<1> QED
  BY <1>7, <1>8, <1>9, <1>10, <1>11, <1>12, <1>13, <1>14, <1>15, <1>16, <1>17, <1>18 DEF Goes

(* The steps of the owner and of the worker.                               *)
LEMMA OwnedRest ==
    ASSUME ConnectorIInv, OwnedInv,
           \/ NewConnector \/ Close \/ CloseDone \/ Starts \/ WorkerFails
           \/ \E c \in Attempt : ContextEnds(c) \/ Serves(c)
    PROVE  OwnedInv'
<1>1. Typed /\ workerErr \in Errors \ {"left"}
  BY DEF ConnectorIInv, OwnedInv, Typed, Kept
<1>2. CASE \/ NewConnector \/ Close \/ Starts \/ \E c \in Attempt : ContextEnds(c)
  <2>1. UNCHANGED <<stage, reply, err, db, dead, workerErr>>
    BY <1>2 DEF NewConnector, Close, Starts, ContextEnds, ownVars, attemptVars
  <2> QED
    BY <2>1 DEF OwnedInv
<1>3. ASSUME dead' = TRUE, reply' = Failed, UNCHANGED <<stage, err, db>>,
             workerErr' \in Errors \ {"left"}
      PROVE  OwnedInv'
  <2>1. reply' \in [Attempt -> Replied]
    BY <1>1, <1>3 DEF Typed, Failed, Replied
  <2>2. \A c \in Attempt : Owner(stage[c], reply'[c], err[c], db[c], TRUE)
    BY <2>1 DEF OwnedInv, Owner
  <2> QED
    BY <2>1, <2>2, <1>3 DEF OwnedInv
<1>4. CASE WorkerFails
  BY <1>1, <1>3, <1>4 DEF WorkerFails
<1>5. CASE CloseDone
  <2>1. UNCHANGED <<stage, err, db>> /\ workerErr' \in Errors \ {"left"}
    BY <1>1, <1>5 DEF CloseDone, Errors
  <2>2. \/ dead' = TRUE /\ reply' = Failed
        \/ dead' = dead /\ reply' = reply
    BY <1>5 DEF CloseDone, Terminate, Leave
  <2>3. CASE dead' = TRUE /\ reply' = Failed
    BY <2>1, <2>3, <1>3
  <2>4. CASE dead' = dead /\ reply' = reply
    BY <2>1, <2>4 DEF OwnedInv
  <2> QED
    BY <2>2, <2>3, <2>4
<1>6. ASSUME NEW c \in Attempt, Serves(c) PROVE OwnedInv'
  <2>1. /\ Owner(stage[c], reply[c], err[c], db[c], dead)
        /\ stage = [stage EXCEPT ![c] = stage[c]] /\ reply = [reply EXCEPT ![c] = reply[c]]
        /\ err = [err EXCEPT ![c] = err[c]] /\ db = [db EXCEPT ![c] = db[c]]
    BY OneOwner
  <2>2. stage' = stage /\ err' = err /\ dead' = dead /\ workerErr' = workerErr
    BY <1>6 DEF Serves, ServeOpen, ServePragma, ServeClose, ownVars
  <2>3. CASE ServeOpen(c)
    <3>1. PICK v \in {"open", "none"}, res \in {"ok", "err"} :
             /\ db[c] = "asked" /\ db' = [db EXCEPT ![c] = v] /\ Replies(c, "opening", res)
             /\ res = "err" => v = "none"
      BY <2>3 DEF ServeOpen
    <3>2. PICK r : /\ Moved(c, stage[c], r, err[c], v)
                   /\ r = IF stage[c] = "opening" /\ ~ dead THEN res ELSE reply[c]
      BY <3>1, <2>1, <2>2 DEF Replies, Moved
    <3>3. Owner(stage[c], r, err[c], v, dead)
      BY <3>1, <3>2, <2>1 DEF Owner, Replied, Kept
    <3> QED
      BY <3>2, <3>3, <2>2, <1>1, OneMoves
  <2>4. CASE ServePragma(c)
    <3>1. PICK r \in {"ok", "err"} :
             Moved(c, stage[c], r, err[c], db[c]) /\ stage[c] = "pragma"
      BY <2>1, <2>2, <2>4 DEF ServePragma, Moved
    <3>2. Owner(stage[c], r, err[c], db[c], dead)
      BY <3>1, <2>1 DEF Owner, Replied
    <3> QED
      BY <3>1, <3>2, <2>2, <1>1, OneMoves
  <2>5. CASE ServeClose(c)
    <3>1. PICK r : /\ Moved(c, stage[c], r, err[c], "closed")
                   /\ r = IF dead THEN reply[c] ELSE "ok"
      BY <2>1, <2>2, <2>5 DEF ServeClose, Moved
    <3>2. Owner(stage[c], r, err[c], "closed", dead)
      BY <3>1, <2>1 DEF Owner, Replied, Kept
    <3> QED
      BY <3>1, <3>2, <2>2, <1>1, OneMoves
  <2> QED
    BY <1>6, <2>3, <2>4, <2>5 DEF Serves
<1> QED
  BY <1>2, <1>4, <1>5, <1>6

(* OwnedInv holds in every state of every instance.                        *)
THEOREM OwnedInvariant == ConnectorSpec => []OwnedInv
<1>1. ConnectorInit => OwnedInv
  BY DEF ConnectorInit, OwnedInv, Owner, Stages, Replied, Errors, Kept
<1>2. (ConnectorIInv /\ OwnedInv) /\ [ConnectorNext]_connectorVars => OwnedInv'
  <2> SUFFICES ASSUME ConnectorIInv, OwnedInv, [ConnectorNext]_connectorVars PROVE OwnedInv'
    OBVIOUS
  <2>1. CASE ConnectorNext
    BY <2>1, OwnedCaller, OwnedRest DEF ConnectorNext
  <2>2. CASE UNCHANGED connectorVars
    BY <2>2 DEF connectorVars, ownVars, attemptVars, OwnedInv
  <2> QED
    BY <2>1, <2>2
<1> QED
  BY <1>1, <1>2, ConnectorInvariant, PTL DEF ConnectorSpec

(* A database that is open on the worker has a connection, or a Connect    *)
(* that will return it or close it, unless its caller left while it waited *)
(* (connector.go, Connect): whatever fails, and whenever.                  *)
THEOREM DatabasesHaveOwners == ConnectorSpec => []DatabasesOwned
<1>1. OwnedInv => DatabasesOwned
  BY DEF OwnedInv, DatabasesOwned, Owner
<1> QED
  BY <1>1, OwnedInvariant, PTL

-----------------------------------------------------------------------------
(* Types of the connector.                                                 *)

Closers == {"idle", "waiting", "returned"}
Lives == {"none", "loading", "serving", "refusing", "gone"}
Contexts == {"live", "done"}

(* What the invariants before say nothing of; and while the Once runs      *)
(* there is a caller that runs it.                                         *)
RestInv ==
    /\ dead \in BOOLEAN /\ worker \in Lives /\ closer \in Closers
    /\ context \in [Attempt -> Contexts]
    /\ owner = "none" => cfg = Null
    /\ once = "running" => \E c \in Attempt : stage[c] = "spawning"

(* The steps that leave the Once, and whoever runs it, alone.              *)
LEMMA RestQuiet ==
    ASSUME ConnectorIInv, RestInv, once' = once, UNCHANGED <<worker, closer, owner, cfg>>,
           dead' \in BOOLEAN, context' \in [Attempt -> Contexts],
           \/ stage' = stage
           \/ \E c \in Attempt, s \in Stages :
                 stage[c] # "spawning" /\ stage' = [stage EXCEPT ![c] = s]
    PROVE  RestInv'
<1>1. ASSUME NEW d \in Attempt, stage[d] = "spawning" PROVE stage'[d] = "spawning"
  <2>1. CASE stage' = stage
    BY <1>1, <2>1
  <2>2. ASSUME NEW c \in Attempt, NEW s \in Stages,
               stage[c] # "spawning", stage' = [stage EXCEPT ![c] = s]
        PROVE  stage'[d] = "spawning"
    BY <1>1, <2>2 DEF ConnectorIInv
  <2> QED
    BY <2>1, <2>2
<1>2. once' = "running" => \E c \in Attempt : stage'[c] = "spawning"
  BY <1>1 DEF RestInv
<1> QED
  BY <1>2 DEF RestInv

(* The steps of a caller of Connect, and of its context.                   *)
LEMMA RestCaller ==
    ASSUME ConnectorIInv, RestInv, NEW c \in Attempt,
           Call(c) \/ ContextEnds(c) \/ ReleaseConn(c) \/ Goes(c)
    PROVE  RestInv'
<1>1. {"ensure", "spawning", "opening", "pragma", "has", "undo", "closing", "disown",
       "failed", "closed"} \subseteq Stages
  BY DEF Stages, Asks
<1>2. /\ dead \in BOOLEAN /\ context \in [Attempt -> Contexts]
      /\ Disowned(c) \in Stages
  BY <1>1 DEF RestInv, Disowned
<1>3. CASE Call(c)
  <2>1. /\ stage[c] # "spawning" /\ stage' = [stage EXCEPT ![c] = "ensure"]
        /\ UNCHANGED <<once, worker, closer, owner, cfg, dead, context>>
    BY <1>3 DEF Call, ownVars
  <2> QED
    BY <2>1, <1>1, <1>2, RestQuiet
<1>4. CASE ContextEnds(c)
  <2>1. /\ stage' = stage /\ context' = [context EXCEPT ![c] = "done"]
        /\ UNCHANGED <<once, worker, closer, owner, cfg, dead>>
    BY <1>4 DEF ContextEnds, ownVars
  <2>2. context' \in [Attempt -> Contexts]
    BY <2>1, <1>2 DEF Contexts
  <2> QED
    BY <2>1, <2>2, <1>2, RestQuiet
<1>5. CASE Claim(c)
  <2>1. /\ UNCHANGED <<owner, cfg, dead, context, closer>>
        /\ owner # "none"
    BY <1>5, Owned DEF Claim
  <2>2. CASE once' = "running" /\ worker' = "loading"
             /\ stage' = [stage EXCEPT ![c] = "spawning"]
    <3>1. stage'[c] = "spawning"
      BY <2>2 DEF ConnectorIInv
    <3> QED
      BY <2>1, <2>2, <3>1 DEF RestInv, Lives
  <2>3. CASE once' = "done" /\ UNCHANGED worker
    BY <2>1, <2>3 DEF RestInv
  <2> QED
    BY <1>5, <2>2, <2>3 DEF Claim
<1>6. CASE Spawned(c)
  <2>1. once' = "done" /\ UNCHANGED <<owner, cfg, dead, worker, context, closer>>
    BY <1>6 DEF Spawned
  <2> QED
    BY <2>1 DEF RestInv
<1>7. CASE GiveUp(c) \/ Refused(c)
  <2>1. /\ once' = "done" /\ dead' = TRUE /\ worker' = "gone"
        /\ UNCHANGED <<owner, cfg, context, closer>>
    BY <1>7 DEF GiveUp, Refused, SpawnFails, Terminate
  <2> QED
    BY <2>1 DEF RestInv, Lives
<1>8. CASE \/ Enter(c) \/ Opened(c) \/ OpenFails(c) \/ PragmaDone(c) \/ PragmaFails(c)
           \/ UndoOver(c) \/ ReleaseConn(c) \/ ConnClosed(c)
  <2>1. /\ stage[c] # "spawning"
        /\ UNCHANGED <<once, worker, closer, owner, cfg, dead, context>>
    BY <1>8 DEF Enter, Opened, OpenFails, PragmaDone, PragmaFails, UndoOver, ReleaseConn,
                ConnClosed, ownVars
  <2>2. \E s \in Stages : stage' = [stage EXCEPT ![c] = s]
    <3>1. CASE Enter(c)
      BY <3>1, <1>1, <1>2 DEF Enter, Ask, Fail
    <3>2. CASE Opened(c) \/ PragmaDone(c)
      BY <3>2, <1>1 DEF Opened, PragmaDone, Ask
    <3>3. CASE OpenFails(c) \/ UndoOver(c)
      BY <3>3, <1>2 DEF OpenFails, UndoOver, Fail
    <3>4. CASE PragmaFails(c) \/ ReleaseConn(c)
      BY <3>4, <1>1 DEF PragmaFails, ReleaseConn, Undo, CloseDb, Ask
    <3>5. CASE ConnClosed(c)
      BY <3>5, <1>1 DEF ConnClosed
    <3> QED
      BY <1>8, <3>1, <3>2, <3>3, <3>4, <3>5
  <2> QED
    BY <2>1, <2>2, <1>2, RestQuiet
<1>9. CASE Disown(c)
  <2>1. stage[c] = "disown" /\ UNCHANGED <<owner, cfg, once, context, closer>>
    BY <1>9 DEF Disown
  <2>2. once # "running"
    BY <2>1 DEF ConnectorIInv, OnceInv
  <2>3. dead' \in BOOLEAN /\ worker' \in Lives
    BY <1>9 DEF Disown, Terminate, Leave, RestInv, Lives
  <2> QED
    BY <2>1, <2>2, <2>3 DEF RestInv
<1> QED
  BY <1>3, <1>4, <1>5, <1>6, <1>7, <1>8, <1>9 DEF Goes

(* The steps of the owner and of the worker.                               *)
LEMMA RestOthers ==
    ASSUME ConnectorIInv, RestInv,
           \/ NewConnector \/ Close \/ CloseDone \/ Starts \/ WorkerFails
           \/ \E c \in Attempt : Serves(c)
    PROVE  RestInv'
<1>1. CASE NewConnector
  <2>1. owner' # "none" /\ UNCHANGED <<once, dead, worker, stage, context, closer>>
    BY <1>1 DEF NewConnector, attemptVars
  <2> QED
    BY <2>1 DEF RestInv
<1>2. CASE Close
  BY <1>2 DEF Close, ownVars, attemptVars, RestInv, Closers
<1>3. CASE CloseDone
  <2>1. /\ closer' = "returned" /\ UNCHANGED <<owner, cfg, stage, context>>
        /\ once # "running" /\ once' # "running"
    BY <1>3 DEF CloseDone, OnceOver
  <2>2. dead' \in BOOLEAN /\ worker' \in Lives
    BY <1>3 DEF CloseDone, Terminate, Leave, RestInv, Lives
  <2> QED
    BY <2>1, <2>2 DEF RestInv, Closers
<1>4. CASE Starts
  <2>1. worker' \in Lives /\ UNCHANGED <<owner, cfg, once, dead, stage, context, closer>>
    BY <1>4 DEF Starts, ownVars, attemptVars, Lives
  <2> QED
    BY <2>1 DEF RestInv
<1>5. CASE WorkerFails
  <2>1. dead' = TRUE /\ UNCHANGED <<owner, cfg, once, worker, stage, context, closer>>
    BY <1>5 DEF WorkerFails
  <2> QED
    BY <2>1 DEF RestInv
<1>6. ASSUME NEW c \in Attempt, Serves(c) PROVE RestInv'
  <2>1. UNCHANGED <<owner, cfg, once, dead, worker, stage, context, closer>>
    BY <1>6 DEF Serves, ServeOpen, ServePragma, ServeClose, ownVars
  <2> QED
    BY <2>1 DEF RestInv
<1> QED
  BY <1>1, <1>2, <1>3, <1>4, <1>5, <1>6

(* One caller spawns while the Once runs, and none otherwise.              *)
LEMMA OneSpawns ==
    ASSUME ConnectorIInv, RestInv
    PROVE  Cardinality({c \in Attempt : stage[c] = "spawning"})
             = IF once = "running" THEN 1 ELSE 0
<1> DEFINE S == {c \in Attempt : stage[c] = "spawning"}
<1>1. CASE once = "running"
  <2>1. PICK c \in Attempt : stage[c] = "spawning"
    BY <1>1 DEF RestInv
  <2>2. S = {c}
    BY <2>1 DEF ConnectorIInv, OnceInv
  <2>3. Cardinality({c}) = 1
    BY FS_Singleton
  <2> QED
    BY <1>1, <2>2, <2>3
<1>2. CASE once # "running"
  <2>1. S = {}
    BY <1>2 DEF ConnectorIInv, OnceInv
  <2>2. Cardinality({}) = 0
    BY FS_EmptySet
  <2> QED
    BY <1>2, <2>1, <2>2
<1> QED
  BY <1>1, <1>2

(* Every variable of Connector keeps its type; there is a configuration    *)
(* once there is a connector (newConnector), and workerOnce is running as  *)
(* long as one caller spawns (connector.go, ensureWorker).                 *)
THEOREM ConnectorTypeCorrect == ConnectorSpec => []ConnectorTypeOK
<1>1. ConnectorInit => RestInv
  BY DEF ConnectorInit, RestInv, Lives, Closers, Contexts
<1>2. (ConnectorIInv /\ RestInv) /\ [ConnectorNext]_connectorVars => RestInv'
  <2> SUFFICES ASSUME ConnectorIInv, RestInv, [ConnectorNext]_connectorVars PROVE RestInv'
    OBVIOUS
  <2>1. CASE ConnectorNext
    BY <2>1, RestCaller, RestOthers DEF ConnectorNext
  <2>2. CASE UNCHANGED connectorVars
    BY <2>2 DEF connectorVars, ownVars, attemptVars, RestInv
  <2> QED
    BY <2>1, <2>2
<1>3. ConnectorIInv /\ OwnedInv /\ RestInv => ConnectorTypeOK
  <2> SUFFICES ASSUME ConnectorIInv, OwnedInv, RestInv PROVE ConnectorTypeOK
    OBVIOUS
  <2>1. owner = "none" <=> cfg = Null
    <3>1. owner # "none" => \E d \in DSNs : cfg \in ParseDSN(d)
      BY DEF ConnectorIInv, MadeInv
    <3> QED
      BY <3>1, NullAssumption DEF RestInv
  <2>2. owner \in {"none", "sql.DB", "conn"} /\ once \in {"free", "running", "done"}
    BY DEF ConnectorIInv, MadeInv, OnceInv
  <2>3. /\ workerErr \in {"none", "deadline", "failed", "closed"}
        /\ reply \in [Attempt -> {"none", "ok", "err"}]
        /\ err \in [Attempt -> {"none", "deadline", "left", "failed", "closed"}]
    BY DEF OwnedInv, Errors, Replied
  <2>4. /\ stage \in [Attempt -> Asks \cup {"idle", "ensure", "spawning", "has", "disown",
                                          "failed", "closed"}]
        /\ db \in [Attempt -> {"none", "asked", "open", "closing", "closed"}]
    BY DEF ConnectorIInv, Stages
  <2>5. /\ dead \in BOOLEAN /\ worker \in {"none", "loading", "serving", "refusing", "gone"}
        /\ context \in [Attempt -> {"live", "done"}]
        /\ closer \in {"idle", "waiting", "returned"}
    BY DEF RestInv, Lives, Closers, Contexts
  <2> QED
    BY <2>1, <2>2, <2>3, <2>4, <2>5, OneSpawns DEF ConnectorTypeOK
<1> QED
  BY <1>1, <1>2, <1>3, OwnedInvariant, ConnectorInvariant, PTL DEF ConnectorSpec

-----------------------------------------------------------------------------
(* The locks of several connections.                                       *)

Statements == {"read", "write", "temp"}
Words == Statements \cup {"BEGIN DEFERRED", "BEGIN IMMEDIATE", "BEGIN EXCLUSIVE",
                          "commit", "rollback"}
Function(f) == f = [c \in Conns |-> f[c]]

BusyTypes ==
    /\ kind \in [Conns -> Methods \cup {"none"}]
    /\ text \in [Conns -> Seq(Words)]
    /\ at \in [Conns -> {"idle", "asked", "backoff"}]
    /\ posted \in [Conns -> BOOLEAN]
    /\ result \in [Conns -> {"none", "ok", "busy"}]
    /\ txn \in [Conns -> {"none", "rw", "ro"}]
    /\ lock \in [Conns -> {"none", "shared", "write"}]
    /\ streaming \in [Conns -> BOOLEAN]
    /\ Function(attempt) /\ Function(applied)

(* The text of a call of each kind; what retry is around is one statement. *)
TextOf(c) ==
    /\ kind[c] \in {"stmt", "query"} => text[c] \in {<<"read">>, <<"write">>}
    /\ kind[c] = "script" => text[c] \in Seq(Statements)
    /\ kind[c] = "begin" => text[c] = <<TxBeginStatement([TxLock |-> txlock])>>

(* A request that is posted has no answer and no effect yet; one that will *)
(* be posted again is a single statement that was refused.                 *)
Fresh(c) == \A i \in DOMAIN text[c] : applied[c][i] = 0
RequestInv(c) ==
    /\ applied[c] \in [DOMAIN text[c] -> Nat]
    /\ posted[c] => result[c] = "none" /\ Fresh(c)
    /\ at[c] = "backoff" => result[c] = "busy" /\ Retried(c)

(* A transaction that took its lock when it began has it.                  *)
LockInv(c) == txn[c] = "rw" => txlock = "deferred" \/ lock[c] = "write"

(* Before there is a configuration nothing is called.                      *)
UnusedInv(c) == txlock = "none" => kind[c] = "none" /\ ~posted[c] /\ txn[c] = "none"

(* AppliedOnce and NoUpgrade of one connection.                            *)
Once(c) ==
    /\ \A i \in DOMAIN applied[c] : applied[c][i] <= 1
    /\ result[c] = "ok" => \A i \in DOMAIN applied[c] : applied[c][i] = 1
    /\ result[c] = "busy" /\ Len(text[c]) = 1 => applied[c] = <<0>>
Holds(c) ==
    result[c] = "busy" /\ kind[c] \in {"stmt", "query", "script"} /\ txn[c] = "rw"
    => txlock = "deferred"

ConnInv(c) == TextOf(c) /\ RequestInv(c) /\ LockInv(c) /\ UnusedInv(c) /\ Once(c) /\ Holds(c)

BusyIInv == BusyTypes /\ \A c \in Conns : ConnInv(c)

-----------------------------------------------------------------------------
(* Steps.                                                                  *)

(* What a connection has is its own: a step of another leaves it alone.    *)
LEMMA Undisturbed ==
    ASSUME NEW d \in Conns, ConnInv(d), txlock' = txlock,
           kind'[d] = kind[d], text'[d] = text[d], at'[d] = at[d], posted'[d] = posted[d],
           result'[d] = result[d], applied'[d] = applied[d], txn'[d] = txn[d],
           lock'[d] = lock[d]
    PROVE  ConnInv(d)'
<1>1. TextOf(d)' /\ LockInv(d)' /\ UnusedInv(d)' /\ Holds(d)'
  BY DEF ConnInv, TextOf, LockInv, UnusedInv, Holds
<1>2. RequestInv(d)' /\ Once(d)'
  BY DEF ConnInv, RequestInv, Once, Fresh, Retried
<1> QED
  BY <1>1, <1>2 DEF ConnInv

(* A sequence of one word.                                                 *)
LEMMA Single == ASSUME NEW S, NEW x \in S PROVE <<x>> \in Seq(S)
  OBVIOUS

(* A sequence of words is one of any larger set of words.                  *)
LEMMA Wider == ASSUME NEW S, NEW U, S \subseteq U, NEW s \in Seq(S) PROVE s \in Seq(U)
  OBVIOUS

(* The text of a call is a sequence of words of its kind.                  *)
LEMMA TextsType ==
    ASSUME NEW call \in Methods, NEW t, NEW s \in Texts(call, t)
    PROVE  /\ s \in Seq(Words)
           /\ call \in {"stmt", "query"} => s \in {<<"read">>, <<"write">>}
           /\ call = "script" => s \in Seq(Statements)
           /\ call = "begin" => s = <<TxBeginStatement([TxLock |-> txlock])>>
<1>1. CASE call \in {"stmt", "query"}
  <2>1. s \in {<<"read">>, <<"write">>}
    BY <1>1 DEF Texts
  <2>2. "read" \in Words /\ "write" \in Words
    BY DEF Words, Statements
  <2>3. s \in Seq(Words)
    BY <2>1, <2>2, Single
  <2> QED
    BY <1>1, <2>1, <2>3
<1>2. CASE call = "script"
  <2>1. s \in Scripts
    BY <1>2 DEF Texts
  <2>2. s \in Seq(Statements)
    BY <2>1, ScriptsAssumption DEF Statements
  <2>3. s \in Seq(Words)
    BY <2>2, Wider DEF Words
  <2> QED
    BY <1>2, <2>2, <2>3
<1>3. CASE call = "begin"
  <2>1. s = <<TxBeginStatement([TxLock |-> txlock])>>
    BY <1>3 DEF Texts
  <2>2. TxBeginStatement([TxLock |-> txlock]) \in Words
    BY DEF TxBeginStatement, Words
  <2> QED
    BY <1>3, <2>1, <2>2
<1>4. CASE call = "beginRO"
  <2>1. s = <<"BEGIN DEFERRED">>
    BY <1>4 DEF Texts
  <2>2. s \in Seq(Words)
    BY <2>1, Single DEF Words
  <2> QED
    BY <1>4, <2>2
<1>5. CASE call \in Ends
  <2>1. s = <<call>>
    BY <1>5 DEF Texts, Ends
  <2>2. s \in Seq(Words)
    BY <1>5, <2>1, Single DEF Ends, Words
  <2> QED
    BY <1>5, <2>2 DEF Ends
<1> QED
  BY <1>1, <1>2, <1>3, <1>4, <1>5 DEF Methods, Begins

(* A call begins.                                                          *)
LEMMA IssueStep ==
    ASSUME BusyIInv, NEW c \in Conns, NEW call \in Methods, Issue(c, call)
    PROVE  BusyIInv'
<1>1. PICK t \in Texts(call, txn[c]) :
          /\ text' = [text EXCEPT ![c] = t]
          /\ applied' = [applied EXCEPT ![c] = [i \in DOMAIN t |-> 0]]
  BY DEF Issue
<1>2. /\ t \in Seq(Words)
      /\ call \in {"stmt", "query"} => t \in {<<"read">>, <<"write">>}
      /\ call = "script" => t \in Seq(Statements)
      /\ call = "begin" => t = <<TxBeginStatement([TxLock |-> txlock])>>
  BY TextsType
<1>3. /\ kind' = [kind EXCEPT ![c] = call] /\ attempt' = [attempt EXCEPT ![c] = 0]
      /\ posted' = [posted EXCEPT ![c] = TRUE] /\ at' = [at EXCEPT ![c] = "asked"]
      /\ result' = [result EXCEPT ![c] = "none"]
      /\ txlock # "none" /\ UNCHANGED <<txlock, txn, lock, streaming>>
  BY DEF Issue, Submit, lockVars
<1>4. BusyTypes'
  BY <1>1, <1>2, <1>3 DEF BusyIInv, BusyTypes, Function
<1>5. ASSUME NEW d \in Conns, d # c PROVE ConnInv(d)'
  BY <1>1, <1>3, <1>5, Undisturbed DEF BusyIInv, BusyTypes, Function
<1>6. ConnInv(c)'
  <2>1. /\ text'[c] = t /\ kind'[c] = call /\ result'[c] = "none" /\ at'[c] = "asked"
        /\ applied'[c] = [i \in DOMAIN t |-> 0]
    BY <1>1, <1>3 DEF BusyIInv, BusyTypes, Function
  <2>2. TextOf(c)'
    BY <1>2, <1>3, <2>1 DEF TextOf
  <2>3. RequestInv(c)' /\ Once(c)'
    BY <2>1 DEF RequestInv, Fresh, Once
  <2>4. LockInv(c)' /\ UnusedInv(c)' /\ Holds(c)'
    BY <1>3, <2>1 DEF BusyIInv, ConnInv, LockInv, UnusedInv, Holds
  <2> QED
    BY <2>2, <2>3, <2>4 DEF ConnInv
<1> QED
  BY <1>4, <1>5, <1>6 DEF BusyIInv

(* A call returns, waits for its backoff or is given up, and rows end: no  *)
(* statement takes effect.                                                 *)
LEMMA ReturnStep ==
    ASSUME BusyIInv, NEW c \in Conns, Returns(c) \/ Abandon(c) \/ RowsEnd(c)
    PROVE  BusyIInv'
<1>1. UNCHANGED <<txlock, kind, text, posted, attempt, applied, txn>>
  BY DEF Returns, Abandon, RowsEnd, requestVars, lockVars
<1>2. BusyTypes'
  <2>1. BusyTypes
    BY DEF BusyIInv
  <2>2. /\ at' \in [Conns -> {"idle", "asked", "backoff"}]
        /\ result' \in [Conns -> {"none", "ok", "busy"}]
    BY <2>1 DEF Returns, Abandon, RowsEnd, requestVars, BusyTypes
  <2>3. /\ lock' \in [Conns -> {"none", "shared", "write"}]
        /\ streaming' \in [Conns -> BOOLEAN]
    BY <2>1 DEF Returns, Abandon, RowsEnd, lockVars, BusyTypes
  <2> QED
    BY <2>1, <2>2, <2>3, <1>1 DEF BusyTypes, Function
<1>3. ASSUME NEW d \in Conns, d # c PROVE ConnInv(d)'
  <2>1. at'[d] = at[d] /\ result'[d] = result[d] /\ lock'[d] = lock[d]
    BY <1>3 DEF Returns, Abandon, RowsEnd, requestVars, lockVars, BusyIInv, BusyTypes
  <2> QED
    BY <1>1, <2>1, Undisturbed DEF BusyIInv
<1>4. ConnInv(c)'
  <2>1. TextOf(c)' /\ UnusedInv(c)'
    BY <1>1 DEF BusyIInv, ConnInv, TextOf, UnusedInv
  <2>2. result'[c] = result[c] \/ result'[c] = "none"
    BY DEF Returns, Abandon, RowsEnd, requestVars, BusyIInv, BusyTypes
  <2>3. at'[c] = "backoff" => result'[c] = "busy" /\ Retried(c)
    BY DEF Returns, Abandon, RowsEnd, requestVars, BusyIInv, BusyTypes, ConnInv, RequestInv
  <2>4. RequestInv(c)' /\ Once(c)'
    BY <1>1, <2>2, <2>3 DEF BusyIInv, ConnInv, RequestInv, Once, Fresh, Retried
  <2>5. lock'[c] = lock[c] \/ txn[c] = "none"
    BY DEF Returns, Abandon, RowsEnd, lockVars, BusyIInv, BusyTypes
  <2>6. LockInv(c)' /\ Holds(c)'
    BY <1>1, <2>2, <2>5 DEF BusyIInv, ConnInv, LockInv, Holds
  <2> QED
    BY <2>1, <2>4, <2>6 DEF ConnInv
<1> QED
  BY <1>2, <1>3, <1>4 DEF BusyIInv

(* A call is run again: it is one statement, which took no effect.         *)
LEMMA AgainStep ==
    ASSUME BusyIInv, NEW c \in Conns, Again(c)
    PROVE  BusyIInv'
<1>1. /\ UNCHANGED <<txlock, kind, text, applied, txn, lock, streaming>>
      /\ attempt' = [attempt EXCEPT ![c] = @ + 1]
      /\ posted' = [posted EXCEPT ![c] = TRUE] /\ at' = [at EXCEPT ![c] = "asked"]
      /\ result' = [result EXCEPT ![c] = "none"] /\ at[c] = "backoff"
  BY DEF Again, Submit, lockVars
<1>2. BusyTypes'
  BY <1>1 DEF BusyIInv, BusyTypes, Function
<1>3. ASSUME NEW d \in Conns, d # c PROVE ConnInv(d)'
  <2>1. at'[d] = at[d] /\ result'[d] = result[d] /\ posted'[d] = posted[d]
    BY <1>1, <1>3 DEF BusyIInv, BusyTypes
  <2> QED
    BY <1>1, <2>1, Undisturbed DEF BusyIInv
<1>4. ConnInv(c)'
  <2>1. at'[c] = "asked" /\ result'[c] = "none"
    BY <1>1 DEF BusyIInv, BusyTypes
  <2>2. result[c] = "busy" /\ text[c] \in {<<"read">>, <<"write">>}
    BY <1>1 DEF BusyIInv, ConnInv, RequestInv, Retried, TextOf
  <2>3. Len(text[c]) = 1 /\ DOMAIN text[c] = {1}
    BY <2>2
  <2>4. applied[c] = <<0>>
    BY <2>2, <2>3 DEF BusyIInv, ConnInv, Once
  <2>5. Fresh(c)
    BY <2>3, <2>4 DEF Fresh
  <2>6. RequestInv(c)' /\ Once(c)'
    BY <1>1, <2>1, <2>5 DEF BusyIInv, ConnInv, RequestInv, Once, Fresh
  <2>7. kind[c] # "none"
    BY <1>1 DEF BusyIInv, ConnInv, RequestInv, Retried
  <2>8. TextOf(c)' /\ LockInv(c)' /\ UnusedInv(c)' /\ Holds(c)'
    BY <1>1, <2>1, <2>7 DEF BusyIInv, ConnInv, TextOf, LockInv, UnusedInv, Holds
  <2> QED
    BY <2>6, <2>8 DEF ConnInv
<1> QED
  BY <1>2, <1>3, <1>4 DEF BusyIInv

(* A statement of a transaction that has the write lock is not refused.    *)
LEMMA WriterNotRefused ==
    ASSUME NEW c \in Conns, lock[c] = "write", NEW t \in Seq(Statements),
           NEW i \in 1..Len(t)
    PROVE  ~MayRefuse(c, t, i)
<1>1. t[i] \in Statements
  OBVIOUS
<1>2. LockAt(c, t, i - 1) = "write"
  BY DEF LockAt
<1> QED
  BY <1>1, <1>2 DEF MayRefuse, Refuses, Statements

(* What executing the first n statements of a request leaves of the locks. *)
LEMMA RunLocks ==
    ASSUME BusyIInv, NEW c \in Conns, NEW n \in 0..MaxText, Run(c, n)
    PROVE  /\ txn' \in [Conns -> {"none", "rw", "ro"}]
           /\ lock' \in [Conns -> {"none", "shared", "write"}]
           /\ streaming' \in [Conns -> BOOLEAN]
           /\ \A d \in Conns \ {c} : txn'[d] = txn[d] /\ lock'[d] = lock[d]
           /\ LockInv(c)'
           /\ kind[c] \in {"stmt", "query", "script"} => txn'[c] = txn[c]
<1> DEFINE t == text[c]
<1>1. n \in Nat /\ BusyTypes /\ ConnInv(c) /\ posted[c] /\ txlock' = txlock
  <2>1. posted[c] /\ txlock' = txlock
    BY DEF Run
  <2> QED
    BY <2>1 DEF BusyIInv
<1>2. LockAt(c, t, n) \in {"none", "shared", "write"}
  BY <1>1 DEF BusyTypes, LockAt
<1>3. PICK x : /\ txn' = [txn EXCEPT ![c] = x]
               /\ x = IF n = 0 THEN txn[c]
                      ELSE IF kind[c] = "begin" THEN "rw"
                      ELSE IF kind[c] = "beginRO" THEN "ro"
                      ELSE IF kind[c] \in Ends THEN "none" ELSE txn[c]
  BY DEF Run
<1>4. x \in {"none", "rw", "ro"} /\ (kind[c] \in {"stmt", "query", "script"} => x = txn[c])
  BY <1>1, <1>3 DEF BusyTypes, Ends
<1>5. PICK y : /\ lock' = [lock EXCEPT ![c] = y]
               /\ y = IF n = 0 THEN lock[c]
                      ELSE IF t[1] \in {"BEGIN IMMEDIATE", "BEGIN EXCLUSIVE"} THEN "write"
                      ELSE IF kind[c] \in Ends THEN "none"
                      ELSE IF streaming'[c] /\ txn[c] = "none" THEN "shared"
                      ELSE LockAt(c, t, n)
  BY DEF Run
<1>6. y \in {"none", "shared", "write"}
  <2>1. lock[c] \in {"none", "shared", "write"}
    BY <1>1 DEF BusyTypes
  <2> HIDE DEF t
  <2> QED
    BY <1>2, <1>5, <2>1
<1>7. streaming' \in [Conns -> BOOLEAN]
  BY <1>1 DEF Run, BusyTypes
<1>8. x = "rw" => txlock = "deferred" \/ y = "write"
  <2> SUFFICES ASSUME x = "rw", txlock # "deferred" PROVE y = "write"
    OBVIOUS
  <2>1. CASE n = 0
    BY <1>1, <1>3, <1>5, <2>1 DEF ConnInv, LockInv
  <2>2. CASE n # 0 /\ kind[c] = "begin"
    <3>1. t = <<TxBeginStatement([TxLock |-> txlock])>>
      BY <1>1, <2>2 DEF ConnInv, TextOf
    <3>2. TxBeginStatement([TxLock |-> txlock]) \in {"BEGIN IMMEDIATE", "BEGIN EXCLUSIVE"}
      BY DEF TxBeginStatement
    <3>3. t[1] \in {"BEGIN IMMEDIATE", "BEGIN EXCLUSIVE"}
      <4>1. PICK b \in {"BEGIN IMMEDIATE", "BEGIN EXCLUSIVE"} : t = <<b>>
        BY <3>1, <3>2
      <4>2. <<b>>[1] = b
        OBVIOUS
      <4> HIDE DEF t
      <4> QED
        BY <4>1, <4>2
    <3> QED
      BY <1>5, <2>2, <3>3 DEF Ends
  <2>3. CASE n # 0 /\ kind[c] # "begin"
    <3>1. kind[c] \notin Ends /\ txn[c] = "rw"
      BY <1>3, <2>3
    <3>2. lock[c] = "write"
      BY <1>1, <3>1 DEF ConnInv, LockInv
    <3>3. LockAt(c, t, n) = "write"
      BY <3>2 DEF LockAt
    <3> QED
      BY <1>5, <2>3, <3>1, <3>3
  <2> QED
    BY <2>1, <2>2, <2>3
<1>9. txn'[c] = x /\ lock'[c] = y
  BY <1>1, <1>3, <1>5 DEF BusyTypes
<1> QED
  BY <1>1, <1>3, <1>4, <1>5, <1>6, <1>7, <1>8, <1>9 DEF BusyTypes, LockInv

(* The worker executes a request: its first n statements take effect.      *)
LEMMA RunStep ==
    ASSUME BusyIInv, NEW c \in Conns, NEW n \in 0..MaxText, Run(c, n)
    PROVE  BusyIInv'
<1> DEFINE t == text[c]
           asked == at[c] = "asked"
<1>1. /\ n \in Nat /\ n <= Len(t) /\ posted[c]
      /\ n < Len(t) => ~asked \/ MayRefuse(c, t, n + 1)
      /\ posted' = [posted EXCEPT ![c] = FALSE]
      /\ applied' = [applied EXCEPT ![c] =
                       [i \in DOMAIN t |-> IF i <= n THEN applied[c][i] + 1 ELSE applied[c][i]]]
      /\ result' = [result EXCEPT ![c] =
                      IF ~asked THEN result[c] ELSE IF n = Len(t) THEN "ok" ELSE "busy"]
      /\ UNCHANGED <<txlock, kind, text, at, attempt>>
  <2>1. n \in Nat
    OBVIOUS
  <2>2. n <= Len(t) /\ posted[c] /\ (n < Len(t) => ~asked \/ MayRefuse(c, t, n + 1))
    BY DEF Run
  <2>3. /\ posted' = [posted EXCEPT ![c] = FALSE]
        /\ UNCHANGED <<txlock, kind, text, at, attempt>>
    BY DEF Run
  <2>4. applied' = [applied EXCEPT ![c] =
                      [i \in DOMAIN t |-> IF i <= n THEN applied[c][i] + 1 ELSE applied[c][i]]]
    BY DEF Run
  <2>5. result' = [result EXCEPT ![c] =
                     IF ~asked THEN result[c] ELSE IF n = Len(t) THEN "ok" ELSE "busy"]
    BY DEF Run
  <2> QED
    BY <2>1, <2>2, <2>3, <2>4, <2>5
<1>2. BusyTypes /\ ConnInv(c) /\ t \in Seq(Words) /\ DOMAIN t = 1..Len(t) /\ Len(t) \in Nat
  BY DEF BusyIInv, BusyTypes
<1>3. result[c] = "none" /\ at[c] # "backoff" /\ \A i \in DOMAIN t : applied[c][i] = 0
  BY <1>1, <1>2 DEF ConnInv, RequestInv, Fresh
<1>4. BusyTypes'
  BY <1>1, <1>2, RunLocks DEF BusyTypes, Function
<1>5. ASSUME NEW d \in Conns, d # c PROVE ConnInv(d)'
  <2>1. /\ posted'[d] = posted[d] /\ applied'[d] = applied[d] /\ result'[d] = result[d]
        /\ txn'[d] = txn[d] /\ lock'[d] = lock[d]
    BY <1>1, <1>2, <1>5, RunLocks DEF BusyTypes, Function
  <2> QED
    BY <1>1, <2>1, Undisturbed DEF BusyIInv
<1>6. ConnInv(c)'
  <2>1. /\ applied'[c] = [i \in DOMAIN t |-> IF i <= n THEN 1 ELSE 0]
        /\ ~posted'[c]
        /\ result'[c] = IF ~asked THEN "none" ELSE IF n = Len(t) THEN "ok" ELSE "busy"
    BY <1>1, <1>2, <1>3 DEF BusyTypes, Function
  <2>2. TextOf(c)' /\ LockInv(c)'
    BY <1>1, <1>2, RunLocks DEF ConnInv, TextOf
  <2>3. RequestInv(c)'
    BY <1>1, <1>3, <2>1 DEF RequestInv
  <2>4. Once(c)'
    <3>1. result'[c] = "ok" => \A i \in DOMAIN t : i <= n
      BY <1>2, <2>1
    <3>2. ASSUME result'[c] = "busy", Len(t) = 1 PROVE applied'[c] = <<0>>
      <4>1. n = 0 /\ DOMAIN t = {1}
        BY <1>1, <1>2, <2>1, <3>2
      <4> QED
        BY <2>1, <4>1
    <3> QED
      BY <1>1, <2>1, <3>1, <3>2 DEF Once
  <2>5. UnusedInv(c)'
    BY <1>1, <1>2 DEF ConnInv, UnusedInv
  <2>6. Holds(c)'
    <3> SUFFICES ASSUME result'[c] = "busy", kind[c] \in {"stmt", "query", "script"},
                        txn'[c] = "rw", txlock # "deferred"
                 PROVE  FALSE
      BY <1>1 DEF Holds
    <3>1. txn[c] = "rw"
      BY RunLocks
    <3>2. lock[c] = "write"
      BY <1>2, <3>1 DEF ConnInv, LockInv
    <3>3. t \in Seq(Statements)
      <4>1. "read" \in Statements /\ "write" \in Statements
        BY DEF Statements
      <4>2. t \in {<<"read">>, <<"write">>} => t \in Seq(Statements)
        BY <4>1, Single
      <4> QED
        BY <1>2, <4>2 DEF ConnInv, TextOf
    <3>4. asked /\ n < Len(t)
      BY <1>1, <1>2, <2>1
    <3>5. n + 1 \in 1..Len(t)
      BY <1>1, <1>2, <3>4
    <3> QED
      BY <1>1, <3>2, <3>3, <3>4, <3>5, WriterNotRefused
  <2> QED
    BY <2>2, <2>3, <2>4, <2>5, <2>6 DEF ConnInv
<1> QED
  BY <1>4, <1>5, <1>6 DEF BusyIInv

-----------------------------------------------------------------------------
(* Theorems.                                                               *)

(* The invariant is inductive: it holds in every state of every instance.  *)
THEOREM BusyInvariant == BusySpec => []BusyIInv
<1>1. BusyInit => BusyIInv
  <2> SUFFICES ASSUME BusyInit PROVE BusyIInv
    OBVIOUS
  <2>1. <<>> \in Seq(Words) /\ DOMAIN <<>> = {} /\ Len(<<>>) = 0
    OBVIOUS
  <2>2. BusyTypes
    BY <2>1 DEF BusyInit, BusyTypes, Function
  <2>3. ASSUME NEW c \in Conns PROVE ConnInv(c)
    BY <2>1 DEF BusyInit, ConnInv, TextOf, RequestInv, Fresh, LockInv, UnusedInv, Once, Holds
  <2> QED
    BY <2>2, <2>3 DEF BusyIInv
<1>2. BusyIInv /\ [BusyNext]_busyVars => BusyIInv'
  <2> SUFFICES ASSUME BusyIInv, [BusyNext]_busyVars PROVE BusyIInv'
    OBVIOUS
  <2>1. CASE Configure
    <3>1. txlock = "none" /\ UNCHANGED <<kind, text, at, posted, result, attempt, applied,
                                         txn, lock, streaming>>
      BY <2>1 DEF Configure, requestVars, lockVars
    <3>2. BusyTypes'
      BY <3>1 DEF BusyIInv, BusyTypes, Function
    <3>3. ASSUME NEW c \in Conns PROVE ConnInv(c)'
      <4>1. kind[c] = "none" /\ ~posted[c] /\ txn[c] = "none"
        BY <3>1 DEF BusyIInv, ConnInv, UnusedInv
      <4> QED
        BY <3>1, <4>1 DEF BusyIInv, ConnInv, TextOf, RequestInv, Fresh, Retried, LockInv,
                          UnusedInv, Once, Holds
    <3> QED
      BY <3>2, <3>3 DEF BusyIInv
  <2>2. CASE UNCHANGED busyVars
    <3>1. ASSUME NEW c \in Conns PROVE ConnInv(c)'
      BY <2>2, Undisturbed DEF busyVars, requestVars, lockVars, BusyIInv
    <3> QED
      BY <2>2, <3>1 DEF busyVars, requestVars, lockVars, BusyIInv, BusyTypes, Function
  <2> QED
    BY <2>1, <2>2, IssueStep, ReturnStep, AgainStep, RunStep DEF BusyNext
<1> QED
  BY <1>1, <1>2, PTL DEF BusySpec

(* No statement of a call takes effect twice, for any scripts and however  *)
(* often retry runs the call again: what it is around is one statement,    *)
(* and one that was refused has had no effect.                             *)
THEOREM RetryAppliesOnce == BusySpec => []AppliedOnce
<1>1. BusyIInv => AppliedOnce
  BY DEF BusyIInv, ConnInv, Once, AppliedOnce
<1> QED
  BY <1>1, BusyInvariant, PTL

(* A write transaction of a pool that does not ask for deferred ones gets  *)
(* through to its COMMIT, whatever the other connections do.               *)
THEOREM BegunIsNotRefused == BusySpec => []NoUpgrade
<1>1. BusyIInv => NoUpgrade
  BY DEF BusyIInv, ConnInv, Holds, NoUpgrade
<1> QED
  BY <1>1, BusyInvariant, PTL

-----------------------------------------------------------------------------
(* Types of the calls and their locks.                                     *)

TxLocks == {"none", "immediate", "deferred", "exclusive"}
LastAttempt == RetryAttempts - 1
AttemptInv(c) ==
    /\ attempt[c] \in 0..LastAttempt
    /\ at[c] = "backoff" => attempt[c] # LastAttempt
OneWriter == \A c, d \in Conns : lock[c] = "write" /\ lock[d] = "write" => c = d

(* The configuration is legal, no call is tried too often, and there is    *)
(* one writer.                                                             *)
MoreInv == txlock \in TxLocks /\ (\A c \in Conns : AttemptInv(c)) /\ OneWriter

(* Config.TxLock is one of three words, whatever the DSN says.             *)
LEMMA TxLockIsLegal ==
    ASSUME NEW d \in DSNs, NEW cfg0 \in ParseDSN(d)
    PROVE  cfg0.TxLock \in TxLocks
<1> DEFINE q == Parameters(d)
<1>1. Accepted(q) /\ cfg0.TxLock \in Settings(q, "TxLock", "immediate")
  BY DEF ParseDSN
<1>2. ASSUME NEW k \in DOMAIN q \cap DriverParams, Field(k) = "TxLock"
      PROVE  q[k] \in TxLocks
  <2>1. q[k] \in Legal("TxLock")
    BY <1>1, <1>2 DEF Accepted
  <2> QED
    BY <2>1 DEF Legal, TxLocks
<1>3. \A v \in Settings(q, "TxLock", "immediate") : v \in TxLocks
  BY <1>2 DEF Settings, TxLocks
<1> QED
  BY <1>1, <1>3

(* Of some numbers one is the least.                                       *)
LEMMA Least ==
    ASSUME NEW S \in SUBSET Nat, S # {}
    PROVE  \E n \in S : \A m \in S : n <= m
<1> DEFINE R == OpToRel(<, Nat)
<1>1. IsWellFoundedOn(R, Nat)
  BY NatLessThanWellFounded, Zenon
<1>2. R = {ss \in Nat \X Nat : ss[1] < ss[2]}
  BY DEF OpToRel
<1> HIDE DEF R
<1>3. PICK n \in S : \A m \in S : ~ (<<m, n>> \in R)
  BY <1>1, WFMin
<1>4. ASSUME NEW m \in S PROVE n <= m
  <2>1. m \in Nat /\ n \in Nat
    OBVIOUS
  <2>2. m < n => <<m, n>> \in R
    BY <1>2, <2>1
  <2>3. ~ (m < n)
    BY <1>3, <2>2
  <2> QED
    BY <2>1, <2>3
<1> QED
  BY <1>4

(* Who gets the write lock within a transaction gets it by the first       *)
(* statement that writes.                                                  *)
LEMMA FirstWrite ==
    ASSUME NEW c \in Conns, NEW t, NEW n \in Nat,
           LockAt(c, t, n) = "write", lock[c] # "write"
    PROVE  \E i \in 1..n : t[i] = "write" /\ LockAt(c, t, i - 1) # "write"
<1> DEFINE S == {i \in 1..n : t[i] = "write"}
<1>1. S # {} /\ S \in SUBSET Nat
  BY DEF LockAt
<1>2. PICK i \in S : \A j \in S : i <= j
  BY <1>1, Least
<1>3. i \in 1..n /\ t[i] = "write" /\ \A j \in 1..(i - 1) : t[j] # "write"
  BY <1>2
<1>4. LockAt(c, t, i - 1) # "write"
  BY <1>3 DEF LockAt
<1> QED
  BY <1>3, <1>4

(* A request that runs comes by the write lock only where nobody has it.   *)
LEMMA RunWriter ==
    ASSUME BusyIInv, MoreInv, NEW c \in Conns, NEW n \in 0..MaxText, Run(c, n)
    PROVE  OneWriter'
<1> DEFINE t == text[c]
<1>1. BusyTypes /\ n \in Nat
  BY DEF BusyIInv
<1>2. \A i \in 1..n : ~ Refuses(c, t, i)
  BY DEF Run
<1>3. PICK y : /\ lock' = [lock EXCEPT ![c] = y]
               /\ y = IF n = 0 THEN lock[c]
                      ELSE IF t[1] \in {"BEGIN IMMEDIATE", "BEGIN EXCLUSIVE"} THEN "write"
                      ELSE IF kind[c] \in Ends THEN "none"
                      ELSE IF streaming'[c] /\ txn[c] = "none" THEN "shared"
                      ELSE LockAt(c, t, n)
  BY DEF Run
<1> HIDE DEF t
<1>4. ASSUME y = "write", lock[c] # "write" PROVE "write" \notin Others(c)
  <2>1. n # 0
    BY <1>3, <1>4
  <2>2. CASE t[1] \in {"BEGIN IMMEDIATE", "BEGIN EXCLUSIVE"}
    <3>1. ~ Refuses(c, t, 1)
      BY <1>1, <1>2, <2>1
    <3>2. t[1] = "BEGIN IMMEDIATE" => "write" \notin Others(c)
      BY <3>1 DEF Refuses
    <3>3. t[1] = "BEGIN EXCLUSIVE" => Others(c) = {"none"}
      BY <3>1 DEF Refuses
    <3>4. "write" \notin {"none"}
      OBVIOUS
    <3> QED
      BY <2>2, <3>2, <3>3, <3>4
  <2>3. CASE t[1] \notin {"BEGIN IMMEDIATE", "BEGIN EXCLUSIVE"}
    <3>1. LockAt(c, t, n) = "write"
      BY <1>3, <1>4, <2>1, <2>3
    <3>2. PICK i \in 1..n : t[i] = "write" /\ LockAt(c, t, i - 1) # "write"
      BY <3>1, <1>1, <1>4, FirstWrite
    <3>3. ~ Refuses(c, t, i)
      BY <1>2
    <3> QED
      BY <3>2, <3>3 DEF Refuses
  <2> QED
    BY <2>2, <2>3
<1>5. lock'[c] = y /\ \A d \in Conns \ {c} : lock'[d] = lock[d]
  BY <1>1, <1>3 DEF BusyTypes
<1>6. ASSUME NEW d \in Conns \ {c}, y = "write" PROVE lock[d] # "write"
  <2>1. CASE lock[c] = "write"
    BY <2>1 DEF MoreInv, OneWriter
  <2>2. CASE lock[c] # "write"
    BY <1>4, <1>6, <2>2 DEF Others
  <2> QED
    BY <2>1, <2>2
<1>7. ASSUME NEW d \in Conns, NEW e \in Conns, lock'[d] = "write", lock'[e] = "write"
      PROVE  d = e
  BY <1>5, <1>6, <1>7 DEF MoreInv, OneWriter
<1> QED
  BY <1>7 DEF OneWriter

(* The calls: an attempt more only after one that was not the last.        *)
LEMMA MoreCall ==
    ASSUME BusyIInv, MoreInv, NEW c \in Conns,
           \/ \E call \in Methods : Issue(c, call)
           \/ Returns(c) \/ Again(c) \/ Abandon(c) \/ RowsEnd(c)
    PROVE  MoreInv'
<1>1. BusyTypes /\ txlock' = txlock
  BY DEF BusyIInv, Issue, Returns, Again, Abandon, RowsEnd
<1>2. RetryAttempts \in Nat /\ LastAttempt \in Nat
  BY RetryAssumption DEF LastAttempt
<1>3. ASSUME NEW d \in Conns, d # c PROVE attempt'[d] = attempt[d] /\ at'[d] = at[d]
  BY <1>1, <1>3 DEF BusyTypes, Function, Issue, Submit, Returns, Again, Abandon, RowsEnd,
                    requestVars
<1>4. AttemptInv(c)'
  <2>1. CASE \E call \in Methods : Issue(c, call)
    <3>1. attempt' = [attempt EXCEPT ![c] = 0] /\ at' = [at EXCEPT ![c] = "asked"]
      BY <2>1 DEF Issue, Submit
    <3>2. attempt'[c] = 0 /\ at'[c] = "asked"
      BY <3>1, <1>1 DEF BusyTypes, Function
    <3> QED
      BY <3>2, <1>2 DEF AttemptInv, LastAttempt
  <2>2. CASE Returns(c)
    <3>1. /\ attempt' = attempt
          /\ at'[c] = "backoff" => ~ LastTry(c)
      BY <2>2, <1>1 DEF Returns, BusyTypes
    <3> QED
      BY <3>1 DEF MoreInv, AttemptInv, LastAttempt, LastTry
  <2>3. CASE Again(c)
    <3>1. /\ at[c] = "backoff" /\ attempt' = [attempt EXCEPT ![c] = @ + 1]
          /\ at' = [at EXCEPT ![c] = "asked"]
      BY <2>3 DEF Again, Submit
    <3>2. attempt'[c] = attempt[c] + 1 /\ at'[c] = "asked"
      BY <3>1, <1>1 DEF BusyTypes, Function
    <3>3. attempt[c] \in 0..LastAttempt /\ attempt[c] # LastAttempt
      BY <3>1 DEF MoreInv, AttemptInv
    <3>4. attempt[c] + 1 \in 0..LastAttempt
      BY <3>3, <1>2
    <3> QED
      BY <3>2, <3>4 DEF AttemptInv, LastAttempt
  <2>4. CASE Abandon(c) \/ RowsEnd(c)
    <3>1. attempt' = attempt /\ (at'[c] = at[c] \/ at'[c] = "idle")
      BY <2>4, <1>1 DEF Abandon, RowsEnd, requestVars, BusyTypes
    <3> QED
      BY <3>1 DEF MoreInv, AttemptInv, LastAttempt
  <2> QED
    BY <2>1, <2>2, <2>3, <2>4
<1>5. \A d \in Conns : AttemptInv(d)'
  BY <1>3, <1>4 DEF MoreInv, AttemptInv, LastAttempt
<1>6. OneWriter'
  <2>1. \A d \in Conns : lock'[d] = lock[d] \/ lock'[d] = "none"
    BY <1>1 DEF Issue, Returns, Again, Abandon, RowsEnd, lockVars, BusyTypes
  <2> QED
    BY <2>1 DEF MoreInv, OneWriter
<1> QED
  BY <1>1, <1>5, <1>6 DEF MoreInv

(* Every variable of Busy keeps its type; retry gives up after its last    *)
(* attempt (conn.go, retry), and one connection at a time has the write    *)
(* lock.                                                                   *)
THEOREM BusyTypeCorrect == BusySpec => []BusyTypeOK
<1>1. BusyInit => MoreInv
  <2> SUFFICES ASSUME BusyInit PROVE MoreInv
    OBVIOUS
  <2>1. 0 \in 0..LastAttempt
    BY RetryAssumption DEF LastAttempt
  <2> QED
    BY <2>1 DEF BusyInit, MoreInv, TxLocks, AttemptInv, OneWriter
<1>2. (BusyIInv /\ MoreInv) /\ [BusyNext]_busyVars => MoreInv'
  <2> SUFFICES ASSUME BusyIInv, MoreInv, [BusyNext]_busyVars PROVE MoreInv'
    OBVIOUS
  <2>1. CASE Configure
    <3>1. txlock' \in TxLocks
      BY <2>1, TxLockIsLegal DEF Configure
    <3>2. UNCHANGED <<attempt, at, lock>>
      BY <2>1 DEF Configure, requestVars, lockVars
    <3> QED
      BY <3>1, <3>2 DEF MoreInv, AttemptInv, OneWriter, LastAttempt
  <2>2. ASSUME NEW c \in Conns, NEW n \in 0..MaxText, Run(c, n) PROVE MoreInv'
    <3>1. UNCHANGED <<txlock, attempt, at>>
      BY <2>2 DEF Run
    <3>2. OneWriter'
      BY <2>2, RunWriter
    <3> QED
      BY <3>1, <3>2 DEF MoreInv, AttemptInv, LastAttempt
  <2>3. CASE UNCHANGED busyVars
    BY <2>3 DEF busyVars, requestVars, lockVars, MoreInv, AttemptInv, OneWriter, LastAttempt
  <2> QED
    BY <2>1, <2>2, <2>3, MoreCall DEF BusyNext
<1>3. BusyIInv /\ MoreInv => BusyTypeOK
  <2> SUFFICES ASSUME BusyIInv, MoreInv PROVE BusyTypeOK
    OBVIOUS
  <2>1. ASSUME NEW c \in Conns
        PROVE  /\ kind[c] \in Methods \cup {"none"}
               /\ at[c] \in {"idle", "asked", "backoff"} /\ posted[c] \in BOOLEAN
               /\ result[c] \in {"none", "ok", "busy"}
               /\ txn[c] \in {"none", "rw", "ro"} /\ lock[c] \in {"none", "shared", "write"}
               /\ streaming[c] \in BOOLEAN
    BY DEF BusyIInv, BusyTypes
  <2>2. ASSUME NEW c \in Conns
        PROVE  /\ attempt[c] \in 0..(RetryAttempts - 1)
               /\ applied[c] \in [DOMAIN text[c] -> Nat]
    BY DEF BusyIInv, ConnInv, RequestInv, MoreInv, AttemptInv, LastAttempt
  <2>3. txlock \in {"none", "immediate", "deferred", "exclusive"}
    BY DEF MoreInv, TxLocks
  <2>4. \A c, d \in Conns : lock[c] = "write" /\ lock[d] = "write" => c = d
    BY DEF MoreInv, OneWriter
  <2> QED
    BY <2>1, <2>2, <2>3, <2>4 DEF BusyTypeOK
<1> QED
  BY <1>1, <1>2, <1>3, BusyInvariant, PTL DEF BusySpec

-----------------------------------------------------------------------------
(* The three together.                                                     *)

(* A behaviour of the pool is one of each of its parts.                    *)
LEMMA PoolIsItsParts == PoolSpec => Spec /\ ConnectorSpec /\ BusySpec
<1>1. PoolInit => Init /\ ConnectorInit /\ BusyInit
  BY DEF PoolInit
<1>2. [PoolNext]_<<vars, connectorVars, busyVars>>
        => [Next]_vars /\ [ConnectorNext]_connectorVars /\ [BusyNext]_busyVars
  BY DEF PoolNext
<1> QED
  BY <1>1, <1>2, PTL DEF PoolSpec, Spec, ConnectorSpec, BusySpec

(* Every variable of Conn, of Connector and of Busy keeps its type.        *)
THEOREM PoolTypeCorrect == PoolSpec => []PoolTypeOK
<1>1. TypeOK /\ ConnectorTypeOK /\ BusyTypeOK => PoolTypeOK
  BY DEF PoolTypeOK
<1> QED
  BY <1>1, PoolIsItsParts, TypeCorrect, ConnectorTypeCorrect, BusyTypeCorrect, PTL
=============================================================================
