------------------------------ MODULE ConnProofs ------------------------------
(***************************************************************************)
(* What is proved of Conn for every number of leases, every length of the  *)
(* queue and both builds.  That the statements of a Tx run inside its      *)
(* transaction is proved wherever contexts may end.  That no caller runs   *)
(* inside another's transaction is proved where shared memory comes with   *)
(* contexts that do not end during BeginTx, and that nobody waits behind   *)
(* an abandoned statement where its absence comes with contexts that do    *)
(* not end over Rows; two runs show that neither holds otherwise.          *)
(*                                                                         *)
(* The invariants say where in the queue a statement of each kind may be,  *)
(* and what the driver knows of it: what is awaited is last in the queue,  *)
(* so an answer finds the queue empty, but for a stream; and what changes  *)
(* the transaction is awaited, or the connection will be closed.           *)
(***************************************************************************)
EXTENDS Conn, SequenceTheorems, TLAPS

(* The statement that a call waits for.                                    *)
Awaits(p, op) ==
    \/ op = "WORK" /\ p = "exec"
    \/ op = "SCAN" /\ p = "first"
    \/ op = "BEGIN" /\ p \in {"begin", "beginRO"}
    \/ op = "COMMIT" /\ p = "finish"
    \/ op = "ROLLBACK" /\ p \in {"reset", "finish"}
    \/ op = "ON" /\ p = "on"
    \/ op = "OFF" /\ p \in {"undo", "off"}

(* Only the last statement is asked for, and an answer leaves none but a   *)
(* stream behind.                                                          *)
AskedInv ==
    /\ \A i \in 1..Len(queue) : queue[i].state = "asked" =>
          /\ i = Len(queue) /\ queue[i].by = lease
          /\ answer = "none" /\ Awaits(pc, queue[i].op)
    /\ answer # "none" /\ pc # "first" => queue = <<>>

(* Who may have posted a statement, and what may follow it.                *)
PlaceInv ==
    /\ \A i \in 1..Len(queue) :
          /\ queue[i].by >= 1 /\ queue[i].by <= lease
          /\ queue[i].op = "COMMIT" => pc = "finish"
          /\ queue[i].op = "ROLLBACK" => pc \in {"finish", "reset", "closed"}
          /\ queue[i].op = "CLOSE" => pc = "closed"
          /\ queue[i].op = "BEGIN" => tx = "none"
    /\ \A i, j \in 1..Len(queue) : i < j =>
          /\ queue[i].op \in {"COMMIT", "ROLLBACK", "CLOSE"} => queue[j].op = "CLOSE"
          /\ queue[i].op = "BEGIN" => ~ queue[j].tx

(* A Tx is held between BeginTx and the end of its last call.              *)
HolderInv ==
    /\ tx # "none" => pc \in {"ready", "exec", "first", "finish", "off"}
    /\ pc # "idle" => lease >= 1
    /\ pc = "idle" => ~ poisoned /\ ~ rows

(* The holder of a Tx, and what it posted, is inside its transaction.      *)
InsideInv ==
    /\ txBy = 0 \/ rolledBack = 0
    /\ pc \in {"begin", "beginRO"} /\ answer = "ok" => txBy = lease
    /\ tx # "none" /\ pc \notin {"finish", "off"} => lease \in {txBy, rolledBack}
    /\ \A i \in 1..Len(queue) : queue[i].op \in {"WORK", "SCAN"} /\ queue[i].tx =>
          queue[i].by \in {txBy, rolledBack}

ConnIInv == TypeOK /\ AskedInv /\ PlaceInv /\ HolderInv /\ InsideInv

-----------------------------------------------------------------------------
(* With contexts that do not end during BeginTx where memory is shared.    *)

BeginsAreAwaited == Cancels[TRUE] \cap {"on", "begin", "beginRO"} = {}

(* A ROLLBACK of the last lease is ahead of all its other statements.      *)
RollbackAhead ==
    \E j \in 1..Len(queue) :
        /\ queue[j].op = "ROLLBACK"
        /\ \A i \in 1..Len(queue) : i < j => queue[i].by < lease

(* The statements of one lease follow those of the one before it, and the  *)
(* transaction and the query_only are those of the last lease, or the      *)
(* transaction is that of the one before and will be rolled back first.    *)
OrderInv ==
    /\ \A i, j \in 1..Len(queue) : i < j => queue[i].by <= queue[j].by
    /\ \A i \in 1..Len(queue) :
          /\ queue[i].by >= txBy /\ queue[i].by >= roBy
          /\ queue[i].op \in {"BEGIN", "ON"} => queue[i].by = lease
    /\ txBy \in {0, lease} \/ (txBy = lease - 1 /\ RollbackAhead)
    /\ roBy \in {0, lease}

(* What opens something is awaited, or the connection is not used again.   *)
Undoing == pc = "undo" /\ ctx = "done" /\ ~ cancellable

AwaitInv ==
    /\ cancellable /\ pc \in {"on", "begin", "beginRO"} => ctx = "live"
    /\ \A i \in 1..Len(queue) :
          /\ queue[i].op = "BEGIN" =>
                \/ poisoned \/ pc = "closed" \/ Undoing
                \/ pc \in {"begin", "beginRO"} /\ queue[i].state = "asked"
          /\ queue[i].op = "ON" => poisoned \/ pc \in {"on", "closed"}

(* An open transaction is known, will be rolled back first, or the         *)
(* connection is not used again.                                           *)
KnownInv ==
    /\ txBy # 0 =>
          \/ inTx \/ poisoned \/ pc \in {"reset", "closed"} \/ Undoing
          \/ pc \in {"begin", "beginRO"} /\ answer = "ok"
    /\ pc \in {"finish", "reset"} /\ answer = "ok" => txBy = 0

(* So is a query_only.                                                     *)
ReadOnlyInv ==
    /\ roBy # 0 =>
          pc \in {"on", "beginRO", "undo", "closed"} \/ tx = "ro" \/ poisoned
    /\ pc \in {"undo", "off"} /\ answer # "none" => roBy = 0
    /\ pc = "on" => answer # "err"

StrangerIInv == OrderInv /\ AwaitInv /\ KnownInv /\ ReadOnlyInv

-----------------------------------------------------------------------------
(* With contexts that do not end over Rows where memory is not shared.     *)

RowsAreRead == "rows" \notin Cancels[FALSE]

AbandonedInv ==
    ~ cancellable /\ pc # "closed" =>
        \A i \in 1..Len(queue) : queue[i].state = "cancelled" =>
            /\ queue[i].by = lease
            /\ poisoned \/ (pc = "undo" /\ ctx = "done")

-----------------------------------------------------------------------------
(* The queue.                                                              *)

Entry == [op : {"WORK", "SCAN", "BEGIN", "COMMIT", "ROLLBACK", "ON", "OFF", "CLOSE"},
          by : 0..MaxLease, tx : BOOLEAN,
          state : {"asked", "open", "cancelled", "closed"}]

(* q holds the statements of the queue, in other states perhaps.           *)
Alike(q) ==
    /\ q \in Seq(Entry) /\ Len(q) = Len(queue)
    /\ \A i \in 1..Len(queue) :
          q[i].op = queue[i].op /\ q[i].by = queue[i].by /\ q[i].tx = queue[i].tx

Unasked(q) == \A i \in 1..Len(q) : q[i].state # "asked"

(* No statement that ends a transaction, or the connection, is queued.     *)
NoEnds == \A i \in 1..Len(queue) : queue[i].op \notin {"COMMIT", "ROLLBACK", "CLOSE"}

(* The queue is one of entries, and like itself.                           *)
LEMMA QueueFacts ==
    ASSUME TypeOK
    PROVE  /\ queue \in Seq(Entry) /\ Len(queue) \in Nat
           /\ \A i \in 1..Len(queue) : queue[i] \in Entry
           /\ Alike(queue)
<1>1. queue \in Seq(Entry)
  BY DEF TypeOK, Entry
<1> QED
  BY <1>1 DEF Alike

(* Marked changes the state of the entries in one state, nothing else.     *)
LEMMA MarkedFacts ==
    ASSUME TypeOK, NEW from, NEW to \in {"asked", "open", "cancelled", "closed"}
    PROVE  /\ Alike(Marked(from, to))
           /\ \A i \in 1..Len(queue) :
                 Marked(from, to)[i].state = IF queue[i].state = from
                                             THEN to ELSE queue[i].state
<1> DEFINE m == Marked(from, to)
<1>1. queue \in Seq(Entry) /\ Len(queue) \in Nat /\ DOMAIN queue = 1..Len(queue)
  BY QueueFacts
<1>2. m = [i \in 1..Len(queue) |-> IF queue[i].state = from
                                   THEN [queue[i] EXCEPT !.state = to] ELSE queue[i]]
  BY <1>1, Zenon DEF Marked
<1> HIDE DEF m
<1>3. ASSUME NEW i \in 1..Len(queue)
      PROVE  /\ m[i] \in Entry
             /\ m[i].op = queue[i].op /\ m[i].by = queue[i].by /\ m[i].tx = queue[i].tx
             /\ m[i].state = IF queue[i].state = from THEN to ELSE queue[i].state
  <2>1. queue[i] \in Entry
    BY <1>1
  <2>2. CASE queue[i].state = from
    BY <1>2, <2>1, <2>2 DEF Entry
  <2>3. CASE queue[i].state # from
    BY <1>2, <2>1, <2>3
  <2> QED
    BY <2>2, <2>3
<1>4. m \in Seq(Entry) /\ Len(m) = Len(queue)
  BY <1>1, <1>2, <1>3
<1> QED
  BY <1>3, <1>4 DEF m, Alike

(* A call that fails leaves nothing asked for.                             *)
LEMMA FailsFacts ==
    ASSUME TypeOK, AskedInv, NEW q, Fails(q)
    PROVE  /\ Alike(q) /\ Unasked(q) /\ answer' = "none"
           /\ answer = "err" \/ (ctx = "done" /\ pc \notin Unstoppable)
           /\ q = queue \/ q = Marked("asked", "cancelled")
<1>1. CASE answer = "err" /\ q = queue
  BY <1>1, QueueFacts DEF Fails, Unasked, AskedInv
<1>2. CASE ctx = "done" /\ pc \notin Unstoppable /\ q = Marked("asked", "cancelled")
  BY <1>2, MarkedFacts DEF Fails, Unasked, Alike
<1> QED
  BY <1>1, <1>2 DEF Fails

(* What is posted comes last.                                              *)
LEMMA PostFacts ==
    ASSUME NEW q, Alike(q), TypeOK, NEW e \in Entry
    PROVE  /\ Append(q, e) \in Seq(Entry) /\ Len(Append(q, e)) = Len(queue) + 1
           /\ Append(q, e)[Len(queue) + 1] = e
           /\ \A i \in 1..Len(queue) : Append(q, e)[i] = q[i]
           /\ \A i \in 1..(Len(queue) + 1) : i = Len(queue) + 1 \/ i \in 1..Len(queue)
<1>1. q \in Seq(Entry) /\ Len(q) = Len(queue) /\ Len(queue) \in Nat
  BY QueueFacts DEF Alike
<1> QED
  BY <1>1

(* What runs leaves the queue from the front.                              *)
LEMMA TailFacts ==
    ASSUME TypeOK, queue # <<>>
    PROVE  /\ Len(queue) >= 1 /\ Here = queue[1] /\ Here \in Entry
           /\ Tail(queue) \in Seq(Entry) /\ Len(Tail(queue)) = Len(queue) - 1
           /\ \A i \in 1..(Len(queue) - 1) :
                 Tail(queue)[i] = queue[i + 1] /\ i + 1 \in 1..Len(queue)
<1>1. queue \in Seq(Entry) /\ Len(queue) \in Nat
  BY QueueFacts
<1> QED
  BY <1>1 DEF Here

-----------------------------------------------------------------------------
(* The steps of the driver.                                                *)

(* A call that returns, or ends a stream, without a new statement.         *)
LEMMA NothingPosted ==
    ASSUME ConnIInv, Alike(queue'), Unasked(queue'), answer' = "none",
           pc' \in {"idle", "ready"}, tx' \in {"none", "rw", "ro"},
           lease' \in {lease, lease + 1}, lease' \in 1..MaxLease,
           ctx' \in {"live", "done"}, cancellable' = cancellable, dbVars' = dbVars,
           rows' \in BOOLEAN, inTx' \in BOOLEAN, poisoned' \in BOOLEAN,
           NoEnds,
           tx' = "none" \/ tx' = tx \/ queue = <<>>,
           pc' = "idle" => tx' = "none" /\ ~ poisoned' /\ ~ rows',
           tx' # "none" => lease' = lease /\ lease \in {txBy, rolledBack}
    PROVE  ConnIInv'
<1>1. TypeOK /\ AskedInv /\ PlaceInv /\ HolderInv /\ InsideInv
  BY DEF ConnIInv
<1>2. /\ queue' \in Seq(Entry) /\ Len(queue') = Len(queue) /\ Len(queue) \in Nat
      /\ \A i \in 1..Len(queue) : queue'[i].op = queue[i].op
            /\ queue'[i].by = queue[i].by /\ queue'[i].tx = queue[i].tx
  BY <1>1, QueueFacts DEF Alike
<1>3. txBy' = txBy /\ roBy' = roBy /\ rolledBack' = rolledBack
  BY DEF dbVars
<1>4. TypeOK'
  <2>1. lease' \in 0..MaxLease
    BY LeaseAssumption
  <2> QED
    BY <1>1, <1>2, <1>3, <2>1 DEF TypeOK, Entry
<1>5. AskedInv'
  BY <1>2 DEF AskedInv, Unasked
<1>6. PlaceInv'
  <2>1. ASSUME NEW i \in 1..Len(queue')
        PROVE  /\ queue'[i].by >= 1 /\ queue'[i].by <= lease'
               /\ queue'[i].op \notin {"COMMIT", "ROLLBACK", "CLOSE"}
               /\ queue'[i].op = "BEGIN" => tx' = "none"
    <3>1. queue[i] \in Entry /\ lease \in Nat
      BY <1>1, <1>2, QueueFacts, LeaseAssumption DEF TypeOK
    <3> QED
      BY <3>1, <1>1, <1>2 DEF PlaceInv, NoEnds, Entry
  <2>2. ASSUME NEW i \in 1..Len(queue'), NEW j \in 1..Len(queue'), i < j,
               queue'[i].op = "BEGIN"
        PROVE  ~ queue'[j].tx
    BY <2>2, <1>1, <1>2 DEF PlaceInv
  <2> QED
    BY <2>1, <2>2 DEF PlaceInv
<1>7. HolderInv'
  BY DEF HolderInv
<1>8. InsideInv'
  <2>1. ASSUME NEW i \in 1..Len(queue'), queue'[i].op \in {"WORK", "SCAN"}, queue'[i].tx
        PROVE  queue'[i].by \in {txBy', rolledBack'}
    BY <2>1, <1>1, <1>2, <1>3 DEF InsideInv
  <2>2. txBy = 0 \/ rolledBack = 0
    BY <1>1 DEF InsideInv
  <2> QED
    BY <2>1, <2>2, <1>3 DEF InsideInv
<1> QED
  BY <1>4, <1>5, <1>6, <1>7, <1>8 DEF ConnIInv

(* A call that posts a statement and waits for its answer.                 *)
LEMMA Posted ==
    ASSUME ConnIInv, NEW q, Alike(q), Unasked(q), NEW op, NEW wait,
           queue' = Append(q, [op |-> op, by |-> lease', tx |-> tx # "none", state |-> "asked"]),
           pc' = wait, wait \in Calls \cup Unstoppable, Awaits(wait, op), answer' = "none",
           lease' \in {lease, lease + 1}, lease' \in 1..MaxLease, tx' = tx,
           ctx' \in {"live", "done"}, cancellable' = cancellable, dbVars' = dbVars,
           rows' \in BOOLEAN, inTx' \in BOOLEAN, poisoned' \in BOOLEAN,
           NoEnds,
           tx # "none" => wait \in {"exec", "first", "finish", "off"} /\ lease' = lease,
           tx # "none" /\ wait \in {"exec", "first"} => lease \in {txBy, rolledBack}
    PROVE  ConnIInv'
<1> DEFINE e == [op |-> op, by |-> lease', tx |-> tx # "none", state |-> "asked"]
<1>1. TypeOK /\ AskedInv /\ PlaceInv /\ HolderInv /\ InsideInv
  BY DEF ConnIInv
<1>2. /\ e \in Entry /\ e.op = op /\ e.by = lease' /\ (e.tx <=> tx # "none")
      /\ e.state = "asked"
  <2>1. op \in {"WORK", "SCAN", "BEGIN", "COMMIT", "ROLLBACK", "ON", "OFF", "CLOSE"}
    BY DEF Awaits
  <2>2. lease' \in 0..MaxLease
    BY LeaseAssumption
  <2> QED
    BY <2>1, <2>2 DEF Entry
<1> HIDE DEF e
<1>3. /\ queue' \in Seq(Entry) /\ Len(queue') = Len(queue) + 1
      /\ queue'[Len(queue) + 1] = e
      /\ \A i \in 1..Len(queue) : queue'[i] = q[i]
      /\ \A i \in 1..Len(queue') : i = Len(queue) + 1 \/ i \in 1..Len(queue)
  <2>1. queue' = Append(q, e)
    BY DEF e
  <2> QED
    BY <2>1, <1>1, <1>2, PostFacts
<1>4. /\ Len(queue) \in Nat
      /\ \A i \in 1..Len(queue) : queue'[i].op = queue[i].op
            /\ queue'[i].by = queue[i].by /\ queue'[i].tx = queue[i].tx
            /\ queue'[i].state # "asked"
  BY <1>1, <1>3, QueueFacts DEF Alike, Unasked
<1>5. txBy' = txBy /\ roBy' = roBy /\ rolledBack' = rolledBack
  BY DEF dbVars
<1>6. lease \in Nat /\ lease' \in 0..MaxLease
  BY <1>1, LeaseAssumption DEF TypeOK
<1>7. TypeOK'
  BY <1>1, <1>3, <1>5, <1>6 DEF TypeOK, Entry
<1>8. AskedInv'
  BY <1>2, <1>3, <1>4 DEF AskedInv
<1>9. PlaceInv'
  <2>1. ASSUME NEW i \in 1..Len(queue')
        PROVE  /\ queue'[i].by >= 1 /\ queue'[i].by <= lease'
               /\ queue'[i].op = "COMMIT" => pc' = "finish"
               /\ queue'[i].op = "ROLLBACK" => pc' \in {"finish", "reset", "closed"}
               /\ queue'[i].op = "CLOSE" => pc' = "closed"
               /\ queue'[i].op = "BEGIN" => tx' = "none"
    <3>1. CASE i = Len(queue) + 1
      BY <3>1, <1>2, <1>3, <1>6 DEF Awaits
    <3>2. CASE i \in 1..Len(queue)
      <4>1. queue[i] \in Entry
        BY <3>2, <1>1, QueueFacts
      <4> QED
        BY <3>2, <4>1, <1>1, <1>4, <1>6 DEF PlaceInv, NoEnds, Entry
    <3> QED
      BY <3>1, <3>2, <1>3
  <2>2. ASSUME NEW i \in 1..Len(queue'), NEW j \in 1..Len(queue'), i < j
        PROVE  /\ queue'[i].op \notin {"COMMIT", "ROLLBACK", "CLOSE"}
               /\ queue'[i].op = "BEGIN" => ~ queue'[j].tx
    <3>1. i \in 1..Len(queue)
      BY <2>2, <1>3, <1>4
    <3>2. CASE j = Len(queue) + 1
      BY <3>1, <3>2, <1>1, <1>2, <1>3, <1>4 DEF PlaceInv, NoEnds
    <3>3. CASE j \in 1..Len(queue)
      BY <2>2, <3>1, <3>3, <1>1, <1>4 DEF PlaceInv, NoEnds
    <3> QED
      BY <3>2, <3>3, <1>3
  <2> QED
    BY <2>1, <2>2 DEF PlaceInv
<1>10. HolderInv'
  BY <1>6 DEF HolderInv, Calls, Unstoppable
<1>11. InsideInv'
  <2>1. ASSUME NEW i \in 1..Len(queue'), queue'[i].op \in {"WORK", "SCAN"}, queue'[i].tx
        PROVE  queue'[i].by \in {txBy', rolledBack'}
    <3>1. CASE i = Len(queue) + 1
      BY <2>1, <3>1, <1>2, <1>3, <1>5 DEF Awaits
    <3>2. CASE i \in 1..Len(queue)
      BY <2>1, <3>2, <1>1, <1>4, <1>5 DEF InsideInv
    <3> QED
      BY <3>1, <3>2, <1>3
  <2>2. txBy = 0 \/ rolledBack = 0
    BY <1>1 DEF InsideInv
  <2> QED
    BY <2>1, <2>2, <1>5 DEF InsideInv
<1> QED
  BY <1>7, <1>8, <1>9, <1>10, <1>11 DEF ConnIInv

(* The connection is closed, after the statements that are still queued.   *)
LEMMA CloseConnKeeps ==
    ASSUME ConnIInv, NEW q, Alike(q), Unasked(q), CloseConn(q), answer' = "none",
           pc \in {"ready", "reset"}, tx = "none",
           lease' = lease, ctx' = ctx, cancellable' = cancellable,
           goVars' = goVars, dbVars' = dbVars
    PROVE  ConnIInv'
<1> DEFINE e == [Statement("CLOSE", lease) EXCEPT !.state = "closed"]
<1>1. TypeOK /\ AskedInv /\ PlaceInv /\ HolderInv /\ InsideInv
  BY DEF ConnIInv
<1>2. lease \in Nat /\ lease \in 0..MaxLease /\ lease >= 1
  BY <1>1, LeaseAssumption DEF TypeOK, HolderInv
<1>3. e \in Entry /\ e.op = "CLOSE" /\ e.by = lease /\ e.state = "closed"
  BY <1>2 DEF Entry, Statement
<1>4. /\ queue' = Append(q, e) /\ pc' = "closed"
      /\ tx' = tx /\ rows' = rows /\ inTx' = inTx /\ poisoned' = poisoned
      /\ txBy' = txBy /\ roBy' = roBy /\ rolledBack' = rolledBack
  BY DEF CloseConn, goVars, dbVars
<1> HIDE DEF e
<1>5. /\ queue' \in Seq(Entry) /\ Len(queue') = Len(queue) + 1
      /\ queue'[Len(queue) + 1] = e
      /\ \A i \in 1..Len(queue) : queue'[i] = q[i]
      /\ \A i \in 1..Len(queue') : i = Len(queue) + 1 \/ i \in 1..Len(queue)
  BY <1>1, <1>3, <1>4, PostFacts
<1>6. /\ Len(queue) \in Nat
      /\ \A i \in 1..Len(queue) : queue'[i].op = queue[i].op
            /\ queue'[i].by = queue[i].by /\ queue'[i].tx = queue[i].tx
            /\ queue'[i].state # "asked"
  BY <1>1, <1>5, QueueFacts DEF Alike, Unasked
<1>7. TypeOK'
  BY <1>1, <1>2, <1>4, <1>5 DEF TypeOK, Entry
<1>8. AskedInv'
  <2>1. \A i \in 1..Len(queue') : queue'[i].state # "asked"
    BY <1>3, <1>5, <1>6
  <2> QED
    BY <2>1 DEF AskedInv
<1>9. PlaceInv'
  <2>1. ASSUME NEW i \in 1..Len(queue')
        PROVE  /\ queue'[i].by >= 1 /\ queue'[i].by <= lease
               /\ queue'[i].op # "COMMIT"
    <3>1. CASE i = Len(queue) + 1
      BY <3>1, <1>2, <1>3, <1>5
    <3>2. CASE i \in 1..Len(queue)
      BY <3>2, <1>1, <1>6 DEF PlaceInv
    <3> QED
      BY <3>1, <3>2, <1>5
  <2>2. ASSUME NEW i \in 1..Len(queue'), NEW j \in 1..Len(queue'), i < j
        PROVE  /\ queue'[i].op \in {"COMMIT", "ROLLBACK", "CLOSE"} => queue'[j].op = "CLOSE"
               /\ queue'[i].op = "BEGIN" => ~ queue'[j].tx
    <3>1. i \in 1..Len(queue)
      BY <2>2, <1>5, <1>6
    <3>2. CASE j = Len(queue) + 1
      <4>1. queue'[j].op = "CLOSE" /\ queue'[j].tx = FALSE
        BY <3>2, <1>3, <1>5 DEF e, Statement
      <4> QED
        BY <4>1
    <3>3. CASE j \in 1..Len(queue)
      BY <2>2, <3>1, <3>3, <1>1, <1>6 DEF PlaceInv
    <3> QED
      BY <3>2, <3>3, <1>5
  <2>3. lease' = lease /\ tx' = "none" /\ pc' = "closed"
    BY <1>4
  <2> QED
    BY <2>1, <2>2, <2>3 DEF PlaceInv
<1>10. HolderInv'
  BY <1>2, <1>4 DEF HolderInv
<1>11. InsideInv'
  <2>1. ASSUME NEW i \in 1..Len(queue'), queue'[i].op \in {"WORK", "SCAN"}, queue'[i].tx
        PROVE  queue'[i].by \in {txBy', rolledBack'}
    <3>1. i \in 1..Len(queue)
      BY <2>1, <1>3, <1>5
    <3> QED
      BY <2>1, <3>1, <1>1, <1>4, <1>6 DEF InsideInv
  <2>2. txBy = 0 \/ rolledBack = 0
    BY <1>1 DEF InsideInv
  <2> QED
    BY <2>1, <2>2, <1>4 DEF InsideInv
<1> QED
  BY <1>7, <1>8, <1>9, <1>10, <1>11 DEF ConnIInv

(* Rows that end, at any time.                                             *)
LEMMA RowsRunOut ==
    ASSUME ConnIInv, NEW to \in {"closed", "cancelled"}, queue' = Marked("open", to),
           UNCHANGED callVars, tx' = tx, inTx' = inTx, dbVars' = dbVars,
           ~ rows', rows' \in BOOLEAN, poisoned' \in BOOLEAN, pc = "idle" => ~ poisoned'
    PROVE  ConnIInv'
<1>1. TypeOK /\ AskedInv /\ PlaceInv /\ HolderInv /\ InsideInv
  BY DEF ConnIInv
<1>2. /\ queue' \in Seq(Entry) /\ Len(queue') = Len(queue) /\ Len(queue) \in Nat
      /\ \A i \in 1..Len(queue) :
            /\ queue'[i].op = queue[i].op
            /\ queue'[i].by = queue[i].by /\ queue'[i].tx = queue[i].tx
            /\ queue'[i].state = "asked" => queue[i].state = "asked"
  <2>1. /\ Alike(queue')
        /\ \A i \in 1..Len(queue) :
              queue'[i].state = IF queue[i].state = "open" THEN to ELSE queue[i].state
    BY <1>1, MarkedFacts
  <2>2. queue \in Seq(Entry) /\ Len(queue) \in Nat
    BY <1>1, QueueFacts
  <2> QED
    BY <2>1, <2>2 DEF Alike
<1>3. /\ txBy' = txBy /\ roBy' = roBy /\ rolledBack' = rolledBack
      /\ cancellable' = cancellable /\ lease' = lease /\ pc' = pc /\ ctx' = ctx
      /\ answer' = answer
  BY DEF dbVars, callVars
<1>4. TypeOK'
  BY <1>1, <1>2, <1>3 DEF TypeOK, Entry
<1>5. AskedInv'
  <2>1. ASSUME queue = <<>> PROVE queue' = <<>>
    <3>1. queue' \in Seq(Entry) /\ Len(queue') = 0
      BY <2>1, <1>2
    <3> QED
      BY <3>1, EmptySeq
  <2>2. ASSUME NEW i \in 1..Len(queue'), queue'[i].state = "asked"
        PROVE  /\ i = Len(queue') /\ queue'[i].by = lease'
               /\ answer' = "none" /\ Awaits(pc', queue'[i].op)
    <3>1. /\ i \in 1..Len(queue) /\ queue[i].state = "asked"
          /\ queue'[i].op = queue[i].op /\ queue'[i].by = queue[i].by
      BY <2>2, <1>2
    <3> QED
      BY <3>1, <1>1, <1>2, <1>3 DEF AskedInv
  <2> QED
    BY <2>1, <2>2, <1>1, <1>3 DEF AskedInv
<1>6. PlaceInv'
  <2>1. ASSUME NEW i \in 1..Len(queue')
        PROVE  /\ queue'[i].by >= 1 /\ queue'[i].by <= lease'
               /\ queue'[i].op = "COMMIT" => pc' = "finish"
               /\ queue'[i].op = "ROLLBACK" => pc' \in {"finish", "reset", "closed"}
               /\ queue'[i].op = "CLOSE" => pc' = "closed"
               /\ queue'[i].op = "BEGIN" => tx' = "none"
    BY <1>1, <1>2, <1>3 DEF PlaceInv
  <2>2. ASSUME NEW i \in 1..Len(queue'), NEW j \in 1..Len(queue'), i < j
        PROVE  /\ queue'[i].op \in {"COMMIT", "ROLLBACK", "CLOSE"} => queue'[j].op = "CLOSE"
               /\ queue'[i].op = "BEGIN" => ~ queue'[j].tx
    BY <2>2, <1>1, <1>2 DEF PlaceInv
  <2> QED
    BY <2>1, <2>2 DEF PlaceInv
<1>7. HolderInv'
  BY <1>1, <1>3 DEF HolderInv
<1>8. InsideInv'
  <2>1. ASSUME NEW i \in 1..Len(queue'), queue'[i].op \in {"WORK", "SCAN"}, queue'[i].tx
        PROVE  queue'[i].by \in {txBy', rolledBack'}
    BY <2>1, <1>1, <1>2, <1>3 DEF InsideInv
  <2> QED
    BY <2>1, <1>1, <1>3 DEF InsideInv
<1> QED
  BY <1>4, <1>5, <1>6, <1>7, <1>8 DEF ConnIInv

(* Away from finish, reset and Close no end is queued, and where an answer *)
(* has come nothing is.                                                    *)
LEMMA NoEndsQueued ==
    ASSUME ConnIInv, pc \notin {"finish", "reset", "closed"} \/ (answer # "none" /\ pc # "first")
    PROVE  NoEnds
<1>1. CASE pc \notin {"finish", "reset", "closed"}
  BY <1>1 DEF ConnIInv, PlaceInv, NoEnds
<1>2. CASE answer # "none" /\ pc # "first"
  <2>1. queue = <<>>
    BY <1>2 DEF ConnIInv, AskedInv
  <2> QED
    BY <2>1 DEF NoEnds
<1> QED
  BY <1>1, <1>2

(* A statement is posted by a caller that is ready.                        *)
LEMMA StartKeeps ==
    ASSUME ConnIInv, NEW op, NEW wait, Start(op, wait), Awaits(wait, op),
           wait \in {"exec", "first"} \/ (wait = "finish" /\ tx # "none")
               \/ (wait \in {"begin", "on"} /\ tx = "none")
    PROVE  ConnIInv'
<1>1. TypeOK /\ AskedInv /\ HolderInv /\ InsideInv
  BY DEF ConnIInv
<1>2. /\ pc = "ready" /\ pc' = wait
      /\ queue' = Append(queue, [op |-> op, by |-> lease, tx |-> tx # "none", state |-> "asked"])
      /\ ctx' = "live" /\ cancellable' = cancellable /\ lease' = lease /\ answer' = answer
      /\ tx' = tx /\ rows' = rows /\ inTx' = inTx /\ poisoned' = poisoned /\ dbVars' = dbVars
  BY DEF Start, Post, Statement, goVars
<1>3. answer = "none" /\ NoEnds
  BY <1>1, <1>2, NoEndsQueued DEF TypeOK, Calls, Unstoppable
<1>4. Alike(queue) /\ Unasked(queue)
  <2>1. \A i \in 1..Len(queue) : ~ Awaits("ready", queue[i].op)
    BY DEF Awaits
  <2> QED
    BY <2>1, <1>1, <1>2, QueueFacts DEF AskedInv, Unasked
<1>5. lease' \in 1..MaxLease /\ lease' \in {lease, lease + 1}
  BY <1>1, <1>2, LeaseAssumption DEF TypeOK, HolderInv
<1>6. rows' \in BOOLEAN /\ inTx' \in BOOLEAN /\ poisoned' \in BOOLEAN
  BY <1>1, <1>2 DEF TypeOK
<1>7. wait \in Calls \cup Unstoppable
  BY DEF Calls, Unstoppable
<1>8. tx # "none" => wait \in {"exec", "first", "finish", "off"} /\ lease' = lease
  BY <1>2
<1>9. tx # "none" /\ wait \in {"exec", "first"} => lease \in {txBy, rolledBack}
  BY <1>1, <1>2 DEF InsideInv
<1>10. queue' = Append(queue, [op |-> op, by |-> lease', tx |-> tx # "none", state |-> "asked"])
  BY <1>2
<1>11. ctx' \in {"live", "done"}
  BY <1>2
<1> QED
  BY <1>2, <1>3, <1>4, <1>5, <1>6, <1>7, <1>8, <1>9, <1>10, <1>11, Posted

(* ResetSession, IsValid and Close.                                        *)
LEMMA PoolKeeps ==
    ASSUME ConnIInv, CtxDone \/ HandOut \/ ResetDone \/ Return PROVE ConnIInv'
<1>1. TypeOK /\ AskedInv /\ PlaceInv /\ HolderInv /\ InsideInv
  BY DEF ConnIInv
<1>2. /\ rows \in BOOLEAN /\ inTx \in BOOLEAN /\ poisoned \in BOOLEAN
      /\ tx \in {"none", "rw", "ro"} /\ lease \in Nat /\ lease <= MaxLease
      /\ ctx \in {"live", "done"} /\ answer \in {"none", "ok", "err"} /\ MaxLease \in Nat
  BY <1>1, LeaseAssumption DEF TypeOK
<1>3. CASE CtxDone
  <2>1. /\ ctx' = "done"
        /\ UNCHANGED <<cancellable, lease, pc, answer, goVars, queue, dbVars>>
    BY <1>3 DEF CtxDone
  <2>2. TypeOK'
    BY <2>1, <1>1 DEF TypeOK, goVars, dbVars
  <2>3. AskedInv' /\ PlaceInv' /\ HolderInv' /\ InsideInv'
    BY <2>1, <1>1 DEF AskedInv, PlaceInv, HolderInv, InsideInv, goVars, dbVars
  <2> QED
    BY <2>2, <2>3 DEF ConnIInv
<1>4. CASE HandOut
  <2>1. /\ pc = "idle" /\ lease < MaxLease /\ lease' = lease + 1 /\ ctx' = "live"
        /\ UNCHANGED <<cancellable, answer, tx, rows, poisoned, dbVars>>
    BY <1>4 DEF HandOut
  <2>2. tx = "none" /\ answer = "none" /\ NoEnds /\ ~ poisoned
    BY <2>1, <1>1, NoEndsQueued DEF TypeOK, HolderInv, Calls, Unstoppable
  <2>3. Alike(queue) /\ Unasked(queue)
    <3>1. \A i \in 1..Len(queue) : ~ Awaits("idle", queue[i].op)
      BY DEF Awaits
    <3> QED
      BY <3>1, <1>1, <2>1, QueueFacts DEF AskedInv, Unasked
  <2>4. lease' \in {lease, lease + 1} /\ lease' \in 1..MaxLease
    BY <2>1, <1>2
  <2>5. CASE inTx
    <3>1. /\ queue' = Append(queue, [op |-> "ROLLBACK", by |-> lease + 1,
                                     tx |-> tx # "none", state |-> "asked"])
          /\ pc' = "reset" /\ inTx' = FALSE
      BY <2>5, <1>4 DEF HandOut, Statement
    <3>2. queue' = Append(queue, [op |-> "ROLLBACK", by |-> lease',
                                  tx |-> tx # "none", state |-> "asked"])
      BY <3>1, <2>1
    <3>3. Awaits("reset", "ROLLBACK") /\ "reset" \in Calls \cup Unstoppable
      BY DEF Awaits, Calls
    <3>4. /\ tx' = tx /\ cancellable' = cancellable /\ dbVars' = dbVars /\ answer' = "none"
          /\ rows' \in BOOLEAN /\ inTx' \in BOOLEAN /\ poisoned' \in BOOLEAN
          /\ ctx' \in {"live", "done"} /\ pc' = "reset"
      BY <2>1, <2>2, <3>1, <1>2
    <3> QED
      BY <3>2, <3>3, <3>4, <2>2, <2>3, <2>4, Posted
  <2>6. CASE ~ inTx
    <3>1. pc' = "ready" /\ queue' = queue /\ inTx' = inTx
      BY <2>6, <1>4 DEF HandOut
    <3>2. /\ Alike(queue') /\ Unasked(queue') /\ answer' = "none"
          /\ tx' = "none" /\ cancellable' = cancellable /\ dbVars' = dbVars
          /\ rows' \in BOOLEAN /\ inTx' \in BOOLEAN /\ poisoned' \in BOOLEAN
          /\ ctx' \in {"live", "done"}
      BY <2>1, <2>2, <2>3, <3>1, <1>2
    <3> QED
      BY <3>1, <3>2, <2>2, <2>4, NothingPosted
  <2> QED
    BY <2>5, <2>6
<1>5. CASE ResetDone
  <2>1. pc = "reset" /\ UNCHANGED <<cancellable, lease, ctx, goVars, dbVars>>
    BY <1>5 DEF ResetDone
  <2>2. tx = "none" /\ lease >= 1
    BY <2>1, <1>1 DEF HolderInv
  <2>3. CASE Succeeds /\ pc' = "ready" /\ UNCHANGED queue
    <3>1. answer = "ok" /\ answer' = "none" /\ queue = <<>>
      BY <2>1, <2>3, <1>1 DEF Succeeds, AskedInv
    <3>2. /\ Alike(queue') /\ Unasked(queue') /\ NoEnds
      BY <3>1, <2>3, <1>1, QueueFacts DEF Unasked, NoEnds
    <3>3. /\ lease' \in {lease, lease + 1} /\ lease' \in 1..MaxLease
          /\ tx' = "none" /\ cancellable' = cancellable /\ dbVars' = dbVars
          /\ rows' \in BOOLEAN /\ inTx' \in BOOLEAN /\ poisoned' \in BOOLEAN
          /\ ctx' \in {"live", "done"}
      BY <2>1, <2>2, <1>2 DEF goVars
    <3> QED
      BY <3>1, <3>2, <3>3, <2>3, NothingPosted
  <2>4. CASE \E q \in Outcomes : Fails(q) /\ CloseConn(q)
    <3>1. PICK q \in Outcomes : Fails(q) /\ CloseConn(q)
      BY <2>4
    <3>2. Alike(q) /\ Unasked(q) /\ answer' = "none"
      BY <3>1, <1>1, FailsFacts
    <3>3. /\ lease' = lease /\ ctx' = ctx /\ cancellable' = cancellable
          /\ goVars' = goVars /\ dbVars' = dbVars
      BY <2>1
    <3> QED
      BY <3>1, <3>2, <3>3, <2>1, <2>2, CloseConnKeeps
  <2> QED
    BY <2>3, <2>4, <1>5 DEF ResetDone
<1>6. CASE Return
  <2>1. /\ pc = "ready" /\ tx = "none" /\ ~ rows
        /\ UNCHANGED <<cancellable, lease, ctx, answer, goVars, dbVars>>
    BY <1>6 DEF Return
  <2>2. answer = "none" /\ NoEnds /\ lease >= 1
    BY <2>1, <1>1, NoEndsQueued DEF TypeOK, HolderInv, Calls, Unstoppable
  <2>3. Alike(queue) /\ Unasked(queue)
    <3>1. \A i \in 1..Len(queue) : ~ Awaits("ready", queue[i].op)
      BY DEF Awaits
    <3> QED
      BY <3>1, <1>1, <2>1, QueueFacts DEF AskedInv, Unasked
  <2>4. CASE ~ poisoned
    <3>1. pc' = "idle" /\ queue' = queue
      BY <2>4, <1>6 DEF Return, IsValid
    <3>2. /\ lease' \in {lease, lease + 1} /\ lease' \in 1..MaxLease
          /\ tx' = "none" /\ cancellable' = cancellable /\ dbVars' = dbVars
          /\ rows' \in BOOLEAN /\ inTx' \in BOOLEAN /\ poisoned' \in BOOLEAN
          /\ ctx' \in {"live", "done"} /\ ~ poisoned' /\ ~ rows' /\ answer' = "none"
      BY <2>1, <2>2, <2>4, <1>2 DEF goVars
    <3>3. Alike(queue') /\ Unasked(queue')
      BY <2>3, <3>1
    <3> QED
      BY <3>1, <3>2, <3>3, <2>2, NothingPosted
  <2>5. CASE poisoned
    <3>1. CloseConn(queue)
      BY <2>5, <1>6 DEF Return, IsValid
    <3>2. /\ lease' = lease /\ ctx' = ctx /\ cancellable' = cancellable
          /\ goVars' = goVars /\ dbVars' = dbVars /\ answer' = "none"
      BY <2>1, <2>2
    <3> QED
      BY <3>1, <3>2, <2>1, <2>3, CloseConnKeeps
  <2> QED
    BY <2>4, <2>5
<1> QED
  BY <1>3, <1>4, <1>5, <1>6

(* An answer that has come leaves nothing asked for.                       *)
LEMMA AnsweredFacts ==
    ASSUME TypeOK, AskedInv, answer # "none"
    PROVE  /\ Alike(queue) /\ Unasked(queue)
           /\ pc # "first" => queue = <<>>
  BY QueueFacts DEF AskedInv, Unasked

(* ExecContext, QueryContext and Rows.                                     *)
LEMMA CallsKeep ==
    ASSUME ConnIInv, CallDone \/ RowsClose \/ RowsCancelled PROVE ConnIInv'
<1>1. TypeOK /\ AskedInv /\ PlaceInv /\ HolderInv /\ InsideInv
  BY DEF ConnIInv
<1>2. /\ rows \in BOOLEAN /\ inTx \in BOOLEAN /\ poisoned \in BOOLEAN
      /\ cancellable \in BOOLEAN
      /\ tx \in {"none", "rw", "ro"} /\ lease \in Nat /\ lease <= MaxLease
      /\ ctx \in {"live", "done"} /\ answer \in {"none", "ok", "err"} /\ MaxLease \in Nat
  BY <1>1, LeaseAssumption, BuildsAssumption DEF TypeOK
<1>3. CASE CallDone
  <2>1. /\ pc \in {"exec", "first"} /\ pc' = "ready"
        /\ UNCHANGED <<cancellable, lease, ctx, tx, inTx, dbVars>>
    BY <1>3 DEF CallDone
  <2>2. NoEnds /\ lease >= 1 /\ (tx # "none" => lease \in {txBy, rolledBack})
    BY <2>1, <1>1, NoEndsQueued DEF HolderInv, InsideInv
  <2>3. /\ lease' \in {lease, lease + 1} /\ lease' \in 1..MaxLease
        /\ tx' \in {"none", "rw", "ro"} /\ tx' = tx
        /\ cancellable' = cancellable /\ dbVars' = dbVars
        /\ inTx' \in BOOLEAN /\ ctx' \in {"live", "done"}
        /\ tx' # "none" => lease' = lease /\ lease \in {txBy, rolledBack}
    BY <2>1, <2>2, <1>2
  <2>4. CASE Succeeds /\ rows' = (rows \/ pc = "first") /\ UNCHANGED <<queue, poisoned>>
    <3>1. answer # "none" /\ answer' = "none"
      BY <2>4 DEF Succeeds
    <3>2. Alike(queue') /\ Unasked(queue')
      BY <3>1, <2>4, <1>1, AnsweredFacts
    <3>3. rows' \in BOOLEAN /\ poisoned' \in BOOLEAN
      BY <2>4, <1>2
    <3> QED
      BY <3>1, <3>2, <3>3, <2>1, <2>2, <2>3, NothingPosted
  <2>5. CASE /\ \E q \in Outcomes : Fails(q) /\ queue' = q
             /\ poisoned' = Classified /\ UNCHANGED rows
    <3>1. PICK q \in Outcomes : Fails(q) /\ queue' = q
      BY <2>5
    <3>2. Alike(q) /\ Unasked(q) /\ answer' = "none"
      BY <3>1, <1>1, FailsFacts
    <3>3. Alike(queue') /\ Unasked(queue')
      BY <3>1, <3>2
    <3>4. rows' \in BOOLEAN /\ poisoned' \in BOOLEAN
      BY <2>5, <1>2 DEF Classified
    <3> QED
      BY <3>2, <3>3, <3>4, <2>1, <2>2, <2>3, NothingPosted
  <2> QED
    BY <2>4, <2>5, <1>3 DEF CallDone
<1>4. CASE RowsClose
  <2>1. /\ rows' = FALSE /\ queue' = Marked("open", "closed")
        /\ UNCHANGED callVars /\ tx' = tx /\ inTx' = inTx /\ dbVars' = dbVars
        /\ poisoned' = poisoned
    BY <1>4 DEF RowsClose
  <2>2. ~ rows' /\ rows' \in BOOLEAN /\ poisoned' \in BOOLEAN /\ (pc = "idle" => ~ poisoned')
    BY <2>1, <1>1, <1>2 DEF HolderInv
  <2> QED
    BY <2>1, <2>2, RowsRunOut
<1>5. CASE RowsCancelled
  <2>1. /\ rows /\ rows' = FALSE /\ queue' = Marked("open", "cancelled")
        /\ UNCHANGED callVars /\ tx' = tx /\ inTx' = inTx /\ dbVars' = dbVars
        /\ poisoned' \in {poisoned, poisoned \/ ~ cancellable}
    BY <1>5 DEF RowsCancelled
  <2>2. ~ rows' /\ rows' \in BOOLEAN /\ poisoned' \in BOOLEAN
    BY <2>1, <1>2
  <2>3. pc = "idle" => ~ poisoned'
    BY <2>1, <1>1 DEF HolderInv
  <2> QED
    BY <2>1, <2>2, <2>3, RowsRunOut
<1> QED
  BY <1>3, <1>4, <1>5

(* BeginTx and Tx.finish.                                                  *)
LEMMA TxKeeps ==
    ASSUME ConnIInv,
           \/ OnDone \/ BeginDone \/ BeginFailed \/ UndoDone \/ FinishDone \/ OffDone
    PROVE  ConnIInv'
<1>1. TypeOK /\ AskedInv /\ PlaceInv /\ HolderInv /\ InsideInv
  BY DEF ConnIInv
<1>2. /\ rows \in BOOLEAN /\ inTx \in BOOLEAN /\ poisoned \in BOOLEAN
      /\ cancellable \in BOOLEAN
      /\ tx \in {"none", "rw", "ro"} /\ lease \in Nat /\ lease <= MaxLease
      /\ ctx \in {"live", "done"} /\ answer \in {"none", "ok", "err"} /\ MaxLease \in Nat
  BY <1>1, LeaseAssumption, BuildsAssumption DEF TypeOK
<1>3. pc # "idle" => lease \in 1..MaxLease
  BY <1>1, <1>2 DEF HolderInv
<1>4. CASE OnDone
  <2>1. pc = "on" /\ UNCHANGED <<cancellable, lease, ctx, tx, rows, inTx, dbVars>>
    BY <1>4 DEF OnDone
  <2>2. tx = "none" /\ NoEnds
    BY <2>1, <1>1, NoEndsQueued DEF HolderInv
  <2>3. /\ lease' \in {lease, lease + 1} /\ lease' \in 1..MaxLease
        /\ tx' = "none" /\ cancellable' = cancellable /\ dbVars' = dbVars
        /\ rows' \in BOOLEAN /\ inTx' \in BOOLEAN /\ ctx' \in {"live", "done"}
    BY <2>1, <2>2, <1>2, <1>3
  <2>4. CASE Succeeds /\ Post(queue, "BEGIN", "beginRO") /\ UNCHANGED poisoned
    <3>1. answer # "none" /\ answer' = "none" /\ pc' = "beginRO" /\ poisoned' \in BOOLEAN
      BY <2>4, <1>2 DEF Succeeds, Post
    <3>2. queue' = Append(queue, [op |-> "BEGIN", by |-> lease',
                                  tx |-> tx # "none", state |-> "asked"])
      BY <2>1, <2>4 DEF Post, Statement
    <3>3. Alike(queue) /\ Unasked(queue)
      BY <3>1, <1>1, AnsweredFacts
    <3>4. "beginRO" \in Calls \cup Unstoppable /\ Awaits("beginRO", "BEGIN")
      BY DEF Awaits, Calls
    <3>5. tx' = tx
      BY <2>1
    <3> QED
      BY <3>1, <3>2, <3>3, <3>4, <3>5, <2>2, <2>3, Posted
  <2>5. CASE /\ \E q \in Outcomes : Fails(q) /\ queue' = q
             /\ pc' = "ready" /\ poisoned' = Classified
    <3>1. PICK q \in Outcomes : Fails(q) /\ queue' = q
      BY <2>5
    <3>2. Alike(q) /\ Unasked(q) /\ answer' = "none"
      BY <3>1, <1>1, FailsFacts
    <3>3. Alike(queue') /\ Unasked(queue') /\ poisoned' \in BOOLEAN
      BY <3>1, <3>2, <2>5, <1>2 DEF Classified
    <3> QED
      BY <3>2, <3>3, <2>2, <2>3, <2>5, NothingPosted
  <2> QED
    BY <2>4, <2>5, <1>4 DEF OnDone
<1>5. CASE BeginDone
  <2>1. /\ pc \in {"begin", "beginRO"} /\ answer = "ok" /\ answer' = "none"
        /\ pc' = "ready" /\ inTx' = TRUE /\ tx' \in {"none", "rw", "ro"}
        /\ UNCHANGED <<cancellable, lease, ctx, rows, poisoned, queue, dbVars>>
    BY <1>5 DEF BeginDone, Succeeds
  <2>2. queue = <<>> /\ Alike(queue) /\ Unasked(queue) /\ NoEnds
    BY <2>1, <1>1, AnsweredFacts, NoEndsQueued
  <2>3. Alike(queue') /\ Unasked(queue')
    BY <2>1, <2>2
  <2>4. /\ lease' \in {lease, lease + 1} /\ lease' \in 1..MaxLease
        /\ cancellable' = cancellable /\ dbVars' = dbVars
        /\ rows' \in BOOLEAN /\ inTx' \in BOOLEAN /\ poisoned' \in BOOLEAN
        /\ ctx' \in {"live", "done"}
        /\ tx' # "none" => lease' = lease /\ lease \in {txBy, rolledBack}
    BY <2>1, <1>1, <1>2, <1>3 DEF InsideInv
  <2> QED
    BY <2>1, <2>2, <2>3, <2>4, NothingPosted
<1>6. CASE BeginFailed
  <2>1. PICK q \in Outcomes :
           /\ Fails(q)
           /\ \/ /\ pc = "begin"
                 /\ pc' = "ready" /\ queue' = q /\ poisoned' = Classified
              \/ /\ pc = "beginRO"
                 /\ Post(q, "OFF", "undo") /\ UNCHANGED poisoned
    BY <1>6 DEF BeginFailed
  <2>2. UNCHANGED <<cancellable, lease, ctx, tx, rows, inTx, dbVars>>
    BY <1>6 DEF BeginFailed
  <2>3. Alike(q) /\ Unasked(q) /\ answer' = "none"
    BY <2>1, <1>1, FailsFacts
  <2>4. tx = "none" /\ NoEnds /\ pc # "idle"
    BY <2>1, <1>1, NoEndsQueued DEF HolderInv
  <2>5. /\ lease' \in {lease, lease + 1} /\ lease' \in 1..MaxLease
        /\ tx' = "none" /\ cancellable' = cancellable /\ dbVars' = dbVars
        /\ rows' \in BOOLEAN /\ inTx' \in BOOLEAN /\ ctx' \in {"live", "done"}
    BY <2>2, <2>4, <1>2, <1>3
  <2>6. CASE pc' = "ready" /\ queue' = q /\ poisoned' = Classified
    <3>1. Alike(queue') /\ Unasked(queue') /\ poisoned' \in BOOLEAN
      BY <2>3, <2>6, <1>2 DEF Classified
    <3> QED
      BY <3>1, <2>3, <2>4, <2>5, <2>6, NothingPosted
  <2>7. CASE Post(q, "OFF", "undo") /\ UNCHANGED poisoned
    <3>1. queue' = Append(q, [op |-> "OFF", by |-> lease',
                              tx |-> tx # "none", state |-> "asked"])
      BY <2>2, <2>7 DEF Post, Statement
    <3>2. "undo" \in Calls \cup Unstoppable /\ Awaits("undo", "OFF")
      BY DEF Awaits, Unstoppable
    <3>3. pc' = "undo" /\ tx' = tx /\ poisoned' \in BOOLEAN
      BY <2>2, <2>7, <1>2 DEF Post
    <3> QED
      BY <3>1, <3>2, <3>3, <2>3, <2>4, <2>5, Posted
  <2> QED
    BY <2>1, <2>6, <2>7
<1>7. CASE UndoDone
  <2>1. /\ pc = "undo" /\ answer # "none" /\ answer' = "none"
        /\ pc' = "ready" /\ poisoned' = Classified
        /\ UNCHANGED <<cancellable, lease, ctx, tx, rows, inTx, queue, dbVars>>
    BY <1>7 DEF UndoDone
  <2>2. tx = "none" /\ NoEnds /\ Alike(queue) /\ Unasked(queue)
    BY <2>1, <1>1, AnsweredFacts, NoEndsQueued DEF HolderInv
  <2>3. Alike(queue') /\ Unasked(queue')
    BY <2>1, <2>2
  <2>4. /\ lease' \in {lease, lease + 1} /\ lease' \in 1..MaxLease
        /\ tx' = "none" /\ cancellable' = cancellable /\ dbVars' = dbVars
        /\ rows' \in BOOLEAN /\ inTx' \in BOOLEAN /\ poisoned' \in BOOLEAN
        /\ ctx' \in {"live", "done"}
    BY <2>1, <2>2, <1>2, <1>3 DEF Classified
  <2> QED
    BY <2>1, <2>2, <2>3, <2>4, NothingPosted
<1>8. CASE FinishDone
  <2>1. /\ pc = "finish" /\ answer # "none" /\ answer' = "none"
        /\ inTx' = StillInTx
        /\ UNCHANGED <<cancellable, lease, ctx, rows, poisoned, dbVars>>
    BY <1>8 DEF FinishDone
  <2>2. queue = <<>> /\ NoEnds /\ Alike(queue) /\ Unasked(queue)
    BY <2>1, <1>1, AnsweredFacts, NoEndsQueued
  <2>3. /\ lease' \in {lease, lease + 1} /\ lease' \in 1..MaxLease /\ lease' = lease
        /\ cancellable' = cancellable /\ dbVars' = dbVars
        /\ rows' \in BOOLEAN /\ inTx' \in BOOLEAN /\ poisoned' \in BOOLEAN
        /\ ctx' \in {"live", "done"}
    BY <2>1, <1>2, <1>3 DEF StillInTx
  <2>4. CASE tx = "ro"
    <3>1. Post(queue, "OFF", "off") /\ tx' = tx
      BY <2>4, <1>8 DEF FinishDone
    <3>2. queue' = Append(queue, [op |-> "OFF", by |-> lease',
                                  tx |-> tx # "none", state |-> "asked"])
      BY <3>1, <2>3 DEF Post, Statement
    <3>3. "off" \in Calls \cup Unstoppable /\ Awaits("off", "OFF")
      BY DEF Awaits, Unstoppable
    <3>4. pc' = "off" /\ answer' = "none"
      BY <3>1, <2>1 DEF Post
    <3> QED
      BY <3>1, <3>2, <3>3, <3>4, <2>2, <2>3, Posted
  <2>5. CASE tx # "ro"
    <3>1. pc' = "ready" /\ tx' = "none" /\ queue' = queue
      BY <2>5, <1>8 DEF FinishDone
    <3>2. Alike(queue') /\ Unasked(queue')
      BY <3>1, <2>2
    <3> QED
      BY <3>1, <3>2, <2>1, <2>2, <2>3, NothingPosted
  <2> QED
    BY <2>4, <2>5
<1>9. CASE OffDone
  <2>1. /\ pc = "off" /\ answer # "none" /\ answer' = "none"
        /\ pc' = "ready" /\ tx' = "none"
        /\ UNCHANGED <<cancellable, lease, ctx, rows, inTx, poisoned, queue, dbVars>>
    BY <1>9 DEF OffDone
  <2>2. NoEnds /\ Alike(queue) /\ Unasked(queue)
    BY <2>1, <1>1, AnsweredFacts, NoEndsQueued
  <2>3. Alike(queue') /\ Unasked(queue')
    BY <2>1, <2>2
  <2>4. /\ lease' \in {lease, lease + 1} /\ lease' \in 1..MaxLease
        /\ cancellable' = cancellable /\ dbVars' = dbVars
        /\ rows' \in BOOLEAN /\ inTx' \in BOOLEAN /\ poisoned' \in BOOLEAN
        /\ ctx' \in {"live", "done"}
    BY <2>1, <1>2, <1>3
  <2> QED
    BY <2>1, <2>2, <2>3, <2>4, NothingPosted
<1> QED
  BY <1>4, <1>5, <1>6, <1>7, <1>8, <1>9

-----------------------------------------------------------------------------
(* The steps of the worker.                                                *)

(* A statement that is over leaves the queue, and the driver as it was.    *)
LEMMA OverFacts ==
    ASSUME ConnIInv, queue # <<>>, UNCHANGED <<cancellable, lease, pc, ctx, goVars>>,
           NEW res \in {"ok", "err"}, Over(res),
           txBy' \in 0..MaxLease, roBy' \in 0..MaxLease, rolledBack' \in 0..MaxLease
    PROVE  /\ TypeOK' /\ AskedInv' /\ PlaceInv' /\ HolderInv'
           /\ pc \in {"begin", "beginRO"} /\ answer' = "ok" =>
                 Here.op = "BEGIN" /\ Here.by = lease /\ res = "ok"
<1>1. TypeOK /\ AskedInv /\ PlaceInv /\ HolderInv
  BY DEF ConnIInv
<1>2. /\ Len(queue) \in Nat /\ Len(queue) >= 1 /\ Here = queue[1] /\ Here \in Entry
      /\ queue' \in Seq(Entry) /\ Len(queue') = Len(queue) - 1
      /\ \A i \in 1..Len(queue') : queue'[i] = queue[i + 1] /\ i + 1 \in 1..Len(queue)
  BY <1>1, QueueFacts, TailFacts DEF Over
<1>3. /\ cancellable' = cancellable /\ lease' = lease /\ pc' = pc /\ ctx' = ctx
      /\ tx' = tx /\ rows' = rows /\ inTx' = inTx /\ poisoned' = poisoned
  BY DEF goVars
<1>4. answer' = IF Here.state = "asked" THEN res ELSE answer
  BY DEF Over, Answer
<1>5. CASE Here.state = "asked"
  <2>1. Len(queue) = 1 /\ Awaits(pc, Here.op) /\ Here.by = lease /\ answer' = res
    BY <1>1, <1>2, <1>4, <1>5 DEF AskedInv
  <2>2. queue' = <<>> /\ Len(queue') = 0
    BY <2>1, <1>2, EmptySeq
  <2>3. pc \in Calls \cup Unstoppable
    BY <2>1 DEF Awaits, Calls, Unstoppable
  <2>4. TypeOK'
    BY <2>1, <2>3, <1>1, <1>2, <1>3 DEF TypeOK, Entry
  <2>5. AskedInv' /\ PlaceInv'
    BY <2>2 DEF AskedInv, PlaceInv
  <2>6. HolderInv'
    BY <1>1, <1>3 DEF HolderInv
  <2> QED
    BY <2>1, <2>4, <2>5, <2>6 DEF Awaits
<1>6. CASE Here.state # "asked"
  <2>1. answer' = answer
    BY <1>4, <1>6
  <2>2. TypeOK'
    BY <2>1, <1>1, <1>2, <1>3 DEF TypeOK, Entry
  <2>3. answer # "none" => pc = "first"
    BY <1>1 DEF AskedInv
  <2>4. AskedInv'
    <3>1. ASSUME NEW i \in 1..Len(queue'), queue'[i].state = "asked"
          PROVE  /\ i = Len(queue') /\ queue'[i].by = lease'
                 /\ answer' = "none" /\ Awaits(pc', queue'[i].op)
      <4>1. i + 1 = Len(queue)
        BY <3>1, <1>1, <1>2 DEF AskedInv
      <4> QED
        BY <3>1, <4>1, <1>1, <1>2, <1>3, <2>1 DEF AskedInv
    <3> QED
      BY <3>1, <2>1, <2>3, <1>3 DEF AskedInv
  <2>5. PlaceInv'
    <3>1. ASSUME NEW i \in 1..Len(queue')
          PROVE  /\ queue'[i].by >= 1 /\ queue'[i].by <= lease'
                 /\ queue'[i].op = "COMMIT" => pc' = "finish"
                 /\ queue'[i].op = "ROLLBACK" => pc' \in {"finish", "reset", "closed"}
                 /\ queue'[i].op = "CLOSE" => pc' = "closed"
                 /\ queue'[i].op = "BEGIN" => tx' = "none"
      BY <3>1, <1>1, <1>2, <1>3 DEF PlaceInv
    <3>2. ASSUME NEW i \in 1..Len(queue'), NEW j \in 1..Len(queue'), i < j
          PROVE  /\ queue'[i].op \in {"COMMIT", "ROLLBACK", "CLOSE"} => queue'[j].op = "CLOSE"
                 /\ queue'[i].op = "BEGIN" => ~ queue'[j].tx
      <4>1. i + 1 < j + 1
        BY <3>2
      <4> QED
        BY <3>2, <4>1, <1>1, <1>2 DEF PlaceInv
    <3> QED
      BY <3>1, <3>2 DEF PlaceInv
  <2>6. HolderInv'
    BY <1>1, <1>3 DEF HolderInv
  <2> QED
    BY <2>1, <2>2, <2>3, <2>4, <2>5, <2>6
<1> QED
  BY <1>5, <1>6

(* A statement that is over, and what it did to the transaction.           *)
LEMMA OverKeeps ==
    ASSUME ConnIInv, queue # <<>>, UNCHANGED <<cancellable, lease, pc, ctx, goVars>>,
           NEW res \in {"ok", "err"}, Over(res),
           txBy' \in 0..MaxLease, roBy' \in 0..MaxLease, rolledBack' \in 0..MaxLease,
           txBy' = 0 \/ rolledBack' = 0,
           Here.op = "BEGIN" /\ res = "ok" => txBy' = Here.by,
           \/ {txBy, rolledBack} \subseteq {txBy', rolledBack'}
           \/ Here.op \in {"BEGIN", "COMMIT", "ROLLBACK", "CLOSE"}
    PROVE  ConnIInv'
<1>1. TypeOK /\ AskedInv /\ PlaceInv /\ HolderInv /\ InsideInv
  BY DEF ConnIInv
<1>2. /\ TypeOK' /\ AskedInv' /\ PlaceInv' /\ HolderInv'
      /\ pc \in {"begin", "beginRO"} /\ answer' = "ok" =>
            Here.op = "BEGIN" /\ Here.by = lease /\ res = "ok"
  BY OverFacts
<1>3. /\ Len(queue) \in Nat /\ Len(queue) >= 1 /\ Here = queue[1] /\ Here \in Entry
      /\ Len(queue') = Len(queue) - 1
      /\ \A i \in 1..Len(queue') : queue'[i] = queue[i + 1] /\ i + 1 \in 1..Len(queue)
  BY <1>1, QueueFacts, TailFacts DEF Over
<1>4. lease' = lease /\ pc' = pc /\ tx' = tx
  BY DEF goVars
<1>5. tx # "none" /\ pc \notin {"finish", "off"} => lease \in {txBy', rolledBack'}
  <2>1. CASE Here.op \in {"BEGIN", "COMMIT", "ROLLBACK", "CLOSE"}
    BY <2>1, <1>1, <1>3 DEF PlaceInv, HolderInv
  <2>2. CASE {txBy, rolledBack} \subseteq {txBy', rolledBack'}
    BY <2>2, <1>1 DEF InsideInv
  <2> QED
    BY <2>1, <2>2
<1>6. ASSUME NEW i \in 1..Len(queue'), queue'[i].op \in {"WORK", "SCAN"}, queue'[i].tx
      PROVE  queue'[i].by \in {txBy', rolledBack'}
  <2>1. /\ queue[i + 1].op \in {"WORK", "SCAN"} /\ queue[i + 1].tx /\ i + 1 \in 1..Len(queue)
        /\ queue'[i].by = queue[i + 1].by /\ 1 < i + 1 /\ 1 \in 1..Len(queue)
    BY <1>6, <1>3
  <2>2. Here.op \notin {"BEGIN", "COMMIT", "ROLLBACK", "CLOSE"}
    BY <2>1, <1>1, <1>3 DEF PlaceInv
  <2>3. queue[i + 1].by \in {txBy, rolledBack}
    BY <2>1, <1>1 DEF InsideInv
  <2> QED
    BY <2>1, <2>2, <2>3
<1>7. InsideInv'
  BY <1>2, <1>4, <1>5, <1>6 DEF InsideInv
<1> QED
  BY <1>2, <1>7 DEF ConnIInv

(* What the worker runs.                                                   *)
LEMMA WorkerKeeps ==
    ASSUME ConnIInv,
           \/ RunBegin \/ RunCommit \/ RunRollback \/ RunPragma \/ RunWork
           \/ RunClose
    PROVE  ConnIInv'
<1>1. TypeOK /\ InsideInv /\ PlaceInv
  BY DEF ConnIInv
<1>2. queue # <<>> /\ UNCHANGED <<cancellable, lease, pc, ctx, goVars>>
  BY DEF RunBegin, RunCommit, RunRollback, RunPragma, RunWork, RunClose, Runs
<1>3. Here.by \in 0..MaxLease
  BY <1>1, <1>2, TailFacts DEF Entry
<1>4. /\ txBy \in 0..MaxLease /\ roBy \in 0..MaxLease /\ rolledBack \in 0..MaxLease
      /\ 0 \in 0..MaxLease /\ (txBy = 0 \/ rolledBack = 0)
  BY <1>1, LeaseAssumption DEF TypeOK, InsideInv
<1>5. CASE RunBegin
  <2>1. CASE txBy' = Here.by /\ rolledBack' = 0 /\ Over("ok")
    <3>1. Here.op = "BEGIN" /\ roBy' = roBy
      BY <1>5 DEF RunBegin, Runs
    <3> QED
      BY <2>1, <3>1, <1>2, <1>3, <1>4, OverKeeps
  <2>2. CASE UNCHANGED <<txBy, rolledBack>> /\ Over("err")
    <3>1. Here.op = "BEGIN" /\ roBy' = roBy /\ txBy' = txBy /\ rolledBack' = rolledBack
      BY <2>2, <1>5 DEF RunBegin, Runs
    <3> QED
      BY <2>2, <3>1, <1>2, <1>4, OverKeeps
  <2> QED
    BY <2>1, <2>2, <1>5 DEF RunBegin
<1>6. CASE RunCommit
  <2>1. /\ Here.op = "COMMIT" /\ roBy' = roBy /\ rolledBack' = rolledBack
        /\ txBy' \in {0, txBy}
    BY <1>6 DEF RunCommit, Runs
  <2>2. PICK res \in {"ok", "err"} : Over(res)
    BY <1>6 DEF RunCommit
  <2> QED
    BY <2>1, <2>2, <1>2, <1>4, OverKeeps
<1>7. CASE RunRollback
  <2>1. /\ Here.op = "ROLLBACK" /\ roBy' = roBy /\ rolledBack' = rolledBack /\ txBy' = 0
    BY <1>7 DEF RunRollback, Runs
  <2>2. PICK res \in {"ok", "err"} : Over(res)
    BY <1>7 DEF RunRollback
  <2> QED
    BY <2>1, <2>2, <1>2, <1>4, OverKeeps
<1>8. CASE RunPragma
  <2>1. /\ Here.op \in {"ON", "OFF"} /\ txBy' = txBy /\ rolledBack' = rolledBack
        /\ roBy' \in {0, Here.by} /\ Over("ok")
    BY <1>8 DEF RunPragma, Runs
  <2> QED
    BY <2>1, <1>2, <1>3, <1>4, OverKeeps
<1>9. CASE RunWork
  <2>1. Here.op = "WORK" /\ roBy' = roBy
    BY <1>9 DEF RunWork, Runs
  <2>2. CASE \E res \in {"ok", "err"} : Over(res) /\ UNCHANGED <<txBy, rolledBack>>
    <3>1. PICK res \in {"ok", "err"} : Over(res) /\ UNCHANGED <<txBy, rolledBack>>
      BY <2>2
    <3> QED
      BY <2>1, <3>1, <1>2, <1>4, OverKeeps
  <2>3. CASE txBy # 0 /\ txBy' = 0 /\ rolledBack' = txBy /\ Over("err")
    <3>1. {txBy, rolledBack} \subseteq {txBy', rolledBack'}
      BY <2>3, <1>4
    <3> QED
      BY <2>1, <2>3, <3>1, <1>2, <1>4, OverKeeps
  <2> QED
    BY <2>2, <2>3, <1>9 DEF RunWork
<1>10. CASE RunClose
  <2>1. /\ Here.op = "CLOSE" /\ txBy' = 0 /\ roBy' = 0 /\ rolledBack' = rolledBack
        /\ Over("ok")
    BY <1>10 DEF RunClose, Runs
  <2> QED
    BY <2>1, <1>2, <1>4, OverKeeps
<1> QED
  BY <1>5, <1>6, <1>7, <1>8, <1>9, <1>10

(* A stream that answers stays at the front of the queue.                  *)
LEMMA ScanOpens ==
    ASSUME ConnIInv, queue # <<>>, Here.op = "SCAN", Here.state = "asked", answer' = "ok",
           UNCHANGED <<cancellable, lease, pc, ctx, goVars>>, UNCHANGED dbVars,
           queue' = [queue EXCEPT ![1].state = "open"]
    PROVE  ConnIInv'
<1>1. TypeOK /\ AskedInv /\ PlaceInv /\ HolderInv /\ InsideInv
  BY DEF ConnIInv
<1>2. /\ queue \in Seq(Entry) /\ Len(queue) \in Nat /\ Len(queue) >= 1
      /\ Here = queue[1] /\ Here \in Entry
  BY <1>1, QueueFacts, TailFacts
<1>3. Len(queue) = 1 /\ pc = "first"
  <2>1. 1 \in 1..Len(queue) /\ queue[1].state = "asked" /\ queue[1].op = "SCAN"
    BY <1>2
  <2>2. 1 = Len(queue) /\ Awaits(pc, "SCAN")
    BY <2>1, <1>1 DEF AskedInv
  <2> QED
    BY <2>2 DEF Awaits
<1>4. queue' \in Seq(Entry) /\ Len(queue') = 1 /\ queue'[1] = [Here EXCEPT !.state = "open"]
  <2>1. [Here EXCEPT !.state = "open"] \in Entry
    BY <1>2 DEF Entry
  <2>2. queue' = [queue EXCEPT ![1] = [Here EXCEPT !.state = "open"]]
    BY <1>2
  <2> QED
    BY <2>1, <2>2, <1>2, <1>3
<1>5. /\ queue'[1].op = "SCAN" /\ queue'[1].by = Here.by /\ queue'[1].tx = Here.tx
      /\ queue'[1].state = "open" /\ \A i \in 1..Len(queue') : i = 1
  <2>1. PICK h \in Entry : h = Here
    BY <1>2
  <2>2. PICK d \in Entry : d = queue'[1]
    BY <1>4
  <2>3. d = [h EXCEPT !.state = "open"]
    BY <2>1, <2>2, <1>4, Zenon
  <2>4. d.op = h.op /\ d.by = h.by /\ d.tx = h.tx /\ d.state = "open"
    BY <2>3 DEF Entry
  <2>5. \A i \in 1..Len(queue') : i = 1
    <3>1. \A n : n = 1 => \A i \in 1..n : i = 1
      OBVIOUS
    <3> QED
      BY <3>1, <1>4, Zenon
  <2> QED
    BY <2>1, <2>2, <2>4, <2>5, Zenon
<1>6. /\ cancellable' = cancellable /\ lease' = lease /\ pc' = pc /\ ctx' = ctx
      /\ tx' = tx /\ rows' = rows /\ inTx' = inTx /\ poisoned' = poisoned
      /\ txBy' = txBy /\ roBy' = roBy /\ rolledBack' = rolledBack
  BY DEF goVars, dbVars
<1>7. TypeOK'
  BY <1>1, <1>3, <1>4, <1>6 DEF TypeOK, Entry, Calls
<1>8. AskedInv' /\ HolderInv'
  BY <1>1, <1>3, <1>5, <1>6 DEF AskedInv, HolderInv
<1>9. PlaceInv'
  <2>1. Here.by >= 1 /\ Here.by <= lease
    BY <1>1, <1>2 DEF PlaceInv
  <2> QED
    BY <2>1, <1>4, <1>5, <1>6 DEF PlaceInv
<1>10. InsideInv'
  BY <1>1, <1>2, <1>3, <1>5, <1>6 DEF InsideInv
<1> QED
  BY <1>7, <1>8, <1>9, <1>10 DEF ConnIInv

(* A stream is run.                                                        *)
LEMMA ScanKeeps == ASSUME ConnIInv, RunScan PROVE ConnIInv'
<1>1. /\ queue # <<>> /\ Here.op = "SCAN" /\ UNCHANGED <<cancellable, lease, pc, ctx, goVars>>
      /\ UNCHANGED dbVars
  BY DEF RunScan, Runs
<1>2. CASE Here.state = "asked" /\ Answer("ok") /\ queue' = [queue EXCEPT ![1].state = "open"]
  BY <1>1, <1>2, ScanOpens DEF Answer
<1>3. CASE \E res \in {"ok", "err"} : Over(res)
  <2>1. PICK res \in {"ok", "err"} : Over(res)
    BY <1>3
  <2>2. /\ txBy' = txBy /\ roBy' = roBy /\ rolledBack' = rolledBack
        /\ txBy \in 0..MaxLease /\ roBy \in 0..MaxLease /\ rolledBack \in 0..MaxLease
        /\ (txBy = 0 \/ rolledBack = 0)
    BY <1>1 DEF ConnIInv, TypeOK, InsideInv, dbVars
  <2> QED
    BY <2>1, <2>2, <1>1, OverKeeps
<1> QED
  BY <1>2, <1>3 DEF RunScan

-----------------------------------------------------------------------------
(* The specification.                                                      *)

LEMMA InitHolds == Init => ConnIInv
<1> SUFFICES ASSUME Init PROVE ConnIInv
  OBVIOUS
<1>1. Len(queue) = 0 /\ queue \in Seq(Entry) /\ queue = <<>>
  BY EmptySeq DEF Init
<1>2. TypeOK
  <2>1. 0 \in 0..MaxLease
    BY LeaseAssumption
  <2>2. queue \in Seq([op : {"WORK", "SCAN", "BEGIN", "COMMIT", "ROLLBACK", "ON",
                             "OFF", "CLOSE"},
                       by : 0..MaxLease, tx : BOOLEAN,
                       state : {"asked", "open", "cancelled", "closed"}])
    BY <1>1 DEF Entry
  <2>3. /\ cancellable \in Builds /\ lease = 0 /\ pc = "idle" /\ ctx = "live"
        /\ answer = "none" /\ tx = "none" /\ rows = FALSE /\ inTx = FALSE
        /\ poisoned = FALSE /\ txBy = 0 /\ roBy = 0 /\ rolledBack = 0
    BY DEF Init
  <2> HIDE DEF Init
  <2> QED
    BY <2>1, <2>2, <2>3 DEF TypeOK
<1>3. AskedInv /\ PlaceInv /\ HolderInv /\ InsideInv
  BY <1>1 DEF Init, AskedInv, PlaceInv, HolderInv, InsideInv
<1> QED
  BY <1>2, <1>3 DEF ConnIInv

(* Every step keeps the invariant.                                         *)
LEMMA StepKeeps == ConnIInv /\ [Next]_vars => ConnIInv'
<1> SUFFICES ASSUME ConnIInv, [Next]_vars PROVE ConnIInv'
  OBVIOUS
<1>1. CASE CtxDone \/ HandOut \/ ResetDone \/ Return
  BY <1>1, PoolKeeps
<1>2. CASE CallDone \/ RowsClose \/ RowsCancelled
  BY <1>2, CallsKeep
<1>3. CASE OnDone \/ BeginDone \/ BeginFailed \/ UndoDone \/ FinishDone \/ OffDone
  BY <1>3, TxKeeps
<1>4. CASE Exec
  BY <1>4, StartKeeps DEF Exec, Awaits
<1>5. CASE Query
  BY <1>5, StartKeeps DEF Query, Awaits
<1>6. CASE Begin
  BY <1>6, StartKeeps DEF Begin, Awaits
<1>7. CASE BeginReadOnly
  BY <1>7, StartKeeps DEF BeginReadOnly, Awaits
<1>8. CASE Finish
  BY <1>8, StartKeeps DEF Finish, Awaits
<1>9. CASE RunBegin \/ RunCommit \/ RunRollback \/ RunPragma \/ RunWork \/ RunClose
  BY <1>9, WorkerKeeps
<1>10. CASE RunScan
  BY <1>10, ScanKeeps
<1>11. CASE UNCHANGED vars
  <2>1. TypeOK'
    BY <1>11 DEF ConnIInv, TypeOK, vars, callVars, goVars, dbVars
  <2>2. AskedInv' /\ PlaceInv' /\ HolderInv' /\ InsideInv'
    BY <1>11 DEF ConnIInv, AskedInv, PlaceInv, HolderInv, InsideInv, vars, callVars,
                 goVars, dbVars
  <2> QED
    BY <2>1, <2>2 DEF ConnIInv
<1> QED
  BY <1>1, <1>2, <1>3, <1>4, <1>5, <1>6, <1>7, <1>8, <1>9, <1>10, <1>11 DEF Next

(* In every state of a connection the queue, the driver and the            *)
(* transaction stand to each other as ConnIInv says.                       *)
THEOREM ConnInvariant == Spec => []ConnIInv
<1>1. Init => ConnIInv
  BY InitHolds
<1>2. ConnIInv /\ [Next]_vars => ConnIInv'
  BY StepKeeps
<1> QED
  BY <1>1, <1>2, PTL DEF Spec

(* Every variable keeps its type, and a frame is in a route only while its *)
(* call waits for it.                                                      *)
THEOREM TypeCorrect == Spec => []TypeOK
<1>1. ConnIInv => TypeOK
  BY DEF ConnIInv
<1> QED
  BY <1>1, ConnInvariant, PTL

(* What a caller runs through a Tx runs inside its transaction, unless     *)
(* SQLite has rolled it back (tx.go, conn.go): whenever contexts end, and  *)
(* whatever is still queued from callers before it.                        *)
THEOREM TxStatementsAreInside == Spec => []TxStatementsInside
<1>1. ConnIInv => TxStatementsInside
  <2> SUFFICES ASSUME ConnIInv, queue # <<>>, Here.op \in {"WORK", "SCAN"}, Here.tx
               PROVE  Here.by \in {txBy, rolledBack}
    BY DEF TxStatementsInside
  <2>1. 1 \in 1..Len(queue) /\ Here = queue[1]
    <3>1. TypeOK
      BY DEF ConnIInv
    <3> QED
      BY <3>1, TailFacts, QueueFacts
  <2> QED
    BY <2>1 DEF ConnIInv, InsideInv
<1> QED
  BY <1>1, ConnInvariant, PTL

-----------------------------------------------------------------------------
(* What a step of the driver does to the queue.                            *)

DriverStep ==
    \/ CtxDone \/ HandOut \/ ResetDone \/ Return
    \/ Exec \/ Query \/ CallDone \/ RowsClose \/ RowsCancelled
    \/ Begin \/ BeginReadOnly \/ OnDone \/ BeginDone \/ BeginFailed \/ UndoDone
    \/ Finish \/ FinishDone \/ OffDone

WorkerStep ==
    \/ RunBegin \/ RunCommit \/ RunRollback \/ RunPragma \/ RunWork \/ RunScan
    \/ RunClose

(* The queue keeps its statements, but for their states.                   *)
Keeps ==
    /\ Len(queue') \in Nat /\ Len(queue') >= Len(queue)
    /\ \A i \in 1..Len(queue) :
          /\ queue'[i].op = queue[i].op /\ queue'[i].by = queue[i].by
          /\ pc' = pc /\ queue[i].state = "asked" => queue'[i].state = "asked"

(* It gets at most one more, last, from the caller of the step.            *)
Grows ==
    \A i \in 1..Len(queue') : i \notin 1..Len(queue) =>
        /\ i = Len(queue) + 1 /\ queue'[i].by = lease'
        /\ queue'[i].op = "BEGIN" => pc' \in {"begin", "beginRO"} /\ queue'[i].state = "asked"
        /\ queue'[i].op = "ON" => pc' = "on"
        /\ pc = "idle" => queue'[i].op = "ROLLBACK"

(* The queue stays, in other states perhaps.                               *)
LEMMA KeepsAlike ==
    ASSUME TypeOK, Alike(queue'),
           \/ pc' # pc
           \/ \A i \in 1..Len(queue) : queue[i].state = "asked" => queue'[i].state = "asked"
    PROVE  Keeps /\ Grows
<1>1. Len(queue) \in Nat /\ Len(queue') = Len(queue)
  BY QueueFacts DEF Alike
<1> QED
  BY <1>1 DEF Alike, Keeps, Grows

(* A statement is posted.                                                  *)
LEMMA KeepsPosted ==
    ASSUME TypeOK, NEW q, Alike(q), NEW e \in Entry, queue' = Append(q, e), pc' # pc,
           e.by = lease',
           e.op = "BEGIN" => pc' \in {"begin", "beginRO"} /\ e.state = "asked",
           e.op = "ON" => pc' = "on",
           pc = "idle" => e.op = "ROLLBACK"
    PROVE  Keeps /\ Grows
<1>1. /\ Len(queue) \in Nat /\ Len(queue') = Len(queue) + 1
      /\ queue'[Len(queue) + 1] = e
      /\ \A i \in 1..Len(queue) : queue'[i] = q[i]
      /\ \A i \in 1..Len(queue') : i = Len(queue) + 1 \/ i \in 1..Len(queue)
  BY PostFacts, QueueFacts
<1>2. Keeps
  BY <1>1 DEF Alike, Keeps
<1>3. Grows
  BY <1>1 DEF Grows
<1> QED
  BY <1>2, <1>3

(* The statements and the CLOSE of the driver are entries.                 *)
LEMMA StatementFacts ==
    ASSUME NEW n \in 1..MaxLease,
           NEW op \in {"WORK", "SCAN", "BEGIN", "COMMIT", "ROLLBACK", "ON", "OFF", "CLOSE"}
    PROVE  /\ Statement(op, n) \in Entry /\ Statement(op, n).op = op
           /\ Statement(op, n).by = n /\ Statement(op, n).state = "asked"
           /\ [Statement(op, n) EXCEPT !.state = "closed"] \in Entry
           /\ [Statement(op, n) EXCEPT !.state = "closed"].op = op
           /\ [Statement(op, n) EXCEPT !.state = "closed"].by = n
<1>1. n \in 0..MaxLease
  BY LeaseAssumption
<1> QED
  BY <1>1 DEF Statement, Entry

(* Every step of the driver keeps the queue and lets it grow.              *)
LEMMA DriverQueue ==
    ASSUME ConnIInv, DriverStep
    PROVE  Keeps /\ Grows /\ dbVars' = dbVars /\ cancellable' = cancellable
<1>1. TypeOK /\ AskedInv /\ HolderInv
  BY DEF ConnIInv
<1>2. lease \in Nat /\ (pc # "idle" => lease \in 1..MaxLease) /\ MaxLease \in Nat
      /\ lease <= MaxLease
  BY <1>1, LeaseAssumption DEF TypeOK, HolderInv
<1>3. Alike(queue)
  BY <1>1, QueueFacts
<1>4. CASE CtxDone
  <2>1. queue' = queue /\ dbVars' = dbVars /\ cancellable' = cancellable
    BY <1>4 DEF CtxDone, goVars
  <2> QED
    BY <2>1, <1>1, <1>3, KeepsAlike
<1>5. CASE HandOut
  <2>1. /\ pc = "idle" /\ lease' = lease + 1 /\ lease' \in 1..MaxLease
        /\ dbVars' = dbVars /\ cancellable' = cancellable
    BY <1>5, <1>2 DEF HandOut
  <2>2. CASE queue' = Append(queue, Statement("ROLLBACK", lease + 1)) /\ pc' = "reset"
    <3>1. /\ Statement("ROLLBACK", lease + 1) \in Entry
          /\ Statement("ROLLBACK", lease + 1).op = "ROLLBACK"
          /\ Statement("ROLLBACK", lease + 1).by = lease'
      <4>1. lease + 1 \in 0..MaxLease /\ lease' = lease + 1
        BY <2>1, <1>2
      <4> QED
        BY <4>1 DEF Statement, Entry
    <3> QED
      BY <2>1, <2>2, <3>1, <1>1, <1>3, KeepsPosted
  <2>3. CASE queue' = queue
    BY <2>1, <2>3, <1>1, <1>3, KeepsAlike
  <2> QED
    BY <2>2, <2>3, <1>5 DEF HandOut
<1>6. ASSUME NEW q, Alike(q), CloseConn(q), pc \in {"reset", "ready"}, lease' = lease
      PROVE  Keeps /\ Grows
  <2>1. lease \in 1..MaxLease
    BY <1>6, <1>2
  <2> DEFINE e == [Statement("CLOSE", lease) EXCEPT !.state = "closed"]
  <2>2. e \in Entry /\ e.op = "CLOSE" /\ e.by = lease'
    BY <2>1, <1>1, <1>6, StatementFacts
  <2>3. queue' = Append(q, e) /\ pc' # pc /\ pc # "idle"
    BY <1>6 DEF CloseConn
  <2> HIDE DEF e
  <2> QED
    BY <2>2, <2>3, <1>1, <1>6, KeepsPosted
<1>7. ASSUME NEW q, Alike(q), pc # "idle", pc' # pc, lease' = lease, NEW op, NEW wait,
             Post(q, op, wait), Awaits(wait, op)
      PROVE  Keeps /\ Grows
  <2>1. op \in {"WORK", "SCAN", "BEGIN", "COMMIT", "ROLLBACK", "ON", "OFF", "CLOSE"}
    BY <1>7 DEF Awaits
  <2>2. /\ Statement(op, lease) \in Entry /\ Statement(op, lease).op = op
        /\ Statement(op, lease).by = lease' /\ Statement(op, lease).state = "asked"
    <3>1. lease \in 0..MaxLease /\ lease' = lease
      BY <1>2, <1>7
    <3> QED
      BY <2>1, <3>1 DEF Statement, Entry
  <2>3. queue' = Append(q, Statement(op, lease)) /\ pc' = wait
    BY <1>7 DEF Post
  <2>4. /\ op = "BEGIN" => pc' \in {"begin", "beginRO"}
        /\ op = "ON" => pc' = "on"
    BY <2>3, <1>7 DEF Awaits
  <2> QED
    BY <2>2, <2>3, <2>4, <1>1, <1>7, KeepsPosted
<1>8. ASSUME NEW op, NEW wait, Start(op, wait), Awaits(wait, op)
      PROVE  Keeps /\ Grows /\ dbVars' = dbVars /\ cancellable' = cancellable
  <2>1. /\ pc = "ready" /\ Post(queue, op, wait) /\ pc' = wait /\ lease' = lease
        /\ dbVars' = dbVars /\ cancellable' = cancellable
    BY <1>8 DEF Start, Post, goVars
  <2>2. pc' # pc
    BY <2>1, <1>8 DEF Awaits
  <2> QED
    BY <2>1, <2>2, <1>3, <1>7, <1>8
<1>9. ASSUME NEW q, Fails(q) PROVE Alike(q)
  BY <1>1, <1>9, FailsFacts
<1>10. CASE ResetDone
  <2>1. /\ pc = "reset" /\ lease' = lease /\ dbVars' = dbVars /\ cancellable' = cancellable
    BY <1>10 DEF ResetDone, goVars
  <2>2. CASE pc' = "ready" /\ queue' = queue
    BY <2>1, <2>2, <1>1, <1>3, KeepsAlike
  <2>3. CASE \E q \in Outcomes : Fails(q) /\ CloseConn(q)
    BY <2>1, <2>3, <1>6, <1>9
  <2> QED
    BY <2>1, <2>2, <2>3, <1>10 DEF ResetDone
<1>11. CASE Return
  <2>1. /\ pc = "ready" /\ lease' = lease /\ dbVars' = dbVars /\ cancellable' = cancellable
    BY <1>11 DEF Return, goVars
  <2>2. CASE pc' = "idle" /\ queue' = queue
    BY <2>1, <2>2, <1>1, <1>3, KeepsAlike
  <2>3. CASE CloseConn(queue)
    BY <2>1, <2>3, <1>3, <1>6
  <2> QED
    BY <2>1, <2>2, <2>3, <1>11 DEF Return
<1>12. CASE Exec \/ Query \/ Begin \/ BeginReadOnly \/ Finish
  <2>1. PICK op \in {"WORK", "SCAN", "BEGIN", "ON", "COMMIT", "ROLLBACK"},
             wait \in {"exec", "first", "begin", "on", "finish"} :
           Start(op, wait) /\ Awaits(wait, op)
    BY <1>12 DEF Exec, Query, Begin, BeginReadOnly, Finish, Awaits
  <2> QED
    BY <2>1, <1>8
<1>13. CASE CallDone
  <2>1. /\ pc # "ready" /\ pc' = "ready" /\ dbVars' = dbVars /\ cancellable' = cancellable
    BY <1>13 DEF CallDone
  <2>2. Alike(queue')
    BY <1>3, <1>9, <1>13 DEF CallDone
  <2> QED
    BY <2>1, <2>2, <1>1, KeepsAlike
<1>14. CASE RowsClose \/ RowsCancelled
  <2>1. PICK to \in {"closed", "cancelled"} : queue' = Marked("open", to)
    BY <1>14 DEF RowsClose, RowsCancelled
  <2>2. /\ dbVars' = dbVars /\ cancellable' = cancellable
    BY <1>14 DEF RowsClose, RowsCancelled, callVars
  <2>3. /\ Alike(queue')
        /\ \A i \in 1..Len(queue) : queue[i].state = "asked" => queue'[i].state = "asked"
    BY <2>1, <1>1, MarkedFacts
  <2> QED
    BY <2>2, <2>3, <1>1, KeepsAlike
<1>15. CASE OnDone
  <2>1. /\ pc = "on" /\ lease' = lease /\ dbVars' = dbVars /\ cancellable' = cancellable
    BY <1>15 DEF OnDone
  <2>2. CASE Post(queue, "BEGIN", "beginRO")
    <3>1. pc' # pc /\ Awaits("beginRO", "BEGIN")
      BY <2>1, <2>2 DEF Post, Awaits
    <3> QED
      BY <2>1, <2>2, <3>1, <1>3, <1>7
  <2>3. CASE (\E q \in Outcomes : Fails(q) /\ queue' = q) /\ pc' = "ready"
    <3>1. Alike(queue') /\ pc' # pc
      BY <2>1, <2>3, <1>9
    <3> QED
      BY <2>1, <3>1, <1>1, KeepsAlike
  <2> QED
    BY <2>2, <2>3, <1>15 DEF OnDone
<1>16. CASE BeginDone \/ UndoDone \/ OffDone
  <2>1. /\ queue' = queue /\ pc' # pc /\ dbVars' = dbVars /\ cancellable' = cancellable
    BY <1>16 DEF BeginDone, UndoDone, OffDone
  <2> QED
    BY <2>1, <1>1, <1>3, KeepsAlike
<1>17. CASE BeginFailed
  <2>1. PICK q \in Outcomes :
           /\ Fails(q)
           /\ \/ pc = "begin" /\ pc' = "ready" /\ queue' = q /\ poisoned' = Classified
              \/ pc = "beginRO" /\ Post(q, "OFF", "undo") /\ UNCHANGED poisoned
    BY <1>17 DEF BeginFailed
  <2>2. /\ lease' = lease /\ dbVars' = dbVars /\ cancellable' = cancellable
    BY <2>1, <1>17 DEF BeginFailed
  <2>3. CASE pc = "begin" /\ pc' = "ready" /\ queue' = q
    BY <2>1, <2>2, <2>3, <1>1, <1>9, KeepsAlike
  <2>4. CASE pc = "beginRO" /\ Post(q, "OFF", "undo")
    <3>1. pc' # pc /\ Awaits("undo", "OFF")
      BY <2>4 DEF Post, Awaits
    <3> QED
      BY <2>1, <2>2, <2>4, <3>1, <1>7, <1>9
  <2> QED
    BY <2>1, <2>3, <2>4
<1>18. CASE FinishDone
  <2>1. /\ pc = "finish" /\ lease' = lease /\ dbVars' = dbVars /\ cancellable' = cancellable
    BY <1>18 DEF FinishDone
  <2>2. CASE Post(queue, "OFF", "off")
    <3>1. pc' # pc /\ Awaits("off", "OFF")
      BY <2>1, <2>2 DEF Post, Awaits
    <3> QED
      BY <2>1, <2>2, <3>1, <1>3, <1>7
  <2>3. CASE pc' = "ready" /\ queue' = queue
    BY <2>1, <2>3, <1>1, <1>3, KeepsAlike
  <2> QED
    BY <2>1, <2>2, <2>3, <1>18 DEF FinishDone
<1> QED
  BY <1>4, <1>5, <1>10, <1>11, <1>12, <1>13, <1>14, <1>15, <1>16, <1>17, <1>18 DEF DriverStep

(* A poisoned connection stays so.                                         *)
LEMMA StaysPoisoned == ASSUME TypeOK, DriverStep, poisoned PROVE poisoned'
<1>1. Classified
  BY DEF Classified
<1>2. CASE CallDone \/ OnDone \/ UndoDone \/ BeginFailed
  <2>1. poisoned' = Classified \/ poisoned' = poisoned
    BY <1>2, Zenon DEF CallDone, OnDone, UndoDone, BeginFailed
  <2> QED
    BY <1>1, <2>1, Zenon
<1>3. CASE RowsCancelled
  BY <1>3, Zenon DEF RowsCancelled
<1>4. CASE \/ CtxDone \/ HandOut \/ ResetDone \/ Return \/ Exec \/ Query \/ RowsClose
           \/ Begin \/ BeginReadOnly \/ BeginDone \/ Finish \/ FinishDone \/ OffDone
  <2>1. poisoned' = poisoned
    BY <1>4 DEF CtxDone, HandOut, ResetDone, Return, Exec, Query, RowsClose, Begin,
                BeginReadOnly, BeginDone, Finish, FinishDone, OffDone, Start, goVars
  <2> QED
    BY <2>1
<1> QED
  BY <1>2, <1>3, <1>4 DEF DriverStep

-----------------------------------------------------------------------------
(* Strangers: the steps of the driver.                                     *)

(* A connection in the pool has nothing queued that opens or ends a        *)
(* transaction, and what is open is known to the driver.                   *)
LEMMA IdleFacts ==
    ASSUME ConnIInv, StrangerIInv, pc = "idle"
    PROVE  /\ \A i \in 1..Len(queue) : queue[i].op \notin {"ROLLBACK", "BEGIN", "ON"}
           /\ txBy \in {0, lease} /\ (txBy # 0 => inTx) /\ roBy = 0
<1>1. tx = "none" /\ ~ poisoned
  BY DEF ConnIInv, HolderInv
<1>2. \A i \in 1..Len(queue) : queue[i].op # "ROLLBACK"
  BY DEF ConnIInv, PlaceInv
<1>3. \A i \in 1..Len(queue) : queue[i].op \notin {"BEGIN", "ON"}
  BY <1>1 DEF StrangerIInv, AwaitInv, Undoing
<1>4. txBy \in {0, lease}
  BY <1>2 DEF StrangerIInv, OrderInv, RollbackAhead
<1>5. txBy # 0 => inTx
  BY <1>1 DEF StrangerIInv, KnownInv, Undoing
<1>6. roBy = 0
  BY <1>1 DEF StrangerIInv, ReadOnlyInv
<1> QED
  BY <1>2, <1>3, <1>4, <1>5, <1>6

(* Only the pool hands the connection to another caller.                   *)
LEMMA SameLease == ASSUME DriverStep, ~ HandOut PROVE lease' = lease
<1>1. CASE \/ CtxDone \/ ResetDone \/ Return \/ Exec \/ Query \/ CallDone
           \/ Begin \/ BeginReadOnly \/ OnDone \/ BeginDone \/ BeginFailed \/ UndoDone
           \/ Finish \/ FinishDone \/ OffDone
  BY <1>1 DEF CtxDone, ResetDone, Return, Exec, Query, CallDone, Begin, BeginReadOnly,
              OnDone, BeginDone, BeginFailed, UndoDone, Finish, FinishDone, OffDone, Start
<1>2. CASE RowsClose \/ RowsCancelled
  BY <1>2 DEF RowsClose, RowsCancelled, callVars
<1> QED
  BY <1>1, <1>2 DEF DriverStep

(* The order of the statements.                                            *)
LEMMA OrderDriver == ASSUME ConnIInv, StrangerIInv, DriverStep PROVE OrderInv'
<1>1. /\ Keeps /\ Grows /\ txBy' = txBy /\ roBy' = roBy
  BY DriverQueue DEF dbVars
<1>2. /\ TypeOK /\ PlaceInv /\ OrderInv
  BY DEF ConnIInv, StrangerIInv
<1>3. /\ Len(queue) \in Nat /\ Len(queue') \in Nat /\ lease \in Nat /\ txBy \in Nat
      /\ roBy \in Nat
      /\ \A i \in 1..Len(queue) : queue[i].by \in Nat /\ queue[i].by <= lease
  BY <1>1, <1>2, QueueFacts, LeaseAssumption DEF TypeOK, PlaceInv, Keeps, Entry
<1>4. lease' \in Nat /\ lease' >= lease
  <2>1. CASE HandOut
    BY <2>1, <1>3 DEF HandOut
  <2>2. CASE ~ HandOut
    BY <2>2, <1>3, SameLease
  <2> QED
    BY <2>1, <2>2
<1>5. ASSUME NEW i \in 1..Len(queue'), NEW j \in 1..Len(queue'), i < j
      PROVE  queue'[i].by <= queue'[j].by
  <2>1. i \in 1..Len(queue) /\ queue'[i].by = queue[i].by /\ queue[i].by <= lease
    BY <1>1, <1>3, <1>5 DEF Keeps, Grows
  <2>2. CASE j \in 1..Len(queue)
    BY <2>1, <2>2, <1>1, <1>2, <1>5 DEF Keeps, OrderInv
  <2>3. CASE j \notin 1..Len(queue)
    <3>1. queue'[j].by = lease'
      BY <2>3, <1>1 DEF Grows
    <3> QED
      BY <2>1, <3>1, <1>3, <1>4
  <2> QED
    BY <2>2, <2>3
<1>6. txBy <= lease /\ roBy <= lease
  BY <1>2, <1>3 DEF OrderInv
<1>7. ASSUME NEW i \in 1..Len(queue')
      PROVE  queue'[i].by >= txBy /\ queue'[i].by >= roBy
  <2>1. CASE i \in 1..Len(queue)
    BY <2>1, <1>1, <1>2 DEF Keeps, OrderInv
  <2>2. CASE i \notin 1..Len(queue)
    <3>1. queue'[i].by = lease'
      BY <2>2, <1>1 DEF Grows
    <3> QED
      BY <3>1, <1>3, <1>4, <1>6
  <2> QED
    BY <2>1, <2>2
<1>8. CASE HandOut
  <2>1. pc = "idle" /\ lease' = lease + 1
    BY <1>8 DEF HandOut
  <2>2. /\ \A i \in 1..Len(queue) : queue[i].op \notin {"ROLLBACK", "BEGIN", "ON"}
        /\ txBy \in {0, lease} /\ (txBy # 0 => inTx) /\ roBy = 0
    BY <2>1, IdleFacts
  <2>3. ASSUME NEW i \in 1..Len(queue') PROVE queue'[i].op \notin {"BEGIN", "ON"}
    <3>1. CASE i \in 1..Len(queue)
      BY <3>1, <2>2, <1>1 DEF Keeps
    <3>2. CASE i \notin 1..Len(queue)
      <4>1. queue'[i].op = "ROLLBACK"
        BY <3>2, <2>1, <1>1 DEF Grows
      <4> QED
        BY <4>1
    <3> QED
      BY <3>1, <3>2
  <2>4. ASSUME inTx PROVE RollbackAhead'
    <3>1. queue' = Append(queue, Statement("ROLLBACK", lease + 1))
      BY <2>4, <1>8 DEF HandOut
    <3>2. Len(queue') = Len(queue) + 1
      BY <3>1, <1>2, QueueFacts
    <3>3. Len(queue) + 1 \in 1..Len(queue') /\ Len(queue) + 1 \notin 1..Len(queue)
      BY <3>2, <1>3
    <3>4. queue'[Len(queue) + 1].op = "ROLLBACK"
      BY <3>3, <2>1, <1>1 DEF Grows
    <3>5. ASSUME NEW i \in 1..Len(queue'), i < Len(queue) + 1
          PROVE  queue'[i].by < lease'
      <4>1. i \in 1..Len(queue)
        BY <3>5, <1>3
      <4>2. queue'[i].by = queue[i].by
        BY <4>1, <1>1 DEF Keeps
      <4> QED
        BY <4>1, <4>2, <2>1, <1>3
    <3> QED
      BY <3>3, <3>4, <3>5 DEF RollbackAhead
  <2>5. txBy' \in {0, lease'} \/ (txBy' = lease' - 1 /\ RollbackAhead')
    <3>1. lease' - 1 = lease
      BY <2>1, <1>3
    <3> QED
      BY <3>1, <2>2, <2>4, <1>1
  <2>6. roBy' \in {0, lease'}
    BY <2>2, <1>1
  <2> QED
    BY <2>3, <2>5, <2>6, <1>1, <1>5, <1>7 DEF OrderInv
<1>9. CASE ~ HandOut
  <2>1. lease' = lease
    BY <1>9, SameLease
  <2>2. ASSUME NEW i \in 1..Len(queue'), queue'[i].op \in {"BEGIN", "ON"}
        PROVE  queue'[i].by = lease'
    <3>1. CASE i \in 1..Len(queue)
      BY <3>1, <2>1, <2>2, <1>1, <1>2 DEF Keeps, OrderInv
    <3>2. CASE i \notin 1..Len(queue)
      BY <3>2, <1>1 DEF Grows
    <3> QED
      BY <3>1, <3>2
  <2>3. ASSUME RollbackAhead PROVE RollbackAhead'
    <3>1. PICK j \in 1..Len(queue) :
             /\ queue[j].op = "ROLLBACK"
             /\ \A i \in 1..Len(queue) : i < j => queue[i].by < lease
      BY <2>3 DEF RollbackAhead
    <3>2. j \in 1..Len(queue') /\ queue'[j].op = "ROLLBACK"
      BY <3>1, <1>1, <1>3 DEF Keeps
    <3>3. ASSUME NEW i \in 1..Len(queue'), i < j PROVE queue'[i].by < lease'
      <4>1. i \in 1..Len(queue)
        BY <3>3, <1>3
      <4> QED
        BY <3>1, <3>3, <4>1, <2>1, <1>1 DEF Keeps
    <3> QED
      BY <3>2, <3>3 DEF RollbackAhead
  <2> QED
    BY <2>1, <2>2, <2>3, <1>1, <1>2, <1>5, <1>7 DEF OrderInv
<1> QED
  BY <1>8, <1>9

(* Where the contexts of BeginTx do not end in the one build, a BeginTx    *)
(* whose context has ended poisons the connection, or goes on to undo.     *)
LEMMA LiveContexts ==
    ASSUME BeginsAreAwaited, ConnIInv, StrangerIInv, DriverStep
    PROVE  cancellable' /\ pc' \in {"on", "begin", "beginRO"} => ctx' = "live"
<1> SUFFICES ASSUME cancellable', pc' \in {"on", "begin", "beginRO"} PROVE ctx' = "live"
  OBVIOUS
<1>1. cancellable
  BY DriverQueue
<1>2. pc \in {"on", "begin", "beginRO"} => ctx = "live"
  BY <1>1 DEF StrangerIInv, AwaitInv
<1>3. cancellable = TRUE
  BY <1>1, BuildsAssumption DEF ConnIInv, TypeOK
<1>4. CASE CtxDone
  <2>1. pc \in Cancels[TRUE] \cup {"undo"} /\ pc' = pc
    BY <1>3, <1>4 DEF CtxDone
  <2> QED
    BY <2>1 DEF BeginsAreAwaited
<1>5. CASE Begin \/ BeginReadOnly
  BY <1>5 DEF Begin, BeginReadOnly, Start
<1>6. CASE OnDone
  BY <1>2, <1>6 DEF OnDone
<1>7. CASE RowsClose \/ RowsCancelled
  BY <1>2, <1>7 DEF RowsClose, RowsCancelled, callVars
<1>8. CASE \/ HandOut \/ ResetDone \/ Return \/ Exec \/ Query \/ CallDone
           \/ BeginDone \/ BeginFailed \/ UndoDone \/ Finish \/ FinishDone \/ OffDone
  BY <1>8 DEF HandOut, ResetDone, Return, Exec, Query, CallDone, BeginDone, BeginFailed,
              UndoDone, Finish, FinishDone, OffDone, Start, Post, CloseConn
<1> QED
  BY <1>4, <1>5, <1>6, <1>7, <1>8 DEF DriverStep

(* A BEGIN or a PRAGMA that is queued stays awaited, or poisons.           *)
LEMMA AwaitDriver ==
    ASSUME BeginsAreAwaited, ConnIInv, StrangerIInv, DriverStep PROVE AwaitInv'
<1>1. Keeps /\ Grows /\ cancellable' = cancellable
  BY DriverQueue
<1>2. TypeOK /\ AskedInv /\ AwaitInv
  BY DEF ConnIInv, StrangerIInv
<1>3. cancellable' /\ pc' \in {"on", "begin", "beginRO"} => ctx' = "live"
  BY LiveContexts
<1>4. poisoned => poisoned'
  BY <1>2, StaysPoisoned
<1>5. ASSUME answer # "none", pc # "first", NEW i \in 1..Len(queue) PROVE FALSE
  BY <1>2, <1>5 DEF AskedInv
<1>6. pc = "closed" => pc' = "closed"
  <2>1. pc = "closed" => ~ CtxDone
    BY <1>2, CancelsAssumption, BuildsAssumption DEF CtxDone, TypeOK, Calls
  <2>2. CASE RowsClose \/ RowsCancelled
    BY <2>2 DEF RowsClose, RowsCancelled, callVars
  <2> QED
    BY <2>1, <2>2 DEF DriverStep, HandOut, ResetDone, Return, Exec, Query, CallDone,
       Begin, BeginReadOnly, OnDone, BeginDone, BeginFailed, UndoDone, Finish, FinishDone,
       OffDone, Start, Fails
<1>7. ASSUME Undoing, ~ UndoDone PROVE Undoing'
  <2>1. CASE CtxDone
    BY <2>1, <1>7 DEF CtxDone, Undoing
  <2>2. CASE RowsClose \/ RowsCancelled
    BY <2>2, <1>7 DEF RowsClose, RowsCancelled, callVars, Undoing
  <2> QED
    BY <2>1, <2>2, <1>7 DEF DriverStep, HandOut, ResetDone, Return, Exec, Query, CallDone,
       Begin, BeginReadOnly, OnDone, BeginDone, BeginFailed, Finish, FinishDone,
       OffDone, Start, Undoing
<1>8. ASSUME pc \in {"begin", "beginRO"}, answer = "none"
      PROVE  poisoned' \/ Undoing' \/ pc' = pc
  <2>1. CASE CtxDone
    BY <2>1 DEF CtxDone
  <2>2. CASE RowsClose \/ RowsCancelled
    BY <2>2 DEF RowsClose, RowsCancelled, callVars
  <2>3. CASE BeginFailed
    <3>1. ctx = "done" /\ ~ cancellable /\ ctx' = ctx /\ cancellable' = cancellable
      BY <2>3, <1>2, <1>8 DEF BeginFailed, Fails, AwaitInv
    <3>2. \/ pc' = "ready" /\ poisoned' = Classified
          \/ pc' = "undo"
      BY <2>3 DEF BeginFailed, Post
    <3> QED
      BY <3>1, <3>2, Zenon DEF Classified, Undoing
  <2> QED
    BY <2>1, <2>2, <2>3, <1>8 DEF DriverStep, HandOut, ResetDone, Return, Exec, Query,
       CallDone, Begin, BeginReadOnly, OnDone, BeginDone, UndoDone, Finish, FinishDone,
       OffDone, Start, Succeeds
<1>9. ASSUME pc = "on", answer = "none" PROVE poisoned' \/ pc' = pc
  <2>1. CASE CtxDone
    BY <2>1 DEF CtxDone
  <2>2. CASE RowsClose \/ RowsCancelled
    BY <2>2 DEF RowsClose, RowsCancelled, callVars
  <2>3. CASE OnDone
    <3>1. ctx = "done" /\ ~ cancellable /\ poisoned' = Classified
      BY <2>3, <1>2, <1>9 DEF OnDone, Fails, Succeeds, AwaitInv
    <3> QED
      BY <3>1, Zenon DEF Classified
  <2> QED
    BY <2>1, <2>2, <2>3, <1>9 DEF DriverStep, HandOut, ResetDone, Return, Exec, Query,
       CallDone, Begin, BeginReadOnly, BeginDone, BeginFailed, UndoDone, Finish,
       FinishDone, OffDone, Start
<1>10. ASSUME NEW i \in 1..Len(queue'), queue'[i].op = "BEGIN"
       PROVE  \/ poisoned' \/ pc' = "closed" \/ Undoing'
              \/ pc' \in {"begin", "beginRO"} /\ queue'[i].state = "asked"
  <2>1. CASE i \notin 1..Len(queue)
    BY <2>1, <1>1, <1>10 DEF Grows
  <2>2. CASE i \in 1..Len(queue)
    <3>1. queue[i].op = "BEGIN"
      BY <2>2, <1>1, <1>10 DEF Keeps
    <3>2. CASE poisoned \/ pc = "closed"
      BY <3>2, <1>4, <1>6
    <3>3. CASE Undoing
      <4>1. ~ UndoDone
        BY <2>2, <3>3, <1>5 DEF UndoDone
      <4> QED
        BY <3>3, <4>1, <1>7
    <3>4. CASE pc \in {"begin", "beginRO"} /\ queue[i].state = "asked"
      <4>1. answer = "none"
        BY <2>2, <3>4, <1>2 DEF AskedInv
      <4>2. pc' = pc => queue'[i].state = "asked"
        BY <2>2, <3>4, <1>1 DEF Keeps
      <4> QED
        BY <3>4, <4>1, <4>2, <1>8
    <3> QED
      BY <2>2, <3>1, <3>2, <3>3, <3>4, <1>2 DEF AwaitInv
  <2> QED
    BY <2>1, <2>2
<1>11. ASSUME NEW i \in 1..Len(queue'), queue'[i].op = "ON"
       PROVE  poisoned' \/ pc' \in {"on", "closed"}
  <2>1. CASE i \notin 1..Len(queue)
    BY <2>1, <1>1, <1>11 DEF Grows
  <2>2. CASE i \in 1..Len(queue)
    <3>1. queue[i].op = "ON"
      BY <2>2, <1>1, <1>11 DEF Keeps
    <3>2. poisoned \/ pc \in {"on", "closed"}
      BY <2>2, <3>1, <1>2 DEF AwaitInv
    <3>3. CASE pc = "on"
      <4>1. answer = "none"
        BY <2>2, <3>3, <1>5
      <4> QED
        BY <3>3, <4>1, <1>9
    <3> QED
      BY <3>2, <3>3, <1>4, <1>6
  <2> QED
    BY <2>1, <2>2
<1> QED
  BY <1>3, <1>10, <1>11 DEF AwaitInv

(* A transaction that is open stays known.                                 *)
LEMMA KnownDriver ==
    ASSUME ConnIInv, StrangerIInv, DriverStep PROVE KnownInv' /\ ReadOnlyInv'
<1>1. txBy' = txBy /\ roBy' = roBy /\ cancellable' = cancellable
  BY DriverQueue DEF dbVars
<1>2. TypeOK /\ HolderInv /\ AwaitInv /\ KnownInv /\ ReadOnlyInv
  BY DEF ConnIInv, StrangerIInv
<1>3. poisoned => poisoned'
  BY <1>2, StaysPoisoned
<1>4. /\ tx \in {"none", "rw", "ro"}
      /\ (tx # "none" => pc \in {"ready", "exec", "first", "finish", "off"})
      /\ answer \in {"none", "ok", "err"}
      /\ answer # "none" => pc \in Calls \cup Unstoppable
  BY <1>2 DEF TypeOK, HolderInv
<1>5. CASE CtxDone
  <2>1. /\ ctx' = "done" /\ pc' = pc /\ answer' = answer /\ tx' = tx /\ inTx' = inTx
        /\ poisoned' = poisoned
    BY <1>5 DEF CtxDone, goVars
  <2> QED
    BY <2>1, <1>1, <1>2 DEF KnownInv, ReadOnlyInv, Undoing
<1>6. CASE RowsClose \/ RowsCancelled
  <2>1. pc' = pc /\ answer' = answer /\ tx' = tx /\ inTx' = inTx /\ ctx' = ctx
    BY <1>6 DEF RowsClose, RowsCancelled, callVars
  <2> QED
    BY <2>1, <1>1, <1>2, <1>3 DEF KnownInv, ReadOnlyInv, Undoing
<1>7. CASE HandOut
  <2>1. /\ pc = "idle" /\ answer' = answer
        /\ IF inTx THEN pc' = "reset" ELSE pc' = "ready" /\ inTx' = inTx
    BY <1>7 DEF HandOut
  <2>2. (txBy # 0 => inTx) /\ roBy = 0 /\ answer = "none"
    BY <2>1, <1>4, IdleFacts DEF Calls, Unstoppable
  <2> QED
    BY <2>1, <2>2, <1>1 DEF KnownInv, ReadOnlyInv
<1>8. CASE ResetDone
  <2>1. /\ pc = "reset" /\ answer' = "none" /\ tx' = tx /\ inTx' = inTx
        /\ poisoned' = poisoned
        /\ (answer = "ok" /\ pc' = "ready") \/ pc' = "closed"
    BY <1>8 DEF ResetDone, Succeeds, Fails, CloseConn, goVars
  <2> QED
    BY <2>1, <1>1, <1>2, <1>4 DEF KnownInv, ReadOnlyInv
<1>9. CASE Return
  <2>1. /\ pc = "ready" /\ answer' = answer /\ tx' = tx /\ inTx' = inTx
        /\ poisoned' = poisoned /\ pc' \in {"idle", "closed"}
    BY <1>9 DEF Return, CloseConn, goVars
  <2> QED
    BY <2>1, <1>1, <1>2 DEF KnownInv, ReadOnlyInv, Undoing
<1>10. CASE Exec \/ Query \/ Begin \/ BeginReadOnly \/ Finish
  <2>1. /\ pc = "ready" /\ answer' = answer /\ tx' = tx /\ inTx' = inTx
        /\ poisoned' = poisoned
    BY <1>10 DEF Exec, Query, Begin, BeginReadOnly, Finish, Start, goVars
  <2>2. answer = "none"
    BY <2>1, <1>4 DEF Calls, Unstoppable
  <2> QED
    BY <2>1, <2>2, <1>1, <1>2 DEF KnownInv, ReadOnlyInv, Undoing
<1>11. CASE CallDone
  <2>1. pc \in {"exec", "first"} /\ pc' = "ready" /\ tx' = tx /\ inTx' = inTx
    BY <1>11 DEF CallDone
  <2> QED
    BY <2>1, <1>1, <1>2, <1>3 DEF KnownInv, ReadOnlyInv, Undoing
<1>12. CASE OnDone
  <2>1. pc = "on" /\ tx' = tx /\ inTx' = inTx /\ tx = "none"
    BY <1>4, <1>12 DEF OnDone
  <2>2. CASE Succeeds /\ Post(queue, "BEGIN", "beginRO")
    BY <2>1, <2>2, <1>1, <1>2, <1>3 DEF KnownInv, ReadOnlyInv, Undoing, Post
  <2>3. CASE (\E q \in Outcomes : Fails(q)) /\ pc' = "ready" /\ poisoned' = Classified
    <3>1. ctx = "done" /\ ~ cancellable
      BY <2>1, <2>3, <1>2 DEF Fails, ReadOnlyInv, AwaitInv
    <3>2. poisoned'
      BY <2>3, <3>1, Zenon DEF Classified
    <3> QED
      BY <2>3, <3>2 DEF KnownInv, ReadOnlyInv
  <2> QED
    BY <2>2, <2>3, <1>12 DEF OnDone
<1>13. CASE BeginDone
  <2>1. /\ pc \in {"begin", "beginRO"} /\ pc' = "ready" /\ inTx' = TRUE
        /\ tx' = (IF pc = "begin" THEN "rw" ELSE "ro") /\ tx = "none"
    BY <1>4, <1>13 DEF BeginDone
  <2> QED
    BY <2>1, <1>1, <1>2, <1>3 DEF KnownInv, ReadOnlyInv
<1>14. CASE BeginFailed
  <2>1. PICK q \in Outcomes :
           /\ Fails(q)
           /\ \/ pc = "begin" /\ pc' = "ready" /\ poisoned' = Classified
              \/ pc = "beginRO" /\ pc' = "undo"
    BY <1>14 DEF BeginFailed, Post
  <2>2. /\ tx' = tx /\ inTx' = inTx /\ ctx' = ctx /\ tx = "none" /\ answer' = "none"
    BY <2>1, <1>4, <1>14 DEF BeginFailed, Fails
  <2>3. answer = "err" \/ (ctx = "done" /\ ~ cancellable)
    BY <2>1, <1>2 DEF Fails, AwaitInv
  <2>4. CASE pc = "begin" /\ pc' = "ready" /\ poisoned' = Classified
    <3>1. ctx = "done" /\ ~ cancellable => poisoned'
      BY <2>4, Zenon DEF Classified
    <3> QED
      BY <2>2, <2>3, <2>4, <3>1, <1>1, <1>2, <1>3 DEF KnownInv, ReadOnlyInv, Undoing
  <2>5. CASE pc = "beginRO" /\ pc' = "undo"
    BY <2>2, <2>3, <2>5, <1>1, <1>2, <1>3 DEF KnownInv, ReadOnlyInv, Undoing
  <2> QED
    BY <2>1, <2>4, <2>5
<1>15. CASE UndoDone
  <2>1. /\ pc = "undo" /\ pc' = "ready" /\ answer # "none" /\ inTx' = inTx
        /\ poisoned' = Classified
    BY <1>15 DEF UndoDone
  <2>2. Undoing => poisoned'
    BY <2>1, Zenon DEF Classified, Undoing
  <2> QED
    BY <2>1, <2>2, <1>1, <1>2, <1>3 DEF KnownInv, ReadOnlyInv
<1>16. CASE FinishDone
  <2>1. /\ pc = "finish" /\ answer # "none" /\ answer' = "none" /\ inTx' = StillInTx
        /\ poisoned' = poisoned
        /\ \/ tx = "ro" /\ pc' = "off" /\ tx' = tx
           \/ tx # "ro" /\ pc' = "ready"
    BY <1>16 DEF FinishDone, Post
  <2> QED
    BY <2>1, <1>1, <1>2 DEF KnownInv, ReadOnlyInv, StillInTx, Undoing
<1>17. CASE OffDone
  <2>1. /\ pc = "off" /\ answer # "none" /\ pc' = "ready" /\ inTx' = inTx
        /\ poisoned' = poisoned
    BY <1>17 DEF OffDone
  <2> QED
    BY <2>1, <1>1, <1>2 DEF KnownInv, ReadOnlyInv, Undoing
<1> QED
  BY <1>5, <1>6, <1>7, <1>8, <1>9, <1>10, <1>11, <1>12, <1>13, <1>14, <1>15, <1>16, <1>17
     DEF DriverStep

-----------------------------------------------------------------------------
(* Strangers: the steps of the worker.                                     *)

(* What a statement that runs does, and whom it answers.                   *)
LEMMA WorkerFacts ==
    ASSUME WorkerStep
    PROVE  /\ queue # <<>> /\ UNCHANGED <<cancellable, lease, pc, ctx, goVars>>
           /\ answer' = answer \/ (Here.state = "asked" /\ answer' \in {"ok", "err"})
           /\ \/ txBy' \in {0, txBy}
              \/ /\ Here.op = "BEGIN" /\ txBy' = Here.by
                 /\ Here.state = "asked" => answer' = "ok"
           /\ Here.op = "ROLLBACK" => txBy' = 0
           /\ Here.op = "COMMIT" /\ Here.state = "asked" /\ answer' = "ok" => txBy' = 0
           /\ roBy' \in {0, roBy} \/ (Here.op = "ON" /\ roBy' = Here.by)
           /\ Here.op = "OFF" => roBy' = 0
           /\ Here.op = "ON" /\ Here.state = "asked" => answer' = "ok"
           /\ \/ queue' = Tail(queue)
              \/ Here.op = "SCAN" /\ queue' = [queue EXCEPT ![1].state = "open"]
<1>1. CASE RunBegin
  BY <1>1 DEF RunBegin, Runs, Over, Answer
<1>2. CASE RunCommit
  BY <1>2 DEF RunCommit, Runs, Over, Answer
<1>3. CASE RunRollback
  BY <1>3 DEF RunRollback, Runs, Over, Answer
<1>4. CASE RunPragma
  BY <1>4 DEF RunPragma, Runs, Over, Answer
<1>5. CASE RunWork
  BY <1>5 DEF RunWork, Runs, Over, Answer
<1>6. CASE RunScan
  BY <1>6 DEF RunScan, Runs, Over, Answer, dbVars
<1>7. CASE RunClose
  BY <1>7 DEF RunClose, Runs, Over, Answer
<1> QED
  BY <1>1, <1>2, <1>3, <1>4, <1>5, <1>6, <1>7 DEF WorkerStep

(* The queue moves up by one, or stays while a stream opens.               *)
LEMMA WorkerShifts ==
    ASSUME TypeOK, WorkerStep
    PROVE  \E k \in {0, 1} :
              /\ Len(queue') = Len(queue) - k
              /\ k = 0 => Here.op = "SCAN"
              /\ \A i \in 1..Len(queue') :
                    /\ i + k \in 1..Len(queue)
                    /\ queue'[i].op = queue[i + k].op /\ queue'[i].by = queue[i + k].by
                    /\ queue'[i].state = queue[i + k].state \/ queue'[i].op = "SCAN"
<1>1. /\ Len(queue) \in Nat /\ Len(queue) >= 1 /\ Here = queue[1]
      /\ queue \in Seq(Entry) /\ \A i \in 1..Len(queue) : queue[i] \in Entry
      /\ Len(Tail(queue)) = Len(queue) - 1
      /\ \A i \in 1..(Len(queue) - 1) :
            Tail(queue)[i] = queue[i + 1] /\ i + 1 \in 1..Len(queue)
  BY WorkerFacts, TailFacts, QueueFacts
<1>2. CASE queue' = Tail(queue)
  <2>1. /\ Len(queue') = Len(queue) - 1
        /\ \A i \in 1..Len(queue') : i + 1 \in 1..Len(queue) /\ queue'[i] = queue[i + 1]
    BY <1>1, <1>2
  <2> QED
    BY <2>1
<1>3. CASE Here.op = "SCAN" /\ queue' = [queue EXCEPT ![1].state = "open"]
  <2>1. Len(queue') = Len(queue) - 0
    BY <1>1, <1>3
  <2>2. ASSUME NEW i \in 1..Len(queue')
        PROVE  /\ i + 0 \in 1..Len(queue)
               /\ queue'[i].op = queue[i + 0].op /\ queue'[i].by = queue[i + 0].by
               /\ queue'[i].state = queue[i + 0].state \/ queue'[i].op = "SCAN"
    <3>1. i \in 1..Len(queue) /\ i + 0 = i /\ queue[i] \in Entry
      BY <2>1, <1>1
    <3>2. CASE i = 1
      <4>1. queue'[i] = [queue[i] EXCEPT !.state = "open"]
        BY <3>1, <3>2, <1>1, <1>3
      <4> QED
        BY <3>1, <3>2, <4>1, <1>1, <1>3 DEF Entry
    <3>3. CASE i # 1
      BY <3>1, <3>3, <1>1, <1>3
    <3> QED
      BY <3>2, <3>3
  <2> QED
    BY <2>1, <2>2, <1>3
<1> QED
  BY <1>2, <1>3, WorkerFacts

(* The order of the statements.                                            *)
LEMMA OrderWorker == ASSUME ConnIInv, StrangerIInv, WorkerStep PROVE OrderInv'
<1>1. TypeOK /\ PlaceInv /\ OrderInv
  BY DEF ConnIInv, StrangerIInv
<1>2. PICK k \in {0, 1} :
         /\ Len(queue') = Len(queue) - k
         /\ k = 0 => Here.op = "SCAN"
         /\ \A i \in 1..Len(queue') :
               /\ i + k \in 1..Len(queue)
               /\ queue'[i].op = queue[i + k].op /\ queue'[i].by = queue[i + k].by
  BY <1>1, WorkerShifts
<1>3. /\ Len(queue) \in Nat /\ Len(queue) >= 1 /\ Here = queue[1] /\ Here.by \in Nat
      /\ \A i \in 1..Len(queue) : queue[i].by \in Nat /\ queue[i].by >= 1 /\ queue[i].by <= lease
      /\ lease \in Nat /\ txBy \in Nat /\ roBy \in Nat
  <2>1. 1 \in 1..Len(queue) /\ Len(queue) \in Nat /\ Here = queue[1]
    BY <1>1, WorkerFacts, TailFacts, QueueFacts
  <2>2. \A i \in 1..Len(queue) : queue[i].by \in Nat /\ queue[i].by >= 1 /\ queue[i].by <= lease
    BY <1>1, QueueFacts, LeaseAssumption DEF PlaceInv, Entry
  <2> QED
    BY <2>1, <2>2, <1>1, LeaseAssumption DEF TypeOK
<1>4. /\ lease' = lease
      /\ txBy' \in {0, txBy} \/ (Here.op = "BEGIN" /\ txBy' = Here.by)
      /\ Here.op = "ROLLBACK" => txBy' = 0
      /\ roBy' \in {0, roBy} \/ (Here.op = "ON" /\ roBy' = Here.by)
  BY WorkerFacts
<1>5. ASSUME NEW i \in 1..Len(queue') PROVE queue'[i].by >= Here.by
  <2>1. i + k \in 1..Len(queue) /\ queue'[i].by = queue[i + k].by
    BY <1>2
  <2>2. CASE i + k = 1
    BY <2>1, <2>2, <1>3
  <2>3. CASE 1 < i + k
    BY <2>1, <2>3, <1>1, <1>3 DEF OrderInv
  <2> QED
    BY <2>1, <2>2, <2>3, <1>3
<1>6. ASSUME NEW i \in 1..Len(queue')
      PROVE  /\ queue'[i].by >= txBy' /\ queue'[i].by >= roBy'
             /\ queue'[i].op \in {"BEGIN", "ON"} => queue'[i].by = lease'
  <2>1. /\ i + k \in 1..Len(queue) /\ queue'[i].by = queue[i + k].by
        /\ queue'[i].op = queue[i + k].op
    BY <1>2
  <2>2. /\ queue[i + k].by >= txBy /\ queue[i + k].by >= roBy
        /\ queue[i + k].op \in {"BEGIN", "ON"} => queue[i + k].by = lease
    BY <2>1, <1>1 DEF OrderInv
  <2> QED
    BY <2>1, <2>2, <1>3, <1>4, <1>5
<1>7. ASSUME NEW i \in 1..Len(queue'), NEW j \in 1..Len(queue'), i < j
      PROVE  queue'[i].by <= queue'[j].by
  <2>1. i + k \in 1..Len(queue) /\ j + k \in 1..Len(queue) /\ i + k < j + k
    BY <1>2, <1>7
  <2> QED
    BY <2>1, <1>1, <1>2 DEF OrderInv
<1>8. Here.op \in {"BEGIN", "ON"} => Here.by = lease
  BY <1>1, <1>3 DEF OrderInv
<1>9. ASSUME RollbackAhead, Here.op # "ROLLBACK" PROVE RollbackAhead'
  <2>1. PICK j \in 1..Len(queue) :
           /\ queue[j].op = "ROLLBACK"
           /\ \A i \in 1..Len(queue) : i < j => queue[i].by < lease
    BY <1>9 DEF RollbackAhead
  <2>2. j # 1
    BY <2>1, <1>3, <1>9
  <2>3. PICK m \in 1..Len(queue') : m + k = j
    BY <2>1, <2>2, <1>2, <1>3
  <2>4. queue'[m].op = "ROLLBACK"
    BY <2>1, <2>3, <1>2
  <2>5. ASSUME NEW i \in 1..Len(queue'), i < m PROVE queue'[i].by < lease'
    <3>1. i + k \in 1..Len(queue) /\ i + k < j /\ queue'[i].by = queue[i + k].by
      BY <2>3, <2>5, <1>2
    <3> QED
      BY <3>1, <2>1, <1>4
  <2> QED
    BY <2>4, <2>5 DEF RollbackAhead
<1>10. txBy' \in {0, lease'} \/ (txBy' = lease' - 1 /\ RollbackAhead')
  BY <1>1, <1>4, <1>8, <1>9 DEF OrderInv
<1>11. roBy' \in {0, lease'}
  BY <1>1, <1>4, <1>8 DEF OrderInv
<1> QED
  BY <1>6, <1>7, <1>10, <1>11 DEF OrderInv

(* What is awaited, known and undone.                                      *)
LEMMA KnownWorker ==
    ASSUME ConnIInv, StrangerIInv, WorkerStep PROVE AwaitInv' /\ KnownInv' /\ ReadOnlyInv'
<1>1. TypeOK /\ AskedInv /\ AwaitInv /\ KnownInv /\ ReadOnlyInv
  BY DEF ConnIInv, StrangerIInv
<1>2. /\ cancellable' = cancellable /\ lease' = lease /\ pc' = pc /\ ctx' = ctx
      /\ tx' = tx /\ inTx' = inTx /\ poisoned' = poisoned
  BY WorkerFacts DEF goVars
<1>3. 1 \in 1..Len(queue) /\ Here = queue[1]
  BY <1>1, WorkerFacts, TailFacts, QueueFacts
<1>4. answer # "none" => pc = "first"
  BY <1>1, <1>3 DEF AskedInv
<1>5. Here.state = "asked" => Awaits(pc, Here.op)
  BY <1>1, <1>3 DEF AskedInv
<1>6. AwaitInv'
  <2>1. ASSUME NEW i \in 1..Len(queue')
        PROVE  /\ queue'[i].op = "BEGIN" =>
                     \/ poisoned' \/ pc' = "closed" \/ Undoing'
                     \/ pc' \in {"begin", "beginRO"} /\ queue'[i].state = "asked"
               /\ queue'[i].op = "ON" => poisoned' \/ pc' \in {"on", "closed"}
    <3>1. PICK j \in 1..Len(queue) :
             /\ queue'[i].op = queue[j].op
             /\ queue'[i].state = queue[j].state \/ queue'[i].op = "SCAN"
      BY <1>1, WorkerShifts
    <3> QED
      BY <3>1, <1>1, <1>2 DEF AwaitInv, Undoing
  <2> QED
    BY <2>1, <1>1, <1>2 DEF AwaitInv
<1>7. /\ Here.op = "BEGIN" => \/ poisoned \/ pc = "closed" \/ Undoing
                              \/ pc \in {"begin", "beginRO"} /\ Here.state = "asked"
      /\ Here.op = "ON" => poisoned \/ pc \in {"on", "closed"}
  BY <1>1, <1>3 DEF AwaitInv
<1>8. KnownInv'
  <2>1. ASSUME txBy' # 0
        PROVE  \/ inTx' \/ poisoned' \/ pc' \in {"reset", "closed"} \/ Undoing'
               \/ pc' \in {"begin", "beginRO"} /\ answer' = "ok"
    <3>1. CASE txBy' = txBy
      BY <2>1, <3>1, <1>1, <1>2, <1>4 DEF KnownInv, Undoing
    <3>2. CASE Here.op = "BEGIN" /\ (Here.state = "asked" => answer' = "ok")
      BY <3>2, <1>2, <1>7 DEF Undoing
    <3> QED
      BY <2>1, <3>1, <3>2, WorkerFacts
  <2>2. ASSUME pc' \in {"finish", "reset"}, answer' = "ok" PROVE txBy' = 0
    <3>1. Here.state = "asked" /\ Here.op \in {"COMMIT", "ROLLBACK"}
      BY <2>2, <1>2, <1>4, <1>5, WorkerFacts DEF Awaits
    <3> QED
      BY <2>2, <3>1, WorkerFacts
  <2> QED
    BY <2>1, <2>2 DEF KnownInv
<1>9. ReadOnlyInv'
  <2>1. ASSUME roBy' # 0
        PROVE  pc' \in {"on", "beginRO", "undo", "closed"} \/ tx' = "ro" \/ poisoned'
    BY <2>1, <1>1, <1>2, <1>7, WorkerFacts DEF ReadOnlyInv
  <2>2. ASSUME pc' \in {"undo", "off"}, answer' # "none" PROVE roBy' = 0
    <3>1. Here.state = "asked" /\ Here.op = "OFF"
      BY <2>2, <1>2, <1>4, <1>5, WorkerFacts DEF Awaits
    <3> QED
      BY <3>1, WorkerFacts
  <2>3. ASSUME pc' = "on" PROVE answer' # "err"
    <3>1. CASE answer' = answer
      BY <2>3, <3>1, <1>2, <1>4
    <3>2. CASE Here.state = "asked"
      BY <2>3, <3>2, <1>2, <1>5, WorkerFacts DEF Awaits
    <3> QED
      BY <3>1, <3>2, WorkerFacts
  <2> QED
    BY <2>1, <2>2, <2>3 DEF ReadOnlyInv
<1> QED
  BY <1>6, <1>8, <1>9

-----------------------------------------------------------------------------
(* No strangers.                                                           *)

(* Nothing is queued, open or known at first.                              *)
LEMMA StrangersInit == Init => StrangerIInv
<1> SUFFICES ASSUME Init PROVE StrangerIInv
  OBVIOUS
<1>1. Len(queue) = 0
  BY EmptySeq DEF Init
<1> QED
  BY <1>1 DEF Init, StrangerIInv, OrderInv, AwaitInv, KnownInv, ReadOnlyInv

(* Every step keeps it so.                                                 *)
LEMMA StrangersStep ==
    ASSUME BeginsAreAwaited, ConnIInv, StrangerIInv, [Next]_vars PROVE StrangerIInv'
<1>1. CASE DriverStep
  BY <1>1, OrderDriver, AwaitDriver, KnownDriver DEF StrangerIInv
<1>2. CASE WorkerStep
  BY <1>2, OrderWorker, KnownWorker DEF StrangerIInv
<1>3. CASE UNCHANGED vars
  <2>1. OrderInv' /\ AwaitInv'
    BY <1>3 DEF StrangerIInv, OrderInv, AwaitInv, RollbackAhead, Undoing, vars, callVars,
                goVars, dbVars
  <2>2. KnownInv' /\ ReadOnlyInv'
    BY <1>3 DEF StrangerIInv, KnownInv, ReadOnlyInv, Undoing, vars, callVars, goVars, dbVars
  <2> QED
    BY <2>1, <2>2 DEF StrangerIInv
<1> QED
  BY <1>1, <1>2, <1>3 DEF Next, DriverStep, WorkerStep

(* No statement of a caller runs in a transaction that another caller left *)
(* open, nor under a query_only another caller left on (conn.go, what inTx *)
(* is for), where the contexts of BeginTx do not end while it waits in a   *)
(* build with shared memory; where there is none they may.                 *)
THEOREM NoStrangers == ASSUME BeginsAreAwaited PROVE Spec => []NoStrangerInTx
<1>1. Init => ConnIInv /\ StrangerIInv
  BY InitHolds, StrangersInit
<1>2. (ConnIInv /\ StrangerIInv) /\ [Next]_vars => (ConnIInv /\ StrangerIInv)'
  BY BeginsAreAwaited, StepKeeps, StrangersStep
<1>3. ConnIInv /\ StrangerIInv => NoStrangerInTx
  <2> SUFFICES ASSUME ConnIInv, StrangerIInv, queue # <<>>,
                      Here.op \in {"WORK", "SCAN", "BEGIN", "ON"}
               PROVE  txBy \in {0, Here.by} /\ roBy \in {0, Here.by}
    BY DEF NoStrangerInTx
  <2>1. TypeOK /\ PlaceInv /\ OrderInv
    BY DEF ConnIInv, StrangerIInv
  <2>2. /\ 1 \in 1..Len(queue) /\ Len(queue) \in Nat /\ Here = queue[1] /\ Here.by \in Nat
        /\ lease \in Nat /\ txBy \in Nat /\ roBy \in Nat
    BY <2>1, TailFacts, QueueFacts, LeaseAssumption DEF TypeOK, Entry
  <2>3. Here.by <= lease /\ Here.by >= txBy /\ Here.by >= roBy
    BY <2>1, <2>2 DEF PlaceInv, OrderInv
  <2>4. ASSUME txBy = lease - 1, RollbackAhead PROVE Here.by < lease
    <3>1. PICK j \in 1..Len(queue) :
             /\ queue[j].op = "ROLLBACK"
             /\ \A i \in 1..Len(queue) : i < j => queue[i].by < lease
      BY <2>4 DEF RollbackAhead
    <3>2. 1 < j
      BY <3>1, <2>2
    <3> QED
      BY <3>1, <3>2, <2>2
  <2> QED
    BY <2>1, <2>2, <2>3, <2>4 DEF OrderInv
<1> QED
  BY <1>1, <1>2, <1>3, PTL DEF Spec

-----------------------------------------------------------------------------
(* Abandoned statements.                                                   *)

(* A statement that is posted is not an abandoned one.                     *)
LEMMA NoneComes ==
    ASSUME TypeOK, NEW q, Alike(q),
           queue' = q \/ \E op, n : queue' = Append(q, Statement(op, n)),
           NEW i \in 1..Len(queue'), queue'[i].state = "cancelled"
    PROVE  i \in 1..Len(queue) /\ q[i].state = "cancelled"
<1>1. q \in Seq(Entry) /\ Len(q) = Len(queue) /\ Len(queue) \in Nat
  BY QueueFacts DEF Alike
<1>2. CASE queue' = q
  BY <1>1, <1>2
<1>3. CASE \E op, n : queue' = Append(q, Statement(op, n))
  <2>1. PICK e : queue' = Append(q, e) /\ e.state = "asked"
    BY <1>3 DEF Statement
  <2>2. /\ Len(queue') = Len(queue) + 1 /\ queue'[Len(queue) + 1] = e
        /\ \A j \in 1..Len(queue) : queue'[j] = q[j]
    BY <2>1, <1>1
  <2>3. i \in 1..Len(queue)
    BY <2>1, <2>2, <1>1
  <2> QED
    BY <2>2, <2>3
<1> QED
  BY <1>2, <1>3

(* A call that fails abandons what it asked for, if its context has ended. *)
LEMMA FailsAbandons ==
    ASSUME TypeOK, NEW q, Fails(q), NEW i \in 1..Len(queue), q[i].state = "cancelled"
    PROVE  \/ queue[i].state = "cancelled"
           \/ queue[i].state = "asked" /\ ctx = "done" /\ pc \notin Unstoppable
  BY MarkedFacts DEF Fails

(* Where statements cannot be interrupted, a step of the driver that       *)
(* abandons one poisons the connection or goes on to undo its PRAGMA.      *)
LEMMA Abandoning ==
    ASSUME RowsAreRead, ConnIInv, DriverStep, ~ cancellable, pc' # "closed",
           NEW i \in 1..Len(queue'), queue'[i].state = "cancelled"
    PROVE  /\ i \in 1..Len(queue)
           /\ \/ queue[i].state = "cancelled"
              \/ /\ queue[i].state = "asked"
                 /\ poisoned' \/ (pc' = "undo" /\ ctx' = "done")
<1>1. TypeOK
  BY DEF ConnIInv
<1>2. Alike(queue) /\ cancellable = FALSE
  BY <1>1, QueueFacts, BuildsAssumption DEF TypeOK
<1>3. ASSUME queue' = queue \/ \E op, n : queue' = Append(queue, Statement(op, n))
      PROVE  i \in 1..Len(queue) /\ queue[i].state = "cancelled"
  BY <1>1, <1>2, <1>3, NoneComes
<1>4. ASSUME NEW q, Fails(q), queue' = q \/ \E op, n : queue' = Append(q, Statement(op, n))
      PROVE  /\ i \in 1..Len(queue)
             /\ queue[i].state = "cancelled" \/ (queue[i].state = "asked" /\ ctx = "done")
  <2>1. Alike(q)
    BY <1>4, FailsFacts DEF ConnIInv
  <2>2. i \in 1..Len(queue) /\ q[i].state = "cancelled"
    BY <2>1, <1>1, <1>4, NoneComes
  <2> QED
    BY <2>2, <1>1, <1>4, FailsAbandons
<1>5. ctx = "done" => Classified
  BY DEF Classified
<1>6. CASE CtxDone \/ BeginDone \/ UndoDone \/ OffDone
  BY <1>3, <1>6 DEF CtxDone, BeginDone, UndoDone, OffDone
<1>7. CASE Exec \/ Query \/ Begin \/ BeginReadOnly \/ Finish
  BY <1>3, <1>7 DEF Exec, Query, Begin, BeginReadOnly, Finish, Start, Post
<1>8. CASE HandOut
  BY <1>3, <1>8 DEF HandOut
<1>9. CASE ResetDone \/ Return
  BY <1>3, <1>9 DEF ResetDone, Return, CloseConn
<1>10. CASE FinishDone
  BY <1>3, <1>10 DEF FinishDone, Post
<1>11. CASE RowsClose
  <2>1. queue' = Marked("open", "closed")
    BY <1>11 DEF RowsClose
  <2>2. i \in 1..Len(queue)
    BY <2>1, <1>1, MarkedFacts DEF Alike
  <2> QED
    BY <2>1, <2>2, <1>1, MarkedFacts
<1>12. CASE RowsCancelled
  BY <1>2, <1>12 DEF RowsCancelled, RowsAreRead
<1>13. CASE CallDone
  <2>1. CASE queue' = queue
    BY <2>1, <1>3
  <2>2. CASE (\E q \in Outcomes : Fails(q) /\ queue' = q) /\ poisoned' = Classified
    <3>1. /\ i \in 1..Len(queue)
          /\ queue[i].state = "cancelled" \/ (queue[i].state = "asked" /\ ctx = "done")
      BY <2>2, <1>4
    <3> QED
      BY <3>1, <2>2, <1>5, Zenon
  <2> QED
    BY <2>1, <2>2, <1>13 DEF CallDone
<1>14. CASE OnDone
  <2>1. CASE Post(queue, "BEGIN", "beginRO")
    BY <2>1, <1>3 DEF Post
  <2>2. CASE (\E q \in Outcomes : Fails(q) /\ queue' = q) /\ poisoned' = Classified
    <3>1. /\ i \in 1..Len(queue)
          /\ queue[i].state = "cancelled" \/ (queue[i].state = "asked" /\ ctx = "done")
      BY <2>2, <1>4
    <3> QED
      BY <3>1, <2>2, <1>5, Zenon
  <2> QED
    BY <2>1, <2>2, <1>14 DEF OnDone
<1>15. CASE BeginFailed
  <2>1. PICK q \in Outcomes :
           /\ Fails(q)
           /\ \/ queue' = q /\ poisoned' = Classified
              \/ Post(q, "OFF", "undo")
    BY <1>15 DEF BeginFailed
  <2>2. /\ i \in 1..Len(queue)
        /\ queue[i].state = "cancelled" \/ (queue[i].state = "asked" /\ ctx = "done")
    BY <2>1, <1>4 DEF Post
  <2>3. ctx' = ctx
    BY <1>15 DEF BeginFailed
  <2>4. CASE poisoned' = Classified
    BY <2>2, <2>4, <1>5, Zenon
  <2>5. CASE pc' = "undo"
    BY <2>2, <2>3, <2>5
  <2> QED
    BY <2>1, <2>4, <2>5 DEF Post
<1> QED
  BY <1>6, <1>7, <1>8, <1>9, <1>10, <1>11, <1>12, <1>13, <1>14, <1>15 DEF DriverStep

(* A closed connection stays closed.                                       *)
LEMMA StaysClosed == ASSUME TypeOK, DriverStep, pc = "closed" PROVE pc' = "closed"
<1>1. ~ CtxDone
  BY CancelsAssumption, BuildsAssumption DEF CtxDone, TypeOK, Calls
<1>2. CASE RowsClose \/ RowsCancelled
  BY <1>2 DEF RowsClose, RowsCancelled, callVars
<1> QED
  BY <1>1, <1>2 DEF DriverStep, HandOut, ResetDone, Return, Exec, Query, CallDone, Begin,
     BeginReadOnly, OnDone, BeginDone, BeginFailed, UndoDone, Finish, FinishDone, OffDone,
     Start, Fails

(* The steps of the driver.                                                *)
LEMMA AbandonedDriver ==
    ASSUME RowsAreRead, ConnIInv, AbandonedInv, DriverStep PROVE AbandonedInv'
<1> SUFFICES ASSUME ~ cancellable, pc' # "closed",
                    NEW i \in 1..Len(queue'), queue'[i].state = "cancelled"
             PROVE  queue'[i].by = lease' /\ (poisoned' \/ (pc' = "undo" /\ ctx' = "done"))
  BY DriverQueue DEF AbandonedInv
<1>1. TypeOK /\ AskedInv /\ HolderInv
  BY DEF ConnIInv
<1>2. /\ i \in 1..Len(queue)
      /\ \/ queue[i].state = "cancelled"
         \/ /\ queue[i].state = "asked"
            /\ poisoned' \/ (pc' = "undo" /\ ctx' = "done")
  BY Abandoning
<1>3. pc # "closed"
  BY <1>1, StaysClosed
<1>4. queue[i].by = lease
  BY <1>1, <1>2, <1>3 DEF AskedInv, AbandonedInv
<1>5. lease' = lease
  <2>1. ASSUME HandOut PROVE FALSE
    <3>1. pc = "idle" /\ ~ poisoned
      BY <2>1, <1>1 DEF HandOut, HolderInv
    <3>2. queue[i].state # "cancelled"
      BY <3>1, <1>2 DEF AbandonedInv
    <3>3. queue[i].state # "asked"
      BY <3>1, <1>1, <1>2 DEF AskedInv, Awaits
    <3> QED
      BY <3>2, <3>3, <1>2
  <2> QED
    BY <2>1, SameLease
<1>6. queue'[i].by = queue[i].by
  BY <1>2, DriverQueue DEF Keeps
<1>7. CASE queue[i].state = "cancelled"
  <2>1. poisoned \/ (pc = "undo" /\ ctx = "done")
    BY <1>2, <1>3, <1>7 DEF AbandonedInv
  <2>2. CASE poisoned
    BY <2>2, <1>1, <1>4, <1>5, <1>6, StaysPoisoned
  <2>3. CASE pc = "undo" /\ ctx = "done"
    <3>1. answer = "none"
      BY <2>3, <1>1, <1>2 DEF AskedInv
    <3>2. CASE CtxDone
      BY <2>3, <3>2, <1>4, <1>5, <1>6 DEF CtxDone
    <3>3. CASE RowsClose \/ RowsCancelled
      BY <2>3, <3>3, <1>4, <1>5, <1>6 DEF RowsClose, RowsCancelled, callVars
    <3> QED
      BY <2>3, <3>1, <3>2, <3>3 DEF DriverStep, HandOut, ResetDone, Return, Exec, Query,
         CallDone, Begin, BeginReadOnly, OnDone, BeginDone, BeginFailed, UndoDone, Finish,
         FinishDone, OffDone, Start
  <2> QED
    BY <2>1, <2>2, <2>3
<1> QED
  BY <1>2, <1>4, <1>5, <1>6, <1>7

(* Those of the worker.                                                    *)
LEMMA AbandonedWorker == ASSUME ConnIInv, AbandonedInv, WorkerStep PROVE AbandonedInv'
<1>1. TypeOK
  BY DEF ConnIInv
<1>2. /\ cancellable' = cancellable /\ lease' = lease /\ pc' = pc /\ ctx' = ctx
      /\ poisoned' = poisoned
  BY WorkerFacts DEF goVars
<1>3. ASSUME NEW i \in 1..Len(queue'), queue'[i].state = "cancelled"
      PROVE  \E j \in 1..Len(queue) :
                queue[j].state = "cancelled" /\ queue'[i].by = queue[j].by
  <2>1. CASE queue' = Tail(queue)
    BY <2>1, <1>1, <1>3, WorkerFacts, TailFacts, QueueFacts
  <2>2. CASE queue' = [queue EXCEPT ![1].state = "open"]
    <3>1. queue \in Seq(Entry) /\ Len(queue) \in Nat /\ Len(queue) >= 1
      BY <1>1, WorkerFacts, QueueFacts, TailFacts
    <3>2. i \in 1..Len(queue) /\ queue[1] \in Entry
      BY <2>2, <3>1
    <3>3. i # 1
      <4>1. queue'[1] = [queue[1] EXCEPT !.state = "open"]
        BY <2>2, <3>1
      <4>2. queue'[1].state = "open"
        BY <3>2, <4>1 DEF Entry
      <4> QED
        BY <4>2, <1>3
    <3>4. queue'[i] = queue[i]
      BY <2>2, <3>1, <3>2, <3>3
    <3> QED
      BY <3>2, <3>4, <1>3
  <2> QED
    BY <2>1, <2>2, WorkerFacts
<1> QED
  BY <1>2, <1>3 DEF AbandonedInv

(* Where statements cannot be interrupted, a caller never waits behind a   *)
(* statement that an earlier caller's context abandoned: the connection is *)
(* discarded (conn.go, classify and IsValid), as long as the contexts that *)
(* end are not those of Rows.                                              *)
THEOREM AbandonedDiscarded == ASSUME RowsAreRead PROVE Spec => []AbandonedIsDiscarded
<1>1. Init => ConnIInv /\ AbandonedInv
  <2>1. Init => AbandonedInv
    <3>1. Init => Len(queue) = 0
      BY EmptySeq DEF Init
    <3> QED
      BY <3>1 DEF AbandonedInv
  <2> QED
    BY <2>1, InitHolds
<1>2. (ConnIInv /\ AbandonedInv) /\ [Next]_vars => (ConnIInv /\ AbandonedInv)'
  <2> SUFFICES ASSUME ConnIInv, AbandonedInv, [Next]_vars PROVE AbandonedInv'
    BY StepKeeps
  <2>1. CASE DriverStep
    BY <2>1, RowsAreRead, AbandonedDriver
  <2>2. CASE WorkerStep
    BY <2>2, AbandonedWorker
  <2>3. CASE UNCHANGED vars
    BY <2>3 DEF AbandonedInv, vars, callVars, goVars, dbVars
  <2> QED
    BY <2>1, <2>2, <2>3 DEF Next, DriverStep, WorkerStep
<1>3. ConnIInv /\ AbandonedInv => AbandonedIsDiscarded
  BY DEF AbandonedInv, AbandonedIsDiscarded
<1> QED
  BY <1>1, <1>2, <1>3, PTL DEF Spec
=============================================================================
